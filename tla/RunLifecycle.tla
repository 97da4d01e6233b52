---------------------------- MODULE RunLifecycle ----------------------------
(***************************************************************************)
(* What the run service promises about a run, whatever happens inside it:  *)
(* the client is told one thing at most, never `complete' of a run that is  *)
(* not complete on disk and never `error' of one that is; a run is not      *)
(* forgotten; and what is on disk once the client was told `complete' stays.*)
(***************************************************************************)
CONSTANT Runs

VARIABLES
    verdict,   \* what a restarted server would read of each run
    told       \* what its client has been told

lifecycleVars == <<verdict, told>>

Verdict == {"none", "running", "complete", "failed"}
Told    == {"nothing", "complete", "error"}

LifecycleTypeOK ==
    /\ verdict \in [Runs -> Verdict]
    /\ told    \in [Runs -> Told]

Init ==
    /\ verdict = [r \in Runs |-> "none"]
    /\ told    = [r \in Runs |-> "nothing"]

(* A commit makes any number of pending verdicts durable at once.  A         *)
(* verdict is given once; only a `complete' nobody was told of can turn into *)
(* `failed', when it was committed for a run that took its own commit to     *)
(* have failed.                                                             *)
Follows(r, v, w) ==
    \/ v = w
    \/ v = "none"
    \/ v = "running"  /\ w \in {"complete", "failed"}
    \/ v = "complete" /\ w = "failed" /\ told[r] = "nothing"

Settles ==
    /\ verdict' \in [Runs -> Verdict]
    /\ \A r \in Runs : Follows(r, verdict[r], verdict'[r])

Record == Settles /\ UNCHANGED told

TellComplete(r) ==
    /\ told[r] = "nothing"
    /\ verdict[r] = "complete"
    /\ told' = [told EXCEPT ![r] = "complete"]
    /\ UNCHANGED verdict

(* An error may be told in the step that records it.                        *)
TellError(r) ==
    /\ told[r] = "nothing"
    /\ Settles
    /\ verdict'[r] # "complete"
    /\ told' = [told EXCEPT ![r] = "error"]

Next ==
    \/ Record
    \/ \E r \in Runs : TellComplete(r) \/ TellError(r)

Spec == Init /\ [][Next]_lifecycleVars

=============================================================================
