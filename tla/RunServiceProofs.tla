-------------------------- MODULE RunServiceProofs --------------------------
(***************************************************************************)
(* The service implements RunLifecycle, for any number of requests, reports *)
(* and faults.                                                              *)
(*                                                                          *)
(* A commit flushes what others left pending, so the argument is about two  *)
(* versions of every row: whatever is pending may still follow what is      *)
(* durable (`PendingFollows'), and from the moment a client was told, or    *)
(* its stream holds, a verdict, both versions agree with it and the run's   *)
(* own code writes no more (`CompleteStands', `ErrorStands').               *)
(***************************************************************************)
EXTENDS RunService, FiniteSetTheorems, TLAPS

(* A stream's queue holds at most one verdict, and then its end.            *)
Queue == {<<>>, <<"DONE">>, <<"complete", "DONE">>, <<"error", "DONE">>}

Typed ==
    /\ kind \in [Runs -> Kind]
    /\ pc \in [Runs -> {"idle", "create", "save", "execute", "complete", "fail",
                        "emit", "list", "rm", "rmArts", "end"}]
    /\ row \in [Runs -> Row]
    /\ durable \in [Runs -> Row]
    /\ events \in [Runs -> Queue]
    /\ told \in [Runs -> {"nothing", "complete", "error", "refused"}]

Both(r, s) == row[r].status = s /\ durable[r].status = s

Pruning(r) == pc[r] \in {"list", "rm", "rmArts"}

Unborn(r) ==
    pc[r] \in {"idle", "create"} \/ (pc[r] = "save" /\ kind[r] # "sync")
        => Both(r, "none")

Underway(r) ==
    pc[r] \in {"execute", "complete"} \/ (pc[r] = "save" /\ kind[r] = "sync")
        => Both(r, "running")

Failing(r) ==
    pc[r] = "fail" =>
        /\ row[r].status \in {"running", "complete"}
        /\ durable[r].status \in {"running", "complete"}
        /\ kind[r] = "sync" => Both(r, "running")

Completing(r) ==
    /\ pc[r] = "emit" \/ (Pruning(r) /\ kind[r] = "sync") => Both(r, "complete")
    /\ pc[r] = "emit" => kind[r] # "sync"

(* Nobody is told anything before the run's own code is done with the row.  *)
Silent(r) ==
    /\ pc[r] # "end" /\ ~Pruning(r) => told[r] = "nothing" /\ events[r] = <<>>
    /\ kind[r] = "sync" => events[r] = <<>> /\ (Pruning(r) => told[r] = "nothing")

ToldOnce(r) == told[r] # "nothing" => events[r] \in {<<>>, <<"DONE">>}

CompleteStands(r) ==
    told[r] = "complete" \/ events[r] = <<"complete", "DONE">> => Both(r, "complete")

ErrorStands(r) ==
    told[r] = "error" \/ events[r] = <<"error", "DONE">> => Both(r, "failed")

(* What is pending on the connection may be flushed at any time.            *)
PendingFollows(r) ==
    \/ row[r].status = durable[r].status
    \/ durable[r].status = "none"
    \/ durable[r].status = "running" /\ row[r].status \in {"complete", "failed"}
    \/ durable[r].status = "complete" /\ row[r].status = "failed" /\ told[r] = "nothing"

RunInv(r) ==
    /\ Unborn(r) /\ Underway(r) /\ Failing(r) /\ Completing(r)
    /\ Silent(r) /\ ToldOnce(r) /\ CompleteStands(r) /\ ErrorStands(r)
    /\ PendingFollows(r)

IInv == Typed /\ \A r \in Runs : RunInv(r)

-----------------------------------------------------------------------------
(* Facts that every action uses.                                            *)

(* What a step does not say of a run of its own leaves the run's invariant:  *)
(* somebody else's commit may have flushed its pending change.              *)
Undisturbed(q) ==
    /\ pc'[q] = pc[q] /\ kind'[q] = kind[q]
    /\ events'[q] = events[q] /\ told'[q] = told[q]
    /\ row'[q] = row[q]
    /\ durable'[q] \in {durable[q], row[q]}

LEMMA Frame == ASSUME NEW q \in Runs, RunInv(q), Undisturbed(q)
               PROVE  RunInv(q)'
<1> USE DEF Undisturbed, Both, Pruning
<1>1. Unborn(q)' /\ Underway(q)' /\ Completing(q)'
  BY DEF RunInv, Unborn, Underway, Completing
<1>2. Failing(q)'
  BY DEF RunInv, Failing
<1>3. Silent(q)' /\ ToldOnce(q)'
  BY DEF RunInv, Silent, ToldOnce
<1>4. CompleteStands(q)' /\ ErrorStands(q)' /\ PendingFollows(q)'
  BY DEF RunInv, CompleteStands, ErrorStands, PendingFollows
<1> QED
  BY <1>1, <1>2, <1>3, <1>4 DEF RunInv

(* A step that leaves what was recorded and told is a stutter above.        *)
LEMMA Stutter == ASSUME UNCHANGED <<durable, told>>
                 PROVE  UNCHANGED Lifecycle!lifecycleVars
  BY DEF Lifecycle!lifecycleVars

(* A commit of run r gives every run a verdict that may follow.             *)
LEMMA Commit ==
    ASSUME IInv, NEW r \in Runs, NEW new \in Row, Stored(r, new),
           \/ durable[r].status = "none"
           \/ durable[r].status = new.status
           \/ durable[r].status = "running" /\ new.status \in {"complete", "failed"}
           \/ durable[r].status = "complete" /\ new.status = "failed" /\ told[r] = "nothing"
    PROVE  Lifecycle!Settles
<1>1. /\ durable \in [Runs -> Row] /\ durable' \in [Runs -> Row]
      /\ durable' = [row EXCEPT ![r] = new]
  BY DEF IInv, Typed, Stored, Updated
<1>2. [q \in Runs |-> durable[q].status]' \in [Runs -> Lifecycle!Verdict]
  BY <1>1 DEF Row, Lifecycle!Verdict
<1>3. ASSUME NEW q \in Runs
      PROVE  Lifecycle!Follows(q, [s \in Runs |-> durable[s].status][q],
                                  [s \in Runs |-> durable[s].status]'[q])
  <2>1. CASE q = r
    BY <1>1, <2>1 DEF Lifecycle!Follows, IInv, Typed
  <2>2. CASE q # r
    <3>1. durable'[q] = row[q] /\ PendingFollows(q)
      BY <1>1, <2>2 DEF IInv, RunInv, Typed
    <3> QED
      BY <1>1, <3>1 DEF PendingFollows, Lifecycle!Follows
  <2> QED
    BY <2>1, <2>2
<1> QED
  BY <1>2, <1>3 DEF Lifecycle!Settles

LEMMA NoCommit == ASSUME IInv, UNCHANGED durable PROVE Lifecycle!Settles
<1>1. [q \in Runs |-> durable[q].status]' \in [Runs -> Lifecycle!Verdict]
  BY DEF IInv, Typed, Row, Lifecycle!Verdict
<1>2. ASSUME NEW q \in Runs
      PROVE  Lifecycle!Follows(q, [s \in Runs |-> durable[s].status][q],
                                  [s \in Runs |-> durable[s].status]'[q])
  BY DEF Lifecycle!Follows
<1> QED
  BY <1>1, <1>2 DEF Lifecycle!Settles

LEMMA Assemble == ASSUME IInv, Typed', NEW r \in Runs, RunInv(r)',
                         \A q \in Runs \ {r} : Undisturbed(q)
                  PROVE  IInv'
  BY Frame DEF IInv

Refines == [Lifecycle!Next]_(Lifecycle!lifecycleVars)

LEMMA Unseen == ASSUME UNCHANGED <<durable, told>> PROVE Refines
  BY Stutter DEF Refines

(* A commit that nobody is told of in the same step.                        *)
LEMMA Recorded == ASSUME Lifecycle!Settles, UNCHANGED told PROVE Refines
<1>1. Lifecycle!Record
  BY DEF Lifecycle!Record
<1> QED
  BY <1>1 DEF Refines, Lifecycle!Next

(* An error status or event is told in a step that leaves no `complete'.     *)
LEMMA ToldError ==
    ASSUME IInv, NEW r \in Runs, Lifecycle!Settles, told[r] = "nothing",
           NEW e \in {"error", "refused"}, told' = [told EXCEPT ![r] = e],
           durable' \in [Runs -> Row], durable'[r].status # "complete"
    PROVE  Refines
<1>1. told \in [Runs -> {"nothing", "complete", "error", "refused"}]
  BY DEF IInv, Typed
<1>2. Lifecycle!TellError(r)
  BY <1>1 DEF Lifecycle!TellError
<1> QED
  BY <1>2 DEF Refines, Lifecycle!Next

LEMMA ToldComplete ==
    ASSUME IInv, NEW r \in Runs, UNCHANGED durable, told[r] = "nothing",
           told' = [told EXCEPT ![r] = "complete"], durable[r].status = "complete"
    PROVE  Refines
<1>1. told \in [Runs -> {"nothing", "complete", "error", "refused"}]
  BY DEF IInv, Typed
<1>2. Lifecycle!TellComplete(r)
  BY <1>1 DEF Lifecycle!TellComplete
<1> QED
  BY <1>2 DEF Refines, Lifecycle!Next

-----------------------------------------------------------------------------
(* The actions of a run.  The run's own part of the invariant is proved      *)
(* action by action; `Assemble' adds the other runs.                        *)

LEMMA AcceptStep == ASSUME IInv, NEW r \in Runs, NEW k \in Kind \ {"none"}, Accept(r, k)
                    PROVE  IInv' /\ Refines
<1> USE DEF Accept, Go, store, client
<1>1. Typed'
  BY DEF IInv, Typed, Kind
<1>2. RunInv(r)'
  <2>1. RunInv(r) /\ pc'[r] \in {"create", "save"} /\ kind'[r] = k
           /\ (pc'[r] = "save" => k # "sync") /\ Typed
    BY DEF IInv, Typed, Kind
  <2> QED
    BY <2>1 DEF RunInv, Unborn, Underway, Failing, Completing, Silent, ToldOnce,
                CompleteStands, ErrorStands, PendingFollows, Both, Pruning
<1>3. \A q \in Runs \ {r} : Undisturbed(q)
  BY DEF IInv, Typed, Undisturbed
<1>4. Refines
  BY Unseen
<1> QED
  BY <1>1, <1>2, <1>3, <1>4, Assemble

LEMMA CreateStep == ASSUME IInv, NEW r \in Runs, Create(r)
                    PROVE  IInv' /\ Refines
<1>0. /\ pc[r] = "create" /\ Typed /\ RunInv(r)
      /\ Both(r, "none") /\ told[r] = "nothing" /\ events[r] = <<>>
      /\ Created \in Row
  BY DEF Create, IInv, RunInv, Unborn, Silent, Pruning, Created, Row
<1>1. CASE Stored(r, Created) /\ pc' \in {[pc EXCEPT ![r] = "save"], [pc EXCEPT ![r] = "execute"]}
           /\ (pc'[r] = "save" => kind[r] = "sync") /\ UNCHANGED <<told, kind, events>>
  <2>1. Typed'
    BY <1>0, <1>1 DEF Typed, Stored, Updated
  <2>2. RunInv(r)'
    <3>1. /\ Both(r, "running")' /\ pc'[r] \in {"save", "execute"}
          /\ (pc'[r] = "save" => kind'[r] = "sync")
          /\ told'[r] = "nothing" /\ events'[r] = <<>>
      BY <1>0, <1>1 DEF Typed, Stored, Updated, Both, Created
    <3> QED
      BY <3>1 DEF RunInv, Unborn, Underway, Failing, Completing, Silent, ToldOnce,
                  CompleteStands, ErrorStands, PendingFollows, Both, Pruning
  <2>3. \A q \in Runs \ {r} : Undisturbed(q)
    BY <1>0, <1>1 DEF Typed, Undisturbed, Stored, Updated
  <2>4. Refines
    BY <1>0, <1>1, Commit, Recorded DEF Both
  <2> QED
    BY <2>1, <2>2, <2>3, <2>4, Assemble
<1>2. CASE StoreRaises(r, Created) /\ Answer500(r) /\ UNCHANGED <<kind, events>>
  <2>1. Typed'
    BY <1>0, <1>2 DEF Typed, StoreRaises, Answer500, Go, Updated
  <2>2. RunInv(r)'
    <3>1. /\ durable'[r].status = "none" /\ pc'[r] = "end"
          /\ told'[r] = "refused" /\ events'[r] = <<>>
      BY <1>0, <1>2 DEF Typed, StoreRaises, Answer500, Go, Both
    <3> QED
      BY <3>1 DEF RunInv, Unborn, Underway, Failing, Completing, Silent, ToldOnce,
                  CompleteStands, ErrorStands, PendingFollows, Pruning
  <2>3. \A q \in Runs \ {r} : Undisturbed(q)
    BY <1>0, <1>2 DEF Typed, Undisturbed, StoreRaises, Answer500, Go, Updated
  <2>4. Refines
    BY <1>0, <1>2, NoCommit, ToldError DEF StoreRaises, Answer500, Both, Typed
  <2> QED
    BY <2>1, <2>2, <2>3, <2>4, Assemble
<1> QED
  BY <1>0, <1>1, <1>2 DEF Create, Typed, Go

(* A step of r that only moves on: nothing is recorded, queued or told.      *)
Moves(r) ==
    /\ UNCHANGED <<kind, store, events, told>>
    /\ pc' \in {[pc EXCEPT ![r] = l] :
                   l \in {"create", "execute", "complete", "fail", "rm", "rmArts", "end"}}

LEMMA MovesOn ==
    ASSUME IInv, NEW r \in Runs, Moves(r),
           \/ pc[r] = "save" /\ pc'[r] = "create" /\ kind[r] # "sync"
           \/ pc[r] = "save" /\ pc'[r] \in {"execute", "fail"} /\ kind[r] = "sync"
           \/ pc[r] = "execute" /\ pc'[r] \in {"complete", "fail"}
           \/ Pruning(r) /\ pc'[r] \in {"rm", "rmArts"}
           \/ Pruning(r) /\ pc'[r] = "end" /\ kind[r] # "sync"
    PROVE  IInv' /\ Refines
<1>1. Typed'
  BY DEF Moves, IInv, Typed, store
<1>2. RunInv(r)'
  BY DEF Moves, store, IInv,
         RunInv, Unborn, Underway, Failing, Completing, Silent, ToldOnce,
         CompleteStands, ErrorStands, PendingFollows, Both, Pruning
<1>3. \A q \in Runs \ {r} : Undisturbed(q)
  BY DEF Moves, store, IInv, Typed, Undisturbed
<1>4. Refines
  BY Unseen DEF Moves, store
<1> QED
  BY <1>1, <1>2, <1>3, <1>4, Assemble

LEMMA SaveStep == ASSUME IInv, NEW r \in Runs, Save(r)
                  PROVE  IInv' /\ Refines
<1>0. pc[r] = "save" /\ Typed /\ RunInv(r)
  BY DEF Save, IInv
<1>1. CASE /\ Moves(r)
           /\ \/ pc'[r] = "create" /\ kind[r] # "sync"
              \/ pc'[r] \in {"execute", "fail"} /\ kind[r] = "sync"
  BY <1>0, <1>1, MovesOn
<1>2. CASE kind[r] # "sync" /\ Answer500(r) /\ UNCHANGED <<kind, store, events>>
  <2>0. durable[r].status = "none" /\ told[r] = "nothing" /\ events[r] = <<>>
    BY <1>0, <1>2 DEF RunInv, Unborn, Silent, Both, Pruning
  <2>1. Typed'
    BY <1>0, <1>2 DEF Typed, Answer500, Go, store
  <2>2. RunInv(r)'
    <3>1. /\ durable'[r].status = "none" /\ pc'[r] = "end"
          /\ told'[r] = "refused" /\ events'[r] = <<>>
      BY <1>0, <1>2, <2>0 DEF Typed, Answer500, Go, store
    <3> QED
      BY <3>1 DEF RunInv, Unborn, Underway, Failing, Completing, Silent, ToldOnce,
          CompleteStands, ErrorStands, PendingFollows, Both, Pruning
  <2>3. \A q \in Runs \ {r} : Undisturbed(q)
    BY <1>0, <1>2 DEF Typed, Undisturbed, Answer500, Go, store
  <2>4. Refines
    BY <1>0, <1>2, <2>0, NoCommit, ToldError DEF Answer500, store, Typed
  <2> QED
    BY <2>1, <2>2, <2>3, <2>4, Assemble
<1>3. UNCHANGED <<kind, store, events>>
  BY DEF Save
<1>4. CASE told' = told /\ Go(r, IF kind[r] = "sync" THEN "execute" ELSE "create")
  <2>1. Moves(r) /\ pc'[r] = (IF kind[r] = "sync" THEN "execute" ELSE "create")
    BY <1>0, <1>3, <1>4 DEF Go, Moves, Typed
  <2> QED
    BY <1>1, <2>1
<1>5. CASE kind[r] = "sync" /\ told' = told /\ Go(r, "fail")
  BY <1>0, <1>1, <1>3, <1>5 DEF Go, Moves, Typed
<1>6. CASE kind[r] # "sync" /\ Answer500(r)
  BY <1>2, <1>3, <1>6
<1> QED
  BY <1>4, <1>5, <1>6 DEF Save

LEMMA ExecuteStep == ASSUME IInv, NEW r \in Runs, Execute(r)
                     PROVE  IInv' /\ Refines
<1>1. Moves(r) /\ pc[r] = "execute" /\ pc'[r] \in {"complete", "fail"}
  BY DEF Execute, Go, Moves, client, IInv, Typed
<1> QED
  BY <1>1, MovesOn

LEMMA CompleteStep == ASSUME IInv, NEW r \in Runs, Complete(r)
                      PROVE  IInv' /\ Refines
<1>0. /\ pc[r] = "complete" /\ Typed /\ RunInv(r)
      /\ Both(r, "running") /\ told[r] = "nothing" /\ events[r] = <<>>
      /\ Completed \in Row /\ Completed.status = "complete"
  BY DEF Complete, IInv, RunInv, Underway, Silent, Pruning, Completed, Row
<1>1. CASE /\ Stored(r, Completed) /\ Go(r, IF kind[r] = "sync" THEN "list" ELSE "emit")
           /\ UNCHANGED <<told, kind, events>>
  <2>1. Typed'
    BY <1>0, <1>1 DEF Typed, Stored, Updated, Go
  <2>2. RunInv(r)'
    <3>1. /\ Both(r, "complete")' /\ pc'[r] \in {"list", "emit"}
          /\ pc'[r] = "emit" => kind'[r] # "sync"
          /\ told'[r] = "nothing" /\ events'[r] = <<>>
      BY <1>0, <1>1 DEF Typed, Stored, Updated, Both, Go
    <3> QED
      BY <3>1 DEF RunInv, Unborn, Underway, Failing, Completing, Silent, ToldOnce,
          CompleteStands, ErrorStands, PendingFollows, Both, Pruning
  <2>3. \A q \in Runs \ {r} : Undisturbed(q)
    BY <1>0, <1>1 DEF Typed, Undisturbed, Stored, Updated, Go
  <2>4. Refines
    BY <1>0, <1>1, Commit, Recorded DEF Both
  <2> QED
    BY <2>1, <2>2, <2>3, <2>4, Assemble
<1>2. CASE /\ StoreRaises(r, Completed) /\ UNCHANGED <<kind, events>>
           /\ \/ kind[r] = "sync" /\ Answer500(r)
              \/ kind[r] # "sync" /\ Go(r, "fail") /\ UNCHANGED told
  <2>0. row'[r].status \in {"running", "complete"} /\ durable'[r].status = "running"
    BY <1>0, <1>2 DEF Typed, StoreRaises, Updated, Both
  <2>1. Typed'
    BY <1>0, <1>2 DEF Typed, StoreRaises, Answer500, Go, Updated
  <2>2. RunInv(r)'
    <3>1. /\ \/ pc'[r] = "end" /\ told'[r] = "refused"
             \/ pc'[r] = "fail" /\ told'[r] = "nothing" /\ kind'[r] # "sync"
          /\ events'[r] = <<>>
      BY <1>0, <1>2 DEF Typed, Answer500, Go
    <3> QED
      BY <2>0, <3>1 DEF RunInv, Unborn, Underway, Failing, Completing, Silent, ToldOnce,
          CompleteStands, ErrorStands, PendingFollows, Both, Pruning
  <2>3. \A q \in Runs \ {r} : Undisturbed(q)
    BY <1>0, <1>2 DEF Typed, Undisturbed, StoreRaises, Answer500, Go, Updated
  <2>4. CASE kind[r] = "sync"
    <3>1. Refines
      BY <1>0, <1>2, <2>1, <2>0, <2>4, NoCommit, ToldError DEF StoreRaises, Answer500, Typed
    <3> QED
      BY <3>1, <2>1, <2>2, <2>3, Assemble
  <2>5. CASE kind[r] # "sync"
    <3>1. Refines
      BY <1>2, <2>5, Unseen DEF StoreRaises
    <3> QED
      BY <3>1, <2>1, <2>2, <2>3, Assemble
  <2> QED
    BY <2>4, <2>5
<1> QED
  BY <1>0, <1>1, <1>2 DEF Complete

(* `store.fail' and what follows it, on the handler and on the worker.       *)
LEMMA FailStep == ASSUME IInv, NEW r \in Runs, Fail(r)
                  PROVE  IInv' /\ Refines
<1>0. /\ pc[r] = "fail" /\ Typed /\ RunInv(r)
      /\ told[r] = "nothing" /\ events[r] = <<>>
      /\ row[r].status \in {"running", "complete"}
      /\ durable[r].status \in {"running", "complete"}
      /\ kind[r] = "sync" => Both(r, "running")
  BY DEF Fail, IInv, RunInv, Failing, Silent, Pruning
<1>1. Failed(r) \in Row /\ Failed(r).status = "failed"
  BY <1>0 DEF Failed, Typed, Row
<1>2. /\ kind' = kind
      /\ \/ kind[r] = "sync" /\ Answer500(r)
         \/ kind[r] # "sync" /\ Go(r, "list") /\ UNCHANGED told
  BY DEF Fail
<1>3. /\ pc' \in {[pc EXCEPT ![r] = l] : l \in {"list", "end"}}
      /\ pc'[r] = (IF kind[r] = "sync" THEN "end" ELSE "list")
      /\ told' = (IF kind[r] = "sync" THEN [told EXCEPT ![r] = "refused"] ELSE told)
      /\ kind[r] = "sync" => told'[r] = "refused"
  BY <1>0, <1>2 DEF Answer500, Go, Typed
<1>4. CASE Stored(r, Failed(r)) /\ Emits(r, <<"error", "DONE">>)
  <2>0. /\ Both(r, "failed")' /\ row' = [row EXCEPT ![r] = Failed(r)] /\ durable' = row'
        /\ events' = (IF kind[r] = "stream"
                      THEN [events EXCEPT ![r] = <<"error", "DONE">>] ELSE events)
    BY <1>0, <1>1, <1>4 DEF Typed, Stored, Updated, Both, Emits
  <2>1. Typed'
    BY <1>0, <1>1, <1>2, <1>3, <2>0 DEF Typed, Queue
  <2>2. RunInv(r)'
    <3>1. events'[r] = (IF kind[r] = "stream" THEN <<"error", "DONE">> ELSE <<>>)
      BY <1>0, <2>0 DEF Typed
    <3> QED
      BY <1>0, <1>2, <1>3, <2>0, <3>1 DEF RunInv, Unborn, Underway, Failing, Completing, Silent, ToldOnce,
          CompleteStands, ErrorStands, PendingFollows, Both, Pruning
  <2>3. \A q \in Runs \ {r} : Undisturbed(q)
    BY <1>0, <1>2, <1>3, <2>0 DEF Typed, Undisturbed
  <2>4. Lifecycle!Settles
    BY <1>0, <1>1, <1>4, Commit
  <2>5. Refines
    BY <1>0, <1>3, <2>0, <2>1, <2>4, Recorded, ToldError DEF Typed, Both
  <2> QED
    BY <2>1, <2>2, <2>3, <2>5, Assemble
<1>5. CASE StoreRaises(r, Failed(r)) /\ Emits(r, <<"DONE">>)
  <2>0. /\ row' \in {row, [row EXCEPT ![r] = Failed(r)]} /\ durable' = durable
        /\ events' = (IF kind[r] = "stream"
                      THEN [events EXCEPT ![r] = <<"DONE">>] ELSE events)
    BY <1>0, <1>5 DEF Typed, StoreRaises, Updated, Emits
  <2>1. Typed'
    BY <1>0, <1>1, <1>2, <1>3, <2>0 DEF Typed, Queue
  <2>2. RunInv(r)'
    <3>1. /\ events'[r] = (IF kind[r] = "stream" THEN <<"DONE">> ELSE <<>>)
          /\ row'[r].status \in {row[r].status, "failed"}
      BY <1>0, <1>1, <2>0 DEF Typed
    <3>2. PendingFollows(r)'
      BY <1>0, <1>3, <2>0, <3>1 DEF RunInv, PendingFollows, Both
    <3> QED
      BY <1>0, <1>2, <1>3, <2>0, <3>1, <3>2
      DEF RunInv, Unborn, Underway, Failing, Completing, Silent, ToldOnce,
          CompleteStands, ErrorStands, Pruning
  <2>3. \A q \in Runs \ {r} : Undisturbed(q)
    BY <1>0, <1>2, <1>3, <2>0 DEF Typed, Undisturbed
  <2>4. Refines
    BY <1>0, <1>3, <2>0, <2>1, NoCommit, Unseen, ToldError DEF Typed, Both
  <2> QED
    BY <2>1, <2>2, <2>3, <2>4, Assemble
<1> QED
  BY <1>4, <1>5 DEF Fail

(* The trace is serialised for the client, or not.                          *)
LEMMA EmitStep == ASSUME IInv, NEW r \in Runs, Emit(r)
                  PROVE  IInv' /\ Refines
<1>0. /\ pc[r] = "emit" /\ Typed /\ RunInv(r) /\ Both(r, "complete")
      /\ told[r] = "nothing" /\ events[r] = <<>>
  BY DEF Emit, IInv, RunInv, Completing, Silent, Pruning
<1>1. /\ UNCHANGED <<kind, row, durable, told>>
      /\ pc' \in {[pc EXCEPT ![r] = l] : l \in {"list", "fail"}}
      /\ events' \in {events, [events EXCEPT ![r] = <<"complete", "DONE">>]}
      /\ pc'[r] = "list" \/ (pc'[r] = "fail" /\ events' = events)
      /\ kind[r] # "sync"
  BY <1>0 DEF RunInv, Completing, Emit, Emits, Go, store, client, Typed
<1>2. Typed'
  BY <1>0, <1>1 DEF Typed, Queue
<1>3. RunInv(r)'
  <2>1. events'[r] \in {<<>>, <<"complete", "DONE">>}
    BY <1>0, <1>1 DEF Typed
  <2> QED
    BY <1>0, <1>1, <2>1 DEF RunInv, Unborn, Underway, Failing, Completing, Silent, ToldOnce,
          CompleteStands, ErrorStands, PendingFollows, Both, Pruning
<1>4. \A q \in Runs \ {r} : Undisturbed(q)
  BY <1>0, <1>1 DEF Typed, Undisturbed
<1> QED
  BY <1>1, <1>2, <1>3, <1>4, Unseen, Assemble

LEMMA FinishStep == ASSUME IInv, NEW r \in Runs, Finish(r), Pruning(r),
                           UNCHANGED <<kind, store, events>>
                    PROVE  IInv' /\ Refines
<1>0. Typed /\ RunInv(r)
  BY DEF IInv
<1>1. CASE kind[r] # "sync"
  <2>1. Moves(r) /\ pc'[r] = "end"
    BY <1>0, <1>1 DEF Finish, Go, Moves, Typed
  <2> QED
    BY <1>1, <2>1, MovesOn
<1>2. CASE kind[r] = "sync"
  <2>0. Both(r, "complete") /\ told[r] = "nothing" /\ events[r] = <<>>
    BY <1>0, <1>2 DEF RunInv, Completing, Silent
  <2>1. Typed'
    BY <1>0, <1>2 DEF Typed, Finish, Go, store
  <2>2. RunInv(r)'
    <3>1. /\ Both(r, "complete")' /\ pc'[r] = "end"
          /\ told'[r] = "complete" /\ events'[r] = <<>>
      BY <1>0, <1>2, <2>0 DEF Typed, Finish, Go, store, Both
    <3> QED
      BY <3>1 DEF RunInv, Unborn, Underway, Failing, Completing, Silent, ToldOnce,
          CompleteStands, ErrorStands, PendingFollows, Both, Pruning
  <2>3. \A q \in Runs \ {r} : Undisturbed(q)
    BY <1>0, <1>2 DEF Typed, Undisturbed, Finish, Go, store
  <2>4. Refines
    BY <1>2, <2>0, ToldComplete DEF Finish, store, Both
  <2> QED
    BY <2>1, <2>2, <2>3, <2>4, Assemble
<1> QED
  BY <1>1, <1>2

(* `_prune_run_dirs' and the artifacts after it.                            *)
LEMMA PruneStep == ASSUME IInv, NEW r \in Runs, List(r) \/ Rm(r) \/ RmArts(r)
                   PROVE  IInv' /\ Refines
<1>0. Pruning(r) /\ UNCHANGED <<kind, store, events>>
  BY DEF List, Rm, RmArts, Pruning
<1>1. CASE Finish(r)
  BY <1>0, <1>1, FinishStep
<1>2. CASE told' = told /\ \E l \in {"rm", "rmArts"} : Go(r, l)
  <2>1. Moves(r) /\ pc'[r] \in {"rm", "rmArts"}
    BY <1>0, <1>2 DEF Moves, Go, IInv, Typed
  <2> QED
    BY <1>0, <2>1, MovesOn
<1> QED
  BY <1>1, <1>2 DEF List, Rm, RmArts, client

(* One event reaches the client.                                            *)
LEMMA DeliverStep == ASSUME IInv, NEW r \in Runs, Deliver(r)
                     PROVE  IInv' /\ Refines
<1>0. Typed /\ RunInv(r) /\ UNCHANGED <<kind, pc, row, durable>>
      /\ events' = [events EXCEPT ![r] = Tail(events[r])]
      /\ told' = (IF Head(events[r]) \in {"complete", "error"}
                  THEN [told EXCEPT ![r] = Head(events[r])] ELSE told)
      /\ events[r] \in Queue \ {<<>>}
  BY DEF Deliver, IInv, store, Typed
<1>1. \A q \in Runs \ {r} : Undisturbed(q)
  BY <1>0 DEF Typed, Undisturbed
<1>2. pc[r] = "end" \/ Pruning(r)
  BY <1>0 DEF RunInv, Silent
<1>3. kind[r] # "sync"
  BY <1>0 DEF RunInv, Silent
<1>4. CASE events[r] = <<"DONE">>
  <2>1. events' = [events EXCEPT ![r] = <<>>] /\ told' = told
    BY <1>0, <1>4
  <2>2. Typed'
    BY <1>0, <2>1 DEF Typed, Queue
  <2>3. RunInv(r)'
    BY <1>0, <1>2, <1>3, <1>4, <2>1 DEF Typed, RunInv, Unborn, Underway, Failing, Completing, Silent, ToldOnce,
          CompleteStands, ErrorStands, PendingFollows, Both, Pruning
  <2> QED
    BY <1>0, <1>1, <2>1, <2>2, <2>3, Unseen, Assemble
<1>5. ASSUME NEW e \in {"complete", "error"}, events[r] = <<e, "DONE">>
      PROVE  IInv' /\ Refines
  <2>1. events' = [events EXCEPT ![r] = <<"DONE">>] /\ told' = [told EXCEPT ![r] = e]
    BY <1>0, <1>5
  <2>2. told[r] = "nothing"
    BY <1>0, <1>5 DEF RunInv, ToldOnce, Typed
  <2>3. Both(r, IF e = "complete" THEN "complete" ELSE "failed")
    BY <1>0, <1>5 DEF RunInv, CompleteStands, ErrorStands
  <2>4. Typed'
    <3>1. events' \in [Runs -> Queue]
      BY <1>0, <2>1 DEF Typed, Queue
    <3>2. told' \in [Runs -> {"nothing", "complete", "error", "refused"}]
      BY <1>0, <2>1 DEF Typed
    <3> QED
      BY <1>0, <3>1, <3>2 DEF Typed
  <2>5. RunInv(r)'
    <3>1. events'[r] = <<"DONE">> /\ told'[r] = e
      BY <1>0, <2>1 DEF Typed
    <3> QED
      BY <1>0, <1>2, <1>3, <2>3, <3>1 DEF RunInv, Unborn, Underway, Failing, Completing, Silent, ToldOnce,
          CompleteStands, ErrorStands, PendingFollows, Both, Pruning
  <2>6. Refines
    <3>1. CASE e = "complete"
      BY <1>0, <2>1, <2>2, <2>3, <3>1, ToldComplete DEF Both
    <3>2. CASE e = "error"
      BY <1>0, <2>1, <2>2, <2>3, <2>4, <3>2, NoCommit, ToldError DEF Both, Typed
    <3> QED
      BY <3>1, <3>2
  <2> QED
    BY <1>1, <2>4, <2>5, <2>6, Assemble
<1> QED
  BY <1>0, <1>4, <1>5 DEF Queue

(* With the process go its threads, queues and pending changes; every run   *)
(* is left with what is on disk.                                            *)
LEMMA DeathStep == ASSUME IInv, ServerDies PROVE IInv' /\ Refines
<1>0. /\ Typed /\ UNCHANGED <<kind, durable, told>> /\ row' = durable
      /\ pc' = [r \in Runs |-> IF Active(r) THEN "end" ELSE pc[r]]
      /\ events' = [r \in Runs |-> <<>>]
  BY DEF ServerDies, IInv
<1>1. Typed'
  BY <1>0 DEF Typed, Queue
<1>2. ASSUME NEW r \in Runs PROVE RunInv(r)'
  <2>1. /\ RunInv(r) /\ row'[r] = durable'[r] /\ events'[r] = <<>>
        /\ pc'[r] = "end" \/ (pc'[r] = "idle" /\ pc[r] = "idle")
    BY <1>0 DEF IInv, Typed, Active
  <2> QED
    BY <1>0, <2>1 DEF RunInv, Unborn, Underway, Failing, Completing, Silent, ToldOnce,
          CompleteStands, ErrorStands, PendingFollows, Both, Pruning
<1> QED
  BY <1>0, <1>1, <1>2, Unseen DEF IInv

LEMMA IdleStep == ASSUME IInv, UNCHANGED <<kind, pc, row, durable, events, told>>
                  PROVE  IInv' /\ Refines
<1>1. \A q \in Runs : Undisturbed(q)
  BY DEF Undisturbed
<1> QED
  BY <1>1, Frame, Unseen DEF IInv, Typed

-----------------------------------------------------------------------------
(* The theorems.                                                            *)

LEMMA Initially == Init => IInv /\ Lifecycle!Init
<1> SUFFICES ASSUME Init PROVE IInv /\ Lifecycle!Init
  OBVIOUS
<1>1. Typed
  BY DEF Init, Typed, Kind, Queue, Row, Absent
<1>2. \A r \in Runs : RunInv(r)
  BY DEF Init, Absent, RunInv, Unborn, Underway, Failing, Completing, Silent, ToldOnce,
          CompleteStands, ErrorStands, PendingFollows, Both, Pruning
<1>3. Lifecycle!Init
  BY DEF Init, Absent, Lifecycle!Init
<1> QED
  BY <1>1, <1>2, <1>3 DEF IInv

LEMMA EveryStep == IInv /\ [Next]_vars => IInv' /\ Refines
<1> SUFFICES ASSUME IInv, [Next]_vars PROVE IInv' /\ Refines
  OBVIOUS
<1>1. ASSUME NEW r \in Runs, Step(r) \/ Deliver(r) PROVE IInv' /\ Refines
  BY <1>1, CreateStep, SaveStep, ExecuteStep, CompleteStep, FailStep, EmitStep,
     PruneStep, DeliverStep DEF Step
<1>2. ASSUME NEW r \in Runs, NEW k \in Kind \ {"none"}, Accept(r, k)
      PROVE  IInv' /\ Refines
  BY <1>2, AcceptStep
<1>3. ASSUME NEW p \in Reports, Report(p) PROVE IInv' /\ Refines
  BY <1>3, IdleStep DEF Report, store, client
<1>4. CASE ServerDies
  BY <1>4, DeathStep
<1>5. CASE Restart
  BY <1>5, IdleStep DEF Restart, store, client
<1>6. CASE UNCHANGED vars
  BY <1>6, IdleStep DEF vars
<1> QED
  BY <1>1, <1>2, <1>3, <1>4, <1>5, <1>6 DEF Next

LEMMA Invariance == Spec => []IInv
<1>1. Init => IInv
  BY Initially
<1>2. IInv /\ [Next]_vars => IInv'
  BY EveryStep
<1> QED
  BY <1>1, <1>2, PTL DEF Spec

(* The service implements RunLifecycle: a verdict on disk stays, a client is *)
(* told one thing, and `complete' only of a run that is complete on disk,    *)
(* whatever raises, whatever is left pending and whenever the server dies.  *)
THEOREM Implements == Spec => LifecycleKept
<1>1. Init => Lifecycle!Init
  BY Initially
<1>2. IInv /\ [Next]_vars => [Lifecycle!Next]_(Lifecycle!lifecycleVars)
  BY EveryStep DEF Refines
<1> QED
  BY <1>1, <1>2, Invariance, PTL DEF Spec, LifecycleKept, Lifecycle!Spec

(* A stream that reported an error is a run on record as failed, and no      *)
(* pending change that a later commit flushes makes it anything else.       *)
THEOREM StreamErrorsRecorded == Spec => []StreamErrorsAgree
<1>1. IInv => StreamErrorsAgree
  BY DEF IInv, RunInv, ErrorStands, Both, StreamErrorsAgree
<1> QED
  BY <1>1, Invariance, PTL

-----------------------------------------------------------------------------
(* What is evicted.                                                         *)

Before == {"idle", "create", "save", "execute"}    \* no artifacts yet

(* What was written last after a directory was written after it was made.   *)
Known(s, old) ==
    /\ DOMAIN s \subseteq DOMAIN old
    /\ \A d \in DOMAIN s : s[d] \subseteq old[d] /\ IsFiniteSet(old[d])

Aged(S) == Cardinality(S) >= Keep

(* A list of what is to go stays right: what it names and is there has aged,  *)
(* and what it names and is gone does not come back.                        *)
Listed(q) ==
    /\ pc[q] = "rm" => \A d \in doomed[q] :
          /\ d \in Runs => pc[d] # "idle"
          /\ d \in DOMAIN dirs => Aged(since.dirs[d])
    /\ pc[q] = "rmArts" => \A d \in doomed[q] :
          /\ d \in Runs /\ pc[d] \notin Before
          /\ d \in DOMAIN arts => Aged(since.arts[d])

FilesTyped ==
    /\ since = [dirs |-> since.dirs, arts |-> since.arts]
    /\ DOMAIN since.dirs = Runs \cup Reports /\ DOMAIN since.arts = Runs
    /\ DOMAIN doomed = Runs /\ doomed = [r \in Runs |-> doomed[r]]
    /\ DOMAIN pc = Runs /\ pc = [r \in Runs |-> pc[r]]

FilesInv ==
    /\ FilesTyped
    /\ Known(dirs, since.dirs) /\ Known(arts, since.arts)
    /\ \A r \in Runs : /\ pc[r] = "idle" => r \notin DOMAIN dirs
                       /\ pc[r] \in Before => r \notin DOMAIN arts
                       /\ Listed(r)

LEMMA Ages ==
    ASSUME NEW S, IsFiniteSet(S), NEW d, NEW e
    PROVE  IsFiniteSet(S \cup ({d} \ {e})) /\ (Aged(S) => Aged(S \cup ({d} \ {e})))
<1>1. IsFiniteSet(S \cup {d}) /\ S \subseteq S \cup {d}
  BY FS_AddElement
<1>2. Cardinality(S) \in Nat /\ Cardinality(S \cup {d}) \in Nat
      /\ Cardinality(S) <= Cardinality(S \cup {d})
  BY <1>1, FS_Subset, FS_CardinalityType
<1>3. S \cup ({d} \ {e}) = S \/ S \cup ({d} \ {e}) = S \cup {d}
  OBVIOUS
<1> QED
  BY <1>1, <1>2, <1>3, ServiceAssumption DEF Aged, ServiceAssumption

LEMMA Writes ==
    ASSUME NEW s, NEW old, Known(s, old), NEW d \in DOMAIN old
    PROVE  /\ Known(Touched(s, d), Wrote(s, old, d))
           /\ DOMAIN Touched(s, d) = DOMAIN s \cup {d}
           /\ DOMAIN Wrote(s, old, d) = DOMAIN old
           /\ \A e \in DOMAIN s : Aged(old[e]) => Aged(Wrote(s, old, d)[e])
<1> DEFINE on == Touched(s, d)
           new == Wrote(s, old, d)
<1>1. DOMAIN on = DOMAIN s \cup {d} /\ DOMAIN new = DOMAIN old
  BY DEF Touched, Wrote
<1>2. \A e \in DOMAIN s : new[e] = old[e] \cup ({d} \ {e})
  BY DEF Known, Wrote
<1>3. \A e \in DOMAIN s : IsFiniteSet(new[e]) /\ (Aged(old[e]) => Aged(new[e]))
  <2> SUFFICES ASSUME NEW e \in DOMAIN s
               PROVE  IsFiniteSet(new[e]) /\ (Aged(old[e]) => Aged(new[e]))
    OBVIOUS
  <2>1. IsFiniteSet(old[e])
    BY DEF Known
  <2>2. /\ IsFiniteSet(old[e] \cup ({d} \ {e}))
        /\ Aged(old[e]) => Aged(old[e] \cup ({d} \ {e}))
    BY <2>1, Ages
  <2> QED
    BY <1>2, <2>2
<1>4. ASSUME NEW e \in DOMAIN on PROVE on[e] \subseteq new[e] /\ IsFiniteSet(new[e])
  <2>1. CASE e \in DOMAIN s
    BY <1>2, <1>3, <2>1 DEF Touched, Known
  <2>2. CASE e \notin DOMAIN s
    <3>1. e = d /\ on[e] = {} /\ new[e] = {}
      BY <1>1, <2>2 DEF Touched, Wrote
    <3> QED
      BY <3>1, FS_EmptySet
  <2> QED
    BY <2>1, <2>2
<1> QED
  BY <1>1, <1>3, <1>4 DEF Known

LEMMA Removes ==
    ASSUME NEW s, NEW old, Known(s, old), NEW gone
    PROVE  Known(Without(s, gone), old) /\ DOMAIN Without(s, gone) = DOMAIN s \ gone
BY DEF Known, Without

(* Those that sort behind `Keep' others.                                     *)
LEMMA Lists ==
    ASSUME NEW s, NEW old, Known(s, old)
    PROVE  StaleOf(s) \subseteq DOMAIN s /\ \A d \in StaleOf(s) : Aged(old[d])
<1> SUFFICES ASSUME NEW d \in StaleOf(s) PROVE Aged(old[d])
  BY DEF StaleOf
<1>1. s[d] \subseteq old[d] /\ IsFiniteSet(old[d]) /\ Cardinality(s[d]) >= Keep
  BY DEF StaleOf, Known
<1>2. /\ Cardinality(s[d]) \in Nat /\ Cardinality(old[d]) \in Nat
      /\ Cardinality(s[d]) <= Cardinality(old[d])
  BY <1>1, FS_Subset, FS_CardinalityType
<1> QED
  BY <1>1, <1>2, ServiceAssumption DEF Aged, ServiceAssumption

LEMMA FilesStart == Init => FilesInv
<1> SUFFICES ASSUME Init PROVE FilesInv
  OBVIOUS
<1>1. FilesTyped
  BY DEF Init, FilesTyped
<1>2. Known(dirs, since.dirs) /\ Known(arts, since.arts)
  BY DEF Init, Known
<1> QED
  BY <1>1, <1>2 DEF Init, FilesInv, Listed

(* A step of a run that touches no directory.                                *)
LEMMA FilesApart ==
    ASSUME FilesInv, UNCHANGED files, NEW r \in Runs, NEW l, Go(r, l),
           l \notin {"idle", "rm", "rmArts"}, pc[r] # "idle",
           l \in Before => pc[r] \in Before
    PROVE  FilesInv'
<1>1. \A q \in Runs : pc'[q] = IF q = r THEN l ELSE pc[q]
  BY DEF Go, FilesInv, FilesTyped
<1>2. UNCHANGED <<dirs, arts, doomed, since>>
  BY DEF files
<1>3. FilesTyped'
  BY <1>2 DEF FilesInv, FilesTyped, Go
<1>4. ASSUME NEW q \in Runs PROVE Listed(q)'
  BY <1>1, <1>2 DEF FilesInv, Listed, Before
<1> QED
  BY <1>1, <1>2, <1>3, <1>4 DEF FilesInv, Known

(* One that writes to its uploads, or removes them.                          *)
LEMMA UploadsMove ==
    ASSUME FilesInv, UNCHANGED <<arts, doomed>>, NEW r \in Runs, NEW l, Go(r, l),
           l \notin {"idle", "rm", "rmArts"}, l \in Before => pc[r] \in Before,
           \/ dirs' = Touched(dirs, r) /\ since' = [since EXCEPT !.dirs = Wrote(dirs, @, r)]
           \/ dirs' = Without(dirs, {r}) /\ UNCHANGED since,
           pc[r] = "idle" => r \notin DOMAIN dirs,
           pc[r] = "idle" \/ r \in DOMAIN dirs \/ dirs' = Without(dirs, {r})
    PROVE  FilesInv'
<1>1. \A q \in Runs : pc'[q] = IF q = r THEN l ELSE pc[q]
  BY DEF Go, FilesInv, FilesTyped
<1>2. /\ since'.arts = since.arts /\ since' = [dirs |-> since'.dirs, arts |-> since'.arts]
      /\ Known(dirs, since.dirs) /\ Known(dirs', since'.dirs)
      /\ DOMAIN since'.dirs = DOMAIN since.dirs
      /\ DOMAIN dirs' \subseteq DOMAIN dirs \cup {r}
      /\ \A e \in DOMAIN dirs : Aged(since.dirs[e]) => Aged(since'.dirs[e])
  <2>1. CASE dirs' = Touched(dirs, r) /\ since' = [since EXCEPT !.dirs = Wrote(dirs, @, r)]
    <3>1. since' = [dirs |-> Wrote(dirs, since.dirs, r), arts |-> since.arts]
      BY <2>1 DEF FilesInv, FilesTyped
    <3>2. r \in DOMAIN since.dirs /\ Known(dirs, since.dirs)
      BY DEF FilesInv, FilesTyped
    <3>3. /\ Known(Touched(dirs, r), Wrote(dirs, since.dirs, r))
          /\ DOMAIN Touched(dirs, r) = DOMAIN dirs \cup {r}
          /\ DOMAIN Wrote(dirs, since.dirs, r) = DOMAIN since.dirs
          /\ \A e \in DOMAIN dirs :
                Aged(since.dirs[e]) => Aged(Wrote(dirs, since.dirs, r)[e])
      BY <3>2, Writes
    <3> QED
      BY <2>1, <3>1, <3>2, <3>3
  <2>2. CASE dirs' = Without(dirs, {r}) /\ UNCHANGED since
    <3>1. Known(dirs, since.dirs) /\ since = [dirs |-> since.dirs, arts |-> since.arts]
      BY DEF FilesInv, FilesTyped
    <3>2. Known(Without(dirs, {r}), since.dirs)
          /\ DOMAIN Without(dirs, {r}) = DOMAIN dirs \ {r}
      BY <3>1, Removes
    <3> QED
      BY <2>2, <3>1, <3>2
  <2> QED
    BY <2>1, <2>2
<1>3. FilesTyped'
  BY <1>2 DEF FilesInv, FilesTyped, Go
<1>4. ASSUME NEW q \in Runs PROVE Listed(q)'
  <2>1. Listed(q) /\ doomed'[q] = doomed[q]
    BY DEF FilesInv
  <2>2. pc'[q] \in {"rm", "rmArts"} => pc'[q] = pc[q]
    BY <1>1
  <2>3. pc'[q] = "rm" => \A d \in doomed'[q] :
           (d \in Runs => pc'[d] # "idle") /\ (d \in DOMAIN dirs' => Aged(since'.dirs[d]))
    <3> SUFFICES ASSUME pc'[q] = "rm", NEW d \in doomed'[q]
                 PROVE  /\ d \in Runs => pc'[d] # "idle"
                        /\ d \in DOMAIN dirs' => Aged(since'.dirs[d])
      OBVIOUS
    <3>1. /\ d \in Runs => pc[d] # "idle"
          /\ d \in DOMAIN dirs => Aged(since.dirs[d])
      BY <2>1, <2>2 DEF Listed
    <3>2. d \in Runs => pc'[d] # "idle"
      BY <1>1, <3>1
    <3>3. CASE d \in DOMAIN dirs
      BY <1>2, <3>1, <3>2, <3>3
    <3>4. CASE d \notin DOMAIN dirs /\ d \in DOMAIN dirs'
      <4>1. d = r /\ pc[r] # "idle"
        BY <1>2, <3>1, <3>4
      <4>2. dirs' # Without(dirs, {r})
        BY <3>4 DEF Without
      <4> QED
        BY <3>4, <4>1, <4>2
    <3> QED
      BY <3>2, <3>3, <3>4
  <2>4. pc'[q] = "rmArts" => \A d \in doomed'[q] :
           /\ d \in Runs /\ pc'[d] \notin Before
           /\ d \in DOMAIN arts' => Aged(since'.arts[d])
    BY <1>1, <1>2, <2>1, <2>2 DEF Listed
  <2> QED
    BY <2>3, <2>4 DEF Listed
<1> QED
  BY <1>1, <1>2, <1>3, <1>4 DEF FilesInv

LEMMA ReportMoves == ASSUME FilesInv, NEW p \in Reports, Report(p) PROVE FilesInv'
<1>1. /\ UNCHANGED <<pc, arts, doomed>> /\ dirs' = Touched(dirs, p)
      /\ since' = [dirs |-> Wrote(dirs, since.dirs, p), arts |-> since.arts]
      /\ \A q \in Runs : p \notin doomed[q]
  BY DEF Report, FilesInv, FilesTyped
<1>2. /\ Known(dirs', since'.dirs) /\ DOMAIN dirs' = DOMAIN dirs \cup {p}
      /\ DOMAIN since'.dirs = DOMAIN since.dirs
      /\ \A e \in DOMAIN dirs : Aged(since.dirs[e]) => Aged(since'.dirs[e])
  <2>1. p \in DOMAIN since.dirs /\ Known(dirs, since.dirs)
    BY DEF FilesInv, FilesTyped
  <2>2. /\ Known(Touched(dirs, p), Wrote(dirs, since.dirs, p))
        /\ DOMAIN Touched(dirs, p) = DOMAIN dirs \cup {p}
        /\ DOMAIN Wrote(dirs, since.dirs, p) = DOMAIN since.dirs
        /\ \A e \in DOMAIN dirs :
              Aged(since.dirs[e]) => Aged(Wrote(dirs, since.dirs, p)[e])
    BY <2>1, Writes
  <2> QED
    BY <1>1, <2>2
<1>3. FilesTyped'
  BY <1>1, <1>2 DEF FilesInv, FilesTyped
<1>4. ASSUME NEW q \in Runs PROVE Listed(q)'
  BY <1>1, <1>2 DEF FilesInv, Listed
<1>5. \A r \in Runs : r # p
  BY ServiceAssumption DEF ServiceAssumption
<1> QED
  BY <1>1, <1>2, <1>3, <1>4, <1>5 DEF FilesInv

LEMMA ExecuteMoves == ASSUME FilesInv, NEW r \in Runs, Execute(r) PROVE FilesInv'
<1>1. CASE UNCHANGED <<arts, since>>
  BY <1>1, FilesApart DEF Execute, files, Before
<1>2. CASE /\ Go(r, "complete") /\ arts' = Touched(arts, r)
           /\ since' = [since EXCEPT !.arts = Wrote(arts, @, r)]
  <2>1. /\ \A q \in Runs : pc'[q] = IF q = r THEN "complete" ELSE pc[q]
        /\ pc[r] = "execute" /\ UNCHANGED <<dirs, doomed>>
        /\ since' = [dirs |-> since.dirs, arts |-> Wrote(arts, since.arts, r)]
    BY <1>2 DEF Execute, Go, FilesInv, FilesTyped
  <2>2. /\ Known(arts', since'.arts) /\ DOMAIN arts' = DOMAIN arts \cup {r}
        /\ DOMAIN since'.arts = DOMAIN since.arts
        /\ \A e \in DOMAIN arts : Aged(since.arts[e]) => Aged(since'.arts[e])
    <3>1. r \in DOMAIN since.arts /\ Known(arts, since.arts)
      BY DEF FilesInv, FilesTyped
    <3>2. /\ Known(Touched(arts, r), Wrote(arts, since.arts, r))
          /\ DOMAIN Touched(arts, r) = DOMAIN arts \cup {r}
          /\ DOMAIN Wrote(arts, since.arts, r) = DOMAIN since.arts
          /\ \A e \in DOMAIN arts :
                Aged(since.arts[e]) => Aged(Wrote(arts, since.arts, r)[e])
      BY <3>1, Writes
    <3> QED
      BY <1>2, <2>1, <3>2
  <2>3. FilesTyped'
    BY <1>2, <2>1, <2>2 DEF FilesInv, FilesTyped, Go
  <2>4. ASSUME NEW q \in Runs PROVE Listed(q)'
    <3>1. pc'[q] \in {"rm", "rmArts"} => pc'[q] = pc[q]
      BY <2>1
    <3>2. pc[q] = "rmArts" => r \notin doomed[q]
      BY <2>1 DEF FilesInv, Listed, Before
    <3>3. pc'[q] = "rmArts" => \A d \in doomed'[q] :
             /\ d \in Runs /\ pc'[d] \notin Before
             /\ d \in DOMAIN arts' => Aged(since'.arts[d])
      BY <2>1, <2>2, <3>1, <3>2 DEF FilesInv, Listed, Before
    <3>4. pc'[q] = "rm" => \A d \in doomed'[q] :
             (d \in Runs => pc'[d] # "idle") /\ (d \in DOMAIN dirs' => Aged(since'.dirs[d]))
      BY <2>1, <3>1 DEF FilesInv, Listed
    <3> QED
      BY <3>3, <3>4 DEF Listed
  <2> QED
    BY <2>1, <2>2, <2>3, <2>4 DEF FilesInv, Before
<1> QED
  BY <1>1, <1>2 DEF Execute

(* The three steps of a prune.                                               *)
LEMMA ListMoves == ASSUME FilesInv, NEW r \in Runs, List(r) PROVE FilesInv'
<1>1. CASE Finish(r) /\ UNCHANGED doomed
  BY <1>1, FilesApart DEF List, Finish, files, Before
<1>2. CASE doomed' = [doomed EXCEPT ![r] = StaleOf(dirs)] /\ Go(r, "rm")
  <2>1. /\ UNCHANGED <<dirs, arts, since>> /\ pc[r] = "list"
        /\ \A q \in Runs : pc'[q] = IF q = r THEN "rm" ELSE pc[q]
        /\ \A q \in Runs : doomed'[q] = IF q = r THEN StaleOf(dirs) ELSE doomed[q]
    BY <1>2 DEF List, Go, FilesInv, FilesTyped
  <2>2. FilesTyped'
    BY <1>2, <2>1 DEF FilesInv, FilesTyped, Go
  <2>3. StaleOf(dirs) \subseteq DOMAIN dirs /\ \A d \in StaleOf(dirs) : Aged(since.dirs[d])
    BY Lists DEF FilesInv
  <2>4. Listed(r)'
    <3>1. ASSUME NEW d \in doomed'[r]
          PROVE  (d \in Runs => pc'[d] # "idle") /\ Aged(since'.dirs[d])
      BY <2>1, <2>3 DEF FilesInv
    <3> QED
      BY <2>1, <3>1 DEF Listed
  <2>5. ASSUME NEW q \in Runs \ {r} PROVE Listed(q)'
    BY <2>1 DEF FilesInv, Listed, Before
  <2> QED
    BY <2>1, <2>2, <2>4, <2>5 DEF FilesInv, Before
<1> QED
  BY <1>1, <1>2 DEF List

LEMMA RmMoves == ASSUME FilesInv, NEW r \in Runs, Rm(r) PROVE FilesInv'
<1>1. /\ UNCHANGED <<arts, since>> /\ pc[r] = "rm" /\ dirs' = Without(dirs, doomed[r])
      /\ \A q \in Runs : pc'[q] = IF q = r THEN "rmArts" ELSE pc[q]
      /\ \A q \in Runs : doomed'[q] = IF q = r THEN StaleOf(arts) ELSE doomed[q]
  BY DEF Rm, Go, FilesInv, FilesTyped
<1>2. FilesTyped'
  BY <1>1 DEF FilesInv, FilesTyped, Go, Rm
<1>3. Known(dirs', since'.dirs) /\ DOMAIN dirs' \subseteq DOMAIN dirs
  <2>1. Known(Without(dirs, doomed[r]), since.dirs)
        /\ DOMAIN Without(dirs, doomed[r]) = DOMAIN dirs \ doomed[r]
    BY Removes DEF FilesInv
  <2> QED
    BY <1>1, <2>1
<1>4. StaleOf(arts) \subseteq DOMAIN arts /\ \A d \in StaleOf(arts) : Aged(since.arts[d])
  BY Lists DEF FilesInv
<1>5. Listed(r)'
  <2>1. ASSUME NEW d \in doomed'[r]
        PROVE  d \in Runs /\ pc'[d] \notin Before /\ Aged(since'.arts[d])
    <3>1. d \in DOMAIN arts /\ d \in Runs /\ Aged(since.arts[d])
      BY <1>1, <1>4 DEF FilesInv, FilesTyped, Known
    <3> QED
      BY <1>1, <3>1 DEF FilesInv, Before
  <2> QED
    BY <1>1, <2>1 DEF Listed
<1>6. ASSUME NEW q \in Runs \ {r} PROVE Listed(q)'
  BY <1>1, <1>3 DEF FilesInv, Listed, Before
<1> QED
  BY <1>1, <1>2, <1>3, <1>5, <1>6 DEF FilesInv, Before

LEMMA RmArtsMoves == ASSUME FilesInv, NEW r \in Runs, RmArts(r) PROVE FilesInv'
<1>1. /\ UNCHANGED <<dirs, since>> /\ pc[r] = "rmArts" /\ arts' = Without(arts, doomed[r])
      /\ \A q \in Runs : pc'[q] = IF q = r THEN "end" ELSE pc[q]
      /\ \A q \in Runs \ {r} : doomed'[q] = doomed[q]
  BY DEF RmArts, Finish, Go, FilesInv, FilesTyped
<1>2. FilesTyped'
  BY <1>1 DEF FilesInv, FilesTyped, Go, RmArts, Finish
<1>3. Known(arts', since'.arts) /\ DOMAIN arts' \subseteq DOMAIN arts
  <2>1. Known(Without(arts, doomed[r]), since.arts)
        /\ DOMAIN Without(arts, doomed[r]) = DOMAIN arts \ doomed[r]
    BY Removes DEF FilesInv
  <2> QED
    BY <1>1, <2>1
<1>4. ASSUME NEW q \in Runs PROVE Listed(q)'
  BY <1>1, <1>3 DEF FilesInv, Listed, Before
<1> QED
  BY <1>1, <1>2, <1>3, <1>4 DEF FilesInv, Before

LEMMA FilesOfDead == ASSUME FilesInv, ServerDies PROVE FilesInv'
<1>1. /\ UNCHANGED <<dirs, arts, since>>
      /\ \A q \in Runs : doomed'[q] = {} /\ pc'[q] = IF Active(q) THEN "end" ELSE pc[q]
  BY DEF ServerDies
<1>2. FilesTyped'
  BY <1>1 DEF FilesInv, FilesTyped, ServerDies
<1>3. ASSUME NEW q \in Runs PROVE Listed(q)'
  BY <1>1 DEF Listed
<1> QED
  BY <1>1, <1>2, <1>3 DEF FilesInv, Before, Active

LEMMA FilesKeep == FilesInv /\ [Next]_vars => FilesInv'
<1> SUFFICES ASSUME FilesInv, [Next]_vars PROVE FilesInv'
  OBVIOUS
<1>1. ASSUME NEW r \in Runs, Step(r) PROVE FilesInv'
  <2>1. CASE Create(r)
    BY <2>1, FilesApart DEF Create, Answer500, Before
  <2>2. CASE Save(r)
    <3>1. CASE dirs' = dirs /\ UNCHANGED since
      BY <2>2, <3>1, FilesApart DEF Save, Answer500, files, Before
    <3>2. CASE ~(dirs' = dirs /\ UNCHANGED since)
      BY <2>2, <3>2, UploadsMove DEF Save, Answer500, Before
    <3> QED
      BY <3>1, <3>2
  <2>3. CASE Complete(r) \/ Fail(r) \/ Emit(r)
    BY <2>3, FilesApart DEF Complete, Fail, Emit, Answer500, Before
  <2> QED
    BY <1>1, <2>1, <2>2, <2>3, ExecuteMoves, ListMoves, RmMoves, RmArtsMoves DEF Step
<1>2. ASSUME NEW r \in Runs, NEW k \in Kind \ {"none"}, Accept(r, k) PROVE FilesInv'
  BY <1>2, UploadsMove DEF Accept, FilesInv, Before
<1>3. ASSUME NEW p \in Reports, Report(p) PROVE FilesInv'
  BY <1>3, ReportMoves
<1>4. CASE ServerDies
  BY <1>4, FilesOfDead
<1>5. CASE UNCHANGED <<pc, files>>
  BY <1>5 DEF files, FilesInv, FilesTyped, Known, Listed
<1> QED
  BY <1>1, <1>2, <1>3, <1>4, <1>5 DEF Next, Deliver, Restart, vars, files

(* What is evicted sorts behind `Keep' others of its sort on the list its    *)
(* prune made, however stale, and they were written after it was made        *)
(* (main.py:439, retention.py:161).                                         *)
THEOREM OldestGo == Spec => EvictedIsOld
<1>1. ASSUME FilesInv, [Next]_vars, NEW d \in DOMAIN dirs \ DOMAIN dirs'
      PROVE  \/ Cardinality(since.dirs[d]) >= Keep
             \/ d \in Runs /\ pc[d] = "save" /\ pc'[d] # "save"
  <2>1. \E r \in Runs : Save(r) \/ Rm(r)
    BY <1>1 DEF Next, Step, vars, files, Touched, Accept, Create, Execute, Complete, Fail, Emit,
       List, RmArts, Deliver, Report, ServerDies, Restart
  <2>2. ASSUME NEW r \in Runs, Save(r)
        PROVE  d = r /\ pc[r] = "save" /\ pc'[r] # "save"
    <3>1. dirs' = Without(dirs, {r}) /\ DOMAIN Without(dirs, {r}) = DOMAIN dirs \ {r}
      BY <1>1, <2>2 DEF Save, Touched, Without
    <3>2. \E l \in {"execute", "create", "fail", "end"} : Go(r, l)
      BY <2>2 DEF Save, Answer500
    <3> QED
      BY <1>1, <2>2, <3>1, <3>2 DEF Save, Go, FilesInv, FilesTyped
  <2>3. ASSUME NEW r \in Runs, Rm(r) PROVE Cardinality(since.dirs[d]) >= Keep
    <3>1. d \in doomed[r] /\ pc[r] = "rm"
      BY <1>1, <2>3 DEF Rm, Without
    <3> QED
      BY <1>1, <3>1 DEF FilesInv, Listed, Aged
  <2> QED
    BY <2>1, <2>2, <2>3
<1>2. ASSUME FilesInv, [Next]_vars, NEW d \in DOMAIN arts \ DOMAIN arts'
      PROVE  Cardinality(since.arts[d]) >= Keep
  <2>1. PICK r \in Runs : RmArts(r)
    BY <1>2 DEF Next, Step, vars, files, Touched, Accept, Create, Save, Execute, Complete, Fail,
       Emit, List, Rm, Deliver, Report, ServerDies, Restart
  <2>2. d \in doomed[r] /\ pc[r] = "rmArts"
    BY <1>2, <2>1 DEF RmArts, Without
  <2> QED
    BY <1>2, <2>2 DEF FilesInv, Listed, Aged
<1>3. FilesInv /\ [Next]_vars =>
        [ /\ \A d \in DOMAIN dirs \ DOMAIN dirs' :
               \/ Cardinality(since.dirs[d]) >= Keep
               \/ d \in Runs /\ pc[d] = "save" /\ pc'[d] # "save"
          /\ \A d \in DOMAIN arts \ DOMAIN arts' :
               Cardinality(since.arts[d]) >= Keep ]_vars
  BY <1>1, <1>2
<1> QED
  BY <1>3, FilesStart, FilesKeep, PTL DEF Spec, EvictedIsOld

=============================================================================
