---------------------------- MODULE Checkpoint ----------------------------
(***************************************************************************)
(* One training run over its checkpoint directory: the loop of             *)
(* training/track_b_vlm_qlora.py on training/common/checkpointing.py.      *)
(*                                                                         *)
(* The trainer is killed between any two of its writes and is started      *)
(* again with --resume.  A checkpoint is two things that are not written   *)
(* together, an adapter directory and the .pt that refers to it; beside    *)
(* them are adapter_best and val_history.json, and pruning, which deletes. *)
(*                                                                         *)
(* Abstractions.  A step of the model is the greatest common divisor of    *)
(* --save-every and --val-every optimiser steps.  Weights are told apart   *)
(* by the fresh start they descend from (`gen`), a validation is its loss  *)
(* rank, and a train loss is finite or not.  val_history.json is the best  *)
(* step it names; adapter_final and metrics.json are left out.             *)
(***************************************************************************)
EXTENDS Naturals, FiniteSets

CONSTANTS
    MaxSteps,     \* --max-steps
    SaveEvery,    \* --save-every
    ValEvery,     \* --val-every
    KeepLast,     \* --keep-last
    Patience,     \* --patience, 0 for never
    NanPatience,  \* --nan-patience, 0 for never
    Losses,       \* the validation losses that can be told apart
    MaxCrashes,   \* bound on kills
    MaxBad,       \* bound on losses that are not finite
    MaxGen        \* bound on fresh starts

ASSUME CheckpointAssumption ==
    /\ MaxSteps \in Nat \ {0} /\ SaveEvery \in Nat \ {0} /\ ValEvery \in Nat \ {0}
    /\ KeepLast \in Nat /\ Patience \in Nat /\ NanPatience \in Nat
    /\ Losses \subseteq Nat \ {0}
    /\ MaxCrashes \in Nat /\ MaxBad \in Nat /\ MaxGen \in Nat \ {0}

VARIABLES
    pt,        \* ckpt_step_N.pt: the fresh start its state descends from, 0 if absent
    adapter,   \* adapter_step_N
    best,      \* adapter_best: the step it was taken at, and is it whole
    record,    \* val_history.json: the step it names as best, 0 for none
    pc,        \* where the trainer is
    gen,       \* the fresh start its weights descend from
    step,
    history,   \* val_history: the loss of each validation, 0 for none
    stop,      \* stop_early
    streak,    \* nonfinite_streak
    stale,     \* what is left of _prune_old_checkpoints' loop
    crashes, bad,
    high       \* history: the furthest any process of this run has come

disk == <<pt, adapter, best, record>>
process == <<gen, step, history, stop, streak, stale>>
vars == <<disk, pc, process, crashes, bad, high>>

-----------------------------------------------------------------------------
Steps == 1..MaxSteps
Gens  == 1..MaxGen

Dir   == [gen : Gens \cup {0}, whole : BOOLEAN]
NoDir == [gen |-> 0, whole |-> FALSE]

TypeOK ==
    /\ pt \in [Steps -> Gens \cup {0}]
    /\ adapter \in [Steps -> Dir]
    /\ best \in [step : 0..MaxSteps, whole : BOOLEAN]
    /\ record \in 0..MaxSteps
    /\ pc \in {"off", "train", "validate", "best", "record", "save", "adapter",
               "publish", "prune", "done", "failed"}
    /\ gen \in Gens
    /\ step \in 0..MaxSteps
    /\ history \in [Steps -> Losses \cup {0}]
    /\ stop \in BOOLEAN
    /\ streak \in Nat
    /\ stale \subseteq Steps
    /\ crashes \in 0..MaxCrashes
    /\ bad \in 0..MaxBad
    /\ high \in 0..MaxSteps

Saved == {s \in Steps : pt[s] # 0}

\* find_latest_checkpoint: highest step, whatever wrote it.
Latest(s) == s \in Saved /\ \A u \in Saved : u <= s

Loadable(s) == adapter[s].whole

\* min(val_history, key=val_loss): the first of the smallest.
Best(h, s) ==
    /\ h[s] # 0
    /\ \A u \in Steps : h[u] # 0 => h[s] < h[u] \/ (h[s] = h[u] /\ s <= u)

NoHistory == [s \in Steps |-> 0]

SinceBest ==
    Cardinality({u \in Steps : /\ history[u] # 0
                              /\ \E s \in Steps : Best(history, s) /\ s < u})

\* The condition of the training loop.
Going == step < MaxSteps /\ ~stop

ValDue(s) == s % ValEvery = 0 \/ s = MaxSteps
SaveDueMutant(s) == s % ValEvery = 0
SaveDue(s) == s % SaveEvery = 0 \/ s = MaxSteps

\* matches[:-keep_last] without `protect`; keep_last <= 0 prunes nothing.
StaleMutant == {s \in Saved' : Cardinality({u \in Saved' : u > s}) >= KeepLast}
StaleOrderMutant == {s \in Saved' : Cardinality({u \in Saved' : u < s}) >= KeepLast}
Stale ==
    IF KeepLast = 0 THEN {}
    ELSE {s \in Saved' : /\ Cardinality({u \in Saved' : u > s}) >= KeepLast
                         /\ ~Best(history, s)}

-----------------------------------------------------------------------------
Init ==
    /\ pt = [s \in Steps |-> 0]
    /\ adapter = [s \in Steps |-> NoDir]
    /\ best = [step |-> 0, whole |-> FALSE]
    /\ record = 0
    /\ pc = "train" /\ gen = 1 /\ step = 0
    /\ history = NoHistory
    /\ stop = FALSE /\ streak = 0 /\ stale = {}
    /\ crashes = 0 /\ bad = 0 /\ high = 0

Started(g, s) ==
    /\ gen' = g /\ step' = s
    /\ history' = NoHistory /\ stop' = FALSE /\ streak' = 0 /\ stale' = {}

\* maybe_resume: the newest checkpoint, or step 0 when there is none.
Resume ==
    /\ pc = "off"
    /\ \/ /\ Saved = {}
          /\ Started(gen, 0)
          /\ pc' = "train"
       \/ \E s \in Saved :
             /\ Latest(s)
             /\ IF Loadable(s)
                THEN Started(pt[s], s) /\ pc' = "train"
                ELSE pc' = "failed" /\ UNCHANGED process
    /\ UNCHANGED <<disk, crashes, bad, high>>

\* After `campaign.py reset` the trainer is started without --resume; nothing
\* has emptied the directory.
FreshStart ==
    /\ pc \in {"off", "done", "failed"}
    /\ gen < MaxGen
    /\ Started(gen + 1, 0)
    /\ pc' = "train"
    /\ high' = 0
    /\ UNCHANGED <<disk, crashes, bad>>

\* One optimiser step with a finite loss, and what is due after it.
Train ==
    /\ pc = "train" /\ Going
    /\ step' = step + 1
    /\ streak' = 0
    /\ pc' = IF ValDue(step') THEN "validate"
             ELSE IF SaveDue(step') THEN "save" ELSE "train"
    /\ high' = IF step' > high THEN step' ELSE high
    /\ UNCHANGED <<disk, gen, history, stop, stale, crashes, bad>>

\* A train loss that is not finite: the step counts, and `continue` passes by the
\* validation and the save that were due; too many in a row end the run.
Skip ==
    /\ pc = "train" /\ Going
    /\ bad < MaxBad /\ bad' = bad + 1
    /\ streak' = streak + 1
    /\ IF NanPatience # 0 /\ streak' >= NanPatience
       THEN pc' = "failed" /\ UNCHANGED <<step, high>>
       ELSE /\ step' = step + 1
            /\ high' = IF step' > high THEN step' ELSE high
            /\ UNCHANGED pc
    /\ UNCHANGED <<disk, gen, history, stop, stale, crashes>>

\* evaluate(); a better loss than any of this process is saved at once.
Validate ==
    /\ pc = "validate"
    /\ \E l \in Losses : history' = [history EXCEPT ![step] = l]
    /\ IF Best(history', step)
       THEN pc' = "best" /\ best' = [step |-> step, whole |-> FALSE]
       ELSE pc' = "record" /\ UNCHANGED best
    /\ UNCHANGED <<pt, adapter, record, gen, step, stop, streak, stale, crashes, bad, high>>

\* A validation loss that is not finite ends the run, naming no best.
ValidateBad ==
    /\ pc = "validate"
    /\ bad < MaxBad /\ bad' = bad + 1
    /\ record' = 0
    /\ pc' = "failed"
    /\ UNCHANGED <<pt, adapter, best, process, crashes, high>>

\* save_pretrained(adapter_best) returns.
SaveBest ==
    /\ pc = "best"
    /\ best' = [best EXCEPT !.whole = TRUE]
    /\ pc' = "record"
    /\ UNCHANGED <<pt, adapter, record, process, crashes, bad, high>>

\* val_history.json is written; patience may have run out.
Record ==
    /\ pc = "record"
    /\ record' \in {s \in Steps : Best(history, s)}
    /\ stop' = (Patience # 0 /\ SinceBest >= Patience)
    /\ pc' = IF SaveDue(step) \/ stop' THEN "save" ELSE "train"
    /\ UNCHANGED <<pt, adapter, best, gen, step, history, streak, stale, crashes, bad, high>>

\* save_checkpoint: save_pretrained starts writing the adapter directory ...
SaveMutant ==
    /\ pc = "save"
    /\ pt' = [pt EXCEPT ![step] = gen]
    /\ adapter' = [adapter EXCEPT ![step] = [gen |-> gen, whole |-> FALSE]]
    /\ pc' = "adapter"
    /\ UNCHANGED <<best, record, process, crashes, bad, high>>
Save ==
    /\ pc = "save"
    /\ adapter' = [adapter EXCEPT ![step] = [gen |-> gen, whole |-> FALSE]]
    /\ pc' = "adapter"
    /\ UNCHANGED <<pt, best, record, process, crashes, bad, high>>

\* ... and returns ...
SaveAdapter ==
    /\ pc = "adapter"
    /\ adapter' = [adapter EXCEPT ![step].whole = TRUE]
    /\ pc' = "publish"
    /\ UNCHANGED <<pt, best, record, process, crashes, bad, high>>

\* ... and os.replace puts the .pt in place; pruning has its list.
Publish ==
    /\ pc = "publish"
    /\ pt' = [pt EXCEPT ![step] = gen]
    /\ stale' = Stale
    /\ pc' = "prune"
    /\ UNCHANGED <<adapter, best, record, gen, step, history, stop, streak, crashes, bad, high>>

\* unlink, oldest first.
Unlink ==
    /\ pc = "prune"
    /\ \E s \in stale :
         /\ \A u \in stale : s <= u
         /\ pt[s] # 0
         /\ pt' = [pt EXCEPT ![s] = 0]
    /\ UNCHANGED <<adapter, best, record, pc, process, crashes, bad, high>>

\* rmtree of the adapter directory of what was unlinked.
RemoveTree ==
    /\ pc = "prune"
    /\ \E s \in stale :
         /\ pt[s] = 0
         /\ adapter' = [adapter EXCEPT ![s] = NoDir]
         /\ stale' = stale \ {s}
    /\ UNCHANGED <<pt, best, record, pc, gen, step, history, stop, streak, crashes, bad, high>>

\* save_checkpoint returns.
Return ==
    /\ pc = "prune" /\ stale = {}
    /\ pc' = "train"
    /\ UNCHANGED <<disk, process, crashes, bad, high>>

\* The loop is over: exit code 0.
Finish ==
    /\ pc = "train" /\ ~Going
    /\ pc' = "done"
    /\ UNCHANGED <<disk, process, crashes, bad, high>>

\* The session vanishes.
Crash ==
    /\ pc \notin {"off", "done", "failed"}
    /\ crashes < MaxCrashes /\ crashes' = crashes + 1
    /\ pc' = "off"
    /\ UNCHANGED <<disk, process, bad, high>>

Next ==
    \/ Resume \/ Train \/ Skip \/ Validate \/ ValidateBad \/ SaveBest \/ Record
    \/ Save \/ SaveAdapter \/ Publish \/ Unlink \/ RemoveTree \/ Return
    \/ Finish \/ Crash

\* A run in a directory of its own.
Spec == Init /\ [][Next]_vars

\* And one that is reset over the checkpoints of an earlier one.
ResetSpec == Init /\ [][Next \/ FreshStart]_vars

-----------------------------------------------------------------------------
\* What is in the directory is of one fresh start.
Unmixed == \A s \in Saved, u \in Steps : {pt[u], adapter[u].gen} \subseteq {0, pt[s]}

\* Whenever the trainer is killed, mid-save or mid-prune, the checkpoint the next
\* --resume picks has its whole adapter, of the same weights as its .pt; as long as
\* what a reset left behind is not in the directory any more.
LatestLoadable ==
    Unmixed => \A s \in Steps : Latest(s) => adapter[s] = [gen |-> pt[s], whole |-> TRUE]

\* A checkpoint to go on from is never traded for an older one, be it what another
\* run left before a reset.
ProgressKept ==
    [][\A s \in Saved : \E u \in Saved' : s <= u]_vars

\* What a kill costs: at most one save interval, and one more for each save that a
\* non-finite loss made the loop pass by.
WorkLost ==
    \E s \in Saved \cup {0} : high <= s + SaveEvery * (1 + bad)

\* Between steps, the best validation of this process still has its checkpoint
\* after pruning, and adapter_best is it (the best model was once pruned away).
BestKept ==
    \A s \in Steps : pc = "train" /\ Best(history, s) =>
        pt[s] # 0 /\ best = [step |-> s, whole |-> TRUE]
===========================================================================
