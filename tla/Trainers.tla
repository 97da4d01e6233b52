------------------------------ MODULE Trainers ------------------------------
(***************************************************************************)
(* The trainers that count epochs (training/train_*.py, track_a_*.py and   *)
(* stage_a2_transfer.py) over one checkpoint directory, and the read-only  *)
(* evaluations of training/common/eval_only.py that run beside them.       *)
(*                                                                         *)
(* The trainers are one loop: take the rows, build the model, resume, write *)
(* the files inference needs beside the weights, train, save every          *)
(* SaveEvery steps and at the end, score, write the metrics.  What they do  *)
(* differently is a record each; a behaviour is about one of them.          *)
(*                                                                         *)
(* Abstractions.  Weights are what they were trained on: the version of the *)
(* rows their vocabulary or band statistics were taken from (0: nothing was *)
(* trained) and complete passes.  A file that is replaced atomically is      *)
(* written in one step, one that is truncated first in two, except           *)
(* metrics.json; run_metadata.json is written with the sidecar.              *)
(***************************************************************************)
EXTENDS Integers, FiniteSets

CONSTANTS
    Codes,        \* the trainers a behaviour may be about
    Procs,        \* processes that may be at work in the directory
    Batches,      \* batches of a pass over the rows
    SaveEvery,    \* --save-every
    KeepLast,     \* save_checkpoint's keep_last
    Epochs,       \* the values of --epochs
    ValEvery,     \* epochs between validations, where the trainer has them
    NanPatience,  \* --nan-patience
    Scores,       \* the validation scores that can be told apart
    MaxStep,      \* bound on optimiser steps
    MaxKills,     \* bound on kills
    MaxEvals,     \* bound on evaluations
    MaxBad,       \* bound on losses that are not finite
    MaxRestages   \* bound on changes of the training rows

(* A trainer.  `side' is what inference needs beside the weights: nothing, a *)
(* vocabulary, which sizes the model, statistics, or statistics that are only *)
(* computed; `eval' is how the weights are scored without training, `scores' *)
(* when metrics.json is written, `split' whether only if the split to score on *)
(* has rows, `counts' whether bad losses are counted.                        *)
Code == [side : {"none", "computed", "vocab", "stats"}, eval : {"none", "guarded", "own"},
         scores : {"end", "best"}, split : BOOLEAN, counts : BOOLEAN]

ASSUME TrainersAssumption ==
    /\ Codes \subseteq Code
    /\ Batches \in Nat \ {0} /\ SaveEvery \in Nat \ {0} /\ KeepLast \in Nat
    /\ Epochs \subseteq Nat \ {0} /\ ValEvery \in Nat \ {0} /\ NanPatience \in Nat
    /\ Scores \subseteq Nat \ {0}
    /\ MaxStep \in Nat \ {0} /\ MaxKills \in Nat /\ MaxEvals \in Nat
    /\ MaxBad \in Nat /\ MaxRestages \in Nat

VARIABLES
    code,     \* which trainer this is
    data,     \* the version of the training rows
    ck,       \* ckpt_step_N.pt
    side,     \* vocab.json or band_stats.json: version and is it whole
    metrics,  \* metrics.json: the weights it describes, the version used, the score
    best,     \* best.pt: its score and is it whole
    out,      \* what --out of the evaluations names, the last one
    pc, job,  \* the processes
    kills, evals, bad

directory == <<ck, side, metrics, best>>
counters == <<kills, evals, bad>>
vars == <<code, data, directory, out, pc, job, counters>>

-----------------------------------------------------------------------------
(* The trainers.                                                             *)
Head == [side |-> "none", eval |-> "guarded", scores |-> "end", split |-> TRUE, counts |-> FALSE]

TrainCaption       == [Head EXCEPT !.side = "vocab", !.split = FALSE]
TrainGrounding     == [Head EXCEPT !.side = "vocab", !.split = FALSE]
TrainChangeCaption == [Head EXCEPT !.side = "vocab"]
TrackAFull         == [Head EXCEPT !.side = "stats"]
TrainOptsarFusion  == Head
TrainChangeMask    == [Head EXCEPT !.counts = TRUE]
StageA2            == [Head EXCEPT !.eval = "none"]
TrackAEncoder      == [Head EXCEPT !.eval = "own", !.side = "computed", !.split = FALSE]
TrainChangeVqa     == [Head EXCEPT !.eval = "none", !.scores = "best"]

-----------------------------------------------------------------------------
Steps    == 1..MaxStep
Versions == 0..MaxRestages + 1

Weights == [ver : Versions, passes : Nat]
Random  == [ver |-> 0, passes |-> 0]

(* A checkpoint: its weights and the epoch its training_state names, -1 for  *)
(* none.                                                                     *)
Ckpt   == [epoch : Nat \cup {-1}, w : Weights]
NoCkpt == [epoch |-> -1, w |-> Random]

SavedIn(f) == {s \in Steps : f[s].epoch # -1}
Saved == SavedIn(ck)
Latest(s) == s \in Saved /\ \A u \in Saved : u <= s

Measure == [w : Weights, ver : Versions, score : Scores \cup {0}, step : 0..MaxStep]
NoMeasure == [w |-> Random, ver |-> 0, score |-> 0, step |-> 0]

(* What a process holds: its arguments, the version of the vocabulary or     *)
(* statistics it applies, its weights and the loop's variables.  `mark' is   *)
(* the epoch a save in progress records, `todo' what is left of its pruning, *)
(* `scored' whether it has written metrics.                                  *)
Job == [eval : BOOLEAN, resume : BOOLEAN, epochs : Epochs \cup {0}, ver : Versions,
        w : Weights, step : 0..MaxStep, epoch : Nat, batch : 0..Batches, streak : Nat,
        best : Scores \cup {0}, mark : Nat, todo : SUBSET Steps,
        scored : BOOLEAN]
NoJob == [eval |-> FALSE, resume |-> FALSE, epochs |-> 0, ver |-> 0, w |-> Random, step |-> 0,
          epoch |-> 0, batch |-> 0, streak |-> 0, best |-> 0, mark |-> 0, todo |-> {},
          scored |-> FALSE]

Idle(p)     == pc[p] \in {"off", "done", "failed"}
Training(p) == ~Idle(p) /\ ~job[p].eval

Init ==
    /\ code \in Codes
    /\ data = 1
    /\ ck = [s \in Steps |-> NoCkpt]
    /\ side = [ver |-> 0, whole |-> FALSE]
    /\ metrics = NoMeasure /\ out = NoMeasure
    /\ best = [score |-> 0, whole |-> FALSE]
    /\ pc = [p \in Procs |-> "off"] /\ job = [p \in Procs |-> NoJob]
    /\ kills = 0 /\ evals = 0 /\ bad = 0

Goto(p, l) == pc' = [pc EXCEPT ![p] = l]
Update(p, j) == job' = [job EXCEPT ![p] = j]

-----------------------------------------------------------------------------
(* The rows are read and the vocabulary or the statistics made of them; a    *)
(* guarded evaluation reads the vocabulary that was saved, if there is one.  *)
Start(p, e, r, n) ==
    /\ Idle(p)
    /\ e => code.eval # "none" /\ evals < MaxEvals
    /\ ~e => \A q \in Procs : ~Training(q)
    /\ evals' = IF e THEN evals + 1 ELSE evals
    /\ LET reads == e /\ code.eval = "guarded" /\ code.side = "vocab" /\ side.ver # 0
           begun == [NoJob EXCEPT !.eval = e, !.resume = r, !.epochs = n,
                                  !.ver = IF reads THEN side.ver ELSE data]
       IN /\ Update(p, begun)
          /\ Goto(p, IF reads /\ ~side.whole THEN "failed" ELSE "load")
    /\ UNCHANGED <<code, data, directory, out, kills, bad>>

(* load_state_dict refuses an embedding of another size; two vocabularies    *)
(* may happen to have one size.                                              *)
Loads(p, s) ==
    \/ Update(p, [job[p] EXCEPT !.w = ck[s].w, !.step = s, !.epoch = ck[s].epoch]) /\ Goto(p, "side")
    \/ /\ code.side = "vocab" /\ ck[s].w.ver # job[p].ver
       /\ Goto(p, "failed") /\ UNCHANGED job

(* resume_or_load_for_eval and maybe_resume.                                  *)
LoadMutant(p) ==
    /\ pc[p] = "load"
    /\ LET j == job[p] IN
       \/ (j.resume \/ j.eval) /\ \E s \in Steps : Latest(s) /\ Loads(p, s)
       \/ /\ Saved = {} \/ ~(j.resume \/ j.eval)
          /\ Goto(p, "side") /\ UNCHANGED job
    /\ UNCHANGED <<code, data, directory, out, counters>>
Load(p) ==
    /\ pc[p] = "load"
    /\ LET j == job[p]
           must == j.eval /\ code.eval = "guarded"
           looks == must \/ j.resume
       IN \/ looks /\ \E s \in Steps : Latest(s) /\ Loads(p, s)
          \/ must /\ Saved = {} /\ Goto(p, "failed") /\ UNCHANGED job
          \/ ~must /\ (Saved = {} \/ ~looks) /\ Goto(p, "side") /\ UNCHANGED job
    /\ UNCHANGED <<code, data, directory, out, counters>>

Sidecar(p) ==
    /\ pc[p] = "side"
    /\ IF code.side \in {"vocab", "stats"} /\ ~job[p].eval
       THEN side' = [ver |-> job[p].ver, whole |-> FALSE] /\ Goto(p, "written")
       ELSE UNCHANGED side /\ Goto(p, "train")
    /\ UNCHANGED <<code, data, ck, metrics, best, out, job, counters>>

SidecarWritten(p) ==
    /\ pc[p] = "written"
    /\ side' = [side EXCEPT !.whole = TRUE] /\ Goto(p, "train")
    /\ UNCHANGED <<code, data, ck, metrics, best, out, job, counters>>

-----------------------------------------------------------------------------
(* epochs_for.                                                                *)
Limit(j) == IF j.eval THEN 0 ELSE j.epochs

InPass(j) == j.epoch < Limit(j)
Left(j) == j.batch < Batches

(* A pass starts from its first batch, wherever the checkpoint was taken.    *)
Trained(j) == [j.w EXCEPT !.ver = j.ver]

Batch(p) ==
    /\ pc[p] = "train" /\ InPass(job[p]) /\ Left(job[p]) /\ job[p].step < MaxStep
    /\ LET j == job[p]
           on == [j EXCEPT !.w = Trained(j), !.batch = @ + 1, !.step = @ + 1, !.streak = 0]
       IN IF on.step % SaveEvery = 0
          THEN Update(p, [on EXCEPT !.mark = j.epoch]) /\ Goto(p, "save")
          ELSE Update(p, on) /\ UNCHANGED pc
    /\ UNCHANGED <<code, data, directory, out, counters>>

(* A loss that is not finite skips the batch, and the save due at it.        *)
BadBatch(p) ==
    /\ code.counts
    /\ pc[p] = "train" /\ InPass(job[p]) /\ Left(job[p]) /\ job[p].step < MaxStep
    /\ bad < MaxBad /\ bad' = bad + 1
    /\ IF NanPatience # 0 /\ job[p].streak + 1 >= NanPatience
       THEN Goto(p, "failed") /\ UNCHANGED job
       ELSE /\ Update(p, [job[p] EXCEPT !.batch = @ + 1, !.step = @ + 1, !.streak = @ + 1])
            /\ UNCHANGED pc
    /\ UNCHANGED <<code, data, directory, out, kills, evals>>

EndEpoch(p) ==
    /\ pc[p] = "train" /\ InPass(job[p]) /\ ~Left(job[p])
    /\ LET j == job[p]
           n == j.epoch + 1
           on == [j EXCEPT !.epoch = n, !.batch = 0, !.w.passes = @ + 1]
           due == code.scores = "best" /\ (n % ValEvery = 0 \/ n = j.epochs)
       IN \/ ~due /\ Update(p, on) /\ UNCHANGED pc
          \/ due /\ \E v \in Scores :
                IF v > j.best THEN Update(p, [on EXCEPT !.best = v]) /\ Goto(p, "best")
                              ELSE Update(p, on) /\ UNCHANGED pc
    /\ UNCHANGED <<code, data, directory, out, counters>>

(* torch.save writes best.pt in place, then metrics.json.                     *)
SaveBest(p) ==
    /\ pc[p] = "best"
    /\ best' = [score |-> job[p].best, whole |-> FALSE] /\ Goto(p, "metrics")
    /\ UNCHANGED <<code, data, ck, side, metrics, out, job, counters>>

BestSaved(p) ==
    /\ pc[p] = "metrics" /\ ~best.whole
    /\ best' = [best EXCEPT !.whole = TRUE]
    /\ UNCHANGED <<code, data, ck, side, metrics, out, pc, job, counters>>

BestMetrics(p) ==
    /\ pc[p] = "metrics" /\ best.whole
    /\ metrics' = [w |-> job[p].w, ver |-> job[p].ver, score |-> job[p].best, step |-> job[p].step]
    /\ Goto(p, "train")
    /\ UNCHANGED <<code, data, ck, side, best, out, job, counters>>

(* The last save, which a read-only scoring skips.                            *)
Finish(p) ==
    /\ pc[p] = "train" /\ ~InPass(job[p])
    /\ IF job[p].eval
       THEN Goto(p, "score") /\ UNCHANGED job
       ELSE Goto(p, "save") /\ Update(p, [job[p] EXCEPT !.mark = job[p].epochs])
    /\ UNCHANGED <<code, data, directory, out, counters>>

-----------------------------------------------------------------------------
(* save_checkpoint: os.replace of the whole file, then the stale ones go.    *)
StaleMutant(f) == {s \in SavedIn(f) : Cardinality({u \in SavedIn(f) : u < s}) >= KeepLast}
StaleOf(f) ==
    IF KeepLast = 0 THEN {}
    ELSE {s \in SavedIn(f) : Cardinality({u \in SavedIn(f) : u > s}) >= KeepLast}

PublishMutant(p) ==
    /\ pc[p] = "save"
    /\ LET j == job[p] IN
       /\ ck' = [ck EXCEPT ![j.step] = [epoch |-> j.mark + 1, w |-> j.w]]
       /\ Update(p, [j EXCEPT !.todo = StaleOf(ck')])
    /\ Goto(p, "prune")
    /\ UNCHANGED <<code, data, side, metrics, best, out, counters>>
Publish(p) ==
    /\ pc[p] = "save"
    /\ LET j == job[p] IN
       /\ ck' = [ck EXCEPT ![j.step] = [epoch |-> j.mark, w |-> j.w]]
       /\ Update(p, [j EXCEPT !.todo = StaleOf(ck')])
    /\ Goto(p, "prune")
    /\ UNCHANGED <<code, data, side, metrics, best, out, counters>>

Unlink(p) ==
    /\ pc[p] = "prune" /\ job[p].todo # {}
    /\ \E s \in job[p].todo :
          /\ \A u \in job[p].todo : s <= u
          /\ ck' = [ck EXCEPT ![s] = NoCkpt]
          /\ Update(p, [job[p] EXCEPT !.todo = @ \ {s}])
    /\ UNCHANGED <<code, data, side, metrics, best, out, pc, counters>>

(* Back in the loop, or, after the last save, on to the scores.               *)
Saves(p) ==
    /\ pc[p] = "prune" /\ job[p].todo = {}
    /\ Goto(p, IF InPass(job[p]) THEN "train" ELSE IF code.scores = "end" THEN "score" ELSE "done")
    /\ UNCHANGED <<code, data, directory, out, job, counters>>

(* write_metrics, to the directory or to --out, where there are rows to score *)
(* on; track_a_encoder has no --out.                                         *)
Measured(p) == [w |-> job[p].w, ver |-> job[p].ver, score |-> 0, step |-> job[p].step]

(* Mutant: --eval-only writes where the training would. *)
ScoreMutant(p) ==
    /\ pc[p] = "score" /\ Goto(p, "done")
    /\ metrics' = Measured(p) /\ Update(p, [job[p] EXCEPT !.scored = TRUE])
    /\ UNCHANGED <<code, data, ck, side, best, out, counters>>
Score(p) ==
    /\ pc[p] = "score" /\ Goto(p, "done")
    /\ \/ /\ IF job[p].eval /\ code.eval = "guarded"
             THEN out' = Measured(p) /\ UNCHANGED metrics
             ELSE metrics' = Measured(p) /\ UNCHANGED out
          /\ Update(p, [job[p] EXCEPT !.scored = TRUE])
       \/ code.split /\ UNCHANGED <<metrics, out, job>>
    /\ UNCHANGED <<code, data, ck, side, best, counters>>

-----------------------------------------------------------------------------
Kill(p) ==
    /\ ~Idle(p) /\ kills < MaxKills
    /\ kills' = kills + 1
    /\ Goto(p, "off") /\ Update(p, NoJob)
    /\ UNCHANGED <<code, data, directory, out, evals, bad>>

(* More rows are staged, or other ones.                                       *)
Restage ==
    /\ data <= MaxRestages
    /\ data' = data + 1
    /\ UNCHANGED <<code, directory, out, pc, job, counters>>

Work(p) ==
    \/ Load(p) \/ Sidecar(p) \/ SidecarWritten(p)
    \/ Batch(p) \/ BadBatch(p) \/ EndEpoch(p) \/ Finish(p)
    \/ SaveBest(p) \/ BestSaved(p) \/ BestMetrics(p)
    \/ Publish(p) \/ Unlink(p) \/ Saves(p) \/ Score(p)

Next ==
    \/ \E p \in Procs :
          \/ \E e, r \in BOOLEAN : \E n \in Epochs : Start(p, e, r, n)
          \/ Work(p) \/ Kill(p)
    \/ Restage

Spec == Init /\ [][Next]_vars

(* How the queue starts a trainer: afresh only where there is no checkpoint  *)
(* (Campaign's FreshStartOnlyInFreshDirectory), resumed everywhere else.     *)
Resumes ==
    \A p \in Procs :
        Idle(p) /\ pc'[p] = "load" /\ ~job'[p].eval /\ Saved # {} => job'[p].resume

QueueSpec == Init /\ [][Next /\ Resumes]_vars

-----------------------------------------------------------------------------
(* A checkpoint never claims a pass its weights have not seen: however often *)
(* a run is killed, resumed, finished or resumed for fewer epochs, no part of *)
(* the rows is skipped.                                                      *)
NoEpochSkipped == \A s \in Saved : ck[s].epoch <= ck[s].w.passes

(* A score on record, be it the training's own or that of a read-only scoring *)
(* that found the directory in any state, is a score of trained weights; but *)
(* track_a_encoder's own `--eval-only' scores what was built when it is given *)
(* no `--resume'.                                                            *)
MeasuresTrained ==
    code.eval # "own" => \A m \in {metrics, out} : m # NoMeasure => m.w.ver # 0

(* What a trainer returned with is never lost: whatever is resumed, for more  *)
(* epochs or fewer, killed or pruned after it, the checkpoint the next resume *)
(* loads is as far, and has seen every pass that was asked for.              *)
Returned(p) == pc[p] = "done" /\ ~job[p].eval

CompletedIsKept ==
    \A p \in Procs : Returned(p) =>
        /\ job[p].w.passes >= job[p].epochs
        /\ \E s \in Steps : /\ Latest(s) /\ s >= job[p].step
                           /\ ck[s].w.passes >= job[p].w.passes

(* While the newest checkpoint is the one a trainer returned with, the        *)
(* metrics.json it wrote is of those weights, read-only scorings of older     *)
(* ones included; but track_a_encoder's own `--eval-only' writes there too,   *)
(* and a trainer whose split has no rows leaves what was there.              *)
MetricsAreOfNewest ==
    code.eval # "own" /\ code.scores = "end" =>
        \A p \in Procs : Returned(p) /\ job[p].scored /\ Latest(job[p].step) =>
            metrics.w = job[p].w /\ metrics.step = job[p].step
=============================================================================
