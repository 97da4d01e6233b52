--------------------------- MODULE TrainersProofs ---------------------------
(***************************************************************************)
(* Of the trainers, for every number of processes, batches, epochs and        *)
(* intervals: under the whole of Spec (fresh starts over old checkpoints,    *)
(* restaged rows, kills) no checkpoint claims a pass its weights have not     *)
(* seen, none is skipped, and what is scored was trained; while only what     *)
(* the campaign starts is started, what a trainer that returned has left is   *)
(* never lost.  Of the staging, for all corpora, models and commands: what is *)
(* locked is whole, and what a verification says of the runs is so.          *)
(***************************************************************************)
EXTENDS Trainers, Staging, FiniteSetTheorems, TLAPS

(* Whatever process publishes next, its loop is not ahead of its weights.    *)
Abreast == \A p \in Procs : job[p].epoch <= job[p].w.passes

(* Nor is the epoch a save under way is going to record.                     *)
Marked == \A p \in Procs : pc[p] = "save" => job[p].mark <= job[p].w.passes

Places == {"off", "load", "side", "written", "train", "save", "prune", "best",
           "metrics", "score", "done", "failed"}

Side == [ver : Versions, whole : BOOLEAN]

(* The part of TypeOK the arithmetic needs.                                  *)
Counted ==
    /\ pc  \in [Procs -> Places]
    /\ ck  \in [Steps -> Ckpt]
    /\ job \in [Procs -> Job]
    /\ data \in Versions
    /\ side \in Side

PassInv == Counted /\ NoEpochSkipped /\ Abreast /\ Marked

(* A step of one process is as good as what it makes of that process's job,  *)
(* when it publishes nothing.                                                *)
LEMMA OneJob ==
    ASSUME PassInv, NEW p \in Procs, NEW j \in Job, NEW l \in Places,
           j.epoch <= j.w.passes, l = "save" => j.mark <= j.w.passes,
           Update(p, j), Goto(p, l),
           UNCHANGED <<ck, data>>, side' \in Side
    PROVE  PassInv'
<1>1. Counted'
  BY DEF PassInv, Counted, Update, Goto
<1>2. \A q \in Procs : job'[q] = IF q = p THEN j ELSE job[q]
  BY DEF PassInv, Counted, Update
<1>3. \A q \in Procs : pc'[q] = IF q = p THEN l ELSE pc[q]
  BY DEF PassInv, Counted, Goto
<1>4. NoEpochSkipped'
  BY DEF PassInv, NoEpochSkipped, Saved, SavedIn
<1>5. Abreast' /\ Marked'
  BY <1>2, <1>3 DEF PassInv, Abreast, Marked
<1> QED
  BY <1>1, <1>4, <1>5 DEF PassInv

LEMMA Stays ==
    ASSUME Counted, NEW p \in Procs
    PROVE  /\ UNCHANGED pc => Goto(p, pc[p])
           /\ UNCHANGED job => Update(p, job[p])
           /\ pc[p] \in Places /\ job[p] \in Job
BY DEF Counted, Goto, Update, Places

LEMMA JobTyped ==
    ASSUME TrainersAssumption
    PROVE  NoJob \in Job /\ NoJob.epoch <= NoJob.w.passes
BY DEF TrainersAssumption, NoJob, Job, Random, Weights, Versions, Steps

LEMMA InitHolds == ASSUME TrainersAssumption, Init PROVE PassInv
<1>1. Counted
  <2>1. NoCkpt \in Ckpt
    BY DEF TrainersAssumption, Ckpt, NoCkpt, Random, Weights, Versions
  <2>2. 1 \in Versions /\ 0 \in Versions
    BY DEF TrainersAssumption, Versions
  <2>3. pc \in [Procs -> Places] /\ job \in [Procs -> Job]
    BY JobTyped DEF Init, Places
  <2>4. ck \in [Steps -> Ckpt]
    BY <2>1 DEF Init
  <2>5. data \in Versions /\ side \in Side
    BY <2>2 DEF Init, Side
  <2> QED
    BY <2>3, <2>4, <2>5 DEF Counted
<1>2. NoEpochSkipped
  BY DEF Init, NoEpochSkipped, Saved, SavedIn, NoCkpt
<1>3. Abreast /\ Marked
  BY JobTyped DEF Init, Abreast, Marked
<1> QED
  BY <1>1, <1>2, <1>3 DEF PassInv

(* What a process's record and a checkpoint are made of.                     *)
LEMMA JobParts ==
    ASSUME NEW j \in Job, Epochs \subseteq Nat
    PROVE  /\ j.w \in Weights /\ j.ver \in Versions /\ j.epoch \in Nat /\ j.batch \in 0..Batches
           /\ j.step \in 0..MaxStep /\ j.epochs \in Nat /\ j.streak \in Nat /\ j.w.passes \in Nat
<1>1. /\ j.w \in Weights /\ j.ver \in Versions /\ j.epoch \in Nat /\ j.batch \in 0..Batches
      /\ j.step \in 0..MaxStep /\ j.epochs \in Epochs \cup {0} /\ j.streak \in Nat
  BY DEF Job
<1>2. j.w.passes \in Nat
  BY <1>1 DEF Weights
<1>3. j.epochs \in Nat
  <2>1. \A n \in Epochs \cup {0} : n \in Nat
    OBVIOUS
  <2> QED
    BY <1>1, <2>1, Zenon
<1> QED
  BY <1>1, <1>2, <1>3, Zenon

LEMMA PartsOfJob ==
    ASSUME TrainersAssumption, Counted, NEW p \in Procs
    PROVE  /\ job[p] \in Job /\ job[p].w \in Weights /\ job[p].ver \in Versions
           /\ job[p].epoch \in Nat /\ job[p].batch \in 0..Batches /\ job[p].step \in 0..MaxStep
           /\ job[p].epochs \in Nat /\ job[p].w.passes \in Nat /\ job[p].streak \in Nat
           /\ Batches \in Nat /\ MaxStep \in Nat
<1>1. Epochs \subseteq Nat /\ Batches \in Nat /\ MaxStep \in Nat
  BY DEF TrainersAssumption
<1>2. job[p] \in Job
  BY DEF Counted
<1> QED
  BY <1>1, <1>2, JobParts

LEMMA StartKeeps ==
    ASSUME TrainersAssumption, PassInv, NEW p \in Procs, NEW e \in BOOLEAN, NEW r \in BOOLEAN,
           NEW n \in Epochs, Start(p, e, r, n)
    PROVE  PassInv'
<1>1. PICK v \in Versions : Update(p, [NoJob EXCEPT !.eval = e, !.resume = r, !.epochs = n, !.ver = v])
  BY DEF Start, PassInv, Counted, Side
<1> DEFINE j == [NoJob EXCEPT !.eval = e, !.resume = r, !.epochs = n, !.ver = v]
<1>2. j \in Job /\ j.epoch <= j.w.passes
  BY JobTyped DEF Job, NoJob, Random
<1>3. PICK l \in Places : Goto(p, l) /\ l # "save"
  BY DEF Start, Places
<1>4. UNCHANGED <<ck, data>> /\ side' \in Side
  BY DEF Start, directory, PassInv, Counted
<1>5. Update(p, j)
  BY <1>1
<1> HIDE DEF j
<1> QED
  BY <1>2, <1>3, <1>4, <1>5, OneJob

(* The steps that leave the job as it is and begin no save.                  *)
LEMMA OnlyMoves ==
    ASSUME PassInv, NEW p \in Procs, NEW l \in Places, l # "save",
           Goto(p, l), UNCHANGED <<ck, data, job>>, side' \in Side
    PROVE  PassInv'
BY Stays, OneJob DEF PassInv, Abreast

LEMMA LoadKeeps ==
    ASSUME TrainersAssumption, PassInv, NEW p \in Procs, Load(p)
    PROVE  PassInv'
<1> USE DEF PassInv
<1>1. UNCHANGED <<ck, data>> /\ side' = side /\ side' \in Side
  BY DEF Load, directory, Counted
<1>2. (Goto(p, "failed") \/ Goto(p, "side")) /\ UNCHANGED job => PassInv'
  BY <1>1, OnlyMoves DEF Places
<1>3. ASSUME NEW s \in Steps, Latest(s), Loads(p, s) PROVE PassInv'
  <2> DEFINE j == [job[p] EXCEPT !.w = ck[s].w, !.step = s, !.epoch = ck[s].epoch]
  <2>1. ck[s] \in Ckpt /\ ck[s].epoch # -1 /\ ck[s].epoch <= ck[s].w.passes
    BY <1>3 DEF Latest, Saved, SavedIn, NoEpochSkipped, Counted
  <2>2. ck[s].w \in Weights /\ ck[s].epoch \in Nat /\ s \in 0..MaxStep
    BY <2>1 DEF Ckpt, Steps, TrainersAssumption
  <2>3. job[p] \in Job
    BY DEF Counted
  <2>4. j \in Job /\ j.epoch <= j.w.passes
    BY <2>1, <2>2, <2>3 DEF Job
  <2>5. CASE Update(p, j) /\ Goto(p, "side")
    <3> HIDE DEF j
    <3> QED
      BY <2>4, <2>5, <1>1, OneJob DEF Places
  <2>6. CASE Goto(p, "failed") /\ UNCHANGED job
    BY <2>6, <1>2
  <2> QED
    BY <2>5, <2>6, <1>3 DEF Loads
<1> QED
  BY <1>2, <1>3 DEF Load

LEMMA SidecarKeeps ==
    ASSUME TrainersAssumption, PassInv, NEW p \in Procs, Sidecar(p) \/ SidecarWritten(p)
    PROVE  PassInv'
<1>1. PICK l \in {"written", "train"} : Goto(p, l)
  BY DEF Sidecar, SidecarWritten
<1>2. side' \in Side
  <2>1. job[p].ver \in Versions /\ side \in Side
    BY PartsOfJob DEF PassInv, Counted
  <2>2. CASE Sidecar(p)
    <3>1. side' = side \/ side' = [ver |-> job[p].ver, whole |-> FALSE]
      BY <2>2 DEF Sidecar
    <3>2. [ver |-> job[p].ver, whole |-> FALSE] \in Side
      BY <2>1 DEF Side
    <3> QED
      BY <2>1, <3>1, <3>2
  <2>3. CASE SidecarWritten(p)
    BY <2>1, <2>3 DEF SidecarWritten, Side
  <2> QED
    BY <2>2, <2>3
<1> QED
  BY <1>1, <1>2, OnlyMoves DEF Sidecar, SidecarWritten, Places

LEMMA BatchKeeps ==
    ASSUME TrainersAssumption, PassInv, NEW p \in Procs, Batch(p)
    PROVE  PassInv'
<1> DEFINE w  == Trained(job[p])
           on == [job[p] EXCEPT !.w = w, !.batch = @ + 1, !.step = @ + 1, !.streak = 0]
<1>1. job[p] \in Job /\ job[p].epoch <= job[p].w.passes
  BY DEF PassInv, Counted, Abreast
<1>2. job[p].batch + 1 \in 0..Batches /\ job[p].step + 1 \in 0..MaxStep
  <2>1. job[p].batch < Batches /\ job[p].step < MaxStep
    BY DEF Batch, Left
  <2> QED
    BY <2>1, PartsOfJob DEF PassInv
<1>3. w \in Weights /\ w.passes = job[p].w.passes
  BY <1>2, PartsOfJob DEF PassInv, Trained, Weights
<1> HIDE DEF w
<1>4. on \in Job /\ on.w = w /\ on.epoch = job[p].epoch
  BY <1>1, <1>2, <1>3 DEF Job
<1>5. [on EXCEPT !.mark = job[p].epoch] \in Job
  BY <1>1, <1>4 DEF Job
<1>6. [on EXCEPT !.mark = job[p].epoch].w = w /\ [on EXCEPT !.mark = job[p].epoch].epoch = job[p].epoch
      /\ [on EXCEPT !.mark = job[p].epoch].mark = job[p].epoch
  BY <1>4, <1>5 DEF Job
<1>7. UNCHANGED <<ck, data>> /\ side' \in Side /\ pc[p] = "train"
  BY DEF Batch, directory, PassInv, Counted
<1>8. \/ Update(p, [on EXCEPT !.mark = job[p].epoch]) /\ Goto(p, "save")
      \/ Update(p, on) /\ UNCHANGED pc
  BY DEF Batch, w
<1> HIDE DEF on
<1>9. CASE Update(p, [on EXCEPT !.mark = job[p].epoch]) /\ Goto(p, "save")
  BY <1>1, <1>3, <1>5, <1>6, <1>7, <1>9, OneJob DEF Places
<1>10. CASE Update(p, on) /\ UNCHANGED pc
  BY <1>1, <1>3, <1>4, <1>7, <1>10, Stays, OneJob DEF PassInv
<1> QED
  BY <1>8, <1>9, <1>10

LEMMA BadBatchKeeps ==
    ASSUME TrainersAssumption, PassInv, NEW p \in Procs, BadBatch(p)
    PROVE  PassInv'
<1> DEFINE on == [job[p] EXCEPT !.batch = @ + 1, !.step = @ + 1, !.streak = @ + 1]
<1>1. job[p] \in Job /\ job[p].epoch <= job[p].w.passes
  BY DEF PassInv, Counted, Abreast
<1>2. job[p].batch + 1 \in 0..Batches /\ job[p].step + 1 \in 0..MaxStep
  <2>1. job[p].batch < Batches /\ job[p].step < MaxStep
    BY DEF BadBatch, Left
  <2> QED
    BY <2>1, PartsOfJob DEF PassInv
<1>3. on \in Job /\ on.w = job[p].w /\ on.epoch = job[p].epoch
  <2>1. job[p].streak + 1 \in Nat
    BY PartsOfJob DEF PassInv
  <2> QED
    BY <1>1, <1>2, <2>1 DEF Job
<1>4. UNCHANGED <<ck, data>> /\ side' \in Side /\ pc[p] = "train"
  BY DEF BadBatch, directory, PassInv, Counted
<1>5. CASE Goto(p, "failed") /\ UNCHANGED job
  BY <1>4, <1>5, OnlyMoves DEF Places
<1>6. CASE Update(p, on) /\ UNCHANGED pc
  <2> HIDE DEF on
  <2> QED
    BY <1>1, <1>3, <1>4, <1>6, Stays, OneJob DEF PassInv
<1> QED
  BY <1>5, <1>6 DEF BadBatch

LEMMA EndEpochKeeps ==
    ASSUME TrainersAssumption, PassInv, NEW p \in Procs, EndEpoch(p)
    PROVE  PassInv'
<1> DEFINE w  == [job[p].w EXCEPT !.passes = @ + 1]
           on == [job[p] EXCEPT !.epoch = job[p].epoch + 1, !.batch = 0, !.w.passes = @ + 1]
<1>1. job[p] \in Job /\ job[p].epoch <= job[p].w.passes /\ job[p].epoch \in Nat
  BY PartsOfJob DEF PassInv, Counted, Abreast
<1>2. w \in Weights /\ w.passes = job[p].w.passes + 1
  <2>1. job[p].w \in Weights /\ job[p].w.passes + 1 \in Nat /\ 0 \in 0..Batches
    BY PartsOfJob DEF PassInv
  <2> QED
    BY <2>1 DEF Weights
<1>3. on = [job[p] EXCEPT !.epoch = job[p].epoch + 1, !.batch = 0, !.w = w]
  BY <1>1 DEF Job
<1> HIDE DEF w
<1>4. on \in Job /\ on.w = w /\ on.epoch = job[p].epoch + 1
  <2>1. 0 \in 0..Batches /\ job[p].epoch + 1 \in Nat
    BY PartsOfJob DEF PassInv
  <2> HIDE DEF on
  <2> QED
    BY <1>1, <1>2, <1>3, <2>1 DEF Job
<1>5. on.epoch <= on.w.passes
  <2> HIDE DEF on
  <2> QED
    BY <1>1, <1>2, <1>4, PartsOfJob DEF PassInv
<1>6. UNCHANGED <<ck, data>> /\ side' \in Side /\ pc[p] = "train"
  BY DEF EndEpoch, directory, PassInv, Counted
<1>7. \/ Update(p, on) /\ UNCHANGED pc
      \/ \E v \in Scores : Update(p, [on EXCEPT !.best = v]) /\ Goto(p, "best")
  BY DEF EndEpoch
<1> HIDE DEF on
<1>8. CASE Update(p, on) /\ UNCHANGED pc
  BY <1>4, <1>5, <1>6, <1>8, Stays, OneJob DEF PassInv
<1>9. ASSUME NEW v \in Scores, Update(p, [on EXCEPT !.best = v]), Goto(p, "best")
      PROVE  PassInv'
  <2>1. [on EXCEPT !.best = v] \in Job /\ [on EXCEPT !.best = v].epoch = on.epoch
        /\ [on EXCEPT !.best = v].w = on.w
    BY <1>4 DEF Job
  <2> QED
    BY <1>5, <1>6, <1>9, <2>1, OneJob DEF Places
<1> QED
  BY <1>7, <1>8, <1>9

LEMMA FinishKeeps ==
    ASSUME TrainersAssumption, PassInv, NEW p \in Procs, Finish(p)
    PROVE  PassInv'
<1> DEFINE j == [job[p] EXCEPT !.mark = job[p].epochs]
<1>1. job[p] \in Job /\ job[p].epoch <= job[p].w.passes
  BY DEF PassInv, Counted, Abreast
<1>2. job[p].epochs \in Nat
  BY PartsOfJob DEF PassInv
<1>3. j \in Job /\ j.w = job[p].w /\ j.epoch = job[p].epoch /\ j.mark = job[p].epochs
  BY <1>1, <1>2 DEF Job
<1>4. UNCHANGED <<ck, data>> /\ side' \in Side
  BY DEF Finish, directory, PassInv, Counted
<1>5. CASE job[p].eval
  BY <1>4, <1>5, OnlyMoves DEF Finish, Places
<1>6. CASE ~job[p].eval
  <2>1. job[p].epochs <= job[p].epoch
    BY <1>2, <1>6, PartsOfJob DEF Finish, InPass, Limit, PassInv
  <2>2. Goto(p, "save") /\ Update(p, j)
    BY <1>6 DEF Finish
  <2>3. j.mark <= j.w.passes
    BY <1>1, <1>2, <1>3, <2>1, PartsOfJob DEF PassInv
  <2> HIDE DEF j
  <2> QED
    BY <1>1, <1>3, <1>4, <2>2, <2>3, OneJob DEF Places
<1> QED
  BY <1>5, <1>6

(* The one step that writes a checkpoint: what it records was marked.        *)
LEMMA PublishKeeps ==
    ASSUME TrainersAssumption, PassInv, NEW p \in Procs, Publish(p)
    PROVE  PassInv'
<1> DEFINE c == [epoch |-> job[p].mark, w |-> job[p].w]
           j == [job[p] EXCEPT !.todo = StaleOf(ck')]
<1>1. job[p] \in Job /\ job[p].epoch <= job[p].w.passes /\ job[p].mark <= job[p].w.passes
  BY DEF PassInv, Counted, Abreast, Marked, Publish
<1>2. c \in Ckpt /\ c.epoch <= c.w.passes
  BY <1>1 DEF Ckpt, Job
<1>3. ck' = [ck EXCEPT ![job[p].step] = c]
  BY DEF Publish
<1>4. ck' \in [Steps -> Ckpt] /\ \A s \in Steps : ck'[s] = c \/ ck'[s] = ck[s]
  BY <1>2, <1>3 DEF PassInv, Counted
<1>5. StaleOf(ck') \subseteq Steps
  BY DEF StaleOf, SavedIn
<1>6. j \in Job /\ j.w = job[p].w /\ j.epoch = job[p].epoch
  BY <1>1, <1>5 DEF Job
<1>7. job' = [job EXCEPT ![p] = j] /\ pc' = [pc EXCEPT ![p] = "prune"] /\ data' = data /\ side' = side
  BY DEF Publish, Update, Goto
<1> HIDE DEF c, j
<1>8. Counted'
  BY <1>4, <1>6, <1>7 DEF PassInv, Counted, Places
<1>9. NoEpochSkipped'
  BY <1>2, <1>4 DEF PassInv, NoEpochSkipped, Saved, SavedIn
<1>10. Abreast' /\ Marked'
  BY <1>1, <1>6, <1>7 DEF PassInv, Abreast, Marked, Counted
<1> QED
  BY <1>8, <1>9, <1>10 DEF PassInv

LEMMA UnlinkKeeps ==
    ASSUME TrainersAssumption, PassInv, NEW p \in Procs, Unlink(p)
    PROVE  PassInv'
<1>1. PICK s \in job[p].todo : /\ ck' = [ck EXCEPT ![s] = NoCkpt]
                               /\ Update(p, [job[p] EXCEPT !.todo = @ \ {s}])
  BY DEF Unlink
<1> DEFINE j == [job[p] EXCEPT !.todo = @ \ {s}]
<1>2. job[p] \in Job /\ job[p].epoch <= job[p].w.passes
  BY DEF PassInv, Counted, Abreast
<1>3. j \in Job /\ j.w = job[p].w /\ j.epoch = job[p].epoch
  BY <1>2 DEF Job
<1>4. NoCkpt \in Ckpt
  BY DEF TrainersAssumption, Ckpt, NoCkpt, Random, Weights, Versions
<1>5. ck' \in [Steps -> Ckpt] /\ \A u \in Steps : ck'[u] = NoCkpt \/ ck'[u] = ck[u]
  BY <1>1, <1>4 DEF PassInv, Counted
<1>6. job' = [job EXCEPT ![p] = j] /\ pc' = pc /\ data' = data /\ side' = side /\ pc[p] = "prune"
  BY <1>1 DEF Unlink, Update
<1> HIDE DEF j
<1>7. Counted'
  BY <1>3, <1>5, <1>6 DEF PassInv, Counted
<1>8. NoEpochSkipped'
  BY <1>5 DEF PassInv, NoEpochSkipped, Saved, SavedIn, NoCkpt
<1>9. Abreast' /\ Marked'
  BY <1>2, <1>3, <1>6 DEF PassInv, Abreast, Marked, Counted
<1> QED
  BY <1>7, <1>8, <1>9 DEF PassInv

LEMMA OthersKeep ==
    ASSUME TrainersAssumption, PassInv, NEW p \in Procs,
           SaveBest(p) \/ BestSaved(p) \/ BestMetrics(p) \/ Saves(p)
    PROVE  PassInv'
<1>1. UNCHANGED <<ck, data, job>> /\ side' \in Side
  BY DEF SaveBest, BestSaved, BestMetrics, Saves, directory, PassInv, Counted
<1>2. CASE BestSaved(p)
  BY <1>1, <1>2 DEF BestSaved, PassInv, Counted, NoEpochSkipped, Saved, SavedIn, Abreast, Marked
<1>3. CASE SaveBest(p) \/ BestMetrics(p) \/ Saves(p)
  <2>1. PICK l \in {"metrics", "train", "score", "done"} : Goto(p, l)
    BY <1>3 DEF SaveBest, BestMetrics, Saves
  <2> QED
    BY <1>1, <2>1, OnlyMoves DEF Places
<1> QED
  BY <1>2, <1>3

(* A scoring changes of its process only that it has scored.                 *)
LEMMA ScoreMoves ==
    ASSUME Counted, NEW p \in Procs, Score(p)
    PROVE  \E j \in Job :
              /\ Update(p, j) /\ Goto(p, "done") /\ pc[p] = "score"
              /\ UNCHANGED <<code, data, ck, side, best>>
              /\ \A f \in DOMAIN job[p] \ {"scored"} : j[f] = job[p][f]
              /\ \/ j = job[p] /\ UNCHANGED <<metrics, out>>
                 \/ job[p].eval /\ code.eval = "guarded" /\ out' = Measured(p) /\ UNCHANGED metrics
                 \/ ~(job[p].eval /\ code.eval = "guarded") /\ metrics' = Measured(p) /\ UNCHANGED out
<1> DEFINE on == [job[p] EXCEPT !.scored = TRUE]
<1>1. job[p] \in Job
  BY DEF Counted
<1>2. on \in Job /\ \A f \in DOMAIN job[p] \ {"scored"} : on[f] = job[p][f]
  BY <1>1 DEF Job
<1>3. Goto(p, "done") /\ pc[p] = "score" /\ UNCHANGED <<code, data, ck, side, best>>
  BY DEF Score
<1>4. CASE UNCHANGED <<metrics, out, job>>
  BY <1>1, <1>3, <1>4, Stays
<1>5. CASE /\ Update(p, on)
           /\ IF job[p].eval /\ code.eval = "guarded"
              THEN out' = Measured(p) /\ UNCHANGED metrics
              ELSE metrics' = Measured(p) /\ UNCHANGED out
  <2> HIDE DEF on
  <2> QED
    BY <1>2, <1>3, <1>5
<1> QED
  BY <1>4, <1>5 DEF Score

LEMMA ScoreKeeps ==
    ASSUME TrainersAssumption, PassInv, NEW p \in Procs, Score(p)
    PROVE  PassInv'
<1>1. PICK j \in Job :
          /\ Update(p, j) /\ Goto(p, "done") /\ UNCHANGED <<data, ck, side>>
          /\ \A f \in DOMAIN job[p] \ {"scored"} : j[f] = job[p][f]
  BY ScoreMoves DEF PassInv
<1>2. job[p] \in Job /\ job[p].epoch <= job[p].w.passes /\ side' \in Side
  BY <1>1 DEF PassInv, Counted, Abreast
<1>3. j.epoch = job[p].epoch /\ j.w = job[p].w
  BY <1>1, <1>2 DEF Job
<1> QED
  BY <1>1, <1>2, <1>3, OneJob DEF Places

LEMMA EnvironmentKeeps ==
    ASSUME TrainersAssumption, PassInv
    PROVE  /\ \A p \in Procs : Kill(p) => PassInv'
           /\ Restage => PassInv'
           /\ UNCHANGED vars => PassInv'
<1>1. ASSUME NEW p \in Procs, Kill(p) PROVE PassInv'
  <2>1. Update(p, NoJob) /\ Goto(p, "off") /\ UNCHANGED <<ck, data>> /\ side' \in Side
    BY <1>1 DEF Kill, directory, PassInv, Counted
  <2> QED
    BY <2>1, JobTyped, OneJob DEF Places
<1>2. CASE Restage
  BY <1>2 DEF Restage, directory, PassInv, Counted, NoEpochSkipped, Saved, SavedIn, Abreast, Marked,
              Versions, TrainersAssumption
<1>3. CASE UNCHANGED vars
  BY <1>3 DEF vars, directory, PassInv, Counted, NoEpochSkipped, Saved, SavedIn, Abreast, Marked
<1> QED
  BY <1>1, <1>2, <1>3

LEMMA PassKeeps == ASSUME PassInv, [Next]_vars PROVE PassInv'
<1>1. ASSUME NEW p \in Procs, Work(p) PROVE PassInv'
  BY <1>1, TrainersAssumption, LoadKeeps, SidecarKeeps, BatchKeeps, BadBatchKeeps, EndEpochKeeps,
     FinishKeeps, PublishKeeps, UnlinkKeeps, OthersKeep, ScoreKeeps DEF Work
<1> QED
  BY <1>1, TrainersAssumption, StartKeeps, EnvironmentKeeps DEF Next

(* No checkpoint claims a pass its weights have not seen, however often the  *)
(* run was killed, resumed, restarted or resumed for fewer epochs: resuming  *)
(* skips no part of the rows.                                                *)
THEOREM NothingSkipped == Spec => []NoEpochSkipped
<1>1. Init => PassInv
  BY TrainersAssumption, InitHolds
<1>2. PassInv => NoEpochSkipped
  BY DEF PassInv
<1> QED
  BY <1>1, <1>2, PassKeeps, PTL DEF Spec

-----------------------------------------------------------------------------
(* What is scored was trained.                                               *)

(* Losses that are not finite end a run within a pass: of a longer patience, *)
(* or none, a run may skip every batch and score the model as it was built.  *)
PatienceWithinPass == (\E c \in Codes : c.counts) => NanPatience \in 1..Batches

(* Weights that saw no batch are those of a process that has not loaded, or   *)
(* of a training whose every batch so far was skipped, fewer than a pass has. *)
TaughtBy(j, l) ==
    /\ l \notin {"off", "done", "failed"} =>
          j.ver # 0 /\ j.epochs # 0 /\ (j.eval => code.eval = "guarded")
    /\ l \in {"load", "side", "written", "train"} /\ j.w.ver = 0 =>
          /\ j.epoch = 0 /\ j.batch = j.streak /\ (j.streak = 0 \/ j.streak < Batches)
          /\ j.eval => l = "load"
    /\ l \in {"save", "prune", "best", "metrics", "score"} => j.w.ver # 0

(* No process, no checkpoint and no score on record is of untrained weights.  *)
TaughtInv ==
    /\ PassInv /\ code \in Codes /\ data # 0
    /\ code.eval # "own" =>
         /\ \A p \in Procs : TaughtBy(job[p], pc[p])
         /\ \A s \in Saved : ck[s].w.ver # 0
         /\ \A m \in {metrics, out} : m # NoMeasure => m.w.ver # 0

(* A step of one process that publishes nothing and scores nothing.           *)
LEMMA Teaches ==
    ASSUME TaughtInv, PassInv', NEW p \in Procs, NEW j, NEW l,
           Update(p, j), Goto(p, l), UNCHANGED code,
           code.eval # "own" => TaughtBy(j, l)
    PROVE  code.eval # "own" => \A q \in Procs : TaughtBy(job[q], pc[q])'
<1>1. \A q \in Procs : job'[q] = IF q = p THEN j ELSE job[q]
  BY DEF TaughtInv, PassInv, Counted, Update
<1>2. \A q \in Procs : pc'[q] = IF q = p THEN l ELSE pc[q]
  BY DEF TaughtInv, PassInv, Counted, Goto
<1> QED
  BY <1>1, <1>2 DEF TaughtInv, TaughtBy

LEMMA TeachesOnly ==
    ASSUME TaughtInv, PassInv', NEW p \in Procs, NEW j, NEW l,
           Update(p, j), Goto(p, l), UNCHANGED <<code, ck, data, metrics, out>>,
           code.eval # "own" => TaughtBy(j, l)
    PROVE  TaughtInv'
<1>1. code.eval # "own" => \A q \in Procs : TaughtBy(job[q], pc[q])'
  BY Teaches
<1> QED
  BY <1>1 DEF TaughtInv, Saved, SavedIn

LEMMA StartTeaches ==
    ASSUME TaughtInv, PassInv', NEW p \in Procs, NEW e \in BOOLEAN, NEW r \in BOOLEAN,
           NEW n \in Epochs, Start(p, e, r, n)
    PROVE  TaughtInv'
<1>1. PICK v \in Versions \ {0} :
        Update(p, [NoJob EXCEPT !.eval = e, !.resume = r, !.epochs = n, !.ver = v])
  BY DEF Start, TaughtInv, PassInv, Counted, Side
<1>2. PICK l \in {"failed", "load"} : Goto(p, l)
  BY DEF Start
<1> DEFINE j == [NoJob EXCEPT !.eval = e, !.resume = r, !.epochs = n, !.ver = v]
<1>3. n # 0 /\ (e /\ code.eval # "own" => code.eval = "guarded")
  <2>1. n # 0 /\ code \in Code
    BY TrainersAssumption DEF TrainersAssumption, TaughtInv
  <2>2. e => code.eval # "none"
    BY DEF Start
  <2> QED
    BY <2>1, <2>2 DEF Code
<1>4. /\ j.ver = v /\ j.epochs = n /\ j.eval = e /\ j.w.ver = 0
      /\ j.epoch = 0 /\ j.batch = 0 /\ j.streak = 0
  BY DEF NoJob, Random
<1>5. code.eval # "own" => TaughtBy(j, l)
  <2> HIDE DEF j
  <2> QED
    BY <1>3, <1>4 DEF TaughtBy
<1>6. Update(p, j) /\ UNCHANGED <<code, ck, data, metrics, out>>
  BY <1>1 DEF Start, directory
<1> HIDE DEF j
<1> QED
  BY <1>2, <1>5, <1>6, TeachesOnly

(* A guarded evaluation goes on only with a checkpoint.                       *)
LEMMA LoadTeaches == ASSUME TaughtInv, PassInv', NEW p \in Procs, Load(p) PROVE TaughtInv'
<1>1. UNCHANGED <<code, ck, data, metrics, out>> /\ pc[p] = "load" /\ job[p] \in Job
  BY DEF Load, directory, TaughtInv, PassInv, Counted
<1>2. code.eval # "own" => TaughtBy(job[p], "load")
  BY <1>1 DEF TaughtInv
<1>3. ASSUME Goto(p, "failed"), UNCHANGED job PROVE TaughtInv'
  <2>1. TaughtBy(job[p], "failed")
    BY DEF TaughtBy
  <2> QED
    BY <1>1, <1>3, <2>1, Stays, TeachesOnly DEF TaughtInv, PassInv
<1>4. ASSUME NEW s \in Steps, Latest(s), Loads(p, s) PROVE TaughtInv'
  <2> DEFINE j == [job[p] EXCEPT !.w = ck[s].w, !.step = s, !.epoch = ck[s].epoch]
  <2>1. code.eval # "own" => ck[s].w.ver # 0
    BY <1>4 DEF TaughtInv, Latest
  <2>2. CASE Update(p, j) /\ Goto(p, "side")
    <3>1. code.eval # "own" => TaughtBy(j, "side")
      BY <1>1, <1>2, <2>1 DEF TaughtBy, Job
    <3> HIDE DEF j
    <3> QED
      BY <1>1, <2>2, <3>1, TeachesOnly
  <2> QED
    BY <1>3, <1>4, <2>2 DEF Loads
<1>5. ASSUME ~(job[p].eval /\ code.eval = "guarded"), Goto(p, "side"), UNCHANGED job
      PROVE  TaughtInv'
  <2>1. code.eval # "own" => TaughtBy(job[p], "side")
    BY <1>2, <1>5 DEF TaughtBy
  <2> QED
    BY <1>1, <1>5, <2>1, Stays, TeachesOnly DEF TaughtInv, PassInv
<1> QED
  BY <1>3, <1>4, <1>5 DEF Load

LEMMA SidecarTeaches ==
    ASSUME TaughtInv, PassInv', NEW p \in Procs, Sidecar(p) \/ SidecarWritten(p)
    PROVE  TaughtInv'
<1>1. PICK l \in {"written", "train"} : Goto(p, l)
  BY DEF Sidecar, SidecarWritten
<1>2. UNCHANGED <<code, ck, data, metrics, out, job>> /\ pc[p] \in {"side", "written"}
  BY DEF Sidecar, SidecarWritten
<1>3. code.eval # "own" => TaughtBy(job[p], l)
  BY <1>2 DEF TaughtInv, TaughtBy
<1> QED
  BY <1>1, <1>2, <1>3, Stays, TeachesOnly DEF TaughtInv, PassInv

(* A batch teaches; one that is skipped is soon followed by the end.          *)
LEMMA BatchTeaches == ASSUME TaughtInv, PassInv', NEW p \in Procs, Batch(p) PROVE TaughtInv'
<1> DEFINE on == [job[p] EXCEPT !.w = Trained(job[p]), !.batch = @ + 1, !.step = @ + 1, !.streak = 0]
<1>1. /\ UNCHANGED <<code, ck, data, metrics, out>> /\ pc[p] = "train" /\ job[p] \in Job
      /\ job[p].w \in Weights
  BY PartsOfJob, TrainersAssumption DEF Batch, directory, TaughtInv, PassInv, Counted
<1>2. code.eval # "own" => TaughtBy(job[p], "train")
  BY <1>1 DEF TaughtInv
<1>3. on.w.ver = job[p].ver
  BY <1>1 DEF Trained, Job, Weights
<1>4. code.eval # "own" =>
        TaughtBy(on, "train") /\ TaughtBy([on EXCEPT !.mark = job[p].epoch], "save")
  BY <1>1, <1>2, <1>3 DEF TaughtBy, Job
<1>5. \/ Update(p, [on EXCEPT !.mark = job[p].epoch]) /\ Goto(p, "save")
      \/ Update(p, on) /\ UNCHANGED pc
  BY DEF Batch
<1> HIDE DEF on
<1>6. CASE Update(p, [on EXCEPT !.mark = job[p].epoch]) /\ Goto(p, "save")
  BY <1>1, <1>4, <1>6, TeachesOnly
<1>7. CASE Update(p, on) /\ UNCHANGED pc
  BY <1>1, <1>4, <1>7, Stays, TeachesOnly DEF TaughtInv, PassInv
<1> QED
  BY <1>5, <1>6, <1>7

LEMMA BadBatchTeaches ==
    ASSUME PatienceWithinPass, TaughtInv, PassInv', NEW p \in Procs, BadBatch(p)
    PROVE  TaughtInv'
<1> DEFINE on == [job[p] EXCEPT !.batch = @ + 1, !.step = @ + 1, !.streak = @ + 1]
<1>1. /\ UNCHANGED <<code, ck, data, metrics, out>> /\ pc[p] = "train" /\ job[p] \in Job
      /\ job[p].streak \in Nat /\ NanPatience \in 1..Batches /\ Batches \in Nat
  BY PartsOfJob, TrainersAssumption
  DEF BadBatch, directory, TaughtInv, PassInv, Counted, PatienceWithinPass, TrainersAssumption
<1>2. code.eval # "own" => TaughtBy(job[p], "train")
  BY <1>1 DEF TaughtInv
<1>3. CASE Goto(p, "failed") /\ UNCHANGED job
  <2>1. TaughtBy(job[p], "failed")
    BY DEF TaughtBy
  <2> QED
    BY <1>1, <1>3, <2>1, Stays, TeachesOnly DEF TaughtInv, PassInv
<1>4. CASE Update(p, on) /\ UNCHANGED pc /\ job[p].streak + 1 < NanPatience
  <2>1. /\ on.ver = job[p].ver /\ on.epochs = job[p].epochs /\ on.eval = job[p].eval
        /\ on.w = job[p].w /\ on.epoch = job[p].epoch /\ on.batch = job[p].batch + 1
        /\ on.streak = job[p].streak + 1
    BY <1>1 DEF Job
  <2> HIDE DEF on
  <2>2. code.eval # "own" => TaughtBy(on, "train")
    BY <1>1, <1>2, <1>4, <2>1 DEF TaughtBy
  <2> QED
    BY <1>1, <1>4, <2>2, Stays, TeachesOnly DEF TaughtInv, PassInv
<1>5. \/ Goto(p, "failed") /\ UNCHANGED job
      \/ Update(p, on) /\ UNCHANGED pc /\ job[p].streak + 1 < NanPatience
  <2> HIDE DEF on
  <2> QED
    BY <1>1 DEF BadBatch, on
<1> QED
  BY <1>3, <1>4, <1>5

(* A pass that was gone through is not one of skipped batches only.           *)
LEMMA EndEpochTeaches == ASSUME TaughtInv, PassInv', NEW p \in Procs, EndEpoch(p) PROVE TaughtInv'
<1> DEFINE on == [job[p] EXCEPT !.epoch = job[p].epoch + 1, !.batch = 0, !.w.passes = @ + 1]
<1>1. /\ UNCHANGED <<code, ck, data, metrics, out>> /\ pc[p] = "train" /\ job[p] \in Job
      /\ job[p].w \in Weights /\ job[p].batch \in 0..Batches /\ ~(job[p].batch < Batches)
      /\ Batches \in Nat \ {0}
  BY PartsOfJob, TrainersAssumption
  DEF EndEpoch, Left, directory, TaughtInv, PassInv, Counted, TrainersAssumption
<1>2. code.eval # "own" => TaughtBy(job[p], "train") /\ job[p].w.ver # 0
  BY <1>1 DEF TaughtInv, TaughtBy
<1>3. /\ on.ver = job[p].ver /\ on.epochs = job[p].epochs /\ on.eval = job[p].eval
      /\ on.w.ver = job[p].w.ver
  BY <1>1 DEF Job, Weights
<1>4. \/ Update(p, on) /\ UNCHANGED pc
      \/ \E v \in Scores : Update(p, [on EXCEPT !.best = v]) /\ Goto(p, "best")
  BY DEF EndEpoch
<1>5. CASE Update(p, on) /\ UNCHANGED pc
  <2> HIDE DEF on
  <2>1. code.eval # "own" => TaughtBy(on, "train")
    BY <1>2, <1>3 DEF TaughtBy
  <2> QED
    BY <1>1, <1>5, <2>1, Stays, TeachesOnly DEF TaughtInv, PassInv
<1>6. ASSUME NEW v \in Scores, Update(p, [on EXCEPT !.best = v]), Goto(p, "best")
      PROVE  TaughtInv'
  <2> DEFINE j == [on EXCEPT !.best = v]
  <2>1. /\ j.ver = job[p].ver /\ j.epochs = job[p].epochs /\ j.eval = job[p].eval
        /\ j.w.ver = job[p].w.ver
    BY <1>1 DEF Job, Weights
  <2> HIDE DEF on
  <2>2. Update(p, j)
    BY <1>6
  <2> HIDE DEF j
  <2>3. code.eval # "own" => TaughtBy(j, "best")
    BY <1>2, <2>1 DEF TaughtBy
  <2> QED
    BY <1>1, <1>6, <2>2, <2>3, TeachesOnly
<1> HIDE DEF on
<1> QED
  BY <1>4, <1>5, <1>6

LEMMA FinishTeaches == ASSUME TaughtInv, PassInv', NEW p \in Procs, Finish(p) PROVE TaughtInv'
<1> DEFINE j == [job[p] EXCEPT !.mark = job[p].epochs]
<1>1. /\ UNCHANGED <<code, ck, data, metrics, out>> /\ pc[p] = "train" /\ job[p] \in Job
      /\ job[p].epoch \in Nat /\ job[p].epochs \in Nat
  BY PartsOfJob, TrainersAssumption DEF Finish, directory, TaughtInv, PassInv, Counted
<1>2. code.eval # "own" => TaughtBy(job[p], "train")
  BY <1>1 DEF TaughtInv
<1>3. CASE job[p].eval
  <2>1. code.eval # "own" => TaughtBy(job[p], "score")
    BY <1>2, <1>3 DEF TaughtBy
  <2>2. Goto(p, "score") /\ UNCHANGED job
    BY <1>3 DEF Finish
  <2> QED
    BY <1>1, <2>1, <2>2, Stays, TeachesOnly DEF TaughtInv, PassInv
<1>4. CASE ~job[p].eval
  <2>1. job[p].epochs <= job[p].epoch
    BY <1>1, <1>4 DEF Finish, InPass, Limit
  <2>2. /\ j.ver = job[p].ver /\ j.epochs = job[p].epochs /\ j.eval = job[p].eval
        /\ j.w = job[p].w
    BY <1>1 DEF Job
  <2>3. Update(p, j) /\ Goto(p, "save")
    BY <1>4 DEF Finish
  <2> HIDE DEF j
  <2>4. code.eval # "own" => TaughtBy(j, "save")
    BY <1>1, <1>2, <2>1, <2>2 DEF TaughtBy
  <2> QED
    BY <1>1, <2>3, <2>4, TeachesOnly
<1> QED
  BY <1>3, <1>4

(* What is published was trained.                                            *)
LEMMA PublishTeaches == ASSUME TaughtInv, PassInv', NEW p \in Procs, Publish(p) PROVE TaughtInv'
<1> DEFINE c == [epoch |-> job[p].mark, w |-> job[p].w]
           j == [job[p] EXCEPT !.todo = StaleOf(ck')]
<1>1. /\ UNCHANGED <<code, data, metrics, out>> /\ pc[p] = "save" /\ job[p] \in Job
      /\ Update(p, j) /\ Goto(p, "prune") /\ ck' = [ck EXCEPT ![job[p].step] = c]
  BY DEF Publish, TaughtInv, PassInv, Counted
<1>2. code.eval # "own" => TaughtBy(job[p], "save")
  BY <1>1 DEF TaughtInv
<1>3. /\ j.ver = job[p].ver /\ j.epochs = job[p].epochs /\ j.eval = job[p].eval
      /\ j.w = job[p].w /\ c.w = job[p].w
  BY <1>1 DEF Job
<1> HIDE DEF j, c
<1>4. code.eval # "own" => TaughtBy(j, "prune") /\ c.w.ver # 0
  BY <1>2, <1>3 DEF TaughtBy
<1>5. code.eval # "own" => \A q \in Procs : TaughtBy(job[q], pc[q])'
  BY <1>1, <1>4, Teaches
<1>6. \A s \in Steps : ck'[s] = ck[s] \/ ck'[s] = c
  BY <1>1 DEF TaughtInv, PassInv, Counted
<1> QED
  BY <1>1, <1>4, <1>5, <1>6 DEF TaughtInv, Saved, SavedIn

LEMMA UnlinkTeaches == ASSUME TaughtInv, PassInv', NEW p \in Procs, Unlink(p) PROVE TaughtInv'
<1>1. PICK s \in job[p].todo : /\ ck' = [ck EXCEPT ![s] = NoCkpt]
                               /\ Update(p, [job[p] EXCEPT !.todo = @ \ {s}])
  BY DEF Unlink
<1> DEFINE j == [job[p] EXCEPT !.todo = @ \ {s}]
<1>2. UNCHANGED <<code, data, metrics, out, pc>> /\ pc[p] = "prune" /\ job[p] \in Job
  BY DEF Unlink, TaughtInv, PassInv, Counted
<1>3. /\ j.ver = job[p].ver /\ j.epochs = job[p].epochs /\ j.eval = job[p].eval
      /\ j.w = job[p].w
  BY <1>2 DEF Job
<1>4. Update(p, j) /\ Goto(p, "prune")
  BY <1>1, <1>2, Stays DEF TaughtInv, PassInv
<1> HIDE DEF j
<1>5. code.eval # "own" => TaughtBy(j, "prune")
  BY <1>2, <1>3 DEF TaughtInv, TaughtBy
<1>6. code.eval # "own" => \A q \in Procs : TaughtBy(job[q], pc[q])'
  BY <1>2, <1>4, <1>5, Teaches
<1>7. \A u \in Steps : ck'[u] = ck[u] \/ ck'[u].epoch = -1
  BY <1>1 DEF TaughtInv, PassInv, Counted, NoCkpt
<1> QED
  BY <1>2, <1>6, <1>7 DEF TaughtInv, Saved, SavedIn

(* What is scored was trained.                                               *)
LEMMA ScoresTeach ==
    ASSUME TaughtInv, PassInv', NEW p \in Procs,
           SaveBest(p) \/ BestSaved(p) \/ BestMetrics(p) \/ Saves(p)
    PROVE  TaughtInv'
<1>1. UNCHANGED <<code, ck, data, job>> /\ pc[p] \in {"best", "metrics", "prune"}
  BY DEF SaveBest, BestSaved, BestMetrics, Saves, directory
<1>2. code.eval # "own" => TaughtBy(job[p], pc[p]) /\ job[p].w.ver # 0
  BY <1>1 DEF TaughtInv, TaughtBy
<1>3. PICK l \in {"metrics", "train", "score", "done"} : Goto(p, l)
  <2>1. CASE BestSaved(p)
    BY <2>1, Stays DEF BestSaved, TaughtInv, PassInv
  <2> QED
    BY <2>1 DEF SaveBest, BestMetrics, Saves
<1>4. code.eval # "own" => TaughtBy(job[p], l)
  BY <1>1, <1>2 DEF TaughtBy
<1>5. code.eval # "own" => \A q \in Procs : TaughtBy(job[q], pc[q])'
  BY <1>1, <1>3, <1>4, Stays, Teaches DEF TaughtInv, PassInv
<1>6. \A m \in {metrics', out'} : m \in {metrics, out} \/ m.w = job[p].w
  BY DEF SaveBest, BestSaved, BestMetrics, Saves, directory
<1> QED
  BY <1>1, <1>2, <1>5, <1>6 DEF TaughtInv, Saved, SavedIn

LEMMA ScoreTeaches == ASSUME TaughtInv, PassInv', NEW p \in Procs, Score(p) PROVE TaughtInv'
<1>1. PICK j \in Job :
          /\ Update(p, j) /\ Goto(p, "done") /\ pc[p] = "score" /\ UNCHANGED <<code, data, ck>>
          /\ \/ UNCHANGED <<metrics, out>>
             \/ out' = Measured(p) /\ UNCHANGED metrics
             \/ metrics' = Measured(p) /\ UNCHANGED out
  BY ScoreMoves DEF TaughtInv, PassInv
<1>2. code.eval # "own" => job[p].w.ver # 0
  BY <1>1 DEF TaughtInv, TaughtBy
<1>3. TaughtBy(j, "done")
  BY DEF TaughtBy
<1>4. code.eval # "own" => \A q \in Procs : TaughtBy(job[q], pc[q])'
  BY <1>1, <1>3, Teaches
<1>5. \A m \in {metrics', out'} : m \in {metrics, out} \/ m.w = job[p].w
  BY <1>1 DEF Measured
<1> QED
  BY <1>1, <1>2, <1>4, <1>5 DEF TaughtInv, Saved, SavedIn

LEMMA EnvironmentTeaches ==
    ASSUME TaughtInv, PassInv'
    PROVE  /\ \A p \in Procs : Kill(p) => TaughtInv'
           /\ Restage => TaughtInv'
           /\ UNCHANGED vars => TaughtInv'
<1>1. ASSUME NEW p \in Procs, Kill(p) PROVE TaughtInv'
  <2>1. Update(p, NoJob) /\ Goto(p, "off") /\ UNCHANGED <<code, ck, data, metrics, out>>
    BY <1>1 DEF Kill, directory
  <2>2. TaughtBy(NoJob, "off")
    BY DEF TaughtBy
  <2> QED
    BY <2>1, <2>2, TeachesOnly
<1>2. CASE Restage
  <2>1. data' # 0
    BY <1>2 DEF Restage, TaughtInv, PassInv, Counted, Versions
  <2> QED
    BY <1>2, <2>1 DEF Restage, directory, TaughtInv, Saved, SavedIn, TaughtBy
<1>3. CASE UNCHANGED vars
  BY <1>3 DEF vars, directory, TaughtInv, Saved, SavedIn, TaughtBy
<1> QED
  BY <1>1, <1>2, <1>3

(* No score on record is of weights that saw no batch, in whatever state a    *)
(* read-only scoring finds the directory (eval_only.py:126), given a           *)
(* --nan-patience of at most the batches of a pass.                           *)
THEOREM ScoredIsTrained == ASSUME PatienceWithinPass PROVE Spec => []MeasuresTrained
<1>1. Init => TaughtInv
  <2> SUFFICES ASSUME Init PROVE TaughtInv
    OBVIOUS
  <2>1. PassInv
    BY TrainersAssumption, InitHolds
  <2>2. \A p \in Procs : TaughtBy(job[p], pc[p])
    BY DEF Init, TaughtBy
  <2>3. Saved = {}
    BY DEF Init, Saved, SavedIn, NoCkpt
  <2> QED
    BY <2>1, <2>2, <2>3 DEF Init, TaughtInv
<1>2. TaughtInv /\ [Next]_vars => TaughtInv'
  <2> SUFFICES ASSUME TaughtInv, [Next]_vars PROVE TaughtInv'
    OBVIOUS
  <2>1. PassInv'
    BY PassKeeps DEF TaughtInv
  <2>2. ASSUME NEW p \in Procs, Work(p) PROVE TaughtInv'
    BY <2>1, <2>2, PatienceWithinPass, LoadTeaches, SidecarTeaches, BatchTeaches, BadBatchTeaches,
       EndEpochTeaches, FinishTeaches, PublishTeaches, UnlinkTeaches, ScoresTeach, ScoreTeaches
    DEF Work
  <2> QED
    BY <2>1, <2>2, StartTeaches, EnvironmentTeaches DEF Next
<1>3. TaughtInv => MeasuresTrained
  BY DEF TaughtInv, MeasuresTrained
<1> QED
  BY <1>1, <1>2, <1>3, PTL DEF Spec
-----------------------------------------------------------------------------
(* What a trainer leaves when it returns.                                    *)

(* The loop of the one training there is: nothing in the directory is newer   *)
(* than it or has seen more passes, the last save records all of its epochs,  *)
(* what it has saved stays, and what is still to go is older.                *)
KeptBy(j, l) ==
    /\ j.epochs # 0
    /\ l = "load" => /\ j.step = 0 /\ j.epoch = 0 /\ j.batch = 0
                     /\ ~j.resume => Saved = {}
    /\ j.step = 0 => j.epoch = 0 /\ j.batch = 0
    /\ l # "load" => \A u \in Saved : u <= j.step /\ ck[u].w.passes <= j.w.passes
    /\ ~j.scored
    /\ l \in {"best", "metrics"} => code.scores = "best"
    /\ l \in {"save", "prune", "score"} => j.step # 0 /\ (~InPass(j) => j.mark = j.epochs)
    /\ l \in {"prune", "score"} => ck[j.step] = [epoch |-> j.mark, w |-> j.w]
    /\ l = "score" => ~InPass(j)
    /\ l = "prune" => \A s \in j.todo : s < j.step

KeptInv ==
    /\ PassInv /\ code \in Code
    /\ \A u, v \in Saved : u <= v => ck[u].w.passes <= ck[v].w.passes
    /\ \A p, q \in Procs : Training(p) /\ Training(q) => p = q
    /\ \A p \in Procs : job[p].eval =>
          pc[p] \notin {"save", "prune", "best", "metrics"} /\ code.eval # "none"
    /\ \A p \in Procs : Training(p) => KeptBy(job[p], pc[p])

(* A step of one process that leaves the checkpoints as they are.             *)
LEMMA KeepsOne ==
    ASSUME KeptInv, PassInv', NEW p \in Procs, NEW j, NEW l,
           Update(p, j), Goto(p, l), UNCHANGED <<code, ck>>,
           j.eval => l \notin {"save", "prune", "best", "metrics"} /\ code.eval # "none",
           l \notin {"off", "done", "failed"} /\ ~j.eval =>
               KeptBy(j, l) /\ \A q \in Procs \ {p} : ~Training(q)
    PROVE  KeptInv'
<1>1. \A q \in Procs : job'[q] = IF q = p THEN j ELSE job[q]
  BY DEF KeptInv, PassInv, Counted, Update
<1>2. \A q \in Procs : pc'[q] = IF q = p THEN l ELSE pc[q]
  BY DEF KeptInv, PassInv, Counted, Goto
<1>3. \A q \in Procs \ {p} : Training(q)' <=> Training(q)
  BY <1>1, <1>2 DEF Training, Idle
<1>4. Training(p)' <=> (l \notin {"off", "done", "failed"} /\ ~j.eval)
  BY <1>1, <1>2 DEF Training, Idle
<1>5. \A a, b \in Procs : (Training(a) /\ Training(b) => a = b)'
  BY <1>3, <1>4 DEF KeptInv
<1>6. \A q \in Procs :
        (job[q].eval => pc[q] \notin {"save", "prune", "best", "metrics"} /\ code.eval # "none")'
  BY <1>1, <1>2 DEF KeptInv
<1>7. ASSUME NEW q \in Procs, Training(q)' PROVE KeptBy(job[q], pc[q])'
  <2>1. CASE q = p
    BY <1>1, <1>2, <1>4, <1>7, <2>1 DEF KeptBy, Saved, SavedIn
  <2>2. CASE q # p
    BY <1>1, <1>2, <1>3, <1>7, <2>2 DEF KeptInv, KeptBy, Saved, SavedIn
  <2> QED
    BY <2>1, <2>2
<1>8. code' \in Code /\ \A u, v \in Saved' : u <= v => ck'[u].w.passes <= ck'[v].w.passes
  BY DEF KeptInv, Saved, SavedIn
<1> QED
  BY <1>5, <1>6, <1>7, <1>8 DEF KeptInv

(* One that is not between runs.                                             *)
LEMMA AtWork ==
    ASSUME KeptInv, NEW p \in Procs, ~Idle(p)
    PROVE  /\ job[p] \in Job
           /\ ~job[p].eval => KeptBy(job[p], pc[p]) /\ \A q \in Procs \ {p} : ~Training(q)
           /\ job[p].eval => code.eval # "none"
<1>1. job[p] \in Job
  BY DEF KeptInv, PassInv, Counted
<1>2. ~job[p].eval => Training(p)
  BY DEF Training
<1> QED
  BY <1>1, <1>2 DEF KeptInv

LEMMA StartKept ==
    ASSUME KeptInv, PassInv', Resumes, NEW p \in Procs, NEW e \in BOOLEAN, NEW r \in BOOLEAN,
           NEW n \in Epochs, Start(p, e, r, n)
    PROVE  KeptInv'
<1>1. PICK v : Update(p, [NoJob EXCEPT !.eval = e, !.resume = r, !.epochs = n, !.ver = v])
  BY DEF Start
<1>2. PICK l \in {"failed", "load"} : Goto(p, l)
  BY DEF Start
<1> DEFINE j == [NoJob EXCEPT !.eval = e, !.resume = r, !.epochs = n, !.ver = v]
<1>3. /\ Update(p, j) /\ UNCHANGED <<code, ck>> /\ (~e => \A q \in Procs : ~Training(q)) /\ Idle(p)
      /\ e => code.eval # "none"
  BY <1>1 DEF Start, directory
<1>4. /\ j.epochs = n /\ n # 0 /\ j.eval = e /\ j.resume = r
      /\ j.step = 0 /\ j.epoch = 0 /\ j.batch = 0 /\ ~j.scored
  BY TrainersAssumption DEF NoJob, TrainersAssumption
<1> HIDE DEF j
<1>5. l = "load" /\ ~e => (~r => Saved = {})
  <2>1. job'[p] = j /\ pc'[p] = l
    BY <1>2, <1>3 DEF KeptInv, PassInv, Counted, Update, Goto
  <2> QED
    BY <1>3, <1>4, <2>1 DEF Resumes
<1>6. l = "load" /\ ~e => KeptBy(j, l)
  BY <1>4, <1>5 DEF KeptBy
<1> QED
  BY <1>2, <1>3, <1>4, <1>6, KeepsOne

(* A training that resumes goes on from the newest, one that does not has     *)
(* none to go on from.                                                       *)
LEMMA LoadKept == ASSUME KeptInv, PassInv', NEW p \in Procs, Load(p) PROVE KeptInv'
<1>1. UNCHANGED <<code, ck>> /\ pc[p] = "load" /\ ~Idle(p)
  BY DEF Load, directory, Idle
<1>2. /\ job[p] \in Job
      /\ ~job[p].eval => KeptBy(job[p], "load") /\ \A q \in Procs \ {p} : ~Training(q)
      /\ job[p].eval => code.eval # "none"
  BY <1>1, AtWork
<1>3. ASSUME Goto(p, "failed"), UNCHANGED job PROVE KeptInv'
  BY <1>1, <1>2, <1>3, Stays, KeepsOne DEF KeptInv, PassInv
<1>4. ASSUME NEW s \in Steps, Latest(s), Loads(p, s) PROVE KeptInv'
  <2> DEFINE j == [job[p] EXCEPT !.w = ck[s].w, !.step = s, !.epoch = ck[s].epoch]
  <2>1. CASE Update(p, j) /\ Goto(p, "side")
    <3>1. /\ j.step = s /\ j.eval = job[p].eval /\ j.epochs = job[p].epochs /\ s # 0
          /\ j.w = ck[s].w /\ j.scored = job[p].scored
      BY <1>2 DEF Job, Steps
    <3> HIDE DEF j
    <3>2. \A u \in Saved : u <= s /\ ck[u].w.passes <= ck[s].w.passes
      BY <1>4 DEF Latest, KeptInv
    <3>3. ~j.eval => KeptBy(j, "side")
      BY <1>2, <3>1, <3>2 DEF KeptBy
    <3> QED
      BY <1>1, <1>2, <2>1, <3>1, <3>3, KeepsOne
  <2> QED
    BY <1>3, <1>4, <2>1 DEF Loads
<1>5. ASSUME Goto(p, "side"), UNCHANGED job,
             job[p].eval \/ Saved = {} \/ ~job[p].resume
      PROVE  KeptInv'
  <2>1. ~job[p].eval => KeptBy(job[p], "side")
    BY <1>2, <1>5 DEF KeptBy
  <2> QED
    BY <1>1, <1>2, <1>5, <2>1, Stays, KeepsOne DEF KeptInv, PassInv
<1> QED
  BY <1>3, <1>4, <1>5 DEF Load

(* The places where nothing but the place changes.                            *)
LEMMA MovesKept ==
    ASSUME KeptInv, PassInv', NEW p \in Procs, NEW l, Goto(p, l), UNCHANGED <<code, ck, job>>, ~Idle(p),
           job[p].eval => l \notin {"save", "prune", "best", "metrics"},
           l \notin {"off", "done", "failed"} /\ KeptBy(job[p], pc[p]) => KeptBy(job[p], l)
    PROVE  KeptInv'
BY AtWork, Stays, KeepsOne DEF KeptInv, PassInv

LEMMA SidecarKept ==
    ASSUME KeptInv, PassInv', NEW p \in Procs, Sidecar(p) \/ SidecarWritten(p)
    PROVE  KeptInv'
<1>1. PICK l \in {"written", "train"} : Goto(p, l)
  BY DEF Sidecar, SidecarWritten
<1>2. UNCHANGED <<code, ck, job>> /\ pc[p] \in {"side", "written"} /\ ~Idle(p)
  BY DEF Sidecar, SidecarWritten, Idle
<1>3. KeptBy(job[p], pc[p]) => KeptBy(job[p], l)
  BY <1>2 DEF KeptBy
<1> QED
  BY <1>1, <1>2, <1>3, MovesKept

LEMMA BatchKept == ASSUME KeptInv, PassInv', NEW p \in Procs, Batch(p) PROVE KeptInv'
<1> DEFINE on == [job[p] EXCEPT !.w = Trained(job[p]), !.batch = @ + 1, !.step = @ + 1, !.streak = 0]
           sv == [on EXCEPT !.mark = job[p].epoch]
<1>1. /\ UNCHANGED <<code, ck>> /\ pc[p] = "train" /\ ~Idle(p) /\ ~job[p].eval /\ InPass(job[p])
      /\ job[p].step \in 0..MaxStep /\ job[p].batch \in 0..Batches /\ MaxStep \in Nat
  BY PartsOfJob, TrainersAssumption DEF Batch, directory, Idle, InPass, Limit, KeptInv, PassInv
<1>2. /\ job[p] \in Job /\ KeptBy(job[p], "train")
      /\ \A q \in Procs \ {p} : ~Training(q)
  BY <1>1, AtWork
<1>3. /\ on.eval = job[p].eval /\ on.epochs = job[p].epochs /\ on.epoch = job[p].epoch
      /\ on.step = job[p].step + 1
      /\ sv.eval = job[p].eval /\ sv.epochs = job[p].epochs /\ sv.epoch = job[p].epoch
      /\ sv.step = job[p].step + 1
      /\ on.w.passes = job[p].w.passes /\ sv.w.passes = job[p].w.passes
      /\ on.scored = job[p].scored /\ sv.scored = job[p].scored
  BY <1>2 DEF Job, Weights, Trained
<1>4. \/ Update(p, sv) /\ Goto(p, "save")
      \/ Update(p, on) /\ UNCHANGED pc
  BY DEF Batch
<1> HIDE DEF on, sv
<1>5. InPass(on) /\ InPass(sv)
  BY <1>1, <1>3 DEF InPass, Limit
<1>6. \A u \in Saved : u <= job[p].step + 1 /\ ck[u].w.passes <= job[p].w.passes
  <2>1. \A u \in Saved : u \in Nat /\ u <= job[p].step /\ ck[u].w.passes <= job[p].w.passes
    BY <1>2 DEF KeptBy, Saved, SavedIn, Steps
  <2> QED
    BY <1>1, <2>1
<1>7. KeptBy(on, "train") /\ KeptBy(sv, "save")
  BY <1>1, <1>2, <1>3, <1>5, <1>6 DEF KeptBy
<1>8. CASE Update(p, sv) /\ Goto(p, "save")
  BY <1>1, <1>2, <1>3, <1>7, <1>8, KeepsOne
<1>9. CASE Update(p, on) /\ UNCHANGED pc
  BY <1>1, <1>2, <1>3, <1>7, <1>9, Stays, KeepsOne DEF KeptInv, PassInv
<1> QED
  BY <1>4, <1>8, <1>9

LEMMA BadBatchKept == ASSUME KeptInv, PassInv', NEW p \in Procs, BadBatch(p) PROVE KeptInv'
<1> DEFINE on == [job[p] EXCEPT !.batch = @ + 1, !.step = @ + 1, !.streak = @ + 1]
<1>1. /\ UNCHANGED <<code, ck>> /\ pc[p] = "train" /\ ~Idle(p) /\ ~job[p].eval
      /\ job[p].step \in 0..MaxStep /\ MaxStep \in Nat
  BY PartsOfJob, TrainersAssumption DEF BadBatch, directory, Idle, InPass, Limit, KeptInv, PassInv
<1>2. /\ job[p] \in Job /\ KeptBy(job[p], "train")
      /\ \A q \in Procs \ {p} : ~Training(q)
  BY <1>1, AtWork
<1>3. CASE Goto(p, "failed") /\ UNCHANGED job
  BY <1>1, <1>3, MovesKept
<1>4. CASE Update(p, on) /\ UNCHANGED pc
  <2>1. /\ on.eval = job[p].eval /\ on.epochs = job[p].epochs /\ on.epoch = job[p].epoch
        /\ on.step = job[p].step + 1 /\ on.w = job[p].w /\ on.scored = job[p].scored
    BY <1>2 DEF Job
  <2> HIDE DEF on
  <2>2. \A u \in Saved : u \in Nat /\ u <= job[p].step /\ ck[u].w.passes <= job[p].w.passes
    BY <1>2 DEF KeptBy, Saved, SavedIn, Steps
  <2>3. KeptBy(on, "train")
    BY <1>1, <1>2, <2>1, <2>2 DEF KeptBy
  <2> QED
    BY <1>1, <1>2, <1>4, <2>1, <2>3, Stays, KeepsOne DEF KeptInv, PassInv
<1> QED
  BY <1>3, <1>4 DEF BadBatch

LEMMA EndEpochKept == ASSUME KeptInv, PassInv', NEW p \in Procs, EndEpoch(p) PROVE KeptInv'
<1> DEFINE on == [job[p] EXCEPT !.epoch = job[p].epoch + 1, !.batch = 0, !.w.passes = @ + 1]
<1>1. /\ UNCHANGED <<code, ck>> /\ pc[p] = "train" /\ ~Idle(p) /\ ~job[p].eval
      /\ job[p].batch \in 0..Batches /\ ~(job[p].batch < Batches) /\ Batches \in Nat \ {0}
  <2>1. UNCHANGED <<code, ck>> /\ pc[p] = "train" /\ ~Idle(p)
    BY DEF EndEpoch, directory, Idle
  <2>2. job[p].batch \in 0..Batches /\ job[p].epoch \in Nat /\ Batches \in Nat \ {0}
    BY PartsOfJob, TrainersAssumption DEF KeptInv, PassInv, TrainersAssumption
  <2>3. InPass(job[p]) /\ ~(job[p].batch < Batches)
    BY DEF EndEpoch, Left
  <2>4. ~job[p].eval
    BY <2>2, <2>3 DEF InPass, Limit
  <2> QED
    BY <2>1, <2>2, <2>3, <2>4
<1>2. /\ job[p] \in Job /\ KeptBy(job[p], "train")
      /\ \A q \in Procs \ {p} : ~Training(q)
  BY <1>1, AtWork
<1>3. \/ Update(p, on) /\ UNCHANGED pc
      \/ code.scores = "best" /\ \E v \in Scores : Update(p, [on EXCEPT !.best = v]) /\ Goto(p, "best")
  BY DEF EndEpoch
<1>4. job[p].step # 0
  BY <1>1, <1>2 DEF KeptBy
<1>7. \A u \in Saved : u <= job[p].step /\ ck[u].w.passes <= job[p].w.passes + 1
  <2>1. \A u \in Saved : ck[u].w.passes \in Nat
    BY DEF Saved, SavedIn, KeptInv, PassInv, Counted, Ckpt, Weights
  <2>2. job[p].w.passes \in Nat
    BY <1>2 DEF Job, Weights
  <2> QED
    BY <1>2, <2>1, <2>2 DEF KeptBy
<1>5. CASE Update(p, on) /\ UNCHANGED pc
  <2>1. /\ on.eval = job[p].eval /\ on.epochs = job[p].epochs /\ on.step = job[p].step
        /\ on.w.passes = job[p].w.passes + 1 /\ on.scored = job[p].scored
    BY <1>2 DEF Job, Weights
  <2> HIDE DEF on
  <2>2. KeptBy(on, "train")
    BY <1>2, <1>4, <1>7, <2>1 DEF KeptBy
  <2> QED
    BY <1>1, <1>2, <1>5, <2>1, <2>2, Stays, KeepsOne DEF KeptInv, PassInv
<1>6. ASSUME code.scores = "best", NEW v \in Scores, Update(p, [on EXCEPT !.best = v]), Goto(p, "best")
      PROVE  KeptInv'
  <2> DEFINE j == [on EXCEPT !.best = v]
  <2>1. /\ j.eval = job[p].eval /\ j.epochs = job[p].epochs /\ j.step = job[p].step
        /\ j.w.passes = job[p].w.passes + 1 /\ j.scored = job[p].scored
    BY <1>2 DEF Job, Weights
  <2>2. Update(p, j)
    BY <1>6
  <2> HIDE DEF j
  <2>3. KeptBy(j, "best")
    BY <1>2, <1>4, <1>6, <1>7, <2>1 DEF KeptBy
  <2> QED
    BY <1>1, <1>2, <1>6, <2>1, <2>2, <2>3, KeepsOne
<1> HIDE DEF on
<1> QED
  BY <1>3, <1>5, <1>6

LEMMA FinishKept == ASSUME KeptInv, PassInv', NEW p \in Procs, Finish(p) PROVE KeptInv'
<1> DEFINE j == [job[p] EXCEPT !.mark = job[p].epochs]
<1>1. UNCHANGED <<code, ck>> /\ pc[p] = "train" /\ ~Idle(p) /\ job[p].epoch \in Nat /\ job[p].epochs \in Nat
  BY PartsOfJob, TrainersAssumption DEF Finish, directory, Idle, KeptInv, PassInv
<1>2. /\ job[p] \in Job
      /\ ~job[p].eval => KeptBy(job[p], "train") /\ \A q \in Procs \ {p} : ~Training(q)
      /\ job[p].eval => code.eval # "none"
  BY <1>1, AtWork
<1>3. CASE job[p].eval
  <2>1. Goto(p, "score") /\ UNCHANGED job
    BY <1>3 DEF Finish
  <2> QED
    BY <1>1, <1>2, <1>3, <2>1, Stays, KeepsOne DEF KeptInv, PassInv
<1>4. CASE ~job[p].eval
  <2>1. /\ j.eval = job[p].eval /\ j.epochs = job[p].epochs /\ j.step = job[p].step
        /\ j.epoch = job[p].epoch /\ j.batch = job[p].batch /\ j.mark = job[p].epochs
        /\ j.w = job[p].w /\ j.scored = job[p].scored
    BY <1>2 DEF Job
  <2>2. Update(p, j) /\ Goto(p, "save")
    BY <1>4 DEF Finish
  <2> HIDE DEF j
  <2>3. job[p].epochs <= job[p].epoch
    BY <1>1, <1>4 DEF Finish, InPass, Limit
  <2>4. KeptBy(j, "save")
    BY <1>1, <1>2, <1>4, <2>1, <2>3 DEF KeptBy
  <2> QED
    BY <1>1, <1>2, <1>4, <2>1, <2>2, <2>4, KeepsOne
<1> QED
  BY <1>3, <1>4

(* Of files none of which is newer than step the newest is not stale.         *)
LEMMA StaleAreOlder ==
    ASSUME NEW f, NEW step \in Nat, \A u \in SavedIn(f) : u <= step
    PROVE  \A s \in StaleOf(f) : s < step
<1> SUFFICES ASSUME NEW s \in StaleOf(f) PROVE s < step
  OBVIOUS
<1>1. /\ s \in SavedIn(f) /\ s \in Nat /\ KeepLast \in Nat \ {0}
      /\ Cardinality({u \in SavedIn(f) : u > s}) >= KeepLast
  BY TrainersAssumption DEF StaleOf, SavedIn, Steps, TrainersAssumption
<1>2. ASSUME s = step PROVE FALSE
  <2>1. {u \in SavedIn(f) : u > s} = {}
    BY <1>1, <1>2 DEF SavedIn, Steps
  <2>2. Cardinality({u \in SavedIn(f) : u > s}) = 0
    BY <2>1, FS_EmptySet
  <2> QED
    BY <1>1, <2>2
<1> QED
  BY <1>1, <1>2

LEMMA OnlyThis ==
    ASSUME KeptInv, PassInv', NEW p \in Procs, NEW j, NEW l, Update(p, j), Goto(p, l),
           Training(p), ~j.eval, KeptBy(j, l)', UNCHANGED code,
           \A u, v \in Saved' : u <= v => ck'[u].w.passes <= ck'[v].w.passes
    PROVE  KeptInv'
<1>1. \A q \in Procs : job'[q] = IF q = p THEN j ELSE job[q]
  BY DEF KeptInv, PassInv, Counted, Update
<1>2. \A q \in Procs : pc'[q] = IF q = p THEN l ELSE pc[q]
  BY DEF KeptInv, PassInv, Counted, Goto
<1>3. \A q \in Procs \ {p} : ~Training(q) /\ ~Training(q)'
  BY <1>1, <1>2 DEF KeptInv, Training, Idle
<1>4. \A a, b \in Procs : (Training(a) /\ Training(b) => a = b)'
  BY <1>3
<1>5. \A q \in Procs :
        (job[q].eval => pc[q] \notin {"save", "prune", "best", "metrics"} /\ code.eval # "none")'
  BY <1>1, <1>2 DEF KeptInv
<1>6. KeptBy(job[p], pc[p])'
  BY <1>1, <1>2 DEF KeptBy
<1> QED
  BY <1>3, <1>4, <1>5, <1>6 DEF KeptInv

LEMMA PublishKept == ASSUME KeptInv, PassInv', NEW p \in Procs, Publish(p) PROVE KeptInv'
<1> DEFINE c == [epoch |-> job[p].mark, w |-> job[p].w]
<1>1. PICK todo : todo = StaleOf(ck') /\ Update(p, [job[p] EXCEPT !.todo = todo])
  BY DEF Publish
<1>2. PICK j : j = [job[p] EXCEPT !.todo = todo]
  OBVIOUS
<1>3. /\ Update(p, j) /\ Goto(p, "prune") /\ ck' = [ck EXCEPT ![job[p].step] = c]
      /\ pc[p] = "save" /\ ~Idle(p) /\ ~job[p].eval /\ ck \in [Steps -> Ckpt] /\ UNCHANGED code
  BY <1>1, <1>2 DEF Publish, Idle, KeptInv, PassInv, Counted
<1>4. job[p] \in Job /\ KeptBy(job[p], "save") /\ Training(p)
  BY <1>3, AtWork DEF Training
<1>5. /\ j.eval = job[p].eval /\ j.epochs = job[p].epochs /\ j.step = job[p].step
      /\ j.epoch = job[p].epoch /\ j.batch = job[p].batch /\ j.mark = job[p].mark
      /\ j.w = job[p].w /\ j.todo = todo /\ j.scored = job[p].scored
  BY <1>2, <1>4 DEF Job
<1>6. job[p].step \in Steps /\ job[p].step \in Nat
  <2>1. job[p].step \in 0..MaxStep /\ MaxStep \in Nat /\ job[p].step # 0
    BY <1>4, PartsOfJob, TrainersAssumption DEF KeptBy, KeptInv, PassInv
  <2> QED
    BY <2>1 DEF Steps
<1>7. ck'[job[p].step] = c /\ \A u \in Steps \ {job[p].step} : ck'[u] = ck[u]
  BY <1>3, <1>6
<1>12. c.w = job[p].w /\ job[p].w.passes \in Nat
  BY <1>4 DEF Job, Weights
<1> HIDE DEF c
<1>8. \A u \in SavedIn(ck') : u <= job[p].step /\ ck'[u].w.passes <= job[p].w.passes
  BY <1>4, <1>6, <1>7, <1>12 DEF KeptBy, Saved, SavedIn
<1>9. \A s \in todo : s < job[p].step
  BY <1>1, <1>6, <1>8, StaleAreOlder
<1>10. InPass(j) <=> InPass(job[p])
  BY <1>5 DEF InPass, Limit
<1>11. KeptBy(j, "prune")'
  BY <1>3, <1>4, <1>5, <1>7, <1>8, <1>9, <1>10 DEF KeptBy, Saved, InPass, Limit, c
<1>13. ASSUME NEW u \in Saved', NEW v \in Saved', u <= v PROVE ck'[u].w.passes <= ck'[v].w.passes
  <2>1. u \in Steps /\ v \in Steps /\ u \in Nat /\ v \in Nat
    BY DEF Saved, SavedIn, Steps
  <2>2. CASE v = job[p].step
    BY <1>7, <1>8, <1>12, <2>2 DEF Saved
  <2>3. CASE v # job[p].step
    <3>1. v < job[p].step /\ u # job[p].step
      BY <1>6, <1>8, <1>13, <2>1, <2>3 DEF Saved
    <3>2. ck'[u] = ck[u] /\ ck'[v] = ck[v]
      BY <1>7, <2>1, <2>3, <3>1
    <3>3. u \in Saved /\ v \in Saved
      BY <2>1, <3>2 DEF Saved, SavedIn
    <3> QED
      BY <1>13, <3>2, <3>3 DEF KeptInv
  <2> QED
    BY <2>2, <2>3
<1> QED
  BY <1>3, <1>4, <1>5, <1>11, <1>13, OnlyThis

LEMMA UnlinkKept == ASSUME KeptInv, PassInv', NEW p \in Procs, Unlink(p) PROVE KeptInv'
<1>1. PICK s \in job[p].todo : /\ ck' = [ck EXCEPT ![s] = NoCkpt]
                               /\ Update(p, [job[p] EXCEPT !.todo = @ \ {s}])
  BY DEF Unlink
<1>2. PICK j : j = [job[p] EXCEPT !.todo = @ \ {s}]
  OBVIOUS
<1>3. /\ Update(p, j) /\ Goto(p, "prune") /\ pc[p] = "prune" /\ ~Idle(p) /\ ~job[p].eval
      /\ ck \in [Steps -> Ckpt] /\ UNCHANGED code
  BY <1>1, <1>2, Stays DEF Unlink, Idle, KeptInv, PassInv, Counted
<1>4. job[p] \in Job /\ KeptBy(job[p], "prune") /\ Training(p)
  BY <1>3, AtWork DEF Training
<1>5. /\ j.eval = job[p].eval /\ j.epochs = job[p].epochs /\ j.step = job[p].step
      /\ j.epoch = job[p].epoch /\ j.batch = job[p].batch /\ j.mark = job[p].mark
      /\ j.w = job[p].w /\ j.todo = job[p].todo \ {s} /\ j.scored = job[p].scored
  BY <1>2, <1>4 DEF Job
<1>6. s < job[p].step /\ s \in Steps /\ job[p].step \in Steps
  <2>1. job[p].step \in 0..MaxStep /\ MaxStep \in Nat /\ job[p].step # 0
    BY <1>4, PartsOfJob, TrainersAssumption DEF KeptBy, KeptInv, PassInv
  <2> QED
    BY <1>4, <2>1 DEF Steps, KeptBy, Job
<1>7. ck'[job[p].step] = ck[job[p].step] /\ \A u \in Steps : ck'[u] = ck[u] \/ ck'[u].epoch = -1
  BY <1>1, <1>3, <1>6 DEF NoCkpt, Steps
<1>11. \A u \in SavedIn(ck') : u \in Saved /\ ck'[u] = ck[u]
  BY <1>7 DEF Saved, SavedIn
<1>8. \A u \in SavedIn(ck') : u <= job[p].step /\ ck'[u].w.passes <= job[p].w.passes
  BY <1>4, <1>11 DEF KeptBy
<1>9. InPass(j) <=> InPass(job[p])
  BY <1>5 DEF InPass, Limit
<1>10. KeptBy(j, "prune")'
  BY <1>3, <1>4, <1>5, <1>7, <1>8, <1>9 DEF KeptBy, Saved, InPass, Limit
<1>12. \A u, v \in Saved' : u <= v => ck'[u].w.passes <= ck'[v].w.passes
  BY <1>11 DEF Saved, KeptInv
<1> QED
  BY <1>3, <1>4, <1>5, <1>10, <1>12, OnlyThis

LEMMA ScoresKept ==
    ASSUME KeptInv, PassInv', NEW p \in Procs,
           SaveBest(p) \/ BestSaved(p) \/ BestMetrics(p) \/ Saves(p)
    PROVE  KeptInv'
<1>1. UNCHANGED <<code, ck, job>> /\ ~Idle(p)
  BY DEF SaveBest, BestSaved, BestMetrics, Saves, directory, Idle
<1>2. CASE SaveBest(p) \/ BestSaved(p) \/ BestMetrics(p)
  <2>1. pc[p] \in {"best", "metrics"} /\ ~job[p].eval
    BY <1>2 DEF SaveBest, BestSaved, BestMetrics, KeptInv
  <2>2. PICK l \in {"metrics", "train"} : Goto(p, l)
    BY <1>2, Stays DEF SaveBest, BestSaved, BestMetrics, KeptInv, PassInv
  <2>3. KeptBy(job[p], pc[p]) => KeptBy(job[p], l)
    BY <2>1 DEF KeptBy
  <2> QED
    BY <1>1, <2>1, <2>2, <2>3, MovesKept
<1>3. CASE Saves(p)
  <2>1. /\ pc[p] = "prune"
        /\ Goto(p, IF InPass(job[p]) THEN "train" ELSE IF code.scores = "end" THEN "score" ELSE "done")
    BY <1>3 DEF Saves
  <2>2. CASE InPass(job[p])
    <3>1. Goto(p, "train") /\ (KeptBy(job[p], pc[p]) => KeptBy(job[p], "train"))
      BY <2>1, <2>2 DEF KeptBy
    <3> QED
      BY <1>1, <3>1, MovesKept
  <2>3. CASE ~InPass(job[p])
    <3>1. KeptBy(job[p], pc[p]) => KeptBy(job[p], "score")
      BY <2>1, <2>3 DEF KeptBy
    <3>2. Goto(p, "score") \/ Goto(p, "done")
      BY <2>1, <2>3
    <3> QED
      BY <1>1, <3>1, <3>2, MovesKept
  <2> QED
    BY <2>2, <2>3
<1> QED
  BY <1>2, <1>3

LEMMA ScoreKept == ASSUME KeptInv, PassInv', NEW p \in Procs, Score(p) PROVE KeptInv'
<1>1. PICK j \in Job :
          /\ Update(p, j) /\ Goto(p, "done") /\ pc[p] = "score" /\ UNCHANGED <<code, ck>>
          /\ \A f \in DOMAIN job[p] \ {"scored"} : j[f] = job[p][f]
  BY ScoreMoves DEF KeptInv, PassInv
<1>2. job[p] \in Job /\ (job[p].eval => code.eval # "none")
  BY <1>1, AtWork DEF Idle
<1>3. j.eval = job[p].eval
  BY <1>1, <1>2 DEF Job
<1> QED
  BY <1>1, <1>2, <1>3, KeepsOne

LEMMA EnvironmentKept ==
    ASSUME KeptInv, PassInv'
    PROVE  /\ \A p \in Procs : Kill(p) => KeptInv'
           /\ Restage => KeptInv'
           /\ UNCHANGED vars => KeptInv'
<1>1. ASSUME NEW p \in Procs, Kill(p) PROVE KeptInv'
  <2>1. Update(p, NoJob) /\ Goto(p, "off") /\ UNCHANGED <<code, ck>> /\ ~NoJob.eval
    BY <1>1 DEF Kill, directory, NoJob
  <2> QED
    BY <2>1, KeepsOne
<1>2. ASSUME UNCHANGED <<code, ck, pc, job>> PROVE KeptInv'
  BY <1>2 DEF KeptInv, Training, Idle, KeptBy, Saved, SavedIn
<1> QED
  BY <1>1, <1>2 DEF Restage, vars, directory

LEMMA KeptKeeps == ASSUME KeptInv, [Next /\ Resumes]_vars PROVE KeptInv'
<1>1. PassInv'
  BY PassKeeps DEF KeptInv
<1>2. ASSUME NEW p \in Procs, Work(p) PROVE KeptInv'
  BY <1>1, <1>2, LoadKept, SidecarKept, BatchKept, BadBatchKept, EndEpochKept, FinishKept,
     PublishKept, UnlinkKept, ScoresKept, ScoreKept DEF Work
<1> QED
  BY <1>1, <1>2, StartKept, EnvironmentKept DEF Next

(* What a process that returned is owed: the newest checkpoint is as far, a   *)
(* training at its step has its weights and no batch of its own, and as long  *)
(* as its checkpoint is the newest, that and what it scored are its.          *)
Succeeded(p) == \E s \in Steps : Latest(s) /\ s >= job[p].step /\ ck[s].w.passes >= job[p].w.passes

Held(p) ==
    /\ job[p].w.passes >= job[p].epochs
    /\ Succeeded(p)
    /\ \A q \in Procs : Training(q) /\ pc[q] # "load" /\ job[q].step = job[p].step =>
          job[q].w = job[p].w /\ job[q].batch = 0
    /\ Latest(job[p].step) =>
          /\ ck[job[p].step].w = job[p].w
          /\ code.eval # "own" /\ code.scores = "end" /\ job[p].scored =>
                metrics.w = job[p].w /\ metrics.step = job[p].step

HeldInv == KeptInv /\ \A p \in Procs : Returned(p) => Held(p)

(* A step of one process that leaves the checkpoints and the metrics.         *)
LEMMA HoldsOne ==
    ASSUME HeldInv, KeptInv', NEW q \in Procs, NEW j, NEW l, Update(q, j), Goto(q, l),
           UNCHANGED <<code, ck, metrics>>, l = "done" => j.eval,
           l \notin {"off", "load", "done", "failed"} /\ ~j.eval =>
               \A p \in Procs \ {q} : Returned(p) /\ Held(p) /\ j.step = job[p].step =>
                   j.w = job[p].w /\ j.batch = 0
    PROVE  HeldInv'
<1>1. \A p \in Procs : job'[p] = IF p = q THEN j ELSE job[p]
  BY DEF HeldInv, KeptInv, PassInv, Counted, Update
<1>2. \A p \in Procs : pc'[p] = IF p = q THEN l ELSE pc[p]
  BY DEF HeldInv, KeptInv, PassInv, Counted, Goto
<1>3. \A s : Latest(s)' <=> Latest(s)
  BY DEF Latest, Saved, SavedIn
<1> SUFFICES ASSUME NEW p \in Procs, Returned(p)' PROVE Held(p)'
  BY DEF HeldInv
<1>4. p # q /\ Returned(p) /\ job'[p] = job[p] /\ Held(p)
  BY <1>1, <1>2 DEF Returned, HeldInv
<1>5. Succeeded(p)'
  BY <1>3, <1>4 DEF Held, Succeeded
<1>6. ASSUME NEW r \in Procs, Training(r)', pc'[r] # "load", job'[r].step = job[p].step
      PROVE  job'[r].w = job[p].w /\ job'[r].batch = 0
  <2>1. CASE r = q
    BY <1>1, <1>2, <1>4, <1>6, <2>1 DEF Training, Idle
  <2>2. CASE r # q
    BY <1>1, <1>2, <1>4, <1>6, <2>2 DEF Training, Idle, Held
  <2> QED
    BY <2>1, <2>2
<1>7. Latest(job[p].step)' =>
        /\ ck'[job[p].step].w = job[p].w
        /\ code'.eval # "own" /\ code'.scores = "end" /\ job[p].scored =>
              metrics'.w = job[p].w /\ metrics'.step = job[p].step
  BY <1>3, <1>4 DEF Held
<1> QED
  BY <1>4, <1>5, <1>6, <1>7 DEF Held

(* The newest checkpoint is one.                                             *)
LEMMA OneLatest == ASSUME NEW s, NEW u, Latest(s), Latest(u) PROVE s = u
<1>1. s \in Saved /\ u \in Saved /\ s \in Nat /\ u \in Nat
  BY DEF Latest, Saved, SavedIn, Steps
<1>2. s <= u /\ u <= s
  BY <1>1 DEF Latest
<1> QED
  BY <1>1, <1>2

LEMMA StartHolds ==
    ASSUME HeldInv, KeptInv', NEW p \in Procs, NEW e \in BOOLEAN, NEW r \in BOOLEAN,
           NEW n \in Epochs, Start(p, e, r, n)
    PROVE  HeldInv'
<1>1. PICK j : Update(p, j)
  BY DEF Start
<1>2. PICK l \in {"failed", "load"} : Goto(p, l)
  BY DEF Start
<1>3. UNCHANGED <<code, ck, metrics>>
  BY DEF Start, directory
<1> QED
  BY <1>1, <1>2, <1>3, HoldsOne

(* What is loaded is the newest.                                             *)
LEMMA LoadHolds == ASSUME HeldInv, KeptInv', NEW p \in Procs, Load(p) PROVE HeldInv'
<1>1. UNCHANGED <<code, ck, metrics>> /\ pc[p] = "load" /\ job[p] \in Job /\ ~Idle(p)
  BY DEF Load, directory, HeldInv, KeptInv, PassInv, Counted, Idle
<1>2. ASSUME Goto(p, "failed"), UNCHANGED job PROVE HeldInv'
  BY <1>1, <1>2, Stays, HoldsOne DEF HeldInv, KeptInv, PassInv
<1>3. ASSUME NEW s \in Steps, Latest(s), Loads(p, s) PROVE HeldInv'
  <2> DEFINE j == [job[p] EXCEPT !.w = ck[s].w, !.step = s, !.epoch = ck[s].epoch]
  <2>1. CASE Update(p, j) /\ Goto(p, "side")
    <3>1. j.step = s /\ j.w = ck[s].w /\ j.batch = job[p].batch /\ j.eval = job[p].eval
      BY <1>1 DEF Job
    <3>2. ~j.eval => j.batch = 0
      BY <1>1, <3>1, AtWork DEF HeldInv, KeptBy
    <3> HIDE DEF j
    <3>3. \A q \in Procs : Held(q) /\ j.step = job[q].step => j.w = job[q].w
      BY <1>3, <3>1 DEF Held
    <3> QED
      BY <1>1, <2>1, <3>2, <3>3, HoldsOne
  <2> QED
    BY <1>2, <1>3, <2>1 DEF Loads
<1>4. ASSUME Goto(p, "side"), UNCHANGED job, job[p].eval \/ Saved = {} \/ ~job[p].resume
      PROVE  HeldInv'
  <2>1. ~job[p].eval => Saved = {}
    BY <1>1, <1>4, AtWork DEF HeldInv, KeptBy
  <2>2. Saved = {} => \A q \in Procs : ~Held(q)
    BY DEF Held, Succeeded, Latest
  <2> QED
    BY <1>1, <1>4, <2>1, <2>2, Stays, HoldsOne DEF HeldInv, KeptInv, PassInv
<1> QED
  BY <1>2, <1>3, <1>4 DEF Load

(* Where the step, the weights and the place in the pass are as they were.    *)
LEMMA SameHolds ==
    ASSUME HeldInv, KeptInv', NEW p \in Procs, NEW j, NEW l, Update(p, j), Goto(p, l),
           UNCHANGED <<code, ck, metrics>>, ~Idle(p), pc[p] # "load", l = "done" => j.eval,
           j.eval = job[p].eval, j.step = job[p].step, j.w = job[p].w, j.batch = job[p].batch
    PROVE  HeldInv'
<1>1. ~j.eval => Training(p)
  BY DEF Training
<1>2. ~j.eval => \A q \in Procs : Held(q) /\ j.step = job[q].step => j.w = job[q].w /\ j.batch = 0
  BY <1>1 DEF Held
<1> QED
  BY <1>2, HoldsOne

LEMMA MovesHold ==
    ASSUME HeldInv, KeptInv', NEW p \in Procs, NEW l, Goto(p, l), l = "done" => job[p].eval,
           UNCHANGED <<code, ck, metrics, job>>, ~Idle(p), pc[p] # "load"
    PROVE  HeldInv'
BY Stays, SameHolds DEF HeldInv, KeptInv, PassInv

(* A batch goes beyond every step that was returned with.                     *)
LEMMA BatchHolds ==
    ASSUME HeldInv, KeptInv', NEW p \in Procs, Batch(p) \/ BadBatch(p)
    PROVE  HeldInv'
<1>1. /\ UNCHANGED <<code, ck, metrics>> /\ pc[p] = "train" /\ ~Idle(p)
      /\ InPass(job[p])
  BY DEF Batch, BadBatch, directory, Idle
<1>2. /\ job[p] \in Job /\ job[p].epoch \in Nat /\ job[p].step \in Nat
  BY PartsOfJob, TrainersAssumption DEF HeldInv, KeptInv, PassInv
<1>3. ~job[p].eval
  BY <1>1, <1>2 DEF InPass, Limit
<1>4. KeptBy(job[p], "train")
  BY <1>1, <1>3, AtWork DEF HeldInv
<1>5. ASSUME NEW q \in Procs, Held(q) PROVE job[q].step # job[p].step + 1
  <2>1. PICK s \in Steps : Latest(s) /\ s >= job[q].step
    BY <1>5 DEF Held, Succeeded
  <2>2. s <= job[p].step /\ s \in Nat /\ job[q].step \in Nat
    BY <1>4, <2>1, PartsOfJob, TrainersAssumption DEF KeptBy, Latest, Steps, HeldInv, KeptInv, PassInv
  <2> QED
    BY <1>2, <2>1, <2>2
<1>6. CASE Goto(p, "failed") /\ UNCHANGED job
  BY <1>1, <1>6, MovesHold
<1>7. ASSUME NEW j, Update(p, j), j.step = job[p].step + 1, NEW l \in {"train", "save"}, Goto(p, l)
      PROVE  HeldInv'
  BY <1>1, <1>5, <1>7, HoldsOne
<1>8. \/ Goto(p, "failed") /\ UNCHANGED job
      \/ \E j : /\ Update(p, j) /\ j.step = job[p].step + 1
                /\ Goto(p, "save") \/ Goto(p, "train")
  <2> DEFINE on == [job[p] EXCEPT !.w = Trained(job[p]), !.batch = @ + 1, !.step = @ + 1, !.streak = 0]
             sv == [on EXCEPT !.mark = job[p].epoch]
             missed == [job[p] EXCEPT !.batch = @ + 1, !.step = @ + 1, !.streak = @ + 1]
  <2>1. on.step = job[p].step + 1 /\ sv.step = job[p].step + 1 /\ missed.step = job[p].step + 1
    BY <1>2 DEF Job
  <2>2. UNCHANGED pc => Goto(p, "train")
    BY <1>1, Stays DEF HeldInv, KeptInv, PassInv
  <2>3. CASE Batch(p)
    <3>1. \/ Update(p, sv) /\ Goto(p, "save")
          \/ Update(p, on) /\ UNCHANGED pc
      BY <2>3 DEF Batch
    <3> HIDE DEF on, sv
    <3> QED
      BY <2>1, <2>2, <3>1
  <2>4. CASE BadBatch(p)
    <3>1. \/ Goto(p, "failed") /\ UNCHANGED job
          \/ Update(p, missed) /\ UNCHANGED pc
      BY <2>4 DEF BadBatch
    <3> HIDE DEF missed
    <3> QED
      BY <2>1, <2>2, <3>1
  <2> QED
    BY <2>3, <2>4
<1> QED
  BY <1>6, <1>7, <1>8

(* A pass that ends had a batch, so its step is not one returned with.        *)
LEMMA EndEpochHolds == ASSUME HeldInv, KeptInv', NEW p \in Procs, EndEpoch(p) PROVE HeldInv'
<1>1. /\ UNCHANGED <<code, ck, metrics>> /\ pc[p] = "train" /\ ~Idle(p)
      /\ InPass(job[p]) /\ ~(job[p].batch < Batches)
  BY DEF EndEpoch, Left, directory, Idle
<1>2. /\ job[p] \in Job /\ job[p].epoch \in Nat /\ job[p].batch # 0
  BY <1>1, PartsOfJob, TrainersAssumption DEF HeldInv, KeptInv, PassInv, TrainersAssumption
<1>3. ~job[p].eval
  BY <1>1, <1>2 DEF InPass, Limit
<1>4. \A q \in Procs : Held(q) => job[q].step # job[p].step
  BY <1>1, <1>2, <1>3 DEF Held, Training
<1>5. \E j : Update(p, j) /\ j.step = job[p].step /\ (Goto(p, "train") \/ Goto(p, "best"))
  <2> DEFINE on == [job[p] EXCEPT !.epoch = job[p].epoch + 1, !.batch = 0, !.w.passes = @ + 1]
  <2>1. on.step = job[p].step /\ \A v : [on EXCEPT !.best = v].step = job[p].step
    BY <1>2 DEF Job
  <2>2. \/ Update(p, on) /\ UNCHANGED pc
        \/ \E v \in Scores : Update(p, [on EXCEPT !.best = v]) /\ Goto(p, "best")
    BY DEF EndEpoch
  <2>3. UNCHANGED pc => Goto(p, "train")
    BY <1>1, Stays DEF HeldInv, KeptInv, PassInv
  <2> HIDE DEF on
  <2> QED
    BY <2>1, <2>2, <2>3
<1>6. PICK j : Update(p, j) /\ j.step = job[p].step /\ (Goto(p, "train") \/ Goto(p, "best"))
  BY <1>5
<1> QED
  BY <1>1, <1>4, <1>6, HoldsOne

LEMMA FinishHolds == ASSUME HeldInv, KeptInv', NEW p \in Procs, Finish(p) PROVE HeldInv'
<1>1. UNCHANGED <<code, ck, metrics>> /\ pc[p] = "train" /\ ~Idle(p) /\ job[p] \in Job
  BY DEF Finish, directory, Idle, HeldInv, KeptInv, PassInv, Counted
<1>2. CASE job[p].eval
  BY <1>1, <1>2, MovesHold DEF Finish
<1>3. CASE ~job[p].eval
  <2> DEFINE j == [job[p] EXCEPT !.mark = job[p].epochs]
  <2>1. j.eval = job[p].eval /\ j.step = job[p].step /\ j.w = job[p].w /\ j.batch = job[p].batch
    BY <1>1 DEF Job
  <2>2. Update(p, j) /\ Goto(p, "save")
    BY <1>3 DEF Finish
  <2> HIDE DEF j
  <2> QED
    BY <1>1, <2>1, <2>2, SameHolds
<1> QED
  BY <1>2, <1>3

(* Where a training stands whose save is done, or about to be.               *)
LEMMA SavingAt ==
    ASSUME KeptInv, NEW p \in Procs, ~job[p].eval, pc[p] \in {"save", "prune", "score"}
    PROVE  /\ Training(p) /\ job[p] \in Job /\ KeptBy(job[p], pc[p])
           /\ job[p].step \in Steps /\ job[p].step \in Nat /\ job[p].w.passes \in Nat
           /\ pc[p] # "save" => Latest(job[p].step) /\ ck[job[p].step].w = job[p].w
<1>1. Training(p) /\ job[p] \in Job /\ KeptBy(job[p], pc[p])
  BY AtWork DEF Training, Idle
<1>2. job[p].step \in Steps /\ job[p].step \in Nat /\ job[p].w.passes \in Nat
  <2>1. job[p].step \in 0..MaxStep /\ MaxStep \in Nat /\ job[p].step # 0 /\ job[p].w.passes \in Nat
    BY <1>1, PartsOfJob, TrainersAssumption DEF KeptBy, KeptInv, PassInv
  <2> QED
    BY <2>1 DEF Steps
<1>3. ASSUME pc[p] # "save" PROVE Latest(job[p].step) /\ ck[job[p].step].w = job[p].w
  <2>1. ck[job[p].step] = [epoch |-> job[p].mark, w |-> job[p].w] /\ job[p].mark \in Nat
    BY <1>1, <1>3 DEF KeptBy, Job
  <2>2. job[p].step \in Saved
    BY <1>2, <2>1 DEF Saved, SavedIn
  <2> QED
    BY <1>1, <1>3, <2>1, <2>2 DEF Latest, KeptBy
<1> QED
  BY <1>1, <1>2, <1>3

(* A publication is the newest checkpoint, at least as far as what any        *)
(* process returned with.                                                    *)
LEMMA PublishHolds == ASSUME HeldInv, KeptInv', NEW q \in Procs, Publish(q) PROVE HeldInv'
<1>1. /\ UNCHANGED <<code, metrics>> /\ pc[q] = "save" /\ ~job[q].eval /\ ck \in [Steps -> Ckpt]
      /\ job[q] \in Job /\ Goto(q, "prune")
      /\ ck' = [ck EXCEPT ![job[q].step] = [epoch |-> job[q].mark, w |-> job[q].w]]
  BY DEF Publish, HeldInv, KeptInv, PassInv, Counted
<1>2. PICK j : /\ Update(q, j) /\ j.step = job[q].step /\ j.w = job[q].w /\ j.batch = job[q].batch
               /\ j.eval = job[q].eval
  <2> DEFINE j == [job[q] EXCEPT !.todo = StaleOf(ck')]
  <2>1. j.step = job[q].step /\ j.w = job[q].w /\ j.batch = job[q].batch /\ j.eval = job[q].eval
    BY <1>1 DEF Job
  <2> QED
    BY <2>1 DEF Publish
<1>3. /\ Training(q) /\ KeptBy(job[q], "save") /\ job[q].step \in Steps /\ job[q].step \in Nat
      /\ job[q].w.passes \in Nat
  BY <1>1, SavingAt DEF HeldInv
<1>13. PICK n \in Steps : n = job[q].step
  BY <1>3
<1>4. \A p \in Procs : job'[p] = IF p = q THEN j ELSE job[p]
  BY <1>2 DEF HeldInv, KeptInv, PassInv, Counted, Update
<1>5. \A p \in Procs : pc'[p] = IF p = q THEN "prune" ELSE pc[p]
  BY <1>1 DEF HeldInv, KeptInv, PassInv, Counted, Goto
<1>6. Latest(n)' /\ ck'[n].w = job[q].w
  <2>1. ck'[n] = [epoch |-> job[q].mark, w |-> job[q].w] /\ job[q].mark \in Nat
    BY <1>1, <1>3, <1>13 DEF Job
  <2>2. n \in Saved'
    BY <2>1 DEF Saved, SavedIn
  <2>3. \A u \in Steps \ {n} : ck'[u] = ck[u]
    BY <1>1, <1>13
  <2>4. \A u \in Saved' : u <= n
    BY <1>3, <1>13, <2>3 DEF KeptBy, Saved, SavedIn
  <2> QED
    BY <2>1, <2>2, <2>4 DEF Latest
<1> SUFFICES ASSUME NEW p \in Procs, Returned(p)' PROVE Held(p)'
  BY DEF HeldInv
<1>7. p # q /\ Returned(p) /\ job'[p] = job[p] /\ Held(p)
  BY <1>4, <1>5 DEF Returned, HeldInv
<1>8. PICK s \in Steps : Latest(s) /\ s >= job[p].step /\ ck[s].w.passes >= job[p].w.passes
  BY <1>7 DEF Held, Succeeded
<1>9. /\ s <= job[q].step /\ ck[s].w.passes <= job[q].w.passes /\ s \in Nat
      /\ ck[s].w.passes \in Nat /\ job[p].step \in Nat /\ job[p].w.passes \in Nat
  <2>1. s \in Saved /\ s \in Nat /\ ck[s].w.passes \in Nat
    BY <1>1, <1>8 DEF Latest, Ckpt, Weights, Steps
  <2>2. job[p].step \in Nat /\ job[p].w.passes \in Nat
    BY PartsOfJob, TrainersAssumption DEF HeldInv, KeptInv, PassInv
  <2> QED
    BY <1>3, <2>1, <2>2 DEF KeptBy
<1>10. Succeeded(p)'
  <2>1. n >= job[p].step /\ ck'[n].w.passes >= job[p].w.passes
    BY <1>3, <1>6, <1>8, <1>9, <1>13
  <2> QED
    BY <1>6, <1>7, <2>1 DEF Succeeded
<1>11. ASSUME NEW r \in Procs, Training(r)', pc'[r] # "load", job'[r].step = job[p].step
       PROVE  job'[r].w = job[p].w /\ job'[r].batch = 0
  <2>1. Training(r) /\ pc[r] # "load" /\ job[r].step = job[p].step
        /\ job'[r].w = job[r].w /\ job'[r].batch = job[r].batch
    BY <1>1, <1>2, <1>3, <1>4, <1>5, <1>11 DEF Training, Idle
  <2> QED
    BY <1>7, <2>1 DEF Held
<1>12. ASSUME Latest(job[p].step)'
       PROVE  /\ ck'[job[p].step].w = job[p].w
              /\ code.eval # "own" /\ code.scores = "end" /\ job[p].scored =>
                    metrics.w = job[p].w /\ metrics.step = job[p].step
  <2>1. job[p].step = job[q].step
    <3>1. job[p].step \in Saved' /\ n \in Saved' /\ job[p].step >= n /\ n >= job[p].step
      BY <1>6, <1>7, <1>12 DEF Latest
    <3> QED
      BY <1>3, <1>9, <1>13, <3>1
  <2>2. s = job[p].step
    BY <1>3, <1>8, <1>9, <2>1
  <2>3. job[q].w = job[p].w
    BY <1>1, <1>3, <1>7, <2>1 DEF Held
  <2> QED
    BY <1>6, <1>7, <1>8, <1>13, <2>1, <2>2, <2>3 DEF Held
<1> QED
  BY <1>1, <1>7, <1>10, <1>11, <1>12 DEF Held

(* Pruning leaves the newest.                                                *)
LEMMA UnlinkHolds == ASSUME HeldInv, KeptInv', NEW q \in Procs, Unlink(q) PROVE HeldInv'
<1>1. PICK s \in job[q].todo : /\ ck' = [ck EXCEPT ![s] = NoCkpt]
                               /\ Update(q, [job[q] EXCEPT !.todo = @ \ {s}])
  BY DEF Unlink
<1>2. /\ UNCHANGED <<code, metrics, pc>> /\ pc[q] = "prune" /\ ~job[q].eval
      /\ ck \in [Steps -> Ckpt] /\ job[q] \in Job
  BY DEF Unlink, HeldInv, KeptInv, PassInv, Counted
<1>3. PICK j : /\ Update(q, j) /\ j.step = job[q].step /\ j.w = job[q].w /\ j.batch = job[q].batch
               /\ j.eval = job[q].eval
  <2> DEFINE j == [job[q] EXCEPT !.todo = @ \ {s}]
  <2>1. j.step = job[q].step /\ j.w = job[q].w /\ j.batch = job[q].batch /\ j.eval = job[q].eval
    BY <1>2 DEF Job
  <2> QED
    BY <1>1, <2>1
<1>4. Training(q) /\ Latest(job[q].step) /\ s < job[q].step /\ job[q].step \in Nat
  BY <1>2, SavingAt DEF HeldInv, KeptBy
<1>15. PICK n \in Steps : n = job[q].step
  BY <1>4 DEF Latest, Saved, SavedIn
<1>5. \A p \in Procs : job'[p] = IF p = q THEN j ELSE job[p]
  BY <1>3 DEF HeldInv, KeptInv, PassInv, Counted, Update
<1>6. \A u \in Steps : u # s => ck'[u] = ck[u]
  BY <1>1, <1>2
<1>7. \A u \in Saved' : u \in Saved /\ ck'[u] = ck[u]
  BY <1>1, <1>2, <1>6 DEF Saved, SavedIn, NoCkpt
<1>8. Latest(n)' /\ ck'[n] = ck[n]
  <2>1. n # s
    BY <1>4, <1>15
  <2>2. n \in Saved'
    BY <1>4, <1>6, <1>15, <2>1 DEF Latest, Saved, SavedIn
  <2>3. \A u \in Saved' : u <= n
    BY <1>4, <1>7, <1>15 DEF Latest
  <2> QED
    BY <1>6, <2>1, <2>2, <2>3 DEF Latest
<1>9. \A u : Latest(u)' => u = n
  <2>1. \A u : Latest(u)' => u \in Saved' /\ u >= n /\ u \in Nat
    BY <1>8 DEF Latest, Saved, SavedIn, Steps
  <2>2. \A u \in Saved' : u <= n
    BY <1>8 DEF Latest
  <2>3. n \in Nat
    BY DEF Steps
  <2> QED
    BY <2>1, <2>2, <2>3
<1>10. \A u : Latest(u) => u = n
  BY <1>4, <1>15, OneLatest
<1> SUFFICES ASSUME NEW p \in Procs, Returned(p)' PROVE Held(p)'
  BY DEF HeldInv
<1>11. p # q /\ Returned(p) /\ job'[p] = job[p] /\ Held(p)
  BY <1>2, <1>5 DEF Returned, HeldInv
<1>12. Succeeded(p)'
  <2>1. n >= job[p].step /\ ck[n].w.passes >= job[p].w.passes
    BY <1>10, <1>11 DEF Held, Succeeded
  <2> QED
    BY <1>8, <1>11, <2>1 DEF Succeeded
<1>13. ASSUME NEW r \in Procs, Training(r)', pc'[r] # "load", job'[r].step = job[p].step
       PROVE  job'[r].w = job[p].w /\ job'[r].batch = 0
  <2>1. Training(r) /\ pc[r] # "load" /\ job[r].step = job[p].step
        /\ job'[r].w = job[r].w /\ job'[r].batch = job[r].batch
    BY <1>2, <1>3, <1>4, <1>5, <1>13 DEF Training, Idle
  <2> QED
    BY <1>11, <2>1 DEF Held
<1>14. ASSUME Latest(job[p].step)'
       PROVE  /\ ck'[job[p].step].w = job[p].w
              /\ code.eval # "own" /\ code.scores = "end" /\ job[p].scored =>
                    metrics.w = job[p].w /\ metrics.step = job[p].step
  <2>1. job[p].step = n
    BY <1>9, <1>11, <1>14
  <2> QED
    BY <1>4, <1>8, <1>11, <1>15, <2>1 DEF Held
<1> QED
  BY <1>2, <1>11, <1>12, <1>13, <1>14 DEF Held

(* A trainer returns having saved, with every pass it was asked for.          *)
LEMMA Returns ==
    ASSUME KeptInv, NEW p \in Procs, ~job[p].eval, pc[p] \in {"prune", "score"}, ~InPass(job[p])
    PROVE  job[p].w.passes >= job[p].epochs /\ Succeeded(p)
<1>1. job[p].epoch <= job[p].w.passes /\ job[p].epochs <= job[p].epoch
  BY PartsOfJob, TrainersAssumption DEF InPass, Limit, KeptInv, PassInv, Abreast
<1>2. job[p].w.passes >= job[p].epochs
  BY <1>1, PartsOfJob, TrainersAssumption DEF KeptInv, PassInv
<1>3. /\ job[p].step \in Steps /\ job[p].step \in Nat /\ job[p].w.passes \in Nat
      /\ Latest(job[p].step) /\ ck[job[p].step].w = job[p].w
  BY SavingAt
<1> QED
  BY <1>2, <1>3 DEF Succeeded

(* A step that ends a training and leaves the checkpoints.                    *)
LEMMA ReturnHolds ==
    ASSUME HeldInv, KeptInv', NEW q \in Procs, ~job[q].eval, pc[q] \in {"prune", "score"},
           ~InPass(job[q]), NEW j, Update(q, j), Goto(q, "done"), UNCHANGED <<code, ck>>,
           j.step = job[q].step, j.w = job[q].w, j.epochs = job[q].epochs, j.eval = job[q].eval,
           \/ UNCHANGED metrics /\ ~j.scored
           \/ metrics'.w = job[q].w /\ metrics'.step = job[q].step
    PROVE  HeldInv'
<1>1. \A p \in Procs : job'[p] = IF p = q THEN j ELSE job[p]
  BY DEF HeldInv, KeptInv, PassInv, Counted, Update
<1>2. \A p \in Procs : pc'[p] = IF p = q THEN "done" ELSE pc[p]
  BY DEF HeldInv, KeptInv, PassInv, Counted, Goto
<1>3. \A s : Latest(s)' <=> Latest(s)
  BY DEF Latest, Saved, SavedIn
<1>4. /\ Training(q) /\ Latest(job[q].step) /\ ck[job[q].step].w = job[q].w
      /\ job[q].w.passes >= job[q].epochs /\ Succeeded(q)
  BY SavingAt, Returns DEF HeldInv
<1>5. \A r \in Procs : ~Training(r)'
  BY <1>1, <1>2, <1>4 DEF Training, Idle, HeldInv, KeptInv
<1> SUFFICES ASSUME NEW p \in Procs, Returned(p)' PROVE Held(p)'
  BY DEF HeldInv
<1>6. CASE p = q
  <2>1. Succeeded(p)'
    BY <1>1, <1>3, <1>4, <1>6 DEF Succeeded
  <2>2. job'[p].w.passes >= job'[p].epochs
    BY <1>1, <1>4, <1>6
  <2>3. ck'[job'[p].step].w = job'[p].w
    BY <1>1, <1>4, <1>6
  <2>4. job'[p].scored => metrics'.w = job'[p].w /\ metrics'.step = job'[p].step
    BY <1>1, <1>6
  <2> QED
    BY <1>5, <2>1, <2>2, <2>3, <2>4 DEF Held
<1>7. CASE p # q
  <2>1. Returned(p) /\ job'[p] = job[p] /\ Held(p)
    BY <1>1, <1>2, <1>7 DEF Returned, HeldInv
  <2>2. Succeeded(p)'
    BY <1>3, <2>1 DEF Held, Succeeded
  <2>3. ASSUME Latest(job[p].step)'
        PROVE  /\ ck[job[p].step].w = job[p].w
               /\ code.eval # "own" /\ code.scores = "end" /\ job[p].scored =>
                     metrics'.w = job[p].w /\ metrics'.step = job[p].step
    <3>1. Latest(job[p].step)
      <4>1. Latest(job'[p].step)
        BY <2>3 DEF Latest, Saved, SavedIn
      <4> QED
        BY <2>1, <4>1
    <3>4. job[p].step = job[q].step
      BY <1>4, <3>1, OneLatest
    <3>2. ck[job[p].step].w = job[p].w /\ job[q].w = job[p].w
      BY <1>4, <2>1, <3>1, <3>4 DEF Held
    <3> QED
      BY <2>1, <3>1, <3>2, <3>4 DEF Held
  <2> QED
    BY <1>5, <2>1, <2>2, <2>3 DEF Held
<1> QED
  BY <1>6, <1>7

LEMMA ScoresHold ==
    ASSUME HeldInv, KeptInv', NEW p \in Procs,
           SaveBest(p) \/ BestSaved(p) \/ BestMetrics(p) \/ Saves(p)
    PROVE  HeldInv'
<1>1. UNCHANGED <<code, ck, job>> /\ ~Idle(p) /\ pc[p] # "load" /\ job[p] \in Job
  BY DEF SaveBest, BestSaved, BestMetrics, Saves, directory, Idle, HeldInv, KeptInv, PassInv, Counted
<1>2. CASE SaveBest(p) \/ BestSaved(p)
  <2>1. UNCHANGED metrics /\ \E l \in {"metrics", "best"} : Goto(p, l)
    BY <1>2, Stays DEF SaveBest, BestSaved, HeldInv, KeptInv, PassInv
  <2> QED
    BY <1>1, <2>1, MovesHold
<1>3. CASE BestMetrics(p)
  <2>1. pc[p] = "metrics" /\ Goto(p, "train")
    BY <1>3 DEF BestMetrics
  <2>2. code.scores = "best"
    <3>1. ~job[p].eval
      BY <2>1 DEF HeldInv, KeptInv
    <3> QED
      BY <1>1, <2>1, <3>1, AtWork DEF HeldInv, KeptBy
  <2>3. \A r \in Procs : job'[r] = job[r] /\ pc'[r] = IF r = p THEN "train" ELSE pc[r]
    BY <1>1, <2>1 DEF HeldInv, KeptInv, PassInv, Counted, Goto
  <2>4. \A s : Latest(s)' <=> Latest(s)
    BY <1>1 DEF Latest, Saved, SavedIn
  <2>5. ASSUME NEW r \in Procs, Returned(r)' PROVE Held(r)'
    <3>1. Returned(r) /\ Held(r)
      BY <2>3, <2>5 DEF Returned, HeldInv
    <3>2. Succeeded(r)'
      BY <1>1, <2>4, <3>1 DEF Held, Succeeded
    <3>3. \A a \in Procs : Training(a)' => (Training(a) /\ pc[a] # "load") \/ pc'[a] = "load"
      BY <1>1, <2>1, <2>3 DEF Training, Idle
    <3> QED
      BY <1>1, <2>2, <2>3, <2>4, <3>1, <3>2, <3>3 DEF Held
  <2> QED
    BY <2>5 DEF HeldInv
<1>4. CASE Saves(p)
  <2>1. pc[p] = "prune" /\ UNCHANGED metrics /\ ~job[p].eval
    BY <1>4 DEF Saves, directory, HeldInv, KeptInv
  <2>2. \/ Goto(p, "train") \/ Goto(p, "score")
        \/ Goto(p, "done") /\ ~InPass(job[p])
    BY <1>4 DEF Saves
  <2>3. CASE Goto(p, "train") \/ Goto(p, "score")
    BY <1>1, <2>1, <2>3, MovesHold
  <2>4. CASE Goto(p, "done") /\ ~InPass(job[p])
    <3>1. Update(p, job[p])
      BY <1>1, Stays DEF HeldInv, KeptInv, PassInv
    <3>2. ~job[p].scored
      BY <1>1, <2>1, AtWork DEF HeldInv, KeptBy
    <3> QED
      BY <1>1, <2>1, <2>4, <3>1, <3>2, ReturnHolds
  <2> QED
    BY <2>2, <2>3, <2>4
<1> QED
  BY <1>2, <1>3, <1>4

LEMMA ScoreHolds == ASSUME HeldInv, KeptInv', NEW p \in Procs, Score(p) PROVE HeldInv'
<1>1. PICK j \in Job :
          /\ Update(p, j) /\ Goto(p, "done") /\ pc[p] = "score" /\ UNCHANGED <<code, ck>>
          /\ \A f \in DOMAIN job[p] \ {"scored"} : j[f] = job[p][f]
          /\ \/ j = job[p] /\ UNCHANGED metrics
             \/ job[p].eval /\ code.eval = "guarded" /\ UNCHANGED metrics
             \/ ~(job[p].eval /\ code.eval = "guarded") /\ metrics' = Measured(p)
  BY ScoreMoves DEF HeldInv, KeptInv, PassInv
<1>2. job[p] \in Job /\ ~Idle(p) /\ code \in Code
  BY <1>1 DEF HeldInv, KeptInv, PassInv, Counted, Idle
<1>3. j.eval = job[p].eval /\ j.step = job[p].step /\ j.w = job[p].w /\ j.epochs = job[p].epochs
      /\ j.batch = job[p].batch
  BY <1>1, <1>2 DEF Job
<1>4. CASE ~job[p].eval
  <2>1. ~job[p].scored /\ ~InPass(job[p])
    BY <1>1, <1>2, <1>4, AtWork DEF HeldInv, KeptBy
  <2>2. \/ UNCHANGED metrics /\ ~j.scored
        \/ metrics'.w = job[p].w /\ metrics'.step = job[p].step
    BY <1>1, <1>4, <2>1 DEF Measured
  <2> QED
    BY <1>1, <1>3, <1>4, <2>1, <2>2, ReturnHolds
<1>5. CASE job[p].eval /\ UNCHANGED metrics
  BY <1>1, <1>2, <1>3, <1>5, SameHolds
<1>6. CASE job[p].eval /\ ~UNCHANGED metrics
  <2>1. code.eval = "own"
    <3>1. code.eval # "none" /\ code.eval # "guarded"
      BY <1>1, <1>2, <1>6, AtWork DEF HeldInv
    <3> QED
      BY <1>2, <3>1 DEF Code
  <2>2. \A r \in Procs : job'[r] = IF r = p THEN j ELSE job[r]
    BY <1>1 DEF HeldInv, KeptInv, PassInv, Counted, Update
  <2>3. \A r \in Procs : pc'[r] = IF r = p THEN "done" ELSE pc[r]
    BY <1>1 DEF HeldInv, KeptInv, PassInv, Counted, Goto
  <2>4. \A s : Latest(s)' <=> Latest(s)
    BY <1>1 DEF Latest, Saved, SavedIn
  <2>5. ASSUME NEW r \in Procs, Returned(r)' PROVE Held(r)'
    <3>1. r # p /\ Returned(r) /\ Held(r) /\ job'[r] = job[r]
      BY <1>3, <1>6, <2>2, <2>3, <2>5 DEF Returned, HeldInv
    <3>2. Succeeded(r)'
      BY <1>1, <2>4, <3>1 DEF Held, Succeeded
    <3>3. \A a \in Procs : Training(a)' => Training(a) /\ job'[a] = job[a] /\ pc'[a] = pc[a]
      BY <2>2, <2>3 DEF Training, Idle
    <3> QED
      BY <1>1, <2>1, <2>4, <3>1, <3>2, <3>3 DEF Held
  <2> QED
    BY <2>5 DEF HeldInv
<1> QED
  BY <1>4, <1>5, <1>6

LEMMA EnvironmentHolds ==
    ASSUME HeldInv, KeptInv'
    PROVE  /\ \A p \in Procs : Kill(p) => HeldInv'
           /\ Restage => HeldInv'
           /\ UNCHANGED vars => HeldInv'
<1>1. ASSUME NEW p \in Procs, Kill(p) PROVE HeldInv'
  <2>1. Update(p, NoJob) /\ Goto(p, "off") /\ UNCHANGED <<code, ck, metrics>>
    BY <1>1 DEF Kill, directory
  <2> QED
    BY <2>1, HoldsOne
<1>2. ASSUME UNCHANGED <<code, ck, metrics, pc, job>> PROVE HeldInv'
  BY <1>2 DEF HeldInv, Returned, Held, Succeeded, Training, Idle, Latest, Saved, SavedIn
<1> QED
  BY <1>1, <1>2 DEF Restage, vars, directory

LEMMA HeldInvariance == QueueSpec => []HeldInv
<1>1. Init => HeldInv
  <2> SUFFICES ASSUME Init PROVE HeldInv
    OBVIOUS
  <2>1. PassInv /\ code \in Code
    BY TrainersAssumption, InitHolds DEF Init, TrainersAssumption
  <2>2. Saved = {}
    BY DEF Init, Saved, SavedIn, NoCkpt
  <2>3. \A p \in Procs : ~Training(p) /\ ~job[p].eval /\ ~Returned(p)
    BY DEF Init, Training, Idle, Returned, NoJob
  <2> QED
    BY <2>1, <2>2, <2>3 DEF HeldInv, KeptInv
<1>2. HeldInv /\ [Next /\ Resumes]_vars => HeldInv'
  <2> SUFFICES ASSUME HeldInv, [Next /\ Resumes]_vars PROVE HeldInv'
    OBVIOUS
  <2>1. KeptInv'
    BY KeptKeeps DEF HeldInv
  <2>2. ASSUME NEW p \in Procs, Sidecar(p) \/ SidecarWritten(p) PROVE HeldInv'
    <3>1. /\ \E l \in {"written", "train"} : Goto(p, l)
          /\ UNCHANGED <<code, ck, metrics, job>> /\ ~Idle(p) /\ pc[p] # "load"
      BY <2>2 DEF Sidecar, SidecarWritten, Idle
    <3> QED
      BY <2>1, <3>1, MovesHold
  <2>3. ASSUME NEW p \in Procs, Work(p) PROVE HeldInv'
    BY <2>1, <2>2, <2>3, LoadHolds, BatchHolds, EndEpochHolds, FinishHolds, PublishHolds,
       UnlinkHolds, ScoresHold, ScoreHolds DEF Work
  <2> QED
    BY <2>1, <2>3, StartHolds, EnvironmentHolds DEF Next
<1> QED
  BY <1>1, <1>2, PTL DEF QueueSpec

(* Started as the queue starts them, what a trainer returned with is not lost *)
(* by what runs in the directory later: the newest checkpoint is as far and   *)
(* has seen as many passes, and as many as were asked for.                   *)
THEOREM CompletedStays == QueueSpec => []CompletedIsKept
<1>1. HeldInv => CompletedIsKept
  BY DEF HeldInv, Held, Succeeded, CompletedIsKept
<1> QED
  BY <1>1, HeldInvariance, PTL

(* And as long as its checkpoint is the newest, the metrics.json a trainer    *)
(* wrote at its end is of those weights, with evaluations beside it or not.   *)
THEOREM MetricsStay == QueueSpec => []MetricsAreOfNewest
<1>1. HeldInv => MetricsAreOfNewest
  BY DEF HeldInv, Held, MetricsAreOfNewest
<1> QED
  BY <1>1, HeldInvariance, PTL

-----------------------------------------------------------------------------
(* What is trained on, at any time before or beside the training.  For any   *)
(* corpora, models, files, scripts and runs, and any commands: what is       *)
(* locked is whole, and what a verification says of the runs is so.          *)

(* Types.                                                                   *)
Trees == [of : Nat, whole : BOOLEAN]
Locks == [Keys -> Trees \cup {None}]
Files == [Parts -> [from : Trees \cup {None}, size : {"full", "short"}] \cup {None}]
Listings == UNION {[D -> Files] : D \in SUBSET Corpora}

FetchCommand == [kind : {"fetch"}, keys : SUBSET Keys, todo : SUBSET Keys, at : Keys \cup {None},
             own : {Corpora, Models}, update : BOOLEAN, offline : BOOLEAN, lock : Locks,
             ok : BOOLEAN]
VerifyCommand == [kind : {"verify", "verified"}, quick : BOOLEAN, files : Listings,
              chosen : SUBSET Corpora, todo : SUBSET (Corpora \X Parts),
              found : SUBSET (Corpora \X Parts), touched : SUBSET (Corpora \X Parts)]
IdleCommand == [kind : {"idle"}, ok : BOOLEAN]

Typed ==
    /\ upstream \in [Keys -> Nat] /\ raw \in Locks /\ lock \in Locks
    /\ prepared \in [Corpora -> Files] /\ disk \in [Corpora -> Files]
    /\ manifest \in [quick : BOOLEAN, files : Listings] \cup {None}
    /\ command \in IdleCommand \cup FetchCommand \cup VerifyCommand

(* A lock, in a file or in memory.                                          *)
Whole(l) == \A k \in Hub : l[k] # None => l[k].whole

(* What is locked is whole, and what is about to be locked on first use was   *)
(* downloaded to the end: nothing touches it between download and digest.     *)
LockInv ==
    /\ Whole(lock)
    /\ command.kind = "fetch" =>
         /\ Whole(command.lock)
         /\ command.at \in Hub /\ command.update => raw[command.at].whole

(* What was found, of the files looked at and not sent since, is what is as it *)
(* was recorded.                                                             *)
FoundIsSo ==
    \A d \in command.chosen : \A f \in Listed(command.files, d) :
        <<d, f>> \notin command.todo \cup command.touched =>
            (<<d, f>> \in command.found <=> disk[d][f] = command.files[d][f])

(* What was found was looked at, and a verification that has ended has looked *)
(* at everything.                                                            *)
VerdictInv ==
    command.kind \in {"verify", "verified"} =>
        /\ command.found \cap command.todo = {}
        /\ command.kind = "verified" => command.todo = {}
        /\ ~command.quick => FoundIsSo

SInv == Typed /\ LockInv /\ VerdictInv

-----------------------------------------------------------------------------
LEMMA DataStarts == DataInit => SInv
<1> SUFFICES ASSUME DataInit PROVE SInv
  OBVIOUS
<1>1. command = [kind |-> "idle", ok |-> TRUE]
  BY DEF DataInit, NoCommand
<1>2. command \in IdleCommand
  BY <1>1 DEF IdleCommand
<1>3. [f \in Parts |-> None] \in Files
  BY DEF Files
<1>4. Typed
  BY <1>2, <1>3 DEF DataInit, Typed, Locks
<1>5. LockInv
  BY <1>1, StagingAssumption DEF DataInit, LockInv, Whole, StagingAssumption
<1> QED
  BY <1>1, <1>4, <1>5 DEF SInv, VerdictInv

(* Commands that start.                                                       *)
LEMMA FetchStarts ==
    ASSUME SInv, NEW own \in {Corpora, Models}, NEW keys \in SUBSET Keys, NEW update \in BOOLEAN,
           NEW offline \in BOOLEAN, StartFetch(own, keys, update, offline)
    PROVE  SInv'
<1>1. command' \in FetchCommand /\ command'.kind = "fetch" /\ command'.at = None /\ command'.lock = lock
  BY DEF StartFetch, Command, FetchCommand, SInv, Typed
<1>2. UNCHANGED <<upstream, raw, lock, prepared, manifest, disk>>
  BY DEF StartFetch, fetching, shipping
<1>3. Typed'
  BY <1>1, <1>2 DEF SInv, Typed
<1>4. LockInv'
  BY <1>1, <1>2, StagingAssumption DEF SInv, LockInv, Whole, StagingAssumption
<1>5. VerdictInv'
  BY <1>1 DEF VerdictInv
<1> QED
  BY <1>3, <1>4, <1>5 DEF SInv

(* A turn goes to the verification of what it was about, which a download has *)
(* completed, or leaves it out.                                              *)
LEMMA TurnMoves ==
    ASSUME SInv, Fetching, NEW k \in Keys,
           NEW at \in {None, k}, NEW ok \in BOOLEAN,
           command' = [command EXCEPT !.todo = command.todo \ {k}, !.at = at, !.ok = ok],
           raw' \in Locks, UNCHANGED <<upstream, lock, shipping>>,
           at \in Hub /\ command.update => raw'[at].whole
    PROVE  SInv'
<1>1. command \in FetchCommand
  BY DEF Fetching, SInv, Typed, IdleCommand, VerifyCommand
<1>2. /\ command' \in FetchCommand /\ command'.kind = "fetch" /\ command'.at = at
      /\ command'.lock = command.lock
      /\ command'.update = command.update
  BY <1>1 DEF FetchCommand
<1>3. Typed'
  BY <1>2 DEF SInv, Typed, shipping
<1>4. LockInv'
  BY <1>2 DEF SInv, LockInv, Fetching
<1>5. VerdictInv'
  BY <1>2 DEF VerdictInv
<1> QED
  BY <1>3, <1>4, <1>5 DEF SInv

LEMMA IsFetchCommand == ASSUME SInv, Fetching PROVE command \in FetchCommand
BY DEF Fetching, SInv, Typed, IdleCommand, VerifyCommand

LEMMA TreeTyped ==
    ASSUME SInv, NEW k \in Keys, NEW whole \in BOOLEAN
    PROVE  /\ [raw EXCEPT ![k] = Tree(k, whole)] \in Locks
           /\ [raw EXCEPT ![k] = Tree(k, whole)][k] = [of |-> upstream[k], whole |-> whole]
           /\ \A j \in Keys \ {k} : [raw EXCEPT ![k] = Tree(k, whole)][j] = raw[j]
BY DEF SInv, Typed, Tree, Trees, Locks

LEMMA DownloadKeeps == ASSUME SInv, NEW k \in Keys, Download(k) PROVE SInv'
<1>1. Fetching /\ command \in FetchCommand /\ UNCHANGED <<upstream, lock, shipping>>
  BY IsFetchCommand DEF Download, Turn
<1>2. CASE raw' = [raw EXCEPT ![k] = Tree(k, TRUE)] /\ command' = ToVerify(k)
  <2>1. raw' \in Locks /\ raw'[k] = [of |-> upstream[k], whole |-> TRUE]
    BY <1>2, TreeTyped DEF SInv, Typed
  <2>2. command' = [command EXCEPT !.todo = command.todo \ {k}, !.at = k, !.ok = command.ok]
    BY <1>1, <1>2 DEF ToVerify, FetchCommand
  <2>3. command.ok \in BOOLEAN /\ raw'[k].whole
    BY <1>1, <2>1 DEF FetchCommand
  <2> QED
    BY <1>1, <2>1, <2>2, <2>3, TurnMoves
<1>3. CASE /\ raw' \in {raw, [raw EXCEPT ![k] = Tree(k, FALSE)]}
           /\ command' = [command EXCEPT !.todo = @ \ {k}, !.ok = FALSE]
  <2>1. raw' \in Locks
    BY <1>3, TreeTyped DEF SInv, Typed
  <2>2. command' = [command EXCEPT !.todo = command.todo \ {k}, !.at = None, !.ok = FALSE]
    BY <1>1, <1>3 DEF Download, Turn, FetchCommand
  <2>3. None \notin Hub
    BY StagingAssumption DEF StagingAssumption
  <2> QED
    BY <1>1, <2>1, <2>2, <2>3, TurnMoves
<1> QED
  BY <1>2, <1>3 DEF Download

LEMMA ByHandKeeps == ASSUME SInv, NEW k \in Keys, ByHand(k) PROVE SInv'
<1>1. /\ Fetching /\ command \in FetchCommand /\ k \notin Hub /\ command.at = None
      /\ UNCHANGED <<upstream, raw, lock, shipping>>
  BY IsFetchCommand DEF ByHand, Turn, fetching
<1>2. raw' \in Locks /\ None \notin Hub /\ command.ok \in BOOLEAN
  BY <1>1, StagingAssumption DEF SInv, Typed, FetchCommand, StagingAssumption
<1>3. CASE raw[k] = None
  <2>1. command' = [command EXCEPT !.todo = command.todo \ {k}, !.at = None, !.ok = command.ok]
    BY <1>1, <1>3 DEF ByHand, FetchCommand
  <2> QED
    BY <1>1, <1>2, <2>1, TurnMoves
<1>4. CASE raw[k] # None
  <2>1. command' = [command EXCEPT !.todo = command.todo \ {k}, !.at = k, !.ok = command.ok]
    BY <1>1, <1>4 DEF ByHand, ToVerify, FetchCommand
  <2> QED
    BY <1>1, <1>2, <2>1, TurnMoves
<1> QED
  BY <1>3, <1>4

LEMMA OnlyVerifyKeeps == ASSUME SInv, NEW k \in Keys, OnlyVerify(k) PROVE SInv'
<1>1. /\ Fetching /\ command \in FetchCommand /\ ~command.update
      /\ UNCHANGED <<upstream, raw, lock, shipping>>
  BY IsFetchCommand DEF OnlyVerify, Turn, fetching
<1>2. raw' \in Locks /\ command.ok \in BOOLEAN
  BY <1>1 DEF SInv, Typed, FetchCommand
<1>3. command' = [command EXCEPT !.todo = command.todo \ {k}, !.at = k, !.ok = command.ok]
  BY <1>1 DEF OnlyVerify, ToVerify, FetchCommand
<1> QED
  BY <1>1, <1>2, <1>3, TurnMoves

(* Trust on first use is trust in what was downloaded to the end.             *)
LEMMA VerifyTreeKeeps == ASSUME SInv, VerifyTree PROVE SInv'
<1> DEFINE at == command.at
           tree == raw[at]
           first == command.lock[at] = None
           held == IF first /\ command.update THEN tree ELSE command.lock[at]
           ok == /\ command.ok /\ tree # None
                 /\ IF first THEN command.update ELSE tree = command.lock[at]
<1>1. /\ command \in FetchCommand /\ command.kind = "fetch" /\ at \in Keys
      /\ UNCHANGED <<upstream, raw, lock, prepared, manifest, disk>>
  BY IsFetchCommand DEF VerifyTree, Fetching, FetchCommand, fetching, shipping
<1>2. held \in Trees \cup {None} /\ ok \in BOOLEAN
  BY <1>1 DEF SInv, Typed, Locks, FetchCommand
<1>3. command' = [command EXCEPT !.at = None, !.lock = [command.lock EXCEPT ![at] = held],
                                 !.ok = ok]
  BY <1>1 DEF VerifyTree, FetchCommand
<1>4. at \in Hub /\ held # None => held.whole
  BY <1>1 DEF SInv, LockInv, Whole
<1> HIDE DEF held, ok
<1>5. /\ command' \in FetchCommand /\ command'.kind = "fetch" /\ command'.at = None
      /\ command'.lock = [command.lock EXCEPT ![at] = held]
  BY <1>1, <1>2, <1>3 DEF FetchCommand, Locks
<1>6. Typed'
  BY <1>1, <1>5 DEF SInv, Typed
<1>7. Whole(command.lock)'
  <2>1. Whole(command.lock) /\ Hub \subseteq Keys
    BY <1>1, StagingAssumption DEF SInv, LockInv, StagingAssumption
  <2>2. \A k \in Hub : command'.lock[k] = IF k = at THEN held ELSE command.lock[k]
    BY <1>1, <1>5, <2>1 DEF FetchCommand, Locks
  <2> QED
    BY <2>1, <2>2, <1>4 DEF Whole
<1>8. LockInv'
  BY <1>1, <1>5, <1>7, StagingAssumption DEF SInv, LockInv, StagingAssumption, Whole
<1>9. VerdictInv'
  BY <1>5 DEF VerdictInv
<1> QED
  BY <1>6, <1>8, <1>9 DEF SInv

(* Nothing is fetched any more; the lock is as before, or as in memory, or has *)
(* lost what it held of some.                                                *)
LEMMA FetchEnds ==
    ASSUME SInv, Fetching, command' \in IdleCommand, raw' \in Locks,
           UNCHANGED <<upstream, shipping>>, lock' \in Locks,
           \A k \in Keys : lock'[k] \in {None, lock[k], command.lock[k]}
    PROVE  SInv'
<1>1. command \in FetchCommand /\ command'.kind = "idle"
  BY IsFetchCommand DEF IdleCommand
<1>2. Whole(lock)'
  BY StagingAssumption DEF SInv, LockInv, Fetching, Whole, StagingAssumption
<1>3. Typed'
  BY DEF SInv, Typed, shipping
<1> QED
  BY <1>1, <1>2, <1>3 DEF SInv, LockInv, VerdictInv

LEMMA EndFetchKeeps == ASSUME SInv, EndFetch PROVE SInv'
<1>1. PICK passes \in BOOLEAN : command' = [kind |-> "idle", ok |-> command.ok /\ passes]
  BY DEF EndFetch, OfflineTest
<1>2. Fetching /\ command \in FetchCommand /\ UNCHANGED <<upstream, raw, shipping>>
  BY IsFetchCommand DEF EndFetch
<1>3. command' \in IdleCommand
  BY <1>1, <1>2 DEF IdleCommand, FetchCommand
<1>4. lock' \in {lock, command.lock}
  BY DEF EndFetch
<1>5. lock' \in Locks /\ \A k \in Keys : lock'[k] \in {None, lock[k], command.lock[k]}
  BY <1>2, <1>4 DEF SInv, Typed, FetchCommand
<1>6. raw' \in Locks
  BY <1>2 DEF SInv, Typed
<1> QED
  BY <1>2, <1>3, <1>5, <1>6, FetchEnds

LEMMA KillKeeps == ASSUME SInv, KillFetch PROVE SInv'
<1>1. Fetching /\ command \in FetchCommand /\ UNCHANGED <<upstream, shipping>>
  BY IsFetchCommand DEF KillFetch
<1>2. command' \in IdleCommand
  BY DEF KillFetch, IdleCommand
<1>3. raw' \in Locks
  <2>1. raw \in Locks /\ command.todo \subseteq Keys
    BY <1>1 DEF FetchCommand, SInv, Typed
  <2>2. raw' = raw \/ \E k \in Keys : raw' = [raw EXCEPT ![k] = Tree(k, FALSE)]
    BY <2>1 DEF KillFetch
  <2> QED
    BY <2>1, <2>2, TreeTyped
<1>4. lock' = lock \/ lock' = [k \in Keys |-> IF k \in command.own THEN None ELSE lock[k]]
  BY DEF KillFetch
<1>5. lock' \in Locks /\ \A k \in Keys : lock'[k] \in {None, lock[k], command.lock[k]}
  BY <1>4 DEF SInv, Typed, Locks
<1> QED
  BY <1>1, <1>2, <1>3, <1>5, FetchEnds

(* Between commands, and beside them.                                        *)
LEMMA OutsideKeeps ==
    ASSUME SInv, NEW k \in Keys, Extract(k) \/ Release(k) PROVE SInv'
<1>1. UNCHANGED <<lock, prepared, manifest, disk, command>>
  BY DEF Extract, Release, shipping
<1>2. raw' \in Locks /\ upstream' \in [Keys -> Nat] /\ \A j \in Hub : raw'[j] = raw[j]
  <2>1. CASE Extract(k)
    <3>1. k \notin Hub /\ upstream' = upstream
      BY <2>1 DEF Extract
    <3>2. PICK whole \in BOOLEAN : raw' = [raw EXCEPT ![k] = Tree(k, whole)]
      BY <2>1 DEF Extract
    <3>3. raw' \in Locks /\ \A j \in Keys \ {k} : raw'[j] = raw[j]
      BY <3>2, TreeTyped
    <3> QED
      BY <3>1, <3>3, StagingAssumption DEF SInv, Typed, StagingAssumption
  <2>2. CASE Release(k)
    <3>1. raw' = raw /\ upstream' = [upstream EXCEPT ![k] = 2]
      BY <2>2 DEF Release
    <3> QED
      BY <3>1 DEF SInv, Typed
  <2> QED
    BY <2>1, <2>2
<1>3. Typed'
  BY <1>1, <1>2 DEF SInv, Typed
<1>4. LockInv'
  BY <1>1, <1>2 DEF SInv, LockInv, Whole
<1>5. VerdictInv'
  BY <1>1 DEF SInv, VerdictInv, FoundIsSo
<1> QED
  BY <1>3, <1>4, <1>5 DEF SInv

(* An unreadable lock holds nothing to begin with.                            *)
LEMMA DiscardKeeps == ASSUME SInv, NEW own \in {Corpora, Models}, Discard(own) PROVE SInv'
BY DEF Discard, shipping, SInv, Typed, LockInv, Whole, VerdictInv, FoundIsSo

(* Only files made elsewhere differ.                                          *)
LEMMA PrepareKeeps ==
    ASSUME SInv, NEW d \in Corpora, NEW f \in Parts, Prepare(d, f) PROVE SInv'
<1>1. UNCHANGED <<upstream, raw, lock, manifest, disk, command>> /\ raw[d] \in Trees
  BY DEF Prepare, fetching, SInv, Typed, Locks, Keys
<1>2. PICK all \in BOOLEAN : prepared' = [prepared EXCEPT ![d][f] = Made(raw[d], all)]
  BY DEF Prepare
<1>3. Made(raw[d], all) \in [from : Trees \cup {None}, size : {"full", "short"}]
  <2>1. [raw[d] EXCEPT !.whole = all] \in Trees
    BY <1>1 DEF Trees
  <2> QED
    BY <2>1 DEF Made
<1>4. prepared' \in [Corpora -> Files]
  BY <1>2, <1>3 DEF SInv, Typed, Files
<1>5. Typed'
  BY <1>1, <1>4 DEF SInv, Typed
<1>6. LockInv' /\ VerdictInv'
  BY <1>1 DEF SInv, LockInv, Whole, VerdictInv, FoundIsSo
<1> QED
  BY <1>5, <1>6 DEF SInv

(* A manifest begins or ends no verification.                                 *)
LEMMA BuildKeeps ==
    ASSUME SInv, NEW keys \in SUBSET Corpora, NEW quick \in BOOLEAN, Build(keys, quick)
    PROVE  SInv'
<1>1. /\ UNCHANGED <<upstream, raw, lock, prepared, disk>>
      /\ command' \in IdleCommand /\ command'.kind = "idle"
  BY DEF Build, Command, NoCommand, IdleCommand, fetching
<1>2. \A d \in keys : [f \in Parts |-> Record(prepared[d][f], quick)] \in Files
  BY DEF SInv, Typed, Files, Record
<1> DEFINE listed == [d \in keys |-> [f \in Parts |-> Record(prepared[d][f], quick)]]
<1>3. listed \in Listings
  <2>1. listed \in [keys -> Files]
    BY <1>2
  <2> QED
    BY <2>1 DEF Listings
<1>4. manifest' = [quick |-> quick, files |-> listed]
  BY DEF Build
<1> HIDE DEF listed
<1>5. Typed'
  BY <1>1, <1>3, <1>4 DEF SInv, Typed
<1>6. LockInv' /\ VerdictInv'
  BY <1>1 DEF SInv, LockInv, Whole, VerdictInv
<1> QED
  BY <1>5, <1>6 DEF SInv

(* What is sent while a verification goes on, or after it, is told apart.     *)
LEMMA SendKeeps ==
    ASSUME SInv, NEW d \in Corpora, NEW f \in Parts, Send(d, f) PROVE SInv'
<1>1. UNCHANGED <<upstream, raw, lock, prepared, manifest>> /\ ~Fetching
  BY DEF Send, fetching
<1>2. PICK file \in {prepared[d][f], [prepared[d][f] EXCEPT !.from = None],
                     [from |-> None, size |-> "short"]} : disk' = [disk EXCEPT ![d][f] = file]
  BY DEF Send
<1>3. file \in [from : Trees \cup {None}, size : {"full", "short"}]
  BY <1>2 DEF Send, SInv, Typed, Files
<1>4. /\ disk' \in [Corpora -> Files]
      /\ \A c \in Corpora, g \in Parts : <<c, g>> # <<d, f>> => disk'[c][g] = disk[c][g]
  BY <1>2, <1>3 DEF SInv, Typed, Files
<1>5. CASE command.kind = "idle"
  <2>1. command' = command
    BY <1>5 DEF Send
  <2> QED
    BY <1>1, <1>4, <1>5, <2>1 DEF SInv, Typed, LockInv, Whole, VerdictInv
<1>6. CASE command.kind # "idle"
  <2>1. command \in VerifyCommand
    BY <1>1, <1>6 DEF SInv, Typed, IdleCommand, FetchCommand, Fetching
  <2>2. command' = [command EXCEPT !.touched = command.touched \cup {<<d, f>>}]
    BY <1>6, <2>1 DEF Send, VerifyCommand
  <2>3. /\ command' \in VerifyCommand /\ command'.kind = command.kind /\ command'.quick = command.quick
        /\ command'.files = command.files /\ command'.chosen = command.chosen
        /\ command'.todo = command.todo /\ command'.found = command.found
        /\ command'.touched = command.touched \cup {<<d, f>>}
    BY <2>1, <2>2 DEF VerifyCommand
  <2>4. Typed'
    BY <1>1, <1>4, <2>3 DEF SInv, Typed
  <2>5. LockInv'
    BY <1>1, <2>1, <2>3 DEF SInv, LockInv, Whole, VerifyCommand
  <2>6. FoundIsSo => FoundIsSo'
    <3> SUFFICES ASSUME FoundIsSo, NEW c \in command.chosen, NEW g \in Listed(command.files, c),
                        <<c, g>> \notin command.todo \cup command'.touched
                 PROVE  <<c, g>> \in command.found <=> disk'[c][g] = command.files[c][g]
      BY <2>3 DEF FoundIsSo
    <3>1. c \in Corpora /\ g \in Parts /\ <<c, g>> # <<d, f>>
      BY <2>1, <2>3 DEF Listed, VerifyCommand
    <3> QED
      BY <1>4, <2>3, <3>1 DEF FoundIsSo
  <2>7. VerdictInv'
    BY <2>3, <2>6 DEF SInv, VerdictInv
  <2> QED
    BY <2>4, <2>5, <2>7 DEF SInv
<1> QED
  BY <1>5, <1>6

LEMMA StartVerifyKeeps ==
    ASSUME SInv, NEW only \in SUBSET Corpora, NEW quick \in BOOLEAN, StartVerify(only, quick)
    PROVE  SInv'
<1>1. UNCHANGED <<upstream, raw, lock, prepared, manifest, disk>>
  BY DEF StartVerify, fetching, shipping
<1>2. manifest.files \in Listings /\ DOMAIN manifest.files \subseteq Corpora
  BY DEF StartVerify, SInv, Typed, Listings
<1> DEFINE chosen == IF only = {} THEN DOMAIN manifest.files ELSE only
           todo == UNION {{d} \X Listed(manifest.files, d) : d \in chosen}
           kind == IF todo = {} THEN "verified" ELSE "verify"
<1>3. chosen \subseteq Corpora
  BY <1>2
<1>4. todo \subseteq Corpora \X Parts
  <2>1. \A d : Listed(manifest.files, d) \subseteq Parts
    BY DEF Listed
  <2> HIDE DEF chosen
  <2> QED
    BY <1>3, <2>1
<1>5. \A d \in chosen : \A f \in Listed(manifest.files, d) : <<d, f>> \in todo
  BY DEF Listed
<1>6. kind \in {"verify", "verified"} /\ (kind = "verified" => todo = {})
  OBVIOUS
<1>7. command' = [kind |-> kind, quick |-> quick, files |-> manifest.files, chosen |-> chosen,
                  todo |-> todo, found |-> {}, touched |-> {}]
  BY DEF StartVerify, Command
<1> HIDE DEF chosen, todo, kind
<1>8. command' \in VerifyCommand
  BY <1>2, <1>3, <1>4, <1>6, <1>7 DEF VerifyCommand
<1>9. Typed'
  BY <1>1, <1>8 DEF SInv, Typed
<1>10. LockInv'
  BY <1>1, <1>6, <1>7 DEF SInv, LockInv, Whole
<1>11. VerdictInv'
  BY <1>5, <1>6, <1>7 DEF VerdictInv, FoundIsSo
<1> QED
  BY <1>9, <1>10, <1>11 DEF SInv

(* With digests a file is as recorded exactly when it is what was recorded.   *)
LEMMA RecordedIsSame ==
    ASSUME SInv, command \in VerifyCommand, ~command.quick, NEW d \in Corpora,
           NEW f \in Listed(command.files, d)
    PROVE  AsRecorded(disk[d][f], command.files[d][f], command.quick)
             <=> disk[d][f] = command.files[d][f]
<1>1. f \in Parts /\ d \in DOMAIN command.files /\ command.files[d][f] # None
  BY DEF Listed
<1>2. disk[d] \in Files /\ command.files[d] \in Files
  BY <1>1 DEF SInv, Typed, VerifyCommand, Listings
<1>3. command.quick = FALSE
  BY DEF VerifyCommand
<1> QED
  BY <1>1, <1>2, <1>3 DEF AsRecorded, Files

LEMMA VerifyFileKeeps ==
    ASSUME SInv, NEW d \in Corpora, NEW f \in Parts, VerifyFile(d, f) PROVE SInv'
<1> DEFINE recorded == AsRecorded(disk[d][f], command.files[d][f], command.quick)
           found == IF recorded THEN command.found \cup {<<d, f>>} ELSE command.found
           kind == IF command.todo = {<<d, f>>} THEN "verified" ELSE "verify"
<1>1. /\ command \in VerifyCommand /\ command.kind = "verify" /\ <<d, f>> \in command.todo
      /\ UNCHANGED <<upstream, raw, lock, prepared, manifest, disk>>
  BY DEF VerifyFile, SInv, Typed, IdleCommand, FetchCommand, fetching, shipping
<1>2. command' = [command EXCEPT !.todo = command.todo \ {<<d, f>>},
                  !.touched = command.touched \ {<<d, f>>}, !.found = found, !.kind = kind]
  BY <1>1 DEF VerifyFile, VerifyCommand
<1>3. found \subseteq Corpora \X Parts
  BY <1>1 DEF VerifyCommand
<1>4. kind \in {"verify", "verified"} /\ (kind = "verified" => command.todo \ {<<d, f>>} = {})
  OBVIOUS
<1> HIDE DEF kind
<1>5. /\ command'.kind = kind /\ command'.quick = command.quick
      /\ command'.files = command.files /\ command'.chosen = command.chosen
      /\ command'.todo = command.todo \ {<<d, f>>} /\ command'.found = found
      /\ command'.touched = command.touched \ {<<d, f>>}
  BY <1>1, <1>2 DEF VerifyCommand
<1>6. command' \in VerifyCommand
  <2> HIDE DEF found
  <2> QED
    BY <1>1, <1>2, <1>3, <1>4 DEF VerifyCommand
<1>7. Typed'
  BY <1>1, <1>6 DEF SInv, Typed
<1>8. LockInv'
  BY <1>1, <1>4, <1>5 DEF SInv, LockInv, Whole
<1>9. ~command.quick => FoundIsSo'
  <2> SUFFICES ASSUME ~command.quick, NEW c \in command.chosen, NEW g \in Listed(command.files, c),
                      <<c, g>> \notin command'.todo \cup command'.touched
               PROVE  <<c, g>> \in found <=> disk[c][g] = command.files[c][g]
    BY <1>1, <1>5 DEF FoundIsSo
  <2>1. c \in Corpora
    BY <1>1 DEF VerifyCommand
  <2>2. CASE <<c, g>> = <<d, f>>
    <3>1. c = d /\ g = f
      BY <2>2
    <3>2. recorded <=> disk[d][f] = command.files[d][f]
      BY <1>1, <2>1, <3>1, RecordedIsSame
    <3>3. <<d, f>> \notin command.found
      BY <1>1 DEF SInv, VerdictInv
    <3>4. <<d, f>> \in found <=> disk[d][f] = command.files[d][f]
      BY <3>2, <3>3
    <3> HIDE DEF found
    <3> QED
      BY <3>1, <3>4
  <2>3. CASE <<c, g>> # <<d, f>>
    <3>1. <<c, g>> \notin command.todo \cup command.touched
      BY <1>5, <2>3
    <3>2. <<c, g>> \in found <=> <<c, g>> \in command.found
      BY <2>3
    <3>3. FoundIsSo
      BY <1>1 DEF SInv, VerdictInv
    <3> QED
      BY <3>1, <3>2, <3>3 DEF FoundIsSo
  <2> QED
    BY <2>2, <2>3
<1>10. found \cap (command.todo \ {<<d, f>>}) = {}
  BY <1>1 DEF SInv, VerdictInv
<1>11. VerdictInv'
  <2> HIDE DEF found
  <2> QED
    BY <1>4, <1>5, <1>9, <1>10 DEF VerdictInv
<1> QED
  BY <1>7, <1>8, <1>11 DEF SInv

-----------------------------------------------------------------------------
LEMMA DataKeeps == SInv /\ [DataNext]_dataVars => SInv'
<1> SUFFICES ASSUME SInv, [DataNext]_dataVars PROVE SInv'
  OBVIOUS
<1>1. CASE UNCHANGED dataVars
  BY <1>1 DEF dataVars, fetching, shipping, SInv, Typed, LockInv, Whole, VerdictInv, FoundIsSo
<1>2. CASE FetchDatasets \/ FetchModels
  BY <1>2, FetchStarts DEF FetchDatasets, FetchModels, Keys
<1>3. CASE \E k \in Keys : Download(k) \/ ByHand(k) \/ OnlyVerify(k) \/ Release(k)
  BY <1>3, DownloadKeeps, ByHandKeeps, OnlyVerifyKeeps, OutsideKeeps
<1>4. CASE VerifyTree \/ EndFetch \/ KillFetch
  BY <1>4, VerifyTreeKeeps, EndFetchKeeps, KillKeeps
<1>5. CASE \E k \in Corpora : Extract(k)
  BY <1>5, OutsideKeeps DEF Keys
<1>6. CASE \E d \in Corpora, f \in Parts : Prepare(d, f) \/ Send(d, f) \/ VerifyFile(d, f)
  BY <1>6, PrepareKeeps, SendKeeps, VerifyFileKeeps
<1>7. CASE \E keys \in SUBSET Corpora \ {{}}, quick \in BOOLEAN : Build(keys, quick)
  BY <1>7, BuildKeeps
<1>8. CASE \E only \in SUBSET Corpora, quick \in BOOLEAN : StartVerify(only, quick)
  BY <1>8, StartVerifyKeeps
<1>9. CASE \E own \in {Corpora, Models} : Discard(own)
  BY <1>9, DiscardKeeps
<1> QED
  BY <1>1, <1>2, <1>3, <1>4, <1>5, <1>6, <1>7, <1>8, <1>9 DEF DataNext

(* Types, whole trees in the locks, and verdicts that are of the files.       *)
THEOREM DataInvariance == DataSpec => []SInv
BY DataStarts, DataKeeps, PTL DEF DataSpec

(* Nothing partial is trusted on first use, whatever is killed, fails, is      *)
(* unpacked by hand or comes out while a fetch goes on (fetch_datasets.py:337, *)
(* fetch_models.py:287).                                                     *)
THEOREM LocksAreWhole == DataSpec => []LockedIsWhole
<1>1. SInv => LockedIsWhole
  BY DEF SInv, LockInv, Whole, LockedIsWhole
<1> QED
  BY <1>1, DataInvariance, PTL

LEMMA InvTells == SInv => VerdictsTell
<1> SUFFICES ASSUME SInv, command.kind = "verified", ~command.quick PROVE VerdictsTell
  BY DEF VerdictsTell
<1> DEFINE Same(d, f) == disk[d][f] = command.files[d][f]
<1>1. \A d \in command.chosen : \A f \in Listed(command.files, d) :
        <<d, f>> \in command.touched \/ (<<d, f>> \in command.found <=> Same(d, f))
  BY DEF SInv, VerdictInv, FoundIsSo
<1>2. command.chosen \subseteq Corpora /\ None \notin BOOLEAN
  BY StagingAssumption DEF SInv, Typed, IdleCommand, FetchCommand, VerifyCommand, StagingAssumption
<1>3. \A d \in Corpora : Verdicts[d] = Verdict(d) /\ Verdict(d) \in BOOLEAN \cup {None}
  BY DEF Verdicts, Verdict
<1>4. ASSUME NEW r \in RunsUnblocked(Verdicts).ready, NEW d \in Corpora, r \in RequiredBy[d]
      PROVE  /\ Listed(command.files, d) # {}
             /\ \A f \in Listed(command.files, d) : Same(d, f) \/ <<d, f>> \in command.touched
  <2>1. Verdicts[d] # FALSE /\ Verdicts[d] # None
    BY <1>4 DEF RunsUnblocked
  <2>2. Verdict(d) = TRUE
    BY <1>3, <2>1
  <2>3. d \in command.chosen
    BY <1>2, <2>2 DEF Verdict
  <2>4. /\ Listed(command.files, d) # {}
        /\ \A f \in Listed(command.files, d) : <<d, f>> \in command.found
    BY <2>2, <2>3 DEF Verdict
  <2> QED
    BY <1>1, <2>3, <2>4
<1>5. ASSUME NEW r \in RunsUnblocked(Verdicts).blocked
      PROVE  \E d \in command.chosen :
               /\ r \in RequiredBy[d]
               /\ \/ Listed(command.files, d) = {}
                  \/ \E f \in Listed(command.files, d) : ~Same(d, f) \/ <<d, f>> \in command.touched
  <2>1. PICK d \in Corpora : r \in RequiredBy[d] /\ Verdicts[d] = FALSE
    BY <1>5 DEF RunsUnblocked
  <2>2. Verdict(d) = FALSE
    BY <1>3, <2>1
  <2>3. d \in command.chosen
    BY <1>2, <2>2 DEF Verdict
  <2>4. ~(/\ Listed(command.files, d) # {}
          /\ \A f \in Listed(command.files, d) : <<d, f>> \in command.found)
    BY <2>2, <2>3 DEF Verdict
  <2> QED
    BY <1>1, <2>1, <2>3, <2>4
<1> QED
  BY <1>4, <1>5 DEF VerdictsTell

(* A run called ready finds its data as the manifest recorded it, and a run   *)
(* called blocked has a checked dataset that is not so, unless a file was     *)
(* sent in the meantime (stage_data.py:327).                                 *)
THEOREM VerdictsAreSo == DataSpec => []VerdictsTell
BY InvTells, DataInvariance, PTL
=============================================================================
