---------------------------- MODULE RetrainProofs ---------------------------
(***************************************************************************)
(* For every number of containers and reruns, and every length of a setup,  *)
(* a preparation and a push that the table of limits leaves room for:       *)
(* nothing of a smoke pass is taken for a real one, a finished manifest is   *)
(* that of the weights beside it, a job's exit code tells which it pushed,   *)
(* and no container is cut off by its platform.                             *)
(***************************************************************************)
EXTENDS Retrain, TLAPS

Open == Working \cup {"check", "packaged"}     \* a call of the driver is under way

USE DEF Goto

(* A job that pushes has an attempt left.                                    *)
Trying == pc = "push" => tries \in 1..Attempts

-----------------------------------------------------------------------------
(* Types.                                                                    *)
LEMMA NothingTyped ==
    ASSUME RetrainAssumption
    PROVE  NoWeights \in Weights /\ NoOutput \in Output
BY DEF RetrainAssumption, NoWeights, NoOutput, Weights, Output

LEMMA TrainedTyped ==
    ASSUME TypeOK, NEW b \in BOOLEAN
    PROVE  Trained(b) \in Weights
BY DEF TypeOK, Trained, Weights, Dir

LEMMA OverlayTyped ==
    ASSUME NEW o \in Output, NEW r \in Output
    PROVE  Overlay(o, r) \in Output
BY DEF Overlay, Output

LEMMA InitTyped == ASSUME RetrainAssumption, Init PROVE TypeOK
<1>1. ckpt \in [BOOLEAN -> [w : Weights, record : {"none", "finite", "bad"}]]
  BY NothingTyped DEF Init, NoWork
<1>2. out \in [BOOLEAN -> Output] /\ repo \in [BOOLEAN -> Output] /\ here \in Weights
  BY NothingTyped DEF Init
<1>3. /\ model \in Models /\ place \in Places /\ job \in 0..MaxJobs /\ reruns \in 0..MaxReruns
      /\ tries \in 0..Attempts /\ clock \in Nat /\ since \in Nat
  BY DEF Init, RetrainAssumption, Attempts
<1>4. /\ smoke \in BOOLEAN /\ stopped \in BOOLEAN /\ pushed \in BOOLEAN
      /\ call \in {"train", "score"} /\ pc = "idle" /\ code \in {0, 1, 124}
  BY DEF Init
<1> QED
  BY <1>1, <1>2, <1>3, <1>4 DEF TypeOK

LEMMA StepTyped == ASSUME RetrainAssumption, TypeOK, Trying, [Next]_vars PROVE TypeOK'
<1> USE DEF Working, Budgeted, Attempts
<1>0. /\ job \in 0..MaxJobs /\ clock \in Nat /\ smoke \in BOOLEAN /\ Dir \in BOOLEAN
      /\ MaxJobs \in Nat /\ MaxReruns \in Nat
  BY DEF TypeOK, Dir, RetrainAssumption
<1>a. ASSUME NEW s \in BOOLEAN, NEW f \in {"none", "running", "failed", "stopped", "complete"}
      PROVE  [out EXCEPT ![s].status = f] \in [BOOLEAN -> Output]
  <2>1. out[s] \in Output
    BY DEF TypeOK
  <2>2. [out[s] EXCEPT !.status = f] \in Output
    BY <2>1 DEF Output
  <2> QED
    BY <2>1, <2>2 DEF TypeOK
<1>b. ASSUME NEW f \in {"failed", "stopped", "complete"}, NEW c \in {0, 1}, Return(f, c)
      PROVE  /\ out' \in [BOOLEAN -> Output] /\ code' \in {0, 1, 124}
             /\ pc' = "returned"
  BY <1>0, <1>a, <1>b DEF Return, TypeOK
<1>c. ASSUME NEW what \in {"train", "score"}, NEW s \in BOOLEAN, Call(what, s)
      PROVE  /\ call' = what /\ smoke' = s /\ since' \in Nat /\ stopped' = FALSE
             /\ pc' = "prepare" /\ out' \in [BOOLEAN -> Output]
  <2>1. out[s] \in Output /\ out \in [BOOLEAN -> Output]
    BY DEF TypeOK
  <2>2. [out[s] EXCEPT !.job = job, !.status = "running"] \in Output
    BY <2>1, <1>0 DEF Output
  <2>3. out' \in [BOOLEAN -> Output]
    BY <2>1, <2>2, <1>c DEF Call
  <2> QED
    BY <2>3, <1>0, <1>c DEF Call
<1>d. ASSUME NEW x \in Weights
      PROVE  [ckpt EXCEPT ![Dir].w = x]
               \in [BOOLEAN -> [w : Weights, record : {"none", "finite", "bad"}]]
  BY <1>d, <1>0 DEF TypeOK
<1>e. ASSUME NEW x \in {"finite", "bad"}
      PROVE  [ckpt EXCEPT ![Dir].record = x]
               \in [BOOLEAN -> [w : Weights, record : {"none", "finite", "bad"}]]
  BY <1>e, <1>0 DEF TypeOK
<1>1. CASE Rent
  <2>1. job' \in 0..MaxJobs
    BY <1>0, <1>1 DEF Rent
  <2>2. /\ ckpt' \in [BOOLEAN -> [w : Weights, record : {"none", "finite", "bad"}]]
        /\ out' \in [BOOLEAN -> Output]
    BY <1>1, NothingTyped DEF Rent, NoWork
  <2>3. /\ stopped' = FALSE /\ pushed' = FALSE /\ tries' = 0 /\ code' = 0
        /\ clock' = 0 /\ since' = 0 /\ call' = "train" /\ pc' = "setup"
    BY <1>1, Zenon DEF Rent
  <2>5. smoke' \in BOOLEAN
    BY <1>1, Zenon DEF Rent
  <2>4. /\ model' \in Models /\ place' \in Places /\ reruns' \in 0..MaxReruns
        /\ repo' \in [BOOLEAN -> Output] /\ here' \in Weights
    BY <1>1 DEF Rent, results, TypeOK
  <2>6. /\ tries' \in 0..Attempts /\ code' \in {0, 1, 124} /\ clock' \in Nat /\ since' \in Nat
        /\ call' \in {"train", "score"}
        /\ pc' \in Working \cup {"idle", "setup", "check", "packaged", "returned", "push",
                                "done", "lost"}
    BY <2>3
  <2>7. stopped' \in BOOLEAN /\ pushed' \in BOOLEAN
    BY <2>3, Zenon
  <2> HIDE DEF Working, Attempts
  <2> QED
    BY <2>1, <2>2, <2>4, <2>5, <2>6, <2>7 DEF TypeOK
<1>2. CASE SetUp
  BY <1>0, <1>2, <1>c DEF SetUp, TypeOK, results
<1>3. CASE SetUpFails
  BY <1>3 DEF SetUpFails, TypeOK, box, work, results
<1>4. CASE Prepared
  BY <1>4 DEF Prepared, TypeOK, box, work, results
<1>5. CASE StepFails
  BY <1>5, <1>b DEF StepFails, TypeOK, box, results
<1>6. CASE SaveBest
  BY <1>6, <1>d, TrainedTyped DEF SaveBest, TypeOK, box, results
<1>7. CASE BestSaved
  BY <1>7, <1>d, TrainedTyped DEF BestSaved, TypeOK, box, results
<1>8. CASE Recorded
  BY <1>8, <1>e DEF Recorded, TypeOK, box, results
<1>9. CASE BadValidation
  BY <1>9, <1>e DEF BadValidation, TypeOK, box, results
<1>10. CASE SaveHead
  BY <1>10, <1>d, TrainedTyped DEF SaveHead, TypeOK, box, results
<1>11. CASE TrainingEnds
  BY <1>11, <1>e DEF TrainingEnds, TypeOK, box, results
<1>12. CASE ScoringEnds
  <2>1. out' \in [BOOLEAN -> Output]
    <3>1. /\ out \in [BOOLEAN -> Output] /\ out[smoke] \in Output
          /\ out[smoke].w \in Weights /\ out[smoke].score \in Weights
      BY <1>0 DEF TypeOK, Output
    <3>2. \A x \in Weights : [out[smoke] EXCEPT !.score = x] \in Output
      BY <3>1 DEF Output
    <3>3. PICK x \in Weights : out' = [out EXCEPT ![smoke].score = x]
      BY <3>1, <1>12 DEF ScoringEnds
    <3> QED
      BY <3>1, <3>2, <3>3, <1>0
  <2> QED
    BY <1>12, <2>1 DEF ScoringEnds, TypeOK, box, results
<1>13. CASE BudgetStops
  BY <1>13 DEF BudgetStops, TypeOK, box, work, results
<1>14. CASE NotPackaged
  BY <1>14, <1>b DEF NotPackaged, TypeOK, box, results
<1>15. CASE Package
  <2>1. out' \in [BOOLEAN -> Output]
    <3>1. out \in [BOOLEAN -> Output] /\ out[smoke] \in Output /\ ckpt[Dir].w \in Weights
      BY <1>0 DEF TypeOK
    <3>2. [out[smoke] EXCEPT !.w = ckpt[Dir].w] \in Output
      BY <3>1 DEF Output
    <3> QED
      BY <3>1, <3>2, <1>0, <1>15 DEF Package
  <2> QED
    BY <1>15, <2>1 DEF Package, TypeOK, box, results
<1>16. CASE DriverEnds
  BY <1>16, <1>b DEF DriverEnds, TypeOK, box, results
<1>17. CASE HardLimit
  BY <1>17 DEF HardLimit, TypeOK, box, work, results
<1>18. CASE Score
  BY <1>0, <1>18, <1>c DEF Score, TypeOK, results
<1>19. CASE RealPass
  BY <1>0, <1>19, <1>c DEF RealPass, TypeOK, results
<1>20. CASE Rerun
  <2>1. reruns' \in 0..MaxReruns
    BY <1>0, <1>20 DEF Rerun, TypeOK
  <2> QED
    BY <2>1, <1>0, <1>20, <1>c DEF Rerun, TypeOK, results
<1>21. CASE StartPush
  BY <1>21 DEF StartPush, TypeOK, box, work, results
<1>22. CASE Push
  <2>1. repo' \in [BOOLEAN -> Output]
    BY <1>22, OverlayTyped DEF Push, TypeOK
  <2> QED
    BY <1>22, <2>1 DEF Push, TypeOK, box, work
<1>23. CASE PushFails
  <2>1. tries' \in 0..Attempts /\ since' \in Nat
    BY <1>23 DEF PushFails, TypeOK, Trying
  <2> QED
    BY <2>1, <1>23 DEF PushFails, TypeOK, box, work, results
<1>24. CASE NotebookEnds
  BY <1>24 DEF NotebookEnds, TypeOK, box, work, results
<1>25. CASE Lose
  <2>1. /\ ckpt' \in [BOOLEAN -> [w : Weights, record : {"none", "finite", "bad"}]]
        /\ out' \in [BOOLEAN -> Output]
    BY <1>25, NothingTyped DEF Lose, NoWork
  <2> QED
    BY <1>25, <2>1 DEF Lose, TypeOK, box, results
<1>26. CASE InstallFromHub \/ InstallOutput
  <2>1. PICK s \in BOOLEAN, o \in Output : Install(s, o)
    BY <1>26 DEF InstallFromHub, InstallOutput, TypeOK
  <2>2. here' \in Weights
    BY <2>1 DEF Install, Output
  <2> QED
    BY <2>1, <2>2 DEF Install, TypeOK, box, work
<1>27. CASE Tick
  BY <1>27 DEF Tick, TypeOK, box, work, results
<1>28. CASE UNCHANGED vars
  BY <1>28 DEF vars, TypeOK
<1> QED
  BY <1>1, <1>2, <1>3, <1>4, <1>5, <1>6, <1>7, <1>8, <1>9, <1>10, <1>11, <1>12, <1>13,
     <1>14, <1>15, <1>16, <1>17, <1>18, <1>19, <1>20, <1>21, <1>22, <1>23, <1>24, <1>25,
     <1>26, <1>27, <1>28 DEF Next, Driver

LEMMA StepTrying == ASSUME RetrainAssumption, TypeOK, Trying, [Next]_vars PROVE Trying'
<1> USE DEF Attempts
<1>1. tries \in 0..3
  BY DEF TypeOK
<1>2. CASE StartPush
  BY <1>2 DEF StartPush, Trying
<1>3. CASE PushFails
  BY <1>1, <1>3 DEF PushFails, Trying
<1>4. CASE Tick
  BY <1>4 DEF Tick, Trying
<1>5. CASE (InstallFromHub \/ InstallOutput) \/ UNCHANGED vars
  BY <1>5 DEF InstallFromHub, InstallOutput, Install, Trying, vars
<1>6. CASE Rent \/ SetUp \/ SetUpFails \/ Score \/ RealPass \/ Rerun \/ Push \/ NotebookEnds \/ Lose
  BY <1>6 DEF Rent, SetUp, SetUpFails, Score, RealPass, Rerun, Push, NotebookEnds, Lose, Call, Trying
<1>7. CASE Driver
  <2>1. pc # "push" /\ pc' # "push"
    BY <1>7, TypeOK DEF Driver, Prepared, StepFails, SaveBest, BestSaved, Recorded, BadValidation, SaveHead,
         TrainingEnds, ScoringEnds, BudgetStops, NotPackaged, Package, DriverEnds, HardLimit,
         Return, Working, Budgeted, TypeOK
  <2> QED
    BY <2>1 DEF Trying
<1> QED
  BY <1>2, <1>3, <1>4, <1>5, <1>6, <1>7 DEF Next

Typed == TypeOK /\ Trying

LEMMA AlwaysTyped == Spec => []Typed
<1>1. Init => Typed
  BY InitTyped, RetrainAssumption DEF Init, Typed, Trying
<1>2. Typed /\ [Next]_vars => Typed'
  BY StepTyped, StepTrying, RetrainAssumption DEF Typed
<1> QED
  BY <1>1, <1>2, PTL DEF Spec

(* Every variable keeps its type.                                            *)
THEOREM TypeCorrect == Spec => []TypeOK
<1>1. Typed => TypeOK
  BY DEF Typed
<1> QED
  BY <1>1, AlwaysTyped, PTL

-----------------------------------------------------------------------------
(* Smoke passes stay apart.                                                  *)

SmokeInv == NoSmokeWeights /\ ~ckpt[FALSE].w.smoke

LEMMA StepSmoke ==
    ASSUME RetrainAssumption, TypeOK, SmokeInv, [Next]_vars
    PROVE  SmokeInv'
<1> USE DEF SmokeInv, NoSmokeWeights
<1>0. /\ smoke \in BOOLEAN /\ ckpt \in [BOOLEAN -> [w : Weights, record : {"none", "finite", "bad"}]]
      /\ out \in [BOOLEAN -> Output] /\ repo \in [BOOLEAN -> Output]
  BY DEF TypeOK
<1>a. ASSUME NEW b \in BOOLEAN,
             ckpt' = [ckpt EXCEPT ![Dir].w = Trained(b)], UNCHANGED <<out, repo, here>>
      PROVE  SmokeInv'
  BY <1>a, <1>0 DEF Dir, Trained
<1>b. ASSUME NEW f, NEW c, Return(f, c), UNCHANGED <<ckpt, repo, here>>
      PROVE  SmokeInv'
  BY <1>b, <1>0 DEF Return, Output
<1>c. ASSUME NEW what, NEW s \in BOOLEAN, Call(what, s), UNCHANGED <<ckpt, repo, here>>
      PROVE  SmokeInv'
  BY <1>c, <1>0 DEF Call, Output
<1>1. CASE Rent
  BY <1>1 DEF Rent, results, NoWork, NoOutput, NoWeights
<1>2. CASE SetUp \/ Score
  BY <1>2, <1>0, <1>c DEF SetUp, Score, results
<1>3. CASE RealPass \/ Rerun
  BY <1>3, <1>c DEF RealPass, Rerun, results
<1>4. CASE StepFails \/ NotPackaged \/ DriverEnds
  BY <1>4, <1>b DEF StepFails, NotPackaged, DriverEnds, results
<1>5. CASE SaveBest \/ BestSaved
  BY <1>5, <1>a DEF SaveBest, BestSaved, results
<1>6. CASE SaveHead
  BY <1>6, <1>a DEF SaveHead, results
<1>7. CASE Recorded \/ BadValidation \/ TrainingEnds
  <2>1. ASSUME NEW x, ckpt' = [ckpt EXCEPT ![Dir].record = x]
        PROVE  ckpt'[FALSE].w = ckpt[FALSE].w
    BY <1>0, <2>1
  <2>2. ckpt'[FALSE].w = ckpt[FALSE].w
    BY <1>7, <2>1 DEF Recorded, BadValidation, TrainingEnds
  <2> QED
    BY <1>7, <2>2 DEF Recorded, BadValidation, TrainingEnds, results
<1>8. CASE ScoringEnds
  BY <1>8, <1>0 DEF ScoringEnds, results, Output
<1>9. CASE Package
  BY <1>9, <1>0 DEF Package, results, Output, Dir
<1>10. CASE Push
  BY <1>10, <1>0 DEF Push, Overlay, work, Output
<1>11. CASE Lose
  BY <1>11 DEF Lose, results, NoWork, NoOutput, NoWeights
<1>12. CASE InstallFromHub
  <2>1. PICK s \in BOOLEAN : Install(s, repo[s])
    BY <1>12 DEF InstallFromHub
  <2> QED
    BY <2>1 DEF Install, work
<1>13. CASE InstallOutput
  <2>1. PICK s \in BOOLEAN : Install(s, out[s])
    BY <1>13 DEF InstallOutput
  <2> QED
    BY <2>1 DEF Install, work
<1>14. CASE SetUpFails \/ Prepared \/ BudgetStops \/ HardLimit \/ StartPush \/ PushFails
            \/ NotebookEnds \/ Tick \/ UNCHANGED vars
  BY <1>14 DEF SetUpFails, Prepared, BudgetStops, HardLimit, StartPush, PushFails,
     NotebookEnds, Tick, vars, work, results
<1> QED
  BY <1>1, <1>2, <1>3, <1>4, <1>5, <1>6, <1>7, <1>8, <1>9, <1>10, <1>11, <1>12, <1>13, <1>14
     DEF Next, Driver

(* Nothing a smoke pass has trained is ever packaged or pushed as a real       *)
(* run's, nor installed.                                                       *)
THEOREM SmokeStaysApart == Spec => []NoSmokeWeights
<1>1. Init => SmokeInv
  BY DEF Init, SmokeInv, NoSmokeWeights, NoWork, NoOutput, NoWeights
<1>2. Typed /\ SmokeInv /\ [Next]_vars => SmokeInv'
  BY StepSmoke, RetrainAssumption DEF Typed
<1>3. SmokeInv => NoSmokeWeights
  BY DEF SmokeInv
<1> QED
  BY <1>1, <1>2, <1>3, AlwaysTyped, PTL DEF Spec

-----------------------------------------------------------------------------
(* A finished manifest is that of the weights beside it, and the exit code     *)
(* says which manifest a job has pushed.                                       *)

(* The checkpoint directories hold what this container has trained.          *)
OwnWork ==
    /\ pc # "idle" => job >= 1
    /\ \A s \in BOOLEAN : ckpt[s].w = NoWeights \/ ckpt[s].w.job = job
    /\ \A s \in BOOLEAN : ckpt[s].record = "finite" => ckpt[s].w.job = job
    /\ pc = "saving" => ckpt[Dir].w.job = job

(* What the driver has written of its call so far.                           *)
OwnOutput ==
    /\ pc \in Open \cup {"returned", "push"} => out[smoke].job = job
    /\ pc \in Open /\ call = "train" => out[smoke].status = "running"
    /\ pc = "packaged" /\ call = "train" => out[smoke].w.job = job

(* The exit code, once there is one, agrees with the manifest.               *)
CodeTells ==
    /\ pc \in {"returned", "push"} \/ (pc \in Open /\ call = "score")
         => (code = 0 <=> Finished(out[smoke]))
    /\ pushed => pc = "done"

RecordInv == OwnWork /\ OwnOutput /\ RecordIsOfWeights

JobInv == CodeTells /\ ExitTells

LEMMA StepRecord ==
    ASSUME RetrainAssumption, TypeOK, RecordInv, [Next]_vars
    PROVE  RecordInv'
<1> USE DEF RecordInv, Dir
<1>0. /\ smoke \in BOOLEAN /\ ckpt \in [BOOLEAN -> [w : Weights, record : {"none", "finite", "bad"}]]
      /\ out \in [BOOLEAN -> Output] /\ repo \in [BOOLEAN -> Output]
      /\ job \in Nat /\ NoWeights.job = 0
  BY DEF TypeOK, NoWeights
<1>k. ASSUME UNCHANGED <<job, ckpt, smoke>>, pc # "idle", pc' = "saving" => pc = "saving"
      PROVE  OwnWork'
  BY <1>k DEF OwnWork
<1>o. ASSUME UNCHANGED <<job, out, smoke, call>>, pc' \in Open => pc \in Open,
             pc' \in {"returned", "push"} => pc \in Open \cup {"returned", "push"},
             pc' = "packaged" => pc = "packaged"
      PROVE  OwnOutput'
  BY <1>o DEF OwnOutput
<1>r. ASSUME UNCHANGED <<out, repo>> PROVE RecordIsOfWeights'
  BY <1>r DEF RecordIsOfWeights, Finished
<1>w. ASSUME NEW b \in BOOLEAN, pc # "idle", UNCHANGED <<job, smoke>>,
             ckpt' = [ckpt EXCEPT ![Dir].w = Trained(b)]
      PROVE  OwnWork'
  <2>1. ckpt'[Dir].w.job = job /\ job >= 1
    BY <1>0, <1>w DEF Trained, OwnWork
  <2>2. \A s \in BOOLEAN : s # Dir => ckpt'[s] = ckpt[s]
    BY <1>0, <1>w
  <2> QED
    BY <2>1, <2>2, <1>0, <1>w DEF OwnWork
<1>c. ASSUME NEW what \in {"train", "score"}, NEW s \in BOOLEAN, Call(what, s), UNCHANGED <<job, repo>>,
             what = "score" => s = smoke /\ out[smoke].job = job
      PROVE  OwnOutput' /\ RecordIsOfWeights'
  <2>1. CASE what = "score"
    BY <2>1, <1>0, <1>c DEF Call, OwnOutput, RecordIsOfWeights, Finished, Open, Working, Budgeted
  <2>2. CASE what = "train"
    <3>1. out'[s].job = job /\ out'[s].status = "running"
      BY <2>2, <1>0, <1>c DEF Call, Output
    <3>2. \A x \in BOOLEAN : x # s => out'[x] = out[x]
      BY <2>2, <1>0, <1>c DEF Call
    <3> QED
      BY <3>1, <3>2, <2>2, <1>0, <1>c DEF Call, OwnOutput, RecordIsOfWeights, Finished
  <2> QED
    BY <2>1, <2>2
<1>d. ASSUME NEW f, NEW c, pc \in Open, Return(f, c), UNCHANGED <<job, repo, smoke, call>>,
             f \in {"stopped", "complete"} => pc = "packaged"
      PROVE  OwnOutput' /\ RecordIsOfWeights'
  <2>0. pc' = "returned" /\ out[smoke].job = job
    BY <1>d DEF Return, OwnOutput
  <2>1. CASE call = "score"
    BY <2>0, <2>1, <1>d DEF Return, OwnOutput, RecordIsOfWeights, Finished, Open, Working, Budgeted
  <2>2. CASE call # "score"
    <3>1. /\ out'[smoke].job = job /\ out'[smoke].status = f /\ out'[smoke].w = out[smoke].w
          /\ \A x \in BOOLEAN : x # smoke => out'[x] = out[x]
      BY <2>0, <2>2, <1>0, <1>d DEF Return, Output
    <3>2. f \in {"stopped", "complete"} => out[smoke].w.job = job
      BY <2>2, <1>d DEF OwnOutput, TypeOK
    <3>3. OwnOutput'
      BY <2>0, <3>1, <1>d DEF OwnOutput, Open, Working, Budgeted
    <3>4. RecordIsOfWeights'
      BY <3>1, <3>2, <1>d DEF RecordIsOfWeights, Finished
    <3> QED
      BY <3>3, <3>4
  <2> QED
    BY <2>1, <2>2
<1>1. CASE Rent
  <2>1. OwnWork'
    BY <1>0, <1>1 DEF Rent, OwnWork, NoWork
  <2>2. OwnOutput'
    BY <1>1 DEF Rent, OwnOutput, Open, Working, Budgeted
  <2>3. RecordIsOfWeights'
    BY <1>1 DEF Rent, RecordIsOfWeights, results, Finished, NoOutput
  <2> QED
    BY <2>1, <2>2, <2>3
<1>2. CASE SetUp \/ Score \/ RealPass \/ Rerun
  <2>1. OwnWork'
    BY <1>2 DEF SetUp, Score, RealPass, Rerun, Call, OwnWork
  <2>2. OwnOutput' /\ RecordIsOfWeights'
    BY <1>2, <1>0, <1>c DEF SetUp, Score, RealPass, Rerun, results, OwnOutput
  <2> QED
    BY <2>1, <2>2
<1>3. CASE StepFails \/ NotPackaged \/ DriverEnds
  <2>1. OwnWork'
    BY <1>3, <1>k DEF StepFails, NotPackaged, DriverEnds, Return, box, Working, Budgeted
  <2>2. OwnOutput' /\ RecordIsOfWeights'
    BY <1>3, <1>d DEF StepFails, NotPackaged, DriverEnds, box, results, Open
  <2> QED
    BY <2>1, <2>2
<1>4. CASE SaveBest \/ BestSaved \/ SaveHead
  <2>1. OwnWork'
    BY <1>4, <1>w DEF SaveBest, BestSaved, SaveHead, box
  <2>2. OwnOutput' /\ RecordIsOfWeights'
    BY <1>4, <1>o, <1>r DEF SaveBest, BestSaved, SaveHead, box, results, Open, Working, Budgeted
  <2> QED
    BY <2>1, <2>2
<1>5. CASE Recorded \/ BadValidation \/ TrainingEnds
  <2>0. UNCHANGED <<job, smoke, call, out, repo>> /\ pc # "idle"
    BY <1>5 DEF Recorded, BadValidation, TrainingEnds, box, results
  <2>1. ASSUME NEW x, \A s \in BOOLEAN : ckpt'[s].w = ckpt[s].w,
               \A s \in BOOLEAN : s # smoke => ckpt'[s].record = ckpt[s].record,
               ckpt'[smoke].record = x,
               x = "finite" => ckpt[smoke].w.job = job, pc' # "saving"
        PROVE  OwnWork'
    BY <2>0, <2>1, <1>0 DEF OwnWork
  <2>2. ASSUME Recorded PROVE OwnWork'
    <3>1. /\ \A s \in BOOLEAN : ckpt'[s].w = ckpt[s].w
          /\ \A s \in BOOLEAN : s # smoke => ckpt'[s].record = ckpt[s].record
          /\ ckpt'[smoke].record = "finite" /\ pc = "saving" /\ pc' = "train"
      BY <1>0, <2>2 DEF Recorded
    <3> QED
      BY <2>1, <3>1 DEF OwnWork
  <2>3. ASSUME BadValidation PROVE OwnWork'
    <3>1. /\ \A s \in BOOLEAN : ckpt'[s].w = ckpt[s].w
          /\ \A s \in BOOLEAN : s # smoke => ckpt'[s].record = ckpt[s].record
          /\ ckpt'[smoke].record = "bad" /\ pc' = "aborting"
      BY <1>0, <2>3 DEF BadValidation
    <3> QED
      BY <2>1, <3>1
  <2>4. ASSUME TrainingEnds PROVE OwnWork'
    <3>1. ASSUME UNCHANGED ckpt PROVE OwnWork'
      BY <3>1, <2>0, <2>4, <1>k DEF TrainingEnds
    <3>2. ASSUME ckpt[smoke].w # NoWeights, ckpt' = [ckpt EXCEPT ![smoke].record = "finite"]
          PROVE  OwnWork'
      <4>1. /\ \A s \in BOOLEAN : ckpt'[s].w = ckpt[s].w
            /\ \A s \in BOOLEAN : s # smoke => ckpt'[s].record = ckpt[s].record
            /\ ckpt'[smoke].record = "finite"
        BY <1>0, <3>2
      <4>2. pc' = "check" /\ ckpt[smoke].w.job = job
        BY <1>0, <2>4, <3>2 DEF TrainingEnds, OwnWork
      <4> QED
        BY <2>1, <4>1, <4>2
    <3> QED
      BY <2>4, <3>1, <3>2 DEF TrainingEnds
  <2>5. OwnOutput' /\ RecordIsOfWeights'
    BY <1>5, <2>0, <1>o, <1>r DEF Recorded, BadValidation, TrainingEnds, Open, Working, Budgeted
  <2> QED
    BY <1>5, <2>2, <2>3, <2>4, <2>5
<1>6. CASE ScoringEnds
  <2>1. \A s \in BOOLEAN : /\ out'[s].w = out[s].w /\ out'[s].job = out[s].job
                           /\ out'[s].status = out[s].status
    BY <1>0, <1>6 DEF ScoringEnds, Output
  <2>2. OwnWork'
    BY <1>6, <1>k DEF ScoringEnds, box
  <2>3. OwnOutput'
    BY <1>0, <1>6, <2>1 DEF ScoringEnds, box, OwnOutput, Open, Working, Budgeted
  <2>4. RecordIsOfWeights'
    <3>1. repo' = repo
      BY <1>6 DEF ScoringEnds, results
    <3>2. \A s \in BOOLEAN : Finished(out'[s]) <=> Finished(out[s])
      BY <2>1 DEF Finished
    <3> QED
      BY <2>1, <3>1, <3>2 DEF RecordIsOfWeights
  <2> QED
    BY <2>2, <2>3, <2>4
<1>7. CASE Package
  <2>1. OwnWork'
    BY <1>7, <1>k DEF Package, box
  <2>2. CASE call = "score"
    BY <2>1, <2>2, <1>7, <1>r DEF Package, box, results, OwnOutput, Open
  <2>3. CASE call # "score"
    <3>1. /\ \A s \in BOOLEAN : out'[s].job = out[s].job /\ out'[s].status = out[s].status
          /\ \A s \in BOOLEAN : s # smoke => out'[s] = out[s]
          /\ out'[smoke].w = ckpt[Dir].w
      BY <2>3, <1>0, <1>7 DEF Package, Output
    <3>2. ckpt[Dir].w.job = job
      BY <2>3, <1>0, <1>7 DEF Package, Checks, OwnWork
    <3>3. OwnOutput'
      BY <3>1, <3>2, <1>0, <1>7 DEF Package, box, OwnOutput, Open
    <3>4. out[smoke].status = "running"
      BY <2>3, <1>7 DEF Package, OwnOutput, Open, TypeOK
    <3>5. RecordIsOfWeights'
      BY <3>1, <3>4, <1>0, <1>7 DEF Package, results, RecordIsOfWeights, Finished
    <3> QED
      BY <2>1, <3>3, <3>5
  <2> QED
    BY <2>2, <2>3
<1>8. CASE Push
  <2>1. OwnWork' /\ OwnOutput'
    BY <1>8, <1>k, <1>o DEF Push, box, work, Open, Working, Budgeted
  <2>2. Finished(out[smoke]) => out[smoke].w.job = job /\ out[smoke].job = job /\ job >= 1
    BY <1>0, <1>8 DEF Push, RecordIsOfWeights, OwnOutput, OwnWork
  <2>3. /\ \A s \in BOOLEAN : s # smoke => repo'[s] = repo[s]
        /\ repo'[smoke] = Overlay(out[smoke], repo[smoke])
    BY <1>0, <1>8 DEF Push
  <2>4. Finished(repo'[smoke]) => repo'[smoke].w.job = repo'[smoke].job
    BY <1>0, <2>2, <2>3 DEF Overlay, Finished
  <2>5. RecordIsOfWeights'
    BY <1>0, <1>8, <2>3, <2>4 DEF Push, work, RecordIsOfWeights, Finished
  <2> QED
    BY <2>1, <2>5
<1>9. CASE Lose
  <2>1. OwnWork'
    BY <1>0, <1>9 DEF Lose, OwnWork, box, NoWork
  <2>2. OwnOutput'
    BY <1>9 DEF Lose, OwnOutput, Open, Working, Budgeted
  <2>3. RecordIsOfWeights'
    BY <1>9 DEF Lose, RecordIsOfWeights, results, Finished, NoOutput
  <2> QED
    BY <2>1, <2>2, <2>3
<1>10. CASE InstallFromHub \/ InstallOutput
  <2>1. pc = "done" /\ UNCHANGED <<job, ckpt, smoke, call, pc, out, repo>>
    BY <1>10 DEF InstallFromHub, InstallOutput, Install, box, work
  <2> QED
    BY <2>1, <1>k, <1>o, <1>r
<1>11. CASE SetUpFails \/ Prepared \/ BudgetStops \/ HardLimit \/ StartPush \/ PushFails \/ NotebookEnds
  <2>1. UNCHANGED <<job, ckpt, smoke, call, out, repo>> /\ pc # "idle" /\ pc' # "saving" /\ pc' # "packaged"
    BY <1>11 DEF SetUpFails, Prepared, BudgetStops, HardLimit, StartPush, PushFails, NotebookEnds,
         box, work, results, Working, Budgeted, TypeOK
  <2>2. /\ pc' \in Open => pc \in Open
        /\ pc' \in {"returned", "push"} => pc \in Open \cup {"returned", "push"}
    BY <1>11 DEF SetUpFails, Prepared, BudgetStops, HardLimit, StartPush, PushFails, NotebookEnds,
         Open, Working, Budgeted
  <2> QED
    BY <2>1, <2>2, <1>k, <1>o, <1>r
<1>12. CASE Tick
  <2>1. UNCHANGED <<job, ckpt, smoke, call, out, repo, pc>> /\ pc # "idle"
    BY <1>12 DEF Tick, box, work, results, Budgeted
  <2> QED
    BY <2>1, <1>k, <1>o, <1>r
<1>13. CASE UNCHANGED vars
  BY <1>13 DEF vars, OwnWork, OwnOutput, RecordIsOfWeights, Finished
<1> QED
  BY <1>1, <1>2, <1>3, <1>4, <1>5, <1>6, <1>7, <1>8, <1>9, <1>10, <1>11, <1>12, <1>13
     DEF Next, Driver

LEMMA AlwaysRecorded == Spec => []RecordInv
<1>1. Init => RecordInv
  BY DEF Init, RecordInv, OwnWork, OwnOutput, RecordIsOfWeights, Finished, NoWork, NoOutput,
     Open, Working, Budgeted
<1>2. Typed /\ RecordInv /\ [Next]_vars => RecordInv'
  BY StepRecord, RetrainAssumption DEF Typed
<1> QED
  BY <1>1, <1>2, AlwaysTyped, PTL DEF Spec

(* Whatever fails and however often a folder is uploaded over another, a       *)
(* manifest that says finished is that of the weights beside it.               *)
THEOREM ManifestsAreTrue == Spec => []RecordIsOfWeights
<1>1. RecordInv => RecordIsOfWeights
  BY DEF RecordInv
<1> QED
  BY <1>1, AlwaysRecorded, PTL

LEMMA StepJob ==
    ASSUME RetrainAssumption, TypeOK, RecordInv, JobInv, [Next]_vars
    PROVE  JobInv'
<1> USE DEF JobInv
<1>0. /\ smoke \in BOOLEAN /\ out \in [BOOLEAN -> Output] /\ repo \in [BOOLEAN -> Output]
      /\ call \in {"train", "score"}
  BY DEF TypeOK
<1>p. pushed => pc = "done"
  BY DEF CodeTells
(* A step that neither touches the manifest nor ends a call.                   *)
<1>s. ASSUME UNCHANGED <<call, out, smoke, code, pushed>>, pc # "done", pc' \in Open => pc \in Open,
             pc' \in {"returned", "push"} => pc \in {"returned", "push"} \/ (pc \in Open /\ call = "score")
      PROVE  JobInv'
  BY <1>s, <1>p DEF CodeTells, ExitTells, Finished
<1>c. ASSUME NEW s \in BOOLEAN, Call("train", s), UNCHANGED pushed, pc # "done"
      PROVE  JobInv'
  BY <1>c, <1>p DEF Call, CodeTells, ExitTells
<1>d. ASSUME NEW f, NEW c, pc \in Open, Return(f, c), UNCHANGED <<smoke, call, pushed>>,
             c = 0 <=> f \in {"stopped", "complete"}
      PROVE  JobInv'
  <2>0. pc' = "returned" /\ ~pushed' /\ pc # "done"
    BY <1>d, <1>p DEF Return, Open, Working, Budgeted
  <2>1. code' = 0 <=> Finished(out'[smoke])
    <3>1. CASE call = "score"
      BY <3>1, <1>d DEF Return, CodeTells, Finished
    <3>2. CASE call # "score"
      <4>1. out'[smoke].status = f /\ code' = c
        BY <3>2, <1>0, <1>d DEF Return, Output
      <4> QED
        BY <4>1, <1>d DEF Finished
    <3> QED
      BY <3>1, <3>2
  <2> QED
    BY <2>0, <2>1, <1>d DEF CodeTells, ExitTells, Finished
<1>1. CASE Rent
  BY <1>1 DEF Rent, CodeTells, ExitTells, Open, Working, Budgeted
<1>2. CASE SetUp \/ RealPass \/ Rerun
  BY <1>2, <1>0, <1>c DEF SetUp, RealPass, Rerun
<1>3. CASE Score
  <2>1. UNCHANGED <<smoke, code, pushed, out>> /\ pc' = "prepare" /\ pc = "returned" /\ call' = "score"
    BY <1>3 DEF Score, Call
  <2> QED
    BY <2>1, <1>p DEF CodeTells, ExitTells, Finished
<1>4. CASE StepFails \/ NotPackaged \/ DriverEnds
  BY <1>4, <1>d DEF StepFails, NotPackaged, DriverEnds, box, Open
<1>5. CASE Prepared \/ SaveBest \/ BestSaved \/ Recorded \/ BadValidation \/ SaveHead \/ TrainingEnds
           \/ BudgetStops
  <2>1. UNCHANGED <<call, out, smoke, code, pushed>> /\ pc \in Open /\ pc' \in Open
    BY <1>5, <1>0 DEF Prepared, SaveBest, BestSaved, Recorded, BadValidation, SaveHead, TrainingEnds,
         BudgetStops, box, work, Open, Working, Budgeted
  <2>2. pc # "done" /\ pc' \notin {"returned", "push"}
    BY <2>1 DEF Open, Working, Budgeted
  <2> QED
    BY <2>1, <2>2, <1>s
<1>6. CASE ScoringEnds
  <2>1. \A s \in BOOLEAN : out'[s].status = out[s].status
    BY <1>0, <1>6 DEF ScoringEnds, Output
  <2>2. UNCHANGED <<call, smoke, code, pushed>> /\ pc = "score" /\ pc' = "check"
    BY <1>6 DEF ScoringEnds, box
  <2> QED
    BY <1>0, <1>p, <2>1, <2>2 DEF CodeTells, ExitTells, Finished, Open, Working, Budgeted
<1>7. CASE Package
  <2>1. UNCHANGED <<call, smoke, code, pushed>> /\ pc = "check" /\ pc' = "packaged"
        /\ (call = "score" => UNCHANGED out)
    BY <1>7 DEF Package, box
  <2> QED
    BY <2>1, <1>p DEF CodeTells, ExitTells, Finished, Open
<1>8. CASE HardLimit
  <2>1. UNCHANGED <<call, out, smoke, pushed>> /\ pc \in Open /\ pc' = "returned" /\ pc # "done"
    BY <1>8 DEF HardLimit, box, work, Open, Working, Budgeted
  <2>2. CASE call = "score"
    BY <2>1, <2>2, <1>8, <1>s DEF HardLimit
  <2>3. CASE call = "train"
    BY <2>1, <2>3, <1>8, <1>p DEF HardLimit, CodeTells, ExitTells, Finished, RecordInv, OwnOutput
  <2> QED
    BY <2>2, <2>3, <1>0
<1>9. CASE Push
  <2>1. /\ repo'[smoke].job = out[smoke].job /\ repo'[smoke].status = out[smoke].status
        /\ out[smoke].job = job
    BY <1>0, <1>9 DEF Push, Overlay, RecordInv, OwnOutput
  <2>2. UNCHANGED <<call, out, smoke, code, job>> /\ pc' = "done" /\ pc = "push"
    BY <1>9 DEF Push, box, work
  <2> QED
    BY <2>1, <2>2 DEF CodeTells, ExitTells, Finished, Open, Working, Budgeted
<1>10. CASE SetUpFails \/ PushFails \/ NotebookEnds \/ StartPush
  <2>1. ~pushed' /\ UNCHANGED <<call, out, smoke>> /\ pc' \in {"done", "push"}
        /\ (pc' = "push" => pc \in {"returned", "push"} /\ UNCHANGED code)
    BY <1>10, <1>p DEF SetUpFails, PushFails, NotebookEnds, StartPush, box, work
  <2> QED
    BY <2>1 DEF CodeTells, ExitTells, Finished, Open, Working, Budgeted
<1>11. CASE Lose
  BY <1>11, <1>p DEF Lose, box, CodeTells, ExitTells, Open, Working, Budgeted
<1>12. CASE InstallFromHub \/ InstallOutput
  <2>1. UNCHANGED <<place, job, call, out, smoke, code, pushed, pc, repo>>
    BY <1>12 DEF InstallFromHub, InstallOutput, Install, box, work
  <2> QED
    BY <2>1 DEF CodeTells, ExitTells, Finished
<1>13. CASE Tick \/ UNCHANGED vars
  <2>1. UNCHANGED <<place, job, call, out, smoke, code, pushed, pc, repo>>
    BY <1>13 DEF Tick, vars, box, work, results
  <2> QED
    BY <2>1 DEF CodeTells, ExitTells, Finished
<1> QED
  BY <1>1, <1>2, <1>3, <1>4, <1>5, <1>6, <1>7, <1>8, <1>9, <1>10, <1>11, <1>12, <1>13
     DEF Next, Driver

(* A job that could push exits with 0 exactly if what it pushed is a finished   *)
(* run, whether it was stopped, refused, cut off or scored on the way.         *)
THEOREM ExitCodeTells == Spec => []ExitTells
<1>1. Init => JobInv
  BY DEF Init, JobInv, CodeTells, ExitTells, Open, Working, Budgeted
<1>2. Typed /\ RecordInv /\ JobInv /\ [Next]_vars => JobInv'
  BY StepJob, RetrainAssumption DEF Typed
<1>3. JobInv => ExitTells
  BY DEF JobInv
<1> QED
  BY <1>1, <1>2, <1>3, AlwaysTyped, AlwaysRecorded, PTL DEF Spec

-----------------------------------------------------------------------------
(* The limits.                                                               *)

Calling == Open \cup {"returned"}

Profile == PROFILE(model, smoke)

(* In a job the hard limit ends training and the shared deadline ends scoring; *)
(* the attempts to push that are left still fit.                               *)
JobTime ==
    place = "hf" =>
      /\ pc = "setup" => clock <= SetupMax /\ since = 0
      /\ pc \in Calling /\ call = "train" => since <= SetupMax /\ clock <= since + Profile.hard
      /\ pc \in Calling /\ call = "score" => clock <= Profile.deadline
      /\ pc = "push" => /\ clock <= since + PushMax
                       /\ since + tries * PushMax < Profile.timeout

(* In a notebook the budget ends each pass but not what prepares it.           *)
NotebookTime ==
    place = "kaggle" /\ reruns = 0 =>
      /\ pc # "push"
      /\ pc = "setup" => clock <= 4 /\ since = 0 /\ smoke
      /\ pc \in Calling /\ smoke => call = "train" /\ since <= 4 /\ clock <= since + 13
      /\ pc = "prepare" /\ ~smoke /\ call = "train" => since <= 17 /\ clock <= since + 13
      /\ pc \in Calling /\ ~smoke /\ call = "train" => clock <= 106
      /\ pc = "prepare" /\ ~smoke /\ call = "score" => since <= 106 /\ clock <= since + 13
      /\ pc \in Calling /\ ~smoke /\ call = "score" => clock <= 119

TimeInv == JobTime /\ NotebookTime /\ NeverLost

LEMMA Margins ==
    ASSUME RetrainAssumption, MarginAssumption, TypeOK
    PROVE  /\ Profile.hard \in Nat /\ Profile.deadline \in Nat /\ Profile.timeout \in Nat
           /\ SetupMax + Profile.hard + 3 * PushMax < Profile.timeout
           /\ Profile.deadline + 3 * PushMax < Profile.timeout
           /\ SetupMax \in 0..4 /\ PushMax \in Nat /\ PrepareMax \in 0..13
           /\ clock \in Nat /\ since \in Nat /\ tries \in 0..3 /\ reruns \in Nat
           /\ smoke \in BOOLEAN /\ call \in {"train", "score"} /\ place \in {"kaggle", "hf"}
<1>1. /\ SetupMax \in 0..4 /\ PushMax \in Nat /\ PrepareMax \in 0..13
      /\ SetupMax + 3 * PushMax <= 4
  BY DEF RetrainAssumption, MarginAssumption, Attempts
<1>2. model \in {"vqa", "change_mask", "caption"} /\ smoke \in BOOLEAN
  BY DEF RetrainAssumption, TypeOK
<1>3. \/ Profile = [budget |-> 75, deadline |-> 105, hard |-> 85, timeout |-> 120]
      \/ Profile = [budget |-> 5,  deadline |-> 15,  hard |-> 16, timeout |-> 30]
      \/ Profile = [budget |-> 60, deadline |-> 60,  hard |-> 70, timeout |-> 80]
      \/ Profile = [budget |-> 30, deadline |-> 30,  hard |-> 35, timeout |-> 40]
      \/ Profile = [budget |-> 4,  deadline |-> 4,   hard |-> 12, timeout |-> 20]
  BY <1>2 DEF Profile, PROFILE
<1>4. /\ clock \in Nat /\ since \in Nat /\ tries \in 0..3 /\ reruns \in Nat
      /\ smoke \in BOOLEAN /\ call \in {"train", "score"} /\ place \in {"kaggle", "hf"}
  BY DEF TypeOK, RetrainAssumption, Attempts
<1> QED
  BY <1>1, <1>3, <1>4

LEMMA StepTime ==
    ASSUME RetrainAssumption, MarginAssumption, Typed, TimeInv, [Next]_vars
    PROVE  TimeInv'
<1> USE DEF TimeInv, NeverLost
<1>m. TypeOK /\ Trying
  BY DEF Typed
<1>0. /\ Profile.hard \in Nat /\ Profile.deadline \in Nat /\ Profile.timeout \in Nat
      /\ SetupMax + Profile.hard + 3 * PushMax < Profile.timeout
      /\ Profile.deadline + 3 * PushMax < Profile.timeout
      /\ SetupMax \in 0..4 /\ PushMax \in Nat /\ PrepareMax \in 0..13
      /\ clock \in Nat /\ since \in Nat /\ tries \in 0..3 /\ reruns \in Nat
      /\ smoke \in BOOLEAN /\ call \in {"train", "score"} /\ place \in {"kaggle", "hf"}
  BY <1>m, Margins
<1>f. ASSUME UNCHANGED <<model, smoke>> PROVE UNCHANGED Profile
  BY <1>f DEF Profile, PROFILE
(* A step that takes no time and stays in the call.                            *)
<1>s. ASSUME UNCHANGED <<model, place, smoke, call, clock, since, reruns>>,
             pc \in Calling, pc' \in Calling, pc' = "prepare" => pc = "prepare"
      PROVE  TimeInv'
  <2>1. JobTime'
    BY <1>0, <1>f, <1>s DEF JobTime, Calling, Open, Working, Budgeted
  <2>2. NotebookTime'
    BY <1>s DEF NotebookTime, Calling, Open, Working, Budgeted
  <2>3. NeverLost'
    BY <1>s DEF Calling, Open, Working, Budgeted
  <2> QED
    BY <2>1, <2>2, <2>3
(* A step after which no clock runs.                                           *)
<1>e. ASSUME pc' \in {"idle", "done"} PROVE TimeInv'
  BY <1>e DEF JobTime, NotebookTime, Calling, Open, Working, Budgeted
<1>1. CASE Rent
  <2>1. /\ pc' = "setup" /\ clock' = 0 /\ since' = 0 /\ UNCHANGED place
        /\ (place = "kaggle" => smoke')
    BY <1>1 DEF Rent
  <2> QED
    BY <2>1, <1>0 DEF JobTime, NotebookTime, Calling, Open, Working, Budgeted
<1>2. CASE SetUp
  <2>1. /\ pc = "setup" /\ pc' = "prepare" /\ call' = "train" /\ since' = clock
        /\ UNCHANGED <<model, place, smoke, clock, reruns>>
    BY <1>2 DEF SetUp, Call, results
  <2> QED
    BY <2>1, <1>0, <1>f DEF JobTime, NotebookTime, Calling, Open, Working, Budgeted
<1>3. CASE SetUpFails \/ NotebookEnds \/ Push
  BY <1>3, <1>e DEF SetUpFails, NotebookEnds, Push
<1>4. CASE Prepared
  <2>1. /\ pc = "prepare" /\ pc' = call /\ UNCHANGED <<model, place, smoke, call, clock, reruns>>
        /\ since' = IF place = "kaggle" /\ ~smoke THEN 0 ELSE since
    BY <1>4 DEF Prepared, box
  <2> QED
    BY <2>1, <1>0, <1>f DEF JobTime, NotebookTime, Calling, Open, Working, Budgeted
<1>5. CASE StepFails \/ SaveBest \/ BestSaved \/ Recorded \/ BadValidation \/ SaveHead \/ TrainingEnds
           \/ ScoringEnds \/ BudgetStops \/ NotPackaged \/ Package \/ DriverEnds \/ HardLimit
  <2>1. /\ UNCHANGED <<model, place, smoke, call, clock, since, reruns>>
        /\ pc \in Calling /\ pc' \in Calling /\ pc' # "prepare"
    BY <1>5 DEF StepFails, SaveBest, BestSaved, Recorded, BadValidation, SaveHead, TrainingEnds,
       ScoringEnds, BudgetStops, NotPackaged, Package, DriverEnds, HardLimit, Return, box,
       Calling, Open, Working, Budgeted
  <2> QED
    BY <2>1, <1>s
<1>6. CASE Score
  <2>1. /\ pc = "returned" /\ pc' = "prepare" /\ call = "train" /\ call' = "score" /\ since' = clock
        /\ UNCHANGED <<model, place, smoke, clock, reruns>>
        /\ (place = "hf" => Profile.deadline - clock > 1)
        /\ (place = "kaggle" => ~smoke)
    BY <1>6 DEF Score, ToScore, Call, Profile
  <2> QED
    BY <2>1, <1>0, <1>f DEF JobTime, NotebookTime, Calling, Open, Working, Budgeted
<1>7. CASE RealPass
  <2>1. /\ pc = "returned" /\ pc' = "prepare" /\ call' = "train" /\ since' = clock
        /\ smoke /\ ~smoke' /\ place = "kaggle"
        /\ UNCHANGED <<model, place, clock, reruns>>
    BY <1>7 DEF RealPass, Call
  <2> QED
    BY <2>1, <1>0 DEF JobTime, NotebookTime, Calling, Open, Working, Budgeted
<1>8. CASE Rerun
  <2>1. reruns' > 0 /\ place' = "kaggle" /\ pc' = "prepare"
    BY <1>8, <1>0 DEF Rerun, Call
  <2> QED
    BY <2>1 DEF JobTime, NotebookTime
<1>9. CASE StartPush
  <2>1. /\ pc = "returned" /\ pc' = "push" /\ place = "hf" /\ tries' = 3 /\ since' = clock
        /\ UNCHANGED <<model, place, smoke, call, clock, reruns>>
    BY <1>9 DEF StartPush, box, Attempts
  <2>2. clock + 3 * PushMax < Profile.timeout
    BY <2>1, <1>0 DEF JobTime, Calling
  <2> QED
    BY <2>1, <2>2, <1>0, <1>f DEF JobTime, NotebookTime, Calling, Open, Working, Budgeted
<1>10. CASE PushFails
  <2>1. /\ pc = "push" /\ pc' \in {"push", "done"} /\ tries' = tries - 1 /\ since' = clock
        /\ UNCHANGED <<model, place, smoke, call, clock, reruns>> /\ tries \in 1..3
    BY <1>10, <1>m DEF PushFails, box, Trying, Attempts
  <2>2. CASE place = "hf"
    <3>1. clock + (tries - 1) * PushMax < Profile.timeout
      <4>1. clock <= since + PushMax /\ since + tries * PushMax < Profile.timeout
        BY <2>1, <2>2 DEF JobTime
      <4>2. tries = 1 \/ tries = 2 \/ tries = 3
        BY <2>1
      <4> QED
        BY <4>1, <4>2, <1>0
    <3> QED
      BY <2>1, <2>2, <3>1, <1>0, <1>f DEF JobTime, NotebookTime, Calling, Open, Working, Budgeted
  <2>3. CASE place = "kaggle"
    BY <2>1, <2>3, <1>0 DEF JobTime, NotebookTime
  <2> QED
    BY <2>2, <2>3, <1>0
<1>11. CASE Lose
  <2>1. /\ pc \notin {"idle", "done", "lost"} /\ clock >= Timeout /\ pc' = "lost" /\ UNCHANGED <<reruns, place>>
    BY <1>11 DEF Lose, box
  <2>2. pc = "setup" \/ pc \in Calling \/ pc = "push"
    BY <2>1, <1>m DEF TypeOK, Calling, Open
  <2>3. CASE place = "hf"
    <3>1. clock < Profile.timeout
      <4>1. CASE pc = "setup"
        BY <4>1, <2>3, <1>0 DEF JobTime
      <4>2. CASE pc \in Calling
        BY <4>2, <2>3, <1>0 DEF JobTime
      <4>3. CASE pc = "push"
        <5>1. /\ tries = 1 \/ tries = 2 \/ tries = 3
              /\ clock <= since + PushMax /\ since + tries * PushMax < Profile.timeout
          BY <4>3, <2>3, <1>0, <1>m DEF JobTime, Trying, Attempts
        <5> QED
          BY <5>1, <1>0
      <4> QED
        BY <2>2, <4>1, <4>2, <4>3
    <3> QED
      BY <2>1, <2>3, <3>1, <1>0 DEF Timeout, Profile
  <2>4. CASE place = "kaggle"
    <3>1. reruns = 0 => clock < 120
      BY <2>2, <2>4, <1>0 DEF NotebookTime, Calling, Open
    <3> QED
      BY <2>1, <2>4, <3>1, <1>0 DEF Timeout, KaggleLimit, JobTime, NotebookTime, Calling, Open, Working, Budgeted
  <2> QED
    BY <2>3, <2>4, <1>0
<1>12. CASE InstallFromHub \/ InstallOutput
  BY <1>12, <1>e DEF InstallFromHub, InstallOutput, Install
<1>13. CASE Tick
  <2>0. /\ clock' = clock + 1
        /\ UNCHANGED <<model, place, smoke, call, pc, since, reruns, tries>>
    BY <1>13 DEF Tick, box
  <2>1. CASE pc = "setup"
    <3>1. clock < SetupMax
      BY <1>13, <2>1 DEF Tick, Budgeted
    <3> QED
      BY <2>0, <2>1, <3>1, <1>0, <1>f DEF JobTime, NotebookTime, Calling, Open, Working, Budgeted
  <2>2. CASE pc = "prepare"
    <3>1. clock < Limit
      BY <1>13, <2>2 DEF Tick, Budgeted
    <3>2. JobTime'
      BY <2>0, <2>2, <3>1, <1>0, <1>f DEF JobTime, Limit, Profile, Calling, Open, Working, Budgeted
    <3>3. NotebookTime'
      BY <2>0, <2>2, <3>1, <1>0 DEF NotebookTime, Limit, Calling, Open, Working, Budgeted
    <3> QED
      BY <2>0, <2>2, <3>2, <3>3
  <2>3. CASE pc \in Budgeted
    <3>1. clock < Deadline + 1 /\ (place = "hf" => clock < Limit)
      BY <1>13, <2>3 DEF Tick, Budgeted, Grace
    <3>2. JobTime'
      BY <2>0, <2>3, <3>1, <1>0, <1>f DEF JobTime, Limit, Profile, Calling, Open, Working, Budgeted
    <3>3. NotebookTime'
      BY <2>0, <2>3, <3>1, <1>0 DEF NotebookTime, Deadline, SMOKE_BUDGET_HOURS, DEFAULT_BUDGET_HOURS,
         Calling, Open, Working, Budgeted
    <3> QED
      BY <2>0, <2>3, <3>2, <3>3 DEF Budgeted
  <2>4. CASE pc = "push"
    <3>1. clock < since + PushMax
      BY <1>13, <2>4 DEF Tick, Budgeted
    <3> QED
      BY <2>0, <2>4, <3>1, <1>0, <1>f DEF JobTime, NotebookTime, Calling, Open, Working, Budgeted
  <2> QED
    BY <1>13, <2>1, <2>2, <2>3, <2>4 DEF Tick
<1>14. CASE UNCHANGED vars
  BY <1>14, <1>f DEF vars, JobTime, NotebookTime
<1> QED
  BY <1>1, <1>2, <1>3, <1>4, <1>5, <1>6, <1>7, <1>8, <1>9, <1>10, <1>11, <1>12, <1>13, <1>14
     DEF Next, Driver

(* Whatever hangs, however slow a setup and a push are within the margins, no   *)
(* platform cuts off a job, nor a notebook whose real pass is run once.         *)
THEOREM LimitsFit == Spec => []NeverLost
<1>1. Init => TimeInv
  BY DEF Init, TimeInv, JobTime, NotebookTime, NeverLost, Calling, Open, Working, Budgeted
<1>2. Typed /\ TimeInv /\ [Next]_vars => TimeInv'
  BY StepTime, RetrainAssumption, MarginAssumption
<1>3. TimeInv => NeverLost
  BY DEF TimeInv
<1> QED
  BY <1>1, <1>2, <1>3, AlwaysTyped, PTL DEF Spec

=============================================================================
