------------------------------ MODULE Retrain -------------------------------
(***************************************************************************)
(* Retraining one demo model in a rented container, and what comes back     *)
(* from it.  training/kaggle/retrain.py prepares, trains, checks and         *)
(* packages; a Kaggle notebook runs it for a smoke pass, then for real, then  *)
(* to score the adapter; training/hf_jobs/launch.py runs it in a job that     *)
(* pushes the outcome to a Hub repository; scripts/install_retrained.py      *)
(* copies the outcome to where the program reads it.                         *)
(*                                                                         *)
(* Time is the subject: four limits cut each other off, and only what was   *)
(* pushed or downloaded before the platform's own limit survives.  A tick is *)
(* a tenth of an hour.  What takes less than a tick (the check, packaging,   *)
(* an evaluation that is refused) takes no time.                            *)
(*                                                                         *)
(* Weights are what they were made from: the container, whether a smoke pass *)
(* took part, and whether the file is whole.                                *)
(***************************************************************************)
EXTENDS Integers

CONSTANTS
    Models,       \* the models a behaviour may be about
    Places,       \* where the container is rented
    SetupMax,     \* ticks from the container's start to the first driver call
    PrepareMax,   \* ticks a preparation takes on Kaggle, where nothing limits it
    PushMax,      \* ticks of one attempt to push
    MaxJobs,      \* bound on containers
    MaxReruns     \* bound on repeats of the notebook's real pass

Grace == 1        \* ticks the driver may need to stop what its budget has ended
Attempts == 3     \* attempts to push

ASSUME RetrainAssumption ==
    /\ Models \subseteq {"vqa", "change_mask", "caption"}
    /\ Places \subseteq {"kaggle", "hf"}
    /\ SetupMax \in Nat /\ PrepareMax \in Nat /\ PushMax \in Nat
    /\ MaxJobs \in Nat \ {0} /\ MaxReruns \in Nat

(* What the table of limits leaves room for.                                  *)
ASSUME MarginAssumption == SetupMax + Attempts * PushMax <= 4 /\ PrepareMax <= 13

VARIABLES
    model, place, \* what is retrained, and where
    job,          \* containers rented so far
    smoke,        \* is this pass a smoke pass?
    call,         \* what the driver was called for: to train or to score
    pc,           \* where the container is
    clock,        \* ticks since the container started
    since,        \* the tick at which the call, or the push, began, while it counts
    ckpt,         \* the checkpoint directories: the weights and their record
    out,          \* the output directories of the driver
    stopped,      \* has the budget stopped this call?
    code,         \* exit code of the training call
    tries,        \* attempts to push that are left
    pushed,       \* has one of this container's attempts succeeded?
    repo,         \* the Hub repositories, the smoke passes' apart
    here,         \* the weights that are installed
    reruns

work == <<ckpt, out>>
box == <<model, place, job, smoke>>
results == <<repo, here>>
vars == <<model, place, job, smoke, call, pc, clock, since, ckpt, out, stopped, code,
          tries, pushed, repo, here, reruns>>

-----------------------------------------------------------------------------
(* The limits.                                                               *)

(* Hours after the container's start at which training stops and by which     *)
(* scoring has ended, hours the driver may run, and the job's own limit.      *)
PROFILE(m, s) ==
    CASE m = "vqa"  /\ ~s -> [budget |-> 75, deadline |-> 105, hard |-> 85, timeout |-> 120]
      [] m = "vqa"  /\ s  -> [budget |-> 5,  deadline |-> 15,  hard |-> 16, timeout |-> 30]
      [] m = "change_mask" /\ ~s ->
                             [budget |-> 60, deadline |-> 60,  hard |-> 70, timeout |-> 80]
      [] m = "caption" /\ ~s ->
                             [budget |-> 30, deadline |-> 30,  hard |-> 35, timeout |-> 40]
      [] OTHER            -> [budget |-> 4,  deadline |-> 4,   hard |-> 12, timeout |-> 20]

KaggleLimit == 120
DEFAULT_BUDGET_HOURS == 105
SMOKE_BUDGET_HOURS == 10

Timeout == IF place = "kaggle" THEN KaggleLimit ELSE PROFILE(model, smoke).timeout

(* The driver's budget counts from --session-start, which the notebook's smoke *)
(* pass is not given.                                                         *)
Deadline ==
    IF place = "kaggle"
    THEN IF smoke THEN since + SMOKE_BUDGET_HOURS ELSE DEFAULT_BUDGET_HOURS
    ELSE IF call = "train" THEN PROFILE(model, smoke).budget ELSE PROFILE(model, smoke).deadline

(* Mutant: scoring begins a second full-length limit of its own.              *)
LimitMutant == since + PROFILE(model, smoke).hard

(* timeout(1) around each call of a job; nothing on Kaggle, where a preparation *)
(* is taken to last PrepareMax at most.                                        *)
Limit ==
    IF place = "kaggle" THEN since + PrepareMax
    ELSE IF call = "train" THEN since + PROFILE(model, smoke).hard
    ELSE PROFILE(model, smoke).deadline

-----------------------------------------------------------------------------
(* What is on disk.                                                          *)
NoWeights == [job |-> 0, smoke |-> FALSE, whole |-> TRUE]
NoOutput == [job |-> 0, status |-> "none", w |-> NoWeights, score |-> NoWeights]
NoWork == [w |-> NoWeights, record |-> "none"]

Finished(o) == o.status \in {"complete", "stopped"}

(* Mutant: one checkpoint directory for both passes.                          *)
DirMutant == FALSE

(* Smoke checkpoints live apart.                                             *)
Dir == smoke

(* What the trainer saves next, resumed from what its directory holds.       *)
Trained(whole) ==
    [job |-> job, smoke |-> smoke \/ ckpt[Dir].w.smoke, whole |-> whole]

Init ==
    /\ model \in Models /\ place \in Places
    /\ job = 0 /\ smoke = FALSE /\ call = "train" /\ pc = "idle"
    /\ clock = 0 /\ since = 0
    /\ ckpt = [s \in BOOLEAN |-> NoWork]
    /\ out = [s \in BOOLEAN |-> NoOutput]
    /\ stopped = FALSE /\ code = 0 /\ tries = 0 /\ pushed = FALSE
    /\ repo = [s \in BOOLEAN |-> NoOutput]
    /\ here = NoWeights /\ reruns = 0

Goto(l) == pc' = l

Budgeted == {"train", "saving", "aborting", "score"}
Working == Budgeted \cup {"prepare"}

-----------------------------------------------------------------------------
(* The container.                                                            *)

(* A new container starts with empty directories; the notebook's first pass is *)
(* a smoke pass.  Nothing of one notebook session reaches the next.           *)
Rent ==
    /\ pc \in {"idle", "done", "lost"} /\ job < IF place = "hf" THEN MaxJobs ELSE 1
    /\ job' = job + 1
    /\ smoke' \in IF place = "kaggle" THEN {TRUE} ELSE BOOLEAN
    /\ Goto("setup")
    /\ clock' = 0 /\ since' = 0
    /\ ckpt' = [s \in BOOLEAN |-> NoWork]
    /\ out' = [s \in BOOLEAN |-> NoOutput]
    /\ stopped' = FALSE /\ code' = 0 /\ tries' = 0 /\ pushed' = FALSE /\ call' = "train"
    /\ UNCHANGED <<model, place, results, reruns>>

(* The driver is called: it writes a manifest of its own that says running.   *)
Call(what, s) ==
    /\ call' = what /\ smoke' = s /\ since' = clock
    /\ stopped' = FALSE
    /\ Goto("prepare")
    /\ out' = IF what = "score" THEN out
              ELSE [out EXCEPT ![s].job = job, ![s].status = "running"]

SetUp ==
    /\ pc = "setup"
    /\ Call("train", smoke)
    /\ UNCHANGED <<model, place, job, clock, ckpt, code, tries, pushed, results, reruns>>

(* No git, no clone, or the result repository cannot be written: exit 1.      *)
SetUpFails ==
    /\ pc = "setup"
    /\ code' = 1 /\ Goto("done")
    /\ UNCHANGED <<box, call, clock, since, work, stopped, tries, pushed, results, reruns>>

-----------------------------------------------------------------------------
(* The driver.                                                               *)

(* Installs, the environment check, downloads and conversions are done.       *)
Prepared ==
    /\ pc = "prepare"
    /\ Goto(call)
    /\ since' = IF place = "kaggle" /\ ~smoke THEN 0 ELSE since
    /\ UNCHANGED <<box, call, clock, work, stopped, code, tries, pushed, results, reruns>>

(* The driver returns; `status' is what its manifest says.                    *)
Return(status, c) ==
    /\ out' = IF call = "score" THEN out ELSE [out EXCEPT ![smoke].status = status]
    /\ code' = IF call = "score" THEN code ELSE c
    /\ Goto("returned")

(* A step exits with an error: the environment check, a download, the trainer, *)
(* the evaluator.                                                             *)
StepFails ==
    /\ pc \in Working
    /\ Return("failed", 1)
    /\ UNCHANGED <<box, call, clock, since, ckpt, stopped, tries, pushed, results, reruns>>

(* The QLoRA trainer overwrites adapter_best in place, and only then the       *)
(* history that says so.                                                      *)
SaveBest ==
    /\ pc = "train" /\ model = "vqa"
    /\ ckpt' = [ckpt EXCEPT ![Dir].w = Trained(FALSE)]
    /\ Goto("saving")
    /\ UNCHANGED <<box, call, clock, since, out, stopped, code, tries, pushed, results, reruns>>

BestSaved ==
    /\ pc = "saving" /\ ~ckpt[Dir].w.whole
    /\ ckpt' = [ckpt EXCEPT ![Dir].w = Trained(TRUE)]
    /\ UNCHANGED <<box, call, pc, clock, since, out, stopped, code, tries, pushed, results, reruns>>

Recorded ==
    /\ pc = "saving" /\ ckpt[Dir].w.whole
    /\ ckpt' = [ckpt EXCEPT ![Dir].record = "finite"]
    /\ Goto("train")
    /\ UNCHANGED <<box, call, clock, since, out, stopped, code, tries, pushed, results, reruns>>

(* A validation loss that is not finite is recorded, saves nothing and, if the *)
(* driver does not stop the trainer first, ends it with an error.              *)
BadValidation ==
    /\ pc = "train" /\ model = "vqa"
    /\ ckpt' = [ckpt EXCEPT ![Dir].record = "bad"]
    /\ Goto("aborting")
    /\ UNCHANGED <<box, call, clock, since, out, stopped, code, tries, pushed, results, reruns>>

(* A head saves its weights as it trains.                                     *)
SaveHead ==
    /\ pc = "train" /\ model # "vqa"
    /\ ckpt' = [ckpt EXCEPT ![Dir].w = Trained(TRUE)]
    /\ UNCHANGED <<box, call, pc, clock, since, out, stopped, code, tries, pushed, results, reruns>>

(* Training ends.  The QLoRA trainer has recorded a validation by then, again  *)
(* if it resumed from before one that was cut short; a head writes its test    *)
(* metrics, which are ratios and finite whatever the weights are.              *)
TrainingEnds ==
    /\ pc = "train"
    /\ \/ model = "vqa" /\ ckpt[Dir].record = "finite" /\ ckpt[Dir].w.whole
          /\ UNCHANGED ckpt
       \/ model # "vqa" /\ ckpt[Dir].w # NoWeights
          /\ ckpt' = [ckpt EXCEPT ![Dir].record = "finite"]
    /\ Goto("check")
    /\ UNCHANGED <<box, call, clock, since, out, stopped, code, tries, pushed, results, reruns>>

(* The budget is over: the driver terminates the step it polls.  The read-only *)
(* evaluation it then asks of a head is refused, because its --out is inside   *)
(* the checkpoint directory, and the driver ignores the exit code.             *)
BudgetStops ==
    /\ pc \in Budgeted /\ clock >= Deadline
    /\ stopped' = TRUE
    /\ Goto("check")
    /\ UNCHANGED <<box, call, clock, since, work, code, tries, pushed, results, reruns>>

(* The evaluator scores the adapter that was packaged, unless the result file  *)
(* already has an arm of that name.                                            *)
ScoringEnds ==
    /\ pc = "score"
    /\ out' = [out EXCEPT ![smoke].score = IF @ = NoWeights THEN out[smoke].w ELSE @]
    /\ Goto("check")
    /\ UNCHANGED <<box, call, clock, since, ckpt, stopped, code, tries, pushed, results, reruns>>

(* Mutant: whatever there is is packaged.                                     *)
ChecksMutant == TRUE

(* check_trained: is there something real to package?                         *)
Checks ==
    IF call = "score" THEN out[smoke].score # NoWeights
    ELSE ckpt[Dir].record = "finite" /\ (model = "vqa" => ckpt[Dir].w # NoWeights)

(* Mutant: a refusal to package is reported and the driver returns 0.         *)
NotPackagedMutant ==
    /\ pc = "check" /\ ~Checks
    /\ Return("failed", 0)
    /\ UNCHANGED <<box, call, clock, since, ckpt, stopped, tries, pushed, results, reruns>>

NotPackaged ==
    /\ pc = "check" /\ ~Checks
    /\ Return("failed", 1)
    /\ UNCHANGED <<box, call, clock, since, ckpt, stopped, tries, pushed, results, reruns>>

Package ==
    /\ pc = "check" /\ Checks
    /\ out' = IF call = "score" THEN out ELSE [out EXCEPT ![smoke].w = ckpt[Dir].w]
    /\ Goto("packaged")
    /\ UNCHANGED <<box, call, clock, since, ckpt, stopped, code, tries, pushed, results, reruns>>

DriverEnds ==
    /\ pc = "packaged"
    /\ Return(IF stopped THEN "stopped" ELSE "complete", 0)
    /\ UNCHANGED <<box, call, clock, since, ckpt, stopped, tries, pushed, results, reruns>>

(* Mutant: the backstop is around the training step only.                     *)
HardLimitMutant ==
    /\ place = "hf" /\ pc \in Budgeted /\ clock >= Limit
    /\ code' = IF call = "score" THEN code ELSE 124
    /\ Goto("returned")
    /\ UNCHANGED <<box, call, clock, since, work, stopped, tries, pushed, results, reruns>>

(* The hard limit of a job ends the driver wherever it is, which handles no    *)
(* SIGTERM: exit code 124.                                                    *)
HardLimit ==
    /\ place = "hf" /\ pc \in Working /\ clock >= Limit
    /\ code' = IF call = "score" THEN code ELSE 124
    /\ Goto("returned")
    /\ UNCHANGED <<box, call, clock, since, work, stopped, tries, pushed, results, reruns>>

-----------------------------------------------------------------------------
(* Between the driver's calls.                                               *)
ToScore ==
    /\ call = "train" /\ model = "vqa"
    /\ \/ /\ place = "hf" /\ code = 0
          /\ PROFILE(model, smoke).deadline - clock > 1    \* more than ten minutes
       \/ place = "kaggle" /\ ~smoke /\ Finished(out[FALSE])

Score ==
    /\ pc = "returned" /\ ToScore
    /\ Call("score", smoke)
    /\ UNCHANGED <<model, place, job, clock, ckpt, code, tries, pushed, results, reruns>>

(* The notebook goes on to the real pass only when the smoke pass is complete. *)
RealPass ==
    /\ pc = "returned" /\ place = "kaggle"
    /\ smoke /\ out[TRUE].status = "complete"
    /\ Call("train", FALSE)
    /\ UNCHANGED <<model, place, job, clock, ckpt, code, tries, pushed, results, reruns>>

(* The real pass is run again in the same session, over its checkpoints.      *)
Rerun ==
    /\ pc = "returned" /\ place = "kaggle" /\ ~smoke /\ reruns < MaxReruns
    /\ reruns' = reruns + 1
    /\ Call("train", FALSE)
    /\ UNCHANGED <<model, place, job, clock, ckpt, code, tries, pushed, results>>

(* A job goes on to its push, once it is scored or there is no time for that.  *)
StartPush ==
    /\ pc = "returned" /\ place = "hf" /\ ~ToScore
    /\ Goto("push")
    /\ tries' = Attempts /\ since' = clock
    /\ UNCHANGED <<box, call, clock, work, stopped, code, pushed, results, reruns>>

(* The folder is uploaded over what the repository holds: files it does not    *)
(* have are left there.                                                       *)
Overlay(o, r) ==
    [job |-> o.job, status |-> o.status,
     w |-> IF o.w = NoWeights THEN r.w ELSE o.w,
     score |-> IF o.score = NoWeights THEN r.score ELSE o.score]

Push ==
    /\ pc = "push"
    /\ repo' = [repo EXCEPT ![smoke] = Overlay(out[smoke], @)]
    /\ pushed' = TRUE /\ tries' = 0
    /\ Goto("done")
    /\ UNCHANGED <<box, call, clock, since, work, stopped, code, here, reruns>>

PushFails ==
    /\ pc = "push"
    /\ tries' = tries - 1 /\ since' = clock
    /\ Goto(IF tries = 1 THEN "done" ELSE "push")
    /\ UNCHANGED <<box, call, clock, work, stopped, code, pushed, results, reruns>>

(* The notebook ends and its output can be downloaded.                        *)
NotebookEnds ==
    /\ pc = "returned" /\ place = "kaggle"
    /\ Goto("done")
    /\ UNCHANGED <<box, call, clock, since, work, stopped, code, tries, pushed, results, reruns>>

(* The platform ends the container with everything in it.                     *)
Lose ==
    /\ pc \notin {"idle", "done", "lost"} /\ clock >= Timeout
    /\ Goto("lost")
    /\ ckpt' = [s \in BOOLEAN |-> NoWork]
    /\ out' = [s \in BOOLEAN |-> NoOutput]
    /\ UNCHANGED <<box, call, clock, since, stopped, code, tries, pushed, results, reruns>>

(* The installer (with --force) looks for a manifest that is not of a smoke    *)
(* pass and copies the weights packaged beside it, whatever its status.       *)
Install(s, o) ==
    /\ pc = "done" /\ ~s /\ o.status # "none" /\ o.w # NoWeights
    /\ here' = o.w
    /\ UNCHANGED <<box, call, pc, clock, since, work, stopped, code, tries, pushed, repo, reruns>>

InstallFromHub == \E s \in BOOLEAN : Install(s, repo[s])
InstallOutput == place = "kaggle" /\ \E s \in BOOLEAN : Install(s, out[s])

(* Time passes while no limit is due.                                         *)
Tick ==
    /\ clock < Timeout
    /\ CASE pc = "setup" -> clock < SetupMax
         [] pc = "prepare" -> clock < Limit
         [] pc \in Budgeted ->
              /\ clock < Deadline + Grace
              /\ place = "hf" => clock < Limit
         [] pc = "push" -> clock < since + PushMax
         [] OTHER -> FALSE
    /\ clock' = clock + 1
    /\ UNCHANGED <<box, call, pc, since, work, stopped, code, tries, pushed, results, reruns>>

Driver ==
    \/ Prepared \/ StepFails \/ SaveBest \/ BestSaved \/ Recorded \/ BadValidation
    \/ SaveHead \/ TrainingEnds \/ ScoringEnds
    \/ BudgetStops \/ NotPackaged \/ Package \/ DriverEnds \/ HardLimit

Next ==
    \/ Rent \/ SetUp \/ SetUpFails \/ Driver
    \/ Score \/ RealPass \/ Rerun \/ StartPush \/ Push \/ PushFails \/ NotebookEnds
    \/ Lose \/ InstallFromHub \/ InstallOutput
    \/ Tick

(* Time passes, and what a limit or the script does next is done; a step of    *)
(* the driver need never end.                                                 *)
Fairness ==
    /\ WF_vars(Tick)
    /\ WF_vars(SetUp) /\ WF_vars(BudgetStops) /\ WF_vars(HardLimit)
    /\ WF_vars(NotPackaged) /\ WF_vars(Package) /\ WF_vars(DriverEnds)
    /\ WF_vars(Score) /\ WF_vars(StartPush) /\ WF_vars(PushFails)
    /\ WF_vars(RealPass \/ NotebookEnds) /\ WF_vars(Lose)

Spec == Init /\ [][Next]_vars /\ Fairness

-----------------------------------------------------------------------------
Weights == [job : 0..MaxJobs, smoke : BOOLEAN, whole : BOOLEAN]
Output == [job : 0..MaxJobs, status : {"none", "running", "failed", "stopped", "complete"},
           w : Weights, score : Weights]

(* Every variable has its type.                                              *)
TypeOK ==
    /\ model \in Models /\ place \in Places /\ job \in 0..MaxJobs
    /\ smoke \in BOOLEAN /\ call \in {"train", "score"}
    /\ pc \in Working \cup {"idle", "setup", "check", "packaged", "returned", "push",
                            "done", "lost"}
    /\ clock \in Nat /\ since \in Nat
    /\ ckpt \in [BOOLEAN -> [w : Weights, record : {"none", "finite", "bad"}]]
    /\ out \in [BOOLEAN -> Output] /\ repo \in [BOOLEAN -> Output]
    /\ stopped \in BOOLEAN /\ code \in {0, 1, 124}
    /\ tries \in 0..Attempts /\ pushed \in BOOLEAN
    /\ here \in Weights /\ reruns \in 0..MaxReruns

(* No container is cut off by its platform: whatever hangs or is retried, the  *)
(* budget, the shared deadline and the hard limit leave room for what follows  *)
(* (launch.py's table; the notebook, unless its real pass is run again).       *)
NeverLost == pc = "lost" => reruns > 0

(* Nothing a smoke pass has trained is packaged as a real run's, is pushed to  *)
(* a real run's repository, or is installed.                                   *)
NoSmokeWeights == ~out[FALSE].w.smoke /\ ~repo[FALSE].w.smoke /\ ~here.smoke

(* Where a manifest says a run is finished, the weights beside it are that     *)
(* run's, although an upload leaves what it does not replace.                  *)
RecordIsOfWeights ==
    \A s \in BOOLEAN : \A o \in {out[s], repo[s]} : Finished(o) => o.w.job = o.job

(* A job that could push ends with exit code 0 exactly if the manifest it has  *)
(* pushed says that its run is finished.                                       *)
ExitTells ==
    place = "hf" /\ pc = "done" /\ pushed
      => /\ repo[smoke].job = job
         /\ code = 0 <=> Finished(repo[smoke])

(* Whatever hangs in it, a job that has begun its work ends by itself.         *)
JobsEnd == (place = "hf" /\ pc = "prepare") ~> (pc = "done")

=============================================================================
