# Verification of SatQuery

TLA+ models of this repository, model-checked with TLC and proved with TLAPS:
the service that answers questions about satellite images, the page it is used
from, and the machinery that trains, stages and installs the models it uses.

1. [The system](#the-system)
2. [What can go wrong](#what-can-go-wrong)
3. [Modules](#modules)
4. [Runs](#runs)
5. [Bounds and fairness](#bounds-and-fairness)
6. [Proofs](#proofs)
7. [Where the code and its documentation disagree](#where-the-code-and-its-documentation-disagree)
8. [What is not modelled](#what-is-not-modelled)
9. [Plan](#plan)

## The system

| part | state | operations | talks to |
|---|---|---|---|
| **Run service** `satquery/api/main.py`, `store.py` | SQLite rows, upload directories, one event queue per stream | `create_run`, `stream_run` and its worker, previews, overlays, reports, `/probe`, `_prune_run_dirs` | the pipeline, retention, the console |
| **Retention** `satquery/controller/retention.py` | `artifacts/<run_id>` | `prune_run_artifacts` | deletes what runs write |
| **Ingest** `satquery/ingest/*` | a manifest per request | read, classify, check, co-register | rasters on disk |
| **Query pipeline** `satquery/controller/*`, `verify/*` | a plan and a trace per query | route, validate, execute, verify, gate, score, abstain | ingest, tools |
| **Learned tools and deployment** `satquery/tools/*`, `readiness.py`, `scripts/install_retrained.py`, `demo_preflight.py`, ... | a registry per process, a handle per model, weights on disk | load once, answer or stub, install, verify, preflight | the pipeline, the operator |
| **Console** `frontend/app/*` | attachments, an area, the readings of a run, a map | probe, submit, read the stream, draw overlays, open a permalink | the run service |
| **Campaign queue** `training/cluster/campaign.py` | `campaign_state.json`, a heartbeat file per run, a copy of the state in every process | `load`, `save`, `reclaim_stale`, `next_run`, `launch`, `step`, `reset` | trainers, other sessions through the file only |
| **Checkpoint files** `training/common/checkpointing.py` | `ckpt_step_N.pt`, `adapter_step_N/` | `save_checkpoint`, prune, `maybe_resume` | every trainer |
| **QLoRA trainer** `training/track_b_vlm_qlora.py` | step, validation history, early stop; `adapter_best/` | train, skip, validate, save | checkpoint files |
| **Epoch trainers** `training/train_*.py`, `track_a_*.py`, `stage_a2_transfer.py`, `common/eval_only.py` | one-file checkpoints, a sidecar, `best.pt`, `metrics.json` | train a pass, validate, save, score, evaluate read-only | checkpoint files |
| **Managed jobs** `training/kaggle/retrain.py`, `hf_jobs/launch.py`, the retraining notebook | work and output directories, a Hub repository | prepare, train, check, package, score, push | trainers, the installer |
| **Data staging** `scripts/fetch_*.py`, `training/cluster/stage_data.py` | two locks, raw trees, a manifest | fetch, verify, build, ship, name the runs unblocked | the queue |
| Reports, gazetteer, synthetic data, CLI, evaluation, other scripts and pages | per call | | |

**Training side.** A *session* (a notebook kernel, `campaign.py all`, or a
one-shot command) loads the state file, re-queues runs whose session died,
picks a run, claims it with a save, starts the trainer, saves the trainer's
pid, follows its output while touching a heartbeat, and saves the outcome.
Nothing serialises sessions: the file is replaced atomically, but a decision is
a load, some thought and a save. The trainer resumes from the checkpoint with
the highest step, trains, saves at intervals and prunes. A *managed job* is a
rented container in which a driver trains one model under four nested limits
and pushes what came of it; an installer brings the result to where the service
reads it. What any of them trains on was fetched, prepared, shipped and
verified before.

**Serving side.** The server builds its registry of tools once, when it is
imported. A request becomes a row, a directory of uploads and a run of the
pipeline, in the handler itself or in a worker thread with an event queue. The
pipeline reads the images into a manifest, chooses a task the manifest makes
legal, runs the task's tools, checks what they claim against measured indices,
and answers or says why it does not. The console sends the request, and shows
each event as it arrives.

## What can go wrong

`PROJECT.json` lists each hazard at its line, with the properties that would
catch it. By part, what makes it correct:

- **run service** - a run has one outcome, which stands; its client is told
  once, at most what the record says; every stream ends; retention takes the
  oldest only. Hard: an `execute` that succeeds and a `commit` that fails, the
  three places that record a fate (row, stream, files), a worker on its own
  thread while handlers hold the event loop, a server that dies.
- **pipeline** - only permitted tools run, on images that overlap; what is shown
  does not contradict what was measured; a run without an answer says why. Hard:
  tools that raise in the middle of a plan, fallbacks, parameters merged late,
  several reasons not to answer at once.
- **deployment** - a GO excludes placeholders, verified tools answer with their
  model, answers and digests are of one generation. Hard: files replaced under a
  live server, two first requests, availability that is judged once.
- **console** - one run on the page, nothing asked before it is stored, the layer
  drawn is the one highlighted, the Run button comes back. Hard: answers that
  arrive late or never.
- **queue** - one trainer per checkpoint directory; a saved outcome stays; a
  dependency is trained before its dependant; nothing starts from scratch over
  checkpoints by accident; every trainable run is trained in the end.
- **checkpoints and trainers** - after any kill the newest checkpoint loads,
  progress is never traded for older work, a kill costs one save interval, no
  part of the rows is skipped, what is measured was trained.
- **managed jobs** - nothing is lost for want of time, smoke weights stay apart,
  manifests and exit codes tell the truth.
- **staging** - nothing partial of a download is trusted, a run is called ready
  only over data as the manifest recorded it.

## Modules

| module | models |
|---|---|
| `RunLifecycle` | what a client may rely on: the abstract specification of the service |
| `RunService`, `Upload`, `Replies` | event loop, workers, store and retention; what is made of the files of a request; what is answered about a run afterwards |
| `RunServiceProofs` | the refinement, and error events against rows |
| `Products`, `Ingest`, `Routing`, `Evidence` | pure operators: a vendor's archive as one image, manifest, plan, and what may be shown |
| `Subsequences` | the part of a sequence at some places, without recursion |
| `QueryPipeline`, `MCQuery` | one query through the controller; the requests and answers TLC tries |
| `QueryProofs` | permitted parameters, overlap, and what is read in the end, for every request |
| `Deployment`, `MCDeployment` | learned tools from installer to answer; the suites served |
| `DeploymentProofs` | who answers, with what, for any suite, any number of threads and generations |
| `Composer`, `Board`, `MapView` | parts of the console: attachments and area, pipeline board, map |
| `Console`, `MCConsole` | the console composed with the API; files and areas TLC tries |
| `ConsoleProofs` | one run on the page, its trace, its map and its board |
| `Campaign`, `MCCampaign` | the queue: state file, sessions, trainers, machines, faults; small campaigns |
| `CampaignProofs` | types and dependencies; the inductive invariant of the disciplined queue |
| `Checkpoint` | the QLoRA trainer over its checkpoint directory, through kills |
| `CheckpointProofs` | types, loadable checkpoints, progress, the best; what a kill costs |
| `Trainers`, `MCTrainers` | the trainers that count epochs, and evaluations beside them |
| `Retrain`, `RetrainProofs` | a managed job from rent to installed weights; time, smoke weights, manifests, exit codes |
| `Staging`, `MCStaging` | from a hub to a verified manifest on the cluster |
| `TrainersProofs` | passes, scores and weights of `Trainers`; locks and verdicts of `Staging`, what is trained on |

`RunService` uses the answers of `Upload` as an accepted request; `Console`
composes `Composer` (which extends `Upload`: the probe it asks), `Board` and
`MapView` (which extends `Replies`) with a server reduced to what a page can
tell. `QueryPipeline` extends `Routing` and `Evidence`, both of which extend `Ingest`
(which extends `Products`).
`Trainers` is started the way `Campaign` guarantees. Other boundaries are named
where they are crossed.

### RunService

The handlers of `/runs` and `/runs/stream` are coroutines that never await, so a
handler holds the event loop (`loop`) from its first to its last statement;
while it does, nothing leaves the server. `row` is what the shared connection
sees and `durable` what a dead server would leave: every method of the store is
an `execute` and a `commit`, either can fail, and a change that was executed but
not committed is flushed by whichever commit comes next, another run's too.

| code | action |
|---|---|
| the two endpoints | `Accept` (with what `Upload` admits), `Create`, `Save` |
| `controller.run`, in the handler or a worker | `Execute` |
| `store.complete`, `store.fail` | `Complete`, `Fail` |
| the last event, and the trace that cannot be serialised | `Emit` |
| `_prune_run_dirs`, `prune_run_artifacts` | `List`, `Rm`, `RmArts`: a listing, then deletions by a list that may have gone stale; for "newest first", a directory keeps the set of those last written after it |
| `generate` | `Deliver` |
| `get_run_report` | `Report` (its directories count against `Keep`) |
| | `ServerDies`, `Restart` |

`Lifecycle == INSTANCE RunLifecycle WITH verdict <- ..., told <- ...` maps the
durable status to the verdict and what the client was told to the promise; an
error status counts as being told an error.

### QueryPipeline

One action per stage of `Controller.run`: `IngestRaises`, `DoIngest`,
`RouteBlocked`, `Route`, then per step of the plan `RunIndex` or `RunLearned`,
`Abort` or `FallBack`, then `Compose`, `Gate`, `Decide`. A request is its files,
its mode and the profile; what rasters hold, what models write and how sure they
are, what the classifier makes of the query, which exceptions a tool raises and
which sentences the entailment model doubts is chosen at the step that learns of
it, and kept, so that two steps see one raster. The capability matrix is
`configs/capability_matrix.yaml`, in full. Text is what the properties tell
apart: a sentence carries the parts the claim extractor would cut it into.

### Deployment

A tool is a record: does it need something beside its weights (a vocabulary,
band statistics, a header), does its loader open that file again, does it
consult the mask. Each part of it on disk is absent, damaged or of a generation.
A server has the environment of its start, the registry it built then, and per
tool a handle, a digest and a lock; a request goes through `Ask`, `Get`, `Lock`,
`ReadVocab`, `Open`, `LoadCheckpoint`, `Record`, `Publish`, `ConditionOnMask`,
`Infer`, `Answer`, `Leave`. The installer works file by file (`Install`,
`Remove`, `MakeDir`, `Copy`, `Copied`, `KillInstaller`), files lose their
contents (`Damage`), and `Verify`, `Preflight`, `Launch` and `Leaves` are the
scripts around a demo; `preflight` holds the servers that were given a GO.
`env = FALSE` stands for a start without the paths of the assets, or without
torch. `calm` are the tools nothing was installed for since the server started;
it and `verified` exist for the properties only.

### Console

`page[x]` is the request the reading `x` on the page came from, so that two runs
mixed on one page are visible. The user's side: `AddFiles`, `RemoveFile`,
`ShowOnMap`, `Draw`, `ClearArea`, `Submit`, `OpenPermalink`; answers:
`ProbeAnswered`, `Read`, `Finish`, `Catch`, `PreviewAnswered`, `MapStep`,
`StoredRunAnswered`; the server: `Accept`, `Stage`, `Store`, `Complete`, `Raise`,
and `Break` for a connection that is lost. Each answer is about what was asked,
whatever is on the page by then. The board is a function of the events, as in
`Pipeline.tsx`; so is what a node shows in the end.

### Campaign

`disk` is the state file, `mem[s]` what session `s` holds as `self.state`,
`pc[s]` where it stands between two file accesses, `trainer[p]` the subprocess
with pid `p`. The steps of `launch` between which another process can act are
actions of their own:

| code | action |
|---|---|
| `Campaign.__init__`/`load`, `main` | `Start`, `Again` (the `load` of `step`, or of a cell) |
| `reclaim_stale` and its `save()`, in `step`, `status`, `watch`, `run` or a cell of the notebook | `Reclaim` |
| `next_run` returns None | `NothingPicked` |
| `launch`, early returns | `Refuse` |
| `launch`, up to and with the re-read inside `save(only=...)` | `Take`: in `Claim` after `step` or `run`, in `Launch` where the notebook's `campaign.launch(id)` decides on what the kernel holds |
| `os.replace` of a `save(only=...)`, and the first touch | `Write` |
| `Popen` | `Spawn` |
| the second save's re-read | `Record`, then `Write` |
| the loop over the trainer's output | `Beat` |
| `wait()`, the outcome | `Finish`, then `Write` |
| `except KeyboardInterrupt`, and the `finally` after it | `Interrupt`, then `Write` |
| any other exception and `finally` | `LaunchError` |
| `reset`; the notebook's retry cell | `Reset`, `Retry` |
| | `Crash`, `NodeLoss`, `TrainerExits`, `HeartbeatAges`, `StageData`: the environment |

A session drives (`all`, `step`, the notebook's `run_all`), is a cell of an idle
kernel (one that loads and reclaims, `watch` included, or one that launches), or is
a one-shot `run` or `reset`; `status` and `watch` on the command line are a cell
whose process ends. `launch` by itself loads nothing, so a kernel that has been
idle decides on a copy that may be hours old.

`save(only=r)` re-reads the file and replaces it: `Merged` is the re-read,
`Write` the replacement, so another session's save can fall between them.
`save()` without a run is one step for `Reset`, `Reclaim` and `Retry`: what it
writes does not depend on what it re-reads.

`fresh` is the one fact the code derives from time: is a run's heartbeat younger
than `STALE_AFTER_S`. The heartbeat file and the `heartbeat` field are the same
fact, `reclaim_stale` taking the newer of the two. The steps that change no
shared state (estimates, logs, throttled echo) are part of the step they are in.

`Spec` is everything the code lets happen. It does not have exclusion, which
`campaign_race` shows. `DisciplinedSpec` restricts it to what the
operators of a campaign have to keep to, or a lock file would keep for them:

- one session at a time is between a load and the save it leads to;
- nobody starts deciding while a terminated trainer is still dying;
- `run`, `reset` and the notebook's launch and retry are not used on a run that a
  trainer or a launch still holds, the latter two only when the kernel's copy is
  current;
- a driver does not die between `Popen` and the save of the pid, and its orphan
  is on the only machine there is;
- host names name machines, one each (`HOSTNAME` unset on two machines makes
  both `unknown`);
- across machines, a trainer being followed prints at least every
  `STALE_AFTER_S`, since the heartbeat is touched per line of output.

Each condition is needed: with any one of them dropped, TLC finds two launches of
one run, an orphan off the record, or an outcome undone, within the bounds below.
Kills, interrupts, exceptions, reclaims, resumptions and orphans remain. What it
excludes is therefore not shown safe: a reset of a busy run (`campaign.py:862`)
and a session beside a dying trainer (`campaign.py:648`) are hazards no property
covers.

### Checkpoint

`pt`, `adapter`, `best` and `record` are the files; `step`, `history`, `stop`,
`streak` and `stale` the trainer's memory, which a kill loses. A save is
`Save` (the adapter directory is being written), `SaveAdapter` (it is whole),
`Publish` (`os.replace` of the `.pt`), then `Unlink` and `RemoveTree` for every
stale checkpoint, oldest first, and `Return`; `Crash` may fall between any two.
`gen` tells apart the weights of different fresh starts, so that a `.pt` over
another run's adapter, or a resume from another run's checkpoint, is visible.
`ResetSpec` adds the fresh start over existing checkpoints that
`campaign.py reset` leads to (`FreshStart`), and is what `checkpoint_resume`
checks; `Spec` is a run in a directory of its own. With two runs' files in one
directory the newest checkpoint need not load: a fresh run killed while it saves
over the old run's newest leaves its `.pt` beside a torn adapter. `LatestLoadable`
therefore speaks of a directory with one run's files (`Unmixed`), which without a
reset is always so.

A step of the model stands for the greatest common divisor of the save and the
validation interval: `configs/campaign.yaml` saves every 250 and validates every
500, so 1 and 2.

### Trainers

The trainers that count epochs are one loop: `Start`, `Load`, `Sidecar` and
`SidecarWritten` (the vocabulary or statistics beside the weights), `Batch`,
`BadBatch`, `EndEpoch`, `SaveBest`, `BestSaved`, `BestMetrics`, `Finish`,
`Publish`, `Unlink`, `Saves`, `Score`. What they do differently is a record of
`Code`: `split` are those that score only if the split has rows, so that for them
`Score` may write nothing and return 0 all the same. Weights are the version of
the rows they were trained on and how many complete passes; a pass includes the
batches a trainer skips for a loss that is not finite. `Kill`, `Restage` (other
rows are staged) and a second process, a resumed trainer or a read-only evaluation
(`eval_only.py`), interleave.

`QueueSpec` is `Spec` started as the queue starts it: afresh only where there is
no checkpoint (`Resumes`). That is what `FreshStartOnlyInFreshDirectory` says of
`Campaign`. `NoEpochSkipped` and `MeasuresTrained` hold, and are proved, without it.

### Retrain

Time is a clock of ticks of a tenth of an hour, because four limits cut each
other off: the budget of a training call, the deadline of the driver, its hard
limit, and the platform's own. `Rent`, `SetUp`, `SetUpFails`, then the driver:
`Prepared`, `SaveBest`, `BestSaved`, `Recorded`, `BadValidation`, `SaveHead`,
`TrainingEnds`, `BudgetStops`, `ScoringEnds`, `NotPackaged`, `Package`,
`StepFails`, `DriverEnds`, `HardLimit`; then the script around it: `ToScore`,
`Score`, `RealPass`, `Rerun`, `StartPush`, `Push`, `PushFails`, `NotebookEnds`,
`Lose`; then `InstallFromHub`, `InstallOutput`. Directories are kept apart by
smoke or real, as in the code; each holds the job its contents came from. A push
is an overlay: what it does not bring stays (`Overlay`).

### Staging

One operator, a command at a time: `FetchDatasets` or `FetchModels`, per key
`Download`, `ByHand` or `OnlyVerify`, `VerifyTree`, `EndFetch`, `KillFetch`,
`Extract` (by hand); `Build` of the manifest; `StartVerify`, then a `VerifyFile`
for each file the manifest lists, between which others arrive, and the `Verdict`
of a dataset, from which `RunsUnblocked` lists the runs. `save_lock` writes in
place: a kill in it leaves the lock `torn`, over which no command of that script
starts until somebody removes it (`Discard`), and the trust it held with it. The
transfer (`Send`) and the hub's releases (`Release`) are external.

`snapshot_download` is taken to raise whenever it has not fetched everything.
`LockedIsWhole` rests on that: a release of the library that hands back a
directory it finds, when the hub does not answer, would have the part trusted.

The scripts of `training/prepare` make the prepared files from the trees
(`Prepare`). A `Script` is what distinguishes them when they are killed, or run
over half a corpus: does the output grow row by row or appear at the end, and are
rows without their files left out or is the whole refused. That is what decides
which files, whole or short, a manifest may record and a verification then meet,
and all that is kept of the ten scripts. A kill in the one `write_text` of a script
that writes at the end, the empty index `cdvqa.py` writes before it returns 1, and
the tiles `whu_opt_sar.py` unpacks one archive at a time, are not told apart from
the short file or the untouched one.

Steps nobody could notice are not taken: a release only while what it replaces
has still to be fetched, an extraction, a preparation or a discard only if a command
may follow, a transfer only once there is a manifest to be verified against and not
beside a fetch, which it does not meet.

## Runs

| run | specification | properties |
|---|---|---|
| `service` | `RunService!LiveSpec` | `StreamErrorsAgree`, `LifecycleKept`, `EvictedIsOld`, `StreamsEnd` |
| `query` | `QueryPipeline!Spec` | `OnlyPermittedRun`, `JointAnswersNeedOverlap`, `NoSilentAnswer`, `AskedOrTold`, `ShownAgrees` |
| `query_measured` | the same, change questions only | `MeasuredChangeStands`, violated |
| `deployment` | `Deployment!Spec` | `GoMeansModels`, `VerifiedServes`, `AnswerAgrees`, `HandleStays` |
| `console` | `Console!Spec` | `OneRunOnPage`, `ToldIsStored`, `LayerAgrees`, `BoardPlaysOut`, `RunEnds` |
| `campaign_onenode` | `Campaign!DisciplinedSpec` | `OneTrainerPerDirectory`, `OrphanOnRecord`, `DependenciesTrained`, `OutcomeSurvives`, `FreshStartOnlyInFreshDirectory` |
| `campaign_twonodes` | `Campaign!LiveSpec` | `OneTrainerPerDirectory`, `RunsSettle` |
| `campaign_race` | `Campaign!Spec`, no faults | `OneTrainerPerDirectory`, violated |
| `checkpoint_resume` | `Checkpoint!ResetSpec` | `LatestLoadable`, `WorkLost`, `BestKept`, `ProgressKept` |
| `trainers` | `Trainers!QueueSpec` | `NoEpochSkipped`, `MeasuresTrained`, `CompletedIsKept`, `MetricsAreOfNewest` |
| `retrain` | `Retrain!Spec` | `NeverLost`, `NoSmokeWeights`, `RecordIsOfWeights`, `ExitTells`, `JobsEnd` |
| `staging` | `Staging!DataSpec` | `LockedIsWhole`, `VerdictsTell` |

What they show:

- `service`: a run gets one outcome and its client is told once, at most what
  is on disk (`LifecycleKept`, against `RunLifecycle`); a stream that reported an
  error is a failed run, whatever is flushed later (`StreamErrorsAgree`); what is
  evicted has had `Keep` successors, although listings go stale (`EvictedIsOld`);
  every stream ends, whatever raises. A row left running by a dead server stays so.
- `query`: a plan is validated before the caller's parameters are merged into
  it, and still only permitted ones run; two images that do not overlap are never
  compared or fused into an answer; every run that ends has something to read; a
  query that asked for another task is told; of the sentences the gate judges,
  none that is shown contradicts what was measured.
- `query_measured`: an exact change is refused because its own decimal point
  cuts the sentence in two.
- `deployment`: after a GO no answer is a placeholder; a tool that could be
  verified answers with its model; answer, statistics and digest are of one
  generation while nothing is installed; a loaded model stays.
- `console`: what is on the page is of one run; nothing is asked for before it is
  stored; the layer drawn is the one highlighted; the board plays out; the button
  comes back.
- `campaign_*`: exclusion, orphans, dependencies, outcomes and fresh starts over
  all interleavings of two sessions, by pids on one machine and by heartbeats on
  two; that runs settle; and how two drivers race.
- `checkpoint_resume`: of every state two kills and a reset can leave behind, the
  newest checkpoint loads, if its directory has one run's files, and little and
  nothing good is lost. `WorkLost` counts the
  non-finite losses: the loop's `continue` also passes by the save that was due,
  so a kill costs one save interval and one more for each such loss.
- `trainers`: no checkpoint claims a pass that was not made; no score on record is
  of an untrained model; what a trainer returned with stays: whatever is resumed,
  killed or pruned later, the next resume loads weights that are as far; and while
  the newest checkpoint is the one it returned with, the `metrics.json` it wrote is
  of those weights.
- `retrain`: nothing is cut off before it is pushed; a smoke pass's weights stay
  its own; a manifest is of the weights beside it; the exit code tells.
- `staging`: the lock trusts no partial tree of what is downloaded, through kills,
  failures, a second release and a lock that is torn and removed; ready and
  blocked mean what they say of every file the manifest lists, even while files
  arrive, but for those sent again after they were looked at, and what was not
  verified is neither. As recorded is not complete: a short file that the
  manifest recorded is as recorded.

Every property is one that some plausible bug in a mapped definition breaks;
`PROJECT.json` holds one such mutant for each.

## Bounds and fairness

**Service.** Two runs by either endpoint and one report over `Keep = 1`, so that a
third directory forces an eviction while both runs are under way; one fault.
Fairness: threads are scheduled and the loop serves whoever is ready (`Step`,
`Deliver`); nothing promises a request, a patient client or a restart.

**Query.** Twenty-seven requests: single images, pairs in both orders, pairs that
overlap too little, a radar over an optical image, missing bands, clouds, a lost
CRS, a benchmark image, an unreadable file, three images, none, both profiles,
parameters legal and not. Two extents on either side of the presence threshold,
two trusts, two scores on either side of the abstention threshold, one doubted
sentence. A query ends, so deadlock is checked against `Ended`; there is no
liveness to state, since a call that hangs hangs its run.

**Deployment.** One tool of every kind there is (no side file, header, vocabulary,
statistics, vocabulary and mask), two threads (symmetric: no liveness is
checked), two generations, one start of the server, two requests, one fault.

**Console.** Two submissions, a located scene and a photograph of no place, limits
scaled so that both files just fit, two overlays (a stale answer needs two), one
step of the plan. Fairness: a request's worker goes on, and so does the loop that
reads its stream while the page is open; nothing promises that previews, overlays
or probes are answered.

**Campaign.** Two runs, one depending on the other (the smallest graph in which a
dependency matters); two sessions, since every violation found needs two; three
trainer pids on one machine, so that two orphans and a rival fit, two on two;
`MaxEvents` bounds kills, interrupts, errors, node losses and operator commands
together (2 on one machine: a kill and what it does to a later command, or two
kills; 1 on two). Drivers start and restart without bound. Symmetry is over pids,
and on one machine over sessions; it is not used where liveness is checked.
Fairness (`LiveSpec`): a process that can move moves, a trainer ends, an
unattended heartbeat ages. "Open the notebook again and run the same cells
again" is strong fairness of `Start`; that an idle session ends (the command
line returns, an idle kernel is culled) is strong fairness of `Quit`. `Finish`
and `Start` take turns under the discipline, hence strong fairness. Data is
never promised: `StageData` has none, and `RunsSettle` speaks of staged runs.

**Checkpoint.** Eight steps, a save at each and a validation at every other, against
`KeepLast = 2`, so pruning, the protected checkpoint and patience all act; three
losses order the validations; two kills, so that a resumed run is killed again;
two non-finite losses against a patience of two; one reset, after the run has ended,
failed or been killed.

**Trainers.** One trainer of each of the six kinds, two processes (symmetric), two
batches a pass, a save at every second step with one kept, one or two epochs,
one kill, one evaluation, two bad batches, one restaging: a run is killed,
resumed for fewer epochs while an evaluation reads the directory, and its rows
change meanwhile.

**Retrain.** Each model of the table in each place; a setup and a push of up to a
tick, a preparation of up to ten, two containers, one repeated pass. Fairness:
time passes, and what a limit or the script does next is done; no step of the
driver need ever end. That is what `JobsEnd` is about.

**Staging.** Beside a model, a corpus that is downloaded and a gated one, of which every
script prepares two files (alike, hence symmetric); nothing prepares the first. Two
commands: a fetch and its retry, a fetch and what follows a torn lock, or a manifest
and the verification against it. One new release. Three files sent, so that both
arrive and one of them again, before or after its turn. Longer sequences, more
datasets and more files are what the theorems cover. No liveness: everything waits for
an operator.

Deadlock is not checked where the system may stop: every campaign, training run,
container and command ends, a server may be idle, and bounds run out.

## Proofs

Each theorem holds for every value of the constants that satisfies the assumption
of its module, which gives the constants their types and no more, except where
said. `PROJECT.json` lists them.

**Service** (`RunServiceProofs`). `Implements`: `Spec => LifecycleKept`, the refinement
of `RunLifecycle`. A commit flushes what others left pending, so the invariant is
about two versions of each row: what is pending may still follow what is durable
(`PendingFollows`), and once a verdict was told or queued both versions agree with
it and the run's own code writes no more (`CompleteStands`, `ErrorStands`).
`Commit` and `NoCommit` give each step's effect on the verdicts, and one lemma
per action its effect on the run's own part. `StreamErrorsRecorded` follows from
the same invariant.

`OldestGo`: `Spec => EvictedIsOld`. `FilesInv` says that what was written last after a
directory was written after it was made, so that a listing names only what has
aged (`Lists`), and that a list that has gone stale stays right: what it names has
aged and, once gone, does not come back (`Listed`).

**Query** (`QueryProofs`). For every set of requests, rasters, answers and failures:

- `OnlyPermitted` and `OverlapRespected` rest on `Routed`: whichever way led to the
  steps, the plan in execution passed validation after the caller's parameters
  were merged in, against the tasks these inputs permit.
- `SomethingToRead`, `ToldWhatWasDropped`, `NothingDisprovedIsShown`: always
  `NoSilentAnswer`, `AskedOrTold`, `ShownAgrees`. `Accounted` carries to every stage
  what the end will be asked: the plan has the shape the capability matrix gives
  it, the steps passed have run unless the plan can do without them, an answer
  is missing only with an excuse, and what the gate let through stands against
  the measurements. The matrix is checked row by row (`Shaped`). A score below
  the abstention threshold is the least of its parts; the least checkable claim
  of a sentence exists because a nonempty set of numbers has one
  (`WellFoundedInduction`). Sentences are selected by `At`, whose lemmas replace
  an induction over `SelectSeq`.

**Deployment** (`DeploymentProofs`). For every suite of tools, number of threads,
generations, starts, requests and faults: `AfterGoModels`, `WhatLoadedServes`,
`AnswersAgree` (always `GoMeansModels`, `VerifiedServes`, `AnswerAgrees`) and
`HandlesStay` (an action property). `IInv` follows the weights from the disk to
the answer, for the tools nothing was installed for since the server started:
the two files of a tool are of one generation because the old ones are gone
before the first new one is copied (`Sane`, `Installing`); the registry is what
the disk was (`RegistryTrue`); a thread that loads holds the lock, and nobody has
loaded before it (`LocksHeld`); what it has read so far, and what is in memory,
is what is on disk (`OnItsWay`, `HandlesCurrent`); whatever failed to answer, or
the mask it consults, could not be loaded (`Blameless`).

**Console** (`ConsoleProofs`). For any limits, number of submissions and steps:
`OnePage`, `ToldOnceStored`, `DrawnIsHighlighted`, `BoardIsLit` (always
`OneRunOnPage`, `ToldIsStored`, `LayerAgrees`, `BoardPlaysOut`). One loop reads, and
it reads the stream of the last request (`OneReader`). What was read and what is
still on the wire of that stream is, taken together, in the order the server
says it: an event only after those that precede it, nothing after `complete`,
which is sent once the run is stored (`Streams`). A page therefore knows a run is
complete only when it is in the store (`PageSound`, `OpenedSound`). Of the
overlays on their way, only that of the highlighted one is still live
(`Settled`). The board is a fold over the events; what it does with them is shown
for the last event by the order of the events before it, not by induction.

**Campaign.** For every set of runs, dependency graph, number of sessions, pids and
machines:

- `TypeCorrect`: `Spec => []TypeOK`.
- `DependenciesFirst`: `Spec => []DependenciesTrained`, races and faults
  included. Copies of the state are mixed and written back in any order, so the
  invariant is about copies, not about the file: every copy, on disk or in
  memory, calls done only what was trained (`CopiesHonest`). Every update keeps
  a copy honest and `next_run` reads one.
- `Exclusion`, `OneLaunch`, `OrphansAreFound`: `DisciplinedSpec` implies always
  `OneTrainerPerDirectory`, `OneHolder`, `OrphanOnRecord`. Exclusion is not
  inductive: a session decides on a copy. `IInv` adds that deciding sessions are
  alone (`OneWindow`) and their copies current (`MemoryCurrent`); that the file
  knows the launches in progress (`OneEngaged`, `HolderOnRecord`, and across
  machines `HeldIsFresh`); that every live trainer is followed by its launch or is
  a visible orphan (`TrainerAccounted`); that nobody decides while a trainer dies
  (`DyingIsAlone`); and that operator commands are about free runs
  (`AskedIsFree`). Each conjunct has a lemma. The main step is `ClaimFree`:
  whoever takes a run (`Takes`: a claim, or a disciplined launch of the notebook)
  finds it free, because a held or orphaned run is on record as running and
  `reclaim_stale` sees who holds it (`OrphanKept`).
- `OutcomesStay`: `DisciplinedSpec => OutcomeSurvives`; `FreshMeansEmpty`:
  `DisciplinedSpec => FreshStartOnlyInFreshDirectory`. Two more conjuncts over
  `IInv`: a launch about to be saved is not about a run that has its outcome
  (`Unsettled`), and a directory with something in it has an attempt on record,
  in the file and in the memory of whoever launches into it (`AttemptsKnown`).

**Checkpoint.** For every step count, interval, `keep_last`, patience and loss:

- `CheckpointTyped`: `Spec => []TypeOK`.
- `NewestLoads`: `Spec => []LatestLoadable`; the invariant is that every
  checkpoint, not only the newest, is whole from its `os.replace` on (`AllWhole`),
  which takes that the trainer never writes at or below a checkpoint there is
  (`Beyond`), that the adapter about to be published is its own (`AdapterOwn`)
  and that what was just saved is not pruned (`NewestSpared`).
- `ProgressIsKept`: `ResetSpec => ProgressKept`, resets over an earlier run's
  checkpoints included. There nothing of `Beyond` holds; what does is that nothing is
  on the list to prune without a newer checkpoint beside it (`NewerStays`), which
  survives because the oldest is unlinked first.
- `WorkIsBounded`: `Spec => []WorkLost`. Between two steps the trainer may be past
  saves it should have made. The invariant says that some checkpoint is within
  one interval per bad loss of the last step at which a save was due (`Covers`);
  `Floor` and three facts of division carry the arithmetic.
- `BestIsKept`: `Spec => []BestKept`, where a save is due wherever a validation is
  (`SavedWhereValidated`; the defaults, `--save-every 25` and `--val-every 100`, are
  such). Without it a new best has an `adapter_best` and no checkpoint of its own.
  `BInv` says where the best is while it is being validated, recorded and saved.

**Trainers** (`TrainersProofs`).

- `NothingSkipped`: `Spec => []NoEpochSkipped`, fresh starts over old checkpoints
  included. `PassInv` adds that no loop is ahead of its weights (`Abreast`) and no
  save under way records more than them (`Marked`).
- `ScoredIsTrained`: `Spec => []MeasuresTrained`, where a trainer that counts losses
  that are not finite gives up within a pass (`PatienceWithinPass`; the default is
  3). With no patience, 0, or one longer than a pass, every batch may be skipped
  and the model scored as it was built. `TaughtInv` says of each process whether
  its weights have seen a batch, and if not, that every one so far was skipped.
- `CompletedStays`: `QueueSpec => []CompletedIsKept`, and `MetricsStay`: `QueueSpec =>
  []MetricsAreOfNewest`. `KeptInv` has one trainer at a time, ahead of every checkpoint,
  which never prunes its last. `HeldInv` adds what every trainer that returned is
  owed while others run: the newest checkpoint is as far as it was, a training
  still at its step has its weights (`Held`), and while its checkpoint is the newest,
  the metrics are its own.

**Staging** (also `TrainersProofs`). `LocksAreWhole` and `VerdictsAreSo`: always
`LockedIsWhole` and `VerdictsTell`. Nothing touches a tree between its download
and its digest, whatever is killed or released meanwhile (`LockInv`); a file that
was found is as recorded, and one that was not is not, until it is sent again
(`FoundIsSo` in `VerdictInv`), for any number of files.

**Retrain.** `TypeCorrect`; `SmokeStaysApart` (a smoke pass has its own work directory,
`SmokeInv`); `ManifestsAreTrue` (work and output directories hold what this
container trained: `OwnWork`, `OwnOutput`); `ExitCodeTells` (`CodeTells`);
`LimitsFit`: `Spec => []NeverLost`, from `MarginAssumption`, which is what the table
of limits leaves room for: a setup and three pushes in 0.4 h (a caption job has
exactly that between its hard limit and the platform's), a preparation in 1.3 h.
`TimeInv` bounds the clock at each point by what may still follow (`JobTime`,
`NotebookTime`); `Margins` is the arithmetic of the table.

Only model-checked: the properties of the runs that expect a violation, and liveness
(`StreamsEnd`, `RunsSettle`, `RunEnds`, `JobsEnd`), which rests on fairness and
`ENABLED` and is beyond the prover. Every other property of a run is a theorem.
`AcyclicAssumption` is what `_validate` establishes and is used by no proof.

## Where the code and its documentation disagree

Two findings have a run that TLC finds violated:

1. `campaign_race` - the load-decide-claim of `step` is not atomic, and "a run
   owned by a live process elsewhere is never touched" (`campaign.py:32`) does not
   hold.
2. `query_measured` - `extract_claims` splits at decimal points, so that the exact
   change `change_vqa` measured is refused (`verifier.py:134`).

Further disagreements, met while modelling. They have no run of their own; those
marked * are counterexamples of TLC to a stronger property than the one stated.

*Queue and trainers*
- * `save()` without a run is not the merge its docstring describes: a stale copy
  can undo an outcome (`campaign.py:381`).
- * `launch` does not look for the orphan whose pid is recorded for that purpose
  (`campaign.py:551`).
- * `reset` says that the run "will start fresh" (`campaign.py:864`), but leaves its
  checkpoints where they are: the fresh run, killed below the last of them, is
  resumed from the run it replaced (`checkpointing.py:145`), and killed while it
  saves over the newest of them, cannot be resumed at all (`checkpointing.py:185`).
- * A resumed QLoRA trainer has no validation history, so nothing is protected
  until the next validation, and the recorded best is pruned
  (`track_b_vlm_qlora.py:516`).
- Epoch trainers repeat the part of a pass they were killed in
  (`train_caption.py:215`), so a session shorter than a pass never ends one;
  `train_change_vqa.py:427` forgets the best score.
- `track_a_full.py:363` recomputes the band statistics under `--eval-only`.
  `track_a_encoder.py --eval-only` without `--resume` scores an untrained model and
  overwrites `metrics.json`.
- A trainer without rows to score on returns 0 and the queue records it done, with no
  `metrics.json` or an earlier run's beside the new weights
  (`train_change_mask.py:279`, `track_a_full.py:468`, `stage_a2_transfer.py:291`,
  `train_optsar_fusion.py:294`, `train_change_caption.py:276`).
- The vocabulary or statistics are written before the weights
  (`train_caption.py:213`): a fresh start that is killed leaves a pair that does
  not fit (`eval_only.py:33`).
- `train_caption.py` has no finiteness guard, and BLEU is finite, against
  `docs/kaggle-retrain.md:77`.
- `campaign.py:32` says a reclaimed run has its attempt count incremented (`launch`
  does that); `campaign.py:93` names a flag `--retry-failed` that does not exist;
  the notebook says that after `kill` "the queue records the interruption", while
  it is the next session's `reclaim_stale` that does.

*Managed jobs*
- A change head stopped by its budget is not packaged: the scoring output lies in
  the checkpoint directory, `eval_only.py:103` refuses it, `retrain.py:571` ignores
  the exit code (against `docs/kaggle-retrain.md:138`).
- `--timeout` overrides the platform's limit and leaves budget and hard limit as
  they were, so a container may be killed with nothing pushed.
- The budget's SIGTERM during the in-place save of `adapter_best` packages a torn
  adapter. A rerun that skips scoring leaves an old score beside new weights.
- The installer copies weights before it reads a status that may say they were not
  packaged; "PUSHED TO:" is printed even if every push failed.

*Service and pipeline*
- Pruning deletes the uploads of a run that is running (`main.py:439`, against the
  comments at `:98` and `:422`); reports count against `Keep`.
- The index engine computes over the union of the bands and aborts where one date
  lacks some (`index_engine.py:141`).
- The bands of a Cartosat MX product are named by position in the list of files
  found (`product.py:168`), so one that lacks `BAND2.tif` calls its near infrared
  red, and its indices are computed from that without a word.
- `GROUND` under lite says "No matching region was localised." at high confidence
  though no tool looked; a fallback that raised is reported as "did not run in this
  profile"; `enable_nli` is never read; the declared parameter `change_threshold`
  never reaches `change_mask`, which reads `threshold`.

*Deployment*
- Availability is judged once, at import, and for `.pt` weights by existence: a
  torn checkpoint is "ready" and raises at every request.
- The digest is taken after loading, against `provenance.py`'s docstring, and keyed
  for a directory in a way that ignores rewrites in place. Weights of the mask that
  the change captioner used are not among the trace's hashes.
- `run_demo_cpu` may be answered by an older server on its port.

*Console*
- The footprint an area is drawn on is the union of the scenes, though
  `AreaPicker.tsx:104` says a box must sit inside both; the API then refuses.
  Scenes without a location "will be sent whole" (`:338`), but the crop refuses the
  request. "A box the API would refuse is not sent" (`:260`) fails in several ways.
- A probe is not cancelled: with two scenes attached one after the other, an area
  can be drawn on the first alone and sent with both (`QueryComposer.tsx:127`).
- A permalink of a failed or running run shows an empty "Stored run", against
  `MapView.tsx:118`. The comparator asks for previews before they exist and keeps
  the failure. A run that fails or abstains without a step never lights its last
  node, which is why `BoardPlaysOut` speaks of runs with a step.

*Staging*
- `campaign.data_missing` only looks whether a directory has entries
  (`campaign.py:421`), although `stage_data.py:18` says "the campaign refuses to
  start" and `:265` names a campaign gate.
- `fetch_datasets` prints that all was verified, and exits 0, where a hand download
  is absent; a partial extraction by hand is locked for ever, which is why
  `LockedIsWhole` speaks of what is downloaded; `verify --quick` does not say that
  it was quick.

## What is not modelled

The map covers the state, the control and the decisions. The rest of the
repository is the larger part: inference and training arithmetic, network
definitions (`training/v2`), raster arithmetic, rendering of reports and pages,
what the preparation scripts make of a row, generators of test queries, offline
evaluation. It
computes values from values, keeps no state, and is out of TLC's reach.

Left out of modelled parts:

- **service**: the blocking of the event loop by a synchronous run is there, the
  time it takes is not; temporary directories `satquery_evidence_*` are never
  removed.
- **ingest**: the rasters of a product once it is resolved, co-registration beyond
  the exception it may raise.
- **pipeline**: what indices and models compute, tiling, calibration (folded into
  the scores), radar fractions, thresholds of trust that are equal, semantic
  change. Sentences under eight characters are exempt from the gate, and so from
  `ShownAgrees`.
- **deployment**: memory and disk thresholds, the evidence pack, the poll of the
  device; the branch of `change_vqa.py:392` that answers from the indices before a
  model is asked; `.bin` adapters (`sidecars.py:107`) and the path of the base
  model. `Launch` starts a server with torch, while `run_demo_cpu.py:94` also goes on
  without it; `Verify` judges availability and loads in one step, and says nothing
  of a tool touched since.
- **console**: the time of the reveal, telemetry, navigation, tables, the
  confidence card.
- **queue**: `--dry-run` (`run_all --dry-run` picks one run for ever), logs,
  estimates (a budget is the free choice it amounts to), two writes to one
  temporary file, reuse of pids; node probes and benchmarks.
- **trainers**: weights and losses beyond their order, RNG state, `adapter_final`,
  the QLoRA trainer's `metrics.json`; `stage_a3`, which never resumes.
- **managed jobs**: an unbudgeted download of an evaluation set, which the bound on
  the preparation stands for.
- **staging**: what the [scripts](#staging) write beyond whole or short, sizes and
  names of files inside a tree, two fetches at once (each would lose the other's
  entries of the lock).

## Plan

Done: the queue, the checkpoints and both kinds of trainers, managed jobs,
staging, the service with its promise, the pipeline, deployment and the console.
Left, by what it would add:

1. `TrainingRun`: the queue's view of a run composed with the checkpoint
   directories, so that `Resumes` is a theorem instead of a guarantee carried
   over.
2. `Tiling`: window arithmetic against a reference cover of the scene.
3. Telemetry: overlapping polls that answer out of order.
