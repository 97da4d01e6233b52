------------------------------ MODULE Campaign ------------------------------
(***************************************************************************)
(* The training campaign queue, training/cluster/campaign.py.              *)
(*                                                                         *)
(* Sessions (a notebook kernel, a detached `campaign.py all`, a one-shot   *)
(* command line) share one state file, campaign_state.json, and nothing    *)
(* else.  Each keeps a private copy of it that it loads, decides on, and   *)
(* saves back; there is no lock.  A session that launches a run starts a   *)
(* trainer subprocess and follows its output.  Sessions, trainers and      *)
(* whole nodes die at any time.                                            *)
(*                                                                         *)
(* What the queue must never do is put two trainers in one checkpoint      *)
(* directory, lose an outcome, or restart from scratch over checkpoints.   *)
(*                                                                         *)
(* Abstractions.  A session is named by its pid: Sessions are pids of      *)
(* drivers, Pids are pids of trainers, and neither kind is reused while a  *)
(* record still names it.  `attempts` is kept as "attempted", the only     *)
(* thing read from it.  Time is the one bit the code derives from it: is   *)
(* the heartbeat of a run younger than STALE_AFTER_S.  A budget is the     *)
(* free choice of the next run it amounts to.  Estimates, logs, echoing    *)
(* and error texts are left out.                                           *)
(***************************************************************************)
EXTENDS Naturals

CONSTANTS
    Runs,          \* the runs of configs/campaign.yaml, one ckpt_dir each
    DependsOn,     \* depends_on: [Runs -> SUBSET Runs]
    Sessions,      \* driver processes
    Pids,          \* trainer processes
    Node,          \* the machine a session runs on: [Sessions -> nodes]
    HostName,      \* what _hostname() returns there: [Sessions -> names]
    StrictBudget,  \* --strict-budget: next_run may refuse what does not fit
    MaxEvents,     \* bound on crashes, interrupts, errors and commands
    None

ASSUME CampaignAssumption ==
    /\ DependsOn \in [Runs -> SUBSET Runs]
    /\ None \notin Runs \cup Sessions \cup Pids
    /\ StrictBudget \in BOOLEAN
    /\ MaxEvents \in Nat

\* _validate: a campaign with a dependency cycle is rejected before it starts.
ASSUME AcyclicAssumption ==
    \A S \in SUBSET Runs : S # {} => \E r \in S : DependsOn[r] \cap S = {}

VARIABLES
    disk,      \* campaign_state.json: the record of each run
    fresh,     \* runs whose heartbeat is younger than STALE_AFTER_S
    staged,    \* runs whose datasets are on disk
    pc,        \* where each session is
    cmd,       \* the command each session was started with
    target,    \* the run a session is about, or None
    resume,    \* launch's local `resume`
    mem,       \* each session's private copy, self.state
    trainer,   \* the trainer processes
    events,    \* how much of MaxEvents is used up
    trained,   \* history: runs a driver has seen exit with code 0
    touched    \* history: runs trained in since their last fresh reset

sessionVars == <<pc, cmd, target, resume, mem>>
historyVars == <<trained, touched>>
vars == <<disk, fresh, staged, sessionVars, trainer, events, historyVars>>

-----------------------------------------------------------------------------
Status    == {"pending", "running", "done", "failed", "interrupted"}

RESUMABLEMutant == {"pending"}
RESUMABLE == {"pending", "interrupted"}
Outcomes  == {"done", "failed"}

RunState == [status : Status, attempted : BOOLEAN,
             owner : Sessions \cup {None}, child : Pids \cup {None}]

NewRun   == [status |-> "pending", attempted |-> FALSE,
             owner |-> None, child |-> None]
NoMemory == [r \in Runs |-> NewRun]

Trainer == [st : {"free", "live", "dying", "ok", "bad"},
            run : Runs \cup {None}, by : Sessions \cup {None},
            resume : BOOLEAN]

NoTrainer == [st |-> "free", run |-> None, by |-> None, resume |-> FALSE]

\* `all`, `step` and the notebook's run_all drive; its other cells look (load and
\* reclaim_stale, with or without watch) or launch the run they name, and the
\* subcommands `status` and `watch` are such a cell, after which the process ends.
Commands == {"drive", "cell", "run", "reset"}

\* Between loading the state file and writing the decision back.
Window  == {"reclaim", "reset", "pick", "claiming", "spawning", "spawned",
            "recording", "finishing", "interrupting"}
\* Inside launch, from the first save to the trainer's last line.
Holding == {"claiming", "spawning", "spawned", "recording", "watching"}
\* Inside launch, with a subprocess of its own.
Parent  == {"spawned", "recording", "watching"}

TypeOK ==
    /\ disk \in [Runs -> RunState]
    /\ fresh \in SUBSET Runs
    /\ staged \in SUBSET Runs
    /\ pc \in [Sessions -> Window \cup {"off", "idle", "watching"}]
    /\ cmd \in [Sessions -> Commands \cup {None}]
    /\ target \in [Sessions -> Runs \cup {None}]
    /\ resume \in [Sessions -> BOOLEAN]
    /\ mem \in [Sessions -> [Runs -> RunState]]
    /\ trainer \in [Pids -> Trainer]
    /\ events \in 0..MaxEvents
    /\ trained \in SUBSET Runs
    /\ touched \in SUBSET Runs

-----------------------------------------------------------------------------
Up(s) == pc[s] # "off"

Child(s) == mem[s][target[s]].child

\* A notebook's kernel, or a process that cannot be told from one in the file.
Kernel(s) == cmd[s] \in {"drive", "cell"}

\* A process that may still be writing the run's checkpoint directory.
Writing(p) == trainer[p].st \in {"live", "dying"}
Occupies(p, r) == Writing(p) /\ trainer[p].run = r

Attached(p) == \E s \in Sessions :
                  pc[s] \in Parent /\ target[s] # None /\ Child(s) = p

\* os.kill(child_pid, 0) and /proc/<pid>/cmdline, asked from s's own machine.
TrainerAlive(s, rec) ==
    /\ rec.child # None
    /\ Writing(rec.child)
    /\ Node[trainer[rec.child].by] = Node[s]

\* A foreign owner is believed on its heartbeat, a local one on its pid.
OwnerAlive(s, r, rec) ==
    /\ rec.owner # None
    /\ IF HostName[rec.owner] # HostName[s]
       THEN r \in fresh
       ELSE Node[rec.owner] = Node[s] /\ Up(rec.owner)

NoChildCheckMutant(s, r, rec) ==
    /\ rec.status = "running"
    /\ ~OwnerAlive(s, r, rec)
    /\ \/ rec.owner # None /\ HostName[rec.owner] = HostName[s]
       \/ r \notin fresh

IsStale(s, r, rec) ==
    /\ rec.status = "running"
    /\ ~TrainerAlive(s, rec)
    /\ ~OwnerAlive(s, r, rec)
    /\ \/ rec.owner # None /\ HostName[rec.owner] = HostName[s]
       \/ r \notin fresh

StaleRuns(s) == {r \in Runs : IsStale(s, r, mem[s][r])}

ReadyMutant(s) == {r \in staged : mem[s][r].status \in RESUMABLE}
Ready(s) == {r \in staged : /\ mem[s][r].status \in RESUMABLE
                            /\ \A d \in DependsOn[r] : mem[s][d].status = "done"}

\* What happens to a run's record.
RunningMutant(s, rec) == [rec EXCEPT !.status = "running", !.owner = s]
Running(s, rec)   == [rec EXCEPT !.status = "running", !.attempted = TRUE, !.owner = s]
Traced(rec, p)    == [rec EXCEPT !.child = p]
Interrupted(rec)  == [rec EXCEPT !.status = "interrupted", !.owner = None]
Ended(rec, st)    == [rec EXCEPT !.status = IF st = "ok" THEN "done" ELSE "failed",
                                 !.owner = None, !.child = None]
Dropped(rec)      == [rec EXCEPT !.owner = None, !.child = None]
Requeued(rec)     == [rec EXCEPT !.status = "pending"]
Renewed(rec, keep) == [rec EXCEPT !.status = "pending", !.attempted = keep /\ @]

\* save(only=r): the file's version of every run but the one reported on.
MergedMutant(s, r, rec) == [mem[s] EXCEPT ![r] = rec]
Merged(s, r, rec) == [disk EXCEPT ![r] = rec]

Leave(s) ==
    /\ pc' = [pc EXCEPT ![s] = "off"]
    /\ cmd' = [cmd EXCEPT ![s] = None]
    /\ target' = [target EXCEPT ![s] = None]
    /\ resume' = [resume EXCEPT ![s] = FALSE]
    /\ mem' = [mem EXCEPT ![s] = NoMemory]

Goto(s, label) == pc' = [pc EXCEPT ![s] = label]

Event == /\ events < MaxEvents
         /\ events' = events + 1

-----------------------------------------------------------------------------
Init ==
    /\ disk = NoMemory
    /\ fresh = {}
    /\ staged \in SUBSET Runs
    /\ pc = [s \in Sessions |-> "off"]
    /\ cmd = [s \in Sessions |-> None]
    /\ target = [s \in Sessions |-> None]
    /\ resume = [s \in Sessions |-> FALSE]
    /\ mem = [s \in Sessions |-> NoMemory]
    /\ trainer = [p \in Pids |-> NoTrainer]
    /\ events = 0
    /\ trained = {}
    /\ touched = {}

\* A process starts and Campaign.__init__ loads the state file.
Start(s, c, r) ==
    /\ pc[s] = "off"
    /\ \A q \in Runs : /\ disk[q].owner # s
                       /\ \A t \in Sessions : mem[t][q].owner # s
    /\ IF c \in {"run", "reset"} THEN r \in Runs /\ Event
                                ELSE r = None /\ UNCHANGED events
    /\ Goto(s, IF c = "reset" THEN "reset" ELSE "reclaim")
    /\ cmd' = [cmd EXCEPT ![s] = c]
    /\ target' = [target EXCEPT ![s] = r]
    /\ mem' = [mem EXCEPT ![s] = disk]
    /\ UNCHANGED <<disk, fresh, staged, resume, trainer, historyVars>>

\* run_all goes round, or a cell that loads is run: step() reloads.
Again(s) ==
    /\ pc[s] = "idle" /\ Kernel(s)
    /\ \E c \in {"drive", "cell"} : cmd' = [cmd EXCEPT ![s] = c]
    /\ Goto(s, "reclaim")
    /\ mem' = [mem EXCEPT ![s] = disk]
    /\ target' = [target EXCEPT ![s] = None]
    /\ UNCHANGED <<disk, fresh, staged, resume, trainer, events, historyVars>>

Reclaimed(s) == [r \in Runs |-> IF r \in StaleRuns(s) THEN Interrupted(mem[s][r])
                                                      ELSE mem[s][r]]

\* reclaim_stale: re-queue what nobody runs; save() writes the whole copy.
Reclaim(s) ==
    /\ pc[s] = "reclaim"
    /\ disk' = IF StaleRuns(s) # {} THEN Reclaimed(s) ELSE disk
    /\ mem' = [mem EXCEPT ![s] = Reclaimed(s)]
    /\ Goto(s, IF cmd[s] = "cell" THEN "idle" ELSE "pick")
    /\ UNCHANGED <<fresh, staged, cmd, target, resume, trainer, events, historyVars>>

\* `campaign.py reset`: back to pending, from scratch unless --keep-attempts.
Reset(s) ==
    /\ pc[s] = "reset"
    /\ \E keep \in BOOLEAN :
         /\ disk' = [mem[s] EXCEPT ![target[s]] = Renewed(@, keep)]
         /\ touched' = IF keep THEN touched ELSE touched \ {target[s]}
    /\ Leave(s)
    /\ UNCHANGED <<fresh, staged, trainer, events, trained>>

\* The notebook's own retry: edit the copy the kernel holds and save() it.
Retry(s, r) ==
    /\ pc[s] = "idle" /\ Kernel(s)
    /\ Event
    /\ mem' = [mem EXCEPT ![s][r] = Requeued(@)]
    /\ disk' = mem'[s]
    /\ UNCHANGED <<fresh, staged, pc, cmd, target, resume, trainer, historyVars>>

\* next_run found nothing: the loop ends, the process may live on.
NothingPicked(s) ==
    /\ pc[s] = "pick" /\ cmd[s] = "drive"
    /\ Ready(s) = {} \/ StrictBudget
    /\ Goto(s, "idle")
    /\ UNCHANGED <<disk, fresh, staged, cmd, target, resume, mem, trainer, events,
                   historyVars>>

Refused(s, r) ==
    \/ mem[s][r].status = "running" /\ OwnerAlive(s, r, mem[s][r])
    \/ r \notin staged

\* launch prints that the run is owned, or its data is missing, and returns.
Refuse(s) ==
    /\ pc[s] = "pick" /\ cmd[s] = "run" /\ Refused(s, target[s])
    /\ Leave(s)
    /\ UNCHANGED <<disk, fresh, staged, trainer, events, historyVars>>

Chosen(s, r) == IF cmd[s] = "drive" THEN r \in Ready(s) ELSE r = target[s]

\* launch takes the run: its own record is rewritten, the rest is re-read.
Take(s, r) ==
    /\ ~Refused(s, r)
    /\ target' = [target EXCEPT ![s] = r]
    /\ resume' = [resume EXCEPT ![s] = mem[s][r].attempted]
    /\ mem' = [mem EXCEPT ![s] = Merged(s, r, Running(s, mem[s][r]))]
    /\ Goto(s, "claiming")

Claim(s, r) ==
    /\ pc[s] = "pick" /\ Chosen(s, r) /\ Take(s, r)
    /\ UNCHANGED <<disk, fresh, staged, cmd, trainer, events, historyVars>>

\* The notebook's campaign.launch(r): what the kernel holds, however old, decides.
\* One that is refused leaves everything as it is.
Launch(s, r) ==
    /\ pc[s] = "idle" /\ Kernel(s) /\ Take(s, r)
    /\ Event
    /\ cmd' = [cmd EXCEPT ![s] = "cell"]
    /\ UNCHANGED <<disk, fresh, staged, trainer, historyVars>>

AfterWrite == [claiming |-> "spawning", recording |-> "watching",
               finishing |-> "idle", interrupting |-> "idle"]

\* The save that claims a run carries its first heartbeat, and touches the file.
BeatWrittenMutant(s) == fresh
BeatWritten(s) == IF pc[s] = "claiming" THEN fresh \cup {target[s]} ELSE fresh

\* os.replace at the end of save(only=...); launch's `finally` runs after the save
\* of an interrupt, and only in memory.
Write(s) ==
    /\ pc[s] \in DOMAIN AfterWrite
    /\ disk' = mem[s]
    /\ fresh' = BeatWritten(s)
    /\ mem' = IF pc[s] = "interrupting" THEN [mem EXCEPT ![s][target[s]] = Dropped(@)]
                                        ELSE mem
    /\ Goto(s, AfterWrite[pc[s]])
    /\ UNCHANGED <<staged, cmd, target, resume, trainer, events, historyVars>>

\* Popen, and proc.pid noted in memory.
Spawn(s) ==
    /\ pc[s] = "spawning"
    /\ \E p \in Pids :
         /\ trainer[p] = NoTrainer
         /\ \A q \in Runs : /\ disk[q].child # p
                            /\ \A t \in Sessions : mem[t][q].child # p
         /\ trainer' = [trainer EXCEPT ![p] =
                          [st |-> "live", run |-> target[s], by |-> s,
                           resume |-> resume[s]]]
         /\ mem' = [mem EXCEPT ![s][target[s]] = Traced(@, p)]
    /\ touched' = touched \cup {target[s]}
    /\ Goto(s, "spawned")
    /\ UNCHANGED <<disk, fresh, staged, cmd, target, resume, events, trained>>

RecordMutant(s) ==
    /\ pc[s] = "spawned"
    /\ Goto(s, "watching")
    /\ UNCHANGED <<disk, fresh, staged, cmd, target, resume, mem, trainer, events,
                   historyVars>>

\* The second save(only=run_id), with the trainer's pid in the record.
Record(s) ==
    /\ pc[s] = "spawned"
    /\ mem' = [mem EXCEPT ![s] = Merged(s, target[s], mem[s][target[s]])]
    /\ Goto(s, "recording")
    /\ UNCHANGED <<disk, fresh, staged, cmd, target, resume, trainer, events,
                   historyVars>>

\* A line of output more than a minute after the last touch.
Beat(s) ==
    /\ pc[s] = "watching" /\ trainer[Child(s)].st = "live"
    /\ target[s] \notin fresh
    /\ fresh' = fresh \cup {target[s]}
    /\ UNCHANGED <<disk, staged, sessionVars, trainer, events, historyVars>>

\* The last line was read and wait() returned: the outcome is saved.
Finish(s) ==
    LET r == target[s]
        st == trainer[Child(s)].st
    IN
    /\ pc[s] = "watching" /\ st \in {"ok", "bad"}
    /\ mem' = [mem EXCEPT ![s] = Merged(s, r, Ended(mem[s][r], st))]
    /\ trainer' = [trainer EXCEPT ![Child(s)] = NoTrainer]
    /\ trained' = IF st = "ok" THEN trained \cup {r} ELSE trained
    /\ Goto(s, "finishing")
    /\ UNCHANGED <<disk, fresh, staged, cmd, target, resume, events, touched>>

\* KeyboardInterrupt: terminate(), not wait(), and save what happened.
Interrupt(s) ==
    LET r == target[s] IN
    /\ pc[s] \in Parent
    /\ Event
    /\ trainer' = [trainer EXCEPT ![Child(s)] =
                     IF @.st = "live" THEN [@ EXCEPT !.st = "dying"] ELSE NoTrainer]
    /\ mem' = [mem EXCEPT ![s] = Merged(s, r, Interrupted(mem[s][r]))]
    /\ Goto(s, "interrupting")
    /\ UNCHANGED <<disk, fresh, staged, cmd, target, resume, historyVars>>

\* Exit codes nobody is left to read.
Reaped(S) == [p \in Pids |->
                IF trainer[p].st \in {"ok", "bad"} /\ trainer[p].by \in S
                THEN NoTrainer ELSE trainer[p]]

\* Any other exception inside launch (a full disk, a failed Popen) leaves the
\* file as it is; a notebook kernel survives it.  Only memory is cleaned up.
LaunchError(s) ==
    /\ pc[s] \in Holding /\ Kernel(s)
    /\ Event
    /\ trainer' = Reaped({s})
    /\ mem' = IF pc[s] = "claiming" THEN mem
              ELSE [mem EXCEPT ![s][target[s]] = Dropped(@)]
    /\ Goto(s, "idle")
    /\ UNCHANGED <<disk, fresh, staged, cmd, target, resume, historyVars>>

\* The process ends of its own accord.
Quit(s) ==
    /\ pc[s] = "idle"
    /\ Leave(s)
    /\ UNCHANGED <<disk, fresh, staged, trainer, events, historyVars>>

\* The process is killed (SIGTERM too: there is no handler); its trainer is not.
Crash(s) ==
    /\ Up(s)
    /\ Event
    /\ trainer' = Reaped({s})
    /\ Leave(s)
    /\ UNCHANGED <<disk, fresh, staged, historyVars>>

\* The cluster takes a machine back, and everything on it.
NodeLoss(n) ==
    LET gone == {s \in Sessions : Node[s] = n} IN
    /\ \E s \in gone : Up(s)
    /\ Event
    /\ pc' = [s \in Sessions |-> IF s \in gone THEN "off" ELSE pc[s]]
    /\ cmd' = [s \in Sessions |-> IF s \in gone THEN None ELSE cmd[s]]
    /\ target' = [s \in Sessions |-> IF s \in gone THEN None ELSE target[s]]
    /\ resume' = [s \in Sessions |-> s \notin gone /\ resume[s]]
    /\ mem' = [s \in Sessions |-> IF s \in gone THEN NoMemory ELSE mem[s]]
    /\ trainer' = [p \in Pids |-> IF trainer[p].by \in gone THEN NoTrainer
                                  ELSE trainer[p]]
    /\ UNCHANGED <<disk, fresh, staged, historyVars>>

\* A trainer ends: with an exit code its parent will read, or unobserved.
TrainerExits(p) ==
    /\ Writing(p)
    /\ \/ /\ trainer[p].st = "live" /\ Attached(p)
          /\ \E st \in {"ok", "bad"} : trainer' = [trainer EXCEPT ![p].st = st]
       \/ /\ ~Attached(p)
          /\ trainer' = [trainer EXCEPT ![p] = NoTrainer]
    /\ UNCHANGED <<disk, fresh, staged, sessionVars, events, historyVars>>

\* STALE_AFTER_S passes without a touch.
HeartbeatAges(r) ==
    /\ r \in fresh
    /\ fresh' = fresh \ {r}
    /\ UNCHANGED <<disk, staged, sessionVars, trainer, events, historyVars>>

\* A transfer completes (stage_data.py); data_missing stops reporting it.
StageData(r) ==
    /\ r \notin staged
    /\ staged' = staged \cup {r}
    /\ UNCHANGED <<disk, fresh, sessionVars, trainer, events, historyVars>>

-----------------------------------------------------------------------------
Nodes == {Node[s] : s \in Sessions}

\* What a session does on its own, once it has loaded the file.
Proceed(s) ==
    \/ Reclaim(s)
    \/ Reset(s)
    \/ NothingPicked(s)
    \/ Refuse(s)
    \/ \E r \in Runs : Claim(s, r)
    \/ Write(s)
    \/ Spawn(s)
    \/ Record(s)
    \/ Beat(s)
    \/ Quit(s)

World ==
    \/ \E p \in Pids : TrainerExits(p)
    \/ \E r \in Runs : StageData(r)
    \/ \E n \in Nodes : NodeLoss(n)

\* Everything the code lets happen.
Next ==
    \/ \E s \in Sessions, c \in Commands, r \in Runs \cup {None} : Start(s, c, r)
    \/ \E s \in Sessions : Again(s) \/ Proceed(s) \/ Finish(s) \/ Interrupt(s)
    \/ \E s \in Sessions, r \in Runs : Retry(s, r) \/ Launch(s, r)
    \/ \E s \in Sessions : LaunchError(s) \/ Crash(s)
    \/ \E r \in Runs : HeartbeatAges(r)
    \/ World

Spec == Init /\ [][Next]_vars

(***************************************************************************)
(* The discipline under which the queue keeps its promises.  Nothing in    *)
(* the code enforces it: it is what the campaign's operators have to do,   *)
(* or a lock file would have to do for them.                               *)
(*   - one session at a time is between a load and the save it leads to;   *)
(*   - nobody starts deciding while a terminated trainer is still dying;   *)
(*   - `run`, `reset` and the notebook's launch and retry are not used on  *)
(*     a run that a trainer or a launch still holds, the latter two only   *)
(*     on a fresh copy;                                                    *)
(*   - a driver does not die between Popen and the save of the pid, and    *)
(*     its orphan is on the only machine there is;                         *)
(*   - host names name machines, one each;                                 *)
(*   - across machines, a trainer being followed prints at least every     *)
(*     STALE_AFTER_S.                                                      *)
(***************************************************************************)
OneNode == \A s, t \in Sessions : Node[s] = Node[t]

HonestNames == \A s, t \in Sessions : HostName[s] = HostName[t] <=> Node[s] = Node[t]

WindowFree == \A s \in Sessions : pc[s] \notin Window

NoneDying == \A p \in Pids : trainer[p].st # "dying"

Busy(r) ==
    \/ \E p \in Pids : Occupies(p, r)
    \/ \E s \in Sessions : pc[s] \in Holding /\ target[s] = r

\* Dying here leaves no trainer the next session cannot see.
CleanDeath(s) ==
    pc[s] \in Parent => \/ pc[s] = "watching" /\ OneNode
                       \/ trainer[Child(s)].st # "live"

DisciplinedNext ==
    \/ \E s \in Sessions, c \in Commands, r \in Runs \cup {None} :
          /\ WindowFree /\ NoneDying
          /\ c \in {"run", "reset"} => ~Busy(r)
          /\ Start(s, c, r)
    \/ \E s \in Sessions : WindowFree /\ NoneDying /\ Again(s)
    \/ \E s \in Sessions : Proceed(s)
    \/ \E s \in Sessions : WindowFree /\ (Finish(s) \/ Interrupt(s))
    \/ \E s \in Sessions, r \in Runs :
          /\ WindowFree /\ NoneDying
          /\ mem[s] = disk /\ ~Busy(r)
          /\ Retry(s, r) \/ Launch(s, r)
    \/ \E s \in Sessions : CleanDeath(s) /\ (LaunchError(s) \/ Crash(s))
    \/ \E r \in Runs :
          /\ OneNode \/ ~\E s \in Sessions : pc[s] \in Holding /\ target[s] = r
          /\ HeartbeatAges(r)
    \/ World

DisciplinedSpec == Init /\ HonestNames /\ [][DisciplinedNext]_vars

(***************************************************************************)
(* Fairness.  A process that can move moves; a trainer ends; an unattended *)
(* heartbeat ages.  "When the session dies, open the notebook again and    *)
(* run the same cells again" is the SF on Start, and a session with        *)
(* nothing to run ends (the CLI returns, an idle kernel is culled) the SF  *)
(* on Quit.  The SFs on Start and Finish are for the turn-taking of the    *)
(* discipline.  Data is never promised: StageData has no fairness.         *)
(***************************************************************************)
Fairness ==
    /\ \A s \in Sessions :
         /\ WF_vars(Proceed(s))
         /\ SF_vars(Quit(s))
         /\ SF_vars(WindowFree /\ Finish(s))
         /\ SF_vars(WindowFree /\ NoneDying /\ Start(s, "drive", None))
    /\ \A p \in Pids : WF_vars(TrainerExits(p))
    /\ \A r \in Runs : WF_vars(/\ ~\E s \in Sessions : pc[s] \in Holding /\ target[s] = r
                              /\ HeartbeatAges(r))

LiveSpec == DisciplinedSpec /\ Fairness

-----------------------------------------------------------------------------
\* Two processes never write one checkpoint directory: the corruption the file
\* is there to prevent (a run owned by a live process is never restarted).
OneTrainerPerDirectory ==
    \A p, q \in Pids : Writing(p) /\ Writing(q) /\ trainer[p].run = trainer[q].run
                       => p = q

\* Two sessions are never inside launch for the same run, from the first save
\* to the last line of output, trainer or no trainer.
OneHolder ==
    \A s, t \in Sessions :
        /\ pc[s] \in Holding /\ pc[t] \in Holding
        /\ target[s] = target[t]
        => s = t

\* A trainer nobody follows any more is on record, as running and by its pid, so
\* that reclaim_stale can see it is alive (the orphan measured on the lab box).
OrphanOnRecord ==
    \A p \in Pids : trainer[p].st = "live" /\ ~Attached(p) =>
        /\ disk[trainer[p].run].status = "running"
        /\ disk[trainer[p].run].child = p

\* step() starts a run only after a trainer of each dependency has exited with 0
\* under some driver's eyes, whatever was reclaimed, reset or retried meanwhile.
DependenciesTrained ==
    \A s \in Sessions :
        cmd[s] = "drive" /\ pc[s] \in Holding => DependsOn[target[s]] \subseteq trained

\* The operator asks for run r again: `reset`, `run`, or the notebook's launch or
\* retry.
Asked(s, r) ==
    \/ pc[s] = "reset" /\ target[s] = r
    \/ pc[s] = "claiming" /\ target[s] = r /\ cmd[s] # "drive"
    \/ pc[s] = "idle" /\ mem[s][r].status # mem'[s][r].status

\* An outcome in the file stays there until the operator asks for the run again:
\* no save of another session's copy undoes `done`, or re-queues `failed`.
OutcomeSurvives ==
    [][\A r \in Runs :
        disk[r].status \in Outcomes /\ disk'[r].status # disk[r].status
            => \E s \in Sessions : Asked(s, r)]_vars

\* A trainer is started without --resume only in a directory no trainer has
\* written since the last reset that asked for a fresh start.
FreshStartOnlyInFreshDirectory ==
    [][\A p \in Pids :
        trainer[p].st = "free" /\ trainer'[p].st = "live" /\ ~trainer'[p].resume
            => trainer'[p].run \notin touched]_vars

\* Whatever dies on the way, a run whose data is here and whose dependencies are
\* done gets its outcome: killed sessions are reclaimed and resumed, not lost.
RunsSettle ==
    \A r \in Runs :
        (r \in staged /\ \A d \in DependsOn[r] : disk[d].status = "done")
            ~> (\/ disk[r].status \in Outcomes
                \/ \E d \in DependsOn[r] : disk[d].status # "done")

=============================================================================
