--------------------------- MODULE CampaignProofs ---------------------------
(***************************************************************************)
(* Proofs about the campaign queue, for any set of runs, any dependency    *)
(* graph, any number of sessions, trainers and machines.                   *)
(*                                                                         *)
(* Of Spec, everything the code lets happen, races included: the types,    *)
(* and that step() starts a run only after its dependencies were trained.  *)
(* Of DisciplinedSpec: exclusion, and what a saved record can be relied on *)
(* for.                                                                    *)
(***************************************************************************)
EXTENDS Campaign, TLAPS

-----------------------------------------------------------------------------
\* Inside launch, up to and including the save that ends it.
Engaged == Holding \cup {"finishing", "interrupting"}

\* Sessions that are about a run name one.
Targeted ==
    \A s \in Sessions :
        /\ pc[s] \in Engaged \cup {"reset"} => target[s] \in Runs
        /\ pc[s] = "reclaim" => cmd[s] \in {"drive", "run", "cell"}
        /\ pc[s] = "pick" => cmd[s] \in {"drive", "run"}
        /\ pc[s] \in {"reclaim", "pick"} /\ cmd[s] = "run" => target[s] \in Runs

-----------------------------------------------------------------------------
(* Types. *)

Typed == TypeOK /\ Targeted

LEMMA InitTyped == Init => Typed
  BY CampaignAssumption
  DEF Init, Typed, TypeOK, Targeted, NoMemory, NewRun, NoTrainer, RunState, Status,
      Trainer, Window, Commands, Engaged, Holding

\* Leaving forgets the session, and types nothing wrongly.
LEMMA LeaveTyped ==
  ASSUME NEW s \in Sessions, Typed, Leave(s), UNCHANGED <<fresh, staged>>,
         disk' \in [Runs -> RunState], trainer' \in [Pids -> Trainer],
         events' \in 0..MaxEvents, trained' \in SUBSET Runs, touched' \in SUBSET Runs
  PROVE  Typed'
  BY CampaignAssumption
  DEF Leave, Typed, TypeOK, Targeted, NoMemory, NewRun, RunState, Status, Window,
      Commands, Engaged, Holding

LEMMA EventTyped == ASSUME TypeOK, Event PROVE events' \in 0..MaxEvents
  BY CampaignAssumption DEF TypeOK, Event

\* The updates of one record that the actions make.
LEMMA RecordTyped ==
  ASSUME NEW rec \in RunState
  PROVE  /\ \A s \in Sessions : Running(s, rec) \in RunState
         /\ \A p \in Pids : Traced(rec, p) \in RunState
         /\ Interrupted(rec) \in RunState
         /\ \A st : Ended(rec, st) \in RunState
         /\ Dropped(rec) \in RunState
         /\ Requeued(rec) \in RunState
         /\ \A keep \in BOOLEAN : Renewed(rec, keep) \in RunState
  BY DEF RunState, Running, Traced, Interrupted, Ended, Dropped, Requeued, Renewed, Status

\* One record of one session's copy, or of the file, rewritten.
LEMMA UpdateTyped ==
  ASSUME TypeOK, NEW s \in Sessions, NEW r \in Runs, NEW rec \in RunState
  PROVE  /\ [mem EXCEPT ![s][r] = rec] \in [Sessions -> [Runs -> RunState]]
         /\ [mem EXCEPT ![s] = Merged(s, r, rec)] \in [Sessions -> [Runs -> RunState]]
         /\ [mem[s] EXCEPT ![r] = rec] \in [Runs -> RunState]
  BY DEF TypeOK, Merged

LEMMA ReadTyped ==
  ASSUME TypeOK
  PROVE  /\ \A r \in Runs : disk[r] \in RunState
         /\ \A s \in Sessions : mem[s] \in [Runs -> RunState]
         /\ \A s \in Sessions, r \in Runs : mem[s][r] \in RunState
  BY DEF TypeOK

LEMMA TrainerTyped ==
  ASSUME TypeOK
  PROVE  /\ NoTrainer \in Trainer
         /\ \A p \in Pids : trainer[p] \in Trainer
         /\ \A t \in Trainer, st \in {"free", "live", "dying", "ok", "bad"} :
               [t EXCEPT !.st = st] \in Trainer
         /\ \A p \in Pids, t \in Trainer : [trainer EXCEPT ![p] = t] \in [Pids -> Trainer]
         /\ \A S \in SUBSET Sessions : Reaped(S) \in [Pids -> Trainer]
<1>1. NoTrainer \in Trainer
  BY DEF NoTrainer, Trainer
<1>2. \A p \in Pids : trainer[p] \in Trainer
  BY DEF TypeOK
<1>3. \A t \in Trainer, st \in {"free", "live", "dying", "ok", "bad"} :
        [t EXCEPT !.st = st] \in Trainer
  BY DEF Trainer
<1>4. \A p \in Pids, t \in Trainer : [trainer EXCEPT ![p] = t] \in [Pids -> Trainer]
  BY DEF TypeOK
<1>5. \A S \in SUBSET Sessions : Reaped(S) \in [Pids -> Trainer]
  BY <1>1, <1>2 DEF Reaped
<1>. QED  BY <1>1, <1>2, <1>3, <1>4, <1>5

\* What the save of an outcome does to memory: nothing, but for an interrupt.
LEMMA WriteMemory ==
  ASSUME Typed, NEW s \in Sessions, Write(s)
  PROVE  /\ target[s] \in Runs
         /\ \/ mem' = mem
            \/ /\ pc[s] = "interrupting"
               /\ mem' = [mem EXCEPT ![s] = [mem[s] EXCEPT ![target[s]] =
                                               Dropped(mem[s][target[s]])]]
  BY DEF Typed, TypeOK, Targeted, Engaged, Holding, Write, AfterWrite

\* Every step of the code keeps the types.
LEMMA NextTyped == ASSUME Typed, [Next]_vars PROVE Typed'
<1> DEFINE Copies == [Sessions -> [Runs -> RunState]]
<1>. TypeOK /\ Targeted
  BY DEF Typed
<1> USE CampaignAssumption
    DEF Typed, Targeted, Window, Engaged, Holding, sessionVars, historyVars, Goto
<1>1. ASSUME NEW s \in Sessions, NEW c \in Commands, NEW r \in Runs \cup {None},
             Start(s, c, r)
      PROVE  Typed'
  <2>1. events' \in 0..MaxEvents
    BY <1>1, EventTyped DEF Start, TypeOK
  <2>2. TypeOK'
    BY <1>1, <2>1 DEF Start, TypeOK
  <2>. QED  BY <1>1, <2>2 DEF Start, TypeOK, Commands
<1>2. ASSUME NEW s \in Sessions, Again(s) PROVE Typed'
  BY <1>2 DEF Again, Kernel, Commands, TypeOK
<1>3. ASSUME NEW s \in Sessions, Reclaim(s) PROVE Typed'
  <2>1. Reclaimed(s) \in [Runs -> RunState]
    BY ReadTyped, RecordTyped DEF Reclaimed
  <2>2. disk' \in [Runs -> RunState]
    BY <1>3, <2>1 DEF Reclaim, TypeOK
  <2>3. UNCHANGED <<fresh, staged, cmd, target, resume, trainer, events, trained, touched>>
    BY <1>3 DEF Reclaim
  <2>4. pc' = [pc EXCEPT ![s] = IF cmd[s] = "cell" THEN "idle" ELSE "pick"] /\ pc[s] = "reclaim"
    BY <1>3 DEF Reclaim
  <2>5. mem' \in Copies
    BY <1>3, <2>1 DEF Reclaim, TypeOK
  <2>6. TypeOK'
    BY <2>2, <2>3, <2>4, <2>5 DEF TypeOK
  <2>. QED  BY <2>3, <2>4, <2>6 DEF TypeOK
<1>4. ASSUME NEW s \in Sessions, Reset(s) PROVE Typed'
  <2>1. target[s] \in Runs
    BY <1>4 DEF Reset
  <2>2. PICK keep \in BOOLEAN :
          /\ disk' = [mem[s] EXCEPT ![target[s]] = Renewed(mem[s][target[s]], keep)]
          /\ touched' = IF keep THEN touched ELSE touched \ {target[s]}
    BY <1>4 DEF Reset
  <2>3. Renewed(mem[s][target[s]], keep) \in RunState
    BY <2>1, ReadTyped, RecordTyped
  <2>4. disk' \in [Runs -> RunState]
    BY <2>1, <2>2, <2>3, UpdateTyped
  <2>. QED  BY <1>4, <2>2, <2>4, LeaveTyped DEF Reset, TypeOK
<1>5. ASSUME NEW s \in Sessions, NEW r \in Runs, Retry(s, r) PROVE Typed'
  <2>1. mem' = [mem EXCEPT ![s][r] = Requeued(mem[s][r])]
    BY <1>5 DEF Retry, TypeOK
  <2>2. Requeued(mem[s][r]) \in RunState
    BY ReadTyped, RecordTyped
  <2>3. mem' \in Copies
    BY <2>1, <2>2, UpdateTyped
  <2>4. disk' \in [Runs -> RunState]
    BY <1>5, <2>3 DEF Retry
  <2>. QED  BY <1>5, <2>3, <2>4, EventTyped DEF Retry, TypeOK
<1>6. ASSUME NEW s \in Sessions, NothingPicked(s) PROVE Typed'
  BY <1>6 DEF NothingPicked, TypeOK
<1>7. ASSUME NEW s \in Sessions, Refuse(s) PROVE Typed'
  BY <1>7, LeaveTyped DEF Refuse, TypeOK
<1>8. ASSUME NEW s \in Sessions, NEW r \in Runs, Claim(s, r) PROVE Typed'
  <2>1. Running(s, mem[s][r]) \in RunState
    BY ReadTyped, RecordTyped
  <2>2. mem' \in Copies
    BY <1>8, <2>1, UpdateTyped DEF Claim, Take
  <2>3. mem[s][r].attempted \in BOOLEAN
    BY ReadTyped DEF RunState
  <2>. QED  BY <1>8, <2>2, <2>3 DEF Claim, Take, TypeOK
<1>9. ASSUME NEW s \in Sessions, Write(s) PROVE Typed'
  <2>1. AfterWrite[pc[s]] \in {"spawning", "watching", "idle"}
    BY <1>9 DEF Write, AfterWrite
  <2>2. pc[s] \in Engaged
    BY <1>9 DEF Write, AfterWrite
  <2>3. fresh' \in SUBSET Runs
    BY <1>9, <2>2 DEF Write, BeatWritten, TypeOK
  <2>4. target[s] \in Runs
    BY <1>9, WriteMemory
  <2>5. Dropped(mem[s][target[s]]) \in RunState
    BY <2>4, ReadTyped, RecordTyped
  <2>6. mem' \in Copies
    <3>1. CASE mem' = mem
      BY <3>1 DEF TypeOK
    <3>2. CASE mem' = [mem EXCEPT ![s] = [mem[s] EXCEPT ![target[s]] =
                                            Dropped(mem[s][target[s]])]]
      BY <3>2, <2>4, <2>5, UpdateTyped DEF TypeOK
    <3>. QED  BY <1>9, <3>1, <3>2, WriteMemory
  <2>. QED  BY <1>9, <2>1, <2>2, <2>3, <2>6 DEF Write, TypeOK
<1>10. ASSUME NEW s \in Sessions, Spawn(s) PROVE Typed'
  <2>1. target[s] \in Runs
    BY <1>10 DEF Spawn
  <2>2. PICK p \in Pids :
          /\ trainer' = [trainer EXCEPT ![p] = [st |-> "live", run |-> target[s], by |-> s,
                                               resume |-> resume[s]]]
          /\ mem' = [mem EXCEPT ![s][target[s]] = Traced(mem[s][target[s]], p)]
    BY <1>10, <2>1 DEF Spawn, TypeOK
  <2>3. Traced(mem[s][target[s]], p) \in RunState
    BY <2>1, ReadTyped, RecordTyped
  <2>4. mem' \in Copies
    BY <2>1, <2>2, <2>3, UpdateTyped
  <2>5. [st |-> "live", run |-> target[s], by |-> s, resume |-> resume[s]] \in Trainer
    BY <2>1 DEF Trainer, TypeOK
  <2>6. trainer' \in [Pids -> Trainer]
    BY <2>2, <2>5, TrainerTyped
  <2>. QED  BY <1>10, <2>1, <2>4, <2>6 DEF Spawn, TypeOK
<1>11. ASSUME NEW s \in Sessions, Record(s) PROVE Typed'
  <2>1. target[s] \in Runs
    BY <1>11 DEF Record
  <2>2. mem[s][target[s]] \in RunState
    BY <2>1, ReadTyped
  <2>3. mem' \in Copies
    BY <1>11, <2>1, <2>2, UpdateTyped DEF Record
  <2>. QED  BY <1>11, <2>3 DEF Record, TypeOK
<1>12. ASSUME NEW s \in Sessions, Beat(s) PROVE Typed'
  BY <1>12 DEF Beat, TypeOK
<1>13. ASSUME NEW s \in Sessions, Finish(s) PROVE Typed'
  <2>1. target[s] \in Runs
    BY <1>13 DEF Finish
  <2>2. Ended(mem[s][target[s]], trainer[Child(s)].st) \in RunState
    BY <2>1, ReadTyped, RecordTyped
  <2>3. mem' \in Copies
    BY <1>13, <2>1, <2>2, UpdateTyped DEF Finish
  <2>4. trainer' \in [Pids -> Trainer]
    BY <1>13, TrainerTyped DEF Finish, TypeOK
  <2>. QED  BY <1>13, <2>1, <2>3, <2>4 DEF Finish, TypeOK
<1>14. ASSUME NEW s \in Sessions, Interrupt(s) PROVE Typed'
  <2>1. target[s] \in Runs
    BY <1>14 DEF Interrupt, Parent
  <2>2. Interrupted(mem[s][target[s]]) \in RunState
    BY <2>1, ReadTyped, RecordTyped
  <2>3. mem' \in Copies
    BY <1>14, <2>1, <2>2, UpdateTyped DEF Interrupt
  <2>4. trainer' \in [Pids -> Trainer]
    BY <1>14, TrainerTyped DEF Interrupt, TypeOK
  <2>. QED  BY <1>14, <2>1, <2>3, <2>4, EventTyped DEF Interrupt, TypeOK
<1>15. ASSUME NEW s \in Sessions, LaunchError(s) PROVE Typed'
  <2>1. target[s] \in Runs
    BY <1>15 DEF LaunchError
  <2>2. Dropped(mem[s][target[s]]) \in RunState
    BY <2>1, ReadTyped, RecordTyped
  <2>3. mem' = mem \/ mem' = [mem EXCEPT ![s][target[s]] = Dropped(mem[s][target[s]])]
    BY <1>15, <2>1 DEF LaunchError, TypeOK
  <2>4. mem' \in Copies
    <3>1. CASE mem' = mem
      BY <3>1 DEF TypeOK
    <3>2. CASE mem' = [mem EXCEPT ![s][target[s]] = Dropped(mem[s][target[s]])]
      BY <3>2, <2>1, <2>2, UpdateTyped
    <3>. QED  BY <2>3, <3>1, <3>2
  <2>5. trainer' \in [Pids -> Trainer]
    BY <1>15, TrainerTyped DEF LaunchError
  <2>. QED  BY <1>15, <2>4, <2>5, EventTyped DEF LaunchError, TypeOK
<1>16. ASSUME NEW s \in Sessions, Quit(s) PROVE Typed'
  BY <1>16, LeaveTyped DEF Quit, TypeOK
<1>17. ASSUME NEW s \in Sessions, Crash(s) PROVE Typed'
  <2>1. trainer' \in [Pids -> Trainer]
    BY <1>17, TrainerTyped DEF Crash
  <2>. QED  BY <1>17, <2>1, EventTyped, LeaveTyped DEF Crash, TypeOK
<1>18. ASSUME NEW n \in Nodes, NodeLoss(n) PROVE Typed'
  <2>1. trainer' \in [Pids -> Trainer]
    BY <1>18, TrainerTyped DEF NodeLoss
  <2>2. NoMemory \in [Runs -> RunState]
    BY DEF NoMemory, NewRun, RunState, Status
  <2>. QED  BY <1>18, <2>1, <2>2, EventTyped DEF NodeLoss, TypeOK
<1>19. ASSUME NEW p \in Pids, TrainerExits(p) PROVE Typed'
  <2>1. trainer' \in [Pids -> Trainer]
    <3>1. CASE trainer' = [trainer EXCEPT ![p] = NoTrainer]
      BY <3>1, TrainerTyped
    <3>2. ASSUME NEW st \in {"ok", "bad"}, trainer' = [trainer EXCEPT ![p].st = st]
          PROVE  trainer' \in [Pids -> Trainer]
      <4>1. trainer' = [trainer EXCEPT ![p] = [trainer[p] EXCEPT !.st = st]]
        BY <3>2 DEF TypeOK
      <4>. QED  BY <4>1, TrainerTyped
    <3>. QED  BY <1>19, <3>1, <3>2 DEF TrainerExits
  <2>. QED  BY <1>19, <2>1 DEF TrainerExits, TypeOK
<1>20. ASSUME NEW r \in Runs, HeartbeatAges(r) \/ StageData(r) PROVE Typed'
  BY <1>20 DEF HeartbeatAges, StageData, TypeOK
<1>21. CASE UNCHANGED vars
  BY <1>21 DEF vars, TypeOK
<1>22. ASSUME NEW s \in Sessions, Proceed(s) PROVE Typed'
  BY <1>22, <1>3, <1>4, <1>6, <1>7, <1>8, <1>9, <1>10, <1>11, <1>12, <1>16 DEF Proceed
<1>23. CASE World
  BY <1>23, <1>18, <1>19, <1>20 DEF World
<1>24. ASSUME NEW s \in Sessions, NEW r \in Runs, Launch(s, r) PROVE Typed'
  <2>1. Running(s, mem[s][r]) \in RunState
    BY ReadTyped, RecordTyped
  <2>2. mem' \in Copies
    BY <1>24, <2>1, UpdateTyped DEF Launch, Take
  <2>3. mem[s][r].attempted \in BOOLEAN
    BY ReadTyped DEF RunState
  <2>4. events' \in 0..MaxEvents
    BY <1>24, EventTyped DEF Launch
  <2>. QED  BY <1>24, <2>2, <2>3, <2>4 DEF Launch, Take, Commands, TypeOK
<1>. QED
  BY <1>1, <1>2, <1>5, <1>13, <1>14, <1>15, <1>17, <1>20, <1>21, <1>22, <1>23, <1>24 DEF Next

\* Every variable keeps its type whatever sessions, trainers and machines do.
THEOREM TypeCorrect == Spec => []TypeOK
<1>1. Typed /\ [Next]_vars => Typed'
  BY NextTyped
<1>2. Typed => TypeOK
  BY DEF Typed
<1>. QED  BY InitTyped, <1>1, <1>2, PTL DEF Spec

-----------------------------------------------------------------------------
(* Dependencies.  A copy of the state, in the file or in memory, is honest *)
(* when what it calls done was trained.  Copies are mixed and written back *)
(* in any order by any number of sessions; all of them are honest, so what *)
(* next_run reads is true however stale the rest of the copy is.           *)

Honest(copy, T) == \A r \in Runs : copy[r].status = "done" => r \in T

CopiesHonest == Honest(disk, trained) /\ \A s \in Sessions : Honest(mem[s], trained)

DInv == Typed /\ CopiesHonest /\ DependenciesTrained

\* Only the end of a launch makes a record done, and only on exit code 0.
LEMMA RecordNotDone ==
  ASSUME NEW rec \in RunState
  PROVE  /\ \A s \in Sessions : Running(s, rec).status # "done"
         /\ \A p \in Pids : Traced(rec, p).status = rec.status
         /\ Interrupted(rec).status # "done"
         /\ \A st : Ended(rec, st).status = "done" => st = "ok"
         /\ Dropped(rec).status = rec.status
         /\ Requeued(rec).status # "done"
         /\ \A keep \in BOOLEAN : Renewed(rec, keep).status # "done"
  BY DEF RunState, Running, Traced, Interrupted, Ended, Dropped, Requeued, Renewed, Status

\* One record of an honest copy replaced by an honest one.
LEMMA UpdateHonest ==
  ASSUME NEW T, NEW copy \in [Runs -> RunState], Honest(copy, T),
         NEW r \in Runs, NEW rec, rec.status = "done" => r \in T
  PROVE  Honest([copy EXCEPT ![r] = rec], T)
  BY DEF Honest

LEMMA NoMemoryHonest == \A T : Honest(NoMemory, T)
  BY DEF Honest, NoMemory, NewRun

\* A step that rewrites at most one session's copy, honestly.
LEMMA CopyHonest ==
  ASSUME TypeOK, CopiesHonest, trained \subseteq trained',
         NEW s \in Sessions, NEW copy, Honest(copy, trained'),
         mem' = [mem EXCEPT ![s] = copy], Honest(disk', trained')
  PROVE  CopiesHonest'
  BY DEF TypeOK, CopiesHonest, Honest

\* A step that rewrites the file at most, honestly.
LEMMA FileHonest ==
  ASSUME CopiesHonest, trained \subseteq trained', mem' = mem, Honest(disk', trained')
  PROVE  CopiesHonest'
  BY DEF CopiesHonest, Honest

LEMMA InitHonest == Init => DInv
  BY InitTyped, NoMemoryHonest
  DEF Init, DInv, CopiesHonest, DependenciesTrained, Holding

\* Every step leaves every copy honest.
LEMMA NextHonest == ASSUME DInv, [Next]_vars PROVE CopiesHonest'
<1>. TypeOK /\ Targeted /\ CopiesHonest
  BY DEF DInv, Typed
<1>. Honest(disk, trained) /\ \A s \in Sessions : Honest(mem[s], trained)
  BY DEF CopiesHonest
<1>0. ASSUME NEW s \in Sessions, Leave(s), trained' = trained, Honest(disk', trained)
      PROVE  CopiesHonest'
  BY <1>0, NoMemoryHonest, CopyHonest DEF Leave
<1>1. ASSUME NEW s \in Sessions, NEW c \in Commands, NEW r \in Runs \cup {None},
             Start(s, c, r)
      PROVE  CopiesHonest'
  BY <1>1, CopyHonest DEF Start, historyVars
<1>2. ASSUME NEW s \in Sessions, Again(s) PROVE CopiesHonest'
  BY <1>2, CopyHonest DEF Again, historyVars
<1>3. ASSUME NEW s \in Sessions, Reclaim(s) PROVE CopiesHonest'
  <2>1. trained' = trained
    BY <1>3 DEF Reclaim, historyVars
  <2>2. Honest(Reclaimed(s), trained)
    BY ReadTyped, RecordNotDone DEF Reclaimed, Honest
  <2>3. Honest(disk', trained)
    BY <1>3, <2>2 DEF Reclaim
  <2>. QED  BY <1>0, <1>3, <2>1, <2>2, <2>3, CopyHonest DEF Reclaim
<1>4. ASSUME NEW s \in Sessions, Reset(s) PROVE CopiesHonest'
  <2>1. target[s] \in Runs
    BY <1>4 DEF Reset, Targeted
  <2>2. PICK keep \in BOOLEAN :
          disk' = [mem[s] EXCEPT ![target[s]] = Renewed(mem[s][target[s]], keep)]
    BY <1>4 DEF Reset
  <2>3. Renewed(mem[s][target[s]], keep).status # "done"
    BY <2>1, ReadTyped, RecordNotDone
  <2>4. Honest(disk', trained)
    BY <2>1, <2>2, <2>3, ReadTyped, UpdateHonest
  <2>. QED  BY <1>0, <1>4, <2>4 DEF Reset
<1>5. ASSUME NEW s \in Sessions, NEW r \in Runs, Retry(s, r) PROVE CopiesHonest'
  <2>1. mem' = [mem EXCEPT ![s] = [mem[s] EXCEPT ![r] = Requeued(mem[s][r])]]
    BY <1>5 DEF Retry, TypeOK
  <2>2. Requeued(mem[s][r]).status # "done"
    BY ReadTyped, RecordNotDone
  <2>3. Honest([mem[s] EXCEPT ![r] = Requeued(mem[s][r])], trained)
    BY <2>2, ReadTyped, UpdateHonest
  <2>4. disk' = [mem[s] EXCEPT ![r] = Requeued(mem[s][r])] /\ trained' = trained
    BY <1>5, <2>1 DEF Retry, historyVars, TypeOK
  <2>. QED  BY <2>1, <2>3, <2>4, CopyHonest
<1>6. ASSUME NEW s \in Sessions, NothingPicked(s) \/ Beat(s) PROVE CopiesHonest'
  BY <1>6, FileHonest DEF NothingPicked, Beat, historyVars, sessionVars
<1>7. ASSUME NEW s \in Sessions, Refuse(s) \/ Quit(s) \/ Crash(s) PROVE CopiesHonest'
  BY <1>0, <1>7 DEF Refuse, Quit, Crash, historyVars
<1>8. ASSUME NEW s \in Sessions, NEW r \in Runs, Claim(s, r) \/ Launch(s, r)
      PROVE  CopiesHonest'
  <2>1. Running(s, mem[s][r]).status # "done"
    BY ReadTyped, RecordNotDone
  <2>2. Honest(Merged(s, r, Running(s, mem[s][r])), trained)
    BY <2>1, UpdateHonest DEF Merged, TypeOK
  <2>. QED  BY <1>8, <2>2, CopyHonest DEF Claim, Take, Launch, historyVars
<1>9. ASSUME NEW s \in Sessions, Write(s) PROVE CopiesHonest'
  <2> DEFINE rec == Dropped(mem[s][target[s]])
  <2>1. trained' = trained /\ Honest(disk', trained)
    BY <1>9 DEF Write, historyVars
  <2>2. target[s] \in Runs
    BY <1>9, WriteMemory DEF DInv
  <2>3. rec.status = "done" => target[s] \in trained
    BY <2>2, ReadTyped, RecordNotDone DEF Honest
  <2>4. Honest([mem[s] EXCEPT ![target[s]] = rec], trained)
    BY <2>2, <2>3, ReadTyped, UpdateHonest
  <2>5. \/ mem' = mem
        \/ mem' = [mem EXCEPT ![s] = [mem[s] EXCEPT ![target[s]] = rec]]
    BY <1>9, WriteMemory DEF DInv
  <2>. QED  BY <2>1, <2>4, <2>5, CopyHonest, FileHonest
<1>10. ASSUME NEW s \in Sessions, Spawn(s) PROVE CopiesHonest'
  <2>1. target[s] \in Runs
    BY <1>10 DEF Spawn, Targeted, Engaged, Holding
  <2>2. PICK p \in Pids :
          mem' = [mem EXCEPT ![s] = [mem[s] EXCEPT ![target[s]] =
                                       Traced(mem[s][target[s]], p)]]
    BY <1>10, <2>1 DEF Spawn, TypeOK
  <2>3. Traced(mem[s][target[s]], p).status = "done" => target[s] \in trained
    BY <2>1, ReadTyped, RecordNotDone DEF Honest
  <2>4. Honest([mem[s] EXCEPT ![target[s]] = Traced(mem[s][target[s]], p)], trained)
    BY <2>1, <2>3, ReadTyped, UpdateHonest
  <2>. QED  BY <1>10, <2>2, <2>4, CopyHonest DEF Spawn
<1>11. ASSUME NEW s \in Sessions, Record(s) PROVE CopiesHonest'
  <2>1. target[s] \in Runs
    BY <1>11 DEF Record, Targeted, Engaged, Holding
  <2>2. Honest(Merged(s, target[s], mem[s][target[s]]), trained)
    BY <2>1, UpdateHonest DEF Merged, TypeOK, Honest
  <2>. QED  BY <1>11, <2>2, CopyHonest DEF Record, historyVars
<1>12. ASSUME NEW s \in Sessions, Finish(s) PROVE CopiesHonest'
  <2> DEFINE r == target[s]
             st == trainer[Child(s)].st
  <2>1. r \in Runs
    BY <1>12 DEF Finish, Targeted, Engaged, Holding
  <2>2. trained \subseteq trained' /\ (st = "ok" => r \in trained') /\ disk' = disk
    BY <1>12 DEF Finish
  <2>3. Ended(mem[s][r], st).status = "done" => r \in trained'
    BY <2>1, <2>2, ReadTyped, RecordNotDone
  <2>4. Honest(disk, trained')
    BY <2>2 DEF Honest
  <2>5. Honest(Merged(s, r, Ended(mem[s][r], st)), trained')
    BY <2>1, <2>3, <2>4, UpdateHonest DEF Merged, TypeOK
  <2>. QED  BY <1>12, <2>2, <2>4, <2>5, CopyHonest DEF Finish
<1>13. ASSUME NEW s \in Sessions, Interrupt(s) PROVE CopiesHonest'
  <2>1. target[s] \in Runs
    BY <1>13 DEF Interrupt, Parent, Targeted, Engaged, Holding
  <2>2. Interrupted(mem[s][target[s]]).status # "done"
    BY <2>1, ReadTyped, RecordNotDone
  <2>3. Honest(Merged(s, target[s], Interrupted(mem[s][target[s]])), trained)
    BY <2>1, <2>2, UpdateHonest DEF Merged, TypeOK
  <2>. QED  BY <1>13, <2>3, CopyHonest DEF Interrupt, historyVars
<1>14. ASSUME NEW s \in Sessions, LaunchError(s) PROVE CopiesHonest'
  <2> DEFINE rec == Dropped(mem[s][target[s]])
  <2>1. target[s] \in Runs
    BY <1>14 DEF LaunchError, Targeted, Engaged
  <2>2. rec.status = "done" => target[s] \in trained
    BY <2>1, ReadTyped, RecordNotDone DEF Honest
  <2>3. Honest([mem[s] EXCEPT ![target[s]] = rec], trained)
    BY <2>1, <2>2, ReadTyped, UpdateHonest
  <2>4. \/ mem' = mem
        \/ mem' = [mem EXCEPT ![s] = [mem[s] EXCEPT ![target[s]] = rec]]
    BY <1>14, <2>1 DEF LaunchError, TypeOK
  <2>5. trained' = trained /\ disk' = disk
    BY <1>14 DEF LaunchError, historyVars
  <2>. QED  BY <2>3, <2>4, <2>5, CopyHonest, FileHonest
<1>15. ASSUME NEW n \in Nodes, NodeLoss(n) PROVE CopiesHonest'
  BY <1>15, NoMemoryHonest DEF NodeLoss, historyVars, CopiesHonest
<1>16. CASE \/ \E p \in Pids : TrainerExits(p)
            \/ \E r \in Runs : HeartbeatAges(r) \/ StageData(r)
  BY <1>16, FileHonest DEF TrainerExits, HeartbeatAges, StageData, sessionVars, historyVars
<1>17. CASE UNCHANGED vars
  BY <1>17, FileHonest DEF vars, sessionVars, historyVars
<1>18. ASSUME NEW s \in Sessions, Proceed(s) PROVE CopiesHonest'
  BY <1>18, <1>3, <1>4, <1>6, <1>7, <1>8, <1>9, <1>10, <1>11 DEF Proceed
<1>. QED
  BY <1>1, <1>2, <1>5, <1>7, <1>8, <1>12, <1>13, <1>14, <1>15, <1>16, <1>17, <1>18
  DEF Next, World

\* A session in launch stays in it for the same run, or has just claimed it.
LEMMA HoldingStep ==
  ASSUME DInv, [Next]_vars, NEW s \in Sessions, pc'[s] \in Holding, cmd'[s] = "drive"
  PROVE  \/ pc[s] \in Holding /\ cmd[s] = "drive" /\ target'[s] = target[s]
         \/ \E r \in Runs : Claim(s, r)
<1> DEFINE Step == \/ pc[s] \in Holding /\ cmd[s] = "drive" /\ target'[s] = target[s]
                   \/ \E r \in Runs : Claim(s, r)
<1>. TypeOK
  BY DEF DInv, Typed
<1>1. ASSUME NEW t \in Sessions, NEW c \in Commands, NEW r \in Runs \cup {None}, Start(t, c, r)
      PROVE  Step
  BY <1>1 DEF Start, Goto, Holding, TypeOK
<1>2. ASSUME NEW t \in Sessions, Again(t)
      PROVE  Step
  BY <1>2 DEF Again, Goto, Holding, TypeOK
<1>3. ASSUME NEW t \in Sessions, Reclaim(t)
      PROVE  Step
  BY <1>3 DEF Reclaim, Leave, Goto, Holding, TypeOK
<1>4. ASSUME NEW t \in Sessions, Reset(t) \/ Refuse(t) \/ Quit(t)
      PROVE  Step
  BY <1>4 DEF Reset, Refuse, Quit, Leave, Goto, Holding, TypeOK
<1>5. ASSUME NEW t \in Sessions, NothingPicked(t) \/ Beat(t)
      PROVE  Step
  BY <1>5 DEF NothingPicked, Beat, sessionVars, Goto, Holding, TypeOK
<1>6. ASSUME NEW t \in Sessions, NEW r \in Runs, Claim(t, r)
      PROVE  Step
  <2>1. CASE t = s
    BY <1>6, <2>1
  <2>2. CASE t # s
    BY <1>6, <2>2 DEF Claim, Take, Launch, Goto, Holding, TypeOK
  <2>. QED  BY <2>1, <2>2
<1>7. ASSUME NEW t \in Sessions, Write(t)
      PROVE  Step
  BY <1>7 DEF Write, AfterWrite, Goto, Holding, TypeOK
<1>8. ASSUME NEW t \in Sessions, Spawn(t) \/ Record(t)
      PROVE  Step
  BY <1>8 DEF Spawn, Record, Goto, Holding, TypeOK
<1>9. ASSUME NEW t \in Sessions, Finish(t) \/ Interrupt(t)
      PROVE  Step
  BY <1>9 DEF Finish, Interrupt, Goto, Holding, TypeOK
<1>10. ASSUME NEW t \in Sessions, NEW r \in Runs, Retry(t, r)
      PROVE  Step
  BY <1>10 DEF Retry, Goto, Holding, TypeOK
<1>11. ASSUME NEW t \in Sessions, LaunchError(t) \/ Crash(t)
      PROVE  Step
  BY <1>11 DEF LaunchError, Crash, Leave, Goto, Holding, TypeOK
<1>12. ASSUME NEW n \in Nodes, NodeLoss(n)
      PROVE  Step
  BY <1>12 DEF NodeLoss, Goto, Holding, TypeOK
<1>13. CASE \/ UNCHANGED vars
            \/ \E r \in Runs : HeartbeatAges(r) \/ StageData(r)
            \/ \E p \in Pids : TrainerExits(p)
  BY <1>13 DEF vars, sessionVars, HeartbeatAges, StageData, TrainerExits, Goto, Holding, TypeOK
<1>14. ASSUME NEW t \in Sessions, NEW r \in Runs, Launch(t, r)
      PROVE  Step
  BY <1>14 DEF Launch, Take, Goto, Holding, TypeOK
<1>. QED
  BY <1>1, <1>2, <1>3, <1>4, <1>5, <1>6, <1>7, <1>8, <1>9, <1>10, <1>11, <1>12, <1>13, <1>14
  DEF Next, Proceed, World

\* History only grows.
LEMMA TrainedGrows == ASSUME [Next]_vars PROVE trained \subseteq trained'
  BY DEF Next, Proceed, World, vars, historyVars, Start, Again, Reclaim, Reset, Retry,
         NothingPicked, Refuse, Claim, Take, Launch, Write, Spawn, Record, Beat, Finish,
         Interrupt,
         LaunchError, Quit, Crash, NodeLoss, TrainerExits, HeartbeatAges, StageData

LEMMA NextDependencies == ASSUME DInv, [Next]_vars PROVE DependenciesTrained'
<1>. SUFFICES ASSUME NEW s \in Sessions, cmd'[s] = "drive", pc'[s] \in Holding
              PROVE  DependsOn[target'[s]] \subseteq trained'
  BY DEF DependenciesTrained
<1>1. CASE pc[s] \in Holding /\ cmd[s] = "drive" /\ target'[s] = target[s]
  BY <1>1, TrainedGrows DEF DInv, DependenciesTrained
<1>2. ASSUME NEW r \in Runs, Claim(s, r)
      PROVE  DependsOn[target'[s]] \subseteq trained'
  <2>1. target'[s] = r /\ cmd[s] = "drive"
    BY <1>2 DEF Claim, Take, Launch, DInv, Typed, TypeOK
  <2>2. \A d \in DependsOn[r] : mem[s][d].status = "done"
    BY <1>2, <2>1 DEF Claim, Take, Launch, Chosen, Ready
  <2>3. DependsOn[r] \subseteq trained
    BY <2>2, CampaignAssumption DEF DInv, CopiesHonest, Honest
  <2>. QED  BY <2>1, <2>3, TrainedGrows
<1>. QED  BY <1>1, <1>2, HoldingStep

\* step() starts a run only after each of its dependencies was trained to an
\* exit code of 0: for any graph, any number of racing sessions, and whatever
\* crashes, stale saves, resets and retries come in between.
THEOREM DependenciesFirst == Spec => []DependenciesTrained
<1>1. DInv /\ [Next]_vars => DInv'
  BY NextTyped, NextHonest, NextDependencies DEF DInv
<1>2. DInv => DependenciesTrained
  BY DEF DInv
<1>. QED  BY InitHonest, <1>1, <1>2, PTL DEF Spec

-----------------------------------------------------------------------------
(* The disciplined queue: one trainer per checkpoint directory, one session*)
(* per run, every orphaned trainer on record.                              *)
(*                                                                         *)
(* IInv is the inductive invariant.  Exclusion itself is not inductive: a  *)
(* session decides on a copy of the file, so it takes the agreement of the *)
(* copies with the file while a session is deciding (MemoryCurrent), of    *)
(* the file with the launches in progress (HolderOnRecord), and of the     *)
(* file and the launches with the trainers (TrainerAccounted).             *)
-----------------------------------------------------------------------------
(* The inductive invariant of the disciplined queue. *)

\* At most one session is between a load and its save.
OneWindow ==
    \A s, t \in Sessions : pc[s] \in Window /\ pc[t] \in Window => s = t

\* In the window, what a session holds in memory is what the file says, but for
\* the record it is about to write.
MemoryCurrent ==
    \A s \in Sessions :
        /\ pc[s] \in {"reclaim", "reset", "pick"} => mem[s] = disk
        /\ pc[s] \in {"claiming", "recording", "finishing", "interrupting"} =>
              \A r \in Runs : r # target[s] => mem[s][r] = disk[r]

\* No run has two sessions inside launch.
OneEngaged ==
    \A s, t \in Sessions :
        pc[s] \in Engaged /\ pc[t] \in Engaged /\ target[s] = target[t] => s = t

\* From its first save on, a launch is on record as running and owned.
HolderOnRecord ==
    \A s \in Sessions :
        /\ pc[s] \in Holding =>
              /\ mem[s][target[s]].status = "running"
              /\ mem[s][target[s]].owner = s
        /\ pc[s] \in Holding \ {"claiming"} =>
              /\ disk[target[s]].status = "running"
              /\ disk[target[s]].owner = s
        /\ pc[s] \in {"spawning", "watching"} => disk[target[s]] = mem[s][target[s]]

\* Across machines, the heartbeat of a run inside launch is fresh.
HeldIsFresh ==
    OneNode \/ \A s \in Sessions : pc[s] \in Holding \ {"claiming"} => target[s] \in fresh

Follows(s, p) ==
    /\ pc[s] \in Parent
    /\ target[s] = trainer[p].run
    /\ Child(s) = p
    /\ trainer[p].by = s

\* A trainer nobody follows, visible from every session.
Orphan(p) ==
    /\ OneNode
    /\ disk[trainer[p].run].status = "running"
    /\ disk[trainer[p].run].child = p
    /\ \A s \in Sessions : pc[s] \in Engaged => target[s] # trainer[p].run

TrainerAccounted ==
    \A p \in Pids :
        /\ Writing(p) => trainer[p].run \in Runs /\ trainer[p].by \in Sessions
        /\ trainer[p].st = "live" => (\E s \in Sessions : Follows(s, p)) \/ Orphan(p)

\* While a terminated trainer is dying nobody is deciding anything.
DyingIsAlone ==
    (\E p \in Pids : trainer[p].st = "dying") =>
        \A s \in Sessions : pc[s] \in Window => pc[s] \in {"finishing", "interrupting"}

\* `run` and `reset` were started on a run nobody held, and nobody does yet.
AskedIsFree ==
    \A s \in Sessions :
        pc[s] = "reset" \/ (pc[s] \in {"reclaim", "pick"} /\ cmd[s] = "run")
            => ~Busy(target[s])

IInv ==
    /\ Typed
    /\ HonestNames
    /\ OneWindow
    /\ MemoryCurrent
    /\ OneEngaged
    /\ HolderOnRecord
    /\ HeldIsFresh
    /\ TrainerAccounted
    /\ DyingIsAlone
    /\ AskedIsFree
    /\ OneTrainerPerDirectory

-----------------------------------------------------------------------------
LEMMA InitIInv == Init /\ HonestNames => IInv
<1>. SUFFICES ASSUME Init, HonestNames PROVE IInv
  OBVIOUS
<1>1. \A s \in Sessions : pc[s] = "off"
  BY DEF Init
<1>2. \A p \in Pids : trainer[p].st = "free"
  BY DEF Init, NoTrainer
<1>. QED
  BY <1>1, <1>2, InitTyped
  DEF IInv, OneWindow, MemoryCurrent, OneEngaged, HolderOnRecord, HeldIsFresh, Holding,
      Window, Engaged, TrainerAccounted, DyingIsAlone, AskedIsFree, OneTrainerPerDirectory,
      Writing

\* The discipline takes steps away and adds none.
LEMMA DisciplinedIsNext == DisciplinedNext => Next
  BY DEF DisciplinedNext, Next, World

\* A launch from the notebook, as the discipline lets it be asked for.
Launches(s, r) ==
    /\ WindowFree /\ NoneDying
    /\ mem[s] = disk /\ ~Busy(r)
    /\ Launch(s, r)

\* A run is taken: by a session that loaded to take it, or from the notebook.
Takes(s, r) == Claim(s, r) \/ Launches(s, r)

LEMMA WindowStep ==
  ASSUME IInv, [DisciplinedNext]_vars, NEW s \in Sessions, pc'[s] \in Window
  PROVE  \/ pc[s] \in Window
         \/ WindowFree /\ \A t \in Sessions : t # s => pc'[t] = pc[t]
<1> DEFINE Step == \/ pc[s] \in Window
                   \/ WindowFree /\ \A t \in Sessions : t # s => pc'[t] = pc[t]
<1>. TypeOK
  BY DEF IInv, Typed
<1>1. ASSUME NEW t \in Sessions, NEW c \in Commands, NEW r \in Runs \cup {None},
             Start(t, c, r), WindowFree, NoneDying
      PROVE  Step
  BY <1>1 DEF Start, Goto, Window, TypeOK
<1>2. ASSUME NEW t \in Sessions, Again(t), WindowFree, NoneDying
      PROVE  Step
  BY <1>2 DEF Again, Goto, Window, TypeOK
<1>3. ASSUME NEW t \in Sessions, Reclaim(t)
      PROVE  Step
  BY <1>3 DEF Reclaim, Leave, Goto, Window, TypeOK
<1>4. ASSUME NEW t \in Sessions, Reset(t) \/ Refuse(t) \/ Quit(t)
      PROVE  Step
  BY <1>4 DEF Reset, Refuse, Quit, Leave, Goto, Window, TypeOK
<1>5. ASSUME NEW t \in Sessions, NothingPicked(t) \/ Beat(t)
      PROVE  Step
  BY <1>5 DEF NothingPicked, Beat, sessionVars, Goto, Window, TypeOK
<1>6. ASSUME NEW t \in Sessions, NEW r \in Runs, Takes(t, r)
      PROVE  Step
  BY <1>6 DEF Takes, Launches, Claim, Take, Launch, Goto, Window, TypeOK
<1>7. ASSUME NEW t \in Sessions, Write(t)
      PROVE  Step
  BY <1>7 DEF Write, AfterWrite, Goto, Window, TypeOK
<1>8. ASSUME NEW t \in Sessions, Spawn(t) \/ Record(t)
      PROVE  Step
  BY <1>8 DEF Spawn, Record, Goto, Window, TypeOK
<1>9. ASSUME NEW t \in Sessions, Finish(t) \/ Interrupt(t), WindowFree
      PROVE  Step
  BY <1>9 DEF Finish, Interrupt, Goto, Window, TypeOK
<1>10. ASSUME NEW t \in Sessions, NEW r \in Runs, Retry(t, r), WindowFree, NoneDying
      PROVE  Step
  BY <1>10 DEF Retry, Goto, Window, TypeOK
<1>11. ASSUME NEW t \in Sessions, LaunchError(t) \/ Crash(t)
      PROVE  Step
  BY <1>11 DEF LaunchError, Crash, Leave, Goto, Window, TypeOK
<1>12. ASSUME NEW n \in Nodes, NodeLoss(n)
      PROVE  Step
  BY <1>12 DEF NodeLoss, Goto, Window, TypeOK
<1>13. CASE \/ UNCHANGED vars
            \/ \E r \in Runs : HeartbeatAges(r) \/ StageData(r)
            \/ \E p \in Pids : TrainerExits(p)
  BY <1>13 DEF vars, sessionVars, HeartbeatAges, StageData, TrainerExits, Goto, Window, TypeOK
<1>. QED
  BY <1>1, <1>2, <1>3, <1>4, <1>5, <1>6, <1>7, <1>8, <1>9, <1>10, <1>11, <1>12, <1>13
  DEF DisciplinedNext, Proceed, World, Takes, Launches

LEMMA EngagedStep ==
  ASSUME IInv, [DisciplinedNext]_vars, NEW s \in Sessions, pc'[s] \in Engaged
  PROVE  \/ pc[s] \in Engaged /\ target'[s] = target[s]
         \/ Takes(s, target'[s])
<1> DEFINE Step == \/ pc[s] \in Engaged /\ target'[s] = target[s]
                   \/ Takes(s, target'[s])
<1>. TypeOK
  BY DEF IInv, Typed
<1>1. ASSUME NEW t \in Sessions, NEW c \in Commands, NEW r \in Runs \cup {None},
             Start(t, c, r), WindowFree, NoneDying
      PROVE  Step
  BY <1>1 DEF Start, Goto, Engaged, Holding, TypeOK
<1>2. ASSUME NEW t \in Sessions, Again(t), WindowFree, NoneDying
      PROVE  Step
  BY <1>2 DEF Again, Goto, Engaged, Holding, TypeOK
<1>3. ASSUME NEW t \in Sessions, Reclaim(t)
      PROVE  Step
  BY <1>3 DEF Reclaim, Leave, Goto, Engaged, Holding, TypeOK
<1>4. ASSUME NEW t \in Sessions, Reset(t) \/ Refuse(t) \/ Quit(t)
      PROVE  Step
  BY <1>4 DEF Reset, Refuse, Quit, Leave, Goto, Engaged, Holding, TypeOK
<1>5. ASSUME NEW t \in Sessions, NothingPicked(t) \/ Beat(t)
      PROVE  Step
  BY <1>5 DEF NothingPicked, Beat, sessionVars, Goto, Engaged, Holding, TypeOK
<1>6. ASSUME NEW t \in Sessions, NEW r \in Runs, Takes(t, r)
      PROVE  Step
  <2>1. CASE t = s
    BY <1>6, <2>1 DEF Takes, Launches, Claim, Take, Launch, TypeOK
  <2>2. CASE t # s
    BY <1>6, <2>2 DEF Takes, Launches, Claim, Take, Launch, Goto, Engaged, Holding, TypeOK
  <2>. QED  BY <2>1, <2>2
<1>7. ASSUME NEW t \in Sessions, Write(t)
      PROVE  Step
  BY <1>7 DEF Write, AfterWrite, Goto, Engaged, Holding, TypeOK
<1>8. ASSUME NEW t \in Sessions, Spawn(t) \/ Record(t)
      PROVE  Step
  BY <1>8 DEF Spawn, Record, Goto, Engaged, Holding, TypeOK
<1>9. ASSUME NEW t \in Sessions, Finish(t) \/ Interrupt(t), WindowFree
      PROVE  Step
  BY <1>9 DEF Finish, Interrupt, Parent, Goto, Engaged, Holding, TypeOK
<1>10. ASSUME NEW t \in Sessions, NEW r \in Runs, Retry(t, r), WindowFree, NoneDying
      PROVE  Step
  BY <1>10 DEF Retry, Goto, Engaged, Holding, TypeOK
<1>11. ASSUME NEW t \in Sessions, LaunchError(t) \/ Crash(t)
      PROVE  Step
  BY <1>11 DEF LaunchError, Crash, Leave, Goto, Engaged, Holding, TypeOK
<1>12. ASSUME NEW n \in Nodes, NodeLoss(n)
      PROVE  Step
  BY <1>12 DEF NodeLoss, Goto, Engaged, Holding, TypeOK
<1>13. CASE \/ UNCHANGED vars
            \/ \E r \in Runs : HeartbeatAges(r) \/ StageData(r)
            \/ \E p \in Pids : TrainerExits(p)
  BY <1>13 DEF vars, sessionVars, HeartbeatAges, StageData, TrainerExits, Goto, Engaged,
         Holding, TypeOK
<1>. QED
  BY <1>1, <1>2, <1>3, <1>4, <1>5, <1>6, <1>7, <1>8, <1>9, <1>10, <1>11, <1>12, <1>13
  DEF DisciplinedNext, Proceed, World, Takes, Launches

\* Whoever takes a run takes it alone: next_run picks no run on record as
\* running, and `run` was started, or the notebook asked, for a run nobody held.
LEMMA ClaimFree ==
  ASSUME IInv, NEW s \in Sessions, NEW r \in Runs, Takes(s, r)
  PROVE  ~Busy(r) /\ \A t \in Sessions : pc[t] \in Engaged => target[t] # r
<1>1. CASE Launches(s, r)
  <2>1. ~Busy(r) /\ \A t \in Sessions : pc[t] \notin Window
    BY <1>1 DEF Launches, WindowFree
  <2>. QED  BY <2>1 DEF Busy, Engaged, Window
<1>2. CASE Claim(s, r)
  <2>1. pc[s] = "pick" /\ Chosen(s, r) /\ mem[s] = disk
    BY <1>2 DEF Claim, IInv, MemoryCurrent
  <2>2. \A t \in Sessions : pc[t] \in Engaged => pc[t] = "watching"
    BY <2>1 DEF IInv, OneWindow, Engaged, Holding, Window
  <2>3. CASE cmd[s] = "drive"
    <3>1. disk[r].status # "running"
      BY <2>1, <2>3 DEF Chosen, Ready, RESUMABLE
    <3>2. \A t \in Sessions : pc[t] \in Engaged => target[t] # r
      BY <2>2, <3>1 DEF IInv, HolderOnRecord, Holding
    <3>3. \A p \in Pids : Occupies(p, r) => trainer[p].st # "dying"
      BY <2>1 DEF IInv, DyingIsAlone, Window
    <3>4. \A p \in Pids : trainer[p].st = "live" => trainer[p].run # r
      BY <3>1, <3>2 DEF IInv, TrainerAccounted, Follows, Orphan, Parent, Engaged, Holding
    <3>. QED  BY <3>2, <3>3, <3>4 DEF Busy, Occupies, Writing, Engaged
  <2>4. CASE cmd[s] = "run"
    <3>1. ~Busy(r)
      BY <2>1, <2>4 DEF IInv, AskedIsFree, Chosen
    <3>. QED  BY <2>2, <3>1 DEF Busy, Holding
  <2>. QED  BY <2>1, <2>3, <2>4 DEF IInv, Typed, Targeted
<1>. QED  BY <1>1, <1>2 DEF Takes

LEMMA NextOneWindow == ASSUME IInv, [DisciplinedNext]_vars PROVE OneWindow'
  BY WindowStep DEF IInv, OneWindow, WindowFree

LEMMA NextOneEngaged == ASSUME IInv, [DisciplinedNext]_vars PROVE OneEngaged'
<1>. SUFFICES ASSUME NEW s \in Sessions, NEW t \in Sessions,
                     pc'[s] \in Engaged, pc'[t] \in Engaged, target'[s] = target'[t]
              PROVE  s = t
  BY DEF OneEngaged
<1>1. CASE /\ pc[s] \in Engaged /\ target'[s] = target[s]
           /\ pc[t] \in Engaged /\ target'[t] = target[t]
  BY <1>1 DEF IInv, OneEngaged
<1>2. target'[s] \in Runs
  BY NextTyped, DisciplinedIsNext DEF IInv, Typed, Targeted
<1>3. CASE Takes(s, target'[s]) /\ pc[t] \in Engaged /\ target'[t] = target[t]
  BY <1>2, <1>3, ClaimFree
<1>4. CASE Takes(t, target'[t]) /\ pc[s] \in Engaged /\ target'[s] = target[s]
  BY <1>2, <1>4, ClaimFree
<1>5. CASE Takes(s, target'[s]) /\ Takes(t, target'[t])
  <2>1. ASSUME NEW u \in Sessions, Takes(u, target'[u])
        PROVE  pc'[u] = "claiming" /\ \A v \in Sessions \ {u} : pc'[v] = pc[v]
    BY <2>1 DEF Takes, Launches, Claim, Take, Launch, Goto, IInv, Typed, TypeOK
  <2>2. ASSUME NEW u \in Sessions, Takes(u, target'[u])
        PROVE  pc[u] # "claiming"
    BY <2>2 DEF Takes, Launches, Claim, Launch
  <2>. QED  BY <1>5, <2>1, <2>2
<1>. QED  BY <1>1, <1>3, <1>4, <1>5, EngagedStep

\* Whoever is deciding was deciding before, or starts with nobody dying.
LEMMA DecidingStep ==
  ASSUME IInv, [DisciplinedNext]_vars, NEW s \in Sessions,
         pc'[s] \in Window \ {"finishing", "interrupting"}
  PROVE  \/ pc[s] \in Window \ {"finishing", "interrupting"}
         \/ NoneDying /\ trainer' = trainer
<1> DEFINE Step == \/ pc[s] \in Window \ {"finishing", "interrupting"}
                   \/ NoneDying /\ trainer' = trainer
<1>. TypeOK
  BY DEF IInv, Typed
<1>1. ASSUME NEW t \in Sessions, NEW c \in Commands, NEW r \in Runs \cup {None},
             Start(t, c, r), WindowFree, NoneDying
      PROVE  Step
  BY <1>1 DEF Start, Goto, Window, TypeOK
<1>2. ASSUME NEW t \in Sessions, Again(t), WindowFree, NoneDying
      PROVE  Step
  BY <1>2 DEF Again, Goto, Window, TypeOK
<1>3. ASSUME NEW t \in Sessions, Reclaim(t)
      PROVE  Step
  BY <1>3 DEF Reclaim, Leave, Goto, Window, TypeOK
<1>4. ASSUME NEW t \in Sessions, Reset(t) \/ Refuse(t) \/ Quit(t)
      PROVE  Step
  BY <1>4 DEF Reset, Refuse, Quit, Leave, Goto, Window, TypeOK
<1>5. ASSUME NEW t \in Sessions, NothingPicked(t) \/ Beat(t)
      PROVE  Step
  BY <1>5 DEF NothingPicked, Beat, sessionVars, Goto, Window, TypeOK
<1>6. ASSUME NEW t \in Sessions, NEW r \in Runs, Takes(t, r)
      PROVE  Step
  BY <1>6 DEF Takes, Launches, Claim, Take, Launch, Goto, Window, TypeOK
<1>7. ASSUME NEW t \in Sessions, Write(t)
      PROVE  Step
  BY <1>7 DEF Write, AfterWrite, Goto, Window, TypeOK
<1>8. ASSUME NEW t \in Sessions, Spawn(t) \/ Record(t)
      PROVE  Step
  BY <1>8 DEF Spawn, Record, Goto, Window, TypeOK
<1>9. ASSUME NEW t \in Sessions, Finish(t) \/ Interrupt(t), WindowFree
      PROVE  Step
  BY <1>9 DEF Finish, Interrupt, Goto, Window, TypeOK
<1>10. ASSUME NEW t \in Sessions, NEW r \in Runs, Retry(t, r), WindowFree, NoneDying
      PROVE  Step
  BY <1>10 DEF Retry, Goto, Window, TypeOK
<1>11. ASSUME NEW t \in Sessions, LaunchError(t) \/ Crash(t)
      PROVE  Step
  BY <1>11 DEF LaunchError, Crash, Leave, Goto, Window, TypeOK
<1>12. ASSUME NEW n \in Nodes, NodeLoss(n)
      PROVE  Step
  BY <1>12 DEF NodeLoss, Goto, Window, TypeOK
<1>13. CASE \/ UNCHANGED vars
            \/ \E r \in Runs : HeartbeatAges(r) \/ StageData(r)
            \/ \E p \in Pids : TrainerExits(p)
  BY <1>13 DEF vars, sessionVars, HeartbeatAges, StageData, TrainerExits, Goto, Window, TypeOK
<1>. QED
  BY <1>1, <1>2, <1>3, <1>4, <1>5, <1>6, <1>7, <1>8, <1>9, <1>10, <1>11, <1>12, <1>13
  DEF DisciplinedNext, Proceed, World, Takes, Launches

LEMMA DyingStep ==
  ASSUME IInv, [DisciplinedNext]_vars, NEW p \in Pids, trainer'[p].st = "dying"
  PROVE  \/ trainer[p].st = "dying"
         \/ \A s \in Sessions : pc'[s] \in Window => pc'[s] = "interrupting"
<1> DEFINE Step == \/ trainer[p].st = "dying"
                   \/ \A s \in Sessions : pc'[s] \in Window => pc'[s] = "interrupting"
<1>. TypeOK
  BY DEF IInv, Typed
<1>1. ASSUME NEW t \in Sessions, NEW c \in Commands, NEW r \in Runs \cup {None},
             Start(t, c, r), WindowFree, NoneDying
      PROVE  Step
  BY <1>1 DEF Start, Goto, Window, WindowFree, Reaped, NoTrainer, TypeOK
<1>2. ASSUME NEW t \in Sessions, Again(t), WindowFree, NoneDying
      PROVE  Step
  BY <1>2 DEF Again, Goto, Window, WindowFree, Reaped, NoTrainer, TypeOK
<1>3. ASSUME NEW t \in Sessions, Reclaim(t)
      PROVE  Step
  BY <1>3 DEF Reclaim, Leave, Goto, Window, WindowFree, Reaped, NoTrainer, TypeOK
<1>4. ASSUME NEW t \in Sessions, Reset(t) \/ Refuse(t) \/ Quit(t)
      PROVE  Step
  BY <1>4 DEF Reset, Refuse, Quit, Leave, Goto, Window, WindowFree, Reaped, NoTrainer, TypeOK
<1>5. ASSUME NEW t \in Sessions, NothingPicked(t) \/ Beat(t)
      PROVE  Step
  BY <1>5 DEF NothingPicked, Beat, sessionVars, Goto, Window, WindowFree, Reaped,
         NoTrainer, TypeOK
<1>6. ASSUME NEW t \in Sessions, NEW r \in Runs, Takes(t, r)
      PROVE  Step
  BY <1>6
  DEF Takes, Launches, Claim, Take, Launch, Goto, Window, WindowFree, Reaped, NoTrainer, TypeOK
<1>7. ASSUME NEW t \in Sessions, Write(t)
      PROVE  Step
  BY <1>7 DEF Write, AfterWrite, Goto, Window, WindowFree, Reaped, NoTrainer, TypeOK
<1>8. ASSUME NEW t \in Sessions, Spawn(t) \/ Record(t)
      PROVE  Step
  <2>1. ASSUME NEW q \in Pids, NEW rec, rec.st = "live", trainer' = [trainer EXCEPT ![q] = rec]
        PROVE  Step
    BY <2>1 DEF TypeOK
  <2>2. CASE Spawn(t)
    <3>1. PICK q \in Pids :
            trainer' = [trainer EXCEPT ![q] = [st |-> "live", run |-> target[t], by |-> t,
                                              resume |-> resume[t]]]
      BY <2>2 DEF Spawn
    <3>. QED  BY <2>1, <3>1
  <2>3. CASE Record(t)
    BY <2>3 DEF Record
  <2>. QED  BY <1>8, <2>2, <2>3
<1>9. ASSUME NEW t \in Sessions, Finish(t) \/ Interrupt(t), WindowFree
      PROVE  Step
  BY <1>9 DEF Finish, Interrupt, Goto, Window, WindowFree, Reaped, NoTrainer, TypeOK
<1>10. ASSUME NEW t \in Sessions, NEW r \in Runs, Retry(t, r), WindowFree, NoneDying
      PROVE  Step
  BY <1>10 DEF Retry, Goto, Window, WindowFree, Reaped, NoTrainer, TypeOK
<1>11. ASSUME NEW t \in Sessions, LaunchError(t) \/ Crash(t)
      PROVE  Step
  BY <1>11 DEF LaunchError, Crash, Leave, Goto, Window, WindowFree, Reaped, NoTrainer, TypeOK
<1>12. ASSUME NEW n \in Nodes, NodeLoss(n)
      PROVE  Step
  BY <1>12 DEF NodeLoss, Goto, Window, WindowFree, Reaped, NoTrainer, TypeOK
<1>13. ASSUME NEW q \in Pids, TrainerExits(q)
      PROVE  Step
  <2>1. \/ \E st \in {"ok", "bad"} : trainer' = [trainer EXCEPT ![q].st = st]
        \/ trainer' = [trainer EXCEPT ![q] = NoTrainer]
    BY <1>13 DEF TrainerExits
  <2>2. CASE q = p
    BY <2>1, <2>2 DEF NoTrainer, Trainer, TypeOK
  <2>3. CASE q # p
    BY <2>1, <2>3 DEF TypeOK
  <2>. QED  BY <2>2, <2>3
<1>14. CASE UNCHANGED vars \/ \E r \in Runs : HeartbeatAges(r) \/ StageData(r)
  BY <1>14 DEF vars, HeartbeatAges, StageData
<1>. QED
  BY <1>1, <1>2, <1>3, <1>4, <1>5, <1>6, <1>7, <1>8, <1>9, <1>10, <1>11, <1>12, <1>13,
     <1>14
  DEF DisciplinedNext, Proceed, World, Takes, Launches

LEMMA NextDyingIsAlone == ASSUME IInv, [DisciplinedNext]_vars PROVE DyingIsAlone'
  BY DecidingStep, DyingStep DEF IInv, DyingIsAlone, NoneDying

\* What a step may write to one run's record in the file.
LEMMA FileStep ==
  ASSUME IInv, [DisciplinedNext]_vars, NEW r \in Runs
  PROVE  \/ disk'[r] = disk[r]
         \/ \E s \in Sessions : Reclaim(s) /\ r \in StaleRuns(s)
         \/ \E s \in Sessions : Reset(s) /\ r = target[s]
         \/ ~Busy(r) /\ WindowFree
         \/ \E s \in Sessions : Write(s) /\ r = target[s]
<1>1. ASSUME NEW s \in Sessions, Reclaim(s), r \notin StaleRuns(s)
      PROVE  disk'[r] = disk[r]
  BY <1>1 DEF Reclaim, Reclaimed, IInv, MemoryCurrent
<1>2. ASSUME NEW s \in Sessions, Reset(s), r # target[s]
      PROVE  disk'[r] = disk[r]
  BY <1>2 DEF Reset, IInv, MemoryCurrent, Typed, TypeOK
<1>3. ASSUME NEW s \in Sessions, Write(s), r # target[s]
      PROVE  disk'[r] = disk[r]
  BY <1>3 DEF Write, AfterWrite, IInv, MemoryCurrent
<1>4. ASSUME NEW s \in Sessions, NEW q \in Runs, WindowFree, mem[s] = disk, ~Busy(q),
             Retry(s, q), r # q
      PROVE  disk'[r] = disk[r]
  BY <1>4 DEF Retry, IInv, Typed, TypeOK
<1>5. \/ disk' = disk
      \/ \E s \in Sessions : Reclaim(s) \/ Reset(s) \/ Write(s)
      \/ \E s \in Sessions, q \in Runs : /\ WindowFree /\ mem[s] = disk /\ ~Busy(q)
                                        /\ Retry(s, q)
  BY DEF DisciplinedNext, Proceed, World, vars, sessionVars, Start, Again, NothingPicked,
         Refuse, Takes, Launches, Claim, Take, Launch, Spawn, Record, Beat, Finish,
         Interrupt, LaunchError, Quit, Crash,
         NodeLoss, TrainerExits, HeartbeatAges, StageData
<1>. QED  BY <1>1, <1>2, <1>3, <1>4, <1>5

\* reclaim_stale and everybody else leave the record of a launch alone.
LEMMA HeldKept ==
  ASSUME IInv, [DisciplinedNext]_vars, NEW s \in Sessions,
         pc[s] \in Holding \ {"claiming"}, ~Write(s)
  PROVE  disk'[target[s]] = disk[target[s]]
<1>1. target[s] \in Runs
  BY DEF IInv, Typed, Targeted, Engaged
<1>2. ASSUME NEW u \in Sessions, Reclaim(u), target[s] \in StaleRuns(u)
      PROVE  FALSE
  <2>1. mem[u] = disk /\ disk[target[s]].status = "running" /\ disk[target[s]].owner = s
    BY <1>2 DEF Reclaim, IInv, MemoryCurrent, HolderOnRecord
  <2>2. OwnerAlive(u, target[s], disk[target[s]])
    <3>1. CASE HostName[s] # HostName[u]
      BY <2>1, <3>1, CampaignAssumption
      DEF OwnerAlive, IInv, HonestNames, HeldIsFresh, OneNode
    <3>2. CASE HostName[s] = HostName[u]
      BY <2>1, <3>2, CampaignAssumption DEF OwnerAlive, IInv, HonestNames, Up, Holding
    <3>. QED  BY <3>1, <3>2
  <2>. QED  BY <1>2, <2>1, <2>2 DEF StaleRuns, IsStale
<1>3. ASSUME NEW u \in Sessions, Reset(u), target[s] = target[u]
      PROVE  FALSE
  BY <1>3 DEF Reset, IInv, AskedIsFree, Busy
<1>4. ASSUME NEW u \in Sessions, Write(u), target[s] = target[u]
      PROVE  FALSE
  BY <1>4 DEF Write, AfterWrite, IInv, OneEngaged, Engaged, Holding
<1>5. Busy(target[s])
  BY DEF Busy
<1>. QED  BY <1>1, <1>2, <1>3, <1>4, <1>5, FileStep

\* And the record of an orphan, whose trainer any session can see is alive.
LEMMA OrphanKept ==
  ASSUME IInv, [DisciplinedNext]_vars, NEW p \in Pids, trainer[p].st = "live", Orphan(p)
  PROVE  disk'[trainer[p].run] = disk[trainer[p].run]
<1> DEFINE r == trainer[p].run
<1>1. r \in Runs /\ trainer[p].by \in Sessions
  BY DEF IInv, TrainerAccounted, Writing
<1>2. ASSUME NEW u \in Sessions, Reclaim(u), r \in StaleRuns(u)
      PROVE  FALSE
  <2>1. mem[u] = disk /\ disk[r].child = p
    BY <1>2 DEF Reclaim, IInv, MemoryCurrent, Orphan
  <2>2. TrainerAlive(u, disk[r])
    BY <1>1, <2>1, CampaignAssumption DEF TrainerAlive, Orphan, OneNode, Writing
  <2>. QED  BY <1>2, <2>1, <2>2 DEF StaleRuns, IsStale
<1>3. Busy(r)
  BY DEF Busy, Occupies, Writing
<1>4. ASSUME NEW u \in Sessions, Reset(u), r = target[u]
      PROVE  FALSE
  BY <1>3, <1>4 DEF Reset, IInv, AskedIsFree
<1>5. ASSUME NEW u \in Sessions, Write(u), r = target[u]
      PROVE  FALSE
  BY <1>5 DEF Write, AfterWrite, Orphan, Engaged, Holding
<1>. QED  BY <1>1, <1>2, <1>3, <1>4, <1>5, FileStep

\* A launch in progress goes on with its record, or has just been claimed.
LEMMA LaunchStep ==
  ASSUME IInv, [DisciplinedNext]_vars, NEW s \in Sessions, pc'[s] \in Holding
  PROVE  \/ Takes(s, target'[s])
         \/ /\ pc[s] \in Holding /\ target'[s] = target[s]
            /\ pc[s] = "claiming" => pc'[s] = "claiming" \/ Write(s)
            /\ mem'[s][target[s]].status = mem[s][target[s]].status
            /\ mem'[s][target[s]].owner = mem[s][target[s]].owner
            /\ pc'[s] \in {"spawning", "watching"} =>
                  mem'[s] = mem[s] /\ (pc'[s] = pc[s] \/ Write(s))
<1> DEFINE Step == \/ Takes(s, target'[s])
                   \/ /\ pc[s] \in Holding /\ target'[s] = target[s]
                      /\ pc[s] = "claiming" => pc'[s] = "claiming" \/ Write(s)
                      /\ mem'[s][target[s]].status = mem[s][target[s]].status
                      /\ mem'[s][target[s]].owner = mem[s][target[s]].owner
                      /\ pc'[s] \in {"spawning", "watching"} =>
                            mem'[s] = mem[s] /\ (pc'[s] = pc[s] \/ Write(s))
<1>. TypeOK
  BY DEF IInv, Typed
<1>1. ASSUME NEW t \in Sessions, NEW c \in Commands, NEW r \in Runs \cup {None},
             Start(t, c, r), WindowFree, NoneDying
      PROVE  Step
  BY <1>1 DEF Start, Goto, Engaged, Holding, Traced, Merged, RunState, TypeOK
<1>2. ASSUME NEW t \in Sessions, Again(t), WindowFree, NoneDying
      PROVE  Step
  BY <1>2 DEF Again, Goto, Engaged, Holding, Traced, Merged, RunState, TypeOK
<1>3. ASSUME NEW t \in Sessions, Reclaim(t)
      PROVE  Step
  BY <1>3 DEF Reclaim, Leave, Goto, Engaged, Holding, Traced, Merged, RunState, TypeOK
<1>4. ASSUME NEW t \in Sessions, Reset(t) \/ Refuse(t) \/ Quit(t)
      PROVE  Step
  BY <1>4 DEF Reset, Refuse, Quit, Leave, Goto, Engaged, Holding, Traced, Merged, RunState,
         TypeOK
<1>5. ASSUME NEW t \in Sessions, NothingPicked(t) \/ Beat(t)
      PROVE  Step
  BY <1>5 DEF NothingPicked, Beat, sessionVars, Goto, Engaged, Holding, Traced, Merged,
         RunState, TypeOK
<1>6. ASSUME NEW t \in Sessions, NEW r \in Runs, Takes(t, r)
      PROVE  Step
  <2>1. CASE t = s
    BY <1>6, <2>1 DEF Takes, Launches, Claim, Take, Launch, TypeOK
  <2>2. CASE t # s
    BY <1>6, <2>2
    DEF Takes, Launches, Claim, Take, Launch, Goto, Engaged, Holding, Traced, Merged,
        RunState, TypeOK
  <2>. QED  BY <2>1, <2>2
<1>7. ASSUME NEW t \in Sessions, Write(t)
      PROVE  Step
  <2>1. target' = target /\ pc' = [pc EXCEPT ![t] = AfterWrite[pc[t]]]
    BY <1>7 DEF Write, Goto
  <2>2. CASE t = s
    <3>1. pc[s] \in {"claiming", "recording"}
      BY <1>7, <2>1, <2>2 DEF Write, AfterWrite, Holding, TypeOK
    <3>2. mem' = mem
      BY <1>7, <2>2, <3>1 DEF Write
    <3>. QED  BY <1>7, <2>1, <2>2, <3>1, <3>2 DEF Holding
  <2>3. CASE t # s
    <3>1. mem'[s] = mem[s]
      BY <1>7, <2>3, WriteMemory DEF IInv, TypeOK
    <3>. QED  BY <2>1, <2>3, <3>1 DEF TypeOK
  <2>. QED  BY <2>2, <2>3
<1>8. ASSUME NEW t \in Sessions, Spawn(t) \/ Record(t)
      PROVE  Step
  <2>1. CASE t # s
    BY <1>8, <2>1 DEF Spawn, Record, Goto, TypeOK
  <2>2. CASE t = s
    <3>1. pc[s] \in Holding \ {"claiming"} /\ pc'[s] \in {"spawned", "recording"} /\ target' = target
      BY <1>8, <2>2 DEF Spawn, Record, Goto, Holding, TypeOK
    <3>2. target[s] \in Runs
      BY <3>1 DEF IInv, Typed, Targeted, Engaged
    <3>3. mem[s][target[s]] \in RunState
      BY <3>2, ReadTyped
    <3>4. \/ mem'[s][target[s]] = mem[s][target[s]]
          \/ \E q \in Pids : mem'[s][target[s]] = Traced(mem[s][target[s]], q)
      BY <1>8, <2>2, <3>2 DEF Spawn, Record, Merged, TypeOK
    <3>. QED  BY <3>1, <3>3, <3>4 DEF Traced, RunState
  <2>. QED  BY <2>1, <2>2
<1>9. ASSUME NEW t \in Sessions, Finish(t) \/ Interrupt(t), WindowFree
      PROVE  Step
  BY <1>9 DEF Finish, Interrupt, Goto, Engaged, Holding, Traced, Merged, RunState, TypeOK
<1>10. ASSUME NEW t \in Sessions, NEW r \in Runs, Retry(t, r), WindowFree, NoneDying
      PROVE  Step
  BY <1>10 DEF Retry, Goto, Engaged, Holding, Traced, Merged, RunState, TypeOK
<1>11. ASSUME NEW t \in Sessions, LaunchError(t) \/ Crash(t)
      PROVE  Step
  BY <1>11 DEF LaunchError, Crash, Leave, Goto, Engaged, Holding, Traced, Merged, RunState,
         TypeOK
<1>12. ASSUME NEW n \in Nodes, NodeLoss(n)
      PROVE  Step
  BY <1>12 DEF NodeLoss, Goto, Engaged, Holding, Traced, Merged, RunState, TypeOK
<1>13. CASE \/ UNCHANGED vars
            \/ \E r \in Runs : HeartbeatAges(r) \/ StageData(r)
            \/ \E p \in Pids : TrainerExits(p)
  BY <1>13 DEF vars, sessionVars, HeartbeatAges, StageData, TrainerExits, Goto, Engaged,
         Holding, Traced, Merged, RunState, TypeOK
<1>. QED
  BY <1>1, <1>2, <1>3, <1>4, <1>5, <1>6, <1>7, <1>8, <1>9, <1>10, <1>11, <1>12, <1>13
  DEF DisciplinedNext, Proceed, World, Takes, Launches

LEMMA NextHeldIsFresh == ASSUME IInv, [DisciplinedNext]_vars PROVE HeldIsFresh'
<1>. SUFFICES ASSUME ~OneNode, NEW s \in Sessions, pc'[s] \in Holding \ {"claiming"}
              PROVE  target'[s] \in fresh'
  BY DEF HeldIsFresh, OneNode
<1>1. /\ pc[s] \in Holding /\ target'[s] = target[s]
      /\ pc[s] = "claiming" => Write(s)
  BY LaunchStep DEF Takes, Launches, Claim, Take, Launch, Goto, IInv, Typed, TypeOK
<1>2. CASE Write(s)
  BY <1>1, <1>2 DEF Write, BeatWritten, IInv, HeldIsFresh
<1>3. CASE ~Write(s)
  <2>1. target[s] \in fresh
    BY <1>1, <1>3 DEF IInv, HeldIsFresh
  <2>2. \/ fresh \subseteq fresh'
        \/ \E r \in Runs : HeartbeatAges(r) /\ r # target[s]
    BY <1>1
    DEF DisciplinedNext, Proceed, World, vars, Start, Again, Reclaim, Reset, Retry,
        NothingPicked, Refuse, Takes, Launches, Claim, Take, Launch, Write, BeatWritten,
        Spawn, Record, Beat, Finish,
        Interrupt, LaunchError, Quit, Crash, NodeLoss, TrainerExits, StageData
  <2>. QED  BY <1>1, <2>1, <2>2 DEF HeartbeatAges
<1>. QED  BY <1>2, <1>3

LEMMA NextHolderOnRecord == ASSUME IInv, [DisciplinedNext]_vars PROVE HolderOnRecord'
<1>. SUFFICES ASSUME NEW s \in Sessions, pc'[s] \in Holding
              PROVE
                /\ mem'[s][target'[s]].status = "running"
                /\ mem'[s][target'[s]].owner = s
                /\ pc'[s] # "claiming" => /\ disk'[target'[s]].status = "running"
                                          /\ disk'[target'[s]].owner = s
                /\ pc'[s] \in {"spawning", "watching"} => disk'[target'[s]] = mem'[s][target'[s]]
  BY DEF HolderOnRecord, Holding
<1>1. CASE Takes(s, target'[s])
  <2>1. target'[s] \in Runs
    BY NextTyped, DisciplinedIsNext DEF IInv, Typed, Targeted, Engaged
  <2>2. mem'[s][target'[s]] = Running(s, mem[s][target'[s]]) /\ pc'[s] = "claiming"
    BY <1>1, <2>1 DEF Takes, Launches, Claim, Take, Launch, Merged, Goto, IInv, Typed, TypeOK
  <2>3. mem[s][target'[s]] \in RunState
    BY <2>1, ReadTyped DEF IInv, Typed
  <2>. QED  BY <2>2, <2>3 DEF Running, RunState
<1>2. CASE /\ pc[s] \in Holding /\ target'[s] = target[s]
           /\ pc[s] = "claiming" => pc'[s] = "claiming" \/ Write(s)
           /\ mem'[s][target[s]].status = mem[s][target[s]].status
           /\ mem'[s][target[s]].owner = mem[s][target[s]].owner
           /\ pc'[s] \in {"spawning", "watching"} =>
                 mem'[s] = mem[s] /\ (pc'[s] = pc[s] \/ Write(s))
  <2>1. CASE Write(s)
    BY <1>2, <2>1 DEF Write, IInv, HolderOnRecord
  <2>2. CASE ~Write(s)
    BY <1>2, <2>2, HeldKept DEF IInv, HolderOnRecord
  <2>. QED  BY <2>1, <2>2
<1>. QED  BY <1>1, <1>2, LaunchStep

\* How a session comes to hold a copy it is going to write from.
LEMMA MemoryStep ==
  ASSUME IInv, [DisciplinedNext]_vars, NEW s \in Sessions
  PROVE  /\ pc'[s] \in {"reclaim", "reset", "pick"} =>
              \/ disk' = disk /\ mem'[s] = disk
              \/ Reclaim(s) /\ mem'[s] = disk'
              \/ pc'[s] = pc[s] /\ mem'[s] = mem[s]
         /\ pc'[s] \in {"claiming", "recording", "finishing", "interrupting"} =>
              \/ disk' = disk /\ target'[s] \in Runs /\ \E rec : mem'[s] = Merged(s, target'[s], rec)
              \/ pc'[s] = pc[s] /\ mem'[s] = mem[s] /\ target'[s] = target[s]
<1> DEFINE Step ==
      /\ pc'[s] \in {"reclaim", "reset", "pick"} =>
           \/ disk' = disk /\ mem'[s] = disk
           \/ Reclaim(s) /\ mem'[s] = disk'
           \/ pc'[s] = pc[s] /\ mem'[s] = mem[s]
      /\ pc'[s] \in {"claiming", "recording", "finishing", "interrupting"} =>
           \/ disk' = disk /\ target'[s] \in Runs /\ \E rec : mem'[s] = Merged(s, target'[s], rec)
           \/ pc'[s] = pc[s] /\ mem'[s] = mem[s] /\ target'[s] = target[s]
<1>. TypeOK
  BY DEF IInv, Typed
<1>1. ASSUME NEW u \in Sessions, Reclaim(u)
      PROVE  mem'[u] = disk'
  <2>1. mem'[u] = Reclaimed(u)
    BY <1>1 DEF Reclaim, IInv, Typed, TypeOK
  <2>2. StaleRuns(u) = {} => Reclaimed(u) = [r \in Runs |-> mem[u][r]]
    BY DEF Reclaimed
  <2>3. StaleRuns(u) = {} => Reclaimed(u) = disk
    BY <1>1, <2>2 DEF Reclaim, IInv, MemoryCurrent, Typed, TypeOK
  <2>. QED  BY <1>1, <2>1, <2>3 DEF Reclaim
<1>2. ASSUME NEW u \in Sessions, Write(u)
      PROVE  /\ pc'[s] \in Window => u # s \/ pc'[s] = "spawning"
             /\ u # s => pc'[s] = pc[s] /\ mem'[s] = mem[s] /\ target'[s] = target[s]
  BY <1>2, WriteMemory DEF Write, AfterWrite, Goto, Window, IInv, Typed, TypeOK
<1>3. ASSUME NEW t \in Sessions, NEW c \in Commands, NEW r \in Runs \cup {None}, Start(t, c, r)
      PROVE  Step
  BY <1>3 DEF Start, Goto, TypeOK
<1>4. ASSUME NEW t \in Sessions, Again(t)
      PROVE  Step
  BY <1>4 DEF Again, Goto, TypeOK
<1>5. ASSUME NEW t \in Sessions, Reclaim(t)
      PROVE  Step
  <2>1. CASE t = s
    BY <1>1, <1>5, <2>1 DEF Reclaim, Goto, TypeOK
  <2>2. CASE t # s
    BY <1>5, <2>2 DEF Reclaim, Goto, TypeOK
  <2>. QED  BY <2>1, <2>2
<1>6. ASSUME NEW t \in Sessions, Reset(t) \/ Refuse(t) \/ Quit(t)
      PROVE  Step
  BY <1>6 DEF Reset, Refuse, Quit, Leave, TypeOK
<1>7. ASSUME NEW t \in Sessions, NothingPicked(t) \/ Beat(t)
      PROVE  Step
  BY <1>7 DEF NothingPicked, Beat, sessionVars, Goto, TypeOK
<1>8. ASSUME NEW t \in Sessions, NEW r \in Runs, Takes(t, r)
      PROVE  Step
  <2>1. CASE t = s
    BY <1>8, <2>1 DEF Takes, Launches, Claim, Take, Launch, Goto, TypeOK
  <2>2. CASE t # s
    BY <1>8, <2>2 DEF Takes, Launches, Claim, Take, Launch, Goto, TypeOK
  <2>. QED  BY <2>1, <2>2
<1>9. ASSUME NEW t \in Sessions, Write(t)
      PROVE  Step
  <2>1. CASE t = s
    BY <1>2, <1>9, <2>1 DEF Window, Write, AfterWrite, Goto, TypeOK
  <2>2. CASE t # s
    BY <1>2, <1>9, <2>2
  <2>. QED  BY <2>1, <2>2
<1>10. ASSUME NEW t \in Sessions, Spawn(t) \/ Record(t)
      PROVE  Step
  <2>1. CASE t = s
    <3>1. target[s] \in Runs
      BY <1>10, <2>1 DEF Spawn, Record, IInv, Typed, Targeted, Engaged, Holding
    <3>. QED  BY <1>10, <2>1, <3>1 DEF Spawn, Record, Goto, TypeOK
  <2>2. CASE t # s
    BY <1>10, <2>2 DEF Spawn, Record, Goto, TypeOK
  <2>. QED  BY <2>1, <2>2
<1>11. ASSUME NEW t \in Sessions, Finish(t) \/ Interrupt(t)
      PROVE  Step
  <2>1. CASE t = s
    <3>1. target[s] \in Runs
      BY <1>11, <2>1 DEF Finish, Interrupt, Parent, IInv, Typed, Targeted, Engaged, Holding
    <3>. QED  BY <1>11, <2>1, <3>1 DEF Finish, Interrupt, Goto, TypeOK
  <2>2. CASE t # s
    BY <1>11, <2>2 DEF Finish, Interrupt, Goto, TypeOK
  <2>. QED  BY <2>1, <2>2
<1>12. ASSUME NEW t \in Sessions, NEW r \in Runs, Retry(t, r)
      PROVE  Step
  BY <1>12 DEF Retry, TypeOK
<1>13. ASSUME NEW t \in Sessions, LaunchError(t) \/ Crash(t)
      PROVE  Step
  BY <1>13 DEF LaunchError, Crash, Leave, Goto, TypeOK
<1>14. ASSUME NEW n \in Nodes, NodeLoss(n)
      PROVE  Step
  BY <1>14 DEF NodeLoss, TypeOK
<1>15. CASE \/ UNCHANGED vars
            \/ \E r \in Runs : HeartbeatAges(r) \/ StageData(r)
            \/ \E p \in Pids : TrainerExits(p)
  BY <1>15 DEF vars, sessionVars, HeartbeatAges, StageData, TrainerExits
<1>. QED
  BY <1>3, <1>4, <1>5, <1>6, <1>7, <1>8, <1>9, <1>10, <1>11, <1>12, <1>13, <1>14, <1>15
  DEF DisciplinedNext, Proceed, World, Takes, Launches

\* Only a session that is deciding writes the file, or one that edits it while
\* nobody is.
LEMMA WriterDecides ==
  ASSUME IInv, [DisciplinedNext]_vars, disk' # disk
  PROVE  \/ WindowFree /\ pc' = pc
         \/ \E s \in Sessions : /\ pc[s] \in Window
                                /\ Reclaim(s) \/ Reset(s) \/ Write(s)
  BY DEF DisciplinedNext, Proceed, World, vars, sessionVars, Start, Again, NothingPicked,
         Refuse, Takes, Launches, Claim, Take, Launch, Spawn, Record, Beat, Finish,
         Interrupt, LaunchError, Quit, Crash,
         NodeLoss, TrainerExits, HeartbeatAges, StageData, Reclaim, Reset, Write, AfterWrite,
         Window, Retry

LEMMA NextMemoryCurrent == ASSUME IInv, [DisciplinedNext]_vars PROVE MemoryCurrent'
<1>. SUFFICES ASSUME NEW s \in Sessions
              PROVE  /\ pc'[s] \in {"reclaim", "reset", "pick"} => mem'[s] = disk'
                     /\ pc'[s] \in {"claiming", "recording", "finishing", "interrupting"} =>
                           \A r \in Runs : r # target'[s] => mem'[s][r] = disk'[r]
  BY DEF MemoryCurrent
<1>1. ASSUME NEW rec, target'[s] \in Runs, mem'[s] = Merged(s, target'[s], rec), disk' = disk
      PROVE  \A r \in Runs : r # target'[s] => mem'[s][r] = disk'[r]
  BY <1>1 DEF Merged, IInv, Typed, TypeOK
<1>2. CASE disk' = disk
  BY <1>1, <1>2, MemoryStep DEF IInv, MemoryCurrent
<1>3. ASSUME NEW u \in Sessions, pc[u] \in Window, Reclaim(u) \/ Reset(u) \/ Write(u),
             disk' # disk
      PROVE  /\ pc'[s] \in {"reclaim", "reset", "pick"} => mem'[s] = disk'
             /\ pc'[s] \in {"claiming", "recording", "finishing", "interrupting"} => FALSE
  <2>1. CASE s = u
    <3>1. pc'[s] \in Window => (Reclaim(s) /\ pc'[s] = "pick") \/ pc'[s] = "spawning"
      BY <1>3, <2>1
      DEF Reclaim, Reset, Write, AfterWrite, Leave, Goto, Window, IInv, Typed, TypeOK
    <3>. QED  BY <3>1, <1>3, <2>1, MemoryStep DEF Window, Reclaim
  <2>2. CASE s # u
    <3>1. pc'[s] = pc[s]
      BY <1>3, <2>2 DEF Reclaim, Reset, Write, Leave, Goto, IInv, Typed, TypeOK
    <3>. QED  BY <3>1, <1>3, <2>2 DEF IInv, OneWindow, Window
  <2>. QED  BY <2>1, <2>2
<1>4. CASE WindowFree /\ pc' = pc
  BY <1>4 DEF WindowFree, Window
<1>. QED  BY <1>2, <1>3, <1>4, WriterDecides

\* Session s starts trainer p.
SpawnsAs(s, p) ==
    /\ trainer' = [trainer EXCEPT ![p] = [st |-> "live", run |-> target[s], by |-> s,
                                          resume |-> resume[s]]]
    /\ mem' = [mem EXCEPT ![s][target[s]] = Traced(mem[s][target[s]], p)]

\* A process that writes a directory was writing it before, or is just started.
LEMMA TrainerStep ==
  ASSUME IInv, [DisciplinedNext]_vars, NEW p \in Pids, trainer'[p].st \in {"live", "dying"}
  PROVE  \/ /\ Writing(p)
            /\ trainer'[p].run = trainer[p].run /\ trainer'[p].by = trainer[p].by
            /\ trainer'[p].st = "live" => trainer'[p] = trainer[p]
         \/ \E s \in Sessions : Spawn(s) /\ SpawnsAs(s, p)
<1> DEFINE Step == \/ /\ trainer[p].st \in {"live", "dying"}
                      /\ trainer'[p].run = trainer[p].run /\ trainer'[p].by = trainer[p].by
                      /\ trainer'[p].st = "live" => trainer'[p] = trainer[p]
                   \/ \E s \in Sessions : Spawn(s) /\ SpawnsAs(s, p)
<1>. TypeOK
  BY DEF IInv, Typed
<1>0. Step => \/ /\ Writing(p)
                 /\ trainer'[p].run = trainer[p].run /\ trainer'[p].by = trainer[p].by
                 /\ trainer'[p].st = "live" => trainer'[p] = trainer[p]
              \/ \E s \in Sessions : Spawn(s) /\ SpawnsAs(s, p)
  BY DEF Writing
<1>. SUFFICES Step
  BY <1>0
<1>1. ASSUME NEW t \in Sessions, NEW c \in Commands, NEW r \in Runs \cup {None},
             Start(t, c, r), WindowFree, NoneDying
      PROVE  Step
  BY <1>1 DEF Start, Reaped, NoTrainer, TypeOK
<1>2. ASSUME NEW t \in Sessions, Again(t), WindowFree, NoneDying
      PROVE  Step
  BY <1>2 DEF Again, Reaped, NoTrainer, TypeOK
<1>3. ASSUME NEW t \in Sessions, Reclaim(t)
      PROVE  Step
  BY <1>3 DEF Reclaim, Leave, Reaped, NoTrainer, TypeOK
<1>4. ASSUME NEW t \in Sessions, Reset(t) \/ Refuse(t) \/ Quit(t)
      PROVE  Step
  BY <1>4 DEF Reset, Refuse, Quit, Leave, Reaped, NoTrainer, TypeOK
<1>5. ASSUME NEW t \in Sessions, NothingPicked(t) \/ Beat(t)
      PROVE  Step
  BY <1>5 DEF NothingPicked, Beat, sessionVars, Reaped, NoTrainer, TypeOK
<1>6. ASSUME NEW t \in Sessions, NEW r \in Runs, Takes(t, r)
      PROVE  Step
  BY <1>6 DEF Takes, Launches, Claim, Take, Launch, Reaped, NoTrainer, TypeOK
<1>7. ASSUME NEW t \in Sessions, Write(t)
      PROVE  Step
  BY <1>7 DEF Write, AfterWrite, Reaped, NoTrainer, TypeOK
<1>8. ASSUME NEW t \in Sessions, Spawn(t) \/ Record(t)
      PROVE  Step
  <2>1. CASE Spawn(t)
    <3>1. PICK q \in Pids : SpawnsAs(t, q)
      BY <2>1 DEF Spawn, SpawnsAs, TypeOK
    <3>2. CASE q = p
      BY <2>1, <3>1, <3>2
    <3>3. CASE q # p
      BY <3>1, <3>3 DEF SpawnsAs, TypeOK
    <3>. QED  BY <3>2, <3>3
  <2>2. CASE Record(t)
    BY <2>2 DEF Record
  <2>. QED  BY <1>8, <2>1, <2>2
<1>9. ASSUME NEW t \in Sessions, Finish(t) \/ Interrupt(t), WindowFree
      PROVE  Step
  <2>1. CASE p # Child(t)
    BY <1>9, <2>1 DEF Finish, Interrupt, TypeOK
  <2>2. CASE p = Child(t) /\ Finish(t)
    BY <2>2 DEF Finish, NoTrainer, TypeOK
  <2>3. CASE p = Child(t) /\ Interrupt(t)
    <3>1. trainer'[p] = IF trainer[p].st = "live" THEN [trainer[p] EXCEPT !.st = "dying"]
                        ELSE NoTrainer
      BY <2>3 DEF Interrupt, TypeOK
    <3>. QED  BY <3>1 DEF NoTrainer, Trainer, TypeOK
  <2>. QED  BY <1>9, <2>1, <2>2, <2>3
<1>10. ASSUME NEW t \in Sessions, NEW r \in Runs, Retry(t, r), WindowFree, NoneDying
      PROVE  Step
  BY <1>10 DEF Retry, Reaped, NoTrainer, TypeOK
<1>11. ASSUME NEW t \in Sessions, LaunchError(t) \/ Crash(t)
      PROVE  Step
  BY <1>11 DEF LaunchError, Crash, Leave, Reaped, NoTrainer, TypeOK
<1>12. ASSUME NEW n \in Nodes, NodeLoss(n)
      PROVE  Step
  BY <1>12 DEF NodeLoss, Reaped, NoTrainer, TypeOK
<1>13. ASSUME NEW q \in Pids, TrainerExits(q)
      PROVE  Step
  <2>1. \/ \E st \in {"ok", "bad"} : trainer' = [trainer EXCEPT ![q].st = st]
        \/ trainer' = [trainer EXCEPT ![q] = NoTrainer]
    BY <1>13 DEF TrainerExits
  <2>2. CASE q = p
    BY <2>1, <2>2 DEF NoTrainer, Trainer, TypeOK
  <2>3. CASE q # p
    BY <2>1, <2>3 DEF TypeOK
  <2>. QED  BY <2>2, <2>3
<1>14. CASE UNCHANGED vars \/ \E r \in Runs : HeartbeatAges(r) \/ StageData(r)
  BY <1>14 DEF vars, HeartbeatAges, StageData
<1>. QED
  BY <1>1, <1>2, <1>3, <1>4, <1>5, <1>6, <1>7, <1>8, <1>9, <1>10, <1>11, <1>12, <1>13,
     <1>14
  DEF DisciplinedNext, Proceed, World, Takes, Launches

\* A directory in which a trainer is started has no other writer.
LEMMA SpawnFree ==
  ASSUME IInv, NEW s \in Sessions, Spawn(s), NEW q \in Pids, Writing(q)
  PROVE  trainer[q].run # target[s]
<1>1. pc[s] = "spawning"
  BY DEF Spawn
<1>2. trainer[q].st = "live"
  BY <1>1 DEF IInv, DyingIsAlone, Writing, Window
<1>3. CASE \E t \in Sessions : Follows(t, q)
  BY <1>1, <1>3 DEF Follows, Parent, IInv, OneEngaged, Engaged, Holding
<1>4. CASE Orphan(q)
  BY <1>1, <1>4 DEF Orphan, Engaged, Holding
<1>. QED  BY <1>2, <1>3, <1>4 DEF IInv, TrainerAccounted

LEMMA NextOneTrainer == ASSUME IInv, [DisciplinedNext]_vars PROVE OneTrainerPerDirectory'
<1>. SUFFICES ASSUME NEW p \in Pids, NEW q \in Pids,
                     trainer'[p].st \in {"live", "dying"}, trainer'[q].st \in {"live", "dying"},
                     trainer'[p].run = trainer'[q].run, p # q
              PROVE  FALSE
  BY DEF OneTrainerPerDirectory, Writing
<1>1. ASSUME NEW s \in Sessions, NEW u \in Pids, NEW v \in Pids, u # v, Spawn(s), SpawnsAs(s, u),
             trainer'[v].st \in {"live", "dying"}, trainer'[u].run = trainer'[v].run
      PROVE  FALSE
  <2>1. trainer'[v] = trainer[v] /\ trainer'[u].run = target[s]
    BY <1>1 DEF SpawnsAs, IInv, Typed, TypeOK
  <2>. QED  BY <1>1, <2>1, SpawnFree DEF Writing
<1>2. CASE /\ Writing(p) /\ trainer'[p].run = trainer[p].run
           /\ Writing(q) /\ trainer'[q].run = trainer[q].run
  BY <1>2 DEF IInv, OneTrainerPerDirectory
<1>. QED  BY <1>1, <1>2, TrainerStep

\* A trainer that is followed stays so, or becomes an orphan on record.
LEMMA FollowStep ==
  ASSUME IInv, [DisciplinedNext]_vars, NEW s \in Sessions, NEW p \in Pids,
         Follows(s, p), trainer[p].st = "live", trainer'[p] = trainer[p]
  PROVE  \/ /\ pc'[s] \in Parent /\ target'[s] = target[s]
            /\ mem'[s][target[s]].child = p
         \/ /\ OneNode /\ pc[s] = "watching" /\ pc'[s] \notin Engaged
            /\ disk' = disk
<1> DEFINE Step == \/ /\ pc'[s] \in Parent /\ target'[s] = target[s]
                      /\ mem'[s][target[s]].child = p
                   \/ /\ OneNode /\ pc[s] = "watching" /\ pc'[s] \notin Engaged
                      /\ disk' = disk
<1>. TypeOK
  BY DEF IInv, Typed
<1>. target[s] \in Runs /\ pc[s] \in Parent /\ mem[s][target[s]].child = p /\ trainer[p].by = s
  BY DEF Follows, Child, IInv, Typed, Targeted, Engaged, Holding, Parent
<1>1. ASSUME NEW t \in Sessions, NEW c \in Commands, NEW r \in Runs \cup {None},
             Start(t, c, r), WindowFree, NoneDying
      PROVE  Step
  BY <1>1 DEF Start, Goto, Parent, Engaged, Holding, TypeOK
<1>2. ASSUME NEW t \in Sessions, Again(t), WindowFree, NoneDying
      PROVE  Step
  BY <1>2 DEF Again, Goto, Parent, Engaged, Holding, TypeOK
<1>3. ASSUME NEW t \in Sessions, Reclaim(t)
      PROVE  Step
  BY <1>3 DEF Reclaim, Leave, Goto, Parent, Engaged, Holding, TypeOK
<1>4. ASSUME NEW t \in Sessions, Reset(t) \/ Refuse(t) \/ Quit(t)
      PROVE  Step
  BY <1>4 DEF Reset, Refuse, Quit, Leave, Goto, Parent, Engaged, Holding, TypeOK
<1>5. ASSUME NEW t \in Sessions, NothingPicked(t) \/ Beat(t)
      PROVE  Step
  BY <1>5 DEF NothingPicked, Beat, sessionVars, Goto, Parent, Engaged, Holding, TypeOK
<1>6. ASSUME NEW t \in Sessions, NEW r \in Runs, Takes(t, r)
      PROVE  Step
  BY <1>6 DEF Takes, Launches, Claim, Take, Launch, Goto, Parent, Engaged, Holding, TypeOK
<1>7. ASSUME NEW t \in Sessions, Write(t)
      PROVE  Step
  BY <1>7 DEF Write, AfterWrite, Goto, Parent, Engaged, Holding, TypeOK
<1>8. ASSUME NEW t \in Sessions, Spawn(t) \/ Record(t)
      PROVE  Step
  <2>1. CASE t # s
    BY <1>8, <2>1 DEF Spawn, Record, Goto, TypeOK
  <2>2. CASE t = s
    <3>1. Record(s)
      BY <1>8, <2>2 DEF Spawn, Parent
    <3>2. mem'[s][target[s]] = mem[s][target[s]]
      BY <3>1 DEF Record, Merged, TypeOK
    <3>. QED  BY <3>1, <3>2 DEF Record, Goto, Parent, TypeOK
  <2>. QED  BY <2>1, <2>2
<1>9. ASSUME NEW t \in Sessions, Finish(t) \/ Interrupt(t), WindowFree
      PROVE  Step
  <2>1. CASE t # s
    BY <1>9, <2>1 DEF Finish, Interrupt, Goto, TypeOK
  <2>2. CASE t = s
    <3>1. Child(s) = p
      BY DEF Child
    <3>2. Interrupt(s)
      BY <1>9, <2>2, <3>1 DEF Finish
    <3>3. trainer'[p] = [trainer[p] EXCEPT !.st = "dying"]
      BY <3>1, <3>2 DEF Interrupt, TypeOK
    <3>. QED  BY <3>3 DEF Trainer, TypeOK
  <2>. QED  BY <2>1, <2>2
<1>10. ASSUME NEW t \in Sessions, NEW r \in Runs, Retry(t, r), WindowFree, NoneDying
      PROVE  Step
  BY <1>10 DEF Retry, Goto, Parent, Engaged, Holding, TypeOK
<1>11. ASSUME NEW t \in Sessions, CleanDeath(t), LaunchError(t) \/ Crash(t)
      PROVE  Step
  <2>1. CASE t # s
    BY <1>11, <2>1 DEF LaunchError, Crash, Leave, Goto, TypeOK
  <2>2. CASE t = s
    <3>1. pc[s] = "watching" /\ OneNode
      BY <1>11, <2>2 DEF CleanDeath, Child
    <3>2. disk' = disk /\ pc'[s] \in {"idle", "off"}
      BY <1>11, <2>2 DEF LaunchError, Crash, Leave, Goto, TypeOK
    <3>. QED  BY <3>1, <3>2 DEF Engaged, Holding
  <2>. QED  BY <2>1, <2>2
<1>12. ASSUME NEW n \in Nodes, NodeLoss(n)
      PROVE  Step
  <2>1. Node[s] # n
    BY <1>12 DEF NodeLoss, NoTrainer
  <2>. QED  BY <1>12, <2>1 DEF NodeLoss, TypeOK
<1>13. CASE \/ UNCHANGED vars
            \/ \E r \in Runs : HeartbeatAges(r) \/ StageData(r)
            \/ \E q \in Pids : TrainerExits(q)
  BY <1>13 DEF vars, sessionVars, HeartbeatAges, StageData, TrainerExits, Goto, Parent,
         Engaged, Holding, TypeOK
<1>. QED
  BY <1>1, <1>2, <1>3, <1>4, <1>5, <1>6, <1>7, <1>8, <1>9, <1>10, <1>11, <1>12, <1>13
  DEF DisciplinedNext, Proceed, World, Takes, Launches

LEMMA NextTrainerAccounted == ASSUME IInv, [DisciplinedNext]_vars PROVE TrainerAccounted'
<1>. SUFFICES ASSUME NEW p \in Pids, trainer'[p].st \in {"live", "dying"}
              PROVE  /\ trainer'[p].run \in Runs /\ trainer'[p].by \in Sessions
                     /\ trainer'[p].st = "live" =>
                           (\E s \in Sessions : Follows(s, p)') \/ Orphan(p)'
  BY DEF TrainerAccounted, Writing
<1>1. ASSUME NEW s \in Sessions, Spawn(s), SpawnsAs(s, p)
      PROVE  trainer'[p].run \in Runs /\ trainer'[p].by \in Sessions /\ Follows(s, p)'
  <2>1. target[s] \in Runs
    BY <1>1 DEF Spawn, IInv, Typed, Targeted, Engaged, Holding
  <2>2. trainer'[p].run = target[s] /\ trainer'[p].by = s
    BY <1>1 DEF SpawnsAs, IInv, Typed, TypeOK
  <2>3. pc'[s] = "spawned" /\ target' = target
    BY <1>1 DEF Spawn, Goto, IInv, Typed, TypeOK
  <2>4. mem'[s][target[s]] = Traced(mem[s][target[s]], p)
    BY <1>1, <2>1 DEF SpawnsAs, IInv, Typed, TypeOK
  <2>5. mem'[s][target[s]].child = p
    BY <2>1, <2>4, ReadTyped DEF Traced, RunState, IInv, Typed
  <2>. QED  BY <2>1, <2>2, <2>3, <2>5 DEF Follows, Parent, Child
<1>2. ASSUME Writing(p), trainer'[p].run = trainer[p].run, trainer'[p].by = trainer[p].by,
             trainer'[p].st = "live", trainer'[p] = trainer[p]
      PROVE  (\E s \in Sessions : Follows(s, p)') \/ Orphan(p)'
  <2>1. ASSUME NEW s \in Sessions, Follows(s, p),
               pc'[s] \in Parent, target'[s] = target[s], mem'[s][target[s]].child = p
        PROVE  Follows(s, p)'
    BY <1>2, <2>1 DEF Follows, Child
  <2>2. \A t \in Sessions : Takes(t, target'[t]) => target'[t] # trainer[p].run
    <3>. SUFFICES ASSUME NEW t \in Sessions, Takes(t, target'[t])
                  PROVE  target'[t] # trainer[p].run
      OBVIOUS
    <3>1. pc'[t] = "claiming"
      BY DEF Takes, Launches, Claim, Take, Launch, Goto, IInv, Typed, TypeOK
    <3>2. target'[t] \in Runs
      BY <3>1, NextTyped, DisciplinedIsNext DEF IInv, Typed, Targeted, Engaged, Holding
    <3>. QED  BY <1>2, <3>2, ClaimFree DEF Busy, Occupies
  <2>3. ASSUME NEW s \in Sessions, Follows(s, p),
               OneNode, pc[s] = "watching", pc'[s] \notin Engaged, disk' = disk
        PROVE  Orphan(p)'
    <3>1. disk[trainer[p].run].status = "running" /\ disk[trainer[p].run].child = p
      BY <2>3 DEF Follows, Child, IInv, HolderOnRecord, Holding
    <3>2. \A t \in Sessions : pc'[t] \in Engaged => target'[t] # trainer[p].run
      BY <2>2, <2>3, EngagedStep DEF Follows, IInv, OneEngaged, Engaged, Holding
    <3>. QED  BY <1>2, <2>3, <3>1, <3>2 DEF Orphan, OneNode
  <2>4. CASE Orphan(p)
    <3>1. disk'[trainer[p].run] = disk[trainer[p].run]
      BY <1>2, <2>4, OrphanKept
    <3>2. \A t \in Sessions : pc'[t] \in Engaged => target'[t] # trainer[p].run
      BY <2>2, <2>4, EngagedStep DEF Orphan
    <3>. QED  BY <1>2, <2>4, <3>1, <3>2 DEF Orphan, OneNode
  <2>. QED  BY <1>2, <2>1, <2>3, <2>4, FollowStep DEF IInv, TrainerAccounted
<1>3. Writing(p) => trainer[p].run \in Runs /\ trainer[p].by \in Sessions
  BY DEF IInv, TrainerAccounted
<1>. QED  BY <1>1, <1>2, <1>3, TrainerStep

\* A directory is busy because it was, or because a session has just taken it.
LEMMA BusyStep ==
  ASSUME IInv, [DisciplinedNext]_vars, NEW r \in Runs, Busy(r)'
  PROVE  \/ Busy(r)
         \/ \E t \in Sessions : /\ pc[t] \in Window \/ WindowFree
                                /\ pc'[t] \in {"claiming", "spawned"}
                                /\ \A u \in Sessions \ {t} : pc'[u] = pc[u]
<1>1. ASSUME NEW p \in Pids, trainer'[p].st \in {"live", "dying"}, trainer'[p].run = r
      PROVE  Busy(r) \/ \E t \in Sessions : Spawn(t)
  BY <1>1, TrainerStep DEF Busy, Occupies
<1>2. ASSUME NEW s \in Sessions, pc'[s] \in Holding, target'[s] = r
      PROVE  Busy(r) \/ Takes(s, r)
  BY <1>2, LaunchStep DEF Busy
<1>3. \A t \in Sessions : Spawn(t) \/ Takes(t, r) =>
        /\ pc[t] \in Window \/ WindowFree
        /\ pc'[t] \in {"claiming", "spawned"}
        /\ \A u \in Sessions \ {t} : pc'[u] = pc[u]
  BY DEF Spawn, Takes, Launches, Claim, Take, Launch, Goto, Window, IInv, Typed, TypeOK
<1>. QED  BY <1>1, <1>2, <1>3 DEF Busy, Occupies, Writing

\* Who has been asked for a run was before, or is only now.
LEMMA AskedStep ==
  ASSUME IInv, [DisciplinedNext]_vars, NEW s \in Sessions,
         pc'[s] = "reset" \/ (pc'[s] \in {"reclaim", "pick"} /\ cmd'[s] = "run")
  PROVE  \/ /\ pc[s] = "reset" \/ (pc[s] \in {"reclaim", "pick"} /\ cmd[s] = "run")
            /\ target'[s] = target[s]
         \/ ~Busy(target'[s]) /\ WindowFree
<1> DEFINE Step == \/ /\ pc[s] = "reset" \/ (pc[s] \in {"reclaim", "pick"} /\ cmd[s] = "run")
                      /\ target'[s] = target[s]
                   \/ ~Busy(target'[s]) /\ WindowFree
<1>. TypeOK
  BY DEF IInv, Typed
<1>1. ASSUME NEW t \in Sessions, NEW c \in Commands, NEW r \in Runs \cup {None}, Start(t, c, r),
             WindowFree, c \in {"run", "reset"} => ~Busy(r)
      PROVE  Step
  <2>1. CASE t # s
    BY <1>1, <2>1 DEF Start, Goto, TypeOK
  <2>2. CASE t = s
    <3>1. target'[s] = r /\ cmd'[s] = c
      BY <1>1, <2>2 DEF Start, TypeOK
    <3>2. c \in {"run", "reset"}
      BY <1>1, <2>2, <3>1 DEF Start, Goto, TypeOK
    <3>. QED  BY <1>1, <3>1, <3>2
  <2>. QED  BY <2>1, <2>2
<1>2. ASSUME NEW t \in Sessions, Again(t), WindowFree, NoneDying
      PROVE  Step
  BY <1>2 DEF Again, Goto, Window, TypeOK
<1>3. ASSUME NEW t \in Sessions, Reclaim(t)
      PROVE  Step
  BY <1>3 DEF Reclaim, Leave, Goto, Window, TypeOK
<1>4. ASSUME NEW t \in Sessions, Reset(t) \/ Refuse(t) \/ Quit(t)
      PROVE  Step
  BY <1>4 DEF Reset, Refuse, Quit, Leave, Goto, Window, TypeOK
<1>5. ASSUME NEW t \in Sessions, NothingPicked(t) \/ Beat(t)
      PROVE  Step
  BY <1>5 DEF NothingPicked, Beat, sessionVars, Goto, Window, TypeOK
<1>6. ASSUME NEW t \in Sessions, NEW r \in Runs, Takes(t, r)
      PROVE  Step
  BY <1>6 DEF Takes, Launches, Claim, Take, Launch, Goto, Window, TypeOK
<1>7. ASSUME NEW t \in Sessions, Write(t)
      PROVE  Step
  BY <1>7 DEF Write, AfterWrite, Goto, Window, TypeOK
<1>8. ASSUME NEW t \in Sessions, Spawn(t) \/ Record(t)
      PROVE  Step
  BY <1>8 DEF Spawn, Record, Goto, Window, TypeOK
<1>9. ASSUME NEW t \in Sessions, Finish(t) \/ Interrupt(t), WindowFree
      PROVE  Step
  BY <1>9 DEF Finish, Interrupt, Goto, Window, TypeOK
<1>10. ASSUME NEW t \in Sessions, NEW r \in Runs, Retry(t, r), WindowFree, NoneDying
      PROVE  Step
  BY <1>10 DEF Retry, Goto, Window, TypeOK
<1>11. ASSUME NEW t \in Sessions, LaunchError(t) \/ Crash(t)
      PROVE  Step
  BY <1>11 DEF LaunchError, Crash, Leave, Goto, Window, TypeOK
<1>12. ASSUME NEW n \in Nodes, NodeLoss(n)
      PROVE  Step
  BY <1>12 DEF NodeLoss, Goto, Window, TypeOK
<1>13. CASE \/ UNCHANGED vars
            \/ \E r \in Runs : HeartbeatAges(r) \/ StageData(r)
            \/ \E p \in Pids : TrainerExits(p)
  BY <1>13 DEF vars, sessionVars, HeartbeatAges, StageData, TrainerExits, Goto, Window, TypeOK
<1>. QED
  BY <1>1, <1>2, <1>3, <1>4, <1>5, <1>6, <1>7, <1>8, <1>9, <1>10, <1>11, <1>12, <1>13
  DEF DisciplinedNext, Proceed, World, Takes, Launches

LEMMA NextAskedIsFree == ASSUME IInv, [DisciplinedNext]_vars PROVE AskedIsFree'
<1>. SUFFICES ASSUME NEW s \in Sessions,
                     pc'[s] = "reset" \/ (pc'[s] \in {"reclaim", "pick"} /\ cmd'[s] = "run")
              PROVE  ~Busy(target[s])'
  BY DEF AskedIsFree
<1>1. target'[s] \in Runs
  BY NextTyped, DisciplinedIsNext DEF IInv, Typed, Targeted, Engaged
<1>2. ~Busy(target'[s])
  BY AskedStep DEF IInv, AskedIsFree
<1>3. pc'[s] \in Window \ {"claiming", "spawned"}
  BY DEF Window
<1>4. ASSUME NEW t \in Sessions, pc[t] \in Window \/ WindowFree,
             pc'[t] \in {"claiming", "spawned"}, \A u \in Sessions \ {t} : pc'[u] = pc[u]
      PROVE  FALSE
  <2>1. s # t /\ pc[s] = pc'[s]
    BY <1>3, <1>4
  <2>2. pc[s] \in Window
    BY <1>3, <2>1
  <2>3. pc[t] \in Window
    BY <1>4, <2>2 DEF WindowFree
  <2>. QED  BY <2>1, <2>2, <2>3 DEF IInv, OneWindow
<1>5. \A r \in Runs : Busy(r)' => Busy(r)
  BY <1>4, BusyStep
<1>6. \A r \in Runs : r = target'[s] => ~(Busy(r)')
  BY <1>2, <1>5
<1>. QED  BY <1>1, <1>6 DEF Busy, Occupies, Writing

LEMMA NextIInv == ASSUME IInv, [DisciplinedNext]_vars PROVE IInv'
<1>1. Typed'
  BY NextTyped, DisciplinedIsNext DEF IInv
<1>2. HonestNames'
  BY DEF IInv, HonestNames
<1>. QED
  BY <1>1, <1>2, NextOneWindow, NextMemoryCurrent, NextOneEngaged, NextHolderOnRecord,
     NextHeldIsFresh, NextTrainerAccounted, NextDyingIsAlone, NextAskedIsFree, NextOneTrainer
  DEF IInv

THEOREM DisciplineHolds == DisciplinedSpec => []IInv
<1>1. IInv /\ [DisciplinedNext]_vars => IInv'
  BY NextIInv
<1>. QED  BY InitIInv, <1>1, PTL DEF DisciplinedSpec

\* No two processes ever write one checkpoint directory.
THEOREM Exclusion == DisciplinedSpec => []OneTrainerPerDirectory
<1>1. IInv => OneTrainerPerDirectory
  BY DEF IInv
<1>. QED  BY <1>1, DisciplineHolds, PTL

\* No two sessions are ever inside launch for one run.
THEOREM OneLaunch == DisciplinedSpec => []OneHolder
<1>1. IInv => OneHolder
  BY DEF IInv, OneEngaged, OneHolder, Engaged
<1>. QED  BY <1>1, DisciplineHolds, PTL

\* A trainer whose session died is on record, and reclaim_stale sees it.
THEOREM OrphansAreFound == DisciplinedSpec => []OrphanOnRecord
<1>1. IInv => OrphanOnRecord
  <2>. SUFFICES ASSUME IInv, NEW p \in Pids, trainer[p].st = "live", ~Attached(p)
                PROVE  Orphan(p)
    BY DEF OrphanOnRecord, Orphan
  <2>1. ~\E s \in Sessions : Follows(s, p)
    BY CampaignAssumption
    DEF Attached, Follows, IInv, Typed, Targeted, Engaged, Holding, Parent
  <2>. QED  BY <2>1 DEF IInv, TrainerAccounted
<1>. QED  BY <1>1, DisciplineHolds, PTL

-----------------------------------------------------------------------------
(* What a saved record can be relied on for, under the discipline: an      *)
(* outcome stays, and a directory that was trained in is known as one.     *)

\* A launch about to be saved is not about a run that has its outcome.
Unsettled ==
    \A s \in Sessions :
        /\ pc[s] = "claiming" /\ cmd[s] = "drive" => disk[target[s]].status \in RESUMABLE
        /\ pc[s] \in {"finishing", "interrupting"} => disk[target[s]].status = "running"

\* A directory with something in it has an attempt on record, and a launch that
\* is to start fresh has an empty one.
AttemptsKnown ==
    /\ \A r \in touched : disk[r].attempted
    /\ \A s \in Sessions :
          /\ pc[s] \in Engaged => mem[s][target[s]].attempted
          /\ pc[s] \in {"claiming", "spawning"} /\ ~resume[s] => target[s] \notin touched

RInv == IInv /\ Unsettled /\ AttemptsKnown

\* Who writes the file.
LEMMA Writers ==
  ASSUME [DisciplinedNext]_vars, disk' # disk
  PROVE  \/ \E s \in Sessions : Reclaim(s) \/ Reset(s) \/ Write(s)
         \/ \E s \in Sessions, r \in Runs : WindowFree /\ mem[s] = disk /\ Retry(s, r)
  BY DEF DisciplinedNext, Proceed, World, vars, sessionVars, Start, Again, NothingPicked,
         Refuse, Takes, Launches, Claim, Take, Launch, Spawn, Record, Beat, Finish,
         Interrupt, LaunchError, Quit, Crash,
         NodeLoss, TrainerExits, HeartbeatAges, StageData

LEMMA ReclaimWrites ==
  ASSUME IInv, NEW s \in Sessions, Reclaim(s), NEW r \in Runs
  PROVE  /\ disk'[r].attempted = disk[r].attempted
         /\ disk'[r].status = disk[r].status \/ disk[r].status = "running"
<1>1. mem[s] = disk /\ disk[r] \in RunState
  BY DEF Reclaim, IInv, MemoryCurrent, Typed, TypeOK
<1>2. CASE StaleRuns(s) = {}
  BY <1>2 DEF Reclaim
<1>3. CASE StaleRuns(s) # {}
  <2>1. disk'[r] = IF r \in StaleRuns(s) THEN Interrupted(disk[r]) ELSE disk[r]
    BY <1>1, <1>3 DEF Reclaim, Reclaimed
  <2>. QED  BY <1>1, <2>1 DEF StaleRuns, IsStale, Interrupted, RunState
<1>. QED  BY <1>2, <1>3

LEMMA ResetWrites ==
  ASSUME IInv, NEW s \in Sessions, Reset(s), NEW r \in Runs
  PROVE  /\ r # target[s] => disk'[r] = disk[r]
         /\ r \in touched' => r \in touched /\ disk'[r].attempted = disk[r].attempted
<1>1. mem[s] = disk /\ disk \in [Runs -> RunState] /\ target[s] \in Runs
  BY DEF Reset, IInv, MemoryCurrent, Typed, TypeOK, Targeted
<1>. QED  BY <1>1 DEF Reset, Renewed, RunState

LEMMA WriteWrites ==
  ASSUME IInv, NEW s \in Sessions, Write(s), NEW r \in Runs
  PROVE  /\ pc[s] \in Window /\ pc[s] \in Engaged /\ target[s] \in Runs
         /\ disk'[r] = IF r = target[s] THEN mem[s][r] ELSE disk[r]
<1>1. pc[s] \in {"claiming", "recording", "finishing", "interrupting"}
  BY DEF Write, AfterWrite
<1>2. target[s] \in Runs
  BY <1>1 DEF IInv, Typed, Targeted, Engaged, Holding
<1>. QED  BY <1>1, <1>2 DEF Write, IInv, MemoryCurrent, Engaged, Holding, Window

LEMMA RetryWrites ==
  ASSUME IInv, NEW s \in Sessions, NEW q \in Runs, Retry(s, q), mem[s] = disk, NEW r \in Runs
  PROVE  /\ disk'[r].attempted = disk[r].attempted
         /\ disk' = mem'[s] /\ pc[s] = "idle"
<1>1. mem \in [Sessions -> [Runs -> RunState]]
  BY DEF IInv, Typed, TypeOK
<1>2. mem' = [mem EXCEPT ![s] = [mem[s] EXCEPT ![q] = Requeued(mem[s][q])]]
  BY <1>1 DEF Retry
<1>3. disk' = [disk EXCEPT ![q] = Requeued(disk[q])] /\ disk \in [Runs -> RunState]
  BY <1>1, <1>2 DEF Retry
<1>. QED  BY <1>3 DEF Retry, Requeued, RunState

\* An attempt stays on record while its directory has something in it.
LEMMA AttemptStays ==
  ASSUME RInv, [DisciplinedNext]_vars, NEW r \in touched \cap touched'
  PROVE  disk'[r].attempted
<1>1. disk[r].attempted /\ r \in Runs
  BY DEF RInv, AttemptsKnown, IInv, Typed, TypeOK
<1>2. CASE disk' = disk
  BY <1>1, <1>2
<1>3. ASSUME NEW s \in Sessions, Reclaim(s)
      PROVE  disk'[r].attempted
  BY <1>1, <1>3, ReclaimWrites DEF RInv
<1>4. ASSUME NEW s \in Sessions, Reset(s)
      PROVE  disk'[r].attempted
  BY <1>1, <1>4, ResetWrites DEF RInv
<1>5. ASSUME NEW s \in Sessions, Write(s)
      PROVE  disk'[r].attempted
  BY <1>1, <1>5, WriteWrites DEF RInv, AttemptsKnown
<1>6. ASSUME NEW s \in Sessions, NEW q \in Runs, Retry(s, q), mem[s] = disk
      PROVE  disk'[r].attempted
  BY <1>1, <1>6, RetryWrites DEF RInv
<1>. QED  BY <1>2, <1>3, <1>4, <1>5, <1>6, Writers

\* Directories get something in them by Spawn only.
LEMMA TouchedBy ==
  ASSUME [DisciplinedNext]_vars, NEW r \in touched', r \notin touched
  PROVE  \E s \in Sessions : Spawn(s) /\ r = target[s]
  BY DEF DisciplinedNext, Proceed, World, vars, sessionVars, historyVars, Start, Again,
         NothingPicked, Refuse, Takes, Launches, Claim, Take, Launch, Spawn, Record, Beat,
         Finish, Interrupt, LaunchError,
         Quit, Crash, NodeLoss, TrainerExits, HeartbeatAges, StageData, Reclaim, Reset, Write,
         Retry

LEMMA NextTouchedKnown ==
  ASSUME RInv, [DisciplinedNext]_vars PROVE \A r \in touched' : disk'[r].attempted
<1>. SUFFICES ASSUME NEW r \in touched', r \notin touched
              PROVE  disk'[r].attempted
  BY AttemptStays
<1>1. PICK s \in Sessions : Spawn(s) /\ r = target[s]
  BY TouchedBy
<1>2. pc[s] = "spawning" /\ disk' = disk
  BY <1>1 DEF Spawn
<1>3. disk[r] = mem[s][r] /\ mem[s][r].attempted
  BY <1>1, <1>2 DEF RInv, IInv, HolderOnRecord, AttemptsKnown, Engaged, Holding
<1>. QED  BY <1>2, <1>3

\* How a session comes to be claiming a run, or ending one.
LEMMA LaunchGoes ==
  ASSUME IInv, [DisciplinedNext]_vars, NEW s \in Sessions,
         pc'[s] \in {"claiming", "spawning", "finishing", "interrupting"}
  PROVE  \/ \E r \in Runs : Takes(s, r)
         \/ Write(s) /\ pc[s] = "claiming"
         \/ Finish(s) \/ Interrupt(s)
         \/ /\ pc'[s] = pc[s] /\ cmd'[s] = cmd[s] /\ target'[s] = target[s]
            /\ resume'[s] = resume[s]
<1> DEFINE Same == /\ pc'[s] = pc[s] /\ cmd'[s] = cmd[s] /\ target'[s] = target[s]
                   /\ resume'[s] = resume[s]
           Mine == \/ \E r \in Runs : Takes(s, r)
                   \/ Write(s) /\ pc[s] = "claiming"
                   \/ Finish(s) \/ Interrupt(s)
<1>. TypeOK
  BY DEF IInv, Typed
<1>1. ASSUME NEW t \in Sessions, NEW c \in Commands, NEW r \in Runs \cup {None}, Start(t, c, r)
      PROVE  Same
  BY <1>1 DEF Start, Goto, TypeOK
<1>2. ASSUME NEW t \in Sessions, Again(t) \/ NothingPicked(t) \/ Beat(t)
      PROVE  Same
  BY <1>2 DEF Again, NothingPicked, Beat, sessionVars, Goto, TypeOK
<1>3. ASSUME NEW t \in Sessions, Reclaim(t) \/ Reset(t) \/ Refuse(t) \/ Quit(t)
      PROVE  Same
  BY <1>3 DEF Reclaim, Reset, Refuse, Quit, Leave, Goto, TypeOK
<1>4. ASSUME NEW t \in Sessions, t # s, NEW r \in Runs, Takes(t, r)
      PROVE  Same
  BY <1>4 DEF Takes, Launches, Claim, Take, Launch, Goto, TypeOK
<1>5. ASSUME NEW t \in Sessions, Write(t)
      PROVE  Same \/ Mine
  <2>1. CASE t = s
    BY <1>5, <2>1 DEF Write, AfterWrite, Goto, TypeOK
  <2>2. CASE t # s
    BY <1>5, <2>2 DEF Write, Goto, TypeOK
  <2>. QED  BY <2>1, <2>2
<1>6. ASSUME NEW t \in Sessions, Spawn(t) \/ Record(t)
      PROVE  Same
  BY <1>6 DEF Spawn, Record, Goto, TypeOK
<1>7. ASSUME NEW t \in Sessions, t # s, Finish(t) \/ Interrupt(t)
      PROVE  Same
  BY <1>7 DEF Finish, Interrupt, Goto, TypeOK
<1>8. ASSUME NEW t \in Sessions, NEW r \in Runs, Retry(t, r)
      PROVE  Same
  BY <1>8 DEF Retry
<1>9. ASSUME NEW t \in Sessions, LaunchError(t) \/ Crash(t)
      PROVE  Same
  BY <1>9 DEF LaunchError, Crash, Leave, Goto, TypeOK
<1>10. ASSUME NEW n \in Nodes, NodeLoss(n)
       PROVE  Same
  BY <1>10 DEF NodeLoss, TypeOK
<1>11. CASE \/ UNCHANGED vars
            \/ \E r \in Runs : HeartbeatAges(r) \/ StageData(r)
            \/ \E p \in Pids : TrainerExits(p)
  BY <1>11 DEF vars, sessionVars, HeartbeatAges, StageData, TrainerExits
<1>. QED
  BY <1>1, <1>2, <1>3, <1>4, <1>5, <1>6, <1>7, <1>8, <1>9, <1>10, <1>11
  DEF DisciplinedNext, Proceed, World, Takes, Launches

\* Nobody else writes the file while a session is between a load and its save.
LEMMA WindowHolds ==
  ASSUME IInv, [DisciplinedNext]_vars, NEW s \in Sessions, pc[s] \in Window, pc'[s] = pc[s],
         pc[s] \notin {"reclaim", "reset", "pick"}
  PROVE  disk' = disk
<1>1. ASSUME NEW t \in Sessions, Reclaim(t) \/ Reset(t) \/ Write(t)
      PROVE  FALSE
  <2>1. pc[t] \in Window
    BY <1>1 DEF Reclaim, Reset, Write, AfterWrite, Window
  <2>2. t = s
    BY <2>1 DEF IInv, OneWindow
  <2>3. Write(s)
    BY <1>1, <2>2 DEF Reclaim, Reset
  <2>. QED  BY <2>3 DEF Write, AfterWrite, Goto, IInv, Typed, TypeOK
<1>2. ~WindowFree
  BY DEF WindowFree
<1>. QED  BY <1>1, <1>2, Writers

LEMMA NextUnsettled == ASSUME RInv, [DisciplinedNext]_vars PROVE Unsettled'
<1>. SUFFICES ASSUME NEW s \in Sessions
              PROVE  /\ pc'[s] = "claiming" /\ cmd'[s] = "drive" =>
                           disk'[target'[s]].status \in RESUMABLE
                     /\ pc'[s] \in {"finishing", "interrupting"} =>
                           disk'[target'[s]].status = "running"
  BY DEF Unsettled
<1>. TypeOK
  BY DEF RInv, IInv, Typed
<1>1. ASSUME NEW r \in Runs, Takes(s, r), cmd'[s] = "drive"
      PROVE  pc'[s] = "claiming" /\ disk'[target'[s]].status \in RESUMABLE
  <2>1. pc[s] = "pick" /\ r \in Ready(s) /\ target'[s] = r /\ disk' = disk
    BY <1>1 DEF Takes, Launches, Claim, Take, Launch, Chosen, TypeOK
  <2>2. mem[s] = disk
    BY <2>1 DEF RInv, IInv, MemoryCurrent
  <2>. QED  BY <1>1, <2>1, <2>2 DEF Ready, Takes, Launches, Claim, Take, Launch, Goto, TypeOK
<1>2. ASSUME Finish(s) \/ Interrupt(s)
      PROVE  disk'[target'[s]].status = "running" /\ pc'[s] \in {"finishing", "interrupting"}
  <2>1. pc[s] \in Holding \ {"claiming"} /\ disk' = disk /\ target' = target
    BY <1>2 DEF Finish, Interrupt, Parent, Holding
  <2>2. pc'[s] \in {"finishing", "interrupting"}
    BY <1>2 DEF Finish, Interrupt, Goto, TypeOK
  <2>. QED  BY <2>1, <2>2 DEF RInv, IInv, HolderOnRecord
<1>3. CASE /\ pc'[s] = pc[s] /\ cmd'[s] = cmd[s] /\ target'[s] = target[s]
           /\ pc[s] \in {"claiming", "finishing", "interrupting"}
  <2>1. disk' = disk
    BY <1>3, WindowHolds DEF RInv, Window
  <2>. QED  BY <1>3, <2>1 DEF RInv, Unsettled
<1>4. ASSUME Write(s), pc[s] = "claiming"
      PROVE  pc'[s] = "spawning"
  BY <1>4 DEF Write, AfterWrite, Goto, TypeOK
<1>5. ASSUME NEW r \in Runs, Takes(s, r)
      PROVE  pc'[s] = "claiming"
  BY <1>5 DEF Takes, Launches, Claim, Take, Launch, Goto, TypeOK
<1>. QED  BY <1>1, <1>2, <1>3, <1>4, <1>5, LaunchGoes DEF RInv

\* A launch has its attempt in memory from the claim on.
LEMMA NextAttemptInMemory ==
  ASSUME RInv, [DisciplinedNext]_vars, NEW s \in Sessions, pc'[s] \in Engaged
  PROVE  mem'[s][target'[s]].attempted
<1> DEFINE Step == mem'[s][target'[s]].attempted
           Same == pc'[s] = pc[s] /\ target'[s] = target[s] /\ mem'[s] = mem[s]
<1>. TypeOK
  BY DEF RInv, IInv, Typed
<1>1. pc[s] \in Engaged => mem[s][target[s]].attempted /\ target[s] \in Runs
  BY DEF RInv, AttemptsKnown, IInv, Typed, Targeted
<1>2. Same => Step
  BY <1>1
<1>3. ASSUME NEW t \in Sessions, NEW c \in Commands, NEW r \in Runs \cup {None}, Start(t, c, r)
      PROVE  Same
  BY <1>3 DEF Start, Goto, Engaged, Holding, TypeOK
<1>4. ASSUME NEW t \in Sessions, Again(t) \/ NothingPicked(t) \/ Beat(t)
      PROVE  Same
  BY <1>4 DEF Again, NothingPicked, Beat, sessionVars, Goto, Engaged, Holding, TypeOK
<1>5. ASSUME NEW t \in Sessions, Reclaim(t) \/ Reset(t) \/ Refuse(t) \/ Quit(t)
      PROVE  Same
  BY <1>5 DEF Reclaim, Reset, Refuse, Quit, Leave, Goto, Engaged, Holding, TypeOK
<1>6. ASSUME NEW t \in Sessions, NEW r \in Runs, Takes(t, r)
      PROVE  Same \/ Step
  <2>1. CASE t = s
    <3>1. target'[s] = r /\ mem'[s] = [disk EXCEPT ![r] = Running(s, mem[s][r])]
      BY <1>6, <2>1 DEF Takes, Launches, Claim, Take, Launch, Merged, TypeOK
    <3>2. mem[s][r] \in RunState
      BY DEF TypeOK
    <3>. QED  BY <3>1, <3>2 DEF Running, RunState, TypeOK
  <2>2. CASE t # s
    BY <1>6, <2>2 DEF Takes, Launches, Claim, Take, Launch, Goto, TypeOK
  <2>. QED  BY <2>1, <2>2
<1>7. ASSUME NEW t \in Sessions, Write(t)
      PROVE  Step
  <2>1. CASE t = s
    <3>1. pc[s] \in Engaged /\ pc[s] # "interrupting" /\ target' = target
      BY <1>7, <2>1 DEF Write, AfterWrite, Goto, Engaged, Holding, TypeOK
    <3>. QED  BY <1>1, <1>7, <2>1, <3>1 DEF Write
  <2>2. CASE t # s
    BY <1>1, <1>7, <2>2, WriteMemory DEF Write, Goto, RInv, IInv, Typed, TypeOK
  <2>. QED  BY <2>1, <2>2
<1>8. ASSUME NEW t \in Sessions, Spawn(t)
      PROVE  Step
  <2>1. PICK p \in Pids : mem' = [mem EXCEPT ![t][target[t]] = Traced(@, p)]
    BY <1>8 DEF Spawn
  <2>2. target' = target /\ (t # s => pc'[s] = pc[s]) /\ pc[t] \in Engaged
    BY <1>8 DEF Spawn, Goto, Engaged, Holding, TypeOK
  <2>3. CASE t = s
    <3>1. mem[s][target[s]] \in RunState /\ mem[s][target[s]].attempted /\ target[s] \in Runs
      BY <1>1, <2>2, <2>3 DEF TypeOK
    <3>2. mem'[s] = [mem[s] EXCEPT ![target[s]] = Traced(mem[s][target[s]], p)]
      BY <2>1, <2>3 DEF TypeOK
    <3>3. mem'[s][target[s]] = Traced(mem[s][target[s]], p)
      BY <3>1, <3>2 DEF TypeOK
    <3>. QED  BY <2>2, <3>1, <3>3 DEF Traced, RunState
  <2>4. CASE t # s
    <3>1. mem'[s] = mem[s]
      BY <2>1, <2>4 DEF TypeOK
    <3>. QED  BY <1>1, <2>2, <2>4, <3>1
  <2>. QED  BY <2>3, <2>4
<1>9. ASSUME NEW t \in Sessions, Record(t) \/ Finish(t) \/ Interrupt(t)
      PROVE  Same \/ Step
  <2>1. CASE t = s
    <3>1. pc[s] \in Engaged /\ target' = target
      BY <1>9, <2>1 DEF Record, Finish, Interrupt, Parent, Engaged, Holding
    <3>2. mem[s][target[s]] \in RunState /\ mem[s][target[s]].attempted /\ target[s] \in Runs
      BY <1>1, <3>1 DEF TypeOK
    <3>3. CASE Record(s)
      BY <3>1, <3>2, <3>3 DEF Record, Merged, TypeOK
    <3>4. CASE Finish(s)
      <4>1. PICK st \in {"ok", "bad"} :
              mem'[s] = [disk EXCEPT ![target[s]] = Ended(mem[s][target[s]], st)]
        BY <3>4 DEF Finish, Merged, TypeOK
      <4>. QED  BY <3>1, <3>2, <4>1 DEF Ended, RunState, TypeOK
    <3>5. CASE Interrupt(s)
      <4>1. mem'[s] = [disk EXCEPT ![target[s]] = Interrupted(mem[s][target[s]])]
        BY <3>5 DEF Interrupt, Merged, TypeOK
      <4>. QED  BY <3>1, <3>2, <4>1 DEF Interrupted, RunState, TypeOK
    <3>. QED  BY <1>9, <2>1, <3>3, <3>4, <3>5
  <2>2. CASE t # s
    BY <1>9, <2>2 DEF Record, Finish, Interrupt, Goto, TypeOK
  <2>. QED  BY <2>1, <2>2
<1>10. ASSUME NEW t \in Sessions, NEW r \in Runs, Retry(t, r)
       PROVE  Same
  BY <1>10 DEF Retry, Engaged, Holding, TypeOK
<1>11. ASSUME NEW t \in Sessions, LaunchError(t) \/ Crash(t)
       PROVE  Same
  BY <1>11 DEF LaunchError, Crash, Leave, Goto, Engaged, Holding, TypeOK
<1>12. ASSUME NEW n \in Nodes, NodeLoss(n)
       PROVE  Same
  BY <1>12 DEF NodeLoss, Engaged, Holding, TypeOK
<1>13. ASSUME \/ UNCHANGED vars
              \/ \E r \in Runs : HeartbeatAges(r) \/ StageData(r)
              \/ \E p \in Pids : TrainerExits(p)
       PROVE  Step
  BY <1>2, <1>13 DEF vars, sessionVars, HeartbeatAges, StageData, TrainerExits
<1>. HIDE DEF Same, Step
<1>14. Step
  BY <1>2, <1>3, <1>4, <1>5, <1>6, <1>7, <1>8, <1>9, <1>10, <1>11, <1>12, <1>13
  DEF DisciplinedNext, Proceed, World, Takes, Launches
<1>. QED  BY <1>14 DEF Step

LEMMA NextFreshIsEmpty ==
  ASSUME RInv, [DisciplinedNext]_vars, NEW s \in Sessions, pc'[s] \in {"claiming", "spawning"},
         ~resume'[s]
  PROVE  target'[s] \notin touched'
<1>. TypeOK
  BY DEF RInv, IInv, Typed
<1>1. ASSUME NEW r \in Runs, Takes(s, r)
      PROVE  target'[s] \notin touched'
  <2>1. target'[s] = r /\ resume'[s] = mem[s][r].attempted /\ touched' = touched
    BY <1>1 DEF Takes, Launches, Claim, Take, Launch, historyVars, TypeOK
  <2>2. mem[s] = disk
    BY <1>1 DEF Takes, Launches, Claim, RInv, IInv, MemoryCurrent
  <2>. QED  BY <2>1, <2>2 DEF RInv, AttemptsKnown
<1>2. ASSUME Write(s), pc[s] = "claiming"
      PROVE  target'[s] \notin touched'
  BY <1>2 DEF Write, historyVars, RInv, AttemptsKnown
<1>3. ~(Finish(s) \/ Interrupt(s))
  BY DEF Finish, Interrupt, Goto, TypeOK
<1>4. CASE pc'[s] = pc[s] /\ target'[s] = target[s] /\ resume'[s] = resume[s]
  <2>1. target[s] \notin touched
    BY <1>4 DEF RInv, AttemptsKnown
  <2>2. \A t \in Sessions : Spawn(t) => t = s
    BY <1>4 DEF Spawn, Window, RInv, IInv, OneWindow
  <2>3. ~Spawn(s)
    BY <1>4 DEF Spawn, Goto, TypeOK
  <2>. QED  BY <1>4, <2>1, <2>2, <2>3, TouchedBy
<1>. QED  BY <1>1, <1>2, <1>3, <1>4, LaunchGoes DEF RInv

LEMMA RInvAlways == DisciplinedSpec => []RInv
<1>1. Init /\ HonestNames => RInv
  <2>. SUFFICES ASSUME Init, HonestNames PROVE RInv
    OBVIOUS
  <2>1. \A s \in Sessions : pc[s] = "off"
    BY DEF Init
  <2>2. touched = {}
    BY DEF Init
  <2>. QED  BY <2>1, <2>2, InitIInv DEF RInv, Unsettled, AttemptsKnown, Engaged, Holding
<1>2. RInv /\ [DisciplinedNext]_vars => RInv'
  <2>. SUFFICES ASSUME RInv, [DisciplinedNext]_vars PROVE RInv'
    OBVIOUS
  <2>1. AttemptsKnown'
    BY NextTouchedKnown, NextAttemptInMemory, NextFreshIsEmpty DEF AttemptsKnown
  <2>. QED  BY <2>1, NextIInv, NextUnsettled DEF RInv
<1>. QED  BY <1>1, <1>2, PTL DEF DisciplinedSpec

\* Trainers are started by Spawn only.
LEMMA StartedBy ==
  ASSUME IInv, [DisciplinedNext]_vars, NEW p \in Pids,
         trainer[p].st = "free", trainer'[p].st = "live"
  PROVE  \E s \in Sessions : Spawn(s)
<1>. TypeOK
  BY DEF IInv, Typed
<1>1. CASE trainer' = trainer
  BY <1>1
<1>2. ASSUME NEW t \in Sessions, Finish(t) \/ Interrupt(t)
      PROVE  FALSE
  <2>1. CASE Finish(t)
    BY <2>1 DEF Finish, NoTrainer, TypeOK
  <2>2. CASE Interrupt(t)
    <3>1. CASE p = Child(t)
      BY <2>2, <3>1 DEF Interrupt, NoTrainer, TypeOK
    <3>2. CASE p # Child(t)
      BY <2>2, <3>2 DEF Interrupt, TypeOK
    <3>. QED  BY <3>1, <3>2
  <2>. QED  BY <1>2, <2>1, <2>2
<1>3. ASSUME NEW t \in Sessions, LaunchError(t) \/ Crash(t)
      PROVE  FALSE
  BY <1>3 DEF LaunchError, Crash, Reaped, NoTrainer
<1>4. ASSUME NEW n \in Nodes, NodeLoss(n)
      PROVE  FALSE
  BY <1>4 DEF NodeLoss, NoTrainer
<1>5. ASSUME NEW q \in Pids, TrainerExits(q)
      PROVE  FALSE
  BY <1>5 DEF TrainerExits, Writing, NoTrainer, TypeOK
<1>. QED
  BY <1>1, <1>2, <1>3, <1>4, <1>5
  DEF DisciplinedNext, Proceed, World, vars, Start, Again, NothingPicked, Refuse, Takes,
      Launches, Claim, Take, Launch, Record,
      Beat, Quit, HeartbeatAges, StageData, Reclaim, Reset, Write, Retry

\* Nothing but an operator asking for the run again changes a saved outcome.
THEOREM OutcomesStay == DisciplinedSpec => OutcomeSurvives
<1>1. RInv /\ [DisciplinedNext]_vars =>
        [\A r \in Runs :
            disk[r].status \in Outcomes /\ disk'[r].status # disk[r].status
                => \E s \in Sessions : Asked(s, r)]_vars
  <2>. SUFFICES ASSUME RInv, [DisciplinedNext]_vars, NEW r \in Runs,
                       disk[r].status \in Outcomes, disk'[r].status # disk[r].status
                PROVE  \E s \in Sessions : Asked(s, r)
    OBVIOUS
  <2>. IInv /\ TypeOK
    BY DEF RInv, IInv, Typed
  <2>1. ASSUME NEW s \in Sessions, Reclaim(s)
        PROVE  FALSE
    BY <2>1, ReclaimWrites DEF Outcomes
  <2>2. ASSUME NEW s \in Sessions, Reset(s)
        PROVE  Asked(s, r)
    <3>1. r = target[s]
      BY <2>2, ResetWrites
    <3>. QED  BY <2>2, <3>1 DEF Reset, Asked
  <2>3. ASSUME NEW s \in Sessions, Write(s)
        PROVE  Asked(s, r)
    <3>1. r = target[s]
      BY <2>3, WriteWrites
    <3>2. pc[s] \in {"claiming", "recording", "finishing", "interrupting"}
      BY <2>3 DEF Write, AfterWrite
    <3>3. pc[s] \notin {"recording", "finishing", "interrupting"}
      BY <3>1 DEF RInv, IInv, HolderOnRecord, Holding, Unsettled, Outcomes
    <3>4. cmd[s] # "drive"
      BY <3>1, <3>2, <3>3 DEF RInv, Unsettled, Outcomes, RESUMABLE
    <3>. QED  BY <3>1, <3>2, <3>3, <3>4 DEF Asked
  <2>4. ASSUME NEW s \in Sessions, NEW q \in Runs, mem[s] = disk, Retry(s, q)
        PROVE  Asked(s, r)
    BY <2>4, RetryWrites DEF Asked
  <2>. QED  BY <2>1, <2>2, <2>3, <2>4, Writers
<1>. QED  BY <1>1, RInvAlways, PTL DEF DisciplinedSpec, OutcomeSurvives

\* A trainer starts from scratch in an empty directory only.
THEOREM FreshMeansEmpty == DisciplinedSpec => FreshStartOnlyInFreshDirectory
<1>1. RInv /\ [DisciplinedNext]_vars =>
        [\A p \in Pids :
            trainer[p].st = "free" /\ trainer'[p].st = "live" /\ ~trainer'[p].resume
                => trainer'[p].run \notin touched]_vars
  <2>. SUFFICES ASSUME RInv, [DisciplinedNext]_vars, NEW p \in Pids,
                       trainer[p].st = "free", trainer'[p].st = "live", ~trainer'[p].resume
                PROVE  trainer'[p].run \notin touched
    OBVIOUS
  <2>. TypeOK
    BY DEF RInv, IInv, Typed
  <2>1. PICK s \in Sessions : Spawn(s)
    BY StartedBy DEF RInv
  <2>2. trainer'[p].run = target[s] /\ trainer'[p].resume = resume[s] /\ pc[s] = "spawning"
    BY <2>1 DEF Spawn, TypeOK
  <2>. QED  BY <2>2 DEF RInv, AttemptsKnown
<1>. QED  BY <1>1, RInvAlways, PTL DEF DisciplinedSpec, FreshStartOnlyInFreshDirectory
=============================================================================
