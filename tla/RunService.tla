----------------------------- MODULE RunService -----------------------------
(***************************************************************************)
(* The HTTP service: the event loop, one worker thread and one event queue  *)
(* per streamed run, the SQLite run store, and the retention of upload and  *)
(* artifact directories.                                                    *)
(*                                                                          *)
(* `create_run' and `stream_run' are coroutines that never await, so a      *)
(* handler keeps the event loop from its first to its last statement; while *)
(* it does, no response and no event leaves the server.  Workers and the    *)
(* report endpoint run on threads of their own.                             *)
(***************************************************************************)
EXTENDS Naturals, Sequences, FiniteSets

CONSTANTS
    Runs,       \* requests, each with the run id it is given
    Reports,    \* requests for a PDF of some finished run
    Keep,       \* MAX_RETAINED_RUNS
    MaxFaults,  \* bound: errors of the store and deaths of the server
    None

ASSUME ServiceAssumption ==
    /\ Keep \in Nat
    /\ MaxFaults \in Nat
    /\ None \notin Runs
    /\ Runs \cap Reports = {}

VARIABLES
    up,       \* the server process lives
    loop,     \* the run whose handler holds the event loop, or None
    kind,     \* which endpoint a run came in by
    pc,       \* where its handler or its worker stands
    row,      \* the store as its shared connection sees it
    durable,  \* the store as a new connection would: what is committed
    events,   \* the queue from worker to response
    told,     \* what the client has been told
    open,     \* the client still reads a stream
    dirs,     \* run and report directories, each with those last written after it
    arts,     \* artifact directories, likewise
    doomed,   \* what a prune has listed and not yet deleted
    since,    \* history: what was written since each directory was made
    faults

vars == <<up, loop, kind, pc, row, durable, events, told, open, dirs, arts,
          doomed, since, faults>>
store    == <<row, durable>>
files    == <<dirs, arts, doomed, since>>
client   == <<told, open>>

-----------------------------------------------------------------------------

Kind == {"none", "sync", "stream"}

Absent == [status |-> "none", trace |-> FALSE]

Row == [status : {"none", "running", "complete", "failed"}, trace : BOOLEAN]

Without(s, gone) == [d \in DOMAIN s \ gone |-> s[d] \ gone]

Touched(s, d) == [e \in DOMAIN s \cup {d} |-> IF e = d THEN {} ELSE s[e] \cup {d}]

(* The history after a write to `d', of those that are still there.         *)
Wrote(s, old, d) ==
    [e \in DOMAIN old |->
        IF e \in DOMAIN s THEN old[e] \cup ({d} \ {e}) ELSE {}]

(* Mutant: sorted oldest first.                                             *)
StaleOfMutant(s) == {d \in DOMAIN s : Cardinality({e \in DOMAIN s : d \in s[e]}) >= Keep}

(* `dirs[keep:]' of the list sorted newest first.                           *)
StaleOf(s) == {d \in DOMAIN s : Cardinality(s[d]) >= Keep}

(* What a dead server leaves unfinished.                                    *)
Active(r) == pc[r] \notin {"idle", "end"}

Init ==
    /\ up = TRUE
    /\ loop = None
    /\ kind = [r \in Runs |-> "none"]
    /\ pc = [r \in Runs |-> "idle"]
    /\ row = [r \in Runs |-> Absent]
    /\ durable = [r \in Runs |-> Absent]
    /\ events = [r \in Runs |-> <<>>]
    /\ told = [r \in Runs |-> "nothing"]
    /\ open = [r \in Runs |-> FALSE]
    /\ dirs = [d \in {} |-> {}]
    /\ arts = [d \in {} |-> {}]
    /\ doomed = [r \in Runs |-> {}]
    /\ since = [dirs |-> [d \in Runs \cup Reports |-> {}],
                arts |-> [d \in Runs |-> {}]]
    /\ faults = 0

Go(r, l) == pc' = [pc EXCEPT ![r] = l]

CanFault == faults < MaxFaults

-----------------------------------------------------------------------------
(* The store.  Every operation is an `execute' and a `commit' on one shared *)
(* connection under one lock.  When the execute raises nothing happened;    *)
(* when the commit raises, the change stays pending on the connection and   *)
(* goes to disk with the next commit of whichever run.                      *)

Updated(r, new) == [row EXCEPT ![r] = new]

Stored(r, new) ==
    /\ row' = Updated(r, new)
    /\ durable' = row'
    /\ UNCHANGED faults

StoreRaises(r, new) ==
    /\ CanFault
    /\ faults' = faults + 1
    /\ row' \in {row, Updated(r, new)}
    /\ UNCHANGED durable

Created == [status |-> "running", trace |-> FALSE]

Completed == [status |-> "complete", trace |-> TRUE]

(* Mutant: `... WHERE run_id=? AND status='running''.                        *)
FailedMutant(r) ==
    IF row[r].status # "running" THEN row[r] ELSE [row[r] EXCEPT !.status = "failed"]

(* The UPDATE touches no row that was never inserted, and leaves the trace. *)
Failed(r) ==
    IF row[r].status = "none" THEN row[r] ELSE [row[r] EXCEPT !.status = "failed"]

-----------------------------------------------------------------------------
(* The handlers.                                                            *)

(* A request that passed `_validate_upload_shape' and `_parse_aoi'.  The     *)
(* others are answered 400 and leave nothing.                               *)
Accept(r, k) ==
    /\ up /\ loop = None
    /\ pc[r] = "idle"
    /\ kind' = [kind EXCEPT ![r] = k]
    /\ loop' = r
    /\ dirs' = Touched(dirs, r)
    /\ since' = [since EXCEPT !.dirs = Wrote(dirs, @, r)]
    /\ Go(r, IF k = "sync" THEN "create" ELSE "save")
    /\ UNCHANGED <<up, store, events, client, arts, doomed, faults>>

(* The handler answers with an error status and gives the loop back.        *)
Answer500(r) ==
    /\ told' = [told EXCEPT ![r] = "refused"]
    /\ loop' = None
    /\ Go(r, "end")

(* `store.create': before the uploads for one endpoint, after them for the   *)
(* other, outside every try block in both.  A stream's worker starts here.  *)
Create(r) ==
    /\ pc[r] = "create"
    /\ \/ /\ Stored(r, Created)
          /\ IF kind[r] = "sync"
             THEN Go(r, "save") /\ UNCHANGED <<loop, open>>
             ELSE /\ Go(r, "execute")
                  /\ loop' = None
                  /\ open' = [open EXCEPT ![r] = TRUE]
          /\ UNCHANGED told
       \/ /\ StoreRaises(r, Created)
          /\ Answer500(r)
          /\ UNCHANGED open
    /\ UNCHANGED <<up, kind, events, files>>

(* `_save_uploads' and `_apply_aoi': the files are written, the directory is *)
(* the most recent again; or a limit is exceeded and the directory removed; *)
(* or the area does not fit and it stays; or it was pruned under the writer. *)
Save(r) ==
    /\ pc[r] = "save"
    /\ \/ /\ r \in DOMAIN dirs
          /\ dirs' = Touched(dirs, r)
          /\ since' = [since EXCEPT !.dirs = Wrote(dirs, @, r)]
          /\ Go(r, IF kind[r] = "sync" THEN "execute" ELSE "create")
          /\ UNCHANGED <<told, loop>>
       \/ /\ dirs' \in {dirs, Without(dirs, {r})}
          /\ IF kind[r] = "sync"
             THEN Go(r, "fail") /\ UNCHANGED <<told, loop>>
             ELSE Answer500(r)
          /\ UNCHANGED since
    /\ UNCHANGED <<up, kind, store, events, open, arts, doomed, faults>>

-----------------------------------------------------------------------------
(* The pipeline, on the handler or on the worker.                           *)

Emits(r, es) ==
    events' = IF kind[r] = "stream" THEN [events EXCEPT ![r] = @ \o es] ELSE events

(* `ingest' and `run_on_manifest' read the uploads; the tools of the plan    *)
(* may write rasters to `artifacts/<run>'.  An upload that is gone is an     *)
(* unreadable input, not an error; any other exception is one.  The events   *)
(* of the stages tell the client nothing of the outcome and are left out.   *)
Execute(r) ==
    /\ pc[r] = "execute"
    /\ \/ /\ Go(r, "complete")
          /\ \/ /\ arts' = Touched(arts, r)
                /\ since' = [since EXCEPT !.arts = Wrote(arts, @, r)]
             \/ UNCHANGED <<arts, since>>
       \/ Go(r, "fail") /\ UNCHANGED <<arts, since>>
    /\ UNCHANGED <<up, loop, kind, store, events, client, dirs, doomed, faults>>

(* Mutant: the event is put on the queue before the row is written.         *)
CompleteMutant(r) ==
    /\ pc[r] = "complete"
    /\ Emits(r, <<"complete">>)
    /\ \/ Stored(r, Completed) /\ Go(r, "list")
       \/ StoreRaises(r, Completed) /\ Go(r, "fail")
    /\ UNCHANGED <<up, loop, kind, client, files>>

(* `store.complete', inside the worker's try block and outside the          *)
(* handler's.                                                               *)
Complete(r) ==
    /\ pc[r] = "complete"
    /\ \/ /\ Stored(r, Completed)
          /\ Go(r, IF kind[r] = "sync" THEN "list" ELSE "emit")
          /\ UNCHANGED <<loop, told>>
       \/ /\ StoreRaises(r, Completed)
          /\ IF kind[r] = "sync"
             THEN Answer500(r)
             ELSE Go(r, "fail") /\ UNCHANGED <<loop, told>>
    /\ UNCHANGED <<up, kind, events, open, files>>

(* Mutant: the queue is closed by the handler of the exception, not finally. *)
FailMutant(r) ==
    /\ pc[r] = "fail"
    /\ \/ Stored(r, Failed(r)) /\ Emits(r, <<"error", "DONE">>)
       \/ StoreRaises(r, Failed(r)) /\ UNCHANGED events
    /\ IF kind[r] = "sync"
       THEN Answer500(r)
       ELSE Go(r, "list") /\ UNCHANGED <<loop, told>>
    /\ UNCHANGED <<up, kind, open, files>>

(* `store.fail' in the except block, then for a stream the error event and   *)
(* the finally block.  When `store.fail' raises as well, there is no event.  *)
Fail(r) ==
    /\ pc[r] = "fail"
    /\ \/ Stored(r, Failed(r)) /\ Emits(r, <<"error", "DONE">>)
       \/ StoreRaises(r, Failed(r)) /\ Emits(r, <<"DONE">>)
    /\ IF kind[r] = "sync"
       THEN Answer500(r)
       ELSE Go(r, "list") /\ UNCHANGED <<loop, told>>
    /\ UNCHANGED <<up, kind, open, files>>

(* The last event of a stream that went well, and the finally block; or the  *)
(* trace cannot be serialised for the client, and the row that is complete   *)
(* is failed by the except block.                                           *)
Emit(r) ==
    /\ pc[r] = "emit"
    /\ \/ /\ Emits(r, <<"complete", "DONE">>)
          /\ Go(r, "list")
          /\ UNCHANGED faults
       \/ /\ CanFault
          /\ faults' = faults + 1
          /\ Go(r, "fail")
          /\ UNCHANGED events
    /\ UNCHANGED <<up, loop, kind, store, client, files>>

-----------------------------------------------------------------------------
(* `_prune_run_dirs', by the handler before it answers or by the worker     *)
(* after the stream was closed.                                             *)

(* The handler's return value reaches its client; a worker just ends.       *)
Finish(r) ==
    /\ Go(r, "end")
    /\ IF kind[r] = "sync"
       THEN told' = [told EXCEPT ![r] = "complete"] /\ loop' = None
       ELSE UNCHANGED <<told, loop>>

(* The listing.  An entry that another prune removes between `is_dir' and    *)
(* `stat' is an OSError, and this prune returns, artifacts and all.         *)
List(r) ==
    /\ pc[r] = "list"
    /\ \/ /\ doomed' = [doomed EXCEPT ![r] = StaleOf(dirs)]
          /\ Go(r, "rm")
          /\ UNCHANGED <<told, loop>>
       \/ /\ \E q \in Runs \ {r} : pc[q] = "rm" /\ doomed[q] # {}
          /\ Finish(r)
          /\ UNCHANGED doomed
    /\ UNCHANGED <<up, kind, store, events, open, dirs, arts, since, faults>>

(* The `rmtree's, while which other threads run and list; then              *)
(* `prune_run_artifacts' lists, an entry that vanished being skipped.       *)
Rm(r) ==
    /\ pc[r] = "rm"
    /\ dirs' = Without(dirs, doomed[r])
    /\ doomed' = [doomed EXCEPT ![r] = StaleOf(arts)]
    /\ Go(r, "rmArts")
    /\ UNCHANGED <<up, loop, kind, store, events, client, arts, since, faults>>

RmArts(r) ==
    /\ pc[r] = "rmArts"
    /\ arts' = Without(arts, doomed[r])
    /\ doomed' = [doomed EXCEPT ![r] = {}]
    /\ Finish(r)
    /\ UNCHANGED <<up, kind, store, events, open, dirs, since, faults>>

-----------------------------------------------------------------------------
(* The response side of a stream: `generate', driven by the event loop.     *)

Deliver(r) ==
    /\ up /\ loop = None
    /\ open[r] /\ events[r] # <<>>
    /\ events' = [events EXCEPT ![r] = Tail(@)]
    /\ told' = IF Head(events[r]) \in {"complete", "error"}
               THEN [told EXCEPT ![r] = Head(events[r])] ELSE told
    /\ open' = [open EXCEPT ![r] = Head(events[r]) # "DONE"]
    /\ UNCHANGED <<up, loop, kind, pc, store, files, faults>>

(* `get_run_report': a directory of its own for a run that has a trace.      *)
Report(p) ==
    /\ up
    /\ p \notin DOMAIN dirs \cup UNION {doomed[r] : r \in Runs}
    /\ \E r \in Runs : row[r].trace
    /\ dirs' = Touched(dirs, p)
    /\ since' = [since EXCEPT !.dirs = Wrote(dirs, @, p)]
    /\ UNCHANGED <<up, loop, kind, pc, store, events, client, arts, doomed, faults>>

(* The process dies: threads, queues and pending changes with it.           *)
ServerDies ==
    /\ up /\ CanFault
    /\ faults' = faults + 1
    /\ up' = FALSE
    /\ loop' = None
    /\ pc' = [r \in Runs |-> IF Active(r) THEN "end" ELSE pc[r]]
    /\ row' = durable
    /\ events' = [r \in Runs |-> <<>>]
    /\ open' = [r \in Runs |-> FALSE]
    /\ doomed' = [r \in Runs |-> {}]
    /\ UNCHANGED <<kind, durable, told, dirs, arts, since>>

(* `RunStore.__init__' opens the file; nothing looks at the rows in it.      *)
Restart ==
    /\ ~up
    /\ up' = TRUE
    /\ UNCHANGED <<loop, kind, pc, store, events, client, files, faults>>

Step(r) ==
    \/ Create(r) \/ Save(r) \/ Execute(r) \/ Complete(r) \/ Fail(r)
    \/ Emit(r) \/ List(r) \/ Rm(r) \/ RmArts(r)

Next ==
    \/ \E r \in Runs : Step(r) \/ Deliver(r)
    \/ \E r \in Runs, k \in Kind \ {"none"} : Accept(r, k)
    \/ \E p \in Reports : Report(p)
    \/ ServerDies
    \/ Restart

Spec == Init /\ [][Next]_vars

(* Threads are scheduled and the loop serves whoever is ready; nothing       *)
(* promises a request, a client's patience or a restart.                    *)
Fairness == \A r \in Runs : WF_vars(Step(r)) /\ WF_vars(Deliver(r))

LiveSpec == Spec /\ Fairness

-----------------------------------------------------------------------------

(* The service implements RunLifecycle: a verdict that reached the disk is   *)
(* kept by every later commit, death and restart; a client is told           *)
(* `complete' only of a run that is complete on disk, and is told one thing, *)
(* be it an error event or an error status.                                 *)
Lifecycle == INSTANCE RunLifecycle WITH
    verdict <- [r \in Runs |-> durable[r].status],
    told <- [r \in Runs |-> IF told[r] = "refused" THEN "error" ELSE told[r]]

LifecycleKept == Lifecycle!Spec

(* A stream that reported an error is a run on record as failed, whatever   *)
(* pending change a later commit flushes.  (An error status gives no such    *)
(* guarantee: `store.complete' of POST /runs has no handler of its own.)     *)
StreamErrorsAgree ==
    \A r \in Runs : told[r] = "error" => durable[r].status = "failed"

(* What a client may still look at, the uploads behind a preview and the     *)
(* rasters behind an overlay, is evicted only when `Keep' others of its sort *)
(* were written after it was made, although listings go stale meanwhile.    *)
EvictedIsOld ==
    [][ /\ \A d \in DOMAIN dirs \ DOMAIN dirs' :
             \/ Cardinality(since.dirs[d]) >= Keep
             \/ d \in Runs /\ pc[d] = "save" /\ pc'[d] # "save"
        /\ \A d \in DOMAIN arts \ DOMAIN arts' :
             Cardinality(since.arts[d]) >= Keep ]_vars

(* Every stream ends: whatever raises in the worker, the store's own errors  *)
(* in its except block included, the client is not left waiting.            *)
StreamsEnd == \A r \in Runs : open[r] ~> ~open[r]

=============================================================================
