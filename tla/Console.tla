------------------------------ MODULE Console ------------------------------
(***************************************************************************)
(* The console, app/page.tsx, against the API it talks to: one browser, its *)
(* requests to /runs/stream, the events that come back, and what of them is *)
(* on the page at any moment.  Of the server there is what the page can     *)
(* tell: is a request admitted, the stages of its worker, when the row gets *)
(* its trace, and how the response ends.  Requests are numbered; a reading  *)
(* on the page is the request it came from, or 0.                           *)
(***************************************************************************)
EXTENDS Composer, Board, MapView

CONSTANTS
    MaxRuns,   \* bound on requests of this page
    MaxSteps   \* bound on the steps of a plan

Requests == 1..MaxRuns

(* The page of a stored run: was its answer told before, and what it shows. *)
StoredPage == [run : Requests, told : BOOLEAN,
               shows : {"reading", "trace", "empty", "unavailable"}]

ASSUME ConsoleAssumption ==
    /\ MaxRuns \in Nat \ {0} /\ MaxSteps \in Nat
    /\ None \notin StoredPage

VARIABLES
    running,   \* the Run button is busy
    sent,      \* the newest request
    loops,     \* the submissions that are still reading
    page,      \* the readings
    events,    \* the live trace
    preview,   \* the two images of the comparator
    opened,    \* the page of a stored run, once its link is followed
    server     \* each request on the server, and the response on its way

readings == <<sent, page, events, preview>>
run == <<running, loops, readings, map, opened, server>>
vars == <<composer, run>>

Readings == {"runId", "checks", "task", "verification", "confidence", "answer", "error"}
Blank == [x \in Readings |-> 0]

(* A request: the verdict of its admission, its images, its stage, the      *)
(* steps it made, does its row have the trace, the events on their way, and *)
(* the response.                                                            *)
Fresh(verdict, images) ==
    [verdict |-> verdict, images |-> images, stage |-> "none", steps |-> 0,
     stored |-> FALSE, wire |-> <<>>, link |-> "asking"]

Init ==
    /\ ComposerInit
    /\ running = FALSE /\ sent = 0 /\ loops = {}
    /\ page = Blank /\ events = <<>> /\ preview = "none"
    /\ map = Unmounted /\ opened = None
    /\ server = [r \in Requests |-> Fresh("none", 0)]

-----------------------------------------------------------------------------
(* The page.                                                                *)

(* `submit' of the page: everything of the run before goes, and the          *)
(* attachments are sent with the area if there is one.  With nothing         *)
(* attached it only says so.  What the server has of a run that nobody reads *)
(* any more cannot be told from this page, and is forgotten.                *)
Send ==
    /\ files # <<>> /\ sent < MaxRuns
    /\ sent' = sent + 1 /\ loops' = loops \cup {sent + 1}
    /\ running' = TRUE
    /\ page' = Blank /\ events' = <<>> /\ preview' = "none"
    /\ map' = Unmounted
    /\ server' = [r \in Requests |->
                    IF r = sent + 1
                    THEN Fresh(Admission(files, aoi),
                               Len(GroupUploads(files)))
                    ELSE IF r \in loops THEN server[r] ELSE Fresh("none", 0)]
    /\ UNCHANGED <<composer, opened>>

(* Mutant: the composer does not look at `running'.                         *)
SubmitMutant == Send

(* The Run button or the Enter key, of a composer that is not busy.         *)
Submit == ~running /\ Send

(* What an event of request r does to the page.  The reason of a run that   *)
(* abstained is shown where errors are.                                     *)
Told(r, name, abstained) ==
    CASE name = "run_started" -> [page EXCEPT !.runId = r]
      [] name = "ingest" -> [page EXCEPT !.checks = r]
      [] name = "routing" -> [page EXCEPT !.task = r]
      [] name = "verification" -> [page EXCEPT !.verification = r]
      [] name = "confidence" -> [page EXCEPT !.confidence = r]
      [] name = "complete" -> [page EXCEPT !.answer = r, !.error = IF abstained THEN r ELSE @]
      [] name = "error" -> [page EXCEPT !.error = r]
      [] name = "step" -> page

(* The map appears with the run id; it may ask for overlays once the run is *)
(* complete.                                                                *)
MapAfter(name) ==
    CASE name = "run_started" -> Mounted
      [] name = "complete" -> Ready(map)
      [] OTHER -> map

(* The comparator appears with two images and asks for both at once.        *)
PreviewAfter(r, name) ==
    IF name = "ingest" /\ server[r].images = 2 THEN "asked" ELSE preview

(* One turn of the loop over parseSSE.                                      *)
Read(r) ==
    /\ r \in loops /\ server[r].wire # <<>>
    /\ LET name == Head(server[r].wire)
       IN /\ events' = Append(events, [name |-> name, run |-> r])
          /\ \E abstained \in BOOLEAN : page' = Told(r, name, abstained)
          /\ map' = MapAfter(name)
          /\ preview' = PreviewAfter(r, name)
    /\ server' = [server EXCEPT ![r].wire = Tail(@)]
    /\ UNCHANGED <<composer, running, sent, loops, opened>>

(* Mutant: only a stream that was read to its end gives the button back.    *)
LeaveMutant(r, ended) ==
    /\ loops' = loops \ {r}
    /\ running' = (running /\ ~ended)

(* The finally of `submit'.                                                 *)
Leave(r, ended) ==
    /\ loops' = loops \ {r}
    /\ running' = FALSE

(* The response is read to its end.                                         *)
Finish(r) ==
    /\ r \in loops /\ server[r].link = "closed" /\ server[r].wire = <<>>
    /\ Leave(r, TRUE)
    /\ UNCHANGED <<composer, readings, map, opened, server>>

(* It is refused, or breaks with events still on their way.                 *)
Catch(r) ==
    /\ r \in loops /\ server[r].link \in {"refused", "broken"}
    /\ page' = [page EXCEPT !.error = r]
    /\ server' = [server EXCEPT ![r].wire = <<>>]
    /\ Leave(r, FALSE)
    /\ UNCHANGED <<composer, sent, events, preview, map, opened>>

Row(r) == [known |-> server[r].stage # "none", trace |-> server[r].stored]

(* One image that does not load is enough, and is not asked for again while *)
(* the run is on the page.                                                  *)
PreviewAnswered ==
    /\ preview = "asked"
    /\ \E image \in Files :
         LET status == GetPreview(Row(page.runId), image)
         IN preview' = IF status = 200 THEN "shown" ELSE IF status = 404 THEN "missing" ELSE "gone"
    /\ UNCHANGED <<composer, running, loops, sent, page, events, map, opened, server>>

(* The map is that of the run on the page, or of the stored one.            *)
MapStep ==
    /\ LET row == Row(IF opened = None THEN page.runId ELSE opened.run)
       IN \/ BasemapSettles
          \/ ListAnswered(row)
          \/ \E k \in Overlays : Select(k)
          \/ \E f \in map.fetches : LayerAnswered(f, row)
    /\ UNCHANGED <<composer, running, loops, readings, opened, server>>

(* `Permalink to this run', offered whenever no run is going on: the page   *)
(* goes, with all that was on it.                                           *)
OpenPermalink ==
    /\ page.runId # 0 /\ ~running
    /\ opened' = [run |-> page.runId, told |-> page.answer # 0, shows |-> "reading"]
    /\ files' = <<>> /\ aoi' = None /\ probe' = None /\ probing' = FALSE /\ asked' = {}
    /\ page' = Blank /\ events' = <<>> /\ preview' = "none" /\ map' = Unmounted
    /\ UNCHANGED <<changes, running, sent, loops, server>>

(* The page of a stored run reads the row once, and a map with it that asks *)
(* at once.                                                                 *)
StoredRunAnswered ==
    /\ opened # None /\ opened.shows = "reading"
    /\ \E shows \in {StoredRun(Row(opened.run)), "unavailable"} :
         /\ opened' = [opened EXCEPT !.shows = shows]
         /\ map' = IF shows = "unavailable" THEN map ELSE Ready(Mounted)
    /\ UNCHANGED <<composer, running, loops, readings, server>>

-----------------------------------------------------------------------------
(* The server.                                                              *)
Put(r, stage, name, link) ==
    server' = [server EXCEPT ![r].stage = stage, ![r].wire = Append(@, name), ![r].link = link]

(* Admitted, the row created and the response begun; or refused, a store    *)
(* that cannot be written included.                                         *)
Accept(r) ==
    /\ r \in loops /\ server[r].link = "asking"
    /\ \/ server[r].verdict = "ok" /\ Put(r, "started", "run_started", "open")
       \/ server' = [server EXCEPT ![r].link = "refused"]

(* The stages of the executor, in their order; a plan whose first step      *)
(* aborts makes none.                                                       *)
Follows(stage) ==
    CASE stage = "started" -> {"ingest"}
      [] stage = "ingest" -> {"routing"}
      [] stage \in {"routing", "step"} -> {"step", "verification"}
      [] stage = "verification" -> {"confidence"}
      [] OTHER -> {}

Stage(r) ==
    \E next \in Follows(server[r].stage) :
        /\ next = "step" => server[r].steps < MaxSteps
        /\ server' = [server EXCEPT ![r].stage = next, ![r].wire = Append(@, next),
                        ![r].steps = IF next = "step" THEN @ + 1 ELSE @]

(* store.complete, and then the event with the trace.                       *)
Store(r) ==
    /\ server[r].stage = "confidence"
    /\ server' = [server EXCEPT ![r].stage = "stored", ![r].stored = TRUE]

(* Mutant: the event does not wait for the row.                             *)
CompleteMutant(r) == server[r].stage = "confidence" /\ Put(r, "ended", "complete", "closed")

Complete(r) == server[r].stage = "stored" /\ Put(r, "ended", "complete", "closed")

(* Anything raises: an error is told, unless the row cannot be written.     *)
Raise(r) ==
    \/ Put(r, "ended", "error", "closed")
    \/ server' = [server EXCEPT ![r].stage = "ended", ![r].link = "closed"]

Work(r) ==
    /\ \/ Accept(r)
       \/ server[r].link = "open" /\ (Stage(r) \/ Store(r) \/ Complete(r) \/ Raise(r))
    /\ UNCHANGED <<composer, running, loops, readings, map, opened>>

(* The connection is lost, or the server dies.                              *)
Break(r) ==
    /\ r \in loops /\ server[r].link \in {"asking", "open", "closed"}
    /\ server' = [server EXCEPT ![r].link = "broken"]
    /\ UNCHANGED <<composer, running, loops, readings, map, opened>>

Next ==
    \/ /\ opened = None
       /\ \/ ComposerStep(running) /\ UNCHANGED run
          \/ Submit
          \/ \E r \in Requests : Read(r) \/ Finish(r) \/ Catch(r)
          \/ PreviewAnswered
          \/ OpenPermalink
    \/ StoredRunAnswered
    \/ MapStep
    \/ \E r \in Requests : Work(r) \/ Break(r)

(* The worker and the browser go on; a user need not do anything, and an    *)
(* answer about a preview, an overlay or a probe may never come.            *)
Fairness ==
    \A r \in Requests :
        /\ WF_vars(Work(r))
        /\ WF_vars(opened = None /\ (Read(r) \/ Finish(r) \/ Catch(r)))

Spec == Init /\ [][Next]_vars /\ Fairness

-----------------------------------------------------------------------------
(* Properties.                                                              *)

(* Every reading on the page comes from one run, the last that was asked    *)
(* for, and so does every line of the trace the board is drawn from         *)
(* (page.tsx:474): two submissions never write to one page, and nothing of  *)
(* the run before outlives the next.                                        *)
OneRunOnPage ==
    /\ \A x \in Readings : page[x] \in {0, sent}
    /\ \A i \in DOMAIN events : events[i].run = sent

(* What the page was told is complete has its trace in the store: the map   *)
(* never asks for the overlays of another, so that it never reports a       *)
(* healthy run as missing (MapView.tsx:113), and the permalink of a run      *)
(* whose answer was told replays it, never an empty page (page.tsx:373).    *)
ToldIsStored ==
    /\ opened = None /\ map.list # "none" => page.runId # 0 /\ server[page.runId].stored
    /\ opened # None /\ opened.told => opened.shows # "empty"

(* Whatever the order the overlays arrive in, the one drawn is the one      *)
(* highlighted, or it is on its way, or an error is shown.                  *)
LayerAgrees == LayerAgreesWithHighlight

(* When a run with a step has been told to its end and the board has caught *)
(* up, every node is lit and the rail says so: the reveal counts the nodes  *)
(* that were touched and shows as many from the left (Pipeline.tsx:295).    *)
BoardPlaysOut ==
    LET board == BuildBoard(events, running)
    IN ~running /\ Heard(events, "complete") /\ StepsHeard(events) > 0
         => /\ \A i \in DOMAIN board : DisplayState(i, board, running) = "done"
            /\ Phase(events, running) \in {"complete", "error"}

(* A submission ends, whatever the server and the connection do, and the    *)
(* Run button comes back.                                                   *)
RunEnds == running ~> ~running
=============================================================================
