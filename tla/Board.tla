------------------------------- MODULE Board -------------------------------
(***************************************************************************)
(* The pipeline board of the console, components/Pipeline.tsx: the nodes    *)
(* that the events of a run make, and those that are lit in the end.  The   *)
(* time the reveal takes from node to node is left out.                     *)
(* An event is a record with its name.  A node has an id, the kind it shows, *)
(* a state, and whether an event gave it its reading.                       *)
(***************************************************************************)
EXTENDS Integers, Sequences, FiniteSets

Heard(events, name) == \E i \in DOMAIN events : events[i].name = name
StepsHeard(events) == Cardinality({i \in DOMAIN events : events[i].name = "step"})

(* `settle': done with its event, active when it is the next of a live run.  *)
Settle(has, next, running) ==
    IF has THEN "done" ELSE IF next /\ running THEN "active" ELSE "idle"

Node(kind, has, next, running) ==
    [kind |-> kind, state |-> Settle(has, next, running), read |-> has]

(* Ingest and routing, the first two of the lane.                           *)
Opening(events, running) ==
    <<Node("INGEST", Heard(events, "ingest"), TRUE, running),
      Node("ROUTING", Heard(events, "routing"), Heard(events, "ingest"), running)>>

(* Mutant: always a place for the step in flight, after the steps there are. *)
StepNodesMutant(events, running) ==
    [i \in 1..StepsHeard(events) + 1 |->
        Node("STEP", i <= StepsHeard(events), i = StepsHeard(events) + 1 /\ Heard(events, "routing"),
             running)]

(* One for each step, and one while there is none.                          *)
StepNodes(events, running) ==
    LET steps == StepsHeard(events)
    IN [i \in 1..(IF steps = 0 THEN 1 ELSE steps) |->
          Node("STEP", i <= steps, i = steps + 1 /\ Heard(events, "routing"), running)]

(* Verification, then confidence and the answer side by side.               *)
Closing(events, running) ==
    LET verified == Heard(events, "verification")
        ended == Heard(events, "complete") \/ Heard(events, "error")
    IN <<Node("VERIFICATION", verified, StepsHeard(events) > 0, running),
         Node("CONFIDENCE", Heard(events, "confidence"), verified, running),
         Node(IF Heard(events, "error") THEN "ERROR" ELSE "COMPLETE", ended, verified, running)>>

BuildBoard(events, running) ==
    Opening(events, running) \o StepNodes(events, running) \o Closing(events, running)

(* The phase named beside the rail.                                         *)
Phase(events, running) ==
    CASE Heard(events, "error") -> "error"
      [] Heard(events, "complete") /\ ~Heard(events, "error") -> "complete"
      [] OTHER -> IF Heard(events, "verification") THEN "confidence"
                  ELSE IF Heard(events, "routing") THEN "step"
                  ELSE IF Heard(events, "ingest") THEN "routing"
                  ELSE IF running THEN "ingest" ELSE "idle"

(* `reached': how many nodes the events touched, wherever they are.         *)
Reached(board) == Cardinality({i \in DOMAIN board : board[i].state # "idle"})

(* `displayState', when the reveal has caught up: it shows as many nodes as *)
(* were touched, from the left, and not those that were.                    *)
DisplayState(i, board, running) ==
    IF i <= Reached(board) THEN "done"
    ELSE IF i = Reached(board) + 1 /\ running THEN "active"
    ELSE "idle"
=============================================================================
