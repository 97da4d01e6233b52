--------------------------- MODULE ConsoleProofs ---------------------------
(***************************************************************************)
(* What is on the page of the console, for any files, areas, requests and   *)
(* overlays, and any order of answers.                                      *)
(*                                                                         *)
(* Only one submission reads at a time, and it is the newest, so what it    *)
(* writes is of one run.  The rest follows from what is on the wire         *)
(* (`WireSound'): an event comes after those it builds on, and nothing      *)
(* comes after `complete', which finds the row with its trace.  The map     *)
(* has an invariant of its own (`MapSound'): a fetch that was not cancelled *)
(* is of the highlighted overlay.                                           *)
(***************************************************************************)
EXTENDS Console, FiniteSetTheorems, WellFoundedInduction, TLAPS

Names == {"run_started", "ingest", "routing", "step", "verification", "confidence",
          "complete", "error"}
Stages == {"none", "started", "ingest", "routing", "step", "verification", "confidence",
           "stored", "ended"}
Links == {"asking", "open", "closed", "refused", "broken"}
Fields == {"verdict", "images", "stage", "steps", "stored", "wire", "link"}

(* The events an event comes after.                                         *)
Before(name) ==
    CASE name = "ingest" -> {"run_started"}
      [] name = "routing" -> {"run_started", "ingest"}
      [] name \in {"step", "verification"} -> {"run_started", "ingest", "routing"}
      [] name = "confidence" -> {"run_started", "ingest", "routing", "verification"}
      [] name = "complete" -> {"run_started", "ingest", "routing", "verification", "confidence"}
      [] OTHER -> {}

(* The events a worker has sent at a stage.                                 *)
Since(stage) ==
    CASE stage = "started" -> {"run_started"}
      [] stage = "ingest" -> {"run_started", "ingest"}
      [] stage \in {"routing", "step"} -> {"run_started", "ingest", "routing"}
      [] stage = "verification" -> {"run_started", "ingest", "routing", "verification"}
      [] stage \in {"confidence", "stored"} ->
           {"run_started", "ingest", "routing", "verification", "confidence"}
      [] OTHER -> {}

(* An event was read, or is among the first k on the wire.                  *)
Said(es, wire, k, name) == Heard(es, name) \/ \E j \in 1..k : wire[j] = name

Entry(s) ==
    /\ DOMAIN s = Fields
    /\ s.stage \in Stages /\ s.stored \in BOOLEAN
    /\ s.wire \in Seq(Names) /\ s.link \in Links
    /\ s.stage = "stored" => s.stored

ServerTyped ==
    /\ server = [r \in Requests |-> server[r]]
    /\ \A r \in Requests : Entry(server[r])

(* What a submission that is still reading has of its request.              *)
Streams(es, s) ==
    /\ s.link = "asking" => s.stage = "none" /\ Len(s.wire) = 0
    /\ \A i \in 1..Len(s.wire) : \A m \in Before(s.wire[i]) : Said(es, s.wire, i - 1, m)
    /\ \A m \in Since(s.stage) : Said(es, s.wire, Len(s.wire), m)
    /\ \A i \in 1..Len(s.wire) :
         s.wire[i] = "complete" => i = Len(s.wire) /\ s.stored /\ s.link \notin {"asking", "open"}
    /\ Heard(es, "complete") => Len(s.wire) = 0 /\ s.link \notin {"asking", "open"}

WireSound == \A r \in loops : Streams(events, server[r])

OneReader ==
    /\ sent \in 0..MaxRuns
    /\ loops \subseteq {sent} /\ (loops # {} => running /\ sent # 0)

Event == [name : Names, run : {sent}]

PageSound ==
    /\ page \in [Readings -> {0, sent}]
    /\ events \in Seq(Event)
    /\ \A n \in Names : Heard(events, n) => \A m \in Before(n) : Heard(events, m)
    /\ Heard(events, "run_started") => page.runId = sent /\ sent # 0
    /\ opened = None /\ Heard(events, "run_started") => map.basemap # "none"
    /\ Heard(events, "complete") => server[sent].stored
    /\ page.answer # 0 => Heard(events, "complete")
    /\ opened = None /\ map.list # "none" => Heard(events, "complete")

OpenedSound ==
    /\ opened \in {None} \cup StoredPage
    /\ opened # None /\ opened.told => server[opened.run].stored /\ opened.shows # "empty"

Map == [basemap : {"none", "probing", "settled"}, list : {"none", "asked", "got", "failed"},
        layers : SUBSET Overlays, active : Overlays \cup {NoOverlay},
        painted : Overlays \cup {NoOverlay},
        fetches : SUBSET [key : Overlays, live : BOOLEAN], error : BOOLEAN]

Settled(m) ==
    /\ m \in Map
    /\ m.basemap = "none" => m.list = "none"
    /\ m.list \in {"none", "asked"} => m.active = NoOverlay /\ m.layers = {}
    /\ m.active = NoOverlay => m.painted = NoOverlay
    /\ \A f \in m.fetches : f.live => f.key = m.active
    /\ \/ m.painted = m.active
       \/ m.basemap = "probing"
       \/ \E f \in m.fetches : f.live
       \/ m.error

MapSound == Settled(map)

Inv == ServerTyped /\ WireSound /\ OneReader /\ PageSound /\ OpenedSound /\ MapSound

-----------------------------------------------------------------------------
(* The map.                                                                 *)

LEMMA OverlaysAreNumbers == Overlays \subseteq Nat /\ NoOverlay \notin Overlays
BY MapAssumption DEF MapAssumption, NoOverlay

(* The least of some numbers is one of them.                                *)
LEMMA LeastIsOne ==
    ASSUME NEW S \in SUBSET Nat, S # {}
    PROVE  Min(S) \in S
<1>1. PICK x \in S : \A y \in S : ~(<<y, x>> \in OpToRel(<, Nat))
  BY NatLessThanWellFounded, WFMin
<1>2. \A y \in S : x <= y
  <2> SUFFICES ASSUME NEW y \in S PROVE x <= y
    OBVIOUS
  <2>1. ~(<<y, x>> \in OpToRel(<, Nat)) /\ x \in Nat /\ y \in Nat
    BY <1>1
  <2> QED
    BY <2>1 DEF OpToRel
<1> QED
  BY <1>2 DEF Min

Fetches == [key : Overlays, live : BOOLEAN]

(* Highlighting anew: what is on its way is cancelled.                      *)
LEMMA FetchingSettles ==
    ASSUME NEW m \in Map, m.active = NoOverlay => m.painted = NoOverlay,
           m.list \in {"none", "asked"} => m.active = NoOverlay /\ m.layers = {},
           m.basemap = "none" => m.list = "none"
    PROVE  Settled(Fetching(m)) /\ Fetching(m).list = m.list
<1> DEFINE cancelled == {[f EXCEPT !.live = FALSE] : f \in m.fetches}
           new == IF m.basemap = "settled" /\ m.active # NoOverlay
                  THEN {[key |-> m.active, live |-> TRUE]} ELSE {}
<1>0. m.fetches \subseteq Fetches /\ m.active \in Overlays \cup {NoOverlay}
  BY DEF Map, Fetches
<1>1. \A f \in cancelled : f \in Fetches /\ ~f.live
  <2> SUFFICES ASSUME NEW g \in m.fetches
               PROVE  [g EXCEPT !.live = FALSE] \in Fetches /\ ~[g EXCEPT !.live = FALSE].live
    OBVIOUS
  <2> QED
    BY <1>0 DEF Fetches
<1>2. /\ \A f \in new : f \in Fetches /\ f.live /\ f.key = m.active
      /\ m.basemap = "settled" /\ m.active # NoOverlay => \E f \in new : f.live
  <2>1. CASE m.basemap = "settled" /\ m.active # NoOverlay
    <3>1. new = {[key |-> m.active, live |-> TRUE]} /\ m.active \in Overlays
      BY <1>0, <2>1
    <3> HIDE DEF new
    <3> QED
      BY <3>1 DEF Fetches
  <2>2. CASE ~(m.basemap = "settled" /\ m.active # NoOverlay)
    BY <2>2
  <2> QED
    BY <2>1, <2>2
<1>3. Fetching(m) = [m EXCEPT !.fetches = cancelled \cup new]
  BY DEF Fetching
<1> HIDE DEF cancelled, new
<1>4. /\ Fetching(m).active = m.active /\ Fetching(m).painted = m.painted
      /\ Fetching(m).list = m.list /\ Fetching(m).layers = m.layers
      /\ Fetching(m).basemap = m.basemap
      /\ Fetching(m).fetches = cancelled \cup new
  BY <1>3 DEF Map
<1>5. Fetching(m) \in Map
  <2>1. cancelled \cup new \in SUBSET Fetches
    BY <1>1, <1>2
  <2> QED
    BY <1>3, <2>1 DEF Map, Fetches
<1>6. \A f \in Fetching(m).fetches : f.live => f.key = m.active
  BY <1>1, <1>2, <1>4
<1>7. \/ m.painted = m.active
      \/ m.basemap = "probing"
      \/ \E f \in Fetching(m).fetches : f.live
  BY <1>2, <1>4 DEF Map
<1> QED
  BY <1>4, <1>5, <1>6, <1>7 DEF Settled
LEMMA BasemapKeeps ==
    ASSUME MapSound, BasemapSettles
    PROVE  MapSound' /\ map'.list = map.list /\ map'.basemap # "none"
<1> DEFINE m == [map EXCEPT !.basemap = "settled"]
<1>1. map \in Map /\ map' = Fetching(m)
  BY DEF MapSound, Settled, BasemapSettles
<1>2. m \in Map /\ m.active = map.active /\ m.painted = map.painted /\ m.list = map.list
      /\ m.layers = map.layers /\ m.basemap = "settled"
  BY <1>1 DEF Map
<1> HIDE DEF m
<1>3. Settled(Fetching(m)) /\ Fetching(m).list = m.list
  BY <1>2, FetchingSettles DEF MapSound, Settled
<1>4. Fetching(m).basemap = "settled"
  BY <1>2 DEF Fetching, Map
<1> QED
  BY <1>1, <1>2, <1>3, <1>4 DEF MapSound

(* The map of a run is asked to get ready once, before it has shown anything. *)
LEMMA ReadySettles ==
    ASSUME NEW m, Settled(m), m.list = "none", m.basemap # "none"
    PROVE  Settled(Ready(m)) /\ Ready(m).list = "asked" /\ Ready(m).basemap # "none"
<1> DEFINE n == [m EXCEPT !.list = "asked", !.layers = {}, !.active = NoOverlay, !.error = FALSE]
<1>1. m \in Map /\ m.painted = NoOverlay
  BY DEF Settled
<1>2. n \in Map /\ n.active = NoOverlay /\ n.painted = NoOverlay /\ n.list = "asked"
      /\ n.layers = {} /\ n.basemap = m.basemap
  BY <1>1 DEF Map
<1>3. Ready(m) = Fetching(n)
  BY DEF Ready
<1> HIDE DEF n
<1>4. Settled(Fetching(n)) /\ Fetching(n).list = n.list
  BY <1>2, FetchingSettles
<1>5. Fetching(n).basemap = n.basemap
  BY <1>2 DEF Fetching, Map
<1> QED
  BY <1>2, <1>3, <1>4, <1>5

LEMMA MountedSettles ==
    /\ Settled(Unmounted) /\ Settled(Mounted)
    /\ Unmounted.list = "none" /\ Mounted.list = "none" /\ Mounted.basemap = "probing"
BY DEF Settled, Map, Unmounted, Mounted

LEMMA ListKeeps ==
    ASSUME MapSound, NEW row, ListAnswered(row)
    PROVE  MapSound' /\ map'.basemap = map.basemap /\ map.list = "asked"
<1>1. map \in Map /\ map.list = "asked" /\ map.painted = NoOverlay /\ map.active = NoOverlay
      /\ map.basemap # "none"
  BY DEF MapSound, Settled, ListAnswered
<1>2. ASSUME NEW usable \in {Overlays, {}},
             map' = Fetching([map EXCEPT !.list = "got", !.layers = usable,
                                !.active = IF usable = {} THEN NoOverlay ELSE Min(usable)])
      PROVE  MapSound' /\ map'.basemap = map.basemap
  <2> DEFINE first == IF usable = {} THEN NoOverlay ELSE Min(usable)
             m == [map EXCEPT !.list = "got", !.layers = usable, !.active = first]
  <2>1. first \in Overlays \cup {NoOverlay}
    BY LeastIsOne, OverlaysAreNumbers
  <2> HIDE DEF first
  <2>2. m \in Map /\ m.painted = NoOverlay /\ m.list = "got" /\ m.basemap = map.basemap
    BY <1>1, <2>1 DEF Map
  <2>3. map' = Fetching(m)
    BY <1>2 DEF first
  <2> HIDE DEF m
  <2>4. Settled(Fetching(m))
    BY <1>1, <2>2, FetchingSettles
  <2>5. Fetching(m).basemap = m.basemap
    BY <2>2 DEF Fetching, Map
  <2> QED
    BY <2>2, <2>3, <2>4, <2>5 DEF MapSound
<1>3. CASE map' = [map EXCEPT !.list = "failed", !.error = TRUE]
  <2>1. /\ map' \in Map /\ map'.list = "failed" /\ map'.error = TRUE
        /\ map'.active = map.active /\ map'.painted = map.painted
        /\ map'.basemap = map.basemap /\ map'.fetches = map.fetches
    BY <1>1, <1>3 DEF Map
  <2> QED
    BY <1>1, <2>1 DEF MapSound, Settled
<1> QED
  BY <1>1, <1>2, <1>3 DEF ListAnswered

LEMMA SelectKeeps ==
    ASSUME MapSound, NEW k \in Overlays, Select(k)
    PROVE  MapSound' /\ map'.list = map.list /\ map'.basemap = map.basemap
<1> DEFINE m == [map EXCEPT !.active = k]
<1>1. map \in Map /\ map' = Fetching(m) /\ k \in map.layers /\ k # NoOverlay
  BY OverlaysAreNumbers DEF MapSound, Settled, Select
<1>2. m \in Map /\ m.active = k /\ m.list = map.list /\ m.basemap = map.basemap
      /\ m.layers = map.layers
  BY <1>1 DEF Map
<1> HIDE DEF m
<1>3. Settled(Fetching(m)) /\ Fetching(m).list = m.list
  BY <1>1, <1>2, FetchingSettles DEF MapSound, Settled
<1>4. Fetching(m).basemap = m.basemap
  BY <1>2 DEF Fetching, Map
<1> QED
  BY <1>1, <1>2, <1>3, <1>4 DEF MapSound

(* What a fetch that was not cancelled brings is of the highlighted overlay. *)
LEMMA LayerKeeps ==
    ASSUME MapSound, NEW f \in map.fetches, NEW row, LayerAnswered(f, row)
    PROVE  MapSound' /\ map'.list = map.list /\ map'.basemap = map.basemap
<1>1. map \in Map /\ f \in Fetches /\ (f.live => f.key = map.active)
  BY DEF MapSound, Settled, Map, Fetches
<1>2. PICK m \in (IF f.live THEN Painted(f, row) ELSE {map}) :
         map' = [m EXCEPT !.fetches = @ \ {f}]
  BY DEF LayerAnswered
<1>3. /\ m \in Map
      /\ m.list = map.list /\ m.basemap = map.basemap /\ m.layers = map.layers
      /\ m.active = map.active /\ m.fetches = map.fetches
      /\ m.active = NoOverlay => m.painted = NoOverlay
      /\ f.live => m.painted = m.active \/ m.error
      /\ ~f.live => m = map
  <2>1. CASE f.live
    <3>1. \/ m = [map EXCEPT !.painted = f.key, !.error = FALSE]
          \/ m = [map EXCEPT !.error = TRUE]
      BY <1>2, <2>1 DEF Painted
    <3>2. CASE m = [map EXCEPT !.painted = f.key, !.error = FALSE]
      BY <1>1, <2>1, <3>2 DEF Map, Fetches
    <3>3. CASE m = [map EXCEPT !.error = TRUE]
      BY <1>1, <2>1, <3>3 DEF MapSound, Settled, Map
    <3> QED
      BY <3>1, <3>2, <3>3
  <2>2. CASE ~f.live
    BY <1>1, <1>2, <2>2 DEF MapSound, Settled
  <2> QED
    BY <2>1, <2>2
<1>4. /\ map'.list = map.list /\ map'.basemap = map.basemap /\ map'.layers = map.layers
      /\ map'.active = map.active /\ map'.painted = m.painted /\ map'.error = m.error
      /\ map'.fetches = map.fetches \ {f}
  BY <1>2, <1>3 DEF Map
<1>5. map' \in Map
  BY <1>2, <1>3 DEF Map
<1>6. \A g \in map'.fetches : g.live => g.key = map'.active
  BY <1>4 DEF MapSound, Settled
<1>7. \/ map'.painted = map'.active
      \/ map'.basemap = "probing"
      \/ \E g \in map'.fetches : g.live
      \/ map'.error
  BY <1>3, <1>4 DEF MapSound, Settled
<1> QED
  BY <1>3, <1>4, <1>5, <1>6, <1>7 DEF MapSound, Settled
MapGoesOn ==
    /\ MapSound'
    /\ map'.list # "none" => map.list # "none"
    /\ map.basemap # "none" => map'.basemap # "none"

LEMMA MapStepKeeps ==
    ASSUME MapSound, MapStep
    PROVE  MapGoesOn
<1>2. CASE BasemapSettles
  BY <1>2, BasemapKeeps DEF MapGoesOn
<1>3. ASSUME NEW row, ListAnswered(row) PROVE MapGoesOn
  BY <1>3, ListKeeps DEF MapGoesOn
<1>4. ASSUME NEW k \in Overlays, Select(k) PROVE MapGoesOn
  BY <1>4, SelectKeeps DEF MapGoesOn
<1>5. ASSUME NEW f \in map.fetches, NEW row, LayerAnswered(f, row) PROVE MapGoesOn
  BY <1>5, LayerKeeps DEF MapGoesOn
<1> QED
  BY <1>2, <1>3, <1>4, <1>5 DEF MapStep

-----------------------------------------------------------------------------
(* Events and the wire.                                                     *)

LEMMA HeardAppended ==
    ASSUME NEW T, NEW es \in Seq(T), NEW e \in T, NEW name
    PROVE  Heard(Append(es, e), name) <=> (Heard(es, name) \/ e.name = name)
<1>1. /\ DOMAIN es = 1..Len(es) /\ Len(es) \in Nat
      /\ DOMAIN Append(es, e) = 1..Len(es) + 1
      /\ Append(es, e)[Len(es) + 1] = e
      /\ \A i \in DOMAIN es : Append(es, e)[i] = es[i]
  OBVIOUS
<1>2. \A i \in 1..Len(es) + 1 : i \in DOMAIN es \/ i = Len(es) + 1
  BY <1>1
<1>3. Len(es) + 1 \in DOMAIN Append(es, e) /\ DOMAIN es \subseteq DOMAIN Append(es, e)
  BY <1>1
<1>4. ASSUME Heard(Append(es, e), name) PROVE Heard(es, name) \/ e.name = name
  <2>1. PICK i \in DOMAIN Append(es, e) : Append(es, e)[i].name = name
    BY <1>4 DEF Heard
  <2> QED
    BY <1>1, <1>2, <2>1 DEF Heard
<1>5. ASSUME Heard(es, name) \/ e.name = name PROVE Heard(Append(es, e), name)
  BY <1>1, <1>3, <1>5 DEF Heard
<1> QED
  BY <1>4, <1>5

LEMMA BeforeAreNames ==
    /\ \A n \in Names : Before(n) \subseteq Names
    /\ \A s \in Stages : Since(s) \subseteq Names
BY DEF Before, Since, Names, Stages

(* What is known of an entry stays so when another is changed, or when the  *)
(* answer to what the page says changes.                                    *)
LEMMA OthersTyped ==
    ASSUME ServerTyped, NEW r \in Requests, NEW s, Entry(s),
           server' = [server EXCEPT ![r] = s]
    PROVE  ServerTyped' /\ server'[r] = s /\ \A q \in Requests \ {r} : server'[q] = server[q]
<1>1. /\ server' = [q \in Requests |-> server'[q]]
      /\ server'[r] = s /\ \A q \in Requests \ {r} : server'[q] = server[q]
  BY DEF ServerTyped
<1>2. \A q \in Requests : Entry(server'[q])
  BY <1>1 DEF ServerTyped
<1> QED
  BY <1>1, <1>2 DEF ServerTyped

(* A worker that sends an event whose predecessors it has sent.             *)
LEMMA Sends ==
    ASSUME NEW es, NEW s, NEW t, Entry(s), Entry(t), Streams(es, s), NEW name \in Names,
           s.link \in {"asking", "open"}, t.wire = Append(s.wire, name),
           Before(name) \subseteq Since(s.stage),
           Since(t.stage) \subseteq Since(s.stage) \cup {name},
           t.link # "asking", t.stage # "stored", s.stored => t.stored,
           name = "complete" => t.stored /\ t.link # "open"
    PROVE  Streams(es, t)
<1> DEFINE n == Len(s.wire)
<1>1. /\ s.wire \in Seq(Names) /\ t.wire \in Seq(Names)
      /\ n \in Nat /\ Len(t.wire) = n + 1 /\ t.wire[n + 1] = name
      /\ \A i \in 1..n : t.wire[i] = s.wire[i]
  BY DEF Entry
<1>2. ~Heard(es, "complete") /\ (\A i \in 1..n : s.wire[i] # "complete")
  BY DEF Streams
<1>3. \A k \in 0..n, m \in Names : Said(es, s.wire, k, m) => Said(es, t.wire, k, m)
  BY <1>1 DEF Said
<1>4. \A m \in Names : Said(es, s.wire, n, m) => Said(es, t.wire, n + 1, m)
  BY <1>1 DEF Said
<1>5. \A i \in 1..Len(t.wire) : \A m \in Before(t.wire[i]) : Said(es, t.wire, i - 1, m)
  <2> SUFFICES ASSUME NEW i \in 1..n + 1, NEW m \in Before(t.wire[i])
               PROVE  Said(es, t.wire, i - 1, m)
    BY <1>1
  <2>1. CASE i \in 1..n
    <3>1. m \in Before(s.wire[i]) /\ s.wire[i] \in Names /\ m \in Names
      BY <1>1, <2>1, BeforeAreNames
    <3>2. Said(es, s.wire, i - 1, m) /\ i - 1 \in 0..n
      BY <1>1, <2>1, <3>1 DEF Streams
    <3> QED
      BY <1>3, <3>1, <3>2
  <2>2. CASE i = n + 1
    <3>1. m \in Since(s.stage) /\ m \in Names
      BY <1>1, <2>2, BeforeAreNames
    <3>2. Said(es, s.wire, n, m) /\ i - 1 = n
      BY <1>1, <2>2, <3>1 DEF Streams
    <3> QED
      BY <1>1, <1>3, <3>1, <3>2
  <2> QED
    BY <1>1, <2>1, <2>2
<1>6. \A m \in Since(t.stage) : Said(es, t.wire, Len(t.wire), m)
  <2> SUFFICES ASSUME NEW m \in Since(t.stage) PROVE Said(es, t.wire, n + 1, m)
    BY <1>1
  <2>1. CASE m = name
    BY <1>1, <2>1 DEF Said
  <2>2. CASE m \in Since(s.stage)
    <3>1. m \in Names
      BY <2>2, BeforeAreNames DEF Entry
    <3> QED
      BY <1>4, <2>2, <3>1 DEF Streams
  <2> QED
    BY <2>1, <2>2
<1>7. \A i \in 1..Len(t.wire) :
        t.wire[i] = "complete" => i = Len(t.wire) /\ t.stored /\ t.link \notin {"asking", "open"}
  BY <1>1, <1>2
<1> QED
  BY <1>2, <1>5, <1>6, <1>7 DEF Streams
(* A page that reads the first event on the wire.                           *)
LEMMA Reads ==
    ASSUME NEW es, NEW fs, NEW s, NEW t, Entry(s), Entry(t), Streams(es, s), s.wire # <<>>,
           t.wire = Tail(s.wire), t.link = s.link, t.stage = s.stage, t.stored = s.stored,
           \A n \in Names : Heard(fs, n) <=> (Heard(es, n) \/ n = s.wire[1])
    PROVE  Streams(fs, t)
<1> DEFINE n == Len(s.wire)
<1>1. /\ s.wire \in Seq(Names) /\ n \in Nat \ {0}
      /\ Len(t.wire) = n - 1 /\ \A i \in 1..n - 1 : t.wire[i] = s.wire[i + 1]
      /\ t.wire \in Seq(Names)
  BY DEF Entry
<1>2. \A k \in 1..n, m \in Names : Said(es, s.wire, k, m) => Said(fs, t.wire, k - 1, m)
  <2> SUFFICES ASSUME NEW k \in 1..n, NEW m \in Names, Said(es, s.wire, k, m)
               PROVE  Said(fs, t.wire, k - 1, m)
    OBVIOUS
  <2>1. CASE Heard(es, m)
    BY <2>1 DEF Said
  <2>2. ASSUME NEW j \in 1..k, s.wire[j] = m PROVE Said(fs, t.wire, k - 1, m)
    <3>1. CASE j = 1
      BY <2>2, <3>1 DEF Said
    <3>2. CASE j > 1
      <4>1. j - 1 \in 1..k - 1 /\ j - 1 \in 1..n - 1
        BY <1>1, <3>2
      <4>2. t.wire[j - 1] = s.wire[(j - 1) + 1]
        BY <1>1, <4>1
      <4>3. (j - 1) + 1 = j
        OBVIOUS
      <4>4. t.wire[j - 1] = m
        BY <2>2, <4>2, <4>3
      <4> QED
        BY <4>1, <4>4 DEF Said
    <3> QED
      BY <3>1, <3>2
  <2> QED
    BY <2>1, <2>2 DEF Said
<1>3. \A i \in 1..Len(t.wire) : \A m \in Before(t.wire[i]) : Said(fs, t.wire, i - 1, m)
  <2> SUFFICES ASSUME NEW i \in 1..n - 1, NEW m \in Before(t.wire[i])
               PROVE  Said(fs, t.wire, i - 1, m)
    BY <1>1
  <2>1. i + 1 \in 1..n /\ i \in 1..n /\ m \in Before(s.wire[i + 1]) /\ s.wire[i + 1] \in Names
    BY <1>1
  <2>2. m \in Names
    BY <2>1, BeforeAreNames
  <2>3. Said(es, s.wire, (i + 1) - 1, m)
    BY <2>1 DEF Streams
  <2>4. (i + 1) - 1 = i
    OBVIOUS
  <2> QED
    BY <1>2, <2>1, <2>2, <2>3, <2>4
<1>4. \A m \in Since(t.stage) : Said(fs, t.wire, Len(t.wire), m)
  <2> SUFFICES ASSUME NEW m \in Since(s.stage) PROVE Said(fs, t.wire, n - 1, m)
    BY <1>1
  <2>1. m \in Names /\ Said(es, s.wire, n, m) /\ n \in 1..n
    BY <1>1, BeforeAreNames DEF Entry, Streams
  <2> QED
    BY <1>2, <2>1
<1>5. \A i \in 1..Len(t.wire) :
        t.wire[i] = "complete" => i = Len(t.wire) /\ t.stored /\ t.link \notin {"asking", "open"}
  <2> SUFFICES ASSUME NEW i \in 1..n - 1, t.wire[i] = "complete"
               PROVE  i = n - 1 /\ s.stored /\ s.link \notin {"asking", "open"}
    BY <1>1
  <2>1. i + 1 \in 1..n /\ s.wire[i + 1] = "complete"
    BY <1>1
  <2>2. i + 1 = n /\ s.stored /\ s.link \notin {"asking", "open"}
    BY <2>1 DEF Streams
  <2> QED
    BY <1>1, <2>2
<1>6. Heard(fs, "complete") => Len(t.wire) = 0 /\ t.link \notin {"asking", "open"}
  <2> SUFFICES ASSUME Heard(fs, "complete") PROVE Len(t.wire) = 0 /\ t.link \notin {"asking", "open"}
    OBVIOUS
  <2>1. s.wire[1] = "complete"
    BY DEF Streams, Names
  <2>2. 1 \in 1..n
    BY <1>1
  <2>3. 1 = n /\ s.link \notin {"asking", "open"}
    BY <2>1, <2>2 DEF Streams
  <2> QED
    BY <1>1, <2>3
<1>7. s.link # "asking"
  BY DEF Streams
<1> QED
  BY <1>3, <1>4, <1>5, <1>6, <1>7 DEF Streams
-----------------------------------------------------------------------------
(* The steps.                                                               *)

LEMMA FreshIsEmpty ==
    ASSUME NEW verdict, NEW images
    PROVE  /\ Entry(Fresh(verdict, images))
           /\ Streams(<<>>, Fresh(verdict, images))
BY DEF Entry, Fresh, Fields, Stages, Links, Streams, Since, Heard

LEMMA NothingHeard == <<>> \in Seq(Event) /\ \A n : ~Heard(<<>>, n)
BY DEF Heard

LEMMA InitHolds == Init => Inv
<1> SUFFICES ASSUME Init PROVE Inv
  OBVIOUS
<1>1. ServerTyped
  BY FreshIsEmpty DEF Init, ServerTyped
<1>2. WireSound /\ OneReader
  BY ConsoleAssumption DEF Init, WireSound, OneReader, ConsoleAssumption
<1>3. MapSound
  BY MountedSettles DEF Init, MapSound
<1>4. PageSound
  BY NothingHeard, MountedSettles DEF Init, PageSound, Blank, Readings
<1>5. OpenedSound
  BY DEF Init, OpenedSound
<1> QED
  BY <1>1, <1>2, <1>3, <1>4, <1>5 DEF Inv

(* What is heard of a run is of a run that was asked for.                   *)
LEMMA CompleteIsSent ==
    ASSUME Inv, Heard(events, "complete")
    PROVE  /\ sent \in Requests /\ page.runId = sent
           /\ \A m \in {"run_started", "ingest", "routing", "verification", "confidence"} :
                Heard(events, m)
<1>1. \A m \in Before("complete") : Heard(events, m)
  BY DEF Inv, PageSound, Names
<1>2. Before("complete") = {"run_started", "ingest", "routing", "verification", "confidence"}
  BY DEF Before
<1>3. page.runId = sent /\ sent # 0
  BY <1>1, <1>2 DEF Inv, PageSound
<1> QED
  BY <1>1, <1>2, <1>3, ConsoleAssumption DEF Inv, OneReader, Requests, ConsoleAssumption

LEMMA StandsStill == Inv /\ UNCHANGED run => Inv'
BY DEF Inv, run, readings, ServerTyped, WireSound, OneReader, Event, PageSound, OpenedSound, MapSound

(* One entry of the server changes.                                         *)
LEMMA ServerMoves ==
    ASSUME Inv, NEW r \in Requests, NEW t, Entry(t), server' = [server EXCEPT ![r] = t],
           server[r].stored => t.stored, r \in loops => Streams(events, t),
           UNCHANGED <<running, loops, readings, map, opened>>
    PROVE  Inv'
<1>1. UNCHANGED <<running, loops, sent, page, events, map, opened>>
  BY DEF readings
<1>2. /\ ServerTyped' /\ server'[r] = t
      /\ \A q \in Requests \ {r} : server'[q] = server[q]
  BY OthersTyped DEF Inv
<1>3. loops \subseteq Requests
  BY ConsoleAssumption DEF Inv, OneReader, Requests, ConsoleAssumption
<1>4. WireSound'
  BY <1>1, <1>2, <1>3 DEF Inv, WireSound
<1>5. Heard(events, "complete") => server'[sent].stored
  BY <1>2, CompleteIsSent DEF Inv, PageSound
<1>6. OpenedSound'
  <2>1. opened # None => opened.run \in Requests
    BY DEF Inv, OpenedSound, StoredPage
  <2> QED
    BY <1>1, <1>2, <2>1 DEF Inv, OpenedSound
<1>7. PageSound'
  BY <1>1, <1>5 DEF Inv, PageSound, Event
<1> QED
  BY <1>1, <1>2, <1>4, <1>6, <1>7 DEF Inv, OneReader, MapSound

LEMMA PutIs ==
    ASSUME ServerTyped, NEW r \in Requests, NEW stage \in Stages \ {"stored"},
           NEW name \in Names, NEW link \in Links, Put(r, stage, name, link)
    PROVE  \E t : /\ Entry(t) /\ server' = [server EXCEPT ![r] = t]
                  /\ t.stage = stage /\ t.wire = Append(server[r].wire, name) /\ t.link = link
                  /\ t.stored = server[r].stored
<1> DEFINE s == server[r]
           t == [s EXCEPT !.stage = stage, !.wire = Append(@, name), !.link = link]
<1>1. Entry(s)
  BY DEF ServerTyped
<1>2. /\ t.stage = stage /\ t.wire = Append(s.wire, name) /\ t.link = link
      /\ t.stored = s.stored /\ DOMAIN t = Fields
  BY <1>1 DEF Entry, Fields
<1>3. server' = [server EXCEPT ![r] = t]
  BY DEF Put, ServerTyped
<1> HIDE DEF t
<1>4. Entry(t)
  BY <1>1, <1>2 DEF Entry
<1> QED
  BY <1>2, <1>3, <1>4
(* What a worker may send next comes after what it has sent.                *)
LEMMA FollowsOn ==
    ASSUME NEW stage \in Stages, NEW next \in Follows(stage)
    PROVE  /\ next \in Names \cap Stages /\ next \notin {"complete", "stored"}
           /\ Before(next) \subseteq Since(stage)
           /\ Since(next) \subseteq Since(stage) \cup {next}
<1>1. CASE stage = "started"
  BY <1>1 DEF Follows, Names, Stages, Before, Since
<1>2. CASE stage = "ingest"
  BY <1>2 DEF Follows, Names, Stages, Before, Since
<1>3. CASE stage \in {"routing", "step"}
  BY <1>3 DEF Follows, Names, Stages, Before, Since
<1>4. CASE stage = "verification"
  BY <1>4 DEF Follows, Names, Stages, Before, Since
<1>5. CASE stage \notin {"started", "ingest", "routing", "step", "verification"}
  BY <1>5 DEF Follows, Stages
<1> QED
  BY <1>1, <1>2, <1>3, <1>4, <1>5

(* A worker's event goes out on a wire that is read.                        *)
LEMMA PutKeeps ==
    ASSUME Inv, NEW r \in Requests, NEW stage \in Stages \ {"stored"}, NEW name \in Names,
           NEW link \in Links \ {"asking"}, Put(r, stage, name, link),
           server[r].link \in {"asking", "open"},
           Before(name) \subseteq Since(server[r].stage),
           Since(stage) \subseteq Since(server[r].stage) \cup {name},
           name = "complete" => server[r].stored /\ link # "open",
           UNCHANGED <<running, loops, readings, map, opened>>
    PROVE  Inv'
<1>1. PICK t : /\ Entry(t) /\ server' = [server EXCEPT ![r] = t]
               /\ t.stage = stage /\ t.wire = Append(server[r].wire, name) /\ t.link = link
               /\ t.stored = server[r].stored
  BY PutIs DEF Inv
<1>2. Entry(server[r])
  BY DEF Inv, ServerTyped
<1>3. r \in loops => Streams(events, t)
  <2> SUFFICES ASSUME r \in loops PROVE Streams(events, t)
    OBVIOUS
  <2>1. Streams(events, server[r])
    BY DEF Inv, WireSound
  <2> QED
    BY <1>1, <1>2, <2>1, Sends
<1> QED
  BY <1>1, <1>3, ServerMoves

LEMMA AcceptKeeps ==
    ASSUME Inv, NEW r \in Requests, Accept(r),
           UNCHANGED <<running, loops, readings, map, opened>>
    PROVE  Inv'
<1>1. r \in loops /\ server[r].link = "asking" /\ Entry(server[r]) /\ Streams(events, server[r])
  BY DEF Accept, Inv, WireSound, ServerTyped
<1>2. CASE Put(r, "started", "run_started", "open")
  <2>1. /\ Before("run_started") = {} /\ Since("started") = {"run_started"}
        /\ "started" \in Stages \ {"stored"} /\ "run_started" \in Names
        /\ "open" \in Links \ {"asking"}
    BY DEF Before, Since, Stages, Names, Links
  <2> QED
    BY <1>1, <1>2, <2>1, PutKeeps
<1>3. CASE server' = [server EXCEPT ![r].link = "refused"]
  <2> DEFINE t == [server[r] EXCEPT !.link = "refused"]
  <2>1. /\ t.wire = server[r].wire /\ t.stage = server[r].stage /\ t.stored = server[r].stored
        /\ t.link = "refused" /\ DOMAIN t = Fields
    BY <1>1 DEF Entry, Fields
  <2>2. server' = [server EXCEPT ![r] = t]
    BY <1>3 DEF Inv, ServerTyped
  <2> HIDE DEF t
  <2>3. Entry(t)
    BY <1>1, <2>1 DEF Entry, Links
  <2>4. Streams(events, t)
    BY <1>1, <2>1 DEF Streams
  <2> QED
    BY <2>1, <2>2, <2>3, <2>4, ServerMoves
<1> QED
  BY <1>2, <1>3 DEF Accept

LEMMA StageKeeps ==
    ASSUME Inv, NEW r \in Requests, Stage(r), server[r].link = "open",
           UNCHANGED <<running, loops, readings, map, opened>>
    PROVE  Inv'
<1> DEFINE s == server[r]
<1>1. Entry(s)
  BY DEF Inv, ServerTyped
<1>2. PICK next \in Follows(s.stage) :
        server' = [server EXCEPT ![r].stage = next, ![r].wire = Append(@, next),
                     ![r].steps = IF next = "step" THEN @ + 1 ELSE @]
  BY DEF Stage
<1>3. /\ next \in Names \cap Stages /\ next \notin {"complete", "stored"}
      /\ Before(next) \subseteq Since(s.stage)
      /\ Since(next) \subseteq Since(s.stage) \cup {next}
  BY <1>1, <1>2, FollowsOn DEF Entry
<1> DEFINE t == [s EXCEPT !.stage = next, !.wire = Append(@, next),
                   !.steps = IF next = "step" THEN @ + 1 ELSE @]
<1>4. /\ t.stage = next /\ t.wire = Append(s.wire, next) /\ t.link = s.link
      /\ t.stored = s.stored /\ DOMAIN t = Fields
  BY <1>1 DEF Entry, Fields
<1>5. server' = [server EXCEPT ![r] = t]
  BY <1>2 DEF Inv, ServerTyped
<1> HIDE DEF t
<1>6. Entry(t)
  BY <1>1, <1>3, <1>4 DEF Entry
<1>7. r \in loops => Streams(events, t)
  <2> SUFFICES ASSUME r \in loops PROVE Streams(events, t)
    OBVIOUS
  <2>1. Streams(events, s)
    BY DEF Inv, WireSound
  <2> QED
    BY <1>1, <1>3, <1>4, <1>6, <2>1, Sends
<1> QED
  BY <1>4, <1>5, <1>6, <1>7, ServerMoves

LEMMA StoreKeeps ==
    ASSUME Inv, NEW r \in Requests, Store(r), server[r].link = "open",
           UNCHANGED <<running, loops, readings, map, opened>>
    PROVE  Inv'
<1> DEFINE s == server[r]
           t == [s EXCEPT !.stage = "stored", !.stored = TRUE]
<1>1. Entry(s) /\ s.stage = "confidence"
  BY DEF Inv, ServerTyped, Store
<1>2. /\ t.stage = "stored" /\ t.wire = s.wire /\ t.link = s.link /\ t.stored = TRUE
      /\ DOMAIN t = Fields
  BY <1>1 DEF Entry, Fields
<1>3. server' = [server EXCEPT ![r] = t]
  BY DEF Store, Inv, ServerTyped
<1> HIDE DEF t
<1>4. Entry(t)
  BY <1>1, <1>2 DEF Entry, Stages
<1>5. r \in loops => Streams(events, t)
  <2>1. Since("stored") = Since("confidence")
    BY DEF Since
  <2>2. r \in loops => Streams(events, s)
    BY DEF Inv, WireSound
  <2> QED
    BY <1>1, <1>2, <2>1, <2>2 DEF Streams
<1> QED
  BY <1>2, <1>3, <1>4, <1>5, ServerMoves

LEMMA CompleteKeeps ==
    ASSUME Inv, NEW r \in Requests, Complete(r), server[r].link = "open",
           UNCHANGED <<running, loops, readings, map, opened>>
    PROVE  Inv'
<1>1. Entry(server[r]) /\ server[r].stage = "stored" /\ Put(r, "ended", "complete", "closed")
  BY DEF Inv, ServerTyped, Complete
<1>2. /\ Before("complete") = Since("stored") /\ Since("ended") = {}
      /\ "ended" \in Stages \ {"stored"} /\ "complete" \in Names
      /\ "closed" \in Links \ {"asking"}
  BY DEF Before, Since, Stages, Names, Links
<1> QED
  BY <1>1, <1>2, PutKeeps DEF Entry

LEMMA RaiseKeeps ==
    ASSUME Inv, NEW r \in Requests, Raise(r), server[r].link = "open",
           UNCHANGED <<running, loops, readings, map, opened>>
    PROVE  Inv'
<1> DEFINE s == server[r]
<1>1. Entry(s)
  BY DEF Inv, ServerTyped
<1>2. CASE Put(r, "ended", "error", "closed")
  <2>1. /\ Before("error") = {} /\ Since("ended") = {}
        /\ "ended" \in Stages \ {"stored"} /\ "error" \in Names
        /\ "closed" \in Links \ {"asking"}
    BY DEF Before, Since, Stages, Names, Links
  <2> QED
    BY <1>2, <2>1, PutKeeps
<1>3. CASE server' = [server EXCEPT ![r].stage = "ended", ![r].link = "closed"]
  <2> DEFINE t == [s EXCEPT !.stage = "ended", !.link = "closed"]
  <2>1. /\ t.stage = "ended" /\ t.wire = s.wire /\ t.link = "closed" /\ t.stored = s.stored
        /\ DOMAIN t = Fields
    BY <1>1 DEF Entry, Fields
  <2>2. server' = [server EXCEPT ![r] = t]
    BY <1>3 DEF Inv, ServerTyped
  <2> HIDE DEF t
  <2>3. Entry(t)
    BY <1>1, <2>1 DEF Entry, Stages, Links
  <2>4. r \in loops => Streams(events, t)
    <3>1. Since("ended") = {}
      BY DEF Since
    <3>2. r \in loops => Streams(events, s)
      BY DEF Inv, WireSound
    <3> QED
      BY <1>1, <2>1, <3>1, <3>2 DEF Streams
  <2> QED
    BY <2>1, <2>2, <2>3, <2>4, ServerMoves
<1> QED
  BY <1>2, <1>3 DEF Raise

LEMMA WorkKeeps == ASSUME Inv, NEW r \in Requests, Work(r) PROVE Inv'
BY AcceptKeeps, StageKeeps, StoreKeeps, CompleteKeeps, RaiseKeeps DEF Work

LEMMA BreakKeeps == ASSUME Inv, NEW r \in Requests, Break(r) PROVE Inv'
<1> DEFINE s == server[r]
           t == [s EXCEPT !.link = "broken"]
<1>1. Entry(s) /\ Streams(events, s)
  BY DEF Inv, ServerTyped, WireSound, Break
<1>2. /\ t.stage = s.stage /\ t.wire = s.wire /\ t.link = "broken" /\ t.stored = s.stored
      /\ DOMAIN t = Fields
  BY <1>1 DEF Entry, Fields
<1>3. server' = [server EXCEPT ![r] = t]
  BY DEF Break, Inv, ServerTyped
<1> HIDE DEF t
<1>4. Entry(t)
  BY <1>1, <1>2 DEF Entry, Links
<1>5. Streams(events, t)
  BY <1>1, <1>2 DEF Streams
<1>6. UNCHANGED <<running, loops, readings, map, opened>>
  BY DEF Break
<1> QED
  BY <1>2, <1>3, <1>4, <1>5, <1>6, ServerMoves

LEMMA SubmitKeeps == ASSUME Inv, opened = None, Submit PROVE Inv'
<1>1. loops = {} /\ sent \in 0..MaxRuns /\ sent + 1 \in Requests /\ UNCHANGED opened
  BY ConsoleAssumption DEF Inv, OneReader, Submit, Send, Requests, ConsoleAssumption
<1>2. /\ sent' = sent + 1 /\ loops' = {sent + 1} /\ running' = TRUE
      /\ page' = Blank /\ events' = <<>> /\ map' = Unmounted
  BY <1>1 DEF Submit, Send
<1>3. PICK verdict, images :
        server' = [r \in Requests |-> IF r = sent + 1 THEN Fresh(verdict, images)
                                      ELSE Fresh("none", 0)]
  BY <1>1 DEF Submit, Send
<1>4. ServerTyped' /\ Streams(<<>>, server'[sent + 1])
  BY <1>1, <1>3, FreshIsEmpty DEF ServerTyped
<1>5. WireSound' /\ OneReader'
  BY <1>1, <1>2, <1>4 DEF WireSound, OneReader, Requests
<1>6. MapSound'
  BY <1>2, MountedSettles DEF MapSound
<1>7. OpenedSound'
  BY <1>1 DEF OpenedSound
<1>8. PageSound'
  BY <1>2, NothingHeard, MountedSettles DEF PageSound, Blank, Readings
<1> QED
  BY <1>4, <1>5, <1>6, <1>7, <1>8 DEF Inv

LEMMA FinishKeeps == ASSUME Inv, NEW r \in Requests, Finish(r) PROVE Inv'
<1>1. loops' = {} /\ UNCHANGED <<sent, page, events, map, opened, server>>
  BY DEF Finish, Leave, readings, Inv, OneReader
<1> QED
  BY <1>1 DEF Inv, ServerTyped, WireSound, OneReader, Event, PageSound, OpenedSound, MapSound

LEMMA PreviewKeeps == ASSUME Inv, PreviewAnswered PROVE Inv'
<1>1. UNCHANGED <<loops, running, sent, page, events, map, opened, server>>
  BY DEF PreviewAnswered
<1> QED
  BY <1>1 DEF Inv, ServerTyped, WireSound, OneReader, Event, PageSound, OpenedSound, MapSound

LEMMA MapKeeps == ASSUME Inv, MapStep PROVE Inv'
<1>1. UNCHANGED <<loops, running, sent, page, events, opened, server>>
  BY DEF MapStep, readings
<1>2. MapGoesOn
  BY MapStepKeeps DEF Inv
<1> QED
  BY <1>1, <1>2 DEF Inv, ServerTyped, WireSound, OneReader, Event, PageSound, OpenedSound, MapGoesOn

LEMMA PermalinkKeeps == ASSUME Inv, opened = None, OpenPermalink PROVE Inv'
<1>1. /\ loops = {} /\ page.runId \in Requests /\ page.runId = sent
      /\ UNCHANGED <<running, sent, loops, server>>
      /\ page' = Blank /\ events' = <<>> /\ map' = Unmounted
      /\ opened' = [run |-> page.runId, told |-> page.answer # 0, shows |-> "reading"]
  BY ConsoleAssumption
  DEF Inv, OneReader, PageSound, OpenPermalink, Requests, Readings, ConsoleAssumption
<1>2. opened' \in StoredPage
  BY <1>1 DEF StoredPage
<1>3. opened' # None
  BY <1>2, ConsoleAssumption DEF ConsoleAssumption
<1>6. OpenedSound'
  <2>1. page.answer # 0 => server[sent].stored
    BY DEF Inv, PageSound
  <2> QED
    BY <1>1, <1>2, <2>1 DEF OpenedSound
<1>4. PageSound'
  BY <1>1, <1>3, NothingHeard DEF PageSound, Blank, Readings
<1>5. MapSound'
  BY <1>1, MountedSettles DEF MapSound
<1> QED
  BY <1>1, <1>4, <1>5, <1>6 DEF Inv, ServerTyped, WireSound, OneReader

LEMMA StoredRunKeeps == ASSUME Inv, StoredRunAnswered PROVE Inv'
<1>1. UNCHANGED <<loops, running, sent, page, events, server>>
  BY DEF StoredRunAnswered, readings
<1>2. opened # None /\ opened \in StoredPage
  BY DEF Inv, OpenedSound, StoredRunAnswered
<1>3. PICK shows \in {StoredRun(Row(opened.run)), "unavailable"} :
         /\ opened' = [opened EXCEPT !.shows = shows]
         /\ map' = IF shows = "unavailable" THEN map ELSE Ready(Mounted)
  BY DEF StoredRunAnswered
<1>4. shows \in {"trace", "empty", "unavailable"} /\ (server[opened.run].stored => shows # "empty")
  BY <1>3 DEF StoredRun, Row
<1>5. opened' \in StoredPage /\ opened' # None
  BY <1>2, <1>3, <1>4, ConsoleAssumption DEF StoredPage, ConsoleAssumption
<1>6. OpenedSound'
  BY <1>1, <1>2, <1>3, <1>4, <1>5 DEF Inv, OpenedSound, StoredPage
<1>7. MapSound'
  BY <1>3, MountedSettles, ReadySettles DEF Inv, MapSound
<1>8. PageSound'
  BY <1>1, <1>5 DEF Inv, PageSound, Event
<1> QED
  BY <1>1, <1>6, <1>7, <1>8 DEF Inv, ServerTyped, WireSound, OneReader
LEMMA CatchKeeps == ASSUME Inv, NEW r \in Requests, Catch(r) PROVE Inv'
<1> DEFINE s == server[r]
           t == [s EXCEPT !.wire = <<>>]
<1>1. /\ loops' = {} /\ r = sent /\ Entry(s) /\ page' = [page EXCEPT !.error = r]
      /\ UNCHANGED <<sent, events, map, opened>>
  BY DEF Catch, Leave, Inv, OneReader, ServerTyped
<1>2. t.stored = s.stored /\ Entry(t)
  <2>1. /\ t.stage = s.stage /\ t.wire = <<>> /\ t.link = s.link /\ t.stored = s.stored
        /\ DOMAIN t = Fields
    BY <1>1 DEF Entry, Fields
  <2> HIDE DEF t
  <2> QED
    BY <1>1, <2>1 DEF Entry
<1>3. server' = [server EXCEPT ![r] = t]
  BY DEF Catch, Inv, ServerTyped
<1> HIDE DEF t
<1>4. /\ ServerTyped' /\ server'[r] = t
      /\ \A q \in Requests \ {r} : server'[q] = server[q]
  BY <1>2, <1>3, OthersTyped DEF Inv
<1>5. /\ page' \in [Readings -> {0, sent}]
      /\ page'.runId = page.runId /\ page'.answer = page.answer
  BY <1>1 DEF Inv, PageSound, Readings
<1>6. PageSound'
  BY <1>1, <1>2, <1>4, <1>5 DEF Inv, PageSound, Event
<1>7. OpenedSound'
  <2>1. opened # None => opened.run \in Requests
    BY DEF Inv, OpenedSound, StoredPage
  <2> QED
    BY <1>1, <1>2, <1>4, <2>1 DEF Inv, OpenedSound
<1> QED
  BY <1>1, <1>4, <1>6, <1>7 DEF Inv, WireSound, OneReader, MapSound

LEMMA ReadKeeps == ASSUME Inv, NEW r \in Requests, opened = None, Read(r) PROVE Inv'
<1> DEFINE s == server[r]
           t == [s EXCEPT !.wire = Tail(@)]
           name == s.wire[1]
           e == [name |-> name, run |-> r]
<1>1. /\ r \in loops /\ r = sent /\ sent # 0 /\ loops = {r} /\ Entry(s) /\ Streams(events, s)
      /\ s.wire # <<>> /\ s.wire \in Seq(Names) /\ Len(s.wire) \in Nat \ {0}
  <2>1. r \in loops /\ r = sent /\ sent # 0 /\ loops = {r} /\ Entry(s) /\ s.wire # <<>>
    BY DEF Read, Inv, OneReader, ServerTyped
  <2>2. Streams(events, s)
    BY <2>1 DEF Inv, WireSound
  <2>3. s.wire \in Seq(Names)
    BY <2>1 DEF Entry
  <2> HIDE DEF s
  <2>4. Len(s.wire) \in Nat \ {0}
    BY <2>1, <2>3
  <2> QED
    BY <2>1, <2>2, <2>3, <2>4
<1>2. name \in Names /\ Head(s.wire) = name /\ 1 \in 1..Len(s.wire)
  BY <1>1
<1>3. /\ events' = Append(events, e) /\ UNCHANGED <<sent, loops, running, opened>>
      /\ \E abstained \in BOOLEAN : page' = Told(r, name, abstained)
      /\ map' = MapAfter(name)
  BY <1>2 DEF Read
<1>4. /\ t.stage = s.stage /\ t.wire = Tail(s.wire) /\ t.link = s.link /\ t.stored = s.stored
      /\ DOMAIN t = Fields
  BY <1>1 DEF Entry, Fields
<1>5. server' = [server EXCEPT ![r] = t]
  BY DEF Read, Inv, ServerTyped
<1> HIDE DEF t
<1>6. Entry(t)
  BY <1>1, <1>4 DEF Entry
<1>7. ServerTyped' /\ server'[r] = t
  BY <1>5, <1>6, OthersTyped DEF Inv
<1> HIDE DEF name
<1>8. events \in Seq(Event) /\ e \in Event /\ events' \in Seq(Event)
  BY <1>1, <1>2, <1>3 DEF Inv, PageSound, Event
<1>9. \A n \in Names : Heard(events', n) <=> (Heard(events, n) \/ n = name)
  BY <1>3, <1>8, HeardAppended
<1>10. \A m \in Before(name) : Heard(events, m)
  <2> SUFFICES ASSUME NEW m \in Before(name) PROVE Heard(events, m)
    OBVIOUS
  <2>1. Said(events, s.wire, 1 - 1, m)
    BY <1>1, <1>2 DEF Streams, name
  <2> QED
    BY <2>1 DEF Said
<1>11. WireSound'
  <2>1. Streams(events', t)
    BY <1>1, <1>4, <1>6, <1>9, Reads DEF name
  <2> QED
    BY <1>1, <1>3, <1>7, <2>1 DEF WireSound
<1>12. ~Heard(events, "complete") /\ map.list = "none"
  BY <1>1 DEF Streams, Inv, PageSound
<1>13. name = "complete" => Heard(events, "run_started") /\ t.stored
  <2>1. name = "complete" => "run_started" \in Before(name)
    BY DEF Before
  <2> QED
    BY <1>1, <1>2, <1>4, <1>10, <2>1 DEF Streams, name
<1>14. /\ page' \in [Readings -> {0, sent}]
       /\ page'.runId = IF name = "run_started" THEN sent ELSE page.runId
       /\ page'.answer = IF name = "complete" THEN sent ELSE page.answer
  <2>1. page \in [Readings -> {0, sent}]
    BY DEF Inv, PageSound
  <2> QED
    BY <1>1, <1>2, <1>3, <2>1 DEF Told, Readings, Names
<1>15. /\ MapSound'
       /\ map'.list # "none" => name = "complete"
       /\ name = "run_started" \/ map.basemap # "none" => map'.basemap # "none"
  <2>1. CASE name = "run_started"
    BY <1>3, <2>1, MountedSettles DEF MapAfter, MapSound
  <2>2. CASE name = "complete"
    <3>1. map' = Ready(map) /\ map.basemap # "none"
      BY <1>3, <1>13, <2>2 DEF MapAfter, Inv, PageSound
    <3> QED
      BY <1>12, <2>2, <3>1, ReadySettles DEF Inv, MapSound
  <2>3. CASE name \notin {"run_started", "complete"}
    <3>1. map' = map
      BY <1>3, <2>3 DEF MapAfter
    <3> QED
      BY <1>12, <2>3, <3>1 DEF Inv, MapSound
  <2> QED
    BY <2>1, <2>2, <2>3
<1>16. PageSound'
  <2>1. \A n \in Names : Heard(events', n) => \A m \in Before(n) : Heard(events', m)
    <3> SUFFICES ASSUME NEW n \in Names, Heard(events', n), NEW m \in Before(n)
                 PROVE  Heard(events', m)
      OBVIOUS
    <3>1. Heard(events, m) /\ m \in Names
      BY <1>9, <1>10, BeforeAreNames DEF Inv, PageSound
    <3> QED
      BY <1>9, <3>1
  <2>2. /\ Heard(events', "run_started") <=> (Heard(events, "run_started") \/ name = "run_started")
        /\ Heard(events', "complete") <=> name = "complete"
    BY <1>9, <1>12 DEF Names
  <2>3. Event' = Event
    BY <1>3 DEF Event
  <2>4. page'.answer # 0 => name = "complete"
    BY <1>12, <1>14 DEF Inv, PageSound
  <2>5. Heard(events', "run_started") => page'.runId = sent' /\ sent' # 0
    BY <1>1, <1>3, <1>14, <2>2 DEF Inv, PageSound
  <2>6. Heard(events', "run_started") => map'.basemap # "none"
    BY <1>15, <2>2 DEF Inv, PageSound
  <2>7. Heard(events', "complete") => server'[sent'].stored
    BY <1>1, <1>3, <1>7, <1>13, <2>2
  <2> QED
    BY <1>3, <1>8, <1>14, <1>15, <2>1, <2>2, <2>3, <2>4, <2>5, <2>6, <2>7 DEF PageSound
<1>17. OpenedSound' /\ OneReader'
  BY <1>3 DEF Inv, OpenedSound, OneReader
<1> QED
  BY <1>7, <1>11, <1>15, <1>16, <1>17 DEF Inv

LEMMA NextKeeps == Inv /\ [Next]_vars => Inv'
<1> SUFFICES ASSUME Inv, [Next]_vars PROVE Inv'
  OBVIOUS
<1>1. CASE UNCHANGED run
  BY <1>1, StandsStill
<1>2. ASSUME opened = None, Submit PROVE Inv'
  BY <1>2, SubmitKeeps
<1>3. ASSUME NEW r \in Requests, opened = None, Read(r) \/ Finish(r) \/ Catch(r) PROVE Inv'
  BY <1>3, ReadKeeps, FinishKeeps, CatchKeeps
<1>4. CASE PreviewAnswered
  BY <1>4, PreviewKeeps
<1>5. ASSUME opened = None, OpenPermalink PROVE Inv'
  BY <1>5, PermalinkKeeps
<1>6. CASE StoredRunAnswered
  BY <1>6, StoredRunKeeps
<1>7. CASE MapStep
  BY <1>7, MapKeeps
<1>8. ASSUME NEW r \in Requests, Work(r) \/ Break(r) PROVE Inv'
  BY <1>8, WorkKeeps, BreakKeeps
<1> QED
  BY <1>1, <1>2, <1>3, <1>4, <1>5, <1>6, <1>7, <1>8 DEF Next, vars

LEMMA Always == Spec => []Inv
BY InitHolds, NextKeeps, PTL DEF Spec

-----------------------------------------------------------------------------
(* The results.                                                             *)

(* Every reading on the page, and every line of its trace, is of the run    *)
(* that was asked for last (page.tsx:474).                                  *)
THEOREM OnePage == Spec => []OneRunOnPage
<1>1. Inv => OneRunOnPage
  <2> SUFFICES ASSUME Inv PROVE OneRunOnPage
    OBVIOUS
  <2>1. events \in Seq(Event) /\ page \in [Readings -> {0, sent}]
    BY DEF Inv, PageSound
  <2>2. \A i \in DOMAIN events : events[i] \in Event
    BY <2>1
  <2> QED
    BY <2>1, <2>2 DEF OneRunOnPage, Event
<1> QED
  BY <1>1, Always, PTL

(* Overlays and permalinks are asked of a run whose trace is in the store   *)
(* (MapView.tsx:113, page.tsx:373).                                         *)
THEOREM ToldOnceStored == Spec => []ToldIsStored
<1>1. Inv => ToldIsStored
  <2> SUFFICES ASSUME Inv PROVE ToldIsStored
    OBVIOUS
  <2>1. opened = None /\ map.list # "none" => Heard(events, "complete")
    BY DEF Inv, PageSound
  <2>2. Heard(events, "complete") => page.runId # 0 /\ server[page.runId].stored
    BY CompleteIsSent DEF Inv, PageSound, OneReader, Requests
  <2> QED
    BY <2>1, <2>2 DEF ToldIsStored, Inv, OpenedSound
<1> QED
  BY <1>1, Always, PTL

(* The overlay drawn is the one highlighted, or on its way, or an error is  *)
(* shown (MapView.tsx:270).                                                 *)
THEOREM DrawnIsHighlighted == Spec => []LayerAgrees
<1>1. Inv => LayerAgrees
  BY DEF Inv, MapSound, Settled, LayerAgrees, LayerAgreesWithHighlight
<1> QED
  BY <1>1, Always, PTL
Kinds == {"INGEST", "ROUTING", "STEP", "VERIFICATION", "CONFIDENCE", "ERROR", "COMPLETE"}
DoneNodes == [kind : Kinds, state : {"done"}, read : BOOLEAN]

LEMMA NodeIsDone ==
    ASSUME NEW kind \in Kinds, NEW has \in BOOLEAN, has, NEW next, NEW live
    PROVE  Node(kind, has, next, live) \in DoneNodes
BY DEF Node, Settle, DoneNodes

LEMMA StepsAreCounted == ASSUME Inv PROVE StepsHeard(events) \in Nat
<1> DEFINE steps == {i \in DOMAIN events : events[i].name = "step"}
<1>1. Len(events) \in Nat /\ DOMAIN events = 1..Len(events)
  BY DEF Inv, PageSound
<1>2. IsFiniteSet(1..Len(events)) /\ steps \in SUBSET (1..Len(events))
  BY <1>1, FS_Interval
<1>3. IsFiniteSet(steps)
  <2> HIDE DEF steps
  <2> QED
    BY <1>2, FS_Subset
<1> QED
  BY <1>3, FS_CardinalityType DEF StepsHeard

(* The nodes of a board whose events were all heard are done.               *)
LEMMA AllDone ==
    ASSUME Inv, Heard(events, "complete"), StepsHeard(events) > 0
    PROVE  BuildBoard(events, running) \in Seq(DoneNodes)
<1> DEFINE n == StepsHeard(events)
<1>1. n \in Nat \ {0} /\ \A name : Heard(events, name) \in BOOLEAN
  BY StepsAreCounted DEF Heard
<1>2. \A m \in {"ingest", "routing", "verification", "confidence"} : Heard(events, m)
  BY CompleteIsSent
<1>3. Opening(events, running) \in Seq(DoneNodes)
  <2>1. /\ Node("INGEST", Heard(events, "ingest"), TRUE, running) \in DoneNodes
        /\ Node("ROUTING", Heard(events, "routing"), Heard(events, "ingest"), running) \in DoneNodes
    BY <1>1, <1>2, NodeIsDone DEF Kinds
  <2>2. \A a, b \in DoneNodes : <<a, b>> \in Seq(DoneNodes)
    OBVIOUS
  <2> QED
    BY <2>1, <2>2 DEF Opening
<1>4. StepNodes(events, running) \in Seq(DoneNodes)
  <2>1. StepNodes(events, running) =
          [i \in 1..n |-> Node("STEP", i <= n, i = n + 1 /\ Heard(events, "routing"), running)]
    BY <1>1 DEF StepNodes
  <2>2. \A i \in 1..n :
          Node("STEP", i <= n, i = n + 1 /\ Heard(events, "routing"), running) \in DoneNodes
    <3> SUFFICES ASSUME NEW i \in 1..n
                 PROVE  Node("STEP", i <= n, i = n + 1 /\ Heard(events, "routing"), running)
                          \in DoneNodes
      OBVIOUS
    <3>1. (i <= n) \in BOOLEAN /\ i <= n
      BY <1>1
    <3> HIDE DEF n
    <3> QED
      BY <3>1, NodeIsDone DEF Kinds
  <2> HIDE DEF n
  <2> QED
    BY <1>1, <2>1, <2>2
<1>5. Closing(events, running) \in Seq(DoneNodes)
  <2> DEFINE ended == Heard(events, "complete") \/ Heard(events, "error")
             last == IF Heard(events, "error") THEN "ERROR" ELSE "COMPLETE"
  <2>1. last \in Kinds /\ ended \in BOOLEAN /\ ended
    BY <1>1 DEF Kinds
  <2>2. /\ Node("VERIFICATION", Heard(events, "verification"), n > 0, running) \in DoneNodes
        /\ Node("CONFIDENCE", Heard(events, "confidence"), Heard(events, "verification"), running)
             \in DoneNodes
    BY <1>1, <1>2, NodeIsDone DEF Kinds
  <2>3. Node(last, ended, Heard(events, "verification"), running) \in DoneNodes
    <3> HIDE DEF last, ended
    <3> QED
      BY <2>1, NodeIsDone
  <2> QED
    BY <2>2, <2>3 DEF Closing
<1> HIDE DEF n
<1> QED
  BY <1>3, <1>4, <1>5 DEF BuildBoard

(* A run with a step that was told to its end lights every node, and the    *)
(* rail says so (Pipeline.tsx:295).                                         *)
THEOREM BoardIsLit == Spec => []BoardPlaysOut
<1>1. Inv => BoardPlaysOut
  <2> SUFFICES ASSUME Inv, Heard(events, "complete"), StepsHeard(events) > 0
               PROVE  /\ \A i \in DOMAIN BuildBoard(events, running) :
                           DisplayState(i, BuildBoard(events, running), running) = "done"
                      /\ Phase(events, running) \in {"complete", "error"}
    BY DEF BoardPlaysOut
  <2> DEFINE board == BuildBoard(events, running)
             n == Len(board)
  <2>1. board \in Seq(DoneNodes)
    BY AllDone
  <2> HIDE DEF board
  <2>2. n \in Nat /\ DOMAIN board = 1..n /\ \A i \in 1..n : board[i].state = "done"
    <3>1. n \in Nat /\ DOMAIN board = 1..n /\ \A i \in 1..n : board[i] \in DoneNodes
      BY <2>1
    <3> HIDE DEF n
    <3> QED
      BY <3>1 DEF DoneNodes
  <2>3. {i \in DOMAIN board : board[i].state # "idle"} = 1..n
    BY <2>2
  <2>4. Reached(board) = n
    <3> HIDE DEF n
    <3>1. Cardinality(1..n) = n
      BY <2>2, FS_Interval
    <3> QED
      BY <2>3, <3>1 DEF Reached
  <2>5. \A i \in DOMAIN board : DisplayState(i, board, running) = "done"
    BY <2>2, <2>4 DEF DisplayState
  <2>6. Phase(events, running) \in {"complete", "error"}
    BY DEF Phase
  <2> QED
    BY <2>5, <2>6 DEF board
<1> QED
  BY <1>1, Always, PTL
=============================================================================
