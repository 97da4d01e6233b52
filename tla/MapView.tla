------------------------------ MODULE MapView ------------------------------
(***************************************************************************)
(* The map of a run's overlays in the console, MapView.tsx: it looks for a  *)
(* basemap, asks for the list of overlays once the run can be queried, and  *)
(* fetches the one that is highlighted.  A fetch is cancelled when another  *)
(* is highlighted, but its answer still comes.  Overlays are numbered in    *)
(* the order of their keys.                                                 *)
(***************************************************************************)
EXTENDS Replies, FiniteSetsExt

CONSTANTS Overlays

ASSUME MapAssumption == Overlays \in SUBSET Nat

VARIABLE map

NoOverlay == -1
Unmounted == [basemap |-> "none", list |-> "none", layers |-> {}, active |-> NoOverlay,
              painted |-> NoOverlay, fetches |-> {}, error |-> FALSE]
Mounted == [Unmounted EXCEPT !.basemap = "probing"]

(* The effect of `active' and `basemap': the fetch before is cancelled, and *)
(* the highlighted overlay fetched if there is a map to draw on.            *)
Fetching(m) ==
    [m EXCEPT !.fetches = {[f EXCEPT !.live = FALSE] : f \in m.fetches} \cup
        (IF m.basemap = "settled" /\ m.active # NoOverlay
         THEN {[key |-> m.active, live |-> TRUE]} ELSE {})]

(* The effect of `ready': what is left of a run before goes, and the list   *)
(* is asked for.                                                            *)
Ready(m) == Fetching([m EXCEPT !.list = "asked", !.layers = {}, !.active = NoOverlay, !.error = FALSE])

(* `basemapReachable' answered or ran out of time; the overlays do not      *)
(* depend on which.                                                         *)
BasemapSettles ==
    /\ map.basemap = "probing"
    /\ map' = Fetching([map EXCEPT !.basemap = "settled"])

(* The list comes, of what is still on disk: a run's rasters lie in one     *)
(* directory that is pruned as one.  The first is highlighted.              *)
ListAnswered(row) ==
    /\ map.list = "asked"
    /\ IF ListOverlays(row) = 200
       THEN \E usable \in {Overlays, {}} :
              map' = Fetching([map EXCEPT !.list = "got", !.layers = usable,
                                 !.active = IF usable = {} THEN NoOverlay ELSE Min(usable)])
       ELSE map' = [map EXCEPT !.list = "failed", !.error = TRUE]

(* A highlighted layer clicked again is no change.                          *)
Select(k) ==
    /\ k \in map.layers /\ k # map.active
    /\ map' = Fetching([map EXCEPT !.active = k])

(* What an answer does to the map: the layer is drawn in place of the one   *)
(* before, or it is said that it could not be had.                          *)
Painted(f, row) ==
    {IF GetOverlay(row, artifact) = 200 THEN [map EXCEPT !.painted = f.key, !.error = FALSE]
     ELSE [map EXCEPT !.error = TRUE] : artifact \in Files}

(* Mutant: the answer is painted without a look at `cancelled'.             *)
LayerAnsweredMutant(f, row) ==
    \E m \in Painted(f, row) : map' = [m EXCEPT !.fetches = @ \ {f}]

(* A cancelled fetch is dropped, whatever it brings.                        *)
LayerAnswered(f, row) ==
    \E m \in (IF f.live THEN Painted(f, row) ELSE {map}) :
        map' = [m EXCEPT !.fetches = @ \ {f}]

(* The overlay on the map is the highlighted one, or one is on its way, or  *)
(* it is said what is wrong.                                                *)
LayerAgreesWithHighlight ==
    \/ map.painted = map.active
    \/ map.basemap = "probing"
    \/ \E f \in map.fetches : f.live
    \/ map.error
=============================================================================
