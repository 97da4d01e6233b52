------------------------------- MODULE Replies -------------------------------
(***************************************************************************)
(* What the API answers about a run afterwards: satquery/api/main.py, from  *)
(* `get_preview' to `get_run'.  A row of the store is                       *)
(*   known  is there one                                                   *)
(*   trace  does it have its trace, which it gets when the run completes    *)
(* An image of the run, or a raster it wrote, is on disk or not, and opens, *)
(* is placed on the ground and has a valid pixel or not.                    *)
(***************************************************************************)
EXTENDS Integers

Files == [onDisk : BOOLEAN, opens : BOOLEAN, crs : BOOLEAN, valid : BOOLEAN]

HasTrace(row) == row.known /\ row.trace

(* `get_preview', of a role the run has: what the tools were shown of it.   *)
GetPreview(row, image) ==
    IF ~HasTrace(row) THEN 404
    ELSE IF ~image.onDisk THEN 410
    ELSE IF ~image.opens THEN 500
    ELSE 200

(* `get_overlay', of a raster the run wrote: the picture with its extent.   *)
GetOverlay(row, artifact) ==
    IF ~HasTrace(row) THEN 404
    ELSE IF ~artifact.onDisk THEN 410
    ELSE IF ~artifact.opens THEN 500
    ELSE IF ~artifact.crs \/ ~artifact.valid THEN 422
    ELSE 200

(* `list_overlays'.                                                         *)
ListOverlays(row) == IF HasTrace(row) THEN 200 ELSE 404

(* `get_run', and what the page of a stored run makes of it: a row without  *)
(* its trace is itself taken for one, in which nothing is found.            *)
StoredRun(row) ==
    IF ~row.known THEN "unavailable" ELSE IF row.trace THEN "trace" ELSE "empty"
=============================================================================
