------------------------------- MODULE Upload -------------------------------
(***************************************************************************)
(* What the API makes of the files of a request before any pipeline runs:  *)
(* their grouping into images, the limits, the crop to an area, and what   *)
(* /probe tells of a scene.  satquery/api/main.py.                          *)
(*                                                                         *)
(* A file is                                                               *)
(*   name    a number in the order of names                                *)
(*   dir     the directory the client gave with it, or ""                  *)
(*   vendor  is its name one of a band or polarisation of a product        *)
(*   bytes   its size                                                      *)
(*   raster  what is in it, or None when it is not named like a raster      *)
(* A raster opens or not, has a CRS or not, a box on the ground where that  *)
(* can be told, its pixels per degree on either axis, and a rendering or    *)
(* not.  A box is <<west, south, east, north>>.                             *)
(***************************************************************************)
EXTENDS Integers, Sequences, FiniteSets, FiniteSetsExt, SequencesExt

CONSTANTS
    MAX_UPLOAD_FILES, MAX_IMAGES, MAX_UPLOAD_BYTES, MAX_TOTAL_UPLOAD_BYTES,
    MIN_AOI_PX,
    None

ASSUME UploadAssumption ==
    /\ {MAX_UPLOAD_FILES, MAX_IMAGES, MAX_UPLOAD_BYTES, MAX_TOTAL_UPLOAD_BYTES} \subseteq Nat \ {0}
    /\ MIN_AOI_PX \in Nat

Unreadable == [readable |-> FALSE, crs |-> FALSE, box |-> None, density |-> <<0, 0>>,
               renders |-> FALSE]

-----------------------------------------------------------------------------
(* Boxes.                                                                   *)
Hull(boxes) ==
    <<Min({b[1] : b \in boxes}), Min({b[2] : b \in boxes}),
      Max({b[3] : b \in boxes}), Max({b[4] : b \in boxes})>>

Meet(a, b) ==
    <<Max({a[1], b[1]}), Max({a[2], b[2]}), Min({a[3], b[3]}), Min({a[4], b[4]})>>

Empty(b) == b[3] < b[1] \/ b[4] < b[2]

Across(b) == b[3] - b[1]
Along(b) == b[4] - b[2]

-----------------------------------------------------------------------------
(* `group_uploads': by directory if any file has one, all together if any is *)
(* named like a part of a product, else each for itself.  The groups are in  *)
(* the order of their first files.                                          *)
GroupUploads(files) ==
    LET I == DOMAIN files
        Groups == IF \E i \in I : files[i].dir # ""
                  THEN {{j \in I : files[j].dir = files[i].dir} : i \in I}
                  ELSE IF \E i \in I : files[i].vendor THEN {I}
                  ELSE {{i} : i \in I}
    IN SetToSortSeq(Groups, LAMBDA g, h : Min(g) < Min(h))

(* `_validate_upload_shape'.                                                *)
ShapeAccepted(files) ==
    /\ Len(files) <= MAX_UPLOAD_FILES
    /\ Len(GroupUploads(files)) \in 1..MAX_IMAGES

(* `_save_uploads': a group of several files keeps their names, and of two  *)
(* with one name the later is on disk.  The limits are watched while writing.*)
Fits(files) ==
    /\ \A i \in DOMAIN files : files[i].bytes <= MAX_UPLOAD_BYTES
    /\ FoldLeft(LAMBDA n, f : n + f.bytes, 0, files) <= MAX_TOTAL_UPLOAD_BYTES

SaveUploads(files) ==
    LET groups == GroupUploads(files)
        Kept(g) == {i \in g : \A j \in g : files[j].name = files[i].name => j <= i}
    IN [k \in DOMAIN groups |->
          [multi |-> Cardinality(groups[k]) > 1, files |-> {files[i] : i \in Kept(groups[k])}]]

-----------------------------------------------------------------------------
(* `_parse_aoi': degrees, and not inside out.                               *)
AoiParses(aoi) ==
    /\ -180 <= aoi[1] /\ aoi[1] < aoi[3] /\ aoi[3] <= 180
    /\ -90 <= aoi[2] /\ aoi[2] < aoi[4] /\ aoi[4] <= 90

(* `_crop_to_aoi': "ok", or what the request is refused with.  A file that  *)
(* cannot be opened is nobody's HTTPException; one with a CRS and no place   *)
(* has the identity transform, and meets no area.                           *)
CropToAoi(image, aoi) ==
    LET r == (CHOOSE f \in image.files : TRUE).raster
        window == Meet(r.box, aoi)   \* rounding to whole pixels is left out
    IN IF image.multi THEN "400"
       ELSE IF r = None \/ ~r.readable THEN "500"
       ELSE IF ~r.crs \/ r.box = None THEN "400"
       ELSE IF \/ Empty(window)
               \/ Across(window) * r.density[1] < MIN_AOI_PX
               \/ Along(window) * r.density[2] < MIN_AOI_PX
            THEN "400"
       ELSE "ok"

(* `_apply_aoi' stops at the first scene that does not take the box.        *)
ApplyAoi(images, aoi) ==
    LET refused == {k \in DOMAIN images : CropToAoi(images[k], aoi) # "ok"}
    IN IF aoi = None \/ refused = {} THEN "ok" ELSE CropToAoi(images[Min(refused)], aoi)

(* What a request is answered with before it becomes a run.                 *)
Admission(files, aoi) ==
    IF ~ShapeAccepted(files) \/ (aoi # None /\ ~AoiParses(aoi)) THEN "400"
    ELSE IF ~Fits(files) THEN "413"
    ELSE ApplyAoi(SaveUploads(files), aoi)

-----------------------------------------------------------------------------
(* `probe_uploads': of a product its first raster stands for all; what does *)
(* not open is reported as placed nowhere.  A scene with a CRS may still not *)
(* tell its box (`wgs84_bounds'), nor render.                               *)
ProbedScene(image) ==
    LET rasters == {f \in image.files : f.raster # None}
        first == CHOOSE f \in rasters : \A g \in rasters : f.name <= g.name
        r == IF rasters = {} THEN Unreadable ELSE first.raster
    IN [georeferenced |-> r.crs, box |-> r.box, density |-> r.density,
        multi |-> image.multi, preview |-> r.crs /\ r.renders]

Probe(files) ==
    IF ~ShapeAccepted(files) \/ ~Fits(files) THEN None
    ELSE LET images == SaveUploads(files) IN [k \in DOMAIN images |-> ProbedScene(images[k])]
=============================================================================
