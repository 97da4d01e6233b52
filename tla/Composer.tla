------------------------------ MODULE Composer ------------------------------
(***************************************************************************)
(* The composer of the console: the files attached, the probe that locates  *)
(* them, and the area drawn on its picture.  components/QueryComposer.tsx   *)
(* and AreaPicker.tsx.  Nothing cancels a probe: its answer is about the    *)
(* files it was asked for, whatever is attached by then.                    *)
(***************************************************************************)
EXTENDS Upload

CONSTANTS
    Picks,             \* what one pick or drop may bring: sequences of files
    Drags,             \* the boxes a user may drag
    AUTO_PROBE_BYTES,
    MaxChanges         \* bound on changes of the attachments

ASSUME ComposerAssumption == AUTO_PROBE_BYTES \in Nat /\ MaxChanges \in Nat

VARIABLES
    files,    \* the attachments
    aoi,      \* the area a run would be sent
    probe,    \* the scenes the picker shows
    probing,  \* is a probe thought to be on its way
    asked,    \* the probes on their way
    changes

composer == <<files, aoi, probe, probing, asked, changes>>

ComposerInit ==
    /\ files = <<>> /\ aoi = None /\ probe = None
    /\ probing = FALSE /\ asked = {} /\ changes = 0

Bytes(fs) == FoldLeft(LAMBDA n, f : n + f.bytes, 0, fs)

(* `runProbe'.                                                              *)
Ask(fs) ==
    /\ asked' = asked \cup {[at |-> changes', of |-> fs]}
    /\ probing' = TRUE

(* The effect of `files': the area and the picture go, and what is small    *)
(* enough is probed at once.                                                *)
FilesChange(next) ==
    /\ changes < MaxChanges
    /\ changes' = changes + 1
    /\ files' = next /\ aoi' = None /\ probe' = None
    /\ IF next # <<>> /\ Bytes(next) <= AUTO_PROBE_BYTES
       THEN Ask(next) ELSE UNCHANGED <<asked, probing>>

(* `addFiles', by a pick or a drop: what is there already or too large is   *)
(* left out, and so is what is too many.  Too much in total is only said.   *)
AddFiles(incoming) ==
    LET Take(next, f) == IF Contains(next, f) \/ f.bytes > MAX_UPLOAD_BYTES
                         THEN next ELSE Append(next, f)
        next == FoldLeft(Take, files, incoming)
    IN FilesChange(SubSeq(next, 1, Min({Len(next), MAX_UPLOAD_FILES})))

RemoveFile(i) == FilesChange(RemoveAt(files, i))

(* `Show on map', for what was not probed by itself.                        *)
ShowOnMap(running) ==
    /\ files # <<>> /\ probe = None /\ ~running /\ ~probing
    /\ UNCHANGED changes
    /\ Ask(files)
    /\ UNCHANGED <<files, aoi, probe>>

(* A probe is answered, refused or lost.  Any answer ends `probing'.        *)
ProbeAnswered(p) ==
    /\ asked' = asked \ {p}
    /\ probing' = FALSE
    /\ \/ /\ Probe(p.of) # None
          /\ probe' = Probe(p.of)
       \/ UNCHANGED probe
    /\ UNCHANGED <<files, aoi, changes>>

-----------------------------------------------------------------------------
(* The picker.                                                              *)
Located == {k \in DOMAIN probe :
              probe[k].georeferenced /\ probe[k].box # None}

(* `footprint': the union of the located scenes, though what is drawn has   *)
(* to lie on each.                                                          *)
Footprint == Hull({probe[k].box : k \in Located})

(* `minSpanDeg': fewer pixels than the API takes, by the shorter side of a  *)
(* scene.                                                                   *)
TooSmall(box) ==
    \E k \in Located :
        LET s == probe[k]
            side == Min({Across(s.box), Along(s.box)})
            pixels == Min({Across(s.box) * s.density[1], Along(s.box) * s.density[2]})
        IN Min({Across(box), Along(box)}) * pixels < MIN_AOI_PX * side

(* `drawend': clipped to the footprint; what lies off it changes nothing,   *)
(* what is too small takes the area away.                                   *)
Draw(drag) ==
    /\ probe # None /\ Located # {}
    /\ LET box == Meet(drag, Footprint)
       IN /\ ~Empty(box)
          /\ aoi' = IF TooSmall(box) THEN None ELSE box
    /\ UNCHANGED <<files, probe, probing, asked, changes>>

(* The cross on the area, or `Use whole scene'.                             *)
ClearArea ==
    /\ aoi # None
    /\ aoi' = None
    /\ UNCHANGED <<files, probe, probing, asked, changes>>

ComposerStep(running) ==
    \/ \E incoming \in Picks : AddFiles(incoming)
    \/ \E i \in DOMAIN files : RemoveFile(i)
    \/ ShowOnMap(running)
    \/ \E p \in asked : ProbeAnswered(p)
    \/ \E drag \in Drags : Draw(drag)
    \/ ClearArea
=============================================================================
