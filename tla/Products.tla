------------------------------ MODULE Products ------------------------------
(***************************************************************************)
(* A vendor product is many files and one image: what `resolve' makes of a   *)
(* path (ingest/product.py).  A path is a file, as Ingest describes one, or  *)
(* a directory:                                                             *)
(*   layout  "mx"     BANDn.tif: `files' is a function of the numbers n      *)
(*           "eos04"  a file per polarisation: `files' is a function of it;  *)
(*                    `slant' if each is split into beams (the first stands  *)
(*                    for all)                                               *)
(*           "other"  the rasters found, in order                           *)
(*   radar   BAND_META.txt can be read and names a radar                     *)
(***************************************************************************)
EXTENDS Integers, Sequences, SequencesExt

CartosatMXBands == <<"BLUE", "GREEN", "RED", "NIR">>
Polarisations == <<"HH", "HV", "RH", "RV", "VH", "VV">>

(* A VRT has the size and place of its first file, and no tags.             *)
Stacked(files) ==
    IF Len(files) = 1 THEN files[1]
    ELSE [files[1] EXCEPT !.count = Len(files), !.bands = {}, !.pols = {}, !.sar = FALSE,
                          !.date = 0]

(* The names the layout gives, where there is one for each band.            *)
NamedBands(f, n, bands) == IF f.count = n THEN [f EXCEPT !.bands = bands] ELSE f

(* What the metadata says of the satellite.                                 *)
Tagged(f, product) == [f EXCEPT !.sar = @ \/ product.radar]

(* Bands are named by their place among those that are there, whatever their *)
(* numbers.  Cloud is estimated on the first four of three or more, and so   *)
(* they are read; the others are not before they are used.                  *)
CartosatMX(product) ==
    LET numbers == SetToSortSeq(DOMAIN product.files, <)
        files == [i \in DOMAIN numbers |-> product.files[numbers[i]]]
        n == Len(files)
        names == IF n <= 4 THEN {CartosatMXBands[i] : i \in 1 .. n} ELSE {}
        image == Tagged(NamedBands(Stacked(files), n, names), product)
    IN [image EXCEPT !.opens = @ /\ (n >= 3 => \A i \in 1 .. 4 \cap DOMAIN files : files[i].opens)]

(* Of a radar product only the first file is read.                          *)
EOS04(product) ==
    LET pols == SelectSeq(Polarisations, LAMBDA p : p \in DOMAIN product.files)
        files == [i \in DOMAIN pols |-> product.files[pols[i]]]
    IN [Tagged(NamedBands(Stacked(files), Len(files), {}), product)
            EXCEPT !.pols = ToSet(pols), !.slant = product.slant]

(* What it does not know it takes the first raster of.                      *)
FirstRaster(product) ==
    IF product.files = <<>> THEN [opens |-> FALSE] ELSE Head(product.files)

Resolve(path) ==
    IF "layout" \notin DOMAIN path THEN path
    ELSE CASE path.layout = "mx"    -> CartosatMX(path)
           [] path.layout = "eos04" -> EOS04(path)
           [] OTHER                 -> FirstRaster(path)
=============================================================================
