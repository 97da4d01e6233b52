------------------------------- MODULE Ingest -------------------------------
(***************************************************************************)
(* From a file on disk to an input manifest: what `read_image' concludes    *)
(* from a raster's metadata, the configuration and roles of the images, the *)
(* checks, and which indices the manifest declares computable.              *)
(*                                                                          *)
(* A file is a record of what its headers carry:                            *)
(*   opens   it can be opened            bands   canonical band names found *)
(*   count   bands that are not alpha    pols    polarisations found        *)
(*   sar     a sensor tag names a radar  speckle one float band, skewed     *)
(*   crs     "projected", "plain" (PNG, JPEG: none possible) or "lost"      *)
(*   lo, hi  its footprint, on a line    date    0 when not recorded        *)
(*   gsd     ground sample distance      slant   not geocoded (ScanSAR SLC) *)
(*   empty, cloud, pixels                per cent, per cent, smaller side   *)
(***************************************************************************)
EXTENDS Integers, Sequences, SequencesExt, Products

Canonical == {"BLUE", "GREEN", "RED", "NIR", "SWIR1", "SWIR2"}

OpticalModalities == {"OPTICAL", "MSI", "PAN"}

(* `infer_modality': radar evidence and optical names are specific, the     *)
(* number of bands only breaks ties.                                        *)
Modality(f) ==
    CASE (f.sar \/ f.pols # {}) /\ f.bands = {} -> "SAR"
      [] f.bands # {}                           -> IF f.count >= 4 THEN "MSI" ELSE "OPTICAL"
      [] OTHER -> CASE f.count = 1 -> IF f.speckle THEN "SAR" ELSE "PAN"
                    [] f.count >= 4 -> "MSI"
                    [] OTHER        -> "OPTICAL"

(* `harmonise_bands': the names the file gives, or the convention for its   *)
(* number of bands.                                                         *)
Harmonised(f) ==
    IF f.bands # {} \/ Modality(f) \notin {"MSI", "OPTICAL"} THEN f.bands
    ELSE CASE f.count = 3 -> {"BLUE", "GREEN", "RED"}
           [] f.count = 4 -> {"BLUE", "GREEN", "RED", "NIR"}
           [] f.count = 6 -> Canonical
           [] OTHER       -> {}

(* `read_image', on a file that opens.  Cloud is not estimated on radar nor *)
(* on fewer than three bands; only a file with a CRS says where it is.      *)
ReadImage(f) ==
    [f EXCEPT !.bands = Harmonised(f),
              !.cloud = IF Modality(f) \in {"OPTICAL", "MSI"} /\ f.count >= 3
                        THEN f.cloud ELSE 0]
    @@ [modality |-> Modality(f), located |-> f.crs = "projected"]

(* `infer_config', on one or two images.                                    *)
Config(images) ==
    IF Len(images) = 1 THEN "SINGLE"
    ELSE IF /\ \E i \in 1 .. 2 : images[i].modality = "SAR"
            /\ \E i \in 1 .. 2 : images[i].modality \in OpticalModalities
         THEN "CROSSMODAL_PAIR"
         ELSE "BITEMPORAL_PAIR"

(* `assign_roles': the optical image is the reference of a cross-modal      *)
(* pair; two dated images are put in order of time; otherwise the caller's  *)
(* order stands.                                                            *)
InRoleOrder(images) ==
    IF \/ Config(images) = "CROSSMODAL_PAIR" /\ images[1].modality = "SAR"
       \/ /\ Config(images) = "BITEMPORAL_PAIR"
          /\ images[1].date # 0 /\ images[2].date # 0
          /\ images[1].date > images[2].date
    THEN Reverse(images)
    ELSE images

-----------------------------------------------------------------------------
(* The checks.  A check is a pair of its name and its status; a PASS says   *)
(* nothing downstream and is left out.                                      *)

Check(name, status) == IF status = "PASS" THEN {} ELSE {[name |-> name, status |-> status]}

Level(v, warn, fail) == IF v >= fail THEN "FAIL" ELSE IF v >= warn THEN "WARN" ELSE "PASS"

CrsPresent(img, benchmark) ==
    CASE img.crs = "projected"          -> "PASS"
      [] img.crs = "plain" \/ benchmark -> "WARN"
      [] OTHER                          -> "FAIL"

ImageChecks(img, benchmark) ==
       Check("geocoding_required", IF img.slant THEN "FAIL" ELSE "PASS")
    \cup Check("crs_present", CrsPresent(img, benchmark))
    \cup Check("nodata_fraction", Level(img.empty, 20, 80))
    \cup Check("cloud_cover", Level(img.cloud, 20, 50))
    \cup Check("min_dimension", IF img.pixels < 32 THEN "FAIL" ELSE "PASS")

Least(a, b) == IF a < b THEN a ELSE b
Most(a, b)  == IF a < b THEN b ELSE a

(* `footprint_overlap_pct': the share of the smaller footprint that the     *)
(* other covers; empty when either image does not say where it is.          *)
Overlap(a, b) ==
    IF ~a.located \/ ~b.located THEN {}
    ELSE LET both == Least(a.hi, b.hi) - Most(a.lo, b.lo)
             smaller == Least(a.hi - a.lo, b.hi - b.lo)
         IN IF both <= 0 THEN {0}
            ELSE IF smaller <= 0 THEN {}
            ELSE {Least(100, (100 * both) \div smaller)}

GsdRatio(a, b) ==
    LET fine == Least(a.gsd, b.gsd)
        coarse == Most(a.gsd, b.gsd)
    IN IF fine <= 0 \/ coarse >= 20 * fine THEN "FAIL"
       ELSE IF coarse >= 4 * fine THEN "WARN" ELSE "PASS"

PairChecks(a, b, config) ==
       Check("crs_match", IF a.located = b.located THEN "PASS" ELSE "WARN")
    \cup Check("gsd_ratio", GsdRatio(a, b))
    \cup Check("footprint_overlap",
               IF Overlap(a, b) = {} THEN "WARN"
               ELSE IF \A v \in Overlap(a, b) : v < 10 THEN "FAIL" ELSE "PASS")
    \cup Check("temporal_order",
               IF config = "BITEMPORAL_PAIR" /\ (a.date = 0 \/ b.date = 0)
               THEN "WARN" ELSE "PASS")

(* `run_checks': a list, two images can fail the same check.  The pairing    *)
(* check of a cross-modal pair cannot fail, `infer_config' having looked.    *)
RunChecks(images, config, benchmark) ==
    [i \in 1 .. Len(images) |-> ImageChecks(images[i], benchmark)]
    \o (IF Len(images) = 2 THEN <<PairChecks(images[1], images[2], config)>> ELSE <<>>)

Named(checks, status) ==
    UNION {{c.name : c \in {d \in checks[i] : d.status = status}} : i \in DOMAIN checks}

(* How many checks of a list came out so.                                   *)
Count(checks, status) ==
    FoldSeq(LAMBDA set, n : n + Cardinality({c \in set : c.status = status}), 0, checks)

-----------------------------------------------------------------------------

(* `index_availability', the optical half: an index is available when the   *)
(* bands it is made of are.                                                 *)
Available(present) ==
    {x \in {"ndvi", "ndwi", "mndwi", "ndbi"} :
        CASE x = "ndvi"  -> {"RED", "NIR"} \subseteq present
          [] x = "ndwi"  -> {"GREEN", "NIR"} \subseteq present
          [] x = "mndwi" -> {"GREEN", "SWIR1"} \subseteq present
          [] x = "ndbi"  -> {"SWIR1", "NIR"} \subseteq present}

Blank(name) ==
    [images |-> <<>>, config |-> "SINGLE",
     checks |-> <<Check(name, "FAIL")>>, available |-> {}]

(* `ingest', on at most two paths.  Nothing supplied and something that     *)
(* cannot be opened are failed checks of a manifest without images.  Bands  *)
(* are merged over the images before availability is derived.               *)
Manifest(files, benchmark) ==
    IF files = <<>> THEN Blank("inputs_present")
    ELSE IF \E i \in DOMAIN files : ~Resolve(files[i]).opens THEN Blank("file_readable")
    ELSE LET read == [i \in DOMAIN files |-> ReadImage(Resolve(files[i]))]
             images == InRoleOrder(read)
             config == Config(read)
         IN [images |-> images, config |-> config,
             checks |-> RunChecks(images, config, benchmark),
             available |-> Available(UNION {images[i].bands : i \in DOMAIN images})]

Blocking(manifest) == Named(manifest.checks, "FAIL")

=============================================================================
