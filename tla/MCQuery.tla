------------------------------ MODULE MCQuery -------------------------------
(* Rasters, sentences and parameters for TLC.                               *)
EXTENDS QueryPipeline

File(bands, count, crs, lo, hi, date) ==
    [opens |-> TRUE, bands |-> bands, count |-> count, pols |-> {}, sar |-> FALSE,
     speckle |-> FALSE, crs |-> crs, lo |-> lo, hi |-> hi, date |-> date, gsd |-> 10,
     slant |-> FALSE, empty |-> 0, cloud |-> 0, pixels |-> 512]

Four == {"BLUE", "GREEN", "RED", "NIR"}

Photo   == File({}, 3, "plain", 0, 100, 0)
Early   == File(Four, 4, "projected", 0, 100, 1)
Late    == File(Four, 4, "projected", 10, 110, 2)
Apart   == File(Four, 4, "projected", 25, 125, 2)
Wide    == File(Canonical, 6, "projected", 0, 100, 2)
Colour  == File({"BLUE", "GREEN", "RED"}, 3, "projected", 0, 100, 1)
Cloudy  == [Early EXCEPT !.cloud = 30, !.empty = 30]
Lost    == File(Four, 4, "lost", 0, 100, 1)
Broken  == [Photo EXCEPT !.opens = FALSE]
Radar   == [File({}, 2, "projected", 0, 100, 1) EXCEPT !.pols = {"VV", "VH"}, !.sar = TRUE]
FarRadar == [Radar EXCEPT !.lo = 40, !.hi = 140]

(* Products: four bands, three of four of which one is damaged, a radar in    *)
(* two polarisations, one in beams, and a directory without rasters.         *)
OneBand == File({}, 1, "projected", 0, 100, 0)
Ruined  == [OneBand EXCEPT !.opens = FALSE]
Product(layout, files, radar) ==
    [layout |-> layout, files |-> files, radar |-> radar, slant |-> FALSE]
FourBands  == Product("mx", [n \in 1 .. 4 |-> OneBand], FALSE)
ThreeBands == Product("mx", [n \in 2 .. 4 |-> IF n = 4 THEN Ruined ELSE OneBand], FALSE)
TwoPols    == Product("eos04", [p \in {"HH", "VV"} |-> IF p = "VV" THEN Ruined ELSE OneBand], TRUE)
Beams      == [TwoPols EXCEPT !.slant = TRUE]
Bare       == Product("other", <<>>, FALSE)

Request(files, benchmark, lite, given) ==
    [files |-> files, benchmark |-> benchmark, lite |-> lite, given |-> given]

(* A pair of four-band dates given in the wrong order, a radar over an       *)
(* optical image, pairs that overlap too little, a pair whose first date     *)
(* lacks bands, and inputs that fail.                                        *)
MCInputs ==
    {<<>>, <<Broken>>, <<Lost>>, <<Photo>>, <<Cloudy>>, <<Wide>>, <<Late, Early>>,
     <<Early, Apart>>, <<Colour, Wide>>, <<Radar, Early>>, <<Early, FarRadar>>,
     <<Early, Late, Wide>>, <<FourBands>>, <<ThreeBands>>, <<TwoPols, FourBands>>, <<Beams>>,
     <<Bare>>}

IllegalValue == {[tool |-> "rs_vqa_v1", param |-> <<"answer_mode", FALSE>>]}
LegalValue   == {[tool |-> "change_mask_v1", param |-> <<"change_threshold", TRUE>>]}

MCRequests ==
    {Request(files, FALSE, lite, {}) : files \in MCInputs, lite \in BOOLEAN}
    \cup {Request(<<Lost>>, TRUE, FALSE, {}), Request(<<Photo>>, FALSE, FALSE, IllegalValue),
          Request(<<Early, Late>>, FALSE, FALSE, LegalValue)}

ChangeRequests == {Request(<<Early, Late>>, FALSE, FALSE, {})}

MCAnswers ==
    {<<Sentence("prose", {Part(FALSE, {}, {"vegetation", "water"})}), Saying("prose")>>,
     <<Sentence("prose", {Part(TRUE, {<<"vegetation", 40>>}, {"vegetation"})})>>,
     <<Saying("cannot answer"), Saying("carries no location")>>}

PlainAnswers == {<<Saying("prose")>>}

MCFavourites ==
    {"SINGLE_GROUND", "TEMPORAL_CHANGE_VQA", "XMODAL_JOINT_EXTRACT", Clarify}

MCPlaces == {{"water"}}
=============================================================================
