------------------------------ MODULE Evidence ------------------------------
(***************************************************************************)
(* What an answer claims, what was measured, and whether to show it: claim  *)
(* extraction and verification, the entailment gate, the three components   *)
(* of confidence, and the abstention policy.  Fractions and scores are per  *)
(* cent.                                                                    *)
(*                                                                          *)
(* An answer is a sequence of sentences.  What matters of a sentence is     *)
(*   text    what it is, for the rest of the pipeline                       *)
(*   short   under eight characters: not a sentence to the gate             *)
(*   parts   what lies between full stops, semicolons and newlines; for     *)
(*           each, whether a percentage occurs in it, the subjects it       *)
(*           attributes percentages to, and the subjects its words name     *)
(***************************************************************************)
EXTENDS Integers, Sequences, FiniteSetsExt, Ingest, Subsequences

Subjects == {"vegetation", "water", "built_up"}

Part(percent, fractions, named) ==
    [percent |-> percent, fractions |-> fractions, named |-> named]

Sentence(text, parts) == [text |-> text, short |-> FALSE, parts |-> parts]

(* What a sentence may be: what a model writes, what the parts of the       *)
(* pipeline write, and the two that `_location_disclosure' looks for.       *)
Texts ==
    {"prose", "cannot answer", "carries no location", "coordinates",
     "stub", "no class asserted", "classes", "no class identified", "fused", "agreed",
     "changed", "measured change", "labels", "indices", "no dominant class", "may overlap",
     "localised", "none localised", "raster", "no raster", "no fusion",
     "location", "no georeferencing", "place", "every sentence contradicted the indices"}

Sentences ==
    [text : Texts, short : BOOLEAN,
     parts : SUBSET [percent : BOOLEAN, fractions : SUBSET (Subjects \X Int),
                     named : SUBSET Subjects]]

(* A sentence that claims nothing an index measures.                        *)
Saying(text) == Sentence(text, {})

(* A sentence whose words name these subjects.                              *)
Naming(text, subjects) == Sentence(text, {Part(FALSE, {}, subjects)})

-----------------------------------------------------------------------------
(* Claims.                                                                  *)

Claim(kind, subject, value) == [kind |-> kind, subject |-> subject, value |-> value]

(* `extract_claims': a part with a percentage makes the claims about the    *)
(* subjects its percentages are nearest to; one without claims the presence *)
(* of whatever its words name.                                              *)
Claims(s) ==
    UNION {IF p.percent
           THEN {Claim("fraction", f[1], f[2]) : f \in p.fractions}
           ELSE {Claim("presence", n, 0) : n \in p.named} : p \in s.parts}

(* `_measure': the first index of SUBJECT_INDICES the engine computed.      *)
MeasuredBy(subject, measured) ==
    LET has == DOMAIN measured
    IN CASE subject = "vegetation" -> {"ndvi"} \cap has
         [] subject = "water" ->
              IF "mndwi" \in has THEN {"mndwi"} ELSE {"ndwi"} \cap has
         [] subject = "built_up" ->
              IF "ndbi" \in has THEN {"ndbi"} ELSE {"builtup_proxy"} \cap has

Checkable(c, measured) == MeasuredBy(c.subject, measured) # {}

(* A presence wants five per cent of the scene; a fraction agrees within    *)
(* ten points, contradicts from twenty-five, and falls off in between.      *)
Agrees(c, found) ==
    LET error == IF c.value > found THEN c.value - found ELSE found - c.value
    IN IF c.kind = "presence" THEN (IF found >= 5 THEN 100 ELSE 30)
       ELSE IF error <= 10 THEN 100
       ELSE IF error >= 25 THEN 0
       ELSE 100 - (100 * (error - 10)) \div 15

(* `verify_claim': neutral when nothing measures the subject, capped when   *)
(* only the proxy does.                                                     *)
Agreement(c, measured) ==
    IF ~Checkable(c, measured) THEN 50
    ELSE LET x == CHOOSE n \in MeasuredBy(c.subject, measured) : TRUE
         IN Least(Agrees(c, measured[x].pct), IF x = "builtup_proxy" THEN 70 ELSE 100)

-----------------------------------------------------------------------------
(* The gate.                                                                *)

(* Mutant: a sentence is judged by its best claim.                          *)
JudgedMutant(s, measured) ==
    {c \in Claims(s) : /\ Checkable(c, measured)
                       /\ \A d \in Claims(s) :
                            Checkable(d, measured) =>
                                Agreement(c, measured) >= Agreement(d, measured)}

(* The checkable claims a sentence is judged by: those that agree least.    *)
Judged(s, measured) ==
    {c \in Claims(s) : /\ Checkable(c, measured)
                       /\ \A d \in Claims(s) :
                            Checkable(d, measured) =>
                                Agreement(c, measured) <= Agreement(d, measured)}

Contradicted(s, measured) == \E c \in Judged(s, measured) : Agreement(c, measured) < 50

(* What the language model may decide: nothing measurable was claimed, or   *)
(* the sentence was retained for a class being there, not for how much.     *)
Undecided(s, measured) ==
    \/ Judged(s, measured) = {}
    \/ /\ ~Contradicted(s, measured)
       /\ \E c \in Judged(s, measured) : c.kind = "presence"

(* `run_gate': the sentences flagged, `doubted' being those the language    *)
(* model would.                                                             *)
Flagged(answer, measured, doubted) ==
    {i \in DOMAIN answer :
        /\ ~answer[i].short
        /\ \/ Contradicted(answer[i], measured)
           \/ i \in doubted /\ Undecided(answer[i], measured)}

Judgable(answer) == {i \in DOMAIN answer : ~answer[i].short}

NothingLeft == Saying("every sentence contradicted the indices")

(* What remains once anything is flagged: the sentences that are not, and   *)
(* of those only the ones the gate saw.                                     *)
Gated(answer, flagged) ==
    LET kept == {i \in DOMAIN answer : i \notin flagged /\ ~answer[i].short}
    IN IF flagged = {} THEN answer
       ELSE IF kept = {} THEN <<NothingLeft>>
       ELSE At(answer, kept)

-----------------------------------------------------------------------------
(* Confidence.                                                              *)

Keys == {"fraction", "presence"} \X Subjects

About(s, key) == {c \in Claims(s) : <<c.kind, c.subject>> = key}

(* The verdict recorded for a kind and a subject is that of the last        *)
(* sentence that has one.                                                   *)
Recorded(answer, key, measured) ==
    LET last == CHOOSE i \in DOMAIN answer :
                    /\ About(answer[i], key) # {}
                    /\ \A j \in i + 1 .. Len(answer) : About(answer[j], key) = {}
    IN Agreement(CHOOSE c \in About(answer[last], key) : TRUE, measured)

(* `physics_agreement' over the thresholds and the verdicts: the sum of the *)
(* scores and how many they are, 100 of 1 when there is nothing to score.   *)
Physics(answer, measured) ==
    LET keys == {k \in Keys : \E i \in DOMAIN answer : About(answer[i], k) # {}}
        n == Cardinality(keys) + Cardinality(DOMAIN measured)
    IN IF n = 0 THEN [sum |-> 100, n |-> 1]
       ELSE [sum |-> MapThenSumSet(LAMBDA k : Recorded(answer, k, measured), keys)
                     + MapThenSumSet(LAMBDA x : measured[x].threshold, DOMAIN measured),
             n |-> n]

(* `input_quality'.                                                         *)
Quality(checks) == Most(0, 100 - 15 * Count(checks, "WARN") - 50 * Count(checks, "FAIL"))

(* A final score is kept as the cube of the geometric mean, times n: zero if *)
(* any component is zero.                                                   *)
Score(model, physics, quality) ==
    [cube |-> IF model <= 0 \/ physics.sum <= 0 \/ quality <= 0 THEN 0
              ELSE model * physics.sum * quality,
     n |-> physics.n]

Below(score, pct) == score.cube < pct * pct * pct * score.n

(* `min(final, STUB_CONFIDENCE_CAP)'.                                       *)
Capped(score) ==
    IF Below(score, 44) THEN score ELSE [score EXCEPT !.cube = 44 * 44 * 44 * score.n]

(* `compute_confidence': capped when a placeholder ran and when no learned  *)
(* tool that ran claimed anything.                                          *)
Confidence(model, physics, quality, stubbed, unclaimed) ==
    IF stubbed \/ unclaimed THEN Capped(Score(model, physics, quality))
    ELSE Score(model, physics, quality)

Band(score) ==
    IF Below(score, 45) THEN "LOW" ELSE IF Below(score, 75) THEN "MEDIUM" ELSE "HIGH"

(* `min(components, key=components.get)', in the order of the components.   *)
Limiting(model, physics, quality) ==
    IF model * physics.n <= physics.sum /\ model <= quality THEN "model"
    ELSE IF physics.sum <= quality * physics.n THEN "agreement" ELSE "input_quality"

-----------------------------------------------------------------------------

(* `decide': the most specific cause wins.                                  *)
Trigger(r) ==
    CASE r.blocking # {}    -> "input_validation"
      [] r.degraded         -> "profile_degraded"
      [] r.failure          -> "tool_failure"
      [] r.clarify          -> "routing"
      [] r.judged > 0 /\ r.flagged = r.judged -> "no_supported_content"
      [] Below(r.final, 25) -> "low_confidence"
      [] r.quality < 50     -> "low_confidence"
      [] OTHER              -> "none"

=============================================================================
