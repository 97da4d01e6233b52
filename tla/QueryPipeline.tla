---------------------------- MODULE QueryPipeline ----------------------------
(***************************************************************************)
(* One query through `Controller.run': ingest, routing, the steps of the    *)
(* plan, composition of the answer, the entailment gate, confidence, and    *)
(* the decision to answer or abstain.                                       *)
(*                                                                          *)
(* What rasters contain, what the models write and how sure they are, what  *)
(* the classifier makes of the query and whether a tool raises are chosen   *)
(* at the step that learns of them.                                         *)
(***************************************************************************)
EXTENDS Integers, Sequences, FiniteSets, Routing, Evidence

CONSTANTS
    Requests,    \* the files a caller may supply, whether in benchmark mode,
                 \* the tool parameters it sets, and the profile of the server
    Favourites,  \* the tasks a query may favour before legality is considered
    Shares,      \* the shares of a scene an index may measure, per cent
    Trust,       \* how far a threshold may be trusted: 40, 70 or 100
    Answers,     \* what a language model may write
    Scores,      \* how sure a model may be, per cent
    Places,      \* the subjects that occur in the words of a place
    MaxDoubts    \* how many sentences of an answer the language model doubts

ASSUME QueryAssumption ==
    /\ Shares \subseteq Nat /\ Trust \subseteq Nat /\ Scores \subseteq Nat
    /\ Answers \subseteq Seq(Sentences)
    /\ Places \subseteq SUBSET Subjects

VARIABLES
    pc,          \* the stage the run is at
    request,     \* the request
    manifest,    \* the InputManifest
    routed,      \* what the query asked for by majority, and the exclusion
    plan,        \* the validated Plan
    run,         \* the locals of `execute' while the steps run
    outcome      \* the rest of them: the answer and the verdict on it

vars == <<pc, request, manifest, routed, plan, run, outcome>>

Nothing == [x \in {} |-> 0]

Started ==
    [next |-> 1, ran |-> <<>>, told |-> <<>>, labels |-> {}, boxes |-> FALSE,
     mask |-> FALSE, measured |-> Nothing, model |-> 100, stubbed |-> FALSE,
     silent |-> FALSE, scored |-> FALSE, failure |-> {}, degraded |-> FALSE]

Fresh ==
    [answer |-> <<>>, shown |-> <<>>, judged |-> 0, flagged |-> 0,
     final |-> Score(100, [sum |-> 100, n |-> 1], 100), limiting |-> "none",
     trigger |-> "none"]

Unrouted == [asked |-> {}, excluded |-> {}]

Init ==
    /\ pc = "ingest"
    /\ request \in Requests
    /\ manifest = Blank("inputs_present")
    /\ routed = Unrouted
    /\ plan = Plan(Clarify, {Clarify}, FALSE)
    /\ run = Started
    /\ outcome = Fresh

-----------------------------------------------------------------------------
(* Ingest and routing.                                                      *)

(* `ingest' takes two paths at most, and co-registration of a pair that     *)
(* passed its checks reads the rasters outside any handler.                 *)
IngestRaises ==
    /\ pc = "ingest"
    /\ \/ Len(request.files) > 2
       \/ LET m == Manifest(request.files, request.benchmark)
          IN Len(m.images) = 2 /\ Blocking(m) = {}
    /\ pc' = "raised"
    /\ UNCHANGED <<request, manifest, routed, plan, run, outcome>>

DoIngest ==
    /\ pc = "ingest"
    /\ Len(request.files) <= 2
    /\ manifest' = Manifest(request.files, request.benchmark)
    /\ pc' = "route"
    /\ UNCHANGED <<request, routed, plan, run, outcome>>

(* The plan of `decide' is validated, the caller's parameters are merged    *)
(* into it, and it is validated again; an illegal one raises.               *)
Planned(task) ==
    LET base == Plan(task, LegalTasks(manifest), request.lite)
        full == WithParams(base, request.given)
    IN IF Legal(base) /\ Legal(full)
       THEN pc' = "steps" /\ plan' = full
       ELSE pc' = "raised" /\ plan' = plan

(* Inputs that failed a check are not put to the classifier.                *)
RouteBlocked ==
    /\ pc = "route"
    /\ Blocking(manifest) # {}
    /\ Planned(Clarify)
    /\ UNCHANGED <<request, manifest, routed, run, outcome>>

(* `select_task': p is the prediction over all tasks, q over the legal ones. *)
Route ==
    /\ pc = "route"
    /\ Blocking(manifest) = {}
    /\ \E legal \in {LegalTasks(manifest)} : \E p \in Prediction, q \in Prediction :
         /\ p.task \in Favourites
         /\ Restricted(p, q, legal)
         /\ routed' = [asked |-> IF p.sure = "majority" /\ p.evidence THEN {p.task} ELSE {},
                       excluded |-> Excluded(p, manifest)]
         /\ Planned(Selected(q, legal))
    /\ UNCHANGED <<request, manifest, run, outcome>>

-----------------------------------------------------------------------------
(* The steps.                                                               *)

Current == plan.steps[run.next]

AtStep == pc = "steps" /\ run.next <= Len(plan.steps)

OpticalImages ==
    SelectSeq(manifest.images, LAMBDA i : i.modality \in OpticalModalities)

RadarImages == SelectSeq(manifest.images, LAMBDA i : i.modality = "SAR")

BandsOf(x) ==
    CASE x = "ndvi"  -> {"RED", "NIR"}
      [] x = "ndwi"  -> {"GREEN", "NIR"}
      [] x = "mndwi" -> {"GREEN", "SWIR1"}
      [] x = "ndbi"  -> {"SWIR1", "NIR"}

(* The manifest promises bands that the first optical image does not have:  *)
(* `read_canonical_band' raises.                                            *)
LacksBands ==
    /\ Current.tool = Index
    /\ OpticalImages # <<>>
    /\ \E x \in manifest.available : ~(BandsOf(x) \subseteq OpticalImages[1].bands)

(* The indices `IndexEngine.run' records: the optical ones that are          *)
(* available, the SWIR-free proxy without NDBI, and those of a radar.        *)
Computed ==
    (IF OpticalImages = <<>> THEN {}
     ELSE manifest.available
          \cup (IF "ndvi" \in manifest.available /\ "ndbi" \notin manifest.available
                THEN {"builtup_proxy"} ELSE {}))
    \cup (IF RadarImages = <<>> \/ RadarImages[1].pols \cap {"VV", "HH"} = {} THEN {}
          ELSE {"sigma0"} \cup (IF RadarImages[1].pols \cap {"VH", "HV"} = {} THEN {}
                                ELSE {"ratio"}))

(* The radar fractions are in the payload, but no claim is checked against  *)
(* them.  The thresholds of a run are as good as each other here.           *)
Readings ==
    {[x \in Computed |-> [pct |-> IF x \in {"sigma0", "ratio"} THEN 0 ELSE share[x],
                          threshold |-> trust]] :
        share \in [Computed \ {"sigma0", "ratio"} -> Shares], trust \in Trust}

Advance(fields) ==
    LET moved == [run EXCEPT !.next = @ + 1, !.ran = Append(@, Current.tool)]
    IN run' = [f \in DOMAIN run |-> IF f \in DOMAIN fields THEN fields[f] ELSE moved[f]]

RunIndex ==
    /\ AtStep
    /\ Current.tool = Index
    /\ ~LacksBands
    /\ \E reading \in Readings : Advance([measured |-> reading])
    /\ UNCHANGED <<pc, request, manifest, routed, plan, outcome>>

(* What a learned tool returns.  `told' is its answer when its payload has  *)
(* one of _ANSWER_KEYS.                                                     *)
Result(method, score, told) ==
    [method |-> method, score |-> score, told |-> told, labels |-> {}, boxes |-> FALSE,
     mask |-> FALSE]

Stub(told) == Result("stub", 0, told)

Scored(told) == {Result("scored", c, {told}) : c \in Scores}

(* `_index_for'.                                                            *)
IndexFor(subject, bands) ==
    CASE subject = "vegetation" -> {x \in {"ndvi"} : BandsOf(x) \subseteq bands}
      [] subject = "water" -> IF BandsOf("mndwi") \subseteq bands THEN {"mndwi"}
                              ELSE {x \in {"ndwi"} : BandsOf(x) \subseteq bands}
      [] subject = "built_up" -> IF BandsOf("ndbi") \subseteq bands THEN {"ndbi"}
                                 ELSE IF BandsOf("ndvi") \subseteq bands
                                 THEN {"builtup_proxy"} ELSE {}

(* `measure_change' and `phrase': one sentence about one subject.  Its       *)
(* decimals are cut apart by `extract_claims', which leaves the subject in a *)
(* part without a percentage.                                                *)
Measured(subject) ==
    {Result("scored", IF run.measured[x].threshold = 40 THEN 60 ELSE 100,
            {<<Naming("measured change", {subject})>>}) :
        x \in {y \in IndexFor(subject, manifest.images[1].bands) :
                   IndexFor(subject, manifest.images[2].bands) # {}}}

(* The template defers with an empty answer and a confidence of zero; the   *)
(* semantic path, when installed, answers from class maps.                  *)
ChangeAnswers ==
    (UNION {Measured(s) : s \in Subjects})
    \cup {Result("scored", 0, {<<>>})}
    \cup {Result("scored", 60, {a}) : a \in Answers}

Results(tool) ==
    CASE tool \in {"rs_vqa_v1", "caption_v1", "change_caption_v1"} ->
           {Stub({<<Saying("stub")>>})} \cup UNION {Scored(a) : a \in Answers}
      [] tool = "grounding_v1" ->
           {[r EXCEPT !.boxes = TRUE] :
               r \in {Stub({})} \cup {Result("scored", c, {}) : c \in Scores}}
      [] tool = "landcover_v1" ->
           {Stub({}), Result("no_assertion", 0, {<<Saying("no class asserted")>>})}
           \cup {[r EXCEPT !.labels = {{"water"}}] :
                    r \in Scored(<<Naming("classes", {"water"})>>)}
      [] tool = "optsar_fusion_v1" ->
           {Stub({}), Result("no_assertion", 0, {<<Saying("no class identified")>>})}
           \cup Scored(<<Naming("fused", {"built_up"}), Saying("agreed")>>)
      [] tool = "change_mask_v1" ->
           {[r EXCEPT !.mask = TRUE] : r \in {Stub({})} \cup Scored(<<Saying("changed")>>)}
      [] tool = "change_vqa_v1" -> ChangeAnswers

(* A stub and a tool that asserts nothing stay out of the minimum; the last  *)
(* tool with an answer has the say.                                          *)
Contribution(r) ==
    LET counts == r.method = "scored" /\ r.score <= run.model
    IN [told |-> IF r.told = {} THEN run.told ELSE CHOOSE a \in r.told : TRUE,
        labels |-> run.labels \cup r.labels,
        boxes |-> run.boxes \/ r.boxes,
        mask |-> run.mask \/ r.mask,
        model |-> IF counts THEN r.score ELSE run.model,
        scored |-> run.scored \/ counts,
        stubbed |-> run.stubbed \/ r.method = "stub",
        silent |-> run.silent \/ r.method = "no_assertion"]

RunLearned ==
    /\ AtStep
    /\ Current.tool # Index
    /\ \E r \in Results(Current.tool) : Advance(Contribution(r))
    /\ UNCHANGED <<pc, request, manifest, routed, plan, outcome>>

Cause == IF LacksBands THEN "bands" ELSE "error"

(* A tool the plan cannot do without raised: the loop is left.              *)
Abort ==
    /\ AtStep
    /\ Current.aborts
    /\ run' = [run EXCEPT !.failure = {<<Current.tool, Cause>>},
                          !.next = Len(plan.steps) + 1]
    /\ UNCHANGED <<pc, request, manifest, routed, plan, outcome>>

(* A tool raised that the plan can do without.                              *)
FallBack ==
    /\ AtStep
    /\ ~Current.aborts
    /\ run' = [run EXCEPT !.next = @ + 1]
    /\ UNCHANGED <<pc, request, manifest, routed, plan, outcome>>

-----------------------------------------------------------------------------
(* The answer.                                                              *)

Enrichable == {"SINGLE_CAPTION", "SINGLE_LANDCOVER", "TEMPORAL_CHANGE_DESC", "SINGLE_GROUND"}

(* `describe_indices': what covers five per cent or more.                   *)
Described ==
    LET has == {s \in Subjects :
                  \E x \in MeasuredBy(s, run.measured) : run.measured[x].pct >= 5}
        share == {<<s, run.measured[x].pct>> :
                    s \in has, x \in UNION {MeasuredBy(t, run.measured) : t \in has}}
        fractions == {f \in share : \E x \in MeasuredBy(f[1], run.measured) :
                                       run.measured[x].pct = f[2]}
    IN IF has = {} THEN <<Saying("no dominant class")>>
       ELSE <<Sentence("indices", {Part(TRUE, fractions, has)})>>
            \o (IF Cardinality(has) = 1 THEN <<>> ELSE <<Saying("may overlap")>>)

Labelled ==
    IF run.labels = {} THEN <<>> ELSE <<Naming("labels", UNION run.labels)>>

(* `synthesise_answer'.                                                     *)
Synthesised ==
    CASE plan.task \in {"SINGLE_LANDCOVER", "SINGLE_CAPTION"} -> Labelled \o Described
      [] plan.task = "SINGLE_GROUND" ->
           <<Saying(IF run.boxes THEN "localised" ELSE "none localised")>>
      [] plan.task = "TEMPORAL_CHANGE_DESC" -> Described
      [] plan.task = "TEMPORAL_CHANGE_MAP" ->
           IF run.mask THEN <<Saying("raster")>> ELSE <<Saying("no raster")>> \o Described
      [] plan.task = "XMODAL_JOINT_EXTRACT" -> <<Saying("no fusion")>> \o Described
      [] OTHER -> <<>>

(* `describe_location', and `describe_place' when a gazetteer is installed. *)
Whereabouts ==
    IF ~manifest.images[1].located THEN {<<Saying("no georeferencing")>>}
    ELSE {<<Saying("location")>> \o place :
            place \in {<<>>} \cup {<<Naming("place", s)>> : s \in Places}}

(* `compose_answer'.                                                        *)
Drafts ==
    IF plan.task \in Enrichable
    THEN {run.told \o Synthesised \o where : where \in Whereabouts}
    ELSE {IF run.told = <<>> THEN Synthesised ELSE run.told}

LearnedRan == \E i \in DOMAIN run.ran : run.ran[i] # Index

(* Mutant: a task without tools is not told from one whose tools were shed. *)
UnexplainedMutant(draft) == draft = <<>> /\ run.failure = {} /\ run.model > 0

(* An empty answer that is neither a failure, nor a decline, nor a routing  *)
(* outcome, is explained rather than shown.                                 *)
Unexplained(draft) ==
    draft = <<>> /\ run.failure = {} /\ run.model > 0 /\ plan.task # Clarify

Compose ==
    /\ pc = "steps" /\ run.next > Len(plan.steps)
    /\ \E draft \in Drafts :
         /\ outcome' = [outcome EXCEPT !.answer = draft]
         /\ run' = [run EXCEPT
                      !.failure = IF Unexplained(draft) /\ LearnedRan
                                  THEN {<<"none", "no answer">>} ELSE @,
                      !.degraded = Unexplained(draft) /\ ~LearnedRan]
    /\ pc' = "gate"
    /\ UNCHANGED <<request, manifest, routed, plan>>

Unclaimed == run.silent /\ ~run.scored /\ ~run.stubbed

(* `verify_claims', `run_gate' and `compute_confidence'.  The verdicts that  *)
(* enter the confidence are those on the draft.                              *)
Gate ==
    /\ pc = "gate"
    /\ LET physics == Physics(outcome.answer, run.measured)
           quality == Quality(manifest.checks)
           scores == [outcome EXCEPT
               !.judged = Cardinality(Judgable(outcome.answer)),
               !.final = Confidence(run.model, physics, quality, run.stubbed, Unclaimed),
               !.limiting = Limiting(run.model, physics, quality)]
       IN \E doubted \in {d \in SUBSET DOMAIN outcome.answer : Cardinality(d) <= MaxDoubts} :
            \E flagged \in {Flagged(outcome.answer, run.measured, doubted)} :
              outcome' = [scores EXCEPT !.answer = Gated(@, flagged),
                                        !.flagged = Cardinality(flagged)]
    /\ pc' = "decide"
    /\ UNCHANGED <<request, manifest, routed, plan, run>>

(* `_location_disclosure': the claim a georeferenced input disproves is     *)
(* replaced by the coordinates.                                             *)
Disclosed(answer) ==
    IF /\ \E i \in DOMAIN answer : answer[i].text = "cannot answer"
       /\ \E i \in DOMAIN manifest.images : manifest.images[i].located
    THEN Append(At(answer, {i \in DOMAIN answer : answer[i].text # "carries no location"}),
                Saying("coordinates"))
    ELSE answer

Verdict ==
    Trigger([blocking |-> Blocking(manifest), degraded |-> run.degraded,
             failure |-> run.failure # {}, clarify |-> plan.task = Clarify,
             judged |-> outcome.judged, flagged |-> outcome.flagged,
             final |-> outcome.final, quality |-> Quality(manifest.checks)])

(* `decide', and the message: the reason, or the answer with the notice of  *)
(* what these inputs could not support before it.                           *)
Decide ==
    /\ pc = "decide"
    /\ \E aboutLocation \in BOOLEAN :
         LET answer == IF aboutLocation THEN Disclosed(outcome.answer) ELSE outcome.answer
         IN outcome' = [outcome EXCEPT
                !.trigger = Verdict,
                !.shown = IF Verdict # "none" THEN <<Saying(Verdict)>>
                          ELSE IF routed.excluded # {} THEN <<Saying("notice")>> \o answer
                          ELSE answer]
    /\ pc' = "done"
    /\ UNCHANGED <<request, manifest, routed, plan, run>>

Ended == pc \in {"done", "raised"} /\ UNCHANGED vars

Next ==
    \/ IngestRaises \/ DoIngest \/ RouteBlocked \/ Route
    \/ RunIndex \/ RunLearned \/ Abort \/ FallBack
    \/ Compose \/ Gate \/ Decide
    \/ Ended

Spec == Init /\ [][Next]_vars
-----------------------------------------------------------------------------
(* Properties.                                                              *)

Decided == pc = "done"

Answered == Decided /\ outcome.trigger = "none"

(* A caller's parameters are merged into a plan that was already validated. *)
(* Whatever the caller set, no tool runs with a parameter the matrix does   *)
(* not declare for the task, or out of its range.                           *)
OnlyPermittedRun ==
    run.ran # <<>> =>
        \A s \in ToSet(plan.steps) :
            s.tool \in ToSet(run.ran) =>
                \A p \in s.params : p[1] \in Matrix[plan.task].params /\ p[2]

(* Two images whose footprints are known never give an answer that compares  *)
(* or fuses them unless they overlap as far as the task requires: the legal  *)
(* set, the classifier restricted to it and the fallback all respect it.     *)
JointAnswersNeedOverlap ==
    Answered /\ Len(manifest.images) = 2 =>
        \A v \in Overlap(manifest.images[1], manifest.images[2]) :
            v >= Matrix[plan.task].overlap

(* No run ends with nothing to read, and a run blames the profile only when *)
(* the profile did shed a tool of the task.                                 *)
NoSilentAnswer ==
    Decided =>
        /\ outcome.shown # <<>>
        /\ outcome.trigger = "profile_degraded" =>
               request.lite /\ Len(plan.steps) < Len(Matrix[plan.task].tools)

(* A query that asked for a task by a majority is answered with that task,  *)
(* or told that it is not, or declined.                                     *)
AskedOrTold ==
    Answered /\ plan.task \notin routed.asked /\ routed.asked # {} =>
        outcome.shown[1].text = "notice"

(* Of the sentences the gate judges, none that is shown makes a claim the   *)
(* measured indices contradict, however many other claims it makes.         *)
ShownAgrees ==
    Answered =>
        \A i \in DOMAIN outcome.shown :
            ~outcome.shown[i].short =>
                \A c \in Claims(outcome.shown[i]) :
                    Checkable(c, run.measured) => Agreement(c, run.measured) >= 50

(* A change `change_vqa' measured is not refused for contradicting the      *)
(* indices it was measured with.                                            *)
MeasuredChangeStands ==
    Decided /\ plan.task = "TEMPORAL_CHANGE_VQA"
            /\ (\E i \in DOMAIN run.told : run.told[i].text = "measured change") =>
        outcome.trigger # "no_supported_content"
=============================================================================
