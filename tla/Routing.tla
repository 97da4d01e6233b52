------------------------------ MODULE Routing -------------------------------
(***************************************************************************)
(* From a manifest and a query to a validated plan: the capability matrix,  *)
(* the tasks that are legal for an input, the choice among them, the steps  *)
(* of the plan, and the validation every plan goes through.                 *)
(***************************************************************************)
EXTENDS Naturals, Sequences, SequencesExt, Ingest, Subsequences

Clarify == "CLARIFY_OR_ABSTAIN"

SingleImage == {"SINGLE_VQA", "SINGLE_CAPTION", "SINGLE_GROUND", "SINGLE_LANDCOVER"}

Temporal == {"TEMPORAL_CHANGE_DESC", "TEMPORAL_CHANGE_VQA", "TEMPORAL_CHANGE_MAP"}

Tasks == SingleImage \cup Temporal \cup {"XMODAL_JOINT_EXTRACT", Clarify}

Configs == {"SINGLE", "CROSSMODAL_PAIR", "BITEMPORAL_PAIR"}

Index == "index_engine_v1"

ChangeTools == {"change_mask_v1", "change_caption_v1", "change_vqa_v1"}

Learned == ChangeTools \cup
    {"rs_vqa_v1", "caption_v1", "grounding_v1", "landcover_v1", "optsar_fusion_v1"}

Tools == Learned \cup {Index}

(* An entry of `capability_matrix.yaml'.  A parameter is a pair of a name   *)
(* and whether its value is within the declared range.                      *)
Entry(configs, overlap, bands, tools, optional, forbidden, fallbacks, params) ==
    [configs |-> configs, overlap |-> overlap, bands |-> bands, tools |-> tools,
     optional |-> optional, forbidden |-> forbidden, fallbacks |-> fallbacks,
     params |-> params]

OnOneImage(tools, optional, fallbacks, params) ==
    Entry(Configs, 0, 0, tools, optional, ChangeTools \cup {"optsar_fusion_v1"},
          fallbacks, params)

OnTwoDates(overlap, tools, optional, params) ==
    Entry({"BITEMPORAL_PAIR"}, overlap, 0, tools, optional, {"optsar_fusion_v1"},
          {"change_mask_v1"}, params)

Matrix == [
    SINGLE_VQA |->
        OnOneImage(<<"rs_vqa_v1">>, {"grounding_v1"}, {}, {"answer_mode"}),
    SINGLE_CAPTION |->
        OnOneImage(<<Index, "landcover_v1", "caption_v1">>, {}, {"landcover_v1"},
                   {"target_gsd_m"}),
    SINGLE_GROUND |->
        OnOneImage(<<"grounding_v1">>, {}, {}, {"confidence_threshold"}),
    SINGLE_LANDCOVER |->
        OnOneImage(<<Index, "landcover_v1">>, {}, {"landcover_v1"}, {"classes"}),
    XMODAL_JOINT_EXTRACT |->
        Entry({"CROSSMODAL_PAIR"}, 70, 3,
              <<Index, "optsar_fusion_v1", "rs_vqa_v1">>, {"grounding_v1"},
              ChangeTools, {"optsar_fusion_v1"},
              {"fusion_mode", "target_gsd_m", "classes", "mode", "sar_threshold_method"}),
    TEMPORAL_CHANGE_DESC |->
        OnTwoDates(80, <<Index, "change_mask_v1", "change_caption_v1">>, {},
                   {"change_threshold"}),
    TEMPORAL_CHANGE_VQA |->
        OnTwoDates(80, <<Index, "change_mask_v1", "change_vqa_v1">>,
                   {"change_caption_v1"},
                   {"change_threshold", "min_object_area_px", "answer_mode",
                    "significance_pct"}),
    TEMPORAL_CHANGE_MAP |->
        OnTwoDates(0, <<Index, "change_mask_v1">>, {}, {"change_threshold"}),
    CLARIFY_OR_ABSTAIN |->
        Entry(Configs, 0, 0, <<>>, {}, {}, {}, {})]

-----------------------------------------------------------------------------
(* Which tasks an input permits.                                            *)

(* `config_legal_tasks': CONFIG_TO_LEGAL_TASKS says what the matrix says.   *)
ConfigLegal(config) == {t \in Tasks : config \in Matrix[t].configs}

(* Mutant: no requirement is read, as before the overlap was measured.      *)
MetMutant(task, manifest) == TRUE

(* `unmet_requirements': an overlap nobody could measure excludes nothing;  *)
(* the largest optical image must have the bands.                           *)
Met(task, manifest) ==
    LET images == manifest.images
        optical == {i \in DOMAIN images : images[i].modality \in OpticalModalities}
    IN task # Clarify =>
        /\ Len(images) = 2 =>
             \A v \in Overlap(images[1], images[2]) : v >= Matrix[task].overlap
        /\ optical # {} =>
             \E i \in optical : images[i].count >= Matrix[task].bands

LegalTasks(manifest) == {t \in ConfigLegal(manifest.config) : Met(t, manifest)}

-----------------------------------------------------------------------------
(* The choice.  A prediction is the most probable task, how sure it is, and *)
(* whether the query had any feature the classifier knows:                  *)
(*   "weak"      below the bar of `is_confident'                            *)
(*   "routing"   above it, below EXCLUSION_NOTICE_MIN_TOP1                  *)
(*   "majority"  above both                                                 *)

Prediction == [task : Tasks, sure : {"weak", "routing", "majority"}, evidence : BOOLEAN]

(* `predict(query, candidates=legal)': probabilities renormalised over the  *)
(* legal tasks, so a legal favourite stays one and is as sure at least.     *)
Restricted(p, q, legal) ==
    /\ q \in Prediction
    /\ q.task \in legal
    /\ q.evidence = p.evidence
    /\ p.task \in legal => /\ q.task = p.task
                           /\ q.sure = "weak" => p.sure = "weak"
                           /\ q.sure = "routing" => p.sure # "majority"

(* Mutant: the notice looks at the configuration, not at these inputs.      *)
ExcludedMutant(p, manifest) ==
    IF p.sure = "majority" /\ p.task \notin ConfigLegal(manifest.config)
    THEN {p.task} ELSE {}

(* What the user asked for and these inputs cannot support.                 *)
Excluded(p, manifest) ==
    IF p.sure = "majority" /\ p.task \notin LegalTasks(manifest) THEN {p.task} ELSE {}

(* `select_task', and `decide' around it: a weak pick gives way to the      *)
(* default of the configuration, a weak abstention does not.                *)
Selected(q, legal) ==
    IF ~q.evidence THEN Clarify
    ELSE IF q.sure # "weak" \/ q.task = Clarify THEN q.task
    ELSE IF "SINGLE_VQA" \in legal THEN "SINGLE_VQA" ELSE Clarify

-----------------------------------------------------------------------------
(* The plan.  `_build_steps', every parameter that has a default being set;  *)
(* then the tools a profile with no video memory cannot load are shed, which *)
(* is every one but the index engine.                                       *)

Step(task, tool) ==
    [tool |-> tool,
     aborts |-> tool \notin Matrix[task].fallbacks,
     params |-> IF tool = Index THEN {}
               ELSE {<<p, TRUE>> : p \in Matrix[task].params \ {"target_gsd_m"}}]

Plan(task, legal, lite) ==
    LET all == [i \in DOMAIN Matrix[task].tools |-> Step(task, Matrix[task].tools[i])]
    IN [task |-> task, legal |-> legal,
        steps |-> IF lite THEN At(all, {i \in DOMAIN all : all[i].tool = Index}) ELSE all]

(* `_apply_tool_params': what the caller sets for a tool is merged into its *)
(* steps.                                                                   *)
Merged(step, given) ==
    LET meant == {g.param : g \in {h \in given : h.tool = step.tool}}
    IN [step EXCEPT !.params = {p \in @ : \A g \in meant : g[1] # p[1]} \cup meant]

WithParams(plan, given) ==
    [plan EXCEPT !.steps = [i \in DOMAIN @ |-> Merged(@[i], given)]]

(* Mutant: the parameters are not looked at.                                *)
LegalMutant(plan) ==
    /\ plan.task \in plan.legal
    /\ \A s \in ToSet(plan.steps) :
         s.tool \in ToSet(Matrix[plan.task].tools) \cup Matrix[plan.task].optional

(* `validate_plan' finds nothing.                                           *)
Legal(plan) ==
    /\ plan.task \in plan.legal
    /\ \A s \in ToSet(plan.steps) :
         /\ s.tool \in ToSet(Matrix[plan.task].tools) \cup Matrix[plan.task].optional
         /\ s.tool \notin Matrix[plan.task].forbidden
         /\ \A p \in s.params : p[1] \in Matrix[plan.task].params /\ p[2]

=============================================================================
