---------------------------- MODULE QueryProofs -----------------------------
(***************************************************************************)
(* The promises of the query pipeline for every set of requests, queries,   *)
(* rasters, answers and failures: no tool runs with a parameter the matrix  *)
(* does not permit, no pair is compared that does not overlap, no run ends  *)
(* with nothing to read, nobody is answered with another task than they     *)
(* asked for without being told, and nothing is shown that the measured     *)
(* indices contradict.                                                      *)
(*                                                                          *)
(* The first two rest on `Routed': whatever path led to the steps, the plan *)
(* being executed passed validation after the caller's parameters were      *)
(* merged in, and against the tasks these very inputs permit.  The others   *)
(* rest on `Accounted', which follows the plan through the loop: what it is *)
(* past has run or could be done without, so that a run with nothing to say *)
(* has a cause by the time the answer is composed.                          *)
(***************************************************************************)
EXTENDS QueryPipeline, FiniteSetTheorems, WellFoundedInduction, TLAPS

(* The stages at which there is no plan, or the run is over without one.    *)
Unplanned == pc \in {"ingest", "route", "raised"}

HasTrigger == "trigger" \in DOMAIN outcome

Routed ==
    /\ Unplanned => run.ran = <<>>
    /\ ~Unplanned => Legal(plan) /\ plan.legal = LegalTasks(manifest)
    /\ Answered => plan.task # Clarify
    /\ HasTrigger

LEMMA MergedPlan == ASSUME NEW task, NEW legal, NEW lite, NEW given
                    PROVE  WithParams(Plan(task, legal, lite), given).legal = legal
  BY DEF WithParams, Plan

LEMMA PlannedIsLegal ==
    ASSUME NEW task, Planned(task)
    PROVE  \/ pc' = "steps" /\ Legal(plan') /\ plan'.legal = LegalTasks(manifest)
           \/ pc' = "raised"
  BY MergedPlan DEF Planned

LEMMA Initially == Init => Routed
  BY DEF Init, Routed, Unplanned, Started, Fresh, Answered, Decided, HasTrigger

LEMMA IngestStep == ASSUME Routed, IngestRaises \/ DoIngest PROVE Routed'
  BY DEF Routed, HasTrigger, Unplanned, Answered, Decided, IngestRaises, DoIngest

LEMMA RouteStep == ASSUME Routed, RouteBlocked \/ Route PROVE Routed'
<1>1. /\ Unplanned /\ run' = run /\ manifest' = manifest /\ \E task : Planned(task)
  BY DEF RouteBlocked, Route, Unplanned
<1>2. \/ pc' = "steps" /\ Legal(plan') /\ plan'.legal = LegalTasks(manifest')
      \/ pc' = "raised"
  <2>1. LegalTasks(manifest') = LegalTasks(manifest)
    BY <1>1
  <2> QED
    BY <1>1, <2>1, PlannedIsLegal
<1>3. Legal(plan)' <=> Legal(plan')
  BY DEF Legal
<1>4. (plan.legal = LegalTasks(manifest))' <=> plan'.legal = LegalTasks(manifest')
  OBVIOUS
<1>5. HasTrigger'
  BY DEF Routed, HasTrigger, RouteBlocked, Route
<1> QED
  BY <1>1, <1>2, <1>3, <1>4, <1>5 DEF Routed, Unplanned, Answered, Decided

(* The steps, the composition and the gate read the plan and leave it.      *)
LEMMA LaterStep ==
    ASSUME Routed, ~Unplanned, UNCHANGED <<plan, manifest>>, HasTrigger',
           pc' \in {"steps", "gate", "decide"}
    PROVE  Routed'
<1>1. Legal(plan)' /\ (plan.legal = LegalTasks(manifest))'
  <2>1. Legal(plan) /\ plan.legal = LegalTasks(manifest) /\ plan' = plan /\ manifest' = manifest
    BY DEF Routed
  <2> QED
    BY <2>1 DEF Legal, LegalTasks, Met, ConfigLegal
<1> QED
  BY <1>1 DEF Routed, Unplanned, Answered, Decided

LEMMA RunStep == ASSUME Routed, RunIndex \/ RunLearned \/ Abort \/ FallBack \/ Compose \/ Gate
                 PROVE  Routed'
<1>1. ~Unplanned /\ UNCHANGED <<plan, manifest>> /\ pc' \in {"steps", "gate", "decide"}
  BY DEF RunIndex, RunLearned, Abort, FallBack, Compose, Gate, AtStep, Unplanned
<1>2. DOMAIN outcome' = DOMAIN outcome
  BY DEF RunIndex, RunLearned, Abort, FallBack, Compose, Gate
<1> QED
  BY <1>1, <1>2, LaterStep DEF Routed, HasTrigger

(* A plan without tools is never an answer.                                 *)
LEMMA DecideStep == ASSUME Routed, Decide PROVE Routed'
<1>1. /\ Legal(plan) /\ plan.legal = LegalTasks(manifest) /\ plan' = plan
      /\ manifest' = manifest /\ pc' = "done"
  BY DEF Decide, Routed, Unplanned
<1>2. Legal(plan)' /\ (plan.legal = LegalTasks(manifest))'
  BY <1>1 DEF Legal, LegalTasks, Met, ConfigLegal
<1>3. plan.task = Clarify => Verdict # "none"
  BY DEF Verdict, Trigger
<1>4. outcome'.trigger = Verdict /\ DOMAIN outcome' = DOMAIN outcome
  BY DEF Decide, Routed, HasTrigger
<1>5. Answered' => plan'.task # Clarify
  BY <1>1, <1>3, <1>4 DEF Answered
<1> QED
  BY <1>1, <1>2, <1>4, <1>5 DEF Routed, Unplanned, HasTrigger

LEMMA EndedStep == ASSUME Routed, UNCHANGED vars PROVE Routed'
  BY DEF Routed, Unplanned, Answered, Decided, HasTrigger, vars, Legal, LegalTasks, Met, ConfigLegal

LEMMA Invariance == Spec => []Routed
<1>1. Init => Routed
  BY Initially
<1>2. Routed /\ [Next]_vars => Routed'
  BY IngestStep, RouteStep, RunStep, DecideStep, EndedStep DEF Next, Ended
<1> QED
  BY <1>1, <1>2, PTL DEF Spec

(* Whatever a caller sets, no tool runs with a parameter the capability     *)
(* matrix does not declare for the task, or out of its range.               *)
THEOREM OnlyPermitted == Spec => []OnlyPermittedRun
<1>1. Routed => OnlyPermittedRun
  BY DEF Routed, OnlyPermittedRun, Legal
<1> QED
  BY <1>1, Invariance, PTL

(* Two images known to overlap by less than a task requires are never       *)
(* answered with that task, whatever the classifier makes of the query.     *)
THEOREM OverlapRespected == Spec => []JointAnswersNeedOverlap
<1>1. ASSUME Routed PROVE JointAnswersNeedOverlap
  <2> SUFFICES ASSUME Answered, Len(manifest.images) = 2,
                      NEW v \in Overlap(manifest.images[1], manifest.images[2])
               PROVE  v >= Matrix[plan.task].overlap
    BY DEF JointAnswersNeedOverlap
  <2>1. plan.task \in LegalTasks(manifest) /\ plan.task # Clarify
    BY <1>1 DEF Routed, Unplanned, Answered, Decided, Legal
  <2>2. Met(plan.task, manifest)
    BY <2>1 DEF LegalTasks
  <2> QED
    BY <2>1, <2>2 DEF Met
<1> QED
  BY <1>1, Invariance, PTL

-----------------------------------------------------------------------------
(* Parts of sequences.                                                      *)

(* A place of a finite set of numbers has a rank among them, and no two     *)
(* have the same.                                                           *)
LEMMA RankOfPlace ==
    ASSUME NEW places \in SUBSET Nat, IsFiniteSet(places), NEW k \in places
    PROVE  Rank(k, places) \in 1 .. Cardinality(places)
<1> DEFINE below == {j \in places : j <= k}
<1>1. IsFiniteSet(below) /\ Cardinality(below) <= Cardinality(places)
  BY FS_Subset
<1>2. Cardinality(below) \in Nat /\ Cardinality(places) \in Nat
  BY <1>1, FS_CardinalityType
<1>3. k \in below
  OBVIOUS
<1>4. Cardinality(below) # 0
  BY <1>1, <1>3, FS_EmptySet
<1> HIDE DEF below
<1>5. Cardinality(below) \in 1 .. Cardinality(places)
  BY <1>1, <1>2, <1>4
<1> QED
  BY <1>5 DEF below, Rank

LEMMA RankGrows ==
    ASSUME NEW places \in SUBSET Nat, IsFiniteSet(places), NEW j \in places, NEW k \in places,
           j < k
    PROVE  Rank(j, places) < Rank(k, places)
<1> DEFINE low  == {i \in places : i <= j}
           high == {i \in places : i <= k}
<1>1. IsFiniteSet(high) /\ low \in SUBSET high
  <2>1. high \in SUBSET places
    OBVIOUS
  <2>3. IsFiniteSet(high)
    BY <2>1, FS_Subset
  <2>2. low \in SUBSET high
    <3>1. \A i \in places : i <= j => i <= k
      OBVIOUS
    <3> QED
      BY <3>1
  <2> QED
    BY <2>2, <2>3
<1>2. k \in high /\ k \notin low
  OBVIOUS
<1> HIDE DEF low, high
<1>3. Cardinality(low) <= Cardinality(high) /\ (Cardinality(high) = Cardinality(low) => high = low)
  BY <1>1, FS_Subset
<1>4. Cardinality(low) \in Nat /\ Cardinality(high) \in Nat
  BY <1>1, FS_Subset, FS_CardinalityType
<1>5. Cardinality(low) < Cardinality(high)
  BY <1>2, <1>3, <1>4
<1> QED
  BY <1>5 DEF low, high, Rank

LEMMA EveryRank ==
    ASSUME NEW places \in SUBSET Nat, IsFiniteSet(places), NEW n \in 1 .. Cardinality(places)
    PROVE  \E k \in places : Rank(k, places) = n
<1> DEFINE rank == [k \in places |-> Rank(k, places)]
           ranks == 1 .. Cardinality(places)
<1>1. Cardinality(places) \in Nat
  BY FS_CardinalityType
<1>2. IsFiniteSet(ranks) /\ Cardinality(ranks) = Cardinality(places)
  BY <1>1, FS_Interval
<1>3. rank \in [places -> ranks]
  BY RankOfPlace
<1>4. \A j, k \in places : rank[j] = rank[k] => j = k
  <2> SUFFICES ASSUME NEW j \in places, NEW k \in places, j # k PROVE rank[j] # rank[k]
    OBVIOUS
  <2>1. rank[j] \in Int /\ rank[k] \in Int
    BY <1>3, <1>1
  <2>2. CASE j < k
    <3>1. Rank(j, places) < Rank(k, places)
      BY <2>2, RankGrows
    <3> QED
      BY <3>1, <2>1
  <2>3. CASE k < j
    <3>1. Rank(k, places) < Rank(j, places)
      BY <2>3, RankGrows
    <3> QED
      BY <3>1, <2>1
  <2> QED
    BY <2>2, <2>3
<1>5. rank \in Injection(places, ranks)
  BY <1>3, <1>4 DEF Injection, IsInjective
<1> HIDE DEF rank, ranks
<1>6. rank \in Surjection(places, ranks)
  BY <1>2, <1>5, FS_Injection
<1>7. \E k \in places : rank[k] = n
  BY <1>6 DEF Surjection, ranks
<1> QED
  BY <1>7 DEF rank

LEMMA PlacesOf ==
    ASSUME NEW S, NEW s \in Seq(S)
    PROVE  /\ DOMAIN s = 1 .. Len(s) /\ Len(s) \in Nat
           /\ IsFiniteSet(DOMAIN s) /\ Cardinality(DOMAIN s) = Len(s)
<1>1. DOMAIN s = 1 .. Len(s) /\ Len(s) \in Nat
  OBVIOUS
<1>2. /\ IsFiniteSet(1 .. Len(s))
      /\ Cardinality(1 .. Len(s)) = IF 1 > Len(s) THEN 0 ELSE Len(s) - 1 + 1
  BY <1>1, FS_Interval
<1>3. Cardinality(1 .. Len(s)) = Len(s)
  BY <1>1, <1>2
<1> QED
  BY <1>1, <1>2, <1>3

(* What `At' takes from a sequence is a sequence of its elements at those    *)
(* places, as long as there are places.                                     *)
LEMMA TakenAt ==
    ASSUME NEW S, NEW s \in Seq(S), NEW places \in SUBSET DOMAIN s
    PROVE  /\ At(s, places) \in Seq(S)
           /\ Len(At(s, places)) = Cardinality(places)
           /\ Cardinality(places) \in Nat
           /\ \A n \in DOMAIN At(s, places) : \E k \in places : At(s, places)[n] = s[k]
<1>1. places \in SUBSET Nat
  BY PlacesOf
<1>2. IsFiniteSet(places)
  BY PlacesOf, FS_Subset
<1>3. Cardinality(places) \in Nat
  BY <1>2, FS_CardinalityType
<1> DEFINE pick(n) == CHOOSE k \in places : Rank(k, places) = n
<1>4. \A n \in 1 .. Cardinality(places) : pick(n) \in places
  BY <1>1, <1>2, EveryRank
<1> HIDE DEF pick
<1>5. At(s, places) = [n \in 1 .. Cardinality(places) |-> s[pick(n)]]
  BY DEF At, pick
<1>6. \A n \in 1 .. Cardinality(places) : s[pick(n)] \in S
  BY <1>4
<1>7. At(s, places) \in Seq(S) /\ Len(At(s, places)) = Cardinality(places)
  BY <1>3, <1>5, <1>6
<1>8. DOMAIN At(s, places) = 1 .. Cardinality(places)
  BY <1>5
<1>9. \A n \in DOMAIN At(s, places) : pick(n) \in places /\ At(s, places)[n] = s[pick(n)]
  BY <1>4, <1>5, <1>8
<1> QED
  BY <1>3, <1>7, <1>9

(* It is empty only if there are none.                                      *)
LEMMA TakenSome ==
    ASSUME NEW S, NEW s \in Seq(S), NEW places \in SUBSET DOMAIN s, places # {}
    PROVE  At(s, places) # <<>>
<1>1. IsFiniteSet(places)
  BY PlacesOf, FS_Subset
<1>2. Cardinality(places) # 0
  BY <1>1, FS_EmptySet
<1>3. Len(At(s, places)) = Cardinality(places)
  BY TakenAt
<1> QED
  BY <1>2, <1>3

(* It is shorter if a place is left out.                                    *)
LEMMA TakenFewer ==
    ASSUME NEW S, NEW s \in Seq(S), NEW places \in SUBSET DOMAIN s, places # DOMAIN s
    PROVE  Len(At(s, places)) < Len(s)
<1>1. DOMAIN s = 1 .. Len(s) /\ Len(s) \in Nat
  BY PlacesOf
<1>2. IsFiniteSet(DOMAIN s) /\ Cardinality(DOMAIN s) = Len(s)
  BY PlacesOf
<1>3. Cardinality(places) <= Len(s) /\ Cardinality(places) # Len(s)
  BY <1>2, FS_Subset
<1>4. Len(At(s, places)) = Cardinality(places) /\ Cardinality(places) \in Nat
  BY TakenAt
<1> QED
  BY <1>1, <1>3, <1>4

-----------------------------------------------------------------------------
(* The capability matrix and the plans made from it.                        *)

(* Every task but the abstention has a tool besides the index engine, and   *)
(* only two tasks can do without each of those.                             *)
LEMMA ToolsOf ==
    ASSUME NEW task \in Tasks
    PROVE  /\ Matrix[task].tools \in Seq(Tools)
           /\ task # Clarify => \E i \in DOMAIN Matrix[task].tools : Matrix[task].tools[i] # Index
           /\ (/\ task # Clarify
               /\ \A i \in DOMAIN Matrix[task].tools :
                    Matrix[task].tools[i] = Index
                    \/ Matrix[task].tools[i] \in Matrix[task].fallbacks)
              => task \in {"SINGLE_LANDCOVER", "TEMPORAL_CHANGE_MAP"}
<1> USE DEF Index, Clarify, Tools, Learned, ChangeTools
<1>1. CASE task = "SINGLE_VQA"
  <2>1. Matrix[task].tools = <<"rs_vqa_v1">> /\ Matrix[task].fallbacks = {}
    BY <1>1 DEF Matrix, OnOneImage, Entry
  <2> QED
    BY <2>1
<1>2. CASE task = "SINGLE_CAPTION"
  <2>1. /\ Matrix[task].tools = <<Index, "landcover_v1", "caption_v1">>
        /\ Matrix[task].fallbacks = {"landcover_v1"}
    BY <1>2 DEF Matrix, OnOneImage, Entry
  <2> QED
    BY <2>1
<1>3. CASE task = "SINGLE_GROUND"
  <2>1. Matrix[task].tools = <<"grounding_v1">> /\ Matrix[task].fallbacks = {}
    BY <1>3 DEF Matrix, OnOneImage, Entry
  <2> QED
    BY <2>1
<1>4. CASE task = "SINGLE_LANDCOVER"
  <2>1. Matrix[task].tools = <<Index, "landcover_v1">>
    BY <1>4 DEF Matrix, OnOneImage, Entry
  <2> QED
    BY <1>4, <2>1
<1>5. CASE task = "XMODAL_JOINT_EXTRACT"
  <2>1. /\ Matrix[task].tools = <<Index, "optsar_fusion_v1", "rs_vqa_v1">>
        /\ Matrix[task].fallbacks = {"optsar_fusion_v1"}
    BY <1>5 DEF Matrix, Entry
  <2> QED
    BY <2>1
<1>6. CASE task = "TEMPORAL_CHANGE_DESC"
  <2>1. /\ Matrix[task].tools = <<Index, "change_mask_v1", "change_caption_v1">>
        /\ Matrix[task].fallbacks = {"change_mask_v1"}
    BY <1>6 DEF Matrix, OnTwoDates, Entry
  <2> QED
    BY <2>1
<1>7. CASE task = "TEMPORAL_CHANGE_VQA"
  <2>1. /\ Matrix[task].tools = <<Index, "change_mask_v1", "change_vqa_v1">>
        /\ Matrix[task].fallbacks = {"change_mask_v1"}
    BY <1>7 DEF Matrix, OnTwoDates, Entry
  <2> QED
    BY <2>1
<1>8. CASE task = "TEMPORAL_CHANGE_MAP"
  <2>1. Matrix[task].tools = <<Index, "change_mask_v1">>
    BY <1>8 DEF Matrix, OnTwoDates, Entry
  <2> QED
    BY <1>8, <2>1
<1>9. CASE task = "CLARIFY_OR_ABSTAIN"
  <2>1. Matrix[task].tools = <<>>
    BY <1>9 DEF Matrix, Entry
  <2> QED
    BY <1>9, <2>1
<1> QED
  BY <1>1, <1>2, <1>3, <1>4, <1>5, <1>6, <1>7, <1>8, <1>9 DEF Tasks, SingleImage, Temporal

(* The steps of a plan are the tools of its task, or under a profile that   *)
(* sheds tools the index engine's, which are fewer.                         *)
Shaped(p, lite) ==
    LET tools == Matrix[p.task].tools
    IN /\ p.task \in Tasks
       /\ Len(p.steps) \in Nat /\ DOMAIN p.steps = 1 .. Len(p.steps)
       /\ DOMAIN p = {"task", "legal", "steps"}
       /\ \A i \in DOMAIN p.steps :
            /\ DOMAIN p.steps[i] = {"tool", "aborts", "params"}
            /\ p.steps[i].tool \in Tools
            /\ p.steps[i].aborts <=> p.steps[i].tool \notin Matrix[p.task].fallbacks
       /\ ~lite => /\ Len(p.steps) = Len(tools)
                   /\ \A i \in DOMAIN p.steps : p.steps[i].tool = tools[i]
       /\ lite /\ p.task # Clarify => Len(p.steps) < Len(tools)

LEMMA StepsOf ==
    ASSUME NEW task \in Tasks, NEW legal, NEW lite
    PROVE  Shaped(Plan(task, legal, lite), lite) /\ Plan(task, legal, lite).task = task
<1> DEFINE tools == Matrix[task].tools
           all == [i \in DOMAIN tools |-> Step(task, tools[i])]
           S == {Step(task, t) : t \in Tools}
           kept == {i \in DOMAIN all : all[i].tool = Index}
           p == Plan(task, legal, lite)
<1>1. tools \in Seq(Tools) /\ DOMAIN tools = 1 .. Len(tools) /\ Len(tools) \in Nat
  BY ToolsOf
<1>2. all \in Seq(S) /\ Len(all) = Len(tools) /\ DOMAIN all = DOMAIN tools
      /\ \A i \in DOMAIN tools : all[i] = Step(task, tools[i])
  <2>1. \A i \in 1 .. Len(tools) : tools[i] \in Tools
    BY <1>1
  <2>2. \A i \in 1 .. Len(tools) : Step(task, tools[i]) \in S
    BY <2>1
  <2> HIDE DEF S, tools
  <2>3. all = [i \in 1 .. Len(tools) |-> Step(task, tools[i])]
    BY <1>1
  <2> HIDE DEF all
  <2> QED
    BY <1>1, <2>2, <2>3
<1>3. \A s \in S : /\ DOMAIN s = {"tool", "aborts", "params"}
                  /\ s.tool \in Tools /\ (s.aborts <=> s.tool \notin Matrix[task].fallbacks)
  <2> SUFFICES ASSUME NEW t \in Tools
               PROVE  /\ DOMAIN Step(task, t) = {"tool", "aborts", "params"}
                      /\ Step(task, t).tool \in Tools
                      /\ Step(task, t).aborts <=> Step(task, t).tool \notin Matrix[task].fallbacks
    BY Zenon
  <2>1. Step(task, t).tool = t /\ DOMAIN Step(task, t) = {"tool", "aborts", "params"}
    BY DEF Step
  <2>2. Step(task, t).aborts = (t \notin Matrix[task].fallbacks)
    BY DEF Step
  <2> QED
    BY <2>1, <2>2, Zenon
<1>4. \A i \in DOMAIN tools : all[i].tool = tools[i]
  BY <1>2 DEF Step
<1>5. /\ p.task = task /\ DOMAIN p = {"task", "legal", "steps"}
      /\ p.steps = IF lite THEN At(all, kept) ELSE all
  BY DEF Plan
<1>6. task # Clarify => kept # DOMAIN all
  <2>1. task # Clarify => \E i \in DOMAIN tools : tools[i] # Index
    BY ToolsOf
  <2> QED
    BY <1>2, <1>4, <2>1
<1>7. kept \in SUBSET DOMAIN all
  OBVIOUS
<1> HIDE DEF p, kept, all, S
<1>8. /\ At(all, kept) \in Seq(S)
      /\ task # Clarify => Len(At(all, kept)) < Len(all)
  BY <1>2, <1>6, <1>7, TakenAt, TakenFewer
<1>9. p.steps \in Seq(S)
  BY <1>2, <1>5, <1>8
<1>10. \A i \in DOMAIN p.steps : p.steps[i] \in S
  BY <1>9
<1>11. /\ Len(p.steps) \in Nat /\ DOMAIN p.steps = 1 .. Len(p.steps)
  BY <1>9
<1>12. ~lite => /\ Len(p.steps) = Len(tools)
                /\ \A i \in DOMAIN p.steps : p.steps[i].tool = tools[i]
  BY <1>2, <1>4, <1>5
<1>13. lite /\ task # Clarify => Len(p.steps) < Len(tools)
  BY <1>2, <1>5, <1>8
<1>14. Shaped(p, lite)
  BY <1>3, <1>5, <1>10, <1>11, <1>12, <1>13 DEF Shaped
<1> QED
  BY <1>5, <1>14 DEF p

LEMMA StepsWithParams ==
    ASSUME NEW p, NEW lite, NEW given, Shaped(p, lite)
    PROVE  Shaped(WithParams(p, given), lite) /\ WithParams(p, given).task = p.task
<1> DEFINE q == WithParams(p, given)
<1>1. DOMAIN q = DOMAIN p /\ q.task = p.task /\ DOMAIN q.steps = DOMAIN p.steps
      /\ q.steps = [i \in DOMAIN p.steps |-> Merged(p.steps[i], given)]
  BY DEF WithParams, Shaped
<1>2. \A i \in DOMAIN p.steps : /\ DOMAIN q.steps[i] = DOMAIN p.steps[i]
                                /\ q.steps[i].tool = p.steps[i].tool
                                /\ q.steps[i].aborts = p.steps[i].aborts
  <2> HIDE DEF q
  <2> SUFFICES ASSUME NEW i \in DOMAIN p.steps
               PROVE  /\ DOMAIN q.steps[i] = DOMAIN p.steps[i]
                      /\ q.steps[i].tool = p.steps[i].tool
                      /\ q.steps[i].aborts = p.steps[i].aborts
    OBVIOUS
  <2>1. q.steps[i] = Merged(p.steps[i], given)
    BY <1>1
  <2>2. DOMAIN p.steps[i] = {"tool", "aborts", "params"}
    BY DEF Shaped
  <2>3. /\ DOMAIN Merged(p.steps[i], given) = DOMAIN p.steps[i]
        /\ Merged(p.steps[i], given).tool = p.steps[i].tool
        /\ Merged(p.steps[i], given).aborts = p.steps[i].aborts
    BY <2>2 DEF Merged
  <2> QED
    BY <2>1, <2>3
<1> HIDE DEF q
<1>3. Len(q.steps) = Len(p.steps)
  BY <1>1 DEF Shaped
<1>4. Shaped(q, lite)
  BY <1>1, <1>2, <1>3 DEF Shaped
<1> QED
  BY <1>1, <1>4 DEF q

-----------------------------------------------------------------------------
(* What tools return and what is composed of it.                            *)

RunTyped ==
    /\ DOMAIN run = DOMAIN Started
    /\ run.next \in Nat \ {0}
    /\ run.ran \in Seq(Tools)
    /\ run.told \in Seq(Sentences)
    /\ run.labels \in SUBSET SUBSET Subjects
    /\ run.model \in Nat
    /\ IsFiniteSet(DOMAIN run.measured)
    /\ \A x \in DOMAIN run.measured : run.measured[x].pct \in Nat

Methods == {"stub", "scored", "no_assertion"}

ResultType ==
    [method : Methods, score : Nat, told : SUBSET Seq(Sentences),
     labels : SUBSET SUBSET Subjects, boxes : BOOLEAN, mask : BOOLEAN]

LEMMA OneOf == ASSUME NEW S, NEW e \in S PROVE <<e>> \in Seq(S) /\ <<e>> # <<>>
  OBVIOUS

LEMMA TwoOf == ASSUME NEW S, NEW d \in S, NEW e \in S PROVE <<d, e>> \in Seq(S)
  OBVIOUS

LEMMA Joined ==
    ASSUME NEW S, NEW a \in Seq(S), NEW b \in Seq(S)
    PROVE  a \o b \in Seq(S) /\ (a \o b = <<>> <=> a = <<>> /\ b = <<>>)
  OBVIOUS

LEMMA SayingTyped == ASSUME NEW text \in Texts PROVE Saying(text) \in Sentences
  BY DEF Saying, Sentence, Sentences

LEMMA NamingTyped ==
    ASSUME NEW text \in Texts, NEW subjects \in SUBSET Subjects
    PROVE  Naming(text, subjects) \in Sentences
  BY DEF Naming, Sentence, Sentences, Part

LEMMA ResultTyped ==
    ASSUME NEW method \in Methods, NEW score \in Nat, NEW told \in SUBSET Seq(Sentences)
    PROVE  Result(method, score, told) \in ResultType
  BY DEF Result, ResultType

LEMMA StubTyped ==
    ASSUME NEW told \in SUBSET Seq(Sentences)
    PROVE  Stub(told) \in ResultType
  BY ResultTyped DEF Stub, Methods

LEMMA ScoredTyped ==
    ASSUME NEW told \in Seq(Sentences)
    PROVE  Scored(told) \subseteq ResultType
  BY QueryAssumption, ResultTyped DEF Scored, QueryAssumption, Methods

LEMMA MeasuredTyped ==
    ASSUME NEW subject \in Subjects
    PROVE  Measured(subject) \subseteq ResultType
<1>1. <<Naming("measured change", {subject})>> \in Seq(Sentences)
  <2>1. Naming("measured change", {subject}) \in Sentences
    BY NamingTyped DEF Texts
  <2> QED
    BY <2>1, OneOf
<1> DEFINE told == {<<Naming("measured change", {subject})>>}
<1>2. told \in SUBSET Seq(Sentences)
  BY <1>1
<1> HIDE DEF told
<1>3. \A x : Result("scored", IF run.measured[x].threshold = 40 THEN 60 ELSE 100, told)
               \in ResultType
  BY <1>2, ResultTyped DEF Methods
<1>4. Measured(subject) =
        {Result("scored", IF run.measured[x].threshold = 40 THEN 60 ELSE 100, told) :
            x \in {y \in IndexFor(subject, manifest.images[1].bands) :
                       IndexFor(subject, manifest.images[2].bands) # {}}}
  BY DEF Measured, told
<1> QED
  BY <1>3, <1>4

LEMMA ChangeAnswersTyped == ChangeAnswers \subseteq ResultType
<1>1. UNION {Measured(s) : s \in Subjects} \subseteq ResultType
  BY MeasuredTyped
<1>2. Result("scored", 0, {<<>>}) \in ResultType
  <2>1. {<<>>} \in SUBSET Seq(Sentences)
    OBVIOUS
  <2> QED
    BY <2>1, ResultTyped DEF Methods
<1>3. \A a \in Answers : Result("scored", 60, {a}) \in ResultType
  BY QueryAssumption, ResultTyped DEF QueryAssumption, Methods
<1> QED
  BY <1>1, <1>2, <1>3 DEF ChangeAnswers

LEMMA ResultsTyped ==
    ASSUME NEW tool \in Learned
    PROVE  Results(tool) \subseteq ResultType
<1>0. /\ \A t \in {"stub", "no class asserted", "no class identified", "changed", "agreed"} :
           Saying(t) \in Sentences
      /\ Naming("classes", {"water"}) \in Sentences
      /\ Naming("fused", {"built_up"}) \in Sentences
  BY SayingTyped, NamingTyped DEF Subjects, Texts
<1>1. /\ {<<Saying("stub")>>} \in SUBSET Seq(Sentences)
      /\ {<<Saying("no class asserted")>>} \in SUBSET Seq(Sentences)
      /\ {<<Saying("no class identified")>>} \in SUBSET Seq(Sentences)
      /\ <<Saying("changed")>> \in Seq(Sentences)
      /\ <<Naming("classes", {"water"})>> \in Seq(Sentences)
      /\ <<Naming("fused", {"built_up"}), Saying("agreed")>> \in Seq(Sentences)
      /\ {} \in SUBSET Seq(Sentences)
  BY <1>0, OneOf, TwoOf
<1>2. /\ Stub({<<Saying("stub")>>}) \in ResultType /\ Stub({}) \in ResultType
      /\ Result("no_assertion", 0, {<<Saying("no class asserted")>>}) \in ResultType
      /\ Result("no_assertion", 0, {<<Saying("no class identified")>>}) \in ResultType
      /\ \A c \in Scores : Result("scored", c, {}) \in ResultType
  BY <1>1, StubTyped, ResultTyped, QueryAssumption DEF QueryAssumption, Methods
<1>3. /\ Scored(<<Saying("changed")>>) \subseteq ResultType
      /\ Scored(<<Naming("classes", {"water"})>>) \subseteq ResultType
      /\ Scored(<<Naming("fused", {"built_up"}), Saying("agreed")>>) \subseteq ResultType
      /\ \A a \in Answers : Scored(a) \subseteq ResultType
  BY <1>1, ScoredTyped, QueryAssumption DEF QueryAssumption
<1>4. /\ \A r \in ResultType : [r EXCEPT !.boxes = TRUE] \in ResultType
      /\ \A r \in ResultType : [r EXCEPT !.mask = TRUE] \in ResultType
      /\ \A r \in ResultType : [r EXCEPT !.labels = {{"water"}}] \in ResultType
  BY DEF ResultType, Subjects
<1>5. CASE tool \in {"rs_vqa_v1", "caption_v1", "change_caption_v1"}
  <2>1. Results(tool) = {Stub({<<Saying("stub")>>})} \cup UNION {Scored(a) : a \in Answers}
    BY <1>5 DEF Results
  <2> QED
    BY <1>2, <1>3, <2>1
<1>6. CASE tool = "grounding_v1"
  <2>1. Results(tool) = {[r EXCEPT !.boxes = TRUE] :
                           r \in {Stub({})} \cup {Result("scored", c, {}) : c \in Scores}}
    BY <1>6 DEF Results
  <2>2. {Stub({})} \cup {Result("scored", c, {}) : c \in Scores} \subseteq ResultType
    BY <1>2
  <2> QED
    BY <1>4, <2>1, <2>2
<1>7. CASE tool = "landcover_v1"
  <2>1. Results(tool) =
           {Stub({}), Result("no_assertion", 0, {<<Saying("no class asserted")>>})}
           \cup {[r EXCEPT !.labels = {{"water"}}] :
                    r \in Scored(<<Naming("classes", {"water"})>>)}
    BY <1>7 DEF Results
  <2> QED
    BY <1>2, <1>3, <1>4, <2>1
<1>8. CASE tool = "optsar_fusion_v1"
  <2>1. Results(tool) =
           {Stub({}), Result("no_assertion", 0, {<<Saying("no class identified")>>})}
           \cup Scored(<<Naming("fused", {"built_up"}), Saying("agreed")>>)
    BY <1>8 DEF Results
  <2> QED
    BY <1>2, <1>3, <2>1
<1>9. CASE tool = "change_mask_v1"
  <2>1. Results(tool) =
           {[r EXCEPT !.mask = TRUE] : r \in {Stub({})} \cup Scored(<<Saying("changed")>>)}
    BY <1>9 DEF Results
  <2> QED
    BY <1>2, <1>3, <1>4, <2>1
<1>10. CASE tool = "change_vqa_v1"
  <2>1. Results(tool) = ChangeAnswers
    BY <1>10 DEF Results
  <2> QED
    BY <2>1, ChangeAnswersTyped
<1> QED
  BY <1>5, <1>6, <1>7, <1>8, <1>9, <1>10 DEF Learned, ChangeTools

LEMMA FractionsTyped ==
    ASSUME RunTyped, NEW s \in Subjects
    PROVE  \A x \in MeasuredBy(s, run.measured) : run.measured[x].pct \in Nat
  BY DEF RunTyped, MeasuredBy, Subjects

LEMMA DescribedTyped == ASSUME RunTyped PROVE Described \in Seq(Sentences) /\ Described # <<>>
<1> DEFINE has == {s \in Subjects :
                     \E x \in MeasuredBy(s, run.measured) : run.measured[x].pct >= 5}
           share == {<<s, run.measured[x].pct>> :
                       s \in has, x \in UNION {MeasuredBy(t, run.measured) : t \in has}}
           fractions == {f \in share : \E x \in MeasuredBy(f[1], run.measured) :
                                          run.measured[x].pct = f[2]}
<1>1. has \in SUBSET Subjects
  OBVIOUS
<1>2. fractions \in SUBSET (Subjects \X Int)
  BY FractionsTyped
<1>3. Described = IF has = {} THEN <<Saying("no dominant class")>>
                  ELSE <<Sentence("indices", {Part(TRUE, fractions, has)})>>
                       \o (IF Cardinality(has) = 1 THEN <<>> ELSE <<Saying("may overlap")>>)
  BY DEF Described
<1> HIDE DEF has, share, fractions
<1>4. Sentence("indices", {Part(TRUE, fractions, has)}) \in Sentences
  BY <1>1, <1>2 DEF Sentence, Sentences, Part, Texts
<1>5. Saying("no dominant class") \in Sentences /\ Saying("may overlap") \in Sentences
  BY SayingTyped DEF Texts
<1>6. /\ <<Sentence("indices", {Part(TRUE, fractions, has)})>> \in Seq(Sentences)
      /\ <<Sentence("indices", {Part(TRUE, fractions, has)})>> # <<>>
      /\ <<Saying("no dominant class")>> \in Seq(Sentences)
      /\ <<Saying("no dominant class")>> # <<>>
      /\ <<Saying("may overlap")>> \in Seq(Sentences)
  BY <1>4, <1>5, OneOf
<1>7. <<>> \in Seq(Sentences)
  OBVIOUS
<1> QED
  BY <1>3, <1>6, <1>7, Joined

LEMMA LabelledTyped == ASSUME RunTyped PROVE Labelled \in Seq(Sentences)
<1>1. UNION run.labels \in SUBSET Subjects
  BY DEF RunTyped
<1>2. Naming("labels", UNION run.labels) \in Sentences
  BY <1>1, NamingTyped DEF Texts
<1> QED
  BY <1>2 DEF Labelled

LEMMA SynthesisedTyped ==
    ASSUME RunTyped
    PROVE  /\ Synthesised \in Seq(Sentences)
           /\ plan.task \in {"SINGLE_LANDCOVER", "TEMPORAL_CHANGE_MAP"} => Synthesised # <<>>
<1>1. \A t \in Texts : Saying(t) \in Sentences
  BY SayingTyped
<1>2. Saying(IF run.boxes THEN "localised" ELSE "none localised") \in Sentences
  BY <1>1 DEF Texts
<1>3. /\ Labelled \in Seq(Sentences) /\ Described \in Seq(Sentences) /\ Described # <<>>
      /\ <<Saying("raster")>> \in Seq(Sentences) /\ <<Saying("no raster")>> \in Seq(Sentences)
      /\ <<Saying("no fusion")>> \in Seq(Sentences)
      /\ <<Saying("raster")>> # <<>> /\ <<Saying("no raster")>> # <<>>
      /\ <<Saying(IF run.boxes THEN "localised" ELSE "none localised")>> \in Seq(Sentences)
  <2>1. Saying("raster") \in Sentences /\ Saying("no raster") \in Sentences
        /\ Saying("no fusion") \in Sentences
    BY <1>1 DEF Texts
  <2> QED
    BY <1>2, <2>1, OneOf, LabelledTyped, DescribedTyped
<1>4. CASE plan.task \in {"SINGLE_LANDCOVER", "SINGLE_CAPTION"}
  <2>1. Synthesised = Labelled \o Described
    BY <1>4 DEF Synthesised
  <2> QED
    BY <1>3, <2>1, Joined
<1>5. CASE plan.task = "SINGLE_GROUND"
  <2>1. Synthesised = <<Saying(IF run.boxes THEN "localised" ELSE "none localised")>>
    BY <1>5 DEF Synthesised
  <2> QED
    BY <1>3, <1>5, <2>1
<1>6. CASE plan.task = "TEMPORAL_CHANGE_DESC"
  <2>1. Synthesised = Described
    BY <1>6 DEF Synthesised
  <2> QED
    BY <1>3, <1>6, <2>1
<1>7. CASE plan.task = "TEMPORAL_CHANGE_MAP"
  <2>1. Synthesised = IF run.mask THEN <<Saying("raster")>>
                      ELSE <<Saying("no raster")>> \o Described
    BY <1>7 DEF Synthesised
  <2> QED
    BY <1>3, <1>7, <2>1, Joined
<1>8. CASE plan.task = "XMODAL_JOINT_EXTRACT"
  <2>1. Synthesised = <<Saying("no fusion")>> \o Described
    BY <1>8 DEF Synthesised
  <2> QED
    BY <1>3, <1>8, <2>1, Joined
<1>9. CASE plan.task \notin {"SINGLE_LANDCOVER", "SINGLE_CAPTION", "SINGLE_GROUND",
                             "TEMPORAL_CHANGE_DESC", "TEMPORAL_CHANGE_MAP", "XMODAL_JOINT_EXTRACT"}
  <2>1. Synthesised = <<>>
    BY <1>9 DEF Synthesised
  <2> QED
    BY <1>9, <2>1
<1> QED
  BY <1>4, <1>5, <1>6, <1>7, <1>8, <1>9

LEMMA WhereaboutsTyped == Whereabouts \subseteq Seq(Sentences)
<1>1. /\ <<Saying("no georeferencing")>> \in Seq(Sentences)
      /\ <<Saying("location")>> \in Seq(Sentences)
  <2>1. Saying("no georeferencing") \in Sentences /\ Saying("location") \in Sentences
    BY SayingTyped DEF Texts
  <2> QED
    BY <2>1, OneOf
<1>2. \A s \in Places : <<Naming("place", s)>> \in Seq(Sentences)
  <2>1. \A s \in Places : Naming("place", s) \in Sentences
    BY NamingTyped, QueryAssumption DEF QueryAssumption, Texts
  <2> QED
    BY <2>1, OneOf
<1>3. {<<>>} \cup {<<Naming("place", s)>> : s \in Places} \subseteq Seq(Sentences)
  <2>1. <<>> \in Seq(Sentences)
    OBVIOUS
  <2> QED
    BY <1>2, <2>1, Zenon
<1>4. \A place \in Seq(Sentences) : <<Saying("location")>> \o place \in Seq(Sentences)
  BY <1>1, Joined
<1> QED
  BY <1>1, <1>3, <1>4 DEF Whereabouts

(* What is composed is a list of sentences, and for the two tasks that can  *)
(* do without their learned tools there is one.                             *)
LEMMA DraftsTyped ==
    ASSUME RunTyped, NEW draft \in Drafts
    PROVE  /\ draft \in Seq(Sentences)
           /\ plan.task \in {"SINGLE_LANDCOVER", "TEMPORAL_CHANGE_MAP"} => draft # <<>>
<1>1. run.told \in Seq(Sentences) /\ Synthesised \in Seq(Sentences)
      /\ (plan.task \in {"SINGLE_LANDCOVER", "TEMPORAL_CHANGE_MAP"} => Synthesised # <<>>)
  BY SynthesisedTyped DEF RunTyped
<1>2. CASE plan.task \in Enrichable
  <2>1. PICK where \in Whereabouts : draft = run.told \o Synthesised \o where
    BY <1>2 DEF Drafts
  <2>2. where \in Seq(Sentences)
    BY WhereaboutsTyped
  <2> QED
    BY <1>1, <2>1, <2>2
<1>3. CASE plan.task \notin Enrichable
  <2>1. draft = IF run.told = <<>> THEN Synthesised ELSE run.told
    BY <1>3 DEF Drafts
  <2> QED
    BY <1>1, <2>1
<1> QED
  BY <1>2, <1>3

-----------------------------------------------------------------------------
(* The gate and the confidence.                                             *)

ClaimType(c) == c.subject \in Subjects /\ c.value \in Int

LEMMA ClaimsTyped ==
    ASSUME NEW s \in Sentences, NEW c \in Claims(s)
    PROVE  ClaimType(c)
<1>1. PICK p \in s.parts :
        c \in IF p.percent
              THEN {Claim("fraction", f[1], f[2]) : f \in p.fractions}
              ELSE {Claim("presence", n, 0) : n \in p.named}
  BY DEF Claims
<1>2. p.fractions \in SUBSET (Subjects \X Int) /\ p.named \in SUBSET Subjects
  BY DEF Sentences
<1>3. CASE p.percent
  <2>1. PICK f \in p.fractions : c = Claim("fraction", f[1], f[2])
    BY <1>1, <1>3
  <2>2. f[1] \in Subjects /\ f[2] \in Int
    BY <1>2
  <2> QED
    BY <2>1, <2>2 DEF Claim, ClaimType
<1>4. CASE ~p.percent
  <2>1. PICK n \in p.named : c = Claim("presence", n, 0)
    BY <1>1, <1>4
  <2> QED
    BY <1>2, <2>1 DEF Claim, ClaimType
<1> QED
  BY <1>3, <1>4

(* A score is at least zero, whatever the claim and the measurement.        *)
LEMMA AgreementIsNat ==
    ASSUME NEW measured, \A x \in DOMAIN measured : measured[x].pct \in Nat,
           NEW c, ClaimType(c)
    PROVE  Agreement(c, measured) \in Nat
<1>1. CASE ~Checkable(c, measured)
  BY <1>1 DEF Agreement
<1>2. CASE Checkable(c, measured)
  <2> DEFINE x == CHOOSE n \in MeasuredBy(c.subject, measured) : TRUE
             found == measured[x].pct
             error == IF c.value > found THEN c.value - found ELSE found - c.value
  <2>1. x \in DOMAIN measured
    <3>1. MeasuredBy(c.subject, measured) \subseteq DOMAIN measured
      BY DEF ClaimType, MeasuredBy, Subjects
    <3>2. x \in MeasuredBy(c.subject, measured)
      BY <1>2 DEF Checkable
    <3> QED
      BY <3>1, <3>2
  <2>2. found \in Nat
    BY <2>1
  <2>3. Agreement(c, measured) = Least(Agrees(c, found), IF x = "builtup_proxy" THEN 70 ELSE 100)
    BY <1>2 DEF Agreement
  <2> HIDE DEF x, found
  <2>4. Agrees(c, found) \in Nat
    <3>1. error \in Nat
      BY <2>2 DEF ClaimType
    <3>2. Agrees(c, found) = IF c.kind = "presence" THEN (IF found >= 5 THEN 100 ELSE 30)
                             ELSE IF error <= 10 THEN 100
                             ELSE IF error >= 25 THEN 0
                             ELSE 100 - (100 * (error - 10)) \div 15
      BY DEF Agrees
    <3> HIDE DEF error
    <3>3. error < 25 /\ error > 10 => 100 - (100 * (error - 10)) \div 15 \in Nat
      BY <3>1
    <3> QED
      BY <3>1, <3>2, <3>3
  <2> QED
    BY <2>3, <2>4 DEF Least
<1> QED
  BY <1>1, <1>2

(* If any checkable claim of a sentence is below the bar, so is one of those *)
(* it is judged by.                                                         *)
LEMMA WorstIsJudged ==
    ASSUME NEW measured, \A x \in DOMAIN measured : measured[x].pct \in Nat,
           NEW s \in Sentences, NEW c \in Claims(s), Checkable(c, measured),
           Agreement(c, measured) < 50
    PROVE  Contradicted(s, measured)
<1> DEFINE T == {Agreement(d, measured) : d \in {e \in Claims(s) : Checkable(e, measured)}}
<1>1. T \subseteq Nat
  BY ClaimsTyped, AgreementIsNat
<1>2. Agreement(c, measured) \in T
  OBVIOUS
<1>3. \E m \in T : \A n \in T : ~(<<n, m>> \in OpToRel(<, Nat))
  <2> HIDE DEF T
  <2> QED
    BY <1>1, <1>2, NatLessThanWellFounded, WFMin
<1>4. PICK m \in T : \A n \in T : ~(<<n, m>> \in OpToRel(<, Nat))
  BY <1>3
<1>5. \A n \in T : m <= n
  <2> SUFFICES ASSUME NEW n \in T PROVE m <= n
    OBVIOUS
  <2>1. ~(<<n, m>> \in OpToRel(<, Nat))
    BY <1>4
  <2>2. m \in Nat /\ n \in Nat
    BY <1>1
  <2> QED
    BY <2>1, <2>2 DEF OpToRel
<1>6. PICK d \in {e \in Claims(s) : Checkable(e, measured)} : m = Agreement(d, measured)
  OBVIOUS
<1>7. d \in Judged(s, measured)
  BY <1>5, <1>6 DEF Judged
<1>8. Agreement(d, measured) < 50
  BY <1>1, <1>2, <1>5, <1>6
<1> QED
  BY <1>7, <1>8 DEF Contradicted

(* What the gate is there for, of one sentence.                             *)
Stands(s, measured) ==
    ~s.short => \A c \in Claims(s) : Checkable(c, measured) => Agreement(c, measured) >= 50

LEMMA UnflaggedStands ==
    ASSUME NEW measured, \A x \in DOMAIN measured : measured[x].pct \in Nat,
           NEW s \in Sentences, s.short \/ ~Contradicted(s, measured)
    PROVE  Stands(s, measured)
<1> SUFFICES ASSUME ~s.short, NEW c \in Claims(s), Checkable(c, measured)
             PROVE  Agreement(c, measured) >= 50
  BY DEF Stands
<1>1. Agreement(c, measured) \in Nat
  BY ClaimsTyped, AgreementIsNat
<1> QED
  BY <1>1, WorstIsJudged

LEMMA SayingStands == ASSUME NEW text, NEW measured PROVE Stands(Saying(text), measured)
  BY DEF Stands, Saying, Sentence, Claims

(* What passes the gate is sentences that stand, and at least one of them.  *)
LEMMA GatedStands ==
    ASSUME NEW measured, \A x \in DOMAIN measured : measured[x].pct \in Nat,
           NEW answer \in Seq(Sentences), NEW doubted,
           NEW flagged, flagged = Flagged(answer, measured, doubted)
    PROVE  /\ Gated(answer, flagged) \in Seq(Sentences)
           /\ answer # <<>> => Gated(answer, flagged) # <<>>
           /\ \A i \in DOMAIN Gated(answer, flagged) : Stands(Gated(answer, flagged)[i], measured)
<1> DEFINE kept == {i \in DOMAIN answer : i \notin flagged /\ ~answer[i].short}
<1>1. \A i \in DOMAIN answer : answer[i] \in Sentences
  OBVIOUS
<1>2. \A i \in DOMAIN answer : i \notin flagged => Stands(answer[i], measured)
  <2> SUFFICES ASSUME NEW i \in DOMAIN answer, i \notin flagged PROVE Stands(answer[i], measured)
    OBVIOUS
  <2>1. answer[i].short \/ ~Contradicted(answer[i], measured)
    BY DEF Flagged
  <2> QED
    BY <1>1, <2>1, UnflaggedStands
<1>3. CASE flagged = {}
  <2>1. Gated(answer, flagged) = answer
    BY <1>3 DEF Gated
  <2> QED
    BY <1>2, <1>3, <2>1
<1>4. CASE flagged # {} /\ kept = {}
  <2>1. Gated(answer, flagged) = <<NothingLeft>>
    BY <1>4 DEF Gated
  <2>2. NothingLeft \in Sentences /\ Stands(NothingLeft, measured)
    BY SayingTyped, SayingStands DEF NothingLeft, Texts
  <2> QED
    BY <2>1, <2>2
<1>5. CASE flagged # {} /\ kept # {}
  <2>1. Gated(answer, flagged) = At(answer, kept)
    BY <1>5 DEF Gated
  <2>2. kept \in SUBSET DOMAIN answer
    OBVIOUS
  <2>3. \A k \in kept : Stands(answer[k], measured)
    BY <1>2
  <2> HIDE DEF kept
  <2>4. /\ At(answer, kept) \in Seq(Sentences)
        /\ At(answer, kept) # <<>>
        /\ \A n \in DOMAIN At(answer, kept) : \E k \in kept : At(answer, kept)[n] = answer[k]
    BY <1>5, <2>2, TakenAt, TakenSome
  <2> QED
    BY <2>1, <2>3, <2>4
<1> QED
  BY <1>3, <1>4, <1>5

(* Nothing is claimed with confidence when the model claims nothing.        *)
LEMMA NoModelNoConfidence ==
    ASSUME NEW answer, NEW measured, IsFiniteSet(DOMAIN measured),
           NEW quality, NEW stubbed, NEW unclaimed
    PROVE  Below(Confidence(0, Physics(answer, measured), quality, stubbed, unclaimed), 25)
<1> DEFINE keys == {k \in Keys : \E i \in DOMAIN answer : About(answer[i], k) # {}}
           n == Cardinality(keys) + Cardinality(DOMAIN measured)
           physics == Physics(answer, measured)
           score == Score(0, physics, quality)
<1>1. n \in Nat
  <2>1. IsFiniteSet(Keys)
    <3>1. IsFiniteSet({"fraction"}) /\ IsFiniteSet({"vegetation"})
      BY FS_Singleton
    <3>2. IsFiniteSet({"fraction"} \cup {"presence"}) /\ IsFiniteSet({"vegetation"} \cup {"water"})
      BY <3>1, FS_AddElement
    <3>3. IsFiniteSet({"vegetation"} \cup {"water"} \cup {"built_up"})
      BY <3>2, FS_AddElement
    <3>4. /\ {"fraction"} \cup {"presence"} = {"fraction", "presence"}
          /\ {"vegetation"} \cup {"water"} \cup {"built_up"} = Subjects
      BY DEF Subjects
    <3>5. IsFiniteSet({"fraction", "presence"}) /\ IsFiniteSet(Subjects)
      BY <3>2, <3>3, <3>4
    <3> QED
      BY <3>5, FS_Product DEF Keys
  <2>2. IsFiniteSet(keys)
    BY <2>1, FS_Subset
  <2> QED
    BY <2>2, FS_CardinalityType
<1>2. physics.n \in Nat /\ physics.n > 0
  <2> HIDE DEF n, keys
  <2>1. physics.n = IF n = 0 THEN 1 ELSE n
    BY DEF Physics, n, keys
  <2> QED
    BY <1>1, <2>1
<1> HIDE DEF physics
<1>3. score = [cube |-> 0, n |-> physics.n]
  BY DEF Score
<1> HIDE DEF score
<1>4. Below(score, 44) /\ Below(score, 25)
  BY <1>2, <1>3 DEF Below
<1>5. Confidence(0, physics, quality, stubbed, unclaimed) = score
  BY <1>4 DEF Confidence, Capped, score
<1> QED
  BY <1>4, <1>5 DEF physics

-----------------------------------------------------------------------------
(* The run, step by step.                                                   *)

Optical == {"ndvi", "ndwi", "mndwi", "ndbi"}

(* The steps of the plan that the run is past have run, unless the plan can *)
(* do without them.                                                         *)
Passed ==
    ~request.lite /\ run.failure = {} =>
        \A i \in DOMAIN plan.steps :
            i < run.next => \/ ~plan.steps[i].aborts
                            \/ \E j \in DOMAIN run.ran : run.ran[j] = plan.steps[i].tool

(* What the user asked for is planned, or known to be excluded.             *)
Noted == routed.asked = {} \/ plan.task \in routed.asked \/ routed.excluded # {}

Shed == request.lite /\ Len(plan.steps) < Len(Matrix[plan.task].tools)

(* What will be read instead of an answer, when there is no answer.         *)
Excused == run.failure # {} \/ run.degraded \/ plan.task = Clarify

Empty == outcome.answer = <<>>

(* Everything the run will be asked about at its end, as it is known on the   *)
(* way: the answer is missing only with an excuse, or with no confidence in *)
(* the model, and what the gate let through stands.                         *)
Accounted ==
    /\ RunTyped
    /\ manifest.available \subseteq Optical
    /\ DOMAIN outcome = DOMAIN Fresh /\ outcome.answer \in Seq(Sentences)
    /\ pc \in {"ingest", "route"} => routed = Unrouted /\ run = Started
    /\ pc \in {"steps", "gate", "decide", "done"} => Shaped(plan, request.lite) /\ Noted
    /\ pc = "steps" => Passed /\ ~run.degraded
    /\ pc \in {"gate", "decide"} => (run.degraded => Shed)
    /\ pc = "gate" => (Empty => Excused \/ run.model = 0)
    /\ pc = "decide" => /\ Empty => Excused \/ Below(outcome.final, 25)
                        /\ \A i \in DOMAIN outcome.answer :
                             Stands(outcome.answer[i], run.measured)
    /\ pc = "done" => NoSilentAnswer /\ AskedOrTold /\ ShownAgrees

LEMMA FiniteIndices ==
    ASSUME NEW S \in SUBSET (Optical \cup {"builtup_proxy", "sigma0", "ratio"})
    PROVE  IsFiniteSet(S)
<1> DEFINE all == {"ndvi"} \cup {"ndwi"} \cup {"mndwi"} \cup {"ndbi"}
                  \cup {"builtup_proxy"} \cup {"sigma0"} \cup {"ratio"}
<1>1. \A T, x : IsFiniteSet(T) => IsFiniteSet(T \cup {x})
  BY FS_AddElement
<1>2. IsFiniteSet({"ndvi"})
  BY FS_Singleton
<1>3. IsFiniteSet(all)
  BY <1>1, <1>2
<1>4. S \in SUBSET all
  BY DEF Optical
<1> QED
  BY <1>3, <1>4, FS_Subset

LEMMA ReadingTyped ==
    ASSUME manifest.available \subseteq Optical, NEW reading \in Readings
    PROVE  /\ IsFiniteSet(DOMAIN reading)
           /\ \A x \in DOMAIN reading : reading[x].pct \in Nat
<1>1. Computed \in SUBSET (Optical \cup {"builtup_proxy", "sigma0", "ratio"})
  BY DEF Computed
<1> DEFINE read(share, trust) ==
             [x \in Computed |-> [pct |-> IF x \in {"sigma0", "ratio"} THEN 0 ELSE share[x],
                                 threshold |-> trust]]
           shares == [Computed \ {"sigma0", "ratio"} -> Shares]
<1>2. \A share \in shares : \A trust : /\ DOMAIN read(share, trust) = Computed
                                      /\ \A x \in Computed : read(share, trust)[x].pct \in Nat
  BY QueryAssumption DEF QueryAssumption
<1>3. Readings = {read(share, trust) : share \in shares, trust \in Trust}
  BY DEF Readings
<1> HIDE DEF read, shares
<1>4. \E share \in shares, trust \in Trust : reading = read(share, trust)
  BY <1>3
<1>5. DOMAIN reading = Computed /\ \A x \in Computed : reading[x].pct \in Nat
  BY <1>2, <1>4
<1> QED
  BY <1>1, <1>5, FiniteIndices

(* A tool that returned is added to those that ran, and what it returned    *)
(* replaces what was there.                                                 *)
LEMMA Advanced ==
    ASSUME RunTyped, NEW fields, Advance(fields), Current.tool \in Tools,
           DOMAIN fields \subseteq DOMAIN Started \ {"next", "ran", "failure", "degraded"}
    PROVE  /\ DOMAIN run' = DOMAIN Started
           /\ run'.next = run.next + 1
           /\ run'.ran = Append(run.ran, Current.tool)
           /\ run'.failure = run.failure /\ run'.degraded = run.degraded
           /\ \A f \in DOMAIN fields : run'[f] = fields[f]
           /\ \A f \in DOMAIN Started \ (DOMAIN fields \cup {"next", "ran"}) : run'[f] = run[f]
<1> DEFINE moved == [run EXCEPT !.next = @ + 1, !.ran = Append(@, Current.tool)]
<1>1. /\ DOMAIN moved = DOMAIN Started
      /\ moved.next = run.next + 1 /\ moved.ran = Append(run.ran, Current.tool)
      /\ \A f \in DOMAIN Started \ {"next", "ran"} : moved[f] = run[f]
  BY DEF RunTyped, Started
<1>2. run' = [f \in DOMAIN run |-> IF f \in DOMAIN fields THEN fields[f] ELSE moved[f]]
  BY DEF Advance
<1> HIDE DEF moved
<1>3. DOMAIN run = DOMAIN Started
  BY DEF RunTyped
<1>4. DOMAIN run' = DOMAIN Started
  BY <1>2, <1>3
<1>5. {"next", "ran", "failure", "degraded"} \subseteq DOMAIN Started
  BY DEF Started
<1>6. \A f \in DOMAIN Started : run'[f] = IF f \in DOMAIN fields THEN fields[f] ELSE moved[f]
  BY <1>2, <1>3
<1> QED
  BY <1>1, <1>4, <1>5, <1>6

LEMMA IndexRunTyped ==
    ASSUME RunTyped, manifest.available \subseteq Optical, RunIndex
    PROVE  RunTyped' /\ run'.failure = run.failure /\ run'.degraded = run.degraded
           /\ run'.next = run.next + 1 /\ run'.ran = Append(run.ran, Current.tool)
<1>1. PICK reading \in Readings : Advance([measured |-> reading])
  BY DEF RunIndex
<1> DEFINE fields == [measured |-> reading]
<1>2. DOMAIN fields = {"measured"} /\ fields["measured"] = reading
  OBVIOUS
<1>3. Current.tool \in Tools
  BY DEF RunIndex, Tools
<1>4. DOMAIN fields \subseteq DOMAIN Started \ {"next", "ran", "failure", "degraded"}
  BY <1>2 DEF Started
<1>5. Advance(fields)
  BY <1>1
<1> HIDE DEF fields
<1>6. /\ DOMAIN run' = DOMAIN Started
      /\ run'.next = run.next + 1
      /\ run'.ran = Append(run.ran, Current.tool)
      /\ run'.failure = run.failure /\ run'.degraded = run.degraded
      /\ \A f \in DOMAIN fields : run'[f] = fields[f]
      /\ \A f \in DOMAIN Started \ (DOMAIN fields \cup {"next", "ran"}) : run'[f] = run[f]
  BY <1>3, <1>4, <1>5, Advanced
<1>7. {"told", "labels", "model"} \subseteq DOMAIN Started \ (DOMAIN fields \cup {"next", "ran"})
  BY <1>2 DEF Started
<1>8. run'.told = run.told /\ run'.labels = run.labels /\ run'.model = run.model
  BY <1>6, <1>7
<1>9. run'.measured = reading
  BY <1>2, <1>6
<1>10. IsFiniteSet(DOMAIN reading) /\ \A x \in DOMAIN reading : reading[x].pct \in Nat
  BY ReadingTyped
<1>11. run'.next \in Nat \ {0} /\ run'.ran \in Seq(Tools)
  BY <1>3, <1>6 DEF RunTyped
<1>12. run'.told \in Seq(Sentences) /\ run'.labels \in SUBSET SUBSET Subjects /\ run'.model \in Nat
  BY <1>8 DEF RunTyped
<1> QED
  BY <1>6, <1>9, <1>10, <1>11, <1>12 DEF RunTyped, Started

LEMMA LearnedRunTyped ==
    ASSUME RunTyped, RunLearned, Current.tool \in Tools
    PROVE  RunTyped' /\ run'.failure = run.failure /\ run'.degraded = run.degraded
           /\ run'.next = run.next + 1 /\ run'.ran = Append(run.ran, Current.tool)
<1>1. PICK r \in Results(Current.tool) : Advance(Contribution(r))
  BY DEF RunLearned
<1>2. r \in ResultType
  BY ResultsTyped DEF RunLearned, Tools
<1> DEFINE fields == Contribution(r)
<1>3. DOMAIN fields = {"told", "labels", "boxes", "mask", "model", "scored", "stubbed", "silent"}
  BY DEF Contribution
<1>4. fields.told \in Seq(Sentences)
  <2>1. fields.told = IF r.told = {} THEN run.told ELSE CHOOSE a \in r.told : TRUE
    BY DEF Contribution
  <2>2. r.told \in SUBSET Seq(Sentences)
    BY <1>2 DEF ResultType
  <2>3. r.told # {} => (CHOOSE a \in r.told : TRUE) \in r.told
    OBVIOUS
  <2> HIDE DEF fields
  <2> QED
    BY <2>1, <2>2, <2>3 DEF RunTyped
<1>5. fields.labels \in SUBSET SUBSET Subjects
  <2>1. fields.labels = run.labels \cup r.labels
    BY DEF Contribution
  <2> QED
    BY <1>2, <2>1 DEF RunTyped, ResultType
<1>6. fields.model \in Nat
  <2>1. fields.model = r.score \/ fields.model = run.model
    BY DEF Contribution
  <2> QED
    BY <1>2, <2>1 DEF RunTyped, ResultType
<1>7. DOMAIN fields \subseteq DOMAIN Started \ {"next", "ran", "failure", "degraded"}
  BY <1>3 DEF Started
<1>8. Advance(fields)
  BY <1>1
<1> HIDE DEF fields
<1>9. /\ DOMAIN run' = DOMAIN Started
      /\ run'.next = run.next + 1
      /\ run'.ran = Append(run.ran, Current.tool)
      /\ run'.failure = run.failure /\ run'.degraded = run.degraded
      /\ \A f \in DOMAIN fields : run'[f] = fields[f]
      /\ \A f \in DOMAIN Started \ (DOMAIN fields \cup {"next", "ran"}) : run'[f] = run[f]
  BY <1>7, <1>8, Advanced
<1>10. "measured" \in DOMAIN Started \ (DOMAIN fields \cup {"next", "ran"})
  BY <1>3 DEF Started
<1>11. run'.measured = run.measured
  BY <1>9, <1>10
<1>12. run'.told = fields.told /\ run'.labels = fields.labels /\ run'.model = fields.model
  BY <1>3, <1>9
<1>13. run'.next \in Nat \ {0} /\ run'.ran \in Seq(Tools)
  BY <1>9 DEF RunTyped
<1> QED
  BY <1>4, <1>5, <1>6, <1>9, <1>11, <1>12, <1>13 DEF RunTyped, Started

LEMMA InitiallyAccounted == Init => Accounted
<1> SUFFICES ASSUME Init PROVE Accounted
  OBVIOUS
<1>1. RunTyped
  <2>1. run = Started
    BY DEF Init
  <2>2. DOMAIN run.measured = {}
    BY <2>1 DEF Started, Nothing
  <2>3. IsFiniteSet({})
    BY FS_EmptySet
  <2>4. run.ran \in Seq(Tools) /\ run.told \in Seq(Sentences)
    BY <2>1 DEF Started
  <2> QED
    BY <2>1, <2>2, <2>3, <2>4 DEF RunTyped, Started
<1>2. manifest.available = {}
  BY DEF Init, Blank
<1>3. DOMAIN outcome = DOMAIN Fresh /\ outcome.answer \in Seq(Sentences)
  BY DEF Init, Fresh
<1> QED
  BY <1>1, <1>2, <1>3 DEF Init, Accounted

LEMMA ManifestAvailable ==
    ASSUME NEW files, NEW benchmark
    PROVE  Manifest(files, benchmark).available \subseteq Optical
<1> DEFINE m == Manifest(files, benchmark)
<1>1. \A present : Available(present) \subseteq Optical
  BY DEF Available, Optical
<1>2. m.available = {} \/ \E present : m.available = Available(present)
  BY DEF Manifest, Blank
<1> QED
  BY <1>1, <1>2

LEMMA IngestAccounted == ASSUME Accounted, IngestRaises \/ DoIngest PROVE Accounted'
<1>1. /\ RunTyped' /\ outcome' = outcome
      /\ manifest'.available \subseteq Optical
  BY ManifestAvailable DEF Accounted, IngestRaises, DoIngest, RunTyped
<1>2. pc = "ingest" /\ pc' \in {"raised", "route"} /\ routed' = routed /\ run' = run
  BY DEF IngestRaises, DoIngest
<1> QED
  BY <1>1, <1>2 DEF Accounted

(* Whatever is planned is a plan of the task it is for.                     *)
LEMMA PlannedShape ==
    ASSUME NEW task \in Tasks, Planned(task)
    PROVE  \/ pc' = "raised"
           \/ pc' = "steps" /\ Shaped(plan', request.lite) /\ plan'.task = task
<1> DEFINE base == Plan(task, LegalTasks(manifest), request.lite)
           full == WithParams(base, request.given)
<1>1. pc' = "raised" \/ (pc' = "steps" /\ plan' = full)
  BY DEF Planned
<1>2. Shaped(base, request.lite) /\ base.task = task
  BY StepsOf
<1> HIDE DEF base
<1>3. Shaped(full, request.lite) /\ full.task = base.task
  BY <1>2, StepsWithParams
<1> QED
  BY <1>1, <1>2, <1>3

LEMMA RouteAccounted == ASSUME Accounted, RouteBlocked \/ Route PROVE Accounted'
<1>1. /\ pc = "route" /\ routed = Unrouted /\ run = Started
      /\ run' = run /\ manifest' = manifest /\ outcome' = outcome /\ request' = request
  BY DEF Accounted, RouteBlocked, Route
<1>2. \/ pc' = "raised"
      \/ pc' = "steps" /\ Shaped(plan', request.lite) /\ Noted'
  <2>1. CASE RouteBlocked
    <3>1. Planned(Clarify) /\ routed' = Unrouted
      BY <1>1, <2>1 DEF RouteBlocked
    <3>2. Clarify \in Tasks
      BY DEF Tasks, Clarify
    <3>3. routed'.asked = {}
      BY <3>1 DEF Unrouted
    <3> QED
      BY <3>1, <3>2, <3>3, PlannedShape DEF Noted
  <2>2. CASE Route
    <3> DEFINE legal == LegalTasks(manifest)
    <3>1. PICK p \in Prediction, q \in Prediction :
            /\ Restricted(p, q, legal)
            /\ routed' = [asked |-> IF p.sure = "majority" /\ p.evidence THEN {p.task} ELSE {},
                          excluded |-> Excluded(p, manifest)]
            /\ Planned(Selected(q, legal))
      BY <2>2 DEF Route
    <3> HIDE DEF legal
    <3> DEFINE task == Selected(q, legal)
    <3>2. task \in Tasks
      BY DEF Selected, Prediction, Tasks, SingleImage, Clarify
    <3>3. pc' = "raised" \/ (pc' = "steps" /\ Shaped(plan', request.lite) /\ plan'.task = task)
      BY <3>1, <3>2, PlannedShape
    <3>4. routed'.asked = {} \/ task \in routed'.asked \/ routed'.excluded # {}
      <4> SUFFICES ASSUME p.sure = "majority", p.evidence, p.task \in legal
                   PROVE  task = p.task
        BY <3>1 DEF Excluded, legal
      <4>1. q.task = p.task /\ q.evidence = p.evidence /\ q.sure # "weak"
        BY <3>1 DEF Restricted
      <4> QED
        BY <4>1 DEF Selected
    <3> HIDE DEF task
    <3> QED
      BY <3>3, <3>4 DEF Noted
  <2> QED
    BY <2>1, <2>2
<1>3. RunTyped'
  BY <1>1 DEF Accounted, RunTyped
<1>4. Shaped(plan', request.lite) => Shaped(plan, request.lite)'
  BY <1>1 DEF Shaped
<1>5. ASSUME Shaped(plan', request.lite) PROVE Passed'
  <2>1. run'.next = 1
    BY <1>1 DEF Started
  <2>2. \A i \in DOMAIN plan'.steps : ~(i < run'.next)
    <3>1. DOMAIN plan'.steps = 1 .. Len(plan'.steps) /\ Len(plan'.steps) \in Nat
      BY <1>5 DEF Shaped
    <3> QED
      BY <2>1, <3>1
  <2> QED
    BY <2>2 DEF Passed
<1>6. ~run'.degraded
  BY <1>1 DEF Started
<1> QED
  BY <1>1, <1>2, <1>3, <1>4, <1>5, <1>6 DEF Accounted

LEMMA CurrentTyped ==
    ASSUME Accounted, AtStep
    PROVE  run.next \in DOMAIN plan.steps /\ Current.tool \in Tools /\ Shaped(plan, request.lite)
<1>1. Shaped(plan, request.lite) /\ run.next \in Nat \ {0} /\ run.next <= Len(plan.steps)
  BY DEF Accounted, AtStep, RunTyped
<1>2. run.next \in DOMAIN plan.steps
  BY <1>1 DEF Shaped
<1> QED
  BY <1>1, <1>2 DEF Shaped, Current

(* The loop goes on to the next step: the one it was at ran, or was one the *)
(* plan can do without.                                                     *)
LEMMA StepPassed ==
    ASSUME Accounted, AtStep, request' = request, plan' = plan,
           run'.failure = run.failure, run'.next = run.next + 1,
           \/ run'.ran = Append(run.ran, Current.tool)
           \/ run'.ran = run.ran /\ ~Current.aborts
    PROVE  Passed'
<1> SUFFICES ASSUME ~request.lite, run.failure = {}, NEW i \in DOMAIN plan.steps,
                    i < run.next + 1, plan.steps[i].aborts
             PROVE  \E j \in DOMAIN run'.ran : run'.ran[j] = plan.steps[i].tool
  BY DEF Passed
<1>1. run.ran \in Seq(Tools) /\ run.next \in Nat /\ Passed
  BY DEF Accounted, RunTyped, AtStep
<1>2. i \in Nat
  BY CurrentTyped DEF Shaped
<1>3. CASE i < run.next
  <2>1. PICK j \in DOMAIN run.ran : run.ran[j] = plan.steps[i].tool
    BY <1>1, <1>3 DEF Passed
  <2>2. j \in DOMAIN run'.ran /\ run'.ran[j] = run.ran[j]
    <3>1. CASE run'.ran = run.ran
      BY <3>1
    <3>2. CASE run'.ran = Append(run.ran, Current.tool)
      BY <1>1, <3>2
    <3> QED
      BY <3>1, <3>2
  <2> QED
    BY <2>1, <2>2
<1>4. CASE i = run.next
  <2>1. Current = plan.steps[i]
    BY <1>4 DEF Current
  <2>2. run'.ran = Append(run.ran, Current.tool)
    BY <2>1
  <2>3. Len(run.ran) + 1 \in DOMAIN run'.ran /\ run'.ran[Len(run.ran) + 1] = Current.tool
    BY <1>1, <2>2
  <2> QED
    BY <2>1, <2>3
<1> QED
  BY <1>1, <1>2, <1>3, <1>4

LEMMA RunAccounted == ASSUME Accounted, RunIndex \/ RunLearned PROVE Accounted'
<1>1. /\ AtStep /\ pc = "steps"
      /\ UNCHANGED <<pc, request, manifest, routed, plan, outcome>>
  BY DEF RunIndex, RunLearned, AtStep
<1>2. RunTyped /\ manifest.available \subseteq Optical
  BY DEF Accounted
<1>3. /\ RunTyped' /\ run'.failure = run.failure /\ run'.degraded = run.degraded
      /\ run'.next = run.next + 1 /\ run'.ran = Append(run.ran, Current.tool)
  BY <1>1, <1>2, CurrentTyped, IndexRunTyped, LearnedRunTyped
<1>4. Passed'
  BY <1>1, <1>3, StepPassed
<1>5. Shaped(plan, request.lite)' /\ Noted'
  BY <1>1 DEF Accounted, Shaped, Noted
<1> QED
  BY <1>1, <1>3, <1>4, <1>5 DEF Accounted

LEMMA AbortAccounted == ASSUME Accounted, Abort PROVE Accounted'
<1>1. /\ AtStep /\ pc = "steps"
      /\ UNCHANGED <<pc, request, manifest, routed, plan, outcome>>
      /\ run' = [run EXCEPT !.failure = {<<Current.tool, Cause>>}, !.next = Len(plan.steps) + 1]
  BY DEF Abort, AtStep
<1>2. RunTyped /\ {"next", "ran", "failure", "degraded", "told", "labels", "model", "measured"}
                    \subseteq DOMAIN run
  BY DEF Accounted, RunTyped, Started
<1>3. /\ DOMAIN run' = DOMAIN run /\ run'.failure = {<<Current.tool, Cause>>}
      /\ run'.next = Len(plan.steps) + 1
      /\ \A f \in DOMAIN run \ {"failure", "next"} : run'[f] = run[f]
  BY <1>1, <1>2
<1>4. run'.next \in Nat \ {0}
  BY <1>1, <1>3, CurrentTyped DEF Shaped
<1>5. /\ run'.ran = run.ran /\ run'.told = run.told /\ run'.labels = run.labels
      /\ run'.model = run.model /\ run'.measured = run.measured /\ run'.degraded = run.degraded
  BY <1>2, <1>3
<1>6. RunTyped'
  BY <1>2, <1>3, <1>4, <1>5 DEF RunTyped, Started
<1>7. Passed'
  BY <1>3 DEF Passed
<1>8. Shaped(plan, request.lite)' /\ Noted'
  BY <1>1 DEF Accounted, Shaped, Noted
<1> QED
  BY <1>1, <1>5, <1>6, <1>7, <1>8 DEF Accounted

LEMMA FallBackAccounted == ASSUME Accounted, FallBack PROVE Accounted'
<1>1. /\ AtStep /\ pc = "steps" /\ ~Current.aborts
      /\ UNCHANGED <<pc, request, manifest, routed, plan, outcome>>
      /\ run' = [run EXCEPT !.next = @ + 1]
  BY DEF FallBack, AtStep
<1>2. RunTyped /\ {"next", "ran", "failure", "degraded", "told", "labels", "model", "measured"}
                    \subseteq DOMAIN run
  BY DEF Accounted, RunTyped, Started
<1>3. /\ DOMAIN run' = DOMAIN run /\ run'.next = run.next + 1
      /\ \A f \in DOMAIN run \ {"next"} : run'[f] = run[f]
  BY <1>1, <1>2
<1>5. /\ run'.ran = run.ran /\ run'.told = run.told /\ run'.labels = run.labels
      /\ run'.model = run.model /\ run'.measured = run.measured /\ run'.degraded = run.degraded
      /\ run'.failure = run.failure
  BY <1>2, <1>3
<1>6. RunTyped'
  BY <1>2, <1>3, <1>5 DEF RunTyped, Started
<1>7. Passed'
  BY <1>1, <1>3, <1>5, StepPassed
<1>8. Shaped(plan, request.lite)' /\ Noted'
  BY <1>1 DEF Accounted, Shaped, Noted
<1> QED
  BY <1>1, <1>5, <1>6, <1>7, <1>8 DEF Accounted

(* A run that has nothing to show and ran no learned tool, and did not fail, *)
(* is one whose profile shed them.                                          *)
LEMMA SilentIsShed ==
    ASSUME Accounted, pc = "steps", run.next > Len(plan.steps),
           NEW draft \in Drafts, Unexplained(draft), ~LearnedRan
    PROVE  Shed
<1> DEFINE tools == Matrix[plan.task].tools
<1>1. Shaped(plan, request.lite) /\ Passed /\ RunTyped /\ plan.task \in Tasks
  BY DEF Accounted, Shaped
<1>2. draft = <<>> /\ run.failure = {} /\ plan.task # Clarify
  BY DEF Unexplained
<1>3. CASE request.lite
  BY <1>1, <1>2, <1>3 DEF Shaped, Shed
<1>4. CASE ~request.lite
  <2>1. /\ Len(plan.steps) \in Nat /\ DOMAIN plan.steps = 1 .. Len(plan.steps)
        /\ Len(plan.steps) = Len(tools)
        /\ \A i \in DOMAIN plan.steps :
             /\ plan.steps[i].tool = tools[i]
             /\ plan.steps[i].aborts <=> plan.steps[i].tool \notin Matrix[plan.task].fallbacks
    BY <1>1, <1>4 DEF Shaped
  <2>2. run.next \in Nat
    BY <1>1 DEF RunTyped
  <2>3. \A i \in DOMAIN plan.steps :
          ~plan.steps[i].aborts \/ \E j \in DOMAIN run.ran : run.ran[j] = plan.steps[i].tool
    BY <1>1, <1>2, <1>4, <2>1, <2>2 DEF Passed
  <2>4. \A j \in DOMAIN run.ran : run.ran[j] = Index
    BY DEF LearnedRan
  <2>5. DOMAIN tools = DOMAIN plan.steps
    <3>1. tools \in Seq(Tools)
      BY <1>1, ToolsOf
    <3> QED
      BY <2>1, <3>1
  <2>6. \A i \in DOMAIN tools : tools[i] = Index \/ tools[i] \in Matrix[plan.task].fallbacks
    BY <2>1, <2>3, <2>4, <2>5
  <2>7. plan.task \in {"SINGLE_LANDCOVER", "TEMPORAL_CHANGE_MAP"}
    BY <1>1, <1>2, <2>6, ToolsOf
  <2>8. draft # <<>>
    BY <1>1, <2>7, DraftsTyped
  <2> QED
    BY <1>2, <2>8
<1> QED
  BY <1>3, <1>4

LEMMA ComposeAccounted == ASSUME Accounted, Compose PROVE Accounted'
<1>1. PICK draft \in Drafts :
        /\ outcome' = [outcome EXCEPT !.answer = draft]
        /\ run' = [run EXCEPT
                     !.failure = IF Unexplained(draft) /\ LearnedRan
                                 THEN {<<"none", "no answer">>} ELSE @,
                     !.degraded = Unexplained(draft) /\ ~LearnedRan]
  BY DEF Compose
<1>2. /\ pc = "steps" /\ run.next > Len(plan.steps) /\ pc' = "gate"
      /\ UNCHANGED <<request, manifest, routed, plan>>
  BY DEF Compose
<1>3. RunTyped /\ {"next", "ran", "failure", "degraded", "told", "labels", "model", "measured"}
                    \subseteq DOMAIN run
  BY DEF Accounted, RunTyped, Started
<1>4. /\ DOMAIN run' = DOMAIN run
      /\ run'.failure = IF Unexplained(draft) /\ LearnedRan
                        THEN {<<"none", "no answer">>} ELSE run.failure
      /\ run'.degraded = (Unexplained(draft) /\ ~LearnedRan)
      /\ \A f \in DOMAIN run \ {"failure", "degraded"} : run'[f] = run[f]
  BY <1>1, <1>3
<1>5. /\ run'.ran = run.ran /\ run'.told = run.told /\ run'.labels = run.labels
      /\ run'.model = run.model /\ run'.measured = run.measured /\ run'.next = run.next
  BY <1>3, <1>4
<1>6. RunTyped'
  BY <1>3, <1>4, <1>5 DEF RunTyped, Started
<1>7. /\ DOMAIN outcome' = DOMAIN Fresh /\ outcome'.answer = draft /\ draft \in Seq(Sentences)
  <2>1. DOMAIN outcome = DOMAIN Fresh /\ "answer" \in DOMAIN Fresh
    BY DEF Accounted, Fresh
  <2> QED
    BY <1>1, <1>3, <2>1, DraftsTyped
<1>8. run'.degraded => Shed'
  <2>1. run'.degraded => Unexplained(draft) /\ ~LearnedRan
    BY <1>4
  <2>2. Unexplained(draft) /\ ~LearnedRan => Shed
    BY <1>2, SilentIsShed
  <2> QED
    BY <1>2, <2>1, <2>2 DEF Shed
<1>9. draft = <<>> => run'.failure # {} \/ run'.degraded \/ plan'.task = Clarify \/ run'.model = 0
  <2> SUFFICES ASSUME draft = <<>>, run'.failure = {}, ~run'.degraded, plan'.task # Clarify
               PROVE  run'.model = 0
    OBVIOUS
  <2>1. ~Unexplained(draft)
    BY <1>4
  <2>2. run.failure = {} /\ plan.task # Clarify
    BY <1>2, <1>4, <2>1
  <2>3. ~(run.model > 0)
    BY <2>1, <2>2 DEF Unexplained
  <2>4. run.model \in Nat
    BY <1>3 DEF RunTyped
  <2>5. run.model = 0
    BY <2>3, <2>4
  <2> QED
    BY <1>5, <2>5
<1>10. Shaped(plan, request.lite)' /\ Noted'
  BY <1>2 DEF Accounted, Shaped, Noted
<1>11. (Empty => Excused \/ run.model = 0)'
  BY <1>7, <1>9 DEF Empty, Excused
<1>12. manifest'.available \subseteq Optical
  BY <1>2 DEF Accounted
<1> QED
  BY <1>2, <1>6, <1>7, <1>8, <1>10, <1>11, <1>12 DEF Accounted

LEMMA GateAccounted == ASSUME Accounted, Gate PROVE Accounted'
<1> DEFINE physics == Physics(outcome.answer, run.measured)
           quality == Quality(manifest.checks)
           final == Confidence(run.model, physics, quality, run.stubbed, Unclaimed)
<1>1. PICK doubted, flagged :
        /\ flagged = Flagged(outcome.answer, run.measured, doubted)
        /\ outcome' = [[outcome EXCEPT
                          !.judged = Cardinality(Judgable(outcome.answer)),
                          !.final = final,
                          !.limiting = Limiting(run.model, physics, quality)]
                       EXCEPT !.answer = Gated(@, flagged), !.flagged = Cardinality(flagged)]
  BY DEF Gate
<1>2. /\ pc = "gate" /\ pc' = "decide"
      /\ UNCHANGED <<request, manifest, routed, plan, run>>
  BY DEF Gate
<1>3. /\ RunTyped /\ DOMAIN outcome = DOMAIN Fresh /\ outcome.answer \in Seq(Sentences)
      /\ (Empty => Excused \/ run.model = 0)
  BY <1>2 DEF Accounted
<1>4. /\ DOMAIN outcome' = DOMAIN Fresh
      /\ outcome'.answer = Gated(outcome.answer, flagged)
      /\ outcome'.final = final
  <2> HIDE DEF final, physics, quality
  <2>1. {"answer", "final", "judged", "limiting", "flagged"} \subseteq DOMAIN outcome
    BY <1>3 DEF Fresh
  <2> QED
    BY <1>1, <1>3, <2>1
<1>5. \A x \in DOMAIN run.measured : run.measured[x].pct \in Nat
  BY <1>3 DEF RunTyped
<1>6. /\ outcome'.answer \in Seq(Sentences)
      /\ outcome'.answer = <<>> => Empty
      /\ \A i \in DOMAIN outcome'.answer : Stands(outcome'.answer[i], run.measured)
  BY <1>1, <1>3, <1>4, <1>5, GatedStands DEF Empty
<1>7. run.model = 0 => Below(final, 25)
  BY <1>3, NoModelNoConfidence DEF RunTyped
<1>8. (Empty => Excused \/ Below(outcome.final, 25))'
  <2>1. outcome'.answer = <<>> => Excused \/ Below(outcome'.final, 25)
    BY <1>3, <1>4, <1>6, <1>7
  <2> QED
    BY <1>2, <2>1 DEF Empty, Excused, Below
<1>9. (\A i \in DOMAIN outcome.answer : Stands(outcome.answer[i], run.measured))'
  BY <1>2, <1>6
<1>10. RunTyped' /\ Shaped(plan, request.lite)' /\ Noted' /\ (run.degraded => Shed)'
  BY <1>2, <1>3 DEF Accounted, RunTyped, Shaped, Noted, Shed
<1>11. manifest'.available \subseteq Optical
  BY <1>2 DEF Accounted
<1> QED
  BY <1>2, <1>4, <1>6, <1>8, <1>9, <1>10, <1>11 DEF Accounted

(* A claim that a raster carries no location is replaced, never just        *)
(* dropped, and what replaces it claims nothing.                            *)
LEMMA DisclosedStands ==
    ASSUME NEW answer \in Seq(Sentences), NEW measured,
           \A i \in DOMAIN answer : Stands(answer[i], measured)
    PROVE  /\ Disclosed(answer) \in Seq(Sentences)
           /\ answer # <<>> => Disclosed(answer) # <<>>
           /\ \A i \in DOMAIN Disclosed(answer) : Stands(Disclosed(answer)[i], measured)
<1> DEFINE kept == {i \in DOMAIN answer : answer[i].text # "carries no location"}
           cut == At(answer, kept)
           last == Saying("coordinates")
<1>1. Disclosed(answer) = Append(cut, last) \/ Disclosed(answer) = answer
  BY DEF Disclosed
<1>2. last \in Sentences /\ Stands(last, measured)
  BY SayingTyped, SayingStands DEF Texts
<1>3. kept \in SUBSET DOMAIN answer
  OBVIOUS
<1> HIDE DEF kept, last
<1>4. cut \in Seq(Sentences) /\ \A n \in DOMAIN cut : \E k \in kept : cut[n] = answer[k]
  BY <1>3, TakenAt
<1> HIDE DEF cut
<1>5. \A n \in DOMAIN cut : Stands(cut[n], measured)
  BY <1>3, <1>4
<1>6. CASE Disclosed(answer) = Append(cut, last)
  <2>1. Append(cut, last) \in Seq(Sentences) /\ Append(cut, last) # <<>>
    BY <1>2, <1>4
  <2>2. \A i \in DOMAIN Append(cut, last) : Stands(Append(cut, last)[i], measured)
    <3> SUFFICES ASSUME NEW i \in DOMAIN Append(cut, last)
                 PROVE  Stands(Append(cut, last)[i], measured)
      OBVIOUS
    <3>1. \/ i \in DOMAIN cut /\ Append(cut, last)[i] = cut[i]
          \/ Append(cut, last)[i] = last
      BY <1>2, <1>4
    <3> QED
      BY <1>2, <1>5, <3>1
  <2> QED
    BY <1>6, <2>1, <2>2
<1>7. CASE Disclosed(answer) = answer
  BY <1>7
<1> QED
  BY <1>1, <1>6, <1>7

(* The trigger of a run that has an excuse, or no confidence, is a trigger;  *)
(* and the profile is blamed for a degraded run alone.                      *)
LEMMA Triggered ==
    /\ Excused \/ Below(outcome.final, 25) => Verdict # "none"
    /\ Verdict = "profile_degraded" => run.degraded
<1> DEFINE r == [blocking |-> Blocking(manifest), degraded |-> run.degraded,
                 failure |-> run.failure # {}, clarify |-> plan.task = Clarify,
                 judged |-> outcome.judged, flagged |-> outcome.flagged,
                 final |-> outcome.final, quality |-> Quality(manifest.checks)]
<1>1. Verdict = Trigger(r)
  BY DEF Verdict
<1>2. /\ r.degraded = run.degraded /\ r.failure = (run.failure # {})
      /\ r.clarify = (plan.task = Clarify) /\ r.final = outcome.final
  OBVIOUS
<1> HIDE DEF r
<1>3. /\ r.degraded <=> run.degraded
      /\ r.failure <=> run.failure # {}
      /\ r.clarify <=> plan.task = Clarify
  BY <1>2, Zenon
<1>4. r.degraded \/ r.failure \/ r.clarify \/ Below(r.final, 25) => Trigger(r) # "none"
  BY DEF Trigger
<1>5. Trigger(r) = "profile_degraded" => r.degraded
  BY DEF Trigger
<1> QED
  BY <1>1, <1>2, <1>3, <1>4, <1>5 DEF Excused

LEMMA DecideAccounted == ASSUME Accounted, Decide PROVE Accounted'
<1>1. PICK aboutLocation \in BOOLEAN :
        outcome' = [outcome EXCEPT
            !.trigger = Verdict,
            !.shown = IF Verdict # "none" THEN <<Saying(Verdict)>>
                      ELSE IF routed.excluded # {}
                           THEN <<Saying("notice")>>
                                \o (IF aboutLocation THEN Disclosed(outcome.answer)
                                    ELSE outcome.answer)
                      ELSE (IF aboutLocation THEN Disclosed(outcome.answer) ELSE outcome.answer)]
  BY DEF Decide
<1> DEFINE answer == IF aboutLocation THEN Disclosed(outcome.answer) ELSE outcome.answer
<1>2. /\ pc = "decide" /\ pc' = "done"
      /\ UNCHANGED <<request, manifest, routed, plan, run>>
  BY DEF Decide
<1>3. /\ RunTyped /\ DOMAIN outcome = DOMAIN Fresh /\ outcome.answer \in Seq(Sentences)
      /\ (Empty => Excused \/ Below(outcome.final, 25))
      /\ (run.degraded => Shed) /\ Noted
      /\ \A i \in DOMAIN outcome.answer : Stands(outcome.answer[i], run.measured)
  BY <1>2 DEF Accounted
<1>4. /\ answer \in Seq(Sentences)
      /\ outcome.answer # <<>> => answer # <<>>
      /\ \A i \in DOMAIN answer : Stands(answer[i], run.measured)
  <2>1. /\ Disclosed(outcome.answer) \in Seq(Sentences)
        /\ outcome.answer # <<>> => Disclosed(outcome.answer) # <<>>
        /\ \A i \in DOMAIN Disclosed(outcome.answer) :
             Stands(Disclosed(outcome.answer)[i], run.measured)
    BY <1>3, DisclosedStands
  <2> QED
    BY <1>3, <2>1
<1> HIDE DEF answer
<1>5. /\ DOMAIN outcome' = DOMAIN Fresh /\ outcome'.answer = outcome.answer
      /\ outcome'.trigger = Verdict
      /\ outcome'.shown = IF Verdict # "none" THEN <<Saying(Verdict)>>
                          ELSE IF routed.excluded # {} THEN <<Saying("notice")>> \o answer
                          ELSE answer
  <2>1. {"answer", "trigger", "shown"} \subseteq DOMAIN outcome
    BY <1>3 DEF Fresh
  <2> QED
    BY <1>1, <1>3, <2>1 DEF answer
<1>6. NoSilentAnswer'
  <2>1. outcome'.shown # <<>>
    <3>1. CASE Verdict # "none"
      BY <1>5, <3>1
    <3>2. CASE Verdict = "none"
      <4>1. answer # <<>>
        BY <1>3, <1>4, <3>2, Triggered DEF Empty
      <4>2. CASE routed.excluded # {}
        <5>1. outcome'.shown = <<Saying("notice")>> \o answer
          BY <1>5, <3>2, <4>2
        <5>2. Len(outcome'.shown) = 1 + Len(answer) /\ Len(answer) \in Nat
          BY <1>4, <5>1
        <5> QED
          BY <5>2
      <4>3. CASE routed.excluded = {}
        BY <1>5, <3>2, <4>1, <4>3
      <4> QED
        BY <4>2, <4>3
    <3> QED
      BY <3>1, <3>2
  <2>2. outcome'.trigger = "profile_degraded" => Shed
    BY <1>3, <1>5, Triggered
  <2>3. Shed' <=> Shed
    BY <1>2 DEF Shed
  <2> QED
    BY <2>1, <2>2, <2>3 DEF NoSilentAnswer, Shed
<1>7. AskedOrTold'
  <2> SUFFICES ASSUME outcome'.trigger = "none", plan.task \notin routed.asked, routed.asked # {}
               PROVE  outcome'.shown[1].text = "notice"
    BY <1>2 DEF AskedOrTold, Answered
  <2>1. routed.excluded # {} /\ Verdict = "none"
    BY <1>3, <1>5 DEF Noted
  <2>2. outcome'.shown = <<Saying("notice")>> \o answer
    BY <1>5, <2>1
  <2>3. outcome'.shown[1] = Saying("notice")
    BY <1>4, <2>2
  <2> QED
    BY <2>3 DEF Saying, Sentence
<1>8. ShownAgrees'
  <2> SUFFICES ASSUME outcome'.trigger = "none"
               PROVE  \A i \in DOMAIN outcome'.shown : Stands(outcome'.shown[i], run.measured)
    BY <1>2 DEF ShownAgrees, Answered, Stands
  <2>1. Verdict = "none"
    BY <1>5
  <2>2. CASE routed.excluded # {}
    <3>1. outcome'.shown = <<Saying("notice")>> \o answer
      BY <1>5, <2>1, <2>2
    <3>2. \A i \in DOMAIN outcome'.shown :
            \/ outcome'.shown[i] = Saying("notice")
            \/ \E j \in DOMAIN answer : outcome'.shown[i] = answer[j]
      BY <1>4, <3>1
    <3> QED
      BY <1>4, <3>2, SayingStands
  <2>3. CASE routed.excluded = {}
    BY <1>4, <1>5, <2>1, <2>3
  <2> QED
    BY <2>2, <2>3
<1>9. RunTyped' /\ Shaped(plan, request.lite)' /\ Noted'
  BY <1>2, <1>3 DEF Accounted, RunTyped, Shaped, Noted
<1>10. manifest'.available \subseteq Optical
  BY <1>2 DEF Accounted
<1> QED
  BY <1>2, <1>3, <1>5, <1>6, <1>7, <1>8, <1>9, <1>10 DEF Accounted

LEMMA StutterAccounted == ASSUME Accounted, UNCHANGED vars PROVE Accounted'
<1>1. /\ pc' = pc /\ request' = request /\ manifest' = manifest /\ routed' = routed
      /\ plan' = plan /\ run' = run /\ outcome' = outcome
  BY DEF vars
<1>2. /\ RunTyped' <=> RunTyped
      /\ Noted' <=> Noted
      /\ Passed' <=> Passed
      /\ Shed' <=> Shed
      /\ Empty' <=> Empty
      /\ Excused' <=> Excused
  BY <1>1 DEF RunTyped, Noted, Passed, Shed, Empty, Excused
<1>7. Shaped(plan, request.lite)' <=> Shaped(plan, request.lite)
  BY <1>1 DEF Shaped
<1>3. NoSilentAnswer' <=> NoSilentAnswer
  BY <1>1 DEF NoSilentAnswer, Decided
<1>4. AskedOrTold' <=> AskedOrTold
  BY <1>1 DEF AskedOrTold, Answered, Decided
<1>5. ShownAgrees' <=> ShownAgrees
  BY <1>1 DEF ShownAgrees, Answered, Decided
<1>6. /\ Below(outcome.final, 25)' <=> Below(outcome.final, 25)
      /\ (\A i \in DOMAIN outcome.answer : Stands(outcome.answer[i], run.measured))'
         <=> \A i \in DOMAIN outcome.answer : Stands(outcome.answer[i], run.measured)
  BY <1>1
<1> QED
  BY <1>1, <1>2, <1>3, <1>4, <1>5, <1>6, <1>7 DEF Accounted

LEMMA AlwaysAccounted == Spec => []Accounted
<1>1. Init => Accounted
  BY InitiallyAccounted
<1>2. Accounted /\ [Next]_vars => Accounted'
  BY IngestAccounted, RouteAccounted, RunAccounted, AbortAccounted, FallBackAccounted,
     ComposeAccounted, GateAccounted, DecideAccounted, StutterAccounted
     DEF Next, Ended
<1> QED
  BY <1>1, <1>2, PTL DEF Spec

LEMMA DoneTells == Accounted => NoSilentAnswer /\ AskedOrTold /\ ShownAgrees
  BY DEF Accounted, NoSilentAnswer, AskedOrTold, ShownAgrees, Answered, Decided

(* No run ends with nothing to read, whatever the tools return, raise or     *)
(* decline to say and however much of the answer the gate takes out; and a  *)
(* run that blames the profile of the server is one whose plan lost tools   *)
(* to it.                                                                   *)
THEOREM SomethingToRead == Spec => []NoSilentAnswer
  BY AlwaysAccounted, DoneTells, PTL

(* A query that asked for a task by a majority is answered with that task,  *)
(* or the answer begins by saying that these inputs do not permit it.       *)
THEOREM ToldWhatWasDropped == Spec => []AskedOrTold
  BY AlwaysAccounted, DoneTells, PTL

(* Of the sentences the gate judges, none is shown that makes a claim the   *)
(* measured indices contradict, whatever else it claims and wherever the    *)
(* answer came from.                                                        *)
THEOREM NothingDisprovedIsShown == Spec => []ShownAgrees
  BY AlwaysAccounted, DoneTells, PTL

=============================================================================
