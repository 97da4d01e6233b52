-------------------------- MODULE DeploymentProofs --------------------------
(***************************************************************************)
(* For every suite of tools, any number of threads, generations, starts,    *)
(* requests and faults: what is in memory stays, a GO means models, what     *)
(* verify_v2_deploy could load serves, and answers agree with their traces.  *)
(***************************************************************************)
EXTENDS Deployment, TLAPS

Sides == {"vocab", "stats", "header", "none"}
Held == {"side", "open", "load", "record", "publish"}    \* under the handle's lock
Loading == {"get", "wait"} \cup Held
Ready == {"mask", "infer", "traced"}                     \* its tool is in memory
Places == {"idle", "answered"} \cup Loading \cup Ready
Answerers == {"model", "stub", "template", "failure"}

Thread ==
    [pc : Places, tool : Tools \cup {None}, on : Tools \cup {None}, seen : Part, side : Part,
     by : Answerers \cup {None}, digest : Part \cup {None}]

DiskTyped ==
    /\ served \in SUBSET Tools /\ \A t \in served : Learned[t].mask => Mask \in served
    /\ disk \in [served -> [dir : BOOLEAN, side : Part, weights : Part]]
    /\ gen \in 0 .. MaxGen
    /\ verified \in SUBSET served /\ calm \in SUBSET served

ServerTyped ==
    /\ boots \in Nat
    /\ server.boot \in 0 .. boots
    /\ server.boot = 0 => server = NoServer
    /\ server.boot # 0 =>
         server \in [env : BOOLEAN, boot : Nat, real : SUBSET served,
                     handle : [served -> Handle \cup {None}],
                     lock : [served -> Threads \cup {None}],
                     digest : [served -> Part \cup {None}]]

Typed == DiskTyped /\ ServerTyped /\ th \in [Threads -> Thread]

(* The two files of a tool are of one generation, where both can be read: the *)
(* old ones are gone before the first of the new is copied.                   *)
Value(t, p) == IF p = "side" THEN disk[t].side ELSE disk[t].weights

Empty(t) == disk[t].side = Absent /\ disk[t].weights = Absent

Sane(t) ==
    /\ disk[t].side \in Generation /\ disk[t].weights \in Generation =>
         disk[t].side = disk[t].weights
    /\ ~disk[t].dir => Empty(t)
    /\ Learned[t].side = "none" => disk[t].side = Absent

Copying == {"copy", "side", "weights"}

Installing ==
    \/ inst = NoInstall
    \/ /\ inst.tool \in served /\ gen \in Generation
       /\ inst \in [pc : {"remove", "rmdir"} \cup Copying, tool : {inst.tool},
                    todo : SUBSET Parts(inst.tool)]
       /\ inst.pc = "remove" =>
            \A p \in Parts(inst.tool) \ inst.todo : Value(inst.tool, p) = Absent
       /\ inst.pc = "rmdir" => Empty(inst.tool)
       /\ inst.pc \in Copying =>
            /\ disk[inst.tool].dir
            /\ \A p \in Parts(inst.tool) :
                 Value(inst.tool, p) \in Generation => p \notin inst.todo /\ Value(inst.tool, p) = gen
       /\ inst.pc \in {"side", "weights"} => inst.pc \in inst.todo

DiskInv == (\A t \in served : Sane(t)) /\ Installing

VerifiedLoads == \A t \in verified : Loadable(t)

(* The server's registry, and its locks.                                     *)
RegistryTrue == \A t \in calm : Up => (t \in server.real <=> server.env /\ Available(t))

Holds(w, t) == th[w].pc \in Held /\ th[w].on = t

LocksHeld == Up =>
    \A t \in served : /\ \A w \in Threads : server.lock[t] = w <=> Holds(w, t)
                      /\ server.lock[t] # None => server.handle[t] = None

(* What is in memory is what is on disk, and what was recorded.               *)
Current(t) ==
    /\ disk[t].weights \in Generation
    /\ server.handle[t].weights = disk[t].weights
    /\ server.digest[t] = disk[t].weights
    /\ Learned[t].side = "vocab" =>
         server.handle[t].side = disk[t].side /\ disk[t].side \in Generation

HandlesCurrent == Up => \A t \in calm : server.handle[t] # None => Current(t)

(* A thread, on its way to memory: what it has read so far.                   *)
OnItsWay(w) ==
    LET x == th[w] IN
    x.pc \in Loading =>
       /\ x.on \in served
       /\ x.on # x.tool =>
            /\ Learned[x.tool].mask /\ x.on = Mask /\ server.handle[x.tool] # None
            /\ Mask \in calm => Available(Mask)
       /\ x.on \in calm =>
            /\ x.pc \in {"open", "load", "record", "publish"} /\ Learned[x.on].side = "vocab" =>
                 x.side = disk[x.on].side /\ x.side \in Generation
            /\ x.pc \in {"load", "record", "publish"} =>
                 x.seen = disk[x.on].weights /\ x.seen \in Generation
            /\ x.pc = "publish" => server.digest[x.on] = x.seen

(* Its model has answered with what is on disk.                               *)
FromDisk(x) ==
    x.tool \in calm =>
        /\ x.seen = disk[x.tool].weights /\ x.seen \in Generation
        /\ Learned[x.tool].side \in {"vocab", "stats"} =>
             x.side = disk[x.tool].side /\ x.side \in Generation

(* What failed could not be loaded, it or its mask.                           *)
Blameless(t) ==
    /\ t \in calm /\ Loadable(t)
    /\ Learned[t].mask => Mask \in calm /\ (Loadable(Mask) \/ ~Exists(Mask))

Ended(w) ==
    LET x == th[w] IN
    x.pc = "answered" =>
       /\ x.by \in Answerers
       /\ x.by \in {"stub", "template"} => x.tool \notin server.real
       /\ x.by = "stub" => Learned[x.tool].stub
       /\ x.by = "failure" => ~Blameless(x.tool)
       /\ x.by = "model" => FromDisk(x) /\ (x.tool \in calm => x.digest = x.seen)

Serving(w) ==
    LET x == th[w] IN
    /\ x.pc # "answered" => x.by = None
    /\ x.pc # "idle" => Up /\ x.tool \in served
    /\ x.pc \in Ready => server.handle[x.tool] # None
    /\ x.pc = "mask" => x.on = x.tool /\ Learned[x.tool].mask
    /\ x.pc = "traced" => FromDisk(x)
    /\ OnItsWay(w) /\ Ended(w)

ThreadsServe == \A w \in Threads : Serving(w)

(* What a preflight said of a server that is still up.                        *)
GoWasTrue ==
    /\ preflight \subseteq 0 .. boots
    /\ Up /\ server.boot \in preflight => Stubs = {}

IInv ==
    /\ Typed /\ DiskInv /\ VerifiedLoads /\ RegistryTrue /\ LocksHeld /\ HandlesCurrent
    /\ ThreadsServe /\ GoWasTrue

-----------------------------------------------------------------------------
(* The disk.                                                                *)

LEMMA LearnedTyped ==
    \A t \in Tools : /\ Learned[t].side \in Sides
                     /\ Learned[t].file => Learned[t].side = "none"
                     /\ Learned[t].mask => t # Mask
<1> DEFINE Fine(t, tool) == /\ tool.side \in Sides
                            /\ tool.file => tool.side = "none"
                            /\ tool.mask => t # Mask
<1>1. Tools = {"caption_v1", "grounding_v1", "change_caption_v1", "landcover_v1",
               "change_mask_v1", "optsar_fusion_v1", "rs_vqa_v1", "change_vqa_v1"}
  BY DEF Tools, Learned
<1>2. Learned["caption_v1"] = CaptionTool /\ Fine("caption_v1", CaptionTool)
  BY DEF Learned, CaptionTool, Tool, Sides, Mask
<1>3. Learned["grounding_v1"] = GroundingTool /\ Fine("grounding_v1", GroundingTool)
  BY DEF Learned, GroundingTool, Tool, Sides, Mask
<1>4. Learned["change_caption_v1"] = ChangeCaptionTool /\ Fine("change_caption_v1", ChangeCaptionTool)
  BY DEF Learned, ChangeCaptionTool, Tool, Sides, Mask
<1>5. Learned["landcover_v1"] = LandcoverTool /\ Fine("landcover_v1", LandcoverTool)
  BY DEF Learned, LandcoverTool, Tool, Sides, Mask
<1>6. Learned["change_mask_v1"] = ChangeMaskTool /\ Fine("change_mask_v1", ChangeMaskTool)
  BY DEF Learned, ChangeMaskTool, Tool, Sides, Mask
<1>7. Learned["optsar_fusion_v1"] = OptSARFusionTool /\ Fine("optsar_fusion_v1", OptSARFusionTool)
  BY DEF Learned, OptSARFusionTool, Tool, Sides, Mask
<1>8. Learned["rs_vqa_v1"] = RSVQATool /\ Fine("rs_vqa_v1", RSVQATool)
  BY DEF Learned, RSVQATool, Tool, Sides, Mask
<1>9. Learned["change_vqa_v1"] = ChangeVQASemantic /\ Fine("change_vqa_v1", ChangeVQASemantic)
  BY DEF Learned, ChangeVQASemantic, Tool, Sides, Mask
<1> QED
  BY <1>1, <1>2, <1>3, <1>4, <1>5, <1>6, <1>7, <1>8, <1>9

LEMMA PartsAre ==
    ASSUME NEW t \in Tools
    PROVE  /\ "weights" \in Parts(t) /\ Parts(t) \subseteq {"side", "weights"}
           /\ "side" \in Parts(t) <=> Learned[t].side # "none"
BY DEF Parts

LEMMA GenerationIs ==
    ASSUME DeploymentAssumption
    PROVE  /\ Absent \notin Generation /\ Damaged \notin Generation
           /\ Generation \subseteq Part /\ Absent \in Part /\ Damaged \in Part
BY DEF DeploymentAssumption, Absent, Damaged, Generation, Part

DiskPart == DiskTyped /\ DiskInv /\ VerifiedLoads

(* What a step of the installer leaves as it was.                             *)
Still ==
    /\ UNCHANGED <<served, alike>>
    /\ calm' \subseteq calm
    /\ \A t \in calm' : disk'[t] = disk[t]

LEMMA Touched ==
    ASSUME DiskPart, NEW t \in served, Touch(t), UNCHANGED <<served, alike>>,
           disk' \in [served -> [dir : BOOLEAN, side : Part, weights : Part]],
           \A u \in served \ {t} : disk'[u] = disk[u],
           Sane(t)', gen' \in 0 .. MaxGen
    PROVE  Still /\ DiskTyped' /\ (\A u \in served : Sane(u))' /\ VerifiedLoads'
<1>1. DiskTyped'
  BY DEF DiskPart, DiskTyped, Touch
<1>2. Still
  BY DEF DiskPart, DiskTyped, Touch, Still
<1>3. (\A u \in served : Sane(u))'
  BY DEF DiskPart, DiskInv, Sane, Empty
<1>4. VerifiedLoads'
  BY DEF DiskPart, DiskTyped, VerifiedLoads, Loadable, Available, Exists, Fit, Touch
<1> QED
  BY <1>1, <1>2, <1>3, <1>4

LEMMA PartSet ==
    ASSUME DiskPart, NEW t \in served, NEW p \in {"side", "weights"}, NEW v \in Part,
           SetPart(t, p, v)
    PROVE  /\ disk' \in [served -> [dir : BOOLEAN, side : Part, weights : Part]]
           /\ \A u \in served \ {t} : disk'[u] = disk[u]
           /\ disk'[t].dir = disk[t].dir
           /\ disk'[t].side = IF p = "side" THEN v ELSE disk[t].side
           /\ disk'[t].weights = IF p = "weights" THEN v ELSE disk[t].weights
BY DEF DiskPart, DiskTyped, SetPart

(* An action of the installer, of damage, or of verification.                 *)
DiskKept == Still /\ DiskPart'

LEMMA InstallKeeps == ASSUME DeploymentAssumption, DiskPart, Install PROVE DiskKept
<1>1. PICK t \in served :
        /\ inst' = [pc |-> IF Exists(t) THEN "remove" ELSE "copy", tool |-> t, todo |-> Parts(t)]
        /\ disk' = IF Exists(t) THEN disk ELSE [disk EXCEPT ![t].dir = TRUE]
        /\ Touch(t)
  BY DEF Install
<1>2. /\ disk' \in [served -> [dir : BOOLEAN, side : Part, weights : Part]]
      /\ \A u \in served \ {t} : disk'[u] = disk[u]
      /\ disk'[t].side = disk[t].side /\ disk'[t].weights = disk[t].weights
      /\ disk[t].dir => disk'[t].dir
      /\ ~Exists(t) => disk'[t].dir
  BY <1>1 DEF DiskPart, DiskTyped
<1>3. Sane(t)'
  BY <1>2 DEF DiskPart, DiskInv, Sane, Empty
<1>4. gen' \in 0 .. MaxGen /\ gen' \in Generation /\ UNCHANGED <<served, alike>>
  BY DEF Install, system, fixed, DiskPart, DiskTyped, DeploymentAssumption, Generation
<1>5. Still /\ DiskTyped' /\ (\A u \in served : Sane(u))' /\ VerifiedLoads'
  BY <1>1, <1>2, <1>3, <1>4, Touched
<1>6. Installing'
  <2>1. t \in served' /\ t \in Tools
    BY <1>4 DEF DiskPart, DiskTyped
  <2>2. ~Exists(t) => \A p \in Parts(t) : Value(t, p) \notin Generation
    BY <2>1, LearnedTyped, PartsAre, GenerationIs
       DEF DiskPart, DiskInv, Sane, Empty, Exists, Value
  <2>3. ~Exists(t) => \A p \in Parts(t) : Value(t, p)' \notin Generation
    BY <2>2, <1>2 DEF Value
  <2>4. CASE Exists(t)
    BY <2>4, <2>1, <1>1, <1>4 DEF Installing, Copying
  <2>5. CASE ~Exists(t)
    BY <2>5, <2>1, <2>3, <1>1, <1>2, <1>4 DEF Installing, Copying
  <2> QED
    BY <2>4, <2>5
<1> QED
  BY <1>5, <1>6 DEF DiskKept, DiskPart, DiskInv

LEMMA AtWork ==
    ASSUME DiskPart, inst # NoInstall
    PROVE  /\ inst.tool \in served /\ inst.tool \in Tools
           /\ gen \in Generation /\ gen \in 0 .. MaxGen /\ Sane(inst.tool)
           /\ inst = [pc |-> inst.pc, tool |-> inst.tool, todo |-> inst.todo]
           /\ inst.todo \subseteq Parts(inst.tool)
BY DEF DiskPart, DiskTyped, DiskInv, Installing

LEMMA RemoveKeeps == ASSUME DeploymentAssumption, DiskPart, Remove PROVE DiskKept
<1> SUFFICES ASSUME NEW t, t = inst.tool PROVE DiskKept
  OBVIOUS
<1>1. inst # NoInstall /\ inst.pc = "remove"
  BY DEF Remove, NoInstall
<1>2. PICK p \in inst.todo :
        LET gone == Together(t, p)
            left == inst.todo \ gone
        IN /\ disk' = [disk EXCEPT ![t] =
                       [dir |-> left # {},
                        side |-> IF "side" \in gone THEN Absent ELSE disk[t].side,
                        weights |-> IF "weights" \in gone THEN Absent ELSE disk[t].weights]]
           /\ inst' = IF left = {} THEN [inst EXCEPT !.pc = "rmdir", !.todo = {}]
                      ELSE [inst EXCEPT !.todo = left]
  BY DEF Remove
<1> DEFINE gone == Together(t, p)
           left == inst.todo \ gone
<1>3. t \in served /\ t \in Tools /\ gen \in Generation /\ gen \in 0 .. MaxGen /\ Sane(t)
  BY <1>1, AtWork
<1>4. Touch(t) /\ UNCHANGED <<served, alike, gen>>
  BY DEF Remove, system, fixed
<1>5. /\ disk' \in [served -> [dir : BOOLEAN, side : Part, weights : Part]]
      /\ \A u \in served \ {t} : disk'[u] = disk[u]
      /\ disk'[t].dir = (left # {})
      /\ disk'[t].side = IF "side" \in gone THEN Absent ELSE disk[t].side
      /\ disk'[t].weights = IF "weights" \in gone THEN Absent ELSE disk[t].weights
  BY <1>2, <1>3, GenerationIs DEF DiskPart, DiskTyped
<1>6. inst.todo \subseteq Parts(t) /\ \A q \in Parts(t) \ inst.todo : Value(t, q) = Absent
  BY <1>1 DEF DiskPart, DiskInv, Installing
<1>7. \A q \in Parts(t) \ left : Value(t, q)' = Absent
  BY <1>5, <1>6, <1>3, PartsAre DEF Value
<1>8. left = {} => disk'[t].side = Absent /\ disk'[t].weights = Absent
  <2>1. Learned[t].side = "none" => disk[t].side = Absent
    BY <1>3 DEF Sane
  <2> QED
    BY <2>1, <1>3, <1>5, <1>7, PartsAre DEF Value
<1>9. Sane(t)'
  <2>1. /\ disk'[t].side \in Generation => disk'[t].side = disk[t].side
        /\ disk'[t].weights \in Generation => disk'[t].weights = disk[t].weights
    BY <1>5, GenerationIs
  <2> HIDE DEF left, gone
  <2> QED
    BY <2>1, <1>3, <1>4, <1>5, <1>8 DEF Sane, Empty
<1>10. Still /\ DiskTyped' /\ (\A u \in served : Sane(u))' /\ VerifiedLoads'
  BY <1>3, <1>4, <1>5, <1>9, Touched
<1>11. Installing'
  <2> HIDE DEF left, gone
  <2>1. inst = [pc |-> "remove", tool |-> t, todo |-> inst.todo]
    BY <1>1, AtWork
  <2>2. CASE left = {}
    <3>1. inst' = [pc |-> "rmdir", tool |-> t, todo |-> {}]
      BY <2>1, <2>2, <1>2 DEF left, gone
    <3>2. t \in served' /\ gen' \in Generation
      BY <1>3, <1>4
    <3> QED
      BY <3>1, <3>2, <2>2, <1>8 DEF Installing, Empty, Copying
  <2>3. CASE left # {}
    <3>1. inst' = [pc |-> "remove", tool |-> t, todo |-> left]
      BY <2>1, <2>3, <1>2 DEF left, gone
    <3>2. t \in served' /\ gen' \in Generation /\ left \subseteq Parts(t)
      BY <1>3, <1>4, <1>6 DEF left
    <3> QED
      BY <3>1, <3>2, <1>7 DEF Installing, Copying
  <2> QED
    BY <2>2, <2>3
<1> QED
  BY <1>10, <1>11 DEF DiskKept, DiskPart, DiskInv

LEMMA MakeDirKeeps == ASSUME DeploymentAssumption, DiskPart, MakeDir PROVE DiskKept
<1> SUFFICES ASSUME NEW t, t = inst.tool PROVE DiskKept
  OBVIOUS
<1>1. inst # NoInstall /\ inst.pc = "rmdir"
  BY DEF MakeDir, NoInstall
<1>2. t \in served /\ t \in Tools /\ gen \in Generation /\ gen \in 0 .. MaxGen /\ Sane(t)
  BY <1>1, AtWork
<1>3. Touch(t) /\ UNCHANGED <<served, alike, gen>>
  BY DEF MakeDir, system, fixed
<1>4. disk[t].side = Absent /\ disk[t].weights = Absent
  BY <1>1 DEF DiskPart, DiskInv, Installing, Empty
<1>5. /\ disk' \in [served -> [dir : BOOLEAN, side : Part, weights : Part]]
      /\ \A u \in served \ {t} : disk'[u] = disk[u]
      /\ disk'[t].dir /\ disk'[t].side = Absent /\ disk'[t].weights = Absent
  <2>1. disk' = [disk EXCEPT ![t].dir = TRUE]
    BY DEF MakeDir
  <2>2. disk[t] \in [dir : BOOLEAN, side : Part, weights : Part]
    BY <1>2 DEF DiskPart, DiskTyped
  <2>3. disk'[t] = [disk[t] EXCEPT !.dir = TRUE]
    BY <2>1, <1>2 DEF DiskPart, DiskTyped
  <2> QED
    BY <2>1, <2>2, <2>3, <1>2, <1>4 DEF DiskPart, DiskTyped
<1>6. Sane(t)'
  BY <1>5 DEF Sane, Empty
<1>7. Still /\ DiskTyped' /\ (\A u \in served : Sane(u))' /\ VerifiedLoads'
  BY <1>2, <1>3, <1>5, <1>6, Touched
<1>8. Installing'
  <2>1. inst' = [pc |-> "copy", tool |-> t, todo |-> Parts(t)]
    BY <1>1, AtWork DEF MakeDir
  <2>2. \A p \in Parts(t) : Value(t, p)' \notin Generation
    BY <1>5, GenerationIs DEF Value
  <2>3. t \in served' /\ gen' \in Generation
    BY <1>2, <1>3
  <2> QED
    BY <2>1, <2>2, <2>3, <1>5 DEF Installing, Copying
<1> QED
  BY <1>7, <1>8 DEF DiskKept, DiskPart, DiskInv

LEMMA CopyKeeps == ASSUME DeploymentAssumption, DiskPart, Copy PROVE DiskKept
<1> SUFFICES ASSUME NEW t, t = inst.tool PROVE DiskKept
  OBVIOUS
<1>1. inst # NoInstall /\ inst.pc = "copy"
  BY DEF Copy, NoInstall
<1>2. PICK p \in inst.todo : SetPart(t, p, Damaged) /\ inst' = [inst EXCEPT !.pc = p] /\ Touch(t)
  BY DEF Copy
<1>3. /\ t \in served /\ t \in Tools /\ gen \in Generation /\ gen \in 0 .. MaxGen /\ Sane(t)
      /\ p \in Parts(t) /\ p \in {"side", "weights"} /\ (p = "side" => Learned[t].side # "none")
  BY <1>1, AtWork, PartsAre
<1>4. UNCHANGED <<served, alike, gen>>
  BY DEF Copy, system, fixed
<1>5. /\ disk' \in [served -> [dir : BOOLEAN, side : Part, weights : Part]]
      /\ \A u \in served \ {t} : disk'[u] = disk[u]
      /\ disk'[t].dir = disk[t].dir
      /\ disk'[t].side = IF p = "side" THEN Damaged ELSE disk[t].side
      /\ disk'[t].weights = IF p = "weights" THEN Damaged ELSE disk[t].weights
  BY <1>2, <1>3, PartSet, GenerationIs
<1>6. /\ disk[t].dir
      /\ \A q \in Parts(t) :
           Value(t, q) \in Generation => q \notin inst.todo /\ Value(t, q) = gen
  BY <1>1 DEF DiskPart, DiskInv, Installing, Copying
<1>7. Sane(t)'
  BY <1>3, <1>4, <1>5, <1>6, GenerationIs DEF Sane
<1>8. Still /\ DiskTyped' /\ (\A u \in served : Sane(u))' /\ VerifiedLoads'
  BY <1>2, <1>3, <1>4, <1>5, <1>7, Touched
<1>9. Installing'
  <2>1. inst' = [pc |-> p, tool |-> t, todo |-> inst.todo] /\ inst.todo \subseteq Parts(t)
    BY <1>1, <1>2, AtWork
  <2>2. \A q \in Parts(t) : Value(t, q)' \in Generation => q \notin inst.todo /\ Value(t, q)' = gen
    BY <1>3, <1>5, <1>6, PartsAre, GenerationIs DEF Value
  <2>3. t \in served' /\ gen' \in Generation /\ gen' = gen /\ disk'[t].dir
    BY <1>3, <1>4, <1>5, <1>6
  <2> QED
    BY <2>1, <2>2, <2>3, <1>2, <1>3 DEF Installing, Copying
<1> QED
  BY <1>8, <1>9 DEF DiskKept, DiskPart, DiskInv

LEMMA CopiedKeeps == ASSUME DeploymentAssumption, DiskPart, Copied PROVE DiskKept
<1> SUFFICES ASSUME NEW t, t = inst.tool, NEW p, p = inst.pc PROVE DiskKept
  OBVIOUS
<1> DEFINE left == inst.todo \ {p}
<1>1. inst # NoInstall /\ p \in {"side", "weights"}
  BY DEF Copied, NoInstall
<1>2. /\ SetPart(t, p, gen) /\ Touch(t)
      /\ inst' = IF left = {} THEN NoInstall ELSE [inst EXCEPT !.pc = "copy", !.todo = left]
  BY DEF Copied
<1>3. /\ t \in served /\ t \in Tools /\ gen \in Generation /\ gen \in 0 .. MaxGen /\ Sane(t)
      /\ inst.todo \subseteq Parts(t)
  BY <1>1, AtWork
<1>4. UNCHANGED <<served, alike, gen>>
  BY DEF Copied, system, fixed
<1>5. /\ disk' \in [served -> [dir : BOOLEAN, side : Part, weights : Part]]
      /\ \A u \in served \ {t} : disk'[u] = disk[u]
      /\ disk'[t].dir = disk[t].dir
      /\ disk'[t].side = IF p = "side" THEN gen ELSE disk[t].side
      /\ disk'[t].weights = IF p = "weights" THEN gen ELSE disk[t].weights
  BY <1>1, <1>2, <1>3, PartSet, GenerationIs
<1>6. /\ disk[t].dir /\ p \in inst.todo
      /\ \A q \in Parts(t) :
           Value(t, q) \in Generation => q \notin inst.todo /\ Value(t, q) = gen
  BY <1>1 DEF DiskPart, DiskInv, Installing, Copying
<1>7. \A q \in Parts(t) : Value(t, q)' \in Generation => q \notin left /\ Value(t, q)' = gen
  BY <1>1, <1>3, <1>5, <1>6, PartsAre DEF Value
<1>8. Sane(t)'
  <2>1. Learned[t].side = "none" => disk'[t].side = Absent
    BY <1>3, <1>5, <1>6, PartsAre DEF Sane
  <2>2. disk'[t].side \in Generation /\ disk'[t].weights \in Generation
           => disk'[t].side = disk'[t].weights
    BY <2>1, <1>3, <1>7, PartsAre, GenerationIs DEF Value
  <2> QED
    BY <2>1, <2>2, <1>5, <1>6 DEF Sane
<1>9. Still /\ DiskTyped' /\ (\A u \in served : Sane(u))' /\ VerifiedLoads'
  BY <1>2, <1>3, <1>4, <1>5, <1>8, Touched
<1>10. Installing'
  <2>1. CASE left = {}
    BY <2>1, <1>2 DEF Installing
  <2>2. CASE left # {}
    <3>1. inst' = [pc |-> "copy", tool |-> t, todo |-> left] /\ left \subseteq Parts(t)
      BY <2>2, <1>1, <1>2, <1>3, AtWork
    <3>2. t \in served' /\ gen' \in Generation /\ gen' = gen /\ disk'[t].dir
      BY <1>3, <1>4, <1>5, <1>6
    <3> HIDE DEF left
    <3> QED
      BY <3>1, <3>2, <1>7 DEF Installing, Copying
  <2> QED
    BY <2>1, <2>2
<1> QED
  BY <1>9, <1>10 DEF DiskKept, DiskPart, DiskInv

LEMMA KillInstallerKeeps == ASSUME DiskPart, KillInstaller PROVE DiskKept
BY DEF KillInstaller, system, fixed, DiskKept, Still, DiskPart, DiskTyped, DiskInv, Sane, Empty,
       Installing, VerifiedLoads, Loadable, Available, Exists, Fit

LEMMA DamageKeeps == ASSUME DeploymentAssumption, DiskPart, Damage PROVE DiskKept
<1>1. PICK t \in served : \E p \in Parts(t) :
        /\ (IF p = "side" THEN disk[t].side ELSE disk[t].weights) \in Generation
        /\ SetPart(t, p, Damaged) /\ Touch(t)
  BY DEF Damage
<1>2. t \in Tools
  BY DEF DiskPart, DiskTyped
<1>3. PICK p \in {"side", "weights"} : Value(t, p) \in Generation /\ SetPart(t, p, Damaged) /\ Touch(t)
  BY <1>1, <1>2, PartsAre DEF Value
<1>4. UNCHANGED <<served, alike, gen, inst>> /\ gen \in 0 .. MaxGen
  BY DEF Damage, system, fixed, DiskPart, DiskTyped
<1>5. /\ disk' \in [served -> [dir : BOOLEAN, side : Part, weights : Part]]
      /\ \A u \in served \ {t} : disk'[u] = disk[u]
      /\ disk'[t].dir = disk[t].dir
      /\ disk'[t].side = IF p = "side" THEN Damaged ELSE disk[t].side
      /\ disk'[t].weights = IF p = "weights" THEN Damaged ELSE disk[t].weights
  BY <1>3, PartSet, GenerationIs
<1>6. Sane(t) /\ Value(t, p) # Absent
  BY <1>3, GenerationIs DEF DiskPart, DiskInv
<1>7. disk[t].dir
  BY <1>6 DEF Sane, Empty, Value
<1>8. Sane(t)'
  BY <1>3, <1>5, <1>6, <1>7, GenerationIs DEF Sane, Value
<1>9. Still /\ DiskTyped' /\ (\A u \in served : Sane(u))' /\ VerifiedLoads'
  BY <1>3, <1>4, <1>5, <1>8, Touched
<1>10. Installing'
  <2>1. CASE inst = NoInstall \/ inst.tool # t
    <3>1. inst # NoInstall => disk'[inst.tool] = disk[inst.tool]
      BY <2>1, <1>5, AtWork
    <3> QED
      BY <3>1, <1>4 DEF DiskPart, DiskInv, Installing, Empty, Value
  <2>2. CASE inst # NoInstall /\ inst.tool = t
    <3>1. \A q \in {"side", "weights"} :
             \/ Value(t, q)' = Value(t, q)
             \/ Value(t, q)' = Damaged /\ Value(t, q) \in Generation
      BY <1>3, <1>5 DEF Value
    <3>2. inst.todo \subseteq Parts(t) /\ Parts(t) \subseteq {"side", "weights"}
      BY <2>2, <1>2, AtWork, PartsAre
    <3>3. inst.pc # "rmdir"
      BY <2>2, <1>6 DEF DiskPart, DiskInv, Installing, Empty, Value
    <3>4. inst.pc = "remove" => \A q \in Parts(t) \ inst.todo : Value(t, q)' = Absent
      BY <2>2, <3>1, <3>2, GenerationIs DEF DiskPart, DiskInv, Installing
    <3>5. inst.pc \in Copying =>
            \A q \in Parts(t) :
               Value(t, q)' \in Generation => q \notin inst.todo /\ Value(t, q)' = gen
      BY <2>2, <3>1, <3>2, GenerationIs DEF DiskPart, DiskInv, Installing
    <3> QED
      BY <2>2, <3>3, <3>4, <3>5, <1>4, <1>5 DEF DiskPart, DiskInv, Installing
  <2> QED
    BY <2>1, <2>2
<1> QED
  BY <1>9, <1>10 DEF DiskKept, DiskPart, DiskInv

LEMMA VerifyKeeps == ASSUME DiskPart, Verify PROVE DiskKept
BY DEF Verify, system, fixed, DiskKept, Still, DiskPart, DiskTyped, DiskInv, Sane, Empty,
       Installing, Value, VerifiedLoads, Loadable, Available, Exists, Fit

(* The rest of the invariant speaks of the disk only where it stays.          *)
LEMMA UnderDisk ==
    ASSUME IInv, DiskKept, UNCHANGED <<server, th, people, boots>>
    PROVE  IInv'
<1>1. \A t \in calm' : /\ t \in calm /\ t \in served /\ disk'[t] = disk[t]
                       /\ Available(t)' <=> Available(t)
                       /\ Exists(t)' <=> Exists(t)
                       /\ Loadable(t)' <=> Loadable(t)
  BY DEF IInv, Typed, DiskTyped, DiskKept, Still, Available, Exists, Loadable, Fit
<1>2. served' = served
  BY DEF DiskKept, Still
<1>3. Typed'
  BY <1>2 DEF IInv, Typed, ServerTyped, DiskKept, DiskPart
<1>4. RegistryTrue'
  BY <1>1 DEF IInv, RegistryTrue, Up
<1>5. LocksHeld'
  BY <1>2 DEF IInv, LocksHeld, Up, Holds
<1>6. HandlesCurrent'
  BY <1>1 DEF IInv, HandlesCurrent, Up, Current
<1>7. ThreadsServe'
  <2> SUFFICES ASSUME NEW w \in Threads PROVE Serving(w)'
    BY DEF ThreadsServe
  <2>1. Serving(w)
    BY DEF IInv, ThreadsServe
  <2>2. FromDisk(th[w]) => FromDisk(th[w])'
    BY <1>1 DEF FromDisk
  <2>3. OnItsWay(w)'
    BY <2>1, <1>1, <1>2 DEF Serving, OnItsWay
  <2>4. ~Blameless(th[w].tool) => ~Blameless(th[w].tool)'
    BY <1>1 DEF Blameless
  <2>5. Ended(w)'
    BY <2>1, <2>2, <2>4, <1>1 DEF Serving, Ended
  <2> QED
    BY <2>1, <2>2, <2>3, <2>5, <1>2 DEF Serving, Up
<1>8. GoWasTrue'
  BY <1>2 DEF IInv, GoWasTrue, people, Up, Stubs
<1> QED
  BY <1>3, <1>4, <1>5, <1>6, <1>7, <1>8 DEF IInv, DiskKept, DiskPart

LEMMA DiskSteps ==
    ASSUME DeploymentAssumption, IInv,
           \/ Install \/ Remove \/ MakeDir \/ Copy \/ Copied \/ KillInstaller \/ Damage \/ Verify
    PROVE  IInv'
<1>1. DiskPart
  BY DEF IInv, Typed, DiskPart
<1>2. DiskKept
  BY <1>1, InstallKeeps, RemoveKeeps, MakeDirKeeps, CopyKeeps, CopiedKeeps, KillInstallerKeeps,
     DamageKeeps, VerifyKeeps
<1>3. UNCHANGED <<server, th, people, boots>>
  BY DEF Install, Remove, MakeDir, Copy, Copied, KillInstaller, Damage, Verify, system
<1> QED
  BY <1>2, <1>3, UnderDisk

-----------------------------------------------------------------------------
(* The server's threads.                                                    *)

LEMMA UpIs ==
    ASSUME ServerTyped
    PROVE  /\ Up <=> server.boot # 0
           /\ Up => server \in [env : BOOLEAN, boot : Nat, real : SUBSET served,
                                handle : [served -> Handle \cup {None}],
                                lock : [served -> Threads \cup {None}],
                                digest : [served -> Part \cup {None}]]
BY DEF ServerTyped, Up, NoServer

(* A step of thread w: what it may do to the server, and to the others.       *)
Moves(w) ==
    /\ UNCHANGED <<fixed, files, people, boots>>
    /\ th' \in [Threads -> Thread] /\ \A u \in Threads \ {w} : th'[u] = th[u]
    /\ server' \in [env : BOOLEAN, boot : Nat, real : SUBSET served,
                    handle : [served -> Handle \cup {None}],
                    lock : [served -> Threads \cup {None}],
                    digest : [served -> Part \cup {None}]]
    /\ server'.env = server.env /\ server'.boot = server.boot /\ server'.real = server.real
    /\ \A t \in served :
          ~Holds(w, t) => server'.handle[t] = server.handle[t] /\ server'.digest[t] = server.digest[t]

LEMMA OthersServe ==
    ASSUME DeploymentAssumption, IInv, Up, NEW w \in Threads, Moves(w), NEW u \in Threads \ {w}
    PROVE  Serving(u)'
<1>1. Up' /\ Serving(u) /\ th'[u] = th[u] /\ ServerTyped /\ LocksHeld
  <2>1. server.boot # 0 /\ server'.boot # 0 /\ ServerTyped
    BY UpIs DEF IInv, Typed, Moves
  <2>2. server' # NoServer
    BY <2>1 DEF NoServer
  <2> QED
    BY <2>1, <2>2 DEF IInv, ThreadsServe, Moves, Up
<1>2. UNCHANGED <<served, alike, disk, verified, calm>>
  BY DEF Moves, fixed, files
<1>3. \A t \in served : server.handle[t] # None => server'.handle[t] = server.handle[t]
  <2> SUFFICES ASSUME NEW t \in served, server.handle[t] # None
               PROVE  server'.handle[t] = server.handle[t]
    OBVIOUS
  <2>1. server.lock[t] = w <=> Holds(w, t)
    BY <1>1 DEF LocksHeld
  <2>2. server.lock[t] = None
    BY <1>1 DEF LocksHeld
  <2>3. w # None
    BY DEF DeploymentAssumption
  <2> QED
    BY <2>1, <2>2, <2>3 DEF Moves
<1>4. th[u].pc = "publish" => server'.digest[th[u].on] = server.digest[th[u].on]
  <2> SUFFICES ASSUME th[u].pc = "publish" PROVE server'.digest[th[u].on] = server.digest[th[u].on]
    OBVIOUS
  <2>1. th[u].on \in served /\ Holds(u, th[u].on)
    BY <1>1 DEF Serving, OnItsWay, Loading, Held, Holds
  <2>2. ~Holds(w, th[u].on)
    BY <1>1, <2>1 DEF LocksHeld
  <2> QED
    BY <2>1, <2>2 DEF Moves
<1>5. FromDisk(th[u])' <=> FromDisk(th[u])
  <2>1. th[u]' = th[u]
    BY <1>1
  <2> QED
    BY <2>1, <1>2 DEF FromDisk
<1>6. \A t : /\ Available(t)' <=> Available(t)
             /\ Exists(t)' <=> Exists(t)
             /\ Loadable(t)' <=> Loadable(t)
             /\ Blameless(t)' <=> Blameless(t)
  BY <1>2 DEF Available, Exists, Loadable, Blameless, Fit
<1>7. OnItsWay(u)'
  <2> SUFFICES ASSUME th[u].pc \in Loading PROVE OnItsWay(u)'
    BY <1>1 DEF OnItsWay
  <2>1. th[u].tool \in served /\ OnItsWay(u)
    BY <1>1 DEF Serving, Loading, Held
  <2>2. th'[u].on = th[u].on /\ th'[u].tool = th[u].tool /\ th'[u].pc = th[u].pc
        /\ th'[u].side = th[u].side /\ th'[u].seen = th[u].seen
    BY <1>1
  <2>3. th[u].on # th[u].tool => server'.handle[th[u].tool] # None
    BY <2>1, <1>3 DEF OnItsWay
  <2> QED
    BY <2>1, <2>2, <2>3, <1>2, <1>4, <1>6 DEF OnItsWay
<1>8. Ended(u)'
  <2> SUFFICES ASSUME th[u].pc = "answered" PROVE Ended(u)'
    BY <1>1 DEF Ended
  <2>1. Ended(u) /\ server'.real = server.real
    BY <1>1 DEF Serving, Moves
  <2>2. Blameless(th[u].tool)' <=> Blameless(th[u].tool)
    BY <1>1, <1>6
  <2> QED
    BY <2>1, <2>2, <1>1, <1>2, <1>5 DEF Ended
<1>9. /\ th'[u].pc # "answered" => th'[u].by = None
      /\ th'[u].pc # "idle" => th'[u].tool \in served'
      /\ th'[u].pc = "mask" => th'[u].on = th'[u].tool /\ Learned[th'[u].tool].mask
  BY <1>1, <1>2 DEF Serving
<1>10. th'[u].pc \in Ready => server'.handle[th'[u].tool] # None
  BY <1>1, <1>3 DEF Serving, Ready
<1>11. th'[u].pc = "traced" => FromDisk(th[u])'
  BY <1>1, <1>5 DEF Serving
<1> QED
  BY <1>1, <1>7, <1>8, <1>9, <1>10, <1>11 DEF Serving

LEMMA StepKeeps ==
    ASSUME DeploymentAssumption, IInv, Up, NEW w \in Threads, Moves(w),
           LocksHeld', HandlesCurrent', Serving(w)'
    PROVE  IInv'
<1>1. UNCHANGED <<served, alike, disk, inst, verified, calm, gen, preflight, boots>>
  BY DEF Moves, fixed, files, people
<1>2. server.boot # 0 /\ ServerTyped
  BY UpIs DEF IInv, Typed
<1>3. Typed'
  <2>1. DiskTyped'
    BY <1>1 DEF IInv, Typed, DiskTyped
  <2>2. ServerTyped'
    BY <1>1, <1>2 DEF ServerTyped, Moves
  <2> QED
    BY <2>1, <2>2 DEF Typed, Moves
<1>4. DiskInv'
  BY <1>1 DEF IInv, DiskInv, Sane, Empty, Installing, Value
<1>5. VerifiedLoads'
  BY <1>1 DEF IInv, VerifiedLoads, Loadable, Available, Exists, Fit
<1>6. RegistryTrue'
  BY <1>1, <1>2, UpIs DEF IInv, RegistryTrue, Available, Exists, Moves
<1>7. ThreadsServe'
  BY OthersServe DEF ThreadsServe
<1>8. GoWasTrue'
  BY <1>1, <1>2, UpIs DEF IInv, GoWasTrue, Stubs, Moves
<1> QED
  BY <1>3, <1>4, <1>5, <1>6, <1>7, <1>8 DEF IInv

LEMMA HandlesSame ==
    ASSUME IInv, Up, NEW w, Moves(w), server'.handle = server.handle, server'.digest = server.digest
    PROVE  HandlesCurrent'
BY DEF IInv, HandlesCurrent, Current, Moves, fixed, files

(* A thread that only reads the server.                                       *)
LEMMA ReaderKeeps ==
    ASSUME DeploymentAssumption, IInv, Up, NEW w \in Threads, UNCHANGED <<server, boots, fixed, files, people>>,
           NEW x \in Thread, th' = [th EXCEPT ![w] = x],
           \A t \in served : (x.pc \in Held /\ x.on = t) <=> Holds(w, t),
           Serving(w)'
    PROVE  IInv'
<1>1. ServerTyped /\ th \in [Threads -> Thread]
  BY DEF IInv, Typed
<1>2. Moves(w)
  BY <1>1, UpIs DEF Moves
<1>3. HandlesCurrent'
  BY <1>2, HandlesSame
<1>4. LocksHeld'
  <2>1. \A t \in served, u \in Threads : Holds(u, t)' <=> Holds(u, t)
    BY <1>1 DEF Holds
  <2> QED
    BY <2>1 DEF IInv, LocksHeld, fixed
<1> QED
  BY <1>2, <1>3, <1>4, StepKeeps

(* What is known of a thread that is not idle.                                *)
LEMMA AThread ==
    ASSUME IInv, NEW w \in Threads, th[w].pc # "idle"
    PROVE  /\ Up /\ th[w] \in Thread /\ Serving(w) /\ th[w].tool \in served
           /\ th \in [Threads -> Thread] /\ served \subseteq Tools
           /\ th[w].pc \in Loading => th[w].on \in served
           /\ th[w].pc # "answered" => th[w].by = None
BY DEF IInv, Typed, DiskTyped, ThreadsServe, Serving, OnItsWay

LEMMA AskKeeps ==
    ASSUME DeploymentAssumption, IInv, NEW w \in Threads, Ask(w) PROVE IInv'
<1>1. PICK t \in served :
        th' = [th EXCEPT ![w] = [Quiet EXCEPT
                     !.tool = t, !.on = t,
                     !.pc = IF t \in server.real THEN "get" ELSE "answered",
                     !.by = IF t \in server.real THEN None
                            ELSE IF Learned[t].stub THEN "stub" ELSE "template"]]
  BY DEF Ask
<1> DEFINE x == [Quiet EXCEPT
                     !.tool = t, !.on = t,
                     !.pc = IF t \in server.real THEN "get" ELSE "answered",
                     !.by = IF t \in server.real THEN None
                            ELSE IF Learned[t].stub THEN "stub" ELSE "template"]
<1>2. /\ x.tool = t /\ x.on = t /\ x.pc = IF t \in server.real THEN "get" ELSE "answered"
      /\ x.by = IF t \in server.real THEN None
                ELSE IF Learned[t].stub THEN "stub" ELSE "template"
  BY DEF Quiet
<1>3. x \in Thread
  <2>1. t \in Tools
    BY DEF IInv, Typed, DiskTyped
  <2> QED
    BY <2>1, GenerationIs DEF Quiet, Thread, Places, Loading, Answerers
<1>4. th'[w] = x
  BY <1>1 DEF IInv, Typed
<1> HIDE DEF x
<1>5. Up /\ th[w].pc = "idle" /\ UNCHANGED <<server, boots, fixed, files, people>>
  BY DEF Ask, rest
<1>6. \A u \in served : (x.pc \in Held /\ x.on = u) <=> Holds(w, u)
  BY <1>2, <1>5 DEF Held, Holds
<1>7. Serving(w)'
  <2>1. Up' /\ served' = served /\ server' = server
    BY <1>5 DEF Up, fixed
  <2>2. OnItsWay(w)'
    BY <2>1, <1>2, <1>4 DEF OnItsWay
  <2>3. Ended(w)'
    BY <2>1, <1>2, <1>4 DEF Ended, Answerers
  <2> QED
    BY <2>1, <2>2, <2>3, <1>2, <1>4 DEF Serving, Ready
<1> QED
  BY <1>1, <1>3, <1>5, <1>6, <1>7, ReaderKeeps DEF x

LEMMA LeaveKeeps ==
    ASSUME DeploymentAssumption, IInv, NEW w \in Threads, Leave(w) PROVE IInv'
<1>1. Up /\ th \in [Threads -> Thread]
  BY AThread DEF Leave
<1>2. th' = [th EXCEPT ![w] = Quiet] /\ th[w].pc = "answered"
      /\ UNCHANGED <<server, boots, fixed, files, people>>
  BY DEF Leave, rest
<1>3. Quiet \in Thread
  BY GenerationIs DEF Quiet, Thread, Places, Loading
<1>4. \A u \in served : (Quiet.pc \in Held /\ Quiet.on = u) <=> Holds(w, u)
  BY <1>2 DEF Held, Holds, Quiet
<1>5. Serving(w)'
  BY <1>1, <1>2 DEF Serving, OnItsWay, Ended, Quiet, Loading, Held, Ready
<1> QED
  BY <1>1, <1>2, <1>3, <1>4, <1>5, ReaderKeeps

(* A thread that finds the handle goes on to its model, or to the mask.        *)
LEMMA Found ==
    ASSUME DeploymentAssumption, IInv, NEW w \in Threads, th[w].pc \in {"get", "wait"},
           server.handle[th[w].on] # None, Goto(w, AfterGet(w)),
           UNCHANGED <<server, boots, fixed, files, people>>
    PROVE  IInv'
<1>1. /\ Up /\ th[w] \in Thread /\ Serving(w) /\ th[w].tool \in served /\ th[w].by = None
      /\ th \in [Threads -> Thread] /\ OnItsWay(w)
  BY AThread DEF Serving
<1>2. AfterGet(w) \in {"mask", "infer"}
      /\ (AfterGet(w) = "mask" <=> Learned[th[w].tool].mask /\ th[w].on = th[w].tool)
  BY DEF AfterGet
<1> DEFINE x == [th[w] EXCEPT !.pc = AfterGet(w)]
<1>3. th' = [th EXCEPT ![w] = x]
  BY <1>1 DEF Goto
<1>4. /\ x \in Thread /\ x.pc = AfterGet(w) /\ x.tool = th[w].tool /\ x.on = th[w].on
      /\ x.by = th[w].by
  BY <1>1, <1>2 DEF Thread, Places, Ready
<1>5. th'[w] = x
  BY <1>1, <1>3
<1> HIDE DEF x
<1>6. \A u \in served : (x.pc \in Held /\ x.on = u) <=> Holds(w, u)
  BY <1>2, <1>4 DEF Held, Holds
<1>7. server.handle[th[w].tool] # None
  BY <1>1 DEF OnItsWay, Loading
<1>8. Serving(w)'
  <2>1. Up' /\ served' = served /\ server' = server
    BY <1>1 DEF Up, fixed
  <2>2. OnItsWay(w)' /\ Ended(w)'
    BY <1>2, <1>4, <1>5 DEF OnItsWay, Ended, Loading, Held
  <2> QED
    BY <2>1, <2>2, <1>1, <1>2, <1>4, <1>5, <1>7 DEF Serving
<1> QED
  BY <1>1, <1>3, <1>4, <1>6, <1>8, ReaderKeeps

LEMMA GetKeeps ==
    ASSUME DeploymentAssumption, IInv, NEW w \in Threads, Get(w) PROVE IInv'
<1>1. th[w].pc = "get" /\ UNCHANGED <<server, boots, fixed, files, people>>
  BY DEF Get, rest
<1>2. CASE server.handle[th[w].on] # None
  BY <1>1, <1>2, Found DEF Get
<1>3. CASE server.handle[th[w].on] = None
  <2>1. /\ Up /\ th[w] \in Thread /\ Serving(w) /\ th[w].tool \in served /\ th[w].by = None
        /\ th \in [Threads -> Thread] /\ OnItsWay(w)
    BY <1>1, AThread DEF Serving
  <2> DEFINE x == [th[w] EXCEPT !.pc = "wait"]
  <2>2. th' = [th EXCEPT ![w] = x]
    BY <2>1, <1>3 DEF Get, Goto
  <2>3. /\ x \in Thread /\ x.pc = "wait" /\ x.tool = th[w].tool /\ x.on = th[w].on
        /\ x.by = th[w].by
    BY <2>1 DEF Thread, Places, Loading
  <2>4. th'[w] = x
    BY <2>1, <2>2
  <2> HIDE DEF x
  <2>5. \A u \in served : (x.pc \in Held /\ x.on = u) <=> Holds(w, u)
    BY <1>1, <2>3 DEF Held, Holds
  <2>6. Serving(w)'
    <3>1. /\ Up' /\ served' = served /\ server' = server /\ calm' = calm
          /\ (Available(Mask)' <=> Available(Mask))
      BY <1>1, <2>1 DEF Up, fixed, files, Available, Exists
    <3>2. OnItsWay(w)'
      BY <1>1, <2>1, <2>3, <2>4, <3>1 DEF OnItsWay, Loading
    <3>3. Ended(w)'
      BY <2>3, <2>4 DEF Ended
    <3> QED
      BY <3>1, <3>2, <3>3, <2>1, <2>3, <2>4 DEF Serving, Ready
  <2> QED
    BY <1>1, <2>1, <2>2, <2>3, <2>5, <2>6, ReaderKeeps
<1> QED
  BY <1>2, <1>3

LEMMA ConditionOnMaskKeeps ==
    ASSUME DeploymentAssumption, IInv, NEW w \in Threads, ConditionOnMask(w) PROVE IInv'
<1>1. th[w].pc = "mask" /\ UNCHANGED <<server, boots, fixed, files, people>>
  BY DEF ConditionOnMask, rest
<1>2. /\ Up /\ th[w] \in Thread /\ Serving(w) /\ th[w].tool \in served /\ th[w].by = None
      /\ th \in [Threads -> Thread] /\ server.handle[th[w].tool] # None
      /\ Learned[th[w].tool].mask /\ th[w].on = th[w].tool
  BY <1>1, AThread DEF Serving, Ready
<1>3. Mask \in served /\ Mask \in Tools
  BY <1>2 DEF IInv, Typed, DiskTyped
<1> DEFINE x == IF server.env /\ Available(Mask) THEN [th[w] EXCEPT !.pc = "get", !.on = Mask]
                ELSE [th[w] EXCEPT !.pc = "infer"]
<1>4. th' = [th EXCEPT ![w] = x]
  BY <1>2 DEF ConditionOnMask
<1>5. /\ x \in Thread /\ x.pc \in {"get", "infer"} /\ x.tool = th[w].tool /\ x.by = th[w].by
      /\ (x.pc = "get" => x.on = Mask /\ Available(Mask))
  <2>1. CASE server.env /\ Available(Mask)
    BY <2>1, <1>2, <1>3 DEF Thread, Places, Loading
  <2>2. CASE ~(server.env /\ Available(Mask))
    BY <2>2, <1>2 DEF Thread, Places, Ready
  <2> QED
    BY <2>1, <2>2
<1>6. th'[w] = x
  BY <1>2, <1>4
<1> HIDE DEF x
<1>7. \A u \in served : (x.pc \in Held /\ x.on = u) <=> Holds(w, u)
  BY <1>1, <1>5 DEF Held, Holds
<1>8. Serving(w)'
  <2>1. /\ Up' /\ served' = served /\ server' = server /\ calm' = calm
        /\ (Available(Mask)' <=> Available(Mask))
    BY <1>1, <1>2 DEF Up, fixed, files, Available, Exists
  <2>2. OnItsWay(w)'
    BY <1>2, <1>3, <1>5, <1>6, <2>1 DEF OnItsWay, Loading, Held
  <2>3. Ended(w)'
    BY <1>5, <1>6 DEF Ended
  <2> QED
    BY <2>1, <2>2, <2>3, <1>2, <1>5, <1>6 DEF Serving
<1> QED
  BY <1>1, <1>2, <1>4, <1>5, <1>7, <1>8, ReaderKeeps

LEMMA AnswerKeeps ==
    ASSUME DeploymentAssumption, IInv, NEW w \in Threads, Answer(w) PROVE IInv'
<1>1. th[w].pc = "traced" /\ UNCHANGED <<server, boots, fixed, files, people>>
  BY DEF Answer, rest
<1>2. /\ Up /\ th[w] \in Thread /\ Serving(w) /\ th[w].tool \in served /\ th[w].by = None
      /\ th \in [Threads -> Thread] /\ server.handle[th[w].tool] # None /\ FromDisk(th[w])
  BY <1>1, AThread DEF Serving, Ready
<1> DEFINE x == [th[w] EXCEPT !.pc = "answered", !.by = "model",
                              !.digest = server.digest[th[w].tool]]
<1>3. th' = [th EXCEPT ![w] = x]
  BY <1>2 DEF Answer
<1>4. server.digest[th[w].tool] \in Part \cup {None}
  BY <1>2, UpIs DEF IInv, Typed
<1>5. /\ x \in Thread /\ x.pc = "answered" /\ x.tool = th[w].tool /\ x.by = "model"
      /\ x.seen = th[w].seen /\ x.side = th[w].side /\ x.digest = server.digest[th[w].tool]
  BY <1>2, <1>4 DEF Thread, Places, Answerers
<1>6. th'[w] = x
  BY <1>2, <1>3
<1> HIDE DEF x
<1>7. \A u \in served : (x.pc \in Held /\ x.on = u) <=> Holds(w, u)
  BY <1>1, <1>5 DEF Held, Holds
<1>8. x.tool \in calm => x.digest = x.seen
  BY <1>2, <1>5 DEF IInv, HandlesCurrent, Current, FromDisk
<1>9. FromDisk(x)
  BY <1>2, <1>5 DEF FromDisk
<1>10. Serving(w)'
  <2>1. /\ Up' /\ UNCHANGED <<served, server, calm, disk>>
    BY <1>1, <1>2 DEF Up, fixed, files
  <2>2. FromDisk(th[w])'
    BY <1>6, <1>9, <2>1 DEF FromDisk
  <2>3. OnItsWay(w)'
    BY <1>5, <1>6 DEF OnItsWay, Loading, Held
  <2>4. Ended(w)'
    BY <1>5, <1>6, <1>8, <2>1, <2>2 DEF Ended, Answerers
  <2> QED
    BY <2>1, <2>3, <2>4, <1>2, <1>5, <1>6 DEF Serving, Ready
<1> QED
  BY <1>1, <1>2, <1>3, <1>5, <1>7, <1>10, ReaderKeeps

LEMMA FailedServes ==
    ASSUME NEW w, NEW x \in Thread, th'[w] = x, x.pc = "answered", x.by = "failure",
           Up', x.tool \in served, ~Blameless(x.tool), UNCHANGED <<served, alike, calm, disk>>
    PROVE  Serving(w)'
<1>1. ~Blameless(x.tool)'
  BY DEF Blameless, Loadable, Available, Exists, Fit
<1>2. Ended(w)'
  BY <1>1 DEF Ended, Answerers
<1>3. OnItsWay(w)'
  BY DEF OnItsWay, Loading, Held
<1> QED
  BY <1>2, <1>3 DEF Serving, Ready

LEMMA InferKeeps ==
    ASSUME DeploymentAssumption, IInv, NEW w \in Threads, Infer(w) PROVE IInv'
<1> DEFINE t == th[w].tool
           h == server.handle[t]
           stats == Learned[t].side = "stats"
<1>1. th[w].pc = "infer" /\ UNCHANGED <<server, boots, fixed, files, people>>
  BY DEF Infer, rest
<1>2. /\ Up /\ th[w] \in Thread /\ Serving(w) /\ t \in served /\ th[w].by = None
      /\ th \in [Threads -> Thread] /\ h # None
  BY <1>1, AThread DEF Serving, Ready
<1>3. h \in Handle /\ disk[t] \in [dir : BOOLEAN, side : Part, weights : Part]
  BY <1>2, UpIs DEF IInv, Typed, DiskTyped
<1>4. /\ Up' /\ UNCHANGED <<served, server, calm, disk, alike>>
  BY <1>1, <1>2 DEF Up, fixed, files
<1>5. CASE stats /\ ~Readable(disk[t].side)
  <2> DEFINE x == [th[w] EXCEPT !.pc = "answered", !.by = "failure"]
  <2>1. th' = [th EXCEPT ![w] = x]
    BY <1>2, <1>5 DEF Infer, Failed
  <2>2. x \in Thread /\ x.pc = "answered" /\ x.tool = t /\ x.by = "failure"
    BY <1>2 DEF Thread, Places, Answerers
  <2>3. th'[w] = x
    BY <1>2, <2>1
  <2> HIDE DEF x
  <2>4. \A u \in served : (x.pc \in Held /\ x.on = u) <=> Holds(w, u)
    BY <1>1, <2>2 DEF Held, Holds
  <2>5. ~Blameless(t)
    BY <1>5 DEF Blameless, Loadable, Available
  <2>9. Serving(w)'
    BY <2>2, <2>3, <2>5, <1>2, <1>4, FailedServes
  <2> QED
    BY <1>1, <1>2, <2>1, <2>2, <2>4, <2>9, ReaderKeeps
<1>6. CASE ~(stats /\ ~Readable(disk[t].side))
  <2> DEFINE weights == h.weights
             side == IF stats THEN disk[t].side ELSE h.side
             x == [th[w] EXCEPT !.pc = "traced", !.seen = weights, !.side = side]
  <2>1. th' = [th EXCEPT ![w] = x]
    BY <1>2, <1>6 DEF Infer
  <2>9. weights \in Part /\ side \in Part
    BY <1>3 DEF Handle
  <2> HIDE DEF weights, side
  <2>2. /\ x \in Thread /\ x.pc = "traced" /\ x.tool = t /\ x.by = None
        /\ x.seen = weights /\ x.side = side
    BY <2>9, <1>2 DEF Thread, Places, Ready
  <2>3. th'[w] = x
    BY <1>2, <2>1
  <2>4. FromDisk(x)
    <3> SUFFICES ASSUME t \in calm
                 PROVE  /\ x.seen = disk[t].weights /\ x.seen \in Generation
                        /\ Learned[t].side \in {"vocab", "stats"} =>
                             x.side = disk[t].side /\ x.side \in Generation
      BY <2>2 DEF FromDisk
    <3>1. Current(t)
      BY <1>2 DEF IInv, HandlesCurrent
    <3> HIDE DEF x
    <3> QED
      BY <3>1, <2>2, <1>6 DEF Current, Readable, weights, side
  <2> HIDE DEF x
  <2>5. \A u \in served : (x.pc \in Held /\ x.on = u) <=> Holds(w, u)
    BY <1>1, <2>2 DEF Held, Holds
  <2>6. FromDisk(th[w])'
    BY <2>3, <2>4, <1>4 DEF FromDisk
  <2>7. OnItsWay(w)' /\ Ended(w)'
    BY <2>2, <2>3 DEF OnItsWay, Loading, Held, Ended
  <2>8. Serving(w)'
    BY <2>2, <2>3, <2>6, <2>7, <1>2, <1>4 DEF Serving, Ready
  <2> QED
    BY <1>1, <1>2, <2>1, <2>2, <2>5, <2>8, ReaderKeeps
<1> QED
  BY <1>5, <1>6

-----------------------------------------------------------------------------
(* Under the lock.                                                          *)

(* A thread that holds it and goes on, the server left alone.                 *)
LEMMA HolderKeeps ==
    ASSUME DeploymentAssumption, IInv, NEW w \in Threads, th[w].pc \in Held,
           UNCHANGED <<server, boots, fixed, files, people>>,
           NEW x \in Thread, th' = [th EXCEPT ![w] = x],
           x.pc \in Held, x.on = th[w].on, x.tool = th[w].tool, x.by = th[w].by,
           x.on \in calm =>
            /\ x.pc \in {"open", "load", "record", "publish"} /\ Learned[x.on].side = "vocab" =>
                 x.side = disk[x.on].side /\ x.side \in Generation
            /\ x.pc \in {"load", "record", "publish"} =>
                 x.seen = disk[x.on].weights /\ x.seen \in Generation
            /\ x.pc = "publish" => server.digest[x.on] = x.seen
    PROVE  IInv'
<1>1. /\ Up /\ th[w] \in Thread /\ Serving(w) /\ th[w].tool \in served /\ th[w].by = None
      /\ th \in [Threads -> Thread] /\ OnItsWay(w)
  BY AThread DEF Serving, Held
<1>2. th'[w] = x
  BY <1>1
<1>3. \A u \in served : (x.pc \in Held /\ x.on = u) <=> Holds(w, u)
  BY DEF Holds
<1>4. /\ Up' /\ UNCHANGED <<served, server, calm, disk>> /\ (Available(Mask)' <=> Available(Mask))
  BY <1>1 DEF Up, fixed, files, Available, Exists
<1>5. OnItsWay(w)'
  BY <1>1, <1>2, <1>4 DEF OnItsWay, Loading
<1>6. Ended(w)'
  BY <1>2 DEF Ended, Held
<1>7. Serving(w)'
  BY <1>1, <1>2, <1>4, <1>5, <1>6 DEF Serving, Ready, Held
<1> QED
  BY <1>1, <1>3, <1>7, ReaderKeeps

(* Loading fails only where verify_v2_deploy would have.                      *)
LEMMA RaiseKeeps ==
    ASSUME DeploymentAssumption, IInv, NEW w \in Threads, th[w].pc \in Held, Raise(w),
           UNCHANGED <<boots, fixed, files, people>>,
           th[w].on \in calm => ~Loadable(th[w].on)
    PROVE  IInv'
<1> DEFINE t == th[w].tool
           x == [th[w] EXCEPT !.pc = "answered", !.by = "failure"]
<1>1. /\ Up /\ th[w] \in Thread /\ Serving(w) /\ t \in served /\ th[w].by = None
      /\ th \in [Threads -> Thread] /\ OnItsWay(w) /\ th[w].on \in served
  BY AThread DEF Serving, Held, Loading
<1>2. th' = [th EXCEPT ![w] = x]
  BY <1>1 DEF Raise, Failed
<1>3. x \in Thread /\ x.pc = "answered" /\ x.tool = t /\ x.by = "failure"
  BY <1>1 DEF Thread, Places, Answerers
<1>4. th'[w] = x
  BY <1>1, <1>2
<1> HIDE DEF x
<1>5. /\ server \in [env : BOOLEAN, boot : Nat, real : SUBSET served,
                     handle : [served -> Handle \cup {None}],
                     lock : [served -> Threads \cup {None}],
                     digest : [served -> Part \cup {None}]]
      /\ server.boot # 0
  BY <1>1, UpIs DEF IInv, Typed
<1> DEFINE lock == [u \in served |-> IF server.lock[u] = w THEN None ELSE server.lock[u]]
<1>6. server' = [server EXCEPT !.lock = lock]
  BY <1>5 DEF Raise
<1>7. /\ Moves(w) /\ server'.lock = lock
      /\ server'.handle = server.handle /\ server'.digest = server.digest
  BY <1>1, <1>2, <1>3, <1>5, <1>6 DEF Moves
<1>8. HandlesCurrent'
  BY <1>1, <1>7, HandlesSame
<1>9. LocksHeld'
  <2> SUFFICES ASSUME NEW u \in served
               PROVE  /\ \A v \in Threads : lock[u] = v <=> Holds(v, u)'
                      /\ lock[u] # None => server.handle[u] = None
    BY <1>7 DEF LocksHeld, Moves, fixed
  <2>1. /\ \A v \in Threads : server.lock[u] = v <=> Holds(v, u)
        /\ server.lock[u] # None => server.handle[u] = None
    BY <1>1 DEF IInv, LocksHeld
  <2>2. ~Holds(w, u)' /\ \A v \in Threads \ {w} : Holds(v, u)' <=> Holds(v, u)
    BY <1>1, <1>2, <1>3, <1>4 DEF Holds, Held
  <2>3. None \notin Threads
    BY DEF DeploymentAssumption
  <2> QED
    BY <2>1, <2>2, <2>3
<1>10. ~Blameless(t)
  <2>1. CASE th[w].on = t
    BY <2>1 DEF Blameless
  <2>2. CASE th[w].on # t
    <3>1. Learned[t].mask /\ th[w].on = Mask /\ (Mask \in calm => Available(Mask))
      BY <2>2, <1>1 DEF OnItsWay, Loading
    <3> QED
      BY <3>1 DEF Blameless, Available
  <2> QED
    BY <2>1, <2>2
<1>11. Serving(w)'
  <2>1. /\ Up' /\ UNCHANGED <<served, calm, disk, alike>>
    <3>1. server'.boot # 0
      BY <1>5, <1>6
    <3> QED
      BY <3>1 DEF Up, fixed, files, NoServer
  <2> QED
    BY <2>1, <1>1, <1>3, <1>4, <1>10, FailedServes
<1> QED
  BY <1>1, <1>7, <1>8, <1>9, <1>11, StepKeeps

ServerUp == [env : BOOLEAN, boot : Nat, real : SUBSET served,
             handle : [served -> Handle \cup {None}],
             lock : [served -> Threads \cup {None}],
             digest : [served -> Part \cup {None}]]

(* What a thread knows that waits for the lock or holds it.                   *)
LEMMA AtTheHandle ==
    ASSUME IInv, NEW w \in Threads, th[w].pc \in Loading
    PROVE  /\ Up /\ th[w] \in Thread /\ Serving(w) /\ OnItsWay(w) /\ LocksHeld
           /\ th[w].tool \in served /\ th[w].on \in served /\ th[w].by = None
           /\ th \in [Threads -> Thread]
           /\ server \in ServerUp /\ server.boot # 0
           /\ disk[th[w].on] \in [dir : BOOLEAN, side : Part, weights : Part]
BY AThread, UpIs DEF Loading, Held, IInv, Typed, DiskTyped, Serving, ServerUp

LEMMA LockKeeps ==
    ASSUME DeploymentAssumption, IInv, NEW w \in Threads, Lock(w) PROVE IInv'
<1> DEFINE t == th[w].on
<1>1. /\ th[w].pc = "wait" /\ server.lock[t] = None
      /\ UNCHANGED <<boots, fixed, files, people>>
  BY DEF Lock, rest
<1>2. CASE server.handle[t] # None
  BY <1>1, <1>2, Found DEF Lock
<1>3. CASE server.handle[t] = None
  <2>1. /\ Up /\ th[w] \in Thread /\ Serving(w) /\ OnItsWay(w) /\ LocksHeld
        /\ th[w].tool \in served /\ t \in served /\ th[w].by = None
        /\ th \in [Threads -> Thread] /\ server \in ServerUp /\ server.boot # 0
    BY <1>1, AtTheHandle DEF Loading
  <2> DEFINE x == [th[w] EXCEPT !.pc = "side"]
  <2>2. th' = [th EXCEPT ![w] = x] /\ server' = [server EXCEPT !.lock[t] = w]
    BY <2>1, <1>3 DEF Lock, Goto
  <2>3. /\ x \in Thread /\ x.pc = "side" /\ x.tool = th[w].tool /\ x.on = t /\ x.by = None
    BY <2>1 DEF Thread, Places, Loading, Held
  <2>4. th'[w] = x
    BY <2>1, <2>2
  <2> HIDE DEF x
  <2>5. /\ server' \in ServerUp
        /\ server'.lock = [server.lock EXCEPT ![t] = w]
        /\ server'.handle = server.handle /\ server'.digest = server.digest
        /\ server'.env = server.env /\ server'.boot = server.boot /\ server'.real = server.real
    BY <2>1, <2>2 DEF ServerUp
  <2>6. Moves(w)
    BY <2>1, <2>2, <2>3, <2>5, <1>1 DEF Moves, ServerUp
  <2>7. HandlesCurrent'
    BY <2>1, <2>5, <2>6, HandlesSame
  <2>8. LocksHeld'
    <3> SUFFICES ASSUME NEW u \in served
                 PROVE  /\ \A v \in Threads : server'.lock[u] = v <=> Holds(v, u)'
                        /\ server'.lock[u] # None => server'.handle[u] = None
      BY <1>1 DEF LocksHeld, fixed
    <3>1. /\ \A v \in Threads : server.lock[u] = v <=> Holds(v, u)
          /\ server.lock[u] # None => server.handle[u] = None
      BY <2>1 DEF LocksHeld
    <3>2. /\ Holds(w, u)' <=> u = t
          /\ ~Holds(w, u)
          /\ \A v \in Threads \ {w} : Holds(v, u)' <=> Holds(v, u)
      BY <1>1, <2>1, <2>2, <2>3, <2>4 DEF Holds, Held
    <3>3. server'.lock[u] = IF u = t THEN w ELSE server.lock[u]
      BY <2>1, <2>5 DEF ServerUp
    <3>4. None \notin Threads
      BY DEF DeploymentAssumption
    <3> QED
      BY <3>1, <3>2, <3>3, <3>4, <2>5, <1>1, <1>3
  <2>9. Serving(w)'
    <3>1. /\ Up' /\ UNCHANGED <<served, calm, disk>> /\ (Available(Mask)' <=> Available(Mask))
      <4>1. server'.boot # 0 /\ UNCHANGED <<served, calm, disk>>
        BY <2>1, <2>5, <1>1 DEF fixed, files
      <4> QED
        BY <4>1, <2>5 DEF Up, NoServer, Available, Exists
    <3>2. OnItsWay(w)'
      BY <1>1, <2>1, <2>3, <2>4, <2>5, <3>1 DEF OnItsWay, Loading
    <3>3. Ended(w)'
      BY <2>3, <2>4 DEF Ended
    <3> QED
      BY <3>1, <3>2, <3>3, <2>1, <2>3, <2>4 DEF Serving, Ready
  <2> QED
    BY <2>1, <2>6, <2>7, <2>8, <2>9, StepKeeps
<1> QED
  BY <1>2, <1>3

LEMMA ReadVocabKeeps ==
    ASSUME DeploymentAssumption, IInv, NEW w \in Threads, ReadVocab(w) PROVE IInv'
<1> DEFINE t == th[w].on
<1>1. th[w].pc = "side" /\ th[w].pc \in Held /\ UNCHANGED <<boots, fixed, files, people>>
  BY DEF ReadVocab, rest, Held
<1>2. /\ th[w] \in Thread /\ t \in served /\ th \in [Threads -> Thread]
      /\ disk[t] \in [dir : BOOLEAN, side : Part, weights : Part]
  BY <1>1, AtTheHandle DEF Loading
<1>3. CASE Learned[t].side # "vocab"
  <2> DEFINE x == [th[w] EXCEPT !.pc = "open"]
  <2>1. th' = [th EXCEPT ![w] = x] /\ UNCHANGED server
    BY <1>2, <1>3 DEF ReadVocab, Goto
  <2>2. x \in Thread /\ x.pc = "open" /\ x.on = t /\ x.tool = th[w].tool /\ x.by = th[w].by
    BY <1>2 DEF Thread, Places, Loading, Held
  <2> HIDE DEF x
  <2> QED
    BY <1>1, <1>3, <2>1, <2>2, HolderKeeps DEF Held
<1>4. CASE Learned[t].side = "vocab" /\ Readable(disk[t].side)
  <2> DEFINE x == [th[w] EXCEPT !.side = disk[t].side, !.pc = "open"]
  <2>1. th' = [th EXCEPT ![w] = x] /\ UNCHANGED server
    BY <1>2, <1>4 DEF ReadVocab
  <2>2. /\ x \in Thread /\ x.pc = "open" /\ x.on = t /\ x.tool = th[w].tool /\ x.by = th[w].by
        /\ x.side = disk[t].side
    BY <1>2 DEF Thread, Places, Loading, Held
  <2> HIDE DEF x
  <2> QED
    BY <1>1, <1>4, <2>1, <2>2, HolderKeeps DEF Held, Readable
<1>5. CASE Learned[t].side = "vocab" /\ ~Readable(disk[t].side)
  <2>1. Raise(w) /\ ~Loadable(t)
    BY <1>5 DEF ReadVocab, Loadable, Available
  <2> QED
    BY <1>1, <2>1, RaiseKeeps
<1> QED
  BY <1>3, <1>4, <1>5

LEMMA OpenKeeps ==
    ASSUME DeploymentAssumption, IInv, NEW w \in Threads, Open(w) PROVE IInv'
<1> DEFINE t == th[w].on
           opens == Readable(disk[t].weights) /\ (Learned[t].side = "header" => Readable(disk[t].side))
<1>1. th[w].pc = "open" /\ th[w].pc \in Held /\ UNCHANGED <<boots, fixed, files, people>>
  BY DEF Open, rest, Held
<1>2. /\ th[w] \in Thread /\ t \in served /\ th \in [Threads -> Thread] /\ OnItsWay(w)
      /\ disk[t] \in [dir : BOOLEAN, side : Part, weights : Part]
  BY <1>1, AtTheHandle DEF Loading
<1>3. CASE opens
  <2> DEFINE pc == IF Learned[t].opens = 2 THEN "load" ELSE "record"
             x == [th[w] EXCEPT !.seen = disk[t].weights, !.pc = pc]
  <2>1. th' = [th EXCEPT ![w] = x] /\ UNCHANGED server
    BY <1>2, <1>3 DEF Open
  <2>2. pc \in {"load", "record"}
    OBVIOUS
  <2> HIDE DEF pc
  <2>3. /\ x \in Thread /\ x.pc \in {"load", "record"} /\ x.on = t /\ x.tool = th[w].tool
        /\ x.by = th[w].by /\ x.seen = disk[t].weights /\ x.side = th[w].side
    BY <2>2, <1>2 DEF Thread, Places, Loading, Held
  <2> HIDE DEF x
  <2>4. t \in calm /\ Learned[t].side = "vocab" => x.side = disk[t].side /\ x.side \in Generation
    BY <2>3, <1>1, <1>2 DEF OnItsWay, Loading
  <2>5. x.seen \in Generation
    BY <1>3, <2>3 DEF Readable
  <2> QED
    BY <1>1, <2>1, <2>3, <2>4, <2>5, HolderKeeps DEF Held
<1>4. CASE ~opens
  <2>1. Raise(w)
    BY <1>4 DEF Open
  <2>2. ~Loadable(t)
    BY <1>4 DEF Loadable, Available
  <2> QED
    BY <1>1, <2>1, <2>2, RaiseKeeps
<1> QED
  BY <1>3, <1>4

LEMMA LoadCheckpointKeeps ==
    ASSUME DeploymentAssumption, IInv, NEW w \in Threads, LoadCheckpoint(w) PROVE IInv'
<1> DEFINE t == th[w].on
           now == disk[t].weights
           loads == /\ Readable(now) /\ Fit(th[w].seen, now)
                    /\ Learned[t].side = "vocab" => Fit(th[w].side, now)
<1>1. th[w].pc = "load" /\ th[w].pc \in Held /\ UNCHANGED <<boots, fixed, files, people>>
  BY DEF LoadCheckpoint, rest, Held
<1>2. /\ th[w] \in Thread /\ t \in served /\ th \in [Threads -> Thread] /\ OnItsWay(w)
      /\ disk[t] \in [dir : BOOLEAN, side : Part, weights : Part]
  BY <1>1, AtTheHandle DEF Loading
<1>3. t \in calm =>
        /\ th[w].seen = disk[t].weights
        /\ Learned[t].side = "vocab" => th[w].side = disk[t].side /\ th[w].side \in Generation
  BY <1>1, <1>2 DEF OnItsWay, Loading
<1>4. CASE loads
  <2> DEFINE x == [th[w] EXCEPT !.seen = now, !.pc = "record"]
  <2>1. th' = [th EXCEPT ![w] = x] /\ UNCHANGED server
    BY <1>2, <1>4 DEF LoadCheckpoint
  <2>2. /\ x \in Thread /\ x.pc = "record" /\ x.on = t /\ x.tool = th[w].tool
        /\ x.by = th[w].by /\ x.seen = disk[t].weights /\ x.side = th[w].side
    BY <1>2 DEF Thread, Places, Loading, Held
  <2> HIDE DEF x
  <2>3. x.seen \in Generation
    BY <1>4, <2>2 DEF Readable
  <2> QED
    BY <1>1, <1>3, <2>1, <2>2, <2>3, HolderKeeps DEF Held
<1>5. CASE ~loads
  <2>1. Raise(w)
    BY <1>5 DEF LoadCheckpoint
  <2>2. t \in calm => ~Loadable(t)
    BY <1>3, <1>5 DEF Loadable, Fit
  <2> QED
    BY <1>1, <2>1, <2>2, RaiseKeeps
<1> QED
  BY <1>4, <1>5

(* The thread at the end of loading writes to the server, of its own tool.     *)
LEMMA RecordKeeps ==
    ASSUME DeploymentAssumption, IInv, NEW w \in Threads, Record(w) PROVE IInv'
<1> DEFINE t == th[w].on
           weights == disk[t].weights
           x == [th[w] EXCEPT !.pc = "publish"]
           digest == IF weights = Absent THEN server.digest
                     ELSE [server.digest EXCEPT ![t] = weights]
<1>1. th[w].pc = "record" /\ UNCHANGED <<boots, fixed, files, people>>
  BY DEF Record, rest
<1>2. /\ Up /\ th[w] \in Thread /\ Serving(w) /\ OnItsWay(w) /\ LocksHeld
      /\ th[w].tool \in served /\ t \in served /\ th[w].by = None
      /\ th \in [Threads -> Thread] /\ server \in ServerUp /\ server.boot # 0
      /\ weights \in Part
  <2>1. th[w].pc \in Loading
    BY <1>1 DEF Loading, Held
  <2> QED
    BY <2>1, AtTheHandle
<1>3. th' = [th EXCEPT ![w] = x]
  BY <1>2 DEF Record, Goto
<1>4. /\ x \in Thread /\ x.pc = "publish" /\ x.tool = th[w].tool /\ x.on = t /\ x.by = None
      /\ x.seen = th[w].seen /\ x.side = th[w].side
  BY <1>2 DEF Thread, Places, Loading, Held
<1>5. th'[w] = x
  BY <1>2, <1>3
<1> HIDE DEF x
<1>6. /\ server' \in ServerUp /\ server'.digest = digest /\ server'.handle = server.handle
      /\ server'.lock = server.lock /\ server'.env = server.env
      /\ server'.boot = server.boot /\ server'.real = server.real
  <2>1. CASE weights = Absent
    BY <2>1, <1>2 DEF Record
  <2>2. CASE weights # Absent
    <3>1. server' = [server EXCEPT !.digest = [server.digest EXCEPT ![t] = weights]]
      BY <2>2, <1>2 DEF Record, ServerUp
    <3> QED
      BY <3>1, <2>2, <1>2 DEF ServerUp
  <2> QED
    BY <2>1, <2>2
<1>7. \A u \in served : server'.digest[u] =
         IF u = t /\ weights # Absent THEN weights ELSE server.digest[u]
  BY <1>2, <1>6 DEF ServerUp
<1> HIDE DEF digest
<1>8. Holds(w, t) /\ server.handle[t] = None
  <2>1. Holds(w, t)
    BY <1>1 DEF Holds, Held
  <2>2. server.lock[t] = w /\ w # None
    BY <2>1, <1>2 DEF LocksHeld, DeploymentAssumption
  <2> QED
    BY <2>1, <2>2, <1>2 DEF LocksHeld
<1>9. Moves(w)
  BY <1>1, <1>2, <1>3, <1>4, <1>6, <1>7, <1>8 DEF Moves, ServerUp
<1>10. Up' /\ UNCHANGED <<served, calm, disk>>
  BY <1>1, <1>2, <1>6 DEF Up, NoServer, fixed, files
<1>11. LocksHeld'
  <2>1. \A v \in Threads, u \in served : Holds(v, u)' <=> Holds(v, u)
    BY <1>1, <1>2, <1>3, <1>4 DEF Holds, Held
  <2> QED
    BY <2>1, <1>2, <1>6, <1>10 DEF LocksHeld
<1>12. HandlesCurrent'
  <2> SUFFICES ASSUME NEW u \in calm, server.handle[u] # None PROVE Current(u)'
    BY <1>6, <1>10 DEF HandlesCurrent
  <2>1. Current(u) /\ u # t /\ u \in served
    BY <1>2, <1>8 DEF IInv, HandlesCurrent, Typed, DiskTyped
  <2> QED
    BY <2>1, <1>6, <1>7, <1>10 DEF Current
<1>13. Serving(w)'
  <2>1. t \in calm =>
          /\ Learned[t].side = "vocab" => x.side = disk[t].side /\ x.side \in Generation
          /\ x.seen = weights /\ x.seen \in Generation
          /\ server'.digest[t] = x.seen
    BY <1>1, <1>2, <1>4, <1>7, GenerationIs DEF OnItsWay, Loading, Held
  <2>2. Available(Mask)' <=> Available(Mask)
    BY <1>10 DEF Available, Exists
  <2>3. OnItsWay(w)'
    BY <1>1, <1>2, <1>4, <1>5, <1>6, <1>10, <2>1, <2>2 DEF OnItsWay, Loading, Held
  <2>4. Ended(w)'
    BY <1>4, <1>5 DEF Ended
  <2> QED
    BY <2>3, <2>4, <1>2, <1>4, <1>5, <1>10 DEF Serving, Ready
<1> QED
  BY <1>2, <1>9, <1>11, <1>12, <1>13, StepKeeps

LEMMA PublishKeeps ==
    ASSUME DeploymentAssumption, IInv, NEW w \in Threads, Publish(w) PROVE IInv'
<1> DEFINE t == th[w].on
           x == [th[w] EXCEPT !.pc = AfterGet(w)]
           h == [weights |-> th[w].seen, side |-> th[w].side]
<1>1. th[w].pc = "publish" /\ UNCHANGED <<boots, fixed, files, people>>
  BY DEF Publish, rest
<1>2. /\ Up /\ th[w] \in Thread /\ Serving(w) /\ OnItsWay(w) /\ LocksHeld
      /\ th[w].tool \in served /\ t \in served /\ th[w].by = None
      /\ th \in [Threads -> Thread] /\ server \in ServerUp /\ server.boot # 0
  <2>1. th[w].pc \in Loading
    BY <1>1 DEF Loading, Held
  <2> QED
    BY <2>1, AtTheHandle
<1>3. th' = [th EXCEPT ![w] = x]
  BY <1>2 DEF Publish, Goto
<1>4. AfterGet(w) \in {"mask", "infer"}
      /\ (AfterGet(w) = "mask" <=> Learned[th[w].tool].mask /\ t = th[w].tool)
  BY DEF AfterGet
<1>5. /\ x \in Thread /\ x.pc = AfterGet(w) /\ x.tool = th[w].tool /\ x.on = t /\ x.by = None
  BY <1>2, <1>4 DEF Thread, Places, Ready
<1>6. th'[w] = x
  BY <1>2, <1>3
<1> HIDE DEF x
<1>7. h \in Handle /\ h # None /\ h.weights = th[w].seen /\ h.side = th[w].side
  BY <1>2 DEF Handle, Thread, DeploymentAssumption
<1>8. server' = [server EXCEPT !.handle[t] = h, !.lock[t] = None]
  BY DEF Publish
<1> HIDE DEF h
<1>9. /\ server' \in ServerUp
      /\ server'.handle = [server.handle EXCEPT ![t] = h]
      /\ server'.lock = [server.lock EXCEPT ![t] = None]
      /\ server'.digest = server.digest /\ server'.env = server.env
      /\ server'.boot = server.boot /\ server'.real = server.real
  BY <1>2, <1>7, <1>8 DEF ServerUp
<1>10. \A u \in served : /\ server'.handle[u] = IF u = t THEN h ELSE server.handle[u]
                         /\ server'.lock[u] = IF u = t THEN None ELSE server.lock[u]
  BY <1>2, <1>9 DEF ServerUp
<1>11. Holds(w, t)
  BY <1>1 DEF Holds, Held
<1>12. Moves(w)
  BY <1>1, <1>2, <1>3, <1>5, <1>9, <1>10, <1>11 DEF Moves, ServerUp
<1>13. Up' /\ UNCHANGED <<served, calm, disk>>
  BY <1>1, <1>2, <1>9 DEF Up, NoServer, fixed, files
<1>14. LocksHeld'
  <2> SUFFICES ASSUME NEW u \in served
               PROVE  /\ \A v \in Threads : server'.lock[u] = v <=> Holds(v, u)'
                      /\ server'.lock[u] # None => server'.handle[u] = None
    BY <1>13 DEF LocksHeld
  <2>1. /\ \A v \in Threads : server.lock[u] = v <=> Holds(v, u)
        /\ server.lock[u] # None => server.handle[u] = None
    BY <1>2 DEF LocksHeld
  <2>2. /\ ~Holds(w, u)'
        /\ Holds(w, u) <=> u = t
        /\ \A v \in Threads \ {w} : Holds(v, u)' <=> Holds(v, u)
    BY <1>1, <1>2, <1>3, <1>4, <1>5, <1>6 DEF Holds, Held
  <2>3. None \notin Threads
    BY DEF DeploymentAssumption
  <2>4. CASE u = t
    BY <2>1, <2>2, <2>3, <2>4, <1>10
  <2>5. CASE u # t
    BY <2>1, <2>2, <2>3, <2>5, <1>10
  <2> QED
    BY <2>4, <2>5
<1>15. HandlesCurrent'
  <2> SUFFICES ASSUME NEW u \in calm, server'.handle[u] # None PROVE Current(u)'
    BY <1>13 DEF HandlesCurrent
  <2>1. u \in served
    BY DEF IInv, Typed, DiskTyped
  <2>2. CASE u = t
    <3>1. /\ Learned[t].side = "vocab" => th[w].side = disk[t].side /\ th[w].side \in Generation
          /\ th[w].seen = disk[t].weights /\ th[w].seen \in Generation
          /\ server.digest[t] = th[w].seen
      BY <2>2, <1>1, <1>2 DEF OnItsWay, Loading, Held
    <3> QED
      BY <3>1, <2>1, <2>2, <1>7, <1>9, <1>10, <1>13 DEF Current
  <2>3. CASE u # t
    <3>1. Current(u)
      BY <2>1, <2>3, <1>2, <1>10 DEF IInv, HandlesCurrent
    <3> QED
      BY <3>1, <2>1, <2>3, <1>9, <1>10, <1>13 DEF Current
  <2> QED
    BY <2>2, <2>3
<1>16. Serving(w)'
  <2>1. server'.handle[th[w].tool] # None
    BY <1>1, <1>2, <1>7, <1>10 DEF OnItsWay, Loading, Held
  <2>2. OnItsWay(w)' /\ Ended(w)'
    BY <1>4, <1>5, <1>6 DEF OnItsWay, Ended, Loading, Held
  <2> QED
    BY <2>1, <2>2, <1>2, <1>4, <1>5, <1>6, <1>13 DEF Serving
<1> QED
  BY <1>2, <1>12, <1>14, <1>15, <1>16, StepKeeps

LEMMA ThreadSteps ==
    ASSUME DeploymentAssumption, IInv, NEW w \in Threads, Ask(w) \/ Serve(w) \/ Leave(w)
    PROVE  IInv'
BY AskKeeps, LeaveKeeps, GetKeeps, LockKeeps, ReadVocabKeeps, OpenKeeps, LoadCheckpointKeeps,
   RecordKeeps, PublishKeeps, ConditionOnMaskKeeps, InferKeeps, AnswerKeeps DEF Serve

-----------------------------------------------------------------------------
(* The server comes and goes.                                               *)

LEMMA BootKeeps ==
    ASSUME DeploymentAssumption, IInv, NEW env \in BOOLEAN, Boot(env),
           UNCHANGED <<fixed, disk, inst, verified, gen, th, preflight>>
    PROVE  IInv'
<1>1. /\ ~Up /\ boots \in Nat /\ boots' = boots + 1 /\ calm' = served
      /\ server' = [env |-> env, boot |-> boots + 1, real |-> Real(env),
                    handle |-> [t \in served |-> None], lock |-> [t \in served |-> None],
                    digest |-> [t \in served |-> None]]
  BY DEF Boot, IInv, Typed, ServerTyped
<1>2. /\ UNCHANGED <<served, alike, disk, inst, verified, gen, th, preflight>>
      /\ th \in [Threads -> Thread]
  BY DEF fixed, IInv, Typed
<1>3. /\ server'.boot = boots + 1 /\ server'.env = env /\ server'.real = Real(env)
      /\ \A t \in served : server'.handle[t] = None /\ server'.lock[t] = None
  BY <1>1
<1>4. \A w \in Threads : th[w].pc = "idle" /\ th[w].by = None
  BY <1>1 DEF IInv, ThreadsServe, Serving
<1>5. DiskTyped'
  BY <1>1, <1>2 DEF IInv, Typed, DiskTyped
<1>6. ServerTyped'
  BY <1>1, <1>2, <1>3 DEF ServerTyped, Real
<1>7. DiskInv' /\ VerifiedLoads'
  BY <1>2 DEF IInv, DiskInv, Sane, Empty, Installing, Value, VerifiedLoads, Loadable, Available,
              Exists, Fit
<1>8. RegistryTrue'
  BY <1>1, <1>2, <1>3 DEF RegistryTrue, Real, Available, Exists
<1>9. LocksHeld'
  BY <1>2, <1>3, <1>4 DEF LocksHeld, Holds, Held, DeploymentAssumption
<1>10. HandlesCurrent'
  BY <1>1, <1>3 DEF HandlesCurrent
<1>11. ThreadsServe'
  BY <1>2, <1>4 DEF ThreadsServe, Serving, OnItsWay, Ended, Loading, Held, Ready
<1>12. GoWasTrue'
  BY <1>1, <1>2, <1>3 DEF IInv, GoWasTrue
<1> QED
  BY <1>2, <1>5, <1>6, <1>7, <1>8, <1>9, <1>10, <1>11, <1>12 DEF IInv, Typed

LEMMA DieKeeps ==
    ASSUME DeploymentAssumption, IInv, Die, UNCHANGED <<fixed, files, preflight, boots>>
    PROVE  IInv'
<1>1. /\ server' = NoServer /\ ~Up'
      /\ UNCHANGED <<served, alike, disk, inst, verified, calm, gen, preflight, boots>>
  BY DEF Die, Up, fixed, files
<1>2. \A w \in Threads : th'[w] = Quiet
  BY DEF Die
<1>3. th' \in [Threads -> Thread]
  BY GenerationIs DEF Die, Quiet, Thread, Places, Loading
<1>4. DiskTyped'
  BY <1>1 DEF IInv, Typed, DiskTyped
<1>5. ServerTyped'
  BY <1>1 DEF IInv, Typed, ServerTyped, NoServer
<1>6. DiskInv' /\ VerifiedLoads'
  BY <1>1 DEF IInv, DiskInv, Sane, Empty, Installing, Value, VerifiedLoads, Loadable, Available,
              Exists, Fit
<1>7. RegistryTrue' /\ LocksHeld' /\ HandlesCurrent'
  BY <1>1 DEF RegistryTrue, LocksHeld, HandlesCurrent
<1>8. ThreadsServe'
  BY <1>2 DEF ThreadsServe, Serving, OnItsWay, Ended, Loading, Held, Ready, Quiet
<1>9. GoWasTrue'
  BY <1>1 DEF IInv, GoWasTrue
<1> QED
  BY <1>3, <1>4, <1>5, <1>6, <1>7, <1>8, <1>9 DEF IInv, Typed

(* A step that leaves the server, its threads and the disk as they were.      *)
LEMMA NothingMoves ==
    ASSUME IInv, UNCHANGED <<fixed, files, server, th, boots>>, GoWasTrue'
    PROVE  IInv'
<1>1. UNCHANGED <<served, alike, disk, inst, verified, calm, gen, server, th, boots>>
  BY DEF fixed, files
<1>2. Typed'
  BY <1>1 DEF IInv, Typed, DiskTyped, ServerTyped
<1>3. DiskInv' /\ VerifiedLoads'
  BY <1>1 DEF IInv, DiskInv, Sane, Empty, Installing, Value, VerifiedLoads, Loadable, Available,
              Exists, Fit
<1>4. RegistryTrue' /\ LocksHeld' /\ HandlesCurrent'
  BY <1>1 DEF IInv, RegistryTrue, LocksHeld, HandlesCurrent, Up, Available, Exists, Holds, Current
<1>5. ThreadsServe'
  BY <1>1 DEF IInv, ThreadsServe, Serving, OnItsWay, Ended, FromDisk, Blameless, Loadable,
              Available, Exists, Fit, Up
<1> QED
  BY <1>2, <1>3, <1>4, <1>5 DEF IInv

LEMMA PreflightKeeps == ASSUME DeploymentAssumption, IInv, Preflight PROVE IInv'
<1>1. PICK allow_stubs, web_up \in BOOLEAN :
        preflight' = preflight \cup
            {b \in {server.boot} : Verdict(allow_stubs, web_up) = "GO"}
  BY DEF Preflight
<1>2. UNCHANGED <<fixed, files, server, th, boots>>
  BY DEF Preflight
<1>3. Verdict(allow_stubs, web_up) = "GO" => Stubs = {}
  BY DEF Verdict
<1>4. GoWasTrue'
  <2>1. Up /\ server.boot \in preflight' => Stubs' = {}
    BY <1>1, <1>2, <1>3 DEF Stubs, fixed, IInv, GoWasTrue
  <2>2. preflight' \subseteq 0 .. boots
    BY <1>1 DEF IInv, Typed, ServerTyped, GoWasTrue
  <2> QED
    BY <2>1, <2>2, <1>2 DEF GoWasTrue, Up
<1> QED
  BY <1>2, <1>4, NothingMoves

LEMMA Unmoved ==
    ASSUME IInv, UNCHANGED <<fixed, files, server, th, boots, preflight>> PROVE IInv'
<1>1. GoWasTrue'
  BY DEF IInv, GoWasTrue, Stubs, Up, fixed
<1> QED
  BY <1>1, NothingMoves

LEMMA LaunchKeeps == ASSUME DeploymentAssumption, IInv, Launch PROVE IInv'
<1>1. CASE Boot(TRUE)
  BY <1>1, BootKeeps DEF Launch
<1>2. CASE UNCHANGED <<server, calm, boots>>
  <2>1. UNCHANGED <<fixed, files, server, th, boots, preflight>>
    BY <1>2 DEF Launch, files
  <2> QED
    BY <2>1, Unmoved
<1> QED
  BY <1>1, <1>2 DEF Launch

LEMMA LeavesKeeps == ASSUME DeploymentAssumption, IInv, Leaves PROVE IInv'
<1>1. CASE Die
  BY <1>1, DieKeeps DEF Leaves
<1>2. CASE UNCHANGED <<server, th>>
  BY <1>2, Unmoved DEF Leaves
<1> QED
  BY <1>1, <1>2 DEF Leaves

LEMMA ServerSteps ==
    ASSUME DeploymentAssumption, IInv, Start \/ Stop \/ Preflight \/ Launch \/ Leaves
    PROVE  IInv'
<1>1. CASE Start
  BY <1>1, BootKeeps DEF Start, fixed, people
<1>2. CASE Stop
  BY <1>2, DieKeeps DEF Stop, people
<1> QED
  BY <1>1, <1>2, PreflightKeeps, LaunchKeeps, LeavesKeeps

LEMMA InitHolds == ASSUME DeploymentAssumption, Init PROVE IInv
<1>1. /\ served \subseteq Tools /\ \A t \in served : Learned[t].mask => Mask \in served
  BY DEF Init, DeploymentAssumption
<1>2. DiskTyped
  BY <1>1, GenerationIs DEF Init, DiskTyped, DeploymentAssumption
<1>3. ServerTyped
  BY DEF Init, ServerTyped, NoServer
<1>4. th \in [Threads -> Thread]
  BY GenerationIs DEF Init, Quiet, Thread, Places, Loading
<1>5. DiskInv /\ VerifiedLoads
  BY GenerationIs DEF Init, DiskInv, Sane, Empty, Installing, VerifiedLoads
<1>6. RegistryTrue /\ LocksHeld /\ HandlesCurrent
  BY DEF Init, RegistryTrue, LocksHeld, HandlesCurrent, Up
<1>7. ThreadsServe
  BY DEF Init, ThreadsServe, Serving, OnItsWay, Ended, Loading, Held, Ready, Quiet
<1>8. GoWasTrue
  BY <1>3 DEF Init, GoWasTrue
<1> QED
  BY <1>2, <1>3, <1>4, <1>5, <1>6, <1>7, <1>8 DEF IInv, Typed

-----------------------------------------------------------------------------
(* What holds of every behaviour.                                           *)

LEMMA NextKeeps == ASSUME DeploymentAssumption, IInv, [Next]_vars PROVE IInv'
<1>1. CASE UNCHANGED vars
  BY <1>1, Unmoved DEF vars, fixed, files
<1>2. CASE Next
  BY <1>2, ThreadSteps, DiskSteps, ServerSteps DEF Next
<1> QED
  BY <1>1, <1>2

(* The inductive invariant: disk, registry, locks, handles and threads agree. *)
THEOREM Invariance == Spec => []IInv
<1>1. Init => IInv
  BY InitHolds, DeploymentAssumption
<1>2. IInv /\ [Next]_vars => IInv'
  BY NextKeeps, DeploymentAssumption
<1> QED
  BY <1>1, <1>2, PTL DEF Spec

(* After a GO for this server, none of its answers is a placeholder.          *)
THEOREM AfterGoModels == Spec => []GoMeansModels
<1>1. IInv => GoMeansModels
  <2> SUFFICES ASSUME IInv, Up, server.boot \in preflight,
                      NEW w \in Threads
               PROVE  th[w].by # "stub"
    BY DEF GoMeansModels
  <2>1. Stubs = {} /\ Serving(w) /\ None # "stub"
    BY DeploymentAssumption DEF IInv, GoWasTrue, ThreadsServe, DeploymentAssumption
  <2>2. th[w].by = "stub" => th[w].tool \in Stubs
    BY <2>1, DeploymentAssumption DEF Serving, Ended, Stubs
  <2> QED
    BY <2>1, <2>2
<1> QED
  BY <1>1, Invariance, PTL

(* What verify_v2_deploy could load answers with its model.                   *)
THEOREM WhatLoadedServes == Spec => []VerifiedServes
<1>1. IInv => VerifiedServes
  <2> SUFFICES ASSUME IInv, Up, server.env, NEW w \in Threads, th[w].pc = "answered",
                      Sound(th[w].tool),
                      Learned[th[w].tool].mask => Sound(Mask) \/ (Mask \in calm /\ ~Exists(Mask))
               PROVE  th[w].by = "model"
    BY DEF VerifiedServes
  <2>1. Ended(w) /\ th[w].tool \in calm /\ Loadable(th[w].tool)
    BY DEF IInv, ThreadsServe, Serving, VerifiedLoads, Sound
  <2>2. th[w].by \notin {"stub", "template"}
    BY <2>1 DEF IInv, RegistryTrue, Ended, Loadable
  <2>3. Blameless(th[w].tool)
    BY <2>1 DEF Blameless, Sound, IInv, VerifiedLoads
  <2> QED
    BY <2>1, <2>2, <2>3 DEF Ended, Answerers
<1> QED
  BY <1>1, Invariance, PTL

(* An answer used the sidecar of its own weights, and its trace names them.   *)
THEOREM AnswersAgree == Spec => []AnswerAgrees
<1>1. IInv => AnswerAgrees
  <2> SUFFICES ASSUME IInv, NEW w \in Threads, th[w].by = "model", th[w].tool \in calm
               PROVE  /\ th[w].digest = th[w].seen
                      /\ Learned[th[w].tool].side \in {"vocab", "stats"} => th[w].side = th[w].seen
    BY DEF AnswerAgrees
  <2>1. Serving(w) /\ th[w].pc = "answered"
    BY DeploymentAssumption DEF IInv, ThreadsServe, Serving, DeploymentAssumption
  <2>2. FromDisk(th[w]) /\ th[w].digest = th[w].seen /\ Sane(th[w].tool)
    BY <2>1 DEF Serving, Ended, IInv, DiskInv
  <2> QED
    BY <2>2 DEF FromDisk, Sane
<1> QED
  BY <1>1, Invariance, PTL

(* A handle in memory, and the digest recorded with it, stay for the life of  *)
(* the process.                                                              *)
Kept == \A t \in served : server.handle[t] # None =>
            /\ server'.handle[t] = server.handle[t]
            /\ server'.digest[t] = server.digest[t]

LEMMA WriterAlone ==
    ASSUME DeploymentAssumption, IInv, NEW w \in Threads, th[w].pc \in Held, NEW t \in served,
           server.handle[t] # None
    PROVE  t # th[w].on
<1>1. Up /\ th[w].on \in served
  BY AThread DEF Loading, Held
<1>2. Holds(w, th[w].on)
  BY DEF Holds
<1>3. server.lock[th[w].on] = w /\ w # None
  BY <1>1, <1>2 DEF IInv, LocksHeld, DeploymentAssumption
<1> QED
  BY <1>1, <1>3 DEF IInv, LocksHeld

LEMMA ThreadKeepsHandles ==
    ASSUME DeploymentAssumption, IInv, NEW w \in Threads, Ask(w) \/ Serve(w) \/ Leave(w)
    PROVE  Kept
<1> SUFFICES ASSUME NEW t \in served, server.handle[t] # None
             PROVE  server'.handle[t] = server.handle[t] /\ server'.digest[t] = server.digest[t]
  BY DEF Kept
<1>1. CASE UNCHANGED server
  BY <1>1
<1>2. CASE Lock(w) \/ (Raise(w) /\ th[w].pc \in Held)
  <2>1. server \in ServerUp
    BY <1>2, AtTheHandle DEF Lock, Loading
  <2> QED
    BY <1>2, <2>1 DEF Lock, Raise, ServerUp
<1>3. CASE Record(w)
  <2>1. t # th[w].on
    BY <1>3, WriterAlone DEF Record, Held
  <2> QED
    BY <1>3, <2>1 DEF Record
<1>4. CASE Publish(w)
  <2>1. t # th[w].on
    BY <1>4, WriterAlone DEF Publish, Held
  <2> QED
    BY <1>4, <2>1 DEF Publish
<1>5. CASE ReadVocab(w) \/ Open(w) \/ LoadCheckpoint(w)
  <2>1. UNCHANGED server \/ Raise(w)
    BY <1>5 DEF ReadVocab, Open, LoadCheckpoint
  <2>2. th[w].pc \in Held
    BY <1>5 DEF ReadVocab, Open, LoadCheckpoint, Held
  <2> QED
    BY <2>1, <2>2, <1>1, <1>2
<1>6. CASE Ask(w) \/ Leave(w) \/ Get(w) \/ ConditionOnMask(w) \/ Infer(w) \/ Answer(w)
  BY <1>6, <1>1 DEF Ask, Leave, Get, ConditionOnMask, Infer, Answer
<1> QED
  BY <1>2, <1>3, <1>4, <1>5, <1>6 DEF Serve

THEOREM HandlesStay == Spec => HandleStays
<1>1. IInv /\ [Next]_vars =>
        [Up /\ server'.boot = server.boot =>
            \A t \in served : server.handle[t] # None =>
                /\ server'.handle[t] = server.handle[t]
                /\ server'.digest[t] = server.digest[t]]_vars
  <2> SUFFICES ASSUME IInv, Next, Up, server'.boot = server.boot PROVE Kept
    BY DEF Kept
  <2>1. server.boot # 0
    BY UpIs DEF IInv, Typed
  <2>2. CASE UNCHANGED server
    BY <2>2 DEF Kept
  <2>3. ~Die /\ ~Boot(TRUE) /\ \A env \in BOOLEAN : ~Boot(env)
    BY <2>1 DEF Die, Boot, NoServer
  <2>4. ASSUME NEW w \in Threads, Ask(w) \/ Serve(w) \/ Leave(w) PROVE Kept
    BY <2>4, ThreadKeepsHandles, DeploymentAssumption
  <2> QED
    BY <2>2, <2>3, <2>4 DEF Next, Start, Stop, Install, Remove, MakeDir, Copy, Copied,
       KillInstaller, Damage, Verify, Preflight, Launch, Leaves, system
<1> QED
  BY <1>1, Invariance, PTL DEF Spec, HandleStays
=============================================================================
