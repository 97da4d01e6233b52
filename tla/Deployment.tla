----------------------------- MODULE Deployment -----------------------------
(***************************************************************************)
(* The learned tools from the directory their weights are installed in to  *)
(* the answer they give: scripts/install_retrained.py and what it replaces, *)
(* the registry a server builds when it is imported (tools/stubs.py), the   *)
(* handle each tool loads at its first request and shares between threads,  *)
(* the digest it records (tools/provenance.py), readiness, and the scripts  *)
(* that ask before a demo: verify_v2_deploy, demo_preflight, run_demo_cpu.  *)
(*                                                                         *)
(* The tools are one program; what they do differently is a record each.   *)
(* Weights, and the file that must lie beside them, are the generation they *)
(* were installed with.  What a model makes of an image is left out.        *)
(***************************************************************************)
EXTENDS Integers, FiniteSets

CONSTANTS
    Suites,     \* the sets of tools a behaviour may be about
    Threads,    \* the threads requests run in
    MaxGen,     \* bound on generations of weights
    MaxBoots,   \* bound on starts of a server
    MaxAsked,   \* bound on requests
    MaxFaults,  \* bound on damaged files and killed installers
    None

Generation == 1..MaxGen
Absent == 0
Damaged == -1   \* its size is on disk, its contents are not
Part == {Damaged, Absent} \cup Generation

(* What a tool keeps in memory.                                             *)
Handle == [weights : Part, side : Part]

(* A tool.  `side': what lies beside the weights, a vocabulary read when they *)
(* are loaded, statistics read at every request, a header that is only       *)
(* checked; `file': the path names the weights, not their directory;          *)
(* `opens': how often loading reads the weights; `stub': what answers instead *)
(* is a placeholder; `mask': it is conditioned on the change mask.            *)
Tool(side, opens) ==
    [side |-> side, file |-> FALSE, opens |-> opens, stub |-> TRUE, mask |-> FALSE]

CaptionTool == Tool("vocab", 2)
GroundingTool == Tool("vocab", 2)
ChangeCaptionTool == [Tool("vocab", 2) EXCEPT !.mask = TRUE]
LandcoverTool == Tool("stats", 2)
ChangeMaskTool == Tool("none", 2)
OptSARFusionTool == Tool("none", 2)
RSVQATool == Tool("header", 1)
ChangeVQASemantic == [Tool("none", 1) EXCEPT !.file = TRUE, !.stub = FALSE]

Mask == "change_mask_v1"
Learned == [caption_v1 |-> CaptionTool, grounding_v1 |-> GroundingTool,
            change_caption_v1 |-> ChangeCaptionTool, landcover_v1 |-> LandcoverTool,
            change_mask_v1 |-> ChangeMaskTool, optsar_fusion_v1 |-> OptSARFusionTool,
            rs_vqa_v1 |-> RSVQATool, change_vqa_v1 |-> ChangeVQASemantic]
Tools == DOMAIN Learned

ASSUME DeploymentAssumption ==
    /\ \A S \in Suites : S \subseteq Tools
           /\ \A t \in S : Learned[t].mask => Mask \in S
    /\ None \notin Threads \cup {"model", "stub", "template", "failure"}
    /\ None \notin Handle
    /\ MaxGen \in Nat \ {0} /\ MaxBoots \in Nat /\ MaxAsked \in Nat /\ MaxFaults \in Nat

VARIABLES
    served,    \* the tools this behaviour is about
    alike,     \* do two generations of weights have the same shapes
    disk,      \* what each tool's path holds
    inst,      \* the installer at work
    server,    \* the process on the port
    th,        \* its threads
    verified,  \* the tools verify_v2_deploy could load, untouched since
    calm,      \* the tools nothing was installed for since the server started
    launcher,  \* run_demo_cpu: the server it started, if any
    preflight, \* the servers demo_preflight has said GO of
    gen, boots, asked, faults

files == <<disk, inst, verified, calm, gen>>
people == <<launcher, preflight>>
fixed == <<served, alike>>
vars == <<served, alike, disk, inst, server, th, verified, calm, launcher, preflight,
          gen, boots, asked, faults>>

-----------------------------------------------------------------------------
(* What is on disk.                                                         *)
Parts(t) == IF Learned[t].side = "none" THEN {"weights"} ELSE {"side", "weights"}

Exists(t) == IF Learned[t].file THEN disk[t].weights # Absent ELSE disk[t].dir

(* sidecars.py: a file that is there may not be readable.                    *)
Readable(part) == part \in Generation

(* is_available: the path and the sidecar where the loader needs one; never  *)
(* the weights.                                                              *)
Available(t) ==
    /\ Exists(t)
    /\ Learned[t].side # "none" => Readable(disk[t].side)

(* Two generations that were not trained with the same shapes do not load    *)
(* into one another's graphs.                                                *)
Fit(a, b) == a = b \/ alike

-----------------------------------------------------------------------------
(* The server.                                                              *)
NoServer == [env |-> FALSE, boot |-> 0, real |-> {}, handle |-> <<>>, lock |-> <<>>,
             digest |-> <<>>]
Up == server # NoServer

Quiet == [pc |-> "idle", tool |-> None, on |-> None, seen |-> Absent, side |-> Absent,
          by |-> None, digest |-> None]

(* REGISTRY: built once, when satquery.tools.stubs is imported.              *)
Real(env) == {t \in served : env /\ Available(t)}

Boot(env) ==
    /\ ~Up /\ boots < MaxBoots
    /\ boots' = boots + 1
    /\ server' = [env |-> env, boot |-> boots + 1, real |-> Real(env),
                  handle |-> [t \in served |-> None], lock |-> [t \in served |-> None],
                  digest |-> [t \in served |-> None]]
    /\ calm' = served

(* Started by hand, in an environment with torch and the paths of the demo's *)
(* assets, or in one with neither.                                           *)
Start ==
    /\ \E env \in BOOLEAN : Boot(env)
    /\ UNCHANGED <<served, alike, disk, inst, th, verified, people, gen, asked, faults>>

(* Every thread dies with the process.                                      *)
Die ==
    /\ server' = NoServer
    /\ th' = [w \in Threads |-> Quiet]

Stop ==
    /\ Up /\ Die
    /\ UNCHANGED <<fixed, files, people, boots, asked, faults>>

(* tool_readiness: what the registry holds, not what the disk would allow.   *)
(* Mutant: what the disk would allow now. *)
StubsMutant == {t \in served : Learned[t].stub /\ ~(server.env /\ Available(t))}
Stubs == {t \in served \ server.real : Learned[t].stub}
DemoReady == Stubs = {}

-----------------------------------------------------------------------------
(* One request to one tool, in a thread of its own.                         *)
Goto(w, pc) == th' = [th EXCEPT ![w].pc = pc]

rest == <<fixed, files, people, boots, faults>>

Ask(w) ==
    /\ Up /\ th[w].pc = "idle" /\ asked < MaxAsked
    /\ asked' = asked + 1
    /\ \E t \in served :
          th' = [th EXCEPT ![w] = [Quiet EXCEPT
                     !.tool = t, !.on = t,
                     !.pc = IF t \in server.real THEN "get" ELSE "answered",
                     !.by = IF t \in server.real THEN None
                            ELSE IF Learned[t].stub THEN "stub" ELSE "template"]]
    /\ UNCHANGED <<server, rest>>

(* The handle is there: on to the model, by way of the change mask where the *)
(* answer is conditioned on it.                                              *)
AfterGet(w) ==
    IF Learned[th[w].tool].mask /\ th[w].on = th[w].tool THEN "mask" ELSE "infer"

(* _Handle.get, without the lock.                                           *)
Get(w) ==
    /\ th[w].pc = "get"
    /\ Goto(w, IF server.handle[th[w].on] # None THEN AfterGet(w) ELSE "wait")
    /\ UNCHANGED <<server, asked, rest>>

(* Mutant: the second look left out. *)
LockMutant(w) ==
    /\ th[w].pc = "wait" /\ server.lock[th[w].on] = None
    /\ server' = [server EXCEPT !.lock[th[w].on] = w]
    /\ Goto(w, "side")
    /\ UNCHANGED <<asked, rest>>

(* _Handle.get, with the lock: look again, then load.                        *)
Lock(w) ==
    /\ th[w].pc = "wait" /\ server.lock[th[w].on] = None
    /\ IF server.handle[th[w].on] # None
       THEN Goto(w, AfterGet(w)) /\ UNCHANGED server
       ELSE /\ server' = [server EXCEPT !.lock[th[w].on] = w]
            /\ Goto(w, "side")
    /\ UNCHANGED <<asked, rest>>

(* Whatever raises leaves the `with' block, and the tool.                    *)
Failed(w) == [th EXCEPT ![w].pc = "answered", ![w].by = "failure"]
Raise(w) ==
    /\ th' = Failed(w)
    /\ server' = [server EXCEPT !.lock =
                     [t \in DOMAIN @ |-> IF @[t] = w THEN None ELSE @[t]]]

(* _Handle.__init__ reads the vocabulary that sizes the model first.         *)
ReadVocab(w) ==
    /\ th[w].pc = "side"
    /\ LET t == th[w].on IN
       IF Learned[t].side # "vocab" THEN Goto(w, "open") /\ UNCHANGED server
       ELSE IF Readable(disk[t].side)
            THEN /\ th' = [th EXCEPT ![w].side = disk[t].side, ![w].pc = "open"]
                 /\ UNCHANGED server
            ELSE Raise(w)
    /\ UNCHANGED <<asked, rest>>

(* Then the checkpoint, for the architecture that wrote it.                  *)
Open(w) ==
    /\ th[w].pc = "open"
    /\ LET t == th[w].on IN
       IF Readable(disk[t].weights) /\ (Learned[t].side = "header" => Readable(disk[t].side))
       THEN /\ th' = [th EXCEPT ![w].seen = disk[t].weights,
                                ![w].pc = IF Learned[t].opens = 2 THEN "load" ELSE "record"]
            /\ UNCHANGED server
       ELSE Raise(w)
    /\ UNCHANGED <<asked, rest>>

(* Then the checkpoint again, for its weights.                               *)
LoadCheckpoint(w) ==
    /\ th[w].pc = "load"
    /\ LET t == th[w].on
           now == disk[t].weights
       IN IF /\ Readable(now) /\ Fit(th[w].seen, now)
             /\ Learned[t].side = "vocab" => Fit(th[w].side, now)
          THEN th' = [th EXCEPT ![w].seen = now, ![w].pc = "record"] /\ UNCHANGED server
          ELSE Raise(w)
    /\ UNCHANGED <<asked, rest>>

(* record: the file is hashed after it was loaded; a file that has vanished  *)
(* leaves no record.                                                         *)
Record(w) ==
    /\ th[w].pc = "record"
    /\ LET t == th[w].on IN
       server' = IF disk[t].weights = Absent THEN server
                 ELSE [server EXCEPT !.digest[t] = disk[t].weights]
    /\ Goto(w, "publish")
    /\ UNCHANGED <<asked, rest>>

Publish(w) ==
    /\ th[w].pc = "publish"
    /\ LET t == th[w].on IN
       server' = [server EXCEPT !.handle[t] = [weights |-> th[w].seen, side |-> th[w].side],
                                !.lock[t] = None]
    /\ Goto(w, AfterGet(w))
    /\ UNCHANGED <<asked, rest>>

(* _change_mask asks the disk, not the registry; without a mask it goes on   *)
(* with zeros and says so.                                                   *)
ConditionOnMask(w) ==
    /\ th[w].pc = "mask"
    /\ th' = IF server.env /\ Available(Mask)
             THEN [th EXCEPT ![w].pc = "get", ![w].on = Mask]
             ELSE [th EXCEPT ![w].pc = "infer"]
    /\ UNCHANGED <<server, asked, rest>>

(* The model answers; the land-cover head is fed with the statistics its     *)
(* directory holds now.                                                      *)
Infer(w) ==
    /\ th[w].pc = "infer"
    /\ LET t == th[w].tool
           h == server.handle[t]
           stats == Learned[t].side = "stats"
       IN IF stats /\ ~Readable(disk[t].side) THEN th' = Failed(w)
          ELSE th' = [th EXCEPT ![w].pc = "traced", ![w].seen = h.weights,
                                ![w].side = IF stats THEN disk[t].side ELSE h.side]
    /\ UNCHANGED <<server, asked, rest>>

(* hashes_for, when the trace is written.                                    *)
Answer(w) ==
    /\ th[w].pc = "traced"
    /\ th' = [th EXCEPT ![w].pc = "answered", ![w].by = "model",
                        ![w].digest = server.digest[th[w].tool]]
    /\ UNCHANGED <<server, asked, rest>>

Leave(w) ==
    /\ th[w].pc = "answered"
    /\ th' = [th EXCEPT ![w] = Quiet]
    /\ UNCHANGED <<server, asked, rest>>

Serve(w) ==
    \/ Get(w) \/ Lock(w) \/ ReadVocab(w) \/ Open(w) \/ LoadCheckpoint(w)
    \/ Record(w) \/ Publish(w) \/ ConditionOnMask(w) \/ Infer(w) \/ Answer(w)

-----------------------------------------------------------------------------
(* Installing a generation: the old directory is removed file by file, the   *)
(* new one copied file by file, each in more than one write.                 *)
NoInstall == [pc |-> "none", tool |-> None, todo |-> {}]

Touch(t) == calm' = calm \ {t} /\ verified' = verified \ {t}

system == <<fixed, server, th, people, boots, asked>>

(* Mutant: copied over what is there. *)
InstallMutant ==
    /\ inst = NoInstall /\ gen < MaxGen
    /\ \E t \in served :
          /\ inst' = [pc |-> "copy", tool |-> t, todo |-> Parts(t)]
          /\ disk' = [disk EXCEPT ![t].dir = TRUE]
          /\ Touch(t)
    /\ gen' = gen + 1
    /\ UNCHANGED <<system, faults>>

Install ==
    /\ inst = NoInstall /\ gen < MaxGen
    /\ \E t \in served :
          /\ inst' = [pc |-> IF Exists(t) THEN "remove" ELSE "copy", tool |-> t,
                      todo |-> Parts(t)]
          /\ disk' = IF Exists(t) THEN disk ELSE [disk EXCEPT ![t].dir = TRUE]
          /\ Touch(t)
    /\ gen' = gen + 1
    /\ UNCHANGED <<system, faults>>

(* The header is the first bytes of the file the weights are in.             *)
Together(t, p) == IF Learned[t].side = "header" THEN Parts(t) ELSE {p}

Remove ==
    /\ inst.pc = "remove"
    /\ LET t == inst.tool IN
       /\ \E p \in inst.todo :
             LET gone == Together(t, p)
                 left == inst.todo \ gone
             IN /\ disk' = [disk EXCEPT ![t] =
                       [dir |-> left # {},
                        side |-> IF "side" \in gone THEN Absent ELSE disk[t].side,
                        weights |-> IF "weights" \in gone THEN Absent ELSE disk[t].weights]]
                /\ inst' = IF left = {} THEN [inst EXCEPT !.pc = "rmdir", !.todo = {}]
                           ELSE [inst EXCEPT !.todo = left]
       /\ Touch(t)
    /\ UNCHANGED <<system, gen, faults>>

MakeDir ==
    /\ inst.pc = "rmdir"
    /\ inst' = [inst EXCEPT !.pc = "copy", !.todo = Parts(inst.tool)]
    /\ disk' = [disk EXCEPT ![inst.tool].dir = TRUE]
    /\ Touch(inst.tool)
    /\ UNCHANGED <<system, gen, faults>>

SetPart(t, p, v) ==
    disk' = [disk EXCEPT ![t] = IF p = "side" THEN [@ EXCEPT !.side = v]
                                ELSE [@ EXCEPT !.weights = v]]

Copy ==
    /\ inst.pc = "copy"
    /\ LET t == inst.tool IN
       \E p \in inst.todo :
          /\ Learned[t].side = "header" /\ "side" \in inst.todo => p = "side"
          /\ SetPart(t, p, Damaged)
          /\ inst' = [inst EXCEPT !.pc = p]
          /\ Touch(t)
    /\ UNCHANGED <<system, gen, faults>>

Copied ==
    /\ inst.pc \in {"side", "weights"}
    /\ LET t == inst.tool
           left == inst.todo \ {inst.pc}
       IN /\ SetPart(t, inst.pc, gen)
          /\ inst' = IF left = {} THEN NoInstall ELSE [inst EXCEPT !.pc = "copy", !.todo = left]
          /\ Touch(t)
    /\ UNCHANGED <<system, gen, faults>>

(* The installer is killed where it is, or a file loses its contents, as two *)
(* of twelve did when checkpoints/ came back from a shadow copy.             *)
KillInstaller ==
    /\ inst # NoInstall /\ faults < MaxFaults
    /\ inst' = NoInstall /\ faults' = faults + 1
    /\ UNCHANGED <<system, disk, calm, verified, gen>>

Damage ==
    /\ faults < MaxFaults /\ faults' = faults + 1
    /\ \E t \in served : \E p \in Parts(t) :
          /\ (IF p = "side" THEN disk[t].side ELSE disk[t].weights) \in Generation
          /\ SetPart(t, p, Damaged)
          /\ Touch(t)
    /\ UNCHANGED <<system, inst, gen>>

(* verify_v2_deploy: available, and its loader loads it, in a process of its *)
(* own.                                                                      *)
(* Mutant: available is enough. *)
LoadableMutant(t) == Available(t)

Loadable(t) ==
    /\ Available(t) /\ Readable(disk[t].weights)
    /\ Learned[t].side = "vocab" => Fit(disk[t].side, disk[t].weights)

Verify ==
    /\ \E t \in served :
          verified' = IF Loadable(t) THEN verified \cup {t} ELSE verified \ {t}
    /\ UNCHANGED <<system, disk, inst, calm, gen, faults>>

-----------------------------------------------------------------------------
(* demo_preflight asks /health and then /readiness; a server that is gone in *)
(* between reads as one that was never up.  With --allow-stubs a stub is a    *)
(* warning, and the verdict for a rehearsal only.                            *)
Verdict(allow_stubs, web_up) ==
    IF ~Up \/ ~web_up \/ (~DemoReady /\ ~allow_stubs) THEN "NO-GO"
    ELSE IF Stubs # {} THEN "REHEARSAL" ELSE "GO"

Preflight ==
    /\ \E allow_stubs, web_up \in BOOLEAN :
          preflight' = preflight \cup
              {b \in {server.boot} : Verdict(allow_stubs, web_up) = "GO"}
    /\ UNCHANGED <<fixed, files, server, th, launcher, boots, asked, faults>>

(* run_demo_cpu starts a server with the paths of the assets.  Where the port *)
(* is taken its child exits, but wait_for is satisfied by whoever answers.    *)
NotLaunched == -1
PortTaken == 0

Launch ==
    /\ launcher = NotLaunched
    /\ \/ Boot(TRUE) /\ launcher' = boots + 1
       \/ Up /\ launcher' = PortTaken /\ UNCHANGED <<server, calm, boots>>
    /\ UNCHANGED <<fixed, disk, inst, verified, gen, th, preflight, asked, faults>>

(* Interrupted, or its child has ended: it stops what it started, no other.   *)
Leaves ==
    /\ launcher # NotLaunched
    /\ launcher' = NotLaunched
    /\ IF Up /\ server.boot = launcher THEN Die ELSE UNCHANGED <<server, th>>
    /\ UNCHANGED <<fixed, files, preflight, boots, asked, faults>>

-----------------------------------------------------------------------------
Init ==
    /\ served \in Suites
    /\ alike \in BOOLEAN
    /\ disk = [t \in served |-> [dir |-> FALSE, side |-> Absent, weights |-> Absent]]
    /\ inst = NoInstall /\ server = NoServer
    /\ th = [w \in Threads |-> Quiet]
    /\ verified = {} /\ calm = {}
    /\ launcher = NotLaunched /\ preflight = {}
    /\ gen = 0 /\ boots = 0 /\ asked = 0 /\ faults = 0

Next ==
    \/ Start \/ Stop
    \/ \E w \in Threads : Ask(w) \/ Serve(w) \/ Leave(w)
    \/ Install \/ Remove \/ MakeDir \/ Copy \/ Copied \/ KillInstaller \/ Damage
    \/ Verify \/ Preflight \/ Launch \/ Leaves

Spec == Init /\ [][Next]_vars

-----------------------------------------------------------------------------
(* A tool's weights are loaded once in a process: what a request was answered *)
(* with, and the digest its trace names, are what every later one gets,       *)
(* however many first requests race and whatever is installed meanwhile.      *)
HandleStays ==
    [][Up /\ server'.boot = server.boot =>
          \A t \in served : server.handle[t] # None =>
              /\ server'.handle[t] = server.handle[t]
              /\ server'.digest[t] = server.digest[t]]_vars

(* After a GO, no answer of that server is a placeholder.                     *)
GoMeansModels ==
    Up /\ server.boot \in preflight =>
        \A w \in Threads : th[w].by # "stub"

(* A tool that verify_v2_deploy could load, and that nothing was installed    *)
(* for since, answers with its model in a server started with the assets'     *)
(* paths: it neither degrades to its stub nor reports ready and then raises.   *)
(* The change captioner also needs its mask, or none at all.                   *)
Sound(t) == t \in verified \cap calm
VerifiedServes ==
    Up /\ server.env =>
        \A w \in Threads :
            /\ th[w].pc = "answered" /\ Sound(th[w].tool)
            /\ Learned[th[w].tool].mask => Sound(Mask) \/ (Mask \in calm /\ ~Exists(Mask))
            => th[w].by = "model"

(* With nothing installed for a tool since the server started, an answer of   *)
(* its model used the vocabulary or statistics of its own weights, and its    *)
(* trace names their digest, whatever an earlier installer was killed over.   *)
AnswerAgrees ==
    \A w \in Threads :
        th[w].by = "model" /\ th[w].tool \in calm =>
            /\ th[w].digest = th[w].seen
            /\ Learned[th[w].tool].side \in {"vocab", "stats"} => th[w].side = th[w].seen

=============================================================================
