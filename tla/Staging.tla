------------------------------ MODULE Staging ------------------------------
(***************************************************************************)
(* Getting the data to where the campaign runs, by one operator, a command  *)
(* at a time: corpora and base models are fetched under a lock of digests   *)
(* (scripts/fetch_datasets.py, scripts/fetch_models.py), prepared elsewhere, *)
(* listed in a manifest, shipped, and verified on the cluster while the      *)
(* transfer may still be going on (training/cluster/stage_data.py).          *)
(*                                                                         *)
(* A digest stands for what it is of.  A fetched tree is the version it is  *)
(* of and whether all of it is there; a prepared file is the tree it was    *)
(* made from and its size.                                                  *)
(***************************************************************************)
EXTENDS Integers, FiniteSets

CONSTANTS
    Corpora, Models,   \* what is fetched
    Hub,               \* those of them that can be downloaded
    Parts,             \* the files of a prepared dataset
    Scripts,           \* the scripts of training/prepare that make it
    Runs, RequiredBy,  \* the runs of the campaign, and those that need a dataset
    None,
    MaxCommands, MaxReleases, MaxSent   \* bounds: commands, second versions, files sent

Keys == Corpora \cup Models

ASSUME StagingAssumption ==
    /\ Models \subseteq Hub /\ Hub \subseteq Keys /\ None \notin Keys \cup BOOLEAN
    /\ Scripts \in [Corpora -> SUBSET [streams : BOOLEAN, shrinks : BOOLEAN]]
    /\ RequiredBy \in [Corpora -> SUBSET Runs]
    /\ {MaxCommands, MaxReleases, MaxSent} \subseteq Nat

VARIABLES
    upstream,   \* the version the publisher has
    raw,        \* the fetched trees
    lock,       \* what dataset_lock.json and model_lock.json hold
    torn,       \* those of the two that a kill has left unreadable, by their keys
    prepared,   \* the prepared files, where they were made
    manifest,   \* data_manifest.json
    disk,       \* the prepared files on the cluster
    command,        \* the command that runs, or ran last
    commands, sent

fetching == <<upstream, raw, lock, torn>>
shipping == <<prepared, manifest, disk, sent>>
dataVars == <<fetching, shipping, command, commands>>

NoCommand == [kind |-> "idle", ok |-> TRUE]

DataInit ==
    /\ upstream = [k \in Keys |-> 1]
    /\ raw = [k \in Keys |-> None] /\ lock = [k \in Keys |-> None]
    /\ torn = {}
    /\ prepared = [d \in Corpora |-> [f \in Parts |-> None]]
    /\ manifest = None
    /\ disk = [d \in Corpora |-> [f \in Parts |-> None]]
    /\ command = NoCommand /\ commands = 0 /\ sent = 0

Prompt == command.kind \in {"idle", "verified"}

Command(j) ==
    /\ Prompt /\ commands < MaxCommands
    /\ commands' = commands + 1
    /\ command' = j

-----------------------------------------------------------------------------
(* Fetching.                                                                *)
Tree(k, whole) == [of |-> upstream[k], whole |-> whole]

(* `main' of either script: the chosen keys, to be fetched or only verified; *)
(* an offline test without a fetch verifies nothing.  Over a lock that cannot *)
(* be read it ends at once.                                                 *)
StartFetch(own, keys, update, offline) ==
    /\ own \notin torn
    /\ Command([kind |-> "fetch", keys |-> keys, todo |-> IF offline /\ ~update THEN {} ELSE keys,
                at |-> None, own |-> own, update |-> update, offline |-> offline,
                lock |-> lock, ok |-> TRUE])
    /\ UNCHANGED <<fetching, shipping>>

FetchDatasets == \E keys \in SUBSET Corpora \ {{}}, update \in BOOLEAN :
                    StartFetch(Corpora, keys, update, FALSE)
FetchModels == \E keys \in SUBSET Models \ {{}}, update, offline \in BOOLEAN :
                    StartFetch(Models, keys, update, offline)

Fetching == command.kind = "fetch"
Turn(k) == Fetching /\ command.at = None /\ k \in command.todo
ToVerify(k) == [command EXCEPT !.todo = @ \ {k}, !.at = k]

(* Mutant: a download that failed is verified all the same.                 *)
DownloadMutant(k) ==
    /\ Turn(k) /\ command.update /\ k \in Hub
    /\ \E whole \in BOOLEAN : raw' = [raw EXCEPT ![k] = Tree(k, whole)]
    /\ command' = ToVerify(k)
    /\ UNCHANGED <<upstream, lock, torn, shipping, commands>>

(* `fetch_hf' and `fetch'.  What fails may leave part of the tree, and is   *)
(* not verified.  snapshot_download is taken to raise whenever it has not    *)
(* fetched everything; a release of it that hands back a directory it finds  *)
(* there, when the hub does not answer, is outside the model.               *)
Download(k) ==
    /\ Turn(k) /\ command.update /\ k \in Hub
    /\ \/ /\ raw' = [raw EXCEPT ![k] = Tree(k, TRUE)]
          /\ command' = ToVerify(k)
       \/ /\ raw' \in {raw, [raw EXCEPT ![k] = Tree(k, FALSE)]}
          /\ command' = [command EXCEPT !.todo = @ \ {k}, !.ok = FALSE]
    /\ UNCHANGED <<upstream, lock, torn, shipping, commands>>

(* What cannot be downloaded is left to the operator, and only verified if  *)
(* there is something of it.                                                *)
ByHand(k) ==
    /\ Turn(k) /\ command.update /\ k \notin Hub
    /\ command' = IF raw[k] = None THEN [command EXCEPT !.todo = @ \ {k}] ELSE ToVerify(k)
    /\ UNCHANGED <<fetching, shipping, commands>>

OnlyVerify(k) ==
    /\ Turn(k) /\ ~command.update
    /\ command' = ToVerify(k)
    /\ UNCHANGED <<fetching, shipping, commands>>

(* `verify' of either script: trust on first use.  No publisher's digest is *)
(* known (EXPECTED_SHA256).                                                 *)
VerifyTree ==
    /\ Fetching /\ command.at # None
    /\ LET tree == raw[command.at]
           first == command.lock[command.at] = None
           ok == tree # None /\ (IF first THEN command.update ELSE tree = command.lock[command.at])
       IN command' = [command EXCEPT !.at = None,
                    !.lock[command.at] = IF first /\ command.update THEN tree ELSE @,
                    !.ok = @ /\ ok]
    /\ UNCHANGED <<fetching, shipping, commands>>

(* `offline_test': what is not there is skipped, the rest loads or not.     *)
OfflineTest == IF command.offline /\ \E k \in command.keys : raw[k] # None THEN BOOLEAN ELSE {TRUE}

(* The lock is written when all is done; what is left to the operator is    *)
(* no failure.                                                              *)
EndFetch ==
    /\ Fetching /\ command.todo = {} /\ command.at = None
    /\ lock' = IF command.update THEN command.lock ELSE lock
    /\ \E passes \in OfflineTest :
         command' = [kind |-> "idle", ok |-> command.ok /\ passes]
    /\ UNCHANGED <<upstream, raw, torn, shipping, commands>>

(* A command is killed: in the middle of a download, in `save_lock', which   *)
(* truncates the file before it writes, or anywhere else.                   *)
KillFetch ==
    /\ Fetching
    /\ \/ /\ raw' \in {raw} \cup {[raw EXCEPT ![k] = Tree(k, FALSE)] :
                  k \in {k \in command.todo \cap Hub : command.update /\ command.at = None}}
          /\ UNCHANGED <<lock, torn>>
       \/ /\ command.update /\ command.todo = {} /\ command.at = None
          /\ lock' = [k \in Keys |-> IF k \in command.own THEN None ELSE lock[k]]
          /\ torn' = torn \cup {command.own}
          /\ UNCHANGED raw
    /\ command' = [kind |-> "idle", ok |-> FALSE]
    /\ UNCHANGED <<upstream, shipping, commands>>

(* The operator unpacks what was left to him, in two steps; another version *)
(* comes out of what a fetch has still to download (at any other time the    *)
(* next fetch is the first to notice); a lock that cannot be read is removed. *)
(* Who has given his last command does nothing more.                        *)
Extract(k) ==
    /\ Fetching \/ (Prompt /\ commands < MaxCommands)
    /\ k \notin Hub /\ (raw[k] # None => ~raw[k].whole)
    /\ raw' = [raw EXCEPT ![k] = Tree(k, raw[k] # None)]
    /\ UNCHANGED <<upstream, lock, torn, shipping, command, commands>>

Discard(own) ==
    /\ Prompt /\ commands < MaxCommands /\ own \in torn
    /\ torn' = torn \ {own}
    /\ UNCHANGED <<upstream, raw, lock, shipping, command, commands>>

Release(k) ==
    /\ Fetching /\ command.update /\ k \in command.todo \cap Hub /\ upstream[k] = 1
    /\ Cardinality({j \in Keys : upstream[j] = 2}) < MaxReleases
    /\ upstream' = [upstream EXCEPT ![k] = 2]
    /\ UNCHANGED <<raw, lock, torn, shipping, command, commands>>

-----------------------------------------------------------------------------
(* Staging.                                                                 *)

(* A script of training/prepare.  `streams': its output is truncated when it *)
(* begins and grows row by row; the others write when they have everything.  *)
(* `shrinks': rows whose files are missing are left out; the others stop at  *)
(* an archive that is not whole.                                            *)
Script(streams, shrinks) == [streams |-> streams, shrinks |-> shrinks]

RSVQA         == Script(TRUE, TRUE)
VRSBench      == Script(TRUE, TRUE)
RSVQAOfficial == Script(FALSE, TRUE)
BigEarthNet   == Script(FALSE, TRUE)
LEVIR         == Script(FALSE, TRUE)
LEVIRMCI      == Script(FALSE, FALSE)
WHUOptSAR     == Script(FALSE, TRUE)
WHUArchives   == Script(FALSE, FALSE)
CDVQAShards   == Script(FALSE, TRUE)
CDVQASecond   == Script(FALSE, TRUE)

(* What comes of a tree: all of it, or less than all, and then shorter.      *)
Made(tree, all) == [from |-> [tree EXCEPT !.whole = all], size |-> IF all THEN "full" ELSE "short"]

(* Run over what there is of a corpus at the time.  One that streams and is  *)
(* killed, or stops at a file it cannot read, or finds no row it can use,    *)
(* leaves what it wrote; any other that ends so leaves what was there.       *)
Prepare(d, f) ==
    /\ Prompt /\ commands < MaxCommands /\ raw[d] # None
    /\ \E s \in Scripts[d], all \in BOOLEAN :
          /\ IF all THEN raw[d].whole ELSE s.streams \/ (s.shrinks /\ ~raw[d].whole)
          /\ prepared' = [prepared EXCEPT ![d][f] = Made(raw[d], all)]
    /\ UNCHANGED <<fetching, manifest, disk, sent, command, commands>>

(* `build_manifest': what there is, with a digest or only the size.         *)
Record(file, quick) ==
    IF file = None THEN None ELSE [from |-> IF quick THEN None ELSE file.from, size |-> file.size]

Build(keys, quick) ==
    /\ Command(NoCommand)
    /\ manifest' = [quick |-> quick,
                    files |-> [d \in keys |-> [f \in Parts |-> Record(prepared[d][f], quick)]]]
    /\ UNCHANGED <<fetching, prepared, disk, sent>>

(* Once there is a manifest a file is sent to the cluster, and arrives, or   *)
(* with zeros for its contents, or short; verification or not.  While        *)
(* something is fetched the two do not meet, and it is left out.             *)
Send(d, f) ==
    /\ ~Fetching /\ manifest # None /\ prepared[d][f] # None /\ sent < MaxSent
    /\ sent' = sent + 1
    /\ \E file \in {prepared[d][f], [prepared[d][f] EXCEPT !.from = None],
                    [from |-> None, size |-> "short"]} :
         disk' = [disk EXCEPT ![d][f] = file]
    /\ command' = IF command.kind = "idle" THEN command ELSE [command EXCEPT !.touched = @ \cup {<<d, f>>}]
    /\ UNCHANGED <<fetching, prepared, manifest, commands>>

(* `main' with verify or plan, of some datasets or of those of the manifest. *)
(* A manifest without digests is refused but by a quick one.  What the       *)
(* manifest does not list is not looked at.                                 *)
Listed(files, d) == {f \in Parts : d \in DOMAIN files /\ files[d][f] # None}

StartVerify(only, quick) ==
    /\ manifest # None /\ (manifest.quick => quick)
    /\ LET chosen == IF only = {} THEN DOMAIN manifest.files ELSE only
           todo == UNION {{d} \X Listed(manifest.files, d) : d \in chosen}
       IN Command([kind |-> IF todo = {} THEN "verified" ELSE "verify", quick |-> quick,
                   files |-> manifest.files, chosen |-> chosen, todo |-> todo,
                   found |-> {}, touched |-> {}])
    /\ UNCHANGED <<fetching, shipping>>

(* `verify' of one file: it is there, and as recorded.                      *)
AsRecorded(file, recorded, quick) ==
    file # None /\ file.size = recorded.size /\ (quick \/ file.from = recorded.from)

VerifyFile(d, f) ==
    /\ command.kind = "verify" /\ <<d, f>> \in command.todo
    /\ command' = [command EXCEPT !.todo = @ \ {<<d, f>>}, !.touched = @ \ {<<d, f>>},
                 !.found = IF AsRecorded(disk[d][f], command.files[d][f], command.quick)
                           THEN @ \cup {<<d, f>>} ELSE @,
                 !.kind = IF command.todo = {<<d, f>>} THEN "verified" ELSE @]
    /\ UNCHANGED <<fetching, shipping, commands>>

(* Mutant: passes when a file was checked, whatever was missing or corrupt.  *)
VerdictMutant(d) ==
    IF d \notin command.chosen THEN None
    ELSE \E f \in Listed(command.files, d) : <<d, f>> \in command.found

(* A dataset passes when every file that is recorded was found, and there is *)
(* one.                                                                     *)
Verdict(d) ==
    IF d \notin command.chosen THEN None
    ELSE Listed(command.files, d) # {} /\ \A f \in Listed(command.files, d) : <<d, f>> \in command.found

Verdicts == [d \in Corpora |-> Verdict(d)]

(* `runs_unblocked': of the runs that need anything, those that can start,  *)
(* those that cannot, and those that nothing is known of.                   *)
RunsUnblocked(verdicts) ==
    LET Needs(r) == {d \in Corpora : r \in RequiredBy[d]}
        needing == {r \in Runs : Needs(r) # {}}
        blocked == {r \in needing : \E d \in Needs(r) : verdicts[d] = FALSE}
        unchecked == {r \in needing \ blocked : \E d \in Needs(r) : verdicts[d] = None}
    IN [ready |-> needing \ (blocked \cup unchecked), blocked |-> blocked, unchecked |-> unchecked]

-----------------------------------------------------------------------------
DataNext ==
    \/ FetchDatasets \/ FetchModels
    \/ \E k \in Keys : Download(k) \/ ByHand(k) \/ OnlyVerify(k) \/ Release(k)
    \/ VerifyTree \/ EndFetch \/ KillFetch
    \/ \E k \in Corpora : Extract(k)
    \/ \E d \in Corpora, f \in Parts : Prepare(d, f) \/ Send(d, f) \/ VerifyFile(d, f)
    \/ \E keys \in SUBSET Corpora \ {{}}, quick \in BOOLEAN : Build(keys, quick)
    \/ \E only \in SUBSET Corpora, quick \in BOOLEAN : StartVerify(only, quick)
    \/ \E own \in {Corpora, Models} : Discard(own)

DataSpec == DataInit /\ [][DataNext]_dataVars

-----------------------------------------------------------------------------
(* Properties.                                                              *)

(* What the lock holds of a corpus or model that is downloaded is a whole   *)
(* release, whatever downloads failed or were killed before: nothing partial *)
(* is trusted on first use (fetch_datasets.py:337, fetch_models.py:287).    *)
LockedIsWhole == \A k \in Hub : lock[k] # None => lock[k].whole

(* After a verification with digests a run called ready finds every listed  *)
(* file of every dataset it needs as it was when the manifest was built,     *)
(* but for files sent after they were looked at; and a run is called blocked *)
(* only when a dataset that was checked is not so (stage_data.py:327).  As   *)
(* recorded is not complete: the manifest may record what a script left short. *)
VerdictsTell ==
    command.kind = "verified" /\ ~command.quick =>
        LET unblocked == RunsUnblocked(Verdicts)
            Same(d, f) == disk[d][f] = command.files[d][f]
        IN /\ \A r \in unblocked.ready, d \in Corpora :
                r \in RequiredBy[d] =>
                    /\ Listed(command.files, d) # {}
                    /\ \A f \in Listed(command.files, d) : Same(d, f) \/ <<d, f>> \in command.touched
           /\ \A r \in unblocked.blocked :
                \E d \in command.chosen :
                    /\ r \in RequiredBy[d]
                    /\ \/ Listed(command.files, d) = {}
                       \/ \E f \in Listed(command.files, d) :
                              ~Same(d, f) \/ <<d, f>> \in command.touched
=============================================================================
