-------------------------- MODULE CheckpointProofs --------------------------
(***************************************************************************)
(* Proofs about a run in a directory of its own, for any intervals, any    *)
(* keep_last, any number of kills and of losses that are not finite: the   *)
(* newest checkpoint can be loaded, a kill costs one save interval, and    *)
(* one more for each such loss, and the best validation keeps its          *)
(* checkpoint; and, resets over an earlier run's checkpoints included,     *)
(* the newest checkpoint is never traded for an older one.                 *)
(***************************************************************************)
EXTENDS Checkpoint, FiniteSetTheorems, Integers, TLAPS

\* From the step a loop iteration has reached to the os.replace that saves it.
Ahead == {"validate", "best", "record", "save", "adapter", "publish"}

\* Not only the newest checkpoint is whole: every one is, from its os.replace on.
AllWhole == \A s \in Saved : adapter[s] = [gen |-> pt[s], whole |-> TRUE]

\* What a loop iteration has reached is a step there may be a checkpoint of.
Placed == pc \in Ahead => step \in Steps

\* The trainer never writes at or below the step of a checkpoint there is.
Beyond ==
    /\ pc \in Ahead => step \in Steps /\ \A u \in Saved : u < step
    /\ pc \in {"train", "prune"} => \A u \in Saved : u <= step

\* The adapter about to be published is this process's.
AdapterOwn ==
    /\ pc \in {"adapter", "publish"} => adapter[step].gen = gen
    /\ pc = "publish" => adapter[step].whole

\* What is just saved is not pruned.
NewestSpared == pc = "prune" => step \in Saved /\ step \notin stale

CInv == TypeOK /\ AllWhole /\ Beyond /\ AdapterOwn /\ NewestSpared

-----------------------------------------------------------------------------
LEMMA InitCInv == Init => CInv
<1>. SUFFICES ASSUME Init PROVE CInv
  OBVIOUS
<1>1. 0 \in 0..MaxSteps /\ 0 \in 0..MaxCrashes /\ 0 \in 0..MaxBad /\ 1 \in Gens
  BY CheckpointAssumption DEF Gens
<1>2. TypeOK
  BY <1>1 DEF Init, TypeOK, NoHistory, Dir, NoDir
<1>3. Saved = {}
  BY DEF Init, Saved
<1>. QED
  BY <1>2, <1>3 DEF Init, CInv, AllWhole, Beyond, AdapterOwn, NewestSpared, Ahead

LEMMA ResumeTyped == ASSUME TypeOK, Resume PROVE TypeOK'
<1>1. 0 \in 0..MaxSteps /\ NoHistory \in [Steps -> Losses \cup {0}]
  BY CheckpointAssumption DEF NoHistory
<1>2. \A s \in Saved : s \in 0..MaxSteps /\ pt[s] \in Gens
  BY DEF Saved, TypeOK, Steps
<1>3. ASSUME NEW g \in Gens, NEW s \in 0..MaxSteps, Started(g, s)
      PROVE  /\ gen' \in Gens /\ step' \in 0..MaxSteps
             /\ history' \in [Steps -> Losses \cup {0}]
             /\ stop' \in BOOLEAN /\ streak' \in Nat /\ stale' \subseteq Steps
  BY <1>1, <1>3 DEF Started
<1>4. UNCHANGED process \/ \E g \in Gens, s \in 0..MaxSteps : Started(g, s)
  BY <1>1, <1>2 DEF Resume, TypeOK
<1>5. pc' \in {"train", "failed"} /\ UNCHANGED <<disk, crashes, bad, high>>
  BY DEF Resume
<1>. QED  BY <1>3, <1>4, <1>5 DEF TypeOK, process, disk

LEMMA TypeStep == ASSUME TypeOK, Placed, [Next]_vars PROVE TypeOK'
<1>. USE DEF Steps, Gens
<1>1. CASE Train
  BY <1>1, CheckpointAssumption DEF Train, Going, TypeOK, disk
<1>2. CASE Skip
  BY <1>2, CheckpointAssumption DEF Skip, Going, TypeOK, disk
<1>3. CASE Validate
  <2>1. step \in Steps
    BY <1>3 DEF Validate, Placed, Ahead
  <2>2. history' \in [Steps -> Losses \cup {0}]
    BY <1>3, <2>1 DEF Validate, TypeOK
  <2>3. \/ pc' = "best" /\ best' = [step |-> step, whole |-> FALSE]
        \/ pc' = "record" /\ best' = best
    BY <1>3 DEF Validate
  <2>4. best' \in [step : 0..MaxSteps, whole : BOOLEAN] /\ pc' \in {"best", "record"}
    <3>1. \A n \in 0..MaxSteps :
            [step |-> n, whole |-> FALSE] \in [step : 0..MaxSteps, whole : BOOLEAN]
      OBVIOUS
    <3>2. step \in 0..MaxSteps /\ best \in [step : 0..MaxSteps, whole : BOOLEAN]
      BY DEF TypeOK
    <3>3. CASE pc' = "best" /\ best' = [step |-> step, whole |-> FALSE]
      BY <3>1, <3>2, <3>3
    <3>4. CASE pc' = "record" /\ best' = best
      BY <3>2, <3>4
    <3>. QED  BY <2>3, <3>3, <3>4
  <2>. QED  BY <1>3, <2>2, <2>4 DEF Validate, TypeOK
<1>4. CASE ValidateBad
  <2>1. bad' \in 0..MaxBad /\ 0 \in 0..MaxSteps
    BY <1>4, CheckpointAssumption DEF ValidateBad, TypeOK
  <2>. QED  BY <1>4, <2>1 DEF ValidateBad, TypeOK, process
<1>5. CASE SaveBest
  <2>1. best' \in [step : 0..MaxSteps, whole : BOOLEAN]
    BY <1>5 DEF SaveBest, TypeOK
  <2>. QED  BY <1>5, <2>1 DEF SaveBest, TypeOK, process
<1>13. CASE Record
  BY <1>13 DEF Record, TypeOK
<1>6. CASE Save
  BY <1>6 DEF Save, TypeOK, process, Dir
<1>7. CASE SaveAdapter
  BY <1>7 DEF SaveAdapter, TypeOK, process, Dir
<1>8. CASE Publish
  BY <1>8 DEF Publish, TypeOK, Stale, Saved
<1>9. CASE Unlink
  BY <1>9 DEF Unlink, TypeOK, process
<1>10. CASE RemoveTree
  BY <1>10 DEF RemoveTree, TypeOK, NoDir, Dir
<1>11. CASE Return \/ Finish
  <2>1. pc' \in {"train", "done"} /\ UNCHANGED <<disk, process, crashes, bad, high>>
    BY <1>11 DEF Return, Finish
  <2>. QED  BY <2>1 DEF TypeOK, disk, process
<1>14. CASE Crash
  <2>1. crashes' \in 0..MaxCrashes
    BY <1>14, CheckpointAssumption DEF Crash, TypeOK
  <2>. QED  BY <1>14, <2>1 DEF Crash, TypeOK, disk, process
<1>12. CASE UNCHANGED vars
  BY <1>12 DEF vars, TypeOK, disk, process
<1>. QED
  BY <1>1, <1>2, <1>3, <1>4, <1>5, <1>6, <1>7, <1>8, <1>9, <1>10, <1>11, <1>12, <1>13,
     <1>14, ResumeTyped
  DEF Next

\* keep_last counts the newest first, so the newest is never on the list.
LEMMA StaleSparesNewest ==
  ASSUME NEW s \in Saved', \A u \in Saved' : u <= s, Saved' \subseteq Nat
  PROVE  s \notin Stale
<1>0. \A u \in Saved' : ~(u > s)
  OBVIOUS
<1>1. {u \in Saved' : u > s} = {}
  BY <1>0
<1>2. Cardinality({u \in Saved' : u > s}) = 0
  BY <1>1, FS_EmptySet
<1>. QED  BY <1>2, CheckpointAssumption DEF Stale

LEMMA CInvStep == ASSUME CInv, [Next]_vars PROVE CInv'
<1>. USE CheckpointAssumption DEF Steps, Gens
<1>. TypeOK /\ AllWhole /\ Beyond /\ AdapterOwn /\ NewestSpared
  BY DEF CInv
<1>0. TypeOK'
  BY TypeStep DEF Beyond, Placed
<1>1. CASE Resume
  <2>1. Saved' = Saved /\ UNCHANGED disk
    BY <1>1 DEF Resume, disk, Saved
  <2>2. \/ pc' = "failed"
        \/ pc' = "train" /\ Saved = {} /\ gen' = gen
        \/ pc' = "train" /\ \E s \in Saved : Latest(s) /\ gen' = pt[s] /\ step' = s
    BY <1>1 DEF Resume, Started
  <2>3. pc' = "train" => \A u \in Saved : u <= step'
    BY <2>2 DEF Latest
  <2>. QED
    BY <1>0, <2>1, <2>2, <2>3
    DEF CInv, disk, AllWhole, Beyond, AdapterOwn, NewestSpared, Ahead
<1>2. CASE Train \/ Skip
  <2>1. UNCHANGED disk /\ Saved' = Saved /\ pc = "train" /\ step < MaxSteps
    BY <1>2 DEF Train, Skip, Going, disk, Saved
  <2>2. \/ pc' = "failed" /\ step' = step
        \/ pc' \in {"train", "validate", "save"} /\ step' = step + 1
    BY <1>2, <2>1 DEF Train, Skip
  <2>3. step \in Nat /\ Saved \subseteq Nat /\ \A u \in Saved : u <= step
    BY <2>1 DEF Beyond, TypeOK, Saved
  <2>4. AllWhole' /\ AdapterOwn' /\ NewestSpared'
    BY <2>1, <2>2 DEF disk, AllWhole, AdapterOwn, NewestSpared
  <2>5. pc' # "failed" => step' \in Steps /\ \A u \in Saved : u < step'
    BY <2>1, <2>2, <2>3
  <2>6. Beyond'
    BY <2>1, <2>2, <2>3, <2>5 DEF Beyond, Ahead
  <2>. QED  BY <1>0, <2>4, <2>6 DEF CInv
<1>3. CASE Validate \/ ValidateBad \/ SaveBest \/ Record
  <2>1. UNCHANGED <<pt, adapter, gen, step>>
    BY <1>3 DEF Validate, ValidateBad, SaveBest, Record, process
  <2>2. pc \in Ahead /\ pc' \in {"best", "record", "save", "train", "failed"}
    BY <1>3 DEF Validate, ValidateBad, SaveBest, Record, Ahead
  <2>3. Saved' = Saved /\ step \in Nat /\ Saved \subseteq Nat
    BY <2>1 DEF Saved, TypeOK
  <2>. QED
    BY <1>0, <2>1, <2>2, <2>3
    DEF CInv, AllWhole, Beyond, AdapterOwn, NewestSpared, Ahead
<1>4. CASE Save
  <2>1. step \in Steps /\ pt[step] = 0
    BY <1>4 DEF Save, Beyond, Saved, Ahead, TypeOK
  <2>. QED
    BY <1>0, <1>4, <2>1
    DEF CInv, Save, process, TypeOK, AllWhole, Beyond, AdapterOwn, NewestSpared, Saved, Ahead
<1>5. CASE SaveAdapter
  <2>1. step \in Steps /\ pt[step] = 0
    BY <1>5 DEF SaveAdapter, Beyond, Saved, Ahead, TypeOK
  <2>2. /\ adapter'[step].gen = adapter[step].gen /\ adapter'[step].whole
        /\ \A s \in Saved : adapter'[s] = adapter[s]
    BY <1>5, <2>1 DEF SaveAdapter, TypeOK, Dir, Saved
  <2>3. Saved' = Saved /\ UNCHANGED <<pt, gen, step>> /\ pc = "adapter" /\ pc' = "publish"
    BY <1>5 DEF SaveAdapter, Saved, process
  <2>. QED
    BY <1>0, <2>1, <2>2, <2>3
    DEF CInv, AllWhole, Beyond, AdapterOwn, NewestSpared, Ahead
<1>6. CASE Publish
  <2>1. step \in Steps /\ gen \in Gens /\ \A u \in Saved : u < step
    BY <1>6 DEF Publish, Beyond, Ahead, TypeOK
  <2>2. adapter[step] = [gen |-> gen, whole |-> TRUE]
    BY <1>6, <2>1 DEF Publish, AdapterOwn, TypeOK, Dir
  <2>3. Saved' = Saved \cup {step}
    BY <1>6, <2>1 DEF Publish, Saved, TypeOK
  <2>4. step \notin Stale
    BY <2>1, <2>3, StaleSparesNewest DEF Saved, TypeOK
  <2>5. AllWhole'
    BY <1>6, <2>1, <2>2, <2>3 DEF Publish, AllWhole, TypeOK, Saved
  <2>6. UNCHANGED <<step, adapter, gen>> /\ pc' \in {"prune", "train"}
    BY <1>6 DEF Publish
  <2>7. \A u \in Saved' : u <= step'
    BY <2>1, <2>3, <2>6 DEF TypeOK, Saved
  <2>8. Beyond' /\ AdapterOwn'
    BY <2>6, <2>7 DEF Beyond, AdapterOwn, Ahead
  <2>9. NewestSpared'
    BY <1>6, <2>3, <2>4, <2>6 DEF Publish, NewestSpared
  <2>. QED  BY <1>0, <2>5, <2>8, <2>9 DEF CInv
<1>7. CASE Unlink
  BY <1>0, <1>7
  DEF CInv, Unlink, process, TypeOK, AllWhole, Beyond, AdapterOwn, NewestSpared, Saved, Ahead
<1>8. CASE RemoveTree
  BY <1>0, <1>8
  DEF CInv, RemoveTree, TypeOK, AllWhole, Beyond, AdapterOwn, NewestSpared, Saved, Ahead
<1>9. CASE Return \/ Finish
  <2>1. UNCHANGED <<pt, adapter, gen, step>> /\ Saved' = Saved
    BY <1>9 DEF Return, Finish, disk, process, Saved
  <2>2. \/ pc = "prune" /\ pc' = "train"
        \/ pc' = "done"
    BY <1>9 DEF Return, Finish
  <2>. QED
    BY <1>0, <2>1, <2>2 DEF CInv, AllWhole, Beyond, AdapterOwn, NewestSpared, Ahead
<1>11. CASE Crash
  <2>1. UNCHANGED <<pt, adapter>> /\ Saved' = Saved /\ pc' = "off"
    BY <1>11 DEF Crash, disk, Saved
  <2>. QED
    BY <1>0, <2>1 DEF CInv, AllWhole, Beyond, AdapterOwn, NewestSpared, Ahead
<1>10. CASE UNCHANGED vars
  BY <1>0, <1>10
  DEF CInv, vars, disk, process, AllWhole, Beyond, AdapterOwn, NewestSpared, Saved
<1>. QED
  BY <1>1, <1>2, <1>3, <1>4, <1>5, <1>6, <1>7, <1>8, <1>9, <1>10, <1>11
  DEF Next

LEMMA CInvAlways == Spec => []CInv
  BY InitCInv, CInvStep, PTL DEF Spec

\* Every variable keeps its type, the step counter and the files included.
THEOREM CheckpointTyped == Spec => []TypeOK
<1>1. CInv => TypeOK
  BY DEF CInv
<1>. QED  BY <1>1, CInvAlways, PTL

\* Killed at any point, mid-save or mid-prune, the trainer leaves a newest
\* checkpoint that loads, or none.
THEOREM NewestLoads == Spec => []LatestLoadable
<1>1. CInv => LatestLoadable
  BY DEF CInv, AllWhole, LatestLoadable, Latest
<1>. QED  BY <1>1, CInvAlways, PTL

-----------------------------------------------------------------------------
(* Resets included, over whatever an earlier run has left: nothing is       *)
(* pruned that has no newer checkpoint beside it.                            *)
NewerStays == pc = "prune" => \A s \in stale : \E u \in Saved : s < u

RInv == TypeOK /\ Placed /\ NewerStays

LEMMA FreshTyped == ASSUME TypeOK, FreshStart PROVE TypeOK'
<1>1. 0 \in 0..MaxSteps /\ gen + 1 \in Gens /\ NoHistory \in [Steps -> Losses \cup {0}]
  BY CheckpointAssumption DEF FreshStart, NoHistory, Gens, TypeOK
<1>. QED
  BY <1>1 DEF FreshStart, Started, TypeOK, disk

LEMMA PlacedStep == ASSUME TypeOK, Placed, [Next \/ FreshStart]_vars PROVE Placed'
<1>1. CASE Train \/ Skip
  BY <1>1, CheckpointAssumption DEF Train, Skip, Going, TypeOK, Placed, Ahead, Steps
<1>2. CASE Resume \/ FreshStart \/ Unlink \/ RemoveTree \/ Return \/ Finish \/ Crash
  <2>1. pc' \notin Ahead
    BY <1>2
    DEF Resume, FreshStart, Unlink, RemoveTree, Return, Finish, Crash, Ahead, Started
  <2>. QED  BY <2>1 DEF Placed
<1>3. CASE Validate \/ ValidateBad \/ SaveBest \/ Record \/ Save \/ SaveAdapter \/ Publish
  <2>1. step' = step /\ pc \in Ahead
    BY <1>3
    DEF Validate, ValidateBad, SaveBest, Record, Save, SaveAdapter, Publish, process, Ahead
  <2>. QED  BY <2>1 DEF Placed
<1>4. CASE UNCHANGED vars
  BY <1>4 DEF vars, process, Placed
<1>. QED  BY <1>1, <1>2, <1>3, <1>4 DEF Next

\* keep_last counts the newest first: what is on the list has a newer one.
LEMMA StaleHasNewer == ASSUME NEW s \in Stale PROVE \E u \in Saved' : s < u
<1>1. KeepLast # 0 /\ Cardinality({u \in Saved' : u > s}) >= KeepLast /\ s \in Saved'
  BY DEF Stale
<1>2. {u \in Saved' : u > s} # {}
  BY <1>1, FS_EmptySet, CheckpointAssumption
<1>3. PICK u \in Saved' : u > s
  BY <1>2
<1>4. s \in Nat /\ u \in Nat
  BY <1>1, <1>3 DEF Saved, Steps
<1>. QED  BY <1>3, <1>4

\* What is unlinked is the oldest of the list: every newer one stays.
LEMMA UnlinkLeaves == ASSUME RInv, Unlink
                      PROVE  \A s \in stale : \E u \in Saved' : s < u
<1>1. PICK o \in stale : (\A u \in stale : o <= u) /\ pt' = [pt EXCEPT ![o] = 0]
  BY DEF Unlink
<1>2. stale \subseteq Nat /\ Saved \subseteq Nat
  BY DEF RInv, TypeOK, Saved, Steps
<1>3. \A s \in stale : \E u \in Saved : s < u
  BY DEF Unlink, RInv, NewerStays
<1>4. \A u \in Saved : u # o => u \in Saved'
  BY <1>1 DEF Saved, RInv, TypeOK
<1>5. ASSUME NEW s \in stale PROVE \E u \in Saved' : s < u
  <2>1. PICK u \in Saved : s < u
    BY <1>3, <1>5
  <2>2. u # o
    BY <1>1, <1>2, <1>5, <2>1
  <2>. QED  BY <1>4, <2>1, <2>2
<1>. QED  BY <1>5

LEMMA NewerStep == ASSUME RInv, [Next \/ FreshStart]_vars PROVE NewerStays'
<1>1. CASE Publish
  BY <1>1, StaleHasNewer DEF Publish, NewerStays
<1>2. CASE Unlink
  BY <1>2, UnlinkLeaves DEF Unlink, process, NewerStays
<1>3. CASE RemoveTree
  <2>1. stale' \subseteq stale /\ Saved' = Saved /\ pc = "prune"
    BY <1>3 DEF RemoveTree, Saved
  <2>. QED  BY <2>1 DEF RInv, NewerStays
<1>4. CASE UNCHANGED vars
  BY <1>4 DEF vars, disk, process, RInv, NewerStays, Saved
<1>5. CASE ~(Publish \/ Unlink \/ RemoveTree \/ UNCHANGED vars)
  <2>1. pc' # "prune"
    BY <1>5
    DEF Next, FreshStart, Resume, Started, Train, Skip, Validate, ValidateBad, SaveBest,
        Record, Save, SaveAdapter, Return, Finish, Crash
  <2>. QED  BY <2>1 DEF NewerStays
<1>. QED  BY <1>1, <1>2, <1>3, <1>4, <1>5

LEMMA RInvAlways == ResetSpec => []RInv
<1>1. Init => RInv
  BY InitCInv DEF CInv, Init, RInv, Placed, NewerStays, Ahead
<1>2. ASSUME RInv, [Next \/ FreshStart]_vars PROVE RInv'
  <2>1. TypeOK'
    BY <1>2, TypeStep, FreshTyped DEF RInv
  <2>. QED  BY <1>2, <2>1, PlacedStep, NewerStep DEF RInv
<1>3. RInv /\ [Next \/ FreshStart]_vars => RInv'
  BY <1>2
<1>. QED  BY <1>1, <1>3, PTL DEF ResetSpec

\* Neither pruning, however often it is cut short, nor a reset and what is trained
\* and pruned after it trades the newest checkpoint there is for an older one.
THEOREM ProgressIsKept == ResetSpec => ProgressKept
<1>1. ASSUME RInv, [Next \/ FreshStart]_vars
      PROVE  \A s \in Saved : \E u \in Saved' : s <= u
  <2>0. Saved \subseteq Nat
    BY DEF Saved, Steps
  <2>1. CASE Unlink
    <3>1. \A s \in Saved : s \in stale \/ s \in Saved'
      BY <1>1, <2>1 DEF Unlink, Saved, RInv, TypeOK
    <3>2. \A s \in stale : \E u \in Saved' : s < u
      BY <1>1, <2>1, UnlinkLeaves
    <3>3. Saved' \subseteq Nat
      BY DEF Saved, Steps
    <3>. QED  BY <2>0, <3>1, <3>2, <3>3
  <2>2. CASE ~Unlink
    <3>1. pt' = pt \/ Publish
      BY <1>1, <2>2
      DEF Next, vars, disk, FreshStart, Resume, Train, Skip, Validate, ValidateBad, SaveBest,
          Record, Save, SaveAdapter, RemoveTree, Return, Finish, Crash
    <3>2. gen # 0
      BY <1>1 DEF RInv, TypeOK, Gens
    <3>3. Saved \subseteq Saved'
      BY <1>1, <3>1, <3>2 DEF Publish, Saved, RInv, TypeOK
    <3>. QED  BY <2>0, <3>3
  <2>. QED  BY <2>1, <2>2
<1>2. RInv /\ [Next \/ FreshStart]_vars => [\A s \in Saved : \E u \in Saved' : s <= u]_vars
  BY <1>1
<1>. QED  BY <1>2, RInvAlways, PTL DEF ResetSpec, ProgressKept

-----------------------------------------------------------------------------
(* What a kill costs.  Between two steps the trainer may be past saves it  *)
(* should have made.  The invariant bounds them: the last step at which a  *)
(* save was due is no further from some checkpoint than one interval per   *)
(* loss that is not finite (`Covers').                                     *)
\* The last step up to n at which a save was due.
Floor(n, d) == n - (n % d)

\* The trainer has made, or passed by, every save due up to `step'.
SavesBehind ==
    \/ pc \in {"train", "prune"}
    \/ pc \in {"validate", "best", "record"} /\ step % SaveEvery # 0

Covers(s) ==
    /\ high <= s + SaveEvery * bad + SaveEvery
    /\ SavesBehind => Floor(step, SaveEvery) <= s + SaveEvery * bad

WInv == \E s \in Saved \cup {0} : Covers(s)

-----------------------------------------------------------------------------
\* Arithmetic of the save interval.

LEMMA Division == ASSUME NEW n \in Nat, NEW d \in Nat \ {0}
  PROVE n = d * (n \div d) + (n % d) /\ n \div d \in Nat /\ n % d \in 0..d-1
  OBVIOUS

\* Two multiples at most one interval apart.
LEMMA OneMultiple == ASSUME NEW d \in Nat \ {0}, NEW p \in Nat, NEW q \in Nat,
                            d * p < d * q, d * q <= d * p + d
                     PROVE d * q = d * p + d
<1>1. CASE q <= p
  <2>1. PICK k \in Nat : p = q + k
    BY <1>1
  <2>2. d * p = d * q + d * k /\ d * k \in Nat
    BY <2>1
  <2> QED BY <2>2
<1>2. CASE q = p + 1
  BY <1>2
<1>3. CASE q >= p + 2
  <2>1. PICK k \in Nat : q = p + 2 + k
    BY <1>3
  <2>2. d * q = d * p + d + d + d * k /\ d * k \in Nat /\ d * p \in Nat
    BY <2>1
  <2> QED BY <2>2
<1> QED BY <1>1, <1>2, <1>3

\* The last save that was due moves by one interval when a save is due, and stays
\* otherwise.
LEMMA FloorStep == ASSUME NEW n \in Nat, NEW d \in Nat \ {0}
  PROVE /\ Floor(n, d) \in Nat /\ Floor(n, d) <= n /\ n < Floor(n, d) + d
        /\ (n + 1) % d = 0 => Floor(n + 1, d) = Floor(n, d) + d
        /\ (n + 1) % d # 0 => Floor(n + 1, d) = Floor(n, d)
<1> DEFINE p == n \div d
           q == (n + 1) \div d
<1>1. n = d * p + (n % d) /\ p \in Nat /\ n % d \in 0 .. d - 1
  BY Division
<1>2. n + 1 = d * q + ((n + 1) % d) /\ q \in Nat /\ (n + 1) % d \in 0 .. d - 1
  <2>1. n + 1 \in Nat
    OBVIOUS
  <2> QED BY <2>1, Division
<1>3. d * p \in Nat /\ d * q \in Nat /\ Floor(n, d) = d * p /\ Floor(n + 1, d) = d * q
  BY <1>1, <1>2 DEF Floor
<1> HIDE DEF p, q
<1>4. CASE (n + 1) % d = 0
  <2>1. d * p < d * q /\ d * q <= d * p + d
    BY <1>1, <1>2, <1>3, <1>4
  <2>2. d * q = d * p + d
    BY <1>1, <1>2, <2>1, OneMultiple
  <2> QED BY <1>1, <1>3, <1>4, <2>2
<1>5. CASE (n + 1) % d # 0
  <2>1. d * q < d * p + d /\ d * p < d * q + d
    BY <1>1, <1>2, <1>3, <1>5
  <2>2. CASE d * p < d * q
    BY <1>1, <1>2, <2>1, <2>2, OneMultiple
  <2>3. CASE d * q < d * p
    BY <1>1, <1>2, <2>1, <2>3, OneMultiple
  <2> QED BY <1>1, <1>3, <1>5, <2>2, <2>3
<1> QED BY <1>1, <1>3, <1>4, <1>5

-----------------------------------------------------------------------------

\* What the actions leave alone, in one place.
Kept == CInv /\ CInv' /\ WInv

LEMMA Numbers ==
  ASSUME TypeOK
  PROVE  /\ high \in Nat /\ step \in Nat /\ bad \in Nat /\ SaveEvery * bad \in Nat
         /\ Saved \subseteq Nat /\ SaveEvery \in Nat \ {0}
         /\ SaveEvery * (bad + 1) = SaveEvery * bad + SaveEvery
         /\ Floor(step, SaveEvery) \in Nat /\ Floor(step, SaveEvery) <= step
         /\ step < Floor(step, SaveEvery) + SaveEvery
<1>1. /\ high \in Nat /\ step \in Nat /\ bad \in Nat /\ SaveEvery \in Nat \ {0}
      /\ Saved \subseteq Nat
  BY CheckpointAssumption DEF TypeOK, Saved, Steps
<1>2. SaveEvery * bad \in Nat /\ SaveEvery * (bad + 1) = SaveEvery * bad + SaveEvery
  BY <1>1
<1>. QED  BY <1>1, <1>2, FloorStep

\* A step that writes no checkpoint, trains no step and may only leave the loop's
\* duties behind it.
LEMMA WaitStep ==
  ASSUME Kept, Saved' = Saved, UNCHANGED <<high, step>>, bad' = bad \/ bad' = bad + 1,
         SavesBehind' => SavesBehind
  PROVE  WInv'
<1>1. TypeOK /\ TypeOK'
  BY DEF Kept, CInv
<1>2. PICK s \in Saved \cup {0} : Covers(s)
  BY DEF Kept, WInv
<1>3. SaveEvery * bad <= SaveEvery * bad' /\ SaveEvery * bad' \in Nat
  BY <1>1, Numbers
<1>4. Covers(s)'
  BY <1>1, <1>2, <1>3, Numbers DEF Covers
<1>. QED  BY <1>2, <1>4 DEF WInv

\* When the trainer stands at or beyond its newest checkpoint, which is `step' itself.
LEMMA SavedStep ==
  ASSUME Kept, step \in Saved', UNCHANGED <<high, step, bad>>,
         \A u \in Saved : u <= step
  PROVE  WInv'
<1>1. TypeOK /\ TypeOK'
  BY DEF Kept, CInv
<1>2. PICK s \in Saved \cup {0} : Covers(s)
  BY DEF Kept, WInv
<1>3. s <= step /\ s \in Nat
  BY <1>1, <1>2, Numbers
<1>4. Covers(step)'
  BY <1>1, <1>2, <1>3, Numbers DEF Covers
<1>. QED  BY <1>4 DEF WInv

\* maybe_resume goes back to the newest checkpoint, which is no older than the one
\* that covers what was done.
LEMMA ResumeWork == ASSUME Kept, Resume PROVE WInv'
<1>1. TypeOK /\ TypeOK'
  BY DEF Kept, CInv
<1>2. PICK s \in Saved \cup {0} : Covers(s)
  BY DEF Kept, WInv
<1>3. Saved' = Saved /\ UNCHANGED <<high, bad>>
  BY DEF Resume, disk, Saved
<1>4. CASE pc' = "failed"
  <2>1. Covers(s)'
    BY <1>2, <1>3, <1>4 DEF Covers, SavesBehind
  <2>. QED  BY <1>2, <1>3, <2>1 DEF WInv
<1>5. CASE pc' = "train"
  <2>1. PICK t \in Saved \cup {0} : step' = t /\ s <= t /\ s \in Nat
    BY <1>1, <1>2, <1>5, Numbers DEF Resume, Started, Latest
  <2>2. t \in Nat /\ Floor(t, SaveEvery) \in Nat /\ Floor(t, SaveEvery) <= t
    <3>1. t \in Nat /\ SaveEvery \in Nat \ {0}
      BY <1>1, Numbers
    <3>. QED  BY <3>1, FloorStep
  <2>3. high' <= t + SaveEvery * bad' + SaveEvery
    BY <1>1, <1>2, <1>3, <2>1, <2>2, Numbers DEF Covers
  <2>4. Floor(step', SaveEvery) <= t + SaveEvery * bad'
    BY <1>1, <1>3, <2>1, <2>2, Numbers
  <2>5. Covers(t)'
    BY <2>3, <2>4 DEF Covers
  <2>. QED  BY <1>3, <2>1, <2>5 DEF WInv
<1>. QED  BY <1>4, <1>5 DEF Resume

\* A finite loss: a save that is due is made before the loop goes on.
LEMMA TrainWork == ASSUME Kept, Train PROVE WInv'
<1>1. TypeOK /\ TypeOK'
  BY DEF Kept, CInv
<1>2. PICK s \in Saved \cup {0} : Covers(s)
  BY DEF Kept, WInv
<1>3. /\ Saved' = Saved /\ UNCHANGED bad /\ step' = step + 1
      /\ high' = high \/ high' = step + 1
  BY DEF Train, disk, Saved
<1>4. SavesBehind /\ (SavesBehind' => (step + 1) % SaveEvery # 0)
  BY <1>1, <1>3, Numbers DEF Train, SavesBehind, SaveDue, ValDue
<1>5. /\ Floor(step, SaveEvery) <= s + SaveEvery * bad
      /\ s \in Nat /\ high <= s + SaveEvery * bad + SaveEvery
  BY <1>1, <1>2, <1>4, Numbers DEF Covers
<1>6. SavesBehind' => Floor(step', SaveEvery) = Floor(step, SaveEvery)
  BY <1>1, <1>3, <1>4, Numbers, FloorStep
<1>7. high' <= s + SaveEvery * bad + SaveEvery
  BY <1>1, <1>3, <1>5, Numbers
<1>8. Covers(s)'
  BY <1>3, <1>5, <1>6, <1>7 DEF Covers
<1>. QED  BY <1>2, <1>3, <1>8 DEF WInv

\* A loss that is not finite passes by the save that was due, and is counted.
LEMMA SkipWork == ASSUME Kept, Skip, step' = step + 1 PROVE WInv'
<1>1. TypeOK /\ TypeOK'
  BY DEF Kept, CInv
<1>2. PICK s \in Saved \cup {0} : Covers(s)
  BY DEF Kept, WInv
<1>3. /\ Saved' = Saved /\ bad' = bad + 1 /\ SavesBehind
      /\ high' = high \/ high' = step + 1
  BY <1>1, Numbers DEF Skip, disk, Saved, SavesBehind
<1>4. /\ Floor(step, SaveEvery) <= s + SaveEvery * bad
      /\ s \in Nat /\ high <= s + SaveEvery * bad + SaveEvery
  BY <1>1, <1>2, <1>3, Numbers DEF Covers
<1>9. SaveEvery * bad' = SaveEvery * bad + SaveEvery
  <2>1. SaveEvery * bad' = SaveEvery * (bad + 1)
    BY <1>3
  <2>. QED  BY <1>1, <2>1, Numbers
<1>5. Floor(step', SaveEvery) <= Floor(step, SaveEvery) + SaveEvery
  <2>1. Floor(step', SaveEvery) = Floor(step + 1, SaveEvery)
    OBVIOUS
  <2>2. \/ Floor(step + 1, SaveEvery) = Floor(step, SaveEvery) + SaveEvery
        \/ Floor(step + 1, SaveEvery) = Floor(step, SaveEvery)
    BY <1>1, Numbers, FloorStep
  <2>. QED  BY <1>1, <2>1, <2>2, Numbers
<1>6. high' <= s + SaveEvery * bad' + SaveEvery
  BY <1>1, <1>3, <1>4, <1>9, Numbers
<1>7. Floor(step', SaveEvery) <= s + SaveEvery * bad'
  <2>1. Floor(step', SaveEvery) \in Nat
    <3>1. step' \in Nat /\ SaveEvery \in Nat \ {0}
      BY <1>1, Numbers
    <3>. QED  BY <3>1, FloorStep
  <2>. QED  BY <1>1, <1>4, <1>5, <1>9, <2>1, Numbers
<1>8. Covers(s)'
  BY <1>6, <1>7 DEF Covers
<1>. QED  BY <1>2, <1>3, <1>8 DEF WInv

LEMMA WInvStep == ASSUME CInv, CInv', WInv, [Next]_vars PROVE WInv'
<1>0. Kept /\ TypeOK /\ Beyond /\ NewestSpared /\ TypeOK'
  BY DEF Kept, CInv
<1>1. CASE Resume
  BY <1>0, <1>1, ResumeWork
<1>2. CASE Train
  BY <1>0, <1>2, TrainWork
<1>3. CASE Skip
  <2>1. CASE step' = step + 1
    BY <1>0, <1>3, <2>1, SkipWork
  <2>2. CASE step' # step + 1
    <3>1. /\ Saved' = Saved /\ UNCHANGED <<high, step>> /\ bad' = bad + 1
          /\ ~SavesBehind'
      BY <1>3, <2>2 DEF Skip, disk, Saved, SavesBehind
    <3>. QED  BY <1>0, <3>1, WaitStep
  <2>. QED  BY <2>1, <2>2
<1>4. CASE Validate \/ ValidateBad \/ SaveBest \/ Record
  <2>1. /\ Saved' = Saved /\ UNCHANGED <<high, step>> /\ bad' \in {bad, bad + 1}
    BY <1>4 DEF Validate, ValidateBad, SaveBest, Record, Saved, process
  <2>2. SavesBehind' => SavesBehind
    BY <1>4, <2>1 DEF Validate, ValidateBad, SaveBest, Record, SavesBehind, SaveDue
  <2>. QED  BY <1>0, <2>1, <2>2, WaitStep
<1>5. CASE Save \/ SaveAdapter \/ RemoveTree \/ Return \/ Finish \/ Crash
  <2>1. Saved' = Saved /\ UNCHANGED <<high, step, bad>>
    BY <1>5 DEF Save, SaveAdapter, RemoveTree, Return, Finish, Crash, Saved, disk, process
  <2>2. SavesBehind' => SavesBehind
    BY <1>5, <2>1 DEF Save, SaveAdapter, RemoveTree, Return, Finish, Crash, SavesBehind
  <2>. QED  BY <1>0, <2>1, <2>2, WaitStep
<1>6. CASE Publish
  <2>1. /\ step \in Steps /\ gen # 0 /\ \A u \in Saved : u < step
        /\ UNCHANGED <<high, step, bad>>
    BY <1>0, <1>6 DEF Publish, Beyond, Ahead, TypeOK, Gens
  <2>2. step \in Saved' /\ \A u \in Saved : u <= step
    BY <1>0, <1>6, <2>1 DEF Publish, Saved, TypeOK, Steps
  <2>. QED  BY <1>0, <2>1, <2>2, SavedStep
<1>7. CASE Unlink
  <2>1. step \in Saved' /\ UNCHANGED <<high, step, bad>> /\ \A u \in Saved : u <= step
    BY <1>0, <1>7 DEF Unlink, NewestSpared, Beyond, Saved, TypeOK, process
  <2>. QED  BY <1>0, <2>1, SavedStep
<1>8. CASE UNCHANGED vars
  <2>1. Saved' = Saved /\ UNCHANGED <<high, step, bad, pc>>
    BY <1>8 DEF vars, disk, process, Saved
  <2>2. SavesBehind' => SavesBehind
    BY <2>1 DEF SavesBehind
  <2>. QED  BY <1>0, <2>1, <2>2, WaitStep
<1>. QED
  BY <1>1, <1>2, <1>3, <1>4, <1>5, <1>6, <1>7, <1>8 DEF Next

LEMMA WInvInit == Init => WInv
<1>. SUFFICES ASSUME Init PROVE WInv
  OBVIOUS
<1>1. TypeOK
  BY InitCInv DEF CInv
<1>2. Covers(0)
  BY <1>1, Numbers DEF Init, Covers
<1>. QED  BY <1>2 DEF WInv

\* A kill costs one save interval at most, and one more for each loss that was not
\* finite, wherever it falls and however often.
THEOREM WorkIsBounded == Spec => []WorkLost
<1>1. CInv /\ WInv => WorkLost
  <2>. SUFFICES ASSUME CInv, WInv PROVE WorkLost
    OBVIOUS
  <2>1. PICK s \in Saved \cup {0} : Covers(s)
    BY DEF WInv
  <2>2. TypeOK /\ s \in Nat
    BY <2>1, Numbers DEF CInv
  <2>3. SaveEvery * (1 + bad) = SaveEvery * bad + SaveEvery
    BY <2>2, Numbers
  <2>4. high <= s + SaveEvery * (1 + bad)
    BY <2>1, <2>2, <2>3, Numbers DEF Covers
  <2>. QED  BY <2>1, <2>4 DEF WorkLost
<1>2. CInv /\ CInv' /\ WInv /\ [Next]_vars => WInv'
  BY WInvStep
<1>. QED  BY <1>1, <1>2, WInvInit, CInvAlways, PTL DEF Spec
-----------------------------------------------------------------------------
(* What pruning leaves of the best.                                          *)

\* Where a save is due wherever a validation is: elsewhere a best that is not
\* followed by a save has an adapter_best and no checkpoint.
SavedWhereValidated == \A s \in Steps : ValDue(s) => SaveDue(s)

\* Whatever was best before the validation at hand is on disk and spared; the one
\* at hand becomes adapter_best before it is recorded, and a checkpoint before the
\* loop goes on.
BestOnDisk(s) ==
    /\ pc \in {"train", "validate", "record", "save", "adapter", "publish", "prune"} =>
          best = [step |-> s, whole |-> TRUE]
    /\ pc \in {"train", "validate", "prune"} => pt[s] # 0
    /\ pc \in {"best", "record", "save", "adapter", "publish"} => s = step \/ pt[s] # 0
    /\ pc = "prune" => s \notin stale

BInv ==
    /\ \A u \in Steps : history[u] # 0 => u <= step /\ (pc = "validate" => u < step)
    /\ pc \in {"validate", "best", "record"} => ValDue(step)
    /\ pc = "best" => Best(history, step) /\ best = [step |-> step, whole |-> FALSE]
    /\ \A s \in Steps : Best(history, s) => BestOnDisk(s)

LEMMA OneBest ==
    ASSUME NEW h \in [Steps -> Losses \cup {0}], NEW s \in Steps, NEW u \in Steps,
           Best(h, s), Best(h, u)
    PROVE  s = u
<1>1. \A l \in Losses \cup {0} : l \in Nat
  BY CheckpointAssumption
<1>2. h[s] \in Nat /\ h[u] \in Nat /\ s \in Nat /\ u \in Nat
  BY <1>1 DEF Steps
<1>. QED  BY <1>2 DEF Best

\* A validation that is no better leaves the best what it was.
LEMMA ValidateKeepsBest == ASSUME TypeOK, TypeOK', Beyond, BInv, Validate PROVE BInv'
<1>1. /\ pc = "validate" /\ step \in Steps /\ step \in Nat /\ ValDue(step)
      /\ UNCHANGED <<pt, step, stale>> /\ pc' \in {"best", "record"}
  BY DEF Validate, Beyond, Ahead, BInv, TypeOK
<1>2. PICK l \in Losses : history' = [history EXCEPT ![step] = l]
  BY DEF Validate
<1>3. history'[step] = l /\ l # 0 /\ \A u \in Steps \ {step} : history'[u] = history[u]
  BY <1>1, <1>2, CheckpointAssumption DEF TypeOK
<1>4. \A u \in Steps : u \in Nat /\ (history[u] # 0 => u < step)
  BY <1>1 DEF BInv, Steps
<1>5. \A u \in Steps : history'[u] # 0 => u <= step
  BY <1>1, <1>3, <1>4
<1>6. ASSUME NEW s \in Steps \ {step}, Best(history', s) PROVE BestOnDisk(s) /\ Best(history, s)
  <2>1. Best(history, s)
    BY <1>1, <1>3, <1>4, <1>6 DEF Best
  <2>. QED  BY <2>1 DEF BInv
<1>7. CASE Best(history', step)
  <2>1. pc' = "best" /\ best' = [step |-> step, whole |-> FALSE]
    BY <1>7 DEF Validate
  <2>2. \A s \in Steps : Best(history', s) => s = step
    BY <1>1, <1>7, OneBest DEF TypeOK
  <2>. QED  BY <1>1, <1>5, <1>7, <2>1, <2>2 DEF BInv, BestOnDisk, ValDue, Best
<1>8. CASE ~Best(history', step)
  <2>1. pc' = "record" /\ best' = best
    BY <1>8 DEF Validate
  <2>2. \A s \in Steps : Best(history', s) =>
          best = [step |-> s, whole |-> TRUE] /\ pt[s] # 0
    BY <1>1, <1>6, <1>8 DEF BestOnDisk
  <2>3. \A s \in Steps : Best(history, s)' => Best(history', s)
    BY DEF Best
  <2>. QED  BY <1>1, <1>5, <2>1, <2>2, <2>3 DEF BInv, BestOnDisk, ValDue
<1>. QED  BY <1>7, <1>8

\* The steps after which the history and the loop's step are as before.
LEMMA SameBest ==
    ASSUME BInv, UNCHANGED <<history, step>>, pc' # "validate",
           pc' \in {"best", "record"} => ValDue(step),
           pc' = "best" => pc = "best" /\ best' = best,
           \A s \in Steps : Best(history, s) => BestOnDisk(s)'
    PROVE  BInv'
<1>1. \A s \in Steps : Best(history, s)' <=> Best(history, s)
  BY DEF Best
<1>2. Best(history, step)' <=> Best(history, step)
  BY DEF Best
<1>. QED  BY <1>1, <1>2 DEF BInv, ValDue

LEMMA BInvStep ==
    ASSUME SavedWhereValidated, CInv, CInv', BInv, [Next]_vars PROVE BInv'
<1>. TypeOK /\ Beyond /\ NewestSpared /\ TypeOK'
  BY DEF CInv
<1>0. \A s \in Steps : Best(history, s) => BestOnDisk(s)
  BY DEF BInv
<1>1. CASE Resume
  <2>1. CASE pc' = "failed"
    <3>1. UNCHANGED <<history, step>>
      BY <1>1, <2>1 DEF Resume, process
    <3>. QED  BY <2>1, <3>1, SameBest DEF BestOnDisk
  <2>2. CASE pc' = "train"
    <3>1. history' = NoHistory
      BY <1>1, <2>2 DEF Resume, Started
    <3>. QED  BY <2>2, <3>1 DEF BInv, NoHistory, Best
  <2>. QED  BY <1>1, <2>1, <2>2 DEF Resume
<1>2. CASE Train
  <2>1. /\ pc = "train" /\ step' = step + 1 /\ UNCHANGED <<history, pt, best, stale>>
        /\ pc' \in {"validate", "save", "train"} /\ (pc' = "validate" => ValDue(step'))
    BY <1>2 DEF Train, disk
  <2>2. \A u \in Steps : u \in Nat /\ (history[u] # 0 => u <= step)
    BY DEF BInv, Steps
  <2>3. step \in Nat
    BY DEF TypeOK
  <2>4. \A u \in Steps : history'[u] # 0 => u < step' /\ u <= step'
    BY <2>1, <2>2, <2>3
  <2>5. \A s \in Steps : Best(history, s)' => Best(history, s)
    BY <2>1 DEF Best
  <2>6. \A s \in Steps : Best(history, s)' => BestOnDisk(s)'
    BY <1>0, <2>1, <2>5 DEF BestOnDisk
  <2>. QED  BY <2>1, <2>4, <2>6 DEF BInv, ValDue
<1>3. CASE Skip
  <2>1. /\ pc = "train" /\ UNCHANGED <<history, pt, best, stale>>
        /\ pc' \in {"train", "failed"} /\ step' \in {step, step + 1}
    BY <1>3 DEF Skip, disk
  <2>2. \A u \in Steps : u \in Nat /\ (history[u] # 0 => u <= step)
    BY DEF BInv, Steps
  <2>3. step \in Nat
    BY DEF TypeOK
  <2>4. \A u \in Steps : history'[u] # 0 => u <= step'
    BY <2>1, <2>2, <2>3
  <2>5. \A s \in Steps : Best(history, s)' => BestOnDisk(s)'
    BY <1>0, <2>1 DEF BestOnDisk, Best
  <2>. QED  BY <2>1, <2>4, <2>5 DEF BInv
<1>4. CASE Validate
  BY <1>4, ValidateKeepsBest
<1>5. CASE ValidateBad \/ Crash \/ Finish
  <2>1. UNCHANGED <<history, step>> /\ pc' \in {"failed", "off", "done"}
    BY <1>5 DEF ValidateBad, Crash, Finish, process
  <2>. QED  BY <2>1, SameBest DEF BestOnDisk
<1>6. CASE SaveBest
  <2>1. /\ pc = "best" /\ pc' = "record" /\ UNCHANGED <<history, step, pt>>
        /\ Best(history, step) /\ best' = [step |-> step, whole |-> TRUE] /\ ValDue(step)
        /\ step \in Steps
    <3>1. /\ pc = "best" /\ pc' = "record" /\ UNCHANGED <<history, step, pt>>
          /\ best' = [best EXCEPT !.whole = TRUE]
      BY <1>6 DEF SaveBest, process
    <3>2. /\ Best(history, step) /\ best = [step |-> step, whole |-> FALSE] /\ ValDue(step)
          /\ step \in Steps
      BY <3>1 DEF BInv, Beyond, Ahead
    <3>. QED  BY <3>1, <3>2
  <2>2. \A s \in Steps : Best(history, s) => s = step
    BY <2>1, OneBest DEF TypeOK
  <2>. QED  BY <2>1, <2>2, SameBest DEF BestOnDisk
<1>7. CASE Record
  <2>1. pc = "record" /\ step \in Steps /\ ValDue(step) /\ UNCHANGED <<history, step, pt, best>>
    BY <1>7 DEF Record, Beyond, Ahead, BInv
  <2>2. pc' = "save"
    BY <1>7, <2>1 DEF Record, SavedWhereValidated
  <2>. QED  BY <1>0, <2>1, <2>2, SameBest DEF BestOnDisk
<1>8. CASE Save \/ SaveAdapter
  <2>1. /\ pc \in {"save", "adapter"} /\ pc' \in {"adapter", "publish"}
        /\ UNCHANGED <<history, step, pt, best>>
    BY <1>8 DEF Save, SaveAdapter, process
  <2>. QED  BY <1>0, <2>1, SameBest DEF BestOnDisk
<1>9. CASE Publish
  <2>1. /\ pc = "publish" /\ pc' = "prune" /\ step \in Steps /\ gen # 0
        /\ UNCHANGED <<history, step, best>>
        /\ pt' = [pt EXCEPT ![step] = gen] /\ stale' = Stale
    BY <1>9 DEF Publish, Beyond, Ahead, TypeOK, Gens
  <2>2. \A s \in Steps : Best(history, s) => s \notin stale'
    BY <2>1 DEF Stale
  <2>3. \A s \in Steps : s = step \/ pt[s] # 0 => pt'[s] # 0
    BY <2>1 DEF TypeOK
  <2>. QED  BY <1>0, <2>1, <2>2, <2>3, SameBest DEF BestOnDisk
<1>10. CASE Unlink \/ RemoveTree
  <2>1. /\ pc = "prune" /\ pc' = "prune" /\ UNCHANGED <<history, step, best>>
        /\ stale' \subseteq stale /\ \A s \in Steps \ stale : pt'[s] = pt[s]
    BY <1>10 DEF Unlink, RemoveTree, process, TypeOK
  <2>. QED  BY <1>0, <2>1, SameBest DEF BestOnDisk
<1>11. CASE Return
  <2>1. pc = "prune" /\ pc' = "train" /\ UNCHANGED <<history, step, best, pt>>
    BY <1>11 DEF Return, process, disk
  <2>. QED  BY <1>0, <2>1, SameBest DEF BestOnDisk
<1>12. CASE UNCHANGED vars
  BY <1>12 DEF vars, process, disk, BInv, BestOnDisk, Best, ValDue
<1>. QED
  BY <1>1, <1>2, <1>3, <1>4, <1>5, <1>6, <1>7, <1>8, <1>9, <1>10, <1>11, <1>12 DEF Next

\* Pruning never takes the best validated model, which adapter_best holds whole, at
\* any point the trainer may be killed at between two steps.
THEOREM BestIsKept == ASSUME SavedWhereValidated PROVE Spec => []BestKept
<1>1. Init => BInv
  BY DEF Init, BInv, NoHistory, Best
<1>2. CInv /\ CInv' /\ BInv /\ [Next]_vars => BInv'
  BY SavedWhereValidated, BInvStep
<1>3. BInv => BestKept
  BY DEF BInv, BestOnDisk, BestKept
<1>. QED  BY <1>1, <1>2, <1>3, CInvAlways, PTL DEF Spec
=============================================================================
