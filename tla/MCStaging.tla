----------------------------- MODULE MCStaging -----------------------------
EXTENDS Staging, TLC
CONSTANTS open, gated

Needed == [d \in Corpora |-> IF d = open THEN {"vqa"} ELSE {"vqa", "caption"}]

(* A corpus that nothing prepares beside one that any of the scripts does.    *)
MCScripts ==
    [d \in Corpora |-> IF d = open THEN {}
        ELSE {RSVQA, VRSBench, RSVQAOfficial, BigEarthNet, LEVIR, LEVIRMCI,
              WHUOptSAR, WHUArchives, CDVQAShards, CDVQASecond}]

FilesAlike == Permutations(Parts)
=============================================================================
