---------------------------- MODULE MCDeployment ----------------------------
(* The tools the runs are about, one of each kind. *)
EXTENDS Deployment, TLC

ServedSuites == {{"landcover_v1"}, {"rs_vqa_v1"}, {"change_vqa_v1"}, {"grounding_v1"},
                 {"change_caption_v1", "change_mask_v1"}}

ThreadsAlike == Permutations(Threads)
=============================================================================
