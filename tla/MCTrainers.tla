----------------------------- MODULE MCTrainers -----------------------------
(* The trainers the runs are about. *)
EXTENDS Trainers, TLC

(* One of each kind: with a vocabulary, with statistics, counting bad losses,  *)
(* without --eval-only, keeping the best, with an --eval-only of its own.      *)
QueuedCodes == {TrainCaption, TrackAFull, TrainChangeMask, StageA2, TrainChangeVqa, TrackAEncoder}

ProcessesAlike == Permutations(Procs)
=============================================================================
