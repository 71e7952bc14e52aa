---------------------------- MODULE MCQueueCull ----------------------------
(* Model-checking instance of QueueCull alone: discoveries, calibration,  *)
(* re-calibration, culling and fuzzing, without corpus minimization.       *)
EXTENDS QueueCull, TLC

MCEdges == 0 .. 2

(* Overlapping traces, so that culling has a real choice to make. *)
MCTraces == {{0, 1}, {1, 2}, {0, 2}, {0, 1, 2}}

(* Contents only meet equality tests, so permuting them is sound. *)
ContentSymmetry == Permutations(Contents)

Spec == QueueInit /\ [][QueueNext]_queue_vars

=============================================================================
