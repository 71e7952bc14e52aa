---------------------------- MODULE MCSchedCmin ----------------------------
(* Model-checking instance of SchedCmin: two seeds over three edges.     *)
EXTENDS SchedCmin, TLC

MCEdges == 0 .. 2

(* Overlapping traces, so that culling has a real choice to make. *)
MCTraces == {{0, 1}, {1, 2}, {0, 2}, {0, 1, 2}}

(* Contents only meet equality tests, so permuting them is sound. *)
ContentSymmetry == Permutations(Contents)

=============================================================================
