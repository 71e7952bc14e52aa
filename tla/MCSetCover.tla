----------------------------- MODULE MCSetCover -----------------------------
(* Model-checking instance of SetCover: three seeds over three edges.      *)
EXTENDS SetCover, TLC

MCEdges == 0 .. 2

(* Overlapping traces: greedy has real choices and real ties. *)
MCTraces == {{0, 1}, {1, 2}, {0, 2}, {0, 1, 2}}

(* Four edges, where the first of three equally good seeds leaves the     *)
(* last candidate strictly better than the second: the greedy choice then  *)
(* depends on the swap-remove keeping that candidate.                      *)
MCEdges4 == 0 .. 3

MCGreedyTraces == {{0, 1}, {2, 3}, {2}, {3}, {1, 2, 3}}

(* One edge per execution: every seed is needed in the cover. *)
MCUnitTraces == {{0}, {1}, {2}}

=============================================================================
