--------------------------- MODULE MCAliasTable ---------------------------
EXTENDS AliasTable

(* The global calculate_score inputs: averages of 10, four executions so  *)
(* far, no fixed seed, no MOpt mode, the default havoc_max_mult of 32.     *)
MCGlobals ==
  [avg_exec_us |-> 10, avg_bitmap_size |-> 10, fixed_seed |-> FALSE,
   max_depth |-> 4, total_execs |-> 4, limit_time_sig |-> FALSE,
   havoc_max_mult |-> 32]

(* An average seed whose path every execution took (RARE scales it to 0   *)
(* before the lower bound), and a favored deep seed with a large bitmap    *)
(* that is the top contender for one byte.                                 *)
MCAttrs ==
  {[exec_us |-> 10, bitmap_size |-> 10, depth |-> 2, tc_ref |-> 0,
    n_fuzz |-> 4, fuzz_level |-> 1, favored |-> FALSE, was_fuzzed |-> TRUE,
    fs_redundant |-> TRUE],
   [exec_us |-> 10, bitmap_size |-> 40, depth |-> 4, tc_ref |-> 1,
    n_fuzz |-> 1, fuzz_level |-> 0, favored |-> TRUE, was_fuzzed |-> FALSE,
    fs_redundant |-> FALSE]}

(* Seeds that each hold a top-rated edge, so no weight is NaN. *)
MCAttrsHeld == {[a EXCEPT !.tc_ref = 1] : a \in MCAttrs}

=============================================================================
