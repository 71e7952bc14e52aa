----------------------------- MODULE QueueCull -----------------------------
(***************************************************************************)
(* The queue store, the top-rated table and favored culling of the seed    *)
(* scheduler (src/Minset_AFL++/src/afl-fuzz-queue.c).                      *)
(*                                                                         *)
(* queue_buf[i] is the queue entry with id i (add_to_queue appends, ids    *)
(* are dense).  top_rated[e] is the seed currently judged best for edge e  *)
(* (Null = no entry).  A trace is the set of edges whose trace byte is     *)
(* non-zero in the execution update_bitmap_score reads; trace_mini is the  *)
(* one-bit-per-edge copy that minimize_bits makes of it, so it is modelled *)
(* as that set of edges, or Null once freed.                               *)
(*                                                                         *)
(* The calls into this code that live outside src/ (the calibration that   *)
(* follows add_to_queue, fuzz_one marking a seed fuzzed) are modelled from *)
(* the specification.                                                      *)
(***************************************************************************)
EXTENDS Integers, FiniteSets, Sequences, SequencesExt

CONSTANTS
  MaxSeeds,        \* bound on queued_items
  Edges,           \* coverage map positions, a finite set of naturals
  Traces,          \* the non-empty sets of edges an execution may hit
  Lens,            \* possible q->len values
  ExecUs,          \* possible q->exec_us values
  Contents,        \* file contents (model values); the cmin hash is injective on them
  Schedule,        \* the power schedule: "FAST" class (FAST..MMOPT) or "EXPLORE" class
  MaxFuzzLevel,    \* fuzz_level saturates here (bound)
  MaxRescore,      \* bound on re-calibrations of an existing seed
  MaxNodesPerSeed, \* MAX_NODES_PER_SEED
  Null             \* a NULL pointer

ASSUME MaxSeeds \in Nat /\ Edges \subseteq Nat /\ Edges # {}
ASSUME Traces \subseteq SUBSET Edges /\ {} \notin Traces
ASSUME Schedule \in {"FAST", "EXPLORE"}
ASSUME MaxNodesPerSeed \in Nat \ {0}

VARIABLES
  queue_buf,            \* id -> queue entry record
  queued_items, active_items, pending_not_fuzzed, pending_favored,
  queued_favored, smallest_favored, score_changed,
  top_rated,            \* edge -> seed id or Null
  global_frontier,      \* global_frontier_bitmap, as a set of edges
  global_frontier_count,\* global_covered_frontier_nodes_count
  cal_pending,          \* the seed add_to_queue just appended, awaiting calibration
  rescores              \* number of re-calibrations so far (bounded)

queue_vars == <<queue_buf, queued_items, active_items, pending_not_fuzzed,
                pending_favored, queued_favored, smallest_favored,
                score_changed, top_rated, global_frontier,
                global_frontier_count, cal_pending, rescores>>

SeedIds == 0 .. MaxSeeds - 1
Ids == 0 .. queued_items - 1
Sorted(S) == SetToSortSeq(S, <)

Entry == [len : Lens, exec_us : ExecUs, content : Contents, tc_ref : Nat,
          trace_mini : SUBSET Edges \cup {Null}, favored : BOOLEAN,
          was_fuzzed : BOOLEAN, fuzz_level : 0 .. MaxFuzzLevel,
          disabled : BOOLEAN, fs_redundant : BOOLEAN,
          cfnl : Seq(Edges)]   \* covered_frontier_node_list

Active == {i \in Ids : ~queue_buf[i].disabled}

(***************************************************************************)
(* The two components of a seed's rank in update_bitmap_score.  The        *)
(* fast-class schedules skip the fuzz_p2 comparison; the others use        *)
(* fuzz_level.  fixed_seed and RARE (len << 2, next_pow2(n_fuzz)) are not  *)
(* modelled.                                                               *)
(***************************************************************************)
FuzzP2(s) == IF Schedule = "FAST" THEN 0 ELSE s.fuzz_level
FavFactor(s) == s.exec_us * s.len

(***************************************************************************)
(* q wins an edge held by inc unless inc has smaller fuzz_p2 or smaller    *)
(* fav_factor: the two `continue`s of the comparison.                      *)
(***************************************************************************)
Wins(qs, incs) == FuzzP2(qs) <= FuzzP2(incs) /\ FavFactor(qs) <= FavFactor(incs)

(* The beaten winner drops a reference; at zero its trace_mini is freed.   *)
ReleaseNoDecrement(buf, inc) == buf
ReleaseFreeAlways(buf, inc) == [buf EXCEPT ![inc].tc_ref = @ - 1, ![inc].trace_mini = Null]
Release(buf, inc) ==
  [buf EXCEPT ![inc].tc_ref = @ - 1,
              ![inc].trace_mini = IF buf[inc].tc_ref = 1 THEN Null ELSE @]

(* q takes a reference and, if it has none, a trace_mini of this trace.    *)
ClaimNoRef(buf, q, tr) == [buf EXCEPT ![q].trace_mini = IF @ = Null THEN tr ELSE @]
Claim(buf, q, tr) ==
  [buf EXCEPT ![q].tc_ref = @ + 1, ![q].trace_mini = IF @ = Null THEN tr ELSE @]

(* The freshly allocated covered_frontier_node_list: the hit edges in      *)
(* ascending order, the ones past MAX_NODES_PER_SEED dropped.              *)
FrontierListShort(tr) ==
  SubSeq(Sorted(tr), 1, IF Cardinality(tr) < MaxNodesPerSeed
                        THEN Cardinality(tr) ELSE MaxNodesPerSeed - 1)
FrontierList(tr) ==
  SubSeq(Sorted(tr), 1, IF Cardinality(tr) < MaxNodesPerSeed
                        THEN Cardinality(tr) ELSE MaxNodesPerSeed)

(***************************************************************************)
(* update_bitmap_score(q) with trace bits tr over the queue buf0 (the     *)
(* queue as the caller left it, q->len and q->exec_us included): walk the  *)
(* hit edges in                                                            *)
(* ascending order; each one goes into q's covered_frontier_node_list      *)
(* (reset on every call) and the global frontier; on a win, release the    *)
(* old winner, install q and claim.  The frontier block is `if (true)` and *)
(* the list is only allocated under use_set_cover_scheduling, so the model *)
(* takes set-cover scheduling as on (off, line 767 writes through NULL).   *)
(***************************************************************************)
UpdateBitmapScore(buf0, q, tr) ==
  LET qs == buf0[q]
      Step(st, i) ==
        LET inc == st.top[i] IN
        IF inc # Null /\ ~Wins(qs, st.buf[inc]) THEN st
        ELSE [top |-> [st.top EXCEPT ![i] = q],
              buf |-> Claim(IF inc = Null THEN st.buf ELSE Release(st.buf, inc), q, tr),
              changed |-> TRUE]
      res == FoldLeft(Step, [top |-> top_rated, buf |-> buf0,
                             changed |-> score_changed], Sorted(tr))
  IN /\ top_rated' = res.top
     /\ score_changed' = res.changed
     /\ queue_buf' = [res.buf EXCEPT ![q].cfnl = FrontierList(tr)]
     /\ global_frontier' = global_frontier \cup tr
     /\ global_frontier_count' = global_frontier_count + Cardinality(tr \ global_frontier)

(* temp_v starts with every bit set (memset 255). *)
TempInitEmpty == {}
TempInit == Edges

(***************************************************************************)
(* Marking a top-rated seed favored: only a seed not yet favored is        *)
(* counted in queued_favored and, when unfuzzed, in pending_favored and    *)
(* smallest_favored.                                                       *)
(***************************************************************************)
FavorNoFuzzCheck(st, t) ==
  IF st.buf[t].favored THEN st
  ELSE [st EXCEPT !.buf[t].favored = TRUE, !.qf = @ + 1, !.pf = @ + 1,
                  !.sf = IF @ < 0 THEN t ELSE @]
Favor(st, t) ==
  IF st.buf[t].favored THEN st
  ELSE LET pend == ~st.buf[t].was_fuzzed IN
       [st EXCEPT !.buf[t].favored = TRUE, !.qf = @ + 1,
                  !.pf = IF pend THEN @ + 1 ELSE @,
                  !.sf = IF pend /\ @ < 0 THEN t ELSE @]

(* mark_as_redundant: set fs_redundant (the marker file under             *)
(* queue/.state/redundant_edges is created or removed accordingly).        *)
MarkAsRedundant(s, state) == [s EXCEPT !.fs_redundant = state]

(***************************************************************************)
(* cull_queue as a function of the queue and top-rated table: clear every  *)
(* favored flag, walk the edges in ascending order and, for an edge still  *)
(* set in temp_v that has a top-rated seed, subtract that seed's           *)
(* trace_mini from temp_v and favor it.  Then mark_as_redundant every      *)
(* non-disabled seed with !favored.                                        *)
(***************************************************************************)
Cull(buf, top) ==
  LET buf0 == [i \in DOMAIN buf |-> [buf[i] EXCEPT !.favored = FALSE]]
      Step(st, i) ==
        LET t == top[i] IN
        IF t = Null \/ i \notin st.temp THEN st
        ELSE Favor([st EXCEPT !.temp = @ \ st.buf[t].trace_mini], t)
      res == FoldLeft(Step, [temp |-> TempInit, buf |-> buf0, qf |-> 0, pf |-> 0,
                             sf |-> -1], Sorted(Edges))
  IN [res EXCEPT !.buf = [i \in DOMAIN buf |->
                            IF res.buf[i].disabled THEN res.buf[i]
                            ELSE MarkAsRedundant(res.buf[i], ~res.buf[i].favored)]]

-----------------------------------------------------------------------------
(***************************************************************************)
(* Actions                                                                 *)
(***************************************************************************)

QueueInit ==
  /\ queue_buf = <<>>
  /\ queued_items = 0 /\ active_items = 0
  /\ pending_not_fuzzed = 0 /\ pending_favored = 0
  /\ queued_favored = 0 /\ smallest_favored = -1
  /\ score_changed = FALSE
  /\ top_rated = [e \in Edges |-> Null]
  /\ global_frontier = {} /\ global_frontier_count = 0
  /\ cal_pending = Null /\ rescores = 0

(* add_to_queue: append a zeroed entry with the next id. *)
AddToQueue ==
  /\ cal_pending = Null
  /\ queued_items < MaxSeeds
  /\ \E len \in Lens, us \in ExecUs, c \in Contents :
       queue_buf' = [i \in 0 .. queued_items |->
                       IF i < queued_items THEN queue_buf[i]
                       ELSE [len |-> len, exec_us |-> us, content |-> c,
                             tc_ref |-> 0, trace_mini |-> Null,
                             favored |-> FALSE, was_fuzzed |-> FALSE,
                             fuzz_level |-> 0, disabled |-> FALSE,
                             fs_redundant |-> FALSE, cfnl |-> <<>>]]
  /\ queued_items' = queued_items + 1
  /\ active_items' = active_items + 1
  /\ pending_not_fuzzed' = pending_not_fuzzed + 1
  /\ cal_pending' = queued_items
  /\ UNCHANGED <<pending_favored, queued_favored, smallest_favored,
                 score_changed, top_rated, global_frontier,
                 global_frontier_count, rescores>>

(* The calibration run that follows every add_to_queue scores the new seed. *)
CalibrateNew ==
  /\ cal_pending # Null
  /\ \E tr \in Traces : UpdateBitmapScore(queue_buf, cal_pending, tr)
  /\ cal_pending' = Null
  /\ UNCHANGED <<queued_items, active_items, pending_not_fuzzed,
                 pending_favored, queued_favored, smallest_favored, rescores>>

(* A later calibration or trim of an existing seed scores it again: a     *)
(* trim may first shorten q->len, calibrate_case re-measures q->exec_us,   *)
(* and a seed with variable behaviour may hit a different set of edges.    *)
Recalibrate ==
  /\ cal_pending = Null
  /\ rescores < MaxRescore
  /\ \E q \in Active, tr \in Traces, l \in Lens, us \in ExecUs :
       /\ l <= queue_buf[q].len
       /\ UpdateBitmapScore([queue_buf EXCEPT ![q].len = l, ![q].exec_us = us], q, tr)
  /\ rescores' = rescores + 1
  /\ UNCHANGED <<queued_items, active_items, pending_not_fuzzed,
                 pending_favored, queued_favored, smallest_favored, cal_pending>>

(* cull_queue: a no-op unless score_changed. *)
CullQueue ==
  /\ cal_pending = Null
  /\ score_changed
  /\ LET res == Cull(queue_buf, top_rated) IN
       /\ queue_buf' = res.buf
       /\ queued_favored' = res.qf
       /\ pending_favored' = res.pf
       /\ smallest_favored' = res.sf
  /\ score_changed' = FALSE
  /\ UNCHANGED <<queued_items, active_items, pending_not_fuzzed, top_rated,
                 global_frontier, global_frontier_count, cal_pending,
                 rescores>>

(***************************************************************************)
(* The seeds select_next_queue_entry can return.  create_alias_table gives *)
(* a disabled seed probability 0, so only active seeds are drawn; but when *)
(* every seed is disabled all P[i] are 0, every index lands in Small and   *)
(* gets alias_probability 1, and the draw returns any index.              *)
(***************************************************************************)
Selectable == IF Active # {} THEN Active ELSE Ids

(* fuzz_one on the selected seed: bump fuzz_level and, on its first       *)
(* completed round, mark it fuzzed and drop the pending counters.          *)
FuzzOne ==
  /\ cal_pending = Null
  /\ \E q \in Selectable :
       LET s == queue_buf[q]
           first == ~s.was_fuzzed /\ ~s.disabled
       IN /\ queue_buf' = [queue_buf EXCEPT
                             ![q].fuzz_level = IF @ < MaxFuzzLevel THEN @ + 1 ELSE @,
                             ![q].was_fuzzed = @ \/ first]
          /\ pending_not_fuzzed' = IF first THEN pending_not_fuzzed - 1
                                   ELSE pending_not_fuzzed
          /\ pending_favored' = IF first /\ s.favored THEN pending_favored - 1
                                ELSE pending_favored
          /\ smallest_favored' = IF first /\ s.favored THEN -1 ELSE smallest_favored
  /\ UNCHANGED <<queued_items, active_items, queued_favored, score_changed,
                 top_rated, global_frontier, global_frontier_count,
                 cal_pending, rescores>>

QueueNext ==
  \/ AddToQueue
  \/ CalibrateNew
  \/ Recalibrate
  \/ CullQueue
  \/ FuzzOne

-----------------------------------------------------------------------------
(***************************************************************************)
(* Properties                                                              *)
(***************************************************************************)

TypeOK ==
  /\ queued_items \in 0 .. MaxSeeds
  /\ queue_buf \in [Ids -> Entry]
  /\ top_rated \in [Edges -> SeedIds \cup {Null}]
  /\ pending_not_fuzzed \in Nat /\ pending_favored \in Nat
  /\ queued_favored \in Nat /\ smallest_favored \in -1 .. MaxSeeds
  /\ score_changed \in BOOLEAN
  /\ global_frontier \subseteq Edges /\ global_frontier_count \in Nat
  /\ cal_pending \in SeedIds \cup {Null}

(* cull_queue dereferences top_rated[i]->trace_mini: every top-rated seed  *)
(* must still own a trace_mini, also when a seed re-wins an edge it holds  *)
(* and its tc_ref passes through zero inside update_bitmap_score.          *)
TopRatedHasTraceMini ==
  \A e \in Edges : top_rated[e] # Null => queue_buf[top_rated[e]].trace_mini # Null

(* tc_ref is exactly the number of edges whose top-rated entry is the     *)
(* seed, across any interleaving of new seeds and re-calibrations.         *)
TcRefExact ==
  \A q \in Ids : queue_buf[q].tc_ref = Cardinality({e \in Edges : top_rated[e] = q})

(* Once cull_queue has consumed score_changed, every edge with a          *)
(* top-rated seed is covered by the favored set: either its winner is      *)
(* favored or the edge is in the trace_mini of a favored seed.             *)
CulledCover ==
  ~score_changed =>
    \A e \in Edges : top_rated[e] # Null =>
      \/ queue_buf[top_rated[e]].favored
      \/ \E f \in Ids : /\ queue_buf[f].favored
                        /\ queue_buf[f].trace_mini # Null
                        /\ e \in queue_buf[f].trace_mini

(* pending_not_fuzzed counts the active seeds not yet fuzzed, through     *)
(* additions, fuzzing and corpus minimization.                             *)
PendingNotFuzzedExact ==
  pending_not_fuzzed = Cardinality({q \in Active : ~queue_buf[q].was_fuzzed})

(* Spec 3: pending_favored counts the active favored seeds not yet fuzzed. *)
PendingFavoredExact ==
  pending_favored =
    Cardinality({q \in Active : queue_buf[q].favored /\ ~queue_buf[q].was_fuzzed})

(* Spec 8: the top-rated seed of an edge has that edge in its trace_mini. *)
TopRatedInTraceMini ==
  \A e \in Edges : top_rated[e] # Null =>
    /\ queue_buf[top_rated[e]].trace_mini # Null
    /\ e \in queue_buf[top_rated[e]].trace_mini

=============================================================================
