------------------------------ MODULE SetCover ------------------------------
(***************************************************************************)
(* The frontier set-cover reduction (cull_queue_new ->                     *)
(* set_cover_reduction_final in src/Minset_AFL++/src/afl-fuzz-queue.c)     *)
(* over the queue of QueueCull.  The per-seed covered_frontier_node_list   *)
(* (cfnl) and global_frontier_bitmap it reads are those that               *)
(* update_bitmap_score maintains there.                                    *)
(*                                                                         *)
(* The reduction runs to completion on the fuzzer's only thread.  When no  *)
(* candidate has gain before the cover is complete, best_seed_idx stays    *)
(* -1 and unselected_seeds[-1] is read: the loop then either crashes on    *)
(* the garbage index or never exits.  Both end the fuzzer, so the model    *)
(* records that outcome as sc_status = "stuck" and stops.                  *)
(***************************************************************************)
EXTENDS QueueCull

VARIABLES
  set_covered,          \* ids whose set_covered flag is 1
  covered_seed_list,    \* set_covered_seed_list[0 .. covered_seed_list_counter-1]
  set_favored_id,       \* afl->set_favored_id (Null before any choice)
  sc_status             \* "idle", "done" or "stuck" (the last reduction)

sc_vars == <<set_covered, covered_seed_list, set_favored_id, sc_status>>

(* The edges a seed's list names. *)
ListEdges(i) == Range(queue_buf[i].cfnl)

(* gain: the entries of the seed's list whose bit is still set in temp. *)
Gain(i, temp) == Cardinality(ListEdges(i) \cap temp)

(***************************************************************************)
(* One run of the while(1) loop, over unselected_seeds (unsel), the        *)
(* global_frontier_bitmap_temp copy (temp), covered_frontier_count (cnt)   *)
(* and the seeds chosen so far.  best is the first index of maximum        *)
(* positive gain (`gain > max_gain`); the chosen seed's bits are cleared,  *)
(* it is swap-removed (its slot takes the last entry) and appended to the  *)
(* cover list.  The loop ends only when cnt reaches the global count.      *)
(***************************************************************************)
(* Dropping the last slot without moving it into the hole. *)
DropLast(unsel, k) == SubSeq(unsel, 1, Len(unsel) - 1)

(* `unselected_seeds[best_seed_idx] = unselected_seeds[--count]`. *)
SwapRemove(unsel, k) == SubSeq([unsel EXCEPT ![k] = unsel[Len(unsel)]], 1, Len(unsel) - 1)

RECURSIVE GreedyCover(_, _, _, _)
GreedyCover(unsel, temp, cnt, chosen) ==
  LET n == Len(unsel)
      gain == [k \in 1 .. n |-> Gain(unsel[k], temp)]
      mx == IF n = 0 THEN 0 ELSE Max(Range(gain))
  IN IF mx = 0
       THEN [status |-> "stuck", chosen |-> chosen]
       ELSE LET best == CHOOSE k \in 1 .. n : gain[k] = mx /\ \A j \in 1 .. k - 1 : gain[j] < mx
                s == unsel[best]
                cnt2 == cnt + gain[best]
                chosen2 == Append(chosen, s)
            IN IF cnt2 = global_frontier_count
                 THEN [status |-> "done", chosen |-> chosen2]
                 ELSE GreedyCover(SwapRemove(unsel, best),
                                  temp \ ListEdges(s), cnt2, chosen2)

(***************************************************************************)
(* cull_queue_new: set_cover_reduction_final.  Every set_covered flag is   *)
(* cleared and the candidates are the seeds, in id order, with a non-empty *)
(* list (disabled ones included).  With no candidate a random index        *)
(* becomes set_favored_id; otherwise the greedy loop runs and              *)
(* set_favored_id is left as it was.                                       *)
(***************************************************************************)
(* The code's candidates: every seed with covered_frontier_nodes_count > 0, *)
(* whether or not it is disabled.                                          *)
Candidates == {i \in Ids : queue_buf[i].cfnl # <<>>}

SetCoverReduction ==
  /\ cal_pending = Null
  /\ queued_items > 0
  /\ LET cands == Sorted(Candidates) IN
     IF cands = <<>>
       THEN /\ \E r \in Ids : set_favored_id' = r
            /\ set_covered' = {}
            /\ covered_seed_list' = <<>>
            /\ sc_status' = "done"
       ELSE LET res == GreedyCover(cands, global_frontier, 0, <<>>) IN
            /\ set_covered' = Range(res.chosen)
            /\ covered_seed_list' = res.chosen
            /\ sc_status' = res.status
            /\ UNCHANGED set_favored_id
  /\ UNCHANGED queue_vars

SetCoverInit ==
  /\ QueueInit
  /\ set_covered = {} /\ covered_seed_list = <<>>
  /\ set_favored_id = Null /\ sc_status = "idle"

(* Once the reduction is stuck the fuzzer takes no further step. *)
SetCoverNext ==
  /\ sc_status # "stuck"
  /\ \/ QueueNext /\ UNCHANGED sc_vars
     \/ SetCoverReduction

sc_all_vars == <<queue_vars, sc_vars>>

SetCoverSpec == SetCoverInit /\ [][SetCoverNext]_sc_all_vars

-----------------------------------------------------------------------------
(* Spec 4.E: the reduction ends; the while(1) loop of                      *)
(* set_cover_reduction_final finds a seed with gain until it has covered   *)
(* every global frontier edge.                                             *)
SetCoverTerminates == sc_status # "stuck"

(* Spec 7: the cover list never grows past its capacity of                 *)
(* MAX_NODES_PER_SEED entries (the FATAL check runs after the writes).     *)
CoverListWithinBound == Len(covered_seed_list) <= MaxNodesPerSeed

(* The edges the seeds before position k of a cover list leave uncovered. *)
LeftBefore(cl, k) == global_frontier \ UNION {ListEdges(cl[j]) : j \in 1 .. k - 1}

(* Spec 4.E: a completed reduction is the greedy cover.  When              *)
(* set_cover_reduction_final completes, its list names each seed once,     *)
(* covers every global frontier edge, and each seed it took had positive   *)
(* gain at least that of every candidate still unselected at that point:   *)
(* the swap-remove of unselected_seeds loses no candidate across the       *)
(* iterations of the while(1) loop.                                        *)
CoverGreedy ==
  [][SetCoverReduction /\ sc_status' = "done" /\ covered_seed_list' # <<>> =>
       LET cl == covered_seed_list'
           cands == {i \in Ids : queue_buf[i].cfnl # <<>>}
       IN /\ IsInjective(cl)
          /\ global_frontier \subseteq UNION {ListEdges(s) : s \in Range(cl)}
          /\ \A k \in 1 .. Len(cl) :
               /\ Gain(cl[k], LeftBefore(cl, k)) > 0
               /\ \A c \in cands \ Range(SubSeq(cl, 1, k - 1)) :
                    Gain(c, LeftBefore(cl, k)) <= Gain(cl[k], LeftBefore(cl, k))]_sc_all_vars

=============================================================================
