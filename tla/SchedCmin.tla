----------------------------- MODULE SchedCmin -----------------------------
(***************************************************************************)
(* Periodic corpus minimization (src/Cmin_AFL++/src/afl-sched-cmin.c)      *)
(* composed with the queue and culling of QueueCull.                       *)
(*                                                                         *)
(* sched_cmin_maybe_run runs on the fuzzer's single thread and blocks for  *)
(* the whole round, so one round is one atomic step over the queue.  The   *)
(* external afl-cmin is a nondeterministic choice of which snapshot        *)
(* contents it keeps; its file I/O fails or succeeds nondeterministically. *)
(* now_ms reads the wall clock, which may be set back once.                *)
(* A content hash is modelled by the content itself (hash64 with a fixed   *)
(* seed, taken as collision-free and non-zero).                            *)
(***************************************************************************)
EXTENDS QueueCull

CONSTANTS
  Interval,        \* SCHED_CMIN_INTERVAL_SEC, in clock ticks
  MaxTime,         \* bound on the clock
  AllowCopyFail,   \* whether copy_file_and_hash may fail for a seed
  AllowReadFail,   \* whether collect_keep_hashes may fail to read a kept file
  AllowStepBack    \* whether the wall clock may be set back (once)

VARIABLES
  cmin_inited,     \* g_cmin_inited
  cmin_last,       \* g_cmin_last_ms
  now,             \* now_ms()
  stepped,         \* the wall clock has been set back
  cmin_kept        \* history: the contents afl-cmin kept in the last applied round

cmin_vars == <<cmin_inited, cmin_last, now, stepped, cmin_kept>>
vars == <<queue_vars, cmin_vars>>

(* snapshot_queue_copy: the non-disabled seeds, less those whose copy    *)
(* (or case-file name test) failed.                                        *)
Snapshot(failed) == Active \ failed

(* The seeds whose copy_file_and_hash fails (open, read or write).  *)
CopyFails == IF AllowCopyFail THEN SUBSET Active ELSE {{}}

(* The output files read_entire_file cannot read back. *)
ReadFails(out) == IF AllowReadFail THEN SUBSET out ELSE {{}}

(* What afl-cmin leaves in its output directory: copies of some of the     *)
(* snapshot's files, at most one per content.                              *)
KeepSets(snap) == SUBSET {queue_buf[i].content : i \in snap}

(* collect_keep_hashes: the deduplicated hashes of the output files, less   *)
(* those of files read_entire_file could not read (skipped by continue).   *)
Collect(out, unread) == out \ unread

(* An entry is kept when keep_index finds its hash and that slot is unused. *)
KeepsNoSlot(keep, used, h) == h \in keep
Keeps(keep, used, h) == h \in keep /\ h \notin used

(* The recount of pending_not_fuzzed and pending_favored after the filter. *)
RecountAll(buf) ==
  [pnf |-> Cardinality({i \in DOMAIN buf : ~buf[i].was_fuzzed}),
   pf  |-> Cardinality({i \in DOMAIN buf : buf[i].favored /\ ~buf[i].was_fuzzed})]
Recount(buf) ==
  LET live == {i \in DOMAIN buf : ~buf[i].disabled} IN
  [pnf |-> Cardinality({i \in live : ~buf[i].was_fuzzed}),
   pf  |-> Cardinality({i \in live : buf[i].favored /\ ~buf[i].was_fuzzed})]

(***************************************************************************)
(* apply_filter_to_snapshot: walk the snapshot in queue order; an entry    *)
(* that Keeps is enabled and consumes its slot, every other entry is       *)
(* disabled.  Then cull_queue (a no-op unless score_changed) and the       *)
(* recount.  active_items is left as it was.                               *)
(***************************************************************************)
ApplyFilter(snap, keep) ==
  LET Step(st, i) ==
        LET h == st.buf[i].content IN
        IF Keeps(keep, st.used, h)
          THEN [buf |-> [st.buf EXCEPT ![i].disabled = FALSE], used |-> st.used \cup {h}]
          ELSE [buf |-> [st.buf EXCEPT ![i].disabled = TRUE], used |-> st.used]
      filtered == FoldLeft(Step, [buf |-> queue_buf, used |-> {}], Sorted(snap)).buf
      culled == IF score_changed
                  THEN Cull(filtered, top_rated)
                  ELSE [buf |-> filtered, qf |-> queued_favored,
                        pf |-> pending_favored, sf |-> smallest_favored]
      counts == Recount(culled.buf)
  IN /\ queue_buf' = culled.buf
     /\ queued_favored' = culled.qf
     /\ smallest_favored' = culled.sf
     /\ score_changed' = FALSE
     /\ pending_not_fuzzed' = counts.pnf
     /\ pending_favored' = counts.pf

(* First call: record the time and return. *)
SchedCminFirstCall ==
  /\ cal_pending = Null
  /\ ~cmin_inited
  /\ cmin_inited' = TRUE
  /\ cmin_last' = now
  /\ UNCHANGED <<queue_vars, now, stepped, cmin_kept>>

(***************************************************************************)
(* The part of a round that applies a keep set.  A seed whose              *)
(* copy_file_and_hash fails is left out of the snapshot and the round goes *)
(* on without it; afl-cmin keeps some subset of the snapshot's contents.   *)
(***************************************************************************)
SchedCminApply ==
  \E failed \in CopyFails :
    LET snap == Snapshot(failed) IN
    /\ snap # {}
    /\ \E out \in KeepSets(snap) :
         \E unread \in ReadFails(out) :
           /\ ApplyFilter(snap, Collect(out, unread))
           /\ cmin_kept' = out
    /\ UNCHANGED <<queued_items, active_items, top_rated, global_frontier,
                   global_frontier_count, cal_pending, rescores>>

(* The gate: now - g_cmin_last_ms < SCHED_CMIN_INTERVAL_SEC*1000 returns.  *)
(* The difference is u64: after the clock was set back below              *)
(* g_cmin_last_ms it wraps to at least 2^64 - MaxTime, past any interval.  *)
IntervalElapsed == now < cmin_last \/ now - cmin_last >= Interval

(***************************************************************************)
(* A round: the interval has elapsed.  The round leaves the queue alone    *)
(* when mkdtemp fails, when no seed could be snapshotted, when afl-cmin    *)
(* exits abnormally or when the keep set cannot be collected; otherwise    *)
(* it applies the keep set.  The round blocks while afl-cmin runs, and     *)
(* g_cmin_last_ms is the time read after it, in every case.                *)
(***************************************************************************)
SchedCminRound ==
  /\ cal_pending = Null
  /\ cmin_inited
  /\ IntervalElapsed
  /\ \/ UNCHANGED <<queue_vars, cmin_kept>>
     \/ SchedCminApply
  /\ \E t \in now .. MaxTime : now' = t /\ cmin_last' = t
  /\ UNCHANGED <<cmin_inited, stepped>>

(* The wall clock advances. *)
Tick ==
  /\ now < MaxTime
  /\ now' = now + 1
  /\ UNCHANGED <<queue_vars, cmin_inited, cmin_last, stepped, cmin_kept>>

(* The wall clock is set back (an NTP step or a manual change). *)
StepBack ==
  /\ AllowStepBack /\ ~stepped
  /\ \E t \in 0 .. now - 1 : now' = t
  /\ stepped' = TRUE
  /\ UNCHANGED <<queue_vars, cmin_inited, cmin_last, cmin_kept>>

Init ==
  /\ QueueInit
  /\ cmin_inited = FALSE /\ cmin_last = 0 /\ now = 0
  /\ stepped = FALSE /\ cmin_kept = {}

Next ==
  \/ QueueNext /\ UNCHANGED cmin_vars
  \/ SchedCminFirstCall
  \/ SchedCminRound
  \/ Tick
  \/ StepBack

Spec == Init /\ [][Next]_vars

-----------------------------------------------------------------------------
(* Spec 4.I, 7 and 8: a round that applies afl-cmin's result leaves        *)
(* active exactly one seed per content afl-cmin kept and none of any other *)
(* content (the snapshot, collect_keep_hashes and apply_filter_to_snapshot *)
(* with its keep_used slots together; a seed whose copy failed escapes the *)
(* filter, a kept file that cannot be read loses its content).             *)
MinimizationExact ==
  [][(SchedCminRound /\ SchedCminApply)
       => /\ {queue_buf'[i].content : i \in Active'} = cmin_kept'
          /\ \A i, j \in Active' : i # j => queue_buf'[i].content # queue_buf'[j].content]_vars

=============================================================================
