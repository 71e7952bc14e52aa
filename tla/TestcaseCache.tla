--------------------------- MODULE TestcaseCache ---------------------------
(***************************************************************************)
(* The testcase content cache of src/Minset_AFL++/src/afl-fuzz-queue.c:    *)
(* queue_testcase_get, queue_testcase_store_mem and the two retake         *)
(* functions called after a trim.                                          *)
(*                                                                         *)
(* A seed's testcase_buf is modelled by its allocated length (Null when    *)
(* not cached); file contents are left out.  q_testcase_cache is a         *)
(* function over the slots 0 .. Slots-1 of which the first cache_cap are   *)
(* allocated.  rand_below(n) returns 0 when n <= 1.  A step that would     *)
(* spin forever or touch a slot past the allocation ends the model in      *)
(* status "hung" or "oob".                                                 *)
(***************************************************************************)
EXTENDS Integers, FiniteSets, FiniteSetsExt

CONSTANTS
  Seeds,            \* queue entries (ids)
  Lens,             \* possible q->len values
  MaxCacheSize,     \* q_testcase_max_cache_size (bytes), > 0
  MaxEntries,       \* initial q_testcase_max_cache_entries = allocated slots
  Slots,            \* bound on slot indices the model can name
  AllowAllocFail,   \* whether realloc may fail in queue_testcase_retake_mem
  Null

ASSUME MaxCacheSize > 0 /\ MaxEntries >= 2 /\ Slots > MaxEntries

VARIABLES
  added,            \* seeds add_to_queue has created
  len,              \* q->len
  buf,              \* q->testcase_buf: Null or its allocated length
  cache,            \* q_testcase_cache[tid]
  cache_cap,        \* allocated length of q_testcase_cache
  cache_size, cache_count, max_count, smallest_free, max_entries,
  do_once,          \* the static do_once of queue_testcase_get
  queue_cur,
  status            \* "ok", "hung" or "oob"

cache_vars == <<added, len, buf, cache, cache_cap, cache_size, cache_count,
                max_count, smallest_free, max_entries, do_once, queue_cur, status>>

SlotIds == 0 .. Slots - 1

(* The part of the state the eviction loop and slot search work on. *)
St == [cache |-> cache, cap |-> cache_cap, size |-> cache_size, count |-> cache_count,
       maxcount |-> max_count, smallest |-> smallest_free, maxent |-> max_entries,
       once |-> do_once, buf |-> buf, tid |-> max_count, status |-> "ok"]

(* The cache is full for a testcase of length l. *)
FullNoCount(st, l) == st.size + l >= MaxCacheSize
Full(st, l) == st.size + l >= MaxCacheSize \/ st.count >= st.maxent - 1

(* Learning the entry limit once the cache first fills by size. *)
Shrink(st, l) ==
  IF st.size + l >= MaxCacheSize /\ st.count < st.maxent /\ st.maxcount < st.maxent /\ ~st.once
    THEN LET me == IF st.maxcount > st.count THEN st.maxcount + 1 ELSE st.count + 1
         IN [st EXCEPT !.maxent = me, !.once = TRUE, !.cap = me + 1]
    ELSE st

(* The slots rand_below(max_count) may return that the redraw accepts. *)
EvictableAny(st, cur) ==
  {t \in 0 .. (IF st.maxcount <= 1 THEN 0 ELSE st.maxcount - 1) : st.cache[t] # Null}
EvictableCur(st, cur) ==
  {t \in 0 .. (IF st.maxcount <= 1 THEN 0 ELSE st.maxcount - 1) :
     st.cache[t] # Null /\ st.cache[t] # cur}

EvictSlotNoHint(st, t) ==
  LET old == st.cache[t] IN
  [st EXCEPT !.buf[old] = Null, !.size = @ - len[old], !.cache[t] = Null,
             !.count = @ - 1, !.tid = t]
EvictSlot(st, t) ==
  LET old == st.cache[t] IN
  [st EXCEPT !.buf[old] = Null, !.size = @ - len[old], !.cache[t] = Null,
             !.count = @ - 1, !.tid = t,
             !.smallest = IF t < @ THEN t ELSE @]

(* The eviction while loop: every state it can end in. *)
RECURSIVE EvictLoop(_, _, _)
EvictLoop(st, l, cur) ==
  IF ~Full(st, l) THEN {st}
  ELSE LET st1 == Shrink(st, l)
           cands == EvictableCur(st1, cur)
       IN IF cands = {} THEN {[st1 EXCEPT !.status = "hung"]}
          ELSE UNION {EvictLoop(EvictSlot(st1, t), l, cur) : t \in cands}

(* while (q_testcase_cache[tid] != NULL) ++tid, or "oob" past the array. *)
FreeFromNoSkip(st, t) ==
  IF t >= st.cap THEN [st EXCEPT !.status = "oob"] ELSE [st EXCEPT !.tid = t]
RECURSIVE FreeFrom(_, _)
FreeFrom(st, t) ==
  IF t >= st.cap THEN [st EXCEPT !.status = "oob"]
  ELSE IF st.cache[t] = Null THEN [st EXCEPT !.tid = t]
  ELSE FreeFrom(st, t + 1)

(* Register q in slot st.tid and update the max_count / smallest_free hints. *)
RegisterNoMaxCount(st, q, l) ==
  LET t == st.tid IN
  [st EXCEPT !.cache[t] = q, !.buf[q] = l, !.size = @ + l, !.count = @ + 1,
             !.smallest = IF t < st.maxcount /\ t = @ THEN t + 1 ELSE @]
Register(st, q, l) ==
  LET t == st.tid IN
  [st EXCEPT !.cache[t] = q, !.buf[q] = l, !.size = @ + l, !.count = @ + 1,
             !.maxcount = IF t >= @ THEN t + 1 ELSE @,
             !.smallest = IF t < st.maxcount /\ t = @ THEN t + 1 ELSE @]

Commit(st) ==
  /\ cache' = st.cache /\ cache_cap' = st.cap /\ cache_size' = st.size
  /\ cache_count' = st.count /\ max_count' = st.maxcount
  /\ smallest_free' = st.smallest /\ max_entries' = st.maxent
  /\ do_once' = st.once /\ buf' = st.buf /\ status' = st.status

(* The size update of the two retake functions. *)
RetakeSizeStale(sz, nl, ol) == sz
RetakeSize(sz, nl, ol) == sz + nl - ol

-----------------------------------------------------------------------------
(***************************************************************************)
(* queue_testcase_get(q) while cur is queue_cur.  A cached q is returned   *)
(* as is.  Otherwise: evict until q fits, take the slot (the last evicted  *)
(* one, or max_count; smallest_free when that is past the entry limit),    *)
(* skip occupied slots, read the file and register q.                      *)
(***************************************************************************)
TestcaseGet(q, cur) ==
  IF buf[q] # Null
    THEN UNCHANGED <<buf, cache, cache_cap, cache_size, cache_count, max_count,
                     smallest_free, max_entries, do_once, status>>
    ELSE \E st1 \in EvictLoop(St, len[q], cur) :
           IF st1.status # "ok" THEN Commit(st1)
           ELSE LET st2 == IF st1.tid >= st1.maxent THEN [st1 EXCEPT !.tid = st1.smallest]
                           ELSE st1
                    st3 == FreeFrom(st2, st2.tid)
                IN Commit(IF st3.status # "ok" THEN st3 ELSE Register(st3, q, len[q]))

(***************************************************************************)
(* save_if_interesting: add_to_queue, then queue_testcase_store_mem.  The  *)
(* new seed is cached only if it fits; otherwise a later get loads it.     *)
(***************************************************************************)
AddAndStore(q) ==
  /\ q \notin added
  /\ \E l \in Lens :
       /\ added' = added \cup {q}
       /\ len' = [len EXCEPT ![q] = l]
       /\ IF Full(St, l)
            THEN UNCHANGED <<buf, cache, cache_cap, cache_size, cache_count, max_count,
                             smallest_free, max_entries, do_once, status>>
            ELSE LET st1 == [St EXCEPT !.tid = IF max_count >= max_entries THEN smallest_free
                                               ELSE max_count]
                     st2 == FreeFrom(st1, st1.tid)
                 IN Commit(IF st2.status # "ok" THEN st2 ELSE Register(st2, q, l))
  /\ UNCHANGED queue_cur

(* fuzz_one: q becomes queue_cur and its testcase is fetched. *)
FuzzOne(q) ==
  /\ q \in added
  /\ queue_cur' = q
  /\ TestcaseGet(q, q)
  /\ UNCHANGED <<added, len>>

(* Splicing fetches another seed's testcase while queue_cur's is in use. *)
Splice(q) ==
  /\ queue_cur # Null
  /\ q \in added \ {queue_cur}
  /\ TestcaseGet(q, queue_cur)
  /\ UNCHANGED <<added, len, queue_cur>>

(***************************************************************************)
(* trim_case shrinks queue_cur, whose buffer fuzz_one fetched, to nl and   *)
(* calls queue_testcase_retake_mem with that same buffer: the realloc may  *)
(* fail, which keeps the old buffer and the old accounting.                *)
(***************************************************************************)
TrimRetakeMem ==
  /\ queue_cur # Null
  /\ buf[queue_cur] # Null
  /\ \E nl \in Lens, ok \in (IF AllowAllocFail THEN BOOLEAN ELSE {TRUE}) :
       /\ nl < len[queue_cur]
       /\ len' = [len EXCEPT ![queue_cur] = nl]
       /\ IF ok THEN /\ buf' = [buf EXCEPT ![queue_cur] = nl]
                     /\ cache_size' = RetakeSize(cache_size, nl, len[queue_cur])
                ELSE UNCHANGED <<buf, cache_size>>
  /\ UNCHANGED <<added, cache, cache_cap, cache_count, max_count, smallest_free,
                 max_entries, do_once, queue_cur, status>>

(* A custom trimmer sets queue_cur's length to nl; queue_testcase_retake    *)
(* then reallocates the cached buffer (fatal on failure) and rereads it.   *)
TrimRetake ==
  /\ queue_cur # Null
  /\ \E nl \in Lens \ {len[queue_cur]} :
       /\ len' = [len EXCEPT ![queue_cur] = nl]
       /\ IF buf[queue_cur] # Null
            THEN /\ buf' = [buf EXCEPT ![queue_cur] = nl]
                 /\ cache_size' = RetakeSize(cache_size, nl, len[queue_cur])
            ELSE UNCHANGED <<buf, cache_size>>
  /\ UNCHANGED <<added, cache, cache_cap, cache_count, max_count, smallest_free,
                 max_entries, do_once, queue_cur, status>>

CacheInit ==
  /\ added = {} /\ len = [s \in Seeds |-> CHOOSE l \in Lens : TRUE]
  /\ buf = [s \in Seeds |-> Null] /\ cache = [t \in SlotIds |-> Null]
  /\ cache_cap = MaxEntries /\ cache_size = 0 /\ cache_count = 0
  /\ max_count = 0 /\ smallest_free = 0 /\ max_entries = MaxEntries
  /\ do_once = FALSE /\ queue_cur = Null /\ status = "ok"

CacheNext ==
  /\ status = "ok"
  /\ \/ \E q \in Seeds : AddAndStore(q) \/ FuzzOne(q) \/ Splice(q)
     \/ TrimRetakeMem
     \/ TrimRetake

CacheSpec == CacheInit /\ [][CacheNext]_cache_vars

-----------------------------------------------------------------------------
Cached == {q \in Seeds : buf[q] # Null}
Occupied == {t \in SlotIds : cache[t] # Null}

CacheTypeOK ==
  /\ added \subseteq Seeds
  /\ len \in [Seeds -> Lens]
  /\ buf \in [Seeds -> Lens \cup {Null}]
  /\ cache \in [SlotIds -> Seeds \cup {Null}]
  /\ cache_cap \in 1 .. Slots
  /\ cache_size \in Nat
  /\ cache_count \in 0 .. MaxEntries - 1    \* within the entry budget
  /\ max_count \in Nat /\ smallest_free \in Nat /\ max_entries \in Nat
  /\ do_once \in BOOLEAN
  /\ queue_cur \in added \cup {Null}
  /\ status \in {"ok", "hung", "oob"}

(* Spec 4.H: q_testcase_cache_size is the total length of the cached       *)
(* testcases, across gets, evictions, stores and both kinds of trim (an    *)
(* eviction subtracts the seed's current q->len).                          *)
CacheSizeExact == cache_size = MapThenSumSet(LAMBDA q : len[q], Cached)

(* A seed has a buffer exactly when one slot of the allocated array holds  *)
(* it, and q_testcase_cache_count counts those slots: no get or store      *)
(* overwrites an occupied slot or writes past the array.                   *)
SlotsConsistent ==
  /\ status # "oob"
  /\ \A q \in Seeds : Cardinality({t \in SlotIds : cache[t] = q}) = IF q \in Cached THEN 1 ELSE 0
  /\ \A t \in Occupied : t < cache_cap
  /\ cache_count = Cardinality(Occupied)

(* Spec 4.H's allocation hints: every slot below q_testcase_smallest_free  *)
(* is occupied and every slot from q_testcase_max_cache_count on is empty, *)
(* after evictions, the one-time shrink and searches from either hint.     *)
CacheHintsSound ==
  \A t \in SlotIds :
    /\ t < smallest_free => cache[t] # Null
    /\ t >= max_count => cache[t] = Null

(* Spec 4.H as a whole: under the cached set {q : testcase_buf != NULL},  *)
(* every get, store and trim of the slot-array cache is a step of the      *)
(* abstract SeedCache: a get ends with its seed cached after evicting only *)
(* seeds other than queue_cur, within both budgets; a store caches only a  *)
(* seed that fits; a trim never drops a buffer.                            *)
Abstract == INSTANCE SeedCache WITH cached <- Cached

CacheRefinement == Abstract!SeedCacheSpec

(* Spec 4.H: get evicts "repeating until one fits"; the do/while redraw    *)
(* of queue_testcase_get always finds a slot to evict and the loop ends.   *)
GetTerminates == status # "hung"

=============================================================================
