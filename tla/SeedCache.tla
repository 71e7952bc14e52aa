----------------------------- MODULE SeedCache -----------------------------
(***************************************************************************)
(* What the testcase cache promises (spec 4.H), without slots or hints: a  *)
(* set of cached seeds bounded by a byte budget and an entry budget.  A    *)
(* get returns with the requested seed cached, having evicted only seeds   *)
(* other than the one being fuzzed; a store caches the new seed only if it *)
(* fits and otherwise drops it; a trim reshapes the current seed in place. *)
(* TestcaseCache implements this specification (CacheRefinement).          *)
(***************************************************************************)
EXTENDS Integers, FiniteSets, FiniteSetsExt

CONSTANTS Seeds, Lens, MaxCacheSize, MaxEntries, Null

VARIABLES
  added,        \* seeds that exist in the queue
  len,          \* their lengths
  cached,       \* seeds whose content is held in memory
  queue_cur     \* the seed being fuzzed

seed_vars == <<added, len, cached, queue_cur>>

Bytes(S) == MapThenSumSet(LAMBDA q : len[q], S)

(* Both budgets: fewer bytes than the maximum and fewer entries than slots. *)
Fits(S) == Bytes(S) < MaxCacheSize /\ Cardinality(S) < MaxEntries

(* get(q) while cur is in use: q ends cached, only non-current seeds go. *)
Get(q, cur) ==
  IF q \in cached THEN UNCHANGED cached
  ELSE \E evicted \in SUBSET (cached \ {cur}) :
         /\ cached' = (cached \ evicted) \cup {q}
         /\ Fits(cached')

Store(q) ==
  /\ q \notin added
  /\ \E l \in Lens :
       /\ added' = added \cup {q}
       /\ len' = [len EXCEPT ![q] = l]
       /\ \/ cached' = cached \cup {q} /\ Fits(cached')
          \/ cached' = cached
  /\ UNCHANGED queue_cur

Select(q) ==
  /\ q \in added
  /\ queue_cur' = q
  /\ Get(q, q)
  /\ UNCHANGED <<added, len>>

Splice(q) ==
  /\ queue_cur # Null
  /\ q \in added \ {queue_cur}
  /\ Get(q, queue_cur)
  /\ UNCHANGED <<added, len, queue_cur>>

Trim ==
  /\ queue_cur # Null
  /\ \E nl \in Lens : len' = [len EXCEPT ![queue_cur] = nl]
  /\ UNCHANGED <<added, cached, queue_cur>>

SeedInit ==
  /\ added = {} /\ len \in [Seeds -> Lens]
  /\ cached = {} /\ queue_cur = Null

SeedNext == (\E q \in Seeds : Store(q) \/ Select(q) \/ Splice(q)) \/ Trim

SeedCacheSpec == SeedInit /\ [][SeedNext]_seed_vars

=============================================================================
