----------------------------- MODULE AliasTable -----------------------------
(***************************************************************************)
(* The weighted seed sampler of src/Minset_AFL++/src/afl-fuzz-queue.c:     *)
(* create_alias_table (Vose's alias method) and select_next_queue_entry.   *)
(*                                                                         *)
(* compute_weight's product of logarithmic ratios (clamped to at least    *)
(* 0.1) is abstracted to a positive integer, its flag multipliers and its *)
(* 0/0 are exact; perf_score is calculate_score of PerfScore over the      *)
(* entry's attributes.  The doubles P[i] = w*n/sum are kept exact: every   *)
(* probability is a numerator over the unit U, the sum of the active       *)
(* weights or scores (1 when there are none or the sum is NaN).  Rounding  *)
(* of P is not modelled.                                                   *)
(***************************************************************************)
EXTENDS Integers, Sequences, SequencesExt, FiniteSets, FiniteSetsExt, PerfScore

CONSTANTS
  MaxN,            \* bound on queued_items
  Weights,         \* the positive weights compute_weight may return
  Schedules,       \* the power schedules afl->schedule may be set to
  MaxDiscovered,   \* bound on queued_discovered
  Handicaps,       \* the q->handicap values a new entry may start with
  Attrs,           \* the calculate_score inputs an entry may have (PerfScore)
  Globals,         \* the global inputs of calculate_score (PerfScore's g)
  Null

ASSUME Weights \subseteq Nat \ {0} /\ MaxN >= 1

VARIABLES
  schedule,        \* afl->schedule, fixed for the run
  n,               \* queued_items
  weight,          \* compute_weight's clamped product of ratios for each entry
  disabled,        \* q->disabled
  handicap,        \* q->handicap
  attr,            \* the entry's other calculate_score inputs
  perf,            \* q->perf_score
  discovered,      \* queued_discovered
  prob,            \* alias_probability[i], a numerator over U
  alias,           \* alias_table[i]
  unit,            \* the U the table was built with (1.0 of prob)
  reinit,          \* reinit_table
  drawn            \* the entry select_next_queue_entry last returned

alias_vars == <<schedule, n, weight, disabled, handicap, attr, perf, discovered, prob, alias, unit, reinit, drawn>>

Idx == 0 .. n - 1
Live == {i \in Idx : ~disabled[i]}

(* P[i] computed from a NaN weight.  Every comparison with it is false    *)
(* and every difference with it is NaN.                                    *)
NaN == -1
Below(x, u) == x # NaN /\ x < u

(* avg_top_size is 0 when no live entry holds a top-rated edge, and        *)
(* avg_bitmap_size is 0 when every live bitmap_size is 1 (log 1 = 0);      *)
(* then tc_ref / avg_top_size or log(bitmap_size) / avg_bitmap_size is     *)
(* 0/0, and NaN passes the < 0.1 clamp and every multiplier.               *)
WeightNaN ==
  \/ MapThenSumSet(LAMBDA i : attr[i].tc_ref, Live) = 0
  \/ \A i \in Live : attr[i].bitmap_size = 1

(* compute_weight in fifths: the clamped product, x5 for a favored entry,  *)
(* x2 for one never fuzzed, x0.8 for a redundant one.                      *)
ComputeWeight(i) ==
  weight[i] * (IF attr[i].fs_redundant THEN 4 ELSE 5)
    * (IF attr[i].favored THEN 5 ELSE 1) * (IF attr[i].was_fuzzed THEN 1 ELSE 2)

(* sum: the weights of the non-disabled entries, taken before MMOPT's      *)
(* doubling; U is the numerator of 1.0.                                    *)
WeightSum == MapThenSumSet(LAMBDA i : ComputeWeight(i), Live)
U == IF WeightSum = 0 THEN 1 ELSE WeightSum

(* MMOPT doubles the weights of the last min(5, queued_discovered)         *)
(* entries after sum has been taken.                                       *)
Boosted ==
  IF schedule = "MMOPT" /\ discovered > 0
    THEN LET cnt == IF discovered >= 5 THEN 5 ELSE discovered
         IN [i \in Idx |-> IF i >= n - cnt /\ ~disabled[i] THEN 2 * ComputeWeight(i)
                                                           ELSE ComputeWeight(i)]
    ELSE [i \in Idx |-> ComputeWeight(i)]

(* The inputs calculate_score reads for entry i.  COE's fuzz_mu is the     *)
(* mean of log2(n_fuzz) over the active entries.                           *)
SeedRec(i) ==
  [handicap |-> handicap[i],
   coe_gt |-> Log2(attr[i].n_fuzz) * Cardinality(Live)
                > MapThenSumSet(LAMBDA j : Log2(attr[j].n_fuzz), Live)] @@ attr[i]

(* The perf_score every entry may hold after the rebuild: calculate_score  *)
(* runs for each live entry in both branches; a disabled one keeps its.   *)
Scores(i) == IF disabled[i] THEN {perf[i]} ELSE CalculateScore(schedule, SeedRec(i), Globals)
ScoreChoices == {f \in [Idx -> UNION {Scores(i) : i \in Idx}] : \A i \in Idx : f[i] \in Scores(i)}

(* The rare branch: sum and P come from perf_score. *)
RareSum(ps) == MapThenSumSet(LAMBDA i : ps[i], Live)

(* P[i] = weight * n / sum, 0 for a disabled entry (its weight is stale). *)
PIgnoreDisabled(w) == [i \in Idx |-> w[i] * n]
PInit(w) == [i \in Idx |-> IF disabled[i] THEN 0 ELSE w[i] * n]
PNaN == [i \in Idx |-> IF disabled[i] THEN 0 ELSE NaN]

(* The first loop: j from n-1 down to 0 onto Small (P < 1) or Large.       *)
(* Both arrays are stacks; the last element of each sequence is the top.   *)
Split(P, u) ==
  LET desc == [k \in 1 .. n |-> n - k] IN
  [small |-> SelectSeq(desc, LAMBDA j : Below(P[j], u)),
   large |-> SelectSeq(desc, LAMBDA j : ~Below(P[j], u))]

(* P[large] - (1 - P[small]) *)
RemainderSwapped(pl, ps, u) == IF pl = NaN THEN NaN ELSE (u - ps) - pl
Remainder(pl, ps, u) == IF pl = NaN THEN NaN ELSE pl - (u - ps)

(***************************************************************************)
(* while (nSmall && nLarge != n - 1): pop a small and a large entry, give  *)
(* the small one its probability and the large one as alias, charge the   *)
(* large one and push it back on the stack its new P belongs to.           *)
(***************************************************************************)
RECURSIVE Pair(_)
Pair(r) ==
  IF r.small = <<>> \/ r.large = <<>> THEN r
  ELSE LET sm == Last(r.small)
           lg == Last(r.large)
           pl == Remainder(r.P[lg], r.P[sm], r.u)
           r1 == [r EXCEPT !.prob[sm] = r.P[sm], !.alias[sm] = lg, !.P[lg] = pl,
                           !.small = Front(@), !.large = Front(@)]
       IN Pair(IF Below(pl, r.u) THEN [r1 EXCEPT !.small = Append(@, lg)]
                           ELSE [r1 EXCEPT !.large = Append(@, lg)])

(* The two trailing loops give every entry left on a stack probability 1. *)
LeftoverSmallOnly(r) ==
  [i \in Idx |-> IF i \in Range(r.small) THEN r.u ELSE r.prob[i]]
Leftover(r) ==
  [i \in Idx |-> IF i \in Range(r.small) \cup Range(r.large) THEN r.u ELSE r.prob[i]]

(***************************************************************************)
(* create_alias_table: the scores and weights of the live entries (the     *)
(* weight branch below RARE, perf_score from RARE on), P, the split, the   *)
(* pairing loop and the leftovers; compute_weight's 0/0 makes every live   *)
(* P NaN; calculate_score spends each live entry's handicap; the arrays    *)
(* start zeroed (memset) and reinit_table is cleared.                      *)
(***************************************************************************)
CreateAliasTable ==
  /\ reinit
  /\ \E ps \in ScoreChoices :
       LET below == schedule \in BelowRare
           sum == IF below THEN WeightSum ELSE RareSum(ps)
           nan == below /\ WeightNaN
           u == IF sum = 0 \/ nan THEN 1 ELSE sum
           P == IF nan THEN PNaN ELSE PInit(IF below THEN Boosted ELSE ps)
           s == Split(P, u)
           r == Pair([P |-> P, u |-> u, prob |-> [i \in Idx |-> 0], alias |-> [i \in Idx |-> 0],
                      small |-> s.small, large |-> s.large])
       IN /\ prob' = Leftover(r)
          /\ alias' = r.alias
          /\ unit' = u
          /\ perf' = ps
  /\ handicap' = [i \in Idx |-> IF disabled[i] THEN handicap[i] ELSE HandicapStep(handicap[i])]
  /\ reinit' = FALSE
  /\ UNCHANGED <<schedule, n, weight, disabled, attr, discovered, drawn>>

(***************************************************************************)
(* select_next_queue_entry: s = rand_below(n), p in [0, 1); s when         *)
(* p < alias_probability[s], else alias_table[s].  Each outcome is         *)
(* possible exactly when its interval of p is non-empty.                   *)
(***************************************************************************)
SelectNextQueueEntry ==
  /\ ~reinit
  /\ \E s \in Idx :
       \/ prob[s] > 0 /\ drawn' = s
       \/ prob[s] < unit /\ drawn' = alias[s]
  /\ UNCHANGED <<schedule, n, weight, disabled, handicap, attr, perf, discovered, prob, alias, unit, reinit>>

(* A minimization round disables an entry and sets reinit_table. *)
Disable ==
  /\ \E i \in Live :
       /\ disabled' = [disabled EXCEPT ![i] = TRUE]
       /\ reinit' = TRUE
  /\ UNCHANGED <<schedule, n, weight, handicap, attr, perf, discovered, prob, alias, unit, drawn>>

AliasInit ==
  /\ schedule \in Schedules
  /\ n \in 1 .. MaxN
  /\ weight \in [Idx -> Weights]
  /\ disabled \in [Idx -> BOOLEAN]
  /\ handicap \in [Idx -> Handicaps]
  /\ attr \in [Idx -> Attrs]
  /\ perf = [i \in Idx |-> 0]
  /\ discovered \in 0 .. MaxDiscovered
  /\ prob = [i \in Idx |-> 0] /\ alias = [i \in Idx |-> 0] /\ unit = 1
  /\ reinit = TRUE
  /\ drawn = Null

AliasNext == CreateAliasTable \/ SelectNextQueueEntry \/ Disable

AliasSpec == AliasInit /\ [][AliasNext]_alias_vars

-----------------------------------------------------------------------------
AliasTypeOK ==
  /\ n \in 1 .. MaxN
  /\ handicap \in [Idx -> Nat]
  /\ unit \in Nat \ {0}
  /\ prob \in [Idx -> 0 .. unit] /\ alias \in [Idx -> Idx]
  /\ drawn \in Idx \cup {Null}

(* The probability, in units of 1/(n*unit), that a draw returns i: its own    *)
(* column's share plus the shares of the columns that alias to it.         *)
Mass(i) == prob[i] + MapThenSumSet(LAMBDA s : unit - prob[s], {s \in Idx : alias[s] = i})

(* The weights the last rebuild used: compute_weight's (with MMOPT's      *)
(* boost) below RARE, perf_score from RARE on.                             *)
TableWeights == IF schedule \in BelowRare THEN Boosted ELSE perf
TableSum == IF schedule \in BelowRare THEN WeightSum ELSE RareSum(perf)

(* Spec 4.G: once the table is built, each live entry is drawn with        *)
(* probability proportional to the weight or score create_alias_table      *)
(* computed for it, and a disabled entry with probability 0; under RARE    *)
(* the scores change from rebuild to rebuild as calculate_score spends     *)
(* the handicap.                                                           *)
AliasDistributionExact ==
  ~reinit /\ TableSum > 0 =>
    LET B == TableWeights
        total == MapThenSumSet(LAMBDA i : B[i], Live)
    IN \A i \in Idx : Mass(i) * total = (IF disabled[i] THEN 0 ELSE B[i]) * n * unit

(* Spec 4.G: while any entry is live, select_next_queue_entry never        *)
(* returns a disabled one (it only draws from a table rebuilt since the    *)
(* last disabling).                                                        *)
SelectNeverDisabled ==
  [][SelectNextQueueEntry /\ Live # {} => ~disabled[drawn']]_alias_vars

=============================================================================
