----------------------------- MODULE PerfScore -----------------------------
(***************************************************************************)
(* calculate_score of src/Minset_AFL++/src/afl-fuzz-queue.c: the u32       *)
(* perf_score of one queue entry, and the handicap it spends.              *)
(*                                                                         *)
(* perf_score is a u32 that is multiplied by doubles: each `perf_score *=  *)
(* x` is the truncation of an exact product, except that when x is not a   *)
(* binary fraction (0.8, 4.6, 1 - n_fuzz/total_execs, ...) and the exact  *)
(* product is a whole number, the double product may land just below it   *)
(* and truncate one lower; both outcomes are kept, so the operator returns *)
(* the set of scores the build can produce.  The bucket comparisons are    *)
(* exact.  n_fuzz values are powers of two, so log2 is exact.              *)
(*                                                                         *)
(* q: [exec_us, bitmap_size, depth, tc_ref, n_fuzz, fuzz_level, favored,   *)
(*     handicap, coe_gt], where coe_gt is COE's test log2(n_fuzz) >       *)
(*     fuzz_mu over the active queue;  g: [avg_exec_us, avg_bitmap_size,   *)
(*     fixed_seed, max_depth, total_execs, limit_time_sig, havoc_max_mult]. *)
(***************************************************************************)
EXTENDS Integers

(* The power schedules in the order of afl-fuzz.h's enum, as the ranges    *)
(* the code tests: schedule < RARE, and EXPLOIT <= schedule <= QUAD.       *)
BelowRare == {"EXPLORE", "MMOPT", "EXPLOIT", "FAST", "COE", "LIN", "QUAD"}
FactorSchedules == {"EXPLOIT", "FAST", "COE", "LIN", "QUAD"}

MaxFactorPct == 3200        \* MAX_FACTOR = POWER_BETA * 32, in hundredths

(* (u32)log2(x) for x >= 1. *)
Log2(x) == CHOOSE k \in 0 .. 31 : 2^k <= x /\ x < 2^(k + 1)

(* num/den is a binary fraction, so the double holds it exactly. *)
ExactFraction(num, den) == \E k \in 0 .. 12 : (num * 2^k) % den = 0

(* (u32)(p * (num/den)) with the double rounding at whole products. *)
TruncMul(p, num, den) ==
  LET e == (p * num) \div den IN
  IF (p * num) % den = 0 /\ e > 0 /\ ~ExactFraction(num, den) THEN {e, e - 1} ELSE {e}

(* Execution speed against the global average (schedule < RARE and no    *)
(* fixed seed): x * 0.1 > avg, x * 0.25 > avg, ... in the code's order.    *)
SpeedScore(s, q, g) ==
  LET x == q.exec_us
      a == g.avg_exec_us
  IN IF s \notin BelowRare \/ g.fixed_seed THEN 100
     ELSE CASE x > 10 * a    -> 10
            [] x > 4 * a     -> 25
            [] x > 2 * a     -> 50
            [] 3 * x > 4 * a -> 75
            [] 4 * x < a     -> 300
            [] 3 * x < a     -> 200
            [] 2 * x < a     -> 150
            [] OTHER         -> 100

(* The bitmap-size factor as num/den: b * 0.3 > avg gives 3, ...; every   *)
(* factor here is a binary fraction.                                       *)
BitmapFactor(q, g) ==
  LET b == q.bitmap_size
      a == g.avg_bitmap_size
  IN CASE 3 * b > 10 * a -> <<3, 1>>
       [] b > 2 * a      -> <<2, 1>>
       [] 3 * b > 4 * a  -> <<3, 2>>
       [] 3 * b < a      -> <<1, 4>>
       [] 2 * b < a      -> <<1, 2>>
       [] 3 * b < 2 * a  -> <<3, 4>>
       [] OTHER          -> <<1, 1>>

(* The handicap: x4 while at least 4 remain (spending 4), else x2 (one). *)
HandicapMult(h) == IF h >= 4 THEN 4 ELSE IF h > 0 THEN 2 ELSE 1
HandicapStep(h) == IF h >= 4 THEN h - 4 ELSE IF h > 0 THEN h - 1 ELSE 0

DepthMult(d) ==
  CASE d <= 3 -> 1 [] d <= 7 -> 2 [] d <= 13 -> 3 [] d <= 25 -> 4 [] OTHER -> 5

(* FAST's factor in hundredths from the log2(n_fuzz) bucket; a favored     *)
(* seed keeps the bonus buckets and gets x1.15.                            *)
FastFactor(q) ==
  LET l == Log2(q.n_fuzz)
      base == CASE l <= 1 -> 400 [] l <= 3 -> 300 [] l = 4 -> 200 [] l = 5 -> 100
                [] l = 6 -> IF q.favored THEN 100 ELSE 80
                [] l = 7 -> IF q.favored THEN 100 ELSE 60
                [] OTHER -> IF q.favored THEN 100 ELSE 40
  IN IF q.favored THEN (base * 115) \div 100 ELSE base

(* The schedule's factor in hundredths (the switch on afl->schedule); an   *)
(* unfuzzed seed keeps 1.0.  LIN and QUAD divide u32 by u32.               *)
ScheduleFactor(s, q, g) ==
  CASE s = "EXPLOIT" -> MaxFactorPct
    [] s \in {"FAST", "COE"} /\ q.fuzz_level = 0 -> 100
    [] s = "COE" /\ q.coe_gt -> IF q.favored THEN 100 ELSE 0
    [] s \in {"FAST", "COE"} -> FastFactor(q)
    [] s = "LIN" /\ q.fuzz_level > 0 -> 100 * (q.fuzz_level \div (q.n_fuzz + 1))
    [] s = "QUAD" /\ q.fuzz_level > 0 ->
         100 * ((q.fuzz_level * q.fuzz_level) \div (q.n_fuzz + 1))
    [] OTHER -> 100

(* The scores after the schedule switch: MMOPT's and RARE's own steps,     *)
(* then factor / POWER_BETA for EXPLOIT .. QUAD (factor capped).           *)
AfterSchedule(s, q, g, p) ==
  CASE s = "MMOPT" -> {IF g.max_depth - q.depth < 5 THEN 2 * p ELSE p}
    [] s = "RARE" -> TruncMul(p + 10 * q.tc_ref, g.total_execs - q.n_fuzz, g.total_execs)
    [] s \in FactorSchedules ->
         LET f == ScheduleFactor(s, q, g)
         IN TruncMul(p, IF f > MaxFactorPct THEN MaxFactorPct ELSE f, 100)
    [] OTHER -> {p}

FinalScore(s, q, g, p) ==
  LET p1 == IF g.limit_time_sig /\ g.max_depth - q.depth < 3 THEN 2 * p
            ELSE IF s # "COE" /\ p < 1 THEN 1 ELSE p
  IN IF p1 > g.havoc_max_mult * 100 THEN g.havoc_max_mult * 100 ELSE p1

(* calculate_score: every perf_score it can return for q. *)
CalculateScore(s, q, g) ==
  LET bf == BitmapFactor(q, g)
      p0 == (SpeedScore(s, q, g) * bf[1]) \div bf[2]
      p1 == p0 * HandicapMult(q.handicap) * DepthMult(q.depth)
  IN {FinalScore(s, q, g, p) : p \in AfterSchedule(s, q, g, p1)}

=============================================================================
