# TLA+ models of the RandSet seed scheduler

This directory holds TLA+ models of the seed-scheduling core of RandSet. The
code is an AFL++ fork with two additions:

- `src/Minset_AFL++/src/afl-fuzz-queue.c` keeps the queue, the top-rated table
  and the favored culling, the frontier lists and the frontier set-cover
  reduction.
- `src/Cmin_AFL++/src/afl-sched-cmin.c` runs `afl-cmin` over the live corpus
  every few minutes and disables the seeds it drops.

The models are checked with TLC.

## 1. The system and its parts

| Part | Code | State | Operations | Module |
|---|---|---|---|---|
| Queue store | `add_to_queue`, flags | `queue_buf`, `queued_items`, `active_items`, `pending_not_fuzzed`, `pending_favored`, `queued_favored`, `smallest_favored` | append; disable / enable; fuzz_one marks `was_fuzzed` | `QueueCull` |
| Top-rated table | `update_bitmap_score` | `top_rated[edge]`, per-seed `tc_ref`, `trace_mini`, `score_changed` | score a seed on a trace | `QueueCull` |
| Favored culling | `cull_queue`, `mark_as_redundant` | `favored`, `fs_redundant` | cull when `score_changed` | `QueueCull` |
| Frontier lists | `update_bitmap_score` (the `if (true)` block) | per-seed `covered_frontier_node_list`, `global_frontier_bitmap` and its count | written on every scoring | `QueueCull` |
| Set-cover scheduler | `cull_queue_new` -> `set_cover_reduction_final` | `set_covered`, `set_covered_seed_list`, `set_favored_id` | greedy cover of the global frontier | `SetCover` |
| Alias sampler | `create_alias_table`, `select_next_queue_entry` | `alias_probability`, `alias_table`, `reinit_table`, `handicap` | rebuild, draw | `AliasTable` (and the support in `QueueCull!Selectable`) |
| Periodic minimization | `sched_cmin_maybe_run` and helpers | `g_cmin_inited`, `g_cmin_last_ms`, clock | gate, snapshot, run afl-cmin, collect, apply | `SchedCmin` |
| Weight / score | `compute_weight`, `calculate_score` | `weight`, `perf_score`, `handicap` | formulas | `calculate_score` in `PerfScore` (used by `AliasTable`); `compute_weight` abstracted to positive integers |
| Testcase cache | `queue_testcase_get`, `..._store_mem`, `..._retake` | cache slots, byte budget, entry limit, hints | load, evict, store, retake | `TestcaseCache`, refining `SeedCache` |
| LLVM passes, harnesses | `libafl_cc/src/*.cc`, fuzz targets | none of the scheduler's | compile time | not modelled |

How the parts interact:

- **Discovery and calibration.** A new seed is appended by `add_to_queue`. The calibration that follows calls `update_bitmap_score`. That ranks the seed against each edge's incumbent and moves references and `trace_mini` masks. It also writes the seed's frontier list and the global frontier bitmap.
- **Culling.** `cull_queue` turns the top-rated table into the favored set and recounts `pending_favored`.
- **Set cover.** `cull_queue_new` runs the set-cover reduction over the frontier lists.
- **Minimization.** Every `SCHED_CMIN_INTERVAL_SEC` the minimization pass takes a snapshot of the active seeds and runs afl-cmin on it. It disables every seed afl-cmin did not keep (one per content hash), then calls `cull_queue` and recounts the pending counters.
- **Sampling.** `cull_queue` and a minimization round set `reinit_table`. The next selection rebuilds the alias table, calling `compute_weight` and `calculate_score` for every live seed, and then draws from it.
- **Caching.** `fuzz_one` fetches `queue_cur`'s testcase through the cache. Splicing fetches a second one while the first is in use. A trim rewrites the cached buffer. A new seed is stored if it fits.
- **Single thread.** Everything runs on the fuzzer's one thread (spec §5). A minimization round blocks the fuzzer, so each handler is one atomic step of the model.

Hard behaviours this code is exposed to, which are the hazards in
`PROJECT.json`:

- **Long sequences of legal calls.** Discover, re-calibrate, cull, fuzz and minimize, in any order, must keep the following in step with the table: the reference counts, the `trace_mini` masks, the pending counters and the frontier lists.
- **Partial failure in a minimization round.** A copy can fail for one seed. afl-cmin can fail. The keep set can be unreadable.
- **Boundaries.** Ties in the ranking; `MAX_NODES_PER_SEED` for the frontier lists and for the cover array; every seed disabled.
- **Termination of the greedy loop** in `set_cover_reduction_final` and of the cache's eviction redraw loop.
- **Accounting across many calls.** The cache's byte count, entry count and two slot hints must stay right through evictions, the one-time shrink of the entry limit and trims that change a cached seed's length.
- **Normalisation.** `P[i] = w*n/sum` must use the sum of the weights actually used.

## 2. Modules

- **`QueueCull.tla`** covers the queue, `update_bitmap_score`, `cull_queue` and `add_to_queue`.
  - A trace is the set of edges hit, and `trace_mini` is that set or `Null` once freed. Bit arrays are abstracted to sets; the rest of the control is kept: the ascending edge walk, the two `continue`s, release-then-claim, the `temp_v` walk and `mark_as_redundant`.
  - Actions: `AddToQueue`, `CalibrateNew` (the calibration that must follow an addition, taken as a separate step because nothing else runs in between), `Recalibrate` (a later re-scoring of an existing seed: a trim may have shortened `len` and the calibration re-measures `exec_us`, so both may change before `update_bitmap_score` runs), `CullQueue` and `FuzzOne`.
  - The two calibration actions and `FuzzOne` model code outside `src/` and are taken from the spec; the map marks them `spec_modelled`.
  - `Selectable` is the set of seeds the alias table can return. That is the active seeds, or every index when all seeds are disabled: then `P[i] = 0` for all, every index lands in `Small` and gets probability 1.
  - The model assumes set-cover scheduling is on. The frontier block runs unconditionally, but the list is only allocated under `use_set_cover_scheduling`, so with it off line 767 writes through NULL.
- **`SchedCmin.tla`** (EXTENDS `QueueCull`) adds the clock, `g_cmin_inited`, `g_cmin_last_ms`, whether the clock has stepped back, and `cmin_kept`, a history variable holding the contents afl-cmin kept in the last applied round.
  - `Tick` advances the wall clock. `StepBack` sets it back once, when `AllowStepBack` is TRUE (`now_ms` reads `gettimeofday`). `IntervalElapsed` takes a clock behind `g_cmin_last_ms` as elapsed, because `now - g_cmin_last_ms` wraps as a u64 to at least `2^64 - MaxTime`.
  - A round ends by stamping `g_cmin_last_ms` with a fresh `now_ms()`, which may be later than the time the gate read.
  - `SchedCminFirstCall` models the first call, which only records the time.
  - `SchedCminRound` models a round. Either a failure path leaves the queue alone (mkdtemp, empty snapshot, afl-cmin exit status, keep-set collection), or `SchedCminApply` applies the keep set.
  - The snapshot leaves out any subset of seeds whose copy fails, when `AllowCopyFail` is TRUE.
  - afl-cmin is modelled as an arbitrary subset of the snapshot's contents (`KeepSets`). Hashes are the contents themselves: injective and non-zero.
  - `collect_keep_hashes` skips files it cannot read. With `AllowReadFail` TRUE any subset of the kept files goes unread (`ReadFails`, `Collect`).
  - `ApplyFilter` follows `apply_filter_to_snapshot`: the keep slots, `cull_queue`, then the recount. Like the code, it leaves `active_items` and `top_rated` alone (a stale `active_items` is recorded as a hazard: nothing in `src/` reads it).
- **`SetCover.tla`** (EXTENDS `QueueCull`) adds `set_covered`, the cover list, `set_favored_id` and the outcome of the last reduction.
  - `GreedyCover` is the `while(1)` loop as a RECURSIVE operator, with these parts of the code: first-maximum selection (`gain > max_gain`), swap-remove (`SwapRemove`) and the exit on `covered == global count`.
  - `Candidates` is every seed with a non-empty list, disabled seeds included, as in the code (line 1487).
  - When no candidate has gain, the code reads `unselected_seeds[-1]`. It then crashes or loops forever, and the model records `"stuck"` and stops.
- **`PerfScore.tla`** is `calculate_score` as a pure operator: the speed, bitmap-size, handicap and depth factors, the schedule switch (EXPLOIT, FAST, COE, LIN, QUAD, MMOPT, RARE), the MOpt doubling, the floor of 1 and the `havoc_max_mult` cap.
  - `perf_score` is a u32 multiplied by doubles. `TruncMul` returns the truncation of the exact product, and also one less when the factor is not a binary fraction and the product is whole, since the double product may land just below it. `CalculateScore` therefore returns the set of scores the build can produce.
  - The bucket comparisons are exact integer comparisons. `n_fuzz` values are powers of two in the models, so `log2` is exact.
  - The schedule ranges (`schedule < RARE`, `EXPLOIT..QUAD`) and `MAX_FACTOR` come from `afl-fuzz.h`, which is not under `src/` and is `spec_modelled`.
- **`AliasTable.tla`** covers `create_alias_table` and `select_next_queue_entry`.
  - The schedule is a variable fixed by the initial state (`schedule \in Schedules`), so one run covers both branches of `create_alias_table`.
  - `ComputeWeight` is `compute_weight` in fifths: a positive integer per seed standing for the clamped product of logarithmic ratios, times 5 when favored, 2 when not yet fuzzed and 4/5 when `fs_redundant`.
  - `WeightNaN` is the 0/0 of `compute_weight` when every live `tc_ref` is 0 or every live `bitmap_size` is 1 (the averages are 0). NaN is the value `NaN`; `Below` is the IEEE `<`, false on NaN, so a NaN `P[i]` goes to neither stack and keeps probability 0 (`PNaN`). From RARE on the table uses `perf_score` instead: every entry has attributes from `Attrs` and the run's `Globals`, and the rebuild calls `PerfScore!CalculateScore` for each live entry (`SeedRec` adds its handicap and COE's `fuzz_mu` test). The doubles `P[i]` are kept exact as numerators over `unit`, the sum of the weights or scores the table was built with.
  - `Split`, `Pair` (RECURSIVE) and `Leftover` are the three loops. `Small` and `Large` are stacks, kept as sequences whose last element is the top. `Boosted` is MMOPT's doubling of the last `min(5, queued_discovered)` entries, which happens after `sum` is taken.
  - `CreateAliasTable` also stores the new `perf_score`s and applies `calculate_score`'s handicap step to every live entry, since the rebuild calls it.
  - `SelectNextQueueEntry` draws column `s` and returns `s` or its alias. Each outcome is enabled when its interval of `p` is non-empty.
  - `Disable` is a minimization round disabling an entry and setting `reinit_table`.
  - `Mass(i)` is the exact probability of drawing `i`. `AliasDistributionExact` compares it with the weights.
- **`TestcaseCache.tla`** covers `queue_testcase_get`, `queue_testcase_store_mem`, `queue_testcase_retake` and `queue_testcase_retake_mem`.
  - A cached buffer is its allocated length. The slot array is a function over `0 .. Slots-1`, of which the first `cache_cap` are allocated.
  - `EvictLoop` (RECURSIVE) returns every state the eviction `while` loop can end in. It includes the one-time shrink (`Shrink`) and the `do/while` redraw over `rand_below(max_count)` (`EvictableCur`). If nothing can be drawn it ends in `"hung"`.
  - `FreeFrom` is the `while (cache[tid]) ++tid` search. It ends in `"oob"` past the array.
  - `Register` is the registration with its `max_count` / `smallest_free` updates.
  - Actions:
    - `AddAndStore`: `add_to_queue` plus `store_mem`.
    - `FuzzOne`: `queue_cur` changes and its testcase is fetched.
    - `Splice`: another seed is fetched while `queue_cur` is in use.
    - `TrimRetakeMem`: a normal trim of `queue_cur`. The realloc can fail when `AllowAllocFail` is TRUE.
    - `TrimRetake`: a custom trim.
  - `FuzzOne`, `Splice` and the initial array size model callers outside `src/` and are `spec_modelled`.
- **`SeedCache.tla`** is the abstract specification of the cache (spec 4.H): a set of cached seeds under a byte budget and an entry budget. A get ends with the requested seed cached and evicts only seeds other than the one in use. A store caches the new seed if it fits, or drops it. A trim changes the current seed's length. `TestcaseCache` instantiates it with `cached <- {q : buf[q] # Null}` and checks `SeedCacheSpec` as the property `CacheRefinement`.
- **`MCQueueCull`, `MCSchedCmin`, `MCSetCover`, `MCAliasTable`, `MCTestcaseCache`** give the sets of edges and traces for TLC and the symmetry over contents.

## 3. Runs

Passing runs, together with what each checks:

- **`queue_cull`** (`MCQueueCull.cfg`: 3 seeds, 3 edges, 4 overlapping traces, two lengths, one re-calibration that may shorten `len`):
  - `TcRefExact`: `tc_ref` is the number of edges a seed holds.
  - `TopRatedHasTraceMini`: every winner still has the `trace_mini` that `cull_queue` dereferences, also when a seed re-wins its own last edge.
  - `CulledCover`: after a cull every won edge is covered by the favored set.
  - `PendingFavoredExact`: `pending_favored` counts the favored unfuzzed seeds across culls and fuzzing.
  - Result: 179,151 distinct states in about 20 s.
- **`sched_cmin`** (`MCSchedCmin.cfg`: 2 seeds, 2 contents, interval 1, clock bound 1, one re-calibration):
  - Minimization rounds interleave with discovery, re-calibration, culling and fuzzing. The clock may be set back below `g_cmin_last_ms`.
  - `PendingNotFuzzedExact`: `pending_not_fuzzed` counts the active unfuzzed seeds, across the filter's recount and later fuzzing.
  - `MinimizationExact`: when every copy and read succeeds, an applied round leaves the active contents equal to the set afl-cmin kept, each in exactly one active seed.
  - Result: about 364,000 distinct states in about 65 s, with symmetry over contents.
- **`set_cover`** (`MCSetCover.cfg`: 4 seeds, 4 edges, traces `{0,1}`, `{2,3}`, `{2}`, `{3}`, `{1,2,3}`, no re-calibration, list cap not reached):
  - `SetCoverTerminates`: the reduction always finishes.
  - `CoverGreedy`: a completed reduction names each seed once, covers the global frontier, and each pick had positive gain at least that of every candidate still unselected. The swap-remove must not lose a candidate: with `{0,1}`, `{2}`, `{3}`, `{2,3}` in that order, the first pick moves `{2,3}` into the freed slot, and dropping it instead makes the loop take `{2}`.
  - Result: about 200,000 states in about a minute.
- **`testcase_cache`** (`MCTestcaseCache.cfg`: 4 seeds, lengths 1-2, a 6-byte budget, 4 entries):
  - `CacheSizeExact`: the byte count equals the total `q->len` of the cached seeds.
  - `SlotsConsistent`: each cached seed is in exactly one allocated slot, and the entry count is the number of occupied slots.
  - `CacheHintsSound`: slots below `smallest_free` are occupied, and slots from `max_count` on are empty.
  - `CacheRefinement`: the cache implements `SeedCache`. In particular `queue_cur`'s buffer is never evicted while it is in use, and a store never exceeds either budget.
  - `GetTerminates`: the eviction loop always ends.
  - `CacheTypeOK` includes the entry budget.
  - Result: about 1,300 states. Eviction, the one-time shrink and both hint updates occur.
- **`alias_table`** (`MCAliasTable.cfg`: every queue of 1-4 entries, any disabled set, FAST and RARE, two attribute records each holding a top-rated edge, handicap 5):
  - `AliasDistributionExact`: a built table draws each live entry in proportion to the weight the rebuild computed (`compute_weight` under FAST, `perf_score` under RARE), and disabled entries never. The scores change between rebuilds as the handicap is spent.
  - `SelectNeverDisabled`: while any entry is live, no disabled entry is drawn, also after a disabling and rebuild.
  - Result: about 82,000 states in about 10 s.

Violation runs (each one property; see the findings in `PROJECT.json`):

| Run | Property | What TLC finds |
|---|---|---|
| `trace_mini_stale` | `TopRatedInTraceMini` | a re-scored seed wins an edge its old `trace_mini` lacks (line 835) |
| `pending_favored` | `PendingFavoredExact` | after minimization a disabled top-rated seed is favored and counted |
| `cmin_io_fail` | `MinimizationExact` | with copy and read failures allowed, afl-cmin keeps the only seed, its output file cannot be read, and the round disables the whole corpus (afl-sched-cmin.c line 355) |
| `set_cover_stuck` | `SetCoverTerminates` | a re-calibration empties a list entry the global frontier keeps; the loop finds no gain |
| `cover_list_bound` | `CoverListWithinBound` | a three-seed cover overruns a two-slot `set_covered_seed_list` |
| `cache_hang` | `GetTerminates` | with a 4-byte budget, splicing a 2-byte seed while the 2-byte `queue_cur` is the only cached entry shrinks the entry limit and leaves nothing to evict; the redraw never ends (line 2728) |
| `alias_mmopt` | `AliasDistributionExact` | under MMOPT, two equal weights with the newer one doubled are drawn 1/2 : 1/2, not 1/3 : 2/3, because the doubling is not in `sum` (line 160) |

These divergences were found while modelling and are recorded as hazards without a run of their own:

- In `update_bitmap_score` an exact tie takes the edge, and under EXPLORE a seed of strictly lower pressure can lose on `fav_factor`; spec 4.C says the opposite in both cases (line 816).
- The set-cover loop breaks gain ties by position after a swap-remove rather than by smallest id (line 1578). `CoverGreedy` allows any tie; it catches a swap-remove that loses a candidate, not the tie order.
- The set-cover candidates include disabled seeds, and with no candidate `set_favored_id` is drawn over all queued seeds (line 1487); spec 4.E says active seeds. The cover may name disabled seeds; nothing in `src/` reads `set_covered`.
- `compute_weight` divides 0 by 0 when no live seed holds a top-rated edge (line 77), for instance after minimization disabled the holders. The table then draws uniformly or always entry 0. TLC finds `AliasDistributionExact` violated with `Attrs <- MCAttrs` (every `tc_ref` 0) under FAST; the `alias_table` run uses `MCAttrsHeld` so that it checks the finite-weight tables.
- With every seed disabled, the alias table draws disabled seeds (line 139).
- Under MOpt (`limit_time_sig`) the doubling of the newest entries replaces the floor of 1, so a score truncated to 0 stays 0 (line 2560); spec 4.F says the score is at least 1 except under COE.  No run enables `limit_time_sig`, so no property checks this.
- `now_ms` reads `gettimeofday`, so a backward clock step makes the u64 difference wrap and starts a round at once (afl-sched-cmin.c line 498). The `sched_cmin` run includes the step back, so `MinimizationExact` is checked after an early round too, but no property asks for the spacing of rounds.

Every property of a passing run has a mutant in `PROJECT.json`: an operator that changes the mapped code the way a plausible bug would. The mutants are:

- a missing `tc_ref` decrement;
- freeing `trace_mini` without the reference test;
- `memset(temp_v, 0)`;
- counting `pending_favored` for fuzzed seeds;
- recounting over disabled seeds;
- a dropped `keep_used` test;
- a set-cover swap-remove that drops the last slot instead of moving it into the hole;
- an off-by-one list cap;
- in the cache:
  - a store and get without the entry-count test;
  - a retake that forgets the size update;
  - a slot search that does not skip occupied slots;
  - an eviction that forgets `smallest_free`;
  - a redraw that may take `queue_cur`;
  - a registration that forgets `max_count`;
- in the sampler:
  - a swapped remainder `(1 - P[small]) - P[large]`;
  - a dropped trailing loop for `Large`;
  - `P` computed without the disabled test;
- a cache eviction that may take any seed, `queue_cur` included (this breaks `CacheRefinement`).

TLC finds each one.

## 4. Bounds and why they suffice

- **Three edges and overlapping traces.** Every ranking case occurs: a seed winning some edges and losing others, subsumed `trace_mini`s, and swap-remove reordering a three-candidate array.
- **Three seeds** for the ranking; **four seeds over four edges** for the cover. Four is the smallest queue where a swap-remove that lost its last candidate still completes a cover, with a worse pick.
- **One re-calibration.** That is enough to make a list disagree with the global frontier. More only repeats it.
- **Minimization with two seeds and two contents.** This covers both duplicate contents and distinct contents, and a disabled duplicate that holds an edge its kept twin lacks (traces `{0,1}` and `{0,2}`); One re-calibration lets a round follow a re-scoring. Allowing one round covers every failure path of a round. A clock bound of 1 with one step back covers the wrapped difference.
- **Content symmetry.** It is sound because contents are only compared for equality.
- **The cache: four seeds, lengths 1 and 2, six bytes and four entries.**
  - The budget fills both by size and by count, so the shrink fires.
  - Evictions happen with `queue_cur` both cached and uncached.
  - The search starts from each of the three hints.
  - A budget above twice the largest testcase is the condition under which the loop ends. The `cache_hang` run lowers it to four bytes.
  - Seed symmetry is sound because seeds are only compared for equality.
- **The sampler: up to four entries, each with one of two attribute records.**
  - One record scores 0 before the floor under RARE (`n_fuzz = total_execs`), the other is favored, unfuzzed and deep, so the floor, the `tc_ref` bonus and the cap are all reached.
  - The handicap of 5 is spent as 4 and then 1, so scores change over three rebuilds.
  - The splits are all-small, all-large and mixed. Four entries are enough for a large entry to be charged twice and to move from `Large` to `Small`.
  - The `alias_mmopt` run uses weights 1-3 and MMOPT.

## 5. Fairness

No run checks liveness, and no specification has fairness. Under `src/`,
`sched_cmin_maybe_run` has no caller (the fuzzer's main loop that would call it
is not in this repository), so nothing in the code guarantees that a due round
is ever attempted; `GetTerminates` and `SetCoverTerminates` are stated as
invariants over the outcome the recursive operators compute (`"hung"`,
`"stuck"`), not as liveness.

## 6. Not modelled

- **The cache's no-cache mode** (`q_testcase_max_cache_size = 0`). Every get then reads the file, and no cache state changes.
- **`compute_weight`'s logarithms.** The product of ratios before the 0.1 clamp is abstracted to a positive integer per seed; its flags and its NaN are modelled. No property tells the values apart, only their proportions.
- **`check_if_text`.** It only sets `is_ascii`, which nothing modelled reads (spec 227 notes its length precondition slip).
- **`mark_as_det_done`, `mark_as_variable`** set flags and marker files that nothing modelled reads; they are called from outside `src/`. **`destroy_queue`** only frees memory at exit.
- **Code no one calls:**
  - the tie-break selectors, `use_previous_set_cover` and `set_cover_reduction_v1`-`v4`, because the running reduction never calls them;
  - `add_frontier_nodes_to_seed`, `detect_frontier_changes` and `update_global_frontier_nodes`, which have no caller in `src/` and use `frontier_node_bitmap`, which is no longer allocated;
  - the `write_*` helpers.
- **Set-cover scheduling off.** The frontier write at line 767 goes through NULL, and any run reaches it.
- **I/O and formatting:** marker files and path and argv construction.
- **The LibAFL side** (compile-time instrumentation and fuzz targets). `CheckStr` in `str.c` reads `str[0..2]` and calls `strncmp` on input that is not NUL-terminated and may be shorter. That is a bug in a fuzz target, not in the scheduler.
- **Possible next steps:**
  - a run of the NaN weights, which the project's run budget does not leave room for;
  - an abstract favored-set specification that `QueueCull` refines.
