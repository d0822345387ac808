# Keccak-p[1600] backends of XLArig's panthera: TLA+ models

This directory models the Keccak-p[1600] permutation core under
`src/src/crypto/randomx/panthera/`. It has three C files:

* `KeccakP-1600-optimized.c` (59 lines) is the backend dispatcher. It holds a
  static function pointer `permute_fn`, the lazy `init_permute_function`, and
  the stable entry point `KeccakP1600_Permute_24rounds`.
* `KeccakP-1600-avx2.c` (390 lines) is the AVX2 step engine. It has:
  - the constant tables;
  - `rotl64`;
  - `mm256_horizontal_xor_epi64`, `theta_step_avx2` and `chi_process_row`;
  - `KeccakP1600_Round_avx2`;
  - the 24-round and 12-round entry points;
  - the probe `supportsAVX2`.
* `KeccakP-1600-avx512.c` (386 lines) is the AVX-512 step engine, with the same
  structure. Its chi uses `_mm512_permutexvar_epi64` and a masked store. Its
  probe is `supportsAVX512`.

## How the parts interact

A caller calls `KeccakP1600_Permute_24rounds(state)`.

1. If `permute_fn` is NULL, the caller runs `init_permute_function`. That
   function:
   - returns at once if the pointer is already set (line 30);
   - otherwise stores the reference engine (line 35);
   - then, if AVX2 is compiled in and `supportsAVX2()` reports it, stores the
     AVX2 engine (lines 38-42);
   - then does the same for AVX-512 (lines 45-49).
2. The caller then reads the pointer again and calls it (line 59).

`permute_fn` is a plain global, and nothing synchronises it.

Each engine mutates the caller's 200-byte buffer in place. A round is five
blocks: theta (column parities `c`, effects `d`), the D-application into the
scratch buffer `temp`, a fused rho+pi from `temp` back into the buffer, chi row
by row, and iota. The reference engine (`KeccakP-1600-reference.c`) is not in
the sources.

## Modules

| module | models | state / actions |
|---|---|---|
| `KeccakState` | the lane model, `rotl64`, the tables and the Intel intrinsics | A lane is the set of its 1-bit positions (`SUBSET 0..W-1`), so XOR, AND and NOT are set operations and a shift drops the bits that leave the word. `W` is a constant, and the MC modules set it to 64. The round constants are written as bit sets, because TLC's integers are 32-bit. |
| `KeccakRef` | the reference round (spec 4.1) | Pure operators `ColumnParity`, `ThetaEffect`, `Rho`, `Pi`, `Chi`, `Iota` and `Round`, built over the source's tables. They are modelled from the spec because the reference C file is not among the sources. |
| `KeccakAVX2` | one call of `KeccakP1600_Permute_24rounds_avx2` or `_12rounds_avx2` | The variables are the buffer `st` and the round's locals `c`, `d`, `temp` and `i`. There is one action per block of `KeccakP1600_Round_avx2`: `ThetaStep`, `ThetaApply`, `RhoPi`, `Chi` and `Iota`. A history variable `ref` advances the reference round beside each `Iota`, using the same round index. |
| `KeccakAVX512` | the same for the AVX-512 engine | The actions are the same, with the code's own vector operations. `Chi` is the five `chi_process_row_avx512` calls in sequence, each one a masked store. |
| `Dispatcher` | `permute_fn`, `init_permute_function` and the wrapper, under any number of threads | `pc[t]` is the statement thread `t` runs next. Every read and every store of the pointer is its own step (`Enter`, `InitCheck`, `SetReference`, `SetAVX2`, `SetAVX512`, `Call`). `build` records which engines are compiled in. `ebx` is the subset of the probed bits (5; 16, 17, 30, 31) that cpuid leaf 7 returns, fixed for the process; `Probe` is the two probes' bit tests. `usable` is what the machine and OS can really execute, and the only link to `ebx` is that a usable ISA has its bits set. `used` is a history of the engines that have been called. |
| `DispatcherAbstract` | what the dispatcher promises (spec 4.4) | `binding` starts NULL and `Resolve` sets it, once, to the best engine `best`. |
| `DispatcherProofs` | the TLAPS proofs for `Dispatcher` | |
| `KeccakAVX2Proofs` | the TLAPS proofs for `KeccakAVX2` | |
| `KeccakAVX512Proofs` | the TLAPS proofs for `KeccakAVX512` | |
| `KeccakLaneProofs` | lemmas about the lane operators and tables of `KeccakState` | |
| `MC_*` | the TLC instances | |

In `Dispatcher`, a racy store is undefined behaviour. The model gives the
compiler two outcomes, selected by `build.stores`:

* `"each"`: the three stores reach memory one by one.
* `"once"`: the compiler keeps the pointer in a register and stores only the
  final value.

## Runs

The engine runs use `W = 64`. Each one checks three input buffers: all zero,
lane 0 = 1, and lane j = bit j (a basis state with a distinct bit in every
lane). Each buffer is checked under both entry points, for the full 24 or 12
rounds, which gives 546 states.

The engine runs set `CHECK_DEADLOCK FALSE` because a call really does end: the
final state has `pc = "done"`.

### Passing runs

* **`avx2_substeps`** checks four properties:
  - `KnownAnswer`: 24 reference rounds of the zero state, over the source's
    round-constant, `rhotates` and `pi_lane_map` tables, give the published
    lanes F1258F7940E1DDE7 and 84D5CCF933C0478A. The engines read the
    round-constant table. `rhotates` and `pi_lane_map` are dead in the code
    (the engines hard-code their amounts), so this property anchors only the
    reference model and the round constants;
  - `ThetaApplyMatchesReference`: the packed `_mm256_set_epi64x` D vectors and
    `THETA_TAIL` XOR `D[j mod 5]` into every lane, in every round;
  - `ChiMatchesReference`: `chi_process_row` is the reference chi;
  - `RotationsTakeSwitchCase`: every `rotl64` call of a round (`D_CALC`'s
    rotation by 1 and the 24 `RHO_PI_STEP` amounts) hits a case label of the
    switch (`Rotl64Cases`). So the default path, whose
    `x >> (64 - (n & 63))` shifts by 64 (undefined) when n is a multiple of
    64, never runs.
* **`avx512_column_parity`** checks that the zero-padded 8-lane column vectors
  and the 512→256→128→64 XOR tree compute every column parity.
* **`dispatcher_threads`** uses three threads, every build and every CPU. It
  checks the inductive invariant `IInv`, `NoNullCall`, `Stabilisation` and the
  liveness property `EventuallyResolved`. It also checks `ImplementsAbstract`:
  under the refinement mapping `binding <- ResolvedBinding`, `best <-
  Preferred`, the dispatcher implements `DispatcherAbstract`. `ResolvedBinding`
  is `permute_fn` once it is set and no thread is inside
  `init_permute_function`, and NULL before that. The raw pointer does not
  refine the abstract spec, because it passes through the provisional values.

The engines have no type invariant among the runs. Every lane operator of the
model returns a lane, so a type invariant would hold whatever the C code
computed, and it would not tell a correct engine from a wrong one.

### Violation runs

Each of these checks one property, and each is a divergence from spec 4.1, 4.2,
4.4 or 8 that came up during modelling. All are recorded under `findings` in
`PROJECT.json`.

* **`avx2_theta_parity`**: the column vector XORs `set1(s[x])` into all four
  lanes, so the four-way reduction cancels lane (x,0).
* **`avx2_rhopi`** and **`avx512_rhopi`**: `RHO_PI_STEP` and `RHO_PI` send lane
  (x,y) to (y,x). Pi needs `pi_lane_map`, which is declared and never read.
* **`avx512_theta_apply`**: the `d_broadcast` vectors are one lane off.
* **`avx512_chi`**: the permutexvar indices (lanes 0-7) are
  `(5,1,2,3,0,0,0,0)` and `(1,2,3,4,0,0,0,0)`, where chi needs the shifts by one and by two.
* **`avx2_permutation`**: the AVX2 engine does not compute Keccak-p[1600] on
  any of the inputs (spec 8: cross-engine equivalence). The AVX-512 engine
  fails in the same way, because of its own theta, rho+pi and chi findings.
* **`dispatcher_race`**: with two threads, the second caller can see the
  provisional reference pointer (line 35) and call it while the first is about
  to store AVX2. Concurrent first calls then run different engines, which spec
  4.4 and spec 5 forbid.
* **`dispatcher_probe`** checks `EngineRuns`: every engine called is one the
  machine can run. The probes read only the leaf-7 EBX bits. There is no
  max-leaf check, no OSXSAVE bit and no XGETBV test that the OS saves the
  YMM/ZMM state. On a machine whose CPU reports AVX2 while the OS has not
  enabled it, the dispatcher installs the AVX2 engine and calls it.

### Mutants

Every property of a passing run has a mutant: a plausible slip in the modelled
code that TLC then catches.

| mutant | breaks |
|---|---|
| bit 1 of round constant 1 (0x8082) dropped | `KnownAnswer` |
| swapped `D_CALC` operands | `ThetaApplyMatchesReference` |
| swapped chi operands | `ChiMatchesReference` |
| `RHO_PI_STEP` amounts written as right rotations (`64 - rot`) | `RotationsTakeSwitchCase` |
| a horizontal XOR that skips the upper 256 bits | `ColumnParityMatchesReference` |
| an inverted NULL test at line 30 | `NoNullCall` |
| the early return at line 30 dropped, so a late thread re-runs the stores | `ImplementsAbstract` |
| the AVX-512 block compiled out | `IInv`, `Stabilisation`, `EventuallyResolved` |

### Why the bounds are enough

Every engine is a fixed, data-independent sequence of steps. The inputs matter
only through which lanes carry distinct bits, and the basis input puts a
distinct bit in every lane. So a wrong index, a wrong lane order or a dropped
lane shows up in the first round that uses it.

For the dispatcher, three threads are enough for every pattern in which one
thread stores while another checks and a third calls. Every combination of
compiled ISAs, probed bits, usable ISAs and store strategy is an initial
state.

### Fairness

`Spec` of `Dispatcher` has weak fairness on each thread's steps once it has
entered (`Running(t)`), and none on `Enter`: a caller may never call. The code
justifies this. A call that has started never blocks (spec 5: no waits, no
I/O, no locks), so a thread that is scheduled keeps moving.

## Proofs (TLAPS)

### `DispatcherProofs`

These hold for every finite non-empty set of threads. They assume
`ThreadsAssumption` and `NullAssumption` (NULL is not an engine).

* `TypeCorrect`: `Spec => []TypeOK`.
* `NoNullCallHolds`: `Spec => []NoNullCall`.
* `StabilisationHolds`: `Spec => []Stabilisation`.
* `Refinement`: `Spec => ImplementsAbstract`. `Init` maps to the abstract
  `Init`, since every pointer starts NULL. For a step under `IInv`, there are
  three cases. If `ResolvedBinding` is already set, the step leaves it
  unchanged (`ResolvedStable`). This uses `Stabilisation`: the pointer is then
  the preferred engine, and every later store writes that value again. If it
  stays NULL, the step is a stutter. If it becomes set, then `Stabilisation'`
  makes it the preferred engine, which is the abstract `Resolve`.

`Stabilisation` is not inductive on its own. Consider a thread between line 35
and line 46. It has stored a provisional value, and another thread may already
be past its checks. The strengthening `IInv` says this:

* permute_fn is NULL, or the preferred engine, or the value that some thread
  still inside `init_permute_function` stored last (`StageValue`);
* no thread is at the call, or past the first store, while the pointer is NULL.

`IInvInductive` proves `IInv /\ [Next]_vars => IInv'`, with one step per action
and, inside each, a case split on whether the ISA is available. The key fact is
`InitResultIsPreferred`: the three stores in order leave the preferred engine
behind. TLC also checks `IInv` as an invariant in `dispatcher_threads`.

* `IInvInvariant`: `Spec => []IInv`. This is the theorem form of the run's
  invariant, built from `Init => IInv` and `IInvInductive`.

### `KeccakLaneProofs`

These are lemmas about the lane operators. The engine proofs cite the
algebra of `^` and the vector-intrinsic facts:

* `^`, `~`, `&` and `rotl64` keep a W-bit lane;
* `^` is commutative and associative, with 0 as its unit;
* the round constants are lanes;
* `pi_lane_map` is onto, shown with its explicit inverse;
* each vector intrinsic (`xor`, `and`, `permute4x64`, `permutexvar`,
  `set_epi64`) maps vectors of lanes to vectors of lanes.

### `KeccakAVX2Proofs`

These hold for every lane width `W` (`WAssumption`).

* `RotationsNeverDefault`: `Spec => RotationsTakeSwitchCase`. Rotation by 1
  and each of the 24 rho amounts is one of the switch's case labels. This is a
  fact about the code's two tables. Every step satisfies it, so it holds
  always.
* `ChiCorrect`: `Spec => ChiMatchesReference`. The lemmas `RowBases` and
  `ChiOperandsColumns` show that the row base `j - j % 5` is one of the five
  `ChiRowBases`. They also show that `chi_process_row`'s operands are the
  columns x+1 and x+2 mod 5. So every lane gets the reference chi.
* `ThetaApplyCorrect`: `Spec => ThetaApplyMatchesReference`. The invariant
  `DInv` says that while the D-application is pending, `d` holds the five
  `D_CALC` values of `c`. `DCalcColumns` shows these are `C[x-1] ^ rotl(C[x+1],
  1)`. `DIndexColumn` is a case split over the four packed `_mm256_set_epi64x`
  vectors and `THETA_TAIL`. It shows that lane j receives `d[j mod 5]`.
  `SetEpi64Four` reads the highest-first argument order of the intrinsic.

### `KeccakAVX512Proofs`

These hold for every lane width `W`.

* `ColumnParityCorrect`: `Spec => []ColumnParityMatchesReference`. Two lemmas
  carry the argument:
  - `ColumnVectorLanes`: a column vector holds the column's five lanes and three
    zeros.
  - `HorizontalXorTree`: the 512→256→128→64 reduction is the XOR of all eight
    lanes, regrouped by `XorAssoc`, `XorComm` and `XorZero`.
  So the tree computes the reference column parity.

## Checked only by TLC

* `KnownAnswer`. It is a concrete 24-round computation at W = 64, with a
  fixed expected value. The prover does not evaluate it.
* `ThetaApplyMatchesReference` and `ChiMatchesReference` for AVX-512, and the
  permutation. These are violation runs (findings), and so they are false.
* `EventuallyResolved`, because liveness is out of the prover's reach.
* `ConsistentEngine` is false: two racing first callers can run different
  engines (`dispatcher_race`). With a single caller it adds nothing to
  `Stabilisation` and `NoNullCall`, so it is neither checked nor proved there.

## Not modelled

* The reference engine's C code, which is not in the sources. Its contract is
  taken from spec 4.1.
* The signed overflow in `1 << 31` in the AVX-512 mask. It is modelled as the
  bit 31 that the compilers produce.
* The wrapper itself is compiled with the AVX flags, so the compiler may use
  vector instructions before the probe runs. This is outside a model of the C
  control flow.
* The never-called helpers `get_epi64` and `extract_epi64` (which write a
  shared static `extract_buffer`), and the unused tables (`chi_row_indices`,
  `rot_pairs`, `chi_mask_offsets`, `row_indices`).
* Writes past the 200-byte buffer (the `Chi` model drops lanes beyond 24).
* The value `rotl64`'s default path computes. `Rotl` takes `n mod W` for
  every path, and `RotationsTakeSwitchCase` shows that the default path is
  never taken.

## Plan for later work

* A `System` module that composes `Dispatcher` with the engines, so that a
  racing caller's result is checked against the reference.
* The 12-round entry points through the dispatcher (there is no 12-round
  wrapper in `optimized.c`).
* A proof that 24 `Round` steps of the AVX2 engine's passing blocks
  (`ChiCorrect`, `ThetaApplyCorrect`) compose with the reference for the
  blocks that agree.
* The numeric-edge hazard of `1 << 31` in the AVX-512 probe mask.
