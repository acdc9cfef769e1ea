# TLA+ models of MilevaDB's aggregation executor and integer arithmetic

This directory holds TLA+ models of the aggregation executors
(`src/executor/aggregate.go`: the parallel and the unparallel hash
aggregation, the streaming aggregation and its group checker), of the
VAR_SAMP final step (`src/executor/aggfuncs/func_varsamp.go`) and of the
integer arithmetic builtins (`src/expression/builtin_arithmetic.go`), with an
abstract specification of the executor contract that the three executors are
checked to implement. It also holds the TLC configurations
that check them. `PROJECT.json` is the machine-readable index:
- components and their status;
- every run with its properties;
- the mutants that show each property can fail;
- the map from each TLA+ definition to the source lines it models;
- the findings;
- the hazards.

Run a check from this directory with `tlc -workers 2 -config <cfg> <module>`.

## 1. The system: components and how they interact

| Component | Source | State | Operations |
|---|---|---|---|
| Parallel hash aggregator | aggregate.go 142-343, 345-719 | channels `inputCh` (tickets), `partialInputChs[M]` (cap 1), `partialOutputChs[N]` (cap M), `finalOutputCh` (cap N), `finishCh`, per-final-worker `finalResultHolderCh` (cap 1); per-worker maps; `prepared`, `executed`, `isChildReturnEmpty` | Open/initForParallelExec, Next/parallelExec, Close; goroutines fetchChildData, partial `run`, final `run`, the two wait goroutines |
| Memory tracker (as used here) | aggregate.go 231, 317, 324, 377, 633-640, 649 | one counter | Consume(+/-) |
| Group-key encoder | aggregate.go 438-473 | key buffer | getGroupKey (may fail) |
| Unparallel hash aggregator | aggregate.go 206-212, 274-280, 722-817 | `groupSet`, `groupKeys`, `cursor4GroupKey`, `partialResultMap` | execute, unparallelExec, getPartialResults, Close |
| Streaming aggregator | aggregate.go 822-993 | current group rows, shared partial results, `executed`, `isChildReturnEmpty` | Open, Next, consumeOneGroup, consumeCurGroupEventsAndFetchChild, appendResult2Chunk, Close |
| Group-boundary detector | aggregate.go 995-1467 | group offsets, cursor, first/last row keys | splitIntoGroups, getNextGroup, isExhausted, reset |
| Sample variance kernel | aggfuncs/func_varsamp.go; the partial workers' update and the final worker's merge, aggregate.go 394-415, 504-571 | (count, mean, variance) partial result per worker | update, merge, AppendFinalResult2Chunk |
| Executor contract | spec §6, §8.1-8.3 | the rows returned, the caller's status | a Next call's rows, an error, Close |
| Arithmetic builtins | builtin_arithmetic.go | none (pure): the argument types and the built signature | getFunction of +, -, *, /, DIV, % (signature, Flen, Decimal, unsigned flag), evalInt of PlusInt, MinusInt, MultiplyInt, MultiplyIntUnsigned, IntDivideInt, ModInt; evalReal of PlusReal, MinusReal, MultiplyReal, DivideReal, ModReal |

### How the parallel engine's parts interact

The caller's first `Next` starts these goroutines:
- one fetcher;
- M partial workers, each with a wait goroutine that closes `partialOutputChs` after they exit;
- N final workers, each with a wait goroutine that closes `finalOutputCh`.

A *ticket* (`HashAggInput`) is an empty chunk plus the input channel of one partial worker. There are exactly M tickets, one per worker:
1. The fetcher takes a ticket, fills its chunk from the child and sends it to that worker.
2. The worker swaps the columns into its scratch chunk and returns the ticket to `inputCh`.
3. The worker updates its own map.

When its input closes, a partial worker shuffles its map's keys by `murmur3 % N` to the final workers. Each final worker:
- merges what it receives in batches of at most `maxChunkSize` keys;
- writes the final rows into the chunk it holds and sends it on `finalOutputCh`;
- waits for the caller to give the chunk back through `finalResultHolderCh`.

Errors (from the child, the key evaluation, an update or a merge) are sent on `finalOutputCh` like results. `Close` closes `finishCh` and then drains the partial output channels, the partial input channels and `finalOutputCh`, in that order.

### The hard behaviours

- Interleavings of M+N+4 goroutines and the caller.
- Blocking sends on bounded channels, and the result-holder handshake.
- Errors at every stage, an error arriving after results, and the caller calling `Close` at any point.
- A send on a channel `Close` has already closed, which panics; the recovery handler sends on the same channel.
- The drain order of `Close`.
- Memory accounting of recycled, grown and drained chunks.
- In the builtins: Go's wrapping int64/uint64 arithmetic inside the overflow checks themselves.

### What makes each component correct

- **Parallel aggregator:**
  - the rows returned are exactly the grouped aggregate of the input, each group once, and never a partial result from a failed run;
  - `Next` and `Close` return;
  - no goroutine blocks or panics;
  - the memory tracker returns to zero (spec §8 properties 1, 3, 4, 5).
- **Integer builtins:** an overflow is reported exactly when the exact result does not fit the result type (spec §4.1).
- **Unparallel and streaming aggregators:** the same groups as the parallel one (spec §8 property 1), returned once each across Next calls, a group spanning chunks as one row.
- **Group checker:** its ranges cover the chunk and split it exactly where the key changes under the collation.
- **All three executors:** the contract of `Aggregation.tla` (below). It follows from the correctness and completeness invariants where those hold; it is checked where they do not, in the parallel path under faults.
- **VAR_SAMP:** the sample variance of the rows, whatever the partition of rows over workers and the merge order.

## 2. Modules

### `ParallelHashAgg.tla`: the parallel path of `HashAggExec`

**Constants:**
- `M`, `N`: partial and final concurrency.
- `Keys`, `Hash`: group keys and the key → final-worker function that `murmur3 % N` computes.
- `Inputs`: the streams the child may return, each a sequence of chunks of keys; the variable `input` is chosen from it in Init.
- `MaxChunkSize`, `InitCap`: chunk sizes.
- `HasDefault`: whether `defaultVal` is set.
- Fault switches `ChildMayFail`, `EvalMayFail`, `MergeMayFail`.

The aggregate function is COUNT: a group's partial result is a number. Merge adds, and the final row is `[k, c]`. Chunks are abstracted to their rows. `sz` keeps each buffer's size, because Go keeps a chunk's capacity after `Reset`.

**State:**
- one variable per channel, as a sequence, plus a closed flag;
- a program counter per goroutine:
  - `fpc`: the fetcher;
  - `ppc[p]`: the partial workers;
  - `gpc[f]`: the final workers;
  - `wpc`, `wfpc`: the wait goroutines;
  - `mpc`: the caller;
- the workers' maps (`pmap`, `gmap`, `gset`);
- the tracker `mem`;
- `crashed`: the process died of an unrecovered panic.

**Actions.** Each action is one step of a goroutine between two channel operations:

| Goroutine | Actions | Source |
|---|---|---|
| Fetcher | `FetchSelect`, `FetchChild`, `FetchGive`, `FetchReport`, `FetchExit` | fetchChildData |
| Partial worker | `PartialRecv`, `PartialGiveBack`, `PartialUpdate`, `PartialReport`, `PartialExit` | getChildInput, run, updatePartialResult, shuffleIntermData |
| Final worker | `FinalRecv`, `FinalMerge`, `FinalReport`, `FinalHold`, `FinalFill`, `FinalSend` | consumeIntermData, getPartialResultBatch, getFinalResult, receiveFinalResultHolder |
| Wait goroutines | `WaitPartialWorkers`, `DrainInputCh`, `WaitFinalWorkers` | |
| Caller | `CallNext`, `NextRecv`, `NextEnd`, `CloseBegin`, `CloseDrainPout`, `CloseDrainPin`, `CloseDrainFout` | prepare4ParallelExec, parallelExec, Close |

A `select` with several ready cases is a disjunction, as Go picks among them at random. A send on a closed channel is the action `Crash`: the recovery handler sends on the same channel and panics again. Go maps are iterated in random order, so the batches of a merge and of the final rows are any subsets of the right size (`NextBatches`).

`MC_ParallelHashAgg.tla` gives the model values:
- three keys, two of them hashing to final worker 1;
- `MCInputs`: three child chunks (`MCInput`) or an empty child (`MCInputEmpty`);
- `MCInputsTwo`: two child chunks, for the fault, crash and hang runs.

It also defines the refinement mapping to `Aggregation` (below).

### `IntArith.tla` (and `MC_IntArith.tla`): the arithmetic builtins

A behaviour is one expression `a op b`:
1. Init chooses the two argument types from `FieldTypes` (a type is its
   class, `Flen`, `Decimal` and unsigned flag) and the sql mode.
2. One `*GetFunction` action (one per function class: +, -, *, /, DIV, %)
   computes each argument's `NumericContextResultType`, picks the signature
   (real, decimal or integer) and builds the result type with
   `SetFlenDecimal4Int`, `SetFlenDecimal4RealOrDecimal`,
   `SetType4DivDecimal`, `SetType4DivReal` or `SetType4ModRealOrDecimal`.
3. For an integer signature an `Eval*` action chooses the argument values
   (any W-bit integer or NULL) and runs its `evalInt`. For a real
   signature an `Eval*Real` action chooses values of `RealVals` (integers
   in `-MaxReal..MaxReal`) and runs its `evalReal`. `MaxReal` stands for
   `math.MaxFloat64`. Results are exact rationals, so the model keeps the
   NULL tests, the zero-divisor tests and the overflow tests, and leaves
   out float rounding. IntDivideInt calls `types.DivInt64`,
   `DivUintWithInt` and `DivIntWithUint`, which are outside `src/`; the
   model takes them by their contract (`QuotIn`: the quotient truncated
   toward zero, or ErrOverflow outside the range of their result) and
   keeps what `src/` does around them: the zero test on `b` before `a` is
   evaluated, the uint64 division of two unsigned operands, and the casts
   back to int64. The decimal signatures and IntDivideDecimal are not
   evaluated: they compute with MyDecimal, outside `src/`.

The constant `W` is the width of BIGINT, 64 in the code: `U(x)` is
`uint64(x)`, `S(x)` is `int64(x)`, wrapping modulo `2^W`, and `Quot` is Go's
truncating division. Each `evalInt` is an operator that returns the
`(val, isNull, err)` triple, NULL arguments and overflow checks included,
translated operation by operation with Go's wrapping.

The reference is the exact result over the integers, `Exact`, read with the
signedness of the result type getFunction built (`Representable`). MySQL's
rule for `NO_UNSIGNED_SUBTRACTION` is part of it: operands are taken as
signed, so an unsigned operand above MaxInt64 is out of range. Two operators
compare the code against it: `Sound(s)` (a non-NULL result is exact) and
`Complete(s)` (a representable result is not an error). For the decimal
signatures, `Needed` gives the integer digits and the scale the exact result
of two arguments of the given types can have.

`MC_IntArith.tla` gives 13 argument types: INT and INT UNSIGNED, DATE
(integer context) and DATETIME(6) (decimal context), DECIMAL(10,2),
DECIMAL(65,30), DECIMAL(65,0) UNSIGNED and a decimal of unspecified length,
DOUBLE with and without a scale, a string, a binary string (integer context)
and an enum (real context).

### `Aggregation.tla`: the executor contract

An abstract specification of what any aggregation executor promises its
caller. `result` is the set of rows the query must return (a variable only so
that a refinement can map it to a function of the input; no step changes
it), `emitted` the rows returned so far, `status` one of running, done,
failed, closed. `NextCall` returns a block of new rows of `result`, none
twice, and may end once all were returned; `Fail` returns an error; `Close`
ends the execution. Row order is not part of the contract.

`MC_ParallelHashAgg` defines the refinement mapping and checks
`AggregationSpec == Abs!Spec` as a PROPERTY in the fault run (pha_faults):
`result` is the expected groups, `emitted` the chunks returned, flattened,
and `status` is closed once `Close` began, failed on an error, done once
`executed`, else running. Without faults, and for the other two executors,
the runs check `ReturnedRowsCorrect`/`RowsCorrect` (new rows of the result, none
twice) and `ResultComplete` (the end only after all of them), from which the
refinement follows; there it would add nothing.

### `VecGroupChecker.tla`: the group checker

Operators only: the checker's fields are one record, and each method is an
operator on it, so that `StreamAgg` performs them inside its own steps
(`GC == INSTANCE VecGroupChecker WITH HasGroupBy <- plan.groupBy`).
`SplitIntoGroups` is `splitIntoGroups` with its first/last-row shortcut (a
chunk whose first and last keys are equal is one group), the group end
offsets and `isFirstGroupSameAsPrev`; `GetNextGroup`, `IsExhausted` and
`Reset` are the methods of the same names. Inside a chunk, rows are compared
after `ConvertByDefCauslationStr` (lines 1411-1413), modelled as the
collation key `Coll[v]` (`SameGroup`). The key across chunks and in the
first/last shortcut is `codec.EncodeValue` of a datum built from the raw
string and the column's collation name (1250-1272, 1059-1067), without that
conversion; `codec` is not part of this repository, so `EncodeValue(v)` is
the raw value. `Runs` is the RECURSIVE reference: the maximal runs of one
collation class, which is what SQL groups together.

### `StreamAgg.tla`: `StreamAggExec`

The aggregate is firstrow plus COUNT, so a row is `[first, cnt]`. A `Next`
call is split at its child fetches; `pc` says where the call is:

| `pc` | Actions | Source |
|---|---|---|
| idle | `Open`, `Close`, `CallNext` | Open, Close, Next |
| loop | `NextReturn`, `FetchTop` (exhausted checker: fetch and split) | Next, consumeOneGroup, consumeCurGroupEventsAndFetchChild |
| group | `TakeGroup` (getNextGroup, collect the events) | consumeOneGroup |
| extend | `FetchExtend` (the group ended the chunk: fetch, and continue it if the next chunk's first group is the same) | consumeOneGroup |
| finish | `Finish` (consumeGroupEvents, appendResult2Chunk) | consumeOneGroup |
| extend, finish | `UpdateFails` (UpdatePartialResult returns an error) | consumeGroupEvents |

A fetch has three outcomes, each one of the code's branches: an error
(`FetchError`), the end of data with the last group's row or the plan's
default row (`FetchEnd`), or rows (`FetchRows`). `plan` (GROUP BY or not, and
whether the plan has a default row) is chosen in Init and never changes,
because the executor is built from one plan.

`InCall` is the disjunction of the steps inside a `Next` call (`NextReturn`,
`FetchTop`, `TakeGroup`, `FetchExtend`, `Finish`); `Spec` makes it weakly fair
restricted to steps that return no error, so failures are possible but never
forced (see §5).

### `UnparallelHashAgg.tla`: the unparallel path of `HashAggExec`

`Open` (with `initForUnparallelExec`), `Close`, `NextCall` (on the first call
`execute` over the whole input and the empty-group insert, then rows for
`groupKeys[cursor4GroupKey..]` through `getPartialResults`), and
`ExecuteFails` (the child errs after some chunks; those before are
aggregated). `Execute` is a fold of `ExecuteRow` over the chunks. The
aggregate is COUNT; `hasGroupBy` is chosen in Init and never changes.

### `VarSamp.tla`: VAR_SAMP

Partial workers update their partial results row by row (`UpdateRow`), the
final worker merges them in any order (`Merge`), and `AppendResult` appends
`AppendFinalResult2Chunk`: NULL for at most one row, else
variance/(count-1). The varPop kernel the varSamp types embed is not under
`src/`; its update (Welford's recurrence, skipping seen values for DISTINCT)
and merge (the pairwise count/mean/M2 combination) are modelled from spec §2
and marked `spec_modelled` in the map. A DISTINCT aggregate runs on the
unparallel path: one worker gets the rows. Arithmetic is exact on rationals,
so the model checks the algorithm, not float64 rounding; `SampleVariance` is
the reference by the textbook formula.

## 3. Runs

| Run | Config | Expect | What it shows |
|---|---|---|---|
| pha_base | MC_ParallelHashAgg.cfg | pass | Without failures, over three chunks and over an empty child with a default value, every interleaving of 2 partial and 2 final workers satisfies: `ReturnedRowsCorrect` (the rows returned are the exact group counts, each group once), `ResultComplete` (all of them, or the default row once), `FetcherSendNeverBlocks`, `RunReleasesMemory` (the scratch memory of a run is released), `CloseReturns`, and `NextReturns`. 48,590 states, about 30 s. |
| pha_faults | MC_ParallelHashAgg_faults.cfg | pass | With child, evaluation and merge errors, no wrong or duplicate group reaches the caller (`ReturnedRowsCorrect`), and the contract holds (`AggregationSpec`: the end only with every row, nothing after an error; `ResultComplete` is not checked here). 937k states, about 40 s. |
| pha_crash | MC_ParallelHashAgg_crash.cfg | violation | `NoSendOnClosedChannel` fails: finding 1. |
| pha_hang | MC_ParallelHashAgg_hang.cfg | violation | `CloseReturns` fails: finding 2. |
| intarith | MC_IntArith.cfg | pass | Over every pair of the 13 argument types, both sql modes, and for integer signatures every pair of 4-bit values or NULL: `PlusIntCorrect`, `ModIntCorrect`, `IntDivideIntCorrect` (DIV returns the truncated quotient in the result's signedness, rejects exactly the quotients that do not fit, and NULL for a zero divisor), `MinusIntNoSilentOverflow`, `MultiplyNoFalseOverflow`, `DecimalResultTypeHoldsResult` (the result type of a decimal signature has the scale and integer digits its results need, up to 30 and 65), and `RealArithCorrect` (each real signature's result is NULL for a NULL argument, the sql mode's division-by-zero outcome for a zero divisor, ErrOverflow exactly when the exact result is beyond ±MaxReal, and the exact result otherwise). 209,852 states. |
| intarith_mul | MC_IntArith_mul.cfg | violation | finding 3. |
| stream_base | MC_StreamAgg.cfg | pass | For both plans, over every sorted stream of up to four chunks of 1-3 rows of three values, with child and update errors: `RowsCorrect` (every row produced is the next group; a group spanning chunks is one row), `ResultComplete`, and `NextCallReturns` (every `Next` call returns, under weak fairness of the call's non-failing steps; the loop that extends a group into the next chunk ends). Constraint `RowBound`. 403,971 states, about 45 s. |
| stream_reopen | MC_StreamAgg_reopen.cfg | violation | `NoGroupIndexPanic` fails: finding 4. |
| stream_stale | MC_StreamAgg_stale.cfg | violation | `RowsCorrect` fails after an update error, Close and Open: finding 5. |
| uha_base | MC_UnparallelHashAgg.cfg | pass | With and without GROUP BY, over every stream of up to two chunks of 1-2 rows of three keys, with child errors: `RowsCorrect` (groups in first-seen order, none skipped or repeated across Next calls), `ResultComplete` (including the one row of a scalar aggregate over no input). 4,204 states. |
| uha_reopen | MC_UnparallelHashAgg_reopen.cfg | violation | `RowsCorrect` fails after Close and Open: finding 6. |
| varsamp | MC_VarSamp.cfg | pass | VAR_SAMP and VAR_SAMP(DISTINCT) over up to three rows of {0, 1, 3} spread over two workers and merged in either order equal the sample variance (`VarSampCorrect`). 1,018 states. |

Every property of a passing run has a mutant in `PROJECT.json`: a plausible
bug in a mapped definition under which TLC finds the property violated.
Examples: a bucket holding every key; a
dropped give-back of the result holder; a final worker ignoring `finishCh`; a
dropped MinInt64 check; a
partial result not reset after its row; the cursor over `groupKeys` not
advanced; a merge without the cross term.

### Findings

1. **Process crash after an error** (`aggregate.go:385`, `:364`). One partial
   worker's error reaches the caller, which calls `Close`; the final workers
   see `finishCh` and exit, and `finalOutputCh` is closed; the second partial
   worker's update then fails, and its error send on the closed channel
   panics; `recoveryHashAgg` sends on the same channel and panics again,
   which kills the process.
2. **`Close` hangs** (`aggregate.go:225`). `Close` drains the partial output
   channels before `finalOutputCh`. A partial worker blocked sending its
   error on a full `finalOutputCh` never exits, so the partial output
   channels never close.
3. **MultiplyInt missed overflow** (`builtin_arithmetic.go:600`).
   `-1 * MinInt64` returns MinInt64, because `result/a` wraps to `b`.
4. **StreamAgg panics after a re-Open** (`aggregate.go:1439`). `Close` calls
   `groupChecker.reset`, which truncates `groupOffset` but keeps
   `nextGroupID` and `groupCount`. After a Close in the middle of a chunk and
   a new Open, `isExhausted` is false and `getNextGroup` indexes the empty
   `groupOffset`.
5. **StreamAgg counts stale events** (`aggregate.go:940`). When
   `UpdatePartialResult` fails, `consumeGroupEvents` returns before clearing
   `e.groupEvents`, and neither Close nor Open clears them; after a re-Open
   they are consumed into the first group (a one-row input without GROUP BY
   gives COUNT 2).
6. **Unparallel HashAgg repeats groups after a re-Open** (`aggregate.go:274`).
   `initForUnparallelExec` keeps `groupKeys` and `cursor4GroupKey`, so the
   second execution appends its keys after the first's and continues from
   the old cursor.

## 4. Bounds, and why they are enough

**ParallelHashAgg:**
- M = N = 2: two senders per channel and two shuffle targets.
- Three keys with two on one final worker, so a final worker merges input
  from both partial workers and holds more keys than `MaxChunkSize`.
- `MaxChunkSize = 1`: every merge is split into batches, a final worker with
  two groups must wait for the holder, and `finalOutputCh` can be full.
- `Inputs` holds three child chunks and the empty child: with three chunks a
  recycled ticket carries data (with two, `FetcherSendNeverBlocks` could not
  fail); the empty child takes the default-row branch.
- The fault runs use two chunks to stay under five minutes; every failure
  point is still reachable. The hang run uses N = 1 with every key on that
  worker, the smallest setting where `finalOutputCh` fills.

**StreamAgg:** three values, each its own collation class, chunks of up to
three rows, up to four chunks: a group spans two, three and four chunks,
a chunk holds two groups, the first/last shortcut applies and is wrong to
apply to unsorted rows; `MaxChunkSize = 1` makes the caller's chunk fill in
the middle of a child chunk. The reopen runs use two Opens and chunks of two
rows. `RowBound` (MC_StreamAgg) bounds `out` by `MaxChunks * MaxRows`: the
input has no more rows, and `RowsCorrect` keeps `out` a prefix of the expected
rows, so it never cuts a behaviour of the model; it keeps a variant that keeps
appending rows finite.

**UnparallelHashAgg:** three keys, up to two chunks of two rows: keys repeat
within and across chunks, and with `MaxChunkSize = 1` the cursor crosses
several Next calls.

**VarSamp:** values {0, 1, 3} make the mean non-integral and the merge's cross
term non-zero; three rows over two workers give every split, including an
empty worker, and both merge orders.

**IntArith:** W = 4 contains every boundary value the code tests (0, ±1,
MaxInt, MinInt, unsigned values above MaxInt, MaxUint); the checks use only
these and Go's wrapping, both parameterised by W. The argument types put
the decimal limits within reach (65 digits, 30 decimals) and include an
unspecified length and scale; every signature of every function class is
built from them. `MaxReal = 3` with arguments in -3..3 makes sums,
differences, products and quotients overflow on either side, and leaves
some in range.

**Plans as Init choices.** The GROUP BY list and the default row are fixed
when an executor is built, so they are variables chosen in Init and left
unchanged by every action. One run then covers every plan.

## 5. Fairness

Only the parallel path has liveness properties. Go runs every runnable
goroutine eventually, so each goroutine's next-state disjunction is weakly
fair: the fetcher, each partial and final worker, the two wait goroutines.
The caller's steps inside `Next` (`NextRecv`, `NextEnd`) and inside `Close`
(`CloseSteps`) are weakly fair too: once called, the caller is running that
code. Whether the caller calls `Next` or `Close` at all is its choice, so
`CallNext` and `CloseBegin` carry no fairness. A crash stops everything
(`Stopped`).

`StreamAggExec` runs in the caller's goroutine: once `Next` is called
(`pc # "idle"`) the caller is executing its loop, so the call's steps
(`InCall`) are weakly fair, restricted to steps with `failed' = failed`: a
child error or an `UpdatePartialResult` error may happen but is never forced,
since forcing one would make every call return by failing and hide a loop
that never ends. `CallNext`, `Open` and `Close` are the caller's choice and
carry no fairness. The other executors' properties are safety properties.

## 6. What is not modelled, and why

- A second `Close` of the parallel path (it closes `finishCh` again and
  panics at once, without any interleaving), and re-`Open` of the parallel
  path.
- The statement memory tracker after `Close` and after a re-Open: the
  modules keep the charges (`mem`, `stmtMem`), but no run checks them. Runs
  are spent on the executors' results and the contract. The parallel model
  does reach one such leak: `Close` straight after `Open` (line 214) closes
  every channel but drains none of the 2·M chunks `initForParallelExec`
  charged (the tickets in `inputCh` and the workers' scratch chunks), so
  `mem = 2 * M * InitCap` when it returns, against spec property 4. That is
  why `RunReleasesMemory` is stated for a prepared run only.
- `MinusInt`'s false overflow for `a < 0, b = MinInt64` (line 453) and
  `MultiplyIntUnsigned` with a negative argument (line 583): the properties
  that show them (`Complete("MinusInt")`, `Sound("MultiplyIntUnsigned")`)
  are expressible with the module's operators, but have no run.
- Two values of one collation class in the StreamAgg runs. Whether the key
  across chunks is collation-aware is decided by `codec.EncodeValue`, which
  is not in this repository; the lines in `src/` hand it the raw string. The
  model takes the raw value, and with values `a`, `b` of one class returns
  the input `<<a>>, <<b>>` as two rows (a TLC run of `RowsCorrect` with
  `Coll[a] = Coll[b]` finds it in a few steps). The runs therefore use
  single-value classes, where a raw and a collation-aware key agree; the
  hazard at line 1259 records the question.
- Panics other than those above: the kernels are abstract. The memory quota
  and runtime statistics.
- Key encoding bytes (`codec`), decimal arithmetic and IntDivideDecimal:
  they depend on code outside `src/` (`codec`, `MyDecimal` division,
  rounding and truncation, `HandleTruncate`) whose behaviour the spec does
  not describe, and that the result of these signatures turns on.
- Float rounding: TLC does not reach it, so the real signatures and
  VAR_SAMP are checked in exact arithmetic.
- The varPop kernel: it is outside `src/`, and is modelled from the spec.
- The result types of real signatures: their `Decimal` is never capped and
  can exceed their `Flen` (a DOUBLE(30,25) operand), but nothing says what
  it may be, so no property is stated over them.
- The test files: they test other components.
