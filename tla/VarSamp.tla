------------------------------ MODULE VarSamp ------------------------------
(***************************************************************************)
(* VAR_SAMP (src/executor/aggfuncs/func_varsamp.go): the final step       *)
(* AppendFinalResult2Chunk of varSamp4Float64 and varSamp4DistinctFloat64 *)
(* over the partial result of the population-variance kernel they embed.  *)
(* That kernel (update, merge) is not under src/ and is modelled from     *)
(* spec 2: count, mean and the sum of squared deviations kept by          *)
(* Welford's recurrence; the DISTINCT variant also keeps the set of       *)
(* values seen.  Arithmetic is exact: a number is a rational <<n, d>>,    *)
(* d > 0, so the model shows the algorithm, not float64 rounding.         *)
(*                                                                         *)
(* The partial workers of a parallel HashAggExec each update a partial    *)
(* result, the final worker merges them in arrival order, then appends.   *)
(* A DISTINCT aggregate runs unparallel: one worker gets the rows, and    *)
(* merging its partial result into an empty one leaves it as it is.       *)
(***************************************************************************)
EXTENDS Integers, FiniteSets, Sequences, FiniteSetsExt

CONSTANTS
    Values,    \* input values, small integers
    Workers,   \* partial workers
    MaxRows,   \* rows fed in all
    Null       \* chk.AppendNull

ASSUME Values \subseteq Int /\ MaxRows \in Nat /\ Null \notin Int \X Int

VARIABLES
    distinct,  \* VAR_SAMP(DISTINCT x): varSamp4DistinctFloat64
    pr,      \* the partial result of each worker
    fed,     \* the rows each worker was given
    merged,  \* workers whose partial result the final worker merged
    fin,     \* the final worker's partial result
    out      \* the value appended to the chunk, or <<>> before

vars == <<distinct, pr, fed, merged, fin, out>>

\* Exact arithmetic on rationals
Q(n) == <<n, 1>>
QAdd(a, b) == <<a[1] * b[2] + b[1] * a[2], a[2] * b[2]>>
QSub(a, b) == <<a[1] * b[2] - b[1] * a[2], a[2] * b[2]>>
QMul(a, b) == <<a[1] * b[1], a[2] * b[2]>>
QDiv(a, b) == IF b[1] < 0 THEN <<-(a[1] * b[2]), -(a[2] * b[1])>>
              ELSE <<a[1] * b[2], a[2] * b[1]>>
QEq(a, b)  == a[1] * b[2] = b[1] * a[2]

\* AllocPartialResult / ResetPartialResult
PartialResult == [count |-> 0, mean |-> Q(0), variance |-> Q(0), seen |-> {}]

\* UpdatePartialResult for one row: Welford's recurrence; the DISTINCT
\* variant skips a value it has seen
UpdateVarPop(p, x) ==
    LET n     == p.count + 1
        delta == QSub(Q(x), p.mean)
        mean  == QAdd(p.mean, QDiv(delta, Q(n)))
    IN [p EXCEPT !.count = n, !.mean = mean,
                 !.variance = QAdd(@, QMul(delta, QSub(Q(x), mean)))]
Update(p, x) ==
    IF distinct /\ x \in p.seen THEN p
    ELSE [UpdateVarPop(p, x) EXCEPT !.seen = @ \cup {x}]

\* MergePartialResult: the pairwise combination of count, mean and M2;
\* an empty side leaves the other as it is
MergeVarPopNoCross(src, dst) ==
    [dst EXCEPT !.count = @ + src.count,
                !.mean = IF dst.count = 0 THEN src.mean ELSE @,
                !.variance = QAdd(@, src.variance), !.seen = @ \cup src.seen]
MergeVarPop(src, dst) ==
    IF src.count = 0 THEN dst
    ELSE IF dst.count = 0 THEN src
    ELSE LET n     == src.count + dst.count
             delta == QSub(src.mean, dst.mean)
         IN [dst EXCEPT
               !.count    = n,
               !.mean     = QAdd(dst.mean, QDiv(QMul(delta, Q(src.count)), Q(n))),
               !.variance = QAdd(QAdd(dst.variance, src.variance),
                                 QDiv(QMul(QMul(delta, delta),
                                           Q(src.count * dst.count)), Q(n))),
               !.seen     = @ \cup src.seen]

\* AppendFinalResult2Chunk: NULL for count <= 1, else variance/(count-1)
AppendFinalResultLt(p) ==
    IF p.count < 1 THEN Null ELSE QDiv(p.variance, Q(p.count - 1))
AppendFinalResult2Chunk(p) ==
    IF p.count <= 1 THEN Null ELSE QDiv(p.variance, Q(p.count - 1))

\* the workers that get rows: a DISTINCT aggregate runs unparallel
Active == IF distinct THEN {CHOOSE w \in Workers : TRUE} ELSE Workers

Rows == UNION {{<<w, i>> : i \in DOMAIN fed[w]} : w \in Workers}

Init ==
    /\ distinct \in BOOLEAN
    /\ pr = [w \in Workers |-> PartialResult]
    /\ fed = [w \in Workers |-> <<>>]
    /\ merged = {} /\ fin = PartialResult /\ out = <<>>

\* A partial worker updates its partial result with one more row
UpdateRow(w) ==
    /\ w \in Active /\ w \notin merged /\ Cardinality(Rows) < MaxRows
    /\ \E x \in Values :
          /\ pr' = [pr EXCEPT ![w] = Update(@, x)]
          /\ fed' = [fed EXCEPT ![w] = Append(@, x)]
    /\ UNCHANGED <<distinct, merged, fin, out>>

\* The final worker merges a partial result it received
Merge(w) ==
    /\ w \notin merged
    /\ fin' = MergeVarPop(pr[w], fin) /\ merged' = merged \cup {w}
    /\ UNCHANGED <<distinct, pr, fed, out>>

\* All partial results are in: the final value is appended
AppendResult ==
    /\ merged = Workers /\ out = <<>>
    /\ out' = <<AppendFinalResult2Chunk(fin)>>
    /\ UNCHANGED <<distinct, pr, fed, merged, fin>>

Done == out # <<>> /\ UNCHANGED vars

Next == (\E w \in Workers : UpdateRow(w) \/ Merge(w)) \/ AppendResult \/ Done

Spec == Init /\ [][Next]_vars

-----------------------------------------------------------------------------
(* Reference: the sample variance of the rows, by its definition.          *)

AllRows == [r \in Rows |-> fed[r[1]][r[2]]]

\* The values aggregated: every row, or each distinct value once
Aggregated ==
    IF distinct THEN {<<x, x>> : x \in {AllRows[r] : r \in Rows}}
    ELSE {<<r, AllRows[r]>> : r \in Rows}

\* sum((x - mean)^2) / (n - 1) = (n * sum(x^2) - sum(x)^2) / (n * (n - 1))
SampleVariance ==
    LET n  == Cardinality(Aggregated)
        s1 == MapThenSumSet(LAMBDA a : a[2], Aggregated)
        s2 == MapThenSumSet(LAMBDA a : a[2] * a[2], Aggregated)
    IN IF n <= 1 THEN Null ELSE <<n * s2 - s1 * s1, n * (n - 1)>>

TypeOK ==
    /\ \A w \in Workers : pr[w].count \in 0..MaxRows /\ pr[w].seen \subseteq Values
    /\ fed \in [Workers -> Seq(Values)] /\ merged \subseteq Workers
    /\ out = <<>> \/ (out[1] = Null \/ (out[1] \in Int \X Int /\ out[1][2] > 0))

(* The value VAR_SAMP appends equals the sample variance of all the rows  *)
(* the partial workers were given (of the distinct values for DISTINCT),  *)
(* whichever worker got which rows and in whatever order the final worker *)
(* merged them; NULL exactly when there are at most one.                  *)
VarSampCorrect ==
    out # <<>> =>
        \/ out[1] = Null /\ SampleVariance = Null
        \/ /\ out[1] # Null /\ SampleVariance # Null
           /\ out[1][2] # 0 /\ QEq(out[1], SampleVariance)
=============================================================================
