---------------------------- MODULE MC_StreamAgg ----------------------------
(* Values a < b < c, each its own collation class (see VecGroupChecker:  *)
(* the key across chunks is the raw value); the plan                       *)
(* groups by the value, or has no GROUP BY and a default row; the child   *)
(* returns every sorted stream of up to MaxChunks chunks of 1..MaxRows    *)
(* rows, so that groups span chunks, chunks hold several groups, and     *)
(* the caller's chunk fills inside a child chunk.                          *)
EXTENDS StreamAgg

CONSTANTS a, b, c, MaxChunks

MCVals == {a, b, c}
MCColl == (a :> 1) @@ (b :> 2) @@ (c :> 3)
\* with GROUP BY; without, and with the default row
MCPlans == {[groupBy |-> TRUE, default |-> FALSE],
            [groupBy |-> FALSE, default |-> TRUE]}
MCInputs ==
    {s \in SeqOf(GC!Chunks, MaxChunks) : GC!Sorted(FlattenSeq(s))}

\* An execution returns at most as many rows as its input has.  Since
\* RowsCorrect keeps out a prefix of the expected rows, this bound never
\* cuts a behaviour of the model; it keeps the state space finite for a
\* variant that keeps appending rows after the end of the input.
RowBound == Len(out) <= MaxChunks * MaxRows
=============================================================================
