------------------------- MODULE UnparallelHashAgg -------------------------
(***************************************************************************)
(* The single-threaded path of HashAggExec (src/executor/aggregate.go),   *)
(* taken for DISTINCT aggregates: Open, Next (unparallelExec, which runs  *)
(* execute over the whole child input on its first call) and Close.       *)
(*                                                                         *)
(* A row is its group key and the one aggregate is COUNT, so the         *)
(* partialResultMap maps a key to a count.  Memory: mem is the current    *)
(* e.memTracker (a new one per Open); stmtMem is what the statement       *)
(* tracker sees of all of them.                                            *)
(***************************************************************************)
EXTENDS Integers, Sequences, SequencesExt, Functions

CONSTANTS
    Keys,          \* group-by values the child can produce
    EmptyKey,      \* the group key "" of a plan without GROUP BY
    Inputs,        \* the streams of chunks the child may return
    MaxChunkSize,  \* capacity of the caller's chunk
    InitCap,       \* childResult.MemoryUsage() of newFirstChunk
    AllocDelta,    \* memDelta of AllocPartialResult
    UpdateDelta,   \* memDelta of UpdatePartialResult for one row
    ChildMayFail,  \* the child's Next may return an error
    MaxOpens       \* Open calls the caller makes

ASSUME EmptyKey \notin Keys /\ MaxChunkSize \in Nat \ {0}

VARIABLES
    hasGroupBy,           \* len(e.GroupByItems) > 0, fixed by the plan
    lifecycle, opens,     \* "new", "open", "closed"; Open calls made
    input,                \* the child's stream
    groupSet, groupKeys,  \* e.groupSet, e.groupKeys (first-seen order)
    prm,                  \* e.partialResultMap: key -> count
    cursor4GroupKey, prepared,
    out, ended, failed,   \* rows returned this execution; end or error seen
    mem, stmtMem, childMem

vars == <<hasGroupBy, lifecycle, opens, input, groupSet, groupKeys, prm, cursor4GroupKey,
          prepared, out, ended, failed, mem, stmtMem, childMem>>

Key == Keys \cup {EmptyKey}
Row == [k : Key, c : Nat]

\* getGroupKey: the encoded GROUP BY values; "" for every row without one
GetGroupKey(v) == IF hasGroupBy THEN v ELSE EmptyKey

\* getPartialResults: a key without partial results gets fresh ones
\* (AllocPartialResult), whose memDelta is consumed
GetPartialResults(m, k) == IF k \in DOMAIN m THEN m ELSE m @@ (k :> 0)
AllocMem(m, k) == IF k \in DOMAIN m THEN 0 ELSE AllocDelta

\* One row of execute's loop: a new key joins groupSet and groupKeys; the
\* row's partial results are updated and the memDeltas consumed
ExecuteRow(st, v) ==
    LET k == GetGroupKey(v)
        m == GetPartialResults(st.prm, k)
    IN [groupSet  |-> st.groupSet \cup {k},
        groupKeys |-> IF k \in st.groupSet THEN st.groupKeys
                      ELSE Append(st.groupKeys, k),
        prm       |-> [m EXCEPT ![k] = @ + 1],
        mem       |-> st.mem + AllocMem(st.prm, k) + UpdateDelta]

\* execute over the child's chunks: each Next's growth of childResult is
\* consumed, then the chunk's rows are aggregated
Execute(st, chunks) ==
    FoldLeft(LAMBDA s, c : FoldLeft(ExecuteRow, s, c), st, chunks)

MaxLen(chunks, base) ==
    FoldLeft(LAMBDA a, c : IF Len(c) > a THEN Len(c) ELSE a, base, chunks)

\* Without GROUP BY and without data the "" group is added (one row [0])
EmptyGroupNoInsert(st) == st
EmptyGroup(st) ==
    IF st.groupSet = {} /\ ~hasGroupBy
    THEN [st EXCEPT !.groupSet = {EmptyKey}, !.groupKeys = Append(@, EmptyKey)]
    ELSE st

\* for ; e.cursor4GroupKey < len(e.groupKeys); ...: the number of rows the
\* chunk receives, and the cursor after it; when the chunk fills the
\* cursor is advanced past the row just appended before returning
Remaining(keys, cur) == Len(keys) - cur
Emitted(keys, cur) ==
    IF Remaining(keys, cur) < MaxChunkSize THEN Remaining(keys, cur)
    ELSE MaxChunkSize
NextCursorNoIncrement(cur, n) == IF n = MaxChunkSize THEN cur + n - 1 ELSE cur + n
NextCursorTwice(cur, n) == IF n = MaxChunkSize THEN cur + n + 1 ELSE cur + n
NextCursor(cur, n) == cur + n

Init ==
    /\ hasGroupBy \in BOOLEAN /\ lifecycle = "new" /\ opens = 0 /\ input \in Inputs
    /\ groupSet = {} /\ groupKeys = <<>> /\ prm = <<>>
    /\ cursor4GroupKey = 0 /\ prepared = FALSE
    /\ out = <<>> /\ ended = FALSE /\ failed = FALSE
    /\ mem = 0 /\ stmtMem = 0 /\ childMem = 0

\* Open: prepared = false, a new memTracker, initForUnparallelExec (a new
\* groupSet and partialResultMap, a new childResult); groupKeys and
\* cursor4GroupKey are left as they are
Open ==
    /\ lifecycle \in {"new", "closed"} /\ opens < MaxOpens
    /\ lifecycle' = "open" /\ opens' = opens + 1
    /\ prepared' = FALSE /\ groupSet' = {} /\ prm' = <<>>
    /\ mem' = InitCap /\ stmtMem' = stmtMem + InitCap /\ childMem' = InitCap
    /\ out' = <<>> /\ ended' = FALSE /\ failed' = FALSE
    /\ UNCHANGED <<hasGroupBy, input, groupKeys, cursor4GroupKey>>

\* Close: childResult is released; groupSet and partialResultMap dropped
Close ==
    /\ lifecycle = "open"
    /\ lifecycle' = "closed"
    /\ mem' = mem - childMem /\ stmtMem' = stmtMem - childMem /\ childMem' = 0
    /\ groupSet' = {} /\ prm' = <<>>
    /\ UNCHANGED <<hasGroupBy, opens, input, groupKeys, cursor4GroupKey, prepared, out,
                   ended, failed>>

State == [groupSet |-> groupSet, groupKeys |-> groupKeys, prm |-> prm, mem |-> mem]

\* execute stops at a child error: the chunks before it are aggregated
ExecuteFails ==
    /\ lifecycle = "open" /\ ~failed /\ ~prepared /\ ChildMayFail
    /\ \E i \in 1..(Len(input) + 1) :
          LET done == SubSeq(input, 1, i - 1)
              st   == Execute(State, done)
              grow == MaxLen(done, childMem)
          IN /\ groupSet' = st.groupSet /\ groupKeys' = st.groupKeys
             /\ prm' = st.prm /\ childMem' = grow
             /\ mem' = st.mem + grow - childMem
             /\ stmtMem' = stmtMem + (st.mem - mem) + grow - childMem
    /\ failed' = TRUE
    /\ UNCHANGED <<hasGroupBy, lifecycle, opens, input, cursor4GroupKey, prepared, out,
                   ended>>

\* Next: on the first call execute runs over the whole input; then rows
\* for groupKeys[cursor4GroupKey..] fill the chunk, each read through
\* getPartialResults
NextCall ==
    /\ lifecycle = "open" /\ ~failed
    /\ LET st   == IF prepared THEN State ELSE EmptyGroup(Execute(State, input))
           grow == IF prepared THEN childMem ELSE MaxLen(input, childMem)
           n    == Emitted(st.groupKeys, cursor4GroupKey)
           keys == SubSeq(st.groupKeys, cursor4GroupKey + 1, cursor4GroupKey + n)
           m    == FoldLeft(GetPartialResults, st.prm, keys)
           new  == {k \in Range(keys) : k \notin DOMAIN st.prm}
           d    == (st.mem - mem) + grow - childMem + AllocDelta * Cardinality(new)
       IN /\ prepared' = TRUE
          /\ groupSet' = st.groupSet /\ groupKeys' = st.groupKeys /\ prm' = m
          /\ cursor4GroupKey' = NextCursor(cursor4GroupKey, n)
          /\ out' = out \o [i \in 1..n |-> [k |-> keys[i], c |-> m[keys[i]]]]
          /\ ended' = (n = 0)
          /\ mem' = mem + d /\ stmtMem' = stmtMem + d /\ childMem' = grow
    /\ UNCHANGED <<hasGroupBy, lifecycle, opens, input, failed>>

\* Close returned for the last time
Stopped ==
    /\ lifecycle = "closed" /\ opens = MaxOpens
    /\ UNCHANGED vars

Next == Open \/ Close \/ ExecuteFails \/ NextCall \/ Stopped

Spec == Init /\ [][Next]_vars

-----------------------------------------------------------------------------
(* Properties.                                                            *)

\* Reference: the group keys of the input rows, each group in the order
\* of its first row, with its number of rows; without GROUP BY one group
\* "", also for no input (spec 4.5.7).
KeysOf(inp, g) ==
    LET f == FlattenSeq(inp)
    IN [i \in DOMAIN f |-> IF g THEN f[i] ELSE EmptyKey]

ExpectedFor(inp, g) ==
    LET ik == KeysOf(inp, g)
        firstAt(k) == CHOOSE i \in DOMAIN ik : ik[i] = k /\
                          \A j \in 1..(i - 1) : ik[j] # k
    IN IF ik = <<>>
       THEN IF g THEN <<>> ELSE <<[k |-> EmptyKey, c |-> 0]>>
       ELSE LET ks == SetToSortSeq(Range(ik),
                                   LAMBDA x, y : firstAt(x) < firstAt(y))
            IN [i \in DOMAIN ks |->
                  [k |-> ks[i],
                   c |-> Cardinality({j \in DOMAIN ik : ik[j] = ks[i]})]]

Expected == ExpectedFor(input, hasGroupBy)

TypeOK ==
    /\ hasGroupBy \in BOOLEAN
    /\ lifecycle \in {"new", "open", "closed"} /\ opens \in 0..MaxOpens
    /\ groupSet \subseteq Key /\ groupKeys \in Seq(Key)
    /\ DOMAIN prm \subseteq Key /\ \A k \in DOMAIN prm : prm[k] \in Nat
    /\ cursor4GroupKey \in 0..Len(groupKeys)
    /\ {prepared, ended, failed} \subseteq BOOLEAN
    /\ out \in Seq(Row)
    /\ {mem, stmtMem, childMem} \subseteq Nat

(* The rows Next has returned in this execution are the groups of the     *)
(* input in first-seen order, each once with its count: the cursor over   *)
(* groupKeys neither skips nor repeats a group across Next calls, and     *)
(* nothing of an earlier execution shows up after a re-Open.              *)
RowsCorrect ==
    IsPrefix(out, Expected)

(* Once Next has returned an empty chunk, every group has been returned,  *)
(* including the one row of an aggregate without GROUP BY over no input. *)
ResultComplete ==
    ended => out = Expected
=============================================================================
