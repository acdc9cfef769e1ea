----------------------------- MODULE StreamAgg -----------------------------
(***************************************************************************)
(* StreamAggExec (src/executor/aggregate.go): aggregation over a child    *)
(* stream sorted on the GROUP BY key, one output row per group, driven by *)
(* the caller's Open, Next and Close.  Group boundaries come from the     *)
(* vecGroupChecker, instantiated from VecGroupChecker.                    *)
(*                                                                         *)
(* The aggregate functions are firstrow and COUNT, so a partial result    *)
(* (and an output row) is [first value, count].  A Next call is split at  *)
(* its child fetches: pc says where the call is inside consumeOneGroup.   *)
(* Memory: mem is the current e.memTracker; stmtMem is what the statement *)
(* tracker sees of every tracker this executor ever attached.             *)
(***************************************************************************)
EXTENDS Integers, Sequences, SequencesExt

CONSTANTS
    Vals, Coll, NoKey, MaxRows,   \* as in VecGroupChecker
    Inputs,        \* the sorted streams of chunks the child may return
    Plans,         \* [groupBy : BOOLEAN, default : BOOLEAN]: GROUP BY items
                   \* present; the plan gives defaultVal
    MaxChunkSize,  \* capacity of the caller's chunk (req.IsFull)
    InitCap,       \* childResult.MemoryUsage() of newFirstChunk
    AllocDelta,    \* memDelta of AllocPartialResult
    UpdateDelta,   \* memDelta of UpdatePartialResult for a non-empty group
    ChildMayFail,  \* the child's Next may return an error
    UpdateMayFail, \* UpdatePartialResult may return an error
    MaxOpens,      \* Open calls the caller makes
    NoVal          \* firstrow of no row (NULL)

ASSUME /\ \A pl \in Plans : pl.default => ~pl.groupBy
       /\ MaxChunkSize \in Nat \ {0} /\ MaxOpens \in Nat \ {0}

VARIABLES
    plan,                          \* the plan the executor was built from
    lifecycle, opens,              \* "new", "open", "closed"; Open calls
    input, pos,                    \* the child's stream and its cursor
    childResult, gc, groupEvents,  \* e.childResult, e.groupChecker, e.groupEvents
    partial,                       \* e.partialResults
    executed, isChildReturnEmpty,
    pc, req, out, failed, panicked, \* the caller and its Next call
    mem, stmtMem, hasTracker, childMem

vars == <<plan, lifecycle, opens, input, pos, childResult, gc, groupEvents, partial,
          executed, isChildReturnEmpty, pc, req, out, failed, panicked, mem,
          stmtMem, hasTracker, childMem>>

GC == INSTANCE VecGroupChecker WITH HasGroupBy <- plan.groupBy

Row == [first : Vals \cup {NoVal}, cnt : Nat]

\* AllocPartialResult / ResetPartialResult; also the plan's defaultVal row
EmptyPartial == [first |-> NoVal, cnt |-> 0]

\* UpdatePartialResult of every aggregate over the group's events
UpdatePartial(p, evs) ==
    IF evs = <<>> THEN p
    ELSE [first |-> IF p.first = NoVal THEN evs[1] ELSE p.first,
          cnt   |-> p.cnt + Len(evs)]

\* appendResult2Chunk: the row is appended, then the partial result reset
ResetPartialResultKeep(p) == p
ResetPartialResult(p) == EmptyPartial

IsFullOffByOne(r) == Len(r) > MaxChunkSize
IsFull(r) == Len(r) >= MaxChunkSize

\* No more data: the last group's row, else the default row
EndRowsNoLast(p) ==
    IF ~isChildReturnEmpty THEN <<>>
    ELSE IF plan.default THEN <<EmptyPartial>> ELSE <<>>
EndRows(p) ==
    IF ~isChildReturnEmpty THEN <<p>>
    ELSE IF plan.default THEN <<EmptyPartial>> ELSE <<>>

\* consumeGroupEvents: memDelta of each update goes to e.memTracker
UpdateMem(evs) == IF evs = <<>> THEN 0 ELSE UpdateDelta

\* The child's Next fills childResult; the size delta is charged
ChildChunk == IF pos < Len(input) THEN input[pos + 1] ELSE <<>>
GrownMem == IF Len(ChildChunk) > childMem THEN Len(ChildChunk) ELSE childMem

ChildOutcomes == IF ChildMayFail THEN {"err", "ok"} ELSE {"ok"}

Charge(d) == mem' = mem + d /\ stmtMem' = stmtMem + d

\* A Next call returns its error: executed is set, the chunk is dropped
ReturnError ==
    /\ executed' = TRUE /\ failed' = TRUE /\ pc' = "idle" /\ req' = <<>>

Init ==
    /\ plan \in Plans /\ lifecycle = "new" /\ opens = 0
    /\ input \in Inputs /\ pos = 0
    /\ childResult = <<>> /\ gc = GC!NewVecGroupChecker /\ groupEvents = <<>>
    /\ partial = EmptyPartial
    /\ executed = FALSE /\ isChildReturnEmpty = TRUE
    /\ pc = "idle" /\ req = <<>> /\ out = <<>>
    /\ failed = FALSE /\ panicked = FALSE
    /\ mem = 0 /\ stmtMem = 0 /\ hasTracker = FALSE /\ childMem = 0

\* Open: the partial results are allocated and their memDelta consumed by
\* e.memTracker before NewTracker replaces it (nil on the first Open, the
\* previous, still attached, tracker on a later one); the child restarts
Open ==
    /\ lifecycle \in {"new", "closed"} /\ opens < MaxOpens
    /\ lifecycle' = "open" /\ opens' = opens + 1
    /\ pos' = 0 /\ childResult' = <<>> /\ partial' = EmptyPartial
    /\ executed' = FALSE /\ isChildReturnEmpty' = TRUE
    /\ out' = <<>> /\ failed' = FALSE
    /\ stmtMem' = stmtMem + (IF hasTracker THEN AllocDelta ELSE 0) + InitCap
    /\ mem' = InitCap /\ childMem' = InitCap /\ hasTracker' = TRUE
    /\ UNCHANGED <<plan, input, gc, groupEvents, pc, req, panicked>>

\* Close: childResult is released and the group checker reset
Close ==
    /\ lifecycle = "open" /\ pc = "idle"
    /\ lifecycle' = "closed"
    /\ Charge(-childMem) /\ childMem' = 0
    /\ childResult' = <<>> /\ gc' = GC!Reset(gc)
    /\ UNCHANGED <<plan, opens, input, pos, groupEvents, partial, executed,
                   isChildReturnEmpty, pc, req, out, failed, panicked,
                   hasTracker>>

CallNext ==
    /\ lifecycle = "open" /\ pc = "idle"
    /\ pc' = "loop" /\ req' = <<>>
    /\ UNCHANGED <<plan, lifecycle, opens, input, pos, childResult, gc, groupEvents,
                   partial, executed, isChildReturnEmpty, out, failed,
                   panicked, mem, stmtMem, hasTracker, childMem>>

\* for !e.executed && !req.IsFull() { ... }: the loop ends, Next returns
NextReturn ==
    /\ pc = "loop" /\ (executed \/ IsFull(req))
    /\ pc' = "idle" /\ out' = out \o req /\ req' = <<>>
    /\ UNCHANGED <<plan, lifecycle, opens, input, pos, childResult, gc, groupEvents,
                   partial, executed, isChildReturnEmpty, failed, panicked,
                   mem, stmtMem, hasTracker, childMem>>

AtGroupStart == pc = "loop" /\ ~executed /\ ~IsFull(req)

\* consumeCurGroupEventsAndFetchChild: the pending events are consumed
\* into the partial result, then the child's Next is called
Consumed == UpdatePartial(partial, groupEvents)

FetchError ==
    /\ ReturnError
    /\ partial' = Consumed /\ groupEvents' = <<>>
    /\ Charge(UpdateMem(groupEvents))
    /\ UNCHANGED <<pos, childResult, gc, isChildReturnEmpty, childMem>>

\* e.executed = true left out
FetchEndNotExecuted ==
    /\ ChildChunk = <<>>
    /\ req' = req \o EndRows(Consumed)
    /\ partial' = IF isChildReturnEmpty THEN Consumed
                  ELSE ResetPartialResult(Consumed)
    /\ executed' = executed /\ pc' = "loop"
    /\ childResult' = <<>> /\ groupEvents' = <<>>
    /\ Charge(UpdateMem(groupEvents))
    /\ UNCHANGED <<pos, gc, isChildReturnEmpty, childMem, failed>>

\* No more data: the last group's row, or the default row, is appended
FetchEnd ==
    /\ ChildChunk = <<>>
    /\ req' = req \o EndRows(Consumed)
    /\ partial' = IF isChildReturnEmpty THEN Consumed
                  ELSE ResetPartialResult(Consumed)
    /\ executed' = TRUE /\ pc' = "loop"
    /\ childResult' = <<>> /\ groupEvents' = <<>>
    /\ Charge(UpdateMem(groupEvents))
    /\ UNCHANGED <<pos, gc, isChildReturnEmpty, childMem, failed>>

\* A chunk with rows: isChildReturnEmpty = false, the chunk is split
FetchRows ==
    /\ ChildChunk # <<>>
    /\ childResult' = ChildChunk /\ pos' = pos + 1
    /\ isChildReturnEmpty' = FALSE /\ partial' = Consumed
    /\ childMem' = GrownMem
    /\ Charge(UpdateMem(groupEvents) + GrownMem - childMem)
    /\ UNCHANGED <<executed, req, failed>>

\* consumeOneGroup with the checker exhausted: fetch, then split
FetchTop ==
    /\ AtGroupStart /\ GC!IsExhausted(gc)
    /\ \E o \in ChildOutcomes :
          \/ o = "err" /\ FetchError
          \/ o = "ok" /\ FetchEnd
          \/ /\ o = "ok" /\ FetchRows
             /\ gc' = GC!SplitIntoGroups(gc, ChildChunk).g
             /\ groupEvents' = <<>> /\ pc' = "group"
    /\ UNCHANGED <<plan, lifecycle, opens, input, out, panicked, hasTracker>>

\* begin, end := e.groupChecker.getNextGroup(); the group's events are
\* collected; a group ending the chunk may continue in the next one
TakeGroup ==
    /\ pc = "group" \/ (AtGroupStart /\ ~GC!IsExhausted(gc))
    /\ IF GC!GetNextGroupInRange(gc)
       THEN LET n == GC!GetNextGroup(gc) IN
            /\ gc' = n.g
            /\ groupEvents' = groupEvents \o SubSeq(childResult, n.begin + 1, n.end)
            /\ pc' = IF n.end = Len(childResult) THEN "extend" ELSE "finish"
            /\ UNCHANGED panicked
       ELSE panicked' = TRUE /\ pc' = "panic" /\ UNCHANGED <<gc, groupEvents>>
    /\ UNCHANGED <<plan, lifecycle, opens, input, pos, childResult, partial, executed,
                   isChildReturnEmpty, req, out, failed, mem, stmtMem,
                   hasTracker, childMem>>

\* for meetLastGroup: fetch; if the new chunk's first group continues the
\* current one its events are added, else the current group is finished
FetchExtend ==
    /\ pc = "extend"
    /\ \E o \in ChildOutcomes :
          \/ o = "err" /\ FetchError
          \/ o = "ok" /\ FetchEnd
          \/ /\ o = "ok" /\ FetchRows
             /\ LET r == GC!SplitIntoGroups(gc, ChildChunk)
                    n == GC!GetNextGroup(r.g)
                IN IF r.same
                   THEN /\ gc' = n.g
                        /\ groupEvents' = SubSeq(ChildChunk, n.begin + 1, n.end)
                        /\ pc' = IF n.end = Len(ChildChunk) THEN "extend"
                                 ELSE "finish"
                   ELSE gc' = r.g /\ groupEvents' = <<>> /\ pc' = "finish"
    /\ UNCHANGED <<plan, lifecycle, opens, input, out, panicked, hasTracker>>

\* consumeGroupEvents, then appendResult2Chunk
Finish ==
    /\ pc = "finish"
    /\ req' = Append(req, Consumed)
    /\ partial' = ResetPartialResult(Consumed) /\ groupEvents' = <<>>
    /\ Charge(UpdateMem(groupEvents))
    /\ pc' = "loop"
    /\ UNCHANGED <<plan, lifecycle, opens, input, pos, childResult, gc, executed,
                   isChildReturnEmpty, out, failed, panicked, hasTracker,
                   childMem>>

\* UpdatePartialResult fails: Next returns the error; e.groupEvents is left
\* as it is
UpdateFails ==
    /\ UpdateMayFail /\ pc \in {"extend", "finish"} /\ groupEvents # <<>>
    /\ ReturnError
    /\ UNCHANGED <<plan, lifecycle, opens, input, pos, childResult, gc, groupEvents,
                   partial, isChildReturnEmpty, out, panicked, mem, stmtMem,
                   hasTracker, childMem>>

\* Close returned for the last time, or the process panicked
Stopped ==
    /\ (lifecycle = "closed" /\ opens = MaxOpens) \/ panicked
    /\ UNCHANGED vars

Next ==
    \/ Open \/ Close \/ CallNext \/ NextReturn
    \/ FetchTop \/ TakeGroup \/ FetchExtend \/ Finish \/ UpdateFails
    \/ Stopped

(* Next runs on the caller's goroutine: once called, its loop keeps       *)
(* running, so the steps inside a call are weakly fair.  Whether the      *)
(* caller calls Next, Open or Close is its choice and carries no fairness, *)
(* and so does a failure: the fair steps are those that return no error   *)
(* (UpdateFails and a child error are never forced).                      *)
InCall == NextReturn \/ FetchTop \/ TakeGroup \/ FetchExtend \/ Finish

Spec == Init /\ [][Next]_vars /\ WF_vars(InCall /\ failed' = failed)

-----------------------------------------------------------------------------
(* Properties.                                                            *)

\* The result the query must return for the child's stream inp: one row
\* per maximal run of equal keys of the sorted input, in input order (one
\* row for all input without GROUP BY); with no input row only the plan's
\* default row.
ExpectedFor(inp, pl) ==
    LET f == FlattenSeq(inp) IN
    IF f = <<>>
    THEN IF pl.default THEN <<EmptyPartial>> ELSE <<>>
    ELSE IF pl.groupBy THEN GC!Runs(f)
    ELSE <<[first |-> f[1], cnt |-> Len(f)]>>

Expected == ExpectedFor(input, plan)

TypeOK ==
    /\ plan \in Plans
    /\ lifecycle \in {"new", "open", "closed"} /\ opens \in 0..MaxOpens
    /\ pos \in 0..Len(input) /\ childResult \in Seq(Vals)
    /\ gc \in GC!Checker /\ groupEvents \in Seq(Vals) /\ partial \in Row
    /\ {executed, isChildReturnEmpty, failed, panicked, hasTracker}
          \subseteq BOOLEAN
    /\ pc \in {"idle", "loop", "group", "extend", "finish", "panic"}
    /\ req \in Seq(Row) /\ Len(req) <= MaxChunkSize
    /\ out \in Seq(Row)
    /\ {mem, stmtMem, childMem} \subseteq Nat

(* Every row StreamAggExec has produced in this execution, returned or    *)
(* still in the caller's chunk, is the next group of the sorted input:    *)
(* a group split across chunks is one row, no row is repeated, merged or  *)
(* reordered, whatever errors the child or an update returned.            *)
RowsCorrect ==
    IsPrefix(out \o req, Expected)

(* When a Next call returns after the input is exhausted without error,   *)
(* the caller has every group's row: the last group, and for empty input *)
(* the default row, were appended.                                        *)
ResultComplete ==
    (executed /\ ~failed /\ pc = "idle") => out = Expected

(* getNextGroup never indexes past groupOffset (a Go panic), for any      *)
(* legal order of Open, Next and Close.                                    *)
NoGroupIndexPanic ==
    ~panicked

(* Every Next call returns: the loop of consumeOneGroup that extends the   *)
(* current group into the next child chunk (for meetLastGroup) fetches a  *)
(* new chunk each round, so it ends at a group boundary, at the end of    *)
(* the input (which sets executed) or at an error.  A panic is excluded;  *)
(* NoGroupIndexPanic covers it.                                            *)
NextCallReturns ==
    (pc = "loop") ~> (pc = "idle" \/ panicked)
=============================================================================
