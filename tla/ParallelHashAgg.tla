-------------------------- MODULE ParallelHashAgg --------------------------
(***************************************************************************)
(* The parallel execution of HashAggExec (src/executor/aggregate.go):      *)
(* one data fetcher, M partial workers and N final workers joined by Go    *)
(* channels, driven by the caller's Next and Close.                       *)
(*                                                                         *)
(* Data is abstracted to what the properties tell apart: a row is its      *)
(* group key, the one aggregate is COUNT, so a partial result is a count  *)
(* and merging adds counts.  A chunk's columns are a buffer id whose       *)
(* memory size grows with the rows it has held (Go keeps slice capacity). *)
(* Every goroutine is a program counter; a blocking channel operation is  *)
(* an action enabled only when Go would let it proceed; a send on a        *)
(* closed channel panics, and since recoveryHashAgg sends on the same     *)
(* channel again the process crashes (variable crashed).                  *)
(***************************************************************************)
EXTENDS Integers, Sequences, FiniteSets, SequencesExt, TLC

CONSTANTS
    M,            \* milevadb_hashagg_partial_concurrency
    N,            \* milevadb_hashagg_final_concurrency
    Keys,         \* group keys the child can produce
    Hash,         \* [Keys -> 1..N]: murmur3.Sum32(key) % finalConcurrency + 1
    Inputs,       \* the streams of chunks the child may return
    MaxChunkSize, \* maxChunkSize: output chunk capacity and merge batch size
    InitCap,      \* memory size of a chunk made by newFirstChunk
    HasDefault,   \* the plan provides defaultVal (scalar aggregate)
    ChildMayFail, \* the child's Next may return an error
    EvalMayFail,  \* getGroupKey / UpdatePartialResult may return an error
    MergeMayFail, \* MergePartialResult may return an error
    NoGroup       \* the key of the default row

ASSUME /\ M \in Nat \ {0} /\ N \in Nat \ {0}
       /\ Hash \in [Keys -> 1..N]
       /\ Inputs \subseteq Seq(Seq(Keys) \ {<<>>})
       /\ MaxChunkSize \in Nat \ {0} /\ InitCap \in Nat \ {0}

Partial == 1..M
Final   == 1..N
Bufs    == 1..(2 * M)          \* column buffers: M scratch chunks, M tickets
Ticket  == [buf : Bufs, back : Partial]
Row     == [k : Keys \cup {NoGroup}, c : Nat]
IsMap(m) == DOMAIN m \subseteq Keys /\ \A k \in DOMAIN m : m[k] \in Nat

VARIABLES
    inputCh, inputClosed,   \* e.inputCh: HashAggInput tickets, cap M
    pin, pinClosed,         \* e.partialInputChs[i]: filled chunks, cap 1
    pout, poutClosed,       \* e.partialOutputChs[j]: HashAggIntermData, cap M
    fout, foutClosed,       \* e.finalOutputCh: AfFinalResult, cap N
    finishClosed,           \* e.finishCh has been closed
    holder,                 \* finalResultHolderCh[j] holds its chunk (cap 1)
    sz, mem,                \* buffer sizes; e.memTracker's consumed bytes
    fpc, ftk, pos,          \* fetcher: pc, ticket in hand, child cursor
    ppc, pbuf, prows, ptk, pmap, needShuffle,   \* partial workers
    gpc, gmap, gset, cur, rem, grows,           \* final workers
    wpc, wfpc,              \* the two waitGroup goroutines
    mpc, prepared, executed, childEmpty, out,   \* the caller
    crashed,
    input                   \* the chunks the child returns

fetchVars   == <<fpc, ftk, pos>>
partialVars == <<ppc, pbuf, prows, ptk, pmap, needShuffle>>
finalVars   == <<gpc, gmap, gset, cur, rem, grows>>
chanVars    == <<inputCh, inputClosed, pin, pinClosed, pout, poutClosed,
                 fout, foutClosed, finishClosed, holder>>
mainVars    == <<mpc, prepared, executed, childEmpty, out>>
vars == <<chanVars, sz, mem, fetchVars, partialVars, finalVars,
          wpc, wfpc, mainVars, crashed, input>>

MaxNat(a, b) == IF a > b THEN a ELSE b
MinNat(a, b) == IF a < b THEN a ELSE b

\* the number of rows of key k in a sequence of rows
Occ(rows, k) == Cardinality({i \in DOMAIN rows : rows[i] = k})

\* getPartialResult: every key gets a freshly allocated (zero) result
AllocUnzeroed(m, ks) == [k \in DOMAIN m \cup ks |-> IF k \in DOMAIN m THEN m[k] ELSE -1]
Alloc(m, ks) == [k \in DOMAIN m \cup ks |-> IF k \in DOMAIN m THEN m[k] ELSE 0]

\* UpdatePartialResult of COUNT over rows, keys already allocated
AddRows(m, rows) == [k \in DOMAIN m |-> m[k] + Occ(rows, k)]

\* the subsets of S that a loop bounded by MaxChunkSize takes next, in
\* the random order of Go map iteration
NextBatches(S) == {B \in SUBSET S : Cardinality(B) = MinNat(MaxChunkSize, Cardinality(S))}

\* a send on a buffered Go channel proceeds while the buffer has room
CanSend(ch, cap) == Len(ch) < cap

DefaultRow == [k |-> NoGroup, c |-> 0]
AllRows    == FlattenSeq(input)

Crash == /\ crashed' = TRUE
         /\ UNCHANGED <<chanVars, sz, mem, fetchVars, partialVars, finalVars,
                        wpc, wfpc, mainVars, input>>

(* Open: initForParallelExec allocates the channels and chunks and seeds  *)
(* inputCh with one ticket per partial worker; no goroutine runs yet.    *)
Init ==
    /\ input \in Inputs
    /\ inputCh = [i \in 1..M |-> [buf |-> M + i, back |-> i]]
    /\ inputClosed = FALSE
    /\ pin = [p \in Partial |-> <<>>] /\ pinClosed = FALSE
    /\ pout = [f \in Final |-> <<>>] /\ poutClosed = FALSE
    /\ fout = <<>> /\ foutClosed = FALSE
    /\ finishClosed = FALSE
    /\ holder = [f \in Final |-> TRUE]
    /\ sz = [b \in Bufs |-> InitCap]
    /\ mem = 2 * M * InitCap
    /\ fpc = "off" /\ ftk = [buf |-> 1, back |-> 1] /\ pos = 1
    /\ ppc = [p \in Partial |-> "off"] /\ pbuf = [p \in Partial |-> p]
    /\ prows = [p \in Partial |-> <<>>] /\ ptk = [p \in Partial |-> p]
    /\ pmap = [p \in Partial |-> <<>>] /\ needShuffle = [p \in Partial |-> FALSE]
    /\ gpc = [f \in Final |-> "off"] /\ gmap = [f \in Final |-> <<>>]
    /\ gset = [f \in Final |-> {}]
    /\ cur = [f \in Final |-> [keys |-> {}, from |-> 1]]
    /\ rem = [f \in Final |-> {}] /\ grows = [f \in Final |-> {}]
    /\ wpc = "off" /\ wfpc = "off"
    /\ mpc = "idle" /\ prepared = FALSE /\ executed = FALSE
    /\ childEmpty = TRUE /\ out = <<>>
    /\ crashed = FALSE

-----------------------------------------------------------------------------
(* The data fetcher: fetchChildData.                                      *)

\* select on finishCh and inputCh; Go picks at random among ready cases
FetchSelect ==
    /\ fpc = "loop"
    /\ \/ /\ finishClosed
          /\ fpc' = "exit" /\ UNCHANGED <<inputCh, ftk>>
       \/ /\ inputCh # <<>>
          /\ ftk' = Head(inputCh) /\ inputCh' = Tail(inputCh)
          /\ fpc' = "next"
       \/ /\ inputClosed /\ inputCh = <<>>
          /\ fpc' = "exit" /\ UNCHANGED <<inputCh, ftk>>
    /\ UNCHANGED <<inputClosed, pin, pinClosed, pout, poutClosed, fout,
                   foutClosed, finishClosed, holder, sz, mem, pos,
                   partialVars, finalVars, wpc, wfpc, mainVars, crashed, input>>

\* Next(ctx, e.children[0], chk) and the memory delta of the refill
FetchChild ==
    /\ fpc = "next"
    /\ \/ /\ ChildMayFail
          /\ fpc' = "report" /\ UNCHANGED <<pos, sz, mem>>
       \/ /\ pos > Len(input)
          /\ mem' = mem - sz[ftk.buf]
          /\ fpc' = "exit" /\ UNCHANGED <<pos, sz>>
       \/ /\ pos <= Len(input)
          /\ LET b == ftk.buf
                 s == MaxNat(sz[b], Len(input[pos]))
             IN /\ sz' = [sz EXCEPT ![b] = s]
                /\ mem' = mem + s - sz[b]
          /\ pos' = pos + 1
          /\ fpc' = "give"
    /\ UNCHANGED <<chanVars, ftk, partialVars, finalVars, wpc, wfpc,
                   mainVars, crashed, input>>

\* input.giveBackCh <- chk: a plain send to the ticket's partial worker
FetchGive ==
    /\ fpc = "give"
    /\ CanSend(pin[ftk.back], 1)
    /\ pin' = [pin EXCEPT ![ftk.back] = Append(@, [buf |-> ftk.buf,
                                                   rows |-> input[pos - 1]])]
    /\ fpc' = "loop"
    /\ UNCHANGED <<inputCh, inputClosed, pinClosed, pout, poutClosed, fout,
                   foutClosed, finishClosed, holder, sz, mem, ftk, pos,
                   partialVars, finalVars, wpc, wfpc, mainVars, crashed, input>>

\* e.finalOutputCh <- &AfFinalResult{err: err}; then release the chunk
FetchReport ==
    /\ fpc = "report"
    /\ \/ /\ foutClosed
          /\ Crash
       \/ /\ ~foutClosed /\ CanSend(fout, N)
          /\ fout' = Append(fout, [err |-> TRUE, rows |-> {}, from |-> 1])
          /\ mem' = mem - sz[ftk.buf]
          /\ fpc' = "exit"
          /\ UNCHANGED <<inputCh, inputClosed, pin, pinClosed, pout,
                         poutClosed, foutClosed, finishClosed, holder, sz,
                         ftk, pos, partialVars, finalVars, wpc, wfpc,
                         mainVars, crashed, input>>

\* the deferred close of every partial input channel
FetchExit ==
    /\ fpc = "exit"
    /\ pinClosed' = TRUE
    /\ fpc' = "done"
    /\ UNCHANGED <<inputCh, inputClosed, pin, pout, poutClosed, fout,
                   foutClosed, finishClosed, holder, sz, mem, ftk, pos,
                   partialVars, finalVars, wpc, wfpc, mainVars, crashed, input>>

Fetcher == FetchSelect \/ FetchChild \/ FetchGive \/ FetchReport \/ FetchExit

-----------------------------------------------------------------------------
(* The partial workers: HashAggPartialWorker.run.                         *)

\* getChildInput: select on finishCh and the worker's input channel; a
\* received chunk's columns are swapped into the worker's scratch chunk
PartialRecv(p) ==
    /\ ppc[p] = "recv"
    /\ \/ /\ finishClosed
          /\ ppc' = [ppc EXCEPT ![p] = "exit"]
          /\ UNCHANGED <<pin, pbuf, prows, ptk>>
       \/ /\ pin[p] # <<>>
          /\ LET c == Head(pin[p]) IN
             /\ pbuf' = [pbuf EXCEPT ![p] = c.buf]
             /\ prows' = [prows EXCEPT ![p] = c.rows]
             /\ ptk' = [ptk EXCEPT ![p] = pbuf[p]]
          /\ pin' = [pin EXCEPT ![p] = Tail(@)]
          /\ ppc' = [ppc EXCEPT ![p] = "give"]
       \/ /\ pinClosed /\ pin[p] = <<>>
          /\ ppc' = [ppc EXCEPT ![p] = "exit"]
          /\ UNCHANGED <<pin, pbuf, prows, ptk>>
    /\ UNCHANGED <<inputCh, inputClosed, pinClosed, pout, poutClosed, fout,
                   foutClosed, finishClosed, holder, sz, mem, fetchVars,
                   pmap, needShuffle, finalVars, wpc, wfpc, mainVars, crashed, input>>

\* the ticket a partial worker hands back: its emptied chunk, bound to
\* its own input channel
GiveBackTicketFirst(p) == [buf |-> ptk[p], back |-> 1]
GiveBackTicket(p) == [buf |-> ptk[p], back |-> p]

\* w.giveBackCh <- &HashAggInput{chk, w.inputCh}: a plain send of the
\* emptied chunk back to the fetcher, bound to this worker
PartialGiveBack(p) ==
    /\ ppc[p] = "give"
    /\ CanSend(inputCh, M)
    /\ inputCh' = Append(inputCh, GiveBackTicket(p))
    /\ ppc' = [ppc EXCEPT ![p] = "update"]
    /\ UNCHANGED <<inputClosed, pin, pinClosed, pout, poutClosed, fout,
                   foutClosed, finishClosed, holder, sz, mem, fetchVars,
                   pbuf, prows, ptk, pmap, needShuffle, finalVars, wpc, wfpc,
                   mainVars, crashed, input>>

\* mutant: an update error is dropped and the worker exits as if the
\* input had ended
PartialUpdateNoReport(p) ==
    /\ ppc[p] = "update"
    /\ LET rows == prows[p]
           alloc == Alloc(pmap[p], Range(rows))
       IN \/ /\ pmap' = [pmap EXCEPT ![p] = AddRows(alloc, rows)]
             /\ needShuffle' = [needShuffle EXCEPT ![p] = TRUE]
             /\ ppc' = [ppc EXCEPT ![p] = "recv"]
          \/ /\ EvalMayFail
             /\ ppc' = [ppc EXCEPT ![p] = "exit"]
             /\ \E i \in 0..(Len(rows) - 1) :
                   pmap' = [pmap EXCEPT ![p] = AddRows(alloc, SubSeq(rows, 1, i))]
             /\ UNCHANGED needShuffle
    /\ UNCHANGED <<chanVars, sz, mem, fetchVars, pbuf, prows, ptk, finalVars,
                   wpc, wfpc, mainVars, crashed, input>>

\* updatePartialResult: getGroupKey, getPartialResult allocates every key
\* of the chunk, then the rows are folded in one by one; either step may
\* fail, leaving the rows before the failing one applied
PartialUpdate(p) ==
    /\ ppc[p] = "update"
    /\ LET rows == prows[p]
           alloc == Alloc(pmap[p], Range(rows))
       IN \/ /\ pmap' = [pmap EXCEPT ![p] = AddRows(alloc, rows)]
             /\ needShuffle' = [needShuffle EXCEPT ![p] = TRUE]
             /\ ppc' = [ppc EXCEPT ![p] = "recv"]
          \/ /\ EvalMayFail
             /\ ppc' = [ppc EXCEPT ![p] = "report"]
             /\ \/ UNCHANGED pmap
                \/ \E i \in 0..(Len(rows) - 1) :
                      pmap' = [pmap EXCEPT ![p] = AddRows(alloc, SubSeq(rows, 1, i))]
             /\ UNCHANGED needShuffle
    /\ UNCHANGED <<chanVars, sz, mem, fetchVars, pbuf, prows, ptk, finalVars,
                   wpc, wfpc, mainVars, crashed, input>>

\* w.globalOutputCh <- &AfFinalResult{err: err}
PartialReport(p) ==
    /\ ppc[p] = "report"
    /\ \/ /\ foutClosed
          /\ Crash
       \/ /\ ~foutClosed /\ CanSend(fout, N)
          /\ fout' = Append(fout, [err |-> TRUE, rows |-> {}, from |-> 1])
          /\ ppc' = [ppc EXCEPT ![p] = "exit"]
          /\ UNCHANGED <<inputCh, inputClosed, pin, pinClosed, pout,
                         poutClosed, foutClosed, finishClosed, holder, sz, mem,
                         fetchVars, pbuf, prows, ptk, pmap, needShuffle,
                         finalVars, wpc, wfpc, mainVars, crashed, input>>

\* shuffleIntermData's bucket of final worker f: murmur3(key) % N
BucketToAll(p, f) == DOMAIN pmap[p]
Bucket(p, f) == {k \in DOMAIN pmap[p] : Hash[k] = f}

\* the final workers that get a HashAggIntermData: only if a chunk was
\* consumed (needShuffle), and only for non-empty buckets
ShuffleTargets(p) ==
    IF needShuffle[p] THEN {f \in Final : Bucket(p, f) # {}} ELSE {}

\* the memory release of the scratch chunk in run's defer
ReleaseScratchInitCap(p) == mem' = mem - InitCap
ReleaseScratch(p) == mem' = mem - sz[pbuf[p]]

\* the deferred exit: shuffleIntermData if a chunk was consumed (one
\* HashAggIntermData per non-empty bucket, sending the worker's own map),
\* then release the scratch chunk and waitGroup.Done
PartialExit(p) ==
    /\ ppc[p] = "exit"
    /\ \A f \in ShuffleTargets(p) : CanSend(pout[f], M)
    /\ pout' = [f \in Final |-> IF f \in ShuffleTargets(p)
                                THEN Append(pout[f], [keys |-> Bucket(p, f), from |-> p])
                                ELSE pout[f]]
    /\ ReleaseScratch(p)
    /\ ppc' = [ppc EXCEPT ![p] = "done"]
    /\ UNCHANGED <<inputCh, inputClosed, pin, pinClosed, poutClosed, fout,
                   foutClosed, finishClosed, holder, sz, fetchVars, pbuf,
                   prows, ptk, pmap, needShuffle, finalVars, wpc, wfpc,
                   mainVars, crashed, input>>

PartialWorker(p) ==
    PartialRecv(p) \/ PartialGiveBack(p) \/ PartialUpdate(p)
    \/ PartialReport(p) \/ PartialExit(p)

-----------------------------------------------------------------------------
(* The final workers: HashAggFinalWorker.run.  finalOutputCh is closed   *)
(* only after every final worker has returned, so their sends never      *)
(* meet a closed channel.                                                 *)

\* getPartialInput in consumeIntermData: select on finishCh and inputCh
FinalRecv(f) ==
    /\ gpc[f] = "recv"
    /\ \/ /\ finishClosed
          /\ gpc' = [gpc EXCEPT ![f] = "final"]
          /\ UNCHANGED <<pout, cur>>
       \/ /\ pout[f] # <<>>
          /\ cur' = [cur EXCEPT ![f] = Head(pout[f])]
          /\ pout' = [pout EXCEPT ![f] = Tail(@)]
          /\ gpc' = [gpc EXCEPT ![f] = "merge"]
       \/ /\ poutClosed /\ pout[f] = <<>>
          /\ gpc' = [gpc EXCEPT ![f] = "final"]
          /\ UNCHANGED <<pout, cur>>
    /\ UNCHANGED <<inputCh, inputClosed, pin, pinClosed, poutClosed, fout,
                   foutClosed, finishClosed, holder, sz, mem, fetchVars,
                   partialVars, gmap, gset, rem, grows, wpc, wfpc, mainVars,
                   crashed, input>>

\* one batch of getPartialResultBatch: getPartialResult allocates the
\* batch's keys, then each key joins groupSet and its partial result (read
\* from the partial worker's map) is merged; a merge may fail part way
FinalMerge(f) ==
    /\ gpc[f] = "merge"
    /\ \E B \in NextBatches(cur[f].keys) :
         LET src == pmap[cur[f].from]
             alloc == Alloc(gmap[f], B)
             merged(S) == [k \in DOMAIN alloc |->
                              IF k \in S THEN alloc[k] + src[k] ELSE alloc[k]]
         IN \/ /\ gmap' = [gmap EXCEPT ![f] = merged(B)]
               /\ gset' = [gset EXCEPT ![f] = @ \cup B]
               /\ cur' = [cur EXCEPT ![f].keys = @ \ B]
               /\ gpc' = [gpc EXCEPT ![f] = IF cur[f].keys = B THEN "recv" ELSE "merge"]
            \/ /\ MergeMayFail
               /\ \E bad \in B, ok \in SUBSET B :
                     /\ bad \notin ok
                     /\ gmap' = [gmap EXCEPT ![f] = merged(ok)]
                     /\ gset' = [gset EXCEPT ![f] = @ \cup ok \cup {bad}]
               /\ gpc' = [gpc EXCEPT ![f] = "report"]
               /\ UNCHANGED cur
    /\ UNCHANGED <<chanVars, sz, mem, fetchVars, partialVars, rem, grows,
                   wpc, wfpc, mainVars, crashed, input>>

\* run: w.outputCh <- &AfFinalResult{err: err}, then getFinalResult
FinalReport(f) ==
    /\ gpc[f] = "report"
    /\ CanSend(fout, N)
    /\ fout' = Append(fout, [err |-> TRUE, rows |-> {}, from |-> f])
    /\ gpc' = [gpc EXCEPT ![f] = "final"]
    /\ UNCHANGED <<inputCh, inputClosed, pin, pinClosed, pout, poutClosed,
                   foutClosed, finishClosed, holder, sz, mem, fetchVars,
                   partialVars, gmap, gset, cur, rem, grows, wpc, wfpc,
                   mainVars, crashed, input>>

\* mutant: the holder is received without watching finishCh
FinalHoldNoFinish(f) ==
    /\ gpc[f] \in {"final", "hold"}
    /\ holder[f]
    /\ holder' = [holder EXCEPT ![f] = FALSE]
    /\ rem' = IF gpc[f] = "final" THEN [rem EXCEPT ![f] = gset[f]] ELSE rem
    /\ grows' = [grows EXCEPT ![f] = {}]
    /\ gpc' = [gpc EXCEPT ![f] = "fill"]
    /\ UNCHANGED <<inputCh, inputClosed, pin, pinClosed, pout, poutClosed,
                   fout, foutClosed, finishClosed, sz, mem, fetchVars,
                   partialVars, gmap, gset, cur, wpc, wfpc, mainVars, crashed, input>>

\* receiveFinalResultHolder: select on finishCh and the holder channel;
\* the first receipt in getFinalResult snapshots groupSet
FinalHold(f) ==
    /\ gpc[f] \in {"final", "hold"}
    /\ \/ /\ finishClosed
          /\ gpc' = [gpc EXCEPT ![f] = "done"]
          /\ UNCHANGED <<holder, rem, grows>>
       \/ /\ holder[f]
          /\ holder' = [holder EXCEPT ![f] = FALSE]
          /\ rem' = IF gpc[f] = "final" THEN [rem EXCEPT ![f] = gset[f]] ELSE rem
          /\ grows' = [grows EXCEPT ![f] = {}]
          /\ gpc' = [gpc EXCEPT ![f] = "fill"]
    /\ UNCHANGED <<inputCh, inputClosed, pin, pinClosed, pout, poutClosed,
                   fout, foutClosed, finishClosed, sz, mem, fetchVars,
                   partialVars, gmap, gset, cur, wpc, wfpc, mainVars, crashed, input>>

\* AppendFinalResult2Chunk for groups until the chunk IsFull or groupSet
\* is exhausted
FinalFill(f) ==
    /\ gpc[f] = "fill"
    /\ \E B \in NextBatches(rem[f]) :
         /\ grows' = [grows EXCEPT ![f] = {[k |-> k, c |-> gmap[f][k]] : k \in B}]
         /\ rem' = [rem EXCEPT ![f] = @ \ B]
         /\ gpc' = [gpc EXCEPT ![f] = IF Cardinality(B) = MaxChunkSize
                                      THEN "sendfull" ELSE "sendlast"]
    /\ UNCHANGED <<chanVars, sz, mem, fetchVars, partialVars, gmap, gset, cur,
                   wpc, wfpc, mainVars, crashed, input>>

\* w.outputCh <- &AfFinalResult{chk: result, giveBackCh: ...}; a full chunk
\* is followed by waiting for the holder, the last one ends the worker
FinalSend(f) ==
    /\ gpc[f] \in {"sendfull", "sendlast"}
    /\ CanSend(fout, N)
    /\ fout' = Append(fout, [err |-> FALSE, rows |-> grows[f], from |-> f])
    /\ gpc' = [gpc EXCEPT ![f] = IF gpc[f] = "sendfull" THEN "hold" ELSE "done"]
    /\ UNCHANGED <<inputCh, inputClosed, pin, pinClosed, pout, poutClosed,
                   foutClosed, finishClosed, holder, sz, mem, fetchVars,
                   partialVars, gmap, gset, cur, rem, grows, wpc, wfpc,
                   mainVars, crashed, input>>

FinalWorker(f) ==
    FinalRecv(f) \/ FinalMerge(f) \/ FinalReport(f) \/ FinalHold(f)
    \/ FinalFill(f) \/ FinalSend(f)

-----------------------------------------------------------------------------
(* The goroutines that wait on the two WaitGroups.                        *)

\* waitPartialWorkerAndCloseOutputChs: once every partial worker is done,
\* close inputCh, release the tickets left in it, close partialOutputChs
WaitPartialWorkers ==
    /\ wpc = "wait"
    /\ \A p \in Partial : ppc[p] = "done"
    /\ inputClosed' = TRUE
    /\ wpc' = "drain"
    /\ UNCHANGED <<inputCh, pin, pinClosed, pout, poutClosed, fout, foutClosed,
                   finishClosed, holder, sz, mem, fetchVars, partialVars,
                   finalVars, wfpc, mainVars, crashed, input>>

DrainInputCh ==
    /\ wpc = "drain"
    /\ \/ /\ inputCh # <<>>
          /\ mem' = mem - sz[Head(inputCh).buf]
          /\ inputCh' = Tail(inputCh)
          /\ UNCHANGED <<poutClosed, wpc>>
       \/ /\ inputCh = <<>>
          /\ poutClosed' = TRUE
          /\ wpc' = "done"
          /\ UNCHANGED <<inputCh, mem>>
    /\ UNCHANGED <<inputClosed, pin, pinClosed, pout, fout, foutClosed,
                   finishClosed, holder, sz, fetchVars, partialVars, finalVars,
                   wfpc, mainVars, crashed, input>>

\* waitFinalWorkerAndCloseFinalOutput
WaitFinalWorkers ==
    /\ wfpc = "wait"
    /\ \A f \in Final : gpc[f] = "done"
    /\ foutClosed' = TRUE
    /\ wfpc' = "done"
    /\ UNCHANGED <<inputCh, inputClosed, pin, pinClosed, pout, poutClosed, fout,
                   finishClosed, holder, sz, mem, fetchVars, partialVars,
                   finalVars, wpc, mainVars, crashed, input>>

-----------------------------------------------------------------------------
(* The caller: HashAggExec.Next (parallelExec) and HashAggExec.Close.     *)

\* parallelExec: the first call runs prepare4ParallelExec, starting every
\* goroutine; a call after the end of the result returns at once and is
\* left out
CallNext ==
    /\ mpc = "idle" /\ ~executed
    /\ mpc' = "next"
    /\ IF prepared
       THEN UNCHANGED <<fpc, ppc, gpc, wpc, wfpc, prepared>>
       ELSE /\ fpc' = "loop"
            /\ ppc' = [p \in Partial |-> "recv"]
            /\ gpc' = [f \in Final |-> "recv"]
            /\ wpc' = "wait" /\ wfpc' = "wait"
            /\ prepared' = TRUE
    /\ UNCHANGED <<chanVars, sz, mem, ftk, pos, pbuf, prows, ptk, pmap,
                   needShuffle, gmap, gset, cur, rem, grows, executed,
                   childEmpty, out, crashed, input>>

\* result.giveBackCh <- result.chk: the chunk returns to its final worker
GiveBackHolderDropped(f) == UNCHANGED holder
GiveBackHolder(f) == holder' = [holder EXCEPT ![f] = TRUE]

\* result, ok := <-e.finalOutputCh with a result or an error: an error is
\* returned; a chunk is taken, its holder given back, and returned if
\* it has rows
NextRecv ==
    /\ mpc = "next"
    /\ fout # <<>>
    /\ LET r == Head(fout) IN
       \/ /\ r.err
          /\ fout' = Tail(fout)
          /\ mpc' = "failed"
          /\ UNCHANGED <<holder, childEmpty, out>>
       \/ /\ ~r.err
          /\ ~holder[r.from]
          /\ fout' = Tail(fout)
          /\ GiveBackHolder(r.from)
          /\ out' = Append(out, r.rows)
          /\ IF r.rows # {}
             THEN childEmpty' = FALSE /\ mpc' = "idle"
             ELSE UNCHANGED childEmpty /\ mpc' = "next"
    /\ UNCHANGED <<inputCh, inputClosed, pin, pinClosed, pout, poutClosed,
                   foutClosed, finishClosed, sz, mem, fetchVars, partialVars,
                   finalVars, wpc, wfpc, prepared, executed, crashed, input>>

\* finalOutputCh closed: the result is complete; with no row at all the
\* plan's default row (scalar aggregate) is appended
NextEndNoDefault ==
    /\ mpc = "next"
    /\ fout = <<>> /\ foutClosed
    /\ executed' = TRUE /\ out' = out /\ mpc' = "idle"
    /\ UNCHANGED <<chanVars, sz, mem, fetchVars, partialVars, finalVars, wpc,
                   wfpc, prepared, childEmpty, crashed, input>>

NextEnd ==
    /\ mpc = "next"
    /\ fout = <<>> /\ foutClosed
    /\ executed' = TRUE
    /\ out' = IF childEmpty /\ HasDefault THEN Append(out, {DefaultRow}) ELSE out
    /\ mpc' = "idle"
    /\ UNCHANGED <<chanVars, sz, mem, fetchVars, partialVars, finalVars, wpc,
                   wfpc, prepared, childEmpty, crashed, input>>

\* Close: without a prior Next every channel is closed here; then finishCh
\* is closed and the channels are drained in turn
CloseBegin ==
    /\ mpc \in {"idle", "failed"}
    /\ IF prepared
       THEN UNCHANGED <<inputClosed, pinClosed, poutClosed, foutClosed>>
       ELSE /\ inputClosed' = TRUE /\ pinClosed' = TRUE
            /\ poutClosed' = TRUE /\ foutClosed' = TRUE
    /\ finishClosed' = TRUE
    /\ mpc' = "drainPout"
    /\ UNCHANGED <<inputCh, pin, pout, fout, holder, sz, mem, fetchVars,
                   partialVars, finalVars, wpc, wfpc, prepared, executed,
                   childEmpty, out, crashed, input>>

\* for range ch over every partialOutputCh
CloseDrainPout ==
    /\ mpc = "drainPout"
    /\ \/ \E f \in Final :
             /\ pout[f] # <<>>
             /\ pout' = [pout EXCEPT ![f] = Tail(@)]
             /\ UNCHANGED mpc
       \/ /\ poutClosed /\ \A f \in Final : pout[f] = <<>>
          /\ mpc' = "drainPin"
          /\ UNCHANGED pout
    /\ UNCHANGED <<inputCh, inputClosed, pin, pinClosed, poutClosed, fout,
                   foutClosed, finishClosed, holder, sz, mem, fetchVars,
                   partialVars, finalVars, wpc, wfpc, prepared, executed,
                   childEmpty, out, crashed, input>>

\* for chk := range ch over every partialInputCh, releasing each chunk
CloseDrainPin ==
    /\ mpc = "drainPin"
    /\ \/ \E p \in Partial :
             /\ pin[p] # <<>>
             /\ mem' = mem - sz[Head(pin[p]).buf]
             /\ pin' = [pin EXCEPT ![p] = Tail(@)]
             /\ UNCHANGED mpc
       \/ /\ pinClosed /\ \A p \in Partial : pin[p] = <<>>
          /\ mpc' = "drainFout"
          /\ UNCHANGED <<pin, mem>>
    /\ UNCHANGED <<inputCh, inputClosed, pinClosed, pout, poutClosed, fout,
                   foutClosed, finishClosed, holder, sz, fetchVars,
                   partialVars, finalVars, wpc, wfpc, prepared, executed,
                   childEmpty, out, crashed, input>>

\* for range e.finalOutputCh; then executed = false
CloseDrainFout ==
    /\ mpc = "drainFout"
    /\ \/ /\ fout # <<>>
          /\ fout' = Tail(fout)
          /\ UNCHANGED <<mpc, executed>>
       \/ /\ foutClosed /\ fout = <<>>
          /\ mpc' = "closed" /\ executed' = FALSE
          /\ UNCHANGED fout
    /\ UNCHANGED <<inputCh, inputClosed, pin, pinClosed, pout, poutClosed,
                   foutClosed, finishClosed, holder, sz, mem, fetchVars,
                   partialVars, finalVars, wpc, wfpc, prepared, childEmpty,
                   out, crashed, input>>

CloseSteps == CloseDrainPout \/ CloseDrainPin \/ CloseDrainFout

\* the process has stopped: Close returned, or a panic crashed it
Stopped ==
    /\ mpc = "closed" \/ crashed
    /\ UNCHANGED vars

Next ==
    \/ /\ ~crashed
       /\ \/ Fetcher
          \/ \E p \in Partial : PartialWorker(p)
          \/ \E f \in Final : FinalWorker(f)
          \/ WaitPartialWorkers \/ DrainInputCh \/ WaitFinalWorkers
          \/ CallNext \/ NextRecv \/ NextEnd
          \/ CloseBegin \/ CloseSteps
    \/ Stopped

(* Go runs every runnable goroutine eventually: each goroutine, and the   *)
(* caller once inside Next or Close, is weakly fair.  Whether the caller  *)
(* calls Next or Close at all is its choice, so CallNext and CloseBegin   *)
(* carry no fairness.                                                     *)
Fairness ==
    /\ WF_vars(~crashed /\ Fetcher)
    /\ \A p \in Partial : WF_vars(~crashed /\ PartialWorker(p))
    /\ \A f \in Final : WF_vars(~crashed /\ FinalWorker(f))
    /\ WF_vars(~crashed /\ (WaitPartialWorkers \/ DrainInputCh))
    /\ WF_vars(~crashed /\ WaitFinalWorkers)
    /\ WF_vars(~crashed /\ (NextRecv \/ NextEnd))
    /\ WF_vars(~crashed /\ CloseSteps)

Spec == Init /\ [][Next]_vars /\ Fairness

-----------------------------------------------------------------------------
(* Properties.                                                            *)

TypeOK ==
    /\ inputCh \in Seq(Ticket) /\ Len(inputCh) <= M
    /\ pin \in [Partial -> Seq([buf : Bufs, rows : Seq(Keys)])]
    /\ pout \in [Final -> Seq([keys : SUBSET Keys, from : Partial])]
    /\ fout \in Seq([err : BOOLEAN, rows : SUBSET Row, from : Final])
    /\ Len(fout) <= N
    /\ {inputClosed, pinClosed, poutClosed, foutClosed, finishClosed,
        prepared, executed, childEmpty, crashed} \subseteq BOOLEAN
    /\ holder \in [Final -> BOOLEAN]
    /\ sz \in [Bufs -> Nat] /\ mem \in Int
    /\ fpc \in {"off", "loop", "next", "give", "report", "exit", "done"}
    /\ ftk \in Ticket /\ pos \in 1..(Len(input) + 1)
    /\ ppc \in [Partial -> {"off", "recv", "give", "update", "report", "exit", "done"}]
    /\ pbuf \in [Partial -> Bufs] /\ ptk \in [Partial -> Bufs]
    /\ prows \in [Partial -> Seq(Keys)]
    /\ \A p \in Partial : IsMap(pmap[p])
    /\ needShuffle \in [Partial -> BOOLEAN]
    /\ gpc \in [Final -> {"off", "recv", "merge", "report", "final", "hold",
                          "fill", "sendfull", "sendlast", "done"}]
    /\ \A f \in Final : IsMap(gmap[f])
    /\ gset \in [Final -> SUBSET Keys] /\ rem \in [Final -> SUBSET Keys]
    /\ cur \in [Final -> [keys : SUBSET Keys, from : Partial]]
    /\ grows \in [Final -> SUBSET Row]
    /\ wpc \in {"off", "wait", "drain", "done"}
    /\ wfpc \in {"off", "wait", "done"}
    /\ mpc \in {"idle", "next", "failed", "drainPout", "drainPin",
                "drainFout", "closed"}
    /\ out \in Seq(SUBSET Row)

\* The result the query must return: one row per key holding the number
\* of input rows with that key; with no input row, only the default row
\* when the plan gives one.
Expected ==
    IF AllRows = <<>>
    THEN IF HasDefault THEN {DefaultRow} ELSE {}
    ELSE {[k |-> k, c |-> Occ(AllRows, k)] : k \in Range(AllRows)}

(* Every row parallelExec has handed to the caller is a correct final row *)
(* of the whole input, and no group is returned twice, whatever failures  *)
(* happened: partial results of a failed run (a partial worker's map     *)
(* shuffled after an update error, a final worker's groups after a merge *)
(* error) reach the caller only behind the error.                         *)
ReturnedRowsCorrect ==
    /\ \A i \in DOMAIN out : out[i] \subseteq Expected
    /\ \A i, j \in DOMAIN out :
          i # j => {r.k : r \in out[i]} \cap {r.k : r \in out[j]} = {}

(* When parallelExec has seen finalOutputCh closed (executed), the caller *)
(* has received every expected row: no partial worker's shuffle and no    *)
(* final worker's group was lost.                                         *)
ResultComplete ==
    executed => UNION Range(out) = Expected

(* The fetcher's plain send input.giveBackCh <- chk never blocks: a       *)
(* partial worker's input channel (capacity 1) is empty whenever the      *)
(* fetcher holds that worker's ticket, because each worker has exactly    *)
(* one ticket, recycled through getChildInput.                            *)
FetcherSendNeverBlocks ==
    fpc = "give" => pin[ftk.back] = <<>>

(* After a run (Open, Next, Close) the memory tracker is back to zero:    *)
(* every chunk charged in initForParallelExec or grown by fetchChildData  *)
(* is released once, by a partial worker's exit, the fetcher, the drain of *)
(* inputCh or Close's drain of the partial input channels.               *)
RunReleasesMemory ==
    (mpc = "closed" /\ prepared) => mem = 0

(* No goroutine ever sends on a closed channel (which panics; the panic  *)
(* handler sends on finalOutputCh again and crashes the process).        *)
NoSendOnClosedChannel ==
    ~crashed

(* Once Close has started it returns: every worker unblocks and exits and *)
(* every channel it drains is closed (spec property 5).  A crash is       *)
(* excluded here; NoSendOnClosedChannel covers it.                        *)
CloseReturns ==
    (mpc = "drainPout") ~> (mpc = "closed" \/ crashed)

(* A call of Next returns: a result chunk, an error or the end of the     *)
(* result eventually reaches finalOutputCh.                                *)
NextReturns ==
    (mpc = "next") ~> (mpc # "next" \/ crashed)
=============================================================================
