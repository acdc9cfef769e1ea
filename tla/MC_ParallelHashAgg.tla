------------------------- MODULE MC_ParallelHashAgg -------------------------
(* Two partial and two final workers, three keys of which two hash to the *)
(* first final worker, three child chunks so that a recycled ticket       *)
(* carries data, chunks of one row: every merge runs two batches and      *)
(* every full output chunk waits for its holder.                          *)
EXTENDS ParallelHashAgg

CONSTANTS k1, k2, k3

MCKeys  == {k1, k2, k3}
MCHash  == (k1 :> 1) @@ (k2 :> 1) @@ (k3 :> 2)
MCInput == <<<<k1, k3>>, <<k2, k1>>, <<k3>>>>

(* Two child chunks: the fault runs explore every failure point with it. *)
MCInputTwo == <<<<k1, k3>>, <<k2, k1>>>>

(* A child that returns no row (a scalar aggregate over an empty table). *)
MCInputEmpty == <<>>

MCInputs    == {MCInput, MCInputEmpty}
MCInputsTwo == {MCInputTwo}

\* a single final worker: every key hashes to it
MCHashOne == [k \in MCKeys |-> 1]

\* Refinement mapping: the rows of every chunk returned, in any order; the
\* end once finalOutputCh was seen closed; an error once one was returned;
\* closed from the start of Close
AbsStatus ==
    IF mpc \in {"drainPout", "drainPin", "drainFout", "closed"} THEN "closed"
    ELSE IF mpc = "failed" THEN "failed"
    ELSE IF executed THEN "done"
    ELSE "running"

Abs == INSTANCE Aggregation
         WITH result <- Expected, status <- AbsStatus,
              emitted <- FlattenSeq([i \in DOMAIN out |-> SetToSeq(out[i])])

(* parallelExec implements the executor contract: every Next returns new  *)
(* rows of the result, the end only after all of them, nothing after an  *)
(* error, whatever the interleaving of the workers.                       *)
AggregationSpec == Abs!Spec
=============================================================================
