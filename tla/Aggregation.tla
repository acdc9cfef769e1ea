---------------------------- MODULE Aggregation ----------------------------
(***************************************************************************)
(* What every aggregation executor of src/executor/aggregate.go promises  *)
(* its caller, whatever its execution mode (spec 6 and 8.1-8.3): each     *)
(* Next call returns rows of the query's result that were not returned    *)
(* before, the end of the result once all of them were returned, or an    *)
(* error; Close ends the execution.  Row order is not part of the         *)
(* contract.  result is the set of rows the query must return; it is a    *)
(* variable only so that a refinement can map it to a function of the     *)
(* executor's input, and no step changes it.                              *)
(*                                                                         *)
(* ParallelHashAgg, UnparallelHashAgg and StreamAgg each implement this   *)
(* specification under a refinement mapping defined in their MC module.   *)
(***************************************************************************)
EXTENDS FiniteSets, Sequences, SequencesExt, Functions

VARIABLES result, emitted, status

vars == <<result, emitted, status>>

Init == emitted = <<>> /\ status = "running"

\* A Next call returns a block of rows not returned before, in any order,
\* none twice; it may be the last block
NextCall ==
    /\ status = "running"
    /\ IsPrefix(emitted, emitted')
    /\ LET block == SubSeq(emitted', Len(emitted) + 1, Len(emitted'))
       IN /\ IsInjective(block)
          /\ Range(block) \subseteq result \ Range(emitted)
    /\ status' \in IF Range(emitted') = result THEN {"running", "done"}
                   ELSE {"running"}
    /\ UNCHANGED result

\* A Next call returns an error; the caller gets no more rows
Fail ==
    /\ status = "running"
    /\ status' = "failed"
    /\ UNCHANGED <<result, emitted>>

Close ==
    /\ status # "closed"
    /\ status' = "closed"
    /\ UNCHANGED <<result, emitted>>

Next == NextCall \/ Fail \/ Close

Spec == Init /\ [][Next]_vars
=============================================================================
