---------------------------- MODULE MCLeaseQueue ----------------------------
(***************************************************************************)
(* Instances of LeaseQueue for TLC.                                        *)
(***************************************************************************)
EXTENDS QueueDecision, TLC

CONSTANTS w1, w2

AnyRow == [plain |-> Jobs, either |-> Jobs]

\* One worker takes either any row or the first only and also puts rows back;
\* the steady one takes any row and finishes it.
MixedFilters == (w1 :> {AnyRow, [plain |-> {1}, either |-> Jobs]}) @@ (w2 :> {AnyRow})
MixedStatuses == (w1 :> {"done", "failed", "pending"}) @@ (w2 :> {"done", "failed"})
=============================================================================
