------------------------ MODULE MCBatchTransaction ------------------------
(***************************************************************************)
(* Instances of BatchTransaction for TLC.                                  *)
(***************************************************************************)
EXTENDS BatchSerial, TLC

CONSTANTS p1, p2, p3, s1, s2

Insert(p) == [method |-> "create", doc |-> p]
On(method, d) == [method |-> method, doc |-> d]

\* Invoices and two stock documents, wanted by two callers each.
BoundScripts ==
  (p1 :> <<Insert(p1), On("findOneAndUpdate", s1), On("update", s1)>>)
  @@ (p2 :> <<On("update", s2), Insert(p2), On("upsert", s2)>>)
  @@ (p3 :> <<On("findOneAndUpdate", s2), On("update", s1), Insert(p3)>>)

\* The documented order placement: create, then claim.
ClaimScripts ==
  (p1 :> <<Insert(p1), On("claim", s1)>>) @@ (p2 :> <<Insert(p2), On("claim", s2)>>)
=============================================================================
