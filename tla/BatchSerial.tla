----------------------------- MODULE BatchSerial -----------------------------
(***************************************************************************)
(* The refinement mapping from transactions to SerialBatches.              *)
(***************************************************************************)
EXTENDS BatchTransaction

\* Nothing is promised of a server without transactions: seen from the promise,
\* nothing happens there.
Store == IF standalone THEN Empty ELSE db

Outcome ==
  [p \in Callers |-> IF standalone \/ pc[p] \notin {"done", "failed"} THEN "open" ELSE pc[p]]

Serial == INSTANCE SerialBatches WITH store <- Store, outcome <- Outcome

\* With transactions, the batches have the effects they would have had one at a time,
\* in the order they committed, whatever snapshots they read, whichever attempts were
\* aborted and run again (withTransaction and batchTransaction over the tx-bound proxy).
RunsSerially == Serial!Spec
=============================================================================
