---------------------------- MODULE SerialBatches ----------------------------
(***************************************************************************)
(* What batchTransaction promises on a server with transactions: batches   *)
(* run one after another, each as a whole or not at all, and a batch that  *)
(* runs takes the next number and stock that nobody has.                   *)
(***************************************************************************)
EXTENDS Integers, Sequences

CONSTANTS Callers, Stock, Counter, Nobody, Script

VARIABLES
  store,    \* the documents
  outcome   \* of each batch: open, done or failed

batches == <<store, outcome>>

Init ==
  /\ store = [d \in Callers \cup Stock \cup {Counter} |-> [n |-> 0, by |-> Nobody]]
  /\ outcome = [p \in Callers |-> "open"]

Writes(p, d) == {i \in DOMAIN Script[p] : Script[p][i].doc = d}

Creates(p) == Writes(p, p) # {}

Free(p) == \A d \in Stock : Writes(p, d) # {} => store[d].by = Nobody

NextNumber == store[Counter].n + 1

\* p's statement that writes d and is followed by no other one.
LastWrite(p, d) == CHOOSE i \in Writes(p, d) : \A j \in Writes(p, d) : j <= i

\* What the batch as a whole leaves in the document d: a number for its invoice, its
\* last write for stock.
Left(p, d) ==
  CASE d \in {p, Counter} /\ Creates(p)     -> [n |-> NextNumber, by |-> p]
    [] d \in Stock /\ Writes(p, d) # {}     -> [n |-> LastWrite(p, d), by |-> p]
    [] OTHER                                -> store[d]

Run(p) ==
  /\ outcome[p] = "open" /\ Free(p)
  /\ store' = [d \in DOMAIN store |-> Left(p, d)]
  /\ outcome' = [outcome EXCEPT ![p] = "done"]

Fail(p) ==
  /\ outcome[p] = "open"
  /\ outcome' = [outcome EXCEPT ![p] = "failed"]
  /\ UNCHANGED store

Next == \E p \in Callers : Run(p) \/ Fail(p)

Spec == Init /\ [][Next]_batches
=============================================================================
