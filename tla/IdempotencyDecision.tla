------------------------- MODULE IdempotencyDecision -------------------------
(***************************************************************************)
(* The refinement mapping from the idempotency store to LeasedDecision.    *)
(***************************************************************************)
EXTENDS IdempotencyStore

CONSTANTS Nobody, Undecided

Outcomes == [status : Terminal, value : Values]

ASSUME DecisionAssumption == Nobody \notin Callers /\ Undecided \notin Outcomes

\* The live worker owns the key; the row holds the decision.
Owner == IF \E p \in Callers : Live(p) THEN CHOOSE p \in Callers : Live(p) ELSE Nobody

Outcome == IF row.status \in Terminal
           THEN [status |-> row.status, value |-> row.outcome] ELSE Undecided

Decision == INSTANCE LeasedDecision WITH owner <- Owner, outcome <- Outcome

\* The store implements the leased decision: a key is taken only when nobody
\* works on it, and decided once, by its owner or by an unreplaced late holder
\* (claimKey, completeClaim, failClaim, releaseClaim, expireClaim together).
ImplementsLeasedDecision == Decision!Spec
=============================================================================
