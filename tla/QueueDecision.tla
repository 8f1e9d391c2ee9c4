---------------------------- MODULE QueueDecision ----------------------------
(***************************************************************************)
(* The refinement mapping from the lease queue, seen at one of its rows,   *)
(* to LeasedDecision.                                                      *)
(***************************************************************************)
EXTENDS LeaseQueue

CONSTANTS
  Observed,    \* the row: any one
  Undecided

ASSUME ObservedAssumption == Observed \in Jobs /\ Undecided \notin Final

Works(w) == Live(w) /\ job[w] = Observed

\* The live worker of the row owns it; its final status is the decision.
Owner == IF \E w \in Workers : Works(w) THEN CHOOSE w \in Workers : Works(w) ELSE Nobody

Outcome == IF jobs[Observed].status \in Final THEN jobs[Observed].status ELSE Undecided

Decision ==
  INSTANCE LeasedDecision
    WITH Callers <- Workers, Outcomes <- Final, owner <- Owner, outcome <- Outcome

\* A row is decided under a lease: a worker gets it only when nobody works on it and its
\* status is not final, and the status is decided once, by its worker or by one whose
\* lease ran out and whom nobody has replaced (lease, extend and release together).
RowImplementsDecision == Decision!Spec
=============================================================================
