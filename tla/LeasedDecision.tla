--------------------------- MODULE LeasedDecision ---------------------------
(***************************************************************************)
(* What the idempotency store promises about one key and the lease queue   *)
(* about one row: it is worked on by at most one live owner at a time, an  *)
(* owner is never replaced while it is live, and the outcome is decided    *)
(* once, never by somebody else while an owner is live.                    *)
(***************************************************************************)
CONSTANTS Callers, Outcomes, Nobody, Undecided

VARIABLES owner, outcome

decision == <<owner, outcome>>

Init == owner = Nobody /\ outcome = Undecided

\* Only a key nobody works on, and whose outcome is open, is taken.
Take(p) ==
  /\ owner = Nobody /\ outcome = Undecided
  /\ owner' = p
  /\ UNCHANGED outcome

\* The owner gives up, stops, or outlives its lease.
Lose ==
  /\ owner # Nobody
  /\ owner' = Nobody
  /\ UNCHANGED outcome

\* The outcome is decided by the live owner, or by a caller whose lease ran out
\* and which nobody has replaced.
Decide(p, o) ==
  /\ outcome = Undecided
  /\ owner \in {p, Nobody}
  /\ outcome' = o
  /\ owner' \in {owner, Nobody}

Next ==
  \/ Lose
  \/ \E p \in Callers : Take(p) \/ \E o \in Outcomes : Decide(p, o)

Spec == Init /\ [][Next]_decision
=============================================================================
