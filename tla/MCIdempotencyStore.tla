------------------------- MODULE MCIdempotencyStore -------------------------
(***************************************************************************)
(* Instances of IdempotencyStore, and of its mapping to LeasedDecision,    *)
(* for TLC.                                                                *)
(***************************************************************************)
EXTENDS IdempotencyDecision, TLC

\* Callers that may crash are interchangeable, and so are tokens and values.
Symmetry ==
  Permutations(Callers \ Sweepers) \cup Permutations(Tokens) \cup Permutations(Values)
=============================================================================
