------------------------ MODULE MCDocumentLifecycle ------------------------
EXTENDS DocumentLifecycle, TLC
CONSTANTS p1, p2, k1, k2, k3, ra, rb, ta, tb, x, y

MCRelationOf == [k \in {k1, k2, k3} |-> IF k = k2 THEN rb ELSE ra]
MCHome == [d \in {p1, p2, k1, k2, k3} |-> IF d = k3 THEN tb ELSE ta]
MCActsFor == [c \in {x, y} |-> ta]

On(a, b) == [r \in {ra, rb} |-> IF r = ra THEN a ELSE b]
Config(soft, mode, guard, policy, softChild, parallel) ==
  [soft |-> soft, mode |-> mode, guard |-> guard, policy |-> policy,
   softChild |-> softChild, parallel |-> parallel]

Interchangeable == Permutations({p1, p2}) \cup Permutations({x, y})

MCSetups ==
  {Config(FALSE, "null", TRUE, On("restrict", "cascade"), On(TRUE, FALSE), TRUE),
   Config(TRUE, "null", FALSE, On("cascade", "cascade"), On(TRUE, FALSE), TRUE),
   Config(TRUE, "exists", FALSE, On("cascade", "detach"), On(TRUE, TRUE), FALSE)}

\* Soft deletion next to a restriction and a guard.
MCRefusingSetups == {Config(TRUE, "null", TRUE, On("restrict", "cascade"), On(TRUE, FALSE), TRUE)}
=============================================================================
