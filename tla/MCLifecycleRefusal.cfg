SPECIFICATION Spec
CONSTANTS
  p1 = p1  p2 = p2  k1 = k1  k2 = k2  k3 = k3
  ra = ra  rb = rb  ta = ta  tb = tb  x = x  y = y
  Parents = {p1, p2}
  Children = {k1, k2, k3}
  Relations = {ra, rb}
  Tenants = {ta, tb}
  Callers = {x, y}
  RelationOf <- MCRelationOf
  Home <- MCHome
  ActsFor <- MCActsFor
  Setups <- MCRefusingSetups
  MaxCalls = 3
INVARIANT RefusalIsClean
SYMMETRY Interchangeable
CHECK_DEADLOCK FALSE
