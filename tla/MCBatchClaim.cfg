SPECIFICATION Spec
CONSTANTS
  p1 = p1
  p2 = p2
  p3 = p3
  s1 = s1
  s2 = s2
  Callers = {p1, p2}
  Stock = {s1, s2}
  Counter = counter
  Nobody = Nobody
  Script <- ClaimScripts
  Deployments = {FALSE}
  AllowFallback = {}
  FreshData = TRUE
INVARIANT AllOrNothing
CHECK_DEADLOCK FALSE
