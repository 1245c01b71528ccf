CONSTANTS
  r1 = r1
  r2 = r2
  p1 = p1
  q1 = q1
  h1 = h1
  h2 = h2
  Tasks = {r1, r2, q1}
  Hosts = {h1, h2}
  HostOf <- MCHostOf
  Puts = {q1}
  Conns = {1, 2, 3, 4}
  MaxFaults = 2
  None = None
SPECIFICATION FairSpec
INVARIANTS NothingLeaks
PROPERTIES RetryIsFresh CallsEnd
CHECK_DEADLOCK FALSE
