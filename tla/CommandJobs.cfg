CONSTANTS
  h1 = h1
  h2 = h2
  w1 = w1
  m1 = m1
  r1 = r1
  NoCommand = NoCommand
  Commands = {h1, h2, r1}
  ByHand = {}
  ParamOf <- MCParamOf
  TtlOf <- MCTtlOf
  VerifyDelay = 1
  Grace = 1
  MaxAge = 3
  MaxFaults = 1
SPECIFICATION FairJobsSpec
INVARIANTS SingleFlight
PROPERTIES LedgerSpec UnknownAfterWindow AppliedSettles
