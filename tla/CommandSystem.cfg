CONSTANTS
  h1 = h1
  r1 = r1
  p1 = p1
  p2 = p2
  ch0 = ch0
  chA = chA
  NoCommand = NoCommand
  NoCall = NoCall
  None = None
  Down = Down
  Free = Free
  Dead = Dead
  Commands = {h1, r1}
  ByHand = {}
  ParamOf <- MCParamOf
  TtlOf <- MCTtlOf
  TargetOf <- MCTargetOf
  Calls = {p1, p2}
  Channels = {ch0, chA}
  Implausible = {}
  FirstChannel = ch0
  MayLose = {"apply"}
  VerifyDelay = 1
  Grace = 1
  MaxAge = 2
  MaxFaults = 1
  NeedsPeer = TRUE
  RollbackTtl = 1
  MayKill = FALSE
  MayReboot = TRUE
SYMMETRY CallsAreAlike
SPECIFICATION Spec
INVARIANTS UnknownIsOver
PROPERTIES AppliedWasArmed
