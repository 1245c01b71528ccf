CONSTANTS
  p1 = p1
  p2 = p2
  chA = chA
  chB = chB
  chX = chX
  Calls = {p1, p2}
  Channels = {chA, chB}
  Implausible = {chX}
  FirstChannel = chA
  NeedsPeer = TRUE
  RollbackTtl = 2
  MayKill = TRUE
  MayReboot = TRUE
  None = None
  Down = Down
  Free = Free
  Dead = Dead
SPECIFICATION FairDeviceSpec
INVARIANTS ChangeIsCovered
PROPERTIES CallsKeepPromise RollbackHappens
