CONSTANTS
  p1 = p1
  p2 = p2
  p3 = p3
  Procs = {p1, p2, p3}
  MaxAge = 2
  MaxAttempts = 2
  HoldsShort = TRUE
  MaxKills = 1
  Nobody = Nobody
SPECIFICATION FairLockSpec
INVARIANTS Exclusion
PROPERTIES LockIsOneStep WaitEnds StampedIsReclaimed
