CONSTANTS
  Threshold = 2
  MaxOutages = 3
  MaxFaults = 1
  Window = 7
  Expected = 2
SPECIFICATION FairSpec
INVARIANTS OncePerOutage UptimeAgrees
PROPERTIES SilenceIsPaged ReturnIsNoticed
