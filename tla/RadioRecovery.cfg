CONSTANTS
  c1 = c1
  c2 = c2
  Channels = {c1, c2}
  FirstChannel = c1
  Drifted = Drifted
  Corrupt = Corrupt
  Absent = Absent
  MaxResets = 2
  Cap <- MCCap
  CountryKnown = TRUE
  MaxCuts = 1
SPECIFICATION FairSpec
INVARIANTS RebootsAreCapped HealthyIsLeftAlone
PROPERTIES BadIsReported
