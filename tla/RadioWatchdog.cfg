CONSTANTS
  Roles <- MCOne
  MinDownPolls = 2
  MaxReboots = 2
  Cooldown = 2
  MayFade = TRUE
  MaxFaults = 1
SPECIFICATION FairSpec
INVARIANTS RebootsAreBounded AlertedOnce
PROPERTIES RebootsAreDue OutageIsAlerted
