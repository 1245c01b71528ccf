CONSTANTS
  Tiers <- MCTiers
  Plan <- ThinPlan
  Channels24 <- MCChannels24
  BwOf <- MCBwOf
  Home <- MCHome
  Deployments <- OneLink
  Cooldown = 1
  MaxFaults = 1
  NoChannel = NoChannel
SPECIFICATION FairSpec
INVARIANTS FailedStaysOut
PROPERTIES ChangesAreSpaced OneTierAtATime CycleVisitsAll
