CONSTANTS
  MaxLines = 2
  MaxEvents = 5
  MaxCuts = 2
SPECIFICATION FairSpec
INVARIANTS NothingIsSwallowed
PROPERTIES TrailSpec LoggedIsShown
