CONSTANTS
  c1 = c1
  c2 = c2
  Channels = {c1, c2}
  MaxPackets = 3
  MaxResets = 2
  None = None
SPECIFICATION TelemetrySpec
INVARIANTS RatesAreReal IntervalsMeet LogFollowsChannel
