CONSTANTS
  cA = cA
  cB = cB
  r1 = r1
  p1 = p1
  s1 = s1
  s2 = s2
  s3 = s3
  Configs = {cA, cB}
  Restores = {r1}
  Provisions = {p1}
  Saves = {s1, s2, s3}
  KeepOf <- MCKeepOf
  DaysOf <- MCDaysOf
  FirstSave = s1
  MaxRows = 2
  MaxRestarts = 1
  Nothing = Nothing
SYMMETRY ConfigsAreAlike
SPECIFICATION UpkeepSpec
INVARIANTS SettingsInForce NewestIsKept
PROPERTIES OkIsInstalled
