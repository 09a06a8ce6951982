CONSTANTS
  h1 = h1
  h2 = h2
  h3 = h3
  Hash = {h1, h2, h3}
  OneHour = 2
  Keep = 7
  MaxTime = 12
  MaxStep = 3
  MaxUpgrades = 1
SPECIFICATION AckedSpec
INVARIANT KeptLongEnough
PROPERTIES UpgradeKeepsBuckets
CHECK_DEADLOCK FALSE
