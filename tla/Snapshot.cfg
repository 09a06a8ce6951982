SPECIFICATION FairSpec
CONSTANTS
  Node = {n1, n2}
  Joiner = {n2}
  Interval = {2}
  GenesisInterval = 1
  KeepRecent = 3
  RetryLimit = 2
  Chunks = 2
  MaxHeight = 4
  MaxChanges = 1
  MaxUpgrades = 1
  MaxCrashes = 1
  MaxRewinds = 1
  MaxBad = 2
INVARIANTS HashesAgree DiskIsTrue RestartIsRecent
 
CHECK_DEADLOCK FALSE
