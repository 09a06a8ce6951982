CONSTANTS
  p = p
  q = q
  r = r
  Pk = {p, q, r}
  Epoch = {1, 2}
  Validator <- Validators
  Majority <- Majorities
  MaxVersion = 3
  MaxBlock = 4
  MaxCrashes = 1
SPECIFICATION UpgradeFairSpec
INVARIANTS VotesAreExact
PROPERTIES VersionsGrow UpgradeHappens
CHECK_DEADLOCK FALSE
