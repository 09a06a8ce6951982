CONSTANTS
  v1 = v1
  v2 = v2
  Node = {v1, v2}
  Validators = {v1}
  Res = {r1}
  PowerMaps <- JoinerToEqual
  RequiredNum = 2
  RequiredDen = 3
  Offsets = {2}
  MaxValidation = 4
  ResendInterval = 1
  SnapshotInterval = 2
  EpochLength = 2
  MaxHeight = 4
  MaxRestarts = 1
  NoStart = NoStart
SPECIFICATION FairSpec
INVARIANTS  VotesAreChecked 
PROPERTIES EveryCheckCloses
CHECK_DEADLOCK FALSE
