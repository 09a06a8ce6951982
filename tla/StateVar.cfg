CONSTANTS
  v1 = v1
  v2 = v2
  Node = {v1, v2}
  Validators = {v1, v2}
  Power <- EqualPower
  RequiredNum = 2
  RequiredDen = 3
  Results <- NearAndFar
  Tolerance = 1
  Orders <- EitherFirst
  ResendInterval = 1
  SnapshotInterval = 1
  MaxEvents = 2
  MaxLag = 1
  MaxRestarts = 1
SPECIFICATION FairSpec
INVARIANTS  AcceptedIsBacked
PROPERTIES EveryEventEnds
