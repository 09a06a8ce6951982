CONSTANTS
  v1 = v1
  v2 = v2
  Node = {v1, v2}
  Validators = {v1, v2}
  Res = {r1}
  Offered = {r1}
  TmSets <- TwoTmSets
  RequiredNum = 2
  RequiredDen = 3
  RetryInterval = 1
  SnapshotInterval = 1
  MaxLag = 1
  MaxRestarts = 1
SPECIFICATION FairSpec
INVARIANTS  SignatureNotForgotten NoCompleteBundlePending
PROPERTIES EveryBundleIsSent
