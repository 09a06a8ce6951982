SPECIFICATION Spec
CONSTANTS
  Party = {"p"}
  Link = {1, 2, 3, 4}
  LinkOf <- MCLinkOf
  Node = {1, 2}
  Tendermint = {1}
  Amount = {1, 2}
  MinDelegationAmount = 1
  EpochLength = 1
  ReconciliationInterval = 2
  Scale = 3
  MaxTime = 8
  MaxStep = 2
INVARIANTS SnapshotsAreExact  CoveredByStake
CHECK_DEADLOCK FALSE
