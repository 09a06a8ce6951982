CONSTANTS
  v1 = v1
  v2 = v2
  dep = dep
  dep2 = dep2
  list = list
  stop = stop
  resume = resume
  Node = {v1, v2}
  Quorum <- Majority
  Event = {dep, stop, resume}
  Genuine = {stop, resume}
  Legacy = {}
  Kind <- Kinds
  Block <- Blocks
  Index <- Indexes
  Origin = 1
  Recorded = 1
  MaxEthereumBlocks = 0
  HeartbeatInterval = 3
  MaxEth = 2
  MaxForgotten = 0
  MaxRestarts = 1
SPECIFICATION FairSpec
INVARIANT BridgeStateIsLatest
PROPERTIES EveryEventCloses
CHECK_DEADLOCK FALSE
