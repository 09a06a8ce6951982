CONSTANTS
  v1 = v1
  v2 = v2
  dep = dep
  dep2 = dep2
  list = list
  stop = stop
  resume = resume
  Node = {v1, v2}
  Quorum <- Majority
  Event = {dep, dep2}
  Genuine = {dep, dep2}
  Legacy = {dep2}
  Kind <- Kinds
  Block <- Blocks
  Index <- Indexes
  Origin = 1
  Recorded = 0
  MaxEthereumBlocks = 1
  HeartbeatInterval = 1
  MaxEth = 3
  MaxForgotten = 1
  MaxRestarts = 1
SPECIFICATION Spec
INVARIANT NoEventForgotten
PROPERTIES LedgerSpec 
CHECK_DEADLOCK FALSE
