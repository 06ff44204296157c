SPECIFICATION PingSpec
CONSTANTS
  RX_N = 4
  TX_N = 2
  E1000_BATCH_LIMIT = 2
  MaxPackets = 7
  Senders = {}
  MaxFrames = 0
INVARIANT HandledOnce
CHECK_DEADLOCK FALSE
