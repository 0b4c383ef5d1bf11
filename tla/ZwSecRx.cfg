CONSTANTS
  Nodes = {a, b}
  Peers = {a}
  NoNode = NoNode
  NoNonce = NoNonce
  NoFrame = NoFrame
  SLOTS = 2
  INTERNAL_NONCE_LIFE = 1
  INTERNAL_NONCE_TABLE_CHECK = 1
  TICK_MOD = 5
  TICK_WINDOW = 3
  SEQ_MOD = 2
  NONCE_IDS = 2
  PrmMayFail = FALSE
  MaxNonces = 3
  MaxAir = 2
  MaxMsgs = 2
SPECIFICATION SecRxSpec
INVARIANTS NonceAcceptedOnce SplitPaired ReclaimedInTime
CHECK_DEADLOCK FALSE
