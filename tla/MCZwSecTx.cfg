CONSTANTS
  a = a
  b = b
  NoMsg = NoMsg
  NoNonce = NoNonce
  NoNode = NoNode
  MAX_SEC_TX_Q = 1
  MayFail = {"send", "inonce", "node"}
  Msgs <- MCMsgs
SPECIFICATION SecTxFairSpec
INVARIANTS OkMeansSent NonceUsedOnce
PROPERTY ImplementsSecTx
CHECK_DEADLOCK FALSE
