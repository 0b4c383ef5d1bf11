\* MIN_POLL_TIME (20 ticks) and CHECK_EXPIRY_INTERVAL (2 ticks) scaled down.
CONSTANTS
  Requests <- MCRequests
  NoRpt = NoRpt
  MIN_POLL_TIME = 2
  CHECK_EXPIRY_INTERVAL = 1
  HANDLE_MAX = 3
  MaxCmdTm = 1
  MaxSem = 1
  MaxTx = 1
SPECIFICATION PollFairSpec
INVARIANTS EntryInUse
PROPERTY PollingGoesOn
