CONSTANTS
  Gets = {g1, g2}
  Sets = {s}
  Kinds <- MCKinds
  FrameMax = 2
  Races = {"cmd_num"}
  MaxCalls = 3
  MaxCtls = 1
SPECIFICATION ExecFairSpec
INVARIANTS TakenOnce WaitEnds
CHECK_DEADLOCK FALSE
