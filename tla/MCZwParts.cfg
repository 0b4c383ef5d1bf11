SPECIFICATION Spec
CONSTANTS
  t1 = t1
  t2 = t2
  n1 = n1
  n2 = n2
  Threads = {t1, t2}
  Versions <- Classes
  MaxOpen = 1
  MaxSem = 2
  Faults = {}
  Vers <- FanVersions
  Settable <- Settings
  Nodes = {n1, n2}
  Kinds = {"asc", "sec", "av", "wake_up", "meter"}
  Parts <- Lengths
  Group <- Groups
  Overlap = {}
  Again = {"wake_up", "meter"}
  Fails = {"av", "wake_up", "meter"}
  MaxAsks = 3
  Devices <- NodeKinds
  BASIC = "BASIC"
  MULTI = "MULTI"
  MaxNews = 4
  Ctl = 1
  NodeIds = {2, 3}
  Found <- Interviews
  OldFiles <- Earlier
  Keys = {1, 2}
  MaxChanges = 3
  Frames <- Received
  Barred = {4}
  SecureOnly <- Secured
  SuppCls <- Supported
  MaxLevel = 2
  PowerFaults = {}
  Files <- Images
  FragSizes = {1, 2, 3}
  Targets <- Updatable
  MaxNum = 4
  DfltSize = 2
  MinSize = 1
  MaxCount = 3
  MaxReqs = 2
  MaxRetries = 1
  FwFaults = {}
  JobNodes = {1, 2}
  MaxPolls = 2
  MaxNotes = 3
  JobFaults = {}
  MaxBusy = 2
  LifeFaults = {}
  MaxCalls = 2
  MaxFuncId = 1
  CmdFaults = {"memory"}
  Messages <- Sendable
  TmoutCb = TRUE
  MaxMsgs = 3
  MaxTries = 3
  MaxSaid = 2
  MaxErrors = 1
INVARIANT IdIsTaken
INVARIANT AskedIsHeard
INVARIANT QueuedIsTold
INVARIANT SetIsHeard
INVARIANT WholeAnswer
PROPERTY NothingLost
INVARIANT LoadedIsSaved
INVARIANT LowPowerEnds
INVARIANT TestReportTrue
INVARIANT ImageIsFile
INVARIANT NoStall
INVARIANT ResetIsFollowed
INVARIANT UsedWhileThere
INVARIANT NothingLeft
INVARIANT ToldTrue
INVARIANT HeardAsSent
SYMMETRY Same
CHECK_DEADLOCK FALSE
