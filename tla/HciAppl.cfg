\* Two callers and three calls, so that a caller waits while another sends and
\* a timeout can meet the next two commands.
CONSTANTS
  Callers = {a, b}
  NoCmd = NoCmd
  TmrMayFail = TRUE
  MaxCalls = 3
  MaxThrds = 2
SPECIFICATION ReliableSpec
INVARIANTS TimerOfTheWait
PROPERTIES WaitEnds AcceptedCompletes
\* The calls come to an end.
CHECK_DEADLOCK FALSE
