CONSTANTS
  send = send
  set_default = set_default
  abort = abort
  NoFrame = NoFrame
  FRAME_MAX_RESEND = 1
  SND_TMOUT = 2
  RESEND_DELAY = 1
  RESP_TMOUT = 3
  MayFail = {"frm_wr", "frm_tmr", "resp_mem"}
  MaxThrds = 2
  Frames <- MCFrames
  Callers = {a, b}
  Unserialised = {}
  Cmds <- MCCmds
  NoCmd = NoCmd
  AbortCmd = abort
  HasResp = {send}
  HasCb = {}
  SESSION_FUNCID_MAX = 1
  MaxCbReqs = 0
SPECIFICATION SsnFairSpec
INVARIANTS VerdictComes NeverOutOfSync
PROPERTY ImplementsService
