CONSTANTS
  send = send
  set_default = set_default
  abort = abort
  NoFrame = NoFrame
  FRAME_MAX_RESEND = 1
  SND_TMOUT = 2
  RESEND_DELAY = 1
  RESP_TMOUT = 2
  MayFail = {"frm_wr", "frm_tmr", "resp_mem"}
  MaxThrds = 1
  Frames <- MCFrames
  Callers = {a}
  Unserialised = {}
  Cmds <- MCCmds
  NoCmd = NoCmd
  AbortCmd = abort
  HasResp = {send}
  HasCb = {send, set_default}
  SESSION_FUNCID_MAX = 2
  MaxCbReqs = 1
SPECIFICATION SsnSpec
INVARIANTS CallbackRouted
