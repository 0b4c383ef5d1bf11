\* 500 ms per tick: FRAME_SEND_TIMEOUT_MIN 2000 ms, FRAME_RESEND_DELAY 1000 ms.
CONSTANTS
  Frames = {f1, f2}
  NoFrame = NoFrame
  FRAME_MAX_RESEND = 2
  SND_TMOUT = 4
  RESEND_DELAY = 2
  RESP_TMOUT = 13
  MayFail = {"frm_wr", "frm_tmr"}
  MaxThrds = 2
SPECIFICATION FrmFairSpec
INVARIANTS OutstandingIsTimed NoOrphanTimer
