----------------------------- MODULE HciFrame -----------------------------
(***************************************************************************)
(* The sending side of the frame layer of the host controller interface,   *)
(* lib/zw_hci_frame.c: one data frame is outstanding at a time, the        *)
(* controller answers ACK, NAK (checksum error) or CAN (frame dropped), a  *)
(* NAK resends at once, a CAN resends after FRAME_RESEND_DELAY, and a send *)
(* timer bounds the wait.                                                  *)
(*                                                                         *)
(* Three kinds of threads act on this state:                               *)
(*   - a thread that calls frm_dat_frm_snd,                                *)
(*   - the transport's read thread, which runs the frame state machine     *)
(*     on every byte received,                                             *)
(*   - the threads that the platform layer spawns, one for every timer     *)
(*     that expires (tmr_chk_thrd), to run the timer's callback.           *)
(* Each handler is one critical section under wr_mtx.  Handlers of the     *)
(* last two kinds report a verdict to the session layer after the section  *)
(* is left, so the report is a step of its own: rd_sts is the verdict the  *)
(* read thread is about to report, thrd_sts counts those that callback     *)
(* threads are about to report.                                            *)
(*                                                                         *)
(* A byte that is an ACK, a NAK or a CAN while the receiver is inside a    *)
(* data frame belongs to that frame and never gets here.  The controller   *)
(* and the serial line are not constrained: any of the three bytes may     *)
(* arrive at any time.                                                     *)
(***************************************************************************)
EXTENDS TimerService

CONSTANTS
  Frames,            \* the data frames a caller may send
  NoFrame,           \* last_frm_buf = NULL
  FRAME_MAX_RESEND,  \* resends after which a frame is given up
  SND_TMOUT,         \* snd_tmout_ms, in timer ticks
  RESEND_DELAY,      \* FRAME_RESEND_DELAY, in timer ticks
  RESP_TMOUT,        \* resp_tmout_ms of the session layer, in timer ticks
  MayFail,           \* the calls that may fail, a subset of FailPoints
  MaxThrds           \* bound: callback threads in flight at any time

\* The resources whose exhaustion the code meets: the write request list of
\* the transport, the send and resend timers, the response timer, the memory
\* of a response, the thread that runs an expired timer's callback.
FailPoints == {"frm_wr", "frm_tmr", "ssn_tmr", "resp_mem", "thrd_create"}

ASSUME FrameAssumption ==
  /\ NoFrame \notin Frames
  /\ FRAME_MAX_RESEND \in Nat
  /\ SND_TMOUT \in Nat \ {0}
  /\ RESEND_DELAY \in Nat \ {0}
  /\ RESP_TMOUT \in Nat \ {0}
  /\ MaxThrds \in Nat \ {0}
  /\ MayFail \subseteq FailPoints

VARIABLES
  last_frm_buf,  \* the frame that waits for the controller's answer
  resend_cnt,    \* how often it has been resent
  tx_cnt,        \* observation: copies of it handed to the transport layer
  tmr_lst,       \* the running timers of the platform layer
  cb_thrds,      \* cb_thrds[cb]: expired timers whose callback has not locked yet
  thrd_sts,      \* thrd_sts[s]: callback threads about to report s
  rd_sts         \* the verdict the read thread is about to report, or "none"

frm_vars == <<last_frm_buf, resend_cnt, tx_cnt, tmr_lst, cb_thrds, thrd_sts, rd_sts>>

TmrCbs == {"snd", "resnd", "resp"}
ThrdSts == {"TIMEOUT", "FAIL_DROPPED"}
RdSts == {"OK", "FAIL_CHKSUM", "FAIL_DROPPED"}

Timers == [cb : TmrCbs, named : BOOLEAN, left : Nat]

FrmTypeOK ==
  /\ last_frm_buf \in Frames \cup {NoFrame}
  /\ resend_cnt \in 0 .. FRAME_MAX_RESEND
  /\ tx_cnt \in 0 .. FRAME_MAX_RESEND + 2
  /\ tmr_lst \subseteq Timers
  /\ cb_thrds \in [TmrCbs -> Nat]
  /\ thrd_sts \in [ThrdSts -> Nat]
  /\ rd_sts \in RdSts \cup {"none"}

FrmInit ==
  /\ last_frm_buf = NoFrame
  /\ resend_cnt = 0
  /\ tx_cnt = 0
  /\ tmr_lst = {}
  /\ cb_thrds = [cb \in TmrCbs |-> 0]
  /\ thrd_sts = [s \in ThrdSts |-> 0]
  /\ rd_sts = "none"

---------------------------------------------------------------------------
(* Steps shared by the handlers.                                           *)

Outstanding == last_frm_buf # NoFrame

\* One more copy of the outstanding frame is in the transport's list.
CountTx == tx_cnt' = IF tx_cnt < FRAME_MAX_RESEND + 2 THEN tx_cnt + 1 ELSE tx_cnt

\* The send buffer is freed, whether or not it held a frame.
FreeFrame == /\ last_frm_buf' = NoFrame
             /\ resend_cnt' = 0
             /\ tx_cnt' = 0

SndTmrForgotten == TmrForget(tmr_lst, "snd")  \* mutated form
SndTmrStopped == TmrStop(tmr_lst, "snd")
ResndTmrStopped == TmrStop(tmr_lst, "resnd")

\* The resend timer starts again, and the send timer keeps running.
ResendLaterOnly == TmrRestart(SndTmrStopped, "resnd", RESEND_DELAY)  \* mutated form
ResendLater == TmrRestart(tmr_lst, "resnd", RESEND_DELAY)

\* ++resend_cnt > FRAME_MAX_RESEND does not hold, and there is a frame.
MayResend == Outstanding /\ resend_cnt < FRAME_MAX_RESEND

Counted == resend_cnt' = resend_cnt + 1

\* A write request or a timer start fails.
IoFails == MayFail \cap {"frm_wr", "frm_tmr"} # {}

---------------------------------------------------------------------------
(* frm_dat_frm_snd.  ret is what it returns.                               *)

FrmRets == {"ok", "multiple_write", "no_write", "no_timer"}

FrmDatFrmSnd(f, ret) ==
  /\ \/ /\ ret = "multiple_write"
        /\ Outstanding
        /\ UNCHANGED <<last_frm_buf, resend_cnt, tx_cnt, tmr_lst>>
     \/ /\ ret = "no_write"
        /\ ~ Outstanding
        /\ "frm_wr" \in MayFail
        /\ UNCHANGED <<last_frm_buf, resend_cnt, tx_cnt, tmr_lst>>
     \/ /\ ret = "no_timer"
        /\ ~ Outstanding
        /\ "frm_tmr" \in MayFail
        /\ tmr_lst' = TmrForget(tmr_lst, "snd")
        /\ UNCHANGED <<last_frm_buf, resend_cnt, tx_cnt>>
     \/ /\ ret = "ok"
        /\ ~ Outstanding
        /\ last_frm_buf' = f
        /\ resend_cnt' = 0
        /\ tx_cnt' = 1
        /\ tmr_lst' = TmrStart(tmr_lst, "snd", SND_TMOUT)
  /\ UNCHANGED <<cb_thrds, thrd_sts, rd_sts>>

---------------------------------------------------------------------------
(* The read thread: frm_sta_machine in FRAME_STATE_IDLE.                   *)

\* ACK: the frame is done.  Only the send timer is stopped.
RxAck ==
  /\ rd_sts = "none"
  /\ FreeFrame
  /\ tmr_lst' = SndTmrStopped
  /\ rd_sts' = "OK"
  /\ UNCHANGED <<cb_thrds, thrd_sts>>

\* frm_resend that gives the frame up: it also runs when there is no frame.
GiveUp(lst, sts) ==
  /\ FreeFrame
  /\ tmr_lst' = TmrStop(lst, "snd")
  /\ rd_sts' = sts

\* NAK: frm_resend without delay, the send timer starts again.
RxNak ==
  /\ rd_sts = "none"
  /\ \/ /\ MayResend
        /\ Counted
        /\ CountTx
        /\ tmr_lst' = TmrRestart(tmr_lst, "snd", SND_TMOUT)
        /\ UNCHANGED <<last_frm_buf, rd_sts>>
     \/ /\ MayResend => IoFails
        /\ GiveUp(tmr_lst, "FAIL_CHKSUM")
  /\ UNCHANGED <<cb_thrds, thrd_sts>>

\* CAN: frm_resend with a delay.
RxCan ==
  /\ rd_sts = "none"
  /\ \/ /\ MayResend
        /\ Counted
        /\ tmr_lst' = ResendLater
        /\ UNCHANGED <<last_frm_buf, tx_cnt, rd_sts>>
     \/ /\ MayResend => "frm_tmr" \in MayFail
        /\ GiveUp(IF MayResend THEN ResndTmrStopped ELSE tmr_lst, "FAIL_DROPPED")
  /\ UNCHANGED <<cb_thrds, thrd_sts>>

---------------------------------------------------------------------------
(* The callback threads of expired timers.                                 *)

\* frm_snd_tmout_cb: whatever frame is outstanding now is given up.
SndTmout ==
  /\ cb_thrds["snd"] > 0
  /\ cb_thrds' = [cb_thrds EXCEPT !["snd"] = @ - 1]
  /\ FreeFrame
  /\ tmr_lst' = SndTmrStopped
  /\ thrd_sts' = [thrd_sts EXCEPT !["TIMEOUT"] = @ + 1]
  /\ UNCHANGED rd_sts

\* frm_resnd_tmr_cb: whatever frame is outstanding now is resent.
ResndTmr ==
  /\ cb_thrds["resnd"] > 0
  /\ cb_thrds' = [cb_thrds EXCEPT !["resnd"] = @ - 1]
  /\ \/ /\ ~ Outstanding
        /\ tmr_lst' = ResndTmrStopped
        /\ UNCHANGED <<last_frm_buf, resend_cnt, tx_cnt, thrd_sts>>
     \/ /\ Outstanding
        /\ CountTx
        /\ tmr_lst' = TmrRestart(ResndTmrStopped, "snd", SND_TMOUT)
        /\ UNCHANGED <<last_frm_buf, resend_cnt, thrd_sts>>
     \/ /\ Outstanding
        /\ IoFails
        /\ FreeFrame
        /\ tmr_lst' = TmrStop(ResndTmrStopped, "snd")
        /\ thrd_sts' = [thrd_sts EXCEPT !["FAIL_DROPPED"] = @ + 1]
  /\ UNCHANGED rd_sts

---------------------------------------------------------------------------
(* The platform's timer threads.                                           *)

InFlight == cb_thrds["snd"] + cb_thrds["resnd"] + cb_thrds["resp"]
            + thrd_sts["TIMEOUT"] + thrd_sts["FAIL_DROPPED"]

\* tmr_tck_thrd.  The check thread has dealt with the previous tick.
Tick ==
  /\ tmr_lst # {}
  /\ TmrDue(tmr_lst) = {}
  /\ tmr_lst' = TmrTick(tmr_lst)
  /\ UNCHANGED <<last_frm_buf, resend_cnt, tx_cnt, cb_thrds, thrd_sts, rd_sts>>

\* tmr_chk_thrd: an expired timer leaves the list and a thread is created for
\* its callback; nothing tells the caller when the thread cannot be created.
Expire ==
  /\ InFlight < MaxThrds
  /\ \E t \in TmrDue(tmr_lst), created \in {TRUE} \cup {"thrd_create" \notin MayFail} :
       /\ tmr_lst' = tmr_lst \ {t}
       /\ cb_thrds' = IF created THEN [cb_thrds EXCEPT ![t.cb] = @ + 1] ELSE cb_thrds
  /\ UNCHANGED <<last_frm_buf, resend_cnt, tx_cnt, thrd_sts, rd_sts>>

---------------------------------------------------------------------------
(* The verdict reaches the session layer (snd_frm_sts_cb).                 *)

\* The read thread reports sts and goes on to the next byte.  What becomes of
\* the timers is the session layer's.
RdReport(sts) ==
  /\ rd_sts = sts
  /\ rd_sts' = "none"
  /\ UNCHANGED <<last_frm_buf, resend_cnt, tx_cnt, cb_thrds, thrd_sts>>

\* A callback thread reports sts and ends.
ThrdReport(sts) ==
  /\ thrd_sts[sts] > 0
  /\ thrd_sts' = [thrd_sts EXCEPT ![sts] = @ - 1]
  /\ UNCHANGED <<last_frm_buf, resend_cnt, tx_cnt, cb_thrds, rd_sts>>

---------------------------------------------------------------------------
(* The frame layer on its own, under a session layer that may send at any  *)
(* time and takes every verdict.                                           *)

FrmSend == \E f \in Frames, ret \in FrmRets : FrmDatFrmSnd(f, ret)
FrmRead == RxAck \/ RxNak \/ RxCan
FrmTimeouts == SndTmout \/ ResndTmr
FrmRdReport == UNCHANGED tmr_lst /\ \E s \in RdSts : RdReport(s)
FrmThrdReport(s) == UNCHANGED tmr_lst /\ ThrdReport(s)
FrmReports == FrmRdReport \/ \E s \in ThrdSts : FrmThrdReport(s)

FrmNext == FrmSend \/ FrmRead \/ FrmTimeouts \/ FrmReports \/ Tick \/ Expire

\* The platform's timer threads and the threads they create keep running, and
\* the read thread finishes a byte it has begun; nothing else is promised.
FrmFairness == /\ WF_frm_vars(Tick) /\ WF_frm_vars(Expire)
               /\ WF_frm_vars(SndTmout) /\ WF_frm_vars(ResndTmr)
               /\ WF_frm_vars(FrmRdReport)
               /\ \A s \in ThrdSts : WF_frm_vars(FrmThrdReport(s))

FrmSpec == FrmInit /\ [][FrmNext]_frm_vars
FrmFairSpec == FrmSpec /\ FrmFairness

---------------------------------------------------------------------------
(* Properties.                                                             *)

\* While a frame waits for its answer, the send timer runs or its callback
\* has been created and will take the frame: whatever order ACKs, NAKs, CANs,
\* resends and expired timers come in, frm_dat_frm_snd cannot be left
\* refusing every further frame with FRAME_ERROR_MULTIPLE_WRITE.
OutstandingIsTimed ==
  Outstanding => TmrsOf(tmr_lst, "snd") # {} \/ cb_thrds["snd"] > 0

\* Every timer that runs is the one its handle names, so plt_tmr_stop can
\* reach it: no handler overwrites the handle of a running timer or clears it
\* without stopping the timer.
NoOrphanTimer == \A t \in tmr_lst : t.named

\* Every frame handed to frm_dat_frm_snd leaves the send buffer in the end,
\* whatever the controller answers and however often.
FrameReleased == Outstanding ~> ~ Outstanding

---------------------------------------------------------------------------
(* What documents and comments say and the code does not do: the           *)
(* formulas below do not hold, and TLC shows how.                           *)

\* FRAME_MAX_RESEND is "the maximum number of frame resend": no frame is
\* handed to the transport layer more than once plus that many times.
ResendBudget == tx_cnt <= 1 + FRAME_MAX_RESEND

\* FRAME_SEND_TIMEOUT means that the frame's time has run out: the timeout
\* callback never takes a frame whose send timer is still running.
TimeoutIsDue ==
  [][cb_thrds'["snd"] < cb_thrds["snd"] =>
       \A t \in TmrsOf(tmr_lst, "snd") : t.left = 0]_frm_vars
===========================================================================
