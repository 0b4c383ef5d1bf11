-------------------------- MODULE HciSessionProofs --------------------------
(***************************************************************************)
(* Theorems about the frame layer, for every set of frames, every resend   *)
(* limit, every timeout and every number of callback threads; and about    *)
(* ssn_cmd_snd, which uses it, for any number of callers, of commands and  *)
(* of function identifiers.                                                *)
(***************************************************************************)
EXTENDS HciSession, TLAPS

---------------------------------------------------------------------------
(***************************************************************************)
(* The frame layer.                                                        *)
(*                                                                         *)
(* The argument: a send timer runs only for an outstanding frame           *)
(* (SndTimerHasFrame), so frm_dat_frm_snd, which overwrites snd_tmr_ctx    *)
(* without a stop, never overwrites the handle of a running timer; every   *)
(* other start follows a stop of the same handle.  Hence every timer that  *)
(* runs can be stopped.  A frame is outstanding from the start of its send *)
(* timer on, and whoever stops that timer frees the frame or starts the    *)
(* timer again.                                                            *)
(***************************************************************************)

SndTimerHasFrame == TmrsOf(tmr_lst, "snd") # {} => Outstanding

FrmInv == FrmTypeOK /\ NoOrphanTimer /\ SndTimerHasFrame

---------------------------------------------------------------------------
(* The timer operators.                                                    *)

\* Every timer of a list is one its handle names.
AllNamed(lst) == \A t \in lst : t.named

\* plt_tmr_stop keeps a subset of the running timers.
LEMMA TmrStopSubset ==
  ASSUME NEW lst \in SUBSET Timers, NEW cb \in TmrCbs
  PROVE  TmrStop(lst, cb) \in SUBSET Timers
BY DEF TmrStop

\* When every timer is named, a stop leaves no timer of that callback and
\* every timer of the others.
LEMMA TmrStopNamed ==
  ASSUME NEW lst \in SUBSET Timers, NEW cb \in TmrCbs, AllNamed(lst)
  PROVE  /\ AllNamed(TmrStop(lst, cb))
         /\ TmrsOf(TmrStop(lst, cb), cb) = {}
         /\ \A d \in TmrCbs : d # cb => TmrsOf(TmrStop(lst, cb), d) = TmrsOf(lst, d)
BY DEF TmrStop, TmrsOf, AllNamed

\* A list without timers of a callback is not changed by overwriting the
\* callback's handle.
LEMMA TmrForgetNone ==
  ASSUME NEW lst \in SUBSET Timers, NEW cb \in TmrCbs, TmrsOf(lst, cb) = {}
  PROVE  TmrForget(lst, cb) = lst
BY DEF TmrForget, TmrsOf

\* plt_tmr_start on a handle that names no running timer.
LEMMA TmrStartNone ==
  ASSUME NEW lst \in SUBSET Timers, NEW cb \in TmrCbs, NEW n \in Nat,
         AllNamed(lst), TmrsOf(lst, cb) = {}
  PROVE  /\ TmrStart(lst, cb, n) \in SUBSET Timers
         /\ AllNamed(TmrStart(lst, cb, n))
         /\ TmrsOf(TmrStart(lst, cb, n), cb) # {}
         /\ \A d \in TmrCbs : d # cb => TmrsOf(TmrStart(lst, cb, n), d) = TmrsOf(lst, d)
<1> DEFINE new == [cb |-> cb, named |-> TRUE, left |-> n]
<1>1. TmrStart(lst, cb, n) = lst \cup {new}
  BY TmrForgetNone DEF TmrStart
<1>2. new \in Timers /\ new.cb = cb /\ new.named
  BY DEF Timers
<1> HIDE DEF new
<1>3. TmrStart(lst, cb, n) \in SUBSET Timers
  BY <1>1, <1>2
<1>4. AllNamed(TmrStart(lst, cb, n))
  BY <1>1, <1>2 DEF AllNamed
<1>5. new \in TmrsOf(TmrStart(lst, cb, n), cb)
  BY <1>1, <1>2 DEF TmrsOf
<1>6. ASSUME NEW d \in TmrCbs, d # cb
      PROVE  TmrsOf(TmrStart(lst, cb, n), d) = TmrsOf(lst, d)
  BY <1>1, <1>2, <1>6 DEF TmrsOf
<1> QED
  BY <1>3, <1>4, <1>5, <1>6

\* plt_tmr_stop and plt_tmr_start on one handle.
LEMMA TmrRestartNamed ==
  ASSUME NEW lst \in SUBSET Timers, NEW cb \in TmrCbs, NEW n \in Nat, AllNamed(lst)
  PROVE  /\ TmrRestart(lst, cb, n) \in SUBSET Timers
         /\ AllNamed(TmrRestart(lst, cb, n))
         /\ TmrsOf(TmrRestart(lst, cb, n), cb) # {}
         /\ \A d \in TmrCbs : d # cb => TmrsOf(TmrRestart(lst, cb, n), d) = TmrsOf(lst, d)
BY TmrStopSubset, TmrStopNamed, TmrStartNone DEF TmrRestart

\* A tick before which no timer is due leaves natural numbers behind.
LEMMA TmrTickNamed ==
  ASSUME NEW lst \in SUBSET Timers, AllNamed(lst), TmrDue(lst) = {}
  PROVE  /\ TmrTick(lst) \in SUBSET Timers
         /\ AllNamed(TmrTick(lst))
         /\ \A d \in TmrCbs : TmrsOf(TmrTick(lst), d) = {} <=> TmrsOf(lst, d) = {}
<1> DEFINE down(t) == [t EXCEPT !.left = @ - 1]
<1>1. ASSUME NEW t \in lst
      PROVE  down(t) \in Timers /\ down(t).named = t.named /\ down(t).cb = t.cb
  BY <1>1 DEF TmrDue, Timers
<1>2. TmrTick(lst) = {down(t) : t \in lst}
  BY DEF TmrTick
<1> HIDE DEF down
<1>3. TmrTick(lst) \in SUBSET Timers
  BY <1>1, <1>2
<1>4. AllNamed(TmrTick(lst))
  BY <1>1, <1>2 DEF AllNamed
<1>5. ASSUME NEW d \in TmrCbs
      PROVE  TmrsOf(TmrTick(lst), d) = {} <=> TmrsOf(lst, d) = {}
  BY <1>1, <1>2 DEF TmrsOf
<1> QED
  BY <1>3, <1>4, <1>5

---------------------------------------------------------------------------
(* Type correctness and the two invariants about the timers.               *)

LEMMA FrmInitInv == FrmInit => FrmInv
BY FrameAssumption DEF FrmInit, FrmInv, FrmTypeOK, NoOrphanTimer, SndTimerHasFrame,
   TmrsOf, Outstanding, TmrCbs, ThrdSts

\* One more copy keeps the count within its bound.
LEMMA CountTxType ==
  ASSUME FrmTypeOK, CountTx
  PROVE  tx_cnt' \in 0 .. FRAME_MAX_RESEND + 2
BY FrameAssumption DEF FrmTypeOK, CountTx

\* A handler that stops the send timer, restarts the resend timer, or does
\* both, keeps the list well-formed.
LEMMA StopsKeepList ==
  ASSUME FrmInv
  PROVE  /\ tmr_lst \in SUBSET Timers
         /\ AllNamed(tmr_lst)
         /\ SndTmrStopped \in SUBSET Timers
         /\ AllNamed(SndTmrStopped)
         /\ TmrsOf(SndTmrStopped, "snd") = {}
         /\ ResndTmrStopped \in SUBSET Timers
         /\ AllNamed(ResndTmrStopped)
         /\ TmrsOf(ResndTmrStopped, "snd") = TmrsOf(tmr_lst, "snd")
<1>1. tmr_lst \in SUBSET Timers /\ AllNamed(tmr_lst)
  BY DEF FrmInv, FrmTypeOK, NoOrphanTimer, AllNamed
<1>2. "snd" \in TmrCbs /\ "resnd" \in TmrCbs
  BY DEF TmrCbs
<1> QED
  BY <1>1, <1>2, TmrStopSubset, TmrStopNamed DEF SndTmrStopped, ResndTmrStopped

LEMMA FrmNextInv == FrmInv /\ [FrmNext]_frm_vars => FrmInv'
<1> SUFFICES ASSUME FrmInv, [FrmNext]_frm_vars
             PROVE  FrmInv'
  OBVIOUS
<1> USE FrameAssumption
<1>t. /\ FrmTypeOK /\ NoOrphanTimer /\ SndTimerHasFrame
      /\ "snd" \in TmrCbs /\ "resnd" \in TmrCbs
      /\ SND_TMOUT \in Nat /\ RESEND_DELAY \in Nat
  BY DEF FrmInv, TmrCbs
<1>l. /\ tmr_lst \in SUBSET Timers /\ AllNamed(tmr_lst)
      /\ SndTmrStopped \in SUBSET Timers /\ AllNamed(SndTmrStopped)
      /\ TmrsOf(SndTmrStopped, "snd") = {}
      /\ ResndTmrStopped \in SUBSET Timers /\ AllNamed(ResndTmrStopped)
      /\ TmrsOf(ResndTmrStopped, "snd") = TmrsOf(tmr_lst, "snd")
  BY StopsKeepList
\* It is enough to look at the list of timers and at what names the frame.
<1>q. ASSUME tmr_lst' \in SUBSET Timers, AllNamed(tmr_lst'), FrmTypeOK',
             TmrsOf(tmr_lst', "snd") # {} => last_frm_buf' # NoFrame
      PROVE  FrmInv'
  BY <1>q DEF FrmInv, NoOrphanTimer, SndTimerHasFrame, AllNamed, Outstanding
<1>1. ASSUME NEW f \in Frames, NEW r \in FrmRets, FrmDatFrmSnd(f, r)
      PROVE  FrmInv'
  <2>1. CASE r = "ok"
    <3>1. ~ Outstanding /\ tmr_lst' = TmrStart(tmr_lst, "snd", SND_TMOUT)
          /\ last_frm_buf' = f
      BY <1>1, <2>1 DEF FrmDatFrmSnd
    <3>2. TmrsOf(tmr_lst, "snd") = {}
      BY <1>t, <3>1 DEF SndTimerHasFrame
    <3>3. tmr_lst' \in SUBSET Timers /\ AllNamed(tmr_lst')
      BY <1>t, <1>l, <3>1, <3>2, TmrStartNone
    <3>4. FrmTypeOK'
      BY <1>t, <1>1, <2>1, <3>3 DEF FrmDatFrmSnd, FrmTypeOK
    <3> QED
      BY <1>q, <1>1, <3>1, <3>3, <3>4
  <2>2. CASE r # "ok"
    <3>1. \/ tmr_lst' = tmr_lst
          \/ ~ Outstanding /\ tmr_lst' = TmrForget(tmr_lst, "snd")
      BY <1>1, <2>2 DEF FrmDatFrmSnd
    <3>2. tmr_lst' = tmr_lst
      BY <1>t, <1>l, <3>1, TmrForgetNone DEF SndTimerHasFrame
    <3>3. UNCHANGED <<last_frm_buf, resend_cnt, tx_cnt, cb_thrds, thrd_sts, rd_sts>>
      BY <1>1, <2>2 DEF FrmDatFrmSnd
    <3> QED
      BY <1>t, <3>2, <3>3 DEF FrmInv, FrmTypeOK, NoOrphanTimer, SndTimerHasFrame, Outstanding
  <2> QED
    BY <2>1, <2>2
\* ACK, NAK, CAN.
<1>2. CASE RxAck
  <2>1. FrmTypeOK'
    BY <1>t, <1>l, <1>2 DEF RxAck, FreeFrame, FrmTypeOK, RdSts
  <2> QED
    BY <1>q, <1>l, <1>2, <2>1 DEF RxAck
<1>3. CASE RxNak
  <2>1. CASE MayResend /\ resend_cnt' = resend_cnt + 1 /\ CountTx
             /\ tmr_lst' = TmrRestart(tmr_lst, "snd", SND_TMOUT)
             /\ UNCHANGED <<last_frm_buf, rd_sts, cb_thrds, thrd_sts>>
    <3>1. tmr_lst' \in SUBSET Timers /\ AllNamed(tmr_lst')
      BY <1>t, <1>l, <2>1, TmrRestartNamed
    <3>2. FrmTypeOK'
      BY <1>t, <2>1, <3>1, CountTxType DEF FrmTypeOK, MayResend
    <3> QED
      BY <1>q, <2>1, <3>1, <3>2 DEF MayResend, Outstanding
  <2>2. CASE GiveUp(tmr_lst, "FAIL_CHKSUM") /\ UNCHANGED <<cb_thrds, thrd_sts>>
    <3>1. FrmTypeOK'
      BY <1>t, <1>l, <2>2 DEF GiveUp, FreeFrame, FrmTypeOK, RdSts, SndTmrStopped
    <3> QED
      BY <1>q, <1>l, <2>2, <3>1 DEF GiveUp, SndTmrStopped
  <2> QED
    BY <1>3, <2>1, <2>2 DEF RxNak, Counted
<1>4. CASE RxCan
  <2>1. CASE MayResend /\ resend_cnt' = resend_cnt + 1
             /\ tmr_lst' = TmrRestart(tmr_lst, "resnd", RESEND_DELAY)
             /\ UNCHANGED <<last_frm_buf, tx_cnt, rd_sts, cb_thrds, thrd_sts>>
    <3>1. tmr_lst' \in SUBSET Timers /\ AllNamed(tmr_lst')
      BY <1>t, <1>l, <2>1, TmrRestartNamed
    <3>2. FrmTypeOK'
      BY <1>t, <2>1, <3>1 DEF FrmTypeOK, MayResend
    <3> QED
      BY <1>q, <2>1, <3>1, <3>2 DEF MayResend, Outstanding
  <2>2. ASSUME NEW lst \in {tmr_lst, ResndTmrStopped}, GiveUp(lst, "FAIL_DROPPED"),
               UNCHANGED <<cb_thrds, thrd_sts>>
        PROVE  FrmInv'
    <3>1. lst \in SUBSET Timers /\ AllNamed(lst)
      BY <1>l
    <3>2. /\ tmr_lst' \in SUBSET Timers /\ AllNamed(tmr_lst')
          /\ TmrsOf(tmr_lst', "snd") = {}
      BY <1>t, <2>2, <3>1, TmrStopSubset, TmrStopNamed DEF GiveUp
    <3>3. FrmTypeOK'
      BY <1>t, <2>2, <3>2 DEF GiveUp, FreeFrame, FrmTypeOK, RdSts
    <3> QED
      BY <1>q, <3>2, <3>3
  <2> QED
    BY <1>4, <2>1, <2>2 DEF RxCan, Counted, ResendLater
\* The callbacks of the two timers.
<1>5. CASE SndTmout
  <2>1. FrmTypeOK'
    BY <1>t, <1>l, <1>5 DEF SndTmout, FreeFrame, FrmTypeOK, TmrCbs, ThrdSts
  <2> QED
    BY <1>q, <1>l, <1>5, <2>1 DEF SndTmout
<1>6. CASE ResndTmr
  <2>0. cb_thrds' \in [TmrCbs -> Nat] /\ rd_sts' = rd_sts
    BY <1>t, <1>6 DEF ResndTmr, FrmTypeOK, TmrCbs
  <2>1. CASE ~ Outstanding /\ tmr_lst' = ResndTmrStopped
             /\ UNCHANGED <<last_frm_buf, resend_cnt, tx_cnt, thrd_sts>>
    <3>1. FrmTypeOK'
      BY <1>t, <1>l, <2>0, <2>1 DEF FrmTypeOK
    <3>2. TmrsOf(tmr_lst', "snd") = {}
      BY <1>t, <1>l, <2>1 DEF SndTimerHasFrame
    <3> QED
      BY <1>q, <1>l, <2>1, <3>1, <3>2
  <2>2. CASE Outstanding /\ CountTx
             /\ tmr_lst' = TmrRestart(ResndTmrStopped, "snd", SND_TMOUT)
             /\ UNCHANGED <<last_frm_buf, resend_cnt, thrd_sts>>
    <3>1. tmr_lst' \in SUBSET Timers /\ AllNamed(tmr_lst')
      BY <1>t, <1>l, <2>2, TmrRestartNamed
    <3>2. FrmTypeOK'
      BY <1>t, <2>0, <2>2, <3>1, CountTxType DEF FrmTypeOK
    <3> QED
      BY <1>q, <2>2, <3>1, <3>2 DEF Outstanding
  <2>3. CASE FreeFrame /\ tmr_lst' = TmrStop(ResndTmrStopped, "snd")
             /\ thrd_sts' = [thrd_sts EXCEPT !["FAIL_DROPPED"] = @ + 1]
    <3>1. /\ tmr_lst' \in SUBSET Timers /\ AllNamed(tmr_lst')
          /\ TmrsOf(tmr_lst', "snd") = {}
      BY <1>t, <1>l, <2>3, TmrStopSubset, TmrStopNamed
    <3>2. FrmTypeOK'
      BY <1>t, <2>0, <2>3, <3>1 DEF FreeFrame, FrmTypeOK, ThrdSts
    <3> QED
      BY <1>q, <3>1, <3>2
  <2> QED
    BY <1>6, <2>1, <2>2, <2>3 DEF ResndTmr
\* The reports and the platform's threads.
<1>7. CASE FrmReports
  <2>1. FrmTypeOK' /\ UNCHANGED <<tmr_lst, last_frm_buf>>
    BY <1>t, <1>7 DEF FrmReports, FrmRdReport, FrmThrdReport, RdReport, ThrdReport,
                      FrmTypeOK, ThrdSts
  <2> QED
    BY <1>t, <2>1 DEF FrmInv, NoOrphanTimer, SndTimerHasFrame, Outstanding
<1>8. CASE Tick
  <2>1. /\ tmr_lst' \in SUBSET Timers /\ AllNamed(tmr_lst')
        /\ TmrsOf(tmr_lst', "snd") = {} <=> TmrsOf(tmr_lst, "snd") = {}
    BY <1>t, <1>l, <1>8, TmrTickNamed DEF Tick
  <2>2. FrmTypeOK'
    BY <1>t, <1>8, <2>1 DEF Tick, FrmTypeOK
  <2> QED
    BY <1>q, <1>t, <1>8, <2>1, <2>2 DEF Tick, SndTimerHasFrame, Outstanding
<1>9. CASE Expire
  <2>1. PICK t \in TmrDue(tmr_lst) :
          /\ tmr_lst' = tmr_lst \ {t}
          /\ cb_thrds' = cb_thrds \/ cb_thrds' = [cb_thrds EXCEPT ![t.cb] = @ + 1]
    BY <1>9 DEF Expire
  <2>2. t \in Timers
    BY <1>l, <2>1 DEF TmrDue
  <2>3. cb_thrds' \in [TmrCbs -> Nat]
    BY <1>t, <2>1, <2>2 DEF FrmTypeOK, Timers, TmrCbs
  <2>4. /\ tmr_lst' \in SUBSET Timers /\ AllNamed(tmr_lst')
        /\ TmrsOf(tmr_lst', "snd") \subseteq TmrsOf(tmr_lst, "snd")
    BY <1>l, <2>1 DEF AllNamed, TmrsOf
  <2>5. FrmTypeOK'
    BY <1>t, <1>9, <2>3, <2>4 DEF Expire, FrmTypeOK
  <2> QED
    BY <1>q, <1>t, <1>9, <2>4, <2>5 DEF Expire, SndTimerHasFrame, Outstanding
<1>10. CASE UNCHANGED frm_vars
  BY <1>t, <1>10 DEF frm_vars, FrmInv, FrmTypeOK, NoOrphanTimer, SndTimerHasFrame, Outstanding
<1> QED
  BY <1>1, <1>2, <1>3, <1>4, <1>5, <1>6, <1>7, <1>8, <1>9, <1>10
     DEF FrmNext, FrmSend, FrmRead, FrmTimeouts

\* The invariant holds in every state of every behaviour.
LEMMA FrmInvariant == FrmSpec => []FrmInv
BY FrmInitInv, FrmNextInv, PTL DEF FrmSpec

\* Every variable of the frame layer keeps its type; in particular resend_cnt
\* never passes FRAME_MAX_RESEND, although the code increments it before it
\* compares.
THEOREM FrmTypeCorrect == FrmSpec => []FrmTypeOK
BY FrmInvariant, PTL DEF FrmInv

\* Every timer of the frame layer that runs can be stopped: no handler loses
\* the identifier of a running timer.
THEOREM FrmNoOrphanTimer == FrmSpec => []NoOrphanTimer
BY FrmInvariant, PTL DEF FrmInv

---------------------------------------------------------------------------
(* An outstanding frame is timed, provided the platform can create the     *)
(* thread of an expired timer.                                             *)

\* A step leaves an outstanding frame timed.
LEMMA FrmNextTimed ==
  ASSUME "thrd_create" \notin MayFail
  PROVE  FrmInv /\ OutstandingIsTimed /\ [FrmNext]_frm_vars => OutstandingIsTimed'
<1> SUFFICES ASSUME FrmInv, OutstandingIsTimed, [FrmNext]_frm_vars
             PROVE  OutstandingIsTimed'
  OBVIOUS
<1> USE FrameAssumption
<1>t. /\ FrmTypeOK /\ NoOrphanTimer /\ SndTimerHasFrame
      /\ "snd" \in TmrCbs /\ "resnd" \in TmrCbs /\ "snd" # "resnd"
      /\ SND_TMOUT \in Nat /\ RESEND_DELAY \in Nat
  BY DEF FrmInv, TmrCbs
<1>l. /\ tmr_lst \in SUBSET Timers /\ AllNamed(tmr_lst)
      /\ ResndTmrStopped \in SUBSET Timers /\ AllNamed(ResndTmrStopped)
      /\ TmrsOf(ResndTmrStopped, "snd") = TmrsOf(tmr_lst, "snd")
  BY StopsKeepList
\* A handler frees the frame, starts its timer, or leaves frame and timer alone.
<1>f. ASSUME FreeFrame PROVE OutstandingIsTimed'
  BY <1>f DEF FreeFrame, OutstandingIsTimed, Outstanding
<1>s. ASSUME TmrsOf(tmr_lst', "snd") # {} PROVE OutstandingIsTimed'
  BY <1>s DEF OutstandingIsTimed
<1>k. ASSUME last_frm_buf' = last_frm_buf, cb_thrds'["snd"] = cb_thrds["snd"],
             TmrsOf(tmr_lst, "snd") # {} => TmrsOf(tmr_lst', "snd") # {}
      PROVE  OutstandingIsTimed'
  BY <1>k DEF OutstandingIsTimed, Outstanding
<1>1. ASSUME NEW f \in Frames, NEW r \in FrmRets, FrmDatFrmSnd(f, r)
      PROVE  OutstandingIsTimed'
  <2>1. CASE r = "ok"
    <3>1. ~ Outstanding /\ tmr_lst' = TmrStart(tmr_lst, "snd", SND_TMOUT)
      BY <1>1, <2>1 DEF FrmDatFrmSnd
    <3>2. TmrsOf(tmr_lst, "snd") = {}
      BY <1>t, <3>1 DEF SndTimerHasFrame
    <3> QED
      BY <1>s, <1>t, <1>l, <3>1, <3>2, TmrStartNone
  <2>2. CASE r # "ok"
    <3>1. /\ UNCHANGED <<last_frm_buf, cb_thrds>>
          /\ UNCHANGED tmr_lst \/ ~ Outstanding
      BY <1>1, <2>2 DEF FrmDatFrmSnd
    <3> QED
      BY <3>1 DEF OutstandingIsTimed, Outstanding
  <2> QED
    BY <2>1, <2>2
<1>2. CASE RxAck
  BY <1>f, <1>2 DEF RxAck
<1>3. CASE RxNak
  <2>1. CASE tmr_lst' = TmrRestart(tmr_lst, "snd", SND_TMOUT)
    BY <1>s, <1>t, <1>l, <2>1, TmrRestartNamed
  <2> QED
    BY <1>f, <1>3, <2>1 DEF RxNak, GiveUp
<1>4. CASE RxCan
  <2>1. CASE /\ tmr_lst' = TmrRestart(tmr_lst, "resnd", RESEND_DELAY)
             /\ UNCHANGED <<last_frm_buf, cb_thrds>>
    <3>1. TmrsOf(tmr_lst', "snd") = TmrsOf(tmr_lst, "snd")
      BY <1>t, <1>l, <2>1, TmrRestartNamed
    <3> QED
      BY <1>k, <2>1, <3>1
  <2> QED
    BY <1>f, <1>4, <2>1 DEF RxCan, GiveUp, ResendLater
<1>5. CASE SndTmout
  BY <1>f, <1>5 DEF SndTmout
<1>6. CASE ResndTmr
  <2>1. CASE ~ Outstanding /\ UNCHANGED last_frm_buf
    BY <2>1 DEF OutstandingIsTimed, Outstanding
  <2>2. CASE tmr_lst' = TmrRestart(ResndTmrStopped, "snd", SND_TMOUT)
    BY <1>s, <1>t, <1>l, <2>2, TmrRestartNamed
  <2> QED
    BY <1>f, <1>6, <2>1, <2>2 DEF ResndTmr
<1>7. CASE FrmReports
  BY <1>k, <1>7 DEF FrmReports, FrmRdReport, FrmThrdReport, RdReport, ThrdReport
<1>8. CASE Tick
  BY <1>k, <1>l, <1>t, <1>8, TmrTickNamed DEF Tick
\* An expired send timer leaves the list, and its callback is on its way.
<1>9. CASE Expire
  <2>1. PICK t \in TmrDue(tmr_lst) :
          /\ tmr_lst' = tmr_lst \ {t}
          /\ cb_thrds' = [cb_thrds EXCEPT ![t.cb] = @ + 1]
    BY <1>9 DEF Expire
  <2>2. cb_thrds \in [TmrCbs -> Nat] /\ last_frm_buf' = last_frm_buf
    BY <1>t, <1>9 DEF FrmTypeOK, Expire
  <2>3. CASE t.cb = "snd"
    <3>1. cb_thrds'["snd"] > 0
      BY <1>t, <2>1, <2>2, <2>3
    <3> QED
      BY <3>1 DEF OutstandingIsTimed
  <2>4. CASE t.cb # "snd"
    <3>1. cb_thrds'["snd"] = cb_thrds["snd"]
      BY <1>t, <2>1, <2>2, <2>4
    <3>2. TmrsOf(tmr_lst', "snd") = TmrsOf(tmr_lst, "snd")
      BY <2>1, <2>4 DEF TmrsOf
    <3> QED
      BY <1>k, <2>2, <3>1, <3>2
  <2> QED
    BY <2>3, <2>4
<1>10. CASE UNCHANGED frm_vars
  BY <1>k, <1>10 DEF frm_vars
<1> QED
  BY <1>1, <1>2, <1>3, <1>4, <1>5, <1>6, <1>7, <1>8, <1>9, <1>10
     DEF FrmNext, FrmSend, FrmRead, FrmTimeouts

\* While threads can be created, a frame that waits for its answer is always
\* timed: frm_dat_frm_snd is never left refusing every frame.
THEOREM FrmOutstandingIsTimed ==
  ASSUME "thrd_create" \notin MayFail
  PROVE  FrmSpec => []OutstandingIsTimed
<1>1. FrmInit => OutstandingIsTimed
  BY DEF FrmInit, OutstandingIsTimed, Outstanding
<1>2. FrmInv /\ OutstandingIsTimed /\ [FrmNext]_frm_vars => OutstandingIsTimed'
  BY FrmNextTimed
<1> QED
  BY <1>1, <1>2, FrmInvariant, PTL DEF FrmSpec

---------------------------------------------------------------------------
(* For the session layer: no step of the frame layer starts a response     *)
(* timer.                                                                  *)

LEMMA FrmNextNoResp ==
  ASSUME FrmInv, [FrmNext]_frm_vars, TmrsOf(tmr_lst, "resp") = {}
  PROVE  TmrsOf(tmr_lst', "resp") = {}
<1> USE FrameAssumption
<1>1. /\ tmr_lst \in SUBSET Timers /\ AllNamed(tmr_lst)
      /\ SndTmrStopped \in SUBSET Timers /\ AllNamed(SndTmrStopped)
      /\ ResndTmrStopped \in SUBSET Timers /\ AllNamed(ResndTmrStopped)
      /\ {"snd", "resnd", "resp"} \subseteq TmrCbs
      /\ SND_TMOUT \in Nat /\ RESEND_DELAY \in Nat
      /\ TmrsOf(tmr_lst, "snd") # {} => Outstanding
  BY StopsKeepList DEF TmrCbs, FrmInv, SndTimerHasFrame
<1>2. \A l \in {tmr_lst, ResndTmrStopped} : TmrsOf(TmrStop(l, "snd"), "resp") = {}
  BY <1>1 DEF TmrStop, TmrsOf, ResndTmrStopped
<1>3. TmrsOf(ResndTmrStopped, "resp") = {}
  BY DEF TmrStop, TmrsOf, ResndTmrStopped
<1>4. ASSUME NEW f \in Frames, NEW r \in FrmRets, FrmDatFrmSnd(f, r)
      PROVE  TmrsOf(tmr_lst', "resp") = {}
  <2>1. \/ tmr_lst' = tmr_lst
        \/ /\ TmrsOf(tmr_lst, "snd") = {}
           /\ \/ tmr_lst' = TmrStart(tmr_lst, "snd", SND_TMOUT)
              \/ tmr_lst' = TmrForget(tmr_lst, "snd")
    BY <1>1, <1>4 DEF FrmDatFrmSnd
  <2> QED
    BY <1>1, <2>1, TmrStartNone, TmrForgetNone
<1>5. CASE RxAck \/ SndTmout
  BY <1>2, <1>5 DEF RxAck, SndTmout, SndTmrStopped
<1>6. CASE RxNak
  <2>1. CASE tmr_lst' = TmrRestart(tmr_lst, "snd", SND_TMOUT)
    BY <1>1, <2>1, TmrRestartNamed
  <2> QED
    BY <1>2, <1>6, <2>1 DEF RxNak, GiveUp
<1>7. CASE RxCan
  <2>1. CASE tmr_lst' = TmrRestart(tmr_lst, "resnd", RESEND_DELAY)
    BY <1>1, <2>1, TmrRestartNamed
  <2> QED
    BY <1>2, <1>7, <2>1 DEF RxCan, GiveUp, ResendLater
<1>8. CASE ResndTmr
  <2>1. CASE tmr_lst' = TmrRestart(ResndTmrStopped, "snd", SND_TMOUT)
    BY <1>1, <1>3, <2>1, TmrRestartNamed
  <2> QED
    BY <1>2, <1>3, <1>8, <2>1 DEF ResndTmr
<1>9. CASE FrmReports \/ UNCHANGED frm_vars
  BY <1>9 DEF FrmReports, FrmRdReport, FrmThrdReport, frm_vars
<1>10. CASE Tick
  BY <1>1, <1>10, TmrTickNamed DEF Tick
<1>11. CASE Expire
  BY <1>11 DEF Expire, TmrsOf
<1> QED
  BY <1>4, <1>5, <1>6, <1>7, <1>8, <1>9, <1>10, <1>11
     DEF FrmNext, FrmSend, FrmRead, FrmTimeouts

---------------------------------------------------------------------------
(***************************************************************************)
(* The session layer, provided every caller holds snd_mtx                  *)
(* (Unserialised = {}), whatever may fail.                                 *)
(*                                                                         *)
(* The argument: at most one caller is inside (OneInside), and where it    *)
(* stands determines the state machine, the two semaphores and the two     *)
(* status fields up to the few combinations of Inside.  In particular a    *)
(* semaphore that has been posted belongs to the caller inside, the field  *)
(* it announces has its final value, and nobody is left to change that     *)
(* value before the caller has read it twice.                              *)
(***************************************************************************)

\* The types of what the callers and the state machine share.
SvcTypeOK ==
  /\ ssn_sta \in {"IDLE", "COMMAND_SENT", "WAIT_RESPONSE"}
  /\ cmd_resp \in Cmds \cup {NoCmd}
  /\ pc \in [Callers -> PCs]
  /\ cmd \in [Callers -> Cmds \cup {NoCmd}]
  /\ ret \in [Callers -> Outcomes]
  /\ heard \subseteq Cmds

\* snd_mtx: one caller at a time.
OneInside == \A c, d \in Callers : pc[c] # "idle" /\ pc[d] # "idle" => c = d

\* Nothing is posted and no command is under way.
Clean == ssn_sta = "IDLE" /\ snd_frm_sts_sem = 0 /\ cmd_resp_sts_sem = 0

\* The response, once its status is known.
RespKnown == cmd_resp_sts \in RespSts /\ (cmd_resp_sts = "OK" => cmd_resp \in heard)

\* The response is awaited, or is there for the caller.
RespPhase ==
  \/ ssn_sta = "WAIT_RESPONSE" /\ cmd_resp_sts_sem = 0 /\ cmd_resp_sts = "UNKNOWN"
  \/ ssn_sta = "IDLE" /\ cmd_resp_sts_sem = 1 /\ RespKnown

\* The verdict on the frame of c's command is in.
AfterVerdict(c) ==
  /\ snd_frm_sts \in Verdicts
  /\ IF snd_frm_sts = "OK" /\ cmd[c] \in HasResp
     THEN RespPhase
     ELSE ssn_sta = "IDLE" /\ cmd_resp_sts_sem = 0

\* Waiting for it.
BeforeVerdict(c) ==
  /\ ssn_sta = "COMMAND_SENT" /\ snd_frm_sts_sem = 0 /\ cmd_resp_sts_sem = 0
  /\ last_cmd = cmd[c]
  /\ cmd[c] \in HasResp => cmd_resp_sts = "UNKNOWN"

\* What holds while c is at each place of ssn_cmd_snd.
Inside(c) ==
  /\ (pc[c] \in {"idle", "done"}) <=> (cmd[c] = NoCmd)
  /\ (pc[c] = "done") <=> (ret[c] # "none")
  /\ pc[c] \in {"sending", "done"} => Clean
  /\ pc[c] = "sts_wait" => BeforeVerdict(c) \/ (snd_frm_sts_sem = 1 /\ AfterVerdict(c))
  /\ pc[c] = "sts_got" => snd_frm_sts_sem = 0 /\ AfterVerdict(c)
  /\ pc[c] = "sts_bad" => Clean /\ snd_frm_sts \in Verdicts \ {"OK"}
  /\ pc[c] \in {"resp_wait", "resp_got", "resp_bad", "resp_lock"} => cmd[c] \in HasResp
  /\ pc[c] = "resp_wait" => snd_frm_sts_sem = 0 /\ RespPhase
  /\ pc[c] \in {"resp_got", "resp_bad", "resp_lock"} => Clean /\ RespKnown
  /\ pc[c] = "resp_bad" => cmd_resp_sts # "OK"
  /\ pc[c] = "resp_lock" => cmd_resp_sts = "OK"
  /\ ret[c] \notin {"ERR_SYNC", "NULL_DEREF", "OK_NO_RESPONSE"}

SvcInv ==
  /\ SvcTypeOK
  /\ OneInside
  /\ (\A c \in Callers : pc[c] = "idle") => Clean
  /\ \A c \in Callers : Inside(c)

LEMMA SvcInitInv == SsnInit => SvcInv
BY SessionAssumption DEF SsnInit, SvcInv, SvcTypeOK, OneInside, Clean, Inside, PCs, Outcomes

\* Callers other than the one inside are idle.
LEMMA OthersIdle ==
  ASSUME SvcInv, NEW c \in Callers, pc[c] # "idle"
  PROVE  \A d \in Callers : d # c => pc[d] = "idle" /\ cmd[d] = NoCmd /\ ret[d] = "none"
BY DEF SvcInv, OneInside, Inside

\* A caller that acts moves itself only; it is enough to look at it.
LEMMA CallerMoves ==
  ASSUME SvcInv, NEW c \in Callers, SvcTypeOK',
         \A d \in Callers : d # c => pc[d] = "idle",
         \A d \in Callers : d # c => /\ pc'[d] = pc[d] /\ cmd'[d] = cmd[d]
                                     /\ ret'[d] = ret[d],
         Inside(c)', pc'[c] = "idle" => Clean'
  PROVE  SvcInv'
<1>1. \A d \in Callers : d # c => pc'[d] = "idle" /\ cmd'[d] = NoCmd /\ ret'[d] = "none"
  BY DEF SvcInv, Inside
<1>2. OneInside'
  BY <1>1 DEF OneInside
<1>3. ASSUME NEW d \in Callers, d # c PROVE Inside(d)'
  BY <1>1, <1>3 DEF Inside
<1> QED
  BY <1>2, <1>3 DEF SvcInv

---------------------------------------------------------------------------
(* The steps of a caller.                                                  *)

\* All callers are idle when a serialised one enters.
LEMMA EnterAlone ==
  ASSUME Unserialised = {}, NEW c \in Callers, SndMtxFree(c)
  PROVE  \A d \in Callers : pc[d] = "idle"
BY DEF SndMtxFree

LEMMA SsnCmdSndInv ==
  ASSUME Unserialised = {}, SvcInv, NEW c \in Callers, NEW k \in CmdsOf(c), SsnCmdSnd(c, k)
  PROVE  SvcInv'
<1> USE SessionAssumption
<1>1. /\ \A d \in Callers : pc[d] = "idle"
      /\ Clean
      /\ k \in Cmds
  BY EnterAlone DEF SsnCmdSnd, SvcInv, CmdsOf
<1>2. /\ UNCHANGED <<ssn_sta, snd_frm_sts_sem, cmd_resp_sts, cmd_resp_sts_sem, cmd_resp>>
      /\ SvcTypeOK
  BY DEF SsnCmdSnd, SvcInv
<1>3. PICK r \in FrmRets :
        IF r = "ok"
        THEN Goto(c, "sending") /\ cmd' = [cmd EXCEPT ![c] = k] /\ heard' = {} /\ UNCHANGED ret
        ELSE Return(c, FrmErr(r))
  BY <1>1 DEF SsnCmdSnd, Clean
<1>4. CASE r = "ok"
  <2>1. /\ pc' = [pc EXCEPT ![c] = "sending"] /\ cmd' = [cmd EXCEPT ![c] = k]
        /\ ret' = ret /\ heard' = {}
    BY <1>3, <1>4 DEF Goto
  <2>2. SvcTypeOK'
    BY <1>1, <1>2, <2>1 DEF SvcTypeOK, PCs
  <2>3. pc'[c] = "sending" /\ cmd'[c] = k /\ ret'[c] = "none"
    BY <1>1, <1>2, <2>1 DEF SvcTypeOK, SvcInv, Inside
  <2>4. Inside(c)'
    BY <1>1, <1>2, <2>3 DEF Inside, Clean
  <2> QED
    BY <1>1, <1>2, <2>1, <2>2, <2>3, <2>4, CallerMoves DEF SvcTypeOK
<1>5. CASE r # "ok"
  <2>1. /\ pc' = [pc EXCEPT ![c] = "done"] /\ cmd' = [cmd EXCEPT ![c] = NoCmd]
        /\ ret' = [ret EXCEPT ![c] = FrmErr(r)] /\ heard' = {}
    BY <1>3, <1>5 DEF Goto, Return
  <2>2. FrmErr(r) \in {"ERR_MULTIPLE_WRITE", "ERR_WRITE", "ERR_SND_TIMER"}
    BY <1>5 DEF FrmErr, FrmRets
  <2>3. SvcTypeOK'
    BY <1>1, <1>2, <2>1, <2>2 DEF SvcTypeOK, PCs, Outcomes
  <2>4. pc'[c] = "done" /\ cmd'[c] = NoCmd /\ ret'[c] = FrmErr(r)
    BY <1>2, <2>1 DEF SvcTypeOK
  <2>5. Inside(c)'
    BY <1>1, <1>2, <2>2, <2>4 DEF Inside, Clean
  <2> QED
    BY <1>1, <1>2, <2>1, <2>3, <2>4, <2>5, CallerMoves DEF SvcTypeOK
<1> QED
  BY <1>4, <1>5

LEMMA SsnCmdSentInv ==
  ASSUME SvcInv, NEW c \in Callers, SsnCmdSent(c)
  PROVE  SvcInv'
<1> USE SessionAssumption
<1>1. /\ pc[c] = "sending" /\ SvcTypeOK /\ Clean /\ ret[c] = "none" /\ cmd[c] \in Cmds
      /\ ret[c] \notin {"ERR_SYNC", "NULL_DEREF", "OK_NO_RESPONSE"}
  BY DEF SsnCmdSent, SvcInv, Inside, SvcTypeOK
<1>2. /\ pc' = [pc EXCEPT ![c] = "sts_wait"] /\ UNCHANGED <<cmd, ret, heard>>
      /\ ssn_sta' = "COMMAND_SENT" /\ last_cmd' = cmd[c]
      /\ UNCHANGED <<snd_frm_sts_sem, cmd_resp_sts_sem>>
      /\ cmd_resp_sts' = IF cmd[c] \in HasResp THEN "UNKNOWN" ELSE cmd_resp_sts
      /\ cmd_resp' = IF cmd[c] \in HasResp THEN NoCmd ELSE cmd_resp
  BY DEF SsnCmdSent, Goto
<1>3. SvcTypeOK'
  BY <1>1, <1>2 DEF SvcTypeOK, PCs
<1>4. pc'[c] = "sts_wait" /\ cmd'[c] \in Cmds /\ ret'[c] = "none"
  BY <1>1, <1>2 DEF SvcTypeOK
<1>5. Inside(c)'
  BY <1>1, <1>2, <1>4 DEF Inside, BeforeVerdict, Clean
<1>6. \A d \in Callers : d # c => pc'[d] = pc[d] /\ cmd'[d] = cmd[d] /\ ret'[d] = ret[d]
  BY <1>1, <1>2 DEF SvcTypeOK
<1> QED
  BY <1>1, <1>3, <1>4, <1>5, <1>6, CallerMoves, OthersIdle

\* plt_sem_wait: the verdict, or the response, is in.
LEMMA WaitStsInv ==
  ASSUME SvcInv, NEW c \in Callers, WaitSts(c)
  PROVE  SvcInv'
<1> USE SessionAssumption
<1>1. /\ pc[c] = "sts_wait" /\ SvcTypeOK /\ Inside(c) /\ snd_frm_sts_sem > 0
  BY DEF WaitSts, SvcInv
<1>2. /\ pc' = [pc EXCEPT ![c] = "sts_got"] /\ snd_frm_sts_sem' = snd_frm_sts_sem - 1
      /\ UNCHANGED <<cmd, ret, heard, ssn_sta, snd_frm_sts, cmd_resp_sts,
                     cmd_resp_sts_sem, cmd_resp>>
  BY DEF WaitSts, Goto
<1>3. snd_frm_sts_sem = 1 /\ AfterVerdict(c) /\ cmd[c] # NoCmd
  BY <1>1 DEF Inside, BeforeVerdict
<1>4. SvcTypeOK'
  BY <1>1, <1>2 DEF SvcTypeOK, PCs
<1>5. pc'[c] = "sts_got" /\ cmd'[c] = cmd[c] /\ ret'[c] = ret[c]
  BY <1>1, <1>2 DEF SvcTypeOK
<1>6. AfterVerdict(c)'
  BY <1>2, <1>3, <1>5 DEF AfterVerdict, RespPhase, RespKnown
<1>7. Inside(c)'
  BY <1>1, <1>2, <1>3, <1>5, <1>6 DEF Inside
<1>8. \A d \in Callers : d # c => pc'[d] = pc[d] /\ cmd'[d] = cmd[d] /\ ret'[d] = ret[d]
  BY <1>1, <1>2 DEF SvcTypeOK
<1> QED
  BY <1>1, <1>4, <1>5, <1>7, <1>8, CallerMoves, OthersIdle

LEMMA WaitRespInv ==
  ASSUME SvcInv, NEW c \in Callers, WaitResp(c)
  PROVE  SvcInv'
<1> USE SessionAssumption
<1>1. /\ pc[c] = "resp_wait" /\ SvcTypeOK /\ Inside(c) /\ cmd_resp_sts_sem > 0
  BY DEF WaitResp, SvcInv
<1>2. /\ pc' = [pc EXCEPT ![c] = "resp_got"] /\ cmd_resp_sts_sem' = cmd_resp_sts_sem - 1
      /\ UNCHANGED <<cmd, ret, heard, ssn_sta, snd_frm_sts_sem, cmd_resp_sts, cmd_resp>>
  BY DEF WaitResp, Goto
<1>3. snd_frm_sts_sem = 0 /\ RespPhase /\ cmd[c] # NoCmd
  BY <1>1 DEF Inside
<1>4. SvcTypeOK'
  BY <1>1, <1>2 DEF SvcTypeOK, PCs
<1>5. pc'[c] = "resp_got" /\ cmd'[c] = cmd[c] /\ ret'[c] = ret[c]
  BY <1>1, <1>2 DEF SvcTypeOK
<1>6. Clean' /\ RespKnown'
  BY <1>1, <1>2, <1>3 DEF RespPhase, RespKnown, Clean
<1>7. Inside(c)'
  BY <1>1, <1>3, <1>5, <1>6 DEF Inside
<1>8. \A d \in Callers : d # c => pc'[d] = pc[d] /\ cmd'[d] = cmd[d] /\ ret'[d] = ret[d]
  BY <1>1, <1>2 DEF SvcTypeOK
<1> QED
  BY <1>1, <1>4, <1>5, <1>7, <1>8, CallerMoves, OthersIdle

\* A caller that returns from ssn_cmd_snd with everything clean.
LEMMA ReturnInv ==
  ASSUME SvcInv, NEW c \in Callers, pc[c] # "idle",
         NEW r \in Outcomes \ {"none", "ERR_SYNC", "NULL_DEREF", "OK_NO_RESPONSE"},
         Return(c, r), Clean', UNCHANGED <<ssn_sta, cmd_resp>>
  PROVE  SvcInv'
<1> USE SessionAssumption
<1>1. /\ pc' = [pc EXCEPT ![c] = "done"] /\ cmd' = [cmd EXCEPT ![c] = NoCmd]
      /\ ret' = [ret EXCEPT ![c] = r] /\ heard' = {} /\ SvcTypeOK
  BY DEF Return, Goto, SvcInv
<1>2. SvcTypeOK'
  BY <1>1 DEF SvcTypeOK, PCs
<1>3. pc'[c] = "done" /\ cmd'[c] = NoCmd /\ ret'[c] = r
  BY <1>1 DEF SvcTypeOK
<1>4. Inside(c)'
  BY <1>3 DEF Inside
<1>5. \A d \in Callers : d # c => pc'[d] = pc[d] /\ cmd'[d] = cmd[d] /\ ret'[d] = ret[d]
  BY <1>1 DEF SvcTypeOK
<1> QED
  BY <1>2, <1>3, <1>4, <1>5, CallerMoves, OthersIdle

\* The two unlocked reads of snd_frm_sts see the same verdict.
LEMMA ReadStsInv ==
  ASSUME SvcInv, NEW c \in Callers, ReadSts(c)
  PROVE  SvcInv'
<1> USE SessionAssumption
<1>1. /\ SvcTypeOK /\ Inside(c)
      /\ UNCHANGED <<ssn_sta, snd_frm_sts, snd_frm_sts_sem, cmd_resp_sts,
                     cmd_resp_sts_sem, cmd_resp>>
  BY DEF ReadSts, SvcInv
<1>2. ASSUME NEW l \in PCs, l # "idle", Goto(c, l), UNCHANGED <<cmd, ret, heard>>,
             pc[c] = "sts_got",
             l = "resp_wait" \/ l = "sts_bad",
             l = "resp_wait" => snd_frm_sts = "OK" /\ cmd[c] \in HasResp,
             l = "sts_bad" => snd_frm_sts # "OK"
      PROVE  SvcInv'
  <2>1. snd_frm_sts_sem = 0 /\ AfterVerdict(c) /\ cmd[c] # NoCmd /\ ret[c] = "none"
    BY <1>1, <1>2 DEF Inside
  <2>2. pc' = [pc EXCEPT ![c] = l]
    BY <1>2 DEF Goto
  <2>3. SvcTypeOK'
    BY <1>1, <1>2, <2>2 DEF SvcTypeOK
  <2>4. pc'[c] = l /\ cmd'[c] = cmd[c] /\ ret'[c] = ret[c]
    BY <1>1, <1>2, <2>2 DEF SvcTypeOK
  <2>5. CASE l = "resp_wait"
    <3>1. RespPhase'
      BY <1>1, <1>2, <2>1, <2>5 DEF AfterVerdict, RespPhase, RespKnown
    <3> QED
      BY <1>1, <1>2, <2>1, <2>2, <2>3, <2>4, <2>5, <3>1, CallerMoves, OthersIdle
         DEF Inside, SvcTypeOK
  <2>6. CASE l = "sts_bad"
    <3>1. Clean' /\ snd_frm_sts' \in Verdicts \ {"OK"}
      BY <1>1, <1>2, <2>1, <2>6 DEF AfterVerdict, Clean
    <3> QED
      BY <1>1, <1>2, <2>1, <2>2, <2>3, <2>4, <2>6, <3>1, CallerMoves, OthersIdle
         DEF Inside, SvcTypeOK
  <2> QED
    BY <1>2, <2>5, <2>6
<1>3. CASE pc[c] = "sts_got" /\ snd_frm_sts = "OK" /\ cmd[c] \notin HasResp /\ Return(c, "SENT")
  <2>1. Clean'
    BY <1>1, <1>3 DEF Inside, AfterVerdict, Clean
  <2> QED
    BY <1>1, <1>3, <2>1, ReturnInv DEF Outcomes
<1>4. CASE pc[c] = "sts_bad" /\ Return(c, SndErr[snd_frm_sts])
  <2>1. Clean' /\ snd_frm_sts \in Verdicts \ {"OK"}
    BY <1>1, <1>4 DEF Inside, Clean
  <2>2. SndErr[snd_frm_sts] \in {"ERR_SND_FRM_TMOUT", "ERR_SEND_CHKSUM", "ERR_SEND_BUSY"}
    BY <2>1 DEF SndErr, Verdicts
  <2> QED
    BY <1>1, <1>4, <2>1, <2>2, ReturnInv DEF Outcomes
<1> QED
  BY <1>2, <1>3, <1>4 DEF ReadSts, PCs

\* So do the two unlocked reads of cmd_resp_sts.
LEMMA ReadRespStsInv ==
  ASSUME SvcInv, NEW c \in Callers, ReadRespSts(c)
  PROVE  SvcInv'
<1> USE SessionAssumption
<1>1. /\ SvcTypeOK /\ Inside(c)
      /\ UNCHANGED <<ssn_sta, snd_frm_sts, snd_frm_sts_sem, cmd_resp_sts,
                     cmd_resp_sts_sem, cmd_resp>>
      /\ pc[c] \in {"resp_got", "resp_bad"}
  BY DEF ReadRespSts, SvcInv
<1>2. /\ Clean' /\ RespKnown /\ cmd[c] \in HasResp /\ cmd[c] # NoCmd /\ ret[c] = "none"
      /\ cmd_resp_sts \in RespSts
  BY <1>1 DEF Inside, Clean, RespKnown
<1>3. ASSUME NEW l \in {"resp_lock", "resp_bad"}, Goto(c, l), UNCHANGED <<cmd, ret, heard>>,
             pc[c] = "resp_got", (l = "resp_lock") <=> (cmd_resp_sts = "OK")
      PROVE  SvcInv'
  <2>1. pc' = [pc EXCEPT ![c] = l] /\ l \in PCs
    BY <1>3 DEF Goto, PCs
  <2>2. SvcTypeOK'
    BY <1>1, <1>3, <2>1 DEF SvcTypeOK
  <2>3. pc'[c] = l /\ cmd'[c] = cmd[c] /\ ret'[c] = ret[c]
    BY <1>1, <1>3, <2>1 DEF SvcTypeOK
  <2>4. RespKnown'
    BY <1>1, <1>2, <1>3 DEF RespKnown
  <2>5. Inside(c)'
    BY <1>1, <1>2, <1>3, <2>3, <2>4 DEF Inside
  <2>6. \A d \in Callers : d # c => pc'[d] = pc[d] /\ cmd'[d] = cmd[d] /\ ret'[d] = ret[d]
    BY <1>1, <1>3, <2>1 DEF SvcTypeOK
  <2> QED
    BY <1>1, <1>2, <2>2, <2>3, <2>5, <2>6, CallerMoves, OthersIdle
<1>4. CASE pc[c] = "resp_bad" /\ Return(c, RespErr[cmd_resp_sts])
  <2>1. cmd_resp_sts \in {"TIMEOUT", "MEM"}
    BY <1>1, <1>2, <1>4 DEF Inside, RespSts
  <2>2. RespErr[cmd_resp_sts] \in {"ERR_RESP_TMOUT", "ERR_MEMORY"}
    BY <2>1 DEF RespErr
  <2> QED
    BY <1>1, <1>2, <1>4, <2>2, ReturnInv DEF Outcomes
<1> QED
  BY <1>3, <1>4 DEF ReadRespSts

LEMMA TakeRespInv ==
  ASSUME SvcInv, NEW c \in Callers, TakeResp(c)
  PROVE  SvcInv'
<1> USE SessionAssumption
<1>1. /\ SvcTypeOK /\ Inside(c) /\ pc[c] = "resp_lock"
      /\ UNCHANGED <<ssn_sta, snd_frm_sts_sem, cmd_resp_sts_sem, cmd_resp>>
  BY DEF TakeResp, SvcInv
<1>2. Clean' /\ cmd_resp \in heard /\ heard \subseteq Cmds
  BY <1>1 DEF Inside, Clean, RespKnown, SvcTypeOK
<1>3. cmd_resp # NoCmd
  BY <1>2
<1>4. Return(c, "RESPONSE") \/ Return(c, "ERR_INVALID_RESP")
  BY <1>3 DEF TakeResp, RespOf
<1> QED
  BY <1>1, <1>2, <1>4, ReturnInv DEF Outcomes

LEMMA LeaveInv ==
  ASSUME SvcInv, NEW c \in Callers, Leave(c)
  PROVE  SvcInv'
<1> USE SessionAssumption
<1>1. /\ SvcTypeOK /\ Inside(c) /\ pc[c] = "done"
      /\ UNCHANGED <<ssn_sta, snd_frm_sts_sem, cmd_resp_sts_sem, cmd_resp, cmd, heard>>
      /\ pc' = [pc EXCEPT ![c] = "idle"] /\ ret' = [ret EXCEPT ![c] = "none"]
  BY DEF Leave, Goto, SvcInv
<1>2. SvcTypeOK'
  BY <1>1 DEF SvcTypeOK, PCs, Outcomes
<1>3. pc'[c] = "idle" /\ cmd'[c] = NoCmd /\ ret'[c] = "none" /\ Clean'
  BY <1>1 DEF SvcTypeOK, Inside, Clean
<1>4. Inside(c)'
  BY <1>3 DEF Inside
<1>5. \A d \in Callers : d # c => pc'[d] = pc[d] /\ cmd'[d] = cmd[d] /\ ret'[d] = ret[d]
  BY <1>1 DEF SvcTypeOK
<1> QED
  BY <1>1, <1>2, <1>3, <1>4, <1>5, CallerMoves, OthersIdle

---------------------------------------------------------------------------
(* The steps of the state machine.                                         *)

\* A step that moves no caller, and after which the caller inside, if there is
\* one, is where it should be.
LEMMA MachineMoves ==
  ASSUME SvcInv, SvcTypeOK', UNCHANGED <<pc, cmd, ret>>,
         ssn_sta # "IDLE",
         \A c \in Callers : Inside(c) /\ pc[c] # "idle" => Inside(c)'
  PROVE  SvcInv'
<1>1. PICK c \in Callers : pc[c] # "idle"
  BY DEF SvcInv, Clean
<1>2. \A d \in Callers : Inside(d)'
  BY DEF SvcInv, Inside
<1> QED
  BY <1>1, <1>2 DEF SvcInv, OneInside

\* A step that leaves the session alone, but for what has been heard.
LEMMA SessionIdles ==
  ASSUME SvcInv, UNCHANGED <<pc, cmd, ret, ssn_sta, last_cmd, snd_frm_sts, snd_frm_sts_sem,
                             cmd_resp_sts, cmd_resp_sts_sem, cmd_resp>>,
         heard \subseteq heard', heard' \subseteq Cmds
  PROVE  SvcInv'
<1>1. SvcTypeOK' /\ OneInside' /\ ((\A c \in Callers : pc'[c] = "idle") => Clean')
  BY DEF SvcInv, SvcTypeOK, OneInside, Clean
<1>2. RespKnown => RespKnown'
  BY DEF RespKnown
<1>3. RespPhase => RespPhase'
  BY <1>2 DEF RespPhase
<1>4. ASSUME NEW c \in Callers PROVE Inside(c)'
  <2>1. AfterVerdict(c) => AfterVerdict(c)'
    BY <1>3 DEF AfterVerdict
  <2>2. BeforeVerdict(c) => BeforeVerdict(c)'
    BY DEF BeforeVerdict
  <2>3. Inside(c) /\ (Clean => Clean')
    BY DEF SvcInv, Clean
  <2> QED
    BY <1>2, <1>3, <2>1, <2>2, <2>3 DEF Inside
<1> QED
  BY <1>1, <1>4 DEF SvcInv

\* A verdict is taken by the command that waits for it, and by no other.
LEMMA SndFrmStsInv ==
  ASSUME SvcInv, NEW sts \in Verdicts, SndFrmSts(sts)
  PROVE  SvcInv'
<1> USE SessionAssumption
<1>1. /\ UNCHANGED <<pc, cmd, ret, heard, last_cmd, cmd_resp_sts, cmd_resp_sts_sem, cmd_resp>>
      /\ SvcTypeOK
  BY DEF SndFrmSts, WaitsVerdict, SvcInv
<1>2. CASE ssn_sta # "COMMAND_SENT"
  <2>1. UNCHANGED <<ssn_sta, snd_frm_sts, snd_frm_sts_sem>>
    BY <1>2 DEF SndFrmSts, WaitsVerdict
  <2> QED
    BY <1>1, <2>1, SessionIdles DEF SvcTypeOK
<1>3. CASE ssn_sta = "COMMAND_SENT"
  <2>1. /\ snd_frm_sts' = sts /\ snd_frm_sts_sem' = snd_frm_sts_sem + 1
        /\ ssn_sta' = IF sts = "OK" /\ last_cmd \in HasResp THEN "WAIT_RESPONSE" ELSE "IDLE"
    BY <1>3 DEF SndFrmSts, WaitsVerdict
  <2>2. SvcTypeOK'
    BY <1>1, <2>1 DEF SvcTypeOK
  <2>3. ASSUME NEW c \in Callers, Inside(c), pc[c] # "idle"
        PROVE  Inside(c)'
    <3>1. pc[c] = "sts_wait" /\ BeforeVerdict(c)
      BY <1>1, <1>3, <2>3 DEF Inside, Clean, AfterVerdict, RespPhase, SvcTypeOK, PCs
    <3>2. AfterVerdict(c)' /\ snd_frm_sts_sem' = 1
      BY <1>1, <2>1, <3>1 DEF BeforeVerdict, AfterVerdict, RespPhase
    <3> QED
      BY <1>1, <2>3, <3>1, <3>2 DEF Inside
  <2> QED
    BY <1>1, <1>3, <2>2, <2>3, MachineMoves
<1> QED
  BY <1>2, <1>3

\* The end of the wait for a response, by the response or by the timeout.
LEMMA ResponseInv ==
  ASSUME SvcInv, SvcTypeOK', ssn_sta = "WAIT_RESPONSE", ssn_sta' = "IDLE",
         UNCHANGED <<pc, cmd, ret, snd_frm_sts, snd_frm_sts_sem>>,
         cmd_resp_sts_sem' = cmd_resp_sts_sem + 1,
         (\E c \in Callers : cmd[c] # NoCmd) => RespKnown'
  PROVE  SvcInv'
<1>1. ASSUME NEW c \in Callers, Inside(c), pc[c] # "idle"
      PROVE  Inside(c)'
  <2>1. pc[c] \in {"sts_wait", "sts_got", "resp_wait"} /\ cmd[c] # NoCmd
    BY <1>1 DEF Inside, Clean, SvcInv, SvcTypeOK, PCs
  <2>2. pc[c] \in {"sts_wait", "sts_got"} =>
          /\ AfterVerdict(c) /\ snd_frm_sts = "OK" /\ cmd[c] \in HasResp
          /\ snd_frm_sts_sem = (IF pc[c] = "sts_wait" THEN 1 ELSE 0)
    BY <1>1 DEF Inside, AfterVerdict, BeforeVerdict
  <2>3. RespPhase /\ RespKnown'
    BY <1>1, <2>1, <2>2 DEF Inside, AfterVerdict
  <2>4. RespPhase'
    BY <2>3 DEF RespPhase
  <2>5. pc[c] \in {"sts_wait", "sts_got"} => AfterVerdict(c)'
    BY <2>2, <2>4 DEF AfterVerdict
  <2> QED
    BY <1>1, <2>1, <2>2, <2>4, <2>5 DEF Inside
<1> QED
  BY <1>1, MachineMoves

LEMMA RxResInv ==
  ASSUME SvcInv, NEW k \in Cmds, RxRes(k)
  PROVE  SvcInv'
<1> USE SessionAssumption
<1>1. /\ UNCHANGED <<pc, cmd, ret, last_cmd, snd_frm_sts, snd_frm_sts_sem>>
      /\ heard' = IF \A c \in Callers : cmd[c] = NoCmd THEN heard ELSE heard \cup {k}
      /\ SvcTypeOK
  BY DEF RxRes, SvcInv
<1>2. heard \subseteq heard' /\ heard' \subseteq Cmds
  BY <1>1 DEF SvcTypeOK
<1>3. CASE ssn_sta # "WAIT_RESPONSE"
  BY <1>1, <1>2, <1>3, SessionIdles DEF RxRes, WaitsResp
<1>4. CASE ssn_sta = "WAIT_RESPONSE"
  <2>1. PICK mem \in BOOLEAN : /\ cmd_resp' = IF mem THEN k ELSE NoCmd
                               /\ cmd_resp_sts' = IF mem THEN "OK" ELSE "MEM"
    BY <1>4 DEF RxRes, WaitsResp
  <2>2. ssn_sta' = "IDLE" /\ cmd_resp_sts_sem' = cmd_resp_sts_sem + 1
    BY <1>4 DEF RxRes, WaitsResp
  <2>3. SvcTypeOK'
    BY <1>1, <1>2, <2>1, <2>2 DEF SvcTypeOK
  <2>4. (\E c \in Callers : cmd[c] # NoCmd) => RespKnown'
    BY <1>1, <2>1 DEF RespKnown, RespSts
  <2> QED
    BY <1>1, <1>4, <2>2, <2>3, <2>4, ResponseInv
<1> QED
  BY <1>3, <1>4

LEMMA RespTmoutInv ==
  ASSUME SvcInv, RespTmout
  PROVE  SvcInv'
<1> USE SessionAssumption
<1>1. /\ UNCHANGED <<pc, cmd, ret, heard, last_cmd, snd_frm_sts, snd_frm_sts_sem, cmd_resp>>
      /\ SvcTypeOK
  BY DEF RespTmout, SvcInv
<1>2. CASE ssn_sta # "WAIT_RESPONSE"
  BY <1>1, <1>2, SessionIdles DEF RespTmout, SvcTypeOK, WaitsResp
<1>3. CASE ssn_sta = "WAIT_RESPONSE"
  <2>1. ssn_sta' = "IDLE" /\ cmd_resp_sts' = "TIMEOUT" /\ cmd_resp_sts_sem' = cmd_resp_sts_sem + 1
    BY <1>3 DEF RespTmout, WaitsResp
  <2>2. SvcTypeOK' /\ RespKnown'
    BY <1>1, <2>1 DEF SvcTypeOK, RespKnown, RespSts
  <2> QED
    BY <1>1, <1>3, <2>1, <2>2, ResponseInv
<1> QED
  BY <1>2, <1>3

\* The steps that do not touch the session's side of ssn_cmd_snd.
LEMMA ElsewhereInv ==
  ASSUME SvcInv,
         \/ \E e \in SsnFrames : RxCallback(e)
         \/ RxUnsolicited \/ CbThrd \/ SsnRxAck \/ SsnFrmStep
         \/ UNCHANGED ssn_vars
  PROVE  /\ UNCHANGED <<pc, cmd, ret, heard>>
         /\ SvcInv'
<1>1. UNCHANGED <<pc, cmd, ret, ssn_sta, last_cmd, snd_frm_sts, snd_frm_sts_sem,
                  cmd_resp_sts, cmd_resp_sts_sem, cmd_resp, heard>>
  BY DEF RxCallback, RxUnsolicited, CbThrd, SsnRxAck, SsnFrmStep, ssn_vars, ssn_only
<1> QED
  BY <1>1, SessionIdles DEF SvcInv, SvcTypeOK

LEMMA SvcNextInv ==
  ASSUME Unserialised = {}
  PROVE  SvcInv /\ [SsnNext]_ssn_vars => SvcInv'
<1> SUFFICES ASSUME SvcInv, [SsnNext]_ssn_vars PROVE SvcInv'
  OBVIOUS
<1>1. ASSUME NEW c \in Callers, CallerStep(c) PROVE SvcInv'
  BY <1>1, SsnCmdSentInv, WaitStsInv, ReadStsInv, WaitRespInv, ReadRespStsInv, TakeRespInv,
     LeaveInv DEF CallerStep
<1>2. ASSUME NEW c \in Callers, NEW k \in CmdsOf(c), SsnCmdSnd(c, k) PROVE SvcInv'
  BY <1>2, SsnCmdSndInv
<1>3. ASSUME NEW sts \in RdSts \cup ThrdSts, SndFrmSts(sts) PROVE SvcInv'
  <2>1. sts \in Verdicts
    BY DEF RdSts, ThrdSts, Verdicts
  <2> QED
    BY <1>3, <2>1, SndFrmStsInv
<1>4. CASE RespTmout
  BY <1>4, RespTmoutInv
<1>5. ASSUME NEW k \in Cmds, RxRes(k) PROVE SvcInv'
  BY <1>5, RxResInv
<1> QED
  BY <1>1, <1>2, <1>3, <1>4, <1>5, ElsewhereInv DEF SsnNext, SsnRdReport, SsnThrdReport

LEMMA SvcInvariant ==
  ASSUME Unserialised = {}
  PROVE  SsnSpec => []SvcInv
BY SvcInitInv, SvcNextInv, PTL DEF SsnSpec

---------------------------------------------------------------------------
(* Theorems.                                                               *)

\* Nothing is left over for the next command: whenever no caller waits, both
\* semaphores are down and the state machine is idle.
THEOREM SsnNoLeftOver ==
  ASSUME Unserialised = {}
  PROVE  SsnSpec => []NoLeftOver
<1>1. SvcInv => NoLeftOver
  <2>1. SUFFICES ASSUME SvcInv, \A c \in Callers : pc[c] \in {"idle", "done"}
                 PROVE  Clean
    BY DEF NoLeftOver, Clean
  <2>2. CASE \A c \in Callers : pc[c] = "idle"
    BY <2>1, <2>2 DEF SvcInv
  <2>3. ASSUME NEW c \in Callers, pc[c] = "done"
        PROVE  Clean
    BY <2>1, <2>3 DEF SvcInv, Inside
  <2> QED
    BY <2>1, <2>2, <2>3
<1> QED
  BY <1>1, SvcInvariant, PTL

\* No caller that holds snd_mtx meets SESSION_ERROR_SYNC, a response that is
\* not there, or a status that changes between two reads.
THEOREM SsnNeverOutOfSync ==
  ASSUME Unserialised = {}
  PROVE  SsnSpec => []NeverOutOfSync
<1>1. SvcInv => NeverOutOfSync
  BY DEF SvcInv, Inside, NeverOutOfSync
<1> QED
  BY <1>1, SvcInvariant, PTL

\* A step of the session is a step of the command service, or none.
LEMMA StepSimulates ==
  ASSUME Unserialised = {}, SvcInv, [SsnNext]_ssn_vars
  PROVE  [Svc!SvcNext]_(Svc!svc_vars)
<1> USE SessionAssumption
<1>i. SvcTypeOK /\ (\A c \in Callers : Inside(c))
  BY DEF SvcInv
<1>s. ASSUME UNCHANGED <<cmd, ret, heard>> PROVE [Svc!SvcNext]_(Svc!svc_vars)
  BY <1>s DEF Svc!svc_vars
\* The caller that returns finishes its command.
<1>f. ASSUME NEW c \in Callers, pc[c] \notin {"idle", "done"},
             NEW r \in Svc!Failures \cup {"SENT", "RESPONSE"}, Return(c, r),
             r = "SENT" => cmd[c] \notin HasResp,
             r = "RESPONSE" => cmd[c] \in HasResp \cap heard
      PROVE  Svc!SvcNext
  <2>1. cmd[c] # NoCmd
    BY <1>i, <1>f DEF Inside
  <2>2. Svc!Finish(c)
    BY <1>f, <2>1 DEF Svc!Finish, Return
  <2> QED
    BY <2>2 DEF Svc!SvcNext
<1>1. ASSUME NEW c \in Callers, NEW k \in CmdsOf(c), SsnCmdSnd(c, k)
      PROVE  Svc!SvcNext
  <2>1. (\A d \in Callers : pc[d] = "idle") /\ Clean /\ k \in Cmds
    BY <1>1, EnterAlone DEF SsnCmdSnd, SvcInv, CmdsOf
  <2>2. Svc!Quiet
    BY <1>i, <2>1 DEF Svc!Quiet, Svc!InProgress, Inside
  <2>3. PICK r \in FrmRets :
          IF r = "ok"
          THEN Goto(c, "sending") /\ cmd' = [cmd EXCEPT ![c] = k] /\ heard' = {} /\ UNCHANGED ret
          ELSE Return(c, FrmErr(r))
    BY <1>1, <2>1 DEF SsnCmdSnd, Clean
  <2>4. CASE r = "ok"
    BY <2>1, <2>2, <2>3, <2>4 DEF Svc!SvcNext, Svc!Begin
  <2>5. CASE r # "ok"
    <3>1. FrmErr(r) \in Svc!Refusals
      BY <2>5 DEF FrmErr, FrmRets, Svc!Refusals
    <3>2. cmd[c] = NoCmd
      BY <1>i, <2>1 DEF Inside
    <3>3. cmd' = cmd
      BY <1>i, <2>3, <2>5, <3>2 DEF Return, SvcTypeOK
    <3>4. ret' = [ret EXCEPT ![c] = FrmErr(r)] /\ heard' = {}
      BY <2>3, <2>5 DEF Return
    <3> QED
      BY <2>2, <3>1, <3>3, <3>4 DEF Svc!SvcNext, Svc!Refuse
  <2> QED
    BY <2>4, <2>5
<1>2. ASSUME NEW c \in Callers, SsnCmdSent(c) \/ WaitSts(c) \/ WaitResp(c)
      PROVE  UNCHANGED <<cmd, ret, heard>>
  BY <1>2 DEF SsnCmdSent, WaitSts, WaitResp
<1>3. ASSUME NEW c \in Callers, ReadSts(c)
      PROVE  [Svc!SvcNext]_(Svc!svc_vars)
  <2>1. CASE UNCHANGED <<cmd, ret, heard>>
    BY <1>s, <2>1
  <2>2. CASE pc[c] = "sts_got" /\ cmd[c] \notin HasResp /\ Return(c, "SENT")
    BY <1>f, <2>2
  <2>3. CASE pc[c] = "sts_bad" /\ Return(c, SndErr[snd_frm_sts])
    <3>1. snd_frm_sts \in Verdicts \ {"OK"}
      BY <1>i, <2>3 DEF Inside
    <3>2. SndErr[snd_frm_sts] \in Svc!Failures \ {"SENT", "RESPONSE"}
      BY <3>1 DEF SndErr, Verdicts, Svc!Failures
    <3> QED
      BY <1>f, <2>3, <3>2
  <2> QED
    BY <1>3, <2>1, <2>2, <2>3 DEF ReadSts
<1>4. ASSUME NEW c \in Callers, ReadRespSts(c)
      PROVE  [Svc!SvcNext]_(Svc!svc_vars)
  <2>1. CASE UNCHANGED <<cmd, ret, heard>>
    BY <1>s, <2>1
  <2>2. CASE pc[c] = "resp_bad" /\ Return(c, RespErr[cmd_resp_sts])
    <3>1. cmd_resp_sts \in {"TIMEOUT", "MEM"}
      BY <1>i, <2>2 DEF Inside, RespKnown, RespSts
    <3>2. RespErr[cmd_resp_sts] \in Svc!Failures \ {"SENT", "RESPONSE"}
      BY <3>1 DEF RespErr, Svc!Failures
    <3> QED
      BY <1>f, <2>2, <3>2
  <2> QED
    BY <1>4, <2>1, <2>2 DEF ReadRespSts
<1>5. ASSUME NEW c \in Callers, TakeResp(c)
      PROVE  [Svc!SvcNext]_(Svc!svc_vars)
  <2>1. pc[c] = "resp_lock" /\ cmd[c] \in HasResp /\ cmd_resp \in heard /\ cmd_resp # NoCmd
    BY <1>i, <1>5 DEF TakeResp, Inside, RespKnown, SvcTypeOK
  <2>2. CASE cmd_resp = cmd[c]
    BY <1>f, <1>5, <2>1, <2>2 DEF TakeResp, RespOf
  <2>3. CASE cmd_resp # cmd[c]
    <3>1. Return(c, "ERR_INVALID_RESP")
      BY <1>5, <2>1, <2>3 DEF TakeResp, RespOf
    <3> QED
      BY <1>f, <2>1, <3>1 DEF Svc!Failures
  <2> QED
    BY <2>2, <2>3
\* The caller uses the outcome.
<1>6. ASSUME NEW c \in Callers, Leave(c)
      PROVE  Svc!SvcNext
  <2>1. ret[c] # "none"
    BY <1>i, <1>6 DEF Leave, Inside
  <2> QED
    BY <1>6, <2>1 DEF Leave, Svc!SvcNext, Svc!Use
\* A response frame is heard while a command is in progress.
<1>7. ASSUME NEW k \in Cmds, RxRes(k)
      PROVE  [Svc!SvcNext]_(Svc!svc_vars)
  <2>1. /\ UNCHANGED <<cmd, ret>>
        /\ heard' = IF \A c \in Callers : cmd[c] = NoCmd THEN heard ELSE heard \cup {k}
    BY <1>7 DEF RxRes
  <2>2. CASE \A c \in Callers : cmd[c] = NoCmd
    BY <1>s, <2>1, <2>2
  <2>3. CASE ~ \A c \in Callers : cmd[c] = NoCmd
    BY <2>1, <2>3 DEF Svc!SvcNext, Svc!Hear, Svc!InProgress
  <2> QED
    BY <2>2, <2>3
<1>8. ASSUME RespTmout \/ (\E sts \in RdSts \cup ThrdSts : SndFrmSts(sts))
      PROVE  UNCHANGED <<cmd, ret, heard>>
  BY <1>8 DEF RespTmout, SndFrmSts, WaitsVerdict
<1> QED
  BY <1>s, <1>1, <1>2, <1>3, <1>4, <1>5, <1>6, <1>7, <1>8, ElsewhereInv
     DEF SsnNext, CallerStep, SsnRdReport, SsnThrdReport

\* ssn_cmd_snd does what the command service allows, step by step: one command
\* at a time, one outcome for each, and no response that was not received
\* after the command was begun.
THEOREM SsnImplementsService ==
  ASSUME Unserialised = {}
  PROVE  SsnSpec => Svc!SvcInit /\ [][Svc!SvcNext]_(Svc!svc_vars)
<1>1. SsnInit => Svc!SvcInit
  BY DEF SsnInit, Svc!SvcInit
<1>2. SvcInv /\ [SsnNext]_ssn_vars => [Svc!SvcNext]_(Svc!svc_vars)
  BY StepSimulates
<1> QED
  BY <1>1, <1>2, SvcInvariant, PTL DEF SsnSpec

---------------------------------------------------------------------------
(* Types, and the timers of both layers, whoever calls.                    *)

\* A response timer runs only for a command that waits for its response.
RespTimerWaits == TmrsOf(tmr_lst, "resp") # {} => ssn_sta = "WAIT_RESPONSE"

\* sta_mach_mtx: one caller at a time is between queueing its frame and
\* EVENT_COMMAND_SENT, and the state machine stands still meanwhile.
SendingAlone ==
  /\ \A c \in Callers : pc[c] = "sending" => ssn_sta = "IDLE"
  /\ \A c, d \in Callers : pc[c] = "sending" /\ pc[d] = "sending" => c = d

TmrInv == FrmInv /\ SsnTypeOK /\ RespTimerWaits /\ SendingAlone

LEMMA TmrInitInv == SsnInit => TmrInv
<1> SUFFICES ASSUME SsnInit PROVE TmrInv
  OBVIOUS
<1>1. FrmInv /\ FrmTypeOK /\ tmr_lst = {}
  BY FrmInitInv DEF SsnInit, FrmInv, FrmInit
<1>2. SsnTypeOK
  BY <1>1, SessionAssumption DEF SsnInit, SsnTypeOK, PCs, Outcomes, FuncIds
<1> QED
  BY <1>1, <1>2 DEF TmrInv, RespTimerWaits, TmrsOf, SendingAlone, SsnInit

\* ssn_func_id_gen stays in range.
LEMMA FuncIdInRange ==
  ASSUME last_gen_func_id \in 0 .. SESSION_FUNCID_MAX
  PROVE  FuncIdGen \in FuncIds
BY SessionAssumption DEF FuncIdGen, FuncIds

\* A step of the frame layer that leaves the state machine and the callers alone.
LEMMA FrmStepTmr ==
  ASSUME TmrInv, [FrmNext]_frm_vars, ssn_sta' = ssn_sta
  PROVE  FrmInv' /\ FrmTypeOK' /\ RespTimerWaits'
<1>1. FrmInv'
  BY FrmNextInv DEF TmrInv
<1>2. RespTimerWaits'
  BY FrmNextNoResp DEF TmrInv, RespTimerWaits
<1> QED
  BY <1>1, <1>2 DEF FrmInv

\* The frames of the session are frames of the frame layer.
LEMMA SsnCmdSndTmr ==
  ASSUME TmrInv, NEW c \in Callers, NEW k \in CmdsOf(c), SsnCmdSnd(c, k)
  PROVE  TmrInv'
<1> USE SessionAssumption
<1>1. SsnTypeOK /\ FrmInv /\ k \in Cmds
  BY DEF TmrInv, CmdsOf
<1>2. UNCHANGED <<ssn_sta, last_cmd, snd_frm_sts_sem, cmd_resp_sts, cmd_resp_sts_sem,
                  cmd_resp, cb_map, cb_req_hd>>
  BY DEF SsnCmdSnd
<1>m. \A d \in Callers : pc[d] # "sending"
  BY DEF SsnCmdSnd, SsnMtxFree
<1>r. ASSUME NEW r \in Outcomes, Return(c, r)
      PROVE  /\ pc' \in [Callers -> PCs] /\ cmd' \in [Callers -> Cmds \cup {NoCmd}]
             /\ ret' \in [Callers -> Outcomes] /\ heard' = {} /\ SendingAlone'
  BY <1>1, <1>r, <1>m DEF Return, Goto, SsnTypeOK, PCs, SendingAlone
<1>3. CASE ssn_sta # "IDLE"
  <2>1. /\ Return(c, "ERR_UNCOMPLETED")
        /\ UNCHANGED <<frm_vars, last_gen_func_id, ctl_cb, snd_frm_sts>>
    BY <1>3 DEF SsnCmdSnd
  <2>2. FrmInv' /\ FrmTypeOK' /\ RespTimerWaits'
    BY <1>2, <2>1, FrmStepTmr
  <2>3. /\ pc' \in [Callers -> PCs] /\ cmd' \in [Callers -> Cmds \cup {NoCmd}]
        /\ ret' \in [Callers -> Outcomes] /\ heard' = {} /\ SendingAlone'
    BY <1>r, <2>1 DEF Outcomes
  <2>4. SsnTypeOK'
    BY <1>1, <1>2, <2>1, <2>2, <2>3 DEF SsnTypeOK
  <2> QED
    BY <2>2, <2>3, <2>4 DEF TmrInv
<1>4. CASE ssn_sta = "IDLE"
  <2> DEFINE id == IF k \in HasCb THEN FuncIdGen ELSE 0
  <2>1. PICK r \in FrmRets :
          /\ FrmDatFrmSnd([cmd |-> k, func_id |-> id], r)
          /\ IF r = "ok"
             THEN Goto(c, "sending") /\ cmd' = [cmd EXCEPT ![c] = k]
                  /\ heard' = {} /\ UNCHANGED ret
             ELSE Return(c, FrmErr(r))
    BY <1>4 DEF SsnCmdSnd
  <2>2. /\ last_gen_func_id' = IF k \in HasCb THEN id ELSE last_gen_func_id
        /\ ctl_cb' \subseteq ctl_cb /\ snd_frm_sts' = "UNKNOWN"
    BY <1>4 DEF SsnCmdSnd
  <2>3. id \in 0 .. SESSION_FUNCID_MAX
    BY <1>1, FuncIdInRange DEF SsnTypeOK, FuncIds
  <2>4. last_gen_func_id' \in 0 .. SESSION_FUNCID_MAX
    BY <1>1, <2>2, <2>3 DEF SsnTypeOK
  <2> HIDE DEF id
  <2>5. [cmd |-> k, func_id |-> id] \in Frames
    BY <1>1, <2>3 DEF SsnFrames
  <2>6. FrmNext
    BY <2>1, <2>5 DEF FrmNext, FrmSend
  <2>7. FrmInv' /\ FrmTypeOK' /\ RespTimerWaits'
    BY <1>2, <2>6, FrmStepTmr
  <2>8. r # "ok" => FrmErr(r) \in Outcomes
    BY DEF FrmErr, FrmRets, Outcomes
  <2>9. /\ pc' \in [Callers -> PCs] /\ cmd' \in [Callers -> Cmds \cup {NoCmd}]
        /\ ret' \in [Callers -> Outcomes] /\ heard' = {} /\ SendingAlone'
    <3>1. CASE r = "ok"
      BY <1>1, <1>2, <1>4, <1>m, <2>1, <3>1 DEF SsnTypeOK, Goto, PCs, SendingAlone
    <3>2. CASE r # "ok"
      BY <1>r, <2>1, <2>8, <3>2
    <3> QED
      BY <3>1, <3>2
  <2>10. SsnTypeOK'
    BY <1>1, <1>2, <2>2, <2>4, <2>7, <2>9 DEF SsnTypeOK
  <2> QED
    BY <2>7, <2>9, <2>10 DEF TmrInv
<1> QED
  BY <1>3, <1>4

\* The other steps of a caller do not touch the frame layer.
LEMMA CallerStepTmr ==
  ASSUME TmrInv, NEW c \in Callers, CallerStep(c)
  PROVE  TmrInv'
<1> USE SessionAssumption
<1>1. SsnTypeOK /\ FrmTypeOK
  BY DEF TmrInv, SsnTypeOK
<1>2. UNCHANGED frm_vars
  BY DEF CallerStep, SsnCmdSent, WaitSts, ReadSts, WaitResp, ReadRespSts, TakeResp, Leave
<1>3. FrmInv' /\ FrmTypeOK'
  BY <1>2, FrmNextInv DEF TmrInv, FrmInv
<1>a. SendingAlone /\ RespTimerWaits
  BY DEF TmrInv
<1>r. ASSUME NEW r \in Outcomes, Return(c, r), UNCHANGED ssn_sta
      PROVE  /\ pc' \in [Callers -> PCs] /\ cmd' \in [Callers -> Cmds \cup {NoCmd}]
             /\ ret' \in [Callers -> Outcomes] /\ heard' \subseteq Cmds /\ SendingAlone'
  BY <1>1, <1>a, <1>r DEF Return, Goto, SsnTypeOK, PCs, SendingAlone
<1>g. ASSUME NEW l \in PCs \ {"sending"}, Goto(c, l), UNCHANGED ssn_sta
      PROVE  pc' \in [Callers -> PCs] /\ SendingAlone'
  BY <1>1, <1>a, <1>g DEF Goto, SsnTypeOK, SendingAlone
<1>u. ASSUME ssn_sta' = ssn_sta PROVE RespTimerWaits'
  BY <1>2, <1>a, <1>u DEF RespTimerWaits, frm_vars
<1>4. CASE SsnCmdSent(c)
  <2>1. /\ pc[c] = "sending" /\ pc' = [pc EXCEPT ![c] = "sts_wait"]
        /\ ssn_sta' = "COMMAND_SENT"
        /\ UNCHANGED <<snd_frm_sts, snd_frm_sts_sem, cmd_resp_sts_sem, last_gen_func_id,
                       cb_req_hd, cmd, ret, heard, ctl_cb>>
    BY <1>4 DEF SsnCmdSent, Goto
  <2>2. cb_map' \in [FuncIds -> Cmds \cup {NoCmd}]
    BY <1>1, <1>4 DEF SsnCmdSent, SsnTypeOK
  <2>3. last_cmd' \in Cmds \cup {NoCmd} /\ cmd_resp_sts' \in RespSts \cup {"UNKNOWN"}
        /\ cmd_resp' \in Cmds \cup {NoCmd}
    BY <1>1, <1>4 DEF SsnCmdSent, SsnTypeOK
  <2>4. SsnTypeOK'
    BY <1>1, <1>3, <2>1, <2>2, <2>3 DEF SsnTypeOK, PCs
  <2>5. SendingAlone'
    BY <1>1, <1>a, <2>1 DEF SendingAlone, SsnTypeOK
  <2>6. RespTimerWaits'
    BY <1>2, <1>a, <2>1 DEF RespTimerWaits, SendingAlone, frm_vars
  <2> QED
    BY <1>3, <2>4, <2>5, <2>6 DEF TmrInv
<1>5. CASE WaitSts(c) \/ WaitResp(c)
  <2>1. /\ UNCHANGED <<ssn_sta, last_cmd, snd_frm_sts, cmd_resp_sts, cmd_resp, last_gen_func_id,
                       cb_map, cb_req_hd, cmd, ret, heard, ctl_cb>>
        /\ Goto(c, "sts_got") \/ Goto(c, "resp_got")
        /\ snd_frm_sts_sem' \in Nat /\ cmd_resp_sts_sem' \in Nat
    BY <1>1, <1>5 DEF WaitSts, WaitResp, SsnTypeOK
  <2>2. pc' \in [Callers -> PCs] /\ SendingAlone' /\ RespTimerWaits'
    BY <1>g, <1>u, <2>1 DEF PCs
  <2>3. SsnTypeOK'
    BY <1>1, <1>3, <2>1, <2>2 DEF SsnTypeOK
  <2> QED
    BY <1>3, <2>2, <2>3 DEF TmrInv
<1>6. CASE ReadSts(c) \/ ReadRespSts(c) \/ TakeResp(c)
  <2>1. UNCHANGED <<ssn_sta, last_cmd, snd_frm_sts, snd_frm_sts_sem, cmd_resp_sts,
                    cmd_resp_sts_sem, cmd_resp, last_gen_func_id, cb_map, cb_req_hd, ctl_cb>>
    BY <1>6 DEF ReadSts, ReadRespSts, TakeResp
  <2>2. /\ pc' \in [Callers -> PCs] /\ cmd' \in [Callers -> Cmds \cup {NoCmd}]
        /\ ret' \in [Callers -> Outcomes] /\ heard' \subseteq Cmds /\ SendingAlone'
    <3>1. ASSUME NEW l \in {"resp_wait", "sts_bad", "resp_lock", "resp_bad"}, Goto(c, l),
                 UNCHANGED <<cmd, ret, heard>>
          PROVE  /\ pc' \in [Callers -> PCs] /\ cmd' \in [Callers -> Cmds \cup {NoCmd}]
                 /\ ret' \in [Callers -> Outcomes] /\ heard' \subseteq Cmds /\ SendingAlone'
      BY <1>1, <1>g, <2>1, <3>1 DEF SsnTypeOK, PCs
    <3>2. ASSUME NEW r \in Outcomes, Return(c, r)
          PROVE  /\ pc' \in [Callers -> PCs] /\ cmd' \in [Callers -> Cmds \cup {NoCmd}]
                 /\ ret' \in [Callers -> Outcomes] /\ heard' \subseteq Cmds /\ SendingAlone'
      BY <1>r, <2>1, <3>2
    <3>3. CASE ReadSts(c)
      <4>1. SndErr[snd_frm_sts] \in Outcomes /\ "SENT" \in Outcomes
        BY <1>1 DEF SsnTypeOK, SndErr, Verdicts, Outcomes
      <4> QED
        BY <3>1, <3>2, <3>3, <4>1 DEF ReadSts
    <3>4. CASE ReadRespSts(c)
      <4>1. RespErr[cmd_resp_sts] \in Outcomes
        BY <1>1 DEF SsnTypeOK, RespErr, RespSts, Outcomes
      <4> QED
        BY <3>1, <3>2, <3>4, <4>1 DEF ReadRespSts
    <3>5. CASE TakeResp(c)
      <4>1. Return(c, "NULL_DEREF") \/ Return(c, "RESPONSE") \/ Return(c, "ERR_INVALID_RESP")
        BY <3>5 DEF TakeResp, RespOf
      <4> QED
        BY <3>2, <4>1 DEF Outcomes
    <3> QED
      BY <1>6, <3>3, <3>4, <3>5
  <2>3. SsnTypeOK'
    BY <1>1, <1>3, <2>1, <2>2 DEF SsnTypeOK
  <2> QED
    BY <1>3, <1>u, <2>1, <2>2, <2>3 DEF TmrInv
<1>7. CASE Leave(c)
  <2>1. /\ UNCHANGED <<ssn_sta, last_cmd, snd_frm_sts, snd_frm_sts_sem, cmd_resp_sts,
                       cmd_resp_sts_sem, cmd_resp, last_gen_func_id, cb_map, cb_req_hd,
                       cmd, heard, ctl_cb>>
        /\ Goto(c, "idle") /\ ret' = [ret EXCEPT ![c] = "none"]
    BY <1>7 DEF Leave
  <2>2. pc' \in [Callers -> PCs] /\ SendingAlone' /\ ret' \in [Callers -> Outcomes]
    BY <1>1, <1>g, <2>1 DEF SsnTypeOK, PCs, Outcomes
  <2>3. SsnTypeOK'
    BY <1>1, <1>3, <2>1, <2>2 DEF SsnTypeOK
  <2> QED
    BY <1>3, <1>u, <2>1, <2>2, <2>3 DEF TmrInv
<1> QED
  BY <1>4, <1>5, <1>6, <1>7 DEF CallerStep

\* Frame layer steps under the session.
LEMMA FrameLayerTmr ==
  ASSUME TmrInv, SsnRxAck \/ SsnFrmStep \/ UNCHANGED ssn_vars
  PROVE  TmrInv'
<1> USE SessionAssumption
<1>1. [FrmNext]_frm_vars
  BY DEF SsnRxAck, SsnFrmStep, FrmNext, FrmRead, FrmTimeouts, ssn_vars
<1>2. UNCHANGED <<ssn_sta, last_cmd, snd_frm_sts, snd_frm_sts_sem, cmd_resp_sts,
                  cmd_resp_sts_sem, cmd_resp, last_gen_func_id, cb_map, cb_req_hd, pc, cmd,
                  ret, heard>>
  BY DEF SsnRxAck, SsnFrmStep, ssn_vars, ssn_only
<1>3. ctl_cb' \subseteq SsnFrames
  BY DEF SsnRxAck, SsnFrmStep, ssn_vars, ssn_only, TmrInv, SsnTypeOK, FrmTypeOK, Outstanding
<1>4. FrmInv' /\ FrmTypeOK' /\ RespTimerWaits'
  BY <1>1, <1>2, FrmStepTmr
<1>5. SsnTypeOK' /\ SendingAlone'
  BY <1>2, <1>3, <1>4 DEF TmrInv, SsnTypeOK, SendingAlone
<1> QED
  BY <1>4, <1>5 DEF TmrInv

\* The steps of the callback queue.
LEMMA CallbackTmr ==
  ASSUME TmrInv, (\E e \in SsnFrames : RxCallback(e)) \/ RxUnsolicited \/ CbThrd
  PROVE  TmrInv'
<1> USE SessionAssumption
<1>1. UNCHANGED <<frm_vars, ssn_sta, last_cmd, snd_frm_sts, snd_frm_sts_sem, cmd_resp_sts,
                  cmd_resp_sts_sem, cmd_resp, last_gen_func_id, cb_map, pc, cmd, ret,
                  heard, ctl_cb>>
  BY DEF RxCallback, RxUnsolicited, CbThrd
<1>2. FrmInv' /\ FrmTypeOK' /\ RespTimerWaits'
  BY <1>1, FrmStepTmr
<1>3. cb_req_hd \in Seq(CbReqs)
  BY DEF TmrInv, SsnTypeOK
<1>4. cb_req_hd' \in Seq(CbReqs)
  <2>1. ASSUME NEW e \in SsnFrames, RxCallback(e)
        PROVE  cb_req_hd' \in Seq(CbReqs)
    <3>1. [cmd |-> e.cmd,
           fn |-> IF e.func_id \in FuncIds /\ cb_map[e.func_id] = e.cmd
                  THEN e.cmd ELSE NoCmd] \in CbReqs
      BY DEF CbReqs, SsnFrames
    <3> QED
      BY <1>3, <2>1, <3>1 DEF RxCallback, QueueCb
  <2>2. CASE RxUnsolicited
    BY <1>3, <2>2 DEF RxUnsolicited, QueueCb, CbReqs
  <2>3. CASE CbThrd
    BY <1>3, <2>3 DEF CbThrd
  <2> QED
    BY <2>1, <2>2, <2>3
<1>5. SsnTypeOK' /\ SendingAlone'
  BY <1>1, <1>2, <1>4 DEF TmrInv, SsnTypeOK, SendingAlone
<1> QED
  BY <1>2, <1>5 DEF TmrInv

\* The response timer is started by the command that begins to wait for its
\* response, when no response timer runs, and stopped when the wait ends.
LEMMA SndFrmStsTmr ==
  ASSUME TmrInv, NEW sts \in Verdicts, SndFrmSts(sts),
         UNCHANGED <<last_frm_buf, resend_cnt, tx_cnt, cb_thrds>>,
         thrd_sts' \in [ThrdSts -> Nat], rd_sts' \in RdSts \cup {"none"}
  PROVE  TmrInv'
<1> USE FrameAssumption, SessionAssumption
<1>1. /\ SsnTypeOK /\ FrmInv /\ RespTimerWaits /\ SendingAlone
      /\ tmr_lst \in SUBSET Timers /\ AllNamed(tmr_lst)
      /\ "resp" \in TmrCbs /\ "snd" \in TmrCbs /\ RESP_TMOUT \in Nat
  BY StopsKeepList DEF TmrInv, TmrCbs
<1>2. UNCHANGED <<last_cmd, cmd_resp_sts, cmd_resp_sts_sem, cmd_resp, last_gen_func_id,
                  cb_map, cb_req_hd, pc, cmd, ret, heard, ctl_cb>>
      /\ \A c \in Callers : pc[c] # "sending"
  BY DEF SndFrmSts, WaitsVerdict, SsnMtxFree
<1>3. /\ tmr_lst' \in SUBSET Timers /\ AllNamed(tmr_lst')
      /\ TmrsOf(tmr_lst', "snd") = TmrsOf(tmr_lst, "snd")
      /\ RespTimerWaits'
  <2>1. CASE UNCHANGED <<tmr_lst, ssn_sta>>
    BY <1>1, <2>1 DEF RespTimerWaits
  <2>2. CASE ssn_sta = "COMMAND_SENT"
    <3>1. TmrsOf(tmr_lst, "resp") = {}
      BY <1>1, <2>2 DEF RespTimerWaits
    <3>2. \/ ssn_sta' = "WAIT_RESPONSE"
             /\ \/ tmr_lst' = TmrStart(tmr_lst, "resp", RESP_TMOUT)
                \/ tmr_lst' = TmrForget(tmr_lst, "resp")
          \/ ssn_sta' = "IDLE" /\ UNCHANGED tmr_lst
      BY <2>2 DEF SndFrmSts, WaitsVerdict
    <3> QED
      BY <1>1, <3>1, <3>2, TmrStartNone, TmrForgetNone DEF RespTimerWaits
  <2> QED
    BY <2>1, <2>2 DEF SndFrmSts, WaitsVerdict
<1>4. FrmTypeOK'
  BY <1>1, <1>3 DEF SsnTypeOK, FrmTypeOK
<1>5. FrmInv'
  BY <1>1, <1>3, <1>4 DEF FrmInv, NoOrphanTimer, AllNamed, SndTimerHasFrame, Outstanding
<1>6. /\ snd_frm_sts' \in Verdicts \cup {"UNKNOWN"} /\ snd_frm_sts_sem' \in Nat
      /\ ssn_sta' \in {"IDLE", "COMMAND_SENT", "WAIT_RESPONSE"}
  BY <1>1 DEF SndFrmSts, WaitsVerdict, SsnTypeOK
<1>7. SsnTypeOK' /\ SendingAlone'
  BY <1>1, <1>2, <1>4, <1>6 DEF SsnTypeOK, SendingAlone
<1> QED
  BY <1>3, <1>5, <1>7 DEF TmrInv

LEMMA ResponseTmr ==
  ASSUME TmrInv, (\E k \in Cmds : RxRes(k)) \/ RespTmout
  PROVE  TmrInv'
<1> USE FrameAssumption, SessionAssumption
<1>1. /\ SsnTypeOK /\ FrmInv /\ RespTimerWaits /\ SendingAlone
      /\ tmr_lst \in SUBSET Timers /\ AllNamed(tmr_lst)
      /\ "resp" \in TmrCbs /\ "snd" \in TmrCbs /\ "snd" # "resp"
  BY StopsKeepList DEF TmrInv, TmrCbs
<1>2. /\ UNCHANGED <<last_frm_buf, resend_cnt, tx_cnt, thrd_sts, rd_sts, last_cmd, snd_frm_sts,
                     snd_frm_sts_sem, last_gen_func_id, cb_map, cb_req_hd, pc, cmd, ret, ctl_cb>>
      /\ \A c \in Callers : pc[c] # "sending"
  BY DEF RxRes, RespTmout, SsnMtxFree
<1>3. /\ cb_thrds' \in [TmrCbs -> Nat] /\ heard' \subseteq Cmds
      /\ cmd_resp' \in Cmds \cup {NoCmd} /\ cmd_resp_sts' \in RespSts \cup {"UNKNOWN"}
      /\ cmd_resp_sts_sem' \in Nat
      /\ ssn_sta' \in {"IDLE", "COMMAND_SENT", "WAIT_RESPONSE"}
  <2>1. CASE \E k \in Cmds : RxRes(k)
    BY <1>1, <2>1 DEF RxRes, SsnTypeOK, FrmTypeOK, RespSts
  <2>2. CASE RespTmout
    BY <1>1, <2>2 DEF RespTmout, SsnTypeOK, FrmTypeOK, RespSts, TmrCbs
  <2> QED
    BY <2>1, <2>2
<1>4. \/ tmr_lst' = TmrStop(tmr_lst, "resp")
      \/ tmr_lst' = tmr_lst /\ ssn_sta' = ssn_sta
  BY DEF RxRes, RespTmout, RespTmrStopped
<1>5. /\ tmr_lst' \in SUBSET Timers /\ AllNamed(tmr_lst')
      /\ TmrsOf(tmr_lst', "snd") = TmrsOf(tmr_lst, "snd")
      /\ RespTimerWaits'
  BY <1>1, <1>4, TmrStopSubset, TmrStopNamed DEF RespTimerWaits
<1>6. FrmTypeOK'
  BY <1>1, <1>2, <1>3, <1>5 DEF SsnTypeOK, FrmTypeOK
<1>7. FrmInv'
  BY <1>1, <1>2, <1>5, <1>6 DEF FrmInv, NoOrphanTimer, AllNamed, SndTimerHasFrame, Outstanding
<1>8. SsnTypeOK' /\ SendingAlone'
  BY <1>1, <1>2, <1>3, <1>6 DEF SsnTypeOK, SendingAlone
<1> QED
  BY <1>5, <1>7, <1>8 DEF TmrInv

LEMMA TmrNextInv == TmrInv /\ [SsnNext]_ssn_vars => TmrInv'
<1> SUFFICES ASSUME TmrInv, [SsnNext]_ssn_vars PROVE TmrInv'
  OBVIOUS
<1>1. ASSUME NEW c \in Callers, CallerStep(c) PROVE TmrInv'
  BY <1>1, CallerStepTmr
<1>2. ASSUME NEW c \in Callers, NEW k \in CmdsOf(c), SsnCmdSnd(c, k) PROVE TmrInv'
  BY <1>2, SsnCmdSndTmr
<1>3. ASSUME NEW sts \in RdSts, RdReport(sts), SndFrmSts(sts) PROVE TmrInv'
  <2>1. sts \in Verdicts /\ thrd_sts \in [ThrdSts -> Nat]
    BY DEF RdSts, Verdicts, TmrInv, SsnTypeOK, FrmTypeOK
  <2> QED
    BY <1>3, <2>1, SndFrmStsTmr DEF RdReport
<1>4. ASSUME NEW sts \in ThrdSts, ThrdReport(sts), SndFrmSts(sts) PROVE TmrInv'
  <2>1. sts \in Verdicts /\ thrd_sts \in [ThrdSts -> Nat] /\ rd_sts \in RdSts \cup {"none"}
    BY DEF ThrdSts, Verdicts, TmrInv, SsnTypeOK, FrmTypeOK
  <2>2. thrd_sts' \in [ThrdSts -> Nat] /\ rd_sts' = rd_sts
    BY <1>4, <2>1 DEF ThrdReport
  <2> QED
    BY <1>4, <2>1, <2>2, SndFrmStsTmr DEF ThrdReport
<1> QED
  BY <1>1, <1>2, <1>3, <1>4, ResponseTmr, CallbackTmr, FrameLayerTmr
     DEF SsnNext, SsnRdReport, SsnThrdReport

LEMMA TmrInvariant == SsnSpec => []TmrInv
BY TmrInitInv, TmrNextInv, PTL DEF SsnSpec

\* Every variable of the two layers keeps its type: function identifiers stay
\* within SESSION_FUNCID_MAX, so cb_map is never indexed outside its bounds.
THEOREM SsnTypeCorrect == SsnSpec => []SsnTypeOK
BY TmrInvariant, PTL DEF TmrInv

\* No timer of either layer is lost, the response timer included.
THEOREM SsnNoOrphanTimer == SsnSpec => []NoOrphanTimer
BY TmrInvariant, PTL DEF TmrInv, FrmInv

---------------------------------------------------------------------------
(* The verdict on a frame and the callbacks of its command, whoever calls. *)
(* Between queueing its frame and EVENT_COMMAND_SENT a caller holds        *)
(* sta_mach_mtx: the answer to the frame may have arrived, but the thread  *)
(* that reports it waits for the mutex.                                    *)

Sending(c) == pc[c] = "sending"

\* The frame is still outstanding, or its verdict is about to be reported.
VerdictPending == Outstanding \/ rd_sts # "none" \/ \E s \in ThrdSts : thrd_sts[s] > 0

VerdictInv ==
  ssn_sta = "COMMAND_SENT" \/ (\E c \in Callers : Sending(c)) => VerdictPending

\* Whoever frees the frame reports a verdict.
LEMMA FrmStepPending ==
  ASSUME TmrInv, VerdictPending, SsnRxAck \/ SsnFrmStep \/ UNCHANGED ssn_vars
  PROVE  VerdictPending'
<1>t. thrd_sts \in [ThrdSts -> Nat] /\ "TIMEOUT" \in ThrdSts /\ "FAIL_DROPPED" \in ThrdSts
  BY DEF TmrInv, SsnTypeOK, FrmTypeOK, ThrdSts
<1>1. CASE SsnRxAck
  BY <1>1 DEF SsnRxAck, RxAck, VerdictPending
<1>2. CASE RxNak \/ RxCan
  BY <1>2 DEF RxNak, RxCan, GiveUp, VerdictPending, Outstanding
<1>3. CASE SndTmout
  <2>1. thrd_sts'["TIMEOUT"] > 0
    BY <1>t, <1>3 DEF SndTmout
  <2> QED
    BY <1>t, <2>1 DEF VerdictPending
<1>4. CASE ResndTmr
  <2>1. CASE UNCHANGED <<last_frm_buf, thrd_sts, rd_sts>>
    BY <2>1 DEF VerdictPending, Outstanding
  <2>2. CASE thrd_sts' = [thrd_sts EXCEPT !["FAIL_DROPPED"] = @ + 1]
    <3>1. thrd_sts'["FAIL_DROPPED"] > 0
      BY <1>t, <2>2
    <3> QED
      BY <1>t, <3>1 DEF VerdictPending
  <2> QED
    BY <1>4, <2>1, <2>2 DEF ResndTmr
<1>5. CASE Tick \/ Expire \/ UNCHANGED ssn_vars
  BY <1>5 DEF Tick, Expire, ssn_vars, frm_vars, VerdictPending, Outstanding
<1> QED
  BY <1>1, <1>2, <1>3, <1>4, <1>5 DEF SsnFrmStep

LEMMA VerdictNext == TmrInv /\ VerdictInv /\ [SsnNext]_ssn_vars => VerdictInv'
<1> SUFFICES ASSUME TmrInv, VerdictInv, [SsnNext]_ssn_vars PROVE VerdictInv'
  OBVIOUS
<1>t. SsnTypeOK /\ SendingAlone
  BY DEF TmrInv
\* Steps that neither begin a wait for a verdict nor touch the frame layer.
<1>k. ASSUME UNCHANGED <<last_frm_buf, rd_sts, thrd_sts>>,
             ssn_sta' = "COMMAND_SENT" => ssn_sta = "COMMAND_SENT",
             \A c \in Callers : Sending(c)' => Sending(c)
      PROVE  VerdictInv'
  BY <1>k DEF VerdictInv, VerdictPending, Outstanding
<1>1. ASSUME NEW c \in Callers, NEW k \in CmdsOf(c), SsnCmdSnd(c, k) PROVE VerdictInv'
  <2>1. CASE Goto(c, "done")
    <3>1. \A d \in Callers : ~ Sending(d)'
      BY <1>1, <1>t, <2>1 DEF Sending, Goto, SsnTypeOK, SsnCmdSnd, SsnMtxFree
    <3>2. ssn_sta' = ssn_sta
      BY <1>1 DEF SsnCmdSnd
    <3>3. UNCHANGED <<rd_sts, thrd_sts>> /\ (Outstanding => Outstanding')
      <4>1. CASE ssn_sta # "IDLE"
        BY <1>1, <4>1 DEF SsnCmdSnd, frm_vars, Outstanding
      <4>2. CASE ssn_sta = "IDLE"
        BY <1>1, <4>2, SessionAssumption, FrameAssumption
           DEF SsnCmdSnd, FrmDatFrmSnd, Outstanding
      <4> QED
        BY <4>1, <4>2
    <3> QED
      BY <3>1, <3>2, <3>3 DEF VerdictInv, VerdictPending
  <2>2. CASE ~ Goto(c, "done")
    <3>1. PICK f \in Frames : FrmDatFrmSnd(f, "ok")
      <4>1. ssn_sta = "IDLE"
        BY <1>1, <2>2 DEF SsnCmdSnd, Return
      <4>2. last_gen_func_id \in 0 .. SESSION_FUNCID_MAX /\ k \in Cmds
        BY <1>1, <1>t, SessionAssumption DEF SsnTypeOK, CmdsOf
      <4>3. (IF k \in HasCb THEN FuncIdGen ELSE 0) \in 0 .. SESSION_FUNCID_MAX
        BY <4>2, FuncIdInRange, SessionAssumption DEF FuncIds
      <4>4. [cmd |-> k, func_id |-> IF k \in HasCb THEN FuncIdGen ELSE 0] \in Frames
        BY <4>2, <4>3, SessionAssumption DEF SsnFrames
      <4> QED
        BY <1>1, <2>2, <4>1, <4>4 DEF SsnCmdSnd, Return
    <3>2. Outstanding'
      BY <3>1, FrameAssumption DEF FrmDatFrmSnd, Outstanding
    <3> QED
      BY <3>2 DEF VerdictInv, VerdictPending
  <2> QED
    BY <2>1, <2>2
<1>2. ASSUME NEW c \in Callers, SsnCmdSent(c) PROVE VerdictInv'
  BY <1>2, <1>t DEF SsnCmdSent, VerdictInv, Sending, VerdictPending, Outstanding, frm_vars
<1>3. ASSUME NEW c \in Callers,
             WaitSts(c) \/ ReadSts(c) \/ WaitResp(c) \/ ReadRespSts(c) \/ TakeResp(c) \/ Leave(c)
      PROVE  VerdictInv'
  <2>1. UNCHANGED <<frm_vars, ssn_sta>>
    BY <1>3 DEF WaitSts, ReadSts, WaitResp, ReadRespSts, TakeResp, Leave
  <2>2. \E l \in PCs \ {"sending"} : pc' = [pc EXCEPT ![c] = l]
    BY <1>3 DEF WaitSts, ReadSts, WaitResp, ReadRespSts, TakeResp, Leave, Return, Goto, PCs
  <2>3. \A d \in Callers : Sending(d)' => Sending(d)
    BY <1>t, <2>2 DEF Sending, SsnTypeOK
  <2> QED
    BY <1>k, <2>1, <2>3 DEF frm_vars
\* A report may be the last trace of a frame; no command waits for it afterwards.
<1>4. ASSUME NEW sts \in RdSts \cup ThrdSts, SndFrmSts(sts) PROVE VerdictInv'
  <2>1. ssn_sta' # "COMMAND_SENT"
    BY <1>4 DEF SndFrmSts, WaitsVerdict
  <2>2. \A c \in Callers : ~ Sending(c)'
    BY <1>4 DEF SndFrmSts, WaitsVerdict, SsnMtxFree, Sending
  <2> QED
    BY <2>1, <2>2 DEF VerdictInv
<1>5. CASE (\E k \in Cmds : RxRes(k)) \/ RespTmout
  <2>1. /\ UNCHANGED <<last_frm_buf, rd_sts, thrd_sts, pc>>
        /\ ssn_sta' = ssn_sta \/ ssn_sta' = "IDLE"
    BY <1>5 DEF RxRes, RespTmout
  <2> QED
    BY <1>k, <2>1 DEF Sending
<1>6. CASE (\E e \in SsnFrames : RxCallback(e)) \/ RxUnsolicited \/ CbThrd
  <2>1. UNCHANGED <<frm_vars, ssn_sta, pc>>
    BY <1>6 DEF RxCallback, RxUnsolicited, CbThrd
  <2> QED
    BY <1>k, <2>1 DEF Sending, frm_vars
<1>7. CASE SsnRxAck \/ SsnFrmStep \/ UNCHANGED ssn_vars
  <2>1. UNCHANGED <<ssn_sta, pc>>
    BY <1>7 DEF SsnRxAck, SsnFrmStep, ssn_vars, ssn_only
  <2> QED
    BY <1>7, <2>1, FrmStepPending DEF VerdictInv, Sending
<1> QED
  BY <1>1, <1>2, <1>3, <1>4, <1>5, <1>6, <1>7
     DEF SsnNext, CallerStep, SsnRdReport, SsnThrdReport

\* A command that waits for the verdict on its frame is never forgotten: the
\* verdict cannot be consumed before EVENT_COMMAND_SENT, however early it comes.
THEOREM SsnVerdictComes == SsnSpec => []VerdictComes
<1>1. SsnInit => VerdictInv
  BY DEF SsnInit, VerdictInv, Sending
<1>2. VerdictInv => VerdictComes
  BY DEF VerdictInv, VerdictPending, VerdictComes
<1> QED
  BY <1>1, <1>2, VerdictNext, TmrInvariant, PTL DEF SsnSpec

---------------------------------------------------------------------------
(* Routing.  A frame with a function identifier is routed when cb_map      *)
(* leads from its identifier to its command, or will when the caller that  *)
(* holds sta_mach_mtx has run EVENT_COMMAND_SENT.                          *)

Mapped(e) == cb_map[e.func_id] = e.cmd

SentBy(c, e) == /\ Sending(c) /\ cmd[c] \in HasCb
                /\ e.cmd = cmd[c] /\ e.func_id = last_gen_func_id

Routed(e) == e.func_id # 0 => Mapped(e) \/ \E c \in Callers : SentBy(c, e)

\* The frames that the controller may call back now or later.
Live == ctl_cb \cup {f \in SsnFrames : f = last_frm_buf}

RouteInv ==
  /\ \A e \in Live : Routed(e)
  /\ \A e \in ctl_cb : e.func_id # 0 /\ (rd_sts = "none" => Mapped(e))
  /\ \A c \in Callers : Sending(c) /\ cmd[c] \in HasCb =>
       \A e \in Live : e.func_id = last_gen_func_id => e.cmd = cmd[c]
  /\ CallbackRouted

LEMMA RouteInit == SsnInit => RouteInv
BY FrameAssumption, SessionAssumption
   DEF SsnInit, FrmInit, RouteInv, Live, Sending, CallbackRouted

\* A step that leaves the identifiers and the callers inside the mutex alone,
\* and brings no frame to life.
LEMMA RouteKept ==
  ASSUME RouteInv, Live' \subseteq Live, ctl_cb' \subseteq ctl_cb,
         UNCHANGED <<cb_map, last_gen_func_id>>,
         rd_sts' = "none" => rd_sts = "none" \/ \A c \in Callers : ~ Sending(c),
         \A c \in Callers : Sending(c) <=> Sending(c)',
         \A c \in Callers : Sending(c) => cmd'[c] = cmd[c],
         CallbackRouted'
  PROVE  RouteInv'
<1>1. ASSUME NEW e \in Live' PROVE Routed(e)'
  BY <1>1 DEF RouteInv, Routed, SentBy, Mapped
<1>2. ASSUME NEW e \in ctl_cb' PROVE e.func_id # 0 /\ (rd_sts' = "none" => Mapped(e)')
  <2>1. Routed(e) /\ e.func_id # 0 /\ (rd_sts = "none" => Mapped(e))
    BY <1>2 DEF RouteInv, Live
  <2> QED
    BY <2>1 DEF Routed, SentBy, Mapped
<1>3. \A c \in Callers : Sending(c)' /\ cmd'[c] \in HasCb =>
        \A e \in Live' : e.func_id = last_gen_func_id' => e.cmd = cmd'[c]
  BY DEF RouteInv
<1> QED
  BY <1>1, <1>2, <1>3 DEF RouteInv

LEMMA RouteSend ==
  ASSUME TmrInv, RouteInv, NEW c \in Callers, NEW k \in CmdsOf(c), SsnCmdSnd(c, k)
  PROVE  RouteInv'
<1> USE SessionAssumption, FrameAssumption
<1>1. /\ SsnTypeOK /\ k \in Cmds /\ \A d \in Callers : ~ Sending(d)
      /\ UNCHANGED <<cb_map, cb_req_hd>>
  BY DEF TmrInv, SsnCmdSnd, SsnMtxFree, Sending, CmdsOf
<1>2. CallbackRouted'
  BY <1>1 DEF RouteInv, CallbackRouted
<1>3. CASE ssn_sta # "IDLE"
  <2>1. UNCHANGED <<frm_vars, last_gen_func_id, ctl_cb>> /\ pc' = [pc EXCEPT ![c] = "done"]
    BY <1>3 DEF SsnCmdSnd, Return, Goto
  <2>2. \A d \in Callers : ~ Sending(d)'
    BY <1>1, <2>1 DEF Sending, SsnTypeOK
  <2> QED
    BY <1>1, <1>2, <2>1, <2>2, RouteKept DEF frm_vars, Live
<1>4. CASE ssn_sta = "IDLE"
  <2> DEFINE id == IF k \in HasCb THEN FuncIdGen ELSE 0
             f == [cmd |-> k, func_id |-> id]
  <2>1. PICK r \in FrmRets :
          /\ FrmDatFrmSnd(f, r)
          /\ IF r = "ok"
             THEN Goto(c, "sending") /\ cmd' = [cmd EXCEPT ![c] = k]
             ELSE Return(c, FrmErr(r))
    BY <1>4 DEF SsnCmdSnd
  <2>2. /\ last_gen_func_id' = IF k \in HasCb THEN id ELSE last_gen_func_id
        /\ ctl_cb' = {e \in ctl_cb : e.func_id # id}
    BY <1>4 DEF SsnCmdSnd
  <2>3. k \notin HasCb => id = 0
    OBVIOUS
  <2> HIDE DEF id
  <2>4. rd_sts' = rd_sts /\ ctl_cb' \subseteq ctl_cb
    BY <2>1, <2>2 DEF FrmDatFrmSnd
  <2>5. \A e \in Live : e.func_id # 0 => Mapped(e)
    BY <1>1 DEF RouteInv, Routed, SentBy
  <2>6. CASE r = "ok"
    <3>1. last_frm_buf' = f /\ pc' = [pc EXCEPT ![c] = "sending"] /\ cmd' = [cmd EXCEPT ![c] = k]
      BY <2>1, <2>6 DEF FrmDatFrmSnd, Goto
    <3>2. Sending(c)' /\ cmd'[c] = k /\ \A d \in Callers : Sending(d)' => d = c
      BY <1>1, <3>1 DEF Sending, SsnTypeOK
    <3>3. ASSUME NEW e \in Live' PROVE e = f \/ (e \in ctl_cb /\ e.func_id # id)
      BY <2>2, <3>1, <3>3 DEF Live
    <3>4. f.cmd = k /\ f.func_id = id
      OBVIOUS
    <3> HIDE DEF f
    <3>5. ASSUME NEW e \in Live' PROVE Routed(e)'
      <4>1. CASE e = f
        BY <2>2, <2>3, <3>2, <3>4, <4>1 DEF Routed, SentBy
      <4>2. CASE e \in ctl_cb
        BY <1>1, <2>5, <4>2 DEF Routed, Mapped, Live
      <4> QED
        BY <3>3, <3>5, <4>1, <4>2
    <3>6. \A e \in ctl_cb' : e.func_id # 0 /\ (rd_sts' = "none" => Mapped(e)')
      BY <1>1, <2>4 DEF RouteInv, Mapped
    <3>7. ASSUME k \in HasCb, NEW e \in Live', e.func_id = last_gen_func_id'
          PROVE  e.cmd = k
      BY <2>2, <3>3, <3>4, <3>7
    <3> QED
      BY <1>2, <3>2, <3>5, <3>6, <3>7 DEF RouteInv
  <2>7. CASE r # "ok"
    <3>1. last_frm_buf' = last_frm_buf /\ pc' = [pc EXCEPT ![c] = "done"]
      BY <2>1, <2>7 DEF FrmDatFrmSnd, Return, Goto
    <3>2. \A d \in Callers : ~ Sending(d)'
      BY <1>1, <3>1 DEF Sending, SsnTypeOK
    <3>3. Live' \subseteq Live
      BY <2>4, <3>1 DEF Live
    <3>4. \A e \in Live' : Routed(e)'
      BY <1>1, <2>5, <3>3 DEF Routed, Mapped
    <3>5. \A e \in ctl_cb' : e.func_id # 0 /\ (rd_sts' = "none" => Mapped(e)')
      BY <1>1, <2>4 DEF RouteInv, Mapped
    <3> QED
      BY <1>2, <3>2, <3>4, <3>5 DEF RouteInv
  <2> QED
    BY <2>6, <2>7
<1> QED
  BY <1>3, <1>4

LEMMA RouteSent ==
  ASSUME TmrInv, RouteInv, NEW c \in Callers, SsnCmdSent(c)
  PROVE  RouteInv'
<1> USE SessionAssumption
<1>1. /\ SsnTypeOK /\ Sending(c) /\ \A d \in Callers : Sending(d) => d = c
      /\ pc' = [pc EXCEPT ![c] = "sts_wait"]
      /\ cb_map' = IF cmd[c] \in HasCb THEN [cb_map EXCEPT ![last_gen_func_id] = cmd[c]]
                   ELSE cb_map
      /\ UNCHANGED <<frm_vars, last_gen_func_id, cb_req_hd, cmd, ctl_cb>>
  BY DEF TmrInv, SendingAlone, Sending, SsnCmdSent, Goto
<1>2. \A d \in Callers : ~ Sending(d)'
  BY <1>1 DEF Sending, SsnTypeOK
<1>3. Live' = Live /\ Live \subseteq SsnFrames
  BY <1>1 DEF Live, frm_vars, SsnTypeOK
<1>4. ASSUME NEW e \in Live, e.func_id # 0
      PROVE  cb_map'[e.func_id] = e.cmd
  <2>1. e.func_id \in FuncIds /\ cb_map \in [FuncIds -> Cmds \cup {NoCmd}]
    BY <1>1, <1>3, <1>4 DEF SsnFrames, FuncIds, SsnTypeOK
  <2>2. Mapped(e) \/ SentBy(c, e)
    BY <1>1, <1>4 DEF RouteInv, Routed, SentBy
  <2>3. cmd[c] \in HasCb /\ e.func_id = last_gen_func_id => e.cmd = cmd[c]
    BY <1>1, <1>4 DEF RouteInv
  <2> QED
    BY <1>1, <2>1, <2>2, <2>3 DEF Mapped, SentBy
<1>5. \A e \in Live' : Routed(e)'
  BY <1>3, <1>4 DEF Routed, Mapped
<1>6. \A e \in ctl_cb' : e.func_id # 0 /\ (rd_sts' = "none" => Mapped(e)')
  BY <1>1, <1>4 DEF RouteInv, Mapped, Live
<1>7. CallbackRouted'
  BY <1>1 DEF RouteInv, CallbackRouted
<1> QED
  BY <1>2, <1>5, <1>6, <1>7 DEF RouteInv

\* The other steps of a caller.
LEMMA RouteCaller ==
  ASSUME TmrInv, RouteInv, NEW c \in Callers,
         WaitSts(c) \/ ReadSts(c) \/ WaitResp(c) \/ ReadRespSts(c) \/ TakeResp(c) \/ Leave(c)
  PROVE  RouteInv'
<1>1. /\ pc \in [Callers -> PCs] /\ ~ Sending(c)
      /\ UNCHANGED <<frm_vars, cb_map, last_gen_func_id, cb_req_hd, ctl_cb>>
      /\ \E l \in PCs \ {"sending"} : pc' = [pc EXCEPT ![c] = l]
      /\ \A d \in Callers \ {c} : cmd'[d] = cmd[d]
  BY DEF TmrInv, SsnTypeOK, Sending, WaitSts, ReadSts, WaitResp, ReadRespSts, TakeResp,
         Leave, Return, Goto, PCs
<1>2. \A d \in Callers : (Sending(d) <=> Sending(d)') /\ (Sending(d) => cmd'[d] = cmd[d])
  BY <1>1 DEF Sending
<1>3. CallbackRouted' /\ Live' = Live /\ rd_sts' = rd_sts
  BY <1>1 DEF RouteInv, CallbackRouted, Live, frm_vars
<1> QED
  BY <1>1, <1>2, <1>3, RouteKept

\* The state machine moves only while no caller holds sta_mach_mtx.
LEMMA RouteMachine ==
  ASSUME RouteInv,
         SsnRdReport \/ RespTmout \/ (\E s \in ThrdSts : SsnThrdReport(s))
           \/ \E k \in Cmds : RxRes(k)
  PROVE  RouteInv'
<1>1. /\ \A c \in Callers : ~ Sending(c)
      /\ UNCHANGED <<last_frm_buf, cb_map, last_gen_func_id, cb_req_hd, pc, cmd, ctl_cb>>
  BY DEF SsnRdReport, RdReport, SsnThrdReport, ThrdReport, SndFrmSts, WaitsVerdict, RespTmout, RxRes,
         SsnMtxFree, Sending
<1>2. CallbackRouted' /\ Live' = Live
  BY <1>1 DEF RouteInv, CallbackRouted, Live
<1>3. \A c \in Callers : ~ Sending(c)'
  BY <1>1 DEF Sending
<1> QED
  BY <1>1, <1>2, <1>3, RouteKept

\* A request is queued for the right function, and taken off the list.
LEMMA RouteCallbacks ==
  ASSUME TmrInv, RouteInv,
         (\E e \in SsnFrames : RxCallback(e)) \/ RxUnsolicited \/ CbThrd
  PROVE  RouteInv'
<1>1. /\ UNCHANGED <<frm_vars, cb_map, last_gen_func_id, pc, cmd, ctl_cb>>
      /\ cb_req_hd \in Seq(CbReqs)
  BY DEF TmrInv, SsnTypeOK, RxCallback, RxUnsolicited, CbThrd
<1>2. ASSUME NEW r \in CbReqs, r.fn = r.cmd, QueueCb(r) PROVE CallbackRouted'
  BY <1>1, <1>2 DEF QueueCb, RouteInv, CallbackRouted
<1>3. ASSUME NEW e \in SsnFrames, RxCallback(e) PROVE CallbackRouted'
  <2>1. e.func_id \in FuncIds /\ cb_map[e.func_id] = e.cmd /\ e.cmd \in Cmds
    BY <1>3, SessionAssumption DEF RxCallback, RouteInv, Mapped, SsnFrames, FuncIds
  <2>2. QueueCb([cmd |-> e.cmd, fn |-> e.cmd])
    BY <1>3, <2>1 DEF RxCallback
  <2> QED
    BY <1>2, <2>1, <2>2 DEF CbReqs
<1>4. RxUnsolicited => CallbackRouted'
  BY <1>2 DEF RxUnsolicited, CbReqs
<1>5. ASSUME CbThrd PROVE CallbackRouted'
  BY <1>1, <1>5 DEF CbThrd, RouteInv, CallbackRouted
<1>6. CallbackRouted' /\ Live' = Live
  BY <1>1, <1>3, <1>4, <1>5 DEF Live, frm_vars
<1> QED
  BY <1>1, <1>6, RouteKept DEF Sending, frm_vars

\* Only an ACK gives the controller something to call back: the frame that is
\* acknowledged, and while the read thread still has the verdict to report.
LEMMA RouteFrame ==
  ASSUME TmrInv, RouteInv, SsnRxAck \/ SsnFrmStep \/ UNCHANGED ssn_vars
  PROVE  RouteInv'
<1>1. UNCHANGED <<cb_map, last_gen_func_id, cb_req_hd, pc, cmd>>
  BY DEF SsnRxAck, SsnFrmStep, ssn_vars, ssn_only
<1>2. CallbackRouted' /\ \A c \in Callers : Sending(c)' = Sending(c)
  BY <1>1 DEF RouteInv, CallbackRouted, Sending
<1>3. CASE SsnRxAck
  <2>1. last_frm_buf' = NoFrame /\ rd_sts' = "OK"
    BY <1>3 DEF SsnRxAck, RxAck, FreeFrame
  <2>2. Outstanding => last_frm_buf \in SsnFrames
    BY SessionAssumption DEF TmrInv, SsnTypeOK, FrmTypeOK, Outstanding
  <2>3. ctl_cb' = ctl_cb \/ (/\ Outstanding /\ last_frm_buf.func_id # 0
                            /\ ctl_cb' = ctl_cb \cup {last_frm_buf})
    BY <1>3 DEF SsnRxAck
  <2>4. Live' \subseteq Live
    BY <2>1, <2>2, <2>3, FrameAssumption, SessionAssumption DEF Live
  <2>5. \A e \in ctl_cb' : e.func_id # 0
    BY <2>3 DEF RouteInv
  <2>6. \A e \in Live' : Routed(e)'
    BY <1>1, <2>4 DEF RouteInv, Routed, Mapped, SentBy, Sending
  <2>7. \A c \in Callers : Sending(c)' /\ cmd'[c] \in HasCb =>
          \A e \in Live' : e.func_id = last_gen_func_id' => e.cmd = cmd'[c]
    BY <1>1, <2>4 DEF RouteInv, Sending
  <2> QED
    BY <1>2, <2>1, <2>5, <2>6, <2>7 DEF RouteInv
<1>4. CASE SsnFrmStep \/ UNCHANGED ssn_vars
  <2>1. ctl_cb' = ctl_cb /\ (last_frm_buf' = last_frm_buf \/ last_frm_buf' = NoFrame)
    BY <1>4 DEF SsnFrmStep, ssn_vars, ssn_only, frm_vars, RxNak, RxCan, GiveUp, FreeFrame,
                SndTmout, ResndTmr, Tick, Expire
  <2>2. rd_sts' = "none" => rd_sts = "none"
    BY <1>4 DEF SsnFrmStep, ssn_vars, frm_vars, RxNak, RxCan, GiveUp, SndTmout, ResndTmr,
                Tick, Expire
  <2>3. Live' \subseteq Live
    BY <2>1, FrameAssumption, SessionAssumption DEF Live
  <2> QED
    BY <1>1, <1>2, <2>1, <2>2, <2>3, RouteKept
<1> QED
  BY <1>3, <1>4

LEMMA RouteNext == TmrInv /\ RouteInv /\ [SsnNext]_ssn_vars => RouteInv'
BY RouteSend, RouteSent, RouteCaller, RouteMachine, RouteCallbacks, RouteFrame
   DEF SsnNext, CallerStep

\* A callback is never given to the wrong function, nor to the unsolicited
\* callback for want of an entry: cb_map is written before the controller can
\* call back, because the read thread reports the ACK only after sta_mach_mtx
\* is free again.
THEOREM SsnCallbackRouted == SsnSpec => []CallbackRouted
<1>1. RouteInv => CallbackRouted
  BY DEF RouteInv
<1> QED
  BY <1>1, RouteInit, RouteNext, TmrInvariant, PTL DEF SsnSpec
=============================================================================
