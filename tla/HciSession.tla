---------------------------- MODULE HciSession ----------------------------
(***************************************************************************)
(* The session layer, lib/zw_hci_session.c, on top of the frame layer:     *)
(* ssn_cmd_snd sends a command, waits on one semaphore for the verdict on  *)
(* its frame and on a second one for its response; the state machine       *)
(* IDLE, COMMAND_SENT, WAIT_RESPONSE runs under the session's sta_mach_mtx *)
(* in the read thread and in the timer callback threads and posts the two  *)
(* semaphores; frames of type REQ go through cb_map to the callback        *)
(* thread.                                                                 *)
(*                                                                         *)
(* The callers are application threads.  Those outside Unserialised hold   *)
(* the application's snd_mtx for the whole call; zw_send_data_abort does   *)
(* not take it.  What ssn_cmd_snd reads after it has left its critical     *)
(* section (snd_frm_sts, cmd_resp_sts) it reads without a lock, in steps   *)
(* of their own.                                                           *)
(***************************************************************************)
EXTENDS HciFrame, Sequences

CONSTANTS
  Callers,             \* threads that call ssn_cmd_snd
  Unserialised,        \* those that do not hold snd_mtx (zw_send_data_abort)
  Cmds,                \* commands
  NoCmd,               \* no command
  AbortCmd,            \* FUNC_ID_ZW_SEND_DATA_ABORT
  HasResp,             \* commands with COMMAND_HAS_RESPONSE
  HasCb,               \* commands with COMMAND_HAS_CALLBACK
  SESSION_FUNCID_MAX,  \* the last function identifier before it wraps to 1
  MaxCbReqs            \* bound: requests in the list of the callback thread

\* A frame carries the command and the function identifier appended to it.
SsnFrames == [cmd : Cmds, func_id : 0 .. SESSION_FUNCID_MAX]

ASSUME SessionAssumption ==
  /\ Unserialised \subseteq Callers
  /\ NoCmd \notin Cmds
  /\ HasResp \subseteq Cmds /\ HasCb \subseteq Cmds
  /\ AbortCmd \in Cmds \ (HasResp \cup HasCb)
  /\ SESSION_FUNCID_MAX \in Nat \ {0}
  /\ MaxCbReqs \in Nat
  /\ Frames = SsnFrames

VARIABLES
  ssn_sta,           \* state of the session layer
  last_cmd,          \* last_cmd_id with last_cmd_flag
  snd_frm_sts,       \* verdict on the frame
  snd_frm_sts_sem,   \* count of the semaphore that announces it
  cmd_resp_sts,      \* status of the response
  cmd_resp_sts_sem,  \* count of the semaphore that announces it
  cmd_resp,          \* the response: its command, NoCmd when NULL
  last_gen_func_id,  \* last function identifier generated
  cb_map,            \* function identifier to the command that registered it
  cb_req_hd,         \* list of requests for the callback thread
  pc,                \* where each caller is in ssn_cmd_snd
  cmd,               \* the command of each caller inside
  ret,               \* what its call returned
  heard,             \* observation: response frames while a command is in progress
  ctl_cb             \* environment: callbacks the controller may still send

ssn_only == <<ssn_sta, last_cmd, snd_frm_sts, snd_frm_sts_sem, cmd_resp_sts,
              cmd_resp_sts_sem, cmd_resp, last_gen_func_id, cb_map, cb_req_hd,
              pc, cmd, ret, heard, ctl_cb>>
ssn_vars == <<frm_vars, ssn_only>>

FuncIds == 1 .. SESSION_FUNCID_MAX
PCs == {"idle", "sending", "sts_wait", "sts_got", "sts_bad",
        "resp_wait", "resp_got", "resp_bad", "resp_lock", "done"}
Verdicts == {"OK", "TIMEOUT", "FAIL_CHKSUM", "FAIL_DROPPED"}
RespSts == {"OK", "TIMEOUT", "MEM"}
Outcomes == {"none", "SENT", "RESPONSE", "NULL_DEREF", "OK_NO_RESPONSE",
             "ERR_UNCOMPLETED", "ERR_MULTIPLE_WRITE", "ERR_WRITE", "ERR_SND_TIMER",
             "ERR_SND_FRM_TMOUT", "ERR_SEND_CHKSUM", "ERR_SEND_BUSY", "ERR_SYNC",
             "ERR_RESP_TMOUT", "ERR_MEMORY", "ERR_INVALID_RESP"}
\* A request for the callback thread: the frame's command, and the command
\* whose callback it is given to (NoCmd: the unsolicited command callback).
CbReqs == [cmd : Cmds \cup {NoCmd}, fn : Cmds \cup {NoCmd}]

SsnTypeOK ==
  /\ FrmTypeOK
  /\ ssn_sta \in {"IDLE", "COMMAND_SENT", "WAIT_RESPONSE"}
  /\ last_cmd \in Cmds \cup {NoCmd}
  /\ snd_frm_sts \in Verdicts \cup {"UNKNOWN"}
  /\ snd_frm_sts_sem \in Nat
  /\ cmd_resp_sts \in RespSts \cup {"UNKNOWN"}
  /\ cmd_resp_sts_sem \in Nat
  /\ cmd_resp \in Cmds \cup {NoCmd}
  /\ last_gen_func_id \in 0 .. SESSION_FUNCID_MAX
  /\ cb_map \in [FuncIds -> Cmds \cup {NoCmd}]
  /\ cb_req_hd \in Seq(CbReqs)
  /\ pc \in [Callers -> PCs]
  /\ cmd \in [Callers -> Cmds \cup {NoCmd}]
  /\ ret \in [Callers -> Outcomes]
  /\ heard \subseteq Cmds
  /\ ctl_cb \subseteq SsnFrames

SsnInit ==
  /\ FrmInit
  /\ ssn_sta = "IDLE"
  /\ last_cmd = NoCmd
  /\ snd_frm_sts = "UNKNOWN"
  /\ snd_frm_sts_sem = 0
  /\ cmd_resp_sts = "UNKNOWN"
  /\ cmd_resp_sts_sem = 0
  /\ cmd_resp = NoCmd
  /\ last_gen_func_id = 0
  /\ cb_map = [i \in FuncIds |-> NoCmd]
  /\ cb_req_hd = <<>>
  /\ pc = [c \in Callers |-> "idle"]
  /\ cmd = [c \in Callers |-> NoCmd]
  /\ ret = [c \in Callers |-> "none"]
  /\ heard = {}
  /\ ctl_cb = {}

---------------------------------------------------------------------------
(* Who may act.                                                            *)

\* A caller holds sta_mach_mtx between queueing the frame and EVENT_COMMAND_SENT.
NoMtx == TRUE  \* mutated form
SsnMtxFree == \A c \in Callers : pc[c] # "sending"

\* The serialised callers exclude each other with snd_mtx.
NoSndMtx(c) == pc[c] = "idle"  \* mutated form
SndMtxFree(c) == c \in Unserialised \/ \A d \in Callers \ Unserialised : pc[d] = "idle"

CmdsOf(c) == IF c \in Unserialised THEN {AbortCmd} ELSE Cmds \ {AbortCmd}

Goto(c, l) == pc' = [pc EXCEPT ![c] = l]

\* ssn_cmd_snd of c returns r; a serialised caller still holds snd_mtx.
Return(c, r) == /\ Goto(c, "done")
                /\ cmd' = [cmd EXCEPT ![c] = NoCmd]
                /\ ret' = [ret EXCEPT ![c] = r]
                /\ heard' = {}

---------------------------------------------------------------------------
(* ssn_cmd_snd.                                                            *)

\* ssn_func_id_gen: 1, 2, ..., SESSION_FUNCID_MAX, 1, ...
FuncIdGen == IF last_gen_func_id < SESSION_FUNCID_MAX THEN last_gen_func_id + 1 ELSE 1

FrmErr(r) == CASE r = "multiple_write" -> "ERR_MULTIPLE_WRITE"
               [] r = "no_write" -> "ERR_WRITE"
               [] r = "no_timer" -> "ERR_SND_TIMER"

\* The critical section up to the return of frm_dat_frm_snd: refused while the
\* previous command has not completed.  A function identifier is used up even
\* when the frame layer refuses; the controller is assumed to be done with an
\* identifier when it comes round again.
SsnCmdSnd(c, k) ==
  /\ pc[c] = "idle" /\ SndMtxFree(c) /\ SsnMtxFree
  /\ IF ssn_sta # "IDLE"
     THEN /\ Return(c, "ERR_UNCOMPLETED")
          /\ UNCHANGED <<frm_vars, last_gen_func_id, ctl_cb, snd_frm_sts>>
     ELSE LET id == IF k \in HasCb THEN FuncIdGen ELSE 0
          IN /\ last_gen_func_id' = IF k \in HasCb THEN id ELSE last_gen_func_id
             /\ ctl_cb' = {e \in ctl_cb : e.func_id # id}
             /\ snd_frm_sts' = "UNKNOWN"
             /\ \E r \in FrmRets :
                  /\ FrmDatFrmSnd([cmd |-> k, func_id |-> id], r)
                  /\ IF r = "ok"
                     THEN Goto(c, "sending") /\ cmd' = [cmd EXCEPT ![c] = k]
                          /\ heard' = {} /\ UNCHANGED ret
                     ELSE Return(c, FrmErr(r))
  /\ UNCHANGED <<ssn_sta, last_cmd, snd_frm_sts_sem, cmd_resp_sts, cmd_resp_sts_sem,
                 cmd_resp, cb_map, cb_req_hd>>

\* EVENT_COMMAND_SENT, and the critical section ends.
SsnCmdSent(c) ==
  /\ pc[c] = "sending"
  /\ Goto(c, "sts_wait")
  /\ LET k == cmd[c]
     IN /\ last_cmd' = k
        /\ cb_map' = IF k \in HasCb THEN [cb_map EXCEPT ![last_gen_func_id] = k] ELSE cb_map
        /\ cmd_resp_sts' = IF k \in HasResp THEN "UNKNOWN" ELSE cmd_resp_sts
        /\ cmd_resp' = IF k \in HasResp THEN NoCmd ELSE cmd_resp
  /\ ssn_sta' = "COMMAND_SENT"
  /\ UNCHANGED <<frm_vars, snd_frm_sts, snd_frm_sts_sem, cmd_resp_sts_sem,
                 last_gen_func_id, cb_req_hd, cmd, ret, heard, ctl_cb>>

\* plt_sem_wait on either semaphore.
WaitSts(c) ==
  /\ pc[c] = "sts_wait" /\ snd_frm_sts_sem > 0
  /\ snd_frm_sts_sem' = snd_frm_sts_sem - 1
  /\ Goto(c, "sts_got")
  /\ UNCHANGED <<frm_vars, ssn_sta, last_cmd, snd_frm_sts, cmd_resp_sts, cmd_resp_sts_sem,
                 cmd_resp, last_gen_func_id, cb_map, cb_req_hd, cmd, ret, heard, ctl_cb>>

WaitResp(c) ==
  /\ pc[c] = "resp_wait" /\ cmd_resp_sts_sem > 0
  /\ cmd_resp_sts_sem' = cmd_resp_sts_sem - 1
  /\ Goto(c, "resp_got")
  /\ UNCHANGED <<frm_vars, ssn_sta, last_cmd, snd_frm_sts, snd_frm_sts_sem, cmd_resp_sts,
                 cmd_resp, last_gen_func_id, cb_map, cb_req_hd, cmd, ret, heard, ctl_cb>>

\* What the switch on snd_frm_sts returns.  A value that has become
\* FRAME_SEND_OK since the test leaves the return value 0.
SndErr == [UNKNOWN |-> "ERR_SYNC", TIMEOUT |-> "ERR_SND_FRM_TMOUT",
           FAIL_CHKSUM |-> "ERR_SEND_CHKSUM", FAIL_DROPPED |-> "ERR_SEND_BUSY",
           OK |-> "OK_NO_RESPONSE"]

\* The unlocked reads of snd_frm_sts: the test, then the switch.
ReadSts(c) ==
  /\ \/ /\ pc[c] = "sts_got" /\ snd_frm_sts = "OK" /\ cmd[c] \in HasResp
        /\ Goto(c, "resp_wait") /\ UNCHANGED <<cmd, ret, heard>>
     \/ /\ pc[c] = "sts_got" /\ snd_frm_sts = "OK" /\ cmd[c] \notin HasResp
        /\ Return(c, "SENT")
     \/ /\ pc[c] = "sts_got" /\ snd_frm_sts # "OK"
        /\ Goto(c, "sts_bad") /\ UNCHANGED <<cmd, ret, heard>>
     \/ /\ pc[c] = "sts_bad"
        /\ Return(c, SndErr[snd_frm_sts])
  /\ UNCHANGED <<frm_vars, ssn_sta, last_cmd, snd_frm_sts, snd_frm_sts_sem, cmd_resp_sts,
                 cmd_resp_sts_sem, cmd_resp, last_gen_func_id, cb_map, cb_req_hd, ctl_cb>>

\* What the switch on cmd_resp_sts returns.
RespErr == [UNKNOWN |-> "ERR_SYNC", TIMEOUT |-> "ERR_RESP_TMOUT", MEM |-> "ERR_MEMORY",
            OK |-> "OK_NO_RESPONSE"]

\* The unlocked reads of cmd_resp_sts: the test, then the switch.
ReadRespSts(c) ==
  /\ \/ /\ pc[c] = "resp_got" /\ cmd_resp_sts = "OK"
        /\ Goto(c, "resp_lock") /\ UNCHANGED <<cmd, ret, heard>>
     \/ /\ pc[c] = "resp_got" /\ cmd_resp_sts # "OK"
        /\ Goto(c, "resp_bad") /\ UNCHANGED <<cmd, ret, heard>>
     \/ /\ pc[c] = "resp_bad"
        /\ Return(c, RespErr[cmd_resp_sts])
  /\ UNCHANGED <<frm_vars, ssn_sta, last_cmd, snd_frm_sts, snd_frm_sts_sem, cmd_resp_sts,
                 cmd_resp_sts_sem, cmd_resp, last_gen_func_id, cb_map, cb_req_hd, ctl_cb>>

\* The response is compared with the command under the lock.
AnyResp(c) == IF cmd_resp = NoCmd THEN "NULL_DEREF" ELSE "RESPONSE"  \* mutated form
RespOf(c) == CASE cmd_resp = NoCmd -> "NULL_DEREF"
               [] cmd_resp = cmd[c] -> "RESPONSE"
               [] OTHER -> "ERR_INVALID_RESP"

TakeResp(c) ==
  /\ pc[c] = "resp_lock" /\ SsnMtxFree
  /\ Return(c, RespOf(c))
  /\ UNCHANGED <<frm_vars, ssn_sta, last_cmd, snd_frm_sts, snd_frm_sts_sem, cmd_resp_sts,
                 cmd_resp_sts_sem, cmd_resp, last_gen_func_id, cb_map, cb_req_hd, ctl_cb>>

\* The caller unlocks snd_mtx and goes on.
Leave(c) ==
  /\ pc[c] = "done"
  /\ Goto(c, "idle")
  /\ ret' = [ret EXCEPT ![c] = "none"]
  /\ UNCHANGED <<frm_vars, ssn_sta, last_cmd, snd_frm_sts, snd_frm_sts_sem, cmd_resp_sts,
                 cmd_resp_sts_sem, cmd_resp, last_gen_func_id, cb_map, cb_req_hd, cmd,
                 heard, ctl_cb>>

---------------------------------------------------------------------------
(* The state machine, run by the read thread and by callback threads.      *)

\* Only COMMAND_SENT takes EVENT_RECEIVED_SEND_FRAME_STATUS.
WaitsVerdict == ssn_sta = "COMMAND_SENT"

\* Only WAIT_RESPONSE takes EVENT_RECEIVED_RESPONSE and EVENT_RESPONSE_TIMEOUT.
WaitsResp == ssn_sta = "WAIT_RESPONSE"

RespTmrStopped == TmrStop(tmr_lst, "resp")

\* EVENT_RECEIVED_SEND_FRAME_STATUS.  The result of starting the response
\* timer is not looked at.
SndFrmSts(sts) ==
  /\ SsnMtxFree
  /\ IF ~ WaitsVerdict
     THEN UNCHANGED <<ssn_sta, snd_frm_sts, snd_frm_sts_sem, tmr_lst>>
     ELSE /\ snd_frm_sts' = sts
          /\ snd_frm_sts_sem' = snd_frm_sts_sem + 1
          /\ IF sts = "OK" /\ last_cmd \in HasResp
             THEN /\ ssn_sta' = "WAIT_RESPONSE"
                  /\ \E started \in {TRUE} \cup {"ssn_tmr" \notin MayFail} :
                       tmr_lst' = IF started THEN TmrStart(tmr_lst, "resp", RESP_TMOUT)
                                  ELSE TmrForget(tmr_lst, "resp")
             ELSE ssn_sta' = "IDLE" /\ UNCHANGED tmr_lst
  /\ UNCHANGED <<last_cmd, cmd_resp_sts, cmd_resp_sts_sem, cmd_resp, last_gen_func_id,
                 cb_map, cb_req_hd, pc, cmd, ret, heard, ctl_cb>>

SsnRdReport == \E s \in RdSts : RdReport(s) /\ SndFrmSts(s)
SsnThrdReport(s) == ThrdReport(s) /\ SndFrmSts(s)

\* ssn_rx_frm_cb on a frame of type RES with the identifier of k, which is not
\* compared with the command that waits.
RxRes(k) ==
  /\ rd_sts = "none" /\ SsnMtxFree
  /\ heard' = IF \A c \in Callers : cmd[c] = NoCmd THEN heard ELSE heard \cup {k}
  /\ IF ~ WaitsResp
     THEN UNCHANGED <<tmr_lst, ssn_sta, cmd_resp, cmd_resp_sts, cmd_resp_sts_sem>>
     ELSE /\ tmr_lst' = RespTmrStopped
          /\ ssn_sta' = "IDLE"
          /\ cmd_resp_sts_sem' = cmd_resp_sts_sem + 1
          /\ \E mem \in {TRUE} \cup {"resp_mem" \notin MayFail} :
               /\ cmd_resp' = IF mem THEN k ELSE NoCmd
               /\ cmd_resp_sts' = IF mem THEN "OK" ELSE "MEM"
  /\ UNCHANGED <<last_frm_buf, resend_cnt, tx_cnt, cb_thrds, thrd_sts, rd_sts, last_cmd,
                 snd_frm_sts, snd_frm_sts_sem, last_gen_func_id, cb_map, cb_req_hd, pc,
                 cmd, ret, ctl_cb>>

\* ssn_resp_tmout_cb: EVENT_RESPONSE_TIMEOUT for whatever command waits now.
RespTmout ==
  /\ cb_thrds["resp"] > 0 /\ SsnMtxFree
  /\ cb_thrds' = [cb_thrds EXCEPT !["resp"] = @ - 1]
  /\ tmr_lst' = RespTmrStopped
  /\ IF ~ WaitsResp
     THEN UNCHANGED <<ssn_sta, cmd_resp_sts, cmd_resp_sts_sem>>
     ELSE /\ ssn_sta' = "IDLE"
          /\ cmd_resp_sts' = "TIMEOUT"
          /\ cmd_resp_sts_sem' = cmd_resp_sts_sem + 1
  /\ UNCHANGED <<last_frm_buf, resend_cnt, tx_cnt, thrd_sts, rd_sts, last_cmd, snd_frm_sts,
                 snd_frm_sts_sem, cmd_resp, last_gen_func_id, cb_map, cb_req_hd, pc, cmd,
                 ret, heard, ctl_cb>>

---------------------------------------------------------------------------
(* Callbacks: ssn_rx_frm_cb on a frame of type REQ, and ssn_cb_thrd.       *)

QueueCb(r) ==
  /\ Len(cb_req_hd) < MaxCbReqs
  /\ cb_req_hd' = Append(cb_req_hd, r)

\* The controller sends a callback of an accepted command.  cb_map is read
\* without the session's lock.
RxCallback(e) ==
  /\ rd_sts = "none"
  /\ e \in ctl_cb
  /\ QueueCb([cmd |-> e.cmd,
              fn |-> IF e.func_id \in FuncIds /\ cb_map[e.func_id] = e.cmd
                     THEN e.cmd ELSE NoCmd])
  /\ UNCHANGED <<frm_vars, ssn_sta, last_cmd, snd_frm_sts, snd_frm_sts_sem, cmd_resp_sts,
                 cmd_resp_sts_sem, cmd_resp, last_gen_func_id, cb_map, pc, cmd, ret,
                 heard, ctl_cb>>

\* A request of the controller that belongs to no command.
RxUnsolicited ==
  /\ rd_sts = "none"
  /\ QueueCb([cmd |-> NoCmd, fn |-> NoCmd])
  /\ UNCHANGED <<frm_vars, ssn_sta, last_cmd, snd_frm_sts, snd_frm_sts_sem, cmd_resp_sts,
                 cmd_resp_sts_sem, cmd_resp, last_gen_func_id, cb_map, pc, cmd, ret,
                 heard, ctl_cb>>

\* ssn_cb_thrd takes the first request and runs its callback.
CbThrd ==
  /\ cb_req_hd # <<>>
  /\ cb_req_hd' = Tail(cb_req_hd)
  /\ UNCHANGED <<frm_vars, ssn_sta, last_cmd, snd_frm_sts, snd_frm_sts_sem, cmd_resp_sts,
                 cmd_resp_sts_sem, cmd_resp, last_gen_func_id, cb_map, pc, cmd, ret,
                 heard, ctl_cb>>

---------------------------------------------------------------------------
(* The frame layer's own steps, under the session.                         *)

\* A controller that acknowledges a frame may call back its command.
SsnRxAck ==
  /\ RxAck
  /\ ctl_cb' = IF Outstanding /\ last_frm_buf.func_id # 0
               THEN ctl_cb \cup {last_frm_buf} ELSE ctl_cb
  /\ UNCHANGED <<ssn_sta, last_cmd, snd_frm_sts, snd_frm_sts_sem, cmd_resp_sts,
                 cmd_resp_sts_sem, cmd_resp, last_gen_func_id, cb_map, cb_req_hd, pc, cmd,
                 ret, heard>>

SsnFrmStep == (RxNak \/ RxCan \/ SndTmout \/ ResndTmr \/ Tick \/ Expire)
              /\ UNCHANGED ssn_only

CallerStep(c) == \/ SsnCmdSent(c) \/ WaitSts(c) \/ ReadSts(c)
                 \/ WaitResp(c) \/ ReadRespSts(c) \/ TakeResp(c) \/ Leave(c)

SsnNext ==
  \/ \E c \in Callers : CallerStep(c) \/ \E k \in CmdsOf(c) : SsnCmdSnd(c, k)
  \/ SsnRdReport \/ RespTmout
  \/ \E s \in ThrdSts : SsnThrdReport(s)
  \/ \E k \in Cmds \ {AbortCmd} : RxRes(k)
  \/ \E e \in SsnFrames : RxCallback(e)
  \/ RxUnsolicited \/ CbThrd
  \/ SsnRxAck \/ SsnFrmStep

SsnSpec == SsnInit /\ [][SsnNext]_ssn_vars

\* Threads that can run do run: the timer threads, the callback threads, the
\* read thread once it has begun a byte, and a caller inside ssn_cmd_snd.
SsnFairness ==
  /\ WF_ssn_vars(Tick /\ UNCHANGED ssn_only)
  /\ WF_ssn_vars(Expire /\ UNCHANGED ssn_only)
  /\ WF_ssn_vars(SndTmout /\ UNCHANGED ssn_only)
  /\ WF_ssn_vars(ResndTmr /\ UNCHANGED ssn_only)
  /\ WF_ssn_vars(RespTmout)
  /\ WF_ssn_vars(SsnRdReport)
  /\ \A s \in ThrdSts : WF_ssn_vars(SsnThrdReport(s))
  /\ \A c \in Callers : WF_ssn_vars(CallerStep(c))

SsnFairSpec == SsnSpec /\ SsnFairness

---------------------------------------------------------------------------
(* Properties.                                                             *)

\* A command that waits for the verdict on its frame will get one: its frame
\* is still in the frame layer's hands, or some thread is about to report.
VerdictComes ==
  ssn_sta = "COMMAND_SENT" =>
    Outstanding \/ rd_sts # "none" \/ \E s \in ThrdSts : thrd_sts[s] > 0

\* The two semaphores and the state machine agree: when no caller is inside
\* ssn_cmd_snd, nothing is posted that the next command would take for its own.
NoLeftOver ==
  (\A c \in Callers : pc[c] \in {"idle", "done"}) =>
    snd_frm_sts_sem = 0 /\ cmd_resp_sts_sem = 0 /\ ssn_sta = "IDLE"

\* "Shouldn't happen, it means the state-machine is out of sync!": no command
\* finds its status still unknown, and none finds its response gone.
NeverOutOfSync ==
  \A c \in Callers : ret[c] \notin {"ERR_SYNC", "NULL_DEREF", "OK_NO_RESPONSE"}

\* A callback of the controller reaches the callback function of the command
\* that asked for it, although cb_map is written after the frame is sent and
\* read without the lock.
CallbackRouted ==
  \A i \in 1 .. Len(cb_req_hd) : cb_req_hd[i].fn = cb_req_hd[i].cmd

\* The abstract command service.
Svc == INSTANCE CommandService WITH
  active <- cmd

\* ssn_cmd_snd implements the command service, its liveness included.
ImplementsService == Svc!SvcSpec
===========================================================================
