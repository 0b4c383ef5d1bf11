------------------------------ MODULE HciAppl ------------------------------
(***************************************************************************)
(* The sending side of the application layer, lib/zw_hci_application.c.    *)
(* Every command but zw_send_data_abort is sent under snd_mtx, which its   *)
(* caller holds from appl_wait_to_snd to the end of ssn_cmd_snd.           *)
(* zw_send_data sets wait_cmd_cb, and the four functions that assign or    *)
(* delete a return route set wait_nm_cb, until the callback frame of the   *)
(* command arrives (zw_nm_cb, in the read thread) or a timer runs out      *)
(* (appl_cb_tmout_cb, appl_nm_sts_tmout_cb, in threads of their own); no   *)
(* command is sent meanwhile.  Both timers share the handle cb_tmr_ctx.    *)
(*                                                                         *)
(* ssn_cmd_snd is what the session layer promises: it ends with a response *)
(* or with an error, and a response can only come while the read thread    *)
(* is free.  Calls are numbered; a command is [id, kind].                  *)
(***************************************************************************)
EXTENDS Integers, Sequences

CONSTANTS
  Callers,   \* threads that send commands
  NoCmd,     \* no command
  TmrMayFail,  \* whether plt_tmr_start may fail
  MaxCalls,  \* bound: calls
  MaxThrds   \* bound: timer callback threads in flight

\* "cmd": zw_send_data; "nm": the return route functions; "plain": the others.
Kinds == {"cmd", "nm"}
Commands == [id : 1 .. MaxCalls, kind : Kinds \cup {"plain"}]
CalledBack == [id : 1 .. MaxCalls, kind : Kinds]

ASSUME ApplAssumption ==
  /\ NoCmd \notin Commands
  /\ TmrMayFail \in BOOLEAN
  /\ MaxCalls \in Nat /\ MaxThrds \in Nat

VARIABLES
  wait_cb,       \* wait_cmd_cb ("cmd") and wait_nm_cb ("nm")
  tmr_lst,       \* running timers: the callback, and whether cb_tmr_ctx names it
  cb_thrds,      \* cb_thrds[k]: expired timers whose callback has not locked yet
  send_data_cb,  \* the call whose completion function is saved
  pc,            \* where each caller is
  cmd,           \* the command of each caller
  n_calls,       \* calls so far
  pending,       \* environment: commands the controller has yet to call back
  rd,            \* the command whose callback the read thread is handling
  cb_q,          \* the session's callback requests
  accepted,      \* observation: calls that returned 0
  completed      \* observation: calls whose completion function has run

appl_vars == <<wait_cb, tmr_lst, cb_thrds, send_data_cb, pc, cmd, n_calls, pending, rd,
               cb_q, accepted, completed>>

PCs == {"idle", "cv_wait", "woken", "timed_out", "in_ssn", "ssn_ok", "ssn_end"}

ApplTypeOK ==
  /\ wait_cb \in [Kinds -> BOOLEAN]
  /\ tmr_lst \subseteq [cb : Kinds, named : BOOLEAN]
  /\ cb_thrds \in [Kinds -> Nat]
  /\ send_data_cb \in 0 .. MaxCalls
  /\ pc \in [Callers -> PCs]
  /\ cmd \in [Callers -> Commands \cup {NoCmd}]
  /\ n_calls \in 0 .. MaxCalls
  /\ pending \subseteq CalledBack
  /\ rd \in CalledBack \cup {NoCmd}
  /\ cb_q \in Seq(CalledBack)
  /\ accepted \subseteq 1 .. MaxCalls
  /\ completed \subseteq 1 .. MaxCalls

ApplInit ==
  /\ wait_cb = [k \in Kinds |-> FALSE]
  /\ tmr_lst = {}
  /\ cb_thrds = [k \in Kinds |-> 0]
  /\ send_data_cb = 0
  /\ pc = [c \in Callers |-> "idle"]
  /\ cmd = [c \in Callers |-> NoCmd]
  /\ n_calls = 0
  /\ pending = {}
  /\ rd = NoCmd
  /\ cb_q = <<>>
  /\ accepted = {}
  /\ completed = {}

---------------------------------------------------------------------------
(* snd_mtx, snd_cv and the timer.                                          *)

\* plt_cond_timedwait has released the mutex, or its caller wants it back.
SndMtxFree == \A c \in Callers : pc[c] \notin {"in_ssn", "ssn_ok", "ssn_end"}

MayWait == \E k \in Kinds : wait_cb[k]

\* plt_cond_signal: one of the callers that wait, if any.
Signal == LET waiting == {c \in Callers : pc[c] = "cv_wait"}
          IN IF waiting = {} THEN UNCHANGED pc
             ELSE \E c \in waiting : pc' = [pc EXCEPT ![c] = "woken"]

TmrKept == tmr_lst  \* mutated form
TmrStopped == {t \in tmr_lst : ~ t.named}

TmrStarted(k) == {[t EXCEPT !.named = FALSE] : t \in tmr_lst}
                 \cup {[cb |-> k, named |-> TRUE]}

\* The commands that set a flag when they are accepted.
Gated(k) == k \in Kinds

---------------------------------------------------------------------------
(* The functions that send a command.                                      *)

\* The mutex is held: the completion function is saved and ssn_cmd_snd called.
Enter(c, e) ==
  /\ pc' = [pc EXCEPT ![c] = "in_ssn"]
  /\ send_data_cb' = IF Gated(e.kind) THEN e.id ELSE send_data_cb

\* The call returns, with the mutex released.
Return(c) == pc' = [pc EXCEPT ![c] = "idle"] /\ cmd' = [cmd EXCEPT ![c] = NoCmd]

\* The call begins with appl_wait_to_snd.
ApplCall(c, k) ==
  /\ pc[c] = "idle" /\ SndMtxFree /\ n_calls < MaxCalls
  /\ n_calls' = n_calls + 1
  /\ LET e == [id |-> n_calls + 1, kind |-> k]
     IN /\ cmd' = [cmd EXCEPT ![c] = e]
        /\ IF MayWait THEN pc' = [pc EXCEPT ![c] = "cv_wait"] /\ UNCHANGED send_data_cb
           ELSE Enter(c, e)
  /\ UNCHANGED <<wait_cb, tmr_lst, cb_thrds, pending, rd, cb_q, accepted, completed>>

\* APPL_WAIT_SEND_TIMEOUT has passed.
WaitTimeout(c) ==
  /\ pc[c] = "cv_wait"
  /\ pc' = [pc EXCEPT ![c] = "timed_out"]
  /\ UNCHANGED <<wait_cb, tmr_lst, cb_thrds, send_data_cb, cmd, n_calls, pending, rd, cb_q,
                 accepted, completed>>

\* plt_cond_timedwait returns with the mutex: the flags are tested again, and
\* after a timeout the call ends with APPL_ERROR_WAIT_CB.
Recheck(c) ==
  /\ pc[c] \in {"woken", "timed_out"} /\ SndMtxFree
  /\ IF ~ MayWait THEN Enter(c, cmd[c]) /\ UNCHANGED cmd
     ELSE /\ IF pc[c] = "woken" THEN pc' = [pc EXCEPT ![c] = "cv_wait"] /\ UNCHANGED cmd
             ELSE Return(c)
          /\ UNCHANGED send_data_cb
  /\ UNCHANGED <<wait_cb, tmr_lst, cb_thrds, n_calls, pending, rd, cb_q, accepted, completed>>

\* ssn_cmd_snd returns 0 with the response, which accepts the command or not.
SsnResponse(c) ==
  /\ pc[c] = "in_ssn" /\ rd = NoCmd
  /\ \/ /\ Gated(cmd[c].kind)
        /\ pending' = pending \cup {cmd[c]}
        /\ pc' = [pc EXCEPT ![c] = "ssn_ok"]
     \/ pc' = [pc EXCEPT ![c] = "ssn_end"] /\ UNCHANGED pending
  /\ UNCHANGED <<wait_cb, tmr_lst, cb_thrds, send_data_cb, cmd, n_calls, rd, cb_q, accepted, completed>>

\* ssn_cmd_snd returns an error.  The controller may have taken the command.
SsnError(c) ==
  /\ pc[c] = "in_ssn"
  /\ pc' = [pc EXCEPT ![c] = "ssn_end"]
  /\ \/ Gated(cmd[c].kind) /\ pending' = pending \cup {cmd[c]}
     \/ UNCHANGED pending
  /\ UNCHANGED <<wait_cb, tmr_lst, cb_thrds, send_data_cb, cmd, n_calls, rd, cb_q, accepted, completed>>

\* The flag is set and the timer started, whose failure is ignored.
Accept(c) ==
  /\ pc[c] = "ssn_ok"
  /\ LET k == cmd[c].kind
     IN /\ wait_cb' = [wait_cb EXCEPT ![k] = TRUE]
        /\ \/ tmr_lst' = TmrStarted(k)
           \/ TmrMayFail /\ tmr_lst' = {[t EXCEPT !.named = FALSE] : t \in tmr_lst}
  /\ accepted' = accepted \cup {cmd[c].id}
  /\ Return(c)
  /\ UNCHANGED <<cb_thrds, send_data_cb, n_calls, pending, rd, cb_q, completed>>

\* The call sets no flag: it failed, or its command has no callback to wait for.
Fail(c) ==
  /\ pc[c] = "ssn_end"
  /\ Return(c)
  /\ UNCHANGED <<wait_cb, tmr_lst, cb_thrds, send_data_cb, n_calls, pending, rd, cb_q,
                 accepted, completed>>

---------------------------------------------------------------------------
(* Callback frames.                                                        *)

\* The read thread has a callback frame that cb_map knows, and calls nm_cb.
RxCallback(e) ==
  /\ rd = NoCmd
  /\ rd' = e
  /\ pending' = pending \ {e}
  /\ UNCHANGED <<wait_cb, tmr_lst, cb_thrds, send_data_cb, pc, cmd, n_calls, cb_q, accepted,
                 completed>>

\* The flag that a callback frame clears.
CmdFlagOnly(e) == "cmd"  \* mutated form
FlagOf(e) == e.kind

\* The callback thread gets the frame whether or not anybody waits for it.
QueueIfWaiting(e) == IF wait_cb[e.kind] THEN Append(cb_q, e) ELSE cb_q  \* mutated form
Queued(e) == Append(cb_q, e)

\* zw_nm_cb, after which ssn_rx_frm_cb queues the callback.
NmCb ==
  /\ rd # NoCmd /\ SndMtxFree
  /\ LET k == FlagOf(rd)
     IN IF wait_cb[k]
        THEN /\ wait_cb' = [wait_cb EXCEPT ![k] = FALSE]
             /\ tmr_lst' = TmrStopped
             /\ Signal
        ELSE UNCHANGED <<wait_cb, tmr_lst, pc>>
  /\ cb_q' = Queued(rd)
  /\ rd' = NoCmd
  /\ UNCHANGED <<cb_thrds, send_data_cb, cmd, n_calls, pending, accepted, completed>>

\* ssn_cb_thrd runs zw_send_data_cb or zw_generic_cb, and with it the
\* completion function.
CbThrd ==
  /\ cb_q # <<>>
  /\ cb_q' = Tail(cb_q)
  /\ completed' = completed \cup {Head(cb_q).id}
  /\ UNCHANGED <<wait_cb, tmr_lst, cb_thrds, send_data_cb, pc, cmd, n_calls, pending, rd,
                 accepted>>

---------------------------------------------------------------------------
(* The timers.                                                             *)

Expire(t) ==
  /\ cb_thrds["cmd"] + cb_thrds["nm"] < MaxThrds
  /\ tmr_lst' = tmr_lst \ {t}
  /\ cb_thrds' = [cb_thrds EXCEPT ![t.cb] = @ + 1]
  /\ UNCHANGED <<wait_cb, send_data_cb, pc, cmd, n_calls, pending, rd, cb_q, accepted,
                 completed>>

\* appl_cb_tmout_cb and appl_nm_sts_tmout_cb: one flag is cleared, the timer
\* that the common handle names is stopped, whichever it is, and the saved
\* completion function is told TRANSMIT_COMPLETE_NO_CB.
TmoutCb(k) ==
  /\ cb_thrds[k] > 0 /\ SndMtxFree
  /\ cb_thrds' = [cb_thrds EXCEPT ![k] = @ - 1]
  /\ wait_cb' = [wait_cb EXCEPT ![k] = FALSE]
  /\ tmr_lst' = TmrStopped
  /\ Signal
  /\ completed' = completed \cup {send_data_cb}
  /\ UNCHANGED <<send_data_cb, cmd, n_calls, pending, rd, cb_q, accepted>>

---------------------------------------------------------------------------

CallerStep(c) == \/ WaitTimeout(c) \/ Recheck(c) \/ SsnResponse(c) \/ SsnError(c)
                 \/ Accept(c) \/ Fail(c)

ApplNext ==
  \/ \E c \in Callers : CallerStep(c) \/ \E k \in Kinds \cup {"plain"} : ApplCall(c, k)
  \/ \E e \in pending : RxCallback(e)
  \/ NmCb \/ CbThrd
  \/ \E t \in tmr_lst : Expire(t)
  \/ \E k \in Kinds : TmoutCb(k)

ApplSpec == ApplInit /\ [][ApplNext]_appl_vars

\* Threads that can run do run; ssn_cmd_snd ends (CommandService).
ApplFairness ==
  /\ \A c \in Callers : WF_appl_vars(CallerStep(c))
  /\ WF_appl_vars(NmCb)
  /\ WF_appl_vars(CbThrd)
  /\ WF_appl_vars(\E t \in tmr_lst : Expire(t))
  /\ \A k \in Kinds : WF_appl_vars(TmoutCb(k))

ApplFairSpec == ApplSpec /\ ApplFairness

\* A controller that calls back every command it has accepted.
ReliableSpec ==
  ApplFairSpec /\ \A e \in CalledBack :
                    WF_appl_vars(e \in pending /\ RxCallback(e))

---------------------------------------------------------------------------
(* Properties.                                                             *)

\* The timer that cb_tmr_ctx shares between two kinds of commands is never
\* orphaned, and never outlives the wait it belongs to: only one flag is set
\* at a time, and a timer that runs is that flag's.
TimerOfTheWait ==
  /\ ~ (wait_cb["cmd"] /\ wait_cb["nm"])
  /\ \A t \in tmr_lst : t.named /\ wait_cb[t.cb]

\* The read thread, which delivers every byte, never stays blocked on snd_mtx
\* in zw_nm_cb, although the caller that holds the mutex may be waiting for a
\* response that only the read thread can deliver.
ReadThreadServes == rd # NoCmd ~> rd = NoCmd

\* No command leaves the application layer refusing all others for ever: the
\* timer is there to "release the waiting for callback flag".
WaitEnds == MayWait ~> ~ MayWait

\* A call that returned 0 has its completion function run.
AcceptedCompletes == \A i \in 1 .. MaxCalls : i \in accepted ~> i \in completed
===========================================================================
