--------------------------- MODULE HciApplProofs ---------------------------
(***************************************************************************)
(* Proofs about the application layer.  The inductive invariant adds to    *)
(* the type invariant and to TimerOfTheWait what snd_mtx gives: one caller *)
(* is inside ssn_cmd_snd, no flag is set while it is there (so it may set  *)
(* one and start the timer without stopping another), and the completion   *)
(* function saved is its own.                                              *)
(***************************************************************************)
EXTENDS HciAppl, TLAPS

Holding(c) == pc[c] \in {"in_ssn", "ssn_ok", "ssn_end"}

HolderInv ==
  \A c \in Callers : Holding(c) =>
    /\ ~ MayWait
    /\ Gated(cmd[c].kind) => send_data_cb = cmd[c].id
    /\ \A d \in Callers : Holding(d) => d = c

CmdInv ==
  \A c \in Callers : /\ pc[c] # "idle" => cmd[c] \in Commands
                     /\ pc[c] = "ssn_ok" => cmd[c].kind \in Kinds

\* A timer that runs, or has run out, belongs to a call.
OwnerInv == tmr_lst # {} \/ (\E k \in Kinds : cb_thrds[k] > 0) => send_data_cb # 0

ApplInv == ApplTypeOK /\ TimerOfTheWait /\ HolderInv /\ CmdInv /\ OwnerInv

LEMMA ApplInitInv == ApplInit => ApplInv
BY ApplAssumption DEF ApplInit, ApplInv, ApplTypeOK, TimerOfTheWait, HolderInv, Holding, CmdInv,
   OwnerInv, MayWait, Kinds, PCs

\* A signal wakes a caller that does not hold the mutex.
LEMMA SignalMoves ==
  ASSUME pc \in [Callers -> PCs], CmdInv, UNCHANGED cmd, Signal
  PROVE  /\ pc' \in [Callers -> PCs]
         /\ \A c \in Callers : Holding(c)' <=> Holding(c)
         /\ CmdInv'
<1>1. CASE UNCHANGED pc
  BY <1>1 DEF Holding, CmdInv
<1>2. ASSUME NEW c \in Callers, pc[c] = "cv_wait", pc' = [pc EXCEPT ![c] = "woken"]
      PROVE  /\ pc' \in [Callers -> PCs]
             /\ \A d \in Callers : Holding(d)' <=> Holding(d)
             /\ CmdInv'
  BY <1>2 DEF Holding, CmdInv, PCs
<1> QED
  BY <1>1, <1>2 DEF Signal

LEMMA EnterInv ==
  ASSUME ApplInv, SndMtxFree, ~ MayWait, NEW c \in Callers, NEW e \in Commands,
         Enter(c, e), cmd' = [cmd EXCEPT ![c] = e], n_calls' \in 0 .. MaxCalls,
         UNCHANGED <<wait_cb, tmr_lst, cb_thrds, pending, rd, cb_q, accepted, completed>>
  PROVE  ApplInv'
<1> USE ApplAssumption
<1>1. /\ pc' = [pc EXCEPT ![c] = "in_ssn"]
      /\ send_data_cb' = IF Gated(e.kind) THEN e.id ELSE send_data_cb
      /\ e.id \in 1 .. MaxCalls
  BY DEF Enter, Commands
<1>2. ApplTypeOK'
  BY <1>1 DEF ApplInv, ApplTypeOK, PCs
<1>3. TimerOfTheWait' /\ OwnerInv'
  BY <1>1 DEF ApplInv, TimerOfTheWait, OwnerInv
<1>4. \A d \in Callers : Holding(d)' => d = c
  BY <1>1 DEF ApplInv, ApplTypeOK, Holding, SndMtxFree
<1>5. HolderInv'
  BY <1>1, <1>4 DEF ApplInv, ApplTypeOK, HolderInv, MayWait
<1>6. CmdInv'
  BY <1>1 DEF ApplInv, ApplTypeOK, CmdInv
<1> QED
  BY <1>2, <1>3, <1>5, <1>6 DEF ApplInv

LEMMA ApplCallInv ==
  ASSUME ApplInv, NEW c \in Callers, NEW k \in Kinds \cup {"plain"}, ApplCall(c, k)
  PROVE  ApplInv'
<1> USE ApplAssumption
<1> DEFINE e == [id |-> n_calls + 1, kind |-> k]
<1>1. e \in Commands /\ n_calls' \in 0 .. MaxCalls
  BY DEF ApplInv, ApplTypeOK, ApplCall, Commands
<1>2. /\ cmd' = [cmd EXCEPT ![c] = e]
      /\ UNCHANGED <<wait_cb, tmr_lst, cb_thrds, pending, rd, cb_q, accepted, completed>>
  BY DEF ApplCall
<1> HIDE DEF e
<1>3. CASE ~ MayWait
  <2>1. Enter(c, e) /\ SndMtxFree
    BY <1>3 DEF ApplCall, e
  <2> QED
    BY <1>1, <1>2, <1>3, <2>1, EnterInv
<1>4. CASE MayWait
  <2>1. pc[c] = "idle" /\ pc' = [pc EXCEPT ![c] = "cv_wait"] /\ UNCHANGED send_data_cb
    BY <1>4 DEF ApplCall
  <2>2. ApplTypeOK'
    BY <1>1, <1>2, <2>1 DEF ApplInv, ApplTypeOK, PCs
  <2>3. TimerOfTheWait' /\ OwnerInv'
    BY <1>2, <2>1 DEF ApplInv, TimerOfTheWait, OwnerInv
  <2>4. \A d \in Callers : ~ Holding(d)
    BY <1>4 DEF ApplInv, HolderInv
  <2>5. HolderInv'
    BY <2>1, <2>4 DEF ApplInv, ApplTypeOK, HolderInv, Holding
  <2>6. CmdInv'
    BY <1>1, <1>2, <2>1 DEF ApplInv, ApplTypeOK, CmdInv
  <2> QED
    BY <2>2, <2>3, <2>5, <2>6 DEF ApplInv
<1> QED
  BY <1>3, <1>4

\* A step of c that only moves c, from a place outside the mutex to another.
LEMMA WaitInv ==
  ASSUME ApplInv, NEW c \in Callers, ~ Holding(c), NEW l \in {"cv_wait", "timed_out", "idle"},
         pc[c] # "idle", pc' = [pc EXCEPT ![c] = l],
         \/ cmd' = cmd
         \/ l = "idle" /\ cmd' = [cmd EXCEPT ![c] = NoCmd],
         UNCHANGED <<wait_cb, tmr_lst, cb_thrds, send_data_cb, n_calls, pending, rd, cb_q,
                     accepted, completed>>
  PROVE  ApplInv'
<1>1. ApplTypeOK'
  BY DEF ApplInv, ApplTypeOK, PCs
<1>2. TimerOfTheWait' /\ OwnerInv'
  BY DEF ApplInv, TimerOfTheWait, OwnerInv
<1>3. \A d \in Callers : Holding(d)' => Holding(d) /\ d # c
  BY DEF ApplInv, ApplTypeOK, Holding
<1>4. HolderInv'
  BY <1>3 DEF ApplInv, ApplTypeOK, HolderInv, MayWait
<1>5. CmdInv'
  BY DEF ApplInv, ApplTypeOK, CmdInv
<1> QED
  BY <1>1, <1>2, <1>4, <1>5 DEF ApplInv

LEMMA RecheckInv ==
  ASSUME ApplInv, NEW c \in Callers, Recheck(c) PROVE ApplInv'
<1>1. ~ Holding(c) /\ pc[c] # "idle" /\ cmd[c] \in Commands
  BY DEF Recheck, Holding, ApplInv, CmdInv
<1>2. CASE ~ MayWait
  <2>1. cmd' = [cmd EXCEPT ![c] = cmd[c]] /\ n_calls' \in 0 .. MaxCalls
    BY <1>2 DEF Recheck, ApplInv, ApplTypeOK
  <2>2. /\ Enter(c, cmd[c]) /\ SndMtxFree
        /\ UNCHANGED <<wait_cb, tmr_lst, cb_thrds, pending, rd, cb_q, accepted, completed>>
    BY <1>2 DEF Recheck
  <2> QED
    BY <1>1, <1>2, <2>1, <2>2, EnterInv
<1>3. CASE MayWait
  BY <1>1, <1>3, WaitInv DEF Recheck, Return
<1> QED
  BY <1>2, <1>3

\* The steps of the caller that holds the mutex.
LEMMA SsnEndsInv ==
  ASSUME ApplInv, NEW c \in Callers, SsnResponse(c) \/ SsnError(c) PROVE ApplInv'
<1>1. /\ pc[c] = "in_ssn" /\ cmd[c] \in Commands
      /\ UNCHANGED <<wait_cb, tmr_lst, cb_thrds, send_data_cb, cmd, n_calls, rd, cb_q,
                     accepted, completed>>
  BY DEF SsnResponse, SsnError, ApplInv, CmdInv
<1>2. /\ pending' = pending \/ pending' = pending \cup {cmd[c]}
      /\ pending' # pending => cmd[c].kind \in Kinds
      /\ \/ pc' = [pc EXCEPT ![c] = "ssn_end"]
         \/ pc' = [pc EXCEPT ![c] = "ssn_ok"] /\ cmd[c].kind \in Kinds
  BY DEF SsnResponse, SsnError, Gated
<1>3. ApplTypeOK'
  <2>1. pending' \subseteq CalledBack
    BY <1>1, <1>2 DEF ApplInv, ApplTypeOK, Commands, CalledBack
  <2> QED
    BY <1>1, <1>2, <2>1 DEF ApplInv, ApplTypeOK, PCs
<1>4. TimerOfTheWait' /\ OwnerInv'
  BY <1>1 DEF ApplInv, TimerOfTheWait, OwnerInv
<1>5. \A d \in Callers : Holding(d)' <=> Holding(d)
  BY <1>1, <1>2 DEF ApplInv, ApplTypeOK, Holding
<1>6. HolderInv'
  BY <1>1, <1>5 DEF ApplInv, HolderInv, MayWait
<1>7. CmdInv'
  BY <1>1, <1>2 DEF ApplInv, ApplTypeOK, CmdInv
<1> QED
  BY <1>3, <1>4, <1>6, <1>7 DEF ApplInv

LEMMA AcceptInv ==
  ASSUME ApplInv, NEW c \in Callers, Accept(c) PROVE ApplInv'
<1> DEFINE k == cmd[c].kind
<1>1. /\ Holding(c) /\ ~ MayWait /\ cmd[c] \in Commands /\ k \in Kinds
      /\ send_data_cb = cmd[c].id /\ \A d \in Callers : Holding(d) => d = c
  BY DEF Accept, Holding, ApplInv, HolderInv, CmdInv, Gated
<1>2. cmd[c].id \in 1 .. MaxCalls
  BY <1>1 DEF Commands
<1>3. tmr_lst = {} /\ wait_cb = [i \in Kinds |-> FALSE]
  BY <1>1 DEF ApplInv, ApplTypeOK, TimerOfTheWait, MayWait
<1>4. /\ wait_cb' = [wait_cb EXCEPT ![k] = TRUE]
      /\ tmr_lst' = {} \/ tmr_lst' = {[cb |-> k, named |-> TRUE]}
      /\ accepted' = accepted \cup {cmd[c].id}
      /\ pc' = [pc EXCEPT ![c] = "idle"] /\ cmd' = [cmd EXCEPT ![c] = NoCmd]
      /\ UNCHANGED <<cb_thrds, send_data_cb, n_calls, pending, rd, cb_q, completed>>
  BY <1>3 DEF Accept, Return, TmrStarted
<1> HIDE DEF k
<1>5. ApplTypeOK'
  <2>1. k \in Kinds
    BY <1>1
  <2>2. tmr_lst' \subseteq [cb : Kinds, named : BOOLEAN]
    <3>1. [cb |-> k, named |-> TRUE] \in [cb : Kinds, named : BOOLEAN]
      BY <2>1
    <3> QED
      BY <1>4, <3>1
  <2>3. wait_cb' \in [Kinds -> BOOLEAN]
    BY <1>4, <2>1 DEF ApplInv, ApplTypeOK
  <2>4. pc' \in [Callers -> PCs] /\ cmd' \in [Callers -> Commands \cup {NoCmd}]
    BY <1>4 DEF ApplInv, ApplTypeOK, PCs
  <2>5. accepted' \subseteq 1 .. MaxCalls
    BY <1>2, <1>4 DEF ApplInv, ApplTypeOK
  <2> QED
    BY <1>4, <2>2, <2>3, <2>4, <2>5 DEF ApplInv, ApplTypeOK
<1>6. TimerOfTheWait'
  BY <1>1, <1>3, <1>4 DEF TimerOfTheWait, Kinds
<1>7. OwnerInv'
  BY <1>1, <1>2, <1>4 DEF OwnerInv
<1>8. \A d \in Callers : ~ Holding(d)'
  BY <1>1, <1>4 DEF ApplInv, ApplTypeOK, Holding
<1>9. HolderInv' /\ CmdInv'
  BY <1>4, <1>8 DEF ApplInv, ApplTypeOK, HolderInv, CmdInv
<1> QED
  BY <1>5, <1>6, <1>7, <1>9 DEF ApplInv

LEMMA FailInv ==
  ASSUME ApplInv, NEW c \in Callers, Fail(c) PROVE ApplInv'
<1>1. /\ Holding(c) /\ pc' = [pc EXCEPT ![c] = "idle"] /\ cmd' = [cmd EXCEPT ![c] = NoCmd]
      /\ UNCHANGED <<wait_cb, tmr_lst, cb_thrds, send_data_cb, n_calls, pending, rd, cb_q,
                     accepted, completed>>
  BY DEF Fail, Return, Holding
<1>2. ApplTypeOK'
  BY <1>1 DEF ApplInv, ApplTypeOK, PCs
<1>3. TimerOfTheWait' /\ OwnerInv'
  BY <1>1 DEF ApplInv, TimerOfTheWait, OwnerInv
<1>4. \A d \in Callers : ~ Holding(d)'
  BY <1>1 DEF ApplInv, ApplTypeOK, HolderInv, Holding
<1>5. HolderInv' /\ CmdInv'
  BY <1>1, <1>4 DEF ApplInv, ApplTypeOK, HolderInv, CmdInv
<1> QED
  BY <1>2, <1>3, <1>5 DEF ApplInv

\* A flag is cleared with snd_mtx held, and the timer of the common handle
\* stopped: in a state that satisfies the invariant no timer is left.
LEMMA ClearInv ==
  ASSUME ApplInv, SndMtxFree, NEW k \in Kinds,
         wait_cb' = [wait_cb EXCEPT ![k] = FALSE], tmr_lst' = TmrStopped, Signal,
         UNCHANGED <<send_data_cb, cmd>>
  PROVE  /\ wait_cb' \in [Kinds -> BOOLEAN] /\ tmr_lst' = {}
         /\ pc' \in [Callers -> PCs] /\ TimerOfTheWait' /\ HolderInv' /\ CmdInv'
<1>1. wait_cb' \in [Kinds -> BOOLEAN] /\ tmr_lst' = {}
  BY DEF ApplInv, ApplTypeOK, TimerOfTheWait, TmrStopped
<1>2. TimerOfTheWait'
  BY <1>1 DEF ApplInv, ApplTypeOK, TimerOfTheWait, Kinds
<1>3. /\ pc' \in [Callers -> PCs] /\ CmdInv' /\ \A c \in Callers : Holding(c)' <=> Holding(c)
  BY SignalMoves DEF ApplInv, ApplTypeOK
<1>4. HolderInv'
  BY <1>3 DEF HolderInv, SndMtxFree, Holding
<1> QED
  BY <1>1, <1>2, <1>3, <1>4

LEMMA NmCbInv == ASSUME ApplInv, NmCb PROVE ApplInv'
<1>1. /\ SndMtxFree /\ rd \in CalledBack /\ rd.kind \in Kinds /\ rd' = NoCmd
      /\ cb_q' = Append(cb_q, rd)
      /\ UNCHANGED <<cb_thrds, send_data_cb, cmd, n_calls, pending, accepted, completed>>
  BY DEF NmCb, Queued, ApplInv, ApplTypeOK, CalledBack
<1>2. CASE wait_cb[rd.kind]
  <2>1. /\ wait_cb' = [wait_cb EXCEPT ![rd.kind] = FALSE] /\ tmr_lst' = TmrStopped /\ Signal
    BY <1>2 DEF NmCb, FlagOf
  <2>2. /\ wait_cb' \in [Kinds -> BOOLEAN] /\ tmr_lst' = {}
        /\ pc' \in [Callers -> PCs] /\ TimerOfTheWait' /\ HolderInv' /\ CmdInv'
    BY <1>1, <1>2, <2>1, ClearInv
  <2>3. ApplTypeOK'
    BY <1>1, <2>2 DEF ApplInv, ApplTypeOK
  <2>4. OwnerInv'
    BY <1>1, <2>2 DEF ApplInv, OwnerInv
  <2> QED
    BY <2>2, <2>3, <2>4 DEF ApplInv
<1>3. CASE UNCHANGED <<wait_cb, tmr_lst, pc>>
  <2>1. ApplTypeOK'
    BY <1>1, <1>3 DEF ApplInv, ApplTypeOK
  <2> QED
    BY <1>1, <1>3, <2>1
       DEF ApplInv, TimerOfTheWait, HolderInv, Holding, MayWait, CmdInv, OwnerInv
<1> QED
  BY <1>1, <1>2, <1>3 DEF NmCb, FlagOf

LEMMA TmoutCbInv == ASSUME ApplInv, NEW k \in Kinds, TmoutCb(k) PROVE ApplInv'
<1>1. /\ SndMtxFree /\ cb_thrds[k] > 0
      /\ cb_thrds' = [cb_thrds EXCEPT ![k] = @ - 1]
      /\ wait_cb' = [wait_cb EXCEPT ![k] = FALSE] /\ tmr_lst' = TmrStopped /\ Signal
      /\ completed' = completed \cup {send_data_cb}
      /\ UNCHANGED <<send_data_cb, cmd, n_calls, pending, rd, cb_q, accepted>>
  BY DEF TmoutCb
<1>2. /\ wait_cb' \in [Kinds -> BOOLEAN] /\ tmr_lst' = {}
      /\ pc' \in [Callers -> PCs] /\ TimerOfTheWait' /\ HolderInv' /\ CmdInv'
  BY <1>1, ClearInv
<1>3. send_data_cb \in 1 .. MaxCalls
  BY <1>1, ApplAssumption DEF ApplInv, ApplTypeOK, OwnerInv
<1>4. cb_thrds' \in [Kinds -> Nat]
  BY <1>1 DEF ApplInv, ApplTypeOK
<1>5. ApplTypeOK'
  BY <1>1, <1>2, <1>3, <1>4 DEF ApplInv, ApplTypeOK
<1>6. OwnerInv'
  BY <1>1, <1>3 DEF OwnerInv
<1> QED
  BY <1>2, <1>5, <1>6 DEF ApplInv

LEMMA ExpireInv == ASSUME ApplInv, NEW t \in tmr_lst, Expire(t) PROVE ApplInv'
<1>1. /\ tmr_lst' = tmr_lst \ {t} /\ cb_thrds' = [cb_thrds EXCEPT ![t.cb] = @ + 1]
      /\ UNCHANGED <<wait_cb, send_data_cb, pc, cmd, n_calls, pending, rd, cb_q, accepted,
                     completed>>
  BY DEF Expire
<1>2. ApplTypeOK'
  BY <1>1 DEF ApplInv, ApplTypeOK
<1>3. OwnerInv'
  BY <1>1 DEF ApplInv, OwnerInv
<1> QED
  BY <1>1, <1>2, <1>3 DEF ApplInv, TimerOfTheWait, HolderInv, Holding, MayWait, CmdInv

LEMMA CallbackInv ==
  ASSUME ApplInv, (\E e \in pending : RxCallback(e)) \/ CbThrd PROVE ApplInv'
<1>1. UNCHANGED <<wait_cb, tmr_lst, cb_thrds, send_data_cb, pc, cmd, n_calls, accepted>>
  BY DEF RxCallback, CbThrd
<1>2. ASSUME NEW e \in pending, RxCallback(e) PROVE ApplTypeOK'
  BY <1>1, <1>2 DEF ApplInv, ApplTypeOK, RxCallback
<1>3. ASSUME CbThrd PROVE ApplTypeOK'
  <2>1. Head(cb_q) \in CalledBack /\ Tail(cb_q) \in Seq(CalledBack)
    BY <1>3 DEF ApplInv, ApplTypeOK, CbThrd
  <2>2. Head(cb_q).id \in 1 .. MaxCalls
    BY <2>1 DEF CalledBack
  <2> QED
    BY <1>1, <1>3, <2>1, <2>2 DEF ApplInv, ApplTypeOK, CbThrd
<1> QED
  BY <1>1, <1>2, <1>3
     DEF ApplInv, TimerOfTheWait, HolderInv, Holding, MayWait, CmdInv, OwnerInv

LEMMA ApplNextInv == ApplInv /\ [ApplNext]_appl_vars => ApplInv'
<1> SUFFICES ASSUME ApplInv, [ApplNext]_appl_vars PROVE ApplInv'
  OBVIOUS
<1>1. ASSUME NEW c \in Callers, WaitTimeout(c) PROVE ApplInv'
  BY <1>1, WaitInv DEF WaitTimeout, Holding
<1>2. CASE UNCHANGED appl_vars
  BY <1>2 DEF appl_vars, ApplInv, ApplTypeOK, TimerOfTheWait, HolderInv, Holding, MayWait, CmdInv,
              OwnerInv
<1> QED
  BY <1>1, <1>2, ApplCallInv, RecheckInv, SsnEndsInv, AcceptInv, FailInv, NmCbInv, TmoutCbInv,
     ExpireInv, CallbackInv DEF ApplNext, CallerStep

LEMMA ApplInvariant == ApplSpec => []ApplInv
BY ApplInitInv, ApplNextInv, PTL DEF ApplSpec

\* Type correctness of the application layer.
THEOREM ApplTypeCorrect == ApplSpec => []ApplTypeOK
BY ApplInvariant, PTL DEF ApplInv

\* At most one of the two flags is set, and a timer that runs is named by
\* cb_tmr_ctx and is the timer of the flag that is set: the handle the two
\* kinds of commands share is never overwritten while it names a timer.
THEOREM ApplTimerOfTheWait == ApplSpec => []TimerOfTheWait
BY ApplInvariant, PTL DEF ApplInv
===========================================================================
