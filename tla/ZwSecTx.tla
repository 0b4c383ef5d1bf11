------------------------------ MODULE ZwSecTx ------------------------------
(***************************************************************************)
(* The transmission side of the security layer, src/zw_sec_layer.c.  A     *)
(* message is encrypted with a nonce of its receiver: the state machine    *)
(* asks for one, waits for the report, sends the message, and asks again   *)
(* (in the header of the first frame) when the message takes two frames.   *)
(* Messages that come meanwhile are queued.                                *)
(*                                                                         *)
(* Every entry holds sec_mtx from its first to its last statement, so it   *)
(* is one step here, what zw_send_data takes included; between             *)
(* zwsec_enonce_put and the state machine the mutex is released.  The      *)
(* callback thread handles transmit statuses and received commands one     *)
(* after the other, in the order they came in; every expired timer has a   *)
(* thread of its own.  zw_send_data is what the application layer makes    *)
(* of it: no second call before the status frame of the first one, one     *)
(* status for each call that is accepted.                                  *)
(***************************************************************************)
EXTENDS Integers, Sequences, FiniteSets, SequencesExt

CONSTANTS
  Msgs,          \* messages: receiver and length (in frames; 3: too long for two)
  NoMsg, NoNonce, NoNode,
  MAX_SEC_TX_Q,  \* messages that can be queued
  MayFail        \* what may fail: "send" zw_send_data, "inonce" zwsec_inonce_gen,
                 \* "node" zwnode_find

Nodes == {m.node : m \in Msgs}
Short(m) == m.frames = 1
TooLong(m) == m.frames > 2

\* A receiver makes one nonce for each request: for the SECURITY_NONCE_GET of a
\* message (part 1) and for its first frame (part 2).
Nonces == [msg : Msgs, part : {1, 2}]

ASSUME SecTxAssumption ==
  /\ \A m \in Msgs : DOMAIN m = {"id", "node", "frames", "zero_key"} /\ m.frames \in 1 .. 3
  /\ \A m \in Msgs : m.zero_key \in BOOLEAN /\ (m.zero_key => Short(m))
  /\ NoMsg \notin Msgs /\ NoNonce \notin Nonces /\ NoNode \notin Nodes
  /\ MAX_SEC_TX_Q \in Nat
  /\ MayFail \subseteq {"send", "inonce", "node"}

VARIABLES
  tx_sm_sta, tx_sm_nodeid,
  tx_sm_cb,         \* the message whose completion function is saved
  tx_sm_opp,        \* the message in the buffer, NoMsg when its length is 0
  tx_sm_2nd_frm,    \* the message whose second frame is saved
  tx_sm_use_0_key,
  tx_sm_opp_hd,     \* the queue
  tx_sm_q_cnt,
  tx_sm_tmr_ctx,    \* the request whose timer runs
  tmout_thrds,      \* expired timers whose callback has not locked sec_mtx yet
  ext_nonce,        \* the external nonce stored last
  rpt_hdlr,         \* the node whose report zwsec_nonce_rpt_hdlr has just stored
  tx_wait,          \* the call of zw_send_data whose status frame is to come
  cb_q,             \* the callback thread's requests: statuses and nonces
  made,             \* environment: nonces the receivers have made
  reports,          \* environment: those on their way
  sent,             \* observation: frames sent, with the nonce used for each
  outcome           \* observation: what every message has come to

sm_vars == <<tx_sm_sta, tx_sm_nodeid, tx_sm_cb, tx_sm_opp, tx_sm_2nd_frm, tx_sm_use_0_key,
             tx_sm_tmr_ctx>>
q_vars == <<tx_sm_opp_hd, tx_sm_q_cnt>>
env_vars == <<tx_wait, made, reports, sent>>
sec_tx_vars == <<sm_vars, q_vars, env_vars, tmout_thrds, ext_nonce, rpt_hdlr, cb_q, outcome>>

Stas == {"IDLE", "WAIT_GET_NONCE_TX_STS", "WAIT_SPP_TX_STS", "WAIT_NONCE"}
\* A call of zw_send_data: what is 0 for the nonce request of a message, or the
\* number of the frame.
Calls == [msg : Msgs, what : 0 .. 2]

SecTxTypeOK ==
  /\ tx_sm_sta \in Stas
  /\ tx_sm_nodeid \in Nodes \cup {NoNode}
  /\ {tx_sm_cb, tx_sm_opp, tx_sm_2nd_frm} \subseteq Msgs \cup {NoMsg}
  /\ tx_sm_use_0_key \in BOOLEAN
  /\ tx_sm_opp_hd \in Seq(Msgs) /\ Len(tx_sm_opp_hd) <= MAX_SEC_TX_Q
  /\ tx_sm_q_cnt = Len(tx_sm_opp_hd)
  /\ tx_sm_tmr_ctx \in Nonces \cup {NoNonce}
  /\ tmout_thrds \subseteq Nonces
  /\ ext_nonce \in [valid : BOOLEAN, expired : BOOLEAN,
                    nonce : Nonces \cup {NoNonce}, snd_nodeid : Nodes \cup {NoNode}]
  /\ rpt_hdlr \in Nodes \cup {NoNode}
  /\ tx_wait \subseteq Calls /\ Cardinality(tx_wait) <= 1
  /\ cb_q \in Seq([call : Calls, ok : BOOLEAN] \cup Nonces)
  /\ made \subseteq Nonces /\ reports \subseteq made
  /\ sent \subseteq [msg : Msgs, part : {1, 2}, nonce : Nonces, zero_key : BOOLEAN]
  /\ outcome \in [Msgs -> {"new", "refused", "accepted", "ok", "error"}]

SecTxInit ==
  /\ tx_sm_sta = "IDLE" /\ tx_sm_nodeid = NoNode /\ tx_sm_cb = NoMsg
  /\ tx_sm_opp = NoMsg /\ tx_sm_2nd_frm = NoMsg /\ tx_sm_use_0_key = FALSE
  /\ tx_sm_opp_hd = <<>> /\ tx_sm_q_cnt = 0
  /\ tx_sm_tmr_ctx = NoNonce /\ tmout_thrds = {}
  /\ ext_nonce = [valid |-> FALSE, expired |-> FALSE, nonce |-> NoNonce, snd_nodeid |-> NoNode]
  /\ rpt_hdlr = NoNode
  /\ tx_wait = {} /\ cb_q = <<>> /\ made = {} /\ reports = {} /\ sent = {}
  /\ outcome = [m \in Msgs |-> "new"]

---------------------------------------------------------------------------
(* zw_send_data and the start of a transmission.                           *)

\* zwsec_send_raw, and zwsec_nonce_get, which repeats it once when it is busy.
SendOk == tx_wait = {}
SendErr == tx_wait # {} \/ "send" \in MayFail

\* zwsec_sm_start sends the request or fails, with its parameters saved.
StartOk(m) == ~ TooLong(m) /\ SendOk
StartErr(m) == TooLong(m) \/ SendErr
SmStart(m) ==
  /\ tx_sm_opp' = m
  /\ tx_sm_use_0_key' = m.zero_key
  /\ tx_wait' = {[msg |-> m, what |-> 0]}
  /\ tx_sm_tmr_ctx' = [msg |-> m, part |-> 1]
  /\ tx_sm_sta' = "WAIT_GET_NONCE_TX_STS"
\* The messages of a sequence are tried and none is started: the last one that is
\* not too long is in the buffer then, or what was there before, opp.
SmSave(tried, opp) ==
  \/ /\ \A i \in 1 .. Len(tried) : TooLong(tried[i])
     /\ tx_sm_opp' = opp /\ UNCHANGED tx_sm_use_0_key
  \/ \E i \in 1 .. Len(tried) :
       /\ ~ TooLong(tried[i]) /\ \A j \in i + 1 .. Len(tried) : TooLong(tried[j])
       /\ tx_sm_opp' = tried[i] /\ tx_sm_use_0_key' = tried[i].zero_key

\* What every message has come to when the current one is reported with status s
\* and those in failed with an error.
ToldFirst(s, failed) == [outcome EXCEPT ![tx_sm_cb] = s]  \* mutated form
Told(s, failed) == [m \in Msgs |-> IF m = tx_sm_cb THEN s
                                  ELSE IF m \in failed THEN "error" ELSE outcome[m]]

\* The message is reported with status s, and zwsec_sm_next takes the queue: the
\* first k messages in it cannot be started and are reported, the next one is.
\* opp is what the buffer holds by then.
SmNext(s, opp) ==
  \E k \in 0 .. Len(tx_sm_opp_hd) :
    LET failed == SubSeq(tx_sm_opp_hd, 1, k)
        rest == SubSeq(tx_sm_opp_hd, k + 1, Len(tx_sm_opp_hd))
        tried == IF rest = <<>> THEN failed ELSE Append(failed, Head(rest))
    IN /\ \A i \in 1 .. k : StartErr(failed[i])
       /\ outcome' = Told(s, ToSet(failed))
       /\ IF tried = <<>>
          THEN UNCHANGED <<tx_sm_nodeid, tx_sm_cb>>
          ELSE tx_sm_nodeid' = Last(tried).node /\ tx_sm_cb' = Last(tried)
       /\ IF rest = <<>>
          THEN /\ tx_sm_sta' = "IDLE" /\ tx_sm_tmr_ctx' = NoNonce
               /\ SmSave(failed, opp)
               /\ tx_sm_opp_hd' = <<>> /\ tx_sm_q_cnt' = tx_sm_q_cnt - k
               /\ UNCHANGED tx_wait
          ELSE /\ StartOk(Head(rest)) /\ SmStart(Head(rest))
               /\ tx_sm_opp_hd' = Tail(rest) /\ tx_sm_q_cnt' = tx_sm_q_cnt - (k + 1)

---------------------------------------------------------------------------
(* The entries.                                                            *)

QHasRoom == tx_sm_q_cnt < MAX_SEC_TX_Q

\* zwsec_send
SendQueued(m) ==
  /\ tx_sm_sta # "IDLE" /\ QHasRoom
  /\ tx_sm_opp_hd' = Append(tx_sm_opp_hd, m)
  /\ tx_sm_q_cnt' = tx_sm_q_cnt + 1
  /\ outcome' = [outcome EXCEPT ![m] = "accepted"]
  /\ UNCHANGED <<sm_vars, tx_wait>>
SendRefused(m) ==
  /\ tx_sm_sta # "IDLE" /\ ~ QHasRoom
  /\ outcome' = [outcome EXCEPT ![m] = "refused"]
  /\ UNCHANGED <<sm_vars, q_vars, tx_wait>>
SendStarted(m) ==
  /\ tx_sm_sta = "IDLE"
  /\ tx_sm_nodeid' = m.node /\ tx_sm_cb' = m
  /\ \/ /\ StartOk(m) /\ SmStart(m)
        /\ outcome' = [outcome EXCEPT ![m] = "accepted"]
     \/ /\ StartErr(m)
        /\ outcome' = [outcome EXCEPT ![m] = "refused"]
        /\ SmSave(<<m>>, tx_sm_opp)
        /\ UNCHANGED <<tx_sm_sta, tx_sm_tmr_ctx, tx_wait>>
  /\ UNCHANGED q_vars
zwsec_send(m) ==
  /\ outcome[m] = "new"
  /\ SendQueued(m) \/ SendRefused(m) \/ SendStarted(m)
  /\ UNCHANGED <<tx_sm_2nd_frm, tmout_thrds, ext_nonce, rpt_hdlr, cb_q, made, reports, sent>>

\* The state machine handles the status of a call made for node.
StsEvent(node, ok) ==
  CASE node # tx_sm_nodeid \/ tx_sm_sta \in {"IDLE", "WAIT_NONCE"} ->
         UNCHANGED <<sm_vars, q_vars, tx_wait, outcome>>
    [] OTHER ->
         /\ UNCHANGED tx_sm_2nd_frm
         /\ \/ /\ ok /\ (tx_sm_sta = "WAIT_GET_NONCE_TX_STS" \/ tx_sm_2nd_frm # NoMsg)
               /\ tx_sm_sta' = "WAIT_NONCE"
               /\ UNCHANGED <<tx_sm_nodeid, tx_sm_cb, tx_sm_opp, tx_sm_use_0_key, tx_sm_tmr_ctx,
                              q_vars, tx_wait, outcome>>
            \/ /\ ok /\ tx_sm_sta = "WAIT_SPP_TX_STS" /\ tx_sm_2nd_frm = NoMsg
               /\ SmNext("ok", tx_sm_opp)
            \/ ~ ok /\ SmNext("error", tx_sm_opp)

\* zwsec_tx_sts_cb, for the status at the head of the callback thread's requests
zwsec_tx_sts_cb ==
  /\ rpt_hdlr = NoNode /\ cb_q # <<>> /\ Head(cb_q) \notin Nonces
  /\ cb_q' = Tail(cb_q)
  /\ StsEvent(Head(cb_q).call.msg.node, Head(cb_q).ok)
  /\ UNCHANGED <<tmout_thrds, ext_nonce, rpt_hdlr, made, reports, sent>>

\* zwsec_enonce_put: a copy of the nonce used last is not stored.
PutAlways(n) == TRUE  \* mutated form
Storable(n) == ext_nonce.valid \/ ext_nonce.nonce # n
zwsec_enonce_put ==
  /\ rpt_hdlr = NoNode /\ cb_q # <<>> /\ Head(cb_q) \in Nonces
  /\ LET n == Head(cb_q)
     IN /\ ext_nonce' = IF Storable(n)
                        THEN [valid |-> TRUE, expired |-> FALSE, nonce |-> n, snd_nodeid |-> n.msg.node]
                        ELSE ext_nonce
        /\ rpt_hdlr' = n.msg.node
  /\ UNCHANGED <<sm_vars, q_vars, env_vars, tmout_thrds, cb_q, outcome>>

\* zwsec_enonce_get
InvalidateNonce == ext_nonce' = [ext_nonce EXCEPT !.valid = FALSE]
NonceAtHand(node) == ext_nonce.valid /\ ~ ext_nonce.expired /\ ext_nonce.snd_nodeid = node

\* zwsec_sm_spp_tx of the first or of the second frame: what it leaves in
\* tx_sm_2nd_frm, and the frame.
NoSecondFrame(m, part) == NoMsg  \* mutated form
SecondFrame(m, part) == IF part = 1 /\ ~ Short(m) THEN m ELSE NoMsg
SppTmr(m, part) == IF SecondFrame(m, part) # NoMsg THEN [msg |-> m, part |-> 2] ELSE NoNonce
SppTx(m, part, zero_key) ==
  /\ SendOk
  /\ tx_wait' = {[msg |-> m, what |-> part]}
  /\ sent' = sent \cup {[msg |-> m, part |-> part, nonce |-> ext_nonce.nonce,
                         zero_key |-> zero_key]}
  /\ tx_sm_opp' = NoMsg
  /\ tx_sm_2nd_frm' = SecondFrame(m, part)
  /\ tx_sm_tmr_ctx' = SppTmr(m, part)
  /\ tx_sm_sta' = "WAIT_SPP_TX_STS"
  /\ UNCHANGED <<tx_sm_nodeid, tx_sm_cb, tx_sm_use_0_key, q_vars, outcome>>
\* It fails: the node is gone, no internal nonce is free, or the frame is not sent.
SppFails(m, part) ==
  /\ \/ /\ "node" \in MayFail /\ (part = 2 \/ ~ Short(m))
        /\ tx_sm_2nd_frm' = m
        /\ SmNext("error", tx_sm_opp)
     \/ /\ "inonce" \in MayFail
        /\ tx_sm_2nd_frm' = SecondFrame(m, part)
        /\ SmNext("error", tx_sm_opp)
     \/ /\ SendErr
        /\ tx_sm_2nd_frm' = SecondFrame(m, part)
        /\ SmNext("error", NoMsg)
  /\ UNCHANGED sent

\* A report is handled in state WAIT_NONCE: the frame it was asked for is sent.
NonceEvent(node) ==
  IF node # tx_sm_nodeid \/ tx_sm_sta # "WAIT_NONCE"
  THEN UNCHANGED <<sm_vars, q_vars, tx_wait, sent, outcome, ext_nonce>>
  ELSE LET part == IF tx_sm_opp # NoMsg THEN 1 ELSE 2
           m == IF part = 1 THEN tx_sm_opp ELSE tx_sm_2nd_frm
       IN IF NonceAtHand(node)
          THEN InvalidateNonce
               /\ (SppTx(m, part, part = 1 /\ tx_sm_use_0_key) \/ SppFails(m, part))
          ELSE SmNext("error", tx_sm_opp) /\ UNCHANGED <<tx_sm_2nd_frm, ext_nonce, sent>>

\* zwsec_nonce_rpt_hdlr, after zwsec_enonce_put
zwsec_nonce_rpt_hdlr ==
  /\ rpt_hdlr # NoNode
  /\ rpt_hdlr' = NoNode
  /\ cb_q' = Tail(cb_q)
  /\ NonceEvent(rpt_hdlr)
  /\ UNCHANGED <<tmout_thrds, made, reports>>

\* zwsec_nonce_tmout_cb stops the timer that runs, whosoever it is.
zwsec_nonce_tmout_cb(t) ==
  /\ t \in tmout_thrds
  /\ tmout_thrds' = tmout_thrds \ {t}
  /\ IF tx_sm_sta = "IDLE"
     THEN /\ tx_sm_tmr_ctx' = NoNonce
          /\ UNCHANGED <<tx_sm_sta, tx_sm_nodeid, tx_sm_cb, tx_sm_opp, tx_sm_use_0_key, q_vars,
                         tx_wait, outcome>>
     ELSE SmNext("error", tx_sm_opp)
  /\ UNCHANGED <<tx_sm_2nd_frm, ext_nonce, rpt_hdlr, cb_q, made, reports, sent>>

---------------------------------------------------------------------------
(* The periodic tick, the timer and the environment.                       *)

\* EXTERNAL_NONCE_LIFE has passed (time is not counted).
ExtNonceExpires ==
  /\ ext_nonce.valid /\ ~ ext_nonce.expired
  /\ ext_nonce' = [ext_nonce EXCEPT !.expired = TRUE]
  /\ UNCHANGED <<sm_vars, q_vars, env_vars, tmout_thrds, rpt_hdlr, cb_q, outcome>>

\* zwsec_tmout_cb, when sec_mtx is free.
zwsec_tmout_cb ==
  /\ ext_nonce.valid /\ ext_nonce.expired
  /\ InvalidateNonce
  /\ UNCHANGED <<sm_vars, q_vars, env_vars, tmout_thrds, rpt_hdlr, cb_q, outcome>>

\* NONCE_REQ_TIMEOUT has passed.
TxTmrExpires ==
  /\ tx_sm_tmr_ctx # NoNonce
  /\ tmout_thrds' = tmout_thrds \cup {tx_sm_tmr_ctx}
  /\ tx_sm_tmr_ctx' = NoNonce
  /\ UNCHANGED <<tx_sm_sta, tx_sm_nodeid, tx_sm_cb, tx_sm_opp, tx_sm_2nd_frm, tx_sm_use_0_key,
                 q_vars, env_vars, ext_nonce, rpt_hdlr, cb_q, outcome>>

\* The status frame of the call arrives; a nonce request that has been received
\* may be answered.
StatusFrame ==
  \E c \in tx_wait, ok \in BOOLEAN :
    /\ tx_wait' = {}
    /\ cb_q' = Append(cb_q, [call |-> c, ok |-> ok])
    /\ UNCHANGED <<sm_vars, q_vars, tmout_thrds, ext_nonce, rpt_hdlr, made, reports, sent,
                   outcome>>

\* The receiver hears the request (whether or not its acknowledgement is heard).
RequestHeard ==
  \E c \in tx_wait :
    /\ c.what = 0 \/ (c.what = 1 /\ ~ Short(c.msg))
    /\ LET n == [msg |-> c.msg, part |-> IF c.what = 1 THEN 2 ELSE 1]
       IN /\ n \notin made
          /\ made' = made \cup {n}
          /\ reports' = reports \cup {n}
    /\ UNCHANGED <<sm_vars, q_vars, tx_wait, sent, tmout_thrds, ext_nonce, rpt_hdlr,
                   cb_q, outcome>>

\* The report arrives, late perhaps, or never; the last one may be repeated before
\* the next one comes.
ReportArrives ==
  \E n \in reports \cup ({ext_nonce.nonce} \cap Nonces) :
    /\ n \in reports \/ ToSet(cb_q) \cap Nonces = {}
    /\ reports' = reports \ {n}
    /\ cb_q' = Append(cb_q, n)
    /\ UNCHANGED <<sm_vars, q_vars, tx_wait, made, sent, tmout_thrds, ext_nonce, rpt_hdlr,
                   outcome>>

CbThread == zwsec_tx_sts_cb \/ zwsec_enonce_put \/ zwsec_nonce_rpt_hdlr
TmoutThreads == \E t \in Nonces : zwsec_nonce_tmout_cb(t)

SecTxNext ==
  \/ \E m \in Msgs : zwsec_send(m)
  \/ CbThread \/ TmoutThreads
  \/ ExtNonceExpires \/ zwsec_tmout_cb \/ TxTmrExpires
  \/ StatusFrame \/ RequestHeard \/ ReportArrives

SecTxSpec == SecTxInit /\ [][SecTxNext]_sec_tx_vars

\* The callback thread and the timers' threads go on, timers expire, and
\* zw_send_data reports every call it has accepted.
SecTxFairness ==
  /\ WF_sec_tx_vars(CbThread) /\ WF_sec_tx_vars(TmoutThreads)
  /\ WF_sec_tx_vars(TxTmrExpires) /\ WF_sec_tx_vars(StatusFrame)

SecTxFairSpec == SecTxSpec /\ SecTxFairness

---------------------------------------------------------------------------
(* Properties.                                                             *)

\* Nothing is left behind when the machine goes to rest: a message in the queue
\* would wait for the next caller, and a timer would fail the next message.
RestsEmpty == tx_sm_sta = "IDLE" => tx_sm_opp_hd = <<>> /\ tx_sm_tmr_ctx = NoNonce

\* A state that waits for what may never come is timed, or its timeout is about
\* to be handled: a nonce that is lost cannot stop the layer.
WaitIsTimed ==
  tx_sm_sta = "WAIT_NONCE" =>
    tx_sm_tmr_ctx # NoNonce \/ tmout_thrds # {} \/ rpt_hdlr # NoNode

\* A message reported as transmitted has been handed to zw_send_data, every frame of
\* it, under the network key it asked for, although a timeout or an error may leave a
\* message in either buffer.
OkMeansSent ==
  \A m \in Msgs : outcome[m] = "ok" =>
    \A part \in 1 .. m.frames :
      \E f \in sent : f.msg = m /\ f.part = part /\ f.zero_key = m.zero_key

\* "Invalidate the stored external nonce since nonce can only be used once": no two
\* frames are encrypted with the same nonce, and each with one of its receiver's.
NonceUsedOnce ==
  /\ \A f \in sent : f.nonce.msg.node = f.msg.node
  /\ \A f, g \in sent : f.nonce = g.nonce => f = g

\* Calls are answered as SecTxService says.
Service == INSTANCE SecTxService WITH
  line <- (IF tx_sm_sta = "IDLE" THEN <<>> ELSE <<tx_sm_cb>>) \o tx_sm_opp_hd
ImplementsSecTx == Service!SvcSpec

---------------------------------------------------------------------------
(* What documents and comments say and the code does not do: the           *)
(* formulas below do not hold, and TLC shows how.                           *)

\* "status 0= transmission ok": the status on which a message is reported as
\* transmitted is that of its own last frame.
OkIsItsOwn ==
  [][\A m \in Msgs : outcome[m] # "ok" /\ outcome'[m] = "ok" =>
       Head(cb_q).call = [msg |-> m, what |-> m.frames]]_sec_tx_vars

\* "Handle race condition where EVT_EXT_NONCE_RCVD arrives before
\* EVT_TX_STATUS_RCVD": the machine does not wait for a nonce it has.
NonceNotMissed ==
  tx_sm_sta = "WAIT_NONCE" /\ rpt_hdlr = NoNode => ~ NonceAtHand(tx_sm_nodeid)
===========================================================================
