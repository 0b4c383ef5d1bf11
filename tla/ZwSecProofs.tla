----------------------------- MODULE ZwSecProofs ----------------------------
(***************************************************************************)
(* Theorems about the transmission side of the security layer and about    *)
(* secure inclusion.  They share no state; the first part is about         *)
(* ZwSecTx, the second about ZwSecIncl.                                    *)
(***************************************************************************)
EXTENDS ZwSecTx, ZwSecIncl, TLAPS, SequenceTheorems, FiniteSetTheorems

---------------------------------------------------------------------------
(***************************************************************************)
(* Secure transmission.  Two invariants are kept by every step.  The first *)
(* relates the state of the machine to its two buffers and to what has     *)
(* been sent: a stale second frame, or a message left in the buffer by a   *)
(* timeout, is overwritten before it could be taken for part of the        *)
(* current message.  The second follows a nonce from the node that made it *)
(* through the callback thread's queue into the nonce that is stored and   *)
(* the frame it is used for: it is in one of these places only, and comes  *)
(* to the last but once.                                                   *)
(***************************************************************************)

FrameSent(m, part) == \E f \in sent : f.msg = m /\ f.part = part /\ f.zero_key = m.zero_key
AllSent(m) == \A part \in 1 .. m.frames : FrameSent(m, part)

\* Both buffers, by what is to be done with them.
FirstToSend == tx_sm_opp = tx_sm_cb /\ tx_sm_use_0_key = tx_sm_cb.zero_key
SecondToSend ==
  tx_sm_opp = NoMsg /\ tx_sm_2nd_frm = tx_sm_cb /\ ~ Short(tx_sm_cb) /\ FrameSent(tx_sm_cb, 1)
NothingToSend == tx_sm_opp = NoMsg /\ tx_sm_2nd_frm = NoMsg /\ AllSent(tx_sm_cb)

InWork ==
  tx_sm_sta # "IDLE" =>
    /\ tx_sm_cb \in Msgs /\ ~ TooLong(tx_sm_cb) /\ tx_sm_nodeid = tx_sm_cb.node
    /\ tx_sm_sta = "WAIT_GET_NONCE_TX_STS" => FirstToSend
    /\ tx_sm_sta = "WAIT_NONCE" => FirstToSend \/ SecondToSend
    /\ tx_sm_sta = "WAIT_SPP_TX_STS" => SecondToSend \/ NothingToSend

\* Where a nonce is expected the request is timed, or its timeout is on the way.
NonceIsExpected ==
  \/ tx_sm_sta \in {"WAIT_GET_NONCE_TX_STS", "WAIT_NONCE"}
  \/ tx_sm_sta = "WAIT_SPP_TX_STS" /\ tx_sm_2nd_frm # NoMsg
RequestIsTimed == NonceIsExpected => tx_sm_tmr_ctx # NoNonce \/ tmout_thrds # {}

SmInv == InWork /\ RestsEmpty /\ RequestIsTimed /\ OkMeansSent

Unused(n) == \A f \in sent : f.nonce # n
Stored(n) == ext_nonce.nonce = n
InQueue(n) == \E i \in 1 .. Len(cb_q) : cb_q[i] = n

StoredIsUnused ==
  ext_nonce.valid =>
    /\ ext_nonce.nonce \in Nonces /\ Unused(ext_nonce.nonce)
    /\ ext_nonce.snd_nodeid = ext_nonce.nonce.msg.node
\* Only the first nonce in the queue may be the one that is stored: a copy of it, or
\* that which is being handled.
QueueIsNew ==
  \A i \in 1 .. Len(cb_q) : cb_q[i] \in Nonces =>
    /\ \A j \in 1 .. i - 1 : cb_q[j] # cb_q[i]
    /\ IF Stored(cb_q[i]) THEN \A j \in 1 .. i - 1 : cb_q[j] \notin Nonces
                          ELSE Unused(cb_q[i])
ReportsAreNew == \A n \in reports : ~ InQueue(n) /\ ~ Stored(n) /\ Unused(n)
MadeFirst == \A n \in Nonces : InQueue(n) \/ Stored(n) \/ ~ Unused(n) => n \in made
BeingHandled ==
  rpt_hdlr # NoNode =>
    /\ cb_q # <<>> /\ Head(cb_q) \in Nonces /\ Stored(Head(cb_q))
    /\ rpt_hdlr = Head(cb_q).msg.node

NonceInv ==
  StoredIsUnused /\ QueueIsNew /\ ReportsAreNew /\ MadeFirst /\ BeingHandled /\ NonceUsedOnce

SecTxInv == SecTxTypeOK /\ SmInv /\ NonceInv
---------------------------------------------------------------------------
(* The step to the next message, by its two outcomes.                      *)

MsgsFirst(k) == {tx_sm_opp_hd[i] : i \in 1 .. k}

\* No message of the queue can be started.
SmRests(k) ==
  /\ k = Len(tx_sm_opp_hd)
  /\ tx_sm_sta' = "IDLE" /\ tx_sm_tmr_ctx' = NoNonce
  /\ tx_sm_nodeid' \in Nodes \cup {NoNode} /\ tx_sm_cb' \in Msgs \cup {NoMsg}
  /\ tx_sm_opp' \in Msgs \cup {NoMsg} /\ tx_sm_use_0_key' \in BOOLEAN
  /\ tx_sm_opp_hd' = <<>> /\ tx_sm_q_cnt' = 0
  /\ UNCHANGED tx_wait

\* The message behind the first k is started.
SmGoesOn(k) ==
  /\ k < Len(tx_sm_opp_hd)
  /\ tx_sm_opp_hd[k + 1] \in Msgs /\ ~ TooLong(tx_sm_opp_hd[k + 1])
  /\ tx_sm_cb' = tx_sm_opp_hd[k + 1] /\ tx_sm_nodeid' = tx_sm_opp_hd[k + 1].node
  /\ SmStart(tx_sm_opp_hd[k + 1])
  /\ tx_sm_opp_hd' = SubSeq(tx_sm_opp_hd, k + 2, Len(tx_sm_opp_hd))
  /\ tx_sm_q_cnt' = Len(tx_sm_opp_hd) - (k + 1)

\* A message has the key it wants, the node it is for and a few frames.
LEMMA MsgFields ==
  ASSUME NEW m \in Msgs
  PROVE  m.node \in Nodes /\ m.frames \in 1 .. 3 /\ m.zero_key \in BOOLEAN
BY SecTxAssumption DEF Nodes

\* The next message is the first of the queue that can be started, or there is none;
\* those before it are reported with the message that was in work.
LEMMA SmNextCases ==
  ASSUME SecTxTypeOK, NEW s, NEW opp \in Msgs \cup {NoMsg}, SmNext(s, opp)
  PROVE  \E k \in 0 .. Len(tx_sm_opp_hd) :
           outcome' = Told(s, MsgsFirst(k)) /\ (SmRests(k) \/ SmGoesOn(k))
<1> DEFINE hd == tx_sm_opp_hd
<1>1. hd \in Seq(Msgs) /\ Len(hd) \in Nat /\ tx_sm_q_cnt = Len(hd)
      /\ \A i \in 1 .. Len(hd) : hd[i] \in Msgs
  BY LenProperties, ElementOfSeq DEF SecTxTypeOK
<1> DEFINE failed(k) == SubSeq(hd, 1, k)
           rest(k) == SubSeq(hd, k + 1, Len(hd))
           tried(k) == IF rest(k) = <<>> THEN failed(k) ELSE Append(failed(k), Head(rest(k)))
<1>2. PICK k \in 0 .. Len(hd) :
        /\ outcome' = Told(s, ToSet(failed(k)))
        /\ IF tried(k) = <<>>
           THEN UNCHANGED <<tx_sm_nodeid, tx_sm_cb>>
           ELSE tx_sm_nodeid' = Last(tried(k)).node /\ tx_sm_cb' = Last(tried(k))
        /\ IF rest(k) = <<>>
           THEN /\ tx_sm_sta' = "IDLE" /\ tx_sm_tmr_ctx' = NoNonce
                /\ SmSave(failed(k), opp)
                /\ tx_sm_opp_hd' = <<>> /\ tx_sm_q_cnt' = tx_sm_q_cnt - k
                /\ UNCHANGED tx_wait
           ELSE /\ StartOk(Head(rest(k))) /\ SmStart(Head(rest(k)))
                /\ tx_sm_opp_hd' = Tail(rest(k)) /\ tx_sm_q_cnt' = tx_sm_q_cnt - (k + 1)
  BY DEF SmNext
<1>3. /\ failed(k) \in Seq(Msgs) /\ Len(failed(k)) = k
      /\ \A i \in 1 .. k : failed(k)[i] = hd[i]
  <2>1. \A i \in 1 .. k : hd[i] \in Msgs
    BY <1>1
  <2> QED
    BY <1>1, <2>1, SubSeqProperties
<1>4. ToSet(failed(k)) = MsgsFirst(k)
  <2>1. DOMAIN failed(k) = 1 .. k
    BY <1>3, LenProperties
  <2> QED
    BY <1>3, <2>1 DEF ToSet, MsgsFirst
<1>5. CASE k = Len(hd)
  <2>1. rest(k) = <<>>
    BY <1>1, <1>5, SubSeqEmpty
  <2>2. tried(k) = failed(k)
    BY <2>1
  <2>3. tx_sm_nodeid' \in Nodes \cup {NoNode} /\ tx_sm_cb' \in Msgs \cup {NoMsg}
    <3>1. CASE tried(k) = <<>>
      BY <1>2, <3>1 DEF SecTxTypeOK
    <3>2. CASE tried(k) # <<>>
      <4>1. Len(failed(k)) \in 1 .. Len(failed(k))
        BY <2>2, <3>2, <1>3, EmptySeq
      <4>2. Last(failed(k)) \in Msgs
        BY <1>3, <4>1, ElementOfSeq DEF Last
      <4> QED
        BY <1>2, <2>2, <3>2, <4>2, MsgFields
    <3> QED
      BY <3>1, <3>2
  <2>4. tx_sm_opp' \in Msgs \cup {NoMsg} /\ tx_sm_use_0_key' \in BOOLEAN
    <3>1. SmSave(failed(k), opp)
      BY <1>2, <2>1
    <3>2. CASE tx_sm_opp' = opp /\ UNCHANGED tx_sm_use_0_key
      BY <3>2 DEF SecTxTypeOK
    <3>3. CASE \E i \in 1 .. Len(failed(k)) :
                 tx_sm_opp' = failed(k)[i] /\ tx_sm_use_0_key' = failed(k)[i].zero_key
      BY <3>3, <1>3, ElementOfSeq, MsgFields
    <3> QED
      BY <3>1, <3>2, <3>3 DEF SmSave
  <2>5. SmRests(k)
    BY <1>1, <1>2, <1>5, <2>1, <2>3, <2>4 DEF SmRests
  <2> QED
    BY <1>2, <1>4, <2>5
<1>6. CASE k < Len(hd)
  <2>1. k + 1 \in 1 .. Len(hd) /\ Len(hd) \in k + 1 .. Len(hd) /\ (k + 1) + 1 = k + 2
    BY <1>1, <1>6
  <2>2. Head(rest(k)) = hd[k + 1] /\ Tail(rest(k)) = SubSeq(hd, k + 2, Len(hd))
    BY <1>1, <2>1, HeadTailOfSubSeq
  <2>3. rest(k) # <<>>
    <3>1. \A i \in k + 1 .. Len(hd) : hd[i] \in Msgs
      BY <1>1
    <3>2. Len(rest(k)) = Len(hd) - (k + 1) + 1
      BY <1>1, <2>1, <3>1, SubSeqProperties
    <3>3. Len(rest(k)) # 0
      BY <1>1, <1>6, <3>2
    <3>4. Len(<<>>) = 0
      BY EmptySeq
    <3> QED
      BY <3>3, <3>4, Zenon
  <2>4. hd[k + 1] \in Msgs
    BY <1>1, <2>1
  <2>5. tried(k) = Append(failed(k), hd[k + 1])
    BY <2>2, <2>3
  <2>6. tried(k) # <<>> /\ Last(tried(k)) = hd[k + 1]
    <3> DEFINE a == Append(failed(k), hd[k + 1])
    <3>1. a # <<>> /\ Len(a) = k + 1 /\ a[k + 1] = hd[k + 1]
      BY <1>3, <2>4, AppendProperties
    <3>2. Last(a) = a[k + 1]
      BY <3>1 DEF Last
    <3> HIDE DEF a
    <3> QED
      BY <2>5, <3>1, <3>2 DEF a
  <2>7. tx_sm_nodeid' = hd[k + 1].node /\ tx_sm_cb' = hd[k + 1]
    BY <1>2, <2>6
  <2>8. /\ StartOk(hd[k + 1]) /\ SmStart(hd[k + 1])
        /\ tx_sm_opp_hd' = SubSeq(hd, k + 2, Len(hd)) /\ tx_sm_q_cnt' = Len(hd) - (k + 1)
    BY <1>1, <1>2, <2>2, <2>3
  <2>9. SmGoesOn(k)
    BY <1>6, <2>4, <2>7, <2>8 DEF SmGoesOn, StartOk
  <2> QED
    BY <1>2, <1>4, <2>9
<1> QED
  BY <1>1, <1>5, <1>6

---------------------------------------------------------------------------
(* What the step to the next message keeps.                                *)

\* The types of what the step changes.
SmTypes ==
  /\ tx_sm_sta \in Stas /\ tx_sm_nodeid \in Nodes \cup {NoNode}
  /\ tx_sm_cb \in Msgs \cup {NoMsg} /\ tx_sm_opp \in Msgs \cup {NoMsg}
  /\ tx_sm_use_0_key \in BOOLEAN
  /\ tx_sm_opp_hd \in Seq(Msgs) /\ Len(tx_sm_opp_hd) <= MAX_SEC_TX_Q
  /\ tx_sm_q_cnt = Len(tx_sm_opp_hd)
  /\ tx_sm_tmr_ctx \in Nonces \cup {NoNonce}
  /\ tx_wait \subseteq Calls /\ Cardinality(tx_wait) <= 1
  /\ outcome \in [Msgs -> {"new", "refused", "accepted", "ok", "error"}]

\* A message that is started has its nonce asked for and timed.
LEMMA SmStartKeeps ==
  ASSUME NEW m \in Msgs, SmStart(m)
  PROVE  /\ tx_sm_opp' = m /\ tx_sm_use_0_key' = m.zero_key /\ m.zero_key \in BOOLEAN
         /\ tx_sm_sta' = "WAIT_GET_NONCE_TX_STS" /\ tx_sm_sta' \in Stas
         /\ tx_sm_tmr_ctx' \in Nonces /\ tx_sm_tmr_ctx' # NoNonce
         /\ tx_wait' \subseteq Calls /\ Cardinality(tx_wait') <= 1
<1>1. [msg |-> m, part |-> 1] \in Nonces /\ NoNonce \notin Nonces
  BY SecTxAssumption DEF Nonces
<1>2. [msg |-> m, what |-> 0] \in Calls
  BY DEF Calls
<1>3. Cardinality({[msg |-> m, what |-> 0]}) = 1
  BY FS_Singleton
<1> QED
  BY <1>1, <1>2, <1>3, MsgFields DEF SmStart, Stas

\* What has been sent remains sent.
LEMMA SentRemains ==
  ASSUME sent \subseteq sent', NEW m
  PROVE  /\ \A part : FrameSent(m, part) => FrameSent(m, part)'
         /\ AllSent(m) => AllSent(m)'
BY DEF FrameSent, AllSent

\* A message is reported as sent when it has been, and then either nothing is in
\* work, nothing timed and nothing queued, or the next message is asked a nonce for.
LEMMA SmNextKeeps ==
  ASSUME SecTxTypeOK, OkMeansSent, sent \subseteq sent', tx_sm_cb \in Msgs,
         NEW s \in {"ok", "error"}, s = "ok" => AllSent(tx_sm_cb),
         NEW opp \in Msgs \cup {NoMsg}, SmNext(s, opp)
  PROVE  SmTypes' /\ SmInv'
<1>1. PICK k \in 0 .. Len(tx_sm_opp_hd) :
        outcome' = Told(s, MsgsFirst(k)) /\ (SmRests(k) \/ SmGoesOn(k))
  BY SmNextCases
<1>2. outcome \in [Msgs -> {"new", "refused", "accepted", "ok", "error"}]
  BY DEF SecTxTypeOK
<1>3. outcome' \in [Msgs -> {"new", "refused", "accepted", "ok", "error"}]
  BY <1>1, <1>2 DEF Told
<1>4. OkMeansSent'
  <2> SUFFICES ASSUME NEW m \in Msgs, outcome'[m] = "ok"
               PROVE  AllSent(m)'
    BY DEF OkMeansSent, AllSent, FrameSent
  <2>1. CASE m = tx_sm_cb
    <3>1. s = "ok"
      BY <1>1, <2>1 DEF Told
    <3> QED
      BY <2>1, <3>1, SentRemains
  <2>2. CASE m # tx_sm_cb
    <3>1. outcome[m] = "ok"
      BY <1>1, <2>2 DEF Told
    <3>2. AllSent(m)
      BY <3>1 DEF OkMeansSent, AllSent, FrameSent
    <3> QED
      BY <3>2, SentRemains
  <2> QED
    BY <2>1, <2>2
<1>5. tx_sm_opp_hd \in Seq(Msgs) /\ Len(tx_sm_opp_hd) \in Nat /\ Len(tx_sm_opp_hd) <= MAX_SEC_TX_Q
  BY LenProperties DEF SecTxTypeOK
<1>6. CASE SmRests(k)
  <2>1. SmTypes'
    BY <1>3, <1>5, <1>6, SecTxAssumption DEF SmTypes, SmRests, SecTxTypeOK, Stas
  <2>2. InWork' /\ RestsEmpty' /\ RequestIsTimed'
    BY <1>6 DEF SmRests, InWork, RestsEmpty, RequestIsTimed, NonceIsExpected
  <2> QED
    BY <1>4, <2>1, <2>2 DEF SmInv
<1>7. CASE SmGoesOn(k)
  <2> DEFINE m == tx_sm_opp_hd[k + 1]
  <2>1. m \in Msgs /\ ~ TooLong(m) /\ tx_sm_cb' = m /\ tx_sm_nodeid' = m.node /\ SmStart(m)
    BY <1>7 DEF SmGoesOn
  <2>2. /\ tx_sm_opp_hd' \in Seq(Msgs) /\ Len(tx_sm_opp_hd') = Len(tx_sm_opp_hd) - (k + 1)
        /\ Len(tx_sm_opp_hd') <= MAX_SEC_TX_Q
    <3>1. \A i \in k + 2 .. Len(tx_sm_opp_hd) : tx_sm_opp_hd[i] \in Msgs
      BY <1>5, ElementOfSeq
    <3>2. k < Len(tx_sm_opp_hd) /\ tx_sm_opp_hd' = SubSeq(tx_sm_opp_hd, k + 2, Len(tx_sm_opp_hd))
      BY <1>7 DEF SmGoesOn
    <3> QED
      BY <1>5, <3>1, <3>2, SubSeqProperties, SecTxAssumption
  <2>3. tx_sm_q_cnt' = Len(tx_sm_opp_hd')
    BY <1>7, <2>2 DEF SmGoesOn
  <2> HIDE DEF m
  <2>4. m.node \in Nodes
    BY <2>1, MsgFields
  <2>5. SmTypes'
    BY <1>3, <2>1, <2>2, <2>3, <2>4, SmStartKeeps DEF SmTypes
  <2>6. InWork' /\ RestsEmpty' /\ RequestIsTimed'
    BY <2>1, SmStartKeeps DEF InWork, FirstToSend, RestsEmpty, RequestIsTimed, TooLong
  <2> QED
    BY <1>4, <2>5, <2>6 DEF SmInv
<1> QED
  BY <1>1, <1>6, <1>7

---------------------------------------------------------------------------
(* Each step keeps the types and the invariant of the state machine.       *)

\* The types of what the callback thread, the environment and the timers have.
OtherTypes ==
  /\ tx_sm_2nd_frm \in Msgs \cup {NoMsg}
  /\ tmout_thrds \subseteq Nonces
  /\ ext_nonce \in [valid : BOOLEAN, expired : BOOLEAN,
                    nonce : Nonces \cup {NoNonce}, snd_nodeid : Nodes \cup {NoNode}]
  /\ rpt_hdlr \in Nodes \cup {NoNode}
  /\ cb_q \in Seq([call : Calls, ok : BOOLEAN] \cup Nonces)
  /\ made \subseteq Nonces /\ reports \subseteq made
  /\ sent \subseteq [msg : Msgs, part : {1, 2}, nonce : Nonces, zero_key : BOOLEAN]

LEMMA TypesSplit == SecTxTypeOK => SmTypes /\ OtherTypes
BY DEF SecTxTypeOK, SmTypes, OtherTypes

LEMMA TypesJoin == SmTypes' /\ OtherTypes' => SecTxTypeOK'
BY DEF SecTxTypeOK, SmTypes, OtherTypes

\* A step that leaves the machine and what it has sent alone keeps its invariant.
LEMMA SmUntouched ==
  ASSUME SmInv, UNCHANGED <<sm_vars, q_vars, sent, outcome>>, tmout_thrds \subseteq tmout_thrds'
  PROVE  SmInv'
<1>1. InWork' /\ OkMeansSent' /\ RestsEmpty'
  BY DEF SmInv, sm_vars, q_vars, InWork, FirstToSend, SecondToSend, NothingToSend, AllSent,
         FrameSent, OkMeansSent, RestsEmpty
<1>2. RequestIsTimed'
  BY DEF SmInv, sm_vars, RequestIsTimed, NonceIsExpected
<1> QED
  BY <1>1, <1>2 DEF SmInv

LEMMA SendKeepsSm ==
  ASSUME SecTxTypeOK, SmInv, NEW m \in Msgs, zwsec_send(m)
  PROVE  SecTxTypeOK' /\ SmInv'
<1>1. UNCHANGED <<tx_sm_2nd_frm, tmout_thrds, ext_nonce, rpt_hdlr, cb_q, made, reports, sent>>
  BY DEF zwsec_send
<1>2. OtherTypes' /\ SmTypes
  BY <1>1, TypesSplit DEF OtherTypes
<1>3. tx_sm_opp_hd \in Seq(Msgs) /\ Len(tx_sm_opp_hd) \in Nat
  BY <1>2, LenProperties DEF SmTypes
<1>4. ASSUME NEW s \in {"refused", "accepted"}, outcome' = [outcome EXCEPT ![m] = s]
      PROVE  /\ OkMeansSent'
             /\ outcome' \in [Msgs -> {"new", "refused", "accepted", "ok", "error"}]
  BY <1>1, <1>2, <1>4 DEF SmTypes, SmInv, OkMeansSent
<1>5. CASE SendQueued(m)
  <2>1. /\ tx_sm_opp_hd' \in Seq(Msgs) /\ Len(tx_sm_opp_hd') = Len(tx_sm_opp_hd) + 1
        /\ Len(tx_sm_opp_hd') <= MAX_SEC_TX_Q /\ tx_sm_q_cnt' = Len(tx_sm_opp_hd')
    BY <1>2, <1>3, <1>5, AppendProperties, SecTxAssumption DEF SendQueued, QHasRoom, SmTypes
  <2>2. SmTypes'
    BY <1>2, <1>4, <1>5, <2>1 DEF SendQueued, SmTypes, sm_vars
  <2>3. InWork' /\ RestsEmpty' /\ RequestIsTimed'
    BY <1>1, <1>5 DEF SendQueued, sm_vars, SmInv, InWork, FirstToSend, SecondToSend,
                      NothingToSend, AllSent, FrameSent, RestsEmpty, RequestIsTimed,
                      NonceIsExpected
  <2>4. OkMeansSent'
    BY <1>4, <1>5 DEF SendQueued
  <2> QED
    BY <1>2, <2>2, <2>3, <2>4, TypesJoin DEF SmInv
<1>6. CASE SendRefused(m)
  <2>1. SmTypes' /\ OkMeansSent'
    BY <1>2, <1>4, <1>6 DEF SendRefused, SmTypes, sm_vars, q_vars
  <2>2. InWork' /\ RestsEmpty' /\ RequestIsTimed'
    BY <1>1, <1>6 DEF SendRefused, sm_vars, q_vars, SmInv, InWork, FirstToSend, SecondToSend,
                      NothingToSend, AllSent, FrameSent, RestsEmpty, RequestIsTimed,
                      NonceIsExpected
  <2> QED
    BY <1>2, <2>1, <2>2, TypesJoin DEF SmInv
<1>7. CASE SendStarted(m)
  <2>1. /\ tx_sm_sta = "IDLE" /\ tx_sm_nodeid' = m.node /\ tx_sm_cb' = m
        /\ tx_sm_opp_hd' = tx_sm_opp_hd /\ tx_sm_q_cnt' = tx_sm_q_cnt /\ m.node \in Nodes
    BY <1>7, MsgFields DEF SendStarted, q_vars
  <2>2. CASE StartOk(m) /\ SmStart(m) /\ outcome' = [outcome EXCEPT ![m] = "accepted"]
    <3>1. SmTypes' /\ OkMeansSent'
      BY <1>2, <1>4, <2>1, <2>2, SmStartKeeps DEF SmTypes
    <3>2. InWork' /\ RestsEmpty' /\ RequestIsTimed'
      BY <2>1, <2>2, SmStartKeeps
         DEF StartOk, InWork, FirstToSend, RestsEmpty, RequestIsTimed, TooLong
    <3> QED
      BY <1>2, <3>1, <3>2, TypesJoin DEF SmInv
  <2>3. CASE /\ StartErr(m) /\ outcome' = [outcome EXCEPT ![m] = "refused"]
             /\ SmSave(<<m>>, tx_sm_opp) /\ UNCHANGED <<tx_sm_sta, tx_sm_tmr_ctx, tx_wait>>
    <3>1. tx_sm_opp' \in Msgs \cup {NoMsg} /\ tx_sm_use_0_key' \in BOOLEAN
      BY <1>2, <2>3, MsgFields DEF SmSave, SmTypes
    <3>2. SmTypes' /\ OkMeansSent'
      BY <1>2, <1>4, <2>1, <2>3, <3>1 DEF SmTypes
    <3>3. InWork' /\ RestsEmpty' /\ RequestIsTimed'
      BY <2>1, <2>3 DEF SmInv, InWork, RestsEmpty, RequestIsTimed, NonceIsExpected
    <3> QED
      BY <1>2, <3>2, <3>3, TypesJoin DEF SmInv
  <2> QED
    BY <1>7, <2>2, <2>3 DEF SendStarted
<1> QED
  BY <1>5, <1>6, <1>7 DEF zwsec_send

\* The status at the head of the queue is taken from it.
LEMMA HeadTaken ==
  ASSUME OtherTypes, cb_q # <<>>, cb_q' = Tail(cb_q)
  PROVE  cb_q' \in Seq([call : Calls, ok : BOOLEAN] \cup Nonces)
BY HeadTailProperties DEF OtherTypes

LEMMA StsKeepsSm ==
  ASSUME SecTxTypeOK, SmInv, zwsec_tx_sts_cb
  PROVE  SecTxTypeOK' /\ SmInv'
<1> DEFINE node == Head(cb_q).call.msg.node
           ok == Head(cb_q).ok
<1>1. /\ cb_q # <<>> /\ cb_q' = Tail(cb_q) /\ StsEvent(node, ok)
      /\ UNCHANGED <<tmout_thrds, ext_nonce, rpt_hdlr, made, reports, sent>>
  BY DEF zwsec_tx_sts_cb
<1>2. SmTypes /\ OtherTypes
  BY TypesSplit
<1>3. UNCHANGED tx_sm_2nd_frm
  BY <1>1 DEF StsEvent, sm_vars
<1>4. OtherTypes'
  BY <1>1, <1>2, <1>3, HeadTaken DEF OtherTypes
<1> HIDE DEF node, ok
<1>5. CASE UNCHANGED <<sm_vars, q_vars, tx_wait, outcome>>
  <2>1. SmTypes'
    BY <1>2, <1>5 DEF SmTypes, sm_vars, q_vars
  <2>2. SmInv'
    BY <1>1, <1>5, SmUntouched
  <2> QED
    BY <1>4, <2>1, <2>2, TypesJoin
<1>6. CASE ~ (node # tx_sm_nodeid \/ tx_sm_sta \in {"IDLE", "WAIT_NONCE"})
  <2>1. tx_sm_sta \in {"WAIT_GET_NONCE_TX_STS", "WAIT_SPP_TX_STS"}
    BY <1>2, <1>6 DEF SmTypes, Stas
  <2>2. tx_sm_cb \in Msgs /\ tx_sm_opp \in Msgs \cup {NoMsg}
    BY <1>2, <2>1 DEF SmInv, InWork, SmTypes
  <2>3. CASE /\ ok /\ (tx_sm_sta = "WAIT_GET_NONCE_TX_STS" \/ tx_sm_2nd_frm # NoMsg)
             /\ tx_sm_sta' = "WAIT_NONCE"
             /\ UNCHANGED <<tx_sm_nodeid, tx_sm_cb, tx_sm_opp, tx_sm_use_0_key, tx_sm_tmr_ctx,
                            q_vars, tx_wait, outcome>>
    <3>1. SmTypes'
      BY <1>2, <2>3 DEF SmTypes, q_vars, Stas
    <3>2. FirstToSend \/ SecondToSend
      BY <2>1, <2>3 DEF SmInv, InWork, NothingToSend
    <3>3. InWork'
      BY <1>1, <1>3, <2>1, <2>3, <3>2
         DEF SmInv, InWork, FirstToSend, SecondToSend, FrameSent
    <3>4. RestsEmpty' /\ RequestIsTimed'
      BY <1>1, <2>1, <2>3 DEF SmInv, RestsEmpty, RequestIsTimed, NonceIsExpected
    <3>5. OkMeansSent'
      BY <1>1, <2>3 DEF SmInv, OkMeansSent
    <3> QED
      BY <1>4, <3>1, <3>3, <3>4, <3>5, TypesJoin DEF SmInv
  <2>4. CASE ok /\ tx_sm_sta = "WAIT_SPP_TX_STS" /\ tx_sm_2nd_frm = NoMsg /\ SmNext("ok", tx_sm_opp)
    <3>1. AllSent(tx_sm_cb)
      BY <2>2, <2>4, SecTxAssumption DEF SmInv, InWork, SecondToSend, NothingToSend
    <3>2. SmTypes' /\ SmInv'
      <4>1. SmNext("ok", tx_sm_opp)
        BY <2>4
      <4> QED
        BY <1>1, <2>2, <3>1, <4>1, SmNextKeeps DEF SmInv
    <3> QED
      BY <1>4, <3>2, TypesJoin
  <2>5. CASE SmNext("error", tx_sm_opp)
    <3>1. SmTypes' /\ SmInv'
      BY <1>1, <2>2, <2>5, SmNextKeeps DEF SmInv
    <3> QED
      BY <1>4, <3>1, TypesJoin
  <2> QED
    BY <1>1, <1>6, <2>3, <2>4, <2>5 DEF StsEvent
<1> QED
  BY <1>1, <1>5, <1>6 DEF StsEvent

LEMMA TmoutKeepsSm ==
  ASSUME SecTxTypeOK, SmInv, NEW t \in Nonces, zwsec_nonce_tmout_cb(t)
  PROVE  SecTxTypeOK' /\ SmInv'
<1>1. UNCHANGED <<tx_sm_2nd_frm, ext_nonce, rpt_hdlr, cb_q, made, reports, sent>>
      /\ tmout_thrds' = tmout_thrds \ {t}
  BY DEF zwsec_nonce_tmout_cb
<1>2. SmTypes /\ OtherTypes
  BY TypesSplit
<1>3. OtherTypes'
  BY <1>1, <1>2 DEF OtherTypes
<1>4. CASE tx_sm_sta = "IDLE"
  <2>1. tx_sm_tmr_ctx' = NoNonce
        /\ UNCHANGED <<tx_sm_sta, tx_sm_nodeid, tx_sm_cb, tx_sm_opp, tx_sm_use_0_key, q_vars,
                       tx_wait, outcome>>
    BY <1>4 DEF zwsec_nonce_tmout_cb
  <2>2. SmTypes'
    BY <1>2, <2>1 DEF SmTypes, q_vars
  <2>3. SmInv'
    BY <1>1, <1>4, <2>1 DEF SmInv, InWork, RestsEmpty, RequestIsTimed, NonceIsExpected,
                            OkMeansSent, q_vars
  <2> QED
    BY <1>3, <2>2, <2>3, TypesJoin
<1>5. CASE tx_sm_sta # "IDLE"
  <2>1. SmNext("error", tx_sm_opp)
    BY <1>5 DEF zwsec_nonce_tmout_cb
  <2>2. tx_sm_cb \in Msgs /\ tx_sm_opp \in Msgs \cup {NoMsg}
    BY <1>2, <1>5 DEF SmInv, InWork, SmTypes
  <2>3. SmTypes' /\ SmInv'
    BY <1>1, <2>1, <2>2, SmNextKeeps DEF SmInv
  <2> QED
    BY <1>3, <2>3, TypesJoin
<1> QED
  BY <1>4, <1>5

\* The frame that is sent is the one that is due, of the message in work.
LEMMA SppTxKeepsSm ==
  ASSUME SecTxTypeOK, SmInv, tx_sm_sta = "WAIT_NONCE", NEW part \in {1, 2},
         part = 1 => FirstToSend, part = 2 => SecondToSend,
         ext_nonce.nonce \in Nonces, UNCHANGED tmout_thrds,
         SppTx(tx_sm_cb, part, part = 1 /\ tx_sm_use_0_key)
  PROVE  SmTypes' /\ SmInv' /\ tx_sm_2nd_frm' \in Msgs \cup {NoMsg}
         /\ sent' \subseteq [msg : Msgs, part : {1, 2}, nonce : Nonces, zero_key : BOOLEAN]
<1> DEFINE m == tx_sm_cb
           zero_key == part = 1 /\ tx_sm_use_0_key
           f == [msg |-> m, part |-> part, nonce |-> ext_nonce.nonce, zero_key |-> zero_key]
<1>1. SmTypes /\ OtherTypes
  BY TypesSplit
<1>2. m \in Msgs /\ ~ TooLong(m) /\ NoMsg \notin Msgs /\ m.frames \in {1, 2}
      /\ (m.zero_key => Short(m)) /\ m.zero_key \in BOOLEAN
  BY SecTxAssumption DEF SmInv, InWork, TooLong
<1>3. /\ tx_wait' = {[msg |-> m, what |-> part]} /\ sent' = sent \cup {f}
      /\ tx_sm_opp' = NoMsg /\ tx_sm_2nd_frm' = SecondFrame(m, part)
      /\ tx_sm_tmr_ctx' = SppTmr(m, part) /\ tx_sm_sta' = "WAIT_SPP_TX_STS"
      /\ UNCHANGED <<tx_sm_nodeid, tx_sm_cb, tx_sm_use_0_key, q_vars, outcome>>
  BY DEF SppTx
<1>4. zero_key = m.zero_key /\ zero_key \in BOOLEAN
  <2>1. CASE part = 1
    BY <1>2, <2>1 DEF FirstToSend
  <2>2. CASE part = 2
    BY <1>2, <2>2 DEF SecondToSend
  <2> QED
    BY <2>1, <2>2
<1>5. f \in [msg : Msgs, part : {1, 2}, nonce : Nonces, zero_key : BOOLEAN]
  BY <1>2, <1>4
<1>6. FrameSent(m, part)'
  <2>1. f \in sent' /\ f.msg = m /\ f.part = part /\ f.zero_key = m.zero_key
    BY <1>3, <1>4
  <2>2. m' = m
    BY <1>3
  <2> QED
    BY <2>1, <2>2 DEF FrameSent
<1> HIDE DEF f, zero_key
<1>7. sent \subseteq sent'
  BY <1>3
<1>8. InWork'
  <2>1. CASE part = 1 /\ Short(m)
    <3>1. tx_sm_2nd_frm' = NoMsg /\ m.frames = 1
      BY <1>3, <2>1 DEF SecondFrame, Short
    <3>2. AllSent(m)'
      BY <1>3, <1>6, <2>1, <3>1 DEF AllSent
    <3> QED
      BY <1>2, <1>3, <3>1, <3>2 DEF SmInv, InWork, NothingToSend, TooLong
  <2>2. CASE part = 1 /\ ~ Short(m)
    <3>1. tx_sm_2nd_frm' = m
      BY <1>3, <2>2 DEF SecondFrame
    <3>2. SecondToSend'
      BY <1>3, <1>6, <2>2, <3>1 DEF SecondToSend, Short
    <3> QED
      BY <1>2, <1>3, <3>2 DEF SmInv, InWork, TooLong
  <2>3. CASE part = 2
    <3>1. tx_sm_2nd_frm' = NoMsg /\ SecondToSend
      BY <1>3, <2>3 DEF SecondFrame
    <3>2. FrameSent(m, 1)'
      BY <1>3, <1>7, <3>1 DEF SecondToSend, FrameSent
    <3>3. AllSent(m)'
      BY <1>2, <1>3, <1>6, <2>3, <3>2 DEF AllSent
    <3> QED
      BY <1>2, <1>3, <3>1, <3>3 DEF SmInv, InWork, NothingToSend, TooLong
  <2> QED
    BY <2>1, <2>2, <2>3
<1>9. RestsEmpty' /\ RequestIsTimed'
  <2>1. tx_sm_2nd_frm' # NoMsg => tx_sm_tmr_ctx' # NoNonce
    <3>1. [msg |-> m, part |-> 2] \in Nonces /\ NoNonce \notin Nonces
      BY <1>2, SecTxAssumption DEF Nonces
    <3> QED
      BY <1>3, <3>1 DEF SppTmr
  <2> QED
    BY <1>3, <2>1 DEF RestsEmpty, RequestIsTimed, NonceIsExpected
<1>10. OkMeansSent'
  <2> SUFFICES ASSUME NEW x \in Msgs, outcome'[x] = "ok"
               PROVE  AllSent(x)'
    BY DEF OkMeansSent, AllSent, FrameSent
  <2>1. AllSent(x)
    BY <1>3 DEF SmInv, OkMeansSent, AllSent, FrameSent
  <2> QED
    BY <1>7, <2>1, SentRemains
<1>11. SmTypes'
  <2>1. [msg |-> m, what |-> part] \in Calls
    BY <1>2 DEF Calls
  <2>2. SppTmr(m, part) \in Nonces \cup {NoNonce}
    BY <1>2 DEF SppTmr, Nonces
  <2>3. Cardinality({[msg |-> m, what |-> part]}) = 1
    BY FS_Singleton
  <2> QED
    BY <1>1, <1>3, <2>1, <2>2, <2>3 DEF SmTypes, q_vars, Stas
<1>12. tx_sm_2nd_frm' \in Msgs \cup {NoMsg}
  BY <1>2, <1>3 DEF SecondFrame
<1> QED
  BY <1>1, <1>3, <1>5, <1>8, <1>9, <1>10, <1>11, <1>12 DEF SmInv, OtherTypes

LEMMA RptKeepsSm ==
  ASSUME SecTxTypeOK, SmInv, StoredIsUnused, zwsec_nonce_rpt_hdlr, cb_q # <<>>
  PROVE  SecTxTypeOK' /\ SmInv'
<1>1. /\ rpt_hdlr' = NoNode /\ cb_q' = Tail(cb_q) /\ NonceEvent(rpt_hdlr)
      /\ UNCHANGED <<tmout_thrds, made, reports>>
  BY DEF zwsec_nonce_rpt_hdlr
<1>2. SmTypes /\ OtherTypes
  BY TypesSplit
<1>3. cb_q' \in Seq([call : Calls, ok : BOOLEAN] \cup Nonces)
  BY <1>1, <1>2, HeadTaken
<1>4. ASSUME tx_sm_2nd_frm' \in Msgs \cup {NoMsg}, ext_nonce' = ext_nonce \/ InvalidateNonce,
             sent' \subseteq [msg : Msgs, part : {1, 2}, nonce : Nonces, zero_key : BOOLEAN]
      PROVE  OtherTypes'
  BY <1>1, <1>2, <1>3, <1>4 DEF OtherTypes, InvalidateNonce
<1>5. CASE rpt_hdlr # tx_sm_nodeid \/ tx_sm_sta # "WAIT_NONCE"
  <2>1. UNCHANGED <<sm_vars, q_vars, tx_wait, sent, outcome, ext_nonce>>
    BY <1>1, <1>5 DEF NonceEvent
  <2>2. SmTypes'
    BY <1>2, <2>1 DEF SmTypes, sm_vars, q_vars
  <2>3. OtherTypes'
    BY <1>2, <1>4, <2>1 DEF sm_vars, OtherTypes
  <2>4. SmInv'
    BY <1>1, <2>1, SmUntouched
  <2> QED
    BY <2>2, <2>3, <2>4, TypesJoin
<1>6. CASE rpt_hdlr = tx_sm_nodeid /\ tx_sm_sta = "WAIT_NONCE"
  <2> DEFINE part == IF tx_sm_opp # NoMsg THEN 1 ELSE 2
             m == IF part = 1 THEN tx_sm_opp ELSE tx_sm_2nd_frm
  <2>1. tx_sm_cb \in Msgs /\ NoMsg \notin Msgs /\ tx_sm_opp \in Msgs \cup {NoMsg}
    BY <1>2, <1>6, SecTxAssumption DEF SmInv, InWork, SmTypes
  <2>2. FirstToSend \/ SecondToSend
    BY <1>6 DEF SmInv, InWork
  <2>3. m = tx_sm_cb /\ part \in {1, 2} /\ (part = 1 => FirstToSend) /\ (part = 2 => SecondToSend)
    BY <2>1, <2>2 DEF FirstToSend, SecondToSend
  <2>4. IF NonceAtHand(rpt_hdlr)
        THEN InvalidateNonce
             /\ (SppTx(m, part, part = 1 /\ tx_sm_use_0_key) \/ SppFails(m, part))
        ELSE SmNext("error", tx_sm_opp) /\ UNCHANGED <<tx_sm_2nd_frm, ext_nonce, sent>>
    BY <1>1, <1>6 DEF NonceEvent
  <2> HIDE DEF part, m
  <2>5. CASE ~ NonceAtHand(rpt_hdlr)
    <3>1. SmNext("error", tx_sm_opp) /\ UNCHANGED <<tx_sm_2nd_frm, ext_nonce, sent>>
      BY <2>4, <2>5
    <3>2. SmTypes' /\ SmInv'
      BY <2>1, <3>1, SmNextKeeps DEF SmInv
    <3>3. OtherTypes'
      BY <1>2, <1>4, <3>1 DEF OtherTypes
    <3> QED
      BY <3>2, <3>3, TypesJoin
  <2>6. CASE NonceAtHand(rpt_hdlr) /\ SppTx(m, part, part = 1 /\ tx_sm_use_0_key)
    <3>1. ext_nonce.nonce \in Nonces
      BY <2>6 DEF NonceAtHand, StoredIsUnused
    <3>2. SmTypes' /\ SmInv' /\ tx_sm_2nd_frm' \in Msgs \cup {NoMsg}
          /\ sent' \subseteq [msg : Msgs, part : {1, 2}, nonce : Nonces, zero_key : BOOLEAN]
      BY <1>1, <1>6, <2>3, <2>6, <3>1, SppTxKeepsSm
    <3>3. OtherTypes'
      BY <1>4, <2>4, <2>6, <3>2
    <3> QED
      BY <3>2, <3>3, TypesJoin
  <2>7. CASE NonceAtHand(rpt_hdlr) /\ SppFails(m, part)
    <3>1. PICK opp \in Msgs \cup {NoMsg} : SmNext("error", opp)
      BY <2>1, <2>7 DEF SppFails
    <3>2. UNCHANGED sent /\ tx_sm_2nd_frm' \in Msgs \cup {NoMsg}
      BY <2>1, <2>3, <2>7 DEF SppFails, SecondFrame
    <3>3. SmTypes' /\ SmInv'
      BY <2>1, <3>1, <3>2, SmNextKeeps DEF SmInv
    <3>4. OtherTypes'
      BY <1>2, <1>4, <2>4, <2>7, <3>2 DEF OtherTypes
    <3> QED
      BY <3>3, <3>4, TypesJoin
  <2> QED
    BY <2>4, <2>5, <2>6, <2>7
<1> QED
  BY <1>5, <1>6

\* The steps that do not concern the machine: a nonce is stored or expires, and
\* frames come from the air.
OtherStep ==
  \/ zwsec_enonce_put \/ ExtNonceExpires \/ zwsec_tmout_cb
  \/ StatusFrame \/ RequestHeard \/ ReportArrives

LEMMA OthersKeepSm ==
  ASSUME SecTxTypeOK, SmInv, OtherStep
  PROVE  SecTxTypeOK' /\ SmInv'
<1>1. SmTypes /\ OtherTypes
  BY TypesSplit
<1>2. UNCHANGED <<sm_vars, q_vars, sent, outcome, tmout_thrds>>
  BY DEF OtherStep, zwsec_enonce_put, ExtNonceExpires, zwsec_tmout_cb, StatusFrame,
         RequestHeard, ReportArrives, env_vars
<1>3. SmInv'
  BY <1>2, SmUntouched
<1>4. ASSUME tx_wait' = tx_wait \/ tx_wait' = {}
      PROVE  SmTypes'
  <2>1. Cardinality({}) = 0
    BY FS_EmptySet
  <2>2. tx_wait' \subseteq Calls /\ Cardinality(tx_wait') <= 1
    <3>1. CASE tx_wait' = tx_wait
      BY <1>1, <3>1 DEF SmTypes
    <3>2. CASE tx_wait' = {}
      BY <2>1, <3>2
    <3> QED
      BY <1>4, <3>1, <3>2
  <2> QED
    BY <1>1, <1>2, <2>2 DEF SmTypes, sm_vars, q_vars
<1>5. ASSUME NEW e \in [call : Calls, ok : BOOLEAN] \cup Nonces, cb_q' = Append(cb_q, e)
      PROVE  cb_q' \in Seq([call : Calls, ok : BOOLEAN] \cup Nonces)
  BY <1>1, <1>5, AppendProperties DEF OtherTypes
<1>6. CASE zwsec_enonce_put
  <2>1. PICK n \in Nonces :
          /\ ext_nonce' = IF Storable(n)
                          THEN [valid |-> TRUE, expired |-> FALSE, nonce |-> n,
                                snd_nodeid |-> n.msg.node]
                          ELSE ext_nonce
          /\ rpt_hdlr' = n.msg.node
    BY <1>6 DEF zwsec_enonce_put
  <2>2. n.msg.node \in Nodes
    BY MsgFields DEF Nonces
  <2>3. UNCHANGED <<env_vars, cb_q>>
    BY <1>6 DEF zwsec_enonce_put
  <2>4. OtherTypes'
    BY <1>1, <1>2, <2>1, <2>2, <2>3 DEF OtherTypes, sm_vars, env_vars
  <2> QED
    BY <1>3, <1>4, <2>3, <2>4, TypesJoin DEF env_vars
<1>7. CASE ExtNonceExpires \/ zwsec_tmout_cb
  <2>1. /\ UNCHANGED <<env_vars, rpt_hdlr, cb_q>>
        /\ \/ ext_nonce' = [ext_nonce EXCEPT !.expired = TRUE]
           \/ ext_nonce' = [ext_nonce EXCEPT !.valid = FALSE]
    BY <1>7 DEF ExtNonceExpires, zwsec_tmout_cb, InvalidateNonce
  <2>2. OtherTypes'
    BY <1>1, <1>2, <2>1 DEF OtherTypes, sm_vars, env_vars
  <2> QED
    BY <1>3, <1>4, <2>1, <2>2, TypesJoin DEF env_vars
<1>8. CASE StatusFrame
  <2>1. PICK c \in tx_wait, ok \in BOOLEAN :
          /\ tx_wait' = {} /\ cb_q' = Append(cb_q, [call |-> c, ok |-> ok])
          /\ UNCHANGED <<ext_nonce, rpt_hdlr, made, reports>>
    BY <1>8 DEF StatusFrame
  <2>2. [call |-> c, ok |-> ok] \in [call : Calls, ok : BOOLEAN]
    BY <1>1 DEF SmTypes
  <2>3. OtherTypes'
    BY <1>1, <1>2, <1>5, <2>1, <2>2 DEF OtherTypes, sm_vars
  <2> QED
    BY <1>3, <1>4, <2>1, <2>3, TypesJoin
<1>9. CASE RequestHeard
  <2>1. PICK c \in tx_wait :
          LET n == [msg |-> c.msg, part |-> IF c.what = 1 THEN 2 ELSE 1]
          IN  /\ made' = made \cup {n} /\ reports' = reports \cup {n}
              /\ UNCHANGED <<tx_wait, ext_nonce, rpt_hdlr, cb_q>>
    BY <1>9 DEF RequestHeard
  <2>2. [msg |-> c.msg, part |-> IF c.what = 1 THEN 2 ELSE 1] \in Nonces
    BY <1>1 DEF SmTypes, Calls, Nonces
  <2>3. OtherTypes'
    BY <1>1, <1>2, <2>1, <2>2 DEF OtherTypes, sm_vars
  <2> QED
    BY <1>3, <1>4, <2>1, <2>3, TypesJoin
<1>10. CASE ReportArrives
  <2>1. PICK n \in reports \cup ({ext_nonce.nonce} \cap Nonces) :
          /\ reports' = reports \ {n} /\ cb_q' = Append(cb_q, n)
          /\ UNCHANGED <<tx_wait, made, ext_nonce, rpt_hdlr>>
    BY <1>10 DEF ReportArrives
  <2>2. n \in Nonces
    BY <1>1 DEF OtherTypes
  <2>3. OtherTypes'
    BY <1>1, <1>2, <1>5, <2>1, <2>2 DEF OtherTypes, sm_vars
  <2> QED
    BY <1>3, <1>4, <2>1, <2>3, TypesJoin
<1> QED
  BY <1>6, <1>7, <1>8, <1>9, <1>10 DEF OtherStep

LEMMA TmrKeepsSm ==
  ASSUME SecTxTypeOK, SmInv, TxTmrExpires
  PROVE  SecTxTypeOK' /\ SmInv'
<1>1. /\ tx_sm_tmr_ctx # NoNonce /\ tmout_thrds' = tmout_thrds \cup {tx_sm_tmr_ctx}
      /\ tx_sm_tmr_ctx' = NoNonce
      /\ UNCHANGED <<tx_sm_sta, tx_sm_nodeid, tx_sm_cb, tx_sm_opp, tx_sm_2nd_frm,
                     tx_sm_use_0_key, q_vars, env_vars, ext_nonce, rpt_hdlr, cb_q, outcome>>
  BY DEF TxTmrExpires
<1>2. SmTypes /\ OtherTypes
  BY TypesSplit
<1>3. SmTypes' /\ OtherTypes'
  BY <1>1, <1>2 DEF SmTypes, OtherTypes, q_vars, env_vars
<1>4. InWork' /\ OkMeansSent' /\ RestsEmpty'
  BY <1>1 DEF SmInv, q_vars, env_vars, InWork, FirstToSend, SecondToSend, NothingToSend,
              AllSent, FrameSent, OkMeansSent, RestsEmpty
<1>5. RequestIsTimed'
  BY <1>1 DEF RequestIsTimed
<1> QED
  BY <1>3, <1>4, <1>5, TypesJoin DEF SmInv

---------------------------------------------------------------------------
(* Each step keeps the invariant of the nonces.                            *)

\* A status is not a nonce.
LEMMA StatusNotNonce == \A c \in [call : Calls, ok : BOOLEAN] : c \notin Nonces
BY DEF Nonces

\* Steps that at most invalidate the nonce that is stored.
LEMMA NonceUntouched ==
  ASSUME NonceInv, UNCHANGED <<sent, cb_q, reports, made, rpt_hdlr>>,
         ext_nonce'.nonce = ext_nonce.nonce, ext_nonce'.snd_nodeid = ext_nonce.snd_nodeid,
         ext_nonce'.valid => ext_nonce.valid
  PROVE  NonceInv'
<1>1. \A n : /\ Unused(n)' <=> Unused(n)
             /\ Stored(n)' <=> Stored(n)
             /\ InQueue(n)' <=> InQueue(n)
  BY DEF Unused, Stored, InQueue
<1>2. StoredIsUnused'
  BY DEF NonceInv, StoredIsUnused, Unused
<1>3. QueueIsNew'
  BY DEF NonceInv, QueueIsNew, Unused, Stored
<1>4. ReportsAreNew' /\ MadeFirst'
  BY DEF NonceInv, ReportsAreNew, MadeFirst, Unused, Stored, InQueue
<1>5. BeingHandled'
  BY DEF NonceInv, BeingHandled, Stored
<1>6. NonceUsedOnce'
  BY DEF NonceInv, NonceUsedOnce
<1> QED
  BY <1>2, <1>3, <1>4, <1>5, <1>6 DEF NonceInv

\* The head of the queue has been handled: a status, or the nonce that is stored,
\* which may have been used.
LEMMA HeadHandled ==
  ASSUME OtherTypes, NonceInv, cb_q # <<>>, cb_q' = Tail(cb_q), rpt_hdlr' = NoNode,
         UNCHANGED <<made, reports>>,
         ext_nonce'.nonce = ext_nonce.nonce, ext_nonce'.snd_nodeid = ext_nonce.snd_nodeid,
         ext_nonce'.valid => ext_nonce.valid,
         \/ UNCHANGED sent
         \/ /\ Head(cb_q) \in Nonces /\ Stored(Head(cb_q)) /\ ~ ext_nonce'.valid
            /\ NonceUsedOnce' /\ \A f \in sent' : f \in sent \/ f.nonce = ext_nonce.nonce
  PROVE  NonceInv'
<1>1. /\ Len(cb_q) \in Nat /\ Len(cb_q) > 0 /\ Len(cb_q') = Len(cb_q) - 1 /\ Head(cb_q) = cb_q[1]
      /\ \A i \in 1 .. Len(cb_q') : cb_q'[i] = cb_q[i + 1] /\ i + 1 \in 1 .. Len(cb_q)
  <2>1. cb_q \in Seq([call : Calls, ok : BOOLEAN] \cup Nonces)
    BY DEF OtherTypes
  <2>2. Len(cb_q) \in Nat /\ Len(cb_q) # 0
    BY <2>1, LenProperties, EmptySeq
  <2>3. Len(cb_q') = Len(cb_q) - 1 /\ \A i \in 1 .. Len(cb_q') : cb_q'[i] = cb_q[i + 1]
    BY <2>1, HeadTailProperties
  <2>4. Head(cb_q) = cb_q[1]
    BY <2>1
  <2> QED
    BY <2>2, <2>3, <2>4
<1>2. ASSUME NEW n, InQueue(n)'
      PROVE  InQueue(n)
  BY <1>1, <1>2 DEF InQueue
<1>3. ASSUME NEW n, Unused(n), ~ Stored(n)
      PROVE  Unused(n)'
  BY <1>3 DEF Unused, Stored
<1>4. ASSUME NEW n
      PROVE  Stored(n)' <=> Stored(n)
  BY DEF Stored
<1>5. StoredIsUnused'
  BY DEF NonceInv, StoredIsUnused, Unused
<1>6. QueueIsNew'
  <2> SUFFICES ASSUME NEW i \in 1 .. Len(cb_q'), cb_q'[i] \in Nonces
               PROVE  /\ \A j \in 1 .. i - 1 : cb_q'[j] # cb_q'[i]
                      /\ IF ext_nonce'.nonce = cb_q'[i]
                         THEN \A j \in 1 .. i - 1 : cb_q'[j] \notin Nonces
                         ELSE \A f \in sent' : f.nonce # cb_q'[i]
    BY DEF QueueIsNew, Unused, Stored
  <2> DEFINE n == cb_q[i + 1]
  <2>1. /\ n = cb_q'[i] /\ n \in Nonces /\ i + 1 \in 1 .. Len(cb_q)
        /\ \A j \in 1 .. i : j \in 1 .. (i + 1) - 1
        /\ \A j \in 1 .. i - 1 : j + 1 \in 1 .. i /\ cb_q'[j] = cb_q[j + 1]
    BY <1>1
  <2>2. /\ \A j \in 1 .. i : cb_q[j] # n
        /\ IF Stored(n) THEN \A j \in 1 .. i : cb_q[j] \notin Nonces ELSE Unused(n)
    BY <2>1 DEF NonceInv, QueueIsNew
  <2>3. \A j \in 1 .. i - 1 : cb_q'[j] # n
    BY <2>1, <2>2
  <2> HIDE DEF n
  <2>4. CASE Stored(n)
    <3>1. \A j \in 1 .. i - 1 : cb_q'[j] \notin Nonces
      BY <2>1, <2>2, <2>4
    <3>2. ext_nonce'.nonce = n
      BY <2>4 DEF Stored
    <3> QED
      BY <2>1, <2>3, <3>1, <3>2
  <2>5. CASE ~ Stored(n)
    <3>1. \A f \in sent' : f.nonce # n
      BY <2>2, <2>5 DEF Unused, Stored
    <3>2. ext_nonce'.nonce # n
      BY <2>5 DEF Stored
    <3> QED
      BY <2>1, <2>3, <3>1, <3>2
  <2> QED
    BY <2>4, <2>5
<1>7. ReportsAreNew'
  BY <1>2, <1>3, <1>4 DEF NonceInv, ReportsAreNew, Stored, Unused, InQueue
<1>8. MadeFirst'
  <2> SUFFICES ASSUME NEW n \in Nonces, InQueue(n)' \/ Stored(n)' \/ ~ Unused(n)'
               PROVE  n \in made
    BY DEF MadeFirst
  <2>1. InQueue(n) \/ Stored(n) \/ ~ Unused(n)
    BY <1>2, <1>3, <1>4
  <2> QED
    BY <2>1 DEF NonceInv, MadeFirst
<1>9. BeingHandled'
  BY DEF BeingHandled
<1>10. NonceUsedOnce'
  BY DEF NonceInv, NonceUsedOnce
<1> QED
  BY <1>5, <1>6, <1>7, <1>8, <1>9, <1>10 DEF NonceInv

\* What a step to the next message, a status or a timeout cannot touch.
LEMMA RptKeepsNonces ==
  ASSUME SecTxInv, zwsec_nonce_rpt_hdlr
  PROVE  NonceInv'
<1>1. /\ rpt_hdlr # NoNode /\ rpt_hdlr' = NoNode /\ cb_q' = Tail(cb_q) /\ NonceEvent(rpt_hdlr)
      /\ UNCHANGED <<made, reports>>
  BY DEF zwsec_nonce_rpt_hdlr
<1>2. SmTypes /\ OtherTypes /\ SmInv /\ NonceInv
  BY TypesSplit DEF SecTxInv
<1>3. cb_q # <<>> /\ Head(cb_q) \in Nonces /\ Stored(Head(cb_q)) /\ rpt_hdlr = Head(cb_q).msg.node
  BY <1>1, <1>2 DEF NonceInv, BeingHandled
<1>4. ASSUME UNCHANGED sent, ext_nonce' = ext_nonce \/ InvalidateNonce
      PROVE  NonceInv'
  <2>1. /\ ext_nonce'.nonce = ext_nonce.nonce /\ ext_nonce'.snd_nodeid = ext_nonce.snd_nodeid
        /\ ext_nonce'.valid => ext_nonce.valid
    BY <1>2, <1>4 DEF InvalidateNonce, OtherTypes
  <2> QED
    BY <1>1, <1>2, <1>3, <1>4, <2>1, HeadHandled
<1>5. CASE rpt_hdlr # tx_sm_nodeid \/ tx_sm_sta # "WAIT_NONCE"
  <2>1. UNCHANGED <<sent, ext_nonce>>
    BY <1>1, <1>5 DEF NonceEvent
  <2> QED
    BY <1>4, <2>1
<1>6. CASE rpt_hdlr = tx_sm_nodeid /\ tx_sm_sta = "WAIT_NONCE"
  <2> DEFINE part == IF tx_sm_opp # NoMsg THEN 1 ELSE 2
             m == IF part = 1 THEN tx_sm_opp ELSE tx_sm_2nd_frm
  <2>1. tx_sm_cb \in Msgs /\ NoMsg \notin Msgs /\ tx_sm_nodeid = tx_sm_cb.node
    BY <1>2, <1>6, SecTxAssumption DEF SmInv, InWork
  <2>2. FirstToSend \/ SecondToSend
    BY <1>2, <1>6 DEF SmInv, InWork
  <2>3. m = tx_sm_cb
    BY <2>1, <2>2 DEF FirstToSend, SecondToSend
  <2>4. IF NonceAtHand(rpt_hdlr)
        THEN InvalidateNonce
             /\ (SppTx(m, part, part = 1 /\ tx_sm_use_0_key) \/ SppFails(m, part))
        ELSE UNCHANGED <<ext_nonce, sent>>
    BY <1>1, <1>6 DEF NonceEvent
  <2> HIDE DEF part, m
  <2>5. CASE NonceAtHand(rpt_hdlr) /\ SppTx(m, part, part = 1 /\ tx_sm_use_0_key)
    <3> DEFINE f == [msg |-> m, part |-> part, nonce |-> ext_nonce.nonce,
                     zero_key |-> part = 1 /\ tx_sm_use_0_key]
    <3>1. sent' = sent \cup {f}
      BY <2>5 DEF SppTx
    <3>2. f.nonce = ext_nonce.nonce /\ f.msg = tx_sm_cb
      BY <2>3
    <3> HIDE DEF f
    <3>3. /\ Unused(ext_nonce.nonce) /\ ext_nonce.nonce.msg.node = ext_nonce.snd_nodeid
          /\ ext_nonce.snd_nodeid = tx_sm_cb.node
      BY <1>2, <1>6, <2>1, <2>5 DEF NonceAtHand, NonceInv, StoredIsUnused
    <3>4. NonceUsedOnce'
      <4>1. NonceUsedOnce
        BY <1>2 DEF NonceInv
      <4>2. \A g \in sent : g.nonce # ext_nonce.nonce
        BY <3>3 DEF Unused
      <4>3. f.nonce.msg.node = f.msg.node
        BY <3>2, <3>3
      <4> QED
        BY <3>1, <3>2, <4>1, <4>2, <4>3 DEF NonceUsedOnce
    <3>5. /\ ext_nonce'.nonce = ext_nonce.nonce /\ ext_nonce'.snd_nodeid = ext_nonce.snd_nodeid
          /\ ~ ext_nonce'.valid
      BY <1>2, <2>4, <2>5 DEF InvalidateNonce, OtherTypes
    <3>6. \A g \in sent' : g \in sent \/ g.nonce = ext_nonce.nonce
      BY <3>1, <3>2
    <3> QED
      BY <1>1, <1>2, <1>3, <3>4, <3>5, <3>6, HeadHandled
  <2>6. CASE NonceAtHand(rpt_hdlr) /\ SppFails(m, part)
    BY <1>4, <2>4, <2>6 DEF SppFails
  <2>7. CASE ~ NonceAtHand(rpt_hdlr)
    BY <1>4, <2>4, <2>7
  <2> QED
    BY <2>4, <2>5, <2>6, <2>7
<1> QED
  BY <1>5, <1>6

LEMMA PutKeepsNonces ==
  ASSUME SecTxInv, zwsec_enonce_put
  PROVE  NonceInv'
<1> DEFINE n == Head(cb_q)
<1>1. /\ n \in Nonces /\ cb_q # <<>>
      /\ ext_nonce' = IF Storable(n)
                      THEN [valid |-> TRUE, expired |-> FALSE, nonce |-> n,
                            snd_nodeid |-> n.msg.node]
                      ELSE ext_nonce
      /\ rpt_hdlr' = n.msg.node
      /\ UNCHANGED <<cb_q, made, reports, sent>>
  BY DEF zwsec_enonce_put, env_vars
<1>2. OtherTypes /\ NonceInv
  BY TypesSplit DEF SecTxInv
<1>3. Len(cb_q) \in Nat /\ Len(cb_q) > 0 /\ n = cb_q[1]
  <2>1. cb_q \in Seq([call : Calls, ok : BOOLEAN] \cup Nonces)
    BY <1>2 DEF OtherTypes
  <2>2. Len(cb_q) \in Nat /\ Len(cb_q) # 0
    BY <1>1, <2>1, LenProperties, EmptySeq
  <2> QED
    BY <2>1, <2>2
<1> HIDE DEF n
<1>4. InQueue(n)
  BY <1>3 DEF InQueue
<1>5. ext_nonce'.nonce = n
  BY <1>1 DEF Storable
<1>6. Unused(n) \/ (Stored(n) /\ ~ ext_nonce.valid /\ ext_nonce' = ext_nonce)
  <2>1. CASE Stored(n)
    BY <1>1, <1>2, <2>1 DEF Stored, Storable, NonceInv, StoredIsUnused
  <2>2. CASE ~ Stored(n)
    BY <1>1, <1>2, <1>3, <2>2 DEF NonceInv, QueueIsNew
  <2> QED
    BY <2>1, <2>2
<1>7. StoredIsUnused'
  <2>1. CASE Unused(n) /\ ~ Storable(n)
    BY <1>1, <1>2, <2>1 DEF NonceInv, StoredIsUnused, Unused
  <2>2. CASE Unused(n) /\ Storable(n)
    BY <1>1, <2>2 DEF StoredIsUnused, Unused
  <2>3. CASE ~ ext_nonce.valid /\ ext_nonce' = ext_nonce
    BY <2>3 DEF StoredIsUnused
  <2> QED
    BY <1>6, <2>1, <2>2, <2>3
<1>8. QueueIsNew'
  <2> SUFFICES ASSUME NEW i \in 1 .. Len(cb_q), cb_q[i] \in Nonces
               PROVE  /\ \A j \in 1 .. i - 1 : cb_q[j] # cb_q[i]
                      /\ IF n = cb_q[i]
                         THEN \A j \in 1 .. i - 1 : cb_q[j] \notin Nonces
                         ELSE Unused(cb_q[i])
    BY <1>1, <1>5 DEF QueueIsNew, Unused, Stored
  <2>1. /\ \A j \in 1 .. i - 1 : cb_q[j] # cb_q[i]
        /\ IF Stored(cb_q[i]) THEN \A j \in 1 .. i - 1 : cb_q[j] \notin Nonces
                              ELSE Unused(cb_q[i])
    BY <1>2 DEF NonceInv, QueueIsNew
  <2>2. CASE i = 1
    BY <1>3, <2>2
  <2>3. CASE i # 1
    <3>1. 1 \in 1 .. i - 1
      BY <1>3, <2>3
    <3> QED
      BY <1>1, <1>3, <2>1, <3>1
  <2> QED
    BY <2>2, <2>3
<1>9. ReportsAreNew'
  BY <1>1, <1>2, <1>4, <1>5 DEF NonceInv, ReportsAreNew, InQueue, Stored, Unused
<1>10. MadeFirst'
  <2> SUFFICES ASSUME NEW x \in Nonces, InQueue(x) \/ x = n \/ ~ Unused(x)
               PROVE  x \in made
    BY <1>1, <1>5 DEF MadeFirst, InQueue, Stored, Unused
  <2> QED
    BY <1>2, <1>4 DEF NonceInv, MadeFirst
<1>11. BeingHandled'
  BY <1>1, <1>5 DEF BeingHandled, Stored, n
<1>12. NonceUsedOnce'
  BY <1>1, <1>2 DEF NonceInv, NonceUsedOnce
<1> QED
  BY <1>7, <1>8, <1>9, <1>10, <1>11, <1>12 DEF NonceInv

\* What comes to the end of the queue: a status, a report that was on its way, or a
\* copy of the nonce that is stored when no other is in the queue.
LEMMA ArrivalKeepsNonces ==
  ASSUME OtherTypes, NonceInv, NEW e \in [call : Calls, ok : BOOLEAN] \cup Nonces,
         cb_q' = Append(cb_q, e), reports' = reports \ {e},
         UNCHANGED <<made, sent, ext_nonce, rpt_hdlr>>,
         e \in Nonces => e \in reports
                         \/ (Stored(e) /\ \A i \in 1 .. Len(cb_q) : cb_q[i] \notin Nonces)
  PROVE  NonceInv'
<1>1. cb_q \in Seq([call : Calls, ok : BOOLEAN] \cup Nonces) /\ Len(cb_q) \in Nat
  BY LenProperties DEF OtherTypes
<1>2. /\ Len(cb_q') = Len(cb_q) + 1 /\ cb_q'[Len(cb_q) + 1] = e
      /\ \A i \in 1 .. Len(cb_q) : cb_q'[i] = cb_q[i]
      /\ cb_q # <<>> => Head(cb_q') = Head(cb_q)
  BY <1>1, AppendProperties, HeadTailAppend
<1>3. cb_q' # <<>>
  BY <1>1, AppendProperties
<1>4. ASSUME NEW n
      PROVE  InQueue(n)' <=> InQueue(n) \/ n = e
  <2>1. ASSUME NEW i \in 1 .. Len(cb_q'), cb_q'[i] = n
        PROVE  InQueue(n) \/ n = e
    <3>1. i \in 1 .. Len(cb_q) \/ i = Len(cb_q) + 1
      BY <1>1, <1>2
    <3> QED
      BY <1>2, <2>1, <3>1 DEF InQueue
  <2>2. ASSUME NEW i \in 1 .. Len(cb_q), cb_q[i] = n
        PROVE  InQueue(n)'
    <3>1. i \in 1 .. Len(cb_q')
      BY <1>1, <1>2
    <3> QED
      BY <1>2, <2>2, <3>1 DEF InQueue
  <2>3. Len(cb_q) + 1 \in 1 .. Len(cb_q')
    BY <1>1, <1>2
  <2> QED
    BY <1>2, <2>1, <2>2, <2>3 DEF InQueue
<1>5. e \in Nonces => (e \in reports => ~ InQueue(e) /\ ~ Stored(e) /\ Unused(e))
  BY DEF NonceInv, ReportsAreNew
<1>6. QueueIsNew'
  <2> SUFFICES ASSUME NEW i \in 1 .. Len(cb_q'), cb_q'[i] \in Nonces
               PROVE  /\ \A j \in 1 .. i - 1 : cb_q'[j] # cb_q'[i]
                      /\ IF ext_nonce.nonce = cb_q'[i]
                         THEN \A j \in 1 .. i - 1 : cb_q'[j] \notin Nonces
                         ELSE \A f \in sent : f.nonce # cb_q'[i]
    BY DEF QueueIsNew, Unused, Stored
  <2>1. CASE i \in 1 .. Len(cb_q)
    <3>1. \A j \in 1 .. i - 1 : j \in 1 .. Len(cb_q)
      BY <1>1, <2>1
    <3> QED
      BY <1>2, <2>1, <3>1 DEF NonceInv, QueueIsNew, Stored, Unused
  <2>2. CASE i = Len(cb_q) + 1
    <3>1. cb_q'[i] = e /\ \A j \in 1 .. i - 1 : j \in 1 .. Len(cb_q) /\ cb_q'[j] = cb_q[j]
      BY <1>1, <1>2, <2>2
    <3>2. CASE e \in reports
      BY <1>5, <3>1, <3>2 DEF InQueue, Stored, Unused
    <3>3. CASE Stored(e) /\ \A j \in 1 .. Len(cb_q) : cb_q[j] \notin Nonces
      BY <3>1, <3>3 DEF Stored
    <3> QED
      BY <3>1, <3>2, <3>3
  <2> QED
    BY <1>1, <1>2, <2>1, <2>2
<1>7. StoredIsUnused' /\ NonceUsedOnce'
  BY DEF NonceInv, StoredIsUnused, Unused, NonceUsedOnce
<1>8. ReportsAreNew'
  <2> SUFFICES ASSUME NEW n \in reports, n # e
               PROVE  ~ InQueue(n) /\ ~ Stored(n) /\ Unused(n)
    BY <1>4 DEF ReportsAreNew, Stored, Unused
  <2> QED
    BY DEF NonceInv, ReportsAreNew
<1>9. MadeFirst'
  <2> SUFFICES ASSUME NEW n \in Nonces, InQueue(n) \/ n = e \/ Stored(n) \/ ~ Unused(n)
               PROVE  n \in made
    BY <1>4 DEF MadeFirst, Stored, Unused
  <2>1. e \in Nonces => e \in made
    BY DEF NonceInv, MadeFirst, OtherTypes
  <2> QED
    BY <2>1 DEF NonceInv, MadeFirst
<1>10. BeingHandled'
  BY <1>2, <1>3 DEF NonceInv, BeingHandled, Stored
<1> QED
  BY <1>6, <1>7, <1>8, <1>9, <1>10 DEF NonceInv

LEMMA OthersKeepNonces ==
  ASSUME SecTxInv,
         zwsec_tx_sts_cb \/ ExtNonceExpires \/ zwsec_tmout_cb
         \/ StatusFrame \/ RequestHeard \/ ReportArrives
  PROVE  NonceInv'
<1>1. SmTypes /\ OtherTypes /\ NonceInv
  BY TypesSplit DEF SecTxInv
<1>2. CASE zwsec_tx_sts_cb
  BY <1>1, <1>2, HeadHandled DEF zwsec_tx_sts_cb
<1>3. CASE ExtNonceExpires
  <2>1. UNCHANGED <<sent, cb_q, reports, made, rpt_hdlr>>
        /\ ext_nonce' = [ext_nonce EXCEPT !.expired = TRUE]
    BY <1>3 DEF ExtNonceExpires, env_vars
  <2>2. /\ ext_nonce'.nonce = ext_nonce.nonce /\ ext_nonce'.snd_nodeid = ext_nonce.snd_nodeid
        /\ ext_nonce'.valid => ext_nonce.valid
    BY <1>1, <2>1 DEF OtherTypes
  <2> QED
    BY <1>1, <2>1, <2>2, NonceUntouched
<1>4. CASE zwsec_tmout_cb
  <2>1. UNCHANGED <<sent, cb_q, reports, made, rpt_hdlr>>
        /\ ext_nonce' = [ext_nonce EXCEPT !.valid = FALSE]
    BY <1>4 DEF zwsec_tmout_cb, env_vars, InvalidateNonce
  <2>2. /\ ext_nonce'.nonce = ext_nonce.nonce /\ ext_nonce'.snd_nodeid = ext_nonce.snd_nodeid
        /\ ext_nonce'.valid => ext_nonce.valid
    BY <1>1, <2>1 DEF OtherTypes
  <2> QED
    BY <1>1, <2>1, <2>2, NonceUntouched
<1>5. CASE StatusFrame
  <2>1. PICK c \in tx_wait, ok \in BOOLEAN :
          /\ cb_q' = Append(cb_q, [call |-> c, ok |-> ok])
          /\ UNCHANGED <<ext_nonce, rpt_hdlr, made, reports, sent>>
    BY <1>5 DEF StatusFrame
  <2> DEFINE e == [call |-> c, ok |-> ok]
  <2>2. e \in [call : Calls, ok : BOOLEAN] /\ e \notin Nonces
    BY <1>1, StatusNotNonce DEF SmTypes
  <2>3. reports' = reports \ {e}
    BY <1>1, <2>1, <2>2 DEF OtherTypes
  <2> HIDE DEF e
  <2> QED
    BY <1>1, <2>1, <2>2, <2>3, ArrivalKeepsNonces DEF e
<1>6. CASE RequestHeard
  <2>1. PICK n : /\ n \notin made /\ made' = made \cup {n} /\ reports' = reports \cup {n}
                 /\ UNCHANGED <<ext_nonce, rpt_hdlr, cb_q, sent>>
    BY <1>6 DEF RequestHeard
  <2>2. n \in Nonces => ~ InQueue(n) /\ ~ Stored(n) /\ Unused(n)
    BY <1>1, <2>1 DEF NonceInv, MadeFirst
  <2>3. n \in Nonces
    <3>1. PICK c \in tx_wait :
            made' = made \cup {[msg |-> c.msg, part |-> IF c.what = 1 THEN 2 ELSE 1]}
      BY <1>6 DEF RequestHeard
    <3>2. [msg |-> c.msg, part |-> IF c.what = 1 THEN 2 ELSE 1] \in Nonces
      BY <1>1 DEF SmTypes, Calls, Nonces
    <3> HIDE DEF Nonces
    <3> QED
      BY <1>1, <2>1, <3>1, <3>2 DEF OtherTypes
  <2>4. StoredIsUnused' /\ QueueIsNew' /\ BeingHandled' /\ NonceUsedOnce'
    BY <1>1, <2>1 DEF NonceInv, StoredIsUnused, QueueIsNew, BeingHandled, NonceUsedOnce,
                      Stored, Unused
  <2>5. ReportsAreNew' /\ MadeFirst'
    BY <1>1, <2>1, <2>2, <2>3 DEF NonceInv, ReportsAreNew, MadeFirst, InQueue, Stored, Unused
  <2> QED
    BY <2>4, <2>5 DEF NonceInv
<1>7. CASE ReportArrives
  <2>1. PICK n \in reports \cup ({ext_nonce.nonce} \cap Nonces) :
          /\ n \in reports \/ ToSet(cb_q) \cap Nonces = {}
          /\ reports' = reports \ {n} /\ cb_q' = Append(cb_q, n)
          /\ UNCHANGED <<made, sent, ext_nonce, rpt_hdlr>>
    BY <1>7 DEF ReportArrives
  <2>2. n \in Nonces
    BY <1>1 DEF OtherTypes
  <2>3. n \in reports \/ (Stored(n) /\ \A i \in 1 .. Len(cb_q) : cb_q[i] \notin Nonces)
    <3>1. \A i \in 1 .. Len(cb_q) : cb_q[i] \in ToSet(cb_q)
      <4>1. cb_q \in Seq([call : Calls, ok : BOOLEAN] \cup Nonces)
        BY <1>1 DEF OtherTypes
      <4>2. DOMAIN cb_q = 1 .. Len(cb_q)
        BY <4>1, LenProperties
      <4> QED
        BY <4>2 DEF ToSet
    <3>2. CASE n \notin reports
      <4>1. ToSet(cb_q) \cap Nonces = {} /\ n = ext_nonce.nonce
        BY <2>1, <3>2
      <4>2. \A i \in 1 .. Len(cb_q) : cb_q[i] \notin Nonces
        BY <3>1, <4>1, Zenon
      <4> QED
        BY <4>1, <4>2 DEF Stored
    <3> QED
      BY <3>2
  <2> QED
    BY <1>1, <2>1, <2>2, <2>3, ArrivalKeepsNonces
<1> QED
  BY <1>2, <1>3, <1>4, <1>5, <1>6, <1>7

---------------------------------------------------------------------------
(* The invariant, and what follows from it.                                *)

LEMMA SecTxInitInv == SecTxInit => SecTxInv
<1> SUFFICES ASSUME SecTxInit
             PROVE  SecTxInv
  OBVIOUS
<1>1. SmTypes
  <2>1. Cardinality({}) = 0 /\ Len(<<>>) = 0 /\ <<>> \in Seq(Msgs)
    BY FS_EmptySet, EmptySeq
  <2>2. tx_wait = {} /\ tx_sm_opp_hd = <<>> /\ tx_sm_q_cnt = 0
    BY DEF SecTxInit
  <2>4. /\ tx_wait \subseteq Calls /\ Cardinality(tx_wait) <= 1
        /\ tx_sm_opp_hd \in Seq(Msgs) /\ Len(tx_sm_opp_hd) = 0 /\ 0 <= MAX_SEC_TX_Q
    BY <2>1, <2>2, SecTxAssumption
  <2>3. outcome \in [Msgs -> {"new", "refused", "accepted", "ok", "error"}]
    BY DEF SecTxInit
  <2> QED
    BY <2>2, <2>3, <2>4 DEF SecTxInit, SmTypes, Stas
<1>2. OtherTypes
  BY EmptySeq DEF SecTxInit, OtherTypes
<1>3. SmInv
  BY DEF SecTxInit, SmInv, InWork, RestsEmpty, RequestIsTimed, NonceIsExpected, OkMeansSent
<1>4. NonceInv
  <2>1. cb_q = <<>> /\ Len(cb_q) = 0
    BY EmptySeq DEF SecTxInit
  <2>2. StoredIsUnused /\ QueueIsNew /\ ReportsAreNew /\ BeingHandled /\ NonceUsedOnce
    BY <2>1 DEF SecTxInit, StoredIsUnused, QueueIsNew, ReportsAreNew, BeingHandled, NonceUsedOnce
  <2>3. MadeFirst
    BY <2>1, SecTxAssumption DEF SecTxInit, MadeFirst, InQueue, Stored, Unused
  <2> QED
    BY <2>2, <2>3 DEF NonceInv
<1>5. SecTxTypeOK
  BY <1>1, <1>2 DEF SecTxTypeOK, SmTypes, OtherTypes
<1> QED
  BY <1>3, <1>4, <1>5 DEF SecTxInv

LEMMA SecTxNextInv == SecTxInv /\ [SecTxNext]_sec_tx_vars => SecTxInv'
<1> SUFFICES ASSUME SecTxInv, [SecTxNext]_sec_tx_vars
             PROVE  SecTxInv'
  OBVIOUS
<1>1. SecTxTypeOK /\ SmInv /\ NonceInv /\ SmTypes /\ OtherTypes
  BY TypesSplit DEF SecTxInv
<1>2. ASSUME UNCHANGED <<sent, cb_q, reports, made, rpt_hdlr, ext_nonce>>
      PROVE  NonceInv'
  BY <1>1, <1>2, NonceUntouched
<1>3. CASE \E m \in Msgs : zwsec_send(m)
  <2>1. PICK m \in Msgs : zwsec_send(m)
    BY <1>3
  <2>2. NonceInv'
    BY <1>2, <2>1 DEF zwsec_send
  <2> QED
    BY <1>1, <2>1, <2>2, SendKeepsSm DEF SecTxInv
<1>4. CASE zwsec_tx_sts_cb
  BY <1>1, <1>4, StsKeepsSm, OthersKeepNonces DEF SecTxInv
<1>5. CASE zwsec_enonce_put
  BY <1>1, <1>5, OthersKeepSm, PutKeepsNonces DEF SecTxInv, OtherStep
<1>6. CASE zwsec_nonce_rpt_hdlr
  <2>1. cb_q # <<>> /\ StoredIsUnused
    BY <1>1, <1>6 DEF zwsec_nonce_rpt_hdlr, NonceInv, BeingHandled
  <2> QED
    BY <1>1, <1>6, <2>1, RptKeepsSm, RptKeepsNonces DEF SecTxInv
<1>7. CASE TmoutThreads
  <2>1. PICK t \in Nonces : zwsec_nonce_tmout_cb(t)
    BY <1>7 DEF TmoutThreads
  <2>2. NonceInv'
    BY <1>2, <2>1 DEF zwsec_nonce_tmout_cb
  <2> QED
    BY <1>1, <2>1, <2>2, TmoutKeepsSm DEF SecTxInv
<1>8. CASE ExtNonceExpires \/ zwsec_tmout_cb \/ StatusFrame \/ RequestHeard \/ ReportArrives
  BY <1>1, <1>8, OthersKeepSm, OthersKeepNonces DEF SecTxInv, OtherStep
<1>9. CASE TxTmrExpires
  <2>1. NonceInv'
    BY <1>2, <1>9 DEF TxTmrExpires, env_vars
  <2> QED
    BY <1>1, <1>9, <2>1, TmrKeepsSm DEF SecTxInv
<1>10. CASE UNCHANGED sec_tx_vars
  <2>1. SmTypes' /\ OtherTypes'
    BY <1>1, <1>10 DEF sec_tx_vars, sm_vars, q_vars, env_vars, SmTypes, OtherTypes
  <2>2. SmInv'
    BY <1>1, <1>10, SmUntouched DEF sec_tx_vars, env_vars
  <2>3. NonceInv'
    BY <1>2, <1>10 DEF sec_tx_vars, env_vars
  <2> QED
    BY <2>1, <2>2, <2>3, TypesJoin DEF SecTxInv
<1> QED
  BY <1>3, <1>4, <1>5, <1>6, <1>7, <1>8, <1>9, <1>10 DEF SecTxNext, CbThread

LEMMA SecTxInvariant == SecTxSpec => []SecTxInv
BY SecTxInitInv, SecTxNextInv, PTL DEF SecTxSpec

\* The variables of the transmission side keep their types: the queue keeps to its
\* limit and its counter to its length, and zw_send_data has one call at a time.
THEOREM SecTxTypesHold == SecTxSpec => []SecTxTypeOK
<1>1. SecTxInv => SecTxTypeOK
  BY DEF SecTxInv
<1> QED
  BY <1>1, SecTxInvariant, PTL

\* zwsec_tx_sm reports a message as transmitted only when all its frames have been
\* handed to zw_send_data under the key it asked for: neither a frame left in a buffer
\* nor a late status can make it skip one.
THEOREM OkMessagesAreSent == SecTxSpec => []OkMeansSent
<1>1. SecTxInv => OkMeansSent
  BY DEF SecTxInv, SmInv
<1> QED
  BY <1>1, SecTxInvariant, PTL

\* zwsec_enonce_put and zwsec_enonce_get together let no nonce of a receiver be used
\* for two frames, however late, often or repeatedly reports come.
THEOREM NoncesAreUsedOnce == SecTxSpec => []NonceUsedOnce
<1>1. SecTxInv => NonceUsedOnce
  BY DEF SecTxInv, NonceInv
<1> QED
  BY <1>1, SecTxInvariant, PTL

\* zwsec_sm_next leaves nothing behind when the machine goes to rest: no queued
\* message that would wait for the next caller, and no timer.
THEOREM RestIsEmpty == SecTxSpec => []RestsEmpty
<1>1. SecTxInv => RestsEmpty
  BY DEF SecTxInv, SmInv
<1> QED
  BY <1>1, SecTxInvariant, PTL

\* In the state that waits for a nonce, which may never come, the timer runs or a
\* timeout is about to be handled: the layer cannot be stopped by a lost report.
THEOREM NonceWaitIsTimed == SecTxSpec => []WaitIsTimed
<1>1. SecTxInv => WaitIsTimed
  BY DEF SecTxInv, SmInv, RequestIsTimed, NonceIsExpected, WaitIsTimed
<1> QED
  BY <1>1, SecTxInvariant, PTL

---------------------------------------------------------------------------
(* The service: each step of the machine is one of SecTxService or leaves  *)
(* the line and what the messages have come to as they are.                *)

Line == (IF tx_sm_sta = "IDLE" THEN <<>> ELSE <<tx_sm_cb>>) \o tx_sm_opp_hd

\* The message in work is the first of the line, the queue is the rest of it.
LEMMA LineInWork ==
  ASSUME NEW sta, sta # "IDLE", NEW m \in Msgs, NEW hd \in Seq(Msgs),
         NEW line, line = (IF sta = "IDLE" THEN <<>> ELSE <<m>>) \o hd
  PROVE  /\ line \in Seq(Msgs) /\ Len(line) = Len(hd) + 1 /\ Len(hd) \in Nat /\ line[1] = m
         /\ \A i \in 1 .. Len(hd) : line[i + 1] = hd[i]
<1>1. <<m>> \in Seq(Msgs) /\ Len(<<m>>) = 1 /\ <<m>>[1] = m
  OBVIOUS
<1>2. Len(hd) \in Nat
  BY LenProperties
<1>3. /\ line \in Seq(Msgs) /\ Len(line) = 1 + Len(hd)
      /\ \A i \in 1 .. 1 + Len(hd) : line[i] = IF i <= 1 THEN m ELSE hd[i - 1]
  BY <1>1, ConcatProperties
<1>4. line[1] = m
  BY <1>2, <1>3
<1>5. \A i \in 1 .. Len(hd) : line[i + 1] = hd[i]
  BY <1>2, <1>3
<1> QED
  BY <1>2, <1>3, <1>4, <1>5

LEMMA LineAtRest ==
  ASSUME NEW sta, sta = "IDLE", NEW m
  PROVE  (IF sta = "IDLE" THEN <<>> ELSE <<m>>) \o <<>> = <<>>
<1>1. <<>> \in Seq({})
  BY EmptySeq
<1>2. <<>> \o <<>> = <<>>
  BY <1>1, ConcatEmptySeq
<1> QED
  BY <1>2

\* The step to the next message reports the message in work and those that could
\* not be started behind it.
LEMMA SmNextReports ==
  ASSUME SecTxTypeOK, tx_sm_sta # "IDLE", tx_sm_cb \in Msgs,
         NEW s \in {"ok", "error"}, NEW opp \in Msgs \cup {NoMsg}, SmNext(s, opp)
  PROVE  Service!SvcNext
<1> DEFINE hd == tx_sm_opp_hd
<1>1. PICK k \in 0 .. Len(hd) : outcome' = Told(s, MsgsFirst(k)) /\ (SmRests(k) \/ SmGoesOn(k))
  BY SmNextCases
<1>2. hd \in Seq(Msgs) /\ Len(hd) \in Nat /\ \A i \in 1 .. Len(hd) : hd[i] \in Msgs
  BY LenProperties, ElementOfSeq DEF SecTxTypeOK
<1>3. /\ Line \in Seq(Msgs) /\ Len(Line) = Len(hd) + 1 /\ Line[1] = tx_sm_cb
      /\ \A i \in 1 .. Len(hd) : Line[i + 1] = hd[i]
  BY <1>2, LineInWork DEF Line
<1>4. Line' = SubSeq(Line, k + 2, Len(Line))
  <2>1. CASE SmRests(k)
    <3>1. tx_sm_sta' = "IDLE" /\ tx_sm_opp_hd' = <<>> /\ k = Len(hd)
      BY <2>1 DEF SmRests
    <3>2. Line' = <<>>
      BY <3>1, LineAtRest DEF Line
    <3>3. SubSeq(Line, k + 2, Len(Line)) = <<>>
      BY <1>2, <1>3, <3>1, SubSeqEmpty
    <3> QED
      BY <3>2, <3>3
  <2>2. CASE SmGoesOn(k)
    <3> DEFINE m == hd[k + 1]
               rest == SubSeq(hd, k + 2, Len(hd))
    <3>1. /\ m \in Msgs /\ tx_sm_cb' = m /\ tx_sm_opp_hd' = rest /\ k < Len(hd)
          /\ tx_sm_sta' = "WAIT_GET_NONCE_TX_STS"
      BY <2>2, SmStartKeeps DEF SmGoesOn
    <3>2. /\ rest \in Seq(Msgs) /\ Len(rest) = Len(hd) - (k + 1)
          /\ \A i \in 1 .. Len(hd) - (k + 1) : rest[i] = hd[(k + 2) + i - 1]
      <4>1. \A i \in k + 2 .. Len(hd) : hd[i] \in Msgs
        BY <1>2
      <4> QED
        BY <1>2, <3>1, <4>1, SubSeqProperties
    <3> HIDE DEF rest
    <3>3. Line' = (IF tx_sm_sta' = "IDLE" THEN <<>> ELSE <<m>>) \o rest
      BY <3>1 DEF Line
    <3> HIDE DEF m
    <3>4. /\ Line' \in Seq(Msgs) /\ Len(Line') = Len(rest) + 1 /\ Line'[1] = m
          /\ \A i \in 1 .. Len(rest) : Line'[i + 1] = rest[i]
      BY <3>1, <3>2, <3>3, LineInWork
    <3> DEFINE tail == SubSeq(Line, k + 2, Len(Line))
    <3>5. /\ tail \in Seq(Msgs) /\ Len(tail) = Len(hd) - k
          /\ \A i \in 1 .. Len(hd) - k : tail[i] = Line[(k + 2) + i - 1]
      <4>1. \A i \in k + 2 .. Len(Line) : Line[i] \in Msgs
        BY <1>2, <1>3, ElementOfSeq
      <4> QED
        BY <1>2, <1>3, <3>1, <4>1, SubSeqProperties
    <3> HIDE DEF tail
    <3>6. Len(Line') = Len(tail)
      BY <1>2, <3>1, <3>2, <3>4, <3>5
    <3>7. ASSUME NEW i \in 1 .. Len(Line')
          PROVE  Line'[i] = tail[i]
      <4>1. i \in 1 .. Len(hd) - k /\ k + i \in 1 .. Len(hd) /\ (k + 2) + i - 1 = (k + i) + 1
        BY <1>2, <3>1, <3>5, <3>6
      <4>2. tail[i] = hd[k + i]
        BY <1>3, <3>5, <4>1
      <4>3. CASE i = 1
        BY <3>4, <4>2, <4>3 DEF m
      <4>4. CASE i # 1
        <5>1. i - 1 \in 1 .. Len(rest) /\ (i - 1) + 1 = i /\ (k + 2) + (i - 1) - 1 = k + i
              /\ i - 1 \in 1 .. Len(hd) - (k + 1)
          BY <1>2, <3>1, <3>2, <4>1, <4>4
        <5> QED
          BY <3>2, <3>4, <4>2, <5>1
      <4> QED
        BY <4>3, <4>4
    <3> QED
      BY <3>4, <3>5, <3>6, <3>7, SeqEqual DEF tail
  <2> QED
    BY <1>1, <2>1, <2>2
<1>5. MsgsFirst(k) = {Line[i] : i \in 2 .. k + 1}
  <2>1. \A i \in 1 .. k : i + 1 \in 2 .. k + 1 /\ Line[i + 1] = hd[i]
    BY <1>2, <1>3
  <2>2. \A i \in 2 .. k + 1 : i - 1 \in 1 .. k /\ Line[i] = hd[i - 1]
    <3> SUFFICES ASSUME NEW i \in 2 .. k + 1
                 PROVE  i - 1 \in 1 .. k /\ Line[i] = hd[i - 1]
      OBVIOUS
    <3>1. i - 1 \in 1 .. k /\ i - 1 \in 1 .. Len(hd) /\ (i - 1) + 1 = i
      BY <1>2
    <3> QED
      BY <1>3, <3>1
  <2>3. ASSUME NEW m \in MsgsFirst(k)
        PROVE  m \in {Line[i] : i \in 2 .. k + 1}
    <3>1. PICK i \in 1 .. k : m = hd[i]
      BY DEF MsgsFirst
    <3> QED
      BY <2>1, <3>1
  <2>4. ASSUME NEW m \in {Line[i] : i \in 2 .. k + 1}
        PROVE  m \in MsgsFirst(k)
    <3>1. PICK i \in 2 .. k + 1 : m = Line[i]
      OBVIOUS
    <3> QED
      BY <2>2, <3>1 DEF MsgsFirst
  <2> QED
    BY <2>3, <2>4
<1>6. k \in 0 .. Len(Line) - 1 /\ k < Len(Line)
  BY <1>2, <1>3
<1>7. outcome' = [m \in Msgs |-> IF m = Line[1] THEN s
                                 ELSE IF m \in {Line[i] : i \in 2 .. k + 1} THEN "error"
                                 ELSE outcome[m]]
  BY <1>1, <1>3, <1>5 DEF Told
<1>8. Service!Report(s, k)
  BY <1>4, <1>6, <1>7, Zenon DEF Line, Service!Report
<1>9. Service!SomeReport
  BY <1>6, <1>8, Zenon DEF Line, Service!SomeReport
<1> QED
  BY <1>9 DEF Service!SvcNext

\* Steps that go on with the message in work, or concern none.
LEMMA LineStays ==
  ASSUME UNCHANGED <<tx_sm_cb, q_vars, outcome>>,
         UNCHANGED tx_sm_sta \/ (tx_sm_sta # "IDLE" /\ tx_sm_sta' # "IDLE")
  PROVE  UNCHANGED (Service!svc_vars)
<1>1. tx_sm_cb' = tx_sm_cb /\ tx_sm_opp_hd' = tx_sm_opp_hd /\ outcome' = outcome
  BY DEF q_vars
<1>2. (tx_sm_sta' = "IDLE") <=> (tx_sm_sta = "IDLE")
  OBVIOUS
<1> QED
  BY <1>1, <1>2 DEF Service!svc_vars

\* zwsec_send accepts a message or refuses it.
LEMMA SendSimulates ==
  ASSUME SecTxTypeOK, SmInv, NEW m \in Msgs, zwsec_send(m)
  PROVE  Service!SvcNext
<1> DEFINE hd == tx_sm_opp_hd
<1>1. hd \in Seq(Msgs) /\ Len(hd) \in Nat /\ outcome[m] = "new"
  BY LenProperties DEF SecTxTypeOK, zwsec_send
<1>2. CASE SendQueued(m)
  <2>1. /\ tx_sm_sta # "IDLE" /\ tx_sm_cb \in Msgs /\ tx_sm_sta' = tx_sm_sta /\ tx_sm_cb' = tx_sm_cb
        /\ tx_sm_opp_hd' = Append(hd, m) /\ outcome' = [outcome EXCEPT ![m] = "accepted"]
    BY <1>2 DEF SendQueued, sm_vars, SmInv, InWork
  <2>2. /\ Append(hd, m) \in Seq(Msgs) /\ Len(Append(hd, m)) = Len(hd) + 1
        /\ \A i \in 1 .. Len(hd) : Append(hd, m)[i] = hd[i]
        /\ Append(hd, m)[Len(hd) + 1] = m
    BY <1>1, AppendProperties
  <2>3. /\ Line \in Seq(Msgs) /\ Len(Line) = Len(hd) + 1 /\ Line[1] = tx_sm_cb
        /\ \A i \in 1 .. Len(hd) : Line[i + 1] = hd[i]
    BY <1>1, <2>1, LineInWork DEF Line
  <2> DEFINE longer == Append(hd, m)
             line == (IF tx_sm_sta = "IDLE" THEN <<>> ELSE <<tx_sm_cb>>) \o longer
             appended == Append(Line, m)
  <2>4. Line' = line
    BY <2>1 DEF Line
  <2> HIDE DEF longer
  <2>5. /\ line \in Seq(Msgs) /\ Len(line) = Len(longer) + 1 /\ line[1] = tx_sm_cb
        /\ \A i \in 1 .. Len(longer) : line[i + 1] = longer[i]
    <3>1. longer \in Seq(Msgs)
      BY <2>2 DEF longer
    <3> QED
      BY <2>1, <3>1, LineInWork
  <2>6. /\ appended \in Seq(Msgs) /\ Len(appended) = Len(Line) + 1
        /\ \A i \in 1 .. Len(Line) : appended[i] = Line[i]
        /\ appended[Len(Line) + 1] = m
    BY <2>3, AppendProperties
  <2> HIDE DEF line, appended
  <2>7. Len(longer) = Len(hd) + 1 /\ longer[Len(hd) + 1] = m
        /\ \A i \in 1 .. Len(hd) : longer[i] = hd[i]
    BY <2>2 DEF longer
  <2>8. ASSUME NEW i \in 1 .. Len(line)
        PROVE  line[i] = appended[i]
    <3>1. CASE i = 1
      BY <1>1, <2>3, <2>5, <2>6, <3>1
    <3>2. CASE i \in 2 .. Len(hd) + 1
      <4>1. i - 1 \in 1 .. Len(hd) /\ i - 1 \in 1 .. Len(longer) /\ (i - 1) + 1 = i
            /\ i \in 1 .. Len(Line)
        BY <1>1, <2>3, <2>7, <3>2
      <4> QED
        BY <2>3, <2>5, <2>6, <2>7, <4>1
    <3>3. CASE i = Len(hd) + 2
      <4>1. i - 1 \in 1 .. Len(longer) /\ (i - 1) + 1 = i /\ i - 1 = Len(hd) + 1
            /\ i = Len(Line) + 1
        BY <1>1, <2>3, <2>7, <3>3
      <4> QED
        BY <2>5, <2>6, <2>7, <4>1
    <3> QED
      BY <1>1, <2>5, <2>7, <3>1, <3>2, <3>3
  <2>9. line = appended
    <3>1. Len(line) = Len(appended)
      BY <2>3, <2>5, <2>6, <2>7
    <3> QED
      BY <2>5, <2>6, <2>8, <3>1, SeqEqual
  <2>10. Service!Accept(m)
    <3>1. Line' = Append(Line, m)
      BY <2>4, <2>9 DEF appended
    <3> QED
      BY <1>1, <2>1, <3>1, Zenon DEF Line, Service!Accept
  <2> QED
    BY <2>10 DEF Service!SvcNext
<1>3. CASE SendRefused(m)
  <2>1. UNCHANGED <<tx_sm_sta, tx_sm_cb, tx_sm_opp_hd>> /\ outcome' = [outcome EXCEPT ![m] = "refused"]
    BY <1>3 DEF SendRefused, sm_vars, q_vars
  <2>2. Service!Refuse(m)
    BY <1>1, <2>1 DEF Service!Refuse
  <2> QED
    BY <2>2 DEF Service!SvcNext
<1>4. CASE SendStarted(m)
  <2>1. /\ tx_sm_sta = "IDLE" /\ tx_sm_cb' = m /\ tx_sm_opp_hd = <<>> /\ tx_sm_opp_hd' = <<>>
    BY <1>4 DEF SendStarted, q_vars, SmInv, RestsEmpty
  <2>2. Line = <<>>
    BY <2>1, LineAtRest DEF Line
  <2>3. CASE SmStart(m) /\ outcome' = [outcome EXCEPT ![m] = "accepted"]
    <3>1. tx_sm_sta' # "IDLE"
      BY <2>3 DEF SmStart
    <3>2. Line' = <<m>> \o <<>>
      BY <2>1, <3>1 DEF Line
    <3>3. <<m>> \o <<>> = <<m>>
      <4>1. <<m>> \in Seq(Msgs)
        OBVIOUS
      <4> QED
        BY <4>1, ConcatEmptySeq
    <3>4. Append(<<>>, m) = <<m>>
      OBVIOUS
    <3>5. Line' = Append(Line, m)
      BY <2>2, <3>2, <3>3, <3>4
    <3>6. Service!Accept(m)
      BY <1>1, <2>3, <3>5, Zenon DEF Line, Service!Accept
    <3> QED
      BY <3>6 DEF Service!SvcNext
  <2>4. CASE UNCHANGED tx_sm_sta /\ outcome' = [outcome EXCEPT ![m] = "refused"]
    <3>1. Line' = <<>>
      BY <2>1, <2>4, LineAtRest DEF Line
    <3>2. Service!Refuse(m)
      BY <1>1, <2>2, <2>4, <3>1, Zenon DEF Line, Service!Refuse
    <3> QED
      BY <3>2 DEF Service!SvcNext
  <2> QED
    BY <1>4, <2>3, <2>4 DEF SendStarted
<1> QED
  BY <1>2, <1>3, <1>4 DEF zwsec_send

LEMMA StepSimulates ==
  ASSUME SecTxTypeOK, SmInv, [SecTxNext]_sec_tx_vars
  PROVE  [Service!SvcNext]_(Service!svc_vars)
<1>1. SmTypes /\ OtherTypes /\ NoMsg \notin Msgs
  BY TypesSplit, SecTxAssumption
<1>2. ASSUME tx_sm_sta # "IDLE", NEW s \in {"ok", "error"}, NEW opp \in Msgs \cup {NoMsg},
             SmNext(s, opp)
      PROVE  Service!SvcNext
  BY <1>2, SmNextReports DEF SmInv, InWork
<1>3. tx_sm_opp \in Msgs \cup {NoMsg} /\ NoMsg \in Msgs \cup {NoMsg}
  BY <1>1 DEF SmTypes
<1>4. CASE \E m \in Msgs : zwsec_send(m)
  BY <1>4, SendSimulates
<1>5. CASE zwsec_tx_sts_cb
  <2>1. PICK node, ok : StsEvent(node, ok)
    BY <1>5 DEF zwsec_tx_sts_cb
  <2>2. CASE UNCHANGED <<sm_vars, q_vars, tx_wait, outcome>>
    BY <2>2, LineStays DEF sm_vars
  <2>3. CASE ~ (node # tx_sm_nodeid \/ tx_sm_sta \in {"IDLE", "WAIT_NONCE"})
    <3>1. CASE tx_sm_sta' = "WAIT_NONCE" /\ UNCHANGED <<tx_sm_cb, q_vars, outcome>>
      BY <2>3, <3>1, LineStays
    <3>2. CASE SmNext("ok", tx_sm_opp) \/ SmNext("error", tx_sm_opp)
      BY <1>2, <1>3, <2>3, <3>2
    <3> QED
      BY <2>1, <2>3, <3>1, <3>2 DEF StsEvent
  <2> QED
    BY <2>1, <2>2, <2>3 DEF StsEvent
<1>6. CASE zwsec_enonce_put
  BY <1>6, LineStays DEF zwsec_enonce_put, sm_vars
<1>7. CASE zwsec_nonce_rpt_hdlr
  <2>1. NonceEvent(rpt_hdlr)
    BY <1>7 DEF zwsec_nonce_rpt_hdlr
  <2>2. CASE rpt_hdlr # tx_sm_nodeid \/ tx_sm_sta # "WAIT_NONCE"
    BY <2>1, <2>2, LineStays DEF NonceEvent, sm_vars
  <2>3. CASE rpt_hdlr = tx_sm_nodeid /\ tx_sm_sta = "WAIT_NONCE"
    <3>1. ASSUME NEW m, NEW part, NEW zero_key, SppTx(m, part, zero_key)
          PROVE  UNCHANGED (Service!svc_vars)
      BY <2>3, <3>1, LineStays DEF SppTx
    <3>2. ASSUME NEW m, NEW part, SppFails(m, part)
          PROVE  Service!SvcNext
      <4>1. SmNext("error", tx_sm_opp) \/ SmNext("error", NoMsg)
        BY <3>2 DEF SppFails
      <4> QED
        BY <1>2, <1>3, <2>3, <4>1
    <3>3. CASE NonceAtHand(rpt_hdlr)
      <4>1. \E m, part, zero_key : SppTx(m, part, zero_key) \/ SppFails(m, part)
        BY <2>1, <2>3, <3>3 DEF NonceEvent
      <4> QED
        BY <3>1, <3>2, <4>1
    <3>4. CASE ~ NonceAtHand(rpt_hdlr)
      <4>1. SmNext("error", tx_sm_opp)
        BY <2>1, <2>3, <3>4 DEF NonceEvent
      <4> QED
        BY <1>2, <1>3, <2>3, <4>1
    <3> QED
      BY <3>3, <3>4
  <2> QED
    BY <2>2, <2>3
<1>8. CASE TmoutThreads
  <2>1. PICK t \in Nonces : zwsec_nonce_tmout_cb(t)
    BY <1>8 DEF TmoutThreads
  <2>2. CASE tx_sm_sta = "IDLE"
    BY <2>1, <2>2, LineStays DEF zwsec_nonce_tmout_cb
  <2>3. CASE tx_sm_sta # "IDLE"
    <3>1. SmNext("error", tx_sm_opp)
      BY <2>1, <2>3 DEF zwsec_nonce_tmout_cb
    <3> QED
      BY <1>2, <1>3, <2>3, <3>1
  <2> QED
    BY <2>2, <2>3
<1>9. CASE ExtNonceExpires \/ zwsec_tmout_cb \/ StatusFrame \/ RequestHeard \/ ReportArrives
  BY <1>9, LineStays
     DEF ExtNonceExpires, zwsec_tmout_cb, StatusFrame, RequestHeard, ReportArrives, sm_vars
<1>10. CASE TxTmrExpires
  BY <1>10, LineStays DEF TxTmrExpires
<1>11. CASE UNCHANGED sec_tx_vars
  BY <1>11, LineStays DEF sec_tx_vars, sm_vars
<1> QED
  BY <1>4, <1>5, <1>6, <1>7, <1>8, <1>9, <1>10, <1>11 DEF SecTxNext, CbThread

\* zwsec_send answers its callers as SecTxService says: a message is refused, or
\* accepted and reported once, in the order of acceptance, and only the first of the
\* line can be reported as transmitted.  (That every message is reported at last, the
\* fairness of ImplementsSecTx, is left to the run.)
THEOREM SecTxImplementsService ==
  SecTxSpec => Service!SvcInit /\ [][Service!SvcNext]_(Service!svc_vars)
<1>1. SecTxInit => Service!SvcInit
  <2> SUFFICES ASSUME SecTxInit
               PROVE  Service!SvcInit
    OBVIOUS
  <2>1. Line = <<>> /\ outcome = [m \in Msgs |-> "new"]
    BY LineAtRest DEF SecTxInit, Line
  <2> QED
    BY <2>1, Zenon DEF Line, Service!SvcInit
<1>2. SecTxInv /\ [SecTxNext]_sec_tx_vars => [Service!SvcNext]_(Service!svc_vars)
  BY StepSimulates DEF SecTxInv
<1> QED
  BY <1>1, <1>2, SecTxInvariant, PTL DEF SecTxSpec

---------------------------------------------------------------------------
(***************************************************************************)
(* Secure inclusion, for every number of inclusions, for controllers and   *)
(* slaves, whatever is lost, repeated, refused, late or aborted.           *)
(*                                                                         *)
(* The argument: an inclusion begins with nothing on the air that is       *)
(* encrypted, and with the added node at rest.  From then on what is       *)
(* encrypted with the network key comes from a node that has been given    *)
(* it in this inclusion (KeyInv), and it keeps that key, because only      *)
(* the end of the next inclusion's protocol part resets it.  The           *)
(* adding side asks a node to inherit the scheme only once it has been     *)
(* shown the key (InheritInv); a late call of an earlier inclusion may     *)
(* move its machine, but not past the state that waits for that proof.     *)
(***************************************************************************)

\* What only a node that has the network key can have brought about.
NwSaid == verified \/ \E m \in air : m.key = "nw"

\* The added side waits exactly while its user does.
IncdInv == incd_sta # "IDLE" <=> incd_op = "wait"

\* What has been said with the network key was said in this inclusion, by a node
\* that has it still.
KeyInv ==
  /\ NwSaid => key = "nw" /\ incd_op # "learn"
  /\ incd_sta = "WAIT_SCH_INHERIT" => key = "nw"

\* SCHEME_INHERIT follows the proof of the key, and so does either end.
InheritInv ==
  /\ \A m \in air : m.cmd = "SCHEME_INHERIT" => m.key = "nw" /\ verified
  /\ add_op = "wait" /\ add_sta = "WAIT_INHERIT_RPT" => verified
  /\ "ok" \in {add_op, incd_op} => verified

SecInclInv == SecInclTypeOK /\ IncdInv /\ KeyInv /\ InheritInv

---------------------------------------------------------------------------
(* The radio.                                                              *)

\* What is on the air after a send is what was left there, or what is sent.
LEMMA EmitsOnly ==
  ASSUME NEW rest \in SUBSET InclMsgs, NEW cmd \in Cmds, NEW k \in Keys, Emits(rest, cmd, k)
  PROVE  /\ air' \subseteq InclMsgs
         /\ \A m \in air' : m \in rest \/ (m.cmd = cmd /\ m.key = k)
<1>1. SchemesOf(cmd) \subseteq {"ok", "bad"}
  BY SecInclAssumption DEF SchemesOf
<1>2. CASE air' = rest
  BY <1>2
<1>3. ASSUME NEW s \in SchemesOf(cmd), air' = rest \cup {[cmd |-> cmd, key |-> k, scheme |-> s]}
      PROVE  /\ air' \subseteq InclMsgs
             /\ \A m \in air' : m \in rest \/ (m.cmd = cmd /\ m.key = k)
  BY <1>1, <1>3 DEF InclMsgs
<1> QED
  BY <1>2, <1>3 DEF Emits

\* Taking a command leaves nothing that was not there.
LEMMA TakenFewer ==
  ASSUME NEW m, NEW rest \in Taken(m)
  PROVE  rest \subseteq air
BY DEF Taken

---------------------------------------------------------------------------
(* The adding side.  Its steps leave the added node alone, so it is enough *)
(* that they send nothing with the network key before verified.            *)

\* A step that leaves the added side alone and sends only what may be sent.
LEMMA AddKeeps ==
  ASSUME SecInclInv, UNCHANGED <<incd_vars, incls, inherited, punctual>>,
         verified' \in BOOLEAN, verified => verified', verified' => NwSaid,
         air' \subseteq InclMsgs,
         \A m \in air' : \/ m \in air
                         \/ m.key # "nw" /\ m.cmd # "SCHEME_INHERIT"
                         \/ m.key = "nw" /\ verified',
         add_sta' \in {"IDLE", "WAIT_SCHEME", "WAIT_VERIFY", "WAIT_INHERIT_RPT"},
         add_tmr' \in {"none"} \cup AddTmrs, add_late' \in [AddTmrs -> 0 .. MaxLate],
         add_op' \in Ops,
         add_op' = "wait" /\ add_sta' = "WAIT_INHERIT_RPT" => verified',
         add_op' = "ok" => verified'
  PROVE  SecInclInv'
<1>1. SecInclTypeOK'
  BY DEF SecInclInv, SecInclTypeOK, incd_vars
<1>2. IncdInv'
  BY DEF SecInclInv, IncdInv, incd_vars
<1>3. KeyInv'
  BY DEF SecInclInv, KeyInv, NwSaid, incd_vars
<1>4. InheritInv'
  BY DEF SecInclInv, InheritInv, incd_vars
<1> QED
  BY <1>1, <1>2, <1>3, <1>4 DEF SecInclInv

\* The inclusion begins: nothing encrypted is left from the one before.
LEMMA AddStartKeeps == SecInclInv /\ AddStart => SecInclInv'
<1> SUFFICES ASSUME SecInclInv, AddStart PROVE SecInclInv'
  OBVIOUS
<1> USE DEF AddStart
<1>1. incd_sta = "IDLE"
  BY DEF SecInclInv, IncdInv
<1>2. incls' \in 0 .. MaxIncl
  BY SecInclAssumption DEF SecInclInv, SecInclTypeOK
<1>3. SecInclTypeOK'
  BY <1>2 DEF SecInclInv, SecInclTypeOK, Ops, AddTmrs
<1>4. IncdInv'
  BY <1>1 DEF IncdInv
<1>5. KeyInv'
  BY <1>1 DEF KeyInv, NwSaid
<1>6. InheritInv'
  <2>1. \A m \in air' : m.key = "none" /\ m \in air
    OBVIOUS
  <2>2. \A m \in air' : m.cmd # "SCHEME_INHERIT"
    BY <2>1 DEF SecInclInv, InheritInv
  <2>3. "ok" \notin {add_op', incd_op'}
    OBVIOUS
  <2>4. ~ (add_op' = "wait" /\ add_sta' = "WAIT_INHERIT_RPT")
    OBVIOUS
  <2> QED
    BY <2>2, <2>3, <2>4 DEF InheritInv
<1> QED
  BY <1>3, <1>4, <1>5, <1>6 DEF SecInclInv

\* What its callers are told is told to one who waits.
LEMMA AddToldTypes ==
  ASSUME SecInclTypeOK, NEW result \in {"ok", "failed"}, AddTells(result)
  PROVE  /\ add_op' \in Ops /\ add_op' # "wait"
         /\ add_op' = "ok" => add_op = "ok" \/ result = "ok"
BY DEF SecInclTypeOK, AddTells, Ops

\* A call that waited is served; one more waits.
LEMMA LateTypes ==
  ASSUME SecInclTypeOK, NEW t \in AddTmrs
  PROVE  /\ AddCalled(t) => add_late' \in [AddTmrs -> 0 .. MaxLate]
         /\ add_late[t] < MaxLate => [add_late EXCEPT ![t] = @ + 1] \in [AddTmrs -> 0 .. MaxLate]
BY SecInclAssumption DEF SecInclTypeOK, AddCalled

\* The timers of the adding side and its user.
LEMMA AddTimerKeeps == SecInclInv /\ (AddTimer \/ AddAbort) => SecInclInv'
<1> SUFFICES ASSUME SecInclInv, AddTimer \/ AddAbort PROVE SecInclInv'
  OBVIOUS
<1> USE DEF obs_vars
<1>1. /\ SecInclTypeOK /\ verified \in BOOLEAN /\ air \in SUBSET InclMsgs
      /\ verified => NwSaid
      /\ add_op = "ok" => verified
      /\ add_op = "wait" /\ add_sta = "WAIT_INHERIT_RPT" => verified
      /\ add_sta \in {"IDLE", "WAIT_SCHEME", "WAIT_VERIFY", "WAIT_INHERIT_RPT"} /\ add_op \in Ops
  BY DEF SecInclInv, SecInclTypeOK, NwSaid, InheritInv
<1>2. "none" \in {"none"} \cup AddTmrs /\ "state" \in AddTmrs /\ "delay" \in AddTmrs
  BY DEF AddTmrs
<1>3. CASE AddTmrExpires
  <2>1. add_tmr \in AddTmrs
    BY <1>1, <1>3 DEF AddTmrExpires, SecInclTypeOK
  <2>2. add_late' \in [AddTmrs -> 0 .. MaxLate] /\ add_tmr' = "none"
    BY <1>1, <1>3, <2>1, LateTypes DEF AddTmrExpires
  <2> QED
    BY <1>1, <1>2, <1>3, <2>2, AddKeeps DEF AddTmrExpires
<1>4. CASE AddDelayCb
  <2>1. /\ add_late' \in [AddTmrs -> 0 .. MaxLate] /\ UNCHANGED verified
        /\ UNCHANGED <<incd_vars, incls, inherited, punctual>>
    BY <1>1, <1>2, <1>4, LateTypes DEF AddDelayCb
  <2>2. CASE Emits(air, "SCHEME_GET", "none") /\ AddWaits("WAIT_SCHEME")
    <3>1. /\ air' \subseteq InclMsgs
          /\ \A m \in air' : m \in air \/ (m.cmd = "SCHEME_GET" /\ m.key = "none")
      BY <1>1, <2>2, EmitsOnly DEF Cmds, Keys
    <3>2. add_sta' = "WAIT_SCHEME" /\ add_tmr' = "state" /\ add_op' = add_op
      BY <2>2 DEF AddWaits, StateTmr
    <3> QED
      BY <1>1, <1>2, <2>1, <3>1, <3>2, AddKeeps
  <2>3. CASE add_tmr' = "none" /\ AddTells("failed") /\ UNCHANGED <<add_sta, air>>
    <3>1. add_op' \in Ops /\ add_op' # "wait" /\ (add_op' = "ok" => add_op = "ok")
      BY <1>1, <2>3, AddToldTypes
    <3> QED
      BY <1>1, <1>2, <2>1, <2>3, <3>1, AddKeeps
  <2> QED
    BY <1>4, <2>2, <2>3 DEF AddDelayCb
<1>5. CASE AddTmoutCb
  <2>1. /\ add_late' \in [AddTmrs -> 0 .. MaxLate] /\ add_tmr' = "none"
        /\ UNCHANGED <<incd_vars, incls, inherited, punctual, verified, air>>
    BY <1>1, <1>2, <1>5, LateTypes DEF AddTmoutCb
  <2>2. CASE UNCHANGED <<add_sta, add_op>>
    BY <1>1, <1>2, <2>1, <2>2, AddKeeps
  <2>3. CASE AddReports("failed")
    <3>1. add_sta' = "IDLE" /\ add_op' \in Ops /\ (add_op' = "ok" => add_op = "ok")
      BY <1>1, <2>3, AddToldTypes DEF AddReports
    <3> QED
      BY <1>1, <1>2, <2>1, <3>1, AddKeeps
  <2> QED
    BY <1>5, <2>2, <2>3 DEF AddTmoutCb
<1>6. CASE AddAbort
  <2>1. /\ add_op' = "aborted" /\ add_tmr' = "none" /\ add_sta' = "IDLE" /\ "aborted" \in Ops
        /\ UNCHANGED <<add_late, incd_vars, incls, inherited, punctual, verified, air>>
    BY <1>6 DEF AddAbort, Ops
  <2> QED
    BY <1>1, <1>2, <2>1, AddKeeps DEF SecInclTypeOK
<1> QED
  BY <1>3, <1>4, <1>5, <1>6 DEF AddTimer

\* Sending the next command, or failing to.
LEMMA AddSendsTypes ==
  ASSUME SecInclTypeOK, NEW m, NEW cmd \in Cmds, NEW k \in Keys,
         NEW sta \in {"WAIT_VERIFY", "WAIT_INHERIT_RPT"}, AddSends(m, cmd, k, sta)
  PROVE  /\ air' \subseteq InclMsgs
         /\ \A n \in air' : n \in air \/ (n.cmd = cmd /\ n.key = k)
         /\ add_tmr' \in {"none"} \cup AddTmrs
         /\ \/ add_sta' = sta /\ add_op' = add_op
            \/ add_sta' = "IDLE" /\ add_op' \in Ops /\ (add_op' = "ok" => add_op = "ok")
<1>1. air \in SUBSET InclMsgs
  BY DEF SecInclTypeOK
<1>2. CASE (\E rest \in Taken(m) : Emits(rest, cmd, k)) /\ AddWaits(sta)
  <2>1. PICK rest \in Taken(m) : Emits(rest, cmd, k)
    BY <1>2
  <2>2. rest \subseteq air
    BY TakenFewer
  <2>3. air' \subseteq InclMsgs /\ \A n \in air' : n \in rest \/ (n.cmd = cmd /\ n.key = k)
    BY <1>1, <2>1, <2>2, EmitsOnly
  <2> QED
    BY <1>2, <2>2, <2>3 DEF AddWaits, StateTmr, AddTmrs
<1>3. CASE air' \in Taken(m) /\ add_tmr' = "none" /\ AddReports("failed")
  <2>1. air' \subseteq air
    BY <1>3, TakenFewer
  <2> QED
    BY <1>1, <1>3, <2>1, AddToldTypes DEF AddReports
<1> QED
  BY <1>2, <1>3 DEF AddSends

\* SECURITY_SCHEME_REPORT: in WAIT_SCHEME the key is sent, with the zero key; in
\* WAIT_INHERIT_RPT the node was verified before.
LEMMA AddSchemeRptKeeps ==
  ASSUME NEW m, SecInclInv, AddSchemeRpt(m)
  PROVE  SecInclInv'
<1>1. /\ SecInclTypeOK /\ verified \in BOOLEAN /\ air \in SUBSET InclMsgs
      /\ verified => NwSaid
      /\ add_op = "ok" => verified
      /\ add_op = "wait" /\ add_sta = "WAIT_INHERIT_RPT" => verified
      /\ add_sta \in {"IDLE", "WAIT_SCHEME", "WAIT_VERIFY", "WAIT_INHERIT_RPT"} /\ add_op \in Ops
      /\ add_tmr \in {"none"} \cup AddTmrs
  BY DEF SecInclInv, SecInclTypeOK, NwSaid, InheritInv
<1>2. /\ UNCHANGED <<incd_vars, incls, inherited, punctual>> /\ verified' = verified
      /\ add_late' \in [AddTmrs -> 0 .. MaxLate]
  BY <1>1 DEF AddSchemeRpt, obs_vars, SecInclTypeOK
<1>3. CASE AddSends(m, "KEY_SET", "zero", AfterKeySet)
  <2>1. /\ air' \subseteq InclMsgs
        /\ \A n \in air' : n \in air \/ (n.cmd = "KEY_SET" /\ n.key = "zero")
        /\ add_tmr' \in {"none"} \cup AddTmrs
        /\ \/ add_sta' = "WAIT_VERIFY" /\ add_op' = add_op
           \/ add_sta' = "IDLE" /\ add_op' \in Ops /\ (add_op' = "ok" => add_op = "ok")
    BY <1>1, <1>3, AddSendsTypes DEF AfterKeySet, Cmds, Keys
  <2> QED
    BY <1>1, <1>2, <2>1, AddKeeps
<1>4. ASSUME air' \in Taken(m), add_tmr' \in {"none"} \cup AddTmrs,
             NEW r \in {"ok", "failed"}, AddReports(r),
             r = "ok" => add_sta = "WAIT_INHERIT_RPT"
      PROVE  SecInclInv'
  <2>1. air' \subseteq air
    BY <1>4, TakenFewer
  <2>2. add_sta' = "IDLE" /\ add_op' \in Ops /\ add_op' # "wait"
    BY <1>1, <1>4, AddToldTypes DEF AddReports
  <2>3. add_op' = "ok" => verified
    BY <1>1, <1>4 DEF AddReports, AddTells
  <2> QED
    BY <1>1, <1>2, <1>4, <2>1, <2>2, <2>3, AddKeeps
<1>5. CASE air' \in Taken(m) /\ UNCHANGED <<add_sta, add_tmr, add_op>>
  <2>1. air' \subseteq air
    BY <1>5, TakenFewer
  <2> QED
    BY <1>1, <1>2, <1>5, <2>1, AddKeeps
<1> QED
  BY <1>1, <1>3, <1>4, <1>5 DEF AddSchemeRpt

\* NETWORK_KEY_VERIFY: it is read with the network key, so a node that has it said it.
LEMMA AddKeyVerifyKeeps ==
  ASSUME NEW m, SecInclInv, AddKeyVerify(m)
  PROVE  SecInclInv'
<1>1. /\ SecInclTypeOK /\ verified \in BOOLEAN /\ air \in SUBSET InclMsgs
      /\ verified => NwSaid
      /\ add_op = "ok" => verified
      /\ add_op = "wait" /\ add_sta = "WAIT_INHERIT_RPT" => verified
      /\ add_sta \in {"IDLE", "WAIT_SCHEME", "WAIT_VERIFY", "WAIT_INHERIT_RPT"} /\ add_op \in Ops
      /\ add_tmr \in {"none"} \cup AddTmrs /\ "none" \in {"none"} \cup AddTmrs
  BY DEF SecInclInv, SecInclTypeOK, NwSaid, InheritInv
<1>2. /\ UNCHANGED <<incd_vars, incls, inherited, punctual>>
      /\ add_late' \in [AddTmrs -> 0 .. MaxLate] /\ m \in air
  BY <1>1 DEF AddKeyVerify, SecInclTypeOK
<1>3. CASE m.key = "nw" /\ verified' = TRUE /\ AddSends(m, "SCHEME_INHERIT", "nw", "WAIT_INHERIT_RPT")
  <2>1. /\ air' \subseteq InclMsgs
        /\ \A n \in air' : n \in air \/ (n.cmd = "SCHEME_INHERIT" /\ n.key = "nw")
        /\ add_tmr' \in {"none"} \cup AddTmrs
        /\ \/ add_sta' = "WAIT_INHERIT_RPT" /\ add_op' = add_op
           \/ add_sta' = "IDLE" /\ add_op' \in Ops /\ (add_op' = "ok" => add_op = "ok")
    BY <1>1, <1>3, AddSendsTypes DEF Cmds, Keys
  <2>2. NwSaid
    BY <1>2, <1>3 DEF NwSaid
  <2> QED
    BY <1>1, <1>2, <1>3, <2>1, <2>2, AddKeeps
<1>4. CASE m.key = "nw" /\ verified' = TRUE /\ air' \in Taken(m) /\ add_tmr' = "none" /\ AddReports("ok")
  <2>1. air' \subseteq air
    BY <1>4, TakenFewer
  <2>2. add_sta' = "IDLE" /\ add_op' \in Ops
    BY <1>1, <1>4, AddToldTypes DEF AddReports
  <2>3. NwSaid
    BY <1>2, <1>4 DEF NwSaid
  <2> QED
    BY <1>1, <1>2, <1>4, <2>1, <2>2, <2>3, AddKeeps
<1>5. CASE air' \in Taken(m) /\ UNCHANGED <<add_sta, add_tmr, add_op, verified>>
  <2>1. air' \subseteq air
    BY <1>5, TakenFewer
  <2> QED
    BY <1>1, <1>2, <1>5, <2>1, AddKeeps
<1> QED
  BY <1>3, <1>4, <1>5 DEF AddKeyVerify

---------------------------------------------------------------------------
(* The added side.  Its steps leave the adding one alone, and verified.    *)

IncdStates == {"IDLE", "WAIT_SCH_GET", "WAIT_NW_KEY", "WAIT_SCH_INHERIT"}

\* A step of the added side that sends only what may be sent, and has the key in
\* the end if it has it at any time.
LEMMA IncdKeeps ==
  ASSUME SecInclInv, UNCHANGED <<add_vars, incls, verified, punctual>>, inherited' \in BOOLEAN,
         incd_sta' \in IncdStates, incd_tmr' \in {"none", "state"}, incd_late' \in 0 .. MaxLate,
         incd_op' \in Ops \cup {"learn"}, incd_sta' # "IDLE" <=> incd_op' = "wait",
         sec_chk' \in BOOLEAN, early' \in {"none", "ok", "bad"}, key' \in Keys,
         air' \subseteq InclMsgs,
         \A n \in air' : \/ n \in air
                         \/ n.cmd # "SCHEME_INHERIT" /\ (n.key = "nw" => key' = "nw" /\ incd_op' # "learn"),
         incd_op' = "learn" => incd_op = "learn",
         key = "nw" /\ incd_op # "learn" => key' = "nw",
         incd_sta' = "WAIT_SCH_INHERIT" => key' = "nw",
         incd_op' = "ok" => verified
  PROVE  SecInclInv'
<1>1. SecInclTypeOK'
  BY DEF SecInclInv, SecInclTypeOK, add_vars, IncdStates
<1>2. IncdInv'
  BY DEF IncdInv
<1>3. KeyInv'
  <2>1. NwSaid' => NwSaid \/ (key' = "nw" /\ incd_op' # "learn")
    BY DEF NwSaid
  <2> QED
    BY <2>1 DEF SecInclInv, KeyInv
<1>4. InheritInv'
  BY DEF SecInclInv, InheritInv, add_vars
<1> QED
  BY <1>1, <1>2, <1>3, <1>4 DEF SecInclInv

\* Either it waits on, or it is at rest with its user told.
LEMMA IncdWaitsTypes ==
  ASSUME NEW sta \in IncdStates \ {"IDLE"}, IncdWaits(sta)
  PROVE  /\ incd_sta' = sta /\ incd_op' = "wait" /\ incd_tmr' \in {"none", "state"}
         /\ incd_op' \in Ops \cup {"learn"} /\ incd_sta' \in IncdStates
         /\ incd_sta' # "IDLE" <=> incd_op' = "wait"
BY DEF IncdWaits, IncdStates, Ops

LEMMA IncdReportsTypes ==
  ASSUME SecInclTypeOK, NEW result \in {"ok", "failed"}, IncdReports(result)
  PROVE  /\ incd_sta' = "IDLE" /\ incd_op' \notin {"learn", "wait"} /\ incd_tmr' = "none"
         /\ incd_op' \in Ops \cup {"learn"} /\ incd_sta' \in IncdStates
         /\ incd_sta' # "IDLE" <=> incd_op' = "wait"
         /\ incd_op' = "ok" => incd_op = "ok" \/ result = "ok"
BY DEF SecInclTypeOK, IncdReports, IncdStates, Ops

\* SECURITY_SCHEME_GET is answered, or the inclusion has failed.
LEMMA IncdSchemeTypes ==
  ASSUME SecInclTypeOK, NEW rest \in SUBSET air, NEW scheme, IncdScheme(rest, scheme)
  PROVE  /\ air' \subseteq InclMsgs
         /\ \A n \in air' : n \in air \/ (n.cmd = "SCHEME_REPORT" /\ n.key = "none")
         /\ incd_tmr' \in {"none", "state"} /\ incd_op' \in Ops /\ incd_op' # "learn"
         /\ incd_sta' \in {"IDLE", "WAIT_NW_KEY"} /\ (incd_sta' # "IDLE" <=> incd_op' = "wait")
         /\ incd_op' = "ok" => incd_op = "ok"
<1>1. rest \in SUBSET InclMsgs
  BY DEF SecInclTypeOK
<1>2. CASE Emits(rest, "SCHEME_REPORT", "none") /\ IncdWaits("WAIT_NW_KEY")
  <2>1. air' \subseteq InclMsgs /\ \A n \in air' : n \in rest \/ (n.cmd = "SCHEME_REPORT" /\ n.key = "none")
    BY <1>1, <1>2, EmitsOnly DEF Cmds, Keys
  <2> QED
    BY <1>2, <2>1 DEF IncdWaits, Ops
<1>3. CASE air' = rest /\ IncdReports("failed")
  BY <1>1, <1>3 DEF IncdReports, SecInclTypeOK, Ops
<1> QED
  BY <1>2, <1>3 DEF IncdScheme

\* Facts the lemmas of the single steps share.
LEMMA IncdFacts ==
  ASSUME SecInclInv
  PROVE  /\ SecInclTypeOK /\ inherited \in BOOLEAN /\ incd_sta \in IncdStates
         /\ incd_tmr \in {"none", "state"} /\ incd_late \in 0 .. MaxLate
         /\ incd_op \in Ops \cup {"learn"} /\ (incd_sta # "IDLE" <=> incd_op = "wait")
         /\ sec_chk \in BOOLEAN /\ early \in {"none", "ok", "bad"} /\ key \in Keys
         /\ air \in SUBSET InclMsgs
         /\ incd_op = "ok" => verified
         /\ incd_sta = "WAIT_SCH_INHERIT" => key = "nw"
BY DEF SecInclInv, SecInclTypeOK, IncdInv, KeyInv, InheritInv, IncdStates

\* The protocol part has ended: the key is reset, before anything was said with it.
LEMMA IncdStartKeeps == SecInclInv /\ IncdStart => SecInclInv'
<1> SUFFICES ASSUME SecInclInv, IncdStart PROVE SecInclInv'
  OBVIOUS
<1>1. /\ incd_op = "learn" /\ sec_chk' = FALSE
      /\ UNCHANGED <<add_vars, incls, verified, inherited, punctual, incd_late, early>>
  BY DEF IncdStart, obs_vars
<1>2. incd_sta = "IDLE"
  BY <1>1, IncdFacts
<1>3. key' = "zero" /\ "zero" \in Keys
  BY <1>2 DEF IncdStart, Keys
<1>4. CASE IncdScheme(air, early)
  <2>1. /\ air' \subseteq InclMsgs
        /\ \A n \in air' : n \in air \/ (n.cmd = "SCHEME_REPORT" /\ n.key = "none")
        /\ incd_tmr' \in {"none", "state"} /\ incd_op' \in Ops /\ incd_op' # "learn"
        /\ incd_sta' \in {"IDLE", "WAIT_NW_KEY"} /\ (incd_sta' # "IDLE" <=> incd_op' = "wait")
        /\ incd_op' = "ok" => incd_op = "ok"
    BY <1>4, IncdFacts, IncdSchemeTypes
  <2>2. incd_sta' \in IncdStates /\ incd_sta' # "WAIT_SCH_INHERIT"
    BY <2>1 DEF IncdStates
  <2> QED
    BY <1>1, <1>3, <2>1, <2>2, IncdFacts, IncdKeeps
<1>5. CASE IncdWaits("WAIT_SCH_GET") /\ UNCHANGED air
  <2>1. /\ incd_sta' = "WAIT_SCH_GET" /\ incd_op' = "wait" /\ incd_tmr' \in {"none", "state"}
        /\ incd_op' \in Ops \cup {"learn"} /\ incd_sta' \in IncdStates
        /\ incd_sta' # "IDLE" <=> incd_op' = "wait"
    BY <1>5, IncdWaitsTypes DEF IncdStates
  <2> QED
    BY <1>1, <1>3, <1>5, <2>1, IncdFacts, IncdKeeps
<1> QED
  BY <1>2, <1>4, <1>5 DEF IncdStart

\* SECURITY_SCHEME_GET, remembered or answered.
LEMMA IncdSchemeGetKeeps ==
  ASSUME NEW m, SecInclInv, IncdSchemeGet(m)
  PROVE  SecInclInv'
<1>1. /\ UNCHANGED <<add_vars, incls, verified, inherited, punctual, incd_late, key>>
      /\ m \in air /\ sec_chk' = FALSE
  BY DEF IncdSchemeGet, obs_vars
<1>2. early' \in {"none", "ok", "bad"}
  <2>1. m.scheme \in {"ok", "bad"}
    BY <1>1, IncdFacts DEF InclMsgs
  <2> QED
    BY <2>1, IncdFacts DEF IncdSchemeGet
<1>3. CASE incd_sta = "WAIT_SCH_GET" /\ \E rest \in Taken(m) : IncdScheme(rest, m.scheme)
  <2>1. PICK rest \in Taken(m) : IncdScheme(rest, m.scheme)
    BY <1>3
  <2>2. rest \in SUBSET air
    BY TakenFewer
  <2>3. /\ air' \subseteq InclMsgs
        /\ \A n \in air' : n \in air \/ (n.cmd = "SCHEME_REPORT" /\ n.key = "none")
        /\ incd_tmr' \in {"none", "state"} /\ incd_op' \in Ops /\ incd_op' # "learn"
        /\ incd_sta' \in {"IDLE", "WAIT_NW_KEY"} /\ (incd_sta' # "IDLE" <=> incd_op' = "wait")
        /\ incd_op' = "ok" => incd_op = "ok"
    BY <2>1, <2>2, IncdFacts, IncdSchemeTypes
  <2>4. incd_sta' \in IncdStates /\ incd_sta' # "WAIT_SCH_INHERIT"
    BY <2>3 DEF IncdStates
  <2> QED
    BY <1>1, <1>2, <2>3, <2>4, IncdFacts, IncdKeeps
<1>4. CASE air' \in Taken(m) /\ UNCHANGED <<incd_sta, incd_tmr, incd_op>>
  <2>1. air' \subseteq air
    BY <1>4, TakenFewer
  <2> QED
    BY <1>1, <1>2, <1>4, <2>1, IncdFacts, IncdKeeps
<1> QED
  BY <1>3, <1>4 DEF IncdSchemeGet

\* NETWORK_KEY_SET: the first that is said with the network key is KEY_VERIFY.
LEMMA IncdKeySetKeeps ==
  ASSUME NEW m, SecInclInv, IncdKeySet(m)
  PROVE  SecInclInv'
<1>1. UNCHANGED <<add_vars, incls, verified, inherited, punctual, incd_late, sec_chk, early>>
  BY DEF IncdKeySet, obs_vars
<1>2. "nw" \in Keys /\ "zero" \in Keys /\ "KEY_VERIFY" \in Cmds
  BY DEF Keys, Cmds
<1>3. air \ {m} \in SUBSET InclMsgs
  BY IncdFacts
<1>4. CASE /\ incd_sta = "WAIT_NW_KEY" /\ key' = "nw"
           /\ Emits(air \ {m}, "KEY_VERIFY", "nw") /\ IncdWaits("WAIT_SCH_INHERIT")
  <2>1. air' \subseteq InclMsgs /\ \A n \in air' : n \in air \ {m} \/ (n.cmd = "KEY_VERIFY" /\ n.key = "nw")
    BY <1>2, <1>3, <1>4, EmitsOnly
  <2>2. /\ incd_op' = "wait" /\ incd_tmr' \in {"none", "state"}
        /\ incd_op' \in Ops \cup {"learn"} /\ incd_sta' \in IncdStates
        /\ incd_sta' # "IDLE" <=> incd_op' = "wait"
    BY <1>4, IncdWaitsTypes DEF IncdStates
  <2> QED
    BY <1>1, <1>2, <1>4, <2>1, <2>2, IncdFacts, IncdKeeps
<1>5. CASE incd_sta = "WAIT_NW_KEY" /\ key' = "nw" /\ air' = air \ {m} /\ IncdReports("failed")
  <2>1. /\ incd_sta' = "IDLE" /\ incd_op' \notin {"learn", "wait"} /\ incd_tmr' = "none"
        /\ incd_op' \in Ops \cup {"learn"} /\ incd_sta' \in IncdStates
        /\ incd_sta' # "IDLE" <=> incd_op' = "wait"
        /\ incd_op' = "ok" => incd_op = "ok"
    BY <1>5, IncdFacts, IncdReportsTypes
  <2> QED
    BY <1>1, <1>2, <1>3, <1>5, <2>1, IncdFacts, IncdKeeps
<1>6. CASE air' = air \ {m} /\ UNCHANGED <<incd_sta, incd_tmr, incd_op, key>>
  BY <1>1, <1>3, <1>6, IncdFacts, IncdKeeps
<1> QED
  BY <1>4, <1>5, <1>6 DEF IncdKeySet

\* SECURITY_SCHEME_INHERIT comes from a side that has verified the key.
LEMMA IncdInheritKeeps ==
  ASSUME NEW m, SecInclInv, IncdInherit(m)
  PROVE  SecInclInv'
<1>1. /\ UNCHANGED <<add_vars, incls, verified, punctual, incd_late, sec_chk, early, key>>
      /\ m \in air /\ inherited' \in BOOLEAN
  BY IncdFacts DEF IncdInherit
<1>2. verified
  BY DEF IncdInherit, SecInclInv, InheritInv
<1>3. "nw" \in Keys /\ "SCHEME_REPORT" \in Cmds /\ air \ {m} \in SUBSET InclMsgs
  BY IncdFacts DEF Keys, Cmds
<1>4. ASSUME NEW r \in {"ok", "failed"}, IncdReports(r), air' \subseteq InclMsgs, incd_sta = "WAIT_SCH_INHERIT",
             \A n \in air' : n \in air \ {m} \/ (n.cmd = "SCHEME_REPORT" /\ n.key = "nw")
      PROVE  SecInclInv'
  <2>1. /\ incd_sta' = "IDLE" /\ incd_op' \notin {"learn", "wait"} /\ incd_tmr' = "none"
        /\ incd_op' \in Ops \cup {"learn"} /\ incd_sta' \in IncdStates
        /\ incd_sta' # "IDLE" <=> incd_op' = "wait"
    BY <1>4, IncdFacts, IncdReportsTypes
  <2>2. key = "nw"
    BY <1>4, IncdFacts
  <2> QED
    BY <1>1, <1>2, <1>4, <2>1, <2>2, IncdFacts, IncdKeeps
<1>5. CASE incd_sta = "WAIT_SCH_INHERIT" /\ Emits(air \ {m}, "SCHEME_REPORT", "nw") /\ IncdReports("ok")
  BY <1>3, <1>4, <1>5, EmitsOnly
<1>6. CASE incd_sta = "WAIT_SCH_INHERIT" /\ air' = air \ {m} /\ IncdReports("failed")
  BY <1>3, <1>4, <1>6
<1>7. CASE air' = air \ {m} /\ UNCHANGED <<incd_sta, incd_tmr, incd_op, inherited>>
  BY <1>1, <1>3, <1>7, IncdFacts, IncdKeeps
<1> QED
  BY <1>5, <1>6, <1>7 DEF IncdInherit

\* The timer of the added side and its user.
LEMMA IncdTimerKeeps == SecInclInv /\ (IncdTimer \/ IncdAbort) => SecInclInv'
<1> SUFFICES ASSUME SecInclInv, IncdTimer \/ IncdAbort PROVE SecInclInv'
  OBVIOUS
<1> USE DEF obs_vars
<1>1. UNCHANGED <<add_vars, incls, verified, inherited, punctual, sec_chk, early, key, air>>
  BY DEF IncdTimer, IncdTmrExpires, IncdTmoutCb, IncdAbort
<1>2. CASE IncdTmrExpires
  <2>1. incd_late' \in 0 .. MaxLate
    BY <1>2, SecInclAssumption, IncdFacts DEF IncdTmrExpires
  <2> QED
    BY <1>1, <1>2, <2>1, IncdFacts, IncdKeeps DEF IncdTmrExpires
<1>3. CASE IncdTmoutCb
  <2>1. incd_late' \in 0 .. MaxLate
    BY <1>3, SecInclAssumption, IncdFacts DEF IncdTmoutCb
  <2>2. CASE incd_tmr' = "none" /\ UNCHANGED <<incd_sta, incd_op>>
    BY <1>1, <2>1, <2>2, IncdFacts, IncdKeeps
  <2>3. CASE IncdReports("failed")
    <3>1. /\ incd_sta' = "IDLE" /\ incd_op' \notin {"learn", "wait"} /\ incd_tmr' = "none"
          /\ incd_op' \in Ops \cup {"learn"} /\ incd_sta' \in IncdStates
          /\ incd_sta' # "IDLE" <=> incd_op' = "wait"
          /\ incd_op' = "ok" => incd_op = "ok"
      BY <2>3, IncdFacts, IncdReportsTypes
    <3> QED
      BY <1>1, <2>1, <3>1, IncdFacts, IncdKeeps
  <2> QED
    BY <1>3, <2>2, <2>3 DEF IncdTmoutCb
<1>4. CASE IncdAbort
  <2>1. /\ incd_op' = "aborted" /\ incd_sta' = "IDLE" /\ incd_tmr' \in {"none", "state"}
        /\ incd_late' = incd_late /\ "aborted" \in Ops /\ "IDLE" \in IncdStates
    BY <1>4, IncdFacts DEF IncdAbort, Ops, IncdStates
  <2> QED
    BY <1>1, <2>1, IncdFacts, IncdKeeps
<1> QED
  BY <1>2, <1>3, <1>4 DEF IncdTimer

---------------------------------------------------------------------------
(* The theorems.                                                           *)

\* The invariant of secure inclusion holds.
THEOREM SecInclInvHolds == SecInclSpec => []SecInclInv
<1>1. SecInclInit => SecInclInv
  <2> SUFFICES ASSUME SecInclInit PROVE SecInclInv
    OBVIOUS
  <2>1. OnTime \in [AddTmrs -> 0 .. MaxLate] /\ 0 \in 0 .. MaxIncl /\ 0 \in 0 .. MaxLate
    BY SecInclAssumption DEF OnTime
  <2>2. SecInclTypeOK
    BY <2>1 DEF SecInclInit, SecInclTypeOK, Ops, Keys
  <2>3. IncdInv /\ KeyInv /\ InheritInv
    BY DEF SecInclInit, IncdInv, KeyInv, InheritInv, NwSaid
  <2> QED
    BY <2>2, <2>3 DEF SecInclInv
<1>2. SecInclInv /\ [SecInclNext]_sec_incl_vars => SecInclInv'
  <2> SUFFICES ASSUME SecInclInv, [SecInclNext]_sec_incl_vars PROVE SecInclInv'
    OBVIOUS
  <2>1. CASE UNCHANGED sec_incl_vars
    BY <2>1 DEF sec_incl_vars, add_vars, incd_vars, obs_vars, SecInclInv, SecInclTypeOK, IncdInv,
       KeyInv, InheritInv, NwSaid
  <2>2. CASE AddStart
    BY <2>2, AddStartKeeps
  <2>3. CASE AddTimer \/ AddAbort
    BY <2>3, AddTimerKeeps
  <2>4. CASE IncdStart
    BY <2>4, IncdStartKeeps
  <2>5. CASE IncdTimer \/ IncdAbort
    BY <2>5, IncdTimerKeeps
  <2>6. CASE \E m \in air : \/ AddSchemeRpt(m) \/ AddKeyVerify(m)
                            \/ IncdSchemeGet(m) \/ IncdKeySet(m) \/ IncdInherit(m)
    BY <2>6, AddSchemeRptKeeps, AddKeyVerifyKeeps, IncdSchemeGetKeeps, IncdKeySetKeeps, IncdInheritKeeps
  <2> QED
    BY <2>1, <2>2, <2>3, <2>4, <2>5, <2>6 DEF SecInclNext
<1> QED
  BY <1>1, <1>2, PTL DEF SecInclSpec

\* The state machines, timers, keys and commands of both sides have their types.
THEOREM SecInclTypesHold == SecInclSpec => []SecInclTypeOK
BY SecInclInvHolds, PTL DEF SecInclInv

\* A side that is told 0 has to do with a node that proved in this inclusion that it
\* has the network key, and that has it still.
THEOREM OkIsVerified == SecInclSpec => []OkMeansVerified
<1>1. SecInclInv => OkMeansVerified
  BY DEF SecInclInv, KeyInv, InheritInv, NwSaid, OkMeansVerified
<1> QED
  BY <1>1, SecInclInvHolds, PTL
=============================================================================
