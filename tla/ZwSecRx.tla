------------------------------ MODULE ZwSecRx ------------------------------
(***************************************************************************)
(* The receiving side of the security layer: the table of internal nonces  *)
(* of src/zw_sec_layer.c, its users appl_cmd_hdlr (src/zw_api_network.c)   *)
(* and zwsec_sm_spp_tx, and zwsec_depacket with the frames of split        *)
(* messages.                                                               *)
(*                                                                         *)
(* The table is written by three threads: the callback thread, which       *)
(* handles the received commands one by one (a nonce is made for a node,   *)
(* sent to it, and used up by the node's next frame); whoever transmits    *)
(* (every frame sent carries an internal nonce); and the timer thread,     *)
(* which cleans up without sec_mtx.  The callback thread, too, looks a     *)
(* nonce up and starts its life without sec_mtx, so these are steps of     *)
(* their own.                                                              *)
(*                                                                         *)
(* A nonce is [id, n]: its first byte, by which it is looked up, and the   *)
(* seven others.  A frame is authentic if the nonce in the slot is the one *)
(* it was made with; the cipher itself is abstracted.                      *)
(***************************************************************************)
EXTENDS Integers, Sequences, FiniteSets, FiniteSetsExt, Functions

CONSTANTS
  Nodes, NoNode, NoNonce, NoFrame,
  Peers,                  \* the nodes that send secure messages
  SLOTS,                  \* INTERNAL_NONCE_TABLE_SIZE
  INTERNAL_NONCE_LIFE, INTERNAL_NONCE_TABLE_CHECK,  \* in ticks
  TICK_MOD, TICK_WINDOW,  \* 2^16 and 0xF000 for the 16-bit tmr_tick
  SEQ_MOD,                \* 16: the sequence numbers of split messages
  NONCE_IDS,              \* how many first bytes there are
  PrmMayFail,             \* whether the report's buffer may fail to be allocated
  MaxNonces,              \* bound: nonces made
  MaxAir,                 \* bound: frames on their way; the others are lost
  MaxMsgs                 \* bound: messages of each node

Slots == 1 .. SLOTS
Nonces == [id : 1 .. NONCE_IDS, n : 1 .. MaxNonces]
\* A frame of a node's message: the whole of it, or its first or second part.
Frames == [node : Nodes, kind : {"whole", "first", "second"}, msg : 1 .. MaxMsgs,
           seq : 0 .. SEQ_MOD - 1, nonce : Nonces]

ASSUME SecRxAssumption ==
  /\ Peers \subseteq Nodes /\ NoNode \notin Nodes /\ NoNonce \notin Nonces /\ NoFrame \notin Frames
  /\ SLOTS \in Nat \ {0} /\ NONCE_IDS \in Nat /\ NONCE_IDS >= SLOTS
  /\ INTERNAL_NONCE_LIFE \in Nat \ {0} /\ INTERNAL_NONCE_TABLE_CHECK \in Nat \ {0}
  /\ TICK_WINDOW \in Nat /\ TICK_MOD \in Nat
  /\ INTERNAL_NONCE_LIFE + INTERNAL_NONCE_TABLE_CHECK <= TICK_MOD - TICK_WINDOW
  /\ TICK_MOD < 2 * TICK_WINDOW
  /\ SEQ_MOD \in Nat \ {0, 1} /\ PrmMayFail \in BOOLEAN
  /\ MaxNonces \in Nat /\ MaxAir \in Nat \ {0} /\ MaxMsgs \in Nat

VARIABLES
  inonce_tbl,     \* the table; age is an observation: ticks since the life began
  tmr_tick, clean_up_tick,
  clean_up_idx,   \* the slot the clean-up looks at, or 0
  condemned,      \* whether it has found it expired
  made,           \* nonces made
  rx_pc,          \* where the callback thread is
  rx_frm,         \* the frame it handles
  rx_node,        \* the node it makes a nonce for
  rx_idx,         \* the slot
  rx_nonce,       \* the nonce copied from it
  rcv,            \* of each node: sequence number, whether it is valid, first frame
  peer,           \* environment: each node's sender
  air,            \* environment: frames on their way
  used,           \* observation: how many frames each nonce has authenticated
  upper           \* observation: messages handed up

tbl_vars == <<inonce_tbl, made>>
tick_vars == <<tmr_tick, clean_up_tick, clean_up_idx, condemned>>
rx_vars == <<rx_pc, rx_frm, rx_node, rx_idx, rx_nonce>>
sec_rx_vars == <<tbl_vars, tick_vars, rx_vars, rcv, peer, air, used, upper>>

AgeMax == INTERNAL_NONCE_LIFE + INTERNAL_NONCE_TABLE_CHECK

SecRxTypeOK ==
  /\ inonce_tbl \in [Slots -> [state : {"INVALID", "INIT", "VALID"}, rcv_nodeid : Nodes \cup {NoNode},
                               expiry_tick : 0 .. TICK_MOD - 1, nonce : Nonces \cup {NoNonce},
                               age : 0 .. AgeMax]]
  /\ tmr_tick \in 0 .. TICK_MOD - 1
  /\ clean_up_tick \in 0 .. INTERNAL_NONCE_TABLE_CHECK - 1
  /\ clean_up_idx \in {0} \cup Slots /\ condemned \in BOOLEAN
  /\ made \in 0 .. MaxNonces
  /\ rx_pc \in {"idle", "get", "copy", "check", "gen", "report"}
  /\ rx_frm \in Frames \cup {NoFrame}
  /\ rx_node \in Nodes \cup {NoNode}
  /\ rx_idx \in {0} \cup Slots /\ rx_nonce \in Nonces \cup {NoNonce}
  /\ rcv \in [Nodes -> [seq : 0 .. SEQ_MOD - 1, valid : BOOLEAN, first : 0 .. MaxMsgs]]
  /\ peer \in [Nodes -> [nonce : Nonces \cup {NoNonce}, msg : 0 .. MaxMsgs, seq : 0 .. SEQ_MOD - 1,
                         second : BOOLEAN]]
  /\ air \subseteq Frames
  /\ used \in [1 .. MaxNonces -> 0 .. 2]
  /\ upper \subseteq [node : Nodes, first : 0 .. MaxMsgs, second : 0 .. MaxMsgs]

SecRxInit ==
  /\ inonce_tbl = [i \in Slots |-> [state |-> "INVALID", rcv_nodeid |-> NoNode, expiry_tick |-> 0,
                                    nonce |-> NoNonce, age |-> 0]]
  /\ tmr_tick = 0 /\ clean_up_tick = 0 /\ clean_up_idx = 0 /\ condemned = FALSE /\ made = 0
  /\ rx_pc = "idle" /\ rx_frm = NoFrame /\ rx_node = NoNode /\ rx_idx = 0 /\ rx_nonce = NoNonce
  /\ rcv = [n \in Nodes |-> [seq |-> 0, valid |-> FALSE, first |-> 0]]
  /\ \E seq \in 0 .. SEQ_MOD - 1 :
       peer = [n \in Nodes |-> [nonce |-> NoNonce, msg |-> 0, seq |-> seq, second |-> FALSE]]
  /\ air = {} /\ used = [n \in 1 .. MaxNonces |-> 0] /\ upper = {}

---------------------------------------------------------------------------
(* Time.                                                                   *)

\* zwsec_timer_chk, which is util_tmr_exp_chk: a later time that is far ahead is
\* taken for one that has passed before the tick wrapped, and conversely.
TimerChk(now, timer) ==
  \/ now = timer
  \/ now > timer /\ now - timer < TICK_WINDOW
  \/ now < timer /\ timer - now >= TICK_WINDOW

\* A slot that is given back; what its expiry_tick holds is never looked at.
Invalid(slot) == [slot EXCEPT !.state = "INVALID", !.expiry_tick = 0, !.age = 0]

Expired(i) == TimerChk(tmr_tick, inonce_tbl[i].expiry_tick)
TickAfter(ticks) == (tmr_tick + ticks) % TICK_MOD

\* zwsec_tmout_cb: the tick, and every so often the clean-up, slot by slot, which
\* looks at a slot and then writes it.
Aged(tbl) == [i \in Slots |-> IF tbl[i].state = "INVALID" THEN tbl[i]
                              ELSE [tbl[i] EXCEPT !.age = IF @ < AgeMax THEN @ + 1 ELSE @]]
TmoutTick ==
  /\ clean_up_idx = 0
  /\ tmr_tick' = TickAfter(1)
  /\ clean_up_tick' = (clean_up_tick + 1) % INTERNAL_NONCE_TABLE_CHECK
  /\ clean_up_idx' = IF clean_up_tick' = 0 THEN 1 ELSE 0
  /\ inonce_tbl' = Aged(inonce_tbl)
  /\ UNCHANGED <<condemned, made, rx_vars, rcv, peer, air, used, upper>>

CleansUp(i) == inonce_tbl[i].state = "VALID" /\ Expired(i)
NextButLast == (clean_up_idx + 1) % SLOTS  \* mutated form
NextSlot == (clean_up_idx + 1) % (SLOTS + 1)
TmoutLook ==
  /\ clean_up_idx # 0 /\ ~ condemned
  /\ condemned' = CleansUp(clean_up_idx)
  /\ clean_up_idx' = IF condemned' THEN clean_up_idx ELSE NextSlot
  /\ UNCHANGED <<tmr_tick, clean_up_tick, tbl_vars, rx_vars, rcv, peer, air, used, upper>>
TmoutWrite ==
  /\ condemned
  /\ inonce_tbl' = [inonce_tbl EXCEPT ![clean_up_idx] = Invalid(@)]
  /\ condemned' = FALSE /\ clean_up_idx' = NextSlot
  /\ UNCHANGED <<tmr_tick, clean_up_tick, made, rx_vars, rcv, peer, air, used, upper>>

---------------------------------------------------------------------------
(* Making a nonce.                                                         *)

\* The callback thread is done with a command: its locals are gone.
RxDone ==
  /\ rx_pc' = "idle" /\ rx_frm' = NoFrame /\ rx_node' = NoNode
  /\ rx_idx' = 0 /\ rx_nonce' = NoNonce

\* The first slot that is free, and the first bytes that no live nonce has.
Free == {i \in Slots : inonce_tbl[i].state = "INVALID"}
FreeIds == 1 .. NONCE_IDS \ {inonce_tbl[i].nonce.id : i \in Slots \ Free}

\* zwsec_inonce_gen, under sec_mtx
InonceGen(i, node, sta) ==
  \E id \in FreeIds :
    /\ made' = made + 1
    /\ inonce_tbl' = [inonce_tbl EXCEPT
         ![i] = [state |-> sta, rcv_nodeid |-> node, expiry_tick |-> TickAfter(INTERNAL_NONCE_LIFE),
                 nonce |-> [id |-> id, n |-> made'], age |-> 0]]

\* zwsec_sm_spp_tx makes the sender's nonce of a frame for node.
SppTxGen(node) ==
  /\ made < MaxNonces /\ Free # {}
  /\ InonceGen(Min(Free), node, "VALID")
  /\ UNCHANGED <<tick_vars, rx_vars, rcv, peer, air, used, upper>>

\* appl_cmd_hdlr, for a nonce request of rx_node: the slot ...
RxGen ==
  /\ rx_pc = "gen"
  /\ IF Free = {}
     THEN RxDone /\ UNCHANGED tbl_vars
     ELSE /\ made < MaxNonces
          /\ InonceGen(Min(Free), rx_node, "INIT")
          /\ rx_idx' = Min(Free)
          /\ rx_pc' = "report"
          /\ UNCHANGED <<rx_frm, rx_node, rx_nonce>>
  /\ UNCHANGED <<tick_vars, rcv, peer, air, used, upper>>

\* ... then zw_send_data, and zwsec_inonce_expire_set or the deletion, unlocked.
RxReport ==
  /\ rx_pc = "report"
  /\ \/ /\ inonce_tbl' = [inonce_tbl EXCEPT ![rx_idx].state = "VALID", ![rx_idx].age = 0,
                           ![rx_idx].expiry_tick = TickAfter(INTERNAL_NONCE_LIFE)]
        /\ \/ peer' = [peer EXCEPT ![rx_node].nonce = inonce_tbl[rx_idx].nonce]
           \/ UNCHANGED peer
     \/ inonce_tbl' = [inonce_tbl EXCEPT ![rx_idx] = Invalid(@)] /\ UNCHANGED peer
     \/ PrmMayFail /\ UNCHANGED <<inonce_tbl, peer>>
  /\ RxDone
  /\ UNCHANGED <<made, tick_vars, rcv, air, used, upper>>

---------------------------------------------------------------------------
(* The callback thread: application_command_handler_cb.                    *)

\* A nonce request of a node that has none and something to send.
RxNonceGet(n) ==
  /\ rx_pc = "idle" /\ made < MaxNonces
  /\ peer[n].nonce = NoNonce /\ (peer[n].msg < MaxMsgs \/ peer[n].second)
  /\ rx_pc' = "gen" /\ rx_node' = n
  /\ UNCHANGED <<tbl_vars, tick_vars, rx_frm, rx_idx, rx_nonce, rcv, peer, air, used, upper>>

\* A frame arrives; the radio may repeat it.
RxFrame(f) ==
  /\ rx_pc = "idle" /\ f \in air
  /\ rx_pc' = "get" /\ rx_frm' = f
  /\ air' \in {air, air \ {f}}
  /\ UNCHANGED <<tbl_vars, tick_vars, rx_node, rx_idx, rx_nonce, rcv, peer, used, upper>>

\* zwsec_inonce_get, unlocked
RxInonceGet ==
  /\ rx_pc = "get"
  /\ LET found == {i \in Slots : inonce_tbl[i].state = "VALID"
                                 /\ inonce_tbl[i].nonce.id = rx_frm.nonce.id}
     IN IF found = {} \/ Expired(Min(found))
        THEN RxDone
        ELSE rx_pc' = "copy" /\ rx_idx' = Min(found) /\ UNCHANGED <<rx_frm, rx_node, rx_nonce>>
  /\ UNCHANGED <<tbl_vars, tick_vars, rcv, peer, air, used, upper>>

\* zwsec_depacket checks the slot's node and copies the nonce, unlocked.
RxCopy ==
  /\ rx_pc = "copy"
  /\ IF inonce_tbl[rx_idx].rcv_nodeid # rx_frm.node
     THEN RxDone
     ELSE /\ rx_pc' = "check" /\ rx_nonce' = inonce_tbl[rx_idx].nonce
          /\ UNCHANGED <<rx_frm, rx_node, rx_idx>>
  /\ UNCHANGED <<tbl_vars, tick_vars, rcv, peer, air, used, upper>>

\* zwsec_inonce_rm
RmNone == inonce_tbl  \* mutated form
RmAll == [i \in Slots |-> IF inonce_tbl[i].rcv_nodeid = rx_frm.node
                          THEN Invalid(inonce_tbl[i]) ELSE inonce_tbl[i]]

\* The frame is authentic: what becomes of it.  A first frame is answered with a
\* nonce for the second one.
SeqStored == rcv[rx_frm.node].valid /\ rcv[rx_frm.node].seq = rx_frm.seq
AnySeq == TRUE  \* mutated form
SeqMatches == rcv[rx_frm.node].seq = rx_frm.seq
StoresFirst == rx_frm.kind = "first" /\ ~ SeqStored
HandedUp ==
  {u \in [node : {rx_frm.node}, first : 0 .. MaxMsgs, second : {rx_frm.msg}] :
     \/ rx_frm.kind = "whole" /\ u.first = rx_frm.msg
     \/ rx_frm.kind = "second" /\ SeqMatches /\ u.first = rcv[rx_frm.node].first}
Depacket ==
  /\ upper' = upper \cup HandedUp
  /\ IF StoresFirst
     THEN /\ rcv' = [rcv EXCEPT ![rx_frm.node] = [seq |-> rx_frm.seq, valid |-> TRUE,
                                                first |-> rx_frm.msg]]
          /\ rx_pc' = "gen" /\ rx_node' = rx_frm.node
          /\ rx_frm' = NoFrame /\ rx_idx' = 0 /\ rx_nonce' = NoNonce
     ELSE RxDone /\ UNCHANGED rcv

\* The nonces of the node go, then the frame is authenticated with the copy.
RxCheck ==
  /\ rx_pc = "check"
  /\ inonce_tbl' = RmAll
  /\ IF rx_nonce = rx_frm.nonce
     THEN used' = [used EXCEPT ![rx_nonce.n] = IF @ < 2 THEN @ + 1 ELSE @] /\ Depacket
     ELSE RxDone /\ UNCHANGED <<used, upper, rcv>>
  /\ UNCHANGED <<made, tick_vars, peer, air>>

---------------------------------------------------------------------------
(* The other nodes: zwsec_sm_spp_tx as in ZwSecTx, at the other end.       *)

Sends(n, kind, msg, seq) ==
  /\ peer[n].nonce # NoNonce
  /\ \E kept \in kSubset(Min({MaxAir - 1, Cardinality(air)}), air) : air' = kept \cup
       {[node |-> n, kind |-> kind, msg |-> msg, seq |-> seq, nonce |-> peer[n].nonce]}
  /\ peer' = [peer EXCEPT ![n] = [nonce |-> NoNonce, msg |-> msg, seq |-> seq,
                                  second |-> kind = "first"]]
  /\ UNCHANGED <<tbl_vars, tick_vars, rx_vars, rcv, used, upper>>

PeerWhole(n) == peer[n].msg < MaxMsgs /\ Sends(n, "whole", peer[n].msg + 1, peer[n].seq)
PeerFirst(n) ==
  peer[n].msg < MaxMsgs /\ Sends(n, "first", peer[n].msg + 1, (peer[n].seq + 1) % SEQ_MOD)
PeerSecond(n) == peer[n].second /\ Sends(n, "second", peer[n].msg, peer[n].seq)

---------------------------------------------------------------------------

Timer == TmoutTick \/ TmoutLook \/ TmoutWrite
CbThread == RxGen \/ RxReport \/ RxInonceGet \/ RxCopy \/ RxCheck

SecRxNext ==
  \/ Timer \/ CbThread
  \/ \E n \in Nodes : SppTxGen(n)
  \/ \E n \in Peers : RxNonceGet(n) \/ PeerWhole(n) \/ PeerFirst(n) \/ PeerSecond(n)
  \/ \E f \in air : RxFrame(f)

SecRxSpec == SecRxInit /\ [][SecRxNext]_sec_rx_vars

---------------------------------------------------------------------------
(* Properties.                                                             *)

\* The 16-bit comparison finds a live nonce expired when its life has passed and
\* not before, wherever the tick counter is when it wraps.
ExpiryIsDue ==
  \A i \in Slots : inonce_tbl[i].state = "VALID" =>
    (Expired(i) <=> inonce_tbl[i].age >= INTERNAL_NONCE_LIFE)

\* No nonce authenticates two frames, although frames are repeated and the table
\* is read and cleaned up without the mutex.
NonceAcceptedOnce == \A n \in 1 .. MaxNonces : used[n] <= 1

\* Both parts of a split message that is handed up are its own, whichever frames
\* of whichever messages are lost (fewer than SEQ_MOD in a row).
SplitPaired == \A u \in upper : u.first \in {0, u.second}

\* The table does not fill up: between two rounds of the clean-up no live nonce is
\* older than its life and the time between two rounds.
ReclaimedInTime ==
  clean_up_idx = 0 =>
    \A i \in Slots : inonce_tbl[i].state = "VALID" =>
      inonce_tbl[i].age < INTERNAL_NONCE_LIFE + INTERNAL_NONCE_TABLE_CHECK

---------------------------------------------------------------------------
(* What documents and comments say and the code does not do: the           *)
(* formulas below do not hold, and TLC shows how.                           *)

\* "bit-7=1 means valid; bit-7=0 means invalid": a message is never handed up when
\* its node has no valid sequence number, that is, no first frame.
SplitNeedsFirst == \A u \in upper : u.first # 0

\* "Search whether the first byte of nonce is in the table", and another is drawn: live
\* nonces differ in the byte by which they are looked up.  But the clean-up may give a
\* slot back between RxGen and RxReport, and RxReport makes it live again.  (Seen from
\* MaxNonces = 5 on.)
NonceFound ==
  \A i, j \in Slots \ Free : inonce_tbl[i].nonce.id = inonce_tbl[j].nonce.id => i = j

\* "Internal nonce life span": a live nonce is deleted when its time is over, or
\* by a frame of its node.
NonceLivesOut ==
  [][\A i \in Slots : inonce_tbl[i].state = "VALID" /\ inonce_tbl'[i].state = "INVALID" =>
       Expired(i) \/ (rx_pc = "check" /\ rx_frm.node = inonce_tbl[i].rcv_nodeid)]_sec_rx_vars
===========================================================================
