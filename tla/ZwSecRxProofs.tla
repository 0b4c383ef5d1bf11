---------------------------- MODULE ZwSecRxProofs ----------------------------
(***************************************************************************)
(* Proofs about the receiving side of the security layer.  Three           *)
(* invariants are kept by every step.  Those of time say how the expiry    *)
(* tick of a nonce, which wraps, is related to its age, and how old a      *)
(* nonce may be at each moment of the clean-up.  Those of use follow a     *)
(* nonce through the table and the unlocked steps of the callback thread.  *)
(* Those of split messages compare the sequence numbers of any two of a    *)
(* node's messages, wherever their frames are.                             *)
(***************************************************************************)
EXTENDS ZwSecRx, TLAPS, FiniteSetTheorems

---------------------------------------------------------------------------
(* Time.                                                                   *)

\* What is left of a nonce's life, which is negative when it is over, is the distance
\* between the two ticks, however often the counter has wrapped.
Left(i) == INTERNAL_NONCE_LIFE - inonce_tbl[i].age
Distance(i) == inonce_tbl[i].expiry_tick - tmr_tick
ExpiryFollowsAge ==
  \A i \in Slots : inonce_tbl[i].state = "VALID" =>
    Distance(i) = Left(i) \/ Distance(i) = Left(i) + TICK_MOD \/ Distance(i) = Left(i) - TICK_MOD

\* How old the nonce of a slot may be: the slots that the clean-up has passed hold no
\* nonce whose life is over, and from then on they grow older with clean_up_tick.
AgeBound(i) ==
  IF clean_up_idx = 0 THEN INTERNAL_NONCE_LIFE + clean_up_tick
  ELSE IF i < clean_up_idx THEN INTERNAL_NONCE_LIFE ELSE AgeMax
AgeIsBound == \A i \in Slots : inonce_tbl[i].state = "VALID" => inonce_tbl[i].age < AgeBound(i)
CleanUpStands == (clean_up_idx # 0 => clean_up_tick = 0) /\ (condemned => clean_up_idx # 0)

TimeInv == ExpiryFollowsAge /\ AgeIsBound /\ CleanUpStands

---------------------------------------------------------------------------
(* The use of nonces.                                                      *)

Held(i) == inonce_tbl[i].nonce
NoneFromFuture ==
  /\ \A i \in Slots : Held(i) \in Nonces => Held(i).n <= made
  /\ \A n \in 1 .. MaxNonces : n > made => used[n] = 0
\* A nonce is in one slot only, even when the slot has been given back.
HeldOnce ==
  \A i, j \in Slots : Held(i) \in Nonces /\ Held(j) \in Nonces /\ Held(i).n = Held(j).n => i = j
NotYetUsed(i) == Held(i) \in Nonces /\ used[Held(i).n] = 0
LiveIsUnused == \A i \in Slots : inonce_tbl[i].state # "INVALID" => NotYetUsed(i)
\* The slot that the callback thread works with, which may be given back and taken again.
AtWork ==
  /\ rx_pc \in {"report", "copy"} => rx_idx \in Slots /\ NotYetUsed(rx_idx)
  /\ rx_pc \in {"gen", "report"} => rx_node \in Nodes
  /\ rx_pc \in {"get", "copy", "check"} => rx_frm \in Frames
\* The copy is of a nonce that was made for the node whose frame is checked: the slot,
\* if it still has it, is given back with the node's others.
Copied ==
  rx_pc = "check" =>
    /\ rx_nonce \in Nonces /\ used[rx_nonce.n] = 0 /\ rx_nonce.n <= made
    /\ \A i \in Slots : Held(i) \in Nonces /\ Held(i).n = rx_nonce.n =>
         inonce_tbl[i].rcv_nodeid = rx_frm.node

UseInv == NoneFromFuture /\ HeldOnce /\ LiveIsUnused /\ AtWork /\ Copied /\ NonceAcceptedOnce

---------------------------------------------------------------------------
(* Split messages.                                                         *)

\* Where a part of a split message of node n may be, with its sequence number.
Part(m, s) == [msg |-> m, seq |-> s]
PartsOnWay(n) == {Part(f.msg, f.seq) : f \in {g \in air : g.node = n /\ g.kind # "whole"}}
PartsOf(n) ==
  {p \in [msg : 1 .. MaxMsgs, seq : 0 .. SEQ_MOD - 1] :
     \/ p \in PartsOnWay(n)
     \/ rx_frm \in Frames /\ rx_frm.node = n /\ rx_frm.kind # "whole" /\ p = Part(rx_frm.msg, rx_frm.seq)
     \/ p = Part(rcv[n].first, rcv[n].seq)
     \/ peer[n].second /\ p = Part(peer[n].msg, peer[n].seq)}

\* Sequence number s is that of p or one of the d after it.
Within(p, s, from, d) == s - p.seq \in from .. d \/ s - p.seq + SEQ_MOD \in from .. d
\* The later of two messages that are less than a round apart has another number, and
\* the sender's number has not overtaken any of them.
NumbersDiffer ==
  \A n \in Nodes : \A p, q \in PartsOf(n) :
    /\ p.msg = q.msg => p.seq = q.seq
    /\ p.msg < q.msg /\ q.msg - p.msg < SEQ_MOD => Within(p, q.seq, 1, q.msg - p.msg)
SenderIsAhead ==
  \A n \in Nodes :
    /\ peer[n].second => peer[n].msg # 0
    /\ \A p \in PartsOf(n) :
         /\ p.msg <= peer[n].msg
         /\ peer[n].msg - p.msg < SEQ_MOD => Within(p, peer[n].seq, 0, peer[n].msg - p.msg)

\* The two parts of a message that is handed up are its own, or a whole round of
\* messages has gone by between them, whichever frames have been lost or repeated.
PairedOrFar ==
  \A u \in upper : u.second # 0 /\ ( \/ u.first \in {0, u.second}
                                     \/ u.first - u.second >= SEQ_MOD
                                     \/ u.second - u.first >= SEQ_MOD )
SplitInv == NumbersDiffer /\ SenderIsAhead /\ PairedOrFar

SecRxInv == SecRxTypeOK /\ TimeInv /\ UseInv /\ SplitInv
---------------------------------------------------------------------------
(* Numbers and slots.                                                      *)

\* The remainder of a number less than twice the divisor.
LEMMA ModOnce ==
  ASSUME NEW m \in Nat \ {0}, NEW a \in Nat, a < 2 * m
  PROVE  a % m = (IF a < m THEN a ELSE a - m) /\ a % m \in 0 .. m - 1
OBVIOUS

\* The first of some slots is one of them.
LEMMA MinIsMember ==
  ASSUME NEW S \in SUBSET Slots, S # {}
  PROVE  Min(S) \in S /\ Min(S) \in Slots
<1>1. S \in SUBSET Nat
  BY SecRxAssumption DEF Slots
<1>2. PICK i \in S : \A j \in S : ~ (<<j, i>> \in OpToRel(<, Nat))
  BY <1>1, NatLessThanWellFounded, WFMin
<1>3. \A j \in S : i <= j
  <2>1. ASSUME NEW j \in S
        PROVE  i <= j
    <3>1. <<j, i>> \in Nat \X Nat /\ <<j, i>>[1] = j /\ <<j, i>>[2] = i
      BY <1>1
    <3>2. ~ (j < i)
      BY <1>2, <3>1, Zenon DEF OpToRel
    <3> QED
      BY <1>1, <3>2
  <2> QED
    BY <2>1
<1> QED
  BY <1>3 DEF Min

\* The times, by what the proofs need of them.
LEMMA Times ==
  /\ INTERNAL_NONCE_LIFE \in Nat \ {0} /\ INTERNAL_NONCE_TABLE_CHECK \in Nat \ {0}
  /\ TICK_MOD \in Nat \ {0} /\ TICK_WINDOW \in Nat /\ AgeMax \in Nat
  /\ AgeMax = INTERNAL_NONCE_LIFE + INTERNAL_NONCE_TABLE_CHECK
  /\ AgeMax <= TICK_MOD - TICK_WINDOW /\ AgeMax < TICK_WINDOW /\ AgeMax < TICK_MOD
  /\ SLOTS \in Nat \ {0} /\ SEQ_MOD \in Nat \ {0, 1} /\ MaxNonces \in Nat /\ MaxMsgs \in Nat
BY SecRxAssumption DEF AgeMax

\* A tick not far ahead is a tick, which may have wrapped.
LEMMA TickAhead ==
  ASSUME SecRxTypeOK, NEW k \in 0 .. AgeMax
  PROVE  /\ TickAfter(k) \in 0 .. TICK_MOD - 1
         /\ TickAfter(k) = tmr_tick + k \/ TickAfter(k) = tmr_tick + k - TICK_MOD
<1>1. tmr_tick \in 0 .. TICK_MOD - 1
  BY DEF SecRxTypeOK
<1>2. tmr_tick + k \in Nat /\ tmr_tick + k < 2 * TICK_MOD
  BY <1>1, Times
<1> DEFINE t == tmr_tick + k
<1>3. t \in Nat /\ t < 2 * TICK_MOD /\ TICK_MOD \in Nat \ {0}
  BY <1>2, Times
<1>4. TickAfter(k) = t % TICK_MOD
  BY DEF TickAfter
<1> HIDE DEF t
<1>5. t % TICK_MOD = (IF t < TICK_MOD THEN t ELSE t - TICK_MOD) /\ t % TICK_MOD \in 0 .. TICK_MOD - 1
  BY <1>3, ModOnce
<1> QED
  BY <1>1, <1>3, <1>4, <1>5, Times DEF t

---------------------------------------------------------------------------
(* Types.                                                                  *)

SlotType ==
  [state : {"INVALID", "INIT", "VALID"}, rcv_nodeid : Nodes \cup {NoNode},
   expiry_tick : 0 .. TICK_MOD - 1, nonce : Nonces \cup {NoNonce}, age : 0 .. AgeMax]

LEMMA SlotTypes ==
  ASSUME SecRxTypeOK
  PROVE  inonce_tbl \in [Slots -> SlotType]
BY DEF SecRxTypeOK, SlotType

\* A slot that is given back keeps its node and its nonce.
LEMMA InvalidSlot ==
  ASSUME NEW s \in SlotType
  PROVE  Invalid(s) \in SlotType /\ Invalid(s).state = "INVALID"
         /\ Invalid(s).nonce = s.nonce /\ Invalid(s).rcv_nodeid = s.rcv_nodeid
<1>1. 0 \in 0 .. TICK_MOD - 1 /\ 0 \in 0 .. AgeMax
  BY Times
<1> DEFINE a == [s EXCEPT !.state = "INVALID"]
           b == [a EXCEPT !.expiry_tick = 0]
<1>2. a \in SlotType /\ a.state = "INVALID" /\ a.nonce = s.nonce /\ a.rcv_nodeid = s.rcv_nodeid
  BY DEF SlotType
<1>3. Invalid(s) = [b EXCEPT !.age = 0]
  BY Zenon DEF Invalid
<1> HIDE DEF a
<1>4. b \in SlotType /\ b.state = "INVALID" /\ b.nonce = s.nonce /\ b.rcv_nodeid = s.rcv_nodeid
  BY <1>1, <1>2 DEF SlotType
<1> HIDE DEF b
<1> QED
  BY <1>1, <1>3, <1>4 DEF SlotType

\* A new nonce takes slot i and leaves the others alone.
NewIn(i, node, sta, id) ==
  [state |-> sta, rcv_nodeid |-> node, expiry_tick |-> TickAfter(INTERNAL_NONCE_LIFE),
   nonce |-> [id |-> id, n |-> made + 1], age |-> 0]
LEMMA GenStep ==
  ASSUME SecRxTypeOK, NEW i \in Slots, NEW node \in Nodes, NEW sta \in {"INIT", "VALID"},
         made < MaxNonces, InonceGen(i, node, sta)
  PROVE  \E id \in 1 .. NONCE_IDS :
           /\ made' = made + 1 /\ made' \in 1 .. MaxNonces
           /\ inonce_tbl' \in [Slots -> SlotType]
           /\ inonce_tbl'[i] = NewIn(i, node, sta, id)
           /\ NewIn(i, node, sta, id).nonce \in Nonces
           /\ \A j \in Slots \ {i} : inonce_tbl'[j] = inonce_tbl[j]
<1>1. PICK id \in FreeIds :
        /\ made' = made + 1
        /\ inonce_tbl' = [inonce_tbl EXCEPT
             ![i] = [state |-> sta, rcv_nodeid |-> node, expiry_tick |-> TickAfter(INTERNAL_NONCE_LIFE),
                     nonce |-> [id |-> id, n |-> made'], age |-> 0]]
  BY DEF InonceGen
<1>2. inonce_tbl \in [Slots -> SlotType] /\ made \in 0 .. MaxNonces
  BY SlotTypes DEF SecRxTypeOK
<1>3. made' \in 1 .. MaxNonces /\ id \in 1 .. NONCE_IDS
  BY <1>1, <1>2, Times DEF FreeIds
<1>4. [id |-> id, n |-> made'] \in Nonces
  BY <1>3 DEF Nonces
<1>5. TickAfter(INTERNAL_NONCE_LIFE) \in 0 .. TICK_MOD - 1
  BY Times, TickAhead
<1>6. NewIn(i, node, sta, id) \in SlotType
  BY <1>1, <1>4, <1>5, Times DEF NewIn, SlotType
<1>7. inonce_tbl' = [inonce_tbl EXCEPT ![i] = NewIn(i, node, sta, id)]
  BY <1>1, Zenon DEF NewIn
<1>8. NewIn(i, node, sta, id).nonce \in Nonces
  BY <1>1, <1>4 DEF NewIn
<1>9. inonce_tbl'[i] = NewIn(i, node, sta, id) /\ \A j \in Slots \ {i} : inonce_tbl'[j] = inonce_tbl[j]
  BY <1>2, <1>7
<1>10. inonce_tbl' \in [Slots -> SlotType]
  BY <1>2, <1>6, <1>7
<1> QED
  BY <1>1, <1>3, <1>8, <1>9, <1>10

\* The slots grow older by one tick, all else in them stays.
LEMMA AgedTable ==
  ASSUME SecRxTypeOK
  PROVE  /\ Aged(inonce_tbl) \in [Slots -> SlotType]
         /\ \A i \in Slots :
              LET s == inonce_tbl[i]
                  t == Aged(inonce_tbl)[i]
              IN  /\ t.state = s.state /\ t.nonce = s.nonce
                  /\ t.rcv_nodeid = s.rcv_nodeid /\ t.expiry_tick = s.expiry_tick
                  /\ s.state = "VALID" => t.age = (IF s.age < AgeMax THEN s.age + 1 ELSE s.age)
<1>1. SUFFICES ASSUME NEW i \in Slots
               PROVE  LET s == inonce_tbl[i]
                          t == Aged(inonce_tbl)[i]
                      IN  /\ t \in SlotType
                          /\ t.state = s.state /\ t.nonce = s.nonce
                          /\ t.rcv_nodeid = s.rcv_nodeid /\ t.expiry_tick = s.expiry_tick
                          /\ s.state = "VALID" => t.age = (IF s.age < AgeMax THEN s.age + 1 ELSE s.age)
  <2>1. Aged(inonce_tbl) = [i \in Slots |-> Aged(inonce_tbl)[i]]
    BY DEF Aged
  <2> QED
    BY <1>1, <2>1
<1>2. inonce_tbl[i] \in SlotType
  BY SlotTypes
<1>3. Aged(inonce_tbl)[i] = IF inonce_tbl[i].state = "INVALID" THEN inonce_tbl[i]
        ELSE [inonce_tbl[i] EXCEPT !.age = IF @ < AgeMax THEN @ + 1 ELSE @]
  BY DEF Aged
<1> QED
  BY <1>2, <1>3, Times DEF SlotType

\* Some slots are given back.
GivesBack ==
  /\ inonce_tbl' \in [Slots -> SlotType]
  /\ \A i \in Slots : \/ inonce_tbl'[i] = inonce_tbl[i]
                      \/ /\ inonce_tbl'[i].state = "INVALID" /\ inonce_tbl'[i].nonce = inonce_tbl[i].nonce
                         /\ inonce_tbl'[i].rcv_nodeid = inonce_tbl[i].rcv_nodeid

LEMMA OneGivenBack ==
  ASSUME SecRxTypeOK, NEW i \in Slots, inonce_tbl' = [inonce_tbl EXCEPT ![i] = Invalid(@)]
  PROVE  GivesBack /\ inonce_tbl'[i].state = "INVALID" /\ \A j \in Slots \ {i} : inonce_tbl'[j] = inonce_tbl[j]
<1>1. inonce_tbl \in [Slots -> SlotType]
  BY SlotTypes
<1>2. inonce_tbl'[i] = Invalid(inonce_tbl[i]) /\ \A j \in Slots \ {i} : inonce_tbl'[j] = inonce_tbl[j]
  BY <1>1
<1>3. Invalid(inonce_tbl[i]) \in SlotType
  BY <1>1, InvalidSlot
<1>4. inonce_tbl' \in [Slots -> SlotType]
  BY <1>1, <1>3
<1> QED
  BY <1>1, <1>2, <1>4, InvalidSlot DEF GivesBack

LEMMA AllGivenBack ==
  ASSUME SecRxTypeOK, inonce_tbl' = RmAll
  PROVE  GivesBack /\ \A i \in Slots :
           inonce_tbl[i].rcv_nodeid = rx_frm.node => inonce_tbl'[i].state = "INVALID"
<1>1. inonce_tbl \in [Slots -> SlotType]
  BY SlotTypes
<1>2. \A i \in Slots : inonce_tbl'[i] = IF inonce_tbl[i].rcv_nodeid = rx_frm.node
                                        THEN Invalid(inonce_tbl[i]) ELSE inonce_tbl[i]
  BY DEF RmAll
<1>3. \A i \in Slots : Invalid(inonce_tbl[i]) \in SlotType
  BY <1>1, InvalidSlot
<1>4. inonce_tbl' \in [Slots -> SlotType]
  BY <1>1, <1>3 DEF RmAll
<1>5. \A i \in Slots : /\ Invalid(inonce_tbl[i]).state = "INVALID"
                       /\ Invalid(inonce_tbl[i]).nonce = inonce_tbl[i].nonce
                       /\ Invalid(inonce_tbl[i]).rcv_nodeid = inonce_tbl[i].rcv_nodeid
  BY <1>1, InvalidSlot
<1> QED
  BY <1>2, <1>4, <1>5 DEF GivesBack

\* The life of a reported nonce begins.
Reported(s) == [s EXCEPT !.state = "VALID", !.age = 0, !.expiry_tick = TickAfter(INTERNAL_NONCE_LIFE)]
LEMMA ReportedSlot ==
  ASSUME SecRxTypeOK, NEW s \in SlotType
  PROVE  /\ Reported(s) \in SlotType /\ Reported(s).state = "VALID" /\ Reported(s).age = 0
         /\ Reported(s).expiry_tick = TickAfter(INTERNAL_NONCE_LIFE)
         /\ Reported(s).nonce = s.nonce /\ Reported(s).rcv_nodeid = s.rcv_nodeid
<1>1. TickAfter(INTERNAL_NONCE_LIFE) \in 0 .. TICK_MOD - 1 /\ 0 \in 0 .. AgeMax
  BY Times, TickAhead
<1> DEFINE a == [s EXCEPT !.state = "VALID"]
           b == [a EXCEPT !.age = 0]
           x == TickAfter(INTERNAL_NONCE_LIFE)
<1>2. a \in SlotType /\ a.state = "VALID" /\ a.nonce = s.nonce /\ a.rcv_nodeid = s.rcv_nodeid
  BY DEF SlotType
<1>3. Reported(s) = [b EXCEPT !.expiry_tick = x]
  BY Zenon DEF Reported
<1> HIDE DEF a
<1>4. b \in SlotType /\ b.state = "VALID" /\ b.age = 0 /\ b.nonce = s.nonce /\ b.rcv_nodeid = s.rcv_nodeid
  BY <1>1, <1>2 DEF SlotType
<1> HIDE DEF b, x
<1>5. x = TickAfter(INTERNAL_NONCE_LIFE) /\ x \in 0 .. TICK_MOD - 1
  BY <1>1 DEF x
<1> QED
  BY <1>1, <1>3, <1>4, <1>5 DEF SlotType

LEMMA ReportStep ==
  ASSUME SecRxTypeOK, NEW i \in Slots,
         inonce_tbl' = [inonce_tbl EXCEPT ![i].state = "VALID", ![i].age = 0,
                                          ![i].expiry_tick = TickAfter(INTERNAL_NONCE_LIFE)]
  PROVE  /\ inonce_tbl' \in [Slots -> SlotType] /\ inonce_tbl'[i] = Reported(inonce_tbl[i])
         /\ \A j \in Slots \ {i} : inonce_tbl'[j] = inonce_tbl[j]
<1>1. inonce_tbl \in [Slots -> SlotType]
  BY SlotTypes
<1> DEFINE x == TickAfter(INTERNAL_NONCE_LIFE)
           a == [inonce_tbl EXCEPT ![i].state = "VALID"]
           b == [a EXCEPT ![i].age = 0]
           c == [b EXCEPT ![i].expiry_tick = x]
<1>2. inonce_tbl' = c
  BY Zenon
<1>3. a = [inonce_tbl EXCEPT ![i] = [inonce_tbl[i] EXCEPT !.state = "VALID"]]
  BY <1>1
<1>4. DOMAIN a = Slots /\ a[i] = [inonce_tbl[i] EXCEPT !.state = "VALID"]
      /\ \A j \in Slots \ {i} : a[j] = inonce_tbl[j]
  BY <1>1, <1>3
<1> HIDE DEF a
<1>5. DOMAIN b = Slots /\ b[i] = [a[i] EXCEPT !.age = 0] /\ \A j \in Slots \ {i} : b[j] = a[j]
  BY <1>4
<1> HIDE DEF b, x
<1>6. DOMAIN c = Slots /\ c[i] = [b[i] EXCEPT !.expiry_tick = x] /\ \A j \in Slots \ {i} : c[j] = b[j]
  BY <1>5
<1>7. c[i] = Reported(inonce_tbl[i])
  BY <1>4, <1>5, <1>6, Zenon DEF Reported, x
<1>8. Reported(inonce_tbl[i]) \in SlotType
  BY <1>1, ReportedSlot
<1>9. \A j \in Slots : c[j] \in SlotType
  BY <1>1, <1>4, <1>5, <1>6, <1>7, <1>8
<1>10. c = [j \in Slots |-> c[j]]
  BY <1>6
<1>11. c \in [Slots -> SlotType]
  BY <1>9, <1>10
<1> QED
  BY <1>2, <1>4, <1>5, <1>6, <1>7, <1>11

---------------------------------------------------------------------------
(* Every step keeps the types.                                             *)

\* A new nonce goes into a slot that is free.
LEMMA SppTxStep ==
  ASSUME SecRxTypeOK, NEW n \in Nodes, SppTxGen(n)
  PROVE  \E i \in Free, id \in 1 .. NONCE_IDS :
           /\ i \in Slots /\ made < MaxNonces
           /\ made' = made + 1 /\ made' \in 1 .. MaxNonces
           /\ inonce_tbl' \in [Slots -> SlotType]
           /\ inonce_tbl'[i] = NewIn(i, n, "VALID", id) /\ NewIn(i, n, "VALID", id).nonce \in Nonces
           /\ \A j \in Slots \ {i} : inonce_tbl'[j] = inonce_tbl[j]
           /\ UNCHANGED <<tick_vars, rx_vars, rcv, peer, air, used, upper>>
<1>1. Min(Free) \in Free /\ Min(Free) \in Slots
  BY MinIsMember DEF SppTxGen, Free
<1>2. made < MaxNonces /\ InonceGen(Min(Free), n, "VALID")
      /\ UNCHANGED <<tick_vars, rx_vars, rcv, peer, air, used, upper>>
  BY DEF SppTxGen
<1> QED
  BY <1>1, <1>2, GenStep

LEMMA RxGenStep ==
  ASSUME SecRxTypeOK, rx_node \in Nodes, RxGen
  PROVE  \/ RxDone /\ UNCHANGED <<tbl_vars, tick_vars, rcv, peer, air, used, upper>>
         \/ \E i \in Free, id \in 1 .. NONCE_IDS :
              /\ i \in Slots /\ made < MaxNonces
              /\ made' = made + 1 /\ made' \in 1 .. MaxNonces
              /\ inonce_tbl' \in [Slots -> SlotType]
              /\ inonce_tbl'[i] = NewIn(i, rx_node, "INIT", id)
              /\ NewIn(i, rx_node, "INIT", id).nonce \in Nonces
              /\ \A j \in Slots \ {i} : inonce_tbl'[j] = inonce_tbl[j]
              /\ rx_pc' = "report" /\ rx_idx' = i
              /\ UNCHANGED <<rx_frm, rx_node, rx_nonce, tick_vars, rcv, peer, air, used, upper>>
<1>1. CASE Free = {}
  BY <1>1 DEF RxGen
<1>2. CASE Free # {}
  <2>1. Min(Free) \in Free /\ Min(Free) \in Slots
    BY <1>2, MinIsMember DEF Free
  <2>2. /\ made < MaxNonces /\ InonceGen(Min(Free), rx_node, "INIT")
        /\ rx_pc' = "report" /\ rx_idx' = Min(Free)
        /\ UNCHANGED <<rx_frm, rx_node, rx_nonce, tick_vars, rcv, peer, air, used, upper>>
    BY <1>2 DEF RxGen
  <2> QED
    BY <2>1, <2>2, GenStep
<1> QED
  BY <1>1, <1>2

\* What RxReport does to the table and the peer.
LEMMA RxReportStep ==
  ASSUME SecRxTypeOK, AtWork, RxReport
  PROVE  /\ rx_pc = "report" /\ rx_idx \in Slots /\ Held(rx_idx) \in Nonces /\ rx_node \in Nodes
         /\ \/ /\ inonce_tbl' \in [Slots -> SlotType] /\ inonce_tbl'[rx_idx] = Reported(inonce_tbl[rx_idx])
               /\ \A j \in Slots \ {rx_idx} : inonce_tbl'[j] = inonce_tbl[j]
            \/ GivesBack
            \/ inonce_tbl' \in [Slots -> SlotType] /\ UNCHANGED inonce_tbl
         /\ peer' = [peer EXCEPT ![rx_node].nonce = Held(rx_idx)] \/ UNCHANGED peer
         /\ RxDone /\ UNCHANGED <<made, tick_vars, rcv, air, used, upper>>
<1>1. rx_pc = "report" /\ rx_idx \in Slots /\ Held(rx_idx) \in Nonces /\ rx_node \in Nodes
  BY DEF RxReport, AtWork, NotYetUsed
<1>2. RxDone /\ UNCHANGED <<made, tick_vars, rcv, air, used, upper>>
  BY DEF RxReport
<1>3. peer' = [peer EXCEPT ![rx_node].nonce = Held(rx_idx)] \/ UNCHANGED peer
  BY DEF RxReport, Held
<1>4. CASE inonce_tbl' = [inonce_tbl EXCEPT ![rx_idx].state = "VALID", ![rx_idx].age = 0,
                           ![rx_idx].expiry_tick = TickAfter(INTERNAL_NONCE_LIFE)]
  BY <1>1, <1>2, <1>3, <1>4, ReportStep
<1>5. CASE inonce_tbl' = [inonce_tbl EXCEPT ![rx_idx] = Invalid(@)]
  BY <1>1, <1>2, <1>3, <1>5, OneGivenBack
<1>6. CASE UNCHANGED inonce_tbl
  BY <1>1, <1>2, <1>3, <1>6, SlotTypes
<1> QED
  BY <1>4, <1>5, <1>6 DEF RxReport

\* A frame of a node, with the nonce it has been given.
NewFrame(n, kind, msg, seq) ==
  [node |-> n, kind |-> kind, msg |-> msg, seq |-> seq, nonce |-> peer[n].nonce]
LEMMA SendsStep ==
  ASSUME SecRxTypeOK, NEW n \in Nodes, NEW kind \in {"whole", "first", "second"},
         NEW msg \in 1 .. MaxMsgs, NEW seq \in 0 .. SEQ_MOD - 1, Sends(n, kind, msg, seq)
  PROVE  /\ NewFrame(n, kind, msg, seq) \in Frames
         /\ air' \subseteq air \cup {NewFrame(n, kind, msg, seq)} /\ air' \subseteq Frames
         /\ peer' = [peer EXCEPT ![n] = [nonce |-> NoNonce, msg |-> msg, seq |-> seq,
                                         second |-> kind = "first"]]
         /\ peer' \in [Nodes -> [nonce : Nonces \cup {NoNonce}, msg : 0 .. MaxMsgs,
                                 seq : 0 .. SEQ_MOD - 1, second : BOOLEAN]]
         /\ UNCHANGED <<tbl_vars, tick_vars, rx_vars, rcv, used, upper>>
<1>1. peer \in [Nodes -> [nonce : Nonces \cup {NoNonce}, msg : 0 .. MaxMsgs,
                          seq : 0 .. SEQ_MOD - 1, second : BOOLEAN]]
      /\ air \subseteq Frames
  BY DEF SecRxTypeOK
<1>2. peer[n].nonce \in Nonces
  BY <1>1 DEF Sends
<1>3. NewFrame(n, kind, msg, seq) \in Frames
  BY <1>2 DEF Frames, NewFrame
<1>4. air' \subseteq air \cup {NewFrame(n, kind, msg, seq)}
  BY DEF Sends, kSubset, NewFrame
<1>5. peer' = [peer EXCEPT ![n] = [nonce |-> NoNonce, msg |-> msg, seq |-> seq, second |-> kind = "first"]]
  BY DEF Sends
<1>6. [nonce |-> NoNonce, msg |-> msg, seq |-> seq, second |-> kind = "first"]
        \in [nonce : Nonces \cup {NoNonce}, msg : 0 .. MaxMsgs, seq : 0 .. SEQ_MOD - 1, second : BOOLEAN]
  BY Times
<1>7. UNCHANGED <<tbl_vars, tick_vars, rx_vars, rcv, used, upper>>
  BY DEF Sends
<1> QED
  BY <1>1, <1>3, <1>4, <1>5, <1>6, <1>7

\* What the other nodes may send.
LEMMA PeerSteps ==
  ASSUME SecRxTypeOK, NEW n \in Nodes
  PROVE  /\ PeerWhole(n) => /\ peer[n].msg + 1 \in 1 .. MaxMsgs /\ peer[n].seq \in 0 .. SEQ_MOD - 1
                            /\ Sends(n, "whole", peer[n].msg + 1, peer[n].seq)
         /\ PeerFirst(n) =>
              /\ peer[n].msg + 1 \in 1 .. MaxMsgs /\ (peer[n].seq + 1) % SEQ_MOD \in 0 .. SEQ_MOD - 1
              /\ (peer[n].seq + 1) % SEQ_MOD
                   = (IF peer[n].seq + 1 < SEQ_MOD THEN peer[n].seq + 1 ELSE peer[n].seq + 1 - SEQ_MOD)
              /\ Sends(n, "first", peer[n].msg + 1, (peer[n].seq + 1) % SEQ_MOD)
         /\ PeerSecond(n) => /\ peer[n].second /\ peer[n].seq \in 0 .. SEQ_MOD - 1
                             /\ Sends(n, "second", peer[n].msg, peer[n].seq)
<1>1. peer[n].msg \in 0 .. MaxMsgs /\ peer[n].seq \in 0 .. SEQ_MOD - 1
  BY DEF SecRxTypeOK
<1> DEFINE s == peer[n].seq + 1
<1>2. s \in Nat /\ s < 2 * SEQ_MOD /\ SEQ_MOD \in Nat \ {0}
  BY <1>1, Times
<1> HIDE DEF s
<1>3. s % SEQ_MOD = (IF s < SEQ_MOD THEN s ELSE s - SEQ_MOD) /\ s % SEQ_MOD \in 0 .. SEQ_MOD - 1
  BY <1>2, ModOnce
<1> QED
  BY <1>1, <1>3, Times DEF PeerWhole, PeerFirst, PeerSecond, s

LEMMA TypesKept ==
  ASSUME SecRxTypeOK, AtWork, Copied, SenderIsAhead, [SecRxNext]_sec_rx_vars
  PROVE  SecRxTypeOK'
<1>t. inonce_tbl \in [Slots -> SlotType]
  BY SlotTypes
<1>n. Peers \subseteq Nodes
  BY SecRxAssumption
<1>1. CASE UNCHANGED sec_rx_vars
  BY <1>1 DEF SecRxTypeOK, sec_rx_vars, tbl_vars, tick_vars, rx_vars
<1>2. CASE TmoutTick
  <2>1. tmr_tick' \in 0 .. TICK_MOD - 1
    BY <1>2, Times, TickAhead DEF TmoutTick
  <2>2. clean_up_tick' \in 0 .. INTERNAL_NONCE_TABLE_CHECK - 1
    BY <1>2, Times DEF TmoutTick, SecRxTypeOK
  <2>3. clean_up_idx' \in {0} \cup Slots
    BY <1>2, Times DEF TmoutTick, Slots
  <2>4. inonce_tbl' \in [Slots -> SlotType]
    BY <1>2, AgedTable DEF TmoutTick
  <2> QED
    BY <1>2, <2>1, <2>2, <2>3, <2>4 DEF TmoutTick, SecRxTypeOK, SlotType, rx_vars
<1>s. clean_up_idx \in Slots => NextSlot \in {0} \cup Slots
  <2>1. ASSUME clean_up_idx \in Slots
        PROVE  NextSlot \in 0 .. SLOTS
    BY <2>1, Times DEF NextSlot, Slots
  <2> QED
    BY <2>1, Times DEF Slots
<1>3. CASE TmoutLook
  <2>1. clean_up_idx \in Slots
    BY <1>3 DEF TmoutLook, SecRxTypeOK
  <2>2. condemned' \in BOOLEAN /\ clean_up_idx' \in {0} \cup Slots
    BY <1>3, <1>s, <2>1 DEF TmoutLook, CleansUp
  <2> QED
    BY <1>3, <2>2 DEF TmoutLook, SecRxTypeOK, rx_vars, tbl_vars
<1>4. CASE TmoutWrite
  <2>1. inonce_tbl' \in [Slots -> SlotType]
    <3>1. CASE clean_up_idx \in Slots
      BY <1>4, <3>1, OneGivenBack DEF TmoutWrite, GivesBack
    <3>2. CASE clean_up_idx \notin Slots
      BY <1>4, <1>t, <3>2 DEF TmoutWrite
    <3> QED
      BY <3>1, <3>2
  <2>2. clean_up_idx' \in {0} \cup Slots
    <3>1. CASE clean_up_idx \in Slots
      BY <1>4, <1>s, <3>1 DEF TmoutWrite
    <3>2. CASE clean_up_idx = 0
      BY <1>4, <3>2, Times DEF TmoutWrite, NextSlot, Slots
    <3> QED
      BY <3>1, <3>2 DEF SecRxTypeOK
  <2> QED
    BY <1>4, <2>1, <2>2 DEF TmoutWrite, SecRxTypeOK, SlotType, rx_vars
<1>5. CASE RxGen
  <2>1. rx_node \in Nodes
    BY <1>5 DEF RxGen, AtWork
  <2>2. CASE RxDone /\ UNCHANGED <<tbl_vars, tick_vars, rcv, peer, air, used, upper>>
    BY <2>2 DEF RxDone, SecRxTypeOK, tbl_vars, tick_vars
  <2>3. ASSUME NEW i \in Slots, made' \in 1 .. MaxNonces, inonce_tbl' \in [Slots -> SlotType],
               rx_pc' = "report", rx_idx' = i,
               UNCHANGED <<rx_frm, rx_node, rx_nonce, tick_vars, rcv, peer, air, used, upper>>
        PROVE  SecRxTypeOK'
    <3>1. made' \in 0 .. MaxNonces /\ rx_idx' \in {0} \cup Slots
      BY <2>3
    <3>2. UNCHANGED <<tmr_tick, clean_up_tick, clean_up_idx, condemned>>
      BY <2>3 DEF tick_vars
    <3> QED
      BY <2>3, <3>1, <3>2 DEF SecRxTypeOK, SlotType
  <2> QED
    BY <1>5, <2>1, <2>2, <2>3, RxGenStep
<1>6. CASE RxReport
  <2>1. inonce_tbl' \in [Slots -> SlotType]
    BY <1>6, RxReportStep DEF GivesBack
  <2>2. peer' \in [Nodes -> [nonce : Nonces \cup {NoNonce}, msg : 0 .. MaxMsgs,
                             seq : 0 .. SEQ_MOD - 1, second : BOOLEAN]]
    <3>1. /\ peer \in [Nodes -> [nonce : Nonces \cup {NoNonce}, msg : 0 .. MaxMsgs,
                                  seq : 0 .. SEQ_MOD - 1, second : BOOLEAN]]
          /\ rx_node \in Nodes /\ Held(rx_idx) \in Nonces
      BY <1>6, RxReportStep DEF SecRxTypeOK
    <3>2. CASE peer' = [peer EXCEPT ![rx_node].nonce = Held(rx_idx)]
      <4>1. [peer[rx_node] EXCEPT !.nonce = Held(rx_idx)]
              \in [nonce : Nonces \cup {NoNonce}, msg : 0 .. MaxMsgs, seq : 0 .. SEQ_MOD - 1, second : BOOLEAN]
        BY <3>1
      <4>2. peer' = [peer EXCEPT ![rx_node] = [peer[rx_node] EXCEPT !.nonce = Held(rx_idx)]]
        BY <3>1, <3>2
      <4> QED
        BY <3>1, <4>1, <4>2
    <3>3. CASE UNCHANGED peer
      BY <3>1, <3>3
    <3> QED
      BY <1>6, <3>2, <3>3, RxReportStep
  <2>3. RxDone /\ UNCHANGED <<made, tick_vars, rcv, air, used, upper>>
    BY <1>6, RxReportStep
  <2> QED
    BY <2>1, <2>2, <2>3 DEF SecRxTypeOK, SlotType, RxDone, tick_vars
<1>7. CASE RxInonceGet
  <2>1. rx_pc' \in {"idle", "copy"} /\ rx_frm' \in {rx_frm, NoFrame} /\ rx_node' \in {rx_node, NoNode}
        /\ rx_idx' \in {0} \cup Slots /\ rx_nonce' \in {rx_nonce, NoNonce}
    <3> DEFINE found == {i \in Slots : inonce_tbl[i].state = "VALID"
                                       /\ inonce_tbl[i].nonce.id = rx_frm.nonce.id}
    <3>1. found # {} => Min(found) \in Slots
      BY MinIsMember
    <3> HIDE DEF found
    <3> QED
      BY <1>7, <3>1 DEF RxInonceGet, RxDone, found
  <2> QED
    BY <1>7, <2>1 DEF RxInonceGet, SecRxTypeOK, tbl_vars, tick_vars
<1>8. CASE RxCopy
  <2>1. rx_nonce' \in Nonces \cup {NoNonce}
    BY <1>8, <1>t DEF RxCopy, RxDone, AtWork, SlotType
  <2> QED
    BY <1>8, <2>1 DEF RxCopy, RxDone, SecRxTypeOK, tbl_vars, tick_vars
<1>9. CASE RxCheck
  <2>1. inonce_tbl' \in [Slots -> SlotType]
    BY <1>9, AllGivenBack DEF RxCheck, GivesBack
  <2>2. rx_frm \in Frames /\ rx_frm.node \in Nodes /\ rx_frm.msg \in 1 .. MaxMsgs
        /\ rx_frm.seq \in 0 .. SEQ_MOD - 1
    BY <1>9 DEF RxCheck, AtWork, Frames
  <2>3. rx_nonce \in Nonces /\ rx_nonce.n \in 1 .. MaxNonces
    BY <1>9 DEF RxCheck, Copied, Nonces
  <2>4. used' \in [1 .. MaxNonces -> 0 .. 2]
    <3>1. used \in [1 .. MaxNonces -> 0 .. 2]
      BY DEF SecRxTypeOK
    <3>2. used' = [used EXCEPT ![rx_nonce.n] = IF @ < 2 THEN @ + 1 ELSE @] \/ UNCHANGED used
      BY <1>9 DEF RxCheck
    <3> QED
      BY <2>3, <3>1, <3>2
  <2>5. upper' \subseteq [node : Nodes, first : 0 .. MaxMsgs, second : 0 .. MaxMsgs]
    BY <1>9, <2>2 DEF RxCheck, Depacket, HandedUp, SecRxTypeOK
  <2>6. rcv' \in [Nodes -> [seq : 0 .. SEQ_MOD - 1, valid : BOOLEAN, first : 0 .. MaxMsgs]]
    <3>1. rcv \in [Nodes -> [seq : 0 .. SEQ_MOD - 1, valid : BOOLEAN, first : 0 .. MaxMsgs]]
      BY DEF SecRxTypeOK
    <3>2. \/ rcv' = [rcv EXCEPT ![rx_frm.node] = [seq |-> rx_frm.seq, valid |-> TRUE, first |-> rx_frm.msg]]
          \/ UNCHANGED rcv
      BY <1>9 DEF RxCheck, Depacket
    <3>3. [seq |-> rx_frm.seq, valid |-> TRUE, first |-> rx_frm.msg]
            \in [seq : 0 .. SEQ_MOD - 1, valid : BOOLEAN, first : 0 .. MaxMsgs]
      BY <2>2
    <3> QED
      BY <2>2, <3>1, <3>2, <3>3
  <2>7. rx_pc' \in {"idle", "gen"} /\ rx_frm' = NoFrame /\ rx_node' \in Nodes \cup {NoNode}
        /\ rx_idx' = 0 /\ rx_nonce' = NoNonce
    BY <1>9, <2>2 DEF RxCheck, Depacket, RxDone
  <2>8. UNCHANGED <<made, tick_vars, peer, air>>
    BY <1>9 DEF RxCheck
  <2> QED
    BY <2>1, <2>4, <2>5, <2>6, <2>7, <2>8 DEF SecRxTypeOK, SlotType, tick_vars
<1>10. ASSUME NEW n \in Nodes, SppTxGen(n)
       PROVE  SecRxTypeOK'
  <2>1. /\ inonce_tbl' \in [Slots -> SlotType] /\ made' \in 0 .. MaxNonces
        /\ UNCHANGED <<tick_vars, rx_vars, rcv, peer, air, used, upper>>
    BY <1>10, SppTxStep
  <2> QED
    BY <2>1 DEF SecRxTypeOK, SlotType, tick_vars, rx_vars
<1>11. ASSUME NEW n \in Nodes, RxNonceGet(n)
       PROVE  SecRxTypeOK'
  BY <1>11 DEF RxNonceGet, SecRxTypeOK, tbl_vars, tick_vars
<1>12. ASSUME NEW n \in Nodes, PeerWhole(n) \/ PeerFirst(n) \/ PeerSecond(n)
       PROVE  SecRxTypeOK'
  <2>1. \E kind \in {"whole", "first", "second"}, msg \in 1 .. MaxMsgs, seq \in 0 .. SEQ_MOD - 1 :
          Sends(n, kind, msg, seq)
    <3>1. PeerSecond(n) => peer[n].msg \in 1 .. MaxMsgs
      BY DEF PeerSecond, SenderIsAhead, SecRxTypeOK
    <3> QED
      BY <1>12, <3>1, PeerSteps
  <2> QED
    BY <2>1, SendsStep DEF SecRxTypeOK, tbl_vars, tick_vars, rx_vars
<1>13. ASSUME NEW f \in air, RxFrame(f)
       PROVE  SecRxTypeOK'
  BY <1>13 DEF RxFrame, SecRxTypeOK, tbl_vars, tick_vars
<1> QED
  BY <1>n, <1>1, <1>2, <1>3, <1>4, <1>5, <1>6, <1>7, <1>8, <1>9, <1>10, <1>11, <1>12, <1>13
     DEF SecRxNext, Timer, CbThread

---------------------------------------------------------------------------
(* Every step keeps the times right.                                       *)

\* A slot, by the fields that time is about.
LEMMA SlotFields ==
  ASSUME SecRxTypeOK, NEW i \in Slots
  PROVE  inonce_tbl[i].expiry_tick \in 0 .. TICK_MOD - 1 /\ inonce_tbl[i].age \in 0 .. AgeMax
BY SlotTypes DEF SlotType

LEMMA ExpiryByAge ==
  ASSUME SecRxTypeOK, ExpiryFollowsAge
  PROVE  ExpiryIsDue
<1> SUFFICES ASSUME NEW i \in Slots, inonce_tbl[i].state = "VALID"
             PROVE  Expired(i) <=> inonce_tbl[i].age >= INTERNAL_NONCE_LIFE
  BY DEF ExpiryIsDue
<1> DEFINE e == inonce_tbl[i].expiry_tick
           a == inonce_tbl[i].age
<1>1. e \in 0 .. TICK_MOD - 1 /\ a \in 0 .. AgeMax /\ tmr_tick \in 0 .. TICK_MOD - 1
  BY SlotFields DEF SecRxTypeOK
<1>2. LET left == INTERNAL_NONCE_LIFE - a
      IN  e - tmr_tick = left \/ e - tmr_tick = left + TICK_MOD \/ e - tmr_tick = left - TICK_MOD
  BY DEF ExpiryFollowsAge, Left, Distance
<1>3. Expired(i) <=> TimerChk(tmr_tick, e)
  BY DEF Expired
<1> HIDE DEF e, a
<1>4. TimerChk(tmr_tick, e) <=> a >= INTERNAL_NONCE_LIFE
  BY <1>1, <1>2, Times DEF TimerChk
<1> QED
  BY <1>3, <1>4 DEF a

\* The times of one slot after a step: it holds no valid nonce, it is as it was, or its
\* life has begun.
Begins(i) ==
  inonce_tbl'[i].age = 0 /\ inonce_tbl'[i].expiry_tick = TickAfter(INTERNAL_NONCE_LIFE)
LEMMA TimesOfSlots ==
  ASSUME SecRxTypeOK, SecRxTypeOK', TimeInv, UNCHANGED tick_vars,
         \A i \in Slots : inonce_tbl'[i].state = "INVALID" \/ inonce_tbl'[i] = inonce_tbl[i]
                          \/ inonce_tbl'[i].state = "INIT" \/ Begins(i)
  PROVE  TimeInv'
<1>1. tmr_tick' = tmr_tick /\ clean_up_tick' = clean_up_tick /\ clean_up_idx' = clean_up_idx
      /\ condemned' = condemned
  BY DEF tick_vars
<1>2. CleanUpStands'
  BY <1>1 DEF TimeInv, CleanUpStands
<1>3. tmr_tick \in 0 .. TICK_MOD - 1 /\ clean_up_tick \in Nat /\ clean_up_idx \in Nat
  BY Times DEF SecRxTypeOK, Slots
<1>4. ASSUME NEW i \in Slots, inonce_tbl'[i].state = "VALID"
      PROVE  /\ Distance(i)' = Left(i)' \/ Distance(i)' = Left(i)' + TICK_MOD
                \/ Distance(i)' = Left(i)' - TICK_MOD
             /\ inonce_tbl'[i].age < AgeBound(i)'
  <2>1. CASE inonce_tbl'[i] = inonce_tbl[i]
    BY <1>1, <1>4, <2>1 DEF TimeInv, ExpiryFollowsAge, AgeIsBound, Distance, Left, AgeBound
  <2>2. CASE Begins(i)
    <3>1. TickAfter(INTERNAL_NONCE_LIFE) = tmr_tick + INTERNAL_NONCE_LIFE
          \/ TickAfter(INTERNAL_NONCE_LIFE) = tmr_tick + INTERNAL_NONCE_LIFE - TICK_MOD
      BY Times, TickAhead
    <3>2. Left(i)' = INTERNAL_NONCE_LIFE
      BY <2>2, Times DEF Begins, Left
    <3>3. Distance(i)' = TickAfter(INTERNAL_NONCE_LIFE) - tmr_tick
      BY <1>1, <2>2 DEF Begins, Distance
    <3>4. 0 < AgeBound(i)'
      BY <1>1, <1>3, Times DEF AgeBound
    <3> QED
      BY <2>2, <1>3, <3>1, <3>2, <3>3, <3>4, Times DEF Begins
  <2> QED
    BY <1>4, <2>1, <2>2
<1> QED
  BY <1>2, <1>4 DEF TimeInv, ExpiryFollowsAge, AgeIsBound

\* What is left and the distance both shrink by one, and the counter may wrap.
LEMMA TickOlder ==
  ASSUME NEW e \in 0 .. TICK_MOD - 1, NEW now \in 0 .. TICK_MOD - 1, NEW next \in 0 .. TICK_MOD - 1,
         NEW a \in 0 .. AgeMax, next = now + 1 \/ next = now + 1 - TICK_MOD,
         \/ e - now = INTERNAL_NONCE_LIFE - a
         \/ e - now = INTERNAL_NONCE_LIFE - a + TICK_MOD
         \/ e - now = INTERNAL_NONCE_LIFE - a - TICK_MOD,
         a < AgeMax
  PROVE  \/ e - next = INTERNAL_NONCE_LIFE - (a + 1)
         \/ e - next = INTERNAL_NONCE_LIFE - (a + 1) + TICK_MOD
         \/ e - next = INTERNAL_NONCE_LIFE - (a + 1) - TICK_MOD
BY Times

\* The tick: all slots are a tick older, and the counter may wrap.
LEMMA TickKeepsTimes ==
  ASSUME SecRxTypeOK, SecRxTypeOK', TimeInv, TmoutTick
  PROVE  TimeInv'
<1>1. /\ clean_up_idx = 0 /\ tmr_tick' = TickAfter(1) /\ condemned' = condemned
      /\ clean_up_tick' = (clean_up_tick + 1) % INTERNAL_NONCE_TABLE_CHECK
      /\ clean_up_idx' = (IF clean_up_tick' = 0 THEN 1 ELSE 0)
      /\ inonce_tbl' = Aged(inonce_tbl)
  BY DEF TmoutTick
<1>2. /\ tmr_tick \in 0 .. TICK_MOD - 1 /\ clean_up_tick \in 0 .. INTERNAL_NONCE_TABLE_CHECK - 1
      /\ tmr_tick' \in 0 .. TICK_MOD - 1
  BY DEF SecRxTypeOK
<1>3. tmr_tick' = tmr_tick + 1 \/ tmr_tick' = tmr_tick + 1 - TICK_MOD
  BY <1>1, Times, TickAhead
<1>4. clean_up_tick' = (IF clean_up_tick + 1 < INTERNAL_NONCE_TABLE_CHECK THEN clean_up_tick + 1 ELSE 0)
  <2> DEFINE t == clean_up_tick + 1
  <2>1. t \in Nat /\ t < 2 * INTERNAL_NONCE_TABLE_CHECK /\ t <= INTERNAL_NONCE_TABLE_CHECK
    BY <1>2, Times
  <2> HIDE DEF t
  <2>2. t % INTERNAL_NONCE_TABLE_CHECK
          = (IF t < INTERNAL_NONCE_TABLE_CHECK THEN t ELSE t - INTERNAL_NONCE_TABLE_CHECK)
    BY <2>1, Times, ModOnce
  <2>3. t < INTERNAL_NONCE_TABLE_CHECK \/ t - INTERNAL_NONCE_TABLE_CHECK = 0
    BY <2>1, Times
  <2> QED
    BY <1>1, <2>2, <2>3 DEF t
<1>5. ASSUME NEW i \in Slots, inonce_tbl'[i].state = "VALID"
      PROVE  /\ Distance(i)' = Left(i)' \/ Distance(i)' = Left(i)' + TICK_MOD
                \/ Distance(i)' = Left(i)' - TICK_MOD
             /\ inonce_tbl'[i].age < AgeBound(i)'
  <2> DEFINE e == inonce_tbl[i].expiry_tick
             a == inonce_tbl[i].age
  <2>1. inonce_tbl[i].state = "VALID" /\ inonce_tbl'[i].expiry_tick = e
        /\ inonce_tbl'[i].age = (IF a < AgeMax THEN a + 1 ELSE a)
    BY <1>1, <1>5, AgedTable
  <2>2. e \in 0 .. TICK_MOD - 1 /\ a \in 0 .. AgeMax
    BY SlotFields
  <2>3. \/ e - tmr_tick = INTERNAL_NONCE_LIFE - a
        \/ e - tmr_tick = INTERNAL_NONCE_LIFE - a + TICK_MOD
        \/ e - tmr_tick = INTERNAL_NONCE_LIFE - a - TICK_MOD
    BY <2>1 DEF TimeInv, ExpiryFollowsAge, Left, Distance
  <2>4. a < INTERNAL_NONCE_LIFE + clean_up_tick
    BY <1>1, <2>1 DEF TimeInv, AgeIsBound, AgeBound
  <2>5. Left(i)' = INTERNAL_NONCE_LIFE - inonce_tbl'[i].age /\ Distance(i)' = e - tmr_tick'
    BY <2>1 DEF Left, Distance
  <2>6. AgeBound(i)' = IF clean_up_tick' = 0 THEN AgeMax ELSE INTERNAL_NONCE_LIFE + clean_up_tick'
    BY <1>1, Times DEF AgeBound, Slots
  <2> HIDE DEF e, a
  <2>7. a < AgeMax /\ inonce_tbl'[i].age = a + 1
    BY <1>2, <2>1, <2>2, <2>4, Times
  <2>8. a + 1 < AgeBound(i)'
    BY <1>2, <1>4, <2>2, <2>4, <2>6, Times
  <2>9. \/ e - tmr_tick' = INTERNAL_NONCE_LIFE - (a + 1)
        \/ e - tmr_tick' = INTERNAL_NONCE_LIFE - (a + 1) + TICK_MOD
        \/ e - tmr_tick' = INTERNAL_NONCE_LIFE - (a + 1) - TICK_MOD
    <3> DEFINE next == tmr_tick'
    <3>1. next \in 0 .. TICK_MOD - 1 /\ (next = tmr_tick + 1 \/ next = tmr_tick + 1 - TICK_MOD)
      BY <1>2, <1>3
    <3> HIDE DEF next
    <3>2. \/ e - next = INTERNAL_NONCE_LIFE - (a + 1)
          \/ e - next = INTERNAL_NONCE_LIFE - (a + 1) + TICK_MOD
          \/ e - next = INTERNAL_NONCE_LIFE - (a + 1) - TICK_MOD
      BY <1>2, <2>2, <2>3, <2>7, <3>1, TickOlder
    <3> QED
      BY <3>2 DEF next
  <2> QED
    BY <2>5, <2>7, <2>8, <2>9
<1>6. CleanUpStands'
  BY <1>1, <1>2, Times DEF TimeInv, CleanUpStands, SecRxTypeOK
<1> QED
  BY <1>5, <1>6 DEF TimeInv, ExpiryFollowsAge, AgeIsBound

\* The clean-up goes on to the next slot: those it has passed are in their lives.
LEMMA NextSlotIs ==
  ASSUME clean_up_idx \in Slots
  PROVE  NextSlot = (IF clean_up_idx < SLOTS THEN clean_up_idx + 1 ELSE 0)
<1> DEFINE k == clean_up_idx + 1
<1>1. k \in Nat /\ k < 2 * (SLOTS + 1) /\ k <= SLOTS + 1 /\ SLOTS + 1 \in Nat \ {0}
  BY Times DEF Slots
<1> HIDE DEF k
<1>2. k % (SLOTS + 1) = (IF k < SLOTS + 1 THEN k ELSE k - (SLOTS + 1))
  BY <1>1, ModOnce
<1>3. k < SLOTS + 1 \/ k - (SLOTS + 1) = 0
  BY <1>1
<1> QED
  BY <1>2, <1>3, Times DEF NextSlot, Slots, k

LEMMA GoesOnKeepsTimes ==
  ASSUME SecRxTypeOK, TimeInv, clean_up_idx \in Slots, condemned' = FALSE, clean_up_idx' = NextSlot,
         UNCHANGED <<tmr_tick, clean_up_tick>>,
         \A i \in Slots : inonce_tbl'[i].state = "INVALID" \/ inonce_tbl'[i] = inonce_tbl[i],
         inonce_tbl'[clean_up_idx].state = "VALID" =>
           inonce_tbl'[clean_up_idx].age < INTERNAL_NONCE_LIFE
  PROVE  TimeInv'
<1>1. clean_up_tick = 0 /\ clean_up_tick' = 0 /\ clean_up_idx \in 1 .. SLOTS /\ clean_up_idx # 0
  BY Times DEF TimeInv, CleanUpStands, Slots
<1>2. clean_up_idx' = (IF clean_up_idx < SLOTS THEN clean_up_idx + 1 ELSE 0)
  BY NextSlotIs
<1>3. ASSUME NEW i \in Slots, inonce_tbl'[i].state = "VALID"
      PROVE  /\ Distance(i)' = Left(i)' \/ Distance(i)' = Left(i)' + TICK_MOD
                \/ Distance(i)' = Left(i)' - TICK_MOD
             /\ inonce_tbl'[i].age < AgeBound(i)'
  <2>1. inonce_tbl'[i] = inonce_tbl[i] /\ inonce_tbl[i].state = "VALID"
    BY <1>3
  <2>2. Distance(i)' = Left(i)' \/ Distance(i)' = Left(i)' + TICK_MOD \/ Distance(i)' = Left(i)' - TICK_MOD
    BY <2>1 DEF TimeInv, ExpiryFollowsAge, Distance, Left
  <2>3. inonce_tbl[i].age < (IF i < clean_up_idx THEN INTERNAL_NONCE_LIFE ELSE AgeMax)
    BY <1>1, <2>1 DEF TimeInv, AgeIsBound, AgeBound
  <2>4. i \in 1 .. SLOTS /\ inonce_tbl[i].age \in Nat
    BY SlotFields, Times DEF Slots
  <2>5. i <= clean_up_idx => inonce_tbl[i].age < INTERNAL_NONCE_LIFE
    <3>1. i = clean_up_idx => inonce_tbl[i].age < INTERNAL_NONCE_LIFE
      BY <1>3, <2>1
    <3> QED
      BY <1>1, <2>3, <2>4, <3>1
  <2>6. AgeBound(i)' = IF clean_up_idx' = 0 THEN INTERNAL_NONCE_LIFE
                       ELSE IF i < clean_up_idx' THEN INTERNAL_NONCE_LIFE ELSE AgeMax
    BY <1>1, Times DEF AgeBound
  <2>7. inonce_tbl[i].age < AgeMax
    BY <2>3, <2>4, Times
  <2>8. inonce_tbl[i].age < AgeBound(i)'
    BY <1>1, <1>2, <2>4, <2>5, <2>6, <2>7, Times
  <2> QED
    BY <2>1, <2>2, <2>8
<1>4. CleanUpStands'
  BY <1>1 DEF CleanUpStands
<1> QED
  BY <1>3, <1>4 DEF TimeInv, ExpiryFollowsAge, AgeIsBound

LEMMA TimesKept ==
  ASSUME SecRxTypeOK, SecRxTypeOK', TimeInv, AtWork, [SecRxNext]_sec_rx_vars
  PROVE  TimeInv'
<1>n. Peers \subseteq Nodes
  BY SecRxAssumption
<1>a. ASSUME UNCHANGED <<inonce_tbl, tick_vars>>
      PROVE  TimeInv'
  BY <1>a, TimesOfSlots
<1>1. CASE UNCHANGED sec_rx_vars
  BY <1>1, <1>a DEF sec_rx_vars, tbl_vars
<1>2. CASE TmoutTick
  BY <1>2, TickKeepsTimes
<1>3. CASE TmoutLook
  <2>1. clean_up_idx \in Slots /\ UNCHANGED <<tmr_tick, clean_up_tick, inonce_tbl>>
    BY <1>3 DEF TmoutLook, SecRxTypeOK, tbl_vars
  <2>2. CASE CleansUp(clean_up_idx)
    <3>1. clean_up_idx' = clean_up_idx /\ UNCHANGED <<tmr_tick, clean_up_tick, inonce_tbl>>
      BY <1>3, <2>2, <2>1 DEF TmoutLook
    <3> QED
      BY <3>1, <2>1, Times DEF TimeInv, ExpiryFollowsAge, AgeIsBound, CleanUpStands, Distance, Left,
                              AgeBound, Slots
  <2>3. CASE ~ CleansUp(clean_up_idx)
    <3>1. condemned' = FALSE /\ clean_up_idx' = NextSlot
      BY <1>3, <2>3 DEF TmoutLook, CleansUp
    <3>2. inonce_tbl[clean_up_idx].state = "VALID" =>
            inonce_tbl[clean_up_idx].age < INTERNAL_NONCE_LIFE
      <4>1. ExpiryIsDue
        BY ExpiryByAge DEF TimeInv
      <4> QED
        BY <2>1, <2>3, <4>1, SlotFields, Times DEF CleansUp, ExpiryIsDue
    <3> QED
      BY <2>1, <3>1, <3>2, GoesOnKeepsTimes
  <2> QED
    BY <2>2, <2>3
<1>4. CASE TmoutWrite
  <2>1. clean_up_idx \in Slots
    BY <1>4 DEF TmoutWrite, TimeInv, CleanUpStands, SecRxTypeOK
  <2>2. condemned' = FALSE /\ clean_up_idx' = NextSlot /\ UNCHANGED <<tmr_tick, clean_up_tick>>
        /\ inonce_tbl' = [inonce_tbl EXCEPT ![clean_up_idx] = Invalid(@)]
    BY <1>4 DEF TmoutWrite
  <2>3. inonce_tbl'[clean_up_idx].state = "INVALID"
        /\ \A j \in Slots \ {clean_up_idx} : inonce_tbl'[j] = inonce_tbl[j]
    BY <2>1, <2>2, OneGivenBack
  <2> QED
    BY <2>1, <2>2, <2>3, GoesOnKeepsTimes
<1>5. CASE RxGen
  <2>1. rx_node \in Nodes
    BY <1>5 DEF RxGen, AtWork
  <2>2. ASSUME NEW i \in Slots, NEW id \in 1 .. NONCE_IDS,
               inonce_tbl'[i] = NewIn(i, rx_node, "INIT", id),
               \A j \in Slots \ {i} : inonce_tbl'[j] = inonce_tbl[j], UNCHANGED tick_vars
        PROVE  TimeInv'
    <3>1. inonce_tbl'[i].state = "INIT"
      BY <2>2 DEF NewIn
    <3> QED
      BY <2>2, <3>1, TimesOfSlots
  <2>3. CASE UNCHANGED <<tbl_vars, tick_vars>>
    BY <2>3, <1>a DEF tbl_vars
  <2> QED
    BY <1>5, <2>1, <2>2, <2>3, RxGenStep
<1>6. CASE RxReport
  <2>1. rx_idx \in Slots /\ UNCHANGED tick_vars
    BY <1>6, RxReportStep
  <2>2. CASE inonce_tbl'[rx_idx] = Reported(inonce_tbl[rx_idx])
             /\ \A j \in Slots \ {rx_idx} : inonce_tbl'[j] = inonce_tbl[j]
    <3>1. inonce_tbl[rx_idx] \in SlotType
      BY <2>1, SlotTypes
    <3>2. Begins(rx_idx)
      BY <2>2, <3>1, ReportedSlot DEF Begins
    <3> QED
      BY <2>1, <2>2, <3>2, TimesOfSlots
  <2>3. CASE GivesBack
    BY <2>1, <2>3, TimesOfSlots DEF GivesBack
  <2>4. CASE UNCHANGED inonce_tbl
    BY <2>1, <2>4, <1>a
  <2> QED
    BY <1>6, <2>2, <2>3, <2>4, RxReportStep
<1>7. CASE RxInonceGet
  BY <1>7, <1>a DEF RxInonceGet, tbl_vars
<1>8. CASE RxCopy
  BY <1>8, <1>a DEF RxCopy, tbl_vars
<1>9. CASE RxCheck
  BY <1>9, AllGivenBack, TimesOfSlots DEF RxCheck, GivesBack
<1>10. ASSUME NEW n \in Nodes, SppTxGen(n)
       PROVE  TimeInv'
  <2>1. PICK i \in Slots, id \in 1 .. NONCE_IDS :
          /\ inonce_tbl'[i] = NewIn(i, n, "VALID", id)
          /\ \A j \in Slots \ {i} : inonce_tbl'[j] = inonce_tbl[j]
          /\ UNCHANGED tick_vars
    BY <1>10, SppTxStep
  <2>2. Begins(i)
    BY <2>1 DEF Begins, NewIn
  <2> QED
    BY <2>1, <2>2, TimesOfSlots
<1>11. ASSUME NEW n \in Nodes, RxNonceGet(n)
       PROVE  TimeInv'
  BY <1>11, <1>a DEF RxNonceGet, tbl_vars
<1>12. ASSUME NEW n \in Nodes, PeerWhole(n) \/ PeerFirst(n) \/ PeerSecond(n)
       PROVE  TimeInv'
  BY <1>12, <1>a DEF PeerWhole, PeerFirst, PeerSecond, Sends, tbl_vars
<1>13. ASSUME NEW f \in air, RxFrame(f)
       PROVE  TimeInv'
  BY <1>13, <1>a DEF RxFrame, tbl_vars
<1> QED
  BY <1>n, <1>1, <1>2, <1>3, <1>4, <1>5, <1>6, <1>7, <1>8, <1>9, <1>10, <1>11, <1>12, <1>13
     DEF SecRxNext, Timer, CbThread

---------------------------------------------------------------------------
(* Every step keeps the use of nonces right.                               *)

\* Slots are given back or stay as they are, and no nonce is used: the callback thread
\* may go on with the slot, or the copy, it has.
LEMMA GivingBackKeepsUse ==
  ASSUME SecRxTypeOK, SecRxTypeOK', UseInv, UNCHANGED <<made, used>>,
         \A i \in Slots : /\ inonce_tbl'[i].nonce = inonce_tbl[i].nonce
                          /\ inonce_tbl'[i].rcv_nodeid = inonce_tbl[i].rcv_nodeid
                          /\ \/ inonce_tbl'[i].state = "INVALID" \/ inonce_tbl[i].state # "INVALID"
                             \/ NotYetUsed(i),
         AtWork', Copied'
  PROVE  UseInv'
BY DEF UseInv, NoneFromFuture, HeldOnce, LiveIsUnused, NonceAcceptedOnce, Held, NotYetUsed

\* A new nonce is held by no other slot and has not been used.
LEMMA MakingKeepsUse ==
  ASSUME SecRxTypeOK, SecRxTypeOK', UseInv, UNCHANGED used, NEW i \in Slots,
         made' = made + 1, made' \in 1 .. MaxNonces,
         inonce_tbl'[i].nonce \in Nonces, inonce_tbl'[i].nonce.n = made + 1,
         \A j \in Slots \ {i} : inonce_tbl'[j] = inonce_tbl[j],
         AtWork', Copied'
  PROVE  UseInv'
<1>1. made \in Nat /\ \A n \in 1 .. MaxNonces : used[n] \in 0 .. 2
  BY Times DEF SecRxTypeOK
<1>2. \A nonce \in Nonces : nonce.n \in 1 .. MaxNonces
  BY DEF Nonces
<1>3. NoneFromFuture'
  BY <1>1, <1>2 DEF UseInv, NoneFromFuture, Held
<1>4. HeldOnce'
  <2>1. \A j \in Slots \ {i} : Held(j)' = Held(j) /\ (Held(j) \in Nonces => Held(j).n # made + 1)
    BY <1>1, <1>2 DEF UseInv, NoneFromFuture, Held
  <2>2. Held(i)' \in Nonces /\ Held(i)'.n = made + 1
    BY DEF Held
  <2> QED
    BY <2>1, <2>2 DEF UseInv, HeldOnce
<1>5. LiveIsUnused'
  <2>1. NotYetUsed(i)'
    BY <1>1 DEF UseInv, NoneFromFuture, NotYetUsed, Held
  <2>2. \A j \in Slots \ {i} : NotYetUsed(j) => NotYetUsed(j)'
    BY DEF NotYetUsed, Held
  <2> QED
    BY <2>1, <2>2 DEF UseInv, LiveIsUnused
<1>6. NonceAcceptedOnce'
  BY DEF UseInv, NonceAcceptedOnce
<1> QED
  BY <1>3, <1>4, <1>5, <1>6 DEF UseInv

\* What the callback thread has is still right after a step of another thread.
LEMMA WorkOfOthers ==
  ASSUME SecRxTypeOK, UseInv, UNCHANGED <<rx_vars, used, made>>,
         \A i \in Slots : /\ inonce_tbl'[i].nonce = inonce_tbl[i].nonce
                          /\ inonce_tbl'[i].rcv_nodeid = inonce_tbl[i].rcv_nodeid
  PROVE  AtWork' /\ Copied'
<1>1. UNCHANGED <<rx_pc, rx_frm, rx_node, rx_idx, rx_nonce>>
  BY DEF rx_vars
<1>2. AtWork'
  BY <1>1 DEF UseInv, AtWork, NotYetUsed, Held
<1>3. Copied'
  BY <1>1 DEF UseInv, Copied, Held
<1> QED
  BY <1>2, <1>3

\* The callback thread is done with a command.
LEMMA DoneIsRight ==
  ASSUME RxDone
  PROVE  AtWork' /\ Copied'
BY DEF RxDone, AtWork, Copied

LEMMA UseKept ==
  ASSUME SecRxTypeOK, SecRxTypeOK', UseInv, [SecRxNext]_sec_rx_vars
  PROVE  UseInv'
<1>n. Peers \subseteq Nodes
  BY SecRxAssumption
<1>a. ASSUME UNCHANGED <<inonce_tbl, made, used>>, AtWork', Copied'
      PROVE  UseInv'
  BY <1>a, GivingBackKeepsUse
<1>o. ASSUME UNCHANGED <<tbl_vars, rx_vars, used>>
      PROVE  UseInv'
  BY <1>o, <1>a, WorkOfOthers DEF tbl_vars
<1>1. CASE UNCHANGED sec_rx_vars
  BY <1>1, <1>o DEF sec_rx_vars
<1>2. CASE TmoutTick
  <2>1. UNCHANGED <<rx_vars, used, made>> /\ inonce_tbl' = Aged(inonce_tbl)
    BY <1>2 DEF TmoutTick
  <2>2. \A i \in Slots : /\ inonce_tbl'[i].nonce = inonce_tbl[i].nonce
                         /\ inonce_tbl'[i].rcv_nodeid = inonce_tbl[i].rcv_nodeid
                         /\ inonce_tbl'[i].state = inonce_tbl[i].state
    BY <2>1, AgedTable
  <2> QED
    BY <2>1, <2>2, GivingBackKeepsUse, WorkOfOthers
<1>3. CASE TmoutLook
  BY <1>3, <1>o DEF TmoutLook
<1>4. CASE TmoutWrite
  <2>1. UNCHANGED <<rx_vars, used, made>>
    BY <1>4 DEF TmoutWrite
  <2>2. \A i \in Slots : /\ inonce_tbl'[i].nonce = inonce_tbl[i].nonce
                         /\ inonce_tbl'[i].rcv_nodeid = inonce_tbl[i].rcv_nodeid
                         /\ inonce_tbl'[i].state = "INVALID" \/ inonce_tbl'[i].state = inonce_tbl[i].state
    <3>1. CASE clean_up_idx \in Slots
      BY <1>4, <3>1, OneGivenBack DEF TmoutWrite, GivesBack
    <3>2. CASE clean_up_idx \notin Slots
      BY <1>4, <3>2, SlotTypes DEF TmoutWrite
    <3> QED
      BY <3>1, <3>2
  <2> QED
    BY <2>1, <2>2, GivingBackKeepsUse, WorkOfOthers
<1>5. CASE RxGen
  <2>1. rx_node \in Nodes
    BY <1>5 DEF RxGen, UseInv, AtWork
  <2>2. ASSUME NEW i \in Slots, NEW id \in 1 .. NONCE_IDS,
               made' = made + 1, made' \in 1 .. MaxNonces,
               inonce_tbl'[i] = NewIn(i, rx_node, "INIT", id), NewIn(i, rx_node, "INIT", id).nonce \in Nonces,
               \A j \in Slots \ {i} : inonce_tbl'[j] = inonce_tbl[j],
               rx_pc' = "report", rx_idx' = i, UNCHANGED <<rx_node, used>>
        PROVE  UseInv'
    <3>1. inonce_tbl'[i].nonce \in Nonces /\ inonce_tbl'[i].nonce.n = made + 1
      BY <2>2 DEF NewIn
    <3>2. used[made + 1] = 0
      BY <2>2, Times DEF UseInv, NoneFromFuture, SecRxTypeOK
    <3>3. AtWork' /\ Copied'
      BY <2>1, <2>2, <3>1, <3>2 DEF AtWork, Copied, NotYetUsed, Held
    <3> QED
      BY <2>2, <3>1, <3>3, MakingKeepsUse
  <2>3. CASE RxDone /\ UNCHANGED <<tbl_vars, used>>
    BY <2>3, <1>a, DoneIsRight DEF tbl_vars
  <2> QED
    BY <1>5, <2>1, <2>2, <2>3, RxGenStep
<1>6. CASE RxReport
  <2>1. rx_idx \in Slots /\ RxDone /\ UNCHANGED <<made, used>>
    BY <1>6, RxReportStep DEF UseInv
  <2>2. AtWork' /\ Copied'
    BY <2>1, DoneIsRight
  <2>3. CASE inonce_tbl'[rx_idx] = Reported(inonce_tbl[rx_idx])
             /\ \A j \in Slots \ {rx_idx} : inonce_tbl'[j] = inonce_tbl[j]
    <3>1. inonce_tbl[rx_idx] \in SlotType
      BY <2>1, SlotTypes
    <3>2. NotYetUsed(rx_idx)
      BY <1>6 DEF RxReport, UseInv, AtWork
    <3>3. inonce_tbl'[rx_idx].nonce = inonce_tbl[rx_idx].nonce
          /\ inonce_tbl'[rx_idx].rcv_nodeid = inonce_tbl[rx_idx].rcv_nodeid
      BY <2>3, <3>1, ReportedSlot
    <3> QED
      BY <2>1, <2>2, <2>3, <3>2, <3>3, GivingBackKeepsUse
  <2>4. CASE GivesBack
    BY <2>1, <2>2, <2>4, GivingBackKeepsUse DEF GivesBack
  <2>5. CASE UNCHANGED inonce_tbl
    BY <2>1, <2>2, <2>5, <1>a
  <2> QED
    BY <1>6, <2>3, <2>4, <2>5, RxReportStep DEF UseInv
<1>7. CASE RxInonceGet
  <2> DEFINE found == {i \in Slots : inonce_tbl[i].state = "VALID"
                                     /\ inonce_tbl[i].nonce.id = rx_frm.nonce.id}
  <2>1. UNCHANGED <<inonce_tbl, made, used>>
    BY <1>7 DEF RxInonceGet, tbl_vars
  <2>2. CASE RxDone
    BY <2>1, <2>2, <1>a, DoneIsRight
  <2>3. CASE ~ RxDone
    <3>1. found # {} /\ rx_pc' = "copy" /\ rx_idx' = Min(found) /\ UNCHANGED <<rx_frm, rx_node, rx_nonce>>
      BY <1>7, <2>3 DEF RxInonceGet
    <3>2. Min(found) \in found
      BY <3>1, MinIsMember
    <3>3. Min(found) \in Slots /\ NotYetUsed(Min(found))
      BY <3>2 DEF UseInv, LiveIsUnused
    <3> HIDE DEF found
    <3>4. AtWork' /\ Copied'
      <4>1. rx_idx' \in Slots /\ NotYetUsed(rx_idx')
        BY <3>1, <3>3, Zenon
      <4>2. rx_frm' \in Frames
        BY <1>7, <3>1 DEF RxInonceGet, UseInv, AtWork
      <4> QED
        BY <2>1, <3>1, <4>1, <4>2 DEF AtWork, Copied, NotYetUsed, Held
    <3> QED
      BY <2>1, <3>4, <1>a
  <2> QED
    BY <2>2, <2>3
<1>8. CASE RxCopy
  <2>1. UNCHANGED <<inonce_tbl, made, used>>
    BY <1>8 DEF RxCopy, tbl_vars
  <2>2. CASE RxDone
    BY <2>1, <2>2, <1>a, DoneIsRight
  <2>3. CASE ~ RxDone
    <3>1. /\ rx_pc' = "check" /\ rx_nonce' = Held(rx_idx) /\ inonce_tbl[rx_idx].rcv_nodeid = rx_frm.node
          /\ UNCHANGED <<rx_frm, rx_node, rx_idx>>
      BY <1>8, <2>3 DEF RxCopy, Held
    <3>2. rx_idx \in Slots /\ NotYetUsed(rx_idx) /\ rx_frm \in Frames
      BY <1>8 DEF RxCopy, UseInv, AtWork
    <3>3. \A i \in Slots : Held(i) \in Nonces /\ Held(i).n = Held(rx_idx).n => i = rx_idx
      BY <3>2 DEF UseInv, HeldOnce, NotYetUsed
    <3>4. Held(rx_idx).n <= made
      BY <3>2 DEF UseInv, NoneFromFuture, NotYetUsed
    <3>5. AtWork' /\ Copied'
      BY <2>1, <3>1, <3>2, <3>3, <3>4 DEF AtWork, Copied, NotYetUsed, Held
    <3> QED
      BY <2>1, <3>5, <1>a
  <2> QED
    BY <2>2, <2>3
<1>9. CASE RxCheck
  <2>1. /\ rx_nonce \in Nonces /\ used[rx_nonce.n] = 0 /\ rx_nonce.n <= made
        /\ \A i \in Slots : Held(i) \in Nonces /\ Held(i).n = rx_nonce.n =>
             inonce_tbl[i].rcv_nodeid = rx_frm.node
        /\ rx_frm \in Frames
    BY <1>9 DEF RxCheck, UseInv, Copied, AtWork
  <2>2. rx_nonce.n \in 1 .. MaxNonces /\ rx_frm.node \in Nodes
    BY <2>1 DEF Nonces, Frames
  <2>3. inonce_tbl' = RmAll /\ UNCHANGED made
    BY <1>9 DEF RxCheck
  <2>4. AtWork' /\ Copied'
    BY <1>9, <2>2 DEF RxCheck, Depacket, RxDone, AtWork, Copied
  <2>5. GivesBack /\ \A i \in Slots :
          inonce_tbl[i].rcv_nodeid = rx_frm.node => inonce_tbl'[i].state = "INVALID"
    BY <2>3, AllGivenBack
  <2>6. CASE UNCHANGED used
    BY <2>3, <2>4, <2>5, <2>6, GivingBackKeepsUse DEF GivesBack
  <2>7. CASE used' = [used EXCEPT ![rx_nonce.n] = IF @ < 2 THEN @ + 1 ELSE @]
    <3>1. used \in [1 .. MaxNonces -> 0 .. 2] /\ made \in Nat
      BY Times DEF SecRxTypeOK
    <3>2. used'[rx_nonce.n] = 1 /\ \A n \in 1 .. MaxNonces : n # rx_nonce.n => used'[n] = used[n]
      BY <2>1, <2>2, <2>7, <3>1
    <3>3. \A i \in Slots : Held(i)' = Held(i)
      BY <2>5 DEF GivesBack, Held
    <3>4. \A nonce \in Nonces : nonce.n \in 1 .. MaxNonces
      BY DEF Nonces
    <3>5. NoneFromFuture'
      BY <2>1, <2>2, <2>3, <3>1, <3>2, <3>3 DEF UseInv, NoneFromFuture
    <3>6. HeldOnce'
      BY <3>3 DEF UseInv, HeldOnce
    <3>7. LiveIsUnused'
      <4>1. ASSUME NEW i \in Slots, inonce_tbl'[i].state # "INVALID"
            PROVE  Held(i)' \in Nonces /\ used'[Held(i)'.n] = 0
        <5>1. inonce_tbl'[i] = inonce_tbl[i] /\ inonce_tbl[i].rcv_nodeid # rx_frm.node
          BY <2>5, <4>1 DEF GivesBack
        <5>2. NotYetUsed(i)
          BY <4>1, <5>1 DEF UseInv, LiveIsUnused
        <5>3. Held(i).n # rx_nonce.n /\ Held(i).n \in 1 .. MaxNonces
          BY <2>1, <3>4, <5>1, <5>2 DEF NotYetUsed
        <5> QED
          BY <3>2, <3>3, <5>2, <5>3 DEF NotYetUsed
      <4> QED
        BY <4>1 DEF LiveIsUnused, NotYetUsed
    <3>8. NonceAcceptedOnce'
      BY <2>2, <3>2 DEF UseInv, NonceAcceptedOnce
    <3> QED
      BY <2>4, <3>5, <3>6, <3>7, <3>8 DEF UseInv
  <2> QED
    BY <1>9, <2>6, <2>7 DEF RxCheck
<1>10. ASSUME NEW n \in Nodes, SppTxGen(n)
       PROVE  UseInv'
  <2>1. PICK i \in Slots, id \in 1 .. NONCE_IDS :
          /\ made' = made + 1 /\ made' \in 1 .. MaxNonces
          /\ inonce_tbl'[i] = NewIn(i, n, "VALID", id) /\ NewIn(i, n, "VALID", id).nonce \in Nonces
          /\ \A j \in Slots \ {i} : inonce_tbl'[j] = inonce_tbl[j]
          /\ UNCHANGED <<rx_vars, used>>
    BY <1>10, SppTxStep
  <2>2. inonce_tbl'[i].nonce \in Nonces /\ inonce_tbl'[i].nonce.n = made + 1
    BY <2>1 DEF NewIn
  <2>3. used[made + 1] = 0 /\ made \in Nat
    BY <2>1, Times DEF UseInv, NoneFromFuture, SecRxTypeOK
  <2>4. UNCHANGED <<rx_pc, rx_frm, rx_node, rx_idx, rx_nonce, used>>
    BY <2>1 DEF rx_vars
  <2>5. AtWork'
    <3>1. \A j \in Slots : NotYetUsed(j) => NotYetUsed(j)'
      BY <2>1, <2>2, <2>3, <2>4 DEF NotYetUsed, Held
    <3> QED
      BY <2>4, <3>1 DEF UseInv, AtWork, NotYetUsed, Held
  <2>6. Copied'
    <3>1. \A nonce \in Nonces : nonce.n \in Nat
      BY Times DEF Nonces
    <3>2. rx_pc = "check" => rx_nonce.n # made + 1
      BY <2>3, <3>1 DEF UseInv, Copied
    <3>3. \A j \in Slots : \/ Held(j)' = Held(j) /\ inonce_tbl'[j].rcv_nodeid = inonce_tbl[j].rcv_nodeid
                           \/ Held(j)'.n = made + 1
      BY <2>1, <2>2 DEF Held
    <3>4. made <= made'
      BY <2>1, <2>3
    <3>5. rx_pc = "check" => rx_nonce \in Nonces /\ used[rx_nonce.n] = 0 /\ rx_nonce.n <= made'
      BY <2>1, <2>3, <3>1 DEF UseInv, Copied
    <3> QED
      BY <2>4, <3>2, <3>3, <3>5 DEF UseInv, Copied
  <2> QED
    BY <2>1, <2>2, <2>5, <2>6, MakingKeepsUse
<1>11. ASSUME NEW n \in Nodes, RxNonceGet(n)
       PROVE  UseInv'
  <2>1. AtWork' /\ Copied' /\ UNCHANGED <<inonce_tbl, made, used>>
    BY <1>11 DEF RxNonceGet, AtWork, Copied, tbl_vars
  <2> QED
    BY <2>1, <1>a
<1>12. ASSUME NEW n \in Nodes, PeerWhole(n) \/ PeerFirst(n) \/ PeerSecond(n)
       PROVE  UseInv'
  BY <1>12, <1>o DEF PeerWhole, PeerFirst, PeerSecond, Sends
<1>13. ASSUME NEW f \in air, RxFrame(f)
       PROVE  UseInv'
  <2>1. f \in Frames
    BY DEF SecRxTypeOK
  <2>2. AtWork' /\ Copied' /\ UNCHANGED <<inonce_tbl, made, used>>
    BY <1>13, <2>1 DEF RxFrame, AtWork, Copied, tbl_vars
  <2> QED
    BY <2>2, <1>a
<1> QED
  BY <1>n, <1>1, <1>2, <1>3, <1>4, <1>5, <1>6, <1>7, <1>8, <1>9, <1>10, <1>11, <1>12, <1>13
     DEF SecRxNext, Timer, CbThread

---------------------------------------------------------------------------
(* Every step keeps the numbers of split messages right.                   *)

\* The sender's message and number, and a part's.
LEMMA Numbers ==
  ASSUME SecRxTypeOK, NEW n \in Nodes
  PROVE  /\ peer[n].msg \in 0 .. MaxMsgs /\ peer[n].seq \in 0 .. SEQ_MOD - 1
         /\ peer[n].second \in BOOLEAN
         /\ rcv[n].seq \in 0 .. SEQ_MOD - 1 /\ rcv[n].first \in 0 .. MaxMsgs
         /\ \A p \in PartsOf(n) : p.msg \in 1 .. MaxMsgs /\ p.seq \in 0 .. SEQ_MOD - 1
BY DEF SecRxTypeOK, PartsOf

\* No part of a message has come into being.
LEMMA NothingNewKeepsSplit ==
  ASSUME SplitInv, PairedOrFar',
         \A n \in Nodes : /\ PartsOf(n)' \subseteq PartsOf(n)
                          /\ peer'[n].msg = peer[n].msg /\ peer'[n].seq = peer[n].seq
                          /\ peer'[n].second = peer[n].second
  PROVE  SplitInv'
<1>1. NumbersDiffer'
  BY DEF SplitInv, NumbersDiffer, Within
<1>2. SenderIsAhead'
  BY DEF SplitInv, SenderIsAhead, Within
<1> QED
  BY <1>1, <1>2 DEF SplitInv

\* Where the parts of a node's messages are after a step.
LEMMA NoNewParts ==
  ASSUME SecRxTypeOK, NEW n \in Nodes,
         \A f \in air' : f \in air,
         rx_frm' \in Frames => rx_frm' = rx_frm \/ rx_frm' \in air,
         \/ rcv'[n] = rcv[n]
         \/ /\ rx_frm \in Frames /\ rx_frm.node = n /\ rx_frm.kind # "whole"
            /\ rcv'[n].first = rx_frm.msg /\ rcv'[n].seq = rx_frm.seq,
         peer'[n].second => /\ peer[n].second /\ peer'[n].msg = peer[n].msg
                            /\ peer'[n].seq = peer[n].seq
  PROVE  PartsOf(n)' \subseteq PartsOf(n)
<1> SUFFICES ASSUME NEW p \in PartsOf(n)'
             PROVE  p \in PartsOf(n)
  OBVIOUS
<1>1. p \in [msg : 1 .. MaxMsgs, seq : 0 .. SEQ_MOD - 1]
  BY DEF PartsOf
<1>2. CASE p \in PartsOnWay(n)'
  <2>1. p \in PartsOnWay(n)
    BY <1>2 DEF PartsOnWay
  <2> QED
    BY <1>1, <2>1 DEF PartsOf
<1>3. CASE rx_frm' \in Frames /\ rx_frm'.node = n /\ rx_frm'.kind # "whole"
           /\ p = Part(rx_frm'.msg, rx_frm'.seq)
  <2>1. CASE rx_frm' = rx_frm
    BY <1>1, <1>3, <2>1 DEF PartsOf
  <2>2. CASE rx_frm' \in air
    <3>1. p \in PartsOnWay(n)
      BY <1>3, <2>2 DEF PartsOnWay
    <3> QED
      BY <1>1, <3>1 DEF PartsOf
  <2> QED
    BY <1>3, <2>1, <2>2
<1>4. CASE p = Part(rcv'[n].first, rcv'[n].seq)
  BY <1>1, <1>4 DEF PartsOf
<1>5. CASE peer'[n].second /\ p = Part(peer'[n].msg, peer'[n].seq)
  BY <1>1, <1>5 DEF PartsOf
<1> QED
  BY <1>2, <1>3, <1>4, <1>5 DEF PartsOf

\* The parts of a node that sends a frame: those before, and those of the frame.
LEMMA PartsAfterSend ==
  ASSUME SecRxTypeOK, NEW n \in Nodes, NEW f \in Frames, f.node = n,
         \A g \in air' : g \in air \/ g = f, UNCHANGED <<rx_frm, rcv>>,
         peer'[n].second => peer'[n].msg = f.msg /\ peer'[n].seq = f.seq,
         peer'[n].second => f.kind # "whole"
  PROVE  \A p \in PartsOf(n)' : p \in PartsOf(n) \/ (f.kind # "whole" /\ p = Part(f.msg, f.seq))
<1> SUFFICES ASSUME NEW p \in PartsOf(n)'
             PROVE  p \in PartsOf(n) \/ (f.kind # "whole" /\ p = Part(f.msg, f.seq))
  OBVIOUS
<1>1. p \in [msg : 1 .. MaxMsgs, seq : 0 .. SEQ_MOD - 1]
  BY DEF PartsOf
<1>2. CASE p \in PartsOnWay(n)'
  <2>1. p \in PartsOnWay(n) \/ (f.kind # "whole" /\ p = Part(f.msg, f.seq))
    BY <1>2 DEF PartsOnWay
  <2> QED
    BY <1>1, <2>1 DEF PartsOf
<1>3. CASE rx_frm' \in Frames /\ rx_frm'.node = n /\ rx_frm'.kind # "whole"
           /\ p = Part(rx_frm'.msg, rx_frm'.seq)
  BY <1>1, <1>3 DEF PartsOf
<1>4. CASE p = Part(rcv'[n].first, rcv'[n].seq)
  BY <1>1, <1>4 DEF PartsOf
<1>5. CASE peer'[n].second /\ p = Part(peer'[n].msg, peer'[n].seq)
  BY <1>1, <1>5
<1> QED
  BY <1>2, <1>3, <1>4, <1>5 DEF PartsOf

\* The parts of the other nodes are where they were.
LEMMA PartsOfOthers ==
  ASSUME SecRxTypeOK, NEW n \in Nodes, NEW m \in Nodes, m # n, NEW f \in Frames, f.node = n,
         \A g \in air' : g \in air \/ g = f, UNCHANGED <<rx_frm, rcv>>, peer'[m] = peer[m]
  PROVE  PartsOf(m)' \subseteq PartsOf(m)
<1> SUFFICES ASSUME NEW p \in PartsOf(m)'
             PROVE  p \in PartsOf(m)
  OBVIOUS
<1>1. p \in [msg : 1 .. MaxMsgs, seq : 0 .. SEQ_MOD - 1]
  BY DEF PartsOf
<1>2. CASE p \in PartsOnWay(m)'
  <2>1. p \in PartsOnWay(m)
    BY <1>2 DEF PartsOnWay
  <2> QED
    BY <1>1, <2>1 DEF PartsOf
<1> QED
  BY <1>1, <1>2 DEF PartsOf

\* The numbers of a message and of those before it, when the first part of a new one is
\* numbered: from one after the sender's.
LEMMA NextNumber ==
  ASSUME NEW p \in [msg : 1 .. MaxMsgs, seq : 0 .. SEQ_MOD - 1],
         NEW m \in 0 .. MaxMsgs, NEW s \in 0 .. SEQ_MOD - 1, NEW t \in 0 .. SEQ_MOD - 1,
         t = (IF s + 1 < SEQ_MOD THEN s + 1 ELSE s + 1 - SEQ_MOD),
         p.msg <= m, m - p.msg < SEQ_MOD => Within(p, s, 0, m - p.msg)
  PROVE  (m + 1) - p.msg < SEQ_MOD =>
           Within(p, t, 1, (m + 1) - p.msg) /\ Within(p, t, 0, (m + 1) - p.msg)
<1>1. p.msg \in 1 .. MaxMsgs /\ p.seq \in 0 .. SEQ_MOD - 1
  OBVIOUS
<1>2. SUFFICES ASSUME (m + 1) - p.msg < SEQ_MOD
               PROVE  Within(p, t, 1, (m + 1) - p.msg) /\ Within(p, t, 0, (m + 1) - p.msg)
  OBVIOUS
<1>3. m - p.msg < SEQ_MOD
  BY <1>1, <1>2, Times
<1>4. Within(p, s, 0, m - p.msg)
  BY <1>3
<1> DEFINE q == p.seq
           k == p.msg
<1>5. q \in 0 .. SEQ_MOD - 1 /\ k \in 1 .. MaxMsgs /\ k <= m /\ m - k < SEQ_MOD
  BY <1>1, <1>3
<1>6. s - q \in 0 .. m - k \/ s - q + SEQ_MOD \in 0 .. m - k
  BY <1>4 DEF Within
<1> HIDE DEF q, k
<1>7. t - q \in 1 .. (m + 1) - k \/ t - q + SEQ_MOD \in 1 .. (m + 1) - k
  BY <1>5, <1>6, Times
<1>8. t - q \in 0 .. (m + 1) - k \/ t - q + SEQ_MOD \in 0 .. (m + 1) - k
  BY <1>5, <1>7, Times
<1> QED
  BY <1>7, <1>8 DEF Within, q, k

\* A node sends the first part of its next message.
LEMMA FirstKeepsSplit ==
  ASSUME SecRxTypeOK, SecRxTypeOK', SplitInv, NEW n \in Nodes, PeerFirst(n)
  PROVE  SplitInv'
<1> DEFINE m == peer[n].msg
           s == peer[n].seq
           t == (s + 1) % SEQ_MOD
           new == Part(m + 1, t)
           f == NewFrame(n, "first", m + 1, t)
<1>1. /\ m \in 0 .. MaxMsgs /\ s \in 0 .. SEQ_MOD - 1 /\ m + 1 \in 1 .. MaxMsgs
      /\ t \in 0 .. SEQ_MOD - 1 /\ t = (IF s + 1 < SEQ_MOD THEN s + 1 ELSE s + 1 - SEQ_MOD)
      /\ Sends(n, "first", m + 1, t)
  BY PeerSteps, Numbers
<1>2. /\ f \in Frames /\ \A g \in air' : g \in air \/ g = f
      /\ peer' = [peer EXCEPT ![n] = [nonce |-> NoNonce, msg |-> m + 1, seq |-> t, second |-> TRUE]]
      /\ UNCHANGED <<tbl_vars, tick_vars, rx_vars, rcv, used, upper>>
  BY <1>1, SendsStep
<1>3. f.node = n /\ f.msg = m + 1 /\ f.seq = t /\ f.kind = "first"
  BY DEF NewFrame
<1>4. UNCHANGED <<rx_frm, rcv, upper>> /\ peer'[n].msg = m + 1 /\ peer'[n].seq = t
      /\ \A k \in Nodes : k # n => peer'[k] = peer[k]
  BY <1>2 DEF rx_vars, SecRxTypeOK
<1>5. \A p \in PartsOf(n)' : p \in PartsOf(n) \/ p = new
  BY <1>2, <1>3, <1>4, PartsAfterSend
<1>6. \A k \in Nodes : k # n => PartsOf(k)' \subseteq PartsOf(k)
  BY <1>2, <1>3, <1>4, PartsOfOthers
<1>7. new.msg = m + 1 /\ new.seq = t
  BY DEF Part
<1> HIDE DEF t, new, f
<1>8. ASSUME NEW p \in PartsOf(n)
      PROVE  /\ p.msg <= m /\ p.msg \in Nat /\ p.msg < m + 1
             /\ (m + 1) - p.msg < SEQ_MOD => /\ Within(p, t, 1, (m + 1) - p.msg)
                                            /\ Within(p, t, 0, (m + 1) - p.msg)
  <2>1. p \in [msg : 1 .. MaxMsgs, seq : 0 .. SEQ_MOD - 1]
    BY DEF PartsOf
  <2>2. p.msg <= m /\ (m - p.msg < SEQ_MOD => Within(p, s, 0, m - p.msg))
    BY DEF SplitInv, SenderIsAhead
  <2>3. p.msg \in Nat /\ p.msg < m + 1
    BY <1>1, <2>1, <2>2
  <2> HIDE DEF m, s
  <2> QED
    BY <1>1, <2>1, <2>2, <2>3, NextNumber
<1>9. Within(new, t, 0, 0)
  BY <1>1, <1>7, Times DEF Within
<1>10. NumbersDiffer'
  <2>1. ASSUME NEW k \in Nodes, NEW p \in PartsOf(k)', NEW q \in PartsOf(k)'
        PROVE  /\ p.msg = q.msg => p.seq = q.seq
               /\ (p.msg < q.msg /\ q.msg - p.msg < SEQ_MOD) => Within(p, q.seq, 1, q.msg - p.msg)
    <3>1. CASE p \in PartsOf(k) /\ q \in PartsOf(k)
      BY <3>1 DEF SplitInv, NumbersDiffer
    <3>2. CASE k = n /\ p \in PartsOf(n) /\ q = new
      <4>1. p.msg < q.msg /\ p.msg \in Nat /\ q.msg = m + 1 /\ q.seq = t
        BY <1>7, <1>8, <3>2
      <4>2. p.msg # q.msg
        BY <1>1, <4>1
      <4> HIDE DEF m
      <4> QED
        BY <1>8, <3>2, <4>1, <4>2
    <3>3. CASE k = n /\ p = new /\ q \in PartsOf(n)
      <4>1. q.msg < p.msg /\ q.msg \in Nat /\ p.msg = m + 1
        BY <1>7, <1>8, <3>3
      <4> QED
        BY <1>1, <4>1
    <3>4. CASE p = new /\ q = new
      BY <1>1, <1>7, <3>4
    <3> QED
      BY <1>5, <1>6, <3>1, <3>2, <3>3, <3>4
  <2> QED
    BY <2>1, Zenon DEF NumbersDiffer, Within
<1>11. SenderIsAhead'
  <2>1. ASSUME NEW k \in Nodes
        PROVE  /\ peer'[k].second => peer'[k].msg # 0
               /\ \A p \in PartsOf(k)' :
                    /\ p.msg <= peer'[k].msg
                    /\ peer'[k].msg - p.msg < SEQ_MOD =>
                         Within(p, peer'[k].seq, 0, peer'[k].msg - p.msg)
    <3>1. CASE k # n
      BY <1>4, <1>6, <3>1 DEF SplitInv, SenderIsAhead
    <3>2. CASE k = n
      <4>1. peer'[k].msg = m + 1 /\ peer'[k].seq = t
        BY <1>4, <3>2
      <4>2. ASSUME NEW p \in PartsOf(k)'
            PROVE  p.msg <= m + 1
                   /\ ((m + 1) - p.msg < SEQ_MOD => Within(p, t, 0, (m + 1) - p.msg))
        <5>1. CASE p \in PartsOf(n)
          <6>1. p.msg <= m + 1
            BY <1>1, <1>8, <5>1
          <6> HIDE DEF m
          <6> QED
            BY <1>8, <5>1, <6>1
        <5>2. CASE p = new
          <6>1. (m + 1) - p.msg = 0 /\ p.msg <= m + 1
            BY <1>1, <1>7, <5>2
          <6> HIDE DEF m
          <6> QED
            BY <1>9, <5>2, <6>1
        <5> QED
          BY <1>5, <3>2, <4>2, <5>1, <5>2
      <4>3. m + 1 # 0
        BY <1>1
      <4> HIDE DEF m
      <4> QED
        BY <4>1, <4>2, <4>3
    <3> QED
      BY <3>1, <3>2
  <2> QED
    BY <2>1, Zenon DEF SenderIsAhead, Within
<1>12. PairedOrFar'
  BY <1>4 DEF SplitInv, PairedOrFar
<1> QED
  BY <1>10, <1>11, <1>12 DEF SplitInv

\* A node sends a message in one frame, or the second part of its message.
LEMMA WholeKeepsSplit ==
  ASSUME SecRxTypeOK, SplitInv, NEW n \in Nodes, PeerWhole(n)
  PROVE  SplitInv'
<1> DEFINE f == NewFrame(n, "whole", peer[n].msg + 1, peer[n].seq)
<1>1. peer[n].msg + 1 \in 1 .. MaxMsgs /\ peer[n].seq \in 0 .. SEQ_MOD - 1
      /\ Sends(n, "whole", peer[n].msg + 1, peer[n].seq)
  BY PeerSteps
<1>2. /\ f \in Frames /\ \A g \in air' : g \in air \/ g = f
      /\ peer' = [peer EXCEPT ![n] = [nonce |-> NoNonce, msg |-> peer[n].msg + 1, seq |-> peer[n].seq,
                                      second |-> "whole" = "first"]]
      /\ UNCHANGED <<tbl_vars, tick_vars, rx_vars, rcv, used, upper>>
  BY <1>1, SendsStep
<1>3. f.node = n /\ f.kind = "whole"
  BY DEF NewFrame
<1>4. UNCHANGED <<rx_frm, rcv, upper>> /\ peer'[n].msg = peer[n].msg + 1 /\ peer'[n].seq = peer[n].seq
      /\ ~ peer'[n].second /\ \A k \in Nodes : k # n => peer'[k] = peer[k]
  BY <1>2 DEF rx_vars, SecRxTypeOK
<1>5. \A k \in Nodes : PartsOf(k)' \subseteq PartsOf(k)
  BY <1>2, <1>3, <1>4, PartsAfterSend, PartsOfOthers
<1>6. NumbersDiffer'
  BY <1>5 DEF SplitInv, NumbersDiffer, Within
<1>7. PairedOrFar'
  BY <1>4 DEF SplitInv, PairedOrFar
<1>8. SenderIsAhead'
  <2>1. ASSUME NEW k \in Nodes
        PROVE  /\ peer'[k].second => peer'[k].msg # 0
               /\ \A p \in PartsOf(k)' :
                    /\ p.msg <= peer'[k].msg
                    /\ peer'[k].msg - p.msg < SEQ_MOD =>
                         Within(p, peer'[k].seq, 0, peer'[k].msg - p.msg)
    <3>1. CASE k # n
      BY <1>4, <1>5, <3>1 DEF SplitInv, SenderIsAhead
    <3>2. CASE k = n
      <4> DEFINE m == peer[n].msg
                 s == peer[n].seq
      <4>1. ASSUME NEW p \in PartsOf(k)'
            PROVE  /\ p.msg <= m + 1
                   /\ (m + 1) - p.msg < SEQ_MOD => Within(p, s, 0, (m + 1) - p.msg)
        <5>1. p.msg <= m /\ (m - p.msg < SEQ_MOD => Within(p, s, 0, m - p.msg))
          BY <1>5, <3>2 DEF SplitInv, SenderIsAhead
        <5>2. p.msg \in 1 .. MaxMsgs /\ p.seq \in 0 .. SEQ_MOD - 1 /\ m \in 0 .. MaxMsgs
              /\ s \in 0 .. SEQ_MOD - 1
          BY <1>5, <3>2, Numbers
        <5> DEFINE a == p.msg
                   b == p.seq
        <5> HIDE DEF m, s, a, b
        <5>3. a <= m /\ a \in Nat /\ m \in Nat /\ b \in 0 .. SEQ_MOD - 1 /\ s \in 0 .. SEQ_MOD - 1
              /\ (m - a < SEQ_MOD => (s - b \in 0 .. m - a \/ s - b + SEQ_MOD \in 0 .. m - a))
          BY <5>1, <5>2, Times DEF Within, a, b
        <5>4. a <= m + 1
              /\ ((m + 1) - a < SEQ_MOD =>
                    (s - b \in 0 .. (m + 1) - a \/ s - b + SEQ_MOD \in 0 .. (m + 1) - a))
          BY <5>3, Times
        <5> QED
          BY <5>4 DEF Within, a, b
      <4> QED
        BY <1>4, <3>2, <4>1
    <3> QED
      BY <3>1, <3>2
  <2> QED
    BY <2>1, Zenon DEF SenderIsAhead, Within
<1> QED
  BY <1>6, <1>7, <1>8 DEF SplitInv

LEMMA SecondKeepsSplit ==
  ASSUME SecRxTypeOK, SplitInv, NEW n \in Nodes, PeerSecond(n)
  PROVE  SplitInv'
<1> DEFINE f == NewFrame(n, "second", peer[n].msg, peer[n].seq)
<1>1. peer[n].second /\ peer[n].msg \in 1 .. MaxMsgs /\ peer[n].seq \in 0 .. SEQ_MOD - 1
      /\ Sends(n, "second", peer[n].msg, peer[n].seq)
  <2>1. peer[n].second /\ Sends(n, "second", peer[n].msg, peer[n].seq)
    BY DEF PeerSecond
  <2>2. peer[n].msg # 0
    BY <2>1 DEF SplitInv, SenderIsAhead
  <2> QED
    BY <2>1, <2>2, Numbers, Times
<1>2. /\ f \in Frames /\ \A g \in air' : g \in air \/ g = f
      /\ peer' = [peer EXCEPT ![n] = [nonce |-> NoNonce, msg |-> peer[n].msg, seq |-> peer[n].seq,
                                      second |-> "second" = "first"]]
      /\ UNCHANGED <<tbl_vars, tick_vars, rx_vars, rcv, used, upper>>
  BY <1>1, SendsStep
<1>3. f.node = n /\ f.msg = peer[n].msg /\ f.seq = peer[n].seq
  BY DEF NewFrame
<1>4. UNCHANGED <<rx_frm, rcv, upper>> /\ peer'[n].msg = peer[n].msg /\ peer'[n].seq = peer[n].seq
      /\ ~ peer'[n].second /\ \A k \in Nodes : k # n => peer'[k] = peer[k]
  BY <1>2 DEF rx_vars, SecRxTypeOK
<1>5. \A p \in PartsOf(n)' : p \in PartsOf(n) \/ p = Part(peer[n].msg, peer[n].seq)
  BY <1>2, <1>3, <1>4, PartsAfterSend
<1>6. Part(peer[n].msg, peer[n].seq) \in PartsOf(n)
  BY <1>1 DEF PartsOf, Part
<1>7. \A k \in Nodes : PartsOf(k)' \subseteq PartsOf(k)
  BY <1>2, <1>3, <1>4, <1>5, <1>6, PartsOfOthers
<1>8. NumbersDiffer' /\ PairedOrFar'
  BY <1>4, <1>7 DEF SplitInv, NumbersDiffer, Within, PairedOrFar
<1>9. SenderIsAhead'
  BY <1>4, <1>7 DEF SplitInv, SenderIsAhead, Within
<1> QED
  BY <1>8, <1>9 DEF SplitInv

\* Two parts with the same number are of one message, or a round of messages apart.
LEMMA SameNumber ==
  ASSUME SecRxTypeOK, NumbersDiffer, NEW n \in Nodes, NEW p \in PartsOf(n), NEW q \in PartsOf(n),
         p.seq = q.seq
  PROVE  p.msg = q.msg \/ p.msg - q.msg >= SEQ_MOD \/ q.msg - p.msg >= SEQ_MOD
<1>1. p.msg \in 1 .. MaxMsgs /\ q.msg \in 1 .. MaxMsgs /\ p.seq \in 0 .. SEQ_MOD - 1
  BY Numbers
<1>2. ~ (p.msg < q.msg /\ q.msg - p.msg < SEQ_MOD)
  BY <1>1, Times DEF NumbersDiffer, Within
<1>3. ~ (q.msg < p.msg /\ p.msg - q.msg < SEQ_MOD)
  BY <1>1, Times DEF NumbersDiffer, Within
<1> QED
  BY <1>1, <1>2, <1>3, Times

\* A frame is checked: its message may be handed up, or its first part kept.
LEMMA CheckKeepsSplit ==
  ASSUME SecRxTypeOK, SecRxTypeOK', SplitInv, AtWork, RxCheck
  PROVE  SplitInv'
<1> DEFINE n == rx_frm.node
<1>1. rx_frm \in Frames /\ n \in Nodes /\ rx_frm.msg \in 1 .. MaxMsgs
      /\ rx_frm.seq \in 0 .. SEQ_MOD - 1 /\ rx_frm.kind \in {"whole", "first", "second"}
  BY DEF RxCheck, AtWork, Frames
<1>2. UNCHANGED <<peer, air>> /\ rx_frm' = NoFrame
  BY DEF RxCheck, Depacket, RxDone
<1>3. \/ UNCHANGED rcv
      \/ rx_frm.kind = "first" /\ rcv' = [rcv EXCEPT ![n] = [seq |-> rx_frm.seq, valid |-> TRUE,
                                                           first |-> rx_frm.msg]]
  BY DEF RxCheck, Depacket, StoresFirst
<1>4. \A k \in Nodes : PartsOf(k)' \subseteq PartsOf(k)
  <2>1. NoFrame \notin Frames
    BY SecRxAssumption
  <2>2. ASSUME NEW k \in Nodes
        PROVE  rcv'[k] = rcv[k] \/ (n = k /\ rx_frm.kind # "whole" /\ rcv'[k].first = rx_frm.msg
                                    /\ rcv'[k].seq = rx_frm.seq)
    <3>1. DOMAIN rcv = Nodes
      BY DEF SecRxTypeOK
    <3>2. CASE UNCHANGED rcv
      BY <3>2
    <3>3. CASE rx_frm.kind = "first" /\ rcv' = [rcv EXCEPT ![n] = [seq |-> rx_frm.seq, valid |-> TRUE,
                                                                  first |-> rx_frm.msg]]
      <4>1. k # n => rcv'[k] = rcv[k]
        BY <2>2, <3>1, <3>3
      <4>2. k = n => rcv'[k].first = rx_frm.msg /\ rcv'[k].seq = rx_frm.seq
        BY <2>2, <3>1, <3>3
      <4>3. rx_frm.kind # "whole"
        BY <3>3
      <4> QED
        BY <4>1, <4>2, <4>3
    <3> QED
      BY <1>3, <3>2, <3>3
  <2> QED
    BY <1>1, <1>2, <2>1, <2>2, NoNewParts
<1>5. ASSUME NEW u \in HandedUp
      PROVE  u.second # 0 /\ (u.first \in {0, u.second} \/ u.first - u.second >= SEQ_MOD
                              \/ u.second - u.first >= SEQ_MOD)
  <2>1. u.second = rx_frm.msg /\ u.second # 0 /\ u.first \in 0 .. MaxMsgs
        /\ (u.first = rx_frm.msg
            \/ (rx_frm.kind = "second" /\ rcv[n].seq = rx_frm.seq /\ u.first = rcv[n].first))
    BY <1>1, <1>5 DEF HandedUp, SeqMatches
  <2>2. CASE rx_frm.kind = "second" /\ rcv[n].seq = rx_frm.seq /\ u.first = rcv[n].first /\ u.first # 0
    <3> DEFINE p == Part(rcv[n].first, rcv[n].seq)
               q == Part(rx_frm.msg, rx_frm.seq)
    <3>1. rcv[n].first \in 1 .. MaxMsgs
      BY <2>1, <2>2, Times
    <3>2. p \in PartsOf(n) /\ q \in PartsOf(n)
      BY <1>1, <2>2, <3>1 DEF PartsOf, Part
    <3>3. p.seq = q.seq /\ p.msg = u.first /\ q.msg = u.second
      BY <2>1, <2>2 DEF Part
    <3> HIDE DEF p, q, n
    <3>4. p.msg = q.msg \/ p.msg - q.msg >= SEQ_MOD \/ q.msg - p.msg >= SEQ_MOD
      BY <1>1, <3>2, <3>3, SameNumber DEF SplitInv
    <3> QED
      BY <2>1, <3>3, <3>4
  <2> QED
    BY <2>1, <2>2
<1>6. PairedOrFar'
  <2>1. upper' \subseteq upper \cup HandedUp
    BY DEF RxCheck, Depacket
  <2> QED
    BY <1>5, <2>1 DEF SplitInv, PairedOrFar
<1> QED
  BY <1>2, <1>4, <1>6, NothingNewKeepsSplit

LEMMA SplitKept ==
  ASSUME SecRxTypeOK, SecRxTypeOK', SplitInv, AtWork, [SecRxNext]_sec_rx_vars
  PROVE  SplitInv'
<1>n. Peers \subseteq Nodes /\ NoFrame \notin Frames
  BY SecRxAssumption
<1>a. ASSUME UNCHANGED <<rcv, upper>>, rx_frm' \in Frames => rx_frm' = rx_frm \/ rx_frm' \in air,
             \A f \in air' : f \in air,
             \A n \in Nodes : /\ peer'[n].msg = peer[n].msg /\ peer'[n].seq = peer[n].seq
                              /\ peer'[n].second = peer[n].second
      PROVE  SplitInv'
  <2>1. \A n \in Nodes : PartsOf(n)' \subseteq PartsOf(n)
    BY <1>a, NoNewParts
  <2>2. PairedOrFar'
    BY <1>a DEF SplitInv, PairedOrFar
  <2> QED
    BY <1>a, <2>1, <2>2, NothingNewKeepsSplit
<1>b. ASSUME UNCHANGED <<rcv, upper, peer, air>>, rx_frm' \in {rx_frm, NoFrame}
      PROVE  SplitInv'
  BY <1>n, <1>a, <1>b
<1>1. CASE UNCHANGED sec_rx_vars
  BY <1>1, <1>b DEF sec_rx_vars, rx_vars
<1>2. CASE Timer
  BY <1>2, <1>b DEF Timer, TmoutTick, TmoutLook, TmoutWrite, rx_vars
<1>3. CASE RxGen
  BY <1>3, <1>b DEF RxGen, RxDone
<1>4. CASE RxReport
  <2>1. rx_node \in Nodes /\ UNCHANGED <<rcv, upper, air>> /\ rx_frm' = NoFrame
        /\ (peer' = [peer EXCEPT ![rx_node].nonce = Held(rx_idx)] \/ UNCHANGED peer)
    BY <1>4, RxReportStep DEF RxDone
  <2>2. \A n \in Nodes : /\ peer'[n].msg = peer[n].msg /\ peer'[n].seq = peer[n].seq
                         /\ peer'[n].second = peer[n].second
    <3>1. \A n \in Nodes : peer[n] \in [nonce : Nonces \cup {NoNonce}, msg : 0 .. MaxMsgs,
                                        seq : 0 .. SEQ_MOD - 1, second : BOOLEAN]
      BY DEF SecRxTypeOK
    <3>2. DOMAIN peer = Nodes
      BY DEF SecRxTypeOK
    <3> QED
      BY <2>1, <3>1, <3>2
  <2> QED
    BY <1>n, <2>1, <2>2, <1>a
<1>5. CASE RxInonceGet
  BY <1>5, <1>b DEF RxInonceGet, RxDone
<1>6. CASE RxCopy
  BY <1>6, <1>b DEF RxCopy, RxDone
<1>7. CASE RxCheck
  BY <1>7, CheckKeepsSplit
<1>8. ASSUME NEW n \in Nodes, SppTxGen(n) \/ RxNonceGet(n)
      PROVE  SplitInv'
  BY <1>8, <1>b DEF SppTxGen, RxNonceGet, rx_vars
<1>9. ASSUME NEW n \in Nodes, PeerWhole(n) \/ PeerFirst(n) \/ PeerSecond(n)
      PROVE  SplitInv'
  BY <1>9, WholeKeepsSplit, FirstKeepsSplit, SecondKeepsSplit
<1>10. ASSUME NEW f \in air, RxFrame(f)
       PROVE  SplitInv'
  BY <1>10, <1>a DEF RxFrame
<1> QED
  BY <1>n, <1>1, <1>2, <1>3, <1>4, <1>5, <1>6, <1>7, <1>8, <1>9, <1>10 DEF SecRxNext, CbThread

---------------------------------------------------------------------------
(* The theorems.                                                           *)

LEMMA SecRxInvInitially ==
  SecRxInit => SecRxInv
<1> SUFFICES ASSUME SecRxInit
             PROVE  SecRxInv
  OBVIOUS
<1>1. 0 \in 0 .. TICK_MOD - 1 /\ 0 \in 0 .. AgeMax /\ 0 \in 0 .. INTERNAL_NONCE_TABLE_CHECK - 1
      /\ 0 \in 0 .. MaxNonces /\ 0 \in 0 .. SEQ_MOD - 1 /\ 0 \in 0 .. MaxMsgs
  BY Times
<1>2. PICK seq \in 0 .. SEQ_MOD - 1 :
        peer = [n \in Nodes |-> [nonce |-> NoNonce, msg |-> 0, seq |-> seq, second |-> FALSE]]
  BY DEF SecRxInit
<1>3. NoNonce \notin Nonces /\ NoFrame \notin Frames
  BY SecRxAssumption
<1>4. SecRxTypeOK
  <2>1. inonce_tbl \in [Slots -> SlotType]
    BY <1>1 DEF SecRxInit, SlotType
  <2>2. rcv \in [Nodes -> [seq : 0 .. SEQ_MOD - 1, valid : BOOLEAN, first : 0 .. MaxMsgs]]
    BY <1>1 DEF SecRxInit
  <2>3. peer \in [Nodes -> [nonce : Nonces \cup {NoNonce}, msg : 0 .. MaxMsgs,
                            seq : 0 .. SEQ_MOD - 1, second : BOOLEAN]]
    BY <1>1, <1>2
  <2>4. used \in [1 .. MaxNonces -> 0 .. 2]
    BY DEF SecRxInit
  <2> QED
    BY <1>1, <2>1, <2>2, <2>3, <2>4 DEF SecRxInit, SecRxTypeOK, SlotType
<1>5. \A i \in Slots : inonce_tbl[i].state = "INVALID" /\ inonce_tbl[i].nonce = NoNonce
  BY DEF SecRxInit
<1>6. TimeInv
  BY <1>5 DEF SecRxInit, TimeInv, ExpiryFollowsAge, AgeIsBound, CleanUpStands
<1>7. UseInv
  BY <1>3, <1>5 DEF SecRxInit, UseInv, NoneFromFuture, HeldOnce, LiveIsUnused, AtWork, Copied,
                    NonceAcceptedOnce, Held
<1>8. \A n \in Nodes : PartsOf(n) = {}
  <2>1. ASSUME NEW n \in Nodes, NEW p \in PartsOf(n)
        PROVE  FALSE
    <3>1. p.msg \in 1 .. MaxMsgs
      BY DEF PartsOf
    <3>2. p.msg # 0
      BY <3>1
    <3>3. air = {} /\ rx_frm = NoFrame /\ ~ peer[n].second
      BY <1>2 DEF SecRxInit
    <3>4. rcv[n].first = 0
      BY DEF SecRxInit
    <3>5. p = Part(rcv[n].first, rcv[n].seq)
      BY <1>3, <3>3 DEF PartsOf, PartsOnWay
    <3> QED
      BY <3>2, <3>4, <3>5 DEF Part
  <2> QED
    BY <2>1
<1>9. SplitInv
  <2>1. upper = {} /\ \A n \in Nodes : ~ peer[n].second
    BY <1>2 DEF SecRxInit
  <2> QED
    BY <1>8, <2>1 DEF SplitInv, NumbersDiffer, SenderIsAhead, PairedOrFar
<1> QED
  BY <1>4, <1>6, <1>7, <1>9 DEF SecRxInv

LEMMA SecRxInvKept ==
  SecRxInv /\ [SecRxNext]_sec_rx_vars => SecRxInv'
<1> SUFFICES ASSUME SecRxInv, [SecRxNext]_sec_rx_vars
             PROVE  SecRxInv'
  OBVIOUS
<1>1. SecRxTypeOK'
  BY TypesKept DEF SecRxInv, UseInv, SplitInv
<1>2. TimeInv' /\ UseInv' /\ SplitInv'
  BY <1>1, TimesKept, UseKept, SplitKept DEF SecRxInv, UseInv
<1> QED
  BY <1>1, <1>2 DEF SecRxInv

\* Whatever the threads do, and in whatever order, the table and the steps of the callback
\* thread keep their types.
THEOREM SecRxTypesHold == SecRxSpec => []SecRxTypeOK
<1>1. SecRxInv => SecRxTypeOK
  BY DEF SecRxInv
<1> QED
  BY <1>1, SecRxInvInitially, SecRxInvKept, PTL DEF SecRxSpec

\* No nonce authenticates two frames, although zwsec_inonce_get, the copy of the nonce and
\* the clean-up of zwsec_tmout_cb do without sec_mtx.
THEOREM NoncesAreAcceptedOnce == SecRxSpec => []NonceAcceptedOnce
<1>1. SecRxInv => NonceAcceptedOnce
  BY DEF SecRxInv, UseInv
<1> QED
  BY <1>1, SecRxInvInitially, SecRxInvKept, PTL DEF SecRxSpec

\* util_tmr_exp_chk finds a live nonce expired when its life is over and not before,
\* although the ticks it compares wrap.
THEOREM ExpiryIsRight == SecRxSpec => []ExpiryIsDue
<1>1. SecRxInv => ExpiryIsDue
  BY ExpiryByAge DEF SecRxInv, TimeInv
<1> QED
  BY <1>1, SecRxInvInitially, SecRxInvKept, PTL DEF SecRxSpec

\* The clean-up of zwsec_tmout_cb leaves no nonce in the table for longer than its life and
\* the time between two rounds.
THEOREM NoncesAreReclaimed == SecRxSpec => []ReclaimedInTime
<1>1. SecRxInv => ReclaimedInTime
  <2> SUFFICES ASSUME SecRxInv, clean_up_idx = 0, NEW i \in Slots, inonce_tbl[i].state = "VALID"
               PROVE  inonce_tbl[i].age < INTERNAL_NONCE_LIFE + INTERNAL_NONCE_TABLE_CHECK
    BY DEF ReclaimedInTime
  <2>1. inonce_tbl[i].age < INTERNAL_NONCE_LIFE + clean_up_tick
    BY Zenon DEF SecRxInv, TimeInv, AgeIsBound, AgeBound
  <2>2. inonce_tbl[i].age \in Nat /\ clean_up_tick \in 0 .. INTERNAL_NONCE_TABLE_CHECK - 1
    BY SlotFields, Times DEF SecRxInv, SecRxTypeOK
  <2> QED
    BY <2>1, <2>2, Times
<1> QED
  BY <1>1, SecRxInvInitially, SecRxInvKept, PTL DEF SecRxSpec

\* zwsec_depacket puts together two parts of one message, or of two that are a whole round
\* of sequence numbers apart.
THEOREM PartsArePairedOrFar == SecRxSpec => []PairedOrFar
<1>1. SecRxInv => PairedOrFar
  BY DEF SecRxInv, SplitInv
<1> QED
  BY <1>1, SecRxInvInitially, SecRxInvKept, PTL DEF SecRxSpec

\* In a round of SEQ_MOD messages both parts of every message are its own.
THEOREM PartsArePaired ==
  ASSUME MaxMsgs <= SEQ_MOD
  PROVE  SecRxSpec => []SplitPaired
<1>1. SecRxInv => SplitPaired
  <2> SUFFICES ASSUME SecRxInv, NEW u \in upper
               PROVE  u.first \in {0, u.second}
    BY DEF SplitPaired
  <2>1. u.first \in 0 .. MaxMsgs /\ u.second \in 0 .. MaxMsgs
    BY DEF SecRxInv, SecRxTypeOK
  <2>2. u.second # 0 /\ (u.first \in {0, u.second} \/ u.first - u.second >= SEQ_MOD
                          \/ u.second - u.first >= SEQ_MOD)
    BY DEF SecRxInv, SplitInv, PairedOrFar
  <2> QED
    BY <2>1, <2>2, Times
<1> QED
  BY <1>1, SecRxInvInitially, SecRxInvKept, PTL DEF SecRxSpec
=============================================================================
