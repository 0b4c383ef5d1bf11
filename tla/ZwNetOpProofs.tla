---------------------------- MODULE ZwNetOpProofs ----------------------------
(***************************************************************************)
(* Proofs about the network operations: nothing runs on after the end or   *)
(* the abort of its operation, and the end of each is told once.  Both     *)
(* rest on the same fact: an operation is at any time in one stage, with   *)
(* one part of the library or the chip, which tells what each of the       *)
(* others holds.  The theorems are about operations that zwnet_abort does  *)
(* stop, without what the findings name: the calls that an abort or a new  *)
(* operation meets (Races), and a failed migration, whose end is told of   *)
(* whatever curr_op names then.                                            *)
(***************************************************************************)
EXTENDS ZwNetOp, TLAPS, SequenceTheorems

\* Operations of which zwnet_abort leaves nothing at the chip or in a machine
Stoppable == Adds \cup {"INITIALIZE", "RM_NODE", "INITIATE", "NODE_UPDATE"}
Undisturbed == Races = {} /\ "migrate" \notin Fails /\ Abortable \subseteq Stoppable

\* Operations that begin with the chip, those that include a node, and those that ask
\* nodes for their information
ChipOps == NetOps \ {"INITIALIZE", "NODE_UPDATE"}
Includes == Adds \cup {"RP_NODE", "INITIATE"}
Asks == Includes \cup {"INITIALIZE", "NODE_UPDATE", "UPDATE"}
ChipStates == {"none", "ready", "network", "neighbor"}
Timers == {"delay", "state", "rp"}
ChipType == [op : WithNone(NetOps), sta : ChipStates]
ReportType == [op : NetOps, ok : BOOLEAN, of : ChipStates]
EndType == [by : {"cb", "tmr"}, op : NetOps]

---------------------------------------------------------------------------
(* Stages.                                                                 *)

\* Parts that hold nothing
ChipFree == chip = NoChip /\ cbs = <<>>
SecFree == net.incl = "NONE" /\ sec_cb = "NONE"
TmrFree == net.tmr = "none" /\ late = {}
JobFree == net.ni = "IDLE" /\ ~ nexting
RpFree == net.rp = "IDLE"
NuFree == net.nu = "IDLE"
NotifyFree == ~ net.cb_tmr
\* A timer runs, or its thread waits for nw->mtx.
Waits(k) == \/ net.tmr = k /\ late = {}
            \/ net.tmr = "none" /\ late = {k}
\* In secure inclusion, the timer of the replaced node's information may still run.
TmrLeft == TmrFree \/ (net.curr_op = "RP_NODE" /\ Waits("rp"))

\* The update machine knows which part of the update the chip works on.
UpdateAt(sta) ==
  \/ net.curr_op = "UPDATE" /\ net.nu = "TOPOLOGY" /\ sta = "network"
  \/ net.curr_op = "UPDATE" /\ net.nu = "NEIGHBOR" /\ sta = "neighbor"
  \/ net.curr_op # "UPDATE" /\ NuFree
OthersFree == SecFree /\ TmrFree /\ JobFree /\ RpFree /\ NotifyFree
Asked == IF net.curr_op = "UPDATE" THEN net.nu = "NODE_INFO" ELSE NuFree

\* No operation, one that zwnet_load left, or its end waits for zwnet_notify_cb.
Resting ==
  /\ ChipFree /\ SecFree /\ TmrFree /\ JobFree /\ RpFree /\ NuFree
  /\ net.curr_op \in {"NONE", "INITIALIZE"} /\ (net.cb_tmr => net.curr_op = "INITIALIZE")
OnChip ==
  /\ OthersFree /\ cbs = <<>>
  /\ chip.op = net.curr_op /\ net.curr_op \in ChipOps /\ UpdateAt(chip.sta)
Reported ==
  /\ OthersFree /\ chip = NoChip /\ Len(cbs) = 1
  /\ cbs[1].op = net.curr_op /\ net.curr_op \in ChipOps /\ UpdateAt(cbs[1].of)
  /\ net.curr_op \in {"MIGRATE", "MIGRATE_SUC"} => cbs[1].ok
AwaitsNodeInfo ==
  /\ ChipFree /\ SecFree /\ JobFree /\ NuFree /\ NotifyFree
  /\ net.rp = "GET" /\ net.curr_op = "RP_NODE" /\ Waits("rp")
Including ==
  /\ ChipFree /\ JobFree /\ RpFree /\ NuFree /\ NotifyFree /\ TmrLeft
  /\ net.incl = net.curr_op /\ sec_cb = "NONE" /\ net.curr_op \in Includes
Included ==
  /\ ChipFree /\ JobFree /\ RpFree /\ NuFree /\ NotifyFree /\ TmrLeft
  /\ sec_cb = net.curr_op /\ net.incl = "NONE" /\ net.curr_op \in Includes
Delayed ==
  /\ ChipFree /\ SecFree /\ JobFree /\ RpFree /\ NuFree /\ NotifyFree
  /\ net.job.op = net.curr_op /\ net.curr_op \in Includes /\ Waits("delay")
Interviewing ==
  /\ ChipFree /\ SecFree /\ RpFree /\ NotifyFree /\ Asked
  /\ net.job.op = net.curr_op /\ net.curr_op \in Asks
  /\ net.ni = "BUSY" /\ ~ nexting /\ Waits("state")
Nexting ==
  /\ ChipFree /\ SecFree /\ TmrFree /\ RpFree /\ NotifyFree /\ Asked
  /\ net.job.op = net.curr_op /\ net.curr_op \in Asks /\ nexting

InOneStage ==
  \/ Resting \/ OnChip \/ Reported \/ AwaitsNodeInfo \/ Including \/ Included
  \/ Delayed \/ Interviewing \/ Nexting

---------------------------------------------------------------------------
(* Ends told.                                                              *)

\* How often e is in bag B
Copies(e, B) == IF e \in DOMAIN B THEN B[e] ELSE 0
Telling(o) == Copies([by |-> "cb", op |-> o], telling) + Copies([by |-> "tmr", op |-> o], telling)
\* An end is owed of an operation that runs, and of each that has ended and is not told.
Account(o) == owed[o] = (IF net.curr_op = o THEN 1 ELSE 0) + Telling(o)

NetOpTypes ==
  /\ net \in NetType /\ chip \in ChipType /\ cbs \in Seq(ReportType)
  /\ late \subseteq Timers /\ sec_cb \in WithNone(NetOps)
  /\ nexting \in BOOLEAN /\ checked \in BOOLEAN
  /\ IsABag(telling) /\ BagToSet(telling) \subseteq EndType
  /\ owed \in [WithNone(NetOps) -> Int] /\ begins \in 0 .. MaxBegins
\* Counters: neighbours still to be asked and failed are nodes, and no operation owes more
\* ends than were begun.
Counts ==
  /\ net.nu = "NEIGHBOR" => net.nb.todo > 0 /\ net.nb.todo + net.nb.failed <= MaxNodes
  /\ owed["NONE"] = 0 /\ \A o \in NetOps : owed[o] <= begins + 1
Accounts == \A o \in NetOps : Account(o)
NetOpInv ==
  /\ NetOpTypes /\ InOneStage /\ Counts /\ Accounts
  /\ checked => net.curr_op = "NONE"

---------------------------------------------------------------------------
(* Bags.                                                                   *)

LEMMA BagFields ==
  ASSUME NEW B, IsABag(B)
  PROVE  \A e : Copies(e, B) \in Nat /\ (Copies(e, B) > 0 <=> e \in BagToSet(B))
BY DEF IsABag, BagToSet, Copies

\* A bag with one element more
LEMMA BagPut ==
  ASSUME NEW B, IsABag(B), NEW t
  PROVE  LET C == B (+) SetToBag({t})
         IN  /\ IsABag(C) /\ BagToSet(C) = BagToSet(B) \cup {t}
             /\ \A e : Copies(e, C) = Copies(e, B) + (IF e = t THEN 1 ELSE 0)
<1> DEFINE C == B (+) SetToBag({t})
<1>1. DOMAIN C = DOMAIN B \cup {t}
  BY DEF (+), SetToBag
<1>2. \A e \in DOMAIN C : C[e] = Copies(e, B) + (IF e = t THEN 1 ELSE 0)
  BY BagFields DEF (+), SetToBag, Copies
<1>3. C = [e \in DOMAIN C |-> C[e]]
  BY DEF (+)
<1> HIDE DEF C
<1>4. IsABag(C)
  <2>1. \A e \in DOMAIN C : C[e] \in Nat /\ C[e] > 0
    BY <1>1, <1>2, BagFields DEF BagToSet
  <2> QED
    BY <2>1, <1>3 DEF IsABag
<1>5. \A e : Copies(e, C) = Copies(e, B) + (IF e = t THEN 1 ELSE 0)
  BY <1>1, <1>2 DEF Copies
<1> QED
  BY <1>1, <1>4, <1>5 DEF BagToSet, C

\* A bag with nothing more
LEMMA BagPutNone ==
  ASSUME NEW B, IsABag(B)
  PROVE  B (+) SetToBag({}) = B
<1> DEFINE C == B (+) SetToBag({})
<1>1. DOMAIN C = DOMAIN B
  BY DEF (+), SetToBag
<1>2. \A e \in DOMAIN C : C[e] = B[e]
  BY DEF (+), SetToBag, IsABag
<1>3. C = [e \in DOMAIN C |-> C[e]] /\ B = [e \in DOMAIN B |-> B[e]]
  BY DEF (+), IsABag
<1> HIDE DEF C
<1>4. C = B
  BY <1>1, <1>2, <1>3
<1> QED
  BY <1>4 DEF C

\* A bag with one element less
LEMMA BagTake ==
  ASSUME NEW B, IsABag(B), NEW t \in BagToSet(B)
  PROVE  LET C == B (-) SetToBag({t})
         IN  /\ IsABag(C) /\ BagToSet(C) \subseteq BagToSet(B)
             /\ \A e : Copies(e, C) = Copies(e, B) - (IF e = t THEN 1 ELSE 0)
<1> DEFINE one == SetToBag({t})
           C == B (-) one
           left(e) == Copies(e, B) - (IF e = t THEN 1 ELSE 0)
           D == [e \in DOMAIN B |-> IF e \in DOMAIN one THEN B[e] - one[e] ELSE B[e]]
<1>1. DOMAIN one = {t} /\ one[t] = 1
  BY DEF SetToBag
<1>2. C = [e \in {d \in DOMAIN D : D[d] > 0} |-> D[e]]
  BY DEF (-)
<1>3. DOMAIN D = DOMAIN B /\ \A e \in DOMAIN B : D[e] = left(e)
  <2> HIDE DEF one
  <2>1. DOMAIN D = DOMAIN B /\ \A e \in DOMAIN B : D[e] = IF e = t THEN B[e] - 1 ELSE B[e]
    BY <1>1
  <2>2. \A e \in DOMAIN B : B[e] \in Nat
    BY DEF IsABag
  <2> QED
    BY <2>1, <2>2 DEF Copies
<1>4. \A e : left(e) \in Nat
  BY BagFields DEF BagToSet
<1> HIDE DEF C, D
<1>5. DOMAIN C = {e \in DOMAIN B : left(e) > 0} /\ \A e \in DOMAIN C : C[e] = left(e)
  BY <1>2, <1>3
<1>6. \A e : Copies(e, C) = left(e)
  <2> TAKE e
  <2>1. CASE e \in DOMAIN C
    BY <2>1, <1>5 DEF Copies
  <2>2. CASE e \notin DOMAIN C
    <3>1. left(e) = 0
      BY <2>2, <1>4, <1>5 DEF Copies, BagToSet
    <3> QED
      BY <2>2, <3>1 DEF Copies
  <2> QED
    BY <2>1, <2>2
<1>7. IsABag(C)
  <2>1. \A e \in DOMAIN C : C[e] \in Nat /\ C[e] > 0
    BY <1>4, <1>5
  <2>2. C = [e \in DOMAIN C |-> C[e]]
    BY <1>2
  <2> QED
    BY <2>1, <2>2 DEF IsABag
<1> QED
  BY <1>5, <1>6, <1>7 DEF C, BagToSet

---------------------------------------------------------------------------
(* Parts of handlers.                                                      *)

LEMMA NetFields ==
  ASSUME NEW n \in NetType
  PROVE  /\ n.curr_op \in WithNone(NetOps) /\ n.ni \in {"IDLE", "BUSY"} /\ n.tmr \in {"none"} \cup Timers
         /\ n.job.op \in WithNone(NetOps) /\ n.job.left \in 0 .. MaxNodes
         /\ n.rp \in {"IDLE", "GET"} /\ n.incl \in WithNone(NetOps)
         /\ n.nu \in {"IDLE", "TOPOLOGY", "NEIGHBOR", "NODE_INFO"} /\ n.cb_tmr \in BOOLEAN
BY DEF NetType, Timers

\* Changes of one field
LEMMA NetChanged ==
  ASSUME NEW n \in NetType
  PROVE  /\ \A c \in WithNone(NetOps) : [n EXCEPT !.curr_op = c] \in NetType
         /\ \A x \in {"IDLE", "BUSY"} : [n EXCEPT !.ni = x] \in NetType
         /\ \A x \in {"none"} \cup Timers : [n EXCEPT !.tmr = x] \in NetType
         /\ \A k \in 0 .. MaxNodes : [n EXCEPT !.job.left = k] \in NetType
         /\ \A o \in WithNone(NetOps), k \in 0 .. MaxNodes : [n EXCEPT !.job = Job(o, k)] \in NetType
         /\ \A x \in {"IDLE", "GET"} : [n EXCEPT !.rp = x] \in NetType
         /\ \A o \in WithNone(NetOps) : [n EXCEPT !.incl = o] \in NetType
         /\ \A x \in {"IDLE", "TOPOLOGY", "NEIGHBOR", "NODE_INFO"} : [n EXCEPT !.nu = x] \in NetType
         /\ [n EXCEPT !.cb_tmr = FALSE] \in NetType
BY DEF NetType, Timers, Job

\* What zwnet_sm_ni_stop leaves
LEMMA Stops ==
  ASSUME NEW n \in NetType
  PROVE  LET m == NiStop(n)
         IN  /\ m \in NetType /\ m.ni = "IDLE" /\ m.tmr = "none"
             /\ m.curr_op = n.curr_op /\ m.rp = n.rp /\ m.incl = n.incl /\ m.nu = n.nu
             /\ m.nb = n.nb /\ m.cb_tmr = n.cb_tmr
<1>1. 0 \in 0 .. MaxNodes
  BY NetOpAssumption
<1> QED
  BY <1>1 DEF NiStop, NetType, Timers

\* What zwnet_abort leaves, of an operation that it stops or that holds nothing it would
\* have to stop
LEMMA Leaves ==
  ASSUME NEW n \in NetType, n.curr_op # "NONE", n.nu = "IDLE",
         \/ n.curr_op \in Includes
         \/ n.curr_op \in {"INITIALIZE", "NODE_UPDATE"} /\ n.incl = "NONE"
         \/ n.ni = "IDLE" /\ n.tmr = "none" /\ n.incl = "NONE"
  PROVE  LET m == AbortCurr(n)
         IN  /\ m \in NetType /\ m.curr_op = "NONE" /\ m.ni = "IDLE" /\ m.tmr = "none"
             /\ m.incl = "NONE" /\ m.rp = n.rp /\ m.nu = "IDLE" /\ m.cb_tmr = n.cb_tmr
<1> DEFINE c == n.curr_op
           a == Aborted(n, c)
           Left(m) == /\ m \in NetType /\ m.curr_op = c /\ m.ni = "IDLE" /\ m.tmr = "none"
                      /\ m.incl = "NONE" /\ m.rp = n.rp /\ m.nu = "IDLE" /\ m.cb_tmr = n.cb_tmr
<1>1. Left([NiStop(n) EXCEPT !.incl = "NONE"])
  <2> DEFINE s == NiStop(n)
  <2>1. s \in NetType /\ s.ni = "IDLE" /\ s.tmr = "none" /\ s.curr_op = n.curr_op /\ s.rp = n.rp
        /\ s.nu = "IDLE" /\ s.cb_tmr = n.cb_tmr
    BY Stops
  <2> HIDE DEF s
  <2>2. Left([s EXCEPT !.incl = "NONE"])
    BY <2>1 DEF NetType, WithNone
  <2> QED
    BY <2>2 DEF s
<1>2. n.incl = "NONE" => Left(NiStop(n))
  BY Stops
<1>3. n.incl = "NONE" => Left(NuStop(n))
  <2> DEFINE s == NiStop(n)
  <2>1. s \in NetType /\ s.ni = "IDLE" /\ s.tmr = "none" /\ s.curr_op = n.curr_op /\ s.rp = n.rp
        /\ s.nu = "IDLE" /\ s.cb_tmr = n.cb_tmr /\ s.incl = n.incl
    BY Stops
  <2>2. NoNb \in [todo : 0 .. MaxNodes, failed : 0 .. MaxNodes, retry : 0 .. Retries]
    BY NetOpAssumption DEF NoNb
  <2>3. NuStop(n) = [s EXCEPT !.nu = "IDLE", !.nb = NoNb]
    BY DEF NuStop
  <2> HIDE DEF s
  <2> QED
    BY <2>1, <2>2, <2>3 DEF NetType
<1>4. Left(a)
  BY <1>1, <1>2, <1>3 DEF Aborted, Includes, Adds
<1>5. AbortCurr(n) = [a EXCEPT !.curr_op = "NONE"]
  <2>1. AbortCurr(n) = [a EXCEPT !.curr_op = IF a.curr_op = c THEN "NONE" ELSE a.curr_op]
    BY DEF AbortCurr, AbortedAll
  <2> HIDE DEF a
  <2> QED
    BY <2>1, <1>4
<1> HIDE DEF a, c
<1> QED
  BY <1>4, <1>5 DEF NetType, WithNone

---------------------------------------------------------------------------
(* Where a handler takes the operation: to its end, or to another stage.   *)

Has(m, tmr, ni, rp, incl, nu) ==
  /\ m \in NetType /\ m.tmr = tmr /\ m.ni = ni /\ m.rp = rp /\ m.incl = incl /\ m.nu = nu
  /\ ~ m.cb_tmr
Goes(r) == r.tell = "NONE" /\ r.net.curr_op = net.curr_op

ToEnd(r) ==
  /\ Has(r.net, "none", "IDLE", "IDLE", "NONE", "IDLE") /\ r.net.curr_op = "NONE"
  /\ r.tell = net.curr_op /\ r.chip = NoChip
ToRp(r) ==
  Has(r.net, "rp", "IDLE", "GET", "NONE", "IDLE") /\ Goes(r) /\ net.curr_op = "RP_NODE" /\ r.chip = NoChip
ToSec(r) ==
  /\ Has(r.net, net.tmr, "IDLE", "IDLE", net.curr_op, "IDLE") /\ Goes(r)
  /\ net.curr_op \in Includes /\ r.chip = NoChip
ToDelay(r) ==
  /\ Has(r.net, "delay", "IDLE", "IDLE", "NONE", "IDLE") /\ Goes(r) /\ r.net.job.op = net.curr_op
  /\ net.curr_op \in Includes /\ r.chip = NoChip
ToAsk(r) ==
  /\ Has(r.net, "state", "BUSY", "IDLE", "NONE", IF net.curr_op = "UPDATE" THEN "NODE_INFO" ELSE "IDLE")
  /\ Goes(r) /\ r.net.job.op = net.curr_op /\ net.curr_op \in Asks /\ r.chip = NoChip
ToChip(r) ==
  /\ Has(r.net, "none", "IDLE", "IDLE", "NONE", "NEIGHBOR") /\ Goes(r) /\ net.curr_op = "UPDATE"
  /\ r.net.nb.todo > 0 /\ r.net.nb.todo + r.net.nb.failed <= MaxNodes
  /\ r.chip = [op |-> "UPDATE", sta |-> "neighbor"]
Somewhere(r) == ToEnd(r) \/ ToRp(r) \/ ToSec(r) \/ ToDelay(r) \/ ToAsk(r) \/ ToChip(r)

LEMMA ResultFields ==
  \A n, o, c : Result(n, o, c).net = n /\ Result(n, o, c).tell = o /\ Result(n, o, c).chip = c
BY DEF Result

\* zwnet_add_ni_get of an idle machine
LEMMA AddNiGetDelays ==
  ASSUME NEW n \in NetType, NEW k \in 0 .. MaxNodes, chip = NoChip, net.curr_op \in Includes,
         n.curr_op = net.curr_op, Has(n, n.tmr, "IDLE", "IDLE", "NONE", "IDLE")
  PROVE  ToDelay(AddNiGet(n, Job(net.curr_op, k)))
<1> DEFINE m == [n EXCEPT !.job = Job(net.curr_op, k), !.tmr = "delay"]
           r == AddNiGet(n, Job(net.curr_op, k))
<1>1. r = GoesOn(m)
  BY DEF AddNiGet, Has
<1>2. Has(m, "delay", "IDLE", "IDLE", "NONE", "IDLE") /\ m.curr_op = net.curr_op /\ m.job.op = net.curr_op
  BY DEF Has, NetType, Job, WithNone, NetOps, Includes, Adds
<1> HIDE DEF m
<1>3. r.net = m /\ r.tell = "NONE" /\ r.chip = chip
  BY <1>1, ResultFields DEF GoesOn
<1> HIDE DEF r
<1>4. ToDelay(r)
  BY <1>2, <1>3 DEF ToDelay, Goes
<1> QED
  BY <1>4 DEF r

\* The end of an operation that holds nothing more than an abort of it stops
LEMMA EndsLeave ==
  ASSUME NEW n \in NetType, n.curr_op = net.curr_op, net.curr_op # "NONE", chip = NoChip,
         n.rp = "IDLE", n.nu = "IDLE", ~ n.cb_tmr,
         \/ n.curr_op \in Includes
         \/ n.ni = "IDLE" /\ n.tmr = "none" /\ n.incl = "NONE"
  PROVE  ToEnd(Ends(n, net.curr_op))
<1> DEFINE m == AbortCurr(n)
           r == Ends(n, net.curr_op)
<1>1. Has(m, "none", "IDLE", "IDLE", "NONE", "IDLE") /\ m.curr_op = "NONE"
  BY Leaves DEF Has
<1>2. r.net = m /\ r.tell = net.curr_op /\ r.chip = NoChip
  BY ResultFields DEF Ends, ChipStopped
<1> HIDE DEF m, r
<1>3. ToEnd(r)
  BY <1>1, <1>2 DEF ToEnd
<1> QED
  BY <1>3 DEF r

\* zwnet_sec_incl of a node that nothing includes yet
LEMMA SecInclTakes ==
  ASSUME NEW n \in NetType, chip = NoChip, net.curr_op \in Includes,
         n.curr_op = net.curr_op, n.tmr = net.tmr, Has(n, n.tmr, "IDLE", "IDLE", "NONE", "IDLE"),
         NEW r \in SecIncl(n, net.curr_op)
  PROVE  Somewhere(r)
<1>1. CASE r = AddNiGet(n, Job(net.curr_op, 1))
  <2>1. 1 \in 0 .. MaxNodes
    BY NetOpAssumption
  <2> QED
    BY <1>1, <2>1, AddNiGetDelays DEF Somewhere
<1>2. CASE r = GoesOn([n EXCEPT !.incl = net.curr_op])
  <2> DEFINE m == [n EXCEPT !.incl = net.curr_op]
  <2>1. Has(m, net.tmr, "IDLE", "IDLE", net.curr_op, "IDLE") /\ m.curr_op = net.curr_op
    BY DEF Has, NetType, WithNone, NetOps, Includes, Adds
  <2> HIDE DEF m
  <2>2. r.net = m /\ r.tell = "NONE" /\ r.chip = chip
    BY <1>2, ResultFields DEF GoesOn, m
  <2> QED
    BY <2>1, <2>2 DEF ToSec, Goes, Somewhere
<1> QED
  BY <1>1, <1>2 DEF SecIncl

\* zwnet_initiate_ni_get
LEMMA InitiateNiGetTakes ==
  ASSUME NEW n \in NetType, chip = NoChip, net.curr_op = "INITIATE",
         n.curr_op = net.curr_op, Has(n, n.tmr, "IDLE", "IDLE", "NONE", "IDLE"),
         NEW r \in InitiateNiGet(n)
  PROVE  Somewhere(r)
<1>1. "INITIATE" \in Includes /\ 1 .. MaxNodes \subseteq 0 .. MaxNodes
  BY NetOpAssumption DEF Includes
<1>2. CASE r = Ends(n, "INITIATE")
  BY <1>1, <1>2, EndsLeave DEF Somewhere, Has
<1>3. ASSUME NEW k \in 1 .. MaxNodes, r = AddNiGet(n, Job("INITIATE", k))
      PROVE  Somewhere(r)
  BY <1>1, <1>3, AddNiGetDelays DEF Somewhere
<1> QED
  BY <1>2, <1>3 DEF InitiateNiGet

---------------------------------------------------------------------------
(* What the handlers come to.                                              *)

\* zwnet_sm_node_info_updt, of an idle machine, or the update fails
LEMMA NodeInfosTake ==
  ASSUME net \in NetType, chip = NoChip, net.curr_op = "UPDATE",
         Has(net, "none", "IDLE", "IDLE", "NONE", net.nu), NEW r \in NuNodeInfo(net)
  PROVE  Somewhere(r)
<1>1. NoNb \in [todo : 0 .. MaxNodes, failed : 0 .. MaxNodes, retry : 0 .. Retries]
  BY NetOpAssumption DEF NoNb
<1>2. CASE r = NuFailed(net)
  <2> DEFINE m == [net EXCEPT !.nu = "IDLE", !.nb = NoNb, !.curr_op = "NONE"]
  <2>1. Has(m, "none", "IDLE", "IDLE", "NONE", "IDLE") /\ m.curr_op = "NONE"
    BY <1>1 DEF Has, NetType, WithNone
  <2> HIDE DEF m
  <2>2. r.net = m /\ r.tell = "UPDATE" /\ r.chip = chip
    BY <1>2, ResultFields DEF NuFailed, m
  <2> QED
    BY <2>1, <2>2 DEF ToEnd, Somewhere
<1>3. ASSUME NEW k \in 1 .. MaxNodes, NEW x,
             x = [Requested(net) EXCEPT !.nu = "NODE_INFO", !.nb = NoNb, !.job = Job("UPDATE", k)],
             r = NuGoesOn(x)
      PROVE  Somewhere(r)
  <2>1. Has(x, "state", "BUSY", "IDLE", "NONE", "NODE_INFO") /\ x.curr_op = "UPDATE" /\ x.job.op = "UPDATE"
    <3> DEFINE q == Requested(net)
    <3>1. Has(q, "state", "BUSY", "IDLE", "NONE", net.nu) /\ q.curr_op = "UPDATE"
      BY DEF Has, Requested, NetType
    <3> HIDE DEF q
    <3>2. x = [q EXCEPT !.nu = "NODE_INFO", !.nb = NoNb, !.job = Job("UPDATE", k)]
      BY <1>3 DEF q
    <3>3. Job("UPDATE", k) \in [op : WithNone(NetOps), left : 0 .. MaxNodes]
          /\ Job("UPDATE", k).op = "UPDATE"
      BY NetOpAssumption DEF Job, WithNone, NetOps
    <3> HIDE DEF Job
    <3> QED
      BY <1>1, <3>1, <3>2, <3>3 DEF Has, NetType
  <2>2. r.net = x /\ r.tell = "NONE" /\ r.chip = chip
    BY <1>3, <2>1, ResultFields DEF NuGoesOn, ChipFor, Has
  <2> QED
    BY <2>1, <2>2 DEF ToAsk, Goes, Asks, Somewhere
<1> QED
  BY <1>2, <1>3 DEF NuNodeInfo, NodeInfos

\* zwnet_updt_sm: the neighbours of another node are asked for
LEMMA NeighborTakes ==
  ASSUME chip = NoChip, net.curr_op = "UPDATE", NEW x \in NetType, NEW r, r = NuGoesOn(x),
         Has(x, "none", "IDLE", "IDLE", "NONE", "NEIGHBOR"), x.curr_op = "UPDATE",
         x.nb.todo > 0, x.nb.todo + x.nb.failed <= MaxNodes
  PROVE  Somewhere(r)
<1>1. r.net = x /\ r.tell = "NONE" /\ r.chip = [op |-> "UPDATE", sta |-> "neighbor"]
  BY ResultFields DEF NuGoesOn, ChipFor, Has
<1> QED
  BY <1>1 DEF ToChip, Goes, Somewhere

LEMMA NbFields ==
  ASSUME NEW n \in NetType
  PROVE  n.nb.todo \in 0 .. MaxNodes /\ n.nb.failed \in 0 .. MaxNodes /\ n.nb.retry \in 0 .. Retries
BY DEF NetType

\* zwnet_update_cb, zwnet_node_updt_cb
LEMMA UpdateTakes ==
  ASSUME net \in NetType, chip = NoChip, net.curr_op = "UPDATE",
         Has(net, "none", "IDLE", "IDLE", "NONE", net.nu),
         NEW of, NEW ok,
         \/ net.nu = "TOPOLOGY" /\ of = "network"
         \/ net.nu = "NEIGHBOR" /\ of = "neighbor",
         net.nu = "NEIGHBOR" => net.nb.todo > 0 /\ net.nb.todo + net.nb.failed <= MaxNodes,
         NEW rep, rep.ok = ok, rep.of = of, NEW r \in UpdateCb(net, rep)
  PROVE  Somewhere(r)
<1>1. CASE net.nu = "TOPOLOGY" /\ r \in NuNodeInfo(net)
  BY <1>1, NodeInfosTake
<1>2. ASSUME NEW k \in 1 .. MaxNodes,
             r = NuGoesOn([net EXCEPT !.nu = "NEIGHBOR", !.nb = [NoNb EXCEPT !.todo = k]])
      PROVE  Somewhere(r)
  <2> DEFINE b == [NoNb EXCEPT !.todo = k]
             x == [net EXCEPT !.nu = "NEIGHBOR", !.nb = b]
  <2>1. b \in [todo : 0 .. MaxNodes, failed : 0 .. MaxNodes, retry : 0 .. Retries]
        /\ b.todo = k /\ b.failed = 0
    BY NetOpAssumption DEF NoNb
  <2> HIDE DEF b
  <2>2. Has(x, "none", "IDLE", "IDLE", "NONE", "NEIGHBOR") /\ x.curr_op = "UPDATE" /\ x.nb = b
    BY <2>1 DEF Has, NetType
  <2>3. x \in NetType
    BY <2>2 DEF Has
  <2>4. r = NuGoesOn(x)
    BY <1>2 DEF b
  <2> HIDE DEF x
  <2> QED
    BY <2>1, <2>2, <2>3, <2>4, NeighborTakes
<1>3. CASE net.nu = "NEIGHBOR" /\ r \in NuNodeInfo(net)
  BY <1>3, NodeInfosTake
<1>4. ASSUME net.nu = "NEIGHBOR", NEW b,
             b \in [todo : 0 .. MaxNodes, failed : 0 .. MaxNodes, retry : 0 .. Retries],
             b.todo > 0, b.todo + b.failed <= MaxNodes, r = NuGoesOn([net EXCEPT !.nb = b])
      PROVE  Somewhere(r)
  <2> DEFINE x == [net EXCEPT !.nb = b]
  <2>1. Has(x, "none", "IDLE", "IDLE", "NONE", "NEIGHBOR") /\ x.curr_op = "UPDATE" /\ x.nb = b
    BY <1>4 DEF Has, NetType
  <2>2. x \in NetType
    BY <2>1 DEF Has
  <2> HIDE DEF x
  <2>3. r = NuGoesOn(x)
    BY <1>4 DEF x
  <2> QED
    BY <1>4, <2>1, <2>2, <2>3, NeighborTakes
<1>5. CASE net.nu = "NEIGHBOR" /\ r \in NeighborDone(net, ok) /\ r \notin NuNodeInfo(net)
  <2> DEFINE nb == [todo |-> net.nb.todo - 1, failed |-> net.nb.failed + (IF ok THEN 0 ELSE 1),
                    retry |-> net.nb.retry]
             next == IF nb.todo > 0 THEN {nb}
                     ELSE IF nb.failed > 0 /\ nb.retry < Retries THEN {Retried(nb)} ELSE {}
  <2>1. nb.todo = net.nb.todo - 1 /\ nb.failed \in {net.nb.failed, net.nb.failed + 1} /\ nb.retry = net.nb.retry
        /\ nb = [todo |-> nb.todo, failed |-> nb.failed, retry |-> nb.retry]
    BY NbFields
  <2>2. \E x \in next : r = NuGoesOn([net EXCEPT !.nb = x])
    BY <1>5 DEF NeighborDone
  <2> HIDE DEF nb
  <2>3. PICK x \in next : r = NuGoesOn([net EXCEPT !.nb = x])
    BY <2>2
  <2>4. nb.todo \in 0 .. MaxNodes /\ nb.failed \in 0 .. MaxNodes /\ nb.todo + nb.failed <= MaxNodes
        /\ nb.retry \in 0 .. Retries
    <3>1. net.nb.todo \in 0 .. MaxNodes /\ net.nb.failed \in 0 .. MaxNodes /\ net.nb.retry \in 0 .. Retries
      BY NbFields
    <3>2. net.nb.todo > 0 /\ net.nb.todo + net.nb.failed <= MaxNodes
      BY <1>5
    <3> QED
      BY <2>1, <3>1, <3>2, NetOpAssumption
  <2>5. /\ x \in [todo : 0 .. MaxNodes, failed : 0 .. MaxNodes, retry : 0 .. Retries]
        /\ x.todo > 0 /\ x.todo + x.failed <= MaxNodes
    <3>1. CASE x = nb /\ nb.todo > 0
      BY <3>1, <2>1, <2>4
    <3>2. CASE x = Retried(nb) /\ nb.failed > 0 /\ nb.retry < Retries
      BY <3>2, <2>4, NetOpAssumption DEF Retried
    <3> QED
      BY <2>3, <3>1, <3>2
  <2> HIDE DEF next
  <2> QED
    BY <1>4, <1>5, <2>3, <2>5
<1>6. CASE net.nu = "TOPOLOGY"
  <2>1. UpdateCb(net, rep) = TopologyDone(net)
    BY <1>6 DEF UpdateCb
  <2> QED
    BY <1>1, <1>2, <1>6, <2>1 DEF TopologyDone, Neighbors
<1>7. CASE net.nu = "NEIGHBOR"
  <2>1. UpdateCb(net, rep) = NeighborDone(net, rep.ok)
    BY <1>7 DEF UpdateCb
  <2> QED
    BY <1>3, <1>5, <1>7, <2>1
<1> QED
  BY <1>6, <1>7

\* The handlers of the chip's reports
LEMMA HandledTakes ==
  ASSUME NetOpTypes, Counts, Reported, NEW r \in Handled(net, cbs[1])
  PROVE  Somewhere(r)
<1> DEFINE rep == cbs[1]
<1>1. chip = NoChip /\ Has(net, "none", "IDLE", "IDLE", "NONE", net.nu)
  BY DEF NetOpTypes, Reported, OthersFree, SecFree, TmrFree, JobFree, RpFree, NotifyFree, Has
<1>2. net \in NetType /\ net.curr_op # "NONE" /\ rep.op = net.curr_op /\ net.curr_op \in ChipOps
  BY DEF NetOpTypes, Reported, ChipOps, NetOps
<1>3. net.curr_op # "UPDATE" => Has(net, net.tmr, "IDLE", "IDLE", "NONE", "IDLE") /\ net.tmr = "none" /\ net.nu = "IDLE"
  BY <1>1 DEF Reported, UpdateAt, NuFree, Has
<1>4. net.curr_op # "UPDATE" => ToEnd(Ends(net, net.curr_op))
  BY <1>1, <1>2, <1>3, EndsLeave DEF Has
<1>5. ASSUME net.curr_op \in Adds, r \in SecIncl(net, net.curr_op)
      PROVE  Somewhere(r)
  <2>1. net.curr_op \in Includes /\ net.curr_op # "UPDATE"
    BY <1>5 DEF Adds, Includes
  <2> QED
    BY <1>1, <1>2, <1>3, <1>5, <2>1, SecInclTakes
<1>6. CASE net.curr_op = "UPDATE"
  <2>1. r \in UpdateCb(net, rep)
    BY <1>2, <1>6 DEF Handled
  <2>2. net.nu = "NEIGHBOR" => net.nb.todo > 0 /\ net.nb.todo + net.nb.failed <= MaxNodes
    BY DEF Counts
  <2>3. \/ net.nu = "TOPOLOGY" /\ rep.of = "network"
        \/ net.nu = "NEIGHBOR" /\ rep.of = "neighbor"
    BY <1>6 DEF Reported, UpdateAt
  <2> HIDE DEF rep
  <2> QED
    BY <1>1, <1>2, <1>6, <2>1, <2>2, <2>3, UpdateTakes
<1>7. CASE net.curr_op = "ADD_NODE"
  <2>1. r \in NodeAddCb(net, rep)
    BY <1>2, <1>7 DEF Handled
  <2>2. net.curr_op \in Adds
    BY <1>7 DEF Adds
  <2> QED
    BY <1>4, <1>5, <1>7, <2>1, <2>2 DEF NodeAddCb, Somewhere
<1>8. CASE net.curr_op \in {"MIGRATE", "MIGRATE_SUC"}
  <2>1. r \in MigrateCb(net, rep)
    BY <1>2, <1>8 DEF Handled
  <2>2. net.curr_op \in Adds /\ rep.ok
    BY <1>8 DEF Adds, Reported
  <2> QED
    BY <1>2, <1>5, <2>1, <2>2 DEF MigrateCb
<1>9. CASE net.curr_op \in {"RM_NODE", "RM_FAILED_ID", "RESET", "SEND_NIF"}
  <2>1. r = Ends(net, net.curr_op)
    BY <1>2, <1>9 DEF Handled, NodeRmCb, FailedIdRmCb, ResetCb, SendNifCb
  <2> QED
    BY <1>4, <1>9, <2>1 DEF Somewhere
<1>10. CASE net.curr_op = "RP_NODE"
  <2> DEFINE m == [net EXCEPT !.rp = "GET", !.tmr = "rp"]
  <2>1. r \in FailedIdRpCb(net, rep)
    BY <1>2, <1>10 DEF Handled
  <2>2. r = GoesOn(m) \/ r = Ends(net, "RP_NODE")
    BY <2>1, <1>1 DEF FailedIdRpCb, RpStart, Has
  <2>3. Has(m, "rp", "IDLE", "GET", "NONE", "IDLE") /\ m.curr_op = "RP_NODE"
    BY <1>3, <1>10 DEF Has, NetType
  <2> HIDE DEF m
  <2>4. CASE r = GoesOn(m)
    <3>1. r.net = m /\ r.tell = "NONE" /\ r.chip = chip
      BY <2>4, ResultFields DEF GoesOn
    <3> QED
      BY <1>1, <1>10, <2>3, <3>1 DEF ToRp, Goes, Somewhere
  <2> QED
    BY <1>4, <1>10, <2>2, <2>4 DEF Somewhere
<1>11. CASE net.curr_op = "INITIATE"
  <2> DEFINE m == [net EXCEPT !.incl = "INITIATE"]
  <2>1. r \in InitiateCb(net, rep)
    BY <1>2, <1>11 DEF Handled
  <2>2. r \in InitiateNiGet(net) \/ r = GoesOn(m) \/ r = Ends(net, "INITIATE")
    BY <2>1 DEF InitiateCb, Joined
  <2>3. Has(m, net.tmr, "IDLE", "IDLE", "INITIATE", "IDLE") /\ m.curr_op = "INITIATE"
    BY <1>3, <1>11 DEF Has, NetType, WithNone, NetOps
  <2> HIDE DEF m
  <2>4. CASE r = GoesOn(m)
    <3>1. r.net = m /\ r.tell = "NONE" /\ r.chip = chip
      BY <2>4, ResultFields DEF GoesOn
    <3> QED
      BY <1>1, <1>11, <2>3, <3>1 DEF ToSec, Goes, Somewhere, Includes
  <2>5. CASE r \in InitiateNiGet(net)
    BY <1>1, <1>2, <1>3, <1>11, <2>5, InitiateNiGetTakes
  <2> QED
    BY <1>4, <1>11, <2>2, <2>4, <2>5 DEF Somewhere
<1> QED
  BY <1>2, <1>6, <1>7, <1>8, <1>9, <1>10, <1>11 DEF ChipOps, NetOps

\* The node information of the replaced node
LEMMA NodeInfoFrameTakes ==
  ASSUME NetOpTypes, AwaitsNodeInfo, late = {}, NEW r \in SecIncl([net EXCEPT !.rp = "IDLE"], "RP_NODE")
  PROVE  Somewhere(r)
<1> DEFINE n == [net EXCEPT !.rp = "IDLE"]
<1>1. n \in NetType /\ Has(n, n.tmr, "IDLE", "IDLE", "NONE", "IDLE") /\ n.tmr = net.tmr
      /\ n.curr_op = net.curr_op
  BY DEF NetOpTypes, NetType, Has, AwaitsNodeInfo, SecFree, JobFree, NuFree, NotifyFree
<1>2. chip = NoChip /\ net.curr_op = "RP_NODE" /\ net.curr_op \in Includes
  BY DEF AwaitsNodeInfo, ChipFree, Includes
<1> HIDE DEF n
<1>3. r \in SecIncl(n, net.curr_op)
  BY <1>2 DEF n
<1> QED
  BY <1>1, <1>2, <1>3, SecInclTakes

\* The end of secure inclusion
LEMMA SecCbTakes ==
  ASSUME NetOpTypes, Included,
         NEW r \in IF sec_cb = "INITIATE" THEN InitiateNiGet(net) ELSE {AddNiGet(net, Job(sec_cb, 1))}
  PROVE  Somewhere(r)
<1>1. net \in NetType /\ Has(net, net.tmr, "IDLE", "IDLE", "NONE", "IDLE")
  BY DEF NetOpTypes, Has, Included, JobFree, NuFree, RpFree, NotifyFree
<1>2. chip = NoChip /\ net.curr_op \in Includes /\ sec_cb = net.curr_op /\ 1 \in 0 .. MaxNodes
  BY NetOpAssumption DEF Included, ChipFree
<1>3. CASE sec_cb = "INITIATE"
  BY <1>1, <1>2, <1>3, InitiateNiGetTakes
<1>4. CASE sec_cb # "INITIATE"
  BY <1>1, <1>2, <1>4, AddNiGetDelays DEF Somewhere
<1> QED
  BY <1>3, <1>4

\* One more node is asked.
LEMMA RequestTakes ==
  ASSUME NEW n \in NetType, chip = NoChip, n.curr_op = net.curr_op, net.curr_op \in Asks,
         n.job.op = net.curr_op, n.rp = "IDLE", n.incl = "NONE", ~ n.cb_tmr,
         n.nu = IF net.curr_op = "UPDATE" THEN "NODE_INFO" ELSE "IDLE"
  PROVE  Somewhere(GoesOn(Requested(n)))
<1> DEFINE m == Requested(n)
           r == GoesOn(m)
<1>1. Has(m, "state", "BUSY", "IDLE", "NONE", n.nu) /\ m.curr_op = net.curr_op /\ m.job.op = net.curr_op
  BY DEF Has, NetType, Requested
<1> HIDE DEF m
<1>2. r.net = m /\ r.tell = "NONE" /\ r.chip = NoChip
  BY ResultFields DEF GoesOn
<1> HIDE DEF r
<1>3. Somewhere(r)
  BY <1>1, <1>2 DEF ToAsk, Goes, Somewhere
<1> QED
  BY <1>3 DEF r, m

\* zwnet_sm_next, with the last node done or not
LEMMA SmNextTakes ==
  ASSUME NetOpTypes, Nexting,
         NEW r \in {JobDone(net)} \cup {GoesOn(Requested(net)) : k \in {net.job.left} \ {0}}
  PROVE  Somewhere(r)
<1>1. /\ net \in NetType /\ chip = NoChip /\ net.curr_op \in Asks /\ net.job.op = net.curr_op
      /\ net.rp = "IDLE" /\ net.incl = "NONE" /\ net.tmr = "none" /\ ~ net.cb_tmr
      /\ net.nu = IF net.curr_op = "UPDATE" THEN "NODE_INFO" ELSE "IDLE"
  BY DEF NetOpTypes, Nexting, ChipFree, SecFree, TmrFree, RpFree, NotifyFree, NuFree, Asked
<1>2. CASE r = JobDone(net)
  <2> DEFINE nu == IF net.job.op = "UPDATE" /\ net.nu = "NODE_INFO" THEN "IDLE" ELSE net.nu
             m == [net EXCEPT !.ni = "IDLE", !.job.left = 0, !.curr_op = "NONE", !.nu = nu]
  <2>1. nu = "IDLE"
    BY <1>1
  <2> HIDE DEF nu
  <2>2. Has(m, "none", "IDLE", "IDLE", "NONE", "IDLE") /\ m.curr_op = "NONE"
    <3> DEFINE a == [net EXCEPT !.job.left = 0]
    <3>1. /\ a \in NetType /\ a.rp = "IDLE" /\ a.incl = "NONE" /\ a.tmr = "none" /\ ~ a.cb_tmr
      BY <1>1, NetOpAssumption DEF NetType
    <3>2. m = [a EXCEPT !.ni = "IDLE", !.curr_op = "NONE", !.nu = nu]
      BY <1>1 DEF NetType
    <3> HIDE DEF a, m
    <3> QED
      BY <3>1, <3>2, <2>1 DEF Has, NetType, WithNone
  <2>3. r = Result(m, net.job.op, chip)
    BY <1>2 DEF JobDone, nu
  <2> HIDE DEF m
  <2> QED
    BY <1>1, <2>2, <2>3, ResultFields DEF ToEnd, Somewhere
<1>3. CASE r = GoesOn(Requested(net))
  BY <1>1, <1>3, RequestTakes
<1> QED
  BY <1>2, <1>3

---------------------------------------------------------------------------
(* Ends that are told, and the account of them.                            *)

NbOk(m) == m.nu = "NEIGHBOR" => m.nb.todo > 0 /\ m.nb.todo + m.nb.failed <= MaxNodes
Fits(r) ==
  /\ r.net \in NetType /\ r.chip \in ChipType /\ NbOk(r.net)
  /\ Goes(r) \/ (r.tell = net.curr_op /\ r.net.curr_op = "NONE")

LEMMA SomewhereFits ==
  ASSUME NEW r, Somewhere(r) PROVE Fits(r)
<1>1. NoChip \in ChipType /\ [op |-> "UPDATE", sta |-> "neighbor"] \in ChipType
  BY DEF NoChip, ChipType, ChipStates, WithNone, NetOps
<1> QED
  BY <1>1 DEF Somewhere, ToEnd, ToRp, ToSec, ToDelay, ToAsk, ToChip, Fits, Has, NbOk, Goes

LEMMA TakesTells ==
  ASSUME NetOpTypes, Counts, Accounts, net.curr_op \in NetOps, NEW by \in {"cb", "tmr"}, NEW results,
         Takes(by, results), \A r \in results : Fits(r), UNCHANGED <<owed, begins>>
  PROVE  /\ \E r \in results : net' = r.net /\ chip' = r.chip /\ Fits(r)
         /\ net' \in NetType /\ chip' \in ChipType /\ IsABag(telling') /\ BagToSet(telling') \subseteq EndType
         /\ Counts' /\ Accounts'
<1>1. PICK r \in results :
        /\ net' = r.net /\ chip' = r.chip
        /\ telling' = telling (+) SetToBag({[by |-> by, op |-> o] : o \in {r.tell} \ {"NONE"}})
  BY DEF Takes
<1>2. Fits(r)
  BY <1>1
<1>3. net' \in NetType /\ chip' \in ChipType /\ Counts'
  BY <1>1, <1>2 DEF Fits, NbOk, Counts
<1>4. IsABag(telling) /\ BagToSet(telling) \subseteq EndType
  BY DEF NetOpTypes
<1>5. "NONE" \notin NetOps
  BY DEF NetOps
<1>6. CASE Goes(r)
  <2>1. {[by |-> by, op |-> o] : o \in {r.tell} \ {"NONE"}} = {}
    BY <1>6 DEF Goes
  <2>2. telling' = telling
    BY <1>1, <1>4, <2>1, BagPutNone
  <2>3. net'.curr_op = net.curr_op
    BY <1>1, <1>6 DEF Goes
  <2>4. Accounts'
    BY <2>2, <2>3 DEF Accounts, Account, Telling
  <2> QED
    BY <1>1, <1>2, <1>3, <1>4, <2>2, <2>4
<1>7. CASE r.tell = net.curr_op /\ r.net.curr_op = "NONE"
  <2> DEFINE t == [by |-> by, op |-> net.curr_op]
  <2>1. {[by |-> by, op |-> o] : o \in {r.tell} \ {"NONE"}} = {t}
    BY <1>5, <1>7
  <2>2. telling' = telling (+) SetToBag({t})
    BY <1>1, <2>1
  <2>3. /\ IsABag(telling') /\ BagToSet(telling') = BagToSet(telling) \cup {t}
        /\ \A e : Copies(e, telling') = Copies(e, telling) + (IF e = t THEN 1 ELSE 0)
    BY <1>4, <2>2, BagPut
  <2>4. t \in EndType
    BY DEF EndType
  <2>5. ASSUME NEW o \in NetOps PROVE Account(o)'
    <3>1. Telling(o)' = Telling(o) + (IF o = net.curr_op THEN 1 ELSE 0)
      <4> DEFINE c == [by |-> "cb", op |-> o]
                 m == [by |-> "tmr", op |-> o]
      <4>1. c # m /\ (o # net.curr_op => c # t /\ m # t) /\ (o = net.curr_op => t \in {c, m})
        OBVIOUS
      <4>2. Copies(c, telling) \in Nat /\ Copies(m, telling) \in Nat
        BY <1>4, BagFields
      <4>3. Telling(o) = Copies(c, telling) + Copies(m, telling)
            /\ Telling(o)' = Copies(c, telling') + Copies(m, telling')
        BY DEF Telling, Copies
      <4> HIDE DEF c, m, t
      <4> QED
        BY <2>3, <4>1, <4>2, <4>3
    <3>2. owed[o] = (IF net.curr_op = o THEN 1 ELSE 0) + Telling(o)
      BY DEF Accounts, Account
    <3>3. Telling(o) \in Nat
      BY <1>4, BagFields DEF Telling
    <3>4. net'.curr_op # o /\ owed' = owed
      BY <1>1, <1>5, <1>7
    <3> HIDE DEF t
    <3>5. owed'[o] = (IF net'.curr_op = o THEN 1 ELSE 0) + Telling(o)'
      BY <3>1, <3>2, <3>3, <3>4
    <3> QED
      BY <3>5 DEF Account
  <2> QED
    BY <1>1, <1>2, <1>3, <1>4, <2>3, <2>4, <2>5 DEF Accounts
<1> QED
  BY <1>2, <1>6, <1>7 DEF Fits

---------------------------------------------------------------------------
(* Stages, told from what one part holds.                                  *)

LEMMA NotNone ==
  /\ "NONE" \notin NetOps /\ "NONE" \notin ChipOps /\ "NONE" \notin Asks /\ "NONE" \notin Includes
  /\ Includes \subseteq Asks /\ Asks \subseteq NetOps /\ ChipOps \subseteq NetOps
BY DEF NetOps, ChipOps, Asks, Includes, Adds

LEMMA StageIs ==
  ASSUME NetOpTypes, InOneStage
  PROVE  /\ net.curr_op = "NONE" => Resting /\ ~ net.cb_tmr
         /\ net.cb_tmr => Resting /\ net.curr_op = "INITIALIZE"
         /\ chip # NoChip => OnChip
         /\ cbs # <<>> => Reported
         /\ net.rp = "GET" => AwaitsNodeInfo
         /\ net.incl # "NONE" => Including
         /\ sec_cb # "NONE" => Included
         /\ nexting => Nexting
         /\ net.ni = "BUSY" /\ ~ nexting => Interviewing
         /\ net.tmr # "none" \/ late # {} =>
              \/ AwaitsNodeInfo \/ Delayed \/ Interviewing
              \/ (Including \/ Included) /\ net.curr_op = "RP_NODE" /\ Waits("rp")
<1> USE DEF NetOpTypes, OthersFree, ChipFree, SecFree, TmrFree, JobFree, RpFree, NuFree, NotifyFree
<1>1. CASE Resting
  BY <1>1 DEF Resting
<1>2. CASE OnChip
  BY <1>2, NotNone DEF OnChip
<1>3. CASE Reported
  BY <1>3, NotNone DEF Reported
<1>4. CASE AwaitsNodeInfo
  BY <1>4 DEF AwaitsNodeInfo
<1>5. CASE Including
  BY <1>5, NotNone DEF Including, TmrLeft
<1>6. CASE Included
  BY <1>6, NotNone DEF Included, TmrLeft
<1>7. CASE Delayed
  BY <1>7, NotNone DEF Delayed
<1>8. CASE Interviewing
  BY <1>8, NotNone DEF Interviewing
<1>9. CASE Nexting
  BY <1>9, NotNone DEF Nexting
<1> QED
  BY <1>1, <1>2, <1>3, <1>4, <1>5, <1>6, <1>7, <1>8, <1>9 DEF InOneStage

\* A handler's result, with no timer's thread waiting and no other part at work
LEMMA StageReached ==
  ASSUME NEW r, Somewhere(r), net' = r.net, chip' = r.chip, cbs' = <<>>, sec_cb' = "NONE", late' = {},
         nexting' = FALSE, net.curr_op # "NONE",
         net.tmr = "none" \/ (net.curr_op = "RP_NODE" /\ net.tmr = "rp")
  PROVE  InOneStage'
<1> USE DEF Has, Goes, OthersFree, ChipFree, SecFree, TmrFree, JobFree, RpFree, NuFree, NotifyFree, Waits
<1>1. CASE ToEnd(r)
  <2>1. Resting'
    BY <1>1 DEF ToEnd, Resting
  <2> QED
    BY <2>1 DEF InOneStage
<1>2. CASE ToRp(r)
  <2>1. AwaitsNodeInfo'
    BY <1>2 DEF ToRp, AwaitsNodeInfo
  <2> QED
    BY <2>1 DEF InOneStage
<1>3. CASE ToSec(r)
  <2>1. Including'
    BY <1>3 DEF ToSec, Including, TmrLeft
  <2> QED
    BY <2>1 DEF InOneStage
<1>4. CASE ToDelay(r)
  <2>1. Delayed'
    BY <1>4 DEF ToDelay, Delayed
  <2> QED
    BY <2>1 DEF InOneStage
<1>5. CASE ToAsk(r)
  <2>1. Interviewing'
    BY <1>5 DEF ToAsk, Interviewing, Asked
  <2> QED
    BY <2>1 DEF InOneStage
<1>6. CASE ToChip(r)
  <2>1. OnChip'
    BY <1>6 DEF ToChip, OnChip, UpdateAt, ChipOps, NetOps
  <2> QED
    BY <2>1 DEF InOneStage
<1> QED
  BY <1>1, <1>2, <1>3, <1>4, <1>5, <1>6 DEF Somewhere

---------------------------------------------------------------------------
(* The steps.                                                              *)

\* An operation more is owed its end.
LEMMA BeginsOwed ==
  ASSUME NetOpTypes, Counts, Accounts, net.curr_op = "NONE", NEW o \in NetOps, Begun(o),
         net'.curr_op = o, NbOk(net'), UNCHANGED telling
  PROVE  Accounts' /\ Counts' /\ owed' \in [WithNone(NetOps) -> Int] /\ begins' \in 0 .. MaxBegins
<1>1. owed \in [WithNone(NetOps) -> Int] /\ begins \in 0 .. MaxBegins /\ MaxBegins \in Nat
  BY NetOpAssumption DEF NetOpTypes
<1>2. owed' = [owed EXCEPT ![o] = @ + 1] /\ begins' = begins + 1 /\ begins < MaxBegins
  BY DEF Begun
<1>3. NetOps \subseteq WithNone(NetOps) /\ "NONE" \in WithNone(NetOps) /\ o # "NONE"
  BY NotNone DEF WithNone
<1>4. owed' \in [WithNone(NetOps) -> Int] /\ begins' \in 0 .. MaxBegins
      /\ \A p \in WithNone(NetOps) : owed'[p] = IF p = o THEN owed[p] + 1 ELSE owed[p]
  BY <1>1, <1>2, <1>3
<1>5. Counts'
  <2>1. owed'["NONE"] = 0
    BY <1>3, <1>4 DEF Counts
  <2>2. \A p \in NetOps : owed'[p] <= begins' + 1
    BY <1>1, <1>2, <1>3, <1>4 DEF Counts
  <2> QED
    BY <2>1, <2>2 DEF Counts, NbOk
<1>6. ASSUME NEW p \in NetOps PROVE Account(p)'
  <2>1. owed[p] = Telling(p) /\ owed[p] \in Int
    BY <1>1, <1>3, NotNone DEF Accounts, Account, NetOpTypes, Telling, Copies, IsABag
  <2>2. owed'[p] = (IF net'.curr_op = p THEN 1 ELSE 0) + Telling(p)
    BY <1>3, <1>4, <2>1
  <2> QED
    BY <2>2 DEF Account, Telling
<1> QED
  BY <1>4, <1>5, <1>6 DEF Accounts

LEMMA StepBeginChipOp ==
  ASSUME NetOpInv, Undisturbed, NEW o \in ChipOps \ {"UPDATE"}, BeginChipOp(o)
  PROVE  NetOpInv'
<1>1. Resting /\ net.curr_op = "NONE" /\ ~ net.cb_tmr /\ ~ checked
  BY StageIs DEF NetOpInv, BeginChipOp, MayBegin, MayMeet, Undisturbed
<1>2. net' = [net EXCEPT !.curr_op = o] /\ net \in NetType /\ o \in NetOps
  BY NotNone DEF BeginChipOp, NetOpInv, NetOpTypes
<1>3. net' \in NetType
  BY <1>2, NetChanged DEF WithNone
<1>4. /\ net'.curr_op = o /\ net'.ni = net.ni /\ net'.tmr = net.tmr /\ net'.rp = net.rp
      /\ net'.incl = net.incl /\ net'.nu = net.nu /\ net'.cb_tmr = net.cb_tmr
  BY <1>2 DEF NetType, WithNone
<1>5. chip' = [op |-> o, sta |-> "ready"] /\ UNCHANGED <<cbs, late, sec_cb, nexting, checked, telling>>
  BY DEF BeginChipOp
<1>6. OnChip'
  BY <1>1, <1>4, <1>5 DEF Resting, OnChip, OthersFree, ChipFree, SecFree, TmrFree, JobFree, RpFree,
     NuFree, NotifyFree, UpdateAt
<1>7. Accounts' /\ Counts' /\ owed' \in [WithNone(NetOps) -> Int] /\ begins' \in 0 .. MaxBegins
  <2>1. NbOk(net')
    BY <1>1, <1>4 DEF NbOk, Resting, NuFree
  <2>2. Begun(o)
    BY DEF BeginChipOp
  <2> QED
    BY <1>1, <1>2, <1>4, <1>5, <2>1, <2>2, BeginsOwed DEF NetOpInv
<1>8. chip' \in ChipType
  BY <1>2, <1>5 DEF ChipType, ChipStates, WithNone
<1>9. NetOpTypes'
  BY <1>3, <1>5, <1>7, <1>8 DEF NetOpInv, NetOpTypes
<1> QED
  BY <1>1, <1>5, <1>6, <1>7, <1>9 DEF NetOpInv, InOneStage

LEMMA StepBeginNodeUpdate ==
  ASSUME NetOpInv, Undisturbed, BeginNodeUpdate
  PROVE  NetOpInv'
<1> DEFINE o == "NODE_UPDATE"
           q == Requested(net)
<1>1. Resting /\ net.curr_op = "NONE" /\ ~ net.cb_tmr /\ ~ checked /\ o \in NetOps
  BY StageIs DEF NetOpInv, BeginNodeUpdate, MayBegin, MayMeet, Undisturbed, NetOps
<1>2. net' = [q EXCEPT !.curr_op = o, !.job = Job(o, 1)] /\ net \in NetType
  BY <1>1 DEF BeginNodeUpdate, NetOpInv, NetOpTypes, Resting, JobFree
<1>3. /\ q \in NetType /\ q.ni = "BUSY" /\ q.tmr = "state" /\ q.rp = net.rp /\ q.incl = net.incl
      /\ q.nu = net.nu /\ q.cb_tmr = net.cb_tmr
  BY <1>2 DEF Requested, NetType
<1>4. Job(o, 1) \in [op : WithNone(NetOps), left : 0 .. MaxNodes] /\ Job(o, 1).op = o
  BY <1>1, NetOpAssumption DEF Job, WithNone
<1> HIDE DEF q
<1>5. /\ net' \in NetType /\ net'.curr_op = o /\ net'.ni = "BUSY" /\ net'.tmr = "state" /\ net'.rp = net.rp
      /\ net'.incl = net.incl /\ net'.nu = net.nu /\ net'.cb_tmr = net.cb_tmr /\ net'.job.op = o
  <2> HIDE DEF Job
  <2> QED
    BY <1>1, <1>2, <1>3, <1>4 DEF NetType, WithNone
<1>6. UNCHANGED <<chip, cbs, late, sec_cb, checked, nexting, telling>>
  BY DEF BeginNodeUpdate, env_vars
<1>7. Interviewing'
  BY <1>1, <1>5, <1>6 DEF Resting, Interviewing, ChipFree, SecFree, TmrFree, JobFree, RpFree,
     NuFree, NotifyFree, Asked, Asks, Waits
<1>8. Accounts' /\ Counts' /\ owed' \in [WithNone(NetOps) -> Int] /\ begins' \in 0 .. MaxBegins
  <2>1. NbOk(net')
    BY <1>1, <1>5 DEF NbOk, Resting, NuFree
  <2>2. Begun(o)
    BY DEF BeginNodeUpdate
  <2> QED
    BY <1>1, <1>5, <1>6, <2>1, <2>2, BeginsOwed DEF NetOpInv
<1>9. NetOpTypes'
  BY <1>5, <1>6, <1>8 DEF NetOpInv, NetOpTypes
<1> QED
  BY <1>1, <1>6, <1>7, <1>8, <1>9 DEF NetOpInv, InOneStage

LEMMA StepUpdateCheck ==
  ASSUME NetOpInv, UpdateCheck
  PROVE  NetOpInv'
<1>1. UNCHANGED <<net, chip, cbs, late, sec_cb, nexting, telling, owed, begins>> /\ checked' = TRUE
      /\ net.curr_op = "NONE"
  BY DEF UpdateCheck, MayBegin
<1>2. InOneStage'
  BY <1>1 DEF NetOpInv, InOneStage, Resting, OnChip, Reported, AwaitsNodeInfo, Including, Included, Delayed,
     Interviewing, Nexting, OthersFree, ChipFree, SecFree, TmrFree, JobFree, RpFree, NuFree, NotifyFree,
     Asked, Waits, TmrLeft, UpdateAt
<1>3. NetOpTypes' /\ Counts' /\ Accounts'
  BY <1>1 DEF NetOpInv, NetOpTypes, Counts, Accounts, Account, Telling, Copies
<1> QED
  BY <1>1, <1>2, <1>3 DEF NetOpInv

LEMMA StepBeginUpdate ==
  ASSUME NetOpInv, BeginUpdate
  PROVE  NetOpInv'
<1> DEFINE o == "UPDATE"
<1>1. Resting /\ net.curr_op = "NONE" /\ ~ net.cb_tmr /\ o \in NetOps /\ net \in NetType
  BY StageIs DEF NetOpInv, NetOpTypes, BeginUpdate, NetOps
<1>2. /\ net.nu = "IDLE" /\ net.incl = "NONE" /\ sec_cb = "NONE" /\ net.tmr = "none" /\ late = {} /\ net.ni = "IDLE"
      /\ ~ nexting /\ net.rp = "IDLE" /\ chip = NoChip /\ cbs = <<>>
  BY <1>1 DEF Resting, ChipFree, SecFree, TmrFree, JobFree, RpFree, NuFree
<1>3. PICK n \in {[net EXCEPT !.nu = "TOPOLOGY"]} \cup Neighbors(net) \cup NodeInfos(net) :
        net' = [n EXCEPT !.curr_op = o] /\ chip' = ChipFor(n)
  BY <1>2 DEF BeginUpdate
<1>4. checked' = FALSE /\ UNCHANGED <<cbs, late, sec_cb, nexting, telling>> /\ Begun(o)
  BY DEF BeginUpdate
<1>5. NoNb \in [todo : 0 .. MaxNodes, failed : 0 .. MaxNodes, retry : 0 .. Retries]
  BY NetOpAssumption DEF NoNb
<1> DEFINE At(m) == /\ m \in NetType /\ m.rp = "IDLE" /\ m.incl = "NONE" /\ ~ m.cb_tmr /\ NbOk(m)
           Begins(m, tmr, ni, nu) == At(m) /\ m.tmr = tmr /\ m.ni = ni /\ m.nu = nu
<1>6. ASSUME n = [net EXCEPT !.nu = "TOPOLOGY"]
      PROVE  Begins(net', "none", "IDLE", "TOPOLOGY") /\ net'.curr_op = o
             /\ chip' = [op |-> o, sta |-> "network"] /\ OnChip'
  <2>1. Begins(n, "none", "IDLE", "TOPOLOGY")
    BY <1>1, <1>2, <1>6 DEF NetType, NbOk
  <2>2. Begins(net', "none", "IDLE", "TOPOLOGY") /\ net'.curr_op = o
    BY <1>1, <1>3, <2>1 DEF NetType, NbOk, WithNone
  <2>3. chip' = [op |-> o, sta |-> "network"]
    BY <1>3, <2>1 DEF ChipFor
  <2>4. OnChip'
    BY <1>2, <1>4, <2>2, <2>3 DEF OnChip, OthersFree, SecFree, TmrFree, JobFree, RpFree,
       NotifyFree, UpdateAt, ChipOps, NetOps
  <2> QED
    BY <2>2, <2>3, <2>4
<1>7. ASSUME NEW k \in 1 .. MaxNodes, n = [net EXCEPT !.nu = "NEIGHBOR", !.nb = [NoNb EXCEPT !.todo = k]]
      PROVE  Begins(net', "none", "IDLE", "NEIGHBOR") /\ net'.curr_op = o
             /\ chip' = [op |-> o, sta |-> "neighbor"] /\ OnChip'
  <2> DEFINE b == [NoNb EXCEPT !.todo = k]
  <2>1. b \in [todo : 0 .. MaxNodes, failed : 0 .. MaxNodes, retry : 0 .. Retries] /\ b.todo = k /\ b.failed = 0
    BY NetOpAssumption DEF NoNb
  <2>2. n = [net EXCEPT !.nu = "NEIGHBOR", !.nb = b]
    BY <1>7
  <2> HIDE DEF b
  <2>3. Begins(n, "none", "IDLE", "NEIGHBOR")
    <3>1. n \in NetType /\ n.nb = b /\ n.rp = "IDLE" /\ n.incl = "NONE" /\ ~ n.cb_tmr
          /\ n.tmr = "none" /\ n.ni = "IDLE" /\ n.nu = "NEIGHBOR"
      BY <1>1, <1>2, <2>1, <2>2 DEF NetType
    <3> QED
      BY <2>1, <3>1 DEF NbOk
  <2>4. Begins(net', "none", "IDLE", "NEIGHBOR") /\ net'.curr_op = o
    BY <1>1, <1>3, <2>3 DEF NetType, NbOk, WithNone
  <2>5. chip' = [op |-> o, sta |-> "neighbor"]
    BY <1>3, <2>3 DEF ChipFor
  <2>6. OnChip'
    BY <1>2, <1>4, <2>4, <2>5 DEF OnChip, OthersFree, SecFree, TmrFree, JobFree, RpFree,
       NotifyFree, UpdateAt, ChipOps, NetOps
  <2> QED
    BY <2>4, <2>5, <2>6
<1>8. ASSUME NEW k \in 1 .. MaxNodes,
             n = [Requested(net) EXCEPT !.nu = "NODE_INFO", !.nb = NoNb, !.job = Job("UPDATE", k)]
      PROVE  Begins(net', "state", "BUSY", "NODE_INFO") /\ net'.curr_op = o /\ chip' = NoChip
             /\ Interviewing'
  <2> DEFINE q == Requested(net)
  <2>1. At(q) /\ q.tmr = "state" /\ q.ni = "BUSY"
    BY <1>1, <1>2 DEF Requested, NetType, NbOk
  <2>2. Job(o, k) \in [op : WithNone(NetOps), left : 0 .. MaxNodes] /\ Job(o, k).op = o
    BY <1>1, NetOpAssumption DEF Job, WithNone
  <2>3. n = [q EXCEPT !.nu = "NODE_INFO", !.nb = NoNb, !.job = Job(o, k)]
    BY <1>8
  <2> HIDE DEF q, Job
  <2>4. Begins(n, "state", "BUSY", "NODE_INFO") /\ n.job.op = o
    BY <1>5, <2>1, <2>2, <2>3 DEF NetType, NbOk
  <2>5. Begins(net', "state", "BUSY", "NODE_INFO") /\ net'.curr_op = o /\ net'.job.op = o
    BY <1>1, <1>3, <2>4 DEF NetType, NbOk, WithNone
  <2>6. chip' = NoChip
    BY <1>2, <1>3, <2>4 DEF ChipFor
  <2>7. Interviewing'
    BY <1>2, <1>4, <2>5, <2>6 DEF Interviewing, ChipFree, SecFree, RpFree, NotifyFree, Asked, Asks, Waits
  <2> QED
    BY <2>5, <2>6, <2>7
<1>9. /\ net' \in NetType /\ net'.curr_op = o /\ NbOk(net') /\ InOneStage'
      /\ chip' \in {NoChip, [op |-> o, sta |-> "network"], [op |-> o, sta |-> "neighbor"]}
  <2>1. CASE n = [net EXCEPT !.nu = "TOPOLOGY"]
    BY <1>6, <2>1 DEF InOneStage
  <2>2. CASE n \in Neighbors(net)
    <3>1. PICK k \in 1 .. MaxNodes : n = [net EXCEPT !.nu = "NEIGHBOR", !.nb = [NoNb EXCEPT !.todo = k]]
      BY <2>2 DEF Neighbors
    <3> QED
      BY <1>7, <3>1 DEF InOneStage
  <2>3. CASE n \in NodeInfos(net)
    <3>1. PICK k \in 1 .. MaxNodes :
            n = [Requested(net) EXCEPT !.nu = "NODE_INFO", !.nb = NoNb, !.job = Job("UPDATE", k)]
      BY <1>2, <2>3 DEF NodeInfos
    <3> QED
      BY <1>8, <3>1 DEF InOneStage
  <2> QED
    BY <1>3, <2>1, <2>2, <2>3
<1>10. Accounts' /\ Counts' /\ owed' \in [WithNone(NetOps) -> Int] /\ begins' \in 0 .. MaxBegins
  BY <1>1, <1>4, <1>9, BeginsOwed DEF NetOpInv
<1>11. chip' \in ChipType
  BY <1>1, <1>9 DEF ChipType, ChipStates, WithNone, NoChip
<1>12. NetOpTypes'
  BY <1>4, <1>9, <1>10, <1>11 DEF NetOpInv, NetOpTypes
<1> QED
  BY <1>4, <1>9, <1>10, <1>12 DEF NetOpInv

LEMMA StepUserAbort ==
  ASSUME NetOpInv, Undisturbed, UserAbort
  PROVE  NetOpInv'
<1> DEFINE c == net.curr_op
<1>1. c \in Stoppable /\ c \in NetOps /\ c # "NONE" /\ net \in NetType
  BY NotNone DEF UserAbort, Undisturbed, NetOpInv, NetOpTypes, Stoppable, Adds, NetOps
<1>2. late = {} /\ ~ nexting /\ cbs = <<>> /\ sec_cb = "NONE" /\ ~ net.cb_tmr
  BY DEF UserAbort, Undisturbed, MayMeet, NoneLate, NetOpInv, NetOpTypes
<1>3. net.rp = "IDLE" /\ c # "RP_NODE" /\ c # "UPDATE"
  <2>1. c # "RP_NODE" /\ c # "UPDATE"
    BY <1>1 DEF Stoppable, Adds
  <2>2. ~ AwaitsNodeInfo
    BY <2>1 DEF AwaitsNodeInfo
  <2> QED
    BY <1>1, <2>1, <2>2, StageIs, NetFields DEF NetOpInv
<1>4. net.nu = "IDLE"
  BY <1>3, NotNone DEF NetOpInv, InOneStage, Resting, OnChip, Reported, AwaitsNodeInfo, Including, Included,
     Delayed, Interviewing, Nexting, UpdateAt, NuFree, Asked
<1>5. \/ net.curr_op \in Includes
      \/ net.curr_op \in {"INITIALIZE", "NODE_UPDATE"} /\ net.incl = "NONE"
      \/ net.ni = "IDLE" /\ net.tmr = "none" /\ net.incl = "NONE"
  <2>1. CASE c \in {"INITIALIZE", "NODE_UPDATE"}
    <3>1. ~ Including
      BY <2>1 DEF Including, Includes, Adds
    <3> QED
      BY <2>1, <3>1, StageIs DEF NetOpInv
  <2>2. CASE c = "RM_NODE"
    <3>1. c \notin Asks
      BY <2>2 DEF Asks, Includes, Adds
    <3>2. OnChip \/ Reported \/ Resting
      BY <2>2, <3>1, NotNone DEF NetOpInv, InOneStage, AwaitsNodeInfo, Including, Included,
         Delayed, Interviewing, Nexting
    <3> QED
      BY <3>2 DEF OnChip, Reported, Resting, OthersFree, SecFree, TmrFree, JobFree
  <2> QED
    BY <1>1, <2>1, <2>2 DEF Stoppable, Includes
<1>6. /\ net' \in NetType /\ net'.curr_op = "NONE" /\ net'.ni = "IDLE" /\ net'.tmr = "none"
      /\ net'.incl = "NONE" /\ net'.rp = "IDLE" /\ net'.nu = "IDLE" /\ ~ net'.cb_tmr
  <2>1. net' = AbortCurr(net)
    BY DEF UserAbort
  <2> QED
    BY <1>1, <1>2, <1>3, <1>4, <1>5, <2>1, Leaves
<1>7. chip' = NoChip
  <2>1. chip' = ChipStopped(c)
    BY DEF UserAbort
  <2>2. CASE c \in {"INITIALIZE", "NODE_UPDATE"}
    <3>1. ~ OnChip
      BY <2>2 DEF OnChip, ChipOps
    <3>2. chip = NoChip
      BY <3>1, StageIs DEF NetOpInv
    <3> QED
      BY <2>1, <3>2 DEF ChipStopped
  <2>3. CASE c \notin {"INITIALIZE", "NODE_UPDATE"}
    BY <1>1, <2>1, <2>3 DEF ChipStopped, Stoppable
  <2> QED
    BY <2>2, <2>3
<1>8. UNCHANGED <<cbs, late, sec_cb, nexting, checked, telling, begins>> /\ owed' = [owed EXCEPT ![c] = @ - 1]
  BY DEF UserAbort
<1>9. Resting'
  BY <1>2, <1>6, <1>7, <1>8 DEF Resting, ChipFree, SecFree, TmrFree, JobFree, RpFree, NuFree
<1>10. NetOps \subseteq WithNone(NetOps) /\ "NONE" \in WithNone(NetOps)
  BY DEF WithNone
<1>11. owed' \in [WithNone(NetOps) -> Int]
       /\ \A p \in WithNone(NetOps) : owed'[p] = IF p = c THEN owed[p] - 1 ELSE owed[p]
  <2>1. owed \in [WithNone(NetOps) -> Int]
    BY DEF NetOpInv, NetOpTypes
  <2> HIDE DEF c
  <2> QED
    BY <1>1, <1>8, <1>10, <2>1
<1>12. ASSUME NEW p \in NetOps PROVE Account(p)' /\ owed'[p] <= begins' + 1
  <2>1. owed[p] = (IF c = p THEN 1 ELSE 0) + Telling(p) /\ owed[p] <= begins + 1
    BY DEF NetOpInv, Accounts, Account, Counts
  <2>2. Telling(p) \in Nat /\ begins \in Nat
    BY BagFields DEF NetOpInv, NetOpTypes, Telling
  <2>3. Telling(p)' = Telling(p)
    BY <1>8 DEF Telling
  <2> HIDE DEF c
  <2>4. owed'[p] = Telling(p) /\ owed'[p] <= begins' + 1
    BY <1>8, <1>10, <1>11, <2>1, <2>2
  <2>5. net'.curr_op # p
    BY <1>6, NotNone
  <2> QED
    BY <2>2, <2>3, <2>4, <2>5 DEF Account
<1>13. Counts'
  <2>1. owed'["NONE"] = 0
    BY <1>1, <1>10, <1>11 DEF NetOpInv, Counts
  <2> QED
    BY <1>6, <1>12, <2>1 DEF Counts
<1>14. NetOpTypes'
  <2>1. NoChip \in ChipType
    BY DEF NoChip, ChipType, ChipStates, WithNone
  <2> QED
    BY <1>6, <1>7, <1>8, <1>11, <2>1 DEF NetOpInv, NetOpTypes
<1> QED
  BY <1>6, <1>8, <1>9, <1>12, <1>13, <1>14 DEF NetOpInv, InOneStage, Accounts

LEMMA StepChipReports ==
  ASSUME NetOpInv, Undisturbed, NEW ok \in BOOLEAN, ChipReports(ok)
  PROVE  NetOpInv'
<1> DEFINE rep == [op |-> chip.op, ok |-> ok, of |-> chip.sta]
<1>1. OnChip /\ chip \in ChipType /\ chip.op \in NetOps
  BY StageIs, NotNone DEF NetOpInv, NetOpTypes, ChipReports, OnChip
<1>2. rep \in ReportType
  BY <1>1 DEF ReportType, ChipType
<1>3. cbs' = Append(cbs, rep) /\ cbs = <<>> /\ chip' = NoChip
  BY <1>1 DEF ChipReports, OnChip
<1>4. UNCHANGED <<net, late, sec_cb, nexting, checked, telling, owed, begins>>
  BY DEF ChipReports
<1>5. chip.op \in {"MIGRATE", "MIGRATE_SUC"} => ok
  BY DEF ChipReports, Undisturbed
<1> HIDE DEF rep
<1>6. cbs' \in Seq(ReportType) /\ Len(cbs') = 1 /\ cbs'[1] = rep
  BY <1>2, <1>3
<1>7. rep.op = chip.op /\ rep.ok = ok /\ rep.of = chip.sta
  BY DEF rep
<1>8. Reported'
  BY <1>1, <1>3, <1>4, <1>5, <1>6, <1>7 DEF OnChip, Reported, OthersFree, SecFree, TmrFree, JobFree, RpFree,
     NotifyFree, UpdateAt, NuFree
<1>9. NetOpTypes'
  <2>1. NoChip \in ChipType
    BY DEF NoChip, ChipType, ChipStates, WithNone
  <2> QED
    BY <1>3, <1>4, <1>6, <2>1 DEF NetOpInv, NetOpTypes
<1>10. Counts' /\ Accounts'
  BY <1>4 DEF NetOpInv, Counts, Accounts, Account, Telling, Copies
<1> QED
  BY <1>4, <1>8, <1>9, <1>10 DEF NetOpInv, InOneStage

\* A handler, with nothing else at work
LEMMA StepTakes ==
  ASSUME NetOpInv, NEW by \in {"cb", "tmr"}, NEW results, Takes(by, results), \A r \in results : Somewhere(r),
         cbs' = <<>>, sec_cb' = "NONE", late' = {}, nexting' = FALSE, UNCHANGED <<checked, owed, begins>>,
         net.curr_op \in NetOps, net.tmr = "none" \/ (net.curr_op = "RP_NODE" /\ net.tmr = "rp")
  PROVE  NetOpInv'
<1>1. \A r \in results : Fits(r)
  BY SomewhereFits
<1>2. /\ \E r \in results : net' = r.net /\ chip' = r.chip /\ Fits(r)
      /\ net' \in NetType /\ chip' \in ChipType /\ IsABag(telling') /\ BagToSet(telling') \subseteq EndType
      /\ Counts' /\ Accounts'
  BY <1>1, TakesTells DEF NetOpInv
<1>3. InOneStage'
  BY <1>2, NotNone, StageReached
<1>4. ~ checked'
  BY NotNone DEF NetOpInv
<1>5. NetOpTypes'
  <2>1. cbs' \in Seq(ReportType)
    OBVIOUS
  <2> QED
    BY <1>2, <2>1 DEF NetOpInv, NetOpTypes, WithNone
<1> QED
  BY <1>2, <1>3, <1>4, <1>5 DEF NetOpInv

\* The same, of a handler that leaves no choice
LEMMA StepTakesOne ==
  ASSUME NetOpInv, NEW by \in {"cb", "tmr"}, NEW r, Takes(by, {r}), Somewhere(r),
         cbs' = <<>>, sec_cb' = "NONE", late' = {}, nexting' = FALSE, UNCHANGED <<checked, owed, begins>>,
         net.curr_op \in NetOps, net.tmr = "none"
  PROVE  NetOpInv'
<1> DEFINE results == {r}
<1>1. \A x \in results : Somewhere(x)
  OBVIOUS
<1>2. Takes(by, results)
  OBVIOUS
<1> HIDE DEF results
<1> QED
  BY <1>1, <1>2, StepTakes

LEMMA StepCbThrd ==
  ASSUME NetOpInv, Undisturbed, CbThrd
  PROVE  NetOpInv'
<1>1. Reported
  BY StageIs DEF NetOpInv, CbThrd
<1>2. late = {} /\ sec_cb = "NONE" /\ nexting = FALSE /\ net.tmr = "none"
  BY <1>1 DEF Reported, OthersFree, SecFree, TmrFree, JobFree, NetOpInv, NetOpTypes
<1>3. Len(cbs) = 1 /\ net.curr_op \in NetOps /\ cbs \in Seq(ReportType)
  BY <1>1, NotNone DEF Reported, NetOpInv, NetOpTypes
<1>4. Head(cbs) = cbs[1] /\ Tail(cbs) = <<>>
  <2>1. cbs # <<>>
    BY DEF CbThrd
  <2>2. Tail(cbs) \in Seq(ReportType) /\ Len(Tail(cbs)) = 0
    BY <1>3, <2>1, HeadTailProperties
  <2>3. Head(cbs) = cbs[1]
    BY <1>3, <2>1
  <2> QED
    BY <2>2, <2>3, EmptySeq
<1>5. Takes("cb", Handled(net, cbs[1])) /\ cbs' = <<>>
      /\ UNCHANGED <<late, sec_cb, nexting, checked, owed, begins>>
  BY <1>4 DEF CbThrd
<1>6. \A r \in Handled(net, cbs[1]) : Somewhere(r)
  BY <1>1, HandledTakes DEF NetOpInv
<1> QED
  BY <1>2, <1>3, <1>5, <1>6, StepTakes

LEMMA StepNodeInfoFrame ==
  ASSUME NetOpInv, Undisturbed, NodeInfoFrame
  PROVE  NetOpInv'
<1>1. AwaitsNodeInfo /\ late = {}
  BY StageIs DEF NetOpInv, NodeInfoFrame, NoneLate, Undisturbed
<1>2. /\ cbs = <<>> /\ sec_cb = "NONE" /\ nexting = FALSE /\ net.tmr = "rp" /\ net.curr_op = "RP_NODE"
      /\ net.curr_op \in NetOps
  BY <1>1 DEF AwaitsNodeInfo, ChipFree, SecFree, JobFree, NetOpInv, NetOpTypes, Waits, NetOps
<1>3. Takes("cb", SecIncl([net EXCEPT !.rp = "IDLE"], "RP_NODE"))
      /\ UNCHANGED <<cbs, late, sec_cb, nexting, checked, owed, begins>>
  BY DEF NodeInfoFrame
<1>4. \A r \in SecIncl([net EXCEPT !.rp = "IDLE"], "RP_NODE") : Somewhere(r)
  BY <1>1, NodeInfoFrameTakes DEF NetOpInv
<1> QED
  BY <1>1, <1>2, <1>3, <1>4, StepTakes

LEMMA StepSecEnds ==
  ASSUME NetOpInv, SecEnds
  PROVE  NetOpInv'
<1>1. Including
  BY StageIs DEF NetOpInv, SecEnds
<1>2. net' = [net EXCEPT !.incl = "NONE"] /\ sec_cb' = net.incl /\ net \in NetType
      /\ UNCHANGED <<chip, cbs, late, nexting, checked, telling, owed, begins>>
  BY DEF SecEnds, NetOpInv, NetOpTypes
<1>3. /\ net' \in NetType /\ net'.incl = "NONE" /\ net'.curr_op = net.curr_op /\ net'.ni = net.ni
      /\ net'.tmr = net.tmr /\ net'.rp = net.rp /\ net'.nu = net.nu /\ net'.nb = net.nb /\ net'.cb_tmr = net.cb_tmr
  BY <1>2 DEF NetType, WithNone
<1>4. Included'
  BY <1>1, <1>2, <1>3 DEF Including, Included, ChipFree, JobFree, RpFree, NuFree, NotifyFree, TmrLeft, TmrFree, Waits
<1>5. NetOpTypes' /\ Counts' /\ Accounts'
  <2>1. sec_cb' \in WithNone(NetOps)
    BY <1>2, NetFields
  <2> QED
    BY <1>2, <1>3, <2>1 DEF NetOpInv, NetOpTypes, Counts, Accounts, Account, Telling, Copies
<1> QED
  BY <1>2, <1>3, <1>4, <1>5 DEF NetOpInv, InOneStage

LEMMA StepSecCb ==
  ASSUME NetOpInv, Undisturbed, SecCb
  PROVE  NetOpInv'
<1>1. Included /\ late = {}
  BY StageIs DEF NetOpInv, SecCb, NoneLate, Undisturbed
<1>2. /\ cbs = <<>> /\ nexting = FALSE /\ net.curr_op \in NetOps
      /\ net.tmr = "none" \/ (net.curr_op = "RP_NODE" /\ net.tmr = "rp")
  BY <1>1, NotNone DEF Included, ChipFree, JobFree, NetOpInv, NetOpTypes, TmrLeft, TmrFree, Waits
<1> DEFINE results == IF sec_cb = "INITIATE" THEN InitiateNiGet(net) ELSE {AddNiGet(net, Job(sec_cb, 1))}
<1>3. Takes("tmr", results) /\ sec_cb' = "NONE" /\ UNCHANGED <<cbs, late, nexting, checked, owed, begins>>
  BY DEF SecCb
<1>4. \A r \in results : Somewhere(r)
  BY <1>1, SecCbTakes DEF NetOpInv
<1> HIDE DEF results
<1> QED
  BY <1>1, <1>2, <1>3, <1>4, StepTakes

LEMMA StepInterviewed ==
  ASSUME NetOpInv, Undisturbed, Interviewed
  PROVE  NetOpInv'
<1>1. Interviewing /\ late = {} /\ net \in NetType
  BY StageIs DEF NetOpInv, NetOpTypes, Interviewed, NoneLate, Undisturbed
<1>2. nexting' = TRUE /\ UNCHANGED <<chip, cbs, late, sec_cb, checked, telling, owed, begins>>
  BY DEF Interviewed, env_vars
<1>3. /\ net' \in NetType /\ net'.incl = net.incl /\ net'.curr_op = net.curr_op /\ net'.ni = net.ni
      /\ net'.tmr = "none" /\ net'.rp = net.rp /\ net'.nu = net.nu /\ net'.nb = net.nb
      /\ net'.cb_tmr = net.cb_tmr /\ net'.job.op = net.job.op
  <2> DEFINE k == IF net.job.left = 0 THEN 0 ELSE net.job.left - 1
  <2>1. net' = [net EXCEPT !.tmr = "none", !.job.left = k]
    BY DEF Interviewed, Stepped
  <2>2. k \in 0 .. MaxNodes
    BY <1>1, NetFields, NetOpAssumption
  <2> HIDE DEF k
  <2> QED
    BY <1>1, <2>1, <2>2 DEF NetType
<1>4. Nexting'
  BY <1>1, <1>2, <1>3 DEF Interviewing, Nexting, ChipFree, SecFree, TmrFree, RpFree, NotifyFree, Asked, NuFree
<1>5. NetOpTypes' /\ Counts' /\ Accounts'
  BY <1>2, <1>3 DEF NetOpInv, NetOpTypes, Counts, Accounts, Account, Telling, Copies
<1> QED
  BY <1>2, <1>3, <1>4, <1>5 DEF NetOpInv, InOneStage

LEMMA StepSmNext ==
  ASSUME NetOpInv, Undisturbed, SmNext
  PROVE  NetOpInv'
<1>1. Nexting
  BY StageIs DEF NetOpInv, SmNext
<1>2. cbs = <<>> /\ late = {} /\ sec_cb = "NONE" /\ net.curr_op \in NetOps /\ net.tmr = "none"
  BY <1>1, NotNone DEF Nexting, ChipFree, SecFree, TmrFree
<1> DEFINE results == {JobDone(net)} \cup {GoesOn(Requested(net)) : k \in {net.job.left} \ {0}}
<1>3. Takes("tmr", results) /\ nexting' = FALSE /\ UNCHANGED <<cbs, late, sec_cb, checked, owed, begins>>
  BY DEF SmNext
<1>4. \A r \in results : Somewhere(r)
  BY <1>1, SmNextTakes DEF NetOpInv
<1> HIDE DEF results
<1> QED
  BY <1>2, <1>3, <1>4, StepTakes

LEMMA StepTmrExpires ==
  ASSUME NetOpInv, TmrExpires
  PROVE  NetOpInv'
<1> DEFINE k == net.tmr
<1>1. /\ k # "none" /\ k \in Timers /\ net \in NetType
      /\ \/ AwaitsNodeInfo \/ Delayed \/ Interviewing
         \/ (Including \/ Included) /\ net.curr_op = "RP_NODE" /\ Waits("rp")
  BY StageIs, NetFields DEF NetOpInv, NetOpTypes, TmrExpires
<1>2. Waits(k) /\ late = {}
  BY <1>1 DEF AwaitsNodeInfo, Delayed, Interviewing, Waits
<1>3. late' = {k} /\ UNCHANGED <<chip, cbs, sec_cb, nexting, checked, telling, owed, begins>>
  BY <1>2 DEF TmrExpires
<1>4. /\ net' \in NetType /\ net'.incl = net.incl /\ net'.curr_op = net.curr_op /\ net'.ni = net.ni
      /\ net'.tmr = "none" /\ net'.rp = net.rp /\ net'.nu = net.nu /\ net'.nb = net.nb
      /\ net'.cb_tmr = net.cb_tmr /\ net'.job = net.job
  BY <1>1 DEF TmrExpires, NetType
<1> USE DEF ChipFree, SecFree, JobFree, RpFree, NuFree, NotifyFree, Waits
<1>5. InOneStage'
  <2>1. CASE AwaitsNodeInfo
    <3>1. AwaitsNodeInfo'
      BY <1>1, <1>2, <1>3, <1>4, <2>1 DEF AwaitsNodeInfo
    <3> QED
      BY <3>1 DEF InOneStage
  <2>2. CASE Delayed
    <3>1. Delayed'
      BY <1>1, <1>2, <1>3, <1>4, <2>2 DEF Delayed
    <3> QED
      BY <3>1 DEF InOneStage
  <2>3. CASE Interviewing
    <3>1. Interviewing'
      BY <1>1, <1>2, <1>3, <1>4, <2>3 DEF Interviewing, Asked
    <3> QED
      BY <3>1 DEF InOneStage
  <2>4. CASE Including /\ net.curr_op = "RP_NODE" /\ Waits("rp")
    <3>1. Including'
      BY <1>1, <1>2, <1>3, <1>4, <2>4 DEF Including, TmrLeft
    <3> QED
      BY <3>1 DEF InOneStage
  <2>5. CASE Included /\ net.curr_op = "RP_NODE" /\ Waits("rp")
    <3>1. Included'
      BY <1>1, <1>2, <1>3, <1>4, <2>5 DEF Included, TmrLeft
    <3> QED
      BY <3>1 DEF InOneStage
  <2> QED
    BY <1>1, <2>1, <2>2, <2>3, <2>4, <2>5
<1> HIDE DEF k
<1>6. NetOpTypes' /\ Counts' /\ Accounts'
  BY <1>1, <1>3, <1>4 DEF NetOpInv, NetOpTypes, Counts, Accounts, Account, Telling, Copies
<1> QED
  BY <1>3, <1>4, <1>5, <1>6 DEF NetOpInv

LEMMA StepTmrLate ==
  ASSUME NetOpInv, NEW k \in Timers, TmrLate(k)
  PROVE  NetOpInv'
<1> DEFINE n == [net EXCEPT !.tmr = "none"]
           free == [n EXCEPT !.job.left = 0]
<1>1. /\ late # {} /\ net \in NetType /\ k \in late
      /\ \/ AwaitsNodeInfo \/ Delayed \/ Interviewing
         \/ (Including \/ Included) /\ net.curr_op = "RP_NODE" /\ Waits("rp")
  BY StageIs DEF NetOpInv, NetOpTypes, TmrLate
<1>2. net.tmr = "none" /\ late = {k} /\ chip = NoChip /\ cbs = <<>>
  BY <1>1 DEF AwaitsNodeInfo, Delayed, Interviewing, Including, Included, Waits, ChipFree
<1>3. late' = {} /\ UNCHANGED <<cbs, sec_cb, checked, owed, begins>> /\ TmrCb(k)
  BY <1>2 DEF TmrLate
<1>4. n = net
  BY <1>1, <1>2 DEF NetType
<1>5. /\ free \in NetType /\ free.curr_op = net.curr_op /\ free.ni = net.ni /\ free.tmr = "none" /\ free.rp = net.rp
      /\ free.incl = net.incl /\ free.nu = net.nu /\ free.nb = net.nb /\ free.cb_tmr = net.cb_tmr
      /\ free.job.op = net.job.op
  <2>1. free = [net EXCEPT !.job.left = 0]
    BY <1>4
  <2> QED
    BY <1>1, <1>2, <2>1, NetOpAssumption DEF NetType
<1>6. net.curr_op \in NetOps
  BY <1>1, NotNone DEF AwaitsNodeInfo, Delayed, Interviewing, Including, Included, NetOps
<1> HIDE DEF n, free
<1>7. CASE AwaitsNodeInfo
  <2> DEFINE m == [n EXCEPT !.rp = "IDLE"]
             r == Ends(m, "RP_NODE")
  <2>1. /\ k = "rp" /\ sec_cb = "NONE" /\ nexting = FALSE /\ net.rp = "GET" /\ net.curr_op = "RP_NODE"
        /\ net.nu = "IDLE" /\ ~ net.cb_tmr
    BY <1>2, <1>7 DEF AwaitsNodeInfo, Waits, SecFree, JobFree, NuFree, NotifyFree, NetOpInv, NetOpTypes
  <2>2. Takes("tmr", {r}) /\ nexting' = FALSE
    BY <1>3, <1>4, <2>1 DEF TmrCb, n
  <2>3. m \in NetType /\ m.curr_op = "RP_NODE" /\ m.rp = "IDLE" /\ m.nu = "IDLE" /\ ~ m.cb_tmr
    BY <1>1, <1>4, <2>1 DEF NetType
  <2> HIDE DEF m
  <2>4. Somewhere(r)
    BY <1>2, <2>1, <2>3, EndsLeave DEF Includes, Somewhere
  <2> HIDE DEF r
  <2> QED
    BY <1>2, <1>3, <1>6, <2>1, <2>2, <2>4, StepTakesOne
<1>8. CASE Delayed
  <2>1. /\ k = "delay" /\ sec_cb = "NONE" /\ nexting = FALSE /\ net.ni = "IDLE" /\ net.curr_op \in Asks
        /\ net.rp = "IDLE" /\ net.incl = "NONE" /\ ~ net.cb_tmr /\ net.nu = "IDLE" /\ net.job.op = net.curr_op
        /\ net.curr_op # "UPDATE"
    BY <1>2, <1>8, NotNone DEF Delayed, Waits, SecFree, JobFree, RpFree, NuFree, NotifyFree, NetOpInv, NetOpTypes,
       Includes, Adds
  <2> DEFINE r == GoesOn(Requested(n))
             s == GoesOn(free)
  <2>2. \/ Takes("tmr", {r}) /\ nexting' = FALSE
        \/ Takes("tmr", {s}) /\ nexting' = TRUE
    BY <1>3, <1>4, <2>1 DEF TmrCb, n, free
  <2>3. Somewhere(r)
    BY <1>1, <1>2, <1>4, <2>1, RequestTakes
  <2>4. s.net = free /\ s.tell = "NONE" /\ s.chip = NoChip
    BY <1>2, ResultFields DEF GoesOn
  <2> HIDE DEF r, s
  <2>5. CASE Takes("tmr", {r}) /\ nexting' = FALSE
    BY <1>2, <1>3, <1>6, <2>1, <2>3, <2>5, StepTakesOne
  <2>6. CASE Takes("tmr", {s}) /\ nexting' = TRUE
    <3>1. Fits(s)
      <4>1. NoChip \in ChipType
        BY DEF NoChip, ChipType, ChipStates, WithNone
      <4> QED
        BY <1>5, <2>1, <2>4, <4>1 DEF Fits, NbOk, Goes
    <3>2. /\ net' = s.net /\ chip' = s.chip
          /\ net' \in NetType /\ chip' \in ChipType /\ IsABag(telling') /\ BagToSet(telling') \subseteq EndType
          /\ Counts' /\ Accounts'
      BY <1>3, <1>6, <2>6, <3>1, TakesTells DEF NetOpInv
    <3>3. Nexting'
      BY <1>2, <1>3, <1>5, <2>1, <2>4, <2>6, <3>2 DEF Nexting, ChipFree, SecFree, TmrFree, RpFree, NotifyFree,
         Asked, NuFree
    <3>4. NetOpTypes'
      BY <1>3, <2>6, <3>2 DEF NetOpInv, NetOpTypes
    <3> QED
      BY <1>3, <1>6, <3>2, <3>3, <3>4, NotNone DEF NetOpInv, InOneStage
  <2> QED
    BY <2>2, <2>5, <2>6
<1>9. CASE Interviewing
  <2>1. /\ k = "state" /\ sec_cb = "NONE" /\ nexting = FALSE /\ net.ni = "BUSY" /\ net.curr_op \in Asks
        /\ net.rp = "IDLE" /\ net.incl = "NONE" /\ ~ net.cb_tmr /\ net.job.op = net.curr_op
        /\ net.nu = IF net.curr_op = "UPDATE" THEN "NODE_INFO" ELSE "IDLE"
    BY <1>2, <1>9 DEF Interviewing, Waits, SecFree, RpFree, NuFree, NotifyFree, Asked, NetOpInv, NetOpTypes
  <2> DEFINE r == GoesOn(Requested(n))
  <2>2. Takes("tmr", {r}) /\ nexting' = FALSE
    BY <1>3, <1>4, <2>1 DEF TmrCb, n
  <2>3. Somewhere(r)
    BY <1>1, <1>2, <1>4, <2>1, RequestTakes
  <2> HIDE DEF r
  <2> QED
    BY <1>2, <1>3, <1>6, <2>1, <2>2, <2>3, StepTakesOne
<1>10. CASE (Including \/ Included) /\ net.curr_op = "RP_NODE" /\ Waits("rp")
  <2>1. /\ k = "rp" /\ nexting = FALSE /\ net.rp = "IDLE" /\ net.nu = "IDLE"
    BY <1>2, <1>10 DEF Including, Included, Waits, JobFree, RpFree, NuFree, NetOpInv, NetOpTypes
  <2> DEFINE s == GoesOn(n)
  <2>2. Takes("tmr", {s}) /\ nexting' = FALSE
    BY <1>3, <1>4, <2>1 DEF TmrCb, n
  <2>3. s.net = net /\ s.tell = "NONE" /\ s.chip = NoChip
    BY <1>2, <1>4, ResultFields DEF GoesOn
  <2> HIDE DEF s
  <2>4. Fits(s)
    <3>1. NoChip \in ChipType
      BY DEF NoChip, ChipType, ChipStates, WithNone
    <3> QED
      BY <1>1, <2>1, <2>3, <3>1 DEF Fits, NbOk, Goes
  <2>5. /\ net' = net /\ chip' = NoChip /\ NoChip \in ChipType /\ IsABag(telling')
        /\ BagToSet(telling') \subseteq EndType /\ Counts' /\ Accounts'
    <3>1. /\ net' = s.net /\ chip' = s.chip /\ chip' \in ChipType /\ IsABag(telling')
          /\ BagToSet(telling') \subseteq EndType /\ Counts' /\ Accounts'
      BY <1>3, <1>6, <2>2, <2>4, TakesTells DEF NetOpInv
    <3> QED
      BY <2>3, <3>1
  <2>6. InOneStage'
    <3>1. CASE Including
      <4>1. Including'
        BY <1>2, <1>3, <2>2, <2>5, <3>1 DEF Including, ChipFree, JobFree, RpFree, NuFree, NotifyFree, TmrLeft, TmrFree
      <4> QED
        BY <4>1 DEF InOneStage
    <3>2. CASE Included
      <4>1. Included'
        BY <1>2, <1>3, <2>2, <2>5, <3>2 DEF Included, ChipFree, JobFree, RpFree, NuFree, NotifyFree, TmrLeft, TmrFree
      <4> QED
        BY <4>1 DEF InOneStage
    <3> QED
      BY <1>10, <3>1, <3>2
  <2>7. NetOpTypes'
    BY <1>3, <2>2, <2>5 DEF NetOpInv, NetOpTypes
  <2> QED
    BY <1>3, <2>5, <2>6, <2>7 DEF NetOpInv
<1> QED
  BY <1>1, <1>7, <1>8, <1>9, <1>10

LEMMA StepNotifyCb ==
  ASSUME NetOpInv, NotifyCb
  PROVE  NetOpInv'
<1> DEFINE m == [net EXCEPT !.cb_tmr = FALSE, !.curr_op = "NONE"]
           r == Result(m, net.curr_op, chip)
<1>1. Resting /\ net.curr_op = "INITIALIZE" /\ net \in NetType /\ net.curr_op \in NetOps
  BY StageIs DEF NetOpInv, NetOpTypes, NotifyCb, NetOps
<1>2. Takes("tmr", {r}) /\ UNCHANGED <<cbs, late, sec_cb, nexting, checked, owed, begins>>
  BY DEF NotifyCb
<1>3. /\ m \in NetType /\ m.curr_op = "NONE" /\ ~ m.cb_tmr /\ m.ni = net.ni /\ m.tmr = net.tmr /\ m.rp = net.rp
      /\ m.incl = net.incl /\ m.nu = net.nu
  BY <1>1 DEF NetType, WithNone
<1> HIDE DEF m
<1>4. r.net = m /\ r.tell = net.curr_op /\ r.chip = chip
  BY ResultFields
<1> HIDE DEF r
<1>5. Fits(r)
  BY <1>1, <1>3, <1>4 DEF Fits, NbOk, Resting, NuFree, NetOpInv, NetOpTypes
<1>6. /\ net' = m /\ chip' = chip /\ chip' \in ChipType /\ IsABag(telling')
      /\ BagToSet(telling') \subseteq EndType /\ Counts' /\ Accounts'
  <2> DEFINE results == {r}
  <2>1. Takes("tmr", results) /\ \A x \in results : Fits(x)
    BY <1>2, <1>5
  <2>2. \A x \in results : x = r
    OBVIOUS
  <2> HIDE DEF results
  <2>3. /\ \E x \in results : net' = x.net /\ chip' = x.chip /\ Fits(x)
        /\ chip' \in ChipType /\ IsABag(telling') /\ BagToSet(telling') \subseteq EndType /\ Counts' /\ Accounts'
    BY <1>1, <1>2, <2>1, TakesTells DEF NetOpInv
  <2> QED
    BY <1>4, <2>2, <2>3
<1>7. Resting'
  BY <1>1, <1>2, <1>3, <1>6 DEF Resting, ChipFree, SecFree, TmrFree, JobFree, RpFree, NuFree
<1>8. NetOpTypes'
  BY <1>2, <1>3, <1>6 DEF NetOpInv, NetOpTypes
<1> QED
  BY <1>2, <1>3, <1>6, <1>7, <1>8 DEF NetOpInv, InOneStage

\* What a call of init.notify changes
LEMMA ToldTells ==
  ASSUME NetOpTypes, Accounts, NEW t \in BagToSet(telling), Told(t)
  PROVE  /\ t \in EndType /\ t.op \in NetOps
         /\ owed' = [owed EXCEPT ![t.op] = @ - 1] /\ owed \in [WithNone(NetOps) -> Int]
         /\ \A o \in NetOps : Telling(o) \in Nat /\ Telling(o)' = Telling(o) - (IF o = t.op THEN 1 ELSE 0)
         /\ IsABag(telling') /\ BagToSet(telling') \subseteq EndType
<1>1. IsABag(telling) /\ BagToSet(telling) \subseteq EndType /\ owed \in [WithNone(NetOps) -> Int]
  BY DEF NetOpTypes
<1>2. t \in EndType /\ t.op \in NetOps /\ t.op # "CURR"
  BY <1>1 DEF EndType, NetOps
<1>3. telling' = telling (-) SetToBag({t}) /\ owed' = [owed EXCEPT ![t.op] = @ - 1]
  BY <1>2 DEF Told
<1>4. /\ IsABag(telling') /\ BagToSet(telling') \subseteq BagToSet(telling)
      /\ \A e : Copies(e, telling') = Copies(e, telling) - (IF e = t THEN 1 ELSE 0)
  BY <1>1, <1>3, BagTake
<1>5. ASSUME NEW o \in NetOps
      PROVE  Telling(o) \in Nat /\ Telling(o)' = Telling(o) - (IF o = t.op THEN 1 ELSE 0)
  <2> DEFINE c == [by |-> "cb", op |-> o]
             m == [by |-> "tmr", op |-> o]
  <2>1. c # m /\ (o # t.op => c # t /\ m # t) /\ (o = t.op => t \in {c, m})
    BY <1>2 DEF EndType
  <2>2. Copies(c, telling) \in Nat /\ Copies(m, telling) \in Nat
    BY <1>1, BagFields
  <2>3. Telling(o) = Copies(c, telling) + Copies(m, telling)
        /\ Telling(o)' = Copies(c, telling') + Copies(m, telling')
    BY DEF Telling, Copies
  <2> HIDE DEF c, m
  <2> QED
    BY <1>4, <2>1, <2>2, <2>3
<1> QED
  BY <1>1, <1>2, <1>3, <1>4, <1>5

LEMMA StepTold ==
  ASSUME NetOpInv, NEW t \in BagToSet(telling), Told(t)
  PROVE  NetOpInv'
<1>1. UNCHANGED <<net, chip, cbs, late, sec_cb, checked, nexting, begins>>
  BY DEF Told, env_vars
<1>2. /\ t.op \in NetOps
      /\ owed' = [owed EXCEPT ![t.op] = @ - 1] /\ owed \in [WithNone(NetOps) -> Int]
      /\ \A o \in NetOps : Telling(o) \in Nat /\ Telling(o)' = Telling(o) - (IF o = t.op THEN 1 ELSE 0)
      /\ IsABag(telling') /\ BagToSet(telling') \subseteq EndType
  BY ToldTells DEF NetOpInv
<1> DEFINE p == t.op
<1>3. /\ owed' \in [WithNone(NetOps) -> Int]
      /\ \A o \in WithNone(NetOps) : owed'[o] = IF o = p THEN owed[o] - 1 ELSE owed[o]
  <2>1. p \in WithNone(NetOps)
    BY <1>2 DEF WithNone
  <2> HIDE DEF p
  <2>2. owed' = [owed EXCEPT ![p] = @ - 1]
    BY <1>2 DEF p
  <2> QED
    BY <1>2, <2>1, <2>2
<1> HIDE DEF p
<1>4. NetOps \subseteq WithNone(NetOps) /\ "NONE" \in WithNone(NetOps) /\ p # "NONE"
  BY <1>2, NotNone DEF WithNone, p
<1>5. ASSUME NEW o \in NetOps PROVE Account(o)' /\ owed'[o] <= begins + 1
  <2>1. owed[o] = (IF net.curr_op = o THEN 1 ELSE 0) + Telling(o) /\ owed[o] <= begins + 1 /\ begins \in Nat
    BY DEF NetOpInv, Accounts, Account, Counts, NetOpTypes
  <2>2. Telling(o) \in Nat /\ Telling(o)' = Telling(o) - (IF o = p THEN 1 ELSE 0)
    BY <1>2 DEF p
  <2>3. owed'[o] = (IF net.curr_op = o THEN 1 ELSE 0) + Telling(o)' /\ owed'[o] <= begins + 1
    BY <1>3, <1>4, <2>1, <2>2
  <2> QED
    BY <1>1, <2>3 DEF Account
<1>6. Counts'
  <2>1. owed'["NONE"] = 0
    BY <1>3, <1>4 DEF NetOpInv, Counts
  <2> QED
    BY <1>1, <1>5, <2>1 DEF NetOpInv, Counts
<1>7. InOneStage'
  BY <1>1 DEF NetOpInv, InOneStage, Resting, OnChip, Reported, AwaitsNodeInfo, Including, Included, Delayed,
     Interviewing, Nexting, OthersFree, ChipFree, SecFree, TmrFree, JobFree, RpFree, NuFree, NotifyFree,
     Asked, Waits, TmrLeft, UpdateAt
<1>8. NetOpTypes'
  BY <1>1, <1>2, <1>3 DEF NetOpInv, NetOpTypes
<1> QED
  BY <1>1, <1>5, <1>6, <1>7, <1>8 DEF NetOpInv, Accounts

---------------------------------------------------------------------------
(* The theorems.                                                           *)

LEMMA InitHolds ==
  ASSUME NetOpInit
  PROVE  NetOpInv /\ net.curr_op = "INITIALIZE"
<1> DEFINE n == [curr_op |-> "INITIALIZE", ni |-> "IDLE", job |-> NoJob, tmr |-> "none", rp |-> "IDLE",
                 incl |-> "NONE", nu |-> "IDLE", nb |-> NoNb, cb_tmr |-> FALSE]
<1>1. /\ chip = NoChip /\ cbs = <<>> /\ late = {} /\ sec_cb = "NONE" /\ nexting = FALSE /\ checked = FALSE
      /\ telling = EmptyBag /\ begins = 0 /\ net \in Loads
      /\ owed = [o \in WithNone(NetOps) |-> IF o = "INITIALIZE" THEN 1 ELSE 0]
  BY DEF NetOpInit
<1>2. "INITIALIZE" \in NetOps /\ "INITIALIZE" \in Asks
  BY DEF NetOps, Asks
<1>3. /\ n \in NetType /\ n.curr_op = "INITIALIZE" /\ n.ni = "IDLE" /\ n.tmr = "none" /\ n.rp = "IDLE"
      /\ n.incl = "NONE" /\ n.nu = "IDLE" /\ ~ n.cb_tmr
  <2>1. NoNb \in [todo : 0 .. MaxNodes, failed : 0 .. MaxNodes, retry : 0 .. Retries]
    BY NetOpAssumption DEF NoNb
  <2>2. NoJob \in [op : WithNone(NetOps), left : 0 .. MaxNodes]
    BY NetOpAssumption DEF NoJob, WithNone
  <2> HIDE DEF NoNb, NoJob
  <2> QED
    BY <1>2, <2>1, <2>2 DEF NetType, WithNone
<1>4. \/ \E k \in 1 .. MaxNodes : net = Requested([n EXCEPT !.job = Job("INITIALIZE", k)])
      \/ net = [n EXCEPT !.cb_tmr = TRUE]
      \/ net = n
  BY <1>1 DEF Loads
<1> HIDE DEF n
<1> USE DEF ChipFree, SecFree, TmrFree, JobFree, RpFree, NuFree, NotifyFree
<1>5. net \in NetType /\ net.curr_op = "INITIALIZE" /\ net.nu = "IDLE" /\ InOneStage
  <2>1. ASSUME NEW k \in 1 .. MaxNodes, net = Requested([n EXCEPT !.job = Job("INITIALIZE", k)])
        PROVE  net \in NetType /\ net.curr_op = "INITIALIZE" /\ net.nu = "IDLE" /\ InOneStage
    <3> DEFINE m == [n EXCEPT !.job = Job("INITIALIZE", k)]
    <3>1. Job("INITIALIZE", k) \in [op : WithNone(NetOps), left : 0 .. MaxNodes]
          /\ Job("INITIALIZE", k).op = "INITIALIZE"
      BY <1>2, NetOpAssumption DEF Job, WithNone
    <3>2. /\ m \in NetType /\ m.curr_op = "INITIALIZE" /\ m.rp = "IDLE"
          /\ m.incl = "NONE" /\ m.nu = "IDLE" /\ ~ m.cb_tmr /\ m.job.op = "INITIALIZE"
      <4> HIDE DEF Job
      <4> QED
        BY <1>3, <3>1 DEF NetType
    <3> HIDE DEF m
    <3>3. net = [m EXCEPT !.ni = "BUSY", !.tmr = "state"]
      BY <2>1 DEF Requested, m
    <3>4. /\ net \in NetType /\ net.curr_op = "INITIALIZE" /\ net.rp = "IDLE" /\ net.ni = "BUSY" /\ net.tmr = "state"
          /\ net.incl = "NONE" /\ net.nu = "IDLE" /\ ~ net.cb_tmr /\ net.job.op = "INITIALIZE"
      BY <3>2, <3>3 DEF NetType
    <3>5. Interviewing
      BY <1>1, <1>2, <3>4 DEF Interviewing, Asked, Waits
    <3> QED
      BY <3>4, <3>5 DEF InOneStage
  <2>2. CASE net = [n EXCEPT !.cb_tmr = TRUE]
    <3>1. /\ net \in NetType /\ net.curr_op = "INITIALIZE" /\ net.rp = "IDLE" /\ net.ni = "IDLE" /\ net.tmr = "none"
          /\ net.incl = "NONE" /\ net.nu = "IDLE"
      BY <1>3, <2>2 DEF NetType
    <3> QED
      BY <1>1, <3>1 DEF InOneStage, Resting
  <2>3. CASE net = n
    BY <1>1, <1>3, <2>3 DEF InOneStage, Resting
  <2> QED
    BY <1>4, <2>1, <2>2, <2>3
<1>6. IsABag(telling) /\ BagToSet(telling) \subseteq EndType /\ \A e : Copies(e, telling) = 0
  BY <1>1 DEF EmptyBag, SetToBag, IsABag, BagToSet, Copies
<1>7. NetOpTypes
  <2>1. chip \in ChipType /\ cbs \in Seq(ReportType)
    BY <1>1 DEF NoChip, ChipType, ChipStates, WithNone
  <2>2. owed \in [WithNone(NetOps) -> Int]
    BY <1>1
  <2>3. nexting \in BOOLEAN /\ checked \in BOOLEAN
    BY <1>1
  <2>4. late \subseteq Timers /\ sec_cb \in WithNone(NetOps) /\ begins \in 0 .. MaxBegins
    BY <1>1, NetOpAssumption DEF WithNone
  <2> QED
    BY <1>5, <1>6, <2>1, <2>2, <2>3, <2>4 DEF NetOpTypes
<1>8. Counts /\ Accounts
  <2>1. "NONE" \in WithNone(NetOps) /\ NetOps \subseteq WithNone(NetOps)
    BY DEF WithNone
  <2>2. \A o \in WithNone(NetOps) : owed[o] = IF o = "INITIALIZE" THEN 1 ELSE 0
    BY <1>1
  <2>3. \A o \in NetOps : Telling(o) = 0
    BY <1>6 DEF Telling
  <2> QED
    BY <1>1, <1>5, <2>1, <2>2, <2>3 DEF Counts, Accounts, Account
<1> QED
  BY <1>1, <1>5, <1>7, <1>8 DEF NetOpInv

LEMMA StepHolds ==
  ASSUME NetOpInv, Undisturbed, [NetOpNext]_net_op_vars
  PROVE  NetOpInv'
<1>1. ASSUME Add \/ Fail \/ Initiate \/ Reset \/ Migrate \/ SendNif PROVE NetOpInv'
  <2>1. PICK o \in {"ADD_NODE", "RM_NODE", "RM_FAILED_ID", "RP_NODE", "INITIATE", "RESET", "MIGRATE_SUC",
                    "MIGRATE", "SEND_NIF"} : BeginChipOp(o)
    BY <1>1 DEF Add, Fail, Initiate, Reset, Migrate, SendNif
  <2>2. o \in ChipOps \ {"UPDATE"}
    BY <2>1 DEF ChipOps, NetOps
  <2> QED
    BY <2>1, <2>2, StepBeginChipOp
<1>2. CASE UNCHANGED net_op_vars
  <2>1. UNCHANGED <<net, chip, cbs, late, sec_cb, nexting, checked, telling, owed, begins>>
    BY <1>2 DEF net_op_vars
  <2>2. InOneStage'
    BY <2>1 DEF NetOpInv, InOneStage, Resting, OnChip, Reported, AwaitsNodeInfo, Including, Included, Delayed,
       Interviewing, Nexting, OthersFree, ChipFree, SecFree, TmrFree, JobFree, RpFree, NuFree, NotifyFree,
       Asked, Waits, TmrLeft, UpdateAt
  <2> QED
    BY <2>1, <2>2 DEF NetOpInv, NetOpTypes, Counts, Accounts, Account, Telling, Copies
<1>3. ASSUME ChipStep PROVE NetOpInv'
  BY <1>3, StepChipReports DEF ChipStep
<1>4. ASSUME TmrStep PROVE NetOpInv'
  BY <1>4, StepTmrExpires, StepTmrLate DEF TmrStep, Timers
<1>5. ASSUME TellStep PROVE NetOpInv'
  BY <1>5, StepTold DEF TellStep
<1> QED
  BY <1>1, <1>2, <1>3, <1>4, <1>5, StepBeginNodeUpdate, StepUpdateCheck, StepBeginUpdate, StepUserAbort,
     StepCbThrd, StepNodeInfoFrame, StepSecEnds, StepSecCb, StepInterviewed, StepSmNext, StepNotifyCb
  DEF NetOpNext

\* An operation is at any time in one stage, and the account of its end is right: with
\* operations that zwnet_abort stops and without the calls that the findings name.
THEOREM NetOpInvHolds ==
  ASSUME Undisturbed
  PROVE  NetOpSpec => []NetOpInv
<1>1. NetOpInit => NetOpInv
  BY InitHolds
<1>2. NetOpInv /\ [NetOpNext]_net_op_vars => NetOpInv'
  BY StepHolds
<1> QED
  BY <1>1, <1>2, PTL DEF NetOpSpec

\* Whatever goes on is for the operation that curr_op names, for any number of nodes,
\* retries and operations: none runs on after its end or its abort.
THEOREM NothingRunsOn ==
  ASSUME Undisturbed
  PROVE  NetOpSpec => []RunsForCurrOp
<1>1. NetOpInv => RunsForCurrOp
  <2> SUFFICES ASSUME NetOpInv PROVE RunsForCurrOp
    OBVIOUS
  <2> USE DEF ChipFree, SecFree, TmrFree, JobFree, RpFree, NuFree, NotifyFree, NoChip
  <2>1. chip.op \in {"NONE", net.curr_op}
    BY StageIs DEF NetOpInv, OnChip
  <2>2. net.incl \in {"NONE", net.curr_op} /\ sec_cb \in {"NONE", net.curr_op}
    BY StageIs DEF NetOpInv, Including, Included
  <2>3. \A i \in 1 .. Len(cbs) : cbs[i].op = net.curr_op
    BY StageIs DEF NetOpInv, Reported
  <2>4. net.rp = "GET" => net.curr_op = "RP_NODE"
    BY StageIs DEF NetOpInv, AwaitsNodeInfo
  <2>5. net.nu # "IDLE" => net.curr_op = "UPDATE"
    BY DEF NetOpInv, InOneStage, Resting, OnChip, Reported, AwaitsNodeInfo, Including, Included, Delayed,
       Interviewing, Nexting, UpdateAt, Asked
  <2>6. net.ni = "BUSY" \/ net.tmr \in {"delay", "state"} => net.curr_op = net.job.op
    <3>1. net.ni = "BUSY" => Interviewing \/ Nexting
      BY StageIs DEF NetOpInv
    <3>2. net.tmr \in {"delay", "state"} => Delayed \/ Interviewing
      BY StageIs DEF NetOpInv, AwaitsNodeInfo, Waits
    <3> QED
      BY <3>1, <3>2 DEF Interviewing, Nexting, Delayed
  <2> QED
    BY <2>1, <2>2, <2>3, <2>4, <2>5, <2>6 DEF RunsForCurrOp
<1> QED
  BY <1>1, NetOpInvHolds, PTL

\* Every variable keeps its type, the counters of ends included: no end is told too often.
THEOREM NetOpTypesHold ==
  ASSUME Undisturbed
  PROVE  NetOpSpec => []NetOpTypeOK
<1>1. NetOpInv => NetOpTypeOK
  <2> SUFFICES ASSUME NetOpInv PROVE NetOpTypeOK
    OBVIOUS
  <2>1. owed \in [WithNone(NetOps) -> -1 .. MaxBegins + 1]
    <3>1. owed \in [WithNone(NetOps) -> Int] /\ begins \in 0 .. MaxBegins /\ MaxBegins \in Nat
      BY NetOpAssumption DEF NetOpInv, NetOpTypes
    <3>2. ASSUME NEW o \in WithNone(NetOps) PROVE owed[o] \in -1 .. MaxBegins + 1
      <4>1. CASE o \in NetOps
        <5>1. owed[o] = (IF net.curr_op = o THEN 1 ELSE 0) + Telling(o) /\ owed[o] <= begins + 1
          BY <4>1 DEF NetOpInv, Accounts, Account, Counts
        <5>2. Telling(o) \in Nat
          BY BagFields DEF Telling, NetOpInv, NetOpTypes
        <5> QED
          BY <3>1, <5>1, <5>2
      <4>2. CASE o = "NONE"
        BY <3>1, <4>2 DEF NetOpInv, Counts
      <4> QED
        BY <4>1, <4>2 DEF WithNone
    <3> QED
      BY <3>1, <3>2
  <2>2. \A i \in 1 .. Len(cbs) : cbs[i].op \in NetOps /\ cbs[i].ok \in BOOLEAN
    <3>1. cbs \in Seq(ReportType)
      BY DEF NetOpInv, NetOpTypes
    <3>2. \A i \in 1 .. Len(cbs) : cbs[i] \in ReportType
      BY <3>1
    <3> QED
      BY <3>2 DEF ReportType
  <2>3. BagToSet(telling) \subseteq [by : {"cb", "tmr"}, op : NetOps \cup {"CURR"}]
    BY DEF NetOpInv, NetOpTypes, EndType
  <2> QED
    BY <2>1, <2>2, <2>3 DEF NetOpInv, NetOpTypes, NetOpTypeOK, ChipType, ChipStates, Timers
<1> QED
  BY <1>1, NetOpInvHolds, PTL

---------------------------------------------------------------------------
(* The service.                                                            *)

Owed == [o \in NetOps |-> owed[o]]

\* A handler takes no end away that is about to be told.
LEMMA TakesKeeps ==
  ASSUME IsABag(telling), NEW by, NEW results, Takes(by, results)
  PROVE  \A e : Copies(e, telling') >= Copies(e, telling)
<1>1. PICK S : telling' = telling (+) SetToBag(S)
  BY DEF Takes
<1>2. DOMAIN telling' = DOMAIN telling \cup S
  BY <1>1 DEF (+), SetToBag
<1>3. \A e \in DOMAIN telling' : telling'[e] = Copies(e, telling) + (IF e \in S THEN 1 ELSE 0)
  BY <1>1 DEF (+), SetToBag, Copies
<1>4. \A e : Copies(e, telling) \in Nat
  BY BagFields
<1> QED
  BY <1>2, <1>3, <1>4 DEF Copies

\* A step that tells nobody, and takes no end away, leaves the operation or ends it: by the
\* account, it begins none.
LEMMA LeavesOrEnds ==
  ASSUME NetOpInv, NetOpInv', UNCHANGED owed, \A e : Copies(e, telling') >= Copies(e, telling)
  PROVE  [Service!SvcNext]_(Service!svc_vars)
<1>1. net'.curr_op \in WithNone(NetOps)
  BY NetFields DEF NetOpInv, NetOpTypes
<1>2. ASSUME NEW o \in NetOps, net'.curr_op = o, net.curr_op # o PROVE FALSE
  <2> DEFINE c == [by |-> "cb", op |-> o]
             m == [by |-> "tmr", op |-> o]
  <2>1. IsABag(telling) /\ IsABag(telling')
    BY DEF NetOpInv, NetOpTypes
  <2>2. Copies(c, telling) \in Nat /\ Copies(m, telling) \in Nat
        /\ Copies(c, telling') \in Nat /\ Copies(m, telling') \in Nat
    BY <2>1, BagFields
  <2>3. owed[o] = Telling(o) /\ owed'[o] = 1 + Telling(o)'
    <3>1. owed[o] = (IF net.curr_op = o THEN 1 ELSE 0) + Telling(o)
          /\ owed'[o] = (IF net'.curr_op = o THEN 1 ELSE 0) + Telling(o)'
      BY DEF NetOpInv, Accounts, Account
    <3>2. Telling(o) \in Nat
      BY <2>2 DEF Telling
    <3> QED
      BY <1>2, <3>1, <3>2
  <2>4. owed[o] = Copies(c, telling) + Copies(m, telling)
        /\ owed'[o] = 1 + (Copies(c, telling') + Copies(m, telling'))
    BY <2>3 DEF Telling, Copies
  <2>5. Copies(c, telling') >= Copies(c, telling) /\ Copies(m, telling') >= Copies(m, telling)
    OBVIOUS
  <2> HIDE DEF c, m
  <2> QED
    BY <2>2, <2>4, <2>5
<1>3. net'.curr_op \in {"NONE", net.curr_op}
  BY <1>1, <1>2 DEF WithNone
<1> QED
  BY <1>3 DEF Service!SvcNext, Service!End, Service!svc_vars

LEMMA BeginServes ==
  ASSUME NetOpTypes, NEW o \in NetOps, net.curr_op = "NONE", Begun(o), net'.curr_op = o
  PROVE  Service!SvcNext
<1>1. Owed' = [Owed EXCEPT ![o] = @ + 1]
  <2>1. owed' = [owed EXCEPT ![o] = @ + 1] /\ owed \in [WithNone(NetOps) -> Int]
    BY DEF Begun, NetOpTypes
  <2>2. \A p \in NetOps : owed'[p] = IF p = o THEN owed[p] + 1 ELSE owed[p]
    BY <2>1 DEF WithNone
  <2> QED
    BY <2>2 DEF Owed
<1>2. Service!Begin(o)
  BY <1>1 DEF Service!Begin, Owed
<1> QED
  BY <1>2 DEF Service!SvcNext

LEMMA AbortServes ==
  ASSUME NetOpInv, NetOpInv', Undisturbed, UserAbort
  PROVE  Service!SvcNext
<1> DEFINE c == net.curr_op
<1>1. c \in NetOps /\ c # "NONE"
  BY NotNone DEF UserAbort, Undisturbed, Stoppable, Adds, NetOps
<1>2. owed' = [owed EXCEPT ![c] = @ - 1] /\ telling' = telling /\ owed \in [WithNone(NetOps) -> Int]
  BY DEF UserAbort, NetOpInv, NetOpTypes
<1>3. net'.curr_op = "NONE"
  <2>1. net'.curr_op = IF Aborted(net, c).curr_op = c THEN "NONE" ELSE Aborted(net, c).curr_op
    <3> DEFINE a == Aborted(net, c)
    <3>1. net' = [a EXCEPT !.curr_op = IF a.curr_op = c THEN "NONE" ELSE a.curr_op]
      BY DEF UserAbort, AbortCurr, AbortedAll
    <3>2. net' \in NetType
      BY DEF NetOpInv, NetOpTypes
    <3>3. DOMAIN net' = DOMAIN a /\ "curr_op" \in DOMAIN net'
      <4> HIDE DEF a
      <4> QED
        BY <3>1, <3>2 DEF NetType
    <3> HIDE DEF a
    <3> QED
      BY <3>1, <3>3 DEF a
  <2>2. Aborted(net, c).curr_op = c
    <3>1. net \in NetType
      BY DEF NetOpInv, NetOpTypes
    <3>2. NiStop(net).curr_op = c /\ NiStop(net) \in NetType
      BY <3>1, Stops
    <3> DEFINE s == NiStop(net)
    <3>3. [s EXCEPT !.incl = "NONE"].curr_op = c /\ [s EXCEPT !.nu = "IDLE", !.nb = NoNb].curr_op = c
      <4> HIDE DEF s
      <4> QED
        BY <3>2 DEF NetType, s
    <3> QED
      BY <3>2, <3>3 DEF Aborted, NuStop
  <2> QED
    BY <2>1, <2>2
<1> HIDE DEF c
<1>4. Owed' = [Owed EXCEPT ![c] = @ - 1]
  <2>1. \A p \in NetOps : owed'[p] = IF p = c THEN owed[p] - 1 ELSE owed[p]
    BY <1>1, <1>2 DEF WithNone
  <2> QED
    BY <1>1, <2>1 DEF Owed
<1>5. Service!Abort
  BY <1>1, <1>3, <1>4 DEF Service!Abort, Owed, c
<1> QED
  BY <1>5 DEF Service!SvcNext

LEMMA TellServes ==
  ASSUME NetOpInv, NEW t \in BagToSet(telling), Told(t)
  PROVE  Service!SvcNext
<1> DEFINE o == t.op
<1>1. t \in EndType /\ o \in NetOps /\ IsABag(telling)
      /\ owed' = [owed EXCEPT ![o] = @ - 1] /\ owed \in [WithNone(NetOps) -> Int]
  BY ToldTells DEF NetOpInv, NetOpTypes
<1>2. Copies(t, telling) > 0
  BY <1>1, BagFields
<1>3. t = [by |-> "cb", op |-> o] \/ t = [by |-> "tmr", op |-> o]
  BY <1>1 DEF EndType
<1> HIDE DEF o
<1>4. Telling(o) > 0 /\ Telling(o) \in Nat
  <2>1. Copies([by |-> "cb", op |-> o], telling) \in Nat /\ Copies([by |-> "tmr", op |-> o], telling) \in Nat
    BY <1>1, BagFields
  <2> QED
    BY <1>2, <1>3, <2>1 DEF Telling
<1>5. owed[o] = (IF net.curr_op = o THEN 1 ELSE 0) + Telling(o)
  BY <1>1 DEF NetOpInv, Accounts, Account
<1>6. owed[o] > (IF net.curr_op = o THEN 1 ELSE 0)
  BY <1>4, <1>5
<1>7. Owed' = [Owed EXCEPT ![o] = @ - 1]
  <2>1. \A p \in NetOps : owed'[p] = IF p = o THEN owed[p] - 1 ELSE owed[p]
    BY <1>1 DEF WithNone
  <2> QED
    BY <1>1, <2>1 DEF Owed
<1>8. UNCHANGED net.curr_op
  BY DEF Told
<1>9. Service!Tell(o)
  BY <1>1, <1>6, <1>7, <1>8 DEF Service!Tell, Owed
<1> QED
  BY <1>1, <1>9 DEF Service!SvcNext

LEMMA StepServes ==
  ASSUME NetOpInv, NetOpInv', Undisturbed, [NetOpNext]_net_op_vars
  PROVE  [Service!SvcNext]_(Service!svc_vars)
<1>1. NetOpTypes /\ IsABag(telling)
  BY DEF NetOpInv, NetOpTypes
<1>2. ASSUME UNCHANGED <<owed, telling>> PROVE [Service!SvcNext]_(Service!svc_vars)
  <2>1. \A e : Copies(e, telling') >= Copies(e, telling)
    <3>1. \A e : Copies(e, telling) \in Nat
      BY <1>1, BagFields
    <3> QED
      BY <1>2, <3>1
  <2> QED
    BY <1>2, <2>1, LeavesOrEnds
<1>3. ASSUME NEW by, NEW results, Takes(by, results), UNCHANGED owed
      PROVE  [Service!SvcNext]_(Service!svc_vars)
  BY <1>1, <1>3, TakesKeeps, LeavesOrEnds
<1>4. ASSUME NEW o \in NetOps, BeginChipOp(o) PROVE Service!SvcNext
  <2>1. net.curr_op = "NONE" /\ Begun(o) /\ net' = [net EXCEPT !.curr_op = o] /\ net \in NetType
    BY <1>1, <1>4 DEF BeginChipOp, MayBegin, NetOpTypes
  <2>2. net'.curr_op = o
    BY <2>1 DEF NetType
  <2> QED
    BY <1>1, <2>1, <2>2, BeginServes
<1>5. ASSUME Add \/ Fail \/ Initiate \/ Reset \/ Migrate \/ SendNif PROVE Service!SvcNext
  BY <1>4, <1>5 DEF Add, Fail, Initiate, Reset, Migrate, SendNif, NetOps
<1>6. ASSUME BeginNodeUpdate PROVE Service!SvcNext
  <2>1. net.curr_op = "NONE" /\ Begun("NODE_UPDATE")
    BY <1>6 DEF BeginNodeUpdate, MayBegin
  <2>2. net'.curr_op = "NODE_UPDATE"
    <3>1. net \in NetType /\ Requested(net) \in NetType
      BY <1>1 DEF NetOpTypes, NetType, Requested
    <3> DEFINE q == Requested(net)
    <3>2. net' = [q EXCEPT !.curr_op = "NODE_UPDATE", !.job = Job("NODE_UPDATE", 1)]
          \/ net' = [net EXCEPT !.curr_op = "NODE_UPDATE"]
      BY <1>6 DEF BeginNodeUpdate
    <3>3. q \in NetType
      BY <3>1
    <3> HIDE DEF q
    <3> QED
      BY <3>1, <3>2, <3>3 DEF NetType
  <2>3. "NODE_UPDATE" \in NetOps
    BY DEF NetOps
  <2> QED
    BY <1>1, <2>1, <2>2, <2>3, BeginServes
<1>7. ASSUME BeginUpdate PROVE Service!SvcNext
  <2>1. net.curr_op = "NONE" /\ Begun("UPDATE")
    BY <1>7 DEF BeginUpdate, NetOpInv
  <2>2. PICK n : net' = [n EXCEPT !.curr_op = "UPDATE"]
    BY <1>7 DEF BeginUpdate
  <2>3. net'.curr_op = "UPDATE"
    <3>1. "curr_op" \in DOMAIN net'
      BY DEF NetOpInv, NetOpTypes, NetType
    <3> QED
      BY <2>2, <3>1
  <2>4. "UPDATE" \in NetOps
    BY DEF NetOps
  <2> QED
    BY <1>1, <2>1, <2>3, <2>4, BeginServes
<1>8. ASSUME CbThrd \/ NodeInfoFrame \/ SecCb \/ SmNext \/ NotifyCb
      PROVE  [Service!SvcNext]_(Service!svc_vars)
  BY <1>3, <1>8 DEF CbThrd, NodeInfoFrame, SecCb, SmNext, NotifyCb
<1>9. ASSUME NEW k \in Timers, TmrLate(k) PROVE [Service!SvcNext]_(Service!svc_vars)
  <2>1. UNCHANGED owed /\ \E results : Takes("tmr", results)
    BY <1>9 DEF TmrLate, TmrCb
  <2> QED
    BY <1>3, <2>1
<1>10. ASSUME UpdateCheck \/ ChipStep \/ SecEnds \/ Interviewed \/ TmrExpires \/ UNCHANGED net_op_vars
       PROVE  [Service!SvcNext]_(Service!svc_vars)
  BY <1>2, <1>10 DEF UpdateCheck, ChipStep, ChipReports, SecEnds, Interviewed, TmrExpires, net_op_vars
<1>11. ASSUME TmrStep PROVE [Service!SvcNext]_(Service!svc_vars)
  BY <1>9, <1>10, <1>11 DEF TmrStep, Timers
<1>12. ASSUME TellStep PROVE Service!SvcNext
  BY <1>12, TellServes DEF TellStep
<1>13. ASSUME UserAbort PROVE Service!SvcNext
  BY <1>13, AbortServes
<1> QED
  BY <1>5, <1>6, <1>7, <1>8, <1>10, <1>11, <1>12, <1>13 DEF NetOpNext

\* One operation is in progress at a time, and the end of each that is not aborted is told
\* once, after it: the safety part of the refinement that ImplementsNetOp states.
THEOREM ServesOperations ==
  ASSUME Undisturbed
  PROVE  NetOpSpec => Service!SvcInit /\ [][Service!SvcNext]_(Service!svc_vars)
<1>1. NetOpInit => Service!SvcInit
  <2> SUFFICES ASSUME NetOpInit PROVE Service!SvcInit
    OBVIOUS
  <2>1. net.curr_op = "INITIALIZE"
    BY InitHolds
  <2>2. owed = [o \in WithNone(NetOps) |-> IF o = "INITIALIZE" THEN 1 ELSE 0]
    BY DEF NetOpInit
  <2> QED
    BY <2>1, <2>2 DEF Service!SvcInit, WithNone
<1>2. NetOpInv /\ NetOpInv' /\ [NetOpNext]_net_op_vars => [Service!SvcNext]_(Service!svc_vars)
  BY StepServes
<1> QED
  BY <1>1, <1>2, NetOpInvHolds, PTL DEF NetOpSpec
=============================================================================
