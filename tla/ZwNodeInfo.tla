----------------------------- MODULE ZwNodeInfo -----------------------------
(***************************************************************************)
(* The interview of src/zw_api_network.c: a job asks some nodes, one after *)
(* the other, for all that the library keeps of them.  Three machines take *)
(* part and share one timer, sm_tmr_ctx:                                   *)
(*                                                                         *)
(*   - zwnet_node_info_sm (ni_sm_sta) asks the node itself, then           *)
(*   - zwnet_1_ep_info_sm (single_ep_sta) asks for what its classes offer, *)
(*   - zwnet_ep_info_sm (ep_sm_sta) goes through the node's end points and *)
(*     runs the second machine for each.                                   *)
(*                                                                         *)
(* A question that cannot be put (the class is missing, its version too    *)
(* old, the queue full) is skipped, which the model leaves to chance.  A   *)
(* report comes from whichever node, when the handler does not look, at    *)
(* any time, and again; a timeout comes when no report does.  Some reports *)
(* take a machine back to an earlier question of its wait, or put the last *)
(* one again, and each starts the timer anew.  Every handler holds         *)
(* nw->mtx, which zwnet_sm_next leaves while the progress is notified.     *)
(***************************************************************************)
EXTENDS Integers, Sequences

CONSTANTS
  MaxNodes,   \* nodes in a job
  MaxEps,     \* end points of a node
  MaxItems,   \* command classes, sensor types, groups, ... of a node
  Late,       \* BOOLEAN: answers of other nodes may come, to earlier questions
  Partial,    \* BOOLEAN: group information may come in several reports
  Races,      \* "progress": reports and aborts may meet the notification of the progress
  MaxJobs     \* bound: jobs

ASSUME NodeInfoAssumption ==
  /\ MaxNodes \in Nat \ {0} /\ MaxEps \in Nat /\ MaxItems \in Nat \ {0} /\ MaxJobs \in Nat
  /\ Late \in BOOLEAN /\ Partial \in BOOLEAN /\ Races \subseteq {"progress"}

VARIABLES
  s,       \* the machines, the job and the timer, see NiType
  jobs     \* jobs begun

ni_vars == <<s, jobs>>

\* what the machines wait for
NiWaits == {"GET_NODE_INFO", "GET_SEC_CMD_SUP", "ASSIGN_RR", "GET_CMD_VER", "GET_MANF_PDT_ID", "WKUP_CFG",
            "MULTI_INSTANCE", "MULTI_CHANNEL"}
EpWaits == {"SEC", "VER"}
SepWaits == {"ZWPLUS_INFO", "SENSOR", "MAX_GROUP", "GROUP_INFO", "THRMO_FAN_MD", "THRMO_MD", "THRMO_SETP",
             "MUL_SWITCH", "AV", "ALARM", "PROT", "MAX_USR_CODES", "METER", "METER_DESC", "NODE_NAMELOC"}
Nodes == 1 .. MaxNodes

\* turn changes whenever a timer starts, which tells a timer from the one before it
NiType ==
  [ni : NiWaits \cup {"IDLE", "GET_OTHERS", "GET_EP_INFO"}, eps : EpWaits \cup {"IDLE", "EP_INFO"},
   sep : SepWaits \cup {"IDLE"}, scb : {"others", "ep"}, ep : 0 .. MaxEps,
   sub : 1 .. 3, idx : 1 .. MaxItems, tmr : {"none", "ni", "ep", "sep"}, turn : BOOLEAN,
   num : 0 .. MaxNodes, rd : 0 .. MaxNodes, of : Nodes, nexting : BOOLEAN]
NiTypeOK == s \in NiType /\ jobs \in 0 .. MaxJobs

Idle ==
  [ni |-> "IDLE", eps |-> "IDLE", sep |-> "IDLE", scb |-> "others", ep |-> 0, sub |-> 1, idx |-> 1,
   tmr |-> "none", turn |-> FALSE, num |-> 0, rd |-> 0, of |-> 1, nexting |-> FALSE]

---------------------------------------------------------------------------
(* What a machine comes to: sets of values of s.                           *)

\* A question is put and the timer of its machine started, or started again.
Asks(t, k, i) == [t EXCEPT !.sub = k, !.idx = i, !.turn = ~ @]
NiAsk(t, sta) == [Asks(t, 1, 1) EXCEPT !.ni = sta, !.tmr = "ni"]
SepAsk(t, sta) == [Asks(t, 1, 1) EXCEPT !.sep = sta, !.tmr = "sep"]
EpAsk(t, e, sta) == [Asks(t, 1, 1) EXCEPT !.ep = e, !.eps = sta, !.tmr = "ep"]
Untimed(t) == [t EXCEPT !.tmr = "none"]
\* the next question of the same state: one more item, or the first of the next kind
Item(t) == {Asks(t, t.sub, i) : i \in {t.idx + 1} \cap 1 .. MaxItems}
NextKind(t, kinds) == {Asks(t, k, 1) : k \in {t.sub + 1} \cap 1 .. kinds}

\* zwnet_sm_next, up to the notification
SmNext(t) == {[t EXCEPT !.tmr = "none", !.rd = IF @ < t.num THEN @ + 1 ELSE @, !.nexting = TRUE]}

\* The questions about what the classes of an end point offer, in the order in which
\* zwnet_1_ep_sm_cls_hdlr goes through them.
ZwplusInfoGet(t) == SepAsk(t, "ZWPLUS_INFO")
SensorGet(t) == SepAsk(t, "SENSOR")
MaxGroupGet(t) == SepAsk(t, "MAX_GROUP")
GrpInfoStart(t) == SepAsk(t, "GROUP_INFO")
ThrmoFanModeSupGet(t) == SepAsk(t, "THRMO_FAN_MD")
ThrmoModeSupGet(t) == SepAsk(t, "THRMO_MD")
ThrmoSetpSupGet(t) == SepAsk(t, "THRMO_SETP")
LvlSupGet(t) == SepAsk(t, "MUL_SWITCH")
AvGet(t) == SepAsk(t, "AV")
AlrmSupGet(t) == SepAsk(t, "ALARM")
ProtSupGet(t) == SepAsk(t, "PROT")
MaxUsrCodeGet(t) == SepAsk(t, "MAX_USR_CODES")
MeterGet(t) == SepAsk(t, "METER")
MeterDescGet(t) == SepAsk(t, "METER_DESC")
NameGet(t) == SepAsk(t, "NODE_NAMELOC")
SepGets(t) ==
  <<ZwplusInfoGet(t), SensorGet(t), MaxGroupGet(t), GrpInfoStart(t), ThrmoFanModeSupGet(t), ThrmoModeSupGet(t),
    ThrmoSetpSupGet(t), LvlSupGet(t), AvGet(t), AlrmSupGet(t), ProtSupGet(t), MaxUsrCodeGet(t), MeterGet(t),
    MeterDescGet(t), NameGet(t)>>
SepClsHdlr(t, act) == {SepGets(t)[i] : i \in act .. Len(SepGets(t))}

\* zwnet_1_ep_info_sm, EVT_S_EP_SM_START: only an idle machine begins
SepStart(t, cb) == IF t.sep = "IDLE" THEN SepClsHdlr([t EXCEPT !.scb = cb], 1) ELSE {}

\* zwnet_sm_cls_hdlr from the given question on; the last is for the end points
Rr(t) == NiAsk(t, "ASSIGN_RR")
VerGet(t) == NiAsk(t, "GET_CMD_VER")
ManfGet(t) == NiAsk(t, "GET_MANF_PDT_ID")
WkupCfg(t) == NiAsk(t, "WKUP_CFG")
ChGet(t) == NiAsk(t, "MULTI_CHANNEL")
InstGet(t) == NiAsk(t, "MULTI_INSTANCE")
EndPoint(t) == {ChGet(t), InstGet(t)} \cup SmNext(t)
Others(t) ==
  LET u == Untimed(t) IN {[v EXCEPT !.ni = "GET_OTHERS"] : v \in SepStart(u, "others")} \cup EndPoint(u)
ClsHdlr(t, act) == {<<Rr(t), VerGet(t), ManfGet(t), WkupCfg(t)>>[i] : i \in act .. 4} \cup Others(t)

\* zwnet_ep_sm_next; with no end point left the job of the end points is done
EpNext(t) == {EpAsk(t, e, q) : e \in t.ep + 1 .. MaxEps, q \in EpWaits}
EpCmplt(t) ==
  LET u == [t EXCEPT !.eps = "IDLE", !.tmr = "none", !.ep = 0]
  IN  IF u.ni = "GET_EP_INFO" THEN SmNext(u) ELSE {u}
EpGoesOn(t) == EpNext(t) \cup EpCmplt(t)
\* zwnet_sm_ep_info_get
EpInfoGet(t) ==
  {[u EXCEPT !.ni = "GET_EP_INFO"] : u \in EpNext([t EXCEPT !.ep = 0, !.eps = "IDLE"])}
    \cup SmNext([t EXCEPT !.eps = "IDLE"])
\* after the versions of an end point
EpInfo(t) == {[u EXCEPT !.eps = "EP_INFO"] : u \in SepStart(Untimed(t), "ep")} \cup EpGoesOn(Untimed(t))

\* the end point saved for a timeout is that of the node whose turn it is
Saved(t) == IF t.rd < MaxNodes THEN [t EXCEPT !.of = t.rd + 1] ELSE t

\* zwnet_1_ep_job_cmplt, and zwnet_sm_others_cb or zwnet_sm_1_ep_info_cb
CmpltQuietly(t) == {[t EXCEPT !.sep = "IDLE", !.tmr = "none"]}  \* mutated form
SepCmplt(t) ==
  LET u == [t EXCEPT !.sep = "IDLE", !.tmr = "none"]
  IN  CASE u.scb = "others" /\ u.ni = "GET_OTHERS" -> EndPoint(Saved(u)) \cup SmNext(u)
        [] u.scb = "ep" /\ u.eps = "EP_INFO" -> EpGoesOn(u)
        [] OTHER -> {u}
\* the question at act or one of those after it, or the end of the machine
SepGoesOn(t, act) == SepClsHdlr(t, act) \cup SepCmplt(t)

---------------------------------------------------------------------------
(* zwnet_node_info_sm: a report, and a timeout of its wait.                *)

NodeInfo(t) == {NiAsk(t, "GET_SEC_CMD_SUP")} \cup ClsHdlr(t, 1)
SecSupReport(t) == ClsHdlr(t, 1)
RrTxSts(t) == ClsHdlr(t, 2)
\* Versions of the command classes, then of the library.  What counts is the class last
\* asked for: the next one is that of the reporting node's own list, which with another
\* node may be any, and its last one leads to the library, however often it is reported.
ZwverReport(t) == ClsHdlr(t, 3)
NextCls(t) == IF t.of # s.of THEN 1 .. MaxItems ELSE IF t.sub = 1 THEN {t.idx + 1} \cap 1 .. MaxItems ELSE {}
VerReport(t) == {Asks(t, 1, i) : i \in NextCls(t)} \cup {Asks(t, 2, 1)} \cup ZwverReport(t)
\* manufacturer and product, then the device
ManfReport(t) == NextKind(t, 2) \cup ClsHdlr(t, 4)
WkupCapRep(t) == Others(t)
\* the class after the one reported, whichever that is
MultiInstanceRep(t) == {Asks(t, 1, i) : i \in 2 .. MaxItems} \cup EpInfoGet(t)
\* The number of end points, whenever it is reported, leads to the capability of the
\* first; the capability of any to that of the one after it.
EpNumReport(t) == {Asks(t, 2, 1)} \cup EpInfoGet(t)
EpCapReport(t) == {Asks(t, 2, i) : i \in 1 .. MaxItems} \cup EpInfoGet(t)
MultiChannelRep(t) == EpNumReport(t) \cup EpCapReport(t)

NiHandled(t) ==
  CASE t.ni = "GET_NODE_INFO" -> NodeInfo(t)
    [] t.ni = "GET_SEC_CMD_SUP" -> SecSupReport(t)
    [] t.ni = "ASSIGN_RR" -> RrTxSts(t)
    [] t.ni = "GET_CMD_VER" -> VerReport(t)
    [] t.ni = "GET_MANF_PDT_ID" -> ManfReport(t)
    [] t.ni = "WKUP_CFG" -> WkupCapRep(t)
    [] t.ni = "MULTI_INSTANCE" -> MultiInstanceRep(t)
    [] OTHER -> MultiChannelRep(t)

\* EVT_NW_TMOUT: the machine goes on with the saved end point, if that is still there.
NiTmout(t) ==
  LET u == Saved(t)
  IN  CASE t.ni \in {"IDLE", "GET_OTHERS", "GET_EP_INFO"} -> {t}
        [] t.ni = "GET_NODE_INFO" -> SmNext(t)
        [] t.ni = "GET_SEC_CMD_SUP" -> ClsHdlr(u, 1) \cup SmNext(t)
        [] t.ni = "ASSIGN_RR" -> ClsHdlr(u, 2) \cup SmNext(t)
        [] t.ni = "GET_CMD_VER" -> ClsHdlr(u, 3) \cup SmNext(t)
        [] t.ni = "GET_MANF_PDT_ID" -> ClsHdlr(u, 4) \cup SmNext(t)
        [] t.ni = "WKUP_CFG" -> Others(u) \cup SmNext(t)
        [] OTHER -> EpInfoGet(u)

---------------------------------------------------------------------------
(* zwnet_1_ep_info_sm and zwnet_ep_info_sm: reports of the end point that  *)
(* was asked; reports of any other, and of another question, are ignored.  *)

ZwplusInfoReport(t) == SepGoesOn(t, 2)
\* sensor types, then the units of each; before version 5 one reading tells both
SensorReport(t) == (IF t.sub = 1 THEN NextKind(t, 2) ELSE Item(t)) \cup SepGoesOn(t, 3)
GrpCntReport(t) == SepGoesOn(t, 4)
\* command lists of the groups, then their names, then information on all of them; the
\* wait for the rest of the information has the timer of another machine.
GrpCmdLstReport(t) == Item(t) \cup NextKind(t, 3) \cup SepGoesOn(t, 5)
GrpNameReport(t) == Item(t) \cup NextKind(t, 3) \cup SepGoesOn(t, 5)
GrpInfoReport(t) ==
  SepGoesOn(t, 5) \cup (IF Partial THEN {[Asks(t, t.sub, t.idx) EXCEPT !.tmr = "ni"]} ELSE {})
ThrmoFanMdReport(t) == SepGoesOn(t, 6)
ThrmoMdReport(t) == SepGoesOn(t, 7)
ThrmoSetpReport(t) == SepGoesOn(t, 8)
MulSwitchReport(t) == SepGoesOn(t, 9)
\* the number of reports, then each; a report that was known is ignored, one that comes
\* too early passes over others
AvReport(t) ==
  (IF t.sub = 1 THEN NextKind(t, 2) ELSE {Asks(t, 2, i) : i \in t.idx + 1 .. MaxItems}) \cup SepGoesOn(t, 10)
\* alarm types, then the events of each
AlarmReport(t) == (IF t.sub = 1 THEN NextKind(t, 2) ELSE Item(t)) \cup SepGoesOn(t, 11)
ProtReport(t) == SepGoesOn(t, 12)
UsrCodeCntReport(t) == SepGoesOn(t, 13)
MeterReport(t) == SepGoesOn(t, 14)
MeterDescReport(t) == SepGoesOn(t, 15)
\* the name, however often it is reported, then the location, which ends the machine
NameLocReport(t) == {Asks(t, 2, 1)} \cup SepCmplt(t)

SepHandled(t) ==
  CASE t.sep = "ZWPLUS_INFO" -> ZwplusInfoReport(t)
    [] t.sep = "SENSOR" -> SensorReport(t)
    [] t.sep = "MAX_GROUP" -> GrpCntReport(t)
    [] t.sep = "GROUP_INFO" ->
         (CASE t.sub = 1 -> GrpCmdLstReport(t) [] t.sub = 2 -> GrpNameReport(t) [] OTHER -> GrpInfoReport(t))
    [] t.sep = "THRMO_FAN_MD" -> ThrmoFanMdReport(t)
    [] t.sep = "THRMO_MD" -> ThrmoMdReport(t)
    [] t.sep = "THRMO_SETP" -> ThrmoSetpReport(t)
    [] t.sep = "MUL_SWITCH" -> MulSwitchReport(t)
    [] t.sep = "AV" -> AvReport(t)
    [] t.sep = "ALARM" -> AlarmReport(t)
    [] t.sep = "PROT" -> ProtReport(t)
    [] t.sep = "MAX_USR_CODES" -> UsrCodeCntReport(t)
    [] t.sep = "METER" -> MeterReport(t)
    [] t.sep = "METER_DESC" -> MeterDescReport(t)
    [] OTHER -> NameLocReport(t)

\* EVT_S_EP_NW_TMOUT: the next question, or the end
SepTmout(t) ==
  IF t.sep = "IDLE" THEN {t}
  ELSE LET asked == CHOOSE i \in 1 .. Len(SepGets(t)) : SepGets(t)[i].sep = t.sep
       IN  SepGoesOn(t, asked + 1)

EpSecReport(t) == {EpAsk(t, t.ep, "VER")} \cup EpGoesOn(t)
EpVerReport(t) == Item(t) \cup EpInfo(t)
EpHandled(t) == IF t.eps = "SEC" THEN EpSecReport(t) ELSE EpVerReport(t)
EpTmout(t) ==
  CASE t.eps = "SEC" -> EpSecReport(t)
    [] t.eps = "VER" -> EpInfo(t)
    [] OTHER -> {t}

---------------------------------------------------------------------------

\* zwnet_node_info_sm, EVT_GET_NODE_INFO: the first node of a job is asked
Start ==
  /\ s.ni = "IDLE" /\ ~ s.nexting /\ jobs < MaxJobs /\ jobs' = jobs + 1
  /\ \E k \in Nodes : s' = NiAsk([Idle EXCEPT !.num = k], "GET_NODE_INFO")

\* zwnet_sm_next after the notification: the next node is asked, or the job is done
Resume ==
  /\ s.nexting /\ UNCHANGED jobs
  /\ \/ s.rd < s.num /\ s' = NiAsk([s EXCEPT !.nexting = FALSE, !.of = s.rd + 1], "GET_NODE_INFO")
     \/ s' = Idle

Quiet == s.nexting => "progress" \in Races
NiReport ==
  /\ s.ni \in NiWaits /\ Quiet /\ UNCHANGED jobs
  /\ \E n \in Nodes : (n = s.of \/ Late) /\ s' \in NiHandled([s EXCEPT !.of = n])
SepReport == s.sep # "IDLE" /\ Quiet /\ s' \in SepHandled(s) /\ UNCHANGED jobs
EpReport == s.eps \in EpWaits /\ Quiet /\ s' \in EpHandled(s) /\ UNCHANGED jobs

\* zwnet_tmout_cb, zwnet_1_ep_tmout_cb, zwnet_ep_tmout_cb
Tmout ==
  /\ s.tmr # "none" /\ UNCHANGED jobs
  /\ LET t == Untimed(s)
     IN  s' \in (CASE s.tmr = "ni" -> NiTmout(t) [] s.tmr = "sep" -> SepTmout(t) [] OTHER -> EpTmout(t))

\* zwnet_sm_ni_stop
Stop ==
  /\ s.ni # "IDLE" /\ Quiet /\ UNCHANGED jobs
  /\ s' = [Idle EXCEPT !.nexting = s.nexting]

NodeInfoInit == s = Idle /\ jobs = 0
NodeInfoNext == Start \/ Resume \/ NiReport \/ SepReport \/ EpReport \/ Tmout \/ Stop
NodeInfoSpec == NodeInfoInit /\ [][NodeInfoNext]_ni_vars
\* A timer expires if it is not started again first, and a notification returns; nothing
\* says that a node answers.
NodeInfoFairSpec ==
  /\ NodeInfoSpec /\ WF_ni_vars(Resume)
  /\ \A b \in BOOLEAN : WF_ni_vars(Tmout /\ s.turn = b)

---------------------------------------------------------------------------
(* Properties.                                                             *)

\* The machine that waits is the one whose timer runs, and the machines that wait for
\* another wait for one that is at work.
TimerOfTheWait ==
  ~ s.nexting =>
    /\ s.sep # "IDLE" <=> s.tmr = "sep"
    /\ s.eps \in EpWaits <=> s.tmr = "ep"
    /\ s.ni \in NiWaits <=> s.tmr = "ni"
    /\ s.ni = "GET_OTHERS" <=> s.sep # "IDLE" /\ s.scb = "others"
    /\ s.ni = "GET_EP_INFO" <=> s.eps # "IDLE"
    /\ s.eps = "EP_INFO" <=> s.sep # "IDLE" /\ s.scb = "ep"

\* A report that leaves the machine in its wait, at a question it has already put, with
\* the timer started again.
SameWait == s'.ni = s.ni /\ s'.sep = s.sep /\ s'.eps = s.eps /\ s'.ep = s.ep /\ s'.rd = s.rd
GoesBack ==
  /\ SameWait /\ s'.turn # s.turn
  /\ s'.sub < s.sub \/ (s'.sub = s.sub /\ s'.idx <= s.idx)

\* A job ends, whatever its nodes answer and whether they do, unless the reports of nodes
\* take it back for ever: every timeout and every report that leaves a wait brings it
\* nearer to its end.
JobEnds == <>[][~ GoesBack]_ni_vars => (s.ni # "IDLE" ~> s.ni = "IDLE")

---------------------------------------------------------------------------
(* What documents and comments say and the code does not do: the           *)
(* formulas below do not hold, and TLC shows how.                           *)

\* All that is asked for in a job is asked of the node whose turn it is.
RightNode == s.ni # "IDLE" /\ ~ s.nexting => s.of = s.rd + 1

\* A job ends whatever is reported: a node that reports the same end point, class or name
\* again before each timeout keeps it for ever.
JobAlwaysEnds == s.ni # "IDLE" ~> s.ni = "IDLE"
=============================================================================
