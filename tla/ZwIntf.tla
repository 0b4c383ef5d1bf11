------------------------------- MODULE ZwIntf -------------------------------
(* Threads of the application call the functions of one interface: their    *)
(* library calls interleave with each other's, with the answers of the node, *)
(* with the callback thread (zwnet_cb_thrd) that reports what is known        *)
(* already, and with the node's removal.                                      *)
EXTENDS IfHome, IfAdmin, IfClimate, IfTables, FiniteSets

CONSTANTS
  Threads,
  Versions,     \* of the command class
  MaxOpen,      \* gets under way, and
  MaxSem,       \* posts the callback thread has not seen: bounds
  Faults        \* "alloc": memory may be short; "late": calls refused after their identifier is set;
                \* "switch": queueing is turned on where an identifier has been left

IntfAssumption ==
  Threads # {} /\ Versions \subseteq Nat /\ {MaxOpen, MaxSem} \subseteq Nat /\ Faults \subseteq {"alloc", "late", "switch"}

VARIABLES
  intf,      \* the interface: [cls, ver, mc]
  there,     \* the node exists
  data_cnt,  \* the interface has cached data
  rpt_cb,    \* the reports a callback is registered for
  cmd_num,   \* the node's cmd_id and cmd_num: set for a call, or not
  cmd_q,     \* its enable_cmd_q or mul_cmd_ctl: a command with an identifier is queued
  todo,      \* by thread: the rest of its call
  reg,       \* by thread: the reports its call registered a callback for
  open,      \* gets the node has not answered: [get, rpts]
  cb_req,    \* requests to the callback thread
  cb_sem,    \* its semaphore
  drains,    \* it has been woken and takes requests until there is none
  untold     \* types whose call returned ZW_ERR_QUEUED and whose callback has not come
vars == << intf, there, data_cnt, rpt_cb, cmd_num, cmd_q, todo, reg, open, cb_req, cb_sem, drains, untold >>

Interfaces ==
  {f \in [cls : DOMAIN intf_settings, ver : Versions, mc : BOOLEAN] : f.mc => f.cls = "ASSOCIATION"}

ctlAndNode == {{[ep |-> 0, own |-> FALSE, ctl |-> TRUE]}, {[ep |-> 0, own |-> TRUE, ctl |-> FALSE]},
               {[ep |-> 1, own |-> FALSE, ctl |-> FALSE]}, {}}
aPoint == [hour |-> 7, minute |-> 30, state |-> "setback", tenths |-> 10]
Points == {<< >>, << aPoint, [aPoint EXCEPT !.minute = 31] >>, << aPoint, aPoint >>}

(* The calls an application makes, with arguments good and bad.              *)
HomeSets(f) ==
  {NamelocSet(f), BsensorRptSet(f), SensorRptSet(f), SensorSupGet(f), SensorSupCacheGet(f),
   SensorUnitGet(f, 0), SensorUnitGet(f, 1), MeterRptSet(f), MeterSupGet(f), MeterReset(f),
   MeterSetAdmin(f), MeterGetDesc(f), PulsemeterRptSet(f), PulsemeterGet(f), AvCaps(f),
   ConfigSet(f, 2), ConfigSet(f, 3), ConfigRptSet(f), ConfigGet(f), LevelSet(f, 99),
   LevelSet(f, 100), LevelStart(f, 0, TRUE, 0, 0, 0), LevelStart(f, 0, FALSE, 2, 0, 0),
   LevelStop(f), LevelRptSet(f), LevelSupGet(f), SwitchSet(f), SwitchRptSet(f)}
HomeGets(f, poll) ==
  {BsensorGet(f, poll), SensorGet(f, 1, 0, poll), MeterGet(f, poll), LevelGet(f, poll),
   SwitchGet(f, poll)}
HomeLate(f) == IF "late" \in Faults THEN {SensorGet(f, 1, 4, FALSE)} ELSE {}
HomeCalls(f) == HomeSets(f) \union HomeGets(f, TRUE) \union HomeGets(f, FALSE) \union HomeLate(f)

anHour == 3600
AdminSets(f) ==
  {GroupGet(f, 0), GroupGet(f, 1), GroupSupGet(f), GroupActvGet(f), GroupCmdSupGet(f),
   GroupCmdSet(f, 1, 2), GroupCmdGet(f, 1, 2), GroupInfoGet(f), WakeupSet(f, anHour), WakeupGet(f),
   BasicSet(f), BasicRptSet(f), DlckOpSet(f, 255), DlckOpSet(f, 2), DlckOpRptSet(f),
   DlckCfgSet(f, "const", 0, 0), DlckCfgSet(f, "timed", 0, 0), DlckCfgGet(f),
   UsrcodSet(f, 1, 4, TRUE), UsrcodSet(f, 1, 3, TRUE), UsrcodGet(f, 1), UsrcodSupGet(f),
   AlrmRptSet(f), AlrmSet(f), AlrmSupGet(f), AlrmSupEvtGet(f, FALSE), AlrmSupEvtGet(f, TRUE),
   BatteryRptSet(f), PowerLevelRptSet(f), PowerLevelTestRptSet(f), PowerLevelGet(f),
   PowerLevelSet(f, 1, 1), PowerLevelSet(f, 1, 0), PowerLevelTestGet(f),
   PowerLevelTestSet(f, 2, 1, 10), DrlogRecSupGet(f), DrlogRecGet(f), FwInfoGet(f)}
AdminGets(f, poll) == {BasicGet(f, poll), DlckOpGet(f, poll), AlrmGet(f, poll), BatteryGet(f, poll)}
GroupChanges(f) ==
  {s \in {GroupAdd(f, 1, e) : e \in ctlAndNode} \union {GroupDel(f, 1, e) : e \in ctlAndNode} :
     "late" \in Faults \/ \A i \in DOMAIN s : s[i] # Refused("WRONG_IF")[1]}
AdminCalls(f) == AdminSets(f) \union AdminGets(f, TRUE) \union AdminGets(f, FALSE) \union GroupChanges(f)

ClimateSets(f) ==
  {ThrmoFanMdRptSet(f), ThrmoFanMdGet(f), ThrmoFanMdSet(f, TRUE), ThrmoFanMdSupGet(f),
   ThrmoFanStaRptSet(f), ThrmoFanStaGet(f), ThrmoMdRptSet(f), ThrmoMdGet(f), ThrmoMdSet(f),
   ThrmoMdSupGet(f), ThrmoOpStaRptSet(f), ThrmoOpStaGet(f), ThrmoSetbRptSet(f), ThrmoSetbGet(f),
   ThrmoSetbSet(f, 1, "setback", 120), ThrmoSetbSet(f, 1, "setback", 121), ThrmoSetpRptSet(f),
   ThrmoSetpSet(f, 2, 1, 0), ThrmoSetpSet(f, 3, 1, 0), ThrmoSetpSupGet(f), ClockSet(f, 1, 12, 0),
   ClockSet(f, 8, 12, 0), ClockRptSet(f), ClockGet(f), ClmtCtlSchdRptSet(f), ClmtCtlSchdGet(f, 1),
   ClmtCtlSchdGet(f, 0), ClmtCtlSchdChgRptSet(f), ClmtCtlSchdOvrRptSet(f), ClmtCtlSchdOvrGet(f),
   ClmtCtlSchdOvrSet(f, 1, "frost", 0), ProtRptSet(f), ProtSet(f, 1, 0), ProtSet(f, 1, 3),
   ProtSupGet(f), ProtEcRptSet(f), ProtEcGet(f), ProtEcSet(f, 5), ProtTmoutRptSet(f),
   ProtTmoutGet(f), ProtTmoutSet(f, 60), ProtTmoutSet(f, 61), ApplBusyRepSet(f),
   ApplRejectRepSet(f), IndRptSet(f), IndSet(f, 255), IndSet(f, 100)}
ClimateGets(f, poll) ==
  {ThrmoSetpGet(f, poll), ClmtCtlSchdChgGet(f, poll), ProtGet(f, poll), IndGet(f, poll)}
ClimateCalls(f) == ClimateSets(f) \union ClimateGets(f, TRUE) \union ClimateGets(f, FALSE)
                   \union {ClmtCtlSchdSet(f, 1, p) : p \in Points}

Calls(f) == HomeCalls(f) \union AdminCalls(f) \union ClimateCalls(f)

Init ==
  /\ intf \in Interfaces /\ there = TRUE /\ data_cnt \in BOOLEAN
  /\ rpt_cb = {} /\ cmd_num = FALSE /\ cmd_q \in BOOLEAN
  /\ todo = [t \in Threads |-> << >>] /\ reg = [t \in Threads |-> {}]
  /\ open = {} /\ cb_req = << >> /\ cb_sem = 0 /\ drains = FALSE /\ untold = {}

Ends(t) == todo' = [todo EXCEPT ![t] = << >>] /\ reg' = [reg EXCEPT ![t] = {}]
Goes(t) == IF Len(todo[t]) = 1 THEN Ends(t)
           ELSE todo' = [todo EXCEPT ![t] = Tail(@)] /\ UNCHANGED reg

Call(t) ==
  /\ todo[t] = << >>
  /\ \E s \in Calls(intf) : s # << >> /\ todo' = [todo EXCEPT ![t] = s]
  /\ UNCHANGED << intf, there, data_cnt, rpt_cb, cmd_num, cmd_q, reg, open, cb_req, cb_sem, drains, untold >>

At(t, what) == todo[t] # << >> /\ Head(todo[t]).do = what
Arg(t) == Head(todo[t]).arg

(* zwif_set_report: the interface is there and has such a report.            *)
Registers(t) ==
  /\ At(t, "set_report") \/ At(t, "try_report")
  /\ LET found == there /\ Arg(t) \in Reports(intf.cls, intf.ver) IN
     /\ rpt_cb' = IF found THEN rpt_cb \union {Arg(t)} ELSE rpt_cb
     /\ IF ~found /\ At(t, "set_report") THEN Ends(t)
        ELSE /\ Len(todo[t]) = 1 => Ends(t)
             /\ Len(todo[t]) > 1 => /\ todo' = [todo EXCEPT ![t] = Tail(@)]
                                    /\ reg' = [reg EXCEPT ![t] = IF found THEN @ \union {Arg(t)} ELSE @]
  /\ UNCHANGED << intf, there, data_cnt, cmd_num, cmd_q, open, cb_req, cb_sem, drains, untold >>

(* zwif_cmd_id_set                                                           *)
SetsId(t) ==
  /\ At(t, "cmd_id")
  /\ IF there THEN cmd_num' = TRUE /\ Goes(t) ELSE UNCHANGED cmd_num /\ Ends(t)
  /\ UNCHANGED << intf, there, data_cnt, rpt_cb, cmd_q, open, cb_req, cb_sem, drains, untold >>

(* zwif_exec and zwif_get_report.  A command that is queued takes the         *)
(* identifier with it: always where the node's commands are (a command        *)
(* without one, because another's came in between, is sent), and behind the   *)
(* report a node that needs a beam owes.  A command that is sent leaves it.   *)
AboutToSend(t) == At(t, "exec") \/ At(t, "exec_rr") \/ At(t, "get_report")
Queued == cmd_num' = FALSE
SentAtOnce == (cmd_q => ~cmd_num) /\ UNCHANGED cmd_num
Sends(t) ==
  /\ AboutToSend(t)
  /\ IF ~there THEN Ends(t) /\ UNCHANGED << cmd_num, open >>
     ELSE /\ Queued \/ SentAtOnce
          /\ Goes(t)
          /\ IF At(t, "get_report")
             THEN open' = open \union {[get |-> Arg(t), rpts |-> reg[t]]} /\ Cardinality(open') <= MaxOpen
             ELSE UNCHANGED open
  /\ UNCHANGED << intf, there, data_cnt, rpt_cb, cmd_q, cb_req, cb_sem, drains, untold >>

(* zwif_get_report_poll: the check thread sends the command later.           *)
Polls(t) ==
  /\ At(t, "poll")
  /\ Goes(t)
  /\ \/ there /\ open' = open \union {[get |-> Arg(t), rpts |-> {}]} /\ Cardinality(open') <= MaxOpen
     \/ UNCHANGED open
  /\ UNCHANGED << intf, there, data_cnt, rpt_cb, cmd_num, cmd_q, cb_req, cb_sem, drains, untold >>

(* zwif_cached_cb: known data are reported by the callback thread and the    *)
(* call is over; otherwise the node is asked.                                *)
AnswersFromCache(t) ==
  /\ At(t, "cached")
  /\ IF there /\ data_cnt
     THEN /\ Arg(t) \notin untold /\ cb_sem < MaxSem
          /\ cb_req' = Append(cb_req, Arg(t)) /\ cb_sem' = cb_sem + 1
          /\ untold' = untold \union {Arg(t)}
          /\ Ends(t)
     ELSE Goes(t) /\ UNCHANGED << cb_req, cb_sem, drains, untold >>
  /\ UNCHANGED << intf, there, data_cnt, rpt_cb, cmd_num, cmd_q, open, drains >>

Allocates(t) ==
  /\ At(t, "alloc")
  /\ \/ Goes(t)
     \/ "alloc" \in Faults /\ Ends(t)
  /\ UNCHANGED << intf, there, data_cnt, rpt_cb, cmd_num, cmd_q, open, cb_req, cb_sem, drains, untold >>

Returns(t) ==
  /\ At(t, "return") \/ At(t, "peek")
  /\ Ends(t)
  /\ UNCHANGED << intf, there, data_cnt, rpt_cb, cmd_num, cmd_q, open, cb_req, cb_sem, drains, untold >>

(* zwnet_cb_thrd, once woken, takes its requests one by one; a request whose *)
(* interface or data are gone, or of a type it has no case for, is dropped.   *)
ClimateTypes == {"THRMO_FAN_MD", "THRMO_MD", "THRMO_SETPOINT"}
GroupTypes == {"MAX_GROUP", "MUL_SWITCH", "AV", "ALARM_TYPE"}
OtherTypes == {"ALARM_EVENT", "PROT", "MAX_USR_CODES", "METER", "METER_DESC"}
ReportedButOthers(type) == there /\ data_cnt /\ type \in ClimateTypes \union GroupTypes \* mutated form
Reported(type) ==
  there /\ data_cnt /\ type \in ClimateTypes \union GroupTypes \union OtherTypes
CallbackWakes ==
  /\ ~drains /\ cb_sem > 0
  /\ drains' = TRUE /\ cb_sem' = cb_sem - 1
  /\ UNCHANGED << intf, there, data_cnt, rpt_cb, cmd_num, cmd_q, todo, reg, open, cb_req, untold >>
CallbackTakes ==
  /\ drains
  /\ IF cb_req = << >> THEN drains' = FALSE /\ UNCHANGED << cb_req, untold >>
     ELSE /\ cb_req' = Tail(cb_req)
          /\ untold' = IF Reported(Head(cb_req)) THEN untold \ {Head(cb_req)} ELSE untold
          /\ UNCHANGED drains
  /\ UNCHANGED << intf, there, data_cnt, rpt_cb, cmd_num, cmd_q, todo, reg, open, cb_sem >>
CallbackThread == CallbackWakes \/ CallbackTakes

(* zwnode_cmd_q_ena_set and zwnode_mul_cmd_ctl_set touch no identifier: one   *)
(* that a command sent at once has left is there when queueing is turned on.  *)
SwitchesQueue ==
  /\ there /\ cmd_q' = ~cmd_q
  /\ cmd_q' /\ cmd_num => "switch" \in Faults \/ \E t \in Threads : AboutToSend(t)
  /\ UNCHANGED << intf, there, data_cnt, rpt_cb, cmd_num, todo, reg, open, cb_req, cb_sem, drains, untold >>

(* The answer of the node, or its silence.                                   *)
NodeAnswers ==
  /\ \E g \in open : open' = open \ {g}
  /\ UNCHANGED << intf, there, data_cnt, rpt_cb, cmd_num, cmd_q, todo, reg, cb_req, cb_sem, drains, untold >>

(* The node is removed and its interfaces with it.                           *)
NodeRemoved ==
  /\ there
  /\ there' = FALSE /\ data_cnt' = FALSE /\ rpt_cb' = {} /\ cmd_num' = FALSE /\ cmd_q' = FALSE
  /\ open' = {}
  /\ UNCHANGED << intf, todo, reg, cb_req, cb_sem, drains, untold >>

Next ==
  \/ \E t \in Threads : \/ Call(t) \/ Registers(t) \/ SetsId(t) \/ Sends(t) \/ Polls(t)
                        \/ AnswersFromCache(t) \/ Allocates(t) \/ Returns(t)
  \/ CallbackThread \/ SwitchesQueue \/ NodeAnswers \/ NodeRemoved
Spec == Init /\ [][Next]_vars
-----------------------------------------------------------------------------
(* The identifier zwif_cmd_id_set leaves with a node whose commands are        *)
(* queued goes into the queue with a call's command: when no call is under    *)
(* way none is left, with which a command of the library's own would be       *)
(* queued as if the application had called for it.                            *)
IdIsTaken == cmd_q /\ (\A t \in Threads : todo[t] = << >>) => ~cmd_num

(* Who registers a callback and asks is answered: the report cmd_get_resp_tbl *)
(* expects for the command is one the call registered for, and the interface  *)
(* still has its callback.                                                    *)
AskedIsHeard ==
  \A g \in open : g.rpts # {} => Answer(intf.cls, g.get) \in g.rpts \intersect rpt_cb

(* A call answered with ZW_ERR_QUEUED gets its callback: the callback thread *)
(* does not go to sleep on a request of a node that is still there.  (The    *)
(* number of a door lock's records is forgotten.)                             *)
QueuedIsTold ==
  ~drains /\ cb_sem = 0 /\ there =>
    untold \intersect (ClimateTypes \union GroupTypes \union OtherTypes) = {}
=============================================================================
