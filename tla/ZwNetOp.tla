------------------------------ MODULE ZwNetOp ------------------------------
(***************************************************************************)
(* Network operations of src/zw_api_network.c: adding, removing and        *)
(* replacing nodes, joining a network, updating it, handing over the role  *)
(* of primary controller, resetting.  curr_op names the one in progress.   *)
(* An operation goes through some of                                       *)
(*                                                                         *)
(*   - the chip, which reports through the callback thread,                *)
(*   - the wait for the node information of a replaced node (rp_sm_sta),   *)
(*   - secure inclusion (ZwSecIncl),                                       *)
(*   - a node information job (ni_sm_sta, sm_job; its machine is           *)
(*     ZwNodeInfo), which may first wait for a delay,                      *)
(*   - the update machine (nu_sm_ctx),                                     *)
(*                                                                         *)
(* and its user may abort it in any of them.  Each action is a part of the *)
(* code that holds nw->mtx, or that no lock interrupts.                    *)
(***************************************************************************)
EXTENDS Integers, Sequences, FiniteSets, Bags

CONSTANTS
  Ops,         \* the operations that the user starts
  Abortable,   \* those of them that he aborts
  Races,       \* what the next operation or an abort may meet: "callback" of the chip or of
               \* the security layer, late "timeout", "progress" notification, "unlocked"
               \* (another thread between the two parts of zwnet_update)
  Fails,       \* failures that may happen: "load", "migrate"
  MaxNodes,    \* nodes in the network
  Retries,     \* MAX_NEIGHBOR_UPDT_RETRIES
  MaxBegins    \* bound: operations begun

NetOps == {"INITIALIZE", "ADD_NODE", "RM_NODE", "RP_NODE", "RM_FAILED_ID", "INITIATE", "UPDATE",
           "RESET", "MIGRATE_SUC", "MIGRATE", "NODE_UPDATE", "SEND_NIF"}

ASSUME NetOpAssumption ==
  /\ Abortable \subseteq Ops \cup {"INITIALIZE"} /\ Ops \subseteq NetOps \ {"INITIALIZE"}
  /\ Races \subseteq {"callback", "timeout", "progress", "unlocked"}
  /\ Fails \subseteq {"load", "migrate"}
  /\ MaxNodes \in Nat \ {0} /\ Retries \in Nat /\ MaxBegins \in Nat

VARIABLES
  net,       \* what nw->mtx protects, see NetType
  chip,      \* the operation the chip works on, and how far it is
  cbs,       \* its reports on their way to the callback thread
  late,      \* expired timers whose callbacks wait for nw->mtx
  sec_cb,    \* the operation whose secure inclusion has ended and is about to be reported
  nexting,   \* a thread in zwnet_sm_next notifies the progress, without nw->mtx
  checked,   \* zwnet_update has read curr_op and not yet locked nw->mtx
  telling,   \* bag of ends about to be notified, by the callback thread or another one
  owed,      \* observation: ends that the user has still to be told
  begins     \* operations begun

net_op_vars == <<net, chip, cbs, late, sec_cb, nexting, checked, telling, owed, begins>>
env_vars == <<chip, cbs, late, sec_cb, checked>>

NoChip == [op |-> "NONE", sta |-> "none"]
NoJob == [op |-> "NONE", left |-> 0]
NoNb == [todo |-> 0, failed |-> 0, retry |-> 0]
WithNone(S) == S \cup {"NONE"}
NetType ==
  [curr_op : WithNone(NetOps), ni : {"IDLE", "BUSY"}, job : [op : WithNone(NetOps), left : 0 .. MaxNodes],
   tmr : {"none", "delay", "state", "rp"}, rp : {"IDLE", "GET"}, incl : WithNone(NetOps),
   nu : {"IDLE", "TOPOLOGY", "NEIGHBOR", "NODE_INFO"},
   nb : [todo : 0 .. MaxNodes, failed : 0 .. MaxNodes, retry : 0 .. Retries], cb_tmr : BOOLEAN]

Adds == {"ADD_NODE", "MIGRATE", "MIGRATE_SUC"}

NetOpTypeOK ==
  /\ net \in NetType
  /\ chip.op \in WithNone(NetOps) /\ chip.sta \in {"none", "ready", "network", "neighbor"}
  /\ \A i \in 1 .. Len(cbs) : cbs[i].op \in NetOps /\ cbs[i].ok \in BOOLEAN
  /\ late \subseteq {"delay", "state", "rp"} /\ sec_cb \in WithNone(NetOps)
  /\ nexting \in BOOLEAN /\ checked \in BOOLEAN
  /\ BagToSet(telling) \subseteq [by : {"cb", "tmr"}, op : NetOps \cup {"CURR"}]
  /\ owed \in [WithNone(NetOps) -> -1 .. MaxBegins + 1] /\ begins \in 0 .. MaxBegins

---------------------------------------------------------------------------
(* Parts of several handlers, from one value of net to the next.           *)

\* zwnet_sm_ni_stop, zwnet_sm_nu_stop
NiStopNoTmr(n) == [n EXCEPT !.ni = "IDLE", !.job.left = 0]  \* mutated form
NiStop(n) == [n EXCEPT !.tmr = "none", !.ni = "IDLE", !.job.left = 0]
NuStop(n) == [NiStop(n) EXCEPT !.nu = "IDLE", !.nb = NoNb]

\* What zwnet_abort does about operation c, before curr_op is cleared
Aborted(n, c) ==
  CASE c \in Adds \cup {"RP_NODE"} -> [NiStop(n) EXCEPT !.incl = "NONE"]
    [] c = "INITIATE" -> [NiStop(n) EXCEPT !.incl = "NONE"]
    [] c = "UPDATE" -> NuStop(n)
    [] c \in {"INITIALIZE", "NODE_UPDATE"} -> NiStop(n)
    [] OTHER -> n
AbortedAll(n, c) == [Aborted(n, c) EXCEPT !.curr_op = IF @ = c THEN "NONE" ELSE @]
AbortCurr(n) == AbortedAll(n, n.curr_op)
\* the chip commands of zwnet_abort
ChipStopped(c) ==
  IF c \in Adds \cup {"RP_NODE", "RM_NODE", "INITIATE"} THEN NoChip ELSE chip

\* What a handler comes to: the new net, the operation whose end is told, the chip
Result(n, o, c) == [net |-> n, tell |-> o, chip |-> c]
GoesOn(n) == Result(n, "NONE", chip)
\* zwnet_abort, and the end of operation o told
Ends(n, o) == Result(AbortCurr(n), o, ChipStopped(n.curr_op))
Takes(by, results) ==
  \E r \in results :
    /\ net' = r.net /\ chip' = r.chip
    /\ telling' = telling (+) SetToBag({[by |-> by, op |-> o] : o \in {r.tell} \ {"NONE"}})

\* A job is begun: its first request is sent, or a delay comes first.
Job(o, k) == [op |-> o, left |-> k]
Requested(n) == [n EXCEPT !.ni = "BUSY", !.tmr = "state"]
\* zwnet_add_ni_get, and the second half of zwnet_initiate_ni_get
AddNiGet(n, j) ==
  IF n.ni = "IDLE" THEN GoesOn([n EXCEPT !.job = j, !.tmr = "delay"]) ELSE Ends(n, j.op)

\* zwnet_sec_incl: secure inclusion begins, or it is left out
SecIncl(n, o) ==
  {AddNiGet(n, Job(o, 1))} \cup {GoesOn([n EXCEPT !.incl = o]) : x \in {n.incl} \cap {"NONE"}}

\* zwnet_initiate_ni_get; with no nodes at all, the end is told by its caller
InitiateNiGet(n) ==
  {AddNiGet(n, Job("INITIATE", k)) : k \in 1 .. MaxNodes} \cup {Ends(n, "INITIATE")}

---------------------------------------------------------------------------
(* Starting an operation: each checks curr_op, gives the chip its command  *)
(* and sets curr_op, with nw->mtx taken.                                   *)

Begun(o) ==
  /\ begins < MaxBegins /\ begins' = begins + 1
  /\ owed' = [owed EXCEPT ![o] = @ + 1]

MayBegin(n) == n.curr_op = "NONE"
NoneLate == late # {} => "timeout" \in Races
MayMeet == NoneLate /\ (checked => "unlocked" \in Races)

BeginChipOp(o) ==
  /\ o \in Ops /\ MayBegin(net) /\ MayMeet /\ chip = NoChip
  /\ net' = [net EXCEPT !.curr_op = o]
  /\ chip' = [op |-> o, sta |-> "ready"]
  /\ Begun(o) /\ UNCHANGED <<cbs, late, sec_cb, nexting, checked, telling>>
Add == BeginChipOp("ADD_NODE") \/ BeginChipOp("RM_NODE")
Fail == BeginChipOp("RM_FAILED_ID") \/ BeginChipOp("RP_NODE")
Initiate == BeginChipOp("INITIATE")
Reset == BeginChipOp("RESET")
Migrate == BeginChipOp("MIGRATE_SUC") \/ BeginChipOp("MIGRATE")
SendNif == BeginChipOp("SEND_NIF")

\* zwnode_update: a job of one node that starts at once; a machine that is busy with the
\* same state is taken for one that has started.
BeginNodeUpdate ==
  /\ "NODE_UPDATE" \in Ops /\ MayBegin(net) /\ MayMeet
  /\ net' = IF net.ni = "IDLE"
            THEN [Requested(net) EXCEPT !.curr_op = "NODE_UPDATE", !.job = Job("NODE_UPDATE", 1)]
            ELSE [net EXCEPT !.curr_op = "NODE_UPDATE"]
  /\ Begun("NODE_UPDATE") /\ UNCHANGED <<env_vars, nexting, telling>>

\* zwnet_sm_neighbor_updt and zwnet_sm_node_info_updt; both may fail
Neighbors(n) == {[n EXCEPT !.nu = "NEIGHBOR", !.nb = [NoNb EXCEPT !.todo = k]] : k \in 1 .. MaxNodes}
NodeInfos(n) ==
  IF n.ni # "IDLE" THEN {}
  ELSE {[Requested(n) EXCEPT !.nu = "NODE_INFO", !.nb = NoNb, !.job = Job("UPDATE", k)] : k \in 1 .. MaxNodes}
ChipFor(n) ==
  CASE n.nu = "TOPOLOGY" -> [op |-> "UPDATE", sta |-> "network"]
    [] n.nu = "NEIGHBOR" -> [op |-> "UPDATE", sta |-> "neighbor"]
    [] OTHER -> chip

\* zwnet_update, in two parts: it looks at curr_op without nw->mtx
UpdateCheck ==
  /\ "UPDATE" \in Ops /\ begins < MaxBegins /\ MayBegin(net) /\ MayMeet /\ ~ checked
  /\ checked' = TRUE
  /\ UNCHANGED <<net, chip, cbs, late, sec_cb, nexting, telling, owed, begins>>
BeginUpdate ==
  /\ checked /\ checked' = FALSE /\ chip = NoChip
  /\ IF net.nu = "IDLE"
     THEN \E n \in {[net EXCEPT !.nu = "TOPOLOGY"]} \cup Neighbors(net) \cup NodeInfos(net) :
            net' = [n EXCEPT !.curr_op = "UPDATE"] /\ chip' = ChipFor(n)
     ELSE net' = [net EXCEPT !.curr_op = "UPDATE"] /\ UNCHANGED chip
  /\ Begun("UPDATE") /\ UNCHANGED <<cbs, late, sec_cb, nexting, telling>>

---------------------------------------------------------------------------
(* zwnet_abort, called by the user.                                        *)

UserAbort ==
  /\ net.curr_op \in Abortable /\ MayMeet
  /\ nexting => "progress" \in Races
  /\ cbs # <<>> \/ sec_cb # "NONE" => "callback" \in Races
  /\ net.cb_tmr => "timeout" \in Races
  /\ net' = AbortCurr(net) /\ chip' = ChipStopped(net.curr_op)
  /\ owed' = [owed EXCEPT ![net.curr_op] = @ - 1]
  /\ UNCHANGED <<cbs, late, sec_cb, nexting, checked, telling, begins>>

---------------------------------------------------------------------------
(* The chip's reports.                                                     *)

\* The chip comes to the end of its command, one way or the other.
ChipReports(ok) ==
  /\ chip # NoChip
  /\ ~ ok => "migrate" \in Fails \/ chip.op \notin {"MIGRATE", "MIGRATE_SUC"}
  /\ cbs' = Append(cbs, [op |-> chip.op, ok |-> ok, of |-> chip.sta]) /\ chip' = NoChip
  /\ UNCHANGED <<net, late, sec_cb, nexting, checked, telling, owed, begins>>

\* zwnet_rp_ni_sm, EVT_GET_NODE_INFO, from zwnet_failed_id_rp_cb
RpStart(n) ==
  IF n.rp = "IDLE"
  THEN {GoesOn([n EXCEPT !.rp = "GET", !.tmr = "rp"]), Ends(n, "RP_NODE")}
  ELSE {GoesOn(n)}

\* zwnet_initiate_cb, LEARN_MODE_DONE
Joined(n) ==
  InitiateNiGet(n) \cup {GoesOn([n EXCEPT !.incl = "INITIATE"]) : x \in {n.incl} \cap {"NONE"}}

\* zwnet_updt_sm, after the topology update, and after the neighbours of one more node
NuFailed(n) == Result([n EXCEPT !.nu = "IDLE", !.nb = NoNb, !.curr_op = "NONE"], "UPDATE", chip)
NuGoesOn(n) == Result(n, "NONE", ChipFor(n))
NuNodeInfo(n) == {NuGoesOn(x) : x \in NodeInfos(n)} \cup {NuFailed(n)}
TopologyDone(n) == {NuGoesOn(x) : x \in Neighbors(n)} \cup NuNodeInfo(n)
Retried(nb) == [todo |-> nb.failed, failed |-> 0, retry |-> nb.retry + 1]
NeighborDone(n, ok) ==
  LET nb == [todo |-> n.nb.todo - 1, failed |-> n.nb.failed + (IF ok THEN 0 ELSE 1), retry |-> n.nb.retry]
      next == IF nb.todo > 0 THEN {nb}
              ELSE IF nb.failed > 0 /\ nb.retry < Retries
                   THEN {Retried(nb)} ELSE {}
  IN  {NuGoesOn([n EXCEPT !.nb = x]) : x \in next} \cup NuNodeInfo(n)

NodeAddCb(n, r) == IF r.ok THEN SecIncl(n, "ADD_NODE") ELSE {Ends(n, "ADD_NODE")}
NodeRmCb(n) == {Ends(n, "RM_NODE")}
FailedIdRmCb(n) == {Ends(n, "RM_FAILED_ID")}
FailedIdRpCb(n, r) == IF r.ok THEN RpStart(n) ELSE {Ends(n, "RP_NODE")}
InitiateCb(n, r) == IF r.ok THEN Joined(n) ELSE {Ends(n, "INITIATE")}
ResetCb(n) == {Ends(n, "RESET")}
SendNifCb(n) == {Ends(n, "SEND_NIF")}
\* The operation is whatever curr_op names when it is used, the last time after the abort.
MigrateCb(n, r) ==
  IF ~ r.ok THEN {Ends(n, "CURR")}
  ELSE IF n.curr_op = "NONE" THEN {GoesOn(n)}
  ELSE SecIncl(n, n.curr_op)
\* zwnet_update_cb, zwnet_node_updt_cb
UpdateCb(n, r) ==
  CASE r.of = "network" /\ n.nu = "TOPOLOGY" -> TopologyDone(n)
    [] r.of = "neighbor" /\ n.nu = "NEIGHBOR" -> NeighborDone(n, r.ok)
    [] OTHER -> {GoesOn(n)}

Handled(n, r) ==
  CASE r.op = "ADD_NODE" -> NodeAddCb(n, r)
    [] r.op = "RM_NODE" -> NodeRmCb(n)
    [] r.op = "RM_FAILED_ID" -> FailedIdRmCb(n)
    [] r.op = "RP_NODE" -> FailedIdRpCb(n, r)
    [] r.op = "INITIATE" -> InitiateCb(n, r)
    [] r.op = "RESET" -> ResetCb(n)
    [] r.op = "SEND_NIF" -> SendNifCb(n)
    [] r.op = "UPDATE" -> UpdateCb(n, r)
    [] OTHER -> MigrateCb(n, r)

CbThrd ==
  /\ cbs # <<>> /\ NoneLate /\ \A t \in BagToSet(telling) : t.by # "cb"
  /\ cbs' = Tail(cbs)
  /\ Takes("cb", Handled(net, Head(cbs)))
  /\ UNCHANGED <<late, sec_cb, nexting, checked, owed, begins>>

\* application_update_cb: the node information of the replaced node
NodeInfoFrame ==
  /\ net.rp = "GET" /\ NoneLate /\ \A t \in BagToSet(telling) : t.by # "cb"
  /\ Takes("cb", SecIncl([net EXCEPT !.rp = "IDLE"], "RP_NODE"))
  /\ UNCHANGED <<cbs, late, sec_cb, nexting, checked, owed, begins>>

---------------------------------------------------------------------------
(* Secure inclusion, and the node information job.                         *)

\* zwsec_add_node_notify, zwsec_incd_node_notify: sec_mtx is left before the callback
SecEnds ==
  /\ net.incl # "NONE" /\ sec_cb = "NONE"
  /\ sec_cb' = net.incl /\ net' = [net EXCEPT !.incl = "NONE"]
  /\ UNCHANGED <<chip, cbs, late, nexting, checked, telling, owed, begins>>

\* zwnet_sec_incl_cb, zwnet_incd_node_cb
SecCb ==
  /\ sec_cb # "NONE" /\ NoneLate /\ sec_cb' = "NONE"
  /\ Takes("tmr", IF sec_cb = "INITIATE" THEN InitiateNiGet(net) ELSE {AddNiGet(net, Job(sec_cb, 1))})
  /\ UNCHANGED <<cbs, late, nexting, checked, owed, begins>>

\* zwnet_sm_next: nw->mtx is left while the progress is notified
Stepped(n) == [n EXCEPT !.tmr = "none", !.job.left = IF @ = 0 THEN 0 ELSE @ - 1]
Interviewed ==
  /\ net.ni = "BUSY" /\ NoneLate /\ ~ nexting /\ nexting' = TRUE
  /\ net' = Stepped(net)
  /\ UNCHANGED <<env_vars, telling, owed, begins>>
InterviewedInTime == net.tmr = "state" /\ Interviewed

JobDoneQuietly(n) == GoesOn([n EXCEPT !.ni = "IDLE", !.job.left = 0, !.curr_op = "NONE"])  \* mutated form
JobDone(n) ==
  LET nu == IF n.job.op = "UPDATE" /\ n.nu = "NODE_INFO" THEN "IDLE" ELSE n.nu
  IN  Result([n EXCEPT !.ni = "IDLE", !.job.left = 0, !.curr_op = "NONE", !.nu = nu], n.job.op, chip)
SmNext ==
  /\ nexting /\ nexting' = FALSE
  /\ Takes("tmr", {JobDone(net)} \cup {GoesOn(Requested(net)) : k \in {net.job.left} \ {0}})
  /\ UNCHANGED <<cbs, late, sec_cb, checked, owed, begins>>

---------------------------------------------------------------------------
(* Timers of nw->mtx.                                                      *)

\* zwnet_node_info_cb, zwnet_tmout_cb, zwnet_rp_tmout_cb: each stops whatever sm_tmr_ctx
\* names.  A timeout in the middle of an interview takes it one step on.
TmrCb(k) ==
  LET n == [net EXCEPT !.tmr = "none"]
      free == [n EXCEPT !.job.left = 0]
  IN  CASE k = "delay" /\ n.ni = "IDLE" ->
             \/ n.job.left > 0 /\ Takes("tmr", {GoesOn(Requested(n))}) /\ UNCHANGED nexting
             \/ ~ nexting /\ nexting' = TRUE /\ Takes("tmr", {GoesOn(free)})
        [] k = "rp" /\ n.rp = "GET" ->
             Takes("tmr", {Ends([n EXCEPT !.rp = "IDLE"], "RP_NODE")}) /\ UNCHANGED nexting
        [] k = "state" /\ n.ni = "BUSY" -> Takes("tmr", {GoesOn(Requested(n))}) /\ UNCHANGED nexting
        [] OTHER -> Takes("tmr", {GoesOn(n)}) /\ UNCHANGED nexting

\* The thread of an expired timer waits for nw->mtx.
TmrExpires ==
  /\ net.tmr # "none"
  /\ late' = late \cup {net.tmr} /\ net' = [net EXCEPT !.tmr = "none"]
  /\ UNCHANGED <<chip, cbs, sec_cb, nexting, checked, telling, owed, begins>>
TmrLate(k) ==
  /\ k \in late /\ late' = late \ {k} /\ TmrCb(k)
  /\ UNCHANGED <<cbs, sec_cb, checked, owed, begins>>

\* zwnet_notify_cb, after a zwnet_load that had nothing to ask
NotifyCb ==
  /\ net.cb_tmr
  /\ Takes("tmr", {Result([net EXCEPT !.cb_tmr = FALSE, !.curr_op = "NONE"], net.curr_op, chip)})
  /\ UNCHANGED <<cbs, late, sec_cb, nexting, checked, owed, begins>>

\* The user's function init.notify is called with the end of an operation.
Told(t) ==
  /\ telling' = telling (-) SetToBag({t})
  /\ owed' = [owed EXCEPT ![IF t.op = "CURR" THEN net.curr_op ELSE t.op] = @ - 1]
  /\ UNCHANGED <<net, env_vars, nexting, begins>>

---------------------------------------------------------------------------

\* zwnet_load: some nodes have to be asked, or none; or it fails
Loads ==
  LET n == [curr_op |-> "INITIALIZE", ni |-> "IDLE", job |-> NoJob, tmr |-> "none", rp |-> "IDLE",
            incl |-> "NONE", nu |-> "IDLE", nb |-> NoNb, cb_tmr |-> FALSE]
  IN  {Requested([n EXCEPT !.job = Job("INITIALIZE", k)]) : k \in 1 .. MaxNodes}
        \cup {[n EXCEPT !.cb_tmr = TRUE]} \cup {n : x \in Fails \cap {"load"}}
NetOpInit ==
  /\ net \in Loads /\ chip = NoChip /\ cbs = <<>> /\ late = {} /\ sec_cb = "NONE"
  /\ nexting = FALSE /\ checked = FALSE /\ telling = EmptyBag /\ begins = 0
  /\ owed = [o \in WithNone(NetOps) |-> IF o = "INITIALIZE" THEN 1 ELSE 0]

TmrStep == TmrExpires \/ \E k \in {"delay", "state", "rp"} : TmrLate(k)
ChipStep == ChipReports(TRUE) \/ ChipReports(FALSE)
TellStep == \E t \in BagToSet(telling) : Told(t)
NetOpNext ==
  \/ Add \/ Fail \/ Initiate \/ Reset \/ Migrate \/ SendNif
  \/ BeginNodeUpdate \/ UpdateCheck \/ BeginUpdate \/ UserAbort
  \/ ChipStep \/ CbThrd \/ NodeInfoFrame
  \/ SecEnds \/ SecCb \/ Interviewed \/ SmNext
  \/ TmrStep \/ NotifyCb \/ TellStep

NetOpSpec == NetOpInit /\ [][NetOpNext]_net_op_vars
\* The chip answers, every thread runs, and an interview whose timer runs comes to its
\* end (JobEnds of ZwNodeInfo), after some timeouts perhaps: no node reports the same for ever.
NetOpFairSpec ==
  /\ NetOpSpec
  /\ WF_net_op_vars(ChipStep) /\ WF_net_op_vars(CbThrd) /\ WF_net_op_vars(SecEnds)
  /\ WF_net_op_vars(SecCb) /\ SF_net_op_vars(InterviewedInTime) /\ WF_net_op_vars(SmNext)
  /\ WF_net_op_vars(TmrExpires) /\ \A k \in {"delay", "state", "rp"} : WF_net_op_vars(TmrLate(k))
  /\ WF_net_op_vars(NotifyCb) /\ WF_net_op_vars(TellStep)

---------------------------------------------------------------------------
(* Properties.                                                             *)

\* Whatever goes on, at the chip, in the security layer or in one of the machines, is
\* for the operation that curr_op names: none runs on after its end or its abort.
RunsForCurrOp ==
  /\ chip.op \in {"NONE", net.curr_op} /\ net.incl \in {"NONE", net.curr_op}
  /\ sec_cb \in {"NONE", net.curr_op}
  /\ \A i \in 1 .. Len(cbs) : cbs[i].op = net.curr_op
  /\ net.rp = "GET" => net.curr_op = "RP_NODE"
  /\ net.nu # "IDLE" => net.curr_op = "UPDATE"
  /\ net.ni = "BUSY" \/ net.tmr \in {"delay", "state"} => net.curr_op = net.job.op

\* One operation at a time; each ends, and its end is told once.
Service == INSTANCE NetOpService WITH op <- net.curr_op, owed <- [o \in NetOps |-> owed[o]]
ImplementsNetOp == Service!SvcSpec

---------------------------------------------------------------------------
(* What documents and comments say and the code does not do: the           *)
(* formulas below do not hold, and TLC shows how.                           *)

\* "Abort current action/transmission": an abort leaves the library as it was before
\* the operation, so that the next one comes to its end too.
OpEnds == net.curr_op # "NONE" ~> net.curr_op = "NONE"
=============================================================================
