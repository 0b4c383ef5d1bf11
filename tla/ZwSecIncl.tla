----------------------------- MODULE ZwSecIncl -----------------------------
(***************************************************************************)
(* Secure inclusion: the two state machines of src/zw_sec_layer.c, that of *)
(* a controller that adds a node (zwsec_add_node_sm) and that of a         *)
(* controller that is added (zwsec_incd_node_sm), run against each other   *)
(* over the radio by two copies of this program.                           *)
(*                                                                         *)
(* The adding side is started by zwnet_sec_incl after the protocol's own   *)
(* inclusion, waits a little, and leads the exchange                       *)
(*                                                                         *)
(*     SCHEME_GET, SCHEME_REPORT, KEY_SET (zero key), KEY_VERIFY (network  *)
(*     key), SCHEME_INHERIT, SCHEME_REPORT (network key),                  *)
(*                                                                         *)
(* each side with a timer for its next command.  A timer that has expired  *)
(* is handled by a thread that waits for sec_mtx: its call may come after  *)
(* the state machine has moved on.  Commands are lost, and the unencrypted *)
(* ones may be repeated.  Either side may be aborted by its user, and the  *)
(* node excluded and included again.                                       *)
(***************************************************************************)
EXTENDS Integers, FiniteSets

CONSTANTS
  Schemes,      \* what a scheme byte may be: "ok" (this program's own) or "bad"
  Controller,   \* whether the added node is a controller, or a slave
  MaxIncl,      \* bound: inclusions
  MaxLate       \* bound: calls of one timer that wait at once

ASSUME SecInclAssumption ==
  /\ Schemes \subseteq {"ok", "bad"} /\ "ok" \in Schemes
  /\ Controller \in BOOLEAN /\ MaxIncl \in Nat /\ MaxLate \in Nat \ {0}

Cmds == {"SCHEME_GET", "SCHEME_REPORT", "KEY_SET", "KEY_VERIFY", "SCHEME_INHERIT"}
Keys == {"none", "zero", "nw"}
Ops == {"none", "wait", "ok", "failed", "aborted"}

VARIABLES
  add_sta, add_tmr,   \* add_sm_sta; which timer add_sm_tmr_ctx is, "none" if none runs
  add_late,           \* environment: how many calls of an expired timer wait for sec_mtx
  add_op,             \* what zwnet_sec_incl's caller knows of the inclusion
  incd_sta, incd_tmr, incd_late, incd_op,   \* the same of the added controller
  sec_chk, early,     \* its sec_chk; the sec_scheme it remembers ("none": sec_node_id is 0)
  key,                \* its key ("none": that of its own network)
  air,                \* environment: commands on their way
  incls,              \* inclusions begun
  verified,           \* observation: the adding side has had this inclusion's KEY_VERIFY
  inherited,          \* observation: the added side has had this inclusion's SCHEME_INHERIT
  punctual            \* observation: no call was late when this inclusion began

add_vars == <<add_sta, add_tmr, add_late, add_op>>
incd_vars == <<incd_sta, incd_tmr, incd_late, incd_op, sec_chk, early, key>>
obs_vars == <<verified, inherited, punctual>>
sec_incl_vars == <<add_vars, incd_vars, air, incls, obs_vars>>

AddTmrs == {"delay", "state"}
OnTime == [t \in AddTmrs |-> 0]
InclMsgs == [cmd : Cmds, key : Keys, scheme : {"ok", "bad"}]

SecInclTypeOK ==
  /\ add_sta \in {"IDLE", "WAIT_SCHEME", "WAIT_VERIFY", "WAIT_INHERIT_RPT"}
  /\ add_tmr \in {"none"} \cup AddTmrs /\ add_late \in [AddTmrs -> 0 .. MaxLate]
  /\ add_op \in Ops
  /\ incd_sta \in {"IDLE", "WAIT_SCH_GET", "WAIT_NW_KEY", "WAIT_SCH_INHERIT"}
  /\ incd_tmr \in {"none", "state"} /\ incd_late \in 0 .. MaxLate
  /\ incd_op \in Ops \cup {"learn"}
  /\ sec_chk \in BOOLEAN /\ early \in {"none", "ok", "bad"} /\ key \in Keys
  /\ air \subseteq InclMsgs /\ incls \in 0 .. MaxIncl
  /\ verified \in BOOLEAN /\ inherited \in BOOLEAN /\ punctual \in BOOLEAN

SecInclInit ==
  /\ add_sta = "IDLE" /\ add_tmr = "none" /\ add_late = OnTime /\ add_op = "none"
  /\ incd_sta = "IDLE" /\ incd_tmr = "none" /\ incd_late = 0 /\ incd_op = "none"
  /\ sec_chk = FALSE /\ early = "none" /\ key = "none"
  /\ air = {} /\ incls = 0
  /\ verified = FALSE /\ inherited = FALSE /\ punctual = TRUE

---------------------------------------------------------------------------
(* The radio.  zwsec_send_raw and zwsec_send may fail at once, and what    *)
(* they accept may be lost; only what is not encrypted may come twice.     *)

SchemesOf(cmd) == IF cmd \in {"KEY_SET", "KEY_VERIFY"} THEN {"ok"} ELSE Schemes
Emits(rest, cmd, k) ==
  air' \in {rest} \cup {rest \cup {[cmd |-> cmd, key |-> k, scheme |-> s]} : s \in SchemesOf(cmd)}
Taken(m) == IF m.key = "none" THEN {air, air \ {m}} ELSE {air \ {m}}

---------------------------------------------------------------------------
(* The adding side.                                                        *)

\* zwsec_add_node_notify: what the callback is told is lost on an inclusion that
\* nobody waits for any more.
AddTells(result) == add_op' = IF add_op = "wait" THEN result ELSE add_op
AddReports(result) == add_sta' = "IDLE" /\ AddTells(result)
NoTmr == "none"  \* mutated form
StateTmr == "state"
AddWaits(sta) == add_sta' = sta /\ add_tmr' = StateTmr /\ UNCHANGED add_op

\* zwsec_add_node_sm, EVT_UNSEC_INC_DONE, from zwnet_sec_incl: the protocol has
\* included a node, which has been put into learn mode by zwnet_initiate.
AddStart ==
  /\ incls < MaxIncl /\ add_op # "wait" /\ incd_op \notin {"learn", "wait"}
  /\ incls' = incls + 1
  /\ IF add_sta = "IDLE"
     THEN add_tmr' = "delay" /\ add_op' = "wait"
     ELSE add_op' = "failed" /\ UNCHANGED add_tmr
  /\ incd_op' = "learn" /\ sec_chk' = TRUE /\ early' = "none"
  /\ air' = {m \in air : m.key = "none"}
  /\ verified' = FALSE /\ inherited' = FALSE /\ punctual' = (add_late = OnTime /\ incd_late = 0)
  /\ UNCHANGED <<add_sta, add_late, incd_sta, incd_tmr, incd_late, key>>

\* zwsec_add_delay_cb and EVT_UNSEC_INC_DONE without a delay.  Whatever timer runs
\* is stopped first; an error is told without a change of the state.
AddCalled(t) == add_late[t] > 0 /\ add_late' = [add_late EXCEPT ![t] = @ - 1]
AddDelayCb ==
  /\ AddCalled("delay")
  /\ \/ add_sta = "IDLE" /\ Emits(air, "SCHEME_GET", "none") /\ AddWaits("WAIT_SCHEME")
     \/ add_tmr' = "none" /\ AddTells("failed") /\ UNCHANGED <<add_sta, air>>
  /\ UNCHANGED <<incd_vars, incls, obs_vars>>

\* zwsec_add_tmout_cb and EVT_ADD_TIMEOUT
AddTmoutCb ==
  /\ AddCalled("state") /\ add_tmr' = "none"
  /\ IF add_sta = "IDLE" THEN UNCHANGED <<add_sta, add_op>> ELSE AddReports("failed")
  /\ UNCHANGED <<incd_vars, air, incls, obs_vars>>

AddTmrExpires ==
  /\ add_tmr # "none" /\ add_tmr' = "none"
  /\ add_late[add_tmr] < MaxLate /\ add_late' = [add_late EXCEPT ![add_tmr] = @ + 1]
  /\ UNCHANGED <<add_sta, add_op, incd_vars, air, incls, obs_vars>>

\* A command is sent, or sending it fails and the inclusion with it.
AddSends(m, cmd, k, sta) ==
  \/ /\ \E rest \in Taken(m) : Emits(rest, cmd, k)
     /\ AddWaits(sta)
  \/ air' \in Taken(m) /\ add_tmr' = "none" /\ AddReports("failed")

\* What is awaited once the key has been sent.
SkipsVerify == "WAIT_INHERIT_RPT"  \* mutated form
AfterKeySet == "WAIT_VERIFY"

\* zwsec_add_node_msg_hdlr, SECURITY_SCHEME_REPORT, encrypted or not
AddSchemeRpt(m) ==
  /\ m \in air /\ m.cmd = "SCHEME_REPORT" /\ m.key \in {"none", "nw"}
  /\ CASE add_sta = "WAIT_SCHEME" /\ m.scheme = "ok" -> AddSends(m, "KEY_SET", "zero", AfterKeySet)
       [] add_sta = "WAIT_SCHEME" /\ m.scheme # "ok" ->
            air' \in Taken(m) /\ add_tmr' = "none" /\ AddReports("failed")
       [] add_sta = "WAIT_INHERIT_RPT" ->
            /\ air' \in Taken(m) /\ UNCHANGED add_tmr
            /\ AddReports(IF m.scheme = "ok" THEN "ok" ELSE "failed")
       [] OTHER -> air' \in Taken(m) /\ UNCHANGED <<add_sta, add_tmr, add_op>>
  /\ UNCHANGED <<add_late, incd_vars, incls, obs_vars>>

\* NETWORK_KEY_VERIFY, encrypted with the network key
AddKeyVerify(m) ==
  /\ m \in air /\ m.cmd = "KEY_VERIFY"
  /\ IF add_sta = "WAIT_VERIFY" /\ m.key = "nw"
     THEN /\ IF Controller
             THEN AddSends(m, "SCHEME_INHERIT", "nw", "WAIT_INHERIT_RPT")
             ELSE air' \in Taken(m) /\ add_tmr' = "none" /\ AddReports("ok")
          /\ verified' = TRUE
     ELSE air' \in Taken(m) /\ UNCHANGED <<add_sta, add_tmr, add_op, verified>>
  /\ UNCHANGED <<add_late, incd_vars, incls, inherited, punctual>>

\* zwnet_abort
AddAbort ==
  /\ add_op = "wait"
  /\ add_op' = "aborted" /\ add_tmr' = "none" /\ add_sta' = "IDLE"
  /\ UNCHANGED <<add_late, incd_vars, air, incls, obs_vars>>

---------------------------------------------------------------------------
(* The added side.                                                         *)

IncdReports(result) ==
  /\ incd_sta' = "IDLE" /\ incd_tmr' = "none"
  /\ incd_op' = IF incd_op \in {"learn", "wait"} THEN result ELSE incd_op
IncdWaits(sta) == incd_sta' = sta /\ incd_tmr' = "state" /\ incd_op' = "wait"

\* EVT_SCHEME_GET in state WAIT_SCH_GET, or as replayed by zwnet_initiate_cb
IncdScheme(rest, scheme) ==
  \/ /\ scheme = "ok"
     /\ Emits(rest, "SCHEME_REPORT", "none")
     /\ IncdWaits("WAIT_NW_KEY")
  \/ air' = rest /\ IncdReports("failed")

\* zwnet_initiate_cb, LEARN_MODE_DONE, and EVT_UNSECURED_INC_DONE: the key is set
\* to zeroes, and a SCHEME_GET that came too early is handled now.
IncdStart ==
  /\ incd_op = "learn" /\ sec_chk' = FALSE
  /\ IF incd_sta = "IDLE"
     THEN /\ key' = "zero"
          /\ IF early # "none"
             THEN IncdScheme(air, early)
             ELSE IncdWaits("WAIT_SCH_GET") /\ UNCHANGED air
     ELSE incd_op' = "failed" /\ UNCHANGED <<key, air, incd_sta, incd_tmr>>
  /\ UNCHANGED <<add_vars, incd_late, early, incls, obs_vars>>

\* application_command_handler_cb remembers the first one, zwsec_incd_msg_hdlr
\* handles it.
IncdSchemeGet(m) ==
  /\ m \in air /\ m.cmd = "SCHEME_GET"
  /\ early' = IF sec_chk THEN m.scheme ELSE early
  /\ sec_chk' = FALSE
  /\ IF incd_sta = "WAIT_SCH_GET"
     THEN \E rest \in Taken(m) : IncdScheme(rest, m.scheme)
     ELSE air' \in Taken(m) /\ UNCHANGED <<incd_sta, incd_tmr, incd_op>>
  /\ UNCHANGED <<add_vars, incd_late, key, incls, obs_vars>>

\* NETWORK_KEY_SET: its key can be read with the zero key only.
IncdKeySet(m) ==
  /\ m \in air /\ m.cmd = "KEY_SET"
  /\ IF incd_sta = "WAIT_NW_KEY" /\ m.key = key
     THEN /\ key' = "nw"
          /\ \/ Emits(air \ {m}, "KEY_VERIFY", "nw") /\ IncdWaits("WAIT_SCH_INHERIT")
             \/ air' = air \ {m} /\ IncdReports("failed")
     ELSE air' = air \ {m} /\ UNCHANGED <<incd_sta, incd_tmr, incd_op, key>>
  /\ UNCHANGED <<add_vars, incd_late, sec_chk, early, incls, obs_vars>>

\* SECURITY_SCHEME_INHERIT
IncdInherit(m) ==
  /\ m \in air /\ m.cmd = "SCHEME_INHERIT"
  /\ IF incd_sta = "WAIT_SCH_INHERIT" /\ m.key = key
     THEN /\ inherited' = TRUE
          /\ \/ /\ m.scheme = "ok"
                /\ Emits(air \ {m}, "SCHEME_REPORT", "nw")
                /\ IncdReports("ok")
             \/ air' = air \ {m} /\ IncdReports("failed")
     ELSE air' = air \ {m} /\ UNCHANGED <<incd_sta, incd_tmr, incd_op, inherited>>
  /\ UNCHANGED <<add_vars, incd_late, sec_chk, early, key, incls, verified, punctual>>

\* zwsec_incd_tmout_cb and EVT_INCD_TIMEOUT
IncdTmoutCb ==
  /\ incd_late > 0 /\ incd_late' = incd_late - 1
  /\ IF incd_sta = "IDLE"
     THEN incd_tmr' = "none" /\ UNCHANGED <<incd_sta, incd_op>>
     ELSE IncdReports("failed")
  /\ UNCHANGED <<add_vars, sec_chk, early, key, air, incls, obs_vars>>

IncdTmrExpires ==
  /\ incd_tmr # "none" /\ incd_tmr' = "none"
  /\ incd_late < MaxLate /\ incd_late' = incd_late + 1
  /\ UNCHANGED <<add_vars, incd_sta, incd_op, sec_chk, early, key, air, incls, obs_vars>>

\* zwnet_abort, or LEARN_MODE_FAILED
IncdAbort ==
  /\ incd_op \in {"learn", "wait"} /\ incd_op' = "aborted"
  /\ IF incd_sta # "IDLE"
     THEN incd_sta' = "IDLE" /\ incd_tmr' = "none"
     ELSE UNCHANGED <<incd_sta, incd_tmr>>
  /\ UNCHANGED <<add_vars, incd_late, sec_chk, early, key, air, incls, obs_vars>>

---------------------------------------------------------------------------

AddTimer == AddTmrExpires \/ AddDelayCb \/ AddTmoutCb
IncdTimer == IncdTmrExpires \/ IncdTmoutCb
SecInclNext ==
  \/ AddStart \/ AddTimer \/ AddAbort
  \/ IncdStart \/ IncdTimer \/ IncdAbort
  \/ \E m \in air : \/ AddSchemeRpt(m) \/ AddKeyVerify(m)
                    \/ IncdSchemeGet(m) \/ IncdKeySet(m) \/ IncdInherit(m)

SecInclSpec == SecInclInit /\ [][SecInclNext]_sec_incl_vars
SecInclFairSpec ==
  /\ SecInclSpec
  /\ WF_sec_incl_vars(AddTmrExpires) /\ WF_sec_incl_vars(AddDelayCb) /\ WF_sec_incl_vars(AddTmoutCb)
  /\ WF_sec_incl_vars(IncdTmrExpires) /\ WF_sec_incl_vars(IncdTmoutCb)

---------------------------------------------------------------------------
(* Properties.                                                             *)

\* Either side is told 0 only if the added node has proved, in this inclusion, that
\* it has the network key, and it keeps it until it is included again.
OkMeansVerified == "ok" \in {add_op, incd_op} => verified /\ key = "nw"

\* Each inclusion comes to its end, at both sides, whatever is lost; not, on the
\* adding side, if a call of an earlier inclusion was still waiting when it began.
InclusionEnds ==
  /\ (add_op = "wait" /\ punctual) ~> (add_op # "wait")
  /\ incd_op = "wait" ~> incd_op # "wait"

---------------------------------------------------------------------------
(* What documents and comments say and the code does not do: the           *)
(* formulas below do not hold, and TLC shows how.                           *)

\* "Waiting for SECURITY_SCHEME_REPORT in response to SECURITY_SCHEME_INHERIT
\* command": the report that ends the inclusion of a controller answers that command.
OkMeansInherited == Controller /\ add_op = "ok" => inherited
===========================================================================
