----------------------------- MODULE IfClimate -----------------------------
(* The functions of zw_api_intf.c for thermostats, clocks, schedules,       *)
(* protection, application status and indicators.                           *)
EXTENDS IfCall

ThrmoFanMdRptSet(f) == Of(f, "THERMOSTAT_FAN_MODE", << Rpt("THERMOSTAT_FAN_MODE_REPORT") >>)
ThrmoFanMdGet(f) == Of(f, "THERMOSTAT_FAN_MODE", Fetch("THERMOSTAT_FAN_MODE_GET"))
ThrmoFanMdSet(f, off) ==
  Of(f, "THERMOSTAT_FAN_MODE", From(f, IF off THEN 2 ELSE 1, Set("THERMOSTAT_FAN_MODE_SET")))
ThrmoFanMdSupGet(f) ==
  Of(f, "THERMOSTAT_FAN_MODE",
     << Cached("THRMO_FAN_MD") >> \o
     Ask("THERMOSTAT_FAN_MODE_SUPPORTED_REPORT", "THERMOSTAT_FAN_MODE_SUPPORTED_GET"))
ThrmoFanStaRptSet(f) == Of(f, "THERMOSTAT_FAN_STATE", << Rpt("THERMOSTAT_FAN_STATE_REPORT") >>)
ThrmoFanStaGet(f) == Of(f, "THERMOSTAT_FAN_STATE", Fetch("THERMOSTAT_FAN_STATE_GET"))

ThrmoMdRptSet(f) == Of(f, "THERMOSTAT_MODE", << Rpt("THERMOSTAT_MODE_REPORT") >>)
ThrmoMdGet(f) == Of(f, "THERMOSTAT_MODE", Fetch("THERMOSTAT_MODE_GET"))
ThrmoMdSet(f) == Of(f, "THERMOSTAT_MODE", Set("THERMOSTAT_MODE_SET"))
ThrmoMdSupGet(f) ==
  Of(f, "THERMOSTAT_MODE",
     << Cached("THRMO_MD") >> \o
     Ask("THERMOSTAT_MODE_SUPPORTED_REPORT", "THERMOSTAT_MODE_SUPPORTED_GET"))
ThrmoOpStaRptSet(f) ==
  Of(f, "THERMOSTAT_OPERATING_STATE", << Rpt("THERMOSTAT_OPERATING_STATE_REPORT") >>)
ThrmoOpStaGet(f) ==
  Of(f, "THERMOSTAT_OPERATING_STATE", Fetch("THERMOSTAT_OPERATING_STATE_GET"))

(* A setback is permanent, temporary or none; its state is a temperature of *)
(* at most 12.0 degrees, frost protection, energy saving or unused.          *)
SetbTypes == 0 .. 2
SetbStates == {"setback", "frost", "energy", "unused"}
SetbTenths(state, tenths) == state = "setback" => tenths <= 120
ThrmoSetbRptSet(f) == Of(f, "THERMOSTAT_SETBACK", << Rpt("THERMOSTAT_SETBACK_REPORT") >>)
ThrmoSetbGet(f) == Of(f, "THERMOSTAT_SETBACK", Fetch("THERMOSTAT_SETBACK_GET"))
ThrmoSetbSet(f, type, state, tenths) ==
  Of(f, "THERMOSTAT_SETBACK",
     Valid(type \in SetbTypes /\ state \in SetbStates /\ SetbTenths(state, tenths),
           Set("THERMOSTAT_SETBACK_SET")))

ThrmoSetpRptSet(f) == Of(f, "THERMOSTAT_SETPOINT", << Rpt("THERMOSTAT_SETPOINT_REPORT") >>)
ThrmoSetpGet(f, poll) ==
  Of(f, "THERMOSTAT_SETPOINT", FetchOrPoll(poll, "THERMOSTAT_SETPOINT_GET"))
ThrmoSetpSet(f, size, precision, unit) ==
  Of(f, "THERMOSTAT_SETPOINT",
     Valid(size \in {1, 2, 4} /\ precision <= 7 /\ unit <= 1, Set("THERMOSTAT_SETPOINT_SET")))
ThrmoSetpSupGet(f) ==
  Of(f, "THERMOSTAT_SETPOINT",
     << Cached("THRMO_SETPOINT") >> \o
     Ask("THERMOSTAT_SETPOINT_SUPPORTED_REPORT", "THERMOSTAT_SETPOINT_SUPPORTED_GET"))

ClockSet(f, weekday, hour, minute) ==
  Of(f, "CLOCK", Valid(weekday <= 7 /\ hour <= 23 /\ minute <= 59, Set("CLOCK_SET")))
ClockRptSet(f) == Of(f, "CLOCK", << Rpt("CLOCK_REPORT") >>)
ClockGet(f) == Of(f, "CLOCK", Fetch("CLOCK_GET"))

(* At most nine switch points of a day, each later than the one before.     *)
SwitchPoint(p) == /\ p.hour <= 23 /\ p.minute <= 59
                  /\ p.state \in SetbStates \ {"unused"}
                  /\ SetbTenths(p.state, p.tenths)
Earlier(p, q) == p.hour < q.hour \/ (p.hour = q.hour /\ p.minute < q.minute)
Schedule(points) ==
  /\ Len(points) <= 9
  /\ \A i \in DOMAIN points : SwitchPoint(points[i])
  /\ \A i \in DOMAIN points : i < Len(points) => Earlier(points[i], points[i + 1])
ClmtCtlSchdRptSet(f) == Of(f, "CLIMATE_CONTROL_SCHEDULE", << Rpt("SCHEDULE_REPORT") >>)
ClmtCtlSchdGet(f, weekday) ==
  Of(f, "CLIMATE_CONTROL_SCHEDULE", Valid(weekday \in 1 .. 7, Fetch("SCHEDULE_GET")))
ClmtCtlSchdSet(f, weekday, points) ==
  Of(f, "CLIMATE_CONTROL_SCHEDULE",
     Valid(weekday \in 1 .. 7 /\ Schedule(points), Set("SCHEDULE_SET")))
ClmtCtlSchdChgRptSet(f) == Of(f, "CLIMATE_CONTROL_SCHEDULE", << Rpt("SCHEDULE_CHANGED_REPORT") >>)
ClmtCtlSchdChgGet(f, poll) ==
  Of(f, "CLIMATE_CONTROL_SCHEDULE", FetchOrPoll(poll, "SCHEDULE_CHANGED_GET"))
ClmtCtlSchdOvrRptSet(f) == Of(f, "CLIMATE_CONTROL_SCHEDULE", << Rpt("SCHEDULE_OVERRIDE_REPORT") >>)
ClmtCtlSchdOvrGet(f) == Of(f, "CLIMATE_CONTROL_SCHEDULE", Fetch("SCHEDULE_OVERRIDE_GET"))
ClmtCtlSchdOvrSet(f, type, state, tenths) ==
  Of(f, "CLIMATE_CONTROL_SCHEDULE",
     Valid(type \in SetbTypes /\ state \in SetbStates /\ SetbTenths(state, tenths),
           Set("SCHEDULE_OVERRIDE_SET")))

ProtRptSet(f) == Of(f, "PROTECTION", << Rpt("PROTECTION_REPORT") >>)
ProtGet(f, poll) == Of(f, "PROTECTION", FetchOrPoll(poll, "PROTECTION_GET"))
ProtSet(f, local, rf) ==
  Of(f, "PROTECTION", Valid(local <= 2 /\ (f.ver > 1 => rf <= 2), Set("PROTECTION_SET")))
ProtSupGet(f) ==
  Of(f, "PROTECTION", From(f, 2, << Cached("PROT") >> \o
                                 Ask("PROTECTION_SUPPORTED_REPORT", "PROTECTION_SUPPORTED_GET")))
ProtEcRptSet(f) == Of(f, "PROTECTION", << Rpt("PROTECTION_EC_REPORT") >>)
ProtEcGet(f) == Of(f, "PROTECTION", From(f, 2, Fetch("PROTECTION_EC_GET")))
ProtEcSet(f, node) ==
  Of(f, "PROTECTION", From(f, 2, Valid(node <= 232, Set("PROTECTION_EC_SET"))))
ProtTmoutRptSet(f) == Of(f, "PROTECTION", << Rpt("PROTECTION_TIMEOUT_REPORT") >>)
ProtTmoutGet(f) == Of(f, "PROTECTION", From(f, 2, Fetch("PROTECTION_TIMEOUT_GET")))

(* Seconds to 60, minutes from 65 on, or for ever (255).                     *)
ProtTmoutSet(f, t) ==
  Of(f, "PROTECTION", From(f, 2, Valid(t \in 1 .. 60 \union 65 .. 255,
                                       Set("PROTECTION_TIMEOUT_SET"))))

ApplBusyRepSet(f) == Of(f, "APPLICATION_STATUS", << Rpt("APPLICATION_BUSY") >>)
ApplRejectRepSet(f) == Of(f, "APPLICATION_STATUS", << Rpt("APPLICATION_REJECTED_REQUEST") >>)

IndRptSet(f) == Of(f, "INDICATOR", << Rpt("INDICATOR_REPORT") >>)
IndGet(f, poll) == Of(f, "INDICATOR", FetchOrPoll(poll, "INDICATOR_GET"))
IndSet(f, val) == Of(f, "INDICATOR", Valid(val \in 0 .. 99 \union {255}, Set("INDICATOR_SET")))
=============================================================================
