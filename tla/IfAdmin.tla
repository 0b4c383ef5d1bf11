------------------------------ MODULE IfAdmin ------------------------------
(* The functions of zw_api_intf.c for association groups, wake up, the      *)
(* Basic class, door locks and their records, user codes, alarms, batteries *)
(* and power levels.                                                         *)
EXTENDS IfCall

OfGroups(f, script) ==
  IF f.cls \in {"ASSOCIATION", "MULTI_CHANNEL_ASSOCIATION"} THEN script
  ELSE Refused("CLASS_NOT_FOUND")

GroupGet(f, group) == OfGroups(f, Valid(group # 0, Ask("ASSOCIATION_REPORT", "ASSOCIATION_GET")))

(* The class that takes the command: end points need the multi channel one, *)
(* which f may be or which its end point may have beside f.  The controller  *)
(* itself is an end point as soon as there is such a class.                  *)
HasMc(f) == f.cls = "MULTI_CHANNEL_ASSOCIATION" \/ f.mc
ToEndPoints(f, eps) == \E e \in eps : e.ep > 0 \/ (HasMc(f) /\ e.ctl)
GroupCall(f, group, eps, mcCmd, plainCmd) ==
  OfGroups(f, Valid(group # 0,
    << Id >> \o
    IF ToEndPoints(f, eps) /\ ~HasMc(f) THEN Refused("WRONG_IF")
    ELSE << Alloc, IF ToEndPoints(f, eps) THEN mcCmd ELSE plainCmd >>))

(* Return routes go with an addition unless all members are f's own node.    *)
Routed(eps) == {e \in eps : ~e.own} # {}
AddCmd(c, eps) == IF Routed(eps) THEN Step("exec_rr", c) ELSE Send(c)
GroupMcAdd(eps) == AddCmd("MULTI_CHANNEL_ASSOCIATION_SET", eps)
GroupAdd(f, group, eps) ==
  IF eps = {} THEN << >>
  ELSE GroupCall(f, group, eps, GroupMcAdd(eps), AddCmd("ASSOCIATION_SET", eps))
GroupMcDel == Send("MULTI_CHANNEL_ASSOCIATION_REMOVE")
GroupDel(f, group, eps) == GroupCall(f, group, eps, GroupMcDel, Send("ASSOCIATION_REMOVE"))

GroupSupGet(f) ==
  OfGroups(f, << Cached("MAX_GROUP") >> \o
              Ask("ASSOCIATION_GROUPINGS_REPORT", "ASSOCIATION_GROUPINGS_GET"))
GroupActvGet(f) ==
  Of(f, "ASSOCIATION", Ask("ASSOCIATION_SPECIFIC_GROUP_REPORT", "ASSOCIATION_SPECIFIC_GROUP_GET"))
GroupCmdSupGet(f) ==
  Of(f, "ASSOCIATION_COMMAND_CONFIGURATION",
     Ask("COMMAND_RECORDS_SUPPORTED_REPORT", "COMMAND_RECORDS_SUPPORTED_GET"))
GroupCmdSet(f, group, node) ==
  Of(f, "ASSOCIATION_COMMAND_CONFIGURATION",
     Valid(group # 0 /\ node # 0, << Alloc >> \o Set("COMMAND_CONFIGURATION_SET")))
GroupCmdGet(f, group, node) ==
  Of(f, "ASSOCIATION_COMMAND_CONFIGURATION",
     Valid(group # 0 /\ node # 0, Ask("COMMAND_CONFIGURATION_REPORT", "COMMAND_CONFIGURATION_GET")))

(* The copy of what the interview found, whole or not at all.                *)
GroupInfoGet(f) == Of(f, "ASSOCIATION_GRP_INFO", << Peek >>)

WakeupSet(f, secs) == Of(f, "WAKE_UP", Valid(secs <= 16777215, Set("WAKE_UP_INTERVAL_SET")))
WakeupGet(f) ==
  Of(f, "WAKE_UP", << Rpt("WAKE_UP_INTERVAL_REPORT"),
                      TryRpt("WAKE_UP_INTERVAL_CAPABILITIES_REPORT") >> \o
                   Fetch("WAKE_UP_INTERVAL_GET"))

BasicSet(f) == Of(f, "BASIC", Set("BASIC_SET"))
BasicRptSet(f) == Of(f, "BASIC", << Rpt("BASIC_REPORT") >>)
BasicGet(f, poll) == Of(f, "BASIC", FetchOrPoll(poll, "BASIC_GET"))

(* Unsecured, with a timeout, inside and outside, and secured.               *)
DoorModes == {0, 1, 16, 17, 32, 33, 255}
DlckOpSet(f, mode) == Of(f, "DOOR_LOCK", Valid(mode \in DoorModes, Set("DOOR_LOCK_OPERATION_SET")))
DlckOpRptSet(f) == Of(f, "DOOR_LOCK", << Rpt("DOOR_LOCK_OPERATION_REPORT") >>)
DlckOpGet(f, poll) == Of(f, "DOOR_LOCK", FetchOrPoll(poll, "DOOR_LOCK_OPERATION_GET"))
DlckCfgSet(f, type, min, sec) ==
  Of(f, "DOOR_LOCK",
     Valid(type = "const" \/ (type = "timed" /\ min \in 1 .. 254 /\ sec \in 1 .. 59),
           Set("DOOR_LOCK_CONFIGURATION_SET")))
DlckCfgGet(f) ==
  Of(f, "DOOR_LOCK", Ask("DOOR_LOCK_CONFIGURATION_REPORT", "DOOR_LOCK_CONFIGURATION_GET"))

UserStates == {0, 1, 2, 254}
UsrcodSet(f, status, len, digits) ==
  Of(f, "USER_CODE",
     Valid(status \in UserStates /\ len \in 4 .. 10 /\ digits, Set("USER_CODE_SET")))
UsrcodGet(f, user) ==
  Of(f, "USER_CODE", Valid(user # 0, Ask("USER_CODE_REPORT", "USER_CODE_GET")))
UsrcodSupGet(f) ==
  Of(f, "USER_CODE", << Cached("MAX_USR_CODES") >> \o
                     Ask("USERS_NUMBER_REPORT", "USERS_NUMBER_GET"))

AlrmRptSet(f) == Of(f, "ALARM", << Rpt("ALARM_REPORT") >>)
AlrmGet(f, poll) == Of(f, "ALARM", FetchOrPoll(poll, "ALARM_GET"))
AlrmSet(f) == Of(f, "ALARM", From(f, 2, Set("ALARM_SET")))
AlrmSupGet(f) ==
  Of(f, "ALARM", From(f, 2, << Cached("ALARM_TYPE") >> \o
                            Ask("ALARM_TYPE_SUPPORTED_REPORT", "ALARM_TYPE_SUPPORTED_GET")))

(* Only events of a type that is kept come from the cache.                   *)
AlrmSupEvtGet(f, kept) ==
  Of(f, "ALARM",
     From(f, 3, (IF kept THEN << Cached("ALARM_EVENT") >> ELSE << >>) \o
                Ask("EVENT_SUPPORTED_REPORT", "EVENT_SUPPORTED_GET")))

BatteryRptSet(f) == Of(f, "BATTERY", << Rpt("BATTERY_REPORT") >>)
BatteryGet(f, poll) == Of(f, "BATTERY", FetchOrPoll(poll, "BATTERY_GET"))

PowerLevels == 0 .. 9
PowerLevelRptSet(f) == Of(f, "POWERLEVEL", << Rpt("POWERLEVEL_REPORT") >>)
PowerLevelTestRptSet(f) == Of(f, "POWERLEVEL", << Rpt("POWERLEVEL_TEST_NODE_REPORT") >>)
PowerLevelGet(f) == Of(f, "POWERLEVEL", Fetch("POWERLEVEL_GET"))
PowerLevelSet(f, lvl, timeout) ==
  Of(f, "POWERLEVEL", Valid(timeout # 0 /\ lvl \in PowerLevels, Set("POWERLEVEL_SET")))
PowerLevelTestGet(f) == Of(f, "POWERLEVEL", Fetch("POWERLEVEL_TEST_NODE_GET"))
PowerLevelTestSet(f, node, lvl, frames) ==
  Of(f, "POWERLEVEL", Valid(node # 0 /\ lvl \in PowerLevels /\ frames # 0,
                            Set("POWERLEVEL_TEST_NODE_SET")))

DrlogRecSupGet(f) ==
  Of(f, "DOOR_LOCK_LOGGING",
     << Cached("MAX_DRLOG_REC") >> \o
     Ask("RECORDS_SUPPORTED_REPORT", "RECORDS_SUPPORTED_GET"))
DrlogRecGet(f) == Of(f, "DOOR_LOCK_LOGGING", Fetch("RECORD_GET"))

FwInfoGet(f) == Of(f, "FIRMWARE_UPDATE_MD", Ask("FIRMWARE_MD_REPORT", "FIRMWARE_MD_GET"))
=============================================================================
