------------------------------- MODULE IfHome -------------------------------
(* The functions of zw_api_intf.c for sensors, meters, switches and audio    *)
(* and video.                                                                 *)
EXTENDS IfCall

NamelocSet(f) == Of(f, "NODE_NAMING", Set("NODE_NAME_SET") \o Set("NODE_LOCATION_SET"))

BsensorRptSet(f) == Of(f, "SENSOR_BINARY", << Rpt("SENSOR_BINARY_REPORT") >>)
BsensorGet(f, poll) == Of(f, "SENSOR_BINARY", FetchOrPoll(poll, "SENSOR_BINARY_GET"))

SensorRptSet(f) == Of(f, "SENSOR_MULTILEVEL", << Rpt("SENSOR_MULTILEVEL_REPORT") >>)

(* The unit is looked at after the identifier has been set.                  *)
SensorGet(f, type, unit, poll) ==
  Of(f, "SENSOR_MULTILEVEL",
     IF f.ver >= 5 /\ type # 0 /\ unit > 3
     THEN (IF poll THEN << >> ELSE << Id >>) \o Refused("VALUE")
     ELSE FetchOrPoll(poll, "SENSOR_MULTILEVEL_GET"))

SensorSupGet(f) ==
  Of(f, "SENSOR_MULTILEVEL",
     From(f, 5, Ask("SENSOR_SUPPORTED_SENSOR_REPORT", "SENSOR_SUPPORTED_GET_SENSOR")))
SensorSupCacheGet(f) == Of(f, "SENSOR_MULTILEVEL", << Peek >>)
SensorUnitGetOther(f, type) == \* mutated form
  Of(f, "SENSOR_MULTILEVEL",
     From(f, 5, Ask("SENSOR_SUPPORTED_SENSOR_REPORT", "SENSOR_SUPPORTED_GET_SCALE")))
SensorUnitGet(f, type) ==
  Of(f, "SENSOR_MULTILEVEL",
     From(f, 5, Valid(type # 0, Ask("SENSOR_SUPPORTED_SCALE_REPORT",
                                    "SENSOR_SUPPORTED_GET_SCALE"))))

MeterRptSet(f) == Of(f, "METER", << Rpt("METER_REPORT") >>)
MeterGet(f, poll) == Of(f, "METER", FetchOrPoll(poll, "METER_GET"))
MeterSupGet(f) ==
  Of(f, "METER", From(f, 2, << Cached("METER") >> \o
                            Ask("METER_SUPPORTED_REPORT", "METER_SUPPORTED_GET")))
MeterReset(f) == Of(f, "METER", From(f, 2, Set("METER_RESET")))
MeterSetAdmin(f) == Of(f, "METER_TBL_CONFIG", Set("METER_TBL_TABLE_POINT_ADM_NO_SET"))
MeterGetDesc(f) ==
  Of(f, "METER_TBL_MONITOR",
     << Cached("METER_DESC"), Rpt("METER_TBL_TABLE_ID_REPORT"),
        TryRpt("METER_TBL_TABLE_POINT_ADM_NO_REPORT") >> \o Fetch("METER_TBL_TABLE_ID_GET"))

PulsemeterRptSet(f) == Of(f, "METER_PULSE", << Rpt("METER_PULSE_REPORT") >>)
PulsemeterGet(f) == Of(f, "METER_PULSE", Fetch("METER_PULSE_GET"))

AvCaps(f) ==
  Of(f, "SIMPLE_AV_CONTROL",
     << Cached("AV"), Rpt("SIMPLE_AV_CONTROL_REPORT"),
        Rpt("SIMPLE_AV_CONTROL_SUPPORTED_REPORT") >> \o Fetch("SIMPLE_AV_CONTROL_GET"))

DataSizes == {1, 2, 4}
ConfigSet(f, size) ==
  Of(f, "CONFIGURATION",
     Valid(size \in DataSizes, << Id, Alloc, Send("CONFIGURATION_SET") >>))
ConfigRptSet(f) == Of(f, "CONFIGURATION", << Rpt("CONFIGURATION_REPORT") >>)
ConfigGet(f) == Of(f, "CONFIGURATION", Fetch("CONFIGURATION_GET"))

Percent(v) == v \in 0 .. 99 \union {255}
LevelSet(f, v) == Of(f, "SWITCH_MULTILEVEL", Valid(Percent(v), Set("SWITCH_MULTILEVEL_SET")))

(* Version 2 knows two directions, later ones a second switch and "none".    *)
SwitchDirs == {0, 1, 3}
LevelStart(f, level, ignore, pri, sec, step) ==
  Of(f, "SWITCH_MULTILEVEL",
     Valid(/\ ignore \/ level <= 99
           /\ IF f.ver <= 2 THEN pri <= 1
              ELSE Percent(step) /\ pri \in SwitchDirs /\ sec \in SwitchDirs,
           Set("SWITCH_MULTILEVEL_START_LEVEL_CHANGE")))
LevelStop(f) == Of(f, "SWITCH_MULTILEVEL", Set("SWITCH_MULTILEVEL_STOP_LEVEL_CHANGE"))
LevelRptSet(f) == Of(f, "SWITCH_MULTILEVEL", << Rpt("SWITCH_MULTILEVEL_REPORT") >>)
LevelGet(f, poll) == Of(f, "SWITCH_MULTILEVEL", FetchOrPoll(poll, "SWITCH_MULTILEVEL_GET"))
LevelSupGet(f) ==
  Of(f, "SWITCH_MULTILEVEL",
     << Cached("MUL_SWITCH") >> \o
     Ask("SWITCH_MULTILEVEL_SUPPORTED_REPORT", "SWITCH_MULTILEVEL_SUPPORTED_GET"))

SwitchSet(f) == Of(f, "SWITCH_BINARY", Set("SWITCH_BINARY_SET"))
SwitchRptSet(f) == Of(f, "SWITCH_BINARY", << Rpt("SWITCH_BINARY_REPORT") >>)
SwitchGet(f, poll) == Of(f, "SWITCH_BINARY", FetchOrPoll(poll, "SWITCH_BINARY_GET"))
=============================================================================
