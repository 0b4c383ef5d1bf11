------------------------------ MODULE IfTables ------------------------------
(* The tables of zw_api_base.c: which report answers a command, and for      *)
(* which reports an interface of a class and a version takes a callback.     *)
EXTENDS Integers, TLC

cmd_get_resp_tbl ==
  [SENSOR_BINARY |-> [SENSOR_BINARY_GET |-> "SENSOR_BINARY_REPORT"],
   SENSOR_MULTILEVEL |->
     [SENSOR_MULTILEVEL_GET |-> "SENSOR_MULTILEVEL_REPORT",
      SENSOR_SUPPORTED_GET_SENSOR |-> "SENSOR_SUPPORTED_SENSOR_REPORT",
      SENSOR_SUPPORTED_GET_SCALE |-> "SENSOR_SUPPORTED_SCALE_REPORT"],
   METER |-> [METER_GET |-> "METER_REPORT", METER_SUPPORTED_GET |-> "METER_SUPPORTED_REPORT"],
   METER_TBL_MONITOR |-> [METER_TBL_TABLE_ID_GET |-> "METER_TBL_TABLE_ID_REPORT"],
   METER_PULSE |-> [METER_PULSE_GET |-> "METER_PULSE_REPORT"],
   SIMPLE_AV_CONTROL |-> [SIMPLE_AV_CONTROL_GET |-> "SIMPLE_AV_CONTROL_REPORT"],
   CONFIGURATION |-> [CONFIGURATION_GET |-> "CONFIGURATION_REPORT"],
   SWITCH_MULTILEVEL |->
     [SWITCH_MULTILEVEL_GET |-> "SWITCH_MULTILEVEL_REPORT",
      SWITCH_MULTILEVEL_SUPPORTED_GET |-> "SWITCH_MULTILEVEL_SUPPORTED_REPORT"],
   SWITCH_BINARY |-> [SWITCH_BINARY_GET |-> "SWITCH_BINARY_REPORT"],
   ASSOCIATION |->
     [ASSOCIATION_GET |-> "ASSOCIATION_REPORT",
      ASSOCIATION_SPECIFIC_GROUP_GET |-> "ASSOCIATION_SPECIFIC_GROUP_REPORT",
      ASSOCIATION_GROUPINGS_GET |-> "ASSOCIATION_GROUPINGS_REPORT"],
   MULTI_CHANNEL_ASSOCIATION |->
     [ASSOCIATION_GET |-> "ASSOCIATION_REPORT",
      ASSOCIATION_GROUPINGS_GET |-> "ASSOCIATION_GROUPINGS_REPORT"],
   ASSOCIATION_COMMAND_CONFIGURATION |->
     [COMMAND_RECORDS_SUPPORTED_GET |-> "COMMAND_RECORDS_SUPPORTED_REPORT",
      COMMAND_CONFIGURATION_GET |-> "COMMAND_CONFIGURATION_REPORT"],
   WAKE_UP |-> [WAKE_UP_INTERVAL_GET |-> "WAKE_UP_INTERVAL_REPORT"],
   BASIC |-> [BASIC_GET |-> "BASIC_REPORT"],
   DOOR_LOCK |->
     [DOOR_LOCK_OPERATION_GET |-> "DOOR_LOCK_OPERATION_REPORT",
      DOOR_LOCK_CONFIGURATION_GET |-> "DOOR_LOCK_CONFIGURATION_REPORT"],
   USER_CODE |-> [USER_CODE_GET |-> "USER_CODE_REPORT", USERS_NUMBER_GET |-> "USERS_NUMBER_REPORT"],
   ALARM |->
     [ALARM_GET |-> "ALARM_REPORT", ALARM_TYPE_SUPPORTED_GET |-> "ALARM_TYPE_SUPPORTED_REPORT",
      EVENT_SUPPORTED_GET |-> "EVENT_SUPPORTED_REPORT"],
   BATTERY |-> [BATTERY_GET |-> "BATTERY_REPORT"],
   THERMOSTAT_FAN_MODE |->
     [THERMOSTAT_FAN_MODE_GET |-> "THERMOSTAT_FAN_MODE_REPORT",
      THERMOSTAT_FAN_MODE_SUPPORTED_GET |-> "THERMOSTAT_FAN_MODE_SUPPORTED_REPORT"],
   THERMOSTAT_FAN_STATE |-> [THERMOSTAT_FAN_STATE_GET |-> "THERMOSTAT_FAN_STATE_REPORT"],
   THERMOSTAT_MODE |->
     [THERMOSTAT_MODE_GET |-> "THERMOSTAT_MODE_REPORT",
      THERMOSTAT_MODE_SUPPORTED_GET |-> "THERMOSTAT_MODE_SUPPORTED_REPORT"],
   THERMOSTAT_OPERATING_STATE |->
     [THERMOSTAT_OPERATING_STATE_GET |-> "THERMOSTAT_OPERATING_STATE_REPORT"],
   THERMOSTAT_SETBACK |-> [THERMOSTAT_SETBACK_GET |-> "THERMOSTAT_SETBACK_REPORT"],
   THERMOSTAT_SETPOINT |->
     [THERMOSTAT_SETPOINT_GET |-> "THERMOSTAT_SETPOINT_REPORT",
      THERMOSTAT_SETPOINT_SUPPORTED_GET |-> "THERMOSTAT_SETPOINT_SUPPORTED_REPORT"],
   CLOCK |-> [CLOCK_GET |-> "CLOCK_REPORT"],
   CLIMATE_CONTROL_SCHEDULE |->
     [SCHEDULE_GET |-> "SCHEDULE_REPORT", SCHEDULE_CHANGED_GET |-> "SCHEDULE_CHANGED_REPORT",
      SCHEDULE_OVERRIDE_GET |-> "SCHEDULE_OVERRIDE_REPORT"],
   PROTECTION |->
     [PROTECTION_GET |-> "PROTECTION_REPORT",
      PROTECTION_SUPPORTED_GET |-> "PROTECTION_SUPPORTED_REPORT",
      PROTECTION_EC_GET |-> "PROTECTION_EC_REPORT",
      PROTECTION_TIMEOUT_GET |-> "PROTECTION_TIMEOUT_REPORT"],
   INDICATOR |-> [INDICATOR_GET |-> "INDICATOR_REPORT"],
   FIRMWARE_UPDATE_MD |->
     [FIRMWARE_MD_GET |-> "FIRMWARE_MD_REPORT",
      FIRMWARE_UPDATE_MD_REQUEST_GET |-> "FIRMWARE_UPDATE_MD_REQUEST_REPORT"],
   POWERLEVEL |->
     [POWERLEVEL_GET |-> "POWERLEVEL_REPORT",
      POWERLEVEL_TEST_NODE_GET |-> "POWERLEVEL_TEST_NODE_REPORT"],
   DOOR_LOCK_LOGGING |->
     [RECORDS_SUPPORTED_GET |-> "RECORDS_SUPPORTED_REPORT", RECORD_GET |-> "RECORD_REPORT"]]

(* zwnode_get_rpt                                                            *)
NoReport == "none"
Answer(cls, get) ==
  IF cls \in DOMAIN cmd_get_resp_tbl /\ get \in DOMAIN cmd_get_resp_tbl[cls]
  THEN cmd_get_resp_tbl[cls][get] ELSE NoReport

(* Reports by the version of the class that brings them.                     *)
From1(rs) == {<<1, r>> : r \in rs}
Since(v, rs) == {<<v, r>> : r \in rs}

IntfBasic ==
  [BASIC |-> From1({"BASIC_REPORT"}),
   SWITCH_MULTILEVEL |-> From1({"SWITCH_MULTILEVEL_REPORT"}) \union
                         Since(3, {"SWITCH_MULTILEVEL_SUPPORTED_REPORT"}),
   SWITCH_BINARY |-> From1({"SWITCH_BINARY_REPORT"}),
   SWITCH_ALL |-> From1({"SWITCH_ALL_REPORT"}),
   MANUFACTURER_SPECIFIC |-> From1({"MANUFACTURER_SPECIFIC_REPORT"}) \union
                             Since(2, {"DEVICE_SPECIFIC_REPORT"}),
   VERSION |-> From1({"VERSION_REPORT", "VERSION_COMMAND_CLASS_REPORT"}),
   POWERLEVEL |-> From1({"POWERLEVEL_REPORT", "POWERLEVEL_TEST_NODE_REPORT"}),
   CONTROLLER_REPLICATION |-> {},
   NODE_NAMING |-> From1({"NODE_NAMING_NODE_NAME_REPORT", "NODE_NAMING_NODE_LOCATION_REPORT"}),
   SENSOR_BINARY |-> From1({"SENSOR_BINARY_REPORT"}),
   SENSOR_MULTILEVEL |-> From1({"SENSOR_MULTILEVEL_REPORT"}) \union
     Since(5, {"SENSOR_SUPPORTED_SENSOR_REPORT", "SENSOR_SUPPORTED_SCALE_REPORT"})]

IntfGroups ==
  [ASSOCIATION |-> From1({"ASSOCIATION_REPORT", "ASSOCIATION_GROUPINGS_REPORT"}) \union
                   Since(2, {"ASSOCIATION_SPECIFIC_GROUP_REPORT"}),
   ASSOCIATION_COMMAND_CONFIGURATION |->
     From1({"COMMAND_RECORDS_SUPPORTED_REPORT", "COMMAND_CONFIGURATION_REPORT"}),
   MULTI_CHANNEL_ASSOCIATION |-> From1({"ASSOCIATION_REPORT", "ASSOCIATION_GROUPINGS_REPORT"}),
   MULTI_CHANNEL |-> From1({"MULTI_INSTANCE_REPORT"}) \union
     Since(2, {"END_POINT_REPORT", "CAPABILITY_REPORT", "END_POINT_FIND_REPORT"}),
   WAKE_UP |-> From1({"WAKE_UP_INTERVAL_REPORT", "WAKE_UP_NOTIFICATION"}) \union
               Since(2, {"WAKE_UP_INTERVAL_CAPABILITIES_REPORT"})]

IntfMeters ==
  [METER |-> From1({"METER_REPORT"}) \union Since(2, {"METER_SUPPORTED_REPORT"}),
   METER_PULSE |-> From1({"METER_PULSE_REPORT"}),
   CONFIGURATION |-> From1({"CONFIGURATION_REPORT"}),
   METER_TBL_MONITOR |->
     From1({"METER_TBL_TABLE_POINT_ADM_NO_REPORT", "METER_TBL_TABLE_ID_REPORT",
            "METER_TBL_REPORT", "METER_TBL_STATUS_SUPPORTED_REPORT", "METER_TBL_STATUS_REPORT",
            "METER_TBL_CURRENT_DATA_REPORT", "METER_TBL_HISTORICAL_DATA_REPORT"}),
   SIMPLE_AV_CONTROL |-> From1({"SIMPLE_AV_CONTROL_REPORT", "SIMPLE_AV_CONTROL_SUPPORTED_REPORT"}),
   SECURITY |-> From1({"SECURITY_NONCE_REPORT", "SECURITY_SCHEME_REPORT",
                       "NETWORK_KEY_VERIFY", "SECURITY_COMMANDS_SUPPORTED_REPORT"}),
   DOOR_LOCK |-> From1({"DOOR_LOCK_OPERATION_REPORT", "DOOR_LOCK_CONFIGURATION_REPORT"}),
   USER_CODE |-> From1({"USER_CODE_REPORT", "USERS_NUMBER_REPORT"}),
   ALARM |-> From1({"ALARM_REPORT"}) \union Since(2, {"ALARM_TYPE_SUPPORTED_REPORT"}) \union
             Since(3, {"EVENT_SUPPORTED_REPORT"}),
   BATTERY |-> From1({"BATTERY_REPORT"})]

IntfClimate ==
  [THERMOSTAT_FAN_MODE |->
     From1({"THERMOSTAT_FAN_MODE_REPORT", "THERMOSTAT_FAN_MODE_SUPPORTED_REPORT"}),
   THERMOSTAT_FAN_STATE |-> From1({"THERMOSTAT_FAN_STATE_REPORT"}),
   THERMOSTAT_MODE |-> From1({"THERMOSTAT_MODE_REPORT", "THERMOSTAT_MODE_SUPPORTED_REPORT"}),
   THERMOSTAT_OPERATING_STATE |-> From1({"THERMOSTAT_OPERATING_STATE_REPORT"}),
   THERMOSTAT_SETBACK |-> From1({"THERMOSTAT_SETBACK_REPORT"}),
   THERMOSTAT_SETPOINT |->
     From1({"THERMOSTAT_SETPOINT_REPORT", "THERMOSTAT_SETPOINT_SUPPORTED_REPORT"}),
   CLOCK |-> From1({"CLOCK_REPORT"}),
   CLIMATE_CONTROL_SCHEDULE |->
     From1({"SCHEDULE_REPORT", "SCHEDULE_CHANGED_REPORT", "SCHEDULE_OVERRIDE_REPORT"}),
   PROTECTION |-> From1({"PROTECTION_REPORT"}) \union
     Since(2, {"PROTECTION_SUPPORTED_REPORT", "PROTECTION_EC_REPORT",
               "PROTECTION_TIMEOUT_REPORT"})]

IntfOthers ==
  [APPLICATION_STATUS |-> From1({"APPLICATION_BUSY", "APPLICATION_REJECTED_REQUEST"}),
   INDICATOR |-> From1({"INDICATOR_REPORT"}),
   FIRMWARE_UPDATE_MD |->
     From1({"FIRMWARE_MD_REPORT", "FIRMWARE_UPDATE_MD_REQUEST_REPORT",
            "FIRMWARE_UPDATE_MD_STATUS_REPORT", "FIRMWARE_UPDATE_MD_GET"}),
   ZWAVEPLUS_INFO |-> From1({"ZWAVEPLUS_INFO_REPORT"}),
   DEVICE_RESET_LOCALLY |-> From1({"DEVICE_RESET_LOCALLY_NOTIFICATION"}),
   ASSOCIATION_GRP_INFO |-> From1({"ASSOCIATION_GROUP_NAME_REPORT", "ASSOCIATION_GROUP_INFO_REPORT",
                                   "ASSOCIATION_GROUP_COMMAND_LIST_REPORT"}),
   DOOR_LOCK_LOGGING |-> From1({"RECORDS_SUPPORTED_REPORT", "RECORD_REPORT"})]

intf_settings == IntfBasic @@ IntfGroups @@ IntfMeters @@ IntfClimate @@ IntfOthers

(* zwif_create: any class makes an interface, an unknown one without reports.*)
Reports(cls, ver) ==
  IF cls \in DOMAIN intf_settings THEN {p[2] : p \in {q \in intf_settings[cls] : q[1] <= ver}}
  ELSE {}
=============================================================================
