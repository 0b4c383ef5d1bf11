CONSTANTS
  Ops = {"ADD_NODE", "RM_NODE", "RP_NODE", "RM_FAILED_ID", "INITIATE", "UPDATE",
         "RESET", "MIGRATE_SUC", "MIGRATE", "NODE_UPDATE", "SEND_NIF"}
  Abortable = {"INITIALIZE", "ADD_NODE", "RM_NODE", "INITIATE", "MIGRATE_SUC", "MIGRATE", "NODE_UPDATE"}
  Races = {}
  Fails = {}
  MaxNodes = 2
  Retries = 1
  MaxBegins = 3
SPECIFICATION NetOpFairSpec
INVARIANTS RunsForCurrOp
PROPERTY ImplementsNetOp
CHECK_DEADLOCK FALSE
