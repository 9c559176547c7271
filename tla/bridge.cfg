\* Loop: the backend may ignore the site filter and omit the site_id column, one row
\* is of another site, one may be decided twice, one names an unsupported verb, the
\* robots are unknown to the table, and the bridge and the simulator restart once. Ingest: three messages, two changes of
\* the configuration. Commanded: two rows, one order, faults and a restart.
SPECIFICATION MCSpec
CONSTANTS
  r1 = r1
  r2 = r2
  r3 = r3
  NCommands = 5
  Robots <- ThreeRobots
  Target <- Addressees
  Home <- ButFourth
  Supported <- ButFifth
  Registered <- NoRobot
  BackendFilters <- Lenient
  BackendColumns <- Lenient
  MaxStalePatches = 1
  Limit = 2
  Repeats = 1
  MaxFailures = 2
  MaxDrops = 1
  MaxBridgeRestarts = 1
  MaxSimRestarts = 1
  UpCap = 1
  PromptRegister = FALSE
  Errors = {"e"}
  Messages <- States
  Thresholds = {1, 2}
  Hysteresis = 1
  Brokers = {"b1", "b2"}
  Initial = "b1"
  Battery = 2
  MaxMessages = 3
  MaxPolls = 2
  Self = r3
  Verb <- Cmds
  Nodes = {"a"}
  TaskNodes = {"a"}
  ChargerNodes = {"a"}
  Route <- NoWay
  NearestCharger <- Here
  FaultKinds = {"motor_overtemp"}
  FaultTicks = 2
  InitPosition = FALSE
  Orders <- OneOrder
  Redelivery = FALSE
  TaskRepeats = 1
  MaxActions = 0
INVARIANTS
  OnlyApprovedIsApplied
  RowTellsOutcome
  AppliedOncePerLife
  EveryOccurrenceAlerted
  SourceInUse
  StopHolds
PROPERTIES
  PublishesOnlyApproved
  ImplementsGate
  HoldEndsByApproval
CHECK_DEADLOCK FALSE
