\* A fault strikes a paused robot.
SPECIFICATION Spec
CONSTANTS
  Nodes <- Corridor
  TaskNodes <- Tasks
  ChargerNodes <- Chargers
  Route <- Paths
  NearestCharger <- Dock
  Verbs <- PauseResume
  FaultKinds <- OneFault
  FaultTicks = 2
  InitPosition = FALSE
  Orders <- NoOrders
  Redelivery = FALSE
  Repeats = 1
  MaxActions = 1
PROPERTIES
  HoldIsKept
CHECK_DEADLOCK FALSE
