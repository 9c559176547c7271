\* A fault strikes a robot at an action; afterwards it takes a new order.
SPECIFICATION Spec
CONSTANTS
  Nodes <- Corridor
  TaskNodes <- Tasks
  ChargerNodes <- Chargers
  Route <- Paths
  NearestCharger <- Dock
  Verbs <- None
  FaultKinds <- OneFault
  FaultTicks = 2
  InitPosition = FALSE
  Orders <- Dispatch
  Redelivery = FALSE
  Repeats = 2
  MaxActions = 1
PROPERTIES
  ActionTerminates
CHECK_DEADLOCK FALSE
