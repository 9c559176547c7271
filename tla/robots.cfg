\* Stops when no action can be minted any more.
SPECIFICATION Spec
CONSTANTS
  Nodes <- Corridor
  TaskNodes <- Tasks
  ChargerNodes <- Chargers
  Route <- Paths
  NearestCharger <- Dock
  Verbs <- AllVerbs
  FaultKinds <- TwoFaults
  FaultTicks = 2
  InitPosition = TRUE
  Orders <- FreshActions
  Redelivery = FALSE
  Repeats = 1
  MaxActions = 2
INVARIANTS
  RowsAgree
PROPERTIES
  StatusAdvancesOnly
  ProgressKept
  ActionAccounted
CHECK_DEADLOCK FALSE
