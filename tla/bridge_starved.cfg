\* Two lost commands fill the Limit oldest rows of every GET.
SPECIFICATION FairSpec
CONSTANTS
  r1 = r1
  NCommands = 3
  Robots <- OneRobot
  Target <- AllToOne
  Home <- AllRows
  Supported <- AllRows
  Registered <- OneRobot
  BackendFilters <- Honest
  BackendColumns <- Honest
  MaxStalePatches = 0
  Limit = 2
  Repeats = 3
  MaxFailures = 0
  MaxDrops = 2
  MaxBridgeRestarts = 0
  MaxSimRestarts = 0
  UpCap = 1
  PromptRegister = TRUE
PROPERTIES
  ApprovedIsPublished
CHECK_DEADLOCK FALSE
