\* Direct: four rows, the outer two of the executor's site, and backends that honour
\* the filter or not, with the site_id column or without. Missions: two robots,
\* crews of one and two, two tasks each. The two other instances are in MCCommands.
SPECIFICATION MCSpec
CONSTANTS
  r1 = r1
  NCommands = 4
  Home = {1, 4}
  BackendFilters = {TRUE, FALSE}
  BackendColumns = {TRUE, FALSE}
  Limit = 2
  MaxFailures = 1
  Robots = 2
  Target = 2
  MinCrew = 1
  MaxCrew = 2
  Tasks = {2}
  Linger = 1
  MaxMissions = 2
  MaxUpsets = 1
  MaxFailedPosts = 1
INVARIANTS
  AppliedAsApproved
  CompletionIsPosted
PROPERTIES
  KeepsGate
  ApprovedIsClosed
  LoopIsClosed
  CreditsOwnWork
  CrewedMissionEnds
  RunningIsResolved
CHECK_DEADLOCK FALSE
