\* One robot, and one request of the sink fails.
SPECIFICATION FairSpec
CONSTANTS
  Robots = {r1}
  Tunings <- OneSetting
  Cap = 3
  MaxChanges = 2
  MaxFailedPolls = 0
  MaxLostWrites = 1
  MaxFailedSeeds = 0
  MaxRestarts = 0
  MaxRetunes = 0
PROPERTIES
  RederivesState
