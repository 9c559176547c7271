\* One robot and one alert. Detector: the robot's status changes four times, under
\* every kind of failure. Pipeline: from the fault to the channel.
SPECIFICATION MCSpec
CONSTANTS
  Robots = {r1}
  Tunings <- Tuned
  Cap = 3
  MaxChanges = 4
  MaxFailedPolls = 1
  MaxLostWrites = 1
  MaxFailedSeeds = 1
  MaxRestarts = 1
  MaxRetunes = 1
  Alerts = {a1}
  MaxRows = 5
  StateFiles = {TRUE, FALSE}
  DigestThreshold = 1
  BreakerThreshold = 2
  MaxPending = 1
  MaxFailures = 2
  MaxLostReplies = 1
  MaxCrashes = 1
INVARIANTS
  OneOpenPerRobot
  NoLoss
  AnnouncedOnce
  InOrder
PROPERTIES
  OpensConfirmed
  ResolvesConfirmed
  TableConverges
  AlarmIsAnnounced
