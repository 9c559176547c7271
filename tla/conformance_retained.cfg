\* A running vehicle that retains its state messages.
SPECIFICATION RunSpec
CONSTANTS
  Vehicles <- RunningRetainer
  Ticks <- ShortWaits
  MaxLate = 0
  MaxRedispatches = 0
INVARIANT OneDefectOneFinding
CHECK_DEADLOCK FALSE
