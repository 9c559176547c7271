\* A sound vehicle, which another master may dispatch twice, at any step.
SPECIFICATION RunSpec
CONSTANTS
  Vehicles <- SoundVehicle
  Ticks <- ShortWaits
  MaxLate = 1
  MaxRedispatches = 2
INVARIANT SwitchIsNoFault
CHECK_DEADLOCK FALSE
