\* One thread that mints, the sweeper, a box for one sandbox.
SPECIFICATION Spec
CONSTANTS
  Sites = {s1, s2, s3}
  Threads = {t1}
  Cleaners = {"sweeper"}
  MaxInflight = 1
  MaxLive = 1
  DbMaxLive = 3
  TTL = 1
  MaxTime = 2
INVARIANTS
  NeverOverCeiling
CHECK_DEADLOCK FALSE
