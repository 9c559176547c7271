\* Three migration files, two runners; two sites and a box for one sandbox; two
\* visitors; four services; every kind of vehicle, which may be late once; another
\* master may dispatch the sound ones once, at any step.
SPECIFICATION MCSpec
CONSTANTS
  s1 = s1
  s2 = s2
  t1 = t1
  t2 = t2
  v1 = v1
  v2 = v2
  Files = {1, 2, 3}
  OptIn = {2}
  Checksums = {"c1", "c2"}
  Original = "c1"
  Edited = {1, 3}
  Runners = {"r1", "r2"}
  Sites = {s1, s2}
  Threads = {t1, t2}
  Cleaners = {"sweeper", "reaper"}
  MaxInflight = 2
  MaxLive = 1
  DbMaxLive = 2
  TTL = 1
  MaxTime = 2
  Visitors = {v1, v2}
  Limit = 2
  Window = 2
  MaxKeys = 1
  CacheFor = 1
  Services = 4
  Loopback = TRUE
  Embedded = TRUE
  Vehicles <- EveryVehicle
  Ticks <- ShortWaits
  MaxLate = 1
  MaxRedispatches = 1
INVARIANTS
  SchemaIsPrefix
  RunsOnceAlone
  CeilingKept
  NoSlotLeaked
  QuotaKept
  CacheIsFresh
  ServersOutliveClients
  NothingLeftBehind
  OneDefectOneFinding
  ReplayReproducesReport
PROPERTIES
  SimulatorsStop
CHECK_DEADLOCK FALSE
