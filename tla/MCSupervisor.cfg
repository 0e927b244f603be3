\* The three threads with the watchdog on: two process numbers, so that a number
\* is reused at once, one quit signal, crashes in the crash window and after it.
\* No symmetry, which is unsound for liveness.  A Windows supervisor that ended
\* stops its part.
CONSTANTS
  Pids = {p1, p2}
  NoPid = NoPid
  Window = 0
  Limit = 2
  Heartbeat = TRUE
  RuntimeDir = TRUE
  MaxNow = 1
  MaxSignals = 1
  MaxQueue = 1
  Procs = {q1, q2}
  Private = {q2}
  Items = {a}
  ClearOnExit = {a}
  MaxAttempts = 2
  MaxCount = 2
  MaxPanics = 2
  MaxLaunches = 2
SPECIFICATION PartsSpec
INVARIANTS
  
  StartsAreRight
PROPERTIES
  ContractSpec
  
  NothingHangs
CHECK_DEADLOCK FALSE
