\* The code's durations in seconds (the connect grace cut from 20 to 4), sleeps up
\* to a second late, one ping lost to a transient write error.  Two sizes of the
\* window, two happenings from outside.  Two invocations on a profile; no symmetry,
\* which is unsound for liveness.  A child that is gone and invocations that ended
\* stop their part.
CONSTANTS
  Interval = 1
  Jitter = 1
  Liveness = 5
  Timeout = 8
  ConnectGrace = 4
  PostGrace = 2
  ExitGrace = 2
  Skips = 1
  Forever = 18
  Sizes = {s1, s2}
  None = None
  HistorySize = 1
  SlowToOcclude = 1
  MaxRetries = 1
  MaxEvents = 2
  Procs = {p1, p2}
  Attempts = 2
SPECIFICATION PartsSpec
INVARIANTS
  HangsAreKilled
  FramesFit
  NothingIsForgotten
PROPERTIES
  LaunchSettles
CHECK_DEADLOCK FALSE
