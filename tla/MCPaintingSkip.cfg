\* Two sizes, two happenings from outside.
CONSTANTS
  Sizes = {s1, s2}
  None = None
  HistorySize = 1
  SlowToOcclude = 1
  MaxRetries = 1
  MaxEvents = 2
SPECIFICATION Spec
INVARIANT
  SkippedFrameIsRetried
CHECK_DEADLOCK FALSE
