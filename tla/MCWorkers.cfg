\* Session: two tabs opened per run, one in the first session, two launches.
\* WebKit: two places in the channel, three tabs, one permission request; two
\* tabs and three steps from outside for its signals.  Inhibit: two places in the channel, three changes of two
\* pages and the window.  A process that has ended stops its part.
CONSTANTS
  Urls = {"home", "page", "script"}
  Home = "home"
  Safe = {"home", "page"}
  LoopWindow = 1
  LoopThreshold = 2
  Debounce = 2
  MaxOpened = 2
  MaxSaved = 1
  MaxLaunches = 2
  StackCap = 0
  QueueLen = 2
  MaxTabs = 3
  MaxRequests = 1
  MaxSteps = 3
  Tabs = {t1, t2}
  AudioOnly = TRUE
  RequireFocus = TRUE
  CmdCap = 2
  MaxStreams = 2
  MaxChanges = 3
SPECIFICATION PartsSpec
INVARIANTS
  MirrorAgrees
  WhoAsksIsTold
  
PROPERTIES
  EventuallySaved
  
CHECK_DEADLOCK FALSE
