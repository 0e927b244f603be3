\* Two permission requests of any kind, on one or on two engines.  Three popups,
\* two allocations and one window of them.  One popup window next to the main one,
\* two columns of the page that are a drag apart.  Two engines, two sites, launches
\* with up to two restored tabs and two URLs.
CONSTANTS
  Engines = {"cef", "other"}
  Origins = {"site", "shop"}
  Capabilities = {"camera", "place"}
  MaxRequests = 2
  PopupIds = {1, 2, 3}
  AllocCap = 2
  WindowCap = 1
  MaxPopupMoves = 2
  PopupWindows = {p1}
  None = None
  Scale = 1
  Columns = {0, 10}
  DragThreshold = 4
  Threshold = 2
  MaxSpeed = 1
  MaxActs = 3
  cef = cef
  alt = alt
  StackCap = 1
  Default = cef
  Sites = {a, b}
  Home = home
  Loop = loop
  MaxTabs = 5
  MaxMoves = 2
SPECIFICATION PartsSpec
INVARIANTS
  HeardOnce
  GesturesAreTheUsers
PROPERTIES
  AnswersTheShown
  PromptFollows
  PopupsAreKept
  LaunchOpensAll
CHECK_DEADLOCK FALSE
