\* Session: two tabs opened per run, three in the first session, one address that
\* a restore drops.  EditFocus: two tabs whose pages have the same two fields, a
\* queue of two events and one message on its way to each page.  The browser
\* may be off for good.
CONSTANTS
  Urls = {"home", "page", "script"}
  Home = "home"
  Safe = {"home", "page"}
  LoopWindow = 1
  LoopThreshold = 2
  Debounce = 2
  MaxTabs = 2
  MaxSaved = 3
  MaxLaunches = 3
  StackCap = 0
  Tabs = {a, b}
  Fields = {f1, f2}
  NoField = none
  SinkCap = 2
  MaxSent = 1
SYMMETRY EditSymmetry
SPECIFICATION PartsSpec
INVARIANTS
  UnsavedIsNoticed
  InSync
PROPERTIES
  
  NoFieldIsLeft
CHECK_DEADLOCK FALSE
