\* Two engines with a tab each, and two more tabs on either of them.
CONSTANTS
  Engines = {e1, e2}
  Initial = e1
  StackCap = 1
  MaxTabs = 4
SPECIFICATION Spec
INVARIANTS
  StripsOK
PROPERTIES
  StepsKeepOrder
  
CHECK_DEADLOCK FALSE
