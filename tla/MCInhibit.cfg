\* The default configuration, with either engine: two pages, four changes from outside.
CONSTANTS
  Tabs = {t1, t2}
  AudioOnly = FALSE
  RequireFocus = TRUE
  CmdCap = 2
  MaxStreams = 1
  MaxChanges = 4
SPECIFICATION Spec
PROPERTIES
  VideoKeepsAwake
CHECK_DEADLOCK FALSE
