CONSTANTS
  Files = {f1, f2}
  Announces = TRUE
  MaxBytes = 1
  MaxNotices = 3
  MaxRuns = 2
  MaxFailures = 1
  MaxVersion = 2
  MaxCommands = 4
  MaxFaults = 1
  Profiles = {"release"}
  Variants = {"all"}
SPECIFICATION PartsSpec
PROPERTIES
  
  EndNoticesGo
  
