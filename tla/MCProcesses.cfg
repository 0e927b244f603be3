\* Three invocations on one profile, each with any payload; every race for the
\* lock and the socket, and a crash at every point.  The run ends when all did.
CONSTANTS
  Procs = {p1, p2, p3}
  None = None
  Attempts = 2
  Openers = {"app", "cli"}
  Knows <- MCKnows
  Links = {"a", "b"}
  Titles = {"t"}
  Raw = {"Ab", " "}
  Normal <- MCNormal
  Docs <- MCDocs
  MaxDepth = 2
  MaxTags = 3
  MaxCommits = 5
  Tabs = {t1, t2}
  Urls = {"a", "own", "data"}
  Internal = {"own"}
  Skipped = {"data"}
  Domain <- MCSite
  Place <- MCSite
  TitlesOf <- MCTitlesOf
  Codes = {"keyword"}
  Window = 1
  Recent = 2
  ClearsHistory = TRUE
  MaxNow = 2
  MaxRows = 2
  MaxLevel = 1
  MaxFaults = 1
  Numbers = {1, 2}
  Addresses = {"a", "b"}
  Origin <- MCOrigin
  Cached = TRUE
  ShowIcons = TRUE
  MaxFetches = 1
SYMMETRY ProcSymmetry
SPECIFICATION PartsSpec
INVARIANTS
  OwnerIsReached
  OpenedAtMostOnce
  
  StoreIsWhole
  
CHECK_DEADLOCK FALSE
