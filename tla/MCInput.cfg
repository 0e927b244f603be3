CONSTANTS
  Tabs = {t1, t2}
  NoTab = none
  SlotOf <- MCSlotOf
  Keymaps <- MCKeymaps
  MaxTyped = 1
  Chars <- MCChars
  Prefills <- MCPrefills
  Clips <- MCClips
  Rows <- MCRows
  EngineWords <- Letter
  Schemes <- Letter
  Verbs <- MCVerbs
  MaxSuggestions = 2
  MaxText = 2
  MaxCommand = 3
  MaxQuery = 1
SPECIFICATION PartsSpec
INVARIANTS
  OwnHints
  BarIsSound
PROPERTIES
  BindingsEnd
  EscLeaves
  FindFollowsTheBar
