\* Two tabs whose pages have the same two fields, a queue of two events and
\* one message on its way to each page.
CONSTANTS
  Tabs = {a, b}
  Fields = {f1, f2}
  NoField = none
  SinkCap = 2
  MaxSent = 1
SYMMETRY EditSymmetry
SPECIFICATION Spec
INVARIANTS
  FieldIsFocused
