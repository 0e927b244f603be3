----------------------------- MODULE MCSession ------------------------------
(* Instances of Session and EditFocus for TLC.  They share no variable, so *)
(* one run checks both: a behaviour is one of the saved session or of the  *)
(* focus in the pages.                                                     *)
EXTENDS Session

CONSTANTS Tabs, Fields, NoField, SinkCap, MaxSent   \* EditFocus

ASSUME FieldsAssumption == NoField \notin Fields
ASSUME SinkAssumption == SinkCap \in Nat \ {0}

VARIABLES part, page, sent, sink, app, tracked

focusVars == <<page, sent, sink, app, tracked>>

Edit == INSTANCE EditFocus

EditSymmetry == Permutations(Tabs) \cup Permutations(Fields)

PartsInit ==
  /\ part \in {"session", "edit"}
  /\ Init /\ Edit!Init
  /\ part = "edit" => disk = {}

OfSession(action) == part = "session" /\ action /\ UNCHANGED <<part, focusVars>>
OfEdit(action) == part = "edit" /\ action /\ UNCHANGED <<part, vars>>

PartsSpec ==
  PartsInit /\ [][OfSession(Next) \/ OfEdit(Edit!Next)]_<<part, vars, focusVars>>

\* EditFocus: the mode agrees with the page, unless it could not be known.
InSync == Edit!InSync

\* EditFocus: Insert mode is left with the field.
NoFieldIsLeft == Edit!NoFieldIsLeft
=============================================================================
