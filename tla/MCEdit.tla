------------------------------- MODULE MCEdit --------------------------------
EXTENDS EditFocus

EditSymmetry == Permutations(Tabs) \cup Permutations(Fields)
=============================================================================
