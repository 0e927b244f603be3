------------------------------- MODULE MCTabs -------------------------------
(* Instances of Tabs for TLC.                                              *)
EXTENDS Tabs
=============================================================================
