------------------------------ MODULE MCStores ------------------------------
(* Instances of Downloads and Builds for TLC: a behaviour is one of the     *)
(* downloads or of the build tool.                                          *)
EXTENDS Downloads

CONSTANTS
  \* Builds
  MaxVersion, MaxCommands, MaxFaults, Profiles, Variants

\* Upstream publishes a first version, and versions are numbers.
ASSUME VersionAssumption == MaxVersion \in Nat \ {0}

VARIABLES
  part,
  index, archive, unpacked, flat, target, seen, unstaged, app, dist, cmd, said, commands, faults

buildVars ==
  <<index, archive, unpacked, flat, target, seen, unstaged, app, dist, cmd, said, commands, faults>>

Tool == INSTANCE Builds

PartsInit == part \in {"downloads", "builds"} /\ Init /\ Tool!Init

OfDownloads(action) == part = "downloads" /\ action /\ UNCHANGED <<part, buildVars>>
OfBuilds(action) == part = "builds" /\ action /\ UNCHANGED <<part, vars>>

allVars == <<part, vars, buildVars>>

\* The fairness of Downloads.
PartsSpec ==
  /\ PartsInit
  /\ [][OfDownloads(Next) \/ OfBuilds(Tool!Next)]_allVars
  /\ WF_allVars(OfDownloads(TimePasses))
  /\ WF_allVars(OfDownloads(Expire))

\* Builds: what is fetched is whole, and is what the packages hold.
WhatShipsIsSound == [](part = "builds" => Tool!ShippedIsSound) /\ Tool!FetchedIsShipped
=============================================================================
