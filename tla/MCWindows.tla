----------------------------- MODULE MCWindows -----------------------------
(* Instances of Permissions, Popups, Pointer and Navigation for TLC.  They *)
(* share no variable, so one run checks the four: a behaviour is one of    *)
(* the permission prompt, of popup windows, of the pointer or of pages.    *)
EXTENDS Permissions

CONSTANTS
  \* Popups
  PopupIds, AllocCap, WindowCap, MaxPopupMoves,
  \* Pointer
  PopupWindows, None, Scale, Columns, DragThreshold, Threshold, MaxSpeed, MaxActs,
  \* Navigation
  cef, alt, StackCap, Default, Sites, Home, Loop, MaxTabs, MaxMoves

\* A threshold is a number, and no button or surface is none.
ASSUME PointerAssumption ==
  Threshold \in Nat /\ None \notin PopupWindows \cup {"main", "left", "middle", "right"}

TwoInstances == <<cef, alt>>

VARIABLES
  part,
  phase, popupActive, popupMoves, life, home, told, pendingAllocs, old, routed, browsers,
  creates, closes, moved, address, windows, url,
  over, held, bits, click, dragStart, dragSrc, visual, modal, swipe,
  travel, speed, acts,
  stage, rules, engines, cur, strips, tabs, sink, pending, moves

popupVars ==
  <<phase, popupActive, popupMoves, life, home, told, pendingAllocs, old, routed, browsers,
    creates, closes, moved, address, windows, url>>
pointerVars ==
  <<over, held, bits, click, dragStart, dragSrc, visual, modal, swipe,
    travel, speed, acts>>
navVars == <<stage, rules, engines, cur, strips, tabs, sink, pending, moves>>

Popup == INSTANCE Popups
  WITH Popups <- PopupIds, MaxMoves <- MaxPopupMoves, active <- popupActive,
       moves <- popupMoves, pending <- pendingAllocs
Points == INSTANCE Pointer
Nav == INSTANCE Navigation WITH Instances <- TwoInstances

NavIdle ==
  /\ stage = "none" /\ rules = 0 /\ engines = 0 /\ cur = 0 /\ strips = 0 /\ tabs = 0
  /\ sink = 0 /\ pending = 0 /\ moves = 0

PartsInit ==
  /\ part \in {"permissions", "popups", "pointer", "navigation"}
  /\ Init /\ Popup!Init /\ Points!Init
  /\ IF part = "navigation" THEN Nav!Init ELSE NavIdle

OfPermissions(action) ==
  part = "permissions" /\ action /\ UNCHANGED <<part, popupVars, pointerVars, navVars>>
OfPopups(action) == part = "popups" /\ action /\ UNCHANGED <<part, vars, pointerVars, navVars>>
OfPointer(action) == part = "pointer" /\ action /\ UNCHANGED <<part, vars, popupVars, navVars>>
OfNavigation(action) ==
  part = "navigation" /\ action /\ UNCHANGED <<part, vars, popupVars, pointerVars>>

allVars == <<part, vars, popupVars, pointerVars, navVars>>

\* The fairness of Permissions; the others need none.
PartsSpec ==
  /\ PartsInit
  /\ [][\/ OfPermissions(Next) \/ OfPopups(Popup!Next)
        \/ OfPointer(Points!Next) \/ OfNavigation(Nav!Next)]_allVars
  /\ WF_allVars(OfPermissions(Tick))

\* Popups: a window has a browser and shows its address; the exit closes all.
PopupsAreKept == []Popup!WindowsFollowBrowsers /\ Popup!AllClosedAtExit

\* Pointer: pages hear of the buttons that are held, and swipes are earned.
GesturesAreTheUsers == Points!GesturesAreTheUsers

\* Navigation: a launch opens what it was asked to.
LaunchOpensAll == Nav!LaunchOpensAll

\* Permissions: the prompt catches up with the queue in front.
PromptFollows == part = "permissions" => PromptCatchesUp
=============================================================================
