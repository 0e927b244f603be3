----------------------------- MODULE WebKitTabs -----------------------------
(***************************************************************************)
(* The tab list of a WebKit engine: a sequence of tabs and the index of    *)
(* the active one, 0 for none.  The worker keeps the list of the live      *)
(* views (WpeRuntime) and, behind a lock, a mirror of it that the          *)
(* application reads (EngineState); both change by the operators of this   *)
(* module.  The tabs of a list are records with a field id.                *)
(*                                                                         *)
(* A definition X_variant marked (mutant) is X as a plausible bug would    *)
(* have it; no action uses it.                                             *)
(***************************************************************************)
EXTENDS Naturals, Sequences, SequencesExt

EmptyList == [tabs |-> <<>>, active |-> 0]

Positions(l) == 1 .. Len(l.tabs)
Ids(l) == {l.tabs[i].id : i \in Positions(l)}
PositionOf(l, id) == CHOOSE i \in Positions(l) : l.tabs[i].id = id
ActiveTab(l) == l.tabs[l.active]
IsActive(l, id) == l.active # 0 /\ ActiveTab(l).id = id

\* open_tab: the tab goes to the end, and to the front unless it is for the
\* background.
Pushed(l, tab, background) ==
  [tabs |-> Append(l.tabs, tab),
   active |-> IF background THEN l.active ELSE Len(l.tabs) + 1]

\* select_tab, of another tab than the active one.
Selected(l, id) == [l EXCEPT !.active = PositionOf(l, id)]

\* close_active: the tab that moves into the gap takes over, or the new last.
WithoutActive(l) ==
  LET left == RemoveAt(l.tabs, l.active)
  IN  [tabs |-> left, active |-> IF l.active > Len(left) THEN Len(left) ELSE l.active]

\* close_tab.
Without(l, id) ==
  LET i == PositionOf(l, id)
  IN  IF IsActive(l, id) THEN WithoutActive(l)
      ELSE [tabs |-> RemoveAt(l.tabs, i),
            active |-> IF i < l.active THEN l.active - 1 ELSE l.active]

\* move_tab: the target counts before the removal, so a tab moved to the right
\* lands one short of it; the active tab is found again by its id.
Moved(l, from, to) ==
  LET target == IF to > from THEN to - 1 ELSE to
      order == InsertAt(RemoveAt(l.tabs, from), target, l.tabs[from])
  IN  [tabs |-> order,
       active |-> IF l.active = 0 THEN 0
                  ELSE PositionOf([l EXCEPT !.tabs = order], ActiveTab(l).id)]

\* next_tab and prev_tab read the neighbour off the list, around the ends.
Neighbour(l, forward) ==
  LET n == Len(l.tabs)
  IN  l.tabs[IF forward THEN (l.active % n) + 1
             ELSE IF l.active = 1 THEN n ELSE l.active - 1].id
=============================================================================
