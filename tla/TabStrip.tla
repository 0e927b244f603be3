------------------------------ MODULE TabStrip ------------------------------
(***************************************************************************)
(* The tabs of one BrowserHost (crates/buffr-cef/src/host.rs) and what its *)
(* tab operations make of them.  A strip is a record                       *)
(*                                                                         *)
(*   tabs    the open tabs in order, each with its id and its pinned bit   *)
(*   active  the position of the active tab, 0 for None                    *)
(*   stack   closed_stack: closed tabs kept alive, with their old position *)
(*   shown   ids whose browser was last told was_hidden(0), or nothing     *)
(*   next    next_id                                                       *)
(*                                                                         *)
(* Positions count from 1.  Each operator is a method: it maps the strip   *)
(* before the call to the strip after it.  Everything runs on the UI       *)
(* thread, so a method is one step.                                        *)
(*                                                                         *)
(* A definition named X_mistake is X as a plausible bug would have it.     *)
(***************************************************************************)
EXTENDS Naturals, Sequences, SequencesExt, FiniteSetsExt

CONSTANT StackCap  \* CLOSED_STACK_CAP

ASSUME StackCapAssumption == StackCap \in Nat

Tab(id, pinned) == [id |-> id, pinned |-> pinned]

EmptyStrip == [tabs |-> <<>>, active |-> 0, stack |-> <<>>, shown |-> {}, next |-> 0]

Positions(s) == 1..Len(s.tabs)
Ids(s) == {s.tabs[i].id : i \in Positions(s)}
StashedIds(s) == {s.stack[i].tab.id : i \in DOMAIN s.stack}
PositionOf(s, id) == CHOOSE i \in Positions(s) : s.tabs[i].id = id
\* The id of the active tab as a set: empty when there is none.
ActiveId(s) == {s.tabs[i].id : i \in Positions(s) \cap {s.active}}
PinnedCount(s) == Cardinality({i \in Positions(s) : s.tabs[i].pinned})
IdList(s) == [i \in Positions(s) |-> s.tabs[i].id]

-----------------------------------------------------------------------------
(* Activation.                                                             *)

\* Hides the browser at the old index, unless the index stays the same, and
\* shows the new one.
SetActive(s, i) ==
  IF i \notin Positions(s) THEN s
  ELSE [s EXCEPT !.active = i,
                 !.shown = (IF s.active = i THEN @ ELSE @ \ ActiveId(s)) \cup {s.tabs[i].id}]

SelectId(s, id) == IF id \in Ids(s) THEN SetActive(s, PositionOf(s, id)) ELSE s

Cycled(s, next) ==
  LET n == Len(s.tabs)
      cur == Max({1, s.active})
  IN  IF n <= 1 THEN s
      ELSE SetActive(s, IF next THEN (cur % n) + 1 ELSE ((cur + n - 2) % n) + 1)

-----------------------------------------------------------------------------
(* Opening.                                                                *)

\* create_browser: a new browser starts shown.
Opened(s, background) ==
  LET t == Tab(s.next, FALSE)
      pushed == [s EXCEPT !.tabs = Append(@, t), !.next = @ + 1,
                          !.shown = IF background THEN @ ELSE @ \cup {t.id}]
  IN  IF background THEN pushed ELSE SetActive(pushed, Len(pushed.tabs))

\* open_tab_at: appended in the background, moved to its place, activated.
OpenedAt(s, i) ==
  LET pushed == Opened(s, TRUE)
      last == Len(pushed.tabs)
      at == Min({i, last})
      placed == [pushed EXCEPT !.tabs = InsertAt(Front(@), at, Last(@)),
                               !.active = IF at = last \/ @ < at THEN @ ELSE @ + 1]
  IN  SetActive(placed, at)

-----------------------------------------------------------------------------
(* Pinning and moving.                                                     *)

\* enforce_pinned_ordering: the active index follows its tab.
ActiveAfterSort(s, tabs) ==
  IF ActiveId(s) = {} THEN 0
  ELSE CHOOSE i \in DOMAIN tabs : tabs[i].id \in ActiveId(s)

\* The place of a tab when the pinned ones come first, in the order they have:
\* one for every tab that is not behind it.
PlaceOf(s, i) ==
  Cardinality({j \in Positions(s) : IF s.tabs[j].pinned = s.tabs[i].pinned THEN j <= i ELSE s.tabs[j].pinned})

Partitioned(s) ==
  LET tabs == [k \in Positions(s) |-> s.tabs[CHOOSE i \in Positions(s) : PlaceOf(s, i) = k]]
  IN  [s EXCEPT !.tabs = tabs, !.active = ActiveAfterSort(s, tabs)]

WithPin(s, i, pinned) == Partitioned([s EXCEPT !.tabs[i].pinned = pinned])

ShiftedByMove_unchanged(a, from, to) == IF a = from THEN to ELSE a
ShiftedByMove(a, from, to) ==
  IF a = from THEN to
  ELSE IF from < a /\ to >= a THEN a - 1
  ELSE IF from > a /\ to <= a THEN a + 1
  ELSE a

\* move_tab: within the pinned or the unpinned block of the tab it moves.
Moved(s, from, target) ==
  LET k == PinnedCount(s)
      lo == IF s.tabs[from].pinned THEN 1 ELSE k + 1
      hi == IF s.tabs[from].pinned THEN Max({1, k}) ELSE Len(s.tabs)
      to == Min({Max({target, lo}), hi})
  IN  IF from \notin Positions(s) \/ from = target \/ to = from THEN s
      ELSE [s EXCEPT !.tabs = InsertAt(RemoveAt(@, from), to, s.tabs[from]),
                     !.active = IF @ = 0 THEN 0 ELSE ShiftedByMove(@, from, to)]

-----------------------------------------------------------------------------
(* Closing and reopening.                                                  *)

\* Stashed only if the page is not blank; the oldest entries are dropped.
Stashed(stack, t, i) ==
  LET all == Append(stack, [tab |-> t, at |-> i])
  IN  SubSeq(all, Len(all) - Min({Len(all), StackCap}) + 1, Len(all))

ActiveAfterClose_unshifted(a, removed) == a
ActiveAfterClose(a, removed) == IF removed < a THEN a - 1 ELSE a

\* close_index: what is activated is the tab that follows the closed one,
\* whichever tab was active.
Closed(s, i, blank) ==
  LET t == s.tabs[i]
      rest == [s EXCEPT !.tabs = RemoveAt(@, i), !.shown = @ \ {t.id},
                        !.stack = IF blank THEN @ ELSE Stashed(@, t, i)]
      n == Len(rest.tabs)
  IN  IF n = 0 THEN [rest EXCEPT !.active = 0]
      ELSE SetActive([rest EXCEPT !.active = ActiveAfterClose(@, i)], Min({i, n}))

ClosedId(s, id, blank) == IF id \in Ids(s) THEN Closed(s, PositionOf(s, id), blank) ELSE s

\* reopen_closed_tab: inserts at the old position without touching the active
\* index, activates the restored tab, then sorts the pinned tabs to the front.
Popped(stack) == Front(stack)

Reopened(s) ==
  LET entry == Last(s.stack)
      at == Min({entry.at, Len(s.tabs) + 1})
      back == [s EXCEPT !.stack = Popped(@), !.tabs = InsertAt(@, at, entry.tab),
                        !.shown = @ \cup {entry.tab.id}]
  IN  IF s.stack = <<>> THEN s ELSE Partitioned(SetActive(back, at))
=============================================================================
