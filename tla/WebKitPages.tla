----------------------------- MODULE WebKitPages ----------------------------
(***************************************************************************)
(* The views of a WebKit engine as its worker thread drives them           *)
(* (WpeRuntime, TabEntry): which tab may paint into the one frame the      *)
(* application shows, and which tabs it has been told are audible.         *)
(*                                                                         *)
(* WebKit hands a view one buffer at a time and waits until it is          *)
(* acknowledged.  The view of the front tab copies the buffer into the     *)
(* shared frame and acknowledges it; any other view parks it, which is how *)
(* a background tab is put to rest.  A tab that comes to the front must    *)
(* therefore acknowledge what it parked, or it never paints again.  The    *)
(* frame carries no tab: a flag (needs_fresh) tells the application to     *)
(* wait for a buffer of the new front tab.                                 *)
(*                                                                         *)
(* Everything here runs on the worker thread, so each operation is one     *)
(* step.  Which operation comes next is up to the application and to the   *)
(* pages; WebKitChannel models how the operations arrive.  A buffer the    *)
(* frame-rate limit skips, or that fails to import, is acknowledged and    *)
(* leaves no trace: such a step changes nothing here.                      *)
(***************************************************************************)
EXTENDS WebKitTabs, FiniteSets

CONSTANT MaxTabs      \* bound: tabs opened in one run

VARIABLES
  list,        \* WpeRuntime::tabs and active_idx: [id, front, parked, playing]
  made,        \* next_id - 1
  frame,       \* the shared OsrFrame: whose pixels it holds, ~needs_fresh
  announced    \* the tabs whose last audio event said `active'

vars == <<list, made, frame, announced>>

Nobody == 0

-----------------------------------------------------------------------------
Init ==
  /\ list = EmptyList
  /\ made = 0
  /\ frame = [of |-> Nobody, fresh |-> TRUE]
  /\ announced = {}

\* Every tab but the active one loses the front.
Hidden(l) ==
  IF l.active = 0 THEN l ELSE [l EXCEPT !.tabs[l.active].front = FALSE]

\* The active tab gets the front, and TabEntry::show acknowledges its parked
\* buffer and makes the page paint again.
Shown(l) ==
  IF l.active = 0 THEN l
  ELSE [l EXCEPT !.tabs[l.active].front = TRUE, !.tabs[l.active].parked = FALSE]

NewTab(front) == [id |-> made + 1, front |-> front, parked |-> FALSE, playing |-> FALSE]

\* needs_fresh.
Awaited(f) == [f EXCEPT !.fresh = FALSE]

\* open_tab.
OpenTab(background) ==
  /\ made < MaxTabs
  /\ made' = made + 1
  /\ list' = Pushed(IF background THEN list ELSE Hidden(list), NewTab(~background), background)
  /\ frame' = IF background THEN frame ELSE Awaited(frame)
  /\ UNCHANGED announced

\* open_tab when WebKit cannot make the view: the tab before comes back.
OpenFails(background) ==
  /\ made < MaxTabs
  /\ made' = made + 1
  /\ list' = IF background THEN list ELSE Shown(Hidden(list))
  /\ UNCHANGED <<frame, announced>>

\* select_tab.
SelectTab(id) ==
  /\ id \in Ids(list) /\ ~IsActive(list, id)
  /\ list' = Shown(Selected(Hidden(list), id))
  /\ frame' = Awaited(frame)
  /\ UNCHANGED <<made, announced>>

\* Drop for TabEntry: the tab is announced silent; its buffer goes with it.
Silenced(id) == announced \ {id}

\* close_active, of the active tab or by close_tab.
CloseActive ==
  /\ list.active # 0
  /\ announced' = Silenced(ActiveTab(list).id)
  /\ list' = Shown(WithoutActive(list))
  /\ frame' = Awaited(frame)
  /\ UNCHANGED made

\* close_tab, of a tab in the background.
CloseTab(id) ==
  /\ id \in Ids(list) /\ ~IsActive(list, id)
  /\ announced' = Silenced(id)
  /\ list' = Without(list, id)
  /\ UNCHANGED <<made, frame>>

\* move_tab.
MoveTab(from, to) ==
  /\ from \in Positions(list) /\ to \in Positions(list) /\ from # to
  /\ list' = Moved(list, from, to)
  /\ UNCHANGED <<made, frame, announced>>

\* navigate and resize: the front tab has to paint anew.
Repaint ==
  /\ frame' = Awaited(frame)
  /\ UNCHANGED <<list, made, announced>>

\* (mutant) Any view paints.
MayPaint_any(tab) == TRUE

\* The is_active gate of buffr_rust_render_buffer.
MayPaint(tab) == tab.front

\* buffr_rust_render_buffer: WebKit has a buffer for the tab, none being held.
RenderBuffer(i) ==
  LET tab == list.tabs[i]
  IN  /\ ~tab.parked
      /\ IF MayPaint(tab)
           THEN frame' = [of |-> tab.id, fresh |-> TRUE] /\ UNCHANGED list
           ELSE list' = [list EXCEPT !.tabs[i].parked = TRUE] /\ UNCHANGED frame
      /\ UNCHANGED <<made, announced>>

\* on_audio_script_message: told only when it differs from what was said last.
AudioChanges(i) ==
  LET tab == list.tabs[i]
  IN  /\ list' = [list EXCEPT !.tabs[i].playing = ~@]
      /\ announced' = IF tab.playing THEN announced \ {tab.id} ELSE announced \cup {tab.id}
      /\ UNCHANGED <<made, frame>>

RenderActive == list.active # 0 /\ RenderBuffer(list.active)

Next ==
  \/ \E background \in BOOLEAN : OpenTab(background) \/ OpenFails(background)
  \/ \E id \in Ids(list) : SelectTab(id) \/ CloseTab(id)
  \/ CloseActive
  \/ \E from, to \in Positions(list) : MoveTab(from, to)
  \/ Repaint
  \/ \E i \in Positions(list) : RenderBuffer(i) \/ AudioChanges(i)

\* A shown view always has a paint to make, because showing it resizes it
\* twice, and WebKit emits it once the buffer before is acknowledged.
Spec == Init /\ [][Next]_vars /\ WF_vars(RenderActive)

-----------------------------------------------------------------------------
(* Properties.                                                             *)

\* Pixels the application may take for the active tab's are the active
\* tab's: no sequence of opening, failing, closing, moving and selecting lets
\* it show one page under the address of another (is_active, needs_fresh).
FreshIsActives ==
  /\ \A i \in Positions(list) : list.tabs[i].front <=> i = list.active
  /\ frame.fresh /\ list.active # 0 /\ frame.of # Nobody => frame.of = ActiveTab(list).id

\* The last audio event of a tab agrees with its page, and a tab that is gone
\* has been announced silent, so that nothing keeps the machine awake for it
\* (on_audio_script_message, Drop for TabEntry).
AnnouncedIsPlaying ==
  announced = {list.tabs[i].id : i \in {j \in Positions(list) : list.tabs[j].playing}}

\* What the application shows and hears of is what the pages do.
SeenAndHeard == FreshIsActives /\ AnnouncedIsPlaying

\* The tab in front always paints again, whatever it parked while it was
\* hidden (TabEntry::show, ack_pending_buffer).
FrontIsPainted == list.active = 0 \/ (frame.fresh /\ frame.of = ActiveTab(list).id)
FrontPaints == []<>FrontIsPainted
=============================================================================
