-------------------------------- MODULE Tabs --------------------------------
(***************************************************************************)
(* The tabs of buffr-app: one strip per engine instance, of which one is   *)
(* on screen, and the app's policy on top (apps/buffr-app/src/main.rs,     *)
(* event_loop.rs, context_menu.rs).                                        *)
(*                                                                         *)
(* Window events, forwarded URLs and the work of about_to_wait are all     *)
(* handled on the UI thread, in any order, one at a time.  What can go     *)
(* wrong is what the app remembers from one of them to the next: the tab a *)
(* confirmation is about, the tab a cancelled omnibar closes, the slot a   *)
(* drag began in, and the tab ids last painted.                            *)
(***************************************************************************)
EXTENDS TabStrip

CONSTANTS
  Engines,  \* the configured engine instances
  Initial,  \* the one that is active first
  MaxTabs   \* bound: how many tabs the engines ever open together

ASSUME EnginesAssumption == Initial \in Engines
ASSUME MaxTabsAssumption == MaxTabs \in Nat

None == {}

VARIABLES
  strips,   \* the strip of every engine
  cur,      \* active_engine
  confirm,  \* confirm_close_pinned: no id or one, as a set
  fresh,    \* cancel_closes_tab: the tab that the open omnibar belongs to
  tabIds,   \* tab_ids: the strip as it was painted last
  drag,     \* tab_drag_src, 0 for None
  exiting   \* request_exit was called

vars == <<strips, cur, confirm, fresh, tabIds, drag, exiting>>

host == strips[cur]

Room == MapThenSumSet(LAMBDA e : strips[e].next, Engines) < MaxTabs

Init ==
  /\ strips = [e \in Engines |-> Opened(EmptyStrip, FALSE)]
  /\ cur = Initial
  /\ confirm = None /\ fresh = None
  /\ tabIds = IdList(Opened(EmptyStrip, FALSE)) /\ drag = 0
  /\ exiting = FALSE

\* The result of a method of the active engine, without and with the
\* refresh_tab_strip that the handler ends with.
HostBecomes(s) == strips' = [strips EXCEPT ![cur] = s]
Repaint(e) == tabIds' = IdList(strips'[e])

\* Keys reach the page only when no confirmation is up and no omnibar open.
KeysReachPage == ~exiting /\ confirm = None /\ fresh = None
\* A confirmation swallows left clicks, and with them those on a menu.
ClicksPass == ~exiting /\ confirm = None

-----------------------------------------------------------------------------
(* Key bindings and commands: dispatch_action.                             *)

NewTab ==
  /\ KeysReachPage /\ Room
  /\ HostBecomes(Opened(host, FALSE))
  /\ UNCHANGED <<cur, confirm, fresh, tabIds, drag, exiting>>

AfterPinned(s, i) == Max({i, PinnedCount(s) + 1})

\* `o` and `O`: next to the active tab, and the omnibar opens on it.
NewAdjacentTab(right) ==
  /\ KeysReachPage /\ Room
  /\ LET i == Max({host.active, 1})
     IN  HostBecomes(OpenedAt(host, AfterPinned(host, IF right THEN i + 1 ELSE i)))
  /\ fresh' = {host.next}
  /\ UNCHANGED <<cur, confirm, tabIds, drag, exiting>>

\* `p` and `P`: a URL from the clipboard; not clamped.
PasteUrl(after) ==
  /\ KeysReachPage /\ Room
  /\ LET i == Max({host.active, 1})
     IN  HostBecomes(OpenedAt(host, IF after THEN i + 1 ELSE i))
  /\ UNCHANGED <<cur, confirm, fresh, tabIds, drag, exiting>>

NextTab(forward) ==
  /\ KeysReachPage
  /\ HostBecomes(Cycled(host, forward))
  /\ UNCHANGED <<cur, confirm, fresh, tabIds, drag, exiting>>

PinTab ==
  /\ KeysReachPage /\ host.active \in Positions(host)
  /\ HostBecomes(WithPin(host, host.active, ~host.tabs[host.active].pinned))
  /\ Repaint(cur)
  /\ UNCHANGED <<cur, confirm, fresh, drag, exiting>>

MoveTab(right) ==
  /\ KeysReachPage /\ host.active # 0
  /\ IF right THEN host.active < Len(host.tabs) ELSE host.active > 1
  /\ HostBecomes(Moved(host, host.active, IF right THEN host.active + 1 ELSE host.active - 1))
  /\ UNCHANGED <<cur, confirm, fresh, tabIds, drag, exiting>>

ReopenClosedTab ==
  /\ KeysReachPage /\ host.stack # <<>>
  /\ HostBecomes(Reopened(host))
  /\ UNCHANGED <<cur, confirm, fresh, tabIds, drag, exiting>>

\* arm_pinned_close: one confirmation at a time.
ArmPinnedClose(id) == confirm' = IF confirm = None THEN {id} ELSE confirm

AllGone(ss) == \A e \in Engines : ss[e].tabs = <<>>

NeedsConsent_only_first(t) == t.pinned /\ confirm = None
NeedsConsent(t) == t.pinned

\* close_active_tab_or_exit: exits when this engine has no tab left.
CloseActiveTab(blank) ==
  /\ KeysReachPage /\ host.active \in Positions(host)
  /\ LET t == host.tabs[host.active] IN
       IF NeedsConsent(t)
       THEN ArmPinnedClose(t.id) /\ UNCHANGED <<strips, exiting>>
       ELSE /\ HostBecomes(Closed(host, host.active, blank))
            /\ exiting' = (strips'[cur].tabs = <<>>)
            /\ UNCHANGED confirm
  /\ UNCHANGED <<cur, fresh, tabIds, drag>>

\* The y or n of the confirmation, by key or by button.
ResolvePinnedClose(yes, blank) ==
  /\ ~exiting /\ confirm # None
  /\ confirm' = None
  /\ IF yes
     THEN /\ \E id \in confirm : HostBecomes(ClosedId(host, id, blank))
          /\ exiting' = AllGone(strips')
          /\ Repaint(cur)
     ELSE UNCHANGED <<strips, exiting, tabIds>>
  /\ UNCHANGED <<cur, fresh, drag>>

\* The active tab moves to another engine: it is opened there and closed here.
\* By `:engine`, or in about_to_wait because a rule routes its new URL there.
MoveToEngine(target, blank) ==
  /\ target # cur /\ Room
  /\ strips' = [strips EXCEPT
       ![target] = Opened(@, FALSE),
       ![cur] = IF host.active \in Positions(host) THEN Closed(@, host.active, blank) ELSE @]
  /\ cur' = target
  /\ Repaint(target)
  /\ UNCHANGED <<confirm, fresh, drag, exiting>>

EngineCommand(target, blank) == KeysReachPage /\ MoveToEngine(target, blank)

CrossEngineNav(target, blank) ==
  ~exiting /\ host.active # 0 /\ MoveToEngine(target, blank)

-----------------------------------------------------------------------------
(* The omnibar that `o` opened.                                            *)

\* close_overlay gives the fresh tab up, unless it is the last one.
AfterOverlay(s, blank) ==
  IF fresh # None /\ Len(s.tabs) > 1
  THEN ClosedId(s, CHOOSE id \in fresh : TRUE, blank)
  ELSE s

CancelOmnibar(blank) ==
  /\ ~exiting /\ confirm = None /\ fresh # None
  /\ HostBecomes(AfterOverlay(host, blank))
  /\ fresh' = None
  /\ IF Len(host.tabs) > 1 THEN Repaint(cur) ELSE UNCHANGED tabIds
  /\ UNCHANGED <<cur, confirm, drag, exiting>>

SubmitOmnibar ==
  /\ ~exiting /\ confirm = None /\ fresh # None
  /\ fresh' = None
  /\ UNCHANGED <<strips, cur, confirm, tabIds, drag, exiting>>

-----------------------------------------------------------------------------
(* The mouse on the tab strip: slots are those of the last painting.       *)

LeftPress(slot, blank) ==
  /\ ClicksPass
  /\ HostBecomes(AfterOverlay(SelectId(host, tabIds[slot]), blank))
  /\ fresh' = None
  /\ IF fresh # None /\ Len(host.tabs) > 1 THEN Repaint(cur) ELSE UNCHANGED tabIds
  /\ drag' = slot
  /\ UNCHANGED <<cur, confirm, exiting>>

\* Released over another slot: the tab that is at the old one now is moved.
LeftRelease(slot) ==
  /\ ~exiting /\ drag # 0
  /\ drag' = 0
  /\ IF slot # drag
     THEN HostBecomes(Moved(host, drag, slot)) /\ Repaint(cur)
     ELSE UNCHANGED <<strips, tabIds>>
  /\ UNCHANGED <<cur, confirm, fresh, exiting>>

\* The tab painted there is closed, but the pinned bit read is that of the
\* tab now at the slot.
MiddleClick(slot, blank) ==
  /\ ~exiting
  /\ IF slot \in Positions(host) /\ NeedsConsent(host.tabs[slot])
     THEN ArmPinnedClose(tabIds[slot]) /\ UNCHANGED <<strips, tabIds, exiting>>
     ELSE /\ HostBecomes(ClosedId(host, tabIds[slot], blank))
          /\ exiting' = AllGone(strips')
          /\ Repaint(cur)
          /\ UNCHANGED confirm
  /\ UNCHANGED <<cur, fresh, drag>>

-----------------------------------------------------------------------------
(* The context menu of a tab, which is found again by its id.              *)

TabReload(i, blank) ==
  /\ ClicksPass
  /\ HostBecomes(AfterOverlay(SetActive(host, i), blank))
  /\ fresh' = None
  /\ Repaint(cur)
  /\ UNCHANGED <<cur, confirm, drag, exiting>>

TabDuplicate(i) ==
  /\ ClicksPass /\ Room
  /\ HostBecomes(OpenedAt(host, i + 1))
  /\ Repaint(cur)
  /\ UNCHANGED <<cur, confirm, fresh, drag, exiting>>

TabPin(i) ==
  /\ ClicksPass
  /\ HostBecomes(WithPin(host, i, ~host.tabs[i].pinned))
  /\ Repaint(cur)
  /\ UNCHANGED <<cur, confirm, fresh, drag, exiting>>

TabClose(i, blank) ==
  /\ ClicksPass
  /\ IF NeedsConsent(host.tabs[i])
     THEN ArmPinnedClose(host.tabs[i].id) /\ UNCHANGED <<strips, tabIds, exiting>>
     ELSE /\ HostBecomes(Closed(host, i, blank))
          /\ exiting' = AllGone(strips')
          /\ Repaint(cur)
          /\ UNCHANGED confirm
  /\ UNCHANGED <<cur, fresh, drag>>

\* close_tab on each of ids, in the order of the strip.
ClosedAll(s, ids, blank) ==
  LET After[k \in 0 .. Len(s.tabs)] ==
        IF k = 0 THEN s
        ELSE IF s.tabs[k].id \in ids THEN ClosedId(After[k - 1], s.tabs[k].id, blank) ELSE After[k - 1]
  IN  After[Len(s.tabs)]

TabCloseOthers(i, blank) ==
  LET victims == {host.tabs[j].id : j \in {k \in Positions(host) : k # i /\ ~host.tabs[k].pinned}}
  IN  /\ ClicksPass
      /\ HostBecomes(SelectId(ClosedAll(host, victims, blank), host.tabs[i].id))
      /\ Repaint(cur)
      /\ UNCHANGED <<cur, confirm, fresh, drag, exiting>>

TabCloseToRight(i, blank) ==
  LET victims == {host.tabs[j].id : j \in {k \in Positions(host) : k > i /\ ~host.tabs[k].pinned}}
  IN  /\ ClicksPass
      /\ HostBecomes(ClosedAll(host, victims, blank))
      /\ Repaint(cur)
      /\ UNCHANGED <<cur, confirm, fresh, drag, exiting>>

\* The menu entries that open a link, an image or the source in a tab.
MenuOpensTab(background) ==
  /\ ClicksPass /\ Room
  /\ HostBecomes(Opened(host, background))
  /\ UNCHANGED <<cur, confirm, fresh, tabIds, drag, exiting>>

-----------------------------------------------------------------------------
(* Tabs nobody at this window asked for, and the end of a tick.            *)

OpenUrls ==
  /\ ~exiting /\ Room
  /\ HostBecomes(Opened(host, TRUE))
  /\ UNCHANGED <<cur, confirm, fresh, tabIds, drag, exiting>>

\* about_to_wait: target=_blank, window.open, Ctrl-click, then the refresh.
PopupTab(background) ==
  /\ ~exiting /\ Room
  /\ HostBecomes(Opened(host, background))
  /\ Repaint(cur)
  /\ UNCHANGED <<cur, confirm, fresh, drag, exiting>>

RefreshTabStrip ==
  /\ ~exiting /\ tabIds # IdList(host)
  /\ tabIds' = IdList(host)
  /\ UNCHANGED <<strips, cur, confirm, fresh, drag, exiting>>

-----------------------------------------------------------------------------
Key ==
  \/ NewTab \/ PinTab \/ ReopenClosedTab \/ SubmitOmnibar
  \/ \E right \in BOOLEAN :
       NewAdjacentTab(right) \/ PasteUrl(right) \/ NextTab(right) \/ MoveTab(right)
  \/ \E blank \in BOOLEAN :
       \/ CloseActiveTab(blank) \/ CancelOmnibar(blank)
       \/ \E yes \in BOOLEAN : ResolvePinnedClose(yes, blank)
       \/ \E e \in Engines : EngineCommand(e, blank)

Mouse ==
  \E slot \in DOMAIN tabIds :
    \/ LeftRelease(slot)
    \/ \E blank \in BOOLEAN : LeftPress(slot, blank) \/ MiddleClick(slot, blank)

Menu ==
  \/ \E i \in Positions(host) :
       \/ TabDuplicate(i) \/ TabPin(i)
       \/ \E blank \in BOOLEAN :
            \/ TabReload(i, blank) \/ TabClose(i, blank)
            \/ TabCloseOthers(i, blank) \/ TabCloseToRight(i, blank)
  \/ \E background \in BOOLEAN : MenuOpensTab(background)

Background ==
  \/ OpenUrls \/ RefreshTabStrip
  \/ \E background \in BOOLEAN : PopupTab(background)
  \/ \E blank \in BOOLEAN, e \in Engines : CrossEngineNav(e, blank)

Next == Key \/ Mouse \/ Menu \/ Background

Spec == Init /\ [][Next]_vars

-----------------------------------------------------------------------------
(* Properties.                                                             *)

IsTab(t) == DOMAIN t = {"id", "pinned"} /\ t.id \in Nat /\ t.pinned \in BOOLEAN

\* Every variable has its type, and what is remembered is at most one tab.
TypeOK ==
  /\ DOMAIN strips = Engines
  /\ \A e \in Engines :
       /\ \A i \in Positions(strips[e]) : IsTab(strips[e].tabs[i])
       /\ strips[e].active \in 0..Len(strips[e].tabs)
       /\ Len(strips[e].stack) <= StackCap
       /\ \A i \in DOMAIN strips[e].stack : IsTab(strips[e].stack[i].tab)
       /\ strips[e].next \in Nat
  /\ cur \in Engines
  /\ Cardinality(confirm) <= 1 /\ Cardinality(fresh) <= 1
  /\ tabIds \in Seq(Nat) /\ drag \in Nat
  /\ exiting \in BOOLEAN

\* A browser is in one place: no id is in the strip or in the stack twice, or
\* in both, however often it was closed, reopened, moved and pinned.
EachTabOnce ==
  \A e \in Engines :
    Cardinality(Ids(strips[e]) \cup StashedIds(strips[e]))
      = Len(strips[e].tabs) + Len(strips[e].stack)

\* The active tab is shown to the compositor, a stashed one never is.
ActiveIsShown ==
  \A e \in Engines :
    /\ ActiveId(strips[e]) \subseteq strips[e].shown
    /\ strips[e].shown \subseteq Ids(strips[e])

\* The strips and stacks of the engines at any time: types and limits, each
\* browser in one place, the active one in the foreground (host.rs throughout).
StripsOK == TypeOK /\ EachTabOnce /\ ActiveIsShown

\* set_active_index: "exactly one" browser of a strip is in the foreground.
ForegroundIsActive(s) == s.shown \subseteq ActiveId(s)

\* The tab strip is painted and hit-tested with the pinned tabs first.
PinnedFirst(s) ==
  \A i, j \in Positions(s) : i < j /\ s.tabs[j].pinned => s.tabs[i].pinned

\* The active index follows its tab through every insertion, move, pin and
\* close, and hides it when it leaves it; not when a closed tab is reopened.
ForegroundKept(e) ==
  ForegroundIsActive(strips[e]) =>
    \/ ForegroundIsActive(strips'[e])
    \/ Len(strips'[e].stack) < Len(strips[e].stack)

\* A tab that comes into a strip, opened or reopened, is hidden or active.
ComersAreHidden(e) ==
  \A id \in Ids(strips'[e]) \ Ids(strips[e]) :
    id \in strips'[e].shown => ActiveId(strips'[e]) = {id}

\* Only the two that insert a tab at a place they did not clamp put an
\* unpinned tab before a pinned one.
PinnedFirstKept(e) ==
  PinnedFirst(strips[e]) =>
    \/ PinnedFirst(strips'[e])
    \/ \E after \in BOOLEAN : PasteUrl(after)
    \/ \E i \in Positions(host) : TabDuplicate(i)

\* No step leaves a tab in the foreground that is not the active one, shows a
\* newcomer behind another tab, or mixes pinned and unpinned tabs, with the
\* exceptions named above (set_active_index, enforce_pinned_ordering).
StepsKeepOrder ==
  [][\A e \in Engines : ForegroundKept(e) /\ ComersAreHidden(e) /\ PinnedFirstKept(e)]_strips

\* arm_pinned_close: "A pinned tab is never closed silently".  It goes only
\* when its confirmation is answered, when it moves to another engine, when it
\* is the fresh tab of a cancelled omnibar, or when a slot is middle-clicked
\* that was painted before the strip changed.
PinnedNeedsConsent ==
  [][\A i \in Positions(host) :
       LET t == host.tabs[i] IN
       t.pinned /\ t.id \notin Ids(strips'[cur]) =>
         \/ confirm = {t.id} /\ confirm' = None
         \/ cur' # cur
         \/ t.id \in fresh
         \/ tabIds # IdList(host)]_strips
=============================================================================
