------------------------------- MODULE Popups -------------------------------
(***************************************************************************)
(* Popup windows of buffr: a page asks for one (handlers.rs), CEF creates  *)
(* its browser, the application gives that a window (event_loop.rs,        *)
(* main.rs), and either side may close it.                                 *)
(*                                                                         *)
(* CEF's callbacks run on the thread of the event loop, between the        *)
(* handlers.  Two engines have popups; the application drains the create   *)
(* and close queues of the first one it opened and asks the active one for *)
(* everything else, so a request for a popup of the other one is lost.     *)
(*                                                                         *)
(* A popup is a number, in the order of the requests.  An allocation is    *)
(* the number of the popup it was made for; its frame and view are as good *)
(* as any other's, its URL is not.                                         *)
(*                                                                         *)
(* A definition named X_mistake is X as a plausible bug would have it.     *)
(***************************************************************************)
EXTENDS Integers, Sequences, SequencesExt, FiniteSets

CONSTANTS
  Popups,       \* bound: 1 .. the number of popups pages ask for
  AllocCap,     \* PENDING_POPUP_ALLOC_CAP
  WindowCap,    \* MAX_LIVE_POPUPS
  MaxMoves      \* bound: address changes, switches and aged allocations

BothEngines == {"first", "second"}

VARIABLES
  phase,     \* "running", and "closing" after the event loop
  active,    \* active_engine
  moves,     \* happenings so far
  life,      \* of each popup: "none", "refused", "asked", "live", "gone"
  home,      \* the engine it belongs to
  told,      \* close_browser was called: "no", "asked", "forced"
  pending,   \* per engine: pending_popup_alloc
  old,       \* per engine: how many of these are older than POPUP_ALLOC_TTL
  routed,    \* keys of popup_frames
  browsers,  \* keys of popup_browsers
  creates,   \* per engine: popup_create_sink, of [popup, url]
  closes,    \* per engine: popup_close_sink
  moved,     \* per engine: address_sink and popup_address_sink, of [popup, to]
  address,   \* where each popup is; 0 while it shows what it was asked for
  windows,   \* popups and popup_window_id_by_browser, which agree
  url        \* PopupWindow.url: [of: whose request, to: as in address]

vars == <<phase, active, moves, life, home, told, pending, old, routed, browsers,
          creates, closes, moved, address, windows, url>>

Init ==
  /\ phase = "running" /\ active = "first" /\ moves = 0
  /\ life = [p \in Popups |-> "none"] /\ home = [p \in Popups |-> "first"]
  /\ told = [p \in Popups |-> "no"]
  /\ pending = [e \in BothEngines |-> <<>>] /\ old = [e \in BothEngines |-> 0]
  /\ routed = {} /\ browsers = {}
  /\ creates = [e \in BothEngines |-> <<>>] /\ closes = [e \in BothEngines |-> <<>>]
  /\ moved = [e \in BothEngines |-> <<>>]
  /\ address = [p \in Popups |-> 0]
  /\ windows = {} /\ url = [p \in Popups |-> [of |-> p, to |-> 0]]

Live(p) == life[p] = "live"

(***************************************************************************)
(* CEF's life span handler.                                                *)
(***************************************************************************)
\* on_before_popup for a new window.  The ones for a tab are in Tabs.
BeforePopup(p, e) ==
  /\ phase = "running"
  /\ life[p] = "none" /\ \A q \in Popups : q < p => life[q] # "none"
  /\ home' = [home EXCEPT ![p] = e]
  /\ IF Len(pending[e]) >= AllocCap
     THEN life' = [life EXCEPT ![p] = "refused"] /\ UNCHANGED pending
     ELSE /\ life' = [life EXCEPT ![p] = "asked"]
          /\ pending' = [pending EXCEPT ![e] = Append(@, p)]
  /\ UNCHANGED <<phase, active, moves, told, old, routed, browsers, creates, closes,
                 moved, address, windows, url>>

\* take_fresh_alloc.  0 for none.
FreshAlloc(e) == IF old[e] < Len(pending[e]) THEN pending[e][old[e] + 1] ELSE 0

Registered_if_routed(p, alloc) == IF alloc = 0 THEN browsers ELSE browsers \cup {p}

Registered(p, alloc) == browsers \cup {p}

AfterCreated(p) ==
  LET e == home[p]
      alloc == FreshAlloc(e)
  IN
  /\ life[p] = "asked" /\ \A q \in Popups : q < p /\ home[q] = e => life[q] # "asked"
  /\ life' = [life EXCEPT ![p] = "live"]
  /\ pending' = [pending EXCEPT ![e] = IF alloc = 0 THEN <<>>
                                       ELSE SubSeq(@, old[e] + 2, Len(@))]
  /\ old' = [old EXCEPT ![e] = 0]
  /\ browsers' = Registered(p, alloc)
  /\ IF alloc = 0 THEN UNCHANGED <<routed, creates>>
     ELSE /\ routed' = routed \cup {p}
          /\ creates' = [creates EXCEPT ![e] = Append(@, [popup |-> p, url |-> alloc])]
  /\ UNCHANGED <<phase, active, moves, home, told, closes, moved, address, windows, url>>

\* CEF gives up on a popup it was allowed to create.
Abort(p) ==
  /\ life[p] = "asked"
  /\ life' = [life EXCEPT ![p] = "gone"]
  /\ UNCHANGED <<phase, active, moves, home, told, pending, old, routed, browsers, creates,
                 closes, moved, address, windows, url>>

\* POPUP_ALLOC_TTL passes for the oldest allocations.
AllocsAge(e) ==
  /\ moves < MaxMoves /\ moves' = moves + 1
  /\ \E n \in (old[e] + 1)..Len(pending[e]) : old' = [old EXCEPT ![e] = n]
  /\ UNCHANGED <<phase, active, life, home, told, pending, routed, browsers, creates,
                 closes, moved, address, windows, url>>

\* on_before_close: the page closes itself, or does as it was told.
BeforeClose(p) ==
  /\ Live(p)
  /\ life' = [life EXCEPT ![p] = "gone"]
  /\ routed' = routed \ {p} /\ browsers' = browsers \ {p}
  /\ closes' = [closes EXCEPT ![home[p]] = Append(@, p)]
  /\ UNCHANGED <<phase, active, moves, home, told, pending, old, creates, moved, address,
                 windows, url>>

\* on_address_change.
AddressChanges(p) ==
  /\ Live(p) /\ phase = "running"
  /\ moves < MaxMoves /\ moves' = moves + 1
  /\ address' = [address EXCEPT ![p] = @ + 1]
  /\ moved' = [moved EXCEPT ![home[p]] = Append(@, [popup |-> p, to |-> address[p] + 1])]
  /\ UNCHANGED <<phase, active, life, home, told, pending, old, routed, browsers, creates,
                 closes, windows, url>>

(***************************************************************************)
(* The application.                                                        *)
(***************************************************************************)
\* popup_close(0) of the engine in front, for a browser it has.
Told(ps) ==
  [p \in Popups |->
     IF p \in ps /\ p \in browsers /\ home[p] = active /\ told[p] = "no" THEN "asked"
     ELSE told[p]]

\* The windows that creation events get: until the cap is reached, if the
\* window and its renderer can be made.
Opened(events, failing, before) ==
  {events[i].popup : i \in {j \in DOMAIN events :
     /\ events[j].popup \notin failing
     /\ Cardinality(before)
          + Cardinality({k \in 1..(j - 1) : events[k].popup \notin failing}) < WindowCap}}

\* The addresses of windows after the changes of a queue: that of its last
\* change, if a window has one.
Shown(urls, changes, open) ==
  [p \in Popups |->
     LET own == {i \in DOMAIN changes : changes[i].popup = p}
         last == CHOOSE i \in own : \A j \in own : j <= i
     IN IF p \in open /\ own # {} THEN [of |-> p, to |-> changes[last].to] ELSE urls[p]]

Drained(made) == (windows \cup made) \ Range(closes["first"])

AboutToWait ==
  /\ phase = "running"
  /\ \E failing \in SUBSET Popups :
       LET events == creates["first"]
           asked == {events[i].popup : i \in DOMAIN events}
           made == Opened(events, failing, windows)
           open == Drained(made)
           urlOf(p) == (CHOOSE i \in DOMAIN events : events[i].popup = p)
           fresh == [p \in Popups |->
                       IF p \in made THEN [of |-> events[urlOf(p)].url, to |-> 0] ELSE url[p]]
       IN
       /\ failing \subseteq asked
       /\ told' = Told(asked \ made)
       /\ windows' = open
       /\ url' = Shown(fresh, moved[active], open)
  /\ creates' = [creates EXCEPT !["first"] = <<>>]
  /\ closes' = [closes EXCEPT !["first"] = <<>>]
  /\ moved' = [moved EXCEPT ![active] = <<>>]
  /\ UNCHANGED <<phase, active, moves, life, home, pending, old, routed, browsers, address>>

\* The user closes a popup's window: it goes at once.
CloseRequested(p) ==
  /\ phase = "running" /\ p \in windows
  /\ told' = Told({p})
  /\ windows' = windows \ {p}
  /\ UNCHANGED <<phase, active, moves, life, home, pending, old, routed, browsers, creates,
                 closes, moved, address, url>>

SwitchEngine ==
  /\ phase = "running" /\ moves < MaxMoves /\ moves' = moves + 1
  /\ active' \in BothEngines \ {active}
  /\ UNCHANGED <<phase, life, home, told, pending, old, routed, browsers, creates, closes,
                 moved, address, windows, url>>

\* The event loop has ended: close_all_browsers of every engine.
CloseAllBrowsers ==
  /\ phase = "running"
  /\ phase' = "closing"
  /\ told' = [p \in Popups |-> IF p \in browsers THEN "forced" ELSE told[p]]
  /\ UNCHANGED <<active, moves, life, home, pending, old, routed, browsers, creates, closes,
                 moved, address, windows, url>>

Next ==
  \/ \E p \in Popups, e \in BothEngines : BeforePopup(p, e)
  \/ \E p \in Popups :
       AfterCreated(p) \/ Abort(p) \/ BeforeClose(p) \/ AddressChanges(p) \/ CloseRequested(p)
  \/ \E e \in BothEngines : AllocsAge(e)
  \/ AboutToWait \/ SwitchEngine \/ CloseAllBrowsers

Spec == Init /\ [][Next]_vars

(***************************************************************************)
(* Properties.                                                             *)
(***************************************************************************)
\* A window has a browser, unless news of its end is waiting; and it shows
\* the browser's address, unless news of that is.  A popup may be created,
\* moved and closed between two turns of the loop.
WindowsFollowBrowsers ==
  \A p \in windows :
    /\ Live(p) \/ p \in Range(closes["first"])
    /\ Live(p) => p \in routed \cap browsers
    /\ \/ address[p] = 0 \/ url[p].to = address[p]
       \/ \E i \in DOMAIN moved["first"] : moved["first"][i].popup = p

\* The exit closes every popup there is, also one CEF created too late for
\* its allocation (a browser left open keeps cef::shutdown from ending well).
AllClosedAtExit ==
  [][phase' # phase => \A p \in Popups : Live(p) => told'[p] = "forced"]_vars
=============================================================================
