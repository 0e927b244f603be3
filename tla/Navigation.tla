----------------------------- MODULE Navigation -----------------------------
(***************************************************************************)
(* Which page opens where: the engine instances and the router built at    *)
(* startup (event_loop.rs, engine_router.rs), the tabs a launch opens      *)
(* (open_pending_tabs, main.rs), and afterwards the address a tab shows    *)
(* and the moves of a tab to the engine that a rule names for it (main.rs, *)
(* buffr-cef host.rs).                                                     *)
(*                                                                         *)
(* A page is a site, or Home for one of buffr's own (buffr://), which the  *)
(* engine loads from a loopback address.  A page commits some time after   *)
(* it is asked for; its address change is queued and pumped later.         *)
(*                                                                         *)
(* A definition named X_mistake is X as a plausible bug would have it.     *)
(***************************************************************************)
EXTENDS TabStrip

CONSTANTS
  Instances,  \* the configured engine instances, in order
  Default,    \* engines.default
  Sites,      \* hosts of pages
  Home,       \* buffr://new
  Loop,       \* its loopback address
  None,
  MaxTabs,    \* bound: tabs opened in one engine
  MaxMoves    \* bound: navigations of a behaviour

EngineIds == ToSet(Instances)
Pages == Sites \cup {Home}

VARIABLES
  stage,    \* "launch", "run"
  rules,    \* the engine the first matching rule names for a site, or Default
  engines,  \* the instances whose host could be created
  cur,      \* active_engine
  strips,   \* the tabs of every engine
  tabs,     \* of every tab: seen (the pages it committed), at (which of them
            \* it shows), going (a load under way), url (Tab.url), override
            \* (its entry in display_urls)
  sink,     \* address_sink of every engine: [id, to]
  pending,  \* pending_session_tabs and _active, pending_new_tabs
  moves     \* navigations so far

vars == <<stage, rules, engines, cur, strips, tabs, sink, pending, moves>>

(***************************************************************************)
(* The router.                                                             *)
(***************************************************************************)
\* build: an instance that is named but missing leaves no router at all.
HasRouter == Default \in engines /\ \A s \in Sites : rules[s] \in engines

\* resolve; without a router every page belongs where it is.
Resolve(page) == IF page \in Sites THEN rules[page] ELSE Default

\* routed_open_tab_background
RoutedEngine(page) == IF HasRouter THEN Resolve(page) ELSE cur

(***************************************************************************)
(* Operations of a host.  all is a record of strips and tabs.              *)
(***************************************************************************)
Override(page) == IF page = Home THEN Home ELSE None

\* cef_navigation_url
Address(page) == IF page = Home THEN Loop ELSE page

\* create_browser
NewTab(page) ==
  [seen |-> <<>>, at |-> 0, going |-> page, url |-> page, override |-> Override(page)]

OpenTab(all, e, page, background) ==
  [strips |-> [all.strips EXCEPT ![e] = Opened(@, background)],
   tabs   |-> [all.tabs EXCEPT ![e][all.strips[e].next] = NewTab(page)]]

\* navigate
Navigated(tab, page) ==
  [tab EXCEPT !.going = page, !.url = page, !.override = Override(page)]

ActiveTab(all, e) == CHOOSE id \in ActiveId(all.strips[e]) : TRUE

NavigateActive(all, e, page) ==
  [all EXCEPT !.tabs[e][ActiveTab(all, e)] = Navigated(@, page)]

\* set_pinned, by id: of the engine in front, whoever made the tab.
PinById(all, id) ==
  IF id \in Ids(all.strips[cur])
  THEN [all EXCEPT !.strips[cur] = WithPin(@, PositionOf(@, id), TRUE)]
  ELSE all

(***************************************************************************)
(* Launch.                                                                 *)
(***************************************************************************)
\* One entry of the session: the first takes over the tab that the host made
\* for itself, the others open where they are routed.  bad cannot be opened.
Restored(all, i, bad) ==
  LET entry == pending.entries[i]
      e == RoutedEngine(entry.page)
      opened == OpenTab(all, e, entry.page, TRUE)
  IN
  IF i = 1
  THEN LET claimed == NavigateActive(all, cur, entry.page) IN
       IF entry.pinned THEN PinById(claimed, ActiveTab(all, cur)) ELSE claimed
  ELSE IF entry.page \in bad THEN all
  ELSE IF entry.pinned THEN PinById(opened, all.strips[e].next)
  ELSE opened

\* Then a URL of the command line: the first is to be shown.
ClaimsInitial_always == TRUE

ClaimsInitial == pending.entries = <<>>

FromCli(all, i, bad) ==
  LET page == pending.cli[i]
      e == RoutedEngine(page)
      id == all.strips[e].next
      opened == OpenTab(all, e, page, TRUE)
      \* The first URL that opens without a claim is selected.
      first == ~ClaimsInitial /\ \A j \in 1..(i - 1) : pending.cli[j] \in bad
  IN
  IF i = 1 /\ ClaimsInitial THEN NavigateActive(all, cur, page)
  ELSE IF page \in bad THEN all
  ELSE IF first THEN [opened EXCEPT !.strips[cur] = SelectId(@, id)]
  ELSE opened

\* open_pending_tabs
OpenPendingTabs(all, bad) ==
  LET session == FoldLeft(LAMBDA a, i : Restored(a, i, bad), all,
                          [i \in DOMAIN pending.entries |-> i])
      selected == IF pending.entries = <<>> THEN session
                  ELSE [session EXCEPT !.strips[cur] = SetActive(@, pending.active)]
  IN FoldLeft(LAMBDA a, i : FromCli(a, i, bad), selected, [i \in DOMAIN pending.cli |-> i])

\* The hosts that come up each open a tab on the homepage; the first of them
\* is in front.  Then the window exists and the pending tabs open.
Blank == [seen |-> <<>>, at |-> 0, going |-> None, url |-> None, override |-> None]
NoTabs == [e \in EngineIds |-> [id \in 0..MaxTabs |-> Blank]]

Hosted ==
  [strips |-> [e \in EngineIds |-> IF e \in engines THEN Opened(EmptyStrip, FALSE) ELSE EmptyStrip],
   tabs   |-> [e \in EngineIds |-> IF e \in engines THEN [NoTabs[e] EXCEPT ![0] = NewTab(Home)]
                                 ELSE NoTabs[e]]]

Init ==
  /\ stage = "launch"
  /\ rules \in [Sites -> EngineIds]
  /\ engines \in SUBSET EngineIds \ {{}}
  /\ cur = Instances[CHOOSE i \in DOMAIN Instances :
                       /\ Instances[i] \in engines
                       /\ \A j \in 1..(i - 1) : Instances[j] \notin engines]
  /\ strips = Hosted.strips /\ tabs = Hosted.tabs
  /\ sink = [e \in EngineIds |-> <<>>]
  /\ \E entries \in UNION {[1..n -> [page : Pages, pinned : BOOLEAN]] : n \in 0..2},
        cli \in UNION {[1..n -> Sites] : n \in 0..2}, active \in 1..2 :
       pending = [entries |-> entries, active |-> active, cli |-> cli, bad |-> {}]
  /\ moves = 0

Launch ==
  /\ stage = "launch" /\ stage' = "run"
  /\ \E bad \in SUBSET Sites :
       LET all == OpenPendingTabs([strips |-> strips, tabs |-> tabs], bad) IN
       /\ strips' = all.strips /\ tabs' = all.tabs
       /\ pending' = [pending EXCEPT !.bad = bad]
  /\ UNCHANGED <<rules, engines, cur, sink, moves>>

(***************************************************************************)
(* Afterwards.                                                             *)
(***************************************************************************)
\* Bound: nothing follows a launch that had tabs to open.
Fresh == pending.entries = <<>> /\ pending.cli = <<>>
Moves == stage = "run" /\ Fresh /\ moves < MaxMoves /\ moves' = moves + 1
Here == ActiveId(strips[cur])
Room(e) == strips[e].next <= MaxTabs

\* dispatch_action: TabNewRight and TabNewLeft, on the engine in front.
NewTabHere ==
  /\ Moves /\ Room(cur)
  /\ LET all == OpenTab([strips |-> strips, tabs |-> tabs], cur, Home, FALSE)
     IN strips' = all.strips /\ tabs' = all.tabs
  /\ UNCHANGED <<stage, rules, engines, cur, sink, pending>>

\* The omnibar.
Navigate(page) ==
  /\ Moves /\ Here # {}
  /\ tabs' = NavigateActive([strips |-> strips, tabs |-> tabs], cur, page).tabs
  /\ UNCHANGED <<stage, rules, engines, cur, strips, sink, pending>>

\* A site's page follows a link; buffr's own pages have none.
FollowLink(id, page) ==
  /\ Moves /\ id \in Ids(strips[cur])
  /\ tabs[cur][id].at # 0 /\ tabs[cur][id].seen[tabs[cur][id].at] \in Sites
  /\ tabs' = [tabs EXCEPT ![cur][id].going = page]
  /\ UNCHANGED <<stage, rules, engines, cur, strips, sink, pending>>

\* HistoryBack and HistoryForward: the engine loads it again.
Back(forward) ==
  /\ Moves
  /\ \E id \in Here :
       LET t == tabs[cur][id]
           to == IF forward THEN t.at + 1 ELSE t.at - 1
       IN /\ t.going = None /\ to \in DOMAIN t.seen
          /\ tabs' = [tabs EXCEPT ![cur][id].at = to]
          /\ sink' = [sink EXCEPT ![cur] = Append(@, [id |-> id, to |-> Address(t.seen[to])])]
  /\ UNCHANGED <<stage, rules, engines, cur, strips, pending>>

NextTab ==
  /\ Moves
  /\ strips' = [strips EXCEPT ![cur] = Cycled(@, TRUE)]
  /\ UNCHANGED <<stage, rules, engines, cur, tabs, sink, pending>>

\* The engine commits a load: on_address_change.
Commit(e, id) ==
  LET t == tabs[e][id] IN
  /\ stage = "run" /\ Fresh /\ id \in Ids(strips[e]) /\ t.going # None
  /\ tabs' = [tabs EXCEPT ![e][id] =
                [t EXCEPT !.seen = Append(SubSeq(@, 1, t.at), t.going), !.at = t.at + 1,
                          !.going = None]]
  /\ sink' = [sink EXCEPT ![e] = Append(@, [id |-> id, to |-> Address(t.going)])]
  /\ UNCHANGED <<stage, rules, engines, cur, strips, pending, moves>>

\* The active tab moves to target, if it opens there; data is tabs by then.
MovedTo(target, page, data) ==
  LET all == OpenTab([strips |-> strips, tabs |-> data], target, page, FALSE) IN
  /\ Room(target)
  /\ tabs' = all.tabs
  /\ strips' = [all.strips EXCEPT ![cur] =
                  IF @.active = 0 THEN @ ELSE Closed(@, @.active, TRUE)]
  /\ cur' = target

\* pump_address_changes with merge_navigation_url
Pumped(events, data) ==
  FoldLeft(LAMBDA acc, c :
             [tabs    |-> [acc.tabs EXCEPT ![c.id].url = c.to],
              changed |-> acc.changed \/ (c.id \in Ids(strips[cur]) /\ acc.tabs[c.id].url # c.to)],
           [tabs |-> data, changed |-> FALSE], events)

\* active_tab_live_url
LiveUrl(t) == IF t.override # None THEN t.override ELSE t.url

\* about_to_wait: pump_address_changes, then check_cross_engine_nav.
PumpAddresses ==
  LET pumped == Pumped(sink[cur], tabs[cur])
      data == [tabs EXCEPT ![cur] = pumped.tabs]
      live == LiveUrl(pumped.tabs[CHOOSE id \in Here : TRUE])
      leaves == /\ pumped.changed /\ Here # {} /\ HasRouter
                /\ Resolve(live) # cur /\ Resolve(live) \in engines
  IN
  /\ stage = "run" /\ sink[cur] # <<>>
  /\ sink' = [sink EXCEPT ![cur] = <<>>]
  /\ \/ leaves /\ MovedTo(Resolve(live), live, data)
     \/ tabs' = data /\ UNCHANGED <<strips, cur>>  \* open_tab failed
  /\ UNCHANGED <<stage, rules, engines, pending, moves>>

\* :engine
EngineCommand(target) ==
  /\ Moves /\ target \in engines \ {cur}
  /\ MovedTo(target,
             IF Here = {} THEN Home ELSE LiveUrl(tabs[cur][CHOOSE id \in Here : TRUE]), tabs)
  /\ UNCHANGED <<stage, rules, engines, sink, pending>>

Next ==
  \/ Launch
  \/ NewTabHere \/ NextTab
  \/ \E page \in Pages : Navigate(page)
  \/ \E id \in 0..MaxTabs, page \in Sites : FollowLink(id, page)
  \/ \E forward \in BOOLEAN : Back(forward)
  \/ \E e \in EngineIds, id \in 0..MaxTabs : Commit(e, id)
  \/ PumpAddresses
  \/ \E e \in EngineIds : EngineCommand(e)

Spec == Init /\ [][Next]_vars

(***************************************************************************)
(* Properties.                                                             *)
(***************************************************************************)
Urls(all) ==
  UNION {{<<e, id, all[e][id].url>> : id \in Ids(strips'[e])} : e \in EngineIds}

Wanted(page) ==
  Cardinality({i \in DOMAIN pending.entries : pending.entries[i].page = page})
    + Cardinality({i \in DOMAIN pending.cli : pending.cli[i] = page})

\* A launch opens every page of the session and of the command line as often
\* as it is listed there, wherever the rules send it, whichever engines came
\* up: the one tab that is taken over is taken over once.
LaunchOpensAll ==
  [][stage = "launch" =>
       \A page \in Sites \ pending'.bad :
         Cardinality({t \in Urls(tabs') : t[3] = page}) = Wanted(page)]_vars
=============================================================================
