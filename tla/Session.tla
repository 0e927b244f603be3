------------------------------ MODULE Session -------------------------------
(***************************************************************************)
(* The saved session of buffr-app from launch to launch: session.json      *)
(* (session.rs), the launch log that recognises a crash loop               *)
(* (crash_guard.rs), the restore at startup and the debounced saves while  *)
(* the browser runs (main.rs, event_loop.rs).                              *)
(*                                                                         *)
(* One engine, so one strip.  Both files are written to a temporary file   *)
(* and renamed over the old one, so a crash leaves the old or the new one; *)
(* a write that fails changes nothing, and is not told apart here from one *)
(* that has not happened yet.                                              *)
(***************************************************************************)
EXTENDS TabStrip

CONSTANTS
  Urls, Home,     \* addresses; the homepage
  Safe,           \* those is_startup_navigation_safe lets through
  LoopWindow,     \* LOOP_WINDOW_SECS, in ticks
  LoopThreshold,  \* LOOP_THRESHOLD
  Debounce,       \* SESSION_SAVE_DEBOUNCE_MS, in polls
  MaxTabs,        \* bound: tabs opened in one run
  MaxSaved,       \* bound: entries of the first session
  MaxLaunches     \* bound: launches within the window

NoUrl == ""

ASSUME UrlsAssumption == Home \in Safe /\ Safe \subseteq Urls /\ NoUrl \notin Urls
ASSUME LoopAssumption == LoopWindow \in Nat /\ LoopThreshold \in Nat \ {0}
ASSUME DebounceAssumption == Debounce \in Nat
ASSUME BoundsAssumption == MaxTabs \in Nat \ {0} /\ MaxSaved \in Nat /\ MaxLaunches \in Nat

VARIABLES
  phase,    \* "off", "start" (before the window exists), "run"
  strip,    \* the tabs of the engine
  url,      \* Tab.url, by tab id
  disk,     \* session.json: a set, empty when there is no file
  log,      \* launch.json: how long ago each attempt was
  pending,  \* pending_session_tabs, pending_session_active, pending_new_tabs
  last,     \* last_session_tab_ids, last_session_active, last_session_url
  dirty,    \* session_dirty
  age,      \* polls since session_dirty_since
  recent    \* history: the launches within the window since a clean exit

vars == <<phase, strip, url, disk, log, pending, last, dirty, age, recent>>

files == <<disk, log>>
tracking == <<last, dirty, age>>

\* A saved tab, a saved session, and what a launch has yet to open.
\* Sessions list the pinned tabs first; active is a position, 0 for None.
Entry == [url : Urls, pinned : BOOLEAN]
PinnedFirst(list) == \A i, j \in DOMAIN list : i < j /\ list[j].pinned => list[i].pinned
Session(entries, active) == [entries |-> entries, active |-> active]
Nothing == [entries |-> <<>>, active |-> 0, cli |-> <<>>]

Running == phase = "run"
\* A window restored with more tabs than the bound only polls, saves and ends.
Used == Running /\ Len(strip.tabs) <= MaxTabs
Room == strip.next < MaxTabs

\* The address of a new tab, too.
Also(u, id, a) == [x \in DOMAIN u \cup {id} |-> IF x = id THEN a ELSE u[x]]

\* The tabs with their addresses, and what decides whether they were saved.
List(s, u) == [i \in Positions(s) |-> [url |-> u[s.tabs[i].id], pinned |-> s.tabs[i].pinned]]
ActiveUrl(s, u) == IF s.active = 0 THEN NoUrl ELSE u[s.tabs[s.active].id]
Live(s, u) == [ids |-> IdList(s), active |-> s.active, url |-> ActiveUrl(s, u)]
Untracked == Live(EmptyStrip, <<>>)

-----------------------------------------------------------------------------
(* Saving.                                                                 *)

\* from_tabs_with_active: the pinned tabs, then the others; the active index
\* is that of the strip.
Snapshot(s, u) == Session(List(Partitioned(s), u), s.active)

NothingToSave(s, u) == ~dirty /\ Live(s, u) = last
Saved(s, u) == IF NothingToSave(s, u) THEN disk ELSE {Snapshot(s, u)}

\* mark_session_dirty: the debounce runs from the first mark.
AgeWhenMarked_rearmed(a) == 0
AgeWhenMarked(a) == IF dirty THEN a ELSE 0
MarkDirty == dirty' = TRUE /\ age' = AgeWhenMarked(age) /\ UNCHANGED last

-----------------------------------------------------------------------------
(* Launching.                                                              *)

\* The members of a list that are in S, in their order.
Only(list, S) ==
  LET upTo[n \in 0..Len(list)] ==
        IF n = 0 THEN <<>>
        ELSE IF list[n] \in S THEN Append(upTo[n - 1], list[n]) ELSE upTo[n - 1]
  IN  upTo[Len(list)]

\* record_start: the attempts of the window, and this one.
Attempts == Append(Only(log, 0..LoopWindow), 0)

\* filter_entries: what is kept, and the active index re-based onto it.
Kept(s) == Only(s.entries, [url : Safe, pinned : BOOLEAN])
Rebased_not(s) == IF s.active <= Len(Kept(s)) THEN s.active ELSE 0
Rebased(s) ==
  LET dropped == Cardinality({i \in DOMAIN s.entries : i < s.active /\ s.entries[i].url \notin Safe})
      a == Max({s.active - dropped, 1})
  IN  IF s.active = 0 \/ a > Len(Kept(s)) THEN 0 ELSE a

\* main up to the event loop.  A launch that completes a crash loop moves the
\* session aside; noRestore is --no-restore or restore_session = false.
LoopDetected(attempts) == Len(attempts) >= LoopThreshold

Launch(cli, noRestore) ==
  /\ phase = "off" /\ Len(recent) < MaxLaunches
  /\ phase' = "start"
  /\ log' = Attempts
  /\ recent' = Append(recent, 0)
  /\ disk' = IF LoopDetected(Attempts) THEN {} ELSE disk
  /\ cli = <<>> \/ \A s \in disk : Len(s.entries) + Len(cli) <= MaxTabs
  /\ pending' = IF noRestore \/ LoopDetected(Attempts) \/ disk = {}
                THEN [Nothing EXCEPT !.cli = cli]
                ELSE LET s == CHOOSE s \in disk : TRUE
                     IN  [entries |-> Kept(s), active |-> Rebased(s), cli |-> cli]
  /\ UNCHANGED <<strip, url, tracking>>

\* open_pending_tabs.  A window is [s, url]: the strip and the addresses.
Window(s, u) == [s |-> s, url |-> u]
FreshWindow == Window(Opened(EmptyStrip, FALSE), [id \in {0} |-> Home])
Navigated(w, u) == [w EXCEPT !.url[w.s.tabs[w.s.active].id] = u]
InBackground(w, u) == Window(Opened(w.s, TRUE), Also(w.url, w.s.next, u))

PinTarget(s) == PositionOf(s, s.next - 1)
Restored(w, e) ==
  LET opened == InBackground(w, e.url)
  IN  IF e.pinned THEN [opened EXCEPT !.s = WithPin(@, PinTarget(@), TRUE)] ELSE opened

RestoredAll(entries) ==
  LET first == Navigated(FreshWindow, entries[1].url)
      pinned == [first EXCEPT !.s = WithPin(@, @.active, TRUE)]
      upTo[n \in 1..Len(entries)] ==
        IF n = 1 THEN IF entries[1].pinned THEN pinned ELSE first
        ELSE Restored(upTo[n - 1], entries[n])
  IN  IF entries = <<>> THEN FreshWindow ELSE upTo[Len(entries)]

\* A command-line address takes over the unused homepage tab, or is opened
\* behind the session and selected.
WithCli(w, p) ==
  LET opened == InBackground(w, p.cli[1])
  IN  IF p.cli = <<>> THEN w
      ELSE IF p.entries = <<>> THEN Navigated(w, p.cli[1])
      ELSE [opened EXCEPT !.s = SelectId(@, w.s.next)]

OpenPendingTabs ==
  /\ phase = "start"
  /\ phase' = "run"
  /\ LET all == RestoredAll(pending.entries)
         w == WithCli([all EXCEPT !.s = SetActive(@, pending.active)], pending)
     IN  strip' = w.s /\ url' = w.url
  /\ pending' = Nothing
  /\ UNCHANGED <<files, tracking, recent>>

-----------------------------------------------------------------------------
(* The tabs while the browser runs.  Only some handlers mark the session   *)
(* dirty; the poll notices what the others did.                            *)

Noted(marks) == IF marks THEN MarkDirty ELSE UNCHANGED tracking

\* A key, a popup or a forwarded URL; an adjacent tab (`o`, a paste, a
\* duplicate), of which the duplicate marks.
OpenTab(u, background) ==
  /\ Used /\ Room
  /\ strip' = Opened(strip, background) /\ url' = Also(url, strip.next, u)
  /\ UNCHANGED <<phase, files, pending, tracking, recent>>

OpenAdjacent(u, i, marks) ==
  /\ Used /\ Room
  /\ strip' = OpenedAt(strip, i) /\ url' = Also(url, strip.next, u)
  /\ Noted(marks)
  /\ UNCHANGED <<phase, files, pending, recent>>

SelectTab(i) ==
  /\ Used
  /\ strip' = SetActive(strip, i)
  /\ UNCHANGED <<phase, url, files, pending, tracking, recent>>

\* The key does not mark, the drag does.
MoveTab(from, to, marks) ==
  /\ Used
  /\ strip' = Moved(strip, from, to)
  /\ Noted(marks)
  /\ UNCHANGED <<phase, url, files, pending, recent>>

PinMarks_not == FALSE
PinMarks == TRUE
PinTab(i) ==
  /\ Used
  /\ strip' = WithPin(strip, i, ~strip.tabs[i].pinned)
  /\ Noted(PinMarks)
  /\ UNCHANGED <<phase, url, files, pending, recent>>

\* A command navigates the active tab: Tab.url changes at once, unmarked.
Navigate(u) ==
  /\ Used
  /\ url' = Navigated(Window(strip, url), u).url
  /\ UNCHANGED <<phase, strip, files, pending, tracking, recent>>

\* pump_address_changes: any tab, and only a different address marks.
AddressChange(i, u) ==
  /\ Used
  /\ url[strip.tabs[i].id] # u
  /\ url' = [url EXCEPT ![strip.tabs[i].id] = u]
  /\ MarkDirty
  /\ UNCHANGED <<phase, strip, files, pending, recent>>

\* The key does not mark, the menu and the confirmation do.
CloseTab(i, marks) ==
  /\ Used /\ Len(strip.tabs) > 1
  /\ strip' = Closed(strip, i, TRUE)
  /\ url' = Restrict(url, Ids(strip'))
  /\ Noted(marks)
  /\ UNCHANGED <<phase, files, pending, recent>>

-----------------------------------------------------------------------------
(* The work of about_to_wait.                                              *)

Differs ==
  LET now == Live(strip, url)
  IN  now.ids # last.ids \/ now.active # last.active \/ now.url \notin {NoUrl, last.url}

\* Every 250 ms.
Poll ==
  /\ Running
  /\ dirty' = (dirty \/ Differs)
  /\ LET older == IF dirty THEN Min({age + 1, Debounce}) ELSE age
     IN  age' = IF Differs THEN AgeWhenMarked(older) ELSE older
  /\ UNCHANGED <<phase, strip, url, files, pending, last, recent>>

Flush ==
  /\ Running /\ dirty /\ age >= Debounce
  /\ disk' = Saved(strip, url)
  /\ IF NothingToSave(strip, url) THEN UNCHANGED tracking
     ELSE last' = Live(strip, url) /\ dirty' = FALSE /\ age' = 0
  /\ UNCHANGED <<phase, strip, url, log, pending, recent>>

-----------------------------------------------------------------------------
(* Ending.                                                                 *)

\* The process is gone, and with it what it kept in memory.
Gone ==
  /\ phase' = "off"
  /\ strip' = EmptyStrip /\ url' = <<>> /\ pending' = Nothing
  /\ last' = Untracked /\ dirty' = FALSE /\ age' = 0

CleanExitLog == <<>>
CleanExit == log' = CleanExitLog /\ recent' = <<>>

\* The window is closed, or Ctrl-C; before the window exists there is no
\* engine and nothing to save.
Quit == Running /\ disk' = Saved(strip, url) /\ CleanExit /\ Gone
QuitEarly == phase = "start" /\ CleanExit /\ Gone /\ UNCHANGED disk

\* request_exit, with no tab left.  Handlers that mark the session dirty do
\* so after it, and check_shutdown saves once more.
LastTabCloses(marks) ==
  /\ Running /\ Len(strip.tabs) = 1
  /\ disk' = IF marks THEN {Snapshot(EmptyStrip, <<>>)} ELSE Saved(EmptyStrip, <<>>)
  /\ CleanExit /\ Gone

\* A crash, a kill, or the hard abort of a shutdown that hangs.
Crash == phase # "off" /\ Gone /\ UNCHANGED <<files, recent>>

\* The launch log is read at launches only, so the time a run takes may as
\* well pass after it.
Tick ==
  /\ phase = "off" /\ log # <<>>
  /\ log' = [i \in DOMAIN log |-> Min({log[i] + 1, LoopWindow + 1})]
  /\ recent' = Only([i \in DOMAIN recent |-> recent[i] + 1], 0..LoopWindow)
  /\ UNCHANGED <<phase, strip, url, disk, pending, tracking>>

-----------------------------------------------------------------------------
Init ==
  /\ phase = "off"
  /\ strip = EmptyStrip /\ url = <<>> /\ pending = Nothing
  /\ disk = {} \/ \E entries \in BoundedSeq(Entry, MaxSaved), active \in 0..MaxSaved + 1 :
       PinnedFirst(entries) /\ disk = {Session(entries, active)}
  /\ log = <<>> /\ recent = <<>>
  /\ last = Untracked /\ dirty = FALSE /\ age = 0

CliUrls == BoundedSeq(Safe, 1)

Next ==
  \/ \E cli \in CliUrls, noRestore \in BOOLEAN : Launch(cli, noRestore)
  \/ OpenPendingTabs
  \/ \E u \in Safe, background \in BOOLEAN : OpenTab(u, background)
  \/ \E u \in Safe, i \in {strip.active, strip.active + 1}, marks \in BOOLEAN : OpenAdjacent(u, i, marks)
  \/ \E i \in Positions(strip) :
       \/ SelectTab(i)
       \/ \E to \in Positions(strip), marks \in BOOLEAN : MoveTab(i, to, marks)
       \/ PinTab(i)
       \/ \E u \in Safe : AddressChange(i, u)
       \/ \E marks \in BOOLEAN : CloseTab(i, marks)
  \/ \E u \in Safe : Navigate(u)
  \/ Poll \/ Flush
  \/ Quit \/ QuitEarly \/ (\E marks \in BOOLEAN : LastTabCloses(marks)) \/ Crash
  \/ Tick

\* about_to_wait runs as long as the event loop does, and polls and flushes
\* by the clock whatever the user does in between.
Spec == Init /\ [][Next]_vars /\ WF_vars(Poll) /\ WF_vars(Flush)

-----------------------------------------------------------------------------
(* Properties.                                                             *)

\* A session on disk stands for the open tabs: as many, in the same order
\* with the same pins, the same one active and its address up to date.  A
\* background tab's address may lag; and if a paste has put a tab between
\* the pinned ones, the saved index is that of the strip, which names some
\* other entry of the file.
StandsFor(d, s, u) ==
  \E saved \in d :
    LET pins(list) == [i \in DOMAIN list |-> list[i].pinned]
    IN  /\ pins(saved.entries) = pins(Snapshot(s, u).entries)
        /\ saved.active = s.active
        /\ PinnedFirst(List(s, u)) => saved.entries[s.active].url = ActiveUrl(s, u)

\* Whatever changed since the last save is marked, or will be noticed by the
\* next poll: no sequence of handlers that do not mark adds up to a change
\* the poll cannot see (event_loop.rs:1795-1811).
UnsavedIsNoticed == Running => StandsFor(disk, strip, url) \/ dirty \/ Differs

\* A clean exit leaves the tabs of its last moment on disk; the last tab's
\* closing leaves none, unless no poll and no mark came before it, when
\* nothing tells it from a run that has not begun (main.rs:2940-2946).
CleanExitSaves ==
  [][/\ Quit => StandsFor(disk', strip, url)
     /\ \A marks \in BOOLEAN : LastTabCloses(marks) =>
          disk' = {Session(<<>>, 0)} \/ (~marks /\ ~dirty /\ last = Untracked)]_vars

\* A launch restores what is on disk, unless it was told not to or completes
\* LoopThreshold launches in the window with no clean exit among them; such
\* a launch leaves no session to be restored by the next (crash_guard.rs).
RestoresUnlessLooping ==
  [][phase' = "start" => \A cli \in CliUrls, noRestore \in BOOLEAN : Launch(cli, noRestore) =>
       IF Len(recent') >= LoopThreshold THEN pending'.entries = <<>> /\ disk' = {}
       ELSE disk' = disk /\ (noRestore \/ \A s \in disk : pending'.entries = Kept(s))]_vars

\* Where the focus of a saved session belongs: on the tab that was active; if
\* that was left out, on the next one kept, or on the first if there is none.
Landing(s) ==
  LET kept == {i \in DOMAIN s.entries : s.entries[i].url \in Safe}
      from == IF s.active = 0 THEN {} ELSE {i \in kept : i >= s.active}
  IN  IF from = {} THEN 1 ELSE Cardinality({i \in kept : i <= Min(from)})

\* The window opens with the saved tabs in their order and each with its own
\* pin, the disallowed ones left out, and a command-line address behind them;
\* the focus is on that, or where it was saved, whatever was dropped before
\* it (filter_entries, open_pending_tabs).
RestoredAsSaved ==
  [][phase = "start" /\ phase' = "run" /\ pending.entries # <<>> =>
       \E s \in disk :
         /\ List(strip', url') =
              Kept(s) \o [i \in DOMAIN pending.cli |-> [url |-> pending.cli[i], pinned |-> FALSE]]
         /\ strip'.active = IF pending.cli = <<>> THEN Landing(s) ELSE Len(strip'.tabs)]_vars

\* While the browser runs, its tabs reach the disk again and again, however
\* often they change.
EventuallySaved == []<>(~Running \/ StandsFor(disk, strip, url))

\* The tabs of a session come back with the next, as they were.
SessionSurvives == CleanExitSaves /\ RestoresUnlessLooping /\ RestoredAsSaved
=============================================================================
