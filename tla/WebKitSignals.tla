---------------------------- MODULE WebKitSignals ---------------------------
(***************************************************************************)
(* What a WebKit engine tells the application about its pages, and what    *)
(* its pages ask of it.                                                    *)
(*                                                                         *)
(* WebKit's signals run on the worker thread.  They keep a record of each  *)
(* tab behind a lock (TabInfo), which they must not wait for: an update    *)
(* that finds it taken is dropped.  For the tab in front they also set     *)
(* flags without a lock (is_loading_atomic, can_go_back), which the        *)
(* application reads at any time and, when it navigates, writes.  Orders   *)
(* of the application wait in the worker's channel and are for whichever   *)
(* tab is in front when they are carried out; a full channel drops them.   *)
(* WebKitChannel models the channel, with the calls that wait; here a      *)
(* close waits for its turn and is one step.                               *)
(*                                                                         *)
(* A page may read the clipboard over a scheme of its own: the reading     *)
(* happens on a thread, the answer is given on the worker thread.          *)
(***************************************************************************)
EXTENDS Naturals, Sequences, FiniteSets

CONSTANTS
  Tabs,        \* tabs
  QueueLen,    \* places in the channel
  MaxSteps     \* bound: what users, pages and WebKit do from outside

VARIABLES
  open,        \* the open tabs
  front,       \* the active tab, Nobody without tabs
  page,        \* of each tab: phase of its load, past (it can go back), home (a buffr:// page)
  info,        \* of each tab, whether TabInfo says that it loads
  flags,       \* is_loading_atomic and can_go_back
  orders,      \* the channel
  reads,       \* the clipboard requests: [tab, secret, stage]
  got,         \* the view that was given the input, script or search just carried out
  steps,       \* steps from outside so far
  chosen,      \* (ghost) the tab the application selected last
  missed,      \* (ghost) the tabs that lost an update of their record
  unsure       \* (ghost) the flags no signal has set since they went wrong

Nobody == "nobody"

shown == <<front, page, info, flags, chosen, missed, unsure>>
vars == <<open, shown, orders, got, reads, steps>>

Idle == "idle"            \* loaded, or nothing to load
Asked == "asked"          \* told to load, WebKit has not begun
Started == "started"
Committed == "committed"  \* something is visible, the rest to come

Init ==
  /\ front \in Tabs /\ open = Tabs /\ chosen = front
  /\ page = [t \in Tabs |-> [phase |-> Idle, past |-> FALSE, home |-> FALSE]]
  /\ info = [t \in Tabs |-> FALSE]
  /\ flags = [loading |-> FALSE, back |-> FALSE]
  /\ orders = <<>> /\ got = Nobody /\ reads = <<>> /\ steps = 0
  /\ missed = {} /\ unsure = {}

Outside == steps < MaxSteps /\ steps' = steps + 1

-----------------------------------------------------------------------------
(* The application (WebKitEngine).                                         *)

\* send: an order that finds no place is lost.
Sent(order) == orders' = IF Len(orders) < QueueLen THEN Append(orders, order) ELSE orders
Lost == Len(orders) >= QueueLen

\* navigate: the flag is set before the order is on its way.
Navigate ==
  /\ Outside /\ front # Nobody
  /\ flags' = [flags EXCEPT !.loading = TRUE]
  /\ Sent([do |-> "load", tab |-> chosen])
  /\ unsure' = IF Lost THEN unsure \cup {"loading"} ELSE unsure
  /\ UNCHANGED <<open, front, page, info, chosen, missed, reads, got>>

\* select_tab.
SelectTab(t) ==
  /\ Outside /\ t \in open
  /\ Sent([do |-> "select", tab |-> t])
  /\ chosen' = IF Lost THEN chosen ELSE t
  /\ UNCHANGED <<open, front, page, info, flags, missed, unsure, reads, got>>

\* Input, scripts, editing, searches, zoom: for the tab in front.
Act ==
  /\ Outside /\ front # Nobody
  /\ Sent([do |-> "act", tab |-> chosen])
  /\ UNCHANGED <<open, shown, reads, got>>

-----------------------------------------------------------------------------
(* The worker (WpeRuntime).                                                *)

\* with_tab_info: try_lock.
Noted(t, loading, free) ==
  IF free THEN info' = [info EXCEPT ![t] = loading] /\ missed' = missed \ {t}
  ELSE info' = info /\ missed' = missed \cup {t}

\* (mutant) select_tab leaves the flags to the next load.
Restored_later(t) == flags

\* The flags of a tab that comes to the front.
Restored(t) == [loading |-> info[t], back |-> page[t].past]

\* select_tab.
HandleSelect(t) ==
  IF t \notin open \/ t = front THEN UNCHANGED <<front, flags, unsure>>
  ELSE front' = t /\ flags' = Restored(t) /\ unsure' = {}

\* navigate: WebKit is told, and the mirror.
HandleLoad ==
  /\ page' = [page EXCEPT ![front].phase = Asked]
  /\ info' = [info EXCEPT ![front] = TRUE]
  /\ missed' = missed \ {front}

\* dispatch_event, eval_js and their like, for the active tab if there is one.
Given(order) == IF order.do = "act" THEN front ELSE Nobody

Obey ==
  /\ orders # <<>>
  /\ orders' = Tail(orders)
  /\ LET order == Head(orders) IN
     CASE order.do = "select" -> (HandleSelect(order.tab) /\ UNCHANGED <<page, info, missed>>)
       [] order.do = "load" /\ front # Nobody -> (HandleLoad /\ UNCHANGED <<front, flags, unsure>>)
       [] OTHER -> UNCHANGED <<front, page, info, flags, missed, unsure>>
  /\ got' = Given(Head(orders))
  /\ UNCHANGED <<open, reads, steps, chosen>>

\* close_active and close_tab: another tab comes to the front, and nobody
\* looks at its flags.
CloseTab(t) ==
  /\ Outside /\ t \in open /\ orders = <<>>
  /\ open' = open \ {t}
  /\ front' \in IF t # front THEN {front} ELSE IF open' = {} THEN {Nobody} ELSE open'
  /\ chosen' = front'
  /\ unsure' = IF t = front THEN {"loading", "back"} ELSE unsure
  /\ UNCHANGED <<page, info, flags, missed, orders, reads, got>>

-----------------------------------------------------------------------------
(* WebKit and its pages.                                                   *)

\* (mutant) Any tab sets the flags.
IsFront_any(t) == TRUE

\* The ctx.is_active of a signal.
IsFront(t) == t = front

\* on_load_changed, STARTED and REDIRECTED.
LoadStarts(t, free) ==
  /\ page' = [page EXCEPT ![t].phase = Started]
  /\ Noted(t, TRUE, free)
  /\ flags' = IF IsFront(t) THEN [flags EXCEPT !.loading = TRUE] ELSE flags
  /\ unsure' = IF t = front THEN unsure \ {"loading"} ELSE unsure

\* COMMITTED: the record goes on loading, the flag does not.
LoadCommits(t, home, free) ==
  /\ page' = [page EXCEPT ![t] = [phase |-> Committed, past |-> TRUE, home |-> home]]
  /\ Noted(t, info[t], free)
  /\ flags' = IF IsFront(t) THEN [loading |-> FALSE, back |-> TRUE] ELSE flags
  /\ unsure' = IF t = front THEN {} ELSE unsure

\* FINISHED, after a success or a failure.
LoadEnds(t, free) ==
  /\ page' = [page EXCEPT ![t].phase = IF @ = Asked THEN Asked ELSE Idle]
  /\ Noted(t, FALSE, free)
  /\ flags' = IF IsFront(t) THEN [loading |-> FALSE, back |-> page[t].past] ELSE flags
  /\ unsure' = IF t = front THEN {} ELSE unsure

\* on_decide_policy: what WebKit may load itself, everything else is given to
\* the system, after a gesture of the user, and never loaded.
MayLoad(internal) == internal

\* A page follows a link, or a load that was asked for begins.
Begins(t, internal, free) ==
  /\ t \in open
  /\ IF page[t].phase = Asked THEN UNCHANGED steps ELSE Outside
  /\ page[t].phase # Started /\ MayLoad(internal)
  /\ LoadStarts(t, free)
  /\ UNCHANGED <<open, front, orders, reads, chosen, got>>

Commits(t, home, free) ==
  /\ t \in open /\ page[t].phase = Started
  /\ LoadCommits(t, home, free)
  /\ UNCHANGED <<open, front, orders, reads, steps, chosen, got>>

\* A load ends; the one that another load replaced, before that one begins.
Ends(t, free) ==
  /\ t \in open
  /\ page[t].phase \in {Started, Committed} \/ (page[t].phase = Asked /\ Outside)
  /\ page[t].phase # Asked => UNCHANGED steps
  /\ LoadEnds(t, free)
  /\ UNCHANGED <<open, front, orders, reads, chosen, got>>

\* A script adds to the history without a load: no signal says so.
PushState(t) ==
  /\ Outside /\ t \in open /\ page[t].phase = Idle
  /\ page' = [page EXCEPT ![t].past = TRUE]
  /\ unsure' = IF t = front THEN unsure \cup {"back"} ELSE unsure
  /\ UNCHANGED <<open, front, info, flags, orders, reads, chosen, missed, got>>

-----------------------------------------------------------------------------
(* The clipboard (on_clipboard_paste_scheme_request).                      *)

\* (mutant) The page is looked at when the answer is ready.
MayRead_any(t) == TRUE

\* Only a buffr:// page is told what the clipboard holds.
MayRead(t) == page[t].home

\* The page of a tab asks; the others are answered with nothing at once.
Read(t) ==
  /\ Outside /\ t \in open
  /\ reads' = Append(reads, [tab |-> t, asker |-> page[t].home,
                             stage |-> IF MayRead(t) THEN "thread" ELSE "answered",
                             told |-> FALSE, answers |-> IF MayRead(t) THEN 0 ELSE 1])
  /\ UNCHANGED <<open, shown, orders, got>>

\* The thread has read the clipboard, or failed to, and leaves a closure for
\* the worker's main loop.
Fetched(i, text) ==
  /\ reads[i].stage = "thread"
  /\ reads' = [reads EXCEPT ![i].stage = IF text THEN "text" ELSE "nothing"]
  /\ UNCHANGED <<open, shown, orders, steps, got>>

\* (mutant) The closure stays in the main loop (G_SOURCE_CONTINUE).
Finished_again(stage) == stage

\* The closure runs once.
Finished(stage) == "answered"

Answer(i) ==
  /\ reads[i].stage \in {"text", "nothing"} /\ reads[i].answers < 2
  /\ reads' = [reads EXCEPT ![i].stage = Finished(@), ![i].told = reads[i].stage = "text",
                            ![i].answers = @ + 1]
  /\ UNCHANGED <<open, shown, orders, steps, got>>

-----------------------------------------------------------------------------
Next ==
  \/ Navigate \/ Act \/ Obey
  \/ \E t \in Tabs :
       \/ SelectTab(t) \/ CloseTab(t) \/ PushState(t) \/ Read(t)
       \/ \E free \in BOOLEAN :
            \/ Ends(t, free)
            \/ \E yes \in BOOLEAN : Begins(t, yes, free) \/ Commits(t, yes, free)
  \/ \E i \in DOMAIN reads : Answer(i) \/ \E text \in BOOLEAN : Fetched(i, text)

Spec == Init /\ [][Next]_vars

-----------------------------------------------------------------------------
(* Properties.                                                             *)

\* Once nothing is on its way, the flags say how the page in front is doing,
\* unless an update of it was dropped, the tab came to the front because
\* another closed, or nobody was told (on_load_changed, select_tab,
\* with_tab_info).
FlagsAreTrue ==
  (front # Nobody /\ orders = <<>>) =>
    /\ ("back" \notin unsure => flags.back = page[front].past)
    /\ ("loading" \notin unsure /\ front \notin missed) =>
         /\ page[front].phase = Started => flags.loading
         /\ page[front].phase = Idle => ~flags.loading

\* An order is carried out on the tab the application had selected when it
\* gave it (send, dispatch_event, eval_js, navigate).
OrdersFindTheirTab ==
  [][\A t \in open :
       /\ (Obey /\ Head(orders) = [do |-> "act", tab |-> t]) => got' = t
       /\ (Obey /\ Head(orders) = [do |-> "load", tab |-> t]) => page'[t].phase = Asked]_vars

\* Each reading of the clipboard is answered once, and only buffr:// pages
\* are told (on_clipboard_paste_scheme_request).
ReadsAreAnswered ==
  \A i \in DOMAIN reads :
    /\ reads[i].answers <= 1 /\ (reads[i].stage = "answered") = (reads[i].answers = 1)
    /\ reads[i].told => reads[i].asker
=============================================================================
