----------------------------- MODULE EditFocus ------------------------------
(* Which field of which page the keyboard goes to: edit.js reports the      *)
(* focus over the console, the lines that carry the nonce of their page are *)
(* queued, and about_to_wait takes the whole queue, drops what is not from  *)
(* the active tab and follows the rest.  Tabs act on their own and receive *)
(* what the application sends them later.  A queue entry also remembers     *)
(* whether something was missed after it, which the code does not.          *)
EXTENDS Naturals, Sequences, SequencesExt

CONSTANTS
  Tabs,           \* the tabs
  Fields,         \* the ids edit.js gives to fields, the same in every page
  NoField,        \* no field
  SinkCap,        \* EDIT_EVENT_SINK_CAP
  MaxSent         \* bound on what is on its way to a page

Focusable == Fields \cup {NoField}

VARIABLES
  page,           \* what each page has focused, and what edit.js knows of it
  sent,           \* what the application has sent to each page
  sink,           \* the queue of tagged events
  app,            \* the state of the window
  tracked         \* the events tell the truth about the active page

vars == <<page, sent, sink, app, tracked>>

Document(f) == [focus |-> f, lit |-> FALSE, latch |-> NoField]

Init ==
  /\ page = [p \in Tabs |-> Document(NoField)]
  /\ sent = [p \in Tabs |-> <<>>]
  /\ sink = <<>>
  /\ app \in [active : Tabs, editing : {NoField}, insert : {FALSE}, blurred : {"no"}]
  /\ tracked = TRUE

-----------------------------------------------------------------------------
(* A page and edit.js.                                                      *)

\* The listeners: a focus is reported once, a blur always.
Lit(d) == d.focus # NoField /\ d.latch # d.focus

FocusLines(d) == IF Lit(d) THEN <<[kind |-> "focus", field |-> d.focus]>> ELSE <<>>
BlurLines(d) == IF d.focus # NoField THEN <<[kind |-> "blur", field |-> d.focus]>> ELSE <<>>

Reported(d) == [d EXCEPT !.latch = IF d.focus = NoField THEN @ ELSE d.focus]
Unreported(d) == [d EXCEPT !.latch = IF @ = d.focus THEN NoField ELSE @]

\* push_edit_event, for each of the events: the oldest of a full queue goes.
Pushed(q, events) ==
  LET all == q \o events
  IN  SubSeq(all, Max({1, Len(all) - SinkCap + 1}), Len(all))

\* What the queue says of p is no longer the last word.
Aged(p) == [i \in DOMAIN sink |-> IF sink[i].tab = p THEN [sink[i] EXCEPT !.old = TRUE] ELSE sink[i]]

Tagged(p, lines) ==
  [i \in DOMAIN lines |-> [tab |-> p, old |-> FALSE, kind |-> lines[i].kind, field |-> lines[i].field]]

\* edit.js of p writes lines, or misses a change; lines are refused while a
\* new copy with a new nonce is on its way to p.
Written(p, lines, missed) ==
  LET refused == "inject" \in Range(sent'[p])
      lost == missed \/ (refused /\ lines # <<>>)
  IN /\ sink' = Pushed(IF lost THEN Aged(p) ELSE sink, Tagged(p, IF refused THEN <<>> ELSE lines))
     /\ tracked' = (/\ tracked
                    /\ Len(sink) + Len(lines) <= SinkCap
                    /\ ~(lost /\ p = app.active))

\* The focus of p moves to f: pages without the focus of the window move it
\* without events, and the script that moves it may announce it itself.
Moves(p, f, announced) ==
  LET d == page[p]
      gone == IF d.lit /\ f # d.focus THEN Unreported(d) ELSE d
      there == [gone EXCEPT !.focus = f]
      told == announced \/ (d.lit /\ f # d.focus)
  IN /\ page' = [page EXCEPT ![p] = IF told THEN Reported(there) ELSE there]
     /\ Written(p, (IF d.lit /\ f # d.focus THEN BlurLines(d) ELSE <<>>)
                     \o (IF told THEN FocusLines(there) ELSE <<>>),
                f # d.focus /\ ~d.lit)

\* The user, or a script of the page, moves the focus.
PageMoves(p) ==
  \E f \in Focusable \ {page[p].focus} :
    UNCHANGED <<sent, app>> /\ Moves(p, f, FALSE)

\* The first field with its events, EXIT_INSERT, __buffrCycleInput, the
\* focus of the window, or a new copy of edit.js.
Receives(p) ==
  LET m == Head(sent[p])
      d == page[p] IN
  /\ sent[p] # <<>>
  /\ sent' = [sent EXCEPT ![p] = Tail(@)]
  /\ UNCHANGED app
  /\ \/ m = "exit" /\ Moves(p, NoField, FALSE)
     \/ m \in {"first", "cycle"} /\ \E f \in Fields \cup {d.focus} : Moves(p, f, TRUE)
     \/ m = "dark"
        /\ page' = [page EXCEPT ![p] = [(IF d.lit THEN Unreported(d) ELSE d) EXCEPT !.lit = FALSE]]
        /\ Written(p, IF d.lit THEN BlurLines(d) ELSE <<>>, FALSE)
     \/ m = "light"
        /\ page' = [page EXCEPT ![p] = [(IF d.lit THEN d ELSE Reported(d)) EXCEPT !.lit = TRUE]]
        /\ Written(p, IF d.lit THEN <<>> ELSE FocusLines(d), FALSE)
     \/ m = "inject"
        \* The fields are numbered anew and the one in focus is reported.
        /\ \E f \in Fields :
             LET n == [d EXCEPT !.focus = IF @ = NoField THEN NoField ELSE f, !.latch = NoField] IN
             /\ page' = [page EXCEPT ![p] = Reported(n)]
             /\ Written(p, FocusLines(n), FALSE)

\* on_load_end of the same document: the nonce is rotated, then edit.js is
\* sent.
LoadEnds(p) ==
  /\ Len(sent[p]) < MaxSent
  /\ sent' = [sent EXCEPT ![p] = Append(@, "inject")]
  /\ UNCHANGED <<page, sink, app, tracked>>

\* Another document, with a field focused already or not; the old one does
\* not report that it loses the focus.
Navigates(p) ==
  \E f \in Focusable :
    /\ page' = [page EXCEPT ![p] = [Document(f) EXCEPT !.lit = page[p].lit]]
    /\ sent' = [sent EXCEPT ![p] = <<"inject">>]
    /\ sink' = Aged(p)
    /\ tracked' = (tracked /\ p # app.active)
    /\ UNCHANGED app

-----------------------------------------------------------------------------
(* The application.                                                         *)

Sends(p, m) == Len(sent[p]) < MaxSent /\ sent' = [sent EXCEPT ![p] = Append(@, m)]

\* Whatever tab it comes from.
Followed_any(a, e) ==
  CASE e.kind = "focus" /\ a.editing # e.field ->
         [a EXCEPT !.editing = e.field, !.blurred = "no", !.insert = TRUE]
    [] e.kind = "blur" /\ a.editing = e.field -> [a EXCEPT !.editing = NoField, !.blurred = "new"]
    [] OTHER -> a

\* The timer of the blur runs on.
Followed_timed(a, e) ==
  CASE e.tab # a.active -> a
    [] e.tab = a.active /\ e.kind = "focus" /\ a.editing # e.field ->
         [a EXCEPT !.editing = e.field, !.insert = TRUE]
    [] e.tab = a.active /\ e.kind = "blur" /\ a.editing = e.field ->
         [a EXCEPT !.editing = NoField, !.blurred = "new"]
    [] OTHER -> a

\* drain_edit_focus_events, for one event.
Followed(a, e) ==
  CASE e.tab # a.active -> a
    [] e.tab = a.active /\ e.kind = "focus" /\ a.editing # e.field ->
         [a EXCEPT !.editing = e.field, !.blurred = "no", !.insert = TRUE]
    [] e.tab = a.active /\ e.kind = "blur" /\ a.editing = e.field ->
         [a EXCEPT !.editing = NoField, !.blurred = "new"]
    [] OTHER -> a

FollowedAll(a, events) ==
  LET upTo[n \in 0..Len(events)] == IF n = 0 THEN a ELSE Followed(upTo[n - 1], events[n])
  IN  upTo[Len(events)]

\* expire_pending_blur: only Insert is left.
Expired(a) ==
  IF a.blurred # "old" THEN a
  ELSE [a EXCEPT !.blurred = "no", !.insert = FALSE]

\* A focus of the document that is there now says where the focus is.
Tells(e) == e.tab = app.active /\ e.kind = "focus" /\ ~e.old

\* about_to_wait: the queue, then the timer.
AboutToWait ==
  /\ app' = Expired(FollowedAll(app, sink))
  /\ sink' = <<>>
  /\ tracked' = (tracked \/ \E i \in DOMAIN sink : Tells(sink[i]))
  /\ UNCHANGED <<page, sent>>

\* BLUR_TRANSFER_WINDOW_MS are over.
TimePasses ==
  /\ app.blurred = "new"
  /\ app' = [app EXCEPT !.blurred = "old"]
  /\ UNCHANGED <<page, sent, sink, tracked>>

\* Esc in a field, or in a mode where it is bound to ExitInsertMode.
Exit ==
  /\ app.editing # NoField \/ ~app.insert
  /\ app' = [app EXCEPT !.editing = NoField, !.insert = FALSE]
  /\ Sends(app.active, "exit")
  /\ UNCHANGED <<page, sink, tracked>>

\* A key bound to Insert mode, Esc in Insert without a field, the mouse that
\* begins Visual mode: the mode changes and the focus does not.
ModeChanges ==
  /\ app' = [app EXCEPT !.insert = ~app.insert]
  /\ app'.insert => app.editing = NoField
  /\ UNCHANGED <<page, sent, sink, tracked>>

\* FocusFirstInput in a page, Tab in a field, or a click on the page.
Asks(m) ==
  /\ CASE m = "first" -> app.editing = NoField /\ ~app.insert
       [] m = "cycle" -> app.editing # NoField
       [] OTHER -> TRUE
  /\ Sends(app.active, m)
  /\ UNCHANGED <<page, sink, app, tracked>>

\* select_tab: one page loses the focus of the window to another one.
SelectTab(t) ==
  /\ t # app.active
  /\ Len(sent[app.active]) < MaxSent /\ Len(sent[t]) < MaxSent
  /\ sent' = [sent EXCEPT ![app.active] = Append(@, "dark"), ![t] = Append(@, "light")]
  /\ app' = [app EXCEPT !.active = t]
  /\ tracked' = FALSE
  /\ UNCHANGED <<page, sink>>

Next ==
  \/ \E p \in Tabs : PageMoves(p) \/ Receives(p) \/ LoadEnds(p) \/ Navigates(p)
  \/ AboutToWait \/ TimePasses
  \/ Exit \/ ModeChanges
  \/ \E m \in {"first", "cycle", "light"} : Asks(m)
  \/ \E t \in Tabs : SelectTab(t)

Spec == Init /\ [][Next]_vars

-----------------------------------------------------------------------------
Quiet == sink = <<>> /\ sent[app.active] = <<>>

\* Once a focus has been reported and until the tab or its document changes
\* or events are lost, the application knows which field has the focus,
\* whatever it, the page, the other tabs and the popups do meanwhile.
InSync == Quiet /\ tracked /\ page[app.active].lit => app.editing = page[app.active].focus

\* The timer of a blur ends Insert mode only when no other field has the
\* focus by then.
NoFieldIsLeft ==
  [][app.insert /\ ~app'.insert /\ AboutToWait => app'.editing = NoField]_vars

\* A text field is focused wherever keys are forwarded to the page, as
\* edit_mode_handle_key assumes: at least when no event is on its way.
FieldIsFocused ==
  Quiet /\ page[app.active].lit /\ app.editing # NoField => page[app.active].focus # NoField
=============================================================================
