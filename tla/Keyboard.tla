------------------------------ MODULE Keyboard ------------------------------
(* Where a key goes: the overlay, the hint session of the active tab, the   *)
(* focused field or the modal engine, in this order; the modal engine with  *)
(* its pending chords, its count and the ambiguity timeout; hint sessions,  *)
(* with the script that announces its hints over the console; and what      *)
(* about_to_wait does for all of them.  The state of the window is one      *)
(* record and the handlers are functions from a state to the states they    *)
(* may leave.  Prompts are modelled in Permissions, the events that focus a *)
(* field in EditFocus.                                                      *)
EXTENDS Naturals, Sequences, FiniteSets, SequencesExt

CONSTANTS
  Tabs,           \* the tabs
  NoTab,          \* none of them
  SlotOf,         \* which hint session a tab uses: its own, or one for all
  Keymaps,        \* the keymaps a configuration can have
  MaxTyped        \* bound on the characters of a hint label

Slots == {SlotOf[t] : t \in Tabs}

Modes == {"normal", "visual", "command", "hint", "insert"}

\* A session named for a tab is that tab's (CEF); all the tabs of WebKit share
\* one that is named for none.
ASSUME SlotAssumption == Tabs # {} /\ \A t, u \in Tabs : SlotOf[t] = u => t = u

\* A keymap has no trie for Insert.
ASSUME KeymapsAssumption == \A km \in Keymaps : \A b \in km : b.mode # "insert"

VARIABLES
  keymap,         \* the bindings: mode, keys and action
  ui,             \* the state of the window
  mailbox,        \* the one place for a line of hint.js
  weary           \* the user does nothing any more but press Esc

vars == <<keymap, ui, mailbox, weary>>

Chords == (UNION {Range(b.keys) : b \in UNION Keymaps}) \cup {"esc", "return", "back", "digit", "c-t"}

NoSession == [live |-> FALSE, of |-> NoTab, typed |-> 0]
NoMail == [tab |-> NoTab, kind |-> "none"]

Init ==
  /\ keymap \in Keymaps
  /\ ui = [mode |-> "normal", returnMode |-> "normal",
           pending |-> <<>>,       \* the chords of an unfinished binding
           late |-> FALSE,         \* the timeout of the first of them is over
           counting |-> FALSE,     \* a count has been typed
           overlay |-> "none",
           fresh |-> FALSE,        \* the overlay was opened with a new tab
           editing |-> FALSE,      \* a field is focused
           active |-> CHOOSE t \in Tabs : TRUE,
           session |-> [t \in Slots |-> NoSession],
           lines |-> [t \in Tabs |-> {}]]  \* lines of hint.js on their way
  /\ mailbox = NoMail
  /\ weary = FALSE

-----------------------------------------------------------------------------
(* The trie of a mode.  Insert has none.                                    *)

Bound(m) == {b \in keymap : b.mode = m}

Exact(m, keys) == {b \in Bound(m) : b.keys = keys}
Longer(m, keys) == {b \in Bound(m) : IsStrictPrefix(keys, b.keys)}

\* ModeMap::lookup.
Lookup(m, keys) ==
  IF Longer(m, keys) # {} THEN "pending"
  ELSE IF Exact(m, keys) # {} THEN "match" ELSE "none"

\* ModeMap::resolve_timeout: the longest binding on the way.
Shorter(m, keys) ==
  {b \in Bound(m) : /\ IsPrefix(b.keys, keys)
                    /\ \A c \in Bound(m) : IsPrefix(c.keys, keys) => Len(c.keys) <= Len(b.keys)}

-----------------------------------------------------------------------------
(* The modal engine.                                                        *)

Reset(s) == [s EXCEPT !.pending = <<>>, !.late = FALSE, !.counting = FALSE]

\* set_mode.
SetMode(s, m) == Reset([s EXCEPT !.mode = m])

\* apply_implicit_mode.
Implicit(s, action) ==
  CASE action \in {"omnibar", "commandline"} -> [s EXCEPT !.mode = "command"]
    [] action = "hint" -> [s EXCEPT !.mode = "hint"]
    [] action = "insert" -> [s EXCEPT !.mode = "insert", !.returnMode = s.mode]
    [] action = "normal" -> [s EXCEPT !.mode = "normal"]
    [] OTHER -> s

\* finalise_action; the count goes into the action.
Finalised(s, action) == Reset(Implicit(s, action))

\* Engine::feed: the state after a chord and the action it resolves to.
Fed(s, chord) ==
  LET keys == Append(s.pending, chord) IN
  IF s.mode = "insert" THEN {[state |-> s, action |-> "none"]}
  ELSE IF s.mode \in {"normal", "visual"} /\ s.pending = <<>> /\ chord = "digit"
  THEN {[state |-> [s EXCEPT !.counting = TRUE], action |-> "none"]}
  ELSE CASE Lookup(s.mode, keys) = "match" ->
              {[state |-> Finalised(s, b.action), action |-> b.action] : b \in Exact(s.mode, keys)}
         [] Lookup(s.mode, keys) = "pending" ->
              {[state |-> [s EXCEPT !.pending = keys], action |-> "none"]}
         [] OTHER -> {[state |-> Reset(s), action |-> "none"]}

\* Only a shorter binding ends the wait.
Ticked_resolving(s) ==
  IF s.late /\ Shorter(s.mode, s.pending) # {}
  THEN {[state |-> Finalised(s, b.action), action |-> b.action] : b \in Shorter(s.mode, s.pending)}
  ELSE {[state |-> s, action |-> "none"]}

\* Engine::tick.
Ticked(s) ==
  IF ~s.late THEN {[state |-> s, action |-> "none"]}
  ELSE IF Shorter(s.mode, s.pending) = {} THEN {[state |-> Reset(s), action |-> "none"]}
  ELSE {[state |-> Finalised(s, b.action), action |-> b.action] : b \in Shorter(s.mode, s.pending)}

-----------------------------------------------------------------------------
(* Overlays, tabs and hint sessions.                                        *)

Session(s) == s.session[SlotOf[s.active]]
WithSession(s, x) == [s EXCEPT !.session[SlotOf[s.active]] = x]

\* close_overlay; a new tab that was opened for it goes with it.
Closed(s) ==
  IF s.overlay = "none" THEN {s}
  ELSE LET c == SetMode([s EXCEPT !.overlay = "none", !.fresh = FALSE], "normal") IN
       IF s.fresh THEN {[c EXCEPT !.active = t] : t \in Tabs \ {s.active}} ELSE {c}

\* open_tab_at and the omnibar for it, or a tab that cannot be opened.
NewTab(s) ==
  {s} \cup {[s EXCEPT !.active = t, !.session[SlotOf[t]] = IF SlotOf[t] = t THEN NoSession ELSE @,
                      !.lines[t] = {}, !.overlay = "omnibar", !.fresh = TRUE] : t \in Tabs \ {s.active}}

\* enter_hint_mode: an empty session and a script with a nonce of its own,
\* which makes the lines of an earlier one stale; no session without a frame.
HintsEntered(s) ==
  {WithSession(s, NoSession),
   [WithSession(s, [live |-> TRUE, of |-> NoTab, typed |-> 0])
      EXCEPT !.lines[s.active] = {"ready", "error"} \cup {"stale" : l \in s.lines[s.active]}]}

\* What dispatch_action does here.
Dispatched(s, action) ==
  CASE action = "newtab" -> NewTab(s)
    [] action = "next" -> UNION {Closed([s EXCEPT !.active = t]) : t \in Tabs}
    [] action = "hint" -> HintsEntered(s)
    [] action = "exit" -> {SetMode([s EXCEPT !.editing = FALSE], "normal")}
    [] action = "yank" -> {SetMode(s, "normal")}
    [] OTHER -> {s}

\* What handle_key_event does with the action of a key.
Performed(s, action) ==
  CASE action \in {"omnibar", "commandline"} -> {[s EXCEPT !.overlay = action]}
    [] action = "find" -> {SetMode([s EXCEPT !.overlay = "find"], "command")}
    [] OTHER -> Dispatched(s, action)

Repeatable == {"scroll", "next"}

-----------------------------------------------------------------------------
(* The handlers of a key.                                                   *)

\* overlay_handle_key; a command that is confirmed may change the tab.
OverlayKey(s, chord) ==
  CASE chord = "esc" -> Closed(s)
    [] chord = "return" ->
         {[SetMode([s EXCEPT !.overlay = "none", !.fresh = FALSE], "normal") EXCEPT !.active = t] :
            t \in IF s.overlay = "commandline" THEN Tabs ELSE {s.active}}
    [] OTHER -> {s}

HintsLeft(s) == SetMode(WithSession(s, NoSession), "normal")

\* hint_mode_handle_key, with HintSession::feed and ::backspace: no hint has
\* a label that starts with what is typed before the hints are announced.
HintKey(s, chord, repeat) ==
  CASE repeat -> {s}
    [] ~repeat /\ chord = "esc" -> {HintsLeft(s)}
    [] ~repeat /\ chord = "back" ->
         {IF Session(s).typed = 0 THEN HintsLeft(s)
          ELSE WithSession(s, [Session(s) EXCEPT !.typed = @ - 1])}
    [] ~repeat /\ chord \notin {"esc", "back", "return", "c-t"} ->
         {HintsLeft(s)} \cup
         IF Session(s).of # NoTab /\ Session(s).typed < MaxTyped
         THEN {WithSession(s, [Session(s) EXCEPT !.typed = @ + 1])} ELSE {}
    [] OTHER -> {s}

\* edit_mode_handle_key in a field: all keys but a few go to the page.
FieldKey(s, chord) ==
  CASE chord = "esc" -> {SetMode([s EXCEPT !.editing = FALSE], "normal")}
    [] chord = "c-t" -> NewTab(s)
    [] OTHER -> {s}

\* Insert is left with a field only.
Unfocused_stays(s) == s

\* Esc in Insert without a field: feed_edit_mode_key.
Unfocused(s) == [s EXCEPT !.mode = s.returnMode]

\* Engine::feed and what its action does; a repeated key does not repeat
\* every action, but it has changed the mode by then.
EngineKey(s, chord, repeat) ==
  UNION {IF repeat /\ f.action \notin Repeatable THEN {f.state} ELSE Performed(f.state, f.action) :
           f \in Fed(s, chord)}

\* handle_key_event.
Handled(s, chord, repeat) ==
  CASE s.overlay # "none" -> OverlayKey(s, chord)
    [] s.overlay = "none" /\ Session(s).live -> HintKey(s, chord, repeat)
    [] s.overlay = "none" /\ ~Session(s).live /\ s.editing -> FieldKey(s, chord)
    [] s.overlay = "none" /\ ~Session(s).live /\ ~s.editing /\ s.mode = "insert" /\ chord = "esc" ->
         {Unfocused(s)}
    [] OTHER -> EngineKey(s, chord, repeat)

Key(chord, repeat) ==
  /\ weary => chord = "esc"
  /\ ui' \in Handled(ui, chord, repeat)
  /\ UNCHANGED <<keymap, mailbox, weary>>

Esc == Key("esc", FALSE)

-----------------------------------------------------------------------------
(* The other events.                                                        *)

\* A click on a tab, which closes the overlay.
ClickTab(t) ==
  /\ ~weary
  /\ ui' \in Closed([ui EXCEPT !.active = t])
  /\ UNCHANGED <<keymap, mailbox, weary>>

\* A selection with the mouse: Visual begins with it, and a click ends it.
Drag ==
  /\ ~weary
  /\ ui' = IF ui.mode = "visual" THEN SetMode(ui, "normal") ELSE SetMode(ui, "visual")
  /\ UNCHANGED <<keymap, mailbox, weary>>

\* A field of the active tab is focused.
FieldFocused ==
  /\ ~weary /\ ~ui.editing
  /\ ui' = SetMode([ui EXCEPT !.editing = TRUE], "insert")
  /\ UNCHANGED <<keymap, mailbox, weary>>

\* It loses the focus, for good: the mode follows when the window for the
\* focus of another field is over.
FieldBlurred ==
  /\ ui.editing
  /\ ui' = LET s == [ui EXCEPT !.editing = FALSE] IN
             IF s.mode = "insert" THEN SetMode(s, "normal") ELSE s
  /\ UNCHANGED <<keymap, mailbox, weary>>

\* set_keymap forgets the pending chords.
Rebound(s) == Reset(s)

\* The configuration is read again.
Reload(km) ==
  /\ ~weary
  /\ keymap' = km /\ ui' = Rebound(ui)
  /\ UNCHANGED <<mailbox, weary>>

\* A page is left with all that its script has still to say.
Navigated(t) ==
  /\ ~weary
  /\ ui' = [ui EXCEPT !.lines[t] = {}]
  /\ UNCHANGED <<keymap, mailbox, weary>>

\* on_console_message: the script either announces its hints or an error; a
\* line with an old nonce is dropped, another one overwrites the mailbox.
LineArrives(t) ==
  \E line \in ui.lines[t] :
    /\ ui' = [ui EXCEPT !.lines[t] = IF line = "stale" THEN @ \ {"stale"} ELSE @ \cap {"stale"}]
    /\ mailbox' = IF line = "stale" THEN mailbox ELSE [tab |-> t, kind |-> line]
    /\ UNCHANGED <<keymap, weary>>

\* The timeout of the first pending chord is over.
TimePasses ==
  /\ ui.pending # <<>> /\ ~ui.late
  /\ ui' = [ui EXCEPT !.late = TRUE]
  /\ UNCHANGED <<keymap, mailbox, weary>>

\* pump_hint_events gives the hints to the tab in front.
Pumped_active(s) ==
  CASE mailbox.kind = "ready" /\ Session(s).live ->
         WithSession(s, [live |-> TRUE, of |-> mailbox.tab, typed |-> 0])
    [] mailbox.kind = "error" -> WithSession(s, NoSession)
    [] OTHER -> s

\* pump_hint_events: the hints go to the tab that announced them, an error
\* ends the session of the active tab.
Pumped(s) ==
  CASE mailbox.kind = "ready" /\ s.session[SlotOf[mailbox.tab]].live ->
         [s EXCEPT !.session[SlotOf[mailbox.tab]] = [live |-> TRUE, of |-> mailbox.tab, typed |-> 0]]
    [] mailbox.kind = "error" -> WithSession(s, NoSession)
    [] OTHER -> s

\* about_to_wait: the engine's timeout, whose action is dispatched, and the
\* mailbox.
AboutToWait ==
  /\ ui' \in {Pumped(d) : d \in UNION {Dispatched(k.state, k.action) : k \in Ticked(ui)}}
  /\ mailbox' = NoMail
  /\ UNCHANGED <<keymap, weary>>

\* From now on the user presses nothing but Esc.
GiveUp == ~weary /\ weary' = TRUE /\ UNCHANGED <<keymap, ui, mailbox>>

Next ==
  \/ \E chord \in Chords, repeat \in BOOLEAN : Key(chord, repeat)
  \/ \E t \in Tabs : ClickTab(t) \/ Navigated(t) \/ LineArrives(t)
  \/ Drag \/ FieldFocused \/ FieldBlurred
  \/ \E km \in Keymaps : Reload(km)
  \/ TimePasses \/ AboutToWait \/ GiveUp

Fairness == WF_vars(weary /\ Esc) /\ WF_vars(TimePasses) /\ WF_vars(AboutToWait)

Spec == Init /\ [][Next]_vars /\ Fairness

-----------------------------------------------------------------------------

\* The pending chords are the beginning of a binding of the mode they are
\* looked up in, whatever has changed the mode or the keymap meanwhile.
PendingIsPrefix == ui.pending # <<>> => Longer(ui.mode, ui.pending) # {}

\* An unfinished binding is finished or forgotten.
PendingEnds == ui.pending # <<>> ~> ui.pending = <<>>

\* The hints a tab chooses from are its own.
OwnHints == \A t \in Tabs : SlotOf[t] = t => ui.session[t].of \in {t, NoTab}

Calm(s) ==
  s.mode = "normal" /\ s.overlay = "none" /\ ~Session(s).live /\ ~s.editing

\* Whatever state the keyboard is in, Esc and nothing else leads back to the
\* page in Normal mode.
EscLeaves == weary ~> Calm(ui)

\* What is pending can be finished, and does not stay.
BindingsEnd == []PendingIsPrefix /\ PendingEnds
=============================================================================
