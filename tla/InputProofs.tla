----------------------------- MODULE InputProofs -----------------------------
(* Theorems about Keyboard, for any tabs, any keymaps and any labels: what  *)
(* is pending can be finished, and a tab chooses from its own hints.        *)
(* Theorems about Overlays, for any texts, stores, commands and bounds:     *)
(* text, cursor and list of a bar fit, and no other bar disturbs a search.  *)
EXTENDS MCInput, FiniteSetTheorems, SequenceTheorems, WellFoundedInduction, TLAPS

Sessions == [live : BOOLEAN, of : Tabs \cup {NoTab}, typed : Nat]

\* A state with all its fields, whose sessions are their tabs' own.
Fields == {"mode", "returnMode", "pending", "late", "counting", "overlay", "fresh", "editing",
           "active", "session", "lines"}
Shaped(s) == DOMAIN s = Fields

Loose(s) ==
  /\ Shaped(s) /\ s.active \in Tabs /\ s.session \in [Slots -> Sessions]
  /\ \A t \in Tabs : SlotOf[t] = t => s.session[t].of \in {t, NoTab}

\* And what is pending in it can be finished in the mode it is in.
Pends(keys, m, pending) ==
  pending # <<>> => \E b \in keys : b.mode = m /\ IsStrictPrefix(pending, b.keys)

Fine(s) == Loose(s) /\ Pends(keymap, s.mode, s.pending)

\* Two states that differ in other fields only.
Like(s, x) ==
  Shaped(x) /\ x.session = s.session /\ x.active = s.active /\ x.mode = s.mode /\ x.pending = s.pending

\* Nothing is pending in a state that was reset.
LEMMA ResetFine ==
  ASSUME NEW s, Loose(s)
  PROVE  /\ Fine(Reset(s)) /\ Reset(s).session = s.session /\ Reset(s).active = s.active
         /\ Reset(s).mode = s.mode
<1>1. /\ Shaped(Reset(s)) /\ Reset(s).session = s.session /\ Reset(s).active = s.active
      /\ Reset(s).mode = s.mode /\ Reset(s).pending = <<>>
  BY DEF Loose, Shaped, Fields, Reset
<1>2. QED
  BY <1>1 DEF Fine, Loose, Pends

\* A mode is entered with nothing pending.
LEMMA SetModeFine ==
  ASSUME NEW s, NEW m, Loose(s)
  PROVE  /\ Fine(SetMode(s, m)) /\ SetMode(s, m).session = s.session
         /\ SetMode(s, m).active = s.active
<1> DEFINE x == [s EXCEPT !.mode = m]
<1>1. Shaped(x) /\ x.session = s.session /\ x.active = s.active
  BY DEF Loose, Shaped, Fields
<1> HIDE DEF x
<1>2. Loose(x)
  BY <1>1 DEF Loose
<1>3. SetMode(s, m) = Reset(x)
  BY DEF SetMode, x
<1>4. QED
  BY <1>1, <1>2, <1>3, ResetFine

\* An action leaves nothing pending.
LEMMA FinalisedFine ==
  ASSUME NEW s, NEW action, Loose(s)
  PROVE  Fine(Finalised(s, action))
<1> DEFINE x == Implicit(s, action)
<1>1. Shaped(x) /\ x.session = s.session /\ x.active = s.active
  BY DEF Loose, Shaped, Fields, Implicit
<1> HIDE DEF x
<1>2. Loose(x)
  BY <1>1 DEF Loose
<1>3. Finalised(s, action) = Reset(x)
  BY DEF Finalised, x
<1>4. QED
  BY <1>2, <1>3, ResetFine

\* Fields that nothing here speaks of.
LEMMA LikeFine ==
  ASSUME NEW s, NEW x, Like(s, x)
  PROVE  (Loose(s) => Loose(x)) /\ (Fine(s) => Fine(x))
  BY DEF Like, Loose, Fine

\* What is fed stays pending only on the way to a binding of the mode.
LEMMA FedFine ==
  ASSUME NEW s, NEW chord, Fine(s), NEW f \in Fed(s, chord)
  PROVE  Fine(f.state)
<1> DEFINE keys == Append(s.pending, chord)
           counted == [s EXCEPT !.counting = TRUE]
           longer == [s EXCEPT !.pending = keys]
<1>1. \/ f = [state |-> s, action |-> "none"]
      \/ f = [state |-> counted, action |-> "none"]
      \/ \E b : f = [state |-> Finalised(s, b.action), action |-> b.action]
      \/ Lookup(s.mode, keys) = "pending" /\ f = [state |-> longer, action |-> "none"]
      \/ f = [state |-> Reset(s), action |-> "none"]
  BY Zenon DEF Fed
<1> HIDE DEF keys, counted, longer
<1>2. \/ f.state = s
      \/ f.state = counted
      \/ \E b : f.state = Finalised(s, b.action)
      \/ Lookup(s.mode, keys) = "pending" /\ f.state = longer
      \/ f.state = Reset(s)
  <2>1. ASSUME NEW b, f = [state |-> Finalised(s, b.action), action |-> b.action]
        PROVE  f.state = Finalised(s, b.action)
    BY <2>1
  <2>2. QED
    BY <1>1, <2>1
<1>3. Loose(s)
  BY DEF Fine
<1>4. CASE f.state = counted
  <2>1. Like(s, counted)
    BY <1>3 DEF Like, Loose, Shaped, Fields, counted
  <2>2. QED
    BY <1>4, <2>1, LikeFine
<1>5. CASE Lookup(s.mode, keys) = "pending" /\ f.state = longer
  <2> DEFINE x == longer
  <2>1. Longer(s.mode, keys) # {}
    BY <1>5 DEF Lookup
  <2>2. \E b \in keymap : b.mode = s.mode /\ IsStrictPrefix(keys, b.keys)
    BY <2>1, Zenon DEF Longer, Bound
  <2>3. Shaped(x) /\ x.session = s.session /\ x.active = s.active /\ x.mode = s.mode /\ x.pending = keys
    BY <1>3 DEF Loose, Shaped, Fields, longer
  <2> HIDE DEF x
  <2>4. Fine(x)
    BY <1>3, <2>2, <2>3 DEF Fine, Loose, Pends
  <2>5. QED
    BY <1>5, <2>4 DEF x
<1>6. QED
  BY <1>2, <1>3, <1>4, <1>5, ResetFine, FinalisedFine

\* The timeout leaves nothing pending, or what was.
LEMMA TickedFine ==
  ASSUME NEW s, Fine(s), NEW k \in Ticked(s)
  PROVE  Fine(k.state)
<1>1. \/ k = [state |-> s, action |-> "none"]
      \/ \E b : k = [state |-> Finalised(s, b.action), action |-> b.action]
      \/ k = [state |-> Reset(s), action |-> "none"]
  BY Zenon DEF Ticked
<1>2. k.state = s \/ (\E b : k.state = Finalised(s, b.action)) \/ k.state = Reset(s)
  BY <1>1
<1>3. Loose(s)
  BY DEF Fine
<1>4. QED
  BY <1>2, <1>3, ResetFine, FinalisedFine

-----------------------------------------------------------------------------
(* Overlays, tabs and sessions.                                             *)

\* Another tab in front.
LEMMA FrontFine ==
  ASSUME NEW s, NEW t \in Tabs
  PROVE  /\ Loose(s) => Loose([s EXCEPT !.active = t])
         /\ Fine(s) => Fine([s EXCEPT !.active = t])
<1> DEFINE x == [s EXCEPT !.active = t]
<1>1. Loose(s) => /\ Shaped(x) /\ x.session = s.session /\ x.active = t /\ x.mode = s.mode
                  /\ x.pending = s.pending
  BY DEF Loose, Shaped, Fields
<1> HIDE DEF x
<1>2. (Loose(s) => Loose(x)) /\ (Fine(s) => Fine(x))
  BY <1>1 DEF Fine, Loose
<1>3. QED
  BY <1>2 DEF x

\* A session of the tab in front that is empty, its own, or that of before.
LEMMA SessionFine ==
  ASSUME NEW s, NEW x \in Sessions, x.of \in {s.active, NoTab, Session(s).of}
  PROVE  /\ Loose(s) => Loose(WithSession(s, x))
         /\ Fine(s) => Fine(WithSession(s, x))
<1> DEFINE w == WithSession(s, x)
           slot == SlotOf[s.active]
<1>1. SUFFICES ASSUME Loose(s) PROVE Loose(w) /\ (Fine(s) => Fine(w))
  BY DEF Fine
<1>2. /\ Shaped(w) /\ w.session = [s.session EXCEPT ![slot] = x] /\ w.active = s.active
      /\ w.mode = s.mode /\ w.pending = s.pending
  BY <1>1 DEF Loose, Shaped, Fields, WithSession
<1> HIDE DEF w
<1>3. slot \in Slots /\ \A t \in Tabs : SlotOf[t] \in Slots
  BY <1>1 DEF Slots, Loose
<1>4. w.session \in [Slots -> Sessions] /\ w.session[slot] = x
      /\ \A t \in Slots \ {slot} : w.session[t] = s.session[t]
  BY <1>1, <1>2, <1>3 DEF Loose
<1>5. ASSUME NEW t \in Tabs, SlotOf[t] = t PROVE w.session[t].of \in {t, NoTab}
  <2>1. t \in Slots
    BY <1>3, <1>5
  <2>2. CASE t = slot
    <3>1. s.active = t
      BY <1>1, <2>2, SlotAssumption DEF Loose
    <3>2. Session(s).of \in {t, NoTab}
      BY <1>1, <1>5, <3>1 DEF Loose, Session
    <3>3. QED
      BY <1>4, <2>2, <3>1, <3>2
  <2>3. CASE t # slot
    BY <1>1, <1>4, <1>5, <2>1, <2>3 DEF Loose
  <2>4. QED
    BY <2>2, <2>3
<1>6. Loose(w)
  BY <1>1, <1>2, <1>4, <1>5 DEF Loose
<1>7. QED
  BY <1>2, <1>6 DEF Fine

\* No session, and one that has just begun.
LEMMA SessionsAre == NoSession \in Sessions /\ [live |-> TRUE, of |-> NoTab, typed |-> 0] \in Sessions
  BY DEF NoSession, Sessions

\* The overlay is closed, and another tab comes to the front with it.
LEMMA ClosedFine ==
  ASSUME NEW s, Fine(s), NEW x \in Closed(s)
  PROVE  Fine(x)
<1> DEFINE o == [s EXCEPT !.overlay = "none", !.fresh = FALSE]
           c == SetMode(o, "normal")
<1>1. x = s \/ x = c \/ \E t \in Tabs : x = [c EXCEPT !.active = t]
  BY Zenon DEF Closed
<1>2. Like(s, o) /\ Loose(s)
  BY DEF Like, Fine, Loose, Shaped, Fields
<1> HIDE DEF o
<1>3. Fine(c)
  BY <1>2, LikeFine, SetModeFine
<1> HIDE DEF c
<1>4. QED
  BY <1>1, <1>3, FrontFine

\* The session of a new tab is empty, if it has one of its own.
LEMMA NewTabFine ==
  ASSUME NEW s, Fine(s), NEW x \in NewTab(s)
  PROVE  Fine(x)
<1> DEFINE y(t) == [s EXCEPT !.active = t, !.session[SlotOf[t]] = IF SlotOf[t] = t THEN NoSession ELSE @,
                             !.lines[t] = {}, !.overlay = "omnibar", !.fresh = TRUE]
<1>1. x = s \/ \E t \in Tabs : x = y(t)
  BY Zenon DEF NewTab
<1>2. Loose(s)
  BY DEF Fine
<1>3. ASSUME NEW t \in Tabs PROVE Fine(y(t))
  <2> DEFINE slot == SlotOf[t]
             was == s.session[slot]
             now == IF slot = t THEN NoSession ELSE was
             z == y(t)
  <2>1. /\ Shaped(z) /\ z.session = [s.session EXCEPT ![slot] = now] /\ z.active = t
        /\ z.mode = s.mode /\ z.pending = s.pending
    BY <1>2 DEF Loose, Shaped, Fields
  <2> HIDE DEF z
  <2>2. slot \in Slots /\ \A u \in Tabs : SlotOf[u] \in Slots
    BY DEF Slots
  <2>3. now \in Sessions
    BY <1>2, <2>2, SessionsAre DEF Loose
  <2>4. /\ z.session \in [Slots -> Sessions] /\ z.session[slot] = now
        /\ \A u \in Slots \ {slot} : z.session[u] = s.session[u]
    BY <1>2, <2>1, <2>2, <2>3 DEF Loose
  <2>5. ASSUME NEW u \in Tabs, SlotOf[u] = u PROVE z.session[u].of \in {u, NoTab}
    <3>1. CASE u = slot
      <4>1. t = u
        BY <3>1, SlotAssumption
      <4>2. z.session[u] = NoSession
        BY <2>4, <3>1, <4>1
      <4>3. QED
        BY <4>2 DEF NoSession
    <3>2. CASE u # slot
      <4>1. u \in Slots \ {slot}
        BY <2>2, <2>5, <3>2
      <4>2. z.session[u] = s.session[u]
        BY <2>4, <4>1
      <4>3. QED
        BY <1>2, <2>5, <4>2 DEF Loose
    <3>3. QED
      BY <3>1, <3>2
  <2>6. Fine(z)
    BY <2>1, <2>4, <2>5 DEF Fine, Loose
  <2>7. QED
    BY <2>6 DEF z
<1> HIDE DEF y
<1>4. QED
  BY <1>1, <1>3

\* Hint mode starts without hints.
LEMMA HintsEnteredFine ==
  ASSUME NEW s, Fine(s), NEW x \in HintsEntered(s)
  PROVE  Fine(x)
<1> DEFINE begun == [live |-> TRUE, of |-> NoTab, typed |-> 0]
           w == WithSession(s, begun)
           lines == {"ready", "error"} \cup {"stale" : l \in s.lines[s.active]}
           y == [w EXCEPT !.lines[s.active] = lines]
<1>1. x = WithSession(s, NoSession) \/ x = y
  BY Zenon DEF HintsEntered
<1>2. Fine(WithSession(s, NoSession)) /\ Fine(w)
  <2>1. NoSession.of = NoTab /\ begun.of = NoTab
    BY DEF NoSession
  <2>2. QED
    BY <2>1, SessionsAre, SessionFine
<1> HIDE DEF w, lines
<1>3. Like(w, y)
  BY <1>2 DEF Like, Fine, Loose, Shaped, Fields
<1> HIDE DEF y
<1>4. QED
  BY <1>1, <1>2, <1>3, LikeFine

\* What an action does.
LEMMA DispatchedFine ==
  ASSUME NEW s, Fine(s), NEW action, NEW x \in Dispatched(s, action)
  PROVE  Fine(x)
<1> DEFINE away == [s EXCEPT !.editing = FALSE]
<1>1. \/ x \in NewTab(s)
      \/ \E t \in Tabs : x \in Closed([s EXCEPT !.active = t])
      \/ x \in HintsEntered(s)
      \/ x = SetMode(away, "normal") \/ x = SetMode(s, "normal") \/ x = s
  BY Zenon DEF Dispatched
<1>2. Loose(s) /\ Like(s, away)
  BY DEF Like, Fine, Loose, Shaped, Fields
<1> HIDE DEF away
<1>3. Loose(away)
  BY <1>2, LikeFine
<1>4. ASSUME NEW t \in Tabs, x \in Closed([s EXCEPT !.active = t]) PROVE Fine(x)
  BY <1>4, FrontFine, ClosedFine
<1>5. QED
  BY <1>1, <1>2, <1>3, <1>4, NewTabFine, HintsEnteredFine, SetModeFine

LEMMA PerformedFine ==
  ASSUME NEW s, Fine(s), NEW action, NEW x \in Performed(s, action)
  PROVE  Fine(x)
<1> DEFINE o == [s EXCEPT !.overlay = action]
           f == [s EXCEPT !.overlay = "find"]
<1>1. x = o \/ x = SetMode(f, "command") \/ x \in Dispatched(s, action)
  BY Zenon DEF Performed
<1>2. Loose(s) /\ Like(s, o) /\ Like(s, f)
  BY DEF Like, Fine, Loose, Shaped, Fields
<1> HIDE DEF o, f
<1>3. Loose(f) /\ Fine(o)
  BY <1>2, LikeFine
<1>4. QED
  BY <1>1, <1>3, SetModeFine, DispatchedFine

-----------------------------------------------------------------------------
(* The handlers of a key.                                                   *)

LEMMA OverlayKeyFine ==
  ASSUME NEW s, Fine(s), NEW chord, NEW x \in OverlayKey(s, chord)
  PROVE  Fine(x)
<1> DEFINE o == [s EXCEPT !.overlay = "none", !.fresh = FALSE]
           c == SetMode(o, "normal")
<1>1. Loose(s) /\ Like(s, o) /\ s.active \in Tabs
  BY DEF Like, Fine, Loose, Shaped, Fields
<1>2. x \in Closed(s) \/ (\E t \in Tabs \cup {s.active} : x = [c EXCEPT !.active = t]) \/ x = s
  BY Zenon DEF OverlayKey
<1> HIDE DEF o
<1>3. Fine(c)
  BY <1>1, LikeFine, SetModeFine
<1> HIDE DEF c
<1>4. QED
  BY <1>1, <1>2, <1>3, ClosedFine, FrontFine

LEMMA HintKeyFine ==
  ASSUME NEW s, Fine(s), NEW chord, NEW repeat, NEW x \in HintKey(s, chord, repeat)
  PROVE  Fine(x)
<1> DEFINE se == Session(s)
           less == [se EXCEPT !.typed = @ - 1]
           more == [se EXCEPT !.typed = @ + 1]
<1>1. \/ x = s \/ x = HintsLeft(s)
      \/ se.typed # 0 /\ x = WithSession(s, less)
      \/ x = WithSession(s, more)
  BY Zenon DEF HintKey
<1>2. se \in Sessions /\ Loose(s)
  <2>1. s.session \in [Slots -> Sessions] /\ SlotOf[s.active] \in Slots
    BY DEF Fine, Loose, Slots
  <2>2. QED
    BY <2>1 DEF Session, Fine
<1> HIDE DEF se
<1>3. (se.typed # 0 => less \in Sessions) /\ more \in Sessions /\ less.of = se.of /\ more.of = se.of
  BY <1>2 DEF Sessions
<1> HIDE DEF less, more
<1>4. Fine(HintsLeft(s))
  <2>1. NoSession.of = NoTab
    BY DEF NoSession
  <2>2. Loose(WithSession(s, NoSession))
    BY <1>2, <2>1, SessionsAre, SessionFine
  <2>3. QED
    BY <2>2, SetModeFine DEF HintsLeft
<1>5. (se.typed # 0 => Fine(WithSession(s, less))) /\ Fine(WithSession(s, more))
  BY <1>3, SessionFine DEF se
<1>6. QED
  BY <1>1, <1>4, <1>5

LEMMA FieldKeyFine ==
  ASSUME NEW s, Fine(s), NEW chord, NEW x \in FieldKey(s, chord)
  PROVE  Fine(x)
<1> DEFINE away == [s EXCEPT !.editing = FALSE]
<1>1. x = SetMode(away, "normal") \/ x \in NewTab(s) \/ x = s
  BY Zenon DEF FieldKey
<1>2. Loose(s) /\ Like(s, away)
  BY DEF Like, Fine, Loose, Shaped, Fields
<1> HIDE DEF away
<1>3. QED
  BY <1>1, <1>2, LikeFine, SetModeFine, NewTabFine

\* Nothing can be pending in Insert, which has no bindings.
LEMMA UnfocusedFine ==
  ASSUME NEW s, Fine(s), keymap \in Keymaps, s.mode = "insert"
  PROVE  Fine(Unfocused(s))
<1>1. s.pending = <<>>
  BY KeymapsAssumption DEF Fine, Pends
<1> DEFINE x == Unfocused(s)
<1>2. Shaped(x) /\ x.session = s.session /\ x.active = s.active /\ x.pending = s.pending
  BY DEF Unfocused, Fine, Loose, Shaped, Fields
<1> HIDE DEF x
<1>3. Fine(x)
  BY <1>1, <1>2 DEF Fine, Loose, Pends
<1>4. QED
  BY <1>3 DEF x

LEMMA EngineKeyFine ==
  ASSUME NEW s, Fine(s), NEW chord, NEW repeat, NEW x \in EngineKey(s, chord, repeat)
  PROVE  Fine(x)
<1>1. PICK f \in Fed(s, chord) : x = f.state \/ x \in Performed(f.state, f.action)
  BY Zenon DEF EngineKey
<1>2. Fine(f.state)
  BY FedFine
<1>3. QED
  BY <1>1, <1>2, PerformedFine

LEMMA HandledFine ==
  ASSUME NEW s, Fine(s), keymap \in Keymaps, NEW chord, NEW repeat, NEW x \in Handled(s, chord, repeat)
  PROVE  Fine(x)
<1>1. \/ x \in OverlayKey(s, chord) \/ x \in HintKey(s, chord, repeat) \/ x \in FieldKey(s, chord)
      \/ s.mode = "insert" /\ x = Unfocused(s)
      \/ x \in EngineKey(s, chord, repeat)
  BY Zenon DEF Handled
<1>2. QED
  BY <1>1, OverlayKeyFine, HintKeyFine, FieldKeyFine, UnfocusedFine, EngineKeyFine

\* The hints go to the session of the tab that announced them.
LEMMA PumpedFine ==
  ASSUME NEW s, Fine(s), mailbox.kind = "ready" => mailbox.tab \in Tabs
  PROVE  Fine(Pumped(s))
<1> DEFINE from == mailbox.tab
           slot == SlotOf[from]
           hints == [live |-> TRUE, of |-> from, typed |-> 0]
           y == [s EXCEPT !.session[slot] = hints]
<1>1. \/ mailbox.kind = "ready" /\ Pumped(s) = y
      \/ Pumped(s) = WithSession(s, NoSession) \/ Pumped(s) = s
  BY Zenon DEF Pumped
<1>2. Fine(WithSession(s, NoSession))
  <2>1. NoSession.of = NoTab
    BY DEF NoSession
  <2>2. QED
    BY <2>1, SessionsAre, SessionFine
<1>3. ASSUME from \in Tabs PROVE Fine(y)
  <2>1. Loose(s)
    BY DEF Fine
  <2>2. /\ Shaped(y) /\ y.session = [s.session EXCEPT ![slot] = hints] /\ y.active = s.active
        /\ y.mode = s.mode /\ y.pending = s.pending
    BY <2>1 DEF Loose, Shaped, Fields
  <2> HIDE DEF y
  <2>3. slot \in Slots /\ \A u \in Tabs : SlotOf[u] \in Slots
    BY <1>3 DEF Slots
  <2>4. hints \in Sessions
    BY <1>3 DEF Sessions
  <2>5. /\ y.session \in [Slots -> Sessions] /\ y.session[slot] = hints
        /\ \A u \in Slots \ {slot} : y.session[u] = s.session[u]
    BY <2>1, <2>2, <2>3, <2>4 DEF Loose
  <2>6. ASSUME NEW u \in Tabs, SlotOf[u] = u PROVE y.session[u].of \in {u, NoTab}
    <3>1. CASE u = slot
      <4>1. from = u
        BY <1>3, <3>1, SlotAssumption
      <4>2. QED
        BY <2>5, <3>1, <4>1
    <3>2. CASE u # slot
      <4>1. u \in Slots \ {slot}
        BY <2>3, <2>6, <3>2
      <4>2. y.session[u] = s.session[u]
        BY <2>5, <4>1
      <4>3. QED
        BY <2>1, <2>6, <4>2 DEF Loose
    <3>3. QED
      BY <3>1, <3>2
  <2>7. QED
    BY <2>2, <2>5, <2>6 DEF Fine, Loose
<1> HIDE DEF y
<1>4. QED
  BY <1>1, <1>2, <1>3

-----------------------------------------------------------------------------
(* The steps.                                                               *)

IInv ==
  /\ keymap \in Keymaps /\ Fine(ui)
  /\ mailbox.kind = "ready" => mailbox.tab \in Tabs

LEMMA InitFine == Init => IInv
<1> SUFFICES ASSUME Init PROVE IInv
  OBVIOUS
<1>1. Shaped(ui) /\ ui.pending = <<>> /\ ui.session = [t \in Slots |-> NoSession]
  BY DEF Init, Shaped, Fields
<1>2. ui.active \in Tabs
  <2>1. ui.active = CHOOSE t \in Tabs : TRUE
    BY DEF Init
  <2>2. QED
    BY <2>1, SlotAssumption
<1>3. \A t \in Tabs : SlotOf[t] \in Slots
  BY DEF Slots
<1>4. NoSession.of = NoTab
  BY DEF NoSession
<1>5. Fine(ui)
  BY <1>1, <1>2, <1>3, <1>4, SessionsAre DEF Fine, Loose, Pends
<1>6. QED
  BY <1>5 DEF Init, IInv, NoMail

\* A step that keeps the keymap and leaves a state that is fine.
LEMMA KeepsFine ==
  ASSUME IInv, keymap' = keymap, Fine(ui'), mailbox' = mailbox \/ mailbox'.kind # "ready" \/ mailbox'.tab \in Tabs
  PROVE  IInv'
<1>1. Fine(ui)'
  BY DEF Fine
<1>2. QED
  BY <1>1 DEF IInv

LEMMA StepFine == IInv /\ [Next]_vars => IInv'
<1> SUFFICES ASSUME IInv, [Next]_vars PROVE IInv'
  OBVIOUS
<1>1. Fine(ui) /\ Loose(ui) /\ keymap \in Keymaps
  BY DEF IInv, Fine
<1>2. ASSUME NEW chord \in Chords, NEW repeat \in BOOLEAN, Key(chord, repeat) PROVE IInv'
  <2>1. Fine(ui')
    BY <1>1, <1>2, HandledFine DEF Key
  <2>2. QED
    BY <1>2, <2>1, KeepsFine DEF Key
<1>3. ASSUME NEW t \in Tabs, ClickTab(t) PROVE IInv'
  <2>1. Fine(ui')
    BY <1>1, <1>3, FrontFine, ClosedFine DEF ClickTab
  <2>2. QED
    BY <1>3, <2>1, KeepsFine DEF ClickTab
<1>4. ASSUME NEW t \in Tabs, Navigated(t) PROVE IInv'
  <2>1. Like(ui, ui')
    BY <1>1, <1>4 DEF Navigated, Like, Loose, Shaped, Fields
  <2>2. Fine(ui')
    BY <1>1, <2>1, LikeFine
  <2>3. QED
    BY <1>4, <2>2, KeepsFine DEF Navigated
<1>5. ASSUME NEW t \in Tabs, LineArrives(t) PROVE IInv'
  <2>1. PICK line \in ui.lines[t] :
          /\ ui' = [ui EXCEPT !.lines[t] = IF line = "stale" THEN @ \ {"stale"} ELSE @ \cap {"stale"}]
          /\ mailbox' = IF line = "stale" THEN mailbox ELSE [tab |-> t, kind |-> line]
          /\ UNCHANGED <<keymap, weary>>
    BY <1>5, Zenon DEF LineArrives
  <2>2. Like(ui, ui')
    BY <1>1, <2>1 DEF Like, Loose, Shaped, Fields
  <2>3. Fine(ui')
    BY <1>1, <2>2, LikeFine
  <2>4. mailbox' = mailbox \/ mailbox'.tab = t
    BY <2>1
  <2>5. QED
    BY <2>1, <2>3, <2>4, KeepsFine
<1>6. CASE Drag
  <2>1. Fine(ui')
    BY <1>1, <1>6, SetModeFine DEF Drag
  <2>2. QED
    BY <1>6, <2>1, KeepsFine DEF Drag
<1>7. CASE FieldFocused
  <2> DEFINE f == [ui EXCEPT !.editing = TRUE]
  <2>1. Like(ui, f) /\ ui' = SetMode(f, "insert")
    BY <1>1, <1>7 DEF FieldFocused, Like, Loose, Shaped, Fields
  <2> HIDE DEF f
  <2>2. Fine(ui')
    BY <1>1, <2>1, LikeFine, SetModeFine
  <2>3. QED
    BY <1>7, <2>2, KeepsFine DEF FieldFocused
<1>8. CASE FieldBlurred
  <2> DEFINE f == [ui EXCEPT !.editing = FALSE]
  <2>1. Like(ui, f)
    BY <1>1 DEF Like, Loose, Shaped, Fields
  <2>2. ui' = SetMode(f, "normal") \/ ui' = f
    BY <1>8, Zenon DEF FieldBlurred
  <2> HIDE DEF f
  <2>3. Fine(ui')
    BY <1>1, <2>1, <2>2, LikeFine, SetModeFine
  <2>4. QED
    BY <1>8, <2>3, KeepsFine DEF FieldBlurred
<1>9. ASSUME NEW km \in Keymaps, Reload(km) PROVE IInv'
  <2>1. Loose(ui') /\ ui'.pending = <<>>
    <3>1. Fine(Reset(ui)) /\ ui' = Reset(ui)
      BY <1>1, <1>9, ResetFine DEF Reload, Rebound
    <3>2. ui'.pending = <<>>
      BY <1>1, <3>1 DEF Reset, Loose, Shaped, Fields
    <3>3. QED
      BY <3>1, <3>2 DEF Fine
  <2>2. Fine(ui)'
    BY <2>1 DEF Fine, Loose, Shaped, Pends
  <2>3. QED
    BY <1>9, <2>2 DEF IInv, Reload
<1>10. CASE TimePasses
  <2>1. Like(ui, ui')
    BY <1>1, <1>10 DEF TimePasses, Like, Loose, Shaped, Fields
  <2>2. Fine(ui')
    BY <1>1, <2>1, LikeFine
  <2>3. QED
    BY <1>10, <2>2, KeepsFine DEF TimePasses
<1>11. CASE AboutToWait
  <2>1. PICK k \in Ticked(ui) : \E d \in Dispatched(k.state, k.action) : ui' = Pumped(d)
    BY <1>11, Zenon DEF AboutToWait
  <2>6. PICK d \in Dispatched(k.state, k.action) : ui' = Pumped(d)
    BY <2>1
  <2>2. Fine(d)
    BY <1>1, TickedFine, DispatchedFine
  <2>3. Fine(ui')
    BY <2>2, <2>6, PumpedFine DEF IInv
  <2>4. mailbox'.kind # "ready" /\ keymap' = keymap
    BY <1>11 DEF AboutToWait, NoMail
  <2>5. QED
    BY <2>3, <2>4, KeepsFine
<1>12. CASE GiveUp \/ UNCHANGED vars
  BY <1>1, <1>12, KeepsFine DEF GiveUp, vars
<1>13. QED
  BY <1>2, <1>3, <1>4, <1>5, <1>6, <1>7, <1>8, <1>9, <1>10, <1>11, <1>12 DEF Next

-----------------------------------------------------------------------------

LEMMA InvHolds == Spec => []IInv
<1>1. Spec => Init /\ [][Next]_vars
  BY PTL DEF Spec
<1>2. QED
  BY <1>1, InitFine, StepFine, PTL

\* In every state the hints a tab with a session of its own chooses from are
\* those that its own page announced (pump_hint_events, apps/buffr-app/src/main.rs),
\* for any number of tabs and any order of keys, lines and clicks.
THEOREM HintsAreOwn == Spec => []OwnHints
<1>1. IInv => OwnHints
  BY DEF IInv, Fine, Loose, OwnHints
<1>2. QED
  BY <1>1, InvHolds, PTL

\* In every state what is pending is the beginning of a binding of the mode
\* that the next chord is looked up in (Engine::feed, buffr-modal), whatever
\* changed the mode or the keymap meanwhile.
THEOREM PendingCanBeFinished == Spec => []PendingIsPrefix
<1>1. IInv => PendingIsPrefix
  BY DEF IInv, Fine, Pends, PendingIsPrefix, Longer, Bound
<1>2. QED
  BY <1>1, InvHolds, PTL

-----------------------------------------------------------------------------
(* Texts as sequences of bytes.                                            *)

\* A set of numbers has a least one.
LEMMA LeastNat == ASSUME NEW T, T \subseteq Nat, T # {} PROVE \E m \in T : \A k \in T : m <= k
<1> DEFINE R == OpToRel(<, Nat)
<1>1. IsWellFoundedOn(R, Nat)
  BY NatLessThanWellFounded, Zenon
<1>2. \A x, y \in Nat : y < x => <<y, x>> \in R
  BY DEF OpToRel
<1> HIDE DEF R
<1>3. PICK x \in T : \A y \in T : ~(<<y, x>> \in R)
  BY <1>1, WFMin
<1>4. ASSUME NEW k \in T PROVE x <= k
  <2>1. x \in Nat /\ k \in Nat /\ ~(<<k, x>> \in R)
    BY <1>3
  <2>2. ~(k < x)
    BY <2>1, <1>2
  <2>3. QED
    BY <2>1, <2>2
<1>5. QED
  BY <1>4

\* And one with a bound has a greatest one.
LEMMA GreatestNat ==
  ASSUME NEW n \in Nat, NEW T, T \subseteq 0 .. n, T # {}
  PROVE  \E m \in T : \A k \in T : k <= m
<1> DEFINE Down == {n - k : k \in T}
<1>1. \A k \in T : k \in 0 .. n /\ n - k \in Nat
  OBVIOUS
<1>2. Down \subseteq Nat /\ Down # {}
  BY <1>1
<1>3. PICK d \in Down : \A e \in Down : d <= e
  BY <1>2, LeastNat
<1>4. PICK m \in T : d = n - m
  BY <1>3
<1>5. ASSUME NEW k \in T PROVE k <= m
  <2>1. n - m <= n - k
    BY <1>3, <1>4
  <2>2. QED
    BY <1>1, <2>1
<1>6. QED
  BY <1>5

\* A sequence is one of its own entries.
LEMMA OfItsOwn ==
  ASSUME NEW S, NEW s \in Seq(S)
  PROVE  s \in Seq(Bars!ToSet(s))
<1>1. Len(s) \in Nat /\ s = [i \in 1 .. Len(s) |-> s[i]] /\ DOMAIN s = 1 .. Len(s)
  OBVIOUS
<1>2. \A i \in 1 .. Len(s) : s[i] \in Bars!ToSet(s)
  BY <1>1 DEF Bars!ToSet
<1>3. s \in [1 .. Len(s) -> Bars!ToSet(s)]
  BY <1>1, <1>2
<1>4. QED
  BY <1>1, <1>3

\* The byte may be followed by the rest of a character.
Leads(b) == b \notin Bars!Control \cup {Bars!Blank}

\* What Whole says.
LEMMA WholeIs ==
  ASSUME NEW text
  PROVE  Bars!Whole(text) <=>
           /\ text \in Seq(Bars!ToSet(text))
           /\ \A i \in 1 .. Len(text) : text[i] = "C" => i > 1 /\ Leads(text[i - 1])
<1>1. text \in Seq(Bars!ToSet(text)) => DOMAIN text = 1 .. Len(text)
  OBVIOUS
<1>2. Bars!Whole(text) <=>
        /\ text \in Seq(Bars!ToSet(text))
        /\ \A i \in DOMAIN text : text[i] = "C" => i > 1 /\ Leads(text[i - 1])
  BY Zenon DEF Bars!Whole, Leads
<1>3. QED
  BY <1>1, <1>2, Zenon

\* The beginning of a text is a text.
LEMMA BeginningWhole ==
  ASSUME NEW text, Bars!Whole(text), NEW n \in 0 .. Len(text)
  PROVE  /\ Bars!Whole(SubSeq(text, 1, n)) /\ Len(SubSeq(text, 1, n)) = n
         /\ \A i \in 1 .. n : SubSeq(text, 1, n)[i] = text[i]
<1> DEFINE S == Bars!ToSet(text)
           x == SubSeq(text, 1, n)
<1>1. text \in Seq(S)
  BY WholeIs
<1> HIDE DEF S
<1>2. x \in Seq(S) /\ Len(x) = n /\ \A i \in 1 .. n : x[i] = text[i]
  BY <1>1
<1> HIDE DEF x
<1>3. x \in Seq(Bars!ToSet(x))
  BY <1>2, OfItsOwn
<1>4. ASSUME NEW i \in 1 .. n, x[i] = "C" PROVE i > 1 /\ Leads(x[i - 1])
  <2>1. i \in 1 .. Len(text) /\ text[i] = "C"
    BY <1>1, <1>2, <1>4
  <2>2. i > 1 /\ Leads(text[i - 1])
    BY <2>1, WholeIs
  <2>3. i - 1 \in 1 .. n
    BY <2>2
  <2>4. QED
    BY <1>2, <2>2, <2>3
<1>5. Bars!Whole(x)
  BY <1>2, <1>3, <1>4, WholeIs
<1>6. QED
  BY <1>2, <1>5 DEF x

\* So is what follows the end of a character.
LEMMA EndWhole ==
  ASSUME NEW text, Bars!Whole(text), NEW n \in 0 .. Len(text), Bars!Boundary(text, n)
  PROVE  /\ Bars!Whole(SubSeq(text, n + 1, Len(text)))
         /\ Len(SubSeq(text, n + 1, Len(text))) = Len(text) - n
         /\ \A i \in 1 .. Len(text) - n : SubSeq(text, n + 1, Len(text))[i] = text[n + i]
<1> DEFINE S == Bars!ToSet(text)
           m == Len(text)
           x == SubSeq(text, n + 1, m)
<1>1. text \in Seq(S) /\ m \in Nat /\ m = Len(text)
  BY WholeIs
<1>2. Bars!Boundary(text, n) /\ n \in 0 .. m
  OBVIOUS
<1> HIDE DEF S, m
<1>3. x \in Seq(S) /\ Len(x) = m - n /\ \A i \in 1 .. m - n : x[i] = text[n + i]
  BY <1>1, <1>2
<1> HIDE DEF x
<1>4. x \in Seq(Bars!ToSet(x))
  BY <1>3, OfItsOwn
<1>5. ASSUME NEW i \in 1 .. m - n, x[i] = "C" PROVE i > 1 /\ Leads(x[i - 1])
  <2>1. n + i \in 1 .. m /\ text[n + i] = "C"
    BY <1>1, <1>2, <1>3, <1>5
  <2>2. n + i > 1 /\ Leads(text[(n + i) - 1])
    BY <1>1, <2>1, WholeIs
  <2>3. CASE i = 1
    <3>1. n # 0 /\ n < m /\ text[n + 1] = "C"
      BY <1>1, <1>2, <2>1, <2>2, <2>3
    <3>2. QED
      BY <1>1, <1>2, <3>1 DEF Bars!Boundary
  <2>4. CASE i # 1
    <3>1. i - 1 \in 1 .. m - n /\ n + (i - 1) = (n + i) - 1
      BY <1>1, <1>2, <2>4
    <3>2. x[i - 1] = text[(n + i) - 1]
      BY <1>3, <3>1
    <3>3. QED
      BY <2>2, <3>1, <3>2
  <2>5. QED
    BY <2>3, <2>4
<1>6. Bars!Whole(x)
  BY <1>3, <1>4, <1>5, WholeIs
<1>7. QED
  BY <1>1, <1>3, <1>6 DEF x

\* Texts put together are a text, and between them a character ends.
LEMMA TogetherWhole ==
  ASSUME NEW x, NEW y, Bars!Whole(x), Bars!Whole(y)
  PROVE  /\ Bars!Whole(x \o y) /\ Bars!Boundary(x \o y, Len(x)) /\ Len(x \o y) = Len(x) + Len(y)
         /\ Len(x) \in Nat /\ Len(y) \in Nat
<1> DEFINE S == Bars!ToSet(x) \cup Bars!ToSet(y)
           z == x \o y
           a == Len(x)
           b == Len(y)
<1>1. x \in Seq(S) /\ y \in Seq(S) /\ a \in Nat /\ b \in Nat
  <2>1. x \in Seq(Bars!ToSet(x)) /\ y \in Seq(Bars!ToSet(y))
    BY WholeIs
  <2>2. QED
    BY <2>1
<1> HIDE DEF S
<1>2. /\ z \in Seq(S) /\ Len(z) = a + b
      /\ \A i \in 1 .. a : z[i] = x[i]
      /\ \A i \in 1 .. b : z[a + i] = y[i]
  BY <1>1
<1> HIDE DEF z
<1>3. z \in Seq(Bars!ToSet(z))
  BY <1>2, OfItsOwn
<1>4. /\ \A i \in 1 .. a : x[i] = "C" => i > 1 /\ Leads(x[i - 1])
      /\ \A i \in 1 .. b : y[i] = "C" => i > 1 /\ Leads(y[i - 1])
  BY WholeIs
<1> HIDE DEF a, b
<1>5. ASSUME NEW i \in 1 .. a + b, z[i] = "C" PROVE i > 1 /\ Leads(z[i - 1])
  <2>1. CASE i <= a
    <3>1. i \in 1 .. a /\ x[i] = "C"
      BY <1>1, <1>2, <1>5, <2>1
    <3>2. i > 1 /\ Leads(x[i - 1]) /\ i - 1 \in 1 .. a
      BY <1>1, <1>4, <3>1
    <3>3. QED
      BY <1>2, <3>2
  <2>2. CASE i > a
    <3> DEFINE k == i - a
    <3>1. k \in 1 .. b /\ a + k = i
      BY <1>1, <2>2
    <3>2. y[k] = "C"
      BY <1>2, <1>5, <3>1
    <3>3. k > 1 /\ Leads(y[k - 1]) /\ k - 1 \in 1 .. b /\ a + (k - 1) = i - 1
      BY <1>1, <1>4, <3>1, <3>2
    <3> HIDE DEF k
    <3>4. z[i - 1] = y[k - 1]
      BY <1>2, <3>3
    <3>5. QED
      BY <1>1, <2>2, <3>3, <3>4
  <2>3. QED
    BY <1>1, <2>1, <2>2
<1>6. Bars!Whole(z)
  BY <1>2, <1>3, <1>5, WholeIs
<1>7. Bars!Boundary(z, a)
  <2>1. CASE b = 0
    BY <1>1, <1>2, <2>1 DEF Bars!Boundary
  <2>2. CASE b # 0
    <3>1. 1 \in 1 .. b /\ z[a + 1] = y[1]
      BY <1>1, <1>2, <2>2
    <3>2. y[1] # "C"
      BY <1>4, <3>1
    <3>3. QED
      BY <1>1, <1>2, <2>2, <3>1, <3>2 DEF Bars!Boundary
  <2>3. QED
    BY <2>1, <2>2
<1>8. QED
  BY <1>1, <1>2, <1>6, <1>7 DEF a, b, z

-----------------------------------------------------------------------------
(* The cursor of a text lies between two characters.                       *)

Sound(text, cursor) ==
  Bars!Whole(text) /\ cursor \in 0 .. Len(text) /\ Bars!Boundary(text, cursor)

LEMMA SoundIs ==
  ASSUME NEW text, NEW cursor, Sound(text, cursor)
  PROVE  Bars!Whole(text) /\ Len(text) \in Nat /\ cursor \in 0 .. Len(text) /\ Bars!Boundary(text, cursor)
<1>1. Bars!Whole(text) /\ cursor \in 0 .. Len(text) /\ Bars!Boundary(text, cursor)
  BY DEF Sound
<1>2. text \in Seq(Bars!ToSet(text))
  BY <1>1, WholeIs
<1>3. QED
  BY <1>1, <1>2

LEMMA AtTheEnds ==
  ASSUME NEW text, Bars!Whole(text)
  PROVE  Sound(text, 0) /\ Sound(text, Len(text))
<1>1. text \in Seq(Bars!ToSet(text))
  BY WholeIs
<1>2. Len(text) \in Nat
  BY <1>1
<1>3. QED
  BY <1>2 DEF Sound, Bars!Boundary

LEMMA NothingSound == Sound(<<>>, 0)
<1>1. <<>> \in Seq(Bars!ToSet(<<>>)) /\ Len(<<>>) = 0
  OBVIOUS
<1>2. ASSUME NEW i \in 1 .. Len(<<>>) PROVE FALSE
  BY <1>1
<1> DEFINE none == <<>>
<1> HIDE DEF none
<1>3. none \in Seq(Bars!ToSet(none)) /\ \A i \in 1 .. Len(none) : FALSE
  BY <1>1, <1>2 DEF none
<1>4. Bars!Whole(none)
  BY <1>3, WholeIs
<1>5. QED
  BY <1>1, <1>4, AtTheEnds DEF none

\* handle_text: between the halves of a text.
LEMMA InsertedSound ==
  ASSUME NEW text, NEW cursor, Sound(text, cursor), NEW c, Bars!Whole(c)
  PROVE  Sound(SubSeq(text, 1, cursor) \o c \o SubSeq(text, cursor + 1, Len(text)), cursor + Len(c))
<1> DEFINE A == SubSeq(text, 1, cursor)
           E == SubSeq(text, cursor + 1, Len(text))
           B == A \o c
<1>1. Bars!Whole(text) /\ cursor \in 0 .. Len(text) /\ Bars!Boundary(text, cursor) /\ Len(text) \in Nat
  BY SoundIs
<1>2. Bars!Whole(A) /\ Len(A) = cursor
  BY <1>1, BeginningWhole
<1>3. Bars!Whole(E)
  BY <1>1, EndWhole
<1> HIDE DEF A, E
<1>4. Bars!Whole(B) /\ Len(B) = cursor + Len(c) /\ Len(c) \in Nat
  BY <1>2, <1>3, TogetherWhole
<1> HIDE DEF B
<1>5. Bars!Whole(B \o E) /\ Bars!Boundary(B \o E, Len(B)) /\ Len(B \o E) = Len(B) + Len(E) /\ Len(E) \in Nat
  BY <1>3, <1>4, TogetherWhole
<1>6. cursor + Len(c) \in 0 .. Len(B \o E)
  BY <1>1, <1>4, <1>5
<1>7. Sound(B \o E, cursor + Len(c))
  BY <1>4, <1>5, <1>6 DEF Sound
<1>8. QED
  BY <1>7 DEF A, B, E

\* replace_range with nothing.
LEMMA CutSound ==
  ASSUME NEW text, NEW cursor, Sound(text, cursor), NEW from, Sound(text, from), from <= cursor
  PROVE  Sound(Bars!Cut(text, from, cursor), from)
<1> DEFINE A == SubSeq(text, 1, from)
           E == SubSeq(text, cursor + 1, Len(text))
<1>1. /\ Bars!Whole(text) /\ cursor \in 0 .. Len(text) /\ Bars!Boundary(text, cursor)
      /\ from \in 0 .. Len(text) /\ Len(text) \in Nat
  BY SoundIs
<1>2. Bars!Whole(A) /\ Len(A) = from
  BY <1>1, BeginningWhole
<1>3. Bars!Whole(E)
  BY <1>1, EndWhole
<1>4. Bars!Cut(text, from, cursor) = A \o E
  BY DEF Bars!Cut
<1> HIDE DEF A, E
<1>5. Bars!Whole(A \o E) /\ Bars!Boundary(A \o E, Len(A)) /\ Len(A \o E) = Len(A) + Len(E) /\ Len(E) \in Nat
  BY <1>2, <1>3, TogetherWhole
<1>6. from \in 0 .. Len(A \o E)
  BY <1>1, <1>2, <1>5
<1>7. QED
  BY <1>2, <1>4, <1>5, <1>6 DEF Sound

\* handle_left and handle_back stop between characters.
LEMMA BeforeSound ==
  ASSUME NEW text, NEW cursor, Sound(text, cursor), cursor > 0
  PROVE  Sound(text, Bars!Before(text, cursor)) /\ Bars!Before(text, cursor) < cursor
<1> DEFINE T == {j \in 0 .. cursor - 1 : Bars!Boundary(text, j)}
<1>1. Bars!Whole(text) /\ cursor \in 0 .. Len(text) /\ Len(text) \in Nat /\ cursor - 1 \in Nat
  BY SoundIs
<1>2. T \subseteq 0 .. cursor - 1 /\ 0 \in T
  BY <1>1 DEF Bars!Boundary
<1>3. \E m \in T : \A k \in T : k <= m
  BY <1>1, <1>2, GreatestNat
<1>4. PICK m \in T : \A k \in T : k <= m
  BY <1>3
<1>5. m \in 0 .. cursor - 1 /\ Bars!Boundary(text, m)
  OBVIOUS
<1>6. ASSUME NEW k \in m + 1 .. cursor - 1 PROVE ~Bars!Boundary(text, k)
  <2>1. k \in 0 .. cursor - 1 /\ ~(k <= m)
    BY <1>1, <1>5
  <2>2. QED
    BY <1>4, <2>1
<1>7. \E j \in 0 .. cursor - 1 : /\ Bars!Boundary(text, j)
                                /\ \A k \in j + 1 .. cursor - 1 : ~Bars!Boundary(text, k)
  BY <1>5, <1>6
<1>8. Bars!Before(text, cursor) \in 0 .. cursor - 1 /\ Bars!Boundary(text, Bars!Before(text, cursor))
  BY <1>7 DEF Bars!Before
<1>9. QED
  BY <1>1, <1>8 DEF Sound

\* handle_right does, too.
LEMMA AfterSound ==
  ASSUME NEW text, NEW cursor, Sound(text, cursor), cursor < Len(text)
  PROVE  Sound(text, Bars!After(text, cursor))
<1> DEFINE n == Len(text)
           T == {j \in cursor + 1 .. n : Bars!Boundary(text, j)}
<1>1. Bars!Whole(text) /\ cursor \in 0 .. n /\ n \in Nat /\ cursor < n
  BY SoundIs
<1>2. T \subseteq Nat /\ n \in T
  BY <1>1 DEF Bars!Boundary
<1>3. PICK m \in T : \A k \in T : m <= k
  <2>1. \E m \in T : \A k \in T : m <= k
    BY <1>2, LeastNat
  <2>2. QED
    BY <2>1
<1>5. m \in cursor + 1 .. n /\ Bars!Boundary(text, m)
  OBVIOUS
<1>6. ASSUME NEW k \in cursor + 1 .. m - 1 PROVE ~Bars!Boundary(text, k)
  <2>1. k \in cursor + 1 .. n /\ ~(m <= k)
    BY <1>1, <1>5
  <2>2. QED
    BY <1>3, <2>1
<1>7. \E j \in cursor + 1 .. n : /\ Bars!Boundary(text, j)
                                 /\ \A k \in cursor + 1 .. j - 1 : ~Bars!Boundary(text, k)
  BY <1>5, <1>6
<1>8. /\ Bars!After(text, cursor) \in cursor + 1 .. n
      /\ Bars!Boundary(text, Bars!After(text, cursor))
  BY <1>7 DEF Bars!After
<1>9. QED
  BY <1>1, <1>8 DEF Sound

\* handle_delete_word compares bytes, and stops between characters.
LEMMA WordStartSound ==
  ASSUME NEW text, NEW cursor, Sound(text, cursor)
  PROVE  Sound(text, Bars!WordStart(text, cursor)) /\ Bars!WordStart(text, cursor) <= cursor
<1> DEFINE Ends(j) == /\ j = 0 \/ text[j] # Bars!Blank
                      /\ \A k \in j + 1 .. cursor : text[k] = Bars!Blank
           end == CHOOSE j \in 0 .. cursor : Ends(j)
           Starts(j) == /\ j = 0 \/ text[j] = Bars!Blank
                        /\ \A k \in j + 1 .. end : text[k] # Bars!Blank
           start == CHOOSE j \in 0 .. end : Starts(j)
<1>1. Bars!Whole(text) /\ cursor \in 0 .. Len(text) /\ Len(text) \in Nat
  BY SoundIs
<1>2. \E j \in 0 .. cursor : Ends(j)
  <2> DEFINE T == {j \in 0 .. cursor : j = 0 \/ text[j] # Bars!Blank}
  <2>1. T \subseteq 0 .. cursor /\ 0 \in T /\ cursor \in Nat
    BY <1>1
  <2>2. \E m \in T : \A k \in T : k <= m
    BY <2>1, GreatestNat
  <2>3. PICK m \in T : \A k \in T : k <= m
    BY <2>2
  <2>4. m \in 0 .. cursor /\ (m = 0 \/ text[m] # Bars!Blank)
    OBVIOUS
  <2>5. ASSUME NEW k \in m + 1 .. cursor PROVE text[k] = Bars!Blank
    <3>1. k \in 0 .. cursor /\ ~(k <= m)
      BY <2>1, <2>4
    <3>2. QED
      BY <2>3, <3>1
  <2>6. QED
    BY <2>4, <2>5
<1>3. end \in 0 .. cursor /\ Ends(end)
  BY <1>2
<1> HIDE DEF end
<1>4. \E j \in 0 .. end : Starts(j)
  <2> DEFINE T == {j \in 0 .. end : j = 0 \/ text[j] = Bars!Blank}
  <2>1. T \subseteq 0 .. end /\ 0 \in T /\ end \in Nat
    BY <1>1, <1>3
  <2>2. \E m \in T : \A k \in T : k <= m
    BY <2>1, GreatestNat
  <2>3. PICK m \in T : \A k \in T : k <= m
    BY <2>2
  <2>4. m \in 0 .. end /\ (m = 0 \/ text[m] = Bars!Blank)
    OBVIOUS
  <2>5. ASSUME NEW k \in m + 1 .. end PROVE text[k] # Bars!Blank
    <3>1. k \in 0 .. end /\ ~(k <= m)
      BY <2>1, <2>4
    <3>2. QED
      BY <2>3, <3>1
  <2>6. QED
    BY <2>4, <2>5
<1>5. start \in 0 .. end /\ Starts(start)
  BY <1>4
<1>6. Bars!WordStart(text, cursor) = start
  BY DEF Bars!WordStart, end
<1> HIDE DEF start
<1>7. start \in 0 .. Len(text) /\ start <= cursor
  BY <1>1, <1>3, <1>5
<1>8. Bars!Boundary(text, start)
  <2>1. CASE start = 0
    BY <2>1 DEF Bars!Boundary
  <2>2. CASE start # 0
    <3>1. text[start] = Bars!Blank
      BY <1>5, <2>2
    <3>2. start # end
      BY <1>3, <2>2, <3>1
    <3>3. start + 1 \in 1 .. Len(text) /\ start < Len(text) /\ (start + 1) - 1 = start
      BY <1>1, <1>3, <1>5, <3>2
    <3>4. ~Leads(text[start])
      BY <3>1 DEF Leads
    <3>5. text[start + 1] # "C"
      BY <1>1, <3>3, <3>4, WholeIs
    <3>6. QED
      BY <3>3, <3>5 DEF Bars!Boundary
  <2>3. QED
    BY <2>1, <2>2
<1>9. QED
  BY <1>1, <1>6, <1>7, <1>8 DEF Sound

-----------------------------------------------------------------------------
(* The entries picked from a sequence.                                     *)

\* p leads from the places of the picked ones to the places they had.
Leading(p, s, keep, picked) ==
  /\ p \in [1 .. Len(picked) -> keep]
  /\ \A n \in 1 .. Len(picked) : picked[n] = s[p[n]]
  /\ \A n, m \in 1 .. Len(picked) : p[n] = p[m] => n = m
  /\ \A n \in 1 .. Len(picked) : p[n] - 1 \in keep => n > 1 /\ p[n - 1] = p[n] - 1

LEMMA PickedIs ==
  ASSUME NEW S, NEW s \in Seq(S), NEW keep, keep \subseteq 1 .. Len(s)
  PROVE  /\ Bars!Picked(s, keep) \in Seq(S)
         /\ \E p : Leading(p, s, keep, Bars!Picked(s, keep))
<1> DEFINE len == Len(s)
           m == Cardinality(keep)
           D(i) == {j \in keep : j <= i}
           Place(i) == Cardinality({j \in keep : j <= i})
           p == [n \in 1 .. m |-> CHOOSE i \in keep : Place(i) = n]
           u == Bars!Picked(s, keep)
<1>1. len \in Nat /\ IsFiniteSet(1 .. len) /\ \A i \in keep : i \in 1 .. len /\ s[i] \in S
  <2>1. len \in Nat
    OBVIOUS
  <2>2. IsFiniteSet(1 .. len)
    BY <2>1, FS_Interval
  <2>3. QED
    BY <2>1, <2>2
<1>2. keep \subseteq 1 .. len
  OBVIOUS
<1> HIDE DEF len
<1>3. IsFiniteSet(keep) /\ m \in Nat
  <2>1. IsFiniteSet(keep)
    BY <1>1, <1>2, FS_Subset
  <2>2. QED
    BY <2>1, FS_CardinalityType
<1>4. ASSUME NEW i \in keep
      PROVE  /\ IsFiniteSet(D(i)) /\ Place(i) = Cardinality(D(i)) /\ Place(i) \in 1 .. m
             /\ D(i) \subseteq keep /\ i \in D(i) /\ \A j \in keep : j \in D(i) <=> j <= i
  <2>1. D(i) \subseteq keep /\ i \in D(i) /\ \A j \in keep : j \in D(i) <=> j <= i
    BY <1>1
  <2>2. Place(i) = Cardinality(D(i))
    OBVIOUS
  <2> HIDE DEF D
  <2>3. IsFiniteSet(D(i)) /\ Cardinality(D(i)) <= m
    BY <1>3, <2>1, FS_Subset
  <2>4. Cardinality(D(i)) \in Nat
    BY <2>3, FS_CardinalityType
  <2>5. Cardinality(D(i)) = 0 <=> D(i) = {}
    BY <2>3, FS_EmptySet
  <2>6. Cardinality(D(i)) # 0
    BY <2>1, <2>5
  <2>7. Cardinality(D(i)) \in 1 .. m
    BY <1>3, <2>3, <2>4, <2>6
  <2>8. QED
    BY <2>1, <2>2, <2>3, <2>7
<1> HIDE DEF D, Place
<1>5. ASSUME NEW i \in keep, NEW j \in keep, i < j PROVE Place(i) < Place(j)
  <2>1. i \in Nat /\ j \in Nat
    BY <1>1
  <2>2. D(i) \subseteq D(j) /\ j \in D(j) /\ j \notin D(i)
    <3>1. ASSUME NEW k \in D(i) PROVE k \in D(j)
      <4>1. k \in keep /\ k <= i
        BY <1>4
      <4>4. k \in Nat
        BY <1>1, <4>1
      <4>2. k <= j
        BY <2>1, <4>1, <4>4, <1>5
      <4>3. QED
        BY <1>4, <4>1, <4>2
    <3>2. ~(j <= i)
      BY <2>1, <1>5
    <3>3. QED
      BY <1>4, <3>1, <3>2
  <2>3. IsFiniteSet(D(i)) /\ IsFiniteSet(D(j))
    BY <1>4
  <2>4. Cardinality(D(i)) <= Cardinality(D(j)) /\ Cardinality(D(i)) # Cardinality(D(j))
    BY <2>2, <2>3, FS_Subset
  <2>5. /\ Place(i) = Cardinality(D(i)) /\ Place(j) = Cardinality(D(j))
        /\ Place(i) \in 1 .. m /\ Place(j) \in 1 .. m
    BY <1>4
  <2>6. Place(i) <= Place(j) /\ Place(i) # Place(j)
    BY <2>4, <2>5
  <2>7. QED
    BY <1>3, <2>5, <2>6
<1>6. ASSUME NEW i \in keep, NEW j \in keep, Place(i) = Place(j) PROVE i = j
  <2>1. i \in Nat /\ j \in Nat /\ Place(i) \in 1 .. m /\ Place(j) \in 1 .. m
    BY <1>1, <1>4
  <2>2. ~(Place(i) < Place(j)) /\ ~(Place(j) < Place(i))
    BY <1>3, <1>6, <2>1
  <2>3. QED
    BY <1>5, <2>1, <2>2
<1>7. ASSUME NEW n \in 1 .. m PROVE \E i \in keep : Place(i) = n
  <2> DEFINE f == [i \in keep |-> Place(i)]
  <2>1. f \in [keep -> 1 .. m] /\ \A i \in keep : f[i] = Place(i)
    BY <1>4
  <2> HIDE DEF f
  <2>2. \A i, j \in keep : f[i] = f[j] => i = j
    BY <1>6, <2>1
  <2>3. f \in Injection(keep, 1 .. m)
    BY <2>1, <2>2 DEF Injection, IsInjective
  <2>4. IsFiniteSet(1 .. m)
    BY <1>3, FS_Interval
  <2>5. Cardinality(1 .. m) = m
    <3>1. m \in Int /\ 1 \in Int /\ (IF 1 > m THEN 0 ELSE m - 1 + 1) = m
      BY <1>3
    <3>2. QED
      BY <3>1, FS_Interval
  <2>6. f \in Surjection(keep, 1 .. m)
    BY <1>3, <2>3, <2>4, <2>5, FS_Injection
  <2>7. QED
    BY <2>1, <2>6 DEF Surjection
<1>8. ASSUME NEW n \in 1 .. m PROVE p[n] \in keep /\ Place(p[n]) = n
  BY <1>7
<1>9. u = [n \in 1 .. m |-> s[p[n]]]
  <2>1. u = [n \in 1 .. Cardinality(keep) |->
               s[CHOOSE i \in keep : Cardinality({j \in keep : j <= i}) = n]]
    BY DEF Bars!Picked, Cardinality, Bars!Cardinality, IsFiniteSet, Bars!IsFiniteSet
  <2>2. \A n \in 1 .. m : p[n] = CHOOSE i \in keep : Cardinality({j \in keep : j <= i}) = n
    BY DEF Place
  <2> HIDE DEF p, u
  <2>3. ASSUME NEW n \in 1 .. m PROVE u[n] = s[p[n]]
    BY <2>1, <2>2, <2>3
  <2>4. u = [n \in 1 .. m |-> u[n]]
    BY <2>1
  <2>5. QED
    BY <2>3, <2>4
<1> HIDE DEF p, u
<1>10. \A n \in 1 .. m : s[p[n]] \in S
  BY <1>1, <1>8
<1>11. u \in Seq(S) /\ Len(u) = m /\ \A n \in 1 .. m : u[n] = s[p[n]]
  BY <1>3, <1>9, <1>10
<1>12. p \in [1 .. m -> keep]
  BY <1>8 DEF p
<1>13. \A n, k \in 1 .. m : p[n] = p[k] => n = k
  BY <1>8
<1>14. ASSUME NEW n \in 1 .. m, p[n] - 1 \in keep PROVE n > 1 /\ p[n - 1] = p[n] - 1
  <2> DEFINE i == p[n]
             j == i - 1
  <2>1. i \in keep /\ j \in keep /\ Place(i) = n /\ i \in Nat /\ j \in Nat /\ j < i
    <3>1. i \in keep /\ j \in keep /\ Place(i) = n
      BY <1>8, <1>14
    <3>2. i \in 1 .. len /\ j \in 1 .. len
      BY <1>1, <3>1
    <3> HIDE DEF i
    <3>3. i \in Nat /\ j \in Nat /\ j < i
      BY <1>1, <3>2
    <3>4. QED
      BY <3>1, <3>3
  <2>2. j = i - 1
    OBVIOUS
  <2> HIDE DEF i, j
  <2>3. D(i) = D(j) \cup {i} /\ i \notin D(j)
    <3>1. ASSUME NEW k \in keep PROVE k \in D(i) <=> k \in D(j) \/ k = i
      <4>1. k \in Nat
        BY <1>1
      <4>2. k <= i <=> k <= j \/ k = i
        BY <2>1, <2>2, <4>1
      <4>3. QED
        BY <1>4, <2>1, <4>2
    <3>2. D(i) \subseteq keep /\ D(j) \subseteq keep
      BY <1>4, <2>1
    <3>3. ~(i <= j)
      BY <2>1
    <3>4. i \notin D(j)
      BY <1>4, <2>1, <3>3
    <3>5. QED
      BY <2>1, <3>1, <3>2, <3>4
  <2>4. IsFiniteSet(D(j))
    BY <1>4, <2>1
  <2>5. Cardinality(D(j) \cup {i}) = Cardinality(D(j)) + 1
    BY <2>3, <2>4, FS_AddElement
  <2>6. Place(j) \in 1 .. m /\ n = Place(j) + 1
    BY <1>4, <2>1, <2>3, <2>5
  <2>7. n - 1 \in 1 .. m /\ n > 1 /\ Place(j) = n - 1
    BY <1>3, <2>6
  <2>8. p[n - 1] \in keep /\ Place(p[n - 1]) = n - 1
    BY <1>8, <2>7
  <2>9. p[n - 1] = j
    BY <1>6, <2>1, <2>7, <2>8
  <2>10. QED
    BY <2>2, <2>7, <2>9 DEF i
<1>15. Leading(p, s, keep, u)
  BY <1>11, <1>12, <1>13, <1>14 DEF Leading
<1>16. QED
  BY <1>11, <1>15 DEF u

-----------------------------------------------------------------------------
(* The rows under a bar.                                                   *)

\* A list in which a value stands once, but that of the search.
Listing(rows) ==
  /\ rows \in Seq(Bars!ToSet(rows))
  /\ \A i, j \in 1 .. Len(rows) :
       rows[i].value = rows[j].value => i = j \/ "search" \in {rows[i].kind, rows[j].kind}

\* Any two entries differ in their values.
Different(rows) ==
  /\ rows \in Seq(Bars!ToSet(rows))
  /\ \A i, j \in 1 .. Len(rows) : rows[i].value = rows[j].value => i = j

LEMMA DifferentIsListing == ASSUME NEW rows, Different(rows) PROVE Listing(rows)
BY DEF Different, Listing

\* A list cut short.
LEMMA ShortDifferent ==
  ASSUME NEW rows, Different(rows), NEW n \in 0 .. Len(rows)
  PROVE  Different(SubSeq(rows, 1, n))
<1> DEFINE S == Bars!ToSet(rows)
           u == SubSeq(rows, 1, n)
<1>1. rows \in Seq(S)
  BY DEF Different
<1> HIDE DEF S
<1>2. u \in Seq(S) /\ Len(u) = n /\ \A i \in 1 .. n : u[i] = rows[i] /\ i \in 1 .. Len(rows)
  BY <1>1
<1> HIDE DEF u
<1>3. u \in Seq(Bars!ToSet(u))
  BY <1>2, OfItsOwn
<1>4. ASSUME NEW i \in 1 .. n, NEW j \in 1 .. n, u[i].value = u[j].value PROVE i = j
  <2>1. i \in 1 .. Len(rows) /\ j \in 1 .. Len(rows) /\ rows[i].value = rows[j].value
    BY <1>2, <1>4
  <2>2. QED
    BY <2>1 DEF Different
<1>5. Different(u)
  BY <1>2, <1>3, <1>4 DEF Different
<1>6. QED
  BY <1>5 DEF u

\* A list with the search after it.
LEMMA SearchAfter ==
  ASSUME NEW rows, Different(rows), NEW value
  PROVE  Listing(Append(rows, Bars!Suggestion("search", value)))
<1> DEFINE e == Bars!Suggestion("search", value)
           S == Bars!ToSet(rows) \cup {e}
           n == Len(rows)
           u == Append(rows, e)
<1>1. rows \in Seq(S) /\ e \in S /\ n \in Nat
  <2>1. rows \in Seq(Bars!ToSet(rows))
    BY DEF Different
  <2>2. QED
    BY <2>1
<1>2. e.kind = "search"
  BY DEF Bars!Suggestion
<1>3. \A i, j \in 1 .. n : rows[i].value = rows[j].value => i = j
  BY DEF Different
<1> HIDE DEF S, e
<1>4. /\ u \in Seq(S) /\ Len(u) = n + 1 /\ u[n + 1] = e
      /\ \A i \in 1 .. n : u[i] = rows[i]
  BY <1>1
<1> HIDE DEF u, n
<1>5. u \in Seq(Bars!ToSet(u))
  BY <1>4, OfItsOwn
<1>6. ASSUME NEW i \in 1 .. n + 1, NEW j \in 1 .. n + 1, u[i].value = u[j].value
      PROVE  i = j \/ "search" \in {u[i].kind, u[j].kind}
  <2>1. CASE i = n + 1 \/ j = n + 1
    BY <1>2, <1>4, <2>1
  <2>2. CASE i # n + 1 /\ j # n + 1
    <3>1. i \in 1 .. n /\ j \in 1 .. n
      BY <1>1, <2>2
    <3>2. rows[i].value = rows[j].value
      BY <1>4, <1>6, <3>1
    <3>3. QED
      BY <1>3, <3>1, <3>2
  <2>3. QED
    BY <2>1, <2>2
<1>7. Listing(u)
  BY <1>4, <1>5, <1>6 DEF Listing
<1>8. QED
  BY <1>7 DEF u, e

\* The rows of one store, and of both.
OfRows(kind, rows) == [i \in DOMAIN rows |-> Bars!Suggestion(kind, rows[i])]
FoundRows(h, b) == OfRows("history", h) \o OfRows("bookmark", b)
Firsts(f) == {i \in DOMAIN f : \A j \in 1 .. i - 1 : f[j].value # f[i].value}

LEMMA OfRowsIs ==
  ASSUME NEW kind, NEW rows, rows \in Seq(Bars!ToSet(rows))
  PROVE  OfRows(kind, rows) \in Seq(Bars!ToSet(OfRows(kind, rows)))
<1> DEFINE n == Len(rows)
           u == OfRows(kind, rows)
           S == {Bars!Suggestion(kind, rows[i]) : i \in 1 .. n}
<1>1. DOMAIN rows = 1 .. n /\ n \in Nat
  OBVIOUS
<1> HIDE DEF n
<1>2. u = [i \in 1 .. n |-> Bars!Suggestion(kind, rows[i])]
  BY <1>1 DEF OfRows
<1>3. u \in [1 .. n -> S]
  BY <1>2
<1> HIDE DEF S, u
<1>4. u \in Seq(S)
  BY <1>1, <1>3
<1>5. u \in Seq(Bars!ToSet(u))
  BY <1>4, OfItsOwn
<1>6. QED
  BY <1>5 DEF u

\* omnibar_suggestions: the first ones of each address.
LEMMA KnownDifferent ==
  ASSUME NEW h, NEW b, h \in Seq(Bars!ToSet(h)), b \in Seq(Bars!ToSet(b))
  PROVE  Different(Bars!Known(h, b))
<1> DEFINE f == FoundRows(h, b)
           keep == Firsts(f)
           u == Bars!Known(h, b)
           A == OfRows("history", h)
           B == OfRows("bookmark", b)
           S == Bars!ToSet(A) \cup Bars!ToSet(B)
<1>1. u = Bars!Picked(f, keep)
  BY DEF Bars!Known, FoundRows, Firsts, OfRows
<1>2. A \in Seq(S) /\ B \in Seq(S)
  <2>1. A \in Seq(Bars!ToSet(A)) /\ B \in Seq(Bars!ToSet(B))
    BY OfRowsIs
  <2> HIDE DEF A, B
  <2>2. QED
    BY <2>1
<1>3. f = A \o B
  BY DEF FoundRows
<1> HIDE DEF S, A, B, f
<1>4. f \in Seq(S)
  BY <1>2, <1>3
<1>5. DOMAIN f = 1 .. Len(f) /\ Len(f) \in Nat
  BY <1>4
<1>6. /\ keep \subseteq 1 .. Len(f)
      /\ \A i \in keep : i \in 1 .. Len(f) /\ \A j \in 1 .. i - 1 : f[j].value # f[i].value
  BY <1>5 DEF Firsts
<1> HIDE DEF keep, u
<1>7. u \in Seq(S) /\ \E p : Leading(p, f, keep, u)
  BY <1>1, <1>4, <1>6, PickedIs
<1>8. u \in Seq(Bars!ToSet(u))
  BY <1>7, OfItsOwn
<1>9. PICK p : Leading(p, f, keep, u)
  BY <1>7
<1>10. ASSUME NEW n \in 1 .. Len(u), NEW k \in 1 .. Len(u), u[n].value = u[k].value PROVE n = k
  <2>1. p[n] \in keep /\ p[k] \in keep /\ u[n] = f[p[n]] /\ u[k] = f[p[k]]
    BY <1>9 DEF Leading
  <2>2. p[n] \in 1 .. Len(f) /\ p[k] \in 1 .. Len(f)
    BY <1>6, <2>1
  <2>3. ~(p[n] < p[k])
    <3>1. ASSUME p[n] < p[k] PROVE FALSE
      <4>1. p[n] \in 1 .. p[k] - 1
        BY <1>5, <2>2, <3>1
      <4>2. f[p[n]].value # f[p[k]].value
        BY <1>6, <2>1, <4>1
      <4>3. QED
        BY <1>10, <2>1, <4>2
    <3>2. QED
      BY <3>1
  <2>4. ~(p[k] < p[n])
    <3>1. ASSUME p[k] < p[n] PROVE FALSE
      <4>1. p[k] \in 1 .. p[n] - 1
        BY <1>5, <2>2, <3>1
      <4>2. f[p[k]].value # f[p[n]].value
        BY <1>6, <2>1, <4>1
      <4>3. QED
        BY <1>10, <2>1, <4>2
    <3>2. QED
      BY <3>1
  <2>5. p[n] = p[k]
    BY <1>5, <2>2, <2>3, <2>4
  <2>6. QED
    BY <1>9, <2>5 DEF Leading
<1>11. Different(u)
  BY <1>8, <1>10 DEF Different
<1>12. QED
  BY <1>11 DEF u

LEMMA EmptyListing == Different(<<>>)
<1> DEFINE none == <<>>
<1>1. none \in Seq(Bars!ToSet(none)) /\ Len(none) = 0
  OBVIOUS
<1>2. ASSUME NEW i \in 1 .. Len(none) PROVE FALSE
  BY <1>1
<1> HIDE DEF none
<1>3. Different(none)
  BY <1>1, <1>2 DEF Different
<1>4. QED
  BY <1>3 DEF none

LEMMA OmnibarListing ==
  ASSUME NEW text, NEW rows \in Bars!OmnibarRows(text)
  PROVE  Listing(rows)
<1>1. CASE Bars!Trim(text) = <<>>
  <2>1. rows = <<>>
    BY <1>1 DEF Bars!OmnibarRows
  <2>2. QED
    BY <2>1, EmptyListing, DifferentIsListing
<1>2. CASE Bars!Trim(text) # <<>>
  <2> DEFINE listed(h, b) ==
               LET known == Bars!Known(h, b) IN
                 IF Len(known) >= MaxSuggestions THEN SubSeq(known, 1, MaxSuggestions)
                 ELSE Append(known, Bars!Suggestion("search", Bars!Resolved(text)))
  <2>0. rows \in {listed(h, b) : h \in Rows, b \in Rows}
    BY <1>2 DEF Bars!OmnibarRows
  <2>1. PICK h \in Rows, b \in Rows : rows = listed(h, b)
    <3> HIDE DEF listed
    <3>1. QED
      BY <2>0
  <2> DEFINE known == Bars!Known(h, b)
  <2>2. h \in Seq(Bars!ToSet(h)) /\ b \in Seq(Bars!ToSet(b))
    BY BarsAssumption DEF Bars!TextsAreWhole
  <2>3. Different(known)
    BY <2>2, KnownDifferent
  <2>4. Len(known) \in Nat
    BY <2>3 DEF Different
  <2>5. \/ Len(known) >= MaxSuggestions /\ rows = SubSeq(known, 1, MaxSuggestions)
        \/ rows = Append(known, Bars!Suggestion("search", Bars!Resolved(text)))
    BY <2>1
  <2> HIDE DEF known
  <2>6. CASE Len(known) >= MaxSuggestions /\ rows = SubSeq(known, 1, MaxSuggestions)
    <3>1. MaxSuggestions \in 0 .. Len(known)
      BY <2>4, <2>6, BarsAssumption
    <3>2. QED
      BY <2>3, <2>6, <3>1, ShortDifferent, DifferentIsListing
  <2>7. CASE rows = Append(known, Bars!Suggestion("search", Bars!Resolved(text)))
    BY <2>3, <2>7, SearchAfter
  <2>8. QED
    BY <2>5, <2>6, <2>7
<1>3. QED
  BY <1>1, <1>2

\* command_suggestions: the names of the table are different.
LEMMA CommandListing ==
  ASSUME NEW text, NEW rows \in Bars!CommandRows(text)
  PROVE  Listing(rows)
<1> DEFINE names == [i \in DOMAIN Verbs |-> Bars!Suggestion("command", Verbs[i].name)]
           keep == {i \in DOMAIN Verbs : Bars!IsBegun(Bars!Trim(text), Verbs[i].name)}
           begun == Bars!Picked(names, keep)
           S == {Bars!Suggestion("command", v.name) : v \in Bars!ToSet(Verbs)}
           n == Len(Verbs)
<1>1. rows = IF Len(begun) > MaxSuggestions THEN SubSeq(begun, 1, MaxSuggestions) ELSE begun
  BY DEF Bars!CommandRows
<1>2. /\ Verbs \in Seq(Bars!ToSet(Verbs)) /\ DOMAIN Verbs = 1 .. n /\ n \in Nat
      /\ \A i, j \in 1 .. n : Verbs[i].name = Verbs[j].name => i = j
  <2>1. Bars!NamesAreDistinct
    BY BarsAssumption
  <2>2. Verbs \in Seq(Bars!ToSet(Verbs))
    BY <2>1 DEF Bars!NamesAreDistinct
  <2>3. DOMAIN Verbs = 1 .. n /\ n \in Nat
    BY <2>2
  <2>4. QED
    BY <2>1, <2>2, <2>3 DEF Bars!NamesAreDistinct
<1> HIDE DEF n
<1>3. names = [i \in 1 .. n |-> Bars!Suggestion("command", Verbs[i].name)]
  BY <1>2
<1>4. keep \subseteq 1 .. n
  BY <1>2
<1>5. \A i \in 1 .. n : Bars!Suggestion("command", Verbs[i].name) \in S
  <2>1. \A i \in 1 .. n : Verbs[i] \in Bars!ToSet(Verbs)
    BY <1>2
  <2>2. QED
    BY <2>1
<1>6. names \in Seq(S) /\ Len(names) = n
  <2> HIDE DEF S, names
  <2>1. names \in [1 .. n -> S]
    BY <1>3, <1>5
  <2>2. QED
    BY <1>2, <2>1
<1>7. \A i \in 1 .. n : names[i].value = Verbs[i].name
  BY <1>3 DEF Bars!Suggestion
<1> HIDE DEF names, keep, S
<1>8. begun \in Seq(S) /\ \E p : Leading(p, names, keep, begun)
  BY <1>4, <1>6, PickedIs
<1> HIDE DEF begun
<1>9. begun \in Seq(Bars!ToSet(begun)) /\ Len(begun) \in Nat
  BY <1>8, OfItsOwn
<1>10. PICK p : Leading(p, names, keep, begun)
  BY <1>8
<1>11. ASSUME NEW i \in 1 .. Len(begun), NEW j \in 1 .. Len(begun), begun[i].value = begun[j].value
       PROVE  i = j
  <2>1. p[i] \in keep /\ p[j] \in keep /\ begun[i] = names[p[i]] /\ begun[j] = names[p[j]]
    BY <1>10 DEF Leading
  <2>2. p[i] \in 1 .. n /\ p[j] \in 1 .. n
    BY <1>4, <2>1
  <2>3. Verbs[p[i]].name = Verbs[p[j]].name
    BY <1>7, <1>11, <2>1, <2>2
  <2>4. p[i] = p[j]
    BY <1>2, <2>2, <2>3
  <2>5. QED
    BY <1>10, <2>4 DEF Leading
<1>12. Different(begun)
  BY <1>9, <1>11 DEF Different
<1>13. CASE Len(begun) > MaxSuggestions
  <2>1. MaxSuggestions \in 0 .. Len(begun)
    BY <1>9, <1>13, BarsAssumption
  <2>2. QED
    BY <1>1, <1>12, <1>13, <2>1, ShortDifferent, DifferentIsListing
<1>14. CASE ~(Len(begun) > MaxSuggestions)
  BY <1>1, <1>12, <1>14, DifferentIsListing
<1>15. QED
  BY <1>13, <1>14

-----------------------------------------------------------------------------
(* The bar that is open.                                                   *)

Kinds == {"omnibar", "command", "find"}
BarFields == {"kind", "text", "cursor", "rows", "selected"}

\* A bar before its list is made anew.
Drafted(b) == b.kind \in Kinds /\ DOMAIN b = BarFields /\ Sound(b.text, b.cursor)

BarOK(b) == Drafted(b) /\ b.rows \in Bars!RowsFor(b) /\ b.selected \in 0 .. Len(b.rows)

BarInv == part = "bars" => bar = Bars!NoBar \/ BarOK(bar)

LEMMA RowsAreListings ==
  ASSUME NEW b, b.kind \in Kinds, NEW rows \in Bars!RowsFor(b)
  PROVE  Listing(rows) /\ Len(rows) \in Nat
<1>1. Listing(rows)
  <2>1. CASE b.kind = "omnibar"
    <3>1. rows \in Bars!OmnibarRows(b.text)
      BY <2>1 DEF Bars!RowsFor
    <3>2. QED
      BY <3>1, OmnibarListing
  <2>2. CASE b.kind = "command"
    <3>1. rows \in Bars!CommandRows(b.text)
      BY <2>2 DEF Bars!RowsFor
    <3>2. QED
      BY <3>1, CommandListing
  <2>3. CASE b.kind = "find"
    <3>1. rows = <<>>
      BY <2>3 DEF Bars!RowsFor
    <3>2. QED
      BY <3>1, EmptyListing, DifferentIsListing
  <2>4. QED
    BY <2>1, <2>2, <2>3 DEF Kinds
<1>2. rows \in Seq(Bars!ToSet(rows))
  BY <1>1 DEF Listing
<1>3. QED
  BY <1>1, <1>2

\* refresh_overlay_suggestions.
LEMMA RefreshedOK ==
  ASSUME NEW b, Drafted(b), Bars!Refreshed(b)
  PROVE  BarOK(bar')
<1>1. PICK rows \in Bars!RowsFor(b) : bar' = [b EXCEPT !.rows = rows, !.selected = 0]
  BY DEF Bars!Refreshed
<1> DEFINE n == [b EXCEPT !.rows = rows, !.selected = 0]
<1>2. DOMAIN b = BarFields /\ b.kind \in Kinds /\ Sound(b.text, b.cursor)
  BY DEF Drafted
<1>3. /\ DOMAIN n = BarFields /\ n.kind = b.kind /\ n.text = b.text /\ n.cursor = b.cursor
      /\ n.rows = rows /\ n.selected = 0
  BY <1>2 DEF BarFields
<1> HIDE DEF n
<1>4. Bars!RowsFor(n) = Bars!RowsFor(b)
  BY <1>3 DEF Bars!RowsFor
<1>5. Len(rows) \in Nat
  BY <1>2, RowsAreListings
<1>6. BarOK(n)
  <2>1. Drafted(n)
    BY <1>2, <1>3 DEF Drafted
  <2>2. n.rows \in Bars!RowsFor(n)
    BY <1>3, <1>4
  <2>3. n.selected \in 0 .. Len(n.rows)
    BY <1>3, <1>5
  <2>4. QED
    BY <2>1, <2>2, <2>3 DEF BarOK
<1>7. QED
  BY <1>1, <1>6 DEF n

LEMMA NewBarDrafted ==
  ASSUME NEW kind \in Kinds
  PROVE  /\ Drafted(Bars!Bar(kind))
         /\ \A page \in Prefills : Drafted([Bars!Bar(kind) EXCEPT !.text = page, !.cursor = Len(page)])
<1> DEFINE b == Bars!Bar(kind)
<1>1. /\ DOMAIN b = BarFields /\ b.kind = kind /\ b.text = <<>> /\ b.cursor = 0
  BY DEF Bars!Bar, BarFields
<1> HIDE DEF b
<1>2. Drafted(b)
  BY <1>1, NothingSound DEF Drafted
<1>3. ASSUME NEW page \in Prefills PROVE Drafted([b EXCEPT !.text = page, !.cursor = Len(page)])
  <2> DEFINE n == [b EXCEPT !.text = page, !.cursor = Len(page)]
  <2>1. DOMAIN n = BarFields /\ n.kind = kind /\ n.text = page /\ n.cursor = Len(page)
    BY <1>1 DEF BarFields
  <2> HIDE DEF n
  <2>2. Bars!Whole(page)
    BY BarsAssumption DEF Bars!TextsAreWhole
  <2>3. Sound(page, Len(page))
    BY <2>2, AtTheEnds
  <2>4. Drafted(n)
    BY <2>1, <2>3 DEF Drafted
  <2>5. QED
    BY <2>4 DEF n
<1>4. QED
  BY <1>2, <1>3 DEF b

\* A character, or the text of the clipboard, at the cursor.
LEMMA InsertedDrafted ==
  ASSUME NEW b, Drafted(b), NEW c, Bars!Whole(c)
  PROVE  Drafted(Bars!Inserted(b, c))
<1> DEFINE text == SubSeq(b.text, 1, b.cursor) \o c \o SubSeq(b.text, b.cursor + 1, Len(b.text))
           n == Bars!Inserted(b, c)
<1>1. DOMAIN b = BarFields /\ b.kind \in Kinds /\ Sound(b.text, b.cursor)
  BY DEF Drafted
<1>2. DOMAIN n = BarFields /\ n.kind = b.kind /\ n.text = text /\ n.cursor = b.cursor + Len(c)
  BY <1>1 DEF Bars!Inserted, BarFields
<1>3. Sound(text, b.cursor + Len(c))
  BY <1>1, InsertedSound
<1> HIDE DEF n, text
<1>4. QED
  BY <1>1, <1>2, <1>3 DEF Drafted, n

LEMMA DeletedDrafted ==
  ASSUME NEW b, Drafted(b), NEW from, Sound(b.text, from), from <= b.cursor
  PROVE  Drafted(Bars!Deleted(b, from))
<1> DEFINE n == Bars!Deleted(b, from)
<1>1. DOMAIN b = BarFields /\ b.kind \in Kinds /\ Sound(b.text, b.cursor)
  BY DEF Drafted
<1>2. DOMAIN n = BarFields /\ n.kind = b.kind /\ n.text = Bars!Cut(b.text, from, b.cursor) /\ n.cursor = from
  BY <1>1 DEF Bars!Deleted, BarFields
<1>3. Sound(Bars!Cut(b.text, from, b.cursor), from)
  BY <1>1, CutSound
<1> HIDE DEF n
<1>4. QED
  BY <1>1, <1>2, <1>3 DEF Drafted, n

\* What the keys that change the text leave.
LEMMA EditsDrafted ==
  ASSUME NEW b, Drafted(b), NEW n \in Bars!Edits(b)
  PROVE  Drafted(n)
<1>1. DOMAIN b = BarFields /\ b.kind \in Kinds /\ Sound(b.text, b.cursor)
  BY DEF Drafted
<1>2. b.cursor \in Nat /\ Len(b.text) \in Nat
  BY <1>1, SoundIs
<1>3. \/ \E c \in Chars : n = Bars!Inserted(b, c)
      \/ b.cursor = 0 /\ n = b
      \/ b.cursor # 0 /\ n = Bars!Deleted(b, Bars!Before(b.text, b.cursor))
      \/ n = Bars!Deleted(b, Bars!WordStart(b.text, b.cursor))
      \/ n = [b EXCEPT !.text = <<>>, !.cursor = 0, !.selected = 0]
  BY DEF Bars!Edits
<1>4. CASE \E c \in Chars : n = Bars!Inserted(b, c)
  <2>1. PICK c \in Chars : n = Bars!Inserted(b, c)
    BY <1>4
  <2>2. Bars!Whole(c)
    BY BarsAssumption DEF Bars!TextsAreWhole
  <2>3. QED
    BY <2>1, <2>2, InsertedDrafted
<1>5. CASE b.cursor = 0 /\ n = b
  BY <1>5
<1>6. CASE b.cursor # 0 /\ n = Bars!Deleted(b, Bars!Before(b.text, b.cursor))
  <2> DEFINE from == Bars!Before(b.text, b.cursor)
  <2>1. b.cursor > 0
    BY <1>2, <1>6
  <2>2. Sound(b.text, from) /\ from < b.cursor
    BY <1>1, <2>1, BeforeSound
  <2>3. n = Bars!Deleted(b, from)
    BY <1>6
  <2> HIDE DEF from
  <2>4. from \in 0 .. Len(b.text)
    BY <2>2, SoundIs
  <2>5. from <= b.cursor
    BY <1>2, <2>2, <2>4
  <2>6. QED
    BY <2>2, <2>3, <2>5, DeletedDrafted
<1>7. CASE n = Bars!Deleted(b, Bars!WordStart(b.text, b.cursor))
  BY <1>1, <1>7, WordStartSound, DeletedDrafted
<1>8. CASE n = [b EXCEPT !.text = <<>>, !.cursor = 0, !.selected = 0]
  <2>1. DOMAIN n = BarFields /\ n.kind = b.kind /\ n.text = <<>> /\ n.cursor = 0
    BY <1>1, <1>8 DEF BarFields
  <2>2. QED
    BY <1>1, <2>1, NothingSound DEF Drafted
<1>9. QED
  BY <1>3, <1>4, <1>5, <1>6, <1>7, <1>8

\* Ctrl-V: what is left of the clipboard's text is a text.
LEMMA PrintedWhole ==
  ASSUME NEW clip, Bars!Whole(clip)
  PROVE  Bars!Whole(Bars!Picked(clip, {i \in DOMAIN clip : clip[i] \notin Bars!Control}))
<1> DEFINE S == Bars!ToSet(clip)
           keep == {i \in DOMAIN clip : clip[i] \notin Bars!Control}
           u == Bars!Picked(clip, keep)
<1>1. clip \in Seq(S) /\ \A i \in 1 .. Len(clip) : clip[i] = "C" => i > 1 /\ Leads(clip[i - 1])
  BY WholeIs
<1>2. DOMAIN clip = 1 .. Len(clip) /\ Len(clip) \in Nat
  BY <1>1
<1> HIDE DEF S
<1>3. keep \subseteq 1 .. Len(clip) /\ \A i \in 1 .. Len(clip) : clip[i] \notin Bars!Control => i \in keep
  BY <1>2
<1> HIDE DEF keep
<1>4. u \in Seq(S) /\ \E p : Leading(p, clip, keep, u)
  BY <1>1, <1>3, PickedIs
<1> HIDE DEF u
<1>5. u \in Seq(Bars!ToSet(u)) /\ Len(u) \in Nat
  BY <1>4, OfItsOwn
<1>6. PICK p : Leading(p, clip, keep, u)
  BY <1>4
<1>7. ASSUME NEW n \in 1 .. Len(u), u[n] = "C" PROVE n > 1 /\ Leads(u[n - 1])
  <2> DEFINE i == p[n]
             j == i - 1
  <2>1. i \in keep /\ u[n] = clip[i]
    BY <1>6 DEF Leading
  <2>2. i \in 1 .. Len(clip) /\ clip[i] = "C"
    BY <1>3, <1>7, <2>1
  <2>3. i > 1 /\ Leads(clip[j])
    BY <1>1, <2>2
  <2>4. j \in 1 .. Len(clip)
    BY <1>2, <2>2, <2>3
  <2>5. clip[j] \notin Bars!Control
    BY <2>3 DEF Leads
  <2>6. j \in keep
    BY <1>3, <2>4, <2>5
  <2>7. n > 1 /\ p[n - 1] = j
    BY <1>6, <2>6 DEF Leading
  <2>8. n - 1 \in 1 .. Len(u)
    BY <1>5, <2>7
  <2>9. u[n - 1] = clip[p[n - 1]]
    BY <1>6, <2>8 DEF Leading
  <2>10. QED
    BY <2>3, <2>7, <2>9
<1>8. Bars!Whole(u)
  BY <1>5, <1>7, WholeIs
<1>9. QED
  BY <1>8 DEF u, keep

LEMMA PastedDrafted ==
  ASSUME NEW b, Drafted(b), NEW clip \in Clips
  PROVE  Drafted(Bars!Pasted(b, clip))
<1> DEFINE u == Bars!Picked(clip, {i \in DOMAIN clip : clip[i] \notin Bars!Control})
<1>1. Bars!Whole(clip)
  BY BarsAssumption DEF Bars!TextsAreWhole
<1>2. Bars!Whole(u)
  BY <1>1, PrintedWhole
<1>3. Bars!Pasted(b, clip) = IF u = <<>> THEN b ELSE Bars!Inserted(b, u)
  BY DEF Bars!Pasted
<1> HIDE DEF u
<1>4. Drafted(Bars!Inserted(b, u))
  BY <1>2, InsertedDrafted
<1>5. QED
  BY <1>3, <1>4

\* handle_up and handle_down.
LEMMA SelectFine ==
  ASSUME BarOK(bar), Bars!Select
  PROVE  BarOK(bar')
<1>1. /\ DOMAIN bar = BarFields /\ bar.kind \in Kinds /\ Sound(bar.text, bar.cursor)
      /\ bar.rows \in Bars!RowsFor(bar) /\ bar.selected \in 0 .. Len(bar.rows)
  BY DEF BarOK, Drafted
<1>2. Len(bar.rows) \in Nat
  BY <1>1, RowsAreListings
<1>3. PICK s \in {IF bar.selected = 0 THEN 0 ELSE bar.selected - 1,
                  IF bar.selected >= Len(bar.rows) THEN Len(bar.rows) ELSE bar.selected + 1} :
        bar' = [bar EXCEPT !.selected = s]
  BY DEF Bars!Select, Bars!Listed
<1>4. s \in 0 .. Len(bar.rows)
  BY <1>1, <1>2
<1> DEFINE n == [bar EXCEPT !.selected = s]
<1>5. /\ DOMAIN n = BarFields /\ n.kind = bar.kind /\ n.text = bar.text /\ n.cursor = bar.cursor
      /\ n.rows = bar.rows /\ n.selected = s
  BY <1>1 DEF BarFields
<1> HIDE DEF n
<1>6. Bars!RowsFor(n) = Bars!RowsFor(bar)
  BY <1>5 DEF Bars!RowsFor
<1>7. BarOK(n)
  BY <1>1, <1>4, <1>5, <1>6 DEF BarOK, Drafted
<1>8. QED
  BY <1>3, <1>7 DEF n

LEMMA MoveCursorFine ==
  ASSUME BarOK(bar), Bars!MoveCursor
  PROVE  BarOK(bar')
<1>1. /\ DOMAIN bar = BarFields /\ bar.kind \in Kinds /\ Sound(bar.text, bar.cursor)
      /\ bar.rows \in Bars!RowsFor(bar) /\ bar.selected \in 0 .. Len(bar.rows)
  BY DEF BarOK, Drafted
<1>2. ASSUME NEW c, Sound(bar.text, c), bar' = [bar EXCEPT !.cursor = c] PROVE BarOK(bar')
  <2> DEFINE n == [bar EXCEPT !.cursor = c]
  <2>1. /\ DOMAIN n = BarFields /\ n.kind = bar.kind /\ n.text = bar.text /\ n.cursor = c
        /\ n.rows = bar.rows /\ n.selected = bar.selected
    BY <1>1 DEF BarFields
  <2> HIDE DEF n
  <2>2. Bars!RowsFor(n) = Bars!RowsFor(bar)
    BY <2>1 DEF Bars!RowsFor
  <2>3. BarOK(n)
    BY <1>1, <1>2, <2>1, <2>2 DEF BarOK, Drafted
  <2>4. QED
    BY <1>2, <2>3 DEF n
<1>3. \/ bar.cursor > 0 /\ bar' = [bar EXCEPT !.cursor = Bars!Before(bar.text, bar.cursor)]
      \/ bar.cursor < Len(bar.text) /\ bar' = [bar EXCEPT !.cursor = Bars!After(bar.text, bar.cursor)]
  BY DEF Bars!MoveCursor
<1>4. CASE bar.cursor > 0 /\ bar' = [bar EXCEPT !.cursor = Bars!Before(bar.text, bar.cursor)]
  BY <1>1, <1>2, <1>4, BeforeSound
<1>5. CASE bar.cursor < Len(bar.text) /\ bar' = [bar EXCEPT !.cursor = Bars!After(bar.text, bar.cursor)]
  BY <1>1, <1>2, <1>5, AfterSound
<1>6. QED
  BY <1>3, <1>4, <1>5

LEMMA BarStep ==
  ASSUME bar = Bars!NoBar \/ BarOK(bar), Bars!Next
  PROVE  (bar = Bars!NoBar \/ BarOK(bar))'
<1>1. Bars!IsOpen => BarOK(bar)
  BY DEF Bars!IsOpen, Bars!NoBar
<1>2. BarOK(bar) => Drafted(bar)
  BY DEF BarOK
<1>3. CASE Bars!OpenCommandLine
  <2>1. Bars!Refreshed(Bars!Bar("command")) /\ Drafted(Bars!Bar("command"))
    BY <1>3, NewBarDrafted DEF Bars!OpenCommandLine, Kinds
  <2>2. QED
    BY <2>1, RefreshedOK
<1>4. CASE Bars!OpenOmnibar
  <2>1. PICK page \in Prefills :
          Bars!Refreshed([Bars!Bar("omnibar") EXCEPT !.text = page, !.cursor = Len(page)])
    BY <1>4 DEF Bars!OpenOmnibar
  <2>2. Drafted([Bars!Bar("omnibar") EXCEPT !.text = page, !.cursor = Len(page)])
    BY NewBarDrafted DEF Kinds
  <2>3. QED
    BY <2>1, <2>2, RefreshedOK
<1>5. CASE Bars!OpenFind
  <2>1. Bars!Refreshed(Bars!Bar("find")) /\ Drafted(Bars!Bar("find"))
    BY <1>5, NewBarDrafted DEF Bars!OpenFind, Kinds
  <2>2. QED
    BY <2>1, RefreshedOK
<1>6. CASE Bars!Edit
  <2>1. Drafted(bar)
    BY <1>1, <1>2, <1>6 DEF Bars!Edit
  <2>2. PICK b \in Bars!Edits(bar) : Bars!Refreshed(b)
    BY <1>6 DEF Bars!Edit
  <2>3. Drafted(b)
    BY <2>1, EditsDrafted
  <2>4. QED
    BY <2>2, <2>3, RefreshedOK
<1>7. CASE Bars!Paste
  <2>1. Drafted(bar)
    BY <1>1, <1>2, <1>7 DEF Bars!Paste
  <2>2. PICK clip \in Clips : Bars!Refreshed(Bars!Pasted(bar, clip))
    BY <1>7 DEF Bars!Paste
  <2>3. Drafted(Bars!Pasted(bar, clip))
    BY <2>1, PastedDrafted
  <2>4. QED
    BY <2>2, <2>3, RefreshedOK
<1>8. CASE Bars!Select
  BY <1>1, <1>8, SelectFine DEF Bars!Select
<1>9. CASE Bars!MoveCursor
  BY <1>1, <1>9, MoveCursorFine DEF Bars!MoveCursor
<1>10. CASE Bars!Escape
  BY <1>10 DEF Bars!Escape, Bars!Closed
<1>11. CASE Bars!Confirm
  BY <1>11 DEF Bars!Confirm
<1>12. CASE \E t \in Tabs : Bars!ClickTab(t) \/ Bars!ShowTab(t)
  <2>1. bar' = Bars!NoBar \/ UNCHANGED bar
    BY <1>12 DEF Bars!ClickTab, Bars!ShowTab, Bars!Closed
  <2>2. QED
    BY <2>1 DEF BarOK, Drafted
<1>13. CASE Bars!LiveFind \/ Bars!PumpFindResults
  <2>1. UNCHANGED bar
    BY <1>13 DEF Bars!LiveFind, Bars!PumpFindResults
  <2>2. QED
    BY <2>1
<1>14. QED
  BY <1>3, <1>4, <1>5, <1>6, <1>7, <1>8, <1>9, <1>10, <1>11, <1>12, <1>13 DEF Bars!Next

LEMMA BarHolds == PartsSpec => []BarInv
<1>1. PartsInit => BarInv
  BY DEF PartsInit, BarInv, Bars!Init
<1>2. BarInv /\ [OfKeys(Next) \/ OfBars(Bars!Next)]_allVars => BarInv'
  <2>1. SUFFICES ASSUME BarInv, [OfKeys(Next) \/ OfBars(Bars!Next)]_allVars PROVE BarInv'
    OBVIOUS
  <2>2. CASE OfKeys(Next)
    BY <2>2 DEF OfKeys, BarInv
  <2>3. CASE OfBars(Bars!Next)
    <3>1. part = "bars" /\ Bars!Next
      BY <2>3 DEF OfBars
    <3>2. bar = Bars!NoBar \/ BarOK(bar)
      BY <2>1, <3>1 DEF BarInv
    <3>3. QED
      BY <3>1, <3>2, BarStep DEF BarInv
  <2>4. CASE UNCHANGED allVars
    BY <2>1, <2>4 DEF allVars, barVars, BarInv
  <2>5. QED
    BY <2>1, <2>2, <2>3, <2>4
<1>3. QED
  BY <1>1, <1>2, PTL DEF PartsSpec

\* Whatever is typed, pasted, deleted or moved over in a bar, its cursor lies
\* between two characters, and its list is that of its text, each row once
\* (input_bar.rs, omnibar_suggestions); for any texts, stores, commands and
\* lengths of the list.
THEOREM BarsAreSound == PartsSpec => []BarIsSound
<1>1. ASSUME BarInv PROVE BarIsSound
  <2>1. SUFFICES ASSUME part = "bars", Bars!IsOpen PROVE Bars!BarIsSound
    BY DEF BarIsSound, Bars!BarIsSound
  <2>2. BarOK(bar)
    BY <1>1, <2>1 DEF BarInv, Bars!IsOpen, Bars!NoBar
  <2>3. /\ bar.kind \in Kinds /\ Sound(bar.text, bar.cursor)
        /\ bar.rows \in Bars!RowsFor(bar) /\ bar.selected \in 0 .. Len(bar.rows)
    BY <2>2 DEF BarOK, Drafted
  <2>4. /\ Bars!Whole(bar.text) /\ Len(bar.text) \in Nat /\ bar.cursor \in 0 .. Len(bar.text)
        /\ Bars!Boundary(bar.text, bar.cursor)
    BY <2>3, SoundIs
  <2>5. bar.cursor <= Len(bar.text)
    BY <2>4
  <2>6. Len(bar.text) > 0 => bar.text[1] # "C"
    BY <2>4, WholeIs
  <2>7. Listing(bar.rows) /\ Len(bar.rows) \in Nat
    BY <2>3, RowsAreListings
  <2>8. bar.selected <= Len(bar.rows)
    BY <2>3, <2>7
  <2>9. \A i, j \in 1 .. Len(bar.rows) :
          bar.rows[i].value = bar.rows[j].value
            => i = j \/ "search" \in {bar.rows[i].kind, bar.rows[j].kind}
    BY <2>7 DEF Listing
  <2>10. QED
    BY <2>3, <2>4, <2>5, <2>6, <2>8, <2>9 DEF Bars!BarIsSound, Bars!Listed
<1>2. QED
  BY <1>1, BarHolds, PTL

\* A search begins and ends with the find bar or with the command of that
\* name: no other bar touches the search of a tab (close_overlay).
THEOREM SearchesAreTheUsers == PartsSpec => Bars!SearchIsTheUsers
<1>1. BarInv /\ [OfKeys(Next) \/ OfBars(Bars!Next)]_allVars
        => [search' # search => bar.kind = "find" \/ (bar.kind = "command" /\ bar' = Bars!NoBar)]_(Bars!vars)
  <2>1. SUFFICES ASSUME BarInv, [OfKeys(Next) \/ OfBars(Bars!Next)]_allVars, search' # search
                 PROVE  bar.kind = "find" \/ (bar.kind = "command" /\ bar' = Bars!NoBar)
    OBVIOUS
  <2>2. part = "bars" /\ Bars!Next
    BY <2>1 DEF OfKeys, OfBars, allVars, barVars
  <2>3. CASE Bars!OpenCommandLine \/ Bars!OpenOmnibar \/ Bars!OpenFind
    BY <2>1, <2>3 DEF Bars!OpenCommandLine, Bars!OpenOmnibar, Bars!OpenFind, Bars!NoSearchChange
  <2>4. CASE Bars!Edit \/ Bars!Paste \/ Bars!Select \/ Bars!MoveCursor
    BY <2>1, <2>4 DEF Bars!Edit, Bars!Paste, Bars!Select, Bars!MoveCursor, Bars!NoSearchChange
  <2>5. CASE Bars!Escape \/ \E t \in Tabs : Bars!ClickTab(t) \/ Bars!ShowTab(t)
    BY <2>1, <2>5 DEF Bars!Escape, Bars!ClickTab, Bars!ShowTab, Bars!Closed
  <2>6. CASE Bars!LiveFind \/ Bars!PumpFindResults
    BY <2>1, <2>6 DEF Bars!LiveFind, Bars!PumpFindResults
  <2>7. CASE Bars!Confirm
    <3>1. bar.kind \in Kinds /\ bar' = Bars!NoBar
      BY <2>1, <2>2, <2>7 DEF BarInv, BarOK, Drafted, Bars!Confirm, Bars!IsOpen, Bars!NoBar
    <3>2. bar.kind # "omnibar"
      BY <2>1, <2>7 DEF Bars!Confirm
    <3>3. QED
      BY <3>1, <3>2 DEF Kinds
  <2>8. QED
    BY <2>2, <2>3, <2>4, <2>5, <2>6, <2>7 DEF Bars!Next
<1>2. QED
  BY <1>1, BarHolds, PTL DEF PartsSpec, Bars!SearchIsTheUsers
=============================================================================
