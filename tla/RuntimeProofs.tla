---------------------------- MODULE RuntimeProofs ---------------------------
(***************************************************************************)
(* Theorems about the invariants that MCRuntime checks: of the hang        *)
(* watchdog (Watchdog), for every timing that the assumptions on its       *)
(* constants allow; and of the painting of the window (Painting), for any  *)
(* sizes, any length of the history and any number of nudges and of        *)
(* happenings from outside.                                                *)
(***************************************************************************)
EXTENDS MCRuntime, Sequences, TLAPS

-----------------------------------------------------------------------------
(* The heartbeat and the watchdog.                                         *)

\* The longest sleep of the heartbeat thread.
Period == Interval + Jitter

TypeOK ==
  /\ child \in {"running", "killed", "exited"}
  /\ phase \in {"connect", "watch", "grace"}
  /\ thread \in {"none", "pinging", "stalled", "dead"}
  /\ marked \in BOOLEAN /\ handle \in BOOLEAN /\ inflight \in BOOLEAN
  /\ left \in Nat /\ wake \in 0..Period /\ skipped \in 0..Skips
  /\ age \in 0..Forever /\ silent \in 0..Forever /\ worst \in 0..Forever

\* What the supervisor waits for is what the heartbeat thread does.
PhaseInv ==
  /\ child = "killed" => left = 0
  /\ phase = "connect" <=> thread = "none"
  /\ phase = "grace" <=> thread = "dead"
  /\ phase = "connect" => ~handle /\ ~marked /\ skipped = 0
  /\ phase = "watch" => handle
  /\ inflight => thread = "pinging" /\ wake > 0
  /\ thread = "stalled" => marked
  /\ silent <= worst

\* The stamp is as old as the silence while the handle is held, and the
\* deadline is never further away than what is left of the two timeouts.
FrozenInv ==
  /\ marked /\ handle => age = silent
  /\ phase = "watch" => left <= Liveness + Timeout
  /\ phase = "watch" /\ marked => age + left <= Liveness + Timeout
  /\ inflight /\ marked => age <= Liveness

\* The time that the lost pings and the next one may take.
Lost == (skipped + 1) * Period

\* As long as no stall was long enough, the pings lost so far account for
\* the time since the deadline moved.
QuietInv ==
  phase = "watch" /\ worst <= Liveness =>
    left + Lost >= Timeout + (IF inflight THEN 0 ELSE wake)

\* Without lost pings: a thread that pings is one sleep behind the deadline; a
\* thread that withholds has seen a stall that began before the deadline was
\* last moved, up to one sleep, and goes on unless the UI thread turned over
\* since the last time it looked.
NoSkipInv ==
  phase = "watch" /\ skipped = 0 =>
    CASE thread = "stalled" ->
           /\ worst + left + 2 * Period > Liveness + Timeout + wake
           /\ age + left + Period > Liveness + Timeout \/ age + wake <= Period
      [] inflight ->
           left + Period >= Timeout \/ worst + left + 2 * Period > Liveness + Timeout
      [] OTHER ->
           left + Period >= Timeout + wake

IInv == TypeOK /\ PhaseInv /\ FrozenInv /\ QuietInv /\ NoSkipInv

-----------------------------------------------------------------------------
\* The assumptions on the constants without the product, ...
LEMMA Timing ==
  /\ Interval \in Nat \ {0} /\ Period \in Nat \ {0} /\ Interval <= Period
  /\ Liveness \in Nat /\ Timeout \in Nat /\ PostGrace \in Nat /\ PostGrace <= Liveness
  /\ ConnectGrace \in Nat /\ ExitGrace \in Nat /\ Skips \in Nat /\ Forever \in Nat
  /\ Liveness < Timeout /\ Forever > Liveness + Timeout
<1>1. Liveness \in Nat /\ Timeout \in Nat /\ Liveness < Timeout
  BY OrderAssumption
<1>2. QED
  BY <1>1, IntervalAssumption, GraceAssumption, ForeverAssumption DEF Period

\* ... and all that is needed of the product.
LEMMA SkipsFit ==
  /\ Period < Liveness
  /\ \A k \in 0..Skips : (k + 1) * Period \in Nat /\ (k + 1) * Period < Liveness
  /\ \A k \in Nat : (k + 2) * Period = (k + 1) * Period + Period
<1> USE Timing
<1>1. \A k \in Nat : (k + 1) * Period \in Nat /\ (k + 2) * Period = (k + 1) * Period + Period
  OBVIOUS
<1>2. \A k \in 0..Skips : (k + 1) * Period <= (Skips + 1) * Period
  OBVIOUS
<1>3. (Skips + 1) * Period < Liveness
  BY OrderAssumption DEF Period
<1>4. Period <= (Skips + 1) * Period /\ (Skips + 1) * Period \in Nat
  OBVIOUS
<1>5. Period < Liveness
  BY <1>3, <1>4
<1>6. \A k \in 0..Skips : (k + 1) * Period < Liveness
  BY <1>1, <1>2, <1>3, <1>4
<1>7. QED
  BY <1>1, <1>5, <1>6

\* Every variable of the watchdog keeps its type, the silence counters theirs.
THEOREM TypeCorrect == Init /\ [][Next]_vars => []TypeOK
<1>1. Init => TypeOK
  <2>1. Init => marked \in BOOLEAN /\ handle \in BOOLEAN /\ inflight \in BOOLEAN
    BY DEF Init
  <2>2. Init => /\ child \in {"running", "killed", "exited"}
                /\ phase \in {"connect", "watch", "grace"}
                /\ thread \in {"none", "pinging", "stalled", "dead"}
    BY DEF Init
  <2>3. Init => /\ left \in Nat /\ wake \in 0..Period /\ skipped \in 0..Skips
                /\ age \in 0..Forever /\ silent \in 0..Forever /\ worst \in 0..Forever
    BY Timing DEF Init
  <2>4. QED
    BY <2>1, <2>2, <2>3 DEF TypeOK
<1>2. TypeOK /\ [Next]_vars => TypeOK'
  <2> SUFFICES ASSUME TypeOK, [Next]_vars PROVE TypeOK'
    OBVIOUS
  <2> USE Timing DEF TypeOK, Running
  <2>1. ASSUME wake' \in Interval..(Interval + Jitter) PROVE wake' \in 0..Period
    BY <2>1, IntervalAssumption DEF Period
  <2>2. CASE Connect
    BY <2>1, <2>2 DEF Connect
  <2>3. CASE TickHeartbeat
    <3>1. handle' \in BOOLEAN /\ marked' \in BOOLEAN
      BY <2>3 DEF TickHeartbeat, KeepsHandle
    <3>2. age' \in 0..Forever /\ silent' \in 0..Forever
      BY <2>3 DEF TickHeartbeat
    <3>3. QED
      BY <2>3, <3>1, <3>2 DEF TickHeartbeat
  <2>4. CASE Ping
    BY <2>1, <2>4 DEF Ping, Sleep
  <2>5. CASE Withhold
    BY <2>1, <2>5 DEF Withhold, Sleep
  <2>6. CASE Skip
    BY <2>1, <2>6 DEF Skip, Sleep
  <2>7. CASE WriteFails \/ Exit \/ Kill
    BY <2>7 DEF WriteFails, Exit, Kill
  <2>8. CASE TakePing
    BY <2>8 DEF TakePing, Renewed
  <2>9. CASE Tick
    BY <2>9 DEF Tick, Later, Sooner
  <2>10. CASE UNCHANGED vars
    BY <2>10 DEF vars
  <2>11. QED
    BY <2>2, <2>3, <2>4, <2>5, <2>6, <2>7, <2>8, <2>9, <2>10 DEF Next
<1>3. QED
  BY <1>1, <1>2, PTL DEF Spec

-----------------------------------------------------------------------------
\* Nothing that any of the threads does disturbs the four parts.
LEMMA InvStep ==
  ASSUME TypeOK, TypeOK', IInv, [Next]_vars
  PROVE  PhaseInv' /\ FrozenInv' /\ QuietInv' /\ NoSkipInv'
<1>0. PhaseInv /\ FrozenInv /\ QuietInv /\ NoSkipInv /\ Period < Liveness /\ Lost \in Nat
  BY SkipsFit DEF IInv, TypeOK, Lost
<1> USE Timing, <1>0
<1>1. CASE Connect
  <2>1. skipped' = 0 /\ Lost' = Period
    BY <1>1 DEF Connect, PhaseInv, TypeOK, Lost
  <2>2. wake' \in 1..Period
    BY <1>1, IntervalAssumption DEF Connect, Period, TypeOK
  <2>3. QED
    BY <1>1, <2>1, <2>2 DEF Connect, Running, PhaseInv, FrozenInv, QuietInv, NoSkipInv, TypeOK, Lost
<1>2. CASE TickHeartbeat
  BY <1>2 DEF TickHeartbeat, KeepsHandle, PhaseInv, FrozenInv, QuietInv, NoSkipInv, TypeOK, Lost
<1>3. CASE Ping \/ Skip
  <2>1. /\ phase = "watch" /\ wake = 0 /\ ~inflight /\ thread' = "pinging" /\ wake' \in 1..Period
        /\ UNCHANGED <<child, phase, left, marked, age, silent, worst, handle>>
        /\ child = "running" /\ (marked => age <= Liveness)
    BY <1>3 DEF Ping, Skip, Sleep, Stale, Running, PhaseInv, TypeOK
  <2>2. CASE Ping
    <3>1. inflight' = TRUE /\ skipped' = skipped
      BY <2>2 DEF Ping
    <3>2. PhaseInv' /\ FrozenInv'
      BY <2>1, <3>1 DEF PhaseInv, FrozenInv, TypeOK
    <3>3. QuietInv'
      BY <2>1, <3>1 DEF QuietInv, TypeOK, Lost
    <3>4. NoSkipInv'
      BY <2>1, <3>1 DEF NoSkipInv, TypeOK
    <3>5. QED
      BY <3>2, <3>3, <3>4
  <2>3. CASE Skip
    <3>1. inflight' = FALSE /\ skipped' = skipped + 1 /\ skipped \in Nat
      BY <2>1, <2>3 DEF Skip, TypeOK
    <3>2. PhaseInv' /\ FrozenInv'
      BY <2>1, <3>1 DEF PhaseInv, FrozenInv, TypeOK
    <3>3. QuietInv'
      <4>1. Lost' = Lost + Period
        BY <3>1, SkipsFit DEF Lost
      <4>2. Lost \in Nat /\ Lost' \in Nat
        BY <4>1
      <4>3. SUFFICES ASSUME worst <= Liveness PROVE left + Lost' >= Timeout + wake'
        BY <2>1, <3>1 DEF QuietInv
      <4>4. left + Lost >= Timeout
        BY <2>1, <4>3 DEF QuietInv
      <4>5. left \in Nat /\ wake' \in Nat /\ wake' <= Period
        BY <2>1 DEF TypeOK
      <4>6. \A a, b, w \in Nat : a + b >= Timeout /\ w <= Period => a + (b + Period) >= Timeout + w
        OBVIOUS
      <4>7. QED
        BY <4>1, <4>2, <4>4, <4>5, <4>6
    <3>4. NoSkipInv'
      BY <3>1 DEF NoSkipInv
    <3>5. QED
      BY <3>2, <3>3, <3>4
  <2>4. QED
    BY <1>3, <2>2, <2>3
<1>4. CASE Withhold
  <2>1. /\ phase = "watch" /\ wake = 0 /\ ~inflight /\ thread' = "stalled" /\ wake' \in 1..Period
        /\ UNCHANGED <<child, phase, left, marked, age, silent, worst, handle, skipped, inflight>>
        /\ child = "running"
        /\ marked /\ age > Liveness /\ age = silent
    BY <1>4 DEF Withhold, Sleep, Stale, Running, PhaseInv, FrozenInv, TypeOK
  <2>2. PhaseInv' /\ FrozenInv'
    BY <2>1 DEF PhaseInv, FrozenInv, TypeOK
  <2>3. QuietInv'
    BY <2>1 DEF QuietInv, PhaseInv, TypeOK, Lost
  <2>4. NoSkipInv'
    BY <2>1 DEF NoSkipInv, PhaseInv, TypeOK
  <2>5. QED
    BY <2>2, <2>3, <2>4
<1>5. CASE WriteFails
  BY <1>5 DEF WriteFails, Running, PhaseInv, FrozenInv, QuietInv, NoSkipInv, TypeOK, Lost
<1>6. CASE TakePing
  BY <1>6 DEF TakePing, Renewed, Running, PhaseInv, FrozenInv, QuietInv, NoSkipInv, TypeOK, Lost
<1>7. CASE Tick
  BY <1>7 DEF Tick, Later, Sooner, PhaseInv, FrozenInv, QuietInv, NoSkipInv, TypeOK, Lost
<1>8. CASE Exit \/ Kill
  BY <1>8 DEF Exit, Kill, PhaseInv, FrozenInv, QuietInv, NoSkipInv, TypeOK, Lost
<1>9. CASE UNCHANGED vars
  BY <1>9 DEF vars, PhaseInv, FrozenInv, QuietInv, NoSkipInv, TypeOK, Lost
<1>10. QED
  BY <1>1, <1>2, <1>3, <1>4, <1>5, <1>6, <1>7, <1>8, <1>9 DEF Next

\* The deadline is tied to what the heartbeat thread can have sent, whatever is
\* late or lost (heartbeat_loop, the deadlines of the supervisor).
THEOREM IInvHolds == Init /\ [][Next]_vars => []IInv
<1>1. Init => PhaseInv /\ FrozenInv /\ QuietInv /\ NoSkipInv
  BY DEF Init, PhaseInv, FrozenInv, QuietInv, NoSkipInv
<1>2. TypeOK /\ TypeOK' /\ IInv /\ [Next]_vars => PhaseInv' /\ FrozenInv' /\ QuietInv' /\ NoSkipInv'
  BY InvStep
<1>3. QED
  BY <1>1, <1>2, TypeCorrect, PTL DEF IInv

-----------------------------------------------------------------------------
\* The invariant says that a kill is deserved and is not late.
LEMMA HangsOnly == IInv => HangsAreKilled
<1>1. IInv => FrozenIsKilled
  BY Timing DEF IInv, TypeOK, FrozenInv, FrozenIsKilled
<1>2. IInv => OnlyLongStallsKill
  <2> SUFFICES ASSUME IInv, Hung
               PROVE  worst > Liveness /\ (skipped = 0 => worst + 2 * Period > Liveness + Timeout)
    BY DEF OnlyLongStallsKill, Period
  <2>1. left = 0 /\ phase = "watch" /\ Period \in Nat /\ Liveness \in Nat /\ Timeout \in Nat
    BY Timing DEF Hung, IInv, PhaseInv
  <2>2. Lost \in Nat /\ Lost < Timeout /\ Period < Timeout
    BY <2>1, SkipsFit, Timing DEF IInv, TypeOK, Lost
  <2>3. worst > Liveness
    BY <2>1, <2>2 DEF IInv, TypeOK, QuietInv
  <2>4. skipped = 0 => worst + 2 * Period > Liveness + Timeout
    BY <2>1, <2>2 DEF IInv, TypeOK, NoSkipInv
  <2>5. QED
    BY <2>3, <2>4
<1>3. QED
  BY <1>1, <1>2 DEF HangsAreKilled

-----------------------------------------------------------------------------
(* The window and what it shows.                                           *)

Size == Sizes \cup {None}

Window ==
  [occluded : BOOLEAN, policy : {"active", "sleeping"}, history : Seq(BOOLEAN),
   probeAt : BOOLEAN, hidden : BOOLEAN, owed : BOOLEAN, redraw : BOOLEAN]

\* The fields of the renderer that the configure depends on.
Surface == [size : Sizes, pending : BOOLEAN, inFlight : BOOLEAN, last : Paints!Levels]

FlagsOK ==
  /\ shown \in BOOLEAN /\ says \in BOOLEAN /\ told \in BOOLEAN
  /\ resized \in BOOLEAN /\ sleepAt \in BOOLEAN /\ probing \in BOOLEAN /\ dirty \in BOOLEAN
  /\ retry \in BOOLEAN /\ drifted \in BOOLEAN /\ anim \in BOOLEAN /\ debounce \in BOOLEAN
  /\ clash \in BOOLEAN

RecordsOK ==
  /\ size \in Sizes /\ view \in Sizes /\ rendering \in Size /\ screen \in Size
  /\ win \in Window
  /\ watchdog \in [for : Size, nudges : Nat]
  /\ page \in [dims : Size, len : Size, stale : BOOLEAN, onGpu : BOOLEAN]
  /\ frame \in [dims : Sizes, len : Size, unseen : BOOLEAN, needsFresh : BOOLEAN]
  /\ rend \in Surface /\ worker \in {None, "seen", "hid"} /\ newest \in {"scratch", "frame"}

PaintTypeOK == FlagsOK /\ RecordsOK

\* The worker has a frame only while the renderer counts one in flight.
WorkerInv == ~clash /\ (worker # None => rend.inFlight)

\* The younger pixels are in the shared frame as long as they are unseen.
PixelInv == Paints!PixelsFit /\ (frame.unseen => newest = "frame")

\* The policy follows occlusion, and an active window is not hidden.
Sound(w) ==
  /\ w.policy = IF w.occluded THEN "sleeping" ELSE "active"
  /\ w.policy = "active" => ~w.hidden

\* A window that the compositor did not send to sleep has its probe ahead.
SleepInv ==
  /\ Sound(win)
  /\ ~told => says
  /\ sleepAt => ~told
  /\ win.policy = "sleeping" /\ told => win.probeAt \/ (probing /\ win.redraw)

\* Chrome or a size that is not painted yet keeps a paint under way.
ChromeInv ==
  /\ dirty /\ win.policy = "active" => win.redraw \/ resized \/ retry
  /\ screen # size => dirty \/ resized

\* A view that is not the window's size keeps a resize under way, a frame of
\* another view keeps a new one under way, ...
ViewInv ==
  /\ view # size => resized \/ debounce
  /\ drifted => resized
  /\ rendering \in {None, view} \/ frame.needsFresh
  /\ rendering \in {None, view} \/ win.owed \/ watchdog.for # None

\* ... and so does a page that was not painted at that size.
PageInv ==
  /\ \/ win.owed \/ rendering # None \/ watchdog.for # None
     \/ Paints!Fresh \/ page.dims = view
  /\ Paints!Fresh /\ win.policy = "active" => win.redraw
  /\ anim /\ page.dims = size /\ win.policy = "active" => win.redraw \/ resized \/ debounce

PaintInv ==
  /\ SizesAssumption
  /\ PaintTypeOK /\ WorkerInv /\ PixelInv /\ SleepInv /\ ChromeInv /\ ViewInv /\ PageInv
-----------------------------------------------------------------------------
(* The records of the sleep policy and of the renderer.                    *)

LEMMA RecomputedFacts ==
  ASSUME NEW w \in Window, w.policy = "active" => ~w.hidden
  PROVE  LET r == Paints!Recomputed(w) IN
         /\ r \in Window /\ Sound(r)
         /\ r.occluded = w.occluded /\ r.probeAt = w.probeAt /\ r.history = w.history
         /\ w.redraw => r.redraw
         /\ w.owed => r.owed
         /\ w.policy = "sleeping" /\ r.policy = "active" => r.redraw
BY DEF Paints!Recomputed, Window, Sound

LEMMA RecordedType ==
  ASSUME NEW h \in Seq(BOOLEAN), NEW us
  PROVE  Paints!Recorded(h, us) \in Seq(BOOLEAN)
<1>1. Append(h, us \in {"slow", "stuck"}) \in Seq(BOOLEAN)
  BY DEF Paints!Recorded
<1>2. Len(h) >= 0 /\ Append(h, us \in {"slow", "stuck"}) # <<>>
  OBVIOUS
<1>3. Tail(Append(h, us \in {"slow", "stuck"})) \in Seq(BOOLEAN)
  BY <1>1, <1>2
<1>4. QED
  BY <1>1, <1>3 DEF Paints!Recorded

LEMMA RevealedFacts ==
  ASSUME NEW w \in Window
  PROVE  LET r == Paints!Revealed(w) IN
         /\ r \in Window /\ ~r.occluded
         /\ r.policy = w.policy /\ r.hidden = w.hidden /\ r.redraw = w.redraw /\ r.owed = w.owed
<1>1. <<>> \in Seq(BOOLEAN)
  OBVIOUS
<1>2. QED
  BY <1>1 DEF Paints!Revealed, Window

\* A present that is observed puts the window to sleep only with a probe ahead,
\* and wakes it with a paint ahead.
LEMMA ObservedFacts ==
  ASSUME NEW w \in Window, Sound(w), NEW us
  PROVE  LET r == Paints!Observed(w, us) IN
         /\ r \in Window /\ Sound(r)
         /\ w.redraw => r.redraw
         /\ w.owed => r.owed
         /\ r.policy = "sleeping" => r.probeAt
         /\ w.policy = "sleeping" /\ r.policy = "active" => r.redraw
<1> DEFINE history == Paints!Recorded(w.history, us)
           asleep == [w EXCEPT !.history = history, !.probeAt = TRUE, !.hidden = TRUE]
           hides == [w EXCEPT !.history = history, !.occluded = TRUE, !.probeAt = TRUE]
           stays == [w EXCEPT !.history = history]
<1>1. history \in Seq(BOOLEAN)
  BY RecordedType DEF Window
<1>2. CASE w.policy = "sleeping" /\ us = "fast"
  <2>1. Paints!Observed(w, us) = Paints!Recomputed(Paints!Revealed(w))
    BY <1>2 DEF Paints!Observed
  <2>2. Paints!Recomputed(Paints!Revealed(w)).policy = "active"
    BY RevealedFacts, RecomputedFacts, <1>2 DEF Sound
  <2>3. QED
    BY <2>1, <2>2, RevealedFacts, RecomputedFacts, <1>2 DEF Sound
<1>3. CASE w.policy = "sleeping" /\ us # "fast"
  <2>1. Paints!Observed(w, us) = asleep
    BY <1>3 DEF Paints!Observed
  <2> HIDE DEF history
  <2>2. QED
    BY <1>1, <1>3, <2>1 DEF Sound, Window
<1>4. CASE w.policy # "sleeping" /\ ~w.occluded /\ (us = "stuck" \/ Paints!SlowOnTheWhole(history))
  <2>1. Paints!Observed(w, us) = Paints!Recomputed(hides)
    BY <1>4 DEF Paints!Observed
  <2> HIDE DEF history
  <2>2. hides \in Window /\ hides.policy = w.policy /\ hides.hidden = w.hidden
        /\ hides.probeAt /\ hides.redraw = w.redraw /\ hides.owed = w.owed
    BY <1>1 DEF Window
  <2> HIDE DEF hides
  <2>3. QED
    BY <1>4, <2>1, <2>2, RecomputedFacts DEF Sound
<1>5. CASE w.policy # "sleeping" /\ ~(~w.occluded /\ (us = "stuck" \/ Paints!SlowOnTheWhole(history)))
  <2>1. Paints!Observed(w, us) = stays
    BY <1>5 DEF Paints!Observed
  <2> HIDE DEF history
  <2>2. QED
    BY <1>1, <1>5, <2>1 DEF Sound, Window
<1>6. QED
  BY <1>2, <1>3, <1>4, <1>5

\* What the worker reports is about a frame that it holds.
LEMMA ReportFacts ==
  ASSUME SizesAssumption, NEW job \in {None, "seen", "hid"}, NEW report \in Paints!Reports(job),
         report # None
  PROVE  job # None /\ report.submit \in Paints!Levels
BY DEF Paints!Reports, Paints!Levels, SizesAssumption

LEMMA SurfaceFacts ==
  ASSUME NEW r \in Surface, NEW to \in Sizes
  PROVE  /\ Paints!Sized(r, to) \in Surface /\ Paints!Sized(r, to).inFlight = r.inFlight
         /\ Paints!Readied(r) \in Surface /\ Paints!Readied(r).inFlight = r.inFlight
         /\ r.inFlight => Paints!Readied(r).pending = r.pending
BY DEF Paints!Sized, Paints!Readied, Surface

LEMMA DrainedFacts ==
  ASSUME SizesAssumption, NEW job \in {None, "seen", "hid"}, NEW report \in Paints!Reports(job),
         NEW r \in Surface
  PROVE  /\ Paints!Drained(r, report) \in Surface
         /\ report = None => Paints!Drained(r, report) = r
BY ReportFacts DEF Paints!Drained, Surface

-----------------------------------------------------------------------------
(* One paint.  before, isDirty, drift and more are what the handler makes  *)
(* of the state; asks is the debounce that it leaves.                      *)

Handled(before, isDirty, drift, more, asks) ==
  /\ before \in Window /\ Sound(before)
  /\ before.policy = win.policy /\ before.probeAt = win.probeAt /\ before.owed = win.owed
  /\ isDirty \in BOOLEAN /\ drift \in BOOLEAN /\ more \in BOOLEAN /\ asks \in BOOLEAN
  /\ dirty => isDirty
  /\ screen # size => isDirty \/ more
  /\ view # size => more \/ asks
  /\ drift => more \/ asks
  /\ ~drift \/ ~isDirty => more = resized
  /\ ~drift \/ ~isDirty => asks = debounce

\* win, the renderer and the worker's frame once the early report is taken.
Polled(before, early, w, r, job) ==
  /\ w \in Window /\ Sound(w)
  /\ before.owed => w.owed
  /\ w.policy = "sleeping" => w.probeAt \/ (early = None /\ w = before)
  /\ r \in Surface
  /\ job \in {None, "seen", "hid"} /\ (job # None => r.inFlight)

LEMMA PollFacts ==
  ASSUME PaintInv, NEW before \in Window, Sound(before), NEW early \in Paints!Reports(worker)
  PROVE  Polled(before, early,
                IF early = None THEN before ELSE Paints!Observed(before, early.present),
                Paints!Drained(rend, early), IF early = None THEN worker ELSE None)
<1>1. SizesAssumption /\ rend \in Surface /\ worker \in {None, "seen", "hid"}
  BY DEF PaintInv, PaintTypeOK, RecordsOK
<1>2. CASE early = None
  BY <1>1, <1>2, DrainedFacts DEF Polled, PaintInv, WorkerInv
<1>3. CASE early # None
  BY <1>1, <1>3, DrainedFacts, ObservedFacts DEF Polled
<1>4. QED
  BY <1>2, <1>3

LEMMA NothingPainted ==
  ASSUME PaintInv, NEW before, NEW isDirty, NEW drift, NEW more,
         Handled(before, isDirty, drift, more, debounce'), NEW early, NEW w, NEW r, NEW job,
         Polled(before, early, w, r, job),
         Paints!PaintNothing(w, r, job, isDirty, drift), probing' = FALSE,
         UNCHANGED <<shown, says, told, sleepAt, view, rendering>>
  PROVE  PaintInv'
<1> USE DEF Handled, Polled, Paints!PaintNothing
<1>1. PaintTypeOK'
  <2>1. FlagsOK'
    BY DEF PaintInv, PaintTypeOK, FlagsOK
  <2>2. RecordsOK'
    BY DEF PaintInv, PaintTypeOK, RecordsOK
  <2>3. QED
    BY <2>1, <2>2 DEF PaintTypeOK
<1>2. WorkerInv' /\ PixelInv'
  BY DEF PaintInv, WorkerInv, PixelInv, Paints!PixelsFit
<1>3. SleepInv' /\ ChromeInv'
  BY DEF PaintInv, SleepInv, ChromeInv
<1>4. ViewInv' /\ PageInv'
  BY DEF PaintInv, ViewInv, PageInv, Paints!Fresh, Sound
<1>5. QED
  BY <1>1, <1>2, <1>3, <1>4 DEF PaintInv, SizesAssumption

LEMMA IdlePainted ==
  ASSUME PaintInv, NEW before, NEW isDirty, NEW drift, NEW more,
         Handled(before, isDirty, drift, more, debounce'), NEW early, NEW w, NEW r, NEW job,
         Polled(before, early, w, r, job),
         Paints!PaintIdle(w, r, job, isDirty, drift, size), probing' = FALSE,
         UNCHANGED <<shown, says, told, sleepAt, view, rendering>>
  PROVE  PaintInv'
<1> USE DEF Handled, Polled, Paints!PaintIdle
<1>1. /\ win' \in Window /\ Sound(win') /\ (win.owed => win'.owed) /\ win'.policy = w.policy
      /\ win'.policy = "sleeping" /\ told => win'.probeAt
  BY DEF Paints!Spent, Window, Sound, PaintInv, SleepInv
<1>2. ~drift
  BY DEF Paints!WantsAnim
<1>3. rend' \in Surface /\ rend'.inFlight = r.inFlight
  BY SurfaceFacts DEF PaintInv, PaintTypeOK, RecordsOK
<1>4. PaintTypeOK'
  <2>1. FlagsOK'
    BY DEF PaintInv, PaintTypeOK, FlagsOK
  <2>2. RecordsOK'
    BY <1>1, <1>3 DEF PaintInv, PaintTypeOK, RecordsOK
  <2>3. QED
    BY <2>1, <2>2 DEF PaintTypeOK
<1>5. WorkerInv'
  BY <1>3 DEF PaintInv, WorkerInv, Paints!Configures
<1>6. PixelInv'
  BY DEF PaintInv, PixelInv, Paints!PixelsFit
<1>7. SleepInv' /\ ChromeInv'
  BY <1>1, <1>2 DEF PaintInv, SleepInv, ChromeInv
<1>8. ViewInv' /\ PageInv'
  BY <1>1, <1>2 DEF PaintInv, ViewInv, PageInv, Paints!Fresh
<1>9. QED
  BY <1>4, <1>5, <1>6, <1>7, <1>8 DEF PaintInv, SizesAssumption

LEMMA FramePainted ==
  ASSUME PaintInv, NEW before, NEW isDirty, NEW drift, NEW more,
         Handled(before, isDirty, drift, more, debounce'), NEW early, NEW w, NEW r, NEW job,
         Polled(before, early, w, r, job),
         NEW late \in Paints!Reports(job), NEW got \in BOOLEAN, NEW live \in Sizes,
         Paints!PaintFrame(w, r, job, isDirty, drift, size, more, late, got, live), probing' = FALSE,
         UNCHANGED <<shown, says, told, sleepAt, view, rendering>>
  PROVE  PaintInv'
<1> DEFINE wants == Paints!WantsAnim(Paints!Fresh, drift, size)
           dims == IF Paints!Fresh THEN frame.dims ELSE page.dims
           holding == job # None /\ late = None
           drained == Paints!Drained(Paints!Sized(r, size), late)
           ready == Paints!Readied(drained)
           submitted == Paints!Submits(ready, got)
           forced == Paints!ForcesChrome(isDirty, wants)
           seen == IF submitted THEN Paints!Observed(w, ready.last) ELSE w
           drawn == [seen EXCEPT !.redraw = @ \/ live # size]
<1> USE DEF Handled, Polled
<1>1. SizesAssumption /\ PaintTypeOK /\ WorkerInv /\ PixelInv /\ SleepInv /\ ChromeInv /\ ViewInv /\ PageInv
  BY DEF PaintInv
<1>2. /\ drained \in Surface /\ ready \in Surface /\ ready.inFlight = drained.inFlight
      /\ drained.inFlight => ready.pending = drained.pending
      /\ holding => drained.inFlight
      /\ r.inFlight => ~Paints!Configures(r, size)
  BY <1>1, SurfaceFacts, DrainedFacts DEF PaintTypeOK, RecordsOK, Paints!Configures
<1>3. submitted \in BOOLEAN /\ forced \in BOOLEAN /\ wants \in BOOLEAN /\ Paints!Fresh \in BOOLEAN
      /\ (submitted => ~ready.inFlight)
  BY <1>2 DEF Paints!Submits, Paints!ForcesChrome, Paints!WantsAnim, Paints!Fresh, Surface
<1> HIDE DEF ready, drained, submitted, forced
<1>4. /\ seen \in Window /\ Sound(seen) /\ (w.owed => seen.owed)
      /\ seen.policy = "sleeping" /\ submitted => seen.probeAt
      /\ ~submitted => seen = w
  BY <1>3, ObservedFacts
<1> HIDE DEF seen
<1>5. drawn \in Window /\ Sound(drawn) /\ drawn.policy = seen.policy
      /\ drawn.probeAt = seen.probeAt /\ (drawn.redraw <=> seen.redraw \/ live # size)
      /\ drawn.owed = seen.owed
  BY <1>4 DEF Window, Sound
<1> HIDE DEF drawn
<1>6. win' = Paints!Spent(drawn, submitted)
  BY DEF Paints!PaintFrame, drawn, seen, submitted, ready, drained
<1>7. /\ win' \in Window /\ Sound(win') /\ (win.owed => win'.owed) /\ win'.policy = seen.policy
      /\ win'.redraw = drawn.redraw
      /\ win'.policy = "sleeping" /\ told => win'.probeAt
  BY <1>1, <1>3, <1>4, <1>5, <1>6 DEF Paints!Spent, Window, Sound, SleepInv
\* The state after, in terms of the names above.
<1>8. /\ dirty' = (isDirty /\ ~(submitted /\ forced)) /\ retry' = ~submitted
      /\ (isDirty \/ wants \/ anim => forced)
      /\ screen' = IF submitted THEN size ELSE screen
      /\ size' = live /\ resized' = (more \/ live # size) /\ drifted' = (live # size)
      /\ anim' = wants /\ watchdog' = Paints!Watched(Paints!Fresh)
  BY DEF Paints!PaintFrame, Paints!Committed, Paints!Drifts, Paints!ForcesChrome, forced, submitted,
     ready, drained
<1>9. /\ page' \in [dims : Size, len : Size, stale : BOOLEAN, onGpu : BOOLEAN]
      /\ page'.dims = dims /\ page'.len = (IF Paints!Fresh THEN frame.len ELSE page.len)
  <2>1. page' = Paints!PageAfter(Paints!Fresh, Paints!ShowsPage(wants, dims), dims, submitted)
    BY DEF Paints!PaintFrame, submitted, ready, drained
  <2>2. dims \in Size /\ (IF Paints!Fresh THEN frame.len ELSE page.len) \in Size
    BY <1>1 DEF PaintTypeOK, RecordsOK, Size
  <2>3. page.stale \in BOOLEAN /\ page.onGpu \in BOOLEAN
    BY <1>1 DEF PaintTypeOK, RecordsOK
  <2> HIDE DEF dims, wants
  <2>4. QED
    BY <1>3, <2>1, <2>2, <2>3 DEF Paints!PageAfter
<1>10. /\ frame' \in [dims : Sizes, len : Size, unseen : BOOLEAN, needsFresh : BOOLEAN]
       /\ ~Paints!Fresh' /\ frame'.dims = frame.dims /\ frame'.needsFresh = frame.needsFresh
       /\ IF Paints!Fresh THEN ~frame'.unseen ELSE frame' = frame
       /\ newest' = IF Paints!Fresh THEN (IF newest = "frame" THEN "scratch" ELSE "frame") ELSE newest
  BY <1>1 DEF Paints!PaintFrame, Paints!Swap, Paints!Fresh, PaintTypeOK, RecordsOK
<1>11. /\ rend' \in Surface /\ worker' \in {None, "seen", "hid"}
       /\ rend'.inFlight = (ready.inFlight \/ submitted)
       /\ worker' # None => submitted \/ holding
  BY <1>1, <1>2, <1>3 DEF Paints!PaintFrame, Paints!JobAfter, Surface, ready, drained, submitted
<1>12. watchdog' \in [for : Size, nudges : Nat]
       /\ (watchdog' # watchdog => watchdog'.for = None /\ Paints!Fresh)
  BY <1>1, <1>8 DEF Paints!Watched, Size, PaintTypeOK, RecordsOK
<1>13. clash' = (\/ clash
                 \/ job # None /\ Paints!Configures(r, size)
                 \/ holding /\ (drained.pending # ready.pending \/ submitted))
  BY DEF Paints!PaintFrame, ready, drained, submitted
<1> HIDE DEF wants, dims, holding
<1>14. PaintTypeOK'
  <2>1. FlagsOK'
    BY <1>1, <1>3, <1>8, <1>13 DEF PaintTypeOK, FlagsOK
  <2>2. RecordsOK'
    BY <1>1, <1>7, <1>8, <1>9, <1>10, <1>11, <1>12 DEF PaintTypeOK, RecordsOK, Size
  <2>3. QED
    BY <2>1, <2>2 DEF PaintTypeOK
<1>15. WorkerInv'
  BY <1>1, <1>2, <1>3, <1>11, <1>13 DEF WorkerInv, holding
<1>16. PixelInv'
  BY <1>1, <1>9, <1>10 DEF PixelInv, Paints!PixelsFit, Paints!Fresh, dims
<1>17. SleepInv'
  BY <1>1, <1>7 DEF SleepInv
<1>18. ChromeInv'
  BY <1>1, <1>3, <1>8 DEF ChromeInv
<1>19. ViewInv'
  BY <1>1, <1>3, <1>7, <1>8, <1>10, <1>12 DEF ViewInv, Paints!Fresh
<1>20. PageInv'
  BY <1>1, <1>3, <1>5, <1>7, <1>8, <1>9, <1>10, <1>12 DEF PageInv, Paints!Fresh, dims, wants,
     Paints!WantsAnim
<1>21. QED
  BY <1>1, <1>14, <1>15, <1>16, <1>17, <1>18, <1>19, <1>20 DEF PaintInv, SizesAssumption

LEMMA PaintKeeps ==
  ASSUME PaintInv, NEW before, NEW isDirty, NEW drift, NEW more,
         Handled(before, isDirty, drift, more, debounce'),
         Paints!Paint(before, isDirty, drift, size, more)
  PROVE  PaintInv'
<1>1. PICK early \in Paints!Reports(worker) :
        LET w == IF early = None THEN before ELSE Paints!Observed(before, early.present)
            r == Paints!Drained(rend, early)
            job == IF early = None THEN worker ELSE None
        IN  \/ Paints!PaintNothing(w, r, job, isDirty, drift)
            \/ Paints!PaintIdle(w, r, job, isDirty, drift, size)
            \/ \E late \in Paints!Reports(job), got \in BOOLEAN, live \in Sizes :
                 Paints!PaintFrame(w, r, job, isDirty, drift, size, more, late, got, live)
  BY DEF Paints!Paint
<1> DEFINE w == IF early = None THEN before ELSE Paints!Observed(before, early.present)
           r == Paints!Drained(rend, early)
           job == IF early = None THEN worker ELSE None
<1>2. Polled(before, early, w, r, job)
  BY PollFacts DEF Handled
<1>3. probing' = FALSE /\ UNCHANGED <<shown, says, told, sleepAt, view, rendering>>
  BY DEF Paints!Paint
<1> HIDE DEF w, r, job
<1>4. CASE Paints!PaintNothing(w, r, job, isDirty, drift)
  BY <1>2, <1>3, <1>4, NothingPainted
<1>5. CASE Paints!PaintIdle(w, r, job, isDirty, drift, size)
  BY <1>2, <1>3, <1>5, IdlePainted
<1>6. CASE \E late \in Paints!Reports(job), got \in BOOLEAN, live \in Sizes :
             Paints!PaintFrame(w, r, job, isDirty, drift, size, more, late, got, live)
  BY <1>2, <1>3, <1>6, FramePainted
<1>7. QED
  BY <1>1, <1>4, <1>5, <1>6 DEF w, r, job

-----------------------------------------------------------------------------
(* The inductive invariant.                                                *)

LEMMA InvInit == Paints!Init => PaintInv
<1> SUFFICES ASSUME SizesAssumption, Paints!Init PROVE PaintInv
  BY SizesAssumption
<1>1. size \in Sizes
  BY DEF Paints!Init, SizesAssumption
<1>2. FlagsOK
  BY DEF Paints!Init, FlagsOK
<1>3. RecordsOK
  <2>1. <<>> \in Seq(BOOLEAN)
    OBVIOUS
  <2>2. win \in Window
    BY <2>1 DEF Paints!Init, Window
  <2>3. QED
    BY <1>1, <2>2 DEF Paints!Init, RecordsOK, Size, Surface, Paints!Levels
<1>4. WorkerInv /\ PixelInv /\ SleepInv /\ ChromeInv
  BY DEF Paints!Init, WorkerInv, PixelInv, Paints!PixelsFit, SleepInv, ChromeInv, Sound
<1>5. ViewInv /\ PageInv
  BY DEF Paints!Init, ViewInv, PageInv, Paints!Fresh
<1>6. QED
  BY <1>2, <1>3, <1>4, <1>5 DEF PaintInv, PaintTypeOK

LEMMA RedrawKeeps == PaintInv /\ Paints!Redraw => PaintInv'
<1> SUFFICES ASSUME PaintInv, Paints!Redraw PROVE PaintInv'
  OBVIOUS
<1> DEFINE before == [win EXCEPT !.redraw = FALSE]
<1>1. before \in Window /\ Sound(before) /\ before.policy = win.policy
      /\ before.probeAt = win.probeAt /\ before.owed = win.owed
  BY DEF PaintInv, PaintTypeOK, RecordsOK, SleepInv, Window, Sound
<1> HIDE DEF before
<1>2. Handled(before, dirty, drifted, resized, debounce')
  BY <1>1 DEF Handled, Paints!Redraw, PaintInv, PaintTypeOK, FlagsOK, ViewInv, ChromeInv
<1>3. QED
  BY <1>2, PaintKeeps DEF Paints!Redraw, before

LEMMA ResizedKeeps == PaintInv /\ Paints!Resized => PaintInv'
<1> SUFFICES ASSUME PaintInv, Paints!Resized PROVE PaintInv'
  OBVIOUS
<1>1. Handled(win, TRUE, TRUE, FALSE, debounce')
  BY DEF Handled, Paints!Resized, PaintInv, PaintTypeOK, RecordsOK, SleepInv, Sound
<1>2. QED
  BY <1>1, PaintKeeps DEF Paints!Resized

\* The steps that neither paint nor change the window's record but by asking for
\* a paint, or by making the engine owe one.
LEMMA AskedWindow ==
  ASSUME PaintInv,
         \/ win' = win
         \/ win' = [win EXCEPT !.redraw = TRUE]
         \/ win' = [win EXCEPT !.owed = TRUE]
         \/ win' = [win EXCEPT !.owed = FALSE]
         \/ win' = [win EXCEPT !.redraw = TRUE, !.hidden = FALSE, !.owed = TRUE]
  PROVE  /\ win' \in Window /\ Sound(win') /\ (win.redraw => win'.redraw)
         /\ win'.policy = win.policy /\ win'.probeAt = win.probeAt
<1>1. win \in Window /\ Sound(win)
  BY DEF PaintInv, PaintTypeOK, RecordsOK, SleepInv
<1>2. ASSUME NEW w \in Window, Sound(w), NEW b \in BOOLEAN
      PROVE  LET asks == [w EXCEPT !.redraw = TRUE]
                 owes == [w EXCEPT !.owed = b]
                 both == [w EXCEPT !.redraw = TRUE, !.hidden = FALSE, !.owed = TRUE]
             IN  \A r \in {asks, owes, both} :
                   /\ r \in Window /\ Sound(r) /\ (w.redraw => r.redraw)
                   /\ r.policy = w.policy /\ r.probeAt = w.probeAt
  BY <1>2 DEF Window, Sound
<1>3. QED
  BY <1>1, <1>2

LEMMA EventKeeps ==
  ASSUME PaintInv,
         \/ Paints!ChromeChanges \/ Paints!SwitchTab \/ Paints!Render \/ Paints!OnPaint
         \/ Paints!PageChanges \/ Paints!Swallow
                 \/ Paints!ShowOrHide \/ Paints!Resize
  PROVE  PaintInv'
<1> USE DEF Paints!outside, Paints!appVars, Paints!engineVars, Paints!rendVars
<1>1. SizesAssumption /\ PaintTypeOK /\ WorkerInv /\ PixelInv /\ SleepInv /\ ChromeInv /\ ViewInv /\ PageInv
  BY DEF PaintInv
<1>2. SizesAssumption'
  BY <1>1 DEF SizesAssumption
<1>3. CASE Paints!ChromeChanges
  <2>1. win' = [win EXCEPT !.redraw = TRUE]
    BY <1>3 DEF Paints!ChromeChanges
  <2>2. win' \in Window /\ Sound(win') /\ win'.redraw /\ win'.owed = win.owed
        /\ win'.policy = win.policy /\ win'.probeAt = win.probeAt
    BY <1>1, <2>1, AskedWindow DEF Window, PaintTypeOK, RecordsOK
  <2>3. PaintTypeOK'
    BY <1>1, <1>3, <2>2 DEF Paints!ChromeChanges, PaintTypeOK, FlagsOK, RecordsOK
  <2>4. QED
    BY <1>1, <1>2, <1>3, <2>2, <2>3
       DEF Paints!ChromeChanges, PaintInv, WorkerInv, PixelInv, Paints!PixelsFit, SleepInv,
           ChromeInv, ViewInv, PageInv, Paints!Fresh
<1>4. CASE Paints!SwitchTab
  <2>1. win' = [win EXCEPT !.redraw = TRUE, !.hidden = FALSE, !.owed = TRUE]
    BY <1>4 DEF Paints!SwitchTab
  <2>2. win' \in Window /\ Sound(win') /\ win'.redraw /\ win'.owed
        /\ win'.policy = win.policy /\ win'.probeAt = win.probeAt
    BY <1>1, <2>1, AskedWindow DEF Window, PaintTypeOK, RecordsOK
  <2>3. /\ page' \in [dims : Size, len : Size, stale : BOOLEAN, onGpu : BOOLEAN] /\ page'.dims = None
        /\ frame' \in [dims : Sizes, len : Size, unseen : BOOLEAN, needsFresh : BOOLEAN]
        /\ ~frame'.unseen /\ frame'.needsFresh = frame.needsFresh
    BY <1>1, <1>4 DEF Paints!SwitchTab, PaintTypeOK, RecordsOK, Size
  <2>4. PaintTypeOK'
    BY <1>1, <1>4, <2>2, <2>3 DEF Paints!SwitchTab, PaintTypeOK, FlagsOK, RecordsOK
  <2>5. QED
    BY <1>1, <1>2, <1>4, <2>2, <2>3, <2>4
       DEF Paints!SwitchTab, PaintInv, WorkerInv, PixelInv, Paints!PixelsFit, SleepInv, ChromeInv,
           ViewInv, PageInv, Paints!Fresh
<1>5. CASE Paints!Render \/ Paints!PageChanges \/ Paints!Swallow
  <2>1. /\ win' \in Window /\ Sound(win') /\ win'.redraw = win.redraw
        /\ win'.policy = win.policy /\ win'.probeAt = win.probeAt
        /\ (win.owed /\ ~Paints!PageChanges) \/ win'.owed
    BY <1>1, <1>5, AskedWindow DEF Paints!Render, Paints!PageChanges, Paints!Swallow, Window,
       PaintTypeOK, RecordsOK
  <2>2. view # None /\ Size = Sizes \cup {None}
    BY <1>1 DEF SizesAssumption, PaintTypeOK, RecordsOK, Size
  <2>3. PaintTypeOK'
    BY <1>1, <1>5, <2>1, <2>2 DEF Paints!Render, Paints!PageChanges, Paints!Swallow, PaintTypeOK,
       FlagsOK, RecordsOK
  <2>4. ViewInv' /\ PageInv'
    BY <1>1, <1>5, <2>1, <2>2 DEF Paints!Render, Paints!PageChanges, Paints!Swallow, ViewInv,
       PageInv, Paints!Fresh
  <2>5. QED
    BY <1>1, <1>2, <1>5, <2>1, <2>3, <2>4
       DEF Paints!Render, Paints!PageChanges, Paints!Swallow, PaintInv, WorkerInv, PixelInv,
           Paints!PixelsFit, SleepInv, ChromeInv
<1>6. CASE Paints!OnPaint
  <2>1. win' = [win EXCEPT !.redraw = TRUE]
    BY <1>6 DEF Paints!OnPaint
  <2>2. win' \in Window /\ Sound(win') /\ win'.redraw /\ win'.owed = win.owed
        /\ win'.policy = win.policy /\ win'.probeAt = win.probeAt
    BY <1>1, <2>1, AskedWindow DEF Window, PaintTypeOK, RecordsOK
  <2>3. PaintTypeOK'
    BY <1>1, <1>6, <2>2 DEF Paints!OnPaint, PaintTypeOK, FlagsOK, RecordsOK, Size
  <2>4. ViewInv' /\ PageInv'
    BY <1>1, <1>6, <2>2 DEF Paints!OnPaint, ViewInv, PageInv, Paints!Fresh
  <2>5. QED
    BY <1>1, <1>2, <1>6, <2>2, <2>3, <2>4
       DEF Paints!OnPaint, PaintInv, WorkerInv, PixelInv, Paints!PixelsFit, SleepInv, ChromeInv
<1>7. CASE Paints!ShowOrHide \/ Paints!Resize
  <2>1. PaintTypeOK'
    <3>1. FlagsOK'
      <4>1. /\ shown' = shown \/ shown' = ~shown
            /\ resized' = resized \/ resized' = TRUE
            /\ UNCHANGED <<says, told, sleepAt, probing, dirty, retry, drifted, anim, debounce, clash>>
        BY <1>7 DEF Paints!ShowOrHide, Paints!Resize
      <4>2. FlagsOK
        BY <1>1 DEF PaintTypeOK
      <4>3. shown' \in BOOLEAN
        BY <4>1, <4>2 DEF FlagsOK
      <4>4. resized' \in BOOLEAN
        BY <4>1, <4>2 DEF FlagsOK
      <4>5. QED
        BY <4>1, <4>2, <4>3, <4>4 DEF FlagsOK
    <3>2. RecordsOK'
      BY <1>1, <1>7 DEF Paints!ShowOrHide, Paints!Resize, PaintTypeOK, RecordsOK
    <3>3. QED
      BY <3>1, <3>2 DEF PaintTypeOK
  <2>2. WorkerInv'
    BY <1>1, <1>7 DEF Paints!ShowOrHide, Paints!Resize, WorkerInv, SizesAssumption
  <2>3. QED
    BY <1>1, <1>2, <1>7, <2>1, <2>2
       DEF Paints!ShowOrHide, Paints!Resize, PaintInv, PixelInv, Paints!PixelsFit, SleepInv,
           ChromeInv, ViewInv, PageInv, Paints!Fresh
<1>8. QED
  BY <1>3, <1>4, <1>5, <1>6, <1>7

LEMMA WakeKeeps ==
  ASSUME PaintInv, Paints!Focused \/ Paints!Occluded
  PROVE  PaintInv'
<1> USE DEF Paints!outside, Paints!appVars, Paints!engineVars, Paints!rendVars
<1>1. SizesAssumption /\ PaintTypeOK /\ WorkerInv /\ PixelInv /\ SleepInv /\ ChromeInv /\ ViewInv /\ PageInv
  BY DEF PaintInv
<1>2. win \in Window /\ Paints!Revealed(win) \in Window
  BY <1>1, RevealedFacts DEF PaintTypeOK, RecordsOK
<1>3. Paints!Recomputed(Paints!Revealed(win)).policy = "active"
  BY <1>1, <1>2, RevealedFacts, RecomputedFacts DEF SleepInv, Sound
<1>4. /\ win' \in Window /\ Sound(win') /\ (win.owed => win'.owed) /\ (win.redraw => win'.redraw)
      /\ win'.policy = "active" => win'.redraw \/ win.policy = "active"
      /\ IF Paints!Focused THEN win'.policy = "active" \/ win' = win
         ELSE IF shown THEN win'.policy = "active" ELSE win'.probeAt = win.probeAt
  <2>1. CASE Paints!Focused
    <3> DEFINE woken == IF win.occluded THEN Paints!Recomputed(Paints!Revealed(win)) ELSE win
    <3>1. woken \in Window /\ Sound(woken) /\ (win.owed => woken.owed) /\ woken.policy = "active"
      BY <1>1, <1>2, <1>3, RevealedFacts, RecomputedFacts DEF SleepInv, Sound
    <3>2. win' = [woken EXCEPT !.redraw = TRUE]
      BY <2>1 DEF Paints!Focused
    <3> HIDE DEF woken
    <3>3. QED
      BY <2>1, <3>1, <3>2 DEF Window, Sound
  <2>2. CASE Paints!Occluded /\ ~Paints!Focused /\ shown
    <3> DEFINE woken == Paints!Recomputed(Paints!Revealed(win))
    <3>1. woken \in Window /\ Sound(woken) /\ (win.owed => woken.owed) /\ woken.policy = "active"
      BY <1>1, <1>2, <1>3, RevealedFacts, RecomputedFacts DEF SleepInv, Sound
    <3>2. win' = [woken EXCEPT !.redraw = TRUE]
      BY <2>2 DEF Paints!Occluded
    <3> HIDE DEF woken
    <3>3. QED
      BY <2>2, <3>1, <3>2 DEF Window, Sound
  <2>3. CASE Paints!Occluded /\ ~Paints!Focused /\ ~shown
    <3>1. win' = Paints!Recomputed(win)
      BY <2>3 DEF Paints!Occluded
    <3>2. QED
      BY <1>1, <1>2, <2>3, <3>1, RecomputedFacts DEF SleepInv, Sound
  <2>4. QED
    BY <2>1, <2>2, <2>3
<1>5. PaintTypeOK'
  <2>1. FlagsOK'
    <3>1. /\ told' = told \/ told' = shown
          /\ sleepAt' = sleepAt \/ sleepAt' = TRUE \/ sleepAt' = FALSE
          /\ UNCHANGED <<shown, says, resized, probing, dirty, retry, drifted, anim, debounce, clash>>
      BY DEF Paints!Focused, Paints!Occluded
    <3>2. FlagsOK
      BY <1>1 DEF PaintTypeOK
    <3>3. told' \in BOOLEAN
      BY <3>1, <3>2 DEF FlagsOK
    <3>4. sleepAt' \in BOOLEAN
      BY <3>1, <3>2 DEF FlagsOK
    <3>5. QED
      BY <3>1, <3>2, <3>3, <3>4 DEF FlagsOK
  <2>2. RecordsOK'
    BY <1>1, <1>4 DEF Paints!Focused, Paints!Occluded, PaintTypeOK, RecordsOK
  <2>3. QED
    BY <2>1, <2>2 DEF PaintTypeOK
<1>6. SleepInv'
  BY <1>1, <1>4 DEF Paints!Focused, Paints!Occluded, SleepInv, PaintTypeOK, FlagsOK
<1>7. WorkerInv' /\ PixelInv'
  BY <1>1 DEF Paints!Focused, Paints!Occluded, WorkerInv, PixelInv, Paints!PixelsFit
<1>8. ChromeInv' /\ ViewInv' /\ PageInv'
  BY <1>1, <1>4 DEF Paints!Focused, Paints!Occluded, ChromeInv, ViewInv, PageInv, Paints!Fresh
<1>9. QED
  BY <1>1, <1>5, <1>6, <1>7, <1>8 DEF PaintInv, SizesAssumption

LEMMA DeadlineKeeps ==
  ASSUME PaintInv, NEW t \in Paints!Deadlines, Paints!AboutToWait(t)
  PROVE  PaintInv'
<1> USE DEF Paints!outside, Paints!rendVars
<1>1. SizesAssumption /\ PaintTypeOK /\ WorkerInv /\ PixelInv /\ SleepInv /\ ChromeInv /\ ViewInv /\ PageInv
  BY DEF PaintInv
<1>2. /\ UNCHANGED <<Paints!outside, dirty, drifted, anim, middle, page, rendering, newest, Paints!rendVars>>
      /\ sleepAt' = sleepAt \/ sleepAt' = FALSE
      /\ probing' = probing \/ probing' = TRUE
      /\ retry' = retry \/ retry' = FALSE
      /\ debounce' = debounce \/ debounce' = FALSE
  BY DEF Paints!AboutToWait
<1>3. FlagsOK'
  <2>1. UNCHANGED <<shown, says, told, resized, dirty, drifted, anim, clash>>
    BY <1>2
  <2>2. FlagsOK
    BY <1>1 DEF PaintTypeOK
  <2>3. sleepAt' \in BOOLEAN
    BY <1>2, <2>2 DEF FlagsOK
  <2>4. probing' \in BOOLEAN
    BY <1>2, <2>2 DEF FlagsOK
  <2>5. retry' \in BOOLEAN /\ debounce' \in BOOLEAN
    BY <1>2, <2>2 DEF FlagsOK
  <2>6. QED
    BY <2>1, <2>2, <2>3, <2>4, <2>5 DEF FlagsOK
<1>4. CASE t = "sleep"
  <2> DEFINE hides == [win EXCEPT !.occluded = TRUE]
  <2>1. hides \in Window /\ hides.policy = win.policy /\ hides.hidden = win.hidden
        /\ hides.redraw = win.redraw /\ hides.owed = win.owed /\ hides.occluded
    BY <1>1 DEF PaintTypeOK, RecordsOK, Window
  <2> HIDE DEF hides
  <2>2. /\ win' = Paints!Recomputed(hides) /\ sleepAt /\ sleepAt' = FALSE
        /\ UNCHANGED <<probing, retry, debounce, watchdog, view, frame>>
    BY <1>4 DEF Paints!AboutToWait, hides
  <2>3. /\ win' \in Window /\ Sound(win') /\ win'.policy = "sleeping"
        /\ (win.owed => win'.owed) /\ (win.redraw => win'.redraw)
    BY <1>1, <2>1, <2>2, RecomputedFacts DEF SleepInv, Sound
  <2>4. RecordsOK'
    BY <1>1, <1>2, <2>2, <2>3 DEF PaintTypeOK, RecordsOK
  <2>5. QED
    BY <1>1, <1>2, <1>3, <2>2, <2>3, <2>4
       DEF PaintInv, SizesAssumption, PaintTypeOK, WorkerInv, PixelInv, Paints!PixelsFit, SleepInv,
           ChromeInv, ViewInv,
           PageInv, Paints!Fresh
<1>5. CASE t = "probe"
  <2>1. /\ win' = [win EXCEPT !.probeAt = FALSE, !.hidden = FALSE, !.owed = TRUE, !.redraw = TRUE]
        /\ probing' = TRUE /\ win.policy = "sleeping"
        /\ UNCHANGED <<sleepAt, retry, debounce, watchdog, view, frame>>
    BY <1>5 DEF Paints!AboutToWait
  <2>2. win' \in Window /\ Sound(win') /\ win'.redraw /\ win'.owed /\ win'.policy = win.policy
    BY <1>1, <2>1 DEF PaintTypeOK, RecordsOK, SleepInv, Window, Sound
  <2>3. RecordsOK'
    BY <1>1, <1>2, <2>1, <2>2 DEF PaintTypeOK, RecordsOK
  <2>4. QED
    BY <1>1, <1>2, <1>3, <2>1, <2>2, <2>3
       DEF PaintInv, SizesAssumption, PaintTypeOK, WorkerInv, PixelInv, Paints!PixelsFit, SleepInv,
           ChromeInv, ViewInv,
           PageInv, Paints!Fresh
<1>6. CASE t \in {"anim", "retry"}
  <2>1. /\ win' = [win EXCEPT !.redraw = TRUE]
        /\ UNCHANGED <<sleepAt, probing, debounce, watchdog, view, frame>>
    BY <1>6 DEF Paints!AboutToWait
  <2>2. win' \in Window /\ Sound(win') /\ win'.redraw /\ win'.owed = win.owed
        /\ win'.policy = win.policy /\ win'.probeAt = win.probeAt
    BY <1>1, <2>1, AskedWindow DEF Window, PaintTypeOK, RecordsOK
  <2>3. RecordsOK'
    BY <1>1, <1>2, <2>1, <2>2 DEF PaintTypeOK, RecordsOK
  <2>4. QED
    BY <1>1, <1>2, <1>3, <2>1, <2>2, <2>3
       DEF PaintInv, SizesAssumption, PaintTypeOK, WorkerInv, PixelInv, Paints!PixelsFit, SleepInv,
           ChromeInv, ViewInv,
           PageInv, Paints!Fresh
<1>7. CASE t = "resize"
  <2>1. /\ win' = [win EXCEPT !.owed = TRUE, !.redraw = TRUE]
        /\ view' = size /\ frame' = [frame EXCEPT !.needsFresh = TRUE]
        /\ watchdog' = [for |-> size, nudges |-> 0]
        /\ UNCHANGED <<sleepAt, probing, retry>>
    BY <1>7 DEF Paints!AboutToWait
  <2>2. win' \in Window /\ Sound(win') /\ win'.redraw /\ win'.owed
        /\ win'.policy = win.policy /\ win'.probeAt = win.probeAt
    BY <1>1, <2>1 DEF Window, PaintTypeOK, RecordsOK, SleepInv, Sound
  <2>3. /\ frame' \in [dims : Sizes, len : Size, unseen : BOOLEAN, needsFresh : BOOLEAN]
        /\ frame'.needsFresh /\ frame'.unseen = frame.unseen
        /\ watchdog' \in [for : Size, nudges : Nat] /\ watchdog'.for = size
    BY <1>1, <2>1 DEF PaintTypeOK, RecordsOK, Size
  <2>4. RecordsOK'
    BY <1>1, <1>2, <2>1, <2>2, <2>3 DEF PaintTypeOK, RecordsOK
  <2>5. QED
    BY <1>1, <1>2, <1>3, <2>1, <2>2, <2>3, <2>4
       DEF PaintInv, SizesAssumption, PaintTypeOK, WorkerInv, PixelInv, Paints!PixelsFit, SleepInv,
           ChromeInv, ViewInv,
           PageInv, Paints!Fresh
<1>8. CASE t = "watchdog"
  <2>1. /\ win' = [win EXCEPT !.redraw = TRUE, !.hidden = FALSE, !.owed = TRUE]
        /\ watchdog' = Paints!Nudged
        /\ UNCHANGED <<sleepAt, probing, retry, debounce, view, frame>>
    BY <1>8 DEF Paints!AboutToWait
  <2>2. win' \in Window /\ Sound(win') /\ win'.redraw /\ win'.owed
        /\ win'.policy = win.policy /\ win'.probeAt = win.probeAt
    BY <1>1, <2>1, AskedWindow DEF Window, PaintTypeOK, RecordsOK
  <2>3. watchdog' \in [for : Size, nudges : Nat]
    BY <1>1, <2>1 DEF Paints!Nudged, PaintTypeOK, RecordsOK, Size
  <2>4. RecordsOK'
    BY <1>1, <1>2, <2>1, <2>2, <2>3 DEF PaintTypeOK, RecordsOK
  <2>5. QED
    BY <1>1, <1>2, <1>3, <2>1, <2>2, <2>4
       DEF PaintInv, SizesAssumption, PaintTypeOK, WorkerInv, PixelInv, Paints!PixelsFit, SleepInv,
           ChromeInv, ViewInv,
           PageInv, Paints!Fresh
<1>9. QED
  BY <1>4, <1>5, <1>6, <1>7, <1>8 DEF Paints!Deadlines

\* Nothing that the event loop, the worker or the engine does disturbs it.
THEOREM PaintInvHolds == Paints!Spec => []PaintInv
<1>1. PaintInv /\ UNCHANGED Paints!vars => PaintInv'
  <2> SUFFICES ASSUME PaintInv, UNCHANGED Paints!vars PROVE PaintInv'
    OBVIOUS
  <2> USE DEF Paints!vars, Paints!outside, Paints!appVars, Paints!engineVars, Paints!rendVars
  <2>1. FlagsOK'
    BY DEF PaintInv, PaintTypeOK, FlagsOK
  <2>2. RecordsOK'
    BY DEF PaintInv, PaintTypeOK, RecordsOK
  <2>3. QED
    BY <2>1, <2>2 DEF PaintInv, PaintTypeOK, SizesAssumption, WorkerInv, PixelInv, Paints!PixelsFit,
       SleepInv, ChromeInv,
                      ViewInv, PageInv, Paints!Fresh
<1>2. PaintInv /\ Paints!Next => PaintInv'
  BY RedrawKeeps, ResizedKeeps, EventKeeps, WakeKeeps, DeadlineKeeps DEF Paints!Next
<1>3. QED
  BY <1>1, <1>2, InvInit, PTL DEF Paints!Spec

-----------------------------------------------------------------------------
(* The parts together, as MCRuntime runs them.                             *)

\* Each part of a behaviour of the run is a behaviour of its own specification.
LEMMA PartsApart == PartsSpec => Init /\ [][Next]_vars /\ Paints!Spec
<1> DEFINE Step == OfWatchdog(Next) \/ OfPainting(Paints!Next) \/ OfLaunches(Launches!Next)
<1>1. PartsInit => Init /\ Paints!Init
  BY DEF PartsInit
<1>2. [Step]_allVars => [Next]_vars /\ [Paints!Next]_(Paints!vars)
  <2> SUFFICES ASSUME [Step]_allVars PROVE [Next]_vars /\ [Paints!Next]_(Paints!vars)
    OBVIOUS
  <2>1. UNCHANGED paintVars => UNCHANGED Paints!vars
    BY DEF paintVars, Paints!vars, Paints!outside, Paints!appVars, Paints!engineVars,
       Paints!rendVars
  <2>2. UNCHANGED allVars => UNCHANGED <<vars, paintVars>>
    BY DEF allVars
  <2>3. QED
    BY <2>1, <2>2 DEF OfWatchdog, OfPainting, OfLaunches
<1>3. PartsSpec => PartsInit /\ [][Step]_allVars
  BY PTL DEF PartsSpec
<1>4. QED
  BY <1>1, <1>2, <1>3, PTL DEF Paints!Spec

\* A browser is killed as hung only if its UI thread was silent for longer
\* than the liveness timeout, and for about both timeouts if no ping was lost;
\* a UI thread that froze after its first stamp does not outlive them.
THEOREM OnlyAndAllHangsAreKilled == PartsSpec => []HangsAreKilled
<1>1. QED
  BY PartsApart, IInvHolds, HangsOnly, PTL

\* The surface is configured and asked for a texture only while the render worker
\* holds none, the page's buffer has the size it is painted with, and no older
\* pixels are painted after younger ones (Renderer, paint_chrome_inner).
THEOREM FramesAlwaysFit == PartsSpec => []FramesFit
<1>1. PaintInv => FramesFit
  BY DEF FramesFit, PaintInv, WorkerInv, PixelInv, Paints!FramesFit, Paints!SurfaceIsFree
<1>2. QED
  BY <1>1, PartsApart, PaintInvHolds, PTL

\* A window that can be seen never comes to rest asleep, with chrome, a size or
\* the page's first frame still to paint: not after a probe that reached no GPU, a
\* skipped frame, or a resize while it slept (paint_chrome_with, about_to_wait).
THEOREM NothingIsEverForgotten == PartsSpec => []NothingIsForgotten
<1>1. PaintInv => NothingIsForgotten
  <2> SUFFICES ASSUME PaintInv, Paints!AtRest, shown
               PROVE  win.policy = "active" /\ ~win.hidden /\ ~dirty /\ ~anim /\ screen = size
    BY DEF NothingIsForgotten, Paints!NothingIsForgotten
  <2>1. ~win.redraw /\ ~resized /\ told /\ ~win.probeAt /\ ~debounce /\ ~retry /\ rendering = None
    BY DEF Paints!AtRest, PaintInv, SleepInv, PaintTypeOK, FlagsOK
  <2>2. win.policy = "active" /\ ~win.hidden
    BY <2>1 DEF PaintInv, SleepInv, Sound
  <2>3. ~dirty /\ screen = size
    BY <2>1, <2>2 DEF PaintInv, ChromeInv
  <2>4. ~win.owed /\ watchdog.for = None /\ view = size
    BY <2>1, <2>2 DEF Paints!AtRest, PaintInv, ViewInv
  <2>5. page.dims = size /\ ~anim
    BY <2>1, <2>2, <2>4 DEF PaintInv, PageInv
  <2>6. QED
    BY <2>2, <2>3, <2>5
<1>2. QED
  BY <1>1, PartsApart, PaintInvHolds, PTL
=============================================================================
