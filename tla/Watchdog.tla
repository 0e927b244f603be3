------------------------------ MODULE Watchdog ------------------------------
(***************************************************************************)
(* The hang watchdog in time: the UI thread of buffr-app stamps an atomic, *)
(* the heartbeat thread of buffr-app looks at the stamp before every ping  *)
(* (heartbeat.rs), the supervisor kills a child whose pings stay away      *)
(* (supervisor.rs).                                                        *)
(*                                                                         *)
(* Time is discrete.  Instants are kept as the distance to now: counters   *)
(* that grow up to Forever and timers that fall to 0.  A tick cannot pass  *)
(* over a thread that is due, except that every sleep of the heartbeat     *)
(* thread may be Jitter ticks longer than asked for.  Queues, polling and  *)
(* the other threads of the supervisor are in Supervisor.tla.              *)
(*                                                                         *)
(* A definition named X_mistake is X as a plausible bug would have it.     *)
(***************************************************************************)
EXTENDS Naturals

CONSTANTS
  Interval,      \* HEARTBEAT_INTERVAL
  Jitter,        \* bound: how late a sleep of the heartbeat thread may end
  Liveness,      \* UI_LIVENESS_TIMEOUT
  Timeout,       \* --heartbeat-timeout
  ConnectGrace,  \* DEFAULT_CONNECT_GRACE
  PostGrace,     \* POST_CONNECT_GRACE
  ExitGrace,     \* DISCONNECT_EXIT_GRACE
  Skips,         \* bound: pings lost to transient write errors
  Forever        \* bound: where the silence counters saturate

ASSUME IntervalAssumption == Interval \in Nat \ {0} /\ Jitter \in Nat /\ Skips \in Nat
\* The order the comment on UI_LIVENESS_TIMEOUT asks for, and room in both for
\* the pings that go missing without any stall.
ASSUME OrderAssumption ==
  /\ Liveness \in Nat /\ Timeout \in Nat
  /\ (Skips + 1) * (Interval + Jitter) < Liveness /\ Liveness < Timeout
ASSUME GraceAssumption ==
  /\ ConnectGrace \in Nat \ {0} /\ ExitGrace \in Nat \ {0}
  /\ PostGrace \in Nat /\ PostGrace <= Liveness
ASSUME ForeverAssumption == Forever \in Nat /\ Forever > ConnectGrace + Liveness + Timeout

VARIABLES
  child,    \* "running", "killed" or "exited"
  phase,    \* what the supervisor waits for: "connect", "watch", "grace"
  left,     \* ticks to the supervisor's deadline
  marked,   \* is last_alive_us different from its seed 0?
  age,      \* ticks since the stamp was stored
  silent,   \* ticks since the UI thread last turned over
  worst,    \* history: the longest silence of the UI thread so far
  handle,   \* does the UI thread still hold its Heartbeat?
  wake,     \* ticks to the end of the heartbeat thread's sleep
  thread,   \* the heartbeat thread: "none", "pinging", "stalled", "dead"
  inflight, \* is a ping on its way to the supervisor?
  skipped   \* pings lost to transient write errors so far

vars == <<child, phase, left, marked, age, silent, worst, handle, wake, thread, inflight, skipped>>

Later(x) == IF x < Forever THEN x + 1 ELSE Forever
Sooner(x) == IF x > 0 THEN x - 1 ELSE 0

Init ==
  /\ child = "running" /\ phase = "connect" /\ left = ConnectGrace
  /\ marked = FALSE /\ age = 0 /\ silent = 0 /\ worst = 0 /\ handle = FALSE
  /\ wake = 0 /\ thread = "none" /\ inflight = FALSE /\ skipped = 0

Running == child = "running"

-----------------------------------------------------------------------------
(* buffr-app.                                                              *)

\* try_connect: the first thing main does; the thread sleeps before it pings.
Connect ==
  /\ Running /\ thread = "none"
  /\ thread' = "pinging"
  /\ wake' \in Interval..(Interval + Jitter)
  /\ handle' = TRUE
  /\ phase' = "watch"
  /\ left' = PostGrace + Timeout
  /\ UNCHANGED <<child, marked, age, silent, worst, inflight, skipped>>

\* tick: stamp the atomic, and let go of the handle only after a fatal error.
KeepsHandle_until_stall == thread = "pinging"
KeepsHandle == thread # "dead"

TickHeartbeat ==
  /\ Running
  /\ silent' = 0
  /\ IF handle
     THEN marked' = TRUE /\ age' = 0 /\ handle' = KeepsHandle
     ELSE UNCHANGED <<marked, age, handle>>
  /\ UNCHANGED <<child, phase, left, worst, wake, thread, inflight, skipped>>

Stale == marked /\ age > Liveness

Sleep == wake' \in Interval..(Interval + Jitter)

\* The heartbeat thread wakes and writes its byte ...
Ping ==
  /\ Running /\ thread \in {"pinging", "stalled"} /\ wake = 0
  /\ ~Stale
  /\ thread' = "pinging"
  /\ inflight' = TRUE
  /\ Sleep
  /\ UNCHANGED <<child, phase, left, marked, age, silent, worst, handle, skipped>>

\* ... or withholds it because the UI thread has been silent for too long,
\* and keeps the socket open.
Withhold ==
  /\ Running /\ thread \in {"pinging", "stalled"} /\ wake = 0
  /\ Stale
  /\ thread' = "stalled"
  /\ Sleep
  /\ UNCHANGED <<child, phase, left, marked, age, silent, worst, handle, inflight, skipped>>

\* A write fails for now: this ping is lost, the next one is due as usual.
Skip ==
  /\ Running /\ thread \in {"pinging", "stalled"} /\ wake = 0
  /\ ~Stale /\ skipped < Skips
  /\ thread' = "pinging"
  /\ skipped' = skipped + 1
  /\ Sleep
  /\ UNCHANGED <<child, phase, left, marked, age, silent, worst, handle, inflight>>

\* A write fails for good: the thread ends and the socket is closed with it.
WriteFails ==
  /\ Running /\ thread \in {"pinging", "stalled"} /\ wake = 0
  /\ ~Stale
  /\ thread' = "dead"
  /\ phase' = "grace"
  /\ left' = ExitGrace
  /\ UNCHANGED <<child, marked, age, silent, worst, handle, wake, inflight, skipped>>

\* The browser exits by itself and is reaped.
Exit ==
  /\ Running
  /\ child' = "exited"
  /\ UNCHANGED <<phase, left, marked, age, silent, worst, handle, wake, thread, inflight, skipped>>

-----------------------------------------------------------------------------
(* The supervisor.                                                         *)

Renewed == Timeout

\* watch_heartbeat takes a ping: the deadline moves.
TakePing ==
  /\ Running /\ inflight
  /\ inflight' = FALSE
  /\ left' = IF phase = "watch" THEN Renewed ELSE left
  /\ UNCHANGED <<child, phase, marked, age, silent, worst, handle, wake, thread, skipped>>

\* Any of the three deadlines passes; the deadline is looked at before the
\* channel, so a ping that arrives in the same instant may come too late.
Kill ==
  /\ Running /\ left = 0
  /\ child' = "killed"
  /\ UNCHANGED <<phase, left, marked, age, silent, worst, handle, wake, thread, inflight, skipped>>

-----------------------------------------------------------------------------
\* Time passes when nobody is due.
Tick ==
  /\ Running /\ left > 0 /\ ~inflight
  /\ thread \in {"pinging", "stalled"} => wake > 0
  /\ left' = left - 1
  /\ wake' = Sooner(wake)
  /\ age' = Later(age)
  /\ silent' = Later(silent)
  /\ worst' = IF silent' > worst THEN silent' ELSE worst
  /\ UNCHANGED <<child, phase, marked, handle, thread, inflight, skipped>>

Next ==
  \/ Connect \/ TickHeartbeat \/ Ping \/ Withhold \/ Skip \/ WriteFails \/ Exit
  \/ TakePing \/ Kill \/ Tick

Spec == Init /\ [][Next]_vars

-----------------------------------------------------------------------------
(* Properties.                                                             *)

Hung == child = "killed" /\ phase = "watch"

\* A browser is killed as hung only if its UI thread was silent for longer
\* than UI_LIVENESS_TIMEOUT; without write errors only if a stall outlasted
\* nearly both timeouts together.  One that ends earlier is recovered from,
\* however often stalls come (run_heartbeat_loop and watch_heartbeat together).
OnlyLongStallsKill ==
  Hung => /\ worst > Liveness
          /\ skipped = 0 => worst + 2 * (Interval + Jitter) > Liveness + Timeout

\* A UI thread that froze after its first stamp does not outlive the two
\* timeouts, wherever the heartbeat thread was in its cycle.
FrozenIsKilled ==
  child = "running" /\ phase = "watch" /\ marked /\ handle => silent <= Liveness + Timeout

\* The frozen and only the frozen are killed.
HangsAreKilled == OnlyLongStallsKill /\ FrozenIsKilled
=============================================================================
