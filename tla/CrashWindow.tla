---------------------------- MODULE CrashWindow ----------------------------
(* The part of the supervisor that is the same on every platform           *)
(* (apps/buffr/src/supervisor.rs): how a child went away, what is done     *)
(* about it, and the rolling window of crashes.                            *)
EXTENDS Naturals, FiniteSets

Codes    == {"zero", "nonzero", "crash"}  \* ExitInfo: code 0, code > 0, crashed
Outcomes == Codes \cup {"hang"}
Events   == {"Connected", "Ping", "Disconnected"}

Classify_without_flag(o, clean) ==
  IF o = "zero" THEN "Done"
  ELSE IF o = "nonzero" THEN "Propagate"
  ELSE "Restart"

\* classify: what to do about a child that is gone.
Classify(o, clean) ==
  IF clean \/ o = "zero" THEN "Done"
  ELSE IF o = "nonzero" THEN "Propagate"
  ELSE "Restart"

Record_boundary(times, k, t, window) == {c \in times \cup {<<k, t>>} : c[2] + window > t}

\* CrashWindow::record: remember the crash k, forget those older than the window.
Record(times, k, t, window) == {c \in times \cup {<<k, t>>} : c[2] + window >= t}

\* CrashWindow::limit_reached.
LimitReached(times, limit) == Cardinality(times) >= limit
=============================================================================
