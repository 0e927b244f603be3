---------------------------- MODULE Supervision ----------------------------
(***************************************************************************)
(* What the `buffr` supervisor promises, whatever threads, sockets and     *)
(* signals it uses to keep the promise:                                    *)
(*                                                                         *)
(*   - a browser is started only while none runs, and only as long as      *)
(*     nothing final has happened to the previous one;                     *)
(*   - "final" is either of the two ways a user ends a session: the        *)
(*     browser announced a clean shutdown, or the supervisor delivered the *)
(*     user's quit signal to it;                                           *)
(*   - supervision ends with no browser left running, and never resumes.   *)
(*                                                                         *)
(* Supervisor.tla is shown to implement this specification.                *)
(***************************************************************************)

VARIABLES
  up,     \* is a browser process running?
  final,  \* has the user's wish to end the session reached the browser?
  over    \* has the supervisor itself ended?

vars == <<up, final, over>>

Init ==
  /\ up = FALSE
  /\ final = FALSE
  /\ over = FALSE

\* A browser is (re)started.
Start ==
  /\ ~up /\ ~final /\ ~over
  /\ up' = TRUE
  /\ UNCHANGED <<final, over>>

\* The running browser announces a clean shutdown, or is told to quit.
Conclude ==
  /\ up
  /\ final' = TRUE
  /\ UNCHANGED <<up, over>>

\* The browser goes away: it exits, crashes, or is killed.
Stop ==
  /\ up
  /\ up' = FALSE
  /\ UNCHANGED <<final, over>>

\* The supervisor ends.
Leave ==
  /\ ~up /\ ~over
  /\ over' = TRUE
  /\ UNCHANGED <<up, final>>

Next == Start \/ Conclude \/ Stop \/ Leave

Spec == Init /\ [][Next]_vars
=============================================================================
