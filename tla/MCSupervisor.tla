---------------------------- MODULE MCSupervisor ----------------------------
(* Instances of Supervisor, WinSupervisor and Lifetime for TLC: a behaviour *)
(* is one of the Unix supervisor, of the Windows supervisor or of the       *)
(* applications that run on a profile.                                      *)
EXTENDS Supervisor

CONSTANTS
  \* Lifetime
  Procs, Private, Items, ClearOnExit, MaxAttempts, MaxCount, MaxPanics, MaxLaunches

VARIABLES
  part, phase, spawn, piped, exit, faults, again, ended, quit, ctrl, child, waiting, pipe,
  reading, events, clean, clock, touched, stopped,
  lives, data, temp, disk, reports, today, launches, panics, resets, unmade, purged

winVars ==
  <<phase, spawn, piped, exit, faults, again, ended, quit, ctrl, child, waiting, pipe,
    reading, events, clean, clock, touched, stopped>>

lifeVars ==
  <<lives, data, temp, disk, reports, today, launches, panics, resets, unmade, purged>>

Windows == INSTANCE WinSupervisor WITH
  pc <- phase, outcome <- exit, crashes <- faults, restarts <- again, status <- ended,
  shutdown <- quit, conn <- pipe, chan <- events, flag <- clean, now <- clock,
  wrote <- touched, told <- stopped

Profile == INSTANCE Lifetime WITH proc <- lives, now <- today

PartsInit ==
  /\ part \in {"unix", "windows", "lives"} /\ Init /\ Windows!Init /\ Profile!Init
  /\ part # "windows" => ~clean
  /\ part # "unix" => ~flag

OfUnix(action) == part = "unix" /\ action /\ UNCHANGED <<part, winVars, lifeVars>>
OfWindows(action) == part = "windows" /\ action /\ UNCHANGED <<part, vars, lifeVars>>
OfLives(action) == part = "lives" /\ action /\ UNCHANGED <<part, vars, winVars>>

allVars == <<part, vars, winVars, lifeVars>>

\* The fairness of Supervisor; the contract on Windows needs none.
PartsSpec ==
  /\ PartsInit
  /\ [][OfUnix(Next) \/ OfWindows(Windows!Next) \/ OfLives(Profile!Next)]_allVars
  /\ WF_allVars(OfUnix(MainStep))
  /\ WF_allVars(OfUnix(Reap))
  /\ WF_allVars(OfUnix(ReadEof \/ ReadCancelled \/ (AcceptEnds /\ Cancelled)))
  /\ WF_allVars(OfUnix(SignalStep))

\* A browser is started again only within the limit (Supervisor), on Windows it is
\* given its arguments as they were (quote_arg and build_command_line), and every
\* panic has its report (Lifetime).
StartsAreRight ==
  /\ RestartsAreRateLimited
  /\ part = "windows" => Windows!ArgumentsSurvive
  /\ part = "lives" => Profile!EachPanicReported

\* WinSupervisor implements the contract of Supervision, and the application ends,
\* private or not, with its profile as it has to be (Lifetime).
EndsAreRight ==
  Windows!Contract!Spec /\ Profile!ProfileIsLeftRight /\ Profile!PrivateLeavesNothing
=============================================================================
