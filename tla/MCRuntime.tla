----------------------------- MODULE MCRuntime -----------------------------
(* Instances of Watchdog, Painting and SingleInstance for TLC.  They share *)
(* no variable, so one run checks the three: a behaviour is one of the     *)
(* watchdog, of the window's painting or of the launches of a profile.     *)
EXTENDS Watchdog

CONSTANTS
  \* Painting
  Sizes, None, HistorySize, SlowToOcclude, MaxRetries, MaxEvents,
  \* SingleInstance
  Procs, Attempts

\* There is a size to start with, and None is none, nor a state of a frame.
ASSUME SizesAssumption == Sizes # {} /\ None \notin Sizes \cup {"seen", "hid"}

VARIABLES
  part,
  shown, says, told, size, resized, events, win, sleepAt, probing, dirty, retry, drifted,
  anim, middle, debounce, watchdog, page, view, rendering, frame, newest, rend, worker,
  screen, clash,
  pc, urls, round, tries, sock, lock, peer, sent, reply, backlog, serving, acking, opens,
  opened, taken

paintVars ==
  <<shown, says, told, size, resized, events, win, sleepAt, probing, dirty, retry, drifted,
    anim, middle, debounce, watchdog, page, view, rendering, frame, newest, rend, worker,
    screen, clash>>
launchVars ==
  <<pc, urls, round, tries, sock, lock, peer, sent, reply, backlog, serving, acking, opens,
    opened, taken>>

Paints == INSTANCE Painting
Launches == INSTANCE SingleInstance WITH events <- opens

PartsInit ==
  /\ part \in {"watchdog", "painting", "launches"}
  /\ Init /\ Paints!Init /\ Launches!Init
  /\ part # "painting" => ~says

OfWatchdog(action) == part = "watchdog" /\ action /\ UNCHANGED <<part, paintVars, launchVars>>
OfPainting(action) == part = "painting" /\ action /\ UNCHANGED <<part, vars, launchVars>>
OfLaunches(action) == part = "launches" /\ action /\ UNCHANGED <<part, vars, paintVars>>

allVars == <<part, vars, paintVars, launchVars>>

\* The fairness of SingleInstance; the other two need none.
PartsSpec ==
  /\ PartsInit
  /\ [][OfWatchdog(Next) \/ OfPainting(Paints!Next) \/ OfLaunches(Launches!Next)]_allVars
  /\ \A p \in Procs :
       /\ WF_allVars(OfLaunches(Launches!Awaits(p)))
       /\ WF_allVars(OfLaunches(Launches!Acquire(p)))
       /\ WF_allVars(OfLaunches(Launches!AcceptThread(p)))

\* Painting: the surface is free when it is touched, and what is shown fits.
FramesFit == Paints!FramesFit

\* Painting: a window in view does not come to rest with work undone.
NothingIsForgotten == Paints!NothingIsForgotten

\* SingleInstance: an invocation does not hang.
LaunchSettles == Launches!LaunchSettles
=============================================================================
