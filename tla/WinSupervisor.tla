--------------------------- MODULE WinSupervisor ---------------------------
(***************************************************************************)
(* The Windows supervisor (apps/buffr/src/main.rs, mod windows): the same  *)
(* loop as on Unix around a Job Object, a named pipe and a console-event   *)
(* handler.  It differs in what can be in each other's way:                *)
(*                                                                         *)
(*   - a child is created suspended, put into the job and resumed;         *)
(*   - the handler runs on a thread of its own: it sets the flag, ends the *)
(*     job's processes, and then Windows ends the supervisor, wherever the *)
(*     main loop is; the job closes with it and takes its processes along; *)
(*   - a pipe thread that nobody connected to is never joined: it waits on *)
(*     and may be given the connection of a later child, which it drops.   *)
(*                                                                         *)
(* Durations are abstract, as in Supervisor.                               *)
(***************************************************************************)
EXTENDS Naturals, Sequences, CrashWindow

CONSTANTS
  Window, Limit,  \* WINDOW_SECS in ticks, CRASH_LIMIT
  Heartbeat,      \* FALSE under --heartbeat-disable
  MaxNow,         \* bound: ticks of the clock
  MaxQueue        \* bound: events waiting in the channel

VARIABLES
  pc,        \* where the main loop is; "rundown" once Windows ends the process
  spawn,     \* the number of this spawn
  piped,     \* was the pipe of this spawn created?
  outcome,   \* how the child went away
  crashes, restarts, status,
  shutdown,  \* shutdown_requested
  ctrl,      \* the console handler: "idle", "flagged", "terminated"
  child,     \* state of the child process, its exit code, is it in the job?
  waiting,   \* spawns whose pipe instance waits in ConnectNamedPipe
  conn,      \* the child's end of the pipe it connected to
  reading,   \* is the pipe thread of this spawn connected?
  chan,      \* the events to the main loop
  flag,      \* does the clean-shutdown file exist?
  now,
  wrote,     \* history: did this spawn's child touch the flag?
  told       \* history: was this spawn's child ended with the job?

loopVars == <<pc, spawn, piped, outcome, crashes, restarts, status>>
ctrlVars == <<shutdown, ctrl>>
pipeVars == <<waiting, conn, reading, chan>>
histVars == <<wrote, told>>
vars == <<loopVars, ctrlVars, child, pipeVars, flag, now, histVars>>

Runs == pc \notin {"exited", "rundown"}
Alive == child.state \in {"suspended", "running", "dying"}
NoChild == [state |-> "none", code |-> "zero", job |-> FALSE]

Init ==
  /\ pc = "top" /\ spawn = 0 /\ piped = FALSE /\ outcome = "zero"
  /\ crashes = {} /\ restarts = 0 /\ status = "running"
  /\ shutdown = FALSE /\ ctrl = "idle"
  /\ child = NoChild
  /\ waiting = {} /\ conn = "none" /\ reading = FALSE /\ chan = <<>>
  /\ flag \in BOOLEAN /\ now = 0 /\ wrote = FALSE /\ told = FALSE

-----------------------------------------------------------------------------
(* The main loop.                                                          *)

Finish(s) == pc' = "exited" /\ status' = s

\* create_heartbeat_pipe, which may fail, and the removal of a stale flag.
\* shutdown_requested is not looked at here.
Top ==
  /\ pc = "top"
  /\ pc' = "create"
  /\ spawn' = spawn + 1
  /\ piped' \in (IF Heartbeat THEN BOOLEAN ELSE {FALSE})
  /\ waiting' = IF piped' THEN waiting \cup {spawn'} ELSE waiting
  /\ chan' = <<>> /\ reading' = FALSE
  /\ flag' = FALSE
  /\ UNCHANGED <<outcome, crashes, restarts, status, ctrlVars, child, conn, now, histVars>>

\* CreateProcessW with CREATE_SUSPENDED.
Create ==
  /\ pc = "create"
  /\ \/ Finish("error") /\ UNCHANGED <<child, conn, histVars>>
     \/ /\ pc' = "assign"
        /\ child' = [NoChild EXCEPT !.state = "suspended"]
        /\ conn' = "none" /\ wrote' = FALSE /\ told' = FALSE
        /\ UNCHANGED status
  /\ UNCHANGED <<spawn, piped, outcome, crashes, restarts, ctrlVars,
                 waiting, reading, chan, flag, now>>

\* AssignProcessToJobObject, before the child runs.
Assign ==
  /\ pc = "assign"
  /\ child' = [child EXCEPT !.job = TRUE]
  /\ pc' = "resume"
  /\ UNCHANGED <<spawn, piped, outcome, crashes, restarts, status, ctrlVars, pipeVars,
                 flag, now, histVars>>

\* ResumeThread, of a child the handler may have ended meanwhile; the pipe
\* thread is started, or the child is waited for.
Resume ==
  /\ pc = "resume"
  /\ child' = IF child.state = "suspended" THEN [child EXCEPT !.state = "running"] ELSE child
  /\ pc' = IF piped THEN "connect" ELSE "waitexit"
  /\ UNCHANGED <<spawn, piped, outcome, crashes, restarts, status, ctrlVars, pipeVars,
                 flag, now, histVars>>

\* The main loop is done with the child, whose handles close.
Gone(o) ==
  /\ outcome' = o
  /\ pc' = "decide"
  /\ UNCHANGED <<spawn, piped, crashes, restarts, status, ctrlVars, pipeVars, flag, now, histVars>>

\* poll_exit / wait_exit: the process handle is signalled.
Reap ==
  /\ pc \in {"connect", "watch", "grace", "waitexit"}
  /\ child.state = "gone"
  /\ Gone(child.code)
  /\ UNCHANGED child

\* kill_and_reap after the connect, the ping or the disconnect deadline.
KillAndReap ==
  /\ pc \in {"connect", "watch", "grace"}
  /\ child' = [child EXCEPT !.state = "gone"]
  /\ Gone("hang")

\* wait_for_connect and watch_heartbeat take an event.
Receive ==
  /\ pc \in {"connect", "watch"} /\ chan # <<>>
  /\ chan' = Tail(chan)
  /\ pc' = IF Head(chan) = "Connected" THEN "watch"
           ELSE IF pc = "watch" /\ Head(chan) = "Disconnected" THEN "grace" ELSE pc
  /\ UNCHANGED <<spawn, piped, outcome, crashes, restarts, status, ctrlVars, child,
                 waiting, conn, reading, flag, now, histVars>>

\* The loads of shutdown_requested once the child is gone.
QuitAsked == shutdown

Decide ==
  /\ pc = "decide"
  /\ flag' = FALSE
  /\ LET d == Classify(outcome, flag) IN
     \/ /\ d = "Done" \/ QuitAsked
        /\ Finish("ok")
        /\ UNCHANGED <<crashes, restarts>>
     \/ /\ d = "Propagate" /\ ~QuitAsked
        /\ Finish("propagated")
        /\ UNCHANGED <<crashes, restarts>>
     \/ /\ d = "Restart" /\ ~QuitAsked
        /\ restarts' = restarts + 1
        /\ crashes' = Record(crashes, restarts', now, Window)
        /\ IF LimitReached(crashes', Limit) THEN Finish("refused")
           ELSE pc' = "cooldown" /\ UNCHANGED status
  /\ UNCHANGED <<spawn, piped, outcome, ctrlVars, child, pipeVars, now, histVars>>

Cooldown ==
  /\ pc = "cooldown"
  /\ pc' = "top"
  /\ UNCHANGED <<spawn, piped, outcome, crashes, restarts, status, ctrlVars, child, pipeVars,
                 flag, now, histVars>>

-----------------------------------------------------------------------------
(* The console handler and the end of the process.                         *)

HandlerKeeps ==
  UNCHANGED <<spawn, piped, outcome, crashes, restarts, pipeVars, flag, now, wrote>>

CtrlFlags ==
  /\ Runs /\ ctrl = "idle"
  /\ shutdown' = TRUE /\ ctrl' = "flagged"
  /\ HandlerKeeps /\ UNCHANGED <<pc, status, child, told>>

\* TerminateJobObject(job, 0): its processes end shortly afterwards.
CtrlTerminates ==
  /\ Runs /\ ctrl = "flagged"
  /\ ctrl' = "terminated"
  /\ IF child.job /\ child.state \in {"suspended", "running"}
     THEN /\ told' = (child.state = "running")
          /\ child' = [child EXCEPT !.state = IF @ = "running" THEN "dying" ELSE "gone"]
     ELSE UNCHANGED <<child, told>>
  /\ HandlerKeeps /\ UNCHANGED <<pc, status, shutdown>>

\* The handler returns FALSE: the default one calls ExitProcess.
CtrlExits ==
  /\ Runs /\ ctrl = "terminated"
  /\ pc' = "rundown" /\ status' = "ctrl"
  /\ HandlerKeeps /\ UNCHANGED <<ctrlVars, child, told>>

\* JOB_OBJECT_LIMIT_KILL_ON_JOB_CLOSE.
ClosingKills_nothing == FALSE
ClosingKills == child.job /\ Alive

Rundown ==
  /\ pc = "rundown"
  /\ IF ClosingKills THEN child' = [child EXCEPT !.state = "gone"] /\ UNCHANGED pc
                     ELSE pc' = "exited" /\ UNCHANGED child
  /\ HandlerKeeps /\ UNCHANGED <<status, ctrlVars, told>>

-----------------------------------------------------------------------------
(* The child, its pipe and the clock.                                      *)

ChildKeeps == UNCHANGED <<loopVars, ctrlVars, now, told>>
Running == child.state = "running" /\ pc # "exited"

\* try_connect: the kernel picks one of the instances that wait under the
\* name.  The thread of an earlier spawn finds its receiver gone and closes
\* the pipe at once.
ChildConnects ==
  /\ Running /\ piped /\ conn = "none" /\ pc # "rundown"
  /\ \E i \in waiting :
       /\ waiting' = waiting \ {i}
       /\ reading' = (i = spawn)
       /\ conn' = IF i = spawn THEN "open" ELSE "closed"
       /\ chan' = IF i = spawn THEN Append(chan, "Connected") ELSE chan
  /\ ChildKeeps /\ UNCHANGED <<child, flag, wrote>>

\* run_heartbeat_loop writes a byte, or ends with a fatal error.
ChildPings ==
  /\ Running /\ conn = "open" /\ reading /\ Len(chan) < MaxQueue
  /\ chan' = Append(chan, "Ping")
  /\ ChildKeeps /\ UNCHANGED <<child, waiting, conn, reading, flag, wrote>>

ChildDropsPipe ==
  /\ Running /\ conn = "open"
  /\ conn' = "closed"
  /\ ChildKeeps /\ UNCHANGED <<child, waiting, reading, chan, flag, wrote>>

\* ReadFile fails: the other end is closed, by the child or with it.
PipeEnds ==
  /\ Runs /\ reading
  /\ conn = "closed" \/ child.state = "gone"
  /\ reading' = FALSE
  /\ chan' = Append(chan, "Disconnected")
  /\ ChildKeeps /\ UNCHANGED <<child, waiting, conn, flag, wrote>>

\* AppState::mark_clean_shutdown.
ChildTouchesFlag ==
  /\ Running
  /\ flag' = TRUE /\ wrote' = TRUE
  /\ ChildKeeps /\ UNCHANGED <<child, pipeVars>>

\* A child ends by itself with any code, one that was ended with the job by 0.
ChildExits(c) ==
  /\ \/ Running
     \/ child.state = "dying" /\ c = "zero"
  /\ child' = [child EXCEPT !.state = "gone", !.code = c]
  /\ ChildKeeps /\ UNCHANGED <<pipeVars, flag, wrote>>

Tick ==
  /\ now < MaxNow
  /\ now' = now + 1
  /\ UNCHANGED <<loopVars, ctrlVars, child, pipeVars, flag, histVars>>

Next ==
  \/ Top \/ Create \/ Assign \/ Resume \/ Reap \/ KillAndReap \/ Receive \/ Decide \/ Cooldown
  \/ CtrlFlags \/ CtrlTerminates \/ CtrlExits \/ Rundown
  \/ ChildConnects \/ ChildPings \/ ChildDropsPipe \/ PipeEnds \/ ChildTouchesFlag
  \/ \E c \in Codes : ChildExits(c)
  \/ Tick

Spec == Init /\ [][Next]_vars

-----------------------------------------------------------------------------
(* The command line CreateProcessW takes, and how a program splits it.     *)

Backslashes(k) == [i \in 1..k |-> "\\"]

\* quote_arg, one character: backslashes are held back until it is known
\* whether a quote follows them.
QuotedChar(q, c) ==
  IF c = "\\" THEN [q EXCEPT !.pending = @ + 1]
  ELSE [out |-> q.out \o (IF c = "\"" THEN Backslashes(2 * q.pending + 1) \o <<c>>
                          ELSE Backslashes(q.pending) \o <<c>>),
        pending |-> 0]

QuoteArg(arg) ==
  IF arg # <<>> /\ \A i \in DOMAIN arg : arg[i] \notin {" ", "\""} THEN arg
  ELSE LET After[i \in 0 .. Len(arg)] ==
             IF i = 0 THEN [out |-> <<"\"">>, pending |-> 0] ELSE QuotedChar(After[i - 1], arg[i])
           q == After[Len(arg)]
       IN  q.out \o Backslashes(2 * q.pending) \o <<"\"">>

\* build_command_line, of the arguments behind the program's name.
BuildCommandLine(args) ==
  LET Line[i \in 0 .. Len(args)] ==
        IF i = 0 THEN <<>> ELSE Line[i - 1] \o <<" ">> \o QuoteArg(args[i])
  IN  Line[Len(args)]

\* CommandLineToArgvW, one character: backslashes count in pairs in front of
\* a quote and are themselves anywhere else; a quote right behind the one that
\* ends a quoted part is itself, and the part goes on.
SplitChar(s, c) ==
  LET flushed == s.arg \o Backslashes(s.held) IN
  CASE c = "\\" -> [s EXCEPT !.held = @ + 1, !.any = TRUE, !.shut = FALSE]
    [] c = "\"" ->
         [s EXCEPT !.arg = s.arg \o Backslashes(s.held \div 2)
                                 \o (IF s.held % 2 = 1 \/ s.shut THEN <<c>> ELSE <<>>),
                   !.quoted = IF s.held % 2 = 1 THEN @ ELSE ~@, !.held = 0, !.any = TRUE,
                   !.shut = s.held % 2 = 0 /\ s.quoted]
    [] c = " " /\ ~s.quoted ->
         [args |-> IF s.any THEN Append(s.args, flushed) ELSE s.args, arg |-> <<>>,
          quoted |-> FALSE, held |-> 0, any |-> FALSE, shut |-> FALSE]
    [] OTHER -> [s EXCEPT !.arg = Append(flushed, c), !.held = 0, !.any = TRUE, !.shut = FALSE]

NoArgs == [args |-> <<>>, arg |-> <<>>, quoted |-> FALSE, held |-> 0, any |-> FALSE, shut |-> FALSE]

Split(line) ==
  LET chars == Append(line, " ")
      After[i \in 0 .. Len(chars)] ==
        IF i = 0 THEN NoArgs ELSE SplitChar(After[i - 1], chars[i])
  IN  After[Len(chars)].args

Args == UNION {[1 .. n -> {"\\", "\"", " ", "x"}] : n \in 0 .. 3}

-----------------------------------------------------------------------------
(* Properties.                                                             *)

\* The Windows supervisor keeps the contract of Supervision.tla: wherever the
\* console event meets the main loop, the browser is gone before the
\* supervisor is, and none is started after one was told to end.
Contract == INSTANCE Supervision WITH
  up <- child.state \in {"running", "dying"},
  final <- (wrote \/ told),
  over <- (pc = "exited")

\* Whatever an argument holds, the child is given it as it was: one of up to
\* three characters in front of another, looked at once.
ArgumentsSurvive ==
  pc = "top" /\ spawn = 0 => \A a \in Args : Split(BuildCommandLine(<<a, <<"x">>>>)) = <<a, <<"x">>>>
=============================================================================
