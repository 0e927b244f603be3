----------------------------- MODULE Supervisor -----------------------------
(***************************************************************************)
(* The Unix supervisor process `buffr` (apps/buffr): three threads around  *)
(* one child process.                                                      *)
(*                                                                         *)
(*   - the main loop of run_supervisor: bind, spawn, wait for the          *)
(*     heartbeat connection, watch it, reap, decide, cool down, again;     *)
(*   - the heartbeat listener thread (heartbeat_accept_loop), one per      *)
(*     spawn, which turns the child's socket into events on a channel;     *)
(*   - the signal thread (install_signal_forwarding), armed for the whole  *)
(*     life of the supervisor.                                             *)
(*                                                                         *)
(* The child is the environment: it may connect, ping, drop its end of the *)
(* socket, touch the clean-shutdown flag, exit with any status or crash at *)
(* any moment.  So are the other processes of the machine, which may be    *)
(* given the number of a process that has been reaped.                     *)
(*                                                                         *)
(* Durations are abstract here: a timed wait may end at any moment it is   *)
(* waited for.  Only the crash window measures time (`now`).  The timed    *)
(* side of the watchdog is in Watchdog.tla.                                *)
(*                                                                         *)
(* A definition named X_mistake is X as a plausible bug would have it; it  *)
(* is used by no action and only shows which property notices the bug.     *)
(***************************************************************************)
EXTENDS Naturals, Sequences, FiniteSets, CrashWindow

CONSTANTS
  Pids,          \* process numbers, as small a set as makes reuse happen
  NoPid,         \* the value 0 of child_pid_slot
  Window,        \* WINDOW_SECS, in ticks
  Limit,         \* CRASH_LIMIT
  Heartbeat,     \* FALSE under --heartbeat-disable
  RuntimeDir,    \* did private_runtime_dir() succeed?
  MaxNow,        \* bound: ticks of the clock
  MaxSignals,    \* bound: SIGINT/SIGTERM deliveries
  MaxQueue       \* bound: events waiting in the heartbeat channel

ASSUME NoPidAssumption   == NoPid \notin Pids
ASSUME WindowAssumption  == Window \in Nat
ASSUME LimitAssumption   == Limit \in Nat \ {0}
ASSUME ModeAssumption    == Heartbeat \in BOOLEAN /\ RuntimeDir \in BOOLEAN
ASSUME BoundsAssumption  == MaxNow \in Nat /\ MaxSignals \in Nat /\ MaxQueue \in Nat

VARIABLES
  pc,         \* where the main loop is
  bound,      \* was the heartbeat socket of this spawn bound?
  cur,        \* the process number of this spawn's child
  outcome,    \* how the child went away, as the main loop sees it
  slot,       \* child_pid_slot, what the signal thread reads
  crashes,    \* CrashWindow.times: the recent crashes, as <<which, when>>
  restarts,   \* restart_count
  status,     \* how the supervisor ended
  lst,        \* the listener thread
  chan,       \* the channel from the listener thread to the main loop
  sigPc,      \* where the signal thread is
  held,       \* the process number the signal thread has read from the slot
  signals,    \* signals received so far
  shutdown,   \* shutdown_requested
  proc,       \* the process table
  code,       \* exit status of the child once it is a zombie
  conn,       \* the child's end of the heartbeat socket
  flag,       \* does the clean-shutdown flag file exist?
  now,        \* the clock
  wrote,      \* history: did this spawn's child touch the flag?
  told,       \* history: was SIGTERM delivered to this spawn's child?
  spawns      \* history: when each child was spawned

backoff   == <<crashes, restarts>>
mainVars  == <<pc, bound, cur, outcome, slot, backoff, status>>
lstVars   == <<lst, chan>>
sigVars   == <<sigPc, held, signals, shutdown>>
childVars == <<proc, code, conn, flag>>
histVars  == <<wrote, told, spawns>>
others    == <<lstVars, sigVars, childVars, histVars, now>>
vars == <<mainVars, lstVars, sigVars, childVars, histVars, now>>

\* Phases in which this spawn's child has not been reaped yet.
Holding == {"publish", "listen", "connect", "watch", "grace", "waitexit"}
\* Phases in which there is no child at all.
Idle    == {"top", "bind", "spawn", "join", "decide", "cooldown", "exited"}

Alive(p) == proc[p] = "running"

-----------------------------------------------------------------------------
(* Init: a flag file may survive from an earlier supervisor with our pid.   *)

Init ==
  /\ pc = "top" /\ bound = FALSE /\ cur = NoPid /\ outcome = "zero"
  /\ slot = NoPid /\ crashes = {} /\ restarts = 0 /\ status = "running"
  /\ lst = "none" /\ chan = <<>>
  /\ sigPc = "idle" /\ held = NoPid /\ signals = 0 /\ shutdown = FALSE
  /\ proc = [p \in Pids |-> "free"] /\ code = "zero" /\ conn = "none"
  /\ flag \in (IF RuntimeDir THEN BOOLEAN ELSE {FALSE})
  /\ now = 0
  /\ wrote = FALSE /\ told = FALSE /\ spawns = <<>>

-----------------------------------------------------------------------------
(* The main loop.                                                          *)

\* The supervisor ends with the given status.
Finish(s) ==
  /\ pc' = "exited"
  /\ status' = s

QuitAsked == shutdown

Top ==
  /\ pc = "top"
  /\ \/ /\ QuitAsked
        /\ Finish("ok")
     \/ /\ ~QuitAsked
        /\ pc' = "bind"
        /\ UNCHANGED status
  /\ UNCHANGED <<bound, cur, outcome, slot, backoff, others>>

\* What is left of the flag file after the removal that precedes a spawn.
StaleFlag == FALSE

\* Bind the heartbeat socket of this spawn (which may fail, and then the
\* child runs without hang detection) and remove a stale flag file.
Bind ==
  /\ pc = "bind"
  /\ bound' \in (IF Heartbeat /\ RuntimeDir THEN BOOLEAN ELSE {FALSE})
  /\ flag' = StaleFlag
  /\ pc' = "spawn"
  /\ UNCHANGED <<cur, outcome, slot, backoff, status, lstVars, sigVars,
                 proc, code, conn, histVars, now>>

SpawnFails ==
  /\ pc = "spawn"
  /\ Finish("error")
  /\ UNCHANGED <<bound, cur, outcome, slot, backoff, others>>

Spawn(p) ==
  /\ pc = "spawn"
  /\ proc[p] = "free"
  /\ proc' = [proc EXCEPT ![p] = "running"]
  /\ cur' = p
  /\ conn' = "none"
  /\ wrote' = FALSE /\ told' = FALSE
  /\ spawns' = Append(spawns, now)
  /\ pc' = "publish"
  /\ UNCHANGED <<bound, outcome, slot, backoff, status, lstVars, sigVars,
                 code, flag, now>>

\* child_pid_slot.store: only now can the signal thread find the child.
Publish ==
  /\ pc = "publish"
  /\ slot' = cur
  /\ pc' = "listen"
  /\ UNCHANGED <<bound, cur, outcome, backoff, status, others>>

\* Start the listener thread, or just wait for the child if there is no socket.
Listen ==
  /\ pc = "listen"
  /\ lst' = IF bound THEN "accept" ELSE "none"
  /\ chan' = <<>>
  /\ pc' = IF bound THEN "connect" ELSE "waitexit"
  /\ UNCHANGED <<bound, cur, outcome, slot, backoff, status, sigVars, childVars, histVars, now>>

\* poll_exit / wait_exit find the child gone: it is reaped, its number is free.
ReapAs(o) ==
  /\ proc' = [proc EXCEPT ![cur] = "free"]
  /\ outcome' = o
  /\ pc' = "join"
  /\ UNCHANGED <<bound, cur, slot, backoff, status, lstVars, sigVars, code, flag, histVars, now>>

Reap ==
  /\ pc \in {"connect", "watch", "grace", "waitexit"}
  /\ proc[cur] = "zombie"
  /\ ReapAs(code)
  /\ UNCHANGED conn

\* The mistake: the hang is reported and the process is left alone.
KillAndReap_without_kill ==
  /\ outcome' = "hang"
  /\ pc' = "join"
  /\ UNCHANGED <<bound, cur, slot, backoff, status, proc, lstVars, sigVars,
                 code, conn, flag, histVars, now>>

\* kill_and_reap after one of the three deadlines.  The child may have exited
\* since it was last polled: its status is then discarded with the kill.
KillAndReap ==
  /\ ReapAs("hang")
  /\ conn' = IF conn = "open" THEN "closed" ELSE conn

\* wait_for_connect takes an event; anything but Connected is skipped.
ConnectRecv ==
  /\ pc = "connect"
  /\ chan # <<>>
  /\ chan' = Tail(chan)
  /\ pc' = IF Head(chan) = "Connected" THEN "watch" ELSE "connect"
  /\ UNCHANGED <<bound, cur, outcome, slot, backoff, status, lst, sigVars, childVars, histVars, now>>

\* The grace window ends, or the listener thread is gone.
ConnectTimeout ==
  /\ pc = "connect"
  /\ KillAndReap

\* watch_heartbeat takes an event: a ping renews the deadline, a closed
\* transport starts the bounded wait of after_disconnect.  (The arm for a lost
\* listener thread never runs: once connected, the thread ends only after it
\* sent Disconnected or was cancelled.)
WatchRecv ==
  /\ pc = "watch"
  /\ chan # <<>>
  /\ chan' = Tail(chan)
  /\ pc' = IF Head(chan) = "Disconnected" THEN "grace" ELSE "watch"
  /\ UNCHANGED <<bound, cur, outcome, slot, backoff, status, lst, sigVars, childVars, histVars, now>>

\* No ping within the deadline.
HangKill ==
  /\ pc = "watch"
  /\ KillAndReap

\* The child closed the transport and is still there after DISCONNECT_EXIT_GRACE.
GraceKill ==
  /\ pc = "grace"
  /\ KillAndReap

\* hb_cancel is set for as long as the main loop waits for the listener thread.
Cancelled == pc = "join"

\* The condition for the main loop to go on, and what it leaves in the slot.
JoinReady == lst \in {"none", "done"}
ClearedSlot == NoPid

\* Join the listener thread, then withdraw the process number.
Join ==
  /\ pc = "join"
  /\ JoinReady
  /\ slot' = ClearedSlot
  /\ pc' = "decide"
  /\ UNCHANGED <<bound, cur, outcome, backoff, status, others>>

Decide ==
  /\ pc = "decide"
  /\ flag' = FALSE
  /\ LET d == Classify(outcome, flag) IN
     \/ /\ d = "Done"
        /\ Finish("ok")
        /\ UNCHANGED backoff
     \/ /\ d = "Propagate"
        /\ Finish(IF QuitAsked THEN "ok" ELSE "propagated")
        /\ UNCHANGED backoff
     \/ /\ d = "Restart" /\ QuitAsked
        /\ Finish("ok")
        /\ UNCHANGED backoff
     \/ /\ d = "Restart" /\ ~QuitAsked
        /\ restarts' = restarts + 1
        /\ crashes' = Record(crashes, restarts', now, Window)
        /\ \/ LimitReached(crashes', Limit) /\ Finish("refused")
           \/ ~LimitReached(crashes', Limit) /\ pc' = "cooldown" /\ UNCHANGED status
  /\ UNCHANGED <<bound, cur, outcome, slot, lstVars, sigVars, proc, code, conn, histVars, now>>

Cooldown ==
  /\ pc = "cooldown"
  /\ pc' = "top"
  /\ UNCHANGED <<bound, cur, outcome, slot, backoff, status, others>>

-----------------------------------------------------------------------------
(* The heartbeat listener thread.                                          *)

ListenerKeeps == UNCHANGED <<mainVars, sigVars, childVars, histVars, now>>

\* One connection is accepted and announced.
Accept ==
  /\ lst = "accept" /\ ~Cancelled
  /\ conn # "none"
  /\ lst' = "read"
  /\ chan' = Append(chan, "Connected")
  /\ ListenerKeeps

\* The thread ends while no connection came: cancelled, past its own deadline
\* (which lies ACCEPT_DEADLINE_SLACK after the main loop's), or an accept error.
AcceptEnds ==
  /\ lst = "accept"
  /\ lst' = "done"
  /\ UNCHANGED chan
  /\ ListenerKeeps

\* A byte from the child is a ping.
ReadPing ==
  /\ lst = "read" /\ ~Cancelled
  /\ conn = "open"
  /\ Len(chan) < MaxQueue
  /\ chan' = Append(chan, "Ping")
  /\ UNCHANGED lst
  /\ ListenerKeeps

Eof == conn = "closed"

ReadEof ==
  /\ lst = "read" /\ ~Cancelled
  /\ Eof
  /\ lst' = "done"
  /\ chan' = Append(chan, "Disconnected")
  /\ ListenerKeeps

\* The cancel flag, or a send into a channel whose receiver is dropped.
ReadCancelled ==
  /\ lst = "read" /\ Cancelled
  /\ lst' = "done"
  /\ UNCHANGED chan
  /\ ListenerKeeps

-----------------------------------------------------------------------------
(* The signal thread.                                                      *)

SignalKeeps == UNCHANGED <<mainVars, lstVars, code, flag, wrote, spawns, now>>

\* A signal is taken from the iterator: shutdown_requested is set first.
SignalArrives ==
  /\ sigPc = "idle" /\ pc # "exited"
  /\ signals < MaxSignals
  /\ signals' = signals + 1
  /\ shutdown' = TRUE
  /\ sigPc' = "load"
  /\ SignalKeeps
  /\ UNCHANGED <<held, proc, conn, told>>

NoChild == slot = NoPid

\* The slot is read once per signal; without a child there is nothing to do.
SignalLoad ==
  /\ sigPc = "load" /\ pc # "exited"
  /\ sigPc' = IF NoChild THEN "idle" ELSE "term"
  /\ held' = slot
  /\ SignalKeeps
  /\ UNCHANGED <<signals, shutdown, proc, conn, told>>

\* killpg(pid, SIGTERM), whoever has that number by now.
SignalTerm ==
  /\ sigPc = "term" /\ pc # "exited"
  /\ told' = (told \/ Alive(held))
  /\ sigPc' = "poll"
  /\ SignalKeeps
  /\ UNCHANGED <<held, signals, shutdown, proc, conn>>

\* kill(pid, 0) reports ESRCH.
SignalGone ==
  /\ sigPc = "poll" /\ pc # "exited"
  /\ proc[held] = "free"
  /\ sigPc' = "idle" /\ held' = NoPid
  /\ SignalKeeps
  /\ UNCHANGED <<signals, shutdown, proc, conn, told>>

\* What SIGKILL makes of a member of the process table.
Killed_nothing(state) == state
Killed(state) == IF state = "running" THEN "zombie"
                 ELSE IF state = "foreign" THEN "free"
                 ELSE state

SignalKill ==
  /\ sigPc = "poll" /\ pc # "exited"
  /\ proc[held] # "free"
  /\ proc' = [proc EXCEPT ![held] = Killed(@)]
  /\ code' = IF Alive(held) THEN "crash" ELSE code
  /\ conn' = IF Alive(held) /\ conn = "open" THEN "closed" ELSE conn
  /\ sigPc' = "idle" /\ held' = NoPid
  /\ UNCHANGED <<mainVars, lstVars, flag, wrote, spawns, now, signals, shutdown, told>>

-----------------------------------------------------------------------------
(* The child, the other processes and the clock.                           *)

ChildKeeps == UNCHANGED <<mainVars, lstVars, sigVars, told, spawns, now>>

Running == pc \in Holding /\ Alive(cur)

ChildConnects ==
  /\ Running /\ bound /\ conn = "none"
  /\ conn' = "open"
  /\ ChildKeeps /\ UNCHANGED <<proc, code, flag, wrote>>

\* The heartbeat thread of the child ends while the process keeps running.
ChildDropsTransport ==
  /\ Running /\ conn = "open"
  /\ conn' = "closed"
  /\ ChildKeeps /\ UNCHANGED <<proc, code, flag, wrote>>

\* AppState::mark_clean_shutdown.
ChildTouchesFlag ==
  /\ Running /\ RuntimeDir
  /\ flag' = TRUE /\ wrote' = TRUE
  /\ ChildKeeps /\ UNCHANGED <<proc, code, conn>>

ChildExits(c) ==
  /\ Running
  /\ proc' = [proc EXCEPT ![cur] = "zombie"]
  /\ code' = c
  /\ conn' = IF conn = "open" THEN "closed" ELSE conn
  /\ ChildKeeps /\ UNCHANGED <<flag, wrote>>

\* The kernel gives a free number to somebody else's process group, and takes
\* it back when that group is gone.
ForeignProcess(p) ==
  /\ proc[p] \in {"free", "foreign"}
  /\ proc' = [proc EXCEPT ![p] = IF @ = "free" THEN "foreign" ELSE "free"]
  /\ ChildKeeps /\ UNCHANGED <<code, conn, flag, wrote>>

Tick ==
  /\ now < MaxNow
  /\ now' = now + 1
  /\ UNCHANGED <<mainVars, lstVars, sigVars, childVars, histVars>>

-----------------------------------------------------------------------------

\* Steps of the main loop that do not wait for a duration of silence.
MainStep ==
  \/ Top \/ Bind \/ SpawnFails \/ (\E p \in Pids : Spawn(p)) \/ Publish \/ Listen
  \/ Reap \/ ConnectRecv \/ ConnectTimeout \/ WatchRecv
  \/ GraceKill \/ Join \/ Decide \/ Cooldown

ListenerStep == Accept \/ AcceptEnds \/ ReadPing \/ ReadEof \/ ReadCancelled

SignalStep == SignalLoad \/ SignalTerm \/ SignalGone \/ SignalKill

ChildStep ==
  \/ ChildConnects \/ ChildDropsTransport \/ ChildTouchesFlag
  \/ \E c \in Codes : ChildExits(c)

Next ==
  \/ MainStep \/ HangKill
  \/ ListenerStep
  \/ SignalArrives \/ SignalStep
  \/ ChildStep
  \/ (\E p \in Pids : ForeignProcess(p))
  \/ Tick

Spec == Init /\ [][Next]_vars

\* The three threads of the supervisor are scheduled; nothing is assumed of
\* the child, of other processes, of the user or of the clock.  HangKill is
\* not fair: it needs a silence that a healthy child never grants.  Reap is
\* fair by itself, so that a stream of pings cannot hide an exit.
Fairness ==
  /\ WF_vars(MainStep)
  /\ WF_vars(Reap)
  /\ WF_vars(ReadEof \/ ReadCancelled \/ (AcceptEnds /\ Cancelled))
  /\ WF_vars(SignalStep)

FairSpec == Spec /\ Fairness

-----------------------------------------------------------------------------
(* Properties.                                                             *)

MainPcs == Holding \cup Idle

TypeMain ==
  /\ pc \in MainPcs
  /\ bound \in BOOLEAN
  /\ cur \in Pids \cup {NoPid}
  /\ outcome \in Outcomes
  /\ slot \in Pids \cup {NoPid}
  /\ status \in {"running", "ok", "propagated", "refused", "error"}

TypeThreads ==
  /\ lst \in {"none", "accept", "read", "done"}
  /\ sigPc \in {"idle", "load", "term", "poll"}
  /\ held \in Pids \cup {NoPid}
  /\ sigPc \in {"term", "poll"} => held \in Pids
  /\ shutdown \in BOOLEAN

TypeChild ==
  /\ proc \in [Pids -> {"free", "running", "zombie", "foreign"}]
  /\ code \in Codes
  /\ conn \in {"none", "open", "closed"}
  /\ flag \in BOOLEAN
  /\ wrote \in BOOLEAN /\ told \in BOOLEAN

TypeCounts ==
  /\ signals \in Nat
  /\ now \in Nat
  /\ restarts \in Nat
  /\ crashes \subseteq (Nat \X Nat)

TypeLogs ==
  /\ chan \in Seq(Events)
  /\ spawns \in Seq(Nat)

\* Every variable has its type, and a signal that is being forwarded has a
\* process number to go to.
TypeOK == TypeMain /\ TypeThreads /\ TypeChild /\ TypeCounts /\ TypeLogs

\* Two browsers on one profile never run at once: a child that was declared
\* hung is dead and reaped before the next one is spawned (kill_and_reap).
AtMostOneBrowser == \A p, q \in Pids : Alive(p) /\ Alive(q) => p = q

\* While the signal thread can find a process number in child_pid_slot outside
\* the reap-to-join window, the number belongs to this spawn's own child.
SlotNamesOwnChild ==
  slot # NoPid =>
    /\ slot = cur
    /\ pc \in Holding \/ pc = "join"
    /\ pc # "join" => proc[slot] \in {"running", "zombie"}

\* The listener thread of one spawn is over before the next spawn binds its
\* socket, so no event of an old child is taken for a ping of the new one (M7).
ListenerJoined ==
  pc \in {"decide", "cooldown", "top", "bind", "spawn", "publish", "listen", "exited"}
     => lst \in {"none", "done"}

\* The clean-shutdown flag the main loop reads was written by the child that
\* just went away, never by an earlier one or an earlier supervisor.
FlagIsThisChilds == pc \in Holding \cup {"join", "decide"} /\ flag => wrote

\* No burst of restarts: Limit further spawns take longer than Window.
RestartsAreRateLimited ==
  \A i \in 1..Len(spawns) :
    i + Limit <= Len(spawns) => spawns[i + Limit] - spawns[i] > Window

\* Only a crash or a hang is answered by another spawn: an exit status the
\* child chose ends supervision.
RestartOnlyAfterCrash ==
  [][spawns' # spawns => spawns = <<>> \/ outcome \in {"crash", "hang"}]_vars

\* The supervisor implements its contract (Supervision.tla).
Contract == INSTANCE Supervision WITH
  up <- (\E p \in Pids : Alive(p)),
  final <- (wrote \/ told),
  over <- (pc = "exited")

ContractSpec == Contract!Spec

\* Once a quit signal was delivered to the child, supervision ends, whatever
\* the child makes of the signal.
ToldChildEndsSupervision == told ~> pc = "exited"

\* A child that drops its transport is gone in the end, by itself or by force,
\* and without the ping deadline: the disconnection alone leads there.
ClosedTransportEndsChild ==
  (pc = "watch" /\ conn = "closed") ~> pc = "decide"

\* One browser, and a signal that can reach no other process.
OneOwnBrowser == AtMostOneBrowser /\ SlotNamesOwnChild

\* Supervision neither hangs on a quit nor on a silent child.
NothingHangs == ToldChildEndsSupervision /\ ClosedTransportEndsChild
=============================================================================
