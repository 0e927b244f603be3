-------------------------- MODULE SupervisorProofs --------------------------
(***************************************************************************)
(* Theorems about Supervisor.tla, for any set of process numbers, any      *)
(* window and limit, with and without heartbeat and runtime directory, and *)
(* any bounds on the clock, the signals and the queue; then about          *)
(* WinSupervisor.tla and Lifetime.tla, as MCSupervisor.tla puts them       *)
(* beside it, for any processes and any items of a profile.                *)
(***************************************************************************)
EXTENDS MCSupervisor, FiniteSetTheorems, SequenceTheorems, WellFoundedInduction, TLAPS


(* Every variable always has its type.                                     *)
THEOREM TypeCorrect == Spec => []TypeOK
<1>1. Init => TypeOK
  <2> SUFFICES ASSUME Init PROVE TypeOK
    OBVIOUS
  <2>1. TypeMain
    BY DEF Init, TypeMain, MainPcs, Holding, Idle, Outcomes, Codes
  <2>2. TypeThreads
    BY DEF Init, TypeThreads
  <2>3. TypeChild
    BY DEF Init, TypeChild, Codes
  <2>4. TypeCounts
    BY DEF Init, TypeCounts
  <2>5. TypeLogs
    BY DEF Init, TypeLogs
  <2>6. QED
    BY <2>1, <2>2, <2>3, <2>4, <2>5 DEF TypeOK
<1>2. TypeMain /\ TypeThreads /\ TypeChild /\ [Next]_vars => TypeMain'
  <2> SUFFICES ASSUME TypeMain, TypeThreads, TypeChild, [Next]_vars PROVE TypeMain'
    OBVIOUS
  <2> USE DEF TypeMain, TypeThreads, TypeChild, MainPcs, Holding, Idle, Outcomes, Codes,
              others, lstVars, sigVars, childVars, histVars
  <2>1. CASE Top
    BY <2>1 DEF Top, Finish
  <2>2. CASE Bind
    BY <2>2 DEF Bind, StaleFlag
  <2>3. CASE SpawnFails
    BY <2>3 DEF SpawnFails, Finish
  <2>4. CASE \E p \in Pids : Spawn(p)
    BY <2>4 DEF Spawn
  <2>5. CASE Publish
    BY <2>5 DEF Publish
  <2>6. CASE Listen
    BY <2>6 DEF Listen
  <2>7. CASE Reap
    BY <2>7 DEF Reap, ReapAs
  <2>8. CASE ConnectRecv
    BY <2>8 DEF ConnectRecv
  <2>9. CASE ConnectTimeout \/ HangKill \/ GraceKill
    BY <2>9 DEF ConnectTimeout, HangKill, GraceKill, KillAndReap, ReapAs
  <2>10. CASE WatchRecv
    BY <2>10 DEF WatchRecv
  <2>12. CASE Join
    BY <2>12 DEF Join, JoinReady, ClearedSlot
  <2>13. CASE Decide
    BY <2>13 DEF Decide, Finish
  <2>14. CASE Cooldown
    BY <2>14 DEF Cooldown
  <2>15. CASE ListenerStep
    BY <2>15 DEF ListenerStep, Accept, AcceptEnds, ReadPing, ReadEof, ReadCancelled,
                 ListenerKeeps, mainVars
  <2>16. CASE SignalArrives \/ SignalLoad
    BY <2>16 DEF SignalArrives, SignalLoad, NoChild, SignalKeeps, mainVars
  <2>17. CASE SignalTerm \/ SignalGone
    BY <2>17 DEF SignalTerm, SignalGone, SignalKeeps, mainVars
  <2>18. CASE SignalKill
    BY <2>18 DEF SignalKill, Killed, mainVars
  <2>19. CASE ChildStep
    BY <2>19 DEF ChildStep, ChildConnects, ChildDropsTransport, ChildTouchesFlag,
                 ChildExits, ChildKeeps, Running, mainVars
  <2>20. CASE \E p \in Pids : ForeignProcess(p)
    BY <2>20 DEF ForeignProcess, ChildKeeps, mainVars
  <2>21. CASE Tick
    BY <2>21 DEF Tick, mainVars
  <2>22. CASE UNCHANGED vars
    BY <2>22 DEF vars, mainVars
  <2>23. QED
    BY <2>1, <2>2, <2>3, <2>4, <2>5, <2>6, <2>7, <2>8, <2>9, <2>10, <2>12,
       <2>13, <2>14, <2>15, <2>16, <2>17, <2>18, <2>19, <2>20, <2>21, <2>22
       DEF Next, MainStep, SignalStep
<1>3. TypeMain /\ TypeThreads /\ TypeChild /\ [Next]_vars => TypeThreads'
  <2> SUFFICES ASSUME TypeMain, TypeThreads, TypeChild, [Next]_vars PROVE TypeThreads'
    OBVIOUS
  <2> USE DEF TypeMain, TypeThreads, others, lstVars, sigVars, childVars, histVars
  <2>1. CASE Top
    BY <2>1 DEF Top, Finish
  <2>2. CASE Bind
    BY <2>2 DEF Bind, StaleFlag
  <2>3. CASE SpawnFails
    BY <2>3 DEF SpawnFails, Finish
  <2>4. CASE \E p \in Pids : Spawn(p)
    BY <2>4 DEF Spawn
  <2>5. CASE Publish
    BY <2>5 DEF Publish
  <2>6. CASE Listen
    BY <2>6 DEF Listen
  <2>7. CASE Reap
    BY <2>7 DEF Reap, ReapAs
  <2>8. CASE ConnectRecv
    BY <2>8 DEF ConnectRecv
  <2>9. CASE ConnectTimeout \/ HangKill \/ GraceKill
    BY <2>9 DEF ConnectTimeout, HangKill, GraceKill, KillAndReap, ReapAs
  <2>10. CASE WatchRecv
    BY <2>10 DEF WatchRecv
  <2>12. CASE Join
    BY <2>12 DEF Join, JoinReady, ClearedSlot
  <2>13. CASE Decide
    BY <2>13 DEF Decide, Finish
  <2>14. CASE Cooldown
    BY <2>14 DEF Cooldown
  <2>15. CASE ListenerStep
    BY <2>15 DEF ListenerStep, Accept, AcceptEnds, ReadPing, ReadEof, ReadCancelled,
                 ListenerKeeps, mainVars
  <2>16. CASE SignalArrives \/ SignalLoad
    BY <2>16 DEF SignalArrives, SignalLoad, NoChild, SignalKeeps, mainVars
  <2>17. CASE SignalTerm \/ SignalGone
    BY <2>17 DEF SignalTerm, SignalGone, SignalKeeps, mainVars
  <2>18. CASE SignalKill
    BY <2>18 DEF SignalKill, Killed, mainVars
  <2>19. CASE ChildStep
    BY <2>19 DEF ChildStep, ChildConnects, ChildDropsTransport, ChildTouchesFlag,
                 ChildExits, ChildKeeps, Running, mainVars
  <2>20. CASE \E p \in Pids : ForeignProcess(p)
    BY <2>20 DEF ForeignProcess, ChildKeeps, mainVars
  <2>21. CASE Tick
    BY <2>21 DEF Tick, mainVars
  <2>22. CASE UNCHANGED vars
    BY <2>22 DEF vars, mainVars
  <2>23. QED
    BY <2>1, <2>2, <2>3, <2>4, <2>5, <2>6, <2>7, <2>8, <2>9, <2>10, <2>12,
       <2>13, <2>14, <2>15, <2>16, <2>17, <2>18, <2>19, <2>20, <2>21, <2>22
       DEF Next, MainStep, SignalStep
<1>4. TypeMain /\ TypeThreads /\ TypeChild /\ [Next]_vars => TypeChild'
  <2> SUFFICES ASSUME TypeMain, TypeThreads, TypeChild, [Next]_vars PROVE TypeChild'
    OBVIOUS
  <2> USE DEF TypeMain, TypeThreads, TypeChild, Codes, others, lstVars, sigVars, childVars, histVars
  <2>1. CASE Top
    BY <2>1 DEF Top, Finish
  <2>2. CASE Bind
    BY <2>2 DEF Bind, StaleFlag
  <2>3. CASE SpawnFails
    BY <2>3 DEF SpawnFails, Finish
  <2>4. CASE \E p \in Pids : Spawn(p)
    BY <2>4 DEF Spawn
  <2>5. CASE Publish
    BY <2>5 DEF Publish
  <2>6. CASE Listen
    BY <2>6 DEF Listen
  <2>7. CASE Reap
    BY <2>7 DEF Reap, ReapAs
  <2>8. CASE ConnectRecv
    BY <2>8 DEF ConnectRecv
  <2>9. CASE ConnectTimeout \/ HangKill \/ GraceKill
    BY <2>9 DEF ConnectTimeout, HangKill, GraceKill, KillAndReap, ReapAs
  <2>10. CASE WatchRecv
    BY <2>10 DEF WatchRecv
  <2>12. CASE Join
    BY <2>12 DEF Join, JoinReady, ClearedSlot
  <2>13. CASE Decide
    BY <2>13 DEF Decide, Finish
  <2>14. CASE Cooldown
    BY <2>14 DEF Cooldown
  <2>15. CASE ListenerStep
    BY <2>15 DEF ListenerStep, Accept, AcceptEnds, ReadPing, ReadEof, ReadCancelled,
                 ListenerKeeps, mainVars
  <2>16. CASE SignalArrives \/ SignalLoad
    BY <2>16 DEF SignalArrives, SignalLoad, NoChild, SignalKeeps, mainVars
  <2>17. CASE SignalTerm \/ SignalGone
    BY <2>17 DEF SignalTerm, SignalGone, SignalKeeps, mainVars
  <2>18. CASE SignalKill
    BY <2>18 DEF SignalKill, Killed, mainVars
  <2>19. CASE ChildStep
    BY <2>19 DEF ChildStep, ChildConnects, ChildDropsTransport, ChildTouchesFlag,
                 ChildExits, ChildKeeps, Running, mainVars
  <2>20. CASE \E p \in Pids : ForeignProcess(p)
    BY <2>20 DEF ForeignProcess, ChildKeeps, mainVars
  <2>21. CASE Tick
    BY <2>21 DEF Tick, mainVars
  <2>22. CASE UNCHANGED vars
    BY <2>22 DEF vars, mainVars
  <2>23. QED
    BY <2>1, <2>2, <2>3, <2>4, <2>5, <2>6, <2>7, <2>8, <2>9, <2>10, <2>12,
       <2>13, <2>14, <2>15, <2>16, <2>17, <2>18, <2>19, <2>20, <2>21, <2>22
       DEF Next, MainStep, SignalStep
<1>5. TypeCounts /\ [Next]_vars => TypeCounts'
  <2> SUFFICES ASSUME TypeCounts, [Next]_vars PROVE TypeCounts'
    OBVIOUS
  <2>1. CASE Decide
    BY <2>1 DEF Decide, Record, TypeCounts, sigVars, backoff
  <2>2. CASE SignalArrives \/ Tick
    BY <2>2 DEF SignalArrives, SignalKeeps, Tick, mainVars, backoff, sigVars, TypeCounts
  <2>3. CASE ~Decide /\ ~SignalArrives /\ ~Tick
    <3>1. UNCHANGED <<signals, now, restarts, crashes>>
      BY <2>3 DEF Next, MainStep, ListenerStep, SignalStep, ChildStep, vars, mainVars, others,
         backoff, sigVars, Top, Bind, SpawnFails, Spawn, Publish, Listen, Reap, ReapAs,
         KillAndReap, ConnectRecv, ConnectTimeout, WatchRecv, HangKill,
         GraceKill, Join, Cooldown, Accept, AcceptEnds, ReadPing, ReadEof, ReadCancelled,
         ListenerKeeps, SignalLoad, SignalTerm, SignalGone, SignalKill, SignalKeeps,
         ChildConnects, ChildDropsTransport, ChildTouchesFlag, ChildExits, ChildKeeps,
         ForeignProcess
    <3>2. QED
      BY <3>1 DEF TypeCounts
  <2>4. QED
    BY <2>1, <2>2, <2>3
<1>6. TypeCounts /\ TypeLogs /\ [Next]_vars => TypeLogs'
  <2> SUFFICES ASSUME TypeCounts, TypeLogs, [Next]_vars PROVE TypeLogs'
    OBVIOUS
  <2>1. chan' = chan \/ chan' = <<>> \/ (chan # <<>> /\ chan' = Tail(chan))
          \/ (\E e \in Events : chan' = Append(chan, e))
    BY DEF Next, MainStep, ListenerStep, SignalStep, ChildStep, vars, mainVars, others,
       lstVars, Top, Bind, SpawnFails, Spawn, Publish, Listen, Reap, ReapAs,
       KillAndReap, ConnectRecv, ConnectTimeout, WatchRecv, HangKill,
       GraceKill, Join, Decide, Cooldown, Accept, AcceptEnds, ReadPing, ReadEof, ReadCancelled,
       ListenerKeeps, SignalArrives, SignalLoad, SignalTerm, SignalGone, SignalKill,
       SignalKeeps, ChildConnects, ChildDropsTransport, ChildTouchesFlag, ChildExits,
       ChildKeeps, ForeignProcess, Tick, Events
  <2>2. spawns' = spawns \/ spawns' = Append(spawns, now)
    BY DEF Next, MainStep, ListenerStep, SignalStep, ChildStep, vars, mainVars, others,
       histVars, Top, Bind, SpawnFails, Spawn, Publish, Listen, Reap, ReapAs,
       KillAndReap, ConnectRecv, ConnectTimeout, WatchRecv, HangKill,
       GraceKill, Join, Decide, Cooldown, Accept, AcceptEnds, ReadPing, ReadEof, ReadCancelled,
       ListenerKeeps, SignalArrives, SignalLoad, SignalTerm, SignalGone, SignalKill,
       SignalKeeps, ChildConnects, ChildDropsTransport, ChildTouchesFlag, ChildExits,
       ChildKeeps, ForeignProcess, Tick
  <2>3. chan' \in Seq(Events)
    <3>1. chan \in Seq(Events)
      BY DEF TypeLogs
    <3>2. chan # <<>> => Tail(chan) \in Seq(Events)
      BY <3>1
    <3>3. \A e \in Events : Append(chan, e) \in Seq(Events)
      BY <3>1
    <3>4. QED
      <4>1. CASE \E e \in Events : chan' = Append(chan, e)
        BY <3>3, <4>1, Zenon
      <4>2. CASE chan' = <<>>
        BY <4>2
      <4>3. QED
        BY <2>1, <3>1, <3>2, <4>1, <4>2, Zenon
  <2>4. spawns' \in Seq(Nat)
    <3>1. spawns \in Seq(Nat) /\ now \in Nat
      BY DEF TypeLogs, TypeCounts
    <3>2. Append(spawns, now) \in Seq(Nat)
      BY <3>1
    <3>3. QED
      BY <2>2, <3>1, <3>2
  <2>5. QED
    BY <2>3, <2>4 DEF TypeLogs
<1>7. QED
  BY <1>1, <1>2, <1>3, <1>4, <1>5, <1>6, PTL DEF Spec, TypeOK

-----------------------------------------------------------------------------
(* The inductive invariant behind the safety theorems.                     *)

Busy == {"running", "zombie"}

\* The only process of ours is this spawn's child, and only until it is reaped.
ChildInv ==
  /\ pc \in Holding => cur \in Pids /\ proc[cur] \in Busy
  /\ \A p \in Pids : proc[p] \in Busy => pc \in Holding /\ p = cur

\* From the removal before the spawn to the decision after the reaping, the
\* flag file exists exactly if this spawn's child touched it.
FlagInv ==
  /\ pc = "spawn" => ~flag
  /\ pc \in Holding \cup {"join", "decide"} => flag = wrote

\* A signal is held, or was delivered, only after shutdown_requested was set.
QuitInv ==
  /\ sigPc # "idle" => shutdown
  /\ told => shutdown

\* The loop goes on to another spawn only if nothing final happened.
ResumeInv == pc \in {"cooldown", "top", "bind", "spawn"} => ~wrote /\ ~told

SlotInv == slot # NoPid => slot = cur /\ pc \in Holding \cup {"join"}

IInv == ChildInv /\ FlagInv /\ QuitInv /\ ResumeInv /\ SlotInv /\ ListenerJoined

\* The inductive invariant of Supervisor.
LEMMA IInvHolds == Spec => []IInv
<1> USE DEF Busy, Alive
<1>1. Init => IInv
  BY DEF Init, IInv, ChildInv, FlagInv, QuitInv, ResumeInv, SlotInv, ListenerJoined, Holding
<1>2. TypeMain /\ TypeThreads /\ TypeChild /\ IInv /\ [Next]_vars => IInv'
  <2> SUFFICES ASSUME TypeMain, TypeThreads, TypeChild, IInv, [Next]_vars PROVE IInv'
    OBVIOUS
  <2> USE DEF TypeThreads, TypeChild, IInv, ChildInv, FlagInv, QuitInv, ResumeInv, SlotInv,
              ListenerJoined, Holding, others, lstVars, sigVars, childVars, histVars
  <2>1. CASE Top
    BY <2>1 DEF Top, Finish
  <2>2. CASE Bind
    BY <2>2 DEF Bind, StaleFlag
  <2>3. CASE SpawnFails
    BY <2>3 DEF SpawnFails, Finish
  <2>4. CASE \E p \in Pids : Spawn(p)
    <3>1. ChildInv'
      BY <2>4 DEF Spawn
    <3>2. (FlagInv /\ QuitInv /\ ResumeInv)'
      <4>1. /\ pc' = "publish" /\ ~flag' /\ ~wrote' /\ ~told' /\ flag' \in BOOLEAN
            /\ wrote' \in BOOLEAN /\ sigPc' = sigPc /\ shutdown' = shutdown
        <5>1. PICK p \in Pids : Spawn(p)
          BY <2>4
        <5>2. pc = "spawn" /\ pc' = "publish" /\ sigPc' = sigPc /\ shutdown' = shutdown
          BY <5>1 DEF Spawn
        <5>3. flag' = flag /\ wrote' = FALSE /\ told' = FALSE
          BY <5>1 DEF Spawn
        <5>4. QED
          BY <5>2, <5>3
      <4>2. QED
        BY <4>1
    <3>3. (SlotInv /\ ListenerJoined)'
      BY <2>4 DEF Spawn
    <3>4. QED
      BY <3>1, <3>2, <3>3
  <2>5. CASE Publish
    BY <2>5 DEF Publish
  <2>6. CASE Listen
    BY <2>6 DEF Listen
  <2>7. CASE Reap
    BY <2>7 DEF Reap, ReapAs
  <2>8. CASE ConnectRecv
    BY <2>8 DEF ConnectRecv
  <2>9. CASE ConnectTimeout \/ HangKill \/ GraceKill
    BY <2>9 DEF ConnectTimeout, HangKill, GraceKill, KillAndReap, ReapAs
  <2>10. CASE WatchRecv
    BY <2>10 DEF WatchRecv
  <2>12. CASE Join
    BY <2>12 DEF Join, JoinReady, ClearedSlot
  <2>13. CASE Decide
    <3>1. pc' = "cooldown" => ~flag /\ ~shutdown
      BY <2>13 DEF Decide, Classify, QuitAsked, Finish
    <3>2. pc' \in {"cooldown", "exited"}
      BY <2>13 DEF Decide, Finish
    <3>3. QED
      BY <2>13, <3>1, <3>2 DEF Decide
  <2>14. CASE Cooldown
    BY <2>14 DEF Cooldown
  <2>15. CASE ListenerStep
    BY <2>15 DEF ListenerStep, Accept, AcceptEnds, ReadPing, ReadEof, ReadCancelled,
                 ListenerKeeps, mainVars
  <2>16. CASE SignalArrives \/ SignalLoad
    BY <2>16 DEF SignalArrives, SignalLoad, NoChild, SignalKeeps, mainVars
  <2>17. CASE SignalTerm \/ SignalGone
    BY <2>17 DEF SignalTerm, SignalGone, SignalKeeps, mainVars
  <2>18. CASE SignalKill
    BY <2>18 DEF SignalKill, Killed, mainVars
  <2>19. CASE ChildStep
    <3>1. UNCHANGED <<pc, cur, slot, sigPc, shutdown, told, lst>>
      BY <2>19 DEF ChildStep, ChildConnects, ChildDropsTransport, ChildTouchesFlag,
                   ChildExits, ChildKeeps, mainVars
    <3>2. ChildInv'
      BY <2>19, <3>1 DEF ChildStep, ChildConnects, ChildDropsTransport, ChildTouchesFlag,
                         ChildExits, Running
    <3>3. (FlagInv /\ ResumeInv)'
      BY <2>19, <3>1 DEF ChildStep, ChildConnects, ChildDropsTransport, ChildTouchesFlag,
                         ChildExits, Running
    <3>4. QED
      BY <3>1, <3>2, <3>3
  <2>20. CASE \E p \in Pids : ForeignProcess(p)
    BY <2>20 DEF ForeignProcess, ChildKeeps, mainVars
  <2>21. CASE Tick
    BY <2>21 DEF Tick, mainVars
  <2>22. CASE UNCHANGED vars
    BY <2>22 DEF vars, mainVars
  <2>23. QED
    BY <2>1, <2>2, <2>3, <2>4, <2>5, <2>6, <2>7, <2>8, <2>9, <2>10, <2>12,
       <2>13, <2>14, <2>15, <2>16, <2>17, <2>18, <2>19, <2>20, <2>21, <2>22
       DEF Next, MainStep, SignalStep
<1>3. QED
  BY <1>1, <1>2, TypeCorrect, PTL DEF Spec, TypeOK

-----------------------------------------------------------------------------
(* Two browsers never run at once.                                         *)
THEOREM OneBrowser == Spec => []AtMostOneBrowser
<1>1. IInv => AtMostOneBrowser
  BY DEF IInv, ChildInv, AtMostOneBrowser, Busy, Alive
<1>2. QED
  BY <1>1, IInvHolds, PTL

(* The clean-shutdown flag that is read was written by the child that went  *)
(* away.                                                                   *)
THEOREM FlagOwned == Spec => []FlagIsThisChilds
<1>1. IInv => FlagIsThisChilds
  BY DEF IInv, FlagInv, FlagIsThisChilds
<1>2. QED
  BY <1>1, IInvHolds, PTL

(* child_pid_slot names this spawn's child, alive or not yet reaped, except *)
(* between reaping and joining the listener.                               *)
THEOREM SlotOwned == Spec => []SlotNamesOwnChild
<1>1. IInv => SlotNamesOwnChild
  BY DEF IInv, ChildInv, SlotInv, SlotNamesOwnChild, Busy, Holding
<1>2. QED
  BY <1>1, IInvHolds, PTL

(* The supervisor implements its contract.                                 *)
THEOREM Implements == Spec => ContractSpec
<1>1. Init => Contract!Init
  BY DEF Init, Contract!Init, Alive
<1>2. TypeMain /\ TypeThreads /\ TypeChild /\ IInv /\ [Next]_vars => [Contract!Next]_(Contract!vars)
  <2> SUFFICES ASSUME TypeMain, TypeThreads, TypeChild, IInv, [Next]_vars
               PROVE  [Contract!Next]_(Contract!vars)
    OBVIOUS
  <2> DEFINE Up == \E p \in Pids : Alive(p)
             Final == wrote \/ told
             Over == pc = "exited"
             Same == Up' = Up /\ Final' = Final /\ Over' = Over
             Start == ~Up /\ ~Final /\ ~Over /\ Up' /\ Final' = Final /\ Over' = Over
             Conclude == Up /\ Final' /\ Up' = Up /\ Over' = Over
             Stop == Up /\ ~Up' /\ Final' = Final /\ Over' = Over
             Leave == ~Up /\ ~Over /\ Over' /\ Up' = Up /\ Final' = Final
  <2> SUFFICES Same \/ Start \/ Conclude \/ Stop \/ Leave
    BY DEF Contract!Next, Contract!Start, Contract!Conclude, Contract!Stop, Contract!Leave,
           Contract!vars
  <2>0. /\ pc \notin Holding => ~Up
        /\ pc \in Holding => (Up <=> Alive(cur))
    BY DEF IInv, ChildInv, Busy, Alive
  <2> USE DEF others, lstVars, sigVars, childVars, histVars, Holding, Alive
  <2>1. CASE SpawnFails \/ Top \/ Decide
    BY <2>1, <2>0 DEF SpawnFails, Top, Decide, Finish
  <2>2. CASE \E p \in Pids : Spawn(p)
    BY <2>2, <2>0 DEF Spawn, IInv, ResumeInv, TypeThreads, TypeChild
  <2>3. CASE Bind \/ Publish \/ Listen \/ ConnectRecv \/ WatchRecv \/ Join \/ Cooldown
    <3>1. UNCHANGED <<proc, wrote, told>> /\ pc # "exited" /\ pc' # "exited"
      BY <2>3 DEF Bind, Publish, Listen, ConnectRecv, WatchRecv, Join, Cooldown
    <3>2. QED
      BY <3>1
  <2>4. CASE Reap \/ ConnectTimeout \/ HangKill \/ GraceKill
    <3>1. /\ proc' = [proc EXCEPT ![cur] = "free"]
          /\ wrote' = wrote /\ told' = told /\ pc' = "join" /\ pc # "exited"
          /\ pc \in Holding
      BY <2>4 DEF Reap, ConnectTimeout, HangKill, GraceKill, KillAndReap, ReapAs
    <3>2. ~Up'
      BY <3>1 DEF IInv, ChildInv, Busy, TypeThreads, TypeChild
    <3>3. QED
      BY <3>1, <3>2
  <2>5. CASE ListenerStep
    BY <2>5 DEF ListenerStep, Accept, AcceptEnds, ReadPing, ReadEof, ReadCancelled,
                ListenerKeeps, mainVars
  <2>6. CASE SignalArrives \/ SignalLoad \/ SignalTerm \/ SignalGone
    BY <2>6 DEF SignalArrives, SignalLoad, SignalTerm, SignalGone, SignalKeeps, mainVars,
       TypeThreads, TypeChild
  <2>7. CASE SignalKill
    <3>1. /\ wrote' = wrote /\ told' = told /\ pc' = pc /\ cur' = cur /\ held \in Pids
          /\ proc' = [proc EXCEPT ![held] = Killed(@)]
      BY <2>7 DEF SignalKill, mainVars, TypeThreads, TypeChild
    <3>2. CASE Alive(held)
      <4>1. Up /\ ~Up'
        BY <3>1, <3>2 DEF IInv, ChildInv, Busy, TypeThreads, TypeChild, Killed
      <4>2. QED
        BY <3>1, <4>1
    <3>3. CASE ~Alive(held)
      <4>1. \A p \in Pids : Alive(p)' = Alive(p)
        BY <3>1, <3>3 DEF TypeOK, Killed
      <4>2. QED
        BY <3>1, <4>1
    <3>4. QED
      BY <3>2, <3>3
  <2>8. CASE ChildConnects \/ ChildDropsTransport \/ ChildTouchesFlag
    BY <2>8, <2>0 DEF ChildConnects, ChildDropsTransport, ChildTouchesFlag, ChildKeeps, Running,
                      mainVars
  <2>9. CASE \E c \in Codes : ChildExits(c)
    <3>1. /\ proc' = [proc EXCEPT ![cur] = "zombie"] /\ Alive(cur) /\ pc \in Holding
          /\ wrote' = wrote /\ told' = told /\ pc' = pc
      BY <2>9 DEF ChildExits, ChildKeeps, Running, mainVars
    <3>2. Up /\ ~Up'
      BY <3>1 DEF IInv, ChildInv, Busy, TypeThreads, TypeChild
    <3>3. QED
      BY <3>1, <3>2
  <2>10. CASE \E p \in Pids : ForeignProcess(p)
    <3>1. \A q \in Pids : Alive(q)' = Alive(q)
      BY <2>10 DEF ForeignProcess, TypeThreads, TypeChild
    <3>2. QED
      BY <2>10, <3>1 DEF ForeignProcess, ChildKeeps, mainVars
  <2>11. CASE Tick \/ UNCHANGED vars
    BY <2>11 DEF Tick, vars, mainVars
  <2>12. QED
    BY <2>1, <2>2, <2>3, <2>4, <2>5, <2>6, <2>7, <2>8, <2>9, <2>10, <2>11
       DEF Next, MainStep, SignalStep, ChildStep
<1>3. QED
  BY <1>1, <1>2, TypeCorrect, IInvHolds, PTL DEF Spec, TypeOK, ContractSpec, Contract!Spec

-----------------------------------------------------------------------------
\* From the decision to restart to the spawn it leads to, the outcome of the
\* last child stays what was decided on.
CrashInv ==
  pc \in {"cooldown", "top", "bind", "spawn"} => spawns = <<>> \/ outcome \in {"crash", "hang"}

\* Crashes are counted as they happen.
LEMMA CrashInvHolds == Spec => []CrashInv
<1>1. Init => CrashInv
  BY DEF Init, CrashInv
<1>2. TypeMain /\ CrashInv /\ [Next]_vars => CrashInv'
  <2> SUFFICES ASSUME TypeMain, CrashInv, [Next]_vars PROVE CrashInv'
    OBVIOUS
  <2> USE DEF CrashInv, others, histVars
  <2>1. CASE Decide
    <3>1. outcome \in Outcomes
      BY DEF TypeMain
    <3>2. pc' = "cooldown" => outcome \in {"crash", "hang"}
      BY <2>1, <3>1 DEF Decide, Classify, Finish, Outcomes, Codes
    <3>3. pc' \in {"cooldown", "exited"} /\ UNCHANGED <<outcome, spawns>>
      BY <2>1 DEF Decide, Finish
    <3>4. QED
      BY <3>2, <3>3
  <2>2. CASE Top \/ Bind \/ Cooldown \/ SpawnFails
    BY <2>2 DEF Top, Bind, Cooldown, SpawnFails, Finish
  <2>3. CASE (\E p \in Pids : Spawn(p)) \/ Publish \/ Listen \/ ConnectRecv \/ WatchRecv \/ Join
    BY <2>3 DEF Spawn, Publish, Listen, ConnectRecv, WatchRecv, Join
  <2>4. CASE Reap \/ ConnectTimeout \/ HangKill \/ GraceKill
    BY <2>4 DEF Reap, ConnectTimeout, HangKill, GraceKill, KillAndReap, ReapAs
  <2>5. CASE ListenerStep \/ SignalArrives \/ SignalStep \/ ChildStep
             \/ (\E p \in Pids : ForeignProcess(p)) \/ Tick \/ UNCHANGED vars
    <3>1. UNCHANGED <<pc, outcome, spawns>>
      BY <2>5 DEF ListenerStep, Accept, AcceptEnds, ReadPing, ReadEof, ReadCancelled, ListenerKeeps,
                  SignalArrives, SignalStep, SignalLoad, SignalTerm, SignalGone, SignalKill, SignalKeeps,
                  ChildStep, ChildConnects, ChildDropsTransport, ChildTouchesFlag, ChildExits,
                  ChildKeeps, ForeignProcess, Tick, vars, mainVars
    <3>2. QED
      BY <3>1
  <2>6. QED
    BY <2>1, <2>2, <2>3, <2>4, <2>5 DEF Next, MainStep
<1>3. QED
  BY <1>1, <1>2, TypeCorrect, PTL DEF Spec, TypeOK

(* Only a crash or a hang is answered by another spawn.                    *)
THEOREM RestartIsDeserved == Spec => RestartOnlyAfterCrash
<1> DEFINE Deserved == spawns' # spawns => spawns = <<>> \/ outcome \in {"crash", "hang"}
<1>1. CrashInv /\ [Next]_vars => [Deserved]_vars
  <2> SUFFICES ASSUME CrashInv, Next PROVE Deserved
    OBVIOUS
  <2>1. CASE \E p \in Pids : Spawn(p)
    BY <2>1 DEF Spawn, CrashInv
  <2>2. CASE ~ \E p \in Pids : Spawn(p)
    <3>1. CASE Top \/ Bind \/ SpawnFails \/ Publish \/ Listen \/ ConnectRecv \/ WatchRecv \/ Join
               \/ Decide \/ Cooldown \/ Reap \/ ConnectTimeout \/ HangKill \/ GraceKill
      BY <3>1 DEF Top, Bind, SpawnFails, Publish, Listen, ConnectRecv, WatchRecv, Join, Decide,
                  Cooldown, Reap, ConnectTimeout, HangKill, GraceKill, KillAndReap, ReapAs, Finish,
                  others, histVars
    <3>2. CASE ListenerStep \/ SignalArrives \/ SignalStep \/ ChildStep
               \/ (\E p \in Pids : ForeignProcess(p)) \/ Tick
      BY <3>2 DEF ListenerStep, Accept, AcceptEnds, ReadPing, ReadEof, ReadCancelled, ListenerKeeps,
                  SignalArrives, SignalStep, SignalLoad, SignalTerm, SignalGone, SignalKill, SignalKeeps,
                  ChildStep, ChildConnects, ChildDropsTransport, ChildTouchesFlag, ChildExits,
                  ChildKeeps, ForeignProcess, Tick, histVars
    <3>3. QED
      BY <2>2, <3>1, <3>2 DEF Next, MainStep
  <2>3. QED
    BY <2>1, <2>2
<1>2. QED
  BY <1>1, CrashInvHolds, PTL DEF Spec, RestartOnlyAfterCrash

-----------------------------------------------------------------------------
(* The crash window.                                                       *)

Between == {"cooldown", "top", "bind", "spawn"}
During  == Holding \cup {"join", "decide"}

Recorded(k) == \E t \in Nat : <<k, t>> \in crashes

\* The times of the spawns are in order, and the window holds every earlier
\* child that is not longer gone than Window; before a spawn it holds less than
\* Limit of them.
RateInv ==
  /\ spawns \in Seq(Nat) /\ restarts \in Nat /\ now \in Nat
  /\ restarts <= Len(spawns)
  /\ pc \in Between => Len(spawns) = restarts
  /\ pc \in During => Len(spawns) = restarts + 1
  /\ \A i \in 1..Len(spawns) : spawns[i] <= now
  /\ \A i, j \in 1..Len(spawns) : i <= j => spawns[i] <= spawns[j]
  /\ IsFiniteSet(crashes) /\ crashes \subseteq Nat \X Nat
  /\ \A c \in crashes : c[1] \in 1..restarts /\ spawns[c[1]] <= c[2]
  /\ \A k \in 1..restarts : Recorded(k) \/ spawns[k] + Window < now
  /\ pc \in Between => Cardinality(crashes) < Limit
  /\ RestartsAreRateLimited

\* What changes neither the window, the spawns nor the clock.
LEMMA RateFrame ==
  ASSUME RateInv, UNCHANGED <<spawns, crashes, restarts, now>>,
         pc' \in Between => pc \in Between, pc' \in During => pc \in During
  PROVE  RateInv'
BY DEF RateInv, RestartsAreRateLimited, Recorded

\* Of the last Limit children one is not in the window any more.
LEMMA SomeForgotten ==
  ASSUME RateInv, pc \in Between, NEW i \in 1..restarts, i + Limit = restarts + 1
  PROVE  \E k \in i..restarts : spawns[k] + Window < now
<1> SUFFICES ASSUME \A k \in i..restarts : ~(spawns[k] + Window < now) PROVE FALSE
  OBVIOUS
<1>1. restarts \in Nat /\ i \in Nat /\ Limit \in Nat
  BY LimitAssumption DEF RateInv
<1>2. \A k \in i..restarts : Recorded(k)
  <2> TAKE k \in i..restarts
  <2>1. k \in 1..restarts
    BY <1>1
  <2>2. QED
    BY <2>1 DEF RateInv
<1> DEFINE f == [k \in i..restarts |-> <<k, CHOOSE t \in Nat : <<k, t>> \in crashes>>]
<1>3. f \in Injection(i..restarts, crashes)
  <2>1. \A k \in i..restarts : f[k] = <<k, CHOOSE t \in Nat : <<k, t>> \in crashes>> /\ f[k] \in crashes
    BY <1>2 DEF Recorded
  <2>2. f \in [i..restarts -> crashes]
    BY <2>1
  <2>3. \A k, l \in i..restarts : f[k] = f[l] => k = l
    BY <2>1
  <2> HIDE DEF f
  <2>4. QED
    BY <2>2, <2>3 DEF Injection, IsInjective
<1>4. Cardinality(i..restarts) <= Cardinality(crashes)
  BY <1>3, FS_Injection DEF RateInv
<1>5. Cardinality(i..restarts) = Limit
  <2>1. Cardinality(i..restarts) = IF i > restarts THEN 0 ELSE restarts - i + 1
    BY <1>1, FS_Interval
  <2>2. QED
    BY <1>1, <2>1
<1>6. Cardinality(crashes) \in Nat /\ Cardinality(crashes) < Limit
  BY FS_CardinalityType DEF RateInv
<1>7. QED
  BY <1>1, <1>4, <1>5, <1>6

LEMMA SpawnKeepsRate == ASSUME NEW p, RateInv, Spawn(p) PROVE RateInv'
<1> DEFINE n == Len(spawns)
<1>1. /\ pc = "spawn" /\ pc' = "publish" /\ spawns' = Append(spawns, now)
      /\ UNCHANGED <<crashes, restarts, now>>
  BY DEF Spawn, backoff
<1>2. /\ spawns \in Seq(Nat) /\ n \in Nat /\ n = restarts /\ now \in Nat /\ restarts \in Nat
      /\ Window \in Nat /\ Limit \in Nat \ {0}
  BY <1>1, WindowAssumption, LimitAssumption DEF RateInv, Between
<1>3. /\ spawns' \in Seq(Nat) /\ Len(spawns') = n + 1 /\ spawns'[n + 1] = now
      /\ \A i \in 1..n : spawns'[i] = spawns[i] /\ spawns[i] \in Nat
  BY <1>1, <1>2, AppendProperties, ElementOfSeq
<1>4. /\ \A i \in 1..n : spawns[i] <= now
      /\ \A i, j \in 1..n : i <= j => spawns[i] <= spawns[j]
  BY DEF RateInv
<1> HIDE DEF n
<1>5. /\ \A i \in 1..(n + 1) : spawns'[i] <= now
      /\ \A i, j \in 1..(n + 1) : i <= j => spawns'[i] <= spawns'[j]
  <2>1. \A i \in 1..(n + 1) : i \in 1..n \/ i = n + 1
    BY <1>2
  <2>2. \A i \in 1..(n + 1) : spawns'[i] <= now
    BY <1>2, <1>3, <1>4, <2>1
  <2>3. ASSUME NEW i \in 1..(n + 1), NEW j \in 1..(n + 1), i <= j PROVE spawns'[i] <= spawns'[j]
    <3>1. CASE j = n + 1
      BY <1>3, <2>2, <3>1
    <3>2. CASE j # n + 1
      <4>1. i \in 1..n /\ j \in 1..n
        BY <1>2, <2>3, <3>2
      <4>2. QED
        BY <1>3, <1>4, <2>3, <4>1
    <3>3. QED
      BY <3>1, <3>2
  <2>4. QED
    BY <2>2, <2>3
<1>6. RestartsAreRateLimited'
  <2> SUFFICES ASSUME NEW i \in 1..(n + 1), i + Limit <= n + 1
               PROVE  spawns'[i + Limit] - spawns'[i] > Window
    BY <1>1, <1>3 DEF RestartsAreRateLimited
  <2>1. i \in 1..n /\ i + Limit \in 1..(n + 1)
    BY <1>2
  <2>2. CASE i + Limit = n + 1
    <3>1. PICK k \in i..restarts : spawns[k] + Window < now
      BY <1>1, <1>2, <2>1, <2>2, SomeForgotten DEF Between
    <3>2. k \in 1..n /\ i <= k
      BY <1>2, <2>1
    <3>3. spawns[i] <= spawns[k] /\ spawns[i] \in Nat /\ spawns[k] \in Nat
      BY <1>3, <1>4, <2>1, <3>2
    <3>4. spawns'[i] = spawns[i] /\ spawns'[i + Limit] = now
      BY <1>3, <2>1, <2>2
    <3>5. QED
      BY <1>2, <3>1, <3>3, <3>4
  <2>3. CASE i + Limit # n + 1
    <3>1. i + Limit \in 1..n /\ i + Limit <= n
      BY <1>2, <2>1, <2>3
    <3>2. spawns[i + Limit] - spawns[i] > Window
      BY <2>1, <3>1 DEF RateInv, RestartsAreRateLimited, n
    <3>3. QED
      BY <1>3, <2>1, <3>1, <3>2
  <2>4. QED
    BY <2>2, <2>3
<1>7. \A k \in 1..restarts : spawns'[k] = spawns[k]
  BY <1>2, <1>3
<1>8. /\ \A c \in crashes : c[1] \in 1..restarts /\ spawns'[c[1]] <= c[2]
      /\ \A k \in 1..restarts : Recorded(k) \/ spawns'[k] + Window < now
  BY <1>7 DEF RateInv
<1>9. QED
  BY <1>1, <1>2, <1>3, <1>5, <1>6, <1>8 DEF RateInv, Between, During, Recorded, Holding

LEMMA DecideKeepsRate == RateInv /\ Decide => RateInv'
<1> SUFFICES ASSUME RateInv, Decide PROVE RateInv'
  OBVIOUS
<1>1. /\ pc = "decide" /\ pc' \in {"cooldown", "exited"} /\ UNCHANGED <<spawns, now>>
      /\ \/ UNCHANGED <<crashes, restarts>> /\ pc' = "exited"
         \/ /\ restarts' = restarts + 1 /\ crashes' = Record(crashes, restarts + 1, now, Window)
            /\ pc' = "cooldown" => ~LimitReached(crashes', Limit)
  BY DEF Decide, Finish, backoff, histVars
<1>2. CASE UNCHANGED <<crashes, restarts>> /\ pc' = "exited"
  BY <1>1, <1>2, RateFrame DEF Between, During, Holding
<1>3. CASE /\ restarts' = restarts + 1 /\ crashes' = Record(crashes, restarts + 1, now, Window)
           /\ pc' = "cooldown" => ~LimitReached(crashes', Limit)
  <2> DEFINE n == restarts + 1
  <2>1. /\ restarts \in Nat /\ n \in Nat /\ now \in Nat /\ Window \in Nat /\ Limit \in Nat
        /\ spawns \in Seq(Nat) /\ Len(spawns) = n /\ \A i \in 1..n : spawns[i] \in Nat /\ spawns[i] <= now
    BY <1>1, WindowAssumption, LimitAssumption, ElementOfSeq DEF RateInv, During
  <2>2. IsFiniteSet(crashes) /\ crashes \subseteq Nat \X Nat
    BY DEF RateInv
  <2> HIDE DEF n
  <2>3. crashes' = {c \in crashes \cup {<<n, now>>} : c[2] + Window >= now}
    BY <1>3 DEF Record, n
  <2>4. IsFiniteSet(crashes') /\ crashes' \subseteq Nat \X Nat
    <3>1. IsFiniteSet(crashes \cup {<<n, now>>})
      BY <2>2, FS_AddElement
    <3>2. crashes' \in SUBSET (crashes \cup {<<n, now>>})
      BY <2>3
    <3>3. IsFiniteSet(crashes')
      BY <3>1, <3>2, FS_Subset
    <3>4. QED
      BY <2>1, <2>2, <3>2, <3>3
  <2>5. ASSUME NEW c \in crashes' PROVE c[1] \in 1..n /\ spawns[c[1]] <= c[2]
    <3>1. CASE c \in crashes
      <4>1. c[1] \in 1..restarts /\ spawns[c[1]] <= c[2]
        BY <3>1 DEF RateInv
      <4>2. QED
        BY <2>1, <4>1 DEF n
    <3>2. CASE c = <<n, now>>
      BY <2>1, <3>2 DEF n
    <3>3. QED
      BY <2>3, <3>1, <3>2
  <2>6. ASSUME NEW k \in 1..n PROVE Recorded(k)' \/ spawns[k] + Window < now
    <3>1. CASE k = n
      <4>1. <<n, now>> \in crashes'
        BY <2>1, <2>3
      <4>2. QED
        BY <2>1, <3>1, <4>1 DEF Recorded
    <3>2. CASE k # n
      <4>1. k \in 1..restarts
        BY <2>1, <3>2 DEF n
      <4>2. CASE spawns[k] + Window < now
        BY <4>2
      <4>3. CASE Recorded(k)
        <5>1. PICK t \in Nat : <<k, t>> \in crashes
          BY <4>3 DEF Recorded
        <5>2. spawns[k] <= t /\ spawns[k] \in Nat
          BY <2>1, <2>6, <5>1 DEF RateInv
        <5>3. CASE t + Window >= now
          BY <2>3, <5>1, <5>3 DEF Recorded
        <5>4. CASE ~(t + Window >= now)
          BY <2>1, <5>2, <5>4
        <5>5. QED
          BY <5>3, <5>4
      <4>4. QED
        BY <4>1, <4>2, <4>3 DEF RateInv
    <3>3. QED
      BY <3>1, <3>2
  <2>7. pc' \in Between => Cardinality(crashes') < Limit
    <3>1. Cardinality(crashes') \in Nat
      BY <2>4, FS_CardinalityType
    <3>2. QED
      BY <1>1, <1>3, <2>1, <3>1 DEF Between, LimitReached
  <2>8. RestartsAreRateLimited'
    BY <1>1 DEF RateInv, RestartsAreRateLimited
  <2>9. /\ restarts' = n /\ \A i \in 1..Len(spawns') : spawns'[i] <= now'
        /\ \A i, j \in 1..Len(spawns') : i <= j => spawns'[i] <= spawns'[j]
    BY <1>1, <1>3 DEF RateInv, n
  <2>10. QED
    BY <1>1, <2>1, <2>4, <2>5, <2>6, <2>7, <2>8, <2>9 DEF RateInv, During, Holding
<1>4. QED
  BY <1>1, <1>2, <1>3

LEMMA TickKeepsRate == RateInv /\ Tick => RateInv'
<1> SUFFICES ASSUME RateInv, Tick PROVE RateInv'
  OBVIOUS
<1>1. now' = now + 1 /\ UNCHANGED <<pc, crashes, restarts, spawns>>
  BY DEF Tick, mainVars, backoff, histVars
<1>2. now \in Nat /\ restarts \in Nat /\ Window \in Nat /\ restarts <= Len(spawns) /\ Len(spawns) \in Nat
      /\ \A i \in 1..Len(spawns) : spawns[i] \in Nat
  BY WindowAssumption, ElementOfSeq DEF RateInv
<1>3. \A i \in 1..Len(spawns) : spawns[i] <= now'
  BY <1>1, <1>2 DEF RateInv
<1>4. \A k \in 1..restarts : Recorded(k) \/ spawns[k] + Window < now'
  <2> TAKE k \in 1..restarts
  <2>1. k \in 1..Len(spawns) /\ (Recorded(k) \/ spawns[k] + Window < now)
    BY <1>2 DEF RateInv
  <2>2. QED
    BY <1>1, <1>2, <2>1
<1>5. QED
  BY <1>1, <1>2, <1>3, <1>4 DEF RateInv, Recorded, RestartsAreRateLimited

\* Restarts are counted as they happen.
LEMMA RateInvHolds == Spec => []RateInv
<1>1. Init => RateInv
  <2> SUFFICES ASSUME Init PROVE RateInv
    OBVIOUS
  <2>1. IsFiniteSet(crashes) /\ Cardinality(crashes) = 0
    BY FS_EmptySet DEF Init
  <2>2. QED
    BY <2>1, LimitAssumption DEF Init, RateInv, During, Holding, RestartsAreRateLimited
<1>2. RateInv /\ [Next]_vars => RateInv'
  <2> SUFFICES ASSUME RateInv, [Next]_vars PROVE RateInv'
    OBVIOUS
  <2> USE DEF others, histVars, backoff
  <2>1. CASE Top \/ Bind \/ Cooldown \/ SpawnFails
    <3>1. UNCHANGED <<spawns, crashes, restarts, now>> /\ pc \in Between /\ pc' \in Between \cup {"exited"}
      BY <2>1 DEF Top, Bind, Cooldown, SpawnFails, Finish, Between
    <3>2. QED
      BY <3>1, RateFrame DEF Between, During, Holding
  <2>2. CASE \/ Publish \/ Listen \/ ConnectRecv \/ WatchRecv \/ Join
             \/ Reap \/ ConnectTimeout \/ HangKill \/ GraceKill
    <3>1. UNCHANGED <<spawns, crashes, restarts, now>> /\ pc \in During /\ pc' \in During
      BY <2>2 DEF Publish, Listen, ConnectRecv, WatchRecv, Join, Reap, ConnectTimeout, HangKill,
                  GraceKill, KillAndReap, ReapAs, During, Holding
    <3>2. QED
      BY <3>1, RateFrame DEF Between, During, Holding
  <2>3. CASE ListenerStep \/ SignalArrives \/ SignalStep \/ ChildStep
             \/ (\E p \in Pids : ForeignProcess(p)) \/ UNCHANGED vars
    <3>1. UNCHANGED <<pc, spawns, crashes, restarts, now>>
      BY <2>3 DEF ListenerStep, Accept, AcceptEnds, ReadPing, ReadEof, ReadCancelled, ListenerKeeps,
                  SignalArrives, SignalStep, SignalLoad, SignalTerm, SignalGone, SignalKill, SignalKeeps,
                  ChildStep, ChildConnects, ChildDropsTransport, ChildTouchesFlag, ChildExits,
                  ChildKeeps, ForeignProcess, vars, mainVars
    <3>2. QED
      BY <3>1, RateFrame
  <2>4. QED
    BY <2>1, <2>2, <2>3, SpawnKeepsRate, DecideKeepsRate, TickKeepsRate DEF Next, MainStep
<1>3. QED
  BY <1>1, <1>2, PTL DEF Spec

\* No burst of restarts, however the children crash: Limit further spawns take
\* longer than the window (CrashWindow::record, limit_reached).
THEOREM RestartsRateLimited == Spec => []RestartsAreRateLimited
<1>1. RateInv => RestartsAreRateLimited
  BY DEF RateInv
<1>2. QED
  BY <1>1, RateInvHolds, PTL

\* Two children never run at once, and the signal thread's process number is
\* the child's own.
THEOREM OneAndOwn == Spec => []OneOwnBrowser
<1>1. AtMostOneBrowser /\ SlotNamesOwnChild => OneOwnBrowser
  BY DEF OneOwnBrowser
<1>2. QED
  BY <1>1, OneBrowser, SlotOwned, PTL

-----------------------------------------------------------------------------
(***************************************************************************)
(* The Windows supervisor (WinSupervisor.tla, the instance Windows of      *)
(* MCSupervisor.tla).                                                      *)
(***************************************************************************)
\* The child as the job sees it.
WinType ==
  /\ child \in [state : {"none", "suspended", "running", "dying", "gone"}, code : Codes,
                job : BOOLEAN]
  /\ touched \in BOOLEAN /\ stopped \in BOOLEAN /\ quit \in BOOLEAN /\ clean \in BOOLEAN
  /\ exit \in Outcomes

WinUp == child.state \in {"running", "dying"}

\* No child between two spawns and none after the end; what runs is in the job.
WinChildInv ==
  /\ phase \in {"top", "create", "cooldown", "decide"} => child.state \in {"none", "gone"}
  /\ phase = "exited" => ~WinUp
  /\ WinUp \/ phase = "resume" => child.job

\* Nothing final has happened to a child that has not started, and what has
\* happened to one that is gone is still to be seen where it is decided on.
WinFinalInv ==
  /\ phase \in {"top", "create", "cooldown"} => ~touched /\ ~stopped
  /\ child.state = "suspended" => ~touched /\ ~stopped
  /\ touched /\ phase \notin {"exited", "rundown"} => clean
  /\ stopped => quit /\ ctrl = "terminated"
  /\ ctrl # "idle" => quit

WinInv == WinType /\ WinChildInv /\ WinFinalInv

\* The inductive invariant of the Windows supervisor.
LEMMA WinInvHolds == Windows!Spec => []WinInv
<1>1. Windows!Init => WinInv
  <2> SUFFICES ASSUME Windows!Init PROVE WinInv
    OBVIOUS
  <2>1. child = [state |-> "none", code |-> "zero", job |-> FALSE]
    BY DEF Windows!Init, Windows!NoChild
  <2>2. WinType
    <3>1. child \in [state : {"none", "suspended", "running", "dying", "gone"}, code : Codes,
                     job : BOOLEAN]
      BY <2>1 DEF Codes
    <3>2. exit \in Outcomes
      BY DEF Windows!Init, Outcomes, Codes
    <3>3. QED
      BY <3>1, <3>2, Zenon DEF Windows!Init, WinType
  <2>3. WinChildInv /\ WinFinalInv
    BY <2>1 DEF Windows!Init, WinChildInv, WinFinalInv, WinUp
  <2>4. QED
    BY <2>2, <2>3 DEF WinInv
<1>2. WinInv /\ [Windows!Next]_(Windows!vars) => WinInv'
  <2> SUFFICES ASSUME WinInv, [Windows!Next]_(Windows!vars) PROVE WinInv'
    OBVIOUS
  <2> USE DEF WinInv, WinType, WinChildInv, WinFinalInv, WinUp, Codes, Outcomes,
              Windows!loopVars, Windows!ctrlVars, Windows!pipeVars, Windows!histVars
  <2>1. CASE Windows!Top
    BY <2>1 DEF Windows!Top
  <2>2. CASE Windows!Create
    <3>1. CASE phase' = "exited" /\ UNCHANGED <<child, pipe, touched, stopped>>
      BY <2>2, <3>1 DEF Windows!Create
    <3>2. CASE phase' = "assign" /\ touched' = FALSE /\ stopped' = FALSE
               /\ child' = [Windows!NoChild EXCEPT !.state = "suspended"]
      <4>1. child' = [state |-> "suspended", code |-> "zero", job |-> FALSE]
        BY <3>2 DEF Windows!NoChild
      <4>2. /\ child' \in [state : {"none", "suspended", "running", "dying", "gone"}, code : Codes,
                             job : BOOLEAN]
            /\ ~WinUp'
        BY <4>1
      <4>3. phase' = "assign" /\ UNCHANGED <<quit, clean, ctrl, exit>>
        BY <2>2, <3>2 DEF Windows!Create
      <4>4. WinType'
        BY <3>2, <4>2, <4>3
      <4>5. QED
        BY <3>2, <4>2, <4>3, <4>4
    <3>3. QED
      BY <2>2, <3>1, <3>2 DEF Windows!Create, Windows!Finish
  <2>3. CASE Windows!Assign
    BY <2>3 DEF Windows!Assign
  <2>4. CASE Windows!Resume
    BY <2>4 DEF Windows!Resume
  <2>5. CASE Windows!Reap
    BY <2>5 DEF Windows!Reap, Windows!Gone
  <2>6. CASE Windows!KillAndReap
    BY <2>6 DEF Windows!KillAndReap, Windows!Gone
  <2>7. CASE Windows!Receive
    BY <2>7 DEF Windows!Receive
  <2>8. CASE Windows!Decide
    <3>1. phase' = "cooldown" => ~touched /\ ~stopped
      BY <2>8 DEF Windows!Decide, Windows!Finish, Windows!Classify, Windows!QuitAsked
    <3>2. phase = "decide" /\ phase' \in {"cooldown", "exited"} /\ clean' = FALSE
          /\ UNCHANGED <<child, touched, stopped, quit, ctrl, exit>>
      BY <2>8 DEF Windows!Decide, Windows!Finish
    <3>3. QED
      BY <3>1, <3>2
  <2>9. CASE Windows!Cooldown
    BY <2>9 DEF Windows!Cooldown
  <2>10. CASE Windows!CtrlFlags
    BY <2>10 DEF Windows!CtrlFlags, Windows!HandlerKeeps, Windows!Runs
  <2>11. CASE Windows!CtrlTerminates
    <3>1. /\ ctrl = "flagged" /\ ctrl' = "terminated" /\ phase \notin {"exited", "rundown"}
          /\ UNCHANGED <<phase, touched, quit, clean, exit>>
      BY <2>11 DEF Windows!CtrlTerminates, Windows!HandlerKeeps, Windows!Runs
    <3>2. CASE UNCHANGED <<child, stopped>>
      BY <3>1, <3>2
    <3>3. CASE child.job /\ child.state = "running"
      <4>1. child' = [child EXCEPT !.state = "dying"] /\ stopped' = TRUE
        BY <2>11, <3>3 DEF Windows!CtrlTerminates
      <4>2. QED
        BY <3>1, <3>3, <4>1
    <3>4. CASE child.job /\ child.state = "suspended"
      <4>1. child' = [child EXCEPT !.state = "gone"] /\ stopped' = FALSE
        BY <2>11, <3>4 DEF Windows!CtrlTerminates
      <4>2. QED
        BY <3>1, <3>4, <4>1
    <3>5. QED
      BY <2>11, <3>2, <3>3, <3>4 DEF Windows!CtrlTerminates
  <2>12. CASE Windows!CtrlExits
    BY <2>12 DEF Windows!CtrlExits, Windows!HandlerKeeps, Windows!Runs
  <2>13. CASE Windows!Rundown
    BY <2>13 DEF Windows!Rundown, Windows!HandlerKeeps, Windows!ClosingKills, Windows!Alive
  <2>14. CASE Windows!ChildConnects \/ Windows!ChildPings \/ Windows!ChildDropsPipe
              \/ Windows!PipeEnds \/ Windows!Tick
    BY <2>14 DEF Windows!ChildConnects, Windows!ChildPings, Windows!ChildDropsPipe,
       Windows!PipeEnds,
                 Windows!Tick, Windows!ChildKeeps
  <2>15. CASE Windows!ChildTouchesFlag
    BY <2>15 DEF Windows!ChildTouchesFlag, Windows!ChildKeeps, Windows!Running
  <2>16. CASE \E c \in Windows!Codes : Windows!ChildExits(c)
    <3>1. PICK c \in Codes : Windows!ChildExits(c)
      BY <2>16 DEF Windows!Codes
    <3>2. child' = [child EXCEPT !.state = "gone", !.code = c]
          /\ UNCHANGED <<phase, ctrl, quit, clean, touched, stopped, exit>>
      BY <3>1 DEF Windows!ChildExits, Windows!ChildKeeps
    <3>3. QED
      BY <3>2
  <2>17. CASE UNCHANGED Windows!vars
    BY <2>17 DEF Windows!vars
  <2>18. QED
    BY <2>1, <2>2, <2>3, <2>4, <2>5, <2>6, <2>7, <2>8, <2>9, <2>10, <2>11, <2>12, <2>13, <2>14,
       <2>15, <2>16, <2>17 DEF Windows!Next
<1>3. QED
  BY <1>1, <1>2, PTL DEF Windows!Spec

\* The Windows supervisor implements the contract too: every step of it is a step
\* of Supervision.tla or leaves it alone, wherever the console event, the end of
\* the process and the closing of the job meet the main loop (mod windows).
THEOREM WindowsImplements == Windows!Spec => Windows!Contract!Spec
<1>1. Windows!Init => Windows!Contract!Init
  BY DEF Windows!Init, Windows!NoChild, Windows!Contract!Init
<1>2. WinInv /\ [Windows!Next]_(Windows!vars)
      => [Windows!Contract!Next]_(Windows!Contract!vars)
  <2> SUFFICES ASSUME WinInv, [Windows!Next]_(Windows!vars)
               PROVE  [Windows!Contract!Next]_(Windows!Contract!vars)
    OBVIOUS
  <2> DEFINE Final == touched \/ stopped
             Over == phase = "exited"
             Same == WinUp' = WinUp /\ Final' = Final /\ Over' = Over
             Start == ~WinUp /\ ~Final /\ ~Over /\ WinUp' /\ Final' = Final /\ Over' = Over
             Conclude == WinUp /\ Final' /\ WinUp' = WinUp /\ Over' = Over
             Stop == WinUp /\ ~WinUp' /\ Final' = Final /\ Over' = Over
             Leave == ~WinUp /\ ~Over /\ Over' /\ WinUp' = WinUp /\ Final' = Final
  <2> SUFFICES Same \/ Start \/ Conclude \/ Stop \/ Leave
    BY DEF Windows!Contract!Next, Windows!Contract!Start, Windows!Contract!Conclude,
           Windows!Contract!Stop, Windows!Contract!Leave, Windows!Contract!vars, WinUp
  <2> USE DEF WinInv, WinType, WinChildInv, WinFinalInv, WinUp,
              Windows!loopVars, Windows!ctrlVars, Windows!pipeVars, Windows!histVars
  <2>1. CASE Windows!Top \/ Windows!Receive \/ Windows!Cooldown \/ Windows!Reap
    BY <2>1 DEF Windows!Top, Windows!Receive, Windows!Cooldown, Windows!Reap, Windows!Gone
  <2>2. CASE Windows!Create
    BY <2>2 DEF Windows!Create, Windows!Finish, Windows!NoChild
  <2>3. CASE Windows!Assign
    BY <2>3 DEF Windows!Assign
  <2>4. CASE Windows!Resume
    BY <2>4 DEF Windows!Resume
  <2>5. CASE Windows!KillAndReap
    BY <2>5 DEF Windows!KillAndReap, Windows!Gone
  <2>6. CASE Windows!Decide
    <3>1. phase = "decide" /\ UNCHANGED <<child, touched, stopped>>
      BY <2>6 DEF Windows!Decide
    <3>2. QED
      BY <3>1
  <2>7. CASE Windows!CtrlFlags \/ Windows!CtrlExits
    BY <2>7 DEF Windows!CtrlFlags, Windows!CtrlExits, Windows!HandlerKeeps, Windows!Runs
  <2>8. CASE Windows!CtrlTerminates
    <3>1. ctrl = "flagged" /\ UNCHANGED <<phase, touched>>
      BY <2>8 DEF Windows!CtrlTerminates, Windows!HandlerKeeps
    <3>2. CASE UNCHANGED <<child, stopped>>
      BY <3>1, <3>2
    <3>3. CASE child.job /\ child.state = "running"
      <4>1. child' = [child EXCEPT !.state = "dying"] /\ stopped' = TRUE
        BY <2>8, <3>3 DEF Windows!CtrlTerminates
      <4>2. QED
        BY <3>1, <3>3, <4>1
    <3>4. CASE child.job /\ child.state = "suspended"
      <4>1. child' = [child EXCEPT !.state = "gone"] /\ stopped' = FALSE
        BY <2>8, <3>4 DEF Windows!CtrlTerminates
      <4>2. QED
        BY <3>1, <3>4, <4>1
    <3>5. QED
      BY <2>8, <3>2, <3>3, <3>4 DEF Windows!CtrlTerminates
  <2>9. CASE Windows!Rundown
    BY <2>9 DEF Windows!Rundown, Windows!HandlerKeeps, Windows!ClosingKills, Windows!Alive
  <2>10. CASE Windows!ChildConnects \/ Windows!ChildPings \/ Windows!ChildDropsPipe
              \/ Windows!PipeEnds \/ Windows!Tick
    BY <2>10 DEF Windows!ChildConnects, Windows!ChildPings, Windows!ChildDropsPipe,
       Windows!PipeEnds,
                 Windows!Tick, Windows!ChildKeeps
  <2>11. CASE Windows!ChildTouchesFlag
    BY <2>11 DEF Windows!ChildTouchesFlag, Windows!ChildKeeps, Windows!Running
  <2>12. CASE \E c \in Windows!Codes : Windows!ChildExits(c)
    BY <2>12 DEF Windows!ChildExits, Windows!ChildKeeps, Windows!Running
  <2>13. CASE UNCHANGED Windows!vars
    BY <2>13 DEF Windows!vars
  <2>14. QED
    BY <2>1, <2>2, <2>3, <2>4, <2>5, <2>6, <2>7, <2>8, <2>9, <2>10, <2>11, <2>12, <2>13
       DEF Windows!Next
<1>3. QED
  BY <1>1, <1>2, WinInvHolds, PTL DEF Windows!Spec, Windows!Contract!Spec












-----------------------------------------------------------------------------
(***************************************************************************)
(* The processes of a profile (Lifetime.tla, the instance Profile of       *)
(* MCSupervisor.tla).                                                      *)
(***************************************************************************)
Steps == {"none", "run", "engines", "clear", "flush", "state", "done"}

Process ==
  [at : Steps, nr : Nat, flag : BOOLEAN, timer : BOOLEAN, count : Nat, seq : Nat, stamp : Nat,
   tries : Nat, reporting : {"no", "open", "write"}]

LifeType ==
  /\ lives \in [Procs -> Process]
  /\ temp \subseteq Procs \X Nat
  /\ disk \in Nat /\ launches \in Nat /\ today \in Nat /\ resets \in BOOLEAN

Owns(p) == p \in Procs \ Private /\ lives[p].at \notin {"none", "done"}

\* The profile has one owner, who has counted at least what the file says.
OwnerInv ==
  /\ \A p, q \in Procs : Owns(p) /\ Owns(q) => p = q
  /\ \A p \in Procs : Owns(p) => disk <= lives[p].count
  /\ \A p \in Procs : p \in Private \/ lives[p].at \in {"none", "done"} => lives[p].reporting = "no"

\* What a step of the way out has done is still done at the next one.
WayOutInv ==
  \A p \in Procs \ Private :
    /\ lives[p].at \in {"flush", "state"} => data \cap ClearOnExit = {}
    /\ lives[p].at = "state" => disk = lives[p].count \/ resets

LifeInv == LifeType /\ OwnerInv /\ WayOutInv

\* What any step of p leaves behind: a private run leaves the profile as it was; the
\* owner, or the one that becomes it, lets the counters fall behind nobody, and
\* goes to the next step of its way out with this one done.
Moves(p, r) ==
  /\ r \in Process /\ lives' = [lives EXCEPT ![p] = r]
  /\ temp' \subseteq Procs \X Nat /\ disk' \in Nat /\ launches' \in Nat /\ today' = today
  /\ resets' \in BOOLEAN /\ disk <= disk'
  /\ p \in Private \/ r.at \in {"none", "done"} => r.reporting = "no"
  /\ p \in Private => UNCHANGED <<data, disk, reports, resets>>
  /\ p \notin Private =>
       /\ Owns(p) \/ \A q \in Procs : ~Owns(q)
       /\ r.at \notin {"none", "done"} => disk' <= r.count
       /\ r.at \in {"flush", "state"} => data' \cap ClearOnExit = {}
       /\ r.at = "state" => disk' = r.count \/ resets'
  /\ lives[p].at = "state" /\ r.at = "done" => temp' = temp \ {<<p, lives[p].nr>>}

LEMMA MovesKeep ==
  ASSUME LifeInv, NEW p \in Procs, NEW r, Moves(p, r)
  PROVE  LifeInv'
<1> USE DEF LifeInv, Moves
<1>1. LifeType'
  BY DEF LifeType
<1>2. lives'[p] = r /\ \A q \in Procs \ {p} : lives'[q] = lives[q]
  BY DEF LifeType
<1>3. CASE p \in Private
  <2>1. \A q \in Procs : Owns(q)' <=> Owns(q)
    BY <1>2, <1>3 DEF Owns
  <2>2. OwnerInv'
    BY <1>2, <1>3, <2>1 DEF OwnerInv, Owns
  <2>3. WayOutInv'
    BY <1>2, <1>3 DEF WayOutInv
  <2>4. QED
    BY <1>1, <2>2, <2>3
<1>4. CASE p \notin Private
  <2>1. \A q \in Procs \ {p} : ~Owns(q) /\ ~Owns(q)'
    BY <1>2, <1>4 DEF OwnerInv, Owns
  <2>2. OwnerInv'
    BY <1>2, <1>4, <2>1 DEF OwnerInv, Owns
  <2>3. \A q \in Procs \ {p} : q \notin Private => lives'[q].at \in {"none", "done"}
    BY <2>1 DEF Owns
  <2>4. WayOutInv'
    BY <1>2, <1>4, <2>3 DEF WayOutInv
  <2>5. QED
    BY <1>1, <2>2, <2>4
<1>5. QED
  BY <1>3, <1>4

\* A step that only turns the record of a running process, and not its counters.
LEMMA QuietMove ==
  ASSUME LifeInv, NEW p \in Procs, NEW r \in Process, lives' = [lives EXCEPT ![p] = r],
         lives[p].at \notin {"none", "done"},
         UNCHANGED <<data, temp, disk, today, launches, resets>>,
         \/ r.at = "none" /\ r.reporting = "no"
         \/ r.at \in {lives[p].at, "engines", "clear"} /\ r.count = lives[p].count,
         p \in Private => r.reporting = "no" /\ UNCHANGED reports
  PROVE  Moves(p, r)
<1> USE DEF LifeInv, LifeType
<1>1. p \notin Private => Owns(p)
  BY DEF Owns
<1>2. p \notin Private /\ r.at \notin {"none", "done"} => disk' <= r.count
  BY <1>1 DEF OwnerInv
<1>3. p \notin Private =>
        /\ r.at \in {"flush", "state"} => data' \cap ClearOnExit = {}
        /\ r.at = "state" => disk' = r.count \/ resets'
  BY DEF WayOutInv
<1>4. disk <= disk'
  OBVIOUS
<1>5. ~(lives[p].at = "state" /\ r.at = "done")
  OBVIOUS
<1>6. p \in Private \/ r.at \in {"none", "done"} => r.reporting = "no"
  BY DEF OwnerInv
<1>7. QED
  BY <1>1, <1>2, <1>3, <1>4, <1>5, <1>6 DEF Moves

\* The next step of the way out.
LEMMA WayOut ==
  /\ Profile!Shutdown[Profile!StepNo("engines") + 1] = "clear"
  /\ Profile!Shutdown[Profile!StepNo("clear") + 1] = "flush"
  /\ Profile!Shutdown[Profile!StepNo("flush") + 1] = "state"
  /\ Profile!Shutdown[Profile!StepNo("state") + 1] = "done"
<1>1. DOMAIN Profile!Shutdown = 1..5
  BY DEF Profile!Shutdown
<1>2. /\ Profile!Shutdown[1] = "engines" /\ Profile!Shutdown[2] = "clear"
      /\ Profile!Shutdown[3] = "flush" /\ Profile!Shutdown[4] = "state" /\ Profile!Shutdown[5] = "done"
  BY DEF Profile!Shutdown
<1>3. Profile!StepNo("engines") = 1 /\ Profile!StepNo("clear") = 2
      /\ Profile!StepNo("flush") = 3 /\ Profile!StepNo("state") = 4
  BY <1>1, <1>2 DEF Profile!StepNo
<1>4. QED
  BY <1>2, <1>3

\* Every process step is such a move.
ProcStep(p) ==
  \/ Profile!Start(p) \/ Profile!Browse(p) \/ Profile!Increment(p) \/ Profile!FlushCounters(p)
  \/ Profile!CloseRequested(p) \/ Profile!RequestExit(p) \/ Profile!CheckShutdown(p)
  \/ Profile!CtrlC(p) \/ Profile!AbortTimer(p) \/ Profile!LetGoEngines(p)
  \/ Profile!RunClearOnExit(p) \/ Profile!LastFlush(p) \/ Profile!DropState(p)
  \/ Profile!Panic(p) \/ Profile!OpenReport(p) \/ Profile!WriteReport(p)
  \/ Profile!GiveUpReport(p) \/ Profile!Die(p)

LEMMA StepsMove ==
  ASSUME LifeInv, NEW p \in Procs, ProcStep(p)
  PROVE  \E r : Moves(p, r)
<1> USE DEF LifeInv, LifeType
<1>0. lives[p] \in Process /\ Profile!Gone \in Process
  BY DEF Process, Steps, Profile!Gone
<1>1. CASE Profile!Start(p)
  <2> DEFINE n == IF p \in Private THEN 0 ELSE Profile!Opened(p) + 1
             r == [Profile!Gone EXCEPT !.at = "run", !.nr = launches', !.count = n]
  <2>1. n \in Nat /\ (p \notin Private => n = disk + 1)
    BY DEF Profile!Opened
  <2>2. launches' \in Nat /\ lives' = [lives EXCEPT ![p] = r]
    BY <1>1 DEF Profile!Start
  <2> HIDE DEF n
  <2>3. r \in Process /\ r.at = "run" /\ r.count = n /\ r.reporting = "no"
    BY <2>1, <2>2 DEF Process, Steps, Profile!Gone
  <2> HIDE DEF r
  <2>4. temp' \subseteq Procs \X Nat
    BY <1>1, <2>2 DEF Profile!Start, Profile!Directory
  <2>5. /\ UNCHANGED <<data, disk, reports, today>>
        /\ resets' = IF p \in Private THEN resets ELSE FALSE
        /\ lives[p].at \in {"none", "done"}
    BY <1>1 DEF Profile!Start, Profile!Runs
  <2>6. p \notin Private => \A q \in Procs : ~Owns(q)
    BY <1>1 DEF Profile!Start, Profile!MayRun, Profile!OwnsProfile, Profile!Runs, Owns
  <2>7. p \notin Private => disk' <= r.count
    BY <2>1, <2>3, <2>5
  <2>8. disk <= disk' /\ disk' \in Nat
    BY <2>5
  <2>9. resets' \in BOOLEAN /\ (p \in Private => resets' = resets)
    BY <2>5, Zenon
  <2>10. r.at \notin {"flush", "state", "none", "done"} /\ lives[p].at # "state"
    BY <2>3, <2>5
  <2>11. Moves(p, r)
    BY <2>2, <2>3, <2>4, <2>5, <2>6, <2>7, <2>8, <2>9, <2>10, Zenon DEF Moves
  <2>12. QED
    BY <2>11
<1>2. CASE Profile!Browse(p)
  <2>1. Moves(p, lives[p])
    BY <1>0, <1>2 DEF Moves, Profile!Browse, Profile!KeepsData, Owns, OwnerInv
  <2>2. QED
    BY <2>1
<1>3. CASE Profile!FlushCounters(p)
  <2>1. Moves(p, lives[p])
    BY <1>0, <1>3 DEF Moves, Profile!FlushCounters, Owns, OwnerInv, Process
  <2>2. QED
    BY <2>1
<1>4. CASE Profile!Increment(p)
  <2> DEFINE r == [lives[p] EXCEPT !.count = @ + 1]
  <2>1. r \in Process /\ r.at = "run" /\ r.count = lives[p].count + 1 /\ lives[p].count \in Nat
    BY <1>0, <1>4 DEF Process, Profile!Increment
  <2>2. lives' = [lives EXCEPT ![p] = r]
    BY <1>4 DEF Profile!Increment
  <2> HIDE DEF r
  <2>3. Owns(p) /\ UNCHANGED <<data, temp, disk, reports, today, launches, resets>>
        /\ p \notin Private
    BY <1>4 DEF Profile!Increment, Owns
  <2>4. disk <= r.count
    BY <2>1, <2>3 DEF OwnerInv
  <2>5. Moves(p, r)
    BY <2>1, <2>2, <2>3, <2>4 DEF Moves
  <2>6. QED
    BY <2>5
<1>5. CASE Profile!CloseRequested(p) \/ Profile!CheckShutdown(p)
  <2> DEFINE r == [lives[p] EXCEPT !.at = "engines"]
  <2>1. /\ r \in Process /\ r.at = "engines" /\ r.count = lives[p].count
        /\ r.reporting = lives[p].reporting
    BY <1>0 DEF Process, Steps
  <2>2. /\ lives' = [lives EXCEPT ![p] = r] /\ lives[p].at = "run"
        /\ UNCHANGED <<data, temp, disk, reports, today, launches, resets>>
    BY <1>5 DEF Profile!CloseRequested, Profile!CheckShutdown, Profile!Same
  <2> HIDE DEF r
  <2>3. Moves(p, r)
    BY <2>1, <2>2, QuietMove DEF OwnerInv
  <2>4. QED
    BY <2>3
<1>6. CASE Profile!RequestExit(p)
  <2> DEFINE r == [lives[p] EXCEPT !.flag = TRUE]
  <2>1. /\ r \in Process /\ r.at = lives[p].at /\ r.count = lives[p].count
        /\ r.reporting = lives[p].reporting
    BY <1>0 DEF Process
  <2>2. /\ lives' = [lives EXCEPT ![p] = r] /\ lives[p].at = "run"
        /\ UNCHANGED <<data, temp, disk, reports, today, launches, resets>>
    BY <1>6 DEF Profile!RequestExit, Profile!Same
  <2> HIDE DEF r
  <2>3. Moves(p, r)
    BY <2>1, <2>2, QuietMove DEF OwnerInv
  <2>4. QED
    BY <2>3
<1>7. CASE Profile!CtrlC(p)
  <2>1. PICK b \in BOOLEAN : b = (lives[p].timer \/ ~lives[p].flag)
    OBVIOUS
  <2> DEFINE r == [lives[p] EXCEPT !.flag = TRUE, !.timer = b]
  <2>2. /\ r \in Process /\ r.at = lives[p].at /\ r.count = lives[p].count
        /\ r.reporting = lives[p].reporting
    BY <1>0 DEF Process
  <2>3. /\ lives' = [lives EXCEPT ![p] = r] /\ lives[p].at \notin {"none", "done"}
        /\ UNCHANGED <<data, temp, disk, reports, today, launches, resets>>
    BY <1>7, <2>1 DEF Profile!CtrlC, Profile!Runs, Profile!Same
  <2> HIDE DEF r
  <2>4. Moves(p, r)
    BY <2>2, <2>3, QuietMove DEF OwnerInv
  <2>5. QED
    BY <2>4
<1>8. CASE Profile!AbortTimer(p) \/ Profile!Die(p)
  <2>1. /\ lives' = [lives EXCEPT ![p] = Profile!Gone] /\ lives[p].at \notin {"none", "done"}
        /\ UNCHANGED <<data, temp, disk, reports, today, launches, resets>>
    BY <1>8 DEF Profile!AbortTimer, Profile!Die, Profile!Runs
  <2>2. Profile!Gone.at = "none" /\ Profile!Gone.reporting = "no"
    BY DEF Profile!Gone
  <2>3. Moves(p, Profile!Gone)
    BY <1>0, <2>1, <2>2, QuietMove
  <2>4. QED
    BY <2>3
<1>9. CASE Profile!LetGoEngines(p)
  <2> DEFINE r == [lives[p] EXCEPT !.at = "clear"]
  <2>1. /\ r \in Process /\ r.at = "clear" /\ r.count = lives[p].count
        /\ r.reporting = lives[p].reporting
    BY <1>0 DEF Process, Steps
  <2>2. /\ lives' = [lives EXCEPT ![p] = r] /\ lives[p].at = "engines"
        /\ UNCHANGED <<data, temp, disk, reports, today, launches, resets>>
    BY <1>9, WayOut DEF Profile!LetGoEngines, Profile!At, Profile!Goes, Profile!Same
  <2> HIDE DEF r
  <2>3. Moves(p, r)
    BY <2>1, <2>2, QuietMove DEF OwnerInv
  <2>4. QED
    BY <2>3
<1>10. CASE Profile!RunClearOnExit(p)
  <2> DEFINE r == [lives[p] EXCEPT !.at = "flush"]
  <2>1. /\ r \in Process /\ r.at = "flush" /\ r.count = lives[p].count
        /\ r.reporting = lives[p].reporting
    BY <1>0 DEF Process, Steps
  <2>2. /\ lives' = [lives EXCEPT ![p] = r] /\ lives[p].at = "clear"
        /\ UNCHANGED <<temp, disk, reports, today, launches, resets>>
        /\ data' = IF p \notin Private THEN data \ ClearOnExit ELSE data
    BY <1>10, WayOut DEF Profile!RunClearOnExit, Profile!At, Profile!Goes, Profile!KeepsData
  <2>3. p \notin Private => Owns(p) /\ data' \cap ClearOnExit = {}
    BY <2>2 DEF Owns
  <2>4. p \notin Private => disk' <= r.count
    BY <2>1, <2>2, <2>3 DEF OwnerInv
  <2> HIDE DEF r
  <2>5. Moves(p, r)
    BY <2>1, <2>2, <2>3, <2>4 DEF Moves, OwnerInv
  <2>6. QED
    BY <2>5
<1>11. CASE Profile!LastFlush(p)
  <2> DEFINE r == [lives[p] EXCEPT !.at = "state"]
  <2>1. /\ r \in Process /\ r.at = "state" /\ r.count = lives[p].count
        /\ r.reporting = lives[p].reporting /\ r.count \in Nat
    BY <1>0 DEF Process, Steps
  <2>2. /\ lives' = [lives EXCEPT ![p] = r] /\ lives[p].at = "flush"
        /\ UNCHANGED <<data, temp, reports, today, launches, resets>>
        /\ disk' = IF p \in Private THEN disk ELSE lives[p].count
    BY <1>11, WayOut DEF Profile!LastFlush, Profile!At, Profile!Goes
  <2>3. p \notin Private => Owns(p) /\ data' \cap ClearOnExit = {}
    BY <2>2 DEF Owns, WayOutInv
  <2> HIDE DEF r
  <2>4. disk <= disk' /\ disk' \in Nat /\ (p \notin Private => disk' = r.count /\ disk' <= r.count)
    BY <2>1, <2>2, <2>3 DEF OwnerInv
  <2>5. Moves(p, r)
    BY <2>1, <2>2, <2>3, <2>4 DEF Moves, OwnerInv
  <2>6. QED
    BY <2>5
<1>12. CASE Profile!DropState(p)
  <2> DEFINE r == [Profile!Silent(p) EXCEPT !.at = "done"]
  <2>1. r \in Process /\ r.at = "done" /\ r.reporting = "no"
    BY <1>0 DEF Process, Steps, Profile!Silent
  <2>2. /\ lives' = [lives EXCEPT ![p] = r] /\ lives[p].at = "state"
        /\ UNCHANGED <<data, disk, reports, today, launches, resets>>
        /\ temp' = temp \ {<<p, lives[p].nr>>}
    BY <1>12, WayOut DEF Profile!DropState, Profile!At, Profile!Goes
  <2>3. p \notin Private => Owns(p)
    BY <2>2 DEF Owns
  <2> HIDE DEF r
  <2>4. Moves(p, r)
    BY <2>1, <2>2, <2>3 DEF Moves
  <2>5. QED
    BY <2>4
<1>13. CASE Profile!Panic(p)
  <2> DEFINE r == [lives[p] EXCEPT !.reporting = "open", !.stamp = today, !.tries = 0]
  <2>1. r \in Process /\ r.at = lives[p].at /\ r.count = lives[p].count
    BY <1>0 DEF Process
  <2>2. /\ lives' = [lives EXCEPT ![p] = r] /\ lives[p].at \notin {"none", "done"}
        /\ p \notin Private /\ UNCHANGED <<data, temp, disk, reports, today, launches, resets>>
    BY <1>13 DEF Profile!Panic, Profile!Runs
  <2> HIDE DEF r
  <2>3. Moves(p, r)
    BY <2>1, <2>2, QuietMove
  <2>4. QED
    BY <2>3
<1>14. CASE Profile!OpenReport(p)
  <2>0. PICK w \in {"open", "write"} : w = IF Profile!Taken(p) THEN "open" ELSE "write"
    OBVIOUS
  <2> DEFINE r == [lives[p] EXCEPT !.seq = @ + 1, !.tries = @ + 1, !.reporting = w]
  <2>1. r \in Process /\ r.at = lives[p].at /\ r.count = lives[p].count
    <3>1. PICK m \in Nat, k \in Nat : m = lives[p].seq + 1 /\ k = lives[p].tries + 1
      BY <1>0 DEF Process
    <3>2. r = [lives[p] EXCEPT !.seq = m, !.tries = k, !.reporting = w]
      BY <3>1
    <3>3. QED
      BY <1>0, <3>2 DEF Process
  <2>2. /\ lives' = [lives EXCEPT ![p] = r] /\ lives[p].reporting = "open"
        /\ UNCHANGED <<data, temp, disk, today, launches, resets>>
    BY <1>14, <2>0 DEF Profile!OpenReport
  <2> HIDE DEF r
  <2>3. lives[p].at \notin {"none", "done"} /\ p \notin Private
    BY <2>2 DEF OwnerInv
  <2>4. Moves(p, r)
    BY <2>1, <2>2, <2>3, QuietMove
  <2>5. QED
    BY <2>4
<1>15. CASE Profile!WriteReport(p) \/ Profile!GiveUpReport(p)
  <2>1. /\ Profile!Silent(p) \in Process /\ Profile!Silent(p).at = lives[p].at
        /\ Profile!Silent(p).count = lives[p].count
    BY <1>0 DEF Process, Profile!Silent
  <2>2. /\ lives' = [lives EXCEPT ![p] = Profile!Silent(p)] /\ lives[p].reporting # "no"
        /\ UNCHANGED <<data, temp, disk, today, launches, resets>>
    BY <1>15 DEF Profile!WriteReport, Profile!GiveUpReport
  <2>3. lives[p].at \notin {"none", "done"} /\ p \notin Private
    BY <2>2 DEF OwnerInv
  <2>4. Moves(p, Profile!Silent(p))
    BY <2>1, <2>2, <2>3, QuietMove
  <2>5. QED
    BY <2>4
<1>16. QED
  BY <1>1, <1>2, <1>3, <1>4, <1>5, <1>6, <1>7, <1>8, <1>9, <1>10, <1>11, <1>12, <1>13, <1>14, <1>15
     DEF ProcStep

\* A command finds every process as it was.
LEMMA CommandsMove ==
  ASSUME LifeInv, Profile!Dispatch \/ Profile!TimePasses
  PROVE  /\ LifeInv' /\ lives' = lives
         /\ disk' < disk => disk' = 0 /\ resets'
<1> USE DEF LifeInv, LifeType
<1>1. lives' = lives /\ temp' = temp /\ launches' \in Nat /\ today' \in Nat
  BY DEF Profile!Dispatch, Profile!TimePasses
<1>2. data' \subseteq data /\ resets' \in BOOLEAN
  BY Zenon DEF Profile!Dispatch, Profile!TimePasses, Profile!ResetTelemetry, Profile!ClearStore,
     Profile!PurgeCrashes
<1>3. (disk' = 0 /\ resets') \/ UNCHANGED <<disk, resets>>
  BY DEF Profile!Dispatch, Profile!TimePasses, Profile!ResetTelemetry, Profile!ClearStore,
     Profile!PurgeCrashes
<1>4. disk' \in Nat /\ disk' <= disk /\ (disk' < disk => disk' = 0 /\ resets')
  BY <1>3
<1>5. OwnerInv'
  <2>1. \A p \in Procs : lives[p].count \in Nat
    BY DEF Process
  <2>2. QED
    BY <1>1, <1>4, <2>1 DEF OwnerInv, Owns
<1>6. WayOutInv'
  <2>1. \A p \in Procs \ Private : lives[p].at = "state" => disk' = lives[p].count \/ resets'
    BY <1>3 DEF WayOutInv
  <2>2. \A p \in Procs \ Private : lives[p].at \in {"flush", "state"} => data' \cap ClearOnExit = {}
    BY <1>2 DEF WayOutInv
  <2>3. QED
    BY <1>1, <2>1, <2>2 DEF WayOutInv
<1>7. LifeType'
  BY <1>1, <1>2, <1>4
<1>8. QED
  BY <1>1, <1>4, <1>5, <1>6, <1>7

\* One owner, and a way-out step that is done stays done.
LEMMA LifeInvHolds == Profile!Spec => []LifeInv
<1>1. Profile!Init => LifeInv
  <2> SUFFICES ASSUME Profile!Init PROVE LifeInv
    OBVIOUS
  <2>1. Profile!Gone \in Process /\ Profile!Gone.at = "none" /\ Profile!Gone.reporting = "no"
    BY DEF Process, Steps, Profile!Gone
  <2>2. QED
    BY <2>1 DEF Profile!Init, LifeInv, LifeType, OwnerInv, WayOutInv, Owns
<1>2. LifeInv /\ [Profile!Next]_(Profile!lifeVars) => LifeInv'
  <2> SUFFICES ASSUME LifeInv, [Profile!Next]_(Profile!lifeVars) PROVE LifeInv'
    OBVIOUS
  <2>1. CASE \E p \in Procs : ProcStep(p)
    BY <2>1, StepsMove, MovesKeep
  <2>2. CASE Profile!Dispatch \/ Profile!TimePasses
    BY <2>2, CommandsMove
  <2>3. CASE UNCHANGED Profile!lifeVars
    BY <2>3 DEF Profile!lifeVars, LifeInv, LifeType, OwnerInv, WayOutInv, Owns
  <2>4. QED
    BY <2>1, <2>2, <2>3 DEF Profile!Next, ProcStep
<1>3. QED
  BY <1>1, <1>2, PTL DEF Profile!Spec

\* A run that comes to its end leaves the profile without what is to be cleared
\* and with every event counted, whoever runs or answers beside it, and the
\* counters fall by a reset only (main's sequence after the event loop).
THEOREM LeftRight == Profile!Spec => Profile!ProfileIsLeftRight
<1>1. LifeInv /\ [Profile!Next]_(Profile!lifeVars)
      => [/\ \A p \in Procs :
               Profile!Ends(p) /\ p \notin Private =>
                 data \cap ClearOnExit = {} /\ (disk = lives[p].count \/ resets)
          /\ disk' < disk => disk' = 0 /\ resets']_(Profile!lifeVars)
  <2> SUFFICES ASSUME LifeInv, Profile!Next
               PROVE  /\ \A p \in Procs :
                           Profile!Ends(p) /\ p \notin Private =>
                             data \cap ClearOnExit = {} /\ (disk = lives[p].count \/ resets)
                      /\ disk' < disk => disk' = 0 /\ resets'
    OBVIOUS
  <2>1. \A p \in Procs :
          Profile!Ends(p) /\ p \notin Private =>
            data \cap ClearOnExit = {} /\ (disk = lives[p].count \/ resets)
    BY DEF LifeInv, WayOutInv, Profile!Ends
  <2>2. disk' < disk => disk' = 0 /\ resets'
    <3>1. CASE \E p \in Procs : ProcStep(p)
      <4>1. PICK p \in Procs : \E r : Moves(p, r)
        BY <3>1, StepsMove
      <4>2. disk <= disk' /\ disk \in Nat /\ disk' \in Nat
        BY <4>1 DEF Moves, LifeInv, LifeType
      <4>3. QED
        BY <4>2
    <3>2. CASE Profile!Dispatch \/ Profile!TimePasses
      BY <3>2, CommandsMove
    <3>3. QED
      BY <3>1, <3>2 DEF Profile!Next, ProcStep
  <2>3. QED
    BY <2>1, <2>2
<1>2. QED
  BY <1>1, LifeInvHolds, PTL DEF Profile!Spec, Profile!ProfileIsLeftRight

\* Nothing a private run does, ending included, changes the profile, and what it
\* kept for itself goes with it (main's checks of cli.private).
THEOREM PrivateIsPrivate == Profile!Spec => Profile!PrivateLeavesNothing
<1>1. LifeInv /\ [Profile!Next]_(Profile!lifeVars)
      => [\A p \in Procs :
            p \in Private /\ lives'[p] # lives[p] =>
              /\ UNCHANGED <<data, disk, reports>>
              /\ Profile!Ends(p) =>
                   \A entry \in temp' : entry[1] # p \/ entry[2] # lives[p].nr]_(Profile!lifeVars)
  <2> SUFFICES ASSUME LifeInv, Profile!Next, NEW p \in Procs, p \in Private, lives'[p] # lives[p]
               PROVE  /\ UNCHANGED <<data, disk, reports>>
                      /\ Profile!Ends(p) =>
                           \A entry \in temp' : entry[1] # p \/ entry[2] # lives[p].nr
    OBVIOUS
  <2>1. PICK q \in Procs : \E r : Moves(q, r)
    BY CommandsMove, StepsMove DEF Profile!Next, ProcStep
  <2>2. PICK r : Moves(q, r)
    BY <2>1
  <2>3. lives \in [Procs -> Process] /\ temp \subseteq Procs \X Nat
    BY DEF LifeInv, LifeType
  <2>4. q = p /\ lives'[p] = r
    BY <2>2, <2>3 DEF Moves
  <2>5. UNCHANGED <<data, disk, reports>>
    BY <2>2, <2>4 DEF Moves
  <2>6. ASSUME Profile!Ends(p), NEW entry \in temp' PROVE entry[1] # p \/ entry[2] # lives[p].nr
    <3>1. temp' = temp \ {<<p, lives[p].nr>>}
      BY <2>2, <2>4, <2>6 DEF Moves, Profile!Ends
    <3>2. entry \in Procs \X Nat /\ entry # <<p, lives[p].nr>>
      BY <2>3, <2>6, <3>1
    <3>3. QED
      BY <3>2
  <2>7. QED
    BY <2>5, <2>6
<1>2. QED
  BY <1>1, LifeInvHolds, PTL DEF Profile!Spec, Profile!PrivateLeavesNothing

\* The reports that are whole, and the processes that are at one.
Whole == {r \in reports : r.whole}
Reporting == {p \in Procs : lives[p].reporting # "no"}
Report == [name : Nat \X Nat, whole : BOOLEAN]
Writes(p) == lives[p].reporting = "write"

\* No two reports have one name, and a process at its report has a half-written one
\* of its own.
NamesInv ==
  /\ reports \subseteq Report
  /\ \A r, s \in reports : r.name = s.name => r = s
  /\ \A p \in Procs : Writes(p) => [name |-> Profile!Written(p), whole |-> FALSE] \in reports
  /\ \A p, q \in Procs :
       Writes(p) /\ Writes(q) /\ Profile!Written(p) = Profile!Written(q) => p = q

CountsInv ==
  /\ IsFiniteSet(Whole) /\ IsFiniteSet(Reporting)
  /\ panics \in Nat /\ purged \in Nat /\ unmade \in Nat
  /\ panics = Cardinality(Whole) + purged + unmade + Cardinality(Reporting)

ReportInv == NamesInv /\ CountsInv

\* A step that leaves everybody's reports alone.
LEMMA ReportsKept ==
  ASSUME ReportInv, UNCHANGED <<reports, panics, purged, unmade>>,
         \A p \in Procs : /\ lives'[p].reporting = lives[p].reporting
                          /\ Writes(p) => Profile!Written(p)' = Profile!Written(p)
  PROVE  ReportInv'
<1>1. Whole' = Whole /\ Reporting' = Reporting
  BY DEF Whole, Reporting
<1>2. CountsInv'
  BY <1>1 DEF ReportInv, CountsInv
<1>3. NamesInv'
  BY DEF ReportInv, NamesInv, Writes
<1>4. QED
  BY <1>2, <1>3 DEF ReportInv

\* A process is done with its report, whether it is whole or not.
LEMMA ReportLeft ==
  ASSUME ReportInv, NEW p \in Procs, lives \in [Procs -> Process], NEW r,
         lives' = [lives EXCEPT ![p] = r], r.reporting = "no",
         UNCHANGED <<reports, panics, purged>>, unmade' = unmade + Profile!Unfinished(p)
  PROVE  ReportInv'
<1>1. lives'[p] = r /\ \A q \in Procs \ {p} : lives'[q] = lives[q]
  OBVIOUS
<1>2. Whole' = Whole /\ Reporting' = Reporting \ {p}
  BY <1>1 DEF Whole, Reporting
<1>3. IsFiniteSet(Reporting') /\ Cardinality(Reporting') =
        IF p \in Reporting THEN Cardinality(Reporting) - 1 ELSE Cardinality(Reporting)
  BY <1>2, FS_RemoveElement DEF ReportInv, CountsInv
<1>4. unmade' = unmade + IF p \in Reporting THEN 1 ELSE 0
  BY DEF Profile!Unfinished, Reporting
<1>5. Cardinality(Whole) \in Nat /\ Cardinality(Reporting) \in Nat
  BY FS_CardinalityType DEF ReportInv, CountsInv
<1>6. CountsInv'
  BY <1>2, <1>3, <1>4, <1>5 DEF ReportInv, CountsInv
<1>7. NamesInv'
  BY <1>1 DEF ReportInv, NamesInv, Writes, Profile!Written
<1>8. QED
  BY <1>6, <1>7 DEF ReportInv

LEMMA PanicCounts ==
  ASSUME ReportInv, NEW p \in Procs, lives \in [Procs -> Process], Profile!Panic(p)
  PROVE  ReportInv'
<1>1. /\ lives[p].reporting = "no" /\ lives'[p].reporting = "open"
      /\ \A q \in Procs \ {p} : lives'[q] = lives[q]
      /\ UNCHANGED <<reports, purged, unmade>> /\ panics' = panics + 1
  BY DEF Profile!Panic, Process
<1>2. Whole' = Whole /\ Reporting' = Reporting \cup {p} /\ p \notin Reporting
  BY <1>1 DEF Whole, Reporting
<1>3. IsFiniteSet(Reporting') /\ Cardinality(Reporting') = Cardinality(Reporting) + 1
  BY <1>2, FS_AddElement DEF ReportInv, CountsInv
<1>4. Cardinality(Whole) \in Nat /\ Cardinality(Reporting) \in Nat
  BY FS_CardinalityType DEF ReportInv, CountsInv
<1>5. CountsInv'
  BY <1>1, <1>2, <1>3, <1>4 DEF ReportInv, CountsInv
<1>6. NamesInv'
  BY <1>1 DEF ReportInv, NamesInv, Writes, Profile!Written
<1>7. QED
  BY <1>5, <1>6 DEF ReportInv

\* The name of a report that is opened is nobody's.
LEMMA OpenCounts ==
  ASSUME ReportInv, LifeType, NEW p \in Procs, Profile!OpenReport(p)
  PROVE  ReportInv'
<1>0. lives[p] \in Process /\ lives[p].stamp \in Nat /\ lives[p].seq \in Nat
  BY DEF LifeType, Process
<1>1. /\ lives[p].reporting = "open" /\ lives'[p].stamp = lives[p].stamp
      /\ lives'[p].seq = lives[p].seq + 1
      /\ lives'[p].reporting = IF Profile!Taken(p) THEN "open" ELSE "write"
      /\ \A q \in Procs \ {p} : lives'[q] = lives[q]
      /\ UNCHANGED <<panics, purged, unmade>>
  BY DEF Profile!OpenReport, LifeType, Process
<1>2. Reporting' = Reporting
  BY <1>1 DEF Reporting
<1>3. CASE Profile!Taken(p)
  <2>1. reports' = reports /\ lives'[p].reporting = "open"
    BY <1>1, <1>3 DEF Profile!OpenReport
  <2>2. \A q \in Procs : /\ lives'[q].reporting = lives[q].reporting
                         /\ Writes(q) => Profile!Written(q)' = Profile!Written(q)
    BY <1>1, <2>1 DEF Writes, Profile!Written
  <2>3. QED
    BY <1>1, <2>1, <2>2, ReportsKept
<1>4. CASE ~Profile!Taken(p)
  <2> DEFINE new == [name |-> Profile!Name(p), whole |-> FALSE]
  <2>1. reports' = reports \cup {new} /\ lives'[p].reporting = "write"
    BY <1>1, <1>4 DEF Profile!OpenReport
  <2>2. new \in Report /\ new.name = Profile!Name(p) /\ new.whole = FALSE
    BY <1>0 DEF Report, Profile!Name
  <2>3. \A r \in reports : r.name # Profile!Name(p)
    BY <1>4 DEF Profile!Taken
  <2>4. Profile!Written(p)' = Profile!Name(p)
    BY <1>0, <1>1 DEF Profile!Written, Profile!Name
  <2>5. \A q \in Procs \ {p} : (Writes(q)' <=> Writes(q)) /\ Profile!Written(q)' = Profile!Written(q)
    BY <1>1 DEF Writes, Profile!Written
  <2>6. Whole' = Whole
    BY <2>1, <2>2 DEF Whole
  <2>7. CountsInv'
    BY <1>1, <1>2, <2>6 DEF ReportInv, CountsInv
  <2>8. \A q \in Procs \ {p} : Writes(q) => Profile!Written(q) # Profile!Name(p)
    <3> SUFFICES ASSUME NEW q \in Procs \ {p}, Writes(q) PROVE Profile!Written(q) # Profile!Name(p)
      OBVIOUS
    <3>1. [name |-> Profile!Written(q), whole |-> FALSE] \in reports
      BY DEF ReportInv, NamesInv
    <3>2. QED
      BY <2>3, <3>1
  <2>9. NamesInv'
    <3>1. reports' \subseteq Report /\ \A r, s \in reports' : r.name = s.name => r = s
      BY <2>1, <2>2, <2>3 DEF ReportInv, NamesInv
    <3>2. \A q \in Procs : Writes(q)' => [name |-> Profile!Written(q)', whole |-> FALSE] \in reports'
      BY <2>1, <2>4, <2>5 DEF ReportInv, NamesInv
    <3>3. \A q, o \in Procs :
            Writes(q)' /\ Writes(o)' /\ Profile!Written(q)' = Profile!Written(o)' => q = o
      BY <2>4, <2>5, <2>8 DEF ReportInv, NamesInv
    <3>4. QED
      BY <3>1, <3>2, <3>3 DEF NamesInv
  <2>10. QED
    BY <2>7, <2>9 DEF ReportInv
<1>5. QED
  BY <1>3, <1>4

\* A report becomes whole, and no other one does.
LEMMA WriteCounts ==
  ASSUME ReportInv, LifeType, NEW p \in Procs, Profile!WriteReport(p)
  PROVE  ReportInv'
<1>1. /\ Writes(p) /\ lives' = [lives EXCEPT ![p] = Profile!Silent(p)]
      /\ UNCHANGED <<panics, purged>>
  BY DEF Profile!WriteReport, Writes
<1>2. Profile!Silent(p).reporting = "no" /\ Profile!Unfinished(p) = 1
  BY <1>1 DEF LifeType, Process, Profile!Silent, Profile!Unfinished, Writes
<1>3. CASE reports' = reports /\ unmade' = unmade + 1
  BY <1>1, <1>2, <1>3, ReportLeft DEF LifeType
<1>4. CASE /\ reports' = {IF r.name = Profile!Written(p) THEN [r EXCEPT !.whole = TRUE] ELSE r : r \in reports}
           /\ unmade' = unmade
  <2> DEFINE old == [name |-> Profile!Written(p), whole |-> FALSE]
             new == [name |-> Profile!Written(p), whole |-> TRUE]
  <2>1. old \in reports /\ old \in Report /\ new \in Report
    BY <1>1 DEF ReportInv, NamesInv, Report
  <2>2. /\ [old EXCEPT !.whole = TRUE] = new
        /\ old.name = Profile!Written(p) /\ new.name = Profile!Written(p)
        /\ ~old.whole /\ new.whole
    <3>1. \A n, c, b : [[name |-> n, whole |-> c] EXCEPT !.whole = b] = [name |-> n, whole |-> b]
      OBVIOUS
    <3>2. [old EXCEPT !.whole = TRUE] = new
      BY <3>1, Zenon
    <3>3. old.name = Profile!Written(p) /\ new.name = Profile!Written(p)
      OBVIOUS
    <3>4. ~old.whole /\ new.whole
      OBVIOUS
    <3>5. QED
      BY <3>2, <3>3, <3>4
  <2>3. \A r \in reports : r.name = Profile!Written(p) <=> r = old
    BY <2>1, <2>2 DEF ReportInv, NamesInv
  <2>4. reports' = (reports \ {old}) \cup {new}
    <3> HIDE DEF old, new
    <3>1. \A r \in reports : (IF r.name = Profile!Written(p) THEN [r EXCEPT !.whole = TRUE] ELSE r)
                             = IF r = old THEN new ELSE r
      BY <2>2, <2>3
    <3>2. reports' = {IF r = old THEN new ELSE r : r \in reports}
      BY <1>4, <3>1
    <3>3. QED
      BY <2>1, <3>2
  <2>5. new \notin reports
    BY <2>2, <2>3
  <2>6. lives'[p].reporting = "no" /\ \A q \in Procs \ {p} : lives'[q] = lives[q]
    BY <1>1, <1>2 DEF LifeType
  <2> HIDE DEF old, new
  <2>7. Whole' = Whole \cup {new} /\ new \notin Whole
    BY <2>2, <2>4, <2>5 DEF Whole
  <2>8. IsFiniteSet(Whole') /\ Cardinality(Whole') = Cardinality(Whole) + 1
    BY <2>7, FS_AddElement DEF ReportInv, CountsInv
  <2>9. Reporting' = Reporting \ {p} /\ p \in Reporting
    BY <1>1, <2>6 DEF Reporting, Writes
  <2>10. IsFiniteSet(Reporting') /\ Cardinality(Reporting') = Cardinality(Reporting) - 1
    BY <2>9, FS_RemoveElement DEF ReportInv, CountsInv
  <2>11. Cardinality(Whole) \in Nat /\ Cardinality(Reporting) \in Nat
    BY FS_CardinalityType DEF ReportInv, CountsInv
  <2>12. CountsInv'
    BY <1>1, <1>4, <2>8, <2>10, <2>11 DEF ReportInv, CountsInv
  <2>13. \A q \in Procs \ {p} : (Writes(q)' <=> Writes(q)) /\ Profile!Written(q)' = Profile!Written(q)
    BY <2>6 DEF Writes, Profile!Written
  <2>14. ~Writes(p)'
    BY <2>6 DEF Writes
  <2>15. reports' \subseteq Report /\ \A r, s \in reports' : r.name = s.name => r = s
    BY <2>1, <2>2, <2>3, <2>4 DEF ReportInv, NamesInv
  <2>16. \A q \in Procs : Writes(q)' => [name |-> Profile!Written(q)', whole |-> FALSE] \in reports'
    <3> SUFFICES ASSUME NEW q \in Procs \ {p}, Writes(q)
                 PROVE  [name |-> Profile!Written(q), whole |-> FALSE] \in reports'
      BY <2>13, <2>14
    <3>1. [name |-> Profile!Written(q), whole |-> FALSE] \in reports /\ Profile!Written(q) # Profile!Written(p)
      BY <1>1 DEF ReportInv, NamesInv
    <3>2. QED
      BY <2>2, <2>4, <3>1
  <2>17. NamesInv'
    BY <2>13, <2>14, <2>15, <2>16 DEF ReportInv, NamesInv
  <2>18. QED
    BY <2>12, <2>17 DEF ReportInv
<1>5. QED
  BY <1>3, <1>4 DEF Profile!WriteReport

\* Lifetime's cardinalities are the library's.
LEMMA SameSize == \A S : Profile!Cardinality(S) = Cardinality(S)
  BY DEF Profile!Cardinality, Cardinality

\* Only whole reports are purged, and each one counts.
LEMMA PurgeCounts ==
  ASSUME ReportInv, lives' = lives, Profile!PurgeCrashes, UNCHANGED <<panics, unmade>>
  PROVE  ReportInv'
<1> DEFINE old == reports \ reports'
<1>1. /\ reports' \subseteq reports /\ \A r \in reports : ~r.whole => r \in reports'
      /\ purged' = purged + Cardinality(old)
  <2>1. reports' = {r \in reports : ~r.whole \/ r.name[1] = today}
    BY DEF Profile!PurgeCrashes
  <2>2. purged' = purged + Cardinality(old)
    BY SameSize DEF Profile!PurgeCrashes
  <2>3. QED
    BY <2>1, <2>2, Zenon
<1>2. old \subseteq Whole /\ Whole' = Whole \ old
  BY <1>1 DEF Whole
<1> HIDE DEF old
<1>3. IsFiniteSet(old)
  BY <1>2, FS_Subset DEF ReportInv, CountsInv
<1>4. IsFiniteSet(Whole')
  BY <1>2, FS_Subset DEF ReportInv, CountsInv
<1>5. Cardinality(old \cup Whole') = Cardinality(old) + Cardinality(Whole')
  <2>1. old \cap Whole' = {}
    BY <1>2
  <2>2. Cardinality(old \cap Whole') = 0
    BY <2>1, FS_EmptySet
  <2>3. Cardinality(old \cup Whole') = Cardinality(old) + Cardinality(Whole') - Cardinality(old \cap Whole')
    BY <1>3, <1>4, FS_Union
  <2>4. Cardinality(old) \in Nat /\ Cardinality(Whole') \in Nat
    BY <1>3, <1>4, FS_CardinalityType
  <2>5. QED
    BY <2>2, <2>3, <2>4
<1>6. Cardinality(Whole) = Cardinality(old) + Cardinality(Whole')
  <2>1. old \cup Whole' = Whole
    BY <1>2
  <2>2. QED
    BY <1>5, <2>1
<1>7. Cardinality(old) \in Nat /\ Cardinality(Whole') \in Nat /\ Cardinality(Reporting) \in Nat
  BY <1>3, <1>4, FS_CardinalityType DEF ReportInv, CountsInv
<1>8. Reporting' = Reporting
  BY DEF Reporting
<1>9. CountsInv'
  BY <1>1, <1>4, <1>6, <1>7, <1>8 DEF ReportInv, CountsInv
<1>10. NamesInv'
  <2>1. \A p \in Procs : (Writes(p)' <=> Writes(p)) /\ Profile!Written(p)' = Profile!Written(p)
    BY DEF Writes, Profile!Written
  <2>2. QED
    BY <1>1, <2>1 DEF ReportInv, NamesInv
<1>11. QED
  BY <1>9, <1>10 DEF ReportInv

LEMMA StepReports ==
  ASSUME ReportInv, LifeInv, NEW p \in Procs, ProcStep(p)
  PROVE  ReportInv'
<1>0. lives \in [Procs -> Process]
  BY DEF LifeInv, LifeType
<1>1. CASE Profile!Start(p)
  <2>1. lives[p].reporting = "no"
    BY <1>1 DEF Profile!Start, Profile!Runs, LifeInv, OwnerInv
  <2>2. /\ lives'[p].reporting = "no" /\ \A q \in Procs \ {p} : lives'[q] = lives[q]
        /\ UNCHANGED <<reports, panics, purged, unmade>>
    BY <1>0, <1>1 DEF Profile!Start, Profile!Gone
  <2>3. \A q \in Procs : /\ lives'[q].reporting = lives[q].reporting
                         /\ Writes(q) => Profile!Written(q)' = Profile!Written(q)
    BY <2>1, <2>2 DEF Writes, Profile!Written
  <2>4. QED
    BY <2>2, <2>3, ReportsKept
<1>2. CASE \/ Profile!Browse(p) \/ Profile!Increment(p) \/ Profile!FlushCounters(p)
           \/ Profile!CloseRequested(p) \/ Profile!RequestExit(p) \/ Profile!CheckShutdown(p)
           \/ Profile!CtrlC(p) \/ Profile!LetGoEngines(p)
           \/ Profile!RunClearOnExit(p) \/ Profile!LastFlush(p)
  <2>1. /\ UNCHANGED <<reports, panics, purged, unmade>>
        /\ \A q \in Procs \ {p} : lives'[q] = lives[q]
    BY <1>0, <1>2 DEF Profile!Browse, Profile!Increment, Profile!FlushCounters,
         Profile!CloseRequested, Profile!RequestExit, Profile!CheckShutdown, Profile!CtrlC,
         Profile!LetGoEngines, Profile!RunClearOnExit, Profile!LastFlush, Profile!Goes, Profile!Same
  <2>2. /\ lives'[p].reporting = lives[p].reporting /\ lives'[p].stamp = lives[p].stamp
        /\ lives'[p].seq = lives[p].seq
    <3>1. lives[p] \in Process
      BY <1>0
    <3>2. CASE Profile!Browse(p) \/ Profile!FlushCounters(p)
      BY <3>2 DEF Profile!Browse, Profile!FlushCounters
    <3>3. CASE Profile!Increment(p) \/ Profile!CloseRequested(p) \/ Profile!RequestExit(p)
               \/ Profile!CheckShutdown(p)
      BY <1>0, <3>1, <3>3 DEF Profile!Increment, Profile!CloseRequested, Profile!RequestExit,
           Profile!CheckShutdown, Process
    <3>4. CASE Profile!CtrlC(p)
      <4>1. PICK b \in BOOLEAN : b = (lives[p].timer \/ ~lives[p].flag)
        OBVIOUS
      <4>2. lives' = [lives EXCEPT ![p].flag = TRUE, ![p].timer = b]
        BY <3>4, <4>1 DEF Profile!CtrlC
      <4>3. QED
        BY <1>0, <3>1, <4>2 DEF Process
    <3>5. CASE Profile!LetGoEngines(p) \/ Profile!RunClearOnExit(p) \/ Profile!LastFlush(p)
      <4>1. Profile!Goes(p, lives[p])
        BY <3>5 DEF Profile!LetGoEngines, Profile!RunClearOnExit, Profile!LastFlush
      <4>2. QED
        BY <1>0, <3>1, <4>1 DEF Profile!Goes, Process
    <3>6. QED
      BY <1>2, <3>2, <3>3, <3>4, <3>5
  <2>3. \A q \in Procs : /\ lives'[q].reporting = lives[q].reporting
                         /\ Writes(q) => Profile!Written(q)' = Profile!Written(q)
    BY <2>1, <2>2 DEF Profile!Written
  <2>4. QED
    BY <2>1, <2>3, ReportsKept
<1>3. CASE Profile!AbortTimer(p) \/ Profile!Die(p)
  <2>1. Profile!Gone.reporting = "no"
    BY DEF Profile!Gone
  <2>2. /\ lives' = [lives EXCEPT ![p] = Profile!Gone] /\ UNCHANGED <<reports, panics, purged>>
        /\ unmade' = unmade + Profile!Unfinished(p)
    BY <1>3 DEF Profile!AbortTimer, Profile!Die
  <2>3. QED
    BY <1>0, <2>1, <2>2, ReportLeft
<1>4. CASE Profile!DropState(p)
  <2> DEFINE r == [Profile!Silent(p) EXCEPT !.at = "done"]
  <2>1. r.reporting = "no"
    BY <1>0 DEF Process, Profile!Silent
  <2>2. /\ lives' = [lives EXCEPT ![p] = r] /\ UNCHANGED <<reports, panics, purged>>
        /\ unmade' = unmade + Profile!Unfinished(p)
    BY <1>4, WayOut DEF Profile!DropState, Profile!At, Profile!Goes
  <2> HIDE DEF r
  <2>3. QED
    BY <1>0, <2>1, <2>2, ReportLeft
<1>5. CASE Profile!GiveUpReport(p)
  <2>1. Profile!Silent(p).reporting = "no" /\ Profile!Unfinished(p) = 1
    BY <1>0, <1>5 DEF Process, Profile!Silent, Profile!GiveUpReport, Profile!Unfinished
  <2>2. /\ lives' = [lives EXCEPT ![p] = Profile!Silent(p)] /\ UNCHANGED <<reports, panics, purged>>
        /\ unmade' = unmade + 1
    BY <1>5 DEF Profile!GiveUpReport
  <2>3. QED
    BY <1>0, <2>1, <2>2, ReportLeft
<1>6. CASE Profile!Panic(p) \/ Profile!OpenReport(p) \/ Profile!WriteReport(p)
  BY <1>0, <1>6, PanicCounts, OpenCounts, WriteCounts DEF LifeInv
<1>7. QED
  BY <1>1, <1>2, <1>3, <1>4, <1>5, <1>6 DEF ProcStep

\* Every panic of a run of the profile has a report of its own, unless it could not
\* be written or was purged (write_report's create_new).
THEOREM EachReported == Profile!Spec => []Profile!EachPanicReported
<1>1. Profile!Init => ReportInv
  <2> SUFFICES ASSUME Profile!Init PROVE ReportInv
    OBVIOUS
  <2>1. Profile!Gone.reporting = "no"
    BY DEF Profile!Gone
  <2>2. Whole = {} /\ Reporting = {}
    BY <2>1 DEF Profile!Init, Whole, Reporting
  <2>3. NamesInv
    BY <2>1 DEF Profile!Init, NamesInv, Writes
  <2>4. CountsInv
    BY <2>2, FS_EmptySet DEF Profile!Init, CountsInv
  <2>5. QED
    BY <2>3, <2>4 DEF ReportInv
<1>2. LifeInv /\ ReportInv /\ [Profile!Next]_(Profile!lifeVars) => ReportInv'
  <2> SUFFICES ASSUME LifeInv, ReportInv, [Profile!Next]_(Profile!lifeVars) PROVE ReportInv'
    OBVIOUS
  <2>1. CASE \E p \in Procs : ProcStep(p)
    BY <2>1, StepReports
  <2>2. CASE /\ lives' = lives /\ UNCHANGED <<reports, panics, purged, unmade>>
    BY <2>2, ReportsKept DEF Profile!Written
  <2>3. CASE Profile!Dispatch
    <3>1. lives' = lives /\ UNCHANGED <<panics, unmade>>
      BY <2>3 DEF Profile!Dispatch
    <3>2. CASE Profile!PurgeCrashes
      BY <3>1, <3>2, PurgeCounts
    <3>3. CASE Profile!ResetTelemetry \/ Profile!ClearStore
      BY <2>2, <3>1, <3>3 DEF Profile!ResetTelemetry, Profile!ClearStore
    <3>4. QED
      BY <2>3, <3>2, <3>3 DEF Profile!Dispatch
  <2>4. CASE Profile!TimePasses \/ UNCHANGED Profile!lifeVars
    BY <2>2, <2>4 DEF Profile!TimePasses, Profile!lifeVars
  <2>5. QED
    BY <2>1, <2>3, <2>4 DEF Profile!Next, ProcStep
<1>3. ReportInv => Profile!EachPanicReported
  <2> SUFFICES ASSUME ReportInv PROVE Profile!EachPanicReported
    OBVIOUS
  <2>1. panics = Cardinality({r \in reports : r.whole}) + purged + unmade
                  + Cardinality({p \in Procs : lives[p].reporting # "no"})
    BY DEF ReportInv, CountsInv, Whole, Reporting
  <2>2. QED
    BY <2>1, SameSize DEF Profile!EachPanicReported
<1>4. QED
  BY <1>1, <1>2, <1>3, LifeInvHolds, PTL DEF Profile!Spec

-----------------------------------------------------------------------------
(* The three together, as MCSupervisor runs them.                          *)

\* Each part of a behaviour of the run is a behaviour of its own specification.
LEMMA PartsApart == PartsSpec => Windows!Spec /\ Profile!Spec /\ Spec
<1>1. PartsInit => Windows!Init /\ Profile!Init /\ Init
  BY DEF PartsInit
<1>2. [OfUnix(Next) \/ OfWindows(Windows!Next) \/ OfLives(Profile!Next)]_allVars
      => /\ [Windows!Next]_(Windows!vars)
         /\ [Profile!Next]_(Profile!lifeVars)
         /\ [Next]_vars
  <2> SUFFICES ASSUME [OfUnix(Next) \/ OfWindows(Windows!Next) \/ OfLives(Profile!Next)]_allVars
               PROVE  /\ [Windows!Next]_(Windows!vars)
                      /\ [Profile!Next]_(Profile!lifeVars)
                      /\ [Next]_vars
    OBVIOUS
  <2>1. UNCHANGED winVars => UNCHANGED Windows!vars
    BY DEF winVars, Windows!vars, Windows!loopVars, Windows!ctrlVars, Windows!pipeVars,
       Windows!histVars
  <2>2. UNCHANGED lifeVars => UNCHANGED Profile!lifeVars
    BY DEF lifeVars, Profile!lifeVars
  <2>3. UNCHANGED allVars => UNCHANGED <<winVars, lifeVars, vars>>
    BY DEF allVars
  <2>4. QED
    BY <2>1, <2>2, <2>3 DEF OfUnix, OfWindows, OfLives
<1>3. PartsSpec => PartsInit /\ [][OfUnix(Next) \/ OfWindows(Windows!Next) \/ OfLives(Profile!Next)]_allVars
  BY PTL DEF PartsSpec
<1>4. QED
  BY <1>1, <1>2, <1>3, PTL DEF Windows!Spec, Profile!Spec, Spec

\* WinSupervisor implements the contract, and the application ends, private or not,
\* with its profile as it has to be.
THEOREM AllEndRight == PartsSpec => EndsAreRight
<1>1. QED
  BY PartsApart, WindowsImplements, LeftRight, PrivateIsPrivate, PTL DEF EndsAreRight

-----------------------------------------------------------------------------
(* The command line of Windows, for arguments of any length over any        *)
(* alphabet: what quote_arg and build_command_line write is read back as it *)
(* was given.                                                               *)

\* A set of numbers has a least one.
LEMMA LeastNat == ASSUME NEW T, T \subseteq Nat, T # {} PROVE \E m \in T : \A k \in T : m <= k
<1> DEFINE R == OpToRel(<, Nat)
<1>1. IsWellFoundedOn(R, Nat)
  BY NatLessThanWellFounded
<1>2. \A x, y \in Nat : y < x => <<y, x>> \in R
  BY DEF OpToRel
<1> HIDE DEF R
<1>3. PICK x \in T : \A y \in T : ~(<<y, x>> \in R)
  BY <1>1, WFMin
<1>4. ASSUME NEW k \in T PROVE x <= k
  <2>1. x \in Nat /\ k \in Nat /\ ~(<<k, x>> \in R)
    BY <1>3
  <2>2. ~(k < x)
    BY <2>1, <1>2
  <2>3. QED
    BY <2>1, <2>2
<1>5. QED
  BY <1>4

\* Induction up to a bound, with a set in the place of a predicate.
LEMMA UpTo ==
  ASSUME NEW n \in Nat, NEW T, 0 \in T, \A i \in 1 .. n : i - 1 \in T => i \in T
  PROVE  \A i \in 0 .. n : i \in T
<1> DEFINE Out == {i \in 0 .. n : i \notin T}
<1>1. SUFFICES ASSUME Out # {} PROVE FALSE
  OBVIOUS
<1>2. PICK m \in Out : \A k \in Out : m <= k
  <2>1. Out \subseteq Nat
    OBVIOUS
  <2> HIDE DEF Out
  <2>2. QED
    BY <1>1, <2>1, LeastNat
<1>3. m \in 1 .. n
  BY <1>2
<1>4. m - 1 \in 0 .. n /\ m - 1 \notin Out
  BY <1>2, <1>3
<1>5. QED
  BY <1>2, <1>3, <1>4

\* What a step computes from the one before it can be computed n times.
Runs(f, n, S, first, step) ==
  /\ f = [i \in 0 .. n |-> f[i]] /\ f[0] = first
  /\ \A i \in 1 .. n : f[i] = step[<<i, f[i - 1]>>]
  /\ \A i \in 0 .. n : f[i] \in S

LEMMA Recursion ==
  ASSUME NEW n \in Nat, NEW S, NEW first \in S, NEW step \in [(1 .. n) \X S -> S]
  PROVE  \E f : Runs(f, n, S, first, step)
<1> DEFINE Good(f, m) == /\ f[0] = first
                         /\ \A i \in 1 .. m : f[i] = step[<<i, f[i - 1]>>]
                         /\ \A i \in 0 .. m : f[i] \in S
           T == {m \in 0 .. n : \E f : Good(f, m)}
<1>1. 0 \in T
  <2> DEFINE f == [i \in 0 .. 0 |-> first]
  <2>1. Good(f, 0)
    OBVIOUS
  <2> HIDE DEF f, Good
  <2>2. QED
    BY <2>1
<1>2. ASSUME NEW m \in 1 .. n, m - 1 \in T PROVE m \in T
  <2>1. PICK f : Good(f, m - 1)
    BY <1>2
  <2> DEFINE x == step[<<m, f[m - 1]>>]
             g == [i \in 0 .. m |-> IF i = m THEN x ELSE f[i]]
  <2>2. m - 1 \in 0 .. m - 1 /\ m \in Nat /\ m # 0 /\ m - 1 # m
    OBVIOUS
  <2>3. f[m - 1] \in S /\ <<m, f[m - 1]>> \in (1 .. n) \X S
    BY <2>1, <2>2
  <2>4. x \in S
    BY <2>3
  <2> HIDE DEF x
  <2>5. \A i \in 0 .. m - 1 : g[i] = f[i]
    BY <2>2
  <2>6. g[m] = x
    BY <2>2
  <2> HIDE DEF g
  <2>7. g[0] = first
    BY <2>1, <2>2, <2>5
  <2>8. ASSUME NEW i \in 1 .. m PROVE g[i] = step[<<i, g[i - 1]>>]
    <3>1. i - 1 \in 0 .. m - 1
      OBVIOUS
    <3>2. CASE i = m
      BY <2>2, <2>5, <2>6, <3>2 DEF x
    <3>3. CASE i # m
      <4>1. i \in 1 .. m - 1 /\ i \in 0 .. m - 1
        BY <3>3
      <4>2. QED
        BY <2>1, <2>5, <3>1, <4>1
    <3>4. QED
      BY <3>2, <3>3
  <2>9. ASSUME NEW i \in 0 .. m PROVE g[i] \in S
    <3>1. CASE i = m
      BY <2>4, <2>6, <3>1
    <3>2. CASE i # m
      <4>1. i \in 0 .. m - 1
        BY <3>2
      <4>2. QED
        BY <2>1, <2>5, <4>1
    <3>3. QED
      BY <3>1, <3>2
  <2>10. Good(g, m)
    BY <2>7, <2>8, <2>9
  <2> HIDE DEF Good
  <2>11. QED
    BY <2>10
<1>3. n \in T
  <2>1. \A i \in 0 .. n : i \in T
    <3> HIDE DEF T
    <3>1. QED
      BY <1>1, <1>2, UpTo
  <2>2. QED
    BY <2>1
<1>4. PICK f : Good(f, n)
  BY <1>3
<1> DEFINE h == [i \in 0 .. n |-> f[i]]
<1>5. \A i \in 0 .. n : h[i] = f[i]
  OBVIOUS
<1>6. h = [i \in 0 .. n |-> h[i]]
  OBVIOUS
<1> HIDE DEF h
<1>7. ASSUME NEW i \in 1 .. n PROVE h[i] = step[<<i, h[i - 1]>>]
  <2>1. i - 1 \in 0 .. n /\ i \in 0 .. n
    OBVIOUS
  <2>2. QED
    BY <1>4, <1>5, <2>1
<1>8. h[0] = first /\ \A i \in 0 .. n : h[i] \in S
  BY <1>4, <1>5
<1>9. Runs(h, n, S, first, step)
  BY <1>6, <1>7, <1>8 DEF Runs
<1>10. QED
  BY <1>9

-----------------------------------------------------------------------------

\* A state of the splitting, as a function of the names of its fields.
Keys == {"args", "arg", "quoted", "held", "any", "shut"}
State(A, a, q, h, y, z) ==
  [x \in Keys |-> CASE x = "args" -> A [] x = "arg" -> a [] x = "quoted" -> q
                    [] x = "held" -> h [] x = "any" -> y [] x = "shut" -> z]

\* Between two arguments, and within one.
Blank(A) == State(A, <<>>, FALSE, 0, FALSE, FALSE)
Within(A, a, q, h) == State(A, a, q, h, TRUE, FALSE)

LEMMA RecordIs ==
  ASSUME NEW A, NEW a, NEW q, NEW h, NEW y, NEW z
  PROVE  [args |-> A, arg |-> a, quoted |-> q, held |-> h, any |-> y, shut |-> z] = State(A, a, q, h, y, z)
  BY DEF State, Keys

\* What each character does.
LEMMA BackslashSplit ==
  ASSUME NEW A, NEW a, NEW q, NEW h, NEW y, NEW z
  PROVE  Windows!SplitChar(State(A, a, q, h, y, z), "\\") = State(A, a, q, h + 1, TRUE, FALSE)
  BY DEF Windows!SplitChar, State, Keys

LEMMA OtherQuoted ==
  ASSUME NEW A, NEW a, NEW h, NEW c, NEW t, c # "\\", c # "\"",
         t = Append(a \o Windows!Backslashes(h), c)
  PROVE  Windows!SplitChar(Within(A, a, TRUE, h), c) = Within(A, t, TRUE, 0)
BY DEF Windows!SplitChar, State, Keys, Within

LEMMA OtherPlain ==
  ASSUME NEW A, NEW a, NEW h, NEW y, NEW c, NEW t, c # "\\", c # "\"", c # " ",
         t = Append(a \o Windows!Backslashes(h), c)
  PROVE  Windows!SplitChar(State(A, a, FALSE, h, y, FALSE), c) = Within(A, t, FALSE, 0)
  BY DEF Windows!SplitChar, State, Keys, Within

LEMMA QuoteSplit ==
  ASSUME NEW s
  PROVE  Windows!SplitChar(s, "\"")
           = [s EXCEPT !.arg = s.arg \o Windows!Backslashes(s.held \div 2)
                                  \o (IF s.held % 2 = 1 \/ s.shut THEN <<"\"">> ELSE <<>>),
                       !.quoted = IF s.held % 2 = 1 THEN s.quoted ELSE ~s.quoted,
                       !.held = 0, !.any = TRUE, !.shut = s.held % 2 = 0 /\ s.quoted]
  BY DEF Windows!SplitChar

\* Behind an odd number of backslashes a quote is itself.
LEMMA QuoteEscaped ==
  ASSUME NEW A, NEW a, NEW q, NEW h, h % 2 = 1
  PROVE  Windows!SplitChar(Within(A, a, q, h), "\"")
           = Within(A, a \o Windows!Backslashes(h \div 2) \o <<"\"">>, q, 0)
<1> DEFINE s == Within(A, a, q, h)
           t == a \o Windows!Backslashes(h \div 2) \o <<"\"">>
<1>1. s.args = A /\ s.held = h
  BY DEF State, Keys, Within
<1>2. s.arg = a
  BY DEF State, Keys, Within
<1>3. s.quoted = q
  BY DEF State, Keys, Within
<1>4. [s EXCEPT !.arg = t, !.quoted = q, !.held = 0, !.any = TRUE, !.shut = FALSE] = Within(A, t, q, 0)
  BY DEF State, Keys, Within
<1> HIDE DEF s
<1>5. s.held % 2 = 1 /\ ~(s.held % 2 = 0)
  BY <1>1
<1>6. (s.held % 2 = 0 /\ s.quoted) = FALSE
  BY <1>5
<1>7. Windows!SplitChar(s, "\"")
        = [s EXCEPT !.arg = t, !.quoted = s.quoted, !.held = 0, !.any = TRUE,
                    !.shut = (s.held % 2 = 0 /\ s.quoted)]
  BY <1>1, <1>2, <1>5, QuoteSplit
<1>8. Windows!SplitChar(s, "\"")
        = [s EXCEPT !.arg = t, !.quoted = q, !.held = 0, !.any = TRUE, !.shut = FALSE]
  BY <1>3, <1>6, <1>7
<1>9. QED
  BY <1>4, <1>8 DEF s

\* Behind an even number it ends the quoted part, or opens one.
LEMMA QuoteShuts ==
  ASSUME NEW A, NEW a, NEW h, h % 2 = 0
  PROVE  Windows!SplitChar(Within(A, a, TRUE, h), "\"")
           = State(A, a \o Windows!Backslashes(h \div 2) \o <<>>, FALSE, 0, TRUE, TRUE)
<1> DEFINE s == Within(A, a, TRUE, h)
           t == a \o Windows!Backslashes(h \div 2) \o <<>>
<1>1. s.args = A /\ s.held = h
  BY DEF State, Keys, Within
<1>2. s.arg = a
  BY DEF State, Keys, Within
<1>3. s.quoted = TRUE
  BY DEF State, Keys, Within
<1>4. s.shut = FALSE
  BY DEF State, Keys, Within
<1>5. [s EXCEPT !.arg = t, !.quoted = FALSE, !.held = 0, !.any = TRUE, !.shut = TRUE]
        = State(A, t, FALSE, 0, TRUE, TRUE)
  BY DEF State, Keys, Within
<1> HIDE DEF s
<1>6. s.held % 2 # 1 /\ s.held % 2 = 0
  BY <1>1
<1>7. (s.held % 2 = 0 /\ s.quoted) = TRUE
  BY <1>3, <1>6
<1>8. (~s.quoted) = FALSE
  BY <1>3
<1>9. (IF s.held % 2 = 1 \/ s.shut THEN <<"\"">> ELSE <<>>) = <<>>
  BY <1>4, <1>6
<1>10. Windows!SplitChar(s, "\"")
         = [s EXCEPT !.arg = t, !.quoted = ~s.quoted, !.held = 0, !.any = TRUE,
                     !.shut = (s.held % 2 = 0 /\ s.quoted)]
  BY <1>1, <1>2, <1>6, <1>9, QuoteSplit
<1>11. Windows!SplitChar(s, "\"")
         = [s EXCEPT !.arg = t, !.quoted = FALSE, !.held = 0, !.any = TRUE, !.shut = TRUE]
  BY <1>7, <1>8, <1>10
<1>12. QED
  BY <1>5, <1>11 DEF s

LEMMA QuoteOpens ==
  ASSUME NEW A
  PROVE  Windows!SplitChar(Blank(A), "\"") = Within(A, <<>> \o Windows!Backslashes(0) \o <<>>, TRUE, 0)
<1> DEFINE s == Blank(A)
           t == <<>> \o Windows!Backslashes(0) \o <<>>
<1>1. s.held = 0
  BY DEF State, Keys, Blank
<1>2. s.arg = <<>>
  BY DEF State, Keys, Blank
<1>3. s.quoted = FALSE
  BY DEF State, Keys, Blank
<1>4. s.shut = FALSE
  BY DEF State, Keys, Blank
<1>5. [s EXCEPT !.arg = t, !.quoted = TRUE, !.held = 0, !.any = TRUE, !.shut = FALSE]
        = Within(A, t, TRUE, 0)
  BY DEF State, Keys, Blank, Within
<1> HIDE DEF s
<1>6. s.held % 2 # 1 /\ s.held \div 2 = 0
  BY <1>1
<1>7. (s.held % 2 = 0 /\ s.quoted) = FALSE
  BY <1>3
<1>8. (~s.quoted) = TRUE
  BY <1>3
<1>9. (IF s.held % 2 = 1 \/ s.shut THEN <<"\"">> ELSE <<>>) = <<>>
  BY <1>4, <1>6
<1>10. Windows!SplitChar(s, "\"")
         = [s EXCEPT !.arg = t, !.quoted = ~s.quoted, !.held = 0, !.any = TRUE,
                     !.shut = (s.held % 2 = 0 /\ s.quoted)]
  <2>1. (IF s.held % 2 = 1 THEN s.quoted ELSE ~s.quoted) = ~s.quoted
    BY <1>6
  <2>2. s.arg \o Windows!Backslashes(s.held \div 2)
          \o (IF s.held % 2 = 1 \/ s.shut THEN <<"\"">> ELSE <<>>) = t
    BY <1>2, <1>6, <1>9
  <2> HIDE DEF t
  <2>3. QED
    BY <2>1, <2>2, QuoteSplit, Zenon
<1>11. Windows!SplitChar(s, "\"")
         = [s EXCEPT !.arg = t, !.quoted = TRUE, !.held = 0, !.any = TRUE, !.shut = FALSE]
  BY <1>7, <1>8, <1>10
<1>12. QED
  BY <1>5, <1>11 DEF s

\* A space ends an argument, where one has begun.
LEMMA SpaceEnds ==
  ASSUME NEW A, NEW a, NEW h, NEW z
  PROVE  Windows!SplitChar(State(A, a, FALSE, h, TRUE, z), " ")
           = Blank(Append(A, a \o Windows!Backslashes(h)))
<1> DEFINE s == State(A, a, FALSE, h, TRUE, z)
<1>1. s.args = A /\ s.held = h /\ s.arg = a
  BY DEF State, Keys
<1>2. s.quoted = FALSE
  BY DEF State, Keys
<1>3. s.any = TRUE
  BY DEF State, Keys
<1> HIDE DEF s
<1>4. Windows!SplitChar(s, " ")
        = [args |-> IF s.any THEN Append(s.args, s.arg \o Windows!Backslashes(s.held)) ELSE s.args,
           arg |-> <<>>, quoted |-> FALSE, held |-> 0, any |-> FALSE, shut |-> FALSE]
  BY <1>2 DEF Windows!SplitChar
<1>5. (IF s.any THEN Append(s.args, s.arg \o Windows!Backslashes(s.held)) ELSE s.args)
        = Append(A, a \o Windows!Backslashes(h))
  BY <1>1, <1>3
<1>6. QED
  BY <1>4, <1>5, RecordIs DEF Blank, s

LEMMA SpaceSkips ==
  ASSUME NEW A
  PROVE  Windows!SplitChar(Blank(A), " ") = Blank(A)
<1> DEFINE s == Blank(A)
<1>1. s.args = A
  BY DEF State, Keys, Blank
<1>2. s.quoted = FALSE
  BY DEF State, Keys, Blank
<1>3. s.any = FALSE
  BY DEF State, Keys, Blank
<1> HIDE DEF s
<1>4. Windows!SplitChar(s, " ")
        = [args |-> IF s.any THEN Append(s.args, s.arg \o Windows!Backslashes(s.held)) ELSE s.args,
           arg |-> <<>>, quoted |-> FALSE, held |-> 0, any |-> FALSE, shut |-> FALSE]
  BY <1>2 DEF Windows!SplitChar
<1>5. (IF s.any THEN Append(s.args, s.arg \o Windows!Backslashes(s.held)) ELSE s.args) = A
  BY <1>1, <1>3
<1>6. QED
  BY <1>4, <1>5, RecordIs DEF Blank, s

\* Splitting the line leads from the state s to the state t.
Leads(s, line, t) ==
  \E f : /\ f[0] = s /\ f[Len(line)] = t
         /\ \A i \in 1 .. Len(line) : f[i] = Windows!SplitChar(f[i - 1], line[i])

LEMMA LeadsOne == ASSUME NEW s, NEW c PROVE Leads(s, <<c>>, Windows!SplitChar(s, c))
<1> DEFINE t == Windows!SplitChar(s, c)
           f == [i \in 0 .. 1 |-> IF i = 0 THEN s ELSE t]
<1>1. f[0] = s /\ f[1] = t
  OBVIOUS
<1> HIDE DEF f
<1>2. Len(<<c>>) = 1 /\ <<c>>[1] = c /\ \A i \in 1 .. 1 : i = 1 /\ i - 1 = 0
  OBVIOUS
<1>3. \A i \in 1 .. Len(<<c>>) : f[i] = Windows!SplitChar(f[i - 1], <<c>>[i])
  BY <1>1, <1>2
<1>4. QED
  BY <1>1, <1>2, <1>3 DEF Leads

LEMMA LeadsOn ==
  ASSUME NEW S, NEW k \in Seq(S), NEW l \in Seq(S), NEW s, NEW t, NEW u,
         Leads(s, k, t), Leads(t, l, u)
  PROVE  Leads(s, k \o l, u)
<1>1. PICK f : /\ f[0] = s /\ f[Len(k)] = t
               /\ \A i \in 1 .. Len(k) : f[i] = Windows!SplitChar(f[i - 1], k[i])
  BY DEF Leads
<1>2. PICK g : /\ g[0] = t /\ g[Len(l)] = u
               /\ \A i \in 1 .. Len(l) : g[i] = Windows!SplitChar(g[i - 1], l[i])
  BY DEF Leads
<1> DEFINE m == Len(k)
           n == Len(l)
           h == [i \in 0 .. m + n |-> IF i <= m THEN f[i] ELSE g[i - m]]
<1>3. m \in Nat /\ n \in Nat
  OBVIOUS
<1>4. /\ Len(k \o l) = m + n
      /\ \A i \in 1 .. m + n : (k \o l)[i] = IF i <= m THEN k[i] ELSE l[i - m]
  BY ConcatProperties
<1> HIDE DEF m, n
<1>5. (\A i \in 0 .. m : h[i] = f[i]) /\ \A i \in (m + 1) .. (m + n) : h[i] = g[i - m]
  BY <1>3
<1> HIDE DEF h
<1>6. h[m] = g[0]
  BY <1>1, <1>2, <1>3, <1>5 DEF m
<1>7. ASSUME NEW i \in 1 .. m + n PROVE h[i] = Windows!SplitChar(h[i - 1], (k \o l)[i])
  <2>1. CASE i <= m
    <3>1. i \in 0 .. m /\ i - 1 \in 0 .. m /\ i \in 1 .. m
      BY <1>3, <2>1
    <3>2. f[i] = Windows!SplitChar(f[i - 1], k[i])
      BY <1>1, <3>1 DEF m
    <3>3. QED
      BY <1>4, <1>5, <2>1, <3>1, <3>2
  <2>2. CASE ~(i <= m)
    <3>1. i \in (m + 1) .. (m + n) /\ i - m \in 1 .. n /\ (i - m) - 1 = (i - 1) - m
      BY <1>3, <2>2
    <3>2. h[i - 1] = g[(i - m) - 1]
      <4>1. CASE i - 1 = m
        <5>1. (i - m) - 1 = 0
          BY <1>3, <4>1
        <5>2. QED
          BY <1>6, <4>1, <5>1
      <4>2. CASE i - 1 # m
        <5>1. i - 1 \in (m + 1) .. (m + n)
          BY <1>3, <3>1, <4>2
        <5>2. QED
          BY <1>5, <3>1, <5>1
      <4>3. QED
        BY <4>1, <4>2
    <3>3. g[i - m] = Windows!SplitChar(g[(i - m) - 1], l[i - m])
      BY <1>2, <3>1 DEF n
    <3>4. QED
      BY <1>4, <1>5, <2>2, <3>1, <3>2, <3>3
  <2>3. QED
    BY <2>1, <2>2
<1>8. h[0] = s
  BY <1>1, <1>3, <1>5
<1>9. h[m + n] = u
  <2>1. CASE n = 0
    BY <1>2, <1>3, <1>6, <2>1 DEF n
  <2>2. CASE n # 0
    <3>1. m + n \in (m + 1) .. (m + n) /\ (m + n) - m = n
      BY <1>3, <2>2
    <3>2. QED
      BY <1>2, <1>5, <3>1 DEF n
  <2>3. QED
    BY <2>1, <2>2
<1>10. h[Len(k \o l)] = u /\ \A i \in 1 .. Len(k \o l) : h[i] = Windows!SplitChar(h[i - 1], (k \o l)[i])
  BY <1>4, <1>7, <1>9
<1>11. QED
  BY <1>8, <1>10, Zenon DEF Leads

\* The line leads to one state only.
LEMMA LeadsOnce ==
  ASSUME NEW S, NEW line \in Seq(S), NEW s, NEW t, NEW u, Leads(s, line, t), Leads(s, line, u)
  PROVE  t = u
<1>1. PICK f : /\ f[0] = s /\ f[Len(line)] = t
               /\ \A i \in 1 .. Len(line) : f[i] = Windows!SplitChar(f[i - 1], line[i])
  BY DEF Leads
<1>2. PICK g : /\ g[0] = s /\ g[Len(line)] = u
               /\ \A i \in 1 .. Len(line) : g[i] = Windows!SplitChar(g[i - 1], line[i])
  BY DEF Leads
<1> DEFINE n == Len(line)
           T == {i \in 0 .. n : f[i] = g[i]}
<1>3. n \in Nat
  OBVIOUS
<1>4. 0 \in T
  BY <1>1, <1>2, <1>3
<1>5. ASSUME NEW i \in 1 .. n, i - 1 \in T PROVE i \in T
  BY <1>1, <1>2, <1>5
<1>6. \A i \in 0 .. n : i \in T
  <2> HIDE DEF T, n
  <2>1. QED
    BY <1>3, <1>4, <1>5, UpTo
<1>7. f[n] = g[n]
  BY <1>3, <1>6
<1>8. QED
  BY <1>1, <1>2, <1>7

\* Backslashes are held back.
LEMMA LeadsBackslashes ==
  ASSUME NEW A, NEW a, NEW q, NEW h \in Nat, NEW k \in Nat
  PROVE  Leads(Within(A, a, q, h), Windows!Backslashes(k), Within(A, a, q, h + k))
<1> DEFINE l == Windows!Backslashes(k)
           f == [i \in 0 .. k |-> Within(A, a, q, h + i)]
<1>1. Len(l) = k /\ \A i \in 1 .. k : l[i] = "\\"
  BY DEF Windows!Backslashes
<1>2. \A i \in 0 .. k : f[i] = Within(A, a, q, h + i)
  OBVIOUS
<1> HIDE DEF f, l
<1>3. ASSUME NEW i \in 1 .. k PROVE f[i] = Windows!SplitChar(f[i - 1], l[i])
  <2>1. i - 1 \in 0 .. k /\ i \in 0 .. k /\ (h + (i - 1)) + 1 = h + i
    OBVIOUS
  <2>2. f[i - 1] = Within(A, a, q, h + (i - 1)) /\ f[i] = Within(A, a, q, h + i) /\ l[i] = "\\"
    BY <1>1, <1>2, <2>1
  <2>3. Windows!SplitChar(Within(A, a, q, h + (i - 1)), "\\") = Within(A, a, q, (h + (i - 1)) + 1)
    BY BackslashSplit DEF Within
  <2>4. QED
    BY <2>1, <2>2, <2>3
<1>4. f[0] = Within(A, a, q, h) /\ f[k] = Within(A, a, q, h + k)
  <2>1. h + 0 = h /\ 0 \in 0 .. k /\ k \in 0 .. k
    OBVIOUS
  <2>2. QED
    BY <1>2, <2>1
<1>5. QED
  BY <1>1, <1>3, <1>4 DEF Leads, l

-----------------------------------------------------------------------------

\* An alphabet with the three characters that mean something.
Alphabet(Char) == {"\\", "\"", " "} \subseteq Char

LEMMA SlashesAre ==
  ASSUME NEW Char, Alphabet(Char), NEW k \in Nat
  PROVE  /\ Windows!Backslashes(k) \in Seq(Char) /\ Windows!Backslashes(0) = <<>>
         /\ Append(Windows!Backslashes(k), "\\") = Windows!Backslashes(k + 1)
<1>1. ASSUME NEW n \in Nat
      PROVE  /\ Windows!Backslashes(n) \in Seq(Char) /\ Len(Windows!Backslashes(n)) = n
             /\ \A i \in 1 .. n : Windows!Backslashes(n)[i] = "\\"
  <2>1. "\\" \in Char
    BY DEF Alphabet
  <2>2. Windows!Backslashes(n) \in [1 .. n -> Char]
    BY <2>1 DEF Windows!Backslashes
  <2>3. \A i \in 1 .. n : Windows!Backslashes(n)[i] = "\\"
    BY DEF Windows!Backslashes
  <2> HIDE DEF Windows!Backslashes
  <2>4. Windows!Backslashes(n) \in Seq(Char)
    BY <2>2, SeqDef
  <2>5. Len(Windows!Backslashes(n)) = n
    BY <2>2, <2>4, LenProperties
  <2>6. QED
    BY <2>3, <2>4, <2>5
<1>2. Windows!Backslashes(0) = <<>>
  BY DEF Windows!Backslashes
<1> DEFINE b == Windows!Backslashes(k)
           c == Windows!Backslashes(k + 1)
<1>3. c \in Seq(Char) /\ Len(c) = k + 1 /\ \A i \in 1 .. k + 1 : c[i] = "\\"
  BY <1>1
<1>4. \A i \in 1 .. k : b[i] = "\\"
  BY <1>1
<1> HIDE DEF b, c
<1>5. /\ Append(b, "\\") \in Seq(Char) /\ Len(Append(b, "\\")) = k + 1
      /\ \A i \in 1 .. k + 1 : Append(b, "\\")[i] = "\\"
  <2>1. "\\" \in Char
    BY DEF Alphabet
  <2>2. /\ Append(b, "\\") \in Seq(Char) /\ Len(Append(b, "\\")) = k + 1
        /\ Append(b, "\\")[k + 1] = "\\" /\ \A i \in 1 .. k : Append(b, "\\")[i] = b[i]
    BY <1>1, <2>1, AppendProperties DEF b
  <2>3. QED
    BY <1>4, <2>2
<1>6. Append(b, "\\") = c
  BY <1>3, <1>5
<1>7. QED
  BY <1>1, <1>2, <1>6 DEF b, c

\* What comes next of a sequence.
LEMMA NextOf ==
  ASSUME NEW S, NEW s \in Seq(S)
  PROVE  /\ SubSeq(s, 1, 0) = <<>> /\ SubSeq(s, 1, Len(s)) = s
         /\ \A i \in 1 .. Len(s) : /\ SubSeq(s, 1, i) = Append(SubSeq(s, 1, i - 1), s[i])
                                   /\ SubSeq(s, 1, i) \in Seq(S) /\ SubSeq(s, 1, i - 1) \in Seq(S)
                                   /\ s[i] \in S
<1>1. SubSeq(s, 1, 0) = <<>> /\ SubSeq(s, 1, Len(s)) = s
  OBVIOUS
<1>2. ASSUME NEW i \in 1 .. Len(s)
      PROVE  /\ SubSeq(s, 1, i) = Append(SubSeq(s, 1, i - 1), s[i])
             /\ SubSeq(s, 1, i) \in Seq(S) /\ SubSeq(s, 1, i - 1) \in Seq(S) /\ s[i] \in S
  <2>1. s[i] \in S /\ i \in Nat /\ i - 1 \in Nat
    BY ElementOfSeq
  <2>2. /\ SubSeq(s, 1, i - 1) \in Seq(S) /\ Len(SubSeq(s, 1, i - 1)) = i - 1
        /\ \A j \in 1 .. (i - 1) : SubSeq(s, 1, i - 1)[j] = s[j]
    OBVIOUS
  <2>3. SubSeq(s, 1, i) \in Seq(S) /\ Len(SubSeq(s, 1, i)) = i /\ \A j \in 1 .. i : SubSeq(s, 1, i)[j] = s[j]
    OBVIOUS
  <2> DEFINE a == SubSeq(s, 1, i - 1)
             b == SubSeq(s, 1, i)
  <2> HIDE DEF a, b
  <2>4. /\ Append(a, s[i]) \in Seq(S) /\ Len(Append(a, s[i])) = i
        /\ \A j \in 1 .. i : Append(a, s[i])[j] = s[j]
    <3>1. /\ Append(a, s[i]) \in Seq(S) /\ Len(Append(a, s[i])) = (i - 1) + 1
          /\ Append(a, s[i])[(i - 1) + 1] = s[i] /\ \A j \in 1 .. (i - 1) : Append(a, s[i])[j] = a[j]
      BY <2>1, <2>2, AppendProperties DEF a
    <3>2. (i - 1) + 1 = i /\ \A j \in 1 .. i : j \in 1 .. (i - 1) \/ j = i
      BY <2>1
    <3>3. QED
      BY <2>2, <3>1, <3>2 DEF a
  <2>5. Append(a, s[i]) = b
    BY <2>3, <2>4 DEF b
  <2>6. QED
    BY <2>1, <2>2, <2>3, <2>5 DEF a, b
<1>3. QED
  BY <1>1, <1>2

\* An argument that is being quoted: what is written already is read as what was
\* given but the backslashes that are held back.
QuotedOK(Char, A, st, given) ==
  /\ st \in [out : Seq(Char), pending : Nat]
  /\ \E b \in Seq(Char) : /\ given = b \o Windows!Backslashes(st.pending)
                          /\ Leads(Blank(A), st.out, Within(A, b, TRUE, 0))

LEMMA Doubled ==
  ASSUME NEW p \in Nat
  PROVE  /\ 2 * p + 1 \in Nat /\ (2 * p + 1) % 2 = 1 /\ (2 * p + 1) \div 2 = p
         /\ 2 * p \in Nat /\ (2 * p) % 2 = 0 /\ (2 * p) \div 2 = p
  OBVIOUS

\* From within a quoted part on: some backslashes and another character.
LEMMA QuotedOn ==
  ASSUME NEW Char, Alphabet(Char), NEW A, NEW out \in Seq(Char), NEW b \in Seq(Char),
         Leads(Blank(A), out, Within(A, b, TRUE, 0)), NEW k \in Nat, NEW c \in Char, NEW d \in Seq(Char),
         Windows!SplitChar(Within(A, b, TRUE, k), c) = Within(A, d, TRUE, 0)
  PROVE  QuotedOK(Char, A, [out |-> out \o (Windows!Backslashes(k) \o <<c>>), pending |-> 0], d)
<1> DEFINE B == Windows!Backslashes(k)
           next == [out |-> out \o (B \o <<c>>), pending |-> 0]
<1>1. Leads(Within(A, b, TRUE, 0), B, Within(A, b, TRUE, k))
  <2>1. 0 + k = k /\ 0 \in Nat
    OBVIOUS
  <2>2. Leads(Within(A, b, TRUE, 0), B, Within(A, b, TRUE, 0 + k))
    BY <2>1, LeadsBackslashes
  <2>3. QED
    BY <2>1, <2>2
<1>2. Leads(Within(A, b, TRUE, k), <<c>>, Within(A, d, TRUE, 0))
  BY LeadsOne
<1>3. B \in Seq(Char)
  BY SlashesAre
<1> HIDE DEF B
<1>4. <<c>> \in Seq(Char) /\ B \o <<c>> \in Seq(Char)
  BY <1>3, ConcatProperties
<1>5. Leads(Within(A, b, TRUE, 0), B \o <<c>>, Within(A, d, TRUE, 0))
  BY <1>1, <1>2, <1>3, <1>4, LeadsOn
<1>6. Leads(Blank(A), out \o (B \o <<c>>), Within(A, d, TRUE, 0)) /\ out \o (B \o <<c>>) \in Seq(Char)
  BY <1>4, <1>5, LeadsOn, ConcatProperties
<1>7. next.out = out \o (B \o <<c>>) /\ next.pending = 0 /\ next \in [out : Seq(Char), pending : Nat]
  BY <1>6
<1> HIDE DEF next
<1>8. d = d \o Windows!Backslashes(next.pending)
  <2>1. Windows!Backslashes(0) = <<>>
    BY SlashesAre
  <2>2. QED
    BY <1>7, <2>1, ConcatEmptySeq
<1>9. QuotedOK(Char, A, next, d)
  BY <1>6, <1>7, <1>8 DEF QuotedOK
<1>10. QED
  BY <1>9 DEF next, B

LEMMA QuotedStep ==
  ASSUME NEW Char, Alphabet(Char), NEW A, NEW given \in Seq(Char), NEW c \in Char, NEW st,
         QuotedOK(Char, A, st, given)
  PROVE  QuotedOK(Char, A, Windows!QuotedChar(st, c), Append(given, c))
<1>1. st \in [out : Seq(Char), pending : Nat]
  BY DEF QuotedOK
<1>2. PICK b \in Seq(Char) : /\ given = b \o Windows!Backslashes(st.pending)
                             /\ Leads(Blank(A), st.out, Within(A, b, TRUE, 0))
  BY DEF QuotedOK
<1> DEFINE p == st.pending
           o == st.out
           B(k) == Windows!Backslashes(k)
           next == Windows!QuotedChar(st, c)
<1>3. p \in Nat /\ o \in Seq(Char)
  BY <1>1
<1>4. \A k \in Nat : B(k) \in Seq(Char)
  BY SlashesAre
<1>6. CASE c = "\\"
  <2>1. next = [st EXCEPT !.pending = p + 1]
    BY <1>6 DEF Windows!QuotedChar
  <2>2. next \in [out : Seq(Char), pending : Nat] /\ next.out = o /\ next.pending = p + 1
    BY <1>1, <2>1
  <2> HIDE DEF next, p, o, B
  <2>3. Append(given, c) = b \o B(p + 1)
    <3>1. Append(given, c) = given \o <<c>>
      BY AppendIsConcat
    <3>2. given \o <<c>> = b \o (B(p) \o <<c>>)
      <4>1. <<c>> \in Seq(Char) /\ B(p) \in Seq(Char)
        BY <1>3, <1>4
      <4>2. given = b \o B(p)
        BY <1>2 DEF B, p
      <4>3. QED
        BY <4>1, <4>2, ConcatAssociative
    <3>3. B(p) \o <<c>> = Append(B(p), c)
      BY <1>3, <1>4, AppendIsConcat
    <3>4. Append(B(p), c) = B(p + 1)
      BY <1>3, <1>6, SlashesAre DEF B
    <3>5. QED
      BY <3>1, <3>2, <3>3, <3>4
  <2>4. QED
    BY <1>2, <2>2, <2>3 DEF QuotedOK, B, o, next
<1>7. Append(given, c) \in Seq(Char) /\ given = b \o B(p) /\ Leads(Blank(A), o, Within(A, b, TRUE, 0))
  BY <1>2, AppendProperties
<1> HIDE DEF o, p
<1>8. CASE c = "\""
  <2> DEFINE k == 2 * p + 1
  <2>1. k \in Nat /\ k % 2 = 1 /\ k \div 2 = p
    BY <1>3, Doubled
  <2>2. next = [out |-> o \o (B(k) \o <<c>>), pending |-> 0]
    BY <1>8 DEF Windows!QuotedChar, o, p
  <2> HIDE DEF k
  <2>3. Windows!SplitChar(Within(A, b, TRUE, k), c) = Within(A, b \o B(k \div 2) \o <<c>>, TRUE, 0)
    BY <1>8, <2>1, QuoteEscaped
  <2>4. b \o B(k \div 2) \o <<c>> = Append(given, c)
    BY <1>7, <2>1, AppendIsConcat
  <2>5. Windows!SplitChar(Within(A, b, TRUE, k), c) = Within(A, Append(given, c), TRUE, 0)
    BY <2>3, <2>4
  <2>6. QuotedOK(Char, A, [out |-> o \o (B(k) \o <<c>>), pending |-> 0], Append(given, c))
    BY <1>3, <1>7, <2>1, <2>5, QuotedOn
  <2>7. QED
    BY <2>2, <2>6
<1>9. CASE c # "\\" /\ c # "\""
  <2>1. next = [out |-> o \o (B(p) \o <<c>>), pending |-> 0]
    BY <1>9 DEF Windows!QuotedChar, o, p
  <2>2. Windows!SplitChar(Within(A, b, TRUE, p), c) = Within(A, Append(given, c), TRUE, 0)
    <3>1. given = b \o Windows!Backslashes(p) /\ c # "\\" /\ c # "\""
      BY <1>7, <1>9
    <3>2. QED
      BY <3>1 DEF Windows!SplitChar, State, Keys, Within
  <2>3. QuotedOK(Char, A, [out |-> o \o (B(p) \o <<c>>), pending |-> 0], Append(given, c))
    BY <1>3, <1>7, <2>2, QuotedOn
  <2>4. QED
    BY <2>1, <2>3
<1>10. QED
  BY <1>6, <1>8, <1>9

LEMMA OneChar == ASSUME NEW Char, NEW c \in Char PROVE <<c>> \in Seq(Char) /\ Len(<<c>>) = 1
OBVIOUS

\* An argument that needs no quotes.
Simple(arg) == arg # <<>> /\ \A i \in DOMAIN arg : arg[i] \notin {" ", "\""}

\* What quote_arg writes behind the opening quote, character by character.
Opened == [out |-> <<"\"">>, pending |-> 0]

LEMMA QuotesRun ==
  ASSUME NEW Char, Alphabet(Char), NEW arg \in Seq(Char),
         ~Simple(arg)
  PROVE  \E f : /\ f[0] = Opened
                /\ \A i \in 1 .. Len(arg) : f[i] = Windows!QuotedChar(f[i - 1], arg[i])
                /\ Windows!QuoteArg(arg)
                     = f[Len(arg)].out \o Windows!Backslashes(2 * f[Len(arg)].pending) \o <<"\"">>
<1> DEFINE n == Len(arg)
           S == [out : Seq(Char), pending : Nat]
           step == [x \in (1 .. n) \X S |-> Windows!QuotedChar(x[2], arg[x[1]])]
           Body(f) == [i \in 0 .. n |-> IF i = 0 THEN Opened ELSE Windows!QuotedChar(f[i - 1], arg[i])]
<1>1. n \in Nat /\ \A i \in 1 .. n : arg[i] \in Char
  BY ElementOfSeq
<1>2. Opened \in S
  <2>1. "\"" \in Char
    BY DEF Alphabet
  <2>2. <<"\"">> \in Seq(Char)
    BY <2>1, OneChar
  <2>3. QED
    BY <2>2 DEF Opened
<1>3. ASSUME NEW s \in S, NEW c \in Char PROVE Windows!QuotedChar(s, c) \in S
  <2>1. s.out \in Seq(Char) /\ s.pending \in Nat
    OBVIOUS
  <2>2. CASE c = "\\"
    <3>1. s.pending + 1 \in Nat
      BY <2>1
    <3>2. Windows!QuotedChar(s, c) = [s EXCEPT !.pending = s.pending + 1]
      BY <2>2 DEF Windows!QuotedChar
    <3>3. QED
      BY <3>1, <3>2
  <2>3. CASE c # "\\"
    <3> DEFINE k == IF c = "\"" THEN 2 * s.pending + 1 ELSE s.pending
    <3>1. k \in Nat
      <4>1. 2 * s.pending + 1 \in Nat /\ s.pending \in Nat
        BY <2>1
      <4> DEFINE m == 2 * s.pending + 1
      <4> HIDE DEF m
      <4>2. k = m \/ k = s.pending
        BY DEF m
      <4>3. QED
        BY <4>1, <4>2 DEF m
    <3>2. Windows!QuotedChar(s, c) = [out |-> s.out \o (Windows!Backslashes(k) \o <<c>>), pending |-> 0]
      BY <2>3 DEF Windows!QuotedChar
    <3> HIDE DEF k
    <3>3. Windows!Backslashes(k) \o <<c>> \in Seq(Char)
      BY <3>1, SlashesAre, ConcatProperties
    <3>4. s.out \o (Windows!Backslashes(k) \o <<c>>) \in Seq(Char)
      BY <2>1, <3>3, ConcatProperties
    <3>5. QED
      BY <3>2, <3>4
  <2>4. QED
    BY <2>2, <2>3
<1> HIDE DEF S
<1>4. step \in [(1 .. n) \X S -> S]
  BY <1>1, <1>3
<1>5. \A i \in 1 .. n, s \in S : step[<<i, s>>] = Windows!QuotedChar(s, arg[i])
  OBVIOUS
<1> HIDE DEF step, n
<1>6. PICK f : /\ f = [i \in 0 .. n |-> f[i]] /\ f[0] = Opened
               /\ \A i \in 1 .. n : f[i] = step[<<i, f[i - 1]>>]
               /\ \A i \in 0 .. n : f[i] \in S
  <2>1. PICK f : Runs(f, n, S, Opened, step)
    BY <1>1, <1>2, <1>4, Recursion
  <2>2. QED
    BY <2>1, Zenon DEF Runs
<1>7. ASSUME NEW i \in 1 .. n PROVE f[i] = Windows!QuotedChar(f[i - 1], arg[i])
  <2>1. i - 1 \in 0 .. n
    BY <1>1
  <2>2. QED
    BY <1>5, <1>6, <2>1
<1>8. f = Body(f)
  <2>1. ASSUME NEW i \in 0 .. n
        PROVE f[i] = IF i = 0 THEN Opened ELSE Windows!QuotedChar(f[i - 1], arg[i])
    <3>1. CASE i = 0
      BY <1>6, <3>1
    <3>2. CASE i # 0
      <4>1. i \in 1 .. n
        BY <1>1, <3>2
      <4>2. QED
        BY <1>7, <3>2, <4>1
    <3>3. QED
      BY <3>1, <3>2
  <2>2. QED
    BY <1>6, <2>1
<1> DEFINE After == CHOOSE g : g = Body(g)
<1>9. After = Body(After)
  BY <1>8
<1>10. Windows!QuoteArg(arg) = After[n].out \o Windows!Backslashes(2 * After[n].pending) \o <<"\"">>
  BY DEF Windows!QuoteArg, Simple, Opened, n
<1> HIDE DEF After
<1>11. After[0] = Opened /\ \A i \in 1 .. n : After[i] = Windows!QuotedChar(After[i - 1], arg[i])
  BY <1>1, <1>9
<1>12. QED
  BY <1>10, <1>11 DEF n

\* A quoted argument is read as what was given.
LEMMA QuotedLeads ==
  ASSUME NEW Char, Alphabet(Char), NEW A, NEW arg \in Seq(Char),
         ~Simple(arg)
  PROVE  /\ Windows!QuoteArg(arg) \in Seq(Char)
         /\ Leads(Blank(A), Windows!QuoteArg(arg) \o <<" ">>, Blank(Append(A, arg)))
<1> DEFINE n == Len(arg)
<1>1. PICK f : /\ f[0] = Opened
               /\ \A i \in 1 .. n : f[i] = Windows!QuotedChar(f[i - 1], arg[i])
               /\ Windows!QuoteArg(arg) = f[n].out \o Windows!Backslashes(2 * f[n].pending) \o <<"\"">>
  BY QuotesRun
<1>2. n \in Nat /\ SubSeq(arg, 1, 0) = <<>> /\ SubSeq(arg, 1, n) = arg
  BY NextOf
<1>3. <<"\"">> \in Seq(Char) /\ <<" ">> \in Seq(Char)
  <2>1. "\"" \in Char /\ " " \in Char
    BY DEF Alphabet
  <2>2. QED
    BY <2>1, OneChar
<1>4. Windows!Backslashes(0) = <<>>
  BY SlashesAre
<1>5. QuotedOK(Char, A, Opened, <<>>)
  <2>1. Opened \in [out : Seq(Char), pending : Nat] /\ Opened.out = <<"\"">> /\ Opened.pending = 0
    BY <1>3 DEF Opened
  <2>2. <<>> \o Windows!Backslashes(0) \o <<>> = <<>> /\ <<>> \in Seq(Char)
    BY <1>4
  <2>3. Leads(Blank(A), <<"\"">>, Within(A, <<>>, TRUE, 0))
    <3>1. Windows!SplitChar(Blank(A), "\"") = Within(A, <<>>, TRUE, 0)
      BY <2>2, QuoteOpens
    <3>2. QED
      BY <3>1, LeadsOne
  <2>4. <<>> = <<>> \o Windows!Backslashes(Opened.pending)
    <3>1. Windows!Backslashes(Opened.pending) = <<>>
      BY <1>4, <2>1
    <3>2. QED
      BY <3>1
  <2>5. QED
    BY <2>1, <2>2, <2>3, <2>4 DEF QuotedOK
<1> DEFINE T == {i \in 0 .. n : QuotedOK(Char, A, f[i], SubSeq(arg, 1, i))}
<1>6. 0 \in T
  <2>1. f[0] = Opened /\ SubSeq(arg, 1, 0) = <<>>
    BY <1>1, <1>2
  <2>2. QuotedOK(Char, A, f[0], SubSeq(arg, 1, 0))
    BY <1>5, <2>1, Zenon
  <2>3. 0 \in 0 .. n
    BY <1>2
  <2>4. QED
    BY <2>2, <2>3
<1>7. ASSUME NEW i \in 1 .. n, i - 1 \in T PROVE i \in T
  <2>1. QuotedOK(Char, A, f[i - 1], SubSeq(arg, 1, i - 1))
    BY <1>7
  <2>2. /\ SubSeq(arg, 1, i) = Append(SubSeq(arg, 1, i - 1), arg[i])
        /\ SubSeq(arg, 1, i - 1) \in Seq(Char) /\ arg[i] \in Char
    BY NextOf
  <2>3. QuotedOK(Char, A, f[i], SubSeq(arg, 1, i))
    BY <1>1, <2>1, <2>2, QuotedStep
  <2>4. QED
    BY <2>3
<1>8. \A i \in 0 .. n : i \in T
  <2> HIDE DEF T, n
  <2>1. QED
    BY <1>2, <1>6, <1>7, UpTo
<1>9. QuotedOK(Char, A, f[n], arg)
  <2>1. n \in 0 .. n
    BY <1>2
  <2>2. n \in T
    BY <1>8, <2>1
  <2>3. QED
    BY <1>2, <2>2
<1> HIDE DEF n, T
<1> DEFINE st == f[n]
           p == st.pending
           q == Windows!QuoteArg(arg)
<1>10. PICK b \in Seq(Char) : /\ st \in [out : Seq(Char), pending : Nat]
                              /\ arg = b \o Windows!Backslashes(p)
                              /\ Leads(Blank(A), st.out, Within(A, b, TRUE, 0))
  BY <1>9 DEF QuotedOK
<1>11. q = st.out \o Windows!Backslashes(2 * p) \o <<"\"">>
  BY <1>1
<1>12. p \in Nat /\ st.out \in Seq(Char)
  BY <1>10
<1> HIDE DEF st, p, q
<1> DEFINE k == 2 * p
           B == Windows!Backslashes(k)
<1>13. k \in Nat /\ k % 2 = 0 /\ k \div 2 = p /\ 0 + k = k /\ 0 \in Nat
  BY <1>12, Doubled
<1> HIDE DEF k
<1>14. B \in Seq(Char) /\ Leads(Within(A, b, TRUE, 0), B, Within(A, b, TRUE, 0 + k))
  BY <1>13, SlashesAre, LeadsBackslashes
<1>15. Leads(Within(A, b, TRUE, k), <<"\"">>, State(A, b \o Windows!Backslashes(k \div 2) \o <<>>, FALSE, 0, TRUE, TRUE))
  <2>1. Windows!SplitChar(Within(A, b, TRUE, k), "\"")
          = State(A, b \o Windows!Backslashes(k \div 2) \o <<>>, FALSE, 0, TRUE, TRUE)
    BY <1>13, QuoteShuts
  <2>2. QED
    BY <2>1, LeadsOne
<1>16. b \o Windows!Backslashes(k \div 2) \o <<>> = arg
  <2>1. b \o Windows!Backslashes(k \div 2) = arg
    BY <1>10, <1>13
  <2>2. QED
    BY <2>1, ConcatEmptySeq
<1>17. Leads(State(A, arg, FALSE, 0, TRUE, TRUE), <<" ">>, Blank(Append(A, arg)))
  <2>1. arg \o Windows!Backslashes(0) = arg
    BY <1>4, ConcatEmptySeq
  <2>2. Windows!SplitChar(State(A, arg, FALSE, 0, TRUE, TRUE), " ") = Blank(Append(A, arg \o Windows!Backslashes(0)))
    BY SpaceEnds
  <2>3. QED
    BY <2>1, <2>2, LeadsOne
<1> HIDE DEF B
<1>18. Leads(Blank(A), st.out \o B, Within(A, b, TRUE, k)) /\ st.out \o B \in Seq(Char)
  BY <1>10, <1>12, <1>13, <1>14, LeadsOn, ConcatProperties DEF st
<1>19. Leads(Blank(A), q, State(A, arg, FALSE, 0, TRUE, TRUE)) /\ q \in Seq(Char)
  <2>1. q = (st.out \o B) \o <<"\"">>
    BY <1>11 DEF B, k
  <2>2. Leads(Within(A, b, TRUE, k), <<"\"">>, State(A, arg, FALSE, 0, TRUE, TRUE))
    BY <1>15, <1>16
  <2>3. QED
    BY <1>3, <1>18, <2>1, <2>2, LeadsOn, ConcatProperties
<1>20. Leads(Blank(A), q \o <<" ">>, Blank(Append(A, arg)))
  BY <1>3, <1>17, <1>19, LeadsOn
<1>21. QED
  BY <1>19, <1>20 DEF q

\* An argument without quotes that is read already, up to some backslashes.
PlainOK(Char, A, given) ==
  \E b \in Seq(Char), h \in Nat : /\ given = b \o Windows!Backslashes(h)
                                 /\ Leads(Blank(A), given, Within(A, b, FALSE, h))

LEMMA LeadsNone == ASSUME NEW s PROVE Leads(s, <<>>, s)
<1> DEFINE f == [i \in {0} |-> s]
<1>1. f[0] = s /\ Len(<<>>) = 0 /\ 1 .. 0 = {}
  OBVIOUS
<1>2. QED
  BY <1>1 DEF Leads

LEMMA Successor == ASSUME NEW k \in Nat PROVE k + 1 \in Nat
OBVIOUS

LEMMA FromZero ==
  ASSUME NEW n \in Nat
  PROVE  /\ 0 \in 0 .. n /\ n \in 0 .. n
         /\ \A i \in 1 .. n : i \in 0 .. n /\ i # 0 /\ i - 1 \in 0 .. n
         /\ \A i \in 0 .. n : i # 0 => i \in 1 .. n
OBVIOUS

LEMMA Regroup ==
  ASSUME NEW S, NEW k \in Seq(S), NEW l \in Seq(S), NEW m \in Seq(S), NEW r, r = k \o l
  PROVE  r \o m = k \o (l \o m)
BY ConcatAssociative

LEMMA OneMore ==
  ASSUME NEW Char, Alphabet(Char), NEW b \in Seq(Char), NEW h \in Nat, NEW given,
         given = b \o Windows!Backslashes(h)
  PROVE  Append(given, "\\") = b \o Windows!Backslashes(h + 1)
<1> DEFINE k == Windows!Backslashes(h)
<1>1. "\\" \in Char
  BY DEF Alphabet
<1>2. k \in Seq(Char) /\ <<"\\">> \in Seq(Char) /\ given = b \o k /\ given \in Seq(Char)
  BY <1>1, OneChar, SlashesAre, ConcatProperties
<1>3. Append(k, "\\") = Windows!Backslashes(h + 1)
  BY SlashesAre
<1> HIDE DEF k
<1>4. Append(given, "\\") = given \o <<"\\">> /\ Append(k, "\\") = k \o <<"\\">>
  BY <1>1, <1>2, AppendIsConcat
<1>5. given \o <<"\\">> = b \o (k \o <<"\\">>)
  BY <1>2, Regroup
<1>6. QED
  BY <1>3, <1>4, <1>5

LEMMA PlainChar ==
  ASSUME NEW Char, Alphabet(Char), NEW A, NEW b \in Seq(Char), NEW h \in Nat, NEW y,
         NEW given \in Seq(Char), given = b \o Windows!Backslashes(h),
         Leads(Blank(A), given, State(A, b, FALSE, h, y, FALSE)),
         NEW c \in Char, c # "\"", c # " "
  PROVE  PlainOK(Char, A, Append(given, c))
<1> DEFINE B(k) == Windows!Backslashes(k)
           s == State(A, b, FALSE, h, y, FALSE)
           next == Append(given, c)
<1>0. h + 1 \in Nat
  BY Successor, Zenon
<1>1. next = given \o <<c>> /\ <<c>> \in Seq(Char) /\ next \in Seq(Char)
  BY AppendIsConcat, OneChar, AppendProperties
<1>2. B(h) \in Seq(Char) /\ B(0) = <<>>
  BY SlashesAre
<1>3. ASSUME NEW t, Windows!SplitChar(s, c) = t PROVE Leads(Blank(A), next, t)
  <2>1. Leads(s, <<c>>, t)
    BY <1>3, LeadsOne
  <2>2. QED
    BY <1>1, <2>1, LeadsOn
<1>4. CASE c = "\\"
  <2>1. Windows!SplitChar(s, "\\") = State(A, b, FALSE, h + 1, TRUE, FALSE)
    BY BackslashSplit
  <2>2. Leads(Blank(A), next, Within(A, b, FALSE, h + 1))
    BY <1>3, <1>4, <2>1 DEF Within
  <2>3. next = b \o B(h + 1)
    BY <1>4, OneMore
  <2>4. QED
    BY <1>0, <2>2, <2>3 DEF PlainOK
<1>5. CASE c # "\\"
  <2>1. Windows!SplitChar(s, c) = Within(A, next, FALSE, 0)
    BY <1>5, OtherPlain
  <2>2. Leads(Blank(A), next, Within(A, next, FALSE, 0))
    BY <1>3, <2>1
  <2>3. next = next \o B(0)
    BY <1>1, <1>2, ConcatEmptySeq
  <2>4. QED
    BY <1>1, <2>2, <2>3 DEF PlainOK
<1>6. QED
  BY <1>4, <1>5

\* An argument without quotes is read as what was given.
LEMMA PlainLeads ==
  ASSUME NEW Char, Alphabet(Char), NEW A, NEW arg \in Seq(Char), Simple(arg)
  PROVE  Leads(Blank(A), arg \o <<" ">>, Blank(Append(A, arg)))
<1> DEFINE n == Len(arg)
           T == {i \in 0 .. n : i = 0 \/ PlainOK(Char, A, SubSeq(arg, 1, i))}
<1>1. n \in Nat /\ n # 0 /\ SubSeq(arg, 1, 0) = <<>> /\ SubSeq(arg, 1, n) = arg
  <2>1. arg # <<>>
    BY DEF Simple
  <2>2. QED
    BY <2>1, NextOf, EmptySeq
<1>2. \A i \in 1 .. n : arg[i] # "\"" /\ arg[i] # " "
  <2>1. DOMAIN arg = 1 .. n
    OBVIOUS
  <2>2. QED
    BY <2>1 DEF Simple
<1>3. 0 \in T
  BY <1>1
<1>4. ASSUME NEW i \in 1 .. n, i - 1 \in T PROVE i \in T
  <2> DEFINE g == SubSeq(arg, 1, i - 1)
  <2>1. SubSeq(arg, 1, i) = Append(g, arg[i]) /\ g \in Seq(Char) /\ arg[i] \in Char
    BY NextOf
  <2>2. CASE i = 1
    <3>1. g = <<>>
      BY <1>1, <2>2
    <3>2. <<>> = <<>> \o Windows!Backslashes(0) /\ <<>> \in Seq(Char) /\ 0 \in Nat
      <4>1. Windows!Backslashes(0) = <<>>
        BY SlashesAre
      <4>2. QED
        BY <4>1
    <3>3. Leads(Blank(A), <<>>, State(A, <<>>, FALSE, 0, FALSE, FALSE))
      BY LeadsNone DEF Blank
    <3>4. PlainOK(Char, A, Append(<<>>, arg[i]))
      BY <1>2, <2>1, <3>2, <3>3, PlainChar
    <3>5. PlainOK(Char, A, SubSeq(arg, 1, i))
      BY <2>1, <3>1, <3>4
    <3>6. QED
      BY <3>5
  <2>3. CASE i # 1
    <3>1. PlainOK(Char, A, g)
      BY <1>4, <2>3
    <3> HIDE DEF g
    <3>2. PICK b \in Seq(Char), h \in Nat :
            g = b \o Windows!Backslashes(h) /\ Leads(Blank(A), g, Within(A, b, FALSE, h))
      BY <3>1 DEF PlainOK
    <3>3. Leads(Blank(A), g, State(A, b, FALSE, h, TRUE, FALSE))
      BY <3>2 DEF Within
    <3>4. PlainOK(Char, A, Append(g, arg[i]))
      BY <1>2, <2>1, <3>2, <3>3, PlainChar
    <3>5. PlainOK(Char, A, SubSeq(arg, 1, i))
      BY <2>1, <3>4 DEF g
    <3>6. QED
      BY <3>5
  <2>4. QED
    BY <2>2, <2>3
<1>5. \A i \in 0 .. n : i \in T
  <2> HIDE DEF T, n
  <2>1. QED
    BY <1>1, <1>3, <1>4, UpTo
<1>6. PlainOK(Char, A, arg)
  <2>1. n \in 0 .. n
    BY <1>1
  <2>2. n \in T
    BY <1>5, <2>1
  <2>3. QED
    BY <1>1, <2>2
<1> HIDE DEF n, T
<1>7. PICK b \in Seq(Char), h \in Nat :
        arg = b \o Windows!Backslashes(h) /\ Leads(Blank(A), arg, Within(A, b, FALSE, h))
  BY <1>6 DEF PlainOK
<1>8. Leads(Within(A, b, FALSE, h), <<" ">>, Blank(Append(A, arg)))
  <2>1. Windows!SplitChar(Within(A, b, FALSE, h), " ") = Blank(Append(A, arg))
    BY <1>7, SpaceEnds DEF Within
  <2>2. QED
    BY <2>1, LeadsOne
<1>9. <<" ">> \in Seq(Char)
  <2>1. " " \in Char
    BY DEF Alphabet
  <2>2. QED
    BY <2>1, OneChar
<1>10. QED
  BY <1>7, <1>8, <1>9, LeadsOn

\* Whatever it holds, an argument is read as what was given.
LEMMA ArgLeads ==
  ASSUME NEW Char, Alphabet(Char), NEW A, NEW arg \in Seq(Char)
  PROVE  /\ Windows!QuoteArg(arg) \in Seq(Char)
         /\ Leads(Blank(A), Windows!QuoteArg(arg) \o <<" ">>, Blank(Append(A, arg)))
<1>1. CASE Simple(arg)
  <2>1. Windows!QuoteArg(arg) = arg
    BY <1>1 DEF Simple, Windows!QuoteArg
  <2>2. QED
    BY <1>1, <2>1, PlainLeads
<1>2. CASE ~Simple(arg)
  BY <1>2, QuotedLeads
<1>3. QED
  BY <1>1, <1>2

\* What build_command_line writes, argument by argument.
LEMMA LinesRun ==
  ASSUME NEW Char, Alphabet(Char), NEW args \in Seq(Seq(Char))
  PROVE  \E f : /\ f[0] = <<>>
                /\ \A i \in 1 .. Len(args) : f[i] = f[i - 1] \o <<" ">> \o Windows!QuoteArg(args[i])
                /\ \A i \in 0 .. Len(args) : f[i] \in Seq(Char)
                /\ Windows!BuildCommandLine(args) = f[Len(args)]
<1> DEFINE n == Len(args)
           S == Seq(Char)
           Next1(l, a) == l \o <<" ">> \o Windows!QuoteArg(a)
           step == [x \in (1 .. n) \X S |-> Next1(x[2], args[x[1]])]
           Body(f) == [i \in 0 .. n |-> IF i = 0 THEN <<>> ELSE f[i - 1] \o <<" ">> \o Windows!QuoteArg(args[i])]
<1>0. n \in Nat
  OBVIOUS
<1>1. n \in Nat /\ \A i \in 1 .. n : args[i] \in S
  BY ElementOfSeq
<1>2. <<>> \in S
  OBVIOUS
<1>3. ASSUME NEW l \in S, NEW a \in S PROVE Next1(l, a) \in S
  <2>1. " " \in Char
    BY DEF Alphabet
  <2>2. <<" ">> \in Seq(Char) /\ Windows!QuoteArg(a) \in Seq(Char)
    BY <2>1, OneChar, ArgLeads
  <2>3. l \o <<" ">> \in Seq(Char)
    BY <2>2, ConcatProperties
  <2>4. QED
    BY <2>2, <2>3, ConcatProperties
<1> HIDE DEF S, Next1
<1>4. step \in [(1 .. n) \X S -> S]
  BY <1>1, <1>3
<1>5. \A i \in 1 .. n, l \in S : step[<<i, l>>] = Next1(l, args[i])
  OBVIOUS
<1> HIDE DEF step, n
<1>6. PICK f : /\ f = [i \in 0 .. n |-> f[i]] /\ f[0] = <<>>
               /\ \A i \in 1 .. n : f[i] = step[<<i, f[i - 1]>>]
               /\ \A i \in 0 .. n : f[i] \in S
  <2>1. PICK f : Runs(f, n, S, <<>>, step)
    BY <1>1, <1>2, <1>4, Recursion
  <2>2. QED
    BY <2>1, Zenon DEF Runs
<1>7. ASSUME NEW i \in 1 .. n PROVE f[i] = Next1(f[i - 1], args[i])
  <2>1. i - 1 \in 0 .. n
    BY <1>1
  <2>2. QED
    BY <1>5, <1>6, <2>1
<1>8. f = Body(f)
  <2>1. ASSUME NEW i \in 0 .. n
        PROVE f[i] = IF i = 0 THEN <<>> ELSE f[i - 1] \o <<" ">> \o Windows!QuoteArg(args[i])
    <3>1. CASE i = 0
      BY <1>6, <3>1
    <3>2. CASE i # 0
      <4>1. i \in 1 .. n
        BY <1>1, <3>2
      <4>2. QED
        BY <1>7, <3>2, <4>1 DEF Next1
    <3>3. QED
      BY <3>1, <3>2
  <2>2. QED
    BY <1>6, <2>1
<1> DEFINE Line == CHOOSE g : g = Body(g)
<1>9. Line = Body(Line)
  BY <1>8
<1>10. Windows!BuildCommandLine(args) = Line[n]
  BY DEF Windows!BuildCommandLine, n
<1> HIDE DEF Line
<1>11. Line[0] = <<>> /\ \A i \in 1 .. n : Line[i] = Next1(Line[i - 1], args[i])
  <2>1. Line[0] = <<>>
    <3>1. 0 \in 0 .. n
      BY <1>0, FromZero
    <3>2. QED
      BY <1>9, <3>1
  <2>2. ASSUME NEW i \in 1 .. n PROVE Line[i] = Next1(Line[i - 1], args[i])
    <3>1. i \in 0 .. n /\ i # 0
      BY <1>0, FromZero
    <3>2. QED
      BY <1>9, <3>1 DEF Next1
  <2>3. QED
    BY <2>1, <2>2
<1> DEFINE T == {i \in 0 .. n : Line[i] \in S}
<1>12. \A i \in 0 .. n : i \in T
  <2>1. 0 \in T
    BY <1>1, <1>2, <1>11
  <2>2. ASSUME NEW i \in 1 .. n, i - 1 \in T PROVE i \in T
    <3>1. Line[i - 1] \in S /\ args[i] \in S
      BY <1>1, <2>2
    <3>2. Line[i] \in S
      BY <1>3, <1>11, <3>1
    <3>3. QED
      BY <3>2
  <2> HIDE DEF T
  <2>3. QED
    BY <1>1, <2>1, <2>2, UpTo
<1>13. \A i \in 0 .. n : Line[i] \in S
  BY <1>12
<1>14. QED
  BY <1>10, <1>11, <1>13 DEF n, S, Next1

\* Where the characters of the line and a space behind them lead is what Split
\* gives.
LEMMA SplitIs ==
  ASSUME NEW Char, Alphabet(Char), NEW line \in Seq(Char), NEW t, Leads(Windows!NoArgs, line \o <<" ">>, t)
  PROVE  Windows!Split(line) = t.args
<1> DEFINE chars == Append(line, " ")
           n == Len(chars)
           Body(g) == [i \in 0 .. n |-> IF i = 0 THEN Windows!NoArgs ELSE Windows!SplitChar(g[i - 1], chars[i])]
<1>1. chars = line \o <<" ">> /\ chars \in Seq(Char) /\ n \in Nat
  <2>1. " " \in Char
    BY DEF Alphabet
  <2>2. chars \in Seq(Char) /\ chars = line \o <<" ">>
    BY <2>1, AppendProperties, AppendIsConcat
  <2> HIDE DEF chars
  <2>3. n \in Nat
    BY <2>2, LenProperties
  <2>4. QED
    BY <2>2, <2>3
<1> HIDE DEF chars
<1>0. n \in Nat
  BY <1>1
<1>2. PICK f : /\ f[0] = Windows!NoArgs /\ f[n] = t
               /\ \A i \in 1 .. n : f[i] = Windows!SplitChar(f[i - 1], chars[i])
  BY <1>1 DEF Leads
<1> HIDE DEF n
<1> DEFINE g == [i \in 0 .. n |-> f[i]]
<1>3. g = Body(g)
  <2>1. ASSUME NEW i \in 0 .. n
        PROVE g[i] = IF i = 0 THEN Windows!NoArgs ELSE Windows!SplitChar(g[i - 1], chars[i])
    <3>1. CASE i = 0
      BY <1>2, <3>1
    <3>2. CASE i # 0
      <4>1. i \in 1 .. n /\ i - 1 \in 0 .. n
        BY <1>0, <3>2, FromZero
      <4>2. g[i] = f[i] /\ g[i - 1] = f[i - 1]
        BY <4>1
      <4> HIDE DEF g
      <4>3. QED
        BY <1>2, <3>2, <4>1, <4>2
    <3>3. QED
      BY <3>1, <3>2
  <2>2. g = [i \in 0 .. n |-> g[i]]
    OBVIOUS
  <2> HIDE DEF g
  <2>3. QED
    BY <2>1, <2>2
<1> HIDE DEF g
<1> DEFINE After == CHOOSE h : h = Body(h)
<1>4. After = Body(After)
  BY <1>3
<1>5. Windows!Split(line) = After[n].args
  BY DEF Windows!Split, chars, n
<1> HIDE DEF After
<1>6. After[0] = Windows!NoArgs /\ \A i \in 1 .. n : After[i] = Windows!SplitChar(After[i - 1], chars[i])
  <2>1. After[0] = Windows!NoArgs
    <3>1. 0 \in 0 .. n
      BY <1>0, FromZero
    <3>2. QED
      BY <1>4, <3>1
  <2>2. ASSUME NEW i \in 1 .. n PROVE After[i] = Windows!SplitChar(After[i - 1], chars[i])
    <3>1. i \in 0 .. n /\ i # 0
      BY <1>0, FromZero
    <3>2. QED
      BY <1>4, <3>1
  <2>3. QED
    BY <2>1, <2>2
<1>7. Leads(Windows!NoArgs, chars, After[n])
  BY <1>6 DEF Leads, n
<1>8. Leads(Windows!NoArgs, chars, t)
  BY <1>1
<1>9. After[n] = t
  BY <1>1, <1>7, <1>8, LeadsOnce
<1>10. QED
  BY <1>5, <1>9

LEMMA LineGrows ==
  ASSUME NEW S, NEW l \in Seq(S), NEW m \in Seq(S), NEW q \in Seq(S), NEW r, r = l \o m \o q
  PROVE  r \o m = (l \o m) \o (q \o m)
<1> DEFINE k == l \o m
<1>1. k \in Seq(S) /\ r = k \o q
  BY ConcatProperties
<1> HIDE DEF k
<1>2. r \o m = k \o (q \o m)
  BY <1>1, ConcatAssociative
<1>3. QED
  BY <1>2 DEF k

\* Whatever the arguments hold, a program that splits the command line finds
\* every one of them as it was given.
THEOREM CommandLineSurvives ==
  ASSUME NEW Char, Alphabet(Char), NEW args \in Seq(Seq(Char))
  PROVE  Windows!Split(Windows!BuildCommandLine(args)) = args
<1> DEFINE n == Len(args)
           done(i) == SubSeq(args, 1, i)
           space == <<" ">>
<1>1. PICK f : /\ f[0] = <<>>
               /\ \A i \in 1 .. n : f[i] = f[i - 1] \o space \o Windows!QuoteArg(args[i])
               /\ \A i \in 0 .. n : f[i] \in Seq(Char)
               /\ Windows!BuildCommandLine(args) = f[n]
  BY LinesRun
<1>2. n \in Nat /\ done(0) = <<>> /\ done(n) = args
  BY NextOf
<1>3. space \in Seq(Char)
  <2>1. " " \in Char
    BY DEF Alphabet
  <2>2. QED
    BY <2>1, OneChar
<1> DEFINE T == {i \in 0 .. n : Leads(Blank(<<>>), f[i] \o space, Blank(done(i)))}
<1>4. 0 \in T
  <2>1. Leads(Blank(<<>>), space, Blank(<<>>))
    <3>1. Windows!SplitChar(Blank(<<>>), " ") = Blank(<<>>)
      BY SpaceSkips
    <3>2. QED
      BY <3>1, LeadsOne
  <2>2. f[0] \o space = space
    BY <1>1, <1>3, ConcatEmptySeq
  <2>3. Leads(Blank(<<>>), f[0] \o space, Blank(done(0)))
    BY <1>2, <2>1, <2>2
  <2>4. 0 \in 0 .. n
    BY <1>2, FromZero
  <2>5. QED
    BY <2>3, <2>4
<1>5. ASSUME NEW i \in 1 .. n, i - 1 \in T PROVE i \in T
  <2> DEFINE q == Windows!QuoteArg(args[i])
             l == f[i - 1]
  <2>1. i \in 0 .. n /\ i - 1 \in 0 .. n
    BY <1>2, FromZero
  <2>2. done(i) = Append(done(i - 1), args[i]) /\ args[i] \in Seq(Char)
    BY NextOf
  <2>3. l \in Seq(Char) /\ f[i] = l \o space \o q
    BY <1>1, <2>1
  <2>4. q \in Seq(Char) /\ Leads(Blank(done(i - 1)), q \o space, Blank(done(i)))
    BY <2>2, ArgLeads
  <2>5. Leads(Blank(<<>>), l \o space, Blank(done(i - 1)))
    BY <1>5
  <2> HIDE DEF l, q, space, done
  <2>6. f[i] \o space = (l \o space) \o (q \o space)
    <3>1. l \in Seq(Char) /\ q \in Seq(Char) /\ space \in Seq(Char) /\ f[i] = l \o space \o q
      BY <1>3, <2>3, <2>4
    <3>2. QED
      BY <3>1, LineGrows
  <2>7. Leads(Blank(<<>>), (l \o space) \o (q \o space), Blank(done(i)))
    BY <1>3, <2>3, <2>4, <2>5, ConcatProperties, LeadsOn
  <2>8. Leads(Blank(<<>>), f[i] \o space, Blank(done(i)))
    BY <2>6, <2>7
  <2>9. QED
    BY <2>1, <2>8
<1>6. \A i \in 0 .. n : i \in T
  <2> HIDE DEF T, n
  <2>1. QED
    BY <1>2, <1>4, <1>5, UpTo
<1>7. n \in 0 .. n
  BY <1>2, FromZero
<1>8. n \in T
  BY <1>6, <1>7
<1>9. Leads(Blank(<<>>), f[n] \o space, Blank(args))
  BY <1>2, <1>8
<1>10. Windows!NoArgs = Blank(<<>>)
  BY RecordIs DEF Blank, Windows!NoArgs
<1>11. Blank(args).args = args
  BY DEF Blank, State, Keys
<1>12. f[n] \in Seq(Char) /\ Windows!BuildCommandLine(args) = f[n]
  BY <1>1, <1>7
<1> HIDE DEF n, T, done
<1>13. Windows!Split(f[n]) = Blank(args).args
  BY <1>9, <1>10, <1>12, SplitIs
<1>14. QED
  BY <1>11, <1>12, <1>13

LEMMA ArgsAreSequences ==
  ASSUME NEW a \in Windows!Args PROVE a \in Seq({"\\", "\"", " ", "x"})
<1> DEFINE C == {"\\", "\"", " ", "x"}
<1>1. Windows!Args = UNION {[1 .. m -> C] : m \in 0 .. 3}
  BY DEF Windows!Args
<1>2. PICK m \in 0 .. 3 : a \in [1 .. m -> C]
  BY <1>1
<1> HIDE DEF C
<1>3. a \in Seq(C)
  BY <1>2, SeqDef
<1>4. QED
  BY <1>3 DEF C

\* On Windows a browser is given its arguments as they were.
THEOREM ArgumentsAlwaysSurvive == Windows!ArgumentsSurvive
<1> DEFINE C == {"\\", "\"", " ", "x"}
<1>1. ASSUME NEW a \in Windows!Args
      PROVE  Windows!Split(Windows!BuildCommandLine(<<a, <<"x">>>>)) = <<a, <<"x">>>>
  <2>1. a \in Seq(C) /\ <<"x">> \in Seq(C)
    <3>1. "x" \in C
      OBVIOUS
    <3>2. <<"x">> \in Seq(C)
      BY <3>1, OneChar
    <3>3. QED
      BY <3>2, ArgsAreSequences
  <2>2. Alphabet(C)
    BY DEF Alphabet
  <2> HIDE DEF C
  <2>3. <<a, <<"x">>>> \in Seq(Seq(C))
    BY <2>1
  <2>4. QED
    BY <2>2, <2>3, CommandLineSurvives
<1>2. QED
  BY <1>1 DEF Windows!ArgumentsSurvive

\* A browser is started again only within the limit, on Windows with its arguments
\* as they were, and every panic has its report.
THEOREM StartRight == PartsSpec => []StartsAreRight
<1>1. QED
  BY PartsApart, RestartsRateLimited, ArgumentsAlwaysSurvive, EachReported, PTL DEF StartsAreRight

=============================================================================
