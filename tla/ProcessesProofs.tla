---------------------------- MODULE ProcessesProofs ----------------------------
(* Theorems about what runs beside each other on one profile: the           *)
(* invocations (SingleInstance), the processes that have the bookmarks open *)
(* (Bookmarks), the pages that leave visits and zoom levels behind (Visits) *)
(* and the icons of the tabs (Icons); for any number of them.               *)
EXTENDS MCProcesses, Integers, FiniteSetTheorems, SequenceTheorems, WellFoundedInduction, TLAPS

-----------------------------------------------------------------------------
(* SingleInstance: who owns the profile.                                    *)

Labels == Owning \cup Ended \cup Clients \cup {"off", "connect", "lock"}

\* The part of the types the proofs need.
Typed ==
  /\ pc \in [Procs -> Labels]
  /\ lock \in Procs \cup {None} /\ sock \in Procs \cup {None}
  /\ reply \in [Procs -> {"none", "OK", "ERR", "eof"}]
  /\ acking \in [Procs -> {"none", "OK", "ERR"}]
  /\ backlog \in [Procs -> Seq(Procs)]
  /\ serving \in [Procs -> Procs \cup {None}]
  /\ taken \in [Procs -> BOOLEAN]
  /\ events \in [Procs -> Seq(Procs)]
  /\ opened \in [Procs -> Nat]

\* An owner holds the lock, all the way to the last use of the socket path.
LockInv == \A p \in Procs : pc[p] \in Owning => lock = p

\* Once renamed into place, an owner's socket stays until the owner is gone.
SocketInv == \A p \in Procs : pc[p] \in {"start", "serve", "drain"} => sock = p

\* An OK, from the moment it is decided to the moment it is believed, stands
\* for URLs that were taken.
AckInv ==
  /\ \A q \in Procs : acking[q] # "none" => serving[q] \in Procs
  /\ \A q \in Procs : acking[q] = "OK" => taken[serving[q]]
  /\ \A p \in Procs : reply[p] = "OK" => taken[p]
  /\ \A p \in Procs : pc[p] = "forwarded" => taken[p]

IInv == LockInv /\ SocketInv /\ AckInv

-----------------------------------------------------------------------------
\* The steps of the accept thread and of the event loop that leave every
\* process where it is.
LEMMA AcceptThreadStays ==
  ASSUME NEW q \in Procs, AcceptThread(q) \/ OpenUrls(q)
  PROVE  UNCHANGED <<pc, lock, sock>>
  BY DEF AcceptThread, Accept, ReadLine, WriteAck, GiveUp, OpenUrls, AcceptKeeps, ownerVars

\* A process that dies or unlinks hangs up: no reply turns into OK by that.
LEMMA HungUpAddsNoOK ==
  ASSUME Typed, NEW q
  PROVE  /\ HungUp(q) \in [Procs -> {"none", "OK", "ERR", "eof"}]
         /\ \A p \in Procs : HungUp(q)[p] = "OK" => reply[p] = "OK"
  BY DEF Typed, HungUp

\* The types hold in every state of SingleInstance.
THEOREM TypedHolds == Spec => []Typed
<1>1. Init => Typed
  BY DEF Init, Typed, Labels
<1>2. Typed /\ [Next]_vars => Typed'
  <2> SUFFICES ASSUME Typed, [Next]_vars PROVE Typed'
    OBVIOUS
  <2> USE NoneAssumption DEF Typed, Goto, Labels, Owning, Ended, Clients, Accepting, clientVars, ownerVars, acceptVars, histVars
  <2>1. ASSUME NEW p \in Procs, Client(p) PROVE Typed'
    <3>1. CASE Connect(p)
      <4>1. sock \in Procs
        BY <3>1 DEF Connect, Reachable
      <4>2. Append(backlog[sock], p) \in Seq(Procs)
        BY <4>1
      <4>3. QED
        BY <3>1, <4>1, <4>2 DEF Connect
    <3>2. CASE ConnectStale(p) \/ ConnectAmbiguous(p)
      BY <3>2 DEF ConnectStale, ConnectAmbiguous
    <3>3. CASE Send(p)
      BY <3>3 DEF Send
    <3>4. CASE ReadAck(p) \/ AckTimeout(p)
      BY <3>4 DEF ReadAck, AckTimeout, AfterAckTimeout
    <3>5. QED
      BY <2>1, <3>1, <3>2, <3>3, <3>4 DEF Client
  <2>2. ASSUME NEW p \in Procs, Acquire(p) \/ BindFails(p) \/ Start(p) \/ StartFails(p)
        PROVE  Typed'
    <3>1. CASE TryLock(p)
      BY <3>1 DEF TryLock
    <3>2. CASE Bind(p) \/ Rename(p) \/ BindFails(p)
      BY <3>2 DEF Bind, Rename, BindFails
    <3>3. CASE Unlink(p)
      BY <3>3, HungUpAddsNoOK DEF Unlink
    <3>4. CASE Start(p) \/ StartFails(p)
      BY <3>4 DEF Start, StartFails, LockDuringUnlink
    <3>5. QED
      BY <2>2, <3>1, <3>2, <3>3, <3>4 DEF Acquire
  <2>3. ASSUME NEW q \in Procs, AcceptThread(q) PROVE Typed'
    <3>1. CASE Accept(q)
      <4>1. Head(backlog[q]) \in Procs /\ Tail(backlog[q]) \in Seq(Procs)
        BY <3>1 DEF Accept
      <4>2. QED
        BY <3>1, <4>1 DEF Accept, AcceptKeeps
    <3>2. CASE ReadLine(q)
      <4>1. serving[q] \in Procs
        BY <3>2 DEF ReadLine, Busy
      <4>2. Append(events[q], serving[q]) \in Seq(Procs)
        BY <4>1
      <4>3. acking' \in [Procs -> {"none", "OK", "ERR"}] /\ taken' \in [Procs -> BOOLEAN]
        BY <3>2 DEF ReadLine
      <4>4. events' \in [Procs -> Seq(Procs)]
        BY <3>2, <4>2 DEF ReadLine
      <4>5. QED
        BY <3>2, <4>3, <4>4 DEF ReadLine, AcceptKeeps
    <3>3. CASE WriteAck(q)
      BY <3>3 DEF WriteAck, AcceptKeeps
    <3>4. CASE GiveUp(q)
      BY <3>4 DEF GiveUp, AcceptKeeps
    <3>5. QED
      BY <2>3, <3>1, <3>2, <3>3, <3>4 DEF AcceptThread
  <2>4. ASSUME NEW p \in Procs, OpenUrls(p) \/ Quit(p) PROVE Typed'
    <3>1. CASE OpenUrls(p)
      <4>1. Head(events[p]) \in Procs /\ Tail(events[p]) \in Seq(Procs)
        BY <3>1 DEF OpenUrls
      <4>2. events' \in [Procs -> Seq(Procs)]
        BY <3>1, <4>1 DEF OpenUrls
      <4>3. \A c \in Procs : [opened EXCEPT ![c] = @ + 1] \in [Procs -> Nat]
        OBVIOUS
      <4>4. opened' \in [Procs -> Nat]
        BY <3>1, <4>1, <4>3 DEF OpenUrls
      <4>5. QED
        BY <3>1, <4>2, <4>4 DEF OpenUrls
    <3>2. CASE Quit(p)
      BY <3>2 DEF Quit
    <3>3. QED
      BY <2>4, <3>1, <3>2
  <2>5. ASSUME NEW p \in Procs, Die(p) PROVE Typed'
    BY <2>5, HungUpAddsNoOK DEF Die
  <2>6. ASSUME NEW p \in Procs, NEW kind \in Kinds, Launch(p, kind) PROVE Typed'
    BY <2>6 DEF Launch
  <2>7. CASE UNCHANGED vars
    BY <2>7 DEF vars
  <2>8. QED
    BY <2>1, <2>2, <2>3, <2>4, <2>5, <2>6, <2>7 DEF Next
<1>3. QED
  BY <1>1, <1>2, PTL DEF Spec

-----------------------------------------------------------------------------
\* The invariant, one conjunct per group of actions that can disturb it.
THEOREM IInvHolds == Spec => []IInv
<1>1. Init => IInv
  BY DEF Init, IInv, LockInv, SocketInv, AckInv, Owning
<1>2. Typed /\ IInv /\ [Next]_vars => LockInv' /\ SocketInv'
  <2> SUFFICES ASSUME Typed, LockInv, SocketInv, [Next]_vars PROVE LockInv' /\ SocketInv'
    BY DEF IInv
  <2> USE NoneAssumption DEF Typed, LockInv, SocketInv, Owning, Goto, ownerVars
  <2>1. ASSUME NEW p \in Procs, Client(p) PROVE LockInv' /\ SocketInv'
    <3>1. lock' = lock /\ sock' = sock /\ \E label \in Labels \ Owning : pc' = [pc EXCEPT ![p] = label]
      BY <2>1 DEF Client, Connect, ConnectStale, ConnectAmbiguous, Send, ReadAck, AckTimeout,
                  AfterAckTimeout, Labels, Clients, Ended
    <3>2. QED
      BY <3>1
  <2>2. ASSUME NEW p \in Procs, TryLock(p) PROVE LockInv' /\ SocketInv'
    BY <2>2 DEF TryLock, LockFree
  <2>3. ASSUME NEW p \in Procs, Bind(p) \/ Start(p) \/ Quit(p) \/ StartFails(p)
        PROVE  LockInv' /\ SocketInv'
    BY <2>3 DEF Bind, Start, Quit, StartFails, LockDuringUnlink
  <2>4. ASSUME NEW p \in Procs, Rename(p) \/ BindFails(p) \/ Unlink(p)
        PROVE  LockInv' /\ SocketInv'
    <3>1. \A q \in Procs \ {p} : pc[q] \notin Owning
      BY <2>4 DEF Rename, BindFails, Unlink
    <3>2. CASE Rename(p)
      BY <3>1, <3>2 DEF Rename
    <3>3. CASE BindFails(p)
      BY <3>1, <3>3 DEF BindFails
    <3>4. CASE Unlink(p)
      BY <3>1, <3>4 DEF Unlink
    <3>5. QED
      BY <2>4, <3>2, <3>3, <3>4
  <2>5. ASSUME NEW p \in Procs, Die(p) PROVE LockInv' /\ SocketInv'
    BY <2>5 DEF Die
  <2>6. ASSUME NEW q \in Procs, AcceptThread(q) \/ OpenUrls(q) PROVE LockInv' /\ SocketInv'
    BY <2>6, AcceptThreadStays
  <2>7. ASSUME NEW p \in Procs, NEW kind \in Kinds, Launch(p, kind) PROVE LockInv' /\ SocketInv'
    BY <2>7 DEF Launch
  <2>8. CASE UNCHANGED vars
    BY <2>8 DEF vars
  <2>9. QED
    BY <2>1, <2>2, <2>3, <2>4, <2>5, <2>6, <2>7, <2>8 DEF Next, Acquire
<1>3. Typed /\ IInv /\ [Next]_vars => AckInv'
  <2> SUFFICES ASSUME Typed, AckInv, [Next]_vars PROVE AckInv'
    BY DEF IInv
  <2> USE NoneAssumption DEF Typed, AckInv, Goto, clientVars, acceptVars, histVars
  <2>1. ASSUME NEW p \in Procs, ReadAck(p) PROVE AckInv'
    BY <2>1 DEF ReadAck, Acked
  <2>2. ASSUME NEW p \in Procs, Client(p), ~ReadAck(p) PROVE AckInv'
    BY <2>2 DEF Client, Connect, ConnectStale, ConnectAmbiguous, Send, AckTimeout, AfterAckTimeout
  <2>3. ASSUME NEW p \in Procs, TryLock(p) \/ Bind(p) \/ Rename(p) \/ BindFails(p) \/ Start(p)
                                  \/ StartFails(p) \/ Quit(p)
        PROVE  AckInv'
    BY <2>3 DEF TryLock, Bind, Rename, BindFails, Start, StartFails, Quit
  <2>4. ASSUME NEW p \in Procs, Unlink(p) \/ Die(p) PROVE AckInv'
    BY <2>4, HungUpAddsNoOK DEF Unlink, Die
  <2>5. ASSUME NEW q \in Procs, Accept(q) PROVE AckInv'
    BY <2>5 DEF Accept, AcceptKeeps
  <2>6. ASSUME NEW q \in Procs, ReadLine(q) PROVE AckInv'
    <3>1. /\ UNCHANGED <<pc, reply, serving>> /\ serving[q] \in Procs
          /\ \A p \in Procs : taken[p] => taken'[p]
          /\ \A r \in Procs \ {q} : acking'[r] = acking[r]
      BY <2>6 DEF ReadLine, Busy, AcceptKeeps
    <3>2. acking'[q] = "OK" => taken'[serving[q]]
      BY <2>6, <3>1 DEF ReadLine
    <3>3. QED
      BY <3>1, <3>2
  <2>7. ASSUME NEW q \in Procs, WriteAck(q) PROVE AckInv'
    BY <2>7 DEF WriteAck, AcceptKeeps
  <2>8. ASSUME NEW q \in Procs, GiveUp(q) PROVE AckInv'
    BY <2>8 DEF GiveUp, Busy, AcceptKeeps
  <2>9. ASSUME NEW q \in Procs, OpenUrls(q) PROVE AckInv'
    BY <2>9 DEF OpenUrls
  <2>10. ASSUME NEW p \in Procs, NEW kind \in Kinds, Launch(p, kind) PROVE AckInv'
    BY <2>10 DEF Launch
  <2>11. CASE UNCHANGED vars
    BY <2>11 DEF vars
  <2>12. QED
    BY <2>1, <2>2, <2>3, <2>4, <2>5, <2>6, <2>7, <2>8, <2>9, <2>10, <2>11
       DEF Next, Acquire, AcceptThread
<1>4. QED
  BY <1>1, <1>2, <1>3, TypedHolds, PTL DEF Spec, IInv

-----------------------------------------------------------------------------
\* A profile never has two owners.
THEOREM OneOwnerHolds == Spec => []OneOwner
<1>1. IInv => OneOwner
  BY DEF IInv, LockInv, OneOwner
<1>2. QED
  BY <1>1, IInvHolds, PTL

\* The socket path of a serving owner stays its own.
THEOREM SocketStays == Spec => []SocketIsOwners
<1>1. IInv => SocketIsOwners
  BY DEF IInv, SocketInv, SocketIsOwners
<1>2. QED
  BY <1>1, IInvHolds, PTL

\* What is reported forwarded was taken by an owner.
THEOREM ForwardedTaken == Spec => []ForwardedWasTaken
<1>1. IInv => ForwardedWasTaken
  BY DEF IInv, AckInv, ForwardedWasTaken
<1>2. QED
  BY <1>1, IInvHolds, PTL

\* A profile has one owner, and the socket path of a serving one names it.
THEOREM OwnerAndSocket == Spec => []OwnerIsReached
<1>1. OneOwner /\ SocketIsOwners => OwnerIsReached
  BY DEF OwnerIsReached
<1>2. QED
  BY <1>1, OneOwnerHolds, SocketStays, PTL

-----------------------------------------------------------------------------
(* No URL list is opened twice.  A connection goes from a backlog to the   *)
(* accept thread, and what it carried from there through the events to the *)
(* windows: it is at one place at a time and never comes back.             *)

In(c, s) == \E i \in 1..Len(s) : s[i] = c
Distinct(s) == \A i, j \in 1..Len(s) : s[i] = s[j] => i = j

\* Before it connects for good, an invocation has left no trace.
Fresh == {"off", "connect", "lock"}

\* Is the line of c read, and if it passed the gate, in an event or opened?
Handed(c) == opened[c] > 0 \/ \E q \in Procs : In(c, events[q])

OnceInv ==
  /\ \A q \in Procs : Distinct(backlog[q]) /\ Distinct(events[q])
  /\ \A c, q, r \in Procs : In(c, backlog[q]) /\ In(c, backlog[r]) => q = r
  /\ \A c, q, r \in Procs : In(c, events[q]) /\ In(c, events[r]) => q = r
  /\ \A c, q, r \in Procs : serving[q] = c /\ serving[r] = c => q = r
  /\ \A c, q, r \in Procs : serving[q] = c => ~In(c, backlog[r])
  /\ \A c, q \in Procs : In(c, backlog[q]) \/ serving[q] = c => pc[c] \notin Fresh
  /\ \A c, q \in Procs :
       Handed(c) => ~In(c, backlog[q]) /\ (serving[q] = c => acking[q] # "none")
  /\ \A c \in Procs : Handed(c) => pc[c] \notin Fresh
  /\ \A c, q \in Procs : In(c, events[q]) => opened[c] = 0
  /\ \A c \in Procs : opened[c] <= 1

\* What lies in an empty list.
LEMMA EmptyEntries == Distinct(<<>>) /\ \A c : ~In(c, <<>>)
  BY DEF Distinct, In

\* What lies in a list after an entry is added.
LEMMA AppendEntries ==
  ASSUME NEW S, NEW s \in Seq(S), NEW x \in S
  PROVE  /\ \A c : In(c, Append(s, x)) <=> In(c, s) \/ c = x
         /\ Distinct(s) /\ ~In(x, s) => Distinct(Append(s, x))
<1>1. /\ Len(Append(s, x)) = Len(s) + 1 /\ Append(s, x)[Len(s) + 1] = x
      /\ \A i \in 1..Len(s) : Append(s, x)[i] = s[i]
      /\ Len(s) \in Nat
  OBVIOUS
<1>2. \A i \in 1..(Len(s) + 1) : i \in 1..Len(s) \/ i = Len(s) + 1
  BY <1>1
<1>3. \A i \in 1..Len(s) : i \in 1..(Len(s) + 1)
  BY <1>1
<1>4. Len(s) + 1 \in 1..(Len(s) + 1)
  BY <1>1
<1>5. QED
  BY <1>1, <1>2, <1>3, <1>4, Zenon DEF In, Distinct

\* What lies in a list after its first entry is taken.
LEMMA TailEntries ==
  ASSUME NEW S, NEW s \in Seq(S), s # <<>>
  PROVE  /\ In(Head(s), s)
         /\ \A c : In(c, Tail(s)) => In(c, s)
         /\ Distinct(s) => Distinct(Tail(s)) /\ ~In(Head(s), Tail(s))
<1>1. /\ Len(s) \in Nat \ {0} /\ Len(Tail(s)) = Len(s) - 1 /\ Head(s) = s[1]
      /\ \A i \in 1..(Len(s) - 1) : Tail(s)[i] = s[i + 1]
  OBVIOUS
<1>2. 1 \in 1..Len(s)
  BY <1>1
<1>3. \A i \in 1..(Len(s) - 1) : i + 1 \in 1..Len(s) /\ i + 1 # 1
  BY <1>1
<1>4. \A i, j \in 1..(Len(s) - 1) : i + 1 = j + 1 => i = j
  BY <1>1
<1>5. In(Head(s), s)
  BY <1>1, <1>2 DEF In
<1>6. ASSUME NEW c, In(c, Tail(s)) PROVE In(c, s)
  BY <1>1, <1>3, <1>6 DEF In
<1>7. ASSUME Distinct(s) PROVE Distinct(Tail(s))
  <2>1. \A i, j \in 1..(Len(s) - 1) : s[i + 1] = s[j + 1] => i = j
    BY <1>3, <1>4, <1>7, Zenon DEF Distinct
  <2>2. QED
    BY <1>1, <2>1, Zenon DEF Distinct
<1>8. ASSUME Distinct(s) PROVE ~In(Head(s), Tail(s))
  <2>1. \A i \in 1..(Len(s) - 1) : s[i + 1] # s[1]
    BY <1>2, <1>3, <1>8 DEF Distinct
  <2>2. QED
    BY <1>1, <2>1 DEF In
<1>9. QED
  BY <1>5, <1>6, <1>7, <1>8

\* A list that was handed over once is on no other way to be opened.
THEOREM OnceInvHolds == Spec => []OnceInv
<1>1. Init => OnceInv
  <2>1. SUFFICES ASSUME Init PROVE OnceInv
    OBVIOUS
  <2>2. \A q \in Procs : /\ backlog[q] = <<>> /\ events[q] = <<>>
                         /\ serving[q] = None /\ opened[q] = 0
    BY <2>1 DEF Init
  <2>3. \A c \in Procs : ~Handed(c)
    BY <2>2, EmptyEntries DEF Handed
  <2>4. QED
    BY <2>2, <2>3, EmptyEntries, NoneAssumption DEF OnceInv
<1>2. Typed /\ OnceInv /\ [Next]_vars => OnceInv'
  <2> SUFFICES ASSUME Typed, OnceInv, [Next]_vars PROVE OnceInv'
    OBVIOUS
  <2> USE NoneAssumption
  <2>1. ASSUME NEW p \in Procs, Connect(p) PROVE OnceInv'
    <3>1. /\ sock \in Procs /\ pc[p] \in Fresh /\ pc' = [pc EXCEPT ![p] = "send"]
          /\ backlog' = [backlog EXCEPT ![sock] = Append(backlog[sock], p)]
          /\ UNCHANGED <<serving, acking, events, opened>>
      BY <2>1 DEF Connect, Reachable, Goto, Fresh, Typed, histVars
    <3>2. \A q \in Procs : ~In(p, backlog[q]) /\ serving[q] # p
      BY <3>1 DEF OnceInv
    <3>3. ~Handed(p) /\ \A c \in Procs : Handed(c)' <=> Handed(c)
      BY <3>1 DEF OnceInv, Handed
    <3>4. /\ Distinct(backlog'[sock])
          /\ \A c \in Procs : In(c, backlog'[sock]) <=> In(c, backlog[sock]) \/ c = p
          /\ \A q \in Procs \ {sock} : backlog'[q] = backlog[q]
      BY <3>1, <3>2, AppendEntries DEF OnceInv, Typed
    <3>5. /\ pc'[p] \notin Fresh
          /\ \A c \in Procs \ {p} : pc'[c] = pc[c]
      BY <3>1 DEF Fresh, Typed
    <3>6. QED
      BY <3>1, <3>2, <3>3, <3>4, <3>5 DEF OnceInv
  <2>2. ASSUME NEW p \in Procs,
               \/ Client(p) /\ ~Connect(p)
               \/ Acquire(p) \/ BindFails(p) \/ Start(p) \/ StartFails(p) \/ Quit(p) \/ Die(p)
               \/ \E kind \in Kinds : Launch(p, kind)
        PROVE  OnceInv'
    <3>1. /\ UNCHANGED <<backlog, serving, acking, events, opened>>
          /\ \A c \in Procs : pc[c] \notin Fresh => pc'[c] \notin Fresh
      BY <2>2 DEF Client, Acquire, ConnectStale, ConnectAmbiguous, Send, ReadAck, AckTimeout, AfterAckTimeout,
                  TryLock, Bind, Rename, BindFails, StartFails, Unlink, Start, Quit, Die, Launch,
                  Goto, Fresh, Typed, Ended, acceptVars, histVars
    <3>2. \A c \in Procs : Handed(c)' <=> Handed(c)
      BY <3>1 DEF Handed
    <3>3. QED
      BY <3>1, <3>2 DEF OnceInv
  <2>3. ASSUME NEW q \in Procs, Accept(q) PROVE OnceInv'
    <3>1. /\ backlog[q] \in Seq(Procs) /\ backlog[q] # <<>> /\ serving[q] = None
          /\ serving' = [serving EXCEPT ![q] = Head(backlog[q])]
          /\ backlog' = [backlog EXCEPT ![q] = Tail(backlog[q])]
          /\ UNCHANGED <<pc, acking, events, opened>>
      BY <2>3 DEF Accept, AcceptKeeps, Typed, histVars
    <3> DEFINE c0 == Head(backlog[q])
    <3>2. /\ c0 \in Procs /\ In(c0, backlog[q]) /\ ~In(c0, backlog'[q]) /\ Distinct(backlog'[q])
          /\ \A c \in Procs : In(c, backlog'[q]) => In(c, backlog[q])
          /\ \A r \in Procs \ {q} : backlog'[r] = backlog[r] /\ serving'[r] = serving[r]
          /\ serving'[q] = c0
      BY <3>1, TailEntries DEF OnceInv, Typed
    <3>3. \A c \in Procs : Handed(c)' <=> Handed(c)
      BY <3>1 DEF Handed
    <3>4. \A r \in Procs : ~In(c0, backlog'[r]) /\ serving[r] # c0
      BY <3>2 DEF OnceInv
    <3>5. ~Handed(c0) /\ pc[c0] \notin Fresh
      BY <3>2 DEF OnceInv
    <3> HIDE DEF c0
    <3>6. QED
      BY <3>1, <3>2, <3>3, <3>4, <3>5 DEF OnceInv
  <2>4. ASSUME NEW q \in Procs, ReadLine(q) PROVE OnceInv'
    <3> DEFINE c0 == serving[q]
    <3>1. /\ c0 \in Procs /\ ~Handed(c0) /\ pc[c0] \notin Fresh /\ \A r \in Procs : ~In(c0, backlog[r])
      BY <2>4 DEF ReadLine, Busy, OnceInv, Typed
    <3>2. /\ UNCHANGED <<pc, backlog, serving, opened>>
          /\ acking'[q] # "none" /\ \A r \in Procs \ {q} : acking'[r] = acking[r]
          /\ events' = events \/ events' = [events EXCEPT ![q] = Append(events[q], c0)]
      BY <2>4 DEF ReadLine, AcceptKeeps, Typed
    <3>3. \A r \in Procs : ~In(c0, events[r])
      BY <3>1 DEF Handed
    <3> HIDE DEF c0
    <3>4. CASE events' = events
      <4>1. \A c \in Procs : Handed(c)' <=> Handed(c)
        BY <3>2, <3>4 DEF Handed
      <4>2. QED
        BY <3>1, <3>2, <3>4, <4>1 DEF OnceInv
    <3>5. CASE events' = [events EXCEPT ![q] = Append(events[q], c0)]
      <4>1. /\ Distinct(events'[q])
            /\ \A c \in Procs : In(c, events'[q]) <=> In(c, events[q]) \/ c = c0
            /\ \A r \in Procs \ {q} : events'[r] = events[r]
        BY <3>1, <3>3, <3>5, AppendEntries DEF OnceInv, Typed
      <4>2. \A c \in Procs : Handed(c)' <=> Handed(c) \/ c = c0
        BY <3>1, <3>2, <4>1 DEF Handed
      <4>3. serving[q] = c0 /\ opened[c0] = 0
        BY <3>1 DEF Handed, Typed, c0
      <4>4. QED
        BY <3>1, <3>2, <3>3, <4>1, <4>2, <4>3 DEF OnceInv
    <3>6. QED
      BY <3>2, <3>4, <3>5
  <2>5. ASSUME NEW q \in Procs, WriteAck(q) \/ GiveUp(q) PROVE OnceInv'
    <3>1. /\ UNCHANGED <<pc, backlog, events, opened>>
          /\ serving'[q] = None
          /\ \A r \in Procs \ {q} : serving'[r] = serving[r] /\ acking'[r] = acking[r]
      BY <2>5 DEF WriteAck, GiveUp, AcceptKeeps, Typed, histVars
    <3>2. \A c \in Procs : Handed(c)' <=> Handed(c)
      BY <3>1 DEF Handed
    <3>3. QED
      BY <3>1, <3>2 DEF OnceInv
  <2>6. ASSUME NEW q \in Procs, OpenUrls(q) PROVE OnceInv'
    <3> DEFINE c0 == Head(events[q])
    <3>1. /\ events[q] \in Seq(Procs) /\ events[q] # <<>>
          /\ opened' = [opened EXCEPT ![c0] = @ + 1]
          /\ events' = [events EXCEPT ![q] = Tail(events[q])]
          /\ UNCHANGED <<pc, backlog, serving, acking>>
      BY <2>6 DEF OpenUrls, Typed, acceptVars
    <3>2. /\ c0 \in Procs /\ In(c0, events[q]) /\ ~In(c0, events'[q]) /\ Distinct(events'[q])
          /\ \A c \in Procs : In(c, events'[q]) => In(c, events[q])
          /\ \A r \in Procs \ {q} : events'[r] = events[r]
      BY <3>1, TailEntries DEF OnceInv, Typed
    <3>3. opened[c0] = 0 /\ Handed(c0)
      BY <3>2 DEF OnceInv, Handed
    <3> HIDE DEF c0
    <3>4. opened'[c0] = 1 /\ \A c \in Procs \ {c0} : opened'[c] = opened[c]
      BY <3>1, <3>2, <3>3 DEF Typed
    <3>5. \A r \in Procs : ~In(c0, events'[r])
      BY <3>2 DEF OnceInv
    <3>6. \A c \in Procs : Handed(c)' => Handed(c)
      BY <3>2, <3>3, <3>4 DEF Handed
    <3>7. QED
      BY <3>1, <3>2, <3>4, <3>5, <3>6 DEF OnceInv
  <2>7. CASE UNCHANGED vars
    BY <2>7 DEF vars, acceptVars, histVars, OnceInv, Handed
  <2>8. QED
    BY <2>1, <2>2, <2>3, <2>4, <2>5, <2>6, <2>7 DEF Next, AcceptThread
<1>3. QED
  BY <1>1, <1>2, TypedHolds, PTL DEF Spec

\* No URL list is opened twice, whatever is retried and whoever dies.
THEOREM NothingOpensTwice == Spec => []OpenedAtMostOnce
<1>1. OnceInv => OpenedAtMostOnce
  BY DEF OnceInv, OpenedAtMostOnce
<1>2. QED
  BY <1>1, OnceInvHolds, PTL

-----------------------------------------------------------------------------
(* Bookmarks: the schema, and what two processes write.                     *)

\* One writer, and each migration once.
SchemaInv ==
  /\ applied \in Seq(Nat) /\ \A i \in 1 .. Len(applied) : applied[i] = i
  /\ doing \in [Openers -> {"closed", "opening", "migrating", "open", "reading", "writing"}]
  /\ seen \in [Openers -> Nat] /\ commits \in Nat
  /\ \A p \in Openers :
       /\ doing[p] \in {"migrating", "writing"} => writer = p
       /\ doing[p] = "opening" => seen[p] <= Len(applied)
       /\ doing[p] = "migrating" => seen[p] = Len(applied)
       /\ doing[p] \in {"open", "reading", "writing"} => Knows[p] <= Len(applied)

\* A table whose rows have ids of their own.
IsRow(r) == r.id \in Nat /\ r = [id |-> r.id, title |-> r.title, tags |-> r.tags]

Sound(rows, id) ==
  /\ rows = [u \in Links |-> rows[u]] /\ id \in Nat
  /\ \A u \in Links : IsRow(rows[u]) /\ (rows[u] # Store!Nothing => rows[u].id \in 1 .. id)
  /\ \A u, v \in Links : (u # v /\ rows[u] # Store!Nothing /\ rows[v] # Store!Nothing)
                            => rows[u].id # rows[v].id

\* What the rows are after operations said this of the rows before.
Told(rows, says, before) ==
  \A u \in Links :
    /\ \A s \in says : s.url = u => rows[u].title = s.title /\ rows[u].tags = s.tags
    /\ (\A s \in says : s.url # u) => rows[u] = before[u]

\* A transaction that may still commit has read the table as it is.
DraftInv ==
  /\ Sound(table, lastId) /\ table = acknowledged /\ draft = [p \in Openers |-> draft[p]]
  /\ \A p \in Openers :
       /\ doing[p] = "reading" => seen[p] <= commits
       /\ doing[p] = "writing" \/ (doing[p] = "reading" /\ seen[p] = commits) =>
            /\ Sound(draft[p].rows, draft[p].lastId)
            /\ Told(draft[p].rows, draft[p].says, table)

\* Every step of the store keeps one writer and the order of migrations.
LEMMA SchemaStep == SchemaInv /\ [Store!Next]_(Store!vars) => SchemaInv'
<1> SUFFICES ASSUME SchemaInv, [Store!Next]_(Store!vars) PROVE SchemaInv'
  OBVIOUS
<1> USE DEF SchemaInv
<1>1. CASE UNCHANGED Store!vars
  BY <1>1 DEF Store!vars
<1>2. ASSUME NEW p \in Openers, NEW label \in {"closed", "open", "reading", "writing"},
             doing' = [doing EXCEPT ![p] = label],
             label # "closed" => doing[p] \in {"open", "reading", "writing"},
             IF label = "writing" THEN writer' = p /\ writer = Store!Nobody
             ELSE writer' = IF writer = p THEN Store!Nobody ELSE writer,
             UNCHANGED applied, seen' \in [Openers -> Nat], commits' \in Nat,
             \A q \in Openers \ {p} : seen'[q] = seen[q]
      PROVE  SchemaInv'
  <2>1. \A q \in Openers \ {p} : doing[q] \in {"migrating", "writing"} => writer' = q
    BY <1>2, StoreAssumption DEF Store!Nobody
  <2>2. QED
    BY <1>2, <2>1
<1>3. ASSUME NEW p \in Openers, Store!Open(p) PROVE SchemaInv'
  BY <1>3 DEF Store!Open
<1>4. ASSUME NEW p \in Openers, Store!Migrate(p) PROVE SchemaInv'
  <2>1. seen[p] = Len(applied)
    <3>1. seen[p] <= Len(applied) /\ seen[p] + 1 \notin {applied[i] : i \in 1 .. Len(applied)}
      BY <1>4 DEF Store!Migrate, Store!Versions
    <3>2. CASE seen[p] < Len(applied)
      <4>1. seen[p] + 1 \in 1 .. Len(applied)
        BY <3>2
      <4>2. applied[seen[p] + 1] = seen[p] + 1
        BY <4>1
      <4>3. QED
        BY <3>1, <4>1, <4>2
    <3>3. QED
      BY <3>1, <3>2
  <2>2. \A q \in Openers : doing[q] \notin {"migrating", "writing"}
    BY <1>4, StoreAssumption DEF Store!Migrate, Store!Nobody
  <2>3. QED
    BY <1>4, <2>1, <2>2 DEF Store!Migrate
<1>5. ASSUME NEW p \in Openers, Store!MigrationFails(p) PROVE SchemaInv'
  BY <1>5 DEF Store!MigrationFails
<1>6. ASSUME NEW p \in Openers, Store!MigrationCommits(p) PROVE SchemaInv'
  <2>1. /\ applied' = Append(applied, Len(applied) + 1) /\ doing[p] = "migrating"
        /\ doing' = [doing EXCEPT ![p] = "opening"] /\ seen' = [seen EXCEPT ![p] = Len(applied) + 1]
        /\ writer' = Store!Nobody /\ writer = p
    BY <1>6 DEF Store!MigrationCommits
  <2>2. /\ applied' \in Seq(Nat) /\ Len(applied') = Len(applied) + 1
        /\ \A i \in 1 .. Len(applied') : applied'[i] = i
    BY <2>1
  <2>3. \A q \in Openers \ {p} : doing[q] \notin {"migrating", "writing"}
    BY <2>1
  <2>4. QED
    <3>1. seen' \in [Openers -> Nat] /\ commits' \in Nat
      BY <1>6, <2>1 DEF Store!MigrationCommits
    <3>2. ASSUME NEW q \in Openers
          PROVE  /\ doing'[q] \in {"migrating", "writing"} => writer' = q
                 /\ doing'[q] = "opening" => seen'[q] <= Len(applied')
                 /\ doing'[q] = "migrating" => seen'[q] = Len(applied')
                 /\ doing'[q] \in {"open", "reading", "writing"} => Knows[q] <= Len(applied')
      <4>1. CASE q = p
        BY <2>1, <2>2, <4>1
      <4>2. CASE q # p
        <5>1. doing'[q] = doing[q] /\ seen'[q] = seen[q] /\ seen[q] \in Nat /\ Knows[q] \in Nat
          BY <2>1, <4>2, StoreAssumption
        <5>2. QED
          BY <2>2, <2>3, <4>2, <5>1
      <4>3. QED
        BY <4>1, <4>2
    <3>3. QED
      BY <2>1, <2>2, <3>1, <3>2
<1>7. ASSUME NEW p \in Openers, Store!Opened(p) PROVE SchemaInv'
  <2>1. Knows[p] <= Len(applied)
    <3>1. Knows[p] \in Nat
      BY StoreAssumption
    <3>2. seen[p] >= Knows[p] /\ seen[p] <= Len(applied)
      BY <1>7 DEF Store!Opened
    <3>3. QED
      BY <3>1, <3>2
  <2>2. QED
    BY <1>7, <2>1 DEF Store!Opened
<1>8. ASSUME NEW p \in Openers, NEW result, NEW doc, Store!Reads(p, result, doc) PROVE SchemaInv'
  BY <1>8 DEF Store!Reads
<1>9. ASSUME NEW p \in Openers, Store!Add(p) \/ Store!Update(p) \/ Store!ImportFile(p)
      PROVE  SchemaInv'
  BY <1>8, <1>9, Zenon DEF Store!Add, Store!Update, Store!ImportFile
<1>10. ASSUME NEW p \in Openers, Store!Writes(p) PROVE SchemaInv'
  BY <1>2, <1>10 DEF Store!Writes
<1>11. ASSUME NEW p \in Openers, Store!Rollback(p) PROVE SchemaInv'
  BY <1>2, <1>11 DEF Store!Rollback
<1>12. ASSUME NEW p \in Openers, Store!Commit(p) PROVE SchemaInv'
  <2>1. writer = p /\ commits' \in Nat
    BY <1>12 DEF Store!Commit
  <2>2. QED
    BY <1>2, <1>12, <2>1 DEF Store!Commit
<1>13. ASSUME NEW p \in Openers, Store!Delete(p) PROVE SchemaInv'
  BY <1>13 DEF Store!Delete
<1>14. ASSUME NEW p \in Openers, Store!Ends(p) PROVE SchemaInv'
  BY <1>2, <1>14 DEF Store!Ends
<1>15. QED
  BY <1>1, <1>3, <1>4, <1>5, <1>6, <1>7, <1>9, <1>10, <1>11, <1>12, <1>13, <1>14 DEF Store!Next

\* A row that is added or changed leaves the ids apart.
LEMMA AddedIsSound ==
  ASSUME NEW rows, NEW id, Sound(rows, id), NEW u \in Links, NEW title, NEW tags,
         NEW new, new = IF rows[u] = Store!Nothing THEN id + 1 ELSE id
  PROVE  /\ Sound(Store!Added(rows, id, u, title, tags), new)
         /\ Store!Added(rows, id, u, title, tags)[u].title = title
         /\ Store!Added(rows, id, u, title, tags)[u].tags = Store!normalise_tags(tags)
         /\ \A v \in Links \ {u} : Store!Added(rows, id, u, title, tags)[v] = rows[v]
<1> DEFINE added == Store!Added(rows, id, u, title, tags)
           own == IF rows[u] = Store!Nothing THEN id + 1 ELSE rows[u].id
           row == [id |-> own, title |-> title, tags |-> Store!normalise_tags(tags)]
<1>1. id \in Nat /\ new \in Nat /\ own \in 1 .. new /\ id <= new
  BY DEF Sound
<1>2. \A v \in Links \ {u} : rows[v] # Store!Nothing => rows[v].id # own
  <2>1. ASSUME NEW v \in Links \ {u}, rows[v] # Store!Nothing PROVE rows[v].id # own
    <3>1. rows[v].id \in 1 .. id
      BY <2>1 DEF Sound
    <3>2. CASE rows[u] = Store!Nothing
      BY <3>1, <3>2, <1>1
    <3>3. CASE rows[u] # Store!Nothing
      BY <2>1, <3>3 DEF Sound
    <3>4. QED
      BY <3>2, <3>3
  <2>2. QED
    BY <2>1
<1>3. added = [rows EXCEPT ![u] = row]
  BY Zenon DEF Store!Added
<1> HIDE DEF own
<1>4. row.id = own /\ row.title = title /\ row.tags = Store!normalise_tags(tags) /\ IsRow(row)
  BY <1>1 DEF IsRow
<1> HIDE DEF row, added
<1>5. added = [v \in Links |-> IF v = u THEN row ELSE rows[v]]
  BY <1>3 DEF Sound
<1>6. added[u] = row /\ \A v \in Links \ {u} : added[v] = rows[v]
  BY <1>5
<1>7. ASSUME NEW v \in Links PROVE IsRow(added[v]) /\ (added[v] # Store!Nothing => added[v].id \in 1 .. new)
  <2>1. CASE v = u
    BY <2>1, <1>1, <1>4, <1>6
  <2>2. CASE v # u
    BY <2>2, <1>1, <1>6 DEF Sound
  <2>3. QED
    BY <2>1, <2>2
<1>8. \A v, w \in Links : (v # w /\ added[v] # Store!Nothing /\ added[w] # Store!Nothing)
                            => added[v].id # added[w].id
  BY <1>2, <1>4, <1>6 DEF Sound
<1>9. Sound(added, new)
  BY <1>1, <1>5, <1>7, <1>8 DEF Sound
<1>10. QED
  BY <1>4, <1>6, <1>9 DEF added

-----------------------------------------------------------------------------
(* An import, token by token.                                               *)

\* A set of numbers has a least one.
LEMMA LeastNat == ASSUME NEW T, T \subseteq Nat, T # {} PROVE \E m \in T : \A k \in T : m <= k
<1> DEFINE R == OpToRel(<, Nat)
<1>1. IsWellFoundedOn(R, Nat)
  BY NatLessThanWellFounded
<1>2. \A x, y \in Nat : y < x => <<y, x>> \in R
  BY DEF OpToRel
<1> HIDE DEF R
<1>3. PICK x \in T : \A y \in T : ~(<<y, x>> \in R)
  BY <1>1, WFMin
<1>4. ASSUME NEW k \in T PROVE x <= k
  <2>1. x \in Nat /\ k \in Nat /\ ~(<<k, x>> \in R)
    BY <1>3
  <2>2. ~(k < x)
    BY <2>1, <1>2
  <2>3. QED
    BY <2>1, <2>2
<1>5. QED
  BY <1>4

\* Induction up to a bound, with a set in the place of a predicate.
LEMMA UpTo ==
  ASSUME NEW n \in Nat, NEW T, 0 \in T, \A i \in 1 .. n : i - 1 \in T => i \in T
  PROVE  \A i \in 0 .. n : i \in T
<1> DEFINE Out == {i \in 0 .. n : i \notin T}
<1>1. SUFFICES ASSUME Out # {} PROVE FALSE
  OBVIOUS
<1>2. PICK m \in Out : \A k \in Out : m <= k
  <2>1. Out \subseteq Nat
    OBVIOUS
  <2> HIDE DEF Out
  <2>2. QED
    BY <1>1, <2>1, LeastNat
<1>3. m \in 1 .. n
  BY <1>2
<1>4. m - 1 \in 0 .. n /\ m - 1 \notin Out
  BY <1>2, <1>3
<1>5. QED
  BY <1>2, <1>3, <1>4

NoTokens == [rows |-> table, lastId |-> lastId, folders |-> <<>>, says |-> {}]

\* f is what an import leaves behind after each of the tokens.
Runs(f, doc) ==
  /\ f[0] = NoTokens
  /\ \A i \in 1 .. Len(doc) : f[i] = Store!Imported(f[i - 1], doc[i])

\* The recursive definition has a solution.
LEMMA ImportRuns ==
  ASSUME NEW doc \in Docs
  PROVE  \E f : Runs(f, doc) /\ Store!Import(doc) = f[Len(doc)]
<1> DEFINE n == Len(doc)
           Body(f, m) == [i \in 0 .. m |-> IF i = 0 THEN NoTokens ELSE Store!Imported(f[i - 1], doc[i])]
           T == {m \in 0 .. n : \E f : f = Body(f, m)}
<1>1. n \in Nat
  BY StoreAssumption
<1>2. 0 \in T
  <2> DEFINE f == [i \in 0 .. 0 |-> NoTokens]
  <2>1. f = Body(f, 0)
    OBVIOUS
  <2> HIDE DEF f, Body
  <2>2. \E h : h = Body(h, 0)
    BY <2>1, Zenon
  <2>3. QED
    BY <2>2, <1>1
<1>3. ASSUME NEW m \in 1 .. n, m - 1 \in T PROVE m \in T
  <2>1. PICK f : f = Body(f, m - 1)
    BY <1>3
  <2> DEFINE g == [i \in 0 .. m |-> IF i = m THEN Store!Imported(f[m - 1], doc[m]) ELSE f[i]]
  <2>2. \A i \in 0 .. m - 1 : f[i] = IF i = 0 THEN NoTokens ELSE Store!Imported(f[i - 1], doc[i])
    BY <2>1
  <2>3. \A i \in 0 .. m - 1 : g[i] = f[i]
    OBVIOUS
  <2>4. ASSUME NEW i \in 0 .. m
        PROVE  g[i] = IF i = 0 THEN NoTokens ELSE Store!Imported(g[i - 1], doc[i])
    <3>1. CASE i = m
      <4>1. m - 1 \in 0 .. m - 1 /\ m # 0
        OBVIOUS
      <4>2. g[m - 1] = f[m - 1]
        BY <4>1, <2>3
      <4>3. QED
        BY <3>1, <4>1, <4>2
    <3>2. CASE i # m
      <4>1. i \in 0 .. m - 1 /\ g[i] = f[i]
        BY <3>2
      <4>2. CASE i = 0
        BY <4>1, <4>2, <2>2
      <4>3. CASE i # 0
        <5>1. i - 1 \in 0 .. m - 1
          BY <4>1, <4>3
        <5>2. g[i - 1] = f[i - 1]
          BY <5>1, <2>3
        <5>3. QED
          BY <4>1, <4>3, <2>2, <5>2
      <4>4. QED
        BY <4>2, <4>3
    <3>3. QED
      BY <3>1, <3>2
  <2>5. g = [i \in 0 .. m |-> g[i]]
    OBVIOUS
  <2> HIDE DEF g
  <2>6. g = Body(g, m)
    BY <2>4, <2>5
  <2>7. QED
    BY <2>6
<1>4. n \in T
  <2>1. \A i \in 0 .. n : i \in T
    <3> HIDE DEF T
    <3>1. QED
      BY <1>1, <1>2, <1>3, UpTo
  <2>2. QED
    BY <1>1, <2>1
<1> DEFINE After == CHOOSE f : f = Body(f, n)
<1>5. After = Body(After, n)
  BY <1>4
<1>6. Store!Import(doc) = After[n]
  BY DEF Store!Import, NoTokens
<1> HIDE DEF After
<1>7. Runs(After, doc)
  BY <1>1, <1>5 DEF Runs
<1>8. QED
  BY <1>6, <1>7

\* What each token leaves is sound, and is what the import has said so far.
ImportOK(st, doc) ==
  /\ st = [rows |-> st.rows, lastId |-> st.lastId, folders |-> st.folders, says |-> st.says]
  /\ Sound(st.rows, st.lastId) /\ Told(st.rows, st.says, table)
  /\ st.folders \in Seq({doc[j].name : j \in 1 .. Len(doc)})

\* A token keeps the rows sound and what was said of them true.
LEMMA TokenOK ==
  ASSUME NEW doc \in Docs, NEW st, ImportOK(st, doc), NEW i \in 1 .. Len(doc)
  PROVE  ImportOK(Store!Imported(st, doc[i]), doc)
<1> DEFINE token == doc[i]
           Names == {doc[j].name : j \in 1 .. Len(doc)}
           next == Store!Imported(st, token)
<1>1. CASE token.kind = "folder"
  <2> DEFINE stack == Append(IF Len(st.folders) >= MaxDepth THEN Tail(st.folders) ELSE st.folders,
                             token.name)
  <2>1. token.name \in Names /\ st.folders \in Seq(Names) /\ MaxDepth \in Nat \ {0}
    BY StoreAssumption DEF ImportOK
  <2> HIDE DEF Names
  <2>2. stack \in Seq(Names)
    <3>1. CASE Len(st.folders) >= MaxDepth
      <4>1. Tail(st.folders) \in Seq(Names)
        BY <2>1, <3>1
      <4>2. QED
        BY <2>1, <3>1, <4>1
    <3>2. CASE ~(Len(st.folders) >= MaxDepth)
      BY <2>1, <3>2
    <3>3. QED
      BY <3>1, <3>2
  <2>3. next = [st EXCEPT !.folders = stack]
    BY <1>1, Zenon DEF Store!Imported
  <2> HIDE DEF stack, next
  <2>4. next = [rows |-> st.rows, lastId |-> st.lastId, folders |-> stack, says |-> st.says]
    BY <2>3 DEF ImportOK
  <2>5. QED
    BY <2>2, <2>4 DEF ImportOK, Names, next
<1>2. CASE token.kind = "end"
  <2> DEFINE stack == IF st.folders = <<>> THEN st.folders
                      ELSE SubSeq(st.folders, 1, Len(st.folders) - 1)
  <2>1. st.folders \in Seq(Names)
    BY DEF ImportOK
  <2> HIDE DEF Names
  <2>2. stack \in Seq(Names)
    <3>1. CASE st.folders # <<>>
      <4>1. \A k \in 1 .. Len(st.folders) - 1 : k \in 1 .. Len(st.folders)
        BY <2>1
      <4>2. SubSeq(st.folders, 1, Len(st.folders) - 1) \in Seq(Names)
        BY <2>1, <3>1, <4>1, SubSeqProperties
      <4>3. QED
        BY <3>1, <4>2
    <3>2. QED
      BY <2>1, <3>1
  <2>3. next = [st EXCEPT !.folders = stack]
    BY <1>2 DEF Store!Imported
  <2> HIDE DEF stack, next
  <2>4. next = [rows |-> st.rows, lastId |-> st.lastId, folders |-> stack, says |-> st.says]
    BY <2>3 DEF ImportOK
  <2>5. QED
    BY <2>2, <2>4 DEF ImportOK, Names, next
<1>3. CASE token.kind = "anchor" /\ token.url \in Links
  <2> DEFINE u == token.url
             tags == Store!Kept(token.tags \o st.folders)
             added == Store!Added(st.rows, st.lastId, u, token.title, tags)
             new == IF st.rows[u] = Store!Nothing THEN st.lastId + 1 ELSE st.lastId
             told == {s \in st.says : s.url # u} \cup {Store!Says(u, token.title, tags)}
  <2>1. next = [st EXCEPT !.rows = added, !.lastId = new, !.says = told]
    BY <1>3, Zenon DEF Store!Imported
  <2>2. /\ Sound(added, new) /\ added[u].title = token.title
        /\ added[u].tags = Store!normalise_tags(tags)
        /\ \A v \in Links \ {u} : added[v] = st.rows[v]
    <3> HIDE DEF tags
    <3>1. Sound(st.rows, st.lastId)
      BY DEF ImportOK
    <3>2. /\ added = Store!Added(st.rows, st.lastId, u, token.title, tags)
          /\ new = IF st.rows[u] = Store!Nothing THEN st.lastId + 1 ELSE st.lastId
      OBVIOUS
    <3> HIDE DEF added, new
    <3>3. QED
      BY <1>3, <3>1, <3>2, AddedIsSound
  <2> HIDE DEF tags, added, new, next
  <2>3. next = [rows |-> added, lastId |-> new, folders |-> st.folders, says |-> told]
    BY <2>1 DEF ImportOK
  <2>4. Told(added, told, table)
    <3>1. Store!Says(u, token.title, tags) = [url |-> u, title |-> token.title,
                                              tags |-> Store!normalise_tags(tags)]
      BY DEF Store!Says
    <3>2. \A s \in told : IF s.url = u THEN s = Store!Says(u, token.title, tags) ELSE s \in st.says
      BY <3>1
    <3>3. \A s \in st.says : s.url # u => s \in told
      OBVIOUS
    <3>4. Store!Says(u, token.title, tags) \in told /\ Store!Says(u, token.title, tags).url = u
      BY <3>1
    <3> HIDE DEF told
    <3>5. ASSUME NEW v \in Links
          PROVE  /\ \A s \in told : s.url = v => added[v].title = s.title /\ added[v].tags = s.tags
                 /\ (\A s \in told : s.url # v) => added[v] = table[v]
      <4>1. CASE v = u
        BY <2>2, <3>1, <3>2, <3>4, <4>1
      <4>2. CASE v # u
        BY <2>2, <3>2, <3>3, <4>2 DEF ImportOK, Told
      <4>3. QED
        BY <4>1, <4>2
    <3>6. QED
      BY <3>5 DEF Told
  <2> HIDE DEF told
  <2>5. st.folders \in Seq({doc[j].name : j \in 1 .. Len(doc)})
    BY DEF ImportOK
  <2> HIDE DEF Names
  <2>6. QED
    BY <2>2, <2>3, <2>4, <2>5 DEF ImportOK, next
<1>4. CASE /\ token.kind \notin {"folder", "end"}
           /\ ~(token.kind = "anchor" /\ token.url \in Links)
  BY <1>4 DEF Store!Imported
<1>5. QED
  BY <1>1, <1>2, <1>3, <1>4

\* So does a whole file.
LEMMA ImportIsSound ==
  ASSUME NEW doc \in Docs, Sound(table, lastId), NEW f, Runs(f, doc)
  PROVE  \A i \in 0 .. Len(doc) : ImportOK(f[i], doc)
<1> DEFINE T == {i \in 0 .. Len(doc) : ImportOK(f[i], doc)}
<1>1. Len(doc) \in Nat
  BY StoreAssumption
<1>2. 0 \in T
  <2>1. NoTokens.rows = table /\ NoTokens.lastId = lastId /\ NoTokens.folders = <<>> /\ NoTokens.says = {}
    BY DEF NoTokens
  <2>2. NoTokens = [rows |-> NoTokens.rows, lastId |-> NoTokens.lastId, folders |-> NoTokens.folders,
                 says |-> NoTokens.says]
    BY DEF NoTokens
  <2>3. ImportOK(NoTokens, doc)
    BY <2>1, <2>2 DEF ImportOK, Told
  <2>4. QED
    BY <1>1, <2>3 DEF Runs
<1>3. \A i \in 1 .. Len(doc) : i - 1 \in T => i \in T
  BY <1>1, TokenOK DEF Runs
<1> HIDE DEF T
<1>4. \A i \in 0 .. Len(doc) : i \in T
  BY <1>1, <1>2, <1>3, UpTo
<1>5. QED
  BY <1>4 DEF T

-----------------------------------------------------------------------------
(* Two processes.                                                           *)

\* What a transaction that has just read will write.
LEMMA ReadsHolds ==
  ASSUME SchemaInv, DraftInv, NEW p \in Openers, NEW result, NEW doc, Store!Reads(p, result, doc),
         Sound(result.rows, result.lastId), Told(result.rows, result.says, table)
  PROVE  DraftInv'
<1> DEFINE d == [rows |-> result.rows, lastId |-> result.lastId, says |-> result.says, doc |-> doc]
<1>1. /\ doing[p] = "open" /\ doing' = [doing EXCEPT ![p] = "reading"]
      /\ seen' = [seen EXCEPT ![p] = commits] /\ draft' = [draft EXCEPT ![p] = d]
      /\ UNCHANGED <<commits, table, lastId, acknowledged>>
  BY DEF Store!Reads, Store!data
<1>2. d.rows = result.rows /\ d.lastId = result.lastId /\ d.says = result.says
  OBVIOUS
<1> HIDE DEF d
<1>3. /\ draft' = [q \in Openers |-> draft'[q]] /\ draft'[p] = d
      /\ \A q \in Openers \ {p} : draft'[q] = draft[q]
  BY <1>1 DEF DraftInv
<1>4. ASSUME NEW q \in Openers
      PROVE  /\ doing'[q] = "reading" => seen'[q] <= commits'
             /\ doing'[q] = "writing" \/ (doing'[q] = "reading" /\ seen'[q] = commits') =>
                  /\ Sound(draft'[q].rows, draft'[q].lastId)
                  /\ Told(draft'[q].rows, draft'[q].says, table')
  <2>1. CASE q = p
    <3>1. doing'[q] = "reading" /\ seen'[q] = commits /\ commits' = commits /\ table' = table
      BY <1>1, <2>1 DEF SchemaInv
    <3>2. commits <= commits
      BY DEF SchemaInv
    <3>3. QED
      BY <1>2, <1>3, <2>1, <3>1, <3>2
  <2>2. CASE q # p
    <3>1. doing'[q] = doing[q] /\ seen'[q] = seen[q] /\ draft'[q] = draft[q]
          /\ commits' = commits /\ table' = table
      BY <1>1, <1>3, <2>2 DEF SchemaInv
    <3>2. QED
      BY <3>1 DEF DraftInv
  <2>3. QED
    BY <2>1, <2>2
<1>5. Sound(table', lastId') /\ table' = acknowledged'
  BY <1>1 DEF DraftInv
<1>6. QED
  BY <1>3, <1>4, <1>5 DEF DraftInv, Sound, Told, IsRow

\* The table, the drafts and the commits are the same, or a draft is dropped.
LEMMA RestHolds ==
  ASSUME SchemaInv, DraftInv, NEW p \in Openers,
         UNCHANGED <<table, lastId, acknowledged>>, commits' = commits \/ commits' = commits + 1,
         draft' = draft \/ draft' = [draft EXCEPT ![p] = Store!NoDraft],
         \A q \in Openers : doing'[q] \in {"reading", "writing"} =>
            /\ draft'[q] = draft[q] /\ doing[q] \in {"reading", "writing"}
            /\ doing'[q] = "reading" => doing[q] = "reading"
            /\ doing'[q] = "writing" /\ doing[q] = "reading" => seen[q] = commits
            /\ seen'[q] = seen[q]
  PROVE  DraftInv'
<1>1. draft' = [q \in Openers |-> draft'[q]]
  BY DEF DraftInv
<1>2. ASSUME NEW q \in Openers
      PROVE  /\ doing'[q] = "reading" => seen'[q] <= commits'
             /\ doing'[q] = "writing" \/ (doing'[q] = "reading" /\ seen'[q] = commits') =>
                  /\ Sound(draft'[q].rows, draft'[q].lastId)
                  /\ Told(draft'[q].rows, draft'[q].says, table')
  <2>1. commits \in Nat /\ seen[q] \in Nat
    BY DEF SchemaInv
  <2>2. CASE doing'[q] = "reading"
    <3>1. doing[q] = "reading" /\ seen'[q] = seen[q] /\ draft'[q] = draft[q]
      BY <2>2
    <3>2. seen[q] <= commits
      BY <3>1 DEF DraftInv
    <3>3. seen'[q] <= commits' /\ (seen'[q] = commits' => seen[q] = commits)
      BY <2>1, <3>1, <3>2
    <3>4. QED
      BY <2>2, <3>1, <3>3 DEF DraftInv
  <2>3. CASE doing'[q] = "writing"
    <3>1. draft'[q] = draft[q] /\ (doing[q] = "writing" \/ (doing[q] = "reading" /\ seen[q] = commits))
      BY <2>3
    <3>2. QED
      BY <2>3, <3>1 DEF DraftInv
  <2>4. QED
    BY <2>2, <2>3
<1>3. Sound(table', lastId') /\ table' = acknowledged'
  BY DEF DraftInv
<1>4. QED
  BY <1>1, <1>2, <1>3 DEF DraftInv, Sound, Told, IsRow

\* A new table: whoever has read the one before may no longer write.
LEMMA TableHolds ==
  ASSUME SchemaInv, DraftInv, SchemaInv', NEW p \in Openers, NEW id,
         Sound(table', id), lastId' = id, acknowledged' = table', commits' = commits + 1,
         draft' = draft \/ draft' = [draft EXCEPT ![p] = Store!NoDraft],
         \A q \in Openers : /\ doing'[q] # "writing"
                            /\ doing'[q] = "reading" => doing[q] = "reading" /\ seen'[q] = seen[q]
  PROVE  DraftInv'
<1>1. draft' = [q \in Openers |-> draft'[q]]
  BY DEF DraftInv
<1>2. ASSUME NEW q \in Openers, doing'[q] = "reading" PROVE seen'[q] <= commits' /\ seen'[q] # commits'
  <2>1. seen'[q] = seen[q] /\ seen[q] \in Nat /\ commits \in Nat /\ seen[q] <= commits
    BY <1>2 DEF SchemaInv, DraftInv
  <2>2. QED
    BY <2>1
<1>3. Sound(table', lastId') /\ table' = acknowledged'
  OBVIOUS
<1>4. QED
  BY <1>1, <1>2, <1>3 DEF DraftInv, Sound, Told, IsRow

\* A change of a row that is there is a sound transaction.
LEMMA UpdateHolds ==
  ASSUME SchemaInv, DraftInv, NEW p \in Openers, Store!Update(p)
  PROVE  DraftInv'
<1>1. PICK u \in Links, title \in Titles, tags \in SUBSET Raw :
        \E new \in {[table[u] EXCEPT !.title = title],
                    [table[u] EXCEPT !.tags = Store!normalise_tags(tags)],
                    [table[u] EXCEPT !.title = title, !.tags = Store!normalise_tags(tags)]} :
          /\ table[u] # Store!Nothing
          /\ Store!Reads(p, [rows |-> [table EXCEPT ![u] = new], lastId |-> lastId,
                   says |-> {[url |-> u, title |-> new.title, tags |-> new.tags]}], <<>>)
  BY Zenon DEF Store!Update
<1>2. PICK new \in {[table[u] EXCEPT !.title = title],
                    [table[u] EXCEPT !.tags = Store!normalise_tags(tags)],
                    [table[u] EXCEPT !.title = title, !.tags = Store!normalise_tags(tags)]} :
        /\ table[u] # Store!Nothing
        /\ Store!Reads(p, [rows |-> [table EXCEPT ![u] = new], lastId |-> lastId,
                   says |-> {[url |-> u, title |-> new.title, tags |-> new.tags]}], <<>>)
  BY <1>1
<1>3. IsRow(table[u]) /\ table[u].id \in 1 .. lastId /\ lastId \in Nat
  BY <1>2 DEF DraftInv, Sound
<1>4. new.id = table[u].id /\ IsRow(new)
  BY <1>2, <1>3 DEF IsRow
<1> DEFINE rows == [table EXCEPT ![u] = new]
           said == [url |-> u, title |-> new.title, tags |-> new.tags]
           result == [rows |-> rows, lastId |-> lastId, says |-> {said}]
<1>5. rows = [v \in Links |-> IF v = u THEN new ELSE table[v]]
  BY DEF DraftInv, Sound
<1>6. Store!Reads(p, result, <<>>)
  BY <1>2
<1> HIDE DEF rows
<1>7. Sound(rows, lastId)
  <2>1. \A v \in Links : IF v = u THEN rows[v] = new ELSE rows[v] = table[v]
    BY <1>5
  <2>2. rows = [v \in Links |-> rows[v]]
    BY <1>5
  <2>3. new # Store!Nothing
    <3>1. Store!Nothing.id = 0
      BY DEF Store!Nothing
    <3>2. QED
      BY <1>3, <1>4, <3>1
  <2>4. \A v \in Links : IsRow(rows[v]) /\ (rows[v] # Store!Nothing => rows[v].id \in 1 .. lastId)
    BY <1>3, <1>4, <2>1 DEF DraftInv, Sound
  <2>5. \A v, w \in Links : (v # w /\ rows[v] # Store!Nothing /\ rows[w] # Store!Nothing)
                               => rows[v].id # rows[w].id
    BY <1>2, <1>4, <2>1 DEF DraftInv, Sound
  <2>6. QED
    BY <1>3, <2>2, <2>4, <2>5 DEF Sound
<1>8. Told(rows, {said}, table)
  <2>1. said.url = u /\ said.title = new.title /\ said.tags = new.tags
    OBVIOUS
  <2> HIDE DEF said
  <2>2. QED
    BY <1>5, <2>1 DEF Told
<1>9. result.rows = rows /\ result.lastId = lastId /\ result.says = {said}
  OBVIOUS
<1> HIDE DEF result
<1>10. QED
  BY <1>6, <1>7, <1>8, <1>9, ReadsHolds

\* A bookmark that is added is a sound transaction.
LEMMA AddHolds ==
  ASSUME SchemaInv, DraftInv, NEW p \in Openers, Store!Add(p)
  PROVE  DraftInv'
<1>1. PICK u \in Links, title \in Titles, tags \in SUBSET Raw :
        Store!Reads(p, [rows |-> Store!Added(table, lastId, u, title, tags),
                        lastId |-> IF table[u] = Store!Nothing THEN lastId + 1 ELSE lastId,
                        says |-> {Store!Says(u, title, tags)}], <<>>)
  BY Zenon DEF Store!Add
<1> DEFINE rows == Store!Added(table, lastId, u, title, tags)
           id == IF table[u] = Store!Nothing THEN lastId + 1 ELSE lastId
           said == Store!Says(u, title, tags)
           result == [rows |-> rows, lastId |-> id, says |-> {said}]
<1>2. Store!Reads(p, result, <<>>)
  BY <1>1
<1>3. /\ rows = Store!Added(table, lastId, u, title, tags)
      /\ id = IF table[u] = Store!Nothing THEN lastId + 1 ELSE lastId
  OBVIOUS
<1> HIDE DEF rows, id
<1>4. /\ Sound(rows, id) /\ rows[u].title = title /\ rows[u].tags = Store!normalise_tags(tags)
      /\ \A v \in Links \ {u} : rows[v] = table[v]
  <2>1. Sound(table, lastId)
    BY DEF DraftInv
  <2>2. QED
    BY <1>3, <2>1, AddedIsSound
<1>5. said.url = u /\ said.title = title /\ said.tags = Store!normalise_tags(tags)
  BY DEF Store!Says
<1> HIDE DEF said
<1>6. Told(rows, {said}, table)
  BY <1>4, <1>5 DEF Told
<1>7. result.rows = rows /\ result.lastId = id /\ result.says = {said}
  OBVIOUS
<1> HIDE DEF result
<1>8. QED
  BY <1>2, <1>4, <1>6, <1>7, ReadsHolds

\* A file that is imported is a sound transaction.
LEMMA ImportHolds ==
  ASSUME SchemaInv, DraftInv, NEW p \in Openers, Store!ImportFile(p)
  PROVE  DraftInv'
<1>1. PICK doc \in Docs : Store!Reads(p, Store!Import(doc), doc)
  BY Zenon DEF Store!ImportFile
<1>2. PICK f : Runs(f, doc) /\ Store!Import(doc) = f[Len(doc)]
  BY ImportRuns
<1>3. Len(doc) \in 0 .. Len(doc) /\ Sound(table, lastId)
  BY StoreAssumption DEF DraftInv
<1>4. ImportOK(Store!Import(doc), doc)
  BY <1>2, <1>3, ImportIsSound
<1>5. QED
  BY <1>1, <1>4, ReadsHolds DEF ImportOK

\* What commits has read the table as it was when it commits.
LEMMA DraftStep == SchemaInv /\ SchemaInv' /\ DraftInv /\ [Store!Next]_(Store!vars) => DraftInv'
<1> SUFFICES ASSUME SchemaInv, SchemaInv', DraftInv, [Store!Next]_(Store!vars) PROVE DraftInv'
  OBVIOUS
<1>1. CASE UNCHANGED Store!vars
  BY <1>1 DEF Store!vars, DraftInv, Sound, Told, IsRow
<1>2. ASSUME NEW p \in Openers,
             \/ Store!Open(p) \/ Store!Migrate(p) \/ Store!MigrationFails(p)
             \/ Store!MigrationCommits(p) \/ Store!Opened(p)
      PROVE  DraftInv'
  <2>1. /\ UNCHANGED <<table, lastId, acknowledged, draft>>
        /\ commits' = commits \/ commits' = commits + 1
        /\ doing[p] \in {"closed", "opening", "migrating"}
        /\ \E label \in {"closed", "opening", "migrating", "open"} : doing' = [doing EXCEPT ![p] = label]
        /\ \A q \in Openers \ {p} : seen'[q] = seen[q]
    BY <1>2 DEF Store!Open, Store!Migrate, Store!MigrationFails, Store!MigrationCommits, Store!Opened,
       Store!data, SchemaInv
  <2>2. \A q \in Openers : doing'[q] \in {"reading", "writing"} => q # p /\ doing'[q] = doing[q]
    BY <2>1 DEF SchemaInv
  <2>3. QED
    BY <2>1, <2>2, RestHolds
<1>3. ASSUME NEW p \in Openers, Store!Writes(p) PROVE DraftInv'
  <2>1. /\ doing[p] = "reading" /\ seen[p] = commits /\ doing' = [doing EXCEPT ![p] = "writing"]
        /\ UNCHANGED <<table, lastId, acknowledged, draft, commits, seen>>
    BY <1>3 DEF Store!Writes, Store!data
  <2>2. \A q \in Openers : doing'[q] = IF q = p THEN "writing" ELSE doing[q]
    BY <2>1 DEF SchemaInv
  <2>3. QED
    BY <2>1, <2>2, RestHolds
<1>4. ASSUME NEW p \in Openers, Store!Rollback(p) \/ Store!Ends(p) PROVE DraftInv'
  <2>1. /\ \E label \in {"open", "closed"} : doing' = [doing EXCEPT ![p] = label]
        /\ draft' = [draft EXCEPT ![p] = Store!NoDraft]
        /\ UNCHANGED <<table, lastId, acknowledged, commits, seen>>
    BY <1>4 DEF Store!Rollback, Store!Ends, Store!data
  <2>2. \A q \in Openers : doing'[q] \in {"reading", "writing"} => q # p /\ doing'[q] = doing[q]
    BY <2>1 DEF SchemaInv
  <2>3. \A q \in Openers \ {p} : draft'[q] = draft[q]
    BY <2>1 DEF DraftInv
  <2>4. QED
    BY <2>1, <2>2, <2>3, RestHolds
<1>5. ASSUME NEW p \in Openers, Store!Commit(p) PROVE DraftInv'
  <2> DEFINE d == draft[p]
  <2>1. /\ doing[p] = "writing" /\ table' = d.rows /\ lastId' = d.lastId
        /\ acknowledged' = [u \in Links |->
              IF \E s \in d.says : s.url = u
              THEN LET s == CHOOSE s \in d.says : s.url = u IN
                   [id |-> table'[u].id, title |-> s.title, tags |-> s.tags]
              ELSE acknowledged[u]]
        /\ commits' = commits + 1 /\ doing' = [doing EXCEPT ![p] = "open"]
        /\ draft' = [draft EXCEPT ![p] = Store!NoDraft] /\ seen' = seen
    BY <1>5 DEF Store!Commit
  <2>2. Sound(d.rows, d.lastId) /\ Told(d.rows, d.says, table) /\ table = acknowledged
    BY <2>1 DEF DraftInv
  <2> HIDE DEF d
  <2>3. acknowledged' = table'
    <3>1. ASSUME NEW u \in Links PROVE acknowledged'[u] = table'[u]
      <4>1. CASE \E s \in d.says : s.url = u
        <5> DEFINE s == CHOOSE s \in d.says : s.url = u
        <5>1. s \in d.says /\ s.url = u
          BY <4>1
        <5>2. acknowledged'[u] = [id |-> table'[u].id, title |-> s.title, tags |-> s.tags]
          BY <2>1, <4>1
        <5> HIDE DEF s
        <5>3. table'[u].title = s.title /\ table'[u].tags = s.tags /\ IsRow(table'[u])
          BY <2>1, <2>2, <5>1 DEF Told, Sound
        <5>4. QED
          BY <5>2, <5>3 DEF IsRow
      <4>2. CASE ~(\E s \in d.says : s.url = u)
        <5>1. acknowledged'[u] = acknowledged[u]
          BY <2>1, <4>2
        <5>2. QED
          BY <2>1, <2>2, <4>2, <5>1 DEF Told
      <4>3. QED
        BY <4>1, <4>2
    <3>2. acknowledged' = [u \in Links |-> acknowledged'[u]]
      BY <2>1
    <3>3. table' = [u \in Links |-> table'[u]]
      BY <2>1, <2>2 DEF Sound
    <3>4. QED
      BY <3>1, <3>2, <3>3
  <2>4. \A q \in Openers : doing'[q] # "writing" /\ (doing'[q] = "reading" => doing[q] = "reading")
    <3>1. \A q \in Openers : doing'[q] = IF q = p THEN "open" ELSE doing[q]
      BY <2>1 DEF SchemaInv
    <3>2. \A q \in Openers : doing[q] = "writing" => q = p
      BY <2>1 DEF SchemaInv
    <3>3. QED
      BY <3>1, <3>2
  <2>5. QED
    BY <2>1, <2>2, <2>3, <2>4, TableHolds
<1>6. ASSUME NEW p \in Openers, Store!Delete(p) PROVE DraftInv'
  <2>1. PICK gone :
          /\ table' = [u \in Links |-> IF u \in gone THEN Store!Nothing ELSE table[u]]
          /\ acknowledged' = [u \in Links |-> IF u \in gone THEN Store!Nothing ELSE acknowledged[u]]
    BY <1>6 DEF Store!Delete
  <2>2. /\ writer = Store!Nobody /\ commits' = commits + 1
        /\ UNCHANGED <<lastId, doing, seen, draft>>
    BY <1>6 DEF Store!Delete
  <2>3. acknowledged' = table'
    BY <2>1 DEF DraftInv
  <2>4. IsRow(Store!Nothing)
    BY DEF IsRow, Store!Nothing
  <2>5. Sound(table', lastId)
    BY <2>1, <2>4 DEF DraftInv, Sound
  <2>6. \A q \in Openers : doing'[q] # "writing"
    BY <2>2, StoreAssumption DEF SchemaInv, Store!Nobody
  <2>7. QED
    BY <2>2, <2>3, <2>5, <2>6, TableHolds
<1>7. QED
  BY <1>1, <1>2, <1>3, <1>4, <1>5, <1>6, AddHolds, UpdateHolds, ImportHolds DEF Store!Next

-----------------------------------------------------------------------------
(* The folders of an import.                                                *)

\* The cardinality of the instance is the library's.
LEMMA SameCardinality == ASSUME NEW S PROVE Store!Cardinality(S) = Cardinality(S)
  BY DEF Store!Cardinality, Cardinality, Store!IsFiniteSet, IsFiniteSet

Tokens(doc, kind, j, k) == {m \in j .. k : doc[m].kind = kind}
Count(doc, kind, j, k) == Cardinality(Tokens(doc, kind, j, k))
Depth(doc, j, k) == Count(doc, "folder", j, k) - Count(doc, "end", j, k)

\* The folders that lie open after i tokens.
Open(doc, i) ==
  {j \in 1 .. i : doc[j].kind = "folder" /\ \A k \in j .. i : Depth(doc, j, k) > 0}

\* The folders around a token are those that lie open before it.
LEMMA AroundIsOpen == ASSUME NEW doc, NEW i \in Nat \ {0} PROVE Store!Around(doc, i) = Open(doc, i - 1)
  BY SameCardinality DEF Store!Around, Open, Depth, Count, Tokens

\* How the number of tokens of a kind grows by a token.
LEMMA CountStep ==
  ASSUME NEW doc, NEW kind, NEW j \in Nat, NEW k \in Nat, j <= k + 1
  PROVE  /\ Count(doc, kind, j, k) \in Nat
         /\ Count(doc, kind, j, k + 1) =
              Count(doc, kind, j, k) + (IF doc[k + 1].kind = kind THEN 1 ELSE 0)
<1> DEFINE S == Tokens(doc, kind, j, k)
<1>1. IsFiniteSet(S) /\ Cardinality(S) \in Nat
  <2>1. IsFiniteSet(j .. k) /\ S \in SUBSET (j .. k)
    BY FS_Interval DEF Tokens
  <2>2. IsFiniteSet(S)
    BY <2>1, FS_Subset
  <2>3. QED
    BY <2>2, FS_CardinalityType
<1>2. k + 1 \notin S
  BY DEF Tokens
<1>3. CASE doc[k + 1].kind = kind
  <2>1. Tokens(doc, kind, j, k + 1) = S \cup {k + 1}
    BY <1>3 DEF Tokens
  <2>2. Cardinality(S \cup {k + 1}) = Cardinality(S) + 1
    BY <1>1, <1>2, FS_AddElement
  <2>3. QED
    BY <1>1, <1>3, <2>1, <2>2 DEF Count
<1>4. CASE doc[k + 1].kind # kind
  <2>1. Tokens(doc, kind, j, k + 1) = S
    BY <1>4 DEF Tokens
  <2>2. QED
    BY <1>1, <1>4, <2>1 DEF Count
<1>5. QED
  BY <1>3, <1>4

\* How the depth below a folder changes by a token.
LEMMA DepthStep ==
  ASSUME NEW doc, NEW j \in Nat, NEW k \in Nat, j <= k + 1
  PROVE  /\ Depth(doc, j, k) \in Int
         /\ Depth(doc, j, k + 1) = Depth(doc, j, k) +
              (IF doc[k + 1].kind = "folder" THEN 1 ELSE IF doc[k + 1].kind = "end" THEN -1 ELSE 0)
<1>1. /\ Count(doc, "folder", j, k) \in Nat /\ Count(doc, "end", j, k) \in Nat
      /\ Count(doc, "folder", j, k + 1) =
           Count(doc, "folder", j, k) + (IF doc[k + 1].kind = "folder" THEN 1 ELSE 0)
      /\ Count(doc, "end", j, k + 1) =
           Count(doc, "end", j, k) + (IF doc[k + 1].kind = "end" THEN 1 ELSE 0)
  BY CountStep
<1>2. QED
  BY <1>1 DEF Depth

\* No token, no depth.
LEMMA DepthOfNone == ASSUME NEW doc, NEW i \in Nat PROVE Depth(doc, i + 1, i) = 0
<1>1. Tokens(doc, "folder", i + 1, i) = {} /\ Tokens(doc, "end", i + 1, i) = {}
  BY DEF Tokens
<1>2. QED
  BY <1>1, FS_EmptySet DEF Depth, Count

\* The stack is that of the folders that lie open, from the outermost on.
IsStack(stack, doc, st, i) ==
  /\ stack \in Seq(1 .. i) /\ st.folders \in Seq({doc[j].name : j \in 1 .. Len(doc)})
  /\ Len(st.folders) = Len(stack)
  /\ \A k \in 1 .. Len(stack) : /\ st.folders[k] = doc[stack[k]].name
                               /\ Depth(doc, stack[k], i) = Len(stack) - k + 1
  /\ Open(doc, i) = {stack[k] : k \in 1 .. Len(stack)}

\* The first n numbers are n.
LEMMA FirstNumbers == ASSUME NEW n \in Nat PROVE IsFiniteSet(1 .. n) /\ Cardinality(1 .. n) = n
<1>1. IsFiniteSet(1 .. n) /\ Cardinality(1 .. n) = IF 1 > n THEN 0 ELSE n - 1 + 1
  BY FS_Interval
<1>2. QED
  BY <1>1

\* The stack is as long as there are open folders.
LEMMA StackSize ==
  ASSUME NEW doc, NEW i \in Nat, NEW st, NEW stack, IsStack(stack, doc, st, i)
  PROVE  IsFiniteSet(Open(doc, i)) /\ Cardinality(Open(doc, i)) = Len(stack)
<1>1. stack \in [1 .. Len(stack) -> Open(doc, i)] /\ Len(stack) \in Nat
  BY DEF IsStack
<1>2. \A j, k \in 1 .. Len(stack) : stack[j] = stack[k] => j = k
  BY <1>1 DEF IsStack
<1>3. \A t \in Open(doc, i) : \E k \in 1 .. Len(stack) : stack[k] = t
  BY DEF IsStack
<1>4. stack \in Bijection(1 .. Len(stack), Open(doc, i))
  BY <1>1, <1>2, <1>3 DEF Bijection, Injection, Surjection, IsInjective
<1>5. ExistsBijection(1 .. Len(stack), Open(doc, i))
  BY <1>4 DEF ExistsBijection
<1>6. IsFiniteSet(1 .. Len(stack)) /\ Cardinality(1 .. Len(stack)) = Len(stack)
  BY <1>1, FirstNumbers
<1>7. QED
  BY <1>5, <1>6, FS_Bijection

\* What Open becomes by a token.
LEMMA OpenStep ==
  ASSUME NEW doc, NEW i \in Nat
  PROVE  /\ doc[i + 1].kind = "folder" => Open(doc, i + 1) = Open(doc, i) \cup {i + 1}
         /\ doc[i + 1].kind = "end" =>
              Open(doc, i + 1) = {j \in Open(doc, i) : Depth(doc, j, i) > 1}
         /\ doc[i + 1].kind \notin {"folder", "end"} => Open(doc, i + 1) = Open(doc, i)
<1>1. ASSUME NEW j \in 1 .. i + 1
      PROVE  /\ Depth(doc, j, i) \in Int
             /\ Depth(doc, j, i + 1) = Depth(doc, j, i) +
                  (IF doc[i + 1].kind = "folder" THEN 1 ELSE IF doc[i + 1].kind = "end" THEN -1 ELSE 0)
  <2>1. j \in Nat /\ j <= i + 1
    OBVIOUS
  <2>2. QED
    BY <2>1, DepthStep
<1>2. \A j \in 1 .. i : j \in Open(doc, i + 1) <=>
        doc[j].kind = "folder" /\ (\A k \in j .. i : Depth(doc, j, k) > 0) /\ Depth(doc, j, i + 1) > 0
  <2>1. ASSUME NEW j \in 1 .. i
        PROVE  (\A k \in j .. i + 1 : Depth(doc, j, k) > 0) <=>
                 (\A k \in j .. i : Depth(doc, j, k) > 0) /\ Depth(doc, j, i + 1) > 0
    <3>1. \A k : k \in j .. i + 1 <=> k \in j .. i \/ k = i + 1
      OBVIOUS
    <3>2. QED
      BY <3>1
  <2>2. QED
    BY <2>1 DEF Open
<1>3. \A j \in 1 .. i : j \in Open(doc, i) => Depth(doc, j, i) > 0
  BY DEF Open
<1>4. i + 1 \in Open(doc, i + 1) <=> doc[i + 1].kind = "folder"
  <2>1. Depth(doc, i + 1, i) = 0
    BY DepthOfNone
  <2>2. doc[i + 1].kind = "folder" => Depth(doc, i + 1, i + 1) > 0
    BY <1>1, <2>1
  <2>3. \A k : k \in i + 1 .. i + 1 => k = i + 1
    OBVIOUS
  <2>4. i + 1 \in 1 .. i + 1
    OBVIOUS
  <2>5. QED
    BY <2>2, <2>3, <2>4 DEF Open
<1>5. /\ \A j : j \in Open(doc, i + 1) => j \in 1 .. i \/ j = i + 1
      /\ \A j : j \in Open(doc, i) => j \in 1 .. i
  BY DEF Open
<1>6. \A j \in 1 .. i : j \in Open(doc, i + 1) <=> j \in Open(doc, i) /\ Depth(doc, j, i + 1) > 0
  BY <1>2 DEF Open
<1>7. CASE doc[i + 1].kind = "folder"
  <2>1. \A j \in 1 .. i : j \in Open(doc, i + 1) <=> j \in Open(doc, i)
    BY <1>1, <1>3, <1>6, <1>7
  <2>2. QED
    BY <1>4, <1>5, <1>7, <2>1
<1>8. CASE doc[i + 1].kind = "end"
  <2>1. \A j \in 1 .. i : j \in Open(doc, i + 1) <=> j \in Open(doc, i) /\ Depth(doc, j, i) > 1
    BY <1>1, <1>6, <1>8
  <2>2. QED
    BY <1>4, <1>5, <1>8, <2>1
<1>9. CASE doc[i + 1].kind \notin {"folder", "end"}
  <2>1. \A j \in 1 .. i : j \in Open(doc, i + 1) <=> j \in Open(doc, i)
    BY <1>1, <1>3, <1>6, <1>9
  <2>2. QED
    BY <1>4, <1>5, <1>9, <2>1
<1>10. QED
  BY <1>7, <1>8, <1>9

\* A token keeps the stack that of the open folders, if they fit.
LEMMA StackStep ==
  ASSUME NEW doc \in Docs, NEW i \in Nat, i < Len(doc), NEW st, ImportOK(st, doc),
         NEW stack, IsStack(stack, doc, st, i), Cardinality(Open(doc, i)) < MaxDepth
  PROVE  \E new : IsStack(new, doc, Store!Imported(st, doc[i + 1]), i + 1)
<1> DEFINE token == doc[i + 1]
           Names == {doc[j].name : j \in 1 .. Len(doc)}
           next == Store!Imported(st, token)
<1>1. /\ stack \in Seq(1 .. i) /\ Len(stack) \in Nat /\ Len(stack) < MaxDepth
      /\ st.folders \in Seq(Names) /\ Len(st.folders) = Len(stack) /\ MaxDepth \in Nat
  <2>1. MaxDepth \in Nat
    BY StoreAssumption
  <2>2. Cardinality(Open(doc, i)) = Len(stack)
    BY StackSize
  <2>3. stack \in Seq(1 .. i) /\ st.folders \in Seq(Names) /\ Len(st.folders) = Len(stack)
    BY DEF IsStack
  <2>4. QED
    BY <2>1, <2>2, <2>3
<1>2. \A k \in 1 .. Len(stack) : /\ stack[k] \in 1 .. i /\ st.folders[k] = doc[stack[k]].name
                               /\ Depth(doc, stack[k], i) = Len(stack) - k + 1
                               /\ Depth(doc, stack[k], i + 1) = Depth(doc, stack[k], i) +
                  (IF token.kind = "folder" THEN 1 ELSE IF token.kind = "end" THEN -1 ELSE 0)
  <2>1. ASSUME NEW k \in 1 .. Len(stack) PROVE stack[k] \in 1 .. i
    BY <1>1
  <2>2. ASSUME NEW j \in 1 .. i
        PROVE  Depth(doc, j, i + 1) = Depth(doc, j, i) +
                 (IF token.kind = "folder" THEN 1 ELSE IF token.kind = "end" THEN -1 ELSE 0)
    <3>1. j \in Nat /\ j <= i + 1
      OBVIOUS
    <3>2. QED
      BY <3>1, DepthStep
  <2>3. \A k \in 1 .. Len(stack) : /\ st.folders[k] = doc[stack[k]].name
                                   /\ Depth(doc, stack[k], i) = Len(stack) - k + 1
    BY DEF IsStack
  <2> HIDE DEF token
  <2>4. QED
    BY <2>1, <2>2, <2>3
<1>3. Open(doc, i) = {stack[k] : k \in 1 .. Len(stack)}
  BY DEF IsStack
<1>4. CASE token.kind = "folder"
  <2> DEFINE new == Append(stack, i + 1)
             folders == Append(st.folders, token.name)
  <2>1. next.folders = folders
    BY <1>1, <1>4 DEF Store!Imported, ImportOK
  <2>2. /\ new \in Seq(1 .. i + 1) /\ Len(new) = Len(stack) + 1 /\ new[Len(stack) + 1] = i + 1
        /\ \A k \in 1 .. Len(stack) : new[k] = stack[k]
    <3>1. stack \in Seq(1 .. i + 1)
      BY <1>1
    <3>2. QED
      BY <3>1, AppendProperties
  <2>3. /\ folders \in Seq(Names) /\ Len(folders) = Len(stack) + 1
        /\ folders[Len(stack) + 1] = token.name
        /\ \A k \in 1 .. Len(stack) : folders[k] = st.folders[k]
    <3>1. token.name \in Names
      OBVIOUS
    <3> HIDE DEF Names
    <3>2. QED
      BY <1>1, <3>1, AppendProperties
  <2> HIDE DEF new, folders, next
  <2>4. Depth(doc, i + 1, i + 1) = 1
    <3>1. Depth(doc, i + 1, i) = 0
      BY DepthOfNone
    <3>2. i + 1 \in Nat /\ i + 1 <= i + 1
      OBVIOUS
    <3>3. Depth(doc, i + 1, i + 1) = Depth(doc, i + 1, i) + 1
      BY <1>4, <3>2, DepthStep
    <3>4. QED
      BY <3>1, <3>3
  <2>5. ASSUME NEW k \in 1 .. Len(new)
        PROVE  folders[k] = doc[new[k]].name /\ Depth(doc, new[k], i + 1) = Len(new) - k + 1
    <3>1. CASE k = Len(stack) + 1
      BY <1>1, <2>2, <2>3, <2>4, <3>1
    <3>2. CASE k # Len(stack) + 1
      <4>1. k \in 1 .. Len(stack)
        BY <1>1, <2>2, <3>2
      <4>2. QED
        <5>1. new[k] = stack[k] /\ folders[k] = st.folders[k] /\ Len(new) = Len(stack) + 1
          BY <2>2, <2>3, <4>1
        <5>2. Depth(doc, stack[k], i + 1) = (Len(stack) - k + 1) + 1
          BY <1>2, <1>4, <4>1
        <5>3. (Len(stack) - k + 1) + 1 = Len(new) - k + 1
          BY <1>1, <4>1, <5>1
        <5>4. st.folders[k] = doc[stack[k]].name
          BY <1>2, <4>1
        <5>5. QED
          BY <5>1, <5>2, <5>3, <5>4
    <3>3. QED
      BY <3>1, <3>2
  <2>6. Open(doc, i + 1) = {new[k] : k \in 1 .. Len(new)}
    <3>1. Open(doc, i + 1) = Open(doc, i) \cup {i + 1}
      BY <1>4, OpenStep
    <3>2. \A k : k \in 1 .. Len(new) <=> k \in 1 .. Len(stack) \/ k = Len(stack) + 1
      BY <1>1, <2>2
    <3>3. \A t : (\E k \in 1 .. Len(new) : t = new[k]) <=> (\E k \in 1 .. Len(stack) : t = stack[k]) \/ t = i + 1
      BY <2>2, <3>2
    <3>4. QED
      BY <1>3, <3>1, <3>3
  <2>7. IsStack(new, doc, next, i + 1)
    BY <2>1, <2>2, <2>3, <2>5, <2>6 DEF IsStack
  <2>8. QED
    BY <2>7 DEF next
<1>5. CASE token.kind = "end"
  <2>1. CASE stack = <<>>
    <3>1. Open(doc, i + 1) = {}
      <4>1. Open(doc, i) = {}
        <5>1. Len(stack) = 0
          BY <2>1
        <5>2. QED
          BY <1>3, <5>1
      <4>2. Open(doc, i + 1) = {j \in Open(doc, i) : Depth(doc, j, i) > 1}
        BY <1>5, OpenStep
      <4>3. QED
        BY <4>1, <4>2
    <3>2. next.folders = st.folders
      BY <1>1, <1>5, <2>1 DEF Store!Imported, ImportOK
    <3> HIDE DEF next
    <3>3. IsStack(<<>>, doc, next, i + 1)
      BY <1>1, <2>1, <3>1, <3>2 DEF IsStack
    <3>4. QED
      BY <3>3 DEF next
  <2>2. CASE stack # <<>>
    <3> DEFINE n == Len(stack) - 1
               new == SubSeq(stack, 1, n)
               folders == SubSeq(st.folders, 1, n)
    <3>1. n \in Nat /\ st.folders # <<>> /\ n <= Len(stack)
      BY <1>1, <2>2
    <3>2. next.folders = folders
      BY <1>1, <1>5, <3>1 DEF Store!Imported, ImportOK
    <3>3. new \in Seq(1 .. i) /\ Len(new) = n /\ \A k \in 1 .. n : new[k] = stack[k]
      <4>1. 1 .. n \subseteq 1 .. Len(stack)
        BY <1>1, <3>1
      <4>2. stack \in Seq(1 .. i)
        BY <1>1
      <4> HIDE DEF n
      <4>3. QED
        BY <3>1, <4>1, <4>2, SubSeqProperties
    <3>4. folders \in Seq(Names) /\ Len(folders) = n /\ \A k \in 1 .. n : folders[k] = st.folders[k]
      <4>1. 1 .. n \subseteq 1 .. Len(st.folders)
        BY <1>1, <3>1
      <4>2. st.folders \in Seq(Names)
        BY <1>1
      <4> HIDE DEF Names, n
      <4>3. QED
        BY <3>1, <4>1, <4>2, SubSeqProperties
    <3> HIDE DEF new, folders, next
    <3>5. \A k \in 1 .. n : k \in 1 .. Len(stack)
      BY <1>1
    <3>6. \A k \in 1 .. n : folders[k] = doc[new[k]].name /\ Depth(doc, new[k], i + 1) = n - k + 1
      <4>1. ASSUME NEW k \in 1 .. n
            PROVE  folders[k] = doc[new[k]].name /\ Depth(doc, new[k], i + 1) = n - k + 1
        <5>1. k \in 1 .. Len(stack) /\ new[k] = stack[k] /\ folders[k] = st.folders[k]
          BY <3>3, <3>4, <3>5
        <5>2. Depth(doc, stack[k], i + 1) = (Len(stack) - k + 1) - 1
          BY <1>2, <1>5, <5>1
        <5>3. (Len(stack) - k + 1) - 1 = n - k + 1
          BY <1>1, <5>1
        <5>4. st.folders[k] = doc[stack[k]].name
          BY <1>2, <5>1
        <5>5. QED
          BY <5>1, <5>2, <5>3, <5>4
      <4>2. QED
        BY <4>1
    <3>7. Open(doc, i + 1) = {new[k] : k \in 1 .. n}
      <4>1. Open(doc, i + 1) = {j \in Open(doc, i) : Depth(doc, j, i) > 1}
        BY <1>5, OpenStep
      <4>2. \A k \in 1 .. Len(stack) : Depth(doc, stack[k], i) > 1 <=> k \in 1 .. n
        <5>1. \A k \in 1 .. Len(stack) : Depth(doc, stack[k], i) = Len(stack) - k + 1
          BY <1>2
        <5>2. \A k \in 1 .. Len(stack) : Len(stack) - k + 1 > 1 <=> k \in 1 .. n
          BY <1>1
        <5>3. QED
          BY <5>1, <5>2
      <4>3. \A t : t \in Open(doc, i + 1) <=> \E k \in 1 .. n : t = stack[k]
        BY <1>3, <4>1, <4>2, <3>5
      <4>4. QED
        BY <3>3, <4>3
    <3>8. new \in Seq(1 .. i + 1)
      BY <3>3
    <3>9. IsStack(new, doc, next, i + 1)
      BY <3>2, <3>3, <3>4, <3>6, <3>7, <3>8 DEF IsStack
    <3>10. QED
      BY <3>9 DEF next
  <2>3. QED
    BY <2>1, <2>2
<1>6. CASE token.kind \notin {"folder", "end"}
  <2>1. next.folders = st.folders
    BY <1>6 DEF Store!Imported, ImportOK
  <2> HIDE DEF next
  <2>2. stack \in Seq(1 .. i + 1)
    BY <1>1
  <2>3. Open(doc, i + 1) = Open(doc, i)
    BY <1>6, OpenStep
  <2>4. IsStack(stack, doc, next, i + 1)
    <3>1. \A k \in 1 .. Len(stack) : Depth(doc, stack[k], i + 1) = Len(stack) - k + 1
      <4>1. \A k \in 1 .. Len(stack) : Depth(doc, stack[k], i + 1) = (Len(stack) - k + 1) + 0
        BY <1>2, <1>6
      <4>2. QED
        BY <1>1, <4>1
    <3> HIDE DEF token
    <3>2. QED
      BY <1>1, <1>2, <1>3, <2>1, <2>2, <2>3, <3>1 DEF IsStack
  <2>5. QED
    BY <2>4 DEF next
<1>7. QED
  BY <1>4, <1>5, <1>6

\* A file that is not nested deeper than the limit keeps every open folder.
Shallow(doc) ==
  \A i \in DOMAIN doc : Store!Cardinality(Store!Around(doc, i) \cup {i}) <= MaxDepth

\* Fewer folders than the limit lie open before any token of a shallow file.
LEMMA FewAreOpen ==
  ASSUME NEW doc \in Docs, Shallow(doc), NEW i \in Nat, i < Len(doc)
  PROVE  Cardinality(Open(doc, i)) < MaxDepth
<1>1. i + 1 \in DOMAIN doc /\ i + 1 \in Nat \ {0} /\ (i + 1) - 1 = i
  BY StoreAssumption
<1>2. Store!Around(doc, i + 1) = Open(doc, i)
  BY <1>1, AroundIsOpen
<1>3. IsFiniteSet(Open(doc, i)) /\ i + 1 \notin Open(doc, i)
  <2>1. IsFiniteSet(1 .. i)
    BY FS_Interval
  <2>2. Open(doc, i) \subseteq 1 .. i
    BY DEF Open
  <2>3. QED
    BY <2>1, <2>2, FS_Subset
<1>4. Cardinality(Open(doc, i) \cup {i + 1}) = Cardinality(Open(doc, i)) + 1
  BY <1>3, FS_AddElement
<1>5. Cardinality(Open(doc, i)) \in Nat /\ MaxDepth \in Nat
  <2>1. Cardinality(Open(doc, i)) \in Nat
    BY <1>3, FS_CardinalityType
  <2>2. MaxDepth \in Nat
    BY StoreAssumption
  <2>3. QED
    BY <2>1, <2>2
<1>6. Cardinality(Open(doc, i) \cup {i + 1}) <= MaxDepth
  BY <1>1, <1>2, SameCardinality DEF Shallow
<1>7. QED
  BY <1>4, <1>5, <1>6

\* After every token of a shallow file the import's stack is that of the open
\* folders.
LEMMA ImportIsStacked ==
  ASSUME NEW doc \in Docs, Sound(table, lastId), Shallow(doc), NEW f, Runs(f, doc)
  PROVE  \A i \in 0 .. Len(doc) : \E stack : IsStack(stack, doc, f[i], i)
<1> DEFINE T == {i \in 0 .. Len(doc) : \E stack : IsStack(stack, doc, f[i], i)}
<1>1. Len(doc) \in Nat
  BY StoreAssumption
<1>2. 0 \in T
  <2>1. f[0].folders = <<>>
    BY DEF Runs, NoTokens
  <2>2. Open(doc, 0) = {}
    BY DEF Open
  <2>3. IsStack(<<>>, doc, f[0], 0)
    BY <2>1, <2>2 DEF IsStack
  <2>4. QED
    BY <1>1, <2>3
<1>3. ASSUME NEW i \in 1 .. Len(doc), i - 1 \in T PROVE i \in T
  <2>1. PICK stack : IsStack(stack, doc, f[i - 1], i - 1)
    BY <1>3
  <2>2. /\ i - 1 \in Nat /\ i - 1 < Len(doc) /\ (i - 1) + 1 = i /\ i - 1 \in 0 .. Len(doc)
    BY <1>1
  <2>3. ImportOK(f[i - 1], doc)
    BY <2>2, ImportIsSound
  <2>4. Cardinality(Open(doc, i - 1)) < MaxDepth
    BY <2>2, FewAreOpen
  <2>5. \E new : IsStack(new, doc, Store!Imported(f[i - 1], doc[(i - 1) + 1]), (i - 1) + 1)
    BY <2>1, <2>2, <2>3, <2>4, StackStep
  <2>6. f[i] = Store!Imported(f[i - 1], doc[i])
    BY DEF Runs
  <2>7. QED
    BY <2>2, <2>5, <2>6
<1> HIDE DEF T
<1>4. \A i \in 0 .. Len(doc) : i \in T
  BY <1>1, <1>2, <1>3, UpTo
<1>5. QED
  BY <1>4 DEF T

\* Up to the limit no tag is left out.
LEMMA KeptAll ==
  ASSUME NEW T, NEW tags \in Seq(T), Len(tags) <= MaxTags
  PROVE  Store!normalise_tags(Store!Kept(tags)) =
           Store!normalise_tags(Range(tags))
<1> DEFINE Full(k) == {j \in 1 .. k : Normal[tags[j]] # ""}
<1>1. ASSUME NEW k \in DOMAIN tags PROVE Store!Cardinality(Full(k)) <= MaxTags
  <2>1. k \in Nat /\ k <= Len(tags) /\ Len(tags) \in Nat
    OBVIOUS
  <2>2. IsFiniteSet(1 .. k) /\ Cardinality(1 .. k) = k
    BY <2>1, FirstNumbers
  <2>4. Full(k) \in SUBSET (1 .. k)
    OBVIOUS
  <2> HIDE DEF Full
  <2>5. IsFiniteSet(Full(k)) /\ Cardinality(Full(k)) <= Cardinality(1 .. k)
    BY <2>2, <2>4, FS_Subset
  <2>6. Cardinality(Full(k)) \in Nat
    BY <2>5, FS_CardinalityType
  <2>7. Cardinality(Full(k)) <= MaxTags
    <3>1. MaxTags \in Nat
      BY StoreAssumption
    <3>2. QED
      BY <2>1, <2>2, <2>5, <2>6, <3>1
  <2>8. QED
    BY <2>7, SameCardinality
<1>2. Store!Kept(tags) =
        {tags[k] : k \in {k \in DOMAIN tags : k \in Full(k) /\ Store!Cardinality(Full(k)) <= MaxTags}}
  BY Zenon DEF Store!Kept
<1>3. \A k \in DOMAIN tags : k \in Full(k) <=> Normal[tags[k]] # ""
  <2>1. \A k \in DOMAIN tags : k \in 1 .. k
    OBVIOUS
  <2>2. QED
    BY <2>1
<1> HIDE DEF Full
<1>4. \A k \in DOMAIN tags : tags[k] \in Store!Kept(tags) \/ Normal[tags[k]] = ""
  BY <1>1, <1>2, <1>3
<1>5. \A t \in Store!Kept(tags) : \E k \in DOMAIN tags : t = tags[k]
  BY <1>2
<1> DEFINE kept == Store!Kept(tags)
           all == Range(tags)
<1>6. (\A t \in kept : t \in all) /\ (\A t \in all : t \in kept \/ Normal[t] = "")
  BY <1>4, <1>5 DEF Range
<1> HIDE DEF kept, all
<1>7. Store!normalise_tags(kept) = Store!normalise_tags(all)
  BY <1>6 DEF Store!normalise_tags
<1>8. QED
  BY <1>7 DEF kept, all

Own(doc, i) == Range(doc[i].tags)
Want(doc, i) == Store!normalise_tags(Own(doc, i) \cup {doc[j].name : j \in Store!Around(doc, i)})

Good(doc, i) ==
  /\ doc[i].kind = "anchor" /\ doc[i].url \in Links
  /\ Len(doc[i].tags) + Store!Cardinality(Store!Around(doc, i)) <= MaxTags

LastOfItsUrl(doc, i, m) == \A k \in i + 1 .. m : doc[k].kind = "anchor" => doc[k].url # doc[i].url

Faithful(doc, rows) ==
  Shallow(doc) => \A i \in DOMAIN doc :
    Good(doc, i) /\ LastOfItsUrl(doc, i, Len(doc)) => rows[doc[i].url].tags = Want(doc, i)

\* The names on the stack are those of the open folders.
LEMMA FolderNames ==
  ASSUME NEW doc, NEW i \in Nat, NEW st, NEW stack, IsStack(stack, doc, st, i)
  PROVE  /\ Range(st.folders) = {doc[j].name : j \in Open(doc, i)}
         /\ Len(st.folders) = Cardinality(Open(doc, i))
<1>1. /\ Len(st.folders) = Cardinality(Open(doc, i)) /\ DOMAIN st.folders = 1 .. Len(stack)
  <2>1. Cardinality(Open(doc, i)) = Len(stack)
    BY StackSize
  <2>2. Len(st.folders) = Len(stack) /\ st.folders \in Seq({doc[j].name : j \in 1 .. Len(doc)})
    BY DEF IsStack
  <2>3. QED
    BY <2>1, <2>2
<1>2. /\ \A k \in 1 .. Len(stack) : st.folders[k] = doc[stack[k]].name
      /\ Open(doc, i) = {stack[k] : k \in 1 .. Len(stack)}
  BY DEF IsStack
<1>3. QED
  BY <1>1, <1>2 DEF Range

\* An anchor leaves its own tags and the names of its folders.
LEMMA AnchorTags ==
  ASSUME NEW doc \in Docs, Shallow(doc), Sound(table, lastId), NEW f, Runs(f, doc),
         NEW i \in 1 .. Len(doc), Good(doc, i)
  PROVE  f[i].rows[doc[i].url].tags = Want(doc, i)
<1> DEFINE st == f[i - 1]
           token == doc[i]
           u == token.url
           Names == {doc[j].name : j \in 1 .. Len(doc)}
           tags == token.tags \o st.folders
<1>1. /\ Len(doc) \in Nat /\ i - 1 \in Nat /\ i - 1 \in 0 .. Len(doc) /\ i \in Nat \ {0}
      /\ i \in DOMAIN doc
  BY StoreAssumption
<1>2. ImportOK(st, doc)
  BY <1>1, ImportIsSound
<1>3. PICK stack : IsStack(stack, doc, st, i - 1)
  BY <1>1, ImportIsStacked
<1>4. token.kind = "anchor" /\ u \in Links /\ token.tags \in Seq(Own(doc, i))
  BY <1>1, StoreAssumption DEF Good, Own, Range
<1>5. /\ Range(st.folders) = {doc[j].name : j \in Store!Around(doc, i)}
      /\ Len(token.tags) + Len(st.folders) <= MaxTags
  <2>1. Store!Around(doc, i) = Open(doc, i - 1)
    BY <1>1, AroundIsOpen
  <2>2. /\ Range(st.folders) = {doc[j].name : j \in Open(doc, i - 1)}
        /\ Len(st.folders) = Cardinality(Open(doc, i - 1))
    BY <1>1, <1>3, FolderNames
  <2>3. Len(token.tags) + Cardinality(Open(doc, i - 1)) <= MaxTags
    BY <2>1, SameCardinality DEF Good
  <2>4. QED
    BY <2>1, <2>2, <2>3
<1>6. PICK S : S = Own(doc, i) \cup Names
  OBVIOUS
<1>7. token.tags \in Seq(S) /\ st.folders \in Seq(S)
  <2>1. st.folders \in Seq(Names)
    BY <1>2 DEF ImportOK
  <2> HIDE DEF st, Names, token
  <2>2. QED
    BY <2>1, <1>4, <1>6
<1>8. /\ tags \in Seq(S) /\ Len(tags) <= MaxTags
      /\ Range(tags) = Own(doc, i) \cup Range(st.folders)
  <2>1. /\ tags \in Seq(S) /\ Len(tags) = Len(token.tags) + Len(st.folders)
        /\ Range(tags) =
             Range(token.tags) \cup Range(st.folders)
    <3> HIDE DEF st, token
    <3>1. tags \in Seq(S) /\ Len(tags) = Len(token.tags) + Len(st.folders)
      BY <1>7, ConcatProperties
    <3>2. Range(tags) = Range(token.tags) \cup Range(st.folders)
      BY <1>7, RangeConcatenation
    <3>3. QED
      BY <3>1, <3>2
  <2> HIDE DEF tags
  <2>2. QED
    BY <1>5, <2>1 DEF Own
<1> HIDE DEF tags
<1>9. Store!normalise_tags(Store!Kept(tags)) = Want(doc, i)
  <2>1. Store!normalise_tags(Store!Kept(tags)) = Store!normalise_tags(Range(tags))
    BY <1>8, KeptAll
  <2>2. QED
    BY <1>5, <1>8, <2>1 DEF Want
<1> DEFINE kept == Store!Kept(tags)
           added == Store!Added(st.rows, st.lastId, u, token.title, kept)
           id == IF st.rows[u] = Store!Nothing THEN st.lastId + 1 ELSE st.lastId
           told == {s \in st.says : s.url # u} \cup {Store!Says(u, token.title, kept)}
<1>10. f[i] = [st EXCEPT !.rows = added, !.lastId = id, !.says = told]
  <2>1. f[i] = Store!Imported(st, token)
    BY DEF Runs
  <2>2. QED
    BY <1>4, <2>1, Zenon DEF Store!Imported, tags
<1>11. added[u].tags = Store!normalise_tags(kept)
  <2>1. Sound(st.rows, st.lastId)
    BY <1>2 DEF ImportOK
  <2> HIDE DEF st, u, token, kept
  <2>2. QED
    BY <1>4, <2>1, AddedIsSound
<1>12. f[i].rows = added
  <2> HIDE DEF added, id, told
  <2>1. st = [rows |-> st.rows, lastId |-> st.lastId, folders |-> st.folders, says |-> st.says]
    BY <1>2 DEF ImportOK
  <2> HIDE DEF st
  <2>2. QED
    BY <1>10, <2>1
<1>13. QED
  BY <1>9, <1>11, <1>12

\* A token leaves the rows of other addresses alone.
LEMMA OtherTokens ==
  ASSUME NEW doc, NEW st, ImportOK(st, doc), NEW u \in Links, NEW token,
         token.kind = "anchor" => token.url # u
  PROVE  Store!Imported(st, token).rows[u] = st.rows[u]
<1> DEFINE next == Store!Imported(st, token)
<1>1. st = [rows |-> st.rows, lastId |-> st.lastId, folders |-> st.folders, says |-> st.says]
  BY DEF ImportOK
<1>2. CASE token.kind \in {"folder", "end"}
  <2>1. \E stack : next = [st EXCEPT !.folders = stack]
    BY <1>2, Zenon DEF Store!Imported
  <2> HIDE DEF next
  <2>2. next.rows = st.rows
    BY <1>1, <2>1
  <2>3. QED
    BY <2>2 DEF next
<1>3. CASE token.kind = "anchor" /\ token.url \in Links
  <2> DEFINE added == Store!Added(st.rows, st.lastId, token.url, token.title,
                                  Store!Kept(token.tags \o st.folders))
  <2>1. \E id, says : next = [st EXCEPT !.rows = added, !.lastId = id, !.says = says]
    BY <1>3, Zenon DEF Store!Imported
  <2>2. added[u] = st.rows[u]
    <3> DEFINE new == IF st.rows[token.url] = Store!Nothing THEN st.lastId + 1 ELSE st.lastId
               kept == Store!Kept(token.tags \o st.folders)
    <3>1. Sound(st.rows, st.lastId) /\ u \in Links \ {token.url}
      BY <1>3 DEF ImportOK
    <3>2. new = IF st.rows[token.url] = Store!Nothing THEN st.lastId + 1 ELSE st.lastId
      OBVIOUS
    <3> HIDE DEF new, kept
    <3>3. QED
      BY <1>3, <3>1, <3>2, AddedIsSound
  <2> HIDE DEF next, added
  <2>3. next.rows = added
    BY <1>1, <2>1
  <2>4. QED
    BY <2>2, <2>3 DEF next
<1>4. CASE token.kind \notin {"folder", "end"} /\ ~(token.kind = "anchor" /\ token.url \in Links)
  BY <1>4 DEF Store!Imported
<1>5. QED
  BY <1>2, <1>3, <1>4

\* An import has the tags of the last anchor of each address.
LEMMA ImportIsFaithful ==
  ASSUME NEW doc \in Docs, Sound(table, lastId)
  PROVE  Faithful(doc, Store!Import(doc).rows)
<1> SUFFICES ASSUME Shallow(doc) PROVE Faithful(doc, Store!Import(doc).rows)
  BY DEF Faithful
<1>1. PICK f : Runs(f, doc) /\ Store!Import(doc) = f[Len(doc)]
  BY ImportRuns
<1> DEFINE OK(i, m) == Good(doc, i) /\ LastOfItsUrl(doc, i, m)
                          => f[m].rows[doc[i].url].tags = Want(doc, i)
           T == {m \in 0 .. Len(doc) : \A i \in 1 .. m : OK(i, m)}
<1>2. Len(doc) \in Nat /\ DOMAIN doc = 1 .. Len(doc)
  BY StoreAssumption
<1>3. 0 \in T
  BY <1>2
<1>4. ASSUME NEW m \in 1 .. Len(doc), m - 1 \in T PROVE m \in T
  <2>1. ASSUME NEW i \in 1 .. m, Good(doc, i), LastOfItsUrl(doc, i, m)
        PROVE  f[m].rows[doc[i].url].tags = Want(doc, i)
    <3>1. CASE i = m
      BY <1>1, <2>1, <3>1, AnchorTags
    <3>2. CASE i # m
      <4>1. i \in 1 .. m - 1 /\ m \in i + 1 .. m /\ \A k \in i + 1 .. m - 1 : k \in i + 1 .. m
        BY <3>2
      <4>2. LastOfItsUrl(doc, i, m - 1) /\ (doc[m].kind = "anchor" => doc[m].url # doc[i].url)
        BY <2>1, <4>1 DEF LastOfItsUrl
      <4>3. f[m - 1].rows[doc[i].url].tags = Want(doc, i)
        BY <1>4, <2>1, <4>1, <4>2
      <4>4. ImportOK(f[m - 1], doc) /\ doc[i].url \in Links
        <5>1. m - 1 \in 0 .. Len(doc)
          BY <1>4
        <5>2. QED
          BY <1>1, <2>1, <5>1, ImportIsSound DEF Good
      <4>5. Store!Imported(f[m - 1], doc[m]).rows[doc[i].url] = f[m - 1].rows[doc[i].url]
        BY <4>2, <4>4, OtherTokens
      <4>6. f[m] = Store!Imported(f[m - 1], doc[m])
        BY <1>1 DEF Runs
      <4>7. QED
        BY <4>3, <4>5, <4>6
    <3>3. QED
      BY <3>1, <3>2
  <2>2. QED
    BY <1>2, <2>1
<1> HIDE DEF T
<1>5. \A m \in 0 .. Len(doc) : m \in T
  BY <1>2, <1>3, <1>4, UpTo
<1>6. Len(doc) \in T
  BY <1>2, <1>5
<1>7. QED
  BY <1>1, <1>2, <1>6 DEF T, Faithful

\* What a transaction will write of a file is what the file says.
FaithInv == \A p \in Openers : Faithful(draft[p].doc, draft[p].rows)

\* Every draft stays faithful to the file it was read from.
LEMMA FaithStep == DraftInv /\ FaithInv /\ [Store!Next]_(Store!vars) => FaithInv'
<1> SUFFICES ASSUME DraftInv, FaithInv, [Store!Next]_(Store!vars) PROVE FaithInv'
  OBVIOUS
<1>1. ASSUME NEW p \in Openers, NEW d, draft' = [draft EXCEPT ![p] = d], Faithful(d.doc, d.rows)
      PROVE  FaithInv'
  <2>1. \A q \in Openers : draft'[q] = IF q = p THEN d ELSE draft[q]
    BY <1>1 DEF DraftInv
  <2>2. \A q \in Openers : Faithful(draft'[q].doc, draft'[q].rows)
    BY <1>1, <2>1 DEF FaithInv
  <2>3. QED
    BY <2>2 DEF FaithInv
<1>2. ASSUME draft' = draft PROVE FaithInv'
  BY <1>2 DEF FaithInv
<1>3. ASSUME NEW rows PROVE Faithful(<<>>, rows)
  BY DEF Faithful
<1>4. ASSUME NEW p \in Openers, NEW result, NEW doc, Store!Reads(p, result, doc),
             Faithful(doc, result.rows)
      PROVE  FaithInv'
  <2> DEFINE d == [rows |-> result.rows, lastId |-> result.lastId, says |-> result.says, doc |-> doc]
  <2>1. draft' = [draft EXCEPT ![p] = d] /\ d.doc = doc /\ d.rows = result.rows
    BY <1>4 DEF Store!Reads
  <2> HIDE DEF d
  <2>2. QED
    BY <1>1, <1>4, <2>1
<1>5. ASSUME NEW p \in Openers, Store!Add(p) \/ Store!Update(p) PROVE FaithInv'
  <2>1. \E result : Store!Reads(p, result, <<>>)
    BY <1>5, Zenon DEF Store!Add, Store!Update
  <2>2. QED
    BY <1>3, <1>4, <2>1
<1>6. ASSUME NEW p \in Openers, Store!ImportFile(p) PROVE FaithInv'
  <2>1. PICK doc \in Docs : Store!Reads(p, Store!Import(doc), doc)
    BY <1>6, Zenon DEF Store!ImportFile
  <2>2. Faithful(doc, Store!Import(doc).rows)
    BY ImportIsFaithful DEF DraftInv
  <2>3. QED
    BY <1>4, <2>1, <2>2
<1>7. ASSUME NEW p \in Openers, draft' = [draft EXCEPT ![p] = Store!NoDraft] PROVE FaithInv'
  <2>1. Store!NoDraft.doc = <<>>
    BY DEF Store!NoDraft
  <2>2. QED
    BY <1>1, <1>3, <1>7, <2>1
<1>8. ASSUME NEW p \in Openers, Store!Rollback(p) \/ Store!Commit(p) \/ Store!Ends(p) PROVE FaithInv'
  BY <1>7, <1>8 DEF Store!Rollback, Store!Commit, Store!Ends
<1>9. ASSUME NEW p \in Openers,
             \/ Store!Open(p) \/ Store!Migrate(p) \/ Store!MigrationFails(p)
             \/ Store!MigrationCommits(p) \/ Store!Opened(p) \/ Store!Writes(p) \/ Store!Delete(p)
      PROVE  FaithInv'
  BY <1>2, <1>9 DEF Store!Open, Store!Migrate, Store!MigrationFails, Store!MigrationCommits,
     Store!Opened, Store!Writes, Store!Delete
<1>10. CASE UNCHANGED Store!vars
  BY <1>2, <1>10 DEF Store!vars
<1>11. QED
  BY <1>5, <1>6, <1>8, <1>9, <1>10 DEF Store!Next

\* An empty file is sound.
LEMMA StoreInit == Store!Init => SchemaInv /\ DraftInv /\ FaithInv
<1> SUFFICES ASSUME Store!Init PROVE SchemaInv /\ DraftInv /\ FaithInv
  OBVIOUS
<1> USE DEF Store!Init
<1>1. SchemaInv
  BY DEF SchemaInv
<1>2. Sound(table, lastId)
  <2>1. IsRow(Store!Nothing)
    BY DEF IsRow, Store!Nothing
  <2>2. QED
    BY <2>1 DEF Sound
<1>3. DraftInv
  BY <1>2 DEF DraftInv
<1>4. FaithInv
  <2>1. \A p \in Openers : draft[p].doc = <<>>
    BY DEF Store!NoDraft
  <2>2. \A rows : Faithful(<<>>, rows)
    BY DEF Faithful
  <2>3. QED
    BY <2>1, <2>2 DEF FaithInv
<1>5. QED
  BY <1>1, <1>3, <1>4

\* What holds of the store: one writer, each migration once, a transaction
\* that may still commit has read the table as it is, and an import will
\* write what its file says.
THEOREM StoreInvHolds == Store!Spec => [](SchemaInv /\ DraftInv /\ FaithInv)
<1>1. SchemaInv /\ DraftInv /\ FaithInv /\ [Store!Next]_(Store!vars)
        => SchemaInv' /\ DraftInv' /\ FaithInv'
  BY SchemaStep, DraftStep, FaithStep
<1>2. QED
  BY <1>1, StoreInit, PTL DEF Store!Spec

\* The invariants imply what the run checks.
LEMMA WholeFollows ==
  SchemaInv /\ DraftInv /\ FaithInv
    => Store!SchemaIsWhole /\ Store!NoLostUpdate /\ Store!ImportIsFaithful
<1> SUFFICES ASSUME SchemaInv, DraftInv, FaithInv
             PROVE  Store!SchemaIsWhole /\ Store!NoLostUpdate /\ Store!ImportIsFaithful
  OBVIOUS
<1>1. Store!SchemaIsWhole
  BY DEF SchemaInv, Store!SchemaIsWhole
<1>2. Store!NoLostUpdate
  <2>1. ASSUME NEW u \in Links, NEW v \in Links, u # v, table[u] # Store!Nothing
        PROVE  table[u].id # table[v].id
    <3>1. CASE table[v] = Store!Nothing
      <4>1. table[v].id = 0
        <5>1. Store!Nothing.id = 0
          BY DEF Store!Nothing
        <5>2. QED
          BY <3>1, <5>1
      <4>2. table[u].id \in 1 .. lastId /\ lastId \in Nat
        BY <2>1 DEF DraftInv, Sound
      <4>3. QED
        BY <4>1, <4>2
    <3>2. CASE table[v] # Store!Nothing
      BY <2>1, <3>2 DEF DraftInv, Sound
    <3>3. QED
      BY <3>1, <3>2
  <2>2. QED
    BY <2>1 DEF DraftInv, Store!NoLostUpdate
<1>3. Store!ImportIsFaithful
  BY Zenon DEF FaithInv, Faithful, Shallow, Good, LastOfItsUrl, Want, Own, Range,
     Store!ImportIsFaithful
<1>4. QED
  BY <1>1, <1>2, <1>3


-----------------------------------------------------------------------------
(* Visits: the history, its index and the zoom levels.                      *)

Hows == {"link", "reload", "form_submit", "generated", "other"}

AllTitles == UNION {TitlesOf[u] : u \in Urls}

VisitRow ==
  [id : Nat, url : Pages!Recorded, title : AllTitles \cup {Pages!Nothing},
   time : Nat, transition : Hows]

PagesTyped ==
  /\ now \in Nat /\ lastVisit \in Nat
  /\ url \in [Tabs -> Urls \cup {Pages!Nothing}]
  /\ loading \subseteq Pages!Shown
  /\ transitions \in [Tabs -> Hows \cup {Pages!Nothing}]
  /\ visits \subseteq VisitRow
  /\ level \in [{Place[u] : u \in Urls} -> Int]
  /\ stored \in [{Domain[u] : u \in Urls} -> Int]
  /\ finished \in [Urls -> Nat \cup {Pages!Never}]

\* Row ids are not shared and the index has an entry for each row.
IndexInv ==
  /\ \A r \in visits : r.id <= lastVisit
  /\ \A q, r \in visits : q.id = r.id => q = r
  /\ index = {Pages!Entry(r) : r \in visits}

\* The last of the visits of an address is that of the load that finished last.
LastInv ==
  /\ \A r \in visits : r.time <= finished[r.url] /\ r.time <= now
  /\ \A u \in Urls : finished[u] <= now
  /\ \A u \in Urls : finished[u] # Pages!Never =>
       \E r \in visits : r.url = u /\ r.time = finished[u]

PagesInv ==
  PagesTyped /\ IndexInv /\ LastInv /\ Pages!NoDoubles /\ Pages!TitlesFit /\ Pages!ZoomAgrees

-----------------------------------------------------------------------------
\* The triggers keep the index in step with the table.
LEMMA StoreKeepsIndex ==
  ASSUME IndexInv, NEW new, Pages!Store(new)
  PROVE  visits' = new /\ index' = {Pages!Entry(r) : r \in new}
<1>1. visits' = new
  BY DEF Pages!Store
<1>2. \A e : e \in index' <=>
        \/ e \in index /\ ~(\E r \in visits \ new : e = Pages!Entry(r))
        \/ \E r \in new \ visits : e = Pages!Entry(r)
  BY DEF Pages!Store
<1>3. \A q, r \in visits : Pages!Entry(q) = Pages!Entry(r) => q = r
  BY DEF IndexInv, Pages!Entry
<1>4. \A e : e \in index' <=> \E r \in new : e = Pages!Entry(r)
  BY <1>2, <1>3 DEF IndexInv
<1>5. QED
  BY <1>1, <1>4

\* The newest of some visits of an address, if all that are newer are among them.
LEMMA NewestIsThere ==
  ASSUME PagesTyped, LastInv, NEW u \in Urls, NEW S, S \subseteq visits, S # {},
         \A r \in S : r.url = u,
         \A r \in S, q \in visits : (q.url = u /\ r.time <= q.time) => q \in S
  PROVE  /\ Pages!Newest(S) \in S
         /\ \A r \in S : r.time <= Pages!Newest(S).time
         /\ Pages!Newest(S).time = finished[u]
<1>1. PICK r \in S : r \in visits /\ r.url = u /\ r.time \in Nat
  BY DEF PagesTyped, VisitRow
<1>2. finished[u] # Pages!Never
  BY <1>1 DEF LastInv, Pages!Never
<1>3. PICK q \in visits : q.url = u /\ q.time = finished[u]
  BY <1>2 DEF LastInv
<1>4. q \in S /\ \A o \in S : o.time <= q.time
  BY <1>1, <1>3 DEF LastInv
<1>5. Pages!Newest(S) \in S /\ \A o \in S : o.time <= Pages!Newest(S).time
  BY <1>4 DEF Pages!Newest
<1>6. Pages!Newest(S).time <= q.time /\ q.time <= Pages!Newest(S).time
  BY <1>4, <1>5
<1>7. q.time \in Nat /\ Pages!Newest(S).time \in Nat
  BY <1>5, <1>3 DEF PagesTyped, VisitRow
<1>8. QED
  BY <1>3, <1>5, <1>6, <1>7

\* A row that gets another time, or another title of its page.
LEMMA RowReplaced ==
  ASSUME PagesTyped, IndexInv, NEW row \in visits, NEW new \in VisitRow,
         new.id = row.id, Pages!Store((visits \ {row}) \cup {new}), lastVisit' = lastVisit
  PROVE  /\ visits' = (visits \ {row}) \cup {new}
         /\ visits' \subseteq VisitRow /\ IndexInv'
<1> DEFINE S == (visits \ {row}) \cup {new}
<1>1. visits' = S /\ index' = {Pages!Entry(r) : r \in S}
  BY StoreKeepsIndex
<1>2. S \subseteq VisitRow
  BY DEF PagesTyped
<1>3. \A r \in S : r.id <= lastVisit'
  BY DEF IndexInv
<1>4. \A q, r \in S : q.id = r.id => q = r
  BY DEF IndexInv
<1>5. IndexInv'
  BY <1>1, <1>3, <1>4 DEF IndexInv, Pages!Entry
<1>6. QED
  BY <1>1, <1>2, <1>5

\* A load that finished is recorded, as a row of its own or with the last one.
LEMMA RecordVisitHolds ==
  ASSUME PagesTyped, IndexInv, LastInv, Pages!NoDoubles, Pages!TitlesFit,
         NEW u \in Pages!Recorded, NEW how \in Hows, Pages!RecordVisit(u, how),
         finished' = [finished EXCEPT ![u] = now], now' = now
  PROVE  /\ visits' \subseteq VisitRow /\ lastVisit' \in Nat
         /\ finished' \in [Urls -> Nat \cup {Pages!Never}]
         /\ IndexInv' /\ LastInv' /\ Pages!NoDoubles' /\ Pages!TitlesFit'
<1> DEFINE again == Pages!Repeats(u)
<1>0. u \in Urls /\ now \in Nat /\ Window \in Nat
  BY PagesAssumption DEF Pages!Recorded, PagesTyped
<1>1. finished' \in [Urls -> Nat \cup {Pages!Never}]
  BY <1>0 DEF PagesTyped
<1>2. \A r \in visits : r \in VisitRow /\ r.time \in Nat /\ r.time <= now /\ r.url \in Urls
  BY DEF PagesTyped, VisitRow, LastInv, Pages!Recorded
<1>3. CASE again # {}
  <2> DEFINE row == Pages!Newest(again)
             new == [row EXCEPT !.time = now]
  <2>1. row \in again /\ \A r \in again : r.time <= row.time
    <3>1. again \subseteq visits /\ \A r \in again : r.url = u
      BY DEF Pages!Repeats
    <3>2. \A r \in again, q \in visits : (q.url = u /\ r.time <= q.time) => q \in again
      BY <1>0, <1>2 DEF Pages!Repeats
    <3>3. QED
      BY <1>0, <1>3, <3>1, <3>2, NewestIsThere
  <2>2. row \in visits /\ row.url = u /\ now - Window <= row.time
    BY <2>1, <1>0, <1>2 DEF Pages!Repeats
  <2>3. /\ Pages!Store((visits \ {row}) \cup {new}) /\ lastVisit' = lastVisit
    BY <1>3 DEF Pages!RecordVisit
  <2> HIDE DEF row
  <2>4. new \in VisitRow /\ new.id = row.id /\ new.url = u /\ new.time = now /\ new.title = row.title
    BY <2>2, <1>2, <1>0 DEF VisitRow
  <2> HIDE DEF new
  <2>5. visits' = (visits \ {row}) \cup {new} /\ visits' \subseteq VisitRow /\ IndexInv'
    BY <2>2, <2>3, <2>4, RowReplaced
  <2>6. LastInv'
    <3>1. \A r \in visits' : r.time <= finished'[r.url] /\ r.time <= now'
      BY <2>4, <2>5, <1>0, <1>2 DEF LastInv, PagesTyped
    <3>2. \A v \in Urls : finished'[v] <= now'
      BY <1>0 DEF LastInv, PagesTyped
    <3>3. \A v \in Urls : finished'[v] # Pages!Never =>
            \E r \in visits' : r.url = v /\ r.time = finished'[v]
      <4> SUFFICES ASSUME NEW v \in Urls, finished'[v] # Pages!Never
                   PROVE  \E r \in visits' : r.url = v /\ r.time = finished'[v]
        OBVIOUS
      <4>1. CASE v = u
        BY <4>1, <2>4, <2>5, <1>0 DEF PagesTyped
      <4>2. CASE v # u
        <5>1. finished'[v] = finished[v]
          BY <4>2, <1>0 DEF PagesTyped
        <5>2. PICK r \in visits : r.url = v /\ r.time = finished[v]
          BY <5>1 DEF LastInv
        <5>3. r \in visits'
          BY <5>2, <4>2, <2>2, <2>5
        <5>4. QED
          BY <5>1, <5>2, <5>3
      <4>3. QED
        BY <4>1, <4>2
    <3>4. QED
      BY <3>1, <3>2, <3>3 DEF LastInv
  <2>7. Pages!NoDoubles'
    <3>1. \A b \in visits : (b # row /\ b.url = u) => now - b.time > Window
      <4> SUFFICES ASSUME NEW b \in visits, b # row, b.url = u PROVE now - b.time > Window
        OBVIOUS
      <4>1. row.time - b.time > Window \/ b.time - row.time > Window
        BY <2>2 DEF Pages!NoDoubles
      <4>2. QED
        BY <4>1, <2>2, <1>0, <1>2
    <3>2. \A a, b \in visits' : (a # b /\ a.url = b.url) =>
            (a.time - b.time > Window \/ b.time - a.time > Window)
      BY <3>1, <2>4, <2>5 DEF Pages!NoDoubles
    <3>3. QED
      BY <3>2 DEF Pages!NoDoubles
  <2>8. Pages!TitlesFit'
    BY <2>2, <2>4, <2>5 DEF Pages!TitlesFit, Pages!Nothing
  <2>9. QED
    BY <1>1, <2>3, <2>5, <2>6, <2>7, <2>8 DEF PagesTyped
<1>4. CASE again = {}
  <2> DEFINE new == [id |-> lastVisit + 1, url |-> u, title |-> Pages!Nothing, time |-> now,
                     transition |-> how]
  <2>1. Pages!Store(visits \cup {new}) /\ lastVisit' = lastVisit + 1
    BY <1>4 DEF Pages!RecordVisit
  <2>2. new \in VisitRow /\ lastVisit' \in Nat
    <3>1. lastVisit + 1 \in Nat
      BY DEF PagesTyped
    <3>2. u \in Pages!Recorded /\ how \in Hows
      OBVIOUS
    <3>3. new \in VisitRow
      BY <3>1, <3>2, <1>0 DEF VisitRow
    <3>4. QED
      BY <3>1, <3>3, <2>1
  <2>3. visits' = visits \cup {new} /\ index' = {Pages!Entry(r) : r \in visits \cup {new}}
    BY <2>1, StoreKeepsIndex
  <2>4. new.id = lastVisit + 1 /\ new.url = u /\ new.title = Pages!Nothing /\ new.time = now
    OBVIOUS
  <2> HIDE DEF new
  <2>5. IndexInv'
    <3>1. \A r \in visits : r.id \in Nat /\ r.id <= lastVisit
      BY <1>2 DEF VisitRow, IndexInv
    <3>2. \A r \in visits' : r.id <= lastVisit'
      BY <3>1, <2>1, <2>3, <2>4 DEF PagesTyped
    <3>3. \A q, r \in visits' : q.id = r.id => q = r
      BY <3>1, <2>1, <2>3, <2>4 DEF PagesTyped, IndexInv
    <3>4. QED
      BY <2>3, <3>2, <3>3 DEF IndexInv, Pages!Entry
  <2>6. LastInv'
    <3>1. \A r \in visits' : r.time <= finished'[r.url] /\ r.time <= now'
      BY <2>3, <2>4, <1>0, <1>2 DEF LastInv, PagesTyped
    <3>2. \A v \in Urls : finished'[v] <= now'
      BY <1>0 DEF LastInv, PagesTyped
    <3>3. \A v \in Urls : finished'[v] # Pages!Never =>
            \E r \in visits' : r.url = v /\ r.time = finished'[v]
      BY <2>3, <2>4, <1>0 DEF LastInv, PagesTyped
    <3>4. QED
      BY <3>1, <3>2, <3>3 DEF LastInv
  <2>7. Pages!NoDoubles'
    <3>1. \A b \in visits : b.url = u => now - b.time > Window
      BY <1>4, <1>0, <1>2 DEF Pages!Repeats
    <3>2. \A a, b \in visits' : (a # b /\ a.url = b.url) =>
            (a.time - b.time > Window \/ b.time - a.time > Window)
      BY <3>1, <2>4, <2>3 DEF Pages!NoDoubles
    <3>3. QED
      BY <3>2 DEF Pages!NoDoubles
  <2>8. Pages!TitlesFit'
    BY <2>3, <2>4 DEF Pages!TitlesFit
  <2>9. QED
    BY <1>1, <2>2, <2>3, <2>5, <2>6, <2>7, <2>8 DEF PagesTyped
<1>5. QED
  BY <1>3, <1>4

\* A title goes to the last visit of its page, whenever it comes.
LEMMA TitleHolds ==
  ASSUME PagesTyped, IndexInv, LastInv, Pages!NoDoubles, Pages!TitlesFit,
         NEW u \in Urls, NEW title \in TitlesOf[u], Pages!UpdateLatestTitle(u, title),
         UNCHANGED <<now, lastVisit, finished>>
  PROVE  visits' \subseteq VisitRow /\ IndexInv' /\ LastInv' /\ Pages!NoDoubles' /\ Pages!TitlesFit'
<1> DEFINE own == {r \in visits : r.url = u}
<1>1. CASE own = {}
  <2>1. UNCHANGED <<visits, index>>
    BY <1>1 DEF Pages!UpdateLatestTitle
  <2>2. QED
    BY <2>1 DEF PagesTyped, IndexInv, LastInv, Pages!NoDoubles, Pages!TitlesFit
<1>2. CASE own # {}
  <2> DEFINE row == Pages!Newest(own)
             new == [row EXCEPT !.title = title]
  <2>1. row \in visits /\ row.url = u
    BY <1>2, NewestIsThere
  <2>2. Pages!Store((visits \ {row}) \cup {new})
    BY <1>2 DEF Pages!UpdateLatestTitle
  <2> HIDE DEF own
  <2> HIDE DEF row
  <2>3. row \in VisitRow /\ title \in AllTitles
    BY <2>1 DEF PagesTyped, AllTitles
  <2>4. new \in VisitRow /\ new.id = row.id /\ new.url = u /\ new.time = row.time /\ new.title = title
    BY <2>1, <2>3 DEF VisitRow
  <2> HIDE DEF new
  <2>5. visits' = (visits \ {row}) \cup {new} /\ visits' \subseteq VisitRow /\ IndexInv'
    BY <2>1, <2>2, <2>4, RowReplaced
  <2>6. LastInv'
    <3>1. \A r \in visits' : r.time <= finished'[r.url] /\ r.time <= now'
      BY <2>1, <2>4, <2>5 DEF LastInv
    <3>2. \A v \in Urls : finished'[v] # Pages!Never =>
            \E r \in visits' : r.url = v /\ r.time = finished'[v]
      BY <2>1, <2>4, <2>5 DEF LastInv
    <3>3. QED
      BY <3>1, <3>2 DEF LastInv
  <2>7. Pages!NoDoubles'
    BY <2>1, <2>4, <2>5 DEF Pages!NoDoubles
  <2>8. Pages!TitlesFit'
    BY <2>1, <2>4, <2>5 DEF Pages!TitlesFit
  <2>9. QED
    BY <2>5, <2>6, <2>7, <2>8
<1>3. QED
  BY <1>1, <1>2

\* The zoom levels of a site that is shown and of the table.
LEMMA LevelSet ==
  ASSUME PagesTyped, Pages!ZoomAgrees, NEW u \in Urls, NEW new \in Int, NEW ok \in BOOLEAN,
         level' = [level EXCEPT ![Place[u]] = new],
         stored' = IF ok THEN [stored EXCEPT ![Domain[u]] = new] ELSE stored,
         unsaved' = IF ok THEN unsaved \ {Domain[u]} ELSE unsaved \cup {Domain[u]},
         UNCHANGED <<url, loading>>
  PROVE  /\ level' \in [{Place[v] : v \in Urls} -> Int]
         /\ stored' \in [{Domain[v] : v \in Urls} -> Int]
         /\ Pages!ZoomAgrees'
<1>1. level' \in [{Place[v] : v \in Urls} -> Int] /\ stored' \in [{Domain[v] : v \in Urls} -> Int]
  BY DEF PagesTyped
<1>2. ASSUME NEW t \in Pages!Shown' \ loading', Pages!Plain(url[t]), Domain[url[t]] \notin unsaved',
             stored'[Domain[url[t]]] # 0
      PROVE  level'[Place[url[t]]] = stored'[Domain[url[t]]]
  <2>1. t \in Pages!Shown \ loading /\ url[t] \in Urls
    BY <1>2 DEF Pages!Shown, PagesTyped
  <2>2. (Domain[url[t]] = Domain[u]) <=> (Place[url[t]] = Place[u])
    BY <1>2 DEF Pages!Plain
  <2>3. CASE Domain[url[t]] = Domain[u]
    <3>1. ok
      BY <1>2, <2>3
    <3>2. QED
      BY <3>1, <2>1, <2>2, <2>3 DEF PagesTyped
  <2>4. CASE Domain[url[t]] # Domain[u]
    <3>1. stored'[Domain[url[t]]] = stored[Domain[url[t]]] /\ level'[Place[url[t]]] = level[Place[url[t]]]
      BY <2>1, <2>2, <2>4 DEF PagesTyped
    <3>2. Domain[url[t]] \notin unsaved
      BY <1>2, <2>4
    <3>3. QED
      BY <1>2, <2>1, <3>1, <3>2 DEF Pages!ZoomAgrees
  <2>5. QED
    BY <2>3, <2>4
<1>3. QED
  BY <1>1, <1>2 DEF Pages!ZoomAgrees, Pages!Plain

\* What a page that has loaded is shown at.
LEMMA LevelShown ==
  ASSUME PagesTyped, Pages!ZoomAgrees, NEW t \in loading, Pages!ShowLevel(url[t]),
         loading' = loading \ {t}, UNCHANGED <<url, stored, unsaved>>
  PROVE  level' \in [{Place[v] : v \in Urls} -> Int] /\ Pages!ZoomAgrees'
<1> DEFINE u == url[t]
<1>1. u \in Urls
  BY DEF PagesTyped, Pages!Shown
<1>2. level' \in [{Place[v] : v \in Urls} -> Int]
  BY <1>1 DEF Pages!ShowLevel, PagesTyped
<1>3. ASSUME NEW s \in Pages!Shown' \ loading', Pages!Plain(url[s]), Domain[url[s]] \notin unsaved,
             stored[Domain[url[s]]] # 0
      PROVE  level'[Place[url[s]]] = stored[Domain[url[s]]]
  <2>1. s \in Pages!Shown /\ url[s] \in Urls
    BY <1>3 DEF Pages!Shown, PagesTyped
  <2>2. (Domain[url[s]] = Domain[u]) <=> (Place[url[s]] = Place[u])
    BY <1>1, <1>3 DEF Pages!Plain
  <2>3. CASE Domain[url[s]] = Domain[u]
    BY <1>1, <1>3, <2>1, <2>2, <2>3 DEF Pages!ShowLevel, PagesTyped
  <2>4. CASE Domain[url[s]] # Domain[u]
    <3>1. level'[Place[url[s]]] = level[Place[url[s]]]
      BY <1>1, <2>1, <2>2, <2>4 DEF Pages!ShowLevel, PagesTyped
    <3>2. s \notin loading
      BY <1>3, <2>4
    <3>3. QED
      BY <1>3, <2>1, <3>1, <3>2 DEF Pages!ZoomAgrees
  <2>5. QED
    BY <2>3, <2>4
<1>4. QED
  BY <1>2, <1>3 DEF Pages!ZoomAgrees, Pages!Plain

\* Every step of Visits keeps its invariant.
LEMMA PagesStep == PagesInv /\ [Pages!Next]_(Pages!vars) => PagesInv'
<1> SUFFICES ASSUME PagesInv, [Pages!Next]_(Pages!vars) PROVE PagesInv'
  OBVIOUS
<1> USE DEF PagesInv
<1>1. CASE UNCHANGED Pages!vars
  BY <1>1 DEF Pages!vars, PagesTyped, IndexInv, LastInv, Pages!NoDoubles, Pages!TitlesFit,
     Pages!ZoomAgrees, Pages!Shown
<1>2. ASSUME UNCHANGED <<now, lastVisit, visits, index, finished>>,
             PagesTyped', Pages!ZoomAgrees'
      PROVE  PagesInv'
  BY <1>2 DEF IndexInv, LastInv, Pages!NoDoubles, Pages!TitlesFit
<1>3. ASSUME NEW t \in Tabs, Pages!LoadStart(t) PROVE PagesInv'
  <2>1. PICK u \in Urls, code \in Codes :
          /\ url' = [url EXCEPT ![t] = u] /\ loading' = loading \cup {t}
          /\ transitions' = [transitions EXCEPT ![t] = Pages!Transition(code)]
          /\ UNCHANGED <<now, visits, index, lastVisit, finished, level, stored, unsaved>>
    BY <1>3 DEF Pages!LoadStart, Pages!history, Pages!zoom
  <2>2. Pages!Transition(code) \in Hows
    BY DEF Pages!Transition, Hows
  <2>3. \A s \in Pages!Shown' \ loading' : s \in Pages!Shown \ loading /\ url'[s] = url[s]
    BY <2>1 DEF Pages!Shown, PagesTyped
  <2>4. PagesTyped'
    <3>1. transitions' \in [Tabs -> Hows \cup {Pages!Nothing}]
      BY <2>1, <2>2 DEF PagesTyped
    <3>2. url' \in [Tabs -> Urls \cup {Pages!Nothing}] /\ loading' \subseteq Pages!Shown'
      BY <2>1, PagesAssumption DEF PagesTyped, Pages!Shown, Pages!Nothing
    <3>3. QED
      BY <2>1, <3>1, <3>2 DEF PagesTyped
  <2>5. Pages!ZoomAgrees'
    BY <2>1, <2>3 DEF Pages!ZoomAgrees, Pages!Plain
  <2>6. QED
    BY <1>2, <2>1, <2>4, <2>5
<1>4. ASSUME NEW t \in Tabs, Pages!TitleChange(t) PROVE PagesInv'
  <2>1. UNCHANGED <<now, url, loading, transitions, lastVisit, finished, level, stored, unsaved>>
    BY <1>4 DEF Pages!TitleChange, Pages!pages, Pages!zoom
  <2>2. url[t] \in Urls
    BY <1>4 DEF Pages!TitleChange, Pages!Shown, PagesTyped
  <2>3. PICK title \in TitlesOf[url[t]], ok \in BOOLEAN :
          IF ok THEN Pages!UpdateLatestTitle(url[t], title) ELSE UNCHANGED <<visits, index>>
    BY <1>4 DEF Pages!TitleChange
  <2>4. visits' \subseteq VisitRow /\ IndexInv' /\ LastInv' /\ Pages!NoDoubles' /\ Pages!TitlesFit'
    <3>1. CASE Pages!UpdateLatestTitle(url[t], title)
      BY <2>1, <2>2, <3>1, TitleHolds
    <3>2. CASE UNCHANGED <<visits, index>>
      BY <2>1, <3>2 DEF PagesTyped, IndexInv, LastInv, Pages!NoDoubles, Pages!TitlesFit
    <3>3. QED
      BY <2>3, <3>1, <3>2
  <2>5. PagesTyped' /\ Pages!ZoomAgrees'
    BY <2>1, <2>4 DEF PagesTyped, Pages!ZoomAgrees, Pages!Shown, Pages!Plain
  <2>6. QED
    BY <2>4, <2>5
<1>5. ASSUME NEW t \in Tabs, Pages!LoadEnd(t) PROVE PagesInv'
  <2> DEFINE u == url[t]
             how == IF transitions[t] = Pages!Nothing THEN "link" ELSE transitions[t]
  <2>1. /\ t \in loading /\ loading' = loading \ {t}
        /\ transitions' = [transitions EXCEPT ![t] = Pages!Nothing]
        /\ Pages!ShowLevel(u) /\ UNCHANGED <<now, url, stored, unsaved>>
    BY <1>5 DEF Pages!LoadEnd
  <2>2. how \in Hows /\ u \in Urls
    BY <2>1 DEF PagesTyped, Hows, Pages!Shown
  <2>3. \/ UNCHANGED <<visits, index, lastVisit, finished>>
        \/ /\ u \in Pages!Recorded /\ Pages!RecordVisit(u, how)
           /\ finished' = [finished EXCEPT ![u] = now]
    BY <1>5 DEF Pages!LoadEnd, Pages!history
  <2> HIDE DEF how
  <2>4. /\ visits' \subseteq VisitRow /\ lastVisit' \in Nat
        /\ finished' \in [Urls -> Nat \cup {Pages!Never}]
        /\ IndexInv' /\ LastInv' /\ Pages!NoDoubles' /\ Pages!TitlesFit'
    <3>1. CASE UNCHANGED <<visits, index, lastVisit, finished>>
      BY <2>1, <3>1 DEF PagesTyped, IndexInv, LastInv, Pages!NoDoubles, Pages!TitlesFit
    <3>2. CASE /\ u \in Pages!Recorded /\ Pages!RecordVisit(u, how)
               /\ finished' = [finished EXCEPT ![u] = now]
      BY <2>1, <2>2, <3>2, RecordVisitHolds
    <3>3. QED
      BY <2>3, <3>1, <3>2
  <2>5. level' \in [{Place[v] : v \in Urls} -> Int] /\ Pages!ZoomAgrees'
    BY <2>1, LevelShown
  <2>6. loading' \subseteq Pages!Shown' /\ transitions' \in [Tabs -> Hows \cup {Pages!Nothing}]
    BY <2>1 DEF PagesTyped, Pages!Shown
  <2>7. PagesTyped'
    BY <2>1, <2>4, <2>5, <2>6 DEF PagesTyped
  <2>8. QED
    BY <2>4, <2>5, <2>7
<1>6. ASSUME NEW t \in Tabs, Pages!TabCloses(t) PROVE PagesInv'
  <2>1. /\ url' = [url EXCEPT ![t] = Pages!Nothing] /\ loading' = loading \ {t}
        /\ UNCHANGED <<now, transitions, visits, index, lastVisit, finished, level, stored, unsaved>>
    BY <1>6 DEF Pages!TabCloses, Pages!history, Pages!zoom
  <2>2. \A s \in Pages!Shown' \ loading' : s \in Pages!Shown \ loading /\ url'[s] = url[s]
    BY <2>1 DEF Pages!Shown, PagesTyped
  <2>3. PagesTyped'
    BY <2>1 DEF PagesTyped, Pages!Shown
  <2>4. Pages!ZoomAgrees'
    BY <2>1, <2>2 DEF Pages!ZoomAgrees, Pages!Plain
  <2>5. QED
    BY <1>2, <2>1, <2>3, <2>4
<1>7. ASSUME NEW t \in Tabs, Pages!AdjustZoom(t) \/ Pages!ResetZoom(t) PROVE PagesInv'
  <2>1. url[t] \in Urls
    BY <1>7 DEF Pages!AdjustZoom, Pages!ResetZoom, Pages!Shown, PagesTyped
  <2>2. UNCHANGED <<now, url, loading, transitions, visits, index, lastVisit, finished>>
    BY <1>7 DEF Pages!AdjustZoom, Pages!ResetZoom, Pages!history, Pages!pages
  <2>3. level[Place[url[t]]] \in Int
    BY <2>1 DEF PagesTyped
  <2>4. PICK new \in Int, ok \in BOOLEAN :
          /\ level' = [level EXCEPT ![Place[url[t]]] = new]
          /\ stored' = IF ok THEN [stored EXCEPT ![Domain[url[t]]] = new] ELSE stored
          /\ unsaved' = IF ok THEN unsaved \ {Domain[url[t]]} ELSE unsaved \cup {Domain[url[t]]}
    <3>1. CASE Pages!AdjustZoom(t)
      <4>1. PICK delta \in {-1, 1}, ok \in BOOLEAN :
              /\ level' = [level EXCEPT ![Place[url[t]]] = level[Place[url[t]]] + delta]
              /\ stored' = IF ok THEN [stored EXCEPT ![Domain[url[t]]] = level[Place[url[t]]] + delta]
                          ELSE stored
              /\ unsaved' = IF ok THEN unsaved \ {Domain[url[t]]} ELSE unsaved \cup {Domain[url[t]]}
        BY <3>1, Zenon DEF Pages!AdjustZoom
      <4>2. level[Place[url[t]]] + delta \in Int
        BY <2>3
      <4>3. QED
        BY <4>1, <4>2, Zenon
    <3>2. CASE Pages!ResetZoom(t)
      <4>1. 0 \in Int
        OBVIOUS
      <4>2. QED
        BY <3>2, <4>1, Zenon DEF Pages!ResetZoom
    <3>3. QED
      BY <1>7, <3>1, <3>2
  <2>5. /\ level' \in [{Place[v] : v \in Urls} -> Int]
        /\ stored' \in [{Domain[v] : v \in Urls} -> Int]
        /\ Pages!ZoomAgrees'
    BY <2>1, <2>2, <2>4, LevelSet
  <2>6. PagesTyped'
    BY <2>2, <2>5 DEF PagesTyped, Pages!Shown
  <2>7. QED
    BY <1>2, <2>2, <2>5, <2>6
<1>8. ASSUME Pages!ClearZoom PROVE PagesInv'
  <2>1. /\ stored' = [d \in DOMAIN stored |-> 0]
        /\ UNCHANGED <<now, url, loading, transitions, visits, index, lastVisit, finished, level, unsaved>>
    BY <1>8 DEF Pages!ClearZoom, Pages!history, Pages!pages
  <2>2. PagesTyped'
    BY <2>1 DEF PagesTyped, Pages!Shown
  <2>3. \A s \in Pages!Shown' \ loading' : stored'[Domain[url'[s]]] = 0
    BY <2>1 DEF PagesTyped, Pages!Shown
  <2>4. Pages!ZoomAgrees'
    BY <2>3 DEF Pages!ZoomAgrees
  <2>5. QED
    BY <1>2, <2>1, <2>2, <2>4
<1>9. ASSUME Pages!Restart PROVE PagesInv'
  <2>1. /\ url' = Pages!Absent /\ loading' = {} /\ transitions' = Pages!Absent
        /\ level' = Pages!Unzoomed /\ UNCHANGED <<now, lastVisit, stored>>
        /\ \/ Pages!Store({}) /\ finished' = [u \in Urls |-> Pages!Never]
           \/ UNCHANGED <<visits, index, finished>>
    BY <1>9 DEF Pages!Restart
  <2>2. Pages!ZoomAgrees'
    BY <2>1 DEF Pages!ZoomAgrees, Pages!Shown, Pages!Absent
  <2>3. CASE Pages!Store({}) /\ finished' = [u \in Urls |-> Pages!Never]
    <3>1. visits' = {} /\ index' = {}
      BY <2>3, StoreKeepsIndex
    <3>2. PagesTyped'
      BY <2>1, <2>3, <3>1 DEF PagesTyped, Pages!Shown, Pages!Absent, Pages!Unzoomed
    <3>3. IndexInv' /\ Pages!NoDoubles' /\ Pages!TitlesFit'
      BY <3>1 DEF IndexInv, Pages!NoDoubles, Pages!TitlesFit
    <3>4. LastInv'
      BY <2>1, <2>3, <3>1 DEF LastInv, PagesTyped, Pages!Never
    <3>5. QED
      BY <2>2, <3>2, <3>3, <3>4
  <2>4. CASE UNCHANGED <<visits, index, finished>>
    <3>1. PagesTyped'
      BY <2>1, <2>4 DEF PagesTyped, Pages!Shown, Pages!Absent, Pages!Unzoomed
    <3>2. QED
      BY <1>2, <2>1, <2>2, <2>4, <3>1
  <2>5. QED
    BY <2>1, <2>3, <2>4
<1>10. ASSUME Pages!Tick PROVE PagesInv'
  <2>1. /\ now' = now + 1
        /\ UNCHANGED <<url, loading, transitions, visits, index, lastVisit, finished, level, stored, unsaved>>
    BY <1>10 DEF Pages!Tick, Pages!pages, Pages!history, Pages!zoom
  <2>2. now' \in Nat
    BY <2>1 DEF PagesTyped
  <2>3. PagesTyped'
    BY <2>1, <2>2 DEF PagesTyped, Pages!Shown
  <2>4. \A k \in Int : k <= now => k <= now'
    BY <2>1 DEF PagesTyped
  <2>5. LastInv'
    <3>1. \A r \in visits : r.time \in Int
      BY DEF PagesTyped, VisitRow
    <3>2. \A u \in Urls : finished[u] \in Int
      BY DEF PagesTyped, Pages!Never
    <3>3. QED
      BY <2>1, <2>4, <3>1, <3>2 DEF LastInv
  <2>6. IndexInv' /\ Pages!NoDoubles' /\ Pages!TitlesFit'
    BY <2>1 DEF IndexInv, Pages!NoDoubles, Pages!TitlesFit
  <2>7. Pages!ZoomAgrees'
    BY <2>1 DEF Pages!ZoomAgrees, Pages!Shown, Pages!Plain
  <2>8. QED
    BY <2>3, <2>5, <2>6, <2>7
<1>11. QED
  BY <1>1, <1>3, <1>4, <1>5, <1>6, <1>7, <1>8, <1>9, <1>10 DEF Pages!Next

\* The last visit of an address is at the time its last load finished.
LEMMA VisitsFollow ==
  ASSUME PagesInv
  PROVE  Pages!VisitsAreThere
<1>1. ASSUME NEW u \in Urls
      PROVE  LET own == {r \in visits : r.url = u} IN
             IF finished[u] = Pages!Never THEN own = {}
             ELSE own # {} /\ Pages!Newest(own).time = finished[u]
  <2> DEFINE own == {r \in visits : r.url = u}
  <2>1. own # {} => finished[u] # Pages!Never
    BY DEF PagesInv, PagesTyped, LastInv, VisitRow, Pages!Never
  <2>2. own # {} => Pages!Newest(own).time = finished[u]
    BY NewestIsThere DEF PagesInv
  <2>3. finished[u] # Pages!Never => own # {}
    BY DEF PagesInv, LastInv
  <2>4. QED
    BY <2>1, <2>2, <2>3
<1>2. {r.url : r \in visits} \subseteq Pages!Recorded
  BY DEF PagesInv, PagesTyped, VisitRow
<1>3. QED
  BY <1>1, <1>2 DEF Pages!VisitsAreThere

\* The index finds the rows a word is in, and no others.
LEMMA SearchFollows ==
  ASSUME PagesInv
  PROVE  Pages!SearchIsComplete
<1> SUFFICES ASSUME NEW word
             PROVE  /\ {a.url : a \in Pages!Search(word)} =
                          {row.url : row \in {r \in visits : Pages!Has(r, word)}}
                    /\ \A a, b \in Pages!Search(word) : a.url = b.url => a = b
  BY DEF Pages!SearchIsComplete
<1> DEFINE hits == {r \in visits : \E e \in index : e.id = r.id /\ Pages!Has(e, word)}
           urls_ == {r.url : r \in hits}
<1>1. hits = {r \in visits : Pages!Has(r, word)}
  <2>1. \A r \in visits : Pages!Has(Pages!Entry(r), word) <=> Pages!Has(r, word)
    BY DEF Pages!Has, Pages!Entry
  <2>2. \A r \in visits, e \in index : e.id = r.id => e = Pages!Entry(r)
    BY DEF PagesInv, IndexInv, Pages!Entry
  <2>3. \A r \in visits : Pages!Entry(r) \in index /\ Pages!Entry(r).id = r.id
    BY DEF PagesInv, IndexInv, Pages!Entry
  <2>4. QED
    BY <2>1, <2>2, <2>3
<1> DEFINE Of(u) == {r \in hits : r.url = u}
           Answer(u) == LET own == {r \in visits : r.url = u} IN
             [url |-> u, title |-> Pages!Newest(own).title, time |-> Pages!Newest(Of(u)).time,
              score |-> 2 * Pages!Cardinality(Of(u))
                          + (IF Pages!Newest(Of(u)).time >= now - Recent THEN 10 ELSE 0)]
           answers == {Answer(u) : u \in urls_}
           Before(a, b) == a.score > b.score \/ (a.score = b.score /\ a.time > b.time)
           Listed(a) == [url |-> a.url, title |-> a.title,
                         place |-> Pages!Cardinality({b \in answers : Before(b, a)})]
<1>2. Pages!Search(word) = {Listed(a) : a \in answers}
  BY DEF Pages!Search
<1>3. \A u : Answer(u).url = u
  OBVIOUS
<1> HIDE DEF Answer
<1>4. \A a : Listed(a).url = a.url
  OBVIOUS
<1> HIDE DEF Listed
<1>5. {a.url : a \in Pages!Search(word)} = urls_
  BY <1>2, <1>3, <1>4
<1>6. \A a, b \in Pages!Search(word) : a.url = b.url => a = b
  BY <1>2, <1>3, <1>4
<1>7. QED
  BY <1>1, <1>5, <1>6

\* An empty history and no levels agree.
LEMMA PagesInit == Pages!Init => PagesInv
<1> SUFFICES ASSUME Pages!Init PROVE PagesInv
  OBVIOUS
<1> USE DEF Pages!Init
<1>1. PagesTyped
  BY DEF PagesTyped, Pages!Absent, Pages!Unzoomed, Pages!Nothing, Pages!Never
<1>2. IndexInv /\ LastInv /\ Pages!NoDoubles /\ Pages!TitlesFit
  BY DEF IndexInv, LastInv, Pages!NoDoubles, Pages!TitlesFit, Pages!Never
<1>3. Pages!ZoomAgrees
  BY DEF Pages!ZoomAgrees, Pages!Shown, Pages!Absent
<1>4. QED
  BY <1>1, <1>2, <1>3 DEF PagesInv

\* The rows, the index, the last visits and the levels agree in every state.
THEOREM PagesInvHolds == Pages!Spec => []PagesInv
  BY PagesInit, PagesStep, PTL DEF Pages!Spec

-----------------------------------------------------------------------------
(* Icons: the strip shows what a page sent, or what was kept for its origin. *)

\* Numbers of tabs are not used again, whatever is still on its way to one.
UsedInv ==
  /\ Strip!Live \subseteq used /\ given \subseteq used
  /\ \A f \in fetching : f.tab \in used
  /\ \A i \in DOMAIN sink : sink[i].tab \in used
  /\ \A n \in Numbers \ used : icons[n] = Strip!NoIcon /\ checked[n] = Strip!NoTab

\* An early lookup waits only for a tab that has not been looked at.
LookupInv == \A n \in Numbers : prefill[n] # Strip!NoOrigin => n \in used /\ checked[n] = Strip!NoTab

\* What a page sent stays as long as its tab.
GivenInv == \A n \in Strip!Live \cap given : icons[n].by = "page"

Sendings == [tab : Numbers, icon : Addresses]

IconsTyped ==
  /\ address \in [Numbers -> Addresses \cup {Strip!NoTab}]
  /\ fetching \subseteq Sendings /\ sink \in Seq(Sendings)
  /\ prefill \in [Numbers -> Strip!Origins \cup {Strip!NoOrigin}]

IconsInv == IconsTyped /\ UsedInv /\ LookupInv /\ GivenInv /\ Strip!IconsAreTheirs

\* Taking what was fetched keeps the icons true.
LEMMA PumpHolds == ASSUME IconsInv, Strip!Pump PROVE IconsInv'
<1> DEFINE before == Strip!Retained
           wanted == Strip!LookedUp(before)
<1>1. /\ icons' = Strip!Delivered(Strip!Prefilled(before, wanted))
      /\ given' = given \cup Strip!Sent /\ sink' = <<>>
      /\ prefill' = [n \in Numbers |-> Strip!NoOrigin]
      /\ checked' = IF Cached THEN [n \in Numbers |-> address[n]] ELSE checked
      /\ UNCHANGED <<address, used, fetching>>
  BY DEF Strip!Pump
<1>2. Strip!Sent \subseteq used
  BY DEF IconsInv, UsedInv, Strip!Sent
<1>3. \A n \in Strip!Sent \cap Numbers : icons'[n].by = "page"
  BY <1>1 DEF Strip!Delivered, Strip!LastOf
<1>4. \A n \in Numbers \ Strip!Sent : icons'[n] = Strip!Prefilled(before, wanted)[n]
  BY <1>1 DEF Strip!Delivered
<1>5. ASSUME NEW n \in Numbers \ Strip!Sent, icons'[n] # before[n]
      PROVE  /\ Cached /\ before[n] = Strip!NoIcon /\ wanted[n] # Strip!NoOrigin
             /\ icons'[n] = Strip!FromCache(n, wanted[n])
  BY <1>4, <1>5 DEF Strip!Prefilled
<1>6. ASSUME NEW n \in Strip!Live \ Strip!Sent
      PROVE  /\ n \in given => icons'[n].by = "page"
             /\ icons'[n] # Strip!NoIcon /\ icons'[n].by = "cache"
                  => Origin[icons'[n].for] \in {icons'[n].under, Strip!NoOrigin}
  <2>1. n \in Numbers /\ before[n] = icons[n]
    BY DEF Strip!Live, Strip!Retained
  <2>2. CASE icons'[n] = before[n]
    BY <2>1, <2>2 DEF IconsInv, GivenInv, Strip!IconsAreTheirs
  <2>3. CASE icons'[n] # before[n]
    <3>1. /\ Cached /\ before[n] = Strip!NoIcon /\ wanted[n] # Strip!NoOrigin
          /\ icons'[n] = Strip!FromCache(n, wanted[n])
      BY <1>5, <2>1, <2>3
    <3>2. n \notin given
      <4>1. icons[n].by = "none"
        BY <2>1, <3>1 DEF Strip!NoIcon
      <4>2. QED
        BY <4>1 DEF IconsInv, GivenInv
    <3>3. Origin[address[n]] \in {wanted[n], Strip!NoOrigin}
      <4>1. CASE checked[n] # address[n]
        BY <2>1, <3>1, <4>1 DEF Strip!LookedUp
      <4>2. CASE checked[n] = address[n]
        <5>1. checked[n] # Strip!NoTab
          BY <4>2 DEF Strip!Live
        <5>2. prefill[n] = Strip!NoOrigin
          BY <5>1, <2>1 DEF IconsInv, LookupInv
        <5>3. wanted[n] = prefill[n]
          BY <2>1, <4>2 DEF Strip!LookedUp
        <5>4. QED
          BY <3>1, <5>2, <5>3
      <4>3. QED
        BY <4>1, <4>2
    <3>4. icons'[n].by = "cache" /\ icons'[n].for = address[n] /\ icons'[n].under = wanted[n]
      BY <3>1 DEF Strip!FromCache
    <3>5. QED
      BY <3>2, <3>3, <3>4
  <2>4. QED
    BY <2>2, <2>3
<1>7. Strip!Live' = Strip!Live
  BY <1>1 DEF Strip!Live
<1>8. GivenInv' /\ Strip!IconsAreTheirs'
  <2>1. \A n \in Strip!Live : n \in Numbers
    BY DEF Strip!Live
  <2>2. \A n \in Strip!Live : n \in Strip!Sent => icons'[n].by = "page"
    BY <1>3, <2>1
  <2>3. \A n \in Strip!Live : n \in given' => icons'[n].by = "page"
    BY <1>1, <1>6, <2>2
  <2>4. \A n \in Strip!Live : icons'[n] # Strip!NoIcon /\ icons'[n].by = "cache"
          => Origin[icons'[n].for] \in {icons'[n].under, Strip!NoOrigin}
    BY <1>6, <2>2
  <2>5. QED
    BY <1>7, <2>3, <2>4 DEF GivenInv, Strip!IconsAreTheirs
<1>9. UsedInv'
  <2>1. ASSUME NEW n \in Numbers \ used PROVE icons'[n] = Strip!NoIcon /\ checked'[n] = Strip!NoTab
    <3>1. n \notin Strip!Live /\ n \notin Strip!Sent
      BY <1>2 DEF IconsInv, UsedInv
    <3>2. before[n] = Strip!NoIcon /\ wanted[n] = prefill[n]
      BY <3>1 DEF Strip!Retained, Strip!LookedUp
    <3>3. prefill[n] = Strip!NoOrigin
      BY DEF IconsInv, LookupInv
    <3>4. icons'[n] = Strip!NoIcon
      BY <1>5, <3>1, <3>2, <3>3
    <3>5. checked'[n] = Strip!NoTab
      BY <1>1, <3>1 DEF IconsInv, UsedInv, Strip!Live
    <3>6. QED
      BY <3>4, <3>5
  <2>2. Strip!Live' \subseteq used' /\ given' \subseteq used'
    BY <1>1, <1>2, <1>7 DEF IconsInv, UsedInv
  <2>3. QED
    BY <1>1, <2>1, <2>2 DEF IconsInv, UsedInv
<1>10. LookupInv' /\ IconsTyped'
  BY <1>1 DEF LookupInv, IconsInv, IconsTyped
<1>11. QED
  BY <1>8, <1>9, <1>10 DEF IconsInv

\* Every step of Icons keeps its invariant.
LEMMA IconsStep == IconsInv /\ [Strip!Next]_(Strip!vars) => IconsInv'
<1> SUFFICES ASSUME IconsInv, [Strip!Next]_(Strip!vars) PROVE IconsInv'
  OBVIOUS
<1>0. IconsTyped /\ UsedInv /\ LookupInv /\ GivenInv /\ Strip!IconsAreTheirs
  BY DEF IconsInv
<1>1. CASE UNCHANGED Strip!vars
  BY <1>0, <1>1 DEF Strip!vars, Strip!app, IconsInv, IconsTyped, UsedInv, LookupInv, GivenInv,
     Strip!IconsAreTheirs, Strip!Live
\* A page that moves or closes makes no tab live that was not.
<1>2. ASSUME NEW n \in Numbers, NEW a \in Addresses \cup {Strip!NoTab}, n \in Strip!Live,
             address' = [address EXCEPT ![n] = a],
             UNCHANGED <<used, fetching, sink, icons, prefill, checked, given>>
      PROVE  IconsInv'
  <2>1. IconsTyped' /\ LookupInv'
    BY <1>0, <1>2 DEF IconsTyped, LookupInv
  <2>2. Strip!Live' \subseteq Strip!Live
    BY <1>0, <1>2 DEF IconsTyped, Strip!Live
  <2>3. UsedInv' /\ GivenInv' /\ Strip!IconsAreTheirs'
    BY <1>0, <1>2, <2>2 DEF UsedInv, GivenInv, Strip!IconsAreTheirs
  <2>4. QED
    BY <2>1, <2>3 DEF IconsInv
<1>3. ASSUME NEW n \in Numbers, Strip!CloseTab(n) PROVE IconsInv'
  BY <1>2, <1>3 DEF Strip!CloseTab, Strip!app
<1>4. ASSUME NEW n \in Numbers, NEW a \in Addresses, Strip!Goes(n, a) PROVE IconsInv'
  BY <1>2, <1>4 DEF Strip!Goes, Strip!app
<1>5. ASSUME NEW n \in Numbers, Strip!NamesIcon(n) PROVE IconsInv'
  <2>1. /\ n \in used /\ fetching' = fetching \cup {[tab |-> n, icon |-> address[n]]}
        /\ UNCHANGED <<address, used, sink, icons, prefill, checked, given>>
    BY <1>0, <1>5 DEF Strip!NamesIcon, Strip!app, UsedInv
  <2>2. [tab |-> n, icon |-> address[n]] \in Sendings
    BY <1>0, <1>5 DEF Strip!NamesIcon, Strip!Live, IconsTyped, Sendings
  <2>3. IconsTyped' /\ LookupInv' /\ GivenInv' /\ Strip!IconsAreTheirs' /\ UsedInv'
    BY <1>0, <2>1, <2>2 DEF IconsTyped, LookupInv, GivenInv, Strip!IconsAreTheirs, UsedInv, Strip!Live
  <2>4. QED
    BY <2>3 DEF IconsInv
<1>6. ASSUME NEW f \in fetching, NEW good \in BOOLEAN, Strip!Fetched(f, good) PROVE IconsInv'
  <2>1. /\ fetching' = fetching \ {f} /\ (sink' = sink \/ sink' = Append(sink, f))
        /\ UNCHANGED <<address, used, icons, prefill, checked, given>>
    BY <1>6 DEF Strip!Fetched, Strip!app
  <2>2. /\ sink' \in Seq(Sendings)
        /\ \A i \in DOMAIN sink' : sink'[i] = f \/ (i \in DOMAIN sink /\ sink'[i] = sink[i])
    <3>1. f \in Sendings /\ sink \in Seq(Sendings)
      BY <1>0 DEF IconsTyped
    <3>2. QED
      BY <2>1, <3>1
  <2>3. IconsTyped' /\ LookupInv' /\ GivenInv' /\ Strip!IconsAreTheirs'
    BY <1>0, <2>1, <2>2 DEF IconsTyped, LookupInv, GivenInv, Strip!IconsAreTheirs, Strip!Live
  <2>4. UsedInv'
    BY <1>0, <2>1, <2>2 DEF UsedInv, Strip!Live
  <2>5. QED
    BY <2>3, <2>4 DEF IconsInv
<1>7. ASSUME NEW n \in Numbers, NEW a \in Addresses, NEW restored \in BOOLEAN,
             Strip!OpenTab(n, a, restored)
      PROVE  IconsInv'
  <2>1. /\ n \notin used /\ used' = used \cup {n} /\ address' = [address EXCEPT ![n] = a]
        /\ UNCHANGED <<fetching, sink, icons, checked, given>>
        /\ \/ prefill' = prefill
           \/ Origin[a] # Strip!NoOrigin /\ prefill' = [prefill EXCEPT ![n] = Origin[a]]
    BY <1>7 DEF Strip!OpenTab, Strip!Registered
  <2>2. checked[n] = Strip!NoTab /\ icons[n] = Strip!NoIcon /\ n \notin given
    BY <1>0, <2>1 DEF UsedInv
  <2>3. prefill' \in [Numbers -> Strip!Origins \cup {Strip!NoOrigin}]
    BY <1>0, <2>1 DEF IconsTyped, Strip!Origins
  <2>4. IconsTyped'
    BY <1>0, <2>1, <2>3 DEF IconsTyped
  <2>5. Strip!Live' \subseteq Strip!Live \cup {n}
    BY <1>0, <2>1 DEF Strip!Live, IconsTyped
  <2>6. LookupInv'
    BY <1>0, <2>1, <2>2 DEF LookupInv, IconsTyped
  <2>7. UsedInv' /\ GivenInv' /\ Strip!IconsAreTheirs'
    BY <1>0, <2>1, <2>2, <2>5 DEF UsedInv, GivenInv, Strip!IconsAreTheirs
  <2>8. QED
    BY <2>4, <2>6, <2>7 DEF IconsInv
<1>8. QED
  BY <1>1, <1>3, <1>4, <1>5, <1>6, <1>7, PumpHolds DEF Strip!Next

\* No tab and no icon.
LEMMA IconsInit == Strip!Init => IconsInv
  BY DEF Strip!Init, IconsInv, IconsTyped, UsedInv, LookupInv, GivenInv, Strip!IconsAreTheirs,
     Strip!Live

\* No number is given twice and no lookup outlives a page that sent an icon.
THEOREM IconsInvHolds == Strip!Spec => []IconsInv
  BY IconsInit, IconsStep, PTL DEF Strip!Spec

-----------------------------------------------------------------------------
(* The parts of a behaviour of MCProcesses are behaviours of their own.     *)

\* Each part of a behaviour is a behaviour of its own module.
LEMMA PartsApart == PartsSpec => Spec /\ Store!Spec /\ Pages!Spec /\ Strip!Spec
<1> DEFINE Step == \/ OfUrls(Next) \/ OfStore(Store!Next)
                   \/ OfPages(Pages!Next) \/ OfIcons(Strip!Next)
<1>1. PartsInit => Init /\ Store!Init /\ Pages!Init /\ Strip!Init
  BY DEF PartsInit
<1>2. [Step]_allVars => /\ [Next]_vars /\ [Store!Next]_(Store!vars)
                        /\ [Pages!Next]_(Pages!vars) /\ [Strip!Next]_(Strip!vars)
  <2> SUFFICES ASSUME [Step]_allVars
               PROVE  /\ [Next]_vars /\ [Store!Next]_(Store!vars)
                      /\ [Pages!Next]_(Pages!vars) /\ [Strip!Next]_(Strip!vars)
    OBVIOUS
  <2>1. /\ UNCHANGED storeVars => UNCHANGED Store!vars
        /\ UNCHANGED pageVars => UNCHANGED Pages!vars
        /\ UNCHANGED iconVars => UNCHANGED Strip!vars
    BY DEF storeVars, Store!vars, pageVars, Pages!vars, iconVars, Strip!vars, Strip!app
  <2>2. UNCHANGED allVars => UNCHANGED <<vars, storeVars, pageVars, iconVars>>
    BY DEF allVars
  <2>3. QED
    BY <2>1, <2>2 DEF OfUrls, OfStore, OfPages, OfIcons
<1>3. PartsSpec => PartsInit /\ [][Step]_allVars
  BY PTL DEF PartsSpec
<1>4. QED
  BY <1>1, <1>2, <1>3, PTL DEF Spec, Store!Spec, Pages!Spec, Strip!Spec

\* Every load that finished is in the history once, under its address, its
\* time and a title of its own page, and the search finds it; a page that has
\* loaded is shown at the level of its site; and a tab has the icon its page
\* sent or one that was kept for its origin (record_visit, update_latest_title,
\* search, on_load_end, pump_favicon_updates).
THEOREM TablesAreAlwaysTrue == PartsSpec => []TablesAreTrue
<1>1. PagesInv /\ IconsInv => TablesAreTrue
  BY VisitsFollow, SearchFollows DEF TablesAreTrue, Pages!VisitsAreTrue, PagesInv, IconsInv
<1>2. QED
  BY <1>1, PartsApart, PagesInvHolds, IconsInvHolds, PTL

\* The store's migrations run once and in order, whoever has it open has all it
\* knows, no write is lost between two processes, and an import has the tags
\* of its folders (apply, add_in_tx, update, import_netscape, clear_all).
THEOREM StoreIsAlwaysWhole == PartsSpec => []StoreIsWhole
<1>1. SchemaInv /\ DraftInv /\ FaithInv => StoreIsWhole
  BY WholeFollows DEF StoreIsWhole
<1>2. QED
  BY <1>1, PartsApart, StoreInvHolds, PTL
=============================================================================
