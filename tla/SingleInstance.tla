--------------------------- MODULE SingleInstance ---------------------------
(***************************************************************************)
(* apps/buffr-app/src/single_instance.rs on Unix: several invocations of   *)
(* buffr-app on one profile decide who runs the browser, and the others    *)
(* hand their URLs over and leave.                                         *)
(*                                                                         *)
(* Every invocation is first a client (try_forward, twice if it loses the  *)
(* race for the lock), then perhaps the owner: flock, bind to a temporary  *)
(* name, rename it into place, initialise, run an accept thread next to    *)
(* the event loop, and leave by _exit, which unlinks nothing.              *)
(*                                                                         *)
(* A payload is one of three kinds: no URL, only URLs the scheme gate      *)
(* refuses, or at least one it lets pass.                                  *)
(*                                                                         *)
(* A definition named X_mistake is X as a plausible bug would have it.     *)
(***************************************************************************)
EXTENDS Naturals, Sequences

CONSTANTS
  Procs,    \* the invocations
  None,     \* no process, no file
  Attempts  \* CONNECT_ATTEMPTS

ASSUME NoneAssumption == None \notin Procs
ASSUME AttemptsAssumption == Attempts \in Nat \ {0}

Kinds == {"empty", "refused", "good"}

VARIABLES
  pc,       \* where each invocation is
  urls,     \* what kind of payload it was started with
  round,    \* 1, or 2 after it found the lock taken
  tries,    \* connect attempts of this round
  sock,     \* whose listener the socket path names
  lock,     \* who holds the flock
  peer,     \* whose listener a client is connected to
  sent,     \* has the client written its line?
  reply,    \* what came back: "none", "OK", "ERR", "eof"
  backlog,  \* connections a listener has not accepted yet
  serving,  \* the connection the accept thread is busy with
  acking,   \* the answer it is about to write, or "none"
  events,   \* OpenUrls events waiting in the owner's event loop
  opened,   \* history: how often the URLs of an invocation were opened
  taken     \* history: were they put into an event loop?

clientVars == <<urls, round, tries, peer, sent>>
ownerVars  == <<sock, lock>>
acceptVars == <<backlog, serving, acking>>
histVars   == <<opened, taken>>
vars == <<pc, clientVars, reply, ownerVars, acceptVars, events, histVars>>

\* Phases in which a process holds the lock, and in which it has a listener.
Owning    == {"bind", "rename", "start", "serve", "drain", "unlinked"}
Listening == {"rename", "start", "serve", "drain", "unlinked"}
\* Phases in which the accept thread runs.
Accepting == {"serve", "drain"}
Ended     == {"forwarded", "failed", "gone"}
Clients   == {"send", "ack"}

Goto(p, label) == pc' = [pc EXCEPT ![p] = label]

Init ==
  /\ pc = [p \in Procs |-> "off"]
  /\ urls = [p \in Procs |-> "empty"]
  /\ round = [p \in Procs |-> 1] /\ tries = [p \in Procs |-> 0]
  /\ sock = None /\ lock = None
  /\ peer = [p \in Procs |-> None] /\ sent = [p \in Procs |-> FALSE]
  /\ reply = [p \in Procs |-> "none"]
  /\ backlog = [p \in Procs |-> <<>>] /\ serving = [p \in Procs |-> None]
  /\ acking = [p \in Procs |-> "none"] /\ events = [p \in Procs |-> <<>>]
  /\ opened = [p \in Procs |-> 0]
  /\ taken = [p \in Procs |-> FALSE]

-----------------------------------------------------------------------------
(* The client side: try_acquire up to the lock.                            *)

Launch(p, kind) ==
  /\ pc[p] = "off"
  /\ Goto(p, "connect")
  /\ urls' = [urls EXCEPT ![p] = kind]
  /\ UNCHANGED <<round, tries, peer, sent, reply, ownerVars, acceptVars, events, histVars>>

Reachable(q) == q # None /\ pc[q] \in Listening

Connect(p) ==
  /\ pc[p] = "connect" /\ Reachable(sock)
  /\ Goto(p, "send")
  /\ peer' = [peer EXCEPT ![p] = sock]
  /\ backlog' = [backlog EXCEPT ![sock] = Append(@, p)]
  /\ UNCHANGED <<urls, round, tries, sent, reply, ownerVars, serving, acking, events, histVars>>

\* ENOENT or ECONNREFUSED: nobody listens.  The second time that is an error.
ConnectStale(p) ==
  /\ pc[p] = "connect" /\ ~Reachable(sock)
  /\ Goto(p, IF round[p] = 1 THEN "lock" ELSE "failed")
  /\ UNCHANGED <<clientVars, reply, ownerVars, acceptVars, events, histVars>>

\* Any other connect error is retried and never taken for an absent owner.
AttemptsLeft(n) == n < Attempts

ConnectAmbiguous(p) ==
  /\ pc[p] = "connect" /\ Reachable(sock)
  /\ tries' = [tries EXCEPT ![p] = @ + 1]
  /\ Goto(p, IF AttemptsLeft(tries[p] + 1) THEN "connect" ELSE "failed")
  /\ UNCHANGED <<urls, round, peer, sent, reply, ownerVars, acceptVars, events, histVars>>

\* Write the line, unless the owner hung up meanwhile.
Send(p) ==
  /\ pc[p] = "send"
  /\ IF reply[p] = "eof"
     THEN Goto(p, "failed") /\ UNCHANGED sent
     ELSE Goto(p, "ack") /\ sent' = [sent EXCEPT ![p] = TRUE]
  /\ UNCHANGED <<urls, round, tries, peer, reply, ownerVars, acceptVars, events, histVars>>

\* classify_ack.
Acked_eof_too(r) == r \in {"OK", "eof"}
Acked(r) == r = "OK"

ReadAck(p) ==
  /\ pc[p] = "ack" /\ reply[p] # "none"
  /\ Goto(p, IF Acked(reply[p]) THEN "forwarded" ELSE "failed")
  /\ UNCHANGED <<clientVars, reply, ownerVars, acceptVars, events, histVars>>

\* The receive timeout of two seconds: try_forward returns an error, which
\* ends the process; the line stays with the owner.
AfterAckTimeout == "failed"

AckDue_served(p) == pc[p] = "ack" /\ reply[p] = "none" /\ serving[peer[p]] = p
AckDue(p) == pc[p] = "ack" /\ reply[p] = "none"

AckTimeout(p) ==
  /\ AckDue(p)
  /\ Goto(p, AfterAckTimeout)
  /\ UNCHANGED <<clientVars, reply, ownerVars, acceptVars, events, histVars>>

-----------------------------------------------------------------------------
(* Becoming the owner.                                                     *)

LockFree == lock = None

TryLock(p) ==
  /\ pc[p] = "lock"
  /\ IF LockFree
     THEN /\ lock' = p
          /\ Goto(p, "bind")
          /\ UNCHANGED <<round, tries>>
     ELSE /\ round' = [round EXCEPT ![p] = 2]
          /\ tries' = [tries EXCEPT ![p] = 0]
          /\ Goto(p, "connect")
          /\ UNCHANGED lock
  /\ UNCHANGED <<urls, peer, sent, reply, sock, acceptVars, events, histVars>>

Bind(p) ==
  /\ pc[p] = "bind"
  /\ Goto(p, "rename")
  /\ UNCHANGED <<clientVars, reply, ownerVars, acceptVars, events, histVars>>

\* Atomically replaces whatever the path named.
Rename(p) ==
  /\ pc[p] = "rename"
  /\ sock' = p
  /\ Goto(p, "start")
  /\ UNCHANGED <<clientVars, reply, lock, acceptVars, events, histVars>>

\* Connections whose listener or server end goes away see end of file.
HungUp(q) ==
  [c \in Procs |-> IF peer[c] = q /\ reply[c] = "none" THEN "eof" ELSE reply[c]]

\* bind or rename fails: the listener and the lock go with the error.
BindFails(p) ==
  /\ pc[p] \in {"bind", "rename"}
  /\ lock' = None
  /\ Goto(p, "failed")
  /\ UNCHANGED <<clientVars, reply, sock, acceptVars, events, histVars>>

\* main returns an error before the accept thread exists: the handle is
\* dropped, which first unlinks the path and then lets go of the listener and
\* the lock.
LockDuringUnlink_released == None
LockDuringUnlink == lock

StartFails(p) ==
  /\ pc[p] = "start"
  /\ lock' = LockDuringUnlink
  /\ Goto(p, "unlinked")
  /\ UNCHANGED <<clientVars, reply, sock, acceptVars, events, histVars>>

Unlink(p) ==
  /\ pc[p] = "unlinked"
  /\ sock' = None
  /\ lock' = IF lock = p THEN None ELSE lock
  /\ reply' = HungUp(p)
  /\ Goto(p, "failed")
  /\ UNCHANGED <<clientVars, acceptVars, events, histVars>>

\* CEF, stores and windows are up: the accept thread and the loop start.
Start(p) ==
  /\ pc[p] = "start"
  /\ Goto(p, "serve")
  /\ UNCHANGED <<clientVars, reply, ownerVars, acceptVars, events, histVars>>

-----------------------------------------------------------------------------
(* The accept thread of the owner.                                         *)

AcceptKeeps == UNCHANGED <<pc, clientVars, ownerVars>>

Accept(q) ==
  /\ pc[q] \in Accepting /\ serving[q] = None /\ backlog[q] # <<>>
  /\ serving' = [serving EXCEPT ![q] = Head(backlog[q])]
  /\ backlog' = [backlog EXCEPT ![q] = Tail(@)]
  /\ AcceptKeeps /\ UNCHANGED <<reply, acking, events, histVars>>

Busy_unanswered(q) == pc[q] \in Accepting /\ serving[q] # None
Busy(q) == pc[q] \in Accepting /\ serving[q] # None /\ acking[q] = "none"

\* A line that passes the gate becomes an event, whether or not the loop is
\* still there to take it; anything else is answered with ERR.
ReadLine(q) ==
  LET c == serving[q] IN
  /\ Busy(q) /\ sent[c]
  /\ IF urls[c] = "good"
     THEN /\ taken' = [taken EXCEPT ![c] = TRUE]
          /\ events' = IF pc[q] = "serve" THEN [events EXCEPT ![q] = Append(@, c)] ELSE events
          /\ acking' = [acking EXCEPT ![q] = "OK"]
     ELSE /\ acking' = [acking EXCEPT ![q] = "ERR"]
          /\ UNCHANGED <<taken, events>>
  /\ AcceptKeeps /\ UNCHANGED <<reply, backlog, serving, opened>>

WriteAck(q) ==
  /\ pc[q] \in Accepting /\ acking[q] # "none"
  /\ reply' = [reply EXCEPT ![serving[q]] = acking[q]]
  /\ acking' = [acking EXCEPT ![q] = "none"]
  /\ serving' = [serving EXCEPT ![q] = None]
  /\ AcceptKeeps /\ UNCHANGED <<backlog, events, histVars>>

\* The client left without writing, or ACCEPT_IO_TIMEOUT is over.
GivenUp(c) == ~sent[c]

GiveUp(q) ==
  /\ Busy(q) /\ GivenUp(serving[q])
  /\ reply' = [reply EXCEPT ![serving[q]] = "eof"]
  /\ serving' = [serving EXCEPT ![q] = None]
  /\ AcceptKeeps /\ UNCHANGED <<backlog, acking, events, histVars>>

-----------------------------------------------------------------------------
(* The event loop of the owner, and the ends of processes.                 *)

OpenUrls(q) ==
  /\ pc[q] = "serve" /\ events[q] # <<>>
  /\ opened' = [opened EXCEPT ![Head(events[q])] = @ + 1]
  /\ events' = [events EXCEPT ![q] = Tail(@)]
  /\ UNCHANGED <<pc, clientVars, reply, ownerVars, acceptVars, taken>>

\* The loop ends; browsers, renderers and CEF are torn down while the accept
\* thread goes on.
Quit(q) ==
  /\ pc[q] = "serve"
  /\ Goto(q, "drain")
  /\ UNCHANGED <<clientVars, reply, ownerVars, acceptVars, events, histVars>>

\* _exit, or a crash anywhere: the kernel closes sockets and releases the
\* lock; the socket file stays.
Die(p) ==
  /\ pc[p] \notin Ended \cup {"off"}
  /\ Goto(p, "gone")
  /\ lock' = IF lock = p THEN None ELSE lock
  /\ reply' = HungUp(p)
  /\ UNCHANGED <<clientVars, sock, acceptVars, events, histVars>>

Client(p) ==
  Connect(p) \/ ConnectStale(p) \/ ConnectAmbiguous(p) \/ Send(p) \/ ReadAck(p) \/ AckTimeout(p)

Awaits(p) ==
  Connect(p) \/ ConnectStale(p) \/ ConnectAmbiguous(p) \/ ReadAck(p) \/ AckTimeout(p)

Acquire(p) == TryLock(p) \/ Bind(p) \/ Rename(p) \/ Unlink(p)

AcceptThread(q) == Accept(q) \/ ReadLine(q) \/ WriteAck(q) \/ GiveUp(q)

Next ==
  \E p \in Procs :
    \/ \E kind \in Kinds : Launch(p, kind)
    \/ Client(p)
    \/ Acquire(p) \/ BindFails(p) \/ Start(p) \/ StartFails(p)
    \/ AcceptThread(p)
    \/ OpenUrls(p) \/ Quit(p) \/ Die(p)

Spec == Init /\ [][Next]_vars

\* The invocations and the accept threads are scheduled, but a client may stop
\* before it writes, an owner may stay in its start for good, and the event
\* loop may be stuck.  Nobody has to quit, fail or die.
Fairness == \A p \in Procs :
  /\ WF_vars(Awaits(p))
  /\ WF_vars(Acquire(p))
  /\ WF_vars(AcceptThread(p))

FairSpec == Spec /\ Fairness

-----------------------------------------------------------------------------
(* Properties.                                                             *)

\* A profile has one owner at a time, from before the socket is touched until
\* after it was last used.
OneOwner == \A p, q \in Procs : pc[p] \in Owning /\ pc[q] \in Owning => p = q

\* The socket path of a serving owner names that owner's listener: nobody
\* replaces or unlinks a socket its owner listens on.
SocketIsOwners == \A p \in Procs : pc[p] \in {"start", "serve", "drain"} => sock = p

\* No URL list is opened twice, whatever is retried and whoever dies.
OpenedAtMostOnce == \A p \in Procs : opened[p] <= 1

\* An invocation that says it forwarded its URLs had them taken by an owner.
ForwardedWasTaken == \A p \in Procs : pc[p] = "forwarded" => taken[p]

\* An invocation does not hang, whatever the owner does, even one that never
\* gets through its start.
LaunchSettles ==
  \A p \in Procs : pc[p] \in {"connect", "lock", "bind", "rename", "ack"}
                     ~> pc[p] \in {"send", "start", "serve"} \cup Ended

\* One owner, and the socket invocations find is the owner's.
OwnerIsReached == OneOwner /\ SocketIsOwners
=============================================================================
