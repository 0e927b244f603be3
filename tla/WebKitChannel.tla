---------------------------- MODULE WebKitChannel ---------------------------
(***************************************************************************)
(* A WebKit engine between its two threads.  The application's thread      *)
(* (WebKitEngine) sends commands through a bounded channel, for some of    *)
(* them waits for a reply with a time limit, and reads the mirror of the   *)
(* tab list at any time.  The worker thread (handle_command, WpeRuntime)   *)
(* polls the channel, changes its list of views and then the mirror, and   *)
(* collects the permission requests of the pages.                          *)
(*                                                                         *)
(* A command that does not fit into the channel is dropped with a warning, *)
(* the one that ends the worker included.  What WebKit paints is modelled  *)
(* by WebKitPages; addresses, titles, zoom, find and input are data of a   *)
(* tab, and their commands only take a place in the channel.               *)
(***************************************************************************)
EXTENDS WebKitTabs, FiniteSets

CONSTANTS
  QueueLen,      \* places in the channel (64 in the code)
  MaxTabs,       \* bound: tabs opened in one run
  MaxRequests    \* bound: permission requests in one run

VARIABLES
  phase,      \* of the application: open, closing, dropping, joining, joined
  call,       \* the call its thread is blocked in, or NoCall
  reply,      \* what the worker has sent back to it, or NoReply
  cmds,       \* the channel
  worker,     \* starting, running, gone
  opening,    \* the tab being built: WebKit may still refuse it
  views,      \* WpeRuntime's tabs and active_idx
  mirror,     \* EngineState's
  minted,     \* next_id - 1
  pending,    \* the requests WebKit waits for (pending_permissions)
  queued,     \* those the user has not answered (PermissionsQueue)
  answers     \* for each request made, how often WebKit was told

vars == <<phase, call, reply, cmds, worker, opening, views, mirror, minted, pending,
          queued, answers>>
appVars == <<phase, call>>
tabVars == <<opening, views, mirror, minted>>
requestVars == <<pending, queued, answers>>

NoCall == [op |-> "none", id |-> 0]
NoReply == [op |-> "none", id |-> 0]
NoOpening == [id |-> 0, background |-> FALSE, heard |-> FALSE]
Tab(id) == [id |-> id]

\* Command: `heard' says that the caller still waits.
Open(background) == [op |-> "open", background |-> background, heard |-> TRUE]
Close(id) == [op |-> "close", id |-> id, heard |-> TRUE]
CloseFront == [op |-> "closeActive", heard |-> TRUE]
Select(id) == [op |-> "select", id |-> id]
Move(from, to) == [op |-> "move", from |-> from, to |-> to]
Resolve(r) == [op |-> "resolve", id |-> r]
Other == [op |-> "other"]       \* navigation, input, scripts, zoom, find, resizing
ShutDown == [op |-> "shutdown"]

-----------------------------------------------------------------------------
Init ==
  /\ phase = "open" /\ call = NoCall /\ reply = NoReply
  /\ cmds = <<>> /\ worker = "starting"
  /\ opening = NoOpening /\ views = EmptyList /\ mirror = EmptyList /\ minted = 0
  /\ pending = {} /\ queued = {} /\ answers = <<>>

(* The application's thread.                                               *)

Fits(q) == Len(q) < QueueLen /\ worker # "gone"

\* try_send.
Sent(q, cmd) == IF Fits(q) THEN Append(q, cmd) ELSE q

Free == phase = "open" /\ call = NoCall

\* send, for a command nobody waits for.
SendOnly(cmd) ==
  /\ Free
  /\ cmds' = Sent(cmds, cmd)
  /\ UNCHANGED <<appVars, reply, worker, tabVars, requestVars>>

SelectTab == \E id \in Ids(mirror) : SendOnly(Select(id))

\* next_tab and prev_tab: the neighbour of the tab that the mirror has active.
CycleTab ==
  /\ mirror.active # 0
  /\ \E forward \in BOOLEAN : SendOnly(Select(Neighbour(mirror, forward)))

MoveTab == \E from, to \in Positions(mirror) : from # to /\ SendOnly(Move(from, to))

SendOther == SendOnly(Other)

\* open_tab_sync, close_tab, close_active: without a place in the channel the
\* reply's sender is gone with the command, and the call fails at once.
Call(cmd, id) ==
  /\ Free
  /\ Fits(cmds)
  /\ cmds' = Append(cmds, cmd)
  /\ call' = [op |-> cmd.op, id |-> id]
  /\ UNCHANGED <<phase, reply, worker, tabVars, requestVars>>

\* The tabs there have been, the initial one and those asked for included.
Asked == minted + Cardinality({i \in DOMAIN cmds : cmds[i].op = "open"})
                + IF worker = "starting" THEN 1 ELSE 0

OpenTab == Asked < MaxTabs /\ \E background \in BOOLEAN : Call(Open(background), 0)
CloseTab == \E id \in Ids(mirror) : Call(Close(id), id)
CloseActive == Call(CloseFront, 0)

\* The reply, or the news that no reply can come any more.
Return ==
  /\ call # NoCall
  /\ reply # NoReply \/ worker = "gone"
  /\ call' = NoCall /\ reply' = NoReply
  /\ UNCHANGED <<phase, cmds, worker, tabVars, requestVars>>

\* (mutant) The receiver outlives the call that timed out.
Unheard_kept(q) == q

\* Nobody listens to the commands in the channel any more.
Unheard(q) == [i \in DOMAIN q |-> IF "heard" \in DOMAIN q[i] THEN [q[i] EXCEPT !.heard = FALSE] ELSE q[i]]

\* recv_timeout: the call gives up, its command stays where it is.
TimeOut ==
  /\ call # NoCall /\ reply = NoReply
  /\ call' = NoCall
  /\ cmds' = Unheard(cmds)
  /\ opening' = [opening EXCEPT !.heard = FALSE]
  /\ UNCHANGED <<phase, reply, worker, views, mirror, minted, requestVars>>

\* resolve_permission for a request the user has answered.
ResolvePermission ==
  \E r \in queued :
    /\ queued' = queued \ {r}
    /\ Free
    /\ cmds' = Sent(cmds, Resolve(r))
    /\ UNCHANGED <<appVars, reply, worker, tabVars, pending, answers>>

\* After the event loop: close_all_browsers asks the worker to end.
CloseAllBrowsers ==
  /\ Free
  /\ phase' = "closing"
  /\ cmds' = Sent(cmds, ShutDown)
  /\ UNCHANGED <<call, reply, worker, tabVars, requestVars>>

\* The requests as they came (drain_queue).
InOrder(S) == {s \in SetToSeqs(S) : \A i, j \in DOMAIN s : i < j => s[i] < s[j]}

\* How many of n commands in a row find a place.
Room(n) ==
  LET free == IF worker = "gone" THEN 0 ELSE QueueLen - Len(cmds)
  IN  IF n < free THEN n ELSE free

\* Then every request that is queued is deferred, and the engine dropped: it
\* asks the worker again, and waits for its end (shutdown_and_join).
DeferRequests ==
  /\ phase = "closing"
  /\ phase' = "dropping"
  /\ queued' = {}
  /\ \E rest \in InOrder(queued) :
       cmds' = cmds \o [i \in 1..Room(Len(rest)) |-> Resolve(rest[i])]
  /\ UNCHANGED <<call, reply, worker, tabVars, pending, answers>>

Join ==
  /\ phase = "dropping"
  /\ phase' = "joining"
  /\ cmds' = Sent(cmds, ShutDown)
  /\ UNCHANGED <<call, reply, worker, tabVars, requestVars>>

Joined ==
  /\ phase = "joining" /\ worker = "gone"
  /\ phase' = "joined"
  /\ UNCHANGED <<call, reply, cmds, worker, tabVars, requestVars>>

(* The worker thread.                                                      *)

\* No display, no context, or no runtime: the thread ends before its loop.
StartFails ==
  /\ worker = "starting"
  /\ worker' = "gone" /\ cmds' = <<>>
  /\ UNCHANGED <<appVars, reply, tabVars, requestVars>>

\* The mirror's half of open_tab, before WebKit builds the view.
StartOpening(background, heard) ==
  /\ minted' = minted + 1
  /\ mirror' = Pushed(mirror, Tab(minted'), background)
  /\ opening' = [id |-> minted', background |-> background, heard |-> heard]
  /\ UNCHANGED <<views, requestVars>>

\* The loop runs, and opens the initial page from its first idle callback.
Start ==
  /\ worker = "starting"
  /\ worker' = "running"
  /\ StartOpening(FALSE, FALSE)
  /\ UNCHANGED <<appVars, reply, cmds>>

Idle == worker = "running" /\ opening = NoOpening

Answering(heard, op, id) == reply' = IF heard THEN [op |-> op, id |-> id] ELSE reply

\* TabEntry::new succeeds.
OpenSucceeds ==
  /\ opening # NoOpening
  /\ views' = Pushed(views, Tab(opening.id), opening.background)
  /\ opening' = NoOpening
  /\ Answering(opening.heard, "open", opening.id)
  /\ UNCHANGED <<appVars, cmds, worker, mirror, minted, requestVars>>

\* (mutant) The tab that failed keeps its place in the mirror.
RolledBack_active_only(m) == [m EXCEPT !.active = views.active]

\* The mirror without the tab that failed, and the tab before in front.
RolledBack(m) == [tabs |-> Front(m.tabs), active |-> views.active]

OpenFails ==
  /\ opening # NoOpening
  /\ mirror' = RolledBack(mirror)
  /\ opening' = NoOpening
  /\ Answering(opening.heard, "open", 0)
  /\ UNCHANGED <<appVars, cmds, worker, views, minted, requestVars>>

\* The command next in the channel, when it is of that kind.
IsNext(op) == Idle /\ cmds # <<>> /\ Head(cmds).op = op
Takes(op) == IsNext(op) /\ cmds' = Tail(cmds)

HandleOpen ==
  /\ Takes("open")
  /\ StartOpening(Head(cmds).background, Head(cmds).heard)
  /\ UNCHANGED <<appVars, reply, worker>>

\* close_tab and close_active; a tab that is gone already closes nothing.
Closing(id) ==
  /\ views' = IF id = 0 THEN views ELSE Without(views, id)
  /\ mirror' = IF id = 0 THEN mirror ELSE Without(mirror, id)
  /\ Answering(Head(cmds).heard, Head(cmds).op, id)
  /\ UNCHANGED <<appVars, worker, opening, minted, requestVars>>

HandleClose ==
  \/ /\ Takes("close")
     /\ Closing(IF Head(cmds).id \in Ids(views) THEN Head(cmds).id ELSE 0)
  \/ /\ Takes("closeActive")
     /\ Closing(IF views.active = 0 THEN 0 ELSE ActiveTab(views).id)

\* select_tab.
HandleSelect ==
  LET id == Head(cmds).id
      selects == id \in Ids(views) /\ ~IsActive(views, id)
  IN  /\ Takes("select")
      /\ views' = IF selects THEN Selected(views, id) ELSE views
      /\ mirror' = IF selects THEN [mirror EXCEPT !.active = views'.active] ELSE mirror
      /\ UNCHANGED <<appVars, reply, worker, opening, minted, requestVars>>

\* move_tab: the positions are those of the mirror when the command was sent.
HandleMove ==
  LET from == Head(cmds).from
      to == Head(cmds).to
      moves == {from, to} \subseteq Positions(views)
  IN  /\ Takes("move")
      /\ views' = IF moves THEN Moved(views, from, to) ELSE views
      /\ mirror' = IF moves THEN Moved(mirror, from, to) ELSE mirror
      /\ UNCHANGED <<appVars, reply, worker, opening, minted, requestVars>>

HandleOther ==
  /\ Takes("other")
  /\ UNCHANGED <<appVars, reply, worker, tabVars, requestVars>>

\* The map without the request that is answered now.
Unregistered(r) == pending \ {r}

\* resolve_permission: a request is taken out of the map as it is answered.
HandleResolve ==
  LET r == Head(cmds).id
  IN  /\ Takes("resolve")
      /\ pending' = Unregistered(r)
      /\ answers' = IF r \in pending THEN [answers EXCEPT ![r] = @ + 1] ELSE answers
      /\ UNCHANGED <<appVars, reply, worker, tabVars, queued>>

\* Drop for WpeRuntime: what still waits is denied.
Drained == [r \in DOMAIN answers |-> IF r \in pending THEN answers[r] + 1 ELSE answers[r]]

\* (mutant) Shutdown only stops the polling.
Stopped_not == "running"

Stopped == "gone"

\* Shutdown ends the loop; the rest of the channel goes with its receiver.
HandleShutdown ==
  /\ IsNext("shutdown")
  /\ worker' = Stopped /\ cmds' = <<>>
  /\ answers' = Drained
  /\ pending' = {}
  /\ UNCHANGED <<appVars, reply, tabVars, queued>>

\* on_permission_request.
RequestPermission ==
  /\ Idle /\ views.tabs # <<>>
  /\ Len(answers) < MaxRequests
  /\ LET r == Len(answers) + 1
     IN  pending' = pending \cup {r} /\ queued' = queued \cup {r} /\ answers' = Append(answers, 0)
  /\ UNCHANGED <<appVars, reply, cmds, worker, tabVars>>

AppNext ==
  \/ SelectTab \/ CycleTab \/ MoveTab \/ SendOther
  \/ OpenTab \/ CloseTab \/ CloseActive \/ Return \/ TimeOut
  \/ ResolvePermission
  \/ CloseAllBrowsers \/ DeferRequests \/ Join \/ Joined

WorkerNext ==
  \/ Start \/ StartFails \/ OpenSucceeds \/ OpenFails
  \/ HandleOpen \/ HandleClose \/ HandleSelect \/ HandleMove \/ HandleOther
  \/ HandleResolve \/ HandleShutdown

Next == AppNext \/ WorkerNext \/ RequestPermission

\* The worker's loop polls the channel every 10 ms; a thread that shuts down
\* goes on to the join.
Spec ==
  /\ Init /\ [][Next]_vars
  /\ WF_vars(WorkerNext)
  /\ WF_vars(DeferRequests \/ Join \/ Joined)

-----------------------------------------------------------------------------
(* Properties.                                                             *)

\* Between two commands the mirror is the worker's list; while a tab is being
\* built it is ahead by that tab alone, so that a failure can be undone
\* (open_tab, select_tab, close_tab, move_tab).
MirrorAgrees ==
  IF opening = NoOpening THEN mirror = views
  ELSE /\ Front(mirror.tabs) = views.tabs /\ Last(mirror.tabs).id = opening.id
       /\ mirror.active = IF opening.background THEN views.active ELSE Len(mirror.tabs)

\* A reply is the one the thread waits for, never the late one of a call that
\* timed out, and what it says can be seen in the mirror: an opened tab is
\* listed, a closed one is not (open_tab_sync, close_tab, handle_command).
ReplyIsTrue ==
  reply # NoReply =>
    /\ reply.op = call.op
    /\ reply.op = "close" => reply.id \in {0, call.id}
    /\ reply.id # 0 => (reply.id \in Ids(mirror) <=> reply.op = "open")

\* WebKit hears one answer to each permission request: at the latest when the
\* runtime goes, whatever became of the command that carried the user's
\* (resolve_permission, Drop for WpeRuntime).
AnsweredOnce ==
  \A r \in DOMAIN answers : answers[r] = IF r \in pending /\ worker # "gone" THEN 0 ELSE 1

\* A Shutdown that found a place in the channel ends the worker, whatever is
\* before it and whether or not WebKit builds its views.
Told == \E i \in DOMAIN cmds : cmds[i] = ShutDown
ToldWorkerEnds == []<>~Told /\ [][Told /\ ~Told' => worker' = "gone"]_vars

\* Whoever waits for the worker, a caller or a page, is told the truth, once.
RepliesAreTrue == ReplyIsTrue /\ AnsweredOnce
=============================================================================
