---------------------------- MODULE Permissions -----------------------------
(***************************************************************************)
(* Permission requests of pages, from the engine's callback to the user's  *)
(* key and back.                                                           *)
(*                                                                         *)
(* Every engine (a CEF BrowserHost) keeps two structures per profile: a    *)
(* registry of the callbacks the engine waits for, keyed by a resolve id,  *)
(* and a neutral queue of the same requests for the UI.  The application   *)
(* shows the front of the active engine's queue as a modal prompt,         *)
(* remembers which request that was, and matches the user's key against    *)
(* it: the engine may have withdrawn the request in the meantime.          *)
(*                                                                         *)
(* The engine runs with multi_threaded_message_loop 0 and is pumped by the *)
(* event loop, so its handlers and the application's handlers interleave   *)
(* as wholes.  The resolve id of a request is its position in `asked': the *)
(* ids come from one counter of the process.                               *)
(*                                                                         *)
(* A definition named X_mistake is X as a plausible bug would have it.     *)
(***************************************************************************)
EXTENDS Naturals, Sequences, FiniteSets

CONSTANTS
  Engines,        \* the engines of the process, each with queue and registry
  Origins,        \* what a page can be
  Capabilities,   \* what it can ask for
  MaxRequests     \* bound: requests made in one run

ASSUME PermissionsAssumption ==
  MaxRequests \in Nat /\ IsFiniteSet(Capabilities) /\ Engines # {}

NoPrompt == 0     \* permissions_prompt_id = None
Ids == 1 .. MaxRequests

Requests == [engine: Engines, media: BOOLEAN, origin: Origins,
             caps: SUBSET Capabilities]
Decisions == {"allow", "deny"}

\* PromptOutcome: what a key says, and whether it says "from now on".
Outcomes == [says: Decisions, remember: BOOLEAN] \cup [says: {"defer"}, remember: {FALSE}]

\* What a callback can hear: the four replies, and its own engine retiring it.
Replies == {"allow", "deny", "cancel", "dismiss", "retired"}

VARIABLES
  asked,      \* the requests made so far, by resolve id
  heard,      \* for each request, what its callback has heard
  registry,   \* CefCallbackRegistry of each engine: the ids it waits for
  queue,      \* PermissionsQueue of each engine
  store,      \* the sticky decisions of the profile
  active,     \* active_engine
  shown,      \* permissions_prompt_id
  confirm,    \* confirm_close_pinned is up: it wins the keys and the screen
  running     \* the event loop runs

vars == <<asked, heard, registry, queue, store, active, shown, confirm, running>>

engineVars == <<asked, heard, registry, queue, store>>
uiVars == <<active, shown, confirm>>

-----------------------------------------------------------------------------
(* The pieces the handlers share.                                          *)

Members(seq) == {seq[i] : i \in DOMAIN seq}

\* peek_front_entry: the request at the front, if any.
Front(q) == IF q = <<>> THEN NoPrompt ELSE Head(q)

\* precheck: what the stored decisions say of all the capabilities together.
Precheck(origin, caps) ==
  IF \E c \in caps : store[origin][c] = "ask" THEN "ask"
  ELSE IF \A c \in caps : store[origin][c] = "allow" THEN "allow" ELSE "deny"

\* The callback's answer for a decision: a media callback knows cancel only.
Reply(media, says) ==
  IF says = "allow" THEN "allow"
  ELSE IF media THEN "cancel"
  ELSE IF says = "deny" THEN "deny" ELSE "dismiss"

\* A prompt that is up is left alone.
Synced_sticky(q, prompt) == IF prompt # NoPrompt THEN prompt ELSE Front(q)

\* sync_permissions_prompt: a prompt stays while its request is the front,
\* otherwise the front takes its place.
Synced(q, prompt) == IF prompt # NoPrompt /\ prompt = Front(q) THEN prompt ELSE Front(q)

\* The answer is applied to whatever is in front.
AppliesTo_front(q, prompt) == q # <<>>

\* take_front_matching: the answer applies if the request on screen is in front.
AppliesTo(q, prompt) == prompt # NoPrompt /\ q # <<>> /\ Head(q) = prompt

\* What `remember' writes.  A write may fail, and the rest goes on: any part
\* of the request's capabilities may be written, by the application or after
\* it by the engine.
Remembered(request, outcome, written) ==
  IF outcome.remember
  THEN [store EXCEPT ![request.origin] =
          [c \in Capabilities |-> IF c \in written THEN outcome.says ELSE @[c]]]
  ELSE store

\* The withdrawn entry is dropped while still armed.
Disarmed_not(id) == heard[id] \o <<"retired", Reply(asked[id].media, "defer")>>

\* A request taken from the registry is told, unless it was disarmed.
Disarmed(id) == Append(heard[id], "retired")

\* All that the registries still hold is told `defer'.
Deferred ==
  [id \in DOMAIN heard |->
     IF \E e \in Engines : id \in registry[e]
     THEN Append(heard[id], Reply(asked[id].media, "defer"))
     ELSE heard[id]]

-----------------------------------------------------------------------------
Init ==
  /\ asked = <<>>
  /\ heard = <<>>
  /\ registry = [e \in Engines |-> {}]
  /\ queue = [e \in Engines |-> <<>>]
  /\ store = [o \in Origins |-> [c \in Capabilities |-> "ask"]]   \* a new profile
  /\ active \in Engines
  /\ shown = NoPrompt
  /\ confirm = FALSE
  /\ running = TRUE

(* The engine.                                                             *)

\* on_request_media_access_permission and on_show_permission_prompt, for a
\* request that is not queued: buffr knows none of its bits, or the store
\* already decides it.
AnsweredAtOnce(request) ==
  LET says == IF request.caps = {} THEN "defer" ELSE Precheck(request.origin, request.caps)
  IN /\ running
     /\ Len(asked) < MaxRequests
     /\ says # "ask"
     /\ asked' = Append(asked, request)
     /\ heard' = Append(heard, <<Reply(request.media, says)>>)
     /\ UNCHANGED <<registry, queue, store, uiVars, running>>

\* The same handlers, for a request the user has to decide, or one whose
\* stored decisions cannot be read; enqueue_to_both.
Enqueued(request) ==
  LET id == Len(asked) + 1
      e == request.engine
  IN /\ running
     /\ Len(asked) < MaxRequests
     /\ request.caps # {}
     /\ asked' = Append(asked, request)
     /\ heard' = Append(heard, <<>>)
     /\ registry' = [registry EXCEPT ![e] = @ \cup {id}]
     /\ queue' = [queue EXCEPT ![e] = Append(@, id)]
     /\ UNCHANGED <<store, uiVars, running>>

\* retain on the queue of the engine that withdrew a request.
Retained(q, id) == SelectSeq(q, LAMBDA i : i # id)

\* on_dismiss_permission_prompt: the engine withdraws a prompt of its own, for
\* instance because its tab navigated away.  Media requests have no prompt id.
Withdraw(id) ==
  LET e == asked[id].engine
  IN /\ running
     /\ ~asked[id].media
     /\ id \in registry[e]
     /\ registry' = [registry EXCEPT ![e] = @ \ {id}]
     /\ heard' = [heard EXCEPT ![id] = Disarmed(id)]
     /\ queue' = [queue EXCEPT ![e] = Retained(@, id)]
     /\ UNCHANGED <<asked, store, uiVars, running>>

(* The application.                                                        *)

\* about_to_wait brings the prompt in line with the active engine's queue.
Tick ==
  /\ running
  /\ shown' = Synced(queue[active], shown)
  /\ UNCHANGED <<engineVars, active, confirm, running>>

\* permissions_handle_key with a key that answers, and resolve_permission on
\* the request on screen: the decision is stored, the callback told, and the
\* next request shown.
Answer(outcome) ==
  LET e == active
      id == Head(queue[e])
      q == Tail(queue[e])
  IN /\ running /\ ~confirm
     /\ shown # NoPrompt
     /\ AppliesTo(queue[e], shown)
     /\ queue' = [queue EXCEPT ![e] = q]
     /\ registry' = [registry EXCEPT ![e] = @ \ {id}]
     /\ heard' = IF id \in registry[e]
                   THEN [heard EXCEPT ![id] = Append(@, Reply(asked[id].media, outcome.says))]
                   ELSE heard
     /\ \E written \in SUBSET asked[id].caps :
           store' = Remembered(asked[id], outcome, written)
     /\ shown' = Synced(q, NoPrompt)
     /\ UNCHANGED <<asked, active, confirm, running>>

\* The same key when the request on screen is no longer in front: the answer
\* is discarded and the front is shown instead.
AnswerStale ==
  /\ running /\ ~confirm
  /\ shown # NoPrompt
  /\ ~AppliesTo(queue[active], shown)
  /\ shown' = Synced(queue[active], NoPrompt)
  /\ UNCHANGED <<engineVars, active, confirm, running>>

\* Another engine becomes the active one; the prompt waits for the next tick.
SwitchEngine(e) ==
  /\ running
  /\ e # active
  /\ active' = e
  /\ UNCHANGED <<engineVars, shown, confirm, running>>

\* The pinned-close banner comes up by a click, and goes by any answer to it.
ToggleConfirm ==
  /\ running
  /\ confirm' = ~confirm
  /\ UNCHANGED <<engineVars, active, shown, running>>

\* The shutdown sequence after the event loop: close_all_browsers drains every
\* registry with `defer', then the queues are drained, whose requests are in
\* no registry any more.
Shutdown ==
  /\ running
  /\ running' = FALSE
  /\ heard' = Deferred
  /\ registry' = [e \in Engines |-> {}]
  /\ queue' = [e \in Engines |-> <<>>]
  /\ UNCHANGED <<asked, store, uiVars>>

Next ==
  \/ \E request \in Requests : AnsweredAtOnce(request)
  \/ \E request \in Requests : Enqueued(request)
  \/ \E id \in DOMAIN asked : Withdraw(id)
  \/ Tick
  \/ \E outcome \in Outcomes : Answer(outcome)
  \/ AnswerStale
  \/ \E e \in Engines : SwitchEngine(e)
  \/ ToggleConfirm
  \/ Shutdown

\* The event loop runs about_to_wait between any two batches of events.
Spec == Init /\ [][Next]_vars /\ WF_vars(Tick)

-----------------------------------------------------------------------------
(* Properties.                                                             *)

\* A callback hears one answer: none after the first, none after the engine
\* has retired it, and one at the latest when the browsers are closed
\* (resolve, disarm, Drop for PendingPermission, close_all_browsers).
HeardOnce ==
  \A id \in DOMAIN heard : Len(heard[id]) \in IF running THEN {0, 1} ELSE {1}

\* While the event loop runs, a queued request is answered only as the one on
\* screen; a withdrawn one moves no answer to its successor
\* (resolve_permission, PromptIdentity).
AnswersTheShown ==
  [][ \A id \in DOMAIN heard :
        heard'[id] # heard[id] /\ running' => id = shown \/ heard'[id] = <<"retired">> ]_vars

\* The prompt always catches up with the active engine's queue: a request that
\* was withdrawn, or belongs to another engine, leaves the screen although
\* nobody answers it, and the next one comes up (sync_permissions_prompt).
PromptCatchesUp == []<>(running => shown = Front(queue[active]))
=============================================================================
