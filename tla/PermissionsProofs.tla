------------------------- MODULE PermissionsProofs --------------------------
(***************************************************************************)
(* Theorems about Permissions.tla, for any set of engines, origins and     *)
(* capabilities and any number of requests.                                *)
(*                                                                         *)
(* They rest on the registries alone.  The queues say which request the    *)
(* user answers, but the answer reaches a callback only if the callback is *)
(* still in a registry, whatever the queue holds.                          *)
(*                                                                         *)
(* Then about the pointer and the popup windows, which run beside them in  *)
(* MCWindows.tla, and about the downloads and the build tool as            *)
(* MCStores.tla runs them, for any files, runs, failures, versions and     *)
(* profiles.                                                               *)
(***************************************************************************)
EXTENDS MCWindows, Integers, WellFoundedInduction, TLAPS

\* The part of the types the proofs need.
Typed ==
  /\ asked \in Seq(Requests)
  /\ heard \in Seq(Seq(Replies))
  /\ Len(heard) = Len(asked)
  /\ registry \in [Engines -> SUBSET Nat]
  /\ active \in Engines
  /\ running \in BOOLEAN

\* A registry holds requests of its own engine only.
Owned == \A e \in Engines : \A id \in registry[e] : id \in DOMAIN asked /\ asked[id].engine = e

\* While the event loop runs, a callback is in its registry exactly as long as
\* it has heard nothing; afterwards the registries are empty.
Armed ==
  /\ running => \A id \in DOMAIN heard :
                   heard[id] = <<>> <=> id \in registry[asked[id].engine]
  /\ ~running => \A e \in Engines : registry[e] = {}

IInv == Typed /\ Owned /\ Armed /\ HeardOnce

-----------------------------------------------------------------------------
\* What a decision becomes is a reply.
LEMMA ReplyIsReply ==
  ASSUME NEW media \in BOOLEAN, NEW says \in {"allow", "deny", "defer"}
  PROVE  Reply(media, says) \in Replies
  BY DEF Reply, Replies

\* precheck answers ask, allow or deny, whatever is stored.
LEMMA PrecheckDecides ==
  ASSUME NEW origin, NEW caps
  PROVE  Precheck(origin, caps) \in {"ask", "allow", "deny"}
  BY DEF Precheck

\* Appending to a sequence adds one element at its end and keeps the others.
LEMMA Appended ==
  ASSUME NEW S, NEW s \in Seq(S), NEW x \in S
  PROVE  /\ Append(s, x) \in Seq(S)
         /\ Len(Append(s, x)) = Len(s) + 1
         /\ DOMAIN Append(s, x) = DOMAIN s \cup {Len(s) + 1}
         /\ \A i \in DOMAIN s : Append(s, x)[i] = s[i]
         /\ Append(s, x)[Len(s) + 1] = x
  OBVIOUS

\* A callback that has heard nothing hears a first answer.
LEMMA First ==
  ASSUME NEW x \in Replies
  PROVE  /\ Append(<<>>, x) = <<x>>
         /\ <<x>> \in Seq(Replies)
         /\ Len(<<x>>) = 1
         /\ <<x>> # <<>>
  OBVIOUS

\* Telling one callback leaves the shape of `heard' and the other callbacks.
LEMMA Told ==
  ASSUME Typed, NEW id \in DOMAIN heard, NEW r \in Seq(Replies),
         heard' = [heard EXCEPT ![id] = r]
  PROVE  /\ heard' \in Seq(Seq(Replies))
         /\ Len(heard') = Len(heard)
         /\ DOMAIN heard' = DOMAIN heard
         /\ heard'[id] = r
         /\ \A i \in DOMAIN heard \ {id} : heard'[i] = heard[i]
  BY DEF Typed

\* Every request has an engine and a kind.
LEMMA AskedTyped ==
  ASSUME Typed, NEW i \in DOMAIN heard
  PROVE  /\ i \in DOMAIN asked
         /\ asked[i].engine \in Engines
         /\ asked[i].media \in BOOLEAN
<1>1. i \in DOMAIN asked /\ asked[i] \in Requests
  BY DEF Typed
<1>2. QED
  BY <1>1 DEF Requests

-----------------------------------------------------------------------------
(* The invariant.                                                          *)

\* A request that is answered at once has heard one reply and is registered
\* nowhere.
LEMMA AnsweredAtOnceKeeps ==
  ASSUME IInv, NEW request \in Requests, AnsweredAtOnce(request)
  PROVE  IInv'
<1> DEFINE says == IF request.caps = {} THEN "defer" ELSE Precheck(request.origin, request.caps)
           x == Reply(request.media, says)
<1>1. /\ running /\ running' = running /\ active' = active /\ registry' = registry
      /\ says # "ask"
      /\ asked' = Append(asked, request) /\ heard' = Append(heard, <<x>>)
  BY DEF AnsweredAtOnce, uiVars
<1>2. x \in Replies
  BY <1>1, PrecheckDecides, ReplyIsReply DEF Requests
<1> HIDE DEF says, x
<1>3. <<x>> \in Seq(Replies) /\ Len(<<x>>) = 1 /\ <<x>> # <<>>
  BY <1>2, First
<1>4. Typed'
  BY <1>1, <1>3 DEF IInv, Typed
<1>5. /\ DOMAIN asked' = DOMAIN asked \cup {Len(asked) + 1}
      /\ DOMAIN heard' = DOMAIN heard \cup {Len(heard) + 1}
      /\ \A i \in DOMAIN asked : asked'[i] = asked[i]
      /\ \A i \in DOMAIN heard : heard'[i] = heard[i]
      /\ heard'[Len(heard) + 1] = <<x>>
      /\ DOMAIN asked = DOMAIN heard /\ Len(asked) + 1 \notin DOMAIN asked
  BY <1>1, <1>3 DEF IInv, Typed
<1>6. asked'[Len(asked) + 1] = request /\ request.engine \in Engines
  BY <1>1 DEF IInv, Typed, Requests
<1>7. Owned'
  BY <1>1, <1>5 DEF IInv, Owned
<1>8. Armed'
  <2>1. \A i \in DOMAIN heard' : heard'[i] = <<>> <=> i \in registry'[asked'[i].engine]
    <3> SUFFICES ASSUME NEW i \in DOMAIN heard'
                 PROVE  heard'[i] = <<>> <=> i \in registry'[asked'[i].engine]
      OBVIOUS
    <3>1. CASE i = Len(heard) + 1
      <4>1. heard'[i] # <<>> /\ asked'[i] = request /\ i \notin DOMAIN asked
        BY <3>1, <1>3, <1>5, <1>6 DEF IInv, Typed
      <4>2. i \notin registry[request.engine]
        BY <4>1, <1>6 DEF IInv, Owned
      <4>3. QED
        BY <4>1, <4>2, <1>1
    <3>2. CASE i \in DOMAIN heard
      <4>1. heard'[i] = heard[i] /\ asked'[i] = asked[i]
        BY <3>2, <1>5
      <4>2. QED
        BY <4>1, <3>2, <1>1 DEF IInv, Armed
    <3>3. QED
      BY <3>1, <3>2, <1>5
  <2>2. QED
    BY <2>1, <1>1 DEF Armed
<1>9. HeardOnce'
  BY <1>1, <1>3, <1>5 DEF IInv, HeardOnce
<1>10. QED
  BY <1>4, <1>7, <1>8, <1>9 DEF IInv

\* A request that is queued has heard nothing and is in its engine's registry.
LEMMA EnqueuedKeeps ==
  ASSUME IInv, NEW request \in Requests, Enqueued(request)
  PROVE  IInv'
<1> DEFINE id == Len(asked) + 1
           e == request.engine
<1>1. /\ running /\ running' = running /\ active' = active
      /\ registry' = [registry EXCEPT ![e] = @ \cup {id}]
      /\ asked' = Append(asked, request) /\ heard' = Append(heard, <<>>)
  BY DEF Enqueued, uiVars
<1>2. e \in Engines /\ id \in Nat
  BY DEF IInv, Typed, Requests
<1>3. <<>> \in Seq(Replies) /\ Len(<<>>) = 0
  OBVIOUS
<1>4. /\ DOMAIN asked' = DOMAIN asked \cup {id}
      /\ DOMAIN heard' = DOMAIN heard \cup {id}
      /\ \A i \in DOMAIN asked : asked'[i] = asked[i]
      /\ \A i \in DOMAIN heard : heard'[i] = heard[i]
      /\ heard'[id] = <<>> /\ asked'[id] = request
      /\ DOMAIN asked = DOMAIN heard /\ id \notin DOMAIN asked
  BY <1>1, <1>3 DEF IInv, Typed
<1>5. /\ registry'[e] = registry[e] \cup {id}
      /\ \A f \in Engines \ {e} : registry'[f] = registry[f]
  BY <1>1, <1>2 DEF IInv, Typed
<1> HIDE DEF id, e
<1>6. Typed'
  BY <1>1, <1>2, <1>3, <1>5 DEF IInv, Typed
<1>7. Owned'
  BY <1>2, <1>4, <1>5 DEF IInv, Owned, e
<1>8. \A i \in DOMAIN heard : asked[i].engine \in Engines
  BY AskedTyped DEF IInv
<1>9. Armed'
  <2>1. \A i \in DOMAIN heard' : heard'[i] = <<>> <=> i \in registry'[asked'[i].engine]
    <3> SUFFICES ASSUME NEW i \in DOMAIN heard'
                 PROVE  heard'[i] = <<>> <=> i \in registry'[asked'[i].engine]
      OBVIOUS
    <3>1. CASE i = id
      BY <3>1, <1>4, <1>5 DEF e
    <3>2. CASE i \in DOMAIN heard
      <4>1. heard'[i] = heard[i] /\ asked'[i] = asked[i] /\ i # id
        BY <3>2, <1>4
      <4>2. i \in registry'[asked[i].engine] <=> i \in registry[asked[i].engine]
        BY <4>1, <3>2, <1>5, <1>8
      <4>3. QED
        BY <4>1, <4>2, <3>2, <1>1 DEF IInv, Armed
    <3>3. QED
      BY <3>1, <3>2, <1>4
  <2>2. QED
    BY <2>1, <1>1 DEF Armed
<1>10. HeardOnce'
  BY <1>1, <1>3, <1>4 DEF IInv, HeardOnce
<1>11. QED
  BY <1>6, <1>7, <1>9, <1>10 DEF IInv

\* A registered callback of engine e hears its one reply and leaves the
\* registry: what withdrawing and answering have in common.
LEMMA RepliedKeeps ==
  ASSUME IInv, running, NEW e \in Engines, NEW id \in registry[e], NEW x \in Replies,
         heard' = [heard EXCEPT ![id] = Append(@, x)],
         registry' = [registry EXCEPT ![e] = @ \ {id}],
         asked' = asked, active' \in Engines, running' = running
  PROVE  IInv'
<1>1. id \in DOMAIN heard /\ asked[id].engine = e /\ DOMAIN asked = DOMAIN heard
  BY DEF IInv, Owned, Typed
<1>2. heard[id] = <<>>
  BY <1>1 DEF IInv, Armed
<1>3. <<x>> \in Seq(Replies) /\ Len(<<x>>) = 1 /\ <<x>> # <<>> /\ heard' = [heard EXCEPT ![id] = <<x>>]
  BY <1>1, <1>2, First
<1>4. /\ heard' \in Seq(Seq(Replies)) /\ Len(heard') = Len(heard)
      /\ DOMAIN heard' = DOMAIN heard /\ heard'[id] = <<x>>
      /\ \A i \in DOMAIN heard \ {id} : heard'[i] = heard[i]
  BY <1>1, <1>3, Told DEF IInv
<1>5. /\ registry'[e] = registry[e] \ {id}
      /\ \A f \in Engines \ {e} : registry'[f] = registry[f]
  BY DEF IInv, Typed
<1>6. Typed'
  BY <1>4, <1>5 DEF IInv, Typed
<1>7. Owned'
  BY <1>5 DEF IInv, Owned
<1>8. \A i \in DOMAIN heard : asked[i].engine \in Engines
  BY AskedTyped DEF IInv
<1>9. Armed'
  <2>1. \A i \in DOMAIN heard : heard'[i] = <<>> <=> i \in registry'[asked[i].engine]
    BY <1>1, <1>3, <1>4, <1>5, <1>8 DEF IInv, Armed
  <2>2. QED
    BY <2>1, <1>4 DEF Armed
<1>10. HeardOnce'
  BY <1>3, <1>4 DEF IInv, HeardOnce
<1>11. QED
  BY <1>6, <1>7, <1>9, <1>10 DEF IInv

\* Closing the browsers tells every callback that has heard nothing.
LEMMA ShutdownKeeps ==
  ASSUME IInv, Shutdown
  PROVE  IInv'
<1>1. /\ running /\ ~running' /\ running' \in BOOLEAN /\ heard' = Deferred
      /\ registry' = [e \in Engines |-> {}] /\ asked' = asked /\ active' = active
  BY DEF Shutdown, uiVars
<1>2. DOMAIN heard' = DOMAIN heard /\ DOMAIN heard = 1 .. Len(heard) /\ Len(heard) \in Nat
  BY <1>1 DEF Deferred, IInv, Typed
<1>3. \A i \in DOMAIN heard : heard'[i] \in Seq(Replies) /\ Len(heard'[i]) = 1
  <2> SUFFICES ASSUME NEW i \in DOMAIN heard
               PROVE  heard'[i] \in Seq(Replies) /\ Len(heard'[i]) = 1
    OBVIOUS
  <2> DEFINE x == Reply(asked[i].media, "defer")
  <2>1. asked[i].engine \in Engines /\ x \in Replies /\ heard[i] \in Seq(Replies)
    BY AskedTyped, ReplyIsReply DEF IInv, Typed
  <2>2. heard'[i] = IF \E e \in Engines : i \in registry[e] THEN Append(heard[i], x) ELSE heard[i]
    BY <1>1 DEF Deferred
  <2> HIDE DEF x
  <2>3. CASE \E e \in Engines : i \in registry[e]
    <3>1. heard[i] = <<>>
      BY <2>3, <1>1 DEF IInv, Armed, Owned
    <3>2. QED
      BY <3>1, <2>1, <2>2, <2>3, First
  <2>4. CASE ~ \E e \in Engines : i \in registry[e]
    <3>1. heard[i] # <<>>
      BY <2>4, <2>1, <1>1 DEF IInv, Armed
    <3>2. Len(heard[i]) = 1
      BY <3>1, <2>1, <1>1 DEF IInv, HeardOnce
    <3>3. QED
      BY <3>2, <2>1, <2>2, <2>4
  <2>5. QED
    BY <2>3, <2>4
<1>4. heard' \in Seq(Seq(Replies)) /\ Len(heard') = Len(heard)
  <2>1. heard' = [i \in 1 .. Len(heard) |-> heard'[i]]
    BY <1>1, <1>2 DEF Deferred
  <2>2. \A i \in 1 .. Len(heard) : heard'[i] \in Seq(Replies)
    BY <1>2, <1>3
  <2>3. QED
    BY <2>1, <2>2, <1>2
<1>5. Typed' /\ Owned' /\ Armed'
  BY <1>1, <1>4 DEF IInv, Typed, Owned, Armed
<1>6. HeardOnce'
  BY <1>1, <1>2, <1>3 DEF HeardOnce
<1>7. QED
  BY <1>5, <1>6 DEF IInv

\* What happens on screen touches no callback.
LEMMA ScreenKeeps ==
  ASSUME IInv, Tick \/ AnswerStale \/ ToggleConfirm \/ (\E e \in Engines : SwitchEngine(e))
               \/ UNCHANGED vars
  PROVE  IInv' /\ heard' = heard
<1>1. UNCHANGED <<asked, heard, registry, running>> /\ active' \in Engines
  BY DEF IInv, Typed, Tick, AnswerStale, ToggleConfirm, SwitchEngine, engineVars, vars
<1>2. QED
  BY <1>1 DEF IInv, Typed, Owned, Armed, HeardOnce

\* A withdrawn request is retired unanswered.
LEMMA WithdrawKeeps ==
  ASSUME IInv, NEW id \in DOMAIN asked, Withdraw(id)
  PROVE  IInv' /\ heard' = [heard EXCEPT ![id] = <<"retired">>]
<1> DEFINE e == asked[id].engine
<1>1. /\ running /\ running' = running /\ active' = active /\ asked' = asked
      /\ id \in registry[e]
      /\ registry' = [registry EXCEPT ![e] = @ \ {id}]
      /\ heard' = [heard EXCEPT ![id] = Append(heard[id], "retired")]
  BY DEF Withdraw, Disarmed, uiVars
<1>2. id \in DOMAIN heard /\ "retired" \in Replies
  BY DEF IInv, Typed, Replies
<1>3. e \in Engines
  BY <1>2, AskedTyped DEF IInv
<1>4. heard[id] = <<>>
  BY <1>1, <1>2 DEF IInv, Armed
<1>5. active' \in Engines
  BY <1>1 DEF IInv, Typed
<1> HIDE DEF e
<1>6. IInv'
  BY <1>1, <1>2, <1>3, <1>5, RepliedKeeps
<1>7. Append(<<>>, "retired") = <<"retired">>
  BY <1>2, First
<1>8. QED
  BY <1>1, <1>4, <1>6, <1>7

\* An answer reaches the callback of the request on screen, or none.
LEMMA AnswerKeeps ==
  ASSUME IInv, NEW outcome \in Outcomes, Answer(outcome)
  PROVE  IInv' /\ \A i \in DOMAIN heard : heard'[i] # heard[i] => i = shown
<1> DEFINE e == active
           id == Head(queue[e])
           x == Reply(asked[id].media, outcome.says)
<1>1. /\ running /\ running' = running /\ active' = active /\ asked' = asked
      /\ id = shown
      /\ registry' = [registry EXCEPT ![e] = @ \ {id}]
      /\ heard' = IF id \in registry[e] THEN [heard EXCEPT ![id] = Append(@, x)] ELSE heard
  BY DEF Answer, AppliesTo
<1>2. e \in Engines /\ active' \in Engines
  BY <1>1 DEF IInv, Typed
<1>3. outcome.says \in {"allow", "deny", "defer"}
  BY DEF Outcomes, Decisions
<1> HIDE DEF e, id
<1>4. CASE id \in registry[e]
  <2>1. id \in DOMAIN heard
    BY <1>2, <1>4 DEF IInv, Owned, Typed
  <2>2. x \in Replies
    BY <2>1, <1>3, AskedTyped, ReplyIsReply DEF IInv
  <2> HIDE DEF x
  <2>3. IInv'
    BY <1>1, <1>2, <1>4, <2>2, RepliedKeeps
  <2>4. \A i \in DOMAIN heard \ {id} : heard'[i] = heard[i]
    BY <1>1, <1>4
  <2>5. QED
    BY <1>1, <2>3, <2>4
<1>5. CASE id \notin registry[e]
  <2>1. heard' = heard /\ registry' = registry
    BY <1>1, <1>2, <1>5 DEF IInv, Typed
  <2>2. IInv'
    <3>1. Typed' /\ Owned'
      BY <2>1, <1>1, <1>2 DEF IInv, Typed, Owned
    <3>2. Armed' /\ HeardOnce'
      BY <2>1, <1>1 DEF IInv, Armed, HeardOnce
    <3>3. QED
      BY <3>1, <3>2 DEF IInv
  <2>3. QED
    BY <2>1, <2>2
<1>6. QED
  BY <1>4, <1>5

-----------------------------------------------------------------------------
(* The theorems.                                                           *)

\* The invariant holds in every state the handlers can reach.
THEOREM IInvHolds == Spec => []IInv
<1>1. Init => IInv
  <2> SUFFICES ASSUME Init PROVE IInv
    OBVIOUS
  <2>1. DOMAIN heard = {} /\ DOMAIN asked = {} /\ asked = <<>> /\ heard = <<>>
    BY DEF Init
  <2>2. Typed
    BY DEF Init, Typed
  <2>3. QED
    BY <2>1, <2>2 DEF Init, IInv, Owned, Armed, HeardOnce
<1>2. IInv /\ [Next]_vars => IInv'
  <2> SUFFICES ASSUME IInv, [Next]_vars PROVE IInv'
    OBVIOUS
  <2>1. CASE \E request \in Requests : AnsweredAtOnce(request)
    BY <2>1, AnsweredAtOnceKeeps
  <2>2. CASE \E request \in Requests : Enqueued(request)
    BY <2>2, EnqueuedKeeps
  <2>3. CASE \E id \in DOMAIN asked : Withdraw(id)
    BY <2>3, WithdrawKeeps
  <2>4. CASE \E outcome \in Outcomes : Answer(outcome)
    BY <2>4, AnswerKeeps
  <2>5. CASE Shutdown
    BY <2>5, ShutdownKeeps
  <2>6. CASE Tick \/ AnswerStale \/ ToggleConfirm \/ (\E e \in Engines : SwitchEngine(e))
             \/ UNCHANGED vars
    BY <2>6, ScreenKeeps
  <2>7. QED
    BY <2>1, <2>2, <2>3, <2>4, <2>5, <2>6 DEF Next
<1>3. QED
  BY <1>1, <1>2, PTL DEF Spec

\* A callback never hears two answers, nor one after the engine retired it, and
\* every callback has heard one when the browsers are closed.
THEOREM OneAnswer == Spec => []HeardOnce
<1>1. IInv => HeardOnce
  BY DEF IInv
<1>2. QED
  BY <1>1, IInvHolds, PTL

\* While the event loop runs, a queued request is answered only as the one on
\* screen, or retired by its engine.
THEOREM AnswerGoesToShown == Spec => AnswersTheShown
<1> DEFINE Right == \A id \in DOMAIN heard :
                       heard'[id] # heard[id] /\ running' => id = shown \/ heard'[id] = <<"retired">>
<1>1. IInv /\ [Next]_vars => [Right]_vars
  <2> SUFFICES ASSUME IInv, Next PROVE Right
    OBVIOUS
  <2>1. CASE \E request \in Requests : AnsweredAtOnce(request) \/ Enqueued(request)
    <3>1. PICK h \in Seq(Replies) : heard' = Append(heard, h)
      <4>1. CASE \E request \in Requests : Enqueued(request)
        <5>1. heard' = Append(heard, <<>>) /\ <<>> \in Seq(Replies)
          BY <4>1 DEF Enqueued
        <5>2. QED
          BY <5>1
      <4>2. CASE \E request \in Requests : AnsweredAtOnce(request)
        <5>1. PICK request \in Requests : AnsweredAtOnce(request)
          BY <4>2
        <5> DEFINE says == IF request.caps = {} THEN "defer" ELSE Precheck(request.origin, request.caps)
                   x == Reply(request.media, says)
        <5>2. heard' = Append(heard, <<x>>) /\ says # "ask"
          BY <5>1 DEF AnsweredAtOnce
        <5>3. x \in Replies
          BY <5>2, PrecheckDecides, ReplyIsReply DEF Requests
        <5> HIDE DEF x
        <5>4. <<x>> \in Seq(Replies)
          BY <5>3, First
        <5>5. QED
          BY <5>2, <5>4
      <4>3. QED
        BY <2>1, <4>1, <4>2
    <3>2. \A i \in DOMAIN heard : heard'[i] = heard[i]
      BY <3>1 DEF IInv, Typed
    <3>3. QED
      BY <3>2
  <2>2. CASE \E id \in DOMAIN asked : Withdraw(id)
    BY <2>2, WithdrawKeeps DEF IInv, Typed
  <2>3. CASE \E outcome \in Outcomes : Answer(outcome)
    BY <2>3, AnswerKeeps
  <2>4. CASE Shutdown
    BY <2>4 DEF Shutdown
  <2>5. CASE Tick \/ AnswerStale \/ ToggleConfirm \/ (\E e \in Engines : SwitchEngine(e))
    BY <2>5, ScreenKeeps
  <2>6. QED
    BY <2>1, <2>2, <2>3, <2>4, <2>5 DEF Next
<1>2. QED
  BY <1>1, IInvHolds, PTL DEF Spec, AnswersTheShown

-----------------------------------------------------------------------------
(***************************************************************************)
(* The pointer (Pointer.tla, the instance Points of MCWindows.tla).        *)
(***************************************************************************)
\* A page is told of no button but the one that is held on it, and of none when
\* none is or when the button that is held drags a tab.
HeldInv ==
  /\ over.surface \in Points!Surfaces
  /\ bits \in [Points!Surfaces -> SUBSET Points!Buttons]
  /\ held.button = None => held.surface = None
  /\ dragSrc => held.surface = "main" /\ held.button = "left" /\ bits["main"] = {}
  /\ dragSrc \in BOOLEAN
  /\ \A s \in Points!Surfaces : bits[s] \subseteq (IF held.surface = s THEN {held.button} ELSE {})

\* The detector has added up what its surface scrolled, and has committed exactly
\* if the gesture has navigated.
SwipeInv ==
  /\ swipe.x \in Int /\ swipe.y \in Int /\ swipe.committed \in BOOLEAN
  /\ swipe.x = travel.x
  /\ \/ ~swipe.committed /\ travel.navigated = 0 /\ travel.paid = 0
     \/ swipe.committed /\ travel.navigated = 1 /\ travel.paid \in Int /\ travel.paid >= Threshold

\* The page knows of no button but the held one, and none while a tab is dragged.
LEMMA HeldInvHolds == Points!Spec => []HeldInv
<1>1. Points!Init => HeldInv
  <2> SUFFICES ASSUME Points!Init PROVE HeldInv
    OBVIOUS
  <2>1. over.surface \in Points!Surfaces /\ held.surface = None
    BY DEF Points!Init, Points!Surfaces, Points!Main
  <2>2. bits = [s \in Points!Surfaces |-> {}]
    BY DEF Points!Init
  <2>3. dragSrc = FALSE
    BY DEF Points!Init
  <2>4. dragSrc \in BOOLEAN /\ ~dragSrc
    BY <2>3, Zenon
  <2> HIDE DEF Points!Init
  <2>5. QED
    BY <2>1, <2>2, <2>4 DEF HeldInv
<1>2. HeldInv /\ [Points!Next]_(Points!vars) => HeldInv'
  <2> SUFFICES ASSUME HeldInv, [Points!Next]_(Points!vars) PROVE HeldInv'
    OBVIOUS
  <2>0. None \notin Points!Surfaces /\ None \notin Points!Buttons
    BY PointerAssumption DEF Points!Surfaces, Points!Main, Points!Buttons
  <2> USE DEF HeldInv, Points!scrollVars
  <2>1. CASE Points!Moved
    <3>1. over'.surface \in Points!Surfaces /\ UNCHANGED <<bits, held, dragSrc>>
      BY <2>1 DEF Points!Moved
    <3>2. QED
      BY <3>1
  <2>2. CASE UNCHANGED <<over, held, bits, dragSrc>>
    BY <2>2
  <2>3. CASE Points!OpenModal \/ Points!ClickAges \/ Points!ScrollByFinger \/ Points!ScrollByWheel
             \/ Points!TickMomentum \/ UNCHANGED Points!vars
    BY <2>2, <2>3 DEF Points!OpenModal, Points!ClickAges, Points!ScrollByFinger, Points!ScrollByWheel,
                      Points!TickMomentum, Points!vars
  <2>4. CASE Points!ReleaseTab
    <3>1. UNCHANGED <<over, bits>> /\ dragSrc' = FALSE
      BY <2>4 DEF Points!ReleaseTab
    <3>2. held' = [surface |-> None, button |-> None] /\ held.surface = "main" /\ bits["main"] = {}
      BY <2>4 DEF Points!ReleaseTab, Points!DropsTab, Points!Main
    <3>3. \A s \in Points!Surfaces : bits[s] = {}
      BY <3>2
    <3>4. QED
      BY <3>1, <3>2, <3>3
  <2>5. CASE Points!Release
    <3>1. /\ over' = over /\ held' = [surface |-> None, button |-> None]
          /\ bits' = [bits EXCEPT ![held.surface] = @ \ {held.button}]
      BY <2>5 DEF Points!Release, Points!Heard
    <3>2. dragSrc' = (dragSrc /\ ~(held.surface = "main" /\ held.button = "left"))
      BY <2>5, Zenon DEF Points!Release, Points!Main
    <3>3. dragSrc' = FALSE
      BY <3>2, Zenon
    <3>4. \A s \in Points!Surfaces : bits'[s] = {}
      BY <3>1
    <3>5. bits' \in [Points!Surfaces -> SUBSET Points!Buttons]
      BY <3>1, <3>4
    <3>6. QED
      BY <2>0, <3>1, <3>4, <3>5, <3>3
  <2>6. ASSUME NEW b \in Points!Buttons, Points!Press(b),
               bits' = bits \/ (bits' = [bits EXCEPT ![over.surface] = @ \cup {b}] /\ ~dragSrc'),
               dragSrc' \in BOOLEAN, dragSrc' => over.surface = "main" /\ b = "left"
        PROVE  HeldInv'
    <3>1. /\ over' = over /\ held' = [surface |-> over.surface, button |-> b]
          /\ held.button = None
      BY <2>6 DEF Points!Press
    <3>2. \A s \in Points!Surfaces : bits[s] = {}
      BY <2>0, <3>1
    <3>3. \A s \in Points!Surfaces : bits'[s] \subseteq (IF over.surface = s THEN {b} ELSE {})
      BY <2>6, <3>2
    <3>4. bits' \in [Points!Surfaces -> SUBSET Points!Buttons]
      BY <2>6
    <3>5. held'.button # None /\ held'.surface = over.surface /\ held'.button = b
      BY <2>0, <3>1
    <3>6. dragSrc' => bits'["main"] = {}
      BY <2>6, <3>2 DEF Points!Surfaces, Points!Main
    <3>7. QED
      BY <2>6, <3>1, <3>3, <3>4, <3>5, <3>6
  <2>7. ASSUME NEW b \in Points!Buttons,
               \/ Points!PressInPopup(b) \/ Points!PressInDialog(b) \/ Points!PressInMenu(b)
               \/ Points!PressInStrip(b) \/ Points!PressInPage(b)
        PROVE  HeldInv'
    <3>1. Points!Press(b)
      BY <2>7 DEF Points!PressInPopup, Points!PressInDialog, Points!PressInMenu, Points!PressInStrip,
                  Points!PressInPage
    <3>2. ~dragSrc
      BY <2>0, <3>1 DEF Points!Press
    <3>3. CASE Points!PressInPopup(b) \/ Points!PressInPage(b)
      <4>1. bits' = [bits EXCEPT ![over.surface] = @ \cup {b}] /\ dragSrc' = dragSrc
        BY <3>3 DEF Points!PressInPopup, Points!PressInPage, Points!ToPage
      <4>2. QED
        BY <2>6, <3>1, <3>2, <4>1
    <3>4. CASE Points!PressInDialog(b) \/ Points!PressInMenu(b)
      <4>1. bits' = bits /\ dragSrc' = dragSrc
        BY <3>4 DEF Points!PressInDialog, Points!PressInMenu
      <4>2. QED
        BY <2>6, <3>1, <3>2, <4>1
    <3>5. CASE Points!PressInStrip(b)
      <4>1. bits' = bits /\ over.surface = "main"
        BY <3>5 DEF Points!PressInStrip, Points!ToPage, Points!Main
      <4>2. dragSrc' = (dragSrc \/ b = "left")
        BY <3>5, Zenon DEF Points!PressInStrip
      <4>3. dragSrc' \in BOOLEAN /\ (dragSrc' => b = "left")
        BY <3>2, <4>2, Zenon
      <4>4. QED
        BY <2>6, <3>1, <4>1, <4>3
    <3>6. QED
      BY <2>7, <3>3, <3>4, <3>5
  <2>8. QED
    BY <2>1, <2>3, <2>4, <2>5, <2>7 DEF Points!Next
<1>3. QED
  BY <1>1, <1>2, PTL DEF Points!Spec

\* The detector's sum is that of the gesture, and a committed swipe has navigated.
LEMMA SwipeInvHolds == Points!Spec => []SwipeInv
<1>1. Points!Init => SwipeInv
  BY DEF Points!Init, SwipeInv, Points!NoSwipe, Points!NoTravel
<1>2. SwipeInv /\ [Points!Next]_(Points!vars) => SwipeInv'
  <2> SUFFICES ASSUME SwipeInv, [Points!Next]_(Points!vars) PROVE SwipeInv'
    OBVIOUS
  <2>1. CASE UNCHANGED <<swipe, travel>>
    BY <2>1 DEF SwipeInv
  <2>2. CASE Points!ScrollByFinger
    <3>1. PICK x \in {-1, 0, 1}, y \in {0, 1}, gap \in BOOLEAN, v \in 0..MaxSpeed :
            LET s == over.surface
                fed == Points!Fed(Points!Begun(s), x, y, gap)
                goesOn == swipe.surface = s /\ ~gap
                so == IF goesOn THEN travel ELSE Points!NoTravel
                scroll == ~Points!Commits(fed) /\ ~fed.committed
            IN
            /\ Points!Acts
            /\ (x = 0) # (y = 0)
            /\ swipe' = IF Points!Commits(fed) THEN [fed EXCEPT !.committed = TRUE] ELSE fed
            /\ travel' = IF Points!Commits(fed)
                         THEN [x |-> so.x + x, navigated |-> so.navigated + 1,
                               paid |-> Points!Distance(so.x + x, 0)]
                         ELSE [so EXCEPT !.x = @ + x]
            /\ IF scroll /\ s = Points!Main THEN speed' = v ELSE v = 0 /\ UNCHANGED speed
            /\ UNCHANGED <<over, held, bits, click, dragStart, dragSrc, visual, modal>>
      BY <2>2, Zenon DEF Points!ScrollByFinger
    <3> DEFINE fed == Points!Fed(Points!Begun(over.surface), x, y, gap)
               so == IF swipe.surface = over.surface /\ ~gap THEN travel ELSE Points!NoTravel
    <3>2. /\ fed.x \in Int /\ fed.y \in Int /\ fed.committed \in BOOLEAN
          /\ fed.x = so.x + x
          /\ \/ ~fed.committed /\ so.navigated = 0 /\ so.paid = 0
             \/ fed.committed /\ so.navigated = 1 /\ so.paid \in Int /\ so.paid >= Threshold
      <4>1. CASE swipe.surface = over.surface /\ ~gap
        <5>1. fed = [swipe EXCEPT !.x = @ + x, !.y = @ + y] /\ so = travel
          BY <4>1 DEF Points!Fed, Points!Begun
        <5>2. QED
          BY <5>1 DEF SwipeInv
      <4>2. CASE ~(swipe.surface = over.surface /\ ~gap)
        <5>1. /\ fed.x = x /\ fed.y = y /\ fed.committed = FALSE
          BY <4>2 DEF Points!Fed, Points!Begun, Points!NoSwipe
        <5>2. so.x = 0 /\ so.navigated = 0 /\ so.paid = 0
          BY <4>2 DEF Points!NoTravel
        <5> HIDE DEF fed, so
        <5>3. fed.x \in Int /\ fed.y \in Int /\ fed.x = so.x + x
          BY <5>1, <5>2
        <5>4. fed.committed \in BOOLEAN /\ ~fed.committed
          BY <5>1, Zenon
        <5>5. QED
          BY <5>2, <5>3, <5>4
      <4>3. QED
        BY <4>1, <4>2
    <3> HIDE DEF fed, so
    <3>3. CASE Points!Commits(fed)
      <4>1. ~fed.committed /\ Points!Distance(fed.x, 0) >= Threshold
        BY <3>3 DEF Points!Commits
      <4>2. Points!Distance(fed.x, 0) \in Int
        BY <3>2 DEF Points!Distance
      <4>3. /\ swipe' = [fed EXCEPT !.committed = TRUE]
            /\ travel' = [x |-> fed.x, navigated |-> 1, paid |-> Points!Distance(fed.x, 0)]
        BY <3>1, <3>2, <3>3, <4>1 DEF fed, so
      <4>4. QED
        BY <3>2, <4>1, <4>2, <4>3 DEF SwipeInv
    <3>4. CASE ~Points!Commits(fed)
      <4>1. swipe' = fed /\ travel' = [so EXCEPT !.x = @ + x]
        BY <3>1, <3>4 DEF fed, so
      <4>2. QED
        BY <3>2, <4>1 DEF SwipeInv
    <3>5. QED
      BY <3>3, <3>4
  <2>3. CASE Points!Next /\ ~Points!ScrollByFinger
    BY <2>1, <2>3 DEF Points!Next, Points!Moved, Points!Release, Points!ReleaseTab, Points!OpenModal,
         Points!PressInPopup, Points!PressInDialog, Points!PressInMenu, Points!PressInStrip,
         Points!PressInPage, Points!Press, Points!ClickAges, Points!ScrollByWheel,
         Points!TickMomentum, Points!scrollVars
  <2>4. QED
    BY <2>1, <2>2, <2>3 DEF Points!vars
<1>3. QED
  BY <1>1, <1>2, PTL DEF Points!Spec

\* A button the page is told of is one the user still holds there, whatever dialog or
\* menu opens between press and release; and a swipe navigates once, for scrolling
\* enough on the surface it navigates (osr_mouse_buttons, SwipeDetector::feed).
THEOREM GesturesAlwaysTrue == PartsSpec => []GesturesAreTheUsers
<1>1. PartsSpec => Points!Spec
  <2>1. PartsInit => Points!Init
    BY DEF PartsInit
  <2>2. UNCHANGED pointerVars => UNCHANGED Points!vars
    BY DEF pointerVars, Points!vars
  <2>3. [\/ OfPermissions(Next) \/ OfPopups(Popup!Next)
         \/ OfPointer(Points!Next) \/ OfNavigation(Nav!Next)]_allVars
        => [Points!Next]_(Points!vars)
    BY <2>2 DEF OfPermissions, OfPopups, OfPointer, OfNavigation, allVars
  <2>4. PartsSpec => PartsInit /\ [][\/ OfPermissions(Next) \/ OfPopups(Popup!Next)
                                  \/ OfPointer(Points!Next) \/ OfNavigation(Nav!Next)]_allVars
    BY PTL DEF PartsSpec
  <2>5. QED
    BY <2>1, <2>3, <2>4, PTL DEF Points!Spec
<1>2. HeldInv /\ SwipeInv => GesturesAreTheUsers
  <2> SUFFICES ASSUME HeldInv, SwipeInv PROVE Points!GesturesAreTheUsers
    BY DEF GesturesAreTheUsers
  <2>1. travel.navigated <= 1 /\ travel.paid >= Threshold * travel.navigated
    <3>1. Threshold * 0 = 0 /\ Threshold * 1 = Threshold
      BY PointerAssumption
    <3>2. QED
      BY <3>1 DEF SwipeInv
  <2>2. QED
    BY <2>1 DEF HeldInv, Points!GesturesAreTheUsers
<1>3. QED
  BY <1>1, <1>2, HeldInvHolds, SwipeInvHolds, PTL

-----------------------------------------------------------------------------
\* A set of numbers that has a bound has a greatest one.
LEMMA GreatestNat ==
  ASSUME NEW n \in Nat, NEW T, T \subseteq 1 .. n, T # {}
  PROVE  \E m \in T : \A k \in T : k <= m
<1> DEFINE Bounds == {k \in Nat : \A i \in T : i <= k}
           R == OpToRel(<, Nat)
<1>1. IsWellFoundedOn(R, Nat)
  BY NatLessThanWellFounded, Zenon
<1>2. \A x, y \in Nat : y < x => <<y, x>> \in R
  BY DEF OpToRel
<1>3. n \in Bounds /\ Bounds \subseteq Nat
  OBVIOUS
<1> HIDE DEF R, Bounds
<1>4. PICK m \in Bounds : \A y \in Bounds : ~(<<y, m>> \in R)
  BY <1>1, <1>3, WFMin
<1>5. m \in Nat /\ \A i \in T : i <= m
  BY <1>4 DEF Bounds
<1>6. ASSUME m \notin T PROVE FALSE
  <2>1. PICK i \in T : TRUE
    OBVIOUS
  <2>2. i \in Nat /\ i >= 1 /\ i <= m
    BY <2>1, <1>5
  <2>3. m - 1 \in Nat /\ m - 1 < m
    BY <2>2, <1>5
  <2>4. \A k \in T : k <= m - 1
    BY <1>5, <1>6
  <2>5. m - 1 \in Bounds
    BY <2>3, <2>4 DEF Bounds
  <2>6. QED
    BY <2>3, <2>5, <1>2, <1>4, <1>5
<1>7. QED
  BY <1>5, <1>6

-----------------------------------------------------------------------------
(***************************************************************************)
(* Popup windows (Popups.tla, the instance Popup of MCWindows.tla).        *)
(***************************************************************************)
Creation == [popup : PopupIds, url : PopupIds \cup {0}]
Change == [popup : PopupIds, to : Nat]

PopupTypes ==
  /\ life \in [PopupIds -> {"none", "refused", "asked", "live", "gone"}]
  /\ home \in [PopupIds -> Popup!BothEngines]
  /\ popupActive \in Popup!BothEngines
  /\ address \in [PopupIds -> Nat]
  /\ DOMAIN url = PopupIds
  /\ windows \subseteq PopupIds
  /\ DOMAIN told = PopupIds

QueueTypes ==
  /\ creates \in [Popup!BothEngines -> Seq(Creation)]
  /\ closes \in [Popup!BothEngines -> Seq(PopupIds)]
  /\ moved \in [Popup!BothEngines -> Seq(Change)]
  /\ pendingAllocs \in [Popup!BothEngines -> Seq(PopupIds)]
  /\ old \in [Popup!BothEngines -> Nat]

\* What is live has its browser; what was never alive has not moved.
LivesInv ==
  /\ \A p \in PopupIds : Popup!Live(p) => p \in browsers
  /\ \A p \in PopupIds : life[p] \notin {"live", "gone"} => address[p] = 0

\* p has a window, or waits for one: what it was told of p will do.
Tracked(p) ==
  /\ home[p] = "first" /\ life[p] \in {"live", "gone"}
  /\ Popup!Live(p) => p \in routed
  /\ life[p] = "gone" => \E i \in DOMAIN closes["first"] : closes["first"][i] = p

HasNews(p) == \E i \in DOMAIN moved["first"] : moved["first"][i].popup = p

WindowsInv ==
  \A p \in windows : Tracked(p) /\ (address[p] = 0 \/ url[p].to = address[p] \/ HasNews(p))

IsCreated(p) == \E i \in DOMAIN creates["first"] : creates["first"][i].popup = p

CreatesInv ==
  \A p \in PopupIds : IsCreated(p) => Tracked(p) /\ (address[p] = 0 \/ HasNews(p))

\* The last change of a popup that is queued leads to where it is.
MovedInv ==
  \A e \in Popup!BothEngines : \A i \in DOMAIN moved[e] :
    LET p == moved[e][i].popup IN
      /\ home[p] = e /\ life[p] \in {"live", "gone"}
      /\ (\A j \in DOMAIN moved[e] : moved[e][j].popup = p => j <= i) => moved[e][i].to = address[p]

PopupInv == PopupTypes /\ QueueTypes /\ LivesInv /\ WindowsInv /\ CreatesInv /\ MovedInv

LEMMA PopupInitFine == Popup!Init => PopupInv
<1> SUFFICES ASSUME Popup!Init PROVE PopupInv
  OBVIOUS
<1>1. /\ life = [p \in PopupIds |-> "none"] /\ home = [p \in PopupIds |-> "first"]
      /\ address = [p \in PopupIds |-> 0] /\ windows = {}
      /\ \A e \in Popup!BothEngines : creates[e] = <<>> /\ moved[e] = <<>>
  BY DEF Popup!Init
<1>2. "first" \in Popup!BothEngines
  BY DEF Popup!BothEngines
<1>3. PopupTypes
  BY <1>2 DEF Popup!Init, PopupTypes
<1>4. QueueTypes
  BY DEF Popup!Init, QueueTypes
<1>5. LivesInv
  BY <1>1 DEF LivesInv, Popup!Live
<1>6. WindowsInv /\ CreatesInv /\ MovedInv
  BY <1>1, <1>2 DEF WindowsInv, CreatesInv, IsCreated, MovedInv
<1>7. QED
  BY <1>3, <1>4, <1>5, <1>6 DEF PopupInv

\* What the queues hold is about popups.
LEMMA QueuedAre ==
  ASSUME PopupInv
  PROVE  /\ "first" \in Popup!BothEngines
         /\ \A i \in DOMAIN creates["first"] : creates["first"][i].popup \in PopupIds
         /\ \A e \in Popup!BothEngines : \A i \in DOMAIN moved[e] :
              moved[e][i].popup \in PopupIds /\ i \in Nat
<1>1. "first" \in Popup!BothEngines
  BY DEF Popup!BothEngines
<1>2. creates["first"] \in Seq(Creation)
  BY <1>1 DEF PopupInv, QueueTypes
<1>3. \A i \in DOMAIN creates["first"] : creates["first"][i] \in Creation
  BY <1>2
<1>4. \A e \in Popup!BothEngines : moved[e] \in Seq(Change)
  BY DEF PopupInv, QueueTypes
<1>5. \A e \in Popup!BothEngines : \A i \in DOMAIN moved[e] : moved[e][i] \in Change /\ i \in Nat
  BY <1>4
<1>6. QED
  BY <1>1, <1>3, <1>5 DEF Creation, Change

\* Appending to one queue keeps what the others and itself held.
LEMMA Queued ==
  ASSUME NEW S, NEW Q, NEW q \in [Q -> Seq(S)], NEW e \in Q, NEW x \in S,
         NEW r, r = [q EXCEPT ![e] = Append(@, x)]
  PROVE  /\ r \in [Q -> Seq(S)]
         /\ \A f \in Q : f # e => r[f] = q[f]
         /\ DOMAIN r[e] = DOMAIN q[e] \cup {Len(q[e]) + 1}
         /\ \A i \in DOMAIN q[e] : r[e][i] = q[e][i] /\ i \in Nat /\ i < Len(q[e]) + 1
         /\ r[e][Len(q[e]) + 1] = x
<1>1. q[e] \in Seq(S) /\ r[e] = Append(q[e], x)
  OBVIOUS
<1>2. QED
  BY <1>1, Appended

LEMMA BeforePopupKeeps ==
  ASSUME PopupInv, NEW p \in PopupIds, NEW e \in Popup!BothEngines, Popup!BeforePopup(p, e)
  PROVE  PopupInv'
<1>1. /\ life[p] = "none" /\ home' = [home EXCEPT ![p] = e]
      /\ \E now \in {"refused", "asked"} : life' = [life EXCEPT ![p] = now]
      /\ UNCHANGED <<popupActive, routed, browsers, creates, closes, moved, address, windows,
                     url, told, old>>
  BY DEF Popup!BeforePopup
<1>2. PopupTypes'
  BY <1>1 DEF PopupInv, PopupTypes
<1>3. pendingAllocs' \in [Popup!BothEngines -> Seq(PopupIds)]
  <2>1. pendingAllocs \in [Popup!BothEngines -> Seq(PopupIds)]
    BY DEF PopupInv, QueueTypes
  <2>2. \/ pendingAllocs' = pendingAllocs
        \/ pendingAllocs' = [pendingAllocs EXCEPT ![e] = Append(@, p)]
    BY DEF Popup!BeforePopup
  <2>3. QED
    BY <2>1, <2>2, Queued
<1>4. QueueTypes'
  BY <1>1, <1>3 DEF PopupInv, QueueTypes
<1>5. \A q \in PopupIds : q # p => life'[q] = life[q] /\ home'[q] = home[q]
  BY <1>1 DEF PopupInv, PopupTypes
<1>6. life'[p] \notin {"live", "gone"}
  BY <1>1 DEF PopupInv, PopupTypes
<1>7. LivesInv'
  BY <1>1, <1>5, <1>6 DEF PopupInv, LivesInv, Popup!Live
<1>8. \A q \in PopupIds : Tracked(q) => q # p /\ Tracked(q)'
  BY <1>1, <1>5 DEF Tracked, Popup!Live
<1>9. \A q : HasNews(q)' <=> HasNews(q)
  BY <1>1 DEF HasNews
<1>10. WindowsInv'
  BY <1>1, <1>8, <1>9 DEF PopupInv, PopupTypes, WindowsInv
<1>11. CreatesInv'
  BY <1>1, <1>8, <1>9, QueuedAre DEF PopupInv, CreatesInv, IsCreated
<1>12. MovedInv'
  BY <1>1, <1>5, QueuedAre DEF PopupInv, MovedInv
<1>13. QED
  BY <1>2, <1>4, <1>7, <1>10, <1>11, <1>12 DEF PopupInv

LEMMA AfterCreatedKeeps ==
  ASSUME PopupInv, NEW p \in PopupIds, Popup!AfterCreated(p)
  PROVE  PopupInv'
<1> DEFINE e == home[p]
           alloc == Popup!FreshAlloc(e)
           new == [popup |-> p, url |-> alloc]
<1>1. /\ life[p] = "asked" /\ life' = [life EXCEPT ![p] = "live"]
      /\ old' = [old EXCEPT ![e] = 0]
      /\ browsers' = browsers \cup {p}
      /\ UNCHANGED <<popupActive, home, closes, moved, address, windows, url, told>>
  BY DEF Popup!AfterCreated, Popup!Registered
<1>2. \/ UNCHANGED <<routed, creates>>
      \/ routed' = routed \cup {p} /\ creates' = [creates EXCEPT ![e] = Append(@, new)]
  BY DEF Popup!AfterCreated
<1>3. e \in Popup!BothEngines
  BY DEF PopupInv, PopupTypes
<1>4. pendingAllocs[e] \in Seq(PopupIds) /\ old[e] \in Nat
  BY <1>3 DEF PopupInv, QueueTypes
<1>5. alloc \in PopupIds \cup {0}
  BY <1>4 DEF Popup!FreshAlloc
<1>6. new \in Creation
  BY <1>5 DEF Creation
<1>7. pendingAllocs' \in [Popup!BothEngines -> Seq(PopupIds)]
  <2>1. SubSeq(pendingAllocs[e], old[e] + 2, Len(pendingAllocs[e])) \in Seq(PopupIds)
    BY <1>4
  <2>2. <<>> \in Seq(PopupIds)
    OBVIOUS
  <2>3. \E q \in Seq(PopupIds) : pendingAllocs' = [pendingAllocs EXCEPT ![e] = q]
    BY <2>1, <2>2 DEF Popup!AfterCreated
  <2>4. QED
    BY <2>3 DEF PopupInv, QueueTypes
<1> HIDE DEF alloc, new
<1>8. creates \in [Popup!BothEngines -> Seq(Creation)]
  BY DEF PopupInv, QueueTypes
<1>9. creates' \in [Popup!BothEngines -> Seq(Creation)]
  <2>1. CASE UNCHANGED <<routed, creates>>
    BY <2>1, <1>8
  <2>2. CASE creates' = [creates EXCEPT ![e] = Append(@, new)]
    BY <2>2, <1>3, <1>6, <1>8, Queued
  <2>3. QED
    BY <1>2, <2>1, <2>2
<1>10. QueueTypes'
  <2>1. old' \in [Popup!BothEngines -> Nat]
    BY <1>1 DEF PopupInv, QueueTypes
  <2>2. QED
    BY <1>1, <1>7, <1>9, <2>1 DEF PopupInv, QueueTypes
<1>11. PopupTypes'
  BY <1>1 DEF PopupInv, PopupTypes
<1>12. life'[p] = "live" /\ \A q \in PopupIds : q # p => life'[q] = life[q]
  BY <1>1 DEF PopupInv, PopupTypes
<1>13. LivesInv'
  BY <1>1, <1>12 DEF PopupInv, LivesInv, Popup!Live
<1>14. \A q \in PopupIds : Tracked(q) => q # p /\ Tracked(q)'
  BY <1>1, <1>2, <1>12 DEF Tracked, Popup!Live
<1>15. \A q : HasNews(q)' <=> HasNews(q)
  BY <1>1 DEF HasNews
<1>16. WindowsInv'
  BY <1>1, <1>14, <1>15 DEF PopupInv, PopupTypes, WindowsInv
<1>17. MovedInv'
  BY <1>1, <1>12, QueuedAre DEF PopupInv, MovedInv
<1>18. CreatesInv'
  <2>1. CASE UNCHANGED <<routed, creates>>
    BY <2>1, <1>1, <1>14, <1>15, QueuedAre DEF PopupInv, CreatesInv, IsCreated
  <2>2. CASE routed' = routed \cup {p} /\ creates' = [creates EXCEPT ![e] = Append(@, new)]
    <3>1. /\ e # "first" => creates'["first"] = creates["first"]
          /\ DOMAIN creates'[e] = DOMAIN creates[e] \cup {Len(creates[e]) + 1}
          /\ \A j \in DOMAIN creates[e] : creates'[e][j] = creates[e][j]
          /\ creates'[e][Len(creates[e]) + 1] = new
      BY <2>2, <1>3, <1>6, <1>8, Queued, QueuedAre
    <3>2. new.popup = p
      BY DEF new
    <3>3. address'[p] = 0
      BY <1>1 DEF PopupInv, LivesInv
    <3>4. e = "first" => Tracked(p)'
      BY <2>2, <1>1, <1>12 DEF Tracked, Popup!Live
    <3>5. \A q \in PopupIds : IsCreated(q)' => IsCreated(q) \/ (q = p /\ e = "first")
      BY <3>1, <3>2 DEF IsCreated
    <3>6. QED
      BY <3>3, <3>4, <3>5, <1>1, <1>14, <1>15 DEF PopupInv, CreatesInv
  <2>3. QED
    BY <1>2, <2>1, <2>2
<1>19. QED
  BY <1>10, <1>11, <1>13, <1>16, <1>17, <1>18 DEF PopupInv

LEMMA AbortKeeps ==
  ASSUME PopupInv, NEW p \in PopupIds, Popup!Abort(p)
  PROVE  PopupInv'
<1>1. /\ life[p] = "asked" /\ life' = [life EXCEPT ![p] = "gone"]
      /\ UNCHANGED <<popupActive, home, told, pendingAllocs, old, routed, browsers, creates,
                     closes, moved, address, windows, url>>
  BY DEF Popup!Abort
<1>2. life'[p] = "gone" /\ \A q \in PopupIds : q # p => life'[q] = life[q]
  BY <1>1 DEF PopupInv, PopupTypes
<1>3. PopupTypes' /\ QueueTypes'
  BY <1>1 DEF PopupInv, PopupTypes, QueueTypes
<1>4. LivesInv'
  BY <1>1, <1>2 DEF PopupInv, LivesInv, Popup!Live
<1>5. \A q \in PopupIds : Tracked(q) => q # p /\ Tracked(q)'
  BY <1>1, <1>2 DEF Tracked, Popup!Live
<1>6. \A q : HasNews(q)' <=> HasNews(q)
  BY <1>1 DEF HasNews
<1>7. WindowsInv'
  BY <1>1, <1>5, <1>6 DEF PopupInv, PopupTypes, WindowsInv
<1>8. CreatesInv'
  BY <1>1, <1>5, <1>6, QueuedAre DEF PopupInv, CreatesInv, IsCreated
<1>9. MovedInv'
  BY <1>1, <1>2, QueuedAre DEF PopupInv, MovedInv
<1>10. QED
  BY <1>3, <1>4, <1>7, <1>8, <1>9 DEF PopupInv

LEMMA BeforeCloseKeeps ==
  ASSUME PopupInv, NEW p \in PopupIds, Popup!BeforeClose(p)
  PROVE  PopupInv'
<1> DEFINE e == home[p]
<1>1. /\ life[p] = "live" /\ life' = [life EXCEPT ![p] = "gone"]
      /\ routed' = routed \ {p} /\ browsers' = browsers \ {p}
      /\ closes' = [closes EXCEPT ![e] = Append(@, p)]
      /\ UNCHANGED <<popupActive, home, told, pendingAllocs, old, creates, moved, address,
                     windows, url>>
  BY DEF Popup!BeforeClose, Popup!Live
<1>2. life'[p] = "gone" /\ \A q \in PopupIds : q # p => life'[q] = life[q]
  BY <1>1 DEF PopupInv, PopupTypes
<1>3. e \in Popup!BothEngines /\ closes \in [Popup!BothEngines -> Seq(PopupIds)]
  BY DEF PopupInv, PopupTypes, QueueTypes
<1>4. /\ closes' \in [Popup!BothEngines -> Seq(PopupIds)]
      /\ e # "first" => closes'["first"] = closes["first"]
      /\ DOMAIN closes'[e] = DOMAIN closes[e] \cup {Len(closes[e]) + 1}
      /\ \A i \in DOMAIN closes[e] : closes'[e][i] = closes[e][i]
      /\ closes'[e][Len(closes[e]) + 1] = p
  BY <1>1, <1>3, Queued, QueuedAre
<1>5. PopupTypes' /\ QueueTypes'
  BY <1>1, <1>4 DEF PopupInv, PopupTypes, QueueTypes
<1>6. LivesInv'
  BY <1>1, <1>2 DEF PopupInv, LivesInv, Popup!Live
<1>7. ASSUME NEW q \in PopupIds, Tracked(q) PROVE Tracked(q)'
  <2>1. home'[q] = "first" /\ life'[q] \in {"live", "gone"}
    BY <1>1, <1>2, <1>7 DEF Tracked
  <2>2. Popup!Live(q)' => q \in routed'
    BY <1>1, <1>2, <1>7 DEF Tracked, Popup!Live
  <2>3. CASE q = p
    BY <2>1, <2>2, <2>3, <1>1, <1>4 DEF Tracked
  <2>4. CASE q # p
    <3>1. life[q] = "gone" => \E i \in DOMAIN closes["first"] : closes["first"][i] = q
      BY <1>7 DEF Tracked
    <3>2. \A i \in DOMAIN closes["first"] :
            i \in DOMAIN closes'["first"] /\ closes'["first"][i] = closes["first"][i]
      BY <1>4
    <3>3. QED
      BY <2>1, <2>2, <2>4, <3>1, <3>2, <1>2 DEF Tracked
  <2>5. QED
    BY <2>3, <2>4
<1>8. \A q : HasNews(q)' <=> HasNews(q)
  BY <1>1 DEF HasNews
<1>9. WindowsInv'
  BY <1>1, <1>7, <1>8 DEF PopupInv, PopupTypes, WindowsInv
<1>10. CreatesInv'
  BY <1>1, <1>7, <1>8, QueuedAre DEF PopupInv, CreatesInv, IsCreated
<1>11. MovedInv'
  BY <1>1, <1>2, QueuedAre DEF PopupInv, MovedInv
<1>12. QED
  BY <1>5, <1>6, <1>9, <1>10, <1>11 DEF PopupInv

LEMMA AddressChangesKeeps ==
  ASSUME PopupInv, NEW p \in PopupIds, Popup!AddressChanges(p)
  PROVE  PopupInv'
<1> DEFINE e == home[p]
           new == [popup |-> p, to |-> address[p] + 1]
<1>1. /\ life[p] = "live" /\ address' = [address EXCEPT ![p] = @ + 1]
      /\ moved' = [moved EXCEPT ![e] = Append(@, new)]
      /\ UNCHANGED <<popupActive, life, home, told, pendingAllocs, old, routed, browsers,
                     creates, closes, windows, url>>
  BY DEF Popup!AddressChanges, Popup!Live
<1>2. address[p] \in Nat /\ address'[p] = address[p] + 1
  BY <1>1 DEF PopupInv, PopupTypes
<1>3. \A q \in PopupIds : q # p => address'[q] = address[q]
  BY <1>1 DEF PopupInv, PopupTypes
<1>4. new \in Change /\ new.popup = p /\ new.to = address'[p]
  BY <1>2 DEF Change
<1>5. e \in Popup!BothEngines /\ moved \in [Popup!BothEngines -> Seq(Change)]
  BY DEF PopupInv, PopupTypes, QueueTypes
<1> DEFINE last == Len(moved[e]) + 1
<1> HIDE DEF new
<1>6. /\ moved' \in [Popup!BothEngines -> Seq(Change)]
      /\ \A f \in Popup!BothEngines : f # e => moved'[f] = moved[f]
      /\ DOMAIN moved'[e] = DOMAIN moved[e] \cup {last}
      /\ \A i \in DOMAIN moved[e] : moved'[e][i] = moved[e][i] /\ i \in Nat /\ i < last
      /\ moved'[e][last] = new
  BY <1>1, <1>4, <1>5, Queued
<1> HIDE DEF last
<1>7. PopupTypes'
  <2>1. address' \in [PopupIds -> Nat]
    BY <1>1 DEF PopupInv, PopupTypes
  <2>2. QED
    BY <1>1, <2>1 DEF PopupInv, PopupTypes
<1>8. QueueTypes'
  BY <1>1, <1>6 DEF PopupInv, QueueTypes
<1>9. LivesInv'
  BY <1>1, <1>3 DEF PopupInv, LivesInv, Popup!Live
<1>10. \A q \in PopupIds : Tracked(q) => Tracked(q)'
  BY <1>1 DEF Tracked, Popup!Live
<1>11. ASSUME NEW q \in PopupIds, HasNews(q) PROVE HasNews(q)'
  <2>1. PICK i \in DOMAIN moved["first"] : moved["first"][i].popup = q
    BY <1>11 DEF HasNews
  <2>2. i \in DOMAIN moved'["first"] /\ moved'["first"][i] = moved["first"][i]
    BY <2>1, <1>6, QueuedAre
  <2>3. QED
    BY <2>1, <2>2 DEF HasNews
<1>12. Tracked(p) => HasNews(p)'
  BY <1>4, <1>6 DEF Tracked, HasNews
<1>13. WindowsInv'
  BY <1>1, <1>3, <1>10, <1>11, <1>12 DEF PopupInv, PopupTypes, WindowsInv
<1>14. CreatesInv'
  BY <1>1, <1>3, <1>10, <1>11, <1>12, QueuedAre DEF PopupInv, CreatesInv, IsCreated
<1>15. ASSUME NEW f \in Popup!BothEngines, NEW i \in DOMAIN moved'[f]
       PROVE  LET q == moved'[f][i].popup IN
                /\ home'[q] = f /\ life'[q] \in {"live", "gone"}
                /\ (\A j \in DOMAIN moved'[f] : moved'[f][j].popup = q => j <= i)
                     => moved'[f][i].to = address'[q]
  <2> DEFINE q == moved'[f][i].popup
  <2>1. CASE f = e /\ i = last
    <3>1. moved'[f][i] = new
      BY <2>1, <1>6
    <3>2. QED
      BY <3>1, <2>1, <1>1, <1>4
  <2>2. CASE ~(f = e /\ i = last)
    <3>1. i \in DOMAIN moved[f] /\ moved'[f][i] = moved[f][i]
      BY <2>2, <1>6, <1>15
    <3>2. /\ home[q] = f /\ life[q] \in {"live", "gone"} /\ q \in PopupIds
          /\ (\A j \in DOMAIN moved[f] : moved[f][j].popup = q => j <= i) => moved[f][i].to = address[q]
      BY <3>1, QueuedAre DEF PopupInv, MovedInv
    <3>3. CASE q = p
      <4>1. f = e
        BY <3>2, <3>3
      <4>2. last \in DOMAIN moved'[f] /\ moved'[f][last].popup = q
        BY <4>1, <3>3, <1>4, <1>6
      <4>3. i \in Nat /\ i < last /\ last \in Nat
        BY <4>1, <3>1, <1>5, <1>6 DEF last
      <4>4. ~(last <= i)
        BY <4>3
      <4>5. QED
        BY <3>2, <4>2, <4>4, <1>1
    <3>4. CASE q # p
      <4>1. \A j \in DOMAIN moved[f] : j \in DOMAIN moved'[f] /\ moved'[f][j] = moved[f][j]
        BY <1>6
      <4>2. address'[q] = address[q]
        BY <3>2, <3>4, <1>3
      <4>3. QED
        BY <3>1, <3>2, <4>1, <4>2, <1>1
    <3>5. QED
      BY <3>3, <3>4
  <2>3. QED
    BY <2>1, <2>2
<1>16. MovedInv'
  BY <1>15 DEF MovedInv
<1>17. QED
  BY <1>7, <1>8, <1>9, <1>13, <1>14, <1>16 DEF PopupInv

\* The address a window shows is that of the last change of it, if there is one.
LEMMA ShownIs ==
  ASSUME NEW urls, NEW changes \in Seq(Change), NEW open, NEW p \in PopupIds, p \in open,
         NEW after, after = Popup!Shown(urls, changes, open)
  PROVE  /\ (\A i \in DOMAIN changes : changes[i].popup # p) => after[p] = urls[p]
         /\ (\E i \in DOMAIN changes : changes[i].popup = p) =>
              \E i \in DOMAIN changes :
                /\ changes[i].popup = p /\ after[p].to = changes[i].to
                /\ \A j \in DOMAIN changes : changes[j].popup = p => j <= i
<1> DEFINE own == {i \in DOMAIN changes : changes[i].popup = p}
           last == CHOOSE i \in own : \A j \in own : j <= i
<1>1. after[p] = IF own # {} THEN [of |-> p, to |-> changes[last].to] ELSE urls[p]
  BY DEF Popup!Shown
<1>2. own # {} => last \in own /\ \A j \in own : j <= last
  <2>1. own \subseteq 1 .. Len(changes) /\ Len(changes) \in Nat
    OBVIOUS
  <2> HIDE DEF own
  <2>2. own # {} => \E i \in own : \A j \in own : j <= i
    BY <2>1, GreatestNat
  <2>3. QED
    BY <2>2
<1>3. [of |-> p, to |-> changes[last].to].to = changes[last].to
  OBVIOUS
<1> HIDE DEF last
<1>4. own = {} => after[p] = urls[p]
  BY <1>1
<1>5. own # {} => last \in own /\ (\A j \in own : j <= last) /\ after[p].to = changes[last].to
  BY <1>1, <1>2, <1>3
<1>6. QED
  BY <1>4, <1>5

LEMMA AboutToWaitKeeps ==
  ASSUME PopupInv, Popup!AboutToWait
  PROVE  PopupInv'
<1> DEFINE events == creates["first"]
           entry(q) == CHOOSE i \in DOMAIN events : events[i].popup = q
<1>1. PICK failing \in SUBSET PopupIds :
        LET made == Popup!Opened(events, failing, windows)
            fresh == [p \in PopupIds |-> IF p \in made THEN [of |-> events[entry(p)].url, to |-> 0]
                                                       ELSE url[p]] IN
        /\ windows' = Popup!Drained(made)
        /\ url' = Popup!Shown(fresh, moved[popupActive], Popup!Drained(made))
  BY DEF Popup!AboutToWait
<1> DEFINE made == Popup!Opened(events, failing, windows)
           fresh == [p \in PopupIds |-> IF p \in made THEN [of |-> events[entry(p)].url, to |-> 0]
                                                      ELSE url[p]]
           here == popupActive
<1>2. windows' = Popup!Drained(made) /\ url' = Popup!Shown(fresh, moved[here], windows')
  BY <1>1
<1>3. /\ creates' = [creates EXCEPT !["first"] = <<>>]
      /\ closes' = [closes EXCEPT !["first"] = <<>>]
      /\ moved' = [moved EXCEPT ![here] = <<>>]
      /\ UNCHANGED <<popupActive, life, home, pendingAllocs, old, routed, browsers, address>>
      /\ \E ps : told' = Popup!Told(ps)
  BY DEF Popup!AboutToWait
<1>4. \A p \in PopupIds : p \in made => fresh[p].to = 0
  OBVIOUS
<1>5. \A p \in PopupIds : p \notin made => fresh[p] = url[p]
  OBVIOUS
<1>6. \A p \in made : \E i \in DOMAIN events : events[i].popup = p
  BY DEF Popup!Opened
<1> HIDE DEF made, fresh, events
<1>7. here \in Popup!BothEngines /\ "first" \in Popup!BothEngines
  BY QueuedAre DEF PopupInv, PopupTypes
<1>8. \A p \in windows' :
        /\ p \in windows \cup made
        /\ \A i \in DOMAIN closes["first"] : closes["first"][i] # p
  BY <1>2 DEF Popup!Drained, Popup!Range
<1>9. \A p \in made : p \in PopupIds /\ Tracked(p) /\ (address[p] = 0 \/ HasNews(p))
  BY <1>6, QueuedAre DEF PopupInv, CreatesInv, IsCreated, events
<1>10. windows' \subseteq PopupIds
  BY <1>8, <1>9 DEF PopupInv, PopupTypes
<1>11. \A p \in windows' : Tracked(p) /\ Popup!Live(p)
  <2>1. \A p \in windows' : Tracked(p)
    BY <1>8, <1>9 DEF PopupInv, WindowsInv
  <2>2. QED
    BY <2>1, <1>8 DEF Tracked, Popup!Live
<1>12. moved[here] \in Seq(Change)
  BY <1>7 DEF PopupInv, QueueTypes
<1>13. PopupTypes'
  <2>1. DOMAIN told' = PopupIds
    BY <1>3 DEF Popup!Told
  <2>2. DOMAIN url' = PopupIds
    BY <1>2 DEF Popup!Shown
  <2>3. QED
    BY <1>3, <1>10, <2>1, <2>2 DEF PopupInv, PopupTypes
<1>14. QueueTypes'
  <2>1. <<>> \in Seq(Creation) /\ <<>> \in Seq(PopupIds) /\ <<>> \in Seq(Change)
    OBVIOUS
  <2>2. QED
    BY <1>3, <1>7, <2>1 DEF PopupInv, QueueTypes
<1>15. LivesInv'
  BY <1>3 DEF PopupInv, LivesInv, Popup!Live
<1>16. \A f \in Popup!BothEngines : moved'[f] = moved[f] \/ moved'[f] = <<>>
  BY <1>3 DEF PopupInv, QueueTypes
<1>17. MovedInv'
  BY <1>3, <1>16 DEF PopupInv, MovedInv
<1>18. CreatesInv'
  <2>1. creates'["first"] = <<>>
    BY <1>3, <1>7 DEF PopupInv, QueueTypes
  <2>2. QED
    BY <2>1 DEF CreatesInv, IsCreated
<1>19. ASSUME NEW p \in windows'
       PROVE  Tracked(p)' /\ (address'[p] = 0 \/ url'[p].to = address'[p] \/ HasNews(p)')
  <2> DEFINE changes == moved[here]
             Heard == \E i \in DOMAIN changes : changes[i].popup = p
  <2>1. p \in PopupIds /\ Tracked(p) /\ Popup!Live(p)
    BY <1>10, <1>11, <1>19
  <2>2. Tracked(p)'
    BY <2>1, <1>3 DEF Tracked, Popup!Live
  <2>3. /\ ~Heard => url'[p] = fresh[p]
        /\ Heard => \E i \in DOMAIN changes :
                      /\ changes[i].popup = p /\ url'[p].to = changes[i].to
                      /\ \A j \in DOMAIN changes : changes[j].popup = p => j <= i
    <3>1. changes \in Seq(Change) /\ url' = Popup!Shown(fresh, changes, windows')
      BY <1>2, <1>12
    <3> HIDE DEF changes
    <3>2. QED
      BY <3>1, <2>1, <1>19, ShownIs
  <2>4. CASE Heard
    <3>1. PICK i \in DOMAIN moved[here] :
            /\ moved[here][i].popup = p /\ url'[p].to = moved[here][i].to
            /\ \A j \in DOMAIN moved[here] : moved[here][j].popup = p => j <= i
      BY <2>3, <2>4
    <3>2. moved[here][i].to = address[p]
      BY <3>1, <1>7 DEF PopupInv, MovedInv
    <3>3. QED
      BY <2>2, <3>1, <3>2, <1>3
  <2>5. CASE ~Heard
    <3>1. url'[p] = fresh[p]
      BY <2>3, <2>5
    <3>2. HasNews(p) => HasNews(p)'
      <4>1. CASE here = "first"
        BY <4>1, <2>5 DEF HasNews
      <4>2. CASE here # "first"
        <5>1. moved'["first"] = moved["first"]
          BY <4>2, <1>3, <1>7 DEF PopupInv, QueueTypes
        <5>2. QED
          BY <5>1 DEF HasNews
      <4>3. QED
        BY <4>1, <4>2
    <3>3. CASE p \in made
      BY <3>2, <3>3, <1>3, <1>9, <2>2
    <3>4. CASE p \notin made
      <4>1. p \in windows
        BY <3>4, <1>8, <1>19
      <4>2. url'[p] = url[p]
        BY <3>1, <3>4, <1>5, <2>1
      <4>3. QED
        BY <4>1, <4>2, <3>2, <2>2, <1>3 DEF PopupInv, WindowsInv
    <3>5. QED
      BY <3>3, <3>4
  <2>6. QED
    BY <2>4, <2>5
<1>20. WindowsInv'
  BY <1>19 DEF WindowsInv
<1>21. QED
  BY <1>13, <1>14, <1>15, <1>17, <1>18, <1>20 DEF PopupInv

\* What changes no more than these keeps the invariant.
LEMMA RestKeeps ==
  ASSUME PopupInv, windows' \subseteq windows, popupActive' \in Popup!BothEngines,
         old' \in [Popup!BothEngines -> Nat], DOMAIN told' = PopupIds,
         UNCHANGED <<life, home, pendingAllocs, routed, browsers, creates, closes, moved, address, url>>
  PROVE  PopupInv'
<1>1. PopupTypes' /\ QueueTypes'
  BY DEF PopupInv, PopupTypes, QueueTypes
<1>2. \A q : Tracked(q)' <=> Tracked(q)
  BY DEF Tracked, Popup!Live
<1>3. \A q : HasNews(q)' <=> HasNews(q)
  BY DEF HasNews
<1>4. LivesInv'
  BY DEF PopupInv, LivesInv, Popup!Live
<1>5. WindowsInv'
  BY <1>2, <1>3 DEF PopupInv, WindowsInv
<1>6. CreatesInv'
  BY <1>2, <1>3 DEF PopupInv, CreatesInv, IsCreated
<1>7. MovedInv'
  BY DEF PopupInv, MovedInv
<1>8. QED
  BY <1>1, <1>4, <1>5, <1>6, <1>7 DEF PopupInv

LEMMA PopupStep == PopupInv /\ [Popup!Next]_(Popup!vars) => PopupInv'
<1> SUFFICES ASSUME PopupInv, [Popup!Next]_(Popup!vars) PROVE PopupInv'
  OBVIOUS
<1>1. /\ windows \subseteq windows /\ popupActive \in Popup!BothEngines
      /\ old \in [Popup!BothEngines -> Nat] /\ DOMAIN told = PopupIds
  BY DEF PopupInv, PopupTypes, QueueTypes
<1>2. \A ps : DOMAIN Popup!Told(ps) = PopupIds
  BY DEF Popup!Told
<1>3. CASE \E p \in PopupIds, e \in Popup!BothEngines : Popup!BeforePopup(p, e)
  BY <1>3, BeforePopupKeeps
<1>4. CASE \E p \in PopupIds : Popup!AfterCreated(p)
  BY <1>4, AfterCreatedKeeps
<1>5. CASE \E p \in PopupIds : Popup!Abort(p)
  BY <1>5, AbortKeeps
<1>6. CASE \E p \in PopupIds : Popup!BeforeClose(p)
  BY <1>6, BeforeCloseKeeps
<1>7. CASE \E p \in PopupIds : Popup!AddressChanges(p)
  BY <1>7, AddressChangesKeeps
<1>8. CASE \E p \in PopupIds : Popup!CloseRequested(p)
  BY <1>8, <1>1, <1>2, RestKeeps DEF Popup!CloseRequested
<1>9. CASE \E e \in Popup!BothEngines : Popup!AllocsAge(e)
  <2>1. PICK e \in Popup!BothEngines : Popup!AllocsAge(e)
    BY <1>9
  <2>2. PICK n \in (old[e] + 1) .. Len(pendingAllocs[e]) : old' = [old EXCEPT ![e] = n]
    BY <2>1 DEF Popup!AllocsAge
  <2>3. n \in Nat
    BY <2>2, <1>1 DEF PopupInv, QueueTypes
  <2>4. old' \in [Popup!BothEngines -> Nat]
    BY <2>2, <2>3, <1>1
  <2>5. QED
    BY <2>1, <2>4, <1>1, RestKeeps DEF Popup!AllocsAge
<1>10. CASE Popup!AboutToWait
  BY <1>10, AboutToWaitKeeps
<1>11. CASE Popup!SwitchEngine
  BY <1>11, <1>1, RestKeeps DEF Popup!SwitchEngine
<1>12. CASE Popup!CloseAllBrowsers
  BY <1>12, <1>1, RestKeeps DEF Popup!CloseAllBrowsers
<1>13. CASE UNCHANGED Popup!vars
  BY <1>13, <1>1, RestKeeps DEF Popup!vars
<1>14. QED
  BY <1>3, <1>4, <1>5, <1>6, <1>7, <1>8, <1>9, <1>10, <1>11, <1>12, <1>13 DEF Popup!Next

LEMMA PopupInvHolds == Popup!Spec => []PopupInv
BY PopupInitFine, PopupStep, PTL DEF Popup!Spec

\* A popup window has a live browser, or the news of its end waits in the close
\* queue; it shows the browser's address, or the news of that waits; and the exit
\* closes every popup, also one without a window (popup_create_sink, popup_browsers,
\* close_all_browsers), for any popups, caps and order of CEF's callbacks.
THEOREM PopupsAlwaysKept == PartsSpec => PopupsAreKept
<1>1. PartsSpec => Popup!Spec
  <2>1. PartsInit => Popup!Init
    BY DEF PartsInit
  <2>2. UNCHANGED popupVars => UNCHANGED Popup!vars
    BY DEF popupVars, Popup!vars
  <2>3. [\/ OfPermissions(Next) \/ OfPopups(Popup!Next)
         \/ OfPointer(Points!Next) \/ OfNavigation(Nav!Next)]_allVars
        => [Popup!Next]_(Popup!vars)
    BY <2>2 DEF OfPermissions, OfPopups, OfPointer, OfNavigation, allVars
  <2>4. PartsSpec => PartsInit /\ [][\/ OfPermissions(Next) \/ OfPopups(Popup!Next)
                                  \/ OfPointer(Points!Next) \/ OfNavigation(Nav!Next)]_allVars
    BY PTL DEF PartsSpec
  <2>5. QED
    BY <2>1, <2>3, <2>4, PTL DEF Popup!Spec
<1>2. PopupInv => Popup!WindowsFollowBrowsers
  <2> SUFFICES ASSUME PopupInv, NEW p \in windows
               PROVE  /\ Popup!Live(p) \/ p \in Popup!Range(closes["first"])
                      /\ Popup!Live(p) => p \in routed \cap browsers
                      /\ \/ address[p] = 0 \/ url[p].to = address[p]
                         \/ \E i \in DOMAIN moved["first"] : moved["first"][i].popup = p
    BY DEF Popup!WindowsFollowBrowsers
  <2>1. Tracked(p) /\ (address[p] = 0 \/ url[p].to = address[p] \/ HasNews(p))
    BY DEF PopupInv, WindowsInv
  <2>2. p \in PopupIds
    BY DEF PopupInv, PopupTypes
  <2>3. Popup!Live(p) => p \in routed \cap browsers
    BY <2>1, <2>2 DEF PopupInv, LivesInv, Tracked
  <2>4. Popup!Live(p) \/ p \in Popup!Range(closes["first"])
    BY <2>1 DEF Tracked, Popup!Live, Popup!Range
  <2>5. QED
    BY <2>1, <2>3, <2>4 DEF HasNews
<1>3. PopupInv /\ [Popup!Next]_(Popup!vars)
        => (phase' # phase => \A p \in PopupIds : Popup!Live(p) => told'[p] = "forced")
  <2> SUFFICES ASSUME PopupInv, [Popup!Next]_(Popup!vars), phase' # phase
               PROVE  \A p \in PopupIds : Popup!Live(p) => told'[p] = "forced"
    OBVIOUS
  <2>1. Popup!CloseAllBrowsers
    BY DEF Popup!Next, Popup!vars, Popup!BeforePopup, Popup!AfterCreated, Popup!Abort,
         Popup!BeforeClose, Popup!AddressChanges, Popup!CloseRequested, Popup!AllocsAge,
         Popup!AboutToWait, Popup!SwitchEngine
  <2>2. QED
    BY <2>1 DEF Popup!CloseAllBrowsers, PopupInv, LivesInv
<1>4. Popup!Spec => Popup!AllClosedAtExit
  BY <1>3, PopupInvHolds, PTL DEF Popup!Spec, Popup!AllClosedAtExit
<1>5. QED
  BY <1>1, <1>2, <1>4, PopupInvHolds, PTL DEF PopupsAreKept

-----------------------------------------------------------------------------
(***************************************************************************)
(* Downloads (Downloads.tla), as MCStores.tla runs them beside the build   *)
(* tool: the constants and the variables of both but `part', which is      *)
(* declared above and says which module a behaviour is one of there, too.  *)
(***************************************************************************)
CONSTANTS
  Files, Announces, MaxBytes, MaxNotices, MaxRuns, MaxFailures,
  MaxVersion, MaxCommands, MaxFaults, Profiles, Variants

VARIABLES
  rows, lastId, item, cefItems, notices, counted, failures, runs,
  index, archive, unpacked, flat, target, seen, unstaged, app, dist, cmd, said, commands, faults

Store == INSTANCE MCStores

InFlight == "in_flight"
Row == [id : Nat, number : Nat, name : Files, status : {InFlight} \cup Store!Terminal,
        received : Nat, path : SUBSET Files]
Item == [engine : {"none", "cef", "webkit", "over"}, number : Nat, row : Nat,
         state : {"none", "running", "complete", "canceled", "interrupted"}, got : Nat]

\* A row has an identity and a number of its own.
Unique(table) == \A r, s \in table : r.id = s.id \/ r.number = s.number => r = s

\* The table is well-formed and its counter is not behind it.
TableOK(table, last) ==
  /\ table \subseteq Row /\ Unique(table)
  /\ last \in Nat /\ \A r \in table : r.id <= last

LoadTypes ==
  /\ item \in [Files -> Item] /\ counted \in [Files -> Nat]
  /\ cefItems \in Nat /\ failures \in Nat /\ runs \in Nat

IsCef(f) == item[f].engine = "cef"

\* The number of a CEF item is its own in this run.
NumbersInv ==
  /\ \A f \in Files : IsCef(f) => item[f].number \in 1 .. cefItems
  /\ \A f, g \in Files : IsCef(f) /\ IsCef(g) /\ item[f].number = item[g].number => f = g

\* What has not started has no row; the row of a WebKit download is the one
\* of their number, if it is there still.
BelongsInv ==
  /\ \A r \in rows : item[r.name].engine # "none"
  /\ \A f \in Files : item[f].engine = "webkit" /\ item[f].state # "none" =>
       /\ item[f].row <= lastId
       /\ \A r \in rows : r.id = item[f].row => r.number = 0

\* What was counted is over, and no row waits for it.
Settled(f) ==
  /\ IsCef(f) /\ item[f].state = "complete"
  /\ \A r \in rows : r.number = item[f].number => r.status # InFlight
CountInv ==
  \A f \in Files : counted[f] = 0 \/ (counted[f] = 1 /\ (item[f].engine = "over" \/ Settled(f)))

\* The row of a CEF item says what became of it.
Says(r, state, f) ==
  CASE state = "running" -> r.status = InFlight
    [] state = "complete" -> r.status = "completed" /\ r.path = {f}
    [] state = "canceled" -> r.status = "canceled"
    [] state = "interrupted" -> r.status = "failed"
    [] OTHER -> FALSE
OutcomeInv ==
  failures = 0 =>
    \A f \in Files, r \in rows :
      IsCef(f) /\ r.number = item[f].number /\ r.name = f => Says(r, item[f].state, f)

LoadInv ==
  TableOK(rows, lastId) /\ LoadTypes /\ NumbersInv /\ BelongsInv /\ CountInv /\ OutcomeInv

-----------------------------------------------------------------------------
(* What a write does to the table.                                         *)

\* s is what became of the row t.
Of(s, t) == s.id = t.id /\ s.number = t.number /\ s.name = t.name

\* A row rewritten in a table in which identities and numbers are its own.
LEMMA Rewritten ==
  ASSUME NEW table, NEW new, NEW w \in [table -> Row], Unique(table),
         new = {w[r] : r \in table}, \A r \in table : Of(w[r], r)
  PROVE  /\ new \subseteq Row /\ Unique(new)
         /\ \A s \in new : \E t \in table : s = w[t] /\ Of(s, t)
         /\ \A t \in table : w[t] \in new
<1>1. \A s \in new : \E t \in table : s = w[t] /\ Of(s, t)
  OBVIOUS
<1>2. new \subseteq Row
  OBVIOUS
<1>3. Unique(new)
  <2>1. SUFFICES ASSUME NEW x \in new, NEW y \in new, x.id = y.id \/ x.number = y.number
                 PROVE  x = y
    BY DEF Unique
  <2>2. PICK t \in table : x = w[t] /\ Of(x, t)
    BY <1>1
  <2>3. PICK u \in table : y = w[u] /\ Of(y, u)
    BY <1>1
  <2>4. t.id = u.id \/ t.number = u.number
    BY <2>1, <2>2, <2>3 DEF Of
  <2>5. t = u
    BY <2>4 DEF Unique
  <2>6. QED
    BY <2>2, <2>3, <2>5
<1>4. QED
  BY <1>1, <1>2, <1>3

\* s is t with other bytes, if t is in flight and of that identity.
Ticks(s, t, id) ==
  /\ Of(s, t) /\ s.status = t.status /\ s.path = t.path
  /\ t.status # InFlight \/ t.id # id => s = t

\* update_progress leaves what is over alone.
LEMMA ProgressedIs ==
  ASSUME TableOK(rows, lastId), NEW id, NEW bytes \in Nat,
         NEW new, new = Store!Progressed(id, bytes)
  PROVE  /\ TableOK(new, lastId)
         /\ \A s \in new : \E t \in rows : Ticks(s, t, id)
         /\ \A t \in rows : t.status # InFlight => t \in new
<1> DEFINE w == [r \in rows |-> IF r.id = id /\ r.status = InFlight
                                THEN [r EXCEPT !.received = bytes] ELSE r]
<1>1. rows \subseteq Row /\ Unique(rows) /\ lastId \in Nat /\ \A r \in rows : r.id <= lastId
  BY DEF TableOK
<1>2. new = {w[r] : r \in rows}
  BY DEF Store!Progressed, InFlight
<1>3. ASSUME NEW r \in rows
      PROVE  /\ w[r] \in Row /\ Of(w[r], r) /\ Ticks(w[r], r, id)
             /\ r.status # InFlight => w[r] = r
  <2>1. r \in Row
    BY <1>1
  <2>2. [r EXCEPT !.received = bytes] \in Row
    BY <2>1 DEF Row
  <2>3. QED
    BY <2>1, <2>2 DEF Row, Of, Ticks
<1>7. w \in [rows -> Row]
  <2>1. DOMAIN w = rows
    OBVIOUS
  <2> HIDE DEF w
  <2>2. w = [r \in rows |-> w[r]]
    BY <2>1 DEF w
  <2>3. QED
    BY <1>3, <2>1, <2>2
<1> HIDE DEF w
<1>4. /\ new \subseteq Row /\ Unique(new)
      /\ \A s \in new : \E t \in rows : s = w[t] /\ Of(s, t)
      /\ \A t \in rows : w[t] \in new
  BY <1>1, <1>2, <1>3, <1>7, Rewritten
<1>5. \A s \in new : s.id <= lastId
  BY <1>1, <1>4 DEF Of
<1>6. QED
  BY <1>1, <1>3, <1>4, <1>5 DEF TableOK

\* record_completed and its siblings write one row and leave the bytes.
LEMMA EndedIs ==
  ASSUME TableOK(rows, lastId), NEW id, NEW status \in Store!Terminal, NEW path \in SUBSET Files,
         NEW new, new = Store!Ended(id, status, path)
  PROVE  /\ TableOK(new, lastId)
         /\ \A s \in new : \E t \in rows :
              /\ Of(s, t) /\ s.received = t.received /\ (t.id # id => s = t)
              /\ t.id = id => s.status = status /\ (status = "completed" => s.path = path)
         /\ \A t \in rows : t.id # id => t \in new
<1> DEFINE other(r) == [r EXCEPT !.status = status,
                                 !.path = IF status = "completed" THEN path ELSE @]
           w == [r \in rows |-> IF r.id = id THEN other(r) ELSE r]
<1>1. rows \subseteq Row /\ Unique(rows) /\ lastId \in Nat /\ \A r \in rows : r.id <= lastId
  BY DEF TableOK
<1>2. new = {w[r] : r \in rows}
  BY DEF Store!Ended
<1>3. ASSUME NEW r \in rows
      PROVE  /\ w[r] \in Row /\ Of(w[r], r) /\ w[r].received = r.received /\ (r.id # id => w[r] = r)
             /\ r.id = id => w[r].status = status /\ (status = "completed" => w[r].path = path)
  <2>1. r \in Row
    BY <1>1
  <2>2. other(r) \in Row /\ Of(other(r), r) /\ other(r).received = r.received
        /\ other(r).status = status /\ (status = "completed" => other(r).path = path)
    BY <2>1 DEF Row, Of
  <2>3. w[r] = IF r.id = id THEN other(r) ELSE r
    OBVIOUS
  <2> HIDE DEF w, other
  <2>4. QED
    BY <2>1, <2>2, <2>3 DEF Of
<1>4. w \in [rows -> Row]
  <2>1. DOMAIN w = rows /\ w = [r \in rows |-> w[r]]
    OBVIOUS
  <2> HIDE DEF w, other
  <2>2. QED
    BY <1>3, <2>1
<1> HIDE DEF w, other
<1>5. /\ new \subseteq Row /\ Unique(new)
      /\ \A s \in new : \E t \in rows : s = w[t] /\ Of(s, t)
      /\ \A t \in rows : w[t] \in new
  BY <1>1, <1>2, <1>3, <1>4, Rewritten
<1>6. \A s \in new : s.id <= lastId
  BY <1>1, <1>5 DEF Of
<1>7. TableOK(new, lastId)
  BY <1>1, <1>5, <1>6 DEF TableOK
<1>8. QED
  BY <1>3, <1>5, <1>7

\* record_started adds a row of a new identity, or leaves the table.
LEMMA StartedIs ==
  ASSUME TableOK(rows, lastId), NEW f \in Files, NEW number \in Nat,
         NEW last, last = IF Store!RowsOf(number) = {} THEN lastId + 1 ELSE lastId
  PROVE  LET new == Store!Started(f, number) IN
         /\ TableOK(new, last) /\ rows \subseteq new /\ lastId <= last
         /\ \A s \in new : \/ s \in rows
                           \/ /\ s.id = lastId + 1 /\ s.number = number /\ s.name = f
                              /\ s.status = InFlight
         /\ Store!StartedId(number) <= last
         /\ \A s \in new : s.id = Store!StartedId(number) => s.number = number
<1> DEFINE x == [id |-> lastId + 1, number |-> number, name |-> f,
                 status |-> InFlight, received |-> 0, path |-> {}]
           new == Store!Started(f, number)
           sid == Store!StartedId(number)
<1>1. rows \subseteq Row /\ Unique(rows) /\ lastId \in Nat /\ \A r \in rows : r.id <= lastId
  BY DEF TableOK
<1>2. CASE Store!RowsOf(number) = {}
  <2>1. last = lastId + 1 /\ new = rows \cup {x} /\ sid = lastId + 1
    BY <1>2 DEF Store!Started, Store!StartedId, InFlight
  <2>2. x \in Row /\ x.id = lastId + 1 /\ x.number = number /\ x.name = f /\ x.status = InFlight
    BY <1>1 DEF Row
  <2> HIDE DEF x, new, sid
  <2>3. \A r \in rows : r.number # number /\ r.id <= lastId /\ r.id \in Nat
    BY <1>1, <1>2 DEF Store!RowsOf, Row
  <2>4. \A r \in rows : r.id # lastId + 1 /\ r.id <= lastId + 1
    BY <2>3, <1>1
  <2>5. Unique(new)
    BY <1>1, <2>1, <2>2, <2>3, <2>4 DEF Unique
  <2>6. last \in Nat /\ lastId <= last /\ \A r \in new : r.id <= last
    BY <1>1, <2>1, <2>2, <2>4
  <2>7. TableOK(new, last)
    BY <1>1, <2>1, <2>2, <2>5, <2>6 DEF TableOK
  <2>8. \A s \in new : s.id = sid => s.number = number
    BY <2>1, <2>2, <2>4
  <2>9. QED
    BY <2>1, <2>2, <2>6, <2>7, <2>8 DEF new, sid
<1>3. CASE Store!RowsOf(number) # {}
  <2>1. last = lastId /\ new = rows
    BY <1>3 DEF Store!Started
  <2>2. PICK r \in rows : r.number = number /\ sid = r.id
    <3>1. \E r \in Store!RowsOf(number) : sid = r.id
      BY <1>3 DEF Store!StartedId
    <3>2. QED
      BY <3>1 DEF Store!RowsOf
  <2> HIDE DEF x, new, sid
  <2>3. \A s \in rows : s.id = sid => s.number = number
    BY <1>1, <2>2 DEF Unique
  <2>4. sid <= last
    BY <1>1, <2>1, <2>2
  <2>5. QED
    BY <1>1, <2>1, <2>3, <2>4 DEF new, sid
<1>4. QED
  BY <1>2, <1>3

\* Fewer rows are a table still.
LEMMA FewerRows ==
  ASSUME TableOK(rows, lastId), NEW new, new \subseteq rows
  PROVE  TableOK(new, lastId)
  BY DEF TableOK, Unique

-----------------------------------------------------------------------------
(* The actions.                                                            *)

LEMMA LoadInitFine == Store!Init => LoadInv
<1> SUFFICES ASSUME Store!Init PROVE LoadInv
  OBVIOUS
<1>1. rows = {} /\ lastId = 0 /\ item = [f \in Files |-> Store!NoItem] /\ cefItems = 0
      /\ counted = [f \in Files |-> 0] /\ failures = 0 /\ runs = 1
  BY DEF Store!Init
<1>2. Store!NoItem \in Item /\ Store!NoItem.engine = "none"
  BY DEF Store!NoItem, Item
<1> HIDE DEF Store!NoItem
<1>3. TableOK(rows, lastId)
  BY <1>1 DEF TableOK, Unique
<1>4. LoadTypes
  BY <1>1, <1>2 DEF LoadTypes
<1>5. \A f \in Files : item[f].engine = "none" /\ counted[f] = 0
  BY <1>1, <1>2
<1>6. NumbersInv /\ BelongsInv /\ CountInv /\ OutcomeInv
  BY <1>1, <1>5 DEF NumbersInv, BelongsInv, CountInv, OutcomeInv, IsCef
<1>7. QED
  BY <1>3, <1>4, <1>6 DEF LoadInv

\* What a download of CEF does to the items: f has the number n and has begun.
BegunAs(f, n) ==
  /\ IsCef(f)' /\ item'[f].number = n /\ item'[f].state = "running"
  /\ \A g \in Files : g # f => item'[g] = item[g]
  /\ item[f].engine = "none" \/ (IsCef(f) /\ item[f].state = "running" /\ item[f].number = n)

\* What a write that starts n for f does to the table.
AddsFor(f, n) ==
  /\ TableOK(rows', lastId') /\ rows \subseteq rows' /\ lastId <= lastId'
  /\ \A s \in rows' : s \in rows \/ (s.id = lastId + 1 /\ s.number = n /\ s.name = f /\ s.status = InFlight)

\* A write of record_started works or fails.
LEMMA WriteStarted ==
  ASSUME TableOK(rows, lastId), failures \in Nat, NEW f \in Files, NEW n \in Nat,
         \/ /\ Store!Write(Store!Started(f, n))
            /\ lastId' = IF Store!RowsOf(n) = {} THEN lastId + 1 ELSE lastId
         \/ Store!WriteFails /\ UNCHANGED lastId
  PROVE  AddsFor(f, n) /\ failures' \in Nat /\ (failures' = 0 => failures = 0)
<1>1. CASE /\ Store!Write(Store!Started(f, n))
           /\ lastId' = IF Store!RowsOf(n) = {} THEN lastId + 1 ELSE lastId
  <2>1. rows' = Store!Started(f, n) /\ failures' = failures
    BY <1>1 DEF Store!Write
  <2>2. AddsFor(f, n)
    BY <1>1, <2>1, StartedIs DEF AddsFor
  <2>3. QED
    BY <2>1, <2>2
<1>2. CASE Store!WriteFails /\ UNCHANGED lastId
  <2>1. rows' = rows /\ failures' = failures + 1 /\ lastId' = lastId
    BY <1>2 DEF Store!WriteFails
  <2>2. lastId <= lastId
    BY DEF TableOK
  <2>3. QED
    BY <2>1, <2>2 DEF AddsFor
<1>3. QED
  BY <1>1, <1>2

LEMMA BeforeDownloadKeeps ==
  ASSUME LoadInv, NEW f \in Files, Store!BeforeDownload(f)
  PROVE  LoadInv' /\ (\E n \in Nat : AddsFor(f, n)) /\ runs' = runs
<1> DEFINE n == IF item[f].engine = "none" THEN cefItems + 1 ELSE item[f].number
           first == [Store!NoItem EXCEPT !.engine = "cef", !.number = n, !.state = "running"]
<1>1. /\ \/ item[f].engine = "none" /\ cefItems' = cefItems + 1
         \/ item[f].engine = "cef" /\ item[f].state = "running" /\ UNCHANGED cefItems
      /\ item' = [item EXCEPT ![f] = IF item[f].engine = "none" THEN first ELSE item[f]]
      /\ \/ /\ Store!Write(Store!Started(f, n))
            /\ lastId' = IF Store!RowsOf(n) = {} THEN lastId + 1 ELSE lastId
         \/ Store!WriteFails /\ UNCHANGED lastId
      /\ UNCHANGED <<counted, runs>>
  BY DEF Store!BeforeDownload
<1>2. TableOK(rows, lastId) /\ LoadTypes /\ NumbersInv /\ BelongsInv /\ CountInv /\ OutcomeInv
  BY DEF LoadInv
<1>3. item[f] \in Item /\ cefItems \in Nat /\ failures \in Nat
  BY <1>2 DEF LoadTypes
<1>4. n \in Nat
  BY <1>3 DEF Item
<1>5. first \in Item /\ first.engine = "cef" /\ first.number = n /\ first.state = "running"
  BY <1>4 DEF Store!NoItem, Item
<1>6. n \in 1 .. cefItems' /\ cefItems' \in Nat /\ cefItems <= cefItems'
  BY <1>1, <1>2, <1>3 DEF NumbersInv, IsCef
<1>7. item[f].engine = "none" => n = cefItems + 1
  OBVIOUS
<1>8. item[f].engine # "none" => n = item[f].number
  OBVIOUS
<1> HIDE DEF n, first
<1>9. AddsFor(f, n) /\ failures' \in Nat /\ (failures' = 0 => failures = 0)
  BY <1>1, <1>2, <1>3, <1>4, WriteStarted
<1>10. BegunAs(f, n)
  BY <1>1, <1>2, <1>5, <1>8 DEF BegunAs, IsCef, LoadTypes
<1>11. LoadTypes'
  BY <1>1, <1>2, <1>3, <1>5, <1>6, <1>9 DEF LoadTypes
<1>12. NumbersInv'
  <2>1. \A g \in Files : g # f => item'[g] = item[g]
    BY <1>10 DEF BegunAs
  <2>2. \A g \in Files : g # f /\ IsCef(g) => item[g].number \in 1 .. cefItems'
    BY <1>2, <1>3, <1>6 DEF NumbersInv
  <2>3. \A g \in Files : g # f /\ IsCef(g) => item[g].number # n
    <3>1. CASE item[f].engine = "none"
      BY <3>1, <1>2, <1>3, <1>7 DEF NumbersInv
    <3>2. CASE item[f].engine # "none"
      BY <3>2, <1>1, <1>2, <1>8 DEF NumbersInv, IsCef
    <3>3. QED
      BY <3>1, <3>2
  <2>4. QED
    BY <2>1, <2>2, <2>3, <1>2, <1>6, <1>10 DEF NumbersInv, BegunAs, IsCef
<1>13. BelongsInv'
  <2>1. ASSUME NEW r \in rows' PROVE item'[r.name].engine # "none"
    <3>1. CASE r \in rows
      <4>1. r.name \in Files
        BY <3>1, <1>2 DEF TableOK, Row
      <4>2. QED
        BY <3>1, <4>1, <1>2, <1>10 DEF BegunAs, BelongsInv, IsCef
    <3>2. CASE r \notin rows
      BY <2>1, <3>2, <1>9, <1>10 DEF AddsFor, BegunAs, IsCef
    <3>3. QED
      BY <3>1, <3>2
  <2>2. ASSUME NEW g \in Files, item'[g].engine = "webkit", item'[g].state # "none"
        PROVE  /\ item'[g].row <= lastId'
               /\ \A r \in rows' : r.id = item'[g].row => r.number = 0
    <3>1. g # f /\ item'[g] = item[g]
      BY <2>2, <1>10 DEF BegunAs, IsCef
    <3>2. item[g].row <= lastId /\ \A r \in rows : r.id = item[g].row => r.number = 0
      BY <2>2, <3>1, <1>2 DEF BelongsInv
    <3>3. item[g].row \in Nat /\ lastId \in Nat /\ lastId' \in Nat /\ lastId <= lastId'
      BY <1>2, <1>9 DEF LoadTypes, Item, TableOK, AddsFor
    <3>4. item[g].row # lastId + 1 /\ item[g].row <= lastId'
      BY <3>2, <3>3
    <3>5. QED
      BY <3>1, <3>2, <3>4, <1>9 DEF AddsFor
  <2>3. QED
    BY <2>1, <2>2 DEF BelongsInv
<1>14. CountInv'
  <2>1. ASSUME NEW g \in Files, counted[g] # 0 PROVE counted[g] = 1 /\ (item'[g].engine = "over" \/ Settled(g)')
    <3>1. counted[g] = 1 /\ (item[g].engine = "over" \/ Settled(g))
      BY <2>1, <1>2 DEF CountInv
    <3>2. g # f
      BY <3>1, <1>10 DEF BegunAs, Settled, IsCef
    <3>3. item'[g] = item[g]
      BY <3>2, <1>10 DEF BegunAs
    <3>4. ASSUME Settled(g) PROVE Settled(g)'
      <4>1. IsCef(g)' /\ item'[g].state = "complete"
        BY <3>3, <3>4 DEF Settled, IsCef
      <4>2. item'[g].number # n
        BY <4>1, <3>2, <1>10, <1>12 DEF NumbersInv, BegunAs
      <4>3. \A r \in rows' : r.number = item'[g].number => r.status # InFlight
        BY <4>2, <3>3, <3>4, <1>9 DEF AddsFor, Settled
      <4>4. QED
        BY <4>1, <4>3 DEF Settled
    <3>5. QED
      BY <3>1, <3>3, <3>4
  <2>2. QED
    BY <2>1, <1>1 DEF CountInv
<1>15. OutcomeInv'
  <2>1. SUFFICES ASSUME failures' = 0, NEW g \in Files, NEW r \in rows',
                        IsCef(g)', r.number = item'[g].number, r.name = g
                 PROVE  Says(r, item'[g].state, g)
    BY DEF OutcomeInv, Says
  <2>2. failures = 0
    BY <2>1, <1>9
  <2>3. CASE r \in rows /\ g # f
    BY <2>1, <2>2, <2>3, <1>2, <1>10 DEF OutcomeInv, BegunAs, IsCef
  <2>4. CASE r \in rows /\ g = f
    <3>1. item[f].engine # "none"
      BY <2>1, <2>4, <1>2 DEF BelongsInv
    <3>2. IsCef(f) /\ item[f].state = "running" /\ item[f].number = r.number
      BY <2>1, <2>4, <3>1, <1>10 DEF BegunAs
    <3>3. Says(r, "running", f)
      BY <2>1, <2>2, <2>4, <3>2, <1>2 DEF OutcomeInv
    <3>4. QED
      BY <2>4, <3>3, <1>10 DEF BegunAs
  <2>5. CASE r \notin rows
    <3>1. g = f /\ r.status = InFlight
      BY <2>1, <2>5, <1>9 DEF AddsFor
    <3>2. QED
      BY <3>1, <1>10 DEF BegunAs, Says
  <2>6. QED
    BY <2>3, <2>4, <2>5
<1>16. TableOK(rows, lastId)'
  BY <1>9 DEF AddsFor
<1>17. QED
  BY <1>1, <1>4, <1>9, <1>11, <1>12, <1>13, <1>14, <1>15, <1>16 DEF LoadInv


\* A write to rows of the number n: the others stay, and nothing is put back
\* into flight.
Rewrites(n) ==
  /\ TableOK(rows', lastId') /\ lastId' = lastId
  /\ \A s \in rows' : \E t \in rows :
       Of(s, t) /\ (t.number # n => s = t) /\ (s.status = InFlight => t.status = InFlight)

\* What is over stays, as OverIsFrozen says.
Frozen ==
  \A r \in rows : r.status \in Store!Terminal =>
    /\ r.number # 0 => r \in rows' \/ (r.status = "completed" /\ rows' \subseteq rows)
    /\ \A s \in rows' : s.id = r.id => s.received = r.received

LEMMA InFlightIs == InFlight \notin Store!Terminal
  BY DEF InFlight, Store!Terminal

LEMMA AddsFreezes ==
  ASSUME TableOK(rows, lastId), NEW f, NEW n, AddsFor(f, n)
  PROVE  Frozen
<1> SUFFICES ASSUME NEW r \in rows PROVE r \in rows' /\ \A s \in rows' : s.id = r.id => s = r
  BY DEF Frozen
<1>1. r \in rows' /\ r.id \in Nat /\ r.id <= lastId /\ lastId \in Nat
  BY DEF AddsFor, TableOK, Row
<1>2. \A s \in rows' : s.id = r.id => s = r
  BY <1>1 DEF AddsFor, TableOK, Unique
<1>3. QED
  BY <1>1, <1>2

LEMMA SameRows ==
  ASSUME TableOK(rows, lastId), rows' = rows, lastId' = lastId, NEW n
  PROVE  Rewrites(n) /\ Frozen
<1>1. \A s \in rows : Of(s, s)
  BY DEF Of
<1>2. \A r, s \in rows : s.id = r.id => s = r
  BY DEF TableOK, Unique
<1>3. Rewrites(n)
  BY <1>1 DEF Rewrites
<1>4. Frozen
  BY <1>2 DEF Frozen
<1>5. QED
  BY <1>3, <1>4

LEMMA WriteProgressed ==
  ASSUME TableOK(rows, lastId), lastId' = lastId, NEW id, NEW bytes \in Nat, NEW n,
         rows' = Store!Progressed(id, bytes), \A t \in rows : t.id = id => t.number = n
  PROVE  /\ Rewrites(n) /\ Frozen
         /\ \A s \in rows' : \E t \in rows : Ticks(s, t, id)
<1>1. /\ TableOK(rows', lastId)
      /\ \A s \in rows' : \E t \in rows : Ticks(s, t, id)
      /\ \A t \in rows : t.status # InFlight => t \in rows'
  BY ProgressedIs
<1>2. Rewrites(n)
  BY <1>1 DEF Rewrites, Ticks
<1>3. Frozen
  <2>1. SUFFICES ASSUME NEW r \in rows, r.status # InFlight
                 PROVE  r \in rows' /\ \A s \in rows' : s.id = r.id => s = r
    BY InFlightIs DEF Frozen
  <2>2. r \in rows'
    BY <1>1, <2>1
  <2>3. QED
    BY <2>2, <1>1 DEF TableOK, Unique
<1>5. QED
  BY <1>1, <1>2, <1>3

LEMMA WriteEnded ==
  ASSUME TableOK(rows, lastId), lastId' = lastId, NEW id, NEW n,
         NEW status \in Store!Terminal, NEW path \in SUBSET Files,
         rows' = Store!Ended(id, status, path),
         \A t \in rows : t.id = id => t.number = n /\ (n = 0 \/ t.status = InFlight)
  PROVE  /\ Rewrites(n) /\ Frozen
         /\ \A s \in rows' : \E t \in rows :
              /\ Of(s, t) /\ (t.id # id => s = t)
              /\ t.id = id => s.status = status /\ (status = "completed" => s.path = path)
<1>1. /\ TableOK(rows', lastId)
      /\ \A s \in rows' : \E t \in rows :
           /\ Of(s, t) /\ s.received = t.received /\ (t.id # id => s = t)
           /\ t.id = id => s.status = status /\ (status = "completed" => s.path = path)
      /\ \A t \in rows : t.id # id => t \in rows'
  BY EndedIs
<1>2. Rewrites(n)
  BY <1>1, InFlightIs DEF Rewrites
<1>3. Frozen
  <2>1. SUFFICES ASSUME NEW r \in rows, r.status \in Store!Terminal
                 PROVE  /\ r.number # 0 => r \in rows'
                        /\ \A s \in rows' : s.id = r.id => s.received = r.received
    BY DEF Frozen
  <2>2. r.number # 0 => r.id # id
    BY <2>1, InFlightIs
  <2>3. \A s \in rows' : s.id = r.id => s.received = r.received
    BY <1>1 DEF TableOK, Unique, Of
  <2>4. QED
    BY <1>1, <2>2, <2>3
<1>4. QED
  BY <1>1, <1>2, <1>3

\* What a rewriting of rows leaves as it is.
LEMMA RewriteBelongs ==
  ASSUME BelongsInv, NEW n, Rewrites(n), TableOK(rows, lastId),
         \A g \in Files : /\ item'[g].engine = item[g].engine /\ item'[g].row = item[g].row
                          /\ item'[g].state # "none" => item[g].state # "none"
  PROVE  BelongsInv'
<1>1. ASSUME NEW s \in rows' PROVE item'[s.name].engine # "none"
  <2>1. PICK t \in rows : Of(s, t)
    BY DEF Rewrites
  <2>2. t.name \in Files /\ s.name = t.name
    BY <2>1 DEF TableOK, Row, Of
  <2>3. QED
    BY <2>2 DEF BelongsInv
<1>2. ASSUME NEW g \in Files, item'[g].engine = "webkit", item'[g].state # "none"
      PROVE  /\ item'[g].row <= lastId'
             /\ \A s \in rows' : s.id = item'[g].row => s.number = 0
  <2>1. item[g].row <= lastId /\ \A t \in rows : t.id = item[g].row => t.number = 0
    BY <1>2 DEF BelongsInv
  <2>2. \A s \in rows' : s.id = item[g].row => s.number = 0
    BY <2>1 DEF Rewrites, Of
  <2>3. QED
    BY <2>1, <2>2 DEF Rewrites
<1>3. QED
  BY <1>1, <1>2 DEF BelongsInv

LEMMA RewriteSettled ==
  ASSUME NEW n, Rewrites(n), NEW g \in Files, Settled(g),
         item'[g].engine = item[g].engine, item'[g].number = item[g].number,
         item'[g].state = item[g].state
  PROVE  Settled(g)'
<1>1. IsCef(g)' /\ item'[g].state = "complete"
  BY DEF Settled, IsCef
<1>2. \A s \in rows' : s.number = item'[g].number => s.status # InFlight
  BY DEF Rewrites, Settled, Of
<1>3. QED
  BY <1>1, <1>2 DEF Settled

LEMMA RewriteOutcome ==
  ASSUME OutcomeInv, failures = 0, NEW n, Rewrites(n), NEW g \in Files, item'[g] = item[g],
         IsCef(g), item[g].number # n,
         NEW r \in rows', r.number = item'[g].number, r.name = g
  PROVE  Says(r, item'[g].state, g)
<1>1. PICK t \in rows : Of(r, t) /\ (t.number # n => r = t)
  BY DEF Rewrites
<1>2. r \in rows
  BY <1>1 DEF Of
<1>3. QED
  BY <1>2 DEF OutcomeInv
-----------------------------------------------------------------------------

\* One item moves on and one number of rows with it; the outcome of the item
\* is what its row says, and it is counted when its row is closed.
LEMMA ItemMovesKeeps ==
  ASSUME LoadInv, NEW f \in Files, NEW now \in Item, NEW n \in Nat,
         item' = [item EXCEPT ![f] = now], Rewrites(n),
         now.engine = item[f].engine, now.number = item[f].number, now.row = item[f].row,
         item[f].state \in {"running", "interrupted"} \/ now.state = item[f].state,
         IsCef(f) => n = item[f].number /\ (item[f].state = "complete" => now.state = "complete"),
         ~IsCef(f) => n = 0,
         UNCHANGED <<cefItems, runs>>, failures' \in Nat, failures' = 0 => failures = 0,
         \/ counted' = counted
         \/ /\ IsCef(f) /\ counted[f] = 0 /\ counted' = [counted EXCEPT ![f] = @ + 1]
            /\ now.state = "complete" /\ \A s \in rows' : s.number = n => s.status # InFlight,
         IsCef(f) /\ failures' = 0 =>
           \A s \in rows' : s.number = n /\ s.name = f => Says(s, now.state, f)
  PROVE  LoadInv'
<1>1. TableOK(rows, lastId) /\ LoadTypes /\ NumbersInv /\ BelongsInv /\ CountInv /\ OutcomeInv
  BY DEF LoadInv
<1>2. /\ item'[f] = now
      /\ \A g \in Files : g # f => item'[g] = item[g]
  BY <1>1 DEF LoadTypes
<1>3. TableOK(rows, lastId)'
  BY DEF Rewrites
<1>4. \A g \in Files : IsCef(g)' <=> IsCef(g)
  BY <1>2 DEF IsCef
<1>5. \A g \in Files : item'[g].number = item[g].number
  BY <1>2
<1>6. LoadTypes'
  <2>1. item' \in [Files -> Item]
    BY <1>1 DEF LoadTypes
  <2>2. counted' \in [Files -> Nat]
    <3>1. CASE counted' = counted
      BY <3>1, <1>1 DEF LoadTypes
    <3>2. CASE counted' = [counted EXCEPT ![f] = @ + 1]
      BY <3>2, <1>1 DEF LoadTypes
    <3>3. QED
      BY <3>1, <3>2
  <2>3. QED
    BY <1>1, <2>1, <2>2 DEF LoadTypes
<1>7. NumbersInv'
  BY <1>1, <1>4, <1>5 DEF NumbersInv
<1>8. BelongsInv'
  <2>1. \A g \in Files : /\ item'[g].engine = item[g].engine /\ item'[g].row = item[g].row
                         /\ item'[g].state # "none" => item[g].state # "none"
    BY <1>2
  <2>2. QED
    BY <2>1, <1>1, RewriteBelongs
<1>9. ASSUME NEW g \in Files, Settled(g) PROVE Settled(g)'
  <2>1. item'[g].engine = item[g].engine /\ item'[g].number = item[g].number
    BY <1>2
  <2>2. item'[g].state = item[g].state
    <3>1. CASE g = f
      BY <3>1, <1>2, <1>9 DEF Settled
    <3>2. CASE g # f
      BY <3>2, <1>2
    <3>3. QED
      BY <3>1, <3>2
  <2>3. QED
    BY <2>1, <2>2, <1>9, RewriteSettled
<1>10. CountInv'
  <2>1. SUFFICES ASSUME NEW g \in Files, counted'[g] # 0
                 PROVE  counted'[g] = 1 /\ (item'[g].engine = "over" \/ Settled(g)')
    BY DEF CountInv
  <2>2. CASE counted'[g] = counted[g]
    <3>1. counted[g] = 1 /\ (item[g].engine = "over" \/ Settled(g))
      BY <2>1, <2>2, <1>1 DEF CountInv
    <3>2. QED
      BY <2>2, <3>1, <1>2, <1>9
  <2>3. CASE counted'[g] # counted[g]
    <3>1. counted' # counted
      BY <2>3
    <3>2. /\ IsCef(f) /\ counted[f] = 0 /\ counted' = [counted EXCEPT ![f] = @ + 1]
          /\ now.state = "complete" /\ \A s \in rows' : s.number = n => s.status # InFlight
      BY <3>1
    <3>3. g = f /\ counted'[g] = 1
      BY <2>3, <3>2, <1>1 DEF LoadTypes
    <3>4. Settled(f)'
      BY <3>2, <1>2, <1>4 DEF Settled
    <3>5. QED
      BY <3>3, <3>4
  <2>4. QED
    BY <2>2, <2>3
<1>11. OutcomeInv'
  <2>1. SUFFICES ASSUME failures' = 0, NEW g \in Files, NEW r \in rows',
                        IsCef(g), r.number = item'[g].number, r.name = g
                 PROVE  Says(r, item'[g].state, g)
    BY <1>4 DEF OutcomeInv, Says
  <2>2. CASE g = f
    BY <2>1, <2>2, <1>2
  <2>3. CASE g # f
    <3>1. item[g].number # n
      <4>1. CASE IsCef(f)
        BY <4>1, <2>1, <2>3, <1>1 DEF NumbersInv
      <4>2. CASE ~IsCef(f)
        <5>1. item[g].number \in 1 .. cefItems /\ n = 0
          BY <4>2, <2>1, <1>1 DEF NumbersInv
        <5>2. QED
          BY <5>1, <1>1 DEF LoadTypes
      <4>3. QED
        BY <4>1, <4>2
    <3>2. item'[g] = item[g]
      BY <2>3, <1>2
    <3>3. QED
      BY <2>1, <3>1, <3>2, <1>1, RewriteOutcome
  <2>4. QED
    BY <2>2, <2>3
<1>12. QED
  BY <1>3, <1>6, <1>7, <1>8, <1>10, <1>11 DEF LoadInv

\* What CEF says next of an item.
LEMMA BecomesIs ==
  ASSUME NEW i \in Item, NEW now \in Store!Becomes(i)
  PROVE  /\ now \in Item /\ now.engine = i.engine /\ now.number = i.number /\ now.row = i.row
         /\ i.state = "running" \/ now = i
<1>1. CASE i.state # "running"
  BY <1>1 DEF Store!Becomes
<1>2. CASE i.state = "running"
  <2>1. \/ \E b \in i.got .. MaxBytes : now = [i EXCEPT !.got = b]
        \/ \E s \in {"complete", "canceled", "interrupted"} : now = [i EXCEPT !.state = s]
    BY <1>2 DEF Store!Becomes
  <2>2. \A b \in i.got .. MaxBytes : b \in Nat
    BY DEF Item
  <2>3. CASE \E b \in i.got .. MaxBytes : now = [i EXCEPT !.got = b]
    BY <2>2, <2>3, <1>2 DEF Item
  <2>4. CASE \E s \in {"complete", "canceled", "interrupted"} : now = [i EXCEPT !.state = s]
    BY <2>4, <1>2 DEF Item
  <2>5. QED
    BY <2>1, <2>3, <2>4
<1>3. QED
  BY <1>1, <1>2

LEMMA DownloadUpdatedKeeps ==
  ASSUME LoadInv, NEW f \in Files, Store!DownloadUpdated(f)
  PROVE  LoadInv' /\ Frozen /\ runs' = runs
<1>1. TableOK(rows, lastId) /\ LoadTypes /\ NumbersInv /\ CountInv /\ OutcomeInv
  BY DEF LoadInv
<1>2. PICK now \in Store!Becomes(item[f]) :
       /\ item' = [item EXCEPT ![f] = now]
       /\ \/ Store!Ticked(now.number) = {} /\ UNCHANGED <<rows, counted, failures>>
          \/ \E r \in Store!Ticked(now.number) :
               \/ /\ now.state = "complete"
                  /\ Store!Write(Store!Ended(r.id, "completed", {f}))
                  /\ counted' = [counted EXCEPT ![f] = @ + 1]
               \/ /\ now.state = "canceled"
                  /\ Store!Write(Store!Ended(r.id, "canceled", {})) /\ UNCHANGED counted
               \/ /\ now.state = "interrupted"
                  /\ Store!Write(Store!Ended(r.id, "failed", {})) \/ Store!WriteFails
                  /\ UNCHANGED counted
               \/ /\ now.state = "running"
                  /\ Store!Write(Store!Progressed(r.id, now.got)) /\ UNCHANGED counted
               \/ Store!WriteFails /\ UNCHANGED counted
  BY DEF Store!DownloadUpdated
<1>3. IsCef(f) /\ UNCHANGED <<lastId, cefItems, runs>>
  BY DEF Store!DownloadUpdated, IsCef
<1>4. item[f] \in Item
  BY <1>1 DEF LoadTypes
<1>5. /\ now \in Item /\ now.engine = item[f].engine /\ now.number = item[f].number
      /\ now.row = item[f].row /\ (item[f].state = "running" \/ now = item[f])
  BY <1>2, <1>4, BecomesIs
<1> DEFINE n == item[f].number
<1>6. n \in Nat /\ now.got \in Nat
  BY <1>4, <1>5 DEF Item
<1>7. failures \in Nat /\ counted[f] \in Nat
  BY <1>1 DEF LoadTypes
\* What is left to show in each case.
<1> DEFINE Done ==
      /\ Rewrites(n) /\ Frozen /\ failures' \in Nat /\ (failures' = 0 => failures = 0)
      /\ \/ counted' = counted
         \/ /\ counted[f] = 0 /\ counted' = [counted EXCEPT ![f] = @ + 1]
            /\ now.state = "complete" /\ \A s \in rows' : s.number = n => s.status # InFlight
      /\ failures' = 0 => \A s \in rows' : s.number = n /\ s.name = f => Says(s, now.state, f)
<1>8. ASSUME Store!Ticked(n) = {}, UNCHANGED <<rows, counted, failures>> PROVE Done
  <2>1. Rewrites(n) /\ Frozen
    BY <1>1, <1>3, <1>8, SameRows
  <2>2. ASSUME failures' = 0, NEW s \in rows, s.number = n, s.name = f PROVE Says(s, now.state, f)
    <3>1. Says(s, item[f].state, f)
      BY <2>2, <1>1, <1>3, <1>8 DEF OutcomeInv
    <3>2. s.status # InFlight
      BY <2>2, <1>8 DEF Store!Ticked, Store!RowsOf, InFlight
    <3>3. item[f].state # "running"
      BY <3>1, <3>2 DEF Says
    <3>4. QED
      BY <3>1, <3>3, <1>5
  <2>3. QED
    BY <2>1, <2>2, <1>7, <1>8
<1>9. ASSUME NEW r \in Store!Ticked(n) PROVE r \in rows /\ r.number = n /\ r.status = InFlight
  BY <1>9 DEF Store!Ticked, Store!RowsOf, InFlight
<1>10. ASSUME NEW r \in Store!Ticked(n) PROVE \A t \in rows : t.id = r.id \/ t.number = n => t = r
  BY <1>1, <1>9 DEF TableOK, Unique
<1>11. ASSUME NEW r \in Store!Ticked(n), NEW status \in Store!Terminal, NEW path \in SUBSET Files,
              Store!Write(Store!Ended(r.id, status, path))
       PROVE  /\ Rewrites(n) /\ Frozen /\ failures' = failures
              /\ \A s \in rows' : s.number = n => s.status = status /\ (status = "completed" => s.path = path)
  <2>1. rows' = Store!Ended(r.id, status, path) /\ failures' = failures
    BY <1>11 DEF Store!Write
  <2>2. \A t \in rows : t.id = r.id => t.number = n /\ t.status = InFlight
    BY <1>9, <1>10
  <2>3. /\ Rewrites(n) /\ Frozen
        /\ \A s \in rows' : \E t \in rows :
             /\ Of(s, t) /\ (t.id # r.id => s = t)
             /\ t.id = r.id => s.status = status /\ (status = "completed" => s.path = path)
    BY <1>1, <1>3, <2>1, <2>2, WriteEnded
  <2>4. ASSUME NEW s \in rows', s.number = n
        PROVE  s.status = status /\ (status = "completed" => s.path = path)
    <3>1. PICK t \in rows :
            /\ Of(s, t)
            /\ t.id = r.id => s.status = status /\ (status = "completed" => s.path = path)
      BY <2>3
    <3>2. t.number = n
      BY <2>4, <3>1 DEF Of
    <3>3. t = r
      BY <3>2, <1>10
    <3>4. QED
      BY <3>1, <3>3
  <2>5. QED
    BY <2>1, <2>3, <2>4
<1>12. ASSUME NEW r \in Store!Ticked(n), now.state = "complete",
              Store!Write(Store!Ended(r.id, "completed", {f})),
              counted' = [counted EXCEPT ![f] = @ + 1]
       PROVE  Done
  <2>1. "completed" \in Store!Terminal /\ {f} \in SUBSET Files /\ "completed" # InFlight
    BY DEF Store!Terminal, InFlight
  <2>2. /\ Rewrites(n) /\ Frozen /\ failures' = failures
        /\ \A s \in rows' : s.number = n => s.status = "completed" /\ s.path = {f}
    BY <2>1, <1>11, <1>12
  <2>3. counted[f] = 0
    <3>1. ~Settled(f) /\ item[f].engine # "over"
      BY <1>3, <1>9, <1>12 DEF Settled, IsCef
    <3>2. QED
      BY <3>1, <1>1 DEF CountInv
  <2>4. \A s \in rows' : s.number = n => Says(s, now.state, f) /\ s.status # InFlight
    BY <2>1, <2>2, <1>12 DEF Says
  <2>5. QED
    BY <2>2, <2>3, <2>4, <1>7, <1>12
<1>13. ASSUME NEW r \in Store!Ticked(n), now.state = "canceled",
              Store!Write(Store!Ended(r.id, "canceled", {})), UNCHANGED counted
       PROVE  Done
  <2>1. "canceled" \in Store!Terminal /\ {} \in SUBSET Files
    BY DEF Store!Terminal
  <2>2. /\ Rewrites(n) /\ Frozen /\ failures' = failures
        /\ \A s \in rows' : s.number = n => s.status = "canceled"
    BY <2>1, <1>11, <1>13
  <2>3. \A s \in rows' : s.number = n => Says(s, now.state, f)
    BY <2>2, <1>13 DEF Says
  <2>4. QED
    BY <2>2, <2>3, <1>7, <1>13
<1>14. ASSUME NEW r \in Store!Ticked(n), now.state = "interrupted",
              Store!Write(Store!Ended(r.id, "failed", {})), UNCHANGED counted
       PROVE  Done
  <2>1. "failed" \in Store!Terminal /\ {} \in SUBSET Files
    BY DEF Store!Terminal
  <2>2. /\ Rewrites(n) /\ Frozen /\ failures' = failures
        /\ \A s \in rows' : s.number = n => s.status = "failed"
    <3> DEFINE status == "failed"
               path == {}
    <3>1. status \in Store!Terminal /\ path \in SUBSET Files /\ Store!Write(Store!Ended(r.id, status, path))
      BY <2>1, <1>14
    <3>2. status = "failed"
      OBVIOUS
    <3> HIDE DEF status, path
    <3>3. QED
      BY <3>1, <3>2, <1>11
  <2>3. \A s \in rows' : s.number = n => Says(s, now.state, f)
    BY <2>2, <1>14 DEF Says
  <2>4. QED
    BY <2>2, <2>3, <1>7, <1>14
<1>15. ASSUME NEW r \in Store!Ticked(n), now.state = "running",
              Store!Write(Store!Progressed(r.id, now.got)), UNCHANGED counted
       PROVE  Done
  <2>1. rows' = Store!Progressed(r.id, now.got) /\ failures' = failures
    BY <1>15 DEF Store!Write
  <2>2. \A t \in rows : t.id = r.id => t.number = n
    BY <1>9, <1>10, <1>15
  <2>3. Rewrites(n) /\ Frozen /\ \A s \in rows' : \E t \in rows : Ticks(s, t, r.id)
    BY <1>1, <1>3, <1>6, <2>1, <2>2, WriteProgressed
  <2>4. ASSUME NEW s \in rows', s.number = n PROVE Says(s, now.state, f)
    <3>1. PICK t \in rows : Ticks(s, t, r.id)
      BY <2>3
    <3>2. t.number = n /\ s.status = t.status
      BY <2>4, <3>1 DEF Ticks, Of
    <3>3. t = r
      BY <3>2, <1>10, <1>15
    <3>4. QED
      BY <3>2, <3>3, <1>9, <1>15 DEF Says
  <2>5. QED
    BY <2>1, <2>3, <2>4, <1>7, <1>15
<1>16. ASSUME Store!WriteFails, UNCHANGED counted PROVE Done
  <2>1. rows' = rows /\ failures' = failures + 1
    BY <1>16 DEF Store!WriteFails
  <2>2. Rewrites(n) /\ Frozen
    BY <1>1, <1>3, <2>1, SameRows
  <2>3. failures' \in Nat /\ failures' # 0
    BY <2>1, <1>7
  <2>4. QED
    BY <2>2, <2>3, <1>16
<1>17. Done
  BY <1>2, <1>5, <1>8, <1>12, <1>13, <1>14, <1>15, <1>16
<1>18. LoadInv'
  BY <1>2, <1>3, <1>5, <1>6, <1>17, ItemMovesKeeps
<1>19. QED
  BY <1>3, <1>17, <1>18
-----------------------------------------------------------------------------
LEMMA WebKitStartedKeeps ==
  ASSUME LoadInv, NEW f \in Files, Store!WebKitStarted(f)
  PROVE  LoadInv' /\ Frozen /\ runs' = runs
<1> DEFINE sid == Store!StartedId(0)
           begun == [engine |-> "webkit", number |-> 0, row |-> sid, state |-> "running", got |-> 0]
           still == [Store!NoItem EXCEPT !.engine = "webkit"]
<1>1. TableOK(rows, lastId) /\ LoadTypes /\ NumbersInv /\ BelongsInv /\ CountInv /\ OutcomeInv
  BY DEF LoadInv
<1>2. /\ item[f].engine = "none" /\ UNCHANGED <<cefItems, counted, runs>>
      /\ \/ /\ Store!Write(Store!Started(f, 0))
            /\ lastId' = IF Store!RowsOf(0) = {} THEN lastId + 1 ELSE lastId
            /\ item' = [item EXCEPT ![f] = begun]
         \/ Store!WriteFails /\ item' = [item EXCEPT ![f] = still] /\ UNCHANGED lastId
  BY DEF Store!WebKitStarted, Store!WebKitNumber
<1>3. failures \in Nat /\ 0 \in Nat
  BY <1>1 DEF LoadTypes
<1>4. AddsFor(f, 0) /\ failures' \in Nat /\ (failures' = 0 => failures = 0)
  BY <1>1, <1>2, <1>3, WriteStarted
<1>5. Frozen
  BY <1>1, <1>4, AddsFreezes
<1>6. /\ Store!Write(Store!Started(f, 0))
      /\ lastId' = IF Store!RowsOf(0) = {} THEN lastId + 1 ELSE lastId
      => sid \in Nat /\ sid <= lastId' /\ \A s \in rows' : s.id = sid => s.number = 0
  <2>1. SUFFICES ASSUME rows' = Store!Started(f, 0),
                        lastId' = IF Store!RowsOf(0) = {} THEN lastId + 1 ELSE lastId
                 PROVE  sid \in Nat /\ sid <= lastId' /\ \A s \in rows' : s.id = sid => s.number = 0
    BY DEF Store!Write
  <2>2. sid <= lastId' /\ \A s \in rows' : s.id = sid => s.number = 0
    BY <1>1, <1>3, <2>1, StartedIs
  <2>3. sid \in Nat
    <3>1. CASE Store!RowsOf(0) = {}
      BY <3>1, <1>1 DEF Store!StartedId, TableOK
    <3>2. CASE Store!RowsOf(0) # {}
      <4>1. \E r \in Store!RowsOf(0) : sid = r.id
        BY <3>2 DEF Store!StartedId
      <4>2. PICK r \in rows : sid = r.id
        BY <4>1 DEF Store!RowsOf
      <4>3. QED
        BY <4>2, <1>1 DEF TableOK, Row
    <3>3. QED
      BY <3>1, <3>2
  <2>4. QED
    BY <2>2, <2>3
<1> HIDE DEF sid
\* What f is now.
<1>7. PICK now \in Item :
        /\ item' = [item EXCEPT ![f] = now] /\ now.engine = "webkit"
        /\ now.state # "none" => now.row <= lastId' /\ \A s \in rows' : s.id = now.row => s.number = 0
  <2>1. CASE /\ Store!Write(Store!Started(f, 0))
             /\ lastId' = IF Store!RowsOf(0) = {} THEN lastId + 1 ELSE lastId
             /\ item' = [item EXCEPT ![f] = begun]
    <3>1. sid \in Nat /\ sid <= lastId' /\ \A s \in rows' : s.id = sid => s.number = 0
      BY <2>1, <1>6
    <3>2. begun \in Item /\ begun.engine = "webkit" /\ begun.row = sid
      BY <3>1 DEF Item
    <3> HIDE DEF begun
    <3>3. QED
      BY <2>1, <3>1, <3>2
  <2>2. CASE Store!WriteFails /\ item' = [item EXCEPT ![f] = still] /\ UNCHANGED lastId
    <3>1. still \in Item /\ still.engine = "webkit" /\ still.state = "none"
      BY DEF Store!NoItem, Item
    <3> HIDE DEF still
    <3>2. QED
      BY <2>2, <3>1
  <2>3. QED
    BY <1>2, <2>1, <2>2
<1> HIDE DEF begun, still
<1>8. item'[f] = now /\ \A g \in Files : g # f => item'[g] = item[g]
  BY <1>1, <1>7 DEF LoadTypes
<1>9. LoadTypes'
  BY <1>1, <1>2, <1>4, <1>7 DEF LoadTypes
<1>10. \A g \in Files : IsCef(g)' => g # f /\ IsCef(g) /\ item'[g] = item[g]
  BY <1>7, <1>8 DEF IsCef
<1>11. NumbersInv'
  BY <1>1, <1>2, <1>10 DEF NumbersInv
<1>12. BelongsInv'
  <2>1. ASSUME NEW r \in rows' PROVE item'[r.name].engine # "none"
    <3>1. CASE r \in rows
      <4>1. r.name \in Files /\ item[r.name].engine # "none"
        BY <3>1, <1>1 DEF TableOK, Row, BelongsInv
      <4>2. QED
        BY <4>1, <1>7, <1>8
    <3>2. CASE r \notin rows
      BY <2>1, <3>2, <1>4, <1>7, <1>8 DEF AddsFor
    <3>3. QED
      BY <3>1, <3>2
  <2>2. ASSUME NEW g \in Files, item'[g].engine = "webkit", item'[g].state # "none"
        PROVE  item'[g].row <= lastId' /\ \A r \in rows' : r.id = item'[g].row => r.number = 0
    <3>1. CASE g = f
      BY <2>2, <3>1, <1>7, <1>8
    <3>2. CASE g # f
      <4>1. item'[g] = item[g]
        BY <3>2, <1>8
      <4>2. item[g].row <= lastId /\ \A r \in rows : r.id = item[g].row => r.number = 0
        BY <2>2, <4>1, <1>1 DEF BelongsInv
      <4>3. item[g].row \in Nat /\ lastId \in Nat /\ lastId' \in Nat /\ lastId <= lastId'
        BY <1>1, <1>4 DEF LoadTypes, Item, TableOK, AddsFor
      <4>4. item[g].row # lastId + 1 /\ item[g].row <= lastId'
        BY <4>2, <4>3
      <4>5. QED
        BY <4>1, <4>2, <4>4, <1>4 DEF AddsFor
    <3>3. QED
      BY <3>1, <3>2
  <2>3. QED
    BY <2>1, <2>2 DEF BelongsInv
<1>13. CountInv'
  <2>1. SUFFICES ASSUME NEW g \in Files, counted[g] # 0
                 PROVE  counted[g] = 1 /\ (item'[g].engine = "over" \/ Settled(g)')
    BY <1>2 DEF CountInv
  <2>2. counted[g] = 1 /\ (item[g].engine = "over" \/ Settled(g))
    BY <2>1, <1>1 DEF CountInv
  <2>3. g # f
    BY <2>2, <1>2 DEF Settled, IsCef
  <2>4. item'[g] = item[g]
    BY <2>3, <1>8
  <2>5. ASSUME Settled(g) PROVE Settled(g)'
    <3>1. IsCef(g) /\ item[g].state = "complete" /\ \A r \in rows : r.number = item[g].number => r.status # InFlight
      BY <2>5 DEF Settled
    <3>2. item[g].number # 0
      BY <3>1, <1>1 DEF NumbersInv, LoadTypes
    <3>3. QED
      BY <3>1, <3>2, <2>4, <1>4 DEF Settled, IsCef, AddsFor
  <2>6. QED
    BY <2>2, <2>4, <2>5
<1>14. OutcomeInv'
  <2>1. SUFFICES ASSUME failures' = 0, NEW g \in Files, NEW r \in rows',
                        IsCef(g)', r.number = item'[g].number, r.name = g
                 PROVE  Says(r, item'[g].state, g)
    BY DEF OutcomeInv, Says
  <2>2. g # f /\ IsCef(g) /\ item'[g] = item[g]
    BY <2>1, <1>10
  <2>3. r \in rows
    BY <2>1, <2>2, <1>4 DEF AddsFor
  <2>4. QED
    BY <2>1, <2>2, <2>3, <1>1, <1>4 DEF OutcomeInv
<1>15. TableOK(rows, lastId)'
  BY <1>4 DEF AddsFor
<1>16. QED
  BY <1>2, <1>5, <1>9, <1>11, <1>12, <1>13, <1>14, <1>15 DEF LoadInv

\* A write of a WebKit signal, or its failure.
LEMMA WebKitWriteKeeps ==
  ASSUME LoadInv, NEW f \in Files, item[f].engine = "webkit",
         item[f].state \in {"running", "interrupted"},
         NEW now \in Item, item' = [item EXCEPT ![f] = now],
         now.engine = "webkit", now.number = item[f].number, now.row = item[f].row,
         UNCHANGED <<lastId, cefItems, counted, runs>>,
         \/ \E bytes \in Nat : Store!Write(Store!Progressed(item[f].row, bytes))
         \/ \E status \in Store!Terminal, path \in SUBSET Files :
              Store!Write(Store!Ended(item[f].row, status, path))
         \/ Store!WriteFails
  PROVE  LoadInv' /\ Frozen /\ runs' = runs
<1> DEFINE id == item[f].row
<1>1. TableOK(rows, lastId) /\ LoadTypes
  BY DEF LoadInv
<1>2. \A t \in rows : t.id = id => t.number = 0
  BY DEF LoadInv, BelongsInv
<1>3. failures \in Nat
  BY <1>1 DEF LoadTypes
<1> HIDE DEF id
<1>4. Rewrites(0) /\ Frozen /\ failures' \in Nat /\ (failures' = 0 => failures = 0)
  <2>1. ASSUME NEW bytes \in Nat, Store!Write(Store!Progressed(id, bytes))
        PROVE  Rewrites(0) /\ Frozen /\ failures' = failures
    BY <2>1, <1>1, <1>2, WriteProgressed DEF Store!Write
  <2>2. ASSUME NEW status \in Store!Terminal, NEW path \in SUBSET Files,
               Store!Write(Store!Ended(id, status, path))
        PROVE  Rewrites(0) /\ Frozen /\ failures' = failures
    <3>1. rows' = Store!Ended(id, status, path) /\ failures' = failures
      BY <2>2 DEF Store!Write
    <3>2. QED
      BY <3>1, <1>1, <1>2, WriteEnded
  <2>3. ASSUME Store!WriteFails
        PROVE  Rewrites(0) /\ Frozen /\ failures' = failures + 1
    BY <2>3, <1>1, SameRows DEF Store!WriteFails
  <2>4. QED
    BY <2>1, <2>2, <2>3, <1>3 DEF id
<1>5. ~IsCef(f)
  BY DEF IsCef
<1>6. QED
  BY <1>4, <1>5, ItemMovesKeeps

LEMMA WebKitProgressKeeps ==
  ASSUME LoadInv, NEW f \in Files, Store!WebKitProgress(f)
  PROVE  LoadInv' /\ Frozen /\ runs' = runs
<1> DEFINE now == [item[f] EXCEPT !.got = @ + 1]
           bytes == item[f].got + 1
<1>1. item[f] \in Item /\ item \in [Files -> Item]
  BY DEF LoadInv, LoadTypes
<1>2. item' = [item EXCEPT ![f] = now]
  BY <1>1 DEF Store!WebKitProgress
<1>3. /\ item[f].engine = "webkit" /\ item[f].state = "running"
      /\ UNCHANGED <<lastId, cefItems, counted, runs>>
      /\ Store!Write(Store!Progressed(item[f].row, bytes)) \/ Store!WriteFails
  BY DEF Store!WebKitProgress
<1>4. /\ now \in Item /\ now.engine = item[f].engine /\ now.number = item[f].number
      /\ now.row = item[f].row /\ bytes \in Nat
  BY <1>1 DEF Item
<1> HIDE DEF now, bytes
<1>5. QED
  BY <1>2, <1>3, <1>4, WebKitWriteKeeps

LEMMA WebKitEndsKeeps ==
  ASSUME LoadInv, NEW f \in Files, Store!WebKitFailed(f) \/ Store!WebKitFinished(f)
  PROVE  LoadInv' /\ Frozen /\ runs' = runs
<1> DEFINE failed == [item[f] EXCEPT !.state = "interrupted"]
           finished == [item[f] EXCEPT !.state = "complete"]
<1>1. item[f] \in Item /\ item \in [Files -> Item]
  BY DEF LoadInv, LoadTypes
<1>2. /\ item[f].engine = "webkit" /\ item[f].state \in {"running", "interrupted"}
      /\ UNCHANGED <<lastId, cefItems, counted, runs>>
      /\ \/ Store!Write(Store!Ended(item[f].row, "failed", {}))
         \/ Store!Write(Store!Ended(item[f].row, "completed", {f}))
         \/ Store!WriteFails
      /\ item' = [item EXCEPT ![f] = failed] \/ item' = [item EXCEPT ![f] = finished]
  BY <1>1 DEF Store!WebKitFailed, Store!WebKitFinished
<1>3. /\ failed \in Item /\ failed.engine = item[f].engine /\ failed.number = item[f].number
      /\ failed.row = item[f].row
  BY <1>1 DEF Item
<1>4. /\ finished \in Item /\ finished.engine = item[f].engine
      /\ finished.number = item[f].number /\ finished.row = item[f].row
  BY <1>1 DEF Item
<1>5. /\ "failed" \in Store!Terminal /\ "completed" \in Store!Terminal
      /\ {} \in SUBSET Files /\ {f} \in SUBSET Files
  BY DEF Store!Terminal
<1>6. \/ \E status \in Store!Terminal, path \in SUBSET Files :
           Store!Write(Store!Ended(item[f].row, status, path))
      \/ Store!WriteFails
  BY <1>2, <1>5
<1> HIDE DEF failed, finished
<1>7. PICK now \in Item :
        /\ item' = [item EXCEPT ![f] = now] /\ now.engine = "webkit"
        /\ now.number = item[f].number /\ now.row = item[f].row
  BY <1>2, <1>3, <1>4
<1>8. QED
  BY <1>2, <1>6, <1>7, WebKitWriteKeeps

\* Rows are removed and nothing else changes, or a run is over.
LEMMA FewerKeeps ==
  ASSUME LoadInv, rows' \subseteq rows, UNCHANGED <<lastId, counted, failures>>,
         \/ UNCHANGED <<item, cefItems, runs>>
         \/ Store!Restart
  PROVE  LoadInv'
<1>1. TableOK(rows, lastId) /\ LoadTypes /\ NumbersInv /\ BelongsInv /\ CountInv /\ OutcomeInv
  BY DEF LoadInv
<1>2. TableOK(rows, lastId)'
  <2>1. TableOK(rows', lastId)
    BY <1>1, FewerRows
  <2>2. QED
    BY <2>1
<1>3. CASE UNCHANGED <<item, cefItems, runs>>
  <2>1. LoadTypes' /\ NumbersInv' /\ BelongsInv'
    BY <1>1, <1>3 DEF LoadTypes, NumbersInv, BelongsInv, IsCef
  <2>2. CountInv'
    BY <1>1, <1>3 DEF CountInv, Settled, IsCef
  <2>3. OutcomeInv'
    BY <1>1, <1>3 DEF OutcomeInv, IsCef, Says
  <2>4. QED
    BY <1>2, <2>1, <2>2, <2>3 DEF LoadInv
<1>4. CASE Store!Restart
  <2> DEFINE none == Store!NoItem
             gone == [Store!NoItem EXCEPT !.engine = "over"]
  <2>1. /\ item' = [f \in Files |-> IF item[f].engine = "none" THEN item[f] ELSE gone]
        /\ cefItems' = 0 /\ runs' = runs + 1
    BY <1>4 DEF Store!Restart
  <2>2. gone \in Item /\ gone.engine = "over"
    BY DEF Store!NoItem, Item
  <2> HIDE DEF gone
  <2>3. LoadTypes'
    BY <1>1, <2>1, <2>2 DEF LoadTypes
  <2>4. \A f \in Files : item'[f].engine \in {"none", "over"}
                         /\ (item[f].engine # "none" => item'[f].engine = "over")
    BY <2>1, <2>2
  <2>5. NumbersInv' /\ OutcomeInv'
    BY <2>4 DEF NumbersInv, OutcomeInv, IsCef
  <2>6. BelongsInv'
    <3>1. \A r \in rows' : r.name \in Files /\ item[r.name].engine # "none"
      BY <1>1 DEF TableOK, Row, BelongsInv
    <3>2. QED
      BY <2>4, <3>1 DEF BelongsInv
  <2>7. CountInv'
    BY <1>1, <2>4 DEF CountInv, Settled, IsCef
  <2>8. QED
    BY <1>2, <2>3, <2>5, <2>6, <2>7 DEF LoadInv
<1>5. QED
  BY <1>3, <1>4

LEMMA LoadStep == LoadInv /\ [Store!Next]_(Store!vars) => LoadInv' /\ (runs' = runs => Frozen)
<1> SUFFICES ASSUME LoadInv, [Store!Next]_(Store!vars) PROVE LoadInv' /\ (runs' = runs => Frozen)
  OBVIOUS
<1>1. TableOK(rows, lastId) /\ LoadTypes
  BY DEF LoadInv
<1>2. CASE \E f \in Files : Store!BeforeDownload(f)
  <2>1. PICK f \in Files : Store!BeforeDownload(f)
    BY <1>2
  <2>2. LoadInv' /\ \E n \in Nat : AddsFor(f, n)
    BY <2>1, BeforeDownloadKeeps
  <2>3. QED
    BY <2>2, <1>1, AddsFreezes
<1>3. CASE \E f \in Files : Store!DownloadUpdated(f)
  BY <1>3, DownloadUpdatedKeeps
<1>4. CASE \E f \in Files : Store!WebKitStarted(f)
  BY <1>4, WebKitStartedKeeps
<1>5. CASE \E f \in Files : Store!WebKitProgress(f)
  BY <1>5, WebKitProgressKeeps
<1>6. CASE \E f \in Files : Store!WebKitFailed(f) \/ Store!WebKitFinished(f)
  BY <1>6, WebKitEndsKeeps
<1>7. CASE \/ Store!TimePasses \/ Store!Expire \/ UNCHANGED Store!vars
  <2>1. UNCHANGED <<rows, lastId, item, cefItems, counted, failures, runs>>
    BY <1>7 DEF Store!TimePasses, Store!Expire, Store!vars
  <2>2. QED
    BY <2>1, <1>1, FewerKeeps, SameRows
<1>8. CASE Store!ClearCompleted
  <2>1. /\ rows' = Store!Cleared
        /\ UNCHANGED <<lastId, item, cefItems, counted, failures, runs>>
    BY <1>8 DEF Store!ClearCompleted
  <2>2. rows' \subseteq rows /\ \A r \in rows : r \in rows' \/ r.status = "completed"
    BY <2>1 DEF Store!Cleared
  <2>3. LoadInv'
    BY <2>1, <2>2, FewerKeeps
  <2>4. \A r, s \in rows : s.id = r.id => s = r
    BY <1>1 DEF TableOK, Unique
  <2>5. Frozen
    BY <2>2, <2>4 DEF Frozen
  <2>6. QED
    BY <2>3, <2>5
<1>9. CASE Store!Restart
  <2>1. /\ \E clears \in BOOLEAN : rows' = IF clears THEN {} ELSE rows
        /\ UNCHANGED <<lastId, counted, failures>> /\ runs' = runs + 1
    BY <1>9 DEF Store!Restart
  <2>2. rows' \subseteq rows
    BY <2>1
  <2>3. LoadInv'
    BY <1>9, <2>1, <2>2, FewerKeeps
  <2>4. runs' # runs
    BY <2>1, <1>1 DEF LoadTypes
  <2>5. QED
    BY <2>3, <2>4
<1>10. QED
  BY <1>2, <1>3, <1>4, <1>5, <1>6, <1>7, <1>8, <1>9 DEF Store!Next

LEMMA LoadInvHolds == Store!Init /\ [][Store!Next]_(Store!vars) => []LoadInv
<1>1. LoadInv /\ [Store!Next]_(Store!vars) => LoadInv'
  BY LoadStep
<1>2. QED
  BY <1>1, LoadInitFine, PTL

\* The end of a download is counted once and only if it completed, the row of a
\* CEF download says what became of it unless a write failed, and what is over is
\* neither written nor lost (on_download_updated, record_completed and its
\* siblings, clear_completed), for any downloads, signals, failures and runs.
THEOREM EndsAlwaysKept == Store!PartsSpec => Store!EndsAreKept
<1> DEFINE Steps == [][Store!OfDownloads(Store!Next) \/ Store!OfBuilds(Store!Tool!Next)]_(Store!allVars)
<1>1. Store!PartsSpec => Store!Init /\ [][Store!Next]_(Store!vars)
  <2>1. Store!PartsInit => Store!Init
    BY DEF Store!PartsInit
  <2>2. [Store!OfDownloads(Store!Next) \/ Store!OfBuilds(Store!Tool!Next)]_(Store!allVars)
          => [Store!Next]_(Store!vars)
    BY DEF Store!OfDownloads, Store!OfBuilds, Store!allVars
  <2>3. Store!PartsSpec => Store!PartsInit /\ Steps
    BY PTL DEF Store!PartsSpec
  <2>4. QED
    BY <2>1, <2>2, <2>3, PTL
<1>2. LoadInv => Store!EndsAreRecorded
  <2> SUFFICES ASSUME LoadInv PROVE Store!EndsAreRecorded
    OBVIOUS
  <2>1. CountInv /\ OutcomeInv /\ LoadTypes
    BY DEF LoadInv
  <2>2. Store!CountedOnce
    BY <2>1 DEF Store!CountedOnce, CountInv, Settled
  <2>3. Store!OutcomeRecorded
    <3> SUFFICES ASSUME failures = 0, NEW f \in Files, NEW r \in rows,
                        item[f].engine = "cef", r.number = item[f].number, r.name = f
                 PROVE  /\ item[f].state = "complete" <=> r.status = "completed" /\ r.path = {f}
                        /\ item[f].state = "canceled" <=> r.status = "canceled"
                        /\ item[f].state = "interrupted" <=> r.status = "failed"
      BY DEF Store!OutcomeRecorded
    <3>1. Says(r, item[f].state, f)
      BY <2>1 DEF OutcomeInv, IsCef
    <3>2. item[f].state \in {"none", "running", "complete", "canceled", "interrupted"}
      BY <2>1 DEF LoadTypes, Item
    <3>3. QED
      BY <3>1, <3>2 DEF Says, InFlight
  <2>4. QED
    BY <2>2, <2>3 DEF Store!EndsAreRecorded
<1>3. LoadInv /\ [Store!Next]_(Store!vars) =>
        [\A r \in rows : r.status \in Store!Terminal /\ runs' = runs =>
           /\ r.number # Store!WebKitNumber => \/ r \in rows'
                                               \/ r.status = "completed" /\ rows' \subseteq rows
           /\ \A s \in rows' : s.id = r.id => s.received = r.received]_(Store!vars)
  BY LoadStep DEF Frozen, Store!WebKitNumber
<1>4. Store!Init /\ [][Store!Next]_(Store!vars) => []Store!EndsAreRecorded /\ Store!OverIsFrozen
  BY <1>2, <1>3, LoadInvHolds, PTL DEF Store!OverIsFrozen
<1>5. QED
  BY <1>1, <1>4, PTL DEF Store!EndsAreKept

-----------------------------------------------------------------------------
(***************************************************************************)
(* The build tool (Builds.tla, the instance Tool of MCStores.tla).         *)
(***************************************************************************)
Version0 == {0} \cup Store!Tool!Versions
Artifact == [made : BOOLEAN, libs : Version0, res : Version0, release : BOOLEAN,
             stripped : BOOLEAN]
Formats == Store!Tool!Packages \cup {"dmg", "msi"}
Unpacked == [dir : Store!Tool!Versions, piece : Store!Tool!Pieces, of : Store!Tool!Versions]
Fetching == [name : {"fetch"}, at : {"populated", "download", "verify", "extract", "flatten", "move"},
             version : Store!Tool!Versions, left : SUBSET Store!Tool!Pieces, fresh : BOOLEAN, whole : BOOLEAN]
Packaging == [name : {"package"}, at : {"build", "collect", "strip", "deb", "rpm", "tarball"},
              variant : Variants, profile : Profiles, payload : Artifact]
Bundling == [name : {"bundle"}, at : {"build", "wipe", "stage"}, profile : Profiles, staged : 0..3]

\* What the vendor directory and the target directory hold are versions; while
\* a command runs nothing is said of its end.
BuildTypes ==
  /\ index \in Store!Tool!Versions
  /\ unpacked \subseteq Unpacked
  /\ flat \in [Store!Tool!Pieces -> Version0]
  /\ target \in [Profiles -> [libs : Version0, res : Version0]]
  /\ seen \in [Profiles -> [Store!Tool!Pieces -> Version0]]
  /\ dist \in [Formats -> Artifact]
  /\ Store!Tool!Idle \/ (said = "nothing" /\ (cmd \in Fetching \/ cmd \in Packaging \/ cmd \in Bundling))

Early == cmd.at = "populated" \/ cmd.at = "download" \/ cmd.at = "verify"
Have(pieces) == \A p \in pieces : \E u \in unpacked : u.piece = p
OfVersion == \A u \in unpacked : u.of = cmd.version

\* A fetch that found no pieces has only put those of its version there.
FreshInv ==
  /\ cmd.whole
  /\ Early => unpacked = {} /\ flat = Store!Tool!Nothing /\ cmd.left = Store!Tool!Pieces
  /\ cmd.at = "extract" \/ cmd.at = "flatten" =>
       flat = Store!Tool!Nothing /\ OfVersion /\ Have(Store!Tool!Pieces \ cmd.left)
  /\ cmd.at = "flatten" => cmd.left = {}
  /\ cmd.at = "move" =>
       /\ OfVersion
       /\ \A p \in Store!Tool!Pieces : flat[p] = IF p \in cmd.left THEN 0 ELSE cmd.version

FetchInv ==
  cmd.name = "fetch" =>
    /\ cmd.at = "extract" => archive = cmd.version
    /\ cmd.fresh => FreshInv

\* A whole directory that the build script has seen is what it staged.
StagedInv ==
  \A p \in Profiles : Store!Tool!Whole(seen[p]) /\ p \notin unstaged =>
    target[p].libs = seen[p]["Release"] /\ target[p].res = seen[p]["Release"]

\* The artifact holds its libraries and its locales.
Complete(a) == a.libs \in Store!Tool!Versions /\ a.res \in Store!Tool!Versions

\* After its build, a package command is about the directory as it is, and its
\* payload is what lies in the target directory.
PackInv ==
  cmd.name = "package" /\ cmd.at # "build" =>
    /\ seen[cmd.profile] = flat
    /\ cmd.at # "collect" =>
         /\ cmd.payload.libs = target[cmd.profile].libs /\ cmd.payload.res = target[cmd.profile].res
         /\ Complete(cmd.payload)
         /\ cmd.payload.release => cmd.at = "strip" \/ cmd.payload.stripped

\* The parts that were staged are in the bundle.
Parts(n) == {Store!Tool!BundleParts[i] : i \in 1..n}
BundleInv ==
  /\ cmd.name = "bundle" =>
       IF cmd.at = "stage" THEN Parts(cmd.staged) \subseteq app.parts ELSE cmd.staged = 0
  /\ said = "bundled" => app.parts = Store!Tool!AllParts
  /\ app.parts \subseteq Store!Tool!AllParts

DistInv ==
  \A f \in Store!Tool!Packages \cup {"msi"} : dist[f].made =>
    Complete(dist[f]) /\ ((dist[f].release /\ f # "msi") => dist[f].stripped)

BuildInv == BuildTypes /\ FetchInv /\ StagedInv /\ PackInv /\ BundleInv /\ DistInv

\* The names of the commands tell them apart.
LEMMA CommandShapes ==
  BuildTypes => /\ cmd.name = "fetch" => cmd \in Fetching /\ said = "nothing"
                /\ cmd.name = "package" => cmd \in Packaging /\ said = "nothing"
                /\ cmd.name = "bundle" => cmd \in Bundling /\ said = "nothing"
<1>1. Store!Tool!NoCommand.name = "none"
  BY DEF Store!Tool!NoCommand
<1>2. QED
  BY <1>1 DEF BuildTypes, Store!Tool!Idle, Fetching, Packaging, Bundling

LEMMA NoneIsNoCommand ==
  ASSUME cmd' = Store!Tool!NoCommand
  PROVE  cmd'.name # "fetch" /\ cmd'.name # "package" /\ cmd'.name # "bundle" /\ Store!Tool!Idle'
BY DEF Store!Tool!NoCommand, Store!Tool!Idle

\* What a command of fetch-cef leaves alone.
LEMMA FetchLeaves ==
  ASSUME BuildInv, UNCHANGED <<target, seen, unstaged, app, dist>>,
         said' = "bundled" => said = "bundled", cmd' = Store!Tool!NoCommand \/ cmd' \in Fetching
  PROVE  StagedInv' /\ PackInv' /\ BundleInv' /\ DistInv'
<1>1. cmd'.name # "package" /\ cmd'.name # "bundle"
  BY NoneIsNoCommand DEF Fetching
<1>2. StagedInv'
  BY DEF BuildInv, StagedInv
<1>3. PackInv'
  BY <1>1 DEF PackInv
<1>4. BundleInv'
  BY <1>1 DEF BuildInv, BundleInv
<1>5. DistInv'
  BY DEF BuildInv, DistInv, Complete
<1>6. QED
  BY <1>2, <1>3, <1>4, <1>5

LEMMA NothingFlat == Store!Tool!Nothing \in [Store!Tool!Pieces -> Version0]
BY DEF Store!Tool!Nothing, Version0

LEMMA FetchKeeps == BuildInv /\ Store!Tool!Fetch => BuildInv'
<1> SUFFICES ASSUME BuildInv, Store!Tool!Fetch PROVE BuildInv'
  OBVIOUS
<1>0. BuildTypes
  BY DEF BuildInv
<1>1. PICK new \in BOOLEAN : new = (unpacked = {} /\ flat = Store!Tool!Nothing)
  OBVIOUS
<1>2. /\ cmd' = [name |-> "fetch", at |-> "populated", version |-> index, left |-> Store!Tool!Pieces,
                 fresh |-> new, whole |-> TRUE]
      /\ said' = "nothing"
      /\ UNCHANGED <<index, archive, unpacked, flat, target, seen, unstaged, app, dist>>
  BY <1>1 DEF Store!Tool!Fetch, Store!Tool!Begin, Store!Tool!Starts, Store!Tool!vendorVars,
       Store!Tool!targetVars
<1>3. cmd' \in Fetching
  BY <1>0, <1>2 DEF BuildTypes, Fetching
<1>4. BuildTypes'
  BY <1>0, <1>2, <1>3 DEF BuildTypes
<1>5. FetchInv'
  BY <1>1, <1>2 DEF FetchInv, FreshInv, Early
<1>6. QED
  BY <1>2, <1>3, <1>4, <1>5, FetchLeaves DEF BuildInv

\* A fetch that goes no further, with whatever archive.
LEMMA FetchEnds ==
  ASSUME BuildInv, cmd' = Store!Tool!NoCommand, said' # "bundled",
         UNCHANGED <<index, target, seen, unstaged, app, dist>>,
         unpacked' \subseteq Unpacked, flat' \in [Store!Tool!Pieces -> Version0]
  PROVE  BuildInv'
<1>1. FetchInv'
  BY NoneIsNoCommand DEF FetchInv
<1>2. BuildTypes'
  BY NoneIsNoCommand DEF BuildInv, BuildTypes
<1>3. QED
  BY <1>1, <1>2, FetchLeaves DEF BuildInv

\* One that goes on.
LEMMA FetchGoes ==
  ASSUME BuildInv, cmd' \in Fetching, said' = said, ~Store!Tool!Idle,
         UNCHANGED <<index, target, seen, unstaged, app, dist>>,
         unpacked' \subseteq Unpacked, flat' \in [Store!Tool!Pieces -> Version0], FetchInv'
  PROVE  BuildInv'
<1>1. BuildTypes'
  BY DEF BuildInv, BuildTypes
<1>2. QED
  BY <1>1, FetchLeaves DEF BuildInv

LEMMA NameNotIdle == ASSUME cmd.name \in {"fetch", "package", "bundle"} PROVE ~Store!Tool!Idle
BY DEF Store!Tool!Idle, Store!Tool!NoCommand

LEMMA EarlyKeeps ==
  BuildInv /\ (Store!Tool!FindPopulated \/ Store!Tool!Download \/ Store!Tool!VerifySha1) => BuildInv'
<1> SUFFICES ASSUME BuildInv, Store!Tool!FindPopulated \/ Store!Tool!Download \/ Store!Tool!VerifySha1
             PROVE  BuildInv'
  OBVIOUS
<1>1. cmd.name = "fetch" /\ Early /\ UNCHANGED <<index, unpacked, flat, target, seen, unstaged, app, dist>>
  BY DEF Store!Tool!FindPopulated, Store!Tool!Download, Store!Tool!VerifySha1,
       Store!Tool!vendorVars, Store!Tool!targetVars, Early
<1>2. cmd \in Fetching /\ ~Store!Tool!Idle /\ FetchInv /\ BuildTypes
  BY <1>1, CommandShapes, NameNotIdle DEF BuildInv
<1>3. unpacked' \subseteq Unpacked /\ flat' \in [Store!Tool!Pieces -> Version0]
  BY <1>1, <1>2 DEF BuildTypes
<1>4. CASE cmd' = Store!Tool!NoCommand /\ said' # "bundled"
  BY <1>1, <1>3, <1>4, FetchEnds
<1>5. ASSUME Store!Tool!Goes("download") \/ Store!Tool!Goes("verify") PROVE BuildInv'
  <2>1. /\ cmd' = [cmd EXCEPT !.at = "download"] \/ cmd' = [cmd EXCEPT !.at = "verify"]
        /\ said' = said
    BY <1>5 DEF Store!Tool!Goes
  <2>2. cmd' \in Fetching
    BY <1>2, <2>1 DEF Fetching
  <2>3. cmd'.left = cmd.left /\ cmd'.fresh = cmd.fresh /\ cmd'.version = cmd.version
        /\ cmd'.whole = cmd.whole
        /\ (cmd'.at = "download" \/ cmd'.at = "verify")
    BY <1>2, <2>1 DEF Fetching
  <2>4. FetchInv'
    BY <1>1, <1>2, <2>3 DEF FetchInv, FreshInv, Early
  <2>5. QED
    BY <1>1, <1>2, <1>3, <2>1, <2>2, <2>4, FetchGoes
<1>6. ASSUME Store!Tool!Goes("extract"), archive = cmd.version, archive' = archive PROVE BuildInv'
  <2>1. cmd' = [cmd EXCEPT !.at = "extract"] /\ said' = said
    BY <1>6 DEF Store!Tool!Goes
  <2>2. cmd' \in Fetching
    BY <1>2, <2>1 DEF Fetching
  <2>3. cmd'.left = cmd.left /\ cmd'.fresh = cmd.fresh /\ cmd'.version = cmd.version
        /\ cmd'.whole = cmd.whole
        /\ cmd'.at = "extract"
    BY <1>2, <2>1 DEF Fetching
  <2>4. FetchInv'
    BY <1>1, <1>2, <1>6, <2>3 DEF FetchInv, FreshInv, Early, OfVersion, Have
  <2>5. QED
    BY <1>1, <1>2, <1>3, <2>1, <2>2, <2>4, FetchGoes
<1>7. QED
  <2>1. ASSUME NEW how, Store!Tool!Ends(how), how = "skipped" \/ how = "failed" PROVE BuildInv'
    BY <1>4, <2>1 DEF Store!Tool!Ends
  <2>2. QED
    BY <1>5, <1>6, <2>1 DEF Store!Tool!FindPopulated, Store!Tool!Download, Store!Tool!VerifySha1

LEMMA ExtractKeeps == BuildInv /\ Store!Tool!Extract => BuildInv'
<1> SUFFICES ASSUME BuildInv, Store!Tool!Extract PROVE BuildInv'
  OBVIOUS
<1>1. PICK p \in cmd.left :
        /\ unpacked' = {u \in unpacked : ~(u.dir = cmd.version /\ u.piece = p)}
                         \cup {[dir |-> cmd.version, piece |-> p, of |-> archive]}
        /\ cmd' = IF cmd.left = {p} THEN [cmd EXCEPT !.at = "flatten", !.left = {}]
                                    ELSE [cmd EXCEPT !.left = @ \ {p}]
  BY DEF Store!Tool!Extract
<1>2. /\ cmd.name = "fetch" /\ cmd.at = "extract"
      /\ UNCHANGED <<index, archive, flat, target, seen, unstaged, app, dist, said>>
  BY DEF Store!Tool!Extract, Store!Tool!targetVars
<1>3. cmd \in Fetching /\ ~Store!Tool!Idle /\ FetchInv /\ BuildTypes
  BY <1>2, CommandShapes, NameNotIdle DEF BuildInv
<1>4. cmd.left \subseteq Store!Tool!Pieces /\ p \in Store!Tool!Pieces /\ cmd.version \in Store!Tool!Versions
      /\ archive = cmd.version
  BY <1>2, <1>3 DEF Fetching, FetchInv
<1>5. /\ cmd'.left = cmd.left \ {p} /\ cmd'.version = cmd.version /\ cmd'.fresh = cmd.fresh
      /\ cmd'.whole = cmd.whole
      /\ cmd'.at = "extract" \/ (cmd'.at = "flatten" /\ cmd'.left = {})
      /\ cmd' \in Fetching
  <2>1. CASE cmd.left = {p}
    BY <1>1, <1>2, <1>3, <2>1 DEF Fetching
  <2>2. CASE cmd.left # {p}
    BY <1>1, <1>2, <1>3, <2>2 DEF Fetching
  <2>3. QED
    BY <2>1, <2>2
<1> DEFINE new == [dir |-> cmd.version, piece |-> p, of |-> archive]
<1>6. new \in Unpacked /\ new.piece = p /\ new.of = cmd.version
  BY <1>4 DEF Unpacked
<1>7. \A u \in unpacked' : u = new \/ u \in unpacked
  BY <1>1
<1>8. new \in unpacked' /\ \A u \in unpacked : u.piece # p => u \in unpacked'
  BY <1>1
<1> HIDE DEF new
<1>9. unpacked' \subseteq Unpacked
  BY <1>3, <1>6, <1>7 DEF BuildTypes
<1>10. ASSUME cmd.fresh PROVE FreshInv'
  <2>1. flat = Store!Tool!Nothing /\ OfVersion /\ Have(Store!Tool!Pieces \ cmd.left) /\ cmd.whole
    BY <1>2, <1>3, <1>10 DEF FetchInv, FreshInv
  <2>2. OfVersion'
    BY <2>1, <1>5, <1>6, <1>7 DEF OfVersion
  <2>3. ASSUME NEW q \in Store!Tool!Pieces \ cmd'.left PROVE \E u \in unpacked' : u.piece = q
    <3>1. CASE q = p
      BY <3>1, <1>6, <1>8
    <3>2. CASE q # p
      BY <3>2, <2>1, <2>3, <1>5, <1>8 DEF Have
    <3>3. QED
      BY <3>1, <3>2
  <2>4. QED
    BY <1>2, <1>5, <2>1, <2>2, <2>3 DEF FreshInv, Early, Have
<1>11. FetchInv'
  BY <1>2, <1>4, <1>5, <1>10 DEF FetchInv
<1>12. flat' \in [Store!Tool!Pieces -> Version0]
  BY <1>2, <1>3 DEF BuildTypes
<1>13. QED
  BY <1>2, <1>3, <1>5, <1>9, <1>11, <1>12, FetchGoes

LEMMA FlattenKeeps == BuildInv /\ Store!Tool!FlattenFinds => BuildInv'
<1> SUFFICES ASSUME BuildInv, Store!Tool!FlattenFinds PROVE BuildInv'
  OBVIOUS
<1>1. /\ cmd.name = "fetch" /\ cmd.at = "flatten"
      /\ UNCHANGED <<index, archive, unpacked, flat, target, seen, unstaged, app, dist>>
      /\ \/ cmd' = Store!Tool!NoCommand /\ said' = "done"
         \/ cmd' = [cmd EXCEPT !.at = "move", !.left = {u.piece : u \in unpacked}] /\ said' = said
  BY DEF Store!Tool!FlattenFinds, Store!Tool!vendorVars, Store!Tool!targetVars, Store!Tool!Ends
<1>2. cmd \in Fetching /\ ~Store!Tool!Idle /\ FetchInv /\ BuildTypes
  BY <1>1, CommandShapes, NameNotIdle DEF BuildInv
<1>3. unpacked' \subseteq Unpacked /\ flat' \in [Store!Tool!Pieces -> Version0]
  BY <1>1, <1>2 DEF BuildTypes
<1>4. CASE cmd' = Store!Tool!NoCommand /\ said' = "done"
  BY <1>1, <1>3, <1>4, FetchEnds
<1>5. CASE cmd' = [cmd EXCEPT !.at = "move", !.left = {u.piece : u \in unpacked}] /\ said' = said
  <2> DEFINE left == {u.piece : u \in unpacked}
  <2>1. left \subseteq Store!Tool!Pieces
    BY <1>2 DEF BuildTypes, Unpacked
  <2>2. \A p \in Store!Tool!Pieces : (\E u \in unpacked : u.piece = p) => p \in left
    OBVIOUS
  <2>3. cmd' = [cmd EXCEPT !.at = "move", !.left = left]
    BY <1>5
  <2> HIDE DEF left
  <2>4. /\ cmd' \in Fetching /\ cmd'.left = left /\ cmd'.at = "move" /\ cmd'.fresh = cmd.fresh
        /\ cmd'.version = cmd.version /\ cmd'.whole = cmd.whole
    BY <1>2, <2>1, <2>3 DEF Fetching
  <2>5. FetchInv'
    <3> SUFFICES ASSUME cmd.fresh PROVE FreshInv'
      BY <2>4 DEF FetchInv
    <3>1. flat = Store!Tool!Nothing /\ OfVersion /\ Have(Store!Tool!Pieces \ cmd.left) /\ cmd.left = {} /\ cmd.whole
      BY <1>1, <1>2 DEF FetchInv, FreshInv
    <3>2. \A p \in Store!Tool!Pieces : p \in left
      BY <3>1, <2>2 DEF Have
    <3>3. \A p \in Store!Tool!Pieces : flat[p] = 0
      BY <3>1 DEF Store!Tool!Nothing
    <3>4. OfVersion'
      BY <3>1, <2>4, <1>1 DEF OfVersion
    <3>5. QED
      BY <1>1, <2>4, <3>1, <3>2, <3>3, <3>4 DEF FreshInv, Early
  <2>6. QED
    BY <1>1, <1>2, <1>3, <1>5, <2>4, <2>5, FetchGoes
<1>6. QED
  BY <1>1, <1>4, <1>5

LEMMA MoveKeeps == BuildInv /\ Store!Tool!Move => BuildInv'
<1> SUFFICES ASSUME BuildInv, Store!Tool!Move PROVE BuildInv'
  OBVIOUS
<1>1. PICK u \in {x \in unpacked : x.piece \in cmd.left} :
        /\ IF flat[u.piece] # 0
           THEN UNCHANGED <<unpacked, flat>>
           ELSE flat' = [flat EXCEPT ![u.piece] = u.of] /\ unpacked' = unpacked \ {u}
        /\ cmd' = [cmd EXCEPT !.left = @ \ {u.piece}, !.whole = @ /\ flat[u.piece] = 0]
  BY DEF Store!Tool!Move
<1>2. /\ cmd.name = "fetch" /\ cmd.at = "move"
      /\ UNCHANGED <<index, archive, target, seen, unstaged, app, dist, said>>
  BY DEF Store!Tool!Move, Store!Tool!targetVars
<1>3. cmd \in Fetching /\ ~Store!Tool!Idle /\ FetchInv /\ BuildTypes
  BY <1>2, CommandShapes, NameNotIdle DEF BuildInv
<1>4. /\ u \in unpacked /\ u.piece \in cmd.left /\ u.piece \in Store!Tool!Pieces /\ u.of \in Store!Tool!Versions
      /\ cmd.left \subseteq Store!Tool!Pieces
  BY <1>1, <1>3 DEF BuildTypes, Unpacked, Fetching
<1>5. PICK whole \in BOOLEAN : whole = (cmd.whole /\ flat[u.piece] = 0)
  OBVIOUS
<1>6. cmd' = [cmd EXCEPT !.left = cmd.left \ {u.piece}, !.whole = whole]
  BY <1>1, <1>5
<1>7. /\ cmd' \in Fetching /\ cmd'.left = cmd.left \ {u.piece} /\ cmd'.whole = whole
      /\ cmd'.at = "move" /\ cmd'.fresh = cmd.fresh /\ cmd'.version = cmd.version
  BY <1>2, <1>3, <1>4, <1>6 DEF Fetching
<1>8. unpacked' \subseteq unpacked /\ flat' \in [Store!Tool!Pieces -> Version0]
  BY <1>1, <1>3, <1>4 DEF BuildTypes, Version0
<1>9. FetchInv'
  <2> SUFFICES ASSUME cmd.fresh PROVE FreshInv'
    BY <1>7 DEF FetchInv
  <2>1. /\ cmd.whole /\ OfVersion
        /\ \A p \in Store!Tool!Pieces : flat[p] = IF p \in cmd.left THEN 0 ELSE cmd.version
    BY <1>2, <1>3 DEF FetchInv, FreshInv
  <2>2. flat[u.piece] = 0 /\ u.of = cmd.version
    BY <1>4, <2>1 DEF OfVersion
  <2>3. flat' = [flat EXCEPT ![u.piece] = cmd.version]
    BY <1>1, <2>2
  <2>4. \A p \in Store!Tool!Pieces : flat'[p] = IF p \in cmd'.left THEN 0 ELSE cmd'.version
    BY <1>3, <1>4, <1>7, <2>1, <2>3 DEF BuildTypes
  <2>5. OfVersion'
    BY <1>7, <1>8, <2>1 DEF OfVersion
  <2>6. cmd'.whole
    BY <1>5, <1>7, <2>1, <2>2
  <2>7. QED
    BY <1>7, <2>4, <2>5, <2>6 DEF FreshInv, Early
<1>10. unpacked' \subseteq Unpacked
  BY <1>3, <1>8 DEF BuildTypes
<1>11. QED
  BY <1>2, <1>3, <1>7, <1>8, <1>9, <1>10, FetchGoes

LEMMA FlattenEndsKeeps == BuildInv /\ Store!Tool!FlattenEnds => BuildInv'
<1> SUFFICES ASSUME BuildInv, Store!Tool!FlattenEnds PROVE BuildInv'
  OBVIOUS
<1>1. /\ unpacked' = IF cmd.whole THEN {} ELSE unpacked
      /\ said' = IF cmd.fresh THEN "fetched" ELSE "done"
      /\ cmd' = Store!Tool!NoCommand
      /\ UNCHANGED <<index, flat, target, seen, unstaged, app, dist>>
  BY DEF Store!Tool!FlattenEnds, Store!Tool!targetVars
<1>2. unpacked' \subseteq Unpacked /\ flat' \in [Store!Tool!Pieces -> Version0]
  BY <1>1 DEF BuildInv, BuildTypes
<1>3. said' # "bundled"
  BY <1>1
<1>4. QED
  BY <1>1, <1>2, <1>3, FetchEnds

-----------------------------------------------------------------------------
(* Packages and bundles. *)

\* What a build, a package or a bundle leaves alone.
LEMMA PackLeaves ==
  ASSUME BuildInv, UNCHANGED <<index, unpacked, flat>>,
         cmd' = Store!Tool!NoCommand \/ (said' = "nothing" /\ (cmd' \in Packaging \/ cmd' \in Bundling)),
         target' \in [Profiles -> [libs : Version0, res : Version0]],
         seen' \in [Profiles -> [Store!Tool!Pieces -> Version0]], dist' \in [Formats -> Artifact]
  PROVE  BuildTypes' /\ FetchInv'
<1>1. cmd'.name # "fetch"
  BY NoneIsNoCommand DEF Packaging, Bundling
<1>2. FetchInv'
  BY <1>1 DEF FetchInv
<1>3. BuildTypes'
  BY NoneIsNoCommand DEF BuildInv, BuildTypes
<1>4. QED
  BY <1>2, <1>3

\* A command that ends, or is another one's beginning.
LEMMA CommandEnds ==
  ASSUME BuildInv, cmd' = Store!Tool!NoCommand, said' # "bundled",
         UNCHANGED <<index, unpacked, flat, target, seen, unstaged, app, dist>>
  PROVE  BuildInv'
<1>1. BuildTypes' /\ FetchInv'
  BY PackLeaves DEF BuildInv, BuildTypes
<1>2. StagedInv' /\ DistInv'
  BY DEF BuildInv, StagedInv, DistInv, Complete
<1>3. PackInv' /\ BundleInv'
  BY NoneIsNoCommand DEF BuildInv, PackInv, BundleInv
<1>4. QED
  BY <1>1, <1>2, <1>3 DEF BuildInv

LEMMA NoArtifactFine == ASSUME Store!VersionAssumption PROVE Store!Tool!NoArtifact \in Artifact
BY DEF Store!Tool!NoArtifact, Artifact, Version0

LEMMA CommandBegins ==
  ASSUME BuildInv, cmd' \in Packaging \/ (cmd' \in Bundling /\ cmd'.staged = 0), cmd'.at = "build",
         said' = "nothing",
         UNCHANGED <<index, unpacked, flat, target, seen, unstaged, app, dist>>
  PROVE  BuildInv'
<1>1. BuildTypes' /\ FetchInv'
  BY PackLeaves DEF BuildInv, BuildTypes
<1>2. StagedInv' /\ DistInv'
  BY DEF BuildInv, StagedInv, DistInv, Complete
<1>3. cmd'.name = "bundle" => cmd'.staged = 0
  BY DEF Packaging
<1>4. PackInv' /\ BundleInv'
  BY <1>3 DEF BuildInv, PackInv, BundleInv
<1>5. QED
  BY <1>1, <1>2, <1>4 DEF BuildInv

LEMMA PackageKeeps ==
  ASSUME Store!VersionAssumption, BuildInv, NEW profile \in Profiles, NEW variant \in Variants,
         Store!Tool!Package(variant, profile)
  PROVE  BuildInv'
<1>1. /\ cmd' = [name |-> "package", at |-> "build", variant |-> variant, profile |-> profile,
                 payload |-> Store!Tool!NoArtifact]
      /\ said' = "nothing"
      /\ UNCHANGED <<index, unpacked, flat, target, seen, unstaged, app, dist>>
  BY DEF Store!Tool!Package, Store!Tool!Begin, Store!Tool!Starts, Store!Tool!vendorVars,
       Store!Tool!targetVars
<1>2. cmd' \in Packaging /\ cmd'.at = "build"
  BY <1>1, NoArtifactFine DEF Packaging
<1>3. QED
  BY <1>1, <1>2, CommandBegins

LEMMA BundleKeeps ==
  ASSUME BuildInv, NEW profile \in Profiles, Store!Tool!Bundle(profile) PROVE BuildInv'
<1>1. /\ cmd' = [name |-> "bundle", at |-> "build", profile |-> profile, staged |-> 0]
      /\ said' = "nothing"
      /\ UNCHANGED <<index, unpacked, flat, target, seen, unstaged, app, dist>>
  BY DEF Store!Tool!Bundle, Store!Tool!Begin, Store!Tool!Starts, Store!Tool!vendorVars,
       Store!Tool!targetVars
<1>2. cmd' \in Bundling /\ cmd'.at = "build" /\ cmd'.staged = 0
  BY <1>1 DEF Bundling
<1>3. QED
  BY <1>1, <1>2, CommandBegins

\* What is staged are versions, and all of a whole directory.
LEMMA StagedIs ==
  ASSUME NEW was \in [libs : Version0, res : Version0], NEW dir \in [Store!Tool!Pieces -> Version0]
  PROVE  /\ Store!Tool!Staged(was, dir) \in [libs : Version0, res : Version0]
         /\ Store!Tool!Whole(dir) => /\ Store!Tool!Staged(was, dir).libs = dir["Release"]
                               /\ Store!Tool!Staged(was, dir).res = dir["Release"]
<1>1. "Release" \in Store!Tool!Pieces /\ "Resources" \in Store!Tool!Pieces
  BY DEF Store!Tool!Pieces
<1>2. dir["Release"] \in Version0 /\ dir["Resources"] \in Version0
  BY <1>1
<1>3. QED
  BY <1>2 DEF Store!Tool!Staged, Store!Tool!Whole

LEMMA BuildKeeps == ASSUME Store!VersionAssumption, BuildInv, Store!Tool!Build PROVE BuildInv'
<1>1. /\ cmd.name \in {"package", "bundle"} /\ cmd.at = "build" /\ said' = said
      /\ UNCHANGED <<index, unpacked, flat, app, dist>>
      /\ seen' = [seen EXCEPT ![cmd.profile] = flat]
      /\ cmd' = [cmd EXCEPT !.at = IF cmd.name = "package" THEN "collect" ELSE "wipe"]
  BY DEF Store!Tool!Build, Store!Tool!Goes, Store!Tool!vendorVars
<1>2. BuildTypes /\ (cmd \in Packaging \/ cmd \in Bundling) /\ said = "nothing"
  BY <1>1, CommandShapes DEF BuildInv
<1>3. cmd.profile \in Profiles
  BY <1>2 DEF Packaging, Bundling
<1> DEFINE p == cmd.profile
           part0 == [flat EXCEPT !["Resources"] = 0]
<1>4. part0 \in [Store!Tool!Pieces -> Version0]
  <2>1. flat \in [Store!Tool!Pieces -> Version0] /\ 0 \in Version0
    BY <1>2 DEF BuildTypes, Version0
  <2>2. QED
    BY <2>1
<1>5. \/ target' = target /\ unstaged' = unstaged /\ seen[p] = flat
      \/ target' = [target EXCEPT ![p] = Store!Tool!Staged(target[p], flat)] /\ unstaged' = unstaged \ {p}
      \/ /\ target' = [target EXCEPT ![p] = Store!Tool!Staged(target[p], part0)]
         /\ unstaged' = unstaged \cup {p}
  BY DEF Store!Tool!Build, Store!Tool!ScriptRuns
<1> HIDE DEF part0
<1>6. /\ target[p] \in [libs : Version0, res : Version0] /\ flat \in [Store!Tool!Pieces -> Version0]
      /\ target \in [Profiles -> [libs : Version0, res : Version0]]
      /\ seen \in [Profiles -> [Store!Tool!Pieces -> Version0]] /\ dist \in [Formats -> Artifact]
  BY <1>2, <1>3 DEF BuildTypes
<1>7. /\ Store!Tool!Staged(target[p], flat) \in [libs : Version0, res : Version0]
      /\ Store!Tool!Staged(target[p], part0) \in [libs : Version0, res : Version0]
  BY <1>4, <1>6, StagedIs
<1>8. /\ target' \in [Profiles -> [libs : Version0, res : Version0]]
      /\ seen' \in [Profiles -> [Store!Tool!Pieces -> Version0]]
  BY <1>1, <1>3, <1>5, <1>6, <1>7
<1>9. StagedInv'
  <2> SUFFICES ASSUME NEW q \in Profiles, Store!Tool!Whole(seen'[q]), q \notin unstaged'
               PROVE  target'[q].libs = seen'[q]["Release"] /\ target'[q].res = seen'[q]["Release"]
    BY DEF StagedInv, Store!Tool!Whole
  <2>0. StagedInv
    BY DEF BuildInv
  <2>1. CASE q # p
    <3>1. seen'[q] = seen[q] /\ target'[q] = target[q] /\ q \notin unstaged
      BY <1>1, <1>3, <1>5, <1>6, <2>1
    <3>2. QED
      BY <2>0, <3>1 DEF StagedInv
  <2>2. CASE q = p /\ target' = target /\ unstaged' = unstaged /\ seen[p] = flat
    <3>1. seen'[q] = seen[q]
      BY <1>1, <1>6, <2>2
    <3>2. QED
      BY <2>0, <2>2, <3>1 DEF StagedInv
  <2>3. CASE q = p /\ target' = [target EXCEPT ![p] = Store!Tool!Staged(target[p], flat)]
    <3>1. seen'[q] = flat /\ target'[q] = Store!Tool!Staged(target[p], flat)
      BY <1>1, <1>3, <1>6, <2>3
    <3>2. QED
      BY <1>6, <3>1, StagedIs
  <2>4. QED
    BY <1>5, <2>1, <2>2, <2>3
<1>10. /\ cmd' \in Packaging \/ cmd' \in Bundling
       /\ cmd'.profile = p /\ (cmd'.at = "collect" \/ cmd'.at = "wipe")
       /\ cmd'.name = "package" => cmd'.at = "collect"
  <2>1. CASE cmd \in Packaging
    BY <1>1, <2>1 DEF Packaging
  <2>2. CASE cmd \in Bundling
    BY <1>1, <2>2 DEF Bundling
  <2>3. QED
    BY <1>2, <2>1, <2>2
<1>10a. cmd'.name = "bundle" => cmd.name = "bundle" /\ cmd'.staged = cmd.staged /\ cmd'.at = "wipe"
  BY <1>1, <1>2 DEF Packaging, Bundling
<1>11. BuildTypes' /\ FetchInv'
  BY <1>1, <1>2, <1>6, <1>8, <1>10, PackLeaves
<1>12. PackInv'
  <2>1. seen'[p] = flat
    BY <1>1, <1>3, <1>6
  <2>2. QED
    BY <1>1, <1>10, <2>1 DEF PackInv
<1>13. BundleInv' /\ DistInv'
  BY <1>1, <1>2, <1>10a DEF BuildInv, BundleInv, DistInv, Complete
<1>14. QED
  BY <1>9, <1>11, <1>12, <1>13 DEF BuildInv

LEMMA CollectKeeps == ASSUME Store!VersionAssumption, BuildInv, Store!Tool!Collect PROVE BuildInv'
<1>1. /\ cmd.name = "package" /\ cmd.at = "collect"
      /\ UNCHANGED <<index, unpacked, flat, target, seen, unstaged, app, dist>>
  BY DEF Store!Tool!Collect, Store!Tool!vendorVars, Store!Tool!targetVars
<1>2. BuildTypes /\ cmd \in Packaging /\ said = "nothing" /\ PackInv
  BY <1>1, CommandShapes DEF BuildInv
<1>3. cmd.profile \in Profiles /\ target[cmd.profile] \in [libs : Version0, res : Version0]
  BY <1>2 DEF Packaging, BuildTypes
<1>4. CASE Store!Tool!Ends("failed")
  BY <1>1, <1>4, CommandEnds DEF Store!Tool!Ends
<1>5. ASSUME Store!Tool!IsComplete(target[cmd.profile]), UNCHANGED said,
             cmd' = [cmd EXCEPT !.at = IF cmd.profile = "release" THEN "strip" ELSE "deb",
                                !.payload = Store!Tool!Collected(target[cmd.profile], cmd.profile)]
      PROVE  BuildInv'
  <2> DEFINE made == Store!Tool!Collected(target[cmd.profile], cmd.profile)
  <2>1. PICK release \in BOOLEAN : release = (cmd.profile = "release")
    OBVIOUS
  <2>2. made = [made |-> TRUE, libs |-> target[cmd.profile].libs, res |-> target[cmd.profile].res,
                release |-> release, stripped |-> FALSE]
    BY <2>1 DEF Store!Tool!Collected
  <2>3. /\ made \in Artifact /\ made.libs = target[cmd.profile].libs
        /\ made.res = target[cmd.profile].res /\ made.release = release
    BY <1>3, <2>2 DEF Artifact
  <2>4. Complete(made)
    BY <1>3, <1>5, <2>3 DEF Complete, Store!Tool!IsComplete, Version0
  <2> HIDE DEF made
  <2>5. cmd' = [cmd EXCEPT !.at = IF release THEN "strip" ELSE "deb", !.payload = made]
    BY <1>5, <2>1 DEF made
  <2>6. /\ cmd' \in Packaging /\ cmd'.payload = made /\ cmd'.profile = cmd.profile
        /\ cmd'.at = IF release THEN "strip" ELSE "deb"
    BY <1>2, <2>3, <2>5 DEF Packaging
  <2>7. BuildTypes' /\ FetchInv'
    BY <1>1, <1>2, <1>5, <2>6, PackLeaves DEF BuildInv, BuildTypes
  <2>8. StagedInv' /\ DistInv'
    BY <1>1 DEF BuildInv, StagedInv, DistInv, Complete
  <2>9. PackInv'
    BY <1>1, <1>2, <2>3, <2>4, <2>6 DEF PackInv, Complete
  <2>10. cmd'.name = "package"
    BY <2>6 DEF Packaging
  <2>11. BundleInv'
    BY <1>1, <1>5, <2>10 DEF BuildInv, BundleInv
  <2>12. QED
    BY <2>7, <2>8, <2>9, <2>11 DEF BuildInv
<1>6. QED
  BY <1>4, <1>5 DEF Store!Tool!Collect

LEMMA StripKeeps == ASSUME BuildInv, Store!Tool!Strip PROVE BuildInv'
<1>1. /\ cmd.name = "package" /\ cmd.at = "strip"
      /\ UNCHANGED <<index, unpacked, flat, target, seen, unstaged, app, dist>>
      /\ \/ cmd' = [cmd EXCEPT !.at = "deb", !.payload.stripped = TRUE] /\ said' = said
         \/ cmd' = Store!Tool!NoCommand /\ said' = "failed"
  BY DEF Store!Tool!Strip, Store!Tool!vendorVars, Store!Tool!targetVars, Store!Tool!Ends
<1>2. BuildTypes /\ cmd \in Packaging /\ said = "nothing" /\ PackInv
  BY <1>1, CommandShapes DEF BuildInv
<1>3. CASE cmd' = Store!Tool!NoCommand /\ said' = "failed"
  BY <1>1, <1>3, CommandEnds
<1>4. CASE cmd' = [cmd EXCEPT !.at = "deb", !.payload.stripped = TRUE] /\ said' = said
  <2> DEFINE made == [cmd.payload EXCEPT !.stripped = TRUE]
  <2>1. cmd.payload \in Artifact
    BY <1>2 DEF Packaging
  <2>2. /\ made \in Artifact /\ made.libs = cmd.payload.libs /\ made.res = cmd.payload.res
        /\ made.stripped
    BY <2>1 DEF Artifact
  <2>3. cmd' = [cmd EXCEPT !.at = "deb", !.payload = made]
    BY <1>4
  <2> HIDE DEF made
  <2>4. cmd' \in Packaging /\ cmd'.payload = made /\ cmd'.profile = cmd.profile /\ cmd'.at = "deb"
    BY <1>2, <2>2, <2>3 DEF Packaging
  <2>5. BuildTypes' /\ FetchInv'
    BY <1>1, <1>2, <1>4, <2>4, PackLeaves DEF BuildInv, BuildTypes
  <2>6. StagedInv' /\ DistInv'
    BY <1>1 DEF BuildInv, StagedInv, DistInv, Complete
  <2>7. PackInv'
    BY <1>1, <1>2, <2>2, <2>4 DEF PackInv, Complete
  <2>8. cmd'.name = "package"
    BY <2>4 DEF Packaging
  <2>9. BundleInv'
    BY <1>1, <1>4, <2>8 DEF BuildInv, BundleInv
  <2>10. QED
    BY <2>5, <2>6, <2>7, <2>9 DEF BuildInv
<1>5. QED
  BY <1>1, <1>3, <1>4

Making(format) ==
  cmd.name = "package" /\ cmd.at = format /\ (format = "deb" \/ format = "rpm" \/ format = "tarball")

\* What is written is complete, and stripped if it is a release.
LEMMA WrittenIs ==
  ASSUME BuildInv, NEW format, Making(format), Store!Tool!Written(format)
  PROVE  /\ dist' \in [Formats -> Artifact] /\ DistInv'
         /\ dist' # dist => /\ dist' = [dist EXCEPT ![format] = cmd.payload]
                            /\ cmd.payload.libs = target[cmd.profile].libs
                            /\ cmd.payload.res = target[cmd.profile].res
                            /\ seen[cmd.profile] = flat
<1>1. BuildTypes /\ cmd \in Packaging /\ PackInv /\ DistInv
  BY CommandShapes DEF BuildInv, Making
<1>2. cmd.payload \in Artifact /\ format \in Formats /\ dist \in [Formats -> Artifact]
  BY <1>1 DEF Packaging, BuildTypes, Making, Formats, Store!Tool!Packages
<1>3. /\ seen[cmd.profile] = flat
      /\ cmd.payload.libs = target[cmd.profile].libs /\ cmd.payload.res = target[cmd.profile].res
      /\ Complete(cmd.payload) /\ (cmd.payload.release => cmd.payload.stripped)
  BY <1>1 DEF PackInv, Making
<1>4. CASE dist' = dist
  BY <1>1, <1>2, <1>4 DEF DistInv, Complete
<1>5. CASE dist' = [dist EXCEPT ![format] = cmd.payload]
  <2>1. dist' \in [Formats -> Artifact]
    BY <1>2, <1>5
  <2>2. \A f \in Formats : dist'[f] = IF f = format THEN cmd.payload ELSE dist[f]
    BY <1>2, <1>5
  <2>3. Store!Tool!Packages \cup {"msi"} \subseteq Formats
    BY DEF Formats
  <2>4. DistInv'
    BY <1>1, <1>3, <2>2, <2>3 DEF DistInv, Complete
  <2>5. QED
    BY <1>3, <1>5, <2>1, <2>4
<1>6. QED
  BY <1>4, <1>5 DEF Store!Tool!Written

LEMMA WrittenKeeps ==
  ASSUME BuildInv, Store!Tool!BuildDeb \/ Store!Tool!BuildRpm \/ Store!Tool!BuildTarball PROVE BuildInv'
<1>1. PICK format : Making(format) /\ Store!Tool!Written(format)
  BY DEF Store!Tool!BuildDeb, Store!Tool!BuildRpm, Store!Tool!BuildTarball, Store!Tool!Written,
       Making
<1>2. /\ \/ cmd' = [cmd EXCEPT !.at = "rpm"] /\ said' = said /\ cmd.at = "deb"
         \/ cmd' = [cmd EXCEPT !.at = "tarball"] /\ said' = said /\ cmd.at = "rpm"
         \/ cmd' = Store!Tool!NoCommand /\ said' = "done"
      /\ cmd.name = "package"
  BY DEF Store!Tool!BuildDeb, Store!Tool!BuildRpm, Store!Tool!BuildTarball, Store!Tool!Goes,
       Store!Tool!Ends, Store!Tool!Written
<1>3. UNCHANGED <<index, unpacked, flat, target, seen, unstaged, app>>
  BY <1>1 DEF Store!Tool!Written, Store!Tool!vendorVars, Store!Tool!targetVars
<1>4. BuildTypes /\ cmd \in Packaging /\ said = "nothing" /\ PackInv
  BY <1>2, CommandShapes DEF BuildInv
<1>5. dist' \in [Formats -> Artifact] /\ DistInv'
  BY <1>1, WrittenIs
<1>6. \/ cmd' = Store!Tool!NoCommand /\ said' = "done"
      \/ /\ cmd' \in Packaging /\ cmd'.payload = cmd.payload /\ cmd'.profile = cmd.profile
         /\ said' = "nothing" /\ (cmd'.at = "rpm" \/ cmd'.at = "tarball")
         /\ (cmd.at = "deb" \/ cmd.at = "rpm")
  BY <1>2, <1>4 DEF Packaging
<1>7. BuildTypes' /\ FetchInv'
  BY <1>3, <1>4, <1>5, <1>6, PackLeaves DEF BuildTypes
<1>8. StagedInv'
  BY <1>3 DEF BuildInv, StagedInv
<1>9. PackInv'
  <2>1. CASE cmd' = Store!Tool!NoCommand
    BY <2>1, NoneIsNoCommand DEF PackInv
  <2>2. CASE cmd' # Store!Tool!NoCommand
    BY <1>2, <1>3, <1>4, <1>6, <2>2 DEF PackInv, Complete
  <2>3. QED
    BY <2>1, <2>2
<1>10. cmd'.name # "bundle" /\ said' # "bundled"
  BY <1>6, NoneIsNoCommand DEF Packaging
<1>11. BundleInv'
  BY <1>3, <1>10 DEF BuildInv, BundleInv
<1>12. QED
  BY <1>5, <1>7, <1>8, <1>9, <1>11 DEF BuildInv

LEMMA PartsOf ==
  /\ \A n \in Nat : n + 1 = 4 => Parts(n) \cup {Store!Tool!BundleParts[n + 1]} = Store!Tool!AllParts
  /\ \A n \in Nat : Parts(n + 1) = Parts(n) \cup {Store!Tool!BundleParts[n + 1]}
  /\ Parts(0) = {} /\ Len(Store!Tool!BundleParts) = 4
  /\ \A i \in 1..4 : Store!Tool!BundleParts[i] \in Store!Tool!AllParts
<1>1. Len(Store!Tool!BundleParts) = 4 /\ DOMAIN Store!Tool!BundleParts = 1..4
  BY DEF Store!Tool!BundleParts
<1>2. ASSUME NEW n \in Nat PROVE Parts(n + 1) = Parts(n) \cup {Store!Tool!BundleParts[n + 1]}
  <2>1. 1..(n + 1) = (1..n) \cup {n + 1}
    OBVIOUS
  <2>2. QED
    BY <2>1 DEF Parts
<1>3. Parts(4) = Store!Tool!AllParts
  BY <1>1 DEF Parts, Store!Tool!AllParts
<1>4. \A n \in Nat : n + 1 = 4 => Parts(n + 1) = Store!Tool!AllParts
  BY <1>3
<1>5. Parts(0) = {}
  BY DEF Parts
<1>6. \A i \in 1..4 : Store!Tool!BundleParts[i] \in Store!Tool!AllParts
  BY <1>1 DEF Store!Tool!AllParts
<1>7. QED
  BY <1>1, <1>2, <1>4, <1>5, <1>6

LEMMA WipeKeeps == ASSUME BuildInv, Store!Tool!Wipe PROVE BuildInv'
<1>1. /\ cmd.name = "bundle" /\ cmd.at = "wipe"
      /\ UNCHANGED <<index, unpacked, flat, target, seen, unstaged, dist>>
      /\ \/ cmd' = Store!Tool!NoCommand /\ said' = "failed" /\ app' = app
         \/ /\ cmd' = [cmd EXCEPT !.at = "stage"] /\ said' = said
            /\ app' = [exists |-> FALSE, parts |-> {}]
  BY DEF Store!Tool!Wipe, Store!Tool!vendorVars, Store!Tool!targetVars, Store!Tool!Ends,
       Store!Tool!Goes
<1>2. BuildTypes /\ cmd \in Bundling /\ said = "nothing" /\ BundleInv
  BY <1>1, CommandShapes DEF BuildInv
<1>3. CASE cmd' = Store!Tool!NoCommand /\ said' = "failed" /\ app' = app
  BY <1>1, <1>3, CommandEnds
<1>4. CASE cmd' = [cmd EXCEPT !.at = "stage"] /\ said' = said /\ app' = [exists |-> FALSE, parts |-> {}]
  <2>1. /\ cmd' \in Bundling /\ cmd'.staged = cmd.staged /\ cmd'.at = "stage"
        /\ cmd'.name = "bundle"
    BY <1>1, <1>2, <1>4 DEF Bundling
  <2>2. cmd.staged = 0
    BY <1>1, <1>2 DEF BundleInv
  <2>3. BuildTypes' /\ FetchInv'
    BY <1>1, <1>2, <1>4, <2>1, PackLeaves DEF BuildInv, BuildTypes
  <2>4. StagedInv' /\ DistInv'
    BY <1>1 DEF BuildInv, StagedInv, DistInv, Complete
  <2>5. PackInv'
    BY <2>1 DEF PackInv
  <2>6. Parts(cmd'.staged) = {} /\ app'.parts = {}
    BY <1>4, <2>1, <2>2, PartsOf
  <2>7. BundleInv'
    BY <1>2, <1>4, <2>1, <2>6 DEF BundleInv
  <2>8. QED
    BY <2>3, <2>4, <2>5, <2>7 DEF BuildInv
<1>5. QED
  BY <1>1, <1>3, <1>4

LEMMA StageBundleKeeps == ASSUME BuildInv, Store!Tool!StageBundle PROVE BuildInv'
<1> DEFINE piece == Store!Tool!BundleParts[cmd.staged + 1]
<1>1. /\ cmd.name = "bundle" /\ cmd.at = "stage"
      /\ UNCHANGED <<index, unpacked, flat, target, seen, unstaged, dist>>
      /\ app' = [exists |-> TRUE, parts |-> app.parts \cup {piece}]
      /\ \/ cmd.staged + 1 = 4 /\ cmd' = Store!Tool!NoCommand /\ said' = "bundled"
         \/ /\ cmd.staged + 1 # 4 /\ said' = said
            /\ cmd' = [cmd EXCEPT !.staged = cmd.staged + 1]
  BY PartsOf DEF Store!Tool!StageBundle, Store!Tool!vendorVars, Store!Tool!targetVars,
       Store!Tool!Ends
<1>2. BuildTypes /\ cmd \in Bundling /\ said = "nothing" /\ BundleInv
  BY <1>1, CommandShapes DEF BuildInv
<1>3. cmd.staged \in 0..3
  BY <1>2 DEF Bundling
<1>4. piece \in Store!Tool!AllParts
  BY <1>3, PartsOf
<1> HIDE DEF piece
<1>5. /\ app'.parts = app.parts \cup {piece} /\ app'.parts \subseteq Store!Tool!AllParts
      /\ Parts(cmd.staged) \subseteq app.parts
  BY <1>1, <1>2, <1>4 DEF BundleInv
<1>6. Parts(cmd.staged + 1) \subseteq app'.parts
  BY <1>3, <1>5, PartsOf DEF piece
<1>7. StagedInv' /\ DistInv'
  BY <1>1 DEF BuildInv, StagedInv, DistInv, Complete
<1>8. CASE cmd.staged + 1 = 4 /\ cmd' = Store!Tool!NoCommand /\ said' = "bundled"
  <2>1. BuildTypes' /\ FetchInv'
    BY <1>1, <1>2, <1>8, PackLeaves DEF BuildInv, BuildTypes
  <2>2. PackInv'
    BY <1>8, NoneIsNoCommand DEF PackInv
  <2>3. Parts(cmd.staged) \cup {piece} = Store!Tool!AllParts
    BY <1>3, <1>8, PartsOf DEF piece
  <2>4. app'.parts = Store!Tool!AllParts
    BY <1>5, <2>3
  <2>5. BundleInv'
    BY <1>8, <2>4, NoneIsNoCommand DEF BundleInv
  <2>6. QED
    BY <1>7, <2>1, <2>2, <2>5 DEF BuildInv
<1>9. CASE cmd.staged + 1 # 4 /\ said' = said /\ cmd' = [cmd EXCEPT !.staged = cmd.staged + 1]
  <2>1. /\ cmd' \in Bundling /\ cmd'.staged = cmd.staged + 1 /\ cmd'.at = "stage"
        /\ cmd'.name = "bundle"
    BY <1>1, <1>2, <1>3, <1>9 DEF Bundling
  <2>2. BuildTypes' /\ FetchInv'
    BY <1>1, <1>2, <1>9, <2>1, PackLeaves DEF BuildInv, BuildTypes
  <2>3. PackInv'
    BY <2>1 DEF PackInv
  <2>4. BundleInv'
    BY <1>2, <1>5, <1>6, <1>9, <2>1 DEF BundleInv
  <2>5. QED
    BY <1>7, <2>2, <2>3, <2>4 DEF BuildInv
<1>10. QED
  BY <1>1, <1>8, <1>9

\* Images and installers are made of what lies there.
LEMMA ImageKeeps ==
  ASSUME BuildInv, cmd' = Store!Tool!NoCommand, said' # "bundled",
         UNCHANGED <<index, unpacked, flat, target, seen, unstaged, app>>,
         dist' \in [Formats -> Artifact], DistInv'
  PROVE  BuildInv'
<1>1. BuildTypes' /\ FetchInv'
  BY PackLeaves DEF BuildInv, BuildTypes
<1>2. StagedInv' /\ PackInv' /\ BundleInv'
  BY NoneIsNoCommand DEF BuildInv, StagedInv, PackInv, BundleInv
<1>3. QED
  BY <1>1, <1>2 DEF BuildInv

LEMMA FormatsAre ==
  /\ "dmg" \in Formats /\ "msi" \in Formats /\ "dmg" \notin Store!Tool!Packages \cup {"msi"}
  /\ "msi" \notin Store!Tool!Packages /\ Store!Tool!Packages \cup {"msi"} \subseteq Formats
BY DEF Formats, Store!Tool!Packages

LEMMA DmgKeeps ==
  ASSUME Store!VersionAssumption, BuildInv, Store!Tool!Dmg
  PROVE  /\ BuildInv'
         /\ \A f \in Store!Tool!Packages : dist'[f] = dist[f]
         /\ dist'["dmg"] # dist["dmg"] => dist'["dmg"].stripped = (app.parts = Store!Tool!AllParts)
<1>0. BuildTypes /\ DistInv /\ dist \in [Formats -> Artifact]
  BY DEF BuildInv, BuildTypes
<1>1. /\ cmd' = Store!Tool!NoCommand /\ said' # "bundled"
      /\ UNCHANGED <<index, unpacked, flat, target, seen, unstaged, app>>
  BY DEF Store!Tool!Dmg, Store!Tool!Starts, Store!Tool!vendorVars, Store!Tool!targetVars
<1>2. PICK all \in BOOLEAN : all = (app.parts = Store!Tool!AllParts)
  OBVIOUS
<1> DEFINE image == [Store!Tool!NoArtifact EXCEPT !.made = TRUE, !.stripped = all]
<1>3. dist' = dist \/ dist' = [dist EXCEPT !["dmg"] = image]
  BY <1>2 DEF Store!Tool!Dmg
<1>4. image \in Artifact /\ image.stripped = all
  BY NoArtifactFine DEF Store!Tool!NoArtifact, Artifact
<1> HIDE DEF image
<1>5. /\ dist' \in [Formats -> Artifact]
      /\ \A f \in Store!Tool!Packages \cup {"msi"} : dist'[f] = dist[f]
      /\ dist'["dmg"] # dist["dmg"] => dist'["dmg"] = image
  BY <1>0, <1>3, <1>4, FormatsAre
<1>6. DistInv'
  BY <1>0, <1>5 DEF DistInv, Complete
<1>7. BuildInv'
  BY <1>1, <1>5, <1>6, ImageKeeps
<1>8. QED
  BY <1>2, <1>4, <1>5, <1>7

LEMMA MsiKeeps ==
  ASSUME BuildInv, NEW profile \in Profiles, Store!Tool!Msi(profile)
  PROVE  BuildInv' /\ (\A f \in Store!Tool!Packages : dist'[f] = dist[f]) /\ dist'["dmg"] = dist["dmg"]
<1>0. BuildTypes /\ DistInv /\ dist \in [Formats -> Artifact]
  BY DEF BuildInv, BuildTypes
<1>1. /\ cmd' = Store!Tool!NoCommand /\ said' # "bundled"
      /\ UNCHANGED <<index, unpacked, flat, target, seen, unstaged, app>>
  BY DEF Store!Tool!Msi, Store!Tool!Starts, Store!Tool!vendorVars, Store!Tool!targetVars
<1>2. CASE dist' = dist
  <2>1. DistInv'
    BY <1>0, <1>2 DEF DistInv, Complete
  <2>2. QED
    BY <1>0, <1>1, <1>2, <2>1, ImageKeeps
<1>3. ASSUME NEW payload \in Store!Tool!WindowsPayload(profile), dist' = [dist EXCEPT !["msi"] = payload]
      PROVE  BuildInv' /\ (\A f \in Store!Tool!Packages : dist'[f] = dist[f]) /\ dist'["dmg"] = dist["dmg"]
  <2>1. PICK release \in BOOLEAN : release = (profile = "release")
    OBVIOUS
  <2>2. target[profile] \in [libs : Version0, res : Version0]
    BY <1>0 DEF BuildTypes
  <2>3. /\ payload = [made |-> TRUE, libs |-> target[profile].libs, res |-> target[profile].res,
                      release |-> release, stripped |-> FALSE]
        /\ target[profile].libs # 0 /\ target[profile].res # 0
    BY <1>3, <2>1 DEF Store!Tool!WindowsPayload, Store!Tool!Collected, Store!Tool!IsComplete
  <2>4. payload \in Artifact /\ Complete(payload)
    BY <2>2, <2>3 DEF Artifact, Complete, Version0
  <2>5. /\ dist' \in [Formats -> Artifact] /\ dist'["msi"] = payload /\ dist'["dmg"] = dist["dmg"]
        /\ \A f \in Store!Tool!Packages : dist'[f] = dist[f]
    BY <1>0, <1>3, <2>4, FormatsAre
  <2>6. DistInv'
    BY <1>0, <2>4, <2>5 DEF DistInv, Complete
  <2>7. QED
    BY <1>1, <2>5, <2>6, ImageKeeps
<1>4. QED
  BY <1>2, <1>3 DEF Store!Tool!Msi

LEMMA OthersKeep ==
  ASSUME Store!VersionAssumption, BuildInv,
         Store!Tool!Interrupted \/ Store!Tool!Publish \/ Store!Tool!DeleteVendor
  PROVE  BuildInv'
<1>1. CASE Store!Tool!Interrupted
  BY <1>1, CommandEnds DEF Store!Tool!Interrupted, Store!Tool!Ends, Store!Tool!vendorVars,
       Store!Tool!targetVars
<1>2. ASSUME cmd = Store!Tool!NoCommand, UNCHANGED <<target, seen, unstaged, app, dist, cmd, said>>,
             index' \in Store!Tool!Versions, unpacked' \subseteq Unpacked,
             flat' \in [Store!Tool!Pieces -> Version0]
      PROVE  BuildInv'
  <2>1. FetchInv' /\ BuildTypes'
    BY <1>2, NoneIsNoCommand DEF BuildInv, BuildTypes, FetchInv
  <2>2. QED
    BY <1>2, <2>1, FetchLeaves DEF BuildInv
<1>3. CASE Store!Tool!Publish
  <2>1. index' \in Store!Tool!Versions
    BY <1>3 DEF Store!Tool!Publish, BuildInv, BuildTypes, Store!Tool!Versions,
         Store!VersionAssumption
  <2>2. QED
    BY <1>2, <1>3, <2>1
       DEF Store!Tool!Publish, Store!Tool!Idle, Store!Tool!vendorVars, Store!Tool!targetVars,
           BuildInv, BuildTypes
<1>4. CASE Store!Tool!DeleteVendor
  BY <1>2, <1>4, NothingFlat
     DEF Store!Tool!DeleteVendor, Store!Tool!Idle, Store!Tool!targetVars, BuildInv, BuildTypes
<1>5. QED
  BY <1>1, <1>3, <1>4

LEMMA BuildStep ==
  ASSUME Store!VersionAssumption, BuildInv, [Store!Tool!Next]_(Store!Tool!buildVars) PROVE BuildInv'
<1>1. CASE \/ Store!Tool!Fetch \/ Store!Tool!FindPopulated \/ Store!Tool!Download \/ Store!Tool!VerifySha1 \/ Store!Tool!Extract
           \/ Store!Tool!FlattenFinds \/ Store!Tool!Move \/ Store!Tool!FlattenEnds
  BY <1>1, FetchKeeps, EarlyKeeps, ExtractKeeps, FlattenKeeps, MoveKeeps, FlattenEndsKeeps
<1>2. CASE Store!Tool!Build \/ Store!Tool!Collect \/ Store!Tool!Strip
  BY <1>2, BuildKeeps, CollectKeeps, StripKeeps
<1>3. CASE Store!Tool!BuildDeb \/ Store!Tool!BuildRpm \/ Store!Tool!BuildTarball
  BY <1>3, WrittenKeeps
<1>4. CASE Store!Tool!Wipe \/ Store!Tool!StageBundle
  BY <1>4, WipeKeeps, StageBundleKeeps
<1>5. CASE Store!Tool!Interrupted \/ Store!Tool!Publish \/ Store!Tool!DeleteVendor
  BY <1>5, OthersKeep
<1>6. ASSUME NEW profile \in Profiles, Store!Tool!Bundle(profile) PROVE BuildInv'
  BY <1>6, BundleKeeps
<1>7. ASSUME NEW profile \in Profiles, NEW variant \in Variants, Store!Tool!Package(variant, profile)
      PROVE  BuildInv'
  BY <1>7, PackageKeeps
<1>8. CASE Store!Tool!Dmg
  BY <1>8, DmgKeeps
<1>9. ASSUME NEW profile \in Profiles, Store!Tool!Msi(profile) PROVE BuildInv'
  BY <1>9, MsiKeeps
<1>10. CASE UNCHANGED Store!Tool!buildVars
  <2>1. /\ UNCHANGED <<index, archive, unpacked, flat, target, seen, unstaged, app, dist, cmd, said>>
    BY <1>10 DEF Store!Tool!buildVars
  <2>2. BuildTypes' /\ FetchInv'
    BY <2>1 DEF BuildInv, BuildTypes, FetchInv, FreshInv, Early, OfVersion, Have, Store!Tool!Idle
  <2>3. StagedInv' /\ PackInv' /\ BundleInv' /\ DistInv'
    BY <2>1 DEF BuildInv, StagedInv, PackInv, BundleInv, DistInv, Complete
  <2>4. QED
    BY <2>2, <2>3 DEF BuildInv
<1>11. QED
  BY <1>1, <1>2, <1>3, <1>4, <1>5, <1>6, <1>7, <1>8, <1>9, <1>10 DEF Store!Tool!Next

LEMMA BuildInitFine == ASSUME Store!VersionAssumption, Store!Tool!Init PROVE BuildInv
<1>1. /\ index = 1 /\ unpacked = {} /\ flat = Store!Tool!Nothing /\ unstaged = {}
      /\ target = [p \in Profiles |-> [libs |-> 0, res |-> 0]]
      /\ seen = [p \in Profiles |-> Store!Tool!Nothing]
      /\ app = [exists |-> FALSE, parts |-> {}]
      /\ dist = [f \in Formats |-> Store!Tool!NoArtifact] /\ cmd = Store!Tool!NoCommand /\ said = "nothing"
  BY DEF Store!Tool!Init, Formats
<1>2. 1 \in Store!Tool!Versions
  BY DEF Store!VersionAssumption, Store!Tool!Versions
<1>3. [libs |-> 0, res |-> 0] \in [libs : Version0, res : Version0]
  BY DEF Version0
<1>4. BuildTypes
  BY <1>1, <1>2, <1>3, NothingFlat, NoArtifactFine DEF BuildTypes, Store!Tool!Idle
<1>5. cmd.name = "none"
  BY <1>1 DEF Store!Tool!NoCommand
<1>6. FetchInv /\ PackInv /\ BundleInv
  BY <1>1, <1>5 DEF FetchInv, PackInv, BundleInv
<1>7. StagedInv
  BY <1>1 DEF StagedInv, Store!Tool!Whole, Store!Tool!Nothing, Store!Tool!Pieces
<1>8. DistInv
  <2>1. ~Store!Tool!NoArtifact.made
    BY DEF Store!Tool!NoArtifact
  <2>2. QED
    BY <1>1, <2>1 DEF DistInv, Formats
<1>9. QED
  BY <1>4, <1>6, <1>7, <1>8 DEF BuildInv

LEMMA ShippedFine ==
  ASSUME Store!VersionAssumption, BuildInv PROVE Store!Tool!ShippedIsSound
<1>1. \A u \in unpacked : u.of \in Store!Tool!Versions
  BY DEF BuildInv, BuildTypes, Unpacked
<1>2. Store!Tool!Other \notin Version0
  BY DEF Store!VersionAssumption, Store!Tool!Other, Version0, Store!Tool!Versions
<1>3. \A p \in Store!Tool!Pieces : flat[p] # Store!Tool!Other
  BY <1>2 DEF BuildInv, BuildTypes
<1>4. QED
  BY <1>1, <1>3 DEF BuildInv, DistInv, Complete, Store!Tool!ShippedIsSound

\* Of one step.
PackedWell ==
  \A f \in Store!Tool!Packages :
    (dist'[f] # dist[f] /\ Store!Tool!Whole(flat) /\ cmd.profile \notin unstaged)
      => dist'[f].libs = flat["Release"] /\ dist'[f].res = flat["Release"]
ImagedWell == dist'["dmg"] # dist["dmg"] /\ said = "bundled" => dist'["dmg"].stripped

LEMMA FetchedFine ==
  ASSUME Store!VersionAssumption, BuildInv, [Store!Tool!Next]_(Store!Tool!buildVars),
         said' = "fetched", said # "fetched"
  PROVE  Store!Tool!Whole(flat') /\ unpacked' = {}
<1>1. Store!Tool!FlattenEnds /\ cmd.fresh
  BY DEF Store!Tool!Next, Store!Tool!buildVars, Store!Tool!Fetch, Store!Tool!FindPopulated,
       Store!Tool!Download, Store!Tool!VerifySha1,
     Store!Tool!Extract, Store!Tool!FlattenFinds, Store!Tool!Move, Store!Tool!FlattenEnds, Store!Tool!Build, Store!Tool!Collect,
     Store!Tool!Strip, Store!Tool!BuildDeb, Store!Tool!BuildRpm, Store!Tool!BuildTarball, Store!Tool!Wipe, Store!Tool!StageBundle,
     Store!Tool!Dmg, Store!Tool!Msi, Store!Tool!Interrupted, Store!Tool!Publish, Store!Tool!DeleteVendor, Store!Tool!Bundle,
     Store!Tool!Package, Store!Tool!Begin, Store!Tool!Goes, Store!Tool!Ends
<1>2. cmd.name = "fetch" /\ cmd.at = "move" /\ cmd.left = {} /\ flat' = flat
      /\ unpacked' = IF cmd.whole THEN {} ELSE unpacked
  BY <1>1 DEF Store!Tool!FlattenEnds
<1>3. cmd \in Fetching /\ FetchInv
  BY <1>2, CommandShapes DEF BuildInv
<1>4. cmd.whole /\ \A p \in Store!Tool!Pieces : flat[p] = cmd.version
  BY <1>1, <1>2, <1>3 DEF FetchInv, FreshInv
<1>5. flat["Release"] = cmd.version /\ flat["Resources"] = cmd.version
  BY <1>4 DEF Store!Tool!Pieces
<1>6. cmd.version # 0
  BY <1>3 DEF Fetching, Store!Tool!Versions, Store!VersionAssumption
<1>7. QED
  BY <1>2, <1>4, <1>5, <1>6 DEF Store!Tool!Whole

\* The artifacts change where they are made only.
LEMMA DistMoves ==
  ASSUME [Store!Tool!Next]_(Store!Tool!buildVars), dist' # dist
  PROVE  \/ \E format : Making(format) /\ Store!Tool!Written(format)
         \/ Store!Tool!Dmg \/ \E profile \in Profiles : Store!Tool!Msi(profile)
BY DEF Store!Tool!Next, Store!Tool!buildVars, Store!Tool!Fetch, Store!Tool!FindPopulated,
     Store!Tool!Download, Store!Tool!VerifySha1,
   Store!Tool!Extract, Store!Tool!FlattenFinds, Store!Tool!Move, Store!Tool!FlattenEnds, Store!Tool!Build, Store!Tool!Collect,
   Store!Tool!Strip, Store!Tool!BuildDeb, Store!Tool!BuildRpm, Store!Tool!BuildTarball, Store!Tool!Wipe, Store!Tool!StageBundle,
   Store!Tool!Interrupted, Store!Tool!Publish, Store!Tool!DeleteVendor, Store!Tool!Bundle, Store!Tool!Package, Making, Store!Tool!Written

LEMMA PackedFine ==
  ASSUME Store!VersionAssumption, BuildInv, [Store!Tool!Next]_(Store!Tool!buildVars)
  PROVE  PackedWell /\ ImagedWell
<1>1. CASE dist' = dist
  BY <1>1 DEF PackedWell, ImagedWell
<1>2. ASSUME NEW format, Making(format), Store!Tool!Written(format), dist' # dist
      PROVE  PackedWell /\ ImagedWell
  <2>1. /\ dist' = [dist EXCEPT ![format] = cmd.payload]
        /\ cmd.payload.libs = target[cmd.profile].libs
        /\ cmd.payload.res = target[cmd.profile].res
        /\ seen[cmd.profile] = flat
    BY <1>2, WrittenIs
  <2>2. dist \in [Formats -> Artifact] /\ cmd.profile \in Profiles /\ StagedInv
    BY <1>2, CommandShapes DEF BuildInv, BuildTypes, Packaging, Making
  <2>3. format \in Store!Tool!Packages /\ format # "dmg" /\ "dmg" \in Formats
        /\ Store!Tool!Packages \subseteq Formats
    BY <1>2 DEF Making, Store!Tool!Packages, Formats
  <2>4. dist'["dmg"] = dist["dmg"]
    BY <2>1, <2>2, <2>3
  <2>5. ASSUME NEW f \in Store!Tool!Packages, dist'[f] # dist[f], Store!Tool!Whole(flat),
               cmd.profile \notin unstaged
        PROVE  dist'[f].libs = flat["Release"] /\ dist'[f].res = flat["Release"]
    <3>1. f = format /\ dist'[f] = cmd.payload
      BY <2>1, <2>2, <2>3, <2>5
    <3>2. target[cmd.profile].libs = flat["Release"] /\ target[cmd.profile].res = flat["Release"]
      BY <2>1, <2>2, <2>5 DEF StagedInv
    <3>3. QED
      BY <2>1, <3>1, <3>2
  <2>6. QED
    BY <2>4, <2>5 DEF PackedWell, ImagedWell
<1>3. ASSUME Store!Tool!Dmg PROVE PackedWell /\ ImagedWell
  <2>1. /\ \A f \in Store!Tool!Packages : dist'[f] = dist[f]
        /\ dist'["dmg"] # dist["dmg"] => dist'["dmg"].stripped = (app.parts = Store!Tool!AllParts)
    BY <1>3, DmgKeeps
  <2>2. said = "bundled" => app.parts = Store!Tool!AllParts
    BY DEF BuildInv, BundleInv
  <2>3. QED
    BY <2>1, <2>2 DEF PackedWell, ImagedWell
<1>4. ASSUME NEW profile \in Profiles, Store!Tool!Msi(profile) PROVE PackedWell /\ ImagedWell
  BY <1>4, MsiKeeps DEF PackedWell, ImagedWell
<1>5. QED
  BY <1>1, <1>2, <1>3, <1>4, DistMoves

\* Whatever was interrupted before, only bytes with the published digest are
\* unpacked or shipped, every package has its libraries and its locales, a fetch
\* from nothing is whole, and a package has the version that lies there (fetch_cef,
\* stage_runtime, the collectors), for any versions, profiles and faults.
THEOREM WhatShipsIsAlwaysSound ==
  ASSUME Store!VersionAssumption PROVE Store!PartsSpec => Store!WhatShipsIsSound
<1> DEFINE Steps == [][Store!OfDownloads(Store!Next) \/ Store!OfBuilds(Store!Tool!Next)]_(Store!allVars)
<1>1. Store!PartsSpec => Store!Tool!Init /\ [][Store!Tool!Next]_(Store!Tool!buildVars)
  <2>1. Store!PartsInit => Store!Tool!Init
    BY DEF Store!PartsInit
  <2>2. UNCHANGED Store!buildVars => UNCHANGED Store!Tool!buildVars
    BY DEF Store!buildVars, Store!Tool!buildVars
  <2>3. [Store!OfDownloads(Store!Next) \/ Store!OfBuilds(Store!Tool!Next)]_(Store!allVars)
          => [Store!Tool!Next]_(Store!Tool!buildVars)
    BY <2>2 DEF Store!OfDownloads, Store!OfBuilds, Store!allVars
  <2>4. Store!PartsSpec => Store!PartsInit /\ Steps
    BY PTL DEF Store!PartsSpec
  <2>5. QED
    BY <2>1, <2>3, <2>4, PTL
<1>2. Store!Tool!Init => BuildInv
  BY BuildInitFine
<1>3. BuildInv /\ [Store!Tool!Next]_(Store!Tool!buildVars) => BuildInv'
  BY BuildStep
<1>4. BuildInv => (part = "builds" => Store!Tool!ShippedIsSound)
  BY ShippedFine
<1>5. BuildInv /\ [Store!Tool!Next]_(Store!Tool!buildVars) =>
        [/\ (said' = "fetched" /\ said # "fetched") => Store!Tool!Whole(flat') /\ unpacked' = {}
         /\ \A f \in Store!Tool!Packages :
              (dist'[f] # dist[f] /\ Store!Tool!Whole(flat) /\ cmd.profile \notin unstaged)
                => dist'[f].libs = flat["Release"] /\ dist'[f].res = flat["Release"]
         /\ (dist'["dmg"] # dist["dmg"] /\ said = "bundled") => dist'["dmg"].stripped]_(Store!Tool!buildVars)
  BY FetchedFine, PackedFine DEF PackedWell, ImagedWell
<1>6. Store!Tool!Init /\ [][Store!Tool!Next]_(Store!Tool!buildVars) =>
        [](part = "builds" => Store!Tool!ShippedIsSound) /\ Store!Tool!FetchedIsShipped
  BY <1>2, <1>3, <1>4, <1>5, PTL DEF Store!Tool!FetchedIsShipped
<1>7. QED
  BY <1>1, <1>6, PTL DEF Store!WhatShipsIsSound
=============================================================================
