-------------------------- MODULE AppServerClientProofs --------------------------
(***************************************************************************)
(* That the client implements RemoteCall, forgets no caller, keeps no      *)
(* permit or entry of its map, and hands out no answer before what the     *)
(* server sent ahead of it, for any number of callers, calls and attempts, *)
(* and any bound of the limiter and the queue.                             *)
(***************************************************************************)
EXTENDS AppServerClient, FiniteSetTheorems, SequenceTheorems, TLAPS

Kinds == {"answer", "event", "ping", "end"}
Messages == [kind : Kinds, id : {0} \union Id, slot : Slots]
Requests == [call : 0..MaxCalls, state : Progress, slot : Slots]
InMine == [call : 0..MaxCalls, attempt : Int, id : {0} \union Id]

\* The types the argument needs; the counters of notifications are left out.
ShapeInv ==
  /\ permits \in Int
  /\ next_id \in Nat \ {0}
  /\ pending \subseteq Id
  /\ request \in [Id -> Requests]
  /\ queue \in Seq(Commands) /\ hand \in Seq(Commands) /\ Len(hand) <= 1
  /\ incoming \in Seq(Messages) /\ emitted \in 0..MaxEmits
  /\ pc \in [Caller -> CallerSteps]
  /\ mine \in [Caller -> InMine]
  /\ outcome \in [Call -> {"none", "open", "ok", "failed"}]

\* Calls are numbered in the order in which they begin.
CallsCounted == \E n \in 0..MaxCalls : \A k \in Call : outcome[k] # "none" <=> k <= n

\* Whoever is in a call has an open one of its own ...
OpenCalls ==
  /\ \A c \in Caller : pc[c] \in InCall =>
       mine[c].call \in Call /\ outcome[mine[c].call] = "open"
  /\ \A c, d \in Caller :
       pc[c] \in InCall /\ pc[d] \in InCall /\ mine[c].call = mine[d].call => c = d

\* ... and every request made for it, but for the one in hand, was refused.
OthersRefused ==
  \A c \in Caller : pc[c] \in InCall =>
    \A id \in Id \ {mine[c].id} : request[id].call = mine[c].call => request[id].state = "refused"

\* The request in hand, by where the caller stands.
InHand ==
  \A c \in Caller :
    /\ pc[c] \in {"check", "permit"} => mine[c].id = 0
    /\ pc[c] \in Holding \union {"forget", "sleep"} =>
         mine[c].id \in Id /\ request[mine[c].id].call = mine[c].call
    /\ pc[c] = "send" => request[mine[c].id].state = "unmade"
    /\ pc[c] = "sleep" => request[mine[c].id].state = "refused"

\* What a call's outcome says of its requests.
Outcomes ==
  /\ \A id \in Id : request[id].call \in Call => outcome[request[id].call] # "none"
  /\ \A k \in Call : outcome[k] = "ok" =>
       \E id \in Id : request[id].call = k /\ request[id].state = "executed"

\* The calls' side.
CallInv == CallsCounted /\ OpenCalls /\ OthersRefused /\ InHand /\ Outcomes

\* Requests are made in the order of their ids, and no two of one call are alive.
IdInv ==
  /\ \A id \in Id : id >= next_id => request[id] = Unmade
  /\ \A id \in Id : id < next_id => request[id].call \in Call
  /\ \A i, j \in Id :
       /\ request[i].call = request[j].call /\ request[i].call \in Call
       /\ request[i].state # "refused" /\ request[j].state # "refused"
       => i = j

\* The writer's side: each request is written once.
WireInv ==
  /\ \A n \in DOMAIN queue : queue[n].kind = "text" =>
       /\ queue[n].id \in Id /\ request[queue[n].id].state = "queued"
       /\ \A m \in DOMAIN queue : queue[m] = queue[n] => m = n
       /\ \A m \in DOMAIN hand : hand[m] # queue[n]
  /\ \A m \in DOMAIN hand : hand[m].kind = "text" =>
       hand[m].id \in Id /\ request[hand[m].id].state = "queued"

\* What an answer under an id may say of the request.
Honest(id, slot) ==
  /\ slot.call = request[id].call
  /\ slot.result = "ok" => request[id].state = "executed"
  /\ slot.result = "overloaded" => request[id].state = "refused"

AboutItsRequest(message) ==
  IF message.kind = "answer"
  THEN /\ message.id \in Id /\ request[message.id].state \in {"executed", "refused"}
       /\ message.slot.result # "open"
       /\ Honest(message.id, message.slot)
  ELSE message.id = 0

\* The reader's side: an answer is about the request under its id, and a request that
\* has its result is no longer pending.
AnswerInv ==
  /\ \A n \in DOMAIN incoming : AboutItsRequest(incoming[n])
  /\ \A id \in Id : request[id].slot # Open =>
       Honest(id, request[id].slot) /\ request[id].slot.result # "open" /\ id \notin pending

ClientInv == ShapeInv /\ CallInv /\ IdInv /\ WireInv /\ AnswerInv

\* Whoever holds a permit has its result or is in the map.
HoldersKnown ==
  \A c \in Caller :
    pc[c] \in Holding /\ request[mine[c].id].slot = Open => mine[c].id \in pending
LeakInv == ClientInv /\ NothingLeaks /\ HoldersKnown

-----------------------------------------------------------------------------
(* Facts about the definitions *)

LEMMA IdsArePositive == Id \subseteq Nat \ {0}
<1>1. MaxCalls * READ_ATTEMPTS \in Int
  BY ClientAssumption
<1> QED BY <1>1 DEF Id

LEMMA OpenIsASlot == Open \in Slots
BY DEF Slots

LEMMA FirstIsTaken == ASSUME ShapeInv, incoming # <<>> PROVE RemoveAt(incoming, 1) = Tail(incoming)
<1>1. incoming \in Seq(Messages)
  BY DEF ShapeInv
<1>2. SubSeq(incoming, 1, 0) = <<>>
  BY <1>1
<1> QED BY <1>1, <1>2 DEF RemoveAt

\* The invariant holds at first.
LEMMA InitInv == ASSUME Init PROVE LeakInv
<1> USE DEF Init
<1>1. ShapeInv
  BY ClientAssumption, OpenIsASlot
     DEF ShapeInv, Unmade, Requests, InMine, Progress, CallerSteps, NoCall, Commands, Messages
<1>2. CallInv
  BY ClientAssumption DEF CallInv, CallsCounted, OpenCalls, OthersRefused, InHand, Outcomes,
     InCall, CallerSteps, Holding, Call, Unmade
<1>3. IdInv /\ WireInv /\ AnswerInv
  BY IdsArePositive DEF IdInv, WireInv, AnswerInv, Unmade, Call
<1>4. NothingLeaks
  <2>1. InFlight = {}
    BY DEF InFlight, Holding
  <2> QED BY <2>1, FS_EmptySet, ClientAssumption DEF NothingLeaks
<1>5. HoldersKnown
  BY DEF HoldersKnown, Holding
<1> QED BY <1>1, <1>2, <1>3, <1>4, <1>5 DEF LeakInv, ClientInv

-----------------------------------------------------------------------------
(* What several actions have in common *)

\* No request makes progress or is made.
SameProgress ==
  /\ request' \in [Id -> Requests]
  /\ \A id \in Id : request'[id].call = request[id].call /\ request'[id].state = request[id].state

\* Results may be dropped, none is delivered.
NoDelivery ==
  /\ SameProgress
  /\ \A id \in Id : request'[id] = request[id] \/ request'[id].slot = Open

LEMMA SameIsNoDelivery == ASSUME ShapeInv, UNCHANGED request PROVE NoDelivery
BY DEF ShapeInv, NoDelivery, SameProgress

LEMMA UnlistenIsNoDelivery ==
  ASSUME ShapeInv, NEW c \in Caller, Unlisten(c) PROVE NoDelivery
<1>1. \A id \in Id : request'[id] \in {request[id], [request[id] EXCEPT !.slot = Open]}
  BY DEF Unlisten
<1>2. \A id \in Id : request[id] \in Requests
  BY DEF ShapeInv
<1>3. \A r \in Requests :
         /\ [r EXCEPT !.slot = Open] \in Requests /\ [r EXCEPT !.slot = Open].slot = Open
         /\ [r EXCEPT !.slot = Open].call = r.call /\ [r EXCEPT !.slot = Open].state = r.state
  BY OpenIsASlot DEF Requests
<1>4. ASSUME NEW id \in Id
      PROVE  /\ request'[id] \in Requests
             /\ request'[id].call = request[id].call /\ request'[id].state = request[id].state
             /\ (request'[id] = request[id] \/ request'[id].slot = Open)
  <2>1. CASE request'[id] = request[id]
    BY <1>2, <2>1
  <2>2. CASE request'[id] = [request[id] EXCEPT !.slot = Open]
    BY <1>2, <1>3, <2>2
  <2> QED BY <1>1, <2>1, <2>2
<1>5. request' \in [Id -> Requests]
  BY <1>4 DEF Unlisten
<1> QED BY <1>4, <1>5 DEF NoDelivery, SameProgress

\* A call that ends leaves the invariant of calls, if a success has been executed.
LEMMA ReturnKeepsCalls ==
  ASSUME ShapeInv, CallInv, SameProgress,
         NEW c \in Caller, pc[c] \in InCall, NEW result \in {"ok", "failed"}, Return(c, result),
         result = "ok" => request[mine[c].id].state = "executed" /\ pc[c] \in Holding
  PROVE  CallInv'
<1> DEFINE k == mine[c].call
<1>1. /\ pc'[c] = "idle" /\ \A d \in Caller \ {c} : pc'[d] = pc[d] /\ mine'[d] = mine[d]
      /\ \A j \in Call : outcome'[j] = IF j = k THEN result ELSE outcome[j]
  BY DEF ShapeInv, Return, Goto
<1>2. k \in Call /\ outcome[k] = "open"
  BY DEF CallInv, OpenCalls
<1>3. \A d \in Caller : pc'[d] \in InCall => d # c /\ pc[d] \in InCall /\ mine'[d] = mine[d]
  BY <1>1 DEF InCall
<1>4. \A j \in Call : outcome'[j] # "none" <=> outcome[j] # "none"
  BY <1>1, <1>2
<1>5. CallsCounted'
  BY <1>4 DEF CallInv, CallsCounted
<1>6. OpenCalls'
  BY <1>1, <1>3 DEF CallInv, OpenCalls
<1>7. OthersRefused'
  BY <1>3 DEF CallInv, OthersRefused, SameProgress
<1>8. InHand'
  BY <1>1, <1>3 DEF CallInv, InHand, SameProgress, InCall, CallerSteps, Holding
<1>9. Outcomes'
  <2>1. \A id \in Id : request'[id].call \in Call => outcome'[request'[id].call] # "none"
    BY <1>4 DEF CallInv, Outcomes, SameProgress
  <2>2. ASSUME NEW j \in Call, outcome'[j] = "ok"
        PROVE  \E id \in Id : request[id].call = j /\ request[id].state = "executed"
    <3>1. CASE j = k
      <4>1. mine[c].id \in Id /\ request[mine[c].id].call = k
                   /\ request[mine[c].id].state = "executed"
        BY <1>1, <2>2, <3>1 DEF CallInv, InHand
      <4> QED BY <3>1, <4>1
    <3>2. CASE j # k
      BY <1>1, <2>2, <3>2 DEF CallInv, Outcomes
    <3> QED BY <3>1, <3>2
  <2> QED BY <2>1, <2>2 DEF Outcomes, SameProgress
<1> QED BY <1>5, <1>6, <1>7, <1>8, <1>9 DEF CallInv

LEMMA NoDeliveryKeepsIds ==
  ASSUME ShapeInv, IdInv, NoDelivery, UNCHANGED next_id PROVE IdInv'
<1>1. \A id \in Id : request[id] = Unmade => request'[id] = Unmade
  <2> SUFFICES ASSUME NEW id \in Id, request[id] = Unmade PROVE request'[id] = Unmade
    OBVIOUS
  <2>1. request'[id] \in Requests /\ request'[id].call = 0 /\ request'[id].state = "unmade"
               /\ request'[id].slot = Open
    BY DEF NoDelivery, SameProgress, Unmade
  <2> QED BY <2>1 DEF Requests, Unmade
<1> QED BY <1>1 DEF IdInv, NoDelivery, SameProgress

LEMMA NoProgressKeepsWires ==
  ASSUME WireInv, SameProgress, UNCHANGED <<queue, hand>> PROVE WireInv'
BY DEF WireInv, SameProgress

LEMMA NoDeliveryKeepsAnswers ==
  ASSUME ShapeInv, AnswerInv, NoDelivery, UNCHANGED incoming, pending' \subseteq pending
  PROVE  AnswerInv'
<1>1. (\A n \in DOMAIN incoming : AboutItsRequest(incoming[n]))'
  BY DEF AnswerInv, AboutItsRequest, Honest, NoDelivery, SameProgress
<1>2. (\A id \in Id : request[id].slot # Open =>
         Honest(id, request[id].slot) /\ request[id].slot.result # "open" /\ id \notin pending)'
  BY DEF AnswerInv, Honest, NoDelivery, SameProgress
<1> QED BY <1>1, <1>2 DEF AnswerInv

\* A caller that neither had nor gets a permit.
LEMMA PermitsKept ==
  ASSUME NothingLeaks, NEW c \in Caller, pc \in [Caller -> CallerSteps],
         \A d \in Caller \ {c} : pc'[d] = pc[d], pc[c] \in Holding <=> pc'[c] \in Holding,
         UNCHANGED permits
  PROVE  permits' + Cardinality(InFlight') = REQUEST_LIMIT
<1>1. InFlight' = InFlight
  BY DEF InFlight
<1> QED BY <1>1 DEF NothingLeaks

\* A caller that gives its permit back.
LEMMA PermitReturned ==
  ASSUME ShapeInv, NothingLeaks, NEW c \in Caller, pc[c] \in Holding, pc'[c] \notin Holding,
         \A d \in Caller \ {c} : pc'[d] = pc[d], permits' = permits + 1
  PROVE  permits' + Cardinality(InFlight') = REQUEST_LIMIT
<1>1. InFlight' = InFlight \ {c} /\ c \in InFlight
  BY DEF InFlight
<1>2. IsFiniteSet(InFlight)
  BY FS_Subset, ClientAssumption DEF InFlight
<1>3. Cardinality(InFlight') = Cardinality(InFlight) - 1
  BY <1>1, <1>2, FS_RemoveElement
<1>4. Cardinality(InFlight) \in Nat
  BY <1>2, FS_CardinalityType
<1> QED BY <1>3, <1>4, ClientAssumption DEF NothingLeaks, ShapeInv

\* The ids of two callers differ.
LEMMA OwnIds ==
  ASSUME ShapeInv, CallInv, NEW c \in Caller, NEW d \in Caller \ {c},
         pc[c] \in InCall, pc[d] \in Holding \union {"forget"}
  PROVE  mine[c].id # mine[d].id
<1>1. pc[d] \in InCall /\ mine[d].id \in Id /\ request[mine[d].id].call = mine[d].call
  BY DEF CallInv, InHand, Holding, InCall, CallerSteps
<1>2. mine[d].call # mine[c].call
  BY <1>1 DEF CallInv, OpenCalls
<1>3. mine[c].id = 0 \/ request[mine[c].id].call = mine[c].call
  BY DEF CallInv, InHand, Holding, InCall, CallerSteps
<1> QED BY <1>1, <1>2, <1>3, IdsArePositive

-----------------------------------------------------------------------------
(* The end of a call *)

LEMMA ReturnKeepsInv ==
  ASSUME LeakInv, NEW c \in Caller, pc[c] \in InCall,
         NEW result \in {"ok", "failed"}, Return(c, result),
         result = "ok" => request[mine[c].id].state = "executed" /\ pc[c] \in Holding,
         UNCHANGED request \/ Unlisten(c),
         UNCHANGED <<next_id, queue, hand, incoming, emitted>>,
         pending' \subseteq pending, pending \ {mine[c].id} \subseteq pending',
         abandoned \subseteq abandoned', mine[c].id \in pending' => mine[c].id \in abandoned',
         permits' = IF pc[c] \in Holding THEN permits + 1 ELSE permits
  PROVE  LeakInv'
<1>1. ShapeInv /\ CallInv /\ IdInv /\ WireInv /\ AnswerInv /\ NothingLeaks /\ HoldersKnown
  BY DEF LeakInv, ClientInv
<1>2. NoDelivery /\ SameProgress
  BY <1>1, SameIsNoDelivery, UnlistenIsNoDelivery DEF NoDelivery
<1>3. /\ pc'[c] = "idle" /\ \A d \in Caller \ {c} : pc'[d] = pc[d] /\ mine'[d] = mine[d]
      /\ mine' \in [Caller -> InMine]
      /\ pc' \in [Caller -> CallerSteps]
      /\ outcome' \in [Call -> {"none", "open", "ok", "failed"}]
  <2>1. NoCall \in InMine
    BY ClientAssumption DEF NoCall, InMine
  <2> QED BY <1>1, <2>1 DEF ShapeInv, Return, Goto, CallerSteps
<1>4. ShapeInv'
  <2>1. permits' \in Int
    BY <1>1 DEF ShapeInv
  <2>2. request' \in [Id -> Requests]
    BY <1>2 DEF SameProgress
  <2> QED BY <1>1, <1>3, <2>1, <2>2 DEF ShapeInv
<1>5. CallInv'
  BY <1>1, <1>2, ReturnKeepsCalls
<1>6. IdInv' /\ WireInv' /\ AnswerInv'
  BY <1>1, <1>2, NoDeliveryKeepsIds, NoProgressKeepsWires, NoDeliveryKeepsAnswers
<1>7. pc'[c] \notin Holding /\ pc \in [Caller -> CallerSteps]
  BY <1>1, <1>3 DEF Holding, ShapeInv
<1>8. permits' + Cardinality(InFlight') = REQUEST_LIMIT
  <2>1. CASE pc[c] \in Holding
    BY <1>1, <1>3, <1>7, <2>1, PermitReturned
  <2>2. CASE pc[c] \notin Holding
    BY <1>1, <1>3, <1>7, <2>2, PermitsKept
  <2> QED BY <2>1, <2>2
<1>9. pending' \subseteq Tracked' \union abandoned'
  <2> SUFFICES ASSUME NEW id \in pending', id \notin abandoned' PROVE id \in Tracked'
    OBVIOUS
  <2>1. PICK d \in Caller : pc[d] \in Holding \union {"forget"} /\ mine[d].id = id
    BY <1>1 DEF NothingLeaks, Tracked
  <2>2. d # c
    BY <2>1
  <2> QED BY <1>3, <2>1, <2>2 DEF Tracked
<1>10. HoldersKnown'
  <2> SUFFICES ASSUME NEW d \in Caller, pc'[d] \in Holding, request'[mine'[d].id].slot = Open
               PROVE  mine'[d].id \in pending'
    BY DEF HoldersKnown
  <2>1. d # c /\ pc[d] \in Holding /\ mine'[d] = mine[d]
    BY <1>3, <1>7
  <2>2. mine[d].id # mine[c].id /\ mine[d].id \in Id
    BY <1>1, <2>1, OwnIds DEF CallInv, InHand
  <2>3. request'[mine[d].id] = request[mine[d].id]
    BY <2>2 DEF Unlisten
  <2> QED BY <1>1, <2>1, <2>2, <2>3 DEF HoldersKnown
<1> QED BY <1>4, <1>5, <1>6, <1>8, <1>9, <1>10 DEF LeakInv, ClientInv, NothingLeaks

\* A caller without a request has none in the map.
LEMMA NoneInHand ==
  ASSUME LeakInv, NEW c \in Caller, pc[c] \in {"check", "permit"} PROVE mine[c].id \notin pending
BY IdsArePositive DEF LeakInv, ClientInv, ShapeInv, CallInv, InHand

LEMMA ReturnsKeepInv ==
  ASSUME LeakInv, NEW c \in Caller,
         \/ CheckOpen(c) /\ cancelled
         \/ PermitExpires(c) \/ SendFails(c) \/ Forget(c) \/ Abandon(c)
  PROVE  LeakInv'
<1> USE DEF InCall, CallerSteps, Holding, limiter, wires, arrivals
<1>1. CASE CheckOpen(c) /\ cancelled
  BY <1>1, NoneInHand, ReturnKeepsInv DEF CheckOpen
<1>2. CASE PermitExpires(c)
  BY <1>2, NoneInHand, ReturnKeepsInv DEF PermitExpires
<1>3. CASE SendFails(c)
  BY <1>3, ReturnKeepsInv DEF SendFails
<1>4. CASE Forget(c)
  BY <1>4, ReturnKeepsInv DEF Forget
<1>5. CASE Abandon(c)
  BY <1>5, ReturnKeepsInv DEF Abandon
<1> QED BY <1>1, <1>2, <1>3, <1>4, <1>5

-----------------------------------------------------------------------------
(* The steps of a call *)

\* A step of one caller that leaves the server, the tasks and all requests alone.
LEMMA CallerKeepsRest ==
  ASSUME ShapeInv, IdInv, WireInv, AnswerInv,
         UNCHANGED <<next_id, pending, request, queue, hand, incoming, emitted>>
  PROVE  IdInv' /\ WireInv' /\ AnswerInv'
BY SameIsNoDelivery, NoDeliveryKeepsIds, NoProgressKeepsWires, NoDeliveryKeepsAnswers
   DEF NoDelivery

\* A step of one caller that keeps its permit, or has none, and its entry.
LEMMA CallerKeepsPermits ==
  ASSUME ShapeInv, NothingLeaks, HoldersKnown, NEW c \in Caller,
         \A d \in Caller \ {c} : pc'[d] = pc[d] /\ mine'[d] = mine[d],
         pc[c] \notin Holding \union {"forget"}, pc'[c] \notin Holding,
         UNCHANGED <<permits, pending, request, abandoned>>
  PROVE  NothingLeaks' /\ HoldersKnown'
<1>1. permits' + Cardinality(InFlight') = REQUEST_LIMIT
  BY PermitsKept DEF ShapeInv
<1>2. Tracked \subseteq Tracked'
  BY DEF Tracked
<1>3. HoldersKnown'
  BY DEF HoldersKnown
<1> QED BY <1>1, <1>2, <1>3 DEF NothingLeaks

\* The next call's number.
LEMMA NextCall ==
  ASSUME CallsCounted, Made # Call
  PROVE  /\ Cardinality(Made) \in Nat /\ Cardinality(Made) + 1 \in Call
         /\ \A k \in Call : outcome[k] # "none" <=> k <= Cardinality(Made)
<1>1. PICK n \in 0..MaxCalls : \A k \in Call : outcome[k] # "none" <=> k <= n
  BY DEF CallsCounted
<1>2. Made = 1..n
  BY <1>1, ClientAssumption DEF Made, Call
<1>3. Cardinality(Made) = n
  BY <1>2, FS_Interval
<1>4. n # MaxCalls
  BY <1>2 DEF Call
<1> QED BY <1>1, <1>3, <1>4, ClientAssumption DEF Call

LEMMA BeginCallKeepsInv ==
  ASSUME LeakInv, NEW c \in Caller, BeginCall(c) PROVE LeakInv'
<1> DEFINE k == Cardinality(Made) + 1
<1> USE DEF Holding, limiter, wires, arrivals
<1>1. ShapeInv /\ CallInv /\ IdInv /\ WireInv /\ AnswerInv /\ NothingLeaks /\ HoldersKnown
  BY DEF LeakInv, ClientInv
<1>2. /\ Cardinality(Made) \in Nat /\ k \in Call
      /\ \A j \in Call : outcome[j] # "none" <=> j <= Cardinality(Made)
  BY <1>1, NextCall DEF BeginCall, CallInv
<1>3. k \in Nat \ {0} /\ k <= MaxCalls /\ Cardinality(Made) = k - 1 /\ Call \subseteq Nat
  BY <1>2, ClientAssumption DEF Call
<1> HIDE DEF k
<1>4. outcome[k] = "none" /\ \A j \in Call : outcome[j] # "none" <=> j < k
  BY <1>1, <1>2, <1>3 DEF ShapeInv
<1>5. /\ pc[c] = "idle" /\ pc'[c] = "check" /\ mine'[c] = [call |-> k, attempt |-> 1, id |-> 0]
      /\ \A d \in Caller \ {c} : pc'[d] = pc[d] /\ mine'[d] = mine[d]
      /\ \A j \in Call : outcome'[j] = IF j = k THEN "open" ELSE outcome[j]
      /\ UNCHANGED request
  BY <1>1 DEF BeginCall, Goto, ShapeInv, k
<1>6. ShapeInv'
  <2>1. [call |-> k, attempt |-> 1, id |-> 0] \in InMine
    BY <1>3 DEF InMine
  <2> QED BY <1>1, <2>1 DEF BeginCall, Goto, ShapeInv, CallerSteps, k
<1>7. CallsCounted'
  <2>1. \A j \in Call : j <= k <=> j < k \/ j = k
    BY <1>3
  <2>2. \A j \in Call : outcome'[j] # "none" <=> j <= k
    BY <1>4, <1>5, <2>1
  <2>3. k \in 0..MaxCalls
    BY <1>3, ClientAssumption
  <2> QED BY <2>2, <2>3 DEF CallsCounted
<1>8. OpenCalls'
  BY <1>1, <1>2, <1>4, <1>5 DEF CallInv, OpenCalls, InCall, CallerSteps
<1>9. OthersRefused'
  <2>1. \A id \in Id : request[id].call # k
    BY <1>1, <1>2, <1>4 DEF CallInv, Outcomes
  <2> QED BY <1>1, <1>5, <2>1 DEF CallInv, OthersRefused, InCall, CallerSteps
<1>10. InHand'
  BY <1>1, <1>5 DEF CallInv, InHand
<1>11. Outcomes'
  BY <1>1, <1>4, <1>5 DEF CallInv, Outcomes
<1>12. IdInv' /\ WireInv' /\ AnswerInv' /\ NothingLeaks' /\ HoldersKnown'
  BY <1>1, <1>5, CallerKeepsRest, CallerKeepsPermits DEF BeginCall
<1> QED BY <1>6, <1>7, <1>8, <1>9, <1>10, <1>11, <1>12 DEF LeakInv, ClientInv, CallInv

\* Between two steps of its call, without a permit: the check, and the next attempt.
LEMMA GoOnKeepsInv ==
  ASSUME LeakInv, NEW c \in Caller, (CheckOpen(c) /\ ~cancelled) \/ Retry(c) PROVE LeakInv'
<1> USE DEF Holding, limiter, wires, arrivals
<1>1. ShapeInv /\ CallInv /\ IdInv /\ WireInv /\ AnswerInv /\ NothingLeaks /\ HoldersKnown
  BY DEF LeakInv, ClientInv
<1>2. /\ pc[c] \in {"check", "sleep"} /\ pc'[c] \in {"check", "permit"}
      /\ pc' \in [Caller -> CallerSteps]
      /\ \A d \in Caller \ {c} : pc'[d] = pc[d] /\ mine'[d] = mine[d]
      /\ UNCHANGED <<outcome, request, permits, next_id, pending, queue, hand, incoming, emitted,
                     abandoned>>
  BY <1>1 DEF CheckOpen, Retry, Goto, ShapeInv, CallerSteps
<1>3. mine'[c].call = mine[c].call /\ mine'[c].id = 0 /\ mine' \in [Caller -> InMine]
  <2>1. CASE CheckOpen(c) /\ ~cancelled
    BY <1>1, <2>1 DEF CheckOpen, Goto, ShapeInv, CallInv, InHand
  <2>2. CASE Retry(c)
    <3>1. mine[c] \in InMine /\ mine \in [Caller -> InMine]
      BY <1>1 DEF ShapeInv
    <3> DEFINE next == [call |-> mine[c].call, attempt |-> mine[c].attempt + 1, id |-> 0]
    <3>2. mine' = [mine EXCEPT ![c] = next]
      BY <2>2, <3>1 DEF Retry, InMine
    <3>3. mine[c].call \in 0..MaxCalls /\ mine[c].attempt + 1 \in Int
      BY <3>1 DEF InMine
    <3>4. next \in InMine
      BY <3>3 DEF InMine
    <3> QED BY <3>1, <3>2, <3>4
  <2> QED BY <2>1, <2>2
<1>4. ShapeInv'
  BY <1>1, <1>2, <1>3 DEF ShapeInv
<1>5. CallsCounted' /\ OpenCalls' /\ Outcomes'
  BY <1>1, <1>2, <1>3 DEF CallInv, CallsCounted, OpenCalls, Outcomes, InCall, CallerSteps
<1>6. OthersRefused'
  <2>1. \A id \in Id : request[id].call = mine[c].call => request[id].state = "refused"
    BY <1>1, <1>2, IdsArePositive DEF CallInv, OthersRefused, InHand, InCall, CallerSteps
  <2> QED BY <1>1, <1>2, <1>3, <2>1 DEF CallInv, OthersRefused, InCall, CallerSteps
<1>7. InHand'
  BY <1>1, <1>2, <1>3 DEF CallInv, InHand
<1>8. IdInv' /\ WireInv' /\ AnswerInv' /\ NothingLeaks' /\ HoldersKnown'
  BY <1>1, <1>2, CallerKeepsRest, CallerKeepsPermits
<1> QED BY <1>4, <1>5, <1>6, <1>7, <1>8 DEF LeakInv, ClientInv, CallInv

LEMMA AdmitKeepsInv ==
  ASSUME LeakInv, NEW c \in Caller, Admit(c) PROVE LeakInv'
<1> DEFINE k == mine[c].call
<1>1. ShapeInv /\ CallInv /\ IdInv /\ WireInv /\ AnswerInv /\ NothingLeaks /\ HoldersKnown
  BY DEF LeakInv, ClientInv
<1>2. /\ pc[c] = "permit" /\ pc'[c] = "send" /\ pc' \in [Caller -> CallerSteps]
      /\ mine'[c].call = k /\ mine'[c].id = next_id /\ mine' \in [Caller -> InMine]
      /\ \A d \in Caller \ {c} : pc'[d] = pc[d] /\ mine'[d] = mine[d]
      /\ next_id \in Id /\ next_id' = next_id + 1
      /\ pending' = pending \union {next_id} /\ permits' = permits - 1
      /\ UNCHANGED <<outcome, queue, hand, incoming, emitted, abandoned>>
  BY <1>1 DEF Admit, FreshId, Goto, ShapeInv, CallerSteps, InMine, wires, arrivals
<1>3. k \in Call /\ k \in 0..MaxCalls /\ outcome[k] = "open"
  BY <1>1, <1>2, ClientAssumption DEF CallInv, OpenCalls, InCall, CallerSteps, Holding, Call
<1>4. /\ request'[next_id].call = k /\ request'[next_id].state = "unmade"
      /\ request'[next_id].slot = Open
      /\ request' \in [Id -> Requests]
      /\ \A id \in Id \ {next_id} : request'[id] = request[id]
  <2> DEFINE new == [Unmade EXCEPT !.call = k]
  <2>1. new.call = k /\ new.state = "unmade" /\ new.slot = Open /\ new \in Requests
    BY <1>3, OpenIsASlot DEF Unmade, Requests, Progress
  <2>2. request' = [request EXCEPT ![next_id] = new]
    BY DEF Admit, FreshId
  <2> HIDE DEF new
  <2> QED BY <1>1, <1>2, <2>1, <2>2 DEF ShapeInv
<1>5. request[next_id].call = 0 /\ request[next_id].state = "unmade" /\ request[next_id].slot = Open
      /\ 0 \notin Call
  BY <1>1, <1>2, IdsArePositive DEF IdInv, Unmade, Call
<1>6. ShapeInv'
  <2>1. next_id' \in Nat \ {0} /\ permits' \in Int /\ pending' \subseteq Id
    BY <1>1, <1>2 DEF ShapeInv
  <2>2. /\ queue \in Seq(Commands) /\ hand \in Seq(Commands) /\ Len(hand) <= 1
        /\ incoming \in Seq(Messages) /\ emitted \in 0..MaxEmits
        /\ outcome \in [Call -> {"none", "open", "ok", "failed"}]
    BY <1>1 DEF ShapeInv
  <2> QED BY <1>2, <1>4, <2>1, <2>2 DEF ShapeInv
<1>7. \A id \in Id : request[id].call = k => request[id].state = "refused"
  BY <1>1, <1>2, IdsArePositive DEF CallInv, OthersRefused, InHand, InCall, CallerSteps, Holding
<1>8. CallInv'
  <2>1. CallsCounted' /\ OpenCalls'
    BY <1>1, <1>2 DEF CallInv, CallsCounted, OpenCalls, InCall, CallerSteps, Holding
  <2>2. OthersRefused'
    <3> SUFFICES ASSUME NEW d \in Caller, pc'[d] \in InCall, NEW id \in Id \ {mine'[d].id},
                        request'[id].call = mine'[d].call
                 PROVE  request'[id].state = "refused"
      BY DEF OthersRefused
    <3>1. CASE d = c
      BY <1>2, <1>4, <1>7, <3>1
    <3>2. CASE d # c
      <4>1. pc[d] \in InCall /\ mine[d].call # k /\ pc[c] \in InCall /\ mine'[d] = mine[d]
        BY <1>1, <1>2, <3>2 DEF CallInv, OpenCalls, InCall, CallerSteps, Holding
      <4>2. id # next_id
        BY <1>4, <4>1
      <4> QED BY <1>1, <1>4, <4>1, <4>2 DEF CallInv, OthersRefused
    <3> QED BY <3>1, <3>2
  <2>3. InHand'
    <3> SUFFICES ASSUME NEW d \in Caller PROVE InHand!(d)'
      BY DEF InHand
    <3>1. CASE d = c
      BY <1>2, <1>4, <3>1 DEF Holding
    <3>2. CASE d # c /\ pc[d] \in Holding \union {"forget", "sleep"}
      <4>1. mine[d].id # next_id
        BY <1>1, <1>5, <3>2 DEF CallInv, InHand, OpenCalls, InCall, CallerSteps, Holding
      <4> QED BY <1>1, <1>2, <1>4, <3>2, <4>1 DEF CallInv, InHand
    <3>3. CASE d # c /\ pc[d] \notin Holding \union {"forget", "sleep"}
      BY <1>1, <1>2, <3>3 DEF CallInv, InHand, Holding
    <3> QED BY <3>1, <3>2, <3>3
  <2>4. Outcomes'
    <3>1. \A id \in Id : request[id].call \in Call => id # next_id
      BY <1>5
    <3> QED BY <1>1, <1>2, <1>3, <1>4, <1>5, <3>1 DEF CallInv, Outcomes
  <2> QED BY <2>1, <2>2, <2>3, <2>4 DEF CallInv
<1>9. IdInv'
  <2>1. \A id \in Id : /\ id >= next_id' => id # next_id /\ id >= next_id
                       /\ id < next_id' => id = next_id \/ id < next_id
    BY <1>1, <1>2, IdsArePositive DEF ShapeInv
  <2>2. \A id \in Id : id >= next_id' => request'[id] = Unmade
    BY <1>1, <1>4, <2>1 DEF IdInv
  <2>3. \A id \in Id : id < next_id' => request'[id].call \in Call
    BY <1>1, <1>3, <1>4, <2>1 DEF IdInv
  <2>4. ASSUME NEW i \in Id, NEW j \in Id,
               request'[i].call = request'[j].call, request'[i].call \in Call,
               request'[i].state # "refused", request'[j].state # "refused"
        PROVE  i = j
    <3>1. CASE i = next_id \/ j = next_id
      BY <1>4, <1>7, <2>4, <3>1
    <3>2. CASE i # next_id /\ j # next_id
      BY <1>1, <1>4, <2>4, <3>2 DEF IdInv
    <3> QED BY <3>1, <3>2
  <2> QED BY <2>2, <2>3, <2>4 DEF IdInv
<1>10. WireInv'
  <2>1. \A id \in Id : request[id].state = "queued" => request'[id] = request[id]
    BY <1>4, <1>5
  <2> QED BY <1>1, <1>2, <2>1 DEF WireInv
<1>11. AnswerInv'
  <2>1. \A id \in Id : request[id].state \in {"executed", "refused"} \/ request[id].slot # Open
                       => request'[id] = request[id] /\ id # next_id
    BY <1>4, <1>5
  <2>2. (\A n \in DOMAIN incoming : AboutItsRequest(incoming[n]))'
    BY <1>1, <1>2, <2>1 DEF AnswerInv, AboutItsRequest, Honest
  <2>3. (\A id \in Id : request[id].slot # Open =>
           Honest(id, request[id].slot) /\ request[id].slot.result # "open" /\ id \notin pending)'
    <3> SUFFICES ASSUME NEW id \in Id, request'[id].slot # Open
                 PROVE  (Honest(id, request[id].slot) /\ request[id].slot.result # "open"
                           /\ id \notin pending)'
      OBVIOUS
    <3>1. id # next_id /\ request'[id] = request[id]
      BY <1>4
    <3> QED BY <1>1, <1>2, <3>1 DEF AnswerInv, Honest
  <2> QED BY <2>2, <2>3 DEF AnswerInv
<1>12. NothingLeaks'
  <2>1. InFlight' = InFlight \union {c} /\ c \notin InFlight
    BY <1>2 DEF InFlight, Holding
  <2>2. IsFiniteSet(InFlight)
    BY FS_Subset, ClientAssumption DEF InFlight
  <2>3. Cardinality(InFlight') = Cardinality(InFlight) + 1 /\ Cardinality(InFlight) \in Nat
    BY <2>1, <2>2, FS_AddElement, FS_CardinalityType
  <2>4. pending' \subseteq Tracked' \union abandoned'
    <3>1. next_id \in Tracked'
      BY <1>2 DEF Tracked, Holding
    <3>2. Tracked \subseteq Tracked'
      BY <1>2 DEF Tracked, Holding
    <3> QED BY <1>1, <1>2, <3>1, <3>2 DEF NothingLeaks
  <2> QED BY <1>1, <1>2, <2>3, <2>4, ClientAssumption DEF NothingLeaks, ShapeInv
<1>13. HoldersKnown'
  <2> SUFFICES ASSUME NEW d \in Caller, pc'[d] \in Holding, request'[mine'[d].id].slot = Open
               PROVE  mine'[d].id \in pending'
    BY DEF HoldersKnown
  <2>1. CASE d = c
    BY <1>2, <2>1
  <2>2. CASE d # c
    <3>1. mine[d].id \in Id /\ pc[d] \in Holding /\ mine'[d] = mine[d]
      BY <1>1, <1>2, <2>2 DEF CallInv, InHand
    <3>2. request[mine[d].id].slot = Open
      BY <1>4, <1>5, <3>1
    <3> QED BY <1>1, <1>2, <3>1, <3>2 DEF HoldersKnown
  <2> QED BY <2>1, <2>2
<1> QED BY <1>6, <1>8, <1>9, <1>10, <1>11, <1>12, <1>13 DEF LeakInv, ClientInv

LEMMA SendRequestKeepsInv ==
  ASSUME LeakInv, NEW c \in Caller, SendRequest(c) PROVE LeakInv'
<1> DEFINE id == mine[c].id
<1>1. ShapeInv /\ CallInv /\ IdInv /\ WireInv /\ AnswerInv /\ NothingLeaks /\ HoldersKnown
  BY DEF LeakInv, ClientInv
<1>2. /\ pc[c] = "send" /\ pc'[c] = "await" /\ pc' \in [Caller -> CallerSteps]
      /\ \A d \in Caller \ {c} : pc'[d] = pc[d]
      /\ queue' = Append(queue, Text(id))
      /\ UNCHANGED <<permits, next_id, pending, hand, incoming, emitted, mine, outcome, abandoned>>
  BY <1>1 DEF SendRequest, Goto, ShapeInv, CallerSteps, limiter, arrivals
<1>3. id \in Id /\ request[id].state = "unmade" /\ request[id].call = mine[c].call
  BY <1>1, <1>2 DEF CallInv, InHand, Holding
<1>4. /\ request' \in [Id -> Requests] /\ request'[id].state = "queued"
      /\ request'[id].call = request[id].call /\ request'[id].slot = request[id].slot
      /\ \A i \in Id \ {id} : request'[i] = request[i]
  <2>1. request[id] \in Requests
    BY <1>1, <1>3 DEF ShapeInv
  <2>2. /\ [request[id] EXCEPT !.state = "queued"] \in Requests
        /\ [request[id] EXCEPT !.state = "queued"].state = "queued"
        /\ [request[id] EXCEPT !.state = "queued"].call = request[id].call
        /\ [request[id] EXCEPT !.state = "queued"].slot = request[id].slot
    BY <2>1 DEF Requests, Progress
  <2>3. request' = [request EXCEPT ![id] = [request[id] EXCEPT !.state = "queued"]]
    BY DEF SendRequest
  <2> QED BY <1>1, <1>3, <2>2, <2>3 DEF ShapeInv
<1>5. Text(id) \in Commands /\ Text(id).kind = "text" /\ Text(id).id = id
  BY <1>3 DEF Text, Commands
<1>6. ShapeInv'
  BY <1>1, <1>2, <1>4, <1>5 DEF ShapeInv
<1>7. CallInv'
  <2>1. CallsCounted' /\ OpenCalls'
    BY <1>1, <1>2 DEF CallInv, CallsCounted, OpenCalls, InCall, CallerSteps
  <2>2. OthersRefused'
    <3>1. \A i \in Id : request[i].state = "refused" => request'[i] = request[i]
      BY <1>3, <1>4
    <3>2. \A i \in Id : request'[i].call = request[i].call
      BY <1>4
    <3> QED BY <1>1, <1>2, <3>1, <3>2 DEF CallInv, OthersRefused, InCall, CallerSteps
  <2>3. InHand'
    <3> SUFFICES ASSUME NEW d \in Caller PROVE InHand!(d)'
      BY DEF InHand
    <3>1. CASE d = c
      BY <1>1, <1>2, <1>3, <1>4, <3>1 DEF Holding
    <3>2. CASE d # c /\ pc[d] \in Holding \union {"forget", "sleep"}
      <4>1. mine[d].id # id
        BY <1>1, <1>2, <1>3, <3>2 DEF CallInv, InHand, OpenCalls, InCall, CallerSteps, Holding
      <4> QED BY <1>1, <1>2, <1>4, <3>2, <4>1 DEF CallInv, InHand
    <3>3. CASE d # c /\ pc[d] \notin Holding \union {"forget", "sleep"}
      BY <1>1, <1>2, <3>3 DEF CallInv, InHand, Holding
    <3> QED BY <3>1, <3>2, <3>3
  <2>4. Outcomes'
    <3>1. \A i \in Id : request'[i].call = request[i].call
      BY <1>4
    <3>2. \A i \in Id : request[i].state = "executed" => request'[i] = request[i]
      BY <1>3, <1>4
    <3> QED BY <1>1, <1>2, <3>1, <3>2 DEF CallInv, Outcomes
  <2> QED BY <2>1, <2>2, <2>3, <2>4 DEF CallInv
<1>8. IdInv'
  <2>1. id < next_id
    <3>1. id \in Int /\ next_id \in Int
      <4>1. id \in Int
        <5>1. id \in Nat \ {0}
          BY <1>3, IdsArePositive, Zenon
        <5> HIDE DEF id
        <5> QED BY <5>1
      <4>2. next_id \in Int
        BY <1>1 DEF ShapeInv
      <4> QED BY <4>1, <4>2
    <3>2. request[id].call \in Call /\ 0 \notin Call
      BY <1>1, <1>2, <1>3 DEF CallInv, OpenCalls, InCall, CallerSteps, Call
    <3>3. request[id] # Unmade
      BY <3>2 DEF Unmade
    <3> QED BY <1>1, <1>3, <3>1, <3>3 DEF IdInv
  <2>2. \A i \in Id : i >= next_id => i # id
    BY <1>1, <2>1, IdsArePositive DEF ShapeInv
  <2>3. \A i \in Id : /\ request'[i].call = request[i].call
                      /\ request'[i].state # "refused" => request[i].state # "refused"
    BY <1>3, <1>4
  <2> QED BY <1>1, <1>2, <1>4, <2>2, <2>3 DEF IdInv
<1>9. WireInv'
  <2>1. \A i \in Id : request[i].state = "queued" => request'[i] = request[i] /\ i # id
    BY <1>3, <1>4
  <2>2. queue \in Seq(Commands) /\ hand \in Seq(Commands)
    BY <1>1 DEF ShapeInv
  <2>3. DOMAIN queue' = DOMAIN queue \union {Len(queue) + 1} /\ Len(queue) + 1 \notin DOMAIN queue
        /\ queue'[Len(queue) + 1] = Text(id) /\ \A n \in DOMAIN queue : queue'[n] = queue[n]
    BY <1>2, <1>5, <2>2
  <2>4. \A n \in DOMAIN queue : queue[n] # Text(id)
    BY <1>1, <1>5, <2>1 DEF WireInv
  <2>5. \A n \in DOMAIN hand : hand[n] # Text(id)
    BY <1>1, <1>5, <2>1 DEF WireInv
  <2>6. ASSUME NEW n \in DOMAIN queue', queue'[n].kind = "text"
        PROVE  /\ queue'[n].id \in Id /\ request'[queue'[n].id].state = "queued"
               /\ \A m \in DOMAIN queue' : queue'[m] = queue'[n] => m = n
               /\ \A m \in DOMAIN hand' : hand'[m] # queue'[n]
    <3>1. CASE n = Len(queue) + 1
      BY <1>2, <1>3, <1>4, <1>5, <2>3, <2>4, <2>5, <3>1
    <3>2. CASE n \in DOMAIN queue
      BY <1>1, <1>2, <2>1, <2>3, <2>4, <2>6, <3>2 DEF WireInv
    <3> QED BY <2>3, <3>1, <3>2
  <2>7. (\A m \in DOMAIN hand : hand[m].kind = "text" =>
           hand[m].id \in Id /\ request[hand[m].id].state = "queued")'
    BY <1>1, <1>2, <2>1 DEF WireInv
  <2> QED BY <2>6, <2>7 DEF WireInv
<1>10. AnswerInv'
  <2>1. \A i \in Id : /\ request[i].state \in {"executed", "refused"} => request'[i] = request[i]
                      /\ request'[i].call = request[i].call /\ request'[i].slot = request[i].slot
    BY <1>3, <1>4
  <2> QED BY <1>1, <1>2, <2>1 DEF AnswerInv, AboutItsRequest, Honest
<1>11. NothingLeaks'
  <2>1. InFlight' = InFlight /\ Tracked' = Tracked
    BY <1>2 DEF InFlight, Tracked, Holding
  <2> QED BY <1>1, <1>2, <2>1 DEF NothingLeaks
<1>12. HoldersKnown'
  <2>1. \A i \in Id : request'[i].slot = request[i].slot
    BY <1>4
  <2>2. \A d \in Caller : pc'[d] \in Holding => pc[d] \in Holding /\ mine[d].id \in Id
    BY <1>1, <1>2 DEF Holding, CallInv, InHand
  <2> QED BY <1>1, <1>2, <2>1, <2>2 DEF HoldersKnown
<1> QED BY <1>6, <1>7, <1>8, <1>9, <1>10, <1>11, <1>12 DEF LeakInv, ClientInv

\* An answer that makes its caller wait and try again.
LEMMA ReceiveKeepsInv ==
  ASSUME LeakInv, NEW c \in Caller, Receive(c) PROVE LeakInv'
<1> DEFINE id == mine[c].id
<1> DEFINE result == request[mine[c].id].slot.result
<1>1. ShapeInv /\ CallInv /\ IdInv /\ WireInv /\ AnswerInv /\ NothingLeaks /\ HoldersKnown
  BY DEF LeakInv, ClientInv
<1>2. /\ pc[c] = "await" /\ result # "open" /\ permits' = permits + 1 /\ Unlisten(c)
      /\ \/ MayRetry(c, result) /\ Goto(c, "sleep") /\ UNCHANGED <<mine, outcome>>
         \/ Return(c, IF result = "ok" THEN "ok" ELSE "failed")
      /\ UNCHANGED <<next_id, pending, queue, hand, incoming, emitted, abandoned>>
  BY DEF Receive, wires, arrivals
<1>3. id \in Id /\ request[id].call = mine[c].call
  BY <1>1, <1>2 DEF CallInv, InHand, Holding
<1>4. request[id].slot # Open
  BY <1>2 DEF Open
<1>5. id \notin pending /\ Honest(id, request[id].slot)
  BY <1>1, <1>3, <1>4 DEF AnswerInv
<1>6. CASE Return(c, IF result = "ok" THEN "ok" ELSE "failed")
  <2>1. result = "ok" => request[id].state = "executed"
    BY <1>5 DEF Honest
  <2>2. pc[c] \in InCall /\ pc[c] \in Holding
    BY <1>2 DEF InCall, CallerSteps, Holding
  <2> QED BY <1>2, <1>5, <1>6, <2>1, <2>2, ReturnKeepsInv
<1>7. CASE MayRetry(c, result) /\ Goto(c, "sleep") /\ UNCHANGED <<mine, outcome>>
  <2>1. /\ pc'[c] = "sleep" /\ pc' \in [Caller -> CallerSteps]
        /\ \A d \in Caller \ {c} : pc'[d] = pc[d]
    BY <1>1, <1>7 DEF Goto, ShapeInv, CallerSteps
  <2>2. request[id].state = "refused"
    BY <1>5, <1>7 DEF MayRetry, Honest
  <2>3. NoDelivery /\ SameProgress
    BY <1>1, <1>2, UnlistenIsNoDelivery DEF NoDelivery
  <2>4. ShapeInv'
    <3>1. permits' \in Int /\ request' \in [Id -> Requests]
      BY <1>1, <1>2, <2>3 DEF ShapeInv, SameProgress
    <3> QED BY <1>1, <1>2, <1>7, <2>1, <3>1 DEF ShapeInv
  <2>5. CallInv'
    <3>1. CallsCounted' /\ OpenCalls' /\ Outcomes'
      BY <1>1, <1>2, <1>7, <2>1, <2>3
         DEF CallInv, CallsCounted, OpenCalls, Outcomes, SameProgress, InCall, CallerSteps
    <3>2. OthersRefused'
      BY <1>1, <1>2, <1>7, <2>1, <2>3
         DEF CallInv, OthersRefused, SameProgress, InCall, CallerSteps
    <3>3. InHand'
      <4> SUFFICES ASSUME NEW d \in Caller PROVE InHand!(d)'
        BY DEF InHand
      <4>1. CASE d = c
        <5>1. mine' = mine /\ request'[id].call = mine[c].call /\ request'[id].state = "refused"
          BY <1>3, <1>7, <2>2, <2>3 DEF SameProgress
        <5> QED BY <1>3, <2>1, <4>1, <5>1 DEF Holding
      <4>2. CASE d # c
        <5>1. pc'[d] = pc[d] /\ mine' = mine
          BY <1>7, <2>1, <4>2
        <5>2. \A i \in Id : request'[i].call = request[i].call /\ request'[i].state = request[i].state
          BY <2>3 DEF SameProgress
        <5>3. pc[d] = "send" \/ pc[d] = "sleep" => mine[d].id \in Id
          BY <1>1 DEF CallInv, InHand, Holding
        <5> QED BY <1>1, <5>1, <5>2, <5>3 DEF CallInv, InHand
      <4> QED BY <4>1, <4>2
    <3> QED BY <3>1, <3>2, <3>3 DEF CallInv
  <2>6. IdInv' /\ WireInv' /\ AnswerInv'
    BY <1>1, <1>2, <2>3, NoDeliveryKeepsIds, NoProgressKeepsWires, NoDeliveryKeepsAnswers
  <2>7. NothingLeaks'
    <3>1. permits' + Cardinality(InFlight') = REQUEST_LIMIT
      BY <1>1, <1>2, <2>1, PermitReturned DEF Holding
    <3>2. Tracked \subseteq Tracked' \union {id}
      BY <1>7, <2>1 DEF Tracked, Holding
    <3> QED BY <1>1, <1>2, <1>5, <3>1, <3>2 DEF NothingLeaks
  <2>8. HoldersKnown'
    <3> SUFFICES ASSUME NEW d \in Caller, pc'[d] \in Holding, request'[mine'[d].id].slot = Open
                 PROVE  mine'[d].id \in pending'
      BY DEF HoldersKnown
    <3>1. d # c /\ pc[d] \in Holding /\ mine'[d] = mine[d]
      BY <1>7, <2>1 DEF Holding
    <3>2. mine[d].id # id /\ mine[d].id \in Id
      BY <1>1, <1>2, <3>1, OwnIds DEF CallInv, InHand, InCall, CallerSteps
    <3>3. request'[mine[d].id] = request[mine[d].id]
      BY <1>2, <3>2 DEF Unlisten
    <3> QED BY <1>1, <1>2, <3>1, <3>2, <3>3 DEF HoldersKnown
  <2> QED BY <2>4, <2>5, <2>6, <2>7, <2>8 DEF LeakInv, ClientInv
<1> QED BY <1>2, <1>6, <1>7

LEMMA AwaitExpiresKeepsInv ==
  ASSUME LeakInv, NEW c \in Caller, AwaitExpires(c) PROVE LeakInv'
<1>1. ShapeInv /\ CallInv /\ IdInv /\ WireInv /\ AnswerInv /\ NothingLeaks /\ HoldersKnown
  BY DEF LeakInv, ClientInv
<1>2. /\ pc[c] = "await" /\ pc'[c] = "forget" /\ pc' \in [Caller -> CallerSteps]
      /\ \A d \in Caller \ {c} : pc'[d] = pc[d]
      /\ permits' = permits + 1
      /\ UNCHANGED <<next_id, pending, request, queue, hand, incoming, emitted, mine, outcome,
                     abandoned>>
  BY <1>1 DEF AwaitExpires, Goto, ShapeInv, CallerSteps, wires, arrivals
<1>3. ShapeInv'
  <2>1. permits' \in Int
    BY <1>1, <1>2 DEF ShapeInv
  <2> QED BY <1>1, <1>2, <2>1 DEF ShapeInv
<1>4. CallInv'
  <2>1. CallsCounted' /\ OpenCalls' /\ OthersRefused' /\ Outcomes'
    BY <1>1, <1>2
       DEF CallInv, CallsCounted, OpenCalls, OthersRefused, Outcomes, InCall, CallerSteps
  <2>2. InHand'
    BY <1>1, <1>2 DEF CallInv, InHand, Holding
  <2> QED BY <2>1, <2>2 DEF CallInv
<1>5. IdInv' /\ WireInv' /\ AnswerInv'
  BY <1>1, <1>2, CallerKeepsRest
<1>6. NothingLeaks'
  <2>1. permits' + Cardinality(InFlight') = REQUEST_LIMIT
    BY <1>1, <1>2, PermitReturned DEF Holding
  <2>2. Tracked' = Tracked
    BY <1>2 DEF Tracked, Holding
  <2> QED BY <1>1, <1>2, <2>1, <2>2 DEF NothingLeaks
<1>7. HoldersKnown'
  BY <1>1, <1>2 DEF HoldersKnown, Holding
<1> QED BY <1>3, <1>4, <1>5, <1>6, <1>7 DEF LeakInv, ClientInv

-----------------------------------------------------------------------------
(* close(), the drop of the client, and the commands without a request *)

\* Steps of callers that are in no call.
LEMMA OutsideCalls ==
  ASSUME LeakInv, pc' \in [Caller -> CallerSteps],
         \A c \in Caller : pc'[c] = pc[c] \/ (pc[c] \notin InCall /\ pc'[c] \notin InCall),
         UNCHANGED <<permits, next_id, pending, request, mine, outcome, abandoned, hand>>
  PROVE  CallInv' /\ IdInv' /\ NothingLeaks' /\ HoldersKnown'
<1> USE DEF InCall, CallerSteps, Holding
<1>1. ShapeInv /\ CallInv /\ IdInv /\ NothingLeaks /\ HoldersKnown
  BY DEF LeakInv, ClientInv
<1>2. CallInv'
  <2>1. CallsCounted' /\ OpenCalls' /\ OthersRefused' /\ Outcomes'
    BY <1>1 DEF CallInv, CallsCounted, OpenCalls, OthersRefused, Outcomes
  <2>2. InHand'
    BY <1>1 DEF CallInv, InHand
  <2> QED BY <2>1, <2>2 DEF CallInv
<1>3. IdInv'
  BY <1>1, SameIsNoDelivery, NoDeliveryKeepsIds
<1>4. InFlight' = InFlight /\ Tracked' = Tracked
  BY DEF InFlight, Tracked
<1>5. NothingLeaks' /\ HoldersKnown'
  BY <1>1, <1>4 DEF NothingLeaks, HoldersKnown
<1> QED BY <1>2, <1>3, <1>5

\* A command that carries no request.
LEMMA AppendKeepsWires ==
  ASSUME ShapeInv, WireInv, NEW command \in Commands, command.kind # "text",
         queue' = Append(queue, command), UNCHANGED <<request, hand>>
  PROVE  WireInv' /\ queue' \in Seq(Commands)
<1>1. queue \in Seq(Commands)
  BY DEF ShapeInv
<1>2. /\ queue' \in Seq(Commands)
      /\ DOMAIN queue' = DOMAIN queue \union {Len(queue) + 1}
      /\ queue'[Len(queue) + 1] = command /\ \A n \in DOMAIN queue : queue'[n] = queue[n]
  BY <1>1
<1> QED BY <1>2 DEF WireInv

LEMMA Commandless ==
  /\ Pong \in Commands /\ Pong.kind # "text"
  /\ Close \in Commands /\ Close.kind # "text"
BY DEF Pong, Close, Commands

\* A step of callers that are in no call, which may queue a Close.
LEMMA CloseKeepsInv ==
  ASSUME LeakInv, pc' \in [Caller -> CallerSteps],
         \A c \in Caller : pc'[c] = pc[c] \/ (pc[c] \notin InCall /\ pc'[c] \notin InCall),
         UNCHANGED queue \/ queue' = Append(queue, Close),
         UNCHANGED <<permits, next_id, pending, request, mine, outcome, abandoned, hand,
                     incoming, emitted>>
  PROVE  LeakInv'
<1>1. ShapeInv /\ WireInv /\ AnswerInv
  BY DEF LeakInv, ClientInv
<1>2. CallInv' /\ IdInv' /\ NothingLeaks' /\ HoldersKnown'
  BY OutsideCalls
<1>3. WireInv' /\ queue' \in Seq(Commands)
  <2>1. CASE UNCHANGED queue
    BY <1>1, <2>1 DEF WireInv, ShapeInv
  <2>2. CASE queue' = Append(queue, Close)
    BY <1>1, <2>2, Commandless, AppendKeepsWires
  <2> QED BY <2>1, <2>2
<1>4. AnswerInv'
  BY <1>1, SameIsNoDelivery, NoDeliveryKeepsAnswers
<1>5. ShapeInv'
  BY <1>1, <1>3 DEF ShapeInv
<1> QED BY <1>2, <1>3, <1>4, <1>5 DEF LeakInv, ClientInv

LEMMA ClosingKeepsInv ==
  ASSUME LeakInv, (\E c \in Caller : CloseBegin(c) \/ CloseEnd(c)) \/ DropClient PROVE LeakInv'
<1>1. pc \in [Caller -> CallerSteps]
  BY DEF LeakInv, ClientInv, ShapeInv
<1>2. /\ pc' \in [Caller -> CallerSteps]
      /\ \A c \in Caller : pc'[c] = pc[c] \/ (pc[c] \notin InCall /\ pc'[c] \notin InCall)
  BY <1>1 DEF CloseBegin, CloseEnd, DropClient, Goto, InCall, CallerSteps
<1>3. /\ UNCHANGED queue \/ queue' = Append(queue, Close)
      /\ UNCHANGED <<permits, next_id, pending, request, mine, outcome, abandoned, hand,
                     incoming, emitted>>
  BY DEF CloseBegin, CloseEnd, DropClient, limiter, wires, arrivals
<1> QED BY <1>2, <1>3, CloseKeepsInv

-----------------------------------------------------------------------------
(* The writer and the server *)

\* A step that leaves the callers alone.
LEMMA CallersStay ==
  ASSUME LeakInv, SameProgress, UNCHANGED <<permits, next_id, pending, pc, mine, outcome, abandoned>>,
         NoDelivery
  PROVE  CallInv' /\ IdInv' /\ NothingLeaks'
<1>1. ShapeInv /\ CallInv /\ IdInv /\ NothingLeaks
  BY DEF LeakInv, ClientInv
<1>2. CallsCounted' /\ OpenCalls' /\ OthersRefused' /\ Outcomes'
  BY <1>1 DEF CallInv, CallsCounted, OpenCalls, OthersRefused, Outcomes, SameProgress
<1>3. InHand'
  BY <1>1 DEF CallInv, InHand, SameProgress, Holding
<1>4. IdInv'
  BY <1>1, NoDeliveryKeepsIds
<1>5. NothingLeaks'
  BY <1>1 DEF NothingLeaks, InFlight, Tracked
<1> QED BY <1>2, <1>3, <1>4, <1>5 DEF CallInv

LEMMA WriterTakeKeepsInv == ASSUME LeakInv, WriterTake PROVE LeakInv'
<1>1. ShapeInv /\ WireInv /\ AnswerInv /\ HoldersKnown
  BY DEF LeakInv, ClientInv
<1>2. /\ hand = <<>> /\ queue # <<>> /\ hand' = <<Head(queue)>> /\ queue' = Tail(queue)
      /\ UNCHANGED <<permits, next_id, pending, request, incoming, emitted, pc, mine, outcome,
                     abandoned>>
  BY DEF WriterTake, limiter, arrivals, callers
<1>3. queue \in Seq(Commands)
  BY <1>1 DEF ShapeInv
<1>4. /\ hand' \in Seq(Commands) /\ Len(hand') = 1 /\ DOMAIN hand' = {1} /\ hand'[1] = queue[1]
      /\ queue' \in Seq(Commands) /\ 1 \in DOMAIN queue
      /\ \A n \in DOMAIN queue' :
           n + 1 \in DOMAIN queue /\ queue'[n] = queue[n + 1] /\ n + 1 # 1 /\ n \in Int
  BY <1>2, <1>3
<1>5. WireInv'
  <2>1. ASSUME NEW n \in DOMAIN queue', queue'[n].kind = "text"
        PROVE  /\ queue'[n].id \in Id /\ request'[queue'[n].id].state = "queued"
               /\ \A m \in DOMAIN queue' : queue'[m] = queue'[n] => m = n
               /\ \A m \in DOMAIN hand' : hand'[m] # queue'[n]
    <3>1. \A m \in DOMAIN queue : queue[m] = queue[n + 1] => m = n + 1
      BY <1>1, <1>4, <2>1 DEF WireInv
    <3>2. \A m \in DOMAIN queue' : queue'[m] = queue'[n] => m = n
      <4> SUFFICES ASSUME NEW m \in DOMAIN queue', queue'[m] = queue'[n] PROVE m = n
        OBVIOUS
      <4>1. m + 1 = n + 1
        BY <1>4, <3>1
      <4> QED BY <1>4, <4>1
    <3>3. \A m \in DOMAIN hand' : hand'[m] # queue'[n]
      BY <1>4, <3>1
    <3> QED BY <1>1, <1>2, <1>4, <2>1, <3>2, <3>3 DEF WireInv
  <2>2. (\A m \in DOMAIN hand : hand[m].kind = "text" =>
           hand[m].id \in Id /\ request[hand[m].id].state = "queued")'
    BY <1>1, <1>2, <1>4 DEF WireInv
  <2> QED BY <2>1, <2>2 DEF WireInv
<1>6. NoDelivery /\ SameProgress
  BY <1>1, <1>2, SameIsNoDelivery DEF NoDelivery
<1>7. CallInv' /\ IdInv' /\ NothingLeaks' /\ AnswerInv'
  BY <1>1, <1>2, <1>6, CallersStay, NoDeliveryKeepsAnswers
<1>8. ShapeInv'
  BY <1>1, <1>2, <1>4 DEF ShapeInv
<1>9. HoldersKnown'
  BY <1>1, <1>2 DEF HoldersKnown
<1> QED BY <1>5, <1>7, <1>8, <1>9 DEF LeakInv, ClientInv

LEMMA WriterStopsKeepsInv ==
  ASSUME LeakInv, WriterStops, UNCHANGED request PROVE LeakInv'
<1>1. ShapeInv /\ AnswerInv /\ HoldersKnown
  BY DEF LeakInv, ClientInv
<1>2. /\ queue' = <<>> /\ hand' = <<>>
      /\ UNCHANGED <<permits, next_id, pending, request, incoming, emitted, pc, mine, outcome,
                     abandoned>>
  BY DEF WriterStops, arrivals, callers
<1>3. NoDelivery /\ SameProgress
  BY <1>1, <1>2, SameIsNoDelivery DEF NoDelivery
<1>4. CallInv' /\ IdInv' /\ NothingLeaks' /\ AnswerInv'
  BY <1>1, <1>2, <1>3, CallersStay, NoDeliveryKeepsAnswers
<1>5. ShapeInv' /\ WireInv' /\ HoldersKnown'
  BY <1>1, <1>2 DEF ShapeInv, WireInv, HoldersKnown
<1> QED BY <1>4, <1>5 DEF LeakInv, ClientInv

\* A request goes from the queue to the server, or is executed or refused there.
LEMMA ProgressKeepsCallers ==
  ASSUME LeakInv, NEW id \in Id, NEW new \in {"sent", "executed", "refused"},
         request[id].state \in {"queued", "sent"},
         request' = [request EXCEPT ![id].state = new],
         UNCHANGED <<permits, next_id, pending, pc, mine, outcome, abandoned>>
  PROVE  /\ CallInv' /\ IdInv' /\ NothingLeaks' /\ HoldersKnown'
         /\ request' \in [Id -> Requests] /\ request'[id].state = new
         /\ request'[id].call = request[id].call /\ request'[id].slot = request[id].slot
         /\ \A i \in Id \ {id} : request'[i] = request[i]
         /\ (\A i \in Id : request[i].slot # Open =>
               Honest(i, request[i].slot) /\ request[i].slot.result # "open" /\ i \notin pending)'
<1>1. ShapeInv /\ CallInv /\ IdInv /\ AnswerInv /\ NothingLeaks /\ HoldersKnown
  BY DEF LeakInv, ClientInv
<1>2. /\ request' \in [Id -> Requests] /\ request'[id].state = new
      /\ request'[id].call = request[id].call /\ request'[id].slot = request[id].slot
      /\ \A i \in Id \ {id} : request'[i] = request[i]
  <2>1. request[id] \in Requests
    BY <1>1 DEF ShapeInv
  <2>2. /\ [request[id] EXCEPT !.state = new] \in Requests
        /\ [request[id] EXCEPT !.state = new].state = new
        /\ [request[id] EXCEPT !.state = new].call = request[id].call
        /\ [request[id] EXCEPT !.state = new].slot = request[id].slot
    BY <2>1 DEF Requests, Progress
  <2>3. request' = [request EXCEPT ![id] = [request[id] EXCEPT !.state = new]]
    OBVIOUS
  <2> QED BY <1>1, <2>2, <2>3 DEF ShapeInv
<1>3. \A i \in Id : /\ request'[i].call = request[i].call /\ request'[i].slot = request[i].slot
                    /\ request[i].state \in {"unmade", "executed", "refused"} => request'[i] = request[i]
  BY <1>2
<1>4. CallInv'
  <2>1. CallsCounted' /\ OpenCalls'
    BY <1>1 DEF CallInv, CallsCounted, OpenCalls
  <2>2. OthersRefused'
    BY <1>1, <1>3 DEF CallInv, OthersRefused
  <2>3. InHand'
    <3> SUFFICES ASSUME NEW d \in Caller PROVE InHand!(d)'
      BY DEF InHand
    <3>1. pc[d] \in {"send", "sleep"} => mine[d].id \in Id
      BY <1>1 DEF CallInv, InHand, Holding
    <3> QED BY <1>1, <1>3, <3>1 DEF CallInv, InHand
  <2>4. Outcomes'
    BY <1>1, <1>3 DEF CallInv, Outcomes
  <2> QED BY <2>1, <2>2, <2>3, <2>4 DEF CallInv
<1>5. IdInv'
  <2>1. request[id] # Unmade
    BY DEF Unmade
  <2>2. \A i \in Id : i >= next_id => i # id
    BY <1>1, <2>1 DEF IdInv
  <2>3. \A i \in Id : request'[i].state # "refused" => request[i].state # "refused"
    BY <1>3
  <2> QED BY <1>1, <1>2, <1>3, <2>2, <2>3 DEF IdInv
<1>6. NothingLeaks'
  BY <1>1 DEF NothingLeaks, InFlight, Tracked
<1>7. HoldersKnown'
  <2>1. \A d \in Caller : pc[d] \in Holding => mine[d].id \in Id
    BY <1>1 DEF CallInv, InHand
  <2> QED BY <1>1, <1>3, <2>1 DEF HoldersKnown
<1>8. ASSUME NEW i \in Id, request'[i].slot # Open
      PROVE  (Honest(i, request[i].slot) /\ request[i].slot.result # "open" /\ i \notin pending)'
  <2>1. Honest(i, request[i].slot) /\ request[i].slot.result # "open" /\ i \notin pending
    BY <1>1, <1>3, <1>8 DEF AnswerInv
  <2> QED BY <1>3, <2>1 DEF Honest
<1> QED BY <1>2, <1>4, <1>5, <1>6, <1>7, <1>8

\* Answers on their way stay right.
LEMMA ProgressKeepsAnswers ==
  ASSUME NEW id \in Id, request[id].state \in {"queued", "sent"},
         \A i \in Id \ {id} : request'[i] = request[i],
         NEW message, AboutItsRequest(message)
  PROVE  AboutItsRequest(message)'
BY DEF AboutItsRequest, Honest

LEMMA WriterSentKeepsInv == ASSUME LeakInv, WriterSent PROVE LeakInv'
<1>1. ShapeInv /\ WireInv /\ AnswerInv /\ HoldersKnown
  BY DEF LeakInv, ClientInv
<1>2. hand \in Seq(Commands) /\ queue \in Seq(Commands) /\ hand # <<>> /\ 1 \in DOMAIN hand
  BY <1>1 DEF WriterSent, ShapeInv
<1>3. CASE hand[1].kind = "text"
  <2> DEFINE id == hand[1].id
  <2>1. /\ hand' = <<>> /\ request' = [request EXCEPT ![id].state = "sent"]
        /\ UNCHANGED <<permits, next_id, pending, queue, incoming, emitted, pc, mine, outcome,
                       abandoned>>
    BY <1>3 DEF WriterSent, limiter, arrivals, callers
  <2>2. id \in Id /\ request[id].state = "queued"
    BY <1>1, <1>2, <1>3 DEF WireInv
  <2>3. /\ CallInv' /\ IdInv' /\ NothingLeaks' /\ HoldersKnown'
        /\ request' \in [Id -> Requests]
        /\ \A i \in Id \ {id} : request'[i] = request[i]
        /\ (\A i \in Id : request[i].slot # Open =>
              Honest(i, request[i].slot) /\ request[i].slot.result # "open" /\ i \notin pending)'
    BY <2>1, <2>2, ProgressKeepsCallers
  <2>4. ShapeInv'
    BY <1>1, <2>1, <2>3 DEF ShapeInv
  <2>5. \A n \in DOMAIN queue : queue[n].kind = "text" => queue[n].id # id
    <3> SUFFICES ASSUME NEW n \in DOMAIN queue, queue[n].kind = "text", queue[n].id = id
                 PROVE  FALSE
      OBVIOUS
    <3>1. queue[n] \in Commands /\ hand[1] \in Commands
      BY <1>2
    <3>2. queue[n] = hand[1]
      BY <1>3, <3>1 DEF Commands
    <3> QED BY <1>1, <1>2, <3>2 DEF WireInv
  <2>6. WireInv'
    BY <1>1, <2>1, <2>3, <2>5 DEF WireInv
  <2>7. (\A n \in DOMAIN incoming : AboutItsRequest(incoming[n]))'
    <3>1. \A n \in DOMAIN incoming : AboutItsRequest(incoming[n])
      BY <1>1 DEF AnswerInv
    <3>2. \A m : AboutItsRequest(m) => AboutItsRequest(m)'
      BY <2>2, <2>3, ProgressKeepsAnswers
    <3> QED BY <2>1, <3>1, <3>2 DEF AboutItsRequest, Honest
  <2> QED BY <2>3, <2>4, <2>6, <2>7 DEF LeakInv, ClientInv, AnswerInv
<1>4. CASE hand[1].kind # "text" /\ WriterStops
  BY <1>4, WriterStopsKeepsInv DEF WriterSent
<1>5. CASE hand[1].kind # "text" /\ ~WriterStops
  <2>1. /\ hand' = <<>>
        /\ UNCHANGED <<permits, next_id, pending, request, queue, incoming, emitted, pc, mine,
                       outcome, abandoned>>
    BY <1>5 DEF WriterSent, limiter, arrivals, callers
  <2>2. NoDelivery /\ SameProgress
    BY <1>1, <2>1, SameIsNoDelivery DEF NoDelivery
  <2>3. CallInv' /\ IdInv' /\ NothingLeaks' /\ AnswerInv'
    BY <1>1, <2>1, <2>2, CallersStay, NoDeliveryKeepsAnswers
  <2>4. ShapeInv' /\ WireInv' /\ HoldersKnown'
    BY <1>1, <2>1 DEF ShapeInv, WireInv, HoldersKnown
  <2> QED BY <2>3, <2>4 DEF LeakInv, ClientInv
<1> QED BY <1>3, <1>4, <1>5

\* The server, or its silence, puts a message behind those on their way.
LEMMA AppendKeepsAnswers ==
  ASSUME ShapeInv, AnswerInv, NEW message \in Messages, AboutItsRequest(message)',
         \A m \in Messages : AboutItsRequest(m) => AboutItsRequest(m)',
         incoming' = Append(incoming, message)
  PROVE  /\ incoming' \in Seq(Messages)
         /\ (\A n \in DOMAIN incoming : AboutItsRequest(incoming[n]))'
<1>1. incoming \in Seq(Messages)
  BY DEF ShapeInv
<1>2. /\ incoming' \in Seq(Messages)
      /\ DOMAIN incoming' = DOMAIN incoming \union {Len(incoming) + 1}
      /\ incoming'[Len(incoming) + 1] = message
      /\ \A n \in DOMAIN incoming : incoming'[n] = incoming[n] /\ incoming[n] \in Messages
  BY <1>1
<1>3. \A n \in DOMAIN incoming : AboutItsRequest(incoming[n])
  BY DEF AnswerInv
<1>4. (\A n \in DOMAIN incoming : AboutItsRequest(incoming[n]))'
  <2> SUFFICES ASSUME NEW n \in DOMAIN incoming' PROVE AboutItsRequest(incoming[n])'
    OBVIOUS
  <2>1. CASE n = Len(incoming) + 1
    BY <1>2, <2>1 DEF AboutItsRequest, Honest
  <2>2. CASE n \in DOMAIN incoming
    BY <1>2, <1>3, <2>2 DEF AboutItsRequest, Honest
  <2> QED BY <1>2, <2>1, <2>2
<1> QED BY <1>2, <1>4

LEMMA ServeKeepsInv ==
  ASSUME LeakInv, NEW id \in Id, Serve(id) \/ Refuse(id) PROVE LeakInv'
<1>1. ShapeInv /\ WireInv /\ AnswerInv
  BY DEF LeakInv, ClientInv
<1>2. PICK new \in {"executed", "refused"} :
        /\ request' = [request EXCEPT ![id].state = new]
        /\ \/ UNCHANGED incoming
           \/ \E result \in {"ok", "error", "overloaded"} :
                /\ incoming' = Append(incoming, Answer(id, result))
                /\ result = "ok" => new = "executed"
                /\ result = "overloaded" => new = "refused"
  <2>1. CASE Serve(id)
    BY <2>1 DEF Serve
  <2>2. CASE Refuse(id)
    BY <2>2 DEF Refuse
  <2> QED BY <2>1, <2>2
<1>3. /\ request[id].state = "sent"
      /\ UNCHANGED <<permits, next_id, pending, queue, hand, emitted, pc, mine, outcome, abandoned>>
  BY DEF Serve, Refuse, limiter, wires, callers
<1>4. /\ CallInv' /\ IdInv' /\ NothingLeaks' /\ HoldersKnown'
      /\ request' \in [Id -> Requests] /\ request'[id].state = new
      /\ request'[id].call = request[id].call
      /\ \A i \in Id \ {id} : request'[i] = request[i]
      /\ (\A i \in Id : request[i].slot # Open =>
            Honest(i, request[i].slot) /\ request[i].slot.result # "open" /\ i \notin pending)'
  BY <1>2, <1>3, ProgressKeepsCallers
<1>5. \A m \in Messages : AboutItsRequest(m) => AboutItsRequest(m)'
  BY <1>3, <1>4, ProgressKeepsAnswers
<1>6. incoming' \in Seq(Messages) /\ (\A n \in DOMAIN incoming : AboutItsRequest(incoming[n]))'
  <2>1. CASE UNCHANGED incoming
    <3>1. \A n \in DOMAIN incoming : incoming[n] \in Messages /\ AboutItsRequest(incoming[n])
      BY <1>1 DEF ShapeInv, AnswerInv
    <3> QED BY <1>1, <1>5, <2>1, <3>1 DEF ShapeInv, AboutItsRequest, Honest
  <2>2. ASSUME NEW result \in {"ok", "error", "overloaded"},
               incoming' = Append(incoming, Answer(id, result)),
               result = "ok" => new = "executed", result = "overloaded" => new = "refused"
        PROVE  incoming' \in Seq(Messages) /\ (\A n \in DOMAIN incoming : AboutItsRequest(incoming[n]))'
    <3> DEFINE slot == [result |-> result, call |-> request[id].call, after |-> emitted]
    <3>1. slot \in Slots
      <4>1. request[id].call \in 0..MaxCalls /\ emitted \in 0..MaxEmits
        BY <1>1 DEF ShapeInv, Requests
      <4> QED BY <4>1 DEF Slots, Results
    <3>2. PICK message \in Messages : message = Answer(id, result)
      BY <3>1 DEF Answer, Messages, Kinds
    <3>3. message.kind = "answer" /\ message.id = id /\ message.slot = slot
      BY <3>2 DEF Answer
    <3>4. AboutItsRequest(message)'
      BY <1>2, <1>4, <2>2, <3>3 DEF AboutItsRequest, Honest
    <3> QED BY <1>1, <1>5, <2>2, <3>2, <3>4, AppendKeepsAnswers
  <2> QED BY <1>2, <2>1, <2>2
<1>7. ShapeInv'
  BY <1>1, <1>3, <1>4, <1>6 DEF ShapeInv
<1>8. WireInv'
  BY <1>1, <1>3, <1>4 DEF WireInv
<1> QED BY <1>4, <1>6, <1>7, <1>8 DEF LeakInv, ClientInv, AnswerInv

\* Messages about no request: notifications, pings and the end of the stream.
LEMMA SignalKeepsInv == ASSUME LeakInv, Emit \/ Hangup PROVE LeakInv'
<1>1. ShapeInv /\ WireInv /\ AnswerInv /\ HoldersKnown
  BY DEF LeakInv, ClientInv
<1>2. PICK kind \in {"event", "ping", "end"} : incoming' = Append(incoming, Signal(kind))
  BY DEF Emit, Hangup
<1>3. /\ emitted' \in 0..MaxEmits
      /\ UNCHANGED <<permits, next_id, pending, request, queue, hand, pc, mine, outcome, abandoned>>
  BY <1>1, ClientAssumption DEF Emit, Hangup, ShapeInv, limiter, wires, callers
<1>4. NoDelivery /\ SameProgress
  BY <1>1, <1>3, SameIsNoDelivery DEF NoDelivery
<1>5. CallInv' /\ IdInv' /\ NothingLeaks'
  BY <1>3, <1>4, CallersStay
<1>6. incoming' \in Seq(Messages) /\ (\A n \in DOMAIN incoming : AboutItsRequest(incoming[n]))'
  <2>1. PICK message \in Messages : message = Signal(kind)
    BY OpenIsASlot DEF Signal, Messages, Kinds
  <2>2. AboutItsRequest(message)'
    BY <2>1 DEF Signal, AboutItsRequest
  <2>3. \A m \in Messages : AboutItsRequest(m) => AboutItsRequest(m)'
    BY <1>3 DEF AboutItsRequest, Honest
  <2> QED BY <1>1, <1>2, <2>1, <2>2, <2>3, AppendKeepsAnswers
<1>7. AnswerInv'
  BY <1>1, <1>3, <1>6 DEF AnswerInv, Honest
<1>8. ShapeInv' /\ WireInv' /\ HoldersKnown'
  BY <1>1, <1>3, <1>6 DEF ShapeInv, WireInv, HoldersKnown
<1> QED BY <1>5, <1>7, <1>8 DEF LeakInv, ClientInv

-----------------------------------------------------------------------------
(* The reader *)

\* Results are delivered to callers that listen.
LEMMA FillKeepsProgress ==
  ASSUME LeakInv, NEW ids \in SUBSET Id, NEW slot \in [Id -> Slots],
         \A id \in Id : request'[id] = IF id \in ids \intersect Listening
                                       THEN [request[id] EXCEPT !.slot = slot[id]] ELSE request[id],
         request' = [id \in Id |-> request'[id]],
         UNCHANGED <<next_id, pc, mine, outcome>>
  PROVE  /\ SameProgress /\ CallInv' /\ IdInv'
         /\ \A id \in Id : request'[id].slot =
              IF id \in ids \intersect Listening THEN slot[id] ELSE request[id].slot
<1>1. ShapeInv /\ CallInv /\ IdInv
  BY DEF LeakInv, ClientInv
<1>2. ASSUME NEW id \in Id
      PROVE  /\ request'[id] \in Requests
             /\ request'[id].call = request[id].call /\ request'[id].state = request[id].state
             /\ request'[id].slot = IF id \in ids \intersect Listening THEN slot[id]
                                                                     ELSE request[id].slot
  <2>1. request[id] \in Requests /\ slot[id] \in Slots
    BY <1>1 DEF ShapeInv
  <2>2. \A s \in Slots :
          /\ [request[id] EXCEPT !.slot = s] \in Requests /\ [request[id] EXCEPT !.slot = s].slot = s
          /\ [request[id] EXCEPT !.slot = s].call = request[id].call
          /\ [request[id] EXCEPT !.slot = s].state = request[id].state
    <3>1. SUFFICES ASSUME NEW s \in Slots, NEW r \in Requests
                   PROVE  /\ [r EXCEPT !.slot = s] \in Requests /\ [r EXCEPT !.slot = s].slot = s
                          /\ [r EXCEPT !.slot = s].call = r.call
                          /\ [r EXCEPT !.slot = s].state = r.state
      BY <2>1
    <3>2. [r EXCEPT !.slot = s] \in Requests
      BY DEF Requests
    <3>3. [r EXCEPT !.slot = s].slot = s
      BY DEF Requests
    <3>4. [r EXCEPT !.slot = s].call = r.call /\ [r EXCEPT !.slot = s].state = r.state
      BY DEF Requests
    <3> QED BY <3>2, <3>3, <3>4
  <2>3. CASE id \in ids \intersect Listening
    <3>1. request'[id] = [request[id] EXCEPT !.slot = slot[id]]
      BY <2>3
    <3> QED BY <2>1, <2>2, <2>3, <3>1
  <2>4. CASE id \notin ids \intersect Listening
    BY <2>1, <2>4
  <2> QED BY <2>3, <2>4
<1>3. SameProgress
  BY <1>2 DEF SameProgress
<1>4. CallInv'
  <2>1. CallsCounted' /\ OpenCalls' /\ OthersRefused' /\ Outcomes'
    BY <1>1, <1>3 DEF CallInv, CallsCounted, OpenCalls, OthersRefused, Outcomes, SameProgress
  <2>2. InHand'
    BY <1>1, <1>3 DEF CallInv, InHand, SameProgress, Holding
  <2> QED BY <2>1, <2>2 DEF CallInv
<1>5. \A id \in Listening : id \in Id /\ request[id].call \in Call
  BY <1>1 DEF Listening, CallInv, InHand, OpenCalls, Holding, InCall, CallerSteps
<1>6. IdInv'
  <2>1. ASSUME NEW id \in Id, id >= next_id PROVE request'[id] = Unmade
    <3>1. request[id] = Unmade
      BY <1>1, <2>1 DEF IdInv
    <3>2. id \notin Listening
      BY <1>5, <3>1 DEF Unmade, Call
    <3> QED BY <3>1, <3>2
  <2> QED BY <1>1, <1>3, <2>1 DEF IdInv, SameProgress
<1> QED BY <1>2, <1>3, <1>4, <1>6

LEMMA ReadIncomingKeepsInv == ASSUME LeakInv, ReadIncoming PROVE LeakInv'
<1> DEFINE message == incoming[1]
<1> DEFINE ids == pending \intersect {message.id}
<1> DEFINE slot == [id \in Id |-> message.slot]
<1>1. ShapeInv /\ CallInv /\ WireInv /\ AnswerInv /\ NothingLeaks /\ HoldersKnown
  BY DEF LeakInv, ClientInv
<1>2. /\ incoming # <<>> /\ incoming' = Tail(incoming)
      /\ pending' = pending \ {message.id} /\ abandoned' = abandoned \ {message.id}
      /\ request' = [id \in Id |-> IF id \in ids \intersect Listening
                                   THEN [request[id] EXCEPT !.slot = message.slot] ELSE request[id]]
      /\ UNCHANGED <<permits, next_id, queue, hand, emitted, pc, mine, outcome>>
  BY <1>1, FirstIsTaken DEF ReadIncoming, NextIncoming, Fill, wires
<1>3. /\ message \in Messages /\ AboutItsRequest(message)
      /\ incoming' \in Seq(Messages)
      /\ \A n \in DOMAIN incoming' : n + 1 \in DOMAIN incoming /\ incoming'[n] = incoming[n + 1]
  <2>1. incoming \in Seq(Messages) /\ \A n \in DOMAIN incoming : AboutItsRequest(incoming[n])
    BY <1>1 DEF ShapeInv, AnswerInv
  <2> QED BY <1>2, <2>1
<1>4. /\ SameProgress /\ CallInv' /\ IdInv'
      /\ \A id \in Id : request'[id].slot =
           IF id \in ids \intersect Listening THEN message.slot ELSE request[id].slot
  <2>1. ids \in SUBSET Id /\ slot \in [Id -> Slots]
    BY <1>1, <1>3 DEF ShapeInv, Messages
  <2>2. \A id \in Id : request'[id] = IF id \in ids \intersect Listening
                                      THEN [request[id] EXCEPT !.slot = slot[id]] ELSE request[id]
    BY <1>2
  <2>3. request' = [id \in Id |-> request'[id]]
    BY <1>2
  <2>4. UNCHANGED <<next_id, pc, mine, outcome>>
    BY <1>2
  <2> HIDE DEF slot, ids
  <2>5. /\ SameProgress /\ CallInv' /\ IdInv'
        /\ \A id \in Id : request'[id].slot =
             IF id \in ids \intersect Listening THEN slot[id] ELSE request[id].slot
    BY <2>1, <2>2, <2>3, <2>4, FillKeepsProgress
  <2> QED BY <2>5 DEF slot
<1>5. ShapeInv'
  <2>1. request' \in [Id -> Requests] /\ pending' \subseteq Id
    BY <1>1, <1>2, <1>4 DEF ShapeInv, SameProgress
  <2> QED BY <1>1, <1>2, <1>3, <2>1 DEF ShapeInv
<1>6. WireInv'
  BY <1>1, <1>2, <1>4, NoProgressKeepsWires
<1>7. AnswerInv'
  <2>1. (\A n \in DOMAIN incoming : AboutItsRequest(incoming[n]))'
    BY <1>1, <1>3, <1>4 DEF AnswerInv, AboutItsRequest, Honest, SameProgress
  <2>2. ASSUME NEW id \in Id, request'[id].slot # Open
        PROVE  (Honest(id, request[id].slot) /\ request[id].slot.result # "open" /\ id \notin pending)'
    <3>1. CASE id \in ids \intersect Listening
      <4>1. id = message.id /\ id \notin pending'
        BY <1>2, <3>1
      <4>2. message.kind = "answer"
        BY <1>3, <4>1, IdsArePositive DEF AboutItsRequest
      <4>3. message.slot.result # "open" /\ Honest(id, message.slot)
        BY <1>3, <4>1, <4>2 DEF AboutItsRequest
      <4>4. request'[id].slot = message.slot
        BY <1>4, <3>1
      <4> QED BY <1>4, <4>1, <4>3, <4>4 DEF Honest, SameProgress
    <3>2. CASE id \notin ids \intersect Listening
      <4>1. request'[id].slot = request[id].slot
        BY <1>4, <3>2
      <4>2. Honest(id, request[id].slot) /\ request[id].slot.result # "open" /\ id \notin pending
        BY <1>1, <2>2, <4>1 DEF AnswerInv
      <4> QED BY <1>2, <1>4, <4>1, <4>2 DEF Honest, SameProgress
    <3> QED BY <3>1, <3>2
  <2> QED BY <2>1, <2>2 DEF AnswerInv
<1>8. NothingLeaks'
  <2>1. InFlight' = InFlight /\ Tracked' = Tracked
    BY <1>2 DEF InFlight, Tracked
  <2> QED BY <1>1, <1>2, <2>1 DEF NothingLeaks
<1>9. HoldersKnown'
  <2> SUFFICES ASSUME NEW d \in Caller, pc[d] \in Holding, request'[mine[d].id].slot = Open
               PROVE  mine[d].id \in pending'
    BY <1>2 DEF HoldersKnown
  <2>1. mine[d].id \in Id /\ mine[d].id \in Listening
    BY <1>1 DEF CallInv, InHand, Listening
  <2>2. CASE mine[d].id \in ids
    <3>1. message.kind = "answer" /\ message.slot = Open
      <4>1. message.id = mine[d].id /\ request'[mine[d].id].slot = message.slot
        BY <1>4, <2>1, <2>2
      <4> QED BY <1>3, <2>1, <4>1, IdsArePositive DEF AboutItsRequest
    <3> QED BY <1>3, <3>1 DEF AboutItsRequest, Open
  <2>3. CASE mine[d].id \notin ids
    BY <1>1, <1>2, <1>4, <2>1, <2>3 DEF HoldersKnown
  <2> QED BY <2>2, <2>3
<1> QED BY <1>4, <1>5, <1>6, <1>7, <1>8, <1>9 DEF LeakInv, ClientInv

LEMMA FailPendingKeepsInv == ASSUME LeakInv, FailPending PROVE LeakInv'
<1> DEFINE failed(id) == [result |-> "error", call |-> request[id].call, after |-> 0]
<1> DEFINE slot == [id \in Id |-> failed(id)]
<1>1. ShapeInv /\ CallInv /\ WireInv /\ AnswerInv /\ NothingLeaks /\ HoldersKnown
  BY DEF LeakInv, ClientInv
<1>2. /\ incoming' = <<>> /\ pending' = {} /\ abandoned' = {}
      /\ request' = [id \in Id |-> IF id \in pending \intersect Listening
                                   THEN [request[id] EXCEPT !.slot = failed(id)] ELSE request[id]]
      /\ UNCHANGED <<permits, next_id, queue, hand, emitted, pc, mine, outcome>>
  BY DEF FailPending, Fill, wires
<1>3. /\ SameProgress /\ CallInv' /\ IdInv'
      /\ \A id \in Id : request'[id].slot =
           IF id \in pending \intersect Listening THEN failed(id) ELSE request[id].slot
  <2>1. slot \in [Id -> Slots]
    <3>1. \A id \in Id : request[id].call \in 0..MaxCalls
      BY <1>1 DEF ShapeInv, Requests
    <3> QED BY <3>1, ClientAssumption DEF Slots, Results
  <2>2. \A id \in Id : request'[id] = IF id \in pending \intersect Listening
                                      THEN [request[id] EXCEPT !.slot = slot[id]] ELSE request[id]
    BY <1>2
  <2>3. request' = [id \in Id |-> request'[id]]
    BY <1>2
  <2>4. UNCHANGED <<next_id, pc, mine, outcome>> /\ pending \in SUBSET Id
    BY <1>1, <1>2 DEF ShapeInv
  <2> HIDE DEF slot
  <2>5. /\ SameProgress /\ CallInv' /\ IdInv'
        /\ \A id \in Id : request'[id].slot =
             IF id \in pending \intersect Listening THEN slot[id] ELSE request[id].slot
    BY <2>1, <2>2, <2>3, <2>4, FillKeepsProgress
  <2> QED BY <2>5 DEF slot
<1>4. ShapeInv'
  <2>1. request' \in [Id -> Requests]
    BY <1>3 DEF SameProgress
  <2> QED BY <1>1, <1>2, <2>1 DEF ShapeInv
<1>5. WireInv'
  BY <1>1, <1>2, <1>3, NoProgressKeepsWires
<1>6. AnswerInv'
  <2>1. ASSUME NEW id \in Id, request'[id].slot # Open
        PROVE  (Honest(id, request[id].slot) /\ request[id].slot.result # "open" /\ id \notin pending)'
    <3>1. CASE id \in pending \intersect Listening
      <4>1. request'[id].slot = failed(id) /\ request'[id].call = request[id].call
        BY <1>3, <3>1 DEF SameProgress
      <4>2. /\ request'[id].slot.call = request'[id].call
            /\ request'[id].slot.result = "error" /\ id \notin pending'
        BY <1>2, <4>1
      <4> QED BY <4>2 DEF Honest
    <3>2. CASE id \notin pending \intersect Listening
      <4>1. request'[id].slot = request[id].slot
        BY <1>3, <3>2
      <4>2. Honest(id, request[id].slot) /\ request[id].slot.result # "open"
        BY <1>1, <2>1, <4>1 DEF AnswerInv
      <4> QED BY <1>2, <1>3, <4>1, <4>2 DEF Honest, SameProgress
    <3> QED BY <3>1, <3>2
  <2> QED BY <1>2, <2>1 DEF AnswerInv
<1>7. NothingLeaks'
  <2>1. InFlight' = InFlight
    BY <1>2 DEF InFlight
  <2> QED BY <1>1, <1>2, <2>1 DEF NothingLeaks
<1>8. HoldersKnown'
  <2> SUFFICES ASSUME NEW d \in Caller, pc[d] \in Holding PROVE request'[mine[d].id].slot # Open
    BY <1>2 DEF HoldersKnown
  <2>1. mine[d].id \in Id /\ mine[d].id \in Listening
    BY <1>1 DEF CallInv, InHand, Listening
  <2>2. request'[mine[d].id].slot \in {failed(mine[d].id), request[mine[d].id].slot}
        /\ (request[mine[d].id].slot = Open => request'[mine[d].id].slot = failed(mine[d].id))
    BY <1>1, <1>3, <2>1 DEF HoldersKnown
  <2> QED BY <2>2 DEF Open
<1> QED BY <1>3, <1>4, <1>5, <1>6, <1>7, <1>8 DEF LeakInv, ClientInv

\* The reader turns away, or queues its Pong.
LEMMA ReaderTurnsKeepsInv == ASSUME LeakInv, ReaderCancelled \/ QueuePong PROVE LeakInv'
<1>1. ShapeInv /\ WireInv /\ AnswerInv /\ HoldersKnown
  BY DEF LeakInv, ClientInv
<1>2. /\ UNCHANGED queue \/ queue' = Append(queue, Pong)
      /\ UNCHANGED <<permits, next_id, pending, request, hand, incoming, emitted, pc, mine, outcome,
                     abandoned>>
  BY DEF ReaderCancelled, QueuePong, limiter, wires, callers
<1>3. NoDelivery /\ SameProgress
  BY <1>1, <1>2, SameIsNoDelivery DEF NoDelivery
<1>4. CallInv' /\ IdInv' /\ NothingLeaks' /\ AnswerInv'
  BY <1>1, <1>2, <1>3, CallersStay, NoDeliveryKeepsAnswers
<1>5. WireInv' /\ queue' \in Seq(Commands)
  <2>1. CASE UNCHANGED queue
    BY <1>1, <1>2, <2>1 DEF WireInv, ShapeInv
  <2>2. CASE queue' = Append(queue, Pong)
    BY <1>1, <1>2, <2>2, Commandless, AppendKeepsWires
  <2> QED BY <1>2, <2>1, <2>2
<1>6. ShapeInv' /\ HoldersKnown'
  BY <1>1, <1>2, <1>5 DEF ShapeInv, HoldersKnown
<1> QED BY <1>4, <1>5, <1>6 DEF LeakInv, ClientInv

-----------------------------------------------------------------------------
(* Every step *)

LEMMA StutterKeepsInv == ASSUME LeakInv, UNCHANGED vars PROVE LeakInv'
BY DEF LeakInv, ClientInv, ShapeInv, CallInv, CallsCounted, OpenCalls, OthersRefused, InHand,
       Outcomes, IdInv, WireInv, AnswerInv, AboutItsRequest, Honest, NothingLeaks, HoldersKnown,
       InFlight, Tracked, vars

LEMMA NextKeepsInv == ASSUME LeakInv, [Next]_vars PROVE LeakInv'
<1>1. ASSUME NEW c \in Caller, BeginCall(c) \/ Advance(c) \/ Abandon(c) \/ CloseBegin(c)
      PROVE  LeakInv'
  <2>1. CASE BeginCall(c)
    BY <2>1, BeginCallKeepsInv
  <2>2. CASE CheckOpen(c)
    BY <2>2, GoOnKeepsInv, ReturnsKeepInv
  <2>3. CASE Admit(c) \/ SendRequest(c) \/ Receive(c) \/ AwaitExpires(c)
    BY <2>3, AdmitKeepsInv, SendRequestKeepsInv, ReceiveKeepsInv, AwaitExpiresKeepsInv
  <2>4. CASE PermitExpires(c) \/ SendFails(c) \/ Forget(c) \/ Abandon(c)
    BY <2>4, ReturnsKeepInv
  <2>5. CASE Retry(c)
    BY <2>5, GoOnKeepsInv
  <2>6. CASE CloseBegin(c) \/ CloseEnd(c)
    BY <2>6, ClosingKeepsInv
  <2> QED BY <1>1, <2>1, <2>2, <2>3, <2>4, <2>5, <2>6 DEF Advance
<1>2. CASE DropClient
  BY <1>2, ClosingKeepsInv
<1>3. CASE Writer \/ WriterFails
  BY <1>3, WriterTakeKeepsInv, WriterStopsKeepsInv DEF Writer, WriterCancelled, WriterFails
<1>4. CASE WriterSent
  BY <1>4, WriterSentKeepsInv
<1>5. CASE Reader
  BY <1>5, ReadIncomingKeepsInv, ReaderTurnsKeepsInv, FailPendingKeepsInv DEF Reader
<1>6. CASE Emit \/ Hangup
  BY <1>6, SignalKeepsInv
<1>7. ASSUME NEW id \in Id, Serve(id) \/ Refuse(id) PROVE LeakInv'
  BY <1>7, ServeKeepsInv
<1>8. CASE UNCHANGED vars
  BY <1>8, StutterKeepsInv
<1> QED BY <1>1, <1>2, <1>3, <1>4, <1>5, <1>6, <1>7, <1>8 DEF Next, Server

LEMMA Invariance == Spec => []LeakInv
<1>1. Init => LeakInv
  BY InitInv
<1>2. LeakInv /\ [Next]_vars => LeakInv'
  BY NextKeepsInv
<1> QED BY <1>1, <1>2, PTL DEF Spec

\* However a request ends, its permit and its entry in the map come back
\* (app_server.rs:476-553).
THEOREM NothingIsLeaked == Spec => []NothingLeaks
<1>1. LeakInv => NothingLeaks
  BY DEF LeakInv
<1> QED BY <1>1, Invariance, PTL

\* The reader ends in one step alone.
LEMMA EndsByFailPending ==
  ASSUME [Next]_vars, reader # "ended", reader' = "ended"
  PROVE  FailPending
<1> USE DEF limiter, wires, arrivals, callers
<1>1. ASSUME NEW c \in Caller, BeginCall(c) \/ Advance(c) \/ Abandon(c) \/ CloseBegin(c)
      PROVE  reader' = reader
  BY <1>1 DEF BeginCall, Advance, Abandon, CloseBegin, CheckOpen, Admit, PermitExpires,
              SendRequest, SendFails, Receive, AwaitExpires, Forget, Retry, CloseEnd
<1>2. CASE DropClient
  BY <1>2 DEF DropClient
<1>3. CASE Writer
  BY <1>3 DEF Writer, WriterTake, WriterCancelled, WriterStops
<1>4. CASE Reader
  BY <1>4 DEF Reader, ReadIncoming, ReaderCancelled, QueuePong
<1>5. CASE Server
  BY <1>5 DEF Server, Emit, Hangup, WriterSent, WriterFails, WriterStops, Serve, Refuse
<1>6. CASE UNCHANGED vars
  BY <1>6 DEF vars
<1> QED BY <1>1, <1>2, <1>3, <1>4, <1>5, <1>6 DEF Next

\* Every request in flight is in the map until it has its result, and the end of the
\* connection gives one to each, however it races with the callers' own steps: whoever
\* enters the map after it is the only one that nobody tells (app_server.rs:498-541,
\* fail_pending).
THEOREM NobodyIsForgotten == Spec => NobodyForgotten
<1>1. LeakInv /\ [Next]_vars =>
        [\A c \in InFlight : request[mine[c].id].slot = Open =>
           /\ mine[c].id \in pending
           /\ reader # "ended" /\ reader' = "ended" => request'[mine[c].id].slot # Open]_vars
  <2> SUFFICES ASSUME LeakInv, [Next]_vars,
                      NEW c \in InFlight, request[mine[c].id].slot = Open
               PROVE  /\ mine[c].id \in pending
                      /\ reader # "ended" /\ reader' = "ended" =>
                           request'[mine[c].id].slot # Open
    OBVIOUS
  <2>1. c \in Caller /\ pc[c] \in Holding
    BY DEF InFlight
  <2>2. mine[c].id \in pending
    BY <2>1 DEF LeakInv, HoldersKnown
  <2>3. ASSUME reader # "ended", reader' = "ended"
        PROVE  request'[mine[c].id].slot # Open
    <3>1. pc' = pc /\ mine' = mine /\ pending' = {}
      BY <2>3, EndsByFailPending DEF FailPending
    <3>2. HoldersKnown'
      BY NextKeepsInv DEF LeakInv
    <3> QED BY <2>1, <3>1, <3>2 DEF HoldersKnown
  <2> QED BY <2>2, <2>3
<1> QED BY <1>1, Invariance, PTL DEF Spec, NobodyForgotten

\* No caller is given the answer to another request, late ones included
\* (app_server.rs:502-506, 640-665).
THEOREM AnswersAreOwn == Spec => []AnswerIsOwn
<1>1. LeakInv => AnswerIsOwn
  BY DEF LeakInv, ClientInv, AnswerInv, Honest, AnswerIsOwn
<1> QED BY <1>1, Invariance, PTL

-----------------------------------------------------------------------------
(* The refinement *)

SameExecutions ==
  \A id \in Id : request[id].state = "executed" \/ request'[id].state = "executed" =>
    /\ request[id].state = "executed" /\ request'[id].state = "executed"
    /\ request'[id].call = request[id].call

LEMMA ExecutedKept ==
  ASSUME SameExecutions PROVE [k \in Call |-> Executions(k)]' = [k \in Call |-> Executions(k)]
<1>1. ASSUME NEW k \in Call PROVE Executions(k)' = Executions(k)
  <2>1. {id \in Id : request'[id].call = k /\ request'[id].state = "executed"}
          = {id \in Id : request[id].call = k /\ request[id].state = "executed"}
    BY DEF SameExecutions
  <2> QED BY <2>1 DEF Executions
<1> QED BY <1>1

\* A call of which a request has been executed has been executed once.
LEMMA ExecutedOnce ==
  ASSUME IdInv, NEW id \in Id, request[id].call \in Call, request[id].state = "executed"
  PROVE  Executions(request[id].call) = 1
<1>1. {j \in Id : request[j].call = request[id].call /\ request[j].state = "executed"} = {id}
  BY DEF IdInv
<1> QED BY <1>1, FS_Singleton DEF Executions

\* The first state is one of RemoteCall.
LEMMA InitRefines == ASSUME Init PROVE RemoteCalls!CallInit
<1>1. ASSUME NEW k \in Call PROVE Executions(k) = 0
  <2>1. {id \in Id : request[id].call = k /\ request[id].state = "executed"} = {}
    BY DEF Init, Unmade
  <2> QED BY <2>1, FS_EmptySet DEF Executions
<1> QED BY <1>1 DEF RemoteCalls!CallInit, Init

LEMMA BeginRefines ==
  ASSUME LeakInv, NEW c \in Caller, BeginCall(c) PROVE RemoteCalls!CallNext
<1>1. SameExecutions
  BY DEF BeginCall, SameExecutions
<1>2. PICK k \in Call : outcome[k] = "none" /\ outcome' = [outcome EXCEPT ![k] = "open"]
  <2>1. CallsCounted /\ outcome \in [Call -> {"none", "open", "ok", "failed"}]
    BY DEF LeakInv, ClientInv, CallInv, ShapeInv
  <2>2. /\ Cardinality(Made) \in Nat /\ Cardinality(Made) + 1 \in Call
        /\ \A k \in Call : outcome[k] # "none" <=> k <= Cardinality(Made)
    BY <2>1, NextCall DEF BeginCall
  <2>3. outcome[Cardinality(Made) + 1] = "none"
    BY <2>2
  <2> QED BY <2>2, <2>3 DEF BeginCall
<1> QED BY <1>1, <1>2, ExecutedKept DEF RemoteCalls!CallNext, RemoteCalls!Begin

LEMMA ReturnRefines ==
  ASSUME LeakInv, NEW c \in Caller, pc[c] \in InCall, SameExecutions,
         NEW result \in {"ok", "failed"}, Return(c, result),
         result = "ok" => \E id \in Id :
           request[id].call = mine[c].call /\ request[id].state = "executed"
  PROVE  RemoteCalls!CallNext
<1>1. mine[c].call \in Call /\ outcome[mine[c].call] = "open"
  BY DEF LeakInv, ClientInv, CallInv, OpenCalls
<1>2. CASE result = "ok"
  <2>1. PICK id \in Id : request[id].call = mine[c].call /\ request[id].state = "executed"
    BY <1>2
  <2>2. Executions(mine[c].call) = 1
    BY <1>1, <2>1, ExecutedOnce DEF LeakInv, ClientInv
  <2> QED BY <1>1, <1>2, <2>2, ExecutedKept DEF Return, RemoteCalls!CallNext, RemoteCalls!Succeed
<1>3. CASE result = "failed"
  BY <1>1, <1>3, ExecutedKept DEF Return, RemoteCalls!CallNext, RemoteCalls!Fail
<1> QED BY <1>2, <1>3

LEMMA ServeRefines ==
  ASSUME LeakInv, NEW id \in Id, Serve(id) PROVE RemoteCalls!CallNext
<1>1. ShapeInv /\ CallInv /\ IdInv
  BY DEF LeakInv, ClientInv
<1>2. /\ request[id].state = "sent" /\ request' = [request EXCEPT ![id].state = "executed"]
      /\ UNCHANGED <<permits, next_id, pending, pc, mine, outcome, abandoned>>
  BY DEF Serve, limiter, callers
<1>3. /\ IdInv' /\ request'[id].state = "executed" /\ request'[id].call = request[id].call
      /\ \A i \in Id \ {id} : request'[i] = request[i]
  BY <1>2, ProgressKeepsCallers
<1>4. PICK k \in Call : request[id].call = k
  <2>1. request[id] # Unmade
    BY <1>2 DEF Unmade
  <2>2. id \in Nat /\ next_id \in Nat
    BY <1>1, IdsArePositive DEF ShapeInv
  <2> QED BY <1>1, <2>1, <2>2 DEF IdInv
<1>5. \A i \in Id : request[i].call = k => request[i].state # "executed"
  BY <1>1, <1>2, <1>4 DEF IdInv
<1>6. outcome[k] \in {"open", "failed"}
  BY <1>1, <1>4, <1>5 DEF ShapeInv, CallInv, Outcomes
<1>7. Executions(k) = 0
  <2>1. {i \in Id : request[i].call = k /\ request[i].state = "executed"} = {}
    BY <1>5
  <2> QED BY <2>1, FS_EmptySet DEF Executions
<1>8. Executions(k)' = 1
  <2>1. {i \in Id : request'[i].call = k /\ request'[i].state = "executed"} = {id}
    BY <1>3, <1>4, <1>5
  <2> QED BY <2>1, FS_Singleton DEF Executions
<1>9. \A j \in Call \ {k} : Executions(j)' = Executions(j)
  <2> SUFFICES ASSUME NEW j \in Call \ {k} PROVE Executions(j)' = Executions(j)
    OBVIOUS
  <2>1. {i \in Id : request'[i].call = j /\ request'[i].state = "executed"}
          = {i \in Id : request[i].call = j /\ request[i].state = "executed"}
    BY <1>3, <1>4
  <2> QED BY <2>1 DEF Executions
<1>10. [j \in Call |-> Executions(j)]' = [[j \in Call |-> Executions(j)] EXCEPT ![k] = 1]
  BY <1>4, <1>8, <1>9
<1> QED BY <1>2, <1>4, <1>6, <1>7, <1>10 DEF RemoteCalls!CallNext, RemoteCalls!Execute

LEMMA NextRefines ==
  ASSUME LeakInv, [Next]_vars PROVE [RemoteCalls!CallNext]_(RemoteCalls!callVars)
<1> USE DEF limiter, wires, arrivals, callers
<1>1. ShapeInv /\ CallInv /\ IdInv /\ WireInv /\ AnswerInv
  BY DEF LeakInv, ClientInv
<1>2. ASSUME SameExecutions, UNCHANGED outcome PROVE UNCHANGED RemoteCalls!callVars
  BY <1>2, ExecutedKept DEF RemoteCalls!callVars
<1>3. ASSUME SameProgress PROVE SameExecutions
  BY <1>3 DEF SameProgress, SameExecutions
<1>4. ASSUME UNCHANGED request PROVE SameExecutions
  BY <1>4 DEF SameExecutions
<1>5. ASSUME NEW c \in Caller, Unlisten(c) PROVE SameExecutions
  BY <1>1, <1>3, <1>5, UnlistenIsNoDelivery DEF NoDelivery
<1>6. ASSUME NEW c \in Caller, BeginCall(c) \/ Advance(c) \/ Abandon(c) \/ CloseBegin(c)
      PROVE  [RemoteCalls!CallNext]_(RemoteCalls!callVars)
  <2>1. CASE BeginCall(c)
    BY <2>1, BeginRefines
  <2>2. CASE CheckOpen(c)
    <3>1. SameExecutions /\ pc[c] \in InCall
      BY <1>4, <2>2 DEF CheckOpen, InCall, CallerSteps
    <3>2. Return(c, "failed") \/ UNCHANGED outcome
      BY <2>2 DEF CheckOpen
    <3> QED BY <1>2, <3>1, <3>2, ReturnRefines
  <2>3. CASE Admit(c)
    <3>1. UNCHANGED outcome /\ next_id \in Id /\ request[next_id].state = "unmade"
      BY <1>1, <2>3, IdsArePositive DEF Admit, IdInv, Unmade
    <3>2. SameExecutions
      <4>1. request' = [request EXCEPT ![next_id] = [Unmade EXCEPT !.call = mine[c].call]]
        BY <2>3 DEF Admit, FreshId
      <4> QED BY <1>1, <3>1, <4>1 DEF ShapeInv, SameExecutions, Unmade
    <3> QED BY <1>2, <3>1, <3>2
  <2>4. CASE PermitExpires(c) \/ SendFails(c) \/ Forget(c)
    <3>1. SameExecutions /\ pc[c] \in InCall /\ Return(c, "failed")
      BY <1>4, <2>4 DEF PermitExpires, SendFails, Forget, InCall, CallerSteps
    <3> QED BY <3>1, ReturnRefines
  <2>5. CASE SendRequest(c)
    <3>1. mine[c].id \in Id /\ request[mine[c].id].state = "unmade"
      BY <1>1, <2>5 DEF SendRequest, CallInv, InHand, Holding
    <3>2. SameExecutions
      BY <1>1, <2>5, <3>1 DEF SendRequest, ShapeInv, Requests, SameExecutions
    <3> QED BY <1>2, <2>5, <3>2 DEF SendRequest
  <2>6. CASE Receive(c)
    <3> DEFINE id == mine[c].id
    <3>1. SameExecutions /\ pc[c] \in InCall
      BY <1>5, <2>6 DEF Receive, InCall, CallerSteps
    <3>2. id \in Id /\ request[id].call = mine[c].call /\ request[id].slot # Open
      BY <1>1, <2>6 DEF Receive, CallInv, InHand, Holding, Open
    <3>3. request[id].slot.result = "ok" => request[id].state = "executed"
      BY <1>1, <3>2 DEF AnswerInv, Honest
    <3>4. \/ UNCHANGED outcome
          \/ Return(c, IF request[id].slot.result = "ok" THEN "ok" ELSE "failed")
      BY <2>6 DEF Receive
    <3> QED BY <1>2, <3>1, <3>2, <3>3, <3>4, ReturnRefines
  <2>7. CASE AwaitExpires(c) \/ Retry(c) \/ CloseBegin(c) \/ CloseEnd(c)
    BY <1>2, <1>4, <2>7 DEF AwaitExpires, Retry, CloseBegin, CloseEnd
  <2>8. CASE Abandon(c)
    <3>1. SameExecutions /\ pc[c] \in InCall /\ Return(c, "failed")
      BY <1>5, <2>8 DEF Abandon
    <3> QED BY <3>1, ReturnRefines
  <2> QED BY <1>6, <2>1, <2>2, <2>3, <2>4, <2>5, <2>6, <2>7, <2>8 DEF Advance
<1>7. CASE DropClient \/ Writer \/ WriterFails \/ ReaderCancelled \/ QueuePong \/ Emit \/ Hangup
  <2>1. UNCHANGED request /\ UNCHANGED outcome
    BY <1>7 DEF DropClient, Writer, WriterTake, WriterCancelled, WriterFails, WriterStops,
                ReaderCancelled, QueuePong, Emit, Hangup
  <2> QED BY <1>2, <1>4, <2>1
<1>8. CASE ReadIncoming \/ FailPending
  <2>1. UNCHANGED outcome
    BY <1>8 DEF ReadIncoming, FailPending
  <2>2. SameExecutions
    <3>1. CASE ReadIncoming
      <4> DEFINE s == incoming[NextIncoming].slot
      <4>1. \A id \in Id : request'[id] \in {request[id], [request[id] EXCEPT !.slot = s]}
        BY <3>1 DEF ReadIncoming, Fill
      <4> HIDE DEF s
      <4> QED BY <1>1, <4>1 DEF ShapeInv, Requests, SameExecutions
    <3>2. CASE FailPending
      <4>1. \A id \in Id : \E s : request'[id] \in {request[id], [request[id] EXCEPT !.slot = s]}
        BY <3>2 DEF FailPending, Fill
      <4> QED BY <1>1, <4>1 DEF ShapeInv, Requests, SameExecutions
    <3> QED BY <1>8, <3>1, <3>2
  <2> QED BY <1>2, <2>1, <2>2
<1>9. CASE WriterSent
  <2>1. UNCHANGED outcome
    BY <1>9 DEF WriterSent, WriterStops
  <2>2. CASE hand[1].kind = "text"
    <3>1. hand[1].id \in Id /\ request[hand[1].id].state = "queued"
      <4>1. hand \in Seq(Commands) /\ 1 \in DOMAIN hand
        BY <1>1, <1>9 DEF WriterSent, ShapeInv
      <4> QED BY <1>1, <2>2, <4>1 DEF WireInv
    <3>2. request' = [request EXCEPT ![hand[1].id].state = "sent"]
      BY <1>9, <2>2 DEF WriterSent
    <3>3. SameExecutions
      BY <1>1, <3>1, <3>2 DEF ShapeInv, Requests, SameExecutions
    <3> QED BY <1>2, <2>1, <3>3
  <2>3. CASE hand[1].kind # "text"
    BY <1>2, <1>4, <1>9, <2>1, <2>3 DEF WriterSent
  <2> QED BY <2>2, <2>3
<1>10. ASSUME NEW id \in Id, Serve(id) \/ Refuse(id)
       PROVE  [RemoteCalls!CallNext]_(RemoteCalls!callVars)
  <2>1. CASE Serve(id)
    BY <2>1, ServeRefines
  <2>2. CASE Refuse(id)
    <3>1. SameExecutions
      BY <1>1, <2>2 DEF Refuse, ShapeInv, Requests, SameExecutions
    <3> QED BY <1>2, <2>2, <3>1 DEF Refuse
  <2> QED BY <1>10, <2>1, <2>2
<1>11. CASE UNCHANGED vars
  BY <1>2, <1>4, <1>11 DEF vars
<1> QED BY <1>6, <1>7, <1>8, <1>9, <1>10, <1>11 DEF Next, Server, Reader

\* The client implements the calls its users rely on: each is executed at most once,
\* whatever is retried, refused, late or torn down, and has been if it succeeds
\* (app_server.rs:418-553).
THEOREM ClientImplementsRemoteCall == Spec => ImplementsRemoteCall
<1>1. Init => RemoteCalls!CallInit
  BY InitRefines
<1>2. LeakInv /\ [Next]_vars => [RemoteCalls!CallNext]_(RemoteCalls!callVars)
  BY NextRefines
<1> QED BY <1>1, <1>2, Invariance, PTL DEF Spec, ImplementsRemoteCall, RemoteCalls!CallSpec

-----------------------------------------------------------------------------
(* The order of notifications and answers *)

Counted == {"event", "ping"}

\* Notifications and pings taken from the stream, the ping in the reader's hands included.
Taken == IF reader = "pong" THEN handled + 1 ELSE handled

\* f[n] is the number of notifications and pings up to the n-th message on its way: an
\* answer follows all that were sent before it, and behind the last message are those
\* the server has sent by now.
InOrder(f) ==
  /\ f[0] = Taken
  /\ \A n \in DOMAIN incoming :
       f[n] = IF incoming[n].kind \in Counted THEN f[n - 1] + 1 ELSE f[n - 1]
  /\ \A n \in DOMAIN incoming : incoming[n].slot.after <= f[n]
  /\ reader # "ended" => f[Len(incoming)] = emitted

OrderInv ==
  /\ \E f \in [0..Len(incoming) -> 0..emitted] : InOrder(f)
  /\ handled \in Nat
  /\ reader = "ended" => incoming = <<>>
  /\ \A id \in Id : request[id].slot.after <= handled

\* Results are dropped, or stay.
FewerResults == \A id \in Id : request'[id].slot \in {request[id].slot, Open}

LEMMA OrderKept ==
  ASSUME OrderInv, FewerResults, UNCHANGED arrivals PROVE OrderInv'
<1>1. UNCHANGED <<reader, handled, incoming, emitted>>
  BY DEF arrivals
<1>2. \A f : InOrder(f) => InOrder(f)'
  BY <1>1 DEF InOrder, Taken
<1>3. \A id \in Id : request'[id].slot.after <= handled'
  BY <1>1 DEF OrderInv, FewerResults, Open
<1> QED BY <1>1, <1>2, <1>3 DEF OrderInv

\* A message is appended: an answer, or a signal that is counted or not.
LEMMA AppendKeepsOrder ==
  ASSUME ShapeInv, OrderInv, FewerResults, NEW message, reader # "ended",
         incoming' = Append(incoming, message), UNCHANGED <<reader, handled>>,
         message.slot.after \in Int,
         message.slot.after <= emitted,
         emitted' = IF message.kind \in Counted THEN emitted + 1 ELSE emitted
  PROVE  OrderInv'
<1>1. PICK f \in [0..Len(incoming) -> 0..emitted] : InOrder(f)
  BY DEF OrderInv
<1>2. /\ incoming \in Seq(Messages) /\ emitted \in Nat /\ emitted' \in Nat /\ emitted <= emitted'
      /\ Len(incoming) \in Nat /\ DOMAIN incoming = 1..Len(incoming)
  BY DEF ShapeInv
<1>3. /\ Len(incoming') = Len(incoming) + 1 /\ DOMAIN incoming' = 1..(Len(incoming) + 1)
      /\ incoming'[Len(incoming) + 1] = message
      /\ \A n \in DOMAIN incoming : incoming'[n] = incoming[n]
  BY <1>2
<1>4. PICK g \in [0..Len(incoming') -> 0..emitted'] :
        g = [n \in 0..(Len(incoming) + 1) |-> IF n = Len(incoming) + 1 THEN emitted' ELSE f[n]]
  <2> DEFINE h == [n \in 0..(Len(incoming) + 1) |->
                    IF n = Len(incoming) + 1 THEN emitted' ELSE f[n]]
  <2>1. h \in [0..Len(incoming') -> 0..emitted']
    BY <1>1, <1>2, <1>3
  <2> QED BY <2>1
<1>5. /\ g[0] = f[0] /\ g[Len(incoming)] = f[Len(incoming)] /\ g[Len(incoming) + 1] = emitted'
      /\ \A n \in DOMAIN incoming : g[n] = f[n] /\ g[n - 1] = f[n - 1]
  <2>1. \A n \in 0..Len(incoming) : g[n] = f[n]
    BY <1>2, <1>4
  <2>2. \A n \in DOMAIN incoming : n \in 0..Len(incoming) /\ n - 1 \in 0..Len(incoming)
    BY <1>2
  <2>3. 0 \in 0..Len(incoming) /\ Len(incoming) \in 0..Len(incoming)
    BY <1>2
  <2>4. g[Len(incoming) + 1] = emitted'
    BY <1>2, <1>4
  <2> QED BY <2>1, <2>2, <2>3, <2>4
<1>6. f[Len(incoming)] = emitted
  BY <1>1 DEF InOrder
<1>7. InOrder(g)'
  <2>1. g[0] = Taken' /\ g[Len(incoming')] = emitted'
    BY <1>1, <1>3, <1>5 DEF InOrder, Taken
  <2>2. ASSUME NEW n \in DOMAIN incoming'
        PROVE  /\ g[n] = IF incoming'[n].kind \in Counted THEN g[n - 1] + 1 ELSE g[n - 1]
               /\ incoming'[n].slot.after <= g[n]
    <3>1. CASE n \in DOMAIN incoming
      BY <1>1, <1>3, <1>5, <3>1 DEF InOrder
    <3>2. CASE n = Len(incoming) + 1
      <4>1. g[n] = emitted' /\ g[n - 1] = emitted /\ incoming'[n] = message
        BY <1>2, <1>3, <1>5, <1>6, <3>2
      <4>2. message.slot.after <= emitted'
        BY <1>2
      <4> QED BY <4>1, <4>2
    <3> QED BY <1>2, <1>3, <3>1, <3>2
  <2> QED BY <2>1, <2>2 DEF InOrder
<1>8. \A id \in Id : request'[id].slot.after <= handled'
  BY DEF OrderInv, FewerResults, Open
<1> QED BY <1>4, <1>7, <1>8 DEF OrderInv

LEMMA ServeKeepsOrder ==
  ASSUME LeakInv, OrderInv, NEW id \in Id, Serve(id) \/ Refuse(id) PROVE OrderInv'
<1>1. ShapeInv /\ UNCHANGED <<reader, handled, emitted>>
  BY DEF LeakInv, ClientInv, Serve, Refuse
<1>2. FewerResults
  <2>1. PICK new \in {"executed", "refused"} : request' = [request EXCEPT ![id].state = new]
    BY DEF Serve, Refuse
  <2>2. \A i \in Id : request[i] \in Requests
    BY <1>1 DEF ShapeInv
  <2>3. \A r \in Requests : [r EXCEPT !.state = new].slot = r.slot
    BY DEF Requests
  <2>4. \A i \in Id : request'[i] \in {request[i], [request[i] EXCEPT !.state = new]}
    BY <1>1, <2>1 DEF ShapeInv
  <2> QED BY <2>2, <2>3, <2>4 DEF FewerResults
<1>3. CASE UNCHANGED incoming
  BY <1>1, <1>2, <1>3, OrderKept DEF arrivals
<1>4. ASSUME NEW result, incoming' = Append(incoming, Answer(id, result)), ~HungUp
      PROVE  OrderInv'
  <2>1. reader # "ended"
    BY <1>4 DEF HungUp
  <2>2. /\ Answer(id, result).slot.after <= emitted /\ Answer(id, result).slot.after \in Int
        /\ Answer(id, result).kind \notin Counted
    BY <1>1 DEF Answer, Counted, ShapeInv
  <2> QED BY <1>1, <1>2, <1>4, <2>1, <2>2, AppendKeepsOrder
<1> QED BY <1>3, <1>4 DEF Serve, Refuse

LEMMA SignalKeepsOrder == ASSUME LeakInv, OrderInv, Emit \/ Hangup PROVE OrderInv'
<1>1. ShapeInv /\ ~HungUp /\ UNCHANGED <<reader, handled, request>>
  BY DEF LeakInv, ClientInv, Emit, Hangup
<1>2. PICK kind : /\ incoming' = Append(incoming, Signal(kind))
                  /\ emitted' = IF kind \in Counted THEN emitted + 1 ELSE emitted
  BY DEF Emit, Hangup, Counted
<1>3. /\ Signal(kind).slot.after <= emitted /\ Signal(kind).slot.after \in Int
      /\ Signal(kind).kind = kind
      /\ FewerResults /\ reader # "ended"
  BY <1>1 DEF Signal, Open, ShapeInv, FewerResults, HungUp
<1> QED BY <1>1, <1>2, <1>3, AppendKeepsOrder

\* The first message goes to the reader: what it counts has been counted.
LEMMA ReadIncomingKeepsOrder == ASSUME LeakInv, OrderInv, ReadIncoming PROVE OrderInv'
<1> DEFINE message == incoming[1]
<1>1. ShapeInv /\ AnswerInv
  BY DEF LeakInv, ClientInv
<1>2. /\ reader = "select" /\ incoming # <<>> /\ incoming' = Tail(incoming) /\ emitted' = emitted
      /\ handled' = IF message.kind = "event" THEN handled + 1 ELSE handled
      /\ reader' = CASE message.kind = "ping" -> "pong"
                     [] message.kind = "end" -> "fail"
                     [] OTHER -> "select"
      /\ request' = [id \in Id |-> IF id \in (pending \intersect {message.id}) \intersect Listening
                                   THEN [request[id] EXCEPT !.slot = message.slot] ELSE request[id]]
  BY <1>1, FirstIsTaken DEF ReadIncoming, NextIncoming, Fill, wires
<1>3. /\ message \in Messages /\ AboutItsRequest(message)
      /\ Len(incoming) \in Nat \ {0} /\ DOMAIN incoming = 1..Len(incoming)
      /\ Len(incoming') = Len(incoming) - 1 /\ DOMAIN incoming' = 1..(Len(incoming) - 1)
      /\ \A n \in DOMAIN incoming' : n + 1 \in DOMAIN incoming /\ incoming'[n] = incoming[n + 1]
  <2>1. incoming \in Seq(Messages) /\ \A n \in DOMAIN incoming : AboutItsRequest(incoming[n])
    BY <1>1 DEF ShapeInv, AnswerInv
  <2> QED BY <1>2, <2>1
<1>4. PICK f \in [0..Len(incoming) -> 0..emitted] : InOrder(f)
  BY DEF OrderInv
<1>5. f[1] = Taken' /\ message.slot.after <= f[1]
  <2>1. /\ f[0] = handled /\ message.slot.after <= f[1]
        /\ f[1] = IF message.kind \in Counted THEN f[0] + 1 ELSE f[0]
    BY <1>2, <1>3, <1>4 DEF InOrder, Taken
  <2>2. handled \in Nat /\ message.kind \in Kinds
    BY <1>3 DEF OrderInv, Messages
  <2> QED BY <1>2, <2>1, <2>2 DEF Taken, Counted, Kinds
<1>6. PICK g \in [0..Len(incoming') -> 0..emitted'] :
        g = [n \in 0..(Len(incoming) - 1) |-> f[n + 1]]
  <2> DEFINE h == [n \in 0..(Len(incoming) - 1) |-> f[n + 1]]
  <2>1. h \in [0..Len(incoming') -> 0..emitted']
    BY <1>2, <1>3, <1>4
  <2> QED BY <2>1
<1>7. InOrder(g)'
  <2>1. g[0] = Taken' /\ g[Len(incoming')] = f[Len(incoming)]
    BY <1>3, <1>5, <1>6
  <2>2. ASSUME NEW n \in DOMAIN incoming'
        PROVE  /\ g[n] = IF incoming'[n].kind \in Counted THEN g[n - 1] + 1 ELSE g[n - 1]
               /\ incoming'[n].slot.after <= g[n]
    <3>1. n + 1 \in DOMAIN incoming /\ incoming'[n] = incoming[n + 1] /\ n \in 1..(Len(incoming) - 1)
      BY <1>3
    <3>2. g[n] = f[n + 1] /\ g[n - 1] = f[n]
      BY <1>3, <1>6, <3>1
    <3>3. /\ f[n + 1] = IF incoming[n + 1].kind \in Counted THEN f[(n + 1) - 1] + 1
                                                           ELSE f[(n + 1) - 1]
          /\ incoming[n + 1].slot.after <= f[n + 1]
      BY <1>4, <3>1 DEF InOrder
    <3>4. (n + 1) - 1 = n
      BY <3>1
    <3> QED BY <3>1, <3>2, <3>3, <3>4
  <2>3. f[Len(incoming)] = emitted
    BY <1>2, <1>4 DEF InOrder
  <2> QED BY <1>2, <2>1, <2>2, <2>3 DEF InOrder
<1>8. handled' \in Nat /\ handled <= handled' /\ reader' # "ended"
  BY <1>2 DEF OrderInv
<1>9. ASSUME NEW id \in Id PROVE request'[id].slot.after <= handled'
  <2>1. request[id].slot.after <= handled /\ request[id] \in Requests
    BY <1>1 DEF OrderInv, ShapeInv
  <2>2. request[id].slot.after \in Int
    BY <2>1, ClientAssumption DEF Requests, Slots, Open
  <2>3. CASE request'[id] = request[id]
    BY <1>8, <2>1, <2>2, <2>3 DEF OrderInv
  <2>4. CASE id = message.id /\ request'[id] = [request[id] EXCEPT !.slot = message.slot]
    <3>1. message.kind = "answer"
      BY <1>3, <2>4, IdsArePositive DEF AboutItsRequest
    <3>2. Taken' = handled'
      BY <1>2, <3>1 DEF Taken
    <3>3. request'[id].slot = message.slot
      BY <2>1, <2>4 DEF Requests
    <3> QED BY <1>5, <3>2, <3>3
  <2> QED BY <1>2, <2>3, <2>4
<1> QED BY <1>6, <1>7, <1>8, <1>9 DEF OrderInv

\* The reader turns away, has queued its Pong, or ends.
LEMMA ReaderTurnsKeepsOrder ==
  ASSUME LeakInv, OrderInv, ReaderCancelled \/ QueuePong \/ FailPending PROVE OrderInv'
<1>1. ShapeInv /\ emitted' = emitted /\ emitted \in Nat
  BY DEF LeakInv, ClientInv, ShapeInv, ReaderCancelled, QueuePong, FailPending
<1>2. PICK f \in [0..Len(incoming) -> 0..emitted] : InOrder(f)
  BY DEF OrderInv
<1>3. CASE ReaderCancelled \/ QueuePong
  <2>1. /\ UNCHANGED <<incoming, request>> /\ Taken' = Taken /\ reader' # "ended" /\ reader # "ended"
        /\ handled' \in Nat /\ handled <= handled'
    BY <1>3 DEF ReaderCancelled, QueuePong, Taken, OrderInv
  <2>2. InOrder(f)'
    BY <1>1, <1>2, <2>1 DEF InOrder
  <2>3. \A id \in Id : request[id].slot.after <= handled'
    <3>1. \A id \in Id : request[id].slot.after <= handled /\ request[id].slot.after \in Int
      BY <1>1, ClientAssumption DEF OrderInv, ShapeInv, Requests, Slots, Open
    <3> QED BY <2>1, <3>1 DEF OrderInv
  <2> QED BY <1>1, <1>2, <2>1, <2>2, <2>3 DEF OrderInv
<1>4. CASE FailPending
  <2>1. /\ reader = "fail" /\ reader' = "ended" /\ incoming' = <<>> /\ handled' = handled
        /\ request' = [id \in Id |-> IF id \in pending \intersect Listening
                         THEN [request[id] EXCEPT
                                 !.slot = [result |-> "error", call |-> request[id].call, after |-> 0]]
                         ELSE request[id]]
    BY <1>4 DEF FailPending, Fill
  <2>2. f[0] = Taken /\ f[0] \in 0..emitted /\ Taken' = Taken
    <3>1. Len(incoming) \in Nat
      BY <1>1, LenProperties DEF ShapeInv
    <3>2. f[0] = Taken /\ f[0] \in 0..emitted
      BY <1>2, <3>1 DEF InOrder
    <3>3. Taken' = Taken
      BY <2>1 DEF Taken
    <3> QED BY <3>2, <3>3
  <2>3. PICK g \in [0..Len(incoming') -> 0..emitted'] : g = [n \in 0..0 |-> f[0]]
    <3>1. [n \in 0..0 |-> f[0]] \in [0..Len(incoming') -> 0..emitted']
      BY <1>1, <2>1, <2>2
    <3> QED BY <3>1
  <2>4. InOrder(g)'
    BY <2>1, <2>2, <2>3 DEF InOrder
  <2>5. ASSUME NEW id \in Id PROVE request'[id].slot.after <= handled'
    <3>1. request[id].slot.after <= handled /\ request[id] \in Requests /\ handled \in Nat
      BY <1>1 DEF OrderInv, ShapeInv
    <3>2. CASE request'[id] = request[id]
      BY <2>1, <3>1, <3>2
    <3>3. CASE request'[id].slot = [result |-> "error", call |-> request[id].call, after |-> 0]
      BY <2>1, <3>1, <3>3
    <3>4. \A s : [request[id] EXCEPT !.slot = s].slot = s
      BY <3>1 DEF Requests
    <3> QED BY <2>1, <3>2, <3>3, <3>4
  <2> QED BY <2>1, <2>3, <2>4, <2>5 DEF OrderInv
<1> QED BY <1>3, <1>4

LEMMA OrderNext == ASSUME LeakInv, OrderInv, [Next]_vars PROVE OrderInv'
<1>1. ShapeInv
  BY DEF LeakInv, ClientInv
<1>2. \A i \in Id : request[i] \in Requests
  BY <1>1 DEF ShapeInv
<1>3. CASE UNCHANGED <<arrivals, request>>
  BY <1>3, OrderKept DEF FewerResults
<1>4. ASSUME NEW c \in Caller, BeginCall(c) \/ Advance(c) \/ Abandon(c) \/ CloseBegin(c)
      PROVE  OrderInv'
  <2>1. UNCHANGED arrivals
    BY <1>4 DEF BeginCall, Advance, CheckOpen, Admit, PermitExpires, SendRequest, SendFails, Receive,
                AwaitExpires, Forget, Retry, CloseEnd, Abandon, CloseBegin
  <2>2. CASE UNCHANGED request
    BY <1>3, <2>1, <2>2
  <2>3. CASE Unlisten(c)
    <3>1. NoDelivery
      BY <1>1, <2>3, UnlistenIsNoDelivery
    <3> QED BY <2>1, <3>1, OrderKept DEF FewerResults, NoDelivery
  <2>4. CASE Admit(c)
    <3>1. request' = [request EXCEPT ![FreshId] = [Unmade EXCEPT !.call = mine[c].call]]
      BY <2>4 DEF Admit
    <3>2. [Unmade EXCEPT !.call = mine[c].call].slot = Open
      BY DEF Unmade
    <3>3. \A i \in Id : request'[i] \in {request[i], [Unmade EXCEPT !.call = mine[c].call]}
      BY <1>1, <3>1 DEF ShapeInv
    <3> QED BY <2>1, <3>2, <3>3, OrderKept DEF FewerResults
  <2>5. CASE SendRequest(c)
    <3>1. request' = [request EXCEPT ![mine[c].id].state = "queued"]
      BY <2>5 DEF SendRequest
    <3>2. \A i \in Id : request'[i] \in {request[i], [request[i] EXCEPT !.state = "queued"]}
      BY <1>1, <3>1 DEF ShapeInv
    <3>3. \A r \in Requests : [r EXCEPT !.state = "queued"].slot = r.slot
      BY DEF Requests
    <3> QED BY <1>2, <2>1, <3>2, <3>3, OrderKept DEF FewerResults
  <2> QED
    BY <1>4, <2>2, <2>3, <2>4, <2>5
       DEF BeginCall, Advance, CheckOpen, PermitExpires, SendFails, Receive, AwaitExpires, Forget,
           Retry, CloseEnd, Abandon, CloseBegin
<1>5. CASE DropClient
  BY <1>3, <1>5 DEF DropClient
<1>6. CASE Writer \/ WriterFails
  BY <1>3, <1>6 DEF Writer, WriterTake, WriterCancelled, WriterFails, WriterStops
<1>7. CASE WriterSent
  <2>1. UNCHANGED arrivals /\ \/ UNCHANGED request
                              \/ request' = [request EXCEPT ![hand[1].id].state = "sent"]
    BY <1>7 DEF WriterSent, WriterStops
  <2>2. \A i \in Id : request'[i] \in {request[i], [request[i] EXCEPT !.state = "sent"]}
    BY <1>1, <2>1 DEF ShapeInv
  <2>3. \A r \in Requests : [r EXCEPT !.state = "sent"].slot = r.slot
    BY DEF Requests
  <2> QED BY <1>2, <2>1, <2>2, <2>3, OrderKept DEF FewerResults
<1>8. CASE Reader
  BY <1>8, ReadIncomingKeepsOrder, ReaderTurnsKeepsOrder DEF Reader
<1>9. CASE Emit \/ Hangup
  BY <1>9, SignalKeepsOrder
<1>10. ASSUME NEW id \in Id, Serve(id) \/ Refuse(id) PROVE OrderInv'
  BY <1>10, ServeKeepsOrder
<1>11. CASE UNCHANGED vars
  BY <1>3, <1>11 DEF vars, arrivals
<1> QED BY <1>4, <1>5, <1>6, <1>7, <1>8, <1>9, <1>10, <1>11 DEF Next, Server

LEMMA OrderInit == ASSUME Init PROVE OrderInv
<1>1. PICK f \in [0..Len(incoming) -> 0..emitted] : f = [n \in 0..0 |-> 0]
  <2>1. [n \in 0..0 |-> 0] \in [0..Len(incoming) -> 0..emitted]
    BY DEF Init
  <2> QED BY <2>1
<1>2. InOrder(f)
  BY <1>1 DEF Init, InOrder, Taken
<1> QED BY <1>2 DEF Init, OrderInv, Unmade, Open

\* When a caller has its result, every notification that the server sent before the
\* answer has been handled: one task reads and broadcasts them in the order of their
\* arrival (app_server.rs:600-665).
THEOREM NotificationsComeFirst == Spec => []NotificationsFirst
<1>1. LeakInv /\ OrderInv /\ [Next]_vars => OrderInv'
  BY OrderNext
<1>2. OrderInv => NotificationsFirst
  BY DEF OrderInv, NotificationsFirst
<1> QED BY <1>1, <1>2, OrderInit, Invariance, PTL DEF Spec

-----------------------------------------------------------------------------
(* Types and bounds *)

\* What ClientTypeOK says beyond the invariants above, and why the attempts are bounded.
BoundsInv ==
  /\ cancelled \in BOOLEAN /\ permits \in Nat
  /\ next_id <= MaxCalls * READ_ATTEMPTS + 1
  /\ Len(queue) <= WRITER_QUEUE
  /\ writer \in {"running", "ended"} /\ reader \in {"select", "pong", "fail", "ended"}
  /\ \A c \in Caller : mine[c].attempt \in 0..READ_ATTEMPTS
  /\ \A c \in Caller : pc[c] = "sleep" => mine[c].attempt < READ_ATTEMPTS
  /\ abandoned \subseteq Id

\* Attempts and whoever waits to repeat one.
Attempts ==
  /\ \A c \in Caller : mine[c].attempt \in 0..READ_ATTEMPTS
  /\ \A c \in Caller : pc[c] = "sleep" => mine[c].attempt < READ_ATTEMPTS

LEMMA StepKeepsAttempts ==
  ASSUME ShapeInv, Attempts, NEW c \in Caller, NEW step, Goto(c, step),
         NEW own, own.attempt \in 0..READ_ATTEMPTS,
         step = "sleep" => own.attempt < READ_ATTEMPTS,
         mine' = [mine EXCEPT ![c] = own]
  PROVE  Attempts'
<1>1. \A d \in Caller : /\ mine'[d] = IF d = c THEN own ELSE mine[d]
                        /\ pc'[d] = IF d = c THEN step ELSE pc[d]
  BY DEF ShapeInv, Goto
<1> QED BY <1>1 DEF Attempts

LEMMA SameKeepsAttempts ==
  ASSUME ShapeInv, Attempts, NEW c \in Caller, NEW step, Goto(c, step), UNCHANGED mine,
         step = "sleep" => mine[c].attempt < READ_ATTEMPTS
  PROVE  Attempts'
<1>1. \A d \in Caller : pc'[d] = IF d = c THEN step ELSE pc[d]
  BY DEF ShapeInv, Goto
<1> QED BY <1>1 DEF Attempts

LEMMA CallerKeepsAttempts ==
  ASSUME ShapeInv, Attempts, NEW c \in Caller,
         BeginCall(c) \/ Advance(c) \/ Abandon(c) \/ CloseBegin(c)
  PROVE  Attempts'
<1>1. /\ NoCall.attempt \in 0..READ_ATTEMPTS /\ READ_ATTEMPTS \in Nat \ {0}
      /\ mine \in [Caller -> InMine]
  BY ClientAssumption DEF NoCall, ShapeInv
<1>2. ASSUME NEW result, Return(c, result) PROVE Attempts'
  <2>1. Goto(c, "idle") /\ mine' = [mine EXCEPT ![c] = NoCall] /\ "idle" # "sleep"
    BY <1>2 DEF Return
  <2> QED BY <1>1, <2>1, StepKeepsAttempts
<1>3. CASE BeginCall(c)
  <2>1. PICK k : mine' = [mine EXCEPT ![c] = [call |-> k, attempt |-> 1, id |-> 0]]
    BY <1>3 DEF BeginCall
  <2>2. PICK own : own = [call |-> k, attempt |-> 1, id |-> 0]
    OBVIOUS
  <2>3. own.attempt \in 0..READ_ATTEMPTS /\ mine' = [mine EXCEPT ![c] = own]
    BY <1>1, <2>1, <2>2
  <2>4. Goto(c, "check") /\ "check" # "sleep"
    BY <1>3 DEF BeginCall
  <2> QED BY <2>3, <2>4, StepKeepsAttempts
<1>4. CASE Admit(c)
  <2>1. PICK own : own = [mine[c] EXCEPT !.id = FreshId]
    OBVIOUS
  <2>2. mine' = [mine EXCEPT ![c] = own] /\ Goto(c, "send") /\ "send" # "sleep"
    BY <1>1, <1>4, <2>1 DEF Admit
  <2>3. own.attempt = mine[c].attempt
    BY <1>1, <2>1 DEF InMine
  <2>4. own.attempt \in 0..READ_ATTEMPTS
    BY <2>3 DEF Attempts
  <2> QED BY <2>2, <2>4, StepKeepsAttempts
<1>5. CASE Retry(c)
  <2>1. PICK own : own = [call |-> mine[c].call, attempt |-> mine[c].attempt + 1, id |-> 0]
    OBVIOUS
  <2>2. mine' = [mine EXCEPT ![c] = own] /\ Goto(c, "check") /\ "check" # "sleep"
    BY <1>1, <1>5, <2>1 DEF Retry
  <2>3. mine[c].attempt \in 0..READ_ATTEMPTS /\ mine[c].attempt < READ_ATTEMPTS
    BY <1>5 DEF Retry, Attempts
  <2>4. own.attempt \in 0..READ_ATTEMPTS
    BY <1>1, <2>1, <2>3
  <2> QED BY <2>2, <2>4, StepKeepsAttempts
<1>6. CASE Receive(c)
  <2> DEFINE result == request[mine[c].id].slot.result
  <2>1. CASE MayRetry(c, result) /\ Goto(c, "sleep") /\ UNCHANGED mine
    BY <2>1, SameKeepsAttempts DEF MayRetry
  <2> QED BY <1>2, <1>6, <2>1 DEF Receive
<1>7. CASE CheckOpen(c) \/ SendRequest(c) \/ AwaitExpires(c) \/ CloseEnd(c) \/ CloseBegin(c)
  <2>1. ASSUME NEW step \in CallerSteps \ {"sleep"}, Goto(c, step), UNCHANGED mine PROVE Attempts'
    BY <2>1, SameKeepsAttempts
  <2> QED
    BY <1>2, <1>7, <2>1
       DEF CheckOpen, SendRequest, AwaitExpires, CloseEnd, CloseBegin, CallerSteps
<1>8. CASE PermitExpires(c) \/ SendFails(c) \/ Forget(c) \/ Abandon(c)
  BY <1>2, <1>8 DEF PermitExpires, SendFails, Forget, Abandon
<1> QED BY <1>3, <1>4, <1>5, <1>6, <1>7, <1>8 DEF Advance

\* A command goes into the queue only where there is room.
LEMMA RoomForOne ==
  ASSUME ShapeInv, NEW command, HasRoom, queue' = Append(queue, command)
  PROVE  Len(queue') <= WRITER_QUEUE
BY ClientAssumption DEF ShapeInv, HasRoom

LEMMA CallerKeepsBounds ==
  ASSUME ShapeInv, BoundsInv, NEW c \in Caller,
         BeginCall(c) \/ Advance(c) \/ Abandon(c) \/ CloseBegin(c)
  PROVE  BoundsInv'
<1>1. UNCHANGED <<writer, reader>> /\ cancelled' \in {cancelled, TRUE}
  BY DEF BeginCall, Advance, CheckOpen, Admit, PermitExpires, SendRequest, SendFails, Receive,
         AwaitExpires, Forget, Retry, CloseEnd, Abandon, CloseBegin, limiter, wires, arrivals
<1>2. permits' \in Nat
  <2>1. permits' \in {permits, permits + 1} \/ (permits > 0 /\ permits' = permits - 1)
    BY DEF BeginCall, Advance, CheckOpen, Admit, PermitExpires, SendRequest, SendFails, Receive,
           AwaitExpires, Forget, Retry, CloseEnd, Abandon, CloseBegin, limiter
  <2> QED BY <2>1 DEF BoundsInv
<1>3. next_id' <= MaxCalls * READ_ATTEMPTS + 1
  <2>1. next_id' = next_id \/ (next_id \in Id /\ next_id' = next_id + 1)
    BY DEF BeginCall, Advance, CheckOpen, Admit, PermitExpires, SendRequest, SendFails, Receive,
           AwaitExpires, Forget, Retry, CloseEnd, Abandon, CloseBegin, limiter
  <2>2. CASE next_id \in Id /\ next_id' = next_id + 1
    <3>1. MaxCalls * READ_ATTEMPTS \in Int
      BY ClientAssumption
    <3> DEFINE HighestId == MaxCalls * READ_ATTEMPTS
    <3>2. next_id \in 1..HighestId /\ HighestId \in Int
      BY <2>2, <3>1 DEF Id
    <3> HIDE DEF HighestId
    <3>3. next_id + 1 <= HighestId + 1
      BY <3>2
    <3> QED BY <2>2, <3>3 DEF HighestId
  <2> QED BY <2>1, <2>2 DEF BoundsInv
<1>4. Len(queue') <= WRITER_QUEUE
  <2>1. UNCHANGED queue \/ \E command : HasRoom /\ queue' = Append(queue, command)
    BY DEF BeginCall, Advance, CheckOpen, Admit, PermitExpires, SendRequest, SendFails, Receive,
           AwaitExpires, Forget, Retry, CloseEnd, Abandon, CloseBegin, wires
  <2> QED BY <2>1, RoomForOne DEF BoundsInv
<1>5. Attempts'
  BY CallerKeepsAttempts DEF BoundsInv, Attempts
<1>6. abandoned' \subseteq Id
  <2>1. abandoned' \subseteq abandoned \union pending
    BY DEF BeginCall, Advance, CheckOpen, Admit, PermitExpires, SendRequest, SendFails, Receive,
           AwaitExpires, Forget, Retry, CloseEnd, Abandon, CloseBegin
  <2> QED BY <2>1 DEF BoundsInv, ShapeInv
<1> QED BY <1>1, <1>2, <1>3, <1>4, <1>5, <1>6 DEF BoundsInv, Attempts

LEMMA OthersKeepBounds ==
  ASSUME ShapeInv, BoundsInv, DropClient \/ Writer \/ Reader \/ Server PROVE BoundsInv'
<1>1. UNCHANGED <<permits, next_id, mine>>
  BY DEF DropClient, Writer, WriterTake, WriterCancelled, WriterStops, Reader, ReadIncoming,
         ReaderCancelled, QueuePong, FailPending, Server, Emit, Hangup, WriterSent, WriterFails,
         Serve, Refuse, limiter, callers
<1>2. pc' = pc \/ pc' = [c \in Caller |-> "gone"]
  BY DEF DropClient, Writer, WriterTake, WriterCancelled, WriterStops, Reader, ReadIncoming,
         ReaderCancelled, QueuePong, FailPending, Server, Emit, Hangup, WriterSent, WriterFails,
         Serve, Refuse, callers
<1>3. cancelled' \in BOOLEAN /\ abandoned' \subseteq abandoned
  BY DEF DropClient, Writer, WriterTake, WriterCancelled, WriterStops, Reader, ReadIncoming,
         ReaderCancelled, QueuePong, FailPending, Server, Emit, Hangup, WriterSent, WriterFails,
         Serve, Refuse, limiter, callers, BoundsInv
<1>4. writer' \in {writer, "ended"} /\ reader' \in {reader, "select", "pong", "fail", "ended"}
  BY DEF DropClient, Writer, WriterTake, WriterCancelled, WriterStops, Reader, ReadIncoming,
         ReaderCancelled, QueuePong, FailPending, Server, Emit, Hangup, WriterSent, WriterFails,
         Serve, Refuse, wires, arrivals
<1>5. Len(queue') <= WRITER_QUEUE
  <2> DEFINE Kept == \/ UNCHANGED queue
                     \/ queue' = <<>>
                     \/ queue # <<>> /\ queue' = Tail(queue)
                     \/ \E command : HasRoom /\ queue' = Append(queue, command)
  <2>1. Kept
    <3>1. CASE DropClient \/ Writer
      BY <3>1 DEF DropClient, Writer, WriterTake, WriterCancelled, WriterStops
    <3>2. CASE Reader
      BY <3>2 DEF Reader, ReadIncoming, ReaderCancelled, QueuePong, FailPending, wires
    <3>3. CASE Server
      BY <3>3 DEF Server, Emit, Hangup, WriterSent, WriterFails, WriterStops, Serve, Refuse, wires
    <3> QED BY <3>1, <3>2, <3>3
  <2>2. CASE queue # <<>> /\ queue' = Tail(queue)
    <3>1. Len(queue') = Len(queue) - 1 /\ Len(queue) \in Nat
      BY <2>2 DEF ShapeInv
    <3> QED BY <3>1, ClientAssumption DEF BoundsInv
  <2>3. CASE queue' = <<>>
    BY <2>3, ClientAssumption
  <2> QED BY <2>1, <2>2, <2>3, RoomForOne DEF BoundsInv
<1> QED BY <1>1, <1>2, <1>3, <1>4, <1>5 DEF BoundsInv

LEMMA BoundsInit == ASSUME Init PROVE BoundsInv
<1>1. MaxCalls * READ_ATTEMPTS \in Nat
  BY ClientAssumption
<1>2. next_id <= MaxCalls * READ_ATTEMPTS + 1
  <2> DEFINE HighestId == MaxCalls * READ_ATTEMPTS
  <2>1. HighestId \in Nat
    BY <1>1
  <2> HIDE DEF HighestId
  <2>2. 1 <= HighestId + 1
    BY <2>1
  <2> QED BY <2>2 DEF HighestId, Init
<1>3. /\ permits \in Nat /\ Len(queue) <= WRITER_QUEUE
      /\ \A c \in Caller : mine[c].attempt \in 0..READ_ATTEMPTS
      /\ \A c \in Caller : pc[c] # "sleep"
  BY ClientAssumption DEF Init, NoCall
<1> QED BY <1>2, <1>3 DEF Init, BoundsInv

\* The client's variables keep to their types and bounds: ids and attempts are not
\* used up, the limiter never holds more permits than it was given, and the queue no
\* more commands than its capacity (app_server.rs:440-560).
THEOREM ClientTypeCorrect == Spec => []ClientTypeOK
<1>1. LeakInv /\ BoundsInv /\ [Next]_vars => BoundsInv'
  <2> SUFFICES ASSUME LeakInv, BoundsInv, [Next]_vars PROVE BoundsInv'
    OBVIOUS
  <2>1. ShapeInv
    BY DEF LeakInv, ClientInv
  <2>2. CASE UNCHANGED vars
    BY <2>2 DEF vars, BoundsInv
  <2> QED BY <2>1, <2>2, CallerKeepsBounds, OthersKeepBounds DEF Next
<1>2. LeakInv /\ OrderInv /\ BoundsInv => ClientTypeOK
  <2> SUFFICES ASSUME LeakInv, OrderInv, BoundsInv PROVE ClientTypeOK
    OBVIOUS
  <2>1. ShapeInv /\ NothingLeaks
    BY DEF LeakInv, ClientInv
  <2>2. permits \in 0..REQUEST_LIMIT
    <3>1. Cardinality(InFlight) \in Nat
      BY ClientAssumption, FS_Subset, FS_CardinalityType DEF InFlight
    <3> QED BY <2>1, <3>1, ClientAssumption DEF NothingLeaks, BoundsInv
  <2>3. next_id \in 1..(MaxCalls * READ_ATTEMPTS + 1)
    <3> DEFINE HighestId == MaxCalls * READ_ATTEMPTS
    <3>1. HighestId \in Int /\ next_id <= HighestId + 1
      BY ClientAssumption DEF BoundsInv
    <3> HIDE DEF HighestId
    <3>2. next_id \in 1..(HighestId + 1)
      BY <2>1, <3>1 DEF ShapeInv
    <3> QED BY <3>2 DEF HighestId
  <2>4. handled \in 0..MaxEmits
    <3>1. PICK f \in [0..Len(incoming) -> 0..emitted] : InOrder(f)
      BY DEF OrderInv
    <3>2. Len(incoming) \in Nat /\ emitted \in 0..MaxEmits
      BY <2>1 DEF ShapeInv
    <3>3. f[0] = Taken /\ f[0] \in 0..emitted
      BY <3>1, <3>2 DEF InOrder
    <3> QED BY <3>2, <3>3, ClientAssumption DEF Taken, OrderInv
  <2>5. \A c \in Caller :
          mine[c] \in [call : 0..MaxCalls, attempt : 0..READ_ATTEMPTS, id : {0} \union Id]
    <3>1. \A c \in Caller : mine[c] \in InMine /\ mine[c].attempt \in 0..READ_ATTEMPTS
      BY <2>1 DEF ShapeInv, BoundsInv
    <3> QED BY <3>1 DEF InMine
  <2>6. mine \in [Caller -> [call : 0..MaxCalls, attempt : 0..READ_ATTEMPTS, id : {0} \union Id]]
    BY <2>1, <2>5 DEF ShapeInv
  <2> QED
    BY <2>1, <2>2, <2>3, <2>4, <2>6
       DEF ShapeInv, BoundsInv, ClientTypeOK, Requests, Messages, Kinds
<1> QED
  <2>1. LeakInv /\ OrderInv /\ [Next]_vars => OrderInv'
    BY OrderNext
  <2> QED BY <1>1, <1>2, <2>1, OrderInit, BoundsInit, Invariance, PTL DEF Spec
=============================================================================
