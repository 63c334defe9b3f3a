----------------------------- MODULE AppServerClient -----------------------------
(***************************************************************************)
(* The connection to the app-server (src/src/app_server.rs): callers that  *)
(* share one client, its limiter and its map of pending requests, the task *)
(* that writes, the task that reads, and the server at the other end.      *)
(*                                                                         *)
(* A time limit may run out whenever its await has not finished.  Methods, *)
(* parameters and payloads are left out: a request is its id and the call  *)
(* it belongs to.  A select takes any of its ready branches.  The first    *)
(* request, `initialize', is a call like any other.                        *)
(***************************************************************************)
EXTENDS Integers, Sequences, FiniteSets, SequencesExt

CONSTANTS Caller,         \* tasks, each with a clone of the client
          MaxCalls,       \* bound: calls made on the connection
          ReadCalls,      \* those made by read_request
          READ_ATTEMPTS,
          REQUEST_LIMIT,
          WRITER_QUEUE,   \* commands the writer's channel holds
          MaxEmits,       \* bound: notifications and pings of the server
          ClientFaults

\* "overload"  the server refuses a request with the code for overload
\* "break"     the connection breaks, or the server ends it
\* "abandon"   a caller's own time limit drops a call half way
ClientFaultKinds == {"overload", "break", "abandon"}

ASSUME ClientAssumption ==
  /\ MaxCalls \in Nat /\ ReadCalls \subseteq 1..MaxCalls /\ READ_ATTEMPTS \in Nat \ {0}
  /\ REQUEST_LIMIT \in Nat /\ WRITER_QUEUE \in Nat /\ MaxEmits \in Nat /\ ClientFaults \subseteq ClientFaultKinds
  /\ IsFiniteSet(Caller)

VARIABLES
  cancelled, \* the cancellation token
  permits,   \* permits left in the limiter
  next_id,   \* the counter of request ids
  pending,   \* ids in the map of pending requests
  request,   \* id -> the request made under it: its call, how far it got, its channel
  queue,     \* the writer's channel
  writer,    \* the writer task: running, ended
  hand,      \* the command it is sending, if any
  reader,    \* the reader task: select, pong, fail, ended
  handled,   \* notifications and pings it has handled
  incoming,  \* the server's messages on their way
  emitted,   \* notifications and pings the server has sent
  pc,        \* caller -> where it stands
  mine,      \* caller -> its call, that call's attempt and request
  outcome,   \* call -> none, open, ok or failed
  abandoned  \* history: pending ids whose caller has dropped them

Call == 1..MaxCalls
Id == 1..(MaxCalls * READ_ATTEMPTS)
CallerSteps == {"idle", "check", "permit", "send", "await", "forget", "sleep",
                "closing", "gone"}
InCall == CallerSteps \ {"idle", "closing", "gone"}
Holding == {"send", "await"}

\* "error" stands for every error but overload, the client's own included: an answer
\* beyond the size limit, a closed connection.
Results == {"ok", "error", "overloaded"}
Open == [result |-> "open", call |-> 0, after |-> 0]
Slots == {Open} \union [result : Results, call : 0..MaxCalls, after : 0..MaxEmits]
Unmade == [call |-> 0, state |-> "unmade", slot |-> Open]
Progress == {"unmade", "queued", "sent", "executed", "refused"}
NoCall == [call |-> 0, attempt |-> 0, id |-> 0]

Text(id) == [kind |-> "text", id |-> id]
Pong == [kind |-> "pong", id |-> 0]
Close == [kind |-> "close", id |-> 0]
Commands == [kind : {"text", "pong", "close"}, id : {0} \union Id]
Answer(id, result) ==
  [kind |-> "answer", id |-> id,
   slot |-> [result |-> result, call |-> request[id].call, after |-> emitted]]
Signal(kind) == [kind |-> kind, id |-> 0, slot |-> Open]

wires == <<queue, writer, hand>>
arrivals == <<reader, handled, incoming, emitted>>
limiter == <<cancelled, permits, next_id, pending>>
callers == <<pc, mine, outcome, abandoned>>
vars == <<cancelled, permits, next_id, pending, request, queue, writer, hand, reader,
          handled, incoming, emitted, pc, mine, outcome, abandoned>>

\* A caller that is gone from the start was never there.
Init ==
  /\ cancelled = FALSE /\ permits = REQUEST_LIMIT /\ next_id = 1
  /\ pending = {} /\ request = [id \in Id |-> Unmade]
  /\ queue = <<>> /\ writer = "running" /\ hand = <<>>
  /\ reader = "select" /\ handled = 0 /\ incoming = <<>> /\ emitted = 0
  /\ pc \in [Caller -> {"idle", "gone"}] /\ mine = [c \in Caller |-> NoCall]
  /\ outcome = [k \in Call |-> "none"] /\ abandoned = {}

-----------------------------------------------------------------------------
(* Callers *)

Goto(c, step) == pc' = [pc EXCEPT ![c] = step]

\* The call ends; its local state goes.
Return(c, result) ==
  /\ Goto(c, "idle")
  /\ mine' = [mine EXCEPT ![c] = NoCall]
  /\ outcome' = [outcome EXCEPT ![mine[c].call] = result]

\* The receiver of the caller's request is consumed or dropped, with what is in it.
Unlisten(c) ==
  request' = [id \in Id |-> IF id = mine[c].id THEN [request[id] EXCEPT !.slot = Open]
                                               ELSE request[id]]

Made == {k \in Call : outcome[k] # "none"}

BeginCall(c) ==
  /\ pc[c] = "idle" /\ Made # Call
  /\ LET k == Cardinality(Made) + 1
     IN /\ mine' = [mine EXCEPT ![c] = [call |-> k, attempt |-> 1, id |-> 0]]
        /\ outcome' = [outcome EXCEPT ![k] = "open"]
  /\ Goto(c, "check")
  /\ UNCHANGED <<limiter, request, wires, arrivals, abandoned>>

CheckOpen(c) ==
  /\ pc[c] = "check"
  /\ \/ cancelled /\ Return(c, "failed")
     \/ ~cancelled /\ Goto(c, "permit") /\ UNCHANGED <<mine, outcome>>
  /\ UNCHANGED <<limiter, request, wires, arrivals, abandoned>>

\* Defect: the id of a request that is no longer pending is used again.
FreshId_Reused == CHOOSE id \in Id : id \notin pending /\ \A low \in 1..(id - 1) : low \in pending

\* Ids are counted up, never used again.
FreshId == next_id

\* A permit, an id, an entry in the map.  Each attempt of each call has an id.
Admit(c) ==
  /\ pc[c] = "permit" /\ permits > 0 /\ next_id \in Id
  /\ permits' = permits - 1
  /\ next_id' = next_id + 1
  /\ pending' = pending \union {FreshId}
  /\ request' = [request EXCEPT ![FreshId] = [Unmade EXCEPT !.call = mine[c].call]]
  /\ mine' = [mine EXCEPT ![c].id = FreshId]
  /\ Goto(c, "send")
  /\ UNCHANGED <<cancelled, wires, arrivals, outcome, abandoned>>

PermitExpires(c) ==
  /\ pc[c] = "permit"
  /\ Return(c, "failed")
  /\ UNCHANGED <<limiter, request, wires, arrivals, abandoned>>

\* Defect: the writer's channel has no bound.
HasRoom_Unbounded == writer # "ended"
HasRoom == writer # "ended" /\ Len(queue) < WRITER_QUEUE

SendRequest(c) ==
  /\ pc[c] = "send" /\ HasRoom
  /\ queue' = Append(queue, Text(mine[c].id))
  /\ request' = [request EXCEPT ![mine[c].id].state = "queued"]
  /\ Goto(c, "await")
  /\ UNCHANGED <<limiter, writer, hand, arrivals, mine, outcome, abandoned>>

\* Defect: the entry stays.
SendFails_Forgotten(c) ==
  /\ pc[c] = "send"
  /\ permits' = permits + 1
  /\ Return(c, "failed")
  /\ UNCHANGED <<cancelled, next_id, pending, request, wires, arrivals, abandoned>>

\* The writer is gone, or the time limit runs out: entry and permit are given back.
SendFails(c) ==
  /\ pc[c] = "send"
  /\ pending' = pending \ {mine[c].id}
  /\ permits' = permits + 1
  /\ Return(c, "failed")
  /\ UNCHANGED <<cancelled, next_id, request, wires, arrivals, abandoned>>

\* Defect: whatever failed is tried again, an error after the server's work included.
MayRetry_Lost(c, result) ==
  mine[c].attempt < READ_ATTEMPTS /\ result \in {"overloaded", "error"}

\* Only a read is tried again, and only when the server refused it.
MayRetry(c, result) ==
  mine[c].call \in ReadCalls /\ mine[c].attempt < READ_ATTEMPTS /\ result = "overloaded"

\* The answer, or fail_pending, has filled the channel.
Receive(c) ==
  LET result == request[mine[c].id].slot.result
  IN /\ pc[c] = "await" /\ result # "open"
     /\ permits' = permits + 1
     /\ \/ MayRetry(c, result) /\ Goto(c, "sleep") /\ UNCHANGED <<mine, outcome>>
        \/ ~MayRetry(c, result) /\ Return(c, IF result = "ok" THEN "ok" ELSE "failed")
     /\ Unlisten(c)
     /\ UNCHANGED <<cancelled, next_id, pending, wires, arrivals, abandoned>>

\* Defect: the answer is awaited for as long as the connection lives.
AwaitExpires_Unlimited(c) ==
  /\ pc[c] = "await" /\ request[mine[c].id].slot = Open /\ reader = "ended"
  /\ permits' = permits + 1
  /\ Goto(c, "forget")
  /\ UNCHANGED <<cancelled, next_id, pending, request, wires, arrivals, mine, outcome,
                 abandoned>>

\* The permit goes back first, then the map is locked.
AwaitExpires(c) ==
  /\ pc[c] = "await" /\ request[mine[c].id].slot = Open
  /\ permits' = permits + 1
  /\ Goto(c, "forget")
  /\ UNCHANGED <<cancelled, next_id, pending, request, wires, arrivals, mine, outcome,
                 abandoned>>
Forget(c) ==
  /\ pc[c] = "forget"
  /\ pending' = pending \ {mine[c].id}
  /\ Return(c, "failed")
  /\ UNCHANGED <<cancelled, permits, next_id, request, wires, arrivals, abandoned>>

Retry(c) ==
  /\ pc[c] = "sleep"
  /\ mine' = [mine EXCEPT ![c] = [call |-> @.call, attempt |-> @.attempt + 1, id |-> 0]]
  /\ Goto(c, "check")
  /\ UNCHANGED <<limiter, request, wires, arrivals, outcome, abandoned>>

\* The caller's own time limit drops the call: its permit is released by its
\* destructor, its entry in the map has none.
Abandon(c) ==
  /\ "abandon" \in ClientFaults /\ pc[c] \in InCall \ {"check"}
  /\ permits' = IF pc[c] \in Holding THEN permits + 1 ELSE permits
  /\ abandoned' = abandoned \union (pending \intersect {mine[c].id})
  /\ Return(c, "failed") /\ Unlisten(c)
  /\ UNCHANGED <<cancelled, next_id, pending, wires, arrivals>>

\* close(): its Close waits for room in the queue, without a limit.  Every caller
\* drops its client right after.
CloseBegin(c) ==
  /\ pc[c] = "idle"
  /\ cancelled' = TRUE
  /\ Goto(c, "closing")
  /\ UNCHANGED <<permits, next_id, pending, request, wires, arrivals, mine, outcome, abandoned>>
CloseEnd(c) ==
  /\ pc[c] = "closing"
  /\ \/ HasRoom /\ queue' = Append(queue, Close)
     \/ writer = "ended" /\ UNCHANGED queue
  /\ Goto(c, "gone")
  /\ UNCHANGED <<limiter, request, writer, hand, arrivals, mine, outcome, abandoned>>

\* The last owner's drop cancels, and leaves a Close if there is room.
DropClient ==
  /\ \A c \in Caller : pc[c] \in {"idle", "gone"}
  /\ \E c \in Caller : pc[c] = "idle"
  /\ pc' = [c \in Caller |-> "gone"]
  /\ cancelled' = TRUE
  /\ queue' = IF HasRoom THEN Append(queue, Close) ELSE queue
  /\ UNCHANGED <<permits, next_id, pending, request, writer, hand, arrivals, mine, outcome,
                 abandoned>>

-----------------------------------------------------------------------------
(* The writer task *)

WriterTake ==
  /\ writer = "running" /\ hand = <<>> /\ queue # <<>>
  /\ hand' = <<Head(queue)>> /\ queue' = Tail(queue)
  /\ UNCHANGED <<limiter, request, writer, arrivals, callers>>

WriterStops ==
  /\ writer' = "ended" /\ queue' = <<>> /\ hand' = <<>>
  /\ cancelled' = TRUE
  /\ UNCHANGED <<permits, next_id, pending, arrivals, callers>>

WriterCancelled ==
  /\ writer = "running" /\ hand = <<>> /\ cancelled
  /\ WriterStops /\ UNCHANGED request

\* The server has taken the command; until then the writer is deaf to the token.
WriterSent ==
  /\ hand # <<>>
  /\ request' = IF hand[1].kind = "text"
                THEN [request EXCEPT ![hand[1].id].state = "sent"] ELSE request
  /\ \/ hand[1].kind = "close" /\ WriterStops
     \/ /\ hand[1].kind # "close" /\ hand' = <<>>
        /\ UNCHANGED <<limiter, queue, writer, arrivals, callers>>

WriterFails ==
  /\ hand # <<>> /\ "break" \in ClientFaults
  /\ WriterStops /\ UNCHANGED request

-----------------------------------------------------------------------------
(* The reader task *)

\* Defect: answers overtake notifications, as if these had a task of their own.
NextIncoming_Overtaken ==
  IF \E i \in DOMAIN incoming : incoming[i].kind = "answer"
  THEN CHOOSE i \in DOMAIN incoming : incoming[i].kind = "answer" ELSE 1

\* One task reads, in order.
NextIncoming == 1

\* A channel without a receiver takes nothing.
Listening == {mine[c].id : c \in {d \in Caller : pc[d] \in Holding}}
Fill(ids, slot) ==
  request' = [id \in Id |-> IF id \in ids \intersect Listening
                            THEN [request[id] EXCEPT !.slot = slot[id]] ELSE request[id]]

\* A ping stops the reader until its pong is queued; the end of the stream cancels.
ReadIncoming ==
  /\ reader = "select" /\ incoming # <<>>
  /\ LET message == incoming[NextIncoming]
     IN /\ incoming' = RemoveAt(incoming, NextIncoming)
        /\ pending' = pending \ {message.id} /\ abandoned' = abandoned \ {message.id}
        /\ Fill(pending \intersect {message.id}, [id \in Id |-> message.slot])
        /\ handled' = IF message.kind = "event" THEN handled + 1 ELSE handled
        /\ reader' = CASE message.kind = "ping" -> "pong"
                       [] message.kind = "end" -> "fail"
                       [] OTHER -> "select"
        /\ cancelled' = (cancelled \/ message.kind = "end")
  /\ UNCHANGED <<permits, next_id, wires, emitted, pc, mine, outcome>>

\* Defect: the token is looked at between two messages only.
ReaderCancelled_Deaf ==
  /\ reader = "select" /\ cancelled /\ incoming # <<>>
  /\ reader' = "fail"
  /\ UNCHANGED <<limiter, request, wires, handled, incoming, emitted, callers>>

ReaderCancelled ==
  /\ reader = "select" /\ cancelled
  /\ reader' = "fail"
  /\ UNCHANGED <<limiter, request, wires, handled, incoming, emitted, callers>>

QueuePong ==
  /\ reader = "pong"
  /\ \/ HasRoom /\ queue' = Append(queue, Pong)
     \/ writer = "ended" /\ UNCHANGED queue
  /\ reader' = "select" /\ handled' = handled + 1
  /\ UNCHANGED <<limiter, request, writer, hand, incoming, emitted, callers>>

\* Defect: the map is emptied, and nobody in it is told.
FailPending_Dropped ==
  /\ reader = "fail"
  /\ reader' = "ended"
  /\ pending' = {} /\ abandoned' = {} /\ incoming' = <<>>
  /\ UNCHANGED <<cancelled, permits, next_id, request, wires, handled, emitted, pc, mine,
                 outcome>>

\* The whole map is taken and every request in it failed; then it is announced.
FailPending ==
  /\ reader = "fail"
  /\ reader' = "ended"
  /\ pending' = {} /\ abandoned' = {} /\ incoming' = <<>>
  /\ Fill(pending, [id \in Id |->
                       [result |-> "error", call |-> request[id].call, after |-> 0]])
  /\ UNCHANGED <<cancelled, permits, next_id, wires, handled, emitted, pc, mine, outcome>>

-----------------------------------------------------------------------------
(* The app-server, outside src/ *)

\* Nothing the server sends arrives any more.
HungUp == reader = "ended" \/ \E i \in DOMAIN incoming : incoming[i].kind = "end"

\* It answers in any order, with a result or an error.
Serve(id) ==
  /\ request[id].state = "sent"
  /\ request' = [request EXCEPT ![id].state = "executed"]
  /\ \/ HungUp /\ UNCHANGED incoming
     \/ \E result \in {"ok", "error"} :
          ~HungUp /\ incoming' = Append(incoming, Answer(id, result))
  /\ UNCHANGED <<limiter, wires, reader, handled, emitted, callers>>

Refuse(id) ==
  /\ request[id].state = "sent" /\ "overload" \in ClientFaults /\ ~HungUp
  /\ request' = [request EXCEPT ![id].state = "refused"]
  /\ incoming' = Append(incoming, Answer(id, "overloaded"))
  /\ UNCHANGED <<limiter, wires, reader, handled, emitted, callers>>

Emit ==
  /\ emitted < MaxEmits /\ ~HungUp
  /\ emitted' = emitted + 1
  /\ \E kind \in {"event", "ping"} : incoming' = Append(incoming, Signal(kind))
  /\ UNCHANGED <<limiter, request, wires, reader, handled, callers>>

Hangup ==
  /\ "break" \in ClientFaults /\ ~HungUp
  /\ incoming' = Append(incoming, Signal("end"))
  /\ UNCHANGED <<limiter, request, wires, reader, handled, emitted, callers>>

-----------------------------------------------------------------------------
\* Steps a caller takes by itself once it has begun.
Advance(c) ==
  \/ CheckOpen(c) \/ Admit(c) \/ PermitExpires(c) \/ SendRequest(c) \/ SendFails(c)
  \/ Receive(c) \/ AwaitExpires(c) \/ Forget(c) \/ Retry(c) \/ CloseEnd(c)
Writer == WriterTake \/ WriterCancelled
Reader == ReadIncoming \/ ReaderCancelled \/ QueuePong \/ FailPending
Server ==
  Emit \/ Hangup \/ WriterSent \/ WriterFails \/ \E id \in Id : Serve(id) \/ Refuse(id)

Next ==
  \/ \E c \in Caller : BeginCall(c) \/ Advance(c) \/ Abandon(c) \/ CloseBegin(c)
  \/ DropClient \/ Writer \/ Reader \/ Server

Spec == Init /\ [][Next]_vars

\* The runtime polls the callers and both tasks.  Nothing is assumed of the server:
\* it may stop reading, and then a send does not end.
FairSpec ==
  Spec /\ WF_vars(Writer) /\ WF_vars(Reader) /\ \A c \in Caller : WF_vars(Advance(c))

-----------------------------------------------------------------------------
(* Properties *)

ClientTypeOK ==
  /\ cancelled \in BOOLEAN /\ permits \in 0..REQUEST_LIMIT
  /\ next_id \in 1..(MaxCalls * READ_ATTEMPTS + 1) /\ pending \subseteq Id
  /\ request \in [Id -> [call : 0..MaxCalls, state : Progress, slot : Slots]]
  /\ queue \in Seq(Commands) /\ Len(queue) <= WRITER_QUEUE
  /\ writer \in {"running", "ended"} /\ hand \in Seq(Commands) /\ Len(hand) <= 1
  /\ reader \in {"select", "pong", "fail", "ended"}
  /\ handled \in 0..MaxEmits /\ emitted \in 0..MaxEmits
  /\ incoming \in Seq([kind : {"answer", "event", "ping", "end"}, id : {0} \union Id,
                       slot : Slots])
  /\ pc \in [Caller -> CallerSteps]
  /\ mine \in [Caller -> [call : 0..MaxCalls, attempt : 0..READ_ATTEMPTS, id : {0} \union Id]]
  /\ outcome \in [Call -> {"none", "open", "ok", "failed"}] /\ abandoned \subseteq Id

InFlight == {c \in Caller : pc[c] \in Holding}
Tracked == {mine[c].id : c \in {d \in Caller : pc[d] \in Holding \union {"forget"}}}

\* Whatever ends a request, its permit and its entry in the map come back: every
\* permit is in the limiter or with a caller in flight, and every entry belongs to
\* a caller, but for those a caller's own time limit has dropped.
NothingLeaks ==
  /\ permits + Cardinality(InFlight) = REQUEST_LIMIT
  /\ pending \subseteq Tracked \union abandoned

\* A request in flight without a result is in the map, where its answer finds it, and the
\* end of the connection tells everyone who is in flight by then, those who still wait for
\* room in the writer's queue included.  It tells nobody who enters the map later:
\* is_closed is asked first (app_server.rs:498), the entry is made after the wait for a
\* permit (:513), and such a caller hears nothing for the whole of its time limit.
NobodyForgotten ==
  [][\A c \in InFlight : request[mine[c].id].slot = Open =>
       /\ mine[c].id \in pending
       /\ reader # "ended" /\ reader' = "ended" => request'[mine[c].id].slot # Open]_vars

\* An answer that comes after its request's time limit is never taken for the
\* answer to a later one, and no call succeeds without its own answer.
AnswerIsOwn ==
  \A id \in Id :
    request[id].slot = Open \/ request[id].slot.call = request[id].call

\* When a result has been delivered, every notification the server sent before it
\* has been broadcast: the runner's drains rely on it.
NotificationsFirst == \A id \in Id : request[id].slot.after <= handled

Executions(k) ==
  Cardinality({id \in Id : request[id].call = k /\ request[id].state = "executed"})
RemoteCalls ==
  INSTANCE RemoteCall WITH executed <- [k \in Call |-> Executions(k)]

\* The connection implements the calls its users rely on: executed at most once,
\* retries and late arrivals included, and executed if it succeeded.
ImplementsRemoteCall == RemoteCalls!CallSpec

\* A stalled connection: the server does not take what the writer sends, and the
\* writer's queue is full behind it.
Stalled == hand # <<>> /\ Len(queue) = WRITER_QUEUE

\* Once cancelled, by whomever, the connection is torn down and its pending requests
\* are failed, unless it is stalled for good.
TornDown == [](cancelled => <>(reader = "ended") \/ <>[]Stalled)

\* Every call and every close() comes to its end; only a close() on a connection that
\* is stalled for good may wait for ever.
EveryCallEnds ==
  \A c \in Caller :
    /\ pc[c] \in InCall ~> pc[c] \in {"idle", "gone"}
    /\ pc[c] = "closing" ~> (pc[c] = "gone" \/ []Stalled)
=============================================================================
