----------------------------- MODULE SharedThread -----------------------------
(***************************************************************************)
(* One thread of the shared app-server, and the control connection of each *)
(* MCP server process to it (src/src/app_server.rs as its callers in       *)
(* orchestrator.rs, runner.rs and recovery.rs see it).                     *)
(*                                                                         *)
(* The app-server, the user and the model are external: the actions under  *)
(* "App-server" state what the code in src/ relies on and no more.  The    *)
(* connection delivers notifications and answers in the order the server   *)
(* sent them; a drain of the receiver sees what has arrived so far.        *)
(***************************************************************************)
EXTENDS Integers, Sequences, Bags, ThreadSnapshot

CONSTANTS Proc,     \* MCP server processes
          Faults,   \* which of FaultKinds may happen
          MaxTurns, \* bound: turns of the thread
          MaxItems  \* bound: contextCompaction items of one turn

\* "crash"          a process dies            "save", "unsynced"  a save fails
\* "rpc"            a request is refused      "timeout"           one runs out
\* "disconnect"     the connection breaks     "lag"               events are lost
\* "serverRequest"  the server asks something "duplicate"  a notification repeats
\* "delay"          a dead process's request is served after its death
\* "failure"        a turn or item fails   "native"  the user compacts by hand
\* "work"           the source turn goes on working after its tool call
FaultKinds ==
  {"crash", "save", "unsynced", "rpc", "timeout", "disconnect", "lag",
   "serverRequest", "duplicate", "delay", "failure", "native", "work"}

ASSUME FaultsAssumption == Faults \subseteq FaultKinds
ASSUME ThreadBoundsAssumption == MaxTurns \in Nat \ {0} /\ MaxItems \in Nat

VARIABLES
  turns,      \* the thread's history
  injections, \* capsules in the history: transition, and turns before it
  inbox,      \* bag of the mutating requests sent and not yet served
  call,       \* process -> its outstanding mutating request and the answer
  conn,       \* process -> its control connection
  stream,     \* process -> events sent to it and not yet consumed
  synced      \* process -> how many of these have certainly arrived

threadVars == <<turns, injections, inbox, call, conn, stream, synced>>

Methods == {"compact", "inject", "start"}
Request == [proc : Proc, method : Methods, tid : Nat]

NoCall == [status |-> "none", method |-> "none", tid |-> 0, turn |-> 0]

Call == [status : {"none", "waiting", "accepted", "rejected"},
         method : Methods \union {"none"}, tid : Nat, turn : Nat]

EventTypes ==
  {"TurnStarted", "TurnCompleted", "CompactionStarted", "CompactionCompleted",
   "OtherItem", "ServerRequest", "ConnectionClosed", "Lagged"}
Event == [type : EventTypes, turn : Nat, item : Nat, ok : BOOLEAN]

Turn == [origin : Origins, tid : Nat, status : {"inProgress", "completed", "failed"},
         items : Seq(ItemStates), calls : Seq([receipt : Nat, ok : BOOLEAN]),
         tail : Tails]

ThreadTypeOK ==
  /\ turns \in Seq(Turn)
  /\ injections \in Seq([tid : Nat, after : Nat])
  /\ IsABag(inbox) /\ BagToSet(inbox) \subseteq Request
  /\ call \in [Proc -> Call]
  /\ conn \in [Proc -> {"none", "open", "closed"}]
  /\ stream \in [Proc -> Seq(Event)]
  /\ synced \in [Proc -> Nat]

\* The user's first turn is running and nobody is connected.
ThreadInit ==
  /\ turns = <<NewTurn("user", 0)>>
  /\ injections = <<>>
  /\ inbox = EmptyBag
  /\ call = [p \in Proc |-> NoCall]
  /\ conn = [p \in Proc |-> "none"]
  /\ stream = [p \in Proc |-> <<>>]
  /\ synced = [p \in Proc |-> 0]

Signal(type, turn) == [type |-> type, turn |-> turn, item |-> 0, ok |-> TRUE]

-----------------------------------------------------------------------------
(* App-server, user and model (external) *)

\* Every subscribed connection is told.
Broadcast(events) ==
  stream' = [p \in Proc |-> IF conn[p] = "open" THEN stream[p] \o events ELSE stream[p]]

\* A turn begins on the idle thread; the user's begins with a message item.
StartTurn(origin, tid) ==
  /\ is_idle(turns) /\ Len(turns) < MaxTurns
  /\ turns' = Append(turns, NewTurn(origin, tid))
  /\ Broadcast(IF origin = "user"
               THEN <<Signal("TurnStarted", Len(turns) + 1),
                      Signal("OtherItem", Len(turns) + 1)>>
               ELSE <<Signal("TurnStarted", Len(turns) + 1)>>)

UserTurn ==
  /\ \E origin \in {"user"} \union IF "native" \in Faults THEN {"native"} ELSE {} :
       StartTurn(origin, 0)
  /\ UNCHANGED <<injections, inbox, call, conn, synced>>

Verdicts == {TRUE} \union IF "failure" \in Faults THEN {FALSE} ELSE {}

EndTurn ==
  /\ is_active(turns)
  /\ \E ok \in Verdicts :
     \E tail \in IF "work" \in Faults /\ turns[Len(turns)].calls # <<>>
                 THEN Tails ELSE {"passive"} :
       /\ turns' = [turns EXCEPT ![Len(turns)].status = IF ok THEN "completed" ELSE "failed",
                                 ![Len(turns)].tail = tail]
       /\ Broadcast(<<[Signal("TurnCompleted", Len(turns)) EXCEPT !.ok = ok]>>)
  /\ UNCHANGED <<injections, inbox, call, conn, synced>>

CompactionItemStarts ==
  /\ is_active(turns)
  /\ turns[Len(turns)].origin \in CompactionOrigins
  /\ LET n == Len(turns[Len(turns)].items) IN
     /\ n < MaxItems
     /\ turns' = [turns EXCEPT ![Len(turns)].items = Append(@, "started")]
     /\ Broadcast(<<[Signal("CompactionStarted", Len(turns)) EXCEPT !.item = n + 1]>>)
  /\ UNCHANGED <<injections, inbox, call, conn, synced>>

CompactionItemEnds ==
  /\ is_active(turns)
  /\ \E i \in 1..Len(turns[Len(turns)].items), ok \in Verdicts :
       /\ turns[Len(turns)].items[i] = "started"
       /\ turns' = [turns EXCEPT ![Len(turns)].items[i] =
                                   IF ok THEN "completed" ELSE "failed"]
       /\ Broadcast(<<[Signal("CompactionCompleted", Len(turns))
                         EXCEPT !.item = i, !.ok = ok]>>)
  /\ UNCHANGED <<injections, inbox, call, conn, synced>>

\* The answer reaches the sender if that still waits for it; by then every
\* event sent before the answer has arrived too.
Awaits(p, request) ==
  /\ p = request.proc /\ conn[p] = "open" /\ call[p].status = "waiting"
  /\ call[p].method = request.method /\ call[p].tid = request.tid

Answer(request, status, turn) ==
  /\ call' = [p \in Proc |-> IF Awaits(p, request)
                             THEN [call[p] EXCEPT !.status = status, !.turn = turn]
                             ELSE call[p]]
  /\ synced' = [p \in Proc |-> IF Awaits(p, request) THEN Len(stream'[p]) ELSE synced[p]]

ServeCompact(request) ==
  /\ request.method = "compact"
  /\ StartTurn("compact", request.tid)
  /\ Answer(request, "accepted", 0)
  /\ UNCHANGED injections

ServeStart(request) ==
  /\ request.method = "start"
  /\ StartTurn("continuation", request.tid)
  /\ Answer(request, "accepted", Len(turns) + 1)
  /\ UNCHANGED injections

\* Items can be injected whether or not a turn runs.
ServeInject(request) ==
  /\ request.method = "inject"
  /\ injections' = Append(injections, [tid |-> request.tid, after |-> Len(turns)])
  /\ UNCHANGED <<turns, stream>>
  /\ Answer(request, "accepted", 0)

\* Neither a compaction nor an empty turn starts while a turn runs.
Refuse(request) ==
  /\ \/ "rpc" \in Faults
     \/ request.method # "inject" /\ is_active(turns)
  /\ UNCHANGED <<turns, injections, stream>>
  /\ Answer(request, "rejected", 0)

ServeRequest ==
  /\ \E request \in BagToSet(inbox) :
       /\ inbox' = inbox (-) SetToBag({request})
       /\ \/ ServeCompact(request)
          \/ ServeStart(request)
          \/ ServeInject(request)
          \/ Refuse(request)
  /\ UNCHANGED conn

\* The connection breaks: the client cancels, then tells its receivers.
Disconnect(p) ==
  /\ "disconnect" \in Faults /\ conn[p] = "open"
  /\ conn' = [conn EXCEPT ![p] = "closed"]
  /\ stream' = [stream EXCEPT ![p] = Append(@, Signal("ConnectionClosed", 0))]
  /\ UNCHANGED <<turns, injections, inbox, call, synced>>

\* The server asks the control connection something.
AskClient(p) ==
  /\ "serverRequest" \in Faults /\ conn[p] = "open"
  /\ \A i \in 1..Len(stream[p]) : stream[p][i].type # "ServerRequest"
  /\ stream' = [stream EXCEPT ![p] = Append(@, Signal("ServerRequest", 0))]
  /\ UNCHANGED <<turns, injections, inbox, call, conn, synced>>

\* The bounded broadcast channel overwrites its oldest events.
Lag(p) ==
  /\ "lag" \in Faults
  /\ \E n \in 1..Len(stream[p]) :
       /\ stream[p][n].type # "Lagged"
       /\ stream' = [stream EXCEPT ![p] =
                       <<Signal("Lagged", 0)>> \o SubSeq(@, n + 1, Len(@))]
       /\ synced' = [synced EXCEPT ![p] = IF @ > n THEN @ - n + 1 ELSE 1]
  /\ UNCHANGED <<turns, injections, inbox, call, conn>>

\* The server repeats the start notification of the compaction turn.
Repeat(p) ==
  /\ "duplicate" \in Faults /\ conn[p] = "open"
  /\ turns[Len(turns)].origin = "compact"
  /\ LET again == Signal("TurnStarted", Len(turns)) IN
     /\ \A i \in 1..Len(stream[p]) : stream[p][i] # again
     /\ stream' = [stream EXCEPT ![p] = Append(@, again)]
  /\ UNCHANGED <<turns, injections, inbox, call, conn, synced>>

-----------------------------------------------------------------------------
(* The client side of a connection *)

\* thread/resume has been answered on a fresh connection.
Subscribe(p) ==
  /\ conn' = [conn EXCEPT ![p] = "open"]
  /\ stream' = [stream EXCEPT ![p] = <<>>]
  /\ synced' = [synced EXCEPT ![p] = 0]

\* The connection of p is closed and its receiver dropped.
Unsubscribe(p) ==
  /\ conn' = [conn EXCEPT ![p] = "none"]
  /\ stream' = [stream EXCEPT ![p] = <<>>]
  /\ synced' = [synced EXCEPT ![p] = 0]
  /\ call' = [call EXCEPT ![p] = NoCall]

\* A mutating request leaves.
Send(p, method, tid) ==
  /\ inbox' = inbox (+) SetToBag({[proc |-> p, method |-> method, tid |-> tid]})
  /\ call' = [call EXCEPT ![p] = [NoCall EXCEPT !.status = "waiting",
                                                !.method = method, !.tid = tid]]

\* The caller of a mutating request sees an error that is not the server's:
\* the 15 second limit, or a connection that broke before the answer.
CallBroken(p) ==
  call[p].status = "waiting" /\ (conn[p] = "closed" \/ "timeout" \in Faults)

\* A read-only request may fail: overload, time limit, bad snapshot, EOF.
ReadMayFail(p) == conn[p] = "closed" \/ "rpc" \in Faults

\* Its answer comes after all earlier events.
Synchronise(p) == synced' = [synced EXCEPT ![p] = Len(stream[p])]

\* Drop the first n events of p's stream.
Consume(p, n) ==
  /\ stream' = [stream EXCEPT ![p] = SubSeq(@, n + 1, Len(@))]
  /\ synced' = [synced EXCEPT ![p] = IF @ > n THEN @ - n ELSE 0]

\* try_recv until Empty sees what has arrived: at least `synced' events.
Drained(p) == synced[p]..Len(stream[p])
=============================================================================
