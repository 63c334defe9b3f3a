------------------------- MODULE TransitionTypeProofs -------------------------
(***************************************************************************)
(* What is proved of Transition for every value of its constants: every    *)
(* variable keeps its type, and the lock of the thread is held by whoever  *)
(* works on it and by nobody else.                                         *)
(***************************************************************************)
EXTENDS TransitionProperties, TLAPS, SequenceTheorems, NaturalsInduction, WellFoundedInduction

-----------------------------------------------------------------------------
(* The thread's variables *)

HistoryOK ==
  /\ turns \in Seq(Turn)
  /\ injections \in Seq([tid : Nat, after : Nat])

StreamOK == stream \in [Proc -> Seq(Event)] /\ synced \in [Proc -> Nat]

ChannelOK ==
  /\ IsABag(inbox) /\ BagToSet(inbox) \subseteq Request
  /\ call \in [Proc -> Call]
  /\ conn \in [Proc -> {"none", "open", "closed"}]

LEMMA ThreadTypeParts == ThreadTypeOK <=> HistoryOK /\ StreamOK /\ ChannelOK
BY DEF ThreadTypeOK, HistoryOK, StreamOK, ChannelOK

LEMMA SignalType ==
  ASSUME NEW type \in EventTypes, NEW turn \in Nat, NEW n \in Nat, NEW ok \in BOOLEAN
  PROVE  /\ Signal(type, turn) \in Event
         /\ [Signal(type, turn) EXCEPT !.ok = ok] \in Event
         /\ [Signal(type, turn) EXCEPT !.item = n] \in Event
         /\ [Signal(type, turn) EXCEPT !.item = n, !.ok = ok] \in Event
BY DEF Signal, Event

LEMMA BroadcastType ==
  ASSUME StreamOK, NEW events \in Seq(Event), Broadcast(events)
  PROVE  stream' \in [Proc -> Seq(Event)]
<1>1. \A p \in Proc : stream[p] \o events \in Seq(Event)
  BY ConcatProperties DEF StreamOK
<1> QED
  BY <1>1 DEF Broadcast, StreamOK

LEMMA TellType ==
  ASSUME StreamOK, NEW event \in Event, Broadcast(<<event>>)
  PROVE  stream' \in [Proc -> Seq(Event)]
<1>1. <<event>> \in Seq(Event)
  OBVIOUS
<1> QED
  BY <1>1, BroadcastType

\* A turn of the history with new contents is a history.
LEMMA TurnUpdateType ==
  ASSUME HistoryOK, NEW i \in 1..Len(turns), NEW turn \in Turn
  PROVE  [turns EXCEPT ![i] = turn] \in Seq(Turn)
BY ExceptSeq DEF HistoryOK

LEMMA LastTurn ==
  ASSUME HistoryOK, is_active(turns)
  PROVE  Len(turns) \in 1..Len(turns) /\ turns[Len(turns)] \in Turn
<1>1. Len(turns) \in Nat \ {0}
  BY EmptySeq DEF HistoryOK, is_active
<1> QED
  BY <1>1, ElementOfSeq DEF HistoryOK

LEMMA NewTurnType ==
  ASSUME NEW origin \in Origins, NEW tid \in Nat
  PROVE  NewTurn(origin, tid) \in Turn
<1>1. <<>> \in Seq(ItemStates) /\ <<>> \in Seq([receipt : Nat, ok : BOOLEAN])
  BY EmptySeq
<1> QED
  BY <1>1 DEF NewTurn, Turn, Tails

LEMMA StartTurnType ==
  ASSUME HistoryOK, StreamOK, NEW origin \in Origins, NEW tid \in Nat, StartTurn(origin, tid)
  PROVE  turns' \in Seq(Turn) /\ stream' \in [Proc -> Seq(Event)]
<1>1. Len(turns) + 1 \in Nat
  BY LenProperties DEF HistoryOK
<1>2. NewTurn(origin, tid) \in Turn
  BY NewTurnType
<1>3. turns' \in Seq(Turn)
  BY <1>2, AppendProperties DEF StartTurn, HistoryOK
<1>4. Signal("TurnStarted", Len(turns) + 1) \in Event
      /\ Signal("OtherItem", Len(turns) + 1) \in Event
  BY <1>1, SignalType DEF EventTypes
<1>5. \E events \in Seq(Event) : Broadcast(events)
  <2> DEFINE started == Signal("TurnStarted", Len(turns) + 1)
             message == Signal("OtherItem", Len(turns) + 1)
  <2>1. <<started, message>> \in Seq(Event) /\ <<started>> \in Seq(Event)
    BY <1>4
  <2> HIDE DEF started, message
  <2>2. Broadcast(IF origin = "user" THEN <<started, message>> ELSE <<started>>)
    BY DEF StartTurn, started, message
  <2> QED
    BY <2>1, <2>2
<1> QED
  BY <1>3, <1>5, BroadcastType

LEMMA AnswerType ==
  ASSUME ChannelOK, StreamOK, NEW request, NEW turn \in Nat,
         NEW status \in {"accepted", "rejected"},
         stream' \in [Proc -> Seq(Event)], Answer(request, status, turn)
  PROVE  call' \in [Proc -> Call] /\ synced' \in [Proc -> Nat]
<1>1. \A p \in Proc : [call[p] EXCEPT !.status = status, !.turn = turn] \in Call
  BY DEF ChannelOK, Call
<1>2. \A p \in Proc : Len(stream'[p]) \in Nat
  BY LenProperties
<1> QED
  BY <1>1, <1>2 DEF Answer, ChannelOK, StreamOK

LEMMA ConsumeType ==
  ASSUME StreamOK, NEW p \in Proc, NEW n \in Nat, Consume(p, n)
  PROVE  StreamOK'
<1>1. Len(stream[p]) \in Nat /\ stream[p] \in Seq(Event)
  BY LenProperties DEF StreamOK
<1>2. SubSeq(stream[p], n + 1, Len(stream[p])) \in Seq(Event)
  BY <1>1, SubSeqProperties, ElementOfSeq
<1>3. (IF synced[p] > n THEN synced[p] - n ELSE 0) \in Nat
  BY DEF StreamOK
<1> QED
  BY <1>2, <1>3 DEF Consume, StreamOK

LEMMA DrainedType ==
  ASSUME StreamOK, NEW p \in Proc, NEW n \in Drained(p)
  PROVE  n \in Nat /\ \A i \in 1..n : stream[p][i] \in Event
<1>1. Len(stream[p]) \in Nat /\ stream[p] \in Seq(Event) /\ synced[p] \in Nat
  BY LenProperties DEF StreamOK
<1>2. n \in Nat /\ n <= Len(stream[p])
  BY <1>1 DEF Drained
<1> QED
  BY <1>1, <1>2, ElementOfSeq

\* A request more, one less, and those of some processes only.
LEMMA InboxTypes ==
  ASSUME ChannelOK, NEW request \in Request
  PROVE  /\ IsABag(inbox (+) SetToBag({request}))
         /\ BagToSet(inbox (+) SetToBag({request})) \subseteq Request
         /\ IsABag(inbox (-) SetToBag({request}))
         /\ BagToSet(inbox (-) SetToBag({request})) \subseteq Request
<1> USE DEF IsABag, BagToSet, SetToBag
<1>1. DOMAIN inbox \subseteq Request /\ inbox \in [DOMAIN inbox -> {n \in Nat : n > 0}]
  BY DEF ChannelOK
<1>2. /\ IsABag(inbox (+) SetToBag({request}))
      /\ BagToSet(inbox (+) SetToBag({request})) \subseteq Request
  BY <1>1 DEF (+)
<1>3. /\ IsABag(inbox (-) SetToBag({request}))
      /\ BagToSet(inbox (-) SetToBag({request})) \subseteq Request
  BY <1>1 DEF (-)
<1> QED
  BY <1>2, <1>3

LEMMA RestrictedInboxType ==
  ASSUME ChannelOK, NEW S
  PROVE  LET kept == [request \in {r \in BagToSet(inbox) : r.proc # S} |-> inbox[request]]
         IN  IsABag(kept) /\ BagToSet(kept) \subseteq Request
BY DEF ChannelOK, IsABag, BagToSet

LEMMA SubscribeType ==
  ASSUME StreamOK, ChannelOK, NEW p \in Proc, Subscribe(p), UNCHANGED <<inbox, call>>
  PROVE  StreamOK' /\ ChannelOK'
<1>1. <<>> \in Seq(Event)
  BY EmptySeq
<1> QED
  BY <1>1 DEF Subscribe, StreamOK, ChannelOK

LEMMA UnsubscribeType ==
  ASSUME StreamOK, ChannelOK, NEW p \in Proc, Unsubscribe(p),
         IsABag(inbox'), BagToSet(inbox') \subseteq Request
  PROVE  StreamOK' /\ ChannelOK'
<1>1. <<>> \in Seq(Event) /\ NoCall \in Call
  BY EmptySeq DEF NoCall, Call
<1> QED
  BY <1>1 DEF Unsubscribe, StreamOK, ChannelOK

LEMMA SendType ==
  ASSUME ChannelOK, NEW p \in Proc, NEW method \in Methods, NEW tid \in Nat,
         Send(p, method, tid), UNCHANGED conn
  PROVE  ChannelOK'
<1>1. [proc |-> p, method |-> method, tid |-> tid] \in Request
  BY DEF Request
<1>2. [NoCall EXCEPT !.status = "waiting", !.method = method, !.tid = tid] \in Call
  BY DEF NoCall, Call
<1>3. /\ inbox' = inbox (+) SetToBag({[proc |-> p, method |-> method, tid |-> tid]})
      /\ call' = [call EXCEPT ![p] = [NoCall EXCEPT !.status = "waiting",
                                                    !.method = method, !.tid = tid]]
  BY DEF Send
<1>4. IsABag(inbox') /\ BagToSet(inbox') \subseteq Request
  BY <1>1, <1>3, InboxTypes
<1> QED
  BY <1>2, <1>3, <1>4 DEF ChannelOK

-----------------------------------------------------------------------------
(* Steps of the app-server, the user and the model *)

LEMMA EndTurnType ==
  ASSUME ThreadTypeOK, EndTurn
  PROVE  ThreadTypeOK'
<1> USE ThreadTypeParts
<1>1. PICK ok \in BOOLEAN, tail \in Tails :
        /\ turns' = [turns EXCEPT ![Len(turns)].status =
                                     IF ok THEN "completed" ELSE "failed",
                                  ![Len(turns)].tail = tail]
        /\ Broadcast(<<[Signal("TurnCompleted", Len(turns)) EXCEPT !.ok = ok]>>)
  BY DEF EndTurn, Verdicts, Tails
<1>2. Len(turns) \in 1..Len(turns) /\ turns[Len(turns)] \in Turn
  BY LastTurn DEF EndTurn
<1>3. turns' \in Seq(Turn)
  <2> DEFINE ended == [turns[Len(turns)] EXCEPT
                         !.status = IF ok THEN "completed" ELSE "failed", !.tail = tail]
  <2>1. ended \in Turn
    BY <1>2 DEF Turn
  <2>2. turns' = [turns EXCEPT ![Len(turns)] = ended]
    BY <1>1, <1>2, LenProperties DEF HistoryOK
  <2> QED
    BY <1>2, <2>1, <2>2, TurnUpdateType
<1>4. stream' \in [Proc -> Seq(Event)]
  <2>1. Len(turns) \in Nat /\ "TurnCompleted" \in EventTypes
    BY <1>2 DEF EventTypes
  <2>2. [Signal("TurnCompleted", Len(turns)) EXCEPT !.ok = ok] \in Event
    BY <2>1 DEF Signal, Event
  <2> QED
    BY <1>1, <2>2, TellType
<1> QED
  BY <1>3, <1>4 DEF EndTurn, ThreadTypeOK

LEMMA CompactionItemStartsType ==
  ASSUME ThreadTypeOK, CompactionItemStarts
  PROVE  ThreadTypeOK'
<1> USE ThreadTypeParts
<1>1. Len(turns) \in 1..Len(turns) /\ turns[Len(turns)] \in Turn
  BY LastTurn DEF CompactionItemStarts
<1>2. turns[Len(turns)].items \in Seq(ItemStates)
  BY <1>1 DEF Turn
<1>3. turns' \in Seq(Turn)
  <2> DEFINE begun == [turns[Len(turns)] EXCEPT !.items = Append(@, "started")]
  <2>1. Append(turns[Len(turns)].items, "started") \in Seq(ItemStates)
    BY <1>2, AppendProperties DEF ItemStates
  <2>2. begun \in Turn
    BY <1>1, <2>1 DEF Turn
  <2>3. turns' = [turns EXCEPT ![Len(turns)] = begun]
    BY DEF CompactionItemStarts
  <2> QED
    BY <1>1, <2>2, <2>3, TurnUpdateType
<1>4. stream' \in [Proc -> Seq(Event)]
  <2> DEFINE n == Len(turns[Len(turns)].items)
             event == [Signal("CompactionStarted", Len(turns)) EXCEPT !.item = n + 1]
  <2>1. n + 1 \in Nat /\ Len(turns) \in Nat
    BY <1>1, <1>2, LenProperties
  <2>2. event \in Event
    BY <2>1 DEF Signal, Event, EventTypes
  <2>3. Broadcast(<<event>>)
    BY DEF CompactionItemStarts
  <2> QED
    BY <2>2, <2>3, TellType
<1> QED
  BY <1>3, <1>4 DEF CompactionItemStarts, ThreadTypeOK

LEMMA CompactionItemEndsType ==
  ASSUME ThreadTypeOK, CompactionItemEnds
  PROVE  ThreadTypeOK'
<1> USE ThreadTypeParts
<1>1. Len(turns) \in 1..Len(turns) /\ turns[Len(turns)] \in Turn
  BY LastTurn DEF CompactionItemEnds
<1>2. turns[Len(turns)].items \in Seq(ItemStates)
  BY <1>1 DEF Turn
<1>3. PICK i \in 1..Len(turns[Len(turns)].items), ok \in BOOLEAN :
        /\ turns' = [turns EXCEPT ![Len(turns)].items[i] =
                                    IF ok THEN "completed" ELSE "failed"]
        /\ Broadcast(<<[Signal("CompactionCompleted", Len(turns))
                          EXCEPT !.item = i, !.ok = ok]>>)
  BY DEF CompactionItemEnds, Verdicts
<1>4. turns' \in Seq(Turn)
  <2> DEFINE state == IF ok THEN "completed" ELSE "failed"
             items == [turns[Len(turns)].items EXCEPT ![i] = state]
             ended == [turns[Len(turns)] EXCEPT !.items = items]
  <2>1. items \in Seq(ItemStates)
    BY <1>2, ExceptSeq DEF ItemStates
  <2>2. ended \in Turn
    BY <1>1, <2>1 DEF Turn
  <2>3. turns' = [turns EXCEPT ![Len(turns)] = ended]
    BY <1>3
  <2> QED
    BY <1>1, <2>2, <2>3, TurnUpdateType
<1>5. stream' \in [Proc -> Seq(Event)]
  <2>1. i \in Nat /\ Len(turns) \in Nat
    BY <1>1, <1>2, LenProperties
  <2>2. [Signal("CompactionCompleted", Len(turns)) EXCEPT !.item = i, !.ok = ok] \in Event
    BY <2>1 DEF Signal, Event, EventTypes
  <2> QED
    BY <1>3, <2>2, TellType
<1> QED
  BY <1>4, <1>5 DEF CompactionItemEnds, ThreadTypeOK

LEMMA UserTurnType ==
  ASSUME ThreadTypeOK, UserTurn
  PROVE  ThreadTypeOK'
<1>1. PICK origin \in Origins : StartTurn(origin, 0)
  BY DEF UserTurn, Origins, CompactionOrigins
<1> QED
  BY <1>1, ThreadTypeParts, StartTurnType DEF UserTurn, ThreadTypeOK

LEMMA ServeRequestType ==
  ASSUME ThreadTypeOK, ServeRequest
  PROVE  ThreadTypeOK'
<1> USE ThreadTypeParts
<1>1. PICK request \in BagToSet(inbox) :
        /\ inbox' = inbox (-) SetToBag({request})
        /\ ServeCompact(request) \/ ServeStart(request) \/ ServeInject(request)
           \/ Refuse(request)
  BY DEF ServeRequest
<1>2. request \in Request /\ request.tid \in Nat /\ Len(turns) \in Nat
  BY LenProperties DEF ChannelOK, HistoryOK, Request
<1>3. IsABag(inbox') /\ BagToSet(inbox') \subseteq Request
  <2>1. ChannelOK /\ inbox' = inbox (-) SetToBag({request})
    BY <1>1
  <2> QED
    BY <1>2, <2>1, InboxTypes
<1>4. CASE ServeCompact(request)
  <2>1. StartTurn("compact", request.tid) /\ Answer(request, "accepted", 0)
    BY <1>4 DEF ServeCompact
  <2>2. turns' \in Seq(Turn) /\ stream' \in [Proc -> Seq(Event)]
    BY <1>2, <2>1, StartTurnType DEF Origins, CompactionOrigins
  <2>3. call' \in [Proc -> Call] /\ synced' \in [Proc -> Nat]
    BY <1>2, <2>1, <2>2, AnswerType
  <2> QED
    BY <1>3, <1>4, <2>2, <2>3 DEF ServeCompact, ServeRequest, ThreadTypeOK
<1>5. CASE ServeStart(request)
  <2>1. StartTurn("continuation", request.tid) /\ Answer(request, "accepted", Len(turns) + 1)
    BY <1>5 DEF ServeStart
  <2>2. turns' \in Seq(Turn) /\ stream' \in [Proc -> Seq(Event)]
    BY <1>2, <2>1, StartTurnType DEF Origins, CompactionOrigins
  <2>3. call' \in [Proc -> Call] /\ synced' \in [Proc -> Nat]
    BY <1>2, <2>1, <2>2, AnswerType
  <2> QED
    BY <1>3, <1>5, <2>2, <2>3 DEF ServeStart, ServeRequest, ThreadTypeOK
<1>6. CASE ServeInject(request)
  <2>1. [tid |-> request.tid, after |-> Len(turns)] \in [tid : Nat, after : Nat]
    BY <1>2
  <2>2. injections' \in Seq([tid : Nat, after : Nat])
    BY <1>6, <2>1, AppendProperties DEF ServeInject, HistoryOK
  <2>3. stream' \in [Proc -> Seq(Event)]
    BY <1>6 DEF ServeInject, StreamOK
  <2> QED
    BY <1>1, <1>3, <1>6, <2>2, <2>3, AnswerType DEF ServeInject, ServeRequest, ThreadTypeOK
<1>7. CASE Refuse(request)
  <2>1. stream' \in [Proc -> Seq(Event)]
    BY <1>7 DEF Refuse, StreamOK
  <2> QED
    BY <1>1, <1>3, <1>7, <2>1, AnswerType DEF Refuse, ServeRequest, ThreadTypeOK
<1> QED
  BY <1>1, <1>4, <1>5, <1>6, <1>7

LEMMA ConnectionStepType ==
  ASSUME ThreadTypeOK, NEW p \in Proc, Disconnect(p) \/ AskClient(p) \/ Lag(p) \/ Repeat(p)
  PROVE  ThreadTypeOK'
<1>1. stream[p] \in Seq(Event) /\ Len(stream[p]) \in Nat /\ synced[p] \in Nat
  BY LenProperties DEF ThreadTypeOK
<1>2. /\ Signal("ConnectionClosed", 0) \in Event
      /\ Signal("ServerRequest", 0) \in Event
      /\ Signal("Lagged", 0) \in Event
      /\ Signal("TurnStarted", Len(turns)) \in Event
  <2>1. Len(turns) \in Nat
    BY LenProperties DEF ThreadTypeOK
  <2> QED
    BY <2>1 DEF Signal, Event, EventTypes
<1>3. \A event \in Event : Append(stream[p], event) \in Seq(Event)
  BY <1>1, AppendProperties
<1>4. CASE Disconnect(p)
  BY <1>2, <1>3, <1>4 DEF Disconnect, ThreadTypeOK
<1>5. CASE AskClient(p)
  BY <1>2, <1>3, <1>5 DEF AskClient, ThreadTypeOK
<1>6. CASE Lag(p)
  <2>1. PICK n \in 1..Len(stream[p]) :
          /\ stream' = [stream EXCEPT ![p] =
                          <<Signal("Lagged", 0)>> \o SubSeq(@, n + 1, Len(@))]
          /\ synced' = [synced EXCEPT ![p] = IF @ > n THEN @ - n + 1 ELSE 1]
    BY <1>6 DEF Lag
  <2>2. SubSeq(stream[p], n + 1, Len(stream[p])) \in Seq(Event)
    BY <1>1, SubSeqProperties, ElementOfSeq
  <2>3. <<Signal("Lagged", 0)>> \in Seq(Event)
    BY <1>2
  <2>4. <<Signal("Lagged", 0)>> \o SubSeq(stream[p], n + 1, Len(stream[p])) \in Seq(Event)
    BY <2>2, <2>3, ConcatProperties
  <2>5. stream' \in [Proc -> Seq(Event)]
    BY <2>1, <2>4 DEF ThreadTypeOK
  <2>6. synced' \in [Proc -> Nat]
    BY <1>1, <2>1 DEF ThreadTypeOK
  <2> QED
    BY <1>6, <2>5, <2>6 DEF Lag, ThreadTypeOK
<1>7. CASE Repeat(p)
  BY <1>2, <1>3, <1>7 DEF Repeat, ThreadTypeOK
<1> QED
  BY <1>4, <1>5, <1>6, <1>7

-----------------------------------------------------------------------------
(* The variables of the processes *)

JournalOK == disk \in Journal /\ pc \in [Proc -> Steps] /\ mem \in [Proc -> Journal]

BookOK ==
  /\ lease \in Proc \union {NoProc}
  /\ registry \in [Proc -> BOOLEAN]
  /\ item \in [Proc -> Nat]
  /\ boots \in [Proc -> Nat]
  /\ accepted \in Nat

LEMMA TypeParts == TypeOK <=> HistoryOK /\ StreamOK /\ ChannelOK /\ JournalOK /\ BookOK
BY DEF TypeOK, ThreadTypeOK, HistoryOK, StreamOK, ChannelOK, JournalOK, BookOK

LEMMA TypePartsPrimed ==
  TypeOK' <=> HistoryOK' /\ StreamOK' /\ ChannelOK' /\ JournalOK' /\ BookOK'
BY DEF TypeOK, ThreadTypeOK, HistoryOK, StreamOK, ChannelOK, JournalOK, BookOK

\* An error, or none.
Outcomes == ErrorCodes \union {"None"}

LEMMA JournalFields ==
  ASSUME NEW journal \in Journal
  PROVE  /\ journal.tid \in Nat /\ journal.source \in Nat /\ journal.compact \in Nat
         /\ journal.cont \in Nat
         /\ \A state \in TransitionStates : [journal EXCEPT !.state = state] \in Journal
         /\ \A turn \in Nat : /\ [journal EXCEPT !.compact = turn] \in Journal
                              /\ [journal EXCEPT !.cont = turn] \in Journal
                              /\ [journal EXCEPT !.source = turn] \in Journal
         /\ [journal EXCEPT !.capsule = TRUE] \in Journal
BY DEF Journal

LEMMA ConcludeType ==
  ASSUME NEW journal \in Journal, NEW code \in Outcomes
  PROVE  /\ Conclude(journal, code) \in Journal
         /\ cancel(journal, code) \in Journal
         /\ fail(journal, code) \in Journal
<1>1. "Cancelled" \in TransitionStates /\ "FailedSafe" \in TransitionStates
  BY DEF TransitionStates, Terminal
<1>2. cancel(journal, code) \in Journal /\ fail(journal, code) \in Journal
  BY <1>1 DEF cancel, fail, Journal, Outcomes
<1> QED
  BY <1>2 DEF Conclude

LEMMA NoJournalType ==
  /\ NoJournal \in Journal
  /\ \A source \in Nat : [NoJournal EXCEPT !.source = source] \in Journal
  /\ \A tid \in Nat, source \in Nat : NewJournal(tid, source) \in Journal
BY DEF NoJournal, NewJournal, Journal, TransitionStates, BeforeMutation

LEMMA StopType ==
  ASSUME JournalOK, NEW p \in Proc, NEW code \in Outcomes, Stop(p, code)
  PROVE  JournalOK'
<1>1. Conclude(mem[p], code) \in Journal
  BY ConcludeType DEF JournalOK
<1>2. "finish" \in Steps
  BY DEF Steps
<1> QED
  BY <1>1, <1>2 DEF Stop, Goto, JournalOK

\* A save leaves a journal on disk and a step with one in memory.
LEMMA SaveType ==
  ASSUME JournalOK, NEW p \in Proc, NEW journal \in Journal, NEW kept \in Journal,
         NEW outcome, NEW step \in Steps,
         Save(journal, outcome), mem' = [mem EXCEPT ![p] = kept], Goto(p, step)
  PROVE  JournalOK'
BY DEF Save, Goto, JournalOK

LEMMA AdvanceType ==
  ASSUME JournalOK, NEW p \in Proc, NEW journal \in Journal, NEW next \in TransitionStates,
         NEW step \in Steps, Advance(p, journal, next, step)
  PROVE  JournalOK'
<1> DEFINE entered == [journal EXCEPT !.state = next]
<1>1. entered \in Journal
  BY JournalFields
<1>2. Conclude(entered, "Io") \in Journal
  BY <1>1, ConcludeType DEF Outcomes, ErrorCodes
<1>3. CASE Stop(p, "Internal")
  BY <1>3, StopType DEF Outcomes, ErrorCodes
<1>4. CASE \E outcome \in SaveOutcomes :
             /\ Save(entered, outcome)
             /\ mem' = [mem EXCEPT ![p] =
                          IF outcome = "ok" THEN entered ELSE Conclude(entered, "Io")]
             /\ Goto(p, IF outcome = "ok" THEN step ELSE "finish")
  <2>1. PICK outcome \in SaveOutcomes :
             /\ Save(entered, outcome)
             /\ mem' = [mem EXCEPT ![p] =
                          IF outcome = "ok" THEN entered ELSE Conclude(entered, "Io")]
             /\ Goto(p, IF outcome = "ok" THEN step ELSE "finish")
    BY <1>4
  <2> HIDE DEF entered
  <2>2. (IF outcome = "ok" THEN step ELSE "finish") \in Steps
    BY DEF Steps
  <2> QED
    BY <1>1, <1>2, <2>1, <2>2, SaveType
<1> QED
  BY <1>3, <1>4 DEF Advance

\* The checks of the program answer with an error code or none.
LEMMA CodeTypes ==
  /\ \A event : \A code \in Outcomes : StreamError(event, code) \in Outcomes
  /\ \A source, prior : preflight_root_and_cooldown(turns, source, prior) \in Outcomes
  /\ \A source, tid : validate_final_source_snapshot(turns, source, tid) \in Outcomes
  /\ \A compact : require_completed_compaction_boundary(turns, compact) \in Outcomes
  /\ DescendantErrors \subseteq Outcomes
BY DEF StreamError, preflight_root_and_cooldown, validate_final_source_snapshot,
       require_completed_compaction_boundary, DescendantErrors, Outcomes, ErrorCodes,
       CancellationErrors

LEMMA RecordCallType ==
  ASSUME HistoryOK, NEW source \in Nat, NEW receipt \in Nat, NEW ok \in BOOLEAN,
         RecordCall(source, receipt, ok)
  PROVE  turns' \in Seq(Turn)
<1> DEFINE entry == [receipt |-> receipt, ok |-> ok]
           recorded == [turns[source] EXCEPT !.calls = Append(@, entry)]
<1>1. CASE unique_turn(turns, source)
  <2>1. source \in 1..Len(turns) /\ turns[source] \in Turn
    BY <1>1, ElementOfSeq DEF unique_turn, HistoryOK
  <2>2. Append(turns[source].calls, entry) \in Seq([receipt : Nat, ok : BOOLEAN])
    BY <2>1, AppendProperties DEF Turn
  <2>3. recorded \in Turn
    BY <2>1, <2>2 DEF Turn
  <2>4. turns' \in {turns, [turns EXCEPT ![source] = recorded]}
    BY DEF RecordCall
  <2>5. turns \in Seq(Turn) /\ [turns EXCEPT ![source] = recorded] \in Seq(Turn)
    <3> HIDE DEF recorded
    <3> QED
      BY <2>1, <2>3, TurnUpdateType DEF HistoryOK
  <2> QED
    BY <2>4, <2>5
<1>2. CASE ~unique_turn(turns, source)
  BY <1>2 DEF RecordCall, HistoryOK
<1> QED
  BY <1>1, <1>2

-----------------------------------------------------------------------------
(* The task *)

LEMMA BookUnchanged == BookOK /\ UnchangedSchedule /\ UNCHANGED item => BookOK'
BY DEF BookOK, UnchangedSchedule

LEMMA GotoType ==
  ASSUME JournalOK, NEW p \in Proc, NEW step \in Steps, Goto(p, step), UNCHANGED <<mem, disk>>
  PROVE  JournalOK'
BY DEF Goto, JournalOK

LEMMA HeadType ==
  ASSUME StreamOK, NEW p \in Proc, stream[p] # <<>>
  PROVE  /\ Head(stream[p]) \in Event
         /\ Head(stream[p]).turn \in Nat /\ Head(stream[p]).item \in Nat
<1>1. stream[p] \in Seq(Event)
  BY DEF StreamOK
<1>2. Head(stream[p]) \in Event
  BY <1>1, HeadTailProperties
<1> QED
  BY <1>2 DEF Event

\* A nonempty set of numbers has a least one.
LEMMA LeastNumber ==
  ASSUME NEW S, S \subseteq Nat, S # {}
  PROVE  \E i \in S : \A j \in S : i <= j
<1>1. PICK i \in S : \A j \in S : <<j, i>> \notin OpToRel(<, Nat)
  BY NatLessThanWellFounded, WFMin
<1>2. \A j \in S : ~(j < i)
  BY <1>1 DEF OpToRel
<1> QED
  BY <1>2

LEMMA DrainStartedType ==
  ASSUME StreamOK, NEW p \in Proc, NEW n \in Drained(p)
  PROVE  DrainStarted(p, n).code \in Outcomes /\ DrainStarted(p, n).turn \in Nat
<1> DEFINE bad == {i \in 1..n : StartedError(p, i) # "None"}
           starts == {i \in 1..n : stream[p][i].type = "TurnStarted"}
           first(S) == CHOOSE i \in S : \A j \in S : i <= j
<1>1. \A i : StartedError(p, i) \in Outcomes
  BY CodeTypes DEF StartedError, Outcomes, ErrorCodes
<1>2. "None" \in Outcomes
  BY DEF Outcomes
<1>3. ASSUME starts # {} PROVE stream[p][first(starts)].turn \in Nat
  <2>1. n \in Nat /\ \A i \in 1..n : stream[p][i] \in Event
    BY DrainedType
  <2>2. starts \subseteq Nat
    BY <2>1
  <2> HIDE DEF starts
  <2>3. \E i \in starts : \A j \in starts : i <= j
    BY <1>3, <2>2, LeastNumber
  <2>4. first(starts) \in starts
    BY <2>3
  <2>5. first(starts) \in 1..n
    BY <2>4 DEF starts
  <2> HIDE DEF first
  <2> QED
    BY <2>1, <2>5 DEF Event
<1>4. DrainStarted(p, n) =
        IF bad # {} THEN [code |-> StartedError(p, first(bad)), turn |-> 0]
        ELSE [code |-> "None",
              turn |-> IF starts = {} THEN 0 ELSE stream[p][first(starts)].turn]
  BY DEF DrainStarted
<1> HIDE DEF bad, starts, first
<1> QED
  BY <1>1, <1>2, <1>3, <1>4

LEMMA RejectQueuedType ==
  ASSUME TypeOK, NEW p \in Proc, NEW allowed, NEW step \in Steps,
         RejectQueued(p, allowed, step)
  PROVE  TypeOK'
<1> DEFINE code(i) == IF Competes(stream[p][i], allowed) THEN "RaceLost"
                      ELSE StreamError(stream[p][i], "SharedAppServerUnavailable")
<1>1. \A i : code(i) \in Outcomes
  BY CodeTypes DEF Outcomes, ErrorCodes, CancellationErrors
<1>2. PICK n \in Drained(p) :
        /\ Consume(p, n)
        /\ \/ Goto(p, step) /\ UNCHANGED <<mem, disk>>
           \/ \E i \in 1..n : Stop(p, code(i))
  BY DEF RejectQueued
<1> HIDE DEF code
<1>3. StreamOK'
  BY <1>2, DrainedType, ConsumeType, TypeParts
<1>4. JournalOK'
  BY <1>1, <1>2, GotoType, StopType, TypeParts
<1> QED
  BY <1>3, <1>4, TypeParts, TypePartsPrimed, BookUnchanged
     DEF RejectQueued, HistoryOK, ChannelOK

LEMMA RejectStartedType ==
  ASSUME TypeOK, NEW p \in Proc, NEW step \in Steps, RejectStarted(p, step)
  PROVE  TypeOK'
<1>1. PICK n \in Drained(p) :
        /\ Consume(p, n)
        /\ \/ Stop(p, DrainStarted(p, n).code)
           \/ Stop(p, "RaceLost")
           \/ Goto(p, step) /\ UNCHANGED <<mem, disk>>
  BY DEF RejectStarted
<1>2. StreamOK'
  BY <1>1, DrainedType, ConsumeType, TypeParts
<1>3. DrainStarted(p, n).code \in Outcomes /\ "RaceLost" \in Outcomes
  BY DrainStartedType, TypeParts DEF Outcomes, ErrorCodes, CancellationErrors
<1>4. JournalOK'
  BY <1>1, <1>3, GotoType, StopType, TypeParts
<1> QED
  BY <1>2, <1>4, TypeParts, TypePartsPrimed, BookUnchanged
     DEF RejectStarted, HistoryOK, ChannelOK

LEMMA ReadThreadType ==
  ASSUME TypeOK, NEW p \in Proc, NEW code \in Outcomes, NEW step \in Steps,
         ReadThread(p, code, step)
  PROVE  TypeOK'
<1>1. "SharedAppServerUnavailable" \in Outcomes
  BY DEF Outcomes, ErrorCodes
<1>2. JournalOK'
  BY <1>1, GotoType, StopType, TypeParts DEF ReadThread
<1>3. StreamOK'
  BY LenProperties, TypeParts DEF ReadThread, Synchronise, StreamOK
<1> QED
  BY <1>2, <1>3, TypeParts, TypePartsPrimed, BookUnchanged
     DEF ReadThread, HistoryOK, ChannelOK

LEMMA RecordType ==
  ASSUME TypeOK, NEW p \in Proc, NEW step, NEW state \in TransitionStates,
         NEW next \in Steps, Record(p, step, state, next)
  PROVE  TypeOK'
<1>1. JournalOK'
  BY AdvanceType, TypeParts DEF Record, JournalOK
<1> QED
  BY <1>1, TypeParts, TypePartsPrimed, BookUnchanged
     DEF Record, UnchangedThread, threadVars, HistoryOK, StreamOK, ChannelOK

LEMMA SendOnceType ==
  ASSUME TypeOK, NEW p \in Proc, NEW step, NEW method \in Methods, NEW next \in Steps,
         NEW onError \in Outcomes, SendOnce(p, step, method, next, onError)
  PROVE  TypeOK'
<1>1. mem[p].tid \in Nat
  BY TypeParts, JournalFields DEF JournalOK
<1>2. CASE Stop(p, onError) /\ UnchangedThread
  BY <1>2, StopType, TypeParts, TypePartsPrimed, BookUnchanged
     DEF SendOnce, UnchangedThread, threadVars, HistoryOK, StreamOK, ChannelOK
<1>3. CASE Send(p, method, mem[p].tid) /\ Goto(p, next)
           /\ UNCHANGED <<turns, injections, conn, stream, synced, mem, disk>>
  <2>1. ChannelOK'
    BY <1>1, <1>3, SendType, TypeParts
  <2> QED
    BY <1>3, <2>1, GotoType, TypeParts, TypePartsPrimed, BookUnchanged
       DEF SendOnce, HistoryOK, StreamOK
<1> QED
  BY <1>2, <1>3 DEF SendOnce

\* What is left when a step changes the journal and the events of a connection.
LEMMA EventStepType ==
  ASSUME TypeOK, NEW p \in Proc, NEW n \in Nat, Consume(p, n), JournalOK', BookOK',
         UNCHANGED <<turns, injections, inbox, call, conn>>
  PROVE  TypeOK'
<1>1. StreamOK'
  BY ConsumeType, TypeParts
<1> QED
  BY <1>1, TypeParts, TypePartsPrimed DEF HistoryOK, ChannelOK

LEMMA AwaitSourceType ==
  ASSUME TypeOK, NEW p \in Proc, AwaitSource(p)
  PROVE  TypeOK'
<1> DEFINE event == Head(stream[p])
           code == StreamError(event, "SharedAppServerUnavailable")
<1>1. /\ code \in Outcomes /\ "SourceTurnFailed" \in Outcomes /\ "RaceLost" \in Outcomes
      /\ "drainSource" \in Steps
  BY CodeTypes DEF Outcomes, ErrorCodes, CancellationErrors, Steps, CompactSteps
<1>2. \/ Goto(p, "drainSource") /\ UNCHANGED <<mem, disk>>
      \/ Stop(p, "SourceTurnFailed") \/ Stop(p, "RaceLost") \/ Stop(p, code)
      \/ UNCHANGED <<pc, mem, disk>>
  BY DEF AwaitSource
<1> HIDE DEF code, event
<1>3. JournalOK'
  <2>1. CASE UNCHANGED <<pc, mem, disk>>
    BY <2>1, TypeParts DEF JournalOK
  <2> QED
    BY <1>1, <1>2, <2>1, GotoType, StopType, TypeParts
<1> QED
  BY <1>3, EventStepType, BookUnchanged, TypeParts DEF AwaitSource

LEMMA WaitCompactType ==
  ASSUME TypeOK, NEW p \in Proc, WaitCompact(p)
  PROVE  TypeOK'
<1>1. "CompactionFailed" \in Outcomes /\ "awaitCompaction" \in Steps /\ NoCall \in Call
  BY DEF Outcomes, ErrorCodes, Steps, CompactSteps, NoCall, Call
<1>2. JournalOK'
  BY <1>1, GotoType, StopType, TypeParts DEF WaitCompact
<1>3. ChannelOK' /\ BookOK'
  BY <1>1, TypeParts DEF WaitCompact, ChannelOK, BookOK, UnchangedSchedule
<1> QED
  BY <1>2, <1>3, TypeParts, TypePartsPrimed DEF WaitCompact, HistoryOK, StreamOK

LEMMA AwaitCompactionType ==
  ASSUME TypeOK, NEW p \in Proc, AwaitCompaction(p)
  PROVE  TypeOK'
<1> DEFINE event == Head(stream[p])
           verdict == CompactionVerdict(mem[p], item[p], event)
           bound == [mem[p] EXCEPT !.compact = event.turn]
<1>1. event.turn \in Nat /\ event.item \in Nat /\ mem[p] \in Journal
  BY HeadType, TypeParts DEF AwaitCompaction, JournalOK
<1>2. bound \in Journal
  BY <1>1, JournalFields
<1>3. /\ "AwaitCompactionItem" \in TransitionStates
      /\ "AwaitCompactionTurnCompleted" \in TransitionStates
      /\ "awaitCompaction" \in Steps /\ "drainCompact" \in Steps
      /\ ErrorCodes \subseteq Outcomes
  BY DEF TransitionStates, Compacting, Steps, CompactSteps, Outcomes
<1>4. /\ \/ Advance(p, bound, "AwaitCompactionItem", "awaitCompaction")
         \/ Advance(p, mem[p], "AwaitCompactionTurnCompleted", "awaitCompaction")
         \/ Goto(p, "drainCompact") /\ UNCHANGED <<mem, disk>>
         \/ UNCHANGED <<pc, mem, disk>>
         \/ verdict \in ErrorCodes /\ Stop(p, verdict)
      /\ item' = [item EXCEPT ![p] = IF verdict = "item" THEN event.item ELSE @]
  BY DEF AwaitCompaction
<1> HIDE DEF verdict, bound, event
<1>5. JournalOK'
  <2>1. CASE UNCHANGED <<pc, mem, disk>>
    BY <2>1, TypeParts DEF JournalOK
  <2> QED
    BY <1>1, <1>2, <1>3, <1>4, <2>1, AdvanceType, GotoType, StopType, TypeParts
<1>6. BookOK'
  BY <1>1, <1>4, TypeParts DEF AwaitCompaction, BookOK, UnchangedSchedule
<1> QED
  BY <1>5, <1>6, EventStepType DEF AwaitCompaction

LEMMA SaveCapsuleType ==
  ASSUME TypeOK, NEW p \in Proc, SaveCapsule(p)
  PROVE  TypeOK'
<1> DEFINE journal == [mem[p] EXCEPT !.capsule = TRUE]
           kept(outcome) == IF outcome = "ok" THEN journal ELSE Conclude(journal, "Io")
           step(outcome) == IF outcome = "ok" THEN "drainInject" ELSE "finish"
<1>1. journal \in Journal
  BY TypeParts, JournalFields DEF JournalOK
<1>2. Conclude(journal, "Io") \in Journal
  BY <1>1, ConcludeType DEF Outcomes, ErrorCodes
<1>3. \A outcome : kept(outcome) \in Journal /\ step(outcome) \in Steps
  BY <1>1, <1>2 DEF Steps, InjectSteps
<1>4. \/ Stop(p, "CheckpointTooLarge")
      \/ \E outcome \in SaveOutcomes :
           /\ Save(journal, outcome)
           /\ mem' = [mem EXCEPT ![p] = kept(outcome)]
           /\ Goto(p, step(outcome))
  BY DEF SaveCapsule
<1>5. "CheckpointTooLarge" \in Outcomes
  BY DEF Outcomes, ErrorCodes
<1> HIDE DEF journal, kept, step
<1>6. JournalOK'
  BY <1>1, <1>3, <1>4, <1>5, StopType, SaveType, TypeParts
<1> QED
  BY <1>6, TypeParts, TypePartsPrimed, BookUnchanged
     DEF SaveCapsule, UnchangedThread, threadVars, HistoryOK, StreamOK, ChannelOK

\* run_transition keeps the types.
LEMMA CompactNextType ==
  ASSUME TypeOK, NEW p \in Proc, CompactNext(p)
  PROVE  TypeOK'
<1> USE DEF Steps, CompactSteps
<1>1. CASE AwaitSource(p) \/ WaitCompact(p) \/ AwaitCompaction(p) \/ SaveCapsule(p)
  BY <1>1, AwaitSourceType, WaitCompactType, AwaitCompactionType, SaveCapsuleType
<1>2. CASE DrainSource(p)
  BY <1>2, RejectQueuedType DEF DrainSource
<1>3. CASE RedrainSource(p)
  BY <1>3, RejectQueuedType DEF RedrainSource
<1>4. CASE DrainCompact(p)
  BY <1>4, RejectQueuedType DEF DrainCompact
<1>5. CASE ReadSource(p)
  BY <1>5, ReadThreadType, CodeTypes DEF ReadSource
<1>6. CASE ReadCompact(p)
  BY <1>6, ReadThreadType, CodeTypes DEF ReadCompact
<1>7. CASE GuardSource(p)
  BY <1>7, ReadThreadType, CodeTypes DEF GuardSource, GuardDescendants
<1>8. CASE SaveReady(p)
  BY <1>8, RecordType DEF SaveReady, TransitionStates, BeforeMutation
<1>9. CASE SaveSent(p)
  BY <1>9, RecordType DEF SaveSent, TransitionStates, Compacting
<1>10. CASE SendCompact(p)
  BY <1>10, SendOnceType DEF SendCompact, Methods, Outcomes, ErrorCodes
<1> QED
  BY <1>1, <1>2, <1>3, <1>4, <1>5, <1>6, <1>7, <1>8, <1>9, <1>10 DEF CompactNext

-----------------------------------------------------------------------------
(* Injection and continuation *)

LEMMA DoneType ==
  ASSUME NEW p
  PROVE  Done(p) \in Steps
BY DEF Done, Steps

LEMMA UserWinsType ==
  ASSUME JournalOK, NEW p \in Proc, NEW turn \in Nat, UserWins(p, turn)
  PROVE  JournalOK'
<1>1. [mem[p] EXCEPT !.cont = turn] \in Journal
  BY JournalFields DEF JournalOK
<1>2. "Cooldown" \in TransitionStates
  BY DEF TransitionStates, Terminal
<1> QED
  BY <1>1, <1>2, DoneType, AdvanceType DEF UserWins

LEMMA WaitInjectType ==
  ASSUME TypeOK, NEW p \in Proc, WaitInject(p)
  PROVE  TypeOK'
<1>1. "InjectionFailed" \in Outcomes /\ "saveStarting" \in Steps /\ NoCall \in Call
  BY DEF Outcomes, ErrorCodes, Steps, InjectSteps, NoCall, Call
<1>2. JournalOK'
  BY <1>1, GotoType, StopType, TypeParts DEF WaitInject
<1>3. ChannelOK'
  BY <1>1, TypeParts DEF WaitInject, ChannelOK
<1> QED
  BY <1>2, <1>3, TypeParts, TypePartsPrimed, BookUnchanged DEF WaitInject, HistoryOK,
         StreamOK

LEMMA DrainUserType ==
  ASSUME TypeOK, NEW p \in Proc, DrainUser(p)
  PROVE  TypeOK'
<1>1. PICK n \in Drained(p) :
        /\ Consume(p, n)
        /\ \/ Stop(p, DrainStarted(p, n).code)
           \/ UserWins(p, DrainStarted(p, n).turn)
           \/ Goto(p, "sendStart") /\ UNCHANGED <<mem, disk>>
  BY DEF DrainUser
<1>2. n \in Nat /\ DrainStarted(p, n).code \in Outcomes /\ DrainStarted(p, n).turn \in Nat
  BY DrainedType, DrainStartedType, TypeParts
<1>3. "sendStart" \in Steps
  BY DEF Steps, InjectSteps
<1>4. JournalOK'
  BY <1>1, <1>2, <1>3, GotoType, StopType, UserWinsType, TypeParts
<1> QED
  BY <1>1, <1>2, <1>4, EventStepType, BookUnchanged, TypeParts DEF DrainUser

LEMMA WaitStartType ==
  ASSUME TypeOK, NEW p \in Proc, WaitStart(p)
  PROVE  TypeOK'
<1> DEFINE started == [mem[p] EXCEPT !.cont = call[p].turn]
<1>1. /\ "ContinuationUnsupported" \in Outcomes /\ "awaitStarted" \in Steps
      /\ NoCall \in Call /\ "AwaitContinuationStarted" \in TransitionStates
  BY DEF Outcomes, ErrorCodes, Steps, InjectSteps, NoCall, Call, TransitionStates, Injecting
<1>2. started \in Journal
  BY TypeParts, JournalFields DEF JournalOK, ChannelOK, Call
<1>3. /\ Advance(p, started, "AwaitContinuationStarted", "awaitStarted")
      /\ UNCHANGED <<stream, synced>>
      => JournalOK' /\ StreamOK'
  <2> HIDE DEF started
  <2> QED
    BY <1>1, <1>2, AdvanceType, TypeParts DEF StreamOK
<1>4. Stop(p, "ContinuationUnsupported") /\ UNCHANGED <<stream, synced>>
      => JournalOK' /\ StreamOK'
  BY <1>1, StopType, TypeParts DEF StreamOK
<1>5. ASSUME NEW n \in Drained(p), Consume(p, n),
             \/ Stop(p, DrainStarted(p, n).code)
             \/ UserWins(p, DrainStarted(p, n).turn)
             \/ Stop(p, "ContinuationUnsupported")
      PROVE  JournalOK' /\ StreamOK'
  <2>1. n \in Nat /\ DrainStarted(p, n).code \in Outcomes
        /\ DrainStarted(p, n).turn \in Nat
    BY DrainedType, DrainStartedType, TypeParts
  <2> QED
    BY <1>1, <1>5, <2>1, StopType, UserWinsType, ConsumeType, TypeParts
<1>6. JournalOK' /\ StreamOK'
  <2> HIDE DEF started
  <2>1. \/ /\ Advance(p, started, "AwaitContinuationStarted", "awaitStarted")
           /\ UNCHANGED <<stream, synced>>
        \/ Stop(p, "ContinuationUnsupported") /\ UNCHANGED <<stream, synced>>
        \/ \E n \in Drained(p) :
             /\ Consume(p, n)
             /\ \/ Stop(p, DrainStarted(p, n).code)
                \/ UserWins(p, DrainStarted(p, n).turn)
                \/ Stop(p, "ContinuationUnsupported")
    BY DEF WaitStart, started
  <2> QED
    BY <1>3, <1>4, <1>5, <2>1
<1>7. ChannelOK'
  BY <1>1, TypeParts DEF WaitStart, ChannelOK
<1> QED
  BY <1>6, <1>7, TypeParts, TypePartsPrimed, BookUnchanged DEF WaitStart, HistoryOK

LEMMA AwaitStartedType ==
  ASSUME TypeOK, NEW p \in Proc, AwaitStarted(p)
  PROVE  TypeOK'
<1>1. /\ "RaceLost" \in Outcomes /\ "ServerRequestReceived" \in Outcomes
      /\ "saveCooldown" \in Steps /\ "confirmStarted" \in Steps
  BY DEF Outcomes, ErrorCodes, CancellationErrors, Steps, InjectSteps
<1>2. \/ Goto(p, "saveCooldown") /\ UNCHANGED <<mem, disk>>
      \/ Goto(p, "confirmStarted") /\ UNCHANGED <<mem, disk>>
      \/ Stop(p, "RaceLost") \/ Stop(p, "ServerRequestReceived")
      \/ UNCHANGED <<pc, mem, disk>>
  BY DEF AwaitStarted
<1>3. JournalOK'
  <2>1. CASE UNCHANGED <<pc, mem, disk>>
    BY <2>1, TypeParts DEF JournalOK
  <2> QED
    BY <1>1, <1>2, <2>1, GotoType, StopType, TypeParts
<1> QED
  BY <1>3, EventStepType, BookUnchanged, TypeParts DEF AwaitStarted

LEMMA ConfirmStartedType ==
  ASSUME TypeOK, NEW p \in Proc, ConfirmStarted(p)
  PROVE  TypeOK'
<1>1. "RecoveryAmbiguous" \in Outcomes /\ "saveCooldown" \in Steps
  BY DEF Outcomes, ErrorCodes, Steps, InjectSteps
<1>2. JournalOK'
  BY <1>1, GotoType, StopType, TypeParts DEF ConfirmStarted
<1> QED
  BY <1>2, TypeParts, TypePartsPrimed, BookUnchanged
     DEF ConfirmStarted, UnchangedThread, threadVars, HistoryOK, StreamOK, ChannelOK

\* inject_and_continue keeps the types.
LEMMA InjectNextType ==
  ASSUME TypeOK, NEW p \in Proc, InjectNext(p)
  PROVE  TypeOK'
<1> USE DEF Steps, InjectSteps
<1>1. CASE \/ WaitInject(p) \/ DrainUser(p) \/ WaitStart(p)
           \/ AwaitStarted(p) \/ ConfirmStarted(p)
  BY <1>1, WaitInjectType, DrainUserType, WaitStartType, AwaitStartedType,
     ConfirmStartedType
<1>2. CASE DrainInject(p)
  BY <1>2, RejectStartedType DEF DrainInject
<1>3. CASE RedrainInject(p)
  BY <1>3, RejectStartedType DEF RedrainInject
<1>4. CASE GuardInject(p)
  BY <1>4, ReadThreadType, CodeTypes DEF GuardInject, GuardDescendants
<1>5. CASE SaveInjecting(p)
  BY <1>5, RecordType DEF SaveInjecting, TransitionStates, Injecting
<1>6. CASE SaveStarting(p)
  BY <1>6, RecordType DEF SaveStarting, TransitionStates, Injecting
<1>7. CASE SaveCooldown(p)
  BY <1>7, RecordType, DoneType DEF SaveCooldown, TransitionStates, Terminal
<1>8. CASE SendInject(p)
  BY <1>8, SendOnceType DEF SendInject, Methods, Outcomes, ErrorCodes
<1>9. CASE SendStart(p)
  BY <1>9, SendOnceType DEF SendStart, Methods, Outcomes, ErrorCodes
<1> QED
  BY <1>1, <1>2, <1>3, <1>4, <1>5, <1>6, <1>7, <1>8, <1>9 DEF InjectNext

-----------------------------------------------------------------------------
(* The end of a task, recovery and scheduling *)

LEMMA LastStepsType ==
  ASSUME TypeOK, NEW p \in Proc, WaitExpires(p) \/ TaskFinish(p)
  PROVE  TypeOK'
<1>1. CASE WaitExpires(p)
  <2>1. JournalOK'
    BY <1>1, StopType, TypeParts DEF WaitExpires, Outcomes, ErrorCodes
  <2> QED
    BY <1>1, <2>1, TypeParts, TypePartsPrimed, BookUnchanged
       DEF WaitExpires, UnchangedThread, threadVars, HistoryOK, StreamOK, ChannelOK
<1>2. CASE TaskFinish(p)
  <2>1. JournalOK'
    BY <1>2, TypeParts DEF TaskFinish, Save, Goto, Steps, JournalOK
  <2> QED
    BY <1>2, <2>1, TypeParts, TypePartsPrimed, BookUnchanged
       DEF TaskFinish, UnchangedThread, threadVars, HistoryOK, StreamOK, ChannelOK
<1> QED
  BY <1>1, <1>2

LEMMA CleanupType ==
  ASSUME TypeOK, NEW p \in Proc, Cleanup(p)
  PROVE  TypeOK'
<1>1. StreamOK' /\ ChannelOK'
  BY UnsubscribeType, TypeParts DEF Cleanup, ChannelOK
<1>2. JournalOK'
  BY NoJournalType, TypeParts DEF Cleanup, Goto, Steps, JournalOK
<1>3. BookOK'
  BY TypeParts DEF Cleanup, BookOK
<1> QED
  BY <1>1, <1>2, <1>3, TypeParts, TypePartsPrimed DEF Cleanup, HistoryOK

LEMMA RecoveryNextType ==
  ASSUME TypeOK, NEW p \in Proc, RecoveryNext(p)
  PROVE  TypeOK'
<1> USE DEF Steps, RecoverySteps, InjectSteps
<1>1. mem[p] \in Journal /\ NoJournal \in Journal
  BY NoJournalType, TypeParts DEF JournalOK
<1>2. /\ "ProcessRestarted" \in Outcomes /\ "RecoveryAmbiguous" \in Outcomes
      /\ "SharedAppServerUnavailable" \in Outcomes /\ "RaceLost" \in Outcomes
      /\ "Cooldown" \in TransitionStates
  BY DEF Outcomes, ErrorCodes, CancellationErrors, TransitionStates, Terminal
<1>3. CASE RecoverSkip(p)
  <2>1. JournalOK'
    BY <1>1, <1>3, TypeParts DEF RecoverSkip, Goto, JournalOK
  <2> QED
    BY <1>3, <2>1, TypeParts, TypePartsPrimed, BookUnchanged
       DEF RecoverSkip, UnchangedThread, threadVars, HistoryOK, StreamOK, ChannelOK
<1>4. CASE RecoverBegin(p)
  <2>1. /\ cancel(mem[p], "ProcessRestarted") \in Journal
        /\ fail(mem[p], "RecoveryAmbiguous") \in Journal
    BY <1>1, <1>2, ConcludeType
  <2>2. \/ mem' = [mem EXCEPT ![p] = cancel(@, "ProcessRestarted")] /\ Goto(p, "finish")
        \/ mem' = [mem EXCEPT ![p] = fail(@, "RecoveryAmbiguous")] /\ Goto(p, "finish")
        \/ UNCHANGED mem /\ Goto(p, "resume")
        \/ UNCHANGED mem /\ Goto(p, "confirm")
    BY <1>4 DEF RecoverBegin
  <2>3. UNCHANGED disk
    BY <1>4 DEF RecoverBegin
  <2>4. JournalOK'
    BY <2>1, <2>2, <2>3, TypeParts DEF Goto, JournalOK
  <2>5. BookOK'
    BY <1>4, TypeParts DEF RecoverBegin, BookOK
  <2> QED
    BY <1>4, <2>4, <2>5, TypeParts, TypePartsPrimed
       DEF RecoverBegin, UnchangedThread, threadVars, HistoryOK, StreamOK, ChannelOK
<1>5. CASE RecoverResume(p)
  <2>1. JournalOK'
    BY <1>2, <1>5, StopType, GotoType, TypeParts DEF RecoverResume
  <2>2. StreamOK' /\ ChannelOK'
    BY <1>5, SubscribeType, TypeParts
       DEF RecoverResume, UnchangedThread, threadVars, StreamOK, ChannelOK
  <2>3. HistoryOK'
    BY <1>5, TypeParts DEF RecoverResume, UnchangedThread, threadVars, HistoryOK
  <2> QED
    BY <1>5, <2>1, <2>2, <2>3, TypeParts, TypePartsPrimed, BookUnchanged DEF RecoverResume
<1>6. CASE RecoverConfirm(p)
  <2>1. [mem[p] EXCEPT !.state = "Cooldown"] \in Journal
    BY <1>1, <1>2, JournalFields
  <2>2. \/ Stop(p, "SharedAppServerUnavailable") \/ Stop(p, "RecoveryAmbiguous")
        \/ /\ mem' = [mem EXCEPT ![p] = [mem[p] EXCEPT !.state = "Cooldown"]]
           /\ Goto(p, "finish") /\ UNCHANGED disk
    BY <1>6 DEF RecoverConfirm
  <2>3. JournalOK'
    <3>1. CASE /\ mem' = [mem EXCEPT ![p] = [mem[p] EXCEPT !.state = "Cooldown"]]
               /\ Goto(p, "finish") /\ UNCHANGED disk
      BY <2>1, <3>1, TypeParts DEF Goto, JournalOK
    <3> QED
      BY <1>2, <2>2, <3>1, StopType, TypeParts
  <2> QED
    BY <1>6, <2>3, TypeParts, TypePartsPrimed, BookUnchanged
       DEF RecoverConfirm, UnchangedThread, threadVars, HistoryOK, StreamOK, ChannelOK
<1>7. CASE RecoverFinish(p)
  <2>1. JournalOK'
    BY <1>1, <1>7, TypeParts DEF RecoverFinish, Save, Goto, JournalOK
  <2>2. StreamOK' /\ ChannelOK'
    BY <1>7, UnsubscribeType, TypeParts DEF RecoverFinish, ChannelOK
  <2>3. BookOK'
    BY <1>7, TypeParts DEF RecoverFinish, BookOK
  <2> QED
    BY <1>7, <2>1, <2>2, <2>3, TypeParts, TypePartsPrimed DEF RecoverFinish, HistoryOK
<1> QED
  BY <1>3, <1>4, <1>5, <1>6, <1>7 DEF RecoveryNext

\* An answer of the handler is a Boolean.
LEMMA RejectType ==
  ASSUME TypeOK, NEW p \in Proc, NEW code, Reject(p, code),
         disk' \in Journal, accepted' \in Nat
  PROVE  TypeOK'
<1>1. turns' \in Seq(Turn)
  <2>1. mem[p] \in Journal
    BY TypeParts DEF JournalOK
  <2>2. mem[p].source \in Nat
    BY <2>1, JournalFields
  <2>3. is_expected_rejection(code) \in BOOLEAN
    BY DEF is_expected_rejection
  <2> QED
    BY <2>2, <2>3, RecordCallType, TypeParts DEF Reject
<1>2. StreamOK' /\ ChannelOK'
  BY UnsubscribeType, TypeParts DEF Reject, ChannelOK
<1>3. JournalOK'
  BY NoJournalType, TypeParts DEF Reject, Goto, Steps, JournalOK
<1>4. BookOK'
  BY TypeParts DEF Reject, BookOK
<1> QED
  BY <1>1, <1>2, <1>3, <1>4, TypeParts, TypePartsPrimed DEF Reject, HistoryOK

LEMMA PrepareType ==
  ASSUME TypeOK, NEW p \in Proc, Prepare(p)
  PROVE  TypeOK'
<1>1. CASE \E code : Reject(p, code) /\ UNCHANGED <<disk, accepted>>
  BY <1>1, RejectType, TypeParts DEF JournalOK, BookOK
<1>2. CASE /\ Subscribe(p) /\ Goto(p, "accept")
           /\ UNCHANGED <<turns, injections, inbox, call, disk, mem, item>>
           /\ UnchangedSchedule
  <2>1. JournalOK'
    BY <1>2, GotoType, TypeParts DEF Steps, ScheduleSteps
  <2> QED
    BY <1>2, <2>1, SubscribeType, TypeParts, TypePartsPrimed, BookUnchanged DEF HistoryOK
<1> QED
  BY <1>1, <1>2 DEF Prepare

LEMMA AcceptType ==
  ASSUME TypeOK, NEW p \in Proc, Accept(p)
  PROVE  TypeOK'
<1> DEFINE journal == NewJournal(accepted + 1, mem[p].source)
<1>1. accepted + 1 \in Nat /\ mem[p].source \in Nat
  <2>1. mem[p] \in Journal /\ accepted \in Nat
    BY TypeParts DEF JournalOK, BookOK
  <2>2. mem[p].source \in Nat
    BY <2>1, JournalFields
  <2> QED
    BY <2>1, <2>2
<1>2. journal \in Journal
  BY <1>1, NoJournalType
<1>3. PICK outcome \in SaveOutcomes :
        /\ Save(journal, outcome)
        /\ \/ /\ mem' = [mem EXCEPT ![p] = journal]
              /\ Goto(p, "acceptAwait")
              /\ UnchangedThread /\ UNCHANGED <<lease, registry, item, boots>>
           \/ Reject(p, "Io")
  BY DEF Accept
<1> HIDE DEF journal
<1>4. disk' \in Journal
  BY <1>2, <1>3, TypeParts DEF Save, JournalOK
<1>5. accepted' \in Nat
  BY <1>1 DEF Accept
<1>6. CASE /\ mem' = [mem EXCEPT ![p] = journal]
           /\ Goto(p, "acceptAwait")
           /\ UnchangedThread /\ UNCHANGED <<lease, registry, item, boots>>
  <2>1. JournalOK' /\ BookOK'
    BY <1>2, <1>4, <1>5, <1>6, TypeParts DEF Goto, Steps, ScheduleSteps, JournalOK, BookOK
  <2> QED
    BY <1>6, <2>1, TypeParts, TypePartsPrimed
       DEF UnchangedThread, threadVars, HistoryOK, StreamOK, ChannelOK
<1> QED
  BY <1>3, <1>4, <1>5, <1>6, RejectType

LEMMA AcceptAwaitType ==
  ASSUME TypeOK, NEW p \in Proc, AcceptAwait(p)
  PROVE  TypeOK'
<1> DEFINE journal == [mem[p] EXCEPT !.state = "AwaitSourceTurnCompleted"]
<1>1. mem[p].source \in Nat /\ mem[p].tid \in Nat /\ journal \in Journal
  BY JournalFields, TypeParts DEF JournalOK, TransitionStates, BeforeMutation
<1>2. PICK outcome \in SaveOutcomes :
        /\ Save(journal, outcome)
        /\ \/ /\ mem' = [mem EXCEPT ![p] = journal]
              /\ Goto(p, "awaitSource")
              /\ RecordCall(mem[p].source, mem[p].tid, TRUE)
              /\ UNCHANGED <<injections, inbox, call, conn, stream, synced,
                             lease, registry, item, boots>>
           \/ Reject(p, "Io")
  BY DEF AcceptAwait
<1> HIDE DEF journal
<1>3. disk' \in Journal /\ accepted' = accepted /\ accepted' \in Nat
  BY <1>1, <1>2, TypeParts DEF AcceptAwait, Save, JournalOK, BookOK
<1>4. CASE /\ mem' = [mem EXCEPT ![p] = journal]
           /\ Goto(p, "awaitSource")
           /\ RecordCall(mem[p].source, mem[p].tid, TRUE)
           /\ UNCHANGED <<injections, inbox, call, conn, stream, synced,
                          lease, registry, item, boots>>
  <2>1. JournalOK' /\ BookOK'
    BY <1>1, <1>3, <1>4, TypeParts DEF Goto, Steps, CompactSteps, JournalOK, BookOK
  <2>2. turns' \in Seq(Turn)
    BY <1>1, <1>4, RecordCallType, TypeParts
  <2> QED
    BY <1>4, <2>1, <2>2, TypeParts, TypePartsPrimed DEF HistoryOK, StreamOK, ChannelOK
<1> QED
  BY <1>2, <1>3, <1>4, RejectType

LEMMA CallRejectedType ==
  ASSUME TypeOK, NEW p \in Proc, CallRejected(p)
  PROVE  TypeOK'
<1>1. Len(turns) \in Nat
  BY LenProperties, TypeParts DEF HistoryOK
<1>2. \A code : is_expected_rejection(code) \in BOOLEAN
  BY DEF is_expected_rejection
<1>3. PICK code : RecordCall(Len(turns), 0, is_expected_rejection(code))
  BY DEF CallRejected
<1>4. turns' \in Seq(Turn)
  BY <1>1, <1>2, <1>3, RecordCallType, TypeParts
<1> QED
  BY <1>4, TypeParts, TypePartsPrimed
     DEF CallRejected, programVars, HistoryOK, StreamOK, ChannelOK, JournalOK, BookOK

LEMMA ScheduleBeginType ==
  ASSUME TypeOK, NEW p \in Proc, ScheduleBegin(p)
  PROVE  TypeOK'
<1>1. [NoJournal EXCEPT !.source = Len(turns)] \in Journal
  BY LenProperties, NoJournalType, TypeParts DEF HistoryOK
<1>2. JournalOK' /\ BookOK'
  BY <1>1, TypeParts DEF ScheduleBegin, Goto, Steps, ScheduleSteps, JournalOK, BookOK
<1> QED
  BY <1>2, TypeParts, TypePartsPrimed
     DEF ScheduleBegin, UnchangedThread, threadVars, HistoryOK, StreamOK, ChannelOK

LEMMA BootType ==
  ASSUME TypeOK, NEW p \in Proc, Boot(p)
  PROVE  TypeOK'
<1>1. boots[p] + 1 \in Nat /\ disk \in Journal
  BY TypeParts DEF JournalOK, BookOK
<1>2. "serving" \in Steps /\ "recover" \in Steps
  BY DEF Steps, RecoverySteps
<1>3. JournalOK' /\ BookOK'
  BY <1>1, <1>2, TypeParts DEF Boot, Goto, JournalOK, BookOK
<1> QED
  BY <1>3, TypeParts, TypePartsPrimed
     DEF Boot, UnchangedThread, threadVars, HistoryOK, StreamOK, ChannelOK

LEMMA CrashType ==
  ASSUME TypeOK, NEW p \in Proc, Crash(p)
  PROVE  TypeOK'
<1>1. IsABag(inbox') /\ BagToSet(inbox') \subseteq Request
  <2> DEFINE others == [request \in {r \in BagToSet(inbox) : r.proc # p} |-> inbox[request]]
  <2>1. IsABag(others) /\ BagToSet(others) \subseteq Request
    BY RestrictedInboxType, TypeParts
  <2>2. inbox' = inbox \/ inbox' = others
    BY DEF Crash
  <2> QED
    BY <2>1, <2>2, TypeParts DEF ChannelOK
<1>2. StreamOK' /\ ChannelOK'
  BY <1>1, UnsubscribeType, TypeParts DEF Crash
<1>3. JournalOK' /\ BookOK'
  BY NoJournalType, TypeParts DEF Crash, Goto, Steps, JournalOK, BookOK
<1> QED
  BY <1>2, <1>3, TypeParts, TypePartsPrimed DEF Crash, HistoryOK

-----------------------------------------------------------------------------
(* The type invariant *)

LEMMA TypeInit == Init => TypeOK
<1> SUFFICES ASSUME Init PROVE TypeOK
  OBVIOUS
<1>1. HistoryOK
  <2>1. NewTurn("user", 0) \in Turn
    BY NewTurnType DEF Origins
  <2>2. <<NewTurn("user", 0)>> \in Seq(Turn)
    BY <2>1
  <2> QED
    BY <2>2, EmptySeq DEF Init, ThreadInit, HistoryOK
<1>2. StreamOK /\ ChannelOK
  <2>1. IsABag(EmptyBag) /\ BagToSet(EmptyBag) \subseteq Request
    BY DEF IsABag, BagToSet, EmptyBag, SetToBag
  <2> QED
    BY <2>1, EmptySeq DEF Init, ThreadInit, StreamOK, ChannelOK, NoCall, Call
<1>3. JournalOK /\ BookOK
  BY NoJournalType DEF Init, JournalOK, BookOK, Steps
<1> QED
  BY <1>1, <1>2, <1>3, TypeParts

LEMMA TypeNext == TypeOK /\ [Next]_vars => TypeOK'
<1> SUFFICES ASSUME TypeOK, [Next]_vars PROVE TypeOK'
  OBVIOUS
<1>1. CASE ThreadNext
  <2>1. ThreadTypeOK
    BY DEF TypeOK
  <2>2. ThreadTypeOK'
    BY <1>1, <2>1, UserTurnType, EndTurnType, CompactionItemStartsType,
       CompactionItemEndsType, ServeRequestType, ConnectionStepType DEF ThreadNext
  <2> QED
    BY <1>1, <2>2 DEF ThreadNext, TypeOK, programVars
<1>2. ASSUME NEW p \in Proc, Proceed(p) PROVE TypeOK'
  BY <1>2, RecoveryNextType, PrepareType, AcceptType, AcceptAwaitType, CompactNextType,
     InjectNextType, LastStepsType, CleanupType DEF Proceed
<1>3. ASSUME NEW p \in Proc, Boot(p) \/ Crash(p) \/ CallRejected(p) \/ ScheduleBegin(p)
      PROVE  TypeOK'
  BY <1>3, BootType, CrashType, CallRejectedType, ScheduleBeginType
<1>4. CASE UNCHANGED vars
  BY <1>4 DEF vars, TypeOK, ThreadTypeOK
<1> QED
  BY <1>1, <1>2, <1>3, <1>4 DEF Next

\* Every variable keeps its type, whatever the processes, faults and bounds
\* are: in particular a task never leaves the steps of run_transition, binds a
\* turn that is not a number, or stops with something that is no error code.
THEOREM TypeCorrect == Spec => []TypeOK
<1> QED
  BY TypeInit, TypeNext, PTL DEF Spec
-----------------------------------------------------------------------------
(* The lock *)

HoldingSteps == Steps \ {"down", "serving", "recover"}

\* The inductive invariant: who owns the lock can be read off the program
\* counters, which are functions on the processes.
LeaseInv == pc \in [Proc -> Steps] /\ LeaseExclusive

\* What a step of a process that owns the lock and keeps it does to both.
KeepsLease(p) ==
  /\ Holding(p)
  /\ lease' = lease
  /\ pc' = pc \/ \E step \in HoldingSteps : Goto(p, step)

\* A process that owns the lock and goes on keeps the invariant.
LEMMA KeepsLeaseInductive ==
  ASSUME LeaseInv, NEW p \in Proc, KeepsLease(p)
  PROVE  LeaseInv'
<1>1. CASE pc' = pc
  BY <1>1 DEF LeaseInv, LeaseExclusive, KeepsLease, Holding
<1>2. CASE \E step \in HoldingSteps : Goto(p, step)
  <2>1. PICK step \in HoldingSteps : Goto(p, step)
    BY <1>2
  <2>2. pc' \in [Proc -> Steps]
    BY <2>1 DEF LeaseInv, Goto, HoldingSteps
  <2>3. Holding(p)' /\ \A q \in Proc \ {p} : Holding(q)' = Holding(q)
    BY <2>1 DEF LeaseInv, Goto, HoldingSteps, Holding
  <2> QED
    BY <2>2, <2>3 DEF LeaseInv, LeaseExclusive, KeepsLease
<1> QED
  BY <1>1, <1>2 DEF KeepsLease

\* A process that gives the lock back, or takes the free lock, keeps it too.
LEMMA ReleaseInductive ==
  ASSUME LeaseInv, NEW p \in Proc, NEW step \in Steps \ HoldingSteps,
         Goto(p, step), lease' = IF lease = p THEN NoProc ELSE lease
  PROVE  LeaseInv'
<1>1. pc' \in [Proc -> Steps]
  BY DEF LeaseInv, Goto
<1>2. ~Holding(p)' /\ \A q \in Proc \ {p} : Holding(q)' = Holding(q)
  BY DEF LeaseInv, Goto, HoldingSteps, Holding
<1> QED
  BY <1>1, <1>2, NoProcAssumption DEF LeaseInv, LeaseExclusive

LEMMA TakeInductive ==
  ASSUME LeaseInv, NEW p \in Proc, NEW step \in HoldingSteps,
         Goto(p, step), lease = NoProc, lease' = p
  PROVE  LeaseInv'
<1>1. pc' \in [Proc -> Steps]
  BY DEF LeaseInv, Goto, HoldingSteps
<1>2. Holding(p)' /\ \A q \in Proc \ {p} : Holding(q)' = Holding(q)
  BY DEF LeaseInv, Goto, HoldingSteps, Holding
<1> QED
  BY <1>1, <1>2, NoProcAssumption DEF LeaseInv, LeaseExclusive

\* Up to the stored capsule the task goes from a holding step to a holding step.
LEMMA CompactKeepsLease ==
  ASSUME NEW p \in Proc, CompactNext(p)
  PROVE  KeepsLease(p)
<1> USE DEF KeepsLease, Holding, HoldingSteps, Steps, RecoverySteps, ScheduleSteps,
            CompactSteps, InjectSteps, Stop, Goto, UnchangedSchedule
<1>1. CASE AwaitSource(p)
  BY <1>1 DEF AwaitSource
<1>2. CASE DrainSource(p)
  BY <1>2 DEF DrainSource, RejectQueued
<1>3. CASE ReadSource(p)
  BY <1>3 DEF ReadSource, ReadThread
<1>4. CASE GuardSource(p)
  BY <1>4 DEF GuardSource, GuardDescendants, ReadThread
<1>5. CASE RedrainSource(p)
  BY <1>5 DEF RedrainSource, RejectQueued
<1>6. CASE SaveReady(p)
  BY <1>6 DEF SaveReady, Record, Advance
<1>7. CASE SaveSent(p)
  BY <1>7 DEF SaveSent, Record, Advance
<1>8. CASE SendCompact(p)
  BY <1>8 DEF SendCompact, SendOnce
<1>9. CASE WaitCompact(p)
  BY <1>9 DEF WaitCompact
<1>10. CASE AwaitCompaction(p)
  BY <1>10 DEF AwaitCompaction, Advance
<1>11. CASE DrainCompact(p)
  BY <1>11 DEF DrainCompact, RejectQueued
<1>12. CASE ReadCompact(p)
  BY <1>12 DEF ReadCompact, ReadThread
<1>13. CASE SaveCapsule(p)
  BY <1>13 DEF SaveCapsule
<1> QED
  BY <1>1, <1>2, <1>3, <1>4, <1>5, <1>6, <1>7, <1>8, <1>9, <1>10, <1>11, <1>12, <1>13
     DEF CompactNext


\* So do the injection and the continuation, run by a task or by recovery.
LEMMA InjectKeepsLease ==
  ASSUME NEW p \in Proc, InjectNext(p)
  PROVE  KeepsLease(p)
<1> USE DEF KeepsLease, Holding, HoldingSteps, Steps, RecoverySteps, ScheduleSteps,
            CompactSteps, InjectSteps, Stop, Goto, UnchangedSchedule
<1>1. CASE DrainInject(p)
  BY <1>1 DEF DrainInject, RejectStarted
<1>2. CASE GuardInject(p)
  BY <1>2 DEF GuardInject, GuardDescendants, ReadThread
<1>3. CASE RedrainInject(p)
  BY <1>3 DEF RedrainInject, RejectStarted
<1>4. CASE SaveInjecting(p)
  BY <1>4 DEF SaveInjecting, Record, Advance
<1>5. CASE SendInject(p)
  BY <1>5 DEF SendInject, SendOnce
<1>6. CASE WaitInject(p)
  BY <1>6 DEF WaitInject
<1>7. CASE SaveStarting(p)
  BY <1>7 DEF SaveStarting, Record, Advance
<1>8. CASE DrainUser(p)
  BY <1>8 DEF DrainUser, UserWins, Done, Advance
<1>9. CASE SendStart(p)
  BY <1>9 DEF SendStart, SendOnce
<1>10. CASE WaitStart(p)
  BY <1>10 DEF WaitStart, UserWins, Done, Advance
<1>11. CASE AwaitStarted(p)
  BY <1>11 DEF AwaitStarted
<1>12. CASE ConfirmStarted(p)
  BY <1>12 DEF ConfirmStarted
<1>13. CASE SaveCooldown(p)
  BY <1>13 DEF SaveCooldown, Record, Done, Advance
<1> QED
  BY <1>1, <1>2, <1>3, <1>4, <1>5, <1>6, <1>7, <1>8, <1>9, <1>10, <1>11, <1>12, <1>13
     DEF InjectNext

\* Every step a process takes by itself.
LEMMA ProceedInductive ==
  ASSUME LeaseInv, NEW p \in Proc, Proceed(p)
  PROVE  LeaseInv'
<1> USE DEF Holding, HoldingSteps, Steps, RecoverySteps, ScheduleSteps, CompactSteps,
            InjectSteps, Goto, UnchangedSchedule
<1>1. CASE RecoverSkip(p)
  <2>1. lease # p
    BY <1>1 DEF RecoverSkip, LeaseInv, LeaseExclusive
  <2> QED
    BY <1>1, <2>1, ReleaseInductive DEF RecoverSkip
<1>2. CASE RecoverBegin(p)
  <2>1. \E step \in HoldingSteps : Goto(p, step)
    BY <1>2 DEF RecoverBegin
  <2> QED
    BY <1>2, <2>1, TakeInductive DEF RecoverBegin
<1>3. CASE RecoverResume(p) \/ RecoverConfirm(p)
  <2>1. KeepsLease(p)
    BY <1>3 DEF RecoverResume, RecoverConfirm, Stop, KeepsLease
  <2> QED
    BY <2>1, KeepsLeaseInductive
<1>4. CASE RecoverFinish(p)
  <2>1. lease = p
    BY <1>4 DEF RecoverFinish, LeaseInv, LeaseExclusive
  <2>2. \E step \in Steps \ HoldingSteps : Goto(p, step)
    BY <1>4 DEF RecoverFinish
  <2> QED
    BY <1>4, <2>1, <2>2, ReleaseInductive DEF RecoverFinish
<1>5. CASE Prepare(p) \/ Accept(p) \/ AcceptAwait(p)
  <2>1. lease = p
    BY <1>5 DEF Prepare, Accept, AcceptAwait, LeaseInv, LeaseExclusive
  <2>2. CASE \E code \in ErrorCodes \union {"None"} : Reject(p, code)
    <3>1. Goto(p, "serving") /\ lease' = NoProc
      BY <2>2 DEF Reject
    <3> QED
      BY <2>1, <3>1, ReleaseInductive
  <2>3. CASE KeepsLease(p)
    BY <2>3, KeepsLeaseInductive
  <2> QED
    BY <1>5, <2>2, <2>3
       DEF Prepare, Accept, AcceptAwait, KeepsLease, DescendantErrors, ErrorCodes,
           CancellationErrors, preflight_root_and_cooldown
<1>6. CASE CompactNext(p)
  BY <1>6, CompactKeepsLease, KeepsLeaseInductive
<1>7. CASE InjectNext(p)
  BY <1>7, InjectKeepsLease, KeepsLeaseInductive
<1>8. CASE WaitExpires(p) \/ TaskFinish(p)
  <2>1. KeepsLease(p)
    BY <1>8 DEF WaitExpires, TaskFinish, Stop, KeepsLease
  <2> QED
    BY <2>1, KeepsLeaseInductive
<1>9. CASE Cleanup(p)
  <2>1. lease = p
    BY <1>9 DEF Cleanup, LeaseInv, LeaseExclusive
  <2> QED
    BY <1>9, <2>1, ReleaseInductive DEF Cleanup
<1> QED
  BY <1>1, <1>2, <1>3, <1>4, <1>5, <1>6, <1>7, <1>8, <1>9 DEF Proceed, RecoveryNext

\* Starts, deaths and calls of a process.
LEMMA OutsideInductive ==
  ASSUME LeaseInv, NEW p \in Proc,
         Boot(p) \/ Crash(p) \/ CallRejected(p) \/ ScheduleBegin(p)
  PROVE  LeaseInv'
<1> USE DEF Holding, HoldingSteps, Steps, RecoverySteps, ScheduleSteps, CompactSteps,
            InjectSteps, Goto
<1>1. CASE Boot(p)
  <2>1. lease # p /\ lease' = lease
    BY <1>1 DEF Boot, LeaseInv, LeaseExclusive
  <2>2. \E step \in Steps \ HoldingSteps : Goto(p, step)
    BY <1>1 DEF Boot
  <2> QED
    BY <2>1, <2>2, ReleaseInductive
<1>2. CASE Crash(p)
  BY <1>2, ReleaseInductive DEF Crash
<1>3. CASE CallRejected(p)
  BY <1>3 DEF CallRejected, programVars, LeaseInv, LeaseExclusive
<1>4. CASE ScheduleBegin(p)
  BY <1>4, TakeInductive DEF ScheduleBegin
<1> QED
  BY <1>1, <1>2, <1>3, <1>4

LEMMA LeaseInvInit == Init => LeaseInv
BY NoProcAssumption DEF Init, LeaseInv, LeaseExclusive, Holding, Steps

LEMMA LeaseInvNext == LeaseInv /\ [Next]_vars => LeaseInv'
<1> SUFFICES ASSUME LeaseInv, [Next]_vars PROVE LeaseInv'
  OBVIOUS
<1>1. CASE UNCHANGED vars
  BY <1>1 DEF vars, LeaseInv, LeaseExclusive, Holding
<1>2. CASE ThreadNext
  BY <1>2 DEF ThreadNext, programVars, LeaseInv, LeaseExclusive, Holding
<1>3. CASE \E p \in Proc :
             Proceed(p) \/ Boot(p) \/ Crash(p) \/ CallRejected(p) \/ ScheduleBegin(p)
  BY <1>3, ProceedInductive, OutsideInductive
<1> QED
  BY <1>1, <1>2, <1>3 DEF Next

\* For any number of processes and whatever fails: who prepares, runs or
\* recovers a transition owns the thread's lock, and a process that does not
\* never leaves the lock behind (lease.rs, orchestrator.rs:87-211,
\* recovery.rs:24-65).
THEOREM LeaseIsExclusive == Spec => []LeaseExclusive
<1>1. Spec => []LeaseInv
  BY LeaseInvInit, LeaseInvNext, PTL DEF Spec
<1>2. LeaseInv => LeaseExclusive
  BY DEF LeaseInv
<1> QED
  BY <1>1, <1>2, PTL
=============================================================================
