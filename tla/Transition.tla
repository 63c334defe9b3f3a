------------------------------ MODULE Transition ------------------------------
(***************************************************************************)
(* The MCP server processes that may compact one thread: scheduling and    *)
(* the background task (src/src/orchestrator.rs, orchestrator/runner.rs),  *)
(* recovery at startup (orchestrator/recovery.rs), the journal file        *)
(* (journal.rs) and the per-thread lock (lease.rs).  Threads share none of *)
(* this state, so one thread is enough; a process is reduced to what it    *)
(* does for that thread.  Its registry lets one handler or task at a time  *)
(* work on the thread, so one program counter per process is enough.       *)
(***************************************************************************)
EXTENDS SharedThread, TransitionJournal

CONSTANTS NoProc,         \* nobody holds the lease
          MaxTransitions, \* bound: accepted request_compaction calls
          MaxCalls,       \* bound: request_compaction items of one turn
          MaxBoots        \* bound: starts of one process

ASSUME NoProcAssumption == NoProc \notin Proc
ASSUME BoundsAssumption ==
  MaxTransitions \in Nat /\ MaxCalls \in Nat /\ MaxBoots \in Nat

VARIABLES
  disk,     \* the journal file
  lease,    \* owner of the per-thread lock
  registry, \* process -> the thread is reserved in its TransitionRegistry
  pc,       \* process -> where its recovery, handler or task is
  mem,      \* process -> the journal in its memory
  item,     \* process -> the compaction item its task has bound, or 0
  boots,    \* process -> how often it was started
  accepted  \* how many transitions were accepted

programVars == <<disk, lease, registry, pc, mem, item, boots, accepted>>
vars == <<turns, injections, inbox, call, conn, stream, synced,
          disk, lease, registry, pc, mem, item, boots, accepted>>

RecoverySteps == {"recover", "resume", "confirm"}
ScheduleSteps == {"prepare", "accept", "acceptAwait"}
CompactSteps ==
  {"awaitSource", "drainSource", "readSource", "guardSource", "redrainSource",
   "saveReady", "saveSent", "sendCompact", "waitCompact", "awaitCompaction",
   "drainCompact", "readCompact", "saveCapsule"}
InjectSteps ==
  {"drainInject", "guardInject", "redrainInject", "saveInjecting", "sendInject",
   "waitInject", "saveStarting", "drainUser", "sendStart", "waitStart",
   "awaitStarted", "confirmStarted", "saveCooldown"}
Steps == {"down", "serving", "finish", "cleanup"} \union RecoverySteps
           \union ScheduleSteps \union CompactSteps \union InjectSteps

Journal == [tid : Nat, source : Nat, state : TransitionStates \union {"None"},
            compact : Nat, capsule : BOOLEAN, cont : Nat,
            reason : ErrorCodes \union {"None"}]

TypeOK ==
  /\ ThreadTypeOK
  /\ disk \in Journal
  /\ lease \in Proc \union {NoProc}
  /\ registry \in [Proc -> BOOLEAN]
  /\ pc \in [Proc -> Steps]
  /\ mem \in [Proc -> Journal]
  /\ item \in [Proc -> Nat]
  /\ boots \in [Proc -> Nat]
  /\ accepted \in Nat

Init ==
  /\ ThreadInit
  /\ disk = NoJournal
  /\ lease = NoProc
  /\ registry = [p \in Proc |-> FALSE]
  /\ pc = [p \in Proc |-> "down"]
  /\ mem = [p \in Proc |-> NoJournal]
  /\ item = [p \in Proc |-> 0]
  /\ boots = [p \in Proc |-> 0]
  /\ accepted = 0

-----------------------------------------------------------------------------
(* Helpers *)

\* JournalStore::save succeeds, fails and leaves the old file, or fails after
\* the rename because the directory could not be synced.
SaveOutcomes ==
  {"ok"} \union (IF "save" \in Faults THEN {"failed"} ELSE {})
         \union (IF "unsynced" \in Faults THEN {"unsynced"} ELSE {})

Save(journal, outcome) == disk' = IF outcome = "failed" THEN disk ELSE journal

Goto(p, step) == pc' = [pc EXCEPT ![p] = step]

\* The task, or the recovery of this journal, stops with an error.
Stop(p, code) ==
  /\ mem' = [mem EXCEPT ![p] = Conclude(@, code)]
  /\ Goto(p, "finish")
  /\ UNCHANGED disk

\* Defect: a failed save does not stop the task.
Advance_UncheckedSave(p, journal, next, step) ==
  LET entered == [journal EXCEPT !.state = next] IN
  /\ transition_allowed(journal.state, next)
  /\ \E outcome \in SaveOutcomes : Save(entered, outcome)
  /\ mem' = [mem EXCEPT ![p] = entered]
  /\ Goto(p, step)

\* Put `journal' in state `next', save it and go on, or stop with the error.
Advance(p, journal, next, step) ==
  LET entered == [journal EXCEPT !.state = next] IN
  \/ /\ transition_allowed(journal.state, next)
     /\ \E outcome \in SaveOutcomes :
          /\ Save(entered, outcome)
          /\ mem' = [mem EXCEPT ![p] =
                       IF outcome = "ok" THEN entered ELSE Conclude(entered, "Io")]
          /\ Goto(p, IF outcome = "ok" THEN step ELSE "finish")
  \/ ~transition_allowed(journal.state, next) /\ Stop(p, "Internal")

\* thread/loaded/list and the parent chains: nothing, a descendant, a cycle.
DescendantErrors ==
  {"None", "ActiveSubagents"} \union IF "rpc" \in Faults THEN {"RecoveryAmbiguous"} ELSE {}

UnchangedThread == UNCHANGED threadVars
UnchangedSchedule == UNCHANGED <<lease, registry, boots, accepted>>

-----------------------------------------------------------------------------
(* Process start, recovery and death *)

\* serve starts and JournalStore::nonterminal reads the journals, before any
\* lease is taken.
Boot(p) ==
  /\ pc[p] = "down" /\ boots[p] < MaxBoots
  /\ boots' = [boots EXCEPT ![p] = @ + 1]
  /\ IF AdmitsSchedule(disk)
     THEN Goto(p, "serving") /\ UNCHANGED mem
     ELSE Goto(p, "recover") /\ mem' = [mem EXCEPT ![p] = disk]
  /\ UnchangedThread /\ UNCHANGED <<disk, lease, registry, item, accepted>>

RecoverSkip(p) ==
  /\ pc[p] = "recover" /\ lease # NoProc
  /\ Goto(p, "serving")
  /\ mem' = [mem EXCEPT ![p] = NoJournal]
  /\ UnchangedThread /\ UnchangedSchedule /\ UNCHANGED <<disk, item>>

\* Defect: recovery does not ask whether the thread is locked.
RecoverBegin_Unlocked(p) ==
  /\ pc[p] = "recover"
  /\ lease' = p
  /\ mem' = [mem EXCEPT ![p] = fail(@, "RecoveryAmbiguous")]
  /\ Goto(p, "finish")
  /\ UnchangedThread /\ UNCHANGED <<disk, registry, item, boots, accepted>>

RecoverBegin(p) ==
  /\ pc[p] = "recover" /\ lease = NoProc
  /\ lease' = p
  /\ CASE recovery_disposition(mem[p]) = "CancelBeforeMutation" ->
            /\ mem' = [mem EXCEPT ![p] = cancel(@, "ProcessRestarted")]
            /\ Goto(p, "finish")
       [] recovery_disposition(mem[p]) = "ResumePersistedCheckpoint" ->
            Goto(p, "resume") /\ UNCHANGED mem
       [] recovery_disposition(mem[p]) = "ConfirmContinuation" ->
            Goto(p, "confirm") /\ UNCHANGED mem
       [] OTHER ->
            /\ mem' = [mem EXCEPT ![p] = fail(@, "RecoveryAmbiguous")]
            /\ Goto(p, "finish")
  /\ UnchangedThread /\ UNCHANGED <<disk, registry, item, boots, accepted>>

\* resume_persisted_checkpoint up to its call of inject_and_continue.
RecoverResume(p) ==
  /\ pc[p] = "resume"
  /\ \/ /\ "rpc" \in Faults
        /\ Stop(p, "SharedAppServerUnavailable")
        /\ UnchangedThread
     \/ /\ require_completed_compaction_boundary(turns, mem[p].compact) # "None"
        /\ Stop(p, "RaceLost")
        /\ UnchangedThread
     \/ /\ require_completed_compaction_boundary(turns, mem[p].compact) = "None"
        /\ Subscribe(p)
        /\ Goto(p, "drainInject")
        /\ UNCHANGED <<turns, injections, inbox, call, disk, mem>>
  /\ UnchangedSchedule /\ UNCHANGED item

RecoverConfirm(p) ==
  /\ pc[p] = "confirm"
  /\ \/ "rpc" \in Faults /\ Stop(p, "SharedAppServerUnavailable")
     \/ ~unique_turn(turns, mem[p].cont) /\ Stop(p, "RecoveryAmbiguous")
     \/ /\ unique_turn(turns, mem[p].cont)
        /\ mem' = [mem EXCEPT ![p].state = "Cooldown"]
        /\ Goto(p, "finish")
        /\ UNCHANGED disk
  /\ UnchangedThread /\ UnchangedSchedule /\ UNCHANGED item

\* Recovery saves its verdict; an error ends the process.
RecoverFinish(p) ==
  /\ pc[p] = "finish" /\ ~registry[p]
  /\ \E outcome \in SaveOutcomes :
       /\ Save(mem[p], outcome)
       /\ Goto(p, IF outcome = "ok" THEN "serving" ELSE "down")
  /\ mem' = [mem EXCEPT ![p] = NoJournal]
  /\ lease' = NoProc
  /\ Unsubscribe(p)
  /\ UNCHANGED <<turns, injections, inbox, registry, item, boots, accepted>>

\* The process dies, or its stdin ends and the runtime drops its tasks.  What
\* it has sent may be lost with it or be served later.
Crash(p) ==
  /\ "crash" \in Faults /\ pc[p] # "down" /\ boots[p] < MaxBoots
  /\ Goto(p, "down")
  /\ mem' = [mem EXCEPT ![p] = NoJournal]
  /\ item' = [item EXCEPT ![p] = 0]
  /\ registry' = [registry EXCEPT ![p] = FALSE]
  /\ lease' = IF lease = p THEN NoProc ELSE lease
  /\ Unsubscribe(p)
  /\ LET others == [request \in {r \in BagToSet(inbox) : r.proc # p} |-> inbox[request]] IN
     inbox' \in IF "delay" \in Faults THEN {inbox, others} ELSE {others}
  /\ UNCHANGED <<turns, injections, disk, boots, accepted>>

-----------------------------------------------------------------------------
(* request_compaction: Orchestrator::schedule *)

\* The turn that hosts a call records its result, if it still runs.
RecordCall(source, receipt, ok) ==
  turns' = IF unique_turn(turns, source) /\ turns[source].status = "inProgress"
           THEN [turns EXCEPT ![source].calls =
                   Append(@, [receipt |-> receipt, ok |-> ok])]
           ELSE turns

\* The running turn may call the tool of a process that serves requests.
Callable(p) ==
  /\ pc[p] = "serving" \/ registry[p]
  /\ pc[p] \notin ScheduleSteps
  /\ is_active(turns)
  /\ turns[Len(turns)].origin \notin CompactionOrigins
  /\ Len(turns[Len(turns)].calls) < MaxCalls

\* Reserved, leased by another, or a journal that waits for recovery.
CallRejected(p) ==
  /\ Callable(p)
  /\ \/ /\ registry[p] \/ lease # NoProc
        /\ RecordCall(Len(turns), 0, is_expected_rejection("TransitionPending"))
     \/ /\ ~registry[p] /\ lease = NoProc /\ ~AdmitsSchedule(disk)
        /\ RecordCall(Len(turns), 0, is_expected_rejection("RecoveryAmbiguous"))
  /\ UNCHANGED <<injections, inbox, call, conn, stream, synced, programVars>>

ScheduleBegin(p) ==
  /\ Callable(p) /\ accepted < MaxTransitions
  /\ ~registry[p] /\ lease = NoProc /\ AdmitsSchedule(disk)
  /\ registry' = [registry EXCEPT ![p] = TRUE]
  /\ lease' = p
  /\ mem' = [mem EXCEPT ![p] = [NoJournal EXCEPT !.source = Len(turns)]]
  /\ Goto(p, "prepare")
  /\ UnchangedThread /\ UNCHANGED <<disk, item, boots, accepted>>

\* The handler answers with an error and gives everything back.
Reject(p, code) ==
  /\ RecordCall(mem[p].source, 0, is_expected_rejection(code))
  /\ Unsubscribe(p)
  /\ lease' = NoProc
  /\ registry' = [registry EXCEPT ![p] = FALSE]
  /\ mem' = [mem EXCEPT ![p] = NoJournal]
  /\ Goto(p, "serving")
  /\ UNCHANGED <<injections, inbox, item, boots>>

\* Connect, subscribe, resume and preflight within five seconds.
Prepare(p) ==
  /\ pc[p] = "prepare"
  /\ LET preflight == preflight_root_and_cooldown(turns, mem[p].source, disk) IN
     \/ \E code \in DescendantErrors \union {preflight}
                     \union IF "rpc" \in Faults THEN {"SharedAppServerUnavailable"} ELSE {} :
          code # "None" /\ Reject(p, code) /\ UNCHANGED <<disk, accepted>>
     \/ /\ preflight = "None"
        /\ Subscribe(p)
        /\ Goto(p, "accept")
        /\ UNCHANGED <<turns, injections, inbox, call, disk, mem, item>>
        /\ UnchangedSchedule

\* The new journal replaces the old one.
Accept(p) ==
  /\ pc[p] = "accept"
  /\ accepted' = accepted + 1
  /\ LET journal == NewJournal(accepted + 1, mem[p].source) IN
     \E outcome \in SaveOutcomes :
       /\ Save(journal, outcome)
       /\ \/ /\ outcome = "ok"
             /\ mem' = [mem EXCEPT ![p] = journal]
             /\ Goto(p, "acceptAwait")
             /\ UnchangedThread /\ UNCHANGED <<lease, registry, item, boots>>
          \/ outcome # "ok" /\ Reject(p, "Io")

\* Second save; then the task is spawned and the receipt returned.
AcceptAwait(p) ==
  /\ pc[p] = "acceptAwait"
  /\ LET journal == [mem[p] EXCEPT !.state = "AwaitSourceTurnCompleted"] IN
     \E outcome \in SaveOutcomes :
       /\ Save(journal, outcome)
       /\ \/ /\ outcome = "ok"
             /\ mem' = [mem EXCEPT ![p] = journal]
             /\ Goto(p, "awaitSource")
             /\ RecordCall(mem[p].source, mem[p].tid, TRUE)
             /\ UNCHANGED <<injections, inbox, call, conn, stream, synced,
                            lease, registry, item, boots>>
          \/ outcome # "ok" /\ Reject(p, "Io")
  /\ UNCHANGED accepted

-----------------------------------------------------------------------------
(* The background task up to the persisted capsule: run_transition *)

\* Errors of an event that ends every wait.
StreamError(event, onClose) ==
  CASE event.type = "ServerRequest"    -> "ServerRequestReceived"
    [] event.type = "ConnectionClosed" -> onClose
    [] event.type = "Lagged"           -> "RecoveryAmbiguous"
    [] OTHER                           -> "None"

Competes(event, turn) == event.type = "TurnStarted" /\ event.turn # turn

AwaitSource(p) ==
  /\ pc[p] = "awaitSource" /\ stream[p] # <<>>
  /\ LET event == Head(stream[p])
         own == event.type = "TurnCompleted" /\ event.turn = mem[p].source
         code == StreamError(event, "SharedAppServerUnavailable") IN
     \/ own /\ event.ok /\ Goto(p, "drainSource") /\ UNCHANGED <<mem, disk>>
     \/ own /\ ~event.ok /\ Stop(p, "SourceTurnFailed")
     \/ Competes(event, mem[p].source) /\ Stop(p, "RaceLost")
     \/ code # "None" /\ Stop(p, code)
     \/ /\ ~own /\ ~Competes(event, mem[p].source) /\ code = "None"
        /\ UNCHANGED <<pc, mem, disk>>
  /\ Consume(p, 1)
  /\ UNCHANGED <<turns, injections, inbox, call, conn, item>> /\ UnchangedSchedule

\* Defect: what has arrived is dropped unread.
RejectQueued_Unread(p, allowed, step) ==
  /\ \E n \in Drained(p) : Consume(p, n)
  /\ Goto(p, step)
  /\ UNCHANGED <<turns, injections, inbox, call, conn, item, mem, disk>>
  /\ UnchangedSchedule

\* reject_queued_competing_turn: read what has arrived, fail at the first
\* event that is not harmless.
RejectQueued(p, allowed, step) ==
  /\ \E n \in Drained(p) :
       LET code(i) == IF Competes(stream[p][i], allowed) THEN "RaceLost"
                      ELSE StreamError(stream[p][i], "SharedAppServerUnavailable") IN
       /\ Consume(p, n)
       /\ \/ /\ \A i \in 1..n : code(i) = "None"
             /\ Goto(p, step) /\ UNCHANGED <<mem, disk>>
          \/ \E i \in 1..n :
               /\ code(i) # "None" /\ \A j \in 1..(i - 1) : code(j) = "None"
               /\ Stop(p, code(i))
  /\ UNCHANGED <<turns, injections, inbox, call, conn, item>> /\ UnchangedSchedule

\* A read-only request and the check of its answer.
ReadThread(p, code, step) ==
  /\ \/ ReadMayFail(p) /\ Stop(p, "SharedAppServerUnavailable")
     \/ code # "None" /\ Stop(p, code)
     \/ code = "None" /\ Goto(p, step) /\ UNCHANGED <<mem, disk>>
  /\ Synchronise(p)
  /\ UNCHANGED <<turns, injections, inbox, call, conn, stream, item>>
  /\ UnchangedSchedule

\* ensure_no_active_descendant.
GuardDescendants(p, step) == \E code \in DescendantErrors : ReadThread(p, code, step)

DrainSource(p) == pc[p] = "drainSource" /\ RejectQueued(p, mem[p].source, "readSource")

ReadSource(p) ==
  /\ pc[p] = "readSource"
  /\ ReadThread(p, validate_final_source_snapshot(turns, mem[p].source, mem[p].tid),
                "guardSource")

GuardSource(p) == pc[p] = "guardSource" /\ GuardDescendants(p, "redrainSource")

RedrainSource(p) ==
  pc[p] = "redrainSource" /\ RejectQueued(p, mem[p].source, "saveReady")

\* A save of the task that changes nothing but the journal.
Record(p, step, state, next) ==
  /\ pc[p] = step
  /\ Advance(p, mem[p], state, next)
  /\ UnchangedThread /\ UnchangedSchedule /\ UNCHANGED item

SaveReady(p) == Record(p, "saveReady", "ReadyToCompact", "saveSent")
SaveSent(p) == Record(p, "saveSent", "CompactRequestSent", "sendCompact")

\* A mutating request is sent once, unless the client is already closed.
SendOnce(p, step, method, next, onError) ==
  /\ pc[p] = step
  /\ \/ /\ conn[p] = "closed" /\ Stop(p, onError)
        /\ UnchangedThread
     \/ /\ conn[p] = "open"
        /\ Send(p, method, mem[p].tid)
        /\ Goto(p, next)
        /\ UNCHANGED <<turns, injections, conn, stream, synced, mem, disk>>
  /\ UnchangedSchedule /\ UNCHANGED item

SendCompact(p) == SendOnce(p, "sendCompact", "compact", "waitCompact", "CompactionFailed")

\* Defect: a refused compaction is awaited all the same.
WaitCompact_RefusalIgnored(p) ==
  /\ pc[p] = "waitCompact"
  /\ \/ call[p].status \in {"accepted", "rejected"}
        /\ Goto(p, "awaitCompaction") /\ UNCHANGED <<mem, disk>>
     \/ CallBroken(p) /\ Stop(p, "CompactionFailed")
  /\ call' = [call EXCEPT ![p] = NoCall]
  /\ item' = [item EXCEPT ![p] = 0]
  /\ UNCHANGED <<turns, injections, inbox, conn, stream, synced>> /\ UnchangedSchedule

WaitCompact(p) ==
  /\ pc[p] = "waitCompact"
  /\ \/ call[p].status = "accepted" /\ Goto(p, "awaitCompaction") /\ UNCHANGED <<mem, disk>>
     \/ call[p].status = "rejected" /\ Stop(p, "CompactionFailed")
     \/ CallBroken(p) /\ Stop(p, "CompactionFailed")
  /\ call' = [call EXCEPT ![p] = NoCall]
  /\ item' = [item EXCEPT ![p] = 0]
  /\ UNCHANGED <<turns, injections, inbox, conn, stream, synced>> /\ UnchangedSchedule

\* What await_compaction makes of an event: "bind" the candidate turn, take
\* its "item", see the item "done", see the "turn" end, or stop with a code.
CompactionVerdict(journal, bound, event) ==
  LET candidate == journal.compact # 0 /\ event.turn = journal.compact
      itemDone == journal.state = "AwaitCompactionTurnCompleted" IN
  CASE Competes(event, journal.source) ->
         IF journal.compact = 0 THEN "bind" ELSE IF candidate THEN "None" ELSE "RaceLost"
    [] event.type = "CompactionStarted" /\ candidate ->
         IF bound = 0 THEN "item" ELSE IF bound = event.item THEN "None"
         ELSE "RecoveryAmbiguous"
    [] event.type = "CompactionCompleted" /\ candidate ->
         IF ~event.ok THEN "CompactionFailed"
         ELSE IF bound # event.item THEN "RecoveryAmbiguous"
         ELSE IF itemDone THEN "None" ELSE "done"
    [] event.type = "OtherItem" /\ candidate -> "RaceLost"
    [] event.type = "TurnCompleted" /\ candidate ->
         IF ~event.ok THEN "CompactionFailed"
         ELSE IF bound = 0 THEN "RecoveryAmbiguous"
         ELSE IF itemDone THEN "turn" ELSE "CompactionFailed"
    [] OTHER -> StreamError(event, "RecoveryAmbiguous")

AwaitCompaction(p) ==
  /\ pc[p] = "awaitCompaction" /\ stream[p] # <<>>
  /\ LET event == Head(stream[p])
         verdict == CompactionVerdict(mem[p], item[p], event) IN
     /\ \/ /\ verdict = "bind"
           /\ Advance(p, [mem[p] EXCEPT !.compact = event.turn], "AwaitCompactionItem",
                      "awaitCompaction")
        \/ verdict = "done"
           /\ Advance(p, mem[p], "AwaitCompactionTurnCompleted", "awaitCompaction")
        \/ verdict = "turn" /\ Goto(p, "drainCompact") /\ UNCHANGED <<mem, disk>>
        \/ verdict \in {"item", "None"} /\ UNCHANGED <<pc, mem, disk>>
        \/ verdict \in ErrorCodes /\ Stop(p, verdict)
     /\ item' = [item EXCEPT ![p] = IF verdict = "item" THEN event.item ELSE @]
  /\ Consume(p, 1)
  /\ UNCHANGED <<turns, injections, inbox, call, conn>> /\ UnchangedSchedule

DrainCompact(p) ==
  pc[p] = "drainCompact" /\ RejectQueued(p, mem[p].compact, "readCompact")

ReadCompact(p) ==
  /\ pc[p] = "readCompact"
  /\ ReadThread(p, require_completed_compaction_boundary(turns, mem[p].compact),
                "saveCapsule")

\* Checkpoint::build, set_checkpoint and save, in the same journal state.
SaveCapsule(p) ==
  /\ pc[p] = "saveCapsule"
  /\ \/ Stop(p, "CheckpointTooLarge")
     \/ LET journal == [mem[p] EXCEPT !.capsule = TRUE] IN
        \E outcome \in SaveOutcomes :
          /\ Save(journal, outcome)
          /\ mem' = [mem EXCEPT ![p] =
                       IF outcome = "ok" THEN journal ELSE Conclude(journal, "Io")]
          /\ Goto(p, IF outcome = "ok" THEN "drainInject" ELSE "finish")
  /\ UnchangedThread /\ UnchangedSchedule /\ UNCHANGED item

-----------------------------------------------------------------------------
(* inject_and_continue, run by the task and by recovery *)

\* drain_started_turn: the error at position i, then the result of draining n.
StartedError(p, i) ==
  IF stream[p][i].type # "TurnStarted" THEN StreamError(stream[p][i], "RecoveryAmbiguous")
  ELSE IF \E j \in 1..(i - 1) : stream[p][j].type = "TurnStarted" THEN "RecoveryAmbiguous"
  ELSE "None"

DrainStarted(p, n) ==
  LET bad == {i \in 1..n : StartedError(p, i) # "None"}
      starts == {i \in 1..n : stream[p][i].type = "TurnStarted"}
      first(S) == CHOOSE i \in S : \A j \in S : i <= j IN
  IF bad # {} THEN [code |-> StartedError(p, first(bad)), turn |-> 0]
  ELSE [code |-> "None", turn |-> IF starts = {} THEN 0 ELSE stream[p][first(starts)].turn]

\* Any turn that has started takes the thread before the injection.
RejectStarted(p, step) ==
  /\ \E n \in Drained(p) :
       LET drained == DrainStarted(p, n) IN
       /\ Consume(p, n)
       /\ \/ drained.code # "None" /\ Stop(p, drained.code)
          \/ drained.code = "None" /\ drained.turn # 0 /\ Stop(p, "RaceLost")
          \/ drained.code = "None" /\ drained.turn = 0
             /\ Goto(p, step) /\ UNCHANGED <<mem, disk>>
  /\ UNCHANGED <<turns, injections, inbox, call, conn, item>> /\ UnchangedSchedule

DrainInject(p) == pc[p] = "drainInject" /\ RejectStarted(p, "guardInject")
GuardInject(p) == pc[p] = "guardInject" /\ GuardDescendants(p, "redrainInject")
RedrainInject(p) == pc[p] = "redrainInject" /\ RejectStarted(p, "saveInjecting")
SaveInjecting(p) == Record(p, "saveInjecting", "InjectingCheckpoint", "sendInject")
SendInject(p) == SendOnce(p, "sendInject", "inject", "waitInject", "InjectionFailed")

\* Defect: an injection without an answer is sent again.
WaitInject_Resent(p) ==
  /\ pc[p] = "waitInject"
  /\ \/ call[p].status = "accepted" /\ Goto(p, "saveStarting") /\ UNCHANGED <<mem, disk>>
     \/ call[p].status = "rejected" /\ Stop(p, "InjectionFailed")
     \/ CallBroken(p) /\ Goto(p, "sendInject") /\ UNCHANGED <<mem, disk>>
  /\ call' = [call EXCEPT ![p] = NoCall]
  /\ UNCHANGED <<turns, injections, inbox, conn, stream, synced, item>>
  /\ UnchangedSchedule

\* Defect: an injection without an answer counts as done.
WaitInject_SilenceAccepted(p) ==
  /\ pc[p] = "waitInject"
  /\ \/ call[p].status = "accepted" \/ CallBroken(p)
  /\ Goto(p, "saveStarting")
  /\ call' = [call EXCEPT ![p] = NoCall]
  /\ UNCHANGED <<turns, injections, inbox, conn, stream, synced, item, mem, disk>>
  /\ UnchangedSchedule

WaitInject(p) ==
  /\ pc[p] = "waitInject"
  /\ \/ call[p].status = "accepted" /\ Goto(p, "saveStarting") /\ UNCHANGED <<mem, disk>>
     \/ call[p].status = "rejected" /\ Stop(p, "InjectionFailed")
     \/ CallBroken(p) /\ Stop(p, "InjectionFailed")
  /\ call' = [call EXCEPT ![p] = NoCall]
  /\ UNCHANGED <<turns, injections, inbox, conn, stream, synced, item>>
  /\ UnchangedSchedule

SaveStarting(p) == Record(p, "saveStarting", "StartingContinuation", "drainUser")

\* Where a transition goes when it has reached Cooldown.
Done(p) == IF registry[p] THEN "cleanup" ELSE "finish"

\* complete_user_wins.
UserWins(p, turn) == Advance(p, [mem[p] EXCEPT !.cont = turn], "Cooldown", Done(p))

DrainUser(p) ==
  /\ pc[p] = "drainUser"
  /\ \E n \in Drained(p) :
       LET drained == DrainStarted(p, n) IN
       /\ Consume(p, n)
       /\ \/ drained.code # "None" /\ Stop(p, drained.code)
          \/ drained.code = "None" /\ drained.turn # 0 /\ UserWins(p, drained.turn)
          \/ drained.code = "None" /\ drained.turn = 0
             /\ Goto(p, "sendStart") /\ UNCHANGED <<mem, disk>>
  /\ UNCHANGED <<turns, injections, inbox, call, conn, item>> /\ UnchangedSchedule

SendStart(p) == SendOnce(p, "sendStart", "start", "waitStart", "ContinuationUnsupported")

\* Defect: an error that is not the server's counts as its refusal.
StartRefused_AnyError(p) == call[p].status = "rejected" \/ CallBroken(p)

\* The server has answered with an error: the request is not on its way any more.
StartRefused(p) == call[p].status = "rejected"

\* A refusal by the server is checked against a user turn before it is an error.
WaitStart(p) ==
  /\ pc[p] = "waitStart"
  /\ \/ /\ call[p].status = "accepted"
        /\ Advance(p, [mem[p] EXCEPT !.cont = call[p].turn], "AwaitContinuationStarted",
                   "awaitStarted")
        /\ UNCHANGED <<stream, synced>>
     \/ /\ StartRefused(p)
        /\ \E n \in Drained(p) :
             LET drained == DrainStarted(p, n) IN
             /\ Consume(p, n)
             /\ \/ drained.code # "None" /\ Stop(p, drained.code)
                \/ drained.code = "None" /\ drained.turn # 0 /\ UserWins(p, drained.turn)
                \/ drained.code = "None" /\ drained.turn = 0
                   /\ Stop(p, "ContinuationUnsupported")
     \/ /\ CallBroken(p) /\ Stop(p, "ContinuationUnsupported")
        /\ UNCHANGED <<stream, synced>>
  /\ call' = [call EXCEPT ![p] = NoCall]
  /\ UNCHANGED <<turns, injections, inbox, conn, item>> /\ UnchangedSchedule

AwaitStarted(p) ==
  /\ pc[p] = "awaitStarted" /\ stream[p] # <<>>
  /\ LET event == Head(stream[p])
         own == event.type = "TurnStarted" /\ event.turn = mem[p].cont
         code == StreamError(event, "RecoveryAmbiguous") IN
     \/ own /\ Goto(p, "saveCooldown") /\ UNCHANGED <<mem, disk>>
     \/ Competes(event, mem[p].cont) /\ Stop(p, "RaceLost")
     \/ code = "RecoveryAmbiguous" /\ Goto(p, "confirmStarted") /\ UNCHANGED <<mem, disk>>
     \/ code = "ServerRequestReceived" /\ Stop(p, code)
     \/ event.type # "TurnStarted" /\ code = "None" /\ UNCHANGED <<pc, mem, disk>>
  /\ Consume(p, 1)
  /\ UNCHANGED <<turns, injections, inbox, call, conn, item>> /\ UnchangedSchedule

\* The start event was missed; the exact turn in the history stands for it.
ConfirmStarted(p) ==
  /\ pc[p] = "confirmStarted"
  /\ \/ ReadMayFail(p) /\ Stop(p, "RecoveryAmbiguous")
     \/ ~unique_turn(turns, mem[p].cont) /\ Stop(p, "RecoveryAmbiguous")
     \/ /\ conn[p] = "open" /\ unique_turn(turns, mem[p].cont)
        /\ Goto(p, "saveCooldown") /\ UNCHANGED <<mem, disk>>
  /\ UnchangedThread /\ UnchangedSchedule /\ UNCHANGED item

SaveCooldown(p) == Record(p, "saveCooldown", "Cooldown", Done(p))

\* Defect: the wait for the compaction has no time limit.
WaitExpires_CompactionForever(p) ==
  /\ "timeout" \in Faults
  /\ pc[p] \in {"awaitSource", "awaitStarted"}
  /\ Stop(p, "Timeout")
  /\ UnchangedThread /\ UnchangedSchedule /\ UNCHANGED item

\* The three bounded waits run out of time.
WaitExpires(p) ==
  /\ "timeout" \in Faults
  /\ pc[p] \in {"awaitSource", "awaitCompaction", "awaitStarted"}
  /\ Stop(p, "Timeout")
  /\ UnchangedThread /\ UnchangedSchedule /\ UNCHANGED item

\* A failed task tries to save its verdict and only logs an error.
TaskFinish(p) ==
  /\ pc[p] = "finish" /\ registry[p]
  /\ \E outcome \in SaveOutcomes : Save(mem[p], outcome)
  /\ Goto(p, "cleanup")
  /\ UnchangedThread /\ UnchangedSchedule /\ UNCHANGED <<mem, item>>

Cleanup(p) ==
  /\ pc[p] = "cleanup"
  /\ Unsubscribe(p)
  /\ lease' = NoProc
  /\ registry' = [registry EXCEPT ![p] = FALSE]
  /\ mem' = [mem EXCEPT ![p] = NoJournal]
  /\ item' = [item EXCEPT ![p] = 0]
  /\ Goto(p, "serving")
  /\ UNCHANGED <<turns, injections, inbox, disk, boots, accepted>>

-----------------------------------------------------------------------------
ThreadNext ==
  /\ \/ UserTurn \/ EndTurn \/ CompactionItemStarts \/ CompactionItemEnds \/ ServeRequest
     \/ \E p \in Proc : Disconnect(p) \/ AskClient(p) \/ Lag(p) \/ Repeat(p)
  /\ UNCHANGED programVars

RecoveryNext(p) ==
  RecoverSkip(p) \/ RecoverBegin(p) \/ RecoverResume(p) \/ RecoverConfirm(p)
  \/ RecoverFinish(p)

CompactNext(p) ==
  \/ AwaitSource(p) \/ DrainSource(p) \/ ReadSource(p) \/ GuardSource(p)
  \/ RedrainSource(p) \/ SaveReady(p) \/ SaveSent(p) \/ SendCompact(p) \/ WaitCompact(p)
  \/ AwaitCompaction(p) \/ DrainCompact(p) \/ ReadCompact(p) \/ SaveCapsule(p)

InjectNext(p) ==
  \/ DrainInject(p) \/ GuardInject(p) \/ RedrainInject(p) \/ SaveInjecting(p)
  \/ SendInject(p) \/ WaitInject(p) \/ SaveStarting(p) \/ DrainUser(p) \/ SendStart(p)
  \/ WaitStart(p) \/ AwaitStarted(p) \/ ConfirmStarted(p) \/ SaveCooldown(p)

\* The steps a started handler, task or recovery takes by itself.
Proceed(p) ==
  \/ RecoveryNext(p) \/ Prepare(p) \/ Accept(p) \/ AcceptAwait(p)
  \/ CompactNext(p) \/ InjectNext(p) \/ WaitExpires(p) \/ TaskFinish(p) \/ Cleanup(p)

Next ==
  \/ ThreadNext
  \/ \E p \in Proc : Proceed(p) \/ Boot(p) \/ Crash(p) \/ CallRejected(p) \/ ScheduleBegin(p)

Spec == Init /\ [][Next]_vars

\* A live process goes on: the runtime polls its tasks and every wait has a time
\* limit.  Nothing is assumed of the server, the user, the model or of whoever
\* starts a process again.
FairSpec == Spec /\ \A p \in Proc : WF_vars(Proceed(p))
=============================================================================
