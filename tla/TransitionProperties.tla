------------------------- MODULE TransitionProperties -------------------------
(***************************************************************************)
(* What one transition promises (src/docs/ARCHITECTURE.md "Failure         *)
(* semantics", src/docs/FAILURE_MODES.md, src/README.md), stated over the  *)
(* state of Transition.                                                    *)
(***************************************************************************)
EXTENDS Transition

-----------------------------------------------------------------------------
(* Vocabulary *)

\* The steps at which a process must own the per-thread lock.
Holding(p) == pc[p] \notin {"down", "serving", "recover"}

CompactTurns(tid) == {t \in 1..Len(turns) : turns[t].origin = "compact" /\ turns[t].tid = tid}
Continuations(tid) ==
  {t \in 1..Len(turns) : turns[t].origin = "continuation" /\ turns[t].tid = tid}
Injections(tid) == {i \in 1..Len(injections) : injections[i].tid = tid}
InFlight(method, tid) == \E r \in BagToSet(inbox) : r.method = method /\ r.tid = tid

\* No transition is under way according to the journal.
Settled == disk = NoJournal \/ is_terminal(disk.state)

\* The request of this transition was sent: it is on its way or has taken effect.
Asked(method, tid) ==
  \/ InFlight(method, tid)
  \/ CASE method = "compact" -> CompactTurns(tid) # {}
       [] method = "inject"  -> Injections(tid) # {}
       [] method = "start"   -> Continuations(tid) # {}

-----------------------------------------------------------------------------
(* Several MCP processes, one thread *)

\* Whoever prepares, runs or recovers a transition owns the thread's lock, and
\* nobody else does: no two processes work on the thread at once, and the lock
\* is left behind by no early return, crash, failed save or finished task
\* (lease.rs, orchestrator.rs:87-211, recovery.rs:24-65).
LeaseExclusive == \A p \in Proc : Holding(p) <=> lease = p

-----------------------------------------------------------------------------
(* Requests that change the thread *)

\* No request that changes the thread takes effect twice for one transition,
\* whatever is lost, late or restarted ("mutating requests are never blindly
\* retried", "no injection is replayed").
AtMostOnce ==
  \A tid \in 1..accepted :
    /\ Cardinality(CompactTurns(tid)) <= 1
    /\ Cardinality(Injections(tid)) <= 1
    /\ Cardinality(Continuations(tid)) <= 1

\* The journal on disk is ahead of the thread: once a request may be on its way
\* the stored state already excludes sending it again after a restart
\* (runner.rs:31-53, 113-121, 130-140).
Fenced ==
  /\ Asked("compact", disk.tid) => disk.state \notin BeforeMutation
  /\ Asked("inject", disk.tid) => disk.state \in Injecting \union Terminal
  /\ Asked("start", disk.tid) =>
       disk.state \in (Injecting \ {"InjectingCheckpoint"}) \union Terminal

\* A transition that a restart cancels as "before compaction" has asked for
\* nothing and never will, not even by a request still on its way
\* (recovery.rs:32-35, 73).
RestartCancelsHarmlessly ==
  disk.reason = "ProcessRestarted" => ~Asked("compact", disk.tid)

-----------------------------------------------------------------------------
(* Binding of turns *)

\* Compaction is only asked for after the source turn has completed with this
\* transition's receipt as its one request_compaction result and nothing but
\* agent messages and reasoning after it (runner.rs:473-545).
SourceQuiescent ==
  Asked("compact", disk.tid) =>
    /\ turns[disk.source].status = "completed"
    /\ turns[disk.source].calls = <<[receipt |-> disk.tid, ok |-> TRUE]>>
    /\ turns[disk.source].tail = "passive"

\* A stored capsule belongs to the compaction this transition asked for, which
\* directly follows its source turn, completed alone and without error: neither
\* a user turn nor a compaction by hand can be taken for it.  Nothing is
\* injected before the capsule is stored (runner.rs:54-79, 260-421, 547-560).
CapsuleBinding ==
  /\ disk.capsule =>
       /\ disk.compact = disk.source + 1
       /\ disk.compact \in CompactTurns(disk.tid)
       /\ is_completed_pure_compaction(turns[disk.compact])
  /\ Asked("inject", disk.tid) => disk.capsule

\* Cooldown is reached only when the capsule is in the thread and the turn the
\* cooldown is counted from exists and came after the compaction
\* (runner.rs:130-195, recovery.rs:127-150).
CooldownEarned ==
  disk.state = "Cooldown" =>
    /\ Injections(disk.tid) # {}
    /\ unique_turn(turns, disk.cont)
    /\ disk.cont > disk.compact

\* The turn a task works from: every later turn is news to it.
Base(p) == IF mem[p].compact = 0 THEN mem[p].source ELSE mem[p].compact

Watching(p) ==
  pc[p] \in (CompactSteps \union InjectSteps)
              \ {"awaitStarted", "confirmStarted", "saveCooldown"}

\* While a task or a recovery watches the thread, the start of every turn it
\* has not accounted for is still ahead of it in its event stream, unless it
\* will be told that events were lost: no drain, read or wait swallows a turn
\* that should have won ("user-started turns win observable races").
NoTurnSwallowed ==
  \A p \in Proc :
    Watching(p) =>
      \/ \E i \in 1..Len(stream[p]) : stream[p][i].type \in {"Lagged", "ConnectionClosed"}
      \/ \A t \in (Base(p) + 1)..Len(turns) :
           \/ \E i \in 1..Len(stream[p]) : stream[p][i] = Signal("TurnStarted", t)
           \/ pc[p] = "waitStart" /\ t \in Continuations(mem[p].tid)

\* The results of the calls of turn t name the transition tid.
ReceiptIn(t, tid) == \E i \in 1..Len(turns[t].calls) : turns[t].calls[i].receipt = tid

\* Each compaction of the program was asked for in a turn that has, since every
\* compaction completed before it, by hand or the program's own, CooldownTurns completed
\* regular turns (orchestrator.rs:282-307), and the program has compacted nothing from
\* that turn on.  What the user compacts after that turn is not foreseen, nor spoken of.
CompactionsSpaced ==
  \A later \in 1..Len(turns) :
    turns[later].origin = "compact" =>
      \E source \in 1..(later - 1) :
        /\ ReceiptIn(source, turns[later].tid)
        /\ \A earlier \in CompletedCompactionsBefore(turns, source) :
             completed_regular_turns_between(turns, earlier, source) >= CooldownTurns
        /\ \A t \in source..(later - 1) : turns[t].origin # "compact"

-----------------------------------------------------------------------------
(* The journal over time *)

\* The journal of one transition follows the order of journal.rs:250-266, binds
\* each turn and the capsule once, and is final when terminal; it gives way to
\* the journal of a new transition only when terminal, so a cooldown is neither
\* lost nor rewritten.
JournalHistory ==
  [][ IF disk'.tid = disk.tid
      THEN /\ ~is_terminal(disk.state)
           /\ \/ transition_allowed(disk.state, disk'.state)
              \/ disk'.state = disk.state /\ disk'.capsule /\ ~disk.capsule
           /\ disk.compact \in {0, disk'.compact} /\ disk.cont \in {0, disk'.cont}
           /\ disk.capsule => disk'.capsule
      ELSE Settled /\ disk'.tid > disk.tid /\ disk'.state = "Attaching"
    ]_disk

\* Every transition settles: the lock is free again and again, and with it the
\* journal is terminal unless a process that died has not been started again.
\* Every wait is bounded and a restarted process recovers, whatever the server,
\* the user and crashes do.
Settles ==
  []<>(lease = NoProc /\ (Settled \/ \E p \in Proc : pc[p] = "down"))

-----------------------------------------------------------------------------
(* The whole promise *)

\* What the journal on disk says of its transition.
VerdictOf(journal) ==
  CASE journal.state = "None"              -> "none"
    [] journal.state = "Cooldown"          -> "cooldown"
    [] journal.reason = "ProcessRestarted" -> "undone"
    [] journal.state \in {"Cancelled", "FailedSafe"} /\ journal.reason # "ProcessRestarted"
                                           -> "stopped"
    [] OTHER                               -> "open"

\* What is on its way, and what has become of requests in the thread.
Pending == {[method |-> r.method, tid |-> r.tid] : r \in BagToSet(inbox)}

Effect(method, owners) == {[method |-> method, tid |-> owner.tid] : owner \in owners}
TurnsBy(origin) == {turns[t] : t \in {n \in 1..Len(turns) : turns[n].origin = origin}}
Effective ==
  Effect("compact", TurnsBy("compact")) \union Effect("start", TurnsBy("continuation"))
    \union Effect("inject", {injections[i] : i \in 1..Len(injections)})

Promise == INSTANCE CompactionPromise
  WITH Revocable <- "unsynced" \in Faults,
       current <- disk.tid, verdict <- VerdictOf(disk), pending <- Pending, done <- Effective

\* The processes, their journal and their connections keep what CompactionPromise
\* promises of the thread's transitions, across deaths, restarts, refusals, lost
\* answers and requests served late (orchestrator.rs, runner.rs, recovery.rs).
KeepsPromise == Promise!PromiseSpec

-----------------------------------------------------------------------------
(* Statements of the documents that the code does not keep *)

\* orchestrator/recovery.rs:19-21: "States at or after a possibly accepted
\* mutation never replay that mutation": no capsule is injected twice.
AtMostOneInjection == \A tid \in 1..accepted : Cardinality(Injections(tid)) <= 1

\* docs/FAILURE_MODES.md: "Duplicate notifications for an already-bound
\* compaction turn/item are idempotent": a repeated start of the compaction
\* turn is not taken for the turn that follows it.
CompactionIsNotContinuation == disk.cont # 0 => disk.cont # disk.compact
=============================================================================
