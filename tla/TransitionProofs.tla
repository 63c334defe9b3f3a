--------------------------- MODULE TransitionProofs ---------------------------
(***************************************************************************)
(* What is proved of the journal, of the requests that change the thread   *)
(* and of the source turn, for any number of processes and whatever fails, *)
(* as long as recovery acts on the journal as it is when it gets the lock: *)
(* the file follows its table, is ahead of the thread, nothing is asked    *)
(* twice, and compaction only of a quiescent turn.                         *)
(***************************************************************************)
EXTENDS TransitionTypeProofs, FiniteSetTheorems

\* The copy of the journal a recovering process took before it had the lock is
\* still the journal when it gets the lock.  recovery.rs:24-33 does not make
\* sure of it, and with two processes it need not hold; it does with one.
RecoveryCurrent == \A p \in Proc : pc[p] = "recover" /\ lease = NoProc => mem[p] = disk

-----------------------------------------------------------------------------
(* The journal in memory, the journal on disk and the program counter *)

ReadingSource ==
  {"awaitSource", "drainSource", "readSource", "guardSource", "redrainSource", "saveReady"}
ReadingCompaction == {"drainCompact", "readCompact", "saveCapsule"}
Injectable == {"resume", "drainInject", "guardInject", "redrainInject", "saveInjecting"}
InjectionSent == {"sendInject", "waitInject", "saveStarting"}
Continuing == {"drainUser", "sendStart", "waitStart"}
Continued == {"awaitStarted", "confirmStarted", "saveCooldown", "confirm"}
Working ==
  {"acceptAwait", "saveSent", "sendCompact", "waitCompact", "awaitCompaction"}
    \union ReadingSource \union ReadingCompaction \union Injectable \union InjectionSent
    \union Continuing \union Continued

\* The state of the journal while a process is at a step.
StateAt(step, state) ==
  /\ step = "acceptAwait" => state = "Attaching"
  /\ step \in ReadingSource => state = "AwaitSourceTurnCompleted"
  /\ step = "saveSent" => state = "ReadyToCompact"
  /\ step \in {"sendCompact", "waitCompact"} => state = "CompactRequestSent"
  /\ step = "awaitCompaction" => state \in Compacting
  /\ step \in ReadingCompaction \union Injectable => state = "AwaitCompactionTurnCompleted"
  /\ step \in InjectionSent => state = "InjectingCheckpoint"
  /\ step \in Continuing => state = "StartingContinuation"
  /\ step \in Continued => state = "AwaitContinuationStarted"

CapsuleStored == Injectable \union InjectionSent \union Continuing \union Continued

\* What a journal of the program holds in each of its states.
WellFormed(journal) ==
  /\ journal.state = "None" => journal = NoJournal
  /\ journal.state # "None" => journal.tid > 0
  /\ journal.state \in BeforeMutation \union {"CompactRequestSent"} => journal.compact = 0
  /\ journal.state \in BeforeMutation \union {"CompactRequestSent", "AwaitCompactionItem"}
       => ~journal.capsule
  /\ journal.state \in Injecting => journal.capsule
  /\ journal.cont # 0 => journal.state \in {"AwaitContinuationStarted"} \union Terminal
  /\ journal.reason # "None" => journal.state \in Terminal
  /\ journal.reason = "ProcessRestarted" => journal.state = "Cancelled"

\* What the verdict `last', still to be saved, keeps of the journal on disk.
Concludes(journal, last) ==
  /\ last.tid = journal.tid /\ last.source = journal.source
  /\ journal.state # "None" /\ is_terminal(last.state)
  /\ transition_allowed(journal.state, last.state) \/ last = journal
  /\ "unsynced" \notin Faults => ~is_terminal(journal.state) \/ last = journal
  /\ journal.compact \in {0, last.compact} /\ journal.cont \in {0, last.cont}
  /\ journal.capsule => last.capsule

\* A process that owns the lock knows what is on disk.
WorkerOK(p) ==
  /\ pc[p] \in {"prepare", "accept"} => AdmitsSchedule(disk)
  /\ pc[p] \in Working =>
       /\ mem[p] = disk
       /\ StateAt(pc[p], disk.state)
       /\ disk.capsule <=> pc[p] \in CapsuleStored
  /\ pc[p] = "finish" => Concludes(disk, mem[p]) /\ WellFormed(mem[p])

JournalInv ==
  /\ WellFormed(disk)
  /\ disk.tid <= accepted
  /\ \A p \in Proc : Holding(p) => WorkerOK(p)

\* The journal of one transition goes on, or gives way to that of the next.
Progress ==
  /\ disk'.tid = disk.tid /\ disk'.source = disk.source /\ disk.state # "None"
  /\ "unsynced" \notin Faults => ~is_terminal(disk.state)
  /\ \/ transition_allowed(disk.state, disk'.state)
     \/ disk'.state = disk.state /\ disk'.capsule /\ ~disk.capsule
  /\ disk.compact \in {0, disk'.compact} /\ disk.cont \in {0, disk'.cont}
  /\ disk.capsule => disk'.capsule

Renewal == AdmitsSchedule(disk) /\ disk'.tid > accepted /\ disk'.state = "Attaching"

JournalStep == disk' = disk \/ Progress \/ Renewal

\* Steps that lead to a request are reached only from a journal that rules out
\* that it was sent before.
Arrives(p) ==
  /\ pc'[p] = "sendCompact" => disk.state \in BeforeMutation /\ disk'.tid = disk.tid
  /\ pc'[p] = "sendInject" =>
       disk.state = "AwaitCompactionTurnCompleted" /\ disk'.tid = disk.tid
  /\ pc'[p] = "drainUser" => disk.state = "InjectingCheckpoint" /\ disk'.tid = disk.tid
  /\ pc'[p] = "sendStart" => pc[p] = "drainUser" /\ disk'.tid = disk.tid

\* Only recovery decides that a restart is to blame, of a journal that rules out
\* that anything was asked, and only its last step writes it.
Blames(p) ==
  /\ disk'.reason = "ProcessRestarted" =>
       \/ disk' = disk
       \/ pc[p] = "finish" /\ disk' = mem[p]
  /\ pc'[p] = "finish" /\ mem'[p].reason = "ProcessRestarted" =>
       disk.state \in BeforeMutation /\ disk'.tid = disk.tid /\ mem'[p].tid = disk.tid

\* What every step of a process that owns the lock does to the journal.
Works(p) ==
  /\ WellFormed(disk)' /\ (disk.tid <= accepted)'
  /\ Holding(p)' => WorkerOK(p)'
  /\ JournalStep /\ Arrives(p) /\ Blames(p)

LEMMA Owner ==
  ASSUME LeaseExclusive, LeaseExclusive', NEW p \in Proc, Holding(p), lease' \in {p, NoProc}
  PROVE  \A q \in Proc \ {p} : ~Holding(q)'
BY NoProcAssumption DEF LeaseExclusive

LEMMA WorksInductive ==
  ASSUME LeaseExclusive, LeaseExclusive', NEW p \in Proc, Holding(p),
         lease' \in {p, NoProc}, Works(p)
  PROVE  JournalInv'
BY Owner DEF Works, JournalInv

-----------------------------------------------------------------------------
(* Ways to go on *)

LEMMA WorkingGoesOn ==
  Working \intersect {"prepare", "accept", "finish", "cleanup", "down", "serving", "recover"}
    = {}
BY DEF Working, ReadingSource, ReadingCompaction, Injectable, InjectionSent, Continuing,
       Continued

LEMMA ConcludeReason ==
  ASSUME NEW journal \in Journal, NEW code
  PROVE  Conclude(journal, code).reason = code
BY DEF Conclude, cancel, fail, Journal

LEMMA BlamesNot ==
  ASSUME NEW p \in Proc, disk' = disk \/ disk'.reason # "ProcessRestarted",
         pc'[p] # "finish" \/ mem'[p].reason # "ProcessRestarted"
  PROVE  Blames(p)
BY DEF Blames

LEMMA WorkingHolds ==
  ASSUME NEW p \in Proc, pc[p] \in Working \union {"prepare", "accept", "finish", "cleanup"}
  PROVE  Holding(p)
BY DEF Working, ReadingSource, ReadingCompaction, Injectable, InjectionSent, Continuing,
       Continued, Holding

LEMMA ConcludeConcludes ==
  ASSUME NEW journal \in Journal, NEW last \in Journal,
         NEW code \in Outcomes \ {"ProcessRestarted"},
         WellFormed(journal), journal.state # "None", ~is_terminal(journal.state),
         last.tid = journal.tid, last.source = journal.source,
         journal.compact \in {0, last.compact}, journal.cont \in {0, last.cont},
         journal.capsule => last.capsule
  PROVE  Concludes(journal, Conclude(last, code)) /\ WellFormed(Conclude(last, code))
BY DEF Concludes, Conclude, cancel, fail, is_terminal, Terminal, transition_allowed,
       WellFormed, Journal, BeforeMutation, Injecting

\* Nothing that is still under way is terminal or missing.
LEMMA WorkingState ==
  ASSUME NEW p \in Proc, pc[p] \in Working, WorkerOK(p), WellFormed(disk), disk \in Journal
  PROVE  /\ mem[p] = disk /\ disk.state # "None" /\ ~is_terminal(disk.state)
         /\ StateAt(pc[p], disk.state) /\ (disk.capsule <=> pc[p] \in CapsuleStored)
<1>1. mem[p] = disk /\ StateAt(pc[p], disk.state) /\ (disk.capsule <=> pc[p] \in CapsuleStored)
  BY DEF WorkerOK
<1>2. disk.state \in BeforeMutation \union Compacting \union Injecting
  BY <1>1 DEF StateAt, Working, ReadingSource, ReadingCompaction, Injectable, InjectionSent,
              Continuing, Continued, BeforeMutation, Compacting, Injecting
<1> QED
  BY <1>1, <1>2 DEF BeforeMutation, Compacting, Injecting, is_terminal, Terminal

LEMMA StopWorks ==
  ASSUME JournalOK, JournalInv, NEW p \in Proc, pc[p] \in Working,
         NEW code \in Outcomes \ {"ProcessRestarted"}, Stop(p, code), accepted' = accepted
  PROVE  Works(p)
<1>1. mem[p] = disk /\ disk.state # "None" /\ ~is_terminal(disk.state) /\ WellFormed(disk)
  BY WorkingHolds, WorkingState DEF JournalInv, JournalOK
<1>2. Concludes(disk, Conclude(disk, code)) /\ WellFormed(Conclude(disk, code))
  BY <1>1, ConcludeConcludes DEF JournalOK
<1>3. disk' = disk /\ pc'[p] = "finish" /\ mem'[p] = Conclude(disk, code)
  BY <1>1 DEF Stop, Goto, JournalOK
<1>4. WorkerOK(p)'
  BY <1>2, <1>3 DEF WorkerOK, Working, ReadingSource, ReadingCompaction, Injectable,
                    InjectionSent, Continuing, Continued
<1>5. Blames(p)
  BY <1>1, <1>3, ConcludeReason, BlamesNot DEF JournalOK
<1> QED
  BY <1>1, <1>3, <1>4, <1>5 DEF Works, JournalInv, JournalStep, Arrives, WellFormed

LEMMA GotoWorks ==
  ASSUME JournalOK, JournalInv, NEW p \in Proc, pc[p] \in Working,
         NEW step \in Working, Goto(p, step), UNCHANGED <<mem, disk, accepted>>,
         StateAt(step, disk.state), step \in CapsuleStored <=> pc[p] \in CapsuleStored,
         step \notin {"sendCompact", "sendInject", "drainUser"},
         step = "sendStart" => pc[p] = "drainUser"
  PROVE  Works(p)
<1>1. mem[p] = disk /\ WellFormed(disk) /\ (disk.capsule <=> pc[p] \in CapsuleStored)
  BY WorkingHolds, WorkingState DEF JournalInv, JournalOK
<1>2. pc'[p] = step
  BY DEF Goto, JournalOK
<1>3. step \notin {"prepare", "accept", "finish"}
  BY DEF Working, ReadingSource, ReadingCompaction, Injectable,
         InjectionSent, Continuing, Continued
<1>4. WorkerOK(p)'
  BY <1>1, <1>2, <1>3 DEF WorkerOK
<1>5. Blames(p)
  BY <1>2, <1>3, BlamesNot
<1> QED
  BY <1>1, <1>2, <1>4, <1>5 DEF Works, JournalInv, JournalStep, Arrives, WellFormed

LEMMA StayWorks ==
  ASSUME JournalOK, JournalInv, NEW p \in Proc,
         pc[p] \in Working \ {"sendCompact", "sendInject", "drainUser", "sendStart"},
         UNCHANGED <<pc, mem, disk, accepted>>
  PROVE  Works(p)
<1>1. WorkerOK(p)'
  BY WorkingHolds DEF JournalInv, WorkerOK, Concludes
<1>2. Blames(p)
  BY WorkingGoesOn, BlamesNot
<1> QED
  BY <1>1, <1>2 DEF Works, JournalInv, JournalStep, Arrives, WellFormed

\* Where Advance leads when the save succeeds.
Reaches(p, journal, next, step) ==
  /\ step \in Working \union {"cleanup", "finish"}
  /\ StateAt(step, next)
  /\ step \in Working => (disk.capsule <=> step \in CapsuleStored)
  /\ step \in {"cleanup", "finish"} => is_terminal(next)
  /\ step = "sendCompact" => disk.state \in BeforeMutation
  /\ step = "sendInject" => disk.state = "AwaitCompactionTurnCompleted"
  /\ step = "drainUser" => disk.state = "InjectingCheckpoint"
  /\ step # "sendStart" /\ next # "Cancelled"
  /\ WellFormed([journal EXCEPT !.state = next])

LEMMA AdvanceWorks ==
  ASSUME JournalOK, JournalInv, NEW p \in Proc, pc[p] \in Working,
         NEW journal \in Journal, NEW next \in TransitionStates, NEW step,
         Advance(p, journal, next, step), accepted' = accepted,
         journal.tid = disk.tid, journal.source = disk.source, journal.state = disk.state,
         journal.capsule = disk.capsule,
         disk.compact \in {0, journal.compact}, disk.cont \in {0, journal.cont},
         transition_allowed(disk.state, next) => Reaches(p, journal, next, step)
  PROVE  Works(p)
<1> DEFINE entered == [journal EXCEPT !.state = next]
<1>0. mem[p] = disk /\ disk.state # "None" /\ ~is_terminal(disk.state) /\ WellFormed(disk)
  BY WorkingHolds, WorkingState DEF JournalInv, JournalOK
<1>1. CASE ~transition_allowed(journal.state, next) /\ Stop(p, "Internal")
  BY <1>1, StopWorks DEF Outcomes, ErrorCodes
<1>2. ASSUME NEW outcome \in SaveOutcomes, transition_allowed(journal.state, next),
             Save(entered, outcome),
             mem' = [mem EXCEPT ![p] = IF outcome = "ok"
                                       THEN entered ELSE Conclude(entered, "Io")],
             Goto(p, IF outcome = "ok" THEN step ELSE "finish")
      PROVE  Works(p)
  <2>1. /\ entered \in Journal /\ entered.state = next /\ entered.tid = disk.tid
        /\ entered.source = disk.source
        /\ entered.capsule = disk.capsule /\ entered.compact = journal.compact
        /\ entered.cont = journal.cont
    BY DEF Journal
  <2>2. Reaches(p, journal, next, step) /\ WellFormed(entered)
    BY <1>2 DEF Reaches
  <2> HIDE DEF entered
  <2>3. pc'[p] = (IF outcome = "ok" THEN step ELSE "finish")
    BY <1>2 DEF Goto, JournalOK
  <2>4. mem'[p] = (IF outcome = "ok" THEN entered ELSE Conclude(entered, "Io"))
    BY <1>2 DEF JournalOK
  <2>5. disk' = (IF outcome = "failed" THEN disk ELSE entered)
    BY <1>2 DEF Save
  <2>6. disk' = disk \/ Progress
    BY <1>0, <1>2, <2>1, <2>5 DEF Progress
  <2>7. WellFormed(disk)' /\ (disk.tid <= accepted)'
    BY <1>0, <2>1, <2>2, <2>5 DEF JournalInv, WellFormed
  <2>8. CASE outcome = "ok"
    <3>1. disk' = entered /\ mem'[p] = entered /\ pc'[p] = step
      BY <2>3, <2>4, <2>5, <2>8
    <3>2. step \in Working => WorkerOK(p)'
      <4>1. SUFFICES ASSUME step \in Working PROVE WorkerOK(p)'
        OBVIOUS
      <4>2. step \notin {"prepare", "accept", "finish"}
        BY <4>1
           DEF Working, ReadingSource, ReadingCompaction, Injectable, InjectionSent,
               Continuing, Continued
      <4> QED
        BY <2>1, <2>2, <3>1, <4>1, <4>2 DEF Reaches, WorkerOK
    <3>3. step \in {"cleanup", "finish"} => WorkerOK(p)'
      <4>1. SUFFICES ASSUME step \in {"cleanup", "finish"} PROVE WorkerOK(p)'
        OBVIOUS
      <4>2. step \notin Working /\ is_terminal(next)
        BY <2>2, <4>1
           DEF Reaches, Working, ReadingSource, ReadingCompaction, Injectable,
               InjectionSent, Continuing, Continued
      <4>3. Concludes(entered, entered)
        BY <2>1, <4>2 DEF Concludes, is_terminal, Terminal, Journal
      <4> QED
        BY <2>2, <3>1, <4>1, <4>2, <4>3 DEF WorkerOK
    <3>4. Arrives(p)
      BY <2>1, <2>2, <3>1 DEF Reaches, Arrives
    <3>5. Blames(p)
      BY <2>1, <2>2, <3>1, BlamesNot DEF Reaches, WellFormed
    <3> QED
      BY <2>2, <2>6, <2>7, <3>2, <3>3, <3>4, <3>5 DEF Reaches, Works, JournalStep
  <2>9. CASE outcome # "ok"
    <3>1. pc'[p] = "finish" /\ mem'[p] = Conclude(entered, "Io")
      BY <2>3, <2>4, <2>9
    <3>2. Concludes(disk, Conclude(entered, "Io")) /\ WellFormed(Conclude(entered, "Io"))
      BY <1>0, <2>1, <2>2, ConcludeConcludes DEF JournalOK, Outcomes, ErrorCodes
    <3>3. Concludes(disk', Conclude(entered, "Io"))
      <4>1. CASE outcome = "failed"
        BY <2>5, <3>2, <4>1
      <4>2. CASE outcome # "failed"
        <5>1. "unsynced" \in Faults
          BY <2>9, <4>2 DEF SaveOutcomes
        <5> QED
          BY <2>1, <2>5, <4>2, <5>1
             DEF Concludes, Conclude, cancel, fail, is_terminal, Terminal,
                 transition_allowed, Journal, TransitionStates, BeforeMutation, Compacting,
                 Injecting
      <4> QED
        BY <4>1, <4>2
    <3>4. WorkerOK(p)'
      BY <3>1, <3>2, <3>3
         DEF WorkerOK, Working, ReadingSource, ReadingCompaction, Injectable, InjectionSent,
             Continuing, Continued
    <3>5. mem'[p].reason # "ProcessRestarted"
      BY <2>1, <3>1, ConcludeReason
    <3>6. Blames(p)
      BY <2>1, <2>2, <2>5, <3>5, BlamesNot DEF Reaches, WellFormed
    <3> QED
      BY <2>6, <2>7, <3>1, <3>4, <3>6 DEF Works, JournalStep, Arrives
  <2> QED
    BY <2>8, <2>9
<1> QED
  BY <1>1, <1>2 DEF Advance

\* An error a task or a recovery stops with.
StopCodes == Outcomes \ {"ProcessRestarted"}

LEMMA StopCodeTypes ==
  /\ \A event : \A code \in StopCodes : StreamError(event, code) \in StopCodes
  /\ \A source, tid : validate_final_source_snapshot(turns, source, tid) \in StopCodes
  /\ \A compact : require_completed_compaction_boundary(turns, compact) \in StopCodes
  /\ DescendantErrors \subseteq StopCodes
BY DEF StreamError, validate_final_source_snapshot, require_completed_compaction_boundary,
       DescendantErrors, StopCodes, Outcomes, ErrorCodes, CancellationErrors

\* A step that only goes on to `step', stays where it is, or stops.
Goes(p, step) ==
  /\ \/ Goto(p, step) /\ UNCHANGED <<mem, disk>>
     \/ UNCHANGED <<pc, mem, disk>>
     \/ \E code \in StopCodes : Stop(p, code)
  /\ UnchangedSchedule

LEMMA GoesWorks ==
  ASSUME JournalOK, JournalInv, NEW p \in Proc,
         pc[p] \in Working \ {"sendCompact", "sendInject", "drainUser", "sendStart"},
         NEW step \in Working \ {"sendCompact", "sendInject", "drainUser", "sendStart"},
         Goes(p, step), StateAt(step, disk.state),
         step \in CapsuleStored <=> pc[p] \in CapsuleStored
  PROVE  Works(p)
BY GotoWorks, StayWorks, StopWorks DEF Goes, UnchangedSchedule, StopCodes

LEMMA RejectQueuedGoes ==
  ASSUME StreamOK, NEW p \in Proc, NEW allowed, NEW step, RejectQueued(p, allowed, step)
  PROVE  Goes(p, step)
<1> DEFINE code(i) == IF Competes(stream[p][i], allowed) THEN "RaceLost"
                      ELSE StreamError(stream[p][i], "SharedAppServerUnavailable")
<1>1. \A i : code(i) \in StopCodes
  BY StopCodeTypes DEF StopCodes, Outcomes, ErrorCodes, CancellationErrors
<1> HIDE DEF code
<1>2. \/ Goto(p, step) /\ UNCHANGED <<mem, disk>>
      \/ \E i : Stop(p, code(i))
  BY DEF RejectQueued, code
<1> QED
  BY <1>1, <1>2 DEF RejectQueued, Goes

LEMMA StartedErrorType ==
  ASSUME NEW p \in Proc
  PROVE  \A i : StartedError(p, i) \in StopCodes
BY StopCodeTypes DEF StartedError, StopCodes, Outcomes, ErrorCodes, CancellationErrors

LEMMA DrainStartedStop ==
  ASSUME NEW p \in Proc, NEW n
  PROVE  DrainStarted(p, n).code \in StopCodes
BY StartedErrorType DEF DrainStarted, StopCodes, Outcomes

LEMMA RejectStartedGoes ==
  ASSUME NEW p \in Proc, NEW step, RejectStarted(p, step)
  PROVE  Goes(p, step)
<1>1. "RaceLost" \in StopCodes
  BY DEF StopCodes, Outcomes, ErrorCodes, CancellationErrors
<1> QED
  BY <1>1, DrainStartedStop DEF RejectStarted, Goes

LEMMA ReadThreadGoes ==
  ASSUME NEW p \in Proc, NEW code \in StopCodes, NEW step, ReadThread(p, code, step)
  PROVE  Goes(p, step)
BY DEF ReadThread, Goes, StopCodes, Outcomes, ErrorCodes

LEMMA SendOnceWorks ==
  ASSUME JournalOK, JournalInv, NEW p \in Proc, pc[p] \in Working, NEW from, NEW method,
         NEW next \in Working \ {"sendCompact", "sendInject", "drainUser", "sendStart"},
         NEW onError \in StopCodes, SendOnce(p, from, method, next, onError),
         StateAt(next, disk.state), next \in CapsuleStored <=> pc[p] \in CapsuleStored
  PROVE  Works(p)
BY GotoWorks, StopWorks DEF SendOnce, UnchangedSchedule, StopCodes

-----------------------------------------------------------------------------
(* The task up to the persisted capsule *)

LEMMA AwaitCompactionWorks ==
  ASSUME JournalOK, StreamOK, JournalInv, NEW p \in Proc, AwaitCompaction(p)
  PROVE  Works(p)
<1> DEFINE event == Head(stream[p])
           verdict == CompactionVerdict(mem[p], item[p], event)
<1>0. pc[p] \in Working /\ pc[p] = "awaitCompaction" /\ accepted' = accepted
  BY DEF AwaitCompaction, Working, UnchangedSchedule
<1>1. /\ mem[p] = disk /\ disk.state \in Compacting /\ ~disk.capsule /\ WellFormed(disk)
      /\ disk \in Journal
  BY <1>0, WorkingHolds, WorkingState
     DEF JournalInv, JournalOK, StateAt, CapsuleStored, Injectable, InjectionSent,
         Continuing, Continued
<1>2. event.turn \in Nat
  BY HeadType DEF AwaitCompaction
<1>3. verdict = "bind" => disk.compact = 0
  BY <1>1, StopCodeTypes
     DEF CompactionVerdict, StopCodes, Outcomes, ErrorCodes, CancellationErrors
<1>4. verdict \in StopCodes \union {"bind", "item", "done", "turn"}
  BY StopCodeTypes
     DEF CompactionVerdict, StopCodes, Outcomes, ErrorCodes, CancellationErrors
<1>5. verdict = "turn" => disk.state = "AwaitCompactionTurnCompleted"
  BY <1>1, StopCodeTypes
     DEF CompactionVerdict, StopCodes, Outcomes, ErrorCodes, CancellationErrors
<1> HIDE DEF verdict, event
<1>6. CASE verdict = "bind" /\ Advance(p, [mem[p] EXCEPT !.compact = event.turn],
                                         "AwaitCompactionItem", "awaitCompaction")
  <2> DEFINE journal == [disk EXCEPT !.compact = event.turn]
  <2>1. /\ journal \in Journal /\ journal.tid = disk.tid /\ journal.source = disk.source
        /\ journal.state = disk.state /\ journal.capsule = disk.capsule
        /\ journal.cont = disk.cont /\ journal.reason = disk.reason
        /\ [journal EXCEPT !.state = "AwaitCompactionItem"].tid = disk.tid
    BY <1>1, <1>2 DEF Journal
  <2>2. Advance(p, journal, "AwaitCompactionItem", "awaitCompaction")
    BY <1>1, <1>6
  <2>3. disk.state # "CompactRequestSent"
          => ~transition_allowed(disk.state, "AwaitCompactionItem")
    BY <1>1 DEF transition_allowed, Compacting
  <2>4. disk.state = "CompactRequestSent"
          => Reaches(p, journal, "AwaitCompactionItem", "awaitCompaction")
    BY <1>0, <1>1, <1>2
       DEF Reaches, StateAt, CapsuleStored, Injectable, InjectionSent, Continuing,
           Continued, ReadingSource, ReadingCompaction, Compacting, WellFormed, Journal,
           BeforeMutation, Injecting, Terminal, Working
  <2>5. disk.compact \in {0, journal.compact} /\ disk.cont \in {0, journal.cont}
    BY <1>1, <1>2, <1>3, <1>6, <2>1
  <2>6. "AwaitCompactionItem" \in TransitionStates
    BY DEF TransitionStates, Compacting
  <2> HIDE DEF journal
  <2> QED
    BY <1>0, <1>1, <2>1, <2>2, <2>3, <2>4, <2>5, <2>6, AdvanceWorks
<1>7. CASE verdict = "done" /\ Advance(p, mem[p], "AwaitCompactionTurnCompleted",
                                         "awaitCompaction")
  <2>1. Advance(p, disk, "AwaitCompactionTurnCompleted", "awaitCompaction")
    BY <1>1, <1>7
  <2>2. Reaches(p, disk, "AwaitCompactionTurnCompleted", "awaitCompaction")
    BY <1>0, <1>1
       DEF Reaches, StateAt, CapsuleStored, Injectable, InjectionSent, Continuing,
           Continued, ReadingSource, ReadingCompaction, Compacting, WellFormed, Journal,
           BeforeMutation, Injecting, Terminal, Working
  <2> QED
    BY <1>0, <1>1, <2>1, <2>2, AdvanceWorks DEF TransitionStates, Compacting
<1>8. CASE verdict = "turn" /\ Goto(p, "drainCompact") /\ UNCHANGED <<mem, disk>>
  <2>1. Goes(p, "drainCompact")
    BY <1>8 DEF Goes, AwaitCompaction
  <2> QED
    BY <1>0, <1>5, <1>8, <2>1, GoesWorks
       DEF StateAt, CapsuleStored, Injectable, InjectionSent, Continuing, Continued,
           ReadingSource, ReadingCompaction, Working
<1>9. CASE UNCHANGED <<pc, mem, disk>>
  BY <1>0, <1>9, StayWorks
<1>10. CASE verdict \in ErrorCodes /\ Stop(p, verdict)
  <2>1. verdict \in StopCodes
    BY <1>4, <1>10 DEF ErrorCodes, CancellationErrors
  <2> QED
    BY <1>0, <1>10, <2>1, StopWorks DEF StopCodes
<1> QED
  BY <1>6, <1>7, <1>8, <1>9, <1>10 DEF AwaitCompaction, verdict, event

\* Saves that only advance the journal.
LEMMA RecordWorks ==
  ASSUME JournalOK, JournalInv, NEW p \in Proc, NEW from \in Working,
         NEW state \in TransitionStates, NEW next, Record(p, from, state, next),
         transition_allowed(disk.state, state) => Reaches(p, disk, state, next)
  PROVE  Works(p)
<1>1. pc[p] \in Working /\ accepted' = accepted
  BY DEF Record, UnchangedSchedule
<1>2. mem[p] = disk /\ disk \in Journal
  BY <1>1, WorkingHolds, WorkingState DEF JournalInv, JournalOK
<1>3. Advance(p, disk, state, next)
  BY <1>2 DEF Record
<1>4. disk.compact \in {0, disk.compact} /\ disk.cont \in {0, disk.cont}
  OBVIOUS
<1> QED
  BY <1>1, <1>2, <1>3, <1>4, AdvanceWorks

\* Which steps a journal with and without the capsule belongs to.
LEMMA StepsApart ==
  /\ CapsuleStored \intersect {"acceptAwait", "saveSent", "sendCompact", "waitCompact",
                               "awaitCompaction"} = {}
  /\ CapsuleStored \intersect (ReadingSource \union ReadingCompaction) = {}
  /\ CapsuleStored \subseteq Working
BY DEF CapsuleStored, Injectable, InjectionSent, Continuing, Continued, ReadingSource,
       ReadingCompaction, Working

LEMMA SaveCapsuleWorks ==
  ASSUME JournalOK, JournalInv, NEW p \in Proc, SaveCapsule(p)
  PROVE  Works(p)
<1> DEFINE stored == [disk EXCEPT !.capsule = TRUE]
<1>0. pc[p] \in Working /\ pc[p] = "saveCapsule" /\ accepted' = accepted
  BY DEF SaveCapsule, Working, ReadingCompaction, UnchangedSchedule
<1>1. /\ mem[p] = disk /\ disk.state = "AwaitCompactionTurnCompleted" /\ ~disk.capsule
      /\ WellFormed(disk) /\ disk \in Journal
  BY <1>0, WorkingHolds, WorkingState, StepsApart
     DEF JournalInv, JournalOK, StateAt, ReadingCompaction
<1>2. CASE Stop(p, "CheckpointTooLarge")
  BY <1>0, <1>2, StopWorks DEF Outcomes, ErrorCodes
<1>3. ASSUME NEW outcome \in SaveOutcomes, Save(stored, outcome),
             mem' = [mem EXCEPT ![p] = IF outcome = "ok"
                                       THEN stored ELSE Conclude(stored, "Io")],
             Goto(p, IF outcome = "ok" THEN "drainInject" ELSE "finish")
      PROVE  Works(p)
  <2>1. /\ stored \in Journal /\ WellFormed(stored) /\ stored.state = disk.state
        /\ stored.tid = disk.tid /\ stored.source = disk.source /\ stored.capsule
        /\ stored.compact = disk.compact /\ stored.cont = disk.cont
    BY <1>1 DEF Journal, WellFormed, BeforeMutation
  <2> HIDE DEF stored
  <2>2. pc'[p] = (IF outcome = "ok" THEN "drainInject" ELSE "finish")
    BY <1>3 DEF Goto, JournalOK
  <2>3. mem'[p] = (IF outcome = "ok" THEN stored ELSE Conclude(stored, "Io"))
    BY <1>3 DEF JournalOK
  <2>4. disk' = (IF outcome = "failed" THEN disk ELSE stored)
    BY <1>3 DEF Save
  <2>5. disk' = disk \/ Progress
    BY <1>1, <2>1, <2>4 DEF Progress, is_terminal, Terminal
  <2>6. WellFormed(disk)' /\ (disk.tid <= accepted)'
    BY <1>0, <1>1, <2>1, <2>4 DEF JournalInv, WellFormed
  <2>7. CASE outcome = "ok"
    <3>1. disk' = stored /\ mem'[p] = stored /\ pc'[p] = "drainInject"
      BY <2>2, <2>3, <2>4, <2>7
    <3>2. WorkerOK(p)'
      BY <1>1, <2>1, <3>1
         DEF WorkerOK, StateAt, CapsuleStored, Injectable, InjectionSent, Continuing,
             Continued, ReadingSource, ReadingCompaction
    <3>3. Blames(p)
      BY <3>1, BlamesNot, <1>1, <2>1 DEF WellFormed
    <3> QED
      BY <2>5, <2>6, <3>1, <3>2, <3>3 DEF Works, JournalStep, Arrives
  <2>8. CASE outcome # "ok"
    <3>1. pc'[p] = "finish" /\ mem'[p] = Conclude(stored, "Io")
      BY <2>2, <2>3, <2>8
    <3>2. ~is_terminal(disk.state) /\ disk.state # "None"
      BY <1>1 DEF is_terminal, Terminal
    <3>3. "Io" \in Outcomes \ {"ProcessRestarted"}
      BY DEF Outcomes, ErrorCodes
    <3>4. /\ Concludes(disk, Conclude(stored, "Io"))
          /\ Concludes(stored, Conclude(stored, "Io"))
          /\ WellFormed(Conclude(stored, "Io"))
      BY <1>1, <2>1, <3>2, <3>3, ConcludeConcludes
    <3>5. WorkerOK(p)'
      BY <2>4, <3>1, <3>4
         DEF WorkerOK, Working, ReadingSource, ReadingCompaction, Injectable, InjectionSent,
             Continuing, Continued
    <3>6. mem'[p].reason # "ProcessRestarted"
      BY <2>1, <3>1, ConcludeReason
    <3>7. Blames(p)
      BY <1>1, <2>1, <2>4, <3>6, BlamesNot DEF WellFormed
    <3> QED
      BY <2>5, <2>6, <3>1, <3>5, <3>7 DEF Works, JournalStep, Arrives
  <2> QED
    BY <2>7, <2>8
<1> QED
  BY <1>1, <1>2, <1>3 DEF SaveCapsule

\* Steps of one group go with the same state of the journal.
LEMMA GoesWithin ==
  ASSUME JournalOK, JournalInv, NEW p \in Proc, NEW step, Goes(p, step),
         \/ pc[p] \in ReadingSource /\ step \in ReadingSource
         \/ pc[p] \in ReadingCompaction /\ step \in ReadingCompaction
         \/ pc[p] \in Injectable /\ step \in Injectable
         \/ pc[p] \in Continued /\ step \in Continued
         \/ pc[p] = "waitCompact" /\ step = "awaitCompaction"
         \/ pc[p] = "waitInject" /\ step = "saveStarting"
  PROVE  Works(p)
<1>1. /\ pc[p] \in Working \ {"sendCompact", "sendInject", "drainUser", "sendStart"}
      /\ step \in Working \ {"sendCompact", "sendInject", "drainUser", "sendStart"}
      /\ step \in CapsuleStored <=> pc[p] \in CapsuleStored
  BY DEF Working, CapsuleStored, ReadingSource, ReadingCompaction, Injectable,
         InjectionSent, Continuing, Continued
<1>2. StateAt(pc[p], disk.state)
  BY <1>1, WorkingHolds, WorkingState DEF JournalInv, JournalOK
<1>3. StateAt(step, disk.state)
  BY <1>2
     DEF StateAt, ReadingSource, ReadingCompaction, Injectable, InjectionSent, Continuing,
         Continued, Compacting
<1> QED
  BY <1>1, <1>3, GoesWorks

LEMMA CompactWorks ==
  ASSUME JournalOK, StreamOK, JournalInv, NEW p \in Proc, CompactNext(p)
  PROVE  Works(p) /\ Holding(p) /\ UNCHANGED lease
<1> SUFFICES Works(p)
  BY CompactKeepsLease DEF KeepsLease
<1>1. pc[p] \in Working => StateAt(pc[p], disk.state) /\ mem[p] = disk /\ WellFormed(disk)
                           /\ (disk.capsule <=> pc[p] \in CapsuleStored) /\ disk \in Journal
  BY WorkingHolds, WorkingState DEF JournalInv, JournalOK
<1>2. CASE AwaitSource(p)
  <2>1. Goes(p, "drainSource") /\ pc[p] = "awaitSource"
    BY <1>2, StopCodeTypes
       DEF AwaitSource, Goes, StopCodes, Outcomes, ErrorCodes, CancellationErrors
  <2> QED
    BY <2>1, GoesWithin DEF ReadingSource
<1>3. CASE DrainSource(p) \/ RedrainSource(p)
  <2>1. \/ pc[p] = "drainSource" /\ Goes(p, "readSource")
        \/ pc[p] = "redrainSource" /\ Goes(p, "saveReady")
    BY <1>3, RejectQueuedGoes DEF DrainSource, RedrainSource
  <2> QED
    BY <2>1, GoesWithin DEF ReadingSource
<1>4. CASE ReadSource(p) \/ GuardSource(p)
  <2>1. \/ pc[p] = "readSource" /\ Goes(p, "guardSource")
        \/ pc[p] = "guardSource" /\ Goes(p, "redrainSource")
    BY <1>4, ReadThreadGoes, StopCodeTypes DEF ReadSource, GuardSource, GuardDescendants
  <2> QED
    BY <2>1, GoesWithin DEF ReadingSource
<1>7. CASE SaveReady(p) \/ SaveSent(p)
  <2>1. \/ Record(p, "saveReady", "ReadyToCompact", "saveSent") /\ pc[p] = "saveReady"
        \/ Record(p, "saveSent", "CompactRequestSent", "sendCompact") /\ pc[p] = "saveSent"
    BY <1>7 DEF SaveReady, SaveSent, Record
  <2>2. /\ mem[p] = disk /\ WellFormed(disk) /\ disk \in Journal /\ ~disk.capsule
        /\ pc[p] = "saveReady" => disk.state = "AwaitSourceTurnCompleted"
        /\ pc[p] = "saveSent" => disk.state = "ReadyToCompact"
    BY <1>1, <2>1, StepsApart DEF StateAt, ReadingSource, Working
  <2>3. pc[p] = "saveReady" => Reaches(p, disk, "ReadyToCompact", "saveSent")
    BY <2>2, StepsApart
       DEF Reaches, StateAt, Working, ReadingSource, ReadingCompaction, Injectable,
           InjectionSent, Continuing, Continued, WellFormed, Journal, BeforeMutation,
           Injecting, Terminal
  <2>4. pc[p] = "saveSent" => Reaches(p, disk, "CompactRequestSent", "sendCompact")
    BY <2>2, StepsApart
       DEF Reaches, StateAt, Working, ReadingSource, ReadingCompaction, Injectable,
           InjectionSent, Continuing, Continued, WellFormed, Journal, BeforeMutation,
           Injecting, Terminal
  <2>5. /\ {"saveReady", "saveSent"} \subseteq Working
        /\ {"ReadyToCompact", "CompactRequestSent"} \subseteq TransitionStates
    BY DEF Working, ReadingSource, TransitionStates, BeforeMutation, Compacting
  <2> QED
    BY <2>1, <2>3, <2>4, <2>5, RecordWorks
<1>9. CASE SendCompact(p)
  <2>1. /\ pc[p] = "sendCompact"
        /\ SendOnce(p, "sendCompact", "compact", "waitCompact", "CompactionFailed")
    BY <1>9 DEF SendCompact, SendOnce
  <2>2. "CompactionFailed" \in StopCodes
    BY DEF StopCodes, Outcomes, ErrorCodes
  <2>3. {"sendCompact", "waitCompact"} \subseteq Working \ CapsuleStored
    BY StepsApart DEF Working
  <2>4. StateAt("waitCompact", disk.state)
    BY <1>1, <2>1, <2>3
       DEF StateAt, ReadingSource, ReadingCompaction, Injectable, InjectionSent, Continuing,
           Continued
  <2> QED
    BY <2>1, <2>2, <2>3, <2>4, SendOnceWorks
<1>10. CASE WaitCompact(p)
  <2>1. Goes(p, "awaitCompaction") /\ pc[p] = "waitCompact"
    BY <1>10 DEF WaitCompact, Goes, StopCodes, Outcomes, ErrorCodes
  <2> QED
    BY <2>1, GoesWithin
<1>11. CASE AwaitCompaction(p)
  BY <1>11, AwaitCompactionWorks
<1>12. CASE DrainCompact(p) \/ ReadCompact(p)
  <2>1. \/ pc[p] = "drainCompact" /\ Goes(p, "readCompact")
        \/ pc[p] = "readCompact" /\ Goes(p, "saveCapsule")
    BY <1>12, RejectQueuedGoes, ReadThreadGoes, StopCodeTypes DEF DrainCompact, ReadCompact
  <2> QED
    BY <2>1, GoesWithin DEF ReadingCompaction
<1>14. CASE SaveCapsule(p)
  BY <1>14, SaveCapsuleWorks
<1> QED
  BY <1>2, <1>3, <1>4, <1>7, <1>9, <1>10, <1>11, <1>12, <1>14 DEF CompactNext

-----------------------------------------------------------------------------
(* The injection and the continuation *)

LEMMA DoneFits ==
  ASSUME NEW p \in Proc
  PROVE  Done(p) \in {"cleanup", "finish"}
BY DEF Done

\* What the journal becomes when the transition reaches Cooldown with a turn to
\* count from.
LEMMA CooldownReached ==
  ASSUME JournalOK, JournalInv, NEW p \in Proc, pc[p] \in Working, NEW turn \in Nat,
         disk.state \in {"StartingContinuation", "AwaitContinuationStarted"},
         disk.cont \in {0, turn}, accepted' = accepted,
         Advance(p, [mem[p] EXCEPT !.cont = turn], "Cooldown", Done(p))
  PROVE  Works(p)
<1> DEFINE journal == [disk EXCEPT !.cont = turn]
<1>1. mem[p] = disk /\ WellFormed(disk) /\ disk \in Journal
  BY WorkingHolds, WorkingState DEF JournalInv, JournalOK
<1>2. /\ journal \in Journal /\ journal.tid = disk.tid /\ journal.source = disk.source
      /\ journal.state = disk.state /\ journal.capsule = disk.capsule
      /\ journal.compact = disk.compact /\ journal.cont = turn
  BY <1>1 DEF Journal
<1>3. WellFormed([journal EXCEPT !.state = "Cooldown"])
  BY <1>1
     DEF WellFormed, Journal, BeforeMutation, Injecting, Terminal
<1>4. /\ Done(p) \notin Working /\ Done(p) \in {"cleanup", "finish"}
      /\ "Cooldown" \in TransitionStates
  BY DoneFits
     DEF Working, ReadingSource, ReadingCompaction, Injectable, InjectionSent, Continuing,
         Continued, TransitionStates, Terminal
<1>5. Advance(p, journal, "Cooldown", Done(p))
  BY <1>1
<1> HIDE DEF journal
<1>6. Reaches(p, journal, "Cooldown", Done(p))
  BY <1>3, <1>4
     DEF Reaches, StateAt, is_terminal, Terminal, ReadingSource, ReadingCompaction,
         Injectable, InjectionSent, Continuing, Continued
<1> QED
  BY <1>1, <1>2, <1>4, <1>5, <1>6, AdvanceWorks

LEMMA DrainStartedTurn ==
  ASSUME StreamOK, NEW p \in Proc, NEW n \in Drained(p)
  PROVE  DrainStarted(p, n).turn \in Nat
BY DrainStartedType

LEMMA WaitStartWorks ==
  ASSUME JournalOK, StreamOK, ChannelOK, JournalInv, NEW p \in Proc, WaitStart(p)
  PROVE  Works(p)
<1>0. pc[p] \in Working /\ pc[p] = "waitStart" /\ accepted' = accepted
  BY DEF WaitStart, Working, Continuing, UnchangedSchedule
<1>1. /\ mem[p] = disk /\ disk.state = "StartingContinuation" /\ disk.capsule
      /\ WellFormed(disk) /\ disk \in Journal /\ disk.cont = 0
  <2>1. /\ mem[p] = disk /\ disk.state = "StartingContinuation" /\ disk.capsule
        /\ WellFormed(disk) /\ disk \in Journal
    BY <1>0, WorkingHolds, WorkingState
       DEF JournalInv, JournalOK, StateAt, Continuing, CapsuleStored
  <2> QED
    BY <2>1 DEF WellFormed, Terminal
<1>2. ASSUME NEW code \in StopCodes, Stop(p, code) PROVE Works(p)
  BY <1>0, <1>2, StopWorks DEF StopCodes
<1>3. ASSUME NEW n \in Drained(p), UserWins(p, DrainStarted(p, n).turn) PROVE Works(p)
  BY <1>0, <1>1, <1>3, DrainStartedTurn, CooldownReached DEF UserWins
<1>4. CASE Advance(p, [mem[p] EXCEPT !.cont = call[p].turn], "AwaitContinuationStarted",
                   "awaitStarted")
  <2> DEFINE journal == [disk EXCEPT !.cont = call[p].turn]
  <2>1. call[p].turn \in Nat
    BY DEF ChannelOK, Call
  <2>2. /\ journal \in Journal /\ journal.tid = disk.tid /\ journal.source = disk.source
        /\ journal.state = disk.state /\ journal.capsule = disk.capsule
        /\ journal.compact = disk.compact
    BY <1>1, <2>1 DEF Journal
  <2>3. WellFormed([journal EXCEPT !.state = "AwaitContinuationStarted"])
    BY <1>1, <2>1 DEF WellFormed, Journal, BeforeMutation, Injecting, Terminal
  <2>4. Advance(p, journal, "AwaitContinuationStarted", "awaitStarted")
    BY <1>1, <1>4
  <2> HIDE DEF journal
  <2>5. Reaches(p, journal, "AwaitContinuationStarted", "awaitStarted")
    BY <1>1, <2>3
       DEF Reaches, StateAt, Working, CapsuleStored, ReadingSource, ReadingCompaction,
           Injectable, InjectionSent, Continuing, Continued
  <2>6. "AwaitContinuationStarted" \in TransitionStates
    BY DEF TransitionStates, Injecting
  <2> QED
    BY <1>0, <1>1, <2>2, <2>4, <2>5, <2>6, AdvanceWorks
<1>5. "ContinuationUnsupported" \in StopCodes
  BY DEF StopCodes, Outcomes, ErrorCodes
<1> QED
  BY <1>2, <1>3, <1>4, <1>5, DrainStartedStop DEF WaitStart

LEMMA DrainUserWorks ==
  ASSUME JournalOK, StreamOK, JournalInv, NEW p \in Proc, DrainUser(p)
  PROVE  Works(p)
<1>0. pc[p] \in Working /\ pc[p] = "drainUser" /\ accepted' = accepted
  BY DEF DrainUser, Working, Continuing, UnchangedSchedule
<1>1. disk.state = "StartingContinuation" /\ disk.cont = 0
  <2>1. disk.state = "StartingContinuation" /\ WellFormed(disk) /\ disk \in Journal
    BY <1>0, WorkingHolds, WorkingState DEF JournalInv, JournalOK, StateAt, Continuing
  <2> QED
    BY <2>1 DEF WellFormed, Terminal
<1>2. ASSUME NEW n \in Drained(p), Stop(p, DrainStarted(p, n).code) PROVE Works(p)
  BY <1>0, <1>2, StopWorks, DrainStartedStop DEF StopCodes
<1>3. ASSUME NEW n \in Drained(p), UserWins(p, DrainStarted(p, n).turn) PROVE Works(p)
  BY <1>0, <1>1, <1>3, DrainStartedTurn, CooldownReached DEF UserWins
<1>4. CASE Goto(p, "sendStart") /\ UNCHANGED <<mem, disk>>
  <2>1. "sendStart" \in Working /\ "sendStart" \in CapsuleStored /\ pc[p] \in CapsuleStored
    BY <1>0 DEF Working, CapsuleStored, Continuing
  <2>2. StateAt("sendStart", disk.state)
    BY <1>1
       DEF StateAt, ReadingSource, ReadingCompaction, Injectable, InjectionSent, Continuing,
           Continued
  <2> QED
    BY <1>0, <1>4, <2>1, <2>2, GotoWorks
<1> QED
  BY <1>2, <1>3, <1>4 DEF DrainUser

LEMMA InjectWorks ==
  ASSUME JournalOK, StreamOK, ChannelOK, JournalInv, NEW p \in Proc, InjectNext(p)
  PROVE  Works(p) /\ Holding(p) /\ UNCHANGED lease
<1> SUFFICES Works(p)
  BY InjectKeepsLease DEF KeepsLease
<1>1. pc[p] \in Working => StateAt(pc[p], disk.state) /\ mem[p] = disk /\ WellFormed(disk)
                           /\ (disk.capsule <=> pc[p] \in CapsuleStored) /\ disk \in Journal
  BY WorkingHolds, WorkingState DEF JournalInv, JournalOK
<1>2. CASE DrainInject(p) \/ RedrainInject(p)
  <2>1. \/ pc[p] = "drainInject" /\ Goes(p, "guardInject")
        \/ pc[p] = "redrainInject" /\ Goes(p, "saveInjecting")
    BY <1>2, RejectStartedGoes DEF DrainInject, RedrainInject
  <2> QED
    BY <2>1, GoesWithin DEF Injectable
<1>3. CASE GuardInject(p)
  <2>1. pc[p] = "guardInject" /\ Goes(p, "redrainInject")
    BY <1>3, ReadThreadGoes, StopCodeTypes DEF GuardInject, GuardDescendants
  <2> QED
    BY <2>1, GoesWithin DEF Injectable
<1>4. CASE SaveInjecting(p) \/ SaveStarting(p)
  <2>1. \/ /\ pc[p] = "saveInjecting"
           /\ Record(p, "saveInjecting", "InjectingCheckpoint", "sendInject")
        \/ /\ pc[p] = "saveStarting"
           /\ Record(p, "saveStarting", "StartingContinuation", "drainUser")
    BY <1>4 DEF SaveInjecting, SaveStarting, Record
  <2>2. /\ mem[p] = disk /\ WellFormed(disk) /\ disk \in Journal /\ disk.capsule
        /\ pc[p] = "saveInjecting" => disk.state = "AwaitCompactionTurnCompleted"
        /\ pc[p] = "saveStarting" => disk.state = "InjectingCheckpoint"
    BY <1>1, <2>1 DEF StateAt, Injectable, InjectionSent, CapsuleStored, Working
  <2>3. pc[p] = "saveInjecting" => Reaches(p, disk, "InjectingCheckpoint", "sendInject")
    BY <2>2
       DEF Reaches, StateAt, Working, CapsuleStored, ReadingSource, ReadingCompaction,
           Injectable, InjectionSent, Continuing, Continued, WellFormed, Journal,
           BeforeMutation, Injecting, Terminal
  <2>4. pc[p] = "saveStarting" => Reaches(p, disk, "StartingContinuation", "drainUser")
    BY <2>2
       DEF Reaches, StateAt, Working, CapsuleStored, ReadingSource, ReadingCompaction,
           Injectable, InjectionSent, Continuing, Continued, WellFormed, Journal,
           BeforeMutation, Injecting, Terminal
  <2>5. /\ {"saveInjecting", "saveStarting"} \subseteq Working
        /\ {"InjectingCheckpoint", "StartingContinuation"} \subseteq TransitionStates
    BY DEF Working, Injectable, InjectionSent, TransitionStates, Injecting
  <2> QED
    BY <2>1, <2>3, <2>4, <2>5, RecordWorks
<1>5. CASE SendInject(p) \/ SendStart(p)
  <2>1. \/ /\ pc[p] = "sendInject"
           /\ SendOnce(p, "sendInject", "inject", "waitInject", "InjectionFailed")
        \/ /\ pc[p] = "sendStart"
           /\ SendOnce(p, "sendStart", "start", "waitStart", "ContinuationUnsupported")
    BY <1>5 DEF SendInject, SendStart, SendOnce
  <2>2. "InjectionFailed" \in StopCodes /\ "ContinuationUnsupported" \in StopCodes
    BY DEF StopCodes, Outcomes, ErrorCodes
  <2>3. {"sendInject", "waitInject", "sendStart", "waitStart"}
          \subseteq Working \intersect CapsuleStored
    BY DEF Working, CapsuleStored, InjectionSent, Continuing
  <2>4. /\ pc[p] = "sendInject" => StateAt("waitInject", disk.state)
        /\ pc[p] = "sendStart" => StateAt("waitStart", disk.state)
    BY <1>1, <2>1, <2>3
       DEF StateAt, ReadingSource, ReadingCompaction, Injectable, InjectionSent, Continuing,
           Continued
  <2> QED
    BY <2>1, <2>2, <2>3, <2>4, SendOnceWorks
<1>6. CASE WaitInject(p)
  <2>1. Goes(p, "saveStarting") /\ pc[p] = "waitInject"
    BY <1>6 DEF WaitInject, Goes, StopCodes, Outcomes, ErrorCodes
  <2> QED
    BY <2>1, GoesWithin
<1>7. CASE DrainUser(p)
  BY <1>7, DrainUserWorks
<1>8. CASE WaitStart(p)
  BY <1>8, WaitStartWorks
<1>9. CASE AwaitStarted(p)
  <2>1. pc[p] = "awaitStarted"
    BY <1>9 DEF AwaitStarted
  <2>2. Goes(p, "saveCooldown") \/ Goes(p, "confirmStarted")
    BY <1>9, StopCodeTypes
       DEF AwaitStarted, Goes, StopCodes, Outcomes, ErrorCodes, CancellationErrors
  <2> QED
    BY <2>1, <2>2, GoesWithin DEF Continued
<1>10. CASE ConfirmStarted(p)
  <2>1. pc[p] = "confirmStarted" /\ Goes(p, "saveCooldown")
    BY <1>10 DEF ConfirmStarted, Goes, StopCodes, Outcomes, ErrorCodes
  <2> QED
    BY <2>1, GoesWithin DEF Continued
<1>11. CASE SaveCooldown(p)
  <2>1. pc[p] = "saveCooldown" /\ pc[p] \in Working /\ accepted' = accepted
        /\ Advance(p, mem[p], "Cooldown", Done(p))
    BY <1>11 DEF SaveCooldown, Record, Working, Continued, UnchangedSchedule
  <2>2. mem[p] = disk /\ disk \in Journal /\ disk.state = "AwaitContinuationStarted"
    BY <1>1, <2>1 DEF StateAt, Continued
  <2>3. disk.cont \in Nat /\ [disk EXCEPT !.cont = disk.cont] = disk
    BY <2>2 DEF Journal
  <2>4. Advance(p, [mem[p] EXCEPT !.cont = disk.cont], "Cooldown", Done(p))
    BY <2>1, <2>2, <2>3
  <2> QED
    BY <2>1, <2>2, <2>3, <2>4, CooldownReached
<1> QED
  BY <1>2, <1>3, <1>4, <1>5, <1>6, <1>7, <1>8, <1>9, <1>10, <1>11 DEF InjectNext

-----------------------------------------------------------------------------
(* Recovery, the end of a task, and the handler *)

LEMMA LastStepsWork ==
  ASSUME JournalOK, JournalInv, LeaseExclusive, NEW p \in Proc,
         WaitExpires(p) \/ TaskFinish(p) \/ Cleanup(p)
  PROVE  Works(p) /\ Holding(p) /\ lease' \in {p, NoProc}
<1>1. CASE WaitExpires(p)
  <2>1. pc[p] \in Working /\ "Timeout" \in StopCodes
    BY <1>1
       DEF WaitExpires, Working, ReadingSource, Continued, StopCodes, Outcomes, ErrorCodes
  <2>2. Works(p)
    BY <1>1, <2>1, StopWorks DEF WaitExpires, UnchangedSchedule, StopCodes
  <2> QED
    BY <1>1, <2>1, <2>2, WorkingHolds DEF WaitExpires, UnchangedSchedule, LeaseExclusive
<1>2. CASE TaskFinish(p)
  <2>1. /\ pc[p] = "finish" /\ Holding(p) /\ pc'[p] = "cleanup" /\ disk' \in {disk, mem[p]}
        /\ UNCHANGED <<accepted, lease>>
    BY <1>2 DEF TaskFinish, Holding, Goto, JournalOK, Save, UnchangedSchedule
  <2>2. Concludes(disk, mem[p]) /\ WellFormed(mem[p]) /\ WellFormed(disk)
    BY <2>1 DEF JournalInv, WorkerOK
  <2>3. JournalStep
    BY <2>1, <2>2 DEF Concludes, JournalStep, Progress
  <2>4. WellFormed(disk)' /\ (disk.tid <= accepted)'
    BY <2>1, <2>2 DEF JournalInv, Concludes, WellFormed
  <2>5. WorkerOK(p)'
    BY <2>1
       DEF WorkerOK, Working, ReadingSource, ReadingCompaction, Injectable, InjectionSent,
           Continuing, Continued
  <2> QED
    BY <2>1, <2>3, <2>4, <2>5 DEF Works, Arrives, Blames, LeaseExclusive
<1>3. CASE Cleanup(p)
  <2>1. /\ Holding(p) /\ pc'[p] = "serving" /\ ~Holding(p)' /\ lease' = NoProc
        /\ UNCHANGED <<disk, accepted>>
    BY <1>3 DEF Cleanup, Holding, Goto, JournalOK
  <2> QED
    BY <2>1 DEF Works, JournalStep, Arrives, Blames, JournalInv, WellFormed
<1> QED
  BY <1>1, <1>2, <1>3

\* A step of a process leaves the others' program counters and journals alone,
\* and only a start leads to recovery.
Private(p) ==
  \A q \in Proc : /\ q # p => pc'[q] = pc[q] /\ mem'[q] = mem[q]
                  /\ pc'[q] = "recover" => q # p

LEMMA PrivateMemory ==
  ASSUME JournalOK, NEW p \in Proc, CompactNext(p) \/ InjectNext(p)
  PROVE  mem' = mem \/ \E journal : mem' = [mem EXCEPT ![p] = journal]
<1> DEFINE Own == mem' = mem \/ \E journal : mem' = [mem EXCEPT ![p] = journal]
<1> USE DEF Stop, UnchangedThread, UnchangedSchedule
<1>1. CASE AwaitSource(p)
  BY <1>1 DEF AwaitSource
<1>2. CASE \E allowed, step : RejectQueued(p, allowed, step)
  BY <1>2 DEF RejectQueued
<1>3. CASE \E step : RejectStarted(p, step)
  BY <1>3 DEF RejectStarted
<1>4. CASE \E code, step : ReadThread(p, code, step)
  BY <1>4 DEF ReadThread
<1>5. CASE \E journal, next, step : Advance(p, journal, next, step)
  BY <1>5 DEF Advance
<1>6. CASE \E from, method, next, code : SendOnce(p, from, method, next, code)
  BY <1>6 DEF SendOnce
<1>7. CASE WaitCompact(p) \/ WaitInject(p)
  BY <1>7 DEF WaitCompact, WaitInject
<1>8. CASE AwaitCompaction(p)
  BY <1>5, <1>8 DEF AwaitCompaction
<1>9. CASE SaveCapsule(p)
  BY <1>9 DEF SaveCapsule
<1>10. CASE DrainUser(p)
  BY <1>5, <1>10 DEF DrainUser, UserWins
<1>11. CASE WaitStart(p)
  BY <1>5, <1>11 DEF WaitStart, UserWins
<1>12. CASE AwaitStarted(p)
  BY <1>12 DEF AwaitStarted
<1>13. CASE ConfirmStarted(p)
  BY <1>13 DEF ConfirmStarted
<1>14. CASE CompactNext(p)
  BY <1>1, <1>2, <1>4, <1>5, <1>6, <1>7, <1>8, <1>9, <1>14
     DEF CompactNext, DrainSource, ReadSource, GuardSource, GuardDescendants, RedrainSource,
         SaveReady, SaveSent, Record, SendCompact, DrainCompact, ReadCompact
<1>15. CASE InjectNext(p)
  BY <1>3, <1>4, <1>5, <1>6, <1>7, <1>10, <1>11, <1>12, <1>13, <1>15
     DEF InjectNext, DrainInject, GuardInject, GuardDescendants, RedrainInject,
         SaveInjecting, SaveStarting, Record, SendInject, SendStart, SaveCooldown
<1> QED
  BY <1>14, <1>15

LEMMA ProceedIsPrivate ==
  ASSUME JournalOK, NEW p \in Proc, Proceed(p)
  PROVE  Private(p)
<1> USE DEF JournalOK, Private, Stop, Goto
<1>1. CASE CompactNext(p) \/ InjectNext(p)
  <2>1. \/ pc' = pc /\ pc[p] # "recover"
        \/ \E step \in HoldingSteps : Goto(p, step)
    BY <1>1, CompactKeepsLease, InjectKeepsLease DEF KeepsLease, Holding
  <2>2. mem' = mem \/ \E journal : mem' = [mem EXCEPT ![p] = journal]
    BY <1>1, PrivateMemory
  <2> QED
    BY <2>1, <2>2 DEF HoldingSteps
<1>2. CASE RecoverSkip(p) \/ RecoverBegin(p)
  BY <1>2 DEF RecoverSkip, RecoverBegin
<1>3. CASE RecoverResume(p) \/ RecoverConfirm(p)
  BY <1>3 DEF RecoverResume, RecoverConfirm
<1>4. CASE RecoverFinish(p) \/ TaskFinish(p) \/ Cleanup(p) \/ WaitExpires(p)
  BY <1>4 DEF RecoverFinish, TaskFinish, Cleanup, WaitExpires
<1>5. CASE Prepare(p) \/ Accept(p) \/ AcceptAwait(p)
  BY <1>5 DEF Prepare, Accept, AcceptAwait, Reject
<1> QED
  BY <1>1, <1>2, <1>3, <1>4, <1>5 DEF Proceed, RecoveryNext

\* Recovery is only about a transition that has not ended.
RecoversUnfinished == \A p \in Proc : pc[p] = "recover" => ~AdmitsSchedule(mem[p])

LEMMA RecoversInductive ==
  ASSUME JournalOK, RecoversUnfinished, [Next]_vars
  PROVE  RecoversUnfinished'
<1> USE DEF JournalOK, RecoversUnfinished, Goto
<1>1. CASE UNCHANGED vars
  BY <1>1 DEF vars
<1>2. CASE ThreadNext
  BY <1>2 DEF ThreadNext, programVars
<1>3. ASSUME NEW p \in Proc, Proceed(p) PROVE RecoversUnfinished'
  BY <1>3, ProceedIsPrivate DEF Private
<1>4. ASSUME NEW p \in Proc, Boot(p) PROVE RecoversUnfinished'
  BY <1>4 DEF Boot
<1>5. ASSUME NEW p \in Proc, Crash(p) \/ ScheduleBegin(p) PROVE RecoversUnfinished'
  BY <1>5 DEF Crash, ScheduleBegin
<1>6. ASSUME NEW p \in Proc, CallRejected(p) PROVE RecoversUnfinished'
  BY <1>6 DEF CallRejected, programVars
<1> QED
  BY <1>1, <1>2, <1>3, <1>4, <1>5, <1>6 DEF Next

\* Given the lock, recovery acts on the journal as it is.
LEMMA RecoverBeginWorks ==
  ASSUME JournalOK, JournalInv, RecoveryCurrent, RecoversUnfinished,
         NEW p \in Proc, RecoverBegin(p)
  PROVE  Works(p)
<1>1. /\ mem[p] = disk /\ disk.state # "None" /\ ~is_terminal(disk.state)
      /\ WellFormed(disk) /\ disk \in Journal
  BY DEF RecoverBegin, RecoveryCurrent, RecoversUnfinished, JournalInv, JournalOK,
         AdmitsSchedule, WellFormed
<1>2. UNCHANGED <<disk, accepted>>
  BY DEF RecoverBegin
<1>3. CASE /\ disk.state = "AwaitCompactionTurnCompleted" /\ disk.capsule
           /\ Goto(p, "resume") /\ UNCHANGED mem
  <2>1. WorkerOK(p)'
    BY <1>1, <1>2, <1>3
       DEF JournalOK, Goto, WorkerOK, StateAt, CapsuleStored, ReadingSource,
           ReadingCompaction, Injectable, InjectionSent, Continuing, Continued
  <2> QED
    BY <1>2, <1>3, <2>1
       DEF Works, JournalInv, JournalStep, Arrives, Blames, Goto, JournalOK, WellFormed
<1>4. CASE /\ disk.state = "AwaitContinuationStarted" /\ Goto(p, "confirm") /\ UNCHANGED mem
  <2>1. disk.capsule
    BY <1>1, <1>4 DEF WellFormed, Injecting
  <2>2. WorkerOK(p)'
    BY <1>1, <1>2, <1>4, <2>1
       DEF JournalOK, Goto, WorkerOK, StateAt, CapsuleStored, ReadingSource,
           ReadingCompaction, Injectable, InjectionSent, Continuing, Continued
  <2> QED
    BY <1>2, <1>4, <2>2
       DEF Works, JournalInv, JournalStep, Arrives, Blames, Goto, JournalOK, WellFormed
<1>5. CASE /\ disk.state \in BeforeMutation /\ Goto(p, "finish")
           /\ mem' = [mem EXCEPT ![p] = cancel(@, "ProcessRestarted")]
  <2>1. Concludes(disk, cancel(disk, "ProcessRestarted"))
        /\ WellFormed(cancel(disk, "ProcessRestarted"))
    BY <1>1
       DEF Concludes, cancel, is_terminal, Terminal, transition_allowed, WellFormed,
           Journal, BeforeMutation, Injecting
  <2>2. WorkerOK(p)'
    BY <1>1, <1>2, <1>5, <2>1
       DEF JournalOK, Goto, WorkerOK, Working, ReadingSource, ReadingCompaction, Injectable,
           InjectionSent, Continuing, Continued
  <2>3. Blames(p)
    BY <1>1, <1>2, <1>5 DEF Blames, cancel, JournalOK, Journal
  <2> QED
    BY <1>1, <1>2, <1>5, <2>2, <2>3
       DEF Works, JournalInv, JournalStep, Arrives, Goto, JournalOK, WellFormed
<1>6. CASE /\ Goto(p, "finish")
           /\ mem' = [mem EXCEPT ![p] = fail(@, "RecoveryAmbiguous")]
  <2>1. Concludes(disk, fail(disk, "RecoveryAmbiguous"))
        /\ WellFormed(fail(disk, "RecoveryAmbiguous"))
    BY <1>1
       DEF Concludes, fail, is_terminal, Terminal, transition_allowed, WellFormed, Journal,
           BeforeMutation, Injecting
  <2>2. WorkerOK(p)'
    BY <1>1, <1>2, <1>6, <2>1
       DEF JournalOK, Goto, WorkerOK, Working, ReadingSource, ReadingCompaction, Injectable,
           InjectionSent, Continuing, Continued
  <2>3. Blames(p)
    BY <1>1, <1>2, <1>6, BlamesNot DEF fail, JournalOK, Journal
  <2> QED
    BY <1>1, <1>2, <1>6, <2>2, <2>3
       DEF Works, JournalInv, JournalStep, Arrives, Goto, JournalOK, WellFormed
<1> QED
  BY <1>1, <1>3, <1>4, <1>5, <1>6 DEF RecoverBegin, recovery_disposition

LEMMA RecoverWorks ==
  ASSUME JournalOK, JournalInv, LeaseExclusive, NEW p \in Proc,
         RecoverResume(p) \/ RecoverConfirm(p) \/ RecoverFinish(p)
  PROVE  Works(p) /\ Holding(p) /\ lease' \in {p, NoProc}
<1>1. CASE RecoverResume(p)
  <2>1. pc[p] = "resume" /\ UNCHANGED <<lease, accepted>>
    BY <1>1 DEF RecoverResume, UnchangedSchedule
  <2>2. Goes(p, "drainInject")
    BY <1>1
       DEF RecoverResume, Goes, StopCodes, Outcomes, ErrorCodes, CancellationErrors
  <2> QED
    BY <2>1, <2>2, GoesWithin, WorkingHolds DEF Injectable, Working, LeaseExclusive
<1>2. CASE RecoverConfirm(p)
  <2>1. pc[p] = "confirm" /\ pc[p] \in Working /\ UNCHANGED <<lease, accepted>>
    BY <1>2 DEF RecoverConfirm, UnchangedSchedule, Working, Continued
  <2>2. /\ mem[p] = disk /\ disk \in Journal /\ WellFormed(disk)
        /\ disk.state = "AwaitContinuationStarted"
    BY <2>1, WorkingHolds, WorkingState DEF JournalInv, JournalOK, StateAt, Continued
  <2> SUFFICES Works(p)
    BY <2>1, WorkingHolds DEF LeaseExclusive
  <2>3. CASE \E code \in StopCodes : Stop(p, code)
    BY <2>1, <2>3, StopWorks DEF StopCodes
  <2>4. CASE /\ mem' = [mem EXCEPT ![p].state = "Cooldown"]
             /\ Goto(p, "finish") /\ UNCHANGED disk
    <3> DEFINE last == [disk EXCEPT !.state = "Cooldown"]
    <3>1. pc'[p] = "finish" /\ mem'[p] = last
      BY <2>2, <2>4 DEF JournalOK, Goto
    <3>2. Concludes(disk, last) /\ WellFormed(last)
      BY <2>2
         DEF Concludes, is_terminal, Terminal, transition_allowed, WellFormed, Journal,
             BeforeMutation, Injecting
    <3>3. WorkerOK(p)'
      BY <2>4, <3>1, <3>2
         DEF WorkerOK, Working, ReadingSource, ReadingCompaction, Injectable, InjectionSent,
             Continuing, Continued
    <3>4. Blames(p)
      BY <2>2, <2>4, <3>1, BlamesNot DEF WellFormed, Terminal, Journal
    <3> QED
      BY <2>1, <2>4, <3>1, <3>3, <3>4
         DEF Works, JournalInv, JournalStep, Arrives, WellFormed
  <2> QED
    BY <1>2, <2>3, <2>4 DEF RecoverConfirm, StopCodes, Outcomes, ErrorCodes
<1>3. CASE RecoverFinish(p)
  <2>1. /\ pc[p] = "finish" /\ Holding(p) /\ pc'[p] \in {"serving", "down"} /\ ~Holding(p)'
        /\ disk' \in {disk, mem[p]} /\ lease' = NoProc /\ UNCHANGED accepted
    BY <1>3 DEF RecoverFinish, Holding, Goto, JournalOK, Save
  <2>2. Concludes(disk, mem[p]) /\ WellFormed(mem[p]) /\ WellFormed(disk)
    BY <2>1 DEF JournalInv, WorkerOK
  <2>3. JournalStep
    BY <2>1, <2>2 DEF Concludes, JournalStep, Progress
  <2>4. WellFormed(disk)' /\ (disk.tid <= accepted)'
    BY <2>1, <2>2 DEF JournalInv, Concludes, WellFormed
  <2> QED
    BY <2>1, <2>3, <2>4 DEF Works, Arrives, Blames
<1> QED
  BY <1>1, <1>2, <1>3

LEMMA RejectWorks ==
  ASSUME JournalOK, JournalInv, NEW p \in Proc, NEW code, Reject(p, code),
         WellFormed(disk)', (disk.tid <= accepted)', JournalStep, Blames(p)
  PROVE  Works(p)
<1>1. pc'[p] = "serving"
  BY DEF Reject, Goto, JournalOK
<1> QED
  BY <1>1 DEF Works, Holding, Arrives

LEMMA ScheduleWorks ==
  ASSUME TypeOK, JournalInv, LeaseExclusive, NEW p \in Proc,
         Prepare(p) \/ Accept(p) \/ AcceptAwait(p)
  PROVE  Works(p) /\ Holding(p) /\ lease' \in {p, NoProc}
<1>0. JournalOK /\ disk \in Journal /\ accepted \in Nat
  BY TypeParts DEF JournalOK, BookOK
<1>b. ASSUME disk' = disk \/ disk'.reason = "None", pc'[p] # "finish" PROVE Blames(p)
  BY <1>b, BlamesNot
<1>c. \A code : Reject(p, code) => pc'[p] # "finish"
  BY <1>0 DEF Reject, Goto, JournalOK
<1>1. CASE Prepare(p)
  <2>1. Holding(p) /\ lease = p /\ AdmitsSchedule(disk) /\ UNCHANGED <<disk, accepted>>
    BY <1>1 DEF Prepare, Holding, LeaseExclusive, JournalInv, WorkerOK, UnchangedSchedule
  <2>2. CASE \E code : Reject(p, code)
    <3>1. Works(p)
      BY <1>0, <1>b, <1>c, <2>1, <2>2, RejectWorks DEF JournalInv, WellFormed, JournalStep
    <3> QED
      BY <2>1, <2>2, <3>1 DEF Reject
  <2>3. CASE Goto(p, "accept") /\ UNCHANGED lease
    <3>1. WorkerOK(p)' /\ pc'[p] = "accept"
      BY <1>0, <2>1, <2>3
         DEF Goto, JournalOK, WorkerOK, Working, ReadingSource, ReadingCompaction,
             Injectable, InjectionSent, Continuing, Continued
    <3> QED
      BY <1>b, <2>1, <2>3, <3>1 DEF Works, JournalInv, WellFormed, JournalStep, Arrives
  <2> QED
    BY <1>1, <2>2, <2>3 DEF Prepare, UnchangedSchedule
<1>2. CASE Accept(p)
  <2> DEFINE journal == NewJournal(accepted + 1, mem[p].source)
  <2>1. Holding(p) /\ lease = p /\ AdmitsSchedule(disk) /\ accepted' = accepted + 1
    BY <1>2 DEF Accept, Holding, LeaseExclusive, JournalInv, WorkerOK
  <2>2. PICK outcome \in SaveOutcomes :
          /\ Save(journal, outcome)
          /\ \/ /\ outcome = "ok" /\ mem' = [mem EXCEPT ![p] = journal]
                /\ Goto(p, "acceptAwait") /\ UNCHANGED lease
             \/ Reject(p, "Io")
    BY <1>2 DEF Accept
  <2>3. journal.tid = accepted + 1 /\ journal.state = "Attaching" /\ ~journal.capsule
        /\ journal.reason = "None"
        /\ WellFormed(journal)
    BY <1>0
       DEF NewJournal, NoJournal, WellFormed, BeforeMutation, Injecting, Terminal
  <2> HIDE DEF journal
  <2>4. disk' \in {disk, journal}
    BY <2>2 DEF Save
  <2>5. WellFormed(disk)' /\ (disk.tid <= accepted)' /\ JournalStep
    BY <1>0, <2>1, <2>3, <2>4
       DEF JournalInv, JournalOK, Journal, JournalStep, Renewal, WellFormed
  <2>6. CASE Reject(p, "Io")
    <3>1. Works(p)
      BY <1>0, <1>b, <1>c, <2>3, <2>4, <2>5, <2>6, RejectWorks
    <3> QED
      BY <2>1, <2>6, <3>1 DEF Reject
  <2>7. CASE /\ outcome = "ok" /\ mem' = [mem EXCEPT ![p] = journal]
             /\ Goto(p, "acceptAwait") /\ UNCHANGED lease
    <3>1. pc'[p] = "acceptAwait" /\ mem'[p] = journal /\ disk' = journal
      BY <1>0, <2>2, <2>7 DEF Goto, JournalOK, Save
    <3>2. WorkerOK(p)'
      BY <2>3, <3>1, StepsApart
         DEF WorkerOK, StateAt, ReadingSource, ReadingCompaction, Injectable, InjectionSent,
             Continuing, Continued
    <3> QED
      BY <1>b, <2>1, <2>3, <2>5, <2>7, <3>1, <3>2 DEF Works, Arrives
  <2> QED
    BY <2>2, <2>6, <2>7
<1>3. CASE AcceptAwait(p)
  <2> DEFINE journal == [disk EXCEPT !.state = "AwaitSourceTurnCompleted"]
  <2>1. Holding(p) /\ lease = p /\ accepted' = accepted /\ pc[p] \in Working
    BY <1>3, WorkingHolds DEF AcceptAwait, LeaseExclusive, Working
  <2>2. /\ mem[p] = disk /\ disk.state = "Attaching" /\ ~disk.capsule /\ WellFormed(disk)
    BY <1>0, <1>3, <2>1, WorkingState, StepsApart
       DEF AcceptAwait, JournalInv, StateAt
  <2>3. PICK outcome \in SaveOutcomes :
          /\ Save(journal, outcome)
          /\ \/ /\ outcome = "ok" /\ mem' = [mem EXCEPT ![p] = journal]
                /\ Goto(p, "awaitSource") /\ UNCHANGED lease
             \/ Reject(p, "Io")
    BY <1>3, <2>2 DEF AcceptAwait
  <2>4. /\ journal.tid = disk.tid /\ journal.source = disk.source /\ ~journal.capsule
        /\ journal.state = "AwaitSourceTurnCompleted" /\ WellFormed(journal)
        /\ journal.compact = disk.compact /\ journal.cont = disk.cont
        /\ journal.reason = "None"
    BY <1>0, <2>2 DEF Journal, WellFormed, BeforeMutation, Injecting, Terminal
  <2> HIDE DEF journal
  <2>5. disk' \in {disk, journal}
    BY <2>3 DEF Save
  <2>6. WellFormed(disk)' /\ (disk.tid <= accepted)' /\ JournalStep
    BY <2>1, <2>2, <2>4, <2>5
       DEF JournalInv, JournalStep, Progress, WellFormed, is_terminal, Terminal,
           transition_allowed
  <2>7. CASE Reject(p, "Io")
    <3>1. Works(p)
      BY <1>0, <1>b, <1>c, <2>4, <2>5, <2>6, <2>7, RejectWorks
    <3> QED
      BY <2>1, <2>7, <3>1 DEF Reject
  <2>8. CASE /\ outcome = "ok" /\ mem' = [mem EXCEPT ![p] = journal]
             /\ Goto(p, "awaitSource") /\ UNCHANGED lease
    <3>1. pc'[p] = "awaitSource" /\ mem'[p] = journal /\ disk' = journal
      BY <1>0, <2>3, <2>8 DEF Goto, JournalOK, Save
    <3>2. WorkerOK(p)'
      BY <2>4, <3>1, StepsApart
         DEF WorkerOK, StateAt, ReadingSource, ReadingCompaction, Injectable, InjectionSent,
             Continuing, Continued
    <3> QED
      BY <1>b, <2>1, <2>4, <2>6, <2>8, <3>1, <3>2 DEF Works, Arrives
  <2> QED
    BY <2>3, <2>7, <2>8
<1> QED
  BY <1>1, <1>2, <1>3

-----------------------------------------------------------------------------
(* The invariant of the journal *)

\* How a process gets to a step: by its own step, which Arrives describes, or
\* it has been there before and its journal has not changed.
Arrived(p) ==
  \/ Arrives(p) /\ Blames(p)
  \/ pc'[p] = pc[p] /\ mem'[p] = mem[p] /\ (Holding(p) => disk' = disk)

\* Who wrote that a restart is to blame.
Blamed ==
  disk'.reason = "ProcessRestarted" =>
    disk' = disk \/ \E p \in Proc : pc[p] = "finish" /\ disk' = mem[p]

\* A step of a process that neither owns the lock nor takes it.
LEMMA AsideInductive ==
  ASSUME JournalInv, NEW p \in Proc, ~Holding(p)', UNCHANGED <<disk, accepted>>,
         \A q \in Proc \ {p} : pc'[q] = pc[q] /\ mem'[q] = mem[q]
  PROVE  JournalInv' /\ JournalStep /\ Blamed /\ \A q \in Proc : Arrived(q)
<1>1. \A q \in Proc \ {p} : Holding(q)' => WorkerOK(q)'
  BY DEF JournalInv, WorkerOK, Holding, Concludes
<1>2. WellFormed(disk)' /\ (disk.tid <= accepted)'
  BY DEF JournalInv, WellFormed
<1>3. Arrives(p) /\ Blames(p)
  BY DEF Holding, Arrives, Blames
<1> QED
  BY <1>1, <1>2, <1>3 DEF JournalInv, JournalStep, Blamed, Arrived

\* A step of the process that owns the lock.
LEMMA OwnerInductive ==
  ASSUME JournalInv, LeaseExclusive, LeaseExclusive', NEW p \in Proc,
         Holding(p), lease' \in {p, NoProc}, Works(p), Private(p)
  PROVE  JournalInv' /\ JournalStep /\ Blamed /\ \A q \in Proc : Arrived(q)
<1>1. JournalInv'
  BY WorksInductive
<1>2. \A q \in Proc \ {p} : Arrived(q)
  BY NoProcAssumption DEF LeaseExclusive, Private, Arrived
<1>3. Arrived(p)
  BY DEF Works, Arrived
<1>4. \A q \in Proc : Arrived(q)
  BY <1>2, <1>3 DEF Arrived, Arrives, Blames
<1>5. Blamed
  BY DEF Works, Blames, Blamed
<1> QED
  BY <1>1, <1>4, <1>5 DEF Works

LEMMA ProceedJournal ==
  ASSUME TypeOK, LeaseExclusive, LeaseExclusive', JournalInv, RecoversUnfinished,
         RecoveryCurrent, NEW p \in Proc, Proceed(p)
  PROVE  JournalInv' /\ JournalStep /\ Blamed /\ \A q \in Proc : Arrived(q)
<1>0. JournalOK /\ StreamOK /\ ChannelOK /\ Private(p)
  BY TypeParts, ProceedIsPrivate
<1>1. CASE RecoverSkip(p)
  <2>1. ~Holding(p)' /\ UNCHANGED <<disk, accepted>>
    BY <1>0, <1>1 DEF RecoverSkip, Goto, Holding, JournalOK, UnchangedSchedule
  <2> QED
    BY <1>0, <2>1, AsideInductive DEF Private
<1>2. CASE RecoverBegin(p)
  <2>1. Works(p) /\ lease = NoProc
    BY <1>0, <1>2, RecoverBeginWorks DEF RecoverBegin
  <2>2. \A q \in Proc : ~Holding(q)
    BY <2>1, NoProcAssumption DEF LeaseExclusive
  <2>3. \A q \in Proc \ {p} : Arrived(q) /\ ~Holding(q)'
    BY <1>0, <2>2 DEF Private, Arrived, Holding
  <2>4. Arrived(p)
    BY <2>1 DEF Works, Arrived
  <2>5. \A q \in Proc : Arrived(q)
    BY <2>3, <2>4 DEF Arrived, Arrives, Blames
  <2>6. \A q \in Proc \ {p} : Holding(q)' => WorkerOK(q)'
    BY <2>3
  <2>7. Blamed
    BY <2>1 DEF Works, Blames, Blamed
  <2> QED
    BY <2>1, <2>5, <2>6, <2>7 DEF Works, JournalInv
<1>3. ASSUME Works(p) /\ Holding(p) /\ lease' \in {p, NoProc}
      PROVE  JournalInv' /\ JournalStep /\ Blamed /\ \A q \in Proc : Arrived(q)
  BY <1>0, <1>3, OwnerInductive
<1>4. CASE CompactNext(p) \/ InjectNext(p)
  <2>1. Works(p) /\ Holding(p) /\ lease' = lease
    BY <1>0, <1>4, CompactWorks, InjectWorks
  <2> QED
    BY <1>3, <2>1 DEF LeaseExclusive
<1> QED
  BY <1>0, <1>1, <1>2, <1>3, <1>4, RecoverWorks, ScheduleWorks, LastStepsWork
     DEF Proceed, RecoveryNext

LEMMA JournalNext ==
  ASSUME TypeOK, LeaseExclusive, LeaseExclusive', JournalInv, RecoversUnfinished,
         RecoveryCurrent, [Next]_vars
  PROVE  JournalInv' /\ JournalStep /\ Blamed /\ \A q \in Proc : Arrived(q)
<1>0. JournalOK
  BY TypeParts
<1>1. CASE UNCHANGED programVars
  <2>1. UNCHANGED <<disk, pc, mem, accepted>>
    BY <1>1 DEF programVars
  <2>2. \A q \in Proc : Holding(q)' => WorkerOK(q)'
    BY <2>1 DEF JournalInv, WorkerOK, Holding, Concludes
  <2> QED
    BY <2>1, <2>2 DEF JournalInv, WellFormed, JournalStep, Blamed, Arrived
<1>2. ASSUME NEW p \in Proc, Boot(p) \/ Crash(p)
      PROVE  JournalInv' /\ JournalStep /\ Blamed /\ \A q \in Proc : Arrived(q)
  <2>1. /\ ~Holding(p)' /\ UNCHANGED <<disk, accepted>>
        /\ \A q \in Proc \ {p} : pc'[q] = pc[q] /\ mem'[q] = mem[q]
    BY <1>0, <1>2 DEF Boot, Crash, Goto, Holding, JournalOK
  <2> QED
    BY <2>1, AsideInductive
<1>3. ASSUME NEW p \in Proc, ScheduleBegin(p)
      PROVE  JournalInv' /\ JournalStep /\ Blamed /\ \A q \in Proc : Arrived(q)
  <2>1. /\ pc'[p] = "prepare" /\ UNCHANGED <<disk, accepted>> /\ AdmitsSchedule(disk)
        /\ \A q \in Proc \ {p} : pc'[q] = pc[q] /\ mem'[q] = mem[q]
        /\ lease = NoProc
    BY <1>0, <1>3 DEF ScheduleBegin, Goto, JournalOK
  <2>2. \A q \in Proc \ {p} : ~Holding(q)'
    BY <2>1, NoProcAssumption DEF LeaseExclusive, Holding
  <2>3. WorkerOK(p)'
    BY <2>1
       DEF WorkerOK, Working, ReadingSource, ReadingCompaction, Injectable, InjectionSent,
           Continuing, Continued
  <2>4. \A q \in Proc : Arrived(q)
    BY <2>1 DEF Arrived, Arrives, Blames
  <2> QED
    BY <2>1, <2>2, <2>3, <2>4 DEF JournalInv, JournalStep, Blamed, WellFormed
<1> QED
  BY <1>1, <1>2, <1>3, ProceedJournal DEF Next, ThreadNext, CallRejected, vars, programVars

\* The inductive invariant.
JournalIInv == TypeOK /\ LeaseInv /\ RecoversUnfinished /\ JournalInv

LEMMA JournalIInvInit == Init => JournalIInv
<1> SUFFICES ASSUME Init PROVE JournalIInv
  OBVIOUS
<1>1. WellFormed(NoJournal)
  BY DEF WellFormed, NoJournal, BeforeMutation, Injecting, Terminal
<1>2. JournalInv
  BY <1>1 DEF Init, JournalInv, Holding, NoJournal
<1> QED
  BY <1>2, TypeInit, LeaseInvInit DEF Init, JournalIInv, RecoversUnfinished

LEMMA JournalIInvNext ==
  ASSUME JournalIInv, RecoveryCurrent, [Next]_vars
  PROVE  JournalIInv' /\ JournalStep /\ Blamed /\ \A p \in Proc : Arrived(p)
<1>1. TypeOK' /\ LeaseInv'
  BY TypeNext, LeaseInvNext DEF JournalIInv
<1>2. RecoversUnfinished'
  BY TypeParts, RecoversInductive DEF JournalIInv
<1> QED
  BY <1>1, <1>2, JournalNext DEF JournalIInv, LeaseInv

\* Whoever works on the thread has the journal of the file in memory, in a state
\* that fits its step, and a verdict it has not saved yet follows from that file
\* (runner.rs:19-195, recovery.rs:24-65).
THEOREM JournalCorrect == Spec /\ []RecoveryCurrent => []JournalIInv
<1> QED
  BY JournalIInvInit, JournalIInvNext, PTL DEF Spec

-----------------------------------------------------------------------------
(* One process *)

OneProcess == \A p, q \in Proc : p = q

JustRead == \A p \in Proc : pc[p] = "recover" => mem[p] = disk

LEMMA JustReadInductive ==
  ASSUME OneProcess, TypeOK, JustRead, [Next]_vars
  PROVE  JustRead'
<1>0. JournalOK
  BY TypeParts
<1>1. CASE UNCHANGED programVars
  BY <1>1 DEF programVars, JustRead
<1>2. ASSUME NEW p \in Proc, Proceed(p) PROVE JustRead'
  <2>1. pc'[p] # "recover"
    BY <1>0, <1>2, ProceedIsPrivate DEF Private
  <2> QED
    BY <2>1 DEF OneProcess, JustRead
<1>3. ASSUME NEW p \in Proc, Boot(p) \/ Crash(p) \/ ScheduleBegin(p) PROVE JustRead'
  <2>1. pc'[p] = "recover" => mem'[p] = disk'
    BY <1>0, <1>3 DEF JournalOK, Boot, Crash, ScheduleBegin, Goto
  <2> QED
    BY <2>1 DEF OneProcess, JustRead
<1> QED
  BY <1>1, <1>2, <1>3 DEF Next, ThreadNext, CallRejected, vars, programVars

\* A process that is alone recovers the journal it has read: nobody else can
\* change the file before it gets the lock (recovery.rs:24-33).
THEOREM RecoveryIsCurrent == OneProcess /\ Spec => []RecoveryCurrent
<1>1. Init => JustRead
  BY DEF Init, JustRead
<1>2. OneProcess /\ TypeOK /\ JustRead /\ [Next]_vars => JustRead'
  BY JustReadInductive
<1>3. JustRead => RecoveryCurrent
  BY DEF JustRead, RecoveryCurrent
<1>4. Spec => []TypeOK
  BY TypeCorrect
<1> QED
  <2>1. ASSUME OneProcess PROVE TypeOK /\ JustRead /\ [Next]_vars => JustRead'
    BY <1>2, <2>1
  <2>2. ASSUME OneProcess PROVE Spec => []RecoveryCurrent
    BY <1>1, <1>3, <1>4, <2>1, <2>2, PTL DEF Spec
  <2> QED
    BY <2>2

-----------------------------------------------------------------------------
(* The journal over time *)

LEMMA JournalStepIsHistory ==
  ASSUME "unsynced" \notin Faults, JournalIInv, JournalIInv', JournalStep, disk' # disk
  PROVE  IF disk'.tid = disk.tid
         THEN /\ ~is_terminal(disk.state)
              /\ \/ transition_allowed(disk.state, disk'.state)
                 \/ disk'.state = disk.state /\ disk'.capsule /\ ~disk.capsule
              /\ disk.compact \in {0, disk'.compact} /\ disk.cont \in {0, disk'.cont}
              /\ disk.capsule => disk'.capsule
         ELSE Settled /\ disk'.tid > disk.tid /\ disk'.state = "Attaching"
<1>0. /\ disk.tid \in Nat /\ accepted \in Nat /\ disk.tid <= accepted /\ disk'.tid \in Nat
  BY DEF JournalIInv, JournalInv, TypeOK, Journal
<1>1. CASE Progress
  BY <1>1 DEF Progress
<1>2. CASE Renewal
  BY <1>0, <1>2 DEF Renewal, AdmitsSchedule, Settled
<1> QED
  BY <1>1, <1>2 DEF JournalStep

\* The journal of one transition follows the table of journal.rs:250-266, binds
\* each turn and the capsule once and is final when terminal; only a terminal
\* journal gives way to that of a new transition.  A rename that cannot be
\* synced is excluded: after it a terminal journal may be replaced by
\* FailedSafe, because the save reported an error.
THEOREM JournalFollowsTable ==
  "unsynced" \notin Faults /\ Spec /\ []RecoveryCurrent => JournalHistory
<1> SUFFICES ASSUME "unsynced" \notin Faults
             PROVE  Spec /\ []RecoveryCurrent => JournalHistory
  OBVIOUS
<1>1. ASSUME JournalIInv, JournalIInv', RecoveryCurrent, [Next]_vars
      PROVE  [ IF disk'.tid = disk.tid
               THEN /\ ~is_terminal(disk.state)
                    /\ \/ transition_allowed(disk.state, disk'.state)
                       \/ disk'.state = disk.state /\ disk'.capsule /\ ~disk.capsule
                    /\ disk.compact \in {0, disk'.compact} /\ disk.cont \in {0, disk'.cont}
                    /\ disk.capsule => disk'.capsule
               ELSE Settled /\ disk'.tid > disk.tid /\ disk'.state = "Attaching"
             ]_disk
  <2>1. CASE disk' = disk
    BY <2>1
  <2>2. CASE disk' # disk
    BY <1>1, <2>2, JournalIInvNext, JournalStepIsHistory
  <2> QED
    BY <2>1, <2>2
<1> QED
  BY <1>1, JournalCorrect, PTL DEF Spec, JournalHistory

-----------------------------------------------------------------------------
(* What the steps do to the thread and to the requests *)

\* What the requests of a transition have left in the thread.
Taken(method, tid) ==
  CASE method = "compact" -> CompactTurns(tid)
    [] method = "inject"  -> Injections(tid)
    [] method = "start"   -> Continuations(tid)

LEMMA AskedTaken ==
  ASSUME NEW method \in Methods, NEW tid
  PROVE  Asked(method, tid) <=> InFlight(method, tid) \/ Taken(method, tid) # {}
BY DEF Asked, Taken, Methods

SameTaken == \A method \in Methods : \A tid : Taken(method, tid)' = Taken(method, tid)

\* Requests may get lost, nothing else.
Kept == SameTaken /\ \A r \in BagToSet(inbox)' : r \in BagToSet(inbox) /\ inbox'[r] = inbox[r]

\* The server takes a request, and executes it or not.
Served(r) ==
  /\ r \in BagToSet(inbox)
  /\ inbox' = inbox (-) SetToBag({r})
  /\ \A method \in Methods : \A tid :
       method # r.method \/ tid # r.tid => Taken(method, tid)' = Taken(method, tid)
  /\ \/ Taken(r.method, r.tid)' = Taken(r.method, r.tid)
     \/ \E x : Taken(r.method, r.tid)' = Taken(r.method, r.tid) \union {x}

\* A process sends the request of its step.
SentFrom(method) == CASE method = "compact" -> "sendCompact"
                      [] method = "inject"  -> "sendInject"
                      [] method = "start"   -> "sendStart"

Sent(p, method) ==
  /\ pc[p] = SentFrom(method)
  /\ pc'[p] \notin {"sendCompact", "sendInject", "drainUser", "sendStart", "finish"}
  /\ inbox' = inbox (+) SetToBag({[proc |-> p, method |-> method, tid |-> mem[p].tid]})
  /\ SameTaken /\ UNCHANGED <<turns, disk, lease>>

LEMMA SameTurns ==
  ASSUME Len(turns') = Len(turns), injections' = injections,
         \A t \in 1..Len(turns) :
           turns'[t].origin = turns[t].origin /\ turns'[t].tid = turns[t].tid
  PROVE  SameTaken
<1>1. \A tid : /\ CompactTurns(tid)' = CompactTurns(tid)
                /\ Continuations(tid)' = Continuations(tid)
               /\ Injections(tid)' = Injections(tid)
  BY DEF CompactTurns, Continuations, Injections
<1> QED
  BY <1>1 DEF SameTaken, Taken

\* One turn changes, and stays what it was started as.
LEMMA ChangedTurn ==
  ASSUME HistoryOK, NEW n \in 1..Len(turns), NEW turn,
         turns' = [turns EXCEPT ![n] = turn],
         turn.origin = turns[n].origin, turn.tid = turns[n].tid
  PROVE  /\ Len(turns') = Len(turns)
         /\ turns'[n] = turn
         /\ \A t \in 1..Len(turns) : t # n => turns'[t] = turns[t]
         /\ \A t \in 1..Len(turns) :
              turns'[t].origin = turns[t].origin /\ turns'[t].tid = turns[t].tid
<1>1. turns \in Seq(Turn)
  BY DEF HistoryOK
<1>2. /\ Len(turns') = Len(turns) /\ turns'[n] = turn
      /\ \A t \in 1..Len(turns) : t # n => turns'[t] = turns[t]
  BY <1>1
<1>3. ASSUME NEW t \in 1..Len(turns)
      PROVE  turns'[t].origin = turns[t].origin /\ turns'[t].tid = turns[t].tid
  <2>1. CASE t = n
    BY <1>2, <2>1
  <2>2. CASE t # n
    BY <1>2, <2>2
  <2> QED
    BY <2>1, <2>2
<1> QED
  BY <1>2, <1>3

LEMMA SameThread ==
  ASSUME UNCHANGED <<turns, injections>>
  PROVE  SameTaken
BY SameTurns

LEMMA NewTurnTaken ==
  ASSUME HistoryOK, NEW origin \in Origins, NEW id, injections' = injections,
         turns' = Append(turns, NewTurn(origin, id))
  PROVE  /\ \A method \in Methods : \A tid :
              \/ Taken(method, tid)' = Taken(method, tid)
              \/ /\ \/ method = "compact" /\ origin = "compact"
                    \/ method = "start" /\ origin = "continuation"
                 /\ tid = id
                 /\ Taken(method, tid)' = Taken(method, tid) \union {Len(turns) + 1}
<1>1. /\ Len(turns') = Len(turns) + 1 /\ Len(turns) \in Nat
      /\ \A t \in 1..Len(turns) : turns'[t] = turns[t]
      /\ turns'[Len(turns) + 1].origin = origin /\ turns'[Len(turns) + 1].tid = id
  BY LenProperties, AppendProperties DEF HistoryOK, NewTurn
<1>2. 1..Len(turns') = 1..Len(turns) \union {Len(turns) + 1}
  BY <1>1
<1>3. ASSUME NEW tid
      PROVE  /\ IF origin = "compact" /\ tid = id
                THEN CompactTurns(tid)' = CompactTurns(tid) \union {Len(turns) + 1}
                ELSE CompactTurns(tid)' = CompactTurns(tid)
             /\ IF origin = "continuation" /\ tid = id
                THEN Continuations(tid)' = Continuations(tid) \union {Len(turns) + 1}
                ELSE Continuations(tid)' = Continuations(tid)
             /\ Injections(tid)' = Injections(tid)
  BY <1>1, <1>2 DEF CompactTurns, Continuations, Injections
<1> QED
  BY <1>3 DEF Taken, Methods

LEMMA StartTurnTaken ==
  ASSUME HistoryOK, NEW origin \in Origins, NEW id, StartTurn(origin, id),
         UNCHANGED injections
  PROVE  \A method \in Methods : \A tid :
           \/ Taken(method, tid)' = Taken(method, tid)
           \/ /\ \/ method = "compact" /\ origin = "compact"
                 \/ method = "start" /\ origin = "continuation"
              /\ tid = id
              /\ Taken(method, tid)' = Taken(method, tid) \union {Len(turns) + 1}
BY NewTurnTaken DEF StartTurn

LEMMA ServeTaken ==
  ASSUME HistoryOK, ChannelOK, ServeRequest
  PROVE  \E r \in BagToSet(inbox) : Served(r)
<1>1. PICK r \in BagToSet(inbox) :
        /\ inbox' = inbox (-) SetToBag({r})
        /\ ServeCompact(r) \/ ServeStart(r) \/ ServeInject(r) \/ Refuse(r)
  BY DEF ServeRequest
<1>2. r \in Request
  BY DEF ChannelOK
<1>3. ASSUME \A method \in Methods : \A tid :
               \/ Taken(method, tid)' = Taken(method, tid)
               \/ /\ method = r.method /\ tid = r.tid
                  /\ \E x : Taken(method, tid)' = Taken(method, tid) \union {x}
      PROVE  Served(r)
  BY <1>1, <1>2, <1>3 DEF Served, Request
<1>4. CASE ServeCompact(r)
  <2>1. "compact" \in Origins
    BY DEF Origins, CompactionOrigins
  <2>2. \A method \in Methods : \A tid :
          \/ Taken(method, tid)' = Taken(method, tid)
          \/ /\ method = "compact" /\ tid = r.tid
             /\ Taken(method, tid)' = Taken(method, tid) \union {Len(turns) + 1}
    BY <1>4, <2>1, StartTurnTaken DEF ServeCompact
  <2> QED
    BY <1>3, <1>4, <2>2 DEF ServeCompact
<1>5. CASE ServeStart(r)
  <2>1. "continuation" \in Origins
    BY DEF Origins
  <2>2. \A method \in Methods : \A tid :
          \/ Taken(method, tid)' = Taken(method, tid)
          \/ /\ method = "start" /\ tid = r.tid
             /\ Taken(method, tid)' = Taken(method, tid) \union {Len(turns) + 1}
    BY <1>5, <2>1, StartTurnTaken DEF ServeStart
  <2> QED
    BY <1>3, <1>5, <2>2 DEF ServeStart
<1>6. CASE ServeInject(r)
  <2>1. /\ Len(injections') = Len(injections) + 1 /\ Len(injections) \in Nat
        /\ \A i \in 1..Len(injections) : injections'[i] = injections[i]
        /\ injections'[Len(injections) + 1].tid = r.tid
        /\ UNCHANGED turns /\ r.method = "inject"
    BY <1>6, LenProperties, AppendProperties DEF ServeInject, HistoryOK
  <2>2. 1..Len(injections') = 1..Len(injections) \union {Len(injections) + 1}
    BY <2>1
  <2>3. ASSUME NEW tid
        PROVE  /\ CompactTurns(tid)' = CompactTurns(tid)
               /\ Continuations(tid)' = Continuations(tid)
               /\ IF tid = r.tid
                  THEN Injections(tid)' = Injections(tid) \union {Len(injections) + 1}
                  ELSE Injections(tid)' = Injections(tid)
    BY <2>1, <2>2 DEF CompactTurns, Continuations, Injections
  <2>4. \A method \in Methods : \A tid :
          \/ Taken(method, tid)' = Taken(method, tid)
          \/ /\ method = "inject" /\ tid = r.tid
             /\ Taken(method, tid)' = Taken(method, tid) \union {Len(injections) + 1}
    BY <2>3 DEF Taken, Methods
  <2> QED
    BY <1>3, <2>1, <2>4
<1>7. CASE Refuse(r)
  <2>1. SameTaken
    BY <1>7, SameThread DEF Refuse
  <2> QED
    BY <1>3, <2>1 DEF SameTaken
<1> QED
  BY <1>1, <1>4, <1>5, <1>6, <1>7

LEMMA ThreadRequests ==
  ASSUME HistoryOK, ChannelOK, ThreadNext
  PROVE  Kept \/ \E r \in BagToSet(inbox) : Served(r)
<1>1. CASE ServeRequest
  BY <1>1, ServeTaken
<1>2. CASE UserTurn
  <2>1. PICK origin \in {"user", "native"} : StartTurn(origin, 0)
    BY <1>2 DEF UserTurn
  <2>2. SameTaken
    BY <1>2, <2>1, StartTurnTaken DEF UserTurn, SameTaken, Origins, CompactionOrigins
  <2> QED
    BY <1>2, <2>2 DEF Kept, UserTurn
<1>3. CASE EndTurn
  <2> DEFINE n == Len(turns)
  <2>1. PICK ok, tail :
          turns' = [turns EXCEPT ![n].status = IF ok THEN "completed" ELSE "failed",
                                 ![n].tail = tail]
    BY <1>3 DEF EndTurn
  <2>2. /\ Len(turns') = Len(turns)
        /\ \A t \in 1..Len(turns) :
             turns'[t].origin = turns[t].origin /\ turns'[t].tid = turns[t].tid
    <3>1. n \in 1..Len(turns) /\ turns[n] \in Turn /\ turns \in Seq(Turn)
      BY <1>3, LastTurn DEF EndTurn, HistoryOK
    <3> HIDE DEF n
    <3> DEFINE turn == [turns[n] EXCEPT !.status = IF ok THEN "completed" ELSE "failed",
                                        !.tail = tail]
    <3>2. turns' = [turns EXCEPT ![n] = turn]
      BY <2>1, <3>1
    <3>3. turn.origin = turns[n].origin /\ turn.tid = turns[n].tid
      BY <3>1 DEF Turn
    <3> HIDE DEF turn
    <3> QED
      BY <3>1, <3>2, <3>3, ChangedTurn
  <2>3. SameTaken
    BY <1>3, <2>2, SameTurns DEF EndTurn
  <2> QED
    BY <1>3, <2>3 DEF Kept, EndTurn
<1>4. CASE CompactionItemStarts \/ CompactionItemEnds
  <2> DEFINE n == Len(turns)
  <2>1. PICK items : turns' = [turns EXCEPT ![n] = [turns[n] EXCEPT !.items = items]]
    <3>1. CASE CompactionItemStarts
      BY <3>1 DEF CompactionItemStarts
    <3>2. CASE CompactionItemEnds
      <4>1. PICK i, state : turns' = [turns EXCEPT ![n].items[i] = state]
        BY <3>2 DEF CompactionItemEnds
      <4> QED
        BY <4>1
    <3> QED
      BY <1>4, <3>1, <3>2
  <2>2. /\ Len(turns') = Len(turns)
        /\ \A t \in 1..Len(turns) :
             turns'[t].origin = turns[t].origin /\ turns'[t].tid = turns[t].tid
    <3>1. n \in 1..Len(turns) /\ turns[n] \in Turn
      BY <1>4, LastTurn DEF CompactionItemStarts, CompactionItemEnds
    <3> HIDE DEF n
    <3> DEFINE turn == [turns[n] EXCEPT !.items = items]
    <3>2. turn.origin = turns[n].origin /\ turn.tid = turns[n].tid
      BY <3>1 DEF Turn
    <3>3. turns' = [turns EXCEPT ![n] = turn]
      BY <2>1
    <3> HIDE DEF turn
    <3> QED
      BY <3>1, <3>2, <3>3, ChangedTurn
  <2>3. SameTaken
    BY <1>4, <2>2, SameTurns DEF CompactionItemStarts, CompactionItemEnds
  <2> QED
    BY <1>4, <2>3 DEF Kept, CompactionItemStarts, CompactionItemEnds
<1>5. CASE \E p \in Proc : Disconnect(p) \/ AskClient(p) \/ Lag(p) \/ Repeat(p)
  <2>1. UNCHANGED <<turns, injections, inbox>>
    BY <1>5 DEF Disconnect, AskClient, Lag, Repeat
  <2> QED
    BY <2>1, SameThread DEF Kept
<1> QED
  BY <1>1, <1>2, <1>3, <1>4, <1>5 DEF ThreadNext

LEMMA RecordCallTaken ==
  ASSUME HistoryOK, NEW source, NEW receipt, NEW ok, RecordCall(source, receipt, ok),
         UNCHANGED injections
  PROVE  SameTaken
<1>1. CASE turns' = turns
  BY <1>1, SameThread
<1>2. CASE /\ unique_turn(turns, source)
           /\ turns' = [turns EXCEPT ![source].calls =
                           Append(@, [receipt |-> receipt, ok |-> ok])]
  <2>1. source \in 1..Len(turns) /\ turns[source] \in Turn
    BY <1>2, ElementOfSeq DEF unique_turn, HistoryOK
  <2> DEFINE calls == Append(turns[source].calls, [receipt |-> receipt, ok |-> ok])
             turn == [turns[source] EXCEPT !.calls = calls]
  <2>2. turns' = [turns EXCEPT ![source] = turn]
    BY <1>2
  <2> HIDE DEF calls
  <2>3. turn.origin = turns[source].origin /\ turn.tid = turns[source].tid
    BY <2>1 DEF Turn
  <2> HIDE DEF turn
  <2>4. /\ Len(turns') = Len(turns)
        /\ \A t \in 1..Len(turns) :
             turns'[t].origin = turns[t].origin /\ turns'[t].tid = turns[t].tid
    BY <2>1, <2>2, <2>3, ChangedTurn
  <2> QED
    BY <2>4, SameTurns
<1> QED
  BY <1>1, <1>2 DEF RecordCall

LEMMA SendOnceSends ==
  ASSUME JournalOK, NEW p \in Proc, NEW method \in Methods, NEW onError,
         NEW next \in {"waitCompact", "waitInject", "waitStart"},
         SendOnce(p, SentFrom(method), method, next, onError)
  PROVE  UNCHANGED <<turns, injections, inbox>> \/ Sent(p, method)
<1>1. CASE UnchangedThread
  BY <1>1 DEF UnchangedThread, threadVars
<1>2. CASE /\ Send(p, method, mem[p].tid) /\ Goto(p, next)
           /\ UNCHANGED <<turns, injections, disk>>
  <2>1. pc'[p] = next /\ pc[p] = SentFrom(method)
    BY <1>2 DEF JournalOK, Goto, SendOnce
  <2>2. SameTaken
    BY <1>2, SameThread
  <2> QED
    BY <1>2, <2>1, <2>2 DEF Sent, Send, SendOnce, UnchangedSchedule
<1> QED
  BY <1>1, <1>2 DEF SendOnce

LEMMA WorkRequests ==
  ASSUME JournalOK, NEW p \in Proc, CompactNext(p) \/ InjectNext(p)
  PROVE  UNCHANGED <<turns, injections, inbox>> \/ \E method \in Methods : Sent(p, method)
<1> USE DEF UnchangedThread, threadVars
<1>1. CASE \E allowed, step : RejectQueued(p, allowed, step)
  BY <1>1 DEF RejectQueued
<1>2. CASE \E step : RejectStarted(p, step)
  BY <1>2 DEF RejectStarted
<1>3. CASE \E code, step : ReadThread(p, code, step)
  BY <1>3 DEF ReadThread
<1>4. CASE \E from, state, next : Record(p, from, state, next)
  BY <1>4 DEF Record
<1>5. CASE AwaitSource(p) \/ WaitCompact(p) \/ AwaitCompaction(p) \/ SaveCapsule(p)
  BY <1>5 DEF AwaitSource, WaitCompact, AwaitCompaction, SaveCapsule
<1>6. CASE \/ WaitInject(p) \/ DrainUser(p) \/ WaitStart(p)
           \/ AwaitStarted(p) \/ ConfirmStarted(p)
  BY <1>6 DEF WaitInject, DrainUser, WaitStart, AwaitStarted, ConfirmStarted
<1>7. CASE SendCompact(p)
  <2>1. "compact" \in Methods /\ SentFrom("compact") = "sendCompact"
    BY DEF Methods, SentFrom
  <2> QED
    BY <1>7, <2>1, SendOnceSends DEF SendCompact
<1>8. CASE SendInject(p)
  <2>1. "inject" \in Methods /\ SentFrom("inject") = "sendInject"
    BY DEF Methods, SentFrom
  <2> QED
    BY <1>8, <2>1, SendOnceSends DEF SendInject
<1>9. CASE SendStart(p)
  <2>1. "start" \in Methods /\ SentFrom("start") = "sendStart"
    BY DEF Methods, SentFrom
  <2> QED
    BY <1>9, <2>1, SendOnceSends DEF SendStart
<1>10. CASE CompactNext(p)
  BY <1>1, <1>3, <1>4, <1>5, <1>7, <1>10
     DEF CompactNext, DrainSource, ReadSource, GuardSource, GuardDescendants, RedrainSource,
         SaveReady, SaveSent, DrainCompact, ReadCompact
<1>11. CASE InjectNext(p)
  BY <1>2, <1>3, <1>4, <1>6, <1>8, <1>9, <1>11
     DEF InjectNext, DrainInject, GuardInject, GuardDescendants, RedrainInject,
         SaveInjecting, SaveStarting, SaveCooldown
<1> QED
  BY <1>10, <1>11

LEMMA ProcessRequests ==
  ASSUME HistoryOK, JournalOK, ChannelOK, NEW p \in Proc,
         Proceed(p) \/ Boot(p) \/ Crash(p) \/ CallRejected(p) \/ ScheduleBegin(p)
  PROVE  Kept \/ \E method \in Methods : Sent(p, method)
<1> USE DEF UnchangedThread, threadVars
<1>1. CASE CompactNext(p) \/ InjectNext(p)
  BY <1>1, WorkRequests, SameThread DEF Kept
<1>2. CASE RecoveryNext(p)
  <2>1. UNCHANGED <<turns, injections, inbox>>
    BY <1>2
       DEF RecoveryNext, RecoverSkip, RecoverBegin, RecoverResume, RecoverConfirm,
           RecoverFinish
  <2> QED
    BY <2>1, SameThread DEF Kept
<1>3. CASE Prepare(p) \/ Accept(p) \/ AcceptAwait(p) \/ CallRejected(p)
  <2>1. /\ UNCHANGED <<injections, inbox>>
        /\ \/ UNCHANGED turns
           \/ \E source, receipt, ok : RecordCall(source, receipt, ok)
    BY <1>3 DEF Prepare, Accept, AcceptAwait, CallRejected, Reject
  <2> QED
    BY <2>1, SameThread, RecordCallTaken DEF Kept
<1>4. CASE WaitExpires(p) \/ TaskFinish(p) \/ Cleanup(p) \/ Boot(p) \/ ScheduleBegin(p)
  <2>1. UNCHANGED <<turns, injections, inbox>>
    BY <1>4 DEF WaitExpires, TaskFinish, Cleanup, Boot, ScheduleBegin
  <2> QED
    BY <2>1, SameThread DEF Kept
<1>5. CASE Crash(p)
  <2>1. UNCHANGED <<turns, injections>>
        /\ inbox' \in {inbox,
                      [request \in {r \in BagToSet(inbox) : r.proc # p} |-> inbox[request]]}
    BY <1>5 DEF Crash
  <2> QED
    BY <2>1, SameThread DEF Kept, BagToSet
<1> QED
  BY <1>1, <1>2, <1>3, <1>4, <1>5 DEF Proceed

LEMMA StepRequests ==
  ASSUME TypeOK, [Next]_vars
  PROVE  \/ Kept
         \/ (\E r \in BagToSet(inbox) : Served(r)) /\ UNCHANGED programVars
         \/ \E p \in Proc, method \in Methods : Sent(p, method)
<1>0. HistoryOK /\ JournalOK /\ ChannelOK
  BY TypeParts
<1>1. CASE UNCHANGED vars
  BY <1>1, SameThread DEF vars, Kept
<1>2. CASE ThreadNext
  <2>1. UNCHANGED programVars
    BY <1>2 DEF ThreadNext
  <2> QED
    BY <1>0, <1>2, <2>1, ThreadRequests
<1>3. ASSUME NEW p \in Proc,
             Proceed(p) \/ Boot(p) \/ Crash(p) \/ CallRejected(p) \/ ScheduleBegin(p)
      PROVE  Kept \/ \E method \in Methods : Sent(p, method)
  BY <1>0, <1>3, ProcessRequests
<1> QED
  BY <1>1, <1>2, <1>3 DEF Next

-----------------------------------------------------------------------------
(* Nothing is asked twice *)

\* At most one request per transition and method is on its way, and none whose
\* effect is already in the thread; effects come at most once, and only of
\* transitions the journal has reached.
Lone ==
  /\ \A r \in BagToSet(inbox) : inbox[r] = 1 /\ Taken(r.method, r.tid) = {}
  /\ \A r, s \in BagToSet(inbox) : r.method = s.method /\ r.tid = s.tid => r = s
  /\ \A method \in Methods : \A tid \in Nat :
       /\ \A x, y \in Taken(method, tid) : x = y
       /\ Asked(method, tid) => 0 < tid /\ tid <= disk.tid

\* A process about to send a request has not sent it before, nor has any
\* process before it.
Unsent ==
  \A p \in Proc :
    /\ pc[p] = "sendCompact" => ~Asked("compact", disk.tid)
    /\ pc[p] = "sendInject" => ~Asked("inject", disk.tid)
    /\ pc[p] \in {"drainUser", "sendStart"} => ~Asked("start", disk.tid)

\* The same of a process about to blame a restart.
Harmless ==
  /\ RestartCancelsHarmlessly
  /\ \A p \in Proc : pc[p] = "finish" /\ mem[p].reason = "ProcessRestarted" =>
                       ~Asked("compact", mem[p].tid)

RequestsInv == Lone /\ Unsent /\ Fenced /\ Harmless

LEMMA LessInbox ==
  ASSUME ChannelOK, NEW r \in Request, inbox' = inbox (-) SetToBag({r})
  PROVE  \A s \in BagToSet(inbox)' : /\ s \in BagToSet(inbox)
                                     /\ s # r => inbox'[s] = inbox[s]
                                     /\ s = r => inbox[r] > 1
<1> USE DEF IsABag, BagToSet, SetToBag
<1>1. DOMAIN inbox \subseteq Request /\ inbox \in [DOMAIN inbox -> {n \in Nat : n > 0}]
  BY DEF ChannelOK
<1> QED
  BY <1>1 DEF (-)

LEMMA MoreInbox ==
  ASSUME ChannelOK, NEW r \in Request, inbox' = inbox (+) SetToBag({r})
  PROVE  \A s \in BagToSet(inbox)' : /\ s = r \/ s \in BagToSet(inbox)
                                     /\ s # r => inbox'[s] = inbox[s]
                                     /\ s = r /\ r \notin BagToSet(inbox) => inbox'[r] = 1
<1> USE DEF IsABag, BagToSet, SetToBag
<1>1. DOMAIN inbox \subseteq Request /\ inbox \in [DOMAIN inbox -> {n \in Nat : n > 0}]
  BY DEF ChannelOK
<1> QED
  BY <1>1 DEF (+)

\* No step asks for anything but the one that sends a request.
LEMMA KeptAsks ==
  ASSUME Kept, NEW method \in Methods, NEW tid, Asked(method, tid)'
  PROVE  Asked(method, tid)
<1>1. InFlight(method, tid)' => InFlight(method, tid)
  BY DEF Kept, InFlight
<1>2. Taken(method, tid)' = Taken(method, tid)
  BY DEF Kept, SameTaken
<1>3. Asked(method, tid)' <=> InFlight(method, tid)' \/ Taken(method, tid)' # {}
  BY DEF Asked, Taken, Methods
<1> QED
  BY <1>1, <1>2, <1>3, AskedTaken

LEMMA ServedAsks ==
  ASSUME ChannelOK, NEW r \in BagToSet(inbox), Served(r),
         NEW method \in Methods, NEW tid, Asked(method, tid)'
  PROVE  Asked(method, tid)
<1>0. r \in Request
  BY DEF ChannelOK
<1>1. InFlight(method, tid)' => InFlight(method, tid)
  <2>1. \A s \in BagToSet(inbox)' : s \in BagToSet(inbox)
    BY <1>0, LessInbox DEF Served
  <2> QED
    BY <2>1 DEF InFlight
<1>2. Taken(method, tid)' = Taken(method, tid) \/ InFlight(method, tid)
  BY DEF Served, InFlight
<1>3. Asked(method, tid)' <=> InFlight(method, tid)' \/ Taken(method, tid)' # {}
  BY DEF Asked, Taken, Methods
<1> QED
  BY <1>1, <1>2, <1>3, AskedTaken

LEMMA SentAsks ==
  ASSUME ChannelOK, JournalOK, NEW p \in Proc, NEW sent \in Methods, Sent(p, sent),
         NEW method \in Methods, NEW tid, Asked(method, tid)'
  PROVE  Asked(method, tid) \/ (method = sent /\ tid = mem[p].tid)
<1> DEFINE r == [proc |-> p, method |-> sent, tid |-> mem[p].tid]
<1>0. r \in Request
  BY DEF JournalOK, Journal, Request
<1>1. InFlight(method, tid)' => InFlight(method, tid) \/ (method = sent /\ tid = mem[p].tid)
  <2>1. \A s \in BagToSet(inbox)' : s = r \/ s \in BagToSet(inbox)
    BY <1>0, MoreInbox DEF Sent
  <2> QED
    BY <2>1 DEF InFlight
<1>2. Taken(method, tid)' = Taken(method, tid)
  BY DEF Sent, SameTaken
<1>3. Asked(method, tid)' <=> InFlight(method, tid)' \/ Taken(method, tid)' # {}
  BY DEF Asked, Taken, Methods
<1> QED
  BY <1>1, <1>2, <1>3, AskedTaken

AsksNothing == \A method \in Methods : \A tid : Asked(method, tid)' => Asked(method, tid)

\* Who sends a request has the journal of the transition, in the state that
\* says so, and is the first to send it.
LEMMA SendsFirst ==
  ASSUME JournalIInv, RequestsInv, NEW p \in Proc, NEW method \in Methods, Sent(p, method)
  PROVE  /\ mem[p].tid = disk.tid /\ disk.tid \in Nat \ {0}
         /\ ~Asked(method, disk.tid) /\ lease = p
         /\ method = "compact" => disk.state = "CompactRequestSent"
         /\ method = "inject" => disk.state = "InjectingCheckpoint"
         /\ method = "start" => disk.state = "StartingContinuation"
<1>1. /\ method = "compact" => pc[p] = "sendCompact"
      /\ method = "inject" => pc[p] = "sendInject"
      /\ method = "start" => pc[p] = "sendStart"
      /\ method \in {"compact", "inject", "start"}
  BY DEF Sent, SentFrom, Methods
<1>2. pc[p] \in Working
  BY <1>1 DEF Working, InjectionSent, Continuing
<1>3. lease = p /\ mem[p] = disk /\ disk.state # "None" /\ StateAt(pc[p], disk.state)
  BY <1>2, TypeParts, WorkingHolds, WorkingState
     DEF JournalIInv, LeaseInv, LeaseExclusive, JournalInv, JournalOK
<1>4. disk.tid \in Nat \ {0}
  BY <1>3 DEF JournalIInv, JournalInv, WellFormed, TypeOK, Journal
<1> QED
  BY <1>1, <1>3, <1>4 DEF RequestsInv, Unsent, StateAt, InjectionSent, Continuing

LEMMA TidGrows ==
  ASSUME JournalIInv, JournalIInv', JournalStep
  PROVE  /\ disk.tid \in Nat /\ disk'.tid \in Nat /\ disk.tid <= disk'.tid
<1>1. disk.tid \in Nat /\ disk'.tid \in Nat /\ accepted \in Nat /\ disk.tid <= accepted
  BY DEF JournalIInv, JournalInv, TypeOK, Journal
<1> QED
  BY <1>1 DEF JournalStep, Progress, Renewal

LEMMA LoneKept ==
  ASSUME JournalIInv, JournalIInv', JournalStep, Lone, Kept
  PROVE  Lone'
<1>1. disk.tid \in Nat /\ disk'.tid \in Nat /\ disk.tid <= disk'.tid
  BY TidGrows
<1>2. \A r \in BagToSet(inbox)' :
        r \in BagToSet(inbox) /\ inbox'[r] = inbox[r] /\ r \in Request
  BY DEF Kept, JournalIInv, TypeOK, ThreadTypeOK
<1>3. \A method \in Methods : \A tid : Taken(method, tid)' = Taken(method, tid)
  BY DEF Kept, SameTaken
<1>4. \A method \in Methods : \A tid : Asked(method, tid)' => Asked(method, tid)
  BY KeptAsks
<1>5. \A r \in BagToSet(inbox)' : (inbox[r] = 1)' /\ Taken(r.method, r.tid)' = {}
  BY <1>2, <1>3 DEF Lone, Request
<1>6. \A r, s \in BagToSet(inbox)' : r.method = s.method /\ r.tid = s.tid => r = s
  BY <1>2 DEF Lone
<1>7. \A method \in Methods : \A tid \in Nat :
        /\ \A x, y \in Taken(method, tid)' : x = y
        /\ Asked(method, tid)' => 0 < tid /\ tid <= disk'.tid
  BY <1>1, <1>3, <1>4 DEF Lone
<1> QED
  BY <1>5, <1>6, <1>7 DEF Lone

LEMMA LoneServed ==
  ASSUME JournalIInv, Lone, NEW served \in BagToSet(inbox), Served(served), UNCHANGED disk
  PROVE  Lone'
<1>0. served \in Request /\ ChannelOK /\ BagToSet(inbox) \subseteq Request
  BY DEF JournalIInv, TypeOK, ThreadTypeOK, ChannelOK
<1>1. \A r \in BagToSet(inbox)' : r \in BagToSet(inbox) /\ inbox'[r] = inbox[r] /\ r # served
  <2>1. \A r \in BagToSet(inbox)' : /\ r \in BagToSet(inbox)
                                    /\ r # served => inbox'[r] = inbox[r]
                                    /\ r = served => inbox[served] > 1
    BY <1>0, LessInbox DEF Served
  <2>2. inbox[served] = 1
    BY DEF Lone
  <2> QED
    BY <2>1, <2>2
<1>2. \A method \in Methods : \A tid :
        \/ Taken(method, tid)' = Taken(method, tid)
        \/ /\ method = served.method /\ tid = served.tid
           /\ \E x : Taken(method, tid)' = {x}
  BY DEF Served, Lone
<1>3. \A method \in Methods : \A tid : Asked(method, tid)' => Asked(method, tid)
  BY <1>0, ServedAsks
<1>4. \A r \in BagToSet(inbox)' : r.method # served.method \/ r.tid # served.tid
  BY <1>1 DEF Lone
<1>5. \A r \in BagToSet(inbox)' : (inbox[r] = 1)' /\ Taken(r.method, r.tid)' = {}
  BY <1>0, <1>1, <1>2, <1>4 DEF Lone, Request
<1>6. \A r, s \in BagToSet(inbox)' : r.method = s.method /\ r.tid = s.tid => r = s
  BY <1>1 DEF Lone
<1>7. \A method \in Methods : \A tid \in Nat :
        /\ \A x, y \in Taken(method, tid)' : x = y
        /\ Asked(method, tid)' => 0 < tid /\ tid <= disk'.tid
  BY <1>2, <1>3 DEF Lone
<1> QED
  BY <1>5, <1>6, <1>7 DEF Lone

LEMMA LoneSent ==
  ASSUME JournalIInv, RequestsInv, NEW p \in Proc, NEW sent \in Methods, Sent(p, sent)
  PROVE  Lone'
<1> DEFINE new == [proc |-> p, method |-> sent, tid |-> disk.tid]
<1>0. /\ mem[p].tid = disk.tid /\ disk.tid \in Nat \ {0} /\ ~Asked(sent, disk.tid)
      /\ ChannelOK /\ JournalOK /\ new \in Request /\ BagToSet(inbox) \subseteq Request
  BY SendsFirst, TypeParts DEF JournalIInv, Request, ChannelOK
<1>1. /\ new.method = sent /\ new.tid = disk.tid
      /\ \A r \in BagToSet(inbox) : r.method # sent \/ r.tid # disk.tid
      /\ Taken(sent, disk.tid) = {} /\ new \notin BagToSet(inbox)
  BY <1>0, AskedTaken DEF InFlight
<1>2. \A r \in BagToSet(inbox)' : /\ r = new \/ r \in BagToSet(inbox)
                                  /\ r # new => inbox'[r] = inbox[r]
                                  /\ r = new => inbox'[r] = 1
  <2>1. inbox' = inbox (+) SetToBag({new})
    BY <1>0 DEF Sent
  <2> HIDE DEF new
  <2> QED
    BY <1>0, <1>1, <2>1, MoreInbox
<1> HIDE DEF new
<1>3. \A method \in Methods : \A tid : Taken(method, tid)' = Taken(method, tid)
  BY DEF Sent, SameTaken
<1>4. \A method \in Methods : \A tid :
        Asked(method, tid)' => Asked(method, tid) \/ (method = sent /\ tid = disk.tid)
  BY <1>0, SentAsks
<1>5. \A r \in BagToSet(inbox)' : (inbox[r] = 1)' /\ Taken(r.method, r.tid)' = {}
  BY <1>0, <1>1, <1>2, <1>3 DEF RequestsInv, Lone, Request
<1>6. \A r, s \in BagToSet(inbox)' : r.method = s.method /\ r.tid = s.tid => r = s
  BY <1>1, <1>2 DEF RequestsInv, Lone
<1>7. \A method \in Methods : \A tid \in Nat :
        /\ \A x, y \in Taken(method, tid)' : x = y
        /\ Asked(method, tid)' => 0 < tid /\ tid <= disk'.tid
  BY <1>0, <1>3, <1>4 DEF RequestsInv, Lone, Sent
<1> QED
  BY <1>5, <1>6, <1>7 DEF Lone

LEMMA AsksOfDisk ==
  ASSUME AsksNothing, NEW method \in Methods, Asked(method, disk.tid)'
  PROVE  Asked(method, disk'.tid)
BY DEF AsksNothing, Asked, InFlight, CompactTurns, Injections, Continuations

LEMMA FencedQuiet ==
  ASSUME JournalIInv, JournalIInv', JournalStep, Lone, Fenced, AsksNothing
  PROVE  Fenced'
<1>0. /\ disk.tid \in Nat /\ disk'.tid \in Nat /\ disk.tid <= accepted
      /\ {"compact", "inject", "start"} \subseteq Methods
  BY TidGrows DEF JournalIInv, JournalInv, Methods
<1>1. \A method \in Methods : Asked(method, disk.tid)' => Asked(method, disk'.tid)
  BY AsksOfDisk
<1>2. CASE disk' = disk
  BY <1>0, <1>1, <1>2 DEF Fenced
<1>3. CASE Progress
  <2>1. /\ disk.state \notin BeforeMutation => disk'.state \notin BeforeMutation
        /\ disk.state \in Injecting \union Terminal
             => disk'.state \in Injecting \union Terminal
        /\ disk.state \in (Injecting \ {"InjectingCheckpoint"}) \union Terminal =>
             disk'.state \in (Injecting \ {"InjectingCheckpoint"}) \union Terminal
    BY <1>3 DEF Progress, transition_allowed, BeforeMutation, Injecting, Terminal
  <2>2. disk'.tid = disk.tid
    BY <1>3 DEF Progress
  <2> QED
    BY <1>0, <1>1, <2>1, <2>2 DEF Fenced
<1>4. CASE Renewal
  <2>1. disk'.tid > disk.tid
    BY <1>0, <1>4 DEF Renewal, JournalIInv, TypeOK
  <2>2. \A method \in Methods : ~Asked(method, disk'.tid)
    BY <1>0, <2>1 DEF Lone
  <2> QED
    BY <1>0, <1>1, <2>2 DEF Fenced
<1> QED
  BY <1>2, <1>3, <1>4 DEF JournalStep

LEMMA FencedSent ==
  ASSUME JournalIInv, RequestsInv, NEW p \in Proc, NEW sent \in Methods, Sent(p, sent)
  PROVE  Fenced'
<1>1. disk' = disk /\ {"compact", "inject", "start"} \subseteq Methods
  BY DEF Sent, Methods
<1>2. \A method \in Methods :
        Asked(method, disk.tid)' => Asked(method, disk.tid) \/ method = sent
  <2>1. \A method \in Methods : \A tid :
          Asked(method, tid)' => Asked(method, tid) \/ method = sent
    BY SentAsks, TypeParts DEF JournalIInv
  <2>2. SUFFICES ASSUME NEW method \in Methods, method # sent, Asked(method, disk.tid)'
                 PROVE  Asked(method, disk.tid)
    OBVIOUS
  <2>3. Asked(method, disk'.tid)
    BY <2>1, <2>2 DEF Asked, InFlight, CompactTurns, Injections, Continuations
  <2> QED
    BY <1>1, <2>3
<1>3. /\ sent = "compact" => disk.state = "CompactRequestSent"
      /\ sent = "inject" => disk.state = "InjectingCheckpoint"
      /\ sent = "start" => disk.state = "StartingContinuation"
  BY SendsFirst
<1> QED
  BY <1>1, <1>2, <1>3 DEF RequestsInv, Fenced, BeforeMutation, Injecting

LEMMA UnsentStep ==
  ASSUME JournalIInv, JournalIInv', RequestsInv, \A p \in Proc : Arrived(p),
         \/ AsksNothing
         \/ \E p \in Proc, method \in Methods : Sent(p, method)
  PROVE  Unsent'
<1>0. {"compact", "inject", "start"} \subseteq Methods
  BY DEF Methods
<1> SUFFICES ASSUME NEW q \in Proc,
                    pc'[q] \in {"sendCompact", "sendInject", "drainUser", "sendStart"}
             PROVE  /\ pc'[q] = "sendCompact" => ~Asked("compact", disk.tid)'
                    /\ pc'[q] = "sendInject" => ~Asked("inject", disk.tid)'
                    /\ pc'[q] \in {"drainUser", "sendStart"} => ~Asked("start", disk.tid)'
  BY DEF Unsent
<1>1. lease' = q
  <2>1. Holding(q)'
    BY DEF Holding
  <2> QED
    BY <2>1 DEF JournalIInv, LeaseInv, LeaseExclusive
<1>2. /\ disk'.tid = disk.tid
      /\ pc'[q] = "sendCompact" => ~Asked("compact", disk.tid)
      /\ pc'[q] = "sendInject" => ~Asked("inject", disk.tid)
      /\ pc'[q] \in {"drainUser", "sendStart"} => ~Asked("start", disk.tid)
  <2>1. CASE Arrives(q)
    BY <2>1 DEF Arrives, RequestsInv, Unsent, Fenced, BeforeMutation, Injecting, Terminal
  <2>2. CASE pc'[q] = pc[q] /\ (Holding(q) => disk' = disk)
    BY <2>2 DEF Holding, RequestsInv, Unsent
  <2> QED
    BY <2>1, <2>2 DEF Arrived
<1>3. CASE AsksNothing
  BY <1>0, <1>2, <1>3, AsksOfDisk
<1>4. ASSUME NEW p \in Proc, NEW method \in Methods, Sent(p, method)
      PROVE  FALSE
  <2>1. lease = p
    BY <1>4, SendsFirst
  <2> QED
    BY <1>1, <1>4, <2>1 DEF Sent
<1> QED
  BY <1>3, <1>4

LEMMA HarmlessStep ==
  ASSUME JournalIInv, JournalIInv', RequestsInv, Blamed, \A p \in Proc : Arrived(p),
         \/ AsksNothing
         \/ \E p \in Proc, method \in Methods : Sent(p, method)
  PROVE  Harmless'
<1>0. "compact" \in Methods /\ Harmless /\ Fenced
  BY DEF Methods, RequestsInv
<1>1. disk'.reason = "ProcessRestarted" => ~Asked("compact", disk'.tid)
  <2>1. CASE disk' = disk
    BY <1>0, <2>1 DEF Harmless, RestartCancelsHarmlessly
  <2>2. ASSUME NEW p \in Proc, pc[p] = "finish", disk' = mem[p]
        PROVE  disk'.reason = "ProcessRestarted" => ~Asked("compact", disk'.tid)
    BY <1>0, <2>2 DEF Harmless
  <2> QED
    BY <2>1, <2>2 DEF Blamed
<1>2. ASSUME NEW q \in Proc, pc'[q] = "finish", mem'[q].reason = "ProcessRestarted"
      PROVE  ~Asked("compact", mem'[q].tid)
  <2>1. CASE Blames(q)
    BY <1>0, <1>2, <2>1 DEF Blames, Fenced
  <2>2. CASE pc'[q] = pc[q] /\ mem'[q] = mem[q]
    BY <1>0, <1>2, <2>2 DEF Harmless
  <2> QED
    BY <2>1, <2>2 DEF Arrived
<1>3. CASE AsksNothing
  <2>1. disk'.reason = "ProcessRestarted" => ~Asked("compact", disk.tid)'
    BY <1>0, <1>1, <1>3, AsksOfDisk
  <2>2. ASSUME NEW q \in Proc, pc'[q] = "finish", mem'[q].reason = "ProcessRestarted",
               Asked("compact", mem[q].tid)'
        PROVE  FALSE
    <3>1. Asked("compact", mem'[q].tid)
      BY <1>0, <1>3, <2>2 DEF AsksNothing, Asked, InFlight, CompactTurns
    <3> QED
      BY <1>2, <2>2, <3>1
  <2> QED
    BY <2>1, <2>2 DEF Harmless, RestartCancelsHarmlessly
<1>4. ASSUME NEW p \in Proc, NEW method \in Methods, Sent(p, method)
      PROVE  Harmless'
  <2>1. /\ disk' = disk /\ lease' = p /\ pc'[p] # "finish"
        /\ disk.state \in {"CompactRequestSent", "InjectingCheckpoint", "StartingContinuation"}
    BY <1>4, SendsFirst DEF Sent, Methods
  <2>2. disk'.reason # "ProcessRestarted"
    BY <2>1 DEF JournalIInv, JournalInv, WellFormed
  <2>3. \A q \in Proc : pc'[q] # "finish"
    BY <2>1 DEF JournalIInv, LeaseInv, LeaseExclusive, Holding
  <2> QED
    BY <2>2, <2>3 DEF Harmless, RestartCancelsHarmlessly
<1> QED
  BY <1>3, <1>4

LEMMA RequestsInit == Init => RequestsInv
<1> SUFFICES ASSUME Init PROVE RequestsInv
  OBVIOUS
<1>1. /\ BagToSet(inbox) = {} /\ turns = <<NewTurn("user", 0)>> /\ injections = <<>>
      /\ disk = NoJournal /\ \A p \in Proc : pc[p] = "down"
  BY DEF Init, ThreadInit, EmptyBag, SetToBag, BagToSet
<1>2. \A tid : CompactTurns(tid) = {} /\ Continuations(tid) = {} /\ Injections(tid) = {}
  BY <1>1 DEF CompactTurns, Continuations, Injections, NewTurn
<1>3. \A method \in Methods : \A tid : Taken(method, tid) = {} /\ ~Asked(method, tid)
  BY <1>1, <1>2 DEF Taken, Asked, InFlight, Methods
<1>4. {"compact", "inject", "start"} \subseteq Methods
  BY DEF Methods
<1> QED
  BY <1>1, <1>3, <1>4
     DEF RequestsInv, Lone, Unsent, Fenced, Harmless, RestartCancelsHarmlessly

LEMMA RequestsNext ==
  ASSUME JournalIInv, RequestsInv, RecoveryCurrent, [Next]_vars
  PROVE  RequestsInv'
<1>1. JournalIInv' /\ JournalStep /\ Blamed /\ \A p \in Proc : Arrived(p)
  BY JournalIInvNext
<1>2. CASE Kept
  <2>1. AsksNothing
    BY <1>2, KeptAsks DEF AsksNothing
  <2> QED
    BY <1>1, <1>2, <2>1, LoneKept, UnsentStep, FencedQuiet, HarmlessStep DEF RequestsInv
<1>3. ASSUME NEW r \in BagToSet(inbox), Served(r), UNCHANGED programVars
      PROVE  RequestsInv'
  <2>1. AsksNothing
    BY <1>3, ServedAsks, TypeParts DEF JournalIInv, AsksNothing
  <2>2. Lone'
    BY <1>3, LoneServed DEF RequestsInv, programVars
  <2> QED
    BY <1>1, <2>1, <2>2, UnsentStep, FencedQuiet, HarmlessStep DEF RequestsInv
<1>4. ASSUME NEW p \in Proc, NEW method \in Methods, Sent(p, method)
      PROVE  RequestsInv'
  BY <1>1, <1>4, LoneSent, UnsentStep, FencedSent, HarmlessStep DEF RequestsInv
<1> QED
  BY <1>2, <1>3, <1>4, StepRequests DEF JournalIInv

\* Of each transition and method at most one request is on its way or has taken
\* effect, none has before the step that sends it, and the file says so before
\* it is sent (runner.rs:31-53, 113-140).
THEOREM RequestsCorrect == Spec /\ []RecoveryCurrent => [](JournalIInv /\ RequestsInv)
<1>1. Init => JournalIInv /\ RequestsInv
  BY JournalIInvInit, RequestsInit
<1>2. JournalIInv /\ RequestsInv /\ RecoveryCurrent /\ [Next]_vars
        => (JournalIInv /\ RequestsInv)'
  BY JournalIInvNext, RequestsNext
<1> QED
  BY <1>1, <1>2, PTL DEF Spec

\* The journal on disk is ahead of the thread: whatever fails, no stored state
\* from which a restart would send a request again coexists with that request
\* on its way or in the thread (runner.rs:31-53, 113-121, 130-140).
THEOREM JournalFences == Spec /\ []RecoveryCurrent => []Fenced
<1>1. RequestsInv => Fenced
  BY DEF RequestsInv
<1> QED
  BY <1>1, RequestsCorrect, PTL

\* A transition cancelled as interrupted before compaction has asked for nothing
\* and never will, not even by a request still on its way (recovery.rs:32-35,
\* 73).
THEOREM RestartsAreHarmless == Spec /\ []RecoveryCurrent => []RestartCancelsHarmlessly
<1>1. RequestsInv => RestartCancelsHarmlessly
  BY DEF RequestsInv, Harmless
<1> QED
  BY <1>1, RequestsCorrect, PTL

\* Crashes, lost answers, late requests and restarts included, each request of
\* a transition takes effect at most once.
THEOREM NothingTwice == Spec /\ []RecoveryCurrent => []AtMostOnce
<1>1. ASSUME JournalIInv, RequestsInv PROVE AtMostOnce
  <2>1. accepted \in Nat
    BY <1>1 DEF JournalIInv, TypeOK
  <2>2. \A method \in Methods : \A tid \in Nat : \A x, y \in Taken(method, tid) : x = y
    BY <1>1 DEF RequestsInv, Lone
  <2>3. \A tid \in 1..accepted :
          /\ \A x, y \in CompactTurns(tid) : x = y
          /\ \A x, y \in Injections(tid) : x = y
          /\ \A x, y \in Continuations(tid) : x = y
    <3>1. \A tid \in 1..accepted : tid \in Nat
      BY <2>1
    <3>2. {"compact", "inject", "start"} \subseteq Methods
      BY DEF Methods
    <3> QED
      BY <2>2, <3>1, <3>2 DEF Taken
  <2>4. ASSUME NEW S, \A x, y \in S : x = y PROVE Cardinality(S) <= 1
    <3>1. CASE S = {}
      BY <3>1, FS_EmptySet
    <3>2. CASE S # {}
      <4>1. PICK x \in S : TRUE
        BY <3>2
      <4>2. S = {x}
        BY <2>4, <4>1
      <4> QED
        BY <4>2, FS_Singleton
    <3> QED
      BY <3>1, <3>2
  <2> QED
    BY <2>3, <2>4 DEF AtMostOnce
<1> QED
  BY <1>1, RequestsCorrect, PTL

\* A process that is alone needs no hypothesis.
THEOREM AloneIsSafe ==
  OneProcess /\ Spec => [](Fenced /\ RestartCancelsHarmlessly /\ AtMostOnce)
BY RecoveryIsCurrent, JournalFences, RestartsAreHarmless, NothingTwice, PTL

-----------------------------------------------------------------------------
(* The source turn *)

\* The history grows; a turn keeps who made it, and once completed, all it holds.
HistoryStays ==
  /\ Len(turns) <= Len(turns')
  /\ \A t \in 1..Len(turns) :
       /\ t \in 1..Len(turns')
       /\ turns'[t].origin = turns[t].origin /\ turns'[t].tid = turns[t].tid
       /\ turns[t].status = "completed" => turns'[t] = turns[t]

LEMMA AppendedStay ==
  ASSUME HistoryOK, NEW turn, turns' = Append(turns, turn)
  PROVE  HistoryStays
BY DEF HistoryOK, HistoryStays

LEMMA RunningChanges ==
  ASSUME HistoryOK, NEW i, turns[i].status = "inProgress", Len(turns') = Len(turns),
         turns'[i].origin = turns[i].origin, turns'[i].tid = turns[i].tid,
         \A t \in 1..Len(turns) : t # i => turns'[t] = turns[t]
  PROVE  HistoryStays
BY DEF HistoryStays

LEMMA UnchangedStay ==
  ASSUME UNCHANGED turns
  PROVE  HistoryStays
BY DEF HistoryStays

LEMMA RecordCallStays ==
  ASSUME HistoryOK, NEW source, NEW receipt, NEW ok, RecordCall(source, receipt, ok)
  PROVE  HistoryStays
<1> DEFINE calls == Append(turns[source].calls, [receipt |-> receipt, ok |-> ok])
           turn == [turns[source] EXCEPT !.calls = calls]
<1>1. CASE /\ unique_turn(turns, source) /\ turns[source].status = "inProgress"
           /\ turns' = [turns EXCEPT ![source] = turn]
  <2>1. source \in 1..Len(turns) /\ turns[source] \in Turn
    BY <1>1, ElementOfSeq DEF unique_turn, HistoryOK
  <2> HIDE DEF calls
  <2>2. turn.origin = turns[source].origin /\ turn.tid = turns[source].tid
    BY <2>1 DEF Turn
  <2> HIDE DEF turn
  <2> QED
    BY <1>1, <2>1, <2>2, ChangedTurn, RunningChanges
<1> QED
  BY <1>1, UnchangedStay DEF RecordCall

LEMMA StepStays ==
  ASSUME TypeOK, [Next]_vars
  PROVE  HistoryStays
<1>0. HistoryOK /\ JournalOK
  BY TypeParts
<1> USE DEF UnchangedThread, threadVars
<1>1. CASE UNCHANGED turns
  BY <1>1, UnchangedStay
<1>2. CASE \E origin, tid : StartTurn(origin, tid)
  BY <1>0, <1>2, AppendedStay DEF StartTurn
<1>3. CASE EndTurn \/ CompactionItemStarts \/ CompactionItemEnds
  <2>1. is_active(turns)
    BY <1>3 DEF EndTurn, CompactionItemStarts, CompactionItemEnds
  <2>2. turns[Len(turns)].status = "inProgress"
    BY <2>1 DEF is_active
  <2> DEFINE n == Len(turns)
  <2>3. /\ Len(turns') = Len(turns)
        /\ \A t \in 1..Len(turns) : t # n => turns'[t] = turns[t]
        /\ turns'[n].origin = turns[n].origin /\ turns'[n].tid = turns[n].tid
    <3>0. turns \in Seq(Turn) /\ turns[n] \in Turn /\ n \in 1..Len(turns)
      BY <1>0, <2>1, LastTurn DEF HistoryOK
    <3> HIDE DEF n
    <3>1. ASSUME NEW turn, turns' = [turns EXCEPT ![n] = turn],
                 turn.origin = turns[n].origin, turn.tid = turns[n].tid
          PROVE  /\ Len(turns') = Len(turns)
                 /\ \A t \in 1..Len(turns) : t # n => turns'[t] = turns[t]
                 /\ turns'[n].origin = turns[n].origin /\ turns'[n].tid = turns[n].tid
      BY <3>0, <3>1
    <3>2. CASE EndTurn
      BY <3>0, <3>1, <3>2 DEF EndTurn, n, Turn
    <3>3. CASE CompactionItemStarts
      BY <3>0, <3>1, <3>3 DEF CompactionItemStarts, n, Turn
    <3>4. CASE CompactionItemEnds
      BY <3>0, <3>1, <3>4 DEF CompactionItemEnds, n, Turn
    <3> QED
      BY <1>3, <3>2, <3>3, <3>4
  <2> QED
    BY <1>0, <2>2, <2>3, RunningChanges
<1>4. CASE \E source, receipt, ok : RecordCall(source, receipt, ok)
  BY <1>0, <1>4, RecordCallStays
<1>5. CASE ThreadNext
  BY <1>1, <1>2, <1>3, <1>5
     DEF ThreadNext, UserTurn, ServeRequest, ServeCompact, ServeStart, ServeInject, Refuse,
         Disconnect, AskClient, Lag, Repeat
<1>6. ASSUME NEW p \in Proc, CompactNext(p) \/ InjectNext(p) PROVE HistoryStays
  BY <1>0, <1>1, <1>6, WorkRequests DEF Sent
<1>7. ASSUME NEW p \in Proc, RecoveryNext(p) PROVE HistoryStays
  BY <1>1, <1>7
     DEF RecoveryNext, RecoverSkip, RecoverBegin, RecoverResume, RecoverConfirm,
         RecoverFinish
<1>8. ASSUME NEW p \in Proc, Prepare(p) \/ Accept(p) \/ AcceptAwait(p) \/ CallRejected(p)
      PROVE  HistoryStays
  BY <1>1, <1>4, <1>8 DEF Prepare, Accept, AcceptAwait, CallRejected, Reject
<1>9. ASSUME NEW p \in Proc,
             \/ WaitExpires(p) \/ TaskFinish(p) \/ Cleanup(p)
             \/ Boot(p) \/ Crash(p) \/ ScheduleBegin(p)
      PROVE  HistoryStays
  BY <1>1, <1>9 DEF WaitExpires, TaskFinish, Cleanup, Boot, Crash, ScheduleBegin
<1> QED
  BY <1>1, <1>5, <1>6, <1>7, <1>8, <1>9 DEF Next, Proceed, vars

\* The steps between the final read of the source turn and the request.
SourceRead == {"guardSource", "redrainSource", "saveReady", "saveSent", "sendCompact"}

SourceOK(journal) ==
  /\ unique_turn(turns, journal.source)
  /\ turns[journal.source].status = "completed"
  /\ turns[journal.source].calls = <<[receipt |-> journal.tid, ok |-> TRUE]>>
  /\ turns[journal.source].tail = "passive"

SourceInv ==
  /\ Asked("compact", disk.tid) => SourceOK(disk)
  /\ \A p \in Proc : pc[p] \in SourceRead => SourceOK(disk)

\* A sequence that is neither empty nor longer than one.
LEMMA OnlyElement ==
  ASSUME NEW S, NEW seq \in Seq(S), seq # <<>>, ~(Len(seq) > 1)
  PROVE  seq[1] \in S /\ seq = <<seq[1]>>
<1>1. Len(seq) \in Nat
  BY LenProperties
<1>2. Len(seq) # 0
  BY EmptySeq
<1>3. Len(seq) = 1
  <2>1. \A n \in Nat : n # 0 /\ ~(n > 1) => n = 1
    OBVIOUS
  <2> QED
    BY <1>1, <1>2, <2>1, Zenon
<1>4. seq[1] \in S
  BY <1>3, ElementOfSeq
<1> QED
  BY <1>3, <1>4

LEMMA ValidatedSource ==
  ASSUME HistoryOK, NEW journal \in Journal,
         validate_final_source_snapshot(turns, journal.source, journal.tid) = "None"
  PROVE  SourceOK(journal)
<1> DEFINE turn == turns[journal.source]
<1>1. /\ unique_turn(turns, journal.source)
      /\ turn.status = "completed" /\ turn.calls # <<>> /\ ~(Len(turn.calls) > 1)
      /\ turn.calls[1].ok /\ turn.calls[1].receipt = journal.tid
      /\ turn.tail # "active" /\ turn.tail # "busy"
  BY DEF validate_final_source_snapshot, exact_last_turn
<1>2. turn \in Turn
  BY <1>1, ElementOfSeq DEF unique_turn, HistoryOK
<1>3. turn.tail = "passive"
  BY <1>1, <1>2 DEF Turn, Tails
<1>4. turn.calls \in Seq([receipt : Nat, ok : BOOLEAN])
  BY <1>2 DEF Turn
<1>5. turn.calls[1] \in [receipt : Nat, ok : BOOLEAN] /\ turn.calls = <<turn.calls[1]>>
  BY <1>1, <1>4, OnlyElement
<1>6. turn.calls[1] = [receipt |-> journal.tid, ok |-> TRUE]
  BY <1>1, <1>5
<1>7. turn.calls = <<[receipt |-> journal.tid, ok |-> TRUE]>>
  BY <1>5, <1>6
<1> QED
  BY <1>1, <1>3, <1>7 DEF SourceOK

\* How a process gets to one of those steps.
LEMMA SourceFlow ==
  ASSUME JournalOK, NEW p \in Proc, Proceed(p), pc'[p] \in SourceRead
  PROVE  /\ \/ pc[p] \in SourceRead
            \/ /\ pc[p] = "readSource"
               /\ validate_final_source_snapshot(turns, mem[p].source, mem[p].tid) = "None"
         /\ pc[p] \in Working
<1> USE DEF JournalOK, Goto, Stop, SourceRead, Working, ReadingSource
<1>1. CASE AwaitSource(p) \/ DrainSource(p) \/ RedrainSource(p)
  BY <1>1 DEF AwaitSource, DrainSource, RedrainSource, RejectQueued
<1>2. CASE ReadSource(p) \/ GuardSource(p)
  BY <1>2 DEF ReadSource, GuardSource, GuardDescendants, ReadThread
<1>3. CASE SaveReady(p) \/ SaveSent(p) \/ SendCompact(p)
  BY <1>3 DEF SaveReady, SaveSent, SendCompact, Record, SendOnce
<1>4. CASE WaitCompact(p) \/ DrainCompact(p) \/ ReadCompact(p) \/ SaveCapsule(p)
  BY <1>4 DEF WaitCompact, DrainCompact, ReadCompact, SaveCapsule, RejectQueued, ReadThread
<1>5. CASE AwaitCompaction(p)
  BY <1>5 DEF AwaitCompaction, Advance
<1>6. CASE DrainInject(p) \/ RedrainInject(p) \/ DrainUser(p)
  BY <1>6 DEF DrainInject, RedrainInject, RejectStarted, DrainUser, UserWins, Advance, Done
<1>7. CASE GuardInject(p) \/ SendInject(p) \/ SendStart(p)
  BY <1>7 DEF GuardInject, GuardDescendants, ReadThread, SendInject, SendStart, SendOnce
<1>8. CASE SaveInjecting(p) \/ SaveStarting(p) \/ SaveCooldown(p)
  BY <1>8 DEF SaveInjecting, SaveStarting, SaveCooldown, Record, Advance, Done
<1>9. CASE WaitInject(p) \/ AwaitStarted(p) \/ ConfirmStarted(p)
  BY <1>9 DEF WaitInject, AwaitStarted, ConfirmStarted
<1>10. CASE WaitStart(p)
  BY <1>10 DEF WaitStart, UserWins, Advance, Done
<1>11. CASE RecoveryNext(p)
  BY <1>11
     DEF RecoveryNext, RecoverSkip, RecoverBegin, RecoverResume, RecoverConfirm,
         RecoverFinish
<1>12. CASE Prepare(p) \/ Accept(p) \/ AcceptAwait(p)
  BY <1>12 DEF Prepare, Accept, AcceptAwait, Reject
<1>13. CASE WaitExpires(p) \/ TaskFinish(p) \/ Cleanup(p)
  BY <1>13 DEF WaitExpires, TaskFinish, Cleanup
<1> QED
  BY <1>1, <1>2, <1>3, <1>4, <1>5, <1>6, <1>7, <1>8, <1>9, <1>10, <1>11, <1>12, <1>13
     DEF Proceed, CompactNext, InjectNext

LEMMA SourceOKStays ==
  ASSUME HistoryStays, SourceOK(disk), disk'.source = disk.source, disk'.tid = disk.tid
  PROVE  SourceOK(disk)'
BY DEF HistoryStays, SourceOK, unique_turn

LEMMA SourceNext ==
  ASSUME JournalIInv, RequestsInv, SourceInv, RecoveryCurrent, [Next]_vars
  PROVE  SourceInv'
<1>1. /\ JournalIInv' /\ JournalStep /\ \A p \in Proc : Arrived(p)
      /\ RequestsInv' /\ HistoryStays
      /\ HistoryOK /\ ChannelOK /\ JournalOK /\ "compact" \in Methods
  BY JournalIInvNext, RequestsNext, StepStays, TypeParts DEF JournalIInv, Methods
<1>2. (disk'.source = disk.source /\ disk'.tid = disk.tid) \/ Renewal
  BY <1>1 DEF JournalStep, Progress
<1>3. ASSUME NEW q \in Proc, pc'[q] \in SourceRead PROVE SourceOK(disk)'
  <2>1. disk'.state \in {"AwaitSourceTurnCompleted", "ReadyToCompact", "CompactRequestSent"}
    <3>1. (pc[q] \in Working)'
      BY <1>3 DEF SourceRead, Working, ReadingSource
    <3>2. StateAt(pc[q], disk.state)'
      BY <1>1, <3>1 DEF JournalIInv, JournalInv, WorkerOK, Working, ReadingSource,
             ReadingCompaction, Injectable, InjectionSent, Continuing, Continued, Holding
    <3> QED
      BY <1>3, <3>2 DEF StateAt, SourceRead, ReadingSource
  <2>2. disk'.source = disk.source /\ disk'.tid = disk.tid
    BY <1>2, <2>1 DEF Renewal
  <2>3. SourceOK(disk)
    <3>1. CASE Proceed(q)
      <4>1. /\ \/ pc[q] \in SourceRead
               \/ /\ pc[q] = "readSource"
                  /\ validate_final_source_snapshot(turns, mem[q].source, mem[q].tid) = "None"
            /\ pc[q] \in Working
        BY <1>1, <1>3, <3>1, SourceFlow
      <4>2. mem[q] = disk /\ disk \in Journal
        BY <1>1, <4>1, WorkingHolds, WorkingState DEF JournalIInv, JournalInv, JournalOK
      <4> QED
        BY <1>1, <4>1, <4>2, ValidatedSource DEF SourceInv
    <3>2. CASE pc'[q] = pc[q]
      BY <1>3, <3>2 DEF SourceInv
    <3>3. ASSUME NEW p \in Proc, Proceed(p), p # q PROVE pc'[q] = pc[q]
      BY <1>1, <3>3, ProceedIsPrivate DEF Private
    <3>4. ASSUME NEW p \in Proc, Boot(p) \/ Crash(p) \/ CallRejected(p) \/ ScheduleBegin(p)
          PROVE  pc'[q] = pc[q]
      BY <1>1, <1>3, <3>4
         DEF Boot, Crash, CallRejected, ScheduleBegin, programVars, Goto, JournalOK,
             SourceRead
    <3> QED
      BY <3>1, <3>2, <3>3, <3>4 DEF Next, ThreadNext, programVars, vars
  <2> QED
    BY <1>1, <2>2, <2>3, SourceOKStays
<1>4. ASSUME Asked("compact", disk.tid)' PROVE SourceOK(disk)'
  <2>1. CASE AsksNothing
    <3>1. Asked("compact", disk'.tid)
      BY <1>1, <1>4, <2>1, AsksOfDisk
    <3>2. ~Renewal
      <4>1. disk'.tid \in Nat /\ accepted \in Nat /\ disk.tid <= accepted /\ disk.tid \in Nat
        BY <1>1 DEF JournalIInv, JournalInv, TypeOK, Journal
      <4> QED
        BY <1>1, <3>1, <4>1 DEF RequestsInv, Lone, Renewal
    <3> QED
      BY <1>1, <1>2, <3>1, <3>2, SourceOKStays DEF SourceInv
  <2>2. ASSUME NEW p \in Proc, NEW method \in Methods, Sent(p, method) PROVE SourceOK(disk)
    <3>1. CASE method = "compact"
      BY <2>2, <3>1 DEF Sent, SentFrom, SourceInv, SourceRead
    <3>2. CASE method # "compact"
      <4>1. \A tid : Asked("compact", tid)' => Asked("compact", tid)
        BY <1>1, <2>2, <3>2, SentAsks
      <4>2. Asked("compact", disk'.tid)
        BY <1>4, <4>1 DEF Asked, InFlight, CompactTurns
      <4> QED
        BY <2>2, <4>2 DEF Sent, SourceInv
    <3> QED
      BY <3>1, <3>2
  <2>3. Kept => AsksNothing
    BY KeptAsks DEF AsksNothing
  <2>4. (\E r \in BagToSet(inbox) : Served(r)) => AsksNothing
    BY <1>1, ServedAsks DEF AsksNothing
  <2>5. (\E p \in Proc, method \in Methods : Sent(p, method)) => disk' = disk
    BY DEF Sent
  <2> QED
    BY <1>1, <2>1, <2>2, <2>3, <2>4, <2>5, StepRequests, SourceOKStays DEF JournalIInv
<1> QED
  BY <1>3, <1>4 DEF SourceInv

\* The source turn is the one the last read has found quiescent, from that read
\* on for good.
LEMMA SourceCorrect == Spec /\ []RecoveryCurrent => []SourceInv
<1>1. Init => SourceInv
  <2> SUFFICES ASSUME Init PROVE SourceInv
    OBVIOUS
  <2>1. ~Asked("compact", disk.tid)
    BY DEF Init, ThreadInit, EmptyBag, SetToBag, BagToSet, Asked, InFlight, CompactTurns,
           NewTurn
  <2> QED
    BY <2>1 DEF Init, SourceInv, SourceRead
<1>2. JournalIInv /\ RequestsInv /\ SourceInv /\ RecoveryCurrent /\ [Next]_vars => SourceInv'
  BY SourceNext
<1> QED
  BY <1>1, <1>2, RequestsCorrect, PTL DEF Spec

\* Compaction is asked for only of a source turn that has completed with this
\* transition's receipt as its one request_compaction result and nothing but
\* agent messages and reasoning after it, and that stays so (runner.rs:473-545).
THEOREM SourceIsQuiescent == Spec /\ []RecoveryCurrent => []SourceQuiescent
<1>1. SourceInv => SourceQuiescent
  BY DEF SourceInv, SourceOK, SourceQuiescent
<1> QED
  BY <1>1, SourceCorrect, PTL
=============================================================================
