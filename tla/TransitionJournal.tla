-------------------------- MODULE TransitionJournal --------------------------
(***************************************************************************)
(* The durable journal of one transition (src/src/journal.rs), the rule    *)
(* that turns an error into a terminal state (orchestrator.rs, runner.rs)  *)
(* and what a restarted process may do with a journal it finds             *)
(* (orchestrator/recovery.rs).  Operators only, no state.                  *)
(*                                                                         *)
(* A journal is a record; texts and timestamps are left out.  `tid' stands *)
(* for the pair (receipt_id, checkpoint_id), which the code draws together *)
(* and never reuses; `capsule' says whether the checkpoint is stored.      *)
(* Turn identifiers are positions in the thread's history; 0 is None.      *)
(***************************************************************************)
EXTENDS Naturals

CancellationErrors ==
  {"RaceLost", "QuiescenceViolation", "SourceTurnFailed", "ActiveSubagents",
   "RecentNativeCompaction", "ActiveWork"}

ErrorCodes == CancellationErrors \union
  {"RecoveryAmbiguous", "ServerRequestReceived", "SharedAppServerUnavailable",
   "Timeout", "CompactionFailed", "InjectionFailed", "ContinuationUnsupported",
   "CheckpointTooLarge", "Io", "Protocol", "Internal", "TransitionPending",
   "CooldownActive", "UnsupportedCodex", "ProcessRestarted"}

\* Rejections the tool reports as an ordinary result, not as a failed call.
is_expected_rejection(code) ==
  code \in {"UnsupportedCodex", "SharedAppServerUnavailable", "TransitionPending",
            "CooldownActive", "RecentNativeCompaction", "ActiveSubagents",
            "ActiveWork"}

\* States whose transition still lies before any request that changes the thread.
BeforeMutation == {"Attaching", "AwaitSourceTurnCompleted", "ReadyToCompact"}

\* States from which native compaction may already have been asked for.
Compacting ==
  {"CompactRequestSent", "AwaitCompactionItem", "AwaitCompactionTurnCompleted"}

\* States from which the capsule may already be in the thread.
Injecting ==
  {"InjectingCheckpoint", "StartingContinuation", "AwaitContinuationStarted"}

Terminal == {"Cooldown", "Cancelled", "FailedSafe"}

TransitionStates == BeforeMutation \union Compacting \union Injecting \union Terminal

is_terminal(state) == state \in Terminal

transition_allowed(current, next) ==
  \/ <<current, next>> \in
       {<<"Attaching", "AwaitSourceTurnCompleted">>,
        <<"AwaitSourceTurnCompleted", "ReadyToCompact">>,
        <<"ReadyToCompact", "CompactRequestSent">>,
        <<"CompactRequestSent", "AwaitCompactionItem">>,
        <<"AwaitCompactionItem", "AwaitCompactionTurnCompleted">>,
        <<"AwaitCompactionTurnCompleted", "InjectingCheckpoint">>,
        <<"InjectingCheckpoint", "StartingContinuation">>,
        <<"StartingContinuation", "Cooldown">>,
        <<"StartingContinuation", "AwaitContinuationStarted">>,
        <<"AwaitContinuationStarted", "Cooldown">>}
  \/ next \in {"Cancelled", "FailedSafe"}

NoJournal ==
  [tid |-> 0, source |-> 0, state |-> "None", compact |-> 0, capsule |-> FALSE,
   cont |-> 0, reason |-> "None"]

NewJournal(tid, source) ==
  [NoJournal EXCEPT !.tid = tid, !.source = source, !.state = "Attaching"]

cancel(journal, code) == [journal EXCEPT !.state = "Cancelled", !.reason = code]

fail(journal, code) == [journal EXCEPT !.state = "FailedSafe", !.reason = code]

is_cancellation_error(code) == code \in CancellationErrors

\* The terminal journal of a transition that stopped with an error.
Conclude(journal, code) ==
  IF is_cancellation_error(code) THEN cancel(journal, code) ELSE fail(journal, code)

\* Defect: a sent compaction request counts as not sent.
recovery_disposition_CancelsSent(journal) ==
  IF journal.state \in BeforeMutation \union {"CompactRequestSent"}
  THEN "CancelBeforeMutation"
  ELSE "FailAmbiguous"

recovery_disposition(journal) ==
  IF journal.state \in BeforeMutation THEN "CancelBeforeMutation"
  ELSE IF journal.state = "AwaitCompactionTurnCompleted" /\ journal.capsule
  THEN "ResumePersistedCheckpoint"
  ELSE IF journal.state = "AwaitContinuationStarted" /\ journal.cont # 0
  THEN "ConfirmContinuation"
  ELSE IF is_terminal(journal.state) THEN "IgnoreTerminal"
  ELSE "FailAmbiguous"

\* Defect: a finished transition blocks the next, an unfinished one does not.
AdmitsSchedule_Unfinished(journal) == journal = NoJournal \/ ~is_terminal(journal.state)

\* A journal whose prior content does not stop a new transition.
AdmitsSchedule(journal) == journal = NoJournal \/ is_terminal(journal.state)
=============================================================================
