---------------------------- MODULE ThreadSnapshot ----------------------------
(***************************************************************************)
(* A full thread snapshot as the program reads it (src/src/protocol.rs),   *)
(* and the checks made on one (orchestrator.rs, orchestrator/runner.rs).   *)
(* Operators only, no state.                                               *)
(*                                                                         *)
(* `turns' is the thread's history; a turn's identifier is its position.   *)
(* A turn is a record:                                                     *)
(*   origin  who started it: "user", "native" (a compaction the user asked *)
(*           for), "compact" (thread/compact/start), "continuation"        *)
(*           (turn/start with no input)                                    *)
(*   tid     the transition whose request created it, else 0               *)
(*   status  "inProgress", "completed" or "failed"                         *)
(*   items   the states of its contextCompaction items                     *)
(*   calls   its request_compaction items: the receipt in the result (0 if *)
(*           it has none) and whether the item completed without error     *)
(*   tail    "passive" if only agent messages and reasoning follow the     *)
(*           request item, "active" if work is still running in the turn,  *)
(*           "busy" otherwise                                              *)
(* A turn that is not a compaction turn always holds some other item.      *)
(***************************************************************************)
EXTENDS Naturals, Sequences, FiniteSets

CONSTANT CooldownTurns
ASSUME CooldownTurnsAssumption == CooldownTurns \in Nat \ {0}

CompactionOrigins == {"native", "compact"}
Origins == {"user", "continuation"} \union CompactionOrigins
ItemStates == {"started", "completed", "failed"}
Tails == {"passive", "active", "busy"}

NewTurn(origin, tid) ==
  [origin |-> origin, tid |-> tid, status |-> "inProgress", items |-> <<>>,
   calls |-> <<>>, tail |-> "passive"]

is_active(turns) ==
  turns # <<>> /\ turns[Len(turns)].status = "inProgress"

is_idle(turns) == ~is_active(turns)

unique_turn(turns, id) == id \in 1..Len(turns)

exact_last_turn(turns, id) == unique_turn(turns, id) /\ id = Len(turns)

is_compaction(turn) == turn.items # <<>>

is_completed_regular(turn) == turn.status = "completed" /\ ~is_compaction(turn)

is_completed_pure_compaction(turn) ==
  /\ turn.status = "completed"
  /\ turn.origin \in CompactionOrigins
  /\ Len(turn.items) = 1
  /\ turn.items[1] # "failed"

completed_regular_turns_between(turns, after, before) ==
  Cardinality({i \in 1..Len(turns) :
                 after < i /\ i < before /\ is_completed_regular(turns[i])})

completed_regular_turns_after(turns, id) ==
  completed_regular_turns_between(turns, id, Len(turns) + 1)

CompletedCompactionsBefore(turns, source) ==
  {i \in 1..Len(turns) :
     i < source /\ turns[i].status = "completed" /\ is_compaction(turns[i])}

\* Defect: only compactions of this program are spaced.
recent_native_compaction_Ignored(turns, source) == FALSE

\* Fewer than CooldownTurns regular turns completed since the latest compaction.
recent_native_compaction(turns, source) ==
  \E c \in CompletedCompactionsBefore(turns, source) :
    /\ \A d \in CompletedCompactionsBefore(turns, source) : d <= c
    /\ completed_regular_turns_between(turns, c, source) < CooldownTurns

\* The error that preflight answers a schedule with, or "None".
preflight_root_and_cooldown(turns, source, prior) ==
  IF ~exact_last_turn(turns, source) THEN "RecoveryAmbiguous"
  ELSE IF ~is_active(turns) THEN "RaceLost"
  ELSE IF prior.state = "Cooldown" /\ ~unique_turn(turns, prior.cont)
  THEN "RecoveryAmbiguous"
  ELSE IF /\ prior.state = "Cooldown"
          /\ completed_regular_turns_after(turns, prior.cont) < CooldownTurns
  THEN "CooldownActive"
  ELSE IF recent_native_compaction(turns, source) THEN "RecentNativeCompaction"
  ELSE "None"

\* Defect: the first result of the source turn is taken, whatever follows it.
validate_final_source_snapshot_FirstCall(turns, source, tid) ==
  IF ~exact_last_turn(turns, source) THEN "RecoveryAmbiguous"
  ELSE LET turn == turns[source] IN
    IF turn.status # "completed" THEN "RaceLost"
    ELSE IF turn.calls = <<>> \/ turn.calls[1].receipt # tid THEN "Protocol"
    ELSE IF turn.tail # "passive" THEN "QuiescenceViolation"
    ELSE "None"

\* The error that the final read of the source turn gives, or "None".
validate_final_source_snapshot(turns, source, tid) ==
  IF ~exact_last_turn(turns, source) THEN "RecoveryAmbiguous"
  ELSE LET turn == turns[source] IN
    IF turn.status # "completed" THEN "RaceLost"
    ELSE IF is_compaction(turn) THEN "RecentNativeCompaction"
    ELSE IF turn.tail = "active" THEN "ActiveWork"
    ELSE IF turn.calls = <<>> THEN "Protocol"
    ELSE IF Len(turn.calls) > 1 THEN "RecoveryAmbiguous"
    ELSE IF ~turn.calls[1].ok THEN "SourceTurnFailed"
    ELSE IF turn.calls[1].receipt # tid THEN "Protocol"
    ELSE IF turn.tail = "busy" THEN "QuiescenceViolation"
    ELSE "None"

\* The error that the read after compaction gives, or "None".
require_completed_compaction_boundary(turns, compact) ==
  IF ~exact_last_turn(turns, compact) THEN "RecoveryAmbiguous"
  ELSE IF is_active(turns) \/ ~is_completed_pure_compaction(turns[compact])
  THEN "CompactionFailed"
  ELSE "None"
=============================================================================
