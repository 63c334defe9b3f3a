-------------------------------- MODULE Capsule --------------------------------
(***************************************************************************)
(* The evidence of a checkpoint: projected from the items of the thread in *)
(* their order (src/src/protocol.rs:490-566, src/src/checkpoint.rs:166-269)*)
(* and pruned until the capsule fits its limit (checkpoint.rs:273-366).    *)
(*                                                                         *)
(* A text is its length in characters of one byte, 0 for none that may be  *)
(* kept (empty, or looking like a secret).  A path or command is one that  *)
(* may be kept, after its truncation; every entry of a list has the same   *)
(* encoded length, and so has every field's name.                          *)
(***************************************************************************)
EXTENDS Integers, SequencesExt

CONSTANTS Path, ItemId,
          MAX_CHANGED_FILES, MAX_VERIFICATION_ITEMS, MAX_OBJECTIVE_SCALARS,
          MAX_CHECKPOINT_BYTES,
          HASH_BYTES, FILE_BYTES, CHECK_BYTES, \* encoded length of the hash and of the entries
          KEY_BYTES,  \* and of a field's name, with its colon and a comma
          ModelBytes, \* possible lengths of everything that is not evidence or hash
          MaxItems,   \* bound: items of the thread
          MaxText,    \* bound: length of a user message
          MaxPaths    \* bound: paths of one fileChange item

ASSUME CapsuleAssumption ==
  /\ {MAX_CHANGED_FILES, MAX_VERIFICATION_ITEMS, MAX_OBJECTIVE_SCALARS} \subseteq Nat \ {0}
  /\ {MAX_CHECKPOINT_BYTES, HASH_BYTES, FILE_BYTES, CHECK_BYTES, KEY_BYTES} \subseteq Nat
  /\ ModelBytes \subseteq Nat
  /\ {MaxItems, MaxText, MaxPaths} \subseteq Nat

VARIABLES
  items,     \* the items read so far, through the source turn; forgotten after that
  evidence,  \* Evidence: objective (0 for None), changed files, verification
  projected, \* history: the evidence before it was pruned
  model,     \* length of the rest of the capsule
  stage      \* "projecting", "pruning", "built" or "tooLarge"

capsuleVars == <<items, evidence, projected, model, stage>>

Statuses == {"completed", "failed"}
Check == [id : ItemId, status : Statuses]
Evidence == [objective : 0..MAX_OBJECTIVE_SCALARS, files : Seq(Path), checks : Seq(Check)]
NoEvidence == [objective |-> 0, files |-> <<>>, checks |-> <<>>]

\* The items that count; `completed' is about the turn of a compaction.
Message == [type : {"userMessage"}, text : 0..MaxText]
FileChange == [type : {"fileChange"}, paths : Seq(Path)]
Command == [type : {"commandExecution"}, check : Check]
Compaction == [type : {"contextCompaction"}, completed : BOOLEAN]
Item == Message \union FileChange \union Command \union Compaction

\* One item names a path once.
DistinctPaths ==
  {s \in UNION {[1..n -> Path] : n \in 1..MaxPaths} :
     \A i, j \in DOMAIN s : s[i] = s[j] => i = j}

CapsuleTypeOK ==
  /\ items \in Seq(Item)
  /\ {evidence, projected} \subseteq Evidence
  /\ Len(evidence.files) <= MAX_CHANGED_FILES
  /\ Len(evidence.checks) <= MAX_VERIFICATION_ITEMS
  /\ model \in ModelBytes \union {0}
  /\ stage \in {"projecting", "pruning", "built", "tooLarge"}

CapsuleInit ==
  /\ items = <<>>
  /\ evidence = NoEvidence
  /\ projected = NoEvidence
  /\ model = 0
  /\ stage = "projecting"

-----------------------------------------------------------------------------
(* project_current_window_evidence *)

\* The entries of s that are in `wanted', in their order.
Within(s, wanted) ==
  LET kept[n \in 0..Len(s)] ==
        IF n = 0 THEN <<>>
        ELSE IF s[n] \in wanted THEN Append(kept[n - 1], s[n])
        ELSE kept[n - 1]
  IN kept[Len(s)]

LastOf(s, max) == IF Len(s) <= max THEN s ELSE SubSeq(s, Len(s) - max + 1, Len(s))

\* normalize_changed_files and normalize_verification after a push: the latest
\* entry of a kind stays, and of these the last `max'.
PushFile_KeepFirst(files, path) ==
  IF \E i \in DOMAIN files : files[i] = path THEN files
  ELSE LastOf(Append(files, path), MAX_CHANGED_FILES)

PushFile(files, path) ==
  LastOf(Append(Within(files, Path \ {path}), path), MAX_CHANGED_FILES)

Others(check) == {c \in Check : c.id # check.id}

PushCheck(checks, check) ==
  LastOf(Append(Within(checks, Others(check)), check), MAX_VERIFICATION_ITEMS)

PushFiles(files, paths) == FoldLeft(PushFile, files, LastOf(paths, MAX_CHANGED_FILES))

reset_window(e) == [e EXCEPT !.files = <<>>, !.checks = <<>>]

Read(item) ==
  /\ stage = "projecting" /\ Len(items) < MaxItems
  /\ items' = Append(items, item)
  /\ UNCHANGED <<projected, model, stage>>

ReadMessage(text) ==
  /\ Read([type |-> "userMessage", text |-> text])
  /\ evidence' = [evidence EXCEPT
       !.objective = IF text < MAX_OBJECTIVE_SCALARS THEN text ELSE MAX_OBJECTIVE_SCALARS]

ReadFileChange(paths) ==
  /\ Read([type |-> "fileChange", paths |-> paths])
  /\ evidence' = [evidence EXCEPT !.files = PushFiles(@, paths)]

ReadCommand(check) ==
  /\ Read([type |-> "commandExecution", check |-> check])
  /\ evidence' = [evidence EXCEPT !.checks = PushCheck(@, check)]

\* Only the compaction of a completed turn closes the window.
ReadCompaction(completed) ==
  /\ Read([type |-> "contextCompaction", completed |-> completed])
  /\ evidence' = IF completed THEN reset_window(evidence) ELSE evidence

ReadItem ==
  \/ \E text \in 0..MaxText : ReadMessage(text)
  \/ \E paths \in DistinctPaths : ReadFileChange(paths)
  \/ \E check \in Check : ReadCommand(check)
  \/ \E completed \in BOOLEAN : ReadCompaction(completed)

-----------------------------------------------------------------------------
(* Checkpoint::build *)

\* serde_json: an absent objective and an empty list are skipped with their names; a
\* text has quotes, a list has brackets and commas, and the whole has braces and one
\* comma less than fields.
TextBytes(n) == IF n = 0 THEN 0 ELSE KEY_BYTES + n + 2
ListBytes(s, each) ==
  IF s = <<>> THEN 0 ELSE KEY_BYTES + 2 + Len(s) * each + Len(s) - 1
EvidenceBytes(e) ==
  TextBytes(e.objective) + ListBytes(e.files, FILE_BYTES) + ListBytes(e.checks, CHECK_BYTES)
    + IF e = NoEvidence THEN 2 ELSE 1

\* The loop measures with a hash of zeros in the place of the final one.
Measured_Unhashed(e) == model + EvidenceBytes(e)
Measured(e) == model + HASH_BYTES + EvidenceBytes(e)
Sealed(e) == model + HASH_BYTES + EvidenceBytes(e)
TooLong == Measured(evidence) > MAX_CHECKPOINT_BYTES

BeginBuild ==
  /\ stage = "projecting"
  /\ stage' = "pruning"
  /\ projected' = evidence
  /\ model' \in ModelBytes
  /\ items' = <<>>
  /\ UNCHANGED evidence

DropCheck ==
  /\ evidence.checks # <<>>
  /\ evidence' = [evidence EXCEPT !.checks = Tail(@)]

DropFile_First ==
  /\ evidence.files # <<>>
  /\ evidence' = [evidence EXCEPT !.files = Tail(@)]

DropFile ==
  /\ evidence.checks = <<>> /\ evidence.files # <<>>
  /\ evidence' = [evidence EXCEPT !.files = Tail(@)]

TrimObjective ==
  /\ evidence.checks = <<>> /\ evidence.files = <<>> /\ evidence.objective > 0
  /\ evidence' = [evidence EXCEPT !.objective = @ - 1]

Prune ==
  /\ stage = "pruning" /\ TooLong
  /\ DropCheck \/ DropFile \/ TrimObjective
  /\ UNCHANGED <<items, projected, model, stage>>

NothingToPrune ==
  /\ stage = "pruning" /\ TooLong
  /\ evidence = NoEvidence
  /\ stage' = "tooLarge"
  /\ UNCHANGED <<items, evidence, projected, model>>

\* The capsule is hashed and its length looked at once more.
Seal ==
  /\ stage = "pruning" /\ ~TooLong
  /\ stage' = IF Sealed(evidence) > MAX_CHECKPOINT_BYTES THEN "tooLarge" ELSE "built"
  /\ UNCHANGED <<items, evidence, projected, model>>

CapsuleNext == ReadItem \/ BeginBuild \/ Prune \/ NothingToPrune \/ Seal
CapsuleSpec == CapsuleInit /\ [][CapsuleNext]_capsuleVars

-----------------------------------------------------------------------------
(* What the capsule holds *)

\* The items after the last compaction of a completed turn.
Window ==
  LET closed == {0} \union {n \in DOMAIN items : items[n].type = "contextCompaction"
                                                  /\ items[n].completed}
  IN SubSeq(items, Max(closed) + 1, Len(items))

\* s holds the latest entry of each key of `all', in their order, and of these
\* the last `max'.
IsLatest(s, all, Key(_), max) ==
  LET latest == {n \in DOMAIN all : \A m \in DOMAIN all : m > n => Key(all[m]) # Key(all[n])}
      kept == {n \in latest : Cardinality({m \in latest : m > n}) < max}
  IN /\ Len(s) = Cardinality(kept)
     /\ \A n \in kept : s[Cardinality({m \in kept : m <= n})] = all[n]

\* What was read one item at a time, cut and freed of repetitions after each, is
\* what the whole thread says: the last user message, whatever was compacted
\* since, and the files and checks of the present window, each as it was last.
EvidenceIsLatest ==
  LET messages == {n \in DOMAIN items : items[n].type = "userMessage"}
      text == IF messages = {} THEN 0 ELSE items[Max(messages)].text
      Paths(item) == IF item.type = "fileChange" THEN item.paths ELSE <<>>
      Checks(item) == IF item.type = "commandExecution" THEN <<item.check>> ELSE <<>>
      Itself(p) == p
      Id(c) == c.id
  IN stage = "projecting" =>
       /\ evidence.objective = Min({text, MAX_OBJECTIVE_SCALARS})
       /\ IsLatest(evidence.files, FlattenSeq([n \in DOMAIN Window |-> Paths(Window[n])]),
                   Itself, MAX_CHANGED_FILES)
       /\ IsLatest(evidence.checks, FlattenSeq([n \in DOMAIN Window |-> Checks(Window[n])]),
                   Id, MAX_VERIFICATION_ITEMS)

\* s is what is left of t when its oldest entries are gone.
Rest(s, t) == Len(s) <= Len(t) /\ s = SubSeq(t, Len(t) - Len(s) + 1, Len(t))
LastButOne(s, t) == SubSeq(t, Len(t) - Len(s), Len(t))

\* The evidence before its last pruning.
Before(e) ==
  IF e.objective # projected.objective THEN [e EXCEPT !.objective = @ + 1]
  ELSE IF e.files # projected.files THEN [e EXCEPT !.files = LastButOne(@, projected.files)]
  ELSE [e EXCEPT !.checks = LastButOne(@, projected.checks)]

\* A capsule keeps within its limit and gives up no more than it must: first
\* the oldest checks, then the oldest files, then the end of the objective
\* (docs/PROTOCOL_BASELINE.md:167), and with the last thing given up it would not fit.
PrunedLeast ==
  stage = "built" =>
    /\ Sealed(evidence) <= MAX_CHECKPOINT_BYTES
    /\ Rest(evidence.checks, projected.checks)
    /\ Rest(evidence.files, projected.files)
    /\ evidence.objective <= projected.objective
    /\ evidence.files # projected.files => evidence.checks = <<>>
    /\ evidence.objective # projected.objective => evidence.files = <<>>
    /\ evidence # projected => Sealed(Before(evidence)) > MAX_CHECKPOINT_BYTES

\* checkpoint_too_large means that the capsule is too long without any evidence
\* (docs/FAILURE_MODES.md:20), and never that the two measurements differ.
TooLargeMeansModel == stage = "tooLarge" => Sealed(NoEvidence) > MAX_CHECKPOINT_BYTES

=============================================================================
