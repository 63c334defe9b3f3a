# Verification of agentic-compact

agentic-compact is an MCP server for a stock Codex: when the model calls
`request_compaction` in a turn, the server waits for that turn to end, compacts
the thread through a second connection to the shared app-server, injects a
checkpoint ("capsule") and starts an empty continuation turn. Nothing in the
app-server's API is transactional: a user, a second MCP process, a crash, a late
answer or a lost event can come between any two steps. This directory models in
TLA+ that transition, the client it speaks through, the guards and the record that
admit it, the capsule's evidence, and the launcher and installer around it; it checks
them with TLC and proves their safety properties with TLAPS.

Paths are given from `src/`, the root of the repository.

## Inventory

| Component (source) | State | Operations | Interacts with | Hard behaviour | What makes it correct | Status |
|---|---|---|---|---|---|---|
| Orchestrator (`src/orchestrator.rs`) | registry of reserved threads, spawned tasks | `schedule`, preflight, rejection | lease, journal, client, runner | two checks (registry, lock) around awaits; every early return must give back both | one process at a time works on a thread; each compaction is asked for a cooldown after the last | modelled |
| Transition runner (`src/orchestrator/runner.rs`) | the journal in memory, the bound item | `run_transition`, `inject_and_continue`, drains, guards, waits | client, journal | other turns start between any drain, read and request; events lost, repeated, reordered; requests that may or may not have arrived | no foreign turn is compacted or bound, no turn start is swallowed, nothing is sent twice | modelled |
| Recovery (`src/orchestrator/recovery.rs`) | copies of nonterminal journals | one disposition per journal, resume, confirm | lease, journal, client, runner | reads the journals before it owns the locks | no request after a possibly accepted one is repeated | modelled |
| Journal (`src/journal.rs`) | one file per thread | transition table, bindings, `save`, `nonterminal` | all of the above | a save that fails after its rename | the file is ahead of the thread | modelled |
| Lease (`src/lease.rs`) | one file lock per thread | acquire, drop | the kernel | released by death only | exclusive | modelled |
| Snapshot predicates (`src/protocol.rs`) | none | `ensure_exact_last_turn`, compaction and tail predicates | runner, orchestrator | several calls of the tool in one turn; active work | only a quiescent turn is compacted | partly: parsing and size limits left out |
| App-server client (`src/app_server.rs`) | pending map, limiter, broadcast channel, cancellation, two tasks | `request`, `read_request`, `close`, drop | its callers, the app-server | a close races a request; permits; late answers; a stalled socket | every request ends with its own answer or an error, permits and entries come back | modelled |
| Descendant guard (`src/orchestrator.rs:309-361`) | none | lists loaded threads, climbs from each active one | client | pages and turns that change meanwhile, cycles, depth 32 | none that works all the time is missed | modelled |
| Checkpoint and evidence (`src/checkpoint.rs`, `src/protocol.rs:490-566`) | none | projection, normalisation, pruning, sealing | runner | the exact 8 KiB limit; windows and repetitions | the latest evidence, pruned as little as possible | partly: intent and secrets left out |
| Doctor (`src/doctor.rs`) | the capability record | probe, acknowledge, save; the gate of `schedule` | client, orchestrator | doctors that overlap, lost events, a replaced app-server | only a build that earned it is admitted | modelled |
| Launcher, owner record (`src/launcher.rs`, `src/app_server_owner.rs`) | socket, owner file, child | reuse, start, stop | the app-server | two launchers; check, then act; a launcher that dies; a server that ends | while sessions do not overlap: a server in use is not killed, its record stays and is right | modelled |
| Installer (`src/install.rs`, `src/install/plugin_cli.rs`) | binary, tree, configuration, wrapper, state file, codex's plugin list | install, uninstall | file system, codex CLI | a failure between any two steps; edits by the user | nothing of the user's is lost, a second run repairs | modelled |
| Error codes (`src/error.rs`) | none | `is_expected_rejection` | all | | | partly |
| MCP stdio server (`src/mcp.rs`) | none | serial loop over calls | orchestrator | recovery before the first call | one handler at a time | partly |
| Metadata, command line, logging | none | validation, printing | mcp | none | | not modelled |
| `eval/`, `scripts/`, workflows | | measurements, packaging | | not part of the program | | not modelled |
| App-server, TUI, model | external | | | whatever order they like | | only what `src/` relies on |

The hazards of this code, each at its line and with the properties that would
notice it going wrong, are listed in `PROJECT.json`.

## Modules

```
TransitionJournal   ThreadSnapshot
        |                 |
        |            SharedThread
        \-----------/
           Transition
               |
       TransitionProperties ---- TransitionTypeProofs ---- TransitionProofs
               |     \                                            |
          MCTransition  \==> CompactionPromise          TransitionStreamProofs

  RemoteCall <== AppServerClient ---- AppServerClientProofs
                      |
              MCAppServerClient

  DescendantWalk   Capsule               Launcher -- LauncherProofs
     |    \        /    |                Doctor ---- DoctorProofs
     |     MCGuards     |                    \   /
     \-- GuardProofs --/                  MCLauncher

  Installer -- InstallerProofs
```

`<==` and `==>` are refinements; the modules whose names end in `Proofs` are TLAPS's.
`SharedThread` sees requests and reads as `RemoteCall` states them; `Transition` sees the descendant walk, the capability gate and the building of the
capsule as choices among their outcomes, which the small modules then look into.

- **TransitionJournal** (operators): the journal's states and transition table
  (`journal.rs`), the rule from an error code to `Cancelled` or `FailedSafe`, which
  rejections are expected, what recovery does with each state, and whether a stored
  journal admits a new transition. A journal is a record; one number stands for
  receipt and checkpoint id, which the code draws together. The `Attaching` state
  whose first save is not yet followed by the second is kept.
- **ThreadSnapshot** (operators): what the program reads of a thread's history and
  the checks it makes: preflight, the final read of the source turn, the read after
  compaction, the counting of cooldown turns. A turn is a record of who started it,
  its status, its compaction items, the results of its `request_compaction` items and
  what follows them.
- **SharedThread** (state): the thread, the requests on their way, and per process one
  control connection with its ordered event stream and its one outstanding
  request. The server, user and model act at will: they start a turn when none runs,
  end it, start and end compaction items, serve or refuse a request. Faults are a
  constant set, so that each run enables the ones its question needs.
- **Transition** (state): the processes. `pc[p]` is where a process stands;
  `RecoverySteps`, `ScheduleSteps`, `CompactSteps` and `InjectSteps` follow the code
  from await to await. Each await of the code (a save, a request, a wait, a read, a
  drain) is an action of its own, so that everything may happen in between; code
  without an await in between is one action.

  | Code | Actions |
  |---|---|
  | process start, `recover_nonterminal_journals` | `Boot`, `RecoverSkip`, `RecoverBegin`, `RecoverResume`, `RecoverConfirm`, `RecoverFinish` |
  | `Orchestrator::schedule` | `CallRejected`, `ScheduleBegin`, `Prepare`, `Accept`, `AcceptAwait` |
  | `run_transition` | `AwaitSource` ... `SaveCapsule` (`CompactNext`) |
  | `inject_and_continue`, `complete_user_wins` | `DrainInject` ... `SaveCooldown` (`InjectNext`), run by the task and by recovery |
  | time limits of the three waits | `WaitExpires` |
  | end of the spawned task | `TaskFinish`, `Cleanup` |
  | death of the process | `Crash` |

- **TransitionProperties**: its properties. **MCTransition**: symmetry of processes.
- **CompactionPromise** (abstract): what the transitions of one thread promise to user and model,
  with no processes, journal or connections in it. Its state is the latest transition
  and its verdict, what has been asked for and may still come, and what has taken effect.
  `Accept`, `Ask`, `TakeEffect`, `Lose`, `Finish`, `Stop` and `Undo` are all that may happen.
- **RemoteCall** (abstract): what a caller of the client may rely on. A call ends in success or
  failure; the server executes it at most once, and before a success.
- **AppServerClient** (state): `request_with_limit` and `read_request` from the permit to
  the answer, `close`, the drop of the last client, `writer_task` and `reader_task` with
  `handle_incoming` and `fail_pending`, and a server that answers, refuses, emits, pings
  and breaks off as it likes. Closed check, insertion, sending and waiting are steps
  (`Advance(c)`), so is each branch of the tasks' selects.
- **DescendantWalk** (state): `loaded_threads` page by page and the climb of
  `ensure_no_active_descendant` read by read, while the threads start and end turns and
  are unloaded.
- **Capsule** (state): `project_current_window_evidence` item by item, with the truncation
  and normalisation after each, then `Checkpoint::build` pruning entry by entry until
  the sealed capsule fits. A text is its length; the lengths of the encoding follow
  the JSON, fields left out when empty included.
- **Doctor** (state): `run` and `probe_empty_continuation` request by request and event by
  event, the record, `require_ready_capabilities` as `schedule` uses it, and an
  app-server that may be replaced by another build. A build stands for user agent,
  platform and plugin version; the two acknowledgements are treated alike by the code
  and are members of one set here.
- **Launcher** (state): launchers that run `ensure_shared_server`, wait
  for their TUI and run `cleanup_owned_server`; the default socket, the owner record and
  the app-servers. Each access to a file, a socket or a process is an action, so
  `remove_if_pid` is two (`ClearRecord`, `UnlinkDeadRecord`; `RemoveRecord`,
  `UnlinkRecord`) and so are the question and the kill (`server_can_stop`, `Kill`).

  | Code | Actions |
  |---|---|
  | `ensure_shared_server`, a socket exists | `LoadOwner`, `Probe`, `ConnectExisting`, `JudgeOwner` |
  | `ensure_shared_server`, none exists | `JudgeAbsent`, `ClearRecord`, `UnlinkDeadRecord`, `Spawn`, `AwaitChild`, `ReachSocket`, `GiveUp`, `SaveOwner` |
  | `cleanup_owned_server` | `Reap`, `server_can_stop`, `Kill`, `RemoveRecord`, `UnlinkRecord` |
  | external: TUI, app-server, death of a launcher | `Attach`, `TuiExits`, `OrphanExits`, `Unload`, `ServerStarts`, `ServerDies`, `Crash` |

- **Installer** (state): install and uninstall, each check, file and codex command a
  step, with deaths, failing commands that took effect or not, and edits by the user
  between the steps. A file is known by whose content it holds.
- **MCAppServerClient**, **MCGuards**, **MCLauncher** instantiate for TLC. The last two check
  parts that share no state in one run: a behaviour is of one of them while the other
  rests, so each is checked as if alone.

### Abstractions

- Threads share no state but the registry's map, so one thread is modelled, and a
  process is what it does for that thread. The registry admits one reservation per
  thread and process, and the MCP loop is serial and starts after recovery; hence
  one `pc` per process. A second call in the same process while its task runs is
  `CallRejected`.
- The source turn's next call may come at any moment of the task: the handler's
  answer is recorded in the turn that hosts it.
- Notifications are delivered in order. `synced` counts those that have surely
  arrived because a later answer has been read (`NotificationsFirst` of the client is the
  ground for that); a drain (`try_recv` until empty)
  consumes at least these, and any number of the others. So a drain may miss an event
  the server has already sent, as it may in reality.
- The server does not start a compaction or an empty turn while a turn runs: the
  code's own comments and tests take this for granted. It injects at any time.
- The requests on their way form a bag, so a request sent twice would be served twice. A
  request is on its way until served or refused, and outlives its sender only with
  the fault `delay`; the sender may give up before (`timeout`, `disconnect`). This is how a
  request that "failed" takes effect later.
- A save succeeds, fails without effect, or (`unsynced`) fails after the rename.
- In `AppServerClient` a time limit may run out whenever its await has not finished, and a
  select takes any ready branch. The server may stop reading for good. `initialize` is a
  call like any other.
- In `Launcher`, an app-server that finds another one listening on the socket ends, and
  its TUI uses the default socket; both are outside `src/`. A server that has ended is
  still alive for `process_is_alive` until its launcher has asked for its end or has
  ended, since the check looks into `/proc`. `promised` (the server a session was started
  for) is a history variable: no guard reads it.
- In `Installer` one run works at a time; a check and the write that follows it at once
  are one step.
- In `DescendantWalk` a thread's parent never changes.

## Runs

| Run | Module and faults | Bounds | Shows |
|---|---|---|---|
| `restarts` | Transition: crash, delay, timeout, rpc, save, unsynced | one process; 4 turns, 2 transitions, 3 starts | `AtMostOnce`, `Fenced`, `RestartCancelsHarmlessly`, `CooldownEarned`, `KeepsPromise` |
| `streams` | Transition: disconnect, lag, serverRequest, duplicate | one process; 3 turns, 1 transition | `NoTurnSwallowed` |
| `users` | Transition: native, failure, work | one process; 3 turns, 2 calls in a turn, 2 items | `CapsuleBinding`, `SourceQuiescent` |
| `spacing` | Transition: crash, native | one process; 5 turns, 2 transitions, 2 starts, cooldown of 1 | `CompactionsSpaced`, `JournalHistory` |
| `processes` | Transition: crash, timeout | two processes; 3 turns, 2 starts; fair | `LeaseExclusive`, `Settles` |
| `requests` | AppServerClient: overload, break, abandon | one caller with all of them, or two that compete; 2 calls, one a read of 2 attempts, 1 permit, 1 place in the queue, 1 notification; fair | `ClientTypeOK`, `NothingLeaks`, `NobodyForgotten`, `AnswerIsOwn`, `NotificationsFirst`, `ImplementsRemoteCall`, `TornDown`, `EveryCallEnds` |
| `guards` | DescendantWalk: read, cursor; Capsule | four threads in every parent map, depth 2, 3 pages; four items | `IdleMeansNoneWorked`, `ActiveMeansOneWorked`, `AmbiguousMeansLong`, `WalkEnds`; `EvidenceIsLatest`, `PrunedLeast`, `TooLargeMeansModel` |
| `launches` | Launcher: crash, serverDies, stale, save, refused; Doctor: lag, request | three launchers one at a time, or two that overlap; four servers, two attempts; two doctors, two builds, one replacement; fair | `RecordTruthful`, `SessionsRecorded`, `NeverKilledInUse`, `LaunchSettles`; `AdmittedIsEarned`, `GatesKept` |
| `installs` | Installer: crash, cli, other | two versions, two files in the tree, 4 runs, 1 edit | `InstallerTypeOK`, `AllOrNothing`, `InstallComplete`, `UninstallComplete`, `RefusalMeansModified`, `BackupOriginal`, `UserContentKept` |
| `reinjection`, `repeated_start`, `interrupted` | see Findings | | each a statement of the repository, refuted |

Between them the passing runs take every action. `TypeOK`, `WalkTypeOK`, `CapsuleTypeOK`,
`DoctorTypeOK` and `LauncherTypeOK` are in no run: they are proved.

**Why the bounds are enough.** *Transition*: three turns (source, compaction, and the
continuation or a user's turn in its place) are one whole transition with a rival;
four leave room for a rival before or after the compaction, and a fourth turn is
what `restarts` needs for a second transition that starts from the continuation.
`spacing` needs five: a first compaction, by hand or the program's own, a turn of cooldown,
a second source turn and its compaction. The code's `COOLDOWN_TURNS` is 3; it only occurs in
comparisons with a count, and the runs use 1. With 2, `spacing` needs six turns, and with
compactions by hand as well these are too many states; the proof covers every cooldown.
Two calls of
the tool in a turn tell "the first result" from "the only result". Two items tell a
pure compaction from another. Three starts allow a death before and one during recovery.
A transition touches at most one request per method, so two transitions show all
confusion of one transition's requests with another's.

*AppServerClient*: with one permit and one place in the writer's queue both are
exhausted by one request and contended by two; a read of two attempts whose first was
refused or ran out is what lets a late answer meet a newer request. Two competing callers
with refusals and emissions as well are too many states; the proofs below cover them.

*DescendantWalk*: with four threads there are chains of the root, one below it, one just
within and one just beyond a depth of two, and every cycle; the code's bound is 32, and
only the comparison with it matters. Three pages of up to three threads let the bound of
pages be reached. *Capsule*: the limits of two files, one check and two characters are
exceeded by histories of four items; the lengths of the rest of the capsule are chosen
just below, at and above the limit with and without each piece of evidence.

*Launcher*: three launchers are one that starts the server, one that shares it and one
that comes after either has gone; each starts at most one server and Init may hold one
of another codex, so four servers never stop a step. With overlap two launchers, each at any
step while the other is at any of its own, are the smallest case there is; three are too many
states. The code's 100 attempts are two: one that fails and one that is the last. *Doctor*: one that probes and one that acknowledges
meet in all orders, and a doctor can outlive its build; two probes at once are covered by
the proofs. *Installer*: four runs are an install, its upgrade, an uninstall and the
repetition of a failed one; two files are a tree half written.

**CHECK_DEADLOCK FALSE** stands in every configuration because the system may rest:
no turn, call, run or start is left under the bounds, a process that ended is not
started again, or simply nobody acts.

**What the runs do not hold.** `Fenced`, `AtMostOnce` and `KeepsPromise` are about one
process: with two and a restart, finding 1 breaks them. `JournalHistory` is checked without
`unsynced`: a save of `Cooldown` that fails after its rename is followed by one of
`FailedSafe`, which replaces a terminal journal (a hazard, listed). `Settles` is checked
without failing saves: the verdict of a task is saved once, and a failure is only
logged, so the journal then waits for the next start.

`launches` covers both kinds of behaviour, told apart by `overlap`, which never changes: those
in which a session starts or ends only while no other does, though sessions run side by
side, and those in which they start and end as they like. The code enforces nothing, so the
second kind is real. In it only the first half of `NeverKilledInUse` and `LaunchSettles` hold;
the rest says `~overlap`, and does not hold without it:

- a session that begins between `server_can_stop` and `start_kill`
  (`src/launcher.rs:264-265`) loses its server, against the second half of `NeverKilledInUse`;
- of two launchers that start a server each, one may record its own child while it was the
  other's server that answered (`src/launcher.rs:235-249`), against `RecordTruthful`;
- `remove_if_pid` (`src/app_server_owner.rs:111`) compares the pid and then removes whatever
  file is there by then, the record of a server another launcher has just started, against
  `SessionsRecorded`.

With the fault `orphan` (a launcher killed between starting a server and recording it)
`RecordTruthful` does not hold in either kind: the next launcher finds no record and no
socket, starts a server, and may be answered by the orphan.

`installs` leaves out `torn`, finding 3. `RefusalMeansModified` names two refusals for which
nobody has modified anything: of an uninstall without an install state, and of a run over what
an unfinished install of a third version left. `CompactionsSpaced` counts up to the turn
that asked, as the preflight does: a compaction by hand that begins after it, and that neither
the final read nor the drain before the request sees, is followed by the program's own at once. `IdleMeansNoneWorked` speaks of threads that work during
the whole walk: the walk's answer is about no single moment, and a descendant that starts
a turn behind it is not seen, which the code's second walk after the final read narrows
and does not close. `GatesKept` speaks of a doctor whose reading of the record is still
true: two that overlap can lose an acknowledgement, and the user has to repeat it.

**Fairness.** `Transition`'s `FairSpec` adds weak fairness of `Proceed(p)`, the steps a started
handler, task or recovery takes by itself: the runtime polls its tasks, and each
request and wait has a time limit (`WaitExpires`, and `CallBroken` under the fault
`timeout`), so such a step always comes. Nothing is assumed of the server, the user,
the model or whoever starts the process again. Hence the exception in `Settles`: with
a dead process the journal may stay nonterminal, but never the lock held.
`requests` assumes it of the writer, the reader and each caller, which the runtime polls,
and of nothing the server does; hence the exception of a connection stalled for good in
`TornDown` and `EveryCallEnds`. `guards` assumes it of the walk, each of whose
reads has a time limit. `launches` assumes it of `Work(l)`, a launcher's own steps, whose
awaits have a time limit or are for the end of a process it has killed.

**Refinement.** `KeepsPromise` is `CompactionPromise!PromiseSpec` with the verdict read from the
journal on disk (`VerdictOf`), `pending` the requests on their way (`Pending`) and `done` the
turns and injections of the thread that the program asked for (`Effective`). Asking is the
sending of a request, which may be served long after its sender has died; so `TakeEffect` may
come after the verdict, as late as it likes, and `Finish` says that after a cooldown nothing
does. A save that fails after its rename lets a stored verdict be replaced by that of the failed
save; `Revocable` is that fault. Hence a cooldown may turn into a stop, and nothing else
terminal may change. `restarts` checks it and **`PromiseIsKept`** proves it.

`ImplementsRemoteCall` is `RemoteCall!CallSpec` with `executed`, the number
of a call's requests the server has executed, and each call's `outcome`. It is checked
by `requests` and proved.

## Findings

1. **Stale recovery** (`src/orchestrator/recovery.rs:24`, run `reinjection`).
   Recovery reads the journals, then takes each lease, and does not read
   again. A process started while another runs the transition, and which gets the
   lease only after that one has ended or died, acts on the old copy. It can inject
   the same capsule again. By the save at the end of recovery (`recovery.rs:58`) it can also
   replace a terminal journal, a cooldown included, although
   `src/orchestrator/recovery/tests.rs:40` wants terminal ones ignored. Re-reading the
   journal under the lease would close both.
2. **Repeated start** (`src/orchestrator/runner.rs:622`, run `repeated_start`). The
   drain that looks for a rival turn before the continuation does not know the
   bound compaction turn: its repeated start is taken for a user's turn, and the
   transition ends in `Cooldown` with the compaction turn as its anchor. The
   documents call such repetitions idempotent.
3. **Interrupted install** (`src/install.rs:74`, run `interrupted`). The plugin tree's four
   files are written and removed one by one, and a tree with some of them has no hash. A
   run that dies in between makes every later install, and every uninstall once a state
   exists, end with "plugin source was modified by the user", although nobody did.

Observed while modelling, without a run of their own:

- A rival seen first by the final read, not by the event stream, ends the transition as
  `recovery_ambiguous`/`FailedSafe` (`src/protocol.rs:185`); `docs/FAILURE_MODES.md`
  says `race_lost`.
- Reinstalling without the shell alias drops the wrapper from the state and leaves the file,
  which no uninstall removes then (`UninstallComplete` names the exception).
- An uninstall on a fresh home, or after a first install that never finished, is refused with
  the code of a modified configuration (`src/install.rs:148-154`), and what that install has
  written stays.
- An uninstall is refused for ever once the user has deleted the plugin tree; an
  upgrade that failed after its first files makes uninstall and downgrade be refused until
  it is repeated with success.
- `docs/PROTOCOL_BASELINE.md` lists `thread/delete` for the doctor's cleanup; the
  code only unsubscribes (`src/doctor.rs:206`).
- A failed probe leaves an earlier ready record of the same build in place
  (`src/doctor.rs:71`).

## Proofs

Proved by TLAPS for all values of the constants, from the assumptions named in the
modules. A theorem that needs more says so in its hypotheses, and the list below says why.

### The transition

The three modules build on each other: types and lock, then journal, requests and source,
then the event stream and what is bound by it.

- **`LeaseIsExclusive`** (`TransitionTypeProofs`): a process
  holds the lock exactly while it is at a step between taking and releasing it, so
  two never work on the thread at once. `LeaseExclusive` alone is not inductive: an
  update of `pc` says nothing unless `pc` is a function on the processes, so
  `LeaseInv` adds `pc \in [Proc -> Steps]`. Every step then falls into one of four
  kinds, each with a lemma: it leaves lock and counters alone, it moves a holder to
  a holding step, it releases, it takes the free lock.
- **`TypeCorrect`** (`TransitionTypeProofs`): `Spec => []TypeOK`, by `TypeOK` itself as
  the inductive invariant, cut into five parts by the variables they speak of, with a
  lemma for each helper (`Consume`, `Drained`, `Advance`, `Stop`, `RecordCall`, ...) and
  each action. The least element of a set of positions, which
  `drain_started_turn` selects, is where well-foundedness comes in.
- **`JournalCorrect`**, **`JournalFollowsTable`** (`TransitionProofs`): whoever works has the
  file's journal in memory, in a state that fits its step (`StateAt`), and the verdict it
  is about to save follows from that file (`Concludes`). From that comes the action
  property `JournalHistory`: each save takes an edge of the table, and a terminal journal
  gives way only to a new transition. `unsynced` is excluded for the reason given under
  "What the runs do not hold".
- **The hypothesis `[]RecoveryCurrent`**: the journal a recovering process read before it had
  the lock is still the file's when it gets the lock. The code does not ensure it, and
  finding 1 is what happens without. The theorems about the journal, the requests and the
  bindings assume it, for any number of processes; **`RecoveryIsCurrent`** proves it where
  there is one process, and **`AloneIsSafe`** and **`AloneIsBound`** state the results
  without hypothesis for that case, as does **`AloneKeepsPromise`**. The theorems on types,
  lock and event stream do not need it.
- **`JournalFences`**, **`RestartsAreHarmless`**, **`NothingTwice`** (`TransitionProofs`):
  `Fenced`, `RestartCancelsHarmlessly`, `AtMostOnce`. None is inductive by itself.
  `RequestsInv` adds that of each transition and method at most one request is on its way
  and none whose effect is in the thread (`Lone`), that whoever stands before a request
  finds it neither on its way nor in effect (`Unsent`), and that no verdict about to be
  saved blames a restart for a transition that has asked (`Harmless`). A lemma sorts
  all steps of all actors into those that leave requests and effects alone, serve one
  request, lose one, or send one.
- **`SourceIsQuiescent`** (`TransitionProofs`): between the final read of the source turn and
  the request, and ever after, the source turn is as `SourceQuiescent` demands; a turn
  that has ended does not change (`HistoryStays`), and the final read is what has
  seen it end.
- **`StreamCorrect`**, **`NoStartIsMissed`** (`TransitionStreamProofs`): `NoTurnSwallowed` with
  no hypothesis at all. `StreamInv` says, by step, that the start of every turn after the one the
  journal works from is still in the stream, or a loss or the end of the connection
  is and cannot be consumed unnoticed; that starts are in order up to repetitions; and
  that nothing before the subscription is in the stream. The cases are the drains: each
  consumes a prefix, and the lemmas say which prefixes a branch of the code can have
  passed over.
- **`BindingsCorrect`**, **`CapsuleIsBound`**, **`CooldownIsEarned`** (`TransitionStreamProofs`):
  `BindingInv` relates the journal's turns to the thread (`Bindings`), how far process and
  file are to the effects that must be in the thread (`Effects`), and the answers a
  process holds to what they say (`Answers`). The capsule's binding then rests on the
  final read: a turn that directly follows the source, is the only start in the stream and is
  a pure compaction can be no one else's, since the request is still unanswered or was
  answered for it. `CooldownIsEarned` excludes repeated notifications, with which finding 2
  makes it false.
- **`CompactionsAreSpaced`** (`TransitionStreamProofs`), assuming `Prompt`: none of the faults
  `timeout`, `disconnect`, `delay`, with which a request can take effect after its sender has
  given up on it, and so right behind the compaction of the next transition. Crashes, failed
  saves, lost and repeated events, compactions by hand and any number of processes are in.
  `SpacedInv` says that from the preflight until the request is served the program compacts
  nothing at or after the source turn, that the count of the preflight stays true of the
  source turn, and that from the final read on the receipt is in it; the compaction turn, when
  it begins, then has its source turn as the witness `CompactionsSpaced` asks for.
  Two things carry it: a turn before the last one never changes its status or its items, and
  none loses a call (`GoesOn`), and the sender of the one request on its way still waits for
  it and owns the lock (`Waited`, with `LeaseIsExclusive`). That the preflight counts from the
  latest compaction only is enough (`PreflightSpaces`), because fewer turns lie behind a later
  one.

- **`PromiseIsKept`** (`TransitionStreamProofs`): the refinement `KeepsPromise`, for any
  processes, bounds and faults. Each step is mapped by the sorting of `NothingTwice`: a request
  served is `TakeEffect` or `Lose`, a request sent is `Ask`, every other step leaves the thread
  alone, and if it writes the journal its writer owns the lock and touches no request
  (`Writer`). What the bindings lack is the end of a transition, which `Final` adds to the
  invariant: a continuation is asked for only after the injection; `AwaitContinuationStarted`
  on disk means that it has begun; and of a transition in `Cooldown` none is on its way. The last
  holds because the journal gets there from `StartingContinuation` only before the request
  was sent or when the server has answered it, with an error or not (`Cools`,
  `FromStarting`). That `error.rpc_code.is_some()` at `runner.rs:143` tells a refusal from a
  request that may still arrive is what this rests on: without the distinction a continuation
  could begin after the user's turn had been given way to, and `restarts` shows it.
  `InOrder` is what the promise reads off these invariants.

### The client

- **`NothingIsLeaked`**, **`NobodyIsForgotten`**, **`AnswersAreOwn`**,
  **`ClientImplementsRemoteCall`** (`AppServerClientProofs`), for any number of callers,
  calls, attempts, permits and places. Permits are counted by the cardinality of the set
  of callers in flight, so each step is shown to add or remove exactly one caller. That no
  caller is forgotten rests on two things: a request in flight that is not in the map has its
  result, and `fail_pending` empties the map in the step that ends the connection. It is an
  action property about that step, and no more: the code asks whether the connection is
  closed (`app_server.rs:498`) before it waits for a permit and makes the entry (`:513`), so
  a caller may enter the map after that step and is told nothing; `EveryCallEnds` bounds its
  wait, in the run. That answers are one's
  own needs that ids are never used again and that each message in the stream, the queue
  and the writer's hand is about the request of its id. The refinement adds that of a
  call's requests at most the latest has not been refused, so that at most one is ever
  executed.
- **`NotificationsComeFirst`**: when a request has its result, whatever the server sent before
  the answer has been handled, on which `Transition`'s `synced` rests. `OrderInv` counts:
  a function along the messages on their way says how many notifications lie up to each,
  it begins with those handled and ends with those sent, and no answer demands more than
  lie before it.
- **`ClientTypeCorrect`**: the bounds of `ClientTypeOK`, which need that the ids given out are
  as many as the calls and attempts allow.

### The guards and the capsule

- **`WalkTypeCorrect`**, **`IdleIsRight`**, **`ActiveIsRight`** (`GuardProofs`), for
  all threads, parent maps and bounds: a steadily active descendant is on a page still to
  come, to be read, or being climbed from, and the climb stays on its chain, so
  "idle" cannot be answered; "active" is answered only at a child of the root.
- **`AmbiguousIsRight`** (`GuardProofs`): `ClimbInv` has the chain itself as a witness, a function
  from `0..depth` that leads from an active thread to where the climb stands, whose
  members are the threads visited. When the climb gives up, that chain is as long as the
  bound, or closes a cycle without the root.
- **`EvidenceIsLatestAlways`**, **`CapsuleTypeCorrect`** (`GuardProofs`), for any items and
  limits: `EvidenceIsLatest` compares what was kept one item at a time with what the whole
  window says. It is not inductive, because a full list forgets how it was cut. `FollowInv`
  says more: each list has a numbering (`Tracks`) of its entries by the places where they
  were last told, rising, and a latest place it does not number comes before all it does,
  and only if the list is full. A push of an entry keeps that (`TrackPush`); the pushes of
  one item, which `PushFiles` folds, keep it push by push, also where only the last
  `MAX_CHANGED_FILES` paths are pushed, since those alone fill the list
  (`FullListIsNew`); a completed compaction starts it anew. The library's induction
  theorems cannot be used (they take an operator), so where a recursion over a list must be
  followed the lemma takes the least place where the claim would fail (`LeastNumber`, which
  rests on the library's fact that the order of numbers is well-founded). `Within`
  is a recursive function, and the folds of the community modules are opened, for that.
- **`PruningIsLeast`**, **`TooLargeIsRight`** (`GuardProofs`), for all lengths and limits: while
  pruning, what is left is a rest of what was projected in the order of pruning, and the
  capsule did not fit before the last step.

### Doctor, launcher, installer

- **`DoctorTypeCorrect`**, **`OnlyEarnedAdmitted`**, **`GatesAreKept`** (`DoctorProofs`), for any
  doctors, builds and acknowledgements. `EarnedInv` says that the record, a doctor's
  arguments, its copy of the record and its finding are backed by what their build has
  earned, and, the heart of it, that a completion still in the event stream is either
  earned or behind a user message or a loss that the doctor will meet first. One lemma
  covers whatever is appended to a stream, one its consumption.
- **`LauncherTypeCorrect`** (`LauncherProofs`), for any launchers and faults, with overlap or
  without: no variable names a server that was never started. To be inductive it needs that
  a launcher about to try has an attempt left.
- **`NothingInUseIsKilled`** (`LauncherProofs`), without any assumption. With overlap or
  without, only the server behind the socket listens and a thread is loaded only on a server
  that has listened (`ListenInv`), so a child that is alive and not the server that answered
  has no thread. Where sessions do not overlap, `UseInv` adds that a promised server has
  listened, that a session whose server lives has its thread loaded there unless it is
  just starting, and that nobody else is promised the child a launcher may yet end, at the
  kill, when it gives up or cannot save its record. So a server in use is the one
  `server_can_stop` asks, and it is not empty; one lemma shows that no other launcher's step
  spoils that finding before the kill.
- **`RecordIsTruthful`**, **`SessionsAreRecorded`** (`LauncherProofs`), assuming
  no death between starting and recording a server (`orphan`), and about the behaviours
  without overlap, as the properties say. `RecordInv` says what a launcher knows at each
  step: from finding no socket to `Spawn` no server lives; until the
  record is saved its own child is the only one, so it is its child that answered; and
  whenever the recorded process looks alive and matches, there is no other server. Both
  conditions are needed: TLC finds counterexamples without either.
- **`InstallerTypeCorrect`**, **`UsersContentIsKept`** (`InstallerProofs`), for any versions,
  files, runs and faults, `torn` included: a file a run is about to write or remove is not the
  user's, because the check that let it pass came with the same step or is still true
  (`NotTheUsers`).
- **`RefusalsChangeNothing`**, **`InstallsAreComplete`**, **`UninstallsAreComplete`**,
  **`BackupsAreOriginal`** (`InstallerProofs`): `ProgressInv` says how far a run is, step
  by step, as long as the user has not interfered since it began: what it has written or
  removed stands, what it has still to remove is as at the preflight, and up to the last
  check all is as at its start.
- **`RefusalsAreRight`** (`InstallerProofs`), assuming no run ends in the middle of the tree
  (`torn`, finding 3): `AllOurs` says that without edits everything is the installer's and of
  a version in `Known`, the recorded one or one whose install never finished, and that the
  tree is of one such version as a whole. So what a check finds is the run's own version, the
  recorded one, or a third whose install never finished, and only over the last is it refused.

### Only model-checked

Every safety property that a passing run checks is also stated by a theorem. Left to the
runs are:

- `Settles`, `LaunchSettles`, `TornDown`, `EveryCallEnds`, `WalkEnds`: liveness under
  fairness, and with it `ENABLED`, is beyond the installed provers.
- The necessity of the theorems' hypotheses: that a result fails without one is what a
  run with expected violation or a counterexample of TLC shows, and nothing proves.

## Not modelled, and why

Texts, identifiers' formats, JSON, hashes, file modes, logging: no property is about
them, and sizes occur only where the capsule's limit depends on them. Of the client,
connecting, the methods' payloads and the frames' size limits; of the checkpoint, the
validation of the intent and the filter for secrets, pure functions on text that unit
tests reach; of the launcher, the checks of arguments, binary and version that come before
any change of state; of doctor, the report it prints. Metadata validation and the command line are
sequential and keep no state. The evaluation scripts are not part of the program.

## Plan

Done: the transition with its faults and the abstract promise it implements, the client with
its refinement, the guards, the capsule, doctor, launcher and installer, and the proofs
above. The modules left out are those the inventory says are not modelled.
