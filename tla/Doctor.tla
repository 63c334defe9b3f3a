--------------------------------- MODULE Doctor ---------------------------------
(***************************************************************************)
(* The capability record (src/src/doctor.rs): `doctor' probes the running  *)
(* app-server with a disposable thread, merges the result and the user's   *)
(* acknowledgements into a record bound to the build, and schedule is      *)
(* admitted only by a record of its own connection's build                 *)
(* (src/src/orchestrator.rs:113).  Doctors may overlap, and the app-server *)
(* may be replaced by one of another build.                                *)
(*                                                                         *)
(* A build stands for the user agent, the platform and the plugin's        *)
(* version.  A record is that build with the gates that are open.          *)
(***************************************************************************)
EXTENDS Integers, Sequences

CONSTANTS Run,         \* doctors, one run each
          ProbeRuns,   \* bound: those that may be given --probe
          Build,
          Acknowledgements, \* gates the user opens: "reentrant" and "hidden", treated alike
          MaxUpgrades, \* bound: replacements of the app-server
          MaxProbeItems, \* bound: items of a probe turn
          DoctorFaults

\* "lag"      the event buffer overflows
\* "request"  the app-server asks the client something
DoctorFaultKinds == {"lag", "request"}

ASSUME DoctorAssumption ==
  /\ Build \subseteq Nat \ {0} /\ Build # {}
  /\ ProbeRuns \subseteq Run
  /\ MaxUpgrades \in Nat /\ MaxProbeItems \in Nat /\ DoctorFaults \subseteq DoctorFaultKinds

VARIABLES
  build,    \* build of the running app-server
  upgrades, \* how often it was replaced
  record,   \* the capability record on disk
  doctor,   \* run -> the doctor's locals
  probe,    \* run -> its probe turn at the app-server, and the events not yet received
  client, \* the build a schedule is connected to, 0 if none is
  admitted, \* history: builds whose schedules passed require_ready_capabilities
  earned    \* history: build -> gates that a probe or the user has earned it

doctorVars == <<build, upgrades, record, doctor, probe, client, admitted, earned>>

Gate == {"empty"} \union Acknowledgements
Record == [build : {0} \union Build, gates : SUBSET Gate]
NoRecord == [build |-> 0, gates |-> {}]

DoctorSteps == {"idle", "load", "thread", "inject", "turn", "answer", "await", "release",
                "save", "done", "failed"}
Over == {"idle", "done", "failed"}
Events == {"started", "user", "item", "completed", "failed", "request", "closed"}

DoctorLocals == [pc : DoctorSteps, args : SUBSET Gate, build : {0} \union Build,
                 existing : Record, started : BOOLEAN, proved : BOOLEAN]
ProbeLocals == [turn : {"none", "asked", "running", "over"}, items : 0..MaxProbeItems,
                clean : BOOLEAN, cut : BOOLEAN, lagged : BOOLEAN, events : Seq(Events)]

\* A doctor knows its build, and if it is about to save the probe's result, the probe has
\* shown it.
Shown(d) ==
  /\ doctor[d].pc \notin Over => doctor[d].build # 0
  /\ doctor[d].pc = "save" /\ "empty" \in doctor[d].args => doctor[d].proved

\* The types of the variables; no result is saved that the probe has not shown, and no
\* gate is open without a build (src/src/doctor.rs:65-107).
DoctorTypeOK ==
  /\ build \in Build /\ upgrades \in 0..MaxUpgrades /\ record \in Record
  /\ doctor \in [Run -> DoctorLocals] /\ probe \in [Run -> ProbeLocals]
  /\ client \in {0} \union Build /\ admitted \subseteq Build
  /\ earned \in [Build -> SUBSET Gate]
  /\ record.build = 0 => record.gates = {}
  /\ \A d \in Run : Shown(d)

NoDoctor == [pc |-> "idle", args |-> {}, build |-> 0, existing |-> NoRecord,
             started |-> FALSE, proved |-> FALSE]
NoProbe == [turn |-> "none", items |-> 0, clean |-> TRUE, cut |-> FALSE, lagged |-> FALSE,
            events |-> <<>>]

DoctorInit ==
  /\ build \in Build /\ upgrades = 0 /\ record = NoRecord
  /\ doctor = [d \in Run |-> NoDoctor] /\ probe = [d \in Run |-> NoProbe]
  /\ client = 0 /\ admitted = {} /\ earned = [b \in Build |-> {}]

-----------------------------------------------------------------------------
(* The doctor *)

At(d, step) == doctor[d].pc = step
Proceed(d, step) == doctor' = [doctor EXCEPT ![d].pc = step] /\ UNCHANGED probe
\* The run ends, and the client is dropped with what it has received.
End(d, how) ==
  /\ doctor' = [doctor EXCEPT ![d] = [NoDoctor EXCEPT !.pc = how]]
  /\ probe' = [probe EXCEPT ![d] = NoProbe]
OnlyDoctor == UNCHANGED <<build, upgrades, record, client, admitted, earned>>

\* connect and loaded_threads.  "empty" among the arguments is --probe.
Connect(d, args) ==
  /\ At(d, "idle") /\ ("empty" \in args => d \in ProbeRuns)
  /\ doctor' = [doctor EXCEPT ![d].pc = "load", ![d].args = args, ![d].build = build]
  /\ earned' = [earned EXCEPT ![build] = @ \union (args \intersect Acknowledgements)]
  /\ UNCHANGED <<build, upgrades, record, probe, client, admitted>>

LoadRecord(d) ==
  /\ At(d, "load")
  /\ doctor' = [doctor EXCEPT ![d].pc = IF "empty" \in doctor[d].args THEN "thread" ELSE "save",
                              ![d].existing = record]
  /\ UNCHANGED probe /\ OnlyDoctor

\* Subscription and disposable thread; then the checkpoint; then the empty turn.
StartThread(d) == At(d, "thread") /\ ~probe[d].cut /\ Proceed(d, "inject") /\ OnlyDoctor
Inject(d) == At(d, "inject") /\ ~probe[d].cut /\ Proceed(d, "turn") /\ OnlyDoctor
AskTurn(d) ==
  /\ At(d, "turn")
  /\ probe' = [probe EXCEPT ![d].turn = IF @ = "none" /\ ~probe[d].cut THEN "asked" ELSE @]
  /\ doctor' = [doctor EXCEPT ![d].pc = "answer"]
  /\ OnlyDoctor
TurnAnswered(d) ==
  /\ At(d, "answer") /\ probe[d].turn # "none" /\ ~probe[d].cut
  /\ Proceed(d, "await") /\ OnlyDoctor

\* A request fails, or its time limit runs out.  Without its thread the doctor ends at
\* once; with it the thread is released first.
RequestFails(d) ==
  /\ \/ doctor[d].pc \in {"load", "thread"} /\ End(d, "failed")
     \/ doctor[d].pc \in {"inject", "turn", "answer"} /\ Proceed(d, "release")
  /\ OnlyDoctor

\* Defect: events lost to a full buffer are passed over.
Refuted_LagIgnored(d, event) == event \in {"failed", "user", "request", "closed"}

\* What ends the probe as a failure.
Refuted(d, event) ==
  probe[d].lagged \/ event \in {"failed", "user", "request", "closed"}

\* The next event is received.  The turn must have started before it completes.
AwaitTurn(d) ==
  /\ At(d, "await") /\ probe[d].events # <<>>
  /\ LET event == Head(probe[d].events)
         over == Refuted(d, event) \/ event = "completed"
     IN doctor' = [doctor EXCEPT
          ![d].pc = IF over THEN "release" ELSE "await",
          ![d].started = @ \/ event = "started",
          ![d].proved = ~Refuted(d, event) /\ event = "completed" /\ doctor[d].started]
  /\ probe' = [probe EXCEPT ![d].events = Tail(@), ![d].lagged = FALSE]
  /\ OnlyDoctor

\* PROBE_TIMEOUT
ProbeExpires(d) == At(d, "await") /\ Proceed(d, "release") /\ OnlyDoctor

\* Whether or not the thread can be unsubscribed.  A probe that failed ends the run:
\* the record stays as it is.
Release(d) ==
  /\ At(d, "release")
  /\ \/ doctor[d].proved /\ Proceed(d, "save")
     \/ ~doctor[d].proved /\ End(d, "failed")
  /\ OnlyDoctor

\* Defect: only the probe's result is taken over from an earlier record.
Carried_EmptyOnly(d) ==
  IF doctor[d].existing.build = doctor[d].build
  THEN doctor[d].existing.gates \intersect {"empty"} ELSE {}

\* same_build
Carried(d) ==
  IF doctor[d].existing.build = doctor[d].build THEN doctor[d].existing.gates ELSE {}

SaveRecord(d) ==
  /\ At(d, "save")
  /\ record' = IF doctor[d].args = {} THEN record
               ELSE [build |-> doctor[d].build, gates |-> doctor[d].args \union Carried(d)]
  /\ End(d, "done")
  /\ UNCHANGED <<build, upgrades, client, admitted, earned>>

SaveFails(d) ==
  /\ At(d, "save") /\ doctor[d].args # {}
  /\ End(d, "failed") /\ OnlyDoctor

-----------------------------------------------------------------------------
(* schedule *)

AttachSchedule == client = 0 /\ client' = build
          /\ UNCHANGED <<build, upgrades, record, doctor, probe, admitted, earned>>

matches_client == record.build = client /\ record.gates = Gate

\* The record is read while the connection stands; refused, the schedule drops it.
RequireReady ==
  /\ client # 0
  /\ admitted' = IF matches_client THEN admitted \union {client} ELSE admitted
  /\ client' = 0
  /\ UNCHANGED <<build, upgrades, record, doctor, probe, earned>>

-----------------------------------------------------------------------------
(* The app-server *)

Publish(d, event) == [probe[d] EXCEPT !.events = Append(@, event)]
OnlyProbe == UNCHANGED <<build, upgrades, record, doctor, client, admitted>>

ProbeStarts(d) ==
  /\ probe[d].turn = "asked" /\ ~probe[d].cut
  /\ probe' = [probe EXCEPT ![d] = [Publish(d, "started") EXCEPT !.turn = "running"]]
  /\ OnlyProbe /\ UNCHANGED earned

ProbeItem(d, item) ==
  /\ probe[d].turn = "running" /\ ~probe[d].cut /\ probe[d].items < MaxProbeItems
  /\ probe' = [probe EXCEPT ![d] = [Publish(d, item) EXCEPT !.items = @ + 1,
                                                           !.clean = @ /\ item # "user"]]
  /\ OnlyProbe /\ UNCHANGED earned

\* An empty turn that completes without a user message earns the build its gate.
ProbeEnds(d, status) ==
  /\ probe[d].turn = "running" /\ ~probe[d].cut
  /\ probe' = [probe EXCEPT ![d] = [Publish(d, status) EXCEPT !.turn = "over"]]
  /\ earned' = IF status = "completed" /\ probe[d].clean
               THEN [earned EXCEPT ![doctor[d].build] = @ \union {"empty"}] ELSE earned
  /\ OnlyProbe

AskClient(d) ==
  /\ "request" \in DoctorFaults /\ doctor[d].pc \in {"inject", "turn", "answer", "await"}
  /\ ~probe[d].cut /\ \A i \in DOMAIN probe[d].events : probe[d].events[i] # "request"
  /\ probe' = [probe EXCEPT ![d] = Publish(d, "request")]
  /\ OnlyProbe /\ UNCHANGED earned

Lag(d) ==
  /\ "lag" \in DoctorFaults /\ Len(probe[d].events) > 1
  /\ probe' = [probe EXCEPT ![d].events = Tail(@), ![d].lagged = TRUE]
  /\ OnlyProbe /\ UNCHANGED earned

\* One build takes the place of another: every connection ends.
Upgrade(other) ==
  /\ upgrades < MaxUpgrades /\ other # build
  /\ build' = other /\ upgrades' = upgrades + 1
  /\ probe' = [d \in Run |-> IF doctor[d].pc \in Over \/ probe[d].cut THEN probe[d]
                             ELSE [Publish(d, "closed") EXCEPT !.cut = TRUE]]
  /\ UNCHANGED <<record, doctor, client, admitted, earned>>

-----------------------------------------------------------------------------
DoctorStep(d) ==
  \/ LoadRecord(d) \/ StartThread(d) \/ Inject(d) \/ AskTurn(d) \/ TurnAnswered(d)
  \/ RequestFails(d) \/ AwaitTurn(d) \/ ProbeExpires(d) \/ Release(d) \/ SaveRecord(d)
  \/ SaveFails(d)
DoctorNext ==
  \/ \E d \in Run :
       \/ (\E args \in SUBSET Gate : Connect(d, args)) \/ DoctorStep(d)
       \/ ProbeStarts(d) \/ (\E item \in {"user", "item"} : ProbeItem(d, item))
       \/ (\E status \in {"completed", "failed"} : ProbeEnds(d, status))
       \/ AskClient(d) \/ Lag(d)
  \/ AttachSchedule \/ RequireReady \/ \E other \in Build : Upgrade(other)

DoctorSpec == DoctorInit /\ [][DoctorNext]_doctorVars

-----------------------------------------------------------------------------
(* Properties *)

\* A schedule is admitted only on a build whose empty turn has completed without a user
\* message and whose two other gates the user has acknowledged on that build, however
\* doctors overlap, events are lost and the app-server is replaced
\* (docs/FAILURE_MODES.md:8).
AdmittedIsEarned == \A b \in admitted : earned[b] = Gate

\* A doctor closes no gate of its build that it found open: only one that read the
\* record before another saved it may.
GatesKept ==
  [][\A d \in Run :
       /\ doctor[d].existing = record /\ doctor[d].build = record.build
       /\ At(d, "save") /\ At(d, "done")'
       => record.gates \subseteq record'.gates]_doctorVars
=============================================================================
