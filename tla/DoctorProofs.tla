------------------------------ MODULE DoctorProofs ------------------------------
(***************************************************************************)
(* Doctor's types hold, and only a build that earned it is admitted, for   *)
(* any doctors, builds and acknowledgements, and every order in which      *)
(* events arrive, are lost and are followed by another build.              *)
(*                                                                         *)
(* The inductive invariant says whom each claim may rest on: a record, a   *)
(* doctor's arguments, its copy of the record and its finding are backed   *)
(* by what its build has earned; and a completion still in the stream is   *)
(* either earned, or behind a user message or a loss that refutes it.      *)
(***************************************************************************)
EXTENDS Doctor, TLAPS

Watching(d) == doctor[d].pc \notin {"release", "save"}

\* A user message of the probe turn has not been passed over: it is in the stream before
\* the j-th event, or the doctor will learn that something was lost.
Tells(d, j) ==
  probe[d].lagged \/ \E i \in 1..(j - 1) : i \in DOMAIN probe[d].events
                                           /\ probe[d].events[i] = "user"

\* What a doctor holds is earned by its build.
Backed(d) ==
  /\ doctor[d].pc \notin Over =>
       /\ doctor[d].build \in Build
       /\ doctor[d].args \intersect Acknowledgements \subseteq earned[doctor[d].build]
       /\ doctor[d].proved => "empty" \in earned[doctor[d].build]
  /\ doctor[d].proved => ~Watching(d)
  /\ doctor[d].existing.build \in Build =>
       doctor[d].existing.gates \subseteq earned[doctor[d].existing.build]

\* What is in a doctor's stream tells how its probe turn went.
Told(d) ==
  /\ doctor[d].pc \in Over => probe[d].events = <<>>
  /\ probe[d].turn # "none" => doctor[d].pc \in {"answer", "await", "release", "save"}
  /\ probe[d].turn \in {"none", "asked"} => probe[d].clean
  /\ Watching(d) /\ probe[d].turn = "running" /\ ~probe[d].clean =>
       Tells(d, Len(probe[d].events) + 1)
  /\ \A j \in DOMAIN probe[d].events :
       Watching(d) /\ probe[d].events[j] = "completed" =>
         \/ doctor[d].build \in Build /\ "empty" \in earned[doctor[d].build]
         \/ Tells(d, j)

RecordBacked == record.build \in Build => record.gates \subseteq earned[record.build]

EarnedInv ==
  /\ AdmittedIsEarned
  /\ RecordBacked
  /\ \A d \in Run : Backed(d) /\ Told(d)

-----------------------------------------------------------------------------
(* Types *)

LEMMA Resting ==
  /\ NoRecord \in Record
  /\ NoDoctor \in DoctorLocals /\ NoProbe \in ProbeLocals
  /\ \A how \in {"done", "failed"} : [NoDoctor EXCEPT !.pc = how] \in DoctorLocals
<1>1. NoRecord \in Record
  BY DEF NoRecord, Record
<1>2. <<>> \in Seq(Events) /\ 0 \in 0..MaxProbeItems
  BY DoctorAssumption
<1> QED BY <1>1, <1>2 DEF NoDoctor, NoProbe, DoctorLocals, ProbeLocals, DoctorSteps

\* A stream grows and is consumed within its type.
LEMMA Streams ==
  ASSUME NEW s \in Seq(Events)
  PROVE  /\ \A event \in Events : Append(s, event) \in Seq(Events)
         /\ s # <<>> => Head(s) \in Events /\ Tail(s) \in Seq(Events)
OBVIOUS

LEMMA DoctorTypeInit == DoctorInit => DoctorTypeOK
<1> SUFFICES ASSUME DoctorInit PROVE DoctorTypeOK
  OBVIOUS
<1>1. record.build = 0 /\ record.gates = {} /\ 0 \in 0..MaxUpgrades
  BY DoctorAssumption DEF DoctorInit, NoRecord
<1>2. \A d \in Run : Shown(d)
  BY DEF DoctorInit, NoDoctor, Shown, Over
<1> QED BY <1>1, <1>2, Resting DEF DoctorInit, DoctorTypeOK

\* What a step of one doctor has to show.
LEMMA DoctorTypeFrame ==
  ASSUME DoctorTypeOK, NEW d \in Run,
         build' = build, upgrades' = upgrades, client' = client, admitted' = admitted,
         record' \in Record, record'.build = 0 => record'.gates = {},
         earned' \in [Build -> SUBSET Gate],
         NEW l \in DoctorLocals, doctor' = [doctor EXCEPT ![d] = l],
         NEW p \in ProbeLocals, probe' = [probe EXCEPT ![d] = p],
         l.pc \notin Over => l.build # 0,
         l.pc = "save" /\ "empty" \in l.args => l.proved
  PROVE  DoctorTypeOK'
<1>1. \A e \in Run : Shown(e)'
  BY DEF DoctorTypeOK, Shown
<1> QED BY <1>1 DEF DoctorTypeOK

\* A step of a doctor: its locals and its stream stay within their types.
LEMMA DoctorStepType ==
  ASSUME DoctorTypeOK, NEW d \in Run,
         (\E args \in SUBSET Gate : Connect(d, args)) \/ DoctorStep(d)
  PROVE  DoctorTypeOK'
<1> USE DEF At, OnlyDoctor, Proceed, DoctorTypeOK, DoctorLocals, ProbeLocals
<1>1. /\ doctor[d] \in DoctorLocals /\ probe[d] \in ProbeLocals
      /\ doctor[d].pc \notin Over => doctor[d].build # 0
  BY DEF Shown
<1>2. ASSUME NEW args \in SUBSET Gate, Connect(d, args)
      PROVE  DoctorTypeOK'
  <2> DEFINE l == [doctor[d] EXCEPT !.pc = "load", !.args = args, !.build = build]
  <2>1. l \in DoctorLocals /\ l.pc # "save" /\ l.build # 0
    BY <1>1, DoctorAssumption DEF DoctorSteps
  <2>2. doctor' = [doctor EXCEPT ![d] = l]
    BY <1>2 DEF Connect
  <2>3. probe' = [probe EXCEPT ![d] = probe[d]]
    BY <1>2 DEF Connect
  <2>4. earned' \in [Build -> SUBSET Gate]
    BY <1>2 DEF Connect, Gate
  <2>5. UNCHANGED <<build, upgrades, record, client, admitted>>
    BY <1>2 DEF Connect
  <2> HIDE DEF l
  <2> QED BY <1>1, <2>1, <2>2, <2>3, <2>4, <2>5, DoctorTypeFrame
<1>3. ASSUME LoadRecord(d) PROVE DoctorTypeOK'
  <2> DEFINE l == [doctor[d] EXCEPT
                     !.pc = IF "empty" \in doctor[d].args THEN "thread" ELSE "save",
                     !.existing = record]
  <2>1. l \in DoctorLocals
    BY <1>1 DEF DoctorSteps
  <2>2. doctor' = [doctor EXCEPT ![d] = l] /\ probe' = [probe EXCEPT ![d] = probe[d]]
    BY <1>3 DEF LoadRecord
  <2>3. (l.pc = "save" /\ "empty" \in l.args => l.proved) /\ l.build # 0
    BY <1>1, <1>3 DEF DoctorSteps, LoadRecord, Over
  <2>4. UNCHANGED <<build, upgrades, record, client, admitted, earned>>
    BY <1>3 DEF LoadRecord
  <2> HIDE DEF l
  <2> QED BY <1>1, <2>1, <2>2, <2>3, <2>4, DoctorTypeFrame
<1>4. ASSUME NEW step \in DoctorSteps, doctor[d].pc \notin Over, Proceed(d, step), OnlyDoctor,
             step = "save" => doctor[d].proved
      PROVE  DoctorTypeOK'
  <2> DEFINE l == [doctor[d] EXCEPT !.pc = step]
  <2>1. l \in DoctorLocals /\ (l.pc = "save" /\ "empty" \in l.args => l.proved)
        /\ l.build # 0
    BY <1>1, <1>4
  <2>2. doctor' = [doctor EXCEPT ![d] = l] /\ probe' = [probe EXCEPT ![d] = probe[d]]
    BY <1>4
  <2>3. UNCHANGED <<build, upgrades, record, client, admitted, earned>>
    BY <1>4
  <2> HIDE DEF l
  <2> QED BY <1>1, <2>1, <2>2, <2>3, DoctorTypeFrame
<1>5. ASSUME NEW how \in {"done", "failed"}, End(d, how),
             UNCHANGED <<build, upgrades, client, admitted, earned>>,
             record' \in Record, record'.build = 0 => record'.gates = {}
      PROVE  DoctorTypeOK'
  <2> DEFINE l == [NoDoctor EXCEPT !.pc = how]
  <2>1. l \in DoctorLocals /\ NoProbe \in ProbeLocals /\ l.pc \in Over /\ l.pc # "save"
    BY Resting DEF NoDoctor, Over
  <2>2. doctor' = [doctor EXCEPT ![d] = l] /\ probe' = [probe EXCEPT ![d] = NoProbe]
    BY <1>5 DEF End
  <2> QED BY <1>5, <2>1, <2>2, DoctorTypeFrame
<1>6. ASSUME AskTurn(d) PROVE DoctorTypeOK'
  <2> DEFINE l == [doctor[d] EXCEPT !.pc = "answer"]
  <2> DEFINE p == [probe[d] EXCEPT !.turn = IF @ = "none" /\ ~probe[d].cut THEN "asked" ELSE @]
  <2>1. l \in DoctorLocals /\ p \in ProbeLocals /\ l.pc # "save" /\ l.build # 0
    BY <1>1, <1>6 DEF DoctorSteps, AskTurn, Over
  <2>2. doctor' = [doctor EXCEPT ![d] = l] /\ probe' = [probe EXCEPT ![d] = p]
    BY <1>6 DEF AskTurn
  <2>3. UNCHANGED <<build, upgrades, record, client, admitted, earned>>
    BY <1>6 DEF AskTurn
  <2> HIDE DEF l, p
  <2> QED BY <2>1, <2>2, <2>3, DoctorTypeFrame
<1>7. ASSUME AwaitTurn(d) PROVE DoctorTypeOK'
  <2> DEFINE event == Head(probe[d].events)
             over == Refuted(d, event) \/ event = "completed"
             l == [doctor[d] EXCEPT
                     !.pc = IF over THEN "release" ELSE "await",
                     !.started = @ \/ event = "started",
                     !.proved = ~Refuted(d, event) /\ event = "completed" /\ doctor[d].started]
             p == [probe[d] EXCEPT !.events = Tail(@), !.lagged = FALSE]
  <2>1. Tail(probe[d].events) \in Seq(Events)
    BY <1>1, <1>7, Streams DEF AwaitTurn
  <2>2. p \in ProbeLocals
    BY <1>1, <2>1
  <2>3. l \in DoctorLocals /\ l.pc # "save" /\ l.build # 0
    <3> HIDE DEF over
    <3>1. Refuted(d, event) \in BOOLEAN
      BY <1>1 DEF Refuted
    <3> QED BY <1>1, <1>7, <3>1 DEF DoctorSteps, AwaitTurn, Over
  <2>4. doctor' = [doctor EXCEPT ![d] = l] /\ probe' = [probe EXCEPT ![d] = p]
    BY <1>7 DEF AwaitTurn
  <2>5. UNCHANGED <<build, upgrades, record, client, admitted, earned>>
    BY <1>7 DEF AwaitTurn
  <2> HIDE DEF l, p
  <2> QED BY <2>2, <2>3, <2>4, <2>5, DoctorTypeFrame
<1>8. ASSUME SaveRecord(d) PROVE DoctorTypeOK'
  <2>1. Carried(d) \subseteq Gate
    BY <1>1 DEF Carried, Record
  <2>2. record' \in Record
    BY <1>1, <1>8, <2>1 DEF SaveRecord, Record
  <2>3. record'.build = 0 => record'.gates = {}
    BY <1>1, <1>8 DEF SaveRecord, Over
  <2> QED BY <1>5, <1>8, <2>2, <2>3 DEF SaveRecord
<1>9. ASSUME StartThread(d) \/ Inject(d) \/ TurnAnswered(d) \/ ProbeExpires(d)
      PROVE  DoctorTypeOK'
  <2>1. doctor[d].pc \notin Over
    BY <1>9 DEF StartThread, Inject, TurnAnswered, ProbeExpires, Over
  <2>2. /\ OnlyDoctor
        /\ \E step \in DoctorSteps \ {"save"} : Proceed(d, step)
    BY <1>9 DEF StartThread, Inject, TurnAnswered, ProbeExpires, DoctorSteps
  <2> QED BY <1>4, <2>1, <2>2
<1>10. ASSUME RequestFails(d) PROVE DoctorTypeOK'
  <2>1. CASE doctor[d].pc \in {"load", "thread"}
    <3>1. End(d, "failed") /\ OnlyDoctor
      BY <1>10, <2>1 DEF RequestFails
    <3> QED BY <1>5, <3>1
  <2>2. CASE doctor[d].pc \notin {"load", "thread"}
    <3>1. Proceed(d, "release") /\ OnlyDoctor /\ doctor[d].pc \notin Over
      BY <1>10, <2>2 DEF RequestFails, Over
    <3> QED BY <1>4, <3>1 DEF DoctorSteps
  <2> QED BY <2>1, <2>2
<1>11. ASSUME Release(d) PROVE DoctorTypeOK'
  <2>1. CASE doctor[d].proved
    <3>1. Proceed(d, "save") /\ OnlyDoctor /\ doctor[d].pc \notin Over
      BY <1>11, <2>1 DEF Release, Over
    <3> QED BY <1>4, <2>1, <3>1 DEF DoctorSteps
  <2>2. CASE ~doctor[d].proved
    <3>1. End(d, "failed") /\ OnlyDoctor
      BY <1>11, <2>2 DEF Release
    <3> QED BY <1>5, <3>1
  <2> QED BY <2>1, <2>2
<1>12. ASSUME SaveFails(d) PROVE DoctorTypeOK'
  <2>1. End(d, "failed") /\ OnlyDoctor
    BY <1>12 DEF SaveFails
  <2> QED BY <1>5, <2>1
<1> QED BY <1>2, <1>3, <1>6, <1>7, <1>8, <1>9, <1>10, <1>11, <1>12 DEF DoctorStep

\* A step of the app-server or of schedule.
LEMMA OutsideType ==
  ASSUME DoctorTypeOK,
         \/ \E d \in Run :
              \/ ProbeStarts(d) \/ (\E item \in {"user", "item"} : ProbeItem(d, item))
              \/ (\E status \in {"completed", "failed"} : ProbeEnds(d, status))
              \/ AskClient(d) \/ Lag(d)
         \/ AttachSchedule \/ RequireReady \/ \E other \in Build : Upgrade(other)
  PROVE  DoctorTypeOK'
<1> USE DEF DoctorTypeOK, ProbeLocals, Events, Publish, OnlyProbe
<1>1. ASSUME NEW d \in Run, OnlyProbe, earned' \in [Build -> SUBSET Gate],
             NEW p \in ProbeLocals, probe' = [probe EXCEPT ![d] = p]
      PROVE  DoctorTypeOK'
  <2>1. \A e \in Run : Shown(e)'
    BY <1>1 DEF Shown
  <2> QED BY <1>1, <2>1
<1>2. ASSUME NEW d \in Run, ProbeStarts(d) PROVE DoctorTypeOK'
  <2> DEFINE p == [Publish(d, "started") EXCEPT !.turn = "running"]
  <2>1. p \in ProbeLocals /\ probe' = [probe EXCEPT ![d] = p]
    BY <1>2, Streams DEF ProbeStarts
  <2> HIDE DEF p
  <2> QED BY <1>1, <1>2, <2>1 DEF ProbeStarts
<1>3. ASSUME NEW d \in Run, NEW item \in {"user", "item"}, ProbeItem(d, item)
      PROVE  DoctorTypeOK'
  <2> DEFINE p == [Publish(d, item) EXCEPT !.items = @ + 1, !.clean = @ /\ item # "user"]
  <2>1. p \in ProbeLocals
    <3>1. probe[d] \in ProbeLocals /\ probe[d].items < MaxProbeItems
      BY <1>3 DEF ProbeItem
    <3>2. probe[d].items + 1 \in 0..MaxProbeItems
      BY <3>1, DoctorAssumption
    <3>3. Append(probe[d].events, item) \in Seq(Events)
      BY <3>1, Streams
    <3> QED BY <3>1, <3>2, <3>3
  <2>2. probe' = [probe EXCEPT ![d] = p]
    BY <1>3 DEF ProbeItem
  <2> HIDE DEF p
  <2> QED BY <1>1, <1>3, <2>1, <2>2 DEF ProbeItem
<1>4. ASSUME NEW d \in Run, NEW status \in {"completed", "failed"}, ProbeEnds(d, status)
      PROVE  DoctorTypeOK'
  <2> DEFINE p == [Publish(d, status) EXCEPT !.turn = "over"]
  <2>1. p \in ProbeLocals /\ probe' = [probe EXCEPT ![d] = p]
    BY <1>4, Streams DEF ProbeEnds
  <2>2. earned' \in [Build -> SUBSET Gate]
    BY <1>4 DEF ProbeEnds, Gate
  <2> HIDE DEF p
  <2> QED BY <1>1, <1>4, <2>1, <2>2 DEF ProbeEnds
<1>5. ASSUME NEW d \in Run, AskClient(d) PROVE DoctorTypeOK'
  <2> DEFINE p == Publish(d, "request")
  <2>1. p \in ProbeLocals /\ probe' = [probe EXCEPT ![d] = p]
    BY <1>5, Streams DEF AskClient
  <2> HIDE DEF p
  <2> QED BY <1>1, <1>5, <2>1 DEF AskClient
<1>6. ASSUME NEW d \in Run, Lag(d) PROVE DoctorTypeOK'
  <2> DEFINE p == [probe[d] EXCEPT !.events = Tail(@), !.lagged = TRUE]
  <2>1. p \in ProbeLocals
    <3>1. probe[d] \in ProbeLocals /\ probe[d].events # <<>>
      BY <1>6 DEF Lag
    <3>2. Tail(probe[d].events) \in Seq(Events)
      BY <3>1, Streams
    <3> QED BY <3>1, <3>2
  <2>2. probe' = [probe EXCEPT ![d] = p]
    BY <1>6 DEF Lag
  <2> HIDE DEF p
  <2> QED BY <1>1, <1>6, <2>1, <2>2 DEF Lag
<1>7. ASSUME AttachSchedule PROVE DoctorTypeOK'
  BY <1>7 DEF AttachSchedule, Shown
<1>8. ASSUME RequireReady PROVE DoctorTypeOK'
  BY <1>8 DEF RequireReady, Shown
<1>9. ASSUME NEW other \in Build, Upgrade(other) PROVE DoctorTypeOK'
  <2>1. upgrades' \in 0..MaxUpgrades
    <3>1. upgrades \in 0..MaxUpgrades /\ upgrades < MaxUpgrades /\ upgrades' = upgrades + 1
      BY <1>9 DEF Upgrade
    <3> QED BY <3>1, DoctorAssumption
  <2>2. probe' \in [Run -> ProbeLocals]
    <3>1. \A e \in Run : probe[e] \in ProbeLocals
                         /\ Append(probe[e].events, "closed") \in Seq(Events)
      BY Streams
    <3>2. \A e \in Run : [Publish(e, "closed") EXCEPT !.cut = TRUE] \in ProbeLocals
      BY <3>1
    <3> QED BY <1>9, <3>1, <3>2 DEF Upgrade
  <2>3. \A e \in Run : Shown(e)'
    BY <1>9 DEF Upgrade, Shown
  <2> QED BY <1>9, <2>1, <2>2, <2>3 DEF Upgrade
<1> QED BY <1>2, <1>3, <1>4, <1>5, <1>6, <1>7, <1>8, <1>9

LEMMA DoctorTypeNext == DoctorTypeOK /\ [DoctorNext]_doctorVars => DoctorTypeOK'
<1> SUFFICES ASSUME DoctorTypeOK, [DoctorNext]_doctorVars PROVE DoctorTypeOK'
  OBVIOUS
<1>1. CASE UNCHANGED doctorVars
  BY <1>1 DEF doctorVars, DoctorTypeOK, Shown
<1>2. CASE DoctorNext
  BY <1>2, DoctorStepType, OutsideType DEF DoctorNext
<1> QED BY <1>1, <1>2

\* The types hold for every number of doctors, builds and acknowledgements.
THEOREM DoctorTypeCorrect == DoctorSpec => []DoctorTypeOK
BY DoctorTypeInit, DoctorTypeNext, PTL DEF DoctorSpec

-----------------------------------------------------------------------------
(* What is earned *)

Grows == \A b \in Build : earned[b] \subseteq earned'[b]

\* What a run does not touch stays backed and told.
LEMMA Untouched ==
  ASSUME NEW d \in Run, Backed(d), Told(d), Grows,
         doctor'[d] = doctor[d], probe'[d] = probe[d]
  PROVE  Backed(d)' /\ Told(d)'
<1>1. Backed(d)'
  BY DEF Backed, Watching, Grows
<1>2. Told(d)'
  BY DEF Told, Tells, Watching, Grows
<1> QED BY <1>1, <1>2

LEMMA EarnedInit == DoctorInit => EarnedInv
<1> SUFFICES ASSUME DoctorInit PROVE EarnedInv
  OBVIOUS
<1>1. AdmittedIsEarned /\ RecordBacked
  BY DoctorAssumption DEF DoctorInit, AdmittedIsEarned, RecordBacked, NoRecord
<1>2. ASSUME NEW d \in Run PROVE Backed(d) /\ Told(d)
  <2>1. doctor[d] = NoDoctor /\ probe[d] = NoProbe
    BY DEF DoctorInit
  <2> QED BY <2>1, DoctorAssumption DEF NoDoctor, NoProbe, NoRecord, Backed, Told, Watching, Over
<1> QED BY <1>1, <1>2 DEF EarnedInv

\* A doctor that goes on without hearing anything, and does not start to listen again.
LEMMA ProceedBacked ==
  ASSUME DoctorTypeOK, NEW d \in Run, Backed(d), Told(d), UNCHANGED earned,
         doctor[d].pc \notin Over, NEW step \in DoctorSteps \ Over, Proceed(d, step),
         probe[d].turn # "none" => step \in {"answer", "await", "release", "save"},
         step \in {"release", "save"} \/ Watching(d)
  PROVE  Backed(d)' /\ Told(d)'
<1>1. doctor'[d] = [doctor[d] EXCEPT !.pc = step] /\ probe'[d] = probe[d] /\ doctor[d] \in DoctorLocals
  BY DEF Proceed, DoctorTypeOK
<1>2. Backed(d)'
  BY <1>1 DEF Backed, Watching, DoctorLocals
<1>3. Told(d)'
  BY <1>1 DEF Told, Tells, Watching, DoctorLocals
<1> QED BY <1>2, <1>3

LEMMA EndBacked ==
  ASSUME DoctorTypeOK, NEW d \in Run, NEW how \in {"done", "failed"}, End(d, how)
  PROVE  Backed(d)' /\ Told(d)'
<1>1. doctor'[d] = [NoDoctor EXCEPT !.pc = how] /\ probe'[d] = NoProbe
  BY DEF End, DoctorTypeOK
<1>2. /\ doctor'[d].pc \in Over /\ doctor'[d].existing = NoRecord
      /\ probe'[d].turn = "none" /\ probe'[d].clean /\ probe'[d].events = <<>>
  BY <1>1 DEF NoDoctor, NoProbe, Over
<1>3. Backed(d)'
  BY <1>1, <1>2, DoctorAssumption DEF Backed, NoRecord, NoDoctor
<1>4. Told(d)'
  BY <1>2 DEF Told
<1> QED BY <1>3, <1>4

\* Another event: what was told stays so, and a completion has to be justified.
LEMMA PublishTold ==
  ASSUME DoctorTypeOK, NEW d \in Run, Told(d), Grows, doctor'[d] = doctor[d],
         doctor[d].pc \notin Over, NEW event \in Events,
         probe'[d].events = Append(probe[d].events, event),
         probe'[d].lagged = probe[d].lagged,
         probe'[d].turn # "none" => probe[d].turn # "none",
         probe'[d].turn \in {"none", "asked"} => probe'[d].clean,
         probe'[d].turn = "running" /\ ~probe'[d].clean =>
           event = "user" \/ (probe[d].turn = "running" /\ ~probe[d].clean),
         Watching(d) /\ event = "completed" =>
           \/ doctor[d].build \in Build /\ "empty" \in earned'[doctor[d].build]
           \/ Tells(d, Len(probe[d].events) + 1)
  PROVE  Told(d)'
<1> DEFINE n == Len(probe[d].events)
<1>1. /\ probe[d].events \in Seq(Events) /\ n \in Nat
      /\ DOMAIN probe[d].events = 1..n /\ DOMAIN probe'[d].events = 1..(n + 1)
      /\ Len(probe'[d].events) = n + 1
      /\ \A i \in 1..n : probe'[d].events[i] = probe[d].events[i]
      /\ probe'[d].events[n + 1] = event
  BY DEF DoctorTypeOK, ProbeLocals
<1>2. ASSUME NEW j \in 1..(n + 1), Tells(d, j) PROVE Tells(d, j)'
  BY <1>1, <1>2 DEF Tells
<1>3. Watching(d)' <=> Watching(d)
  BY DEF Watching
<1>4. ASSUME Watching(d), probe'[d].turn = "running", ~probe'[d].clean
      PROVE  Tells(d, Len(probe[d].events) + 1)'
  <2>1. CASE event = "user"
    BY <1>1, <2>1 DEF Tells
  <2>2. CASE probe[d].turn = "running" /\ ~probe[d].clean
    <3>1. Tells(d, n + 1)
      BY <1>4, <2>2 DEF Told
    <3> QED BY <1>1, <3>1 DEF Tells
  <2> QED BY <1>4, <2>1, <2>2
<1>5. ASSUME NEW j \in 1..(n + 1), Watching(d), probe'[d].events[j] = "completed"
      PROVE  \/ doctor[d].build \in Build /\ "empty" \in earned'[doctor[d].build]
             \/ Tells(d, j)'
  <2>1. CASE j = n + 1
    BY <1>1, <1>2, <1>5, <2>1
  <2>2. CASE j \in 1..n
    BY <1>1, <1>2, <1>5, <2>2 DEF Told, Grows
  <2> QED BY <1>1, <2>1, <2>2
<1>6. /\ probe'[d].turn # "none" => doctor'[d].pc \in {"answer", "await", "release", "save"}
      /\ Len(probe[d].events)' = n + 1
  BY <1>1 DEF Told
<1> QED BY <1>1, <1>3, <1>4, <1>5, <1>6 DEF Told

\* The head of the stream leaves it.
LEMMA ConsumeTells ==
  ASSUME DoctorTypeOK, NEW d \in Run, probe[d].events # <<>>, Head(probe[d].events) # "user",
         ~probe[d].lagged, probe'[d].events = Tail(probe[d].events)
  PROVE  /\ Len(probe'[d].events) + 1 = Len(probe[d].events)
         /\ \A j \in DOMAIN probe'[d].events :
              /\ j + 1 \in DOMAIN probe[d].events
              /\ probe'[d].events[j] = probe[d].events[j + 1]
         /\ \A j \in 1..(Len(probe[d].events) + 1) : Tells(d, j + 1) => Tells(d, j)'
<1> DEFINE s == probe[d].events
<1>1. /\ s \in Seq(Events) /\ Len(s) \in Nat /\ Len(s) > 0
      /\ DOMAIN s = 1..Len(s) /\ s[1] # "user"
      /\ probe'[d].events \in Seq(Events) /\ Len(probe'[d].events) = Len(s) - 1
      /\ DOMAIN probe'[d].events = 1..(Len(s) - 1)
      /\ \A i \in 1..(Len(s) - 1) : probe'[d].events[i] = s[i + 1]
  BY DEF DoctorTypeOK, ProbeLocals
<1>2. ASSUME NEW j \in 1..(Len(s) + 1), Tells(d, j + 1) PROVE Tells(d, j)'
  <2>1. PICK i \in 1..j : i \in DOMAIN s /\ s[i] = "user"
    BY <1>1, <1>2 DEF Tells
  <2>2. i # 1 /\ i - 1 \in 1..(Len(s) - 1) /\ i - 1 \in 1..(j - 1)
    BY <1>1, <2>1
  <2>3. probe'[d].events[i - 1] = "user"
    BY <1>1, <2>1, <2>2
  <2> QED BY <1>1, <2>2, <2>3 DEF Tells
<1> QED BY <1>1, <1>2

LEMMA AwaitTurnBacked ==
  ASSUME DoctorTypeOK, NEW d \in Run, Backed(d), Told(d), AwaitTurn(d)
  PROVE  Backed(d)' /\ Told(d)'
<1> DEFINE event == Head(probe[d].events)
           over == Refuted(d, event) \/ event = "completed"
<1>1. /\ doctor[d].pc = "await" /\ probe[d].events # <<>> /\ UNCHANGED earned
      /\ doctor[d] \in DoctorLocals /\ probe[d] \in ProbeLocals
  BY DEF AwaitTurn, At, OnlyDoctor, DoctorTypeOK
<1>2. /\ doctor'[d].pc = IF over THEN "release" ELSE "await"
      /\ doctor'[d].proved = (~Refuted(d, event) /\ event = "completed" /\ doctor[d].started)
      /\ doctor'[d].args = doctor[d].args /\ doctor'[d].build = doctor[d].build
      /\ doctor'[d].existing = doctor[d].existing
  BY <1>1 DEF AwaitTurn, DoctorTypeOK, DoctorLocals
<1>3. /\ probe'[d].events = Tail(probe[d].events) /\ ~probe'[d].lagged
      /\ probe'[d].turn = probe[d].turn /\ probe'[d].clean = probe[d].clean
  BY <1>1 DEF AwaitTurn, DoctorTypeOK, ProbeLocals
<1>4. doctor[d].pc \notin Over /\ doctor'[d].pc \notin Over /\ Watching(d)
  BY <1>1, <1>2 DEF Over, Watching
<1>5. probe[d].events[1] = event /\ 1 \in DOMAIN probe[d].events
  BY <1>1 DEF ProbeLocals
<1>6. ASSUME ~Refuted(d, event), event = "completed"
      PROVE  "empty" \in earned[doctor[d].build]
  <2>1. ~Tells(d, 1)
    BY <1>6 DEF Tells, Refuted
  <2> QED BY <1>4, <1>5, <1>6, <2>1 DEF Told
<1>7. Backed(d)'
  BY <1>1, <1>2, <1>4, <1>6 DEF Backed, Watching
<1>8. ASSUME Watching(d)'
      PROVE  ~probe[d].lagged /\ event # "user"
  BY <1>2, <1>8 DEF Watching, Refuted
<1>9. ASSUME Watching(d)', probe'[d].turn = "running", ~probe'[d].clean
      PROVE  Tells(d, Len(probe[d].events) + 1)'
  <2>1. PICK n \in Nat : n = Len(probe[d].events) /\ n > 0
    BY <1>1 DEF ProbeLocals
  <2>2. Tells(d, n + 1)
    BY <1>3, <1>4, <1>9, <2>1 DEF Told
  <2>3. Tells(d, n)' /\ Len(probe'[d].events) + 1 = n
    BY <1>1, <1>3, <1>8, <1>9, <2>1, <2>2, ConsumeTells
  <2> QED BY <2>3
<1>10. ASSUME NEW j \in DOMAIN probe'[d].events, Watching(d)', probe'[d].events[j] = "completed"
       PROVE  "empty" \in earned[doctor[d].build] \/ Tells(d, j)'
  <2>1. /\ j + 1 \in DOMAIN probe[d].events /\ probe[d].events[j + 1] = "completed"
        /\ j \in 1..(Len(probe[d].events) + 1)
        /\ Tells(d, j + 1) => Tells(d, j)'
    <3>1. DOMAIN probe'[d].events = 1..(Len(probe[d].events) - 1) /\ Len(probe[d].events) \in Nat
      BY <1>1, <1>3 DEF ProbeLocals
    <3>2. j \in 1..(Len(probe[d].events) + 1)
      BY <3>1
    <3> QED BY <1>1, <1>3, <1>8, <1>10, <3>2, ConsumeTells
  <2> QED BY <1>4, <2>1 DEF Told
<1>11. Told(d)'
  <2>1. doctor'[d].build \in Build
    BY <1>2, <1>4 DEF Backed
  <2>2. /\ probe'[d].turn # "none" => doctor'[d].pc \in {"answer", "await", "release", "save"}
        /\ probe'[d].turn \in {"none", "asked"} => probe'[d].clean
    BY <1>2, <1>3 DEF Told
  <2> QED BY <1>1, <1>2, <1>4, <1>9, <1>10, <2>1, <2>2 DEF Told
<1> QED BY <1>7, <1>11

LEMMA SaveBacked ==
  ASSUME DoctorTypeOK, NEW d \in Run, Backed(d), RecordBacked, SaveRecord(d)
  PROVE  RecordBacked'
<1>1. /\ doctor[d].pc = "save" /\ doctor[d] \in DoctorLocals /\ UNCHANGED earned
      /\ earned \in [Build -> SUBSET Gate]
  BY DEF SaveRecord, At, DoctorTypeOK
<1>2. CASE doctor[d].args = {}
  BY <1>1, <1>2 DEF SaveRecord, RecordBacked
<1>3. CASE doctor[d].args # {}
  <2>1. /\ doctor[d].build \in Build
        /\ doctor[d].args \intersect Acknowledgements \subseteq earned[doctor[d].build]
        /\ doctor[d].proved => "empty" \in earned[doctor[d].build]
        /\ "empty" \in doctor[d].args => doctor[d].proved
    BY <1>1 DEF Backed, Over, DoctorTypeOK, Shown
  <2>2. doctor[d].args \subseteq earned[doctor[d].build]
    BY <1>1, <2>1 DEF DoctorLocals, Gate
  <2>3. Carried(d) \subseteq earned[doctor[d].build]
    BY <2>1 DEF Backed, Carried
  <2>4. record'.build = doctor[d].build /\ record'.gates = doctor[d].args \union Carried(d)
    BY <1>3 DEF SaveRecord
  <2> QED BY <1>1, <2>2, <2>3, <2>4 DEF RecordBacked
<1> QED BY <1>2, <1>3

\* A step of a doctor leaves every run backed and told, and the record backed.
LEMMA DoctorStepEarned ==
  ASSUME DoctorTypeOK, EarnedInv, NEW d \in Run,
         (\E args \in SUBSET Gate : Connect(d, args)) \/ DoctorStep(d)
  PROVE  EarnedInv'
<1> USE DEF At, OnlyDoctor
<1>1. /\ Backed(d) /\ Told(d) /\ RecordBacked /\ AdmittedIsEarned
      /\ doctor[d] \in DoctorLocals /\ probe[d] \in ProbeLocals
      /\ earned \in [Build -> SUBSET Gate]
  BY DEF EarnedInv, DoctorTypeOK
<1>2. ASSUME Backed(d)', Told(d)', RecordBacked', UNCHANGED admitted,
             Grows, earned' \in [Build -> SUBSET Gate],
             \A e \in Run \ {d} : doctor'[e] = doctor[e] /\ probe'[e] = probe[e]
      PROVE  EarnedInv'
  <2>1. \A e \in Run \ {d} : Backed(e)' /\ Told(e)'
    BY <1>2, Untouched DEF EarnedInv
  <2>2. ASSUME NEW b \in admitted' PROVE earned'[b] = Gate
    <3>1. b \in Build /\ earned[b] = Gate
      BY <1>1, <1>2, <2>2 DEF AdmittedIsEarned, DoctorTypeOK
    <3>2. earned[b] \subseteq earned'[b] /\ earned'[b] \subseteq Gate
      BY <1>2, <3>1 DEF Grows
    <3> QED BY <3>1, <3>2
  <2>3. AdmittedIsEarned'
    BY <2>2 DEF AdmittedIsEarned
  <2> QED BY <1>2, <2>1, <2>3 DEF EarnedInv
<1>3. ASSUME UNCHANGED <<record, admitted, earned>>, Backed(d)', Told(d)',
             \A e \in Run \ {d} : doctor'[e] = doctor[e] /\ probe'[e] = probe[e]
      PROVE  EarnedInv'
  <2>1. RecordBacked' /\ Grows
    BY <1>1, <1>3 DEF RecordBacked, Grows
  <2> QED BY <1>1, <1>2, <1>3, <2>1
<1>4. ASSUME NEW args \in SUBSET Gate, Connect(d, args) PROVE EarnedInv'
  <2>1. /\ doctor'[d] = [doctor[d] EXCEPT !.pc = "load", !.args = args, !.build = build]
        /\ probe' = probe /\ build \in Build /\ doctor[d].pc = "idle" /\ admitted' = admitted
        /\ earned' = [earned EXCEPT ![build] = @ \union (args \intersect Acknowledgements)]
    BY <1>4 DEF Connect, DoctorTypeOK
  <2>2. Grows /\ earned' \in [Build -> SUBSET Gate] /\ args \intersect Acknowledgements \subseteq earned'[build]
    BY <1>1, <2>1 DEF Grows, Gate
  <2>3. RecordBacked'
    BY <1>1, <1>4, <2>2 DEF Connect, RecordBacked, Grows
  <2>4. Backed(d)' /\ Told(d)'
    <3>1. /\ doctor'[d].pc = "load" /\ doctor'[d].args = args /\ doctor'[d].build = build
          /\ doctor'[d].proved = doctor[d].proved /\ doctor'[d].existing = doctor[d].existing
          /\ ~doctor[d].proved /\ probe[d].turn = "none"
      BY <1>1, <2>1 DEF Backed, Told, Watching, DoctorLocals
    <3>2. Backed(d)'
      BY <1>1, <2>1, <2>2, <3>1 DEF Backed, Grows
    <3>3. probe'[d].events = <<>>
      BY <1>1, <2>1 DEF Told, Over
    <3>4. Told(d)'
      BY <1>1, <2>1, <3>1, <3>3 DEF Told, Over
    <3> QED BY <3>2, <3>4
  <2> QED BY <1>2, <2>1, <2>2, <2>3, <2>4, <1>4 DEF Connect, DoctorTypeOK
<1>5. ASSUME LoadRecord(d) PROVE EarnedInv'
  <2>1. /\ doctor[d].pc = "load" /\ probe' = probe /\ doctor'[d].pc \in {"thread", "save"}
        /\ doctor'[d].existing = record /\ doctor'[d].args = doctor[d].args
        /\ doctor'[d].build = doctor[d].build /\ doctor'[d].proved = doctor[d].proved
        /\ UNCHANGED <<record, admitted, earned>>
        /\ \A e \in Run \ {d} : doctor'[e] = doctor[e] /\ probe'[e] = probe[e]
    BY <1>1, <1>5 DEF LoadRecord, DoctorTypeOK, DoctorLocals
  <2>2. Backed(d)'
    BY <1>1, <2>1 DEF Backed, RecordBacked, Watching, Over
  <2>3. Told(d)'
    BY <1>1, <2>1 DEF Told, Tells, Watching, Over
  <2> QED BY <1>3, <2>1, <2>2, <2>3
<1>6. ASSUME AskTurn(d) PROVE EarnedInv'
  <2>1. /\ doctor[d].pc = "turn" /\ doctor'[d] = [doctor[d] EXCEPT !.pc = "answer"]
        /\ probe'[d].turn \in {"asked", probe[d].turn} /\ probe'[d].clean = probe[d].clean
        /\ probe'[d].lagged = probe[d].lagged /\ probe'[d].events = probe[d].events
        /\ UNCHANGED <<record, admitted, earned>> /\ probe[d].turn = "none"
        /\ \A e \in Run \ {d} : doctor'[e] = doctor[e] /\ probe'[e] = probe[e]
    BY <1>1, <1>6 DEF AskTurn, DoctorTypeOK, DoctorLocals, ProbeLocals, Told
  <2>2. Backed(d)'
    BY <1>1, <2>1 DEF Backed, Watching, Over, DoctorLocals
  <2>3. Told(d)'
    BY <1>1, <2>1 DEF Told, Tells, Watching, Over, DoctorLocals
  <2> QED BY <1>3, <2>1, <2>2, <2>3
<1>7. ASSUME AwaitTurn(d) PROVE EarnedInv'
  <2>1. Backed(d)' /\ Told(d)'
    BY <1>1, <1>7, AwaitTurnBacked
  <2> QED BY <1>3, <1>7, <2>1 DEF AwaitTurn, DoctorTypeOK
<1>8. ASSUME NEW step \in DoctorSteps \ Over, Proceed(d, step), OnlyDoctor, doctor[d].pc \notin Over,
             probe[d].turn # "none" => step \in {"answer", "await", "release", "save"},
             step \in {"release", "save"} \/ Watching(d)
      PROVE  EarnedInv'
  <2>1. Backed(d)' /\ Told(d)'
    BY <1>1, <1>8, ProceedBacked
  <2> QED BY <1>3, <1>8, <2>1 DEF Proceed, DoctorTypeOK
<1>9. ASSUME NEW how \in {"done", "failed"}, End(d, how), RecordBacked',
             UNCHANGED <<admitted, earned>>
      PROVE  EarnedInv'
  <2>1. Backed(d)' /\ Told(d)'
    BY <1>9, EndBacked
  <2>2. Grows
    BY <1>9 DEF Grows
  <2> QED BY <1>1, <1>2, <1>9, <2>1, <2>2 DEF End, DoctorTypeOK
<1>10. ASSUME SaveRecord(d) PROVE EarnedInv'
  <2>1. RecordBacked'
    BY <1>1, <1>10, SaveBacked
  <2> QED BY <1>9, <1>10, <2>1 DEF SaveRecord
<1>11. ASSUME StartThread(d) \/ Inject(d) \/ TurnAnswered(d) \/ ProbeExpires(d)
       PROVE  EarnedInv'
  <2>1. /\ OnlyDoctor /\ doctor[d].pc \notin Over /\ Watching(d)
        /\ \/ doctor[d].pc = "thread" /\ Proceed(d, "inject")
           \/ doctor[d].pc = "inject" /\ Proceed(d, "turn")
           \/ Proceed(d, "await") \/ Proceed(d, "release")
    BY <1>11 DEF StartThread, Inject, TurnAnswered, ProbeExpires, Over, Watching
  <2>2. {"inject", "turn", "await", "release"} \subseteq DoctorSteps \ Over
    BY DEF DoctorSteps, Over
  <2>3. doctor[d].pc \in {"thread", "inject"} => probe[d].turn = "none"
    BY <1>1 DEF Told
  <2> QED BY <1>8, <2>1, <2>2, <2>3
<1>12. ASSUME RequestFails(d) PROVE EarnedInv'
  <2>1. CASE End(d, "failed")
    BY <1>1, <1>9, <1>12, <2>1 DEF RequestFails, RecordBacked
  <2>2. CASE doctor[d].pc \in {"inject", "turn", "answer"} /\ Proceed(d, "release")
    BY <1>8, <1>12, <2>2 DEF RequestFails, DoctorSteps, Over
  <2> QED BY <1>12, <2>1, <2>2 DEF RequestFails
<1>13. ASSUME Release(d) PROVE EarnedInv'
  <2>1. CASE End(d, "failed")
    BY <1>1, <1>9, <1>13, <2>1 DEF Release, RecordBacked
  <2>2. CASE Proceed(d, "save")
    BY <1>8, <1>13, <2>2 DEF Release, DoctorSteps, Over
  <2> QED BY <1>13, <2>1, <2>2 DEF Release
<1>14. ASSUME SaveFails(d) PROVE EarnedInv'
  BY <1>1, <1>9, <1>14 DEF SaveFails, RecordBacked
<1> QED BY <1>4, <1>5, <1>6, <1>7, <1>10, <1>11, <1>12, <1>13, <1>14 DEF DoctorStep

\* So does a step of the app-server or of schedule.
LEMMA ServerStepEarned ==
  ASSUME DoctorTypeOK, EarnedInv, NEW d \in Run, OnlyProbe,
         \/ ProbeStarts(d) \/ (\E item \in {"user", "item"} : ProbeItem(d, item))
         \/ (\E status \in {"completed", "failed"} : ProbeEnds(d, status))
         \/ AskClient(d) \/ Lag(d)
  PROVE  EarnedInv'
<1> USE DEF OnlyProbe, Publish, Events
<1>1. /\ Backed(d) /\ Told(d) /\ RecordBacked /\ AdmittedIsEarned /\ probe[d] \in ProbeLocals
      /\ doctor[d].pc \notin Over => doctor[d].build \in Build
      /\ probe[d].turn # "none" => doctor[d].pc \notin Over
  BY DEF EarnedInv, DoctorTypeOK, Backed, Told, Over
<1>2. ASSUME Told(d)', Grows, earned' \in [Build -> SUBSET Gate],
             \A e \in Run \ {d} : probe'[e] = probe[e]
      PROVE  EarnedInv'
  <2>1. \A e \in Run \ {d} : Backed(e)' /\ Told(e)'
    BY <1>2, Untouched DEF EarnedInv
  <2>2. Backed(d)'
    BY <1>1, <1>2 DEF Backed, Watching, Grows
  <2>3. RecordBacked'
    BY <1>1, <1>2 DEF RecordBacked, Grows
  <2>4. ASSUME NEW b \in admitted' PROVE earned'[b] = Gate
    <3>1. b \in Build /\ earned[b] = Gate
      BY <1>1, <2>4 DEF AdmittedIsEarned, DoctorTypeOK
    <3>2. earned[b] \subseteq earned'[b] /\ earned'[b] \subseteq Gate
      BY <1>2, <3>1 DEF Grows
    <3> QED BY <3>1, <3>2
  <2>5. AdmittedIsEarned'
    BY <2>4 DEF AdmittedIsEarned
  <2> QED BY <1>2, <2>1, <2>2, <2>3, <2>5 DEF EarnedInv
<1>3. ASSUME UNCHANGED earned, Told(d)', \A e \in Run \ {d} : probe'[e] = probe[e]
      PROVE  EarnedInv'
  BY <1>2, <1>3 DEF Grows, DoctorTypeOK
<1>4. ASSUME ProbeStarts(d) PROVE EarnedInv'
  <2>1. /\ probe[d].turn = "asked" /\ probe[d].clean /\ UNCHANGED earned
        /\ probe'[d].turn = "running" /\ probe'[d].clean
        /\ probe'[d].lagged = probe[d].lagged
        /\ probe'[d].events = Append(probe[d].events, "started")
        /\ \A e \in Run \ {d} : probe'[e] = probe[e]
    BY <1>1, <1>4 DEF ProbeStarts, DoctorTypeOK, ProbeLocals, Told
  <2>2. Told(d)'
    BY <1>1, <2>1, PublishTold DEF Grows
  <2> QED BY <1>3, <2>1, <2>2
<1>5. ASSUME NEW item \in {"user", "item"}, ProbeItem(d, item) PROVE EarnedInv'
  <2>1. /\ probe[d].turn = "running" /\ UNCHANGED earned
        /\ probe'[d].turn = "running"
        /\ ~probe'[d].clean => item = "user" \/ ~probe[d].clean
        /\ probe'[d].lagged = probe[d].lagged
        /\ probe'[d].events = Append(probe[d].events, item)
        /\ \A e \in Run \ {d} : probe'[e] = probe[e]
    BY <1>1, <1>5 DEF ProbeItem, DoctorTypeOK, ProbeLocals
  <2>2. item \in Events /\ item # "completed" /\ doctor[d].pc \notin Over /\ doctor' = doctor
    BY <1>1, <2>1
  <2>3. /\ Grows /\ doctor'[d] = doctor[d] /\ probe'[d].turn = "running"
        /\ ~probe'[d].clean => item = "user" \/ (probe[d].turn = "running" /\ ~probe[d].clean)
    BY <2>1, <2>2 DEF Grows
  <2> HIDE DEF Events
  <2>4. Told(d)'
    BY <1>1, <2>1, <2>2, <2>3, PublishTold
  <2> QED BY <1>3, <2>1, <2>4
<1>6. ASSUME NEW status \in {"completed", "failed"}, ProbeEnds(d, status) PROVE EarnedInv'
  <2>1. /\ probe[d].turn = "running" /\ probe'[d].turn = "over"
        /\ probe'[d].clean = probe[d].clean /\ probe'[d].lagged = probe[d].lagged
        /\ probe'[d].events = Append(probe[d].events, status)
        /\ \A e \in Run \ {d} : probe'[e] = probe[e]
        /\ doctor[d].pc \notin Over /\ doctor[d].build \in Build
    BY <1>1, <1>6 DEF ProbeEnds, DoctorTypeOK, ProbeLocals
  <2>2. /\ earned' \in [Build -> SUBSET Gate] /\ Grows
        /\ status = "completed" /\ probe[d].clean => "empty" \in earned'[doctor[d].build]
    BY <1>6, <2>1 DEF ProbeEnds, Grows, Gate, DoctorTypeOK
  <2>3. Watching(d) /\ ~probe[d].clean => Tells(d, Len(probe[d].events) + 1)
    BY <1>1, <2>1 DEF Told
  <2>4. Told(d)'
    BY <1>1, <2>1, <2>2, <2>3, PublishTold
  <2> QED BY <1>2, <2>1, <2>2, <2>4
<1>7. ASSUME AskClient(d) PROVE EarnedInv'
  <2>1. /\ doctor[d].pc \notin Over /\ UNCHANGED earned
        /\ probe'[d].turn = probe[d].turn /\ probe'[d].clean = probe[d].clean
        /\ probe'[d].lagged = probe[d].lagged
        /\ probe'[d].events = Append(probe[d].events, "request")
        /\ \A e \in Run \ {d} : probe'[e] = probe[e]
    BY <1>1, <1>7 DEF AskClient, DoctorTypeOK, ProbeLocals, Over
  <2>2. Told(d)'
    BY <1>1, <2>1, PublishTold DEF Grows, Told
  <2> QED BY <1>3, <2>1, <2>2
<1>8. ASSUME Lag(d) PROVE EarnedInv'
  <2>1. /\ UNCHANGED earned /\ probe'[d].lagged /\ probe'[d].turn = probe[d].turn
        /\ probe'[d].clean = probe[d].clean /\ probe[d].events # <<>>
        /\ \A e \in Run \ {d} : probe'[e] = probe[e]
    BY <1>1, <1>8 DEF Lag, DoctorTypeOK, ProbeLocals
  <2>2. \A j : Tells(d, j)'
    BY <2>1 DEF Tells
  <2>3. Told(d)'
    BY <1>1, <2>1, <2>2 DEF Told
  <2> QED BY <1>3, <2>1, <2>3
<1> QED BY <1>4, <1>5, <1>6, <1>7, <1>8

LEMMA ScheduleEarned ==
  ASSUME DoctorTypeOK, EarnedInv,
         AttachSchedule \/ RequireReady \/ \E other \in Build : Upgrade(other)
  PROVE  EarnedInv'
<1>1. ASSUME AttachSchedule PROVE EarnedInv'
  <2>1. \A d \in Run : Backed(d)' /\ Told(d)'
    BY <1>1, Untouched DEF AttachSchedule, EarnedInv, Grows
  <2> QED BY <1>1, <2>1 DEF AttachSchedule, EarnedInv, AdmittedIsEarned, RecordBacked
<1>2. ASSUME RequireReady PROVE EarnedInv'
  <2>1. \A d \in Run : Backed(d)' /\ Told(d)'
    BY <1>2, Untouched DEF RequireReady, EarnedInv, Grows
  <2>2. ASSUME matches_client PROVE earned[client] = Gate
    <3>1. client \in Build /\ record.build = client /\ record.gates = Gate
      BY <1>2, <2>2 DEF RequireReady, matches_client, DoctorTypeOK
    <3>2. Gate \subseteq earned[client] /\ earned[client] \subseteq Gate
      BY <3>1 DEF EarnedInv, RecordBacked, DoctorTypeOK
    <3> QED BY <3>2
  <2>3. ASSUME NEW b \in admitted' PROVE earned'[b] = Gate
    <3>1. earned' = earned /\ (b \in admitted \/ (matches_client /\ b = client))
      <4>1. CASE matches_client
        BY <1>2, <4>1 DEF RequireReady
      <4>2. CASE ~matches_client
        BY <1>2, <4>2 DEF RequireReady
      <4> QED BY <4>1, <4>2
    <3>2. \A c \in admitted : earned[c] = Gate
      BY DEF EarnedInv, AdmittedIsEarned
    <3> QED BY <2>2, <3>1, <3>2
  <2>4. AdmittedIsEarned'
    BY <2>3 DEF AdmittedIsEarned
  <2> QED BY <1>2, <2>1, <2>4 DEF RequireReady, EarnedInv, RecordBacked
<1>3. ASSUME NEW other \in Build, Upgrade(other) PROVE EarnedInv'
  <2>1. Grows /\ doctor' = doctor /\ UNCHANGED <<record, admitted, earned>>
    BY <1>3 DEF Upgrade, Grows
  <2>2. ASSUME NEW d \in Run PROVE Backed(d)' /\ Told(d)'
    <3>1. Backed(d) /\ Told(d) /\ probe[d] \in ProbeLocals
      BY DEF EarnedInv, DoctorTypeOK
    <3>2. CASE doctor[d].pc \in Over \/ probe[d].cut
      BY <1>3, <2>1, <3>1, <3>2, Untouched DEF Upgrade
    <3>3. CASE ~(doctor[d].pc \in Over \/ probe[d].cut)
      <4>1. /\ probe'[d].turn = probe[d].turn /\ probe'[d].clean = probe[d].clean
            /\ probe'[d].lagged = probe[d].lagged
            /\ probe'[d].events = Append(probe[d].events, "closed")
        BY <1>3, <3>1, <3>3 DEF Upgrade, Publish, ProbeLocals
      <4>2. Told(d)'
        BY <2>1, <3>1, <3>3, <4>1, PublishTold DEF Events, Told
      <4>3. Backed(d)'
        BY <2>1, <3>1 DEF Backed, Watching
      <4> QED BY <4>2, <4>3
    <3> QED BY <3>2, <3>3
  <2> QED BY <2>1, <2>2 DEF EarnedInv, AdmittedIsEarned, RecordBacked
<1> QED BY <1>1, <1>2, <1>3

LEMMA EarnedNext ==
  DoctorTypeOK /\ EarnedInv /\ [DoctorNext]_doctorVars => EarnedInv'
<1> SUFFICES ASSUME DoctorTypeOK, EarnedInv, [DoctorNext]_doctorVars PROVE EarnedInv'
  OBVIOUS
<1>1. CASE UNCHANGED doctorVars
  <2>1. \A d \in Run : Backed(d)' /\ Told(d)'
    BY <1>1, Untouched DEF doctorVars, EarnedInv, Grows
  <2> QED BY <1>1, <2>1 DEF doctorVars, EarnedInv, AdmittedIsEarned, RecordBacked
<1>2. CASE DoctorNext
  <2>1. ASSUME NEW d \in Run,
               (\E args \in SUBSET Gate : Connect(d, args)) \/ DoctorStep(d)
        PROVE  EarnedInv'
    BY <2>1, DoctorStepEarned
  <2>2. ASSUME NEW d \in Run,
               \/ ProbeStarts(d) \/ (\E item \in {"user", "item"} : ProbeItem(d, item))
               \/ (\E status \in {"completed", "failed"} : ProbeEnds(d, status))
               \/ AskClient(d) \/ Lag(d)
        PROVE  EarnedInv'
    <3>1. OnlyProbe
      BY <2>2 DEF ProbeStarts, ProbeItem, ProbeEnds, AskClient, Lag
    <3> QED BY <2>2, <3>1, ServerStepEarned
  <2>3. ASSUME AttachSchedule \/ RequireReady \/ \E other \in Build : Upgrade(other)
        PROVE  EarnedInv'
    BY <2>3, ScheduleEarned
  <2> QED BY <1>2, <2>1, <2>2, <2>3 DEF DoctorNext
<1> QED BY <1>1, <1>2

\* A schedule is admitted only on a build that earned it, by a probe that saw its turn
\* complete without a user message and by the user's acknowledgements.
THEOREM OnlyEarnedAdmitted == DoctorSpec => []AdmittedIsEarned
<1>1. EarnedInv => AdmittedIsEarned
  BY DEF EarnedInv
<1> QED BY <1>1, EarnedInit, EarnedNext, DoctorTypeCorrect, PTL DEF DoctorSpec

\* Only the saving of a record changes it.
LEMMA OnlySavesChange ==
  ASSUME DoctorNext, record' # record
  PROVE  \E d \in Run : SaveRecord(d)
BY ZenonT(30)
   DEF DoctorNext, DoctorStep, Connect, LoadRecord, StartThread, Inject, AskTurn, TurnAnswered,
   RequestFails, AwaitTurn, ProbeExpires, Release, SaveFails, ProbeStarts, ProbeItem, ProbeEnds,
   AskClient, Lag, AttachSchedule, RequireReady, Upgrade, OnlyDoctor, OnlyProbe

\* A doctor whose reading of the record is still true closes no gate of its build.
THEOREM GatesAreKept == DoctorSpec => GatesKept
<1>1. ASSUME DoctorTypeOK, [DoctorNext]_doctorVars, NEW d \in Run,
             doctor[d].existing = record, doctor[d].build = record.build,
             At(d, "save"), At(d, "done")'
      PROVE  record.gates \subseteq record'.gates
  <2>1. DoctorNext
    BY <1>1 DEF doctorVars, At
  <2>2. CASE record' = record
    BY <2>2
  <2>3. CASE record' # record
    <3>1. PICK e \in Run : SaveRecord(e)
      BY <2>1, <2>3, OnlySavesChange
    <3>2. e = d
      BY <1>1, <3>1 DEF SaveRecord, End, At, DoctorTypeOK
    <3>3. record'.gates = doctor[d].args \union Carried(d)
      BY <2>3, <3>1, <3>2 DEF SaveRecord
    <3> QED BY <1>1, <3>3 DEF Carried
  <2> QED BY <2>2, <2>3
<1>2. DoctorTypeOK /\ [DoctorNext]_doctorVars =>
        [\A d \in Run :
           /\ doctor[d].existing = record /\ doctor[d].build = record.build
           /\ At(d, "save") /\ At(d, "done")'
           => record.gates \subseteq record'.gates]_doctorVars
  BY <1>1
<1> QED BY <1>2, DoctorTypeCorrect, PTL DEF DoctorSpec, GatesKept
=============================================================================
