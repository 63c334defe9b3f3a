----------------------------- MODULE LauncherProofs -----------------------------
(***************************************************************************)
(* Proofs about the launchers (src/src/launcher.rs:173-287) and the owner  *)
(* record (src/src/app_server_owner.rs), in three parts: no step names a   *)
(* server that was never started, and no launcher tries more often than it *)
(* may; what a launcher does to servers in use; the record tells the truth *)
(* about the server behind the socket, in behaviours without overlap and   *)
(* while no launcher dies between starting a server and recording it.      *)
(***************************************************************************)
EXTENDS Launcher, SequenceTheorems, TLAPS

FilesOK ==
  /\ servers \in Seq(Server) /\ Len(servers) <= MaxServers
  /\ lingering \subseteq Pids /\ socket \in {0} \union Pids
OwnerOK == owner \in {0} \union Pids
PlaceOK ==
  /\ pc \in [Launcher -> LauncherSteps]
  /\ seen \in [Launcher -> {0} \union Pids] /\ child \in [Launcher -> {0} \union Pids]
  /\ tries \in [Launcher -> 0..SOCKET_WAIT_ATTEMPTS]
AttemptLeft == \A l \in Launcher : pc[l] = "reach" => tries[l] < SOCKET_WAIT_ATTEMPTS
SessionOK ==
  /\ promised \in [Launcher -> {0} \union Pids]
  /\ attached \in [Launcher -> {0} \union Pids]

LauncherInv == FilesOK /\ OwnerOK /\ PlaceOK /\ AttemptLeft /\ SessionOK

\* The type is part of the invariant.
LEMMA InvGivesType == LauncherInv /\ overlap \in BOOLEAN => LauncherTypeOK
BY DEF LauncherInv, LauncherTypeOK, FilesOK, OwnerOK, PlaceOK, SessionOK

-----------------------------------------------------------------------------
(* What the helpers keep *)

\* Going on keeps the variables of run.
LEMMA GotoKeepsPlace ==
  ASSUME PlaceOK, AttemptLeft, Pids' = Pids,
         NEW l \in Launcher, NEW step \in LauncherSteps, Goto(l, step),
         step = "reach" => tries[l] < SOCKET_WAIT_ATTEMPTS
  PROVE  PlaceOK' /\ AttemptLeft'
<1>0. SOCKET_WAIT_ATTEMPTS \in Nat
  BY LauncherBoundsAssumption
<1>1. CASE step \in Ended
  <2>1. /\ pc' = [pc EXCEPT ![l] = step] /\ seen' = [seen EXCEPT ![l] = 0]
        /\ child' = [child EXCEPT ![l] = 0] /\ tries' = [tries EXCEPT ![l] = 0]
    BY <1>1 DEF Goto
  <2>2. step # "reach"
    BY <1>1 DEF Ended
  <2>3. PlaceOK'
    BY <2>1, <1>0 DEF PlaceOK
  <2>4. AttemptLeft'
    BY <2>1, <2>2 DEF AttemptLeft, PlaceOK
  <2> QED BY <2>3, <2>4
<1>2. CASE step \notin Ended
  <2>1. pc' = [pc EXCEPT ![l] = step] /\ UNCHANGED <<seen, child, tries>>
    BY <1>2 DEF Goto
  <2>2. PlaceOK'
    BY <2>1 DEF PlaceOK
  <2>3. AttemptLeft'
    BY <2>1 DEF AttemptLeft, PlaceOK
  <2> QED BY <2>2, <2>3
<1> QED BY <1>1, <1>2

\* A server that changes its state stays a server.
LEMMA StateKeepsServers ==
  ASSUME FilesOK, NEW pid \in Pids, NEW s \in {"starting", "listening", "dead"},
         servers' = [servers EXCEPT ![pid].state = s]
  PROVE  servers' \in Seq(Server) /\ Len(servers') = Len(servers) /\ Pids' = Pids
<1>1. servers[pid] \in Server
  BY DEF FilesOK, Pids
<1>2. [servers[pid] EXCEPT !.state = s] \in Server
  BY <1>1 DEF Server
<1>3. servers' = [servers EXCEPT ![pid] = [servers[pid] EXCEPT !.state = s]]
  BY DEF FilesOK, Pids
<1>4. servers' \in Seq(Server) /\ Len(servers') = Len(servers)
  BY <1>2, <1>3, ExceptSeq DEF FilesOK, Pids
<1> QED BY <1>4 DEF Pids

\* So does one that ends, and takes its socket with it or leaves it.
LEMMA DiesKeepsFiles ==
  ASSUME FilesOK, NEW pid \in Pids, Dies(pid)
  PROVE  FilesOK' /\ Pids' = Pids
<1>1. servers' \in Seq(Server) /\ Len(servers') = Len(servers) /\ Pids' = Pids
  BY StateKeepsServers DEF Dies
<1>2. lingering' \subseteq Pids
  BY DEF Dies, FilesOK
<1>3. socket' \in {0} \union Pids
  BY DEF Dies, FilesOK
<1> QED BY <1>1, <1>2, <1>3 DEF FilesOK

\* The child is killed if it lives.
LEMMA KillKeepsFiles ==
  ASSUME FilesOK, NEW pid,
         IF Alive(pid) THEN Dies(pid) ELSE UNCHANGED <<servers, lingering, socket>>
  PROVE  FilesOK' /\ Pids' = Pids
<1>1. CASE Alive(pid)
  BY <1>1, DiesKeepsFiles DEF Alive
<1>2. CASE ~Alive(pid)
  BY <1>2 DEF FilesOK, Pids
<1> QED BY <1>1, <1>2

\* Nothing but the place of one launcher moves.
LEMMA MoveKeeps ==
  ASSUME LauncherInv, UnchangedServers, SessionOK',
         NEW l \in Launcher, NEW step \in LauncherSteps, Goto(l, step),
         step = "reach" => tries[l] < SOCKET_WAIT_ATTEMPTS
  PROVE  LauncherInv'
<1>1. Pids' = Pids
  BY DEF UnchangedServers, Pids
<1>2. PlaceOK' /\ AttemptLeft'
  BY <1>1, GotoKeepsPlace DEF LauncherInv
<1>3. FilesOK' /\ OwnerOK'
  BY <1>1 DEF UnchangedServers, LauncherInv, FilesOK, OwnerOK
<1> QED BY <1>2, <1>3 DEF LauncherInv

\* ... and its sessions stay.
LEMMA PlainMoveKeeps ==
  ASSUME LauncherInv, UnchangedServers, UNCHANGED <<promised, attached>>,
         NEW l \in Launcher, NEW step \in LauncherSteps, Goto(l, step),
         step = "reach" => tries[l] < SOCKET_WAIT_ATTEMPTS
  PROVE  LauncherInv'
<1>1. SessionOK'
  BY DEF LauncherInv, SessionOK, UnchangedServers, Pids
<1> QED BY <1>1, MoveKeeps

\* Removing the record, in its two steps.
LEMMA RemoveIfPidKeeps ==
  ASSUME LauncherInv, NEW l \in Launcher, NEW step, NEW pid,
         NEW unlink \in LauncherSteps \ {"reach"}, NEW next \in LauncherSteps \ {"reach"},
         RemoveIfPid(l, step, pid, unlink, next)
  PROVE  LauncherInv'
<1>1. PICK to \in LauncherSteps \ {"reach"} : Goto(l, to)
  BY DEF RemoveIfPid
<1>2. UnchangedServers /\ UNCHANGED <<promised, attached>>
  BY DEF RemoveIfPid
<1> QED BY <1>1, <1>2, PlainMoveKeeps

LEMMA RemoveFileKeeps ==
  ASSUME LauncherInv, NEW l \in Launcher, NEW step,
         NEW next \in LauncherSteps \ {"reach"}, RemoveFile(l, step, next)
  PROVE  LauncherInv'
<1>1. PICK to \in LauncherSteps \ {"reach"} : Goto(l, to)
  BY DEF RemoveFile, LauncherSteps, Ended
<1>2. Pids' = Pids /\ UNCHANGED <<servers, lingering, socket, promised, attached>> /\ owner' = 0
  BY DEF RemoveFile, Pids
<1>3. PlaceOK' /\ AttemptLeft'
  BY <1>1, <1>2, GotoKeepsPlace DEF LauncherInv
<1>4. FilesOK' /\ OwnerOK' /\ SessionOK'
  BY <1>2 DEF LauncherInv, FilesOK, OwnerOK, SessionOK
<1> QED BY <1>3, <1>4 DEF LauncherInv

-----------------------------------------------------------------------------
(* Init and the steps *)

LEMMA InitGivesInv ==
  ASSUME Init
  PROVE  LauncherInv
<1>1. SOCKET_WAIT_ATTEMPTS \in Nat \ {0} /\ MaxServers \in Nat \ {0}
  BY LauncherBoundsAssumption
<1>2. PICK n \in {0, 1} : servers \in Seq(Server) /\ Len(servers) = n
                          /\ socket \in {0} \union 1..n /\ owner \in {0} \union 1..n
  <2>1. CASE servers = <<>> /\ socket = 0 /\ owner = 0
    BY <2>1
  <2>2. CASE \E state \in {"dead", "listening"} :
               /\ servers = <<[state |-> state, by |-> NoLauncher]>>
               /\ socket \in {0, 1} /\ owner \in {0, 1}
    BY <2>2 DEF Server
  <2> QED BY <2>1, <2>2 DEF Init
<1>3. FilesOK /\ OwnerOK
  BY <1>1, <1>2 DEF Init, FilesOK, OwnerOK, Pids
<1>4. PlaceOK /\ AttemptLeft /\ SessionOK
  BY <1>1 DEF Init, PlaceOK, AttemptLeft, SessionOK, LauncherSteps
<1> QED BY <1>3, <1>4 DEF LauncherInv

LEMMA StepKeepsInv ==
  ASSUME LauncherInv, [Next]_vars
  PROVE  LauncherInv'
<1> USE DEF LauncherSteps, EnsureSteps, CleanupSteps, Ended
<1>0. SOCKET_WAIT_ATTEMPTS \in Nat \ {0} /\ MaxServers \in Nat \ {0}
  BY LauncherBoundsAssumption
<1>a. FilesOK /\ OwnerOK /\ PlaceOK /\ AttemptLeft /\ SessionOK
  BY DEF LauncherInv
<1>b. ASSUME NEW l \in Launcher
      PROVE  child[l] \in {0} \union Pids /\ seen[l] \in {0} \union Pids
  BY <1>a DEF PlaceOK
<1>1. ASSUME NEW l \in Launcher, LoadOwner(l) PROVE LauncherInv'
  <2>1. Pids' = Pids
    BY <1>1 DEF LoadOwner, UnchangedServers, Pids
  <2> QED BY <1>1, <1>a, <2>1
          DEF LoadOwner, UnchangedServers, LauncherInv, FilesOK, OwnerOK, PlaceOK,
              AttemptLeft, SessionOK
<1>2. ASSUME NEW l \in Launcher, Probe(l) PROVE LauncherInv'
  BY <1>2, PlainMoveKeeps DEF Probe
<1>3. ASSUME NEW l \in Launcher, ConnectExisting(l) PROVE LauncherInv'
  <2>1. SessionOK' /\ UnchangedServers
    BY <1>3, <1>a DEF ConnectExisting, UnchangedServers, SessionOK, FilesOK, Pids
  <2>2. CASE Goto(l, "judge")
    BY <2>1, <2>2, MoveKeeps
  <2>3. CASE Goto(l, "ended")
    BY <2>1, <2>3, MoveKeeps
  <2> QED BY <1>3, <2>2, <2>3 DEF ConnectExisting
<1>4. ASSUME NEW l \in Launcher, JudgeOwner(l) PROVE LauncherInv'
  <2>1. SessionOK' /\ UnchangedServers
    BY <1>4, <1>a DEF JudgeOwner, UnchangedServers, SessionOK, Pids
  <2>2. CASE Goto(l, "tui")
    BY <2>1, <2>2, MoveKeeps
  <2>3. CASE Goto(l, "ended")
    BY <2>1, <2>3, MoveKeeps
  <2> QED BY <1>4, <2>2, <2>3 DEF JudgeOwner
<1>5. ASSUME NEW l \in Launcher, JudgeAbsent(l) PROVE LauncherInv'
  <2>1. PICK to \in {"spawn", "ended", "clear"} : Goto(l, to)
    BY <1>5 DEF JudgeAbsent
  <2> QED BY <1>5, <2>1, PlainMoveKeeps DEF JudgeAbsent
<1>6. ASSUME NEW l \in Launcher, ClearRecord(l) \/ RemoveRecord(l) PROVE LauncherInv'
  BY <1>6, RemoveIfPidKeeps DEF ClearRecord, RemoveRecord
<1>7. ASSUME NEW l \in Launcher, UnlinkDeadRecord(l) \/ UnlinkRecord(l) PROVE LauncherInv'
  BY <1>7, RemoveFileKeeps DEF UnlinkDeadRecord, UnlinkRecord
<1>8. ASSUME NEW l \in Launcher, Spawn(l) PROVE LauncherInv'
  <2>1. [state |-> "starting", by |-> l] \in Server
    BY DEF Server
  <2>2. servers' \in Seq(Server) /\ Len(servers') = Len(servers) + 1
    BY <1>8, <1>a, <2>1, AppendProperties DEF Spawn, FilesOK
  <2>3. Len(servers) \in Nat /\ Len(servers) + 1 <= MaxServers
    BY <1>8, <1>0, <1>a DEF Spawn, FilesOK
  <2>4. Pids \subseteq Pids' /\ Len(servers) + 1 \in Pids'
    BY <2>2, <2>3 DEF Pids
  <2>5. FilesOK' /\ OwnerOK'
    BY <1>8, <1>a, <2>2, <2>3, <2>4 DEF Spawn, FilesOK, OwnerOK
  <2>6. PlaceOK' /\ AttemptLeft'
    BY <1>8, <1>a, <2>4 DEF Spawn, PlaceOK, AttemptLeft
  <2>7. SessionOK'
    BY <1>8, <1>a, <2>4 DEF Spawn, SessionOK
  <2> QED BY <2>5, <2>6, <2>7 DEF LauncherInv
<1>9. ASSUME NEW l \in Launcher, AwaitChild(l) PROVE LauncherInv'
  <2>1. PICK to \in {"reach", "ended"} : Goto(l, to)
    BY <1>9 DEF AwaitChild
  <2> QED BY <1>9, <2>1, PlainMoveKeeps DEF AwaitChild
<1>10. ASSUME NEW l \in Launcher, ReachSocket(l) PROVE LauncherInv'
  <2>1. UnchangedServers /\ Pids' = Pids
    BY <1>10 DEF ReachSocket, UnchangedServers, Pids
  <2>2. CASE SocketAnswers(l)
    <3>1. SessionOK'
      BY <1>10, <1>a, <2>1, <2>2 DEF ReachSocket, SocketAnswers, SessionOK, FilesOK
    <3> QED BY <2>1, <2>2, <3>1, MoveKeeps DEF SocketAnswers
  <2>3. CASE /\ pc' = [pc EXCEPT ![l] = "await"]
             /\ tries' = [tries EXCEPT ![l] = @ + 1]
             /\ UNCHANGED <<promised, seen, child>>
    <3>1. tries[l] \in 0..SOCKET_WAIT_ATTEMPTS /\ tries[l] < SOCKET_WAIT_ATTEMPTS
      BY <1>10, <1>a DEF ReachSocket, PlaceOK, AttemptLeft
    <3>2. PlaceOK' /\ AttemptLeft'
      BY <1>0, <1>a, <2>1, <2>3, <3>1 DEF PlaceOK, AttemptLeft
    <3>3. FilesOK' /\ OwnerOK' /\ SessionOK'
      BY <1>10, <1>a, <2>1, <2>3
      DEF ReachSocket, UnchangedServers, FilesOK, OwnerOK, SessionOK
    <3> QED BY <3>2, <3>3 DEF LauncherInv
  <2> QED BY <1>10, <2>2, <2>3 DEF ReachSocket
<1>11. ASSUME NEW l \in Launcher, GiveUp(l) \/ Kill(l) PROVE LauncherInv'
  <2>1. FilesOK' /\ Pids' = Pids
    BY <1>11, <1>a, KillKeepsFiles DEF GiveUp, Kill
  <2>2. PICK to \in {"ended", "remove"} : Goto(l, to)
    BY <1>11 DEF GiveUp, Kill
  <2>3. PlaceOK' /\ AttemptLeft'
    BY <1>a, <2>1, <2>2, GotoKeepsPlace
  <2>4. OwnerOK' /\ SessionOK'
    BY <1>11, <1>a, <2>1 DEF GiveUp, Kill, OwnerOK, SessionOK
  <2> QED BY <2>1, <2>3, <2>4 DEF LauncherInv
<1>12. ASSUME NEW l \in Launcher, SaveOwner(l) PROVE LauncherInv'
  <2>1. FilesOK' /\ Pids' = Pids
    <3>1. CASE IF Alive(child[l]) THEN Dies(child[l])
                                  ELSE UNCHANGED <<servers, lingering, socket>>
      BY <1>a, <3>1, KillKeepsFiles
    <3>2. CASE UNCHANGED <<servers, lingering, socket>>
      BY <1>a, <3>2 DEF FilesOK, Pids
    <3> QED BY <1>12, <3>1, <3>2 DEF SaveOwner, UnchangedServers
  <2>2. PICK to \in {"tui", "ended"} : Goto(l, to)
    BY <1>12 DEF SaveOwner
  <2>3. PlaceOK' /\ AttemptLeft'
    BY <1>a, <2>1, <2>2, GotoKeepsPlace
  <2>4. owner' \in {owner, child[l]}
    BY <1>12 DEF SaveOwner, UnchangedServers
  <2>5. OwnerOK'
    BY <1>a, <1>b, <2>1, <2>4 DEF OwnerOK
  <2>6. SessionOK'
    BY <1>12, <1>a, <2>1 DEF SaveOwner, SessionOK
  <2> QED BY <2>1, <2>3, <2>5, <2>6 DEF LauncherInv
<1>13. ASSUME NEW l \in Launcher, Reap(l) \/ server_can_stop(l) PROVE LauncherInv'
  <2>1. PICK to \in {"ask", "remove", "kill", "ended"} : Goto(l, to)
    BY <1>13 DEF Reap, server_can_stop
  <2> QED BY <1>13, <2>1, PlainMoveKeeps DEF Reap, server_can_stop
<1>14. ASSUME NEW l \in Launcher, Attach(l) PROVE LauncherInv'
  <2>1. SessionOK' /\ UnchangedServers
    BY <1>14, <1>a DEF Attach, UnchangedServers, SessionOK, FilesOK, Pids
  <2> QED BY <1>14, <2>1, MoveKeeps DEF Attach
<1>15. ASSUME NEW l \in Launcher, Leaves(l), UNCHANGED <<servers, socket, owner>>
       PROVE  FilesOK' /\ OwnerOK' /\ SessionOK' /\ Pids' = Pids
  <2>1. Pids' = Pids
    BY <1>15 DEF Pids
  <2>2. lingering' \subseteq Pids
    BY <1>15, <1>a DEF Leaves, FilesOK, Alive
  <2> QED BY <1>15, <1>a, <2>1, <2>2 DEF Leaves, FilesOK, OwnerOK, SessionOK
<1>16. ASSUME NEW l \in Launcher, TuiExits(l) PROVE LauncherInv'
  <2>1. FilesOK' /\ OwnerOK' /\ SessionOK' /\ Pids' = Pids
    BY <1>15, <1>16 DEF TuiExits
  <2>2. PICK to \in {"ended", "reap"} : Goto(l, to)
    BY <1>16 DEF TuiExits
  <2>3. PlaceOK' /\ AttemptLeft'
    BY <1>a, <2>1, <2>2, GotoKeepsPlace
  <2> QED BY <2>1, <2>3 DEF LauncherInv
<1>17. ASSUME NEW l \in Launcher, OrphanExits(l) PROVE LauncherInv'
  <2>1. FilesOK' /\ OwnerOK' /\ SessionOK' /\ Pids' = Pids
    BY <1>15, <1>17 DEF OrphanExits
  <2>2. PlaceOK' /\ AttemptLeft'
    BY <1>17, <1>a, <2>1 DEF OrphanExits, PlaceOK, AttemptLeft
  <2> QED BY <2>1, <2>2 DEF LauncherInv
<1>18. ASSUME NEW l \in Launcher, Crash(l) PROVE LauncherInv'
  <2>1. SessionOK' /\ UnchangedServers
    BY <1>18, <1>a DEF Crash, UnchangedServers, SessionOK, Pids
  <2> QED BY <1>18, <2>1, MoveKeeps DEF Crash
<1>19. ASSUME FilesOK', UNCHANGED <<owner, pc, seen, child, tries, promised, attached>>,
              Pids' = Pids
       PROVE  LauncherInv'
  BY <1>19, <1>a DEF LauncherInv, OwnerOK, PlaceOK, AttemptLeft, SessionOK
<1>20. ASSUME NEW pid \in Pids, Unload(pid) PROVE LauncherInv'
  <2>1. FilesOK' /\ Pids' = Pids
    BY <1>20, <1>a DEF Unload, files, FilesOK, Pids
  <2> QED BY <1>19, <1>20, <2>1 DEF Unload, files
<1>21. ASSUME NEW pid \in Pids, ServerStarts(pid) PROVE LauncherInv'
  <2>1. servers' \in Seq(Server) /\ Len(servers') = Len(servers) /\ Pids' = Pids
    <3>1. CASE servers' = [servers EXCEPT ![pid].state = "dead"]
      BY <1>a, <3>1, StateKeepsServers
    <3>2. CASE servers' = [servers EXCEPT ![pid].state = "listening"]
      BY <1>a, <3>2, StateKeepsServers
    <3> QED BY <1>21, <3>1, <3>2 DEF ServerStarts
  <2>2. socket' \in {0} \union Pids /\ lingering' = lingering
    BY <1>21, <1>a DEF ServerStarts, FilesOK
  <2>3. FilesOK'
    BY <1>a, <2>1, <2>2 DEF FilesOK
  <2> QED BY <1>19, <1>21, <2>1, <2>3 DEF ServerStarts
<1>22. ASSUME NEW pid \in Pids, ServerDies(pid) PROVE LauncherInv'
  <2>1. FilesOK' /\ Pids' = Pids
    BY <1>22, <1>a, DiesKeepsFiles DEF ServerDies
  <2> QED BY <1>19, <1>22, <2>1 DEF ServerDies
<1>23. CASE UNCHANGED vars
  <2>1. Pids' = Pids
    BY <1>23 DEF vars, Pids
  <2> QED BY <1>23, <1>a, <2>1
          DEF vars, LauncherInv, FilesOK, OwnerOK, PlaceOK, AttemptLeft, SessionOK
<1>24. ASSUME NEW l \in Launcher, Work(l) PROVE LauncherInv'
  BY <1>2, <1>3, <1>4, <1>5, <1>6, <1>7, <1>8, <1>9, <1>10, <1>11, <1>12, <1>13, <1>24 DEF Work
<1> QED
  BY <1>1, <1>14, <1>16, <1>17, <1>18, <1>20, <1>21, <1>22, <1>23, <1>24 DEF Next

\* Whether sessions may overlap is chosen once.
LEMMA OverlapStays ==
  ASSUME [Next]_vars
  PROVE  overlap' = overlap
<1>1. ASSUME NEW l \in Launcher, Work(l) PROVE overlap' = overlap
  BY <1>1
  DEF Work, Probe, ConnectExisting, JudgeOwner, JudgeAbsent, ClearRecord, UnlinkDeadRecord,
      RemoveIfPid, RemoveFile, Spawn, AwaitChild, ReachSocket, GiveUp, SaveOwner, Reap,
      server_can_stop, Kill, RemoveRecord, UnlinkRecord
<1>2. ASSUME NEW l \in Launcher,
             LoadOwner(l) \/ Attach(l) \/ TuiExits(l) \/ OrphanExits(l) \/ Crash(l)
      PROVE  overlap' = overlap
  BY <1>2 DEF LoadOwner, Attach, TuiExits, OrphanExits, Crash
<1>3. ASSUME NEW pid \in Pids, Unload(pid) \/ ServerStarts(pid) \/ ServerDies(pid)
      PROVE  overlap' = overlap
  BY <1>3 DEF Unload, ServerStarts, ServerDies
<1> QED BY <1>1, <1>2, <1>3 DEF Next, vars

\* A launcher names only servers that were started, and tries to reach its child no
\* more often than it may.
THEOREM LauncherTypeCorrect == Spec => []LauncherTypeOK
<1>1. Init => LauncherInv /\ overlap \in BOOLEAN
  BY InitGivesInv DEF Init
<1>2. LauncherInv /\ overlap \in BOOLEAN /\ [Next]_vars => (LauncherInv /\ overlap \in BOOLEAN)'
  BY StepKeepsInv, OverlapStays
<1> QED BY <1>1, <1>2, InvGivesType, PTL DEF Spec

-----------------------------------------------------------------------------
(* Servers in use *)

\* Only the server behind the socket listens, and a server with threads, or one that
\* sessions were promised, has listened.
OneListens == \A pid \in Pids : servers[pid].state = "listening" => socket = pid
LoadedListened ==
  /\ \A l \in Launcher : attached[l] # 0 => servers[attached[l]].state # "starting"
  /\ \A pid \in lingering : servers[pid].state # "starting"
ListenInv == LauncherInv /\ OneListens /\ LoadedListened

PromisedListened ==
  \A l \in Launcher : promised[l] # 0 => servers[promised[l]].state # "starting"
\* A server is promised until the session ends, and as long as it lives the session
\* has a thread on it.
PromisedWhere ==
  \A l \in Launcher :
    promised[l] # 0 => pc[l] \in {"judge", "save", "tui", "running", "gone"}
Loaded ==
  \A l \in Launcher :
    promised[l] # 0 /\ pc[l] \in {"running", "gone"} /\ Alive(promised[l])
      => attached[l] = promised[l]
OneChanges == \A l, m \in Launcher : Changing(l) /\ Changing(m) => l = m
\* The steps at which a launcher may come to end its child: none of another's sessions
\* was started for that child, and what server_can_stop has found out still holds.
MayEnd == Recording \union {"kill"}
Unused ==
  \A l \in Launcher : pc[l] \in MayEnd /\ Alive(child[l]) =>
    \A m \in Launcher \ {l} : promised[m] # child[l]

UseInv ==
  LauncherInv /\ OneListens /\ PromisedListened /\ PromisedWhere /\ Loaded /\ OneChanges /\ Unused

\* What steps do to servers: none comes back to life or starts again, and still
\* one listens.
ServersStep ==
  /\ Pids \subseteq Pids'
  /\ \A pid \in Pids :
       /\ Alive(pid)' => Alive(pid)
       /\ servers[pid].state # "starting" => servers'[pid].state # "starting"
  /\ OneListens'

\* What a step of launcher l does to sessions.
Moves(l) ==
  /\ \A m \in Launcher \ {l} :
       /\ pc'[m] = pc[m] /\ child'[m] = child[m]
       /\ promised'[m] = promised[m] /\ attached'[m] = attached[m]
  /\ promised'[l] # 0 =>
       /\ pc'[l] \in {"judge", "save", "tui", "running", "gone"}
       /\ \/ promised'[l] = promised[l]
          \/ promised'[l] = socket /\ Reachable /\ Changing(l)
       /\ pc'[l] \in {"running", "gone"} /\ Alive(promised[l])' => attached'[l] = promised'[l]
  /\ Changing(l)' => Changing(l) \/ \A m \in Launcher \ {l} : ~Changing(m)
  /\ pc'[l] \in MayEnd /\ Alive(child[l])' =>
       \A m \in Launcher \ {l} : promised'[m] # child'[l]

LEMMA StillServers ==
  ASSUME OneListens, UNCHANGED <<servers, socket>>
  PROVE  ServersStep
BY DEF OneListens, ServersStep, Pids, Alive

LEMMA DyingServers ==
  ASSUME FilesOK, OneListens, NEW pid \in Pids, Dies(pid)
  PROVE  ServersStep
<1>1. servers \in Seq(Server) /\ servers' = [servers EXCEPT ![pid].state = "dead"]
  BY DEF FilesOK, Dies
<1>2. Pids' = Pids
  BY <1>1, StateKeepsServers DEF Pids
<1>3. servers'[pid].state = "dead"
      /\ \A other \in Pids \ {pid} : servers'[other] = servers[other]
  <2>1. servers[pid] \in Server
    BY <1>1 DEF Pids
  <2> QED BY <1>1, <2>1 DEF Pids, Server
<1>4. socket # pid => socket' = socket
  BY DEF Dies
<1>5. OneListens'
  BY <1>2, <1>3, <1>4 DEF OneListens
<1> QED BY <1>2, <1>3, <1>5 DEF ServersStep, Alive

LEMMA KilledServers ==
  ASSUME FilesOK, OneListens, NEW pid,
         IF Alive(pid) THEN Dies(pid) ELSE UNCHANGED <<servers, lingering, socket>>
  PROVE  ServersStep
BY DyingServers, StillServers DEF Alive

\* A promised server that lives is the one behind the socket.
LEMMA PromisedIsReachable ==
  ASSUME UseInv, NEW l \in Launcher, Alive(promised[l])
  PROVE  promised[l] = socket /\ Reachable
<1>1. promised[l] \in Pids /\ servers[promised[l]] \in Server
  BY DEF UseInv, LauncherInv, FilesOK, Alive, Pids
<1>2. servers[promised[l]].state = "listening"
  BY <1>1 DEF UseInv, PromisedListened, Alive, Server, Pids
<1>3. socket = promised[l] /\ socket # 0
  BY <1>1, <1>2 DEF UseInv, OneListens, Pids
<1> QED BY <1>2, <1>3 DEF Reachable

\* Sessions are kept right by any such step ...
LEMMA MovesKeepUse ==
  ASSUME UseInv, LauncherInv', ServersStep, NEW l \in Launcher, Moves(l)
  PROVE  UseInv'
<1>1. /\ promised \in [Launcher -> {0} \union Pids] /\ child \in [Launcher -> {0} \union Pids]
      /\ promised' \in [Launcher -> {0} \union Pids']
      /\ child' \in [Launcher -> {0} \union Pids'] /\ 0 \notin Pids
  BY DEF UseInv, LauncherInv, SessionOK, PlaceOK, Pids
<1>2. PromisedListened'
  <2>1. SUFFICES ASSUME NEW m \in Launcher, promised'[m] # 0
                 PROVE  servers'[promised'[m]].state # "starting"
    BY DEF PromisedListened
  <2>2. CASE promised'[m] = promised[m]
    BY <1>1, <2>1, <2>2 DEF UseInv, PromisedListened, ServersStep
  <2>3. CASE promised'[m] = socket /\ Reachable
    <3>1. socket \in Pids /\ servers[socket].state # "starting"
      BY <2>3 DEF Reachable, UseInv, LauncherInv, FilesOK
    <3> QED BY <2>3, <3>1 DEF ServersStep
  <2> QED BY <2>1, <2>2, <2>3 DEF Moves
<1>3. PromisedWhere'
  BY DEF UseInv, PromisedWhere, Moves
<1>4. Loaded'
  <2>1. SUFFICES ASSUME NEW m \in Launcher, promised'[m] # 0, pc'[m] \in {"running", "gone"},
                        Alive(promised[m])'
                 PROVE  attached'[m] = promised'[m]
    BY DEF Loaded
  <2>2. CASE m = l
    BY <2>1, <2>2 DEF Moves
  <2>3. CASE m # l
    <3>1. promised[m] # 0 /\ pc[m] \in {"running", "gone"} /\ Alive(promised[m])
      BY <1>1, <2>1, <2>3 DEF Moves, ServersStep
    <3> QED BY <2>1, <2>3, <3>1 DEF Moves, UseInv, Loaded
  <2> QED BY <2>2, <2>3
<1>5. OneChanges'
  <2>1. \A m \in Launcher \ {l} : Changing(m)' => Changing(m)
    BY DEF Moves, Changing
  <2> QED BY <2>1 DEF Moves, UseInv, OneChanges
<1>6. Unused'
  <2>1. SUFFICES ASSUME NEW m \in Launcher, pc'[m] \in MayEnd, Alive(child[m])',
                        NEW other \in Launcher \ {m}
                 PROVE  promised'[other] # child'[m]
    BY DEF Unused
  <2>2. CASE m = l
    BY <2>1, <2>2 DEF Moves
  <2>3. CASE m # l
    <3>1. pc[m] \in MayEnd /\ child'[m] = child[m]
      BY <2>1, <2>3 DEF Moves
    <3>2. child[m] \in Pids /\ Alive(child[m])
      <4>1. child'[m] # 0
        BY <2>1 DEF Alive, Pids
      <4> QED BY <1>1, <2>1, <3>1, <4>1 DEF ServersStep
    <3>3. promised[other] # child[m]
      BY <3>1, <3>2 DEF UseInv, Unused
    <3>4. ~Changing(l)
      BY <2>3, <3>1
      DEF UseInv, OneChanges, Changing, CleanupSteps, EnsureSteps, Recording, MayEnd
    <3>5. promised'[other] \in {0, promised[other]}
      BY <3>4 DEF Moves
    <3> QED BY <1>1, <3>1, <3>2, <3>3, <3>5
  <2> QED BY <2>2, <2>3
<1> QED BY <1>2, <1>3, <1>4, <1>5, <1>6 DEF UseInv, ServersStep

\* ... and by one that leaves the launchers alone.
LEMMA RestKeepsUse ==
  ASSUME UseInv, LauncherInv', ServersStep, UNCHANGED <<pc, child, promised, attached>>
  PROVE  UseInv'
<1>1. CASE Launcher = {}
  BY <1>1 DEF UseInv, ServersStep, PromisedListened, PromisedWhere, Loaded, OneChanges, Unused
<1>2. ASSUME NEW l \in Launcher PROVE UseInv'
  <2>1. Moves(l)
    <3>1. promised[l] \in {0} \union Pids /\ child[l] \in {0} \union Pids /\ 0 \notin Pids
      BY DEF UseInv, LauncherInv, SessionOK, PlaceOK, Pids
    <3>2. ASSUME Alive(promised[l])', promised[l] # 0 PROVE Alive(promised[l])
      BY <3>1, <3>2 DEF ServersStep
    <3>3. ASSUME Alive(child[l])' PROVE Alive(child[l])
      <4>1. child[l] # 0
        BY <3>3 DEF Alive, Pids
      <4> QED BY <3>1, <3>3, <4>1 DEF ServersStep
    <3>4. promised'[l] # 0 =>
            /\ pc'[l] \in {"judge", "save", "tui", "running", "gone"}
            /\ promised'[l] = promised[l]
            /\ pc'[l] \in {"running", "gone"} /\ Alive(promised[l])'
                 => attached'[l] = promised'[l]
      BY <3>2 DEF UseInv, PromisedWhere, Loaded
    <3>5. pc'[l] \in MayEnd /\ Alive(child[l])' =>
            \A m \in Launcher \ {l} : promised'[m] # child'[l]
      BY <3>3 DEF UseInv, Unused
    <3>6. Changing(l)' => Changing(l)
      BY DEF Changing
    <3> QED BY <3>4, <3>5, <3>6 DEF Moves
  <2> QED BY <2>1, MovesKeepUse
<1> QED BY <1>1, <1>2

\* A launcher that goes on from start or end of its session and keeps what it was
\* promised, or forgets it, moves sessions rightly.
LEMMA GoOnMoves ==
  ASSUME UseInv, ServersStep, NEW l \in Launcher, Changing(l),
         NEW step \in LauncherSteps \ {"kill"}, Goto(l, step),
         step \in Recording => pc[l] \in Recording,
         UNCHANGED attached,
         \/ promised[l] = 0 /\ UNCHANGED promised
         \/ promised' = [promised EXCEPT ![l] = 0]
         \/ step = "tui" /\ UNCHANGED promised
         \/ step \in {"judge", "save"} /\ Reachable /\ promised' = [promised EXCEPT ![l] = socket]
  PROVE  Moves(l)
<1>1. /\ pc \in [Launcher -> LauncherSteps] /\ child \in [Launcher -> {0} \union Pids]
      /\ promised \in [Launcher -> {0} \union Pids]
  BY DEF UseInv, LauncherInv, PlaceOK, SessionOK
<1>2. pc' = [pc EXCEPT ![l] = step] /\ child' \in {child, [child EXCEPT ![l] = 0]}
  BY DEF Goto
<1>3. \A m \in Launcher \ {l} :
        /\ pc'[m] = pc[m] /\ child'[m] = child[m]
        /\ promised'[m] = promised[m] /\ attached'[m] = attached[m]
  BY <1>1, <1>2
<1>4. pc'[l] = step
  BY <1>1, <1>2
<1>5. ASSUME step \in MayEnd, Alive(child[l])', NEW m \in Launcher \ {l}
      PROVE  promised'[m] # child'[l]
  <2>1. child'[l] = child[l] /\ pc[l] \in MayEnd
    BY <1>2, <1>5 DEF Goto, MayEnd, Recording, Ended
  <2>2. child[l] \in Pids
    BY <1>1, <1>5, <2>1 DEF Alive, Pids
  <2>3. Alive(child[l])
    BY <1>5, <2>1, <2>2 DEF ServersStep
  <2> QED BY <1>3, <2>1, <2>3 DEF UseInv, Unused
<1>6. promised'[l] # 0 =>
       /\ step \in {"judge", "save", "tui"}
       /\ \/ promised'[l] = promised[l]
          \/ promised'[l] = socket /\ Reachable /\ Changing(l)
  BY <1>1
<1> QED BY <1>3, <1>4, <1>5, <1>6 DEF Moves

\* It is promised nothing at most of its steps.
LEMMA PromisedNothing ==
  ASSUME UseInv, NEW l \in Launcher,
         pc[l] \notin {"judge", "save", "tui", "running", "gone"}
  PROVE  promised[l] = 0
BY DEF UseInv, PromisedWhere

\* A launcher starts or ends a session alone.
LEMMA AloneMeansNobody ==
  ASSUME ~overlap, NEW l \in Launcher, Alone(l)
  PROVE  \A m \in Launcher \ {l} : ~Changing(m)
BY DEF Alone

\* Once the server behind the socket is found empty nobody uses it.
LEMMA EmptyMeansUnused ==
  ASSUME UseInv, NEW l \in Launcher, pc[l] = "ask", Reachable, Empty(socket),
         Alive(child[l]), NEW m \in Launcher
  PROVE  promised[m] # child[l]
<1>1. SUFFICES ASSUME promised[m] = child[l] PROVE FALSE
  OBVIOUS
<1>2. Alive(promised[m]) /\ promised[m] # 0
  BY <1>1 DEF Alive, Pids
<1>3. promised[m] = socket
  BY <1>2, PromisedIsReachable
<1>4. m # l
  BY <1>2 DEF UseInv, PromisedWhere
<1>5. ~Changing(m)
  BY <1>4 DEF UseInv, OneChanges, Changing, CleanupSteps
<1>6. pc[m] \in {"running", "gone"}
  BY <1>2, <1>5 DEF UseInv, PromisedWhere, Changing, EnsureSteps
<1>7. attached[m] = socket
  BY <1>2, <1>3, <1>6 DEF UseInv, Loaded
<1> QED BY <1>7 DEF Empty, loaded_threads

LEMMA InitGivesUse ==
  ASSUME Init
  PROVE  UseInv
<1>1. LauncherInv
  BY InitGivesInv
<1>2. OneListens
  BY DEF Init, OneListens, Pids
<1>3. PromisedListened /\ PromisedWhere /\ Loaded /\ OneChanges /\ Unused
  BY DEF Init, PromisedListened, PromisedWhere, Loaded, OneChanges, Unused, Changing,
         EnsureSteps, CleanupSteps, MayEnd, Recording
<1> QED BY <1>1, <1>2, <1>3 DEF UseInv

\* Every step keeps the servers right, with or without overlap.
LEMMA StepKeepsServers ==
  ASSUME LauncherInv, OneListens, [Next]_vars
  PROVE  ServersStep
<1>a. FilesOK
  BY DEF LauncherInv
<1>1. CASE UNCHANGED <<servers, socket>>
  BY <1>1, StillServers
<1>2. ASSUME NEW l \in Launcher, Spawn(l) PROVE ServersStep
  <2>1. /\ Len(servers) \in Nat /\ Len(servers') = Len(servers) + 1
        /\ \A pid \in Pids : servers'[pid] = servers[pid]
        /\ servers'[Len(servers) + 1].state = "starting"
    <3>1. [state |-> "starting", by |-> l] \in Server
      BY DEF Server
    <3> QED BY <1>2, <1>a, <3>1, AppendProperties DEF Spawn, FilesOK, Pids
  <2>2. Pids' = Pids \union {Len(servers) + 1} /\ socket' = socket
    BY <1>2, <2>1 DEF Spawn, Pids
  <2>3. OneListens'
    BY <2>1, <2>2 DEF OneListens
  <2>4. \A pid \in Pids : Alive(pid)' => Alive(pid)
    BY <2>1 DEF Alive
  <2> QED BY <2>1, <2>2, <2>3, <2>4 DEF ServersStep
<1>3. ASSUME NEW l \in Launcher, GiveUp(l) \/ Kill(l) \/ SaveOwner(l) PROVE ServersStep
  BY <1>3, <1>a, KilledServers, StillServers DEF GiveUp, Kill, SaveOwner, UnchangedServers
<1>4. ASSUME NEW pid \in Pids, ServerStarts(pid) PROVE ServersStep
  <2>1. servers[pid] \in Server /\ servers[pid].state = "starting"
    BY <1>4, <1>a DEF FilesOK, Pids, ServerStarts
  <2>2. PICK s \in {"dead", "listening"} : servers' = [servers EXCEPT ![pid].state = s]
    BY <1>4 DEF ServerStarts
  <2>3. Pids' = Pids
    BY <1>a, <2>2, StateKeepsServers
  <2>4. servers'[pid].state = s /\ \A other \in Pids \ {pid} : servers'[other] = servers[other]
    BY <1>a, <2>1, <2>2 DEF FilesOK, Pids, Server
  <2>5. OneListens'
    <3>1. CASE Reachable
      <4>1. servers' = [servers EXCEPT ![pid].state = "dead"] /\ socket' = socket
        BY <1>4, <3>1 DEF ServerStarts
      <4>2. servers'[pid].state = "dead"
        BY <1>a, <2>1, <4>1 DEF FilesOK, Pids, Server
      <4> QED BY <2>3, <2>4, <4>1, <4>2 DEF OneListens
    <3>2. CASE ~Reachable
      <4>1. socket' = pid
        BY <1>4, <3>2 DEF ServerStarts
      <4>2. \A other \in Pids : servers[other].state # "listening"
        BY <3>2 DEF OneListens, Reachable, Pids
      <4> QED BY <2>3, <2>4, <4>1, <4>2 DEF OneListens
    <3> QED BY <3>1, <3>2
  <2> QED BY <2>1, <2>3, <2>4, <2>5 DEF ServersStep, Alive
<1>5. ASSUME NEW pid \in Pids, ServerDies(pid) PROVE ServersStep
  BY <1>5, <1>a, DyingServers DEF ServerDies
<1>6. ASSUME NEW l \in Launcher, Work(l) PROVE ServersStep
  BY <1>1, <1>2, <1>3, <1>6
  DEF Work, Probe, ConnectExisting, JudgeOwner, JudgeAbsent, ClearRecord, UnlinkDeadRecord,
      RemoveIfPid, RemoveFile, AwaitChild, ReachSocket, Reap, server_can_stop, RemoveRecord,
      UnlinkRecord, UnchangedServers
<1>7. ASSUME NEW l \in Launcher,
             LoadOwner(l) \/ Attach(l) \/ TuiExits(l) \/ OrphanExits(l) \/ Crash(l)
      PROVE  ServersStep
  BY <1>1, <1>7 DEF LoadOwner, Attach, TuiExits, OrphanExits, Crash, UnchangedServers
<1>8. ASSUME NEW pid \in Pids, Unload(pid) PROVE ServersStep
  BY <1>1, <1>8 DEF Unload, files
<1> QED BY <1>1, <1>4, <1>5, <1>6, <1>7, <1>8 DEF Next, vars

\* A thread is loaded only on a server that listens then.
LEMMA StepKeepsLoaded ==
  ASSUME ListenInv, [Next]_vars, ServersStep
  PROVE  LoadedListened'
<1>a. /\ FilesOK /\ attached \in [Launcher -> {0} \union Pids] /\ LoadedListened
      /\ lingering \subseteq Pids /\ 0 \notin Pids
  BY DEF ListenInv, LauncherInv, SessionOK, FilesOK, Pids
<1>b. ASSUME \A m \in Launcher : attached'[m] \in {0, attached[m]},
             lingering' \subseteq lingering \union ({attached[m] : m \in Launcher} \ {0})
      PROVE  LoadedListened'
  <2>1. \A m \in Launcher : attached'[m] # 0 =>
          /\ attached'[m] = attached[m] /\ attached[m] \in Pids
          /\ servers[attached[m]].state # "starting"
    BY <1>a, <1>b DEF LoadedListened
  <2>2. \A pid \in lingering' : pid \in Pids /\ servers[pid].state # "starting"
    BY <1>a, <1>b DEF LoadedListened
  <2> QED BY <2>1, <2>2 DEF LoadedListened, ServersStep
<1>1. CASE attached' = attached /\ lingering' \subseteq lingering
  BY <1>b, <1>1
<1>2. ASSUME NEW l \in Launcher, Attach(l) PROVE LoadedListened'
  <2>1. /\ attached' = [attached EXCEPT ![l] = IF Reachable THEN socket ELSE 0]
        /\ lingering' = lingering
    BY <1>2 DEF Attach, UnchangedServers
  <2>2. Reachable => socket \in Pids /\ servers[socket].state # "starting"
    BY <1>a DEF Reachable, FilesOK
  <2>3. \A m \in Launcher : attached'[m] # 0 =>
          attached'[m] \in Pids /\ servers[attached'[m]].state # "starting"
    BY <1>a, <2>1, <2>2 DEF LoadedListened
  <2>4. \A pid \in lingering' : pid \in Pids /\ servers[pid].state # "starting"
    BY <1>a, <2>1 DEF LoadedListened
  <2> QED BY <2>3, <2>4 DEF LoadedListened, ServersStep
<1>3. ASSUME NEW l \in Launcher, TuiExits(l) \/ OrphanExits(l) PROVE LoadedListened'
  <2>1. Leaves(l)
    BY <1>3 DEF TuiExits, OrphanExits
  <2>2. \A m \in Launcher : attached'[m] \in {0, attached[m]}
    BY <1>a, <2>1 DEF Leaves
  <2>3. lingering' \subseteq lingering \union ({attached[m] : m \in Launcher} \ {0})
    BY <1>a, <2>1 DEF Leaves, Alive
  <2> QED BY <1>b, <2>2, <2>3
<1>4. ASSUME NEW pid, IF Alive(pid) THEN Dies(pid) ELSE UNCHANGED <<servers, lingering, socket>>
      PROVE  lingering' \subseteq lingering
  BY <1>4 DEF Dies
<1>5. ASSUME NEW l \in Launcher, GiveUp(l) \/ Kill(l) \/ SaveOwner(l) PROVE LoadedListened'
  BY <1>1, <1>4, <1>5 DEF GiveUp, Kill, SaveOwner, UnchangedServers
<1>6. ASSUME NEW l \in Launcher, Work(l) PROVE LoadedListened'
  BY <1>1, <1>5, <1>6
  DEF Work, Probe, ConnectExisting, JudgeOwner, JudgeAbsent, ClearRecord, UnlinkDeadRecord,
      RemoveIfPid, RemoveFile, Spawn, AwaitChild, ReachSocket, Reap, server_can_stop,
      RemoveRecord, UnlinkRecord, UnchangedServers
<1>7. ASSUME NEW l \in Launcher, LoadOwner(l) \/ Crash(l) PROVE LoadedListened'
  BY <1>1, <1>7 DEF LoadOwner, Crash, UnchangedServers
<1>8. ASSUME NEW pid \in Pids, Unload(pid) \/ ServerStarts(pid) \/ ServerDies(pid)
      PROVE  LoadedListened'
  BY <1>1, <1>8 DEF Unload, ServerStarts, ServerDies, Dies
<1> QED BY <1>1, <1>2, <1>3, <1>6, <1>7, <1>8 DEF Next, vars

LEMMA StepKeepsUse ==
  ASSUME ~overlap, UseInv, [Next]_vars
  PROVE  UseInv'
<1> USE DEF LauncherSteps, EnsureSteps, CleanupSteps, Ended, MayEnd, Recording
<1>a. FilesOK /\ OwnerOK /\ PlaceOK /\ SessionOK /\ OneListens /\ LauncherInv
  BY DEF UseInv, LauncherInv
<1>b. LauncherInv' /\ ServersStep
  BY <1>a, StepKeepsInv, StepKeepsServers
<1>d. ASSUME NEW l \in Launcher, Moves(l) PROVE UseInv'
  BY <1>b, <1>d, MovesKeepUse
<1>1. ASSUME NEW l \in Launcher, LoadOwner(l) PROVE UseInv'
  <2>1. promised[l] = 0
    BY <1>1, PromisedNothing DEF LoadOwner
  <2>2. \A m \in Launcher \ {l} : ~Changing(m)
    BY <1>1, AloneMeansNobody DEF LoadOwner
  <2>3. Moves(l)
    BY <1>1, <1>a, <2>1, <2>2 DEF LoadOwner, Moves, PlaceOK
  <2> QED BY <1>d, <2>3
<1>2. ASSUME NEW l \in Launcher, Probe(l) \/ JudgeAbsent(l) \/ AwaitChild(l) \/ Reap(l)
      PROVE  UseInv'
  <2>1. Changing(l) /\ promised[l] = 0
    BY <1>2, PromisedNothing DEF Probe, JudgeAbsent, AwaitChild, Reap, Changing
  <2>2. PICK to \in LauncherSteps \ {"kill"} :
          Goto(l, to) /\ (to \in Recording => pc[l] \in Recording)
    BY <1>2 DEF Probe, JudgeAbsent, AwaitChild, Reap
  <2>3. UNCHANGED <<promised, attached>>
    BY <1>2 DEF Probe, JudgeAbsent, AwaitChild, Reap
  <2>4. Moves(l)
    BY <1>b, <2>1, <2>2, <2>3, GoOnMoves
  <2> QED BY <1>d, <2>4
<1>3. ASSUME NEW l \in Launcher, ConnectExisting(l) PROVE UseInv'
  <2>1. Changing(l) /\ promised[l] = 0
    BY <1>3, PromisedNothing DEF ConnectExisting, Changing
  <2>2. Moves(l)
    BY <1>3, <1>b, <2>1, GoOnMoves DEF ConnectExisting
  <2> QED BY <1>d, <2>2
<1>4. ASSUME NEW l \in Launcher, JudgeOwner(l) PROVE UseInv'
  <2>1. Moves(l)
    BY <1>4, <1>b, GoOnMoves DEF JudgeOwner, Changing
  <2> QED BY <1>d, <2>1
<1>5. ASSUME NEW l \in Launcher, NEW step \in EnsureSteps \union CleanupSteps, NEW pid,
             NEW unlink \in LauncherSteps \ MayEnd, NEW next \in LauncherSteps \ MayEnd,
             RemoveIfPid(l, step, pid, unlink, next), promised[l] = 0
      PROVE  UseInv'
  <2>1. Changing(l)
    BY <1>5 DEF RemoveIfPid, Changing
  <2>2. PICK to \in LauncherSteps \ MayEnd : Goto(l, to)
    BY <1>5 DEF RemoveIfPid
  <2>3. UNCHANGED <<promised, attached>>
    BY <1>5 DEF RemoveIfPid
  <2>4. Moves(l)
    BY <1>5, <1>b, <2>1, <2>2, <2>3, GoOnMoves
  <2> QED BY <1>d, <2>4
<1>6. ASSUME NEW l \in Launcher, ClearRecord(l) \/ RemoveRecord(l) PROVE UseInv'
  <2>1. promised[l] = 0
    BY <1>6, PromisedNothing DEF ClearRecord, RemoveRecord, RemoveIfPid
  <2> QED BY <1>5, <1>6, <2>1 DEF ClearRecord, RemoveRecord
<1>7. ASSUME NEW l \in Launcher, UnlinkDeadRecord(l) \/ UnlinkRecord(l) PROVE UseInv'
  <2>1. promised[l] = 0 /\ Changing(l)
    BY <1>7, PromisedNothing DEF UnlinkDeadRecord, UnlinkRecord, RemoveFile, Changing
  <2>2. PICK to \in LauncherSteps \ MayEnd : Goto(l, to)
    BY <1>7 DEF UnlinkDeadRecord, UnlinkRecord, RemoveFile
  <2>3. UNCHANGED <<promised, attached>>
    BY <1>7 DEF UnlinkDeadRecord, UnlinkRecord, RemoveFile
  <2>4. Moves(l)
    BY <1>b, <2>1, <2>2, <2>3, GoOnMoves
  <2> QED BY <1>d, <2>4
<1>8. ASSUME NEW l \in Launcher, Spawn(l) PROVE UseInv'
  <2>1. promised[l] = 0 /\ Changing(l)
    BY <1>8, PromisedNothing DEF Spawn, Changing
  <2>2. \A m \in Launcher : promised[m] # Len(servers) + 1
    BY <1>a DEF SessionOK, FilesOK, Pids
  <2>3. Moves(l)
    BY <1>8, <1>a, <2>1, <2>2 DEF Spawn, Moves, PlaceOK
  <2> QED BY <1>d, <2>3
<1>9. ASSUME NEW l \in Launcher, ReachSocket(l) PROVE UseInv'
  <2>1. promised[l] = 0 /\ Changing(l)
    BY <1>9, PromisedNothing DEF ReachSocket, Changing
  <2>2. CASE SocketAnswers(l)
    <3>1. Moves(l)
      BY <1>9, <1>b, <2>1, <2>2, GoOnMoves DEF ReachSocket, SocketAnswers
    <3> QED BY <1>d, <3>1
  <2>3. CASE /\ pc' = [pc EXCEPT ![l] = "await"]
             /\ UNCHANGED <<promised, seen, child>>
    <3>1. child[l] \in {0} \union Pids /\ 0 \notin Pids /\ pc[l] = "reach"
      BY <1>9, <1>a DEF ReachSocket, PlaceOK, Pids
    <3>2. Alive(child[l])' => Alive(child[l])
      <4>1. UNCHANGED <<servers, child>>
        BY <1>9, <2>3 DEF ReachSocket, UnchangedServers
      <4> QED BY <4>1 DEF Alive, Pids
    <3>3. Alive(child[l])' => \A m \in Launcher \ {l} : promised[m] # child[l]
      BY <3>1, <3>2 DEF UseInv, Unused
    <3>4. Moves(l)
      BY <1>9, <1>a, <2>1, <2>3, <3>3 DEF ReachSocket, Moves, PlaceOK
    <3> QED BY <1>d, <3>4
  <2> QED BY <1>9, <2>2, <2>3 DEF ReachSocket
<1>10. ASSUME NEW l \in Launcher, GiveUp(l) \/ Kill(l) PROVE UseInv'
  <2>1. promised[l] = 0 /\ Changing(l)
    BY <1>10, PromisedNothing DEF GiveUp, Kill, Changing
  <2>2. PICK to \in {"ended", "remove"} : Goto(l, to)
    BY <1>10 DEF GiveUp, Kill
  <2>3. Moves(l)
    BY <1>10, <1>b, <2>1, <2>2, GoOnMoves DEF GiveUp, Kill
  <2> QED BY <1>d, <2>3
<1>11. ASSUME NEW l \in Launcher, SaveOwner(l) PROVE UseInv'
  <2>1. Changing(l)
    BY <1>11 DEF SaveOwner, Changing
  <2>2. Moves(l)
    BY <1>11, <1>b, <2>1, GoOnMoves DEF SaveOwner
  <2> QED BY <1>d, <2>2
<1>12. ASSUME NEW l \in Launcher, server_can_stop(l) PROVE UseInv'
  <2>1. promised[l] = 0 /\ Changing(l)
    BY <1>12, PromisedNothing DEF server_can_stop, Changing
  <2>2. CASE Goto(l, "ended")
    <3>1. Moves(l)
      BY <1>12, <1>b, <2>1, <2>2, GoOnMoves DEF server_can_stop
    <3> QED BY <1>d, <3>1
  <2>3. CASE Reachable /\ Empty(socket) /\ Goto(l, "kill")
    <3>1. /\ pc' = [pc EXCEPT ![l] = "kill"] /\ UNCHANGED <<child, promised, attached>>
          /\ UnchangedServers
      BY <1>12, <2>3 DEF server_can_stop, Goto
    <3>2. Alive(child[l])' => Alive(child[l])
      BY <3>1 DEF UnchangedServers, Alive, Pids
    <3>3. Alive(child[l]) => \A m \in Launcher : promised[m] # child[l]
      BY <1>12, <2>3, EmptyMeansUnused DEF server_can_stop
    <3>4. Moves(l)
      BY <1>a, <2>1, <3>1, <3>2, <3>3 DEF Moves, PlaceOK
    <3> QED BY <1>d, <3>4
  <2> QED BY <1>12, <2>2, <2>3 DEF server_can_stop
<1>13. ASSUME NEW l \in Launcher, Attach(l) PROVE UseInv'
  <2>1. /\ pc' = [pc EXCEPT ![l] = "running"] /\ UNCHANGED <<child, promised>>
        /\ attached' = [attached EXCEPT ![l] = IF Reachable THEN socket ELSE 0]
        /\ UnchangedServers /\ pc[l] = "tui"
    BY <1>13 DEF Attach, Goto
  <2>2. Alive(promised[l])' => attached'[l] = promised[l]
    <3>1. Alive(promised[l])' => Alive(promised[l])
      BY <2>1 DEF UnchangedServers, Alive, Pids
    <3> QED BY <1>a, <2>1, <3>1, PromisedIsReachable DEF SessionOK
  <2>3. Moves(l)
    BY <1>a, <2>1, <2>2 DEF Moves, PlaceOK, SessionOK, Changing
  <2> QED BY <1>d, <2>3
<1>14. ASSUME NEW l \in Launcher, TuiExits(l) \/ OrphanExits(l) PROVE UseInv'
  <2>1. /\ promised' = [promised EXCEPT ![l] = 0] /\ attached' = [attached EXCEPT ![l] = 0]
        /\ UNCHANGED <<servers, socket>>
    BY <1>14 DEF TuiExits, OrphanExits, Leaves
  <2>2. PICK to \in {"ended", "reap", "gone"} : pc' = [pc EXCEPT ![l] = to]
    BY <1>14, <1>a DEF TuiExits, OrphanExits, Goto, PlaceOK
  <2>3. child' \in {child, [child EXCEPT ![l] = 0]}
    BY <1>14 DEF TuiExits, OrphanExits, Goto
  <2>4. to = "reap" => \A m \in Launcher \ {l} : ~Changing(m)
    BY <1>14, <1>a, <2>2, AloneMeansNobody DEF TuiExits, OrphanExits, PlaceOK
  <2>5. Moves(l)
    BY <1>a, <2>1, <2>2, <2>3, <2>4 DEF Moves, PlaceOK, SessionOK, Changing
  <2> QED BY <1>d, <2>5
<1>15. ASSUME NEW l \in Launcher, Crash(l) PROVE UseInv'
  <2>1. /\ pc' = [pc EXCEPT ![l] = "gone"] /\ child' = [child EXCEPT ![l] = 0]
        /\ promised' = [promised EXCEPT ![l] = IF pc[l] = "running" THEN @ ELSE 0]
        /\ UnchangedServers /\ UNCHANGED attached
    BY <1>15 DEF Crash, Goto
  <2>2. Alive(promised[l])' => Alive(promised[l]) \/ promised'[l] # promised[l]
    BY <1>a, <2>1 DEF UnchangedServers, Alive, Pids, SessionOK
  <2>3. promised'[l] # 0 => promised'[l] = promised[l] /\ pc[l] = "running"
    BY <1>a, <2>1 DEF SessionOK
  <2>4. promised'[l] # 0 /\ Alive(promised[l])' => attached'[l] = promised'[l]
    BY <2>1, <2>2, <2>3 DEF UseInv, Loaded
  <2>5. \A m \in Launcher \ {l} :
          /\ pc'[m] = pc[m] /\ child'[m] = child[m]
          /\ promised'[m] = promised[m] /\ attached'[m] = attached[m]
    BY <1>a, <2>1 DEF PlaceOK, SessionOK
  <2>6. pc'[l] = "gone"
    BY <1>a, <2>1 DEF PlaceOK
  <2>7. Moves(l)
    BY <2>3, <2>4, <2>5, <2>6 DEF Moves, Changing
  <2> QED BY <1>d, <2>7
<1>16. CASE UNCHANGED <<pc, child, promised, attached>>
  BY <1>b, <1>16, RestKeepsUse
<1>17. ASSUME NEW pid \in Pids, Unload(pid) \/ ServerStarts(pid) \/ ServerDies(pid)
       PROVE  UseInv'
  BY <1>16, <1>17 DEF Unload, ServerStarts, ServerDies
<1>18. CASE UNCHANGED vars
  BY <1>16, <1>18 DEF vars
<1>19. ASSUME NEW l \in Launcher, Work(l) PROVE UseInv'
  BY <1>2, <1>3, <1>4, <1>6, <1>7, <1>8, <1>9, <1>10, <1>11, <1>12, <1>19 DEF Work
<1> QED
  BY <1>1, <1>13, <1>14, <1>15, <1>17, <1>18, <1>19 DEF Next

\* Whoever moves takes a step of his own.
LEMMA OwnStep ==
  ASSUME pc \in [Launcher -> LauncherSteps], Next, NEW l \in Launcher, pc'[l] # pc[l]
  PROVE  Work(l) \/ LoadOwner(l) \/ Attach(l) \/ TuiExits(l) \/ Crash(l)
<1>1. ASSUME NEW m \in Launcher, NEW step, pc' = [pc EXCEPT ![m] = step] PROVE m = l
  BY <1>1
<1>2. ASSUME NEW m \in Launcher, Work(m) PROVE m = l
  BY <1>1, <1>2
  DEF Work, Probe, ConnectExisting, JudgeOwner, JudgeAbsent, ClearRecord, UnlinkDeadRecord,
      RemoveIfPid, RemoveFile, Spawn, AwaitChild, ReachSocket, SocketAnswers, GiveUp,
      SaveOwner, Reap, server_can_stop, Kill, RemoveRecord, UnlinkRecord, Goto
<1>3. ASSUME NEW m \in Launcher, LoadOwner(m) \/ Attach(m) \/ TuiExits(m) \/ Crash(m)
      PROVE  m = l
  BY <1>1, <1>3 DEF LoadOwner, Attach, TuiExits, Crash, Goto
<1>4. ASSUME NEW m \in Launcher, OrphanExits(m) PROVE FALSE
  BY <1>4 DEF OrphanExits
<1>5. ASSUME NEW pid \in Pids, Unload(pid) \/ ServerStarts(pid) \/ ServerDies(pid) PROVE FALSE
  BY <1>5 DEF Unload, ServerStarts, ServerDies
<1> QED BY <1>2, <1>3, <1>4, <1>5 DEF Next

\* The answer of whichever server stands behind the socket holds for the child: if it is
\* another one, the child has never listened.
LEMMA AnswerHoldsForChild ==
  ASSUME ListenInv, Next, NEW l \in Launcher, pc[l] = "ask", pc'[l] = "kill", Alive(child[l])
  PROVE  Empty(child[l])
<1>1. FilesOK /\ pc \in [Launcher -> LauncherSteps]
  BY DEF ListenInv, LauncherInv, PlaceOK
<1>2. server_can_stop(l)
  BY <1>1, OwnStep
  DEF Work, Probe, ConnectExisting, JudgeOwner, JudgeAbsent, ClearRecord, UnlinkDeadRecord,
      RemoveIfPid, RemoveFile, Spawn, AwaitChild, ReachSocket, GiveUp, SaveOwner, Reap, Kill,
      RemoveRecord, UnlinkRecord, LoadOwner, Attach, TuiExits, Crash, Goto
<1>3. Reachable /\ Empty(socket)
  BY <1>1, <1>2 DEF server_can_stop, Goto
<1>4. CASE socket = child[l]
  BY <1>3, <1>4
<1>5. CASE socket # child[l]
  <2>1. child[l] \in Pids /\ servers[child[l]] \in Server
    BY <1>1 DEF Alive, FilesOK, Pids
  <2>2. servers[child[l]].state = "starting"
    BY <1>5, <2>1 DEF ListenInv, OneListens, Alive, Server
  <2>3. \A m \in Launcher : attached[m] # child[l]
    BY <2>1, <2>2 DEF ListenInv, LoadedListened, Pids
  <2>4. child[l] \notin lingering
    BY <2>2 DEF ListenInv, LoadedListened
  <2> QED BY <2>3, <2>4 DEF Empty, loaded_threads
<1> QED BY <1>4, <1>5

\* A launcher ends no server but its child.
LEMMA EndsItsChild ==
  ASSUME LauncherInv, Next, NEW l \in Launcher, pc'[l] # pc[l],
         NEW pid \in Pids, Alive(pid), ~Alive(pid)'
  PROVE  pid = child[l] /\ pc[l] \in MayEnd
<1>1. FilesOK /\ pc \in [Launcher -> LauncherSteps]
  BY DEF LauncherInv, PlaceOK
<1>2. servers' # servers
  BY DEF Alive, Pids
<1>3. ~Spawn(l)
  <2>1. SUFFICES ASSUME Spawn(l) PROVE Alive(pid)'
    OBVIOUS
  <2>2. [state |-> "starting", by |-> l] \in Server
    BY DEF Server
  <2>3. Len(servers') = Len(servers) + 1 /\ servers'[pid] = servers[pid] /\ Len(servers) \in Nat
    BY <1>1, <2>1, <2>2, AppendProperties DEF Spawn, FilesOK, Pids
  <2> QED BY <2>3 DEF Alive, Pids
<1>4. GiveUp(l) \/ Kill(l) \/ SaveOwner(l)
  BY <1>1, <1>2, <1>3, OwnStep
  DEF Work, Probe, ConnectExisting, JudgeOwner, JudgeAbsent, ClearRecord, UnlinkDeadRecord,
      RemoveIfPid, RemoveFile, AwaitChild, ReachSocket, Reap, server_can_stop, RemoveRecord,
      UnlinkRecord, LoadOwner, Attach, TuiExits, Crash, UnchangedServers
<1>5. pc[l] \in MayEnd
  BY <1>4 DEF GiveUp, Kill, SaveOwner, MayEnd, Recording
<1>6. Alive(child[l]) /\ servers' = [servers EXCEPT ![child[l]].state = "dead"]
  BY <1>2, <1>4 DEF GiveUp, Kill, SaveOwner, Dies, UnchangedServers
<1>7. child[l] \in Pids /\ Pids' = Pids
  BY <1>1, <1>6, StateKeepsServers DEF Alive
<1>8. pid = child[l]
  BY <1>1, <1>6, <1>7 DEF Alive, Pids, FilesOK
<1> QED BY <1>5, <1>8

UseUnlessOverlap == ListenInv /\ (overlap \/ UseInv)

\* With overlap or without, a launcher goes to kill its server only when no thread is
\* loaded on it; where sessions do not overlap, no launcher ends a server that another's
\* session was started for and still uses, neither when it kills nor when it gives up or
\* cannot save the record (launcher.rs:244-253, 261-287).
THEOREM NothingInUseIsKilled == Spec => NeverKilledInUse
<1>1. Init => UseUnlessOverlap
  BY InitGivesUse, InitGivesInv DEF Init, UseUnlessOverlap, ListenInv, UseInv, LoadedListened
<1>2. UseUnlessOverlap /\ [Next]_vars => UseUnlessOverlap'
  BY StepKeepsInv, StepKeepsServers, StepKeepsLoaded, StepKeepsUse, OverlapStays
  DEF UseUnlessOverlap, ListenInv, ServersStep
<1>3. UseUnlessOverlap /\ [Next]_vars =>
        [\A l \in Launcher :
           /\ pc[l] = "ask" /\ pc'[l] = "kill" /\ Alive(child[l]) => Empty(child[l])
           /\ ~overlap /\ pc'[l] # pc[l] =>
                \A pid \in Pids, other \in Launcher \ {l} :
                  Alive(pid) /\ promised[other] = pid => Alive(pid)']_vars
  <2>1. SUFFICES ASSUME UseUnlessOverlap, Next, NEW l \in Launcher
                 PROVE  /\ pc[l] = "ask" /\ pc'[l] = "kill" /\ Alive(child[l])
                             => Empty(child[l])
                        /\ ~overlap /\ pc'[l] # pc[l] =>
                             \A pid \in Pids, other \in Launcher \ {l} :
                               Alive(pid) /\ promised[other] = pid => Alive(pid)'
    OBVIOUS
  <2>2. pc[l] = "ask" /\ pc'[l] = "kill" /\ Alive(child[l]) => Empty(child[l])
    BY <2>1, AnswerHoldsForChild DEF UseUnlessOverlap
  <2>3. ASSUME ~overlap, pc'[l] # pc[l], NEW pid \in Pids, NEW other \in Launcher \ {l},
               Alive(pid), promised[other] = pid, ~Alive(pid)'
        PROVE  FALSE
    <3>1. pid = child[l] /\ pc[l] \in MayEnd
      BY <2>1, <2>3, EndsItsChild DEF UseUnlessOverlap, ListenInv
    <3> QED BY <2>1, <2>3, <3>1 DEF UseUnlessOverlap, UseInv, Unused
  <2> QED BY <2>2, <2>3
<1> QED BY <1>1, <1>2, <1>3, PTL DEF Spec, NeverKilledInUse

-----------------------------------------------------------------------------
(* The owner record *)

\* Steps by what is known at them.
FirstReading == {"probe", "connect", "judge", "absent", "clear"}
Deserted == {"absent", "clear", "unlinkDead", "spawn"}
Starting == {"await", "reach"}
Unasked == Recording \union {"tui", "running", "reap", "ask", "kill"}

\* A server that lives listens, or is the child of a launcher that waits for it.
AliveListens ==
  \A pid \in Pids :
    Alive(pid) => \/ servers[pid].state = "listening"
                  \/ \E l \in Launcher : child[l] = pid /\ pc[l] \in Starting

\* If the recorded process is, for the code, alive and an app-server of a launcher,
\* there is no other server.
RecordedLives ==
  owner # 0 /\ matches(owner) /\ process_is_alive(owner)
    => \A pid \in Pids : Alive(pid) => pid = owner

\* What launcher l knows of record and servers where it stands.
RecordOf(l) ==
  /\ pc[l] \in Deserted => \A pid \in Pids : ~Alive(pid)
  /\ pc[l] \in Recording => \A pid \in Pids : Alive(pid) => pid = child[l]
  /\ pc[l] \in {"spawn"} \union Recording => owner = 0
  /\ pc[l] \in FirstReading => seen[l] = owner
  /\ pc[l] = "tui" /\ Reachable => owner = socket
  /\ pc[l] = "running" /\ Alive(attached[l]) => owner = attached[l]
  /\ pc[l] \in {"remove", "unlink"} => ~Alive(child[l])
  /\ pc[l] = "unlink" => owner = child[l]
  /\ child[l] # 0 => pc[l] \in Unasked \union CleanupSteps

RecordInv == UseInv /\ AliveListens /\ RecordedLives /\ \A l \in Launcher : RecordOf(l)

\* No server is started or begins to listen; some may end.
Worse ==
  /\ Pids' = Pids
  /\ \A pid \in Pids : /\ servers'[pid].by = servers[pid].by
                       /\ servers'[pid].state \in {servers[pid].state, "dead"}

Stays(m) ==
  pc'[m] = pc[m] /\ seen'[m] = seen[m] /\ child'[m] = child[m] /\ attached'[m] = attached[m]

\* m forgets no child that starts, and gets none.
Steady(m) ==
  /\ \A pid \in Pids :
       Alive(pid)' /\ child[m] = pid /\ pc[m] \in Starting =>
         \/ servers'[pid].state = "listening"
         \/ child'[m] = pid /\ pc'[m] \in Starting
  /\ child'[m] # 0 /\ pc'[m] \in Unasked => child'[m] = child[m] /\ pc[m] \in Unasked

LEMMA StillIsWorse ==
  ASSUME UNCHANGED servers
  PROVE  Worse
BY DEF Worse, Pids

LEMMA DeadIsWorse ==
  ASSUME FilesOK, NEW pid \in Pids, servers' = [servers EXCEPT ![pid].state = "dead"]
  PROVE  Worse /\ ~Alive(pid)'
<1>1. servers[pid] \in Server /\ Pids' = Pids
  BY StateKeepsServers DEF FilesOK, Pids
<1>2. servers'[pid].state = "dead" /\ servers'[pid].by = servers[pid].by
      /\ \A other \in Pids \ {pid} : servers'[other] = servers[other]
  BY <1>1 DEF FilesOK, Pids, Server
<1> QED BY <1>1, <1>2 DEF Worse, Alive

LEMMA KillIsWorse ==
  ASSUME FilesOK, NEW pid,
         IF Alive(pid) THEN Dies(pid) ELSE UNCHANGED <<servers, lingering, socket>>
  PROVE  Worse /\ ~Alive(pid)'
BY DeadIsWorse, StillIsWorse DEF Alive, Dies, Pids

\* Nobody comes to life, and who listens afterwards was behind the socket before.
LEMMA WorseFacts ==
  ASSUME UseInv, UseInv', Worse
  PROVE  /\ \A pid : Alive(pid)' => Alive(pid)
         /\ Reachable' => Reachable /\ socket' = socket
         /\ \A pid \in Pids : matches(pid)' => matches(pid)
<1>1. \A pid : Alive(pid)' => Alive(pid)
  BY DEF Worse, Alive
<1>2. ASSUME Reachable' PROVE Reachable /\ socket' = socket
  <2>1. socket' \in Pids /\ servers'[socket'].state = "listening"
    BY <1>2 DEF Reachable, UseInv, LauncherInv, FilesOK, Worse
  <2>2. servers[socket'].state = "listening"
    BY <2>1 DEF Worse
  <2>3. socket = socket'
    BY <2>1, <2>2 DEF UseInv, OneListens
  <2> QED BY <2>1, <2>2, <2>3 DEF Reachable, Pids
<1> QED BY <1>1, <1>2 DEF Worse, matches

\* Who stays where it is knows what it knew.
LEMMA StayingKnows ==
  ASSUME RecordInv, UseInv', Worse, UNCHANGED owner, NEW m \in Launcher, Stays(m)
  PROVE  RecordOf(m)'
<1>1. RecordOf(m) /\ UseInv
  BY DEF RecordInv
<1>2. /\ \A pid : Alive(pid)' => Alive(pid)
      /\ Reachable' => Reachable /\ socket' = socket
      /\ Pids' = Pids
  BY <1>1, WorseFacts DEF Worse
<1> QED BY <1>1, <1>2 DEF RecordOf, Stays, Alive

\* If servers only end and the record stays, the invariant is about each launcher.
LEMMA WorseKeepsRecord ==
  ASSUME RecordInv, UseInv', Worse, UNCHANGED owner,
         \A m \in Launcher : RecordOf(m)' /\ Steady(m)
  PROVE  RecordInv'
<1>1. UseInv /\ owner \in {0} \union Pids
  BY DEF RecordInv, UseInv, LauncherInv, OwnerOK
<1>2. /\ \A pid : Alive(pid)' => Alive(pid)
      /\ \A pid \in Pids : matches(pid)' => matches(pid)
      /\ Pids' = Pids
  BY <1>1, WorseFacts DEF Worse
<1>3. AliveListens'
  <2>1. SUFFICES ASSUME NEW pid \in Pids, Alive(pid)'
                 PROVE  \/ servers'[pid].state = "listening"
                        \/ \E l \in Launcher : child'[l] = pid /\ pc'[l] \in Starting
    BY <1>2 DEF AliveListens
  <2>2. CASE servers[pid].state = "listening"
    BY <2>1, <2>2, <1>2 DEF Worse, Alive
  <2>3. ASSUME NEW l \in Launcher, child[l] = pid, pc[l] \in Starting
        PROVE  \/ servers'[pid].state = "listening"
               \/ \E m \in Launcher : child'[m] = pid /\ pc'[m] \in Starting
    BY <2>1, <2>3 DEF Steady
  <2> QED BY <1>2, <2>1, <2>2, <2>3 DEF RecordInv, AliveListens
<1>4. RecordedLives'
  <2>1. SUFFICES ASSUME owner # 0, matches(owner)', process_is_alive(owner)',
                        NEW pid \in Pids, Alive(pid)'
                 PROVE  pid = owner
    BY <1>2 DEF RecordedLives
  <2>2. matches(owner)
    BY <1>1, <1>2, <2>1
  <2>3. process_is_alive(owner)
    <3>1. CASE Alive(owner)'
      BY <1>2, <3>1 DEF process_is_alive
    <3>2. CASE Unreaped(owner)'
      <4>1. PICK l \in Launcher : child'[l] = owner /\ pc'[l] \in Unasked
        BY <3>2 DEF Unreaped, Unasked
      <4>2. child[l] = owner /\ pc[l] \in Unasked
        BY <2>1, <4>1 DEF Steady
      <4> QED BY <4>2 DEF process_is_alive, Unreaped, Unasked
    <3> QED BY <2>1, <3>1, <3>2 DEF process_is_alive
  <2> QED BY <1>2, <2>1, <2>2, <2>3 DEF RecordInv, RecordedLives
<1> QED BY <1>3, <1>4 DEF RecordInv

LEMMA StayingIsSteady ==
  ASSUME NEW m, Stays(m)
  PROVE  Steady(m)
BY DEF Stays, Steady

\* One launcher moves ...
LEMMA MoveKeepsRecord ==
  ASSUME RecordInv, UseInv', Worse, UNCHANGED owner, NEW l \in Launcher,
         \A m \in Launcher \ {l} : Stays(m), RecordOf(l)', Steady(l)
  PROVE  RecordInv'
BY WorseKeepsRecord, StayingKnows, StayingIsSteady

\* ... or none.
LEMMA RestKeepsRecord ==
  ASSUME RecordInv, UseInv', Worse, UNCHANGED <<owner, pc, seen, child, attached>>
  PROVE  RecordInv'
<1>1. \A m \in Launcher : Stays(m)
  BY DEF Stays
<1> QED BY <1>1, WorseKeepsRecord, StayingKnows, StayingIsSteady

-----------------------------------------------------------------------------
(* Facts at single steps *)

LEMMA GotoFacts ==
  ASSUME LauncherInv, NEW l \in Launcher, NEW step, Goto(l, step)
  PROVE  /\ pc'[l] = step
         /\ \A m \in Launcher \ {l} :
              pc'[m] = pc[m] /\ seen'[m] = seen[m] /\ child'[m] = child[m]
         /\ IF step \in Ended THEN child'[l] = 0
                              ELSE child'[l] = child[l] /\ seen'[l] = seen[l]
BY DEF LauncherInv, PlaceOK, Goto

\* Without a socket no server lives, but for a child just started.
LEMMA NobodyLives ==
  ASSUME RecordInv, NEW l \in Launcher, Changing(l), pc[l] \notin Starting, socket = 0
  PROVE  \A pid \in Pids : ~Alive(pid)
<1>1. SUFFICES ASSUME NEW pid \in Pids, Alive(pid) PROVE FALSE
  OBVIOUS
<1>2. servers[pid].state # "listening"
  BY DEF RecordInv, UseInv, OneListens, Pids
<1>3. PICK m \in Launcher : pc[m] \in Starting
  BY <1>1, <1>2 DEF RecordInv, AliveListens
<1>4. Changing(m)
  BY <1>3 DEF Changing, Starting, EnsureSteps
<1> QED BY <1>3, <1>4 DEF RecordInv, UseInv, OneChanges

\* Who moves alone.
LEMMA OthersRest ==
  ASSUME RecordInv, NEW l \in Launcher, Changing(l), NEW m \in Launcher \ {l}
  PROVE  /\ pc[m] \notin {"probe", "tui"} \union EnsureSteps \union CleanupSteps
         /\ pc[m] \notin Deserted \union Recording \union FirstReading
BY DEF RecordInv, UseInv, OneChanges, Changing, EnsureSteps, Deserted, Recording, FirstReading

\* The server behind the socket lives.
LEMMA ReachableLives ==
  ASSUME RecordInv, Reachable
  PROVE  socket \in Pids /\ Alive(socket) /\ servers[socket].state = "listening"
BY DEF RecordInv, UseInv, LauncherInv, FilesOK, Reachable, Alive

\* A launcher goes on, servers may end, the record stays.
LEMMA GoOnKeepsRecord ==
  ASSUME RecordInv, UseInv', Worse, UNCHANGED owner, NEW l \in Launcher, NEW step,
         Goto(l, step), \A m \in Launcher \ {l} : attached'[m] = attached[m],
         RecordOf(l)',
         \A pid \in Pids : Alive(pid)' /\ child[l] = pid /\ pc[l] \in Starting =>
           servers'[pid].state = "listening" \/ step \in Starting,
         step \in Unasked => pc[l] \in Unasked \/ child[l] = 0
  PROVE  RecordInv'
<1>1. /\ pc'[l] = step
      /\ \A m \in Launcher \ {l} :
           pc'[m] = pc[m] /\ seen'[m] = seen[m] /\ child'[m] = child[m]
      /\ IF step \in Ended THEN child'[l] = 0
                           ELSE child'[l] = child[l] /\ seen'[l] = seen[l]
  BY GotoFacts DEF RecordInv, UseInv
<1>2. \A m \in Launcher \ {l} : Stays(m)
  BY <1>1 DEF Stays
<1>3. Steady(l)
  BY <1>1 DEF Steady, Starting, Ended
<1> QED BY <1>2, <1>3, MoveKeepsRecord

\* Removing a record that names no server that lives.
LEMMA RemovalKeepsRecord ==
  ASSUME RecordInv, UseInv', NEW l \in Launcher, NEW step, NEW next \in {"spawn", "ended"},
         RemoveFile(l, step, next), Changing(l), ~Alive(owner),
         pc[l] \notin Starting, child[l] = 0 \/ next = "ended",
         next = "spawn" => \A pid \in Pids : ~Alive(pid)
  PROVE  RecordInv'
<1>1. UNCHANGED <<servers, socket, attached>> /\ owner' = 0 /\ Pids' = Pids
  BY DEF RemoveFile, Pids
<1>2. PICK to \in {next, "ended"} : Goto(l, to)
  BY DEF RemoveFile
<1>3. /\ pc'[l] = to
      /\ \A m \in Launcher \ {l} :
           pc'[m] = pc[m] /\ seen'[m] = seen[m] /\ child'[m] = child[m]
      /\ IF to \in Ended THEN child'[l] = 0
                         ELSE child'[l] = child[l] /\ seen'[l] = seen[l]
  BY <1>2, GotoFacts DEF RecordInv, UseInv
<1>4. AliveListens'
  BY <1>1, <1>3 DEF RecordInv, AliveListens, Alive
<1>5. RecordedLives'
  BY <1>1 DEF RecordedLives
<1>6. ASSUME NEW m \in Launcher \ {l} PROVE RecordOf(m)'
  <2>1. RecordOf(m) /\ pc'[m] = pc[m] /\ child'[m] = child[m]
    BY <1>3, <1>6 DEF RecordInv
  <2>2. pc[m] \notin {"tui"} \union CleanupSteps \union Deserted \union Recording \union FirstReading
    BY <1>6, OthersRest
  <2>3. pc[m] = "running" => ~Alive(attached[m])
    BY <2>1 DEF RecordOf
  <2> QED BY <1>1, <2>1, <2>2, <2>3
          DEF RecordOf, Alive, CleanupSteps, Deserted, Recording, FirstReading
<1>7. RecordOf(l)'
  BY <1>1, <1>3 DEF RecordOf, Alive, Deserted, Recording, FirstReading, Ended
<1> QED BY <1>4, <1>5, <1>6, <1>7 DEF RecordInv

\* The record is written, or not, by the launcher whose child is the only server.
LEMMA SaveKeepsRecord ==
  ASSUME RecordInv, UseInv', NEW l \in Launcher, pc[l] = "save", Worse,
         owner' \in {owner, child[l]}, UNCHANGED attached,
         NEW step \in {"tui", "ended"}, Goto(l, step), step = "tui" => owner' = child[l]
  PROVE  RecordInv'
<1>1. /\ pc'[l] = step
      /\ \A m \in Launcher \ {l} :
           pc'[m] = pc[m] /\ seen'[m] = seen[m] /\ child'[m] = child[m]
      /\ IF step \in Ended THEN child'[l] = 0
                           ELSE child'[l] = child[l] /\ seen'[l] = seen[l]
  BY GotoFacts DEF RecordInv, UseInv
<1>2. owner = 0 /\ \A pid \in Pids : Alive(pid) => pid = child[l]
  BY DEF RecordInv, RecordOf, Recording
<1>3. Changing(l)
  BY DEF Changing, EnsureSteps
<1>4. /\ \A pid : Alive(pid)' => Alive(pid)
      /\ Reachable' => Reachable /\ socket' = socket
      /\ Pids' = Pids
  BY WorseFacts DEF Worse, RecordInv
<1>5. AliveListens'
  <2>1. SUFFICES ASSUME NEW pid \in Pids, Alive(pid)'
                 PROVE  servers'[pid].state = "listening"
    BY <1>4 DEF AliveListens
  <2>2. pid = child[l] /\ Alive(pid)
    BY <1>2, <1>4, <2>1
  <2>3. ~\E m \in Launcher : pc[m] \in Starting
    BY <1>3 DEF RecordInv, UseInv, OneChanges, Changing, Starting, EnsureSteps
  <2>4. servers[pid].state = "listening"
    BY <2>2, <2>3 DEF RecordInv, AliveListens
  <2> QED BY <2>1, <2>4 DEF Worse, Alive
<1>6. RecordedLives'
  <2>1. CASE owner' = 0
    BY <2>1 DEF RecordedLives
  <2>2. CASE owner' = child[l]
    BY <1>2, <1>4, <2>2 DEF RecordedLives
  <2> QED BY <1>2, <2>1, <2>2
<1>7. ASSUME NEW m \in Launcher \ {l} PROVE RecordOf(m)'
  <2>1. RecordOf(m) /\ pc'[m] = pc[m] /\ child'[m] = child[m]
    BY <1>1, <1>7 DEF RecordInv
  <2>2. pc[m] \notin {"tui"} \union CleanupSteps \union Deserted \union Recording \union FirstReading
    BY <1>3, <1>7, OthersRest
  <2>3. pc[m] = "running" => ~Alive(attached[m])
    BY <1>2, <2>1 DEF RecordOf, Alive, Pids
  <2>4. pc[m] = "running" => ~Alive(attached[m])'
    BY <1>4, <2>3
  <2> QED BY <2>1, <2>2, <2>4
          DEF RecordOf, CleanupSteps, Deserted, Recording, FirstReading
<1>8. RecordOf(l)'
  <2>1. CASE step = "ended"
    BY <1>1, <2>1 DEF RecordOf, Deserted, Recording, FirstReading, Ended
  <2>2. CASE step = "tui"
    <3>1. Reachable' => owner' = socket'
      BY <1>2, <1>4, <2>2, ReachableLives
    <3> QED BY <1>1, <2>2, <3>1
            DEF RecordOf, Deserted, Recording, FirstReading, Unasked
  <2> QED BY <2>1, <2>2
<1> QED BY <1>5, <1>6, <1>7, <1>8 DEF RecordInv

\* A new server is the only one.
LEMMA SpawnKeepsRecord ==
  ASSUME RecordInv, UseInv', NEW l \in Launcher, Spawn(l)
  PROVE  RecordInv'
<1>1. LauncherInv /\ servers \in Seq(Server) /\ [state |-> "starting", by |-> l] \in Server
      /\ attached \in [Launcher -> {0} \union Pids]
  BY DEF RecordInv, UseInv, LauncherInv, FilesOK, SessionOK, Server
<1>2. /\ Len(servers) \in Nat /\ Len(servers') = Len(servers) + 1
      /\ \A pid \in Pids : servers'[pid] = servers[pid]
      /\ Pids' = Pids \union {Len(servers) + 1}
  BY <1>1, AppendProperties DEF Spawn, Pids
<1>3. /\ pc[l] = "spawn" /\ Changing(l) /\ owner = 0 /\ \A pid \in Pids : ~Alive(pid)
  BY DEF Spawn, RecordInv, RecordOf, Changing, EnsureSteps, Deserted
<1>4. /\ pc'[l] = "await" /\ child'[l] = Len(servers) + 1
      /\ \A m \in Launcher \ {l} : pc'[m] = pc[m] /\ child'[m] = child[m]
      /\ UNCHANGED <<socket, owner, seen, attached>>
  BY <1>1 DEF Spawn, LauncherInv, PlaceOK
<1>5. \A pid \in Pids' : Alive(pid)' => pid = Len(servers) + 1
  BY <1>2, <1>3 DEF Alive
<1>6. AliveListens'
  BY <1>4, <1>5 DEF AliveListens, Starting
<1>7. RecordedLives'
  BY <1>3, <1>4 DEF RecordedLives
<1>8. ASSUME NEW m \in Launcher \ {l} PROVE RecordOf(m)'
  <2>1. RecordOf(m) /\ pc'[m] = pc[m] /\ child'[m] = child[m]
    BY <1>4, <1>8 DEF RecordInv
  <2>2. pc[m] \notin {"tui"} \union CleanupSteps \union Deserted \union Recording \union FirstReading
    BY <1>3, <1>8, OthersRest
  <2>3. ~Alive(attached[m])'
    BY <1>1, <1>2, <1>4, <1>5 DEF Alive, Pids
  <2> QED BY <2>1, <2>2, <2>3
          DEF RecordOf, CleanupSteps, Deserted, Recording, FirstReading
<1>9. RecordOf(l)'
  BY <1>3, <1>4, <1>5 DEF RecordOf, Deserted, Recording, FirstReading, Unasked
<1> QED BY <1>6, <1>7, <1>8, <1>9 DEF RecordInv

\* A server that begins to listen is the child of a launcher that waits for it.
LEMMA StartKeepsRecord ==
  ASSUME RecordInv, UseInv', NEW pid \in Pids, ServerStarts(pid)
  PROVE  RecordInv'
<1>1. FilesOK /\ servers[pid] \in Server /\ servers[pid].state = "starting"
  BY DEF RecordInv, UseInv, LauncherInv, FilesOK, Pids, ServerStarts
<1>2. UNCHANGED <<owner, pc, seen, child, attached>>
  BY DEF ServerStarts
<1>3. CASE Reachable
  BY <1>1, <1>2, <1>3, DeadIsWorse, RestKeepsRecord DEF ServerStarts
<1>4. CASE ~Reachable
  <2>1. servers' = [servers EXCEPT ![pid].state = "listening"] /\ socket' = pid
    BY <1>4 DEF ServerStarts
  <2>2. Pids' = Pids
    BY <1>1, <2>1, StateKeepsServers
  <2>3. /\ servers'[pid].state = "listening" /\ servers'[pid].by = servers[pid].by
        /\ \A other \in Pids \ {pid} : servers'[other] = servers[other]
    BY <1>1, <2>1 DEF FilesOK, Pids, Server
  <2>4. \A other : Alive(other)' <=> Alive(other)
    BY <1>1, <2>2, <2>3 DEF Alive
  <2>5. PICK m \in Launcher : child[m] = pid /\ pc[m] \in Starting
    BY <1>1 DEF RecordInv, AliveListens, Alive
  <2>6. \A l \in Launcher : pc[l] # "tui"
    BY <2>5 DEF RecordInv, UseInv, OneChanges, Changing, Starting, EnsureSteps
  <2>7. AliveListens'
    BY <1>2, <2>2, <2>3, <2>4 DEF RecordInv, AliveListens
  <2>8. RecordedLives'
    <3>1. owner \in {0} \union Pids
      BY DEF RecordInv, UseInv, LauncherInv, OwnerOK
    <3>2. owner # 0 => (matches(owner)' => matches(owner))
      BY <1>2, <2>3, <3>1 DEF matches
    <3>3. process_is_alive(owner)' => process_is_alive(owner)
      BY <1>2, <2>4 DEF process_is_alive, Unreaped
    <3> QED BY <1>2, <2>2, <2>4, <3>2, <3>3 DEF RecordInv, RecordedLives
  <2>9. ASSUME NEW l \in Launcher PROVE RecordOf(l)'
    BY <1>2, <2>2, <2>4, <2>6, <2>9 DEF RecordInv, RecordOf
  <2> QED BY <2>7, <2>8, <2>9 DEF RecordInv
<1> QED BY <1>3, <1>4

-----------------------------------------------------------------------------
(* Init and the steps *)

LEMMA InitGivesRecord ==
  ASSUME Init
  PROVE  RecordInv
<1>1. UseInv
  BY InitGivesUse
<1>2. AliveListens
  BY DEF Init, AliveListens, Alive, Pids
<1>3. RecordedLives
  BY DEF Init, RecordedLives, matches
<1>4. \A l \in Launcher : RecordOf(l)
  BY DEF Init, RecordOf, Deserted, Recording, FirstReading
<1> QED BY <1>1, <1>2, <1>3, <1>4 DEF RecordInv

LEMMA StepKeepsRecord ==
  ASSUME ~overlap, "orphan" \notin LauncherFaults, RecordInv, [Next]_vars
  PROVE  RecordInv'
<1> USE DEF Deserted, Recording, FirstReading, Starting, Unasked, EnsureSteps, CleanupSteps, Ended
<1>a. UseInv /\ UseInv' /\ FilesOK /\ LauncherInv
  BY StepKeepsUse DEF RecordInv, UseInv, LauncherInv
<1>b. ASSUME UnchangedServers PROVE Worse /\ UNCHANGED owner
  BY <1>b, StillIsWorse DEF UnchangedServers
<1>c. ASSUME UnchangedServers
      PROVE  /\ Pids' = Pids /\ \A pid : Alive(pid)' <=> Alive(pid)
             /\ Reachable' <=> Reachable
  BY <1>c DEF UnchangedServers, Pids, Alive, Reachable
<1>d. ASSUME NEW l \in Launcher PROVE RecordOf(l) /\ child[l] \in {0} \union Pids
  BY <1>a DEF RecordInv, LauncherInv, PlaceOK
<1>1. ASSUME NEW l \in Launcher, LoadOwner(l) PROVE RecordInv'
  <2>1. /\ pc' = [pc EXCEPT ![l] = "probe"] /\ seen' = [seen EXCEPT ![l] = owner]
        /\ UnchangedServers /\ UNCHANGED <<child, attached>> /\ pc[l] = "idle"
    BY <1>1 DEF LoadOwner
  <2>2. pc'[l] = "probe" /\ seen'[l] = owner /\ child[l] = 0
    BY <1>a, <1>d, <2>1 DEF LauncherInv, PlaceOK, RecordOf
  <2>3. \A m \in Launcher \ {l} : Stays(m)
    BY <1>a, <2>1 DEF LauncherInv, PlaceOK, Stays
  <2>4. RecordOf(l)' /\ Steady(l)
    BY <1>b, <2>1, <2>2 DEF RecordOf, Steady
  <2> QED BY <1>a, <1>b, <2>1, <2>3, <2>4, MoveKeepsRecord
<1>2. ASSUME NEW l \in Launcher, Probe(l) PROVE RecordInv'
  <2>1. PICK step \in {"connect", "absent"} :
          Goto(l, step) /\ (step = "absent" => socket = 0)
    BY <1>2 DEF Probe
  <2>2. pc[l] = "probe" /\ UnchangedServers /\ UNCHANGED attached
    BY <1>2 DEF Probe
  <2>3. step = "absent" => \A pid \in Pids : ~Alive(pid)
    BY <2>1, <2>2, NobodyLives DEF Changing
  <2>4. RecordOf(l)'
    BY <1>a, <1>b, <1>c, <1>d, <2>1, <2>2, <2>3, GotoFacts DEF RecordOf
  <2> QED BY <1>a, <1>b, <2>1, <2>2, <2>4, GoOnKeepsRecord
<1>3. ASSUME NEW l \in Launcher, ConnectExisting(l) PROVE RecordInv'
  <2>1. PICK step \in {"judge", "ended"} : Goto(l, step)
    BY <1>3 DEF ConnectExisting
  <2>2. pc[l] = "connect" /\ UnchangedServers /\ UNCHANGED attached
    BY <1>3 DEF ConnectExisting
  <2>3. RecordOf(l)'
    BY <1>a, <1>b, <1>c, <1>d, <2>1, <2>2, GotoFacts DEF RecordOf
  <2> QED BY <1>a, <1>b, <2>1, <2>2, <2>3, GoOnKeepsRecord
<1>4. ASSUME NEW l \in Launcher, JudgeOwner(l) PROVE RecordInv'
  <2>1. PICK step \in {"tui", "ended"} :
          /\ Goto(l, step)
          /\ step = "tui" => seen[l] # 0 /\ matches(seen[l]) /\ process_is_alive(seen[l])
    BY <1>4 DEF JudgeOwner
  <2>2. pc[l] = "judge" /\ UnchangedServers /\ UNCHANGED attached
    BY <1>4 DEF JudgeOwner
  <2>3. child[l] = 0 /\ seen[l] = owner
    BY <1>d, <2>2 DEF RecordOf
  <2>4. step = "tui" /\ Reachable => owner = socket
    BY <2>1, <2>3, ReachableLives DEF RecordInv, RecordedLives
  <2>5. UNCHANGED <<servers, socket, owner>>
    BY <2>2 DEF UnchangedServers
  <2>6. RecordOf(l)'
    BY <1>a, <1>c, <2>1, <2>2, <2>3, <2>4, <2>5, GotoFacts DEF RecordOf
  <2> QED BY <1>a, <1>b, <2>1, <2>2, <2>3, <2>6, GoOnKeepsRecord
<1>5. ASSUME NEW l \in Launcher, JudgeAbsent(l) PROVE RecordInv'
  <2>1. PICK step \in {"spawn", "ended", "clear"} :
          Goto(l, step) /\ (step = "spawn" => seen[l] = 0)
    BY <1>5 DEF JudgeAbsent
  <2>2. pc[l] = "absent" /\ UnchangedServers /\ UNCHANGED attached
    BY <1>5 DEF JudgeAbsent
  <2>3. RecordOf(l)'
    BY <1>a, <1>b, <1>c, <1>d, <2>1, <2>2, GotoFacts DEF RecordOf
  <2> QED BY <1>a, <1>b, <2>1, <2>2, <2>3, GoOnKeepsRecord
<1>6. ASSUME NEW l \in Launcher, ClearRecord(l) PROVE RecordInv'
  <2>1. pc[l] = "clear" /\ UnchangedServers /\ UNCHANGED attached
    BY <1>6 DEF ClearRecord, RemoveIfPid
  <2>2. Goto(l, "unlinkDead")
    BY <1>6, <1>d, <2>1 DEF ClearRecord, RemoveIfPid, RecordOf
  <2>3. RecordOf(l)'
    BY <1>a, <1>b, <1>c, <1>d, <2>1, <2>2, GotoFacts DEF RecordOf
  <2> QED BY <1>a, <1>b, <2>1, <2>2, <2>3, GoOnKeepsRecord
<1>7. ASSUME NEW l \in Launcher, UnlinkDeadRecord(l) PROVE RecordInv'
  <2>1. pc[l] = "unlinkDead" /\ Changing(l) /\ child[l] = 0 /\ \A pid \in Pids : ~Alive(pid)
    BY <1>7, <1>d DEF UnlinkDeadRecord, RemoveFile, Changing, RecordOf
  <2>2. ~Alive(owner)
    BY <2>1 DEF Alive
  <2> QED BY <1>7, <1>a, <2>1, <2>2, RemovalKeepsRecord DEF UnlinkDeadRecord
<1>8. ASSUME NEW l \in Launcher, Spawn(l) PROVE RecordInv'
  BY <1>8, <1>a, SpawnKeepsRecord
<1>9. ASSUME NEW l \in Launcher, AwaitChild(l) PROVE RecordInv'
  <2>1. PICK step \in {"reach", "ended"} :
          Goto(l, step) /\ (step = "ended" => ~Alive(child[l]))
    BY <1>9 DEF AwaitChild
  <2>2. pc[l] = "await" /\ UnchangedServers /\ UNCHANGED attached
    BY <1>9 DEF AwaitChild
  <2>3. RecordOf(l)'
    BY <1>a, <1>b, <1>c, <1>d, <2>1, <2>2, GotoFacts DEF RecordOf
  <2>4. \A pid \in Pids : Alive(pid)' /\ child[l] = pid => step = "reach"
    BY <1>c, <2>1, <2>2
  <2> QED BY <1>a, <1>b, <2>1, <2>2, <2>3, <2>4, GoOnKeepsRecord
<1>10. ASSUME NEW l \in Launcher, ReachSocket(l) PROVE RecordInv'
  <2>1. pc[l] = "reach" /\ UnchangedServers /\ UNCHANGED attached
    BY <1>10 DEF ReachSocket
  <2>2. CASE SocketAnswers(l)
    <3>1. Goto(l, "save") /\ Reachable
      BY <2>2 DEF SocketAnswers
    <3>2. RecordOf(l)'
      BY <1>a, <1>b, <1>c, <1>d, <2>1, <3>1, GotoFacts DEF RecordOf
    <3>3. servers[child[l]].state = "listening"
      BY <1>d, <2>1, <3>1, ReachableLives DEF RecordOf
    <3>4. servers'[child[l]].state = "listening"
      BY <2>1, <3>3 DEF UnchangedServers
    <3> QED BY <1>a, <1>b, <2>1, <3>1, <3>2, <3>4, GoOnKeepsRecord
  <2>3. CASE pc' = [pc EXCEPT ![l] = "await"] /\ UNCHANGED <<seen, child>>
    <3>1. Goto(l, "await") \/ UNCHANGED <<seen, child>>
      BY <2>3
    <3>2. pc'[l] = "await" /\ child'[l] = child[l] /\ \A m \in Launcher \ {l} : Stays(m)
      BY <1>a, <2>1, <2>3 DEF LauncherInv, PlaceOK, Stays
    <3>3. RecordOf(l)' /\ Steady(l)
      BY <1>b, <1>c, <1>d, <2>1, <3>2 DEF RecordOf, Steady
    <3> QED BY <1>a, <1>b, <2>1, <3>2, <3>3, MoveKeepsRecord
  <2> QED BY <1>10, <2>2, <2>3 DEF ReachSocket
<1>11. ASSUME NEW l \in Launcher, GiveUp(l) \/ Kill(l) PROVE RecordInv'
  <2>1. PICK step \in {"ended", "remove"} : Goto(l, step)
    BY <1>11 DEF GiveUp, Kill
  <2>2. /\ IF Alive(child[l]) THEN Dies(child[l]) ELSE UNCHANGED <<servers, lingering, socket>>
        /\ UNCHANGED <<owner, attached>> /\ pc[l] \in {"await", "kill"}
    BY <1>11 DEF GiveUp, Kill
  <2>3. Worse /\ \A pid : pid = child[l] => ~Alive(pid)'
    BY <1>a, <2>2, KillIsWorse
  <2>4. /\ pc'[l] = step
        /\ IF step = "ended" THEN child'[l] = 0 ELSE child'[l] = child[l]
    BY <1>a, <2>1, GotoFacts
  <2>5. ~Alive(child[l])'
    BY <2>3, <2>4 DEF Alive, Pids
  <2>6. RecordOf(l)'
    BY <2>2, <2>4, <2>5 DEF RecordOf
  <2> QED BY <1>a, <2>1, <2>2, <2>3, <2>6, GoOnKeepsRecord
<1>12. ASSUME NEW l \in Launcher, SaveOwner(l) PROVE RecordInv'
  <2>1. pc[l] = "save" /\ UNCHANGED attached
    BY <1>12 DEF SaveOwner
  <2>2. PICK step \in {"tui", "ended"} :
          /\ Goto(l, step) /\ owner' \in {owner, child[l]}
          /\ step = "tui" => owner' = child[l]
    BY <1>12 DEF SaveOwner, UnchangedServers
  <2>3. Worse
    BY <1>12, <1>a, <1>b, KillIsWorse, StillIsWorse DEF SaveOwner
  <2> QED BY <1>a, <2>1, <2>2, <2>3, SaveKeepsRecord
<1>13. ASSUME NEW l \in Launcher, Reap(l) PROVE RecordInv'
  <2>1. PICK step \in {"ask", "remove"} :
          Goto(l, step) /\ (step = "remove" => ~Alive(child[l]))
    BY <1>13 DEF Reap
  <2>2. pc[l] = "reap" /\ UnchangedServers /\ UNCHANGED attached
    BY <1>13 DEF Reap
  <2>3. /\ pc'[l] = step /\ child'[l] = child[l]
    BY <1>a, <2>1, GotoFacts
  <2>4. RecordOf(l)'
    BY <1>b, <2>1, <2>2, <2>3 DEF RecordOf, UnchangedServers, Alive, Pids
  <2> QED BY <1>a, <1>b, <2>1, <2>2, <2>4, GoOnKeepsRecord
<1>14. ASSUME NEW l \in Launcher, server_can_stop(l) PROVE RecordInv'
  <2>1. PICK step \in {"kill", "ended"} : Goto(l, step)
    BY <1>14 DEF server_can_stop
  <2>2. pc[l] = "ask" /\ UnchangedServers /\ UNCHANGED attached
    BY <1>14 DEF server_can_stop
  <2>3. pc'[l] = step /\ (step = "ended" => child'[l] = 0)
    BY <1>a, <2>1, GotoFacts
  <2>4. RecordOf(l)'
    BY <2>3 DEF RecordOf
  <2> QED BY <1>a, <1>b, <2>1, <2>2, <2>4, GoOnKeepsRecord
<1>15. ASSUME NEW l \in Launcher, RemoveRecord(l) PROVE RecordInv'
  <2>1. PICK step \in {"unlink", "ended"} :
          Goto(l, step) /\ (step = "unlink" => owner = child[l])
    BY <1>15 DEF RemoveRecord, RemoveIfPid
  <2>2. pc[l] = "remove" /\ UnchangedServers /\ UNCHANGED attached
    BY <1>15 DEF RemoveRecord, RemoveIfPid
  <2>3. pc'[l] = step /\ (IF step = "ended" THEN child'[l] = 0 ELSE child'[l] = child[l])
    BY <1>a, <2>1, GotoFacts
  <2>4. RecordOf(l)'
    BY <1>d, <2>1, <2>2, <2>3 DEF RecordOf, UnchangedServers, Alive, Pids
  <2> QED BY <1>a, <1>b, <2>1, <2>2, <2>4, GoOnKeepsRecord
<1>16. ASSUME NEW l \in Launcher, UnlinkRecord(l) PROVE RecordInv'
  <2>1. pc[l] = "unlink" /\ Changing(l) /\ owner = child[l] /\ ~Alive(child[l])
    BY <1>16, <1>d DEF UnlinkRecord, RemoveFile, Changing, RecordOf
  <2> QED BY <1>16, <1>a, <2>1, RemovalKeepsRecord DEF UnlinkRecord
<1>17. ASSUME NEW l \in Launcher, Attach(l) PROVE RecordInv'
  <2>1. /\ pc[l] = "tui" /\ Goto(l, "running") /\ UnchangedServers
        /\ attached' = [attached EXCEPT ![l] = IF Reachable THEN socket ELSE 0]
    BY <1>17 DEF Attach
  <2>2. attached'[l] = (IF Reachable THEN socket ELSE 0)
        /\ \A m \in Launcher \ {l} : attached'[m] = attached[m]
    BY <1>a, <2>1 DEF LauncherInv, SessionOK
  <2>3. pc'[l] = "running" /\ Reachable => owner = socket
    BY <1>d, <2>1 DEF RecordOf
  <2>4. pc'[l] = "running"
    BY <1>a, <2>1, GotoFacts
  <2>5. attached'[l] # 0 => owner' = attached'[l]
    BY <1>b, <2>1, <2>2, <2>3, <2>4
  <2>6. Alive(attached[l])' => attached'[l] # 0
    BY DEF Alive, Pids
  <2>7. RecordOf(l)'
    BY <2>4, <2>5, <2>6 DEF RecordOf
  <2> QED BY <1>a, <1>b, <2>1, <2>2, <2>7, GoOnKeepsRecord
<1>18. ASSUME NEW l \in Launcher, TuiExits(l) PROVE RecordInv'
  <2>1. PICK step \in {"ended", "reap"} : Goto(l, step)
    BY <1>18 DEF TuiExits
  <2>2. pc[l] = "running" /\ UNCHANGED <<servers, owner>>
        /\ attached' = [attached EXCEPT ![l] = 0]
    BY <1>18 DEF TuiExits, Leaves
  <2>3. \A m \in Launcher \ {l} : attached'[m] = attached[m]
    BY <1>a, <2>2 DEF LauncherInv, SessionOK
  <2>4. pc'[l] = step /\ (step = "ended" => child'[l] = 0)
    BY <1>a, <2>1, GotoFacts
  <2>5. RecordOf(l)'
    BY <2>4 DEF RecordOf
  <2> QED BY <1>a, <2>1, <2>2, <2>3, <2>5, GoOnKeepsRecord, StillIsWorse
<1>19. ASSUME NEW l \in Launcher, OrphanExits(l) PROVE RecordInv'
  <2>1. /\ pc[l] = "gone" /\ UNCHANGED <<servers, owner, pc, seen, child>>
        /\ attached' = [attached EXCEPT ![l] = 0]
    BY <1>19 DEF OrphanExits, Leaves
  <2>2. \A m \in Launcher \ {l} : Stays(m)
    BY <1>a, <2>1 DEF LauncherInv, SessionOK, Stays
  <2>3. RecordOf(l)' /\ Steady(l)
    BY <1>d, <2>1 DEF RecordOf, Steady
  <2> QED BY <1>a, <2>1, <2>2, <2>3, MoveKeepsRecord, StillIsWorse
<1>20. ASSUME NEW l \in Launcher, Crash(l) PROVE RecordInv'
  <2>1. Goto(l, "gone") /\ UnchangedServers /\ UNCHANGED attached
        /\ pc[l] \notin Recording
    BY <1>20 DEF Crash
  <2>2. pc'[l] = "gone" /\ child'[l] = 0
    BY <1>a, <2>1, GotoFacts
  <2>3. RecordOf(l)'
    BY <2>2 DEF RecordOf
  <2> QED BY <1>a, <1>b, <2>1, <2>3, GoOnKeepsRecord
<1>21. ASSUME NEW pid \in Pids, Unload(pid) PROVE RecordInv'
  BY <1>21, <1>a, RestKeepsRecord, StillIsWorse DEF Unload, files
<1>22. ASSUME NEW pid \in Pids, ServerStarts(pid) PROVE RecordInv'
  BY <1>22, <1>a, StartKeepsRecord
<1>23. ASSUME NEW pid \in Pids, ServerDies(pid) PROVE RecordInv'
  BY <1>23, <1>a, RestKeepsRecord, DeadIsWorse DEF ServerDies, Dies
<1>24. CASE UNCHANGED vars
  BY <1>24, <1>a, RestKeepsRecord, StillIsWorse DEF vars
<1>25. ASSUME NEW l \in Launcher, Work(l) PROVE RecordInv'
  BY <1>2, <1>3, <1>4, <1>5, <1>6, <1>7, <1>8, <1>9, <1>10, <1>11, <1>12, <1>13, <1>14, <1>15,
     <1>16, <1>25 DEF Work
<1> QED
  BY <1>1, <1>17, <1>18, <1>19, <1>20, <1>21, <1>22, <1>23, <1>24, <1>25 DEF Next

-----------------------------------------------------------------------------

LEMMA InvGivesTruth == RecordInv => RecordTruthful
<1>1. SUFFICES ASSUME RecordInv, Quiet, Alive(owner) PROVE socket = owner /\ Reachable
  BY DEF RecordTruthful
<1>2. owner \in Pids /\ owner # 0
  BY <1>1 DEF Alive, Pids
<1>3. \A l \in Launcher : pc[l] \notin Starting
  BY <1>1 DEF Quiet, Changing, EnsureSteps, Starting
<1>4. servers[owner].state = "listening"
  BY <1>1, <1>2, <1>3 DEF RecordInv, AliveListens
<1>5. socket = owner
  BY <1>1, <1>2, <1>4 DEF RecordInv, UseInv, OneListens
<1> QED BY <1>2, <1>4, <1>5 DEF Reachable

LEMMA InvGivesSessions == RecordInv => SessionsRecorded
BY DEF RecordInv, RecordOf, SessionsRecorded

RecordUnlessOverlap == overlap \/ RecordInv

LEMMA RecordKept ==
  ASSUME "orphan" \notin LauncherFaults
  PROVE  Spec => []RecordUnlessOverlap
<1>1. Init => RecordUnlessOverlap
  BY InitGivesRecord DEF RecordUnlessOverlap
<1>2. RecordUnlessOverlap /\ [Next]_vars => RecordUnlessOverlap'
  BY StepKeepsRecord, OverlapStays DEF RecordUnlessOverlap
<1> QED BY <1>1, <1>2, PTL DEF Spec

\* Between sessions' starts and ends the record, if its server lives, names the server
\* behind the socket: where sessions do not overlap, the child that a launcher records is
\* the one that answered it (launcher.rs:180-209, 227-249).
THEOREM RecordIsTruthful ==
  ASSUME "orphan" \notin LauncherFaults
  PROVE  Spec => []RecordTruthful
<1>1. RecordUnlessOverlap => RecordTruthful
  BY InvGivesTruth DEF RecordUnlessOverlap, RecordTruthful
<1> QED BY <1>1, RecordKept, PTL

\* A session's server, as long as it lives, is the recorded one: where sessions do not
\* overlap, no early return and no cleanup forgets it (launcher.rs:261-275,
\* app_server_owner.rs:110-115).
THEOREM SessionsAreRecorded ==
  ASSUME "orphan" \notin LauncherFaults
  PROVE  Spec => []SessionsRecorded
<1>1. RecordUnlessOverlap => SessionsRecorded
  BY InvGivesSessions DEF RecordUnlessOverlap, SessionsRecorded
<1> QED BY <1>1, RecordKept, PTL
=============================================================================
