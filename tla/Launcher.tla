-------------------------------- MODULE Launcher --------------------------------
(***************************************************************************)
(* `agentic-compact codex': launchers that start, share and stop one       *)
(* app-server behind the default socket (src/src/launcher.rs), with the    *)
(* owner record that tells which server is theirs                          *)
(* (src/src/app_server_owner.rs).                                          *)
(*                                                                         *)
(* Every file, socket and process operation of a launcher is a step of its *)
(* own.  A server is known by its process id, its position in `servers';   *)
(* process ids are not reused.  Arguments, versions and the codex binary   *)
(* are left out, but for servers and records left by another codex.  A     *)
(* kill takes effect at once, and the record is never unreadable.          *)
(***************************************************************************)
EXTENDS Naturals, Sequences

CONSTANTS Launcher,     \* launcher processes, each runs once
          NoLauncher,   \* what started a server that no launcher started
          LauncherFaults,
          MaxServers,   \* bound: servers ever started
          SOCKET_WAIT_ATTEMPTS

\* "crash"   a launcher is killed; "orphan"  between starting and recording a server
\* "serverDies"  a server dies by itself
\* "stale"  a dead server's socket file stays   "save"  the record is not saved
\* "refused"  a connection to a listening server, or its list of threads, fails
LauncherFaultKinds == {"crash", "orphan", "serverDies", "stale", "save", "refused"}

ASSUME NoLauncherAssumption == NoLauncher \notin Launcher
ASSUME LauncherFaultsAssumption == LauncherFaults \subseteq LauncherFaultKinds
ASSUME LauncherBoundsAssumption ==
  {MaxServers, SOCKET_WAIT_ATTEMPTS} \subseteq Nat \ {0}

VARIABLES
  servers,   \* process id -> the server's state and who started it
  lingering, \* servers that keep a thread loaded after its session ended
  socket,    \* the server that bound the default socket, 0: there is no file
  owner,     \* process id in the owner record, 0: there is no record
  pc,        \* launcher -> where run stands
  seen,      \* launcher -> process id of the record it loaded
  child,     \* launcher -> the server it started, or 0
  tries,     \* launcher -> attempts to reach its child
  promised,  \* launcher -> the server it starts its TUI for
  attached,  \* launcher -> the server its TUI has a thread on
  overlap    \* in this behaviour sessions may start or end while others do; never changes

vars ==
  <<servers, lingering, socket, owner, pc, seen, child, tries, promised, attached, overlap>>
files == <<socket, owner>>
sessions == <<promised, attached, lingering>>

EnsureSteps == {"connect", "judge", "absent", "clear", "unlinkDead", "spawn", "await",
                "reach", "save"}
Recording == {"await", "reach", "save"}
Ended == {"ended", "gone"}
CleanupSteps == {"reap", "ask", "kill", "remove", "unlink"}
LauncherSteps == {"idle", "probe", "tui", "running"} \union Ended
                   \union EnsureSteps \union CleanupSteps

Pids == 1..Len(servers)
Server == [state : {"starting", "listening", "dead"}, by : Launcher \union {NoLauncher}]
Alive(pid) == pid \in Pids /\ servers[pid].state # "dead"

LauncherTypeOK ==
  /\ servers \in Seq(Server) /\ Len(servers) <= MaxServers
  /\ lingering \subseteq Pids /\ socket \in {0} \union Pids /\ owner \in {0} \union Pids
  /\ pc \in [Launcher -> LauncherSteps]
  /\ \A var \in {seen, child, promised, attached} : var \in [Launcher -> {0} \union Pids]
  /\ tries \in [Launcher -> 0..SOCKET_WAIT_ATTEMPTS] /\ overlap \in BOOLEAN

\* Nothing, the record of a server that is gone, or another codex's server with
\* or without a record.
Init ==
  /\ \/ servers = <<>> /\ socket = 0 /\ owner = 0
     \/ servers = <<[state |-> "dead", by |-> NoLauncher]>> /\ socket = 0 /\ owner = 1
     \/ /\ servers = <<[state |-> "listening", by |-> NoLauncher]>>
        /\ socket = 1 /\ owner \in {0, 1}
  /\ lingering = {}
  /\ pc = [l \in Launcher |-> "idle"]
  /\ seen = [l \in Launcher |-> 0]
  /\ child = [l \in Launcher |-> 0]
  /\ tries = [l \in Launcher |-> 0]
  /\ promised = [l \in Launcher |-> 0]
  /\ attached = [l \in Launcher |-> 0]
  /\ overlap \in BOOLEAN

-----------------------------------------------------------------------------
(* Helpers *)

\* run goes on; its variables go when it returns, with an error or without.
Goto(l, step) ==
  /\ pc' = [pc EXCEPT ![l] = step]
  /\ LET Kept(var) == IF step \in Ended THEN [var EXCEPT ![l] = 0] ELSE var
     IN seen' = Kept(seen) /\ child' = Kept(child) /\ tries' = Kept(tries)
UnchangedServers == UNCHANGED <<servers, lingering, socket, owner>>

\* A connection to the default socket succeeds, and its list of threads arrives.
Reachable == socket # 0 /\ servers[socket].state = "listening"
Refused == "refused" \in LauncherFaults

\* A server ends; its socket file goes with it, or stays.
Dies(pid) ==
  /\ servers' = [servers EXCEPT ![pid].state = "dead"]
  /\ lingering' = lingering \ {pid}
  /\ socket' \in IF socket # pid THEN {socket}
                 ELSE IF "stale" \in LauncherFaults THEN {0, socket} ELSE {0}

\* /proc lists a process that has ended until its launcher has asked for its end,
\* or has ended itself.
Unreaped(pid) ==
  \E l \in Launcher :
    child[l] = pid /\ pc[l] \in Recording \union {"tui", "running", "reap", "ask", "kill"}
process_is_alive(pid) == Alive(pid) \/ Unreaped(pid)
matches(pid) == servers[pid].by # NoLauncher

loaded_threads(pid) == {l \in Launcher : attached[l] = pid}
Empty(pid) == loaded_threads(pid) = {} /\ pid \notin lingering

\* A launcher that is starting or ending its session.  Nothing in the code keeps one from
\* doing so while another does: a behaviour without overlap is one of the users'.
Changing(l) == pc[l] \in {"probe", "tui"} \union EnsureSteps \union CleanupSteps
Alone(l) == overlap \/ \A other \in Launcher \ {l} : ~Changing(other)

-----------------------------------------------------------------------------
(* ensure_shared_server *)

\* The owner record is read first.
LoadOwner(l) ==
  /\ pc[l] = "idle" /\ Alone(l)
  /\ seen' = [seen EXCEPT ![l] = owner]
  /\ pc' = [pc EXCEPT ![l] = "probe"]
  /\ UnchangedServers /\ UNCHANGED <<child, tries, promised, attached, overlap>>

Probe(l) ==
  /\ pc[l] = "probe"
  /\ Goto(l, IF socket # 0 THEN "connect" ELSE "absent")
  /\ UnchangedServers /\ UNCHANGED <<promised, attached, overlap>>

\* Connect, list the loaded threads, close.
ConnectExisting(l) ==
  /\ pc[l] = "connect"
  /\ \/ /\ Reachable
        /\ promised' = [promised EXCEPT ![l] = socket]
        /\ Goto(l, "judge")
     \/ /\ ~Reachable \/ Refused
        /\ Goto(l, "ended") /\ UNCHANGED promised
  /\ UnchangedServers /\ UNCHANGED <<attached, overlap>>

\* Defect: the server is taken whatever the record says.
JudgeOwner_Trusting(l) ==
  /\ pc[l] = "judge"
  /\ Goto(l, "tui")
  /\ UnchangedServers /\ UNCHANGED <<promised, attached, overlap>>

\* Only a server whose record matches and whose process lives is shared.
JudgeOwner(l) ==
  /\ pc[l] = "judge"
  /\ IF seen[l] # 0 /\ matches(seen[l]) /\ process_is_alive(seen[l])
     THEN Goto(l, "tui") /\ UNCHANGED promised
     ELSE Goto(l, "ended") /\ promised' = [promised EXCEPT ![l] = 0]
  /\ UnchangedServers /\ UNCHANGED <<attached, overlap>>

\* No socket: a recorded server that lives is no reason to start another.
JudgeAbsent(l) ==
  /\ pc[l] = "absent"
  /\ Goto(l, IF seen[l] = 0 THEN "spawn"
             ELSE IF process_is_alive(seen[l]) THEN "ended" ELSE "clear")
  /\ UnchangedServers /\ UNCHANGED <<promised, attached, overlap>>

\* remove_if_pid: load the record, then remove the file whatever it is by now.
RemoveIfPid(l, step, pid, unlink, next) ==
  /\ pc[l] = step
  /\ Goto(l, IF owner = pid THEN unlink ELSE next)
  /\ UnchangedServers /\ UNCHANGED <<promised, attached, overlap>>

RemoveFile(l, step, next) ==
  /\ pc[l] = step
  /\ Goto(l, IF owner = 0 THEN "ended" ELSE next)
  /\ owner' = 0
  /\ UNCHANGED <<servers, lingering, socket, promised, attached, overlap>>

ClearRecord(l) == RemoveIfPid(l, "clear", seen[l], "unlinkDead", "spawn")
UnlinkDeadRecord(l) == RemoveFile(l, "unlinkDead", "spawn")

Spawn(l) ==
  /\ pc[l] = "spawn" /\ Len(servers) < MaxServers
  /\ servers' = Append(servers, [state |-> "starting", by |-> l])
  /\ child' = [child EXCEPT ![l] = Len(servers) + 1]
  /\ pc' = [pc EXCEPT ![l] = "await"]
  /\ UNCHANGED <<lingering, socket, owner, seen, tries, promised, attached, overlap>>

\* An attempt: the child must not have ended.
AwaitChild(l) ==
  /\ pc[l] = "await" /\ tries[l] < SOCKET_WAIT_ATTEMPTS
  /\ Goto(l, IF Alive(child[l]) THEN "reach" ELSE "ended")
  /\ UnchangedServers /\ UNCHANGED <<promised, attached, overlap>>

SocketAnswers(l) ==
  /\ Reachable
  /\ promised' = [promised EXCEPT ![l] = socket]
  /\ Goto(l, "save")

\* Defect: the attempts are not counted.
ReachSocket_Uncounted(l) ==
  /\ pc[l] = "reach"
  /\ \/ SocketAnswers(l)
     \/ ~Reachable /\ Goto(l, "await") /\ UNCHANGED promised
  /\ UnchangedServers /\ UNCHANGED <<attached, overlap>>

\* Second half: any server that answers on the socket will do.
ReachSocket(l) ==
  /\ pc[l] = "reach"
  /\ \/ SocketAnswers(l)
     \/ /\ ~Reachable \/ Refused
        /\ pc' = [pc EXCEPT ![l] = "await"]
        /\ tries' = [tries EXCEPT ![l] = @ + 1]
        /\ UNCHANGED <<promised, seen, child>>
  /\ UnchangedServers /\ UNCHANGED <<attached, overlap>>

\* Defect: the child is left behind.
GiveUp_Spared(l) ==
  /\ pc[l] = "await" /\ tries[l] = SOCKET_WAIT_ATTEMPTS
  /\ Goto(l, "ended")
  /\ UnchangedServers /\ UNCHANGED <<promised, attached, overlap>>

\* The attempts are used up: the child is killed and not waited for.
GiveUp(l) ==
  /\ pc[l] = "await" /\ tries[l] = SOCKET_WAIT_ATTEMPTS
  /\ IF Alive(child[l]) THEN Dies(child[l]) ELSE UNCHANGED <<servers, lingering, socket>>
  /\ Goto(l, "ended")
  /\ UNCHANGED <<owner, promised, attached, overlap>>

\* The record is saved; not saved, or saved with an error, and the child killed;
\* or not even built, and the child left alone.
SaveOwner(l) ==
  /\ pc[l] = "save"
  /\ \/ /\ owner' = child[l] /\ Goto(l, "tui")
        /\ UNCHANGED <<servers, lingering, socket, promised>>
     \/ /\ "save" \in LauncherFaults
        /\ owner' \in {owner, child[l]}
        /\ IF Alive(child[l]) THEN Dies(child[l]) ELSE UNCHANGED <<servers, lingering, socket>>
        /\ promised' = [promised EXCEPT ![l] = 0] /\ Goto(l, "ended")
     \/ /\ "save" \in LauncherFaults
        /\ promised' = [promised EXCEPT ![l] = 0] /\ Goto(l, "ended")
        /\ UnchangedServers
  /\ UNCHANGED <<attached, overlap>>

-----------------------------------------------------------------------------
(* run after its TUI has ended: cleanup_owned_server *)

Reap(l) ==
  /\ pc[l] = "reap"
  /\ Goto(l, IF Alive(child[l]) THEN "ask" ELSE "remove")
  /\ UnchangedServers /\ UNCHANGED <<promised, attached, overlap>>

\* Defect: it is not asked whether threads are loaded.
server_can_stop_Unasked(l) ==
  /\ pc[l] = "ask"
  /\ Goto(l, "kill")
  /\ UnchangedServers /\ UNCHANGED <<promised, attached, overlap>>

\* The server behind the socket is asked, whoever started it.
server_can_stop(l) ==
  /\ pc[l] = "ask"
  /\ \/ Reachable /\ Goto(l, IF Empty(socket) THEN "kill" ELSE "ended")
     \/ /\ ~Reachable \/ Refused
        /\ Goto(l, "ended")
  /\ UnchangedServers /\ UNCHANGED <<promised, attached, overlap>>

Kill(l) ==
  /\ pc[l] = "kill"
  /\ IF Alive(child[l]) THEN Dies(child[l]) ELSE UNCHANGED <<servers, lingering, socket>>
  /\ Goto(l, "remove")
  /\ UNCHANGED <<owner, promised, attached, overlap>>

RemoveRecord(l) == RemoveIfPid(l, "remove", child[l], "unlink", "ended")
UnlinkRecord(l) == RemoveFile(l, "unlink", "ended")

-----------------------------------------------------------------------------
(* The TUI, the servers and death (external) *)

\* The TUI finds the default socket and loads a thread, or runs without one.
Attach(l) ==
  /\ pc[l] = "tui"
  /\ attached' = [attached EXCEPT ![l] = IF Reachable THEN socket ELSE 0]
  /\ Goto(l, "running")
  /\ UnchangedServers /\ UNCHANGED <<promised, overlap>>

\* The server unloads the thread at once or later.
Leaves(l) ==
  /\ attached' = [attached EXCEPT ![l] = 0]
  /\ promised' = [promised EXCEPT ![l] = 0]
  /\ lingering' \in {lingering, lingering \union {s \in {attached[l]} : Alive(s)}}

TuiExits(l) ==
  /\ pc[l] = "running" /\ Alone(l)
  /\ Leaves(l)
  /\ Goto(l, IF child[l] = 0 THEN "ended" ELSE "reap")
  /\ UNCHANGED <<servers, socket, owner, overlap>>

\* The TUI of a launcher that was killed goes on and ends later.
OrphanExits(l) ==
  /\ pc[l] = "gone" /\ promised[l] # 0
  /\ Leaves(l)
  /\ UNCHANGED <<servers, socket, owner, pc, seen, child, tries, overlap>>

Unload(pid) ==
  /\ pid \in lingering
  /\ lingering' = lingering \ {pid}
  /\ UNCHANGED <<servers, files, pc, seen, child, tries, promised, attached, overlap>>

\* A server binds the socket, or ends because another one listens there.
ServerStarts(pid) ==
  /\ servers[pid].state = "starting"
  /\ IF Reachable
     THEN servers' = [servers EXCEPT ![pid].state = "dead"] /\ UNCHANGED socket
     ELSE servers' = [servers EXCEPT ![pid].state = "listening"] /\ socket' = pid
  /\ UNCHANGED <<lingering, owner, pc, seen, child, tries, promised, attached, overlap>>

ServerDies(pid) ==
  /\ "serverDies" \in LauncherFaults /\ Alive(pid)
  /\ Dies(pid)
  /\ UNCHANGED <<owner, pc, seen, child, tries, promised, attached, overlap>>

Crash(l) ==
  /\ pc[l] \notin {"idle"} \union Ended
  /\ (IF pc[l] \in Recording THEN "orphan" ELSE "crash") \in LauncherFaults
  /\ Goto(l, "gone")
  /\ promised' = [promised EXCEPT ![l] = IF pc[l] = "running" THEN @ ELSE 0]
  /\ UnchangedServers /\ UNCHANGED <<attached, overlap>>

-----------------------------------------------------------------------------
\* What a launcher does by itself once it was started or its TUI has ended.
Work(l) ==
  \/ Probe(l) \/ ConnectExisting(l) \/ JudgeOwner(l) \/ JudgeAbsent(l)
  \/ ClearRecord(l) \/ UnlinkDeadRecord(l) \/ Spawn(l) \/ AwaitChild(l) \/ ReachSocket(l)
  \/ GiveUp(l) \/ SaveOwner(l)
  \/ Reap(l) \/ server_can_stop(l) \/ Kill(l) \/ RemoveRecord(l) \/ UnlinkRecord(l)

Next ==
  \/ \E l \in Launcher :
       Work(l) \/ LoadOwner(l) \/ Attach(l) \/ TuiExits(l) \/ OrphanExits(l) \/ Crash(l)
  \/ \E pid \in Pids : Unload(pid) \/ ServerStarts(pid) \/ ServerDies(pid)

Spec == Init /\ [][Next]_vars

\* A launcher goes on: each of its awaits has a time limit or is for a process it
\* has killed.  Nothing is assumed of servers, users and TUIs.
FairSpec == Spec /\ \A l \in Launcher : WF_vars(Work(l))

-----------------------------------------------------------------------------
(* Properties *)

\* A launcher is told that its server can stop only if no thread is loaded on it, another
\* session's included, though whichever server stands behind the socket gives the answer
\* (launcher.rs:277-287).  That answer is all that protects a session which begins before
\* the kill (264-265): with overlap it does lose its server.  Where sessions do not
\* overlap, no step of a launcher (the kill, giving up, a record that is not saved) ends a
\* server that another launcher's session was started for and still uses.
NeverKilledInUse ==
  [][ \A l \in Launcher :
        /\ pc[l] = "ask" /\ pc'[l] = "kill" /\ Alive(child[l]) => Empty(child[l])
        /\ ~overlap /\ pc'[l] # pc[l] =>
             \A pid \in Pids, other \in Launcher \ {l} :
               Alive(pid) /\ promised[other] = pid => Alive(pid)' ]_vars

Quiet == \A l \in Launcher : ~Changing(l)

\* Where sessions do not overlap: between their starts and ends the record, if its server
\* lives, names the server that listens on the default socket: the next launcher shares
\* the server the record speaks of (launcher.rs:180-209, 227-249).
RecordTruthful == ~overlap /\ Quiet /\ Alive(owner) => socket = owner /\ Reachable

\* Where sessions do not overlap: the server that a running launcher's session has its
\* thread on is, as long as it lives, the recorded one: no early return or cleanup forgets
\* a server in use (launcher.rs:261-275, app_server_owner.rs:110-115).
SessionsRecorded ==
  \A l \in Launcher :
    ~overlap /\ pc[l] = "running" /\ Alive(attached[l]) => owner = attached[l]

\* Starting and ending a session come to an end, whatever the servers do.
LaunchSettles ==
  \A l \in Launcher :
    pc[l] \in {"probe"} \union EnsureSteps \union CleanupSteps
      ~> pc[l] \in {"tui"} \union Ended
=============================================================================
