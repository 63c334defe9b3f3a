------------------------------ MODULE MCLauncher ------------------------------
(***************************************************************************)
(* What stands before a schedule, for TLC: the launchers that start the    *)
(* app-server, and the doctors that record what it can do.  They share no  *)
(* file, so a behaviour is of one of them while the others rest.  Three    *)
(* launchers come one after the other, two at the same time.               *)
(***************************************************************************)
EXTENDS Launcher, Doctor
CONSTANTS l1, l2, l3

VARIABLE part \* "launchers" or "doctors"

NoServer == servers = <<>> /\ owner = 0
Only(who, others) == part = who /\ UNCHANGED <<part, others>>

ConnectionsInit ==
  /\ Init /\ DoctorInit
  /\ build = 1 \* nothing tells one build from another
  /\ part \in {"launchers", "doctors"} /\ (part = "doctors" => NoServer /\ ~overlap)
ConnectionsNext ==
  \/ Next /\ Only("launchers", doctorVars) /\ (overlap => pc'[l3] = "idle")
  \/ DoctorNext /\ Only("doctors", vars)

ConnectionsSpec ==
  /\ ConnectionsInit /\ [][ConnectionsNext]_<<part, vars, doctorVars>>
  /\ \A l \in Launcher : WF_vars(Work(l) /\ Only("launchers", doctorVars))
=============================================================================
