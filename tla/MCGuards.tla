-------------------------------- MODULE MCGuards --------------------------------
(***************************************************************************)
(* The two calculations the runner rests on, DescendantWalk and Capsule,   *)
(* checked in one run.  They share no state and the runner does one after  *)
(* the other, so a behaviour is of one of them while the other is over.    *)
(***************************************************************************)
EXTENDS DescendantWalk, Capsule

WalkIsOver ==
  /\ parent = [t \in Thread |-> NoThread]
  /\ loaded = {Root} /\ busy = {} /\ steady = {} /\ worked = {} /\ changes = 0
  /\ asking = "over" /\ answer = "idle"
  /\ at = Root /\ visited = {} /\ depth = 0
  /\ cursor = 0 /\ pages = 0 /\ listed = {} /\ todo = {}

CapsuleIsBuilt ==
  /\ items = <<>> /\ model = 0 /\ stage = "built"
  /\ evidence = NoEvidence /\ projected = NoEvidence

GuardsInit ==
  \/ WalkInit /\ CapsuleIsBuilt
  \/ WalkIsOver /\ CapsuleInit
GuardsNext ==
  \/ WalkNext /\ UNCHANGED capsuleVars
  \/ CapsuleNext /\ UNCHANGED walkVars

GuardsSpec ==
  /\ GuardsInit /\ [][GuardsNext]_<<walkVars, capsuleVars>>
  /\ WF_walkVars(Walk /\ UNCHANGED capsuleVars)

=============================================================================
