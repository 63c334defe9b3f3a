---------------------------- MODULE MCAppServerClient ----------------------------
(***************************************************************************)
(* AppServerClient with one caller, on whom everything may come down, or   *)
(* with two, who compete for the limiter, the queue and the map of pending *)
(* requests while the server neither refuses nor emits anything.           *)
(***************************************************************************)
EXTENDS AppServerClient, TLC

CONSTANTS c1, c2

VARIABLE crowded   \* both callers are there

Refused == {id \in Id : request[id].state = "refused"}

MCInit == Init /\ pc[c1] = "idle" /\ crowded = (pc[c2] = "idle")
MCNext ==
  /\ Next /\ UNCHANGED crowded
  /\ crowded => emitted' = 0 /\ Refused' = {}

MCFairSpec ==
  /\ MCInit /\ [][MCNext]_<<vars, crowded>>
  /\ WF_vars(Writer) /\ WF_vars(Reader) /\ \A c \in Caller : WF_vars(Advance(c))
=============================================================================
