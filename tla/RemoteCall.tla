------------------------------- MODULE RemoteCall -------------------------------
(***************************************************************************)
(* What a caller of the app-server client may rely on, whatever the queue, *)
(* the two tasks, the limiter and the retries do (src/src/app_server.rs).  *)
(* A call ends in success or failure.  The server executes it at most      *)
(* once; before a success, before a failure, after it, or not at all.      *)
(* SharedThread takes this for granted of every request it lets a process  *)
(* make.                                                                   *)
(***************************************************************************)
EXTENDS Naturals

CONSTANT Call      \* the calls that may be made

VARIABLES outcome,  \* call -> none, open, ok or failed
          executed  \* call -> how often the server has executed it

callVars == <<outcome, executed>>

CallInit ==
  /\ outcome = [k \in Call |-> "none"]
  /\ executed = [k \in Call |-> 0]

Begin(k) ==
  /\ outcome[k] = "none"
  /\ outcome' = [outcome EXCEPT ![k] = "open"]
  /\ UNCHANGED executed

\* A call that failed may still be on its way.
Execute(k) ==
  /\ outcome[k] \in {"open", "failed"} /\ executed[k] = 0
  /\ executed' = [executed EXCEPT ![k] = 1]
  /\ UNCHANGED outcome

Succeed(k) ==
  /\ outcome[k] = "open" /\ executed[k] = 1
  /\ outcome' = [outcome EXCEPT ![k] = "ok"]
  /\ UNCHANGED executed

Fail(k) ==
  /\ outcome[k] = "open"
  /\ outcome' = [outcome EXCEPT ![k] = "failed"]
  /\ UNCHANGED executed

CallNext == \E k \in Call : Begin(k) \/ Execute(k) \/ Succeed(k) \/ Fail(k)

CallSpec == CallInit /\ [][CallNext]_callVars
=============================================================================
