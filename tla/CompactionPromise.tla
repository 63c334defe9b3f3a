--------------------------- MODULE CompactionPromise ---------------------------
(***************************************************************************)
(* What the transitions of one thread promise to its user and model,       *)
(* whatever the processes, their journal and their connections do          *)
(* (src/docs/ARCHITECTURE.md "Failure semantics", src/docs/                *)
(* FAILURE_MODES.md).  A transition asks for the compaction, the injection *)
(* and the continuation each at most once and in this order, each after    *)
(* the one before has taken effect, and only while it is open.  What it    *)
(* has asked for takes effect once or is lost, perhaps long after.  One is *)
(* open at a time.  It ends in a cooldown only when the capsule has been   *)
(* injected after its compaction and nothing of it is still to come, and   *)
(* as undone by a restart only if it has asked for nothing.                *)
(***************************************************************************)
EXTENDS Naturals

CONSTANT Revocable  \* a verdict may be replaced, because its save can fail once it is in place

VARIABLES
  current,  \* number of the latest transition
  verdict,  \* none, open, cooldown, stopped or undone
  pending,  \* what transitions have asked for and may still take effect
  done      \* what has taken effect

promiseVars == <<current, verdict, pending, done>>

Wish(method) == [method |-> method, tid |-> current]

PromiseInit ==
  /\ current = 0
  /\ verdict = "none"
  /\ pending = {}
  /\ done = {}

Accept ==
  /\ verdict # "open"
  /\ verdict' = "open"
  /\ current' \in Nat /\ current' > current
  /\ UNCHANGED <<pending, done>>

Ask(method) ==
  /\ verdict = "open"
  /\ Wish(method) \notin pending \union done
  /\ method = "inject" => Wish("compact") \in done
  /\ method = "start" => Wish("inject") \in done
  /\ pending' = pending \union {Wish(method)}
  /\ UNCHANGED <<current, verdict, done>>

TakeEffect(wish) ==
  /\ wish \in pending
  /\ pending' = pending \ {wish}
  /\ done' = done \union {wish}
  /\ UNCHANGED <<current, verdict>>

Lose ==
  /\ pending' \subseteq pending
  /\ UNCHANGED <<current, verdict, done>>

\* Cooldown is final for the thread as well: a continuation that gave way to the
\* user's turn does not come after it.
Finish ==
  /\ verdict = "open"
  /\ verdict' = "cooldown"
  /\ Wish("compact") \in done /\ Wish("inject") \in done
  /\ \A wish \in pending : wish.tid # current
  /\ UNCHANGED <<current, pending, done>>

MayStop == verdict = "open" \/ (Revocable /\ verdict # "none")

Stop ==
  /\ MayStop
  /\ verdict' = "stopped"
  /\ UNCHANGED <<current, pending, done>>

Undo ==
  /\ MayStop
  /\ verdict' = "undone"
  /\ \A wish \in pending \union done : wish.tid # current
  /\ UNCHANGED <<current, pending, done>>

PromiseNext ==
  \/ Accept \/ Lose \/ Finish \/ Stop \/ Undo
  \/ \E method \in {"compact", "inject", "start"} : Ask(method)
  \/ \E wish \in pending : TakeEffect(wish)

PromiseSpec == PromiseInit /\ [][PromiseNext]_promiseVars
=============================================================================
