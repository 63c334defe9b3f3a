------------------------------- MODULE GuardProofs -------------------------------
(***************************************************************************)
(* What is proved of the two calculations the runner rests on: that the    *)
(* answer of the walk over the loaded threads is right, for any threads,   *)
(* parents, bounds and changes in between; and, of the capsule, that the   *)
(* evidence read one item at a time is what the whole thread says, and     *)
(* that pruning gives up no more of it than it must, for all items,        *)
(* lengths and limits.                                                     *)
(***************************************************************************)
EXTENDS DescendantWalk, Capsule, SequenceTheorems, FiniteSetTheorems, WellFoundedInduction, TLAPS

\* What makes the answer right.  Nobody who descends from the root and was active
\* all the time is lost: it is listed or still to come, to be read, or the thread
\* the climb stands at descends from the root as well.  And a climb started from
\* a thread that was active descends from the root only if that thread does.
NobodyLost ==
  \A t \in steady : Descends(t) =>
    /\ asking = "page" => t \in listed \/ t > cursor
    /\ asking = "thread" => t \in todo
    /\ asking = "parent" => t \in todo \/ Descends(at)

ClimbIsFounded == asking = "parent" => \E t \in worked : Descends(at) => Descends(t)

WalkInv ==
  /\ WalkTypeOK
  /\ parent[Root] = NoThread
  /\ asking = "page" => pages < MaxPages
  /\ NobodyLost
  /\ ClimbIsFounded
  /\ IdleMeansNoneWorked
  /\ ActiveMeansOneWorked

-----------------------------------------------------------------------------
(* Descends *)

\* The parents of a descendant are descendants, up to a child of the root.
LEMMA DescendsUp ==
  ASSUME NEW t \in Thread, Descends(t), parent[t] # Root,
         parent \in [Thread -> Thread \union {NoThread}]
  PROVE  parent[t] \in Thread /\ Descends(parent[t])
<1>1. parent[t] \in Thread
  <2>1. SUFFICES ASSUME parent[t] \notin Thread PROVE FALSE
    OBVIOUS
  <2>2. {t} \in SUBSET Thread /\ t \in {t}
    OBVIOUS
  <2>3. \A u \in {t} : parent[u] \in Thread \ {Root} => parent[u] \in {t}
    BY <2>1
  <2> QED BY <2>2, <2>3 DEF Descends
<1>2. ASSUME NEW S \in SUBSET Thread, parent[t] \in S,
             \A u \in S : parent[u] \in Thread \ {Root} => parent[u] \in S
      PROVE  \E u \in S : parent[u] = Root
  <2>1. S \union {t} \in SUBSET Thread /\ t \in S \union {t}
    OBVIOUS
  <2>2. \A u \in S \union {t} : parent[u] \in Thread \ {Root} => parent[u] \in S \union {t}
    BY <1>2
  <2>3. PICK u \in S \union {t} : parent[u] = Root
    BY <2>1, <2>2 DEF Descends
  <2> QED BY <2>3
<1> QED BY <1>1, <1>2 DEF Descends

\* A child of a descendant is one.
LEMMA DescendsDown ==
  ASSUME NEW t \in Thread, parent[t] \in Thread \ {Root}, Descends(parent[t])
  PROVE  Descends(t)
BY DEF Descends

\* A child of the root is a descendant.
LEMMA ChildDescends ==
  ASSUME NEW t \in Thread, parent[t] = Root
  PROVE  Descends(t)
BY DEF Descends

\* The root is no descendant of itself.
LEMMA RootDoesNotDescend ==
  ASSUME WalkInv
  PROVE  ~Descends(Root)
BY WalkAssumption, DescendsUp DEF WalkInv, WalkTypeOK

-----------------------------------------------------------------------------
(* Steps *)

\* The walk begins with all threads still to come.
LEMMA InitWalk == WalkInit => WalkInv
BY WalkAssumption DEF WalkInit, WalkInv, WalkTypeOK, NobodyLost, ClimbIsFounded, Answers,
   IdleMeansNoneWorked, ActiveMeansOneWorked

\* A return forgets the locals; only the answer needs a reason.
LEMMA ReturnKeeps ==
  ASSUME WalkInv, NEW a \in Answers \ {"none"}, Return(a), UNCHANGED threadVars,
         a = "idle" => \A t \in steady : ~Descends(t),
         a = "active" => \E t \in worked : Descends(t)
  PROVE  WalkInv'
BY WalkAssumption DEF WalkInv, WalkTypeOK, NobodyLost, ClimbIsFounded, Answers, Return,
   threadVars, IdleMeansNoneWorked, ActiveMeansOneWorked, Descends

\* The threads' own steps take nobody into "steady" and nobody out of "worked".
LEMMA ThreadsKeep ==
  ASSUME WalkInv, NEW t \in Thread, TurnStarts(t) \/ TurnEnds(t) \/ Unloads(t)
  PROVE  WalkInv'
<1>1. /\ UNCHANGED <<parent, walkLocals>> /\ steady' \subseteq steady /\ worked \subseteq worked'
      /\ asking # "over"
  BY DEF TurnStarts, TurnEnds, Unloads, ThreadsMayChange
<1>2. WalkTypeOK'
  <2>1. changes \in 0..MaxChanges /\ changes < MaxChanges /\ changes' = changes + 1
    BY DEF WalkInv, WalkTypeOK, TurnStarts, TurnEnds, Unloads, ThreadsMayChange
  <2>2. changes' \in 0..MaxChanges
    BY <2>1, WalkAssumption
  <2>3. /\ busy' \subseteq loaded' /\ loaded' \subseteq Thread /\ steady' \subseteq busy'
        /\ busy' \subseteq worked' /\ worked' \subseteq Thread
    BY DEF WalkInv, WalkTypeOK, TurnStarts, TurnEnds, Unloads
  <2> QED BY <1>1, <2>2, <2>3 DEF WalkInv, WalkTypeOK, walkLocals
<1>3. \A u : Descends(u)' <=> Descends(u)
  BY <1>1 DEF Descends
<1>4. NobodyLost'
  BY <1>1, <1>3 DEF WalkInv, NobodyLost, walkLocals
<1>5. ClimbIsFounded'
  BY <1>1, <1>3 DEF WalkInv, ClimbIsFounded, walkLocals
<1>6. (IdleMeansNoneWorked /\ ActiveMeansOneWorked)'
  BY <1>1, <1>2 DEF WalkInv, WalkTypeOK, IdleMeansNoneWorked, ActiveMeansOneWorked, walkLocals
<1> QED BY <1>1, <1>2, <1>4, <1>5, <1>6 DEF WalkInv, walkLocals

\* A page leaves nobody behind its last thread, the next cursor.
LEMMA ListPageKeeps ==
  ASSUME WalkInv, ListPage
  PROVE  WalkInv'
<1>0. PICK ids \in Pages : \E next \in NextCursor(ids) :
        LET found == listed \union ids
            refused == \/ Cardinality(found) > MaxLoaded
                       \/ next # 0 /\ (next = cursor \/ pages + 1 = MaxPages)
        IN \/ refused /\ Return("protocol")
           \/ /\ ~refused
              /\ Ask(IF next = 0 THEN "thread" ELSE "page")
              /\ listed' = found
              /\ todo' = IF next = 0 THEN found ELSE {}
              /\ cursor' = next
              /\ pages' = pages + 1
              /\ UNCHANGED <<at, visited, depth>>
  BY DEF ListPage
<1>1. PICK next \in NextCursor(ids) :
        \/ Return("protocol")
        \/ /\ ~(next # 0 /\ (next = cursor \/ pages + 1 = MaxPages))
           /\ Ask(IF next = 0 THEN "thread" ELSE "page")
           /\ listed' = listed \union ids
           /\ todo' = IF next = 0 THEN listed \union ids ELSE {}
           /\ cursor' = next
           /\ pages' = pages + 1
           /\ UNCHANGED <<at, visited, depth>>
  BY <1>0
<1>2. UNCHANGED threadVars /\ asking = "page"
  BY DEF ListPage
<1>3. CASE Return("protocol")
  BY <1>2, <1>3, ReturnKeeps DEF Answers
<1>4. CASE ~Return("protocol")
  <2>1. ids \subseteq Thread /\ next \in Thread \union {0}
    BY DEF Pages, NextCursor, Unlisted, WalkInv, WalkTypeOK
  <2>2. WalkTypeOK' /\ (asking' = "page" => pages' < MaxPages) /\ parent'[Root] = NoThread
    <3>1. pages \in 0..MaxPages /\ pages < MaxPages /\ pages' = pages + 1 /\ MaxPages \in Nat
      BY <1>1, <1>2, <1>4, WalkAssumption DEF WalkInv, WalkTypeOK
    <3>2. pages' \in 0..MaxPages
      BY <3>1
    <3>3. asking' = "page" => pages' < MaxPages
      BY <1>1, <1>4, <3>1 DEF Ask
    <3>4. asking' \in {"page", "thread"} /\ answer' = answer
      BY <1>1, <1>4 DEF Ask
    <3>5. todo' \subseteq listed' /\ listed' \subseteq Thread /\ cursor' \in Thread \union {0}
      BY <1>1, <1>4, <2>1 DEF WalkInv, WalkTypeOK
    <3> QED BY <1>1, <1>2, <1>4, <3>2, <3>3, <3>4, <3>5 DEF WalkInv, WalkTypeOK, threadVars
  <2>3. \A u : Descends(u)' <=> Descends(u)
    BY <1>2 DEF Descends, threadVars
  <2>4. ASSUME NEW t \in steady, Descends(t)
        PROVE  t \in listed \union ids \/ (next # 0 /\ t > next)
    <3>1. t \in loaded /\ (t \in listed \/ t > cursor)
      BY <1>2, <2>4 DEF WalkInv, WalkTypeOK, NobodyLost
    <3>2. CASE t \in listed
      BY <3>2
    <3>3. CASE t > cursor
      <4>1. t \in Unlisted
        BY <3>1, <3>3 DEF Unlisted
      <4>2. CASE next = 0
        BY <4>1, <4>2, WalkAssumption DEF NextCursor, WalkInv, WalkTypeOK, Pages, Unlisted
      <4>3. CASE next # 0 /\ next # cursor
        <5>1. next \in ids
          BY <4>3 DEF NextCursor
        <5>2. t < next => t \in ids
          BY <4>1, <5>1 DEF Pages
        <5>3. t \in Nat /\ next \in Nat
          BY <3>1, <2>1, WalkAssumption DEF WalkInv, WalkTypeOK
        <5> QED BY <4>3, <5>1, <5>2, <5>3
      <4> QED BY <1>1, <1>4, <4>2, <4>3
    <3> QED BY <3>1, <3>2, <3>3
  <2>5. NobodyLost'
    BY <1>1, <1>2, <1>4, <2>3, <2>4 DEF NobodyLost, Ask, threadVars
  <2>6. ClimbIsFounded' /\ IdleMeansNoneWorked' /\ ActiveMeansOneWorked'
    BY <1>1, <1>2, <1>4, <2>3 DEF WalkInv, WalkTypeOK, ClimbIsFounded, IdleMeansNoneWorked,
       ActiveMeansOneWorked, Ask, threadVars
  <2> QED BY <2>2, <2>5, <2>6 DEF WalkInv
<1> QED BY <1>3, <1>4

\* The thread that leaves todo is the one the climb starts from, unless it is the
\* root or idle.
LEMMA ReadThreadKeeps ==
  ASSUME WalkInv, NEW t \in Thread, ReadThread(t)
  PROVE  WalkInv'
<1>1. UNCHANGED <<threadVars, cursor, pages, listed, answer>> /\ asking = "thread" /\ t \in todo
      /\ todo' = todo \ {t}
  BY DEF ReadThread, Ask
<1>2. \A u : Descends(u)' <=> Descends(u)
  BY <1>1 DEF Descends, threadVars
<1>3. WalkTypeOK' /\ asking' # "page" /\ parent'[Root] = NoThread
  <2>1. CASE t = Root \/ t \notin busy
    BY WalkAssumption, <1>1, <2>1 DEF WalkInv, WalkTypeOK, ReadThread, Ask, threadVars
  <2>2. CASE ~(t = Root \/ t \notin busy)
    <3>1. asking' = "parent" /\ at' = t /\ visited' = {} /\ depth' = 0
      BY <2>2 DEF ReadThread, Ask
    <3>2. 0 \in 0..MaxDepth - 1
      BY WalkAssumption
    <3> QED BY <1>1, <3>1, <3>2 DEF WalkInv, WalkTypeOK, threadVars
  <2> QED BY <2>1, <2>2
<1>4. NobodyLost'
  <2>1. CASE t = Root \/ t \notin busy
    BY <1>1, <1>2, <2>1, RootDoesNotDescend DEF WalkInv, WalkTypeOK, NobodyLost, ReadThread, Ask, threadVars
  <2>2. CASE ~(t = Root \/ t \notin busy)
    BY <1>1, <1>2, <2>2 DEF WalkInv, NobodyLost, ReadThread, Ask, threadVars
  <2> QED BY <2>1, <2>2
<1>5. ClimbIsFounded'
  BY <1>1, <1>2 DEF WalkInv, WalkTypeOK, ClimbIsFounded, ReadThread, Ask, threadVars
<1>6. (IdleMeansNoneWorked /\ ActiveMeansOneWorked)'
  BY <1>1, <1>2 DEF WalkInv, IdleMeansNoneWorked, ActiveMeansOneWorked, threadVars
<1> QED BY <1>3, <1>4, <1>5, <1>6 DEF WalkInv

\* A step up leads from descendant to descendant, and ends at a child of the root or
\* where no descendant could be.
LEMMA ClimbKeeps ==
  ASSUME WalkInv, Climb
  PROVE  WalkInv'
<1> at \in Thread /\ asking = "parent" /\ UNCHANGED threadVars
  BY DEF Climb, WalkInv, WalkTypeOK
<1>1. CASE Return("ambiguous")
  BY <1>1, ReturnKeeps DEF Answers
<1>2. CASE Found
  <2>1. Descends(at)
    BY <1>2, ChildDescends DEF Found
  <2>2. \E t \in worked : Descends(t)
    BY <2>1 DEF WalkInv, ClimbIsFounded
  <2> QED BY <1>2, <2>2, ReturnKeeps DEF Found, Answers
<1>3. \A u : Descends(u)' <=> Descends(u)
  BY DEF Descends, threadVars
<1>4. CASE Topped
  <2>1. ~Descends(at)
    BY <1>4, DescendsUp, WalkAssumption DEF Topped, WalkInv, WalkTypeOK
  <2>2. WalkTypeOK' /\ parent'[Root] = NoThread
    BY <1>4 DEF WalkInv, WalkTypeOK, Topped, Ask, threadVars
  <2>3. NobodyLost'
    BY <1>3, <1>4, <2>1 DEF WalkInv, NobodyLost, Topped, Ask, threadVars
  <2>4. ClimbIsFounded' /\ IdleMeansNoneWorked' /\ ActiveMeansOneWorked'
    BY <1>3, <1>4 DEF WalkInv, ClimbIsFounded, IdleMeansNoneWorked, ActiveMeansOneWorked,
       Topped, Ask, threadVars
  <2> QED BY <1>4, <2>2, <2>3, <2>4 DEF WalkInv, Topped, Ask
<1>5. CASE ReadParent /\ ~Return("ambiguous")
  <2>1. /\ parent[at] \in Thread \ {Root} /\ at' = parent[at] /\ Ask("parent")
        /\ depth < MaxDepth - 1 /\ depth' = depth + 1 /\ visited' = visited \union {at}
        /\ UNCHANGED <<cursor, pages, listed, todo>>
    BY <1>5 DEF ReadParent, WalkInv, WalkTypeOK
  <2>2. WalkTypeOK' /\ parent'[Root] = NoThread
    BY <2>1, WalkAssumption DEF WalkInv, WalkTypeOK, Ask, threadVars
  <2>3. Descends(at) <=> Descends(parent[at])
    BY <2>1, DescendsUp, DescendsDown DEF WalkInv, WalkTypeOK
  <2>4. NobodyLost'
    BY <1>3, <2>1, <2>3 DEF WalkInv, NobodyLost, Ask, threadVars
  <2>5. ClimbIsFounded' /\ IdleMeansNoneWorked' /\ ActiveMeansOneWorked'
    BY <1>3, <2>1, <2>3 DEF WalkInv, ClimbIsFounded, IdleMeansNoneWorked,
       ActiveMeansOneWorked, Ask, threadVars
  <2> QED BY <2>1, <2>2, <2>4, <2>5 DEF WalkInv, Ask
<1> QED BY <1>1, <1>2, <1>4, <1>5 DEF Climb, Looped

\* Every step keeps the invariant.
LEMMA StepWalk == WalkInv /\ [WalkNext]_walkVars => WalkInv'
<1> SUFFICES ASSUME WalkInv, [WalkNext]_walkVars PROVE WalkInv'
  OBVIOUS
<1>1. CASE ListPage
  BY <1>1, ListPageKeeps
<1>2. CASE \E t \in Thread : ReadThread(t)
  BY <1>2, ReadThreadKeeps
<1>3. CASE NothingLeft
  <2>1. \A t \in steady : ~Descends(t)
    BY <1>3 DEF NothingLeft, WalkInv, NobodyLost
  <2> QED BY <1>3, <2>1, ReturnKeeps DEF NothingLeft, Answers
<1>4. CASE Climb
  BY <1>4, ClimbKeeps
<1>5. CASE ReadFails
  BY <1>5, ReturnKeeps DEF ReadFails, Answers
<1>6. CASE \E t \in Thread : TurnStarts(t) \/ TurnEnds(t) \/ Unloads(t)
  BY <1>6, ThreadsKeep
<1>7. CASE UNCHANGED walkVars
  BY <1>7 DEF walkVars, WalkInv, WalkTypeOK, NobodyLost, ClimbIsFounded, IdleMeansNoneWorked,
     ActiveMeansOneWorked, Descends
<1> QED BY <1>1, <1>2, <1>3, <1>4, <1>5, <1>6, <1>7 DEF WalkNext, Walk

-----------------------------------------------------------------------------

\* The inductive invariant holds throughout.
LEMMA WalkInvariant == WalkSpec => []WalkInv
BY InitWalk, StepWalk, PTL DEF WalkSpec

\* "No active descendant" is never said over the head of one that was loaded and active
\* from the first page to the last read, whatever threads, parents, pages and bounds
\* there are (orchestrator.rs:323-361).
THEOREM IdleIsRight == WalkSpec => []IdleMeansNoneWorked
<1>1. WalkInv => IdleMeansNoneWorked
  BY DEF WalkInv
<1> QED BY <1>1, WalkInvariant, PTL

\* active_subagents is the answer only when a descendant of the root was active
\* during the walk (orchestrator.rs:350-352).
THEOREM ActiveIsRight == WalkSpec => []ActiveMeansOneWorked
<1>1. WalkInv => ActiveMeansOneWorked
  BY DEF WalkInv
<1> QED BY <1>1, WalkInvariant, PTL

\* The walk's variables keep their types and bounds.
THEOREM WalkTypeCorrect == WalkSpec => []WalkTypeOK
<1>1. WalkInv => WalkTypeOK
  BY DEF WalkInv
<1> QED BY <1>1, WalkInvariant, PTL

-----------------------------------------------------------------------------
(* The chain that is climbed *)

\* up is the way from an active thread to where the climb stands, and the threads
\* met on it are those before the last.
ChainTo(up) ==
  /\ up[0] \in worked /\ up[depth] = at
  /\ \A n \in 1..depth : up[n] = parent[up[n - 1]]
  /\ visited = {up[n] : n \in 0..depth - 1}

ClimbInv ==
  /\ asking = "parent" => \E up \in [0..depth -> Thread \ {Root}] : ChainTo(up)
  /\ AmbiguousMeansLong

\* A step up makes the chain one longer.
LEMMA ChainGrows ==
  ASSUME NEW k \in Nat, NEW up \in [0..k -> Thread \ {Root}], NEW top \in Thread \ {Root},
         \A n \in 1..k : up[n] = parent[up[n - 1]], top = parent[up[k]]
  PROVE  \E longer \in [0..k + 1 -> Thread \ {Root}] :
           /\ longer[k + 1] = top /\ \A n \in 0..k : longer[n] = up[n]
           /\ \A n \in 1..k + 1 : longer[n] = parent[longer[n - 1]]
<1>1. PICK longer \in [0..k + 1 -> Thread \ {Root}] :
        longer = [n \in 0..k + 1 |-> IF n = k + 1 THEN top ELSE up[n]]
  <2>1. [n \in 0..k + 1 |-> IF n = k + 1 THEN top ELSE up[n]] \in [0..k + 1 -> Thread \ {Root}]
    OBVIOUS
  <2> QED BY <2>1
<1>2. longer[k + 1] = top /\ \A n \in 0..k : longer[n] = up[n]
  BY <1>1
<1>3. ASSUME NEW n \in 1..k + 1 PROVE longer[n] = parent[longer[n - 1]]
  <2>1. CASE n = k + 1
    BY <1>2, <2>1
  <2>2. CASE n \in 1..k
    <3>1. n - 1 \in 0..k /\ n \in 0..k
      BY <2>2
    <3> QED BY <1>2, <2>2, <3>1
  <2> QED BY <2>1, <2>2
<1> QED BY <1>2, <1>3

\* The threads' parents do not change, and those that worked stay so.
LEMMA LongStaysLong ==
  ASSUME AmbiguousMeansLong, UNCHANGED <<parent, answer>>, worked \subseteq worked'
  PROVE  AmbiguousMeansLong'
<1>1. \A t : (ManyAncestors(t) <=> ManyAncestors(t)') /\ (EndlessAncestors(t) <=> EndlessAncestors(t)')
  BY DEF ManyAncestors, EndlessAncestors
<1> QED BY <1>1 DEF AmbiguousMeansLong

LEMMA ReturnKeepsClimb ==
  ASSUME NEW a \in Answers, Return(a), UNCHANGED threadVars,
         a = "ambiguous" => \E t \in worked : ManyAncestors(t) \/ EndlessAncestors(t)
  PROVE  ClimbInv'
<1>1. \A t : (ManyAncestors(t) <=> ManyAncestors(t)') /\ (EndlessAncestors(t) <=> EndlessAncestors(t)')
  BY DEF ManyAncestors, EndlessAncestors, threadVars
<1> QED BY <1>1 DEF ClimbInv, AmbiguousMeansLong, Return, threadVars

LEMMA ClimbKeepsClimb == ASSUME WalkInv, ClimbInv, Climb PROVE ClimbInv'
<1>1. /\ asking = "parent" /\ UNCHANGED threadVars /\ depth \in 0..MaxDepth - 1 /\ MaxDepth \in Nat
      /\ parent \in [Thread -> Thread \union {NoThread}] /\ Root \in Thread
  BY WalkAssumption DEF Climb, WalkInv, WalkTypeOK
<1>2. PICK up \in [0..depth -> Thread \ {Root}] : ChainTo(up)
  BY <1>1 DEF ClimbInv
<1>3. 0 \in 0..depth /\ depth \in 0..depth /\ depth \in Nat
  BY <1>1
<1>4. CASE Looped
  <2>1. PICK m \in 0..depth - 1 : at = up[m]
    BY <1>2, <1>4 DEF Looped, ChainTo
  <2> DEFINE S == {up[n] : n \in 0..depth}
  <2>2. S \in SUBSET (Thread \ {Root}) /\ up[0] \in S
    BY <1>2, <1>3
  <2>3. ASSUME NEW n \in 0..depth PROVE parent[up[n]] \in S
    <3>1. PICK k \in 0..depth - 1 : up[k] = up[n]
      BY <1>2, <1>3, <2>1 DEF ChainTo
    <3>2. k + 1 \in 1..depth /\ k + 1 \in 0..depth /\ (k + 1) - 1 = k
      BY <1>3, <3>1
    <3>3. up[k + 1] = parent[up[k]]
      BY <1>2, <3>2 DEF ChainTo
    <3> QED BY <3>1, <3>2, <3>3
  <2>4. EndlessAncestors(up[0])
    BY <2>2, <2>3 DEF EndlessAncestors
  <2>5. up[0] \in worked /\ Return("ambiguous") /\ "ambiguous" \in Answers
    BY <1>2, <1>4 DEF Looped, ChainTo, Answers
  <2> HIDE DEF S
  <2> QED BY <1>1, <2>4, <2>5, ReturnKeepsClimb
<1>5. CASE Topped
  BY <1>1, <1>5, LongStaysLong DEF Topped, Ask, ClimbInv, threadVars
<1>6. CASE Found
  BY <1>1, <1>6, ReturnKeepsClimb DEF Found, Answers
<1>7. CASE ReadParent
  <2>1. parent[at] \in Thread \ {Root} /\ up[depth] = at
    BY <1>1, <1>2, <1>3, <1>7 DEF ReadParent, ChainTo
  <2>2. PICK longer \in [0..depth + 1 -> Thread \ {Root}] :
          /\ longer[depth + 1] = parent[at] /\ \A n \in 0..depth : longer[n] = up[n]
          /\ \A n \in 1..depth + 1 : longer[n] = parent[longer[n - 1]]
    BY <1>2, <1>3, <2>1, ChainGrows DEF ChainTo
  <2>3. longer[0] \in worked
    BY <1>2, <1>3, <2>2 DEF ChainTo
  <2>4. CASE depth = MaxDepth - 1 /\ Return("ambiguous")
    <3>1. depth + 1 = MaxDepth
      BY <1>1, <2>4
    <3>2. ManyAncestors(longer[0])
      BY <2>2, <3>1 DEF ManyAncestors
    <3> QED BY <1>1, <2>3, <2>4, <3>2, ReturnKeepsClimb DEF Answers
  <2>5. CASE depth < MaxDepth - 1
    <3>1. /\ asking' = "parent" /\ UNCHANGED answer /\ at' = parent[at] /\ depth' = depth + 1
          /\ visited' = visited \union {at}
      BY <1>1, <1>7, <2>5 DEF ReadParent, Ask
    <3>2. visited' = {longer[n] : n \in 0..depth}
      <4>1. visited = {up[n] : n \in 0..depth - 1} /\ at = up[depth]
        BY <1>2 DEF ChainTo
      <4>2. 0..depth = (0..depth - 1) \union {depth}
        BY <1>3
      <4>3. {longer[n] : n \in 0..depth} = {up[n] : n \in 0..depth}
        BY <2>2
      <4> QED BY <3>1, <4>1, <4>2, <4>3
    <3>3. (depth + 1) - 1 = depth
      BY <1>3
    <3>4. ChainTo(longer)'
      BY <1>1, <2>2, <2>3, <3>1, <3>2, <3>3 DEF ChainTo, threadVars
    <3>5. AmbiguousMeansLong'
      BY <1>1, <3>1, LongStaysLong DEF ClimbInv, threadVars
    <3> QED BY <2>2, <3>1, <3>4, <3>5 DEF ClimbInv
  <2> QED BY <1>1, <1>7, <2>4, <2>5 DEF ReadParent
<1> QED BY <1>4, <1>5, <1>6, <1>7 DEF Climb

LEMMA StepClimb == WalkInv /\ ClimbInv /\ [WalkNext]_walkVars => ClimbInv'
<1> SUFFICES ASSUME WalkInv, ClimbInv, [WalkNext]_walkVars PROVE ClimbInv'
  OBVIOUS
<1>1. CASE ListPage
  <2>1. UNCHANGED threadVars
    BY <1>1 DEF ListPage
  <2>2. Return("protocol") \/ (asking' \in {"thread", "page"} /\ UNCHANGED answer)
    BY <1>1 DEF ListPage, Ask
  <2>3. CASE asking' \in {"thread", "page"} /\ UNCHANGED answer
    BY <2>1, <2>3, LongStaysLong DEF ClimbInv, threadVars
  <2> QED BY <2>1, <2>2, <2>3, ReturnKeepsClimb DEF Answers
<1>2. ASSUME NEW t \in Thread, ReadThread(t) PROVE ClimbInv'
  <2>1. UNCHANGED <<threadVars, answer>> /\ asking' \in {"thread", "parent"}
    BY <1>2 DEF ReadThread, Ask
  <2>2. AmbiguousMeansLong'
    BY <2>1, LongStaysLong DEF ClimbInv, threadVars
  <2>3. ASSUME asking' = "parent" PROVE \E up \in [0..depth' -> Thread \ {Root}] : ChainTo(up)'
    <3>1. at' = t /\ visited' = {} /\ depth' = 0 /\ t \in worked /\ t # Root
      BY <1>2, <2>3 DEF ReadThread, Ask, WalkInv, WalkTypeOK
    <3>2. PICK up \in [0..depth' -> Thread \ {Root}] : up = [n \in 0..0 |-> t]
      <4>1. [n \in 0..0 |-> t] \in [0..depth' -> Thread \ {Root}]
        BY <3>1
      <4> QED BY <4>1
    <3>3. up[0] = t
      BY <3>2
    <3>4. ChainTo(up)'
      BY <2>1, <3>1, <3>3 DEF ChainTo, threadVars
    <3> QED BY <3>4
  <2> QED BY <2>2, <2>3 DEF ClimbInv
<1>3. CASE NothingLeft \/ ReadFails
  BY <1>3, ReturnKeepsClimb DEF NothingLeft, ReadFails, Answers
<1>4. CASE Climb
  BY <1>4, ClimbKeepsClimb
<1>5. CASE UNCHANGED <<parent, walkLocals>> /\ worked \subseteq worked'
  <2>1. \A up : ChainTo(up) => ChainTo(up)'
    BY <1>5 DEF ChainTo, walkLocals
  <2> QED BY <1>5, <2>1, LongStaysLong DEF ClimbInv, walkLocals
<1>6. ASSUME NEW t \in Thread, TurnStarts(t) \/ TurnEnds(t) \/ Unloads(t) PROVE ClimbInv'
  BY <1>5, <1>6 DEF TurnStarts, TurnEnds, Unloads
<1>7. CASE UNCHANGED walkVars
  BY <1>5, <1>7 DEF walkVars, walkLocals
<1> QED BY <1>1, <1>2, <1>3, <1>4, <1>6, <1>7 DEF WalkNext, Walk

\* A climb ends as ambiguous only where a thread that was active has as many ancestors
\* as the bound, or endlessly many, and the root is not among them
\* (orchestrator.rs:336-361).
THEOREM AmbiguousIsRight == WalkSpec => []AmbiguousMeansLong
<1>1. WalkInit => ClimbInv
  BY DEF WalkInit, ClimbInv, AmbiguousMeansLong
<1>2. ClimbInv => AmbiguousMeansLong
  BY DEF ClimbInv
<1> QED BY <1>1, <1>2, StepClimb, WalkInvariant, PTL DEF WalkSpec

-----------------------------------------------------------------------------
(* Numbers, and steps one after the other *)

\* Every set of numbers that is not empty has a least one.
LEMMA LeastNumber ==
  ASSUME NEW S, S \subseteq Nat, S # {}
  PROVE  \E i \in S : \A j \in S : i <= j
<1>1. PICK i \in S : \A j \in S : <<j, i>> \notin OpToRel(<, Nat)
  BY NatLessThanWellFounded, WFMin
<1>2. \A j \in S : ~(j < i)
  BY <1>1 DEF OpToRel
<1>3. \A j \in S : i \in Nat /\ j \in Nat
  OBVIOUS
<1> QED
  BY <1>2, <1>3

\* A set of numbers that holds the first and with each the next holds all.
LEMMA Climbing ==
  ASSUME NEW n \in Nat, NEW S, 0 \in S, \A i \in 1..n : i - 1 \in S => i \in S
  PROVE  0..n \subseteq S
<1> DEFINE bad == (0..n) \ S
<1>1. SUFFICES ASSUME bad # {} PROVE FALSE
  OBVIOUS
<1>2. bad \subseteq Nat
  OBVIOUS
<1>3. PICK m \in bad : \A k \in bad : m <= k
  BY <1>1, <1>2, LeastNumber
<1>4. m \in 1..n /\ m - 1 \in 0..n /\ ~(m <= m - 1)
  BY <1>3
<1>5. m - 1 \in S
  BY <1>3, <1>4
<1> QED BY <1>3, <1>4, <1>5

\* f[i] is what the steps up to i make of b.
Steps(f, m, b, step) == f[0] = b /\ \A i \in 1..m : f[i] = step[i][f[i - 1]]

\* Whatever one does step by step there is a function that has done it.
LEMMA StepByStep ==
  ASSUME NEW V, NEW b \in V, NEW n \in Nat, NEW step \in [1..n -> [V -> V]]
  PROVE  \E f \in [0..n -> V] : Steps(f, n, b, step)
<1> USE DEF Steps
<1> DEFINE Done(m, f) == Steps(f, m, b, step)
           S == {m \in 0..n : \E f \in [0..m -> V] : Done(m, f)}
<1>1. 0 \in S
  <2> DEFINE f == [i \in 0..0 |-> b]
  <2>1. f \in [0..0 -> V] /\ Done(0, f)
    OBVIOUS
  <2> HIDE DEF f, Done
  <2> QED BY <2>1
<1>2. ASSUME NEW m \in 1..n, m - 1 \in S PROVE m \in S
  <2>1. PICK f \in [0..m - 1 -> V] : Done(m - 1, f)
    BY <1>2
  <2> DEFINE g == [i \in 0..m |-> IF i = m THEN step[m][f[m - 1]] ELSE f[i]]
  <2>2. \A i \in 0..m : i = m \/ i \in 0..m - 1
    OBVIOUS
  <2>3. g \in [0..m -> V]
    <3>1. f[m - 1] \in V
      BY <2>1
    <3>2. step[m][f[m - 1]] \in V
      BY <3>1
    <3> QED BY <2>1, <2>2, <3>2
  <2>4. g[0] = b
    BY <2>1, <1>2
  <2>5. ASSUME NEW i \in 1..m PROVE g[i] = step[i][g[i - 1]]
    <3>1. i - 1 \in 0..m /\ i - 1 # m /\ g[i - 1] = f[i - 1] /\ i \in 0..m
      OBVIOUS
    <3>2. CASE i = m
      BY <3>1, <3>2
    <3>3. CASE i # m
      <4>1. i \in 1..m - 1
        BY <3>3
      <4> QED BY <2>1, <3>1, <3>3, <4>1
    <3> QED BY <3>2, <3>3
  <2> HIDE DEF g
  <2>6. Done(m, g) /\ m \in 0..n
    BY <2>4, <2>5
  <2> HIDE DEF Done
  <2>7. \E h \in [0..m -> V] : Done(m, h)
    BY <2>3, <2>6
  <2> QED BY <2>6, <2>7
<1>3. n \in S
  <2> HIDE DEF S
  <2>1. 0..n \subseteq S
    BY <1>1, <1>2, Climbing
  <2> QED BY <2>1
<1> QED BY <1>3

\* What `Within' collects, one entry after the other.
LEMMA WithinSteps ==
  ASSUME NEW X, NEW s \in Seq(X), NEW W
  PROVE  \E f : /\ f[0] = <<>> /\ Within(s, W) = f[Len(s)]
                /\ \A n \in 1..Len(s) :
                     f[n] = IF s[n] \in W THEN Append(f[n - 1], s[n]) ELSE f[n - 1]
<1> DEFINE L == Len(s)
           step == [n \in 1..L |-> [t \in Seq(X) |-> IF s[n] \in W THEN Append(t, s[n]) ELSE t]]
           Is(f) == f = [n \in 0..L |->
                          IF n = 0 THEN <<>>
                          ELSE IF s[n] \in W THEN Append(f[n - 1], s[n])
                          ELSE f[n - 1]]
<1>1. L \in Nat /\ \A n \in 1..L : s[n] \in X
  OBVIOUS
<1>2. step \in [1..L -> [Seq(X) -> Seq(X)]]
  <2>1. ASSUME NEW n \in 1..L, NEW t \in Seq(X)
        PROVE  (IF s[n] \in W THEN Append(t, s[n]) ELSE t) \in Seq(X)
    BY <1>1, AppendProperties
  <2> QED BY <2>1
<1>3. <<>> \in Seq(X)
  OBVIOUS
<1>4. PICK f \in [0..L -> Seq(X)] : f[0] = <<>> /\ \A n \in 1..L : f[n] = step[n][f[n - 1]]
  <2> DEFINE V == Seq(X)
             b == <<>>
  <2>1. step \in [1..L -> [V -> V]] /\ b \in V /\ L \in Nat
    BY <1>1, <1>2, <1>3
  <2>2. \E f \in [0..L -> V] : Steps(f, L, b, step)
    <3> HIDE DEF step, L, V, b
    <3> QED BY <2>1, StepByStep
  <2> QED BY <2>2 DEF Steps
<1>5. \A n \in 1..L : f[n] = IF s[n] \in W THEN Append(f[n - 1], s[n]) ELSE f[n - 1]
  <2>1. \A n \in 1..L : f[n - 1] \in Seq(X)
    BY <1>1, <1>4
  <2> QED BY <1>4, <2>1
<1>6. Is(f)
  <2> HIDE DEF L
  <2>1. \A n \in 0..L : n = 0 \/ n \in 1..L
    BY <1>1
  <2> QED BY <1>4, <1>5, <2>1
<1> DEFINE kept == CHOOSE g : Is(g)
<1>7. Is(kept)
  <2> HIDE DEF Is
  <2> QED BY <1>6
<1>8. Within(s, W) = kept[Len(s)]
  BY DEF Within
<1>9. \A n \in 1..L : n \in 0..L /\ n # 0
  OBVIOUS
<1>10. /\ kept[0] = <<>>
       /\ \A n \in 1..L : kept[n] = IF s[n] \in W THEN Append(kept[n - 1], s[n]) ELSE kept[n - 1]
  <2> HIDE DEF kept, L
  <2>1. kept = [n \in 0..L |-> IF n = 0 THEN <<>>
                               ELSE IF s[n] \in W THEN Append(kept[n - 1], s[n])
                               ELSE kept[n - 1]]
    BY <1>7
  <2>2. 0 \in 0..L
    BY <1>1
  <2>3. kept[0] = <<>>
    BY <2>1, <2>2
  <2> HIDE DEF Is
  <2>4. ASSUME NEW n \in 1..L
        PROVE  kept[n] = IF s[n] \in W THEN Append(kept[n - 1], s[n]) ELSE kept[n - 1]
    BY <1>9, <2>1
  <2> QED BY <2>3, <2>4
<1> HIDE DEF kept
<1> QED BY <1>8, <1>10

-----------------------------------------------------------------------------
(* Pushing an entry *)

\* s without its entry at j, or s when it has none there.
Skipped(s, j) ==
  [k \in 1..(IF j <= Len(s) THEN Len(s) - 1 ELSE Len(s)) |-> IF k < j THEN s[k] ELSE s[k + 1]]

\* A function over 1..n is a sequence of length n.
LEMMA FunctionIsSeq ==
  ASSUME NEW X, NEW n \in Nat, NEW g \in [1..n -> X]
  PROVE  g \in Seq(X) /\ Len(g) = n
<1>1. g \in Seq(X)
  BY SeqDef
<1>2. Len(g) \in Nat /\ 1..Len(g) = 1..n
  BY <1>1, LenProperties
<1> QED BY <1>1, <1>2

\* Without one entry a sequence is one, at most one shorter.
LEMMA SkippedType ==
  ASSUME NEW X, NEW s \in Seq(X), NEW j \in 1..Len(s) + 1
  PROVE  /\ Skipped(s, j) \in Seq(X)
         /\ Len(Skipped(s, j)) = IF j <= Len(s) THEN Len(s) - 1 ELSE Len(s)
<1> DEFINE n == IF j <= Len(s) THEN Len(s) - 1 ELSE Len(s)
<1>1. n \in Nat /\ Len(s) \in Nat
  OBVIOUS
<1>2. ASSUME NEW k \in 1..n PROVE (IF k < j THEN s[k] ELSE s[k + 1]) \in X
  <2>1. k \in 1..Len(s) /\ (~(k < j) => k + 1 \in 1..Len(s))
    OBVIOUS
  <2> QED BY <2>1
<1>3. Skipped(s, j) \in [1..n -> X]
  <2>1. Skipped(s, j) = [k \in 1..n |-> IF k < j THEN s[k] ELSE s[k + 1]]
    BY DEF Skipped
  <2> HIDE DEF n
  <2> QED BY <1>2, <2>1
<1> HIDE DEF n
<1>4. Skipped(s, j) \in Seq(X) /\ Len(Skipped(s, j)) = n
  BY <1>1, <1>3, FunctionIsSeq
<1> QED BY <1>4 DEF n

\* `Within' takes out the only entry that is not wanted.
LEMMA WithinSkips ==
  ASSUME NEW X, NEW s \in Seq(X), NEW W, NEW j \in 1..Len(s) + 1,
         \A i \in 1..Len(s) : s[i] \in W <=> i # j
  PROVE  Within(s, W) = Skipped(s, j)
<1> DEFINE L == Len(s)
           so(n) == IF j <= n THEN n - 1 ELSE n
<1>1. PICK f : /\ f[0] = <<>> /\ Within(s, W) = f[L]
               /\ \A n \in 1..L :
                    f[n] = IF s[n] \in W THEN Append(f[n - 1], s[n]) ELSE f[n - 1]
  BY WithinSteps
<1> DEFINE S == {n \in 0..L : /\ f[n] \in Seq(X) /\ Len(f[n]) = so(n)
                              /\ \A k \in 1..so(n) :
                                   f[n][k] = IF k < j THEN s[k] ELSE s[k + 1]}
<1>0. L \in Nat /\ j \in 1..L + 1 /\ \A n \in 1..L : s[n] \in X
  OBVIOUS
<1>2. 0 \in S
  <2>1. so(0) = 0 /\ 0 \in 0..L
    BY <1>0
  <2>2. f[0] \in Seq(X) /\ Len(f[0]) = 0
    BY <1>1, EmptySeq
  <2> HIDE DEF so
  <2> QED BY <2>1, <2>2
<1>3. ASSUME NEW n \in 1..L, n - 1 \in S PROVE n \in S
  <2>1. /\ f[n - 1] \in Seq(X) /\ Len(f[n - 1]) = so(n - 1)
        /\ \A k \in 1..so(n - 1) : f[n - 1][k] = IF k < j THEN s[k] ELSE s[k + 1]
    BY <1>3
  <2>2. CASE n = j
    <3>1. f[n] = f[n - 1] /\ so(n) = so(n - 1)
      BY <1>1, <2>2
    <3> QED BY <2>1, <3>1
  <2>3. CASE n # j
    <3>1. f[n] = Append(f[n - 1], s[n]) /\ s[n] \in X
      <4>1. s[n] \in W
        BY <2>3
      <4> HIDE DEF L
      <4> QED BY <1>0, <1>1, <4>1
    <3>2. /\ so(n - 1) \in Nat /\ so(n) = so(n - 1) + 1
          /\ (so(n) < j => so(n) = n) /\ (~(so(n) < j) => so(n) + 1 = n)
      BY <2>3
    <3>3. /\ f[n] \in Seq(X) /\ Len(f[n]) = so(n) /\ f[n][so(n)] = s[n]
          /\ \A k \in 1..so(n - 1) : f[n][k] = f[n - 1][k]
      <4> HIDE DEF so
      <4> QED BY <2>1, <3>1, <3>2, AppendProperties
    <3>4. \A k \in 1..so(n) : k \in 1..so(n - 1) \/ k = so(n)
      BY <3>2
    <3>5. ASSUME NEW k \in 1..so(n) PROVE f[n][k] = IF k < j THEN s[k] ELSE s[k + 1]
      <4> HIDE DEF so
      <4> QED BY <2>1, <3>2, <3>3, <3>4
    <3>6. n \in 0..L
      OBVIOUS
    <3> HIDE DEF so
    <3> QED BY <3>3, <3>5, <3>6
  <2> QED BY <2>2, <2>3
<1>4. L \in S
  <2> HIDE DEF S, L
  <2>1. 0..L \subseteq S
    BY <1>0, <1>2, <1>3, Climbing
  <2> QED BY <1>0, <2>1
<1>5. Skipped(s, j) \in Seq(X) /\ Len(Skipped(s, j)) = so(L)
  BY SkippedType
<1>6. \A k \in 1..so(L) : Skipped(s, j)[k] = IF k < j THEN s[k] ELSE s[k + 1]
  BY DEF Skipped
<1>7. f[L] = Skipped(s, j)
  <2>1. /\ f[L] \in Seq(X) /\ Len(f[L]) = so(L)
        /\ \A k \in 1..so(L) : f[L][k] = IF k < j THEN s[k] ELSE s[k + 1]
    BY <1>4
  <2> HIDE DEF so, L
  <2>2. \A k \in 1..Len(f[L]) : f[L][k] = Skipped(s, j)[k]
    BY <1>6, <2>1
  <2>3. Len(f[L]) = Len(Skipped(s, j))
    BY <1>5, <2>1
  <2> QED BY <1>5, <2>1, <2>2, <2>3, SeqEqual
<1> QED BY <1>1, <1>7

\* s without its entry at d and with x at the end.
Shifted(s, x, d) ==
  [k \in 1..Len(s) |-> IF k < d THEN s[k] ELSE IF k < Len(s) THEN s[k + 1] ELSE x]

\* t comes from s when x is pushed: there is room and no entry like it, or that entry
\* or, without one, the oldest gives way.
Pushed(s, x, t, like, max) ==
  \/ like = {} /\ Len(s) < max /\ t = Append(s, x)
  \/ \E d \in 1..Len(s) :
       /\ like = {d} \/ (like = {} /\ Len(s) = max /\ d = 1)
       /\ t = Shifted(s, x, d)

\* A push that takes an entry's place leaves the length.
LEMMA ShiftedType ==
  ASSUME NEW X, NEW s \in Seq(X), NEW x \in X, NEW d \in 1..Len(s)
  PROVE  Shifted(s, x, d) \in Seq(X) /\ Len(Shifted(s, x, d)) = Len(s)
<1>1. Len(s) \in Nat /\ \A k \in 1..Len(s) : s[k] \in X
  OBVIOUS
<1>2. ASSUME NEW k \in 1..Len(s)
      PROVE  (IF k < d THEN s[k] ELSE IF k < Len(s) THEN s[k + 1] ELSE x) \in X
  <2>1. k < Len(s) => k + 1 \in 1..Len(s)
    BY <1>1
  <2> QED BY <1>1, <2>1
<1>3. Shifted(s, x, d) \in [1..Len(s) -> X]
  BY <1>2 DEF Shifted
<1> QED BY <1>1, <1>3, FunctionIsSeq

\* The end of a sequence, entry by entry.
LEMMA LastOfEntries ==
  ASSUME NEW X, NEW s \in Seq(X), NEW max \in Nat, Len(s) > max
  PROVE  /\ LastOf(s, max) \in Seq(X) /\ Len(LastOf(s, max)) = max
         /\ \A k \in 1..max : LastOf(s, max)[k] = s[Len(s) - max + k]
<1>1. LastOf(s, max) = SubSeq(s, Len(s) - max + 1, Len(s)) /\ Len(s) \in Nat
  BY DEF LastOf
<1>2. Len(s) - max + 1 \in Int /\ \A i \in Len(s) - max + 1 .. Len(s) : i \in 1..Len(s)
  BY <1>1
<1>3. \A i \in Len(s) - max + 1 .. Len(s) : s[i] \in X
  BY <1>2
<1> DEFINE m == Len(s) - max + 1
<1>4. /\ SubSeq(s, m, Len(s)) \in Seq(X)
      /\ Len(SubSeq(s, m, Len(s))) = IF m <= Len(s) THEN Len(s) - m + 1 ELSE 0
      /\ \A i \in 1..Len(s) - m + 1 : SubSeq(s, m, Len(s))[i] = s[m + i - 1]
  <2> HIDE DEF m
  <2> QED BY <1>1, <1>2, <1>3, SubSeqProperties DEF m
<1>5. Len(s) - m + 1 = max /\ (m <= Len(s) \/ max = 0) /\ m \in Int
  BY <1>1
<1>6. \A i \in 1..max : m + i - 1 = Len(s) - max + i
  BY <1>1
<1> HIDE DEF m
<1>7. Len(SubSeq(s, m, Len(s))) = max
  BY <1>1, <1>4, <1>5
<1> QED BY <1>1, <1>4, <1>5, <1>6, <1>7 DEF m

\* The filter, the append and the cut of a push come to one of three cases: there is room,
\* the one entry like the new one gives way, or the oldest does.
LEMMA PushShape ==
  ASSUME NEW X, NEW s \in Seq(X), NEW x \in X, NEW W, NEW max \in Nat \ {0}, Len(s) <= max,
         \A i, k \in 1..Len(s) : s[i] \notin W /\ s[k] \notin W => i = k
  PROVE  Pushed(s, x, LastOf(Append(Within(s, W), x), max),
                {i \in 1..Len(s) : s[i] \notin W}, max)
<1> DEFINE like == {i \in 1..Len(s) : s[i] \notin W}
           t == LastOf(Append(Within(s, W), x), max)
<1>0. Len(s) \in Nat /\ max \in Nat /\ max > 0
  OBVIOUS
<1>1. CASE like = {}
  <2>1. Within(s, W) = Skipped(s, Len(s) + 1)
    <3>1. Len(s) + 1 \in 1..Len(s) + 1 /\ \A i \in 1..Len(s) : s[i] \in W <=> i # Len(s) + 1
      BY <1>0, <1>1
    <3> QED BY <3>1, WithinSkips
  <2>2. Skipped(s, Len(s) + 1) \in Seq(X) /\ Len(Skipped(s, Len(s) + 1)) = Len(s)
    <3>1. Len(s) + 1 \in 1..Len(s) + 1 /\ ~(Len(s) + 1 <= Len(s))
      BY <1>0
    <3> QED BY <3>1, SkippedType
  <2>3. \A k \in 1..Len(s) : Skipped(s, Len(s) + 1)[k] = s[k]
    BY <1>0 DEF Skipped
  <2>4. Within(s, W) = s
    BY <2>1, <2>2, <2>3, SeqEqual
  <2>5. CASE Len(s) < max
    <3>1. Len(Append(s, x)) = Len(s) + 1
      BY AppendProperties
    <3>2. t = Append(s, x)
      BY <1>0, <2>4, <2>5, <3>1 DEF LastOf
    <3> QED BY <1>1, <2>5, <3>2 DEF Pushed
  <2>6. CASE Len(s) = max
    <3>1. /\ Append(s, x) \in Seq(X) /\ Len(Append(s, x)) = max + 1
          /\ \A k \in 1..Len(s) : Append(s, x)[k] = s[k]
          /\ Append(s, x)[Len(s) + 1] = x
      BY <2>6, AppendProperties
    <3>2. /\ t \in Seq(X) /\ Len(t) = max
          /\ \A k \in 1..max : t[k] = Append(s, x)[Len(Append(s, x)) - max + k]
      <4>1. Len(Append(s, x)) > max
        BY <1>0, <3>1
      <4> DEFINE a == Append(s, x)
      <4>2. t = LastOf(a, max) /\ a \in Seq(X)
        BY <2>4, <3>1
      <4> HIDE DEF t, a
      <4>3. /\ LastOf(a, max) \in Seq(X) /\ Len(LastOf(a, max)) = max
            /\ \A k \in 1..max : LastOf(a, max)[k] = a[Len(a) - max + k]
        BY <1>0, <4>1, <4>2, LastOfEntries DEF a
      <4> QED BY <4>2, <4>3 DEF a
    <3>3. \A k \in 1..max : t[k] = IF k < max THEN s[k + 1] ELSE x
      <4> HIDE DEF t
      <4> TAKE k \in 1..max
      <4>1. t[k] = Append(s, x)[1 + k]
        <5>1. Len(Append(s, x)) - max + k = 1 + k
          BY <1>0, <3>1
        <5> QED BY <3>2, <5>1
      <4>2. CASE k < max
        <5>1. 1 + k \in 1..Len(s) /\ 1 + k = k + 1
          BY <1>0, <2>6, <4>2
        <5> QED BY <3>1, <4>1, <4>2, <5>1
      <4>3. CASE ~(k < max)
        <5>1. 1 + k = Len(s) + 1
          BY <1>0, <2>6, <4>3
        <5> QED BY <3>1, <4>1, <4>3, <5>1
      <4> QED BY <4>2, <4>3
    <3>4. 1 \in 1..Len(s)
      BY <1>0, <2>6
    <3>5. Shifted(s, x, 1) \in Seq(X) /\ Len(Shifted(s, x, 1)) = max
      BY <2>6, <3>4, ShiftedType
    <3>6. \A k \in 1..max : Shifted(s, x, 1)[k] = IF k < max THEN s[k + 1] ELSE x
      BY <1>0, <2>6 DEF Shifted
    <3>7. t = Shifted(s, x, 1)
      <4> HIDE DEF t
      <4> QED BY <3>2, <3>3, <3>5, <3>6, SeqEqual
    <3> QED BY <1>1, <2>6, <3>4, <3>7 DEF Pushed
  <2> QED BY <1>0, <2>5, <2>6
<1>2. CASE like # {}
  <2>1. PICK d \in 1..Len(s) : s[d] \notin W
    BY <1>2
  <2>2. like = {d} /\ \A i \in 1..Len(s) : s[i] \in W <=> i # d
    BY <2>1
  <2>3. d \in 1..Len(s) + 1 /\ d <= Len(s)
    BY <1>0
  <2>4. Within(s, W) = Skipped(s, d)
    BY <2>2, <2>3, WithinSkips
  <2>5. Skipped(s, d) \in Seq(X) /\ Len(Skipped(s, d)) = Len(s) - 1
    BY <2>3, SkippedType
  <2>6. \A k \in 1..Len(s) - 1 : Skipped(s, d)[k] = IF k < d THEN s[k] ELSE s[k + 1]
    BY <1>0, <2>3 DEF Skipped
  <2> DEFINE r == Append(Skipped(s, d), x)
  <2>7. /\ r \in Seq(X) /\ Len(r) = Len(s) - 1 + 1 /\ r[Len(s) - 1 + 1] = x
        /\ \A k \in 1..Len(s) - 1 : r[k] = Skipped(s, d)[k]
    BY <2>5, AppendProperties
  <2>8. t = r
    <3>1. Len(r) <= max
      BY <1>0, <2>7
    <3> HIDE DEF r
    <3>2. t = LastOf(r, max)
      BY <2>4 DEF r
    <3> QED BY <3>1, <3>2 DEF LastOf
  <2>9. \A k \in 1..Len(s) : r[k] = Shifted(s, x, d)[k]
    <3> HIDE DEF r
    <3> TAKE k \in 1..Len(s)
    <3>1. CASE k < Len(s)
      <4>1. k \in 1..Len(s) - 1
        BY <1>0, <3>1
      <4> QED BY <2>6, <2>7, <3>1, <4>1 DEF Shifted
    <3>2. CASE k = Len(s)
      <4>1. k = Len(s) - 1 + 1 /\ ~(k < d) /\ ~(k < Len(s))
        BY <1>0, <3>2
      <4> QED BY <2>7, <4>1 DEF Shifted
    <3> QED BY <1>0, <3>1, <3>2
  <2>10. Shifted(s, x, d) \in Seq(X) /\ Len(Shifted(s, x, d)) = Len(s) /\ Len(r) = Len(s)
    BY <1>0, <2>7, ShiftedType
  <2>11. r = Shifted(s, x, d)
    <3> HIDE DEF r
    <3> QED BY <2>7, <2>9, <2>10, SeqEqual
  <2> QED BY <2>2, <2>8, <2>11 DEF Pushed
<1> QED BY <1>1, <1>2

-----------------------------------------------------------------------------
(* The latest entries *)

\* The places in `all' of the latest entry of each key.
Latest(all, f) ==
  {n \in 1..Len(all) : \A m \in 1..Len(all) : m > n => f[all[m]] # f[all[n]]}

\* s holds, in their order, the last latest entries of `all', which e numbers, and when
\* it is not full all of them.
Tracks(e, s, all, f, max) ==
  /\ Len(s) <= max
  /\ e \in [1..Len(s) -> 1..Len(all)]
  /\ \A i, k \in 1..Len(s) : i < k => e[i] < e[k]
  /\ \A i \in 1..Len(s) : s[i] = all[e[i]] /\ e[i] \in Latest(all, f)
  /\ \A n \in Latest(all, f) :
       (\E i \in 1..Len(s) : e[i] = n) \/ (Len(s) = max /\ n < e[1])

\* With an entry more it is the latest of its key, and that key's latest before is none now.
LEMMA LatestOfLonger ==
  ASSUME NEW X, NEW all \in Seq(X), NEW x \in X, NEW f
  PROVE  /\ Len(Append(all, x)) = Len(all) + 1
         /\ Append(all, x)[Len(all) + 1] = x
         /\ \A n \in 1..Len(all) : Append(all, x)[n] = all[n]
         /\ Latest(Append(all, x), f) =
              {n \in Latest(all, f) : f[all[n]] # f[x]} \union {Len(all) + 1}
<1>1. /\ Len(Append(all, x)) = Len(all) + 1
      /\ Append(all, x)[Len(all) + 1] = x
      /\ \A n \in 1..Len(all) : Append(all, x)[n] = all[n]
      /\ Len(all) \in Nat
  BY AppendProperties
<1> DEFINE N == Len(all)
           a == Append(all, x)
<1> HIDE DEF N, a
<1>2. /\ Len(a) = N + 1 /\ a[N + 1] = x /\ N \in Nat
      /\ \A n \in 1..N : a[n] = all[n]
  BY <1>1 DEF N, a
<1>3. \A n : n \in 1..N + 1 <=> n \in 1..N \/ n = N + 1
  BY <1>2
<1>4. ASSUME NEW n \in 1..N
      PROVE  n \in Latest(a, f) <=> n \in Latest(all, f) /\ f[all[n]] # f[x]
  <2>1. N + 1 > n
    BY <1>2
  <2>2. n \in Latest(a, f) <=> \A m \in 1..N + 1 : m > n => f[a[m]] # f[a[n]]
    BY <1>2, <1>3 DEF Latest
  <2>3. n \in Latest(all, f) <=> \A m \in 1..N : m > n => f[all[m]] # f[all[n]]
    BY DEF Latest, N
  <2> QED BY <1>2, <1>3, <2>1, <2>2, <2>3
<1>5. N + 1 \in Latest(a, f)
  BY <1>2 DEF Latest
<1>6. Latest(a, f) \subseteq 1..N + 1 /\ Latest(all, f) \subseteq 1..N
  BY <1>2 DEF Latest, N
<1>7. Latest(a, f) = {n \in Latest(all, f) : f[all[n]] # f[x]} \union {N + 1}
  BY <1>3, <1>4, <1>5, <1>6
<1> QED BY <1>1, <1>7 DEF N, a

\* The entries of s that an entry x makes out of date.
Like(s, x, f) == {i \in 1..Len(s) : f[s[i]] = f[x]}

\* A push keeps up with what is read.
LEMMA TrackPush ==
  ASSUME NEW X, NEW all \in Seq(X), NEW x \in X, NEW f, NEW s \in Seq(X), NEW t,
         NEW max \in Nat \ {0}, NEW e, Tracks(e, s, all, f, max),
         Pushed(s, x, t, Like(s, x, f), max)
  PROVE  t \in Seq(X) /\ \E e2 : Tracks(e2, t, Append(all, x), f, max)
<1> DEFINE N == Len(all)
           a == Append(all, x)
           L == Len(s)
           like == {i \in 1..L : f[s[i]] = f[x]}
<1>1. /\ Len(a) = N + 1 /\ a[N + 1] = x
      /\ \A n \in 1..N : a[n] = all[n]
      /\ Latest(a, f) = {n \in Latest(all, f) : f[all[n]] # f[x]} \union {N + 1}
  BY LatestOfLonger
<1>2. N \in Nat /\ L \in Nat /\ max \in Nat /\ max > 0
  BY LenProperties
<1>3. /\ L <= max /\ e \in [1..L -> 1..N]
      /\ \A i, k \in 1..L : i < k => e[i] < e[k]
      /\ \A i \in 1..L : s[i] = all[e[i]] /\ e[i] \in Latest(all, f)
      /\ \A n \in Latest(all, f) : (\E i \in 1..L : e[i] = n) \/ (L = max /\ n < e[1])
  BY DEF Tracks
<1>4. Latest(all, f) \subseteq 1..N
  BY DEF Latest
<1>5. \A i \in 1..L : e[i] \in 1..N /\ e[i] \in Nat /\ e[i] < N + 1
  BY <1>2, <1>3
<1>6. Pushed(s, x, t, like, max)
  BY DEF Like
<1>7. CASE like = {} /\ L < max /\ t = Append(s, x)
  <2> DEFINE e2 == [k \in 1..L + 1 |-> IF k = L + 1 THEN N + 1 ELSE e[k]]
  <2>1. /\ t \in Seq(X) /\ Len(t) = L + 1 /\ t[L + 1] = x
        /\ \A k \in 1..L : t[k] = s[k]
    BY <1>7, AppendProperties
  <2> HIDE DEF N, a, L, like
  <2>2. \A k : k \in 1..L + 1 <=> k \in 1..L \/ k = L + 1
    BY <1>2
  <2>3. /\ e2 \in [1..L + 1 -> 1..N + 1] /\ e2[L + 1] = N + 1
        /\ \A k \in 1..L : e2[k] = e[k] /\ k # L + 1 /\ k < L + 1
    BY <1>2, <1>5, <2>2
  <2> HIDE DEF e2
  <2>4. ASSUME NEW i \in 1..L + 1, NEW k \in 1..L + 1, i < k PROVE e2[i] < e2[k]
    <3>1. i \in 1..L
      BY <1>2, <2>4
    <3>2. CASE k \in 1..L
      <4>1. e[i] < e[k]
        BY <1>3, <2>4, <3>1, <3>2
      <4> QED BY <2>3, <3>1, <3>2, <4>1
    <3>3. CASE k = L + 1
      BY <1>5, <2>3, <3>1, <3>3
    <3> QED BY <2>2, <3>2, <3>3
  <2>5. ASSUME NEW i \in 1..L + 1 PROVE t[i] = a[e2[i]] /\ e2[i] \in Latest(a, f)
    <3>1. CASE i \in 1..L
      <4>1. t[i] = a[e2[i]]
        BY <1>1, <1>3, <1>5, <2>1, <2>3, <3>1
      <4>2. f[all[e[i]]] # f[x]
        BY <1>3, <1>7, <3>1 DEF like
      <4> QED BY <1>1, <1>3, <2>3, <3>1, <4>1, <4>2
    <3>2. CASE i = L + 1
      BY <1>1, <2>1, <2>3, <3>2
    <3> QED BY <2>2, <3>1, <3>2
  <2>6. ASSUME NEW n \in Latest(a, f) PROVE \E i \in 1..L + 1 : e2[i] = n
    <3>1. CASE n = N + 1
      BY <2>2, <2>3, <3>1
    <3>2. CASE n \in Latest(all, f)
      <4>1. PICK i \in 1..L : e[i] = n
        BY <1>2, <1>3, <1>7, <3>2
      <4> QED BY <2>2, <2>3, <4>1
    <3> QED BY <1>1, <3>1, <3>2
  <2>7. L + 1 <= max
    BY <1>2, <1>7
  <2>8. Tracks(e2, t, a, f, max)
    BY <1>1, <2>1, <2>3, <2>4, <2>5, <2>6, <2>7 DEF Tracks
  <2> QED BY <2>1, <2>8 DEF a
<1>8. ASSUME NEW d \in 1..L, like = {d} \/ (like = {} /\ L = max /\ d = 1), t = Shifted(s, x, d)
      PROVE  t \in Seq(X) /\ \E e2 : Tracks(e2, t, a, f, max)
  <2> DEFINE e2 == [k \in 1..L |-> IF k < d THEN e[k] ELSE IF k < L THEN e[k + 1] ELSE N + 1]
  <2>1. t \in Seq(X) /\ Len(t) = L
    BY <1>8, ShiftedType
  <2>2. \A k \in 1..L : t[k] = IF k < d THEN s[k] ELSE IF k < L THEN s[k + 1] ELSE x
    BY <1>8 DEF Shifted
  <2> HIDE DEF N, a, L, like
  <2>3. \A k \in 1..L : e2[k] = IF k < d THEN e[k] ELSE IF k < L THEN e[k + 1] ELSE N + 1
    OBVIOUS
  <2>4. \A k \in 1..L : k < L => k + 1 \in 1..L
    BY <1>2
  <2>5. e2 \in [1..L -> 1..N + 1]
    <3>1. \A k \in 1..L : e2[k] \in 1..N + 1
      BY <1>2, <1>5, <2>3, <2>4
    <3> QED BY <3>1
  <2> HIDE DEF e2
  <2>6. ASSUME NEW i \in 1..L, NEW k \in 1..L, i < k PROVE e2[i] < e2[k]
    <3>1. i < L /\ i + 1 \in 1..L
      BY <1>2, <2>6
    <3>2. k < L => k + 1 \in 1..L
      BY <2>4
    <3>3. CASE k < d
      <4>1. i < d
        BY <1>2, <2>6, <3>3
      <4> QED BY <1>3, <2>3, <2>6, <3>3, <4>1
    <3>4. CASE ~(k < d) /\ k < L
      <4>1. e2[k] = e[k + 1]
        BY <2>3, <3>4
      <4>2. CASE i < d
        <5>1. e2[i] = e[i] /\ i < k + 1
          BY <1>2, <2>3, <2>6, <4>2
        <5> QED BY <1>3, <3>2, <3>4, <4>1, <5>1
      <4>3. CASE ~(i < d)
        <5>1. e2[i] = e[i + 1] /\ i + 1 < k + 1
          BY <1>2, <2>3, <2>6, <3>1, <4>3
        <5> QED BY <1>3, <3>1, <3>2, <3>4, <4>1, <5>1
      <4> QED BY <4>2, <4>3
    <3>5. CASE ~(k < d) /\ ~(k < L)
      <4>1. e2[k] = N + 1
        BY <2>3, <3>5
      <4>2. e2[i] = e[i] \/ e2[i] = e[i + 1]
        BY <2>3, <3>1
      <4> QED BY <1>5, <3>1, <4>1, <4>2
    <3> QED BY <3>3, <3>4, <3>5
  <2>7. \A i \in 1..L : i # d => f[s[i]] # f[x]
    BY <1>8 DEF like
  <2>8. ASSUME NEW i \in 1..L PROVE t[i] = a[e2[i]] /\ e2[i] \in Latest(a, f)
    <3>1. ASSUME NEW k \in 1..L, k # d, t[i] = s[k], e2[i] = e[k]
          PROVE  t[i] = a[e2[i]] /\ e2[i] \in Latest(a, f)
      <4>1. s[k] = all[e[k]] /\ e[k] \in Latest(all, f) /\ a[e[k]] = all[e[k]]
        BY <1>1, <1>3, <1>5
      <4> QED BY <1>1, <2>7, <3>1, <4>1
    <3>2. CASE i < d
      <4>1. i # d /\ t[i] = s[i] /\ e2[i] = e[i]
        BY <1>2, <2>2, <2>3, <3>2
      <4> QED BY <3>1, <4>1
    <3>3. CASE ~(i < d) /\ i < L
      <4>1. i + 1 \in 1..L /\ i + 1 # d /\ t[i] = s[i + 1] /\ e2[i] = e[i + 1]
        BY <1>2, <2>2, <2>3, <3>3
      <4> QED BY <3>1, <4>1
    <3>4. CASE ~(i < d) /\ ~(i < L)
      <4>1. t[i] = x /\ e2[i] = N + 1
        BY <2>2, <2>3, <3>4
      <4> QED BY <1>1, <4>1
    <3> QED BY <3>2, <3>3, <3>4
  <2>9. ASSUME NEW n \in Latest(a, f)
        PROVE  (\E i \in 1..L : e2[i] = n) \/ (L = max /\ n < e2[1])
    <3>1. CASE n = N + 1
      <4>1. L \in 1..L /\ ~(L < d) /\ ~(L < L)
        BY <1>2
      <4>2. e2[L] = N + 1
        BY <2>3, <4>1
      <4> QED BY <3>1, <4>1, <4>2
    <3>2. ASSUME n \in Latest(all, f), NEW i \in 1..L, e[i] = n, i # d
          PROVE  \E k \in 1..L : e2[k] = n
      <4>1. CASE i < d
        BY <2>3, <3>2, <4>1
      <4>2. CASE ~(i < d)
        <5>1. i - 1 \in 1..L /\ ~(i - 1 < d) /\ i - 1 < L /\ i - 1 + 1 = i
          BY <1>2, <3>2, <4>2
        <5> QED BY <2>3, <3>2, <5>1
      <4> QED BY <4>1, <4>2
    <3>3. 1 \in 1..L /\ e2[1] \in 1..N + 1 /\ (e2[1] = e[1] \/ e[1] < e2[1])
      <4>1. 1 \in 1..L
        BY <1>2
      <4>2. CASE 1 < d
        BY <2>3, <2>5, <4>1, <4>2
      <4>3. CASE ~(1 < d) /\ 1 < L
        <5>1. e2[1] = e[1 + 1] /\ 1 + 1 \in 1..L /\ 1 < 1 + 1
          BY <1>2, <2>3, <4>1, <4>3
        <5> QED BY <1>3, <2>5, <4>1, <5>1
      <4>4. CASE ~(1 < d) /\ ~(1 < L)
        <5>1. e2[1] = N + 1
          BY <2>3, <4>1, <4>4
        <5> QED BY <1>5, <2>5, <4>1, <5>1
      <4> QED BY <4>2, <4>3, <4>4
    <3>4. ASSUME n \in Latest(all, f), f[all[n]] # f[x]
          PROVE  (\E i \in 1..L : e2[i] = n) \/ (L = max /\ n < e2[1])
      <4>1. CASE L = max /\ n < e[1]
        <5>1. n \in Nat /\ e[1] \in Nat /\ e2[1] \in Nat
          BY <1>4, <1>5, <3>3, <3>4
        <5> QED BY <3>3, <4>1, <5>1
      <4>2. ASSUME NEW i \in 1..L, e[i] = n
            PROVE  (\E k \in 1..L : e2[k] = n) \/ (L = max /\ n < e2[1])
        <5>1. CASE i # d
          BY <3>2, <3>4, <4>2, <5>1
        <5>2. CASE i = d /\ like = {d}
          <6>1. f[s[i]] = f[x] /\ s[i] = all[n]
            BY <1>3, <4>2, <5>2 DEF like
          <6> QED BY <3>4, <6>1
        <5>3. CASE i = d /\ L = max /\ d = 1
          <6>1. e2[1] # e[1]
            <7>1. ~(1 < d)
              BY <5>3
            <7>2. CASE 1 < L
              <8>1. e2[1] = e[1 + 1] /\ 1 + 1 \in 1..L /\ 1 < 1 + 1
                BY <1>2, <2>3, <3>3, <7>1, <7>2
              <8> QED BY <1>3, <1>5, <3>3, <8>1
            <7>3. CASE ~(1 < L)
              <8>1. e2[1] = N + 1
                BY <2>3, <3>3, <7>1, <7>3
              <8> QED BY <1>5, <3>3, <8>1, <1>2
            <7> QED BY <7>2, <7>3
          <6> QED BY <3>3, <4>2, <5>3, <6>1
        <5> QED BY <1>8, <5>1, <5>2, <5>3
      <4> QED BY <1>3, <3>4, <4>1, <4>2
    <3> QED BY <1>1, <3>1, <3>4
  <2>10. Tracks(e2, t, a, f, max)
    <3>1. L <= max
      BY <1>3
    <3> QED BY <1>1, <2>1, <2>5, <2>6, <2>8, <2>9, <3>1 DEF Tracks
  <2> QED BY <2>1, <2>10
<1> HIDE DEF like, a
<1>9. \/ like = {} /\ L < max /\ t = Append(s, x)
      \/ \E d \in 1..L : /\ like = {d} \/ (like = {} /\ L = max /\ d = 1)
                         /\ t = Shifted(s, x, d)
  BY <1>6 DEF Pushed
<1> QED BY <1>7, <1>8, <1>9 DEF a

\* The greatest of a set of numbers, and the less of two.
LEMMA Greatest ==
  ASSUME NEW n \in Nat, NEW S, S \subseteq 0..n, S # {}
  PROVE  Max(S) \in S /\ \A i \in S : i <= Max(S)
<1> DEFINE bounds == {m \in 0..n : \A i \in S : i <= m}
<1>1. n \in bounds /\ bounds \subseteq Nat
  OBVIOUS
<1> HIDE DEF bounds
<1>2. PICK m \in bounds : \A k \in bounds : m <= k
  BY <1>1, LeastNumber
<1>3. m \in 0..n /\ \A i \in S : i <= m
  BY <1>2 DEF bounds
<1>4. m \in S
  <2>1. SUFFICES ASSUME m \notin S PROVE FALSE
    OBVIOUS
  <2>2. \A i \in S : i \in Nat /\ i <= m /\ i # m
    BY <1>3, <2>1
  <2>3. PICK i \in S : TRUE
    OBVIOUS
  <2>4. m - 1 \in 0..n /\ \A k \in S : k <= m - 1
    BY <1>3, <2>2, <2>3
  <2>5. m - 1 \in bounds
    BY <2>4 DEF bounds
  <2> QED BY <1>2, <1>3, <2>5
<1>5. \E k \in S : \A i \in S : k >= i
  BY <1>3, <1>4
<1>6. Max(S) \in S /\ \A i \in S : Max(S) >= i
  BY <1>5 DEF Max
<1> QED BY <1>6

\* The member that none exceeds is the maximum.
LEMMA GreatestIs ==
  ASSUME NEW n \in Nat, NEW S, S \subseteq 0..n, NEW m \in S, \A i \in S : i <= m
  PROVE  Max(S) = m
<1>1. S # {}
  OBVIOUS
<1>2. Max(S) \in S /\ \A i \in S : i <= Max(S)
  BY <1>1, Greatest
<1>3. \A x, y \in S : x <= y /\ y <= x => x = y
  OBVIOUS
<1> QED BY <1>2, <1>3

\* The minimum of two numbers.
LEMMA LessOfTwo ==
  ASSUME NEW a \in Nat, NEW b \in Nat
  PROVE  Min({a, b}) = IF a < b THEN a ELSE b
<1>1. \E x \in {a, b} : \A y \in {a, b} : x =< y
  OBVIOUS
<1>2. Min({a, b}) \in {a, b} /\ \A y \in {a, b} : Min({a, b}) =< y
  BY <1>1 DEF Min
<1> QED BY <1>2

\* As many places as numbers.
Places(e, a, b) == {e[k] : k \in a..b}
Increasing(e, L) == \A i, k \in 1..L : i < k => e[i] < e[k]

\* Numbers in increasing order are as many as their places.
LEMMA CountOfRange ==
  ASSUME NEW L \in Nat, NEW e, \A k \in 1..L : e[k] \in Nat, Increasing(e, L),
         NEW a \in 1..L + 1, NEW b \in 0..L, a <= b + 1
  PROVE  Cardinality(Places(e, a, b)) = b - a + 1
<1> DEFINE T == {e[k] : k \in a..b}
           g == [k \in a..b |-> e[k]]
<1>1. a \in Int /\ b \in Int /\ \A k \in a..b : k \in 1..L
  OBVIOUS
<1>2. g \in Bijection(a..b, T)
  <2>1. g \in [a..b -> T]
    OBVIOUS
  <2>2. ASSUME NEW i \in a..b, NEW k \in a..b, g[i] = g[k] PROVE i = k
    <3>1. i \in 1..L /\ k \in 1..L /\ e[i] = e[k] /\ e[i] \in Nat
      BY <1>1, <2>2
    <3>2. ~(i < k) /\ ~(k < i)
      BY <3>1 DEF Increasing
    <3> QED BY <3>1, <3>2
  <2>3. \A t \in T : \E k \in a..b : g[k] = t
    OBVIOUS
  <2> HIDE DEF g, T
  <2> QED BY <2>1, <2>2, <2>3 DEF Bijection, Injection, Surjection, IsInjective
<1>3. IsFiniteSet(a..b) /\ Cardinality(a..b) = b - a + 1
  <2>1. Cardinality(a..b) = IF a > b THEN 0 ELSE b - a + 1
    BY <1>1, FS_Interval
  <2>2. a > b => b - a + 1 = 0
    BY <1>1
  <2> QED BY <1>1, <2>1, <2>2, FS_Interval
<1>4. ExistsBijection(a..b, T)
  BY <1>2 DEF ExistsBijection
<1> HIDE DEF T
<1>5. Cardinality(T) = b - a + 1
  BY <1>3, <1>4, FS_Bijection
<1> QED BY <1>5 DEF T, Places

\* The places of the latest entries that are kept.
Kept(all, f, max) ==
  {n \in Latest(all, f) : Cardinality({m \in Latest(all, f) : m > n}) < max}

\* s lists the entries of `all' at these places, in their order.
Lists(s, all, places) ==
  /\ Len(s) = Cardinality(places)
  /\ \A n \in places : s[Cardinality({m \in places : m <= n})] = all[n]

\* What tracks the latest entries is the list that holds them.
LEMMA TrackedIsLatest ==
  ASSUME NEW X, NEW all \in Seq(X), NEW f, NEW s \in Seq(X), NEW max \in Nat \ {0},
         NEW e, Tracks(e, s, all, f, max)
  PROVE  Lists(s, all, Kept(all, f, max))
<1> DEFINE L == Len(s)
           N == Len(all)
           R == {e[k] : k \in 1..L}
           newer(n) == {m \in Latest(all, f) : m > n}
<1>1. L \in Nat /\ N \in Nat /\ max \in Nat
  BY LenProperties
<1>2. /\ L <= max /\ e \in [1..L -> 1..N]
      /\ \A i, k \in 1..L : i < k => e[i] < e[k]
      /\ \A i \in 1..L : s[i] = all[e[i]] /\ e[i] \in Latest(all, f)
      /\ \A n \in Latest(all, f) : (\E i \in 1..L : e[i] = n) \/ (L = max /\ n < e[1])
  BY DEF Tracks
<1>3. Latest(all, f) \subseteq 1..N
  BY DEF Latest
<1>4. IsFiniteSet(1..N)
  BY <1>1, FS_Interval
<1> HIDE DEF L, N
<1>5. ASSUME NEW i \in 1..L PROVE e[i] \in 1..N /\ e[i] \in Nat
  <2>1. e \in [1..L -> 1..N]
    BY <1>2
  <2>2. e[i] \in 1..N
    BY <2>1
  <2> QED BY <1>1, <2>2
<1>0. ASSUME NEW a \in 1..L + 1, NEW b \in 0..L, a <= b + 1
      PROVE  Cardinality(Places(e, a, b)) = b - a + 1
  <2>1. Increasing(e, L)
    BY <1>2 DEF Increasing
  <2> QED BY <1>0, <1>1, <1>5, <2>1, CountOfRange
<1>6. \A i, k \in 1..L : e[i] < e[k] <=> i < k
  <2> TAKE i, k \in 1..L
  <2>1. i = k \/ i < k \/ k < i
    BY <1>1
  <2> QED BY <1>2, <1>5, <2>1
<1>7. ASSUME NEW i \in 1..L PROVE Cardinality(newer(e[i])) < max
  <2>1. newer(e[i]) = {e[k] : k \in i + 1..L}
    <3>1. ASSUME NEW m \in Latest(all, f), m > e[i] PROVE \E k \in i + 1..L : e[k] = m
      <4>1. m \in Nat /\ (i = 1 \/ 1 < i) /\ 1 \in 1..L
        BY <1>1, <1>3
      <4>2. ~(m < e[1])
        BY <1>2, <1>5, <3>1, <4>1
      <4>3. PICK k \in 1..L : e[k] = m
        BY <1>2, <3>1, <4>2
      <4>4. i < k
        BY <1>5, <1>6, <3>1, <4>3
      <4>5. k \in i + 1..L
        BY <1>1, <4>4
      <4> QED BY <4>3, <4>5
    <3>2. ASSUME NEW k \in i + 1..L PROVE e[k] \in Latest(all, f) /\ e[k] > e[i]
      <4>1. k \in 1..L /\ i < k
        BY <1>1
      <4> QED BY <1>2, <1>5, <4>1
    <3> QED BY <3>1, <3>2
  <2>2. i + 1 \in 1..L + 1 /\ L \in 0..L /\ i + 1 <= L + 1
    BY <1>1
  <2>3. Cardinality(Places(e, i + 1, L)) = L - (i + 1) + 1
    BY <1>0, <2>2
  <2>4. L - (i + 1) + 1 < max
    BY <1>1, <1>2
  <2> QED BY <2>1, <2>3, <2>4 DEF Places
<1>8. Cardinality(R) = L
  <2>1. 1 \in 1..L + 1 /\ L \in 0..L /\ 1 <= L + 1 /\ L - 1 + 1 = L
    BY <1>1
  <2>2. Cardinality(Places(e, 1, L)) = L
    BY <1>0, <2>1
  <2> QED BY <2>2 DEF Places
<1>9. ASSUME NEW n \in Latest(all, f), n \notin R PROVE ~(Cardinality(newer(n)) < max)
  <2>1. L = max /\ n < e[1] /\ n \in Nat
    <3>1. n \in 1..N
      BY <1>3
    <3>2. ~\E i \in 1..L : e[i] = n
      BY <1>9
    <3>3. L = max /\ n < e[1]
      BY <1>2, <3>2
    <3> QED BY <1>1, <3>1, <3>3
  <2>2. R \subseteq newer(n)
    <3>1. ASSUME NEW i \in 1..L PROVE e[i] \in Latest(all, f) /\ e[i] > n
      <4>1. 1 \in 1..L /\ (i = 1 \/ 1 < i)
        BY <1>1
      <4> QED BY <1>2, <1>5, <2>1, <4>1
    <3> QED BY <3>1
  <2>3. IsFiniteSet(newer(n))
    <3>1. newer(n) \in SUBSET (1..N)
      BY <1>3
    <3> QED BY <1>4, <3>1, FS_Subset
  <2> HIDE DEF R, newer
  <2>4. Cardinality(R) <= Cardinality(newer(n)) /\ Cardinality(newer(n)) \in Nat
    BY <2>2, <2>3, FS_Subset, FS_CardinalityType
  <2> QED BY <1>1, <1>8, <2>1, <2>4
<1>10. Kept(all, f, max) = R
  <2>1. \A n \in Latest(all, f) : n \in Kept(all, f, max) <=> Cardinality(newer(n)) < max
    BY DEF Kept
  <2>2. Kept(all, f, max) \subseteq Latest(all, f) /\ R \subseteq Latest(all, f)
    BY <1>2 DEF Kept
  <2>3. ASSUME NEW n \in Latest(all, f) PROVE n \in Kept(all, f, max) <=> n \in R
    <3>1. CASE n \in R
      <4>1. PICK i \in 1..L : n = e[i]
        BY <3>1
      <4> QED BY <1>7, <2>1, <3>1, <4>1
    <3>2. CASE n \notin R
      BY <1>9, <2>1, <3>2
    <3> QED BY <3>1, <3>2
  <2> HIDE DEF R
  <2> QED BY <2>2, <2>3
<1>11. ASSUME NEW i \in 1..L PROVE s[Cardinality({m \in R : m <= e[i]})] = all[e[i]]
  <2>1. {m \in R : m <= e[i]} = {e[k] : k \in 1..i}
    <3>1. ASSUME NEW k \in 1..L PROVE e[k] <= e[i] <=> k \in 1..i
      <4>1. e[k] <= e[i] <=> ~(e[i] < e[k])
        BY <1>5
      <4>2. ~(i < k) <=> k \in 1..i
        BY <1>1
      <4> QED BY <1>6, <4>1, <4>2
    <3>2. \A k \in 1..i : k \in 1..L
      BY <1>1
    <3> QED BY <3>1, <3>2
  <2>2. 1 \in 1..L + 1 /\ i \in 0..L /\ 1 <= i + 1 /\ i - 1 + 1 = i
    BY <1>1
  <2>3. Cardinality(Places(e, 1, i)) = i
    BY <1>0, <2>2
  <2> QED BY <1>2, <2>1, <2>3 DEF Places
<1>12. \A n \in R : s[Cardinality({m \in R : m <= n})] = all[n]
  BY <1>11
<1> HIDE DEF R
<1>13. Lists(s, all, R)
  BY <1>8, <1>12 DEF L, Lists
<1> QED BY <1>10, <1>13

-----------------------------------------------------------------------------
(* The files of one item *)

\* No entry occurs twice.
Distinct(s) == \A i, k \in 1..Len(s) : s[i] = s[k] => i = k

\* A list of files as it is kept.
FileList == {s \in Seq(Path) : Len(s) <= MAX_CHANGED_FILES /\ Distinct(s)}

\* The places of a file.
LikeFile(s, x) == {i \in 1..Len(s) : s[i] = x}

\* The limits are numbers, and none is zero.
LEMMA CapsuleLimits ==
  /\ MAX_CHANGED_FILES \in Nat \ {0} /\ MAX_VERIFICATION_ITEMS \in Nat \ {0}
  /\ MAX_OBJECTIVE_SCALARS \in Nat \ {0} /\ MaxText \in Nat
BY CapsuleAssumption

\* A push keeps the list one.
LEMMA PushFileKeeps ==
  ASSUME NEW s \in FileList, NEW x \in Path
  PROVE  /\ PushFile(s, x) \in FileList
         /\ Pushed(s, x, PushFile(s, x), LikeFile(s, x), MAX_CHANGED_FILES)
<1> DEFINE t == PushFile(s, x)
           like == {i \in 1..Len(s) : s[i] \notin Path \ {x}}
           max == MAX_CHANGED_FILES
<1>1. s \in Seq(Path) /\ Len(s) <= max /\ Distinct(s) /\ max \in Nat \ {0} /\ Len(s) \in Nat
  BY CapsuleLimits, LenProperties DEF FileList
<1>2. \A i \in 1..Len(s) : s[i] \in Path
  BY <1>1
<1>3. \A i, k \in 1..Len(s) :
        s[i] \notin Path \ {x} /\ s[k] \notin Path \ {x} => i = k
  BY <1>1, <1>2 DEF Distinct
<1> HIDE DEF max
<1>4. Pushed(s, x, LastOf(Append(Within(s, Path \ {x}), x), max), like, max)
  BY <1>1, <1>3, PushShape
<1>5. like = LikeFile(s, x)
  BY <1>2 DEF LikeFile
<1>6. Pushed(s, x, t, LikeFile(s, x), max)
  BY <1>4, <1>5 DEF PushFile, max
<1>7. ASSUME LikeFile(s, x) = {}, Len(s) < max, t = Append(s, x)
      PROVE  t \in FileList
  <2>1. /\ t \in Seq(Path) /\ Len(t) = Len(s) + 1 /\ t[Len(s) + 1] = x
        /\ \A k \in 1..Len(s) : t[k] = s[k]
    BY <1>1, <1>7, AppendProperties
  <2> HIDE DEF t
  <2>2. \A k \in 1..Len(t) : k \in 1..Len(s) \/ k = Len(s) + 1
    BY <1>1, <2>1
  <2>3. \A k \in 1..Len(s) : s[k] # x
    BY <1>7 DEF LikeFile
  <2>4. Distinct(t)
    BY <1>1, <2>1, <2>2, <2>3 DEF Distinct
  <2>5. Len(t) <= max
    BY <1>1, <1>7, <2>1
  <2> QED BY <2>1, <2>4, <2>5 DEF FileList, max
<1>8. ASSUME NEW d \in 1..Len(s), \A k \in 1..Len(s) : k # d => s[k] # x, t = Shifted(s, x, d)
      PROVE  t \in FileList
  <2>1. t \in Seq(Path) /\ Len(t) = Len(s)
    BY <1>1, <1>8, ShiftedType
  <2>2. \A k \in 1..Len(s) : t[k] = IF k < d THEN s[k] ELSE IF k < Len(s) THEN s[k + 1] ELSE x
    BY <1>8 DEF Shifted
  <2> HIDE DEF t
  <2> DEFINE from(k) == IF k < d THEN k ELSE k + 1
  <2>3. \A k \in 1..Len(s) : k < Len(s) => from(k) \in 1..Len(s) /\ from(k) # d /\ t[k] = s[from(k)]
    BY <1>1, <2>2
  <2>4. t[Len(s)] = x /\ Len(s) \in 1..Len(s)
    BY <1>1, <2>2
  <2>5. \A i, k \in 1..Len(s) : i < Len(s) /\ k < Len(s) /\ from(i) = from(k) => i = k
    BY <1>1
  <2> HIDE DEF from
  <2>6. ASSUME NEW i \in 1..Len(s), NEW k \in 1..Len(s), t[i] = t[k] PROVE i = k
    <3>1. CASE i < Len(s) /\ k < Len(s)
      BY <1>1, <2>3, <2>5, <2>6, <3>1 DEF Distinct
    <3>2. CASE i = Len(s) /\ k < Len(s)
      BY <1>8, <2>3, <2>4, <2>6, <3>2
    <3>3. CASE i < Len(s) /\ k = Len(s)
      BY <1>8, <2>3, <2>4, <2>6, <3>3
    <3>4. (i < Len(s) \/ i = Len(s)) /\ (k < Len(s) \/ k = Len(s))
      BY <1>1
    <3> QED BY <3>1, <3>2, <3>3, <3>4
  <2>7. Distinct(t)
    BY <2>1, <2>6 DEF Distinct
  <2> QED BY <1>1, <2>1, <2>7 DEF FileList, max
<1>9. \/ LikeFile(s, x) = {} /\ Len(s) < max /\ t = Append(s, x)
      \/ \E d \in 1..Len(s) :
           /\ LikeFile(s, x) = {d} \/ (LikeFile(s, x) = {} /\ Len(s) = max /\ d = 1)
           /\ t = Shifted(s, x, d)
  <2> HIDE DEF t
  <2> QED BY <1>6 DEF Pushed
<1>10. t \in FileList
  <2>1. ASSUME NEW d \in 1..Len(s), LikeFile(s, x) = {d} \/ LikeFile(s, x) = {}
        PROVE  \A k \in 1..Len(s) : k # d => s[k] # x
    BY <2>1 DEF LikeFile
  <2> HIDE DEF t
  <2> QED BY <1>7, <1>8, <1>9, <2>1
<1> QED BY <1>6, <1>10 DEF max

\* The fold of the pushes, one path after the other.
LEMMA PushFilesSteps ==
  ASSUME NEW files \in FileList, NEW q \in Seq(Path)
  PROVE  \E f \in [0..Len(q) -> FileList] :
           /\ f[0] = files /\ FoldLeft(PushFile, files, q) = f[Len(q)]
           /\ \A n \in 1..Len(q) : f[n] = PushFile(f[n - 1], q[n])
<1> DEFINE L == Len(q)
           Folds(h, n) == \A T \in SUBSET (1..n) :
             h[T] = IF T = {} THEN files ELSE PushFile(h[T \ {Max(T)}], q[Max(T)])
           S == {n \in 0..L : \E h \in [SUBSET (1..n) -> FileList] : Folds(h, n)}
<1>1. L \in Nat /\ DOMAIN q = 1..L /\ \A n \in 1..L : q[n] \in Path
  BY LenProperties
<1> HIDE DEF L
<1>2. 0 \in S
  <2> DEFINE h == [T \in SUBSET (1..0) |-> files]
  <2>1. h \in [SUBSET (1..0) -> FileList]
    OBVIOUS
  <2>2. Folds(h, 0) /\ 0 \in 0..L
    BY <1>1
  <2> HIDE DEF h, Folds
  <2> QED BY <2>1, <2>2
<1>3. \A n \in Nat : \A T \in SUBSET (1..n) : T # {} => Max(T) \in T /\ \A i \in T : i <= Max(T)
  <2> TAKE n \in Nat
  <2> TAKE T \in SUBSET (1..n)
  <2>1. T \subseteq 0..n
    OBVIOUS
  <2> QED BY <2>1, Greatest
<1>4. ASSUME NEW n \in 1..L, n - 1 \in S PROVE n \in S
  <2>0. n \in 0..L /\ n \in Nat /\ n - 1 \in Nat
    BY <1>1
  <2>1. PICK h \in [SUBSET (1..n - 1) -> FileList] : Folds(h, n - 1)
    BY <1>4
  <2>2. \A T \in SUBSET (1..n) : /\ T \ {n} \in SUBSET (1..n - 1)
                                 /\ n \notin T => T \in SUBSET (1..n - 1)
    BY <2>0
  <2> DEFINE g == [T \in SUBSET (1..n) |-> IF n \in T THEN PushFile(h[T \ {n}], q[n]) ELSE h[T]]
  <2>3. \A T \in SUBSET (1..n) : g[T] = IF n \in T THEN PushFile(h[T \ {n}], q[n]) ELSE h[T]
    OBVIOUS
  <2>4. g \in [SUBSET (1..n) -> FileList]
    <3>1. ASSUME NEW T \in SUBSET (1..n)
          PROVE  (IF n \in T THEN PushFile(h[T \ {n}], q[n]) ELSE h[T]) \in FileList
      BY <1>1, <2>1, <2>2, PushFileKeeps
    <3> QED BY <3>1
  <2> HIDE DEF g
  <2>5. ASSUME NEW T \in SUBSET (1..n)
        PROVE  g[T] = IF T = {} THEN files ELSE PushFile(g[T \ {Max(T)}], q[Max(T)])
    <3>1. CASE n \in T
      <4>1. Max(T) = n
        <5>1. T \subseteq 0..n /\ \A i \in T : i <= n
          BY <2>0
        <5> QED BY <2>0, <3>1, <5>1, GreatestIs
      <4>2. T \ {n} \in SUBSET (1..n) /\ n \notin T \ {n}
        OBVIOUS
      <4>3. g[T \ {n}] = h[T \ {n}]
        BY <2>3, <4>2
      <4>4. g[T] = PushFile(h[T \ {n}], q[n])
        BY <2>3, <3>1
      <4> QED BY <3>1, <4>1, <4>3, <4>4
    <3>2. CASE n \notin T
      <4>1. T \in SUBSET (1..n - 1) /\ g[T] = h[T]
        BY <2>2, <2>3, <3>2
      <4>2. h[T] = IF T = {} THEN files ELSE PushFile(h[T \ {Max(T)}], q[Max(T)])
        BY <2>1, <4>1
      <4>3. T \ {Max(T)} \in SUBSET (1..n) /\ n \notin T \ {Max(T)}
        BY <3>2
      <4>4. g[T \ {Max(T)}] = h[T \ {Max(T)}]
        BY <2>3, <4>3
      <4> QED BY <4>1, <4>2, <4>4
    <3> QED BY <3>1, <3>2
  <2>6. Folds(g, n)
    BY <2>5
  <2> HIDE DEF Folds
  <2> QED BY <2>0, <2>4, <2>6
<1>5. L \in S
  <2> HIDE DEF S
  <2>1. 0..L \subseteq S
    BY <1>1, <1>2, <1>4, Climbing
  <2> QED BY <1>1, <2>1
<1>6. PICK h \in [SUBSET (1..L) -> FileList] : Folds(h, L)
  BY <1>5
<1> DEFINE Is(g) == g = [T \in SUBSET (1..L) |->
                          IF T = {} THEN files
                          ELSE PushFile(g[T \ {Max(T)}], q[Max(T)])]
           iter == CHOOSE g : Is(g)
<1>7. Is(h)
  BY <1>6
<1>8. Is(iter)
  <2> HIDE DEF Is
  <2> QED BY <1>7
<1>9. FoldLeft(PushFile, files, q) = iter[1..L]
  BY <1>1 DEF FoldLeft, MapThenFoldSet
<1>10. \A T \in SUBSET (1..L) :
         iter[T] = IF T = {} THEN files ELSE PushFile(iter[T \ {Max(T)}], q[Max(T)])
  <2> HIDE DEF iter
  <2> QED BY <1>8
<1> HIDE DEF iter, Is
<1> DEFINE f == [n \in 0..L |-> iter[1..n]]
<1>11. f[0] = files
  <2>1. 1..0 = {} /\ 0 \in 0..L
    BY <1>1
  <2> QED BY <1>10, <2>1
<1>12. ASSUME NEW n \in 1..L PROVE f[n] = PushFile(f[n - 1], q[n])
  <2>1. /\ 1..n \in SUBSET (1..L) /\ 1..n # {} /\ n \in 0..L /\ n - 1 \in 0..L /\ n \in Nat
        /\ (1..n) \ {n} = 1..n - 1
    <3>1. n \in Nat /\ n >= 1 /\ n <= L /\ n \in 0..L /\ n - 1 \in 0..L
      BY <1>1
    <3>2. \A i : i \in 1..n <=> i \in 1..n - 1 \/ i = n
      BY <3>1
    <3>3. n \notin 1..n - 1 /\ \A i \in 1..n : i \in 1..L
      BY <1>1, <3>1
    <3> QED BY <3>1, <3>2, <3>3
  <2>2. Max(1..n) = n
    <3>1. n \in 1..n /\ 1..n \subseteq 0..n /\ \A i \in 1..n : i <= n
      BY <2>1
    <3> QED BY <2>1, <3>1, GreatestIs
  <2>3. iter[1..n] = PushFile(iter[1..n - 1], q[n])
    BY <1>10, <2>1, <2>2
  <2> QED BY <2>1, <2>3
<1>13. f \in [0..L -> FileList]
  <2> DEFINE G == {n \in 0..L : f[n] \in FileList}
  <2>1. 0 \in G
    BY <1>1, <1>11
  <2> HIDE DEF f
  <2>2. ASSUME NEW n \in 1..L, n - 1 \in G PROVE n \in G
    <3>1. f[n - 1] \in FileList /\ q[n] \in Path /\ n \in 0..L
      BY <1>1, <2>2
    <3> QED BY <1>12, <3>1, PushFileKeeps
  <2> HIDE DEF G
  <2>3. 0..L \subseteq G
    BY <1>1, <2>1, <2>2, Climbing
  <2>4. \A n \in 0..L : f[n] \in FileList
    BY <2>3 DEF G
  <2> QED BY <2>4 DEF f
<1>14. FoldLeft(PushFile, files, q) = f[L]
  BY <1>1, <1>9
<1> HIDE DEF f
<1> QED BY <1>11, <1>12, <1>13, <1>14 DEF L

\* A file is its own key, a check's is its item.
FileKey == [p \in Path |-> p]
CheckKey == [c \in Check |-> c.id]

\* What is read of a sequence grows by its next entry.
LEMMA ReadOneMore ==
  ASSUME NEW X, NEW all \in Seq(X), NEW q \in Seq(X), NEW n \in 1..Len(q)
  PROVE  all \o SubSeq(q, 1, n) = Append(all \o SubSeq(q, 1, n - 1), q[n])
<1>1. /\ Len(q) \in Nat /\ n \in Nat /\ n - 1 \in Nat /\ Len(all) \in Nat
      /\ \A i \in 1..Len(q) : q[i] \in X
  BY LenProperties
<1>2. ASSUME NEW m \in 0..n
      PROVE  /\ SubSeq(q, 1, m) \in Seq(X) /\ Len(SubSeq(q, 1, m)) = m
             /\ \A i \in 1..m : SubSeq(q, 1, m)[i] = q[i]
  <2>1. m \in Int /\ 1 \in Int /\ \A i \in 1..m : q[i] \in X
    BY <1>1
  <2>2. /\ SubSeq(q, 1, m) \in Seq(X)
        /\ Len(SubSeq(q, 1, m)) = IF 1 <= m THEN m - 1 + 1 ELSE 0
        /\ \A i \in 1..m - 1 + 1 : SubSeq(q, 1, m)[i] = q[1 + i - 1]
    BY <2>1, SubSeqProperties
  <2>3. m - 1 + 1 = m /\ (~(1 <= m) => m = 0) /\ \A i \in 1..m : 1 + i - 1 = i
    BY <1>1
  <2> QED BY <2>2, <2>3
<1>3. ASSUME NEW m \in 0..n
      PROVE  /\ all \o SubSeq(q, 1, m) \in Seq(X) /\ Len(all \o SubSeq(q, 1, m)) = Len(all) + m
             /\ \A i \in 1..Len(all) + m :
                  (all \o SubSeq(q, 1, m))[i] = IF i <= Len(all) THEN all[i] ELSE q[i - Len(all)]
  <2> DEFINE r == SubSeq(q, 1, m)
  <2>1. r \in Seq(X) /\ Len(r) = m /\ \A i \in 1..m : r[i] = q[i]
    BY <1>2
  <2> HIDE DEF r
  <2>2. /\ all \o r \in Seq(X) /\ Len(all \o r) = Len(all) + m
        /\ \A i \in 1..Len(all) + m :
             (all \o r)[i] = IF i <= Len(all) THEN all[i] ELSE r[i - Len(all)]
    BY <2>1, ConcatProperties
  <2>3. \A i \in 1..Len(all) + m : ~(i <= Len(all)) => i - Len(all) \in 1..m
    BY <1>1
  <2>4. \A i \in 1..Len(all) + m :
             (all \o r)[i] = IF i <= Len(all) THEN all[i] ELSE q[i - Len(all)]
    BY <2>1, <2>2, <2>3
  <2> QED BY <2>2, <2>4 DEF r
<1> DEFINE u == all \o SubSeq(q, 1, n)
           v == all \o SubSeq(q, 1, n - 1)
           N == Len(all)
<1>4. /\ u \in Seq(X) /\ Len(u) = N + n
      /\ \A i \in 1..N + n : u[i] = IF i <= N THEN all[i] ELSE q[i - N]
  <2>1. n \in 0..n
    BY <1>1
  <2> QED BY <1>3, <2>1
<1>5. /\ v \in Seq(X) /\ Len(v) = N + (n - 1)
      /\ \A i \in 1..N + (n - 1) : v[i] = IF i <= N THEN all[i] ELSE q[i - N]
  <2>1. n - 1 \in 0..n
    BY <1>1
  <2> QED BY <1>3, <2>1
<1> HIDE DEF u, v
<1>6. /\ Append(v, q[n]) \in Seq(X) /\ Len(Append(v, q[n])) = N + (n - 1) + 1
      /\ Append(v, q[n])[N + (n - 1) + 1] = q[n]
      /\ \A i \in 1..N + (n - 1) : Append(v, q[n])[i] = v[i]
  BY <1>1, <1>5, AppendProperties
<1>7. N + (n - 1) + 1 = N + n
  BY <1>1
<1>8. ASSUME NEW i \in 1..N + n PROVE u[i] = Append(v, q[n])[i]
  <2>1. CASE i = N + n
    <3>1. ~(i <= N) /\ i - N = n
      BY <1>1, <2>1
    <3> QED BY <1>4, <1>6, <1>7, <2>1, <3>1
  <2>2. CASE i # N + n
    <3>1. i \in 1..N + (n - 1)
      BY <1>1, <2>2
    <3> QED BY <1>4, <1>5, <1>6, <3>1
  <2> QED BY <2>1, <2>2
<1>9. u = Append(v, q[n])
  BY <1>4, <1>6, <1>7, <1>8, SeqEqual
<1> QED BY <1>9 DEF u, v

\* Pushing one path after the other keeps up with what is read.
LEMMA PushesKeepUp ==
  ASSUME NEW all \in Seq(Path), NEW files \in FileList,
         \E e : Tracks(e, files, all, FileKey, MAX_CHANGED_FILES), NEW q \in Seq(Path)
  PROVE  \E e : Tracks(e, FoldLeft(PushFile, files, q), all \o q, FileKey, MAX_CHANGED_FILES)
<1> DEFINE L == Len(q)
           read(n) == all \o SubSeq(q, 1, n)
<1>1. PICK f \in [0..L -> FileList] :
        /\ f[0] = files /\ FoldLeft(PushFile, files, q) = f[L]
        /\ \A n \in 1..L : f[n] = PushFile(f[n - 1], q[n])
  BY PushFilesSteps
<1> DEFINE S == {n \in 0..L : \E e : Tracks(e, f[n], read(n), FileKey, MAX_CHANGED_FILES)}
<1>2. L \in Nat /\ \A n \in 1..L : q[n] \in Path
  BY LenProperties
<1>3. 0 \in S
  <2>1. SubSeq(q, 1, 0) = <<>>
    BY SubSeqEmpty
  <2>2. read(0) = all
    BY <2>1, ConcatEmptySeq
  <2> HIDE DEF read
  <2> QED BY <1>1, <1>2, <2>2
<1>4. ASSUME NEW n \in 1..L, n - 1 \in S PROVE n \in S
  <2>1. n \in 0..L /\ n - 1 \in 0..L /\ n - 1 \in Int /\ n \in n..L /\ 1 \in 1..L /\ n \in 1..L
    BY <1>2
  <2>2. SubSeq(q, 1, n - 1) \in Seq(Path)
    <3>1. \A i \in 1..n - 1 : q[i] \in Path
      BY <1>2
    <3> QED BY <2>1, <3>1, SubSeqProperties
  <2>3. read(n - 1) \in Seq(Path)
    BY <2>2, ConcatProperties
  <2>4. read(n) = Append(read(n - 1), q[n])
    BY ReadOneMore
  <2>5. PICK e : Tracks(e, f[n - 1], read(n - 1), FileKey, MAX_CHANGED_FILES)
    BY <1>4
  <2> DEFINE s == f[n - 1]
             x == q[n]
             t == f[n]
             sofar == read(n - 1)
  <2>6. s \in FileList /\ s \in Seq(Path) /\ x \in Path /\ t = PushFile(s, x)
    BY <1>1, <1>2, <2>1 DEF FileList
  <2>7. Pushed(s, x, t, LikeFile(s, x), MAX_CHANGED_FILES)
    <3> HIDE DEF s, x, t
    <3> QED BY <2>6, PushFileKeeps
  <2>8. LikeFile(s, x) = Like(s, x, FileKey)
    <3> HIDE DEF s, x, t
    <3>1. \A i \in 1..Len(s) : s[i] \in Path
      BY <2>6
    <3> QED BY <2>6, <3>1 DEF LikeFile, Like, FileKey
  <2>9. \E e2 : Tracks(e2, t, Append(sofar, x), FileKey, MAX_CHANGED_FILES)
    <3>1. Tracks(e, s, sofar, FileKey, MAX_CHANGED_FILES) /\ sofar \in Seq(Path)
      BY <2>3, <2>5
    <3> HIDE DEF s, x, t, sofar
    <3>2. Pushed(s, x, t, Like(s, x, FileKey), MAX_CHANGED_FILES)
      BY <2>7, <2>8
    <3>3. s \in Seq(Path) /\ x \in Path /\ MAX_CHANGED_FILES \in Nat \ {0}
      BY <2>6, CapsuleLimits
    <3> QED BY <3>1, <3>2, <3>3, TrackPush
  <2> HIDE DEF read
  <2> QED BY <2>1, <2>4, <2>9
<1>5. L \in S
  <2> HIDE DEF S, L
  <2>1. 0..L \subseteq S
    BY <1>2, <1>3, <1>4, Climbing
  <2> QED BY <1>2, <2>1
<1>6. read(L) = all \o q
  BY SubSeqFull
<1> HIDE DEF read
<1> QED BY <1>1, <1>5, <1>6

\* As many different files as are kept leave nothing of what was before them.
LEMMA FullListIsNew ==
  ASSUME NEW files \in FileList, NEW q \in Seq(Path), Distinct(q), Len(q) = MAX_CHANGED_FILES
  PROVE  FoldLeft(PushFile, files, q) = q
<1> DEFINE L == Len(q)
<1>1. PICK f \in [0..L -> FileList] :
        /\ f[0] = files /\ FoldLeft(PushFile, files, q) = f[L]
        /\ \A n \in 1..L : f[n] = PushFile(f[n - 1], q[n])
  BY PushFilesSteps
<1>2. L \in Nat /\ L = MAX_CHANGED_FILES /\ \A n \in 1..L : q[n] \in Path
  BY LenProperties
<1> DEFINE Ends(s, n) == n <= Len(s) /\ \A k \in 1..n : s[Len(s) - n + k] = q[k]
           S == {n \in 0..L : Ends(f[n], n)}
<1>3. \A n \in 0..L : f[n] \in FileList /\ f[n] \in Seq(Path) /\ Len(f[n]) \in Nat /\ Len(f[n]) <= L
  BY <1>1, <1>2, LenProperties DEF FileList
<1> HIDE DEF L
<1>4. 0 \in S
  <2>1. 0 \in 0..L
    BY <1>2
  <2> QED BY <1>3, <2>1
<1>5. ASSUME NEW n \in 1..L, n - 1 \in S PROVE n \in S
  <2> DEFINE s == f[n - 1]
             x == q[n]
             t == f[n]
             N == Len(s)
  <2>1. n \in 0..L /\ n - 1 \in 0..L
    BY <1>2
  <2>2. s \in FileList /\ s \in Seq(Path) /\ N \in Nat /\ N <= L /\ x \in Path /\ t = PushFile(s, x)
    BY <1>1, <1>2, <1>3, <2>1
  <2>3. n - 1 <= N /\ \A k \in 1..n - 1 : s[N - (n - 1) + k] = q[k]
    BY <1>5
  <2> HIDE DEF s, x, t, S
  <2>4. Pushed(s, x, t, LikeFile(s, x), L)
    BY <1>2, <2>2, PushFileKeeps
  <2>5. ASSUME Len(t) \in Nat, n <= Len(t), t[Len(t)] = x,
               \A k \in 1..n - 1 : t[Len(t) - n + k] = q[k]
        PROVE  Ends(t, n)
    <3>1. ASSUME NEW k \in 1..n PROVE t[Len(t) - n + k] = q[k]
      <4>1. CASE k = n
        <5>1. Len(t) - n + k = Len(t)
          BY <2>5, <4>1
        <5> QED BY <2>5, <4>1, <5>1 DEF x
      <4>2. CASE k # n
        BY <2>5, <4>2
      <4> QED BY <4>1, <4>2
    <3> QED BY <2>5, <3>1
  <2>6. CASE LikeFile(s, x) = {} /\ N < L /\ t = Append(s, x)
    <3>1. /\ Len(t) = N + 1 /\ t[N + 1] = x
          /\ \A k \in 1..N : t[k] = s[k]
      BY <2>2, <2>6, AppendProperties
    <3>2. \A k \in 1..n - 1 : N + 1 - n + k = N - (n - 1) + k /\ N + 1 - n + k \in 1..N
      BY <2>2, <2>3
    <3>3. n <= N + 1 /\ N + 1 \in Nat
      BY <2>2, <2>3
    <3> HIDE DEF N, Ends
    <3>5. ASSUME NEW k \in 1..n - 1 PROVE t[Len(t) - n + k] = q[k]
      <4>1. t[N + 1 - n + k] = s[N - (n - 1) + k]
        BY <3>1, <3>2
      <4>2. Len(t) - n + k = N + 1 - n + k
        BY <2>2, <3>1
      <4>3. s[N - (n - 1) + k] = q[k]
        BY <2>3
      <4> QED BY <4>1, <4>2, <4>3
    <3>4. Ends(t, n)
      BY <2>5, <3>1, <3>3, <3>5
    <3> QED BY <2>1, <3>4 DEF S, t
  <2>7. ASSUME NEW d \in 1..N, LikeFile(s, x) = {d} \/ (LikeFile(s, x) = {} /\ N = L /\ d = 1),
               t = Shifted(s, x, d)
        PROVE  n \in S
    <3>1. Len(t) = N
      BY <2>2, <2>7, ShiftedType
    <3>2. \A k \in 1..N : t[k] = IF k < d THEN s[k] ELSE IF k < N THEN s[k + 1] ELSE x
      BY <2>7 DEF Shifted
    <3>3. t[N] = x /\ N \in 1..N
      BY <2>2, <3>2
    <3>4. d <= N - (n - 1)
      <4>1. CASE LikeFile(s, x) = {d}
        <5>1. SUFFICES ASSUME ~(d <= N - (n - 1)) PROVE FALSE
          OBVIOUS
        <5>2. d - (N - (n - 1)) \in 1..n - 1 /\ N - (n - 1) + (d - (N - (n - 1))) = d
          BY <2>2, <2>3, <5>1
        <5>3. s[d] = q[d - (N - (n - 1))]
          BY <2>3, <5>2
        <5>4. s[d] = q[n]
          BY <4>1 DEF LikeFile, x
        <5>5. n \in 1..L /\ d - (N - (n - 1)) \in 1..L /\ d - (N - (n - 1)) # n
          BY <1>2, <5>2
        <5> QED BY <5>3, <5>4, <5>5 DEF Distinct, L
      <4>2. CASE N = L /\ d = 1
        BY <1>2, <2>2, <4>2
      <4> QED BY <2>7, <4>1, <4>2
    <3>5. n <= N
      BY <2>2, <3>4
    <3>6. ASSUME NEW k \in 1..n - 1 PROVE t[N - n + k] = q[k]
      <4>1. /\ N - n + k \in 1..N /\ ~(N - n + k < d) /\ N - n + k < N
            /\ N - n + k + 1 = N - (n - 1) + k
        BY <2>2, <3>4, <3>5
      <4>2. t[N - n + k] = s[N - n + k + 1]
        BY <3>2, <4>1
      <4> QED BY <2>3, <4>1, <4>2
    <3> HIDE DEF N, Ends
    <3>7. Ends(t, n)
      BY <2>2, <2>5, <3>1, <3>3, <3>5, <3>6
    <3> QED BY <2>1, <3>7 DEF S, t
  <2> HIDE DEF N
  <2>8. \/ LikeFile(s, x) = {} /\ N < L /\ t = Append(s, x)
        \/ \E d \in 1..N : /\ LikeFile(s, x) = {d} \/ (LikeFile(s, x) = {} /\ N = L /\ d = 1)
                           /\ t = Shifted(s, x, d)
    BY <2>4 DEF Pushed, N
  <2> QED BY <2>6, <2>7, <2>8
<1>6. L \in S
  <2> HIDE DEF S
  <2>1. 0..L \subseteq S
    BY <1>2, <1>4, <1>5, Climbing
  <2> QED BY <1>2, <2>1
<1>7. f[L] = q
  <2>1. L \in 0..L /\ L <= Len(f[L]) /\ \A k \in 1..L : f[L][Len(f[L]) - L + k] = q[k]
    BY <1>2, <1>6
  <2>2. f[L] \in Seq(Path) /\ Len(f[L]) = L
    BY <1>2, <1>3, <2>1
  <2>3. ASSUME NEW k \in 1..L PROVE f[L][k] = q[k]
    <3>1. Len(f[L]) - L + k = k
      BY <1>2, <2>2
    <3> QED BY <2>1, <3>1
  <2> QED BY <2>2, <2>3, SeqEqual DEF L
<1> QED BY <1>1, <1>7

\* An item's files are looked at only so far as they can be kept, which loses nothing.
LEMMA PushFilesKeepsUp ==
  ASSUME NEW all \in Seq(Path), NEW files \in FileList,
         \E e : Tracks(e, files, all, FileKey, MAX_CHANGED_FILES),
         NEW paths \in Seq(Path), Distinct(paths)
  PROVE  /\ PushFiles(files, paths) \in FileList
         /\ \E e : Tracks(e, PushFiles(files, paths), all \o paths, FileKey, MAX_CHANGED_FILES)
<1> DEFINE M == MAX_CHANGED_FILES
           L == Len(paths)
           q == LastOf(paths, M)
<1>1. /\ M \in Nat /\ M > 0 /\ L \in Nat /\ Len(all) \in Nat
      /\ \A n \in 1..L : paths[n] \in Path
  BY CapsuleLimits, LenProperties
<1>2. CASE L <= M
  <2>1. q = paths
    BY <1>2 DEF LastOf
  <2>2. PushFiles(files, paths) = FoldLeft(PushFile, files, paths)
    BY <2>1 DEF PushFiles
  <2>3. PushFiles(files, paths) \in FileList
    <3>1. PICK f \in [0..L -> FileList] : FoldLeft(PushFile, files, paths) = f[L]
      BY PushFilesSteps
    <3>2. L \in 0..L
      BY <1>1
    <3> QED BY <2>2, <3>1, <3>2
  <2> QED BY <2>2, <2>3, PushesKeepUp
<1>3. CASE L > M
  <2> DEFINE r == L - M
  <2>1. /\ q \in Seq(Path) /\ Len(q) = M
        /\ \A k \in 1..M : q[k] = paths[r + k]
    BY <1>1, <1>3, LastOfEntries
  <2> HIDE DEF q
  <2>2. \A k \in 1..M : r + k \in 1..L
    BY <1>1, <1>3
  <2>3. Distinct(q)
    <3>1. ASSUME NEW i \in 1..M, NEW k \in 1..M, q[i] = q[k] PROVE i = k
      <4>1. paths[r + i] = paths[r + k] /\ r + i \in 1..L /\ r + k \in 1..L
        BY <2>1, <2>2, <3>1
      <4>2. r + i = r + k
        BY <4>1 DEF Distinct
      <4> QED BY <1>1, <4>2
    <3> QED BY <2>1, <3>1 DEF Distinct
  <2>4. PushFiles(files, paths) = q
    BY <2>1, <2>3, FullListIsNew DEF PushFiles, q
  <2>5. q \in FileList
    BY <1>1, <2>1, <2>3 DEF FileList
  <2> DEFINE both == all \o paths
             N == Len(all)
             e == [k \in 1..M |-> N + r + k]
  <2>6. /\ Len(both) = N + L
        /\ \A i \in 1..N + L : both[i] = IF i <= N THEN all[i] ELSE paths[i - N]
        /\ both \in Seq(Path)
    BY ConcatProperties
  <2> HIDE DEF both
  <2>7. ASSUME NEW i \in 1..L PROVE N + i \in 1..N + L /\ both[N + i] = paths[i]
    <3>1. N + i \in 1..N + L /\ ~(N + i <= N) /\ N + i - N = i
      BY <1>1
    <3> QED BY <2>6, <3>1
  <2>8. \A k \in 1..M : e[k] = N + (r + k) /\ e[k] = N + r + k
    BY <1>1
  <2>9. e \in [1..M -> 1..N + L]
    <3>1. \A k \in 1..M : N + r + k \in 1..N + L
      BY <1>1, <1>3
    <3> QED BY <3>1
  <2> HIDE DEF e
  <2>10. ASSUME NEW k \in 1..M PROVE q[k] = both[e[k]]
    <3>1. r + k \in 1..L /\ q[k] = paths[r + k] /\ e[k] = N + (r + k)
      BY <2>1, <2>2, <2>8
    <3> QED BY <2>7, <3>1
  <2>11. \A n \in 1..N + L : n > N + r => \E k \in 1..M : e[k] = n
    <3> TAKE n \in 1..N + L
    <3> HAVE n > N + r
    <3>1. n - (N + r) \in 1..M /\ N + r + (n - (N + r)) = n
      BY <1>1, <1>3
    <3> QED BY <2>8, <3>1
  <2>12. ASSUME NEW k \in 1..M PROVE e[k] \in Latest(both, FileKey)
    <3>1. e[k] \in 1..N + L
      BY <2>9
    <3>2. ASSUME NEW m \in 1..N + L, m > e[k] PROVE FileKey[both[m]] # FileKey[both[e[k]]]
      <4>1. e[k] = N + r + k /\ e[k] > N + r /\ m > N + r
        BY <1>1, <1>3, <2>8, <3>2
      <4>2. PICK j \in 1..M : e[j] = m
        BY <2>11, <4>1
      <4>3. j # k
        BY <3>1, <3>2, <4>2
      <4>4. both[m] = q[j] /\ both[e[k]] = q[k] /\ q[j] \in Path /\ q[k] \in Path
        BY <2>1, <2>10, <4>2
      <4> QED BY <2>1, <2>3, <4>3, <4>4 DEF FileKey, Distinct
    <3> QED BY <2>6, <3>1, <3>2 DEF Latest
  <2>13. ASSUME NEW n \in Latest(both, FileKey)
         PROVE  (\E k \in 1..M : e[k] = n) \/ n < e[1]
    <3>1. n \in 1..N + L
      BY <2>6 DEF Latest
    <3>2. e[1] = N + r + 1
      BY <1>1, <2>8
    <3>3. n > N + r \/ n < N + r + 1
      BY <1>1, <3>1
    <3> QED BY <2>11, <3>1, <3>2, <3>3
  <2>14. \A i, k \in 1..M : i < k => e[i] < e[k]
    BY <1>1, <1>3, <2>8
  <2>15. Tracks(e, q, both, FileKey, M)
    <3>1. M <= M
      BY <1>1
    <3> QED BY <2>1, <2>6, <2>9, <2>10, <2>12, <2>13, <2>14, <3>1 DEF Tracks
  <2> QED BY <2>4, <2>5, <2>15 DEF both
<1> QED BY <1>1, <1>2, <1>3

-----------------------------------------------------------------------------
(* What is read of a window *)

\* Whoever adds the parts of `seqs' up has them in one.
LEMMA FlattenIs ==
  ASSUME NEW X, NEW seqs \in Seq(Seq(X)), NEW f, f[0] = <<>>,
         \A i \in 1..Len(seqs) : f[i] = f[i - 1] \o seqs[i]
  PROVE  FlattenSeq(seqs) = f[Len(seqs)]
<1> DEFINE L == Len(seqs)
<1>1. L \in Nat /\ seqs \in [1..L -> Seq(X)]
  BY LenProperties
<1>2. CASE L = 0
  <2>1. seqs = <<>>
    BY <1>2
  <2> QED BY <1>2, <2>1 DEF FlattenSeq
<1>3. CASE L # 0
  <2> DEFINE Is(g) == g = [i \in 1..L |-> IF i = 1 THEN seqs[i] ELSE g[i - 1] \o seqs[i]]
             flatten == CHOOSE g : Is(g)
             h == [i \in 1..L |-> f[i]]
  <2> HIDE DEF L
  <2>1. f[1] = seqs[1]
    <3>1. 1 \in 1..L /\ 1 - 1 = 0
      BY <1>1, <1>3
    <3>2. seqs[1] \in Seq(X) /\ f[1] = <<>> \o seqs[1]
      BY <1>1, <3>1 DEF L
    <3> DEFINE a == seqs[1]
    <3> HIDE DEF a
    <3>3. a \in Seq(X) => <<>> \o a = a
      BY ConcatEmptySeq
    <3> QED BY <3>2, <3>3 DEF a
  <2>2. ASSUME NEW i \in 1..L PROVE h[i] = IF i = 1 THEN seqs[i] ELSE h[i - 1] \o seqs[i]
    <3>1. i # 1 => i - 1 \in 1..L
      BY <1>1
    <3> QED BY <2>1, <3>1 DEF L
  <2>3. Is(h)
    <3>1. h = [i \in 1..L |-> h[i]]
      OBVIOUS
    <3> HIDE DEF h
    <3> QED BY <2>2, <3>1
  <2>4. Is(flatten)
    <3> HIDE DEF Is
    <3> QED BY <2>3
  <2>5. FlattenSeq(seqs) = flatten[L]
    BY <1>3 DEF FlattenSeq, L
  <2> HIDE DEF flatten
  <2>6. \A i \in 1..L : flatten[i] = IF i = 1 THEN seqs[i] ELSE flatten[i - 1] \o seqs[i]
    BY <2>4
  <2> DEFINE S == {i \in 0..L : i = 0 \/ flatten[i] = f[i]}
  <2>7. 0 \in S
    BY <1>1
  <2>8. ASSUME NEW i \in 1..L, i - 1 \in S PROVE i \in S
    <3>1. i \in 0..L /\ f[i] = f[i - 1] \o seqs[i] /\ (i # 1 => i - 1 # 0)
      BY <1>1 DEF L
    <3> QED BY <2>1, <2>6, <2>8, <3>1
  <2>9. L \in S
    <3> HIDE DEF S
    <3>1. 0..L \subseteq S
      BY <1>1, <2>7, <2>8, Climbing
    <3> QED BY <1>1, <3>1
  <2> QED BY <1>3, <2>5, <2>9 DEF L
<1> QED BY <1>2, <1>3

\* f adds the parts of `more' up one by one.
AddsUp(f, n, more) == f[0] = <<>> /\ \A i \in 1..n : f[i] = f[i - 1] \o more[i]

\* Some function adds the parts of `more' up one by one.
LEMMA AddedUp ==
  ASSUME NEW X, NEW n \in Nat, NEW more \in [1..n -> Seq(X)]
  PROVE  \E f \in [0..n -> Seq(X)] : AddsUp(f, n, more)
<1> DEFINE V == Seq(X)
           b == <<>>
           step == [i \in 1..n |-> [t \in V |-> t \o more[i]]]
<1>1. step \in [1..n -> [V -> V]] /\ b \in V
  <2>1. ASSUME NEW i \in 1..n, NEW t \in V PROVE t \o more[i] \in V
    <3>1. \A w \in Seq(X) : t \o w \in Seq(X)
      BY ConcatProperties
    <3> QED BY <3>1
  <2>2. b \in V
    BY EmptySeq
  <2> QED BY <2>1, <2>2
<1>2. \E f \in [0..n -> V] : Steps(f, n, b, step)
  <2> HIDE DEF step, V, b
  <2> QED BY <1>1, StepByStep
<1>3. PICK f \in [0..n -> V] : f[0] = b /\ \A i \in 1..n : f[i] = step[i][f[i - 1]]
  BY <1>2 DEF Steps
<1>4. ASSUME NEW i \in 1..n PROVE f[i] = f[i - 1] \o more[i]
  <2>1. i - 1 \in 0..n
    OBVIOUS
  <2>2. f[i - 1] \in V
    BY <2>1
  <2> QED BY <1>3, <2>2
<1> QED BY <1>3, <1>4 DEF AddsUp

\* Parts with one more at the end add up to what they did, and that one.
LEMMA FlattenMore ==
  ASSUME NEW X, NEW seqs \in Seq(Seq(X)), NEW u \in Seq(X)
  PROVE  /\ FlattenSeq(seqs) \in Seq(X)
         /\ FlattenSeq(Append(seqs, u)) = FlattenSeq(seqs) \o u
<1> DEFINE L == Len(seqs)
           more == Append(seqs, u)
<1>1. /\ L \in Nat /\ L + 1 \in Nat /\ more \in Seq(Seq(X)) /\ Len(more) = L + 1
      /\ more[L + 1] = u /\ \A i \in 1..L : more[i] = seqs[i]
  BY LenProperties, AppendProperties
<1> HIDE DEF L, more
<1>2. \A i \in 1..L + 1 : more[i] \in Seq(X)
  BY <1>1
<1>3. more \in [1..L + 1 -> Seq(X)]
  BY <1>1, LenProperties
<1>4. PICK f \in [0..L + 1 -> Seq(X)] :
             f[0] = <<>> /\ \A i \in 1..L + 1 : f[i] = f[i - 1] \o more[i]
  <2> \E f \in [0..L + 1 -> Seq(X)] : AddsUp(f, L + 1, more)
    BY <1>1, <1>3, AddedUp
  <2> QED BY DEF AddsUp
<1>5. \A i \in 1..L + 1 : i - 1 \in 0..L + 1 /\ f[i - 1] \in Seq(X) /\ f[i] = f[i - 1] \o more[i]
  <2> TAKE i \in 1..L + 1
  <2>1. i - 1 \in 0..L + 1
    BY <1>1
  <2>2. f[i - 1] \in Seq(X)
    BY <2>1
  <2> QED BY <1>4, <2>1, <2>2
<1>6. FlattenSeq(more) = f[L + 1]
  <2>1. f[0] = <<>> /\ \A i \in 1..Len(more) : f[i] = f[i - 1] \o more[i]
    BY <1>1, <1>4, <1>5
  <2>2. FlattenSeq(more) = f[Len(more)]
    BY <1>1, <2>1, FlattenIs
  <2> QED BY <1>1, <2>2
<1>7. FlattenSeq(seqs) = f[L]
  <2>1. \A i \in 1..L : i \in 1..L + 1
    BY <1>1
  <2>2. \A i \in 1..Len(seqs) : f[i] = f[i - 1] \o seqs[i]
    BY <1>1, <1>5, <2>1 DEF L
  <2>3. FlattenSeq(seqs) = f[Len(seqs)]
    BY <1>4, <2>2, FlattenIs
  <2> QED BY <2>3 DEF L
<1>8. f[L + 1] = f[L] \o u /\ f[L] \in Seq(X)
  <2>1. PICK i \in 1..L + 1 : i = L + 1 /\ i - 1 = L
    BY <1>1
  <2>2. f[i - 1] \in Seq(X) /\ f[i] = f[i - 1] \o more[i]
    BY <1>5
  <2> QED BY <1>1, <2>1, <2>2
<1> QED BY <1>6, <1>7, <1>8 DEF more

\* What the parts of the entries of w say together.
Told(w, part) == FlattenSeq([n \in DOMAIN w |-> part[w[n]]])

\* An entry's part comes after all that was told before.
LEMMA ToldMore ==
  ASSUME NEW X, NEW Y, NEW w \in Seq(Y), NEW y \in Y, NEW part \in [Y -> Seq(X)]
  PROVE  /\ Told(w, part) \in Seq(X)
         /\ Told(Append(w, y), part) = Told(w, part) \o part[y]
<1> DEFINE L == Len(w)
           a == Append(w, y)
           parts == [n \in 1..L |-> part[w[n]]]
           more == [n \in 1..L + 1 |-> part[a[n]]]
<1>1. /\ L \in Nat /\ DOMAIN w = 1..L /\ \A n \in 1..L : w[n] \in Y
      /\ Len(a) = L + 1 /\ DOMAIN a = 1..L + 1
      /\ a[L + 1] = y /\ \A n \in 1..L : a[n] = w[n]
  BY LenProperties, AppendProperties
<1> HIDE DEF L, a
<1>2. parts \in [1..L -> Seq(X)]
  BY <1>1
<1> HIDE DEF parts
<1>3. parts \in Seq(Seq(X)) /\ Len(parts) = L
  <2> DEFINE V == Seq(X)
  <2>1. parts \in [1..L -> V]
    BY <1>2
  <2> HIDE DEF V
  <2>2. parts \in Seq(V) /\ Len(parts) = L
    BY <1>1, <2>1, FunctionIsSeq
  <2> QED BY <2>2 DEF V
<1>4. part[y] \in Seq(X)
  OBVIOUS
<1> DEFINE u == part[y]
<1> HIDE DEF u
<1>5. FlattenSeq(parts) \in Seq(X) /\ FlattenSeq(Append(parts, u)) = FlattenSeq(parts) \o u
  BY <1>3, <1>4, FlattenMore DEF u
<1>6. Append(parts, u) = more
  <2> DEFINE p == Append(parts, u)
  <2>1. /\ Len(p) = L + 1 /\ DOMAIN p = 1..L + 1 /\ p = [n \in DOMAIN p |-> p[n]]
        /\ p[L + 1] = u /\ \A n \in 1..L : p[n] = parts[n]
    BY <1>1, <1>3, <1>4 DEF u
  <2> HIDE DEF p
  <2>2. ASSUME NEW n \in 1..L + 1 PROVE p[n] = part[a[n]]
    <3>1. n \in 1..L \/ n = L + 1
      BY <1>1
    <3>2. CASE n = L + 1
      BY <1>1, <2>1, <3>2 DEF u
    <3>3. CASE n \in 1..L
      BY <1>1, <2>1, <3>3 DEF parts
    <3> QED BY <3>1, <3>2, <3>3
  <2>3. p = more
    BY <2>1, <2>2
  <2> QED BY <2>3 DEF p
<1>7. Told(w, part) = FlattenSeq(parts)
  BY <1>1 DEF Told, parts
<1>8. Told(a, part) = FlattenSeq(more)
  BY <1>1 DEF Told
<1> QED BY <1>5, <1>6, <1>7, <1>8 DEF a, u

\* An empty window tells nothing.
LEMMA NothingTold ==
  ASSUME NEW part
  PROVE  Told(<<>>, part) = <<>>
<1>1. [n \in DOMAIN <<>> |-> part[<<>>[n]]] = <<>>
  OBVIOUS
<1> QED BY <1>1 DEF Told, FlattenSeq

-----------------------------------------------------------------------------
(* The window *)

\* The items that close a window, their places, and the window of any list of items.
Closes(item) == item.type = "contextCompaction" /\ item.completed
Closed(s) == {0} \union {n \in DOMAIN s : Closes(s[n])}
WindowOf(s) == SubSeq(s, Max(Closed(s)) + 1, Len(s))

\* The window of the specification is the window of the items.
LEMMA WindowIsOfItems == Window = WindowOf(items)
BY DEF Window, WindowOf, Closed, Closes

\* The part of s after its entry n.
LEMMA Since ==
  ASSUME NEW X, NEW s \in Seq(X), NEW n \in 0..Len(s)
  PROVE  /\ SubSeq(s, n + 1, Len(s)) \in Seq(X)
         /\ Len(SubSeq(s, n + 1, Len(s))) = Len(s) - n
         /\ \A k \in 1..Len(s) - n : SubSeq(s, n + 1, Len(s))[k] = s[n + k]
<1>1. n \in Nat /\ Len(s) \in Nat /\ n <= Len(s)
  OBVIOUS
<1> DEFINE m == n + 1
<1>2. m \in Int /\ \A i \in m..Len(s) : s[i] \in X
  BY <1>1
<1>3. \A k \in 1..Len(s) - n : m + k - 1 = n + k
  BY <1>1
<1>4. (IF m <= Len(s) THEN Len(s) - m + 1 ELSE 0) = Len(s) - n
  BY <1>1
<1> HIDE DEF m
<1>5. /\ SubSeq(s, m, Len(s)) \in Seq(X)
      /\ Len(SubSeq(s, m, Len(s))) = IF m <= Len(s) THEN Len(s) - m + 1 ELSE 0
      /\ \A k \in 1..Len(s) - m + 1 : SubSeq(s, m, Len(s))[k] = s[m + k - 1]
  BY <1>1, <1>2, SubSeqProperties
<1>6. \A k \in 1..Len(s) - n : k \in 1..Len(s) - m + 1
  BY <1>1 DEF m
<1> QED BY <1>3, <1>4, <1>5, <1>6 DEF m

\* The last place where a window was closed is one of them.
LEMMA ClosedIs ==
  ASSUME NEW s \in Seq(Item)
  PROVE  /\ Closed(s) \subseteq 0..Len(s) /\ Max(Closed(s)) \in Closed(s)
         /\ \A n \in Closed(s) : n <= Max(Closed(s))
<1>1. Len(s) \in Nat /\ Closed(s) \subseteq 0..Len(s) /\ Closed(s) # {}
  BY DEF Closed
<1> DEFINE C == Closed(s)
           L == Len(s)
<1> HIDE DEF C, L
<1>2. L \in Nat /\ C \subseteq 0..L /\ C # {}
  BY <1>1 DEF C, L
<1>3. Max(C) \in C /\ \A n \in C : n <= Max(C)
  BY <1>2, Greatest
<1> QED BY <1>1, <1>3 DEF C

\* An item is the last of the window, or it closes the window and the next is empty.
LEMMA WindowMore ==
  ASSUME NEW s \in Seq(Item), NEW y \in Item
  PROVE  /\ WindowOf(s) \in Seq(Item)
         /\ WindowOf(Append(s, y)) = IF Closes(y) THEN <<>> ELSE Append(WindowOf(s), y)
<1> DEFINE L == Len(s)
           a == Append(s, y)
<1>1. /\ L \in Nat /\ a \in Seq(Item) /\ Len(a) = L + 1 /\ a[L + 1] = y
      /\ DOMAIN a = 1..L + 1 /\ DOMAIN s = 1..L /\ \A n \in 1..L : a[n] = s[n]
  BY LenProperties, AppendProperties
<1> HIDE DEF a
<1>2. /\ Closed(s) \subseteq 0..L /\ Max(Closed(s)) \in Closed(s)
      /\ \A n \in Closed(s) : n <= Max(Closed(s))
  BY ClosedIs
<1> DEFINE c == Max(Closed(s))
<1> HIDE DEF c, L
<1>3. c \in 0..L /\ c \in Nat /\ c \in Closed(s) /\ \A n \in Closed(s) : n <= c
  BY <1>1, <1>2 DEF c
<1>4. WindowOf(s) = SubSeq(s, c + 1, L)
  BY DEF WindowOf, c, L
<1>5. /\ WindowOf(s) \in Seq(Item) /\ Len(WindowOf(s)) = L - c
      /\ \A k \in 1..L - c : WindowOf(s)[k] = s[c + k]
  BY <1>3, <1>4, Since DEF L
<1>6. Closed(a) = IF Closes(y) THEN Closed(s) \union {L + 1} ELSE Closed(s)
  <2>1. ASSUME NEW n PROVE n \in Closed(a) <=> n \in Closed(s) \/ (n = L + 1 /\ Closes(y))
    <3>1. n \in 1..L + 1 <=> n \in 1..L \/ n = L + 1
      BY <1>1
    <3>2. L + 1 \notin 1..L /\ L + 1 # 0
      BY <1>1
    <3> QED BY <1>1, <3>1, <3>2 DEF Closed
  <2> QED BY <2>1
<1>7. CASE Closes(y)
  <2>1. L + 1 \in Nat /\ Closed(a) \subseteq 0..L + 1 /\ L + 1 \in Closed(a)
        /\ \A n \in Closed(a) : n <= L + 1
    BY <1>1, <1>2, <1>3, <1>6, <1>7
  <2>2. Max(Closed(a)) = L + 1
    BY <2>1, GreatestIs
  <2>3. L + 1 \in 0..Len(a)
    BY <1>1
  <2> DEFINE w == SubSeq(a, L + 1 + 1, Len(a))
  <2>4. w \in Seq(Item) /\ Len(w) = Len(a) - (L + 1)
    BY <1>1, <2>3, Since
  <2>5. Len(w) = 0
    BY <1>1, <2>4
  <2>6. w = <<>>
    BY <2>4, <2>5, EmptySeq
  <2> QED BY <1>5, <1>7, <2>2, <2>6 DEF WindowOf, a
<1>8. CASE ~Closes(y)
  <2>1. Closed(a) = Closed(s)
    BY <1>6, <1>8
  <2>2. Max(Closed(a)) = c
    BY <2>1 DEF c
  <2> DEFINE w == SubSeq(a, c + 1, Len(a))
             v == Append(WindowOf(s), y)
  <2>3. WindowOf(a) = w
    BY <2>2 DEF WindowOf
  <2>4. c \in 0..Len(a)
    BY <1>1, <1>3
  <2>5. w \in Seq(Item) /\ Len(w) = Len(a) - c /\ \A k \in 1..Len(a) - c : w[k] = a[c + k]
    BY <1>1, <2>4, Since
  <2>6. /\ v \in Seq(Item) /\ Len(v) = L - c + 1 /\ v[L - c + 1] = y
        /\ \A k \in 1..L - c : v[k] = s[c + k]
    BY <1>5, AppendProperties
  <2> HIDE DEF w, v
  <2>7. Len(w) = L - c + 1 /\ Len(v) = L - c + 1
    BY <1>1, <1>3, <2>5, <2>6
  <2>8. ASSUME NEW k \in 1..L - c + 1 PROVE w[k] = v[k]
    <3>1. k \in 1..Len(a) - c
      BY <1>1, <1>3
    <3>2. CASE k = L - c + 1
      <4>1. c + k = L + 1
        BY <1>1, <1>3, <3>2
      <4> QED BY <1>1, <2>5, <2>6, <3>1, <3>2, <4>1
    <3>3. CASE k \in 1..L - c
      <4>1. c + k \in 1..L
        BY <1>1, <1>3, <3>3
      <4> QED BY <1>1, <2>5, <2>6, <3>1, <3>3, <4>1
    <3> QED BY <1>1, <1>3, <3>2, <3>3
  <2>9. w = v
    BY <2>5, <2>6, <2>7, <2>8, SeqEqual
  <2> QED BY <1>5, <1>8, <2>3, <2>9 DEF v, a
<1> QED BY <1>7, <1>8

\* The window is empty before the first item.
LEMMA WindowStarts == WindowOf(<<>>) = <<>>
<1>1. <<>> \in Seq(Item) /\ Len(<<>>) = 0 /\ DOMAIN <<>> = {}
  OBVIOUS
<1>2. Closed(<<>>) = {0}
  BY <1>1 DEF Closed
<1>3. Max(Closed(<<>>)) = 0
  BY <1>1, <1>2, ClosedIs
<1>4. 0 \in 0..Len(<<>>)
  BY <1>1
<1> DEFINE w == SubSeq(<<>>, 0 + 1, Len(<<>>))
<1>5. w \in Seq(Item) /\ Len(w) = Len(<<>>) - 0
  BY <1>1, <1>4, Since
<1>6. w = <<>>
  BY <1>1, <1>5, EmptySeq
<1> QED BY <1>3, <1>6 DEF WindowOf

-----------------------------------------------------------------------------
(* The last message *)

\* The places of the user's messages, and the length of the last one.
Messages(s) == {n \in DOMAIN s : s[n].type = "userMessage"}
LastText(s) == IF Messages(s) = {} THEN 0 ELSE s[Max(Messages(s))].text

\* A message read is the last message.
LEMMA LastTextMore ==
  ASSUME NEW s \in Seq(Item), NEW y \in Item
  PROVE  LastText(Append(s, y)) = IF y.type = "userMessage" THEN y.text ELSE LastText(s)
<1> DEFINE L == Len(s)
           a == Append(s, y)
<1>1. /\ L \in Nat /\ a[L + 1] = y
      /\ DOMAIN a = 1..L + 1 /\ DOMAIN s = 1..L /\ \A n \in 1..L : a[n] = s[n]
  BY LenProperties, AppendProperties
<1> HIDE DEF a, L
<1>2. Messages(a) = IF y.type = "userMessage" THEN Messages(s) \union {L + 1} ELSE Messages(s)
  <2>1. ASSUME NEW n
        PROVE  n \in Messages(a) <=> n \in Messages(s) \/ (n = L + 1 /\ y.type = "userMessage")
    <3>1. n \in 1..L + 1 <=> n \in 1..L \/ n = L + 1
      BY <1>1
    <3>2. L + 1 \notin 1..L
      BY <1>1
    <3> QED BY <1>1, <3>1, <3>2 DEF Messages
  <2> QED BY <2>1
<1>3. Messages(s) \subseteq 1..L
  BY <1>1 DEF Messages
<1>4. CASE y.type = "userMessage"
  <2>1. L + 1 \in Nat /\ Messages(a) \subseteq 0..L + 1 /\ L + 1 \in Messages(a)
        /\ \A n \in Messages(a) : n <= L + 1
    BY <1>1, <1>2, <1>3, <1>4
  <2>2. Max(Messages(a)) = L + 1
    BY <2>1, GreatestIs
  <2> QED BY <1>1, <1>4, <2>1, <2>2 DEF LastText, a
<1>5. CASE y.type # "userMessage"
  <2>1. Messages(a) = Messages(s)
    BY <1>2, <1>5
  <2>2. CASE Messages(s) = {}
    BY <1>5, <2>1, <2>2 DEF LastText, a
  <2>3. CASE Messages(s) # {}
    <3>1. Messages(s) \subseteq 0..L
      BY <1>3
    <3>2. Max(Messages(s)) \in 1..L
      BY <1>1, <1>3, <2>3, <3>1, Greatest
    <3> QED BY <1>1, <1>5, <2>1, <2>3, <3>2 DEF LastText, a
  <2> QED BY <2>2, <2>3
<1> QED BY <1>4, <1>5

\* Without items there is no message.
LEMMA NoText == LastText(<<>>) = 0
BY DEF LastText, Messages

-----------------------------------------------------------------------------
(* The lists over the items *)

\* What an item tells of files and of checks.
FilesOf == [item \in Item |-> IF item.type = "fileChange" THEN item.paths ELSE <<>>]
ChecksOf == [item \in Item |-> IF item.type = "commandExecution" THEN <<item.check>> ELSE <<>>]

\* The files of evidence e are the latest that the window of s tells of, and its checks.
FilesFollow(e, s) ==
  /\ e.files \in FileList
  /\ \E n : Tracks(n, e.files, Told(WindowOf(s), FilesOf), FileKey, MAX_CHANGED_FILES)
ChecksFollow(e, s) ==
  /\ e.checks \in Seq(Check)
  /\ \E n : Tracks(n, e.checks, Told(WindowOf(s), ChecksOf), CheckKey, MAX_VERIFICATION_ITEMS)
ObjectiveFollows(e, s) ==
  /\ LastText(s) \in Nat
  /\ e.objective = IF LastText(s) < MAX_OBJECTIVE_SCALARS THEN LastText(s)
                   ELSE MAX_OBJECTIVE_SCALARS

\* What holds while the items are read.
Follows(e, s) ==
  s \in Seq(Item) /\ ObjectiveFollows(e, s) /\ FilesFollow(e, s) /\ ChecksFollow(e, s)

\* The strengthening of EvidenceIsLatest that a step keeps.
FollowInv == stage = "projecting" => Follows(evidence, items)

\* Items tell of paths and of checks.
LEMMA PartTypes == FilesOf \in [Item -> Seq(Path)] /\ ChecksOf \in [Item -> Seq(Check)]
<1>1. ASSUME NEW item \in Item, item.type = "fileChange" PROVE item.paths \in Seq(Path)
  BY <1>1 DEF Item, Message, FileChange, Command, Compaction
<1>2. ASSUME NEW item \in Item, item.type = "commandExecution" PROVE item.check \in Check
  BY <1>2 DEF Item, Message, FileChange, Command, Compaction
<1>3. <<>> \in Seq(Path) /\ <<>> \in Seq(Check)
  OBVIOUS
<1>4. \A c \in Check : <<c>> \in Seq(Check)
  OBVIOUS
<1>5. FilesOf \in [Item -> Seq(Path)]
  BY <1>1, <1>3 DEF FilesOf
<1>6. ChecksOf \in [Item -> Seq(Check)]
  BY <1>2, <1>3, <1>4 DEF ChecksOf
<1> QED BY <1>5, <1>6

\* Nothing is tracked by nothing.
LEMMA TracksNothing ==
  ASSUME NEW f, NEW max \in Nat
  PROVE  \E n : Tracks(n, <<>>, <<>>, f, max)
<1> DEFINE n == [k \in 1..0 |-> k]
           none == <<>>
<1>1. n \in [1..0 -> 1..0] /\ Len(none) = 0 /\ 1..0 = {}
  OBVIOUS
<1>2. Latest(none, f) = {}
  BY <1>1 DEF Latest
<1> HIDE DEF n, none
<1>3. Tracks(n, none, none, f, max)
  BY <1>1, <1>2 DEF Tracks
<1> QED BY <1>3 DEF none

\* No evidence follows no items.
LEMMA FollowsStart == Follows(NoEvidence, <<>>)
<1>1. /\ NoEvidence.files = <<>> /\ NoEvidence.checks = <<>> /\ NoEvidence.objective = 0
  BY DEF NoEvidence
<1>2. <<>> \in Seq(Item) /\ <<>> \in Seq(Check) /\ <<>> \in Seq(Path) /\ Len(<<>>) = 0
  OBVIOUS
<1>3. <<>> \in FileList
  BY <1>2, CapsuleLimits DEF FileList, Distinct
<1>4. /\ Told(WindowOf(<<>>), FilesOf) = <<>>
      /\ Told(WindowOf(<<>>), ChecksOf) = <<>>
  BY WindowStarts, NothingTold
<1>5. \E n : Tracks(n, <<>>, <<>>, FileKey, MAX_CHANGED_FILES)
  BY TracksNothing, CapsuleLimits
<1>6. \E n : Tracks(n, <<>>, <<>>, CheckKey, MAX_VERIFICATION_ITEMS)
  BY TracksNothing, CapsuleLimits
<1>7. FilesFollow(NoEvidence, <<>>)
  BY <1>1, <1>3, <1>4, <1>5 DEF FilesFollow
<1>8. ChecksFollow(NoEvidence, <<>>)
  BY <1>1, <1>2, <1>4, <1>6 DEF ChecksFollow
<1>9. ObjectiveFollows(NoEvidence, <<>>)
  BY <1>1, NoText, CapsuleLimits DEF ObjectiveFollows
<1> QED BY <1>2, <1>7, <1>8, <1>9 DEF Follows

-----------------------------------------------------------------------------
(* Reading an item *)

\* Something that was the same for the window before is so for the window with an item
\* of another kind.
LEMMA OtherItem ==
  ASSUME NEW X, NEW s \in Seq(Item), NEW y \in Item, ~Closes(y),
         NEW part \in [Item -> Seq(X)]
  PROVE  part[y] = <<>> => Told(WindowOf(Append(s, y)), part) = Told(WindowOf(s), part)
<1> DEFINE w == WindowOf(s)
<1>1. w \in Seq(Item) /\ WindowOf(Append(s, y)) = Append(w, y)
  BY WindowMore
<1> HIDE DEF w
<1>2. Told(w, part) \in Seq(X) /\ Told(Append(w, y), part) = Told(w, part) \o part[y]
  BY <1>1, ToldMore
<1> DEFINE t == Told(w, part)
<1> HIDE DEF t
<1>3. t \in Seq(X) => t \o <<>> = t
  BY ConcatEmptySeq
<1> QED BY <1>1, <1>2, <1>3 DEF t, w

\* An item that is no file change and closes nothing leaves the files right.
LEMMA OtherForFiles ==
  ASSUME NEW e, NEW s \in Seq(Item), NEW y \in Item, ~Closes(y), y.type # "fileChange",
         FilesFollow(e, s), NEW e2, e2.files = e.files
  PROVE  FilesFollow(e2, Append(s, y))
<1>1. FilesOf[y] = <<>>
  BY DEF FilesOf
<1>2. FilesOf \in [Item -> Seq(Path)]
  BY PartTypes
<1>3. Told(WindowOf(Append(s, y)), FilesOf) = Told(WindowOf(s), FilesOf)
  BY <1>1, <1>2, OtherItem
<1> QED BY <1>3 DEF FilesFollow

\* An item that is no command and closes nothing leaves the checks right.
LEMMA OtherForChecks ==
  ASSUME NEW e, NEW s \in Seq(Item), NEW y \in Item, ~Closes(y), y.type # "commandExecution",
         ChecksFollow(e, s), NEW e2, e2.checks = e.checks
  PROVE  ChecksFollow(e2, Append(s, y))
<1>1. ChecksOf[y] = <<>>
  BY DEF ChecksOf
<1>2. ChecksOf \in [Item -> Seq(Check)]
  BY PartTypes
<1>3. Told(WindowOf(Append(s, y)), ChecksOf) = Told(WindowOf(s), ChecksOf)
  BY <1>1, <1>2, OtherItem
<1> QED BY <1>3 DEF ChecksFollow

\* An item that is no message leaves the objective right.
LEMMA OtherForObjective ==
  ASSUME NEW e, NEW s \in Seq(Item), NEW y \in Item, y.type # "userMessage",
         ObjectiveFollows(e, s), NEW e2, e2.objective = e.objective
  PROVE  ObjectiveFollows(e2, Append(s, y))
BY LastTextMore DEF ObjectiveFollows

\* After a file change the files are those of the longer window.
LEMMA FollowsFileChange ==
  ASSUME NEW e, NEW s \in Seq(Item), FilesFollow(e, s), NEW y \in Item, y.type = "fileChange",
         Distinct(y.paths), NEW e2, e2.files = PushFiles(e.files, y.paths)
  PROVE  FilesFollow(e2, Append(s, y))
<1> DEFINE w == WindowOf(s)
           all == Told(w, FilesOf)
           paths == y.paths
           files == e.files
<1>1. ~Closes(y)
  BY DEF Closes
<1>2. w \in Seq(Item) /\ WindowOf(Append(s, y)) = Append(w, y)
  BY <1>1, WindowMore
<1>3. FilesOf[y] = paths
  BY DEF FilesOf
<1>4. FilesOf \in [Item -> Seq(Path)] /\ paths \in Seq(Path)
  BY <1>3, PartTypes
<1>5. /\ files \in FileList
      /\ \E n : Tracks(n, files, all, FileKey, MAX_CHANGED_FILES)
  BY DEF FilesFollow
<1> HIDE DEF w
<1>6. all \in Seq(Path) /\ Told(Append(w, y), FilesOf) = all \o FilesOf[y]
  BY <1>2, <1>4, ToldMore
<1>7. Distinct(paths)
  OBVIOUS
<1>8. e2.files = PushFiles(files, paths)
  OBVIOUS
<1> HIDE DEF all, paths, files
<1>9. /\ PushFiles(files, paths) \in FileList
      /\ \E n : Tracks(n, PushFiles(files, paths), all \o paths, FileKey, MAX_CHANGED_FILES)
  BY <1>4, <1>5, <1>6, <1>7, PushFilesKeepsUp
<1> QED BY <1>2, <1>3, <1>6, <1>8, <1>9 DEF FilesFollow

\* Two entries that track are of different keys.
LEMMA TrackedDiffer ==
  ASSUME NEW X, NEW all \in Seq(X), NEW f, NEW s \in Seq(X), NEW max \in Nat,
         NEW e, Tracks(e, s, all, f, max),
         NEW i \in 1..Len(s), NEW k \in 1..Len(s), f[s[i]] = f[s[k]]
  PROVE  i = k
<1>1. Len(s) \in Nat /\ Len(all) \in Nat
  BY LenProperties
<1>2. /\ e \in [1..Len(s) -> 1..Len(all)]
      /\ \A p, q \in 1..Len(s) : p < q => e[p] < e[q]
      /\ \A p \in 1..Len(s) : s[p] = all[e[p]] /\ e[p] \in Latest(all, f)
  BY DEF Tracks
<1>3. ASSUME NEW p \in 1..Len(s), NEW q \in 1..Len(s), f[s[p]] = f[s[q]] PROVE ~(p < q)
  <2>1. e[p] \in 1..Len(all) /\ e[q] \in 1..Len(all) /\ e[p] \in Latest(all, f)
        /\ s[p] = all[e[p]] /\ s[q] = all[e[q]] /\ (p < q => e[q] > e[p])
    BY <1>1, <1>2
  <2>2. \A m \in 1..Len(all) : m > e[p] => f[all[m]] # f[all[e[p]]]
    BY <2>1 DEF Latest
  <2> QED BY <1>3, <2>1, <2>2
<1>4. ~(i < k) /\ ~(k < i)
  BY <1>3
<1> QED BY <1>1, <1>4

\* A push of a check keeps up with the checks read.
LEMMA PushCheckKeepsUp ==
  ASSUME NEW all \in Seq(Check), NEW checks \in Seq(Check), NEW check \in Check,
         \E e : Tracks(e, checks, all, CheckKey, MAX_VERIFICATION_ITEMS)
  PROVE  /\ PushCheck(checks, check) \in Seq(Check)
         /\ \E e : Tracks(e, PushCheck(checks, check), Append(all, check), CheckKey,
                          MAX_VERIFICATION_ITEMS)
<1> DEFINE max == MAX_VERIFICATION_ITEMS
           W == Others(check)
           t == PushCheck(checks, check)
<1>1. max \in Nat \ {0} /\ max \in Nat
  BY CapsuleLimits
<1>2. \A i \in 1..Len(checks) : checks[i] \in Check
  OBVIOUS
<1>3. \A c \in Check : CheckKey[c] = c.id
  BY DEF CheckKey
<1>4. PICK e : Tracks(e, checks, all, CheckKey, max)
  OBVIOUS
<1> HIDE DEF max, W
<1>5. \A c \in Check : c \notin W <=> CheckKey[c] = CheckKey[check]
  BY <1>3 DEF W, Others
<1>6. Len(checks) <= max
  BY <1>4 DEF Tracks
<1>7. \A i, k \in 1..Len(checks) : checks[i] \notin W /\ checks[k] \notin W => i = k
  <2> TAKE i, k \in 1..Len(checks)
  <2> HAVE checks[i] \notin W /\ checks[k] \notin W
  <2>1. CheckKey[checks[i]] = CheckKey[checks[k]]
    BY <1>2, <1>5
  <2> QED BY <1>1, <1>4, <2>1, TrackedDiffer
<1>8. Pushed(checks, check, LastOf(Append(Within(checks, W), check), max),
             {i \in 1..Len(checks) : checks[i] \notin W}, max)
  BY <1>1, <1>6, <1>7, PushShape
<1>9. {i \in 1..Len(checks) : checks[i] \notin W} = Like(checks, check, CheckKey)
  BY <1>2, <1>5 DEF Like
<1>10. t = LastOf(Append(Within(checks, W), check), max)
  BY DEF PushCheck, W, max
<1> HIDE DEF t
<1>11. Pushed(checks, check, t, Like(checks, check, CheckKey), max)
  BY <1>8, <1>9, <1>10
<1>12. t \in Seq(Check) /\ \E e2 : Tracks(e2, t, Append(all, check), CheckKey, max)
  BY <1>1, <1>4, <1>11, TrackPush
<1> QED BY <1>12 DEF t, max

\* After a command the checks are those of the longer window.
LEMMA FollowsCommand ==
  ASSUME NEW e, NEW s \in Seq(Item), ChecksFollow(e, s), NEW y \in Item,
         y.type = "commandExecution", NEW e2, e2.checks = PushCheck(e.checks, y.check)
  PROVE  ChecksFollow(e2, Append(s, y))
<1> DEFINE w == WindowOf(s)
           all == Told(w, ChecksOf)
           check == y.check
           checks == e.checks
<1>1. ~Closes(y)
  BY DEF Closes
<1>2. w \in Seq(Item) /\ WindowOf(Append(s, y)) = Append(w, y)
  BY <1>1, WindowMore
<1>3. ChecksOf[y] = <<check>>
  BY DEF ChecksOf
<1>4. ChecksOf \in [Item -> Seq(Check)] /\ check \in Check
  BY PartTypes DEF Item, Message, FileChange, Command, Compaction
<1>5. /\ checks \in Seq(Check)
      /\ \E n : Tracks(n, checks, all, CheckKey, MAX_VERIFICATION_ITEMS)
  BY DEF ChecksFollow
<1> HIDE DEF w
<1>6. all \in Seq(Check) /\ Told(Append(w, y), ChecksOf) = all \o ChecksOf[y]
  BY <1>2, <1>4, ToldMore
<1>7. e2.checks = PushCheck(checks, check)
  OBVIOUS
<1> HIDE DEF all, check, checks
<1>8. all \o <<check>> = Append(all, check)
  BY <1>4, <1>6, AppendIsConcat
<1>9. /\ PushCheck(checks, check) \in Seq(Check)
      /\ \E n : Tracks(n, PushCheck(checks, check), Append(all, check), CheckKey,
                       MAX_VERIFICATION_ITEMS)
  BY <1>4, <1>5, <1>6, PushCheckKeepsUp
<1> QED BY <1>2, <1>3, <1>6, <1>7, <1>8, <1>9 DEF ChecksFollow

\* With the lists emptied the evidence follows the empty window.
LEMMA FollowsClosing ==
  ASSUME NEW s \in Seq(Item), NEW y \in Item, Closes(y),
         NEW e2, e2.files = <<>>, e2.checks = <<>>
  PROVE  FilesFollow(e2, Append(s, y)) /\ ChecksFollow(e2, Append(s, y))
<1>1. WindowOf(Append(s, y)) = <<>> /\ WindowOf(<<>>) = <<>>
  BY WindowMore, WindowStarts
<1>2. FilesFollow(NoEvidence, <<>>) /\ ChecksFollow(NoEvidence, <<>>)
  BY FollowsStart DEF Follows
<1>3. NoEvidence.files = <<>> /\ NoEvidence.checks = <<>>
  BY DEF NoEvidence
<1> QED BY <1>1, <1>2, <1>3 DEF FilesFollow, ChecksFollow

\* The inductive invariant of the projection: types, and evidence that follows the items.
CapsuleInv == CapsuleTypeOK /\ FollowInv

\* The paths of an item are a sequence without repetitions.
LEMMA DistinctPathsAre ==
  ASSUME NEW s \in DistinctPaths
  PROVE  s \in Seq(Path) /\ Distinct(s)
<1>1. PICK n \in 1..MaxPaths : s \in [1..n -> Path]
  BY DEF DistinctPaths
<1>2. n \in Nat /\ DOMAIN s = 1..n
  BY <1>1, CapsuleAssumption
<1>3. s \in Seq(Path) /\ Len(s) = n
  BY <1>1, <1>2, FunctionIsSeq
<1>4. \A i, j \in DOMAIN s : s[i] = s[j] => i = j
  BY DEF DistinctPaths
<1> QED BY <1>2, <1>3, <1>4 DEF Distinct

\* Evidence that follows the items is of its type.
LEMMA FollowingIsEvidence ==
  ASSUME NEW e, NEW s, Follows(e, s)
  PROVE  /\ e.files \in Seq(Path) /\ Len(e.files) <= MAX_CHANGED_FILES
         /\ e.checks \in Seq(Check) /\ Len(e.checks) <= MAX_VERIFICATION_ITEMS
         /\ e.objective \in 0..MAX_OBJECTIVE_SCALARS
<1>1. FilesFollow(e, s) /\ ChecksFollow(e, s) /\ ObjectiveFollows(e, s)
  BY DEF Follows
<1>2. e.files \in Seq(Path) /\ Len(e.files) <= MAX_CHANGED_FILES
  BY <1>1 DEF FilesFollow, FileList
<1>3. e.checks \in Seq(Check) /\ Len(e.checks) <= MAX_VERIFICATION_ITEMS
  BY <1>1 DEF ChecksFollow, Tracks
<1>4. e.objective \in 0..MAX_OBJECTIVE_SCALARS
  BY <1>1, CapsuleLimits DEF ObjectiveFollows
<1> QED BY <1>2, <1>3, <1>4

\* The first state is one of the invariant.
LEMMA InitCapsule == CapsuleInit => CapsuleInv
<1> SUFFICES ASSUME CapsuleInit PROVE CapsuleInv
  OBVIOUS
<1>1. FollowInv
  BY FollowsStart DEF CapsuleInit, FollowInv
<1>2. items = <<>> /\ evidence = NoEvidence /\ projected = NoEvidence
      /\ stage = "projecting" /\ model = 0
  BY DEF CapsuleInit
<1>3. <<>> \in Seq(Item) /\ <<>> \in Seq(Path) /\ <<>> \in Seq(Check) /\ Len(<<>>) = 0
  OBVIOUS
<1>4. NoEvidence \in Evidence /\ NoEvidence.files = <<>> /\ NoEvidence.checks = <<>>
  BY <1>3, CapsuleLimits DEF NoEvidence, Evidence
<1>5. CapsuleTypeOK
  BY <1>2, <1>3, <1>4, CapsuleLimits DEF CapsuleTypeOK
<1> QED BY <1>1, <1>5 DEF CapsuleInv

\* Whatever item is read, the evidence follows it.
LEMMA ReadFollows ==
  ASSUME CapsuleInv, ReadItem
  PROVE  stage = "projecting" /\ stage' = "projecting" /\ Follows(evidence', items')
         /\ evidence' \in Evidence /\ UNCHANGED <<projected, model>>
<1>1. stage = "projecting" /\ stage' = "projecting" /\ UNCHANGED <<projected, model>>
  BY DEF ReadItem, ReadMessage, ReadFileChange, ReadCommand, ReadCompaction, Read
<1>2. Follows(evidence, items) /\ evidence \in Evidence
  BY <1>1 DEF CapsuleInv, FollowInv, CapsuleTypeOK
<1>3. /\ items \in Seq(Item) /\ ObjectiveFollows(evidence, items)
      /\ FilesFollow(evidence, items) /\ ChecksFollow(evidence, items)
  BY <1>2 DEF Follows
<1>4. evidence = [objective |-> evidence.objective, files |-> evidence.files,
                  checks |-> evidence.checks]
  BY <1>2 DEF Evidence
<1>5. \A y \in Item : Append(items, y) \in Seq(Item)
  BY <1>3
<1>6. ASSUME NEW text \in 0..MaxText, ReadMessage(text)
      PROVE  Follows(evidence', items')
  <2> DEFINE y == [type |-> "userMessage", text |-> text]
  <2>1. y \in Item /\ y.type = "userMessage" /\ y.text = text
    BY DEF Item, Message
  <2>2. items' = Append(items, y) /\ evidence'.files = evidence.files
        /\ evidence'.checks = evidence.checks
        /\ evidence'.objective = IF text < MAX_OBJECTIVE_SCALARS THEN text
                                 ELSE MAX_OBJECTIVE_SCALARS
    BY <1>4, <1>6 DEF ReadMessage, Read
  <2> HIDE DEF y
  <2>3. ~Closes(y)
    BY <2>1 DEF Closes
  <2>4. FilesFollow(evidence', items')
    BY <1>3, <2>1, <2>2, <2>3, OtherForFiles
  <2>5. ChecksFollow(evidence', items')
    BY <1>3, <2>1, <2>2, <2>3, OtherForChecks
  <2>6. LastText(items') = text /\ text \in Nat
    BY <1>3, <2>1, <2>2, LastTextMore, CapsuleLimits
  <2>7. ObjectiveFollows(evidence', items')
    BY <2>2, <2>6 DEF ObjectiveFollows
  <2> QED BY <1>5, <2>1, <2>2, <2>4, <2>5, <2>7 DEF Follows
<1>7. ASSUME NEW paths \in DistinctPaths, ReadFileChange(paths)
      PROVE  Follows(evidence', items')
  <2> DEFINE y == [type |-> "fileChange", paths |-> paths]
  <2>1. y \in Item /\ y.type = "fileChange" /\ y.paths = paths /\ Distinct(paths)
    BY DistinctPathsAre DEF Item, FileChange
  <2>2. items' = Append(items, y) /\ evidence'.objective = evidence.objective
        /\ evidence'.checks = evidence.checks
        /\ evidence'.files = PushFiles(evidence.files, y.paths)
    BY <1>4, <1>7 DEF ReadFileChange, Read
  <2>3. Distinct(y.paths)
    BY <2>1
  <2> HIDE DEF y
  <2>4. ~Closes(y)
    BY <2>1 DEF Closes
  <2>5. FilesFollow(evidence', items')
    BY <1>3, <2>1, <2>2, <2>3, FollowsFileChange
  <2>6. ChecksFollow(evidence', items')
    BY <1>3, <2>1, <2>2, <2>4, OtherForChecks
  <2>7. ObjectiveFollows(evidence', items')
    BY <1>3, <2>1, <2>2, OtherForObjective
  <2> QED BY <1>5, <2>1, <2>2, <2>5, <2>6, <2>7 DEF Follows
<1>8. ASSUME NEW check \in Check, ReadCommand(check)
      PROVE  Follows(evidence', items')
  <2> DEFINE y == [type |-> "commandExecution", check |-> check]
  <2>1. y \in Item /\ y.type = "commandExecution" /\ y.check = check
    BY DEF Item, Command
  <2>2. items' = Append(items, y) /\ evidence'.objective = evidence.objective
        /\ evidence'.files = evidence.files
        /\ evidence'.checks = PushCheck(evidence.checks, y.check)
    BY <1>4, <1>8 DEF ReadCommand, Read
  <2> HIDE DEF y
  <2>3. ~Closes(y)
    BY <2>1 DEF Closes
  <2>4. ChecksFollow(evidence', items')
    BY <1>3, <2>1, <2>2, FollowsCommand
  <2>5. FilesFollow(evidence', items')
    BY <1>3, <2>1, <2>2, <2>3, OtherForFiles
  <2>6. ObjectiveFollows(evidence', items')
    BY <1>3, <2>1, <2>2, OtherForObjective
  <2> QED BY <1>5, <2>1, <2>2, <2>4, <2>5, <2>6 DEF Follows
<1>9. ASSUME NEW completed \in BOOLEAN, ReadCompaction(completed)
      PROVE  Follows(evidence', items')
  <2> DEFINE y == [type |-> "contextCompaction", completed |-> completed]
  <2>1. y \in Item /\ y.type = "contextCompaction" /\ y.completed = completed
    BY DEF Item, Compaction
  <2>2. /\ items' = Append(items, y)
        /\ evidence'.objective = evidence.objective
        /\ evidence'.files = IF completed THEN <<>> ELSE evidence.files
        /\ evidence'.checks = IF completed THEN <<>> ELSE evidence.checks
    BY <1>4, <1>9 DEF ReadCompaction, Read, reset_window
  <2> HIDE DEF y
  <2>3. ObjectiveFollows(evidence', items')
    BY <1>3, <2>1, <2>2, OtherForObjective
  <2>4. CASE completed
    <3>1. Closes(y)
      BY <2>1, <2>4 DEF Closes
    <3>2. evidence'.files = <<>> /\ evidence'.checks = <<>>
      BY <2>2, <2>4
    <3>3. FilesFollow(evidence', items') /\ ChecksFollow(evidence', items')
      BY <1>3, <2>1, <2>2, <3>1, <3>2, FollowsClosing
    <3> QED BY <1>5, <2>1, <2>2, <2>3, <3>3 DEF Follows
  <2>5. CASE ~completed
    <3>1. ~Closes(y)
      BY <2>1, <2>5 DEF Closes
    <3>2. evidence'.files = evidence.files /\ evidence'.checks = evidence.checks
      BY <2>2, <2>5
    <3>3. FilesFollow(evidence', items')
      BY <1>3, <2>1, <2>2, <3>1, <3>2, OtherForFiles
    <3>4. ChecksFollow(evidence', items')
      BY <1>3, <2>1, <2>2, <3>1, <3>2, OtherForChecks
    <3> QED BY <1>5, <2>1, <2>2, <2>3, <3>3, <3>4 DEF Follows
  <2> QED BY <2>4, <2>5
<1>10. Follows(evidence', items')
  BY <1>6, <1>7, <1>8, <1>9 DEF ReadItem
<1>11. evidence' = [objective |-> evidence'.objective, files |-> evidence'.files,
                    checks |-> evidence'.checks]
  <2>1. \/ \E x : evidence' = [evidence EXCEPT !.objective = x]
        \/ \E x : evidence' = [evidence EXCEPT !.files = x]
        \/ \E x : evidence' = [evidence EXCEPT !.checks = x]
        \/ evidence' = [[evidence EXCEPT !.files = <<>>] EXCEPT !.checks = <<>>]
        \/ evidence' = evidence
    BY DEF ReadItem, ReadMessage, ReadFileChange, ReadCommand, ReadCompaction, reset_window
  <2> QED BY <1>4, <2>1
<1>12. evidence' \in Evidence
  BY <1>10, <1>11, FollowingIsEvidence DEF Evidence
<1> QED BY <1>1, <1>10, <1>12

\* Every step keeps the invariant.
LEMMA StepCapsule == CapsuleInv /\ [CapsuleNext]_capsuleVars => CapsuleInv'
<1> SUFFICES ASSUME CapsuleInv, [CapsuleNext]_capsuleVars PROVE CapsuleInv'
  OBVIOUS
<1> USE DEF CapsuleInv
<1>0. /\ items \in Seq(Item) /\ evidence \in Evidence /\ projected \in Evidence
      /\ Len(evidence.files) <= MAX_CHANGED_FILES
      /\ Len(evidence.checks) <= MAX_VERIFICATION_ITEMS
      /\ model \in ModelBytes \union {0}
  BY DEF CapsuleTypeOK
<1>1. CASE ReadItem
  <2>1. /\ stage' = "projecting" /\ Follows(evidence', items') /\ evidence' \in Evidence
        /\ UNCHANGED <<projected, model>>
    BY <1>1, ReadFollows
  <2>2. items' \in Seq(Item)
    BY <2>1 DEF Follows
  <2>3. Len(evidence'.files) <= MAX_CHANGED_FILES
        /\ Len(evidence'.checks) <= MAX_VERIFICATION_ITEMS
    BY <2>1, FollowingIsEvidence
  <2>4. CapsuleTypeOK'
    BY <1>0, <2>1, <2>2, <2>3 DEF CapsuleTypeOK
  <2> QED BY <2>1, <2>4 DEF FollowInv
<1>2. CASE BeginBuild
  <2>1. stage' = "pruning" /\ projected' = evidence /\ model' \in ModelBytes
        /\ items' = <<>> /\ evidence' = evidence
    BY <1>2 DEF BeginBuild
  <2> QED BY <1>0, <2>1 DEF FollowInv, CapsuleTypeOK
<1>3. CASE Prune
  <2>1. stage' = "pruning" /\ UNCHANGED <<items, projected, model>>
    BY <1>3 DEF Prune
  <2>2. /\ evidence.files \in Seq(Path) /\ evidence.checks \in Seq(Check)
        /\ evidence.objective \in 0..MAX_OBJECTIVE_SCALARS /\ MAX_OBJECTIVE_SCALARS \in Nat
    BY <1>0, CapsuleLimits DEF Evidence
  <2>3. evidence' \in Evidence /\ Len(evidence'.files) <= MAX_CHANGED_FILES
        /\ Len(evidence'.checks) <= MAX_VERIFICATION_ITEMS
    <3>1. CASE DropCheck
      <4>1. evidence' = [evidence EXCEPT !.checks = Tail(evidence.checks)]
        BY <3>1 DEF DropCheck
      <4>2. Tail(evidence.checks) \in Seq(Check)
            /\ Len(Tail(evidence.checks)) <= MAX_VERIFICATION_ITEMS
        BY <1>0, <2>2, <3>1, HeadTailProperties, CapsuleLimits DEF DropCheck
      <4> QED BY <1>0, <4>1, <4>2 DEF Evidence
    <3>2. CASE DropFile
      <4>1. evidence' = [evidence EXCEPT !.files = Tail(evidence.files)]
        BY <3>2 DEF DropFile
      <4>2. Tail(evidence.files) \in Seq(Path)
            /\ Len(Tail(evidence.files)) <= MAX_CHANGED_FILES
        BY <1>0, <2>2, <3>2, HeadTailProperties, CapsuleLimits DEF DropFile
      <4> QED BY <1>0, <4>1, <4>2 DEF Evidence
    <3>3. CASE TrimObjective
      <4>1. evidence' = [evidence EXCEPT !.objective = evidence.objective - 1]
        BY <3>3 DEF TrimObjective
      <4>2. evidence.objective - 1 \in 0..MAX_OBJECTIVE_SCALARS
        BY <2>2, <3>3 DEF TrimObjective
      <4> QED BY <1>0, <4>1, <4>2 DEF Evidence
    <3> QED BY <1>3, <3>1, <3>2, <3>3 DEF Prune
  <2> QED BY <1>0, <2>1, <2>3 DEF FollowInv, CapsuleTypeOK
<1>4. CASE NothingToPrune
  BY <1>0, <1>4 DEF NothingToPrune, FollowInv, CapsuleTypeOK
<1>5. CASE Seal
  BY <1>0, <1>5 DEF Seal, FollowInv, CapsuleTypeOK
<1>6. CASE UNCHANGED capsuleVars
  BY <1>6 DEF capsuleVars, FollowInv, CapsuleTypeOK
<1> QED BY <1>1, <1>2, <1>3, <1>4, <1>5, <1>6 DEF CapsuleNext

\* The invariant holds throughout.
LEMMA CapsuleInvariant == CapsuleSpec => []CapsuleInv
<1>1. CapsuleInit => CapsuleInv
  BY InitCapsule
<1>2. CapsuleInv /\ [CapsuleNext]_capsuleVars => CapsuleInv'
  BY StepCapsule
<1> QED BY <1>1, <1>2, PTL DEF CapsuleSpec

\* The lists are sequences of their entries and never longer than their limits, after every
\* item read and every step of the pruning (checkpoint.rs:212-268).
THEOREM CapsuleTypeCorrect == CapsuleSpec => []CapsuleTypeOK
<1>1. CapsuleInv => CapsuleTypeOK
  BY DEF CapsuleInv
<1> QED BY <1>1, CapsuleInvariant, PTL

\* Files that track what was read are its latest as the specification counts them.
LEMMA FilesAreLatest ==
  ASSUME NEW all \in Seq(Path), NEW s \in Seq(Path),
         \E e : Tracks(e, s, all, FileKey, MAX_CHANGED_FILES)
  PROVE  LET Itself(p) == p IN IsLatest(s, all, Itself, MAX_CHANGED_FILES)
<1> DEFINE latest == {n \in DOMAIN all : \A m \in DOMAIN all : m > n => all[m] # all[n]}
           kept == {n \in latest : Cardinality({m \in latest : m > n}) < MAX_CHANGED_FILES}
<1>1. DOMAIN all = 1..Len(all) /\ \A n \in 1..Len(all) : FileKey[all[n]] = all[n]
  BY DEF FileKey
<1>2. latest = Latest(all, FileKey)
  BY <1>1 DEF Latest
<1>3. kept = Kept(all, FileKey, MAX_CHANGED_FILES)
  <2> HIDE DEF latest
  <2> QED BY <1>2 DEF Kept
<1>4. /\ Len(s) = Cardinality(kept)
      /\ \A n \in kept : s[Cardinality({m \in kept : m <= n})] = all[n]
  <2>1. PICK e : Tracks(e, s, all, FileKey, MAX_CHANGED_FILES)
    OBVIOUS
  <2>2. Lists(s, all, Kept(all, FileKey, MAX_CHANGED_FILES))
    BY <2>1, CapsuleLimits, TrackedIsLatest
  <2> HIDE DEF kept
  <2>3. Lists(s, all, kept)
    BY <1>3, <2>2
  <2> QED BY <2>3 DEF Lists
<1> QED BY <1>4 DEF IsLatest

\* Checks likewise, by their items.
LEMMA ChecksAreLatest ==
  ASSUME NEW all \in Seq(Check), NEW s \in Seq(Check),
         \E e : Tracks(e, s, all, CheckKey, MAX_VERIFICATION_ITEMS)
  PROVE  LET Id(c) == c.id IN IsLatest(s, all, Id, MAX_VERIFICATION_ITEMS)
<1> DEFINE latest == {n \in DOMAIN all : \A m \in DOMAIN all : m > n => all[m].id # all[n].id}
           kept == {n \in latest : Cardinality({m \in latest : m > n}) < MAX_VERIFICATION_ITEMS}
<1>1. DOMAIN all = 1..Len(all) /\ \A n \in 1..Len(all) : CheckKey[all[n]] = all[n].id
  BY DEF CheckKey
<1>2. latest = Latest(all, CheckKey)
  BY <1>1 DEF Latest
<1>3. kept = Kept(all, CheckKey, MAX_VERIFICATION_ITEMS)
  <2> HIDE DEF latest
  <2> QED BY <1>2 DEF Kept
<1>4. /\ Len(s) = Cardinality(kept)
      /\ \A n \in kept : s[Cardinality({m \in kept : m <= n})] = all[n]
  <2>1. PICK e : Tracks(e, s, all, CheckKey, MAX_VERIFICATION_ITEMS)
    OBVIOUS
  <2>2. Lists(s, all, Kept(all, CheckKey, MAX_VERIFICATION_ITEMS))
    BY <2>1, CapsuleLimits, TrackedIsLatest
  <2> HIDE DEF kept
  <2>3. Lists(s, all, kept)
    BY <1>3, <2>2
  <2> QED BY <2>3 DEF Lists
<1> QED BY <1>4 DEF IsLatest

\* The objective is the last message, cut at the limit.
LEMMA ObjectiveIsLatest ==
  ASSUME NEW e, ObjectiveFollows(e, items)
  PROVE  LET messages == {n \in DOMAIN items : items[n].type = "userMessage"}
             text == IF messages = {} THEN 0 ELSE items[Max(messages)].text
         IN e.objective = Min({text, MAX_OBJECTIVE_SCALARS})
<1> DEFINE a == LastText(items)
           b == MAX_OBJECTIVE_SCALARS
<1>1. a \in Nat /\ b \in Nat /\ e.objective = IF a < b THEN a ELSE b
  BY CapsuleLimits DEF ObjectiveFollows
<1> HIDE DEF a, b
<1>2. e.objective = Min({a, b})
  BY <1>1, LessOfTwo
<1> QED BY <1>2 DEF LastText, Messages, a, b

\* Whatever items there are and whatever the limits, the evidence that is kept one item at a
\* time is the latest message, and of the items after the last completed compaction each
\* file and each check as it was last, in their order, and of these as many as the limit
\* allows (protocol.rs:490-566, checkpoint.rs:166-269).
THEOREM EvidenceIsLatestAlways == CapsuleSpec => []EvidenceIsLatest
<1>1. CapsuleInv => EvidenceIsLatest
  <2> SUFFICES ASSUME CapsuleInv, stage = "projecting" PROVE EvidenceIsLatest
    BY DEF EvidenceIsLatest
  <2>1. /\ items \in Seq(Item) /\ ObjectiveFollows(evidence, items)
        /\ FilesFollow(evidence, items) /\ ChecksFollow(evidence, items)
    BY DEF CapsuleInv, FollowInv, Follows
  <2> DEFINE paths == Told(WindowOf(items), FilesOf)
             checks == Told(WindowOf(items), ChecksOf)
  <2>2. WindowOf(items) \in Seq(Item)
    <3>1. \E y : y \in Item
      <4>1. [type |-> "userMessage", text |-> 0] \in Item
        BY CapsuleLimits DEF Item, Message
      <4> QED BY <4>1
    <3> QED BY <2>1, <3>1, WindowMore
  <2>3. paths \in Seq(Path) /\ checks \in Seq(Check)
    <3>1. \E y : y \in Item
      <4>1. [type |-> "userMessage", text |-> 0] \in Item
        BY CapsuleLimits DEF Item, Message
      <4> QED BY <4>1
    <3>2. PICK y \in Item : TRUE
      BY <3>1
    <3> DEFINE w == WindowOf(items)
    <3> HIDE DEF w
    <3>3. w \in Seq(Item)
      BY <2>2 DEF w
    <3>4. Told(w, FilesOf) \in Seq(Path)
      BY <3>3, PartTypes, ToldMore
    <3>5. Told(w, ChecksOf) \in Seq(Check)
      BY <3>3, PartTypes, ToldMore
    <3> QED BY <3>4, <3>5 DEF w
  <2>4. /\ \A n \in DOMAIN Window : Window[n] \in Item
        /\ paths = FlattenSeq([n \in DOMAIN Window |->
                     IF Window[n].type = "fileChange" THEN Window[n].paths ELSE <<>>])
        /\ checks = FlattenSeq([n \in DOMAIN Window |->
                     IF Window[n].type = "commandExecution" THEN <<Window[n].check>> ELSE <<>>])
    <3> DEFINE w == Window
    <3>1. w \in Seq(Item) /\ w = WindowOf(items)
      BY <2>2, WindowIsOfItems
    <3> HIDE DEF w
    <3>2. \A n \in DOMAIN w : w[n] \in Item
      BY <3>1
    <3>3. [n \in DOMAIN w |-> FilesOf[w[n]]] =
            [n \in DOMAIN w |-> IF w[n].type = "fileChange" THEN w[n].paths ELSE <<>>]
      BY <3>2 DEF FilesOf
    <3>4. [n \in DOMAIN w |-> ChecksOf[w[n]]] =
            [n \in DOMAIN w |-> IF w[n].type = "commandExecution" THEN <<w[n].check>> ELSE <<>>]
      BY <3>2 DEF ChecksOf
    <3> QED BY <3>1, <3>2, <3>3, <3>4 DEF Told, w
  <2> HIDE DEF paths, checks
  <2>5. LET Itself(p) == p IN IsLatest(evidence.files, paths, Itself, MAX_CHANGED_FILES)
    <3>1. evidence.files \in Seq(Path)
          /\ \E e : Tracks(e, evidence.files, paths, FileKey, MAX_CHANGED_FILES)
      BY <2>1 DEF FilesFollow, FileList, paths
    <3> QED BY <2>3, <3>1, FilesAreLatest
  <2>6. LET Id(c) == c.id IN IsLatest(evidence.checks, checks, Id, MAX_VERIFICATION_ITEMS)
    <3>1. evidence.checks \in Seq(Check)
          /\ \E e : Tracks(e, evidence.checks, checks, CheckKey, MAX_VERIFICATION_ITEMS)
      BY <2>1 DEF ChecksFollow, checks
    <3> QED BY <2>3, <3>1, ChecksAreLatest
  <2>7. LET messages == {n \in DOMAIN items : items[n].type = "userMessage"}
            text == IF messages = {} THEN 0 ELSE items[Max(messages)].text
        IN evidence.objective = Min({text, MAX_OBJECTIVE_SCALARS})
    BY <2>1, ObjectiveIsLatest
  <2> QED BY <2>4, <2>5, <2>6, <2>7 DEF EvidenceIsLatest
<1> QED BY <1>1, CapsuleInvariant, PTL

-----------------------------------------------------------------------------
(* Pruning *)

\* While the evidence is pruned: what is left is a rest, in the order of pruning, and
\* the capsule did not fit before the last step.
LeastSoFar ==
  /\ Rest(evidence.checks, projected.checks)
  /\ Rest(evidence.files, projected.files)
  /\ evidence.objective <= projected.objective
  /\ evidence.files # projected.files => evidence.checks = <<>>
  /\ evidence.objective # projected.objective => evidence.files = <<>> /\ evidence.checks = <<>>
  /\ evidence # projected => Sealed(Before(evidence)) > MAX_CHECKPOINT_BYTES

PruneInv ==
  /\ stage # "projecting" => LeastSoFar
  /\ stage = "built" => Sealed(evidence) <= MAX_CHECKPOINT_BYTES
  /\ TooLargeMeansModel

-----------------------------------------------------------------------------
(* The ends of a sequence *)

\* A sequence is what is left of itself.
LEMMA RestOfItself ==
  ASSUME NEW T, NEW s \in Seq(T)
  PROVE  Rest(s, s)
BY DEF Rest

\* Without its head a rest is a rest, and the head can be told from the whole.
LEMMA TailOfRest ==
  ASSUME NEW T, NEW s \in Seq(T), NEW t \in Seq(T), s # <<>>, Rest(s, t)
  PROVE  Rest(Tail(s), t) /\ LastButOne(Tail(s), t) = s /\ Tail(s) # t
<1>1. Len(s) \in Nat /\ Len(t) \in Nat /\ Len(s) > 0 /\ Len(s) <= Len(t)
  BY DEF Rest
<1>2. Tail(s) \in Seq(T) /\ Len(Tail(s)) = Len(s) - 1
  BY <1>1
<1>3. SubSeq(t, Len(t) - Len(s) + 1, Len(t)) = s
  BY DEF Rest
<1>4. SubSeq(t, Len(t) - Len(Tail(s)) + 1, Len(t)) = Tail(s)
  <2>1. /\ Len(t) - Len(s) + 1 \in 1..Len(t) + 1 /\ Len(t) - Len(s) + 1 \in Int
        /\ Len(t) - Len(s) + 1 <= Len(t)
    BY <1>1
  <2>2. Tail(SubSeq(t, Len(t) - Len(s) + 1, Len(t))) = SubSeq(t, Len(t) - Len(s) + 1 + 1, Len(t))
    BY <1>1, <2>1, HeadTailOfSubSeq
  <2>3. Len(t) - Len(Tail(s)) + 1 = Len(t) - Len(s) + 1 + 1
    BY <1>1, <1>2
  <2> QED BY <1>3, <2>2, <2>3
<1>5. LastButOne(Tail(s), t) = s
  <2>1. Len(t) - Len(Tail(s)) = Len(t) - Len(s) + 1
    BY <1>1, <1>2
  <2> QED BY <1>3, <2>1 DEF LastButOne
<1>6. Len(Tail(s)) # Len(t) /\ Len(Tail(s)) <= Len(t)
  <2>1. \A m, n \in Nat : m > 0 /\ m <= n => m - 1 # n /\ m - 1 <= n
    OBVIOUS
  <2> QED BY <1>1, <1>2, <2>1
<1> QED BY <1>4, <1>5, <1>6 DEF Rest

-----------------------------------------------------------------------------
(* One step of the pruning *)

\* A step that removes one thing of a capsule that is too long keeps the invariant: the
\* evidence before it is the evidence with that thing restored.
LEMMA StepIsLeast ==
  ASSUME CapsuleTypeOK, LeastSoFar, TooLong, UNCHANGED <<projected, model>>,
         DropCheck \/ DropFile \/ TrimObjective
  PROVE  LeastSoFar'
<1> DEFINE e == evidence  p == projected
<1>1. e \in Evidence /\ p \in Evidence
  BY DEF CapsuleTypeOK
<1>2. Sealed(e) > MAX_CHECKPOINT_BYTES
  BY DEF TooLong, Measured, Sealed
<1>3. CASE DropCheck
  <2>1. e.checks # <<>> /\ e.files = p.files /\ e.objective = p.objective
    BY <1>3 DEF DropCheck, LeastSoFar
  <2>2. evidence' = [e EXCEPT !.checks = Tail(e.checks)]
    BY <1>3 DEF DropCheck
  <2>3. /\ evidence'.checks = Tail(e.checks) /\ evidence'.files = e.files
        /\ evidence'.objective = e.objective
    BY <1>1, <2>2 DEF Evidence
  <2>4. e.checks \in Seq(Check) /\ p.checks \in Seq(Check) /\ Rest(e.checks, p.checks)
    BY <1>1 DEF Evidence, LeastSoFar
  <2>5. Rest(evidence'.checks, p.checks) /\ LastButOne(evidence'.checks, p.checks) = e.checks
    <3> DEFINE rest == Tail(e.checks)
    <3>1. Rest(rest, p.checks) /\ LastButOne(rest, p.checks) = e.checks /\ rest # p.checks
      BY <2>1, <2>4, TailOfRest
    <3> QED BY <2>3, <3>1
  <2>6. Before(evidence)' = e
    <3>1. Before(evidence)' = [evidence' EXCEPT !.checks = LastButOne(evidence'.checks, p.checks)]
      BY <2>1, <2>3, <2>5 DEF Before
    <3>2. ASSUME NEW x PROVE [[e EXCEPT !.checks = x] EXCEPT !.checks = e.checks] = e
      BY <1>1 DEF Evidence
    <3> QED BY <2>2, <2>5, <3>1, <3>2
  <2>7. Sealed(Before(evidence))' = Sealed(e)
    BY <2>6 DEF Sealed, EvidenceBytes, TextBytes, ListBytes, NoEvidence
  <2> QED BY <1>2, <2>1, <2>3, <2>5, <2>7 DEF LeastSoFar, Rest
<1>4. CASE DropFile
  <2>1. e.files # <<>> /\ e.checks = <<>> /\ e.objective = p.objective
    BY <1>4 DEF DropFile, LeastSoFar
  <2>2. evidence' = [e EXCEPT !.files = Tail(e.files)]
    BY <1>4 DEF DropFile
  <2>3. /\ evidence'.files = Tail(e.files) /\ evidence'.checks = e.checks
        /\ evidence'.objective = e.objective
    BY <1>1, <2>2 DEF Evidence
  <2>4. e.files \in Seq(Path) /\ p.files \in Seq(Path) /\ Rest(e.files, p.files)
    BY <1>1 DEF Evidence, LeastSoFar
  <2>5. /\ Rest(evidence'.files, p.files) /\ LastButOne(evidence'.files, p.files) = e.files
        /\ evidence'.files # p.files
    <3> DEFINE rest == Tail(e.files)
    <3>1. Rest(rest, p.files) /\ LastButOne(rest, p.files) = e.files /\ rest # p.files
      BY <2>1, <2>4, TailOfRest
    <3> QED BY <2>3, <3>1
  <2>6. Before(evidence)' = e
    <3>1. Before(evidence)' = [evidence' EXCEPT !.files = LastButOne(evidence'.files, p.files)]
      BY <2>1, <2>3, <2>5 DEF Before
    <3>2. ASSUME NEW x PROVE [[e EXCEPT !.files = x] EXCEPT !.files = e.files] = e
      BY <1>1 DEF Evidence
    <3> QED BY <2>2, <2>5, <3>1, <3>2
  <2>7. Sealed(Before(evidence))' = Sealed(e)
    BY <2>6 DEF Sealed, EvidenceBytes, TextBytes, ListBytes, NoEvidence
  <2> QED BY <1>2, <2>1, <2>3, <2>5, <2>7 DEF LeastSoFar, Rest
<1>5. CASE TrimObjective
  <2>1. /\ e.files = <<>> /\ e.checks = <<>> /\ e.objective > 0
        /\ e.objective \in Nat /\ p.objective \in Nat /\ e.objective <= p.objective
    BY <1>1, <1>5, CapsuleAssumption DEF TrimObjective, Evidence, LeastSoFar
  <2>2. evidence' = [e EXCEPT !.objective = e.objective - 1]
    BY <1>5 DEF TrimObjective
  <2>3. /\ evidence'.files = e.files /\ evidence'.checks = e.checks
        /\ evidence'.objective = e.objective - 1
    BY <1>1, <2>2 DEF Evidence
  <2>4. evidence'.objective <= p.objective /\ evidence'.objective # p.objective
    BY <2>1, <2>3
  <2>5. Before(evidence)' = e
    <3>1. Before(evidence)' = [evidence' EXCEPT !.objective = evidence'.objective + 1]
      BY <2>4 DEF Before
    <3>2. e.objective - 1 + 1 = e.objective
      BY <2>1
    <3> QED BY <1>1, <2>2, <3>1, <3>2 DEF Evidence
  <2>6. Sealed(Before(evidence))' = Sealed(e)
    BY <2>5 DEF Sealed, EvidenceBytes, TextBytes, ListBytes, NoEvidence
  <2> QED BY <1>2, <2>1, <2>3, <2>4, <2>6 DEF LeastSoFar, Rest
<1> QED BY <1>3, <1>4, <1>5

\* Every step keeps the invariant.
LEMMA StepPrune == CapsuleTypeOK /\ PruneInv /\ [CapsuleNext]_capsuleVars => PruneInv'
<1> SUFFICES ASSUME CapsuleTypeOK, PruneInv, [CapsuleNext]_capsuleVars PROVE PruneInv'
  OBVIOUS
<1>1. CASE ReadItem
  BY <1>1 DEF ReadItem, ReadMessage, ReadFileChange, ReadCommand, ReadCompaction, Read, PruneInv,
     TooLargeMeansModel
<1>2. CASE BeginBuild
  <2>1. evidence \in Evidence /\ evidence' = evidence /\ projected' = evidence /\ stage' = "pruning"
    BY <1>2 DEF BeginBuild, CapsuleTypeOK
  <2>2. Rest(evidence.checks, evidence.checks) /\ Rest(evidence.files, evidence.files)
    BY <2>1, RestOfItself DEF Evidence
  <2>3. evidence.objective <= evidence.objective
    BY <2>1, CapsuleAssumption DEF Evidence
  <2> QED BY <2>1, <2>2, <2>3 DEF PruneInv, LeastSoFar, Rest, TooLargeMeansModel
<1>3. CASE Prune
  BY <1>3, StepIsLeast DEF Prune, PruneInv, TooLargeMeansModel
<1>4. CASE NothingToPrune
  BY <1>4 DEF NothingToPrune, TooLong, Measured, PruneInv, LeastSoFar, TooLargeMeansModel, Sealed,
     Before, LastButOne, Rest
<1>5. CASE Seal
  <2>1. Sealed(evidence) = Measured(evidence) /\ ~(Sealed(evidence) > MAX_CHECKPOINT_BYTES)
    BY <1>5 DEF Seal, TooLong, Measured, Sealed
  <2>2. Sealed(evidence) \in Int /\ MAX_CHECKPOINT_BYTES \in Int
    <3>1. /\ evidence.objective \in Int /\ Len(evidence.files) \in Int /\ Len(evidence.checks) \in Int
          /\ model \in Int
      <4>1. evidence \in Evidence /\ model \in ModelBytes \union {0}
        BY DEF CapsuleTypeOK
      <4>2. model \in Int
        BY <4>1, CapsuleAssumption
      <4>3. evidence.objective \in 0..MAX_OBJECTIVE_SCALARS /\ MAX_OBJECTIVE_SCALARS \in Nat
        BY <4>1, CapsuleAssumption DEF Evidence
      <4>4. evidence.files \in Seq(Path) /\ evidence.checks \in Seq(Check)
        BY <4>1 DEF Evidence
      <4>5. Len(evidence.files) \in Int /\ Len(evidence.checks) \in Int
        BY <4>4
      <4> QED BY <4>2, <4>3, <4>5
    <3>2. HASH_BYTES \in Int /\ FILE_BYTES \in Int /\ CHECK_BYTES \in Int
          /\ KEY_BYTES \in Int /\ MAX_CHECKPOINT_BYTES \in Int
      BY CapsuleAssumption
    <3>3. Len(evidence.files) * FILE_BYTES \in Int /\ Len(evidence.checks) * CHECK_BYTES \in Int
      BY <3>1, <3>2
    <3>4. /\ ListBytes(evidence.files, FILE_BYTES) \in Int /\ ListBytes(evidence.checks, CHECK_BYTES) \in Int
          /\ TextBytes(evidence.objective) \in Int
      BY <3>1, <3>2, <3>3 DEF ListBytes, TextBytes
    <3> QED BY <3>1, <3>2, <3>4 DEF Sealed, EvidenceBytes
  <2>3. Sealed(evidence) <= MAX_CHECKPOINT_BYTES
    BY <2>1, <2>2
  <2> QED BY <1>5, <2>1, <2>3 DEF Seal, PruneInv, LeastSoFar, TooLargeMeansModel, Sealed, Before, LastButOne, Rest
<1>6. CASE UNCHANGED capsuleVars
  BY <1>6 DEF capsuleVars, PruneInv, LeastSoFar, TooLargeMeansModel, Sealed, Before, LastButOne, Rest
<1> QED BY <1>1, <1>2, <1>3, <1>4, <1>5, <1>6 DEF CapsuleNext

\* The invariant holds throughout.
LEMMA PruneInvariant == CapsuleSpec => []PruneInv
<1>1. CapsuleInit => PruneInv
  BY DEF CapsuleInit, PruneInv, TooLargeMeansModel
<1> QED BY <1>1, StepPrune, CapsuleTypeCorrect, PTL DEF CapsuleSpec

-----------------------------------------------------------------------------

\* Whatever the limit and the lengths, a capsule that is built fits, and lacks of the
\* projected evidence the fewest of the oldest checks, then of the oldest files, then
\* of the end of the objective that made it fit (checkpoint.rs:294-330).
THEOREM PruningIsLeast == CapsuleSpec => []PrunedLeast
<1>1. PruneInv => PrunedLeast
  BY DEF PruneInv, LeastSoFar, PrunedLeast
<1> QED BY <1>1, PruneInvariant, PTL

\* checkpoint_too_large is never said of a capsule that would fit without evidence
\* (checkpoint.rs:321-326, 358-363).
THEOREM TooLargeIsRight == CapsuleSpec => []TooLargeMeansModel
<1>1. PruneInv => TooLargeMeansModel
  BY DEF PruneInv
<1> QED BY <1>1, PruneInvariant, PTL
=============================================================================
