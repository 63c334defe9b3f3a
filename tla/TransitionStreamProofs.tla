------------------------- MODULE TransitionStreamProofs -------------------------
(***************************************************************************)
(* What is proved of Transition about the event stream a task or recovery  *)
(* watches, and about the turns the journal binds by it: no turn is        *)
(* swallowed, whatever is lost, repeated or late; and the compaction turn, *)
(* the capsule and the continuation are of the transition that the journal *)
(* says they are of.  That the program's compactions are spaced: what the  *)
(* preflight counts is still true when the compaction is served.  And that *)
(* all of it together implements CompactionPromise.                        *)
(***************************************************************************)
EXTENDS TransitionProofs

-----------------------------------------------------------------------------
(* The turns a process knows of and the starts still ahead of it *)

Loses(event) == event.type \in {"Lagged", "ConnectionClosed"}
Starts(event) == event.type = "TurnStarted"

\* The steps before a compaction turn is bound, and those that look for one.
Unbound ==
  {"prepare", "accept", "acceptAwait", "awaitSource", "drainSource", "readSource",
   "guardSource", "redrainSource", "saveReady", "saveSent", "sendCompact", "waitCompact"}
Binding == (Unbound \ {"prepare"}) \union {"awaitCompaction"}

\* The steps of a process that is subscribed and must not miss a turn.
Watched ==
  Binding \union ReadingCompaction \union (Injectable \ {"resume"}) \union InjectionSent
    \union Continuing

Told(p) == \E i \in 1..Len(stream[p]) : Loses(stream[p][i])

Ahead(p) ==
  \A t \in Nat : Base(p) < t /\ t <= Len(turns) =>
    \E i \in 1..Len(stream[p]) : stream[p][i] = Signal("TurnStarted", t)

\* The start of a turn is behind that of the turn before it, if that one is news too.
Ordered(p) ==
  \A i \in 1..Len(stream[p]) : Starts(stream[p][i]) =>
    /\ 0 < stream[p][i].turn /\ stream[p][i].turn <= Len(turns)
    /\ stream[p][i].turn > Base(p) + 1 =>
         \E j \in 1..Len(stream[p]) :
           /\ j < i
           /\ \/ stream[p][j] = Signal("TurnStarted", stream[p][i].turn - 1)
              \/ stream[p][j].type = "Lagged"

\* Without repetitions every start is news, and they come in order.
Increasing(p) ==
  /\ \A i \in 1..Len(stream[p]) : Starts(stream[p][i]) => stream[p][i].turn > Base(p)
  /\ \A i, j \in 1..Len(stream[p]) :
       i < j /\ Starts(stream[p][i]) /\ Starts(stream[p][j])
         => stream[p][i].turn < stream[p][j].turn

Connected(p) == conn[p] # "none" /\ (conn[p] = "closed" => Told(p))

Attentive(p) ==
  /\ Connected(p)
  /\ Told(p) \/ Ahead(p)
  /\ Base(p) <= Len(turns)
  /\ Ordered(p)
  /\ "duplicate" \notin Faults => Increasing(p)

\* What was sent before the subscription is not in the stream.
Sourced(p) ==
  /\ mem[p].compact # 0 => mem[p].compact > mem[p].source
  /\ \A i \in 1..Len(stream[p]) :
       Starts(stream[p][i]) => stream[p][i].turn >= mem[p].source

Unbroken(p) ==
  conn[p] # "closed" =>
    \A i \in 1..Len(stream[p]) : stream[p][i].type # "ConnectionClosed"

Follows(p) ==
  /\ Unbroken(p)
  /\ pc[p] \in Unbound => mem[p].compact = 0
  /\ pc[p] \in Binding => Sourced(p)
  /\ pc[p] \in Watched => Attentive(p)

StreamInv == 0 < Len(turns) /\ \A p \in Proc : Follows(p)

\* The work of p and the turn it works from stay as they are.
Unmoved(p) == pc'[p] = pc[p] /\ mem'[p] = mem[p]

\* Events are added at the end, the start of the newest turn first, if at all.
Grown(p) ==
  LET old == Len(stream[p]) IN
  /\ old <= Len(stream'[p])
  /\ \A i \in 1..old : stream'[p][i] = stream[p][i]
  /\ \A i \in 1..Len(stream'[p]) :
       i > old /\ Starts(stream'[p][i]) =>
         /\ i = old + 1 /\ stream'[p][i] = Signal("TurnStarted", Len(turns'))
         /\ conn[p] = "open" /\ 0 < Len(turns')
         /\ "duplicate" \notin Faults => Len(turns') = Len(turns) + 1
  /\ \/ Len(turns') = Len(turns)
     \/ /\ Len(turns') = Len(turns) + 1
        /\ conn[p] = "open" =>
             old < Len(stream'[p]) /\ stream'[p][old + 1] = Signal("TurnStarted", Len(turns'))
  /\ \/ conn'[p] = conn[p] /\ \A i \in 1..Len(stream'[p]) :
          i > old => stream'[p][i].type # "ConnectionClosed"
     \/ conn'[p] = "closed" /\ \E i \in 1..Len(stream'[p]) : Loses(stream'[p][i])

\* The oldest events are replaced by the news that events were lost.
Lagging(p) ==
  /\ conn'[p] = conn[p] /\ Len(turns') = Len(turns)
  /\ 0 < Len(stream'[p]) /\ stream'[p][1] = Signal("Lagged", 0)
  /\ \E n \in Nat :
       /\ Len(stream'[p]) + n <= Len(stream[p]) + 1
       /\ \A i \in 1..Len(stream'[p]) :
            i > 1 => i + n - 1 \in 1..Len(stream[p]) /\ stream'[p][i] = stream[p][i + n - 1]

\* The first events are consumed; if they hold a start, it is known or bound.
Consumed(p) ==
  /\ conn'[p] = conn[p] /\ Len(turns') = Len(turns)
  /\ \E n \in Nat :
       /\ Len(stream'[p]) + n = Len(stream[p])
       /\ \A i \in 1..Len(stream'[p]) :
            i + n \in 1..Len(stream[p]) /\ stream'[p][i] = stream[p][i + n]
       /\ \A i \in 1..n :
            ~Loses(stream[p][i]) /\ (Starts(stream[p][i]) => stream[p][i].turn <= Base(p)')
       /\ \/ Base(p)' = Base(p)
          \/ /\ n = 1 /\ Starts(stream[p][1]) /\ stream[p][1].turn = Base(p)'
             /\ Base(p) <= Base(p)'

-----------------------------------------------------------------------------
(* What each of these does to a stream *)

LEMMA StreamFacts ==
  ASSUME TypeOK, NEW p \in Proc
  PROVE  /\ stream[p] \in Seq(Event) /\ Len(stream[p]) \in Nat /\ Len(turns) \in Nat
         /\ \A i \in 1..Len(stream[p]) : stream[p][i] \in Event /\ stream[p][i].turn \in Nat
         /\ mem[p].source \in Nat /\ mem[p].compact \in Nat /\ Base(p) \in Nat
<1>1. stream[p] \in Seq(Event) /\ turns \in Seq(Turn) /\ mem[p] \in Journal
  BY DEF TypeOK, ThreadTypeOK
<1>2. \A i \in 1..Len(stream[p]) : stream[p][i] \in Event
  BY <1>1, ElementOfSeq
<1> QED
  BY <1>1, <1>2, LenProperties DEF Event, Journal, Base

LEMMA StreamFactsPrimed ==
  ASSUME TypeOK', NEW p \in Proc
  PROVE  /\ stream'[p] \in Seq(Event) /\ Len(stream'[p]) \in Nat /\ Len(turns') \in Nat
         /\ \A i \in 1..Len(stream'[p]) : stream'[p][i] \in Event /\ stream'[p][i].turn \in Nat
         /\ mem'[p].source \in Nat /\ mem'[p].compact \in Nat /\ Base(p)' \in Nat
<1>1. stream'[p] \in Seq(Event) /\ turns' \in Seq(Turn) /\ mem'[p] \in Journal
  BY DEF TypeOK, ThreadTypeOK
<1>2. \A i \in 1..Len(stream'[p]) : stream'[p][i] \in Event
  BY <1>1, ElementOfSeq
<1> QED
  BY <1>1, <1>2, LenProperties DEF Event, Journal, Base

\* The numbers that positions and turns are compared with.
LEMMA Lengths ==
  ASSUME TypeOK, TypeOK', NEW p \in Proc
  PROVE  /\ Len(stream[p]) \in Nat /\ Len(stream'[p]) \in Nat
         /\ Len(turns) \in Nat /\ Len(turns') \in Nat
         /\ Base(p) \in Nat /\ Base(p)' \in Nat
BY StreamFacts, StreamFactsPrimed

LEMMA GrownStays ==
  ASSUME TypeOK, TypeOK', NEW p \in Proc, Follows(p), Grown(p), Unmoved(p)
  PROVE  Follows(p)'
<1> DEFINE old == Len(stream[p])
<1>1. Base(p)' = Base(p)
  BY DEF Base, Unmoved
<1>2. Unbroken(p)'
  <2>1. Len(stream[p]) \in Nat /\ Len(stream'[p]) \in Nat
    BY Lengths
  <2>2. \A k, m \in Nat : \A i \in 1..m : i <= k => i \in 1..k
    OBVIOUS
  <2>3. ASSUME NEW i \in 1..Len(stream'[p]), conn'[p] # "closed"
        PROVE  stream'[p][i].type # "ConnectionClosed"
    <3>1. CASE i <= Len(stream[p])
      <4>1. i \in 1..Len(stream[p]) /\ conn[p] # "closed"
        BY <2>1, <2>2, <2>3, <3>1 DEF Grown
      <4>2. stream[p][i].type # "ConnectionClosed"
        BY <4>1 DEF Follows, Unbroken
      <4> QED
        BY <4>1, <4>2 DEF Grown
    <3>2. CASE ~(i <= Len(stream[p]))
      <4>1. i > Len(stream[p])
        BY <2>1, <3>2
      <4> QED
        BY <2>3, <4>1 DEF Grown
    <3> QED
      BY <3>1, <3>2
  <2> QED
    BY <2>3 DEF Unbroken
<1>3. pc'[p] \in Unbound => mem'[p].compact = 0
  BY DEF Follows, Unmoved
<1>4. ASSUME pc'[p] \in Watched
      PROVE  Attentive(p)'
  <2>1. Attentive(p)
    BY <1>4 DEF Follows, Unmoved
  <2>2. \A i \in 1..Len(stream[p]) : i \in 1..Len(stream'[p]) /\ stream'[p][i] = stream[p][i]
    BY StreamFacts, StreamFactsPrimed DEF Grown
  <2>3. Told(p) => Told(p)'
    BY <2>2 DEF Told
  <2>4. Connected(p)'
    BY <2>1, <2>3 DEF Grown, Attentive, Connected, Told
  <2>5. Told(p)' \/ Ahead(p)'
    <3>1. SUFFICES ASSUME ~Told(p)'
                   PROVE  Ahead(p)'
      OBVIOUS
    <3>2. Ahead(p) /\ conn[p] = "open"
      BY <2>1, <2>3, <3>1 DEF Attentive, Connected, TypeOK, ThreadTypeOK
    <3>3. ASSUME NEW t \in Nat, Base(p)' < t, t <= Len(turns')
          PROVE  \E i \in 1..Len(stream'[p]) : stream'[p][i] = Signal("TurnStarted", t)
      <4>1. CASE t <= Len(turns)
        BY <1>1, <2>2, <3>2, <3>3, <4>1 DEF Ahead
      <4>2. CASE ~(t <= Len(turns))
        <5>1. t = Len(turns') /\ Len(turns') = Len(turns) + 1
          BY <3>3, <4>2, StreamFacts, StreamFactsPrimed DEF Grown
        <5>2. old + 1 \in 1..Len(stream'[p]) /\ stream'[p][old + 1] = Signal("TurnStarted", t)
          BY <3>2, <5>1, StreamFacts, StreamFactsPrimed DEF Grown
        <5> QED
          BY <5>2
      <4> QED
        BY <4>1, <4>2
    <3> QED
      BY <3>3 DEF Ahead
  <2>6. (Base(p) <= Len(turns))'
    BY <1>1, <2>1, StreamFacts, StreamFactsPrimed DEF Grown, Attentive
  <2>7. Ordered(p)'
    <3>1. SUFFICES ASSUME NEW i \in 1..Len(stream'[p]), Starts(stream'[p][i])
                   PROVE  /\ 0 < stream'[p][i].turn /\ stream'[p][i].turn <= Len(turns')
                          /\ stream'[p][i].turn > Base(p)' + 1 =>
                               \E j \in 1..Len(stream'[p]) :
                                 /\ j < i
                                 /\ \/ stream'[p][j] =
                                         Signal("TurnStarted", stream'[p][i].turn - 1)
                                    \/ stream'[p][j].type = "Lagged"
      BY DEF Ordered
    <3>2. CASE i <= old
      <4>1. i \in 1..Len(stream[p]) /\ stream'[p][i] = stream[p][i]
        BY <2>2, <3>2, StreamFacts, StreamFactsPrimed
      <4>2. Len(turns) <= Len(turns')
        BY StreamFacts, StreamFactsPrimed DEF Grown
      <4>3. 0 < stream[p][i].turn /\ stream[p][i].turn <= Len(turns)
        BY <2>1, <3>1, <4>1 DEF Attentive, Ordered
      <4>4. stream[p][i].turn > Base(p) + 1 =>
              \E j \in 1..Len(stream[p]) :
                /\ j < i
                /\ \/ stream[p][j] = Signal("TurnStarted", stream[p][i].turn - 1)
                   \/ stream[p][j].type = "Lagged"
        BY <2>1, <3>1, <4>1 DEF Attentive, Ordered
      <4>5. stream[p][i].turn \in Nat /\ Len(turns) \in Nat /\ Len(turns') \in Nat
        BY <4>1, StreamFacts, StreamFactsPrimed
      <4>6. 0 < stream'[p][i].turn /\ stream'[p][i].turn <= Len(turns')
        BY <4>1, <4>2, <4>3, <4>5
      <4> QED
        BY <1>1, <2>2, <4>1, <4>4, <4>6
    <3>3. CASE ~(i <= old)
      <4>1. /\ i = old + 1 /\ stream'[p][i] = Signal("TurnStarted", Len(turns'))
            /\ conn[p] = "open" /\ 0 < Len(turns')
        BY <3>1, <3>3, StreamFacts, StreamFactsPrimed DEF Grown
      <4>2. stream'[p][i].turn = Len(turns')
        BY <4>1 DEF Signal
      <4>3. CASE Told(p)
        <5>1. PICK j \in 1..Len(stream[p]) : Loses(stream[p][j])
          BY <4>3 DEF Told
        <5>2. stream[p][j].type = "Lagged"
          BY <4>1, <5>1 DEF Follows, Unbroken, Loses
        <5>3. j \in 1..Len(stream'[p]) /\ j < i /\ stream'[p][j].type = "Lagged"
          BY <2>2, <4>1, <5>2, StreamFacts
        <5> QED
          BY <4>1, <4>2, <5>3, StreamFactsPrimed
      <4>4. CASE ~Told(p)
        <5>1. Ahead(p)
          BY <2>1, <4>4 DEF Attentive
        <5>2. ASSUME Len(turns') > Base(p)' + 1
              PROVE  \E j \in 1..Len(stream'[p]) :
                       j < i /\ stream'[p][j] = Signal("TurnStarted", Len(turns') - 1)
          <6>1. Len(turns') - 1 \in Nat /\ Base(p) < Len(turns') - 1
                /\ Len(turns') - 1 <= Len(turns)
            BY <1>1, <5>2, StreamFacts, StreamFactsPrimed DEF Grown
          <6>2. PICK j \in 1..Len(stream[p]) :
                  stream[p][j] = Signal("TurnStarted", Len(turns') - 1)
            BY <5>1, <6>1 DEF Ahead
          <6>3. j \in 1..Len(stream'[p]) /\ j < i
            BY <2>2, <4>1, StreamFacts
          <6> QED
            BY <2>2, <6>2, <6>3
        <5> QED
          BY <4>1, <4>2, <5>2, StreamFactsPrimed
      <4> QED
        BY <4>3, <4>4
    <3> QED
      BY <3>2, <3>3
  <2>8. ASSUME "duplicate" \notin Faults
        PROVE  Increasing(p)'
    <3>1. Increasing(p)
      BY <2>1, <2>8 DEF Attentive
    <3>2. ASSUME NEW i \in 1..Len(stream'[p]), Starts(stream'[p][i])
          PROVE  \/ /\ i \in 1..old /\ stream'[p][i] = stream[p][i]
                    /\ stream[p][i].turn > Base(p) /\ stream[p][i].turn <= Len(turns)
                 \/ i = old + 1 /\ stream'[p][i].turn = Len(turns) + 1
      <4>1. CASE i <= old
        <5>1. i \in 1..old
          BY <4>1, StreamFacts, StreamFactsPrimed
        <5> QED
          BY <2>1, <2>2, <3>1, <3>2, <5>1 DEF Increasing, Attentive, Ordered
      <4>2. CASE ~(i <= old)
        BY <2>8, <3>2, <4>2, StreamFacts, StreamFactsPrimed DEF Grown, Signal
      <4> QED
        BY <4>1, <4>2
    <3>3. Base(p) <= Len(turns) /\ Base(p) \in Nat /\ Len(turns) \in Nat /\ old \in Nat
      BY <2>1, StreamFacts DEF Attentive
    <3>4. \A i \in 1..Len(stream'[p]) :
            Starts(stream'[p][i]) => stream'[p][i].turn > Base(p)'
      BY <1>1, <3>2, <3>3
    <3>5. ASSUME NEW i \in 1..Len(stream'[p]), NEW j \in 1..Len(stream'[p]), i < j,
                 Starts(stream'[p][i]), Starts(stream'[p][j])
          PROVE  stream'[p][i].turn < stream'[p][j].turn
      <4>1. CASE j \in 1..old
        <5>1. i \in 1..old
          BY <3>5, <4>1, <3>3, StreamFactsPrimed
        <5> QED
          BY <2>2, <3>1, <3>5, <4>1, <5>1 DEF Increasing
      <4>2. CASE j = old + 1 /\ stream'[p][j].turn = Len(turns) + 1
        <5>1. i # old + 1
          BY <3>5, <4>2, <3>3, StreamFactsPrimed
        <5>2. stream'[p][i].turn <= Len(turns) /\ stream'[p][i].turn \in Nat
          BY <3>2, <3>5, <5>1, StreamFactsPrimed
        <5> QED
          BY <4>2, <5>2, <3>3
      <4> QED
        BY <3>2, <3>5, <4>1, <4>2
    <3> QED
      BY <3>4, <3>5 DEF Increasing
  <2> QED
    BY <2>4, <2>5, <2>6, <2>7, <2>8 DEF Attentive
<1>5. ASSUME pc'[p] \in Binding
      PROVE  Sourced(p)'
  <2>1. Sourced(p) /\ Attentive(p)
    BY <1>5 DEF Follows, Unmoved, Watched
  <2>2. mem[p].source <= Base(p) /\ Base(p) <= Len(turns)
    BY <2>1, StreamFacts DEF Sourced, Base, Attentive
  <2>3. Len(turns) <= Len(turns') /\ mem[p].source <= Len(turns')
    BY <2>2, StreamFacts, StreamFactsPrimed DEF Grown
  <2>4. ASSUME NEW i \in 1..Len(stream'[p]), Starts(stream'[p][i])
        PROVE  stream'[p][i].turn >= mem[p].source
    <3>1. CASE i <= old
      <4>1. i \in 1..Len(stream[p]) /\ stream'[p][i] = stream[p][i]
        BY <3>1, StreamFacts, StreamFactsPrimed DEF Grown
      <4> QED
        BY <2>1, <2>4, <4>1 DEF Sourced
    <3>2. CASE ~(i <= old)
      <4>1. stream'[p][i].turn = Len(turns')
        BY <2>4, <3>2, StreamFacts, StreamFactsPrimed DEF Grown, Signal
      <4> QED
        BY <2>3, <4>1, StreamFacts, StreamFactsPrimed
    <3> QED
      BY <3>1, <3>2
  <2> QED
    BY <2>1, <2>4 DEF Sourced, Unmoved
<1> QED
  BY <1>2, <1>3, <1>4, <1>5 DEF Follows

LEMMA LaggingStays ==
  ASSUME TypeOK, TypeOK', NEW p \in Proc, Follows(p), Lagging(p), Unmoved(p)
  PROVE  Follows(p)'
<1> USE DEF Unmoved
<1>1. Base(p)' = Base(p)
  BY DEF Base
<1>2. Signal("Lagged", 0).type = "Lagged"
  BY DEF Signal
<1>3. \A i \in 1..Len(stream'[p]) :
        \/ i = 1 /\ stream'[p][i].type = "Lagged"
        \/ i > 1 /\ \E k \in 1..Len(stream[p]) : stream'[p][i] = stream[p][k]
  <2>1. PICK n \in Nat :
          \A i \in 1..Len(stream'[p]) :
            i > 1 => i + n - 1 \in 1..Len(stream[p]) /\ stream'[p][i] = stream[p][i + n - 1]
    BY DEF Lagging
  <2>2. \A m \in Nat : \A i \in 1..m : i = 1 \/ i > 1
    OBVIOUS
  <2>3. \A i \in 1..Len(stream'[p]) : i = 1 \/ i > 1
    BY <2>2, Lengths
  <2>4. stream'[p][1].type = "Lagged"
    BY <1>2 DEF Lagging
  <2> QED
    BY <2>1, <2>3, <2>4
<1>4. 1 \in 1..Len(stream'[p]) /\ stream'[p][1].type = "Lagged"
  BY <1>2, StreamFactsPrimed DEF Lagging
<1>5. Told(p)'
  BY <1>4 DEF Told, Loses
<1>6. Unbroken(p)'
  BY <1>3 DEF Lagging, Follows, Unbroken
<1>7. ASSUME pc'[p] \in Watched
      PROVE  Attentive(p)'
  <2>1. Attentive(p)
    BY <1>7 DEF Follows
  <2>2. Connected(p)'
    BY <1>5, <2>1 DEF Lagging, Attentive, Connected
  <2>3. (Base(p) <= Len(turns))'
    BY <1>1, <2>1 DEF Lagging, Attentive
  <2>4. Ordered(p)'
    <3>1. SUFFICES ASSUME NEW i \in 1..Len(stream'[p]), Starts(stream'[p][i])
                   PROVE  /\ 0 < stream'[p][i].turn /\ stream'[p][i].turn <= Len(turns')
                          /\ \E j \in 1..Len(stream'[p]) :
                               j < i /\ stream'[p][j].type = "Lagged"
      BY DEF Ordered
    <3>2. i > 1 /\ \E k \in 1..Len(stream[p]) : stream'[p][i] = stream[p][k]
      BY <1>3, <3>1 DEF Starts
    <3> QED
      BY <1>4, <2>1, <3>1, <3>2 DEF Lagging, Attentive, Ordered
  <2>5. ASSUME "duplicate" \notin Faults
        PROVE  Increasing(p)'
    <3>1. Increasing(p)
      BY <2>1, <2>5 DEF Attentive
    <3>2. PICK n \in Nat :
            \A i \in 1..Len(stream'[p]) :
              i > 1 => i + n - 1 \in 1..Len(stream[p]) /\ stream'[p][i] = stream[p][i + n - 1]
      BY DEF Lagging
    <3>3. \A i \in 1..Len(stream'[p]) : Starts(stream'[p][i]) => i > 1
      BY <1>3 DEF Starts
    <3>4. \A i \in 1..Len(stream'[p]) :
            Starts(stream'[p][i]) => stream'[p][i].turn > Base(p)'
      BY <1>1, <3>1, <3>2, <3>3 DEF Increasing
    <3>5. ASSUME NEW i \in 1..Len(stream'[p]), NEW j \in 1..Len(stream'[p]), i < j,
                 Starts(stream'[p][i]), Starts(stream'[p][j])
          PROVE  stream'[p][i].turn < stream'[p][j].turn
      <4>1. /\ i + n - 1 \in 1..Len(stream[p]) /\ stream'[p][i] = stream[p][i + n - 1]
            /\ j + n - 1 \in 1..Len(stream[p]) /\ stream'[p][j] = stream[p][j + n - 1]
        BY <3>2, <3>3, <3>5
      <4>2. i + n - 1 < j + n - 1
        BY <3>5, StreamFactsPrimed
      <4> QED
        BY <3>1, <3>5, <4>1, <4>2 DEF Increasing
    <3> QED
      BY <3>4, <3>5 DEF Increasing
  <2> QED
    BY <1>5, <2>2, <2>3, <2>4, <2>5 DEF Attentive
<1>8. ASSUME pc'[p] \in Binding
      PROVE  Sourced(p)'
  BY <1>3, <1>8 DEF Follows, Sourced, Starts
<1> QED
  BY <1>6, <1>7, <1>8 DEF Follows

\* A process that goes on watching keeps what it needs of its stream.
LEMMA ConsumedStays ==
  ASSUME TypeOK, TypeOK', NEW p \in Proc, Attentive(p), Consumed(p)
  PROVE  Attentive(p)'
<1>1. PICK n \in Nat :
        /\ Len(stream'[p]) + n = Len(stream[p])
        /\ \A i \in 1..Len(stream'[p]) :
             i + n \in 1..Len(stream[p]) /\ stream'[p][i] = stream[p][i + n]
        /\ \A i \in 1..n :
             ~Loses(stream[p][i]) /\ (Starts(stream[p][i]) => stream[p][i].turn <= Base(p)')
        /\ \/ Base(p)' = Base(p)
           \/ /\ n = 1 /\ Starts(stream[p][1]) /\ stream[p][1].turn = Base(p)'
              /\ Base(p) <= Base(p)'
  BY DEF Consumed
<1>2. \A i \in 1..Len(stream[p]) :
        \/ i \in 1..n
        \/ i - n \in 1..Len(stream'[p]) /\ stream'[p][i - n] = stream[p][i]
  BY <1>1, StreamFacts, StreamFactsPrimed
<1>3. Base(p) <= Base(p)'
  BY <1>1, StreamFacts
<1>4. Told(p) => Told(p)'
  <2>1. ASSUME NEW i \in 1..Len(stream[p]), Loses(stream[p][i])
        PROVE  Told(p)'
    BY <1>1, <1>2, <2>1 DEF Told
  <2> QED
    BY <2>1 DEF Told
<1>5. Connected(p)'
  BY <1>4 DEF Attentive, Connected, Consumed
<1>6. Told(p)' \/ Ahead(p)'
  <2>1. SUFFICES ASSUME Ahead(p), NEW t \in Nat, Base(p)' < t, t <= Len(turns')
                 PROVE  \E i \in 1..Len(stream'[p]) : stream'[p][i] = Signal("TurnStarted", t)
    BY <1>4 DEF Attentive, Ahead
  <2>2. Base(p) < t /\ t <= Len(turns)
    BY <1>3, <2>1, StreamFacts, StreamFactsPrimed DEF Consumed
  <2>3. PICK i \in 1..Len(stream[p]) : stream[p][i] = Signal("TurnStarted", t)
    BY <2>1, <2>2 DEF Ahead
  <2>4. Starts(stream[p][i]) /\ stream[p][i].turn = t
    BY <2>3 DEF Signal, Starts
  <2>5. i \notin 1..n
    BY <1>1, <2>1, <2>4, StreamFactsPrimed
  <2> QED
    BY <1>2, <2>3, <2>5
<1>7. (Base(p) <= Len(turns))'
  <2>1. ASSUME Starts(stream[p][1]), stream[p][1].turn = Base(p)', n = 1
        PROVE  Base(p)' <= Len(turns)
    <3>1. 1 \in 1..Len(stream[p])
      BY <1>1, <2>1, StreamFacts, StreamFactsPrimed
    <3> QED
      BY <2>1, <3>1 DEF Attentive, Ordered
  <2> QED
    BY <1>1, <2>1 DEF Attentive, Consumed
<1>8. Ordered(p)'
  <2>1. SUFFICES ASSUME NEW i \in 1..Len(stream'[p]), Starts(stream'[p][i])
                 PROVE  /\ 0 < stream'[p][i].turn /\ stream'[p][i].turn <= Len(turns')
                        /\ stream'[p][i].turn > Base(p)' + 1 =>
                             \E j \in 1..Len(stream'[p]) :
                               /\ j < i
                               /\ \/ stream'[p][j] =
                                       Signal("TurnStarted", stream'[p][i].turn - 1)
                                  \/ stream'[p][j].type = "Lagged"
    BY DEF Ordered
  <2>2. i + n \in 1..Len(stream[p]) /\ stream'[p][i] = stream[p][i + n]
    BY <1>1
  <2>3. 0 < stream'[p][i].turn /\ stream'[p][i].turn <= Len(turns')
    BY <2>1, <2>2 DEF Attentive, Ordered, Consumed
  <2>4. ASSUME stream'[p][i].turn > Base(p)' + 1
        PROVE  \E j \in 1..Len(stream'[p]) :
                 /\ j < i
                 /\ \/ stream'[p][j] = Signal("TurnStarted", stream'[p][i].turn - 1)
                    \/ stream'[p][j].type = "Lagged"
    <3>1. stream[p][i + n].turn > Base(p) + 1
      <4>1. \A a, b, t \in Nat : a <= b /\ t > b + 1 => t > a + 1
        OBVIOUS
      <4>2. stream'[p][i].turn \in Nat /\ Base(p) \in Nat /\ Base(p)' \in Nat
        BY <2>1, Lengths, StreamFactsPrimed
      <4> QED
        BY <1>3, <2>2, <2>4, <4>1, <4>2
    <3>2. PICK j \in 1..Len(stream[p]) :
            /\ j < i + n
            /\ \/ stream[p][j] = Signal("TurnStarted", stream[p][i + n].turn - 1)
               \/ stream[p][j].type = "Lagged"
      BY <2>1, <2>2, <3>1 DEF Attentive, Ordered
    <3>3. j \notin 1..n
      <4>1. CASE stream[p][j].type = "Lagged"
        BY <1>1, <4>1 DEF Loses
      <4>2. CASE stream[p][j] = Signal("TurnStarted", stream[p][i + n].turn - 1)
        <5>1. Starts(stream[p][j]) /\ stream[p][j].turn = stream'[p][i].turn - 1
          BY <2>2, <4>2 DEF Signal, Starts
        <5>2. stream[p][j].turn > Base(p)'
          BY <2>4, <5>1, StreamFactsPrimed
        <5>3. ~(stream[p][j].turn <= Base(p)')
          BY <5>2, StreamFacts, StreamFactsPrimed
        <5> QED
          BY <1>1, <5>1, <5>3
      <4> QED
        BY <3>2, <4>1, <4>2
    <3>4. j - n \in 1..Len(stream'[p]) /\ stream'[p][j - n] = stream[p][j] /\ j - n < i
      BY <1>2, <3>2, <3>3, StreamFacts, StreamFactsPrimed
    <3> QED
      BY <2>2, <3>2, <3>4
  <2> QED
    BY <2>3, <2>4
<1>9. ASSUME "duplicate" \notin Faults
      PROVE  Increasing(p)'
  <2>1. Increasing(p)
    BY <1>9 DEF Attentive
  <2>2. ASSUME NEW i \in 1..Len(stream'[p]), Starts(stream'[p][i])
        PROVE  stream'[p][i].turn > Base(p)'
    <3>1. i + n \in 1..Len(stream[p]) /\ stream'[p][i] = stream[p][i + n]
      BY <1>1
    <3>2. CASE Base(p)' = Base(p)
      BY <2>1, <2>2, <3>1, <3>2 DEF Increasing
    <3>3. CASE n = 1 /\ Starts(stream[p][1]) /\ stream[p][1].turn = Base(p)'
      <4>1. 1 \in 1..Len(stream[p]) /\ 1 < i + n
        BY <3>1, <3>3, StreamFacts, StreamFactsPrimed
      <4>2. stream[p][1].turn < stream[p][i + n].turn
        BY <2>1, <2>2, <3>1, <3>3, <4>1 DEF Increasing
      <4> QED
        BY <3>1, <3>3, <4>1, <4>2, StreamFacts, StreamFactsPrimed
    <3> QED
      BY <1>1, <3>2, <3>3
  <2>3. ASSUME NEW i \in 1..Len(stream'[p]), NEW j \in 1..Len(stream'[p]), i < j,
               Starts(stream'[p][i]), Starts(stream'[p][j])
        PROVE  stream'[p][i].turn < stream'[p][j].turn
    <3>1. /\ i + n \in 1..Len(stream[p]) /\ stream'[p][i] = stream[p][i + n]
          /\ j + n \in 1..Len(stream[p]) /\ stream'[p][j] = stream[p][j + n]
          /\ i + n < j + n
      <4>1. i \in Nat /\ j \in Nat
        BY <2>3, Lengths
      <4>2. i + n < j + n
        BY <2>3, <4>1
      <4> QED
        BY <1>1, <2>3, <4>2
    <3> QED
      BY <2>1, <2>3, <3>1 DEF Increasing
  <2> QED
    BY <2>2, <2>3 DEF Increasing
<1> QED
  BY <1>5, <1>6, <1>7, <1>8, <1>9 DEF Attentive

\* A process that has just subscribed, with the turn it works from the newest.
LEMMA FreshAttentive ==
  ASSUME TypeOK', NEW p \in Proc, conn'[p] = "open", stream'[p] = <<>>, Base(p)' = Len(turns')
  PROVE  Attentive(p)'
<1>1. Len(stream'[p]) = 0 /\ Len(turns') \in Nat
  BY StreamFactsPrimed
<1>2. 1..Len(stream'[p]) = {}
  BY <1>1
<1>3. Connected(p)' /\ Ahead(p)' /\ (Base(p) <= Len(turns))' /\ Ordered(p)' /\ Increasing(p)'
  BY <1>1, <1>2 DEF Connected, Ahead, Ordered, Increasing
<1> QED
  BY <1>3 DEF Attentive

-----------------------------------------------------------------------------
(* Steps of the thread *)

LEMMA Added ==
  ASSUME NEW S, NEW s \in Seq(S), NEW e \in S
  PROVE  /\ Len(s \o <<e>>) = Len(s) + 1 /\ (s \o <<e>>)[Len(s) + 1] = e
         /\ \A i \in 1..Len(s) : (s \o <<e>>)[i] = s[i]
         /\ Append(s, e) = s \o <<e>>
<1>1. <<e>> \in Seq(S) /\ Len(<<e>>) = 1 /\ <<e>>[1] = e /\ Len(s) \in Nat
  BY LenProperties
<1>2. /\ Len(s \o <<e>>) = Len(s) + 1
      /\ \A i \in 1..(Len(s) + 1) :
           (s \o <<e>>)[i] = IF i <= Len(s) THEN s[i] ELSE <<e>>[i - Len(s)]
  BY <1>1, ConcatProperties
<1>3. (s \o <<e>>)[Len(s) + 1] = e
  BY <1>1, <1>2
<1>4. \A i \in 1..Len(s) : (s \o <<e>>)[i] = s[i]
  BY <1>1, <1>2
<1> QED
  BY <1>2, <1>3, <1>4, AppendIsConcat

LEMMA AddedTwo ==
  ASSUME NEW S, NEW s \in Seq(S), NEW e \in S, NEW f \in S
  PROVE  /\ Len(s \o <<e, f>>) = Len(s) + 2
         /\ (s \o <<e, f>>)[Len(s) + 1] = e /\ (s \o <<e, f>>)[Len(s) + 2] = f
         /\ \A i \in 1..Len(s) : (s \o <<e, f>>)[i] = s[i]
<1>1. /\ <<e, f>> \in Seq(S) /\ Len(<<e, f>>) = 2 /\ <<e, f>>[1] = e /\ <<e, f>>[2] = f
      /\ Len(s) \in Nat
  BY LenProperties
<1>2. /\ Len(s \o <<e, f>>) = Len(s) + 2
      /\ \A i \in 1..(Len(s) + 2) :
           (s \o <<e, f>>)[i] = IF i <= Len(s) THEN s[i] ELSE <<e, f>>[i - Len(s)]
  BY <1>1, ConcatProperties
<1>3. (s \o <<e, f>>)[Len(s) + 1] = e /\ (s \o <<e, f>>)[Len(s) + 2] = f
  BY <1>1, <1>2
<1>4. \A i \in 1..Len(s) : (s \o <<e, f>>)[i] = s[i]
  BY <1>1, <1>2
<1> QED
  BY <1>2, <1>3, <1>4

LEMMA PutFirst ==
  ASSUME NEW S, NEW s \in Seq(S), NEW head \in Seq(S), Len(head) = 1
  PROVE  /\ Len(head \o s) = Len(s) + 1 /\ (head \o s)[1] = head[1]
         /\ \A i \in 1..Len(head \o s) :
              i > 1 => i - 1 \in 1..Len(s) /\ (head \o s)[i] = s[i - 1]
<1>1. Len(s) \in Nat
  BY LenProperties
<1>2. /\ Len(head \o s) = 1 + Len(s)
      /\ \A i \in 1..(1 + Len(s)) :
           (head \o s)[i] = IF i <= 1 THEN head[i] ELSE s[i - 1]
  <2>1. /\ Len(head \o s) = Len(head) + Len(s)
        /\ \A i \in 1..(Len(head) + Len(s)) :
             (head \o s)[i] = IF i <= Len(head) THEN head[i] ELSE s[i - Len(head)]
    BY ConcatProperties
  <2> QED
    BY <2>1
<1>3. (head \o s)[1] = head[1]
  BY <1>1, <1>2
<1>4. \A i \in 1..Len(head \o s) :
        i > 1 => i - 1 \in 1..Len(s) /\ (head \o s)[i] = s[i - 1]
  BY <1>1, <1>2
<1> QED
  BY <1>1, <1>2, <1>3, <1>4

LEMMA FirstReplaced ==
  ASSUME NEW S, NEW s \in Seq(S), NEW head \in Seq(S), Len(head) = 1, NEW n \in 1..Len(s)
  PROVE  LET r == head \o SubSeq(s, n + 1, Len(s)) IN
         /\ r[1] = head[1] /\ 0 < Len(r) /\ Len(r) + n = Len(s) + 1
         /\ \A i \in 1..Len(r) : i > 1 => i + n - 1 \in 1..Len(s) /\ r[i] = s[i + n - 1]
<1> DEFINE r == head \o SubSeq(s, n + 1, Len(s))
<1> DEFINE tail == SubSeq(s, n + 1, Len(s))
<1>1. Len(s) \in Nat /\ n \in Nat /\ n <= Len(s) /\ n + 1 \in Int /\ Len(s) \in Int
  BY LenProperties
<1>2. \A i \in (n + 1)..Len(s) : s[i] \in S
  BY <1>1, ElementOfSeq
<1>3. /\ tail \in Seq(S)
      /\ Len(tail) = IF n + 1 <= Len(s) THEN Len(s) - (n + 1) + 1 ELSE 0
      /\ \A i \in 1..(Len(s) - (n + 1) + 1) : tail[i] = s[n + 1 + i - 1]
  BY <1>1, <1>2, SubSeqProperties
<1> HIDE DEF tail, r
<1>4. Len(tail) = Len(s) - n
  BY <1>1, <1>3
<1>5. \A i \in 1..Len(tail) : tail[i] = s[i + n]
  <2>1. SUFFICES ASSUME NEW i \in 1..Len(tail)
                 PROVE  tail[i] = s[i + n]
    OBVIOUS
  <2>2. i \in 1..(Len(s) - (n + 1) + 1) /\ n + 1 + i - 1 = i + n
    BY <1>1, <1>4
  <2> QED
    BY <1>3, <2>2
<1>6. r = head \o tail
  BY DEF tail, r
<1>7. /\ Len(r) = Len(tail) + 1 /\ r[1] = head[1]
      /\ \A i \in 1..Len(r) : i > 1 => i - 1 \in 1..Len(tail) /\ r[i] = tail[i - 1]
  BY <1>3, <1>6, PutFirst
<1>8. ASSUME NEW i \in 1..Len(r), i > 1
      PROVE  i + n - 1 \in 1..Len(s) /\ r[i] = s[i + n - 1]
  <2>1. i - 1 \in 1..Len(tail) /\ r[i] = tail[i - 1]
    BY <1>7, <1>8
  <2>2. (i - 1) + n = i + n - 1 /\ i + n - 1 \in 1..Len(s)
    BY <1>1, <1>4, <2>1
  <2> QED
    BY <1>5, <2>1, <2>2
<1>9. r[1] = head[1] /\ 0 < Len(r) /\ Len(r) + n = Len(s) + 1
  BY <1>1, <1>4, <1>7
<1> QED
  BY <1>8, <1>9 DEF r

LEMMA SameGrown ==
  ASSUME TypeOK, NEW p \in Proc, stream'[p] = stream[p], conn'[p] = conn[p],
         Len(turns') = Len(turns)
  PROVE  Grown(p)
<1>1. Len(stream[p]) \in Nat /\ Len(stream'[p]) = Len(stream[p])
  BY StreamFacts
<1>2. \A i \in 1..Len(stream'[p]) : ~(i > Len(stream[p]))
  BY <1>1
<1>3. Len(stream[p]) <= Len(stream'[p])
  BY <1>1
<1> QED
  BY <1>2, <1>3 DEF Grown

\* An event is added that is neither a start nor the end of the connection.
LEMMA AddedGrown ==
  ASSUME TypeOK, NEW p \in Proc, NEW event \in Event,
         ~Starts(event), event.type # "ConnectionClosed",
         stream'[p] = stream[p] \o <<event>>, conn'[p] = conn[p], Len(turns') = Len(turns)
  PROVE  Grown(p)
<1>1. /\ Len(stream'[p]) = Len(stream[p]) + 1 /\ stream'[p][Len(stream[p]) + 1] = event
      /\ \A i \in 1..Len(stream[p]) : stream'[p][i] = stream[p][i]
  BY StreamFacts, Added
<1>2. \A i \in 1..Len(stream'[p]) : i > Len(stream[p]) => stream'[p][i] = event
  BY <1>1, StreamFacts
<1>3. Len(stream[p]) <= Len(stream'[p])
  BY <1>1, StreamFacts
<1> QED
  BY <1>1, <1>2, <1>3 DEF Grown

LEMMA BroadcastGrown ==
  ASSUME TypeOK, NEW p \in Proc, NEW event \in Event, Broadcast(<<event>>),
         ~Starts(event), event.type # "ConnectionClosed",
         UNCHANGED conn, Len(turns') = Len(turns)
  PROVE  Grown(p)
<1>1. stream'[p] = stream[p] \/ stream'[p] = stream[p] \o <<event>>
  BY DEF Broadcast
<1> QED
  BY <1>1, AddedGrown, SameGrown

LEMMA StartTurnGrown ==
  ASSUME TypeOK, NEW p \in Proc, NEW origin, NEW tid, StartTurn(origin, tid), UNCHANGED conn
  PROVE  Grown(p)
<1> DEFINE started == Signal("TurnStarted", Len(turns) + 1)
           message == Signal("OtherItem", Len(turns) + 1)
           old == Len(stream[p])
<1>1. Len(turns') = Len(turns) + 1 /\ Len(turns) \in Nat
  <2>1. turns \in Seq(Turn) /\ turns' = Append(turns, NewTurn(origin, tid))
    BY DEF StartTurn, TypeOK, ThreadTypeOK
  <2> QED
    BY <2>1, LenProperties, AppendProperties
<1>2. started \in Event /\ message \in Event /\ Starts(started) /\ ~Starts(message)
      /\ message.type # "ConnectionClosed" /\ started.type # "ConnectionClosed"
      /\ started = Signal("TurnStarted", Len(turns'))
  <2>1. Len(turns) + 1 \in Nat /\ "TurnStarted" \in EventTypes /\ "OtherItem" \in EventTypes
    BY <1>1 DEF EventTypes
  <2>2. started \in Event /\ message \in Event
    BY <2>1, SignalType
  <2> QED
    BY <1>1, <2>2 DEF Signal, Starts
<1>3. \/ stream'[p] = stream[p] /\ conn[p] # "open"
      \/ stream'[p] = stream[p] \o <<started>> /\ conn[p] = "open"
      \/ stream'[p] = stream[p] \o <<started, message>> /\ conn[p] = "open"
  BY DEF StartTurn, Broadcast
<1> HIDE DEF started, message
<1>4. CASE stream'[p] = stream[p] /\ conn[p] # "open"
  BY <1>1, <1>4, StreamFacts DEF Grown
<1>5. CASE stream'[p] = stream[p] \o <<started>> /\ conn[p] = "open"
  <2>1. /\ Len(stream'[p]) = old + 1 /\ stream'[p][old + 1] = started
        /\ \A i \in 1..old : stream'[p][i] = stream[p][i]
    BY <1>2, <1>5, StreamFacts, Added
  <2>2. \A i \in 1..Len(stream'[p]) : i > old => i = old + 1
    BY <2>1, StreamFacts
  <2> QED
    BY <1>1, <1>2, <1>5, <2>1, <2>2, StreamFacts DEF Grown
<1>6. CASE stream'[p] = stream[p] \o <<started, message>> /\ conn[p] = "open"
  <2>1. /\ Len(stream'[p]) = old + 2 /\ stream'[p][old + 1] = started
        /\ stream'[p][old + 2] = message
        /\ \A i \in 1..old : stream'[p][i] = stream[p][i]
    BY <1>2, <1>6, StreamFacts, AddedTwo
  <2>2. \A i \in 1..Len(stream'[p]) : i > old => i = old + 1 \/ i = old + 2
    BY <2>1, StreamFacts
  <2>3. \A i \in 1..Len(stream'[p]) :
          i > old => /\ stream'[p][i].type # "ConnectionClosed"
                     /\ Starts(stream'[p][i]) => i = old + 1 /\ stream'[p][i] = started
    BY <1>2, <2>1, <2>2
  <2>4. 0 < Len(turns') /\ old <= Len(stream'[p]) /\ old < Len(stream'[p])
    BY <1>1, <2>1, StreamFacts
  <2> HIDE DEF old
  <2>5. conn'[p] = conn[p]
    OBVIOUS
  <2> QED
    BY <1>1, <1>2, <1>6, <2>1, <2>3, <2>4, <2>5 DEF Grown, old
<1> QED
  BY <1>3, <1>4, <1>5, <1>6

LEMMA ConnectionGrown ==
  ASSUME TypeOK, TypeOK', 0 < Len(turns), NEW p \in Proc, NEW q \in Proc,
         Disconnect(q) \/ AskClient(q) \/ Lag(q) \/ Repeat(q)
  PROVE  Grown(p) \/ Lagging(p)
<1>1. /\ turns' = turns /\ stream'[p] \in Seq(Event)
      /\ p # q => stream'[p] = stream[p] /\ conn'[p] = conn[p]
  BY StreamFactsPrimed DEF Disconnect, AskClient, Lag, Repeat, TypeOK, ThreadTypeOK
<1>2. CASE p # q
  BY <1>1, <1>2, SameGrown
<1>3. ASSUME p = q, NEW event \in Event, stream' = [stream EXCEPT ![q] = Append(@, event)]
      PROVE  /\ stream'[p] = stream[p] \o <<event>>
             /\ Len(stream'[p]) = Len(stream[p]) + 1 /\ stream'[p][Len(stream[p]) + 1] = event
             /\ \A i \in 1..Len(stream[p]) : stream'[p][i] = stream[p][i]
             /\ \A i \in 1..Len(stream'[p]) : i > Len(stream[p]) => i = Len(stream[p]) + 1
  <2> DEFINE longer == stream[p] \o <<event>>
  <2>0. /\ Len(longer) = Len(stream[p]) + 1 /\ longer[Len(stream[p]) + 1] = event
        /\ \A i \in 1..Len(stream[p]) : longer[i] = stream[p][i]
        /\ Append(stream[p], event) = longer
    BY StreamFacts, Added
  <2>1. stream'[p] = longer
    BY <1>3, <2>0 DEF TypeOK, ThreadTypeOK
  <2> HIDE DEF longer
  <2>2. /\ Len(stream'[p]) = Len(stream[p]) + 1 /\ stream'[p][Len(stream[p]) + 1] = event
        /\ \A i \in 1..Len(stream[p]) : stream'[p][i] = stream[p][i]
    BY <2>0, <2>1
  <2> QED
    BY <2>1, <2>2, StreamFacts DEF longer
<1>4. /\ Signal("ConnectionClosed", 0) \in Event /\ Signal("ServerRequest", 0) \in Event
      /\ Signal("TurnStarted", Len(turns)) \in Event
  BY StreamFacts, SignalType DEF EventTypes
<1>5. CASE p = q /\ Disconnect(q)
  <2>1. Signal("ConnectionClosed", 0).type = "ConnectionClosed"
    BY DEF Signal
  <2>2. stream' = [stream EXCEPT ![q] = Append(@, Signal("ConnectionClosed", 0))]
    BY <1>5 DEF Disconnect
  <2>3. /\ Len(stream'[p]) = Len(stream[p]) + 1
        /\ stream'[p][Len(stream[p]) + 1] = Signal("ConnectionClosed", 0)
        /\ \A i \in 1..Len(stream[p]) : stream'[p][i] = stream[p][i]
        /\ \A i \in 1..Len(stream'[p]) : i > Len(stream[p]) => i = Len(stream[p]) + 1
    BY <1>3, <1>4, <1>5, <2>2
  <2>4. conn'[p] = "closed"
    BY <1>5 DEF Disconnect, TypeOK, ThreadTypeOK
  <2>5. Len(stream[p]) + 1 \in 1..Len(stream'[p])
    BY <2>3, StreamFacts
  <2> QED
    BY <1>1, <2>1, <2>3, <2>4, <2>5, StreamFacts DEF Grown, Loses, Starts
<1>6. CASE p = q /\ AskClient(q)
  <2>1. stream' = [stream EXCEPT ![q] = Append(@, Signal("ServerRequest", 0))] /\ conn' = conn
    BY <1>6 DEF AskClient
  <2>2. ~Starts(Signal("ServerRequest", 0))
        /\ Signal("ServerRequest", 0).type # "ConnectionClosed"
    BY DEF Signal, Starts
  <2> QED
    BY <1>1, <1>3, <1>4, <1>6, <2>1, <2>2, AddedGrown
<1>7. CASE p = q /\ Repeat(q)
  <2> DEFINE again == Signal("TurnStarted", Len(turns))
  <2>1. /\ stream' = [stream EXCEPT ![q] = Append(@, again)] /\ conn' = conn
        /\ "duplicate" \in Faults /\ conn[p] = "open" /\ turns[Len(turns)].origin = "compact"
    BY <1>7 DEF Repeat
  <2>2. again.type = "TurnStarted"
    BY DEF Signal
  <2> HIDE DEF again
  <2>3. /\ Len(stream'[p]) = Len(stream[p]) + 1 /\ stream'[p][Len(stream[p]) + 1] = again
        /\ \A i \in 1..Len(stream[p]) : stream'[p][i] = stream[p][i]
        /\ \A i \in 1..Len(stream'[p]) : i > Len(stream[p]) => i = Len(stream[p]) + 1
    <3>1. again \in Event
      BY <1>4 DEF again
    <3> QED
      BY <1>3, <1>7, <2>1, <3>1
  <2>4. 0 < Len(turns')
    BY <1>1
  <2> QED
    BY <1>1, <2>1, <2>2, <2>3, <2>4, StreamFacts DEF Grown, again
<1>8. CASE p = q /\ Lag(q)
  <2>1. PICK n \in 1..Len(stream[p]) :
          stream' = [stream EXCEPT ![p] = <<Signal("Lagged", 0)>> \o SubSeq(@, n + 1, Len(@))]
    BY <1>8 DEF Lag
  <2>2. conn' = conn
    BY <1>8 DEF Lag
  <2> DEFINE head == <<Signal("Lagged", 0)>>
  <2>3. stream'[p] = head \o SubSeq(stream[p], n + 1, Len(stream[p]))
    BY <2>1 DEF TypeOK, ThreadTypeOK
  <2>4. head \in Seq(Event) /\ Len(head) = 1 /\ head[1] = Signal("Lagged", 0)
    <3>1. Signal("Lagged", 0) \in Event
      BY SignalType DEF EventTypes
    <3> QED
      BY <3>1
  <2> HIDE DEF head
  <2>5. /\ stream'[p][1] = Signal("Lagged", 0) /\ 0 < Len(stream'[p])
        /\ Len(stream'[p]) + n = Len(stream[p]) + 1
        /\ \A i \in 1..Len(stream'[p]) :
             i > 1 => i + n - 1 \in 1..Len(stream[p]) /\ stream'[p][i] = stream[p][i + n - 1]
    <3> DEFINE new == head \o SubSeq(stream[p], n + 1, Len(stream[p]))
    <3>1. stream[p] \in Seq(Event) /\ n \in 1..Len(stream[p])
      BY StreamFacts
    <3>2. /\ new[1] = head[1] /\ 0 < Len(new) /\ Len(new) + n = Len(stream[p]) + 1
          /\ \A i \in 1..Len(new) :
               i > 1 => i + n - 1 \in 1..Len(stream[p]) /\ new[i] = stream[p][i + n - 1]
      BY <2>4, <3>1, FirstReplaced, SMTT(30)
    <3> HIDE DEF new
    <3>3. stream'[p] = new
      BY <2>3 DEF new
    <3> QED
      BY <2>4, <3>2, <3>3
  <2>6. n \in Nat /\ Len(stream'[p]) + n <= Len(stream[p]) + 1
    BY <2>5, StreamFacts
  <2> QED
    BY <1>1, <2>2, <2>5, <2>6 DEF Lagging
<1> QED
  BY <1>2, <1>5, <1>6, <1>7, <1>8

LEMMA ThreadStream ==
  ASSUME TypeOK, TypeOK', 0 < Len(turns), NEW p \in Proc, ThreadNext
  PROVE  Grown(p) \/ Lagging(p)
<1>0. HistoryOK /\ Len(turns) \in Nat
  BY StreamFacts, TypeParts
<1>1. CASE UserTurn
  BY <1>1, StartTurnGrown DEF UserTurn
<1>2. CASE ServeRequest
  <2>1. PICK request : ServeCompact(request) \/ ServeStart(request) \/ ServeInject(request)
                       \/ Refuse(request)
    BY <1>2 DEF ServeRequest
  <2>2. conn' = conn
    BY <1>2 DEF ServeRequest
  <2> QED
    BY <2>1, <2>2, StartTurnGrown, SameGrown DEF ServeCompact, ServeStart, ServeInject, Refuse
<1>3. CASE EndTurn
  <2>1. PICK ok \in BOOLEAN, tail \in Tails :
          /\ turns' = [turns EXCEPT ![Len(turns)].status =
                                       IF ok THEN "completed" ELSE "failed",
                                    ![Len(turns)].tail = tail]
          /\ Broadcast(<<[Signal("TurnCompleted", Len(turns)) EXCEPT !.ok = ok]>>)
    BY <1>3 DEF EndTurn, Verdicts, Tails
  <2> DEFINE event == [Signal("TurnCompleted", Len(turns)) EXCEPT !.ok = ok]
  <2>2. Len(turns') = Len(turns)
    BY <1>0, <2>1 DEF HistoryOK
  <2>3. event \in Event /\ event.type = "TurnCompleted"
    BY <1>0 DEF Signal, Event, EventTypes
  <2>4. Broadcast(<<event>>) /\ conn' = conn
    BY <1>3, <2>1 DEF EndTurn
  <2> HIDE DEF event
  <2> QED
    BY <2>2, <2>3, <2>4, BroadcastGrown DEF Starts
<1>4. CASE CompactionItemStarts
  <2> DEFINE n == Len(turns[Len(turns)].items)
             event == [Signal("CompactionStarted", Len(turns)) EXCEPT !.item = n + 1]
  <2>1. Len(turns') = Len(turns)
    BY <1>0, <1>4 DEF CompactionItemStarts, HistoryOK
  <2>2. n \in Nat
    BY <1>0, <1>4, LastTurn, LenProperties DEF CompactionItemStarts, Turn
  <2>3. event \in Event /\ event.type = "CompactionStarted"
    <3> HIDE DEF n
    <3>1. n + 1 \in Nat
      BY <2>2
    <3> QED
      BY <1>0, <3>1 DEF Signal, Event, EventTypes
  <2>4. Broadcast(<<event>>) /\ conn' = conn
    BY <1>4 DEF CompactionItemStarts
  <2> HIDE DEF event
  <2> QED
    BY <2>1, <2>3, <2>4, BroadcastGrown DEF Starts
<1>5. CASE CompactionItemEnds
  <2>1. PICK i \in 1..Len(turns[Len(turns)].items), ok \in BOOLEAN :
          /\ turns' = [turns EXCEPT ![Len(turns)].items[i] =
                                      IF ok THEN "completed" ELSE "failed"]
          /\ Broadcast(<<[Signal("CompactionCompleted", Len(turns))
                            EXCEPT !.item = i, !.ok = ok]>>)
    BY <1>5 DEF CompactionItemEnds, Verdicts
  <2> DEFINE event == [Signal("CompactionCompleted", Len(turns)) EXCEPT !.item = i, !.ok = ok]
  <2>2. Len(turns') = Len(turns)
    BY <1>0, <2>1 DEF HistoryOK
  <2>3. event \in Event /\ event.type = "CompactionCompleted"
    <3>1. i \in Nat
      <4>1. Len(turns[Len(turns)].items) \in Nat
        BY <1>0, <1>5, LastTurn, LenProperties DEF CompactionItemEnds, Turn
      <4> QED
        BY <4>1
    <3>2. Len(turns) \in Nat /\ ok \in BOOLEAN
      BY <1>0
    <3> QED
      BY <3>1, <3>2 DEF Signal, Event, EventTypes
  <2>4. Broadcast(<<event>>) /\ conn' = conn
    BY <1>5, <2>1 DEF CompactionItemEnds
  <2> HIDE DEF event
  <2> QED
    BY <2>2, <2>3, <2>4, BroadcastGrown DEF Starts
<1>6. CASE \E q \in Proc : Disconnect(q) \/ AskClient(q) \/ Lag(q) \/ Repeat(q)
  BY <1>6, ConnectionGrown
<1> QED
  BY <1>1, <1>2, <1>3, <1>4, <1>5, <1>6 DEF ThreadNext

-----------------------------------------------------------------------------
(* Steps of the process that watches *)

\* It goes on watching, with what it has consumed accounted for ...
Continues(p) ==
  /\ pc[p] \in Watched /\ pc'[p] \in Watched
  /\ pc'[p] \in Binding => pc[p] \in Binding
  /\ pc'[p] \in Unbound => pc[p] \in Unbound /\ mem'[p].compact = mem[p].compact
  /\ mem'[p].source = mem[p].source
  /\ mem'[p].compact = mem[p].compact \/ mem'[p].compact > mem[p].source
  /\ Consumed(p)

\* ... or subscribes while the turn it works from is the newest ...
Subscribes(p) ==
  /\ pc'[p] \in {"accept", "drainInject"}
  /\ conn'[p] = "open" /\ stream'[p] = <<>> /\ Base(p)' = Len(turns')
  /\ pc'[p] = "accept" => mem'[p].compact = 0

\* ... or stops watching.
Quits(p) ==
  /\ pc'[p] \notin Watched
  /\ pc'[p] = "prepare" => mem'[p].compact = 0
  /\ Unbroken(p)'

LEMMA FollowsOn ==
  ASSUME TypeOK, TypeOK', NEW p \in Proc, Follows(p),
         Continues(p) \/ Subscribes(p) \/ Quits(p)
  PROVE  Follows(p)'
<1>1. CASE Continues(p)
  <2>1. Attentive(p)'
    BY <1>1, ConsumedStays DEF Continues, Follows
  <2>2. PICK n \in Nat :
          \A i \in 1..Len(stream'[p]) :
            i + n \in 1..Len(stream[p]) /\ stream'[p][i] = stream[p][i + n]
    BY <1>1 DEF Continues, Consumed
  <2>3. conn'[p] = conn[p]
    BY <1>1 DEF Continues, Consumed
  <2>4. Unbroken(p)'
    BY <2>2, <2>3 DEF Follows, Unbroken
  <2>5. pc'[p] \in Binding => Sourced(p)'
    BY <1>1, <2>2 DEF Continues, Follows, Sourced
  <2> QED
    BY <1>1, <2>1, <2>4, <2>5 DEF Continues, Follows
<1>2. CASE Subscribes(p)
  <2>1. Attentive(p)'
    BY <1>2, FreshAttentive DEF Subscribes
  <2>2. Len(stream'[p]) = 0
    BY <1>2 DEF Subscribes
  <2>3. 1..Len(stream'[p]) = {}
    BY <2>2
  <2>4. Unbroken(p)' /\ (mem'[p].compact = 0 => Sourced(p)')
    BY <2>3 DEF Unbroken, Sourced
  <2> QED
    BY <1>2, <2>1, <2>4 DEF Subscribes, Follows, Unbound, Binding
<1>3. CASE Quits(p)
  BY <1>3 DEF Quits, Follows, Watched, Binding
<1> QED
  BY <1>1, <1>2, <1>3

\* Nothing is consumed, or the first n events.
LEMMA SameConsumed ==
  ASSUME TypeOK, TypeOK', NEW p \in Proc, stream'[p] = stream[p], conn'[p] = conn[p],
         Len(turns') = Len(turns), Base(p)' = Base(p)
  PROVE  Consumed(p)
<1> DEFINE n == 0
<1>1. /\ n \in Nat /\ Len(stream'[p]) + n = Len(stream[p])
      /\ \A i \in 1..Len(stream'[p]) :
           i + n \in 1..Len(stream[p]) /\ stream'[p][i] = stream[p][i + n]
      /\ 1..n = {}
  BY StreamFacts
<1> QED
  BY <1>1 DEF Consumed

LEMMA ConsumeStream ==
  ASSUME TypeOK, NEW p \in Proc, NEW n \in Nat, n <= Len(stream[p]), Consume(p, n)
  PROVE  /\ Len(stream'[p]) + n = Len(stream[p])
         /\ \A i \in 1..Len(stream'[p]) :
              i + n \in 1..Len(stream[p]) /\ stream'[p][i] = stream[p][i + n]
<1> DEFINE rest == SubSeq(stream[p], n + 1, Len(stream[p]))
<1>1. stream'[p] = rest
  BY DEF Consume, TypeOK, ThreadTypeOK
<1>2. Len(stream[p]) \in Nat /\ n + 1 \in Int /\ stream[p] \in Seq(Event)
      /\ \A i \in (n + 1)..Len(stream[p]) : stream[p][i] \in Event
  BY StreamFacts
<1>3. /\ Len(rest) = IF n + 1 <= Len(stream[p]) THEN Len(stream[p]) - (n + 1) + 1 ELSE 0
      /\ \A i \in 1..(Len(stream[p]) - (n + 1) + 1) : rest[i] = stream[p][n + 1 + i - 1]
  BY <1>2, SubSeqProperties
<1> HIDE DEF rest
<1>4. Len(rest) = Len(stream[p]) - n
  BY <1>2, <1>3
<1>5. ASSUME NEW i \in 1..Len(rest)
      PROVE  i + n \in 1..Len(stream[p]) /\ rest[i] = stream[p][i + n]
  <2>1. i \in 1..(Len(stream[p]) - (n + 1) + 1) /\ n + 1 + i - 1 = i + n
        /\ i + n \in 1..Len(stream[p])
    BY <1>2, <1>4
  <2> QED
    BY <1>3, <2>1
<1> QED
  BY <1>1, <1>2, <1>4, <1>5

LEMMA ConsumeUnbroken ==
  ASSUME TypeOK, NEW p \in Proc, Follows(p), NEW n \in Nat, n <= Len(stream[p]),
         Consume(p, n), conn' = conn
  PROVE  Unbroken(p)'
BY ConsumeStream DEF Follows, Unbroken

LEMMA QuietConsumed ==
  ASSUME TypeOK, NEW p \in Proc, NEW n \in Nat, n <= Len(stream[p]), Consume(p, n),
         conn' = conn, turns' = turns, Base(p)' = Base(p),
         \A i \in 1..n :
           ~Loses(stream[p][i]) /\ (Starts(stream[p][i]) => stream[p][i].turn <= Base(p))
  PROVE  Consumed(p)
BY ConsumeStream DEF Consumed

LEMMA DrainedNumbers ==
  ASSUME TypeOK, NEW p \in Proc, NEW n \in Drained(p)
  PROVE  n \in Nat /\ n <= Len(stream[p])
<1>1. synced[p] \in Nat
  BY DEF TypeOK, ThreadTypeOK
<1> QED
  BY <1>1, StreamFacts DEF Drained

\* Consuming ends the task's watch, or goes over events that are no news to it.
LEMMA UnbrokenStays ==
  ASSUME TypeOK, NEW p \in Proc, Follows(p),
         \/ stream'[p] = stream[p] /\ conn'[p] = conn[p]
         \/ conn'[p] = "none" /\ stream'[p] = <<>>
         \/ \E n \in Nat : n <= Len(stream[p]) /\ Consume(p, n) /\ conn' = conn
  PROVE  Unbroken(p)'
<1>1. CASE stream'[p] = stream[p] /\ conn'[p] = conn[p]
  BY <1>1 DEF Follows, Unbroken
<1>2. CASE conn'[p] = "none" /\ stream'[p] = <<>>
  <2>1. Len(stream'[p]) = 0
    BY <1>2
  <2>2. 1..Len(stream'[p]) = {}
    BY <2>1
  <2> QED
    BY <2>2 DEF Unbroken
<1>3. CASE \E n \in Nat : n <= Len(stream[p]) /\ Consume(p, n) /\ conn' = conn
  BY <1>3, ConsumeUnbroken
<1> QED
  BY <1>1, <1>2, <1>3

\* From which step a watching process may go on to which.
Leads(from, to) ==
  /\ from \in Watched /\ to \in Watched
  /\ to \in Binding => from \in Binding
  /\ to \in Unbound => from \in Unbound

\* The work ends, or goes on from the same turn.
Onward(p) ==
  \/ pc'[p] \notin Watched \union {"prepare"}
  \/ /\ Leads(pc[p], pc'[p])
     /\ mem'[p].source = mem[p].source /\ mem'[p].compact = mem[p].compact

LEMMA QuitFollows ==
  ASSUME TypeOK, TypeOK', NEW p \in Proc, Follows(p),
         pc'[p] \notin Watched \union {"prepare"}, Unbroken(p)'
  PROVE  Follows(p)'
BY FollowsOn DEF Quits

LEMMA StillFollows ==
  ASSUME TypeOK, TypeOK', NEW p \in Proc, Follows(p), Onward(p), stream'[p] = stream[p],
         conn'[p] = conn[p], Len(turns') = Len(turns)
  PROVE  Follows(p)'
<1>1. CASE pc'[p] \notin Watched \union {"prepare"}
  BY <1>1, UnbrokenStays, QuitFollows
<1>2. CASE /\ Leads(pc[p], pc'[p])
           /\ mem'[p].source = mem[p].source /\ mem'[p].compact = mem[p].compact
  <2>1. Base(p)' = Base(p)
    BY <1>2 DEF Base
  <2>2. Consumed(p)
    BY <2>1, SameConsumed
  <2> QED
    BY <1>2, <2>2, FollowsOn DEF Continues, Leads
<1> QED
  BY <1>1, <1>2 DEF Onward

LEMMA ConsumedFollows ==
  ASSUME TypeOK, TypeOK', NEW p \in Proc, Follows(p), Onward(p), NEW n \in Nat,
         n <= Len(stream[p]), Consume(p, n), conn' = conn, turns' = turns,
         pc'[p] \in Watched =>
           \A i \in 1..n :
             ~Loses(stream[p][i]) /\ (Starts(stream[p][i]) => stream[p][i].turn <= Base(p))
  PROVE  Follows(p)'
<1>1. CASE pc'[p] \notin Watched \union {"prepare"}
  BY <1>1, UnbrokenStays, QuitFollows
<1>2. CASE /\ Leads(pc[p], pc'[p])
           /\ mem'[p].source = mem[p].source /\ mem'[p].compact = mem[p].compact
  <2>1. Base(p)' = Base(p)
    BY <1>2 DEF Base
  <2>2. Consumed(p)
    BY <1>2, <2>1, QuietConsumed DEF Leads
  <2> QED
    BY <1>2, <2>2, FollowsOn DEF Continues, Leads
<1> QED
  BY <1>1, <1>2 DEF Onward

\* A task that stops, or whose save fails, no longer watches.
LEMMA StopOnward ==
  ASSUME TypeOK, NEW p \in Proc, NEW code, Stop(p, code)
  PROVE  Onward(p) /\ pc'[p] \notin Watched
<1>1. pc'[p] = "finish"
  BY TypeParts DEF Stop, Goto, JournalOK
<1> QED
  BY <1>1
     DEF Onward, Watched, Binding, Unbound, ReadingCompaction, Injectable, InjectionSent,
         Continuing

LEMMA GotoOnward ==
  ASSUME TypeOK, NEW p \in Proc, NEW step, Goto(p, step), mem' = mem,
         step \notin Watched \union {"prepare"} \/ Leads(pc[p], step)
  PROVE  Onward(p)
BY TypeParts DEF Goto, JournalOK, Onward, Leads, Unbound, Binding, Watched

LEMMA StayOnward ==
  ASSUME TypeOK, NEW p \in Proc, pc' = pc, mem' = mem, pc[p] # "prepare"
  PROVE  Onward(p)
BY DEF Onward, Leads

LEMMA AdvanceOnward ==
  ASSUME TypeOK, NEW p \in Proc, NEW journal \in Journal, NEW next, NEW step,
         Advance(p, journal, next, step),
         step \notin Watched \union {"prepare"} \/ Leads(pc[p], step),
         step \in Watched => journal.source = mem[p].source /\ journal.compact = mem[p].compact
  PROVE  Onward(p)
<1> DEFINE entered == [journal EXCEPT !.state = next]
<1>1. CASE Stop(p, "Internal")
  BY <1>1, StopOnward
<1>2. CASE ~Stop(p, "Internal")
  <2>1. PICK outcome \in SaveOutcomes :
          /\ mem' = [mem EXCEPT ![p] =
                       IF outcome = "ok" THEN entered ELSE Conclude(entered, "Io")]
          /\ Goto(p, IF outcome = "ok" THEN step ELSE "finish")
    BY <1>2 DEF Advance
  <2>2. entered.source = journal.source /\ entered.compact = journal.compact
    BY DEF Journal
  <2> HIDE DEF entered
  <2>3. CASE outcome = "ok"
    BY <2>1, <2>2, <2>3, TypeParts
       DEF Goto, JournalOK, Onward, Leads, Unbound, Binding, Watched
  <2>4. CASE outcome # "ok"
    <3>1. pc'[p] = "finish"
      BY <2>1, <2>4, TypeParts DEF Goto, JournalOK
    <3> QED
      BY <3>1
         DEF Onward, Watched, Binding, Unbound, ReadingCompaction, Injectable, InjectionSent,
             Continuing
  <2> QED
    BY <2>3, <2>4
<1> QED
  BY <1>1, <1>2

LEMMA StepLeads ==
  /\ \A from \in Unbound \ {"prepare"}, to \in Watched : Leads(from, to)
  /\ \A from \in Binding, to \in Watched \ Unbound : Leads(from, to)
  /\ \A from \in Watched, to \in Watched \ Binding : Leads(from, to)
BY DEF Leads, Watched, Binding, Unbound, ReadingCompaction, Injectable, InjectionSent,
       Continuing

LEMMA HarmlessEvent ==
  ASSUME NEW event, NEW onClose \in {"SharedAppServerUnavailable", "RecoveryAmbiguous"},
         StreamError(event, onClose) = "None"
  PROVE  ~Loses(event)
BY DEF StreamError, Loses

LEMMA RejectQueuedFollows ==
  ASSUME TypeOK, TypeOK', NEW p \in Proc, Follows(p), NEW allowed \in Nat,
         allowed <= Base(p), NEW step, Leads(pc[p], step), RejectQueued(p, allowed, step)
  PROVE  Follows(p)'
<1> DEFINE code(i) == IF Competes(stream[p][i], allowed) THEN "RaceLost"
                      ELSE StreamError(stream[p][i], "SharedAppServerUnavailable")
<1>1. PICK n \in Drained(p) :
        /\ Consume(p, n)
        /\ \/ /\ \A i \in 1..n : code(i) = "None"
              /\ Goto(p, step) /\ UNCHANGED <<mem, disk>>
           \/ \E i \in 1..n : Stop(p, code(i))
  BY DEF RejectQueued
<1>2. UNCHANGED <<turns, conn>>
  BY DEF RejectQueued
<1>3. \A i \in 1..n : code(i) = "None" =>
        ~Loses(stream[p][i]) /\ (Starts(stream[p][i]) => stream[p][i].turn <= Base(p))
  BY HarmlessEvent DEF Competes, Starts
<1> HIDE DEF code
<1>4. CASE /\ \A i \in 1..n : code(i) = "None"
           /\ Goto(p, step) /\ UNCHANGED <<mem, disk>>
  BY <1>1, <1>2, <1>3, <1>4, GotoOnward, DrainedNumbers, ConsumedFollows
<1>5. CASE \E i \in 1..n : Stop(p, code(i))
  BY <1>1, <1>2, <1>5, StopOnward, DrainedNumbers, ConsumedFollows
<1> QED
  BY <1>1, <1>4, <1>5

\* A drain that finds no start and no error finds nothing that matters.
LEMMA NoneStarted ==
  ASSUME TypeOK, NEW p \in Proc, NEW n \in Drained(p), Ordered(p),
         DrainStarted(p, n).code = "None", DrainStarted(p, n).turn = 0
  PROVE  \A i \in 1..n : ~Loses(stream[p][i]) /\ ~Starts(stream[p][i])
<1> DEFINE bad == {i \in 1..n : StartedError(p, i) # "None"}
           starts == {i \in 1..n : stream[p][i].type = "TurnStarted"}
           first(S) == CHOOSE i \in S : \A j \in S : i <= j
<1>0. n \in Nat /\ n <= Len(stream[p]) /\ Len(stream[p]) \in Nat
  BY DrainedNumbers, StreamFacts
<1>1. bad \subseteq Nat /\ starts \subseteq Nat /\ starts \subseteq 1..Len(stream[p])
  BY <1>0
<1>2. ASSUME NEW S, S \subseteq Nat, S # {}
      PROVE  first(S) \in S
  BY <1>2, LeastNumber
<1>3. DrainStarted(p, n) =
        IF bad # {} THEN [code |-> StartedError(p, first(bad)), turn |-> 0]
        ELSE [code |-> "None",
              turn |-> IF starts = {} THEN 0 ELSE stream[p][first(starts)].turn]
  BY DEF DrainStarted
<1>4. \A i \in bad : StartedError(p, i) # "None"
  OBVIOUS
<1>5. \A i \in starts : 0 < stream[p][i].turn
  BY <1>1 DEF Ordered, Starts
<1>6. \A i \in 1..n : i \notin bad /\ i \notin starts =>
        ~Loses(stream[p][i]) /\ ~Starts(stream[p][i])
  BY HarmlessEvent DEF StartedError, Starts
<1> HIDE DEF bad, starts, first
<1>7. bad = {}
  <2>1. SUFFICES ASSUME bad # {} PROVE FALSE
    OBVIOUS
  <2>2. first(bad) \in bad
    BY <1>1, <1>2, <2>1
  <2>3. DrainStarted(p, n).code = StartedError(p, first(bad))
    BY <1>3, <2>1
  <2> QED
    BY <1>4, <2>2, <2>3
<1>8. starts = {}
  <2>1. SUFFICES ASSUME starts # {} PROVE FALSE
    OBVIOUS
  <2>2. first(starts) \in starts
    BY <1>1, <1>2, <2>1
  <2>3. DrainStarted(p, n).turn = stream[p][first(starts)].turn
    BY <1>3, <1>7, <2>1
  <2> QED
    BY <1>5, <2>2, <2>3
<1> QED
  BY <1>6, <1>7, <1>8

LEMMA RejectStartedFollows ==
  ASSUME TypeOK, TypeOK', NEW p \in Proc, Follows(p), NEW step, Leads(pc[p], step),
         RejectStarted(p, step)
  PROVE  Follows(p)'
<1>1. PICK n \in Drained(p) :
        /\ Consume(p, n)
        /\ \/ Stop(p, DrainStarted(p, n).code)
           \/ Stop(p, "RaceLost")
           \/ /\ DrainStarted(p, n).code = "None" /\ DrainStarted(p, n).turn = 0
              /\ Goto(p, step) /\ UNCHANGED <<mem, disk>>
  BY DEF RejectStarted
<1>2. UNCHANGED <<turns, conn>>
  BY DEF RejectStarted
<1>3. CASE \E code : Stop(p, code)
  BY <1>1, <1>2, <1>3, StopOnward, DrainedNumbers, ConsumedFollows
<1>4. CASE /\ DrainStarted(p, n).code = "None" /\ DrainStarted(p, n).turn = 0
           /\ Goto(p, step) /\ UNCHANGED <<mem, disk>>
  <2>1. Ordered(p)
    BY DEF Leads, Follows, Attentive
  <2> QED
    BY <1>1, <1>2, <1>4, <2>1, NoneStarted, GotoOnward, DrainedNumbers, ConsumedFollows
<1> QED
  BY <1>1, <1>3, <1>4

LEMMA ReadThreadFollows ==
  ASSUME TypeOK, TypeOK', NEW p \in Proc, Follows(p), NEW code, NEW step,
         Leads(pc[p], step), ReadThread(p, code, step)
  PROVE  Follows(p)'
<1>1. Onward(p)
  BY StopOnward, GotoOnward DEF ReadThread
<1> QED
  BY <1>1, StillFollows DEF ReadThread

LEMMA RecordFollows ==
  ASSUME TypeOK, TypeOK', NEW p \in Proc, Follows(p), NEW from, NEW state, NEW next,
         next \notin Watched \union {"prepare"} \/ Leads(pc[p], next),
         Record(p, from, state, next)
  PROVE  Follows(p)'
<1>1. mem[p] \in Journal
  BY TypeParts DEF JournalOK
<1>2. Onward(p)
  BY <1>1, AdvanceOnward DEF Record
<1> QED
  BY <1>2, StillFollows DEF Record, UnchangedThread, threadVars

LEMMA SendOnceFollows ==
  ASSUME TypeOK, TypeOK', NEW p \in Proc, Follows(p), NEW from, NEW method, NEW next,
         NEW code, Leads(pc[p], next), SendOnce(p, from, method, next, code)
  PROVE  Follows(p)'
<1>1. Onward(p)
  BY StopOnward, GotoOnward DEF SendOnce
<1> QED
  BY <1>1, StillFollows DEF SendOnce, UnchangedThread, threadVars

\* What the wait for the compaction turn makes of events that leave it waiting.
LEMMA VerdictQuiet ==
  ASSUME NEW journal, NEW bound, NEW event,
         CompactionVerdict(journal, bound, event) \in {"done", "turn", "item", "None"}
  PROVE  /\ ~Loses(event)
         /\ Starts(event) => \/ event.turn = journal.source
                             \/ journal.compact # 0 /\ event.turn = journal.compact
BY DEF CompactionVerdict, Competes, StreamError, Loses, Starts

LEMMA VerdictBind ==
  ASSUME NEW journal, NEW bound, NEW event, CompactionVerdict(journal, bound, event) = "bind"
  PROVE  Starts(event) /\ event.turn # journal.source /\ journal.compact = 0
BY DEF CompactionVerdict, Competes, StreamError, Starts

LEMMA BindFollows ==
  ASSUME TypeOK, TypeOK', NEW p \in Proc, Follows(p), pc[p] = "awaitCompaction",
         stream[p] # <<>>, NEW turn, stream[p][1].turn = turn, Starts(stream[p][1]),
         turn # mem[p].source, mem[p].compact = 0, Consume(p, 1), conn' = conn, turns' = turns,
         Advance(p, [mem[p] EXCEPT !.compact = turn], "AwaitCompactionItem",
                 "awaitCompaction")
  PROVE  Follows(p)'
<1>0. 1 \in 1..Len(stream[p]) /\ 1 \in Nat /\ 1 <= Len(stream[p])
  BY StreamFacts, EmptySeq
<1>1. Sourced(p) /\ turn \in Nat /\ mem[p].source \in Nat
  BY <1>0, StreamFacts DEF Follows, Binding
<1>2. turn > mem[p].source
  BY <1>0, <1>1 DEF Sourced
<1>3. Unbroken(p)'
  BY <1>0, ConsumeUnbroken
<1>4. CASE pc'[p] = "finish"
  BY <1>3, <1>4, QuitFollows
     DEF Watched, Binding, Unbound, ReadingCompaction, Injectable, InjectionSent, Continuing
<1>5. CASE pc'[p] # "finish"
  <2>1. /\ pc'[p] = "awaitCompaction"
        /\ mem'[p] = [mem[p] EXCEPT !.compact = turn, !.state = "AwaitCompactionItem"]
    BY <1>5, TypeParts DEF Advance, Stop, Goto, JournalOK
  <2>2. mem'[p].source = mem[p].source /\ mem'[p].compact = turn
    BY <2>1, TypeParts DEF JournalOK, Journal
  <2>3. Base(p)' = turn /\ Base(p) = mem[p].source
    BY <1>1, <1>2, <2>2 DEF Base
  <2>4. /\ Len(stream'[p]) + 1 = Len(stream[p])
        /\ \A i \in 1..Len(stream'[p]) :
             i + 1 \in 1..Len(stream[p]) /\ stream'[p][i] = stream[p][i + 1]
    BY <1>0, ConsumeStream
  <2>5. \A i \in 1..1 : ~Loses(stream[p][i])
                        /\ (Starts(stream[p][i]) => stream[p][i].turn <= Base(p)')
    BY <1>1, <2>3 DEF Loses, Starts
  <2>6. Base(p) <= Base(p)'
    BY <1>1, <1>2, <2>3
  <2>7. Consumed(p)
    BY <1>0, <2>3, <2>4, <2>5, <2>6 DEF Consumed
  <2> QED
    BY <1>2, <2>1, <2>2, <2>7, FollowsOn
       DEF Continues, Watched, Binding, Unbound
<1> QED
  BY <1>4, <1>5

\* The waits take one event at a time.
LEMMA FirstEvent ==
  ASSUME TypeOK, NEW p \in Proc, stream[p] # <<>>
  PROVE  /\ Head(stream[p]) = stream[p][1] /\ Head(stream[p]) \in Event
         /\ 1 \in 1..Len(stream[p]) /\ 1 <= Len(stream[p])
<1>1. stream[p] \in Seq(Event)
  BY StreamFacts
<1>2. Head(stream[p]) = stream[p][1] /\ Len(stream[p]) \in Nat /\ Len(stream[p]) # 0
  BY <1>1, EmptySeq, LenProperties, HeadTailProperties
<1>3. 1 \in 1..Len(stream[p]) /\ 1 <= Len(stream[p])
  BY <1>2
<1> QED
  BY <1>2, <1>3, StreamFacts

LEMMA EventFollows ==
  ASSUME TypeOK, TypeOK', NEW p \in Proc, Follows(p), Onward(p), stream[p] # <<>>,
         Consume(p, 1), conn' = conn, turns' = turns,
         pc'[p] \in Watched =>
           /\ ~Loses(Head(stream[p]))
           /\ Starts(Head(stream[p])) => Head(stream[p]).turn <= Base(p)
  PROVE  Follows(p)'
<1>1. \A i \in 1..1 : i = 1
  OBVIOUS
<1> QED
  BY <1>1, FirstEvent, ConsumedFollows

LEMMA AwaitSourceFollows ==
  ASSUME TypeOK, TypeOK', NEW p \in Proc, Follows(p), AwaitSource(p)
  PROVE  Follows(p)'
<1> DEFINE event == Head(stream[p])
           code == StreamError(event, "SharedAppServerUnavailable")
           quiet == ~Loses(event) /\ (Starts(event) => event.turn <= Base(p))
<1>1. /\ pc[p] = "awaitSource" /\ stream[p] # <<>> /\ Consume(p, 1)
      /\ UNCHANGED <<turns, conn>>
  BY DEF AwaitSource
<1>2. mem[p].source <= Base(p)
  BY <1>1, StreamFacts DEF Follows, Sourced, Base, Binding, Unbound
<1>3. \/ quiet /\ Goto(p, "drainSource") /\ UNCHANGED mem
      \/ quiet /\ UNCHANGED <<pc, mem>>
      \/ \E c : Stop(p, c)
  <2>1. event.type = "TurnCompleted" => quiet
    BY DEF Loses, Starts
  <2>2. code = "None" /\ ~Competes(event, mem[p].source) => quiet
    BY <1>2, HarmlessEvent DEF Competes, Starts
  <2> QED
    BY <2>1, <2>2 DEF AwaitSource
<1> HIDE DEF quiet, code
<1>4. Leads("awaitSource", "drainSource")
  BY StepLeads DEF Unbound, Watched, Binding
<1>5. Onward(p)
  BY <1>1, <1>3, <1>4, StopOnward, GotoOnward, StayOnward
<1>6. pc'[p] \in Watched => quiet
  BY <1>3, StopOnward
<1> QED
  BY <1>1, <1>5, <1>6, EventFollows DEF quiet

LEMMA AwaitCompactionFollows ==
  ASSUME TypeOK, TypeOK', NEW p \in Proc, Follows(p), AwaitCompaction(p)
  PROVE  Follows(p)'
<1> DEFINE event == Head(stream[p])
           verdict == CompactionVerdict(mem[p], item[p], event)
           quiet == ~Loses(event) /\ (Starts(event) => event.turn <= Base(p))
<1>1. /\ pc[p] = "awaitCompaction" /\ stream[p] # <<>> /\ Consume(p, 1)
      /\ UNCHANGED <<turns, conn>>
  BY DEF AwaitCompaction
<1>2. \/ /\ verdict = "bind"
         /\ Advance(p, [mem[p] EXCEPT !.compact = event.turn], "AwaitCompactionItem",
                    "awaitCompaction")
      \/ /\ verdict = "done"
         /\ Advance(p, mem[p], "AwaitCompactionTurnCompleted", "awaitCompaction")
      \/ verdict = "turn" /\ Goto(p, "drainCompact") /\ UNCHANGED <<mem, disk>>
      \/ verdict \in {"item", "None"} /\ UNCHANGED <<pc, mem, disk>>
      \/ verdict \in ErrorCodes /\ Stop(p, verdict)
  BY DEF AwaitCompaction
<1>3. verdict \in {"done", "turn", "item", "None"} => quiet
  <2>1. mem[p].source <= Base(p)
    BY <1>1, StreamFacts DEF Follows, Sourced, Base, Binding
  <2> QED
    BY <2>1, VerdictQuiet, StreamFacts DEF Base
<1>4. verdict = "bind" =>
        Starts(event) /\ event.turn # mem[p].source /\ mem[p].compact = 0
  BY VerdictBind
<1> HIDE DEF verdict
<1>5. CASE verdict = "bind"
  <2>1. Advance(p, [mem[p] EXCEPT !.compact = event.turn], "AwaitCompactionItem",
                "awaitCompaction")
    BY <1>2, <1>5 DEF ErrorCodes, CancellationErrors
  <2> QED
    BY <1>1, <1>4, <1>5, <2>1, FirstEvent, BindFollows
<1>6. CASE verdict # "bind"
  <2> HIDE DEF quiet, event
  <2>1. mem[p] \in Journal
    BY TypeParts DEF JournalOK
  <2>2. Leads("awaitCompaction", "awaitCompaction") /\ Leads("awaitCompaction", "drainCompact")
    BY StepLeads DEF Unbound, Watched, Binding, ReadingCompaction
  <2>3. Onward(p)
    BY <1>1, <1>2, <1>6, <2>1, <2>2, StopOnward, GotoOnward, StayOnward, AdvanceOnward
  <2>4. pc'[p] \in Watched => quiet
    BY <1>2, <1>3, <1>6, StopOnward
  <2> QED
    BY <1>1, <2>3, <2>4, EventFollows DEF quiet, event
<1> QED
  BY <1>5, <1>6

LEMMA CompactFollows ==
  ASSUME TypeOK, TypeOK', NEW p \in Proc, Follows(p), CompactNext(p)
  PROVE  Follows(p)'
<1>1. /\ Leads("drainSource", "readSource") /\ Leads("readSource", "guardSource")
      /\ Leads("guardSource", "redrainSource") /\ Leads("redrainSource", "saveReady")
      /\ Leads("saveReady", "saveSent") /\ Leads("saveSent", "sendCompact")
      /\ Leads("sendCompact", "waitCompact") /\ Leads("waitCompact", "awaitCompaction")
      /\ Leads("drainCompact", "readCompact") /\ Leads("readCompact", "saveCapsule")
      /\ Leads("saveCapsule", "drainInject")
  BY StepLeads DEF Unbound, Watched, Binding, ReadingCompaction, Injectable
<1>2. CASE DrainSource(p) \/ RedrainSource(p)
  <2>1. pc[p] \in {"drainSource", "redrainSource"}
    BY <1>2 DEF DrainSource, RedrainSource
  <2>2. mem[p].source \in Nat /\ mem[p].source <= Base(p)
    BY <2>1, StreamFacts DEF Follows, Sourced, Base, Binding, Unbound
  <2> QED
    BY <1>1, <1>2, <2>2, RejectQueuedFollows DEF DrainSource, RedrainSource
<1>3. CASE ReadSource(p) \/ GuardSource(p) \/ ReadCompact(p)
  BY <1>1, <1>3, ReadThreadFollows DEF ReadSource, GuardSource, GuardDescendants, ReadCompact
<1>4. CASE SaveReady(p) \/ SaveSent(p)
  BY <1>1, <1>4, RecordFollows DEF SaveReady, SaveSent, Record
<1>5. CASE SendCompact(p)
  BY <1>1, <1>5, SendOnceFollows DEF SendCompact, SendOnce
<1>6. CASE WaitCompact(p)
  <2>1. Onward(p)
    BY <1>1, <1>6, StopOnward, GotoOnward DEF WaitCompact
  <2> QED
    BY <1>6, <2>1, StillFollows DEF WaitCompact
<1>7. CASE DrainCompact(p)
  <2>1. mem[p].compact \in Nat /\ mem[p].compact <= Base(p)
    BY StreamFacts DEF Base
  <2> QED
    BY <1>1, <1>7, <2>1, RejectQueuedFollows DEF DrainCompact
<1>8. CASE SaveCapsule(p)
  <2>1. CASE Stop(p, "CheckpointTooLarge")
    BY <1>8, <2>1, StopOnward, StillFollows DEF SaveCapsule, UnchangedThread, threadVars
  <2>2. CASE ~Stop(p, "CheckpointTooLarge")
    <3> DEFINE journal == [mem[p] EXCEPT !.capsule = TRUE]
    <3>1. PICK outcome \in SaveOutcomes :
            /\ mem' = [mem EXCEPT ![p] =
                         IF outcome = "ok" THEN journal ELSE Conclude(journal, "Io")]
            /\ Goto(p, IF outcome = "ok" THEN "drainInject" ELSE "finish")
      BY <1>8, <2>2 DEF SaveCapsule
    <3>2. journal.source = mem[p].source /\ journal.compact = mem[p].compact
      BY TypeParts DEF JournalOK, Journal
    <3> HIDE DEF journal
    <3>3. ASSUME outcome = "ok"
          PROVE  Onward(p)
      <4>1. /\ pc'[p] = "drainInject" /\ pc[p] = "saveCapsule"
            /\ mem'[p].source = mem[p].source /\ mem'[p].compact = mem[p].compact
        BY <1>8, <3>1, <3>2, <3>3, TypeParts DEF SaveCapsule, Goto, JournalOK
      <4> QED
        BY <1>1, <4>1 DEF Onward
    <3>4. ASSUME outcome # "ok"
          PROVE  Onward(p)
      <4>1. pc'[p] = "finish"
        BY <3>1, <3>4, TypeParts DEF Goto, JournalOK
      <4> QED
        BY <4>1
           DEF Onward, Watched, Binding, Unbound, ReadingCompaction, Injectable,
               InjectionSent, Continuing
    <3>5. Onward(p)
      BY <3>3, <3>4
    <3> QED
      BY <1>8, <3>5, StillFollows DEF SaveCapsule, UnchangedThread, threadVars
  <2> QED
    BY <2>1, <2>2
<1> QED
  BY <1>2, <1>3, <1>4, <1>5, <1>6, <1>7, <1>8, AwaitSourceFollows, AwaitCompactionFollows
     DEF CompactNext

\* A step that only consumes and leaves the watch.
LEMMA LeavingFollows ==
  ASSUME TypeOK, TypeOK', NEW p \in Proc, Follows(p),
         pc'[p] \notin Watched \union {"prepare"},
         \/ stream'[p] = stream[p] /\ conn'[p] = conn[p]
         \/ conn'[p] = "none" /\ stream'[p] = <<>>
         \/ \E n \in Drained(p) : Consume(p, n) /\ conn' = conn
         \/ stream[p] # <<>> /\ Consume(p, 1) /\ conn' = conn
  PROVE  Follows(p)'
<1>1. \A n \in Drained(p) : n \in Nat /\ n <= Len(stream[p])
  BY DrainedNumbers
<1>2. Unbroken(p)'
  BY <1>1, FirstEvent, UnbrokenStays
<1> QED
  BY <1>2, QuitFollows

LEMMA Leaving ==
  \A step \in {"finish", "cleanup", "serving", "down", "recover", "resume", "confirm",
               "awaitStarted", "confirmStarted", "saveCooldown"} :
    step \notin Watched \union {"prepare"}
BY DEF Watched, Binding, Unbound, ReadingCompaction, Injectable, InjectionSent, Continuing

\* A connection is opened and closed for one process.
LEMMA Connects ==
  ASSUME TypeOK, NEW p \in Proc, Subscribe(p) \/ Unsubscribe(p)
  PROVE  /\ stream'[p] = <<>>
         /\ Subscribe(p) => conn'[p] = "open"
         /\ Unsubscribe(p) => conn'[p] = "none"
         /\ \A q \in Proc \ {p} : stream'[q] = stream[q] /\ conn'[q] = conn[q]
BY DEF Subscribe, Unsubscribe, TypeOK, ThreadTypeOK

\* Where a step that advances the journal arrives.
LEMMA AdvanceArrives ==
  ASSUME TypeOK, NEW p \in Proc, NEW journal, NEW next, NEW step,
         Advance(p, journal, next, step)
  PROVE  pc'[p] \in {step, "finish"}
BY TypeParts DEF Advance, Stop, Goto, JournalOK

LEMMA UserWinsLeaves ==
  ASSUME TypeOK, NEW p \in Proc, NEW turn, UserWins(p, turn)
  PROVE  pc'[p] \notin Watched \union {"prepare"}
<1>1. pc'[p] \in {"cleanup", "finish"}
  BY AdvanceArrives DEF UserWins, Done
<1> QED
  BY <1>1, Leaving

LEMMA StopLeaves ==
  ASSUME TypeOK, NEW p \in Proc, NEW code, Stop(p, code)
  PROVE  pc'[p] \notin Watched \union {"prepare"}
<1>1. pc'[p] = "finish"
  BY TypeParts DEF Stop, Goto, JournalOK
<1> QED
  BY <1>1, Leaving

LEMMA InjectFollows ==
  ASSUME TypeOK, TypeOK', NEW p \in Proc, Follows(p), InjectNext(p)
  PROVE  Follows(p)'
<1>1. /\ Leads("drainInject", "guardInject") /\ Leads("guardInject", "redrainInject")
      /\ Leads("redrainInject", "saveInjecting") /\ Leads("saveInjecting", "sendInject")
      /\ Leads("sendInject", "waitInject") /\ Leads("waitInject", "saveStarting")
      /\ Leads("saveStarting", "drainUser") /\ Leads("drainUser", "sendStart")
      /\ Leads("sendStart", "waitStart")
  BY StepLeads DEF Unbound, Watched, Binding, Injectable, InjectionSent, Continuing
<1>2. CASE DrainInject(p) \/ RedrainInject(p)
  BY <1>1, <1>2, RejectStartedFollows DEF DrainInject, RedrainInject
<1>3. CASE GuardInject(p)
  BY <1>1, <1>3, ReadThreadFollows DEF GuardInject, GuardDescendants
<1>4. CASE SaveInjecting(p) \/ SaveStarting(p)
  BY <1>1, <1>4, RecordFollows DEF SaveInjecting, SaveStarting, Record
<1>5. CASE SendInject(p) \/ SendStart(p)
  BY <1>1, <1>5, SendOnceFollows DEF SendInject, SendStart, SendOnce
<1>6. CASE WaitInject(p)
  <2>1. Onward(p)
    BY <1>1, <1>6, StopOnward, GotoOnward DEF WaitInject
  <2> QED
    BY <1>6, <2>1, StillFollows DEF WaitInject
<1>7. CASE DrainUser(p)
  <2>1. PICK n \in Drained(p) :
          /\ Consume(p, n)
          /\ \/ \E code : Stop(p, code)
             \/ \E turn : UserWins(p, turn)
             \/ /\ DrainStarted(p, n).code = "None" /\ DrainStarted(p, n).turn = 0
                /\ Goto(p, "sendStart") /\ UNCHANGED <<mem, disk>>
    BY <1>7 DEF DrainUser
  <2>2. pc[p] = "drainUser" /\ UNCHANGED <<turns, conn>>
    BY <1>7 DEF DrainUser
  <2>3. CASE (\E code : Stop(p, code)) \/ (\E turn : UserWins(p, turn))
    BY <2>1, <2>2, <2>3, StopLeaves, UserWinsLeaves, LeavingFollows
  <2>4. CASE /\ DrainStarted(p, n).code = "None" /\ DrainStarted(p, n).turn = 0
             /\ Goto(p, "sendStart") /\ UNCHANGED <<mem, disk>>
    <3>1. Ordered(p)
      BY <1>1, <2>2 DEF Leads, Follows, Attentive
    <3> QED
      BY <1>1, <2>1, <2>2, <2>4, <3>1, NoneStarted, GotoOnward, DrainedNumbers,
         ConsumedFollows
  <2> QED
    BY <2>1, <2>3, <2>4
<1>8. CASE WaitStart(p)
  <2>1. conn' = conn
    BY <1>8 DEF WaitStart
  <2>2. \/ /\ stream' = stream
           /\ \/ \E journal, next : Advance(p, journal, next, "awaitStarted")
              \/ \E code : Stop(p, code)
        \/ \E n \in Drained(p) :
             /\ Consume(p, n)
             /\ (\E code : Stop(p, code)) \/ (\E turn : UserWins(p, turn))
    BY <1>8 DEF WaitStart
  <2>3. (\E journal, next : Advance(p, journal, next, "awaitStarted"))
          => pc'[p] \notin Watched \union {"prepare"}
    BY AdvanceArrives, Leaving
  <2> QED
    BY <2>1, <2>2, <2>3, StopLeaves, UserWinsLeaves, LeavingFollows
<1>9. CASE AwaitStarted(p)
  <2>1. /\ pc[p] = "awaitStarted" /\ stream[p] # <<>> /\ Consume(p, 1) /\ conn' = conn
        /\ \/ Goto(p, "saveCooldown") \/ Goto(p, "confirmStarted") \/ UNCHANGED pc
           \/ \E code : Stop(p, code)
    BY <1>9 DEF AwaitStarted
  <2>2. pc'[p] \in {"saveCooldown", "confirmStarted", "awaitStarted", "finish"}
    BY <2>1, TypeParts DEF Goto, Stop, JournalOK
  <2> QED
    BY <2>1, <2>2, Leaving, LeavingFollows
<1>10. CASE ConfirmStarted(p)
  <2>1. pc'[p] \in {"saveCooldown", "finish"} /\ stream' = stream /\ conn' = conn
    BY <1>10, TypeParts
       DEF ConfirmStarted, Goto, Stop, JournalOK, UnchangedThread, threadVars
  <2> QED
    BY <2>1, Leaving, LeavingFollows
<1>11. CASE SaveCooldown(p)
  <2>1. stream' = stream /\ conn' = conn
    BY <1>11 DEF SaveCooldown, Record, UnchangedThread, threadVars
  <2>2. pc'[p] \in {"cleanup", "finish"}
    BY <1>11, AdvanceArrives DEF SaveCooldown, Record, Done
  <2> QED
    BY <2>1, <2>2, Leaving, LeavingFollows
<1> QED
  BY <1>2, <1>3, <1>4, <1>5, <1>6, <1>7, <1>8, <1>9, <1>10, <1>11 DEF InjectNext

LEMMA RecoverFollows ==
  ASSUME TypeOK, TypeOK', NEW p \in Proc, Follows(p), RecoveryNext(p)
  PROVE  Follows(p)'
<1>1. CASE RecoverSkip(p) \/ RecoverBegin(p) \/ RecoverConfirm(p)
  <2>1. /\ pc'[p] \in {"serving", "finish", "resume", "confirm"}
        /\ stream' = stream /\ conn' = conn
    BY <1>1, TypeParts
       DEF RecoverSkip, RecoverBegin, RecoverConfirm, Goto, Stop, JournalOK,
           UnchangedThread, threadVars
  <2> QED
    BY <2>1, Leaving, LeavingFollows
<1>2. CASE RecoverResume(p)
  <2>1. CASE UnchangedThread /\ \E code : Stop(p, code)
    BY <2>1, StopLeaves, LeavingFollows DEF UnchangedThread, threadVars
  <2>2. CASE /\ require_completed_compaction_boundary(turns, mem[p].compact) = "None"
             /\ Subscribe(p) /\ Goto(p, "drainInject") /\ UNCHANGED <<turns, mem>>
    <3>1. mem[p].compact = Len(turns) /\ mem[p].compact \in 1..Len(turns)
      BY <2>2 DEF require_completed_compaction_boundary, exact_last_turn, unique_turn
    <3>2. Base(p)' = Len(turns')
      BY <2>2, <3>1, StreamFacts DEF Base
    <3>3. pc'[p] = "drainInject" /\ conn'[p] = "open" /\ stream'[p] = <<>>
      BY <2>2, TypeParts, Connects DEF Goto, JournalOK
    <3> QED
      BY <3>2, <3>3, FollowsOn DEF Subscribes
  <2> QED
    BY <1>2, <2>1, <2>2 DEF RecoverResume
<1>3. CASE RecoverFinish(p)
  <2>1. pc'[p] \in {"serving", "down"} /\ conn'[p] = "none" /\ stream'[p] = <<>>
    BY <1>3, TypeParts, Connects DEF RecoverFinish, Goto, JournalOK
  <2> QED
    BY <2>1, Leaving, LeavingFollows
<1> QED
  BY <1>1, <1>2, <1>3 DEF RecoveryNext

LEMMA RejectFollows ==
  ASSUME TypeOK, TypeOK', NEW p \in Proc, Follows(p), NEW code, Reject(p, code)
  PROVE  Follows(p)'
<1>1. pc'[p] = "serving" /\ conn'[p] = "none" /\ stream'[p] = <<>>
  BY TypeParts, Connects DEF Reject, Goto, JournalOK
<1> QED
  BY <1>1, Leaving, LeavingFollows

LEMMA RecordCallLength ==
  ASSUME TypeOK, NEW source, NEW receipt, NEW ok, RecordCall(source, receipt, ok)
  PROVE  Len(turns') = Len(turns)
BY TypeParts DEF RecordCall, HistoryOK

LEMMA ScheduleFollows ==
  ASSUME TypeOK, TypeOK', NEW p \in Proc, Follows(p), Prepare(p) \/ Accept(p) \/ AcceptAwait(p)
  PROVE  Follows(p)'
<1>1. CASE \E code : Reject(p, code)
  BY <1>1, RejectFollows
<1>2. CASE Prepare(p) /\ ~\E code : Reject(p, code)
  <2>1. /\ pc[p] = "prepare" /\ Subscribe(p) /\ Goto(p, "accept") /\ UNCHANGED <<turns, mem>>
        /\ preflight_root_and_cooldown(turns, mem[p].source, disk) = "None"
    BY <1>2 DEF Prepare
  <2>2. mem[p].source = Len(turns)
    BY <2>1 DEF preflight_root_and_cooldown, exact_last_turn
  <2>3. mem[p].compact = 0
    BY <2>1 DEF Follows, Unbound
  <2>4. pc'[p] = "accept" /\ conn'[p] = "open" /\ stream'[p] = <<>>
    BY <2>1, TypeParts, Connects DEF Goto, JournalOK
  <2> QED
    BY <2>1, <2>2, <2>3, <2>4, FollowsOn DEF Subscribes, Base
<1>3. CASE Accept(p) /\ ~\E code : Reject(p, code)
  <2>1. /\ pc[p] = "accept" /\ UnchangedThread /\ Goto(p, "acceptAwait")
        /\ mem' = [mem EXCEPT ![p] = NewJournal(accepted + 1, mem[p].source)]
    BY <1>3 DEF Accept
  <2>2. mem[p].compact = 0
    BY <2>1 DEF Follows, Unbound
  <2>3. mem'[p] = NewJournal(accepted + 1, mem[p].source)
    BY <2>1, TypeParts DEF JournalOK
  <2>4. mem'[p].source = mem[p].source /\ mem'[p].compact = mem[p].compact
    BY <2>2, <2>3 DEF NewJournal, NoJournal
  <2>5. pc'[p] = "acceptAwait" /\ Leads("accept", "acceptAwait")
    BY <2>1, TypeParts, StepLeads DEF Goto, JournalOK, Unbound, Binding, Watched
  <2> QED
    BY <2>1, <2>4, <2>5, StillFollows DEF Onward, UnchangedThread, threadVars
<1>4. CASE AcceptAwait(p) /\ ~\E code : Reject(p, code)
  <2>1. /\ pc[p] = "acceptAwait" /\ Goto(p, "awaitSource") /\ UNCHANGED <<conn, stream>>
        /\ mem' = [mem EXCEPT ![p] = [mem[p] EXCEPT !.state = "AwaitSourceTurnCompleted"]]
        /\ RecordCall(mem[p].source, mem[p].tid, TRUE)
    BY <1>4 DEF AcceptAwait
  <2>2. mem'[p].source = mem[p].source /\ mem'[p].compact = mem[p].compact
    BY <2>1, TypeParts DEF JournalOK, Journal
  <2>3. pc'[p] = "awaitSource" /\ Leads("acceptAwait", "awaitSource")
    BY <2>1, TypeParts, StepLeads DEF Goto, JournalOK, Unbound, Binding, Watched
  <2>4. Len(turns') = Len(turns)
    BY <2>1, RecordCallLength
  <2> QED
    BY <2>1, <2>2, <2>3, <2>4, StillFollows DEF Onward
<1> QED
  BY <1>1, <1>2, <1>3, <1>4

LEMMA ProceedFollows ==
  ASSUME TypeOK, TypeOK', NEW p \in Proc, Follows(p), Proceed(p)
  PROVE  Follows(p)'
<1>1. CASE WaitExpires(p)
  BY <1>1, StopLeaves, LeavingFollows DEF WaitExpires, UnchangedThread, threadVars
<1>2. CASE TaskFinish(p)
  <2>1. pc'[p] = "cleanup" /\ stream' = stream /\ conn' = conn
    BY <1>2, TypeParts DEF TaskFinish, Goto, JournalOK, UnchangedThread, threadVars
  <2> QED
    BY <2>1, Leaving, LeavingFollows
<1>3. CASE Cleanup(p)
  <2>1. pc'[p] = "serving" /\ conn'[p] = "none" /\ stream'[p] = <<>>
    BY <1>3, TypeParts, Connects DEF Cleanup, Goto, JournalOK
  <2> QED
    BY <2>1, Leaving, LeavingFollows
<1> QED
  BY <1>1, <1>2, <1>3, RecoverFollows, ScheduleFollows, CompactFollows, InjectFollows
     DEF Proceed

\* A step of a process leaves the streams and connections of the others alone.
OwnStream(p) ==
  /\ \A q \in Proc \ {p} : stream'[q] = stream[q] /\ conn'[q] = conn[q]
  /\ Len(turns') = Len(turns)

LEMMA WorkOwnStream ==
  ASSUME TypeOK, NEW p \in Proc, CompactNext(p) \/ InjectNext(p)
  PROVE  OwnStream(p)
<1> USE DEF OwnStream, Consume, UnchangedThread, threadVars
<1>0. stream = [q \in Proc |-> stream[q]]
  BY TypeParts DEF StreamOK
<1>1. CASE CompactNext(p)
  BY <1>0, <1>1
     DEF CompactNext, AwaitSource, DrainSource, RejectQueued, ReadSource, ReadThread,
         GuardSource, GuardDescendants, RedrainSource, SaveReady, SaveSent, Record,
         SendCompact, SendOnce, WaitCompact, AwaitCompaction, DrainCompact, ReadCompact,
         SaveCapsule
<1>2. CASE InjectNext(p)
  BY <1>0, <1>2
     DEF InjectNext, DrainInject, RejectStarted, GuardInject, GuardDescendants, ReadThread,
         RedrainInject, SaveInjecting, Record, SendInject, SendOnce, WaitInject,
         SaveStarting, DrainUser, SendStart, WaitStart, AwaitStarted, ConfirmStarted,
         SaveCooldown
<1> QED
  BY <1>1, <1>2

LEMMA ProceedOwnStream ==
  ASSUME TypeOK, NEW p \in Proc, Proceed(p)
  PROVE  OwnStream(p)
<1>1. CASE turns' = turns /\ (Subscribe(p) \/ Unsubscribe(p))
  BY <1>1, Connects DEF OwnStream
<1>2. CASE UnchangedThread
  BY <1>2 DEF OwnStream, UnchangedThread, threadVars
<1>3. CASE RecoveryNext(p)
  BY <1>1, <1>2, <1>3
     DEF RecoveryNext, RecoverSkip, RecoverBegin, RecoverResume, RecoverConfirm,
         RecoverFinish
<1>4. ASSUME NEW source, NEW receipt, NEW ok, RecordCall(source, receipt, ok),
             Unsubscribe(p) \/ UNCHANGED <<stream, conn>>
      PROVE  OwnStream(p)
  BY <1>4, RecordCallLength, Connects DEF OwnStream
<1>5. CASE Prepare(p) \/ Accept(p) \/ AcceptAwait(p)
  BY <1>1, <1>2, <1>4, <1>5 DEF Prepare, Accept, AcceptAwait, Reject
<1>6. CASE WaitExpires(p) \/ TaskFinish(p) \/ Cleanup(p)
  BY <1>1, <1>2, <1>6 DEF WaitExpires, TaskFinish, Cleanup
<1> QED
  BY <1>3, <1>5, <1>6, WorkOwnStream DEF Proceed

LEMMA OthersFollow ==
  ASSUME TypeOK, TypeOK', NEW p \in Proc, OwnStream(p),
         \A q \in Proc \ {p} : pc'[q] = pc[q] /\ mem'[q] = mem[q], StreamInv
  PROVE  \A q \in Proc \ {p} : Follows(q)'
<1>1. \A q \in Proc \ {p} : Grown(q)
  BY SameGrown DEF OwnStream, StreamInv
<1> QED
  BY <1>1, GrownStays DEF OwnStream, StreamInv, Unmoved

LEMMA OutsideFollows ==
  ASSUME TypeOK, TypeOK', NEW p \in Proc, StreamInv,
         Boot(p) \/ Crash(p) \/ CallRejected(p) \/ ScheduleBegin(p)
  PROVE  OwnStream(p) /\ (\A q \in Proc \ {p} : pc'[q] = pc[q] /\ mem'[q] = mem[q])
         /\ Follows(p)'
<1>0. Follows(p)
  BY DEF StreamInv
<1>1. CASE Boot(p)
  <2>1. /\ pc'[p] \in {"serving", "recover"} /\ UNCHANGED <<turns, stream, conn>>
        /\ \A q \in Proc \ {p} : pc'[q] = pc[q] /\ mem'[q] = mem[q]
    BY <1>1, TypeParts DEF Boot, Goto, JournalOK, UnchangedThread, threadVars
  <2> QED
    BY <1>0, <2>1, Leaving, LeavingFollows DEF OwnStream
<1>2. CASE Crash(p)
  <2>1. /\ pc'[p] = "down" /\ conn'[p] = "none" /\ stream'[p] = <<>> /\ OwnStream(p)
        /\ \A q \in Proc \ {p} : pc'[q] = pc[q] /\ mem'[q] = mem[q]
    BY <1>2, TypeParts, Connects DEF Crash, Goto, JournalOK, OwnStream
  <2> QED
    BY <1>0, <2>1, Leaving, LeavingFollows
<1>3. CASE CallRejected(p)
  <2>1. /\ UNCHANGED <<stream, conn, pc, mem>>
        /\ \E source, receipt, ok : RecordCall(source, receipt, ok)
    BY <1>3 DEF CallRejected, programVars
  <2>2. Len(turns') = Len(turns)
    BY <2>1, RecordCallLength
  <2>3. Grown(p)
    BY <2>1, <2>2, SameGrown DEF StreamInv
  <2> QED
    BY <1>0, <2>1, <2>2, <2>3, GrownStays DEF OwnStream, Unmoved
<1>4. CASE ScheduleBegin(p)
  <2>1. /\ pc'[p] = "prepare" /\ UNCHANGED <<turns, stream, conn>>
        /\ mem'[p] = [NoJournal EXCEPT !.source = Len(turns)]
        /\ \A q \in Proc \ {p} : pc'[q] = pc[q] /\ mem'[q] = mem[q]
    BY <1>4, TypeParts DEF ScheduleBegin, Goto, JournalOK, UnchangedThread, threadVars
  <2>2. mem'[p].compact = 0
    BY <2>1 DEF NoJournal
  <2>3. Unbroken(p)'
    BY <1>0, <2>1, UnbrokenStays
  <2>4. pc'[p] \notin Watched
    BY <2>1
       DEF Watched, Binding, Unbound, ReadingCompaction, Injectable, InjectionSent,
           Continuing
  <2> QED
    BY <1>0, <2>1, <2>2, <2>3, <2>4, FollowsOn DEF Quits, OwnStream
<1> QED
  BY <1>1, <1>2, <1>3, <1>4

-----------------------------------------------------------------------------
(* The invariant *)

LEMMA StreamInit == Init => StreamInv
<1> SUFFICES ASSUME Init PROVE StreamInv
  OBVIOUS
<1>1. Len(turns) = 1 /\ \A p \in Proc : Len(stream[p]) = 0 /\ pc[p] = "down"
  BY DEF Init, ThreadInit
<1>2. \A p \in Proc : 1..Len(stream[p]) = {}
  BY <1>1
<1>3. \A p \in Proc : Unbroken(p)
  BY <1>2 DEF Unbroken
<1>4. \A p \in Proc : pc[p] \notin Unbound /\ pc[p] \notin Binding /\ pc[p] \notin Watched
  BY <1>1
     DEF Watched, Binding, Unbound, ReadingCompaction, Injectable, InjectionSent, Continuing
<1> QED
  BY <1>1, <1>3, <1>4 DEF StreamInv, Follows

LEMMA StreamNext ==
  ASSUME TypeOK, TypeOK', StreamInv, [Next]_vars
  PROVE  StreamInv'
<1>1. Len(turns) \in Nat /\ 0 < Len(turns) /\ \A p \in Proc : Follows(p)
  BY TypeParts, LenProperties DEF HistoryOK, StreamInv
<1>2. CASE UNCHANGED vars
  <2>1. \A p \in Proc : Grown(p)
    BY <1>1, <1>2, SameGrown DEF vars
  <2> QED
    BY <1>1, <1>2, <2>1, GrownStays DEF vars, Unmoved, StreamInv
<1>3. CASE ThreadNext
  <2>1. \A p \in Proc : Grown(p) \/ Lagging(p)
    BY <1>1, <1>3, ThreadStream
  <2>2. \A p \in Proc : Unmoved(p)
    BY <1>3 DEF ThreadNext, programVars, Unmoved
  <2>3. \A p \in Proc : Follows(p)'
    BY <1>1, <2>1, <2>2, GrownStays, LaggingStays
  <2>4. 0 < Len(turns')
    <3>1. Len(turns) <= Len(turns') /\ Len(turns') \in Nat
      BY StepStays, TypePartsPrimed, LenProperties DEF HistoryStays, HistoryOK
    <3> QED
      BY <1>1, <3>1
  <2> QED
    BY <2>3, <2>4 DEF StreamInv
<1>4. ASSUME NEW p \in Proc, Proceed(p)
      PROVE  StreamInv'
  <2>1. OwnStream(p) /\ Private(p)
    BY <1>4, TypeParts, ProceedOwnStream, ProceedIsPrivate
  <2>2. \A q \in Proc \ {p} : Follows(q)'
    BY <2>1, OthersFollow DEF Private
  <2>3. Follows(p)'
    BY <1>1, <1>4, ProceedFollows
  <2> QED
    BY <1>1, <2>1, <2>2, <2>3 DEF StreamInv, OwnStream
<1>5. ASSUME NEW p \in Proc, Boot(p) \/ Crash(p) \/ CallRejected(p) \/ ScheduleBegin(p)
      PROVE  StreamInv'
  <2>1. /\ OwnStream(p) /\ \A q \in Proc \ {p} : pc'[q] = pc[q] /\ mem'[q] = mem[q]
        /\ Follows(p)'
    BY <1>5, OutsideFollows
  <2>2. \A q \in Proc \ {p} : Follows(q)'
    BY <2>1, OthersFollow
  <2> QED
    BY <1>1, <2>1, <2>2 DEF StreamInv, OwnStream
<1> QED
  BY <1>2, <1>3, <1>4, <1>5 DEF Next

\* What a process expects of its event stream is true of it: every turn it has
\* not accounted for is announced ahead of what it has read, in order, or it
\* will be told of a loss (runner.rs:83-172, 424-471, 560-700).
THEOREM StreamCorrect == Spec => []StreamInv
<1>1. TypeOK /\ StreamInv /\ [Next]_vars /\ TypeOK' => StreamInv'
  BY StreamNext
<1> QED
  BY <1>1, StreamInit, TypeCorrect, PTL DEF Spec

\* While a task or a recovery watches the thread, the start of every turn it has
\* not accounted for is still ahead of it, or the news that events were lost:
\* of any number of processes, whatever is lost, repeated, late or restarted
\* (runner.rs:83-172, 424-471).
THEOREM NoStartIsMissed == Spec => []NoTurnSwallowed
<1>1. TypeOK /\ StreamInv => NoTurnSwallowed
  <2> SUFFICES ASSUME TypeOK, StreamInv, NEW p \in Proc, Watching(p), ~Told(p),
                      NEW t \in (Base(p) + 1)..Len(turns)
               PROVE  \E i \in 1..Len(stream[p]) : stream[p][i] = Signal("TurnStarted", t)
    BY DEF NoTurnSwallowed, Told, Loses
  <2>1. pc[p] \in Watched
    BY DEF Watching, CompactSteps, InjectSteps, Watched, Binding, Unbound, ReadingCompaction,
           Injectable, InjectionSent, Continuing
  <2>2. Ahead(p)
    BY <2>1 DEF StreamInv, Follows, Attentive
  <2>3. t \in Nat /\ Base(p) < t /\ t <= Len(turns)
    BY StreamFacts
  <2> QED
    BY <2>2, <2>3 DEF Ahead
<1> QED
  BY <1>1, StreamCorrect, TypeCorrect, PTL
-----------------------------------------------------------------------------
(* The turns and the effects a journal is bound to *)

\* The journal's compaction turn is what its request made of the thread.
Compacted(history, journal) ==
  /\ journal.compact = journal.source + 1 /\ unique_turn(history, journal.compact)
  /\ history[journal.compact].origin = "compact"
  /\ history[journal.compact].tid = journal.tid
  /\ is_completed_pure_compaction(history[journal.compact])

\* What the turns in a journal mean.  A repeated start of the compaction turn
\* can be bound as the continuation.
Bound(history, journal) ==
  /\ journal.compact # 0 => journal.compact = journal.source + 1
  /\ journal.capsule => Compacted(history, journal)
  /\ "duplicate" \notin Faults /\ journal.cont # 0 =>
       unique_turn(history, journal.cont) /\ journal.cont > journal.compact
  /\ journal.state \in {"AwaitContinuationStarted", "Cooldown"} => journal.cont # 0

\* A request of the transition has had its effect on the thread.
Effected(history, capsules, method, tid) ==
  CASE method = "compact" ->
         \E t \in 1..Len(history) : history[t].origin = "compact" /\ history[t].tid = tid
    [] method = "inject" -> \E i \in 1..Len(capsules) : capsules[i].tid = tid
    [] method = "start" ->
         \E t \in 1..Len(history) : history[t].origin = "continuation" /\ history[t].tid = tid

\* The journal of the file, and a verdict that is still to be saved.
Bindings ==
  /\ Bound(turns, disk)
  /\ \A p \in Proc : pc[p] = "finish" => Bound(turns, mem[p])

Injected == {"StartingContinuation", "AwaitContinuationStarted", "Cooldown"}

\* How far the journal and its process are says what is in the thread.
Effects ==
  /\ disk.state \in Injected => Effected(turns, injections, "inject", disk.tid)
  /\ Asked("inject", disk.tid) => disk.capsule
  /\ \A t \in CompactTurns(disk.tid) : t > disk.source
  /\ \A p \in Proc :
       /\ pc[p] \in {"awaitCompaction"} \union ReadingCompaction =>
            Effected(turns, injections, "compact", disk.tid)
       /\ pc[p] = "saveCapsule" => Compacted(turns, disk)
       /\ pc[p] = "saveStarting" => Effected(turns, injections, "inject", disk.tid)

Awaiting == {"waitCompact", "waitInject", "waitStart"}

\* The answer a process waits for, and has got, is true.
AnswerTrue(p) ==
  /\ pc[p] = "waitCompact" => call[p].method = "compact" /\ call[p].tid = mem[p].tid
  /\ pc[p] = "waitInject" => call[p].method = "inject" /\ call[p].tid = mem[p].tid
  /\ pc[p] = "waitStart" => call[p].method = "start"
  /\ call[p].status = "accepted" =>
       call[p].method \in Methods /\ Effected(turns, injections, call[p].method, call[p].tid)
  /\ pc[p] = "waitStart" /\ call[p].status = "accepted" =>
       Base(p) < call[p].turn /\ call[p].turn <= Len(turns)
Answers == \A p \in Proc : AnswerTrue(p)

BindingInv == Bindings /\ Effects /\ Answers

-----------------------------------------------------------------------------
(* What stays *)

LEMMA EffectedTaken ==
  ASSUME NEW method \in Methods, NEW tid
  PROVE  /\ Effected(turns, injections, method, tid) <=> Taken(method, tid) # {}
         /\ Effected(turns', injections', method, tid) <=> Taken(method, tid)' # {}
<1>1. CASE method = "compact"
  BY <1>1 DEF Effected, Taken, CompactTurns
<1>2. CASE method = "inject"
  BY <1>2 DEF Effected, Taken, Injections
<1>3. CASE method = "start"
  BY <1>3 DEF Effected, Taken, Continuations
<1> QED
  BY <1>1, <1>2, <1>3 DEF Methods

\* An effect is never undone.
LEMMA EffectsStay ==
  ASSUME TypeOK, [Next]_vars, NEW method \in Methods, NEW tid,
         Effected(turns, injections, method, tid)
  PROVE  Effected(turns', injections', method, tid)
<1>1. Taken(method, tid) # {}
  BY EffectedTaken
<1>2. CASE SameTaken
  BY <1>1, <1>2, EffectedTaken DEF SameTaken
<1>3. ASSUME NEW r \in BagToSet(inbox), Served(r) PROVE Taken(method, tid)' # {}
  <2>1. CASE method # r.method \/ tid # r.tid
    BY <1>1, <1>3, <2>1 DEF Served
  <2>2. CASE method = r.method /\ tid = r.tid
    BY <1>1, <1>3, <2>2 DEF Served
  <2> QED
    BY <2>1, <2>2
<1> QED
  BY <1>2, <1>3, StepRequests, EffectedTaken DEF Kept, Sent

LEMMA CompactedStays ==
  ASSUME HistoryStays, NEW journal, Compacted(turns, journal)
  PROVE  Compacted(turns', journal)
BY DEF HistoryStays, Compacted, unique_turn, is_completed_pure_compaction

LEMMA BoundStays ==
  ASSUME HistoryStays, NEW journal, Bound(turns, journal)
  PROVE  Bound(turns', journal)
BY CompactedStays DEF Bound, HistoryStays, unique_turn

\* Only the state of a journal changes, and not to one that needs a turn.
LEMMA SameBound ==
  ASSUME NEW history, NEW journal, NEW last, Bound(history, journal),
         last.tid = journal.tid, last.source = journal.source,
         last.compact = journal.compact, last.capsule = journal.capsule,
         last.cont = journal.cont,
         last.state \in {"AwaitContinuationStarted", "Cooldown"} => journal.cont # 0
  PROVE  Bound(history, last)
BY DEF Bound, Compacted

LEMMA ConcludeBound ==
  ASSUME NEW history, NEW journal \in Journal, NEW code, Bound(history, journal)
  PROVE  /\ Bound(history, Conclude(journal, code))
         /\ Bound(history, cancel(journal, code))
         /\ Bound(history, fail(journal, code))
<1>1. ASSUME NEW last \in {cancel(journal, code), fail(journal, code)}
      PROVE  Bound(history, last)
  <2>1. /\ last.tid = journal.tid /\ last.source = journal.source
        /\ last.compact = journal.compact /\ last.capsule = journal.capsule
        /\ last.cont = journal.cont /\ last.state \in {"Cancelled", "FailedSafe"}
    BY <1>1 DEF cancel, fail, Journal
  <2> QED
    BY <2>1, SameBound
<1> QED
  BY <1>1 DEF Conclude

LEMMA StateBound ==
  ASSUME NEW history, NEW journal \in Journal, NEW state, Bound(history, journal),
         state \in {"AwaitContinuationStarted", "Cooldown"} => journal.cont # 0
  PROVE  Bound(history, [journal EXCEPT !.state = state])
<1> DEFINE last == [journal EXCEPT !.state = state]
<1>1. /\ last.tid = journal.tid /\ last.source = journal.source
      /\ last.compact = journal.compact /\ last.capsule = journal.capsule
      /\ last.cont = journal.cont /\ last.state = state
  BY DEF Journal
<1> QED
  BY <1>1, SameBound

-----------------------------------------------------------------------------
(* What a step writes *)

\* The journal it saves, or leaves to be saved, is bound to the same history.
Yields(p) ==
  /\ disk' = disk \/ Bound(turns, disk')
  /\ pc'[p] = "finish" => Bound(turns, mem'[p])

LEMMA StopYields ==
  ASSUME JournalOK, NEW p \in Proc, NEW code, Bound(turns, mem[p]), Stop(p, code)
  PROVE  Yields(p)
<1>1. mem[p] \in Journal /\ mem'[p] = Conclude(mem[p], code) /\ disk' = disk
  BY DEF Stop, JournalOK
<1> QED
  BY <1>1, ConcludeBound DEF Yields

LEMMA GotoYields ==
  ASSUME JournalOK, NEW p \in Proc, NEW step \in Steps \ {"finish"}, Goto(p, step),
         UNCHANGED disk
  PROVE  Yields(p)
BY DEF Yields, Goto, JournalOK

LEMMA GoesYields ==
  ASSUME JournalOK, NEW p \in Proc, pc[p] # "finish", NEW step \in Steps \ {"finish"},
         Bound(turns, mem[p]), Goes(p, step)
  PROVE  Yields(p)
<1>1. CASE UNCHANGED <<pc, mem, disk>>
  BY <1>1 DEF Yields
<1> QED
  BY <1>1, StopYields, GotoYields DEF Goes

LEMMA AdvanceYields ==
  ASSUME JournalOK, NEW p \in Proc, NEW journal \in Journal, NEW next, NEW step,
         Bound(turns, mem[p]), Bound(turns, journal),
         next \in {"AwaitContinuationStarted", "Cooldown"} => journal.cont # 0,
         next \in TransitionStates,
         Advance(p, journal, next, step)
  PROVE  Yields(p)
<1> DEFINE entered == [journal EXCEPT !.state = next]
<1>1. Bound(turns, entered) /\ entered \in Journal
  BY StateBound, JournalFields
<1>2. CASE Stop(p, "Internal")
  BY <1>2, StopYields
<1>3. ASSUME NEW outcome, Save(entered, outcome),
             mem' = [mem EXCEPT ![p] = IF outcome = "ok" THEN entered
                                       ELSE Conclude(entered, "Io")]
      PROVE  Yields(p)
  <2> HIDE DEF entered
  <2>1. mem'[p] \in {entered, Conclude(entered, "Io")} /\ disk' \in {disk, entered}
    BY <1>3 DEF Save, JournalOK
  <2> QED
    BY <1>1, <2>1, ConcludeBound DEF Yields
<1> QED
  BY <1>2, <1>3 DEF Advance

LEMMA RecordYields ==
  ASSUME JournalOK, NEW p \in Proc, NEW from, NEW state \in TransitionStates, NEW next,
         Bound(turns, mem[p]),
         state \in {"AwaitContinuationStarted", "Cooldown"} => mem[p].cont # 0,
         Record(p, from, state, next)
  PROVE  Yields(p)
<1>1. mem[p] \in Journal /\ Advance(p, mem[p], state, next)
  BY DEF Record, JournalOK
<1> QED
  BY <1>1, AdvanceYields

LEMMA SendOnceYields ==
  ASSUME JournalOK, NEW p \in Proc, NEW from, NEW method, NEW next \in Steps \ {"finish"},
         NEW code, Bound(turns, mem[p]), SendOnce(p, from, method, next, code)
  PROVE  Yields(p)
BY StopYields, GotoYields DEF SendOnce

\* A working process has the journal of the file.
LEMMA WorkingBound ==
  ASSUME JournalIInv, Bindings, NEW p \in Proc, pc[p] \in Working
  PROVE  /\ mem[p] = disk /\ disk \in Journal /\ Bound(turns, mem[p])
         /\ StateAt(pc[p], disk.state) /\ (disk.capsule <=> pc[p] \in CapsuleStored)
         /\ WellFormed(disk) /\ pc[p] # "finish" /\ Holding(p)
BY WorkingHolds, WorkingState, WorkingGoesOn, TypeParts
   DEF JournalIInv, JournalInv, JournalOK, Bindings

\* The first start after the source turn is that of the turn behind it.
LEMMA BindYields ==
  ASSUME JournalIInv, Bindings, NEW p \in Proc, Follows(p), pc[p] = "awaitCompaction",
         stream[p] # <<>>, NEW turn, stream[p][1].turn = turn, Starts(stream[p][1]),
         turn # mem[p].source, mem[p].compact = 0,
         Advance(p, [mem[p] EXCEPT !.compact = turn], "AwaitCompactionItem",
                 "awaitCompaction")
  PROVE  Yields(p)
<1>1. pc[p] \in Working /\ pc[p] \notin CapsuleStored /\ pc[p] \in Watched /\ pc[p] \in Binding
  BY StepsApart DEF Working, Watched, Binding
<1>2. /\ mem[p] = disk /\ disk \in Journal /\ ~disk.capsule /\ Bound(turns, mem[p])
      /\ disk.state \in Compacting /\ WellFormed(disk)
  BY <1>1, WorkingBound DEF StateAt
<1>3. disk.cont = 0
  BY <1>2 DEF WellFormed, Compacting, Terminal
<1>4. 1 \in 1..Len(stream[p]) /\ turn \in Nat /\ mem[p].source \in Nat
  BY StreamFacts, EmptySeq DEF JournalIInv
<1>5. turn = mem[p].source + 1
  <2>1. turn >= mem[p].source
    BY <1>1, <1>4 DEF Follows, Sourced
  <2>2. ~(turn > mem[p].source + 1)
    <3>1. Base(p) = mem[p].source
      BY DEF Base
    <3>2. ~\E j \in 1..Len(stream[p]) : j < 1
      OBVIOUS
    <3> QED
      BY <1>1, <1>4, <3>1, <3>2 DEF Follows, Attentive, Ordered
  <2> QED
    BY <1>4, <2>1, <2>2
<1> DEFINE journal == [mem[p] EXCEPT !.compact = turn]
<1>6. /\ journal \in Journal /\ journal.compact = turn /\ journal.source = mem[p].source
      /\ ~journal.capsule /\ journal.cont = 0 /\ journal.state \in Compacting
  BY <1>2, <1>3, <1>4 DEF Journal
<1>7. Bound(turns, journal)
  BY <1>5, <1>6 DEF Bound, Compacting
<1>8. "AwaitCompactionItem" \in TransitionStates
  BY DEF TransitionStates, Compacting
<1> HIDE DEF journal
<1>9. Advance(p, journal, "AwaitCompactionItem", "awaitCompaction")
  BY DEF journal
<1> QED
  BY <1>2, <1>6, <1>7, <1>8, <1>9, AdvanceYields, TypeParts DEF JournalIInv

LEMMA AwaitCompactionYields ==
  ASSUME JournalIInv, Bindings, NEW p \in Proc, Follows(p), AwaitCompaction(p)
  PROVE  Yields(p)
<1> DEFINE event == Head(stream[p])
           verdict == CompactionVerdict(mem[p], item[p], event)
<1>1. /\ pc[p] = "awaitCompaction" /\ stream[p] # <<>> /\ pc[p] \in Working /\ TypeOK
      /\ JournalOK
  BY TypeParts DEF AwaitCompaction, Working, JournalIInv
<1>2. /\ Bound(turns, mem[p]) /\ mem[p] \in Journal /\ pc[p] # "finish"
  BY <1>1, WorkingBound
<1>3. event = stream[p][1]
  BY <1>1, FirstEvent
<1>4. CASE verdict = "bind" /\ Advance(p, [mem[p] EXCEPT !.compact = event.turn],
                                       "AwaitCompactionItem", "awaitCompaction")
  <2>1. Starts(event) /\ event.turn # mem[p].source /\ mem[p].compact = 0
    BY <1>4, VerdictBind
  <2> HIDE DEF event
  <2> QED
    BY <1>1, <1>3, <1>4, <2>1, BindYields
<1>5. CASE Advance(p, mem[p], "AwaitCompactionTurnCompleted", "awaitCompaction")
  BY <1>1, <1>2, <1>5, AdvanceYields DEF TransitionStates, Compacting
<1>6. CASE Goto(p, "drainCompact") /\ UNCHANGED <<mem, disk>>
  BY <1>1, <1>6, GotoYields DEF Steps, CompactSteps
<1>7. CASE UNCHANGED <<pc, mem, disk>>
  BY <1>2, <1>7 DEF Yields
<1>8. ASSUME NEW code, Stop(p, code) PROVE Yields(p)
  BY <1>1, <1>2, <1>8, StopYields
<1> QED
  BY <1>4, <1>5, <1>6, <1>7, <1>8 DEF AwaitCompaction

LEMMA SaveCapsuleYields ==
  ASSUME JournalIInv, Bindings, Effects, NEW p \in Proc, SaveCapsule(p)
  PROVE  Yields(p)
<1>1. pc[p] = "saveCapsule" /\ pc[p] \in Working /\ JournalOK
  BY TypeParts DEF SaveCapsule, Working, ReadingCompaction, JournalIInv
<1>2. /\ Bound(turns, mem[p]) /\ mem[p] = disk /\ disk \in Journal
      /\ disk.state = "AwaitCompactionTurnCompleted"
  BY <1>1, WorkingBound DEF StateAt, ReadingCompaction
<1> DEFINE journal == [mem[p] EXCEPT !.capsule = TRUE]
<1>3. /\ journal \in Journal /\ journal.compact = disk.compact /\ journal.cont = disk.cont
      /\ journal.source = disk.source /\ journal.tid = disk.tid /\ journal.state = disk.state
  BY <1>2 DEF Journal
<1>4. Compacted(turns, journal)
  BY <1>1, <1>3 DEF Effects, Compacted
<1>5. Bound(turns, journal)
  BY <1>2, <1>3, <1>4 DEF Bound
<1>6. CASE Stop(p, "CheckpointTooLarge")
  BY <1>1, <1>2, <1>6, StopYields
<1>7. ASSUME NEW outcome, Save(journal, outcome),
             mem' = [mem EXCEPT ![p] = IF outcome = "ok" THEN journal
                                       ELSE Conclude(journal, "Io")]
      PROVE  Yields(p)
  <2> HIDE DEF journal
  <2>1. mem'[p] \in {journal, Conclude(journal, "Io")} /\ disk' \in {disk, journal}
    BY <1>1, <1>7 DEF Save, JournalOK
  <2> QED
    BY <1>3, <1>5, <2>1, ConcludeBound DEF Yields
<1> QED
  BY <1>6, <1>7 DEF SaveCapsule

LEMMA ValidCodes ==
  /\ \A source, tid : validate_final_source_snapshot(turns, source, tid) \in StopCodes
  /\ \A compact : require_completed_compaction_boundary(turns, compact) \in StopCodes
BY StopCodeTypes

LEMMA CompactYields ==
  ASSUME JournalIInv, Bindings, Effects, NEW p \in Proc, Follows(p), CompactNext(p)
  PROVE  Yields(p)
<1>0. JournalOK /\ StreamOK
  BY TypeParts DEF JournalIInv
<1>1. CompactSteps \subseteq Steps \ {"finish"}
  BY DEF Steps, CompactSteps
<1>2. ASSUME pc[p] \in CompactSteps
      PROVE  pc[p] \in Working /\ Bound(turns, mem[p]) /\ pc[p] # "finish"
  <2>1. pc[p] \in Working
    BY <1>2 DEF CompactSteps, Working, ReadingSource, ReadingCompaction
  <2> QED
    BY <2>1, WorkingBound
<1> USE <1>0
<1>3. ASSUME NEW step \in CompactSteps, Goes(p, step), pc[p] \in CompactSteps
      PROVE  Yields(p)
  BY <1>1, <1>2, <1>3, GoesYields
<1>4. CASE AwaitSource(p)
  <2>1. Goes(p, "drainSource") /\ pc[p] \in CompactSteps
    BY <1>4, StopCodeTypes
       DEF AwaitSource, Goes, StopCodes, Outcomes, ErrorCodes, CancellationErrors, CompactSteps
  <2> QED
    BY <1>3, <2>1 DEF CompactSteps
<1>5. CASE DrainSource(p) \/ RedrainSource(p) \/ DrainCompact(p)
  BY <1>3, <1>5, RejectQueuedGoes DEF DrainSource, RedrainSource, DrainCompact, CompactSteps
<1>6. CASE ReadSource(p) \/ ReadCompact(p)
  BY <1>3, <1>6, ReadThreadGoes, ValidCodes DEF ReadSource, ReadCompact, CompactSteps
<1>7. CASE GuardSource(p)
  BY <1>3, <1>7, ReadThreadGoes, StopCodeTypes
     DEF GuardSource, GuardDescendants, CompactSteps
<1>8. CASE SaveReady(p) \/ SaveSent(p)
  BY <1>2, <1>8, RecordYields
     DEF SaveReady, SaveSent, Record, CompactSteps, TransitionStates, BeforeMutation,
         Compacting
<1>9. CASE SendCompact(p)
  BY <1>1, <1>2, <1>9, SendOnceYields DEF SendCompact, SendOnce, CompactSteps
<1>10. CASE WaitCompact(p)
  BY <1>1, <1>2, <1>10, GotoYields, StopYields DEF WaitCompact, CompactSteps
<1> QED
  BY <1>4, <1>5, <1>6, <1>7, <1>8, <1>9, <1>10, AwaitCompactionYields, SaveCapsuleYields
     DEF CompactNext

\* A turn whose start the drain has found is news to the task.
LEMMA StartFound ==
  ASSUME TypeOK, NEW p \in Proc, NEW n \in Drained(p), Attentive(p),
         DrainStarted(p, n).code = "None", DrainStarted(p, n).turn # 0
  PROVE  LET turn == DrainStarted(p, n).turn IN
         /\ turn \in Nat /\ turn <= Len(turns)
         /\ "duplicate" \notin Faults => turn > Base(p)
<1> DEFINE starts == {i \in 1..n : stream[p][i].type = "TurnStarted"}
           first == CHOOSE i \in starts : \A j \in starts : i <= j
<1>1. n \in Nat /\ n <= Len(stream[p])
  BY DrainedNumbers
<1>2. starts # {} /\ DrainStarted(p, n).turn = stream[p][first].turn
  BY DEF DrainStarted
<1>3. first \in starts
  <2>1. starts \subseteq Nat
    BY <1>1
  <2>2. \E i \in starts : \A j \in starts : i <= j
    <3> HIDE DEF starts
    <3> QED
      BY <1>2, <2>1, LeastNumber
  <2> HIDE DEF starts
  <2> QED
    BY <2>2
<1>4. first \in 1..Len(stream[p]) /\ Starts(stream[p][first])
  <2>1. \A i \in 1..n : i \in 1..Len(stream[p])
    BY <1>1, StreamFacts
  <2> QED
    BY <1>3, <2>1 DEF Starts
<1> HIDE DEF first, starts
<1> QED
  BY <1>2, <1>4, StreamFacts DEF Attentive, Ordered, Increasing

\* A turn behind the one the journal works from may be bound as the continuation.
LEMMA ContinuationYields ==
  ASSUME JournalIInv, Bindings, NEW p \in Proc, pc[p] \in Working, NEW turn \in Nat,
         turn # 0, "duplicate" \notin Faults => turn <= Len(turns) /\ turn > Base(p),
         NEW next \in TransitionStates, NEW step,
         Advance(p, [mem[p] EXCEPT !.cont = turn], next, step)
  PROVE  Yields(p)
<1>1. mem[p] \in Journal /\ Bound(turns, mem[p]) /\ JournalOK /\ Len(turns) \in Nat
  BY WorkingBound, TypeParts, StreamFacts DEF JournalIInv
<1> DEFINE journal == [mem[p] EXCEPT !.cont = turn]
<1>2. /\ journal \in Journal /\ journal.compact = mem[p].compact /\ journal.cont = turn
      /\ journal.source = mem[p].source /\ journal.tid = mem[p].tid
      /\ journal.state = mem[p].state /\ journal.capsule = mem[p].capsule
      /\ mem[p].compact \in Nat
  BY <1>1 DEF Journal
<1>3. "duplicate" \notin Faults => unique_turn(turns, turn) /\ turn > mem[p].compact
  BY <1>1, <1>2 DEF Base, unique_turn
<1> HIDE DEF journal
<1>4. Bound(turns, journal)
  BY <1>1, <1>2, <1>3 DEF Bound, Compacted
<1>5. Advance(p, journal, next, step)
  BY DEF journal
<1> QED
  BY <1>1, <1>2, <1>4, <1>5, AdvanceYields

LEMMA UserWinsYields ==
  ASSUME JournalIInv, Bindings, NEW p \in Proc, pc[p] \in Continuing, Follows(p),
         NEW n \in Drained(p), DrainStarted(p, n).code = "None",
         DrainStarted(p, n).turn # 0, UserWins(p, DrainStarted(p, n).turn)
  PROVE  Yields(p)
<1>1. pc[p] \in Working /\ pc[p] \in Watched /\ TypeOK
  BY DEF Working, Watched, JournalIInv
<1>2. Attentive(p)
  BY <1>1 DEF Follows
<1>3. "Cooldown" \in TransitionStates
  BY DEF TransitionStates, Terminal
<1> QED
  BY <1>1, <1>2, <1>3, StartFound, ContinuationYields DEF UserWins

LEMMA DrainUserYields ==
  ASSUME JournalIInv, Bindings, NEW p \in Proc, Follows(p), DrainUser(p)
  PROVE  Yields(p)
<1>1. pc[p] \in Working /\ pc[p] \in Continuing /\ JournalOK
  BY TypeParts DEF DrainUser, Continuing, Working, JournalIInv
<1>2. Bound(turns, mem[p])
  BY <1>1, WorkingBound
<1>3. "sendStart" \in Steps \ {"finish"}
  BY DEF Steps, InjectSteps
<1> QED
  BY <1>1, <1>2, <1>3, StopYields, GotoYields, UserWinsYields DEF DrainUser

LEMMA WaitStartYields ==
  ASSUME JournalIInv, Bindings, Answers, NEW p \in Proc, Follows(p), WaitStart(p)
  PROVE  Yields(p)
<1>1. pc[p] = "waitStart" /\ pc[p] \in Working /\ pc[p] \in Continuing /\ JournalOK
  BY TypeParts DEF WaitStart, Continuing, Working, JournalIInv
<1>2. Bound(turns, mem[p])
  BY <1>1, WorkingBound
<1>3. ASSUME call[p].status = "accepted",
             Advance(p, [mem[p] EXCEPT !.cont = call[p].turn], "AwaitContinuationStarted",
                     "awaitStarted")
      PROVE  Yields(p)
  <2>1. Base(p) < call[p].turn /\ call[p].turn <= Len(turns)
    BY <1>1, <1>3 DEF Answers, AnswerTrue
  <2>2. call[p].turn \in Nat /\ Base(p) \in Nat
    BY StreamFacts, TypeParts DEF JournalIInv, ChannelOK, Call
  <2>3. "AwaitContinuationStarted" \in TransitionStates
    BY DEF TransitionStates, Injecting
  <2> DEFINE turn == call[p].turn
  <2>4. turn \in Nat /\ turn # 0 /\ turn <= Len(turns) /\ turn > Base(p)
    BY <2>1, <2>2
  <2>5. Advance(p, [mem[p] EXCEPT !.cont = turn], "AwaitContinuationStarted", "awaitStarted")
    BY <1>3
  <2> HIDE DEF turn
  <2> QED
    BY <1>1, <2>3, <2>4, <2>5, ContinuationYields
<1> QED
  BY <1>1, <1>2, <1>3, StopYields, UserWinsYields DEF WaitStart

LEMMA InjectYields ==
  ASSUME JournalIInv, Bindings, Answers, NEW p \in Proc, Follows(p), InjectNext(p)
  PROVE  Yields(p)
<1>0. JournalOK /\ StreamOK
  BY TypeParts DEF JournalIInv
<1>1. InjectSteps \subseteq Steps \ {"finish"}
  BY DEF Steps, InjectSteps
<1>2. ASSUME pc[p] \in InjectSteps
      PROVE  /\ pc[p] \in Working /\ Bound(turns, mem[p]) /\ pc[p] # "finish"
             /\ mem[p] = disk /\ StateAt(pc[p], disk.state)
  <2>1. pc[p] \in Working
    BY <1>2 DEF InjectSteps, Working, Injectable, InjectionSent, Continuing, Continued
  <2> QED
    BY <2>1, WorkingBound
<1> USE <1>0
<1>3. ASSUME NEW step \in InjectSteps, Goes(p, step), pc[p] \in InjectSteps
      PROVE  Yields(p)
  BY <1>1, <1>2, <1>3, GoesYields
<1>4. CASE DrainInject(p) \/ RedrainInject(p)
  BY <1>3, <1>4, RejectStartedGoes DEF DrainInject, RedrainInject, InjectSteps
<1>5. CASE GuardInject(p)
  BY <1>3, <1>5, ReadThreadGoes, StopCodeTypes
     DEF GuardInject, GuardDescendants, InjectSteps
<1>6. CASE SaveInjecting(p) \/ SaveStarting(p)
  BY <1>2, <1>6, RecordYields
     DEF SaveInjecting, SaveStarting, Record, InjectSteps, TransitionStates, Injecting
<1>7. CASE SendInject(p) \/ SendStart(p)
  BY <1>1, <1>2, <1>7, SendOnceYields DEF SendInject, SendStart, SendOnce, InjectSteps
<1>8. CASE WaitInject(p)
  BY <1>1, <1>2, <1>8, GotoYields, StopYields DEF WaitInject, InjectSteps
<1>9. CASE AwaitStarted(p)
  <2>1. pc[p] \in InjectSteps
    BY <1>9 DEF AwaitStarted, InjectSteps
  <2>2. \/ Goto(p, "saveCooldown") /\ UNCHANGED disk
        \/ Goto(p, "confirmStarted") /\ UNCHANGED disk
        \/ UNCHANGED <<pc, disk>>
        \/ \E code : Stop(p, code)
    BY <1>9 DEF AwaitStarted
  <2>3. CASE UNCHANGED <<pc, disk>>
    BY <1>2, <2>1, <2>3 DEF Yields
  <2> QED
    BY <1>1, <1>2, <2>1, <2>2, <2>3, GotoYields, StopYields DEF InjectSteps
<1>10. CASE ConfirmStarted(p)
  BY <1>1, <1>2, <1>10, GotoYields, StopYields DEF ConfirmStarted, InjectSteps
<1>11. CASE SaveCooldown(p)
  <2>1. pc[p] = "saveCooldown" /\ Record(p, "saveCooldown", "Cooldown", Done(p))
    BY <1>11 DEF SaveCooldown, Record
  <2>2. pc[p] \in InjectSteps /\ "Cooldown" \in TransitionStates
    BY <2>1 DEF InjectSteps, TransitionStates, Terminal
  <2>3. mem[p].state = "AwaitContinuationStarted" /\ Bound(turns, mem[p])
    BY <1>2, <2>1, <2>2 DEF StateAt, Continued
  <2>4. mem[p].cont # 0
    BY <2>3 DEF Bound
  <2> QED
    BY <2>1, <2>2, <2>3, <2>4, RecordYields
<1> QED
  BY <1>4, <1>5, <1>6, <1>7, <1>8, <1>9, <1>10, <1>11, DrainUserYields, WaitStartYields
     DEF InjectNext

LEMMA RecoverYields ==
  ASSUME JournalIInv, Bindings, RecoveryCurrent, NEW p \in Proc, RecoveryNext(p)
  PROVE  Yields(p)
<1>0. JournalOK
  BY TypeParts DEF JournalIInv
<1>1. ASSUME pc[p] \in {"resume", "confirm"}
      PROVE  /\ Bound(turns, mem[p]) /\ mem[p] = disk /\ disk \in Journal
             /\ StateAt(pc[p], disk.state)
  <2>1. pc[p] \in Working
    BY <1>1 DEF Working, Injectable, Continued
  <2> QED
    BY <2>1, WorkingBound
<1>2. CASE RecoverSkip(p)
  BY <1>0, <1>2, GotoYields DEF RecoverSkip, Steps
<1>3. CASE RecoverBegin(p)
  <2>1. mem[p] = disk /\ mem[p] \in Journal /\ Bound(turns, mem[p]) /\ UNCHANGED disk
    BY <1>0, <1>3 DEF RecoverBegin, RecoveryCurrent, JournalOK, Bindings
  <2>2. CASE \E step \in {"resume", "confirm"} : Goto(p, step)
    BY <1>0, <2>1, <2>2, GotoYields DEF Steps, RecoverySteps
  <2>3. ASSUME NEW code, mem' = [mem EXCEPT ![p] = cancel(@, code)]
                         \/ mem' = [mem EXCEPT ![p] = fail(@, code)]
        PROVE  Yields(p)
    <3>1. mem'[p] \in {cancel(mem[p], code), fail(mem[p], code)}
      BY <1>0, <2>3 DEF JournalOK
    <3> QED
      BY <2>1, <3>1, ConcludeBound DEF Yields
  <2> QED
    BY <1>3, <2>2, <2>3 DEF RecoverBegin
<1>4. CASE RecoverResume(p)
  BY <1>0, <1>1, <1>4, StopYields, GotoYields DEF RecoverResume, Steps, InjectSteps
<1>5. CASE RecoverConfirm(p)
  <2>1. CASE \E code : Stop(p, code)
    BY <1>0, <1>1, <1>5, <2>1, StopYields DEF RecoverConfirm
  <2>2. CASE mem' = [mem EXCEPT ![p].state = "Cooldown"] /\ UNCHANGED disk
    <3>1. mem'[p] = [mem[p] EXCEPT !.state = "Cooldown"]
      BY <1>0, <2>2 DEF JournalOK
    <3>2. /\ Bound(turns, mem[p]) /\ mem[p] \in Journal
          /\ mem[p].state = "AwaitContinuationStarted"
      BY <1>1, <1>5 DEF RecoverConfirm, StateAt, Continued
    <3>3. mem[p].cont # 0
      BY <3>2 DEF Bound
    <3> QED
      BY <2>2, <3>1, <3>2, <3>3, StateBound DEF Yields
  <2> QED
    BY <1>5, <2>1, <2>2 DEF RecoverConfirm
<1>6. CASE RecoverFinish(p)
  <2>1. Bound(turns, mem[p]) /\ disk' \in {disk, mem[p]} /\ pc'[p] # "finish"
    BY <1>0, <1>6 DEF RecoverFinish, Bindings, Save, Goto, JournalOK
  <2> QED
    BY <2>1 DEF Yields
<1> QED
  BY <1>2, <1>3, <1>4, <1>5, <1>6 DEF RecoveryNext

LEMMA ScheduleYields ==
  ASSUME JournalIInv, Bindings, NEW p \in Proc, Prepare(p) \/ Accept(p) \/ AcceptAwait(p)
  PROVE  Yields(p)
<1>0. JournalOK
  BY TypeParts DEF JournalIInv
<1>1. ASSUME NEW code, Reject(p, code) PROVE pc'[p] = "serving"
  BY <1>0, <1>1 DEF Reject, Goto, JournalOK
<1>2. CASE Prepare(p)
  BY <1>0, <1>1, <1>2 DEF Prepare, Goto, JournalOK, Yields
<1>3. CASE Accept(p)
  <2> DEFINE journal == NewJournal(accepted + 1, mem[p].source)
  <2>1. /\ journal.compact = 0 /\ ~journal.capsule /\ journal.cont = 0
        /\ journal.state = "Attaching"
    BY DEF NewJournal, NoJournal
  <2>2. Bound(turns, journal)
    BY <2>1 DEF Bound
  <2>3. disk' \in {disk, journal}
    BY <1>3 DEF Accept, Save
  <2>4. pc'[p] # "finish"
    BY <1>0, <1>1, <1>3 DEF Accept, Goto, JournalOK
  <2> QED
    BY <2>2, <2>3, <2>4 DEF Yields
<1>4. CASE AcceptAwait(p)
  <2> DEFINE journal == [mem[p] EXCEPT !.state = "AwaitSourceTurnCompleted"]
  <2>1. Bound(turns, mem[p]) /\ mem[p] \in Journal
    BY <1>4, WorkingBound DEF AcceptAwait, Working
  <2>2. Bound(turns, journal)
    BY <2>1, StateBound
  <2>3. disk' \in {disk, journal}
    BY <1>4 DEF AcceptAwait, Save
  <2>4. pc'[p] # "finish"
    BY <1>0, <1>1, <1>4 DEF AcceptAwait, Goto, JournalOK
  <2> QED
    BY <2>2, <2>3, <2>4 DEF Yields
<1> QED
  BY <1>2, <1>3, <1>4

LEMMA LastStepsYield ==
  ASSUME JournalIInv, Bindings, NEW p \in Proc, WaitExpires(p) \/ TaskFinish(p) \/ Cleanup(p)
  PROVE  Yields(p)
<1>0. JournalOK
  BY TypeParts DEF JournalIInv
<1>1. CASE WaitExpires(p)
  <2>1. pc[p] \in Working /\ Stop(p, "Timeout")
    BY <1>1 DEF WaitExpires, Working, ReadingSource, Continued
  <2> QED
    BY <1>0, <2>1, WorkingBound, StopYields
<1>2. CASE TaskFinish(p)
  <2>1. Bound(turns, mem[p]) /\ disk' \in {disk, mem[p]} /\ pc'[p] # "finish"
    BY <1>0, <1>2 DEF TaskFinish, Bindings, Save, Goto, JournalOK
  <2> QED
    BY <2>1 DEF Yields
<1>3. CASE Cleanup(p)
  BY <1>0, <1>3, GotoYields DEF Cleanup, Steps
<1> QED
  BY <1>1, <1>2, <1>3

LEMMA ProceedYields ==
  ASSUME JournalIInv, RecoveryCurrent, Bindings, Effects, Answers, NEW p \in Proc,
         Follows(p), Proceed(p)
  PROVE  Yields(p)
BY CompactYields, InjectYields, RecoverYields, ScheduleYields, LastStepsYield DEF Proceed

LEMMA BindingsStep ==
  ASSUME JournalIInv, RecoveryCurrent, StreamInv, Bindings, Effects, Answers, [Next]_vars
  PROVE  Bindings'
<1>0. HistoryStays /\ JournalOK
  BY StepStays, TypeParts DEF JournalIInv
<1>1. \A journal : Bound(turns, journal) => Bound(turns', journal)
  BY <1>0, BoundStays
<1>2. ASSUME NEW p \in Proc, Yields(p), Private(p) PROVE Bindings'
  BY <1>1, <1>2 DEF Bindings, Yields, Private
<1>3. ASSUME NEW p \in Proc, Proceed(p) PROVE Bindings'
  BY <1>0, <1>2, <1>3, ProceedYields, ProceedIsPrivate DEF StreamInv
<1>4. ASSUME UNCHANGED disk,
             \A q \in Proc : pc'[q] = "finish" => pc[q] = "finish" /\ mem'[q] = mem[q]
      PROVE  Bindings'
  BY <1>1, <1>4 DEF Bindings
<1>5. ASSUME NEW p \in Proc, Boot(p) \/ Crash(p) \/ CallRejected(p) \/ ScheduleBegin(p)
      PROVE  Bindings'
  <2>1. UNCHANGED disk
    BY <1>5 DEF Boot, Crash, CallRejected, ScheduleBegin, programVars
  <2>2. \A q \in Proc : pc'[q] = "finish" => pc[q] = "finish" /\ mem'[q] = mem[q]
    BY <1>0, <1>5
       DEF Boot, Crash, CallRejected, ScheduleBegin, programVars, Goto, JournalOK
  <2> QED
    BY <1>4, <2>1, <2>2
<1>6. CASE ThreadNext \/ UNCHANGED vars
  BY <1>4, <1>6 DEF ThreadNext, programVars, vars
<1> QED
  BY <1>3, <1>5, <1>6 DEF Next

-----------------------------------------------------------------------------
(* What a process knows has happened *)

\* How a process gets to the steps at which it counts on an effect.
LEMMA EffectFlow ==
  ASSUME JournalOK, NEW p \in Proc, Proceed(p)
  PROVE  /\ pc'[p] = "awaitCompaction" =>
              \/ pc[p] = "awaitCompaction"
              \/ pc[p] = "waitCompact" /\ call[p].status = "accepted"
         /\ pc'[p] \in ReadingCompaction =>
              pc[p] \in {"awaitCompaction"} \union ReadingCompaction
         /\ pc'[p] = "saveCapsule" =>
              /\ pc[p] = "readCompact" /\ disk' = disk
              /\ require_completed_compaction_boundary(turns, mem[p].compact) = "None"
         /\ pc'[p] = "saveStarting" => pc[p] = "waitInject" /\ call[p].status = "accepted"
<1> USE DEF JournalOK, Goto, Stop, ReadingCompaction
<1>1. CASE AwaitSource(p) \/ DrainSource(p) \/ RedrainSource(p)
  BY <1>1 DEF AwaitSource, DrainSource, RedrainSource, RejectQueued
<1>2. CASE ReadSource(p) \/ GuardSource(p)
  BY <1>2 DEF ReadSource, GuardSource, GuardDescendants, ReadThread
<1>3. CASE SaveReady(p) \/ SaveSent(p) \/ SendCompact(p)
  BY <1>3 DEF SaveReady, SaveSent, SendCompact, Record, Advance, SendOnce
<1>4. CASE WaitCompact(p) \/ DrainCompact(p) \/ ReadCompact(p) \/ SaveCapsule(p)
  BY <1>4 DEF WaitCompact, DrainCompact, ReadCompact, SaveCapsule, RejectQueued, ReadThread
<1>5. CASE AwaitCompaction(p)
  BY <1>5 DEF AwaitCompaction, Advance
<1>6. CASE DrainInject(p) \/ RedrainInject(p) \/ DrainUser(p)
  BY <1>6 DEF DrainInject, RedrainInject, RejectStarted, DrainUser, UserWins, Advance, Done
<1>7. CASE GuardInject(p) \/ SendInject(p) \/ SendStart(p)
  BY <1>7 DEF GuardInject, GuardDescendants, ReadThread, SendInject, SendStart, SendOnce
<1>8. CASE SaveInjecting(p) \/ SaveStarting(p) \/ SaveCooldown(p)
  BY <1>8 DEF SaveInjecting, SaveStarting, SaveCooldown, Record, Advance, Done
<1>9. CASE WaitInject(p) \/ AwaitStarted(p) \/ ConfirmStarted(p)
  BY <1>9 DEF WaitInject, AwaitStarted, ConfirmStarted
<1>10. CASE WaitStart(p)
  BY <1>10 DEF WaitStart, UserWins, Advance, Done
<1>11. CASE RecoveryNext(p)
  BY <1>11
     DEF RecoveryNext, RecoverSkip, RecoverBegin, RecoverResume, RecoverConfirm,
         RecoverFinish
<1>12. CASE Prepare(p) \/ Accept(p) \/ AcceptAwait(p)
  BY <1>12 DEF Prepare, Accept, AcceptAwait, Reject
<1>13. CASE WaitExpires(p) \/ TaskFinish(p) \/ Cleanup(p)
  BY <1>13 DEF WaitExpires, TaskFinish, Cleanup
<1> QED
  BY <1>1, <1>2, <1>3, <1>4, <1>5, <1>6, <1>7, <1>8, <1>9, <1>10, <1>11, <1>12, <1>13
     DEF Proceed, CompactNext, InjectNext

LEMMA AdvanceState ==
  ASSUME NEW p \in Proc, NEW journal \in Journal, NEW next, NEW step,
         Advance(p, journal, next, step)
  PROVE  disk' = disk \/ disk'.state = next
<1> DEFINE entered == [journal EXCEPT !.state = next]
<1>1. entered.state = next
  BY DEF Journal
<1>2. disk' \in {disk, entered}
  BY DEF Advance, Save, Stop
<1> QED
  BY <1>1, <1>2

\* Who writes that the injection was answered.
LEMMA StartingFlow ==
  ASSUME JournalOK, ChannelOK, StreamOK, NEW p \in Proc, Proceed(p),
         disk'.state = "StartingContinuation"
  PROVE  disk' = disk \/ pc[p] \in {"saveStarting", "saveCapsule", "finish"}
<1>0. mem[p] \in Journal
  BY DEF JournalOK
<1>1. ASSUME NEW journal \in Journal, NEW next, NEW step, next # "StartingContinuation",
             Advance(p, journal, next, step)
      PROVE  disk' = disk
  BY <1>1, AdvanceState
<1>2. ASSUME NEW from, NEW next, NEW step, next # "StartingContinuation",
             Record(p, from, next, step)
      PROVE  disk' = disk
  BY <1>0, <1>1, <1>2 DEF Record
<1>3. CASE AwaitSource(p) \/ DrainSource(p) \/ RedrainSource(p) \/ DrainCompact(p)
  BY <1>3 DEF AwaitSource, DrainSource, RedrainSource, DrainCompact, RejectQueued, Stop
<1>4. CASE ReadSource(p) \/ GuardSource(p) \/ ReadCompact(p) \/ GuardInject(p)
  BY <1>4 DEF ReadSource, GuardSource, ReadCompact, GuardInject, GuardDescendants,
              ReadThread, Stop
<1>5. CASE SaveReady(p) \/ SaveSent(p) \/ SaveInjecting(p) \/ SaveCooldown(p)
  BY <1>2, <1>5 DEF SaveReady, SaveSent, SaveInjecting, SaveCooldown
<1>6. CASE SendCompact(p) \/ SendInject(p) \/ SendStart(p) \/ WaitCompact(p) \/ WaitInject(p)
  BY <1>6 DEF SendCompact, SendInject, SendStart, SendOnce, WaitCompact, WaitInject, Stop
<1>7. CASE SaveCapsule(p) \/ SaveStarting(p) \/ RecoverFinish(p) \/ TaskFinish(p)
  BY <1>7 DEF SaveCapsule, SaveStarting, Record, RecoverFinish, TaskFinish
<1>8. CASE AwaitCompaction(p)
  <2>1. ASSUME NEW turn \in Nat PROVE [mem[p] EXCEPT !.compact = turn] \in Journal
    BY <1>0, <2>1, JournalFields
  <2>2. Head(stream[p]).turn \in Nat
    BY <1>8, HeadType DEF AwaitCompaction
  <2> QED
    BY <1>0, <1>1, <1>8, <2>1, <2>2 DEF AwaitCompaction, Stop
<1>9. \A turn \in Nat : [mem[p] EXCEPT !.cont = turn] \in Journal
  BY <1>0, JournalFields
<1>10. CASE DrainUser(p)
  BY <1>1, <1>9, <1>10, DrainStartedTurn DEF DrainUser, UserWins, Stop
<1>11. CASE WaitStart(p)
  <2>1. call[p].turn \in Nat
    BY DEF ChannelOK, Call
  <2> QED
    BY <1>1, <1>9, <1>11, <2>1, DrainStartedTurn DEF WaitStart, UserWins, Stop
<1>12. CASE DrainInject(p) \/ RedrainInject(p) \/ AwaitStarted(p) \/ ConfirmStarted(p)
  BY <1>12 DEF DrainInject, RedrainInject, RejectStarted, AwaitStarted, ConfirmStarted, Stop
<1>13. CASE RecoverSkip(p) \/ RecoverBegin(p) \/ RecoverResume(p) \/ RecoverConfirm(p)
  BY <1>13 DEF RecoverSkip, RecoverBegin, RecoverResume, RecoverConfirm, Stop
<1>14. CASE Prepare(p) \/ WaitExpires(p) \/ Cleanup(p)
  BY <1>14 DEF Prepare, WaitExpires, Cleanup, Stop
<1>15. CASE Accept(p)
  <2>1. disk' \in {disk, NewJournal(accepted + 1, mem[p].source)}
    BY <1>15 DEF Accept, Save
  <2> QED
    BY <2>1 DEF NewJournal, NoJournal
<1>16. CASE AcceptAwait(p)
  <2>1. disk' \in {disk, [mem[p] EXCEPT !.state = "AwaitSourceTurnCompleted"]}
    BY <1>16 DEF AcceptAwait, Save
  <2> QED
    BY <1>0, <2>1 DEF Journal
<1> QED
  BY <1>3, <1>4, <1>5, <1>6, <1>7, <1>8, <1>10, <1>11, <1>12, <1>13, <1>14, <1>15, <1>16
     DEF Proceed, RecoveryNext, CompactNext, InjectNext

\* A process gets to its work by its own step.
LEMMA WorkersMove ==
  ASSUME JournalOK, [Next]_vars, NEW q \in Proc, pc'[q] \in Working
  PROVE  Proceed(q) \/ (pc'[q] = pc[q] /\ mem'[q] = mem[q])
<1>1. ASSUME NEW p \in Proc, Proceed(p), p # q PROVE pc'[q] = pc[q] /\ mem'[q] = mem[q]
  BY <1>1, ProceedIsPrivate DEF Private
<1>2. ASSUME NEW p \in Proc, Boot(p) \/ Crash(p) \/ CallRejected(p) \/ ScheduleBegin(p)
      PROVE  pc'[q] = pc[q] /\ mem'[q] = mem[q]
  BY <1>2, WorkingGoesOn
     DEF Boot, Crash, CallRejected, ScheduleBegin, programVars, Goto, JournalOK
<1>3. CASE ThreadNext \/ UNCHANGED vars
  BY <1>3 DEF ThreadNext, programVars, vars
<1> QED
  BY <1>1, <1>2, <1>3 DEF Next

\* Who is at work has the journal of the file after the step too.
LEMMA WorkingAfter ==
  ASSUME JournalIInv', NEW p \in Proc, pc'[p] \in Working
  PROVE  mem'[p] = disk' /\ StateAt(pc'[p], disk'.state)
BY WorkingHolds DEF JournalIInv, JournalInv, WorkerOK, Working, Holding, ReadingSource,
   ReadingCompaction, Injectable, InjectionSent, Continuing, Continued, StateAt

LEMMA InjectedStep ==
  ASSUME JournalIInv, JournalStep, Effects, [Next]_vars, disk'.state \in Injected
  PROVE  Effected(turns', injections', "inject", disk'.tid)
<1>0. /\ TypeOK /\ JournalOK /\ ChannelOK /\ StreamOK /\ "inject" \in Methods
      /\ JournalInv
  BY TypeParts DEF JournalIInv, Methods
<1>1. disk'.tid = disk.tid
  BY DEF JournalStep, Progress, Renewal, Injected
<1>2. Effected(turns, injections, "inject", disk.tid)
  <2>1. CASE disk.state \in Injected
    BY <2>1 DEF Effects
  <2>2. CASE disk.state \notin Injected
    <3>1. disk.state = "InjectingCheckpoint" /\ disk'.state = "StartingContinuation"
      BY <2>2 DEF JournalStep, Progress, Renewal, Injected, transition_allowed
    <3>2. disk' # disk
      BY <3>1
    <3>3. PICK p \in Proc : Proceed(p)
      BY <3>2 DEF Next, ThreadNext, Boot, Crash, CallRejected, ScheduleBegin, programVars, vars
    <3>4. pc[p] \in {"saveStarting", "saveCapsule", "finish"}
      BY <1>0, <3>1, <3>2, <3>3, StartingFlow
    <3>5. pc[p] # "saveCapsule"
      <4>1. pc[p] = "saveCapsule" => disk.state = "AwaitCompactionTurnCompleted"
        <5>1. "saveCapsule" \in Working /\ "saveCapsule" \in ReadingCompaction
          BY DEF Working, ReadingCompaction
        <5> QED
          BY <1>0, <5>1, WorkingHolds, WorkingState DEF JournalInv, StateAt, JournalOK
      <4> QED
        BY <3>1, <4>1
    <3>6. pc[p] # "finish"
      <4>1. ASSUME pc[p] = "finish" PROVE disk' \in {disk, mem[p]}
        BY <3>3, <4>1
           DEF Proceed, RecoveryNext, CompactNext, InjectNext, RecoverSkip, RecoverBegin,
               RecoverResume, RecoverConfirm, RecoverFinish, Prepare, Accept, AcceptAwait,
               AwaitSource, DrainSource, ReadSource, GuardSource, RedrainSource, SaveReady,
               SaveSent, SendCompact, WaitCompact, AwaitCompaction, DrainCompact, ReadCompact,
               SaveCapsule, DrainInject, GuardInject, RedrainInject, SaveInjecting,
               SendInject, WaitInject, SaveStarting, DrainUser, SendStart, WaitStart,
               AwaitStarted, ConfirmStarted, SaveCooldown, WaitExpires, TaskFinish, Cleanup,
               Record, SendOnce, Save
      <4>2. pc[p] = "finish" => is_terminal(mem[p].state)
        BY <1>0 DEF JournalInv, Holding, WorkerOK, Concludes
      <4> QED
        BY <3>1, <4>1, <4>2 DEF is_terminal, Terminal
    <3> QED
      BY <3>4, <3>5, <3>6 DEF Effects
  <2> QED
    BY <2>1, <2>2
<1> QED
  BY <1>0, <1>1, <1>2, EffectsStay

LEMMA CapsuleFirst ==
  ASSUME JournalIInv, JournalIInv', JournalStep, RequestsInv, Bindings, Effects, [Next]_vars,
         Asked("inject", disk.tid)'
  PROVE  disk'.capsule
<1>0. /\ JournalOK /\ ChannelOK /\ {"compact", "inject", "start"} \subseteq Methods
      /\ disk.tid \in Nat /\ disk'.tid \in Nat /\ accepted \in Nat /\ disk.tid <= accepted
  BY TypeParts, TidGrows DEF JournalIInv, JournalInv, BookOK, Methods
<1>1. CASE AsksNothing
  <2>1. Asked("inject", disk'.tid)
    BY <1>0, <1>1, AsksOfDisk
  <2>2. ~Renewal
    BY <1>0, <2>1 DEF RequestsInv, Lone, Renewal
  <2>3. disk.capsule
    <3>1. disk'.tid = disk.tid
      BY <2>2 DEF JournalStep, Progress
    <3> QED
      BY <2>1, <3>1 DEF Effects
  <2> QED
    BY <2>2, <2>3 DEF JournalStep, Progress
<1>2. ASSUME NEW p \in Proc, NEW method \in Methods, Sent(p, method) PROVE disk'.capsule
  <2>1. disk' = disk
    BY <1>2 DEF Sent
  <2>2. CASE method = "inject"
    <3>1. pc[p] = "sendInject" /\ pc[p] \in Working /\ pc[p] \in CapsuleStored
      BY <1>2, <2>2 DEF Sent, SentFrom, Working, CapsuleStored, InjectionSent
    <3> QED
      BY <2>1, <3>1, WorkingBound
  <2>3. CASE method # "inject"
    <3>1. \A tid : Asked("inject", tid)' => Asked("inject", tid)
      BY <1>0, <1>2, <2>3, SentAsks
    <3>2. Asked("inject", disk'.tid)
      BY <3>1 DEF Asked, InFlight, Injections
    <3> QED
      BY <2>1, <3>2 DEF Effects
  <2> QED
    BY <2>2, <2>3
<1>3. Kept \/ (\E r \in BagToSet(inbox) : Served(r)) => AsksNothing
  BY <1>0, KeptAsks, ServedAsks DEF AsksNothing
<1> QED
  BY <1>1, <1>2, <1>3, StepRequests DEF JournalIInv

LEMMA CompactedLater ==
  ASSUME JournalIInv, JournalIInv', JournalStep, RequestsInv, SourceInv, Effects, [Next]_vars,
         NEW t \in CompactTurns(disk.tid)'
  PROVE  t > disk'.source
<1>0. /\ TypeOK /\ HistoryOK /\ JournalOK /\ ChannelOK
      /\ {"compact", "inject", "start"} \subseteq Methods
      /\ disk.tid \in Nat /\ disk'.tid \in Nat /\ accepted \in Nat /\ disk.tid <= accepted
      /\ Len(turns) \in Nat /\ Len(turns') \in Nat
  BY TypeParts, TypePartsPrimed, TidGrows, LenProperties
     DEF JournalIInv, JournalInv, BookOK, Methods, HistoryOK
<1>1. HistoryStays
  BY <1>0, StepStays
<1>2. /\ t \in 1..Len(turns') /\ turns'[t].origin = "compact" /\ turns'[t].tid = disk'.tid
  BY DEF CompactTurns
<1>3. CASE t <= Len(turns)
  <2>1. t \in CompactTurns(disk'.tid)
    BY <1>0, <1>1, <1>2, <1>3 DEF CompactTurns, HistoryStays
  <2>2. ~Renewal
    <3>1. Asked("compact", disk'.tid)
      BY <2>1 DEF Asked
    <3> QED
      BY <1>0, <3>1 DEF RequestsInv, Lone, Renewal
  <2>3. disk'.tid = disk.tid /\ disk'.source = disk.source
    BY <2>2 DEF JournalStep, Progress
  <2> QED
    BY <2>1, <2>3 DEF Effects
<1>4. CASE t > Len(turns)
  <2>1. turns' # turns
    BY <1>0, <1>2, <1>4
  <2>2. AsksNothing
    BY <1>0, <2>1, StepRequests, KeptAsks, ServedAsks DEF AsksNothing, Sent
  <2>3. Asked("compact", disk.tid)'
    BY DEF Asked
  <2>4. Asked("compact", disk'.tid)
    BY <1>0, <2>2, <2>3, AsksOfDisk
  <2>5. ~Renewal
    BY <1>0, <2>4 DEF RequestsInv, Lone, Renewal
  <2>6. disk'.tid = disk.tid /\ disk'.source = disk.source
    BY <2>5 DEF JournalStep, Progress
  <2>7. disk.source \in 1..Len(turns)
    BY <2>4, <2>6 DEF SourceInv, SourceOK, unique_turn
  <2> QED
    BY <1>0, <1>2, <1>4, <2>6, <2>7
<1> QED
  BY <1>0, <1>2, <1>3, <1>4

\* The compaction the last read has found is the one that was asked for.
LEMMA ReadCompacted ==
  ASSUME JournalIInv, Bindings, Effects, NEW p \in Proc, pc[p] = "readCompact",
         require_completed_compaction_boundary(turns, mem[p].compact) = "None"
  PROVE  Compacted(turns, disk)
<1>1. pc[p] \in Working /\ pc[p] \in ReadingCompaction
  BY DEF Working, ReadingCompaction
<1>2. mem[p] = disk /\ disk \in Journal /\ Bound(turns, disk)
  BY <1>1, WorkingBound
<1>3. /\ disk.compact \in 1..Len(turns) /\ disk.compact = Len(turns)
      /\ is_completed_pure_compaction(turns[disk.compact])
  BY <1>2
     DEF require_completed_compaction_boundary, exact_last_turn, unique_turn
<1>4. Len(turns) \in Nat /\ disk.source \in Nat
  BY <1>2, StreamFacts DEF JournalIInv, Journal
<1>5. disk.compact = disk.source + 1
  BY <1>2, <1>3, <1>4 DEF Bound
<1>6. PICK t \in 1..Len(turns) : turns[t].origin = "compact" /\ turns[t].tid = disk.tid
  BY <1>1 DEF Effects, Effected
<1>7. t = disk.compact
  <2>1. t > disk.source
    BY <1>6 DEF Effects, CompactTurns
  <2> QED
    BY <1>3, <1>4, <1>5, <2>1
<1> QED
  BY <1>3, <1>5, <1>6, <1>7 DEF Compacted, unique_turn

LEMMA KnownStep ==
  ASSUME JournalIInv, JournalIInv', JournalStep, Bindings, Effects, Answers, [Next]_vars,
         NEW q \in Proc
  PROVE  /\ pc'[q] \in {"awaitCompaction"} \union ReadingCompaction =>
              Effected(turns', injections', "compact", disk'.tid)
         /\ pc'[q] = "saveCapsule" => Compacted(turns', disk')
         /\ pc'[q] = "saveStarting" => Effected(turns', injections', "inject", disk'.tid)
<1>0. TypeOK /\ JournalOK /\ HistoryStays /\ {"compact", "inject"} \subseteq Methods
  BY TypeParts, StepStays DEF JournalIInv, Methods
<1>1. ASSUME pc'[q] \in Working, disk'.state # "Attaching"
      PROVE  /\ disk'.tid = disk.tid
             /\ Proceed(q) \/ (pc'[q] = pc[q] /\ mem'[q] = mem[q])
  BY <1>0, <1>1, WorkersMove DEF JournalStep, Progress, Renewal
<1>2. ASSUME pc'[q] \in {"awaitCompaction"} \union ReadingCompaction
      PROVE  Effected(turns', injections', "compact", disk'.tid)
  <2>1. pc'[q] \in Working
    BY <1>2 DEF Working
  <2>2. disk'.state # "Attaching"
    BY <1>2, <2>1, WorkingAfter DEF StateAt, Compacting
  <2>3. Effected(turns, injections, "compact", disk.tid)
    <3>1. CASE pc[q] \in {"awaitCompaction"} \union ReadingCompaction
      BY <3>1 DEF Effects
    <3>2. CASE pc[q] = "waitCompact" /\ call[q].status = "accepted"
      <4>1. mem[q] = disk
        BY <3>2, WorkingBound DEF Working
      <4> QED
        BY <3>2, <4>1 DEF Answers, AnswerTrue
    <3> QED
      BY <1>0, <1>1, <1>2, <2>1, <2>2, <3>1, <3>2, EffectFlow
  <2> QED
    BY <1>0, <1>1, <2>1, <2>2, <2>3, EffectsStay
<1>3. ASSUME pc'[q] = "saveStarting"
      PROVE  Effected(turns', injections', "inject", disk'.tid)
  <2>1. pc'[q] \in Working
    BY <1>3 DEF Working, InjectionSent
  <2>2. disk'.state # "Attaching"
    BY <1>3, <2>1, WorkingAfter DEF StateAt, InjectionSent
  <2>3. Effected(turns, injections, "inject", disk.tid)
    <3>1. CASE pc[q] = "saveStarting"
      BY <3>1 DEF Effects
    <3>2. CASE pc[q] = "waitInject" /\ call[q].status = "accepted"
      <4>1. mem[q] = disk
        BY <3>2, WorkingBound DEF Working, InjectionSent
      <4> QED
        BY <3>2, <4>1 DEF Answers, AnswerTrue
    <3> QED
      BY <1>0, <1>1, <1>3, <2>1, <2>2, <3>1, <3>2, EffectFlow
  <2> QED
    BY <1>0, <1>1, <2>1, <2>2, <2>3, EffectsStay
<1>4. ASSUME pc'[q] = "saveCapsule" PROVE Compacted(turns', disk')
  <2>1. pc'[q] \in Working
    BY <1>4 DEF Working, ReadingCompaction
  <2>2. disk'.state # "Attaching"
    BY <1>4, <2>1, WorkingAfter DEF StateAt, ReadingCompaction
  <2>3. CASE Proceed(q)
    <3>1. /\ pc[q] = "readCompact" /\ disk' = disk
          /\ require_completed_compaction_boundary(turns, mem[q].compact) = "None"
      BY <1>0, <1>4, <2>3, EffectFlow
    <3> QED
      BY <1>0, <3>1, ReadCompacted, CompactedStays
  <2>4. CASE pc'[q] = pc[q] /\ mem'[q] = mem[q]
    <3>1. mem[q] = disk /\ mem'[q] = disk'
      BY <1>4, <2>1, <2>4, WorkingBound, WorkingAfter
    <3>2. Compacted(turns, disk)
      BY <1>4, <2>4 DEF Effects
    <3> QED
      BY <1>0, <2>4, <3>1, <3>2, CompactedStays
  <2> QED
    BY <1>1, <2>1, <2>2, <2>3, <2>4
<1> QED
  BY <1>2, <1>3, <1>4

LEMMA EffectsStep ==
  ASSUME JournalIInv, JournalIInv', JournalStep, RequestsInv, SourceInv, Bindings, Effects,
         Answers, [Next]_vars
  PROVE  Effects'
<1>1. disk'.state \in Injected => Effected(turns', injections', "inject", disk'.tid)
  BY InjectedStep
<1>2. Asked("inject", disk.tid)' => disk'.capsule
  BY CapsuleFirst
<1>3. \A t \in CompactTurns(disk.tid)' : t > disk'.source
  BY CompactedLater
<1>4. \A q \in Proc :
        /\ pc'[q] \in {"awaitCompaction"} \union ReadingCompaction =>
             Effected(turns', injections', "compact", disk'.tid)
        /\ pc'[q] = "saveCapsule" => Compacted(turns', disk')
        /\ pc'[q] = "saveStarting" => Effected(turns', injections', "inject", disk'.tid)
  BY KnownStep
<1> QED
  BY <1>1, <1>2, <1>3, <1>4 DEF Effects, Injected

-----------------------------------------------------------------------------
(* What the answers say *)

\* A step leaves p's call as it is, ends it, or brings the server's verdict.
Verdict(p) ==
  /\ call[p].status = "waiting"
  /\ call'[p].method = call[p].method /\ call'[p].tid = call[p].tid
  /\ call'[p].status = "accepted" =>
       /\ call[p].method \in Methods
       /\ Effected(turns', injections', call[p].method, call[p].tid)
       /\ call[p].method = "start" =>
            call'[p].turn = Len(turns) + 1 /\ Len(turns') = Len(turns) + 1

LEMMA AnswerGiven ==
  ASSUME ChannelOK, NEW p \in Proc, NEW request \in Request, NEW status, NEW turn,
         Answer(request, status, turn)
  PROVE  \/ call'[p] = call[p]
         \/ /\ call[p].status = "waiting"
            /\ call'[p].method = call[p].method /\ call'[p].tid = call[p].tid
            /\ call[p].method = request.method /\ call[p].tid = request.tid
            /\ call'[p].status = status /\ call'[p].turn = turn
<1>1. call[p] \in Call
  BY DEF ChannelOK
<1>2. CASE ~Awaits(p, request)
  BY <1>2 DEF Answer
<1>3. CASE Awaits(p, request)
  <2>1. call'[p] = [call[p] EXCEPT !.status = status, !.turn = turn]
    BY <1>3 DEF Answer
  <2> QED
    BY <1>1, <1>3, <2>1 DEF Awaits, Call
<1> QED
  BY <1>2, <1>3

\* The turn a request starts is in the history.
LEMMA StartedTurn ==
  ASSUME HistoryOK, NEW origin \in Origins, NEW tid \in Nat, StartTurn(origin, tid)
  PROVE  /\ Len(turns) \in Nat /\ Len(turns') = Len(turns) + 1
         /\ Len(turns) + 1 \in 1..Len(turns')
         /\ turns'[Len(turns) + 1].origin = origin /\ turns'[Len(turns) + 1].tid = tid
<1>1. NewTurn(origin, tid) \in Turn
  BY NewTurnType
<1>2. /\ Len(turns) \in Nat /\ Len(turns') = Len(turns) + 1
      /\ turns'[Len(turns) + 1] = NewTurn(origin, tid)
  BY <1>1, LenProperties, AppendProperties DEF StartTurn, HistoryOK
<1> QED
  BY <1>2 DEF NewTurn

LEMMA ServeVerdict ==
  ASSUME HistoryOK, ChannelOK, ServeRequest, NEW p \in Proc
  PROVE  call'[p] = call[p] \/ Verdict(p)
<1>1. PICK r \in BagToSet(inbox) :
        ServeCompact(r) \/ ServeStart(r) \/ ServeInject(r) \/ Refuse(r)
  BY DEF ServeRequest
<1>2. r \in Request /\ r.tid \in Nat /\ r.method \in Methods
  BY DEF ChannelOK, Request
<1>3. CASE ServeCompact(r)
  <2>1. "compact" \in Origins
    BY DEF Origins, CompactionOrigins
  <2>2. Effected(turns', injections', "compact", r.tid)
    BY <1>2, <1>3, <2>1, StartedTurn DEF ServeCompact, Effected
  <2> QED
    BY <1>2, <1>3, <2>2, AnswerGiven DEF ServeCompact, Verdict
<1>4. CASE ServeStart(r)
  <2>1. "continuation" \in Origins
    BY DEF Origins
  <2>2. Effected(turns', injections', "start", r.tid) /\ Len(turns') = Len(turns) + 1
    BY <1>2, <1>4, <2>1, StartedTurn DEF ServeStart, Effected
  <2> QED
    BY <1>2, <1>4, <2>2, AnswerGiven DEF ServeStart, Verdict
<1>5. CASE ServeInject(r)
  <2>1. /\ Len(injections) + 1 \in 1..Len(injections')
        /\ injections'[Len(injections) + 1].tid = r.tid
    BY <1>5, LenProperties, AppendProperties DEF ServeInject, HistoryOK
  <2>2. Effected(turns', injections', "inject", r.tid)
    BY <2>1 DEF Effected
  <2> QED
    BY <1>2, <1>5, <2>2, AnswerGiven DEF ServeInject, Verdict
<1>6. CASE Refuse(r)
  BY <1>2, <1>6, AnswerGiven DEF Refuse, Verdict
<1> QED
  BY <1>1, <1>3, <1>4, <1>5, <1>6

LEMMA ThreadVerdict ==
  ASSUME HistoryOK, ChannelOK, ThreadNext, NEW p \in Proc
  PROVE  call'[p] = call[p] \/ Verdict(p)
BY ServeVerdict
   DEF ThreadNext, UserTurn, EndTurn, CompactionItemStarts, CompactionItemEnds, Disconnect,
       AskClient, Lag, Repeat

\* p has just sent a request, and waits for the answer.
Calls(p, method) ==
  /\ call'[p].status = "waiting" /\ call'[p].method = method
  /\ call'[p].tid = mem[p].tid /\ mem'[p] = mem[p]

LEMMA SendCalls ==
  ASSUME ChannelOK, JournalOK, NEW p \in Proc, NEW from, NEW method, NEW next, NEW code,
         SendOnce(p, from, method, next, code)
  PROVE  /\ \A q \in Proc \ {p} : call'[q] = call[q]
         /\ call'[p] = call[p] \/ call'[p].status # "accepted"
         /\ Calls(p, method) \/ pc'[p] = "finish"
<1>1. CASE Stop(p, code) /\ UnchangedThread
  BY <1>1 DEF UnchangedThread, threadVars, Stop, Goto, JournalOK
<1>2. CASE Send(p, method, mem[p].tid) /\ UNCHANGED mem
  BY <1>2 DEF Send, ChannelOK, NoCall, Calls
<1> QED
  BY <1>1, <1>2 DEF SendOnce

\* What a step of a process does to the calls.
LEMMA CallFlow ==
  ASSUME ChannelOK, JournalOK, NEW p \in Proc, Proceed(p)
  PROVE  /\ \A q \in Proc \ {p} : call'[q] = call[q]
         /\ call'[p] = call[p] \/ call'[p].status # "accepted"
         /\ pc'[p] = "waitCompact" => Calls(p, "compact")
         /\ pc'[p] = "waitInject" => Calls(p, "inject")
         /\ pc'[p] = "waitStart" => Calls(p, "start")
<1> DEFINE Idle == pc'[p] \notin Awaiting
           Ends == call' = [call EXCEPT ![p] = NoCall]
<1>1. Idle /\ Ends => 
        /\ \A q \in Proc \ {p} : call'[q] = call[q]
        /\ call'[p].status # "accepted" /\ pc'[p] \notin Awaiting
  BY DEF ChannelOK, NoCall
<1>2. ASSUME Idle, call' = call \/ Ends
      PROVE  /\ \A q \in Proc \ {p} : call'[q] = call[q]
             /\ call'[p] = call[p] \/ call'[p].status # "accepted"
             /\ pc'[p] \notin Awaiting
  BY <1>1, <1>2
<1> USE DEF JournalOK, Goto, Stop, Awaiting, UnchangedThread, threadVars
<1>3. CASE AwaitSource(p) \/ DrainSource(p) \/ RedrainSource(p)
  BY <1>2, <1>3 DEF AwaitSource, DrainSource, RedrainSource, RejectQueued
<1>4. CASE ReadSource(p) \/ GuardSource(p)
  BY <1>2, <1>4 DEF ReadSource, GuardSource, GuardDescendants, ReadThread
<1>5. CASE SaveReady(p) \/ SaveSent(p)
  BY <1>2, <1>5 DEF SaveReady, SaveSent, Record, Advance
<1>6. CASE DrainCompact(p) \/ ReadCompact(p) \/ SaveCapsule(p)
  BY <1>2, <1>6 DEF DrainCompact, ReadCompact, SaveCapsule, RejectQueued, ReadThread
<1>7. CASE WaitCompact(p) \/ WaitInject(p)
  BY <1>2, <1>7 DEF WaitCompact, WaitInject
<1>8. CASE AwaitCompaction(p)
  BY <1>2, <1>8 DEF AwaitCompaction, Advance
<1>9. CASE DrainInject(p) \/ RedrainInject(p) \/ DrainUser(p)
  BY <1>2, <1>9
     DEF DrainInject, RedrainInject, RejectStarted, DrainUser, UserWins, Advance, Done
<1>10. CASE GuardInject(p)
  BY <1>2, <1>10 DEF GuardInject, GuardDescendants, ReadThread
<1>11. CASE SaveInjecting(p) \/ SaveStarting(p) \/ SaveCooldown(p)
  BY <1>2, <1>11 DEF SaveInjecting, SaveStarting, SaveCooldown, Record, Advance, Done
<1>12. CASE AwaitStarted(p) \/ ConfirmStarted(p)
  BY <1>2, <1>12 DEF AwaitStarted, ConfirmStarted
<1>13. CASE WaitStart(p)
  BY <1>2, <1>13 DEF WaitStart, UserWins, Advance, Done
<1>14. CASE RecoverSkip(p) \/ RecoverBegin(p) \/ RecoverResume(p) \/ RecoverConfirm(p)
  BY <1>2, <1>14 DEF RecoverSkip, RecoverBegin, RecoverResume, RecoverConfirm
<1>15. CASE RecoverFinish(p) \/ Cleanup(p)
  BY <1>2, <1>15 DEF RecoverFinish, Cleanup, Unsubscribe
<1>16. CASE Prepare(p) \/ Accept(p) \/ AcceptAwait(p)
  BY <1>2, <1>16 DEF Prepare, Accept, AcceptAwait, Reject, Unsubscribe
<1>17. CASE WaitExpires(p) \/ TaskFinish(p)
  BY <1>2, <1>17 DEF WaitExpires, TaskFinish
<1>18. CASE SendCompact(p)
  <2>1. pc'[p] \in {"finish", "waitCompact"}
    BY <1>18 DEF SendCompact, SendOnce
  <2> QED
    BY <1>18, <2>1, SendCalls DEF SendCompact
<1>19. CASE SendInject(p)
  <2>1. pc'[p] \in {"finish", "waitInject"}
    BY <1>19 DEF SendInject, SendOnce
  <2> QED
    BY <1>19, <2>1, SendCalls DEF SendInject
<1>20. CASE SendStart(p)
  <2>1. pc'[p] \in {"finish", "waitStart"}
    BY <1>20 DEF SendStart, SendOnce
  <2> QED
    BY <1>20, <2>1, SendCalls DEF SendStart
<1> QED
  BY <1>3, <1>4, <1>5, <1>6, <1>7, <1>8, <1>9, <1>10, <1>11, <1>12, <1>13, <1>14, <1>15,
     <1>16, <1>17, <1>18, <1>19, <1>20
     DEF Proceed, RecoveryNext, CompactNext, InjectNext

\* A call that has changed in neither of these ways is as true as before.
LEMMA AnswerStays ==
  ASSUME TypeOK, [Next]_vars, NEW p \in Proc, AnswerTrue(p), call'[p] = call[p], Unmoved(p)
  PROVE  AnswerTrue(p)'
<1>1. call[p].status = "accepted" =>
        Effected(turns', injections', call[p].method, call[p].tid)
  BY EffectsStay DEF AnswerTrue
<1>2. Base(p)' = Base(p)
  BY DEF Base, Unmoved
<1>3. Len(turns) <= Len(turns') /\ Len(turns) \in Nat /\ Len(turns') \in Nat
  BY StepStays, TypeNext, StreamFacts, StreamFactsPrimed DEF HistoryStays
<1>4. call[p].turn \in Nat
  BY TypeParts DEF ChannelOK, Call
<1> QED
  BY <1>1, <1>2, <1>3, <1>4 DEF AnswerTrue, Unmoved

LEMMA VerdictTrue ==
  ASSUME TypeOK, NEW p \in Proc, Follows(p), AnswerTrue(p), Verdict(p), Unmoved(p)
  PROVE  AnswerTrue(p)'
<1>1. Base(p)' = Base(p)
  BY DEF Base, Unmoved
<1>2. pc[p] = "waitStart" => Base(p) <= Len(turns)
  BY DEF Follows, Attentive, Watched, Continuing
<1>3. Len(turns) \in Nat /\ Base(p) \in Nat
  BY StreamFacts
<1> QED
  BY <1>1, <1>2, <1>3 DEF AnswerTrue, Verdict, Unmoved

LEMMA AnswersStep ==
  ASSUME JournalIInv, StreamInv, Answers, [Next]_vars
  PROVE  Answers'
<1>0. TypeOK /\ HistoryOK /\ ChannelOK /\ JournalOK
  BY TypeParts DEF JournalIInv
<1>1. ASSUME NEW q \in Proc, call'[q] = call[q], Unmoved(q) PROVE AnswerTrue(q)'
  BY <1>0, <1>1, AnswerStays DEF Answers
<1>2. CASE ThreadNext
  <2> SUFFICES ASSUME NEW q \in Proc PROVE AnswerTrue(q)'
    BY DEF Answers
  <2>1. Unmoved(q)
    BY <1>2 DEF ThreadNext, programVars, Unmoved
  <2> QED
    BY <1>0, <1>1, <1>2, <2>1, ThreadVerdict, VerdictTrue DEF Answers, StreamInv
<1>3. CASE UNCHANGED vars
  BY <1>1, <1>3 DEF vars, Unmoved, Answers
<1>4. ASSUME NEW p \in Proc, call'[p] = call[p] \/ call'[p].status # "accepted",
             pc'[p] \notin Awaiting
      PROVE  AnswerTrue(p)'
  BY <1>0, <1>4, EffectsStay DEF AnswerTrue, Answers, Awaiting
<1>5. ASSUME NEW p \in Proc, Proceed(p) PROVE Answers'
  <2> SUFFICES ASSUME NEW q \in Proc PROVE AnswerTrue(q)'
    BY DEF Answers
  <2>1. CASE q # p
    <3>1. call'[q] = call[q] /\ Unmoved(q)
      BY <1>0, <1>5, <2>1, CallFlow, ProceedIsPrivate DEF Private, Unmoved
    <3> QED
      BY <1>1, <3>1
  <2>2. CASE q = p /\ pc'[p] \notin Awaiting
    BY <1>0, <1>4, <1>5, <2>2, CallFlow
  <2>3. CASE q = p /\ pc'[p] \in Awaiting
    <3>1. \E method \in {"compact", "inject", "start"} : Calls(p, method)
      BY <1>0, <1>5, <2>3, CallFlow DEF Awaiting
    <3>2. call'[p].status # "accepted"
      BY <3>1 DEF Calls
    <3> QED
      BY <1>0, <1>5, <2>3, <3>2, CallFlow DEF AnswerTrue, Calls
  <2> QED
    BY <2>1, <2>2, <2>3
<1>6. ASSUME NEW p \in Proc, Boot(p) \/ Crash(p) \/ CallRejected(p) \/ ScheduleBegin(p)
      PROVE  Answers'
  <2> SUFFICES ASSUME NEW q \in Proc PROVE AnswerTrue(q)'
    BY DEF Answers
  <2>1. CASE call'[q] = call[q] /\ Unmoved(q)
    BY <1>1, <2>1
  <2>2. CASE /\ call'[q] = call[q] \/ call'[q].status # "accepted"
             /\ pc'[q] \notin Awaiting
    BY <1>4, <2>2
  <2>3. CASE Boot(p) \/ ScheduleBegin(p)
    BY <1>0, <2>1, <2>2, <2>3
       DEF Boot, ScheduleBegin, UnchangedThread, threadVars, Goto, JournalOK, Unmoved, Awaiting
  <2>4. CASE Crash(p)
    BY <1>0, <2>1, <2>2, <2>4
       DEF Crash, Unsubscribe, Goto, JournalOK, ChannelOK, NoCall, Unmoved, Awaiting
  <2>5. CASE CallRejected(p)
    BY <2>1, <2>5 DEF CallRejected, programVars, Unmoved
  <2> QED
    BY <1>6, <2>3, <2>4, <2>5
<1> QED
  BY <1>2, <1>3, <1>5, <1>6 DEF Next

-----------------------------------------------------------------------------
(* The theorems *)

LEMMA BindingInit == Init => BindingInv
<1> SUFFICES ASSUME Init PROVE BindingInv
  OBVIOUS
<1>1. Bound(turns, disk) /\ \A p \in Proc : pc[p] = "down"
  BY DEF Init, NoJournal, Bound
<1>2. Bindings
  BY <1>1 DEF Bindings
<1>3. Effects
  <2>1. ~Asked("inject", disk.tid)
    BY DEF Init, ThreadInit, EmptyBag, SetToBag, BagToSet, Asked, InFlight, Injections
  <2>2. CompactTurns(disk.tid) = {}
    BY DEF Init, ThreadInit, CompactTurns, NewTurn
  <2>3. disk.state = "None"
    BY DEF Init, NoJournal
  <2> QED
    BY <1>1, <2>1, <2>2, <2>3 DEF Effects, Injected, ReadingCompaction
<1>4. Answers
  BY <1>1 DEF Init, ThreadInit, NoCall, Answers, AnswerTrue
<1> QED
  BY <1>2, <1>3, <1>4 DEF BindingInv

LEMMA BindingNext ==
  ASSUME JournalIInv, RequestsInv, SourceInv, StreamInv, BindingInv, RecoveryCurrent,
         [Next]_vars
  PROVE  BindingInv'
<1>1. JournalIInv' /\ JournalStep
  BY JournalIInvNext
<1> QED
  BY <1>1, BindingsStep, EffectsStep, AnswersStep DEF BindingInv

\* The journal's turns and its capsule, the effects of its requests, and the
\* answers to them fit each other at every step (runner.rs:54-195, 260-421,
\* 560-700).
THEOREM BindingsCorrect == Spec /\ []RecoveryCurrent => []BindingInv
<1>1. /\ JournalIInv /\ RequestsInv /\ SourceInv /\ StreamInv /\ BindingInv
      /\ RecoveryCurrent /\ [Next]_vars
      => BindingInv'
  BY BindingNext
<1> QED
  BY <1>1, BindingInit, RequestsCorrect, SourceCorrect, StreamCorrect, PTL DEF Spec

\* A stored capsule belongs to the compaction this transition asked for, which
\* directly follows its source turn and completed alone and without error: no
\* user turn and no compaction by hand is taken for it, however events are lost,
\* repeated or late; and nothing is injected before the capsule is stored
\* (runner.rs:54-79, 260-421, 547-560).
THEOREM CapsuleIsBound == Spec /\ []RecoveryCurrent => []CapsuleBinding
<1>1. JournalIInv /\ BindingInv => CapsuleBinding
  <2> SUFFICES ASSUME JournalIInv, BindingInv PROVE CapsuleBinding
    OBVIOUS
  <2>1. Asked("inject", disk.tid) => disk.capsule
    BY DEF BindingInv, Effects
  <2>2. disk.capsule => Compacted(turns, disk)
    BY DEF BindingInv, Bindings, Bound
  <2> QED
    BY <2>1, <2>2 DEF CapsuleBinding, Compacted, CompactTurns, unique_turn
<1> QED
  BY <1>1, BindingsCorrect, RequestsCorrect, PTL

\* Cooldown is reached only when the capsule is in the thread and the turn it is
\* counted from exists and came after the compaction.  Repeated notifications
\* are excluded: a second start of the compaction turn is taken for the turn
\* that follows it (runner.rs:130-195, 620-700, recovery.rs:127-150).
THEOREM CooldownIsEarned ==
  "duplicate" \notin Faults /\ Spec /\ []RecoveryCurrent => []CooldownEarned
<1> SUFFICES ASSUME "duplicate" \notin Faults
             PROVE  Spec /\ []RecoveryCurrent => []CooldownEarned
  OBVIOUS
<1>1. BindingInv => CooldownEarned
  <2> SUFFICES ASSUME BindingInv, disk.state = "Cooldown"
               PROVE  /\ Injections(disk.tid) # {}
                      /\ unique_turn(turns, disk.cont)
                      /\ disk.cont > disk.compact
    BY DEF CooldownEarned
  <2>1. Effected(turns, injections, "inject", disk.tid)
    BY DEF BindingInv, Effects, Injected
  <2> QED
    BY <2>1 DEF BindingInv, Bindings, Bound, Effected, Injections
<1> QED
  BY <1>1, BindingsCorrect, PTL

\* A process that is alone needs no hypothesis on recovery.
THEOREM AloneIsBound ==
  /\ OneProcess /\ Spec => [](SourceQuiescent /\ CapsuleBinding)
  /\ "duplicate" \notin Faults /\ OneProcess /\ Spec => []CooldownEarned
BY RecoveryIsCurrent, SourceIsQuiescent, CapsuleIsBound, CooldownIsEarned, PTL

-----------------------------------------------------------------------------
(* Compactions are spaced *)

\* Nobody gives up on a request that may still be served.
Prompt == Faults \cap {"timeout", "disconnect", "delay"} = {}

\* The steps of a transition from its preflight to its request.
AskingSteps ==
  {"accept", "acceptAwait", "awaitSource", "drainSource", "readSource", "guardSource",
   "redrainSource", "saveReady", "saveSent", "sendCompact"}

Requested(p) == \E r \in BagToSet(inbox) : r.proc = p /\ r.method = "compact"

\* Whose final read of its source turn has found the receipt; who asks; who has a source.
Confirmed(p) == pc[p] \in SourceRead \/ Requested(p)
Asking(p) == pc[p] \in AskingSteps \/ Requested(p)
Sourcing(p) == pc[p] = "prepare" \/ Asking(p)

Heard == \A p \in Proc : conn[p] # "closed"

\* The sender of a request that is on its way waits for the answer.
Waited(r) ==
  /\ inbox[r] = 1 /\ pc[r.proc] = "waitCompact"
  /\ call[r.proc].status = "waiting" /\ call[r.proc].method = "compact"
  /\ call[r.proc].tid = r.tid /\ mem[r.proc].tid = r.tid

NoneSince(n) == \A t \in 1..Len(turns) : n <= t => turns[t].origin # "compact"

Spaced(n) ==
  \A c \in CompletedCompactionsBefore(turns, n) :
    completed_regular_turns_between(turns, c, n) >= CooldownTurns

\* What the preflight has counted before the source turn stays true until the
\* compaction is served, the program compacts nothing in between, and the final read of
\* the source turn has found the receipt.
SpacedInv ==
  /\ Heard
  /\ \A r \in BagToSet(inbox) : r.method = "compact" => Waited(r)
  /\ \A p \in Proc :
       /\ Sourcing(p) => unique_turn(turns, mem[p].source) /\ NoneSince(mem[p].source)
       /\ Asking(p) => Spaced(mem[p].source)
       /\ Confirmed(p) => ReceiptIn(mem[p].source, mem[p].tid)
  /\ CompactionsSpaced

\* The fewer turns lie between, the fewer regular ones do.
LEMMA FewerBetween ==
  ASSUME NEW history, Len(history) \in Nat,
         NEW c \in Nat, NEW d \in Nat, NEW m \in Nat, NEW n \in Nat, c <= d, n <= m
  PROVE  /\ completed_regular_turns_between(history, d, n) \in Nat
         /\ completed_regular_turns_between(history, c, m) \in Nat
         /\ completed_regular_turns_between(history, d, n)
              <= completed_regular_turns_between(history, c, m)
<1> DEFINE few == {i \in 1..Len(history) : d < i /\ i < n /\ is_completed_regular(history[i])}
           many == {i \in 1..Len(history) : c < i /\ i < m /\ is_completed_regular(history[i])}
<1>1. IsFiniteSet(1..Len(history)) /\ many \in SUBSET (1..Len(history))
  BY FS_Interval
<1>2. IsFiniteSet(many)
  BY <1>1, FS_Subset
<1>3. few \in SUBSET many
  OBVIOUS
<1>4. IsFiniteSet(few) /\ Cardinality(few) <= Cardinality(many)
  BY <1>2, <1>3, FS_Subset
<1>5. Cardinality(few) \in Nat /\ Cardinality(many) \in Nat
  BY <1>2, <1>4, FS_CardinalityType
<1> QED
  BY <1>4, <1>5 DEF completed_regular_turns_between

LEMMA TurnCounts ==
  ASSUME TypeOK, TypeOK'
  PROVE  Len(turns) \in Nat /\ Len(turns') \in Nat
BY TypeParts, TypePartsPrimed, LenProperties DEF HistoryOK

\* The preflight looks at the latest compaction only, which is enough.
LEMMA PreflightSpaces ==
  ASSUME HistoryOK, NEW n \in Nat, ~recent_native_compaction(turns, n)
  PROVE  Spaced(n)
<1> SUFFICES ASSUME NEW c \in CompletedCompactionsBefore(turns, n)
             PROVE  completed_regular_turns_between(turns, c, n) >= CooldownTurns
  BY DEF Spaced
<1> DEFINE S == CompletedCompactionsBefore(turns, n)
           L == Len(turns)
           M == {L - i : i \in S}
<1>1. L \in Nat /\ S \subseteq 1..L /\ c \in S
  BY LenProperties DEF HistoryOK, CompletedCompactionsBefore
<1>2. M \subseteq Nat /\ M # {}
  <2>1. \A i \in S : L - i \in Nat
    <3> HIDE DEF S
    <3> QED BY <1>1
  <2> HIDE DEF S, L
  <2> QED BY <1>1, <2>1
<1>3. PICK m \in M : \A j \in M : m <= j
  BY <1>2, LeastNumber
<1>4. PICK last \in S : \A d \in S : d <= last
  <2> HIDE DEF S, L
  <2>1. PICK last \in S : m = L - last
    BY <1>3
  <2>2. ASSUME NEW d \in S PROVE d <= last
    <3>1. L - last <= L - d
      BY <1>3, <2>1
    <3> QED BY <1>1, <3>1
  <2> QED BY <2>2
<1>5. ~(completed_regular_turns_between(turns, last, n) < CooldownTurns)
  BY <1>4 DEF recent_native_compaction
<1>6. /\ completed_regular_turns_between(turns, last, n) \in Nat
      /\ completed_regular_turns_between(turns, c, n) \in Nat
      /\ completed_regular_turns_between(turns, last, n)
           <= completed_regular_turns_between(turns, c, n)
  BY <1>1, <1>4, FewerBetween
<1> QED
  BY <1>5, <1>6, CooldownTurnsAssumption

Extends(old, new) == \A i \in 1..Len(old) : i \in 1..Len(new) /\ new[i] = old[i]

\* The turns before the last one keep their status and their items, every turn its
\* origin, its transition and the calls it has.
GoesOn ==
  /\ Len(turns) <= Len(turns') /\ Len(turns') <= Len(turns) + 1
  /\ \A t \in 1..Len(turns) :
       /\ turns'[t].origin = turns[t].origin /\ turns'[t].tid = turns[t].tid
       /\ Extends(turns[t].calls, turns'[t].calls)
       /\ t < Len(turns) =>
            turns'[t].status = turns[t].status /\ turns'[t].items = turns[t].items

\* A new turn in which the program compacts has been asked for.
Begins ==
  Len(turns') > Len(turns) /\ turns'[Len(turns')].origin = "compact" =>
    /\ \E r \in BagToSet(inbox) :
         r.method = "compact" /\ r.tid = turns'[Len(turns')].tid /\ Served(r)
    /\ UNCHANGED programVars

LEMMA SameGoesOn ==
  ASSUME HistoryOK, UNCHANGED turns
  PROVE  GoesOn /\ Begins
BY LenProperties DEF HistoryOK, GoesOn, Begins, Extends

LEMMA StartGoesOn ==
  ASSUME HistoryOK, NEW origin \in Origins, NEW tid \in Nat, StartTurn(origin, tid)
  PROVE  /\ GoesOn /\ Len(turns') = Len(turns) + 1 /\ Len(turns) \in Nat
         /\ turns'[Len(turns')].origin = origin /\ turns'[Len(turns')].tid = tid
<1>1. NewTurn(origin, tid) \in Turn
  BY NewTurnType
<1>2. /\ Len(turns) \in Nat /\ Len(turns') = Len(turns) + 1
      /\ \A t \in 1..Len(turns) : turns'[t] = turns[t]
      /\ turns'[Len(turns) + 1] = NewTurn(origin, tid)
  BY <1>1, LenProperties, AppendProperties DEF StartTurn, HistoryOK
<1> QED
  BY <1>2 DEF NewTurn, GoesOn, Extends

LEMMA RunningGoesOn ==
  ASSUME HistoryOK, NEW n \in 1..Len(turns), NEW turn,
         turns' = [turns EXCEPT ![n] = turn],
         turn.origin = turns[n].origin, turn.tid = turns[n].tid,
         Extends(turns[n].calls, turn.calls),
         n = Len(turns) \/ (turn.status = turns[n].status /\ turn.items = turns[n].items)
  PROVE  GoesOn /\ Begins
<1>1. Len(turns) \in Nat /\ turns \in Seq(Turn)
  BY LenProperties DEF HistoryOK
<1>2. Len(turns') = Len(turns) /\ \A t \in 1..Len(turns) : t # n => turns'[t] = turns[t]
  BY <1>1
<1>3. turns'[n] = turn
  BY <1>1
<1>4. ~(Len(turns') > Len(turns)) /\ Len(turns') <= Len(turns) + 1 /\ Len(turns) <= Len(turns')
  <2>1. \A k, m : k \in Nat /\ m = k => ~(m > k) /\ m <= k + 1 /\ k <= m
    OBVIOUS
  <2> QED
    BY <1>1, <1>2, <2>1, Zenon
<1>5. ASSUME NEW t \in 1..Len(turns)
      PROVE  /\ turns'[t].origin = turns[t].origin /\ turns'[t].tid = turns[t].tid
             /\ Extends(turns[t].calls, turns'[t].calls)
             /\ t < Len(turns) =>
                  turns'[t].status = turns[t].status /\ turns'[t].items = turns[t].items
  <2>1. CASE t # n
    BY <1>2, <2>1 DEF Extends
  <2>2. CASE t = n
    <3>1. t = Len(turns) => ~(t < Len(turns))
      BY <1>1
    <3> QED
      BY <1>3, <2>2, <3>1
  <2> QED
    BY <2>1, <2>2
<1> QED
  BY <1>4, <1>5 DEF GoesOn, Begins

LEMMA RecordGoesOn ==
  ASSUME HistoryOK, NEW source, NEW receipt \in Nat, NEW ok \in BOOLEAN,
         RecordCall(source, receipt, ok)
  PROVE  GoesOn /\ Begins
<1>1. CASE turns' = turns
  BY <1>1, SameGoesOn
<1>2. CASE /\ unique_turn(turns, source)
           /\ turns' = [turns EXCEPT ![source].calls =
                           Append(@, [receipt |-> receipt, ok |-> ok])]
  <2>1. source \in 1..Len(turns) /\ turns[source] \in Turn
    BY <1>2, ElementOfSeq DEF unique_turn, HistoryOK
  <2> DEFINE calls == Append(turns[source].calls, [receipt |-> receipt, ok |-> ok])
             turn == [turns[source] EXCEPT !.calls = calls]
  <2>2. turns' = [turns EXCEPT ![source] = turn]
    BY <1>2
  <2> HIDE DEF calls
  <2>3. /\ turn.origin = turns[source].origin /\ turn.status = turns[source].status
        /\ turn.items = turns[source].items /\ turn.tid = turns[source].tid
        /\ turn.calls = calls
    BY <2>1 DEF Turn
  <2>4. Extends(turns[source].calls, calls)
    <3>1. /\ turns[source].calls \in Seq([receipt : Nat, ok : BOOLEAN])
          /\ [receipt |-> receipt, ok |-> ok] \in [receipt : Nat, ok : BOOLEAN]
      BY <2>1 DEF Turn
    <3> QED
      BY <3>1, AppendProperties, LenProperties DEF Extends, calls
  <2> HIDE DEF turn
  <2> QED
    BY <2>1, <2>2, <2>3, <2>4, RunningGoesOn
<1> QED
  BY <1>1, <1>2 DEF RecordCall

LEMMA ServeGoesOn ==
  ASSUME HistoryOK, ChannelOK, ServeRequest, UNCHANGED programVars
  PROVE  GoesOn /\ Begins
<1>1. PICK r \in BagToSet(inbox) :
        /\ inbox' = inbox (-) SetToBag({r})
        /\ ServeCompact(r) \/ ServeStart(r) \/ ServeInject(r) \/ Refuse(r)
  BY DEF ServeRequest
<1>2. r \in Request /\ r.tid \in Nat /\ r.method \in Methods
  BY DEF ChannelOK, Request
<1>3. CASE ServeCompact(r)
  <2>1. "compact" \in Origins
    BY DEF Origins, CompactionOrigins
  <2>2. \A method \in Methods : \A tid :
          \/ Taken(method, tid)' = Taken(method, tid)
          \/ /\ method = "compact" /\ tid = r.tid
             /\ Taken(method, tid)' = Taken(method, tid) \union {Len(turns) + 1}
    BY <1>3, <2>1, StartTurnTaken DEF ServeCompact
  <2>3. Served(r) /\ r.method = "compact"
    BY <1>1, <1>2, <1>3, <2>2 DEF Served, ServeCompact
  <2>4. /\ GoesOn /\ Len(turns') = Len(turns) + 1 /\ Len(turns) \in Nat
        /\ turns'[Len(turns')].origin = "compact" /\ turns'[Len(turns')].tid = r.tid
    BY <1>2, <1>3, <2>1, StartGoesOn DEF ServeCompact
  <2> QED
    BY <2>3, <2>4 DEF Begins
<1>4. CASE ServeStart(r)
  <2>1. "continuation" \in Origins
    BY DEF Origins
  <2>2. /\ GoesOn /\ Len(turns') = Len(turns) + 1 /\ Len(turns) \in Nat
        /\ turns'[Len(turns')].origin = "continuation"
    BY <1>2, <1>4, <2>1, StartGoesOn DEF ServeStart
  <2> QED
    BY <2>2 DEF Begins
<1>5. CASE ServeInject(r) \/ Refuse(r)
  BY <1>5, SameGoesOn DEF ServeInject, Refuse
<1> QED
  BY <1>1, <1>3, <1>4, <1>5

LEMMA StepGoesOn ==
  ASSUME TypeOK, [Next]_vars
  PROVE  GoesOn /\ Begins
<1>0. HistoryOK /\ ChannelOK /\ JournalOK
  BY TypeParts
<1> USE DEF UnchangedThread, threadVars
<1>1. CASE UNCHANGED turns
  BY <1>0, <1>1, SameGoesOn
<1>2. CASE UserTurn
  <2>1. PICK origin \in {"user", "native"} :
          StartTurn(origin, 0)
    BY <1>2 DEF UserTurn
  <2>2. origin \in Origins /\ 0 \in Nat
    BY <2>1 DEF Origins, CompactionOrigins
  <2>3. /\ GoesOn /\ Len(turns') = Len(turns) + 1 /\ Len(turns) \in Nat
        /\ turns'[Len(turns')].origin = origin
    BY <1>0, <2>1, <2>2, StartGoesOn
  <2> QED
    BY <2>1, <2>3 DEF Begins
<1>3. CASE EndTurn \/ CompactionItemStarts \/ CompactionItemEnds
  <2> DEFINE n == Len(turns)
  <2>1. n \in 1..Len(turns) /\ turns[n] \in Turn /\ turns \in Seq(Turn)
    BY <1>0, <1>3, LastTurn DEF EndTurn, CompactionItemStarts, CompactionItemEnds, HistoryOK
  <2> HIDE DEF n
  <2>2. CASE EndTurn
    <3>1. PICK ok, tail :
            turns' = [turns EXCEPT ![n].status = IF ok THEN "completed" ELSE "failed",
                                   ![n].tail = tail]
      BY <2>2 DEF EndTurn, n
    <3> DEFINE turn == [turns[n] EXCEPT !.status = IF ok THEN "completed" ELSE "failed",
                                        !.tail = tail]
    <3>2. turns' = [turns EXCEPT ![n] = turn]
      BY <2>1, <3>1
    <3>3. /\ turn.origin = turns[n].origin /\ turn.tid = turns[n].tid
          /\ Extends(turns[n].calls, turn.calls)
      BY <2>1 DEF Turn, Extends
    <3> HIDE DEF turn
    <3> QED
      BY <1>0, <2>1, <3>2, <3>3, RunningGoesOn DEF n
  <2>3. CASE CompactionItemStarts \/ CompactionItemEnds
    <3>1. PICK items :
            turns' = [turns EXCEPT ![n] = [turns[n] EXCEPT !.items = items]]
      <4>1. CASE CompactionItemStarts
        BY <4>1 DEF CompactionItemStarts, n
      <4>2. CASE CompactionItemEnds
        <5>1. PICK i, state : turns' = [turns EXCEPT ![n].items[i] = state]
          BY <4>2 DEF CompactionItemEnds, n
        <5> QED
          BY <5>1
      <4> QED
        BY <2>3, <4>1, <4>2
    <3> DEFINE turn == [turns[n] EXCEPT !.items = items]
    <3>2. /\ turn.origin = turns[n].origin /\ turn.tid = turns[n].tid
          /\ Extends(turns[n].calls, turn.calls)
      BY <2>1 DEF Turn, Extends
    <3> HIDE DEF turn
    <3> QED
      BY <1>0, <2>1, <3>1, <3>2, RunningGoesOn DEF n, turn
  <2> QED
    BY <1>3, <2>2, <2>3
<1>4. CASE \E source : \E receipt \in Nat, ok \in BOOLEAN : RecordCall(source, receipt, ok)
  BY <1>0, <1>4, RecordGoesOn
<1>5. CASE ThreadNext
  BY <1>0, <1>1, <1>2, <1>3, <1>5, ServeGoesOn
     DEF ThreadNext, Disconnect, AskClient, Lag, Repeat
<1>6. ASSUME NEW p \in Proc, CompactNext(p) \/ InjectNext(p) PROVE GoesOn /\ Begins
  BY <1>0, <1>1, <1>6, WorkRequests DEF Sent
<1>7. ASSUME NEW p \in Proc, RecoveryNext(p) PROVE GoesOn /\ Begins
  BY <1>1, <1>7
     DEF RecoveryNext, RecoverSkip, RecoverBegin, RecoverResume, RecoverConfirm,
         RecoverFinish
<1>8. ASSUME NEW p \in Proc, Prepare(p) \/ Accept(p) \/ AcceptAwait(p) \/ CallRejected(p)
      PROVE  GoesOn /\ Begins
  <2>1. /\ 0 \in Nat /\ mem[p].tid \in Nat /\ TRUE \in BOOLEAN
        /\ \A code : is_expected_rejection(code) \in BOOLEAN
    BY <1>0 DEF JournalOK, Journal, is_expected_rejection
  <2>2. CASE CallRejected(p)
    BY <1>4, <2>1, <2>2 DEF CallRejected
  <2>3. ASSUME NEW code, Reject(p, code) PROVE GoesOn /\ Begins
    <3>1. RecordCall(mem[p].source, 0, is_expected_rejection(code))
      BY <2>3 DEF Reject
    <3> QED
      BY <1>4, <2>1, <3>1
  <2>4. CASE Prepare(p) \/ Accept(p) \/ AcceptAwait(p)
    BY <1>1, <1>4, <2>1, <2>3, <2>4 DEF Prepare, Accept, AcceptAwait
  <2> QED
    BY <1>8, <2>2, <2>4
<1>9. ASSUME NEW p \in Proc,
             \/ WaitExpires(p) \/ TaskFinish(p) \/ Cleanup(p)
             \/ Boot(p) \/ Crash(p) \/ ScheduleBegin(p)
      PROVE  GoesOn /\ Begins
  BY <1>1, <1>9 DEF WaitExpires, TaskFinish, Cleanup, Boot, Crash, ScheduleBegin
<1> QED
  BY <1>1, <1>5, <1>6, <1>7, <1>8, <1>9 DEF Next, Proceed, vars

-----------------------------------------------------------------------------
(* What lies before a turn stays as it is *)

LEMMA PastStays ==
  ASSUME TypeOK, TypeOK', GoesOn, NEW n \in Nat, n <= Len(turns)
  PROVE  Spaced(n)' <=> Spaced(n)
<1>1. Len(turns) \in Nat /\ Len(turns') \in Nat
  BY TurnCounts
<1>2. \A i \in 1..Len(turns') :
        i < n => /\ i \in 1..Len(turns)
                 /\ turns'[i].status = turns[i].status /\ turns'[i].items = turns[i].items
  BY <1>1 DEF GoesOn
<1>3. \A i \in 1..Len(turns) : i \in 1..Len(turns')
  BY <1>1 DEF GoesOn
<1>4. CompletedCompactionsBefore(turns', n) = CompletedCompactionsBefore(turns, n)
  BY <1>2, <1>3 DEF CompletedCompactionsBefore, is_compaction
<1>5. ASSUME NEW c
      PROVE  completed_regular_turns_between(turns', c, n)
               = completed_regular_turns_between(turns, c, n)
  <2>1. {i \in 1..Len(turns') : c < i /\ i < n /\ is_completed_regular(turns'[i])}
          = {i \in 1..Len(turns) : c < i /\ i < n /\ is_completed_regular(turns[i])}
    BY <1>2, <1>3 DEF is_completed_regular, is_compaction
  <2> QED
    BY <2>1 DEF completed_regular_turns_between
<1> QED
  BY <1>4, <1>5 DEF Spaced

LEMMA ReceiptStays ==
  ASSUME GoesOn, NEW n \in 1..Len(turns), NEW tid, ReceiptIn(n, tid)
  PROVE  ReceiptIn(n, tid)'
BY DEF GoesOn, Extends, ReceiptIn

ServesCompaction ==
  UNCHANGED programVars /\ \E r \in BagToSet(inbox) : r.method = "compact" /\ Served(r)

\* Unless a compaction is served, nothing after a turn compacts that did not.
LEMMA SinceStays ==
  ASSUME TypeOK, TypeOK', GoesOn, Begins, NEW n \in Nat, n <= Len(turns), NoneSince(n),
         ~ServesCompaction
  PROVE  NoneSince(n)'
<1>1. Len(turns) \in Nat /\ Len(turns') \in Nat
  BY TurnCounts
<1>2. ASSUME NEW t \in 1..Len(turns'), n <= t PROVE turns'[t].origin # "compact"
  <2>1. CASE t \in 1..Len(turns)
    BY <1>2, <2>1 DEF NoneSince, GoesOn
  <2>2. CASE t \notin 1..Len(turns)
    <3>1. t = Len(turns') /\ Len(turns') > Len(turns)
      BY <1>1, <2>2 DEF GoesOn
    <3> QED
      BY <3>1 DEF Begins, ServesCompaction
  <2> QED
    BY <2>1, <2>2
<1> QED
  BY <1>2 DEF NoneSince

-----------------------------------------------------------------------------
(* Who asks, and waits for the answer *)

LEMMA ConnFlow ==
  ASSUME NEW p \in Proc,
         Proceed(p) \/ Boot(p) \/ Crash(p) \/ CallRejected(p) \/ ScheduleBegin(p)
  PROVE  conn' = conn \/ \E s \in {"open", "none"} : conn' = [conn EXCEPT ![p] = s]
<1> USE DEF UnchangedThread, threadVars, Subscribe, Unsubscribe
<1>1. CASE \E allowed, step : RejectQueued(p, allowed, step)
  BY <1>1 DEF RejectQueued
<1>2. CASE \E step : RejectStarted(p, step)
  BY <1>2 DEF RejectStarted
<1>3. CASE \E code, step : ReadThread(p, code, step)
  BY <1>3 DEF ReadThread
<1>4. CASE \E from, state, next : Record(p, from, state, next)
  BY <1>4 DEF Record
<1>5. CASE \E from, method, next, code : SendOnce(p, from, method, next, code)
  BY <1>5 DEF SendOnce
<1>6. CASE AwaitSource(p) \/ WaitCompact(p) \/ AwaitCompaction(p) \/ SaveCapsule(p)
  BY <1>6 DEF AwaitSource, WaitCompact, AwaitCompaction, SaveCapsule
<1>7. CASE \/ WaitInject(p) \/ DrainUser(p) \/ WaitStart(p)
           \/ AwaitStarted(p) \/ ConfirmStarted(p)
  BY <1>7 DEF WaitInject, DrainUser, WaitStart, AwaitStarted, ConfirmStarted
<1>8. CASE CompactNext(p)
  BY <1>1, <1>3, <1>4, <1>5, <1>6, <1>8
     DEF CompactNext, DrainSource, ReadSource, GuardSource, GuardDescendants, RedrainSource,
         SaveReady, SaveSent, SendCompact, DrainCompact, ReadCompact
<1>9. CASE InjectNext(p)
  BY <1>2, <1>3, <1>4, <1>5, <1>7, <1>9
     DEF InjectNext, DrainInject, GuardInject, GuardDescendants, RedrainInject,
         SaveInjecting, SendInject, SaveStarting, SendStart, SaveCooldown
<1>10. CASE RecoveryNext(p)
  BY <1>10
     DEF RecoveryNext, RecoverSkip, RecoverBegin, RecoverResume, RecoverConfirm,
         RecoverFinish
<1>11. CASE Prepare(p) \/ Accept(p) \/ AcceptAwait(p)
  BY <1>11 DEF Prepare, Accept, AcceptAwait, Reject
<1>12. CASE \/ WaitExpires(p) \/ TaskFinish(p) \/ Cleanup(p) \/ Boot(p) \/ Crash(p)
            \/ CallRejected(p) \/ ScheduleBegin(p)
  BY <1>12 DEF WaitExpires, TaskFinish, Cleanup, Boot, Crash, CallRejected, ScheduleBegin
<1> QED
  BY <1>8, <1>9, <1>10, <1>11, <1>12 DEF Proceed

LEMMA HeardStep ==
  ASSUME Prompt, TypeOK, Heard, [Next]_vars
  PROVE  Heard'
<1>0. conn \in [Proc -> {"none", "open", "closed"}]
  BY TypeParts DEF ChannelOK
<1>1. CASE ThreadNext
  BY <1>0, <1>1
     DEF ThreadNext, UserTurn, EndTurn, CompactionItemStarts, CompactionItemEnds,
         ServeRequest, Disconnect, AskClient, Lag, Repeat, Prompt, Heard
<1>2. CASE UNCHANGED conn
  BY <1>2 DEF Heard
<1>3. ASSUME NEW p \in Proc, NEW s \in {"open", "none"}, conn' = [conn EXCEPT ![p] = s]
      PROVE  Heard'
  BY <1>0, <1>3 DEF Heard
<1> QED
  BY <1>1, <1>2, <1>3, ConnFlow DEF Next, vars

LEMMA AdvanceSource ==
  ASSUME JournalOK, NEW p \in Proc, NEW next, NEW step,
         Advance(p, mem[p], next, step), pc'[p] # "finish"
  PROVE  mem'[p].source = mem[p].source /\ mem'[p].tid = mem[p].tid
<1> DEFINE entered == [mem[p] EXCEPT !.state = next]
<1>1. entered.source = mem[p].source /\ entered.tid = mem[p].tid
  BY DEF JournalOK, Journal
<1>2. mem'[p] = entered
  BY DEF Advance, Stop, Goto, JournalOK
<1> QED
  BY <1>1, <1>2

\* A transition comes to its request from a preflight that found nothing, and from a
\* final read that found nothing.
LEMMA AskingFlow ==
  ASSUME JournalOK, NEW p \in Proc, Proceed(p), pc'[p] \in AskingSteps \union {"prepare"}
  PROVE  /\ pc'[p] # "prepare" /\ mem'[p].source = mem[p].source
         /\ \/ pc[p] \in AskingSteps
            \/ /\ pc[p] = "prepare"
               /\ preflight_root_and_cooldown(turns, mem[p].source, disk) = "None"
         /\ pc'[p] \in SourceRead =>
              /\ mem'[p].tid = mem[p].tid
              /\ \/ pc[p] \in SourceRead
                 \/ validate_final_source_snapshot(turns, mem[p].source, mem[p].tid) = "None"
<1> USE DEF JournalOK, Goto, Stop, AskingSteps, SourceRead
<1>1. CASE AwaitSource(p) \/ DrainSource(p) \/ RedrainSource(p)
  BY <1>1 DEF AwaitSource, DrainSource, RedrainSource, RejectQueued
<1>2. CASE ReadSource(p) \/ GuardSource(p)
  BY <1>2 DEF ReadSource, GuardSource, GuardDescendants, ReadThread
<1>3. CASE SaveReady(p) \/ SaveSent(p)
  <2>1. PICK next \in {"ReadyToCompact", "CompactRequestSent"} :
          \E step \in {"saveSent", "sendCompact"} : Advance(p, mem[p], next, step)
    BY <1>3 DEF SaveReady, SaveSent, Record
  <2>2. pc'[p] # "prepare" /\ pc'[p] # "finish"
    BY <2>1 DEF Advance
  <2>3. pc[p] \in {"saveReady", "saveSent"}
    BY <1>3 DEF SaveReady, SaveSent, Record
  <2> QED
    BY <2>1, <2>2, <2>3, AdvanceSource
<1>4. CASE SendCompact(p) \/ WaitCompact(p) \/ DrainCompact(p) \/ ReadCompact(p) \/ SaveCapsule(p)
  BY <1>4 DEF SendCompact, SendOnce, WaitCompact, DrainCompact, ReadCompact, SaveCapsule,
              RejectQueued, ReadThread
<1>5. CASE AwaitCompaction(p)
  BY <1>5 DEF AwaitCompaction, Advance
<1>6. CASE DrainInject(p) \/ RedrainInject(p) \/ DrainUser(p)
  BY <1>6 DEF DrainInject, RedrainInject, RejectStarted, DrainUser, UserWins, Advance, Done
<1>7. CASE GuardInject(p) \/ SendInject(p) \/ SendStart(p)
  BY <1>7 DEF GuardInject, GuardDescendants, ReadThread, SendInject, SendStart, SendOnce
<1>8. CASE SaveInjecting(p) \/ SaveStarting(p) \/ SaveCooldown(p)
  BY <1>8 DEF SaveInjecting, SaveStarting, SaveCooldown, Record, Advance, Done
<1>9. CASE WaitInject(p) \/ AwaitStarted(p) \/ ConfirmStarted(p)
  BY <1>9 DEF WaitInject, AwaitStarted, ConfirmStarted
<1>10. CASE WaitStart(p)
  BY <1>10 DEF WaitStart, UserWins, Advance, Done
<1>11. CASE RecoveryNext(p)
  BY <1>11
     DEF RecoveryNext, RecoverSkip, RecoverBegin, RecoverResume, RecoverConfirm,
         RecoverFinish
<1>12. CASE Prepare(p)
  BY <1>12 DEF Prepare, Reject
<1>13. CASE Accept(p) \/ AcceptAwait(p)
  <2>1. NewJournal(accepted + 1, mem[p].source).source = mem[p].source
    BY DEF NewJournal, NoJournal
  <2>2. [mem[p] EXCEPT !.state = "AwaitSourceTurnCompleted"].source = mem[p].source
    BY DEF Journal
  <2>3. CASE Accept(p)
    <3>1. /\ pc[p] = "accept" /\ pc'[p] \notin SourceRead \union {"prepare"}
          /\ mem'[p] = NewJournal(accepted + 1, mem[p].source)
      BY <2>3 DEF Accept, Reject
    <3> QED
      BY <2>1, <3>1
  <2>4. CASE AcceptAwait(p)
    <3>1. /\ pc[p] = "acceptAwait" /\ pc'[p] \notin SourceRead \union {"prepare"}
          /\ mem'[p] = [mem[p] EXCEPT !.state = "AwaitSourceTurnCompleted"]
      BY <2>4 DEF AcceptAwait, Reject
    <3> QED
      BY <2>2, <3>1
  <2> QED
    BY <1>13, <2>3, <2>4
<1>14. CASE WaitExpires(p) \/ TaskFinish(p) \/ Cleanup(p)
  BY <1>14 DEF WaitExpires, TaskFinish, Cleanup
<1> QED
  BY <1>1, <1>2, <1>3, <1>4, <1>5, <1>6, <1>7, <1>8, <1>9, <1>10, <1>11, <1>12, <1>13,
     <1>14 DEF Proceed, CompactNext, InjectNext

\* Whoever waits for an answer that can still come goes on waiting.
LEMMA WaitFlow ==
  ASSUME Prompt, Heard, NEW p \in Proc, pc[p] = "waitCompact", call[p].status = "waiting"
  PROVE  ~Proceed(p)
<1>1. ~CallBroken(p)
  BY DEF Prompt, Heard, CallBroken
<1>2. ~WaitCompact(p)
  BY <1>1 DEF WaitCompact
<1>3. ~CompactNext(p)
  BY <1>2
     DEF CompactNext, AwaitSource, DrainSource, ReadSource, GuardSource, RedrainSource,
         SaveReady, SaveSent, Record, SendCompact, SendOnce, AwaitCompaction, DrainCompact,
         ReadCompact, SaveCapsule
<1>4. ~InjectNext(p)
  BY DEF InjectNext, DrainInject, GuardInject, RedrainInject, SaveInjecting, Record,
         SendInject, SendOnce, WaitInject, SaveStarting, DrainUser, SendStart, WaitStart,
         AwaitStarted, ConfirmStarted, SaveCooldown
<1>5. ~RecoveryNext(p)
  BY DEF RecoveryNext, RecoverSkip, RecoverBegin, RecoverResume, RecoverConfirm,
         RecoverFinish
<1> QED
  BY <1>3, <1>4, <1>5
     DEF Proceed, Prepare, Accept, AcceptAwait, WaitExpires, TaskFinish, Cleanup

LEMMA SendFlow ==
  ASSUME NEW p \in Proc, pc[p] = "sendCompact", Proceed(p)
  PROVE  SendCompact(p)
<1>1. CompactNext(p) => SendCompact(p)
  BY DEF CompactNext, AwaitSource, DrainSource, ReadSource, GuardSource, RedrainSource,
         SaveReady, SaveSent, Record, WaitCompact, AwaitCompaction, DrainCompact,
         ReadCompact, SaveCapsule
<1>2. ~InjectNext(p)
  BY DEF InjectNext, DrainInject, GuardInject, RedrainInject, SaveInjecting, Record,
         SendInject, SendOnce, WaitInject, SaveStarting, DrainUser, SendStart, WaitStart,
         AwaitStarted, ConfirmStarted, SaveCooldown
<1>3. ~RecoveryNext(p)
  BY DEF RecoveryNext, RecoverSkip, RecoverBegin, RecoverResume, RecoverConfirm,
         RecoverFinish
<1> QED
  BY <1>1, <1>2, <1>3
     DEF Proceed, Prepare, Accept, AcceptAwait, WaitExpires, TaskFinish, Cleanup

LEMMA ThreadWaited ==
  ASSUME Prompt, TypeOK, ThreadNext, NEW r \in BagToSet(inbox)', r.method = "compact",
         r \in BagToSet(inbox) => Waited(r)
  PROVE  Waited(r)'
<1>0. ChannelOK /\ pc' = pc /\ mem' = mem
  BY TypeParts DEF ThreadNext, programVars
<1>1. CASE UNCHANGED <<inbox, call>>
  BY <1>0, <1>1 DEF Waited
<1>2. CASE ServeRequest
  <2>1. PICK s \in BagToSet(inbox) :
          /\ inbox' = inbox (-) SetToBag({s})
          /\ ServeCompact(s) \/ ServeStart(s) \/ ServeInject(s) \/ Refuse(s)
    BY <1>2 DEF ServeRequest
  <2>2. s \in Request /\ \E status, turn : Answer(s, status, turn)
    BY <1>0, <2>1 DEF ChannelOK, ServeCompact, ServeStart, ServeInject, Refuse
  <2>3. r \in BagToSet(inbox) /\ (r # s => inbox'[r] = inbox[r]) /\ (r = s => inbox[s] > 1)
    BY <1>0, <2>1, <2>2, LessInbox
  <2>4. Waited(r) /\ r \in Request /\ r # s
    BY <1>0, <2>3 DEF Waited, ChannelOK
  <2>5. ~Awaits(r.proc, s)
    <3>1. SUFFICES ASSUME Awaits(r.proc, s) PROVE FALSE
      OBVIOUS
    <3>2. r.proc = s.proc /\ r.method = s.method /\ r.tid = s.tid
      BY <2>4, <3>1 DEF Awaits, Waited
    <3> QED
      BY <2>2, <2>4, <3>2 DEF Request
  <2>6. call'[r.proc] = call[r.proc]
    BY <2>2, <2>4, <2>5 DEF Answer, Request
  <2> QED
    BY <1>0, <2>3, <2>4, <2>6 DEF Waited
<1> QED
  BY <1>1, <1>2
     DEF ThreadNext, UserTurn, EndTurn, CompactionItemStarts, CompactionItemEnds,
         Disconnect, AskClient, Lag, Repeat

LEMMA ProceedWaited ==
  ASSUME Prompt, TypeOK, Heard, NEW p \in Proc, Proceed(p),
         \A s \in BagToSet(inbox) : s.method = "compact" => Waited(s),
         NEW r \in BagToSet(inbox)', r.method = "compact"
  PROVE  Waited(r)'
<1>0. HistoryOK /\ ChannelOK /\ JournalOK /\ "compact" \in Methods
  BY TypeParts DEF Methods
<1>1. CASE r \in BagToSet(inbox)
  <2>1. Waited(r) /\ r \in Request /\ r.proc \in Proc
    BY <1>0, <1>1 DEF ChannelOK, Request
  <2>2. r.proc # p
    BY <2>1, WaitFlow DEF Waited
  <2>3. pc'[r.proc] = pc[r.proc] /\ call'[r.proc] = call[r.proc] /\ mem'[r.proc] = mem[r.proc]
    BY <1>0, <2>1, <2>2, ProceedIsPrivate, CallFlow DEF Private
  <2>4. inbox'[r] = inbox[r]
    <3>1. CASE Kept
      BY <3>1 DEF Kept
    <3>2. ASSUME NEW q \in Proc, NEW method \in Methods, Sent(q, method)
          PROVE  inbox'[r] = inbox[r]
      <4> DEFINE new == [proc |-> q, method |-> method, tid |-> mem[q].tid]
      <4>1. new \in Request /\ new # r
        BY <1>0, <2>1, <3>2 DEF Request, JournalOK, Journal, Sent, SentFrom, Methods, Waited
      <4> QED
        BY <1>0, <3>2, <4>1, MoreInbox DEF Sent
    <3> QED
      BY <1>0, <3>1, <3>2, ProcessRequests
  <2> QED
    BY <2>1, <2>3, <2>4 DEF Waited
<1>2. CASE r \notin BagToSet(inbox)
  <2>1. PICK method \in Methods : Sent(p, method)
    <3>1. ~Kept
      BY <1>2 DEF Kept
    <3>2. Kept \/ \E method \in Methods : Sent(p, method)
      BY <1>0, ProcessRequests
    <3> QED
      BY <3>1, <3>2
  <2> DEFINE new == [proc |-> p, method |-> method, tid |-> mem[p].tid]
  <2>2. new \in Request
    BY <1>0 DEF Request, JournalOK, Journal
  <2>3. r = new /\ inbox'[r] = 1
    BY <1>0, <1>2, <2>1, <2>2, MoreInbox DEF Sent
  <2>4. pc[p] = "sendCompact"
    BY <2>1, <2>3 DEF Sent, SentFrom
  <2>5. SendCompact(p) /\ conn[p] # "closed"
    BY <2>4, SendFlow DEF Heard
  <2>6. Goto(p, "waitCompact") /\ Send(p, "compact", mem[p].tid) /\ mem' = mem
    BY <2>5 DEF SendCompact, SendOnce
  <2>7. pc'[p] = "waitCompact" /\ call'[p].status = "waiting" /\ call'[p].method = "compact"
        /\ call'[p].tid = mem[p].tid
    BY <1>0, <2>6 DEF Goto, Send, JournalOK, ChannelOK, NoCall
  <2> QED
    BY <2>3, <2>6, <2>7 DEF Waited
<1> QED
  BY <1>1, <1>2

LEMMA WaitedStep ==
  ASSUME Prompt, TypeOK, Heard, [Next]_vars,
         \A r \in BagToSet(inbox) : r.method = "compact" => Waited(r)
  PROVE  \A r \in BagToSet(inbox)' : r.method = "compact" => Waited(r)'
<1> SUFFICES ASSUME NEW r \in BagToSet(inbox)', r.method = "compact"
             PROVE  Waited(r)'
  OBVIOUS
<1>0. ChannelOK /\ JournalOK
  BY TypeParts
<1>1. CASE ThreadNext
  BY <1>1, ThreadWaited
<1>2. ASSUME NEW p \in Proc, Proceed(p) PROVE Waited(r)'
  BY <1>2, ProceedWaited
<1>3. CASE UNCHANGED <<inbox, call, pc, mem>>
  BY <1>3 DEF Waited, BagToSet
<1>4. ASSUME NEW p \in Proc, Boot(p) \/ ScheduleBegin(p) PROVE Waited(r)'
  <2>1. UNCHANGED <<inbox, call>> /\ pc[p] # "waitCompact"
    <3>1. CASE Boot(p)
      BY <3>1 DEF Boot, UnchangedThread, threadVars
    <3>2. CASE ScheduleBegin(p)
      BY <3>2 DEF ScheduleBegin, Callable, UnchangedThread, threadVars
    <3> QED
      BY <1>4, <3>1, <3>2
  <2>2. \A q \in Proc : q # p => pc'[q] = pc[q] /\ mem'[q] = mem[q]
    BY <1>0, <1>4 DEF Boot, ScheduleBegin, Goto, JournalOK
  <2>3. Waited(r) /\ r.proc \in Proc
    BY <1>0, <2>1 DEF BagToSet, ChannelOK, Request
  <2> QED
    BY <2>1, <2>2, <2>3 DEF Waited
<1>5. ASSUME NEW p \in Proc, Crash(p) PROVE Waited(r)'
  <2>1. inbox' = [request \in {s \in BagToSet(inbox) : s.proc # p} |-> inbox[request]]
    BY <1>5 DEF Crash, Prompt
  <2>2. r \in BagToSet(inbox) /\ r.proc # p /\ inbox'[r] = inbox[r]
    BY <2>1 DEF BagToSet
  <2>3. Waited(r) /\ r.proc \in Proc
    BY <1>0, <2>2 DEF ChannelOK, Request
  <2>4. pc'[r.proc] = pc[r.proc] /\ call'[r.proc] = call[r.proc] /\ mem'[r.proc] = mem[r.proc]
    BY <1>0, <1>5, <2>2, <2>3 DEF Crash, Goto, Unsubscribe, JournalOK, ChannelOK
  <2> QED
    BY <2>2, <2>3, <2>4 DEF Waited
<1>6. ASSUME NEW p \in Proc, CallRejected(p) PROVE Waited(r)'
  BY <1>3, <1>6 DEF CallRejected, programVars
<1> QED
  BY <1>1, <1>2, <1>3, <1>4, <1>5, <1>6 DEF Next, vars

-----------------------------------------------------------------------------
(* The invariant of the spacing *)

Preflighted(p) ==
  /\ pc[p] = "prepare"
  /\ preflight_root_and_cooldown(turns, mem[p].source, disk) = "None"

Receipted(p) == validate_final_source_snapshot(turns, mem[p].source, mem[p].tid) = "None"

\* How a process comes to ask, with the source turn it has had from the start.
LEMMA AskingStep ==
  ASSUME Prompt, TypeOK, [Next]_vars, Heard, NEW p \in Proc, Sourcing(p)',
         \A r \in BagToSet(inbox) : r.method = "compact" => Waited(r),
         \A r \in BagToSet(inbox)' : r.method = "compact" => Waited(r)'
  PROVE  \/ ScheduleBegin(p)
         \/ /\ mem'[p].source = mem[p].source
            /\ Sourcing(p)
            /\ Asking(p)' => Asking(p) \/ Preflighted(p)
            /\ Confirmed(p)' =>
                 mem'[p].tid = mem[p].tid /\ (Confirmed(p) \/ Receipted(p))
<1> DEFINE AsBefore == /\ mem'[p].source = mem[p].source /\ Sourcing(p)
                       /\ Asking(p)' => Asking(p)
                       /\ Confirmed(p)' => mem'[p].tid = mem[p].tid /\ Confirmed(p)
<1>0. /\ ChannelOK /\ JournalOK /\ HistoryOK
      /\ Requested(p) => pc[p] = "waitCompact" /\ call[p].status = "waiting"
      /\ Requested(p)' => pc'[p] = "waitCompact"
  BY TypeParts DEF Requested, Waited
<1>1. ASSUME NEW q \in Proc, Proceed(q), q # p, Requested(p)' PROVE Requested(p)
  <2>1. PICK r \in BagToSet(inbox)' : r.proc = p /\ r.method = "compact"
    BY <1>1 DEF Requested
  <2>2. CASE Kept
    BY <2>1, <2>2 DEF Kept, Requested
  <2>3. ASSUME NEW method \in Methods, Sent(q, method) PROVE Requested(p)
    <3> DEFINE new == [proc |-> q, method |-> method, tid |-> mem[q].tid]
    <3>1. new \in Request /\ new # r
      BY <1>0, <1>1, <2>1 DEF Request, JournalOK, Journal
    <3> QED
      BY <1>0, <2>1, <2>3, <3>1, MoreInbox DEF Sent, Requested
  <2> QED
    BY <1>0, <1>1, <2>2, <2>3, ProcessRequests
<1>2. ASSUME mem'[p] = mem[p], pc'[p] = pc[p], Requested(p)' => Requested(p)
      PROVE  AsBefore
  BY <1>2 DEF Sourcing, Asking, Confirmed
<1>3. ASSUME NEW q \in Proc, Proceed(q), q # p
      PROVE  AsBefore
  BY <1>0, <1>1, <1>2, <1>3, ProceedIsPrivate DEF Private
<1>4. CASE Proceed(p)
  <2>1. CASE pc'[p] \in AskingSteps
    <3>1. pc'[p] # "waitCompact" /\ ~Requested(p)'
      BY <1>0, <2>1 DEF AskingSteps
    <3> QED
      BY <1>0, <1>4, <2>1, <3>1, AskingFlow
         DEF Sourcing, Asking, Preflighted, Confirmed, Receipted
  <2>2. CASE Requested(p)'
    <3>1. PICK r \in BagToSet(inbox)' : r.proc = p /\ r.method = "compact"
      BY <2>2 DEF Requested
    <3>2. ~Requested(p)
      BY <1>0, <1>4, WaitFlow
    <3>3. ~Kept
      BY <3>1, <3>2 DEF Kept, Requested
    <3>4. PICK method \in Methods : Sent(p, method)
      BY <1>0, <1>4, <3>3, ProcessRequests
    <3> DEFINE new == [proc |-> p, method |-> method, tid |-> mem[p].tid]
    <3>5. new \in Request
      BY <1>0 DEF Request, JournalOK, Journal
    <3>6. r = new
      BY <1>0, <3>1, <3>2, <3>4, <3>5, MoreInbox DEF Sent, Requested
    <3>7. pc[p] = "sendCompact"
      BY <3>1, <3>4, <3>6 DEF Sent, SentFrom
    <3>8. SendCompact(p) /\ conn[p] # "closed"
      BY <1>4, <3>7, SendFlow DEF Heard
    <3>9. UNCHANGED mem
      BY <3>8 DEF SendCompact, SendOnce
    <3> QED
      BY <3>7, <3>9 DEF Sourcing, Asking, AskingSteps, Confirmed, SourceRead
  <2>3. CASE pc'[p] = "prepare"
    BY <1>0, <1>4, <2>3, AskingFlow
  <2> QED
    BY <2>1, <2>2, <2>3 DEF Sourcing, Asking
<1>5. CASE ThreadNext
  <2>1. UNCHANGED <<mem, pc>>
    BY <1>5 DEF ThreadNext, programVars
  <2>2. Requested(p)' => Requested(p)
    <3>1. \A r \in BagToSet(inbox)' : r \in BagToSet(inbox)
      BY <1>0, <1>5, ThreadRequests, LessInbox DEF Kept, Served, ChannelOK
    <3> QED
      BY <3>1 DEF Requested
  <2> QED
    BY <1>2, <2>1, <2>2
<1>6. ASSUME NEW q \in Proc, Boot(q) \/ (ScheduleBegin(q) /\ q # p) PROVE AsBefore
  <2>1. UNCHANGED inbox
    BY <1>6 DEF Boot, ScheduleBegin, UnchangedThread, threadVars
  <2>2. q # p
    BY <1>0, <1>6, <2>1
       DEF Boot, Goto, JournalOK, Sourcing, Asking, AskingSteps, Requested, BagToSet
  <2>3. mem'[p] = mem[p] /\ pc'[p] = pc[p]
    BY <1>0, <1>6, <2>2 DEF Boot, ScheduleBegin, Goto, JournalOK
  <2> QED
    BY <1>2, <2>1, <2>3 DEF Requested, BagToSet
<1>7. ASSUME NEW q \in Proc, Crash(q) PROVE AsBefore
  <2>1. \A r \in BagToSet(inbox)' : r \in BagToSet(inbox)
    BY <1>7 DEF Crash, BagToSet
  <2>2. q # p
    <3>1. pc'[q] = "down"
      BY <1>0, <1>7 DEF Crash, Goto, JournalOK
    <3> QED
      BY <1>0, <3>1 DEF Sourcing, Asking, AskingSteps
  <2>3. mem'[p] = mem[p] /\ pc'[p] = pc[p]
    BY <1>0, <1>7, <2>2 DEF Crash, Goto, JournalOK
  <2> QED
    BY <1>2, <2>1, <2>3 DEF Requested
<1>8. CASE UNCHANGED <<inbox, pc, mem>>
  BY <1>2, <1>8 DEF Requested, BagToSet
<1>9. ASSUME NEW q \in Proc, CallRejected(q) PROVE UNCHANGED <<inbox, pc, mem>>
  BY <1>9 DEF CallRejected, programVars
<1> QED
  BY <1>3, <1>4, <1>5, <1>6, <1>7, <1>8, <1>9 DEF Next, vars

\* When a compaction is served, its sender owns the lock and asks for no other.
LEMMA ServedAlone ==
  ASSUME TypeOK, LeaseExclusive, NEW r \in BagToSet(inbox), Served(r), UNCHANGED programVars,
         r.method = "compact", NEW p \in Proc,
         \A s \in BagToSet(inbox) : s.method = "compact" => Waited(s)
  PROVE  ~Sourcing(p)'
<1>0. ChannelOK /\ JournalOK
  BY TypeParts
<1>1. r \in Request /\ r.proc \in Proc /\ Waited(r)
  BY <1>0 DEF ChannelOK, Request
<1>2. pc' = pc /\ lease = r.proc
  BY <1>0, <1>1 DEF programVars, LeaseExclusive, Holding, Waited
<1>3. ASSUME pc[p] \in AskingSteps \union {"prepare"} PROVE FALSE
  <2>1. lease = p
    BY <1>3 DEF AskingSteps, LeaseExclusive, Holding
  <2> QED
    BY <1>1, <1>2, <1>3, <2>1 DEF AskingSteps, Waited
<1>4. ASSUME Requested(p)' PROVE FALSE
  <2>1. PICK s \in BagToSet(inbox)' : s.proc = p /\ s.method = "compact"
    BY <1>4 DEF Requested
  <2>2. s \in BagToSet(inbox) /\ (s = r => inbox[r] > 1)
    BY <1>0, <1>1, <2>1, LessInbox DEF Served
  <2>3. Waited(s) /\ s \in Request
    BY <1>0, <2>1, <2>2 DEF ChannelOK
  <2>4. lease = p
    BY <2>1, <2>3 DEF Waited, LeaseExclusive, Holding
  <2>5. s.proc = r.proc /\ s.method = r.method /\ s.tid = r.tid
    BY <1>1, <1>2, <2>1, <2>3, <2>4 DEF Waited
  <2>6. s = r
    BY <1>1, <2>3, <2>5 DEF Request
  <2> QED
    BY <1>1, <2>2, <2>6 DEF Waited
<1> QED
  BY <1>2, <1>3, <1>4 DEF Sourcing, Asking

\* A compaction with its source turn.
SpacedBy(later, source) ==
  /\ ReceiptIn(source, turns[later].tid) /\ Spaced(source)
  /\ \A t \in source..(later - 1) : turns[t].origin # "compact"

LEMMA SpacedMeans ==
  CompactionsSpaced <=>
    \A later \in 1..Len(turns) :
      turns[later].origin = "compact" => \E source \in 1..(later - 1) : SpacedBy(later, source)
BY DEF CompactionsSpaced, SpacedBy, Spaced

\* A compaction keeps its source turn, and a new one gets that of its request.
LEMMA SpacedStep ==
  ASSUME TypeOK, TypeOK', SpacedInv, GoesOn, Begins
  PROVE  CompactionsSpaced'
<1>0. /\ ChannelOK /\ Len(turns) \in Nat /\ Len(turns') \in Nat
  BY TypeParts, TurnCounts
<1>1. ASSUME NEW later \in 1..Len(turns'), turns'[later].origin = "compact"
      PROVE  \E source \in 1..(later - 1) : SpacedBy(later, source)'
  <2>1. CASE later \in 1..Len(turns)
    <3>1. turns[later].origin = "compact" /\ turns'[later].tid = turns[later].tid
      BY <1>1, <2>1 DEF GoesOn
    <3>2. PICK source \in 1..(later - 1) : SpacedBy(later, source)
      BY <2>1, <3>1, SpacedMeans DEF SpacedInv
    <3>3. source \in Nat /\ source \in 1..Len(turns) /\ source <= Len(turns)
      BY <1>0, <2>1
    <3>4. Spaced(source)'
      BY <3>2, <3>3, PastStays DEF SpacedBy
    <3>5. PICK tid : tid = turns[later].tid
      OBVIOUS
    <3>6. ReceiptIn(source, tid)'
      BY <3>2, <3>3, <3>5, ReceiptStays DEF SpacedBy
    <3>7. \A t \in source..(later - 1) : turns'[t].origin # "compact"
      <4>1. \A t \in source..(later - 1) : t \in 1..Len(turns)
        BY <1>0, <2>1, <3>3
      <4> QED
        BY <3>2, <4>1 DEF SpacedBy, GoesOn
    <3> QED
      BY <3>1, <3>4, <3>5, <3>6, <3>7 DEF SpacedBy, ReceiptIn
  <2>2. CASE later \notin 1..Len(turns)
    <3>1. later = Len(turns') /\ Len(turns') = Len(turns) + 1
      BY <1>0, <2>2 DEF GoesOn
    <3>2. PICK r \in BagToSet(inbox) : r.method = "compact" /\ r.tid = turns'[later].tid
      BY <1>0, <1>1, <3>1 DEF Begins
    <3>3. r.proc \in Proc /\ Requested(r.proc) /\ mem[r.proc].tid = r.tid
      BY <1>0, <3>2 DEF ChannelOK, Request, Requested, SpacedInv, Waited
    <3>4. PICK source : source = mem[r.proc].source
      OBVIOUS
    <3>5. /\ unique_turn(turns, source) /\ NoneSince(source) /\ Spaced(source)
          /\ ReceiptIn(source, r.tid)
      BY <3>3, <3>4 DEF SpacedInv, Sourcing, Asking, Confirmed
    <3>6. source \in Nat /\ source \in 1..Len(turns) /\ source \in 1..(later - 1)
      BY <1>0, <3>1, <3>5 DEF unique_turn
    <3>7. Spaced(source)'
      BY <1>0, <3>5, <3>6, PastStays
    <3>8. PICK tid : tid = r.tid
      OBVIOUS
    <3>9. ReceiptIn(source, tid)'
      BY <3>5, <3>6, <3>8, ReceiptStays
    <3>10. \A t \in source..(later - 1) : turns'[t].origin # "compact"
      <4>1. \A t \in source..(later - 1) : t \in 1..Len(turns) /\ source <= t
        BY <1>0, <3>1, <3>6
      <4> QED
        BY <3>5, <4>1 DEF NoneSince, GoesOn
    <3> QED
      BY <3>2, <3>6, <3>7, <3>8, <3>9, <3>10 DEF SpacedBy, ReceiptIn
  <2> QED
    BY <2>1, <2>2
<1> QED
  BY <1>1 DEF CompactionsSpaced, SpacedBy, Spaced, ReceiptIn

\* A process that begins to schedule has the last turn for its source, and asks
\* only after the preflight has counted.
LEMMA SourceSpaced ==
  ASSUME Prompt, TypeOK, TypeOK', SpacedInv, [Next]_vars, GoesOn, Begins,
         ~ServesCompaction, NEW p \in Proc, Sourcing(p)',
         \A r \in BagToSet(inbox)' : r.method = "compact" => Waited(r)'
  PROVE  \E s \in Nat : /\ s = mem'[p].source /\ unique_turn(turns', s) /\ NoneSince(s)'
                        /\ Asking(p)' => Spaced(s)'
                        /\ Confirmed(p)' => \E tid : tid = mem'[p].tid /\ ReceiptIn(s, tid)'
<1>0. /\ HistoryOK /\ JournalOK /\ Len(turns) \in Nat /\ Len(turns') \in Nat
  BY TypeParts, TurnCounts
<1>1. CASE ScheduleBegin(p)
  <2>1. /\ mem'[p] = [NoJournal EXCEPT !.source = Len(turns)] /\ pc'[p] = "prepare"
        /\ UNCHANGED turns
    BY <1>0, <1>1 DEF ScheduleBegin, Goto, JournalOK, UnchangedThread, threadVars
  <2>2. PICK s \in Nat : s = Len(turns)
    BY <1>0
  <2>3. /\ mem'[p].source = s
        /\ s \in 1..Len(turns) /\ turns[s].origin # "compact"
    BY <1>0, <1>1, <2>1, <2>2, LastTurn
       DEF NoJournal, ScheduleBegin, Callable, is_active, CompactionOrigins, HistoryOK
  <2>4. NoneSince(s)'
    BY <1>0, <2>1, <2>2, <2>3 DEF NoneSince
  <2>5. ~Asking(p)' /\ ~Confirmed(p)'
    BY <2>1 DEF Asking, AskingSteps, Confirmed, SourceRead, Requested, Waited
  <2> QED
    BY <2>1, <2>2, <2>3, <2>4, <2>5 DEF unique_turn
<1>2. CASE /\ mem'[p].source = mem[p].source /\ Sourcing(p)
           /\ Asking(p)' => Asking(p) \/ Preflighted(p)
           /\ Confirmed(p)' =>
                mem'[p].tid = mem[p].tid /\ (Confirmed(p) \/ Receipted(p))
  <2>0. PICK s \in Nat : s = mem[p].source
    BY <1>0, <1>2 DEF SpacedInv, unique_turn
  <2>1. unique_turn(turns, s) /\ NoneSince(s) /\ (Asking(p) => Spaced(s))
    BY <1>2, <2>0 DEF SpacedInv
  <2>2. s \in Nat /\ s <= Len(turns) /\ unique_turn(turns', s)
    BY <1>0, <2>1 DEF unique_turn, GoesOn
  <2>3. Preflighted(p) => ~recent_native_compaction(turns, s)
    BY <2>0 DEF Preflighted, preflight_root_and_cooldown
  <2>4. NoneSince(s)'
    BY <2>1, <2>2, SinceStays
  <2>5. Asking(p)' => Spaced(s)
    BY <1>0, <1>2, <2>1, <2>2, <2>3, PreflightSpaces
  <2>6. Asking(p)' => Spaced(s)'
    BY <2>2, <2>5, PastStays
  <2>7. mem'[p].source = s
    BY <1>2, <2>0
  <2>8. ASSUME Confirmed(p)' PROVE \E tid : tid = mem'[p].tid /\ ReceiptIn(s, tid)'
    <3>1. PICK tid : tid = mem[p].tid
      OBVIOUS
    <3>2. s \in 1..Len(turns)
      BY <2>1 DEF unique_turn
    <3>3. ReceiptIn(s, tid)
      <4>1. CASE Confirmed(p)
        BY <2>0, <3>1, <4>1 DEF SpacedInv
      <4>2. CASE Receipted(p)
        <5>1. turns[s].calls # <<>> /\ turns[s].calls[1].receipt = tid
          BY <2>0, <3>1, <4>2 DEF Receipted, validate_final_source_snapshot
        <5>2. 1 \in 1..Len(turns[s].calls)
          <6>1. turns[s] \in Turn
            BY <1>0, <3>2, ElementOfSeq DEF HistoryOK
          <6>2. turns[s].calls \in Seq([receipt : Nat, ok : BOOLEAN])
            BY <6>1 DEF Turn
          <6>3. Len(turns[s].calls) \in Nat /\ Len(turns[s].calls) # 0
            BY <5>1, <6>2, EmptySeq, LenProperties
          <6> QED
            BY <6>3
        <5> QED
          BY <5>1, <5>2 DEF ReceiptIn
      <4> QED
        BY <1>2, <2>8, <4>1, <4>2
    <3>4. ReceiptIn(s, tid)'
      BY <3>2, <3>3, ReceiptStays
    <3> QED
      BY <1>2, <2>8, <3>1, <3>4
  <2> QED
    BY <2>2, <2>4, <2>6, <2>7, <2>8
<1> QED
  BY <1>1, <1>2, AskingStep DEF SpacedInv

LEMMA SpacedNext ==
  ASSUME Prompt, TypeOK, TypeOK', LeaseExclusive, SpacedInv, [Next]_vars
  PROVE  SpacedInv'
<1>1. GoesOn /\ Begins
  BY StepGoesOn
<1>2. Heard'
  BY HeardStep DEF SpacedInv
<1>3. \A r \in BagToSet(inbox)' : r.method = "compact" => Waited(r)'
  BY WaitedStep DEF SpacedInv
<1>4. CompactionsSpaced'
  BY <1>1, SpacedStep
<1>5. ASSUME NEW p \in Proc
      PROVE  /\ Sourcing(p)' => (unique_turn(turns, mem[p].source) /\ NoneSince(mem[p].source))'
             /\ Asking(p)' => Spaced(mem[p].source)'
             /\ Confirmed(p)' => ReceiptIn(mem[p].source, mem[p].tid)'
  <2>1. (Asking(p)' => Sourcing(p)') /\ (Confirmed(p)' => Sourcing(p)')
    BY DEF Sourcing, Asking, Confirmed, AskingSteps, SourceRead
  <2>2. CASE ServesCompaction
    BY <2>1, <2>2, ServedAlone DEF ServesCompaction, SpacedInv
  <2>3. CASE ~ServesCompaction
    <3>1. CASE Sourcing(p)'
      <4>1. PICK s \in Nat : /\ s = mem'[p].source /\ unique_turn(turns', s) /\ NoneSince(s)'
                             /\ Asking(p)' => Spaced(s)'
                             /\ Confirmed(p)' =>
                                  \E tid : tid = mem'[p].tid /\ ReceiptIn(s, tid)'
        BY <1>1, <1>3, <2>3, <3>1, SourceSpaced
      <4> QED
        BY <4>1 DEF NoneSince, Spaced, ReceiptIn
    <3> QED
      BY <2>1, <3>1
  <2> QED
    BY <2>2, <2>3
<1> QED
  BY <1>2, <1>3, <1>4, <1>5 DEF SpacedInv

LEMMA SpacedInit == Init => SpacedInv
<1> SUFFICES ASSUME Init PROVE SpacedInv
  OBVIOUS
<1>1. BagToSet(inbox) = {}
  BY DEF Init, ThreadInit, BagToSet, EmptyBag, SetToBag
<1>2. Heard
  BY DEF Init, ThreadInit, Heard
<1>3. Len(turns) = 1 /\ turns[1].origin = "user"
  BY DEF Init, ThreadInit, NewTurn
<1>4. CompactionsSpaced
  BY <1>3 DEF CompactionsSpaced
<1>5. \A p \in Proc : ~Sourcing(p) /\ ~Asking(p) /\ ~Confirmed(p)
  BY <1>1 DEF Init, Sourcing, Asking, AskingSteps, Confirmed, SourceRead, Requested
<1> QED
  BY <1>1, <1>2, <1>4, <1>5 DEF SpacedInv

\* Every compaction of the program has a source turn with its receipt, which has the
\* cooldown's regular turns since whatever was compacted before it, by hand too, and after
\* which the program compacted nothing else, whatever crashes, fails or is reordered: the
\* preflight counts the turns since the latest compaction before the source turn
\* (orchestrator.rs:282-307), and what lies before that turn stays as it is until the
\* request is served.  It is so as long as nobody gives up on a request that may still be
\* served.
THEOREM CompactionsAreSpaced == Prompt /\ Spec => []CompactionsSpaced
<1>1. Prompt /\ TypeOK /\ TypeOK' /\ LeaseExclusive /\ SpacedInv /\ [Next]_vars => SpacedInv'
  BY SpacedNext
<1>2. SpacedInv => CompactionsSpaced
  BY DEF SpacedInv
<1>3. SUFFICES ASSUME Prompt PROVE Spec => []CompactionsSpaced
  OBVIOUS
<1>4. TypeOK /\ TypeOK' /\ LeaseExclusive /\ SpacedInv /\ [Next]_vars => SpacedInv'
  BY <1>1, <1>3
<1> QED
  BY <1>2, <1>4, SpacedInit, TypeCorrect, LeaseIsExclusive, PTL DEF Spec

-----------------------------------------------------------------------------
(* How a transition comes to its continuation and its cooldown *)

\* How a step of p writes, or leaves to be written, that the continuation was asked for or
\* is not needed.
Cools(p) ==
  /\ \/ disk' = disk
     \/ disk'.state \notin {"AwaitContinuationStarted", "Cooldown"}
     \/ pc[p] \in {"saveCapsule", "saveCooldown", "finish"}
     \/ pc[p] = "drainUser" /\ disk'.state = "Cooldown"
     \/ pc[p] = "waitStart" /\ disk'.state = "Cooldown" /\ StartRefused(p)
     \/ pc[p] = "waitStart" /\ call[p].status = "accepted"
  /\ pc'[p] = "finish" /\ mem'[p].state = "Cooldown" =>
       disk'.state = "Cooldown" \/ (pc[p] = "confirm" /\ disk' = disk)

\* A journal that stopped with an error is no cooldown.
LEMMA ConcludeCools ==
  ASSUME NEW journal \in Journal, NEW code
  PROVE  Conclude(journal, code).state \in {"Cancelled", "FailedSafe"}
BY DEF Conclude, cancel, fail, Journal

LEMMA StopCools ==
  ASSUME JournalOK, NEW p \in Proc, NEW code, Stop(p, code)
  PROVE  Cools(p)
<1>1. mem[p] \in Journal /\ mem'[p] = Conclude(mem[p], code) /\ disk' = disk
  BY DEF Stop, JournalOK
<1> QED
  BY <1>1, ConcludeCools DEF Cools

LEMMA GotoCools ==
  ASSUME JournalOK, NEW p \in Proc, NEW step \in Steps \ {"finish"}, Goto(p, step),
         UNCHANGED disk
  PROVE  Cools(p)
BY DEF Cools, Goto, JournalOK

LEMMA AdvanceCools ==
  ASSUME JournalOK, NEW p \in Proc, NEW journal \in Journal, NEW next, NEW step,
         next \in TransitionStates, Advance(p, journal, next, step),
         \/ next \notin {"AwaitContinuationStarted", "Cooldown"}
         \/ pc[p] \in {"saveCapsule", "saveCooldown", "finish"}
         \/ pc[p] = "drainUser" /\ next = "Cooldown"
         \/ pc[p] = "waitStart" /\ next = "Cooldown" /\ StartRefused(p)
         \/ pc[p] = "waitStart" /\ call[p].status = "accepted",
         step = "finish" => next = "Cooldown"
  PROVE  Cools(p)
<1> DEFINE entered == [journal EXCEPT !.state = next]
<1>1. entered \in Journal /\ entered.state = next
  BY JournalFields DEF Journal
<1>2. CASE Stop(p, "Internal")
  BY <1>2, StopCools
<1>3. ASSUME NEW outcome, Save(entered, outcome),
             mem' = [mem EXCEPT ![p] = IF outcome = "ok" THEN entered
                                       ELSE Conclude(entered, "Io")],
             Goto(p, IF outcome = "ok" THEN step ELSE "finish")
      PROVE  Cools(p)
  <2> HIDE DEF entered
  <2>1. disk' \in {disk, entered}
    BY <1>3 DEF Save
  <2>2. CASE outcome = "ok"
    <3>1. disk' = entered /\ mem'[p] = entered /\ pc'[p] = step
      BY <1>3, <2>2 DEF Save, Goto, JournalOK
    <3> QED
      BY <1>1, <3>1 DEF Cools
  <2>3. CASE outcome # "ok"
    <3>1. mem'[p] = Conclude(entered, "Io")
      BY <1>3, <2>3 DEF JournalOK
    <3>2. mem'[p].state # "Cooldown"
      BY <1>1, <3>1, ConcludeCools
    <3> QED
      BY <1>1, <2>1, <3>2 DEF Cools
  <2> QED
    BY <2>2, <2>3
<1> QED
  BY <1>2, <1>3 DEF Advance

LEMMA RecordCools ==
  ASSUME JournalOK, NEW p \in Proc, NEW from, NEW state \in TransitionStates, NEW next,
         Record(p, from, state, next),
         \/ state \notin {"AwaitContinuationStarted", "Cooldown"} /\ next # "finish"
         \/ from = "saveCooldown" /\ state = "Cooldown"
  PROVE  Cools(p)
<1>1. mem[p] \in Journal /\ Advance(p, mem[p], state, next) /\ pc[p] = from
  BY DEF Record, JournalOK
<1> QED
  BY <1>1, AdvanceCools

LEMMA SendOnceCools ==
  ASSUME JournalOK, NEW p \in Proc, NEW from, NEW method, NEW next \in Steps \ {"finish"},
         NEW code, SendOnce(p, from, method, next, code)
  PROVE  Cools(p)
BY StopCools, GotoCools DEF SendOnce

LEMMA CompactCools ==
  ASSUME JournalOK, StreamOK, NEW p \in Proc, CompactNext(p)
  PROVE  Cools(p)
<1>1. mem[p] \in Journal
  BY DEF JournalOK
<1>2. CASE AwaitSource(p)
  BY <1>2, StopCools, GotoCools DEF AwaitSource, Steps, CompactSteps, Cools
<1>3. CASE DrainSource(p) \/ RedrainSource(p) \/ DrainCompact(p)
  BY <1>3, StopCools, GotoCools
     DEF DrainSource, RedrainSource, DrainCompact, RejectQueued, Steps, CompactSteps
<1>4. CASE ReadSource(p) \/ GuardSource(p) \/ ReadCompact(p)
  BY <1>4, StopCools, GotoCools
     DEF ReadSource, GuardSource, GuardDescendants, ReadCompact, ReadThread, Steps,
         CompactSteps
<1>5. CASE SaveReady(p) \/ SaveSent(p)
  BY <1>5, RecordCools DEF SaveReady, SaveSent, TransitionStates, BeforeMutation, Compacting
<1>6. CASE SendCompact(p)
  BY <1>6, SendOnceCools DEF SendCompact, Steps, CompactSteps
<1>7. CASE WaitCompact(p)
  BY <1>7, StopCools, GotoCools DEF WaitCompact, Steps, CompactSteps
<1>8. CASE AwaitCompaction(p)
  <2>1. Head(stream[p]).turn \in Nat
    BY <1>8, HeadType DEF AwaitCompaction
  <2>2. [mem[p] EXCEPT !.compact = Head(stream[p]).turn] \in Journal
    BY <1>1, <2>1, JournalFields
  <2>3. CASE \E code : Stop(p, code)
    BY <2>3, StopCools
  <2>4. CASE UNCHANGED disk /\ (UNCHANGED <<pc, mem>> \/ Goto(p, "drainCompact"))
    BY <1>8, <2>4, GotoCools DEF AwaitCompaction, Cools, Steps, CompactSteps
  <2>5. CASE \/ Advance(p, [mem[p] EXCEPT !.compact = Head(stream[p]).turn],
                        "AwaitCompactionItem", "awaitCompaction")
             \/ Advance(p, mem[p], "AwaitCompactionTurnCompleted", "awaitCompaction")
    BY <1>1, <2>2, <2>5, AdvanceCools DEF TransitionStates, Compacting
  <2> QED
    BY <1>8, <2>3, <2>4, <2>5 DEF AwaitCompaction
<1>9. CASE SaveCapsule(p)
  <2> DEFINE journal == [mem[p] EXCEPT !.capsule = TRUE]
  <2>1. CASE \E code : Stop(p, code)
    BY <2>1, StopCools
  <2>2. ASSUME NEW outcome, Save(journal, outcome),
               mem' = [mem EXCEPT ![p] = IF outcome = "ok" THEN journal
                                         ELSE Conclude(journal, "Io")],
               Goto(p, IF outcome = "ok" THEN "drainInject" ELSE "finish")
        PROVE  Cools(p)
    <3>1. journal \in Journal
      BY <1>1 DEF Journal
    <3> HIDE DEF journal
    <3>2. pc'[p] = "finish" => mem'[p] = Conclude(journal, "Io")
      BY <2>2 DEF Goto, JournalOK
    <3>3. pc[p] = "saveCapsule"
      BY <1>9 DEF SaveCapsule
    <3> QED
      BY <3>1, <3>2, <3>3, ConcludeCools DEF Cools
  <2> QED
    BY <1>9, <2>1, <2>2 DEF SaveCapsule
<1> QED
  BY <1>2, <1>3, <1>4, <1>5, <1>6, <1>7, <1>8, <1>9 DEF CompactNext

LEMMA InjectCools ==
  ASSUME JournalOK, StreamOK, ChannelOK, NEW p \in Proc, InjectNext(p)
  PROVE  Cools(p)
<1>1. mem[p] \in Journal /\ \A turn \in Nat : [mem[p] EXCEPT !.cont = turn] \in Journal
  BY JournalFields DEF JournalOK
<1>2. CASE DrainInject(p) \/ RedrainInject(p)
  BY <1>2, StopCools, GotoCools
     DEF DrainInject, RedrainInject, RejectStarted, Steps, InjectSteps
<1>3. CASE GuardInject(p)
  BY <1>3, StopCools, GotoCools
     DEF GuardInject, GuardDescendants, ReadThread, Steps, InjectSteps
<1>4. CASE SaveInjecting(p) \/ SaveStarting(p)
  BY <1>4, RecordCools DEF SaveInjecting, SaveStarting, TransitionStates, Injecting
<1>5. CASE SaveCooldown(p)
  BY <1>5, RecordCools DEF SaveCooldown, TransitionStates, Terminal
<1>6. CASE SendInject(p) \/ SendStart(p)
  BY <1>6, SendOnceCools DEF SendInject, SendStart, Steps, InjectSteps
<1>7. CASE WaitInject(p)
  BY <1>7, StopCools, GotoCools DEF WaitInject, Steps, InjectSteps
<1>8. CASE DrainUser(p)
  <2>1. ASSUME NEW n \in Drained(p), DrainStarted(p, n).turn # 0,
               UserWins(p, DrainStarted(p, n).turn)
        PROVE  Cools(p)
    <3>1. DrainStarted(p, n).turn \in Nat
      BY DrainStartedTurn
    <3> QED
      BY <1>1, <1>8, <2>1, <3>1, AdvanceCools DEF DrainUser, UserWins, TransitionStates, Terminal
  <2> QED
    BY <1>8, <2>1, StopCools, GotoCools DEF DrainUser, Steps, InjectSteps
<1>9. CASE WaitStart(p)
  <2>1. ASSUME NEW n \in Drained(p), StartRefused(p), UserWins(p, DrainStarted(p, n).turn)
        PROVE  Cools(p)
    <3>1. DrainStarted(p, n).turn \in Nat
      BY DrainStartedTurn
    <3> QED
      BY <1>1, <1>9, <2>1, <3>1, AdvanceCools DEF WaitStart, UserWins, TransitionStates, Terminal
  <2>2. ASSUME call[p].status = "accepted",
               Advance(p, [mem[p] EXCEPT !.cont = call[p].turn], "AwaitContinuationStarted",
                       "awaitStarted")
        PROVE  Cools(p)
    <3>1. call[p].turn \in Nat
      BY DEF ChannelOK, Call
    <3> QED
      BY <1>1, <1>9, <2>2, <3>1, AdvanceCools DEF WaitStart, TransitionStates, Injecting
  <2> QED
    BY <1>9, <2>1, <2>2, StopCools DEF WaitStart
<1>10. CASE AwaitStarted(p) \/ ConfirmStarted(p)
  BY <1>10, StopCools, GotoCools DEF AwaitStarted, ConfirmStarted, Cools, Steps, InjectSteps
<1> QED
  BY <1>2, <1>3, <1>4, <1>5, <1>6, <1>7, <1>8, <1>9, <1>10 DEF InjectNext

LEMMA RecoverCools ==
  ASSUME JournalOK, NEW p \in Proc, RecoveryNext(p)
  PROVE  Cools(p)
<1>1. CASE RecoverSkip(p)
  BY <1>1, GotoCools DEF RecoverSkip, Steps
<1>2. CASE RecoverBegin(p)
  <2>1. CASE \E step \in {"resume", "confirm"} : Goto(p, step)
    BY <1>2, <2>1, GotoCools DEF RecoverBegin, Steps, RecoverySteps
  <2>2. ASSUME NEW code, mem' = [mem EXCEPT ![p] = cancel(@, code)]
                         \/ mem' = [mem EXCEPT ![p] = fail(@, code)]
        PROVE  Cools(p)
    <3>1. mem[p] \in Journal /\ mem'[p] \in {cancel(mem[p], code), fail(mem[p], code)}
      BY <2>2 DEF JournalOK
    <3>2. mem'[p].state # "Cooldown"
      BY <3>1 DEF cancel, fail, Journal
    <3> QED
      BY <1>2, <3>2 DEF RecoverBegin, Cools
  <2> QED
    BY <1>2, <2>1, <2>2 DEF RecoverBegin
<1>3. CASE RecoverResume(p)
  BY <1>3, StopCools, GotoCools DEF RecoverResume, Steps, InjectSteps
<1>4. CASE RecoverConfirm(p)
  BY <1>4, StopCools DEF RecoverConfirm, Cools
<1>5. CASE RecoverFinish(p)
  BY <1>5 DEF RecoverFinish, Goto, JournalOK, Cools
<1> QED
  BY <1>1, <1>2, <1>3, <1>4, <1>5 DEF RecoveryNext

LEMMA ProceedCools ==
  ASSUME JournalOK, StreamOK, ChannelOK, NEW p \in Proc, Proceed(p)
  PROVE  Cools(p)
<1>1. ASSUME NEW code, Reject(p, code) PROVE pc'[p] = "serving"
  BY <1>1 DEF Reject, Goto, JournalOK
<1>2. CASE Prepare(p)
  BY <1>1, <1>2 DEF Prepare, Goto, JournalOK, Cools
<1>3. CASE Accept(p)
  <2>1. disk' \in {disk, NewJournal(accepted + 1, mem[p].source)}
    BY <1>3 DEF Accept, Save
  <2>2. pc'[p] # "finish"
    BY <1>1, <1>3 DEF Accept, Goto, JournalOK
  <2> QED
    BY <2>1, <2>2 DEF NewJournal, NoJournal, Cools
<1>4. CASE AcceptAwait(p)
  <2>1. /\ disk' \in {disk, [mem[p] EXCEPT !.state = "AwaitSourceTurnCompleted"]}
        /\ mem[p] \in Journal
    BY <1>4 DEF AcceptAwait, Save, JournalOK
  <2>2. pc'[p] # "finish"
    BY <1>1, <1>4 DEF AcceptAwait, Goto, JournalOK
  <2> QED
    BY <2>1, <2>2 DEF Journal, Cools
<1>5. CASE WaitExpires(p)
  BY <1>5, StopCools DEF WaitExpires
<1>6. CASE TaskFinish(p) \/ Cleanup(p)
  BY <1>6 DEF TaskFinish, Cleanup, Goto, JournalOK, Cools
<1> QED
  BY <1>2, <1>3, <1>4, <1>5, <1>6, CompactCools, InjectCools, RecoverCools DEF Proceed

\* Who changes the journal owns the lock, sends nothing and loses nothing.
LEMMA WritersHold ==
  ASSUME JournalOK, NEW p \in Proc, Proceed(p), disk' # disk
  PROVE  Holding(p) /\ inbox' = inbox
<1> USE DEF UnchangedThread, threadVars, Stop, Holding
<1>1. CASE RecoveryNext(p)
  BY <1>1
     DEF RecoveryNext, RecoverSkip, RecoverBegin, RecoverResume, RecoverConfirm, RecoverFinish
<1>2. CASE Prepare(p) \/ Accept(p) \/ AcceptAwait(p)
  BY <1>2 DEF Prepare, Accept, AcceptAwait, Reject
<1>3. CASE WaitExpires(p) \/ TaskFinish(p) \/ Cleanup(p)
  BY <1>3 DEF WaitExpires, TaskFinish, Cleanup
<1>4. CASE CompactNext(p)
  BY <1>4
     DEF CompactNext, AwaitSource, DrainSource, ReadSource, GuardSource, GuardDescendants,
         RedrainSource, SaveReady, SaveSent, SendCompact, WaitCompact, AwaitCompaction,
         DrainCompact, ReadCompact, SaveCapsule, RejectQueued, ReadThread, Record, SendOnce
<1>5. CASE InjectNext(p)
  BY <1>5
     DEF InjectNext, DrainInject, GuardInject, GuardDescendants, RedrainInject,
         SaveInjecting, SendInject, WaitInject, SaveStarting, DrainUser, SendStart, WaitStart,
         AwaitStarted, ConfirmStarted, SaveCooldown, RejectStarted, ReadThread, Record,
         SendOnce
<1> QED
  BY <1>1, <1>2, <1>3, <1>4, <1>5 DEF Proceed

LEMMA Writer ==
  ASSUME JournalOK, [Next]_vars, disk' # disk
  PROVE  inbox' = inbox /\ \E p \in Proc : Proceed(p) /\ Holding(p)
<1>1. \E p \in Proc : Proceed(p)
  BY DEF Next, ThreadNext, Boot, Crash, CallRejected, ScheduleBegin, programVars, vars
<1> QED
  BY <1>1, WritersHold

\* A request comes to be on its way only by being sent.
LEMMA StartsInFlight ==
  ASSUME TypeOK, [Next]_vars, NEW tid, InFlight("start", tid)'
  PROVE  InFlight("start", tid) \/ \E p \in Proc : Sent(p, "start") /\ mem[p].tid = tid
<1>0. ChannelOK /\ JournalOK
  BY TypeParts
<1>1. CASE Kept
  BY <1>1 DEF Kept, InFlight
<1>2. ASSUME NEW r \in BagToSet(inbox), Served(r) PROVE InFlight("start", tid)
  <2>1. r \in Request
    BY <1>0 DEF ChannelOK
  <2> QED
    BY <1>0, <1>2, <2>1, LessInbox DEF Served, InFlight
<1>3. ASSUME NEW p \in Proc, NEW method \in Methods, Sent(p, method)
      PROVE  InFlight("start", tid) \/ (method = "start" /\ mem[p].tid = tid)
  <2> DEFINE r == [proc |-> p, method |-> method, tid |-> mem[p].tid]
  <2>1. r \in Request
    BY <1>0 DEF JournalOK, Journal, Request
  <2>2. \A s \in BagToSet(inbox)' : s = r \/ s \in BagToSet(inbox)
    BY <1>0, <1>3, <2>1, MoreInbox DEF Sent
  <2> QED
    BY <2>2 DEF InFlight
<1> QED
  BY <1>1, <1>2, <1>3, StepRequests

\* A request whose answer has come is not on its way.
LEMMA AnsweredIsServed ==
  ASSUME HistoryOK, ChannelOK, Lone, ServeRequest, NEW p \in Proc, call'[p] # call[p],
         NEW method, method = call[p].method, NEW tid, tid = call[p].tid
  PROVE  ~InFlight(method, tid)'
<1>1. PICK r \in BagToSet(inbox) :
        /\ inbox' = inbox (-) SetToBag({r})
        /\ ServeCompact(r) \/ ServeStart(r) \/ ServeInject(r) \/ Refuse(r)
  BY DEF ServeRequest
<1>2. r \in Request
  BY DEF ChannelOK
<1>3. \E status, turn : Answer(r, status, turn)
  BY <1>1 DEF ServeCompact, ServeStart, ServeInject, Refuse
<1>4. method = r.method /\ tid = r.tid
  BY <1>2, <1>3, AnswerGiven
<1>5. \A s \in BagToSet(inbox)' : s \in BagToSet(inbox) /\ s # r
  <2>1. inbox[r] = 1
    BY DEF Lone
  <2> QED
    BY <1>1, <1>2, <2>1, LessInbox
<1>6. \A s \in BagToSet(inbox) : s.method = r.method /\ s.tid = r.tid => s = r
  BY DEF Lone
<1> QED
  BY <1>4, <1>5, <1>6 DEF InFlight

\* A continuation is asked for only after the injection, what says that it has begun is
\* true, and of a transition in its cooldown, or about to be, none is on its way.
Final ==
  /\ disk.state = "AwaitContinuationStarted" => Taken("start", disk.tid) # {}
  /\ disk.state = "Cooldown" => ~InFlight("start", disk.tid)
  /\ Asked("start", disk.tid) => Taken("inject", disk.tid) # {}
  /\ \A p \in Proc :
       /\ pc[p] = "waitStart" =>
            /\ call[p].tid = mem[p].tid
            /\ call[p].status = "rejected" => ~InFlight("start", mem[p].tid)
       /\ pc[p] = "finish" /\ mem[p].state = "Cooldown" =>
            disk.state \in {"AwaitContinuationStarted", "Cooldown"}

LEMMA FinalInit == Init => Final
<1> SUFFICES ASSUME Init PROVE Final
  OBVIOUS
<1>1. ~Asked("start", disk.tid)
  BY DEF Init, ThreadInit, EmptyBag, SetToBag, BagToSet, Asked, InFlight, Continuations,
         NewTurn
<1>2. disk.state = "None" /\ \A p \in Proc : pc[p] = "down"
  BY DEF Init, NoJournal
<1> QED
  BY <1>1, <1>2 DEF Final

\* Who writes from StartingContinuation what it writes.
LEMMA FromStarting ==
  ASSUME JournalIInv, JournalIInv', RequestsInv, BindingInv, Final, [Next]_vars,
         disk' # disk, disk.state = "StartingContinuation",
         disk'.state \in {"AwaitContinuationStarted", "Cooldown"}
  PROVE  \/ Taken("start", disk.tid) # {}
         \/ disk'.state = "Cooldown" /\ ~InFlight("start", disk.tid)
<1>0. JournalOK /\ StreamOK /\ ChannelOK /\ {"compact", "inject", "start"} \subseteq Methods
  BY TypeParts DEF JournalIInv, Methods
<1>1. PICK p \in Proc : Proceed(p) /\ Holding(p)
  BY <1>0, Writer
<1>2. Cools(p)
  BY <1>0, <1>1, ProceedCools
<1>3. ASSUME pc[p] \in Working PROVE mem[p] = disk /\ StateAt(pc[p], "StartingContinuation")
  BY <1>3, WorkingBound DEF BindingInv
<1>4. pc[p] \notin {"saveCapsule", "saveCooldown"}
  BY <1>3 DEF StateAt, Working, ReadingCompaction, Continued
<1>5. pc[p] # "finish"
  <2> SUFFICES ASSUME pc[p] = "finish" PROVE FALSE
    OBVIOUS
  <2>1. disk' \in {disk, mem[p]}
    BY <1>1
       DEF Proceed, RecoveryNext, CompactNext, InjectNext, RecoverSkip, RecoverBegin,
           RecoverResume, RecoverConfirm, RecoverFinish, Prepare, Accept, AcceptAwait,
           AwaitSource, DrainSource, ReadSource, GuardSource, RedrainSource, SaveReady,
           SaveSent, SendCompact, WaitCompact, AwaitCompaction, DrainCompact, ReadCompact,
           SaveCapsule, DrainInject, GuardInject, RedrainInject, SaveInjecting,
           SendInject, WaitInject, SaveStarting, DrainUser, SendStart, WaitStart,
           AwaitStarted, ConfirmStarted, SaveCooldown, WaitExpires, TaskFinish, Cleanup,
           Record, SendOnce, Save
  <2>2. is_terminal(mem[p].state)
    BY <1>1 DEF JournalIInv, JournalInv, WorkerOK, Concludes
  <2>3. disk' = mem[p] /\ mem[p].state = "Cooldown"
    BY <2>1, <2>2 DEF is_terminal, Terminal
  <2> QED
    BY <2>3 DEF Final
<1>6. CASE pc[p] = "drainUser" /\ disk'.state = "Cooldown"
  BY <1>0, <1>6, AskedTaken DEF RequestsInv, Unsent
<1>7. CASE pc[p] = "waitStart" /\ disk'.state = "Cooldown" /\ StartRefused(p)
  <2>1. mem[p] = disk
    BY <1>3, <1>7 DEF Working, Continuing
  <2> QED
    BY <1>7, <2>1 DEF Final, StartRefused
<1>8. CASE pc[p] = "waitStart" /\ call[p].status = "accepted"
  <2>1. mem[p] = disk
    BY <1>3, <1>8 DEF Working, Continuing
  <2>2. call[p].tid = disk.tid
    BY <1>8, <2>1 DEF Final
  <2>3. Effected(turns, injections, "start", disk.tid)
    BY <1>8, <2>2 DEF BindingInv, Answers, AnswerTrue
  <2> QED
    BY <1>0, <2>3, EffectedTaken
<1> QED
  BY <1>2, <1>4, <1>5, <1>6, <1>7, <1>8 DEF Cools

\* None of what has had its effect is on its way.
LEMMA TakenIsServed ==
  ASSUME Lone, NEW method, NEW tid, Taken(method, tid) # {}
  PROVE  ~InFlight(method, tid)
BY DEF Lone, InFlight

LEMMA FinalDisk ==
  ASSUME JournalIInv, JournalIInv', JournalStep, RequestsInv, BindingInv, Final, [Next]_vars
  PROVE  /\ disk'.state = "AwaitContinuationStarted" => Taken("start", disk.tid)' # {}
         /\ disk'.state = "Cooldown" => ~InFlight("start", disk.tid)'
<1>0. /\ TypeOK /\ JournalOK /\ Lone /\ {"compact", "inject", "start"} \subseteq Methods
  BY TypeParts DEF JournalIInv, RequestsInv, Methods
<1>1. \A tid : Taken("start", tid) # {} => Taken("start", tid)' # {}
  BY <1>0, EffectsStay, EffectedTaken
<1>2. PICK tid : tid = disk'.tid
  OBVIOUS
<1>3. CASE disk' = disk
  <2>1. disk.state = "AwaitContinuationStarted" => Taken("start", tid)' # {}
    BY <1>1, <1>2, <1>3 DEF Final
  <2>2. ASSUME disk.state = "Cooldown", InFlight("start", tid)' PROVE FALSE
    <3>1. ~InFlight("start", tid)
      BY <1>2, <1>3, <2>2 DEF Final
    <3>2. PICK p \in Proc : Sent(p, "start")
      BY <1>0, <2>2, <3>1, StartsInFlight
    <3> QED
      BY <1>0, <2>2, <3>2, SendsFirst
  <2> QED
    BY <1>2, <1>3, <2>1, <2>2 DEF Taken, Continuations, InFlight
<1>4. CASE disk' # disk /\ disk'.state \in {"AwaitContinuationStarted", "Cooldown"}
  <2>1. Progress
    BY <1>4 DEF JournalStep, Renewal
  <2>2. /\ tid = disk.tid
        /\ disk.state \in {"StartingContinuation", "AwaitContinuationStarted", "Cooldown"}
        /\ disk.state = "Cooldown" => disk'.state = "Cooldown"
    BY <1>2, <1>4, <2>1 DEF Progress, transition_allowed
  <2>3. inbox' = inbox
    BY <1>0, <1>4, Writer
  <2>4. \/ Taken("start", tid) # {}
        \/ disk'.state = "Cooldown" /\ ~InFlight("start", tid)
    BY <1>4, <2>2, FromStarting DEF Final
  <2>5. disk'.state = "AwaitContinuationStarted" => Taken("start", tid)' # {}
    BY <1>1, <2>4
  <2>6. ~InFlight("start", tid)
    BY <1>0, <2>4, TakenIsServed
  <2>7. ~InFlight("start", tid)'
    BY <2>3, <2>6 DEF InFlight
  <2> QED
    BY <1>2, <2>5, <2>7 DEF InFlight, Taken, Continuations
<1> QED
  BY <1>3, <1>4

LEMMA FinalAsked ==
  ASSUME JournalIInv, JournalIInv', JournalStep, RequestsInv, BindingInv, Final, [Next]_vars,
         Asked("start", disk.tid)'
  PROVE  Taken("inject", disk.tid)' # {}
<1>0. /\ TypeOK /\ JournalOK /\ ChannelOK /\ {"compact", "inject", "start"} \subseteq Methods
      /\ disk.tid \in Nat /\ disk'.tid \in Nat /\ accepted \in Nat /\ disk.tid <= accepted
  BY TypeParts, TidGrows DEF JournalIInv, JournalInv, BookOK, Methods
<1>1. \A tid : Taken("inject", tid) # {} => Taken("inject", tid)' # {}
  BY <1>0, EffectsStay, EffectedTaken
<1>5. PICK tid : tid = disk'.tid
  OBVIOUS
<1>2. CASE AsksNothing
  <2>1. Asked("start", disk'.tid)
    BY <1>0, <1>2, AsksOfDisk
  <2>2. ~Renewal
    BY <1>0, <2>1 DEF RequestsInv, Lone, Renewal
  <2>3. disk'.tid = disk.tid
    BY <2>2 DEF JournalStep, Progress
  <2>4. Taken("inject", tid)' # {}
    BY <1>1, <1>5, <2>1, <2>3 DEF Final
  <2> QED
    BY <1>5, <2>4 DEF Taken, Injections
<1>3. ASSUME NEW p \in Proc, NEW method \in Methods, Sent(p, method), ~AsksNothing
      PROVE  Taken("inject", disk.tid)' # {}
  <2>1. disk' = disk
    BY <1>3 DEF Sent
  <2>2. Taken("inject", disk.tid) # {}
    <3>1. CASE method = "start"
      <4>1. disk.state = "StartingContinuation"
        BY <1>3, <3>1, SendsFirst
      <4>2. Effected(turns, injections, "inject", disk.tid)
        BY <4>1 DEF BindingInv, Effects, Injected
      <4> QED
        BY <1>0, <4>2, EffectedTaken
    <3>2. CASE method # "start"
      <4>1. Asked("start", tid)'
        BY <1>5 DEF Asked, InFlight, Continuations
      <4>2. Asked("start", disk.tid)
        BY <1>0, <1>3, <1>5, <2>1, <3>2, <4>1, SentAsks
      <4> QED
        BY <4>2 DEF Final
    <3> QED
      BY <3>1, <3>2
  <2>3. Taken("inject", tid)' # {}
    BY <1>1, <1>5, <2>1, <2>2
  <2> QED
    BY <1>5, <2>3 DEF Taken, Injections
<1>4. Kept \/ (\E r \in BagToSet(inbox) : Served(r)) => AsksNothing
  BY <1>0, KeptAsks, ServedAsks DEF AsksNothing
<1> QED
  BY <1>0, <1>2, <1>3, <1>4, StepRequests

LEMMA FinalWaits ==
  ASSUME JournalIInv, RequestsInv, BindingInv, Final, [Next]_vars, NEW q \in Proc,
         pc'[q] = "waitStart"
  PROVE  /\ call'[q].tid = mem'[q].tid
         /\ call'[q].status = "rejected" => ~InFlight("start", mem[q].tid)'
<1>0. TypeOK /\ HistoryOK /\ JournalOK /\ ChannelOK /\ Lone
  BY TypeParts DEF JournalIInv, RequestsInv
<1>6. PICK tid : tid = mem'[q].tid
  OBVIOUS
<1>1. CASE Proceed(q)
  <2>1. Calls(q, "start")
    BY <1>0, <1>1, CallFlow
  <2> QED
    BY <2>1 DEF Calls
<1>2. CASE Unmoved(q) /\ call'[q] = call[q]
  <2>1. pc[q] \in Working /\ pc[q] = "waitStart"
    BY <1>2 DEF Unmoved, Working, Continuing
  <2>2. lease = q
    BY <2>1, WorkingHolds DEF JournalIInv, LeaseInv, LeaseExclusive
  <2>3. ASSUME call[q].status = "rejected", InFlight("start", tid)' PROVE FALSE
    <3>2. ~InFlight("start", tid)
      BY <1>2, <1>6, <2>1, <2>3 DEF Unmoved, Final
    <3>3. PICK p \in Proc : Sent(p, "start")
      BY <1>0, <2>3, <3>2, StartsInFlight
    <3>4. lease = p /\ pc[p] = "sendStart"
      BY <3>3, SendsFirst DEF Sent, SentFrom, Methods
    <3> QED
      BY <2>1, <2>2, <3>4
  <2> QED
    BY <1>2, <1>6, <2>1, <2>3 DEF Unmoved, Final, InFlight
<1>3. CASE ServeRequest /\ Unmoved(q) /\ call'[q] # call[q]
  <2>1. pc[q] = "waitStart"
    BY <1>3 DEF Unmoved
  <2>2. Verdict(q)
    BY <1>0, <1>3, ServeVerdict
  <2>3. call[q].method = "start" /\ call[q].tid = tid
    BY <1>3, <1>6, <2>1 DEF BindingInv, Answers, AnswerTrue, Final, Unmoved
  <2>4. ~InFlight("start", tid)'
    BY <1>0, <1>3, <2>3, AnsweredIsServed
  <2> QED
    BY <1>6, <2>2, <2>3, <2>4 DEF Verdict, InFlight
<1>4. CASE ThreadNext
  <2>1. Unmoved(q)
    BY <1>4 DEF ThreadNext, programVars, Unmoved
  <2>2. ServeRequest \/ call'[q] = call[q]
    BY <1>4 DEF ThreadNext, UserTurn, EndTurn, CompactionItemStarts, CompactionItemEnds,
                Disconnect, AskClient, Lag, Repeat
  <2> QED
    BY <1>2, <1>3, <2>1, <2>2
<1>5. CASE UNCHANGED vars
  BY <1>2, <1>5 DEF vars, Unmoved
<1>8. ASSUME NEW p \in Proc, Proceed(p), p # q
      PROVE  Unmoved(q) /\ call'[q] = call[q]
  BY <1>0, <1>8, CallFlow, ProceedIsPrivate DEF Private, Unmoved
<1>7. ASSUME NEW p \in Proc, Boot(p) \/ Crash(p) \/ CallRejected(p) \/ ScheduleBegin(p)
      PROVE  Unmoved(q) /\ call'[q] = call[q]
  <2>1. CASE Boot(p) \/ ScheduleBegin(p)
    BY <1>0, <2>1
       DEF Boot, ScheduleBegin, UnchangedThread, threadVars, Goto, JournalOK, Unmoved
  <2>2. CASE Crash(p)
    BY <1>0, <2>2 DEF Crash, Unsubscribe, Goto, JournalOK, ChannelOK, Unmoved
  <2>3. CASE CallRejected(p)
    BY <2>3 DEF CallRejected, programVars, Unmoved
  <2> QED
    BY <1>7, <2>1, <2>2, <2>3
<1> QED
  BY <1>1, <1>2, <1>4, <1>5, <1>7, <1>8 DEF Next

LEMMA FinalFinish ==
  ASSUME JournalIInv, BindingInv, Final, [Next]_vars, NEW q \in Proc,
         pc'[q] = "finish", mem'[q].state = "Cooldown"
  PROVE  disk'.state \in {"AwaitContinuationStarted", "Cooldown"}
<1>0. JournalOK /\ StreamOK /\ ChannelOK
  BY TypeParts DEF JournalIInv
<1>1. CASE Proceed(q)
  <2>1. disk'.state = "Cooldown" \/ (pc[q] = "confirm" /\ disk' = disk)
    BY <1>0, <1>1, ProceedCools DEF Cools
  <2>2. pc[q] = "confirm" => disk.state = "AwaitContinuationStarted"
    BY WorkingBound DEF Working, Continued, StateAt, BindingInv
  <2> QED
    BY <2>1, <2>2
<1>2. ASSUME pc[q] = "finish", mem'[q] = mem[q], disk' = disk
      PROVE  disk'.state \in {"AwaitContinuationStarted", "Cooldown"}
  BY <1>2 DEF Final
<1>3. ASSUME NEW p \in Proc, Proceed(p), p # q
      PROVE  pc[q] = "finish" /\ mem'[q] = mem[q] /\ disk' = disk
  <2>1. pc'[q] = pc[q] /\ mem'[q] = mem[q]
    BY <1>0, <1>3, ProceedIsPrivate DEF Private
  <2>2. lease = q
    BY <2>1 DEF JournalIInv, LeaseInv, LeaseExclusive, Holding
  <2>3. disk' # disk => lease = p
    BY <1>0, <1>3, WritersHold DEF JournalIInv, LeaseInv, LeaseExclusive
  <2> QED
    BY <1>3, <2>1, <2>2, <2>3
<1>4. ASSUME NEW p \in Proc, Boot(p) \/ Crash(p) \/ CallRejected(p) \/ ScheduleBegin(p)
      PROVE  pc[q] = "finish" /\ mem'[q] = mem[q] /\ disk' = disk
  BY <1>0, <1>4 DEF Boot, Crash, CallRejected, ScheduleBegin, programVars, Goto, JournalOK
<1>5. CASE ThreadNext \/ UNCHANGED vars
  BY <1>2, <1>5 DEF ThreadNext, programVars, vars
<1> QED
  BY <1>1, <1>2, <1>3, <1>4, <1>5 DEF Next

LEMMA FinalNext ==
  ASSUME JournalIInv, RequestsInv, BindingInv, Final, RecoveryCurrent, [Next]_vars
  PROVE  Final'
<1>1. JournalIInv' /\ JournalStep
  BY JournalIInvNext
<1> QED
  BY <1>1, FinalDisk, FinalAsked, FinalWaits, FinalFinish DEF Final

LEMMA FinalCorrect == Spec /\ []RecoveryCurrent => []Final
<1>1. JournalIInv /\ RequestsInv /\ BindingInv /\ Final /\ RecoveryCurrent /\ [Next]_vars
        => Final'
  BY FinalNext
<1> QED
  BY <1>1, FinalInit, RequestsCorrect, BindingsCorrect, PTL DEF Spec

-----------------------------------------------------------------------------
(* The whole promise *)

\* The wishes of the promise are the requests of the thread.
LEMMA PendingWish ==
  ASSUME NEW method, NEW tid
  PROVE  /\ [method |-> method, tid |-> tid] \in Pending <=> InFlight(method, tid)
         /\ [method |-> method, tid |-> tid] \in Pending' <=> InFlight(method, tid)'
BY DEF Pending, InFlight

LEMMA DoneWish ==
  ASSUME NEW method \in Methods, NEW tid
  PROVE  /\ [method |-> method, tid |-> tid] \in Effective <=> Taken(method, tid) # {}
         /\ [method |-> method, tid |-> tid] \in Effective' <=> Taken(method, tid)' # {}
<1> USE DEF Effective, Effect, TurnsBy
<1>1. CASE method = "compact"
  BY <1>1 DEF Taken, CompactTurns
<1>2. CASE method = "inject"
  BY <1>2 DEF Taken, Injections
<1>3. CASE method = "start"
  BY <1>3 DEF Taken, Continuations
<1> QED
  BY <1>1, <1>2, <1>3 DEF Methods

LEMMA DoneWishes ==
  ASSUME NEW wish \in Effective \union Effective'
  PROVE  \E method \in Methods : \E tid : wish = [method |-> method, tid |-> tid]
BY DEF Effective, Effect, Methods

\* What is done changes only as the thread does.
LEMMA DoneSame ==
  ASSUME SameTaken
  PROVE  Effective' = Effective
<1>1. ASSUME NEW method \in Methods, NEW tid
      PROVE  [method |-> method, tid |-> tid] \in Effective' <=>
               [method |-> method, tid |-> tid] \in Effective
  BY DoneWish DEF SameTaken
<1> QED
  BY <1>1, DoneWishes

LEMMA DoneMore ==
  ASSUME NEW r \in Request, Served(r), Taken(r.method, r.tid)' # {}
  PROVE  Effective' = Effective \union {[method |-> r.method, tid |-> r.tid]}
<1> DEFINE wish == [method |-> r.method, tid |-> r.tid]
<1>0. r.method \in Methods
  BY DEF Request
<1>1. wish \in Effective'
  BY <1>0, DoneWish
<1>2. ASSUME NEW method \in Methods, NEW tid, [method |-> method, tid |-> tid] # wish
      PROVE  [method |-> method, tid |-> tid] \in Effective' <=>
               [method |-> method, tid |-> tid] \in Effective
  <2>1. Taken(method, tid)' = Taken(method, tid)
    BY <1>2 DEF Served
  <2> QED
    BY <2>1, DoneWish
<1> HIDE DEF wish
<1>3. Effective' = Effective \union {wish}
  BY <1>1, <1>2, DoneWishes
<1> QED
  BY <1>3 DEF wish

\* What is not asked for is no wish.
LEMMA StillPending ==
  ASSUME ChannelOK', Pending' = Pending, NEW tid,
         \A method \in Methods : ~InFlight(method, tid)'
  PROVE  \A wish \in Pending : wish.tid # tid
<1>1. \A r \in BagToSet(inbox)' : r.method \in Methods
  BY DEF ChannelOK, Request
<1> QED
  BY <1>1 DEF Pending, InFlight

LEMMA StillAsked ==
  ASSUME ChannelOK', Pending' = Pending, Effective' = Effective, NEW tid,
         \A method \in Methods : ~Asked(method, tid)'
  PROVE  \A wish \in Pending \union Effective : wish.tid # tid
<1>1. ASSUME NEW method \in Methods
      PROVE  ~InFlight(method, tid)' /\ Taken(method, tid)' = {}
  BY DEF Asked, Taken, Methods
<1>2. \A wish \in Pending : wish.tid # tid
  BY <1>1, StillPending
<1>3. ASSUME NEW wish \in Effective, wish.tid = tid PROVE FALSE
  <2>1. PICK method \in Methods : wish = [method |-> method, tid |-> tid]
    BY <1>3, DoneWishes
  <2> QED
    BY <1>1, <2>1, DoneWish
<1> QED
  BY <1>2, <1>3

\* The bag of requests loses the one served, and gains the one sent.
LEMMA InboxWithout ==
  ASSUME ChannelOK, NEW r \in Request, inbox' = inbox (-) SetToBag({r}), inbox[r] = 1
  PROVE  BagToSet(inbox)' = BagToSet(inbox) \ {r}
<1> USE DEF IsABag, BagToSet, SetToBag
<1>1. DOMAIN inbox \subseteq Request /\ inbox \in [DOMAIN inbox -> {n \in Nat : n > 0}]
  BY DEF ChannelOK
<1> QED
  BY <1>1 DEF (-)

LEMMA InboxWith ==
  ASSUME ChannelOK, NEW r \in Request, inbox' = inbox (+) SetToBag({r})
  PROVE  BagToSet(inbox)' = BagToSet(inbox) \union {r}
<1> USE DEF IsABag, BagToSet, SetToBag
<1>1. DOMAIN inbox \subseteq Request /\ inbox \in [DOMAIN inbox -> {n \in Nat : n > 0}]
  BY DEF ChannelOK
<1> QED
  BY <1>1 DEF (+)

\* The order of the three requests, and what a verdict says of them.
InOrder ==
  /\ Asked("inject", disk.tid) => Taken("compact", disk.tid) # {}
  /\ Asked("start", disk.tid) => Taken("inject", disk.tid) # {}
  /\ disk.state = "Cooldown" =>
       /\ Taken("compact", disk.tid) # {} /\ Taken("inject", disk.tid) # {}
       /\ \A method \in Methods : ~InFlight(method, disk.tid)
  /\ disk.reason = "ProcessRestarted" => \A method \in Methods : ~Asked(method, disk.tid)

LEMMA OrderHolds ==
  JournalIInv /\ RequestsInv /\ BindingInv /\ Final => InOrder
<1> SUFFICES ASSUME JournalIInv, RequestsInv, BindingInv, Final PROVE InOrder
  OBVIOUS
<1>0. Methods = {"compact", "inject", "start"}
  BY DEF Methods
<1>1. \A method \in Methods :
        Asked(method, disk.tid) <=>
          InFlight(method, disk.tid) \/ Taken(method, disk.tid) # {}
  BY AskedTaken
<1>2. disk.capsule => Taken("compact", disk.tid) # {}
  <2> SUFFICES ASSUME disk.capsule PROVE Taken("compact", disk.tid) # {}
    OBVIOUS
  <2>1. Compacted(turns, disk)
    BY DEF BindingInv, Bindings, Bound
  <2> QED
    BY <2>1 DEF Compacted, unique_turn, Taken, CompactTurns
<1>3. Asked("inject", disk.tid) => Taken("compact", disk.tid) # {}
  BY <1>2 DEF BindingInv, Effects
<1>4. Asked("start", disk.tid) => Taken("inject", disk.tid) # {}
  BY DEF Final
<1>5. disk.state = "Cooldown" => Taken("inject", disk.tid) # {}
  BY <1>0, EffectedTaken DEF BindingInv, Effects, Injected
<1>6. disk.state = "Cooldown" => \A method \in Methods : ~InFlight(method, disk.tid)
  <2> SUFFICES ASSUME disk.state = "Cooldown", NEW method \in Methods
               PROVE  ~InFlight(method, disk.tid)
    OBVIOUS
  <2>1. CASE method = "start"
    BY <2>1 DEF Final
  <2>2. CASE method # "start"
    <3>1. Taken(method, disk.tid) # {}
      BY <1>0, <1>1, <1>3, <1>5, <2>2
    <3> QED
      BY <3>1, TakenIsServed DEF RequestsInv
  <2> QED
    BY <2>1, <2>2
<1>7. disk.reason = "ProcessRestarted" => ~Asked("compact", disk.tid)
  BY DEF RequestsInv, Harmless, RestartCancelsHarmlessly
<1> QED
  BY <1>0, <1>1, <1>3, <1>4, <1>5, <1>6, <1>7 DEF InOrder

\* What the verdicts stand for.
LEMMA VerdictMeans ==
  ASSUME NEW journal \in Journal, WellFormed(journal)
  PROVE  /\ journal.state = "None" => VerdictOf(journal) = "none"
         /\ journal.state = "Cooldown" => VerdictOf(journal) = "cooldown"
         /\ journal.state \in {"Cancelled", "FailedSafe"} =>
              VerdictOf(journal) = IF journal.reason = "ProcessRestarted" THEN "undone"
                                                                         ELSE "stopped"
         /\ journal.state \notin {"None"} \union Terminal => VerdictOf(journal) = "open"
BY DEF VerdictOf, WellFormed, NoJournal, Terminal, Journal

\* A request served has its effect or is lost.
LEMMA ServedPromise ==
  ASSUME ChannelOK, Lone, NEW r \in BagToSet(inbox), Served(r), disk' = disk
  PROVE  Promise!Lose \/ \E wish \in Pending : Promise!TakeEffect(wish)
<1> DEFINE wish == [method |-> r.method, tid |-> r.tid]
<1>1. r \in Request /\ inbox[r] = 1 /\ r.method \in Methods
  BY DEF ChannelOK, Lone, Request
<1>2. BagToSet(inbox)' = BagToSet(inbox) \ {r}
  BY <1>1, InboxWithout DEF Served
<1>3. \A s \in BagToSet(inbox) : s.method = r.method /\ s.tid = r.tid => s = r
  BY DEF Lone
<1>4. wish \in Pending /\ Pending' = Pending \ {wish}
  BY <1>2, <1>3 DEF Pending
<1>5. VerdictOf(disk)' = VerdictOf(disk)
  BY DEF VerdictOf
<1>6. CASE Taken(r.method, r.tid)' # {}
  <2>1. Effective' = Effective \union {wish}
    BY <1>1, <1>6, DoneMore
  <2> QED
    BY <1>4, <1>5, <2>1 DEF Promise!TakeEffect
<1>7. CASE Taken(r.method, r.tid)' = {}
  <2>1. SameTaken
    BY <1>7 DEF Served, SameTaken
  <2> QED
    BY <1>4, <1>5, <2>1, DoneSame DEF Promise!Lose
<1> QED
  BY <1>6, <1>7

\* A request sent is asked for in its order.
LEMMA SentPromise ==
  ASSUME JournalIInv, RequestsInv, BindingInv, InOrder, NEW p \in Proc,
         NEW method \in Methods, Sent(p, method)
  PROVE  Promise!Ask(method)
<1> DEFINE r == [proc |-> p, method |-> method, tid |-> mem[p].tid]
           wish == [method |-> method, tid |-> disk.tid]
<1>0. /\ JournalOK /\ ChannelOK /\ disk \in Journal /\ WellFormed(disk)
      /\ {"compact", "inject", "start"} \subseteq Methods
  BY TypeParts DEF JournalIInv, JournalInv, JournalOK, Methods
<1>1. /\ mem[p].tid = disk.tid /\ ~Asked(method, disk.tid)
      /\ method = "compact" => disk.state = "CompactRequestSent"
      /\ method = "inject" => disk.state = "InjectingCheckpoint"
      /\ method = "start" => disk.state = "StartingContinuation"
  BY SendsFirst
<1>2. VerdictOf(disk) = "open"
  <2>1. disk.state \notin {"None"} \union Terminal
    BY <1>1 DEF Terminal, Methods
  <2> QED
    BY <1>0, <2>1, VerdictMeans
<1>3. wish \notin Pending \union Effective
  BY <1>0, <1>1, AskedTaken, PendingWish, DoneWish
<1>4. method = "inject" => [method |-> "compact", tid |-> disk.tid] \in Effective
  <2> SUFFICES ASSUME method = "inject"
               PROVE  [method |-> "compact", tid |-> disk.tid] \in Effective
    OBVIOUS
  <2>1. disk.capsule
    BY <1>0, <1>1 DEF WellFormed, Injecting
  <2>2. Compacted(turns, disk)
    BY <2>1 DEF BindingInv, Bindings, Bound
  <2>3. Taken("compact", disk.tid) # {}
    BY <2>2 DEF Compacted, unique_turn, Taken, CompactTurns
  <2> QED
    BY <1>0, <2>3, DoneWish
<1>5. method = "start" => [method |-> "inject", tid |-> disk.tid] \in Effective
  <2> SUFFICES ASSUME method = "start"
               PROVE  [method |-> "inject", tid |-> disk.tid] \in Effective
    OBVIOUS
  <2>1. Effected(turns, injections, "inject", disk.tid)
    BY <1>1 DEF BindingInv, Effects, Injected
  <2>2. Taken("inject", disk.tid) # {}
    BY <1>0, <2>1, EffectedTaken
  <2> QED
    BY <1>0, <2>2, DoneWish
<1>6. Pending' = Pending \union {wish}
  <2>1. r \in Request
    BY <1>0 DEF JournalOK, Journal, Request
  <2>2. BagToSet(inbox)' = BagToSet(inbox) \union {r}
    BY <1>0, <2>1, InboxWith DEF Sent
  <2>3. r.method = method /\ r.tid = disk.tid
    BY <1>1
  <2> HIDE DEF r
  <2> QED
    BY <2>2, <2>3 DEF Pending
<1>7. Effective' = Effective /\ disk' = disk
  BY DoneSame DEF Sent
<1>8. VerdictOf(disk)' = VerdictOf(disk)
  BY <1>7 DEF VerdictOf
<1> QED
  BY <1>2, <1>3, <1>4, <1>5, <1>6, <1>7, <1>8 DEF Promise!Ask, Promise!Wish

\* A journal that is written keeps the promise.
LEMMA WritePromise ==
  ASSUME JournalIInv, JournalIInv', JournalStep, InOrder', disk' # disk,
         Pending' = Pending, Effective' = Effective
  PROVE  \/ Promise!Accept \/ Promise!Lose \/ Promise!Finish
         \/ Promise!Stop \/ Promise!Undo
<1>0. /\ ChannelOK' /\ disk \in Journal /\ disk' \in Journal /\ disk.tid \in Nat /\ disk'.tid \in Nat
      /\ WellFormed(disk) /\ WellFormed(disk') /\ disk.tid <= accepted /\ accepted \in Nat
  <2>1. JournalOK /\ JournalOK' /\ BookOK /\ ChannelOK'
    BY TypeParts, TypePartsPrimed DEF JournalIInv
  <2>2. WellFormed(disk) /\ WellFormed(disk') /\ disk.tid <= accepted
    BY DEF JournalIInv, JournalInv, WellFormed
  <2> QED
    BY <2>1, <2>2, JournalFields DEF JournalOK, BookOK
<1>1. VerdictOf(disk)' = VerdictOf(disk')
  BY DEF VerdictOf
<1>2. CASE Renewal
  <2>1. VerdictOf(disk) # "open"
    BY <1>0, <1>2, VerdictMeans
       DEF Renewal, AdmitsSchedule, NoJournal, is_terminal, Terminal
  <2>2. VerdictOf(disk') = "open"
    BY <1>0, <1>2, VerdictMeans DEF Renewal, Terminal
  <2>3. disk'.tid > disk.tid
    BY <1>0, <1>2 DEF Renewal
  <2> QED
    BY <1>0, <1>1, <2>1, <2>2, <2>3 DEF Promise!Accept
<1>3. CASE Progress /\ disk'.state = "Cooldown"
  <2>1. /\ disk'.tid = disk.tid
        /\ disk.state \in {"StartingContinuation", "AwaitContinuationStarted", "Cooldown"}
    BY <1>3 DEF Progress, transition_allowed
  <2>2. VerdictOf(disk') = "cooldown"
    BY <1>0, <1>3, VerdictMeans
  <2>3. CASE disk.state = "Cooldown"
    <3>1. VerdictOf(disk) = "cooldown"
      BY <1>0, <2>3, VerdictMeans
    <3> QED
      BY <1>1, <2>1, <2>2, <3>1 DEF Promise!Lose
  <2>4. CASE disk.state # "Cooldown"
    <3>1. VerdictOf(disk) = "open"
      BY <1>0, <2>1, <2>4, VerdictMeans DEF Terminal
    <3>2. PICK tid : tid = disk.tid
      OBVIOUS
    <3>3. /\ Taken("compact", tid)' # {} /\ Taken("inject", tid)' # {}
          /\ \A method \in Methods : ~InFlight(method, tid)'
      BY <1>3, <2>1, <3>2 DEF InOrder, Taken, CompactTurns, Injections, InFlight
    <3>4. /\ [method |-> "compact", tid |-> tid] \in Effective
          /\ [method |-> "inject", tid |-> tid] \in Effective
      BY <3>3, DoneWish DEF Methods
    <3>5. \A wish \in Pending : wish.tid # tid
      BY <1>0, <3>3, StillPending
    <3> QED
      BY <1>1, <2>1, <2>2, <3>1, <3>2, <3>4, <3>5 DEF Promise!Finish, Promise!Wish
  <2> QED
    BY <2>3, <2>4
<1>4. CASE Progress /\ disk'.state \in {"Cancelled", "FailedSafe"}
  <2>1. disk'.tid = disk.tid /\ disk.state # "None"
    BY <1>4 DEF Progress
  <2>2. Promise!MayStop
    <3>1. CASE disk.state \in Terminal
      <4>1. VerdictOf(disk) # "none"
        BY <1>0, <3>1, VerdictMeans DEF Terminal
      <4>2. "unsynced" \in Faults
        BY <1>4, <3>1 DEF Progress, is_terminal
      <4> QED
        BY <4>1, <4>2 DEF Promise!MayStop
    <3>2. CASE disk.state \notin Terminal
      <4>1. VerdictOf(disk) = "open"
        BY <1>0, <2>1, <3>2, VerdictMeans
      <4> QED
        BY <4>1 DEF Promise!MayStop
    <3> QED
      BY <3>1, <3>2
  <2>3. CASE disk'.reason # "ProcessRestarted"
    <3>1. VerdictOf(disk') = "stopped"
      BY <1>0, <1>4, <2>3, VerdictMeans
    <3> QED
      BY <1>1, <2>1, <2>2, <3>1 DEF Promise!Stop
  <2>4. CASE disk'.reason = "ProcessRestarted"
    <3>1. VerdictOf(disk') = "undone"
      BY <1>0, <1>4, <2>4, VerdictMeans
    <3>2. PICK tid : tid = disk.tid
      OBVIOUS
    <3>3. ASSUME NEW method \in Methods PROVE ~Asked(method, tid)'
      <4>1. ~Asked(method, disk.tid)'
        BY <2>4 DEF InOrder
      <4>2. disk'.tid = tid
        BY <2>1, <3>2
      <4>3. CASE method = "compact"
        BY <4>1, <4>2, <4>3 DEF Asked, CompactTurns, InFlight
      <4>4. CASE method = "inject"
        BY <4>1, <4>2, <4>4 DEF Asked, Injections, InFlight
      <4>5. CASE method = "start"
        BY <4>1, <4>2, <4>5 DEF Asked, Continuations, InFlight
      <4> QED
        BY <4>3, <4>4, <4>5 DEF Methods
    <3>4. \A wish \in Pending \union Effective : wish.tid # tid
      BY <1>0, <3>3, StillAsked
    <3> QED
      BY <1>1, <2>1, <2>2, <3>1, <3>2, <3>4 DEF Promise!Undo
  <2> QED
    BY <2>3, <2>4
<1>5. CASE Progress /\ disk'.state \notin Terminal
  <2>1. /\ disk'.tid = disk.tid
        /\ disk.state \notin {"None"} \union Terminal
        /\ disk'.state \notin {"None"} \union Terminal
    BY <1>5 DEF Progress, transition_allowed, Terminal
  <2>2. VerdictOf(disk) = "open" /\ VerdictOf(disk') = "open"
    BY <1>0, <2>1, VerdictMeans
  <2> QED
    BY <1>1, <2>1, <2>2 DEF Promise!Lose
<1> QED
  BY <1>2, <1>3, <1>4, <1>5 DEF JournalStep, Terminal

\* Every step of the processes, the thread and the faults is one of the promise.
LEMMA PromiseNext ==
  ASSUME JournalIInv, JournalIInv', JournalStep, RequestsInv, BindingInv, InOrder, InOrder',
         [Next]_vars
  PROVE  [Promise!PromiseNext]_(Promise!promiseVars)
<1>0. TypeOK /\ JournalOK /\ ChannelOK /\ Lone
  BY TypeParts DEF JournalIInv, RequestsInv
<1>1. CASE Kept
  <2>1. Effective' = Effective
    BY <1>1, DoneSame DEF Kept
  <2>2. CASE disk' = disk
    <3>1. Pending' \subseteq Pending
      BY <1>1 DEF Kept, Pending
    <3>2. VerdictOf(disk)' = VerdictOf(disk)
      BY <2>2 DEF VerdictOf
    <3> QED
      BY <2>1, <2>2, <3>1, <3>2 DEF Promise!PromiseNext, Promise!Lose
  <2>3. CASE disk' # disk
    <3>1. inbox' = inbox
      BY <1>0, <2>3, Writer
    <3>2. Pending' = Pending
      BY <3>1 DEF Pending
    <3> QED
      BY <2>1, <2>3, <3>2, WritePromise DEF Promise!PromiseNext
  <2> QED
    BY <2>2, <2>3
<1>2. ASSUME NEW r \in BagToSet(inbox), Served(r), UNCHANGED programVars
      PROVE  Promise!PromiseNext
  <2>1. disk' = disk
    BY <1>2 DEF programVars
  <2> QED
    BY <1>0, <1>2, <2>1, ServedPromise DEF Promise!PromiseNext
<1>3. ASSUME NEW p \in Proc, NEW method \in Methods, Sent(p, method)
      PROVE  Promise!PromiseNext
  <2>1. Promise!Ask(method)
    BY <1>3, SentPromise
  <2> QED
    BY <2>1 DEF Promise!PromiseNext, Methods
<1> QED
  BY <1>0, <1>1, <1>2, <1>3, StepRequests

\* A thread without a transition promises nothing yet.
LEMMA PromiseInit == Init => Promise!PromiseInit
<1> SUFFICES ASSUME Init PROVE Promise!PromiseInit
  OBVIOUS
<1>1. disk = NoJournal /\ BagToSet(inbox) = {} /\ injections = <<>>
      /\ Len(turns) = 1 /\ turns[1].origin = "user"
  BY DEF Init, ThreadInit, NewTurn, BagToSet, EmptyBag, SetToBag
<1>2. Pending = {}
  BY <1>1 DEF Pending
<1>3. Effective = {}
  BY <1>1 DEF Effective, Effect, TurnsBy
<1>4. disk.tid = 0 /\ VerdictOf(disk) = "none"
  BY <1>1 DEF NoJournal, VerdictOf
<1> QED
  BY <1>2, <1>3, <1>4 DEF Promise!PromiseInit

\* What the processes of a thread do implements what CompactionPromise promises
\* of its transitions, whatever is lost, late, repeated, refused or restarted:
\* each asks for the compaction, the injection and the continuation once and in
\* this order, while it is open and after the one before has taken effect; it ends
\* in a cooldown only with the first two done and nothing still to come, and as
\* undone by a restart only if it has asked for nothing (orchestrator.rs,
\* runner.rs, recovery.rs, journal.rs:250-266).
THEOREM PromiseIsKept == Spec /\ []RecoveryCurrent => KeepsPromise
<1>1. JournalIInv /\ RequestsInv /\ BindingInv /\ InOrder /\ InOrder' /\ JournalIInv'
      /\ RecoveryCurrent /\ [Next]_vars
      => [Promise!PromiseNext]_(Promise!promiseVars)
  BY JournalIInvNext, PromiseNext
<1> QED
  BY <1>1, PromiseInit, OrderHolds, RequestsCorrect, BindingsCorrect, FinalCorrect, PTL
     DEF Spec, KeepsPromise, Promise!PromiseSpec

\* A process that is alone needs no hypothesis on recovery.
THEOREM AloneKeepsPromise == OneProcess /\ Spec => KeepsPromise
BY RecoveryIsCurrent, PromiseIsKept, PTL
=============================================================================
