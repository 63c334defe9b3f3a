---------------------------- MODULE DescendantWalk ----------------------------
(***************************************************************************)
(* ensure_no_active_descendant (src/src/orchestrator.rs:311-361): the      *)
(* program lists the loaded threads, page by page                          *)
(* (src/src/app_server.rs:319-357), and climbs from each active one        *)
(* towards the root.  It asks one question at a time while the threads go  *)
(* on starting and ending their turns, so its answer is about no single    *)
(* moment.                                                                 *)
(***************************************************************************)
EXTENDS Integers, FiniteSets

CONSTANTS Thread,     \* threads of the app-server, in the order it lists them
          Root,       \* the thread to be compacted
          NoThread,   \* the parent of a root thread
          MaxDepth,   \* 32: parents read from one active thread
          MaxPages,   \* MAX_LOADED_PAGES, 256
          MaxLoaded,  \* MAX_LOADED_THREADS, 65,536
          MaxChanges, \* bound: turns started or ended and threads unloaded meanwhile
          WalkFaults  \* subset of {"read", "cursor"}

ASSUME WalkAssumption ==
  /\ Thread \subseteq Nat \ {0}
  /\ Root \in Thread
  /\ NoThread \notin Thread
  /\ {MaxDepth, MaxPages, MaxLoaded} \subseteq Nat \ {0}
  /\ MaxChanges \in Nat
  /\ WalkFaults \subseteq {"read", "cursor"}

VARIABLES
  parent,  \* thread -> parent_thread_id, as the app-server reports it
  loaded,  \* the threads loaded by the app-server
  busy,    \* those with a turn in progress
  changes, \* how often loaded or busy has changed
  at,      \* current: the thread read last on the way up
  asking,  \* what the walk asks next: "page", "thread", "parent", or "over"
  cursor,  \* pagination cursor, 0 for none
  pages,   \* pages read
  listed,  \* output of loaded_threads
  todo,    \* listed threads not yet visited by the outer loop
  visited, \* threads met on the way up
  depth,   \* index of the inner loop
  answer,  \* "none" until the walk is over
  steady,  \* history: threads loaded and active since the walk began
  worked   \* history: threads active at some time since then

threadVars == <<parent, loaded, busy, changes, steady, worked>>
walkLocals == <<at, asking, cursor, pages, listed, todo, visited, depth, answer>>
walkVars == <<parent, loaded, busy, changes, at, asking, cursor, pages, listed, todo,
              visited, depth, answer, steady, worked>>

Answers == {"none", "idle", "active", "ambiguous", "protocol", "failed"}

WalkTypeOK ==
  /\ parent \in [Thread -> Thread \union {NoThread}]
  /\ busy \subseteq loaded /\ loaded \subseteq Thread
  /\ steady \subseteq busy /\ busy \subseteq worked /\ worked \subseteq Thread
  /\ changes \in 0..MaxChanges
  /\ at \in Thread
  /\ asking \in {"page", "thread", "parent", "over"}
  /\ cursor \in Thread \union {0}
  /\ pages \in 0..MaxPages
  /\ todo \subseteq listed /\ listed \subseteq Thread
  /\ visited \subseteq Thread
  /\ depth \in 0..MaxDepth - 1
  /\ answer \in Answers
  /\ asking = "over" <=> answer # "none"

\* Any threads with any parents, cycles included.  The root has none, as the
\* preflight has checked, and is loaded, as the connection has resumed it.
WalkInit ==
  /\ parent \in {f \in [Thread -> Thread \union {NoThread}] : f[Root] = NoThread}
  /\ loaded \in {ids \in SUBSET Thread : Root \in ids}
  /\ busy \in SUBSET loaded
  /\ changes = 0
  /\ at = Root
  /\ asking = "page"
  /\ cursor = 0
  /\ pages = 0
  /\ listed = {}
  /\ todo = {}
  /\ visited = {}
  /\ depth = 0
  /\ answer = "none"
  /\ steady = busy
  /\ worked = busy

-----------------------------------------------------------------------------
(* The threads, meanwhile *)

ThreadsMayChange == asking # "over" /\ changes < MaxChanges

\* A turn starts; a thread that was not loaded is loaded for it.
TurnStarts(t) ==
  /\ ThreadsMayChange
  /\ t \notin busy
  /\ loaded' = loaded \union {t}
  /\ busy' = busy \union {t}
  /\ worked' = worked \union {t}
  /\ changes' = changes + 1
  /\ UNCHANGED <<parent, steady, walkLocals>>

TurnEnds(t) ==
  /\ ThreadsMayChange
  /\ t \in busy
  /\ busy' = busy \ {t}
  /\ steady' = steady \ {t}
  /\ changes' = changes + 1
  /\ UNCHANGED <<parent, loaded, worked, walkLocals>>

Unloads(t) ==
  /\ ThreadsMayChange
  /\ t \in loaded \ busy
  /\ loaded' = loaded \ {t}
  /\ changes' = changes + 1
  /\ UNCHANGED <<parent, busy, steady, worked, walkLocals>>

-----------------------------------------------------------------------------
(* loaded_threads *)

\* The function returns, and its locals are gone.
Return(a) ==
  /\ asking' = "over" /\ answer' = a
  /\ at' = Root /\ visited' = {} /\ depth' = 0
  /\ cursor' = 0 /\ pages' = 0 /\ listed' = {} /\ todo' = {}
Ask(what) == asking' = what /\ UNCHANGED answer

\* The app-server lists loaded threads in its order, from the cursor on, as many
\* as it likes, and the last one is the next cursor if threads are left.  A
\* faulty one repeats its cursor.
Unlisted == {t \in loaded : t > cursor}
Pages == {ids \in SUBSET Unlisted : \A t \in ids : \A u \in Unlisted : u < t => u \in ids}
NextCursor(ids) ==
  (IF Unlisted \subseteq ids THEN {0} ELSE {t \in ids : \A u \in ids : u <= t})
    \union (IF "cursor" \in WalkFaults THEN {cursor} \ {0} ELSE {})

ListPage ==
  /\ asking = "page"
  /\ \E ids \in Pages : \E next \in NextCursor(ids) :
       LET found == listed \union ids
           refused == \/ Cardinality(found) > MaxLoaded
                      \/ next # 0 /\ (next = cursor \/ pages + 1 = MaxPages)
       IN \/ refused /\ Return("protocol")
          \/ /\ ~refused
             /\ Ask(IF next = 0 THEN "thread" ELSE "page")
             /\ listed' = found
             /\ todo' = IF next = 0 THEN found ELSE {}
             /\ cursor' = next
             /\ pages' = pages + 1
             /\ UNCHANGED <<at, visited, depth>>
  /\ UNCHANGED threadVars

-----------------------------------------------------------------------------
(* active_descendant_exists *)

\* The outer loop reads the next listed thread; the root and idle threads are left out.
ReadThread_AnyStatus(t) ==
  /\ asking = "thread" /\ t \in todo /\ \A u \in todo : t <= u
  /\ todo' = todo \ {t}
  /\ IF t = Root
       THEN Ask("thread") /\ UNCHANGED <<at, visited, depth>>
       ELSE Ask("parent") /\ at' = t /\ visited' = {} /\ depth' = 0
  /\ UNCHANGED <<threadVars, cursor, pages, listed>>

ReadThread(t) ==
  /\ asking = "thread" /\ t \in todo /\ \A u \in todo : t <= u
  /\ todo' = todo \ {t}
  /\ IF t = Root \/ t \notin busy
       THEN Ask("thread") /\ UNCHANGED <<at, visited, depth>>
       ELSE Ask("parent") /\ at' = t /\ visited' = {} /\ depth' = 0
  /\ UNCHANGED <<threadVars, cursor, pages, listed>>

NothingLeft ==
  /\ asking = "thread" /\ todo = {}
  /\ Return("idle")
  /\ UNCHANGED threadVars

\* The inner loop on the thread read last: it was met before, it is a top, it is
\* a child of the root, or its parent is read, which may be one read too many.
Looped == at \in visited /\ Return("ambiguous")

Topped ==
  /\ at \notin visited /\ parent[at] = NoThread
  /\ Ask("thread")
  /\ UNCHANGED <<at, visited, depth, cursor, pages, listed, todo>>

Found == at \notin visited /\ parent[at] = Root /\ Return("active")

ReadParent_BoundBreaks ==
  /\ at \notin visited /\ parent[at] \notin {Root, NoThread}
  /\ Ask(IF depth = MaxDepth - 1 THEN "thread" ELSE "parent") /\ at' = parent[at]
  /\ visited' = visited \union {at} /\ depth' = IF depth = MaxDepth - 1 THEN 0 ELSE depth + 1
  /\ UNCHANGED <<cursor, pages, listed, todo>>

ReadParent_Unbounded ==
  /\ at \notin visited /\ parent[at] \notin {Root, NoThread}
  /\ Ask("parent") /\ at' = parent[at]
  /\ UNCHANGED <<visited, depth, cursor, pages, listed, todo>>

ReadParent_BoundEarly ==
  /\ at \notin visited /\ parent[at] \notin {Root, NoThread}
  /\ \/ depth + 2 >= MaxDepth /\ Return("ambiguous")
     \/ /\ depth + 2 < MaxDepth
        /\ Ask("parent") /\ at' = parent[at]
        /\ visited' = visited \union {at} /\ depth' = depth + 1
        /\ UNCHANGED <<cursor, pages, listed, todo>>

ReadParent ==
  /\ at \notin visited /\ parent[at] \notin {Root, NoThread}
  /\ \/ depth = MaxDepth - 1 /\ Return("ambiguous")
     \/ /\ depth < MaxDepth - 1
        /\ Ask("parent") /\ at' = parent[at]
        /\ visited' = visited \union {at} /\ depth' = depth + 1
        /\ UNCHANGED <<cursor, pages, listed, todo>>

Climb ==
  /\ asking = "parent"
  /\ Looped \/ Topped \/ Found \/ ReadParent
  /\ UNCHANGED threadVars

\* thread/loaded/list or thread/read fails for good.
ReadFails ==
  /\ "read" \in WalkFaults /\ asking # "over"
  /\ Return("failed")
  /\ UNCHANGED threadVars

-----------------------------------------------------------------------------

Walk == ListPage \/ (\E t \in Thread : ReadThread(t)) \/ NothingLeft \/ Climb \/ ReadFails
WalkNext ==
  \/ Walk
  \/ \E t \in Thread : TurnStarts(t) \/ TurnEnds(t) \/ Unloads(t)

WalkSpec == WalkInit /\ [][WalkNext]_walkVars
\* Each read has its time limit, so the walk goes on; the threads need not do anything.
FairWalkSpec == WalkSpec /\ WF_walkVars(Walk)

-----------------------------------------------------------------------------
(* What the answer is worth *)

\* t is a descendant of the root: whoever follows the parents from t comes to a
\* child of the root, as each set closed under that contains one.
Descends(t) ==
  \A S \in SUBSET Thread :
    (t \in S /\ \A u \in S : parent[u] \in Thread \ {Root} => parent[u] \in S)
      => \E u \in S : parent[u] = Root

\* After "no active descendant" there is no descendant that was loaded and
\* active all the time: none is overlooked between two pages, by the page or
\* thread bounds, or because its chain is long or runs into a cycle.
IdleMeansNoneWorked == answer = "idle" => \A t \in steady : ~Descends(t)

\* Compaction is refused for an active descendant only if there is one that
\* was active while the walk went on.
ActiveMeansOneWorked == answer = "active" => \E t \in worked : Descends(t)

\* t has MaxDepth ancestors in a row, and the root is not among them.
ManyAncestors(t) ==
  \E up \in [0..MaxDepth -> Thread \ {Root}] :
    up[0] = t /\ \A n \in 1..MaxDepth : up[n] = parent[up[n - 1]]

\* The ancestors of t go round in a circle.
EndlessAncestors(t) ==
  \E S \in SUBSET (Thread \ {Root}) : t \in S /\ \A u \in S : parent[u] \in S

\* The chain is called ambiguous only if it is: an active thread had MaxDepth
\* ancestors in a row, or endlessly many, and the root was not among them. A
\* descendant whose chain is just short enough never ends in this error.
AmbiguousMeansLong ==
  answer = "ambiguous" => \E t \in worked : ManyAncestors(t) \/ EndlessAncestors(t)

\* Every walk ends, whatever cycles the parents form and however the pages come.
WalkEnds == <>(asking = "over")

=============================================================================
