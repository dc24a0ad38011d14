-------------------------- MODULE PublishingProofs --------------------------
(***************************************************************************)
(* Theorems about Publishing, for every number of applications, topics,    *)
(* publishers and tasks.                                                   *)
(***************************************************************************)
EXTENDS Publishing, FiniteSetTheorems, TLAPS

AppLabels == {"idle", "once", "collect", "collecting", "schedule", "take"}
Labels    == AppLabels \cup {"none", "ready", "check", "sleep", "done"}

\* The shape of the functions a step updates at one point.
Shape ==
  /\ pc \in [Publishing -> Labels]
  /\ arg = [x \in Publishing |-> arg[x]]
  /\ \A x \in Publishing : arg[x] = [topic |-> arg[x].topic, struct |-> arg[x].struct]
  /\ runningTasks = [t \in Topics |-> runningTasks[t]]
  /\ update.rest \subseteq Topics

\* The node runs between start() and stop(), and has no tasks before.
Phases ==
  /\ main = "new" => loop = "off"
  /\ shouldRun => main = "started"
  /\ loop = "off" => active = None /\ \A k \in Tasks : pc[k] = "none"

\* While it does, a task that is not over is the one its topic has in
\* running_tasks: nothing is removed from there before stop().
Registered ==
  shouldRun =>
    \A k \in Tasks :
      Live(k) => /\ arg[k].topic \in Topics
                 /\ runningTasks[arg[k].topic] = k

Inv == Shape /\ Phases /\ Registered

\* Applications are not tasks, and None is neither.
LEMMA Distinct ==
  /\ None \notin Tasks /\ None \notin Apps /\ None # "update"
  /\ \A x \in Apps, k \in Tasks : x # k
BY SetsAssumption

\* No task exists when the node is made.
LEMMA InitInv == Init => Inv
BY Distinct DEF Init, Inv, Shape, Phases, Registered, Publishing, Labels, AppLabels, Live,
  NoArg

\* What an application does leaves the tasks as they are.
LEMMA AppStep ==
  ASSUME Inv, NEW x \in Apps,
         PublishRate(x) \/ PublishOnce(x) \/ Continue(x)
  PROVE  Inv'
<1> USE Distinct DEF Inv, Shape, Phases, Registered, Publishing, Labels, AppLabels, Live, Go
<1>1. CASE PublishRate(x)
  BY <1>1 DEF PublishRate, Call, Insert, scheduler, tasks, stopping
<1>2. CASE PublishOnce(x)
  <2>1. PICK t \in Topics :
          /\ arg' = [arg EXCEPT ![x] = [topic |-> t, struct |-> calls + 1]]
          /\ Go(x, IF publishers[t] = None THEN "once" ELSE "take")
    BY <1>2 DEF PublishOnce
  <2>2. UNCHANGED <<objects, held, scheduler, tasks, stopping>>
    BY <1>2 DEF PublishOnce
  <2> QED BY <2>1, <2>2 DEF scheduler, tasks, stopping
<1>3. CASE ScheduleUpdate(x)
  BY <1>3 DEF ScheduleUpdate, objects, tasks, stopping, history
<1>4. CASE InsertOnce(x)
  BY <1>4 DEF InsertOnce, Insert, scheduler, tasks, stopping
<1>5. CASE PublisherFails(x)
  BY <1>5 DEF PublisherFails, Done, NoArg, objects, scheduler, tasks, stopping
<1>6. CASE AppPublishes(x)
  BY <1>6 DEF AppPublishes, Take, Done, NoArg, scheduler, tasks, stopping
<1>7. CASE CollectBegin(x) \/ CollectEnd(x)
  BY <1>7 DEF CollectBegin, CollectEnd, scheduler, tasks, stopping
<1>8. CASE CollectRaises(x)
  BY <1>8 DEF CollectRaises, Done, NoArg, scheduler, tasks, stopping
<1> QED BY <1>1, <1>2, <1>3, <1>4, <1>5, <1>6, <1>7, <1>8 DEF Continue

\* An update makes a task only for a topic that has none.
LEMMA UpdateStep ==
  ASSUME Inv, BeginUpdate \/ UpdateTopic \/ EndUpdate \/ UpdateRaises
  PROVE  Inv'
<1> USE Distinct DEF Inv, Shape, Phases, Registered, Publishing, Labels, AppLabels, Live, Go
<1>1. CASE BeginUpdate
  BY <1>1 DEF BeginUpdate, Idle, Named, callers, tasks, stopping
<1>2. CASE UpdateTopic
  <2>1. PICK t \in update.rest :
          /\ update' = [update EXCEPT !.rest = @ \ {t}]
          /\ IF runningTasks[t] = None /\ pub[publishers[t]].rated
               THEN NewTask(t)
               ELSE UNCHANGED <<callers, runningTasks, ready>>
    BY <1>2 DEF UpdateTopic
  <2>2. /\ active = "update"
        /\ UNCHANGED <<objects, loop, active, cancelled, stopping, history>>
    BY <1>2 DEF UpdateTopic
  <2>3. t \in Topics /\ update'.rest \subseteq Topics
    BY <2>1
  <2>4. CASE runningTasks[t] = None /\ NewTask(t)
    <3> DEFINE k == CHOOSE i \in Tasks : pc[i] = "none"
    <3>1. k \in Tasks /\ pc[k] = "none"
      BY <2>4 DEF NewTask
    <3>2. /\ pc' = [pc EXCEPT ![k] = "ready"]
          /\ arg' = [arg EXCEPT ![k] = [topic |-> t, struct |-> 0]]
          /\ runningTasks' = [runningTasks EXCEPT ![t] = k]
      BY <2>4 DEF NewTask
    <3> HIDE DEF k
    <3>3. Shape'
      BY <2>3, <3>1, <3>2
    <3>4. Phases'
      BY <2>2, <3>1 DEF stopping
    <3>5. Registered'
      BY <2>2, <2>3, <2>4, <3>1, <3>2 DEF stopping
    <3> QED BY <3>3, <3>4, <3>5
  <2>5. CASE UNCHANGED <<callers, runningTasks, ready>>
    BY <2>2, <2>3, <2>5 DEF callers, stopping
  <2> QED BY <2>1, <2>4, <2>5
<1>3. CASE EndUpdate
  BY <1>3 DEF EndUpdate, callers, tasks, stopping
<1>4. CASE UpdateRaises
  BY <1>4 DEF UpdateRaises, callers, tasks, stopping
<1> QED BY <1>1, <1>2, <1>3, <1>4

\* A task that ends, or goes on with another structure, keeps the invariant.
LEMMA Goes ==
  ASSUME Inv, NEW k \in Tasks, NEW label \in Labels, NEW a,
         label = "done" \/ (Live(k) /\ label # "none" /\ a.topic = arg[k].topic),
         a = [topic |-> a.topic, struct |-> a.struct],
         pc' = [pc EXCEPT ![k] = label],
         arg' = [arg EXCEPT ![k] = a],
         UNCHANGED <<runningTasks, shouldRun, main, loop, update>>,
         loop # "off"
  PROVE  Inv'
<1> USE Distinct DEF Inv, Publishing
<1>1. Shape'
  BY DEF Shape
<1>2. Phases'
  BY DEF Phases
<1>3. Registered'
  BY DEF Registered, Live, Shape, Labels, AppLabels
<1> QED BY <1>1, <1>2, <1>3

\* A task that ends leaves its topic: its arguments are forgotten.
LEMMA Ends ==
  ASSUME Inv, NEW k \in Tasks, TaskEnds(k),
         UNCHANGED <<runningTasks, shouldRun, main, loop, update>>,
         loop # "off"
  PROVE  Inv'
<1>1. NoArg = [topic |-> NoArg.topic, struct |-> NoArg.struct] /\ "done" \in Labels
  BY DEF NoArg, Labels, AppLabels
<1>2. pc' = [pc EXCEPT ![k] = "done"] /\ arg' = [arg EXCEPT ![k] = NoArg]
  BY DEF TaskEnds, Go
<1> QED BY <1>1, <1>2, Goes

\* A task that reads a structure keeps its topic.
LEMMA Restructured ==
  ASSUME Inv, NEW k \in Tasks, NEW s, NEW label \in Labels \ {"none"}, Live(k),
         arg' = [arg EXCEPT ![k].struct = s], Go(k, label),
         UNCHANGED <<runningTasks, shouldRun, main, loop, update>>,
         loop # "off"
  PROVE  Inv'
<1> DEFINE a == [topic |-> arg[k].topic, struct |-> s]
<1>1. [arg[k] EXCEPT !.struct = s] = a
  <2>1. arg[k] = [topic |-> arg[k].topic, struct |-> arg[k].struct]
    BY DEF Inv, Shape, Publishing
  <2>2. [[topic |-> arg[k].topic, struct |-> arg[k].struct] EXCEPT !.struct = s] = a
    OBVIOUS
  <2> HIDE DEF a
  <2> QED BY <2>1, <2>2, Zenon
<1>2. arg' = [arg EXCEPT ![k] = a]
  BY <1>1, Zenon
<1>3. a.topic = arg[k].topic /\ a = [topic |-> a.topic, struct |-> a.struct]
  OBVIOUS
<1> HIDE DEF a
<1> QED BY <1>2, <1>3, Goes DEF Go

\* A task that runs keeps its topic until it is over.
LEMMA TaskStep ==
  ASSUME Inv, NEW k \in Tasks,
         \/ BeginTask(k) \/ PeriodOver(k) \/ NotYet(k) \/ TaskPublishes(k)
         \/ Wake(k)
  PROVE  Inv'
<1>1. CASE BeginTask(k)
  <2>1. /\ UNCHANGED <<runningTasks, shouldRun, main, loop, update>>
        /\ loop # "off" /\ Live(k)
    BY <1>1 DEF BeginTask, Idle, tasks, stopping, Live
  <2>2. CASE TaskEnds(k)
    BY <2>1, <2>2, Ends
  <2>3. CASE Go(k, "check") /\ UNCHANGED arg
    BY <2>1, <2>3, Distinct DEF Inv, Shape, Phases, Registered, Live, Labels, AppLabels, Go,
      Publishing
  <2> QED BY <1>1, <2>2, <2>3 DEF BeginTask
<1>2. CASE PeriodOver(k)
  <2>1. /\ UNCHANGED <<runningTasks, shouldRun, main, loop, update>>
        /\ active = k /\ Live(k)
    BY <1>2 DEF PeriodOver, tasks, stopping, scheduler, Live
  <2>2. loop # "off"
    BY <2>1, Distinct DEF Inv, Phases
  <2>3. "take" \in Labels \ {"none"}
    BY DEF Labels, AppLabels
  <2>4. arg' = [arg EXCEPT ![k].struct = pub[held[k]].topic] /\ Go(k, "take")
    BY <1>2 DEF PeriodOver
  <2> QED BY <2>1, <2>2, <2>3, <2>4, Restructured
<1>3. CASE NotYet(k) \/ TaskPublishes(k)
  <2>1. /\ UNCHANGED <<runningTasks, shouldRun, main, loop, update>>
        /\ active = k /\ Live(k)
    BY <1>3 DEF NotYet, TaskPublishes, Take, tasks, stopping, Live
  <2>2. loop # "off"
    BY <2>1, Distinct DEF Inv, Phases
  <2>3. "sleep" \in Labels \ {"none"}
    BY DEF Labels, AppLabels
  <2>4. CASE TaskEnds(k)
    BY <2>1, <2>2, <2>4, Ends
  <2>5. CASE arg' = [arg EXCEPT ![k].struct = 0] /\ Go(k, "sleep")
    BY <2>1, <2>2, <2>3, <2>5, Restructured
  <2> QED BY <1>3, <2>4, <2>5 DEF NotYet, TaskPublishes, TaskSleeps
<1>4. CASE Wake(k)
  BY <1>4, Distinct DEF Wake, tasks, stopping, Inv, Shape, Phases, Registered,
    Live, Labels, AppLabels, Go, Publishing
<1> QED BY <1>1, <1>2, <1>3, <1>4

\* start() finds no task; from the first line of stop() nothing is claimed.
LEMMA StopInv ==
  ASSUME Inv, BeginStop \/ LoopEnds \/ Start \/ Stop \/ StopStep
  PROVE  Inv'
<1> USE Distinct DEF Inv, Shape, Phases, Registered, Publishing, Labels, AppLabels, Live, Go
<1>1. CASE BeginStop
  BY <1>1 DEF BeginStop, Idle, callers, tasks, stopping
<1>2. CASE LoopEnds
  BY <1>2 DEF LoopEnds, callers, tasks, stopping
<1>3. CASE Start
  BY <1>3 DEF Start, callers, tasks
<1>4. CASE Stop
  BY <1>4 DEF Stop, callers, scheduler, tasks
<1>5. CASE CancelTask
  <2>1. PICK t \in todo : 
          LET j == runningTasks[t]
          IN IF pc[j] = "sleep" THEN Go(j, "ready") /\ ready' = Append(ready, j)
                                ELSE UNCHANGED <<pc, ready>>
    BY <1>5 DEF CancelTask
  <2>2. main = "cancel" /\ UNCHANGED <<arg, loop, active, update, runningTasks, shouldRun, main>>
    BY <1>5 DEF CancelTask
  <2>3. pc' \in [Publishing -> Labels] /\ \A j \in Tasks : pc[j] = "none" => pc'[j] = "none"
    BY <2>1
  <2> QED BY <2>2, <2>3
<1>6. CASE ClearTasks
  BY <1>6 DEF ClearTasks, callers, scheduler
<1>7. CASE StopPublisher
  BY <1>7 DEF StopPublisher, callers, scheduler, tasks
<1>8. CASE StopRaises
  BY <1>8 DEF StopRaises, callers, scheduler, tasks
<1>9. CASE StopLoop
  BY <1>9 DEF StopLoop, callers, tasks
<1>10. CASE StopReturns
  BY <1>10 DEF StopReturns, callers, scheduler, tasks
<1> QED
  BY <1>1, <1>2, <1>3, <1>4, <1>5, <1>6, <1>7, <1>8, <1>9, <1>10 DEF StopStep

\* Every step preserves the invariant.
LEMMA NextInv == Inv /\ [Next]_vars => Inv'
<1> SUFFICES ASSUME Inv, [Next]_vars PROVE Inv'
  OBVIOUS
<1>1. CASE UNCHANGED vars
  BY <1>1 DEF vars, callers, scheduler, tasks, stopping, Inv, Shape, Phases,
    Registered, Live
<1>2. CASE Next
  BY <1>2, AppStep, UpdateStep, TaskStep, StopInv DEF Next, Loop
<1> QED BY <1>1, <1>2

\* The invariant of the publishing side: a task that is not over is the one
\* its topic has, from start() to stop().
THEOREM Invariance == Spec => []Inv
BY InitInv, NextInv, PTL DEF Spec

\* However updates, insertions and publications interleave, a topic is
\* published by one task at a time while the node runs.
THEOREM OneTask == Spec => []OneTaskPerTopic
<1>1. Inv => OneTaskPerTopic
  BY DEF Inv, Registered, OneTaskPerTopic
<1> QED BY <1>1, Invariance, PTL

-----------------------------------------------------------------------------
(* Types, and what stop() leaves.                                          *)

\* A publisher that was made keeps a structure of an application, also when it
\* has been stopped.
Used(p) == p \in Pubs /\ pub[p].topic > 0

\* An application with a topic is in publish_once and has a structure for it;
\* once it has passed the insertion, the topic has a publisher in dictionary d.
Fits(label, a, d) ==
  /\ label \in AppLabels
  /\ label \in {"idle", "schedule"} => a.topic = None
  /\ label \in {"once", "take"} => a.topic # None
  /\ a.topic # None => a.struct > 0
  /\ a.topic # None /\ label \in {"collect", "collecting", "take"} => a.topic \in Named(d)

\* Who is on the way to publish() has a publisher in the dictionary, which
\* nothing removes, and a structure for it; so has each topic that an update
\* or stop() still has to look at.
OnTheWay ==
  /\ \A t \in Named(publishers) : Used(publishers[t])
  /\ \A x \in Apps : Fits(pc[x], arg[x], publishers)
  /\ \A k \in Tasks :
       /\ Live(k) => arg[k].topic \in Named(publishers) /\ Used(held[k])
       /\ pc[k] = "take" => arg[k].struct > 0
  /\ update.rest \subseteq Named(publishers)
  /\ main = "cancel" => todo \subseteq Named(runningTasks)
  /\ main = "publishers" => todo \subseteq Named(publishers)

\* The loop that has ended runs nothing, and stop() returns after it has. From
\* the time it has cancelled the tasks, an open publisher of the dictionary is
\* one it has yet to stop, or was inserted since it began.
Sweeping ==
  /\ active # None => loop \in {"running", "stopping"}
  /\ main = "stopped" => loop = "stopped"
  /\ main \in {"publishers", "join", "stopped"} =>
       \/ late
       \/ \A t \in Named(publishers) :
            pub[publishers[t]].open => main = "publishers" /\ t \in todo

Types ==
  /\ publishers \in [Topics -> Pubs \cup {None}]
  /\ pub \in [Pubs -> [rated : BOOLEAN, topic : Nat, open : BOOLEAN]]
  /\ pc \in [Publishing -> Labels]
  /\ arg \in [Publishing -> [topic : Topics \cup {None}, struct : Nat]]
  /\ held \in [Tasks -> Pubs \cup {None}]
  /\ seen \in [Apps -> Nat]
  /\ cancelled \subseteq Tasks
  /\ runningTasks \in [Topics -> Tasks \cup {None}]
  /\ shouldRun \in BOOLEAN
  /\ loop \in {"off", "running", "stopping", "stopped"}
  /\ ready \in Seq(Tasks \cup {"update", "stop"})
  /\ active \in Tasks \cup {"update", None}
  /\ update \in [rest : SUBSET Topics, size : Nat]
  /\ main \in {"new", "started", "cancel", "publishers", "join", "stopped", "raised"}
  /\ todo \subseteq Topics
  /\ size \in Nat
  /\ calls \in Nat /\ given \in [Pubs -> Nat]
  /\ late \in BOOLEAN /\ orphaned \in BOOLEAN

State == Types /\ OnTheWay /\ Sweeping

\* A step only adds to the dictionary, and each publisher in it, and each that
\* has one, has a structure.
Kept ==
  /\ Named(publishers) \subseteq Named(publishers')
  /\ \A p \in Pubs : pub[p].topic > 0 => pub'[p].topic > 0
  /\ \A u \in Named(publishers') :
       publishers'[u] \in Pubs /\ pub'[publishers'[u]].topic > 0

\* Sets of topics have a size.
LEMMA Sizes == \A d : Cardinality(Named(d)) \in Nat
<1>1. IsFiniteSet(Topics)
  BY SetsAssumption
<1> SUFFICES ASSUME NEW d PROVE Cardinality(Named(d)) \in Nat
  OBVIOUS
<1>2. Named(d) \subseteq Topics
  BY DEF Named
<1> QED BY <1>1, <1>2, FS_Subset, FS_CardinalityType

\* None is nothing an application, a topic or a publisher is named by.
LEMMA Nothing ==
  /\ None \notin Topics /\ None \notin Pubs /\ None \notin Tasks /\ None \notin Apps
  /\ None \notin Nat /\ None # "update" /\ None # "stop" /\ "update" \notin Tasks
  /\ "stop" \notin Tasks /\ \A x \in Apps, k \in Tasks : x # k
BY SetsAssumption

\* The types and what is on the way are what TypeOK says.
LEMMA StateTypes == State => TypeOK
<1> SUFFICES ASSUME State PROVE TypeOK
  OBVIOUS
<1>1. \A t \in Named(publishers) : pub[publishers[t]] # NoPub
  BY DEF State, OnTheWay, Used, NoPub
<1>2. \A x \in Publishing : pc[x] = "take" => publishers[arg[x].topic] # None
  <2>1. \A x \in Apps : pc[x] = "take" => publishers[arg[x].topic] # None
    BY DEF State, OnTheWay, Named, Fits
  <2>2. \A k \in Tasks : pc[k] = "take" => publishers[arg[k].topic] # None
    BY DEF State, OnTheWay, Named, Live
  <2> QED BY <2>1, <2>2 DEF Publishing
<1>3. \A k \in Tasks : pc[k] \notin {"none", "done"} => held[k] # None
  BY Nothing DEF State, OnTheWay, Used, Live
<1> QED BY <1>1, <1>2, <1>3 DEF State, Types, TypeOK, Labels, AppLabels

\* What the loop will run, with one more.
LEMMA Queued ==
  ASSUME State, NEW e \in Tasks \cup {"update", "stop"}, ready' = Append(ready, e)
  PROVE  ready' \in Seq(Tasks \cup {"update", "stop"})
<1> DEFINE S == Tasks \cup {"update", "stop"}
<1>1. ready \in Seq(S) /\ e \in S
  BY DEF State, Types
<1> HIDE DEF S
<1>2. Append(ready, e) \in Seq(S)
  BY <1>1
<1> QED BY <1>2 DEF S

\* ... and with one less.
LEMMA Popped ==
  ASSUME State, ready # <<>>, Pop
  PROVE  ready' \in Seq(Tasks \cup {"update", "stop"})
<1> DEFINE S == Tasks \cup {"update", "stop"}
<1>1. ready \in Seq(S)
  BY DEF State, Types
<1> HIDE DEF S
<1>2. Tail(ready) \in Seq(S)
  BY <1>1
<1> QED BY <1>2 DEF S, Pop

\* What a new publisher changes.
LEMMA InsertChanges ==
  ASSUME State, NEW t \in Topics, NEW s \in Nat \ {0}, NEW rated \in BOOLEAN, Insert(t, s, rated)
  PROVE  /\ publishers' \in [Topics -> Pubs \cup {None}]
         /\ pub' \in [Pubs -> [rated : BOOLEAN, topic : Nat, open : BOOLEAN]]
         /\ late' \in BOOLEAN /\ UNCHANGED given
         /\ Kept /\ t \in Named(publishers')
         /\ late' \/ main \in {"new", "started"}
<1> DEFINE p == CHOOSE q \in Unused : TRUE
<1>1. p \in Pubs /\ pub[p] = NoPub
  BY DEF Insert, Unused
<1>2. /\ pub' = [pub EXCEPT ![p] = [rated |-> rated, topic |-> s, open |-> TRUE]]
      /\ publishers' = [publishers EXCEPT ![t] = p]
      /\ late' = (late \/ main \notin {"new", "started"}) /\ UNCHANGED given
  BY DEF Insert
<1> HIDE DEF p
<1>3. /\ publishers' \in [Topics -> Pubs \cup {None}]
      /\ pub' \in [Pubs -> [rated : BOOLEAN, topic : Nat, open : BOOLEAN]]
  BY <1>1, <1>2 DEF State, Types
<1>4. Named(publishers) \subseteq Named(publishers') /\ t \in Named(publishers')
  BY <1>1, <1>2, Nothing DEF State, Types, Named
<1>5. \A q \in Pubs : pub[q].topic > 0 => pub'[q].topic > 0
  BY <1>1, <1>2 DEF State, Types, NoPub
<1>6. \A u \in Named(publishers') :
        publishers'[u] \in Pubs /\ pub'[publishers'[u]].topic > 0
  <2> TAKE u \in Named(publishers')
  <2>1. CASE u = t
    BY <1>1, <1>2, <2>1 DEF State, Types
  <2>2. CASE u # t
    BY <1>2, <1>5, <2>2 DEF State, Types, OnTheWay, Named, Used
  <2> QED BY <2>1, <2>2
<1> QED BY <1>2, <1>3, <1>4, <1>5, <1>6 DEF State, Types, Kept

\* What publish() changes of its publisher.
LEMMA TakeChanges ==
  ASSUME State, NEW x \in Publishing, Take(x)
  PROVE  /\ pub' \in [Pubs -> [rated : BOOLEAN, topic : Nat, open : BOOLEAN]]
         /\ given' \in [Pubs -> Nat]
         /\ \A p \in Pubs : pub[p].topic > 0 => pub'[p].topic > 0
         /\ \A p \in Pubs : pub'[p].open = pub[p].open
<1>1. PICK p : p = publishers[arg[x].topic]
  OBVIOUS
<1>2. PICK s : s = arg[x].struct
  OBVIOUS
<1>3. s \in Nat \ {0}
  <2>1. x \in Apps \/ x \in Tasks
    BY DEF Publishing
  <2>2. arg[x].struct \in Nat
    BY DEF State, Types
  <2>3. pc[x] = "take" /\ arg[x].struct > 0
    BY <2>1 DEF State, OnTheWay, Take, Fits
  <2> QED BY <1>2, <2>2, <2>3
<1>4. /\ pub' = [pub EXCEPT ![p].topic = s]
      /\ given' = [given EXCEPT ![p] = IF x \in Apps THEN s ELSE @]
  BY <1>1, <1>2 DEF Take
<1>5. pub' \in [Pubs -> [rated : BOOLEAN, topic : Nat, open : BOOLEAN]]
  <2>1. \A q \in Pubs :
          [pub[q] EXCEPT !.topic = s] \in [rated : BOOLEAN, topic : Nat, open : BOOLEAN]
    BY <1>3 DEF State, Types
  <2> QED BY <1>4, <2>1 DEF State, Types
<1>6. given' \in [Pubs -> Nat]
  BY <1>3, <1>4 DEF State, Types
<1>7. \A q \in Pubs : /\ pub[q].topic > 0 => pub'[q].topic > 0
                      /\ pub'[q].open = pub[q].open
  BY <1>3, <1>4 DEF State, Types
<1> QED BY <1>5, <1>6, <1>7

\* An application moves on, and publishers are only added.
LEMMA AppMoves ==
  ASSUME State, NEW x \in Apps,
         NEW label, NEW a \in [topic : Topics \cup {None}, struct : Nat],
         Fits(label, a, publishers'),
         pc' = [pc EXCEPT ![x] = label], arg' = [arg EXCEPT ![x] = a],
         UNCHANGED <<held, update, main, todo, runningTasks>>,
         Kept
  PROVE  /\ pc' \in [Publishing -> Labels]
         /\ arg' \in [Publishing -> [topic : Topics \cup {None}, struct : Nat]]
         /\ OnTheWay'
<1>1. /\ pc'[x] = label /\ arg'[x] = a
      /\ \A y \in Publishing : y # x => pc'[y] = pc[y] /\ arg'[y] = arg[y]
  BY DEF State, Types, Publishing
<1>2. pc' \in [Publishing -> Labels]
  BY DEF State, Types, Labels, Fits
<1>3. arg' \in [Publishing -> [topic : Topics \cup {None}, struct : Nat]]
  BY DEF State, Types
<1>4. \A y \in Apps : Fits(pc'[y], arg'[y], publishers')
  BY <1>1 DEF State, OnTheWay, Publishing, Kept, Fits
<1>5. \A k \in Tasks : pc'[k] = pc[k] /\ arg'[k] = arg[k]
  BY <1>1, Nothing DEF Publishing
<1>6. \A k \in Tasks :
       /\ Live(k)' => arg'[k].topic \in Named(publishers') /\ Used(held[k])'
       /\ pc'[k] = "take" => arg'[k].struct > 0
  BY <1>5 DEF State, OnTheWay, Live, Used, Kept
<1> QED BY <1>2, <1>3, <1>4, <1>6 DEF State, OnTheWay, Used, Kept

\* What an application does.
LEMMA AppKeeps ==
  ASSUME State, NEW x \in Apps,
         PublishRate(x) \/ PublishOnce(x) \/ Continue(x)
  PROVE  State'
<1>0. x \in Publishing /\ NoArg \in [topic : Topics \cup {None}, struct : Nat]
  BY DEF Publishing, NoArg
<1>1. CASE PublishRate(x)
  <2>1. PICK t \in Topics : Insert(t, calls + 1, TRUE)
    BY <1>1 DEF PublishRate
  <2>2. /\ pc' = [pc EXCEPT ![x] = "collect"] /\ calls' = calls + 1
        /\ UNCHANGED <<arg, held, seen, scheduler, tasks, stopping, orphaned>>
    BY <1>1 DEF PublishRate, Call, Go
  <2>3. calls + 1 \in Nat \ {0}
    BY DEF State, Types
  <2>4. /\ publishers' \in [Topics -> Pubs \cup {None}]
        /\ pub' \in [Pubs -> [rated : BOOLEAN, topic : Nat, open : BOOLEAN]]
        /\ late' \in BOOLEAN /\ UNCHANGED given
        /\ Kept
        /\ late' \/ main \in {"new", "started"}
    BY <2>1, <2>3, InsertChanges
  <2>5. arg' = [arg EXCEPT ![x] = arg[x]] /\ arg[x] \in [topic : Topics \cup {None}, struct : Nat]
    BY <1>0, <2>2 DEF State, Types
  <2>6. /\ pc' \in [Publishing -> Labels]
        /\ arg' \in [Publishing -> [topic : Topics \cup {None}, struct : Nat]]
        /\ OnTheWay'
    <3>1. Fits("collect", arg[x], publishers')
      <4>1. pc[x] = "idle"
        BY <1>1 DEF PublishRate, Call
      <4> QED BY <4>1 DEF State, OnTheWay, Fits, AppLabels
    <3> QED BY <2>2, <2>4, <2>5, <3>1, AppMoves DEF scheduler, tasks, stopping
  <2>7. Types'
    BY <2>2, <2>3, <2>4, <2>6 DEF State, Types, scheduler, tasks, stopping
  <2>8. Sweeping'
    BY <2>2, <2>4 DEF State, Sweeping, scheduler, stopping
  <2> QED BY <2>6, <2>7, <2>8 DEF State
<1>2. CASE PublishOnce(x)
  <2>1. PICK t \in Topics :
          /\ arg' = [arg EXCEPT ![x] = [topic |-> t, struct |-> calls + 1]]
          /\ Go(x, IF publishers[t] = None THEN "once" ELSE "take")
    BY <1>2 DEF PublishOnce
  <2>2. /\ calls' = calls + 1
        /\ UNCHANGED <<objects, held, seen, scheduler, tasks, stopping, given, late, orphaned>>
    BY <1>2 DEF PublishOnce, Call
  <2>3. calls + 1 \in Nat \ {0}
    BY DEF State, Types
  <2> DEFINE label == IF publishers[t] = None THEN "once" ELSE "take"
             a     == [topic |-> t, struct |-> calls + 1]
  <2>4. /\ a \in [topic : Topics \cup {None}, struct : Nat]
        /\ Fits(label, a, publishers')
    BY <2>2, <2>3, Nothing DEF objects, Named, Fits, AppLabels
  <2>5. pc' = [pc EXCEPT ![x] = label] /\ arg' = [arg EXCEPT ![x] = a]
    BY <2>1 DEF Go
  <2> HIDE DEF label, a
  <2>6. /\ UNCHANGED <<held, update, main, todo, runningTasks, publishers, pub>> /\ Kept
    BY <2>2 DEF objects, scheduler, tasks, stopping, State, OnTheWay, Used, Kept
  <2>7. /\ pc' \in [Publishing -> Labels]
        /\ arg' \in [Publishing -> [topic : Topics \cup {None}, struct : Nat]]
        /\ OnTheWay'
    BY <2>4, <2>5, <2>6, AppMoves
  <2>8. Types'
    BY <2>2, <2>3, <2>7 DEF State, Types, objects, scheduler, tasks, stopping
  <2>9. Sweeping'
    BY <2>2 DEF State, Sweeping, objects, scheduler, stopping
  <2> QED BY <2>7, <2>8, <2>9 DEF State
<1>3. CASE ScheduleUpdate(x)
  <2>1. /\ pc' = [pc EXCEPT ![x] = "idle"]
        /\ ready' = ready \/ ready' = Append(ready, "update")
        /\ UNCHANGED <<objects, arg, held, seen, loop, active, update, tasks, stopping, history>>
    BY <1>3 DEF ScheduleUpdate, Go
  <2>2. arg' = [arg EXCEPT ![x] = arg[x]] /\ arg[x] \in [topic : Topics \cup {None}, struct : Nat]
    BY <1>0, <2>1 DEF State, Types
  <2>3. /\ UNCHANGED <<held, update, main, todo, runningTasks, publishers, pub>> /\ Kept
    BY <2>1 DEF objects, tasks, stopping, State, OnTheWay, Used, Kept
  <2>4. /\ pc' \in [Publishing -> Labels]
        /\ arg' \in [Publishing -> [topic : Topics \cup {None}, struct : Nat]]
        /\ OnTheWay'
    <3>1. Fits("idle", arg[x], publishers')
      <4>1. pc[x] = "schedule"
        BY <1>3 DEF ScheduleUpdate
      <4> QED BY <4>1 DEF State, OnTheWay, Fits, AppLabels
    <3> QED BY <2>1, <2>2, <2>3, <3>1, AppMoves
  <2>5. Types'
    <3>1. ready' \in Seq(Tasks \cup {"update", "stop"})
      <4>1. CASE ready' = ready
        BY <4>1 DEF State, Types
      <4> QED BY <2>1, <4>1, Queued
    <3> QED BY <2>1, <2>4, <3>1 DEF State, Types, objects, tasks, stopping, history
  <2>6. Sweeping'
    BY <2>1 DEF State, Sweeping, objects, stopping, history
  <2> QED BY <2>4, <2>5, <2>6 DEF State
<1>4. CASE InsertOnce(x)
  <2>1. /\ arg[x].topic \in Topics /\ arg[x].struct \in Nat \ {0}
        /\ Insert(arg[x].topic, arg[x].struct, FALSE)
    <3>1. pc[x] = "once" /\ Insert(arg[x].topic, arg[x].struct, FALSE)
      BY <1>4 DEF InsertOnce
    <3>2. arg[x].topic \in Topics /\ arg[x].struct > 0
      BY <1>0, <3>1 DEF State, Types, OnTheWay, Fits
    <3>3. arg[x].struct \in Nat
      BY <1>0 DEF State, Types
    <3>4. arg[x].struct \in Nat \ {0}
      BY <3>2, <3>3
    <3> QED BY <3>1, <3>2, <3>4
  <2>2. /\ pc' = [pc EXCEPT ![x] = "collect"]
        /\ UNCHANGED <<arg, held, seen, scheduler, tasks, stopping, calls, orphaned>>
    BY <1>4 DEF InsertOnce, Go
  <2>3. /\ publishers' \in [Topics -> Pubs \cup {None}]
        /\ pub' \in [Pubs -> [rated : BOOLEAN, topic : Nat, open : BOOLEAN]]
        /\ late' \in BOOLEAN /\ UNCHANGED given
        /\ Kept /\ arg[x].topic \in Named(publishers')
        /\ late' \/ main \in {"new", "started"}
    BY <2>1, InsertChanges
  <2>4. arg' = [arg EXCEPT ![x] = arg[x]] /\ arg[x] \in [topic : Topics \cup {None}, struct : Nat]
    BY <1>0, <2>2 DEF State, Types
  <2>5. /\ pc' \in [Publishing -> Labels]
        /\ arg' \in [Publishing -> [topic : Topics \cup {None}, struct : Nat]]
        /\ OnTheWay'
    <3>1. UNCHANGED <<held, update, main, todo, runningTasks>>
      BY <2>2 DEF scheduler, tasks, stopping
    <3>2. Fits("collect", arg[x], publishers')
      BY <2>1, <2>3 DEF Fits, AppLabels
    <3> QED BY <2>2, <2>3, <2>4, <3>1, <3>2, AppMoves
  <2>6. Types'
    BY <2>2, <2>3, <2>5 DEF State, Types, scheduler, tasks, stopping
  <2>7. Sweeping'
    BY <2>2, <2>3 DEF State, Sweeping, scheduler, stopping
  <2> QED BY <2>5, <2>6, <2>7 DEF State
<1>5. CASE PublisherFails(x)
  <2>1. /\ pc' = [pc EXCEPT ![x] = "idle"] /\ arg' = [arg EXCEPT ![x] = NoArg]
        /\ UNCHANGED <<objects, held, seen, scheduler, tasks, stopping, history>>
    BY <1>5 DEF PublisherFails, Done, Go
  <2>2. /\ UNCHANGED <<held, update, main, todo, runningTasks, publishers, pub>> /\ Kept
    BY <2>1 DEF objects, scheduler, tasks, stopping, State, OnTheWay, Used, Kept
  <2>3. /\ pc' \in [Publishing -> Labels]
        /\ arg' \in [Publishing -> [topic : Topics \cup {None}, struct : Nat]]
        /\ OnTheWay'
    <3>1. Fits("idle", NoArg, publishers')
      BY DEF Fits, AppLabels, NoArg
    <3> QED BY <1>0, <2>1, <2>2, <3>1, AppMoves
  <2>4. Types'
    BY <2>1, <2>3 DEF State, Types, objects, scheduler, tasks, stopping, history
  <2>5. Sweeping'
    BY <2>1 DEF State, Sweeping, objects, scheduler, stopping, history
  <2> QED BY <2>3, <2>4, <2>5 DEF State
<1>6. CASE AppPublishes(x)
  <2>1. /\ Take(x)
        /\ pc' = [pc EXCEPT ![x] = "idle"] /\ arg' = [arg EXCEPT ![x] = NoArg]
        /\ UNCHANGED <<publishers, held, seen, scheduler, tasks, stopping, calls, late, orphaned>>
    BY <1>6 DEF AppPublishes, Done, Go
  <2>2. /\ pub' \in [Pubs -> [rated : BOOLEAN, topic : Nat, open : BOOLEAN]]
        /\ given' \in [Pubs -> Nat]
        /\ \A p \in Pubs : pub[p].topic > 0 => pub'[p].topic > 0
        /\ \A p \in Pubs : pub'[p].open = pub[p].open
    BY <1>0, <2>1, TakeChanges
  <2>3. UNCHANGED <<held, update, main, todo, runningTasks>> /\ Kept
    BY <2>1, <2>2 DEF scheduler, tasks, stopping, State, OnTheWay, Used, Kept
  <2>4. /\ pc' \in [Publishing -> Labels]
        /\ arg' \in [Publishing -> [topic : Topics \cup {None}, struct : Nat]]
        /\ OnTheWay'
    <3>1. Fits("idle", NoArg, publishers')
      BY DEF Fits, AppLabels, NoArg
    <3> QED BY <1>0, <2>1, <2>3, <3>1, AppMoves
  <2>5. Types'
    BY <2>1, <2>2, <2>4 DEF State, Types, scheduler, tasks, stopping
  <2>6. Sweeping'
    <3>1. \A t \in Named(publishers) : publishers[t] \in Pubs
      BY DEF State, OnTheWay, Used
    <3> QED BY <2>1, <2>2, <3>1 DEF State, Sweeping, scheduler, stopping
  <2> QED BY <2>4, <2>5, <2>6 DEF State
<1>7. CASE CollectBegin(x) \/ CollectEnd(x)
  <2> DEFINE label == IF pc[x] = "collect" THEN "collecting"
                      ELSE IF Rates(x) THEN "schedule" ELSE "take"
             n     == IF pc[x] = "collect" THEN Cardinality(Named(publishers)) ELSE 0
  <2>1. /\ pc' = [pc EXCEPT ![x] = label] /\ seen' = [seen EXCEPT ![x] = n]
        /\ pc[x] \in {"collect", "collecting"}
        /\ UNCHANGED <<objects, arg, held, scheduler, tasks, stopping, history>>
    BY <1>7 DEF CollectBegin, CollectEnd, Go
  <2>2. Fits(label, arg[x], publishers') /\ n \in Nat
    BY <2>1, Sizes DEF State, OnTheWay, Fits, AppLabels, Rates, objects
  <2> HIDE DEF label, n
  <2>3. arg' = [arg EXCEPT ![x] = arg[x]] /\ arg[x] \in [topic : Topics \cup {None}, struct : Nat]
    BY <1>0, <2>1 DEF State, Types
  <2>4. UNCHANGED <<held, update, main, todo, runningTasks, publishers, pub>> /\ Kept
    BY <2>1 DEF objects, scheduler, tasks, stopping, State, OnTheWay, Used, Kept
  <2>5. /\ pc' \in [Publishing -> Labels]
        /\ arg' \in [Publishing -> [topic : Topics \cup {None}, struct : Nat]]
        /\ OnTheWay'
    BY <2>1, <2>2, <2>3, <2>4, AppMoves
  <2>6. seen' \in [Apps -> Nat]
    BY <2>1, <2>2 DEF State, Types
  <2>7. Types'
    BY <2>1, <2>5, <2>6 DEF State, Types, objects, scheduler, tasks, stopping, history
  <2>8. Sweeping'
    BY <2>1 DEF State, Sweeping, objects, scheduler, stopping, history
  <2> QED BY <2>5, <2>7, <2>8 DEF State
<1>8. CASE CollectRaises(x)
  <2>1. /\ pc' = [pc EXCEPT ![x] = "idle"] /\ arg' = [arg EXCEPT ![x] = NoArg]
        /\ seen' = [seen EXCEPT ![x] = 0]
        /\ UNCHANGED <<objects, held, scheduler, tasks, stopping, calls, given, late>>
    BY <1>8 DEF CollectRaises, Done, Go
  <2>2. UNCHANGED <<held, update, main, todo, runningTasks, publishers, pub>> /\ Kept
    BY <2>1 DEF objects, scheduler, tasks, stopping, State, OnTheWay, Used, Kept
  <2>3. /\ pc' \in [Publishing -> Labels]
        /\ arg' \in [Publishing -> [topic : Topics \cup {None}, struct : Nat]]
        /\ OnTheWay'
    <3>1. Fits("idle", NoArg, publishers')
      BY DEF Fits, AppLabels, NoArg
    <3> QED BY <1>0, <2>1, <2>2, <3>1, AppMoves
  <2>4. orphaned' \in BOOLEAN
    BY <1>8 DEF CollectRaises, State, Types
  <2>5. seen' \in [Apps -> Nat]
    BY <2>1 DEF State, Types
  <2>6. Types'
    BY <2>1, <2>3, <2>4, <2>5 DEF State, Types, objects, scheduler, tasks, stopping
  <2>7. Sweeping'
    BY <2>1 DEF State, Sweeping, objects, scheduler, stopping
  <2> QED BY <2>3, <2>6, <2>7 DEF State
<1> QED BY <1>1, <1>2, <1>3, <1>4, <1>5, <1>6, <1>7, <1>8 DEF Continue

\* The loop runs a task, which goes on or ends; what it publishes changes no
\* publisher but for its structure.
LEMMA TaskMoves ==
  ASSUME State, NEW k \in Tasks,
         NEW label \in {"ready", "check", "take", "sleep", "done"},
         NEW a \in [topic : Topics \cup {None}, struct : Nat],
         NEW h \in Pubs \cup {None},
         label # "done" => a.topic \in Named(publishers) /\ Used(h),
         label = "take" => a.struct > 0,
         pc' = [pc EXCEPT ![k] = label], arg' = [arg EXCEPT ![k] = a],
         held' = [held EXCEPT ![k] = h],
         UNCHANGED <<publishers, update, main, todo, runningTasks>>,
         \A p \in Pubs : pub[p].topic > 0 => pub'[p].topic > 0
  PROVE  /\ pc' \in [Publishing -> Labels]
         /\ arg' \in [Publishing -> [topic : Topics \cup {None}, struct : Nat]]
         /\ held' \in [Tasks -> Pubs \cup {None}]
         /\ OnTheWay'
<1>0. k \in Publishing
  BY DEF Publishing
<1>1. /\ pc'[k] = label /\ arg'[k] = a /\ held'[k] = h
      /\ \A y \in Publishing : y # k => pc'[y] = pc[y] /\ arg'[y] = arg[y]
      /\ \A j \in Tasks : j # k => held'[j] = held[j]
  BY <1>0 DEF State, Types
<1>2. pc' \in [Publishing -> Labels]
  BY DEF State, Types, Labels, AppLabels
<1>3. arg' \in [Publishing -> [topic : Topics \cup {None}, struct : Nat]]
  BY DEF State, Types
<1>4. held' \in [Tasks -> Pubs \cup {None}]
  BY DEF State, Types
<1>5. \A x \in Apps : pc'[x] = pc[x] /\ arg'[x] = arg[x]
  BY <1>1, Nothing DEF Publishing
<1>6. \A x \in Apps : Fits(pc'[x], arg'[x], publishers')
  BY <1>5 DEF State, OnTheWay
<1>7. \A j \in Tasks :
       /\ Live(j)' => arg'[j].topic \in Named(publishers) /\ Used(held[j])'
       /\ pc'[j] = "take" => arg'[j].struct > 0
  <2> SUFFICES ASSUME NEW j \in Tasks
               PROVE  /\ Live(j)' => arg'[j].topic \in Named(publishers) /\ Used(held[j])'
                      /\ pc'[j] = "take" => arg'[j].struct > 0
    OBVIOUS
  <2>1. CASE j = k
    BY <1>1, <2>1 DEF Live, Used
  <2>2. CASE j # k
    <3>1. pc'[j] = pc[j] /\ arg'[j] = arg[j] /\ held'[j] = held[j]
      BY <1>1, <2>2 DEF Publishing
    <3> QED BY <3>1 DEF State, OnTheWay, Live, Used
  <2> QED BY <2>1, <2>2
<1>8. \A t \in Named(publishers) : Used(publishers[t])'
  BY DEF State, OnTheWay, Used
<1> QED BY <1>2, <1>3, <1>4, <1>6, <1>7, <1>8 DEF State, OnTheWay

\* What a live task has.
LEMMA LiveHas ==
  ASSUME State, NEW k \in Tasks, Live(k)
  PROVE  /\ arg[k] \in [topic : Topics \cup {None}, struct : Nat]
         /\ arg[k].topic \in Named(publishers)
         /\ held[k] \in Pubs /\ pub[held[k]].topic > 0
         /\ pub[held[k]].topic \in Nat /\ held = [held EXCEPT ![k] = held[k]]
         /\ arg = [arg EXCEPT ![k] = arg[k]]
<1>1. k \in Publishing
  BY DEF Publishing
<1>2. held[k] \in Pubs /\ pub[held[k]].topic > 0 /\ arg[k].topic \in Named(publishers)
  BY DEF State, OnTheWay, Used
<1>3. /\ arg[k] \in [topic : Topics \cup {None}, struct : Nat]
      /\ pub[held[k]].topic \in Nat
  BY <1>1, <1>2 DEF State, Types
<1>4. held = [held EXCEPT ![k] = held[k]] /\ arg = [arg EXCEPT ![k] = arg[k]]
  BY <1>1 DEF State, Types
<1> QED BY <1>2, <1>3, <1>4

\* Nothing of what stop() and the applications go by changes.
Elsewhere ==
  UNCHANGED <<publishers, update, tasks, stopping, calls, late, orphaned>>

\* A task ends, or is left at its await.
LEMMA Leaves ==
  ASSUME State, NEW k \in Tasks, Live(k), TaskEnds(k) \/ TaskSleeps(k), Elsewhere,
         \A p \in Pubs : pub[p].topic > 0 => pub'[p].topic > 0
  PROVE  /\ pc' \in [Publishing -> Labels]
         /\ arg' \in [Publishing -> [topic : Topics \cup {None}, struct : Nat]]
         /\ held' \in [Tasks -> Pubs \cup {None}]
         /\ OnTheWay'
<1>0. UNCHANGED <<publishers, update, main, todo, runningTasks>>
  BY DEF Elsewhere, tasks, stopping
<1>1. CASE TaskEnds(k)
  <2>1. NoArg \in [topic : Topics \cup {None}, struct : Nat]
    BY DEF NoArg
  <2>2. /\ pc' = [pc EXCEPT ![k] = "done"] /\ arg' = [arg EXCEPT ![k] = NoArg]
        /\ held' = [held EXCEPT ![k] = None]
    BY <1>1 DEF TaskEnds, Go
  <2> QED BY <1>0, <2>1, <2>2, TaskMoves
<1>2. CASE /\ Go(k, "sleep") /\ arg' = [arg EXCEPT ![k].struct = 0] /\ UNCHANGED held
  <2> DEFINE a == [arg[k] EXCEPT !.struct = 0]
  <2>1. a \in [topic : Topics \cup {None}, struct : Nat] /\ a.topic = arg[k].topic
    BY LiveHas
  <2>2. arg' = [arg EXCEPT ![k] = a]
    BY <1>2
  <2>3. held' = [held EXCEPT ![k] = held[k]] /\ pc' = [pc EXCEPT ![k] = "sleep"]
    BY <1>2, LiveHas DEF Go
  <2> HIDE DEF a
  <2>4. a.topic \in Named(publishers) /\ Used(held[k]) /\ held[k] \in Pubs
    BY <2>1, LiveHas DEF Used
  <2> QED BY <1>0, <2>1, <2>2, <2>3, <2>4, TaskMoves
<1> QED BY <1>1, <1>2 DEF TaskSleeps

\* What a task does.
LEMMA TaskKeeps ==
  ASSUME State, NEW k \in Tasks,
         BeginTask(k) \/ PeriodOver(k) \/ NotYet(k) \/ TaskPublishes(k) \/ Wake(k)
  PROVE  State'
<1>0. k \in Publishing
  BY DEF Publishing
<1>1. CASE BeginTask(k)
  <2>1. /\ loop \in {"running", "stopping"} /\ ready # <<>> /\ Pop /\ Live(k)
        /\ UNCHANGED <<objects, seen, loop, update, tasks, stopping, history>>
    BY <1>1 DEF BeginTask, Idle, Live
  <2>2. Elsewhere /\ \A p \in Pubs : pub[p].topic > 0 => pub'[p].topic > 0
    BY <2>1 DEF Elsewhere, objects, history
  <2>3. /\ pc' \in [Publishing -> Labels]
        /\ arg' \in [Publishing -> [topic : Topics \cup {None}, struct : Nat]]
        /\ held' \in [Tasks -> Pubs \cup {None}]
        /\ OnTheWay'
    <3>1. CASE TaskEnds(k)
      BY <2>1, <2>2, <3>1, Leaves
    <3>2. CASE Go(k, "check") /\ UNCHANGED <<arg, held>>
      <4>1. /\ pc' = [pc EXCEPT ![k] = "check"] /\ arg' = [arg EXCEPT ![k] = arg[k]]
            /\ held' = [held EXCEPT ![k] = held[k]] /\ Used(held[k])
            /\ UNCHANGED <<publishers, update, main, todo, runningTasks>>
        BY <2>1, <2>2, <3>2, LiveHas DEF Go, Used, Elsewhere, tasks, stopping
      <4> QED BY <2>1, <2>2, <4>1, LiveHas, TaskMoves
    <3> QED BY <1>1, <3>1, <3>2 DEF BeginTask
  <2>4. ready' \in Seq(Tasks \cup {"update", "stop"})
    BY <2>1, Popped
  <2>5. active' = active \/ active' = k
    BY <1>1 DEF BeginTask
  <2>6. Types'
    BY <2>1, <2>3, <2>4, <2>5 DEF State, Types, objects, tasks, stopping, history
  <2>7. Sweeping'
    BY <2>1, <2>5 DEF State, Sweeping, objects, stopping, history
  <2> QED BY <2>3, <2>6, <2>7 DEF State
<1>2. CASE PeriodOver(k)
  <2>1. /\ Live(k) /\ pc' = [pc EXCEPT ![k] = "take"]
        /\ arg' = [arg EXCEPT ![k].struct = pub[held[k]].topic]
        /\ UNCHANGED <<objects, held, seen, scheduler, tasks, stopping, history>>
    BY <1>2 DEF PeriodOver, Go, Live
  <2>2. /\ pc' \in [Publishing -> Labels]
        /\ arg' \in [Publishing -> [topic : Topics \cup {None}, struct : Nat]]
        /\ held' \in [Tasks -> Pubs \cup {None}]
        /\ OnTheWay'
    <3> DEFINE s == pub[held[k]].topic
               a == [arg[k] EXCEPT !.struct = s]
    <3>1. s \in Nat /\ s > 0
      BY <2>1, LiveHas
    <3>2. arg' = [arg EXCEPT ![k] = a]
      BY <2>1
    <3> HIDE DEF s
    <3>3. /\ a \in [topic : Topics \cup {None}, struct : Nat] /\ a.topic = arg[k].topic
          /\ a.struct = s
      BY <2>1, <3>1, LiveHas
    <3> HIDE DEF a
    <3>4. /\ a.topic \in Named(publishers) /\ Used(held[k]) /\ held[k] \in Pubs
          /\ held' = [held EXCEPT ![k] = held[k]]
      BY <2>1, <3>3, LiveHas DEF Used
    <3>5. /\ UNCHANGED <<publishers, update, main, todo, runningTasks>>
          /\ \A p \in Pubs : pub[p].topic > 0 => pub'[p].topic > 0
      BY <2>1 DEF objects, scheduler, tasks, stopping
    <3>6. pc' = [pc EXCEPT ![k] = "take"] /\ a.struct > 0
      BY <2>1, <3>1, <3>3
    <3> QED BY <3>2, <3>3, <3>4, <3>5, <3>6, TaskMoves
  <2>3. Types'
    BY <2>1, <2>2 DEF State, Types, objects, scheduler, tasks, stopping, history
  <2>4. Sweeping'
    BY <2>1 DEF State, Sweeping, objects, scheduler, stopping, history
  <2> QED BY <2>2, <2>3, <2>4 DEF State
<1>3. CASE NotYet(k)
  <2>1. /\ Live(k) /\ TaskSleeps(k)
        /\ UNCHANGED <<objects, seen, loop, ready, update, tasks, stopping, history>>
    BY <1>3 DEF NotYet, Live
  <2>2. Elsewhere /\ \A p \in Pubs : pub[p].topic > 0 => pub'[p].topic > 0
    BY <2>1 DEF Elsewhere, objects, history
  <2>3. /\ pc' \in [Publishing -> Labels]
        /\ arg' \in [Publishing -> [topic : Topics \cup {None}, struct : Nat]]
        /\ held' \in [Tasks -> Pubs \cup {None}]
        /\ OnTheWay'
    BY <2>1, <2>2, Leaves
  <2>4. active' = None
    BY <2>1 DEF TaskSleeps
  <2>5. Types'
    BY <2>1, <2>3, <2>4 DEF State, Types, objects, tasks, stopping, history
  <2>6. Sweeping'
    BY <2>1, <2>4 DEF State, Sweeping, objects, stopping, history
  <2> QED BY <2>3, <2>5, <2>6 DEF State
<1>4. CASE TaskPublishes(k)
  <2>1. /\ Live(k) /\ Take(k) /\ (TaskSleeps(k) \/ (TaskEnds(k) /\ active' = None))
        /\ UNCHANGED <<publishers, seen, loop, ready, update, tasks, stopping, calls, late, orphaned>>
    BY <1>4 DEF TaskPublishes, Live, Take
  <2>2. /\ pub' \in [Pubs -> [rated : BOOLEAN, topic : Nat, open : BOOLEAN]]
        /\ given' \in [Pubs -> Nat]
        /\ \A p \in Pubs : pub[p].topic > 0 => pub'[p].topic > 0
        /\ \A p \in Pubs : pub'[p].open = pub[p].open
    BY <1>0, <2>1, TakeChanges
  <2>3. Elsewhere
    BY <2>1 DEF Elsewhere
  <2>4. /\ pc' \in [Publishing -> Labels]
        /\ arg' \in [Publishing -> [topic : Topics \cup {None}, struct : Nat]]
        /\ held' \in [Tasks -> Pubs \cup {None}]
        /\ OnTheWay'
    BY <2>1, <2>2, <2>3, Leaves
  <2>5. active' = None
    BY <2>1 DEF TaskSleeps
  <2>6. Types'
    BY <2>1, <2>2, <2>4, <2>5 DEF State, Types, tasks, stopping
  <2>7. Sweeping'
    <3>1. \A t \in Named(publishers) : publishers[t] \in Pubs
      BY DEF State, OnTheWay, Used
    <3> QED BY <2>1, <2>2, <2>5, <3>1 DEF State, Sweeping, stopping
  <2> QED BY <2>4, <2>6, <2>7 DEF State
<1>5. CASE Wake(k)
  <2>1. /\ Live(k) /\ pc' = [pc EXCEPT ![k] = "ready"] /\ ready' = Append(ready, k)
        /\ UNCHANGED <<objects, arg, held, seen, loop, active, update, tasks, stopping, history>>
    BY <1>5 DEF Wake, Go, Live
  <2>2. /\ arg' = [arg EXCEPT ![k] = arg[k]]
        /\ held' = [held EXCEPT ![k] = held[k]] /\ Used(held[k])
        /\ UNCHANGED <<publishers, update, main, todo, runningTasks>>
        /\ \A p \in Pubs : pub[p].topic > 0 => pub'[p].topic > 0
    BY <2>1, LiveHas DEF Used, objects, tasks, stopping
  <2>3. /\ pc' \in [Publishing -> Labels]
        /\ arg' \in [Publishing -> [topic : Topics \cup {None}, struct : Nat]]
        /\ held' \in [Tasks -> Pubs \cup {None}]
        /\ OnTheWay'
    <3>1. /\ pc' = [pc EXCEPT ![k] = "ready"]
          /\ arg[k] \in [topic : Topics \cup {None}, struct : Nat]
          /\ arg[k].topic \in Named(publishers) /\ held[k] \in Pubs \cup {None}
      BY <2>1, LiveHas
    <3> QED BY <2>2, <3>1, TaskMoves
  <2>4. ready' \in Seq(Tasks \cup {"update", "stop"})
    BY <2>1, Queued
  <2>5. Types'
    BY <2>1, <2>3, <2>4 DEF State, Types, objects, tasks, stopping, history
  <2>6. Sweeping'
    BY <2>1 DEF State, Sweeping, objects, stopping, history
  <2> QED BY <2>3, <2>5, <2>6 DEF State
<1> QED BY <1>1, <1>2, <1>3, <1>4, <1>5

\* What an update does: it only looks at topics that have a publisher.
LEMMA UpdateKeeps ==
  ASSUME State, BeginUpdate \/ UpdateTopic \/ EndUpdate \/ UpdateRaises
  PROVE  State'
<1>1. CASE BeginUpdate
  <2>1. /\ loop \in {"running", "stopping"} /\ ready # <<>> /\ Pop /\ active' = "update"
        /\ update' = [rest |-> Named(publishers), size |-> Cardinality(Named(publishers))]
        /\ UNCHANGED <<objects, callers, loop, tasks, stopping, history>>
    BY <1>1 DEF BeginUpdate, Idle
  <2>2. ready' \in Seq(Tasks \cup {"update", "stop"})
    BY <2>1, Popped
  <2>3. /\ update'.rest = Named(publishers)
        /\ update' \in [rest : SUBSET Topics, size : Nat]
    <3>1. Named(publishers) \subseteq Topics
      BY DEF Named
    <3> QED BY <2>1, <3>1, Sizes
  <2>4. Types'
    BY <2>1, <2>2, <2>3 DEF State, Types, objects, callers, tasks, stopping, history
  <2>5. OnTheWay'
    BY <2>1, <2>3 DEF State, OnTheWay, Used, Live, objects, callers, tasks, stopping
  <2>6. Sweeping'
    BY <2>1 DEF State, Sweeping, objects, stopping, history
  <2> QED BY <2>4, <2>5, <2>6 DEF State
<1>2. CASE UpdateTopic
  <2>1. PICK t \in update.rest :
          /\ update' = [update EXCEPT !.rest = @ \ {t}]
          /\ IF runningTasks[t] = None /\ pub[publishers[t]].rated
               THEN NewTask(t)
               ELSE UNCHANGED <<callers, runningTasks, ready>>
    BY <1>2 DEF UpdateTopic
  <2>2. UNCHANGED <<objects, loop, active, cancelled, stopping, history>>
    BY <1>2 DEF UpdateTopic
  <2>3. t \in Topics /\ t \in Named(publishers)
    BY DEF State, OnTheWay, Named
  <2>4. update' \in [rest : SUBSET Topics, size : Nat] /\ update'.rest \subseteq update.rest
    BY <2>1 DEF State, Types
  <2>5. Sweeping'
    BY <2>2 DEF State, Sweeping, objects, stopping, history
  <2>6. CASE NewTask(t)
    <3> DEFINE k == CHOOSE i \in Tasks : pc[i] = "none"
               a == [topic |-> t, struct |-> 0]
    <3>1. k \in Tasks /\ pc[k] = "none"
      BY <2>6 DEF NewTask
    <3>2. /\ pc' = [pc EXCEPT ![k] = "ready"] /\ arg' = [arg EXCEPT ![k] = a]
          /\ held' = [held EXCEPT ![k] = publishers[t]]
          /\ runningTasks' = [runningTasks EXCEPT ![t] = k]
          /\ ready' = Append(ready, k)
      BY <2>6 DEF NewTask, Go
    <3>3. a \in [topic : Topics \cup {None}, struct : Nat] /\ a.topic = t
      BY <2>3
    <3> HIDE DEF k, a
    <3>4. ready' \in Seq(Tasks \cup {"update", "stop"})
      BY <3>1, <3>2, Queued
    <3>5. k \in Publishing /\ Used(publishers[t]) /\ publishers[t] \in Pubs
      BY <2>3, <3>1 DEF Publishing, State, OnTheWay, Used
    <3>6. /\ pc' \in [Publishing -> Labels]
          /\ arg' \in [Publishing -> [topic : Topics \cup {None}, struct : Nat]]
          /\ held' \in [Tasks -> Pubs \cup {None}]
          /\ runningTasks' \in [Topics -> Tasks \cup {None}]
      BY <3>1, <3>2, <3>3, <3>5 DEF State, Types, Labels, AppLabels
    <3>7. Types'
      BY <2>2, <2>4, <2>6, <3>4, <3>6 DEF State, Types, NewTask, objects, stopping, history
    <3>8. /\ pc'[k] = "ready" /\ arg'[k] = a /\ held'[k] = publishers[t]
          /\ \A y \in Publishing : y # k => pc'[y] = pc[y] /\ arg'[y] = arg[y]
          /\ \A j \in Tasks : j # k => held'[j] = held[j]
      BY <3>1, <3>2, <3>5 DEF State, Types
    <3>9. \A j \in Tasks :
            /\ Live(j)' => arg'[j].topic \in Named(publishers) /\ Used(held[j])'
            /\ pc'[j] = "take" => arg'[j].struct > 0
      <4> SUFFICES ASSUME NEW j \in Tasks
                   PROVE  /\ Live(j)' => arg'[j].topic \in Named(publishers) /\ Used(held[j])'
                          /\ pc'[j] = "take" => arg'[j].struct > 0
        OBVIOUS
      <4>1. CASE j = k
        BY <2>2, <2>3, <3>3, <3>5, <3>8, <4>1 DEF Used, objects
      <4>2. CASE j # k
        <5>1. pc'[j] = pc[j] /\ arg'[j] = arg[j] /\ held'[j] = held[j]
          BY <3>8, <4>2 DEF Publishing
        <5> QED BY <2>2, <5>1 DEF State, OnTheWay, Live, Used, objects
      <4> QED BY <4>1, <4>2
    <3>10. \A x \in Apps : pc'[x] = pc[x] /\ arg'[x] = arg[x]
      BY <3>1, <3>8, Nothing DEF Publishing
    <3>11. \A x \in Apps : Fits(pc'[x], arg'[x], publishers')
      BY <2>2, <3>10 DEF State, OnTheWay, objects
    <3>12. Named(runningTasks) \subseteq Named(runningTasks')
      BY <2>3, <3>1, <3>2, Nothing DEF Named, State, Types
    <3>13. OnTheWay'
      BY <2>2, <2>4, <3>9, <3>11, <3>12 DEF State, OnTheWay, Used, objects, stopping
    <3> QED BY <2>5, <3>7, <3>13 DEF State
  <2>7. CASE UNCHANGED <<callers, runningTasks, ready>>
    <3>1. Types'
      BY <2>2, <2>4, <2>7 DEF State, Types, objects, callers, stopping, history
    <3>2. OnTheWay'
      BY <2>2, <2>4, <2>7 DEF State, OnTheWay, Used, Live, objects, callers, stopping
    <3> QED BY <2>5, <3>1, <3>2 DEF State
  <2> QED BY <2>1, <2>6, <2>7
<1>3. CASE EndUpdate \/ UpdateRaises
  <2>1. /\ active' = None /\ orphaned' \in BOOLEAN
        /\ UNCHANGED <<objects, callers, loop, ready, update, tasks, stopping, calls, given, late>>
    BY <1>3 DEF EndUpdate, UpdateRaises, history, State, Types
  <2>2. Types'
    BY <2>1 DEF State, Types, objects, callers, tasks, stopping
  <2>3. OnTheWay'
    BY <2>1 DEF State, OnTheWay, Used, Live, objects, callers, tasks, stopping
  <2>4. Sweeping'
    BY <2>1 DEF State, Sweeping, objects, stopping
  <2> QED BY <2>2, <2>3, <2>4 DEF State
<1> QED BY <1>1, <1>2, <1>3

\* start(), the loop's last steps, and stop(): it goes through the tasks, then
\* through the publishers, one by one.
LEMMA StopKeeps ==
  ASSUME State, BeginStop \/ LoopEnds \/ Start \/ Stop \/ StopStep
  PROVE  State'
<1>1. CASE BeginStop
  <2>1. /\ loop \in {"running", "stopping"} /\ ready # <<>> /\ Pop /\ loop' = "stopping"
        /\ active = None
        /\ UNCHANGED <<objects, callers, active, update, tasks, stopping, history>>
    BY <1>1 DEF BeginStop, Idle
  <2>2. ready' \in Seq(Tasks \cup {"update", "stop"})
    BY <2>1, Popped
  <2>3. Types'
    BY <2>1, <2>2 DEF State, Types, objects, callers, tasks, stopping, history
  <2>4. OnTheWay'
    BY <2>1 DEF State, OnTheWay, Used, Live, objects, callers, tasks, stopping
  <2>5. Sweeping'
    BY <2>1 DEF State, Sweeping, objects, stopping, history
  <2> QED BY <2>3, <2>4, <2>5 DEF State
<1>2. CASE LoopEnds
  <2>1. /\ active = None /\ loop' = "stopped"
        /\ UNCHANGED <<objects, callers, ready, active, update, tasks, stopping, history>>
    BY <1>2 DEF LoopEnds
  <2>2. Types'
    BY <2>1 DEF State, Types, objects, callers, tasks, stopping, history
  <2>3. OnTheWay'
    BY <2>1 DEF State, OnTheWay, Used, Live, objects, callers, tasks, stopping
  <2>4. Sweeping'
    BY <2>1 DEF State, Sweeping, objects, stopping, history
  <2> QED BY <2>2, <2>3, <2>4 DEF State
<1>3. CASE Start
  <2>1. /\ main' = "started" /\ shouldRun' = TRUE /\ loop' = "running" /\ ready' = <<"update">>
        /\ UNCHANGED <<objects, callers, active, update, tasks, todo, size, history>>
    BY <1>3 DEF Start
  <2>2. Types'
    BY <2>1 DEF State, Types, objects, callers, tasks, history
  <2>3. OnTheWay'
    BY <2>1 DEF State, OnTheWay, Used, Live, objects, callers, tasks
  <2>4. Sweeping'
    BY <2>1 DEF State, Sweeping
  <2> QED BY <2>2, <2>3, <2>4 DEF State
<1>4. CASE Stop
  <2>1. /\ main' = "cancel" /\ shouldRun' = FALSE /\ todo' = Named(runningTasks)
        /\ size' = Cardinality(Named(runningTasks))
        /\ UNCHANGED <<objects, callers, scheduler, tasks, history>>
    BY <1>4 DEF Stop
  <2>2. todo' \subseteq Topics /\ size' \in Nat
    BY <2>1, Sizes DEF Named
  <2>3. Types'
    BY <2>1, <2>2 DEF State, Types, objects, callers, scheduler, tasks, history
  <2>4. OnTheWay'
    BY <2>1 DEF State, OnTheWay, Used, Live, objects, callers, scheduler, tasks
  <2>5. Sweeping'
    BY <2>1 DEF State, Sweeping, scheduler
  <2> QED BY <2>3, <2>4, <2>5 DEF State
<1>5. CASE CancelTask
  <2>1. PICK t \in todo :
          LET k == runningTasks[t]
          IN /\ todo' = todo \ {t}
             /\ cancelled' = cancelled \cup {k}
             /\ IF pc[k] = "sleep" THEN Go(k, "ready") /\ ready' = Append(ready, k)
                                   ELSE UNCHANGED <<pc, ready>>
    BY <1>5 DEF CancelTask
  <2>2. /\ main = "cancel"
        /\ UNCHANGED <<objects, arg, held, seen, loop, active, update, runningTasks,
                       shouldRun, main, size, history>>
    BY <1>5 DEF CancelTask
  <2>3. PICK k : k = runningTasks[t]
    OBVIOUS
  <2>4. k \in Tasks
    <3>1. t \in Named(runningTasks)
      BY <2>2 DEF State, OnTheWay
    <3> QED BY <2>3, <3>1 DEF Named, State, Types
  <2>5. /\ todo' = todo \ {t} /\ cancelled' = cancelled \cup {k}
        /\ \/ pc[k] = "sleep" /\ pc' = [pc EXCEPT ![k] = "ready"] /\ ready' = Append(ready, k)
           \/ UNCHANGED <<pc, ready>>
    BY <2>1, <2>3 DEF Go
  <2>6. ready' \in Seq(Tasks \cup {"update", "stop"})
    <3>1. CASE UNCHANGED ready
      BY <3>1 DEF State, Types
    <3> QED BY <2>4, <2>5, <3>1, Queued
  <2>7. pc' \in [Publishing -> Labels]
    BY <2>5 DEF State, Types, Labels, AppLabels
  <2>8. /\ \A x \in Apps : pc'[x] = pc[x]
        /\ \A j \in Tasks : pc'[j] = pc[j] \/ (pc[j] = "sleep" /\ pc'[j] = "ready")
    BY <2>4, <2>5, Nothing DEF State, Types, Publishing
  <2>9. Types'
    BY <2>2, <2>4, <2>5, <2>6, <2>7 DEF State, Types, objects, history
  <2>10. OnTheWay'
    <3>1. \A j \in Tasks : (Live(j)' => Live(j)) /\ (pc'[j] = "take" => pc[j] = "take")
      BY <2>8 DEF Live
    <3>2. UNCHANGED <<publishers, pub, arg, held, update, main, runningTasks>> /\ todo' \subseteq todo
      BY <2>2, <2>5 DEF objects
    <3>3. \A p : Used(p)' = Used(p)
      BY <3>2 DEF Used
    <3>4. \A x \in Apps : Fits(pc'[x], arg'[x], publishers')
      BY <2>8, <3>2 DEF State, OnTheWay
    <3>5. \A j \in Tasks :
            /\ Live(j)' => arg[j].topic \in Named(publishers) /\ Used(held[j])'
            /\ pc'[j] = "take" => arg[j].struct > 0
      BY <3>1, <3>2 DEF State, OnTheWay, Used
    <3> QED BY <3>2, <3>4, <3>5 DEF State, OnTheWay, Used
  <2>11. Sweeping'
    BY <2>2 DEF State, Sweeping
  <2> QED BY <2>9, <2>10, <2>11 DEF State
<1>6. CASE ClearTasks
  <2>1. /\ runningTasks' = [t \in Topics |-> None] /\ main' = "publishers"
        /\ todo' = Named(publishers) /\ size' = Cardinality(Named(publishers))
        /\ UNCHANGED <<objects, callers, scheduler, cancelled, shouldRun, history>>
    BY <1>6 DEF ClearTasks
  <2>2. todo' \subseteq Topics /\ size' \in Nat
    BY <2>1, Sizes DEF Named
  <2>3. Types'
    BY <2>1, <2>2 DEF State, Types, objects, callers, scheduler, history
  <2>4. OnTheWay'
    BY <2>1 DEF State, OnTheWay, Used, Live, objects, callers, scheduler
  <2>5. Sweeping'
    BY <2>1 DEF State, Sweeping, objects, scheduler
  <2> QED BY <2>3, <2>4, <2>5 DEF State
<1>7. CASE StopPublisher
  <2>1. PICK t \in todo :
          todo' = todo \ {t} /\ pub' = [pub EXCEPT ![publishers[t]].open = FALSE]
    BY <1>7 DEF StopPublisher
  <2>2. /\ main = "publishers"
        /\ UNCHANGED <<publishers, callers, scheduler, tasks, shouldRun, main, size, history>>
    BY <1>7 DEF StopPublisher
  <2>3. PICK q \in Pubs : q = publishers[t]
    BY <2>2 DEF State, OnTheWay, Used
  <2>4. pub' = [pub EXCEPT ![q].open = FALSE]
    BY <2>1, <2>3
  <2>5. /\ pub' \in [Pubs -> [rated : BOOLEAN, topic : Nat, open : BOOLEAN]]
        /\ \A p \in Pubs : pub'[p].topic = pub[p].topic
        /\ pub'[q].open = FALSE
        /\ \A p \in Pubs : p # q => pub'[p].open = pub[p].open
    BY <2>4 DEF State, Types
  <2>6. Types'
    BY <2>1, <2>2, <2>5 DEF State, Types, callers, scheduler, tasks, history
  <2>7. OnTheWay'
    <3>1. \A p : Used(p)' = Used(p)
      BY <2>5 DEF Used
    <3>2. UNCHANGED <<publishers, pc, arg, held, update, main, runningTasks>> /\ todo' \subseteq todo
      BY <2>1, <2>2 DEF callers, scheduler, tasks
    <3> QED BY <2>5, <3>2 DEF State, OnTheWay, Used, Live
  <2>8. Sweeping'
    <3>1. \A u \in Named(publishers) : publishers[u] \in Pubs
      BY DEF State, OnTheWay, Used
    <3>2. UNCHANGED <<publishers, loop, active, main, late>>
      BY <2>2 DEF scheduler, history
    <3>3. \A u \in Named(publishers) :
            pub'[publishers[u]].open => pub[publishers[u]].open /\ u # t
      BY <2>3, <2>5, <3>1
    <3> QED BY <2>1, <2>2, <3>2, <3>3 DEF State, Sweeping
  <2> QED BY <2>6, <2>7, <2>8 DEF State
<1>8. CASE StopRaises
  <2>1. /\ main' = "raised"
        /\ UNCHANGED <<objects, callers, scheduler, tasks, shouldRun, todo, size, history>>
    BY <1>8 DEF StopRaises
  <2>2. Types'
    BY <2>1 DEF State, Types, objects, callers, scheduler, tasks, history
  <2>3. OnTheWay'
    BY <2>1 DEF State, OnTheWay, Used, Live, objects, callers, scheduler, tasks
  <2>4. Sweeping'
    BY <2>1 DEF State, Sweeping, scheduler
  <2> QED BY <2>2, <2>3, <2>4 DEF State
<1>9. CASE StopLoop
  <2>1. /\ main = "publishers" /\ todo = {} /\ main' = "join" /\ ready' = Append(ready, "stop")
        /\ UNCHANGED <<objects, callers, loop, active, update, tasks, shouldRun, todo, size, history>>
    BY <1>9 DEF StopLoop
  <2>2. ready' \in Seq(Tasks \cup {"update", "stop"})
    BY <2>1, Queued
  <2>3. Types'
    BY <2>1, <2>2 DEF State, Types, objects, callers, tasks, history
  <2>4. OnTheWay'
    BY <2>1 DEF State, OnTheWay, Used, Live, objects, callers, tasks
  <2>5. Sweeping'
    BY <2>1 DEF State, Sweeping, objects, history
  <2> QED BY <2>3, <2>4, <2>5 DEF State
<1>10. CASE StopReturns
  <2>1. /\ main = "join" /\ loop = "stopped" /\ main' = "stopped"
        /\ UNCHANGED <<objects, callers, scheduler, tasks, shouldRun, todo, size, history>>
    BY <1>10 DEF StopReturns
  <2>2. Types'
    BY <2>1 DEF State, Types, objects, callers, scheduler, tasks, history
  <2>3. OnTheWay'
    BY <2>1 DEF State, OnTheWay, Used, Live, objects, callers, scheduler, tasks
  <2>4. Sweeping'
    BY <2>1 DEF State, Sweeping, objects, scheduler, history
  <2> QED BY <2>2, <2>3, <2>4 DEF State
<1> QED
  BY <1>1, <1>2, <1>3, <1>4, <1>5, <1>6, <1>7, <1>8, <1>9, <1>10 DEF StopStep

\* Nothing is published before the node is made.
LEMMA InitState == Init => State
<1> SUFFICES ASSUME Init PROVE State
  OBVIOUS
<1>1. Types
  <2>1. NoPub \in [rated : BOOLEAN, topic : Nat, open : BOOLEAN]
    BY DEF NoPub
  <2>2. NoArg \in [topic : Topics \cup {None}, struct : Nat]
    BY DEF NoArg
  <2>3. pub \in [Pubs -> [rated : BOOLEAN, topic : Nat, open : BOOLEAN]]
    BY <2>1 DEF Init
  <2>4. arg \in [Publishing -> [topic : Topics \cup {None}, struct : Nat]]
    BY <2>2 DEF Init
  <2>5. pc \in [Publishing -> Labels]
    BY DEF Init, Labels, AppLabels
  <2>6. update \in [rest : SUBSET Topics, size : Nat]
    BY DEF Init
  <2>7. ready \in Seq(Tasks \cup {"update", "stop"})
    BY DEF Init
  <2> QED BY <2>3, <2>4, <2>5, <2>6, <2>7 DEF Init, Types
<1>2. OnTheWay
  BY Nothing DEF Init, OnTheWay, Named, Live, Publishing, Fits, AppLabels, NoArg
<1>3. Sweeping
  BY DEF Init, Sweeping
<1> QED BY <1>1, <1>2, <1>3 DEF State

\* Every step keeps the types, what is on the way and what stop() has swept.
LEMMA NextState == State /\ [Next]_vars => State'
<1> SUFFICES ASSUME State, [Next]_vars PROVE State'
  OBVIOUS
<1>1. CASE UNCHANGED vars
  <2>1. UNCHANGED <<objects, callers, scheduler, tasks, stopping, history>>
    BY <1>1 DEF vars
  <2>2. Types'
    BY <2>1 DEF State, Types, objects, callers, scheduler, tasks, stopping, history
  <2>3. OnTheWay'
    BY <2>1 DEF State, OnTheWay, Used, Live, objects, callers, scheduler, tasks, stopping
  <2>4. Sweeping'
    BY <2>1 DEF State, Sweeping, objects, scheduler, stopping, history
  <2> QED BY <2>2, <2>3, <2>4 DEF State
<1>2. CASE Next
  BY <1>2, AppKeeps, TaskKeeps, UpdateKeeps, StopKeeps DEF Next, Loop
<1> QED BY <1>1, <1>2

\* The second invariant of the publishing side: whoever is on the way to
\* publish() finds a publisher and has a structure for it, and stop() has swept
\* what it has been through.
THEOREM StateInvariance == Spec => []State
BY InitState, NextState, PTL DEF Spec

\* Every variable keeps its type; in particular, nobody publishes a topic that
\* has no publisher in the dictionary, and no task lacks the one it was made
\* with.
THEOREM TypeCorrect == Spec => []TypeOK
BY StateInvariance, StateTypes, PTL

\* Once stop() has returned, the loop runs nothing any more and no publisher of
\* the dictionary is open, unless one was made after stop() began.
THEOREM StopSweeps == Spec => []StopCleansUp
<1>1. State => StopCleansUp
  BY DEF State, Sweeping, StopCleansUp
<1> QED BY <1>1, StateInvariance, PTL

=============================================================================
