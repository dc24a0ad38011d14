----------------------------- MODULE Publishing -----------------------------
(***************************************************************************)
(* The publishing side of AxoneNode (node.py) with its publishers          *)
(* (publisher.py): application threads that call publish_rate and          *)
(* publish_once, the thread of the event loop, which runs                  *)
(* update_publishers and one task per topic with a rate, and the thread    *)
(* that calls start() and stop(). They share the dictionaries of           *)
(* publishers and of running tasks, and the publishers, without a lock.    *)
(*                                                                         *)
(* A structure is named by the number of the call that handed it over.     *)
(***************************************************************************)
EXTENDS Naturals, Sequences, FiniteSets

CONSTANTS
  Apps,         (* Application threads that publish.                       *)
  Topics,
  Pubs,         (* Identities of Publisher objects.                        *)
  Tasks,        (* Identities of asyncio tasks.                            *)
  None,
  MaxCalls      (* Bound: calls of publish_rate and publish_once.          *)

ASSUME SetsAssumption ==
  /\ \A S \in {Apps, Topics, Pubs, Tasks} : IsFiniteSet(S) /\ None \notin S
  /\ Apps \cap Tasks = {}
  /\ {"update", "stop"} \cap (Tasks \cup {None}) = {}
  /\ None \notin Nat /\ MaxCalls \in Nat

Publishing == Apps \cup Tasks  (* Whoever may run Publisher.publish().       *)

VARIABLES
  publishers,   (* The publisher of each topic, or None.                   *)
  pub,          (* The publishers: rated, _topic, and whether it is open.  *)
  pc,           (* Control point of applications and tasks.                *)
  arg,          (* What each of them publishes: topic and structure.       *)
  held,         (* The publisher each task was created with.               *)
  seen,         (* The size of the dictionary an application's call met.   *)
  cancelled,    (* Tasks that have been cancelled.                         *)
  runningTasks, (* running_tasks: the task of each topic, or None.         *)
  shouldRun,    (* _server_should_run                                      *)
  loop,         (* The event loop: off, running, stopping, stopped.        *)
  ready,        (* What it will run: "update", "stop" or a task.           *)
  active,       (* What it is running, or None.                            *)
  update,       (* update_publishers: topics to come, size of the dict.    *)
  main,         (* Control point of the thread in start() or stop().       *)
  todo,         (* The tasks, then the publishers stop() has yet to stop.  *)
  size,         (* Size of the dictionary stop() iterates over.            *)
  calls,        (* Calls so far.                                           *)
  given,        (* History: what publish() of each publisher last got from *)
                (* an application.                                         *)
  late,         (* History: a publisher entered the dictionary after       *)
                (* stop() began.                                           *)
  orphaned      (* History: an update was interrupted, or never scheduled, *)
                (* with none to come.                                      *)

objects   == <<publishers, pub>>
callers   == <<pc, arg, held, seen>>
scheduler == <<loop, ready, active, update>>
tasks     == <<runningTasks, cancelled>>
stopping  == <<shouldRun, main, todo, size>>
history   == <<calls, given, late, orphaned>>
vars      == <<objects, callers, scheduler, tasks, stopping, history>>

-----------------------------------------------------------------------------

NoPub == [rated |-> FALSE, topic |-> 0, open |-> FALSE]
NoArg == [topic |-> None, struct |-> 0]

Go(x, label) == pc' = [pc EXCEPT ![x] = label]

Named(d) == {t \in Topics : d[t] # None}

Init ==
  /\ publishers = [t \in Topics |-> None]
  /\ pub = [p \in Pubs |-> NoPub]
  /\ pc = [x \in Publishing |-> IF x \in Apps THEN "idle" ELSE "none"]
  /\ arg = [x \in Publishing |-> NoArg]
  /\ held = [k \in Tasks |-> None]
  /\ seen = [x \in Apps |-> 0]
  /\ cancelled = {}
  /\ runningTasks = [t \in Topics |-> None]
  /\ shouldRun = FALSE
  /\ loop = "off" /\ ready = <<>> /\ active = None
  /\ update = [rest |-> {}, size |-> 0]
  /\ main = "new" /\ todo = {} /\ size = 0
  /\ calls = 0 /\ given = [p \in Pubs |-> 0]
  /\ late = FALSE /\ orphaned = FALSE

-----------------------------------------------------------------------------
(* Publisher.publish(), by an application or a task.                       *)

\* The structure becomes that of the publisher the dictionary now holds, is
\* encoded and sent. What is sent, and to a publisher that was stopped what is
\* not, is left out.
Take(x) ==
  LET p == publishers[arg[x].topic]
  IN /\ pc[x] = "take"
     /\ pub' = [pub EXCEPT ![p].topic = arg[x].struct]
     /\ given' = [given EXCEPT ![p] = IF x \in Apps THEN arg[x].struct ELSE @]

-----------------------------------------------------------------------------
(* Applications.                                                           *)

Call(x) ==
  /\ pc[x] = "idle"
  /\ calls < MaxCalls
  /\ calls' = calls + 1

Done(x) ==
  /\ Go(x, "idle")
  /\ arg' = [arg EXCEPT ![x] = NoArg]

\* A new publisher enters the dictionary, whatever is there. Making it opens a
\* socket or memory and registers a service.
Unused == {p \in Pubs : pub[p] = NoPub}

Insert(t, struct, rated) ==
  LET p == CHOOSE q \in Unused : TRUE
  IN /\ Unused # {}
     /\ pub' = [pub EXCEPT ![p] = [rated |-> rated, topic |-> struct, open |-> TRUE]]
     /\ publishers' = [publishers EXCEPT ![t] = p]
     /\ UNCHANGED given
     /\ late' = (late \/ main \notin {"new", "started"})

\* publish_rate makes a publisher first; when that raises, nothing happened.
PublishRate(x) ==
  /\ Call(x)
  /\ \E t \in Topics : Insert(t, calls + 1, TRUE)
  /\ Go(x, "collect")
  /\ UNCHANGED <<arg, held, seen, scheduler, tasks, stopping, orphaned>>

\* update_zeroconf_topics, of either call: it collects the topics by iterating
\* over the dictionary. In shared memory it is not called, as if nobody came
\* between the two ends of the iteration.
CollectBegin(x) ==
  /\ pc[x] = "collect"
  /\ seen' = [seen EXCEPT ![x] = Cardinality(Named(publishers))]
  /\ Go(x, "collecting")
  /\ UNCHANGED <<objects, arg, held, scheduler, tasks, stopping, history>>

Rates(x) == arg[x].topic = None  (* The call is one of publish_rate.        *)

CollectEnd(x) ==
  /\ pc[x] = "collecting"
  /\ Cardinality(Named(publishers)) = seen[x]
  /\ seen' = [seen EXCEPT ![x] = 0]
  /\ Go(x, IF Rates(x) THEN "schedule" ELSE "take")
  /\ UNCHANGED <<objects, arg, held, scheduler, tasks, stopping, history>>

\* An update is to come: queued, by start(), or by a publish_rate under way.
UpdateComes(queue, at) ==
  \/ main = "new"
  \/ \E i \in DOMAIN queue : queue[i] = "update"
  \/ \E x \in Apps : Rates(x) /\ at[x] \in {"collect", "collecting", "schedule"}

\* The dictionary has grown: its RuntimeError ends the call. publish_rate
\* schedules no update, publish_once publishes nothing.
CollectRaises(x) ==
  /\ pc[x] = "collecting"
  /\ Cardinality(Named(publishers)) # seen[x]
  /\ seen' = [seen EXCEPT ![x] = 0]
  /\ Done(x)
  /\ orphaned' = (orphaned \/ (Rates(x) /\ ~UpdateComes(ready, pc')))
  /\ UNCHANGED <<objects, held, scheduler, tasks, stopping, calls, given, late>>

\* Mutant: an update that runs is taken to cover the new publisher.
ScheduleUpdateOnce(x) ==
  /\ pc[x] = "schedule"
  /\ ready' = IF loop = "running" /\ active # "update" THEN Append(ready, "update")
                                                  ELSE ready
  /\ Go(x, "idle")
  /\ UNCHANGED <<objects, arg, held, seen, loop, active, update, tasks, stopping, history>>

\* run_coroutine_threadsafe raises without a loop, or with a closed one.
ScheduleUpdate(x) ==
  /\ pc[x] = "schedule"
  /\ ready' = IF loop \in {"running", "stopping"} THEN Append(ready, "update")
                                                  ELSE ready
  /\ Go(x, "idle")
  /\ UNCHANGED <<objects, arg, held, seen, loop, active, update, tasks, stopping, history>>

\* publish_once looks the topic up, makes a publisher without a rate if there
\* is none, and publishes.
PublishOnce(x) ==
  /\ Call(x)
  /\ \E t \in Topics :
       /\ arg' = [arg EXCEPT ![x] = [topic |-> t, struct |-> calls + 1]]
       /\ Go(x, IF publishers[t] = None THEN "once" ELSE "take")
  /\ UNCHANGED <<objects, held, seen, scheduler, tasks, stopping, given, late, orphaned>>

\* Mutant: the new publisher does not enter the dictionary.
InsertOnceForgets(x) ==
  /\ pc[x] = "once"
  /\ Go(x, "collect")
  /\ UNCHANGED <<objects, given, late, arg, held, seen, scheduler, tasks, stopping, calls, orphaned>>

InsertOnce(x) ==
  /\ pc[x] = "once"
  /\ Insert(arg[x].topic, arg[x].struct, FALSE)
  /\ Go(x, "collect")
  /\ UNCHANGED <<arg, held, seen, scheduler, tasks, stopping, calls, orphaned>>

PublisherFails(x) ==
  /\ pc[x] = "once"
  /\ Done(x)
  /\ UNCHANGED <<objects, held, seen, scheduler, tasks, stopping, history>>

AppPublishes(x) ==
  /\ x \in Apps
  /\ Take(x)
  /\ Done(x)
  /\ UNCHANGED <<publishers, held, seen, scheduler, tasks, stopping, calls, late, orphaned>>

Continue(x) ==
  \/ CollectBegin(x) \/ CollectEnd(x) \/ CollectRaises(x) \/ ScheduleUpdate(x)
  \/ InsertOnce(x) \/ PublisherFails(x) \/ AppPublishes(x)

-----------------------------------------------------------------------------
(* The event loop runs one thing at a time, to its next await.             *)

Idle == active = None /\ ready # <<>> /\ loop \in {"running", "stopping"}
Pop  == ready' = Tail(ready)

BeginUpdate ==
  /\ Idle /\ Head(ready) = "update"
  /\ Pop
  /\ active' = "update"
  /\ update' = [rest |-> Named(publishers), size |-> Cardinality(Named(publishers))]
  /\ UNCHANGED <<objects, callers, loop, tasks, stopping, history>>

\* A task for each topic with a rate that has none. Iterating over a
\* dictionary that has grown raises RuntimeError, which nobody looks at.
Grown == Cardinality(Named(publishers)) # update.size

NewTask(t) ==
  LET k == CHOOSE k \in Tasks : pc[k] = "none"
  IN /\ \E i \in Tasks : pc[i] = "none"
     /\ Go(k, "ready")
     /\ arg' = [arg EXCEPT ![k] = [topic |-> t, struct |-> 0]]
     /\ held' = [held EXCEPT ![k] = publishers[t]]
     /\ runningTasks' = [runningTasks EXCEPT ![t] = k]
     /\ ready' = Append(ready, k)
     /\ UNCHANGED seen

\* Mutant: a topic may have a task already.
UpdateTopicAgain ==
  /\ active = "update" /\ ~Grown
  /\ \E t \in update.rest :
       /\ update' = [update EXCEPT !.rest = @ \ {t}]
       /\ IF pub[publishers[t]].rated
            THEN NewTask(t)
            ELSE UNCHANGED <<callers, runningTasks, ready>>
  /\ UNCHANGED <<objects, loop, active, cancelled, stopping, history>>

UpdateTopic ==
  /\ active = "update" /\ ~Grown
  /\ \E t \in update.rest :
       /\ update' = [update EXCEPT !.rest = @ \ {t}]
       /\ IF runningTasks[t] = None /\ pub[publishers[t]].rated
            THEN NewTask(t)
            ELSE UNCHANGED <<callers, runningTasks, ready>>
  /\ UNCHANGED <<objects, loop, active, cancelled, stopping, history>>

\* Nothing removes a publisher, so there is no task to remove.
EndUpdate ==
  /\ active = "update" /\ ~Grown
  /\ update.rest = {}
  /\ active' = None
  /\ UNCHANGED <<objects, callers, loop, ready, update, tasks, stopping, history>>

UpdateRaises ==
  /\ active = "update" /\ Grown
  /\ active' = None
  /\ orphaned' = (orphaned \/ ~UpdateComes(ready, pc))
  /\ UNCHANGED <<objects, callers, loop, ready, update, tasks, stopping, calls, given, late>>

\* _schedule_publisher. A cancelled task ends where it waits.
TaskEnds(k) ==
  /\ Go(k, "done")
  /\ arg' = [arg EXCEPT ![k] = NoArg]
  /\ held' = [held EXCEPT ![k] = None]

BeginTask(k) ==
  /\ Idle /\ Head(ready) = k /\ pc[k] = "ready"
  /\ Pop
  /\ IF k \in cancelled \/ ~shouldRun
       THEN TaskEnds(k) /\ UNCHANGED active
       ELSE /\ Go(k, "check")
            /\ active' = k
            /\ UNCHANGED <<arg, held>>
  /\ UNCHANGED <<objects, seen, loop, update, tasks, stopping, history>>

\* When the period is over, the task publishes the structure of the publisher
\* it was created with.
PeriodOver(k) ==
  /\ active = k /\ pc[k] = "check"
  /\ arg' = [arg EXCEPT ![k].struct = pub[held[k]].topic]
  /\ Go(k, "take")
  /\ UNCHANGED <<objects, held, seen, scheduler, tasks, stopping, history>>

\* At its await, or when the exception of a structure that cannot be encoded or
\* of a stopped publisher breaks its loop; then it stays in running_tasks.
TaskSleeps(k) ==
  /\ active' = None
  /\ IF k \in cancelled THEN TaskEnds(k)
                        ELSE /\ Go(k, "sleep")
                             /\ arg' = [arg EXCEPT ![k].struct = 0]
                             /\ UNCHANGED held

NotYet(k) ==
  /\ active = k /\ pc[k] = "check"
  /\ TaskSleeps(k)
  /\ UNCHANGED <<objects, seen, loop, ready, update, tasks, stopping, history>>

TaskPublishes(k) ==
  /\ active = k
  /\ Take(k)
  /\ \/ TaskSleeps(k)
     \/ TaskEnds(k) /\ active' = None
  /\ UNCHANGED <<publishers, seen, loop, ready, update, tasks, stopping, calls, late, orphaned>>

Wake(k) ==
  /\ pc[k] = "sleep"
  /\ loop \in {"running", "stopping"}
  /\ Go(k, "ready")
  /\ ready' = Append(ready, k)
  /\ UNCHANGED <<objects, arg, held, seen, loop, active, update, tasks, stopping, history>>

BeginStop ==
  /\ Idle /\ Head(ready) = "stop"
  /\ Pop
  /\ loop' = "stopping"
  /\ UNCHANGED <<objects, callers, active, update, tasks, stopping, history>>

\* The loop ends with the round in which it was stopped.
LoopEnds ==
  /\ loop = "stopping" /\ active = None
  /\ loop' = "stopped"
  /\ UNCHANGED <<objects, callers, ready, active, update, tasks, stopping, history>>

Loop ==
  \/ BeginUpdate \/ UpdateTopic \/ EndUpdate \/ UpdateRaises
  \/ \E k \in Tasks :
       BeginTask(k) \/ PeriodOver(k) \/ NotYet(k) \/ TaskPublishes(k)
  \/ BeginStop \/ LoopEnds

-----------------------------------------------------------------------------
(* start() and stop().                                                     *)

Start ==
  /\ main = "new"
  /\ main' = "started"
  /\ shouldRun' = TRUE
  /\ loop' = "running"
  /\ ready' = <<"update">>
  /\ UNCHANGED <<objects, callers, active, update, tasks, todo, size, history>>

Stop ==
  /\ main = "started"
  /\ main' = "cancel"
  /\ shouldRun' = FALSE
  /\ todo' = Named(runningTasks)
  /\ size' = Cardinality(Named(runningTasks))
  /\ UNCHANGED <<objects, callers, scheduler, tasks, history>>

\* Each running task is cancelled; one that sleeps is woken to end.
CancelTask ==
  /\ main = "cancel"
  /\ Cardinality(Named(runningTasks)) = size
  /\ \E t \in todo :
       LET k == runningTasks[t]
       IN /\ todo' = todo \ {t}
          /\ cancelled' = cancelled \cup {k}
          /\ IF pc[k] = "sleep" THEN Go(k, "ready") /\ ready' = Append(ready, k)
                                ELSE UNCHANGED <<pc, ready>>
  /\ UNCHANGED <<objects, arg, held, seen, loop, active, update, runningTasks,
                 shouldRun, main, size, history>>

\* Mutant: only the publishers of topics with a task are stopped.
ClearTasksOnly ==
  /\ main = "cancel"
  /\ Cardinality(Named(runningTasks)) = size
  /\ todo = {}
  /\ runningTasks' = [t \in Topics |-> None]
  /\ main' = "publishers"
  /\ todo' = Named(runningTasks)
  /\ size' = Cardinality(Named(publishers))
  /\ UNCHANGED <<objects, callers, scheduler, cancelled, shouldRun, history>>

ClearTasks ==
  /\ main = "cancel"
  /\ Cardinality(Named(runningTasks)) = size
  /\ todo = {}
  /\ runningTasks' = [t \in Topics |-> None]
  /\ main' = "publishers"
  /\ todo' = Named(publishers)
  /\ size' = Cardinality(Named(publishers))
  /\ UNCHANGED <<objects, callers, scheduler, cancelled, shouldRun, history>>

StopPublisher ==
  /\ main = "publishers"
  /\ Cardinality(Named(publishers)) = size
  /\ \E t \in todo :
       /\ todo' = todo \ {t}
       /\ pub' = [pub EXCEPT ![publishers[t]].open = FALSE]
  /\ UNCHANGED <<publishers, callers, scheduler, tasks, shouldRun, main, size, history>>

\* The other threads have inserted: the iteration, and stop(), ends in a
\* RuntimeError.
StopRaises ==
  /\ \/ main = "cancel" /\ Cardinality(Named(runningTasks)) # size
     \/ main = "publishers" /\ Cardinality(Named(publishers)) # size
  /\ main' = "raised"
  /\ UNCHANGED <<objects, callers, scheduler, tasks, shouldRun, todo, size, history>>

\* Mutant: the loop is not told to stop.
StopLoopForgets ==
  /\ main = "publishers" /\ todo = {}
  /\ Cardinality(Named(publishers)) = size
  /\ main' = "join"
  /\ UNCHANGED <<objects, callers, scheduler, tasks, shouldRun, todo, size, history>>

\* Subscriptions and the advertisement are stopped, and then the loop, ...
StopLoop ==
  /\ main = "publishers" /\ todo = {}
  /\ Cardinality(Named(publishers)) = size
  /\ main' = "join"
  /\ ready' = Append(ready, "stop")
  /\ UNCHANGED <<objects, callers, loop, active, update, tasks, shouldRun, todo, size, history>>

\* ... whose thread is joined.
StopReturns ==
  /\ main = "join" /\ loop = "stopped"
  /\ main' = "stopped"
  /\ UNCHANGED <<objects, callers, scheduler, tasks, shouldRun, todo, size, history>>

StopStep ==
  \/ CancelTask \/ ClearTasks \/ StopPublisher \/ StopRaises \/ StopLoop \/ StopReturns

-----------------------------------------------------------------------------

Next ==
  \/ \E x \in Apps : PublishRate(x) \/ PublishOnce(x) \/ Continue(x)
  \/ Loop \/ \E k \in Tasks : Wake(k)
  \/ Start \/ Stop \/ StopStep

\* Threads are scheduled; timers fire, eventually.
Fairness ==
  /\ \A x \in Apps : WF_vars(Continue(x))
  /\ WF_vars(Loop)
  /\ \A k \in Tasks : WF_vars(Wake(k))
  /\ WF_vars(StopStep)

Spec     == Init /\ [][Next]_vars
FairSpec == Spec /\ Fairness

-----------------------------------------------------------------------------
(* Properties.                                                             *)

TypeOK ==
  /\ publishers \in [Topics -> Pubs \cup {None}]
  /\ pub \in [Pubs -> [rated : BOOLEAN, topic : Nat, open : BOOLEAN]]
  /\ \A t \in Named(publishers) : pub[publishers[t]] # NoPub
  /\ pc \in [Publishing -> {"idle", "once", "collect", "collecting", "schedule", "take",
                            "none", "ready", "check", "sleep", "done"}]
  /\ arg \in [Publishing -> [topic : Topics \cup {None}, struct : Nat]]
  /\ \A x \in Publishing : pc[x] = "take" => publishers[arg[x].topic] # None
  /\ held \in [Tasks -> Pubs \cup {None}]
  /\ seen \in [Apps -> Nat]
  /\ \A k \in Tasks : pc[k] \notin {"none", "done"} => held[k] # None
  /\ cancelled \subseteq Tasks
  /\ runningTasks \in [Topics -> Tasks \cup {None}]
  /\ shouldRun \in BOOLEAN
  /\ loop \in {"off", "running", "stopping", "stopped"}
  /\ ready \in Seq(Tasks \cup {"update", "stop"})
  /\ active \in Tasks \cup {"update", None}
  /\ update \in [rest : SUBSET Topics, size : Nat]
  /\ main \in {"new", "started", "cancel", "publishers", "join", "stopped", "raised"}
  /\ todo \subseteq Topics
  /\ size \in Nat
  /\ calls \in Nat /\ given \in [Pubs -> Nat]
  /\ late \in BOOLEAN /\ orphaned \in BOOLEAN

Live(k) == pc[k] \notin {"none", "done"}

\* While the node runs, no topic is published by two tasks, also after
\* updates that overlap with insertions or were interrupted by them.
OneTaskPerTopic ==
  shouldRun => \A j, k \in Tasks :
                 Live(j) /\ Live(k) /\ arg[j].topic = arg[k].topic => j = k

\* Once stop() has returned, the loop runs nothing any more and no publisher
\* of the dictionary is open, unless one was made after stop() began.
StopCleansUp ==
  main = "stopped" =>
    /\ active = None /\ loop = "stopped"
    /\ \A t \in Named(publishers) : pub[publishers[t]].open => late

\* Liveness, under FairSpec. stop() ends, with an exception if a task or a
\* publisher is inserted while it iterates.
StopEnds == (main = "cancel") ~> (main \in {"stopped", "raised"})

\* A topic published at a rate gets its task, whatever is inserted while the
\* loop looks for new ones and while publish_rate collects the topics, unless
\* an insertion raised there and no other update was to come, or publish_once,
\* racing with publish_rate, has replaced the publisher.
Rated(t) == publishers[t] # None /\ pub[publishers[t]].rated
RatedIsScheduled ==
  \A t \in Topics :
    (shouldRun /\ Rated(t))
      ~> (runningTasks[t] # None \/ ~shouldRun \/ orphaned \/ ~Rated(t))

\* publisher.py:138: "This will update the topic for the next publish". When
\* nobody is publishing, a publisher whose publish() an application has called
\* holds the structure of the last such call.
NextPublishIsUpdated ==
  (\A x \in Publishing : pc[x] # "take") =>
    \A p \in Pubs : given[p] \in {0, pub[p].topic}

=============================================================================
