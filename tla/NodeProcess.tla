---------------------------- MODULE NodeProcess ----------------------------
(***************************************************************************)
(* AxoneNodeProcess (node_process.py): a node that lives in a child        *)
(* process. The methods of the parent send tasks through a pipe; the child *)
(* runs them one at a time and, between two tasks, publishes the topics    *)
(* that are due. The structures a subscription receives come back through  *)
(* a queue, which listen_once empties.                                     *)
(*                                                                         *)
(* Callers are application threads that use the pipe, Readers threads that *)
(* call listen_once. One topic is published and one is subscribed to.      *)
(***************************************************************************)
EXTENDS Naturals, Sequences, FiniteSets

CONSTANTS
  Callers, Readers,  (* Application threads of the parent process.         *)
  None,
  Publications, (* What is published: pairs of a rate and whether the         *)
                (* structure can be encoded.                               *)
  MaxCalls,     (* Bound: tasks sent.                                      *)
  MaxVersions,  (* Bound: messages received by the subscription.           *)
  MaxFailures   (* Bound: functions of the child that raise.               *)

Threads == Callers \cup Readers

ASSUME ThreadsAssumption ==
  /\ Callers \cap Readers = {}
  /\ IsFiniteSet(Threads)
  /\ None \notin Nat
  /\ Publications \subseteq {"once", "rated", "zero"} \X BOOLEAN

ASSUME BoundsAssumption ==
  MaxCalls \in Nat /\ MaxVersions \in Nat /\ MaxFailures \in Nat

VARIABLES
  pc,          (* Control point of each thread of the parent.              *)
  mine, got,   (* Each caller's last call that waits, and the call whose   *)
               (* answer it received.                                      *)
  down, up,    (* The two directions of the pipe.                          *)
  closed,      (* stop() has closed the pipe and the queue.                *)
  garbled,     (* Two threads have read parts of one answer.               *)
  child,       (* Control point of the child's loop.                       *)
  task,        (* The task it runs.                                        *)
  publisher,   (* The entry of the topic in publishers: its rate.          *)
  encodable,   (* The structure the publisher holds can be encoded.        *)
  due,         (* The period of the topic is over.                         *)
  latest,      (* The version _topic of the child's subscription holds; 0  *)
               (* is the empty structure, None: there is no subscription.  *)
  buffer,      (* Structures put in the queue and not serialized yet.      *)
  queue,       (* Versions serialized and not fetched yet.                 *)
  item,        (* What a reader has fetched and not stored yet.            *)
  view,        (* The version in subscriptions of the parent.              *)
  promised,    (* History: newest version queued when listen_once began.   *)
  calls,       (* Tasks sent so far.                                       *)
  failures,    (* Functions that raised so far.                            *)
  lost,        (* History: calls that nobody will answer.                  *)
  overlap      (* History: two calls that wait have overlapped.            *)

pipe    == <<down, up, closed, garbled>>
callers == <<pc, mine, got>>
topic   == <<publisher, encodable, due>>
fetched == <<latest, buffer, queue, item, view, promised>>
history == <<calls, failures, lost, overlap>>
vars    == <<callers, pipe, child, task, topic, fetched, history>>

-----------------------------------------------------------------------------

\* Rates: negative, positive, and zero, which the default does not exclude.
Rates == {"once", "rated", "zero"}

\* What a task asks for: a lookup, which waits for its answer (the sync flag);
\* a publication, by its rate and whether the structure can be encoded; a
\* subscription; a structure of the subscription.
Tasks == [id : Nat, does : {"lookup", "publish", "subscribe", "listen"},
          rate : Rates, encodable : BOOLEAN]

ASSUME NoneAssumption == None \notin Tasks

Task(id, does, rate, ok) ==
  [id |-> id, does |-> does, rate |-> rate, encodable |-> ok]

Go(t, label) == pc' = [pc EXCEPT ![t] = label]
Child(label) == child' = label

Waiting == {t \in Callers : pc[t] \in {"waiting", "body"}}

Fail == failures < MaxFailures /\ failures' = failures + 1

\* Number of structures the queue reports: qsize() counts what was put.
QSize == buffer + Len(queue)

Newest(S) == CHOOSE v \in S : \A w \in S : w <= v

\* start() has made the pipe and the queue and launched the process.
Init ==
  /\ pc = [t \in Threads |-> "idle"]
  /\ mine = [t \in Callers |-> None]
  /\ got = [t \in Callers |-> None]
  /\ down = <<>> /\ up = <<>> /\ closed = FALSE /\ garbled = FALSE
  /\ child = "boot"
  /\ task = None
  /\ publisher = "none" /\ encodable = TRUE /\ due = FALSE
  /\ latest = None /\ buffer = 0 /\ queue = <<>>
  /\ item = [t \in Readers |-> None]
  /\ view = 0
  /\ promised = [t \in Readers |-> 0]
  /\ calls = 0 /\ failures = 0 /\ lost = 0
  /\ overlap = FALSE

-----------------------------------------------------------------------------
(* The parent process. On a closed pipe, a call raises OSError.            *)

Send(new) ==
  /\ ~closed
  /\ calls < MaxCalls
  /\ down' = Append(down, new)
  /\ calls' = calls + 1

\* _call_function: list_nodes, find_node_by_name, call_service, ...
CallFunction(t) ==
  /\ pc[t] = "idle"
  /\ Send(Task(calls + 1, "lookup", "once", TRUE))
  /\ mine' = [mine EXCEPT ![t] = calls + 1]
  /\ got' = [got EXCEPT ![t] = None]
  /\ overlap' = (overlap \/ Waiting # {})
  /\ Go(t, "waiting")
  /\ UNCHANGED <<up, closed, garbled, child, task, topic, fetched, failures, lost>>

\* recv() reads the length of the next answer, whichever call it belongs to,
ReceiveLength(t) ==
  /\ pc[t] = "waiting"
  /\ up # <<>> /\ ~closed /\ ~garbled
  /\ IF \E u \in Callers : pc[u] = "body"
       THEN garbled' = TRUE /\ UNCHANGED pc
       ELSE Go(t, "body") /\ UNCHANGED garbled
  /\ UNCHANGED <<mine, got, down, up, closed, child, task, topic, fetched, history>>

\* and then the answer.
CallReturns(t) ==
  /\ pc[t] = "body"
  /\ ~closed /\ ~garbled
  /\ got' = [got EXCEPT ![t] = Head(up)]
  /\ up' = Tail(up)
  /\ Go(t, "idle")
  /\ UNCHANGED <<mine, down, closed, garbled, child, task, topic, fetched, history>>

\* publish_once and publish_rate are the same asynchronous task; subscribe.
CallFunctionAsync(t) ==
  /\ pc[t] = "idle"
  /\ \/ \E p \in Publications : Send(Task(calls + 1, "publish", p[1], p[2]))
     \/ Send(Task(calls + 1, "subscribe", "once", TRUE))
  /\ UNCHANGED <<callers, up, closed, garbled, child, task, topic, fetched,
                 failures, lost, overlap>>

\* listen_once: fetch while the queue reports something, ...
ListenBegin(t) ==
  /\ pc[t] = "idle"
  /\ calls < MaxCalls
  /\ promised' = [promised EXCEPT ![t] =
                    IF queue = <<>> THEN view ELSE Newest({view, queue[Len(queue)]})]
  /\ Go(t, "drain")
  /\ UNCHANGED <<mine, got, pipe, child, task, topic, latest, buffer, queue,
                 item, view, history>>

Drain(t) ==
  /\ pc[t] = "drain"
  /\ Go(t, IF QSize > 0 THEN "get" ELSE "request")
  /\ UNCHANGED <<mine, got, pipe, child, task, topic, fetched, history>>

Get(t) ==
  /\ pc[t] = "get"
  /\ queue # <<>> /\ ~closed
  /\ item' = [item EXCEPT ![t] = Head(queue)]
  /\ queue' = Tail(queue)
  /\ Go(t, "store")
  /\ UNCHANGED <<mine, got, pipe, child, task, topic, latest, buffer, view,
                 promised, history>>

\* Mutant: one structure is fetched, not all of them.
StoreOnce(t) ==
  /\ pc[t] = "store"
  /\ view' = item[t]
  /\ item' = [item EXCEPT ![t] = None]
  /\ Go(t, "request")
  /\ UNCHANGED <<mine, got, pipe, child, task, topic, latest, buffer, queue,
                 promised, history>>

Store(t) ==
  /\ pc[t] = "store"
  /\ view' = item[t]
  /\ item' = [item EXCEPT ![t] = None]
  /\ Go(t, "drain")
  /\ UNCHANGED <<mine, got, pipe, child, task, topic, latest, buffer, queue,
                 promised, history>>

\* ... then ask the child for the next structure, and return the stored one.
Request(t) ==
  /\ pc[t] = "request"
  /\ ~closed
  /\ down' = Append(down, Task(calls + 1, "listen", "once", TRUE))
  /\ calls' = calls + 1
  /\ Go(t, "return")
  /\ UNCHANGED <<mine, got, up, closed, garbled, child, task, topic, fetched,
                 failures, lost, overlap>>

ListenReturns(t) ==
  /\ pc[t] = "return"
  /\ Go(t, "idle")
  /\ UNCHANGED <<mine, got, pipe, child, task, topic, fetched, history>>

\* A closed pipe or queue raises, or leaves a thread that is blocked in it
\* there; so does the answer two threads have read from.
Raises(t) ==
  /\ \/ closed /\ pc[t] \in {"waiting", "body", "get", "request"}
     \/ garbled /\ pc[t] \in {"waiting", "body"}
  /\ Go(t, "idle")
  /\ UNCHANGED <<mine, got, pipe, child, task, topic, fetched, history>>

\* stop(): the ends of the pipe are closed and the process is terminated.
Stop ==
  /\ ~closed
  /\ closed' = TRUE
  /\ Child("dead")
  /\ UNCHANGED <<callers, down, up, garbled, task, topic, fetched, history>>

Receive(t) == ReceiveLength(t) \/ CallReturns(t)

ListenOnce(t) ==
  Drain(t) \/ Get(t) \/ Store(t) \/ Request(t) \/ ListenReturns(t)

Parent(t) ==
  \/ t \in Callers /\ Receive(t)
  \/ t \in Readers /\ ListenOnce(t)
  \/ Raises(t)

Application(t) ==
  \/ t \in Callers /\ (CallFunction(t) \/ CallFunctionAsync(t))
  \/ t \in Readers /\ ListenBegin(t)

-----------------------------------------------------------------------------
(* The child process.                                                      *)

\* run() names, advertises and prepares the node before its loop; when that
\* raises, the process has ended and the parent does not know.
Boot ==
  /\ child = "boot"
  /\ \/ Child("poll") /\ UNCHANGED failures
     \/ Child("unborn") /\ Fail
  /\ UNCHANGED <<callers, pipe, task, topic, fetched, calls, lost, overlap>>

\* Mutant: the loop waits for a task without a timeout.
PollBlocks ==
  /\ child = "poll"
  /\ down # <<>>
  /\ task' = Head(down)
  /\ down' = Tail(down)
  /\ Child("run")
  /\ UNCHANGED <<callers, up, closed, garbled, topic, fetched, history>>

\* The loop waits a tenth of a second for a task, ...
Poll ==
  /\ child = "poll"
  /\ IF down = <<>>
       THEN Child("publish") /\ UNCHANGED <<down, task>>
       ELSE /\ task' = Head(down)
            /\ down' = Tail(down)
            /\ Child("run")
  /\ UNCHANGED <<callers, up, closed, garbled, topic, fetched, history>>

\* ... runs it,
Running(what) ==
  /\ child = "run" /\ task.does = what
  /\ task' = None
  /\ Child("publish")

\* Mutant: the result is not sent.
RunLookupSilent ==
  /\ Running("lookup")
  /\ UNCHANGED <<callers, pipe, topic, fetched, history>>

\* ... sends the result if the task waits for one,
RunLookup ==
  /\ Running("lookup")
  /\ up' = Append(up, task.id)
  /\ UNCHANGED <<callers, down, closed, garbled, topic, fetched, history>>

\* ... which it does not if the function raises: that is only logged.
RunLookupRaises ==
  /\ Running("lookup")
  /\ Fail
  /\ lost' = lost + 1
  /\ UNCHANGED <<callers, pipe, topic, fetched, calls, overlap>>

\* Mutant: the result of an asynchronous task is sent, too.
RunPublishAnswers ==
  /\ Running("publish")
  /\ publisher' = IF publisher = "none" THEN task.rate ELSE publisher
  /\ encodable' = task.encodable
  /\ due' = FALSE
  /\ up' = Append(up, task.id)
  /\ UNCHANGED <<callers, down, closed, garbled, fetched, history>>

\* _publish_once: the rate counts only for a topic that has no publisher. The
\* publisher takes a structure over before it encodes it, which may raise.
RunPublish ==
  /\ Running("publish")
  /\ publisher' = IF publisher = "none" THEN task.rate ELSE publisher
  /\ encodable' = task.encodable
  /\ due' = FALSE
  /\ UNCHANGED <<callers, pipe, fetched, history>>

\* The publisher could not be made: there is no entry.
RunPublishRaises ==
  /\ Running("publish")
  /\ publisher = "none"
  /\ Fail
  /\ UNCHANGED <<callers, pipe, topic, fetched, calls, lost, overlap>>

\* _subscribe: a subscription, if there is none.
Subscribed == IF latest = None THEN 0 ELSE latest

\* Mutant: the result of an asynchronous task is sent, too.
RunSubscribeAnswers ==
  /\ Running("subscribe")
  /\ latest' = Subscribed
  /\ up' = Append(up, task.id)
  /\ UNCHANGED <<callers, down, closed, garbled, topic, buffer, queue, item, view, promised, history>>

RunSubscribe ==
  /\ Running("subscribe")
  /\ latest' = Subscribed
  /\ UNCHANGED <<callers, pipe, topic, buffer, queue, item, view, promised, history>>

\* Mutant: there may be no subscription to take a structure from.
RunListenUnsubscribed ==
  /\ Running("listen")
  /\ latest' = latest
  /\ buffer' = buffer + 1
  /\ UNCHANGED <<callers, pipe, topic, queue, item, view, promised, history>>

\* _listen_once_async: subscribe at the first call; put the structure, not a
\* copy of it, in the queue.
RunListen ==
  /\ Running("listen")
  /\ latest' = Subscribed
  /\ buffer' = buffer + 1
  /\ UNCHANGED <<callers, pipe, topic, queue, item, view, promised, history>>

\* Mutant: what a function raises is not caught.
RunListenEnds ==
  /\ child = "run" /\ task.does \in {"subscribe", "listen"}
  /\ task' = None
  /\ Child("dead")
  /\ latest = None
  /\ Fail
  /\ latest' \in IF task.does = "listen" THEN {None, 0} ELSE {None}
  /\ UNCHANGED <<callers, pipe, topic, buffer, queue, item, view, promised,
                 calls, lost, overlap>>

\* Making the subscription raises, or receiving for the first time.
RunListenRaises ==
  /\ Running("subscribe") \/ Running("listen")
  /\ latest = None
  /\ Fail
  /\ latest' \in IF task.does = "listen" THEN {None, 0} ELSE {None}
  /\ UNCHANGED <<callers, pipe, topic, buffer, queue, item, view, promised,
                 calls, lost, overlap>>

\* _server_exec: publish what is due. This is outside the handlers of the
\* loop; when it raises the process ends. A rate of zero is divided by.
PublishDue ==
  /\ child = "publish"
  /\ LET now == publisher = "rated" /\ due
     IN /\ Child(IF publisher = "zero" \/ (now /\ ~encodable) THEN "dead" ELSE "poll")
        /\ due' = (due /\ ~now)
  /\ UNCHANGED <<callers, pipe, task, publisher, encodable, fetched, history>>

\* Mutant: the queue is not flushed when the process ends.
FeedDies ==
  /\ buffer > 0 /\ ~closed /\ child # "dead"
  /\ buffer' = buffer - 1
  /\ queue' = Append(queue, latest)
  /\ UNCHANGED <<callers, pipe, child, task, topic, latest, item, view,
                 promised, history>>

\* The thread of the queue serializes a structure when it gets to it, also
\* while the process ends of itself; termination kills it.
Feed ==
  /\ buffer > 0 /\ ~closed
  /\ buffer' = buffer - 1
  /\ queue' = Append(queue, latest)
  /\ UNCHANGED <<callers, pipe, child, task, topic, latest, item, view,
                 promised, history>>

\* The listening thread of the subscription decodes a message into _topic.
MessageArrives ==
  /\ ~closed
  /\ latest # None /\ latest < MaxVersions
  /\ latest' = latest + 1
  /\ UNCHANGED <<callers, pipe, child, task, topic, buffer, queue, item, view,
                 promised, history>>

\* The clock passes the period of the topic.
Tick ==
  /\ publisher = "rated" /\ ~due
  /\ due' = TRUE
  /\ UNCHANGED <<callers, pipe, child, task, publisher, encodable, fetched, history>>

Run ==
  \/ RunLookup \/ RunLookupRaises
  \/ RunPublish \/ RunPublishRaises
  \/ RunSubscribe \/ RunListen \/ RunListenRaises

ChildNext == Boot \/ Poll \/ Run \/ PublishDue

-----------------------------------------------------------------------------

Next ==
  \/ \E t \in Threads : Parent(t) \/ Application(t)
  \/ Stop
  \/ ChildNext \/ Feed
  \/ MessageArrives \/ Tick

\* Processes and threads are scheduled; the application, the publisher of the
\* topic and the clock owe nothing.
Fairness ==
  /\ \A t \in Threads : WF_vars(Parent(t))
  /\ WF_vars(ChildNext) /\ WF_vars(Feed)

Spec     == Init /\ [][Next]_vars
FairSpec == Spec /\ Fairness

-----------------------------------------------------------------------------
(* Properties.                                                             *)

TypeOK ==
  /\ pc \in [Threads -> {"idle", "waiting", "body", "drain", "get", "store",
                         "request", "return"}]
  /\ \A t \in Callers : pc[t] \in {"idle", "waiting", "body"}
  /\ \A t \in Readers : pc[t] \notin {"waiting", "body"}
  /\ mine \in [Callers -> Nat \cup {None}]
  /\ got \in [Callers -> Nat \cup {None}]
  /\ down \in Seq(Tasks)
  /\ up \in Seq(Nat)
  /\ closed \in BOOLEAN /\ garbled \in BOOLEAN
  /\ child \in {"boot", "poll", "run", "publish", "dead", "unborn"}
  /\ task \in Tasks \cup {None}
  /\ child = "run" => task # None
  /\ publisher \in Rates \cup {"none"}
  /\ encodable \in BOOLEAN /\ due \in BOOLEAN
  /\ latest \in Nat \cup {None}
  /\ buffer \in Nat
  /\ buffer > 0 => latest # None
  /\ queue \in Seq(Nat)
  /\ item \in [Readers -> Nat \cup {None}]
  /\ \A t \in Readers : pc[t] = "store" => item[t] # None
  /\ view \in Nat
  /\ promised \in [Readers -> Nat]
  /\ calls \in Nat /\ failures \in Nat /\ lost \in Nat
  /\ overlap \in BOOLEAN

\* Every caller that waits is accounted for: its call is in the pipe, being
\* run, answered, or lost to an exception. No answer is ever produced for
\* nobody, which the next caller would take for its own.
CallersAccountedFor ==
  ~closed /\ ~garbled =>
    Cardinality(Waiting) =
      Cardinality({i \in 1..Len(down) : down[i].does = "lookup"})
        + (IF task # None /\ task.does = "lookup" THEN 1 ELSE 0)
        + Len(up) + lost

\* A caller gets the answer to its own call, unless calls of two threads
\* have overlapped on the pipe: asynchronous tasks, failures and listen_once
\* in between do not shift the answers.
OwnAnswer ==
  \A t \in Callers : got[t] \in {None, mine[t]} \/ overlap

\* Functions of the child may raise; only a topic that is published at a rate
\* and cannot be encoded, or at a rate of zero, ends its process.
OnlyBrokenTopicsKill ==
  child = "dead" /\ ~closed =>
    publisher = "zero" \/ (publisher = "rated" /\ ~encodable)

OneReader == Cardinality(Readers) <= 1

\* As long as one thread reads, listen_once returns a structure no older than
\* any that was in the queue, or that it had returned, when it was called.
FreshListen ==
  OneReader => \A t \in Readers : pc[t] = "return" => view >= promised[t]

\* Liveness, under FairSpec. A call that waits is answered, unless some
\* function has raised, two threads read at once or the process is gone.
CallsAnswered ==
  \A t \in Callers :
    (t \in Waiting) ~> (pc[t] = "idle" \/ failures > 0 \/ garbled \/ child = "dead")

\* As long as one thread reads, listen_once returns: when the queue reports a
\* structure there will be one to get, also from a child that ended.
ListenCompletes ==
  OneReader => \A t \in Readers : (pc[t] = "drain") ~> (pc[t] = "idle" \/ closed)

\* A topic that is due is published, however many tasks are waiting.
DueIsPublished == (publisher = "rated" /\ due) ~> (~due \/ child = "dead")

=============================================================================
