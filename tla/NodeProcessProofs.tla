-------------------------- MODULE NodeProcessProofs --------------------------
(***************************************************************************)
(* Theorems about NodeProcess, for every number of threads of the parent,  *)
(* tasks, messages and failures.                                           *)
(***************************************************************************)
EXTENDS NodeProcess, FiniteSetTheorems, FunctionTheorems, TLAPS

IsLookup(x) == x # None /\ x.does = "lookup"

\* The child has a task while it runs it; a termination may leave one.
Resting == child \in {"boot", "poll", "publish", "unborn"} => task = None

\* One thread at a time is inside an answer, which has been received. A
\* reader holds an item exactly while it stores it.
Reading ==
  /\ ~garbled => \A t, u \in Callers : pc[t] = "body" /\ pc[u] = "body" => t = u
  /\ ~garbled /\ ~closed => \A t \in Callers : pc[t] = "body" => up # <<>>
  /\ \A t \in Readers : item[t] # None <=> pc[t] = "store"

\* Until two calls overlap there is one caller that waits, and at most one
\* lookup between it and its answer: its own.
OneCall ==
  ~overlap =>
    /\ ~garbled
    /\ ~closed =>
         /\ \A t, u \in Waiting : t = u
         /\ \A i \in 1..Len(up) : i = 1 /\ \E t \in Waiting : up[i] = mine[t]
         /\ IsLookup(task) => up = <<>> /\ \E t \in Waiting : task.id = mine[t]
         /\ \A i \in 1..Len(down) : IsLookup(down[i]) =>
              /\ up = <<>> /\ ~IsLookup(task)
              /\ \E t \in Waiting : down[i].id = mine[t]
              /\ \A j \in 1..Len(down) : IsLookup(down[j]) => i = j

\* A structure in the queue is no older than those before it, nor than what
\* the only reader has.
Version == IF latest = None THEN 0 ELSE latest
InOrder ==
  /\ queue # <<>> => latest # None
  /\ \A i, j \in 1..Len(queue) : i <= j => queue[i] <= queue[j]
  /\ \A i \in 1..Len(queue) : queue[i] <= Version
  /\ OneReader =>
       /\ view <= Version
       /\ \A i \in 1..Len(queue) : view <= queue[i]
       /\ \A t \in Readers : item[t] # None =>
            /\ view <= item[t] /\ item[t] <= Version
            /\ \A i \in 1..Len(queue) : item[t] <= queue[i]

\* What the reader will have when the queue is empty.
Coming(t) == IF queue # <<>> THEN queue[Len(queue)]
             ELSE IF item[t] # None THEN item[t] ELSE view
Promise ==
  OneReader => \A t \in Readers :
    /\ pc[t] \in {"drain", "get", "store"} => promised[t] <= Coming(t)
    /\ pc[t] \in {"request", "return"} => promised[t] <= view

\* The calls in the pipe, and in the child; with those that are answered or
\* lost they are as many as the callers that wait.
Lookups(s) == {i \in 1..Len(s) : s[i].does = "lookup"}
Asked == IF IsLookup(task) THEN 1 ELSE 0
Balanced ==
  ~closed /\ ~garbled =>
    Cardinality(Waiting) = Cardinality(Lookups(down)) + Asked + Len(up) + lost

Inv == /\ TypeOK /\ Resting /\ Reading /\ OneCall /\ InOrder /\ Promise
       /\ OwnAnswer /\ OnlyBrokenTopicsKill /\ Balanced

-----------------------------------------------------------------------------
(* Facts about the constants and the pipe.                                 *)

\* None is no number and no task; no thread both calls and reads.
LEMMA Distinct ==
  /\ None \notin Nat /\ \A x \in Tasks : x # None
  /\ \A t \in Callers : t \notin Readers /\ t \in Threads
  /\ \A t \in Readers : t \in Threads
BY NoneAssumption, ThreadsAssumption DEF Threads

\* What the parent sends are tasks.
LEMMA TaskFacts ==
  ASSUME NEW id \in Nat
  PROVE  /\ Task(id, "lookup", "once", TRUE) \in Tasks
         /\ Task(id, "lookup", "once", TRUE).does = "lookup"
         /\ Task(id, "lookup", "once", TRUE).id = id
         /\ Task(id, "subscribe", "once", TRUE) \in Tasks
         /\ Task(id, "subscribe", "once", TRUE).does = "subscribe"
         /\ Task(id, "listen", "once", TRUE) \in Tasks
         /\ Task(id, "listen", "once", TRUE).does = "listen"
         /\ \A p \in Publications : /\ Task(id, "publish", p[1], p[2]) \in Tasks
                                   /\ Task(id, "publish", p[1], p[2]).does = "publish"
<1>1. \A p \in Publications : p[1] \in Rates /\ p[2] \in BOOLEAN
  BY ThreadsAssumption DEF Rates
<1> QED BY <1>1 DEF Task, Tasks, Rates

\* The newest of two versions.
LEMMA NewestFacts ==
  ASSUME NEW v \in Nat, NEW w \in Nat
  PROVE  /\ Newest({v, w}) \in {v, w}
         /\ v <= Newest({v, w}) /\ w <= Newest({v, w})
<1>1. \E x \in {v, w} : \A y \in {v, w} : y <= x
  <2>1. CASE v <= w
    BY <2>1
  <2>2. CASE w <= v
    BY <2>2
  <2> QED BY <2>1, <2>2
<1> QED BY <1>1 DEF Newest

\* A task that has been sent is at the end of the pipe.
LEMMA Sent ==
  ASSUME NEW s \in Seq(Tasks), NEW new \in Tasks
  PROVE  /\ Append(s, new) \in Seq(Tasks) /\ Len(s) \in Nat
         /\ Len(Append(s, new)) = Len(s) + 1
         /\ \A i \in 1..Len(s) : Append(s, new)[i] = s[i]
         /\ Append(s, new)[Len(s) + 1] = new
         /\ \A i \in 1..(Len(s) + 1) : i \in 1..Len(s) \/ i = Len(s) + 1
OBVIOUS

\* A task that is received was the first.
LEMMA Received ==
  ASSUME NEW s \in Seq(Tasks), s # <<>>
  PROVE  /\ Tail(s) \in Seq(Tasks) /\ Head(s) \in Tasks
         /\ Len(s) \in Nat \ {0} /\ Head(s) = s[1] /\ 1 \in 1..Len(s)
         /\ Len(Tail(s)) = Len(s) - 1
         /\ \A i \in 1..Len(Tail(s)) :
              /\ i + 1 \in 1..Len(s) /\ i + 1 # 1 /\ Tail(s)[i] = s[i + 1]
         /\ \A i \in 1..Len(s) : i # 1 => i - 1 \in 1..Len(Tail(s))
OBVIOUS

-----------------------------------------------------------------------------
(* Types.                                                                  *)

\* What the parent does keeps every variable's type.
LEMMA ParentType ==
  ASSUME TypeOK, Reading, NEW t \in Threads, Parent(t) \/ Application(t)
  PROVE  TypeOK'
<1>0. calls + 1 \in Nat /\ down \in Seq(Tasks)
  BY DEF TypeOK
<1> USE Distinct DEF Go, callers, pipe, topic, fetched, history
<1>1. CASE t \in Callers /\ CallFunction(t)
  <2>1. Task(calls + 1, "lookup", "once", TRUE) \in Tasks
    BY <1>0, TaskFacts
  <2>2. down' \in Seq(Tasks) /\ calls' \in Nat
    <3>1. down' = Append(down, Task(calls + 1, "lookup", "once", TRUE))
      BY <1>1 DEF CallFunction, Send
    <3>2. calls' = calls + 1
      BY <1>1 DEF CallFunction, Send
    <3> QED BY <1>0, <2>1, <3>1, <3>2, Sent
  <2>3. /\ pc' = [pc EXCEPT ![t] = "waiting"]
        /\ mine' = [mine EXCEPT ![t] = calls + 1]
        /\ got' = [got EXCEPT ![t] = None]
        /\ overlap' \in BOOLEAN
        /\ UNCHANGED <<up, closed, garbled, child, task, topic, fetched, failures, lost>>
    BY <1>1 DEF CallFunction
  <2> QED BY <1>1, <2>2, <2>3 DEF TypeOK
<1>2. CASE t \in Callers /\ CallFunctionAsync(t)
  <2>2. PICK new \in Tasks : Send(new)
    <3>1. Task(calls + 1, "subscribe", "once", TRUE) \in Tasks
      BY <1>0, TaskFacts
    <3>2. \A p \in Publications : Task(calls + 1, "publish", p[1], p[2]) \in Tasks
      BY <1>0, TaskFacts
    <3> QED BY <1>2, <3>1, <3>2 DEF CallFunctionAsync
  <2> QED BY <1>2, <2>2 DEF CallFunctionAsync, Send, TypeOK
<1>3. CASE t \in Callers /\ ReceiveLength(t)
  <2>1. /\ pc[t] = "waiting" /\ garbled' \in BOOLEAN
        /\ UNCHANGED <<mine, got, down, up, closed, child, task, topic, fetched, history>>
    BY <1>3 DEF ReceiveLength, TypeOK
  <2>2. pc' = pc \/ pc' = [pc EXCEPT ![t] = "body"]
    BY <1>3 DEF ReceiveLength, TypeOK
  <2>3. CASE pc' = pc
    BY <2>1, <2>3 DEF TypeOK
  <2>4. CASE pc' = [pc EXCEPT ![t] = "body"]
    BY <1>3, <2>1, <2>4 DEF TypeOK
  <2> QED BY <2>2, <2>3, <2>4 DEF TypeOK
<1>4. CASE t \in Callers /\ CallReturns(t)
  <2>1. up # <<>>
    BY <1>4 DEF CallReturns, Reading, TypeOK
  <2> QED BY <1>4, <2>1 DEF CallReturns, TypeOK
<1>5. CASE t \in Readers /\ ListenBegin(t)
  <2>1. promised' \in [Readers -> Nat]
    <3>1. queue # <<>> => queue[Len(queue)] \in Nat
      BY DEF TypeOK
    <3>2. queue # <<>> => Newest({view, queue[Len(queue)]}) \in Nat
      <4>1. ASSUME queue # <<>>
            PROVE  Newest({view, queue[Len(queue)]}) \in {view, queue[Len(queue)]}
        <5>1. view \in Nat
          BY DEF TypeOK
        <5> QED BY <3>1, <4>1, <5>1, NewestFacts
      <4> QED BY <3>1, <4>1 DEF TypeOK
    <3> QED BY <1>5, <3>2 DEF ListenBegin, TypeOK
  <2>2. /\ pc' = [pc EXCEPT ![t] = "drain"]
        /\ UNCHANGED <<mine, got, pipe, child, task, topic, latest, buffer, queue,
                       item, view, history>>
    BY <1>5 DEF ListenBegin, TypeOK
  <2> QED BY <1>5, <2>1, <2>2 DEF TypeOK
<1>6. CASE t \in Readers /\ Drain(t)
  BY <1>6 DEF Drain, TypeOK
<1>7. CASE t \in Readers /\ Get(t)
  BY <1>7 DEF Get, TypeOK
<1>8. CASE t \in Readers /\ Store(t)
  BY <1>8 DEF Store, TypeOK
<1>9. CASE t \in Readers /\ Request(t)
  <2>1. Task(calls + 1, "listen", "once", TRUE) \in Tasks
    BY <1>0, TaskFacts
  <2>2. down' \in Seq(Tasks) /\ calls' \in Nat
    <3>1. /\ down' = Append(down, Task(calls + 1, "listen", "once", TRUE))
          /\ calls' = calls + 1
      BY <1>9 DEF Request
    <3> QED BY <1>0, <2>1, <3>1, Sent
  <2>3. /\ pc' = [pc EXCEPT ![t] = "return"]
        /\ UNCHANGED <<mine, got, up, closed, garbled, child, task, topic, fetched,
                       failures, lost, overlap>>
    BY <1>9 DEF Request
  <2> QED BY <1>9, <2>2, <2>3 DEF TypeOK
<1>10. CASE t \in Readers /\ ListenReturns(t)
  BY <1>10 DEF ListenReturns, TypeOK
<1>11. CASE Raises(t)
  BY <1>11 DEF Raises, TypeOK
<1> QED
  BY <1>1, <1>2, <1>3, <1>4, <1>5, <1>6, <1>7, <1>8, <1>9, <1>10, <1>11
  DEF Parent, Application, Receive, ListenOnce

\* And what the child does, and the end of both.
LEMMA ChildType ==
  ASSUME TypeOK, Stop \/ ChildNext \/ Feed \/ MessageArrives \/ Tick
  PROVE  TypeOK'
<1> USE Distinct DEF TypeOK, Child, callers, pipe, topic, fetched, history
<1>1. CASE Stop
  BY <1>1 DEF Stop
<1>2. CASE Boot
  BY <1>2 DEF Boot, Fail
<1>3. CASE Poll
  <2>1. UNCHANGED <<callers, up, closed, garbled, topic, fetched, history>>
    BY <1>3 DEF Poll
  <2>2. CASE down = <<>>
    BY <1>3, <2>1, <2>2 DEF Poll
  <2>3. CASE down # <<>>
    <3>1. task' = Head(down) /\ down' = Tail(down) /\ child' = "run"
      BY <1>3, <2>3 DEF Poll
    <3>2. task' \in Tasks /\ down' \in Seq(Tasks)
      BY <2>3, <3>1, Received
    <3> QED BY <2>1, <3>1, <3>2
  <2> QED BY <2>2, <2>3
<1>4. CASE RunLookup
  BY <1>4 DEF RunLookup, Running, Tasks
<1>5. CASE RunLookupRaises
  BY <1>5 DEF RunLookupRaises, Running, Fail
<1>6. CASE RunPublish
  BY <1>6 DEF RunPublish, Running, Tasks
<1>7. CASE RunPublishRaises
  BY <1>7 DEF RunPublishRaises, Running, Fail
<1>8. CASE RunSubscribe
  BY <1>8 DEF RunSubscribe, Running, Subscribed
<1>9. CASE RunListen
  BY <1>9 DEF RunListen, Running, Subscribed
<1>10. CASE RunListenRaises
  BY <1>10 DEF RunListenRaises, Running, Fail
<1>11. CASE PublishDue
  BY <1>11 DEF PublishDue
<1>12. CASE Feed
  BY <1>12 DEF Feed
<1>13. CASE MessageArrives
  BY <1>13 DEF MessageArrives
<1>14. CASE Tick
  BY <1>14 DEF Tick
<1> QED
  BY <1>1, <1>2, <1>3, <1>4, <1>5, <1>6, <1>7, <1>8, <1>9, <1>10, <1>11,
     <1>12, <1>13, <1>14 DEF ChildNext, Run

-----------------------------------------------------------------------------
(* The rest of the state of the two processes.                             *)

\* Resting, Reading and OnlyBrokenTopicsKill.
LEMMA ParentKeeps ==
  ASSUME TypeOK, Resting, Reading, OnlyBrokenTopicsKill,
         NEW t \in Threads, Parent(t) \/ Application(t)
  PROVE  Resting' /\ Reading' /\ OnlyBrokenTopicsKill'
<1> USE Distinct DEF Go, callers, pipe, topic, fetched, history
<1>1. UNCHANGED <<child, task, topic, closed>>
  BY DEF Parent, Application, Receive, ListenOnce, CallFunction, Send,
         CallFunctionAsync, ReceiveLength, CallReturns, ListenBegin, Drain,
         Get, Store, Request, ListenReturns, Raises
<1>2. Resting' /\ OnlyBrokenTopicsKill'
  BY <1>1 DEF Resting, OnlyBrokenTopicsKill
<1>3. CASE t \in Callers /\ ReceiveLength(t)
  <2>1. /\ pc[t] = "waiting" /\ up # <<>> /\ ~garbled
        /\ UNCHANGED <<up, closed, item>>
    BY <1>3 DEF ReceiveLength
  <2>2. CASE \E u \in Callers : pc[u] = "body"
    <3>1. garbled' /\ pc' = pc
      BY <1>3, <2>2 DEF ReceiveLength
    <3> QED BY <1>2, <2>1, <3>1 DEF Reading
  <2>3. CASE ~ \E u \in Callers : pc[u] = "body"
    <3>1. garbled' = garbled /\ pc' = [pc EXCEPT ![t] = "body"]
      BY <1>3, <2>3 DEF ReceiveLength
    <3>2. \A u \in Callers : pc'[u] = "body" => u = t
      BY <2>3, <3>1 DEF TypeOK
    <3>3. \A u \in Readers : pc'[u] = pc[u]
      BY <1>3, <3>1 DEF TypeOK
    <3> QED BY <1>2, <2>1, <3>1, <3>2, <3>3 DEF Reading
  <2> QED BY <2>2, <2>3
<1>4. CASE t \in Callers /\ CallReturns(t)
  <2>1. /\ pc[t] = "body" /\ ~garbled /\ ~closed
        /\ pc' = [pc EXCEPT ![t] = "idle"]
        /\ UNCHANGED <<closed, garbled, item>>
    BY <1>4 DEF CallReturns
  <2>2. \A u \in Callers : pc'[u] # "body"
    BY <1>4, <2>1 DEF TypeOK, Reading
  <2>3. \A u \in Readers : pc'[u] = pc[u]
    BY <1>4, <2>1 DEF TypeOK
  <2> QED BY <1>2, <2>1, <2>2, <2>3 DEF Reading
<1>5. CASE t \in Callers /\ (CallFunction(t) \/ CallFunctionAsync(t))
  <2>1. /\ UNCHANGED <<closed, garbled, up, item>>
        /\ pc' = pc \/ pc' = [pc EXCEPT ![t] = "waiting"]
    BY <1>5 DEF CallFunction, CallFunctionAsync, Send
  <2>2. /\ \A u \in Readers : pc'[u] = pc[u]
        /\ \A u \in Callers : pc'[u] = "body" => pc[u] = "body"
    BY <1>5, <2>1 DEF TypeOK
  <2> QED BY <1>2, <2>1, <2>2 DEF Reading
<1>6. CASE t \in Readers /\ (ListenOnce(t) \/ ListenBegin(t))
  <2>1. /\ UNCHANGED <<closed, garbled, up>>
        /\ \A u \in Threads : u # t => pc'[u] = pc[u]
    BY <1>6 DEF ListenOnce, ListenBegin, Drain, Get, Store, Request, ListenReturns, TypeOK
  <2>2. \A u \in Callers : pc'[u] = pc[u]
    BY <1>6, <2>1
  <2>3. \A u \in Readers : item'[u] # None <=> pc'[u] = "store"
    <3>1. CASE Get(t)
      <4>1. Head(queue) \in Nat
        BY <3>1 DEF Get, TypeOK
      <4> QED BY <1>6, <3>1, <4>1 DEF Get, TypeOK, Reading
    <3>2. CASE Store(t)
      BY <1>6, <3>2 DEF Store, TypeOK, Reading
    <3>3. CASE Drain(t) \/ Request(t) \/ ListenReturns(t) \/ ListenBegin(t)
      BY <1>6, <3>3 DEF Drain, Request, ListenReturns, ListenBegin, TypeOK, Reading
    <3> QED BY <1>6, <3>1, <3>2, <3>3 DEF ListenOnce
  <2> QED BY <1>2, <2>1, <2>2, <2>3 DEF Reading
<1>7. CASE Raises(t)
  <2>1. /\ pc[t] # "store"
        /\ pc' = [pc EXCEPT ![t] = "idle"]
        /\ UNCHANGED <<closed, garbled, up, item>>
    BY <1>7 DEF Raises
  <2>2. \A u \in Threads : /\ pc'[u] = "body" => pc[u] = "body"
                           /\ pc'[u] = "store" <=> pc[u] = "store"
    BY <2>1 DEF TypeOK
  <2> QED BY <1>2, <2>1, <2>2 DEF Reading
<1>8. Reading'
  BY <1>3, <1>4, <1>5, <1>6, <1>7 DEF Parent, Application, Receive
<1> QED BY <1>2, <1>8

\* A topic that ends the process is one at a rate of zero, or at a rate and
\* not encodable; an answer that is being read stays the first.
LEMMA ChildKeeps ==
  ASSUME TypeOK, Resting, Reading, OnlyBrokenTopicsKill,
         Stop \/ ChildNext \/ Feed \/ MessageArrives \/ Tick
  PROVE  Resting' /\ Reading' /\ OnlyBrokenTopicsKill'
<1> USE Distinct DEF Child, callers, pipe, topic, fetched, history
<1>1. Resting'
  <2>1. CASE Stop
    BY <2>1 DEF Stop, Resting
  <2>2. CASE Boot
    BY <2>2 DEF Boot, Resting, Fail
  <2>3. CASE Poll
    BY <2>3 DEF Poll, Resting
  <2>4. CASE Run
    <3>1. task' = None /\ child' = "publish"
      BY <2>4 DEF Run, RunLookup, RunLookupRaises, RunPublish, RunPublishRaises,
                  RunSubscribe, RunListen, RunListenRaises, Running
    <3> QED BY <3>1 DEF Resting
  <2>5. CASE PublishDue \/ Feed \/ MessageArrives \/ Tick
    BY <2>5 DEF PublishDue, Feed, MessageArrives, Tick, Resting
  <2> QED BY <2>1, <2>2, <2>3, <2>4, <2>5 DEF ChildNext
<1>2. Reading'
  <2>1. /\ UNCHANGED <<callers, garbled, item>>
        /\ closed' = closed \/ closed'
    BY DEF Stop, ChildNext, Boot, Poll, Run, RunLookup, RunLookupRaises,
           RunPublish, RunPublishRaises, RunSubscribe, RunListen,
           RunListenRaises, PublishDue, Feed, MessageArrives, Tick, TypeOK
  <2>2. up' = up \/ up' # <<>>
    <3>1. CASE RunLookup
      <4>1. task.id \in Nat
        BY <3>1 DEF RunLookup, Running, TypeOK, Tasks
      <4> QED BY <3>1, <4>1 DEF RunLookup, TypeOK
    <3>2. CASE ~RunLookup
      BY <3>2 DEF Stop, ChildNext, Boot, Poll, Run, RunLookupRaises,
             RunPublish, RunPublishRaises, RunSubscribe, RunListen,
             RunListenRaises, PublishDue, Feed, MessageArrives, Tick
    <3> QED BY <3>1, <3>2
  <2> QED BY <2>1, <2>2 DEF Reading
<1>3. OnlyBrokenTopicsKill'
  <2>1. CASE Stop
    BY <2>1 DEF Stop, OnlyBrokenTopicsKill
  <2>2. CASE Boot
    BY <2>2 DEF Boot, OnlyBrokenTopicsKill, Fail
  <2>3. CASE Poll
    BY <2>3 DEF Poll, OnlyBrokenTopicsKill
  <2>4. CASE Run
    <3>1. child' = "publish"
      BY <2>4 DEF Run, RunLookup, RunLookupRaises, RunPublish, RunPublishRaises,
                  RunSubscribe, RunListen, RunListenRaises, Running
    <3> QED BY <3>1 DEF OnlyBrokenTopicsKill
  <2>5. CASE PublishDue
    BY <2>5 DEF PublishDue, OnlyBrokenTopicsKill
  <2>6. CASE Feed \/ MessageArrives \/ Tick
    BY <2>6 DEF Feed, MessageArrives, Tick, OnlyBrokenTopicsKill
  <2> QED BY <2>1, <2>2, <2>3, <2>4, <2>5, <2>6 DEF ChildNext
<1> QED BY <1>1, <1>2, <1>3

-----------------------------------------------------------------------------
(* Calls and their answers.                                                *)

\* A step that leaves the pipe and the calls alone, or finishes a task.
LEMMA CallsUndisturbed ==
  ASSUME OneCall, OwnAnswer, UNCHANGED <<mine, got, pipe, overlap>>,
         Waiting' = Waiting, task' \in {task, None}
  PROVE  OneCall' /\ OwnAnswer'
<1>1. OwnAnswer'
  BY DEF OwnAnswer
<1>2. ~IsLookup(None)
  BY DEF IsLookup
<1>3. IsLookup(task') => task' = task /\ IsLookup(task)
  BY <1>2
<1>4. OneCall'
  BY <1>3 DEF OneCall, pipe
<1> QED BY <1>1, <1>4

\* A task at the end of the pipe that is no lookup.
LEMMA AsyncKeepsCalls ==
  ASSUME TypeOK, OneCall, OwnAnswer, NEW new \in Tasks, ~IsLookup(new),
         down' = Append(down, new), Waiting' = Waiting,
         UNCHANGED <<mine, got, up, closed, garbled, task, overlap>>
  PROVE  OneCall' /\ OwnAnswer'
<1>1. OwnAnswer'
  BY DEF OwnAnswer
<1>2. /\ Len(down') = Len(down) + 1 /\ Len(down) \in Nat
      /\ \A i \in 1..Len(down') : IsLookup(down'[i]) =>
           i \in 1..Len(down) /\ down'[i] = down[i]
  <2>1. down \in Seq(Tasks)
    BY DEF TypeOK
  <2> QED BY <2>1, Sent
<1>3. OneCall'
  BY <1>2 DEF OneCall
<1> QED BY <1>1, <1>3

\* The first call: nothing of an earlier one is left.
LEMMA CallKeepsCalls ==
  ASSUME TypeOK, OneCall, OwnAnswer, NEW t \in Callers, CallFunction(t)
  PROVE  OneCall' /\ OwnAnswer'
<1> DEFINE new == Task(calls + 1, "lookup", "once", TRUE)
<1>1. /\ down' = Append(down, new) /\ ~closed /\ pc[t] = "idle"
      /\ pc' = [pc EXCEPT ![t] = "waiting"]
      /\ mine' = [mine EXCEPT ![t] = calls + 1]
      /\ got' = [got EXCEPT ![t] = None]
      /\ overlap' = (overlap \/ Waiting # {})
      /\ UNCHANGED <<up, closed, garbled, task>>
  BY DEF CallFunction, Send, Go
<1>2. new \in Tasks /\ new.does = "lookup" /\ new.id = calls + 1
  <2>1. calls + 1 \in Nat
    BY DEF TypeOK
  <2> QED BY <2>1, TaskFacts
<1> HIDE DEF new
<1>3. OwnAnswer'
  BY <1>1, Distinct DEF TypeOK, OwnAnswer
<1>4. /\ Len(down') = Len(down) + 1 /\ Len(down) \in Nat
      /\ \A i \in 1..Len(down') : \/ i \in 1..Len(down) /\ down'[i] = down[i]
                                  \/ i = Len(down) + 1
      /\ down'[Len(down) + 1] = new
  <2>1. down \in Seq(Tasks)
    BY DEF TypeOK
  <2> QED BY <1>1, <1>2, <2>1, Sent
<1>5. ASSUME ~overlap'
      PROVE  OneCall'
  <2>1. ~overlap /\ Waiting = {} /\ ~garbled
    BY <1>1, <1>5 DEF OneCall, TypeOK
  <2>2. up = <<>>
    <3>1. \A i \in 1..Len(up) : FALSE
      BY <1>1, <2>1 DEF OneCall
    <3> QED BY <3>1 DEF TypeOK
  <2>3. ~IsLookup(task) /\ \A i \in 1..Len(down) : ~IsLookup(down[i])
    BY <1>1, <2>1 DEF OneCall
  <2>4. mine'[t] = calls + 1 /\ Waiting' = {t}
    BY <1>1, <2>1, Distinct DEF Waiting, TypeOK
  <2>5. \A i \in 1..Len(down') : IsLookup(down'[i]) =>
          i = Len(down) + 1 /\ down'[i].id = calls + 1
    BY <1>2, <1>4, <2>3
  <2>6. up' = <<>> /\ ~IsLookup(task') /\ ~garbled'
    BY <1>1, <2>1, <2>2, <2>3
  <2>7. ~closed' => \A u, w \in Waiting' : u = w
    BY <2>4
  <2>8. \A i \in 1..Len(up') : FALSE
    BY <2>6
  <2>9. \A i \in 1..Len(down') : IsLookup(down'[i]) =>
          /\ \E u \in Waiting' : down'[i].id = mine'[u]
          /\ \A j \in 1..Len(down') : IsLookup(down'[j]) => i = j
    BY <2>4, <2>5
  <2> QED BY <2>6, <2>7, <2>8, <2>9 DEF OneCall
<1>6. OneCall'
  <2>1. overlap' => OneCall'
    BY DEF OneCall
  <2> QED BY <1>5, <2>1
<1> QED BY <1>3, <1>6

\* An answer that is received was the only caller's own.
LEMMA ReturnKeepsCalls ==
  ASSUME TypeOK, Reading, OneCall, OwnAnswer, NEW t \in Callers, CallReturns(t)
  PROVE  OneCall' /\ OwnAnswer'
<1>1. /\ pc[t] = "body" /\ ~closed /\ ~garbled
      /\ got' = [got EXCEPT ![t] = Head(up)] /\ up' = Tail(up)
      /\ pc' = [pc EXCEPT ![t] = "idle"]
      /\ UNCHANGED <<mine, down, closed, garbled, task, overlap>>
  BY DEF CallReturns, Go, history
<1>2. up # <<>> /\ t \in Waiting
  BY <1>1 DEF Reading, Waiting
<1>3. /\ Head(up) = up[1] /\ 1 \in 1..Len(up)
      /\ Len(up') = Len(up) - 1 /\ Len(up) \in Nat
  BY <1>1, <1>2 DEF TypeOK
<1>4. ASSUME ~overlap
      PROVE  /\ up[1] = mine[t] /\ Len(up) = 1 /\ ~IsLookup(task)
             /\ \A i \in 1..Len(down) : ~IsLookup(down[i])
             /\ \A u \in Waiting : u = t
  <2>1. /\ \A u \in Waiting : u = t
        /\ \A i \in 1..Len(up) : i = 1
        /\ \E u \in Waiting : up[1] = mine[u]
        /\ ~IsLookup(task) /\ \A i \in 1..Len(down) : ~IsLookup(down[i])
    BY <1>1, <1>2, <1>3, <1>4 DEF OneCall
  <2>2. Len(up) = 1
    BY <1>3, <2>1
  <2> QED BY <2>1, <2>2
<1>5. OwnAnswer'
  BY <1>1, <1>3, <1>4 DEF OwnAnswer, TypeOK
<1>6. ASSUME ~overlap
      PROVE  Waiting' = {} /\ up' = <<>>
  <2>1. Waiting' = {}
    BY <1>1, <1>4, <1>6, Distinct DEF Waiting, TypeOK
  <2>2. Len(up) = 1 /\ up' = Tail(up) /\ up \in Seq(Nat)
    BY <1>1, <1>4, <1>6 DEF TypeOK
  <2>3. up' \in Seq(Nat) /\ Len(up') = 0
    BY <1>2, <2>2
  <2> QED BY <2>1, <2>3
<1>7. OneCall'
  BY <1>1, <1>4, <1>6 DEF OneCall
<1> QED BY <1>5, <1>7

\* The calls of the parent.
LEMMA ParentCalls ==
  ASSUME TypeOK, Reading, OneCall, OwnAnswer,
         NEW t \in Threads, Parent(t) \/ Application(t)
  PROVE  OneCall' /\ OwnAnswer'
<1> USE Distinct DEF Go, callers
<1>0. down \in Seq(Tasks) /\ calls + 1 \in Nat
  BY DEF TypeOK
<1>1. CASE t \in Callers /\ CallFunction(t)
  BY <1>1, CallKeepsCalls
<1>2. CASE t \in Callers /\ CallReturns(t)
  BY <1>2, ReturnKeepsCalls
<1>3. CASE t \in Callers /\ CallFunctionAsync(t)
  <2>1. PICK new \in Tasks : new.does # "lookup" /\ Send(new)
    <3>1. /\ Task(calls + 1, "subscribe", "once", TRUE) \in Tasks
          /\ Task(calls + 1, "subscribe", "once", TRUE).does = "subscribe"
      BY <1>0, TaskFacts
    <3>2. \A p \in Publications :
            /\ Task(calls + 1, "publish", p[1], p[2]) \in Tasks
            /\ Task(calls + 1, "publish", p[1], p[2]).does = "publish"
      BY <1>0, TaskFacts
    <3> QED BY <1>3, <3>1, <3>2 DEF CallFunctionAsync
  <2>2. /\ down' = Append(down, new) /\ ~IsLookup(new)
        /\ UNCHANGED <<pc, mine, got, up, closed, garbled, task, overlap>>
    BY <1>3, <2>1 DEF CallFunctionAsync, Send, IsLookup
  <2>3. Waiting' = Waiting
    BY <2>2 DEF Waiting
  <2> QED BY <2>2, <2>3, AsyncKeepsCalls
<1>4. CASE t \in Readers /\ Request(t)
  <2> DEFINE new == Task(calls + 1, "listen", "once", TRUE)
  <2>1. new \in Tasks /\ ~IsLookup(new)
    BY <1>0, TaskFacts DEF IsLookup
  <2>2. /\ down' = Append(down, new)
        /\ pc' = [pc EXCEPT ![t] = "return"]
        /\ UNCHANGED <<mine, got, up, closed, garbled, task, overlap>>
    BY <1>4 DEF Request
  <2> HIDE DEF new
  <2>3. Waiting' = Waiting
    BY <1>4, <2>2 DEF Waiting, TypeOK
  <2> QED BY <2>1, <2>2, <2>3, AsyncKeepsCalls
<1>5. CASE t \in Readers /\ (Drain(t) \/ Get(t) \/ Store(t) \/ ListenReturns(t) \/ ListenBegin(t))
  <2>1. UNCHANGED <<mine, got, pipe, task, overlap>>
    BY <1>5 DEF Drain, Get, Store, ListenReturns, ListenBegin, history
  <2>2. \A u \in Callers : pc'[u] = pc[u]
    BY <1>5 DEF Drain, Get, Store, ListenReturns, ListenBegin, TypeOK
  <2>3. Waiting' = Waiting
    BY <2>2 DEF Waiting
  <2> QED BY <2>1, <2>3, CallsUndisturbed
<1>6. CASE t \in Callers /\ ReceiveLength(t)
  <2>1. UNCHANGED <<mine, got, up, down, closed, task, overlap>>
    BY <1>6 DEF ReceiveLength, history
  <2>2. /\ pc[t] = "waiting" /\ pc' \in {pc, [pc EXCEPT ![t] = "body"]}
        /\ garbled' # garbled => garbled' /\ \E u \in Callers : pc[u] = "body"
        /\ ~closed
    BY <1>6 DEF ReceiveLength
  <2>3. Waiting' = Waiting
    BY <1>6, <2>2 DEF Waiting, TypeOK
  <2>4. ~overlap => garbled' = garbled
    BY <1>6, <2>2 DEF OneCall, Waiting
  <2>5. OwnAnswer'
    BY <2>1 DEF OwnAnswer
  <2>6. OneCall'
    BY <2>1, <2>3, <2>4 DEF OneCall
  <2> QED BY <2>5, <2>6
<1>7. CASE Raises(t)
  <2>1. /\ UNCHANGED <<mine, got, up, down, closed, garbled, task, overlap>>
        /\ closed \/ garbled
    BY <1>7 DEF Raises, pipe, history
  <2>2. OwnAnswer'
    BY <2>1 DEF OwnAnswer
  <2>3. OneCall'
    BY <2>1 DEF OneCall
  <2> QED BY <2>2, <2>3
<1> QED BY <1>1, <1>2, <1>3, <1>4, <1>5, <1>6, <1>7
        DEF Parent, Application, Receive, ListenOnce

\* The child takes a call from the pipe, runs it and answers it.
LEMMA ChildCalls ==
  ASSUME TypeOK, Resting, OneCall, OwnAnswer,
         Stop \/ ChildNext \/ Feed \/ MessageArrives \/ Tick
  PROVE  OneCall' /\ OwnAnswer'
<1>1. UNCHANGED <<callers, garbled, overlap>>
  BY DEF Stop, ChildNext, Boot, Poll, Run, RunLookup, RunLookupRaises,
         RunPublish, RunPublishRaises, RunSubscribe, RunListen,
         RunListenRaises, PublishDue, Feed, MessageArrives, Tick, history, pipe
<1>2. Waiting' = Waiting
  BY <1>1 DEF Waiting, callers
<1>3. OwnAnswer'
  BY <1>1 DEF OwnAnswer, callers
<1>4. CASE Stop
  BY <1>1, <1>3, <1>4 DEF Stop, OneCall
<1>5. CASE Poll /\ down # <<>>
  <2>1. /\ task = None /\ task' = Head(down) /\ down' = Tail(down)
        /\ UNCHANGED <<up, closed>>
    BY <1>5 DEF Poll, Resting
  <2>2. /\ task' = down[1] /\ 1 \in 1..Len(down) /\ Len(down) \in Nat
        /\ \A i \in 1..Len(down') : /\ i + 1 \in 1..Len(down) /\ i + 1 # 1
                                    /\ down'[i] = down[i + 1]
    <3>1. down \in Seq(Tasks)
      BY DEF TypeOK
    <3> QED BY <1>5, <2>1, <3>1, Received
  <2>3. ASSUME ~overlap, ~closed, NEW i \in 1..Len(down), IsLookup(down[i])
        PROVE  /\ up = <<>> /\ \E t \in Waiting : down[i].id = mine[t]
               /\ \A j \in 1..Len(down) : IsLookup(down[j]) => i = j
    BY <2>3 DEF OneCall
  <2>4. ASSUME ~overlap, ~closed, IsLookup(task')
        PROVE  /\ up = <<>> /\ \E t \in Waiting : task'.id = mine[t]
               /\ \A i \in 1..Len(down') : ~IsLookup(down'[i])
    BY <2>2, <2>3, <2>4
  <2>5. ASSUME ~overlap, ~closed, NEW i \in 1..Len(down'), IsLookup(down'[i])
        PROVE  /\ up = <<>> /\ \E t \in Waiting : down'[i].id = mine[t]
               /\ ~IsLookup(task')
               /\ \A j \in 1..Len(down') : IsLookup(down'[j]) => i = j
    <3>1. i + 1 \in 1..Len(down) /\ down'[i] = down[i + 1] /\ IsLookup(down[i + 1])
      BY <2>2, <2>5
    <3>2. /\ up = <<>> /\ \E t \in Waiting : down[i + 1].id = mine[t]
          /\ \A j \in 1..Len(down) : IsLookup(down[j]) => i + 1 = j
      BY <2>3, <2>5, <3>1
    <3>3. ~IsLookup(task')
      BY <2>2, <3>2, <2>5
    <3>4. \A j \in 1..Len(down') : IsLookup(down'[j]) => i = j
      <4> TAKE j \in 1..Len(down')
      <4> HAVE IsLookup(down'[j])
      <4>1. i + 1 = j + 1 /\ i \in Nat /\ j \in Nat
        BY <2>2, <3>2
      <4> QED BY <4>1
    <3> QED BY <3>1, <3>2, <3>3, <3>4
  <2>6. /\ up' = up /\ closed' = closed /\ Waiting' = Waiting /\ mine' = mine
        /\ overlap' = overlap /\ garbled' = garbled
    BY <1>1, <1>2, <2>1 DEF callers
  <2>7. ~overlap => ~garbled /\ (~closed =>
          /\ \A t, u \in Waiting : t = u
          /\ \A i \in 1..Len(up) : i = 1 /\ \E t \in Waiting : up[i] = mine[t])
    BY DEF OneCall
  <2>8. OneCall'
    BY <2>4, <2>5, <2>6, <2>7 DEF OneCall
  <2> QED BY <1>3, <2>8
<1>6. CASE RunLookup
  <2>1. /\ IsLookup(task) /\ task' = None /\ up' = Append(up, task.id)
        /\ UNCHANGED <<down, closed>>
    BY <1>6 DEF RunLookup, Running, IsLookup, TypeOK
  <2>2. ASSUME ~overlap, ~closed
        PROVE  /\ Len(up') = 1 /\ up'[1] = task.id
               /\ \A i \in 1..Len(down) : ~IsLookup(down[i])
               /\ \E t \in Waiting : task.id = mine[t]
    <3>1. /\ up = <<>> /\ \E t \in Waiting : task.id = mine[t]
          /\ \A i \in 1..Len(down) : ~IsLookup(down[i])
      BY <2>1, <2>2 DEF OneCall
    <3> QED BY <2>1, <3>1
  <2>3. OneCall'
    <3>1. ~IsLookup(task')
      BY <2>1 DEF IsLookup
    <3>2. \A i \in 1..1 : i = 1
      OBVIOUS
    <3> QED BY <1>1, <1>2, <2>1, <2>2, <3>1, <3>2 DEF OneCall, callers
  <2> QED BY <1>3, <2>3
<1>7. CASE \/ Poll /\ down = <<>>
           \/ RunLookupRaises \/ RunPublish \/ RunPublishRaises
           \/ RunSubscribe \/ RunListen \/ RunListenRaises
           \/ Boot \/ PublishDue \/ Feed \/ MessageArrives \/ Tick
  <2>1. UNCHANGED pipe /\ task' \in {task, None}
    BY <1>7 DEF Boot, Poll, RunLookupRaises, RunPublish, RunPublishRaises,
         RunSubscribe, RunListen, RunListenRaises, Running, PublishDue, Feed,
         MessageArrives, Tick, pipe
  <2> QED BY <1>1, <1>2, <2>1, CallsUndisturbed DEF callers
<1> QED BY <1>4, <1>5, <1>6, <1>7 DEF ChildNext, Run

-----------------------------------------------------------------------------
(* The order of the structures.                                            *)

\* At most one thread reads.
LEMMA OnlyReader ==
  ASSUME OneReader, NEW t \in Readers, NEW u \in Readers
  PROVE  t = u
<1>1. IsFiniteSet(Readers)
  BY ThreadsAssumption, FS_Subset DEF Threads
<1>2. SUFFICES ASSUME t # u
               PROVE  FALSE
  OBVIOUS
<1>3. IsFiniteSet({u}) /\ Cardinality({u}) = 1
  BY FS_Singleton
<1>4. Cardinality({u} \cup {t}) = 2
  BY <1>2, <1>3, FS_AddElement
<1>5. Cardinality({u} \cup {t}) <= Cardinality(Readers) /\ Cardinality(Readers) \in Nat
  <2>1. {u} \cup {t} \subseteq Readers
    OBVIOUS
  <2> QED BY <1>1, <2>1, FS_Subset, FS_CardinalityType
<1> QED BY <1>4, <1>5 DEF OneReader

\* What the versions are.
LEMMA VersionTypes ==
  ASSUME TypeOK
  PROVE  /\ Version \in Nat /\ view \in Nat /\ queue \in Seq(Nat) /\ Len(queue) \in Nat
         /\ \A i \in 1..Len(queue) : queue[i] \in Nat
         /\ queue # <<>> => Len(queue) \in 1..Len(queue) /\ 1 \in 1..Len(queue)
         /\ \A t \in Readers : /\ item[t] # None => item[t] \in Nat
                               /\ promised[t] \in Nat
BY DEF TypeOK, Version

\* A structure that is fetched was the first.
LEMMA Fetched ==
  ASSUME NEW s \in Seq(Nat), s # <<>>
  PROVE  /\ Head(s) = s[1] /\ Len(s) \in Nat /\ 1 \in 1..Len(s)
         /\ Len(Tail(s)) = Len(s) - 1
         /\ Tail(s) # <<>> => Len(Tail(s)) \in 1..Len(Tail(s))
         /\ Tail(s) = <<>> => Len(s) = 1
         /\ \A i \in 1..Len(Tail(s)) :
              i + 1 \in 1..Len(s) /\ Tail(s)[i] = s[i + 1]
<1>1. /\ Tail(s) \in Seq(Nat) /\ Len(Tail(s)) = Len(s) - 1
      /\ Head(s) = s[1] /\ Len(s) \in Nat \ {0}
      /\ \A i \in 1..Len(Tail(s)) : Tail(s)[i] = s[i + 1]
  OBVIOUS
<1>2. Tail(s) # <<>> => Len(Tail(s)) # 0
  BY <1>1
<1>3. Tail(s) = <<>> => Len(s) = 1
  <2>1. \A q \in Seq(Nat) : q = <<>> => Len(q) = 0
    OBVIOUS
  <2>2. Tail(s) = <<>> => Len(Tail(s)) = 0
    BY <1>1, <2>1, Zenon
  <2> QED BY <1>1, <2>2
<1> QED BY <1>1, <1>2, <1>3

\* A step that does not fetch, or leaves listen_once.
LEMMA OrderUndisturbed ==
  ASSUME TypeOK, InOrder, Promise, UNCHANGED <<queue, item, view, promised>>,
         Version' = Version, queue # <<>> => latest' # None,
         \A t \in Readers : \/ pc'[t] = pc[t]
                            \/ pc'[t] = "idle"
                            \/ pc[t] = "request" /\ pc'[t] = "return"
                            \/ pc[t] = "drain" /\ pc'[t] = "get"
                            \/ pc[t] = "drain" /\ pc'[t] = "request" /\ Coming(t) = view
  PROVE  InOrder' /\ Promise'
<1>1. InOrder'
  BY DEF InOrder
<1>2. \A t \in Readers : Coming(t)' = Coming(t)
  BY DEF Coming
<1>3. Promise'
  BY <1>2 DEF Promise
<1> QED BY <1>1, <1>3

\* listen_once begins: what is last in the queue is the newest.
LEMMA BeginKeepsOrder ==
  ASSUME TypeOK, Reading, InOrder, Promise, NEW t \in Readers, ListenBegin(t)
  PROVE  InOrder' /\ Promise'
<1>1. /\ pc[t] = "idle" /\ pc' = [pc EXCEPT ![t] = "drain"]
      /\ promised' = [promised EXCEPT ![t] =
                       IF queue = <<>> THEN view ELSE Newest({view, queue[Len(queue)]})]
      /\ UNCHANGED <<latest, queue, item, view>>
  BY DEF ListenBegin, Go
<1>2. InOrder'
  BY <1>1 DEF InOrder, Version
<1>3. ASSUME OneReader, NEW u \in Readers
      PROVE  pc'[u] = "drain" /\ promised'[u] <= Coming(u)'
  <2>1. u = t
    BY <1>3, OnlyReader
  <2>2. pc'[t] = "drain" /\ item[t] = None
    BY <1>1, Distinct DEF TypeOK, Reading
  <2>3. CASE queue = <<>>
    <3>1. promised'[t] = view
      BY <1>1, <2>3 DEF TypeOK
    <3> QED BY <1>1, <2>1, <2>2, <2>3, <3>1, VersionTypes DEF Coming
  <2>4. CASE queue # <<>>
    <3> DEFINE last == queue[Len(queue)]
    <3>1. promised'[t] = Newest({view, last})
      BY <1>1, <2>4 DEF TypeOK
    <3>2. view \in Nat /\ last \in Nat /\ view <= last
      BY <1>3, <2>4, VersionTypes DEF InOrder
    <3>3. Coming(u)' = last
      BY <1>1, <2>4 DEF Coming
    <3> HIDE DEF last
    <3>4. Newest({view, last}) \in {view, last}
      BY <3>2, NewestFacts
    <3> QED BY <2>1, <2>2, <3>1, <3>2, <3>3, <3>4
  <2> QED BY <2>3, <2>4
<1>4. OneReader' = OneReader
  BY DEF OneReader
<1> QED BY <1>2, <1>3, <1>4 DEF Promise

\* The reader fetches the first structure.
LEMMA GetKeepsOrder ==
  ASSUME TypeOK, Reading, InOrder, Promise, NEW t \in Readers, Get(t)
  PROVE  InOrder' /\ Promise'
<1>1. /\ pc[t] = "get" /\ queue # <<>> /\ pc' = [pc EXCEPT ![t] = "store"]
      /\ item' = [item EXCEPT ![t] = Head(queue)] /\ queue' = Tail(queue)
      /\ UNCHANGED <<latest, view, promised>>
  BY DEF Get, Go
<1>2. /\ Head(queue) = queue[1] /\ Len(queue) \in Nat /\ 1 \in 1..Len(queue)
      /\ Len(queue') = Len(queue) - 1
      /\ queue' # <<>> => Len(queue') \in 1..Len(queue')
      /\ queue' = <<>> => Len(queue) = 1
      /\ \A i \in 1..Len(queue') : i + 1 \in 1..Len(queue) /\ queue'[i] = queue[i + 1]
  BY <1>1, VersionTypes, Fetched
<1>3. Version' = Version
  BY <1>1 DEF Version
<1>4. /\ queue' # <<>> => latest' # None
      /\ \A i, j \in 1..Len(queue') : i <= j => queue'[i] <= queue'[j]
      /\ \A i \in 1..Len(queue') : queue'[i] <= Version /\ queue[1] <= queue'[i]
  BY <1>1, <1>2 DEF InOrder
<1>5. ASSUME OneReader, NEW u \in Readers
      PROVE  /\ view <= Version /\ \A i \in 1..Len(queue') : view <= queue'[i]
             /\ item'[u] = queue[1] /\ view <= item'[u] /\ item'[u] <= Version
             /\ promised'[u] <= Coming(u)' /\ pc'[u] = "store"
  <2>1. u = t /\ item'[t] = queue[1] /\ pc'[t] = "store"
    BY <1>1, <1>2, <1>5, OnlyReader, Distinct DEF TypeOK
  <2>2. /\ view <= Version /\ \A i \in 1..Len(queue') : view <= queue'[i]
        /\ view <= queue[1] /\ queue[1] <= Version
    BY <1>2, <1>5 DEF InOrder
  <2>3. promised[t] <= queue[Len(queue)]
    BY <1>1, <1>5 DEF Promise, Coming
  <2>4. Coming(t)' = queue[Len(queue)]
    <3>1. CASE queue' # <<>>
      <4>1. queue'[Len(queue')] = queue[Len(queue') + 1] /\ Len(queue') + 1 = Len(queue)
        BY <1>2, <3>1
      <4> QED BY <3>1, <4>1 DEF Coming
    <3>2. CASE queue' = <<>>
      <4>1. queue[Len(queue)] = queue[1] /\ queue[1] \in Nat
        BY <1>1, <1>2, <3>2, VersionTypes
      <4> QED BY <2>1, <3>2, <4>1, Distinct DEF Coming
    <3> QED BY <3>1, <3>2
  <2> QED BY <1>1, <2>1, <2>2, <2>3, <2>4
<1>6. OneReader' = OneReader
  BY DEF OneReader
<1>7. InOrder'
  BY <1>1, <1>3, <1>4, <1>5, <1>6 DEF InOrder
<1>8. Promise'
  BY <1>5, <1>6 DEF Promise
<1> QED BY <1>7, <1>8

\* And stores it.
LEMMA StoreKeepsOrder ==
  ASSUME TypeOK, Reading, InOrder, Promise, NEW t \in Readers, Store(t)
  PROVE  InOrder' /\ Promise'
<1>1. /\ pc[t] = "store" /\ pc' = [pc EXCEPT ![t] = "drain"]
      /\ item[t] # None /\ view' = item[t] /\ item' = [item EXCEPT ![t] = None]
      /\ UNCHANGED <<latest, queue, promised>>
  BY DEF Store, Go, TypeOK
<1>2. Version' = Version
  BY <1>1 DEF Version
<1>3. ASSUME OneReader, NEW u \in Readers
      PROVE  /\ item'[u] = None
             /\ view' <= Version /\ \A i \in 1..Len(queue) : view' <= queue[i]
             /\ promised'[u] <= Coming(u)' /\ pc'[u] = "drain"
  <2>1. u = t /\ item'[t] = None /\ pc'[t] = "drain"
    BY <1>1, <1>3, OnlyReader, Distinct DEF TypeOK
  <2>2. view' <= Version /\ \A i \in 1..Len(queue) : view' <= queue[i]
    BY <1>1, <1>3 DEF InOrder
  <2>3. promised[t] <= Coming(t) /\ Coming(t)' = Coming(t)
    BY <1>1, <1>3, <2>1 DEF Promise, Coming
  <2> QED BY <1>1, <2>1, <2>2, <2>3
<1>4. OneReader' = OneReader
  BY DEF OneReader
<1>5. InOrder'
  BY <1>1, <1>2, <1>3, <1>4 DEF InOrder
<1>6. Promise'
  BY <1>3, <1>4 DEF Promise
<1> QED BY <1>5, <1>6

\* The parent reads in order.
LEMMA ParentOrder ==
  ASSUME TypeOK, Reading, InOrder, Promise,
         NEW t \in Threads, Parent(t) \/ Application(t)
  PROVE  InOrder' /\ Promise'
<1> USE Distinct DEF Go, fetched
<1>1. CASE t \in Readers /\ ListenBegin(t)
  BY <1>1, BeginKeepsOrder
<1>2. CASE t \in Readers /\ Get(t)
  BY <1>2, GetKeepsOrder
<1>3. CASE t \in Readers /\ Store(t)
  BY <1>3, StoreKeepsOrder
<1>4. CASE \/ t \in Callers /\ (Receive(t) \/ CallFunction(t) \/ CallFunctionAsync(t))
           \/ t \in Readers /\ (Drain(t) \/ Request(t) \/ ListenReturns(t))
           \/ Raises(t)
  <2>1. UNCHANGED <<latest, queue, item, view, promised>>
    BY <1>4 DEF Receive, ReceiveLength, CallReturns, CallFunction,
                CallFunctionAsync, Drain, Request, ListenReturns, Raises
  <2>2. Version' = Version /\ (queue # <<>> => latest' # None)
    BY <2>1 DEF Version, InOrder
  <2>3. ASSUME NEW u \in Readers
        PROVE  \/ pc'[u] = pc[u]
               \/ pc'[u] = "idle"
               \/ pc[u] = "request" /\ pc'[u] = "return"
               \/ pc[u] = "drain" /\ pc'[u] = "get"
               \/ pc[u] = "drain" /\ pc'[u] = "request" /\ Coming(u) = view
    <3>1. CASE t \in Callers /\ (Receive(t) \/ CallFunction(t) \/ CallFunctionAsync(t))
      BY <3>1 DEF Receive, ReceiveLength, CallReturns, CallFunction,
                  CallFunctionAsync, callers, TypeOK
    <3>2. CASE t \in Readers /\ Drain(t)
      <4>1. /\ pc[t] = "drain"
            /\ pc' = [pc EXCEPT ![t] = IF QSize > 0 THEN "get" ELSE "request"]
        BY <3>2 DEF Drain
      <4>2. ~(QSize > 0) => queue = <<>>
        BY DEF QSize, TypeOK
      <4>3. item[t] = None
        BY <3>2, <4>1 DEF Reading
      <4>4. ~(QSize > 0) => Coming(t) = view
        BY <4>2, <4>3 DEF Coming
      <4>5. u # t => pc'[u] = pc[u]
        BY <4>1 DEF TypeOK
      <4>6. pc'[t] = IF QSize > 0 THEN "get" ELSE "request"
        BY <4>1 DEF TypeOK
      <4> QED BY <4>1, <4>4, <4>5, <4>6
    <3>3. CASE \/ t \in Readers /\ (Request(t) \/ ListenReturns(t))
               \/ Raises(t)
      BY <3>3 DEF Request, ListenReturns, Raises, TypeOK
    <3> QED BY <1>4, <3>1, <3>2, <3>3
  <2> QED BY <2>1, <2>2, <2>3, OrderUndisturbed
<1> QED BY <1>1, <1>2, <1>3, <1>4 DEF Parent, Application, ListenOnce

\* What the child receives, and what its queue serializes, is newer.
LEMMA ChildOrder ==
  ASSUME TypeOK, InOrder, Promise,
         Stop \/ ChildNext \/ Feed \/ MessageArrives \/ Tick
  PROVE  InOrder' /\ Promise'
<1>0. OneReader' = OneReader
  BY DEF OneReader
<1>1. CASE Feed
  <2>1. /\ latest # None /\ latest = Version /\ queue' = Append(queue, Version)
        /\ UNCHANGED <<pc, latest, item, view, promised>>
    BY <1>1 DEF Feed, TypeOK, Version, callers
  <2>2. /\ Len(queue') = Len(queue) + 1 /\ Len(queue) \in Nat /\ queue' # <<>>
        /\ \A i \in 1..Len(queue) : queue'[i] = queue[i]
        /\ queue'[Len(queue) + 1] = Version
        /\ \A i \in 1..Len(queue') : i \in 1..Len(queue) \/ i = Len(queue) + 1
    BY <2>1, VersionTypes
  <2>3. Version' = Version /\ Version \in Nat
    BY <2>1, VersionTypes DEF Version
  <2>4. \A i \in 1..Len(queue') : queue'[i] <= Version
    BY <2>2, <2>3 DEF InOrder
  <2>5. \A i, j \in 1..Len(queue') : i <= j => queue'[i] <= queue'[j]
    <3> TAKE i, j \in 1..Len(queue')
    <3> HAVE i <= j
    <3>1. CASE j \in 1..Len(queue)
      BY <2>2, <3>1 DEF InOrder
    <3>2. CASE j = Len(queue) + 1
      BY <2>2, <2>4, <3>2
    <3> QED BY <2>2, <3>1, <3>2
  <2>6. ASSUME OneReader
        PROVE  /\ view <= Version /\ \A i \in 1..Len(queue') : view <= queue'[i]
               /\ \A t \in Readers : item[t] # None =>
                    /\ view <= item[t] /\ item[t] <= Version
                    /\ \A i \in 1..Len(queue') : item[t] <= queue'[i]
    BY <2>2, <2>6 DEF InOrder
  <2>7. InOrder'
    BY <1>0, <2>1, <2>3, <2>4, <2>5, <2>6 DEF InOrder
  <2>8. ASSUME OneReader, NEW t \in Readers
        PROVE  promised[t] <= Coming(t) => promised[t] <= Version
    <3>1. Coming(t) \in Nat /\ Coming(t) <= Version
      BY <2>8, VersionTypes DEF Coming, InOrder
    <3> QED BY <2>3, <3>1, VersionTypes
  <2>9. \A t \in Readers : Coming(t)' = Version
    BY <2>2 DEF Coming
  <2>10. Promise'
    BY <1>0, <2>1, <2>8, <2>9 DEF Promise
  <2> QED BY <2>7, <2>10
<1>2. CASE MessageArrives
  <2>1. /\ latest # None /\ latest' = latest + 1 /\ latest \in Nat
        /\ UNCHANGED <<pc, queue, item, view, promised>>
    BY <1>2 DEF MessageArrives, callers, TypeOK
  <2>2. /\ Version \in Nat /\ Version' = Version + 1 /\ latest' # None
    BY <2>1, Distinct DEF Version
  <2>3. \A x \in Nat : x <= Version => x <= Version'
    BY <2>2
  <2>4. InOrder'
    BY <1>0, <2>1, <2>2, <2>3, VersionTypes DEF InOrder
  <2>5. \A t \in Readers : Coming(t)' = Coming(t)
    BY <2>1 DEF Coming
  <2>6. Promise'
    BY <1>0, <2>1, <2>5 DEF Promise
  <2> QED BY <2>4, <2>6
<1>3. CASE ~Feed /\ ~MessageArrives
  <2>1. UNCHANGED <<pc, queue, item, view, promised>>
    BY <1>3 DEF Stop, ChildNext, Boot, Poll, Run, RunLookup, RunLookupRaises,
         RunPublish, RunPublishRaises, RunSubscribe, RunListen,
         RunListenRaises, PublishDue, Tick, callers, fetched
  <2>2. Version' = Version /\ (queue # <<>> => latest' # None)
    <3>1. CASE RunSubscribe \/ RunListen
      <4>1. latest' = Version
        BY <3>1 DEF RunSubscribe, RunListen, Subscribed, Version
      <4> QED BY <4>1, VersionTypes, Distinct DEF Version
    <3>2. CASE RunListenRaises
      <4>1. latest = None /\ latest' \in {None, 0}
        BY <3>2 DEF RunListenRaises
      <4> QED BY <4>1, Distinct DEF Version, InOrder
    <3>3. CASE ~(RunSubscribe \/ RunListen \/ RunListenRaises)
      <4>1. latest' = latest
        BY <1>3, <3>3 DEF Stop, ChildNext, Boot, Poll, Run, RunLookup,
             RunLookupRaises, RunPublish, RunPublishRaises, PublishDue, Tick, fetched
      <4> QED BY <4>1 DEF Version, InOrder
    <3> QED BY <3>1, <3>2, <3>3
  <2> QED BY <2>1, <2>2, OrderUndisturbed
<1> QED BY <1>1, <1>2, <1>3

-----------------------------------------------------------------------------
(* The account of the calls.                                               *)

\* Each call that is sent is one more,
LEMMA LookupsSent ==
  ASSUME NEW s \in Seq(Tasks), NEW new \in Tasks
  PROVE  /\ Cardinality(Lookups(s)) \in Nat
         /\ Cardinality(Lookups(Append(s, new))) =
              Cardinality(Lookups(s)) + (IF new.does = "lookup" THEN 1 ELSE 0)
<1>1. IsFiniteSet(1..Len(s)) /\ Lookups(s) \subseteq 1..Len(s)
  <2>1. 1 \in Int /\ Len(s) \in Int
    OBVIOUS
  <2> QED BY <2>1, FS_Interval DEF Lookups
<1>2. IsFiniteSet(Lookups(s)) /\ Cardinality(Lookups(s)) \in Nat
  BY <1>1, FS_Subset, FS_CardinalityType
<1>3. Len(s) + 1 \notin Lookups(s)
  BY <1>1
<1>4. CASE new.does = "lookup"
  <2>1. Lookups(Append(s, new)) = Lookups(s) \cup {Len(s) + 1}
    BY <1>4, Sent DEF Lookups
  <2> QED BY <1>2, <1>3, <1>4, <2>1, FS_AddElement
<1>5. CASE new.does # "lookup"
  <2>1. Lookups(Append(s, new)) = Lookups(s)
    BY <1>5, Sent DEF Lookups
  <2> QED BY <1>2, <1>5, <2>1
<1> QED BY <1>2, <1>4, <1>5

\* and each that is received one less.
LEMMA LookupsReceived ==
  ASSUME NEW s \in Seq(Tasks), s # <<>>
  PROVE  /\ Cardinality(Lookups(Tail(s))) \in Nat
         /\ Cardinality(Lookups(s)) =
              Cardinality(Lookups(Tail(s))) + (IF Head(s).does = "lookup" THEN 1 ELSE 0)
<1> DEFINE rest == Lookups(Tail(s))
           later == Lookups(s) \ {1}
           f == [i \in rest |-> i + 1]
<1>1. Tail(s) \in Seq(Tasks) /\ Len(Tail(s)) \in Int /\ Len(s) \in Int
  BY Received
<1>2. IsFiniteSet(rest) /\ Cardinality(rest) \in Nat
  <2>1. rest \subseteq 1..Len(Tail(s)) /\ IsFiniteSet(1..Len(Tail(s)))
    BY <1>1, FS_Interval DEF Lookups
  <2> QED BY <2>1, FS_Subset, FS_CardinalityType
<1>3. IsFiniteSet(Lookups(s))
  <2>1. Lookups(s) \subseteq 1..Len(s) /\ IsFiniteSet(1..Len(s))
    BY <1>1, FS_Interval DEF Lookups
  <2> QED BY <2>1, FS_Subset
<1>4. Cardinality(rest) = Cardinality(later)
  <2>1. \A i \in rest : i \in Int /\ f[i] = i + 1 /\ f[i] \in later
    BY Received DEF Lookups
  <2>2. \A i, j \in rest : f[i] = f[j] => i = j
    BY <2>1
  <2>3. \A j \in later : \E i \in rest : f[i] = j
    <3> TAKE j \in later
    <3>1. /\ j \in 1..Len(s) /\ j # 1 /\ s[j].does = "lookup"
      BY DEF Lookups
    <3>2. j - 1 \in 1..Len(Tail(s)) /\ Tail(s)[j - 1] = s[(j - 1) + 1] /\ (j - 1) + 1 = j
      BY <3>1, Received
    <3>3. j - 1 \in rest
      BY <3>1, <3>2 DEF Lookups
    <3> QED BY <2>1, <3>2, <3>3
  <2>4. f \in Bijection(rest, later)
    <3>1. f \in [rest -> later]
      BY <2>1
    <3>2. f \in Injection(rest, later)
      BY <2>2, <3>1, Fun_IsInj
    <3>3. f \in Surjection(rest, later)
      BY <2>3, <3>1, Fun_IsSurj
    <3> QED BY <3>2, <3>3, Fun_IsBij
  <2>5. ExistsBijection(rest, later)
    BY <2>4 DEF ExistsBijection
  <2> QED BY <1>2, <2>5, FS_Bijection
<1>5. CASE Head(s).does = "lookup"
  <2>1. 1 \in Lookups(s)
    BY <1>5, Received DEF Lookups
  <2>2. Cardinality(later) = Cardinality(Lookups(s)) - 1 /\ Cardinality(Lookups(s)) \in Nat
    BY <1>3, <2>1, FS_RemoveElement, FS_CardinalityType
  <2>3. Cardinality(Lookups(s)) = Cardinality(rest) + 1
    <3> HIDE DEF rest, later, f
    <3> QED BY <1>4, <2>2
  <2> QED BY <1>2, <1>5, <2>3
<1>6. CASE Head(s).does # "lookup"
  <2>1. later = Lookups(s)
    BY <1>6, Received DEF Lookups
  <2>2. Cardinality(Lookups(s)) = Cardinality(rest)
    <3> HIDE DEF rest, later, f
    <3> QED BY <1>4, <2>1
  <2>3. Cardinality(rest) = Cardinality(rest) + 0
    BY <1>2
  <2> QED BY <1>2, <1>6, <2>2, <2>3
<1> QED BY <1>2, <1>5, <1>6

\* The terms of the sum are numbers.
LEMMA AccountTypes ==
  ASSUME TypeOK
  PROVE  /\ IsFiniteSet(Waiting) /\ Cardinality(Waiting) \in Nat
         /\ Cardinality(Lookups(down)) \in Nat
         /\ Asked \in Nat /\ Len(up) \in Nat /\ lost \in Nat /\ down \in Seq(Tasks)
<1>1. Waiting \subseteq Threads
  BY DEF Waiting, Threads
<1>2. IsFiniteSet(Waiting) /\ Cardinality(Waiting) \in Nat
  BY <1>1, ThreadsAssumption, FS_Subset, FS_CardinalityType
<1>3. down \in Seq(Tasks) /\ up \in Seq(Nat) /\ lost \in Nat
  BY DEF TypeOK
<1>4. Task(0, "subscribe", "once", TRUE) \in Tasks
  BY TaskFacts
<1>5. Cardinality(Lookups(down)) \in Nat
  BY <1>3, <1>4, LookupsSent
<1> QED BY <1>2, <1>3, <1>5 DEF Asked

\* A step that no account shows.
LEMMA AccountUndisturbed ==
  ASSUME Balanced, Waiting' = Waiting, Lookups(down)' = Lookups(down),
         closed' \/ garbled' \/ UNCHANGED <<closed, garbled>>,
         Asked' = Asked, UNCHANGED <<up, lost>>
  PROVE  Balanced'
BY DEF Balanced

\* A call is counted when it is sent, until it is answered.
LEMMA ParentAccounts ==
  ASSUME TypeOK, Reading, Balanced,
         NEW t \in Threads, Parent(t) \/ Application(t)
  PROVE  Balanced'
<1> USE Distinct DEF Go, callers
<1>0. calls + 1 \in Nat
  BY DEF TypeOK
<1>1. CASE t \in Callers /\ CallFunction(t)
  <2> DEFINE new == Task(calls + 1, "lookup", "once", TRUE)
  <2>1. /\ down' = Append(down, new) /\ pc[t] = "idle"
        /\ pc' = [pc EXCEPT ![t] = "waiting"]
        /\ UNCHANGED <<up, closed, garbled, task, lost>>
    BY <1>1 DEF CallFunction, Send
  <2>2. new \in Tasks /\ new.does = "lookup"
    BY <1>0, TaskFacts
  <2> HIDE DEF new
  <2>3. Cardinality(Lookups(down')) = Cardinality(Lookups(down)) + 1
    BY <2>1, <2>2, AccountTypes, LookupsSent
  <2>4. Waiting' = Waiting \cup {t} /\ t \notin Waiting
    BY <1>1, <2>1 DEF Waiting, TypeOK
  <2>5. Cardinality(Waiting') = Cardinality(Waiting) + 1
    BY <2>4, AccountTypes, FS_AddElement
  <2>6. Asked' = Asked
    BY <2>1 DEF Asked
  <2> QED BY <2>1, <2>3, <2>5, <2>6, AccountTypes DEF Balanced
<1>2. CASE t \in Callers /\ CallReturns(t)
  <2>1. /\ pc[t] = "body" /\ ~closed /\ ~garbled /\ up' = Tail(up)
        /\ pc' = [pc EXCEPT ![t] = "idle"]
        /\ UNCHANGED <<down, closed, garbled, task, lost>>
    BY <1>2 DEF CallReturns, history
  <2>2. up # <<>>
    BY <1>2, <2>1 DEF Reading
  <2>3. Len(up') = Len(up) - 1
    BY <2>1, <2>2, Fetched DEF TypeOK
  <2>4. Waiting' = Waiting \ {t} /\ t \in Waiting
    BY <1>2, <2>1 DEF Waiting, TypeOK
  <2>5. Cardinality(Waiting') = Cardinality(Waiting) - 1
    BY <2>4, AccountTypes, FS_RemoveElement
  <2>6. Asked' = Asked /\ Lookups(down)' = Lookups(down)
    BY <2>1 DEF Asked
  <2>7. Cardinality(Waiting) = Cardinality(Lookups(down)) + Asked + Len(up) + lost
    BY <2>1 DEF Balanced
  <2>8. Cardinality(Waiting') = Cardinality(Lookups(down)') + Asked' + Len(up') + lost'
    <3>1. PICK a, b, d, e, g : /\ a = Cardinality(Waiting) /\ b = Cardinality(Lookups(down))
                               /\ d = Asked /\ e = Len(up) /\ g = lost
      OBVIOUS
    <3>2. a \in Nat /\ b \in Nat /\ d \in Nat /\ e \in Nat /\ g \in Nat
      BY <3>1, AccountTypes
    <3>3. a = b + d + e + g
      BY <2>7, <3>1
    <3>4. a - 1 = b + d + (e - 1) + g
      BY <3>2, <3>3
    <3> QED BY <2>1, <2>3, <2>5, <2>6, <3>1, <3>4
  <2> QED BY <2>8 DEF Balanced
<1>3. CASE \/ t \in Callers /\ CallFunctionAsync(t)
           \/ t \in Readers /\ Request(t)
  <2>1. PICK new \in Tasks : new.does # "lookup" /\ down' = Append(down, new)
    <3>1. /\ Task(calls + 1, "subscribe", "once", TRUE) \in Tasks
          /\ Task(calls + 1, "subscribe", "once", TRUE).does = "subscribe"
          /\ Task(calls + 1, "listen", "once", TRUE) \in Tasks
          /\ Task(calls + 1, "listen", "once", TRUE).does = "listen"
      BY <1>0, TaskFacts
    <3>2. \A p \in Publications :
            /\ Task(calls + 1, "publish", p[1], p[2]) \in Tasks
            /\ Task(calls + 1, "publish", p[1], p[2]).does = "publish"
      BY <1>0, TaskFacts
    <3> QED BY <1>3, <3>1, <3>2 DEF CallFunctionAsync, Send, Request
  <2>2. Lookups(down)' = Lookups(down)
    BY <2>1, AccountTypes, Sent DEF Lookups
  <2>3. UNCHANGED <<up, closed, garbled, task, lost>>
    BY <1>3 DEF CallFunctionAsync, Send, Request
  <2>4. \A u \in Callers : pc'[u] = pc[u]
    BY <1>3 DEF CallFunctionAsync, Send, Request, TypeOK
  <2>5. Waiting' = Waiting /\ Asked' = Asked
    BY <2>3, <2>4 DEF Waiting, Asked
  <2> QED BY <2>2, <2>3, <2>5, AccountUndisturbed
<1>4. CASE t \in Callers /\ ReceiveLength(t)
  <2>1. /\ UNCHANGED <<up, down, closed, task, lost>> /\ pc[t] = "waiting"
        /\ garbled' \/ (garbled' = garbled /\ pc' = [pc EXCEPT ![t] = "body"])
    BY <1>4 DEF ReceiveLength, history
  <2>2. ~garbled' => Waiting' = Waiting /\ garbled' = garbled
    BY <1>4, <2>1 DEF Waiting, TypeOK
  <2>3. Asked' = Asked /\ Lookups(down)' = Lookups(down)
    BY <2>1 DEF Asked
  <2> QED BY <2>1, <2>2, <2>3 DEF Balanced
<1>5. CASE t \in Readers /\ (Drain(t) \/ Get(t) \/ Store(t) \/ ListenReturns(t) \/ ListenBegin(t))
  <2>1. UNCHANGED <<up, down, closed, garbled, task, lost>>
    BY <1>5 DEF Drain, Get, Store, ListenReturns, ListenBegin, history, pipe
  <2>2. \A u \in Callers : pc'[u] = pc[u]
    BY <1>5 DEF Drain, Get, Store, ListenReturns, ListenBegin, TypeOK
  <2>3. Waiting' = Waiting /\ Asked' = Asked /\ Lookups(down)' = Lookups(down)
    BY <2>1, <2>2 DEF Waiting, Asked
  <2> QED BY <2>1, <2>3, AccountUndisturbed
<1>6. CASE Raises(t)
  BY <1>6 DEF Balanced, Raises, pipe
<1> QED BY <1>1, <1>2, <1>3, <1>4, <1>5, <1>6
        DEF Parent, Application, Receive, ListenOnce

\* In the child it is received, and answered or lost.
LEMMA ChildAccounts ==
  ASSUME TypeOK, Resting, Balanced,
         Stop \/ ChildNext \/ Feed \/ MessageArrives \/ Tick
  PROVE  Balanced'
<1>1. UNCHANGED <<callers, garbled>>
  BY DEF Stop, ChildNext, Boot, Poll, Run, RunLookup, RunLookupRaises,
         RunPublish, RunPublishRaises, RunSubscribe, RunListen,
         RunListenRaises, PublishDue, Feed, MessageArrives, Tick, pipe
<1>2. Waiting' = Waiting
  BY <1>1 DEF Waiting, callers
<1>3. CASE Stop
  BY <1>3 DEF Balanced, Stop
<1>4. CASE Poll /\ down # <<>>
  <2>1. /\ task = None /\ task' = Head(down) /\ down' = Tail(down)
        /\ UNCHANGED <<up, closed, lost>>
    BY <1>4 DEF Poll, Resting, history
  <2>2. /\ Cardinality(Lookups(down')) \in Nat
        /\ Cardinality(Lookups(down)) =
             Cardinality(Lookups(down')) + (IF Head(down).does = "lookup" THEN 1 ELSE 0)
    BY <1>4, <2>1, AccountTypes, LookupsReceived
  <2>3. Asked = 0 /\ Asked' = IF Head(down).does = "lookup" THEN 1 ELSE 0
    <3>1. Head(down) # None
      BY <1>4, AccountTypes, Received, Distinct
    <3> QED BY <2>1, <3>1 DEF Asked, IsLookup
  <2> QED BY <1>1, <1>2, <2>1, <2>2, <2>3, AccountTypes DEF Balanced
<1>5. CASE RunLookup
  <2>1. /\ IsLookup(task) /\ task' = None /\ up' = Append(up, task.id)
        /\ UNCHANGED <<down, closed, lost>>
    BY <1>5 DEF RunLookup, Running, IsLookup, TypeOK, history
  <2>2. Asked = 1 /\ Asked' = 0 /\ Len(up') = Len(up) + 1 /\ Lookups(down)' = Lookups(down)
    BY <2>1 DEF Asked, IsLookup, TypeOK
  <2> QED BY <1>1, <1>2, <2>1, <2>2, AccountTypes DEF Balanced
<1>6. CASE RunLookupRaises
  <2>1. /\ IsLookup(task) /\ task' = None /\ lost' = lost + 1
        /\ UNCHANGED <<up, down, closed>>
    BY <1>6 DEF RunLookupRaises, Running, IsLookup, TypeOK, pipe
  <2>2. Asked = 1 /\ Asked' = 0 /\ Lookups(down)' = Lookups(down)
    BY <2>1 DEF Asked, IsLookup
  <2> QED BY <1>1, <1>2, <2>1, <2>2, AccountTypes DEF Balanced
<1>7. CASE \/ RunPublish \/ RunPublishRaises
           \/ RunSubscribe \/ RunListen \/ RunListenRaises
  <2>1. /\ ~IsLookup(task) /\ ~IsLookup(task')
        /\ UNCHANGED <<up, down, closed, garbled, lost>>
    BY <1>7 DEF RunPublish, RunPublishRaises, RunSubscribe, RunListen,
                RunListenRaises, Running, IsLookup, pipe, history
  <2>2. Asked' = Asked /\ Lookups(down)' = Lookups(down)
    BY <2>1 DEF Asked
  <2> QED BY <1>2, <2>1, <2>2, AccountUndisturbed
<1>8. CASE \/ Poll /\ down = <<>>
           \/ Boot \/ PublishDue \/ Feed \/ MessageArrives \/ Tick
  <2>1. UNCHANGED <<up, down, closed, garbled, lost, task>>
    BY <1>8 DEF Poll, Boot, PublishDue, Feed, MessageArrives, Tick, pipe, history
  <2>2. Asked' = Asked /\ Lookups(down)' = Lookups(down)
    BY <2>1 DEF Asked
  <2> QED BY <1>2, <2>1, <2>2, AccountUndisturbed
<1> QED BY <1>3, <1>4, <1>5, <1>6, <1>7, <1>8 DEF ChildNext, Run

-----------------------------------------------------------------------------

\* At the start there is nothing to account for.
LEMMA Initially == Init => Inv
<1> SUFFICES ASSUME Init PROVE Inv
  OBVIOUS
<1> USE Distinct DEF Init
<1>1. TypeOK
  <2>1. /\ pc \in [Threads -> {"idle"}] /\ \A t \in Threads : pc[t] = "idle"
        /\ \A t \in Readers : item[t] = None
    OBVIOUS
  <2>2. \A t \in Readers : pc[t] # "store"
    BY <2>1
  <2>3. down \in Seq(Tasks) /\ up \in Seq(Nat) /\ queue \in Seq(Nat)
    OBVIOUS
  <2>4. publisher \in Rates \cup {"none"} /\ latest \in Nat \cup {None} /\ 0 \in Nat
    BY DEF Rates
  <2>5. /\ mine \in [Callers -> Nat \cup {None}] /\ got \in [Callers -> Nat \cup {None}]
        /\ item \in [Readers -> Nat \cup {None}] /\ promised \in [Readers -> Nat]
    OBVIOUS
  <2>6. /\ pc \in [Threads -> {"idle", "waiting", "body", "drain", "get", "store",
                               "request", "return"}]
        /\ \A t \in Callers : pc[t] \in {"idle", "waiting", "body"}
        /\ \A t \in Readers : pc[t] \notin {"waiting", "body"}
    BY <2>1
  <2>7. /\ closed \in BOOLEAN /\ garbled \in BOOLEAN /\ overlap \in BOOLEAN
        /\ encodable \in BOOLEAN /\ due \in BOOLEAN
        /\ child \in {"boot", "poll", "run", "publish", "dead", "unborn"} /\ child # "run"
        /\ task \in Tasks \cup {None}
    OBVIOUS
  <2>8. /\ buffer \in Nat /\ ~(buffer > 0) /\ view \in Nat
        /\ calls \in Nat /\ failures \in Nat /\ lost \in Nat
    OBVIOUS
  <2> HIDE DEF Init
  <2> QED BY <2>2, <2>3, <2>4, <2>5, <2>6, <2>7, <2>8 DEF TypeOK
<1>2. Waiting = {} /\ ~IsLookup(task)
  BY DEF Waiting, IsLookup
<1>3. Resting /\ Reading /\ OwnAnswer /\ OnlyBrokenTopicsKill
  BY DEF Resting, Reading, OwnAnswer, OnlyBrokenTopicsKill
<1>4. Len(<<>>) = 0 /\ \A i \in 1..0 : FALSE
  OBVIOUS
<1>5. OneCall
  BY <1>2, <1>4 DEF OneCall
<1>6. InOrder /\ Promise
  BY <1>4 DEF InOrder, Promise, Version
<1>7. Balanced
  <2>1. Lookups(down) = {}
    BY <1>4 DEF Lookups
  <2>2. Cardinality({}) = 0
    BY FS_EmptySet
  <2>3. Asked = 0 /\ Len(up) = 0 /\ lost = 0
    BY <1>2, <1>4 DEF Asked
  <2>4. Cardinality(Waiting) = 0 /\ Cardinality(Lookups(down)) = 0
    BY <1>2, <2>1, <2>2
  <2> HIDE DEF Init
  <2> QED BY <2>3, <2>4 DEF Balanced
<1> QED BY <1>1, <1>3, <1>5, <1>6, <1>7 DEF Inv

\* Every step keeps the invariant.
LEMMA Inductive == Inv /\ [Next]_vars => Inv'
<1> SUFFICES ASSUME Inv, [Next]_vars PROVE Inv'
  OBVIOUS
<1>1. ASSUME NEW t \in Threads, Parent(t) \/ Application(t)
      PROVE  Inv'
  BY <1>1, ParentType, ParentKeeps, ParentCalls, ParentOrder, ParentAccounts DEF Inv
<1>2. ASSUME Stop \/ ChildNext \/ Feed \/ MessageArrives \/ Tick
      PROVE  Inv'
  BY <1>2, ChildType, ChildKeeps, ChildCalls, ChildOrder, ChildAccounts DEF Inv
<1>3. CASE UNCHANGED vars
  <2>1. /\ UNCHANGED <<pc, mine, got, down, up, closed, garbled, child, task>>
        /\ UNCHANGED <<publisher, encodable, due, latest, buffer, queue, item>>
        /\ UNCHANGED <<view, promised, calls, failures, lost, overlap>>
    BY <1>3 DEF vars, callers, pipe, topic, fetched, history
  <2>2. TypeOK' /\ Resting' /\ Reading' /\ OnlyBrokenTopicsKill'
    BY <2>1 DEF Inv, TypeOK, Resting, Reading, OnlyBrokenTopicsKill
  <2>3. Waiting' = Waiting
    BY <2>1 DEF Waiting
  <2>4. OneCall' /\ OwnAnswer'
    BY <2>1, <2>3, CallsUndisturbed DEF Inv, pipe
  <2>5. InOrder' /\ Promise'
    BY <2>1, OrderUndisturbed DEF Inv, Version, InOrder
  <2>6. Balanced'
    BY <2>1, <2>3, AccountUndisturbed DEF Inv, Asked
  <2> QED BY <2>2, <2>4, <2>5, <2>6 DEF Inv
<1> QED BY <1>1, <1>2, <1>3 DEF Next

\* The invariant holds of every behaviour of the two processes.
THEOREM Invariance == Spec => []Inv
BY Initially, Inductive, PTL DEF Spec

\* Every variable of the two processes and of what is between them keeps the
\* type the code gives it.
THEOREM TypeCorrect == Spec => []TypeOK
<1>1. Inv => TypeOK
  BY DEF Inv
<1> QED BY <1>1, Invariance, PTL

\* Unless two calls have overlapped, _call_function returns the answer to the
\* call it made: nothing else that goes through the pipe shifts the answers.
THEOREM CallersGetTheirOwn == Spec => []OwnAnswer
<1>1. Inv => OwnAnswer
  BY DEF Inv
<1> QED BY <1>1, Invariance, PTL

\* However many calls overlap, as many threads wait as there are calls in the
\* pipe, in the child, answered, and lost because the function raised.
THEOREM NoAnswerForNobody == Spec => []CallersAccountedFor
<1>1. Inv => CallersAccountedFor
  BY DEF Inv, Balanced, Lookups, Asked, IsLookup, CallersAccountedFor
<1> QED BY <1>1, Invariance, PTL

\* Whatever the functions it runs raise, the child process ends only when it
\* publishes a topic that cannot be encoded or whose rate is zero.
THEOREM ChildSurvives == Spec => []OnlyBrokenTopicsKill
<1>1. Inv => OnlyBrokenTopicsKill
  BY DEF Inv
<1> QED BY <1>1, Invariance, PTL

\* listen_once of the only thread that reads returns a structure as new as
\* what the queue held when it was called.
THEOREM ListenIsFresh == Spec => []FreshListen
<1>1. Inv => FreshListen
  BY DEF Inv, TypeOK, Promise, FreshListen
<1> QED BY <1>1, Invariance, PTL

=============================================================================
