------------------------- MODULE SubscriptionProofs -------------------------
(***************************************************************************)
(* Theorems about Subscription, for every set of threads, endpoints and    *)
(* sockets and every bound. The argument is one inductive invariant in     *)
(* three parts: the types; what is known of the endpoint when a thread     *)
(* handles a socket; and, as long as the publisher was never withdrawn,    *)
(* which listening threads can be alive.                                   *)
(***************************************************************************)
EXTENDS Subscription, FiniteSetTheorems, FunctionTheorems, TLAPS

(* Both parts of the address of the publisher have been recorded.          *)
Known == recorded # None /\ iface # None

Restarting == {"restart", "wait", "create", "open", "join", "clear", "spawn",
               "launch"}

Handling == {"attempt", "receiving", "create", "open", "join"}

(* A thread handles a socket, and a socket exists, only when both parts    *)
(* are known. TypeOK is not inductive without it: the member a socket      *)
(* becomes is the pair of the two.                                         *)
EndpointInv ==
  /\ pc[Browser] = "lookup" => recorded # None
  /\ pc[Browser] \in Restarting => Known
  /\ sock # None => Known
  /\ \A t \in Receivers : pc[t] \in Handling => Known
  /\ \A t \in Receivers : pc[t] = "receiving" => rsock[t] # None

Making == {"create", "open", "join", "clear", "spawn", "launch"}

(* There is a socket, or a thread on its way to one, without a listening   *)
(* thread only while the first handler makes both, or has failed to.       *)
ThreadInv ==
  \/ current # None /\ pc[Browser] \in BrowserLabels
  \/ pc[Browser] \in (Making \ {"launch"}) \cup {"exited"}
  \/ /\ pc[Browser] \notin {"wait", "launch"}
     /\ sock = None
     /\ \A t \in Receivers : pc[t] \notin Handling

NoListener == \A t \in Listeners : ~Alive(t)

(* Without a withdrawal, no event and no step of the browser takes the     *)
(* socket away, so the browser creates a socket and a thread only after    *)
(* the thread it replaces is dead.                                         *)
OneListenerInv ==
  removals = 0 =>
    /\ \A i \in 1..Len(pending) : pending[i] = "announced"
    /\ pc[Browser] # "forget"
    /\ \A t \in Listeners : Alive(t) => t = current
    /\ sock = None => NoListener
    /\ pc[Browser] \in {"create", "open", "join", "clear", "spawn", "launch"}
         => NoListener
    /\ pc[Browser] \in {"join", "clear", "spawn", "launch"} => sock # None

(* From the moment the browser has created the socket until it handles the *)
(* next event, whatever socket is in place is member of nothing or of the  *)
(* endpoint recorded, and so is the one the current thread receives from.  *)
FreshInv ==
  /\ outcome = "joined" => pc[Browser] \in {"idle", "forget", "exited"}
  /\ (pc[Browser] \in {"clear", "spawn", "launch"} \/ outcome = "joined")
        /\ sock # None
       => link[sock].member \in {None, Wanted}
  /\ outcome = "joined" /\ current # None =>
       /\ pc[current] = "receiving" => link[rsock[current]].member \in {None, Wanted}
       /\ pc[current] \in {"decode", "callback"} => got[current] = Wanted

(* Nobody closes the socket under a listening thread that has a message,   *)
(* when no withdrawal, stop or other receiver does.                        *)
Undisturbed == pc[Stopper] = "running" /\ removals = 0 /\ Callers = {}

DecodedInv ==
  Undisturbed =>
    \A t \in Listeners :
      pc[t] \in {"receiving", "decode"} => sock # None /\ link[sock].open

-----------------------------------------------------------------------------
\* Every step keeps the types.
LEMMA TypeStep == TypeOK /\ EndpointInv /\ [Next]_vars => TypeOK'
<1> SUFFICES ASSUME TypeOK, EndpointInv, [Next]_vars PROVE TypeOK'
  OBVIOUS
<1> USE ThreadsAssumption, ValuesAssumption
    DEF TypeOK, Threads, Creators, Receivers, Home, Go, Return, Fail, Known,
        object, place, locals, rest, world,
        ReceiverLabels, BrowserLabels, StopperLabels, Outcomes, Links, Closed, Fresh, Origins, Wanted
<1>1. ASSUME NEW e \in Endpoints, Announce(e) PROVE TypeOK'
  BY <1>1 DEF Announce
<1>2. CASE Withdraw
  BY <1>2 DEF Withdraw
<1>3. ASSUME NEW t \in Creators, CreateBegin(t) PROVE TypeOK'
  <2>1. UNCHANGED <<object, attempts, rsock, got, rest>>
    BY <1>3 DEF CreateBegin
  <2>2. CASE recorded = None /\ t = Browser
    <3>1. /\ pc' = [pc EXCEPT ![t] = "clear"]
          /\ tries' = [tries EXCEPT ![t] = 0]
          /\ UNCHANGED link
      BY <1>3, <2>2 DEF CreateBegin, Created, CloseSocket
    <3> QED
      BY <2>1, <2>2, <3>1
  <2>3. CASE recorded = None /\ t # Browser
    <3>1. /\ pc' = [pc EXCEPT ![t] = "attempt"]
          /\ tries' = [tries EXCEPT ![t] = 0]
          /\ UNCHANGED link
      BY <1>3, <2>3 DEF CreateBegin, Created, CloseSocket
    <3> QED
      BY <2>1, <2>3, <3>1
  <2>4. CASE recorded # None /\ sock = None
    <3>1. /\ pc' = [pc EXCEPT ![t] = "open"]
          /\ UNCHANGED <<tries, link>>
      BY <1>3, <2>4 DEF CreateBegin, Created, CloseSocket
    <3> QED
      BY <2>1, <2>4, <3>1
  <2>5. CASE recorded # None /\ sock # None
    <3>1. /\ pc' = [pc EXCEPT ![t] = "open"]
          /\ UNCHANGED tries
          /\ link' = [link EXCEPT ![sock] = Closed]
      BY <1>3, <2>5 DEF CreateBegin, Created, CloseSocket
    <3> QED
      BY <2>1, <2>5, <3>1
  <2> QED
    BY <2>2, <2>3, <2>4, <2>5
<1>4. ASSUME NEW t \in Creators, CreateOpen(t) PROVE TypeOK'
  BY <1>4 DEF CreateOpen, Held, Blocked
<1>5. ASSUME NEW t \in Creators, JoinSucceeds(t) PROVE TypeOK'
  <2>1. CASE t = Browser
    BY <1>5, <2>1 DEF JoinSucceeds, Created, EndpointInv, Handling, Restarting
  <2>2. CASE t # Browser
    BY <1>5, <2>2 DEF JoinSucceeds, Created, EndpointInv, Handling, Restarting
  <2> QED
    BY <2>1, <2>2
<1>6. ASSUME NEW t \in Creators, CreateFails(t) PROVE TypeOK'
  <2>1. UNCHANGED <<object, link, rsock, got, world>>
    BY <1>6 DEF CreateFails, Refused
  <2>2. CASE tries[t] + 1 < MaxRetries
    <3>1. /\ pc' = [pc EXCEPT ![t] = "create"]
          /\ tries' = [tries EXCEPT ![t] = @ + 1]
          /\ UNCHANGED <<attempts, outcome>>
          /\ failures' \in {failures, failures + 1}
      BY <1>6, <2>2 DEF CreateFails, Refused, CreateRaised
    <3> QED
      BY <2>1, <2>2, <3>1
  <2>3. CASE ~(tries[t] + 1 < MaxRetries) /\ t = Browser
    <3>1. /\ pc' = [pc EXCEPT ![t] = "exited"]
          /\ tries' = [tries EXCEPT ![t] = 0]
          /\ UNCHANGED attempts
          /\ outcome' = "create_failed"
          /\ failures' \in {failures, failures + 1}
      BY <1>6, <2>3 DEF CreateFails, Refused, CreateRaised
    <3> QED
      BY <2>1, <2>3, <3>1
  <2>4. CASE ~(tries[t] + 1 < MaxRetries) /\ t # Browser
    <3>1. /\ pc' = [pc EXCEPT ![t] = IF t \in Listeners THEN "loop" ELSE "idle"]
          /\ tries' = [tries EXCEPT ![t] = 0]
          /\ attempts' = [attempts EXCEPT ![t] = 0]
          /\ UNCHANGED outcome
          /\ failures' \in {failures, failures + 1}
      BY <1>6, <2>4 DEF CreateFails, Refused, CreateRaised
    <3> QED
      BY <2>1, <2>4, <3>1
  <2> QED
    BY <2>2, <2>3, <2>4
<1>7. ASSUME NEW t \in Creators, JoinMissing(t) PROVE TypeOK'
  <2>1. UNCHANGED <<object, link, rsock, got, world, failures>>
    BY <1>7 DEF JoinMissing
  <2>2. CASE t = Browser
    <3>1. /\ pc' = [pc EXCEPT ![t] = "exited"]
          /\ tries' = [tries EXCEPT ![t] = 0]
          /\ UNCHANGED attempts
          /\ outcome' = "create_failed"
      BY <1>7, <2>2 DEF JoinMissing, CreateRaised
    <3> QED
      BY <2>1, <2>2, <3>1
  <2>3. CASE t # Browser
    <3>1. /\ pc' = [pc EXCEPT ![t] = IF t \in Listeners THEN "loop" ELSE "idle"]
          /\ tries' = [tries EXCEPT ![t] = 0]
          /\ attempts' = [attempts EXCEPT ![t] = 0]
          /\ UNCHANGED outcome
      BY <1>7, <2>3 DEF JoinMissing, CreateRaised
    <3> QED
      BY <2>1, <2>3, <3>1
  <2> QED
    BY <2>2, <2>3
<1>8. ASSUME NEW t \in Receivers, ListenLoop(t) PROVE TypeOK'
  BY <1>8 DEF ListenLoop
<1>9. ASSUME NEW t \in Receivers, ListenOnce(t) PROVE TypeOK'
  BY <1>9 DEF ListenOnce
<1>10. ASSUME NEW t \in Receivers, SubscribeBegin(t) PROVE TypeOK'
  BY <1>10 DEF SubscribeBegin
<1>11. ASSUME NEW t \in Receivers, AttemptEnds(t) PROVE TypeOK'
  BY <1>11 DEF AttemptEnds
<1>12. ASSUME NEW t \in Receivers, AttemptBegin(t) PROVE TypeOK'
  <2>1. UNCHANGED <<object, link, tries, got, rest>>
    BY <1>12 DEF AttemptBegin
  <2>2. CASE link[sock].open
    <3>1. /\ pc' = [pc EXCEPT ![t] = "receiving"]
          /\ rsock' = [rsock EXCEPT ![t] = sock]
          /\ UNCHANGED attempts
      BY <1>12, <2>2 DEF AttemptBegin, ReceiveRaises
    <3> QED
      BY <2>1, <2>2, <3>1
  <2>3. CASE ~link[sock].open
    <3>1. /\ pc' = [pc EXCEPT ![t] = "create"]
          /\ attempts' = [attempts EXCEPT ![t] = @ + 1]
          /\ UNCHANGED rsock
      BY <1>12, <2>3 DEF AttemptBegin, ReceiveRaises
    <3> QED
      BY <2>1, <2>3, <3>1
  <2> QED
    BY <2>2, <2>3
<1>13. ASSUME NEW t \in Receivers, ReceiveTimeout(t) PROVE TypeOK'
  BY <1>13 DEF ReceiveTimeout
<1>14. ASSUME NEW t \in Receivers, ReceiveError(t) PROVE TypeOK'
  <2>1. UNCHANGED <<object, link, tries, got, world, outcome>>
    BY <1>14 DEF ReceiveError
  <2>2. CASE stopEvent
    <3>1. /\ pc' = [pc EXCEPT ![t] = IF t \in Listeners THEN "loop" ELSE "idle"]
          /\ attempts' = [attempts EXCEPT ![t] = 0]
          /\ rsock' = [rsock EXCEPT ![t] = None]
          /\ failures' \in {failures, failures + 1}
      BY <1>14, <2>2 DEF ReceiveError, ReceiveRaises
    <3> QED
      BY <2>1, <2>2, <3>1
  <2>3. CASE ~stopEvent
    <3>1. /\ pc' = [pc EXCEPT ![t] = "create"]
          /\ attempts' = [attempts EXCEPT ![t] = @ + 1]
          /\ rsock' = [rsock EXCEPT ![t] = None]
          /\ failures' \in {failures, failures + 1}
      BY <1>14, <2>3 DEF ReceiveError, ReceiveRaises
    <3> QED
      BY <2>1, <2>3, <3>1
  <2> QED
    BY <2>2, <2>3
<1>15. ASSUME NEW t \in Receivers, ReceivePacket(t) PROVE TypeOK'
  BY <1>15 DEF ReceivePacket, EndpointInv
<1>16. ASSUME NEW t \in Receivers, Decode(t) PROVE TypeOK'
  BY <1>16 DEF Decode
<1>17. ASSUME NEW t \in Receivers, Callback(t) PROVE TypeOK'
  BY <1>17 DEF Callback
<1>18. CASE HandleUnresolved
  BY <1>18 DEF HandleUnresolved
<1>19. CASE HandleAnnounced
  BY <1>19 DEF HandleAnnounced
<1>20. CASE LookupSucceeds
  BY <1>20 DEF LookupSucceeds
<1>21. CASE LookupFails
  BY <1>21 DEF LookupFails
<1>22. CASE RestartBegin
  BY <1>22 DEF RestartBegin
<1>23. CASE RestartWait
  <2>1. UNCHANGED <<sock, current, place, link, locals, rest>>
    BY <1>23 DEF RestartWait
  <2>2. CASE Alive(current)
    <3>1. /\ stopEvent' = TRUE
          /\ UNCHANGED pc
      BY <1>23, <2>2 DEF RestartWait
    <3> QED
      BY <2>1, <2>2, <3>1
  <2>3. CASE ~Alive(current)
    <3>1. /\ pc' = [pc EXCEPT ![Browser] = "create"]
          /\ UNCHANGED stopEvent
      BY <1>23, <2>3 DEF RestartWait
    <3> QED
      BY <2>1, <2>3, <3>1
  <2> QED
    BY <2>2, <2>3
<1>24. CASE StartClear
  BY <1>24 DEF StartClear
<1>25. CASE StartSpawn
  BY <1>25 DEF StartSpawn
<1>26. CASE StartLaunch
  BY <1>26 DEF StartLaunch
<1>27. CASE HandleRemovedIgnored
  BY <1>27 DEF HandleRemovedIgnored
<1>28. CASE HandleRemoved
  BY <1>28 DEF HandleRemoved, CloseSocket
<1>29. CASE ForgetSocket
  BY <1>29 DEF ForgetSocket
<1>30. CASE BrowserExit
  BY <1>30 DEF BrowserExit
<1>31. CASE StopSignal
  BY <1>31 DEF StopSignal
<1>32. CASE StopClose
  BY <1>32 DEF StopClose, CloseSocket
<1>33. CASE StopListener
  <2>1. UNCHANGED <<sock, current, place, link, locals, rest>>
    BY <1>33 DEF StopListener
  <2>2. CASE current # None /\ Alive(current)
    <3>1. /\ stopEvent' = TRUE
          /\ pc' = [pc EXCEPT ![Stopper] = "joined"]
      BY <1>33, <2>2 DEF StopListener
    <3> QED
      BY <2>1, <2>2, <3>1
  <2>3. CASE ~(current # None /\ Alive(current))
    <3>1. /\ pc' = [pc EXCEPT ![Stopper] = "cancelling"]
          /\ UNCHANGED stopEvent
      BY <1>33, <2>3 DEF StopListener
    <3> QED
      BY <2>1, <2>3, <3>1
  <2> QED
    BY <2>2, <2>3
<1>34. CASE StopJoined
  BY <1>34 DEF StopJoined
<1>35. CASE StopReturns
  BY <1>35 DEF StopReturns
<1>36. CASE UNCHANGED vars
  BY <1>36 DEF vars
<1> QED
  BY <1>1, <1>2, <1>3, <1>4, <1>5, <1>6, <1>7, <1>8, <1>9, <1>10, <1>11, <1>12,
     <1>13, <1>14, <1>15, <1>16, <1>17, <1>18, <1>19, <1>20, <1>21, <1>22,
     <1>23, <1>24, <1>25, <1>26, <1>27, <1>28, <1>29, <1>30, <1>31, <1>32,
     <1>33, <1>34, <1>35, <1>36
     DEF Next, Publish, Browse, Stop, Receive, Create

\* Every step keeps what a thread with a socket relies on.
LEMMA EndpointStep == TypeOK /\ EndpointInv /\ [Next]_vars => EndpointInv'
<1> SUFFICES ASSUME TypeOK, EndpointInv, [Next]_vars PROVE EndpointInv'
  OBVIOUS
<1> USE ThreadsAssumption, ValuesAssumption
    DEF TypeOK, EndpointInv, Known, Restarting, Handling, Threads, Creators,
        Receivers, Home, Go, Return, object, place, locals, rest, world
<1>1. CASE Publish
  BY <1>1 DEF Publish, Announce, Withdraw
<1>2. ASSUME NEW t \in Creators, Create(t) PROVE EndpointInv'
  BY <1>2
     DEF Create, CreateBegin, Created, CloseSocket, CreateOpen, Held, Blocked,
         JoinSucceeds, CreateFails, Refused,
        JoinMissing, CreateRaised
<1>3. ASSUME NEW t \in Receivers, Receive(t) PROVE EndpointInv'
  BY <1>3
     DEF Receive, ListenLoop, ListenOnce, SubscribeBegin, AttemptEnds,
         AttemptBegin, ReceiveRaises,
        ReceiveTimeout, ReceiveError, ReceivePacket, Decode, Callback
<1>4. CASE HandleUnresolved
  BY <1>4 DEF HandleUnresolved
<1>5. CASE HandleAnnounced
  BY <1>5 DEF HandleAnnounced
<1>6. CASE LookupSucceeds
  BY <1>6 DEF LookupSucceeds
<1>7. CASE LookupFails
  BY <1>7 DEF LookupFails
<1>8. CASE RestartBegin
  BY <1>8 DEF RestartBegin
<1>9. CASE RestartWait
  BY <1>9 DEF RestartWait
<1>10. CASE StartClear
  BY <1>10 DEF StartClear
<1>11. CASE StartSpawn
  BY <1>11 DEF StartSpawn
<1>12. CASE StartLaunch
  BY <1>12 DEF StartLaunch
<1>13. CASE HandleRemovedIgnored
  BY <1>13 DEF HandleRemovedIgnored
<1>14. CASE HandleRemoved
  BY <1>14 DEF HandleRemoved, CloseSocket
<1>15. CASE ForgetSocket
  BY <1>15 DEF ForgetSocket
<1>16. CASE BrowserExit
  BY <1>16 DEF BrowserExit
<1>17. CASE Stop
  BY <1>17
     DEF Stop, StopSignal, StopClose, CloseSocket, StopListener, StopJoined,
         StopReturns
<1>18. CASE UNCHANGED vars
  BY <1>18 DEF vars
<1> QED
  BY <1>1, <1>2, <1>3, <1>4, <1>5, <1>6, <1>7, <1>8, <1>9, <1>10, <1>11, <1>12,
     <1>13, <1>14, <1>15, <1>16, <1>17, <1>18
     DEF Next, Browse

\* Every step keeps a socket to a thread.
LEMMA ThreadStep == TypeOK /\ ThreadInv /\ [Next]_vars => ThreadInv'
<1> SUFFICES ASSUME TypeOK, ThreadInv, [Next]_vars PROVE ThreadInv'
  OBVIOUS
<1> USE ThreadsAssumption, ValuesAssumption
    DEF TypeOK, ThreadInv, Making, Handling, BrowserLabels, Threads, Creators,
        Receivers, Home, Go, Return, object, place, locals, rest, world
<1>1. ASSUME NEW e \in Endpoints, Announce(e) PROVE ThreadInv'
  BY <1>1 DEF Announce
<1>2. CASE Withdraw
  BY <1>2 DEF Withdraw
<1>3. ASSUME NEW t \in Creators, Create(t) PROVE ThreadInv'
  BY <1>3
     DEF Create, CreateBegin, Created, CloseSocket, CreateOpen, Held, Blocked,
         JoinSucceeds, CreateFails, Refused,
        JoinMissing, CreateRaised
<1>4. ASSUME NEW t \in Receivers, Receive(t) PROVE ThreadInv'
  BY <1>4
     DEF Receive, ListenLoop, ListenOnce, SubscribeBegin, AttemptEnds,
         AttemptBegin, ReceiveRaises,
        ReceiveTimeout, ReceiveError, ReceivePacket, Decode, Callback
<1>5. CASE HandleUnresolved
  BY <1>5 DEF HandleUnresolved
<1>6. CASE HandleAnnounced
  BY <1>6 DEF HandleAnnounced
<1>7. CASE LookupSucceeds
  BY <1>7 DEF LookupSucceeds
<1>8. CASE LookupFails
  BY <1>8 DEF LookupFails
<1>9. CASE RestartBegin
  BY <1>9 DEF RestartBegin
<1>10. CASE RestartWait
  BY <1>10 DEF RestartWait
<1>11. CASE StartClear
  BY <1>11 DEF StartClear
<1>12. CASE StartSpawn
  BY <1>12 DEF StartSpawn
<1>13. CASE StartLaunch
  BY <1>13 DEF StartLaunch
<1>14. CASE HandleRemovedIgnored
  BY <1>14 DEF HandleRemovedIgnored
<1>15. CASE HandleRemoved
  BY <1>15 DEF HandleRemoved, CloseSocket
<1>16. CASE ForgetSocket
  BY <1>16 DEF ForgetSocket
<1>17. CASE BrowserExit
  BY <1>17 DEF BrowserExit
<1>18. CASE Stop
  BY <1>18
     DEF Stop, StopSignal, StopClose, CloseSocket, StopListener, StopJoined,
         StopReturns
<1>19. CASE UNCHANGED vars
  BY <1>19 DEF vars
<1> QED
  BY <1>1, <1>2, <1>3, <1>4, <1>5, <1>6, <1>7, <1>8, <1>9, <1>10, <1>11, <1>12,
     <1>13, <1>14, <1>15, <1>16, <1>17, <1>18, <1>19
     DEF Next, Browse, Publish

\* Every step keeps, without a withdrawal, the old thread dead before the new
\* one exists.
LEMMA OneListenerStep == TypeOK /\ EndpointInv /\ OneListenerInv /\ [Next]_vars => OneListenerInv'
<1> SUFFICES ASSUME TypeOK, EndpointInv, OneListenerInv, [Next]_vars PROVE OneListenerInv'
  OBVIOUS
<1> USE ThreadsAssumption, ValuesAssumption
    DEF TypeOK, EndpointInv, OneListenerInv, NoListener, Alive, Known,
        Restarting, Threads, Creators, Receivers, Home, Go, Return, object,
        place, locals, rest, world
<1>1. ASSUME NEW e \in Endpoints, Announce(e) PROVE OneListenerInv'
  BY <1>1 DEF Announce
<1>2. CASE Withdraw
  BY <1>2 DEF Withdraw
<1>3. ASSUME NEW t \in Creators, Create(t) PROVE OneListenerInv'
  BY <1>3
     DEF Create, CreateBegin, Created, CloseSocket, CreateOpen, Held, Blocked,
         JoinSucceeds, CreateFails, Refused,
        JoinMissing, CreateRaised
<1>4. ASSUME NEW t \in Receivers, Receive(t) PROVE OneListenerInv'
  BY <1>4
     DEF Receive, ListenLoop, ListenOnce, SubscribeBegin, AttemptEnds,
         AttemptBegin, ReceiveRaises,
        ReceiveTimeout, ReceiveError, ReceivePacket, Decode, Callback
<1>5. CASE HandleUnresolved
  BY <1>5 DEF HandleUnresolved
<1>6. CASE HandleAnnounced
  BY <1>6 DEF HandleAnnounced
<1>7. CASE LookupSucceeds
  BY <1>7 DEF LookupSucceeds
<1>8. CASE LookupFails
  BY <1>8 DEF LookupFails
<1>9. CASE RestartBegin
  BY <1>9 DEF RestartBegin
<1>10. CASE RestartWait
  BY <1>10 DEF RestartWait
<1>11. CASE StartClear
  BY <1>11 DEF StartClear
<1>12. CASE StartSpawn
  BY <1>12 DEF StartSpawn
<1>13. CASE StartLaunch
  BY <1>13 DEF StartLaunch
<1>14. CASE HandleRemovedIgnored
  BY <1>14 DEF HandleRemovedIgnored
<1>15. CASE HandleRemoved
  BY <1>15 DEF HandleRemoved, CloseSocket
<1>16. CASE ForgetSocket
  BY <1>16 DEF ForgetSocket
<1>17. CASE BrowserExit
  BY <1>17 DEF BrowserExit
<1>18. CASE Stop
  BY <1>18
     DEF Stop, StopSignal, StopClose, CloseSocket, StopListener, StopJoined,
         StopReturns
<1>19. CASE UNCHANGED vars
  BY <1>19 DEF vars
<1> QED
  BY <1>1, <1>2, <1>3, <1>4, <1>5, <1>6, <1>7, <1>8, <1>9, <1>10, <1>11, <1>12,
     <1>13, <1>14, <1>15, <1>16, <1>17, <1>18, <1>19
     DEF Next, Browse, Publish

\* Every step keeps a clear stop event to a running listening thread.
LEMMA RunsStep == TypeOK /\ ListenerRunsUnlessStopped /\ [Next]_vars => ListenerRunsUnlessStopped'
<1> SUFFICES ASSUME TypeOK, ListenerRunsUnlessStopped, [Next]_vars PROVE ListenerRunsUnlessStopped'
  OBVIOUS
<1> USE ThreadsAssumption, ValuesAssumption
    DEF TypeOK, ListenerRunsUnlessStopped, Alive, Threads, Creators, Receivers,
        Home, Go, Return, object, place, locals, rest, world
<1>1. CASE Publish
  BY <1>1 DEF Publish, Announce, Withdraw
<1>2. ASSUME NEW t \in Creators, Create(t) PROVE ListenerRunsUnlessStopped'
  BY <1>2
     DEF Create, CreateBegin, Created, CloseSocket, CreateOpen, Held, Blocked,
         JoinSucceeds, CreateFails, Refused,
        JoinMissing, CreateRaised
<1>3. ASSUME NEW t \in Receivers, Receive(t) PROVE ListenerRunsUnlessStopped'
  BY <1>3
     DEF Receive, ListenLoop, ListenOnce, SubscribeBegin, AttemptEnds,
         AttemptBegin, ReceiveRaises,
        ReceiveTimeout, ReceiveError, ReceivePacket, Decode, Callback
<1>4. CASE HandleUnresolved
  BY <1>4 DEF HandleUnresolved
<1>5. CASE HandleAnnounced
  BY <1>5 DEF HandleAnnounced
<1>6. CASE LookupSucceeds
  BY <1>6 DEF LookupSucceeds
<1>7. CASE LookupFails
  BY <1>7 DEF LookupFails
<1>8. CASE RestartBegin
  BY <1>8 DEF RestartBegin
<1>9. CASE RestartWait
  BY <1>9 DEF RestartWait
<1>10. CASE StartClear
  BY <1>10 DEF StartClear
<1>11. CASE StartSpawn
  BY <1>11 DEF StartSpawn
<1>12. CASE StartLaunch
  BY <1>12 DEF StartLaunch
<1>13. CASE HandleRemovedIgnored
  BY <1>13 DEF HandleRemovedIgnored
<1>14. CASE HandleRemoved
  BY <1>14 DEF HandleRemoved, CloseSocket
<1>15. CASE ForgetSocket
  BY <1>15 DEF ForgetSocket
<1>16. CASE BrowserExit
  BY <1>16 DEF BrowserExit
<1>17. CASE Stop
  BY <1>17
     DEF Stop, StopSignal, StopClose, CloseSocket, StopListener, StopJoined,
         StopReturns
<1>18. CASE UNCHANGED vars
  BY <1>18 DEF vars
<1> QED
  BY <1>1, <1>2, <1>3, <1>4, <1>5, <1>6, <1>7, <1>8, <1>9, <1>10, <1>11, <1>12,
     <1>13, <1>14, <1>15, <1>16, <1>17, <1>18
     DEF Next, Browse

\* Every step keeps the socket in place on the recorded endpoint.
LEMMA FreshStep == TypeOK /\ EndpointInv /\ FreshInv /\ [Next]_vars => FreshInv'
<1> SUFFICES ASSUME TypeOK, EndpointInv, FreshInv, [Next]_vars PROVE FreshInv'
  OBVIOUS
<1> USE ThreadsAssumption, ValuesAssumption
    DEF TypeOK, FreshInv, EndpointInv, Restarting, Handling, Known, Wanted,
        Closed, Fresh, Links, Threads, Creators, Receivers, Home, Go, Return,
        object, place, locals, rest, world
<1>1. CASE Publish
  BY <1>1 DEF Publish, Announce, Withdraw
<1>2. ASSUME NEW t \in Creators, CreateBegin(t) PROVE FreshInv'
  BY <1>2 DEF CreateBegin, Created, CloseSocket
<1>3. ASSUME NEW t \in Creators, CreateOpen(t) PROVE FreshInv'
  BY <1>3 DEF CreateOpen, Held, Blocked
<1>4. ASSUME NEW t \in Creators, JoinSucceeds(t) PROVE FreshInv'
  BY <1>4 DEF JoinSucceeds, Created
<1>5. ASSUME NEW t \in Creators, CreateFails(t) PROVE FreshInv'
  BY <1>5 DEF CreateFails, Refused, CreateRaised
<1>6. ASSUME NEW t \in Creators, JoinMissing(t) PROVE FreshInv'
  BY <1>6 DEF JoinMissing, CreateRaised
<1>7. ASSUME NEW t \in Receivers, Receive(t) PROVE FreshInv'
  BY <1>7
     DEF Receive, ListenLoop, ListenOnce, SubscribeBegin, AttemptEnds,
         AttemptBegin, ReceiveRaises,
        ReceiveTimeout, ReceiveError, ReceivePacket, Decode, Callback
<1>8. CASE HandleUnresolved
  BY <1>8 DEF HandleUnresolved
<1>9. CASE HandleAnnounced
  BY <1>9 DEF HandleAnnounced
<1>10. CASE LookupSucceeds
  BY <1>10 DEF LookupSucceeds
<1>11. CASE LookupFails
  BY <1>11 DEF LookupFails
<1>12. CASE RestartBegin
  BY <1>12 DEF RestartBegin
<1>13. CASE RestartWait
  BY <1>13 DEF RestartWait
<1>14. CASE StartClear
  BY <1>14 DEF StartClear
<1>15. CASE StartSpawn
  BY <1>15 DEF StartSpawn
<1>16. CASE StartLaunch
  BY <1>16 DEF StartLaunch
<1>17. CASE HandleRemovedIgnored
  BY <1>17 DEF HandleRemovedIgnored
<1>18. CASE HandleRemoved
  BY <1>18 DEF HandleRemoved, CloseSocket
<1>19. CASE ForgetSocket
  BY <1>19 DEF ForgetSocket
<1>20. CASE BrowserExit
  BY <1>20 DEF BrowserExit
<1>21. CASE StopClose
  BY <1>21 DEF StopClose, CloseSocket
<1>22. CASE StopSignal \/ StopListener \/ StopJoined \/ StopReturns
  BY <1>22 DEF StopSignal, StopListener, StopJoined, StopReturns
<1>23. CASE UNCHANGED vars
  BY <1>23 DEF vars
<1> QED
  BY <1>1, <1>2, <1>3, <1>4, <1>5, <1>6, <1>7, <1>8, <1>9, <1>10, <1>11, <1>12,
     <1>13, <1>14, <1>15, <1>16, <1>17, <1>18, <1>19, <1>20, <1>21, <1>22, <1>23
     DEF Next, Browse, Create, Stop

\* Every step keeps the socket of an undisturbed listening thread open.
LEMMA DecodedStep == TypeOK /\ EndpointInv /\ OneListenerInv /\ DecodedInv /\ [Next]_vars => DecodedInv'
<1> SUFFICES ASSUME TypeOK, EndpointInv, OneListenerInv, DecodedInv, [Next]_vars PROVE DecodedInv'
  OBVIOUS
<1> USE ThreadsAssumption, ValuesAssumption
    DEF TypeOK, DecodedInv, Undisturbed, OneListenerInv, NoListener, Alive,
        Closed, Fresh, Links, Threads, Creators, Receivers, Home, Go, Return,
        object, place, locals, rest, world
<1>1. CASE Publish
  BY <1>1 DEF Publish, Announce, Withdraw
<1>2. ASSUME NEW t \in Creators, Create(t) PROVE DecodedInv'
  BY <1>2
     DEF Create, CreateBegin, Created, CloseSocket, CreateOpen, Held, Blocked,
         JoinSucceeds, CreateFails, Refused,
        JoinMissing, CreateRaised
<1>3. ASSUME NEW t \in Receivers, Receive(t) PROVE DecodedInv'
  BY <1>3
     DEF Receive, ListenLoop, ListenOnce, SubscribeBegin, AttemptEnds,
         AttemptBegin, ReceiveRaises,
        ReceiveTimeout, ReceiveError, ReceivePacket, Decode, Callback
<1>4. CASE HandleUnresolved
  BY <1>4 DEF HandleUnresolved
<1>5. CASE HandleAnnounced
  BY <1>5 DEF HandleAnnounced
<1>6. CASE LookupSucceeds
  BY <1>6 DEF LookupSucceeds
<1>7. CASE LookupFails
  BY <1>7 DEF LookupFails
<1>8. CASE RestartBegin
  BY <1>8 DEF RestartBegin
<1>9. CASE RestartWait
  BY <1>9 DEF RestartWait
<1>10. CASE StartClear
  BY <1>10 DEF StartClear
<1>11. CASE StartSpawn
  BY <1>11 DEF StartSpawn
<1>12. CASE StartLaunch
  BY <1>12 DEF StartLaunch
<1>13. CASE HandleRemovedIgnored
  BY <1>13 DEF HandleRemovedIgnored
<1>14. CASE HandleRemoved
  BY <1>14 DEF HandleRemoved, CloseSocket
<1>15. CASE ForgetSocket
  BY <1>15 DEF ForgetSocket
<1>16. CASE BrowserExit
  BY <1>16 DEF BrowserExit
<1>17. CASE Stop
  BY <1>17
     DEF Stop, StopSignal, StopClose, CloseSocket, StopListener, StopJoined,
         StopReturns
<1>18. CASE UNCHANGED vars
  BY <1>18 DEF vars
<1> QED
  BY <1>1, <1>2, <1>3, <1>4, <1>5, <1>6, <1>7, <1>8, <1>9, <1>10, <1>11, <1>12,
     <1>13, <1>14, <1>15, <1>16, <1>17, <1>18
     DEF Next, Browse

(* What DecodedIsDelivered says of one step.                               *)
Delivers ==
  \A t \in Listeners :
    pc[t] = "decode" /\ pc'[t] = "loop"
      => pc[Stopper] # "running" \/ removals > 0 \/ Callers # {}

\* Every step that ends a decoding delivers the message or is disturbed.
LEMMA DecodeStep == TypeOK /\ OneListenerInv /\ DecodedInv /\ [Next]_vars => Delivers
<1> SUFFICES ASSUME TypeOK, OneListenerInv, DecodedInv, [Next]_vars PROVE Delivers
  OBVIOUS
<1> USE ThreadsAssumption, ValuesAssumption
    DEF TypeOK, DecodedInv, Undisturbed, Delivers, Threads, Creators, Receivers,
        Home, Go, Return, object, place, locals, rest, world
<1>1. CASE Publish
  BY <1>1 DEF Publish, Announce, Withdraw
<1>2. ASSUME NEW t \in Creators, Create(t) PROVE Delivers
  BY <1>2
     DEF Create, CreateBegin, Created, CloseSocket, CreateOpen, Held, Blocked,
         JoinSucceeds, CreateFails, Refused,
        JoinMissing, CreateRaised
<1>3. ASSUME NEW t \in Receivers, ListenLoop(t) PROVE Delivers
  BY <1>3 DEF ListenLoop
<1>4. ASSUME NEW t \in Receivers, ListenOnce(t) PROVE Delivers
  BY <1>4 DEF ListenOnce
<1>5. ASSUME NEW t \in Receivers, SubscribeBegin(t) PROVE Delivers
  BY <1>5 DEF SubscribeBegin
<1>6. ASSUME NEW t \in Receivers, AttemptEnds(t) PROVE Delivers
  BY <1>6 DEF AttemptEnds
<1>7. ASSUME NEW t \in Receivers, AttemptBegin(t) PROVE Delivers
  BY <1>7 DEF AttemptBegin, ReceiveRaises
<1>8. ASSUME NEW t \in Receivers, ReceiveTimeout(t) PROVE Delivers
  BY <1>8 DEF ReceiveTimeout
<1>9. ASSUME NEW t \in Receivers, ReceiveError(t) PROVE Delivers
  BY <1>9 DEF ReceiveError, ReceiveRaises
<1>10. ASSUME NEW t \in Receivers, ReceivePacket(t) PROVE Delivers
  BY <1>10 DEF ReceivePacket
<1>11. ASSUME NEW t \in Receivers, Decode(t) PROVE Delivers
  BY <1>11 DEF Decode
<1>12. ASSUME NEW t \in Receivers, Callback(t) PROVE Delivers
  BY <1>12 DEF Callback
<1>13. CASE HandleUnresolved
  BY <1>13 DEF HandleUnresolved
<1>14. CASE HandleAnnounced
  BY <1>14 DEF HandleAnnounced
<1>15. CASE LookupSucceeds
  BY <1>15 DEF LookupSucceeds
<1>16. CASE LookupFails
  BY <1>16 DEF LookupFails
<1>17. CASE RestartBegin
  BY <1>17 DEF RestartBegin
<1>18. CASE RestartWait
  BY <1>18 DEF RestartWait
<1>19. CASE StartClear
  BY <1>19 DEF StartClear
<1>20. CASE StartSpawn
  BY <1>20 DEF StartSpawn
<1>21. CASE StartLaunch
  BY <1>21 DEF StartLaunch, OneListenerInv, NoListener, Alive
<1>22. CASE HandleRemovedIgnored
  BY <1>22 DEF HandleRemovedIgnored
<1>23. CASE HandleRemoved
  BY <1>23 DEF HandleRemoved, CloseSocket
<1>24. CASE ForgetSocket
  BY <1>24 DEF ForgetSocket
<1>25. CASE BrowserExit
  BY <1>25 DEF BrowserExit
<1>26. CASE Stop
  BY <1>26
     DEF Stop, StopSignal, StopClose, CloseSocket, StopListener, StopJoined,
         StopReturns
<1>27. CASE UNCHANGED vars
  BY <1>27 DEF vars
<1> QED
  BY <1>1, <1>2, <1>3, <1>4, <1>5, <1>6, <1>7, <1>8, <1>9, <1>10, <1>11, <1>12,
     <1>13, <1>14, <1>15, <1>16, <1>17, <1>18, <1>19, <1>20, <1>21, <1>22,
     <1>23, <1>24, <1>25, <1>26, <1>27
     DEF Next, Browse, Receive

-----------------------------------------------------------------------------
(* The parts together.                                                     *)

Inv == /\ TypeOK /\ EndpointInv /\ ThreadInv /\ OneListenerInv
       /\ ListenerRunsUnlessStopped /\ FreshInv /\ DecodedInv

\* The initial state satisfies every part of the invariant.
LEMMA InitInv == Init => Inv
<1> SUFFICES ASSUME Init PROVE Inv
  OBVIOUS
<1> USE ThreadsAssumption, ValuesAssumption
    DEF Init, Threads, Creators, Receivers
<1>1. TypeOK
  <2>1. pc \in [Threads -> ReceiverLabels \cup BrowserLabels \cup StopperLabels]
    BY DEF ReceiverLabels, BrowserLabels, StopperLabels
  <2>2. \A t \in Receivers : pc[t] \in ReceiverLabels
    BY DEF ReceiverLabels
  <2>3. pc[Browser] \in BrowserLabels /\ pc[Stopper] \in StopperLabels
    BY DEF BrowserLabels, StopperLabels
  <2>4. link \in [Sockets -> Links]
    BY DEF Links, Closed
  <2>5. pending \in Seq({"announced", "removed"}) /\ outcome \in Outcomes
    BY DEF Outcomes
  <2> QED
    BY <2>1, <2>2, <2>3, <2>4, <2>5 DEF TypeOK
<1>2. EndpointInv
  BY DEF EndpointInv, Restarting, Handling
<1>6. ThreadInv
  BY DEF ThreadInv, Handling
<1>3. OneListenerInv
  BY DEF OneListenerInv, NoListener, Alive
<1>4. ListenerRunsUnlessStopped /\ FreshInv
  BY DEF ListenerRunsUnlessStopped, FreshInv
<1>5. DecodedInv
  BY DEF DecodedInv
<1> QED
  BY <1>1, <1>2, <1>3, <1>4, <1>5, <1>6 DEF Inv

\* The conjunction of the parts is an invariant of the specification.
THEOREM Invariance == Spec => []Inv
<1>1. Inv /\ [Next]_vars => Inv'
  BY TypeStep, EndpointStep, ThreadStep, OneListenerStep, RunsStep, FreshStep, DecodedStep
     DEF Inv
<1> QED
  BY InitInv, <1>1, PTL DEF Spec

-----------------------------------------------------------------------------
(* The results.                                                            *)

\* Every variable keeps to its type.
THEOREM TypeCorrect == Spec => []TypeOK
<1>1. Inv => TypeOK
  BY DEF Inv
<1> QED
  BY Invariance, <1>1, PTL

\* Without a withdrawal there is one listening thread, the one the
\* subscription refers to.
THEOREM OneListener == Spec => []AtMostOneListener
<1>1. Inv => AtMostOneListener
  BY DEF Inv, OneListenerInv, AtMostOneListener
<1> QED
  BY Invariance, <1>1, PTL

\* A clear stop event means a running listening thread.
THEOREM ListenerRuns == Spec => []ListenerRunsUnlessStopped
<1>1. Inv => ListenerRunsUnlessStopped
  BY DEF Inv
<1> QED
  BY Invariance, <1>1, PTL

\* No message of an earlier endpoint is processed after a restart.
THEOREM DeliveryIsFresh == Spec => []FreshDelivery
<1>1. Inv => FreshDelivery
  BY DEF Inv, FreshInv, FreshDelivery
<1> QED
  BY Invariance, <1>1, PTL

\* No thread joins a group before the interface is known.
THEOREM InterfaceIsKnown == Spec => []InterfaceKnown
<1>1. Inv => InterfaceKnown
  BY DEF Inv, EndpointInv, InterfaceKnown, Known, Restarting, Handling, Creators
<1> QED
  BY Invariance, <1>1, PTL

\* A restart that finds a socket finds a thread to wait for.
THEOREM RestartFinds == Spec => []RestartFindsThread
<1>1. Inv => RestartFindsThread
  BY DEF Inv, ThreadInv, RestartFindsThread, Making
<1> QED
  BY Invariance, <1>1, PTL

\* A message that was decoded reaches the callbacks unless a stop, a
\* withdrawal or another receiver interferes.
THEOREM DecodedDelivered == Spec => DecodedIsDelivered
<1>1. Inv /\ [Next]_vars =>
        [\A t \in Listeners :
           pc[t] = "decode" /\ pc'[t] = "loop"
             => pc[Stopper] # "running" \/ removals > 0 \/ Callers # {}]_vars
  BY DecodeStep DEF Inv, Delivers
<1> QED
  BY Invariance, <1>1, PTL DEF Spec, DecodedIsDelivered

-----------------------------------------------------------------------------
(* How many threads: what is owed to withdrawals.                          *)

Events   == {"announced", "removed"}
Removed(s) == {i \in 1..Len(s) : s[i] = "removed"}
Count(b) == IF b THEN 1 ELSE 0
Others   == {t \in Listeners : Alive(t) /\ t # current}

\* The browser is past the wait for the current thread, or will not wait: there
\* is no socket.
Unwaited ==
  /\ current # None /\ Alive(current)
  /\ sock = None \/ pc[Browser] \in Making

\* Each withdrawal is an event in the queue, or is being handled, or has taken
\* the socket from a thread that runs, or has left a thread behind.
Owed ==
  Cardinality(Others) + Cardinality(Removed(pending)) + Count(pc[Browser] = "forget")
    + Count(Unwaited) <= removals

Spawning ==
  /\ pc[Browser] \in {"join", "clear", "spawn", "launch"} => sock # None
  /\ pc[Browser] = "launch" => current # None /\ ~Alive(current)

OwedInv == Owed /\ Spawning

\* What is counted.
LEMMA Counts ==
  /\ \A b \in BOOLEAN : Count(b) \in {0, 1}
  /\ Count(TRUE) = 1 /\ Count(FALSE) = 0
BY DEF Count

\* A set of threads has a size, and a subset a smaller one.
LEMMA ThreadSets ==
  ASSUME NEW S \in SUBSET Listeners
  PROVE  /\ IsFiniteSet(S) /\ Cardinality(S) \in Nat
         /\ \A T \in SUBSET S : Cardinality(T) \in Nat /\ Cardinality(T) <= Cardinality(S)
<1>1. IsFiniteSet(S)
  BY FiniteAssumption, FS_Subset
<1>2. \A T \in SUBSET S : IsFiniteSet(T) /\ Cardinality(T) <= Cardinality(S)
  BY <1>1, FS_Subset
<1> QED BY <1>1, <1>2, FS_CardinalityType

\* What is appended to the queue, and taken from it.
LEMMA QueueFacts ==
  ASSUME NEW s \in Seq(Events)
  PROVE  /\ Len(s) \in Nat
         /\ \A e \in Events :
              /\ Len(Append(s, e)) = Len(s) + 1
              /\ \A i \in 1..Len(s) : Append(s, e)[i] = s[i]
              /\ Append(s, e)[Len(s) + 1] = e
         /\ s # <<>> =>
              /\ Len(s) # 0 /\ Head(s) = s[1] /\ 1 \in 1..Len(s)
              /\ Tail(s) \in Seq(Events) /\ Len(Tail(s)) = Len(s) - 1
              /\ \A i \in 1..Len(Tail(s)) :
                   i + 1 \in 1..Len(s) /\ i + 1 # 1 /\ Tail(s)[i] = s[i + 1]
              /\ \A i \in 1..Len(s) : i # 1 => i - 1 \in 1..Len(Tail(s))
OBVIOUS

\* The queue has a number of withdrawals; an event that is appended is one
\* more, if it is one,
LEMMA EventAppended ==
  ASSUME NEW s \in Seq(Events), NEW e \in Events
  PROVE  /\ IsFiniteSet(Removed(s)) /\ Cardinality(Removed(s)) \in Nat
         /\ Cardinality(Removed(Append(s, e))) =
              Cardinality(Removed(s)) + (IF e = "removed" THEN 1 ELSE 0)
<1>1. IsFiniteSet(1..Len(s)) /\ Removed(s) \subseteq 1..Len(s)
  <2>1. 1 \in Int /\ Len(s) \in Int
    BY QueueFacts
  <2> QED BY <2>1, FS_Interval DEF Removed
<1>2. IsFiniteSet(Removed(s)) /\ Cardinality(Removed(s)) \in Nat
  BY <1>1, FS_Subset, FS_CardinalityType
<1>3. Len(s) + 1 \notin Removed(s)
  BY <1>1, QueueFacts
<1>4. CASE e = "removed"
  <2>1. Removed(Append(s, e)) = Removed(s) \cup {Len(s) + 1}
    BY <1>4, QueueFacts DEF Removed
  <2> QED BY <1>2, <1>3, <1>4, <2>1, FS_AddElement
<1>5. CASE e # "removed"
  <2>1. Removed(Append(s, e)) = Removed(s)
    BY <1>5, QueueFacts DEF Removed
  <2> QED BY <1>2, <1>5, <2>1
<1> QED BY <1>2, <1>4, <1>5

\* and one that is taken one less.
LEMMA EventTaken ==
  ASSUME NEW s \in Seq(Events), s # <<>>
  PROVE  /\ Cardinality(Removed(Tail(s))) \in Nat
         /\ Cardinality(Removed(s)) =
              Cardinality(Removed(Tail(s))) + (IF Head(s) = "removed" THEN 1 ELSE 0)
<1> DEFINE tail  == Removed(Tail(s))
           later == Removed(s) \ {1}
           f     == [i \in tail |-> i + 1]
<1>1. Tail(s) \in Seq(Events)
  BY QueueFacts
<1>2. /\ IsFiniteSet(tail) /\ Cardinality(tail) \in Nat
      /\ IsFiniteSet(Removed(s)) /\ Cardinality(Removed(s)) \in Nat
  BY <1>1, EventAppended DEF Events
<1>3. Cardinality(tail) = Cardinality(later)
  <2>1. \A i \in tail : i \in Int /\ f[i] = i + 1 /\ f[i] \in later
    BY QueueFacts DEF Removed
  <2>2. \A i, j \in tail : f[i] = f[j] => i = j
    BY <2>1
  <2>3. \A j \in later : \E i \in tail : f[i] = j
    <3> TAKE j \in later
    <3>1. j \in 1..Len(s) /\ j # 1 /\ s[j] = "removed"
      BY DEF Removed
    <3>2. j - 1 \in 1..Len(Tail(s)) /\ Tail(s)[j - 1] = s[(j - 1) + 1] /\ (j - 1) + 1 = j
      BY <3>1, QueueFacts
    <3>3. j - 1 \in tail
      BY <3>1, <3>2 DEF Removed
    <3> QED BY <2>1, <3>2, <3>3
  <2>4. f \in Bijection(tail, later)
    <3>1. f \in [tail -> later]
      BY <2>1
    <3>2. f \in Injection(tail, later)
      BY <2>2, <3>1, Fun_IsInj
    <3>3. f \in Surjection(tail, later)
      BY <2>3, <3>1, Fun_IsSurj
    <3> QED BY <3>2, <3>3, Fun_IsBij
  <2>5. ExistsBijection(tail, later)
    BY <2>4 DEF ExistsBijection
  <2> QED BY <1>2, <2>5, FS_Bijection
<1>4. CASE Head(s) = "removed"
  <2>1. 1 \in Removed(s)
    BY <1>4, QueueFacts DEF Removed
  <2>2. Cardinality(later) = Cardinality(Removed(s)) - 1
    BY <1>2, <2>1, FS_RemoveElement
  <2> QED BY <1>2, <1>3, <1>4, <2>2
<1>5. CASE Head(s) # "removed"
  <2>1. later = Removed(s)
    BY <1>5, QueueFacts DEF Removed
  <2>2. Cardinality(later) = Cardinality(Removed(s))
    BY <2>1
  <2> HIDE DEF later, tail
  <2>3. Cardinality(tail) \in Nat /\ Cardinality(Removed(s)) = Cardinality(tail) + 0
    BY <1>2, <1>3, <2>2
  <2> QED BY <1>5, <2>3 DEF tail
<1> QED BY <1>2, <1>4, <1>5

\* Steps that start no thread, withdraw nothing and handle no event.
Calm ==
  /\ UNCHANGED <<pending, removals, current>>
  /\ \A t \in Listeners : pc'[t] # "dead" => Alive(t)
  /\ sock' = None => sock = None
  /\ pc'[Browser] = "forget" => pc[Browser] = "forget"
  /\ pc'[Browser] \in Making =>
       pc[Browser] \in Making \/ sock = None \/ (current # None => ~Alive(current))
  /\ pc'[Browser] \in {"join", "clear", "spawn", "launch"} =>
       pc[Browser] \in {"join", "clear", "spawn", "launch"} \/ sock' # None
  /\ pc'[Browser] = "launch" => pc[Browser] = "launch"

\* A thread that starts no other owes nothing.
LEMMA CalmKeeps ==
  ASSUME TypeOK, OwedInv, Calm
  PROVE  OwedInv'
<1>1. Others \subseteq Listeners /\ Others' \subseteq Others
  BY DEF Others, Calm, Alive
<1>2. Cardinality(Others') <= Cardinality(Others)
      /\ Cardinality(Others) \in Nat /\ Cardinality(Others') \in Nat
  BY <1>1, ThreadSets
<1>3. Unwaited' => Unwaited
  BY DEF Calm, Unwaited, TypeOK, Alive
<1>4. Count(Unwaited)' <= Count(Unwaited) /\ Count(Unwaited) \in Nat /\ Count(Unwaited)' \in Nat
  BY <1>3 DEF Count
<1>5. /\ Count(pc[Browser] = "forget")' <= Count(pc[Browser] = "forget")
      /\ Count(pc[Browser] = "forget") \in Nat /\ Count(pc[Browser] = "forget")' \in Nat
  BY DEF Calm, Count
<1>6. Cardinality(Removed(pending)) \in Nat /\ Removed(pending') = Removed(pending)
  BY EventAppended DEF Calm, TypeOK, Events
<1>7. Owed'
  BY <1>2, <1>4, <1>5, <1>6 DEF OwedInv, Owed, Calm, TypeOK
<1>8. Spawning'
  BY DEF OwedInv, Spawning, Calm, TypeOK, Alive
<1> QED BY <1>7, <1>8 DEF OwedInv

\* What receivers and stop() do, and what the browser does but for the events
\* and the start of a thread, is calm.
LEMMA CalmStep ==
  ASSUME TypeOK, EndpointInv, OwedInv,
         \/ \E t \in Receivers : Receive(t) \/ Create(t)
         \/ Create(Browser) \/ LookupSucceeds \/ LookupFails \/ RestartBegin \/ RestartWait
         \/ StartClear \/ BrowserExit \/ Stop \/ UNCHANGED vars
  PROVE  Calm
<1> USE ThreadsAssumption, ValuesAssumption
    DEF TypeOK, EndpointInv, OwedInv, Spawning, Calm, Making, Alive, Known,
        Restarting, Threads, Creators, Receivers, Home, Go, Return, object,
        place, locals, rest, world
<1>1. ASSUME NEW t \in Creators, Create(t) PROVE Calm
  BY <1>1
     DEF Create, CreateBegin, Created, CloseSocket, CreateOpen, Held, Blocked,
         JoinSucceeds, CreateFails, Refused,
        JoinMissing, CreateRaised
<1>2. ASSUME NEW t \in Receivers, Receive(t) PROVE Calm
  BY <1>2
     DEF Receive, ListenLoop, ListenOnce, SubscribeBegin, AttemptEnds,
         AttemptBegin, ReceiveRaises,
        ReceiveTimeout, ReceiveError, ReceivePacket, Decode, Callback
<1>3. CASE LookupSucceeds \/ LookupFails
  BY <1>3 DEF LookupSucceeds, LookupFails
<1>4. CASE RestartBegin
  BY <1>4 DEF RestartBegin
<1>5. CASE RestartWait
  BY <1>5 DEF RestartWait
<1>6. CASE StartClear \/ BrowserExit
  BY <1>6 DEF StartClear, BrowserExit
<1>7. CASE Stop
  BY <1>7
     DEF Stop, StopSignal, StopClose, CloseSocket, StopListener, StopJoined,
         StopReturns
<1>8. CASE UNCHANGED vars
  BY <1>8 DEF vars
<1> QED BY <1>1, <1>2, <1>3, <1>4, <1>5, <1>6, <1>7, <1>8

\* A step that starts no thread, but changes what is owed otherwise, ...
Still ==
  /\ \A t \in Listeners : pc'[t] # "dead" <=> Alive(t)
  /\ UNCHANGED current

\* ... leaves the threads that are left behind.
LEMMA StillKeeps ==
  ASSUME TypeOK, Still
  PROVE  /\ Others' = Others /\ Cardinality(Others) \in Nat
         /\ Count(Unwaited) \in {0, 1} /\ Count(Unwaited)' \in {0, 1}
         /\ Count(pc[Browser] = "forget") \in {0, 1}
         /\ Count(pc[Browser] = "forget")' \in {0, 1}
         /\ Cardinality(Removed(pending)) \in Nat
<1>1. Others' = Others
  BY DEF Still, Others, Alive
<1>2. Cardinality(Others) \in Nat
  <2>1. Others \subseteq Listeners
    BY DEF Others
  <2> QED BY <2>1, ThreadSets
<1>3. Cardinality(Removed(pending)) \in Nat
  BY EventAppended DEF TypeOK, Events
<1> QED BY <1>1, <1>2, <1>3 DEF Count

\* The publisher comes, or goes.
LEMMA PublishOwes ==
  ASSUME TypeOK, OwedInv, Publish
  PROVE  OwedInv'
<1>1. PICK e \in Events :
        /\ pending' = Append(pending, e) /\ UNCHANGED <<pc, object, link, locals>>
        /\ removals' = removals + (IF e = "removed" THEN 1 ELSE 0)
  <2>1. CASE Withdraw
    BY <2>1 DEF Withdraw, Events
  <2>2. CASE \E e \in Endpoints : Announce(e)
    BY <2>2 DEF Announce, Events, TypeOK
  <2> QED BY <2>1, <2>2 DEF Publish
<1>2. UNCHANGED <<pc, current, sock>>
  BY <1>1 DEF object
<1>3. /\ Cardinality(Removed(pending)) \in Nat
      /\ Cardinality(Removed(pending')) =
           Cardinality(Removed(pending)) + (IF e = "removed" THEN 1 ELSE 0)
  BY <1>1, EventAppended DEF TypeOK, Events
<1>4. Still /\ (Unwaited' <=> Unwaited)
  BY <1>2 DEF Still, Alive, Unwaited
<1>5. Count(Unwaited)' = Count(Unwaited)
  BY <1>4 DEF Count
<1>6. Count(pc[Browser] = "forget")' = Count(pc[Browser] = "forget")
  BY <1>2 DEF Count
<1>7. Owed'
  BY <1>1, <1>3, <1>4, <1>5, <1>6, StillKeeps DEF OwedInv, Owed, TypeOK
<1>8. Spawning'
  BY <1>2 DEF OwedInv, Spawning, Alive
<1> QED BY <1>7, <1>8 DEF OwedInv

\* The browser takes an event: a withdrawal, if not ignored, takes the socket.
LEMMA HandleOwes ==
  ASSUME TypeOK, OwedInv,
         HandleUnresolved \/ HandleAnnounced \/ HandleRemovedIgnored \/ HandleRemoved
  PROVE  OwedInv'
<1> USE ThreadsAssumption DEF Threads, Creators, Receivers
<1>1. /\ pc[Browser] = "idle" /\ pending # <<>> /\ pending' = Tail(pending)
      /\ UNCHANGED <<sock, current, removals>>
      /\ \/ UNCHANGED pc
         \/ pc' = [pc EXCEPT ![Browser] = "lookup"]
         \/ pc' = [pc EXCEPT ![Browser] = "forget"] /\ Head(pending) = "removed"
  BY DEF HandleUnresolved, HandleAnnounced, HandleRemovedIgnored, HandleRemoved, Go, object
<1>2. /\ Cardinality(Removed(pending)) \in Nat /\ Cardinality(Removed(pending')) \in Nat
      /\ Cardinality(Removed(pending)) =
           Cardinality(Removed(pending')) + (IF Head(pending) = "removed" THEN 1 ELSE 0)
  BY <1>1, EventTaken, EventAppended DEF TypeOK, Events
<1>3. Still
  BY <1>1 DEF Still, Alive, TypeOK
<1>4. Unwaited' <=> Unwaited
  BY <1>1 DEF Unwaited, Alive, TypeOK, Making
<1>5. Count(Unwaited)' = Count(Unwaited)
  BY <1>4 DEF Count
<1>6. /\ Count(pc[Browser] = "forget") = 0
      /\ Count(pc[Browser] = "forget")' <= (IF Head(pending) = "removed" THEN 1 ELSE 0)
  BY <1>1 DEF Count, TypeOK
<1>7. Owed'
  BY <1>1, <1>2, <1>3, <1>5, <1>6, StillKeeps DEF OwedInv, Owed, TypeOK
<1>8. Spawning'
  BY <1>1 DEF Spawning, TypeOK
<1> QED BY <1>7, <1>8 DEF OwedInv

\* It has no socket any more: the thread that runs on is owed to this.
LEMMA ForgetOwes ==
  ASSUME TypeOK, OwedInv, ForgetSocket
  PROVE  OwedInv'
<1> USE ThreadsAssumption DEF Threads, Creators, Receivers
<1>1. /\ pc[Browser] = "forget" /\ pc' = [pc EXCEPT ![Browser] = "idle"]
      /\ UNCHANGED <<current, pending, removals>>
  BY DEF ForgetSocket, Go, world
<1>2. Still
  BY <1>1 DEF Still, Alive, TypeOK
<1>3. Count(pc[Browser] = "forget") = 1 /\ Count(pc[Browser] = "forget")' = 0
  BY <1>1 DEF Count, TypeOK
<1>4. Owed'
  BY <1>1, <1>2, <1>3, StillKeeps DEF OwedInv, Owed, TypeOK
<1>5. Spawning'
  BY <1>1 DEF Spawning, TypeOK
<1> QED BY <1>4, <1>5 DEF OwedInv

\* A new thread is named; the one it replaces, if it runs, is left behind.
LEMMA SpawnOwes ==
  ASSUME TypeOK, OwedInv, StartSpawn
  PROVE  OwedInv'
<1> USE ThreadsAssumption DEF Threads, Creators, Receivers
<1>1. PICK t \in Listeners : ~Alive(t) /\ current' = t
  BY DEF StartSpawn
<1>2. /\ pc[Browser] = "spawn" /\ pc' = [pc EXCEPT ![Browser] = "launch"]
      /\ UNCHANGED <<sock, pending, removals>>
  BY DEF StartSpawn, Go, rest, world
<1>3. \A u \in Listeners : pc'[u] = pc[u]
  BY <1>2 DEF TypeOK
<1>4. ~Unwaited' /\ Spawning'
  BY <1>1, <1>2, <1>3 DEF Unwaited, Alive, OwedInv, Spawning, TypeOK
<1>5. Count(Unwaited)' = 0
  BY <1>4 DEF Count
<1>6. Count(pc[Browser] = "forget") = 0 /\ Count(pc[Browser] = "forget")' = 0
  BY <1>2 DEF Count, TypeOK
<1>7. Cardinality(Others') <= Cardinality(Others) + Count(Unwaited)
      /\ Cardinality(Others) \in Nat /\ Cardinality(Others') \in Nat
  <2>1. Others \subseteq Listeners /\ Others' \subseteq Listeners
    BY DEF Others
  <2>2. IsFiniteSet(Others) /\ Cardinality(Others) \in Nat /\ Cardinality(Others') \in Nat
    BY <2>1, ThreadSets
  <2>3. CASE Unwaited
    <3>1. Count(Unwaited) = 1
      BY <2>3 DEF Count
    <3>2. current \notin Others /\ current \in Listeners
      BY <2>3 DEF Others, Unwaited, TypeOK
    <3>3. Others' \subseteq Others \cup {current}
      BY <1>1, <1>3 DEF Others, Alive
    <3>4. /\ Cardinality(Others \cup {current}) = Cardinality(Others) + 1
          /\ Others \cup {current} \subseteq Listeners
      BY <2>1, <2>2, <3>2, FS_AddElement
    <3>5. Cardinality(Others') <= Cardinality(Others \cup {current})
      BY <3>3, <3>4, ThreadSets
    <3> QED BY <2>2, <3>1, <3>4, <3>5
  <2>4. CASE ~Unwaited
    <3>1. Count(Unwaited) = 0
      BY <2>4 DEF Count
    <3>2. \A u \in Listeners : u = current => ~Alive(u)
      BY <1>2, <2>4, ValuesAssumption DEF Unwaited, Making
    <3>3. Others' \subseteq Others
      BY <1>1, <1>3, <3>2 DEF Others, Alive
    <3>4. Cardinality(Others') <= Cardinality(Others)
      BY <2>1, <3>3, ThreadSets
    <3> QED BY <2>2, <3>1, <3>4
  <2> QED BY <2>3, <2>4
<1>8. Cardinality(Removed(pending)) \in Nat /\ Count(Unwaited) \in Nat
  BY EventAppended DEF TypeOK, Events, Count
<1>9. Owed'
  BY <1>2, <1>5, <1>6, <1>7, <1>8 DEF OwedInv, Owed, TypeOK
<1> QED BY <1>4, <1>9 DEF OwedInv

\* It starts: it is the current one.
LEMMA LaunchOwes ==
  ASSUME TypeOK, OwedInv, StartLaunch
  PROVE  OwedInv'
<1> USE ThreadsAssumption DEF Threads, Creators, Receivers
<1>1. /\ pc[Browser] = "launch" /\ UNCHANGED <<sock, current, pending, removals>>
      /\ pc' = [pc EXCEPT ![Browser] = "idle", ![current] = "loop"]
      /\ current # None /\ sock # None
  BY DEF StartLaunch, object, world, OwedInv, Spawning
<1>2. current \in Listeners /\ pc'[Browser] = "idle"
  BY <1>1 DEF TypeOK
<1>3. \A u \in Listeners : u # current => pc'[u] = pc[u]
  BY <1>1, <1>2 DEF TypeOK
<1>4. Others' = Others
  BY <1>1, <1>3 DEF Others, Alive
<1>5. ~Unwaited' /\ Spawning'
  BY <1>1, <1>2 DEF Unwaited, Making, Spawning
<1>6. Count(Unwaited)' = 0 /\ Count(pc[Browser] = "forget")' = 0
  BY <1>2, <1>5 DEF Count
<1>7. /\ Cardinality(Removed(pending)) \in Nat /\ Count(Unwaited) \in Nat
      /\ Count(pc[Browser] = "forget") \in Nat
  BY EventAppended DEF TypeOK, Events, Count
<1>8. Cardinality(Others) \in Nat
  <2>1. Others \subseteq Listeners
    BY DEF Others
  <2> QED BY <2>1, ThreadSets
<1>9. Owed'
  BY <1>1, <1>4, <1>6, <1>7, <1>8 DEF OwedInv, Owed, TypeOK
<1> QED BY <1>5, <1>9 DEF OwedInv

\* Every step keeps the account.
LEMMA OwedStep == TypeOK /\ EndpointInv /\ OwedInv /\ [Next]_vars => OwedInv'
<1> SUFFICES ASSUME TypeOK, EndpointInv, OwedInv, [Next]_vars PROVE OwedInv'
  OBVIOUS
<1> QED
  BY CalmStep, CalmKeeps, PublishOwes, HandleOwes, ForgetOwes, SpawnOwes, LaunchOwes
     DEF Next, Browse

\* At the start there is no thread and no withdrawal.
LEMMA InitOwed == Init => OwedInv
<1> SUFFICES ASSUME Init PROVE OwedInv
  OBVIOUS
<1> USE ThreadsAssumption DEF Threads, Creators, Receivers
<1>1. pc[Browser] = "idle" /\ \A t \in Listeners : ~Alive(t)
  BY DEF Init, Alive
<1>2. Others = {} /\ ~Unwaited /\ removals = 0 /\ pending = <<>>
  BY <1>1 DEF Init, Others, Unwaited
<1>3. Removed(pending) = {}
  <2>1. Len(<<>>) = 0
    OBVIOUS
  <2>2. 1..Len(pending) = {}
    BY <1>2, <2>1
  <2> QED BY <2>2 DEF Removed
<1>4. Cardinality({}) = 0
  BY FS_EmptySet
<1>5. Count(Unwaited) = 0 /\ Count(pc[Browser] = "forget") = 0
  BY <1>1, <1>2 DEF Count
<1>6. Owed /\ Spawning
  <2>1. Cardinality(Others) = 0 /\ Cardinality(Removed(pending)) = 0
    BY <1>2, <1>3, <1>4
  <2>2. Owed
    BY <1>2, <1>5, <2>1 DEF Owed
  <2> QED BY <1>1, <2>2 DEF Spawning
<1> QED BY <1>6 DEF OwedInv

\* There are never more threads than the current one and one for each time the
\* publisher was withdrawn, whatever fails and however announcements, restarts
\* and stops interleave.
THEOREM ThreadsBounded == Spec => []ListenersBounded
<1>1. Spec => []OwedInv
  <2>1. Inv => TypeOK /\ EndpointInv
    BY DEF Inv
  <2> QED BY <2>1, Invariance, InitOwed, OwedStep, PTL DEF Spec
<1>2. TypeOK /\ OwedInv => ListenersBounded
  <2> SUFFICES ASSUME TypeOK, OwedInv PROVE ListenersBounded
    OBVIOUS
  <2> DEFINE A == {t \in Listeners : Alive(t)}
  <2>1. /\ Others \subseteq Listeners /\ IsFiniteSet(Others) /\ Cardinality(Others) \in Nat
        /\ current \notin Others
    <3>1. Others \subseteq Listeners
      BY DEF Others
    <3> QED BY <3>1, ThreadSets DEF Others
  <2>2. Cardinality(Others) <= removals
    <3>1. /\ Cardinality(Removed(pending)) \in Nat /\ Count(Unwaited) \in Nat
          /\ Count(pc[Browser] = "forget") \in Nat
      BY EventAppended DEF TypeOK, Events, Count
    <3> QED BY <2>1, <3>1 DEF OwedInv, Owed, TypeOK
  <2>3. Cardinality(A) \in Nat /\ Cardinality(A) <= Cardinality(Others) + 1
    <3>1. A \subseteq Others \cup {current}
      BY DEF Others
    <3>2. /\ IsFiniteSet(Others \cup {current})
          /\ Cardinality(Others \cup {current}) = Cardinality(Others) + 1
      BY <2>1, FS_AddElement
    <3>3. IsFiniteSet(A) /\ Cardinality(A) <= Cardinality(Others \cup {current})
      BY <3>1, <3>2, FS_Subset
    <3> QED BY <3>2, <3>3, FS_CardinalityType
  <2> QED BY <2>1, <2>2, <2>3 DEF ListenersBounded, TypeOK
<1> QED BY <1>1, <1>2, TypeCorrect, PTL
-----------------------------------------------------------------------------
(* A subscription implements Feed.                                         *)

(* What the mapping needs beside Inv: a listening thread has a message in  *)
(* hand exactly while it processes one; a restart works on one endpoint,   *)
(* and hands over to a thread that is not running yet; no handler runs     *)
(* once stop() has returned.                                               *)
FeedInv ==
  /\ \A t \in Listeners : got[t] # None <=> pc[t] \in {"decode", "callback"}
  /\ pc[Browser] \in Restarting \/ outcome = "joined" => iface = recorded
  /\ pc[Browser] = "launch" => current # None /\ ~Alive(current)
  /\ outcome = "joined" => current # None
  /\ pc[Stopper] = "stopped" => pc[Browser] = "exited"

\* Every step keeps what the mapping needs.
LEMMA FeedInvStep == Inv /\ FeedInv /\ [Next]_vars => FeedInv'
<1> SUFFICES ASSUME TypeOK, EndpointInv, FreshInv, FeedInv, [Next]_vars
             PROVE  FeedInv'
  BY DEF Inv
<1> USE ThreadsAssumption, ValuesAssumption
    DEF TypeOK, FreshInv, EndpointInv, FeedInv, Restarting, Alive, Threads,
        Creators, Receivers, Home, Go, Return, object, place, locals, rest, world
<1>1. CASE Publish
  BY <1>1 DEF Publish, Announce, Withdraw
<1>2. ASSUME NEW t \in Creators, Create(t) PROVE FeedInv'
  <2>1. /\ UNCHANGED <<got, current, recorded, iface>>
        /\ outcome' \in {outcome, "create_failed"}
    BY <1>2 DEF Create, CreateBegin, Created, CreateOpen, JoinSucceeds,
      CreateFails, Refused, JoinMissing, CreateRaised
  <2>2. /\ pc[t] \in {"create", "open", "join"}
        /\ \E label \in {"create", "open", "join", "idle", "clear", "attempt", "loop", "exited"} :
             Go(t, label)
    BY <1>2 DEF Create, CreateBegin, Created, CreateOpen, JoinSucceeds,
      CreateFails, Refused, JoinMissing, CreateRaised
  <2> QED BY <2>1, <2>2
<1>3. ASSUME NEW t \in Receivers,
             ListenLoop(t) \/ ListenOnce(t) \/ SubscribeBegin(t) \/ AttemptEnds(t)
             \/ AttemptBegin(t) \/ ReceiveTimeout(t) \/ ReceiveError(t)
      PROVE  FeedInv'
  <2>1. UNCHANGED <<got, current, recorded, iface, outcome>>
    BY <1>3 DEF ListenLoop, ListenOnce, SubscribeBegin, AttemptEnds,
      AttemptBegin, ReceiveTimeout, ReceiveError
  <2>2. /\ pc[t] \in {"loop", "idle", "subscribe", "attempt", "receiving"}
        /\ pc[t] = "idle" => t \notin Listeners
        /\ \E label \in {"loop", "dead", "idle", "subscribe", "attempt", "receiving", "create"} :
             Go(t, label)
    BY <1>3 DEF ListenLoop, ListenOnce, SubscribeBegin, AttemptEnds,
      AttemptBegin, ReceiveRaises, ReceiveTimeout, ReceiveError
  <2> QED BY <2>1, <2>2
<1>4. ASSUME NEW t \in Receivers, ReceivePacket(t) PROVE FeedInv'
  BY <1>4 DEF ReceivePacket
<1>5. ASSUME NEW t \in Receivers, Decode(t) \/ Callback(t) PROVE FeedInv'
  BY <1>5 DEF Decode, Callback
<1>6. CASE HandleUnresolved \/ HandleAnnounced \/ LookupSucceeds \/ LookupFails
  BY <1>6 DEF HandleUnresolved, HandleAnnounced, LookupSucceeds, LookupFails
<1>7. CASE RestartBegin
  <2>1. UNCHANGED <<got, current, recorded, iface, outcome>>
    BY <1>7 DEF RestartBegin
  <2>2. /\ pc[Browser] = "restart"
        /\ \E label \in {"create", "wait"} : Go(Browser, label)
    BY <1>7 DEF RestartBegin
  <2> QED BY <2>1, <2>2
<1>8. CASE RestartWait \/ StartClear
  <2>1. UNCHANGED <<got, current, recorded, iface, outcome>>
    BY <1>8 DEF RestartWait, StartClear
  <2>2. /\ pc[Browser] \in {"wait", "clear"}
        /\ UNCHANGED pc \/ \E label \in {"create", "spawn"} : Go(Browser, label)
    BY <1>8 DEF RestartWait, StartClear
  <2> QED BY <2>1, <2>2
<1>9. CASE StartSpawn
  BY <1>9 DEF StartSpawn
<1>10. CASE StartLaunch
  BY <1>10 DEF StartLaunch
<1>11. CASE HandleRemovedIgnored \/ HandleRemoved \/ ForgetSocket \/ BrowserExit
  <2>1. /\ UNCHANGED <<got, current, recorded, iface>>
        /\ outcome' \in {outcome, "removed"}
    BY <1>11 DEF HandleRemovedIgnored, HandleRemoved, ForgetSocket, BrowserExit
  <2>2. /\ pc[Browser] \in {"idle", "forget"}
        /\ \/ UNCHANGED pc
           \/ \E label \in {"idle", "forget", "exited"} : Go(Browser, label)
    BY <1>11 DEF HandleRemovedIgnored, HandleRemoved, ForgetSocket, BrowserExit
  <2> QED BY <2>1, <2>2
<1>12. CASE Stop
  <2>1. UNCHANGED <<got, current, recorded, iface, outcome>>
    BY <1>12 DEF Stop, StopSignal, StopClose, StopListener, StopJoined, StopReturns
  <2>2. \E label \in StopperLabels :
          Go(Stopper, label) /\ (label = "stopped" => pc[Browser] = "exited")
    BY <1>12 DEF Stop, StopSignal, StopClose, StopListener, StopJoined,
      StopReturns, StopperLabels
  <2> QED BY <2>1, <2>2
<1>13. CASE UNCHANGED vars
  BY <1>13 DEF vars
<1> QED
  BY <1>1, <1>2, <1>3, <1>4, <1>5, <1>6, <1>7, <1>8, <1>9, <1>10, <1>11, <1>12,
     <1>13 DEF Next, Browse, Receive

(* The image of a state.                                                   *)
Reader == IF outcome = "joined" THEN current ELSE None
Hand   == [t \in Listeners |-> got[t]]
Shown  == {t \in Listeners : pc[t] = "callback"}
Phase  == CASE pc[Stopper] = "running" -> "open"
            [] pc[Stopper] = "stopped" -> "closed"
            [] OTHER -> "closing"

\* What does not change in the image: the hands of the listening threads, the
\* threads that run callbacks and the phase.
LEMMA HandsKept ==
  ASSUME \A t \in Listeners : got'[t] = got[t]
  PROVE  Hand' = Hand
BY DEF Hand

LEMMA ShownKept ==
  ASSUME \A t \in Listeners : pc'[t] = "callback" <=> pc[t] = "callback"
  PROVE  Shown' = Shown
BY DEF Shown

LEMMA PhaseKept ==
  ASSUME pc'[Stopper] = pc[Stopper]
  PROVE  Phase' = Phase
BY DEF Phase

LEMMA HandSet ==
  ASSUME TypeOK, NEW t \in Listeners, NEW o, got' = [got EXCEPT ![t] = o]
  PROVE  Hand' = [Hand EXCEPT ![t] = o]
<1>1. t \in DOMAIN got /\ \A x \in Listeners : x \in DOMAIN got
  BY DEF TypeOK, Receivers
<1>2. \A x \in Listeners : got'[x] = IF x = t THEN o ELSE got[x]
  BY <1>1
<1> QED BY <1>2 DEF Hand

\* A step that shows none of this is a stutter.
LEMMA Unseen ==
  ASSUME UNCHANGED <<advert, recorded, removals>>, Reader' = Reader,
         Hand' = Hand, Shown' = Shown, Phase' = Phase
  PROVE  UNCHANGED Abstract!vars
BY DEF Abstract!vars, Reader, Hand, Shown, Phase

\* The steps of the publisher are those of Feed.
LEMMA PublishShows ==
  ASSUME TypeOK, Publish
  PROVE  Abstract!Next
<1>1. Reader' = Reader /\ Hand' = Hand /\ Shown' = Shown /\ Phase' = Phase
  BY DEF Publish, Announce, Withdraw, object, locals, Reader, Hand, Shown, Phase
<1>2. UNCHANGED recorded
  BY DEF Publish, Announce, Withdraw, object, place
<1>3. ASSUME NEW e \in Endpoints, Announce(e) PROVE Abstract!Announce
  BY <1>1, <1>2, <1>3
     DEF Announce, Abstract!Announce, Reader, Hand, Shown, Phase
<1>4. CASE Withdraw
  <2>1. removals' > 0 /\ advert' = None
    BY <1>4 DEF Withdraw, TypeOK
  <2>2. Abstract!Withdraw
    BY <1>1, <1>2, <2>1 DEF Abstract!Withdraw, Reader, Hand, Shown, Phase
  <2> QED BY <2>2 DEF Abstract!Next
<1> QED BY <1>3, <1>4 DEF Publish, Abstract!Next

\* A handler that finds the service follows what is announced.
LEMMA HandleFollows ==
  ASSUME TypeOK, FeedInv, HandleAnnounced
  PROVE  Abstract!Follow
<1>1. /\ pc' = [pc EXCEPT ![Browser] = "lookup"] /\ UNCHANGED <<got, advert, removals>>
      /\ advert # None /\ recorded' = advert
  BY DEF HandleAnnounced, Go, locals
<1>2. Hand' = Hand /\ Shown' = Shown /\ Phase' = Phase
  BY <1>1, ThreadsAssumption DEF Hand, Shown, Phase, TypeOK, Threads, Creators, Receivers
<1>3. Reader' = None
  BY DEF Reader, HandleAnnounced
<1>4. Phase # "closed"
  BY DEF HandleAnnounced, FeedInv, Phase, TypeOK
<1> QED BY <1>1, <1>2, <1>3, <1>4 DEF Abstract!Follow, Reader, Hand, Shown, Phase

\* The end of a restart hands the topic over: the thread it starts has nothing
\* in hand, and without a withdrawal no other thread has.
LEMMA LaunchHandsOver ==
  ASSUME Inv, FeedInv, StartLaunch
  PROVE  \E t \in Listeners : Abstract!HandOver(t)
<1>1. /\ pc[Browser] = "launch" /\ pc[Stopper] # "stopped"
      /\ current \in Listeners /\ recorded # None /\ outcome # "joined"
      /\ pc[current] = "dead"
      /\ removals = 0 \/ removals > 0
  BY DEF StartLaunch, Inv, FeedInv, FreshInv, EndpointInv, Known, Restarting, TypeOK, Alive
<1>2. /\ pc' = [pc EXCEPT ![Browser] = "idle", ![current] = "loop"]
      /\ outcome' = "joined"
      /\ UNCHANGED <<got, advert, recorded, removals, current>>
  BY DEF StartLaunch, object, place, locals, world
<1>3. Hand' = Hand /\ Shown' = Shown /\ Phase' = Phase
  BY <1>1, <1>2, ThreadsAssumption
     DEF Hand, Shown, Phase, Inv, TypeOK, Threads, Creators, Receivers
<1>4. Reader = None /\ Reader' = current
  BY <1>1, <1>2 DEF Reader
<1>5. Phase # "closed"
  BY <1>1 DEF Phase
<1>6. Hand[current] = None
  BY <1>1 DEF Hand, FeedInv
<1>7. removals = 0 => \A t \in Listeners : Hand[t] = None
  BY <1>1 DEF Inv, OneListenerInv, NoListener, Alive, FeedInv, Hand
<1>8. Abstract!HandOver(current)
  BY <1>1, <1>2, <1>3, <1>4, <1>5, <1>6, <1>7
     DEF Abstract!HandOver, Abstract!Idle, Reader, Hand, Shown, Phase
<1> QED BY <1>1, <1>8

\* Only a withdrawal takes the topic back without an announcement.
LEMMA ForgetLoses ==
  ASSUME Inv, FeedInv, ForgetSocket
  PROVE  Abstract!Lose
<1>1. /\ pc' = [pc EXCEPT ![Browser] = "idle"] /\ outcome' = "removed"
      /\ UNCHANGED <<got, advert, recorded, removals>>
      /\ pc[Browser] = "forget"
  BY DEF ForgetSocket, Go, place, locals, world
<1>2. Hand' = Hand /\ Shown' = Shown /\ Phase' = Phase
  BY <1>1, ThreadsAssumption DEF Hand, Shown, Phase, Inv, TypeOK, Threads, Creators, Receivers
<1>3. Reader' = None
  BY <1>1 DEF Reader
<1>4. Phase # "closed"
  BY <1>1 DEF FeedInv, Phase
<1>5. removals > 0
  BY <1>1 DEF Inv, OneListenerInv, TypeOK
<1> QED BY <1>1, <1>2, <1>3, <1>4, <1>5 DEF Abstract!Lose, Reader, Hand, Shown, Phase

\* A packet is taken by the thread that has the topic, from the endpoint
\* followed; without a withdrawal no other thread takes one or has one.
LEMMA PacketTaken ==
  ASSUME Inv, FeedInv, NEW t \in Listeners, ReceivePacket(t)
  PROVE  \E origin \in Endpoints \X Endpoints : Abstract!Take(t, origin)
<1>0. t \in Receivers /\ t \in Threads /\ t # Stopper
  BY ThreadsAssumption DEF Threads, Creators, Receivers
<1>1. PICK from \in Endpoints \X Endpoints : from = link[rsock[t]].member
  <2>1. pc[t] = "receiving" /\ link[rsock[t]].member # None
    BY DEF ReceivePacket
  <2>2. rsock[t] \in Sockets
    BY <1>0, <2>1 DEF Inv, TypeOK, EndpointInv
  <2>3. link[rsock[t]] \in Links
    BY <2>2 DEF Inv, TypeOK
  <2> QED BY <2>1, <2>3 DEF Links, Origins
<1>2. /\ pc[t] = "receiving" /\ from # None
      /\ pc' = [pc EXCEPT ![t] = "decode"] /\ got' = [got EXCEPT ![t] = from]
      /\ UNCHANGED <<advert, recorded, removals, current, outcome>>
  BY <1>1 DEF ReceivePacket, Go, object, place, rest, world
<1>3. Hand' = [Hand EXCEPT ![t] = from]
  BY <1>2, HandSet DEF Inv
<1>4. Shown' = Shown /\ Phase' = Phase /\ Reader' = Reader
  BY <1>0, <1>2 DEF Shown, Phase, Reader, Inv, TypeOK
<1>5. Hand[t] = None
  BY <1>2 DEF Hand, FeedInv
<1>6. removals = 0 => (\A x \in Listeners : Hand[x] = None) /\ Reader \in {t, None}
  <2> SUFFICES ASSUME removals = 0
               PROVE  (\A x \in Listeners : Hand[x] = None) /\ Reader \in {t, None}
    OBVIOUS
  <2>1. \A x \in Listeners : Alive(x) => x = current
    BY DEF Inv, OneListenerInv
  <2>2. current = t
    BY <1>2, <2>1 DEF Alive
  <2>3. ASSUME NEW x \in Listeners PROVE Hand[x] = None
    BY <1>5, <2>1, <2>2 DEF Hand, FeedInv, Alive
  <2> QED BY <2>2, <2>3 DEF Reader
<1>7. t = Reader => from = <<recorded, recorded>>
  <2> SUFFICES ASSUME t = Reader PROVE from = <<recorded, recorded>>
    OBVIOUS
  <2>1. t # None
    BY <1>0, ThreadsAssumption
  <2>2. outcome = "joined" /\ current = t /\ current # None
    BY <2>1 DEF Reader
  <2>3. from = Wanted
    BY <1>1, <1>2, <2>2 DEF Inv, FreshInv
  <2> QED BY <2>2, <2>3 DEF Wanted, FeedInv
<1>8. removals = 0 \/ removals > 0
  BY DEF Inv, TypeOK
<1>9. Abstract!Take(t, from)
  BY <1>2, <1>3, <1>4, <1>5, <1>6, <1>7, <1>8
     DEF Abstract!Take, Abstract!Idle, Reader, Hand, Shown, Phase
<1> QED BY <1>9

\* Decoding ends in the callbacks, or drops the message when it may.
LEMMA DecodeShows ==
  ASSUME Inv, FeedInv, NEW t \in Listeners, Decode(t)
  PROVE  Abstract!Show(t) \/ Abstract!Drop(t)
<1>1. t \in Receivers /\ t \in Threads /\ t # Stopper
  BY ThreadsAssumption DEF Threads, Creators, Receivers
<1>2. pc[t] = "decode" /\ UNCHANGED <<advert, recorded, removals, current, outcome>>
  BY DEF Decode, object, place, rest, world
<1>3. Hand[t] # None /\ t \notin Shown /\ Reader' = Reader
  BY <1>2 DEF Hand, Shown, Reader, FeedInv
<1>4. CASE sock # None /\ ~link[sock].open
  <2>1. pc' = [pc EXCEPT ![t] = "loop"] /\ got' = [got EXCEPT ![t] = None]
    BY <1>4 DEF Decode, Go, Home
  <2>2. Hand' = [Hand EXCEPT ![t] = None]
    BY <2>1, HandSet DEF Inv
  <2>3. Shown' = Shown /\ Phase' = Phase
    BY <1>1, <1>2, <2>1 DEF Shown, Phase, Inv, TypeOK
  <2>4. Next
    BY <1>1 DEF Next, Receive
  <2>5. Delivers
    BY <2>4, DecodeStep DEF Inv
  <2>6. Phase # "open" \/ removals > 0 \/ ~(Callers = {})
    <3>1. pc'[t] = "loop"
      BY <1>1, <2>1 DEF Inv, TypeOK
    <3>2. pc[Stopper] # "running" => Phase # "open"
      BY DEF Phase
    <3> QED BY <1>2, <2>5, <3>1, <3>2 DEF Delivers
  <2>7. Abstract!Drop(t)
    BY <1>2, <1>3, <2>2, <2>3, <2>6 DEF Abstract!Drop, Reader, Hand, Shown, Phase
  <2> QED BY <2>7
<1>5. CASE ~(sock # None /\ ~link[sock].open)
  <2>1. pc' = [pc EXCEPT ![t] = "callback"] /\ got' = [got EXCEPT ![t] = got[t]]
    BY <1>5 DEF Decode, Go
  <2>2. Hand' = Hand
    BY <1>1, <2>1 DEF Hand, Inv, TypeOK
  <2>3. Shown' = Shown \cup {t} /\ Phase' = Phase
    BY <1>1, <1>2, <2>1 DEF Shown, Phase, Inv, TypeOK
  <2>4. Abstract!Show(t)
    BY <1>2, <1>3, <2>2, <2>3 DEF Abstract!Show, Reader, Hand, Shown, Phase
  <2> QED BY <2>4
<1> QED BY <1>4, <1>5

\* The end of the callbacks empties the hand.
LEMMA CallbackDone ==
  ASSUME Inv, NEW t \in Listeners, Callback(t)
  PROVE  Abstract!Done(t)
<1>1. t \in Receivers /\ t \in Threads /\ t # Stopper
  BY ThreadsAssumption DEF Threads, Creators, Receivers
<1>2. /\ pc[t] = "callback" /\ UNCHANGED <<advert, recorded, removals, current, outcome>>
      /\ pc' = [pc EXCEPT ![t] = "loop"] /\ got' = [got EXCEPT ![t] = None]
  BY DEF Callback, object, place, rest, world, Go, Home
<1>3. Hand' = [Hand EXCEPT ![t] = None]
  BY <1>2, HandSet DEF Inv
<1>4. t \in Shown /\ Shown' = Shown \ {t} /\ Phase' = Phase /\ Reader' = Reader
  BY <1>1, <1>2 DEF Shown, Phase, Reader, Inv, TypeOK
<1> QED BY <1>2, <1>3, <1>4 DEF Abstract!Done, Reader, Hand, Shown, Phase

\* stop() closes the feed in two steps, and shows no other.
LEMMA StopCloses ==
  ASSUME Inv, Stop
  PROVE  Abstract!Close \/ UNCHANGED Abstract!vars
<1>1. /\ UNCHANGED <<advert, recorded, removals, current, outcome, got>>
      /\ \E label \in StopperLabels : pc' = [pc EXCEPT ![Stopper] = label]
  BY DEF Stop, StopSignal, StopClose, StopListener, StopJoined, StopReturns,
    Go, object, place, rest, world, locals, StopperLabels
<1>2. Hand' = Hand /\ Shown' = Shown /\ Reader' = Reader
  BY <1>1, ThreadsAssumption
     DEF Hand, Shown, Reader, Inv, TypeOK, Threads, Creators, Receivers
<1>3. Stopper \in DOMAIN pc
  BY DEF Inv, TypeOK, Threads
<1>4. \/ Phase = "open" /\ Phase' = "closing"
      \/ Phase = "closing" /\ Phase' = "closed"
      \/ Phase' = Phase
  <2>1. CASE StopSignal
    <3>1. pc[Stopper] = "running" /\ pc'[Stopper] = "closing"
      BY <1>3, <2>1 DEF StopSignal, Go
    <3> QED BY <3>1 DEF Phase
  <2>2. CASE StopReturns
    <3>1. pc[Stopper] = "cancelling" /\ pc'[Stopper] = "stopped"
      BY <1>3, <2>2 DEF StopReturns, Go
    <3> QED BY <3>1 DEF Phase
  <2>3. CASE StopClose \/ StopListener \/ StopJoined
    <3>1. /\ pc[Stopper] \in {"closing", "joining", "joined"}
          /\ pc'[Stopper] \in {"joining", "joined", "cancelling"}
      BY <1>3, <2>3 DEF StopClose, StopListener, StopJoined, Go
    <3>2. Phase = "closing"
      BY <3>1 DEF Phase
    <3>3. Phase' = "closing"
      BY <3>1 DEF Phase
    <3> QED BY <3>2, <3>3
  <2> QED BY <2>1, <2>2, <2>3 DEF Stop
<1>5. CASE Phase' = Phase
  BY <1>1, <1>2, <1>5, Unseen
<1>6. CASE \/ Phase = "open" /\ Phase' = "closing"
           \/ Phase = "closing" /\ Phase' = "closed"
  BY <1>1, <1>2, <1>6 DEF Abstract!Close, Reader, Hand, Shown, Phase
<1> QED BY <1>4, <1>5, <1>6

\* The other steps of the browser are not seen: none of them completes a
\* restart, or undoes one.
LEMMA BrowserUnseen ==
  ASSUME Inv, FeedInv,
         \/ HandleUnresolved \/ LookupSucceeds \/ LookupFails \/ RestartBegin
         \/ RestartWait \/ StartClear \/ StartSpawn \/ HandleRemovedIgnored
         \/ HandleRemoved \/ BrowserExit
  PROVE  UNCHANGED Abstract!vars
<1>1. /\ UNCHANGED <<advert, recorded, removals, got>>
      /\ \E label \in BrowserLabels : pc' = [pc EXCEPT ![Browser] = label]
  BY DEF HandleUnresolved, LookupSucceeds, LookupFails, RestartBegin,
    RestartWait, StartClear, StartSpawn, HandleRemovedIgnored, HandleRemoved,
    BrowserExit, Go, object, place, rest, world, locals, BrowserLabels, Inv, TypeOK
<1>2. \/ UNCHANGED <<outcome, current>>
      \/ outcome # "joined" /\ outcome' # "joined"
  BY DEF HandleUnresolved, LookupSucceeds, LookupFails, RestartBegin,
    RestartWait, StartClear, StartSpawn, HandleRemovedIgnored, HandleRemoved,
    BrowserExit, object, rest, Inv, FreshInv
<1>3. Reader' = Reader
  BY <1>2 DEF Reader
<1>4. Hand' = Hand /\ Shown' = Shown /\ Phase' = Phase
  BY <1>1, ThreadsAssumption
     DEF Hand, Shown, Phase, Inv, TypeOK, Threads, Creators, Receivers
<1> QED BY <1>1, <1>3, <1>4, Unseen

\* Nor is the creation of a socket, by whatever thread, ...
LEMMA CreateUnseen ==
  ASSUME Inv, NEW t \in Creators, Create(t)
  PROVE  UNCHANGED Abstract!vars
<1>1. t \in Threads /\ t # Stopper
  BY ThreadsAssumption DEF Threads
<1>2. /\ UNCHANGED <<advert, recorded, removals, got, current>>
      /\ pc[t] \in {"create", "open", "join"}
      /\ \E label \in {"create", "open", "join", "idle", "clear", "attempt", "loop", "exited"} :
           pc' = [pc EXCEPT ![t] = label]
  <2>1. UNCHANGED <<advert, recorded, removals, got, current>>
    BY DEF Create, CreateBegin, CreateOpen, JoinSucceeds, CreateFails, Refused,
      JoinMissing, object, place, rest, world, locals
  <2>2. ASSUME CreateRaised(t) \/ Created(t)
        PROVE  \E label \in {"idle", "clear", "attempt", "loop", "exited"} :
                 pc' = [pc EXCEPT ![t] = label]
    BY <2>2 DEF CreateRaised, Created, Go, Return, Home
  <2> QED
    BY <2>1, <2>2 DEF Create, CreateBegin, CreateOpen, JoinSucceeds, CreateFails, Refused,
      JoinMissing, Go
<1>3. UNCHANGED outcome \/ (outcome # "joined" /\ outcome' # "joined")
  <2>1. CASE t = Browser
    BY <1>2, <2>1 DEF Create, CreateBegin, CreateOpen, JoinSucceeds, CreateFails, Refused,
      JoinMissing, CreateRaised, rest, Inv, FreshInv
  <2>2. CASE t # Browser
    BY <2>2 DEF Create, CreateBegin, CreateOpen, JoinSucceeds, CreateFails, Refused,
      JoinMissing, CreateRaised, rest
  <2> QED BY <2>1, <2>2
<1>4. Reader' = Reader
  BY <1>2, <1>3 DEF Reader
<1>5. Hand' = Hand /\ Shown' = Shown /\ Phase' = Phase
  BY <1>1, <1>2 DEF Hand, Shown, Phase, Inv, TypeOK
<1> QED BY <1>2, <1>4, <1>5, Unseen

\* ... the way of a receiver to a packet, ...
LEMMA WaitingUnseen ==
  ASSUME Inv, NEW t \in Receivers,
         \/ ListenLoop(t) \/ ListenOnce(t) \/ SubscribeBegin(t) \/ AttemptEnds(t)
         \/ AttemptBegin(t) \/ ReceiveTimeout(t) \/ ReceiveError(t)
  PROVE  UNCHANGED Abstract!vars
<1>1. t \in Threads /\ t # Stopper
  BY ThreadsAssumption DEF Threads, Creators
<1>2. UNCHANGED <<advert, recorded, removals, got, current, outcome>>
  BY DEF ListenLoop, ListenOnce, SubscribeBegin, AttemptEnds, AttemptBegin,
    ReceiveTimeout, ReceiveError, object, place, rest, world, locals
<1>3. /\ pc[t] \in {"loop", "idle", "subscribe", "attempt", "receiving"}
      /\ \E label \in {"loop", "dead", "idle", "subscribe", "attempt", "receiving", "create"} :
           pc' = [pc EXCEPT ![t] = label]
  BY DEF ListenLoop, ListenOnce, SubscribeBegin, AttemptEnds, AttemptBegin,
    ReceiveRaises, ReceiveTimeout, ReceiveError, Go, Return, Home
<1>4. Reader' = Reader /\ Hand' = Hand
  BY <1>2 DEF Reader, Hand
<1>5. Shown' = Shown /\ Phase' = Phase
  BY <1>1, <1>3 DEF Shown, Phase, Inv, TypeOK
<1> QED BY <1>2, <1>4, <1>5, Unseen

\* ... or what a caller of listen_once receives.
LEMMA CallerUnseen ==
  ASSUME Inv, NEW t \in Callers, ReceivePacket(t) \/ Decode(t) \/ Callback(t)
  PROVE  UNCHANGED Abstract!vars
<1>1. t \in Threads /\ t # Stopper /\ t \notin Listeners
  BY ThreadsAssumption DEF Threads, Creators, Receivers
<1>2. /\ UNCHANGED <<advert, recorded, removals, current, outcome>>
      /\ \E o : got' = [got EXCEPT ![t] = o]
      /\ \E label : pc' = [pc EXCEPT ![t] = label]
  BY DEF ReceivePacket, Decode, Callback, Go, object, place, rest, world
<1>3. \A x \in Listeners : x \in DOMAIN got /\ x \in DOMAIN pc
  BY DEF Inv, TypeOK, Receivers, Threads, Creators
<1>4. Reader' = Reader /\ Hand' = Hand
  BY <1>1, <1>2, <1>3 DEF Reader, Hand
<1>5. Shown' = Shown /\ Phase' = Phase
  BY <1>1, <1>2, <1>3 DEF Shown, Phase, Inv, TypeOK
<1> QED BY <1>2, <1>4, <1>5, Unseen

\* Every step of a subscription is a step of Feed or a stutter.
LEMMA NextFeeds ==
  ASSUME Inv, FeedInv, [Next]_vars
  PROVE  [Abstract!Next]_(Abstract!vars)
<1>1. CASE Publish
  BY <1>1, PublishShows DEF Inv
<1>2. CASE HandleAnnounced
  BY <1>2, HandleFollows DEF Inv, Abstract!Next
<1>3. CASE StartLaunch
  BY <1>3, LaunchHandsOver DEF Abstract!Next
<1>4. CASE ForgetSocket
  BY <1>4, ForgetLoses DEF Abstract!Next
<1>5. CASE \/ HandleUnresolved \/ LookupSucceeds \/ LookupFails \/ RestartBegin
           \/ RestartWait \/ StartClear \/ StartSpawn \/ HandleRemovedIgnored
           \/ HandleRemoved \/ BrowserExit
  BY <1>5, BrowserUnseen
<1>6. ASSUME NEW t \in Creators, Create(t) PROVE UNCHANGED Abstract!vars
  BY <1>6, CreateUnseen
<1>7. CASE Stop
  BY <1>7, StopCloses DEF Abstract!Next
<1>8. ASSUME NEW t \in Receivers, Receive(t)
      PROVE  Abstract!Next \/ UNCHANGED Abstract!vars
  <2>1. CASE t \in Callers /\ (ReceivePacket(t) \/ Decode(t) \/ Callback(t))
    BY <2>1, CallerUnseen
  <2>2. CASE t \in Listeners /\ ReceivePacket(t)
    BY <2>2, PacketTaken DEF Abstract!Next
  <2>3. CASE t \in Listeners /\ Decode(t)
    BY <2>3, DecodeShows DEF Abstract!Next
  <2>4. CASE t \in Listeners /\ Callback(t)
    BY <2>4, CallbackDone DEF Abstract!Next
  <2> QED BY <1>8, <2>1, <2>2, <2>3, <2>4, WaitingUnseen DEF Receive, Receivers
<1>9. CASE UNCHANGED vars
  <2>1. /\ UNCHANGED <<advert, recorded, removals, pc, got, current, outcome>>
    BY <1>9 DEF vars, object, place, locals, rest, world
  <2>2. Reader' = Reader /\ Hand' = Hand /\ Shown' = Shown /\ Phase' = Phase
    BY <2>1 DEF Reader, Hand, Shown, Phase
  <2> QED BY <2>1, <2>2, Unseen
<1> QED
  BY <1>1, <1>2, <1>3, <1>4, <1>5, <1>6, <1>7, <1>8, <1>9
     DEF Next, Browse, Creators

\* A subscription implements Feed, whatever restarts, failures, withdrawals,
\* stops and other receivers interleave: an endpoint is followed only while it
\* is announced, the topic is handed over when the old thread has nothing in
\* hand, and from then on the messages taken are those of the endpoint
\* followed, one at a time, each shown unless something may interfere.
THEOREM SubscriptionImplementsFeed == Spec => ImplementsFeed
<1>1. Init => Abstract!Init
  <2> SUFFICES ASSUME Init PROVE Abstract!Init
    OBVIOUS
  <2>1. /\ advert = None /\ recorded = None /\ removals = 0 /\ outcome = "none"
        /\ \A t \in Listeners : got[t] = None /\ pc[t] = "dead"
        /\ pc[Stopper] = "running"
    BY ThreadsAssumption DEF Init, Threads, Creators, Receivers
  <2>2. Reader = None /\ Hand = [t \in Listeners |-> None] /\ Shown = {} /\ Phase = "open"
    BY <2>1 DEF Reader, Hand, Shown, Phase
  <2>3. ~(removals > 0)
    BY <2>1
  <2> QED BY <2>1, <2>2, <2>3 DEF Abstract!Init, Reader, Hand, Shown, Phase
<1>2. Init => FeedInv
  BY ThreadsAssumption DEF Init, FeedInv, Restarting, Threads, Creators, Receivers
<1>3. Spec => []FeedInv
  BY <1>2, FeedInvStep, Invariance, PTL DEF Spec
<1> QED BY <1>1, <1>3, Invariance, NextFeeds, PTL
  DEF Spec, ImplementsFeed, Abstract!Spec

=============================================================================
