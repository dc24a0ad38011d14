---------------------------- MODULE Subscription ----------------------------
(***************************************************************************)
(* The socket variant of a subscription: axone/subscriber.py.              *)
(*                                                                         *)
(* A subscription is one object shared by several threads and protected    *)
(* by no lock:                                                             *)
(*   - Browser, the Zeroconf service browser, which runs one event handler *)
(*     at a time and restarts the socket on every announcement;            *)
(*   - the listening threads, which run the loop of _listen and of which   *)
(*     _listening_thread names the last one created;                       *)
(*   - Callers, application threads that call subscribe() through the      *)
(*     node's listen_once;                                                 *)
(*   - Stopper, the thread that calls stop().                              *)
(*                                                                         *)
(* A step runs from one place where the thread may block (a system call, a *)
(* sleep, a join, a wait) to the next one. The control point of a thread   *)
(* is named after the work it is about to do.                              *)
(***************************************************************************)
EXTENDS Naturals, Sequences, FiniteSets

CONSTANTS
  Listeners,    (* Identities of the listening threads.                    *)
  Callers,      (* Application threads that call listen_once.              *)
  Browser,      (* The thread of the Zeroconf service browser.             *)
  Stopper,      (* The application thread that calls stop().               *)
  Endpoints,    (* Multicast group and port a publisher may announce.      *)
  Sockets,      (* Identities of the socket objects.                       *)
  None,         (* Python's None, and the attribute that is not set yet.   *)
  MaxRetries,   (* _max_retries, 10 in the code.                           *)
  MaxPending,   (* Bound: events waiting in the queue of the browser.      *)
  MaxRemovals,  (* Bound: withdrawals of the publisher.                    *)
  MaxFailures   (* Bound: system calls that fail on their own.             *)

Receivers == Listeners \cup Callers
Creators  == Receivers \cup {Browser}
Threads   == Creators \cup {Stopper}

ASSUME ThreadsAssumption ==
  /\ Listeners \cap Callers = {}
  /\ Browser \notin Receivers
  /\ Stopper \notin Creators
  /\ None \notin Threads

ASSUME FiniteAssumption == IsFiniteSet(Listeners)

ASSUME ValuesAssumption == None \notin Endpoints \cup Sockets

ASSUME BoundsAssumption ==
  /\ MaxRetries \in Nat \ {0}
  /\ MaxPending \in Nat /\ MaxRemovals \in Nat /\ MaxFailures \in Nat

VARIABLES
  pc,         (* Control point of each thread.                             *)
  stopEvent,  (* _stop_event                                               *)
  sock,       (* _socket                                                   *)
  current,    (* _listening_thread                                         *)
  recorded,   (* _multicast_group and _multicast_port; None: the port is 0 *)
  iface,      (* _multicast_interface_ip, named by the endpoint it reaches *)
  link,       (* State of each socket: closed, fresh, or what it joined.   *)
  attempts,   (* retries of _subscribe_socket_with_retries, per receiver   *)
  tries,      (* retries of _create_socket_with_retries, per creator; both *)
              (* are local variables, 0 outside the calls that own them    *)
  rsock,      (* Socket a receiver is blocked on in recvfrom.              *)
  got,        (* Origin of the packet a receiver is processing.            *)
  advert,     (* Endpoint the publisher announces; None: no publisher.     *)
  pending,    (* Events the browser has not handled yet.                   *)
  outcome,    (* How the last handler that found its service ended.        *)
  removals,   (* Number of withdrawals so far.                             *)
  failures    (* Number of system calls that failed on their own so far.   *)

place  == <<recorded, iface>>
object == <<stopEvent, sock, current, place>>
locals == <<attempts, tries, rsock, got>>
world  == <<advert, pending, removals>>
rest   == <<world, outcome, failures>>
vars   == <<pc, object, link, locals, rest>>

-----------------------------------------------------------------------------
(* Shared vocabulary.                                                      *)

\* An origin of packets: the group and port, and the interface, a socket
\* joined. A socket that is open and joined none receives nothing.
Origins == Endpoints \X Endpoints
Links  == [open : BOOLEAN, member : Origins \cup {None}]
Closed == [open |-> FALSE, member |-> None]
Fresh  == [open |-> TRUE, member |-> None]

\* What a socket that joins now becomes a member of (lines 191-199).
Wanted == <<recorded, iface>>

Alive(t) == pc[t] # "dead"

\* Where a receiver is between two calls of subscribe(). An exception takes
\* it there too: _listen logs it, an application gets it from listen_once.
Home(t) == IF t \in Listeners THEN "loop" ELSE "idle"

Go(t, label) == pc' = [pc EXCEPT ![t] = label]

\* subscribe() is over for receiver t.
Return(t) == Go(t, Home(t)) /\ attempts' = [attempts EXCEPT ![t] = 0]

\* Socket objects some thread can still reach; the others are collected,
\* and Python closes a socket that it collects.
Blocked == {rsock[t] : t \in Receivers}
Held    == {sock} \cup Blocked

\* A system call fails on its own, within the bound.
Fail == failures < MaxFailures /\ failures' = failures + 1

CloseSocket ==
  link' = IF sock = None THEN link ELSE [link EXCEPT ![sock] = Closed]

Init ==
  /\ pc = [t \in Threads |->
             IF t \in Listeners THEN "dead"
             ELSE IF t = Stopper THEN "running" ELSE "idle"]
  /\ stopEvent = FALSE
  /\ sock = None
  /\ current = None
  /\ recorded = None
  /\ iface = None
  /\ link = [s \in Sockets |-> Closed]
  /\ attempts = [t \in Receivers |-> 0]
  /\ tries = [t \in Creators |-> 0]
  /\ rsock = [t \in Receivers |-> None]
  /\ got = [t \in Receivers |-> None]
  /\ advert = None
  /\ pending = <<>>
  /\ outcome = "none"
  /\ removals = 0
  /\ failures = 0

-----------------------------------------------------------------------------
(* The publisher and Zeroconf. The browser receives an event for every     *)
(* announcement, change and withdrawal of the service of the topic, and    *)
(* none after it was cancelled. Services of other names are ignored by the *)
(* handlers and left out.                                                  *)

Listed == pc[Stopper] \notin {"cancelling", "stopped"}

Announce(e) ==
  /\ Listed
  /\ Len(pending) < MaxPending
  /\ advert' = e
  /\ pending' = Append(pending, "announced")
  /\ UNCHANGED <<pc, object, link, locals, outcome, removals, failures>>

Withdraw ==
  /\ Listed
  /\ Len(pending) < MaxPending
  /\ removals < MaxRemovals
  /\ advert # None
  /\ advert' = None
  /\ pending' = Append(pending, "removed")
  /\ removals' = removals + 1
  /\ UNCHANGED <<pc, object, link, locals, outcome, failures>>

-----------------------------------------------------------------------------
(* _create_socket_with_retries and _create_socket, run by the browser in   *)
(* _restart_socket and by a receiver whose socket failed. Sleeping between *)
(* two attempts is waiting at "create".                                    *)

\* The call returned: the browser goes on with _restart_socket, a receiver
\* with its next attempt.
Created(t) ==
  /\ Go(t, IF t = Browser THEN "clear" ELSE "attempt")
  /\ tries' = [tries EXCEPT ![t] = 0]

\* Mutant of CreateRaised: no handler in _listen, the exception ends the thread.
CreateRaisedEscapes(t) ==
  /\ Go(t, IF t \in Listeners THEN "dead" ELSE IF t = Browser THEN "exited" ELSE "idle")
  /\ tries' = [tries EXCEPT ![t] = 0]
  /\ attempts' = [x \in Receivers |-> IF x = t THEN 0 ELSE attempts[x]]
  /\ outcome' = IF t = Browser THEN "create_failed" ELSE outcome

\* The call raised. subscribe() is over; in the browser nothing catches what
\* a handler raises, and its thread ends.
CreateRaised(t) ==
  /\ IF t = Browser THEN Go(t, "exited") /\ UNCHANGED attempts ELSE Return(t)
  /\ tries' = [tries EXCEPT ![t] = 0]
  /\ outcome' = IF t = Browser THEN "create_failed" ELSE outcome

\* Mutant of CreateBegin: a socket that has joined a group is kept.
CreateBeginKeeps(t) ==
  /\ pc[t] = "create"
  /\ IF recorded = None \/ (sock # None /\ link[sock].member # None)
       THEN Created(t) /\ UNCHANGED link
       ELSE Go(t, "open") /\ CloseSocket /\ UNCHANGED tries
  /\ UNCHANGED <<object, attempts, rsock, got, rest>>

CreateBegin(t) ==
  /\ pc[t] = "create"
  /\ IF recorded = None
       THEN Created(t) /\ UNCHANGED link
       ELSE Go(t, "open") /\ CloseSocket /\ UNCHANGED tries
  /\ UNCHANGED <<object, attempts, rsock, got, rest>>

CreateOpen(t) ==
  /\ pc[t] = "open"
  /\ \E s \in Sockets \ Held :
       /\ sock' = s
       /\ link' = [x \in Sockets |-> IF x = s THEN Fresh
                                     ELSE IF x \in Blocked THEN link[x]
                                     ELSE Closed]
  /\ Go(t, "join")
  /\ UNCHANGED <<stopEvent, current, place, locals, rest>>

\* bind and IP_ADD_MEMBERSHIP on the socket _socket names by then.
JoinSucceeds(t) ==
  /\ pc[t] = "join"
  /\ sock # None /\ link[sock] = Fresh
  /\ link' = [link EXCEPT ![sock].member = Wanted]
  /\ Created(t)
  /\ UNCHANGED <<object, attempts, rsock, got, rest>>

\* OSError: the system refuses a socket, the port or the group, or another
\* thread has bound or closed the socket meanwhile.
Refused(t) ==
  \/ pc[t] = "open" /\ Fail
  \/ /\ pc[t] = "join"
     /\ sock # None
     /\ IF link[sock] = Fresh THEN Fail ELSE UNCHANGED failures

\* Mutant of CreateFails: the first OSError is not retried.
CreateFailsOnce(t) ==
  /\ Refused(t)
  /\ CreateRaised(t)
  /\ UNCHANGED <<object, link, rsock, got, world>>

\* The loop sleeps and tries again, and raises after the last try.
CreateFails(t) ==
  /\ Refused(t)
  /\ IF tries[t] + 1 < MaxRetries
       THEN /\ Go(t, "create")
            /\ tries' = [tries EXCEPT ![t] = @ + 1]
            /\ UNCHANGED <<attempts, outcome>>
       ELSE CreateRaised(t)
  /\ UNCHANGED <<object, link, rsock, got, world>>

\* The removal handler has set _socket to None: the next use of the
\* attribute raises AttributeError, which no loop retries.
JoinMissing(t) ==
  /\ pc[t] = "join"
  /\ sock = None
  /\ CreateRaised(t)
  /\ UNCHANGED <<object, link, rsock, got, world, failures>>

Create(t) ==
  \/ CreateBegin(t) \/ CreateOpen(t)
  \/ JoinSucceeds(t) \/ CreateFails(t) \/ JoinMissing(t)

-----------------------------------------------------------------------------
(* _listen and subscribe(), run by the listening threads and, for          *)
(* subscribe(), by the callers of listen_once.                             *)

\* Mutant of ListenLoop: the loop does not test the stop event.
ListenLoopForever(t) ==
  /\ pc[t] = "loop"
  /\ Go(t, "subscribe")
  /\ UNCHANGED <<object, link, locals, rest>>

\* The loop of _listen tests the stop event; the thread ends when it is set.
ListenLoop(t) ==
  /\ pc[t] = "loop"
  /\ Go(t, IF stopEvent THEN "dead" ELSE "subscribe")
  /\ UNCHANGED <<object, link, locals, rest>>

ListenOnce(t) ==
  /\ t \in Callers
  /\ pc[t] = "idle"
  /\ Go(t, "subscribe")
  /\ UNCHANGED <<object, link, locals, rest>>

SubscribeBegin(t) ==
  /\ pc[t] = "subscribe"
  /\ Go(t, IF sock = None \/ stopEvent THEN Home(t) ELSE "attempt")
  /\ UNCHANGED <<object, link, locals, rest>>

\* The receive loop is over: it ran out of retries, was told to stop, or
\* finds no socket.
AttemptEnds(t) ==
  /\ pc[t] = "attempt"
  /\ attempts[t] >= MaxRetries \/ stopEvent \/ sock = None
  /\ Return(t)
  /\ UNCHANGED <<object, link, tries, rsock, got, rest>>

\* OSError in recvfrom: give up when told to stop, else sleep and create
\* another socket.
ReceiveRaises(t) ==
  IF stopEvent
    THEN Return(t)
    ELSE Go(t, "create") /\ attempts' = [attempts EXCEPT ![t] = @ + 1]

AttemptBegin(t) ==
  /\ pc[t] = "attempt"
  /\ attempts[t] < MaxRetries /\ ~stopEvent /\ sock # None
  /\ IF ~link[sock].open
       THEN ReceiveRaises(t) /\ UNCHANGED rsock
       ELSE /\ Go(t, "receiving")
            /\ rsock' = [rsock EXCEPT ![t] = sock]
            /\ UNCHANGED attempts
  /\ UNCHANGED <<object, link, tries, got, rest>>

ReceiveTimeout(t) ==
  /\ pc[t] = "receiving"
  /\ rsock' = [rsock EXCEPT ![t] = None]
  /\ Return(t)
  /\ UNCHANGED <<object, link, tries, got, rest>>

ReceiveError(t) ==
  /\ pc[t] = "receiving"
  /\ IF link[rsock[t]].open THEN Fail ELSE UNCHANGED failures
  /\ rsock' = [rsock EXCEPT ![t] = None]
  /\ ReceiveRaises(t)
  /\ UNCHANGED <<object, link, tries, got, world, outcome>>

ReceivePacket(t) ==
  /\ pc[t] = "receiving"
  /\ link[rsock[t]].member # None
  /\ got' = [got EXCEPT ![t] = link[rsock[t]].member]
  /\ rsock' = [rsock EXCEPT ![t] = None]
  /\ Go(t, "decode")
  /\ attempts' = [attempts EXCEPT ![t] = 0]
  /\ UNCHANGED <<object, link, tries, rest>>

\* The message is decoded into _topic; then the timeout of whatever socket
\* is in place is adjusted, which raises if that socket is closed, and the
\* callbacks are not called.
Decode(t) ==
  /\ pc[t] = "decode"
  /\ LET raises == sock # None /\ ~link[sock].open
     IN /\ Go(t, IF raises THEN Home(t) ELSE "callback")
        /\ got' = [got EXCEPT ![t] = IF raises THEN None ELSE @]
  /\ UNCHANGED <<object, link, attempts, tries, rsock, rest>>

Callback(t) ==
  /\ pc[t] = "callback"
  /\ got' = [got EXCEPT ![t] = None]
  /\ Go(t, Home(t))
  /\ UNCHANGED <<object, link, attempts, tries, rsock, rest>>

Receive(t) ==
  \/ ListenLoop(t) \/ ListenOnce(t) \/ SubscribeBegin(t)
  \/ AttemptEnds(t) \/ AttemptBegin(t)
  \/ ReceiveTimeout(t) \/ ReceiveError(t) \/ ReceivePacket(t)
  \/ Decode(t) \/ Callback(t)

-----------------------------------------------------------------------------
(* The handlers of the browser.                                            *)

\* _handle_service_added_or_updated finds no such service: it was withdrawn
\* meanwhile, or the query timed out.
HandleUnresolved ==
  /\ pc[Browser] = "idle"
  /\ pending # <<>> /\ Head(pending) = "announced"
  /\ IF advert = None THEN UNCHANGED failures ELSE Fail
  /\ pending' = Tail(pending)
  /\ UNCHANGED <<pc, object, link, locals, advert, outcome, removals>>

\* It finds one: the group and port are recorded before the local interface
\* is looked up.
HandleAnnounced ==
  /\ pc[Browser] = "idle"
  /\ pending # <<>> /\ Head(pending) = "announced"
  /\ advert # None
  /\ recorded' = advert
  /\ pending' = Tail(pending)
  /\ outcome' = "handling"
  /\ Go(Browser, "lookup")
  /\ UNCHANGED <<stopEvent, sock, current, iface, link, locals, advert, removals, failures>>

LookupSucceeds ==
  /\ pc[Browser] = "lookup"
  /\ iface' = recorded
  /\ Go(Browser, "restart")
  /\ UNCHANGED <<stopEvent, sock, current, recorded, link, locals, rest>>

\* Mutant of LookupFails: the handler goes on without the interface.
LookupFailsIgnored ==
  /\ pc[Browser] = "lookup"
  /\ Fail
  /\ Go(Browser, "restart")
  /\ UNCHANGED <<object, link, locals, world, outcome>>

\* get_local_ip_for_target raises, which ends the thread of the browser.
LookupFails ==
  /\ pc[Browser] = "lookup"
  /\ Fail
  /\ outcome' = "lookup_failed"
  /\ Go(Browser, "exited")
  /\ UNCHANGED <<object, link, locals, world>>

\* Mutant of RestartBegin: the socket is closed before the thread has ended.
RestartBeginCloses ==
  /\ pc[Browser] = "restart"
  /\ stopEvent' = TRUE
  /\ CloseSocket
  /\ Go(Browser, IF sock = None THEN "create" ELSE "wait")
  /\ UNCHANGED <<sock, current, place, locals, rest>>

\* _restart_socket. The wait for the listening thread is skipped when there
\* is no socket.
RestartBegin ==
  /\ pc[Browser] = "restart"
  /\ stopEvent' = TRUE
  /\ Go(Browser, IF sock = None THEN "create" ELSE "wait")
  /\ UNCHANGED <<sock, current, place, link, locals, rest>>

\* Mutant of RestartWait: one join of five seconds in place of the loop.
RestartWaitOnce ==
  /\ pc[Browser] = "wait"
  /\ stopEvent' = TRUE
  /\ Go(Browser, "create")
  /\ UNCHANGED <<sock, current, place, link, locals, rest>>

\* The loop that signals and joins the listening thread until it is dead.
\* There is one (RestartFindsThread).
RestartWait ==
  /\ pc[Browser] = "wait"
  /\ IF Alive(current)
       THEN stopEvent' = TRUE /\ UNCHANGED pc
       ELSE Go(Browser, "create") /\ UNCHANGED stopEvent
  /\ UNCHANGED <<sock, current, place, link, locals, rest>>

\* _start_listening_thread.
StartClear ==
  /\ pc[Browser] = "clear"
  /\ stopEvent' = FALSE
  /\ Go(Browser, "spawn")
  /\ UNCHANGED <<sock, current, place, link, locals, rest>>

\* The identity of a dead thread stands for a new one.
StartSpawn ==
  /\ pc[Browser] = "spawn"
  /\ \E t \in Listeners : ~Alive(t) /\ current' = t
  /\ Go(Browser, "launch")
  /\ UNCHANGED <<stopEvent, sock, place, link, locals, rest>>

StartLaunch ==
  /\ pc[Browser] = "launch"
  /\ pc' = [pc EXCEPT ![Browser] = "idle", ![current] = "loop"]
  /\ outcome' = "joined"
  /\ UNCHANGED <<object, link, locals, world, failures>>

\* _handle_service_removed: nothing to do, because the service cannot be
\* resolved any more or because there is no socket.
HandleRemovedIgnored ==
  /\ pc[Browser] = "idle"
  /\ pending # <<>> /\ Head(pending) = "removed"
  /\ pending' = Tail(pending)
  /\ UNCHANGED <<pc, object, link, locals, advert, outcome, removals, failures>>

\* The service is still in the cache of Zeroconf: the socket is closed, and
\* the listening thread is left alone.
HandleRemoved ==
  /\ pc[Browser] = "idle"
  /\ pending # <<>> /\ Head(pending) = "removed"
  /\ sock # None
  /\ CloseSocket
  /\ pending' = Tail(pending)
  /\ Go(Browser, "forget")
  /\ UNCHANGED <<object, locals, advert, outcome, removals, failures>>

ForgetSocket ==
  /\ pc[Browser] = "forget"
  /\ sock' = None
  /\ outcome' = "removed"
  /\ Go(Browser, "idle")
  /\ UNCHANGED <<stopEvent, current, place, link, locals, world, failures>>

\* The browser's thread ends on the marker that cancel() puts behind the
\* events that are already queued, unless a handler has raised before.
BrowserExit ==
  /\ pc[Browser] = "idle"
  /\ pc[Stopper] = "cancelling"
  /\ pending = <<>>
  /\ Go(Browser, "exited")
  /\ UNCHANGED <<object, link, locals, rest>>

Browse ==
  \/ HandleUnresolved \/ HandleAnnounced
  \/ LookupSucceeds \/ LookupFails
  \/ RestartBegin \/ RestartWait \/ StartClear \/ StartSpawn \/ StartLaunch
  \/ HandleRemovedIgnored \/ HandleRemoved \/ ForgetSocket
  \/ BrowserExit
  \/ Create(Browser)

-----------------------------------------------------------------------------
(* stop().                                                                 *)

StopSignal ==
  /\ pc[Stopper] = "running"
  /\ stopEvent' = TRUE
  /\ Go(Stopper, "closing")
  /\ UNCHANGED <<sock, current, place, link, locals, rest>>

StopClose ==
  /\ pc[Stopper] = "closing"
  /\ CloseSocket
  /\ Go(Stopper, "joining")
  /\ UNCHANGED <<object, locals, rest>>

\* _stop_listening_thread: signal the thread again if it is alive; ...
StopListener ==
  /\ pc[Stopper] = "joining"
  /\ IF current # None /\ Alive(current)
       THEN stopEvent' = TRUE /\ Go(Stopper, "joined")
       ELSE UNCHANGED stopEvent /\ Go(Stopper, "cancelling")
  /\ UNCHANGED <<sock, current, place, link, locals, rest>>

\* ... then join it, for at most five seconds.
StopJoined ==
  /\ pc[Stopper] = "joined"
  /\ Go(Stopper, "cancelling")
  /\ UNCHANGED <<object, link, locals, rest>>

\* ServiceBrowser.cancel() waits for the thread of the browser.
StopReturns ==
  /\ pc[Stopper] = "cancelling"
  /\ pc[Browser] = "exited"
  /\ Go(Stopper, "stopped")
  /\ UNCHANGED <<object, link, locals, rest>>

Stop == StopSignal \/ StopClose \/ StopListener \/ StopJoined \/ StopReturns

-----------------------------------------------------------------------------

Publish == Withdraw \/ \E e \in Endpoints : Announce(e)

Next ==
  \/ Publish
  \/ Browse
  \/ Stop
  \/ \E t \in Receivers : Receive(t) \/ Create(t)

\* The operating system schedules every thread. Nothing obliges a publisher
\* to announce or withdraw, or an application to call listen_once or stop().
Fairness ==
  /\ WF_vars(Browse)
  /\ WF_vars(Stop /\ pc[Stopper] # "running")
  /\ \A t \in Receivers :
       WF_vars((Receive(t) /\ pc[t] # "idle") \/ Create(t))

Spec     == Init /\ [][Next]_vars
FairSpec == Spec /\ Fairness

-----------------------------------------------------------------------------
(* Safety.                                                                 *)

ReceiverLabels == {"loop", "subscribe", "attempt", "receiving", "decode",
                   "callback", "create", "open", "join", "idle", "dead"}
BrowserLabels  == {"idle", "lookup", "restart", "wait", "create", "open",
                   "join", "clear", "spawn", "launch", "forget", "exited"}
StopperLabels  == {"running", "closing", "joining", "joined", "cancelling",
                   "stopped"}
Outcomes == {"none", "handling", "joined", "lookup_failed", "create_failed",
             "removed"}

\* The type invariant: every variable keeps to the values the code can give
\* the attribute it stands for.
TypeOK ==
  /\ pc \in [Threads -> ReceiverLabels \cup BrowserLabels \cup StopperLabels]
  /\ pc[Browser] \in BrowserLabels
  /\ pc[Stopper] \in StopperLabels
  /\ \A t \in Receivers : pc[t] \in ReceiverLabels
  /\ stopEvent \in BOOLEAN
  /\ sock \in Sockets \cup {None}
  /\ current \in Listeners \cup {None}
  /\ recorded \in Endpoints \cup {None}
  /\ iface \in Endpoints \cup {None}
  /\ link \in [Sockets -> Links]
  /\ attempts \in [Receivers -> Nat]
  /\ tries \in [Creators -> Nat]
  /\ rsock \in [Receivers -> Sockets \cup {None}]
  /\ got \in [Receivers -> Origins \cup {None}]
  /\ advert \in Endpoints \cup {None}
  /\ pending \in Seq({"announced", "removed"})
  /\ outcome \in Outcomes
  /\ removals \in Nat
  /\ failures \in Nat

\* As long as the publisher was never withdrawn, the only listening thread
\* alive is the one _listening_thread names, whatever restarts, socket errors
\* and stops interleave: _restart_socket waits for the thread it replaces.
AtMostOneListener ==
  removals = 0 => \A t \in Listeners : Alive(t) => t = current

\* Every further listening thread is owed to a withdrawal that closed the
\* socket and left the thread running, so that the next announcement skipped
\* the wait: threads do not pile up from announcements or errors alone.
ListenersBounded ==
  Cardinality({t \in Listeners : Alive(t)}) <= 1 + removals

\* A subscription whose stop event is clear has a running listening thread,
\* except while _start_listening_thread replaces it: no interleaving of a
\* restart with the exit of the old thread leaves it silently deaf.
ListenerRunsUnlessStopped ==
  ~stopEvent /\ current # None /\ pc[Browser] \notin {"spawn", "launch"}
    => Alive(current)

\* Once a handler has completed, the listening thread it started processes
\* only messages of the endpoint last announced, on the interface that was
\* looked up for it: nothing of the previous endpoint is delivered late.
FreshDelivery ==
  outcome = "joined" /\ current # None /\ pc[current] \in {"decode", "callback"}
    => got[current] = Wanted

\* No thread joins a group before the local interface is known: line 197
\* would hand struct.pack an integer where it wants bytes, and the
\* struct.error is not among the errors the creation retries.
InterfaceKnown ==
  \A t \in Creators : pc[t] \in {"open", "join"} => iface # None

\* A restart that finds a socket finds the thread to wait for: line 161 never
\* meets a _listening_thread that was not assigned, whatever creation failed
\* or was interrupted before. What a failed one leaves is met by no handler.
RestartFindsThread == pc[Browser] = "wait" => current # None

\* A message the listening thread has decoded reaches its callbacks, unless
\* the subscription is being stopped, the publisher was withdrawn or another
\* thread receives too: no restart closes the socket under the thread.
DecodedIsDelivered ==
  [][\A t \in Listeners :
       pc[t] = "decode" /\ pc'[t] = "loop"
         => pc[Stopper] # "running" \/ removals > 0 \/ Callers # {}]_vars

\* A subscription is a Feed: whatever restarts, failures and stops interleave,
\* an endpoint is followed only while it is announced; a restart hands the
\* topic to its new thread when the old one has nothing in hand; from then on
\* only that thread takes messages, all of that endpoint and interface, one at
\* a time; each is shown unless a stop, a withdrawal or another receiver
\* interferes; and after stop() has returned no restart completes.
Abstract == INSTANCE Feed WITH
  Readers   <- Listeners,
  Exclusive <- Callers = {},
  withdrawn <- removals > 0,
  target    <- recorded,
  reader    <- IF outcome = "joined" THEN current ELSE None,
  hand      <- [t \in Listeners |-> got[t]],
  shown     <- {t \in Listeners : pc[t] = "callback"},
  phase     <- CASE pc[Stopper] = "running" -> "open"
                 [] pc[Stopper] = "stopped" -> "closed"
                 [] OTHER -> "closing"
ImplementsFeed == Abstract!Spec

-----------------------------------------------------------------------------
(* Liveness, under FairSpec.                                               *)

\* stop() returns although it waits for the browser, which may itself be
\* waiting for a listening thread that is sleeping or creating a socket.
StopTerminates == (pc[Stopper] # "running") ~> (pc[Stopper] = "stopped")

\* When stop() has returned with the stop event still set, every listening
\* thread ends, whatever it was doing.
ListenersExit ==
  (pc[Stopper] = "stopped" /\ stopEvent) ~> (\A t \in Listeners : ~Alive(t))

\* The socket is open and not a member, and nobody is about to join it: its
\* recvfrom only ever times out.
Deaf ==
  /\ sock # None /\ link[sock] = Fresh
  /\ \A t \in Creators : pc[t] \notin {"create", "open", "join"}

\* While no event and no stop interferes, a joined subscription that loses its
\* socket to an error joins the recorded endpoint again, unless the system has
\* refused it as often as the retries go: then it stays deaf until the next
\* announcement, as line 92 logs the RuntimeError of line 179 and goes on with
\* the socket of the last try.
SelfHeals ==
  (outcome = "joined" /\ pc[Browser] = "idle")
    ~> \/ sock # None /\ link[sock].member = Wanted
       \/ Deaf /\ failures > MaxRetries
       \/ pc[Browser] # "idle" \/ pc[Stopper] # "running"

-----------------------------------------------------------------------------
(* What the repository says of this code, and the code does not do.        *)

\* subscriber.py:346 calls _stop_listening_thread with the comment "Ensure
\* the listening thread is stopped": once stop() has returned, no listening
\* thread stays for ever.
StopEnsuresListenerStopped ==
  (pc[Stopper] = "stopped") ~> (\A t \in Listeners : ~Alive(t))

\* README.md:209: "If the publisher disappears and reappears (e.g. after a
\* restart), the subscriber rejoins automatically." When the publisher has gone
\* and is back, the browser gets to its announcement, unless the publisher goes
\* again or the subscription is stopped.
RejoinsAutomatically ==
  (pending # <<>> /\ Head(pending) = "removed" /\ advert # None)
    ~> \/ pending = <<>> \/ pc[Browser] = "lookup"
       \/ advert = None \/ pc[Stopper] # "running"

=============================================================================
