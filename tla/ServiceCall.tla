---------------------------- MODULE ServiceCall ----------------------------
(***************************************************************************)
(* Service calls: AxoneNode._call_service (node.py) and ServiceServer      *)
(* (service_server.py), over stream sockets.                               *)
(*                                                                         *)
(* Every node has one server thread, which serves one connection at a      *)
(* time, until the client closes it. A caller makes one connection per     *)
(* call. Callers are application threads of any process, which may be      *)
(* killed at any moment, and the server threads themselves: a service may  *)
(* call a service of another node before it returns.                       *)
(***************************************************************************)
EXTENDS Naturals, Sequences, FiniteSets

CONSTANTS
  Clients,      (* Application threads that call services.                 *)
  Nodes,        (* Nodes with a service server; also its thread.           *)
  Connections,  (* Identities of the connections.                          *)
  Targets,      (* The pairs of a caller and a node it may call.           *)
  None,
  Unencodable,  (* A value the encoding of a reply refuses.                *)
  Backlog,      (* Connections the system keeps until they are accepted.   *)
  Requests,     (* The kinds of requests the callers make.                 *)
  MaxCalls      (* Bound: calls made.                                      *)

Callers == Clients \cup Nodes

\* What a request can be for the server: a service and its arguments; an
\* unknown service or a wrong number of arguments; the right number of
\* arguments under wrong names.
Kinds == {"valid", "unknown", "misnamed"}

ASSUME CallersAssumption ==
  /\ Clients \cap Nodes = {}
  /\ Targets \subseteq Callers \X Nodes
  /\ Requests \subseteq Kinds

ASSUME NoneAssumption ==
  /\ None \notin Connections \cup Nodes \cup Kinds \cup Nat
  /\ Unencodable \notin Nat \cup {None}

ASSUME LimitsAssumption == Backlog \in Nat \ {0} /\ MaxCalls \in Nat

VARIABLES
  pc,         (* Control point of each caller.                             *)
  call,       (* The call it makes: the node, and how the request is made. *)
  chan,       (* sock, the connection it holds.                            *)
  got,        (* The last value a service returned to it.                  *)
  conn,       (* The two ends of each connection: open or not.             *)
  up, down,   (* Requests sent and not read yet; replies sent.             *)
  ran,        (* History: value of the service run for the connection.     *)
  srv,        (* Control point of each server thread.                      *)
  shouldRun,  (* _server_should_run                                        *)
  backlog,    (* Connections the system has not handed to accept() yet.    *)
  serving,    (* connection, the one the server holds.                     *)
  job,        (* The request the server has read, and what it will send.   *)
  reply,
  executed,   (* Services run by each node.                                *)
  calls,      (* Calls made so far.                                        *)
  blamed      (* History: nodes that were given something they cannot      *)
              (* decode, look up or encode.                                *)

client == <<pc, call, chan, got>>
wire   == <<conn, up, down, ran>>
work   == <<job, reply>>
server == <<srv, shouldRun, backlog, serving, work, executed>>
vars   == <<client, wire, server, calls, blamed>>

-----------------------------------------------------------------------------

\* A reply is (ret, out). A service returns how many the node has run; 0
\* stands for (False, None), and Unencodable for a value such as a string of
\* more than 127 bytes.
Refused == 0

NoCall == [to |-> None, request |-> None]
Unused == [to |-> None, client |-> FALSE, server |-> FALSE]

Go(c, label)    == pc' = [pc EXCEPT ![c] = label]
Serve(n, label) == srv' = [srv EXCEPT ![n] = label]

\* A socket that leaves scope is closed. When both ends are, nothing is left
\* of the connection; until then, the server may still read what was sent.
Close(k, atClient, atServer) ==
  LET open == atClient \/ atServer
  IN /\ conn' = [conn EXCEPT ![k] =
          IF open THEN [to |-> @.to, client |-> atClient, server |-> atServer]
                  ELSE Unused]
     /\ ran' = [ran EXCEPT ![k] = IF open THEN @ ELSE None]

CloseClient(k) ==
  IF k = None
    THEN UNCHANGED wire
    ELSE /\ Close(k, FALSE, conn[k].server)
         /\ down' = [down EXCEPT ![k] = None]
         /\ UNCHANGED up

CloseServer(k) ==
  /\ Close(k, conn[k].client, FALSE)
  /\ up' = [up EXCEPT ![k] = None]
  /\ UNCHANGED down

Init ==
  /\ pc = [c \in Callers |-> "idle"]
  /\ call = [c \in Callers |-> NoCall]
  /\ chan = [c \in Callers |-> None]
  /\ got = [c \in Callers |-> None]
  /\ conn = [k \in Connections |-> Unused]
  /\ up = [k \in Connections |-> None]
  /\ down = [k \in Connections |-> None]
  /\ ran = [k \in Connections |-> None]
  /\ srv = [n \in Nodes |-> "off"]
  /\ shouldRun = [n \in Nodes |-> FALSE]
  /\ backlog = [n \in Nodes |-> <<>>]
  /\ serving = [n \in Nodes |-> None]
  /\ job = [n \in Nodes |-> None]
  /\ reply = [n \in Nodes |-> None]
  /\ executed = [n \in Nodes |-> 0]
  /\ calls = 0
  /\ blamed = {}

-----------------------------------------------------------------------------
(* _call_service.                                                          *)

\* The node and its port are looked up; a node that advertises none ends the
\* call at once, which is a call that was not made.
CallBegin(c, n, r) ==
  /\ <<c, n>> \in Targets
  /\ calls < MaxCalls
  /\ Go(c, "connect")
  /\ call' = [call EXCEPT ![c] = [to |-> n, request |-> r]]
  /\ calls' = calls + 1
  /\ UNCHANGED <<chan, got>>

CallService(c) ==
  /\ c \in Clients
  /\ pc[c] = "idle"
  /\ \E n \in Nodes, r \in Requests : CallBegin(c, n, r)
  /\ UNCHANGED <<wire, server, blamed>>

\* The call is over: the socket is closed.
Hangup(c) ==
  /\ CloseClient(chan[c])
  /\ chan' = [chan EXCEPT ![c] = None]
  /\ call' = [call EXCEPT ![c] = NoCall]

\* Connections are interchangeable: any unused one will do.
Idle == {k \in Connections : conn[k] = Unused}
NewConnection == CHOOSE k \in Idle : TRUE

\* The system completes a connection while there is room in the backlog,
\* whether or not the server will ever accept it.
Connect(c) ==
  LET n == call[c].to
  IN /\ pc[c] = "connect"
     /\ srv[n] # "off"
     /\ Len(backlog[n]) < Backlog
     /\ Idle # {}
     /\ conn' = [conn EXCEPT ![NewConnection] =
                   [to |-> n, client |-> TRUE, server |-> TRUE]]
     /\ chan' = [chan EXCEPT ![c] = NewConnection]
     /\ backlog' = [backlog EXCEPT ![n] = Append(@, NewConnection)]
     /\ Go(c, "send")
     /\ UNCHANGED <<call, got, up, down, ran, srv, shouldRun, serving, work,
                    executed, calls, blamed>>

\* Nobody listens, or the backlog stays full until the system gives up.
ConnectFails(c) ==
  LET n == call[c].to
  IN /\ pc[c] = "connect"
     /\ srv[n] = "off" \/ Len(backlog[n]) = Backlog
     /\ Go(c, "idle")
     /\ Hangup(c)
     /\ UNCHANGED <<got, server, calls, blamed>>

\* send_msg logs an error of the socket and goes on.
SendRequest(c) ==
  LET k == chan[c]
  IN /\ pc[c] = "send"
     /\ up' = [up EXCEPT ![k] = IF conn[k].server THEN call[c].request ELSE @]
     /\ blamed' = IF call[c].request = "misnamed" THEN blamed \cup {call[c].to}
                                                  ELSE blamed
     /\ Go(c, "waiting")
     /\ UNCHANGED <<call, chan, got, conn, down, ran, server, calls>>

\* recv_msg has no timeout. The callback runs with the socket still open.
ReceiveAnswer(c) ==
  /\ pc[c] = "waiting"
  /\ down[chan[c]] # None
  /\ got' = [got EXCEPT ![c] = IF down[chan[c]] = Refused THEN @
                               ELSE down[chan[c]]]
  /\ Go(c, "callback")
  /\ UNCHANGED <<call, chan, wire, server, calls, blamed>>

\* The server has closed the connection: recv_msg returns None, which cannot
\* be decoded, and the TypeError ends the call.
ReceiveEnd(c) ==
  /\ pc[c] = "waiting"
  /\ down[chan[c]] = None /\ ~conn[chan[c]].server
  /\ Go(c, "idle")
  /\ Hangup(c)
  /\ UNCHANGED <<got, server, calls, blamed>>

\* Mutant of CallReturns: the socket stays open when the call has returned.
CallReturnsKeeps(c) ==
  /\ pc[c] = "callback"
  /\ Go(c, "idle")
  /\ chan' = [chan EXCEPT ![c] = None]
  /\ call' = [call EXCEPT ![c] = NoCall]
  /\ UNCHANGED <<got, wire, server, calls, blamed>>

CallReturns(c) ==
  /\ pc[c] = "callback"
  /\ Go(c, "idle")
  /\ Hangup(c)
  /\ UNCHANGED <<got, server, calls, blamed>>

\* The process of an application ends in the middle of a call.
Crash(c) ==
  /\ c \in Clients
  /\ pc[c] \notin {"idle", "crashed"}
  /\ Go(c, "crashed")
  /\ Hangup(c)
  /\ UNCHANGED <<got, server, calls, blamed>>

Progress(c) ==
  \/ Connect(c) \/ ConnectFails(c) \/ SendRequest(c)
  \/ ReceiveAnswer(c) \/ ReceiveEnd(c) \/ CallReturns(c)

-----------------------------------------------------------------------------
(* ServiceServer.                                                          *)

\* start(), up to listen(1) at the beginning of _server.
Start(n) ==
  /\ srv[n] = "off"
  /\ shouldRun' = [shouldRun EXCEPT ![n] = TRUE]
  /\ Serve(n, "loop")
  /\ UNCHANGED <<client, wire, backlog, serving, work, executed, calls, blamed>>

Stop(n) ==
  /\ shouldRun[n]
  /\ shouldRun' = [shouldRun EXCEPT ![n] = FALSE]
  /\ UNCHANGED <<client, wire, srv, backlog, serving, work, executed, calls, blamed>>

\* Mutant of ServerLoop: the flag is not tested.
ServerLoopForever(n) ==
  /\ srv[n] = "loop"
  /\ Serve(n, "accept")
  /\ UNCHANGED <<client, wire, shouldRun, backlog, serving, work, executed, calls, blamed>>

\* The flag is tested between connections. The listening socket stays open
\* when the loop ends.
ServerLoop(n) ==
  /\ srv[n] = "loop"
  /\ Serve(n, IF shouldRun[n] THEN "accept" ELSE "stopped")
  /\ UNCHANGED <<client, wire, shouldRun, backlog, serving, work, executed, calls, blamed>>

\* Mutant of Accept: the flag is tested again, and the connection dropped.
AcceptDrops(n) ==
  /\ srv[n] = "accept"
  /\ backlog[n] # <<>>
  /\ serving' = [serving EXCEPT ![n] = IF shouldRun[n] THEN Head(backlog[n]) ELSE None]
  /\ backlog' = [backlog EXCEPT ![n] = Tail(@)]
  /\ Serve(n, IF shouldRun[n] THEN "receive" ELSE "stopped")
  /\ UNCHANGED <<client, wire, shouldRun, work, executed, calls, blamed>>

Accept(n) ==
  /\ srv[n] = "accept"
  /\ backlog[n] # <<>>
  /\ serving' = [serving EXCEPT ![n] = Head(backlog[n])]
  /\ backlog' = [backlog EXCEPT ![n] = Tail(@)]
  /\ Serve(n, "receive")
  /\ UNCHANGED <<client, wire, shouldRun, work, executed, calls, blamed>>

AcceptTimeout(n) ==
  /\ srv[n] = "accept"
  /\ backlog[n] = <<>>
  /\ Serve(n, "loop")
  /\ UNCHANGED <<client, wire, shouldRun, backlog, serving, work, executed, calls, blamed>>

\* Mutant of Release: the connection is not in a block that closes it.
ReleaseKeeps(n, label) ==
  /\ Serve(n, label)
  /\ job' = [job EXCEPT ![n] = None]
  /\ reply' = [reply EXCEPT ![n] = None]
  /\ UNCHANGED <<wire, serving>>

\* Leaves the block that holds the connection, which closes it.
Release(n, label) ==
  /\ CloseServer(serving[n])
  /\ serving' = [serving EXCEPT ![n] = None]
  /\ job' = [job EXCEPT ![n] = None]
  /\ reply' = [reply EXCEPT ![n] = None]
  /\ Serve(n, label)

\* Mutant of ReceiveRequest: the request is peeked at and stays to be read.
ReceiveRequestAgain(n) ==
  /\ srv[n] = "receive"
  /\ up[serving[n]] # None
  /\ job' = [job EXCEPT ![n] = up[serving[n]]]
  /\ Serve(n, "dispatch")
  /\ UNCHANGED <<client, wire, shouldRun, backlog, serving, reply, executed, calls, blamed>>

ReceiveRequest(n) ==
  /\ srv[n] = "receive"
  /\ up[serving[n]] # None
  /\ job' = [job EXCEPT ![n] = up[serving[n]]]
  /\ up' = [up EXCEPT ![serving[n]] = None]
  /\ Serve(n, "dispatch")
  /\ UNCHANGED <<client, conn, down, ran, shouldRun, backlog, serving, reply, executed, calls, blamed>>

\* No more data: the client has closed its end.
ClientGone(n) ==
  /\ srv[n] = "receive"
  /\ up[serving[n]] = None /\ ~conn[serving[n]].client
  /\ Release(n, "loop")
  /\ UNCHANGED <<client, shouldRun, backlog, executed, calls, blamed>>

\* find_and_call_service refuses the request, ...
Refuse(n) ==
  /\ srv[n] = "dispatch"
  /\ job[n] = "unknown"
  /\ job' = [job EXCEPT ![n] = None]
  /\ reply' = [reply EXCEPT ![n] = Refused]
  /\ Serve(n, "reply")
  /\ UNCHANGED <<client, wire, shouldRun, backlog, serving, executed, calls, blamed>>

\* ... or raises KeyError outside its own handler, which ends the server ...
Misnamed(n) ==
  /\ srv[n] = "dispatch"
  /\ job[n] = "misnamed"
  /\ Release(n, "dead")
  /\ UNCHANGED <<client, shouldRun, backlog, executed, calls, blamed>>

\* ... or calls the service, which may call one of another node itself.
CallFunction(n) ==
  /\ srv[n] = "dispatch"
  /\ job[n] = "valid"
  /\ Serve(n, "function")
  /\ \/ UNCHANGED <<client, calls>>
     \/ \E m \in Nodes, r \in Requests : CallBegin(n, m, r)
  /\ UNCHANGED <<wire, shouldRun, backlog, serving, work, executed, blamed>>

\* The service returns a value, ...
FunctionReturns(n) ==
  /\ srv[n] = "function" /\ pc[n] = "idle"
  /\ executed' = [executed EXCEPT ![n] = @ + 1]
  /\ ran' = [ran EXCEPT ![serving[n]] = executed'[n]]
  /\ job' = [job EXCEPT ![n] = None]
  /\ \/ /\ reply' = [reply EXCEPT ![n] = executed'[n]]
        /\ UNCHANGED blamed
     \/ /\ reply' = [reply EXCEPT ![n] = Unencodable]
        /\ blamed' = blamed \cup {n}
  /\ Serve(n, "reply")
  /\ UNCHANGED <<client, conn, up, down, shouldRun, backlog, serving, calls>>

\* ... or raises, which is caught.
FunctionRaises(n) ==
  /\ srv[n] = "function" /\ pc[n] = "idle"
  /\ job' = [job EXCEPT ![n] = None]
  /\ reply' = [reply EXCEPT ![n] = Refused]
  /\ Serve(n, "reply")
  /\ UNCHANGED <<client, wire, shouldRun, backlog, serving, executed, calls, blamed>>

\* Mutant of SendReply: send_msg lets the error of the socket through.
SendReplyRaises(n) ==
  LET k == serving[n]
  IN /\ srv[n] = "reply"
     /\ reply[n] # Unencodable
     /\ IF conn[k].client
          THEN /\ down' = [down EXCEPT ![k] = reply[n]]
               /\ reply' = [reply EXCEPT ![n] = None]
               /\ Serve(n, "receive")
               /\ UNCHANGED <<conn, up, ran, serving, job>>
          ELSE Release(n, "dead")
     /\ UNCHANGED <<client, shouldRun, backlog, executed, calls, blamed>>

\* send_msg to a client that has gone logs the error.
SendReply(n) ==
  LET k == serving[n]
  IN /\ srv[n] = "reply"
     /\ reply[n] # Unencodable
     /\ down' = [down EXCEPT ![k] = IF conn[k].client THEN reply[n] ELSE @]
     /\ reply' = [reply EXCEPT ![n] = None]
     /\ Serve(n, "receive")
     /\ UNCHANGED <<client, conn, up, ran, shouldRun, backlog, serving, job, executed, calls, blamed>>

\* Encoding the reply raises, outside any handler but the last one.
EncodingFails(n) ==
  /\ srv[n] = "reply"
  /\ reply[n] = Unencodable
  /\ Release(n, "dead")
  /\ UNCHANGED <<client, shouldRun, backlog, executed, calls, blamed>>

Server(n) ==
  \/ ServerLoop(n) \/ Accept(n) \/ AcceptTimeout(n)
  \/ ReceiveRequest(n) \/ ClientGone(n)
  \/ Refuse(n) \/ Misnamed(n) \/ CallFunction(n)
  \/ FunctionReturns(n) \/ FunctionRaises(n)
  \/ SendReply(n) \/ EncodingFails(n)

-----------------------------------------------------------------------------

Next ==
  \/ \E c \in Callers : CallService(c) \/ Progress(c) \/ Crash(c)
  \/ \E n \in Nodes : Start(n) \/ Stop(n) \/ Server(n)

\* Threads are scheduled, and a service that is called comes to an end.
Fairness ==
  /\ \A c \in Callers : WF_vars(Progress(c))
  /\ \A n \in Nodes : WF_vars(Server(n))

Spec     == Init /\ [][Next]_vars
FairSpec == Spec /\ Fairness

-----------------------------------------------------------------------------
(* Properties.                                                             *)

ClientLabels == {"idle", "connect", "send", "waiting", "callback", "crashed"}
ServerLabels == {"off", "loop", "accept", "receive", "dispatch", "function",
                 "reply", "stopped", "dead"}
Holding == {"receive", "dispatch", "function", "reply"}

\* The type invariant; a caller holds a connection exactly in a call that is
\* connected, and a server exactly while it serves one.
TypeOK ==
  /\ pc \in [Callers -> ClientLabels]
  /\ call \in [Callers -> [to : Nodes, request : Kinds] \cup {NoCall}]
  /\ chan \in [Callers -> Connections \cup {None}]
  /\ \A c \in Callers :
       chan[c] # None <=> pc[c] \in {"send", "waiting", "callback"}
  /\ \A c \in Callers : call[c] # NoCall <=> pc[c] \notin {"idle", "crashed"}
  /\ got \in [Callers -> Nat \cup {None}]
  /\ conn \in [Connections -> [to : Nodes \cup {None}, client : BOOLEAN,
                               server : BOOLEAN]]
  /\ up \in [Connections -> Kinds \cup {None}]
  /\ down \in [Connections -> Nat \cup {None}]
  /\ ran \in [Connections -> Nat \cup {None}]
  /\ srv \in [Nodes -> ServerLabels]
  /\ shouldRun \in [Nodes -> BOOLEAN]
  /\ backlog \in [Nodes -> Seq(Connections)]
  /\ serving \in [Nodes -> Connections \cup {None}]
  /\ \A n \in Nodes : serving[n] # None <=> srv[n] \in Holding
  /\ job \in [Nodes -> Kinds \cup {None}]
  /\ reply \in [Nodes -> Nat \cup {Unencodable, None}]
  /\ executed \in [Nodes -> Nat]
  /\ calls \in Nat
  /\ blamed \subseteq Nodes

\* A server thread ends only because of a request or an answer its node
\* cannot handle: a client that is killed at any moment, or that connects to
\* a full backlog, does not take the server down for the others.
OnlyBlamedServersDie == \A n \in Nodes : srv[n] = "dead" => n \in blamed

\* A caller that waits has an answer on the way, or its connection is with
\* the server or in the backlog, or was closed by the server: no connection
\* is lost between accept, serve and close.
NobodyIsForgotten ==
  \A c \in Callers : pc[c] = "waiting" =>
    LET k == chan[c]
        n == call[c].to
    IN \/ down[k] # None
       \/ ~conn[k].server
       \/ serving[n] = k
       \/ \E i \in 1..Len(backlog[n]) : backlog[n][i] = k

\* A call is answered with the value its own request produced, and no request
\* runs a service twice, whatever connections are reused, killed or queued.
Abstract == INSTANCE Rpc WITH
  Slots   <- Connections,
  calling <- [c \in Callers |->
                IF pc[c] \in {"send", "waiting"} THEN chan[c] ELSE None],
  slots   <- [k \in Connections |-> [node |-> conn[k].to, answer |-> ran[k]]],
  runs    <- executed
ImplementsRpc == Abstract!Spec

Down(n) == srv[n] \in {"stopped", "dead"}

\* Liveness, under FairSpec. While no server ends, every call comes to its
\* end: the server serves one connection at a time but no client keeps it,
\* alive or killed, and calls between nodes do not wait in a circle.
CallsReturn ==
  \A c \in Clients :
    (pc[c] # "idle") ~> \/ pc[c] \in {"idle", "crashed"}
                       \/ \E n \in Nodes : Down(n)

\* A stopped server thread ends once it has finished with its clients, unless
\* its service waits for a node that has ended itself.
StoppedServerEnds ==
  \A n \in Nodes :
    (srv[n] # "off" /\ ~shouldRun[n])
      ~> Down(n) \/ \E m \in Nodes \ {n} : Down(m)

\* What the repository says of this code, and the code does not do.
\* README.md:292: "An answer can be returned by a service, but is not
\* required. The answer must be a JSON-serializable object." A caller whose
\* service has returned is not hung up on.
AnswersAreReturned ==
  \A c \in Callers :
    pc[c] = "waiting" /\ ran[chan[c]] # None => conn[chan[c]].server

=============================================================================
