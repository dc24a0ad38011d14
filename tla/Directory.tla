------------------------------ MODULE Directory ------------------------------
(***************************************************************************)
(* How nodes find each other with Zeroconf (zeroconf_node.py, the lookups  *)
(* and update_zeroconf_topics of node.py). A node registers a record under *)
(* its name, or under another one if that is taken; application threads of *)
(* a node announce the topics they publish; the thread of each observer's  *)
(* ServiceBrowser keeps the table of discovered nodes, over which          *)
(* application threads iterate.                                            *)
(*                                                                         *)
(* The Zeroconf library is external: a name is registered once, the events *)
(* of a browser are handled one at a time in order, and get_service_info   *)
(* finds what is registered or nothing.                                    *)
(***************************************************************************)
EXTENDS Naturals, Sequences, FiniteSets, SequencesExt

CONSTANTS
  Nodes,
  NodeName,     (* The name each node asks for.                            *)
  Observers,    (* Nodes whose table is of interest; they call services.   *)
  Host,         (* A node whose application publishes ...                  *)
  Topics,       (* ... these topics, each from a thread of its own.        *)
  Leavers,      (* Nodes that may stop.                                    *)
  Called,       (* Suffixes of the names the observers call.               *)
  None

ASSUME NodesAssumption ==
  /\ IsFiniteSet(Nodes) /\ None \notin Nodes
  /\ DOMAIN NodeName = Nodes
  /\ Observers \subseteq Nodes /\ Host \in Nodes
  /\ IsFiniteSet(Topics) /\ None \notin Topics
  /\ Leavers \subseteq Nodes /\ Called \subseteq Nat

\* <<a, 0>> is the name a itself, <<a, i>> is a-i.
Names == {NodeName[n] : n \in Nodes} \X (0..(Cardinality(Nodes) - 1))

Records == [owner : Nodes, topics : SUBSET Topics]

ASSUME NoneAssumption == None \notin Records

VARIABLES
  net,          (* What is registered under each name, or None.            *)
  node,         (* Control point of each node.                             *)
  info,         (* The name in self.info of each node.                     *)
  counter,      (* The suffix _handle_non_unique_name_exception tries.     *)
  publishers,   (* The topics in Host's dictionary of publishers.          *)
  props,        (* The topics in the properties of Host's info.            *)
  pc,           (* Control point of each publishing thread.                *)
  size,         (* Size of the dictionary it iterates over.                *)
  collected,    (* The topics it collected.                                *)
  events,       (* Events each browser has yet to handle.                  *)
  handled,      (* The event it handles with the info it got, or None.     *)
  table,        (* discovered_nodes: the record of each name, or None.     *)
  call,         (* The service call of each observer.                      *)
  missed,       (* History: names whose last query had no answer.          *)
  raced         (* History: two threads held collected topics at once.     *)

registry == <<net, node, info, counter>>
threads  == <<publishers, props, pc, size, collected, raced>>
browsers == <<handled, table, missed>>
vars     == <<registry, threads, events, browsers, call>>

NoCall == [at |-> "idle", name |-> None, size |-> 0, seen |-> {},
           advertiser |-> None, peer |-> None]

Present(d) == {x \in DOMAIN d : d[x] # None}

Init ==
  /\ net = [x \in Names |-> None]
  /\ node = [n \in Nodes |-> "new"]
  /\ info = [n \in Nodes |-> <<NodeName[n], 0>>]
  /\ counter = [n \in Nodes |-> 0]
  /\ publishers = {} /\ props = {}
  /\ pc = [t \in Topics |-> "idle"]
  /\ size = [t \in Topics |-> 0] /\ collected = [t \in Topics |-> {}]
  /\ events = [o \in Observers |-> <<>>]
  /\ handled = [o \in Observers |-> None]
  /\ table = [o \in Observers |-> [x \in Names |-> None]]
  /\ call = [o \in Observers |-> NoCall]
  /\ missed = [o \in Observers |-> {}]
  /\ raced = FALSE

-----------------------------------------------------------------------------
(* Zeroconf.                                                               *)

Listening(o) == node[o] \notin {"new", "stopped"}

Emit(kind, names) ==
  events' = [o \in Observers |->
               IF Listening(o)
                 THEN events[o] \o SetToSeq({<<kind, x>> : x \in names})
                 ELSE events[o]]

Announce(n, x, kind) ==
  /\ net' = [net EXCEPT ![x] = [owner |-> n, topics |-> IF n = Host THEN props ELSE {}]]
  /\ Emit(kind, {x})

-----------------------------------------------------------------------------
(* A node advertises itself.                                               *)

\* A new browser is told of everything there is.
Construct(n) ==
  /\ node[n] = "new"
  /\ node' = [node EXCEPT ![n] = "advertise"]
  /\ events' = [o \in Observers |->
                  IF o = n THEN SetToSeq({<<"added", x>> : x \in Present(net)})
                           ELSE events[o]]
  /\ UNCHANGED <<net, info, counter, threads, browsers, call>>

Register(n, x) ==
  /\ net[x] = None
  /\ Announce(n, x, "added")
  /\ node' = [node EXCEPT ![n] = "up"]

Advertise(n) ==
  /\ node[n] = "advertise"
  /\ Register(n, info[n])
  /\ UNCHANGED <<info, counter, threads, browsers, call>>

NameTaken(n) ==
  /\ node[n] = "advertise"
  /\ net[info[n]] # None
  /\ node' = [node EXCEPT ![n] = "rename"]
  /\ counter' = [counter EXCEPT ![n] = 1]
  /\ UNCHANGED <<net, info, threads, events, browsers, call>>

NewName(n) == <<NodeName[n], counter[n]>>

\* Mutant: the node goes on with the info of the name it did not get.
RenameKeepsInfo(n) ==
  /\ node[n] = "rename"
  /\ Register(n, NewName(n))
  /\ UNCHANGED <<info, counter, threads, browsers, call>>

Rename(n) ==
  /\ node[n] = "rename"
  /\ Register(n, NewName(n))
  /\ info' = [info EXCEPT ![n] = NewName(n)]
  /\ UNCHANGED <<counter, threads, browsers, call>>

NewNameTaken(n) ==
  /\ node[n] = "rename"
  /\ net[NewName(n)] # None
  /\ counter' = [counter EXCEPT ![n] = @ + 1]
  /\ UNCHANGED <<net, node, info, threads, events, browsers, call>>

\* unregister_service, and close() for whatever else is registered.
StopAdvertising(n) ==
  /\ node[n] = "up" /\ n \in Leavers
  /\ LET own == {x \in Present(net) : net[x].owner = n}
     IN /\ net' = [x \in Names |-> IF x \in own THEN None ELSE net[x]]
        /\ Emit("removed", own)
  /\ node' = [node EXCEPT ![n] = "stopped"]
  /\ UNCHANGED <<info, counter, threads, browsers, call>>

-----------------------------------------------------------------------------
(* Threads that publish a new topic. update_topics is never called without *)
(* one: nothing removes a publisher.                                       *)

Go(t, label) == pc' = [pc EXCEPT ![t] = label]

InsertPublisher(t) ==
  /\ pc[t] = "idle" /\ node[Host] = "up"
  /\ publishers' = publishers \cup {t}
  /\ Go(t, "collect")
  /\ UNCHANGED <<registry, props, size, collected, raced, events, browsers, call>>

CollectBegin(t) ==
  /\ pc[t] = "collect"
  /\ size' = [size EXCEPT ![t] = Cardinality(publishers)]
  /\ Go(t, "collecting")
  /\ UNCHANGED <<registry, publishers, props, collected, raced, events, browsers, call>>

\* The dictionary has grown: RuntimeError in the application.
CollectRaises(t) ==
  /\ pc[t] = "collecting" /\ Cardinality(publishers) # size[t]
  /\ Go(t, "raised")
  /\ size' = [size EXCEPT ![t] = 0]
  /\ UNCHANGED <<registry, publishers, props, collected, raced, events, browsers, call>>

\* Mutant: only the new topic.
CollectOwn(t) ==
  /\ pc[t] = "collecting" /\ Cardinality(publishers) = size[t]
  /\ collected' = [collected EXCEPT ![t] = {t}]
  /\ size' = [size EXCEPT ![t] = 0]
  /\ Go(t, "update")
  /\ raced' = (raced \/ \E u \in Topics : pc[u] = "update")
  /\ UNCHANGED <<registry, publishers, props, events, browsers, call>>

CollectEnd(t) ==
  /\ pc[t] = "collecting" /\ Cardinality(publishers) = size[t]
  /\ collected' = [collected EXCEPT ![t] = publishers]
  /\ size' = [size EXCEPT ![t] = 0]
  /\ Go(t, "update")
  /\ raced' = (raced \/ \E u \in Topics : pc[u] = "update")
  /\ UNCHANGED <<registry, publishers, props, events, browsers, call>>

\* update_topics sets the properties of the info, ...
UpdateProperties(t) ==
  /\ pc[t] = "update"
  /\ props' = collected[t]
  /\ collected' = [collected EXCEPT ![t] = {}]
  /\ Go(t, "announce")
  /\ UNCHANGED <<registry, publishers, size, raced, events, browsers, call>>

\* ... and announces it again. An exception, after stop_advertising, is logged.
UpdateService(t) ==
  /\ pc[t] = "announce"
  /\ IF node[Host] = "up" THEN Announce(Host, info[Host], "updated")
                          ELSE UNCHANGED <<net, events>>
  /\ Go(t, "done")
  /\ UNCHANGED <<node, info, counter, publishers, props, size, collected, raced,
                 browsers, call>>

Publish(t) ==
  CollectBegin(t) \/ CollectRaises(t) \/ CollectEnd(t) \/ UpdateProperties(t)
    \/ UpdateService(t)

-----------------------------------------------------------------------------
(* The listener, on the thread of the browser of an observer.              *)

Idle(o) == Listening(o) /\ handled[o] = None /\ events[o] # <<>>
Kind(o) == Head(events[o])[1]
Name(o) == Head(events[o])[2]
Pop(o)  == events' = [events EXCEPT ![o] = Tail(@)]

\* add_service and update_service ask for the info, ...
Query(o) ==
  /\ Idle(o) /\ Kind(o) \in {"added", "updated"}
  /\ Pop(o)
  /\ \E i \in {net[Name(o)], None} :
       handled' = [handled EXCEPT ![o] = [name |-> Name(o), info |-> i]]
  /\ UNCHANGED <<registry, threads, table, missed, call>>

\* Mutant: an update of a known node is not stored.
StoreNew(o) ==
  /\ Listening(o) /\ handled[o] # None
  /\ LET x == handled[o].name
     IN /\ table' = [table EXCEPT ![o][x] = IF @ = None THEN handled[o].info ELSE @]
        /\ missed' = [missed EXCEPT ![o] = IF handled[o].info # None THEN @ \ {x}
                                                                   ELSE @ \cup {x}]
  /\ handled' = [handled EXCEPT ![o] = None]
  /\ UNCHANGED <<registry, threads, events, call>>

\* ... and store it, if there was an answer.
Store(o) ==
  /\ Listening(o) /\ handled[o] # None
  /\ LET x == handled[o].name
     IN IF handled[o].info # None
          THEN /\ table' = [table EXCEPT ![o][x] = handled[o].info]
               /\ missed' = [missed EXCEPT ![o] = @ \ {x}]
          ELSE /\ missed' = [missed EXCEPT ![o] = @ \cup {x}]
               /\ UNCHANGED table
  /\ handled' = [handled EXCEPT ![o] = None]
  /\ UNCHANGED <<registry, threads, events, call>>

RemoveService(o) ==
  /\ Idle(o) /\ Kind(o) = "removed"
  /\ Pop(o)
  /\ table' = [table EXCEPT ![o][Name(o)] = None]
  /\ missed' = [missed EXCEPT ![o] = @ \ {Name(o)}]
  /\ UNCHANGED <<registry, threads, handled, call>>

Browse(o) == Query(o) \/ Store(o) \/ RemoveService(o)

-----------------------------------------------------------------------------
(* A service call looks its node up twice: for the services it advertises  *)
(* and for its port. Each time it iterates over the table.                 *)

Looking(o) == call[o].at \in {"services", "port"}
Size(o)    == Cardinality(Present(table[o]))

CallService(o) ==
  /\ node[o] = "up" /\ call[o].at = "idle"
  /\ \E x \in {y \in Names : y[2] \in Called} :
       call' = [call EXCEPT ![o] = [NoCall EXCEPT !.at = "services", !.name = x,
                                                  !.size = Size(o)]]
  /\ UNCHANGED <<registry, threads, events, browsers>>

Visit(o) ==
  /\ Looking(o) /\ Size(o) = call[o].size
  /\ \E x \in Present(table[o]) \ (call[o].seen \cup {call[o].name}) :
       call' = [call EXCEPT ![o].seen = @ \cup {x}]
  /\ UNCHANGED <<registry, threads, events, browsers>>

Found(o) ==
  LET r == table[o][call[o].name]
  IN /\ Looking(o) /\ Size(o) = call[o].size
     /\ r # None
     /\ call' = [call EXCEPT ![o] =
                   IF @.at = "services"
                     THEN [@ EXCEPT !.at = "port", !.seen = {}, !.advertiser = r.owner]
                     ELSE [@ EXCEPT !.at = "connect", !.peer = r.owner]]
     /\ UNCHANGED <<registry, threads, events, browsers>>

\* Nothing found, or RuntimeError because the table has changed its size.
LookupFails(o) ==
  /\ Looking(o)
  /\ \/ Size(o) # call[o].size
     \/ Present(table[o]) \subseteq call[o].seen
  /\ call' = [call EXCEPT ![o] = NoCall]
  /\ UNCHANGED <<registry, threads, events, browsers>>

CallEnds(o) ==
  /\ call[o].at = "connect"
  /\ call' = [call EXCEPT ![o] = NoCall]
  /\ UNCHANGED <<registry, threads, events, browsers>>

Lookup(o) == Visit(o) \/ Found(o) \/ LookupFails(o) \/ CallEnds(o)

-----------------------------------------------------------------------------

Next ==
  \/ \E n \in Nodes : Construct(n) \/ Advertise(n) \/ NameTaken(n) \/ Rename(n)
                         \/ NewNameTaken(n) \/ StopAdvertising(n)
  \/ \E t \in Topics : InsertPublisher(t) \/ Publish(t)
  \/ \E o \in Observers : Browse(o) \/ CallService(o) \/ Lookup(o)

\* The thread of a browser goes on as long as it has events.
Fairness == \A o \in Observers : WF_vars(Browse(o))

Spec     == Init /\ [][Next]_vars
FairSpec == Spec /\ Fairness

-----------------------------------------------------------------------------
(* Properties.                                                             *)

\* The type invariant; a node that is up owns the record its info names, also
\* after it had to look for another name: what it announces and withdraws
\* later is never the record of another node.
TypeOK ==
  /\ net \in [Names -> Records \cup {None}]
  /\ node \in [Nodes -> {"new", "advertise", "rename", "up", "stopped"}]
  /\ info \in [Nodes -> Names]
  /\ \A n \in Nodes : node[n] = "up" => net[info[n]] # None /\ net[info[n]].owner = n
  /\ counter \in [Nodes -> 0..Cardinality(Nodes)]
  /\ publishers \subseteq Topics /\ props \subseteq publishers
  /\ pc \in [Topics -> {"idle", "collect", "collecting", "update", "announce",
                        "done", "raised"}]
  /\ size \in [Topics -> Nat] /\ collected \in [Topics -> SUBSET Topics]
  /\ events \in [Observers -> Seq({"added", "updated", "removed"} \X Names)]
  /\ handled \in [Observers -> [name : Names, info : Records \cup {None}] \cup {None}]
  /\ table \in [Observers -> [Names -> Records \cup {None}]]
  /\ missed \in [Observers -> SUBSET Names]
  /\ raced \in BOOLEAN
  /\ \A o \in Observers :
       /\ call[o].at \in {"idle", "services", "port", "connect"}
       /\ call[o].advertiser \in Nodes \cup {None}
       /\ call[o].peer \in Nodes \cup {None}
       /\ call[o].seen \subseteq Names /\ call[o].size \in Nat

\* The node whose port a call connects to is the one whose services it has
\* looked up, or that one has left meanwhile: a node that takes a name over
\* can only be found after the former one withdrew its record.
CallReachesAdvertiser ==
  \A o \in Observers : call[o].at = "connect" =>
    \/ call[o].peer = call[o].advertiser
    \/ node[call[o].advertiser] = "stopped"

\* When no thread is about to announce a topic, the properties of a node have
\* all the topics it publishes, unless two threads updated them at once.
TopicsAdvertised ==
  (\A t \in Topics : pc[t] \in {"idle", "done", "raised"})
    => props = publishers \/ raced

\* Liveness, under FairSpec. Whatever nodes come, go, take names over and
\* publish, and however slow a browser is, its table ends up with exactly the
\* records that are registered, except for queries that had no answer.
Converges ==
  \A o \in Observers :
    <>[](node[o] = "up" =>
           \A x \in Names \ missed[o] : table[o][x] = net[x])

=============================================================================
