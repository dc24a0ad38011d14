# Verification of Axone

Axone is a small publish/subscribe and service middleware in Python. Nodes
publish typed structures over UDP multicast (or shared memory), find each other
with Zeroconf, and call each other's services over TCP or Unix sockets. Most of
its difficulty is in threads that share one object without a lock, in
loops that retry, and in resources that are closed by one thread while another
uses them. This project models those parts in TLA+, checks them with TLC and
proves the central facts with TLAPS.

## The system

| Component | Source | State it keeps | Operations | What makes it hard |
|---|---|---|---|---|
| Subscription | `subscriber.py` | socket, recorded group/port/interface, listening thread, stop event, last structure | handlers for Added/Updated/Removed, `_restart_socket`, `_listen`, `subscribe`, `stop` | four kinds of threads on one object, no lock; nested retries; thread replacement |
| Publisher | `publisher.py` | topic, socket or memory, port, last update | `publish`, `_publish_socket`, `stop` | called from application threads and from the event loop; drops after five failures |
| AxoneNode, publishing and life cycle | `node.py` | dictionary of publishers, running tasks, event loop, flag | `publish_rate`, `publish_once`, `update_publishers`, `_schedule_publisher`, `start`, `stop` | dictionaries shared by an event loop and application threads; check-then-insert; stop in several steps |
| AxoneNode, lookups | `node.py` | none (reads the discovered nodes) | `list_nodes`, `find_node_by_name`, `get_node_configuration`, ... | iterates over a table the browser changes; two lookups in one call |
| Service calls | `node.py`, `service_server.py` | listening socket, connection, server flag | `_call_service`, `_server`, `find_and_call_service`, `recv_msg` | one connection at a time, no client timeout, server thread ends on an exception |
| AxoneNodeProcess | `node_process.py` | pipe, queue, child process | `_call_function`, `_call_function_async`, `_server_process`, `listen_once` | replies are not matched to calls; a failing call is never answered |
| ZeroconfNode | `zeroconf_node.py` | advertised properties, table of discovered nodes | `advertise`, rename, `update_topics`, listener callbacks | name conflicts, stale entries |
| Shared-memory registry | `shared_memory.py`, `axone_shm.py` | memory block, cached structure, per-instance lock | `__getitem__`, `__setitem__`, `advertise`, `add_topic` | the lock is private to each instance; two-step writes |
| Codec | `axone_struct.py` | attributes of a structure | `encode`, `decode`, `get_approximate_size` | partial updates on decode; size estimate |
| Key file | `encryption.py` | the key file | `load_encryption_key`, `generate_encryption_key` | check-then-create by several processes |
| Helpers | `common.py`, `enums.py`, `custom_logger.py`, `cmd_line.py`, `service.py` | none shared | | |

How they interact. A node owns its publishers, subscriptions, service server
and Zeroconf node. A publisher registers a Zeroconf service with its group and
port; the service browser *inside each subscription* calls back on a thread of
its own, and the subscription joins the group and starts a listening thread,
which calls the application's callbacks. A service call looks the node up in the
table the node's own browser maintains, connects, sends one request and waits.
A node process runs a node in a child process and forwards calls through a pipe.

What correctness means for each: one listening thread at a time that always
follows the last announcement, ends when told and joins again after an error, as
far as the retries go (Subscription); every rated topic published by exactly one task, none after
stop (publishing); every request executed at most once and answered or failed,
with the server surviving (service calls); every synchronous call answered with
its own result (node process); a table that converges to the advertised nodes
(directory); no registration lost (registry); decode after encode gives
the values back (codec); all processes agree on one key (key file). The hazards
behind these are listed, at their lines, in `PROJECT.json`.

## Modules

| Module | Contents |
|---|---|
| `Feed.tla` | what a subscription promises the application, as an abstract specification |
| `Subscription.tla` | the socket variant of a subscription and its properties; implements `Feed` |
| `MCSubscription.tla` | instances for TLC, symmetry |
| `SubscriptionProofs.tla` | its inductive invariants and theorems, the refinement of `Feed` among them |
| `Rpc.tla` | what a service call promises, as an abstract specification |
| `ServiceCall.tla` | callers, connections and service servers; implements `Rpc` |
| `MCServiceCall.tla` | instances for TLC |
| `ServiceCallProofs.tla` | its theorems, the refinement of `Rpc` among them |
| `NodeProcess.tla` | a node in a child process: pipe, child loop, subscription queue |
| `MCNodeProcess.tla` | instance for TLC |
| `NodeProcessProofs.tla` | its theorems |
| `Publishing.tla` | publishers, the event loop with its tasks, `start` and `stop` of a node |
| `MCPublishing.tla` | instances for TLC |
| `PublishingProofs.tla` | two inductive invariants and the theorems |
| `Directory.tla` | Zeroconf nodes, the table of an observer, the lookups of a call |
| `MCDirectory.tla` | instance for TLC |
| `DirectoryProofs.tla` | its theorems |
| `Codec.tla` | layout, size and decoding of messages (operators only) |
| `CodecProofs.tla` | what its recursive functions compute: offsets, cells, sums, decode after encode |
| `SharedTopic.tla` | a topic in shared memory, its publishers and a subscription; uses `Codec` |
| `MCSharedTopic.tla` | instance for TLC |
| `SharedTopicProofs.tla` | that all use one block, read whole messages, and which have room |
| `MachineNodes.tla` | the constants `KeyFile` and `Registry` share |
| `KeyFile.tla` | how nodes get an encryption key |
| `Registry.tla` | the registry of nodes in shared memory; uses `Codec` |
| `SharedNode.tla` | the life of a shared-memory node: `KeyFile`, then `Registry` |
| `MCSharedNode.tla` | instance for TLC |
| `SharedNodeProofs.tla` | that nodes agree on their keys, and what the registry lists |

### Subscription.tla

Threads and their control points (`pc`):

* `Browser`, the thread of the `ServiceBrowser`. It takes events from `pending`
  one at a time: `HandleAnnounced` (the service was resolved),
  `HandleUnresolved`, `HandleRemoved` and `HandleRemovedIgnored` (the Removed
  handler acts only if Zeroconf still resolves the name). A resolved
  announcement goes on through `LookupSucceeds`/`LookupFails`
  (`get_local_ip_for_target`), `RestartBegin`, `RestartWait`
  (`_restart_socket`), the creation of the socket, and
  `StartClear`/`StartSpawn`/`StartLaunch` (`_start_listening_thread`). What a
  handler raises (`LookupFails`, `CreateRaised`) ends this thread, as the
  library's thread catches nothing: it is `exited` like after `cancel()`, and
  what is announced later stays in `pending`.
* `Listeners`, the threads `_start_listening_thread` creates: `ListenLoop`,
  then `subscribe()` as `SubscribeBegin` ... `Callback`. The identity of a dead
  thread is used again for a new one.
* `Callers`, application threads in `listen_once`, which run the same
  `subscribe()`.
* `Stopper`, the thread in `stop()`.

`Create(t)` is `_create_socket_with_retries`, run by the browser and by any
receiver whose socket failed. `CreateFails` is any `OSError` (`Refused`): of
`socket.socket()` itself, which leaves the closed socket in place, of `bind`, or
of the membership; after the last try `CreateRaised` follows.

Granularity. A step goes from one point where a thread may block (a system
call, a join, a sleep, a wait) to the next; reads and writes of attributes in
between are one step. The places where the code checks an attribute and uses it
again after such a point are separate steps, and so are the three lines of
`_start_listening_thread`, because other threads look at the attributes in
between. Sleeping before a retry is waiting at the label `create`.

Abstractions. Group and port are one model value `recorded`; the interface is
named by the endpoint it reaches; a socket is `closed`, open without
membership, or member of a (endpoint, interface) pair; a packet is the pair of
the socket it came from. A socket object that no thread holds is collected and
closed, as CPython does. The rates and timestamps are left out: they only decide the length of
the timeout, and `ReceiveTimeout` may always happen. Payloads
that do not decode are left out: their exception goes to the same handler as
the exceptions that are modelled. The Zeroconf library is external: it queues
events for one handler thread, and `cancel()` waits for that thread.

`Feed.tla` says what the callbacks of an application may rely on. The
subscription follows an endpoint only while it is announced (`Follow`); the topic
is handed over to a reader when no other has a message in hand (`HandOver`); from
then on that reader takes messages, of the endpoint followed and on its interface,
one at a time (`Take`), and each is shown once (`Show`, `Done`). A message may be
dropped (`Drop`) once `stop()` was called, the publisher was withdrawn, or if
somebody else receives on the subscription; a withdrawal takes the topic back
(`Lose`) and leaves the old reader at work beside the new one. Between `Follow` and
`HandOver`, and after a handler that failed, what is taken may come from an earlier
endpoint, or from a group of one and the interface of another: the code changes the
two attributes one after the other, and a listening thread may join in between.
After `stop()` has returned nothing is followed or handed over. The definition
`Abstract` in `Subscription` is the mapping: `target` is what the handler recorded,
`reader` the current listening thread once its handler has ended as `joined`, `hand`
the origin of the packet a listening thread processes, `shown` the threads in their
callbacks.

### ServiceCall.tla

Callers are client processes and, when a service calls another one, the
nodes themselves. `CallBegin` ... `CallReturns` are the steps of
`_call_service` between two points where it may block; `Start`, `Stop` and
`ServerLoop` ... `EncodingFails` those of `ServiceServer`, whose one thread
accepts a connection and serves it until the client closes it. A connection
holds at most one request (`up`) and one reply (`down`), as the client sends one
request per connection. The system completes a connection as soon as there is
room in the backlog, whether or not the server will accept it: that is why a
caller of a server that has ended waits. Requests are of three kinds: valid,
refused (unknown service, wrong number of arguments) and misnamed (right number,
wrong names), which raises `KeyError` outside the handler of the service.
A service returns the number of times the node has run one, so that answers can
be told apart, or a value that cannot be encoded (a string of more than 127
bytes). Whole messages are read or none; the lookup of the node and its port is
an input.

`Rpc.tla` says what a caller may rely on: the service runs at most once for a
call, between the call and its answer, and the answer is the one this call
produced; a call that fails may have run. The refinement maps a slot of `Rpc` to
a connection; the definition `Abstract` in `ServiceCall` gives it.

### NodeProcess.tla

Application threads of the parent (`Callers`, `Readers`), the pipe (`down`,
`up`), the child's loop (`child`: boot, poll, run a task, publish what is due)
and the subscription queue. The queue is in two parts, as
`multiprocessing.Queue` is: what was put and its thread has not serialized
(`buffer`), and what the parent can fetch (`queue`); `qsize()` reports both,
`get()` waits for the second. What is put is a reference to the structure the
listening thread goes on decoding into, so its version is taken when it is
serialized (`Feed`). `recv()` reads the length of an answer and then the answer:
when two threads read at once each may take a part (`garbled`), and everything
after that is open. Functions that raise are bounded by `MaxFailures`. One
topic is published and one is subscribed to; rates are negative, positive or
zero. Functions of the child return or raise, and structures can be serialized.

### Publishing.tla

Application threads (`Apps`) that call `publish_rate` and `publish_once`, the
event loop, its tasks, and the thread in `start()` or `stop()`. They share
`publishers`, `runningTasks` and the publishers themselves without a lock. The
loop takes what is in `ready` in order and runs it up to its next await:
`BeginUpdate`, `UpdateTopic`, `EndUpdate`, `UpdateRaises` are
`update_publishers`; `BeginTask`, `PeriodOver`, `NotYet`, `TaskPublishes`,
`Wake` are `_schedule_publisher`. Other threads may act between two iterations
over a dictionary, and an insertion makes the next one raise `RuntimeError`: in
the loop it ends the update, in `stop()` it ends `stop()`. `publish_once` looks
the topic up (`PublishOnce`) and inserts (`InsertOnce`) in two steps, and
`publish()` writes the structure of the publisher that is in the dictionary by
then. Whoever has inserted collects the topics (`CollectBegin`, `CollectEnd`:
`update_zeroconf_topics`) before it goes on; when another insertion comes in
between, `CollectRaises` ends the call: `publish_rate` schedules no update then,
and `publish_once` publishes nothing.

Abstractions. `publish()` is one step, and what it encodes and sends is left out;
so are the retries of `sendto`, the subscriptions and the advertisement that
`stop()` also ends, and starting a node again. Making a publisher either
succeeds or raises and leaves nothing. A structure is the number of the call
that handed it over. Three variables are history: `given` (the structure of the last
`publish()` of an application), `late` (a publisher inserted after `stop()`
began) and `orphaned` (an update was interrupted, or never scheduled, and no other
is to come). What is collected is `Directory`'s business.

### Directory.tla

A node constructs its Zeroconf objects and browser (`Construct`), registers
its name (`Advertise`) or finds it taken and tries `name-1`, `name-2`, ...
(`NameTaken`, `NewNameTaken`, `Rename`), and withdraws what it owns
(`StopAdvertising`). `Host` publishes topics from several threads, each of which
inserts its publisher, iterates over the dictionary (`CollectBegin`,
`CollectEnd`, or `CollectRaises` when another insertion came in between), sets the
properties and announces them. Each observer has the thread of its browser:
`Query` asks for the record (and may get no answer), `Store` stores it,
`RemoveService` forgets it. A service call looks its node up twice, first for the
services (`at = "services"`), then for the port (`"port"`), each time
iterating over the table the browser changes.

External: the Zeroconf library registers a name once, queues events of a browser
in order for one thread, and answers a query with what is registered or
nothing. Every node advertises services; `missed` and `raced` are history.

### Codec.tla and SharedTopic.tla

`Codec` gives a message's size as `encode` lays it out and the size
`get_approximate_size` expects, and which messages either of them refuses:
`encode` long texts, integers beyond 32 bits, other types and `None` in a list
(`Encodable`), `get_approximate_size` any attribute that is `None` or of another type
(`Estimable`). A text in a list has two lengths: the characters that the
estimate counts, and the bytes that `encode` writes, up to four for each.
Bytes count only by their number: a memory maps
offsets to cells, each an attribute or the number in front; writing a cell
destroys what it overlaps, and `Decode` takes as many attributes as the number
says, each where the last one ends. So a message written over a longer
or shorter one, half a message, and zeros are all told apart.

In `SharedTopic` a publisher asks for the size of its first message, and is not made
if there is none (`NoEstimate`); it takes the name of the block exclusively
(`CreateMemory`) and gives it a size in a second step (`SizeMemory`), or opens
it (`OpenMemory`); a message is copied cell by cell (`PublishStep`). A
subscription maps the block once, if there is one (`Subscribe`); its listening
thread and `listen_once` each copy the block (`Read`) and decode it into the
one struct they share (`DecodeStep`). Publishers may crash between any two steps.
Closing the block under a thread that copies it raises `BufferError` in `stop()`,
which is left out: the stop event is set by then, and `StopSubscription` ends the
reading either way.
The rate is left out: as an attribute it is like the timestamp, and the sleep
it gives only delays.

What the excepted cases of the properties say of the code: two threads that
decode into one struct deliver a mix of two messages; a list of more than about
fifty short numbers does not fit the block made for that very list, since four bytes
and the digits are granted for each item where nine are needed, and neither do
twenty names in Greek, which take two bytes for each character
(`UnderestimatedAssumption` has TLC compute both); an attribute that
in the first message had another type, or was a shorter list or a list of
shorter items, may have no room when it grows, and there is no first message
with an attribute that is `None`; a publisher that stops
removes the block it created although others publish into it, so that
publishers and subscriptions then are on different blocks; a subscription older
than the block stays without.

### KeyFile.tla, Registry.tla and SharedNode.tla

`KeyFile` is the first part of `AxoneNode.__init__` (and the same lines of
`AxoneNodeProcess`): a node loads the configured file, if it exists, and
otherwise takes the key in `/tmp` or makes one there, in two steps (`OpenFile`,
`WriteKey`), as the tool in `encryption.py` does for the configured file. A key
is named after who made it. Note that a missing configured file is never
made by a node: `generate_encryption_key()` is called without the path.

`Registry` is the block all nodes list themselves in. `Attach`, `Create` and
`SetSize` are the creation of the block, `ReadInto` is `_read_memory`,
`SetEntry`, `SaveStep` and `SaveEnd` are `_save_memory`. A node's copy (`inst`)
is the attributes of the instance, which `decode` sets; an assignment sets the
attribute of the class. When both exist, the one of the instance is encoded.
A read that fails leads to `_save_memory` under the lock `_read_memory` holds,
which is not reentrant: the node is `blocked` for good.

What the excepted cases say of the code: two nodes that register at once lose
one entry; `stop()` writes back the entries its node last read, so that
those who came later disappear; a node that has looked at the registry since it
registered stays listed after `stop()`; `get_node_configuration` takes the name
found for an id and finds no memory. `departed` also excepts a node that is started
again after a clean stop, which is never listed: `stop()` left an entry of value `None`
for its identifier, which is made of its name; the node reads it before it
registers, and the attribute of the instance that sets hides the one that
`__setitem__` sets, so that `None` is written back.

### Runs

| Run | Instance | What it shows |
|---|---|---|
| `subscription_safety` | 3 listeners, 1 caller, 2 endpoints, 3 sockets, 2 retries, 1 pending event, 1 spontaneous failure, 1 withdrawal | `TypeOK`, `AtMostOneListener`, `ListenersBounded`, `ListenerRunsUnlessStopped`, `InterfaceKnown`, `ImplementsFeed` (every behaviour is one of `Feed`) hold, also with a second receiver that recreates the socket |
| `subscription_live` | 2 listeners, 2 endpoints, 3 failures, `FairSpec` | `DecodedIsDelivered`, `StopTerminates`, `ListenersExit`, `SelfHeals` |
| `subscription_stop_race` | 2 listeners, 1 endpoint, no failure, `FairSpec` | finding: a thread survives `stop()` |
| `subscription_rejoin` | 2 listeners, 1 endpoint, 2 failures, 1 withdrawal, `FairSpec` | finding: after a handler has raised the subscriber never rejoins |
| `service_safety` | 2 clients, 2 nodes (the first may call the second), 3 connections, backlog 1, 3 calls, all kinds of requests, clients that crash, `FairSpec` | `TypeOK`, `OnlyBlamedServersDie`, `NobodyIsForgotten`, `ImplementsRpc` (every behaviour is one of `Rpc`), `CallsReturn`, `StoppedServerEnds` |
| `service_answers` | as `service_safety` | finding: the answer of a service that ran may be lost |
| `node_process` | 2 callers, 1 reader, 3 tasks, 1 message, 1 function that raises, `FairSpec` | `TypeOK`, `CallersAccountedFor`, `OwnAnswer`, `OnlyBrokenTopicsKill`, `FreshListen`, `CallsAnswered`, `ListenCompletes`, `DueIsPublished` |
| `publishing` | 2 applications, 2 topics, 2 publishers, 4 tasks, 2 calls, `FairSpec` | `TypeOK`, `OneTaskPerTopic`, `StopCleansUp`, `StopEnds`, `RatedIsScheduled` |
| `publishing_update` | 1 application | finding: a structure handed to `publish_once` is overwritten by an older one |
| `directory` | 3 nodes that ask for one name, 1 leaves, 1 publishes 2 topics, 1 observes, `FairSpec` | `TypeOK` (with the ownership of records), `CallReachesAdvertiser`, `TopicsAdvertised`, `Converges` |
| `shared_topic` | 2 publishers, 2 reading threads, 1 message each over 7 contents, crashes | `WholeMessage`, `RoomEnough`, `OneBlock` |
| `shared_node` | 3 nodes and the tool, a registry with room for 2, crashes and restarts | `KeysAgree`, `AllListed`, `OnlyTornReadsBlock`, `StopUnregisters` |

Bounds. `MaxRetries` is 2 where the code has 10: the loops only compare with
it, and 2 has a first, a repeated and a last attempt. `MaxPending` 1 lets an
event arrive during every step of the handler of the previous one; the handler
is sequential, so a longer queue only delays (2 where the announcement after a
withdrawal is to wait behind it). `MaxRemovals` 1 is enough for the
second listening thread that a withdrawal causes, with the third identity free to
show a further one. `MaxFailures` bounds failures the system produces on its
own; failures caused by other threads (a closed socket, a socket set to None)
are not bounded. `SelfHeals` has three of them, which are a receive error and as many
refused sockets as there are retries, so that running out of them is part of the
instance. Deadlock checking is off because after `stop()` the system ends.

The service runs have one connection more than callers that use one at a time, so
that one can outlive its caller, and a backlog of one, as the code's `listen(1)` asks
for; three calls are a nested one, one that is refused a place in the
backlog and one after a crash. In the node process, three tasks are two calls that
overlap and one in between, or a call, a publication and a `listen_once`; two
versions of a structure (0 is the empty one) are enough to tell an old one
from a new one. A structure that cannot be encoded reaches a publisher with a
rate through `publish_once`, so the pair of a rate and a bad structure is
left out of the instance.

In the publishing run, two calls are the race of `publish_rate` with
`publish_once` for one topic, and two topics make an insertion interrupt an
iteration. Each call makes at most one publisher; each topic has at most one task
before `stop()` clears the table of tasks and one after, hence four.

Constraints. In `subscription_safety` a caller at work and a withdrawal are not
combined (`CallersOrWithdrawal`): `ListenersBounded` does not speak of callers, and
the theorem about `Feed` covers both together. `DecodedIsDelivered` says nothing
when there are callers, so it is checked in `subscription_live`, which has none;
`Feed` lets a message be dropped when there are. `FreshDelivery` and
`RestartFindsThread` are no properties of a run: they are proved, and
`ImplementsFeed` says the former of every step. In `shared_topic` at
most two of the four threads are in the middle of something (`AtMostTwoBusy`):
what two that write, or two that decode, do to a third is excepted by
`WholeMessage`. All contents are tried as the first message of a topic and have room
or not in the block that is made for it; what is copied and read is of the plain
ones (`PlainIfUsed`), as who reads has no part in which messages have room. The
proofs have none of these constraints. In `shared_node` the registry is explored for one outcome of the
keys, as the two parts share nothing but the order (`OneOutcomeOfKeys`), and the
third node, the one that finds the registry full, starts when two are up
(`Latecomer`); the race for the keys has two nodes and the tool.

In the directory, three nodes that ask for one name need two suffixes; the
observer asks for the name itself, which the node that leaves may free for
another. In the shared topic, the contents differ in the attributes they
have, in the length of the text and in that of the list, and one message of each
publisher goes over what the other has written; where room is the question, there
are also one without an estimate, a list too long, and lists of names in one
and in two bytes a character. In the registry an entry takes nine
bytes, so 25 are room for two, or for one and one that is unregistered.

Fairness. Every thread is scheduled (`WF` on the browser, on each receiver and
on `stop()` once it has begun). Nothing obliges publishers to announce, nor the
application to call `listen_once` or `stop()`. Blocking calls return:
`recvfrom` has a timeout, the joins of `_stop_listening_thread` too, and the
service browser's thread ends after `cancel()`.

In the service runs callers and servers are scheduled and a service ends;
clients may stay or crash as they like. In the node process the
threads that have begun a call, the child and the thread of its queue are
scheduled; the application, the clock and the publisher of the topic owe nothing.
In the publishing run, the threads, the event loop and a `stop()` that has begun are
scheduled, timers fire, and a call that has begun goes on; nothing obliges the
application to call. In the directory only the threads of the browsers owe
progress; nodes may come, go and stay in the middle of a registration.
`shared_topic` and `shared_node` are about safety only: the code promises no
progress there, and a node that crashes halfway is part of the model.

### Findings

1. `stop()` racing with a restart. A handler that is between `_create_socket`
   and `_start_listening_thread` when `stop()` looks at the listening thread
   clears the stop event and starts a new thread, which no one stops
   (`subscriber.py:346` says "Ensure the listening thread is stopped").
   Everything else about stopping holds: `StopTerminates` and `ListenersExit`.
2. A subscriber one of whose handlers raises never rejoins: the `RuntimeError` of
   `get_local_ip_for_target` (line 143), or of a socket that cannot be had (line
   179), ends the thread of the service browser. The publisher may disappear and
   reappear, its announcement is not handled (`README.md:209` promises to
   rejoin automatically). The theorem `RestartFinds` shows what does not happen: no
   handler gets to line 161 with a socket and no thread, since the failure that
   would leave it so also ends the browser.

3. A service's answer that cannot be encoded ends the server: a string of more
   than 127 bytes is JSON-serializable (`README.md:292`), but
   `standard_data_encoding` raises outside the handler of the service, the
   server's only thread ends (`service_server.py:220`), this caller gets an
   end of connection, and every later one connects to the socket that stays
   open and waits. `OnlyBlamedServersDie` shows that nothing else ends a
   server but that and a request with misnamed arguments.

4. A task of a topic with a rate reads the structure of its publisher and then
   calls `publish()` with it (`node.py:717`), which stores it as the structure
   of the publisher. When `publish_once` hands over another structure in
   between, the task overwrites it for good: the following periods publish
   the old one (`publisher.py:138`: "This will update the topic for the next
   publish").

`StopCleansUp` speaks of the publishers in the dictionary only: one whose entry was
taken by another, by a second `publish_rate` for its topic or in a race of two
calls, is never stopped. Its Zeroconf object and thread stay, and in shared
memory the block it created is never removed, since the one in its place has
only opened it. Over sockets the second registration of the same name is
normally refused with an exception; it goes through when the first one does
not answer in time.

`RatedIsScheduled` names ways to lose a publication at a rate. An
update in the loop, or a `publish_rate` that collects the topics before it schedules
one, is interrupted by an insertion of another thread, and no other update is to
come: the rated topic stays without a task until the next `publish_rate`. And a
`publish_once` that looked the topic up before `publish_rate` inserted it
replaces the rated publisher by one without a rate.

`SelfHeals` names the way to stay deaf: when the system refuses a socket as often as
the retries go, line 92 logs the exception and the listening thread goes on with
the open socket of the last try, which has joined nothing. It waits for packets
that cannot come until the publisher is announced again.

A withdrawal also leaves the old listening thread running, and the next
announcement starts one more: `ListenersBounded` states the exact bound, one
thread per withdrawal on top of the one that is due.

### Theorems

TLC checks small instances; the theorems hold for any sets of threads, nodes,
topics, connections, messages and any bounds, of which they assume what the
named `ASSUME`s of the modules say: sets of threads, nodes and values do not
overlap and do not contain `None`, those a proof counts are finite, and bounds are
natural numbers. Every strengthened invariant was checked by TLC on the instance
of its run before it was proved. A proof that an invariant is inductive has one
lemma for each action, or for each group of actions that leave a part alone.

| Property | Theorem | What the inductive invariant adds |
|---|---|---|
| `Subscription.TypeOK` | `TypeCorrect` | `EndpointInv` |
| `AtMostOneListener` | `OneListener` | `OneListenerInv` |
| `ListenersBounded` | `ThreadsBounded` | `OwedInv` |
| `ListenerRunsUnlessStopped` | `ListenerRuns` | it is inductive with the types |
| `FreshDelivery` | `DeliveryIsFresh` | `FreshInv` |
| `InterfaceKnown` | `InterfaceIsKnown` | `EndpointInv` |
| `DecodedIsDelivered` | `DecodedDelivered` | `DecodedInv` |
| `RestartFindsThread` | `RestartFinds` | `ThreadInv` |
| `ImplementsFeed` | `SubscriptionImplementsFeed` | `FeedInv` |
| `ServiceCall.TypeOK` | `TypeCorrect` | `HeldByCallers`, `HeldByServers`, `Closed`, `Nested` |
| `OnlyBlamedServersDie` | `ServersSurvive` | `OnRecord` |
| `NobodyIsForgotten` | `NobodyForgotten` | `HeldByCallers`, `HeldByServers` |
| `ImplementsRpc` | `CallsImplementRpc` | `OneRequest` |
| `NodeProcess.TypeOK` | `TypeCorrect` | `Resting`, `Reading` |
| `OwnAnswer` | `CallersGetTheirOwn` | `OneCall` |
| `CallersAccountedFor` | `NoAnswerForNobody` | `Balanced`, `Reading` |
| `OnlyBrokenTopicsKill` | `ChildSurvives` | it is inductive with the types |
| `FreshListen` | `ListenIsFresh` | `InOrder`, `Promise` |
| `Publishing.TypeOK` | `TypeCorrect` | `OnTheWay` |
| `OneTaskPerTopic` | `OneTask` | `Registered`, `Phases` |
| `StopCleansUp` | `StopSweeps` | `Sweeping` |
| `Directory.TypeOK` | `TypeCorrect` | `Renaming`, `NetOwners` |
| `CallReachesAdvertiser` | `CallsReachAdvertisers` | `HeldOwners`, `NeverBack` |
| `TopicsAdvertised` | `AllTopicsAdvertised` | `Propagating` |
| `OneBlock` | `OneBlockForAll` | `OneName`, `FirstMessage` |
| `WholeMessage` | `WholeMessages` | `Writers`, `Blocks`, `Readers` |
| `RoomEnough` | `EnoughRoom`, where `Estimated` | `Rooms` |
| `KeysAgree` | `SameKeys` | `Kept`, `Alone` |
| `AllListed` | `EveryNodeListed` | `Savers`, `Clean`, `Order` |
| `OnlyTornReadsBlock` | `OnlyTornBlocks` | `Clean` |
| `StopUnregisters` | `StoppedUnlisted` | `Savers` |

`DecodeAfterEncode` in `CodecProofs` states no property of a run: it says, for every
struct and memory, that decode gives back what encode laid out, as long as no cell
of it was overwritten.

*Subscription.* `TypeOK` alone is not inductive, since a socket becomes member of
a pair whose halves are set at different times; `EndpointInv` says both are known
whenever a thread handles a socket. `AtMostOneListener` needs `OneListenerInv`:
without a withdrawal no step takes the socket away, so that "no socket" means "no
thread was ever started", and the browser creates a socket only after the thread
it replaces is dead. `FreshDelivery` needs `FreshInv`: after the restart has
created its socket, whatever socket is in place, or blocked on by the current
thread, is a member of nothing or of the recorded endpoint. `DecodedInv` says that
nobody closes the socket under a thread that has a message. `ThreadInv` says that
where there is a socket a thread was started before, or the browser is about to
(`Making`), or it has ended. `ListenersBounded`
counts threads, and `OwedInv` is the account that makes it inductive: the threads
beside the current one, the withdrawals in the queue, the one that is being
handled, and a current thread that the browser will not wait for, are together no
more than the withdrawals there were. A withdrawal moves from one item to the
next and never pays twice. The refinement of `Feed` rests on all of these but the
last: the end of a restart is `HandOver`, which needs that every listening thread is
dead then (`OneListenerInv`), hence has nothing in hand (`FeedInv`); a packet is a
`Take` of the endpoint followed by `FreshInv`, on the interface looked up for it, as
a handler that ends as `joined` found the interface of what it had recorded
(`FeedInv`); the end of decoding is `Show`, or a `Drop` that `DecodedInv` justifies.
Starting a thread, creating a socket and every step of a receiver up to its packet
are stutters. The theorem has no hypothesis on the number of withdrawals or callers.

*Service calls.* The invariant follows connections. Callers hold different ones and
a connection leads to the node that is called (`HeldByCallers`); a server's end is
open exactly while the connection is in the backlog of its node, once, or is
served (`HeldByServers`); one that is closed on both sides carries nothing, so that
it can be used again (`Closed`). `OneRequest` says that until a request is
handled nothing was run and nothing answered for its connection, and that what is
answered afterwards is a refusal or the value of the run. That is what the
refinement needs: in `CallsImplementRpc`, the step that takes a connection is `Call`
of `Rpc`, the run of a service is `Run`, the end of a call or of its client is
`Answer` or `Fail`, closing a connection nobody holds any more is `Forget`, and every
other step (the backlog, the wire, the server's loop) is a stutter. `ImplementsRpc`
is about safety; that calls return is checked by TLC.

*Node process.* Until two calls overlap there is one lookup between the caller that
waits and its answer, in the pipe, in the child or answered (`OneCall`): an order of
messages, where the code matches nothing. When they overlap only the balance
holds: as many callers wait as there are lookups in the pipe and in the child,
answers, and losses (`Balanced`). `Promise` says what the reader of a queue is
going to see is as new as what it was promised (`Coming` is the last structure on
the way), which is true only with the order of the queue (`InOrder`).

*Publishing.* `OneTaskPerTopic` is not inductive: that two tasks do not share a
topic depends on the table of tasks. `Inv` adds `Registered` (while the node
runs, a task that is not over is the one `runningTasks` has for its topic) and
`Phases` (before `start()` there is no task, and `shouldRun` holds from `start()` to
`stop()` only). A second invariant, `State`, is for `TypeOK` and `StopCleansUp`:
`OnTheWay` says that who is going to publish a topic finds a publisher and has a
structure, since nothing is removed from the dictionary; `Sweeping` says that a
publisher that is open while `stop()` goes over the dictionary is one it has
yet to come to, unless it was made after `stop()` began.

*Directory.* `TypeOK` contains the ownership of names, which rests on the end of the
search for a free suffix: `Renaming` says that every suffix tried is owned by
another node, and different suffixes have different owners, so a node that tries
one more has found fewer than there are nodes. `HeldOwners` and `NeverBack` carry
that through the browser, the table, and the two lookups of a call: what either
holds for a name was registered by the owner it names, and what the browser is
about to store does not replace the owner found first while that one is up. `Propagating` says
where the topics are that are not yet advertised.

*Codec.* Offsets, `SetAttributes` and `Decode` are recursive functions. The library's
induction theorems take operators as parameters, which the provers cannot
instantiate, so `CodecProofs` has two of its own that take sets and functions:
`UpTo` (a set with 0 and the successor of each member has all numbers up to n) from
the least element of a set of numbers, and `Recursion` (a step function on a domain
has a function that follows it). On these rest that totals add up and grow, that the
cells of a message are adjacent (`Offsets`, `CellsApart`), that writing one leaves
those before it intact and so does padding behind them (`WriteHolds`, `PadHolds`),
and that decode finds one after the other (`RoundTrip`). Sizes that are matched
one by one by larger ones, in any order, add up to no more (`TotalsMatched`): so a
message has room in what is expected of another one, if each of its attributes has
room in one of the other's (`MessageCovered`).

*Shared topic.* `OneName` says that as long as no creator has removed its block,
the name stays with the first that took it, and who has not set a size is that
one. That the size is positive follows from `MessagesAssumption`: what applications
publish are structs, with values that `encode` knows and distinct names of
attributes. A second invariant, `Contained`, follows a message from the writer to
the callback, always as the number of its cells that are done: `Writers` (the first
k cells are in the block, if nobody else writes), `Blocks` (a block said to hold a
message as a whole has all its cells), `Readers` (the attributes set so far and
those to set are the message, unless another thread decoded in between).

`RoomEnough` rests on `Rooms`: a block that has a size has the one
`get_approximate_size` gave for the first message of its creator, whoever
uses it, and that message has an estimate. It is proved under a hypothesis,
`Estimated`: a message without lists that are underestimated (`Underestimated`: too
long, or of texts with characters of more than a byte) has
room in a block that is made for it. That depends on the topic. The estimate falls
short by two to four bytes for each attribute and by two for each short number in
a list, and makes up for it by granting 127 bytes to each string, the name of the
node in `source_` among them: a topic with very many numbers does not even fit
the block made for it, and there is no `LongList` for every topic. TLC evaluates `Estimated`
for the instance (`EstimatedAssumption`, which fails when `LongList` is 70).
For every topic it holds of, the theorem says what else can take the room away: an
attribute that is new, has another kind, or has more or longer items than when the
block was made. The two last were missing in `RoomEnough` until the proof asked for
them: an attribute that is a number in the first message and a string later may not
fit, nor may a list whose items have become longer. That the message has an estimate
is not assumed: it follows, as its attributes have the types of the first one's.

*Keys.* `Kept` says that the key a maker has is the one in its file, and
that a file that is being made has none; `Alone` that one maker at a time makes a
file, unless a race is on record. A crash and a restart keep both.

*Registry.* What nodes read and write are lists, with one entry for each key
(`IsList`): decode leaves a list in an instance (`SetAll`), and what is encoded has
all entries the instance has (`AttributesOf`). `Savers` says what a node that writes
has written so far, as in the shared topic, and that one that stops writes no entry
of itself unless it had seen it; `Clean` that what one node wrote as a whole is a list.
Neither bears on who is listed until `Order` is added: as long as no two registered
at once and none stopped, one node at a time is between its read and the end of its
write, it is alone, and it read what has the entries of all that are up (`Complete`).
A node that crashes while it writes leaves a part of a list over the former one, so
that entries may be missing or nothing be readable: it goes on record (`departed`).
`RegistryAssumption` bounds the length of names, which `encode` refuses beyond.

Only model-checked, and why:

* the liveness properties (`StopTerminates`, `ListenersExit`, `SelfHeals`,
  `CallsReturn`, `StoppedServerEnds`, `CallsAnswered`, `ListenCompletes`,
  `DueIsPublished`, `StopEnds`, `RatedIsScheduled`, `Converges`): they need
  fairness, and the enabledness of actions, which are out of the prover's reach.

No safety invariant of a run is without a theorem.

## Plan

In this order, the behaviour that matters most first:

1. `Subscription`: modelled, checked, all its safety properties proved.
2. `ServiceCall` and `Rpc`: modelled, checked, safety and refinement proved.
3. `NodeProcess`: modelled, checked, safety proved.
4. `Publishing`: modelled, checked, safety proved.
5. `Directory`: modelled, checked, safety proved.
6. `Codec` and `SharedTopic`: modelled, checked, all their properties proved, with
   decode after encode.
7. `KeyFile`, `Registry`, `SharedNode`: modelled, checked, all their properties proved.
   The block of a node's status (`SelfNode`) is left out: it has one writer, and no
   lookup finds it.
8. `Feed`: stated, checked, and proved to be implemented by `Subscription`, with
   withdrawals and other receivers as well.

Not modelled: the command line and logging (input and output only), Fernet and
Zeroconf themselves (libraries), examples, experiments and benchmarks,
`service.py`, which nothing uses, structs inside structs, and encrypted messages in shared memory (for small
topics they never fit: the block is sized for the plain message). `Codec`
leaves the dictionary interface of `AxoneStruct` out.
