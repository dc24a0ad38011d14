--------------------------- MODULE DirectoryProofs ---------------------------
(***************************************************************************)
(* Theorems about Directory, for every number of nodes, names, observers   *)
(* and topics.                                                             *)
(***************************************************************************)
EXTENDS Directory, FiniteSetTheorems, FunctionTheorems, TLAPS

\* A call has a name when it looks a node up.
CallType ==
  /\ call \in [Observers ->
       [at : {"idle", "services", "port", "connect"}, name : Names \cup {None},
        size : Nat, seen : SUBSET Names,
        advertiser : Nodes \cup {None}, peer : Nodes \cup {None}]]
  /\ \A o \in Observers : call[o].at # "idle" => call[o].name \in Names

\* A node that has registered has done so once, under the name in its info;
\* it has that name for good.
Registered(n) == node[n] \in {"up", "stopped"}
OwnedBy(x, n) == n \in Nodes /\ Registered(n) /\ info[n] = x

\* A node that looks for a name has found each one before taken by another
\* node.
Renaming ==
  \A n \in Nodes :
    /\ ~Registered(n) => info[n] = <<NodeName[n], 0>>
    /\ node[n] = "rename" =>
         /\ counter[n] > 0
         /\ \A i \in 0..(counter[n] - 1) :
              \E m \in Nodes : m # n /\ OwnedBy(<<NodeName[n], i>>, m)

\* Whoever a record names has registered it, and is up while it is registered.
NetOwners ==
  \A x \in Names : net[x] # None =>
    OwnedBy(x, net[x].owner) /\ node[net[x].owner] = "up"
Straight(h, tb, c) ==
  /\ h # None /\ h.info # None => OwnedBy(h.name, h.info.owner)
  /\ \A x \in Names : tb[x] # None => OwnedBy(x, tb[x].owner)
  /\ c.at \in {"port", "connect"} => OwnedBy(c.name, c.advertiser)
HeldOwners == \A o \in Observers : Straight(handled[o], table[o], call[o])

\* A browser never goes back to a former owner of a name: what it handles, and
\* what it has when a call has found an advertiser, names the one that is up.
Fresh(h, tb, c) ==
  /\ h # None /\ h.info # None =>
       LET r == tb[h.name]
       IN r # None /\ node[r.owner] = "up" => h.info.owner = r.owner
  /\ c.at = "port" /\ node[c.advertiser] = "up" =>
       LET x == c.name
       IN /\ tb[x] # None => tb[x].owner = c.advertiser
          /\ h # None /\ h.info # None /\ h.name = x
               => h.info.owner = c.advertiser
NeverBack == \A o \in Observers : Fresh(handled[o], table[o], call[o])

\* Until two threads hold collected topics at once, some thread has the topics
\* or will collect them, or they are in the properties.
Propagating ==
  /\ \A t \in Topics : collected[t] \subseteq publishers
  /\ ~raced =>
       /\ \A t, u \in Topics : pc[t] = "update" /\ pc[u] = "update" => t = u
       /\ \/ \E t \in Topics : pc[t] = "collect"
          \/ \E t \in Topics : pc[t] = "collecting" /\ size[t] = Cardinality(publishers)
          \/ \E t \in Topics : pc[t] = "update" /\ collected[t] = publishers
          \/ props = publishers /\ \A t \in Topics : pc[t] # "update"

Inv == /\ TypeOK /\ CallType /\ Renaming /\ NetOwners /\ HeldOwners /\ NeverBack /\ Propagating
       /\ CallReachesAdvertiser

-----------------------------------------------------------------------------
(* Names, records and sequences of events.                                 *)

\* There are finitely many names; the name a node asks for is one, and any
\* other suffix less than the number of nodes makes one.
LEMMA NamesFacts ==
  /\ Cardinality(Nodes) \in Nat \ {0}
  /\ IsFiniteSet(Names)
  /\ \A n \in Nodes : \A i \in 0..(Cardinality(Nodes) - 1) : <<NodeName[n], i>> \in Names
  /\ \A n \in Nodes : <<NodeName[n], 0>> \in Names
<1>1. Cardinality(Nodes) \in Nat \ {0}
  <2>1. Nodes # {}
    BY NodesAssumption
  <2> QED BY <2>1, NodesAssumption, FS_CardinalityType, FS_EmptySet
<1>2. IsFiniteSet({NodeName[n] : n \in Nodes})
  <2> DEFINE T == {NodeName[n] : n \in Nodes}
             f == [n \in Nodes |-> NodeName[n]]
  <2>1. f \in Surjection(Nodes, T)
    <3>1. f \in [Nodes -> T] /\ \A x \in T : \E n \in Nodes : f[n] = x
      OBVIOUS
    <3> QED BY <3>1, Fun_IsSurj
  <2> QED BY <2>1, NodesAssumption, FS_Surjection
<1>3. IsFiniteSet(0..(Cardinality(Nodes) - 1))
  <2>1. 0 \in Int /\ Cardinality(Nodes) - 1 \in Int
    BY <1>1
  <2> QED BY <2>1, FS_Interval
<1>4. IsFiniteSet(Names)
  BY <1>2, <1>3, FS_Product DEF Names
<1>5. 0 \in 0..(Cardinality(Nodes) - 1)
  BY <1>1
<1> QED BY <1>1, <1>4, <1>5 DEF Names

\* None is no record.
LEMMA RecordFacts ==
  ASSUME NEW n \in Nodes, NEW ts \in SUBSET Topics
  PROVE  /\ [owner |-> n, topics |-> ts] \in Records
         /\ [owner |-> n, topics |-> ts] # None
<1>1. [owner |-> n, topics |-> ts] \in Records
  BY DEF Records
<1> QED BY <1>1, NoneAssumption

\* A finite set makes a sequence of its elements.
LEMMA SetToSeqType ==
  ASSUME NEW S, IsFiniteSet(S)
  PROVE  SetToSeq(S) \in Seq(S)
<1>1. Cardinality(S) \in Nat /\ ExistsBijection(1..Cardinality(S), S)
  BY FS_CardinalityType
<1>2. PICK f : f \in Bijection(1..Cardinality(S), S)
  BY <1>1 DEF ExistsBijection
<1>3. f \in [1..Cardinality(S) -> S] /\ IsInjective(f)
  BY <1>2 DEF Bijection, Injection
<1>4. SetToSeq(S) \in [1..Cardinality(S) -> S]
  BY <1>3 DEF SetToSeq
<1> QED BY <1>1, <1>4

\* A name that is looked for exists: each one before it was taken by another
\* node.
LEMMA SuffixInRange ==
  ASSUME TypeOK, Renaming, NEW n \in Nodes, node[n] = "rename"
  PROVE  /\ counter[n] \in 0..(Cardinality(Nodes) - 1)
         /\ NewName(n) \in Names
<1>1. counter[n] \in Nat \ {0} /\ Cardinality(Nodes) \in Nat \ {0}
  BY NamesFacts DEF TypeOK, Renaming
<1> DEFINE c == counter[n]
           S == 0..(c - 1)
           T == Nodes \ {n}
           Holds(i, m) == m \in T /\ info[m] = <<NodeName[n], i>>
           f == [i \in S |-> CHOOSE m \in T : Holds(i, m)]
<1>2. \A i \in S : \E m \in T : Holds(i, m)
  BY DEF Renaming, OwnedBy
<1>3. f \in [S -> T] /\ \A i \in S : Holds(i, f[i])
  BY <1>2
<1>4. \A i, j \in S : f[i] = f[j] => i = j
  <2> TAKE i, j \in S
  <2> HAVE f[i] = f[j]
  <2>1. <<NodeName[n], i>> = <<NodeName[n], j>>
    BY <1>3
  <2> QED BY <2>1
<1>5. IsFiniteSet(T) /\ Cardinality(T) = Cardinality(Nodes) - 1 /\ Cardinality(T) \in Nat
  BY NodesAssumption, FS_RemoveElement, FS_CardinalityType
<1>6. IsFiniteSet(S) /\ Cardinality(S) = c
  <2>1. PICK b : b = c - 1
    OBVIOUS
  <2>2. 0 \in Int /\ b \in Int /\ ~(0 > b) /\ c = b + 1 /\ S = 0..b
    BY <1>1, <2>1
  <2> HIDE DEF S, c
  <2>3. IsFiniteSet(0..b) /\ Cardinality(0..b) = IF 0 > b THEN 0 ELSE b - 0 + 1
    BY <2>2, FS_Interval
  <2> QED BY <2>2, <2>3
<1>7. ~(Cardinality(T) < Cardinality(S))
  <2> HIDE DEF S, T, f
  <2> QED BY <1>3, <1>4, <1>5, <1>6, FS_PigeonHole
<1>8. counter[n] \in 0..(Cardinality(Nodes) - 1)
  BY <1>1, <1>5, <1>6, <1>7
<1> QED BY <1>8, NamesFacts DEF NewName

-----------------------------------------------------------------------------
(* Types.                                                                  *)

Kinds == {"added", "updated", "removed"}

\* Events are of one of three kinds and about a name.
LEMMA EmitType ==
  ASSUME TypeOK, NEW kind \in Kinds, NEW names \in SUBSET Names, Emit(kind, names)
  PROVE  events' \in [Observers -> Seq(Kinds \X Names)]
<1> DEFINE S == {<<kind, x>> : x \in names}
<1>1. S \subseteq {kind} \X Names /\ S \subseteq Kinds \X Names
  OBVIOUS
<1>2. IsFiniteSet(S)
  BY <1>1, NamesFacts, FS_Singleton, FS_Product, FS_Subset
<1>3. SetToSeq(S) \in Seq(Kinds \X Names)
  <2>1. SetToSeq(S) \in Seq(S)
    BY <1>2, SetToSeqType
  <2> HIDE DEF S
  <2> QED BY <1>1, <2>1
<1>4. events \in [Observers -> Seq(Kinds \X Names)]
  BY DEF TypeOK, Kinds
<1>5. \A o \in Observers : events[o] \o SetToSeq(S) \in Seq(Kinds \X Names)
  <2> HIDE DEF S
  <2> QED BY <1>3, <1>4
<1>6. events' = [o \in Observers |-> IF Listening(o) THEN events[o] \o SetToSeq(S) ELSE events[o]]
  BY DEF Emit
<1> HIDE DEF S
<1> QED BY <1>4, <1>5, <1>6

\* What Announce does.
LEMMA AnnounceEffect ==
  ASSUME TypeOK, NEW n \in Nodes, NEW x \in Names, NEW kind \in Kinds,
         Announce(n, x, kind)
  PROVE  /\ net' \in [Names -> Records \cup {None}]
         /\ net'[x] # None /\ net'[x].owner = n
         /\ \A y \in Names : y # x => net'[y] = net[y]
         /\ events' \in [Observers -> Seq(Kinds \X Names)]
<1> DEFINE ts == IF n = Host THEN props ELSE {}
           r == [owner |-> n, topics |-> ts]
<1>1. r \in Records /\ r # None /\ r.owner = n
  <2>1. ts \in SUBSET Topics
    BY DEF TypeOK
  <2> QED BY <2>1, RecordFacts
<1>2. net' = [net EXCEPT ![x] = r]
  BY DEF Announce
<1>3. events' \in [Observers -> Seq(Kinds \X Names)]
  <2>1. Emit(kind, {x})
    BY DEF Announce
  <2> QED BY <2>1, EmitType
<1> HIDE DEF r
<1> QED BY <1>1, <1>2, <1>3 DEF TypeOK

\* A registration, whoever registers and whichever free name it is. The
\* former records and their owners are not affected.
LEMMA RegisterEffect ==
  ASSUME TypeOK, NEW n \in Nodes, NEW x \in Names, Register(n, x)
  PROVE  /\ net' \in [Names -> Records \cup {None}]
         /\ net[x] = None /\ net'[x] # None /\ net'[x].owner = n
         /\ \A y \in Names : y # x => net'[y] = net[y]
         /\ events' \in [Observers -> Seq(Kinds \X Names)]
         /\ node' = [node EXCEPT ![n] = "up"]
BY AnnounceEffect DEF Register, Kinds

\* A node stops.
LEMMA StopEffect ==
  ASSUME TypeOK, NEW n \in Nodes, StopAdvertising(n)
  PROVE  /\ net' \in [Names -> Records \cup {None}]
         /\ \A x \in Names : net'[x] = IF net[x] # None /\ net[x].owner = n THEN None ELSE net[x]
         /\ events' \in [Observers -> Seq(Kinds \X Names)]
         /\ node[n] = "up" /\ node' = [node EXCEPT ![n] = "stopped"]
<1> DEFINE own == {x \in Present(net) : net[x].owner = n}
<1>1. own \in SUBSET Names /\ \A x \in Names : x \in own <=> net[x] # None /\ net[x].owner = n
  BY DEF Present, TypeOK
<1>2. /\ net' = [x \in Names |-> IF x \in own THEN None ELSE net[x]]
      /\ Emit("removed", own)
      /\ node[n] = "up" /\ node' = [node EXCEPT ![n] = "stopped"]
  BY DEF StopAdvertising
<1> HIDE DEF own
<1>3. events' \in [Observers -> Seq(Kinds \X Names)]
  BY <1>1, <1>2, EmitType DEF Kinds
<1>4. net \in [Names -> Records \cup {None}]
  BY DEF TypeOK
<1> QED BY <1>1, <1>2, <1>3, <1>4

\* The types, part by part.
RegistryType ==
  /\ net \in [Names -> Records \cup {None}]
  /\ node \in [Nodes -> {"new", "advertise", "rename", "up", "stopped"}]
  /\ info \in [Nodes -> Names]
  /\ \A n \in Nodes : node[n] = "up" => net[info[n]] # None /\ net[info[n]].owner = n
  /\ counter \in [Nodes -> 0..Cardinality(Nodes)]
  /\ events \in [Observers -> Seq(Kinds \X Names)]
ThreadsType ==
  /\ publishers \subseteq Topics /\ props \subseteq publishers
  /\ pc \in [Topics -> {"idle", "collect", "collecting", "update", "announce",
                        "done", "raised"}]
  /\ size \in [Topics -> Nat] /\ collected \in [Topics -> SUBSET Topics]
  /\ raced \in BOOLEAN
BrowsersType ==
  /\ handled \in [Observers -> [name : Names, info : Records \cup {None}] \cup {None}]
  /\ table \in [Observers -> [Names -> Records \cup {None}]]
  /\ missed \in [Observers -> SUBSET Names]

\* Together they are TypeOK.
LEMMA TypeParts ==
  ASSUME CallType
  PROVE  TypeOK <=> RegistryType /\ ThreadsType /\ BrowsersType
<1>1. \A o \in Observers :
        /\ call[o].at \in {"idle", "services", "port", "connect"}
        /\ call[o].advertiser \in Nodes \cup {None}
        /\ call[o].peer \in Nodes \cup {None}
        /\ call[o].seen \subseteq Names /\ call[o].size \in Nat
  BY DEF CallType
<1> QED BY <1>1 DEF TypeOK, RegistryType, ThreadsType, BrowsersType, Kinds

\* The same after a step.
LEMMA TypePartsNext ==
  ASSUME CallType', RegistryType', ThreadsType', BrowsersType'
  PROVE  TypeOK'
<1>1. \A o \in Observers :
        /\ call'[o].at \in {"idle", "services", "port", "connect"}
        /\ call'[o].advertiser \in Nodes \cup {None}
        /\ call'[o].peer \in Nodes \cup {None}
        /\ call'[o].seen \subseteq Names /\ call'[o].size \in Nat
  BY DEF CallType
<1> QED BY <1>1 DEF TypeOK, RegistryType, ThreadsType, BrowsersType, Kinds

\* What a node does to be found, and not to be.
LEMMA RegistryTypeKept ==
  ASSUME TypeOK, Renaming, NEW n \in Nodes,
         \/ Construct(n) \/ Advertise(n) \/ NameTaken(n) \/ Rename(n)
         \/ NewNameTaken(n) \/ StopAdvertising(n)
  PROVE  RegistryType'
<1> USE NamesFacts DEF TypeOK, RegistryType, Kinds
<1>1. CASE Construct(n)
  <2>1. Present(net) \subseteq Names
    BY DEF Present
  <2> DEFINE S == {<<"added", x>> : x \in Present(net)}
  <2>2. S \subseteq {"added"} \X Names /\ S \subseteq Kinds \X Names
    BY <2>1 DEF Kinds
  <2>3. IsFiniteSet(S)
    BY <2>2, FS_Singleton, FS_Product, FS_Subset
  <2>4. SetToSeq(S) \in Seq(Kinds \X Names)
    <3>1. SetToSeq(S) \in Seq(S)
      BY <2>3, SetToSeqType
    <3> HIDE DEF S
    <3> QED BY <2>2, <3>1
  <2>5. /\ node[n] = "new" /\ node' = [node EXCEPT ![n] = "advertise"]
        /\ events' = [o \in Observers |-> IF o = n THEN SetToSeq(S) ELSE events[o]]
        /\ UNCHANGED <<net, info, counter>>
    BY <1>1 DEF Construct
  <2> HIDE DEF S
  <2>6. events' \in [Observers -> Seq(Kinds \X Names)]
    BY <2>4, <2>5
  <2> QED BY <2>5, <2>6
<1>2. CASE Advertise(n)
  <2>1. node[n] = "advertise" /\ Register(n, info[n]) /\ UNCHANGED <<info, counter>>
    BY <1>2 DEF Advertise
  <2>2. /\ net' \in [Names -> Records \cup {None}]
        /\ net[info[n]] = None /\ net'[info[n]] # None /\ net'[info[n]].owner = n
        /\ \A y \in Names : y # info[n] => net'[y] = net[y]
        /\ events' \in [Observers -> Seq(Kinds \X Names)]
        /\ node' = [node EXCEPT ![n] = "up"]
    BY <2>1, RegisterEffect
  <2> QED BY <2>1, <2>2
<1>3. CASE NameTaken(n)
  BY <1>3 DEF NameTaken
<1>4. CASE Rename(n)
  <2> DEFINE x == NewName(n)
  <2>1. /\ node[n] = "rename" /\ Register(n, x) /\ info' = [info EXCEPT ![n] = x]
        /\ UNCHANGED counter
    BY <1>4 DEF Rename
  <2>2. x \in Names
    BY <2>1, SuffixInRange
  <2> HIDE DEF x
  <2>3. /\ net' \in [Names -> Records \cup {None}]
        /\ net[x] = None /\ net'[x] # None /\ net'[x].owner = n
        /\ \A y \in Names : y # x => net'[y] = net[y]
        /\ events' \in [Observers -> Seq(Kinds \X Names)]
        /\ node' = [node EXCEPT ![n] = "up"]
    BY <2>1, <2>2, RegisterEffect
  <2>4. info' \in [Nodes -> Names] /\ info'[n] = x /\ \A m \in Nodes : m # n => info'[m] = info[m]
    BY <2>1, <2>2
  <2>5. \A m \in Nodes : node'[m] = "up" => net'[info'[m]] # None /\ net'[info'[m]].owner = m
    BY <2>3, <2>4
  <2> QED BY <2>1, <2>3, <2>4, <2>5
<1>5. CASE NewNameTaken(n)
  <2>1. counter[n] + 1 \in 0..Cardinality(Nodes)
    <3>1. counter[n] \in 0..(Cardinality(Nodes) - 1)
      BY <1>5, SuffixInRange DEF NewNameTaken
    <3> QED BY <3>1
  <2>2. /\ counter' = [counter EXCEPT ![n] = counter[n] + 1]
        /\ UNCHANGED <<net, node, info, events>>
    BY <1>5 DEF NewNameTaken
  <2> QED BY <2>1, <2>2
<1>6. CASE StopAdvertising(n)
  <2>1. /\ net' \in [Names -> Records \cup {None}]
        /\ \A x \in Names : net'[x] = IF net[x] # None /\ net[x].owner = n THEN None ELSE net[x]
        /\ events' \in [Observers -> Seq(Kinds \X Names)]
        /\ node[n] = "up" /\ node' = [node EXCEPT ![n] = "stopped"]
    BY <1>6, StopEffect
  <2>2. UNCHANGED <<info, counter>>
    BY <1>6 DEF StopAdvertising
  <2>3. \A m \in Nodes : node'[m] = "up" => m # n /\ node[m] = "up" /\ info[m] \in Names
    BY <2>1
  <2>4. \A m \in Nodes : node'[m] = "up" => net'[info'[m]] # None /\ net'[info'[m]].owner = m
    BY <2>1, <2>2, <2>3
  <2>5. node' \in [Nodes -> {"new", "advertise", "rename", "up", "stopped"}]
    BY <2>1
  <2> QED BY <2>1, <2>2, <2>4, <2>5
<1> QED BY <1>1, <1>2, <1>3, <1>4, <1>5, <1>6

-----------------------------------------------------------------------------
(* Nodes: registering a record and withdrawing it.                         *)

\* A node registers once, and nobody stops before: what was registered stays.
Progress ==
  /\ \A m \in Nodes : Registered(m) =>
       /\ Registered(m)' /\ info'[m] = info[m]
       /\ node'[m] = "up" => node[m] = "up"
       /\ node[m] = "stopped" => node'[m] = "stopped"

\* As long as the nodes only make progress, what the browsers and the calls
\* hold stays true.
LEMMA HeldKept ==
  ASSUME TypeOK, HeldOwners, NeverBack, CallReachesAdvertiser, Progress,
         UNCHANGED <<handled, table, call>>
  PROVE  HeldOwners' /\ NeverBack' /\ CallReachesAdvertiser'
<1>1. \A x, m : OwnedBy(x, m) =>
        /\ OwnedBy(x, m)'
        /\ node'[m] = "up" => node[m] = "up"
        /\ node[m] = "stopped" => node'[m] = "stopped"
  BY DEF OwnedBy, Progress
<1>2. HeldOwners'
  BY <1>1 DEF HeldOwners, Straight
<1>3. NeverBack'
  <2> SUFFICES ASSUME NEW o \in Observers
      PROVE  (/\ handled[o] # None /\ handled[o].info # None =>
                   LET r == table[o][handled[o].name]
                   IN r # None /\ node[r.owner] = "up" => handled[o].info.owner = r.owner
              /\ call[o].at = "port" /\ node[call[o].advertiser] = "up" =>
                   LET x == call[o].name
                   IN /\ table[o][x] # None => table[o][x].owner = call[o].advertiser
                      /\ handled[o] # None /\ handled[o].info # None /\ handled[o].name = x
                           => handled[o].info.owner = call[o].advertiser)'
    BY DEF NeverBack, Fresh
  <2>1. ASSUME handled[o] # None, handled[o].info # None,
               table[o][handled[o].name] # None
        PROVE  node'[table[o][handled[o].name].owner] = "up" =>
                 node[table[o][handled[o].name].owner] = "up"
    <3>1. handled[o].name \in Names
      BY <2>1 DEF TypeOK
    <3> QED BY <1>1, <2>1, <3>1 DEF HeldOwners, Straight
  <2>2. call[o].at = "port" /\ node'[call[o].advertiser] = "up" =>
          node[call[o].advertiser] = "up"
    BY <1>1 DEF HeldOwners, Straight
  <2> QED BY <2>1, <2>2 DEF NeverBack, Fresh
<1>4. CallReachesAdvertiser'
  BY <1>1 DEF CallReachesAdvertiser, HeldOwners, Straight
<1> QED BY <1>2, <1>3, <1>4

\* What a node does to be found keeps the owners straight.
LEMMA RegistryKeeps ==
  ASSUME TypeOK, CallType, Renaming, NetOwners, HeldOwners, NeverBack, CallReachesAdvertiser,
         NEW n \in Nodes,
         \/ Construct(n) \/ Advertise(n) \/ NameTaken(n) \/ Rename(n)
         \/ NewNameTaken(n) \/ StopAdvertising(n)
  PROVE  Renaming' /\ NetOwners' /\ HeldOwners' /\ NeverBack' /\ CallReachesAdvertiser'
<1>0. UNCHANGED <<handled, table, call>>
  BY DEF Construct, Advertise, NameTaken, Rename, NewNameTaken, StopAdvertising, browsers
<1>1. SUFFICES Progress /\ Renaming' /\ NetOwners'
  BY <1>0, HeldKept
<1>2. CASE Construct(n)
  <2>1. /\ node[n] = "new" /\ node' = [node EXCEPT ![n] = "advertise"]
        /\ UNCHANGED <<net, info, counter>>
    BY <1>2 DEF Construct
  <2>2. Progress /\ \A m \in Nodes : Registered(m)' <=> Registered(m)
    BY <2>1 DEF Progress, Registered, TypeOK
  <2>3. \A x, m : OwnedBy(x, m)' <=> OwnedBy(x, m)
    BY <2>1, <2>2 DEF OwnedBy
  <2>4. Renaming'
    BY <2>1, <2>2, <2>3 DEF Renaming, TypeOK
  <2>5. \A x \in Names : net[x] # None => node'[net[x].owner] = "up"
    BY <2>1 DEF NetOwners, TypeOK, OwnedBy
  <2> QED BY <2>1, <2>2, <2>3, <2>4, <2>5 DEF NetOwners
<1>3. CASE NameTaken(n)
  <2>1. /\ node[n] = "advertise" /\ net[info[n]] # None
        /\ node' = [node EXCEPT ![n] = "rename"] /\ counter' = [counter EXCEPT ![n] = 1]
        /\ UNCHANGED <<net, info>>
    BY <1>3 DEF NameTaken
  <2>2. Progress /\ \A m \in Nodes : Registered(m)' <=> Registered(m)
    BY <2>1 DEF Progress, Registered, TypeOK
  <2>3. \A x, m : OwnedBy(x, m)' <=> OwnedBy(x, m)
    BY <2>1, <2>2 DEF OwnedBy
  <2>4. info[n] = <<NodeName[n], 0>> /\ info[n] \in Names
    BY <2>1 DEF Renaming, Registered, TypeOK
  <2>5. OwnedBy(<<NodeName[n], 0>>, net[info[n]].owner) /\ net[info[n]].owner # n
    BY <2>1, <2>4 DEF NetOwners
  <2>6. counter'[n] = 1 /\ \A m \in Nodes : m # n => counter'[m] = counter[m] /\ node'[m] = node[m]
    BY <2>1 DEF TypeOK
  <2>7. \A i \in 0..(1 - 1) : i = 0
    OBVIOUS
  <2>8. \A i \in 0..(counter'[n] - 1) :
          \E m \in Nodes : m # n /\ OwnedBy(<<NodeName[n], i>>, m)'
    BY <2>3, <2>5, <2>6, <2>7 DEF OwnedBy
  <2>9. Renaming'
    BY <2>1, <2>2, <2>3, <2>6, <2>8 DEF Renaming
  <2>10. \A x \in Names : net[x] # None => node'[net[x].owner] = "up"
    BY <2>1 DEF NetOwners, TypeOK, OwnedBy
  <2> QED BY <2>1, <2>2, <2>3, <2>9, <2>10 DEF NetOwners
<1>4. CASE NewNameTaken(n)
  <2>1. /\ node[n] = "rename" /\ net[NewName(n)] # None
        /\ counter' = [counter EXCEPT ![n] = counter[n] + 1]
        /\ UNCHANGED <<net, node, info>>
    BY <1>4 DEF NewNameTaken
  <2>2. Progress /\ \A m \in Nodes : Registered(m)' <=> Registered(m)
    BY <2>1 DEF Progress, Registered
  <2>3. \A x, m : OwnedBy(x, m)' <=> OwnedBy(x, m)
    BY <2>1, <2>2 DEF OwnedBy
  <2>4. NewName(n) \in Names /\ counter[n] \in Nat
    BY <2>1, SuffixInRange
  <2>5. /\ OwnedBy(<<NodeName[n], counter[n]>>, net[NewName(n)].owner)
        /\ net[NewName(n)].owner # n
    BY <2>1, <2>4 DEF NetOwners, NewName
  <2>6. /\ counter'[n] = counter[n] + 1
        /\ \A m \in Nodes : m # n => counter'[m] = counter[m]
    BY <2>1 DEF TypeOK
  <2>7. \A i \in 0..(counter'[n] - 1) : i \in 0..(counter[n] - 1) \/ i = counter[n]
    BY <2>4, <2>6
  <2>8. \A i \in 0..(counter'[n] - 1) :
          \E m \in Nodes : m # n /\ OwnedBy(<<NodeName[n], i>>, m)'
    <3> TAKE i \in 0..(counter'[n] - 1)
    <3>1. CASE i = counter[n]
      BY <2>3, <2>5, <3>1 DEF OwnedBy
    <3>2. CASE i \in 0..(counter[n] - 1)
      BY <2>1, <2>3, <3>2 DEF Renaming
    <3> QED BY <2>7, <3>1, <3>2
  <2>9. Renaming'
    <3>1. \A m \in Nodes : m # n /\ node'[m] = "rename" =>
            /\ counter'[m] > 0
            /\ \A i \in 0..(counter'[m] - 1) :
                 \E k \in Nodes : k # m /\ OwnedBy(<<NodeName[m], i>>, k)'
      BY <2>1, <2>3, <2>6 DEF Renaming
    <3>2. counter'[n] > 0
      BY <2>4, <2>6
    <3>3. \A m \in Nodes : ~Registered(m)' => info'[m] = <<NodeName[m], 0>>
      BY <2>1, <2>2 DEF Renaming
    <3> QED BY <2>8, <3>1, <3>2, <3>3 DEF Renaming
  <2>10. \A x \in Names : net[x] # None => node'[net[x].owner] = "up"
    BY <2>1 DEF NetOwners
  <2> QED BY <2>1, <2>2, <2>3, <2>9, <2>10 DEF NetOwners
<1>5. CASE Advertise(n) \/ Rename(n)
  <2>1. PICK x \in Names :
        /\ ~Registered(n) /\ UNCHANGED counter
        /\ info' \in [Nodes -> Names] /\ \A m \in Nodes : m # n => info'[m] = info[m]
        /\ info'[n] = x /\ Register(n, x)
    <3>1. CASE Advertise(n)
      BY <3>1 DEF Advertise, Registered, TypeOK
    <3>2. CASE Rename(n)
      BY <3>2, SuffixInRange DEF Rename, Registered, TypeOK
    <3> QED BY <1>5, <3>1, <3>2
  <2>2. /\ net[x] = None /\ net'[x] # None /\ net'[x].owner = n
        /\ \A y \in Names : y # x => net'[y] = net[y]
        /\ node' = [node EXCEPT ![n] = "up"]
    BY <2>1, RegisterEffect
  <2>3. /\ node'[n] = "up" /\ info'[n] = x
        /\ \A m \in Nodes : m # n => node'[m] = node[m] /\ info'[m] = info[m]
    BY <2>1, <2>2 DEF TypeOK
  <2>4. /\ Registered(n)'
        /\ \A m \in Nodes : m # n => (Registered(m)' <=> Registered(m))
    BY <2>3 DEF Registered
  <2>5. Progress
    BY <2>1, <2>3, <2>4 DEF Progress
  <2>6. \A y, m : OwnedBy(y, m) => OwnedBy(y, m)' /\ m # n
    BY <2>1, <2>5 DEF Progress, OwnedBy
  <2>7. Renaming'
    BY <2>1, <2>3, <2>4, <2>6 DEF Renaming
  <2>8. OwnedBy(x, n)'
    BY <2>3, <2>4 DEF OwnedBy
  <2>9. NetOwners'
    <3> SUFFICES ASSUME NEW y \in Names, net'[y] # None
                 PROVE  OwnedBy(y, net[y].owner)' /\ node'[net'[y].owner] = "up"
      BY DEF NetOwners
    <3>1. CASE y = x
      BY <2>2, <2>3, <2>8, <3>1
    <3>2. CASE y # x
      <4>1. net'[y] = net[y]
        BY <2>2, <3>2
      <4>2. OwnedBy(y, net[y].owner) /\ node[net[y].owner] = "up" /\ net[y].owner \in Nodes
        BY <4>1 DEF NetOwners, OwnedBy
      <4> QED BY <2>3, <2>6, <4>1, <4>2
    <3> QED BY <3>1, <3>2
  <2> QED BY <2>5, <2>7, <2>9
<1>6. CASE StopAdvertising(n)
  <2>1. /\ \A x \in Names : net'[x] = IF net[x] # None /\ net[x].owner = n THEN None ELSE net[x]
        /\ node[n] = "up" /\ node' = [node EXCEPT ![n] = "stopped"]
        /\ UNCHANGED <<info, counter>>
    BY <1>6, StopEffect DEF StopAdvertising
  <2>2. node'[n] = "stopped" /\ \A m \in Nodes : m # n => node'[m] = node[m]
    BY <2>1 DEF TypeOK
  <2>3. Progress /\ \A m \in Nodes : Registered(m)' <=> Registered(m)
    BY <2>1, <2>2 DEF Progress, Registered
  <2>4. \A y, m : OwnedBy(y, m)' <=> OwnedBy(y, m)
    BY <2>1, <2>3 DEF OwnedBy
  <2>5. Renaming'
    BY <2>1, <2>2, <2>3, <2>4 DEF Renaming
  <2>6. NetOwners'
    <3> SUFFICES ASSUME NEW x \in Names, net'[x] # None
                 PROVE  OwnedBy(x, net[x].owner)' /\ node'[net'[x].owner] = "up"
      BY DEF NetOwners
    <3>1. net'[x] = net[x] /\ net[x].owner # n
      BY <2>1
    <3>2. OwnedBy(x, net[x].owner) /\ node[net[x].owner] = "up" /\ net[x].owner \in Nodes
      BY <3>1 DEF NetOwners, OwnedBy
    <3> QED BY <2>2, <2>4, <3>1, <3>2
  <2> QED BY <2>3, <2>5, <2>6
<1> QED BY <1>2, <1>3, <1>4, <1>5, <1>6

-----------------------------------------------------------------------------
(* Browsers.                                                               *)

\* The types of what a browser and a call hold.
LEMMA HeldTypes ==
  ASSUME TypeOK, CallType, NEW o \in Observers
  PROVE  /\ table[o] \in [Names -> Records \cup {None}]
         /\ \A x \in Names : table[o][x] # None =>
              table[o][x] \in Records /\ table[o][x].owner \in Nodes
         /\ handled[o] # None =>
              /\ handled[o] \in [name : Names, info : Records \cup {None}]
              /\ handled[o].name \in Names
              /\ handled[o].info # None => handled[o].info \in Records
         /\ events[o] # <<>> =>
              /\ Tail(events[o]) \in Seq(Kinds \X Names)
              /\ Kind(o) \in Kinds /\ Name(o) \in Names
         /\ IsFiniteSet(Present(table[o])) /\ Size(o) \in Nat
         /\ Present(table[o]) \subseteq Names
         /\ call[o].at # "idle" => call[o].name \in Names
<1>1. /\ table[o] \in [Names -> Records \cup {None}]
      /\ handled[o] # None => handled[o] \in [name : Names, info : Records \cup {None}]
      /\ events[o] \in Seq(Kinds \X Names)
  BY DEF TypeOK, Kinds
<1>2. events[o] # <<>> => Head(events[o]) \in Kinds \X Names
                          /\ Tail(events[o]) \in Seq(Kinds \X Names)
  BY <1>1
<1>3. events[o] # <<>> => Kind(o) \in Kinds /\ Name(o) \in Names
  BY <1>2 DEF Kind, Name
<1>4. Present(table[o]) \subseteq Names
  BY <1>1 DEF Present
<1>5. IsFiniteSet(Present(table[o])) /\ Size(o) \in Nat
  BY <1>4, NamesFacts, FS_Subset, FS_CardinalityType DEF Size
<1>6. \A x \in Names : table[o][x] # None =>
        table[o][x] \in Records /\ table[o][x].owner \in Nodes
  BY <1>1 DEF Records
<1>7. call[o].at # "idle" => call[o].name \in Names
  BY DEF CallType
<1> QED BY <1>1, <1>2, <1>3, <1>4, <1>5, <1>6, <1>7

\* What a browser does.
LEMMA BrowsersTypeKept ==
  ASSUME TypeOK, CallType, NEW o \in Observers, Browse(o)
  PROVE  BrowsersType' /\ events' \in [Observers -> Seq(Kinds \X Names)]
<1> USE HeldTypes
<1>0. /\ events \in [Observers -> Seq(Kinds \X Names)]
      /\ handled \in [Observers -> [name : Names, info : Records \cup {None}] \cup {None}]
      /\ table \in [Observers -> [Names -> Records \cup {None}]]
      /\ missed \in [Observers -> SUBSET Names]
  BY DEF TypeOK, Kinds
<1>1. CASE Query(o)
  <2>1. events[o] # <<>> /\ events' = [events EXCEPT ![o] = Tail(events[o])]
    BY <1>1 DEF Query, Idle, Pop
  <2>2. PICK i \in {net[Name(o)], None} :
          handled' = [handled EXCEPT ![o] = [name |-> Name(o), info |-> i]]
    BY <1>1 DEF Query
  <2>3. Name(o) \in Names /\ i \in Records \cup {None}
    BY <2>1 DEF TypeOK
  <2>4. UNCHANGED <<table, missed>>
    BY <1>1 DEF Query
  <2> QED BY <1>0, <2>1, <2>2, <2>3, <2>4 DEF BrowsersType
<1>2. CASE Store(o)
  <2>1. /\ handled[o] # None /\ handled' = [handled EXCEPT ![o] = None]
        /\ UNCHANGED events
    BY <1>2 DEF Store
  <2> DEFINE x == handled[o].name
  <2>2. x \in Names /\ (handled[o].info # None => handled[o].info \in Records)
    BY <2>1
  <2>3. \/ UNCHANGED table
        \/ handled[o].info # None /\ table' = [table EXCEPT ![o][x] = handled[o].info]
    BY <1>2 DEF Store
  <2>4. \/ missed' = [missed EXCEPT ![o] = missed[o] \ {x}]
        \/ missed' = [missed EXCEPT ![o] = missed[o] \cup {x}]
    BY <1>2 DEF Store
  <2> HIDE DEF x
  <2>5. missed' \in [Observers -> SUBSET Names]
    <3>1. \E M \in SUBSET Names : missed' = [missed EXCEPT ![o] = M]
      <4>1. missed[o] \ {x} \in SUBSET Names /\ missed[o] \cup {x} \in SUBSET Names
        BY <1>0, <2>2
      <4> QED BY <2>4, <4>1
    <3> QED BY <1>0, <3>1
  <2>6. table' \in [Observers -> [Names -> Records \cup {None}]]
    <3>1. CASE handled[o].info # None /\ table' = [table EXCEPT ![o][x] = handled[o].info]
      <4>1. handled[o].info \in Records
        BY <2>2, <3>1
      <4> QED BY <1>0, <2>2, <3>1, <4>1
    <3> QED BY <1>0, <2>3, <3>1
  <2> QED BY <1>0, <2>1, <2>5, <2>6 DEF BrowsersType
<1>3. CASE RemoveService(o)
  <2>1. /\ events[o] # <<>> /\ events' = [events EXCEPT ![o] = Tail(events[o])]
        /\ table' = [table EXCEPT ![o][Name(o)] = None]
        /\ missed' = [missed EXCEPT ![o] = missed[o] \ {Name(o)}]
        /\ UNCHANGED handled
    BY <1>3 DEF RemoveService, Idle, Pop
  <2> QED BY <1>0, <2>1 DEF BrowsersType
<1> QED BY <1>1, <1>2, <1>3 DEF Browse

\* What it changes of the table and of what it handles: a query has the record
\* that is registered, and the table gets only what was handled.
LEMMA BrowseEffect ==
  ASSUME TypeOK, CallType, NEW o \in Observers, Browse(o)
  PROVE  /\ \A p \in Observers : p # o => handled'[p] = handled[p] /\ table'[p] = table[p]
         /\ \/ /\ UNCHANGED table /\ handled'[o].name \in Names
               /\ handled'[o].info # None =>
                    handled'[o].info = net[handled'[o].name]
            \/ handled'[o] = None /\ table'[o] = table[o]
            \/ /\ handled[o] # None /\ handled[o].info # None /\ handled'[o] = None
               /\ table'[o] = [table[o] EXCEPT ![handled[o].name] = handled[o].info]
            \/ /\ handled[o] = None /\ handled'[o] = None
               /\ \E x \in Names : table'[o] = [table[o] EXCEPT ![x] = None]
<1>0. /\ handled \in [Observers -> [name : Names, info : Records \cup {None}] \cup {None}]
      /\ table \in [Observers -> [Names -> Records \cup {None}]]
  BY DEF TypeOK
<1>1. CASE Query(o)
  <2>1. events[o] # <<>> /\ UNCHANGED table
    BY <1>1 DEF Query, Idle
  <2>2. PICK i \in {net[Name(o)], None} :
          handled' = [handled EXCEPT ![o] = [name |-> Name(o), info |-> i]]
    BY <1>1 DEF Query
  <2>3. Name(o) \in Names
    BY <2>1, HeldTypes
  <2>4. handled'[o] = [name |-> Name(o), info |-> i]
    BY <1>0, <2>2
  <2>5. handled'[o].name = Name(o) /\ handled'[o].info = i
    BY <2>4
  <2> QED BY <1>0, <2>1, <2>2, <2>3, <2>5
<1>2. CASE Store(o)
  <2>1. /\ handled[o] # None /\ handled' = [handled EXCEPT ![o] = None]
        /\ \/ UNCHANGED table
           \/ /\ handled[o].info # None
              /\ table' = [table EXCEPT ![o][handled[o].name] = handled[o].info]
    BY <1>2 DEF Store
  <2> QED BY <1>0, <2>1
<1>3. CASE RemoveService(o)
  <2>1. /\ handled[o] = None /\ UNCHANGED handled /\ events[o] # <<>>
        /\ table' = [table EXCEPT ![o][Name(o)] = None]
    BY <1>3 DEF RemoveService, Idle
  <2>2. Name(o) \in Names
    BY <2>1, HeldTypes
  <2> QED BY <1>0, <2>1, <2>2
<1> QED BY <1>1, <1>2, <1>3 DEF Browse

\* A browser keeps the owners straight, and never goes back.
LEMMA BrowseKeeps ==
  ASSUME TypeOK, CallType, NetOwners, HeldOwners, NeverBack,
         NEW o \in Observers, Browse(o)
  PROVE  HeldOwners' /\ NeverBack'
<1>1. UNCHANGED <<net, node, info, call>>
  BY DEF Browse, Query, Store, RemoveService, registry
<1>2. \A x, m : OwnedBy(x, m)' <=> OwnedBy(x, m)
  BY <1>1 DEF OwnedBy, Registered
<1>3. \A p \in Observers : p # o => handled'[p] = handled[p] /\ table'[p] = table[p]
  BY BrowseEffect
<1> DEFINE tb == table[o]
           h == handled[o]
<1>4. PICK c, g, tn : c = call[o] /\ g = handled'[o] /\ tn = table'[o]
  OBVIOUS
<1>5. Straight(h, tb, c) /\ Fresh(h, tb, c)
  BY <1>4 DEF HeldOwners, NeverBack
\* Two nodes that own a name are not both up.
<1>6. ASSUME NEW x \in Names, NEW m, NEW k,
             OwnedBy(x, m), node[m] = "up", OwnedBy(x, k), node[k] = "up"
      PROVE  m = k
  <2>1. \A n \in Nodes : node[n] = "up" => net[info[n]].owner = n
    BY DEF TypeOK
  <2>2. net[x].owner = m /\ net[x].owner = k
    BY <1>6, <2>1 DEF OwnedBy
  <2> QED BY <2>2
<1>7. /\ tb \in [Names -> Records \cup {None}] /\ (h # None => h.name \in Names)
      /\ c.at = "port" => c.name \in Names
  BY <1>4, HeldTypes
<1>8. Straight(g, tn, c) /\ Fresh(g, tn, c)
  <2>1. CASE /\ tn = tb /\ g.name \in Names
             /\ g.info # None => g.info = net[g.name]
    <3>1. g.info # None => OwnedBy(g.name, g.info.owner) /\ node[g.info.owner] = "up"
      BY <2>1 DEF NetOwners
    <3>2. Straight(g, tb, c)
      BY <1>5, <3>1 DEF Straight, Fresh
    <3>3. g.info # None => LET r == tb[g.name]
                           IN r # None /\ node[r.owner] = "up" => g.info.owner = r.owner
      BY <1>5, <1>6, <2>1, <3>1 DEF Straight, Fresh
    <3>4. c.at = "port" /\ node[c.advertiser] = "up" =>
            /\ tb[c.name] # None => tb[c.name].owner = c.advertiser
            /\ g.info # None /\ g.name = c.name => g.info.owner = c.advertiser
      BY <1>5, <1>6, <2>1, <3>1 DEF Straight, Fresh
    <3> QED BY <2>1, <3>2, <3>3, <3>4 DEF Straight, Fresh
  <2>2. CASE g = None /\ tn = tb
    BY <1>5, <2>2 DEF Straight, Fresh
  <2>3. CASE /\ h # None /\ h.info # None /\ g = None
             /\ tn = [tb EXCEPT ![h.name] = h.info]
    <3>1. tn[h.name] = h.info /\ \A x \in Names : x # h.name => tn[x] = tb[x]
      BY <1>7, <2>3 DEF Straight, Fresh
    <3>2. \A x \in Names : tn[x] # None => OwnedBy(x, tn[x].owner)
      BY <1>5, <2>3, <3>1 DEF Straight, Fresh
    <3>3. c.at = "port" /\ node[c.advertiser] = "up" =>
            (tn[c.name] # None => tn[c.name].owner = c.advertiser)
      BY <1>5, <1>7, <2>3, <3>1 DEF Straight, Fresh
    <3> QED BY <1>5, <2>3, <3>2, <3>3 DEF Straight, Fresh
  <2>4. CASE /\ h = None /\ g = None
             /\ \E x \in Names : tn = [tb EXCEPT ![x] = None]
    <3>1. \A y \in Names : tn[y] = tb[y] \/ tn[y] = None
      BY <1>7, <2>4 DEF Straight, Fresh
    <3> QED BY <1>5, <1>7, <2>4, <3>1 DEF Straight, Fresh
  <2>5. \/ tn = tb /\ g.name \in Names /\ (g.info # None => g.info = net[g.name])
        \/ g = None /\ tn = tb
        \/ h # None /\ h.info # None /\ g = None /\ tn = [tb EXCEPT ![h.name] = h.info]
        \/ h = None /\ g = None /\ \E x \in Names : tn = [tb EXCEPT ![x] = None]
    BY <1>4, BrowseEffect
  <2> HIDE DEF tb, h
  <2> QED BY <2>1, <2>2, <2>3, <2>4, <2>5
<1>9. HeldOwners'
  BY <1>1, <1>2, <1>3, <1>4, <1>8 DEF HeldOwners, Straight
<1>10. NeverBack'
  BY <1>1, <1>3, <1>4, <1>8 DEF NeverBack, Fresh
<1> QED BY <1>9, <1>10

-----------------------------------------------------------------------------
(* Calls.                                                                  *)

\* Calls.
LEMMA CallTypeKept ==
  ASSUME TypeOK, CallType, NEW o \in Observers, CallService(o) \/ Lookup(o)
  PROVE  CallType'
<1> DEFINE CT == [at : {"idle", "services", "port", "connect"}, name : Names \cup {None},
                  size : Nat, seen : SUBSET Names,
                  advertiser : Nodes \cup {None}, peer : Nodes \cup {None}]
<1>1. /\ call \in [Observers -> CT] /\ call[o] \in CT
      /\ call[o].at # "idle" => call[o].name \in Names
  BY DEF CallType
<1>2. NoCall \in CT /\ NoCall.at = "idle"
  BY DEF NoCall
<1>3. SUFFICES \E c \in CT : /\ call' = [call EXCEPT ![o] = c]
                             /\ c.at # "idle" => c.name \in Names
  <2> SUFFICES ASSUME NEW c \in CT, call' = [call EXCEPT ![o] = c],
                      c.at # "idle" => c.name \in Names
               PROVE  CallType'
    OBVIOUS
  <2> HIDE DEF CT
  <2>1. call' \in [Observers -> CT]
    BY <1>1
  <2>2. \A p \in Observers : call'[p].at # "idle" => call'[p].name \in Names
    BY <1>1 DEF CallType
  <2> QED BY <2>1, <2>2 DEF CallType, CT
<1>4. CASE CallService(o)
  <2>1. PICK x \in Names :
          call' = [call EXCEPT ![o] = [NoCall EXCEPT !.at = "services", !.name = x,
                                                    !.size = Size(o)]]
    BY <1>4 DEF CallService
  <2>2. Size(o) \in Nat
    BY HeldTypes
  <2> DEFINE c == [NoCall EXCEPT !.at = "services", !.name = x, !.size = Size(o)]
  <2>3. c \in CT /\ c.name \in Names
    BY <1>2, <2>2 DEF NoCall
  <2> HIDE DEF c, CT
  <2>4. call' = [call EXCEPT ![o] = c]
    BY <2>1 DEF c
  <2> QED BY <2>3, <2>4
<1>5. CASE Visit(o)
  <2>1. PICK x \in Present(table[o]) : call' = [call EXCEPT ![o].seen = call[o].seen \cup {x}]
    BY <1>5 DEF Visit
  <2>2. x \in Names
    BY HeldTypes
  <2> DEFINE c == [call[o] EXCEPT !.seen = call[o].seen \cup {x}]
  <2>3. c \in CT /\ (c.at # "idle" => c.name \in Names)
    BY <1>1, <2>2
  <2>4. call' = [call EXCEPT ![o] = c]
    BY <2>1
  <2> HIDE DEF c, CT
  <2> QED BY <2>3, <2>4
<1>6. CASE Found(o)
  <2> DEFINE r == table[o][call[o].name]
             c == IF call[o].at = "services"
                    THEN [call[o] EXCEPT !.at = "port", !.seen = {}, !.advertiser = r.owner]
                    ELSE [call[o] EXCEPT !.at = "connect", !.peer = r.owner]
  <2>1. call[o].at # "idle" /\ r # None /\ call' = [call EXCEPT ![o] = c]
    BY <1>6 DEF Found, Looking
  <2>2. r.owner \in Nodes
    BY <1>1, <2>1, HeldTypes
  <2>3. c \in CT /\ c.name \in Names
    <3> HIDE DEF r
    <3> QED BY <1>1, <2>1, <2>2
  <2> HIDE DEF c, CT
  <2> QED BY <2>1, <2>3
<1>7. CASE LookupFails(o) \/ CallEnds(o)
  <2>1. call' = [call EXCEPT ![o] = NoCall]
    BY <1>7 DEF LookupFails, CallEnds
  <2> HIDE DEF CT
  <2> QED BY <1>2, <2>1
<1> HIDE DEF CT
<1> QED BY <1>4, <1>5, <1>6, <1>7 DEF Lookup

\* What a call becomes.
LEMMA CallEffect ==
  ASSUME TypeOK, CallType, NEW o \in Observers, CallService(o) \/ Lookup(o)
  PROVE  /\ \A p \in Observers : p # o => call'[p] = call[p]
         /\ \/ call'[o].at \in {"idle", "services"}
            \/ call'[o].at = call[o].at /\ call'[o].name = call[o].name
               /\ call'[o].advertiser = call[o].advertiser /\ call'[o].peer = call[o].peer
               /\ call[o].at # "connect"
            \/ /\ call[o].at = "services" /\ call'[o].at = "port"
               /\ call'[o].name = call[o].name /\ call[o].name \in Names
               /\ table[o][call[o].name] # None
               /\ call'[o].advertiser = table[o][call[o].name].owner
            \/ /\ call[o].at = "port" /\ call'[o].at = "connect"
               /\ call'[o].name = call[o].name /\ call[o].name \in Names
               /\ call'[o].advertiser = call[o].advertiser
               /\ table[o][call[o].name] # None
               /\ call'[o].peer = table[o][call[o].name].owner
<1>0. \A c : call' = [call EXCEPT ![o] = c] =>
               call'[o] = c /\ \A p \in Observers : p # o => call'[p] = call[p]
  BY DEF CallType
<1>1. CASE CallService(o)
  <2>1. PICK x \in Names :
          call' = [call EXCEPT ![o] = [NoCall EXCEPT !.at = "services", !.name = x,
                                                    !.size = Size(o)]]
    BY <1>1 DEF CallService
  <2>2. call'[o].at = "services"
    BY <1>0, <2>1 DEF NoCall
  <2> QED BY <1>0, <2>1, <2>2
<1>2. CASE Visit(o)
  <2>1. PICK x : call' = [call EXCEPT ![o] = [call[o] EXCEPT !.seen = call[o].seen \cup {x}]]
    BY <1>2 DEF Visit
  <2>2. call'[o] = [call[o] EXCEPT !.seen = call[o].seen \cup {x}]
    BY <1>0, <2>1
  <2>3. /\ call'[o].at = call[o].at /\ call'[o].name = call[o].name
        /\ call'[o].advertiser = call[o].advertiser /\ call'[o].peer = call[o].peer
    BY <2>2 DEF CallType
  <2> QED BY <1>0, <1>2, <2>1, <2>3 DEF Visit, Looking
<1>3. CASE Found(o)
  <2> DEFINE r == table[o][call[o].name]
  <2>1. /\ call[o].at \in {"services", "port"} /\ r # None
        /\ call' = [call EXCEPT ![o] =
             IF call[o].at = "services"
               THEN [call[o] EXCEPT !.at = "port", !.seen = {}, !.advertiser = r.owner]
               ELSE [call[o] EXCEPT !.at = "connect", !.peer = r.owner]]
    BY <1>3 DEF Found, Looking
  <2>2. call[o].name \in Names
    BY <2>1 DEF CallType
  <2>3. call'[o] = IF call[o].at = "services"
               THEN [call[o] EXCEPT !.at = "port", !.seen = {}, !.advertiser = r.owner]
               ELSE [call[o] EXCEPT !.at = "connect", !.peer = r.owner]
    BY <1>0, <2>1
  <2>4. CASE call[o].at = "services"
    <3>1. /\ call'[o].at = "port" /\ call'[o].name = call[o].name
          /\ call'[o].advertiser = r.owner
      BY <2>3, <2>4 DEF CallType
    <3> QED BY <1>0, <2>1, <2>2, <2>4, <3>1
  <2>5. CASE call[o].at = "port"
    <3>1. /\ call'[o].at = "connect" /\ call'[o].name = call[o].name
          /\ call'[o].advertiser = call[o].advertiser /\ call'[o].peer = r.owner
      BY <2>3, <2>5 DEF CallType
    <3> QED BY <1>0, <2>1, <2>2, <2>5, <3>1
  <2> QED BY <2>1, <2>4, <2>5
<1>4. CASE LookupFails(o) \/ CallEnds(o)
  <2>1. call' = [call EXCEPT ![o] = NoCall]
    BY <1>4 DEF LookupFails, CallEnds
  <2>2. call'[o].at = "idle"
    BY <1>0, <2>1 DEF NoCall
  <2> QED BY <1>0, <2>1, <2>2
<1> QED BY <1>1, <1>2, <1>3, <1>4 DEF Lookup

\* The second lookup of a call finds the node the first one found.
LEMMA CallKeeps ==
  ASSUME TypeOK, CallType, HeldOwners, NeverBack, CallReachesAdvertiser,
         NEW o \in Observers, CallService(o) \/ Lookup(o)
  PROVE  HeldOwners' /\ NeverBack' /\ CallReachesAdvertiser'
<1>1. UNCHANGED <<net, node, info, handled, table>>
  BY DEF CallService, Lookup, Visit, Found, LookupFails, CallEnds, registry, browsers
<1>2. \A x, m : OwnedBy(x, m)' <=> OwnedBy(x, m)
  BY <1>1 DEF OwnedBy, Registered
<1>3. PICK c : c = call[o]
  OBVIOUS
<1>4. PICK d : d = call'[o]
  OBVIOUS
<1>5. \A p \in Observers : p # o => call'[p] = call[p]
  BY CallEffect
<1>6. \/ d.at \in {"idle", "services"}
      \/ d.at = c.at /\ d.name = c.name /\ d.advertiser = c.advertiser /\ d.peer = c.peer
         /\ c.at # "connect"
      \/ /\ c.at = "services" /\ d.at = "port" /\ d.name = c.name /\ c.name \in Names
         /\ table[o][c.name] # None /\ d.advertiser = table[o][c.name].owner
      \/ /\ c.at = "port" /\ d.at = "connect" /\ d.name = c.name /\ c.name \in Names
         /\ d.advertiser = c.advertiser
         /\ table[o][c.name] # None /\ d.peer = table[o][c.name].owner
  BY <1>3, <1>4, CallEffect
<1>7. /\ c.at \in {"port", "connect"} => OwnedBy(c.name, c.advertiser)
      /\ \A x \in Names : table[o][x] # None => OwnedBy(x, table[o][x].owner)
  BY <1>3 DEF HeldOwners, Straight
<1>8. d.at \in {"port", "connect"} => OwnedBy(d.name, d.advertiser)
  BY <1>6, <1>7
<1>9. HeldOwners'
  BY <1>1, <1>2, <1>4, <1>5, <1>8 DEF HeldOwners, Straight
<1>10. d.at = "port" /\ node[d.advertiser] = "up" =>
         /\ table[o][d.name] # None => table[o][d.name].owner = d.advertiser
         /\ handled[o] # None /\ handled[o].info # None /\ handled[o].name = d.name
              => handled[o].info.owner = d.advertiser
  BY <1>3, <1>6 DEF NeverBack, Fresh
<1>11. NeverBack'
  BY <1>1, <1>4, <1>5, <1>10 DEF NeverBack, Fresh
<1>12. d.at = "connect" => d.peer = d.advertiser \/ node[d.advertiser] = "stopped"
  BY <1>3, <1>6, <1>7 DEF NeverBack, Fresh, OwnedBy, Registered
<1>13. CallReachesAdvertiser'
  BY <1>1, <1>4, <1>5, <1>12 DEF CallReachesAdvertiser
<1> QED BY <1>9, <1>11, <1>13

-----------------------------------------------------------------------------
(* Threads that publish.                                                   *)

\* Publishing threads keep the types, also of the record they announce again.
LEMMA ThreadTypesKept ==
  ASSUME TypeOK, Propagating, NEW t \in Topics, InsertPublisher(t) \/ Publish(t)
  PROVE  RegistryType' /\ ThreadsType'
<1> USE DEF Go
<1>0. RegistryType /\ ThreadsType
  BY DEF TypeOK, RegistryType, ThreadsType, Kinds
<1>1. \A S \in SUBSET Topics : Cardinality(S) \in Nat
  BY NodesAssumption, FS_Subset, FS_CardinalityType
<1>2. CASE UpdateService(t)
  <2>1. /\ pc' = [pc EXCEPT ![t] = "done"]
        /\ UNCHANGED <<node, info, counter, publishers, props, size, collected, raced>>
    BY <1>2 DEF UpdateService
  <2>2. ThreadsType'
    BY <1>0, <2>1 DEF ThreadsType
  <2>3. CASE node[Host] = "up"
    <3>1. Announce(Host, info[Host], "updated") /\ Host \in Nodes /\ info[Host] \in Names
      BY <1>2, <2>3, NodesAssumption DEF UpdateService, TypeOK
    <3>2. /\ net' \in [Names -> Records \cup {None}]
          /\ net'[info[Host]] # None /\ net'[info[Host]].owner = Host
          /\ \A y \in Names : y # info[Host] => net'[y] = net[y]
          /\ events' \in [Observers -> Seq(Kinds \X Names)]
      BY <3>1, AnnounceEffect DEF Kinds
    <3>3. \A n \in Nodes : node[n] = "up" => net[info[n]] # None /\ net[info[n]].owner = n
      BY <1>0 DEF RegistryType
    <3>4. \A n \in Nodes : node[n] = "up" => net'[info[n]] # None /\ net'[info[n]].owner = n
      <4> TAKE n \in Nodes
      <4> HAVE node[n] = "up"
      <4>1. info[n] \in Names /\ (info[n] = info[Host] => n = Host)
        BY <1>0, <2>3, <3>1, <3>3 DEF RegistryType
      <4> QED BY <3>2, <3>3, <4>1
    <3>5. RegistryType'
      BY <1>0, <2>1, <3>2, <3>4 DEF RegistryType
    <3> QED BY <2>2, <3>5
  <2>4. CASE node[Host] # "up"
    <3>1. UNCHANGED <<net, events>>
      BY <1>2, <2>4 DEF UpdateService
    <3> QED BY <1>0, <2>1, <2>2, <3>1 DEF RegistryType
  <2> QED BY <2>3, <2>4
<1>3. CASE InsertPublisher(t) \/ CollectBegin(t) \/ CollectRaises(t) \/ CollectEnd(t)
             \/ UpdateProperties(t)
  <2>1. UNCHANGED <<registry, events>>
    BY <1>3 DEF InsertPublisher, CollectBegin, CollectRaises, CollectEnd, UpdateProperties
  <2>2. RegistryType'
    BY <1>0, <2>1 DEF RegistryType, registry
  <2>3. ThreadsType'
    <3>1. CASE InsertPublisher(t)
      BY <1>0, <3>1 DEF InsertPublisher, ThreadsType
    <3>2. CASE CollectBegin(t)
      BY <1>0, <1>1, <3>2 DEF CollectBegin, ThreadsType
    <3>3. CASE CollectRaises(t)
      BY <1>0, <3>3 DEF CollectRaises, ThreadsType
    <3>4. CASE CollectEnd(t)
      BY <1>0, <3>4 DEF CollectEnd, ThreadsType
    <3>5. CASE UpdateProperties(t)
      BY <1>0, <3>5 DEF UpdateProperties, ThreadsType, Propagating
    <3> QED BY <1>3, <3>1, <3>2, <3>3, <3>4, <3>5
  <2> QED BY <2>2, <2>3
<1> QED BY <1>2, <1>3 DEF Publish

\* And the owners: a record is announced again under its owner's name.
LEMMA ThreadsKeepOwners ==
  ASSUME TypeOK, Renaming, NetOwners, HeldOwners, NeverBack, CallReachesAdvertiser,
         NEW t \in Topics, InsertPublisher(t) \/ Publish(t)
  PROVE  /\ Renaming' /\ NetOwners' /\ HeldOwners' /\ NeverBack' /\ CallReachesAdvertiser'
<1>1. UNCHANGED <<node, info, counter, handled, table, call>>
  BY DEF InsertPublisher, Publish, CollectBegin, CollectRaises, CollectEnd,
         UpdateProperties, UpdateService, registry, browsers
<1>2. \A x, m : OwnedBy(x, m)' <=> OwnedBy(x, m)
  BY <1>1 DEF OwnedBy, Registered
<1>3. Renaming'
  BY <1>1, <1>2 DEF Renaming, Registered
<1>4. Progress
  BY <1>1 DEF Progress, Registered
<1>5. NetOwners'
  <2>1. CASE UNCHANGED net
    BY <1>1, <1>2, <2>1 DEF NetOwners
  <2>2. CASE UpdateService(t) /\ node[Host] = "up"
    <3>1. Announce(Host, info[Host], "updated") /\ Host \in Nodes /\ info[Host] \in Names
      BY <2>2, NodesAssumption DEF UpdateService, TypeOK
    <3>2. /\ net'[info[Host]].owner = Host
          /\ \A y \in Names : y # info[Host] => net'[y] = net[y]
      BY <3>1, AnnounceEffect DEF Kinds
    <3>3. OwnedBy(info[Host], Host)
      BY <2>2, <3>1 DEF OwnedBy, Registered
    <3> QED BY <1>1, <1>2, <2>2, <3>2, <3>3 DEF NetOwners
  <2>3. UNCHANGED net \/ (UpdateService(t) /\ node[Host] = "up")
    BY DEF InsertPublisher, Publish, CollectBegin, CollectRaises, CollectEnd,
           UpdateProperties, UpdateService, registry
  <2> QED BY <2>1, <2>2, <2>3
<1> QED BY <1>1, <1>3, <1>4, <1>5, HeldKept

\* No topic is forgotten by threads that publish one after the other, however
\* their collecting is interrupted.
LEMMA ThreadsPropagate ==
  ASSUME TypeOK, Propagating, NEW t \in Topics, InsertPublisher(t) \/ Publish(t)
  PROVE  Propagating'
<1> USE DEF Go
<1>0. /\ pc \in [Topics -> {"idle", "collect", "collecting", "update", "announce",
                            "done", "raised"}]
      /\ size \in [Topics -> Nat] /\ collected \in [Topics -> SUBSET Topics]
      /\ raced \in BOOLEAN /\ publishers \subseteq Topics
  BY DEF TypeOK
<1>1. CASE InsertPublisher(t)
  <2>1. /\ pc[t] = "idle" /\ pc' = [pc EXCEPT ![t] = "collect"]
        /\ publishers' = publishers \cup {t}
        /\ UNCHANGED <<size, collected, raced>>
    BY <1>1 DEF InsertPublisher
  <2>2. pc'[t] = "collect" /\ \A u \in Topics : pc'[u] = "update" => pc[u] = "update"
    BY <1>0, <2>1
  <2> QED BY <2>1, <2>2 DEF Propagating
<1>2. CASE CollectBegin(t)
  <2>1. /\ pc' = [pc EXCEPT ![t] = "collecting"]
        /\ size' = [size EXCEPT ![t] = Cardinality(publishers)]
        /\ UNCHANGED <<publishers, collected, raced>>
    BY <1>2 DEF CollectBegin
  <2>2. /\ pc'[t] = "collecting" /\ size'[t] = Cardinality(publishers)
        /\ \A u \in Topics : pc'[u] = "update" => pc[u] = "update"
    BY <1>0, <2>1
  <2> QED BY <2>1, <2>2 DEF Propagating
<1>3. CASE CollectRaises(t)
  <2>1. /\ pc[t] = "collecting" /\ Cardinality(publishers) # size[t]
        /\ pc' = [pc EXCEPT ![t] = "raised"] /\ size' = [size EXCEPT ![t] = 0]
        /\ UNCHANGED <<publishers, props, collected, raced>>
    BY <1>3 DEF CollectRaises
  <2>2. /\ pc'[t] = "raised"
        /\ \A u \in Topics : u # t => pc'[u] = pc[u] /\ size'[u] = size[u]
    BY <1>0, <2>1
  <2>3. \A u \in Topics : pc'[u] = "update" <=> pc[u] = "update"
    BY <2>1, <2>2
  <2>4. /\ (\E u \in Topics : pc[u] = "collect") => \E u \in Topics : pc'[u] = "collect"
        /\ (\E u \in Topics : pc[u] = "collecting" /\ size[u] = Cardinality(publishers))
             => \E u \in Topics : pc'[u] = "collecting" /\ size'[u] = Cardinality(publishers)
    BY <2>1, <2>2
  <2> QED BY <2>1, <2>3, <2>4 DEF Propagating
<1>4. CASE CollectEnd(t)
  <2>1. /\ pc' = [pc EXCEPT ![t] = "update"]
        /\ collected' = [collected EXCEPT ![t] = publishers]
        /\ raced' = (raced \/ \E u \in Topics : pc[u] = "update")
        /\ UNCHANGED publishers
    BY <1>4 DEF CollectEnd
  <2>2. /\ pc'[t] = "update" /\ collected'[t] = publishers
        /\ \A u \in Topics : u # t => pc'[u] = pc[u] /\ collected'[u] = collected[u]
    BY <1>0, <2>1
  <2> QED BY <2>1, <2>2 DEF Propagating
<1>5. CASE UpdateProperties(t)
  <2>1. /\ pc[t] = "update" /\ pc' = [pc EXCEPT ![t] = "announce"]
        /\ props' = collected[t] /\ collected' = [collected EXCEPT ![t] = {}]
        /\ UNCHANGED <<publishers, size, raced>>
    BY <1>5 DEF UpdateProperties
  <2>2. /\ pc'[t] = "announce" /\ collected'[t] = {}
        /\ \A u \in Topics : u # t => pc'[u] = pc[u] /\ collected'[u] = collected[u]
    BY <1>0, <2>1
  <2>3. \A u \in Topics : /\ pc'[u] = "collect" <=> pc[u] = "collect"
                          /\ pc'[u] = "collecting" <=> pc[u] = "collecting"
    BY <2>1, <2>2
  <2>4. \A u \in Topics : collected'[u] \subseteq publishers
    BY <2>2 DEF Propagating
  <2>5. ~raced => \A u \in Topics : pc'[u] # "update"
    BY <2>1, <2>2 DEF Propagating
  <2> QED BY <2>1, <2>3, <2>4, <2>5 DEF Propagating
<1>6. CASE UpdateService(t)
  <2>1. /\ pc[t] = "announce" /\ pc' = [pc EXCEPT ![t] = "done"]
        /\ UNCHANGED <<publishers, props, size, collected, raced>>
    BY <1>6 DEF UpdateService
  <2>2. pc'[t] = "done" /\ \A u \in Topics : u # t => pc'[u] = pc[u]
    BY <1>0, <2>1
  <2>3. \A u \in Topics : /\ pc'[u] = "collect" <=> pc[u] = "collect"
                          /\ pc'[u] = "collecting" <=> pc[u] = "collecting"
                          /\ pc'[u] = "update" <=> pc[u] = "update"
    BY <2>1, <2>2
  <2> QED BY <2>1, <2>3 DEF Propagating
<1> QED BY <1>1, <1>2, <1>3, <1>4, <1>5, <1>6 DEF Publish

-----------------------------------------------------------------------------

\* At the start nothing is registered, known or published.
LEMMA Initially == Init => Inv
<1> SUFFICES ASSUME Init PROVE Inv
  OBVIOUS
<1> USE DEF Init
<1>1. RegistryType
  <2>1. info \in [Nodes -> Names]
    BY NamesFacts
  <2>2. counter \in [Nodes -> 0..Cardinality(Nodes)]
    BY NamesFacts
  <2>3. events \in [Observers -> Seq(Kinds \X Names)]
    OBVIOUS
  <2>4. \A n \in Nodes : node[n] # "up"
    OBVIOUS
  <2> QED BY <2>1, <2>2, <2>3, <2>4 DEF RegistryType
<1>2. ThreadsType
  BY DEF ThreadsType
<1>3. BrowsersType
  BY DEF BrowsersType
<1>4. CallType
  BY DEF CallType, NoCall
<1>5. TypeOK
  BY <1>1, <1>2, <1>3, <1>4, TypeParts
<1>6. Renaming
  BY DEF Renaming
<1>7. NetOwners /\ HeldOwners /\ NeverBack /\ CallReachesAdvertiser
  BY DEF NetOwners, HeldOwners, Straight, NeverBack, Fresh, CallReachesAdvertiser, NoCall
<1>8. Propagating
  BY DEF Propagating
<1> QED BY <1>5, <1>4, <1>6, <1>7, <1>8 DEF Inv

\* Every step keeps the invariant.
LEMMA Inductive == Inv /\ [Next]_vars => Inv'
<1> SUFFICES ASSUME Inv, [Next]_vars PROVE Inv'
  OBVIOUS
<1>0. RegistryType /\ ThreadsType /\ BrowsersType
  BY TypeParts DEF Inv
<1>1. ASSUME NEW n \in Nodes,
             \/ Construct(n) \/ Advertise(n) \/ NameTaken(n) \/ Rename(n)
             \/ NewNameTaken(n) \/ StopAdvertising(n)
      PROVE  Inv'
  <2>1. UNCHANGED <<threads, browsers, call>>
    BY <1>1 DEF Construct, Advertise, NameTaken, Rename, NewNameTaken, StopAdvertising
  <2>2. RegistryType'
    BY <1>1, RegistryTypeKept DEF Inv
  <2>3. ThreadsType' /\ BrowsersType' /\ CallType' /\ Propagating'
    BY <1>0, <2>1 DEF Inv, ThreadsType, BrowsersType, CallType, Propagating, threads, browsers
  <2>4. Renaming' /\ NetOwners' /\ HeldOwners' /\ NeverBack' /\ CallReachesAdvertiser'
    BY <1>1, RegistryKeeps DEF Inv
  <2> QED BY <2>2, <2>3, <2>4, TypePartsNext DEF Inv
<1>2. ASSUME NEW t \in Topics, InsertPublisher(t) \/ Publish(t)
      PROVE  Inv'
  <2>1. UNCHANGED <<browsers, call>>
    BY <1>2 DEF InsertPublisher, Publish, CollectBegin, CollectRaises, CollectEnd,
                UpdateProperties, UpdateService
  <2>2. RegistryType' /\ ThreadsType'
    BY <1>2, ThreadTypesKept DEF Inv
  <2>3. BrowsersType' /\ CallType'
    BY <1>0, <2>1 DEF Inv, BrowsersType, CallType, browsers
  <2>4. Renaming' /\ NetOwners' /\ HeldOwners' /\ NeverBack' /\ CallReachesAdvertiser'
    BY <1>2, ThreadsKeepOwners DEF Inv
  <2>5. Propagating'
    BY <1>2, ThreadsPropagate DEF Inv
  <2> QED BY <2>2, <2>3, <2>4, <2>5, TypePartsNext DEF Inv
<1>3. ASSUME NEW o \in Observers, Browse(o)
      PROVE  Inv'
  <2>1. UNCHANGED <<registry, threads, call>>
    BY <1>3 DEF Browse, Query, Store, RemoveService
  <2>2. BrowsersType' /\ events' \in [Observers -> Seq(Kinds \X Names)]
    BY <1>3, BrowsersTypeKept DEF Inv
  <2>3. RegistryType'
    BY <1>0, <2>1, <2>2 DEF RegistryType, registry
  <2>4. ThreadsType' /\ CallType' /\ Propagating'
    BY <1>0, <2>1 DEF Inv, ThreadsType, CallType, Propagating, threads
  <2>5. HeldOwners' /\ NeverBack'
    BY <1>3, BrowseKeeps DEF Inv
  <2>6. Renaming' /\ NetOwners' /\ CallReachesAdvertiser'
    BY <2>1 DEF Inv, Renaming, NetOwners, CallReachesAdvertiser, OwnedBy, Registered, registry
  <2> QED BY <2>2, <2>3, <2>4, <2>5, <2>6, TypePartsNext DEF Inv
<1>4. ASSUME NEW o \in Observers, CallService(o) \/ Lookup(o)
      PROVE  Inv'
  <2>1. UNCHANGED <<registry, threads, events, browsers>>
    BY <1>4 DEF CallService, Lookup, Visit, Found, LookupFails, CallEnds
  <2>2. RegistryType' /\ ThreadsType' /\ BrowsersType' /\ Propagating'
    BY <1>0, <2>1 DEF Inv, RegistryType, ThreadsType, BrowsersType, Propagating,
                      registry, threads, browsers
  <2>3. CallType'
    BY <1>4, CallTypeKept DEF Inv
  <2>4. HeldOwners' /\ NeverBack' /\ CallReachesAdvertiser'
    BY <1>4, CallKeeps DEF Inv
  <2>5. Renaming' /\ NetOwners'
    BY <2>1 DEF Inv, Renaming, NetOwners, OwnedBy, Registered, registry
  <2> QED BY <2>2, <2>3, <2>4, <2>5, TypePartsNext DEF Inv
<1>5. CASE UNCHANGED vars
  <2>1. UNCHANGED <<registry, threads, events, browsers, call>>
    BY <1>5 DEF vars
  <2>2. RegistryType' /\ ThreadsType' /\ BrowsersType' /\ CallType' /\ Propagating'
    BY <1>0, <2>1 DEF Inv, RegistryType, ThreadsType, BrowsersType, CallType, Propagating,
                      registry, threads, browsers
  <2>3. Renaming' /\ NetOwners'
    BY <2>1 DEF Inv, Renaming, NetOwners, OwnedBy, Registered, registry
  <2>4. HeldOwners' /\ NeverBack' /\ CallReachesAdvertiser'
    <3>1. Progress /\ UNCHANGED <<handled, table, call>>
      BY <2>1 DEF Progress, Registered, registry, browsers
    <3> QED BY <3>1, HeldKept DEF Inv
  <2> QED BY <2>2, <2>3, <2>4, TypePartsNext DEF Inv
<1> QED BY <1>1, <1>2, <1>3, <1>4, <1>5 DEF Next

\* The invariant holds whoever comes, goes, publishes and calls.
THEOREM Invariance == Spec => []Inv
BY Initially, Inductive, PTL DEF Spec

\* The types; and the name in the info of a node that is up is the name of
\* its own record, also when the one it asked for was taken: the search for a
\* free suffix ends within the number of nodes.
THEOREM TypeCorrect == Spec => []TypeOK
<1>1. Inv => TypeOK
  BY DEF Inv
<1> QED BY <1>1, Invariance, PTL

\* call_service, which looks a name up for its services and again for its
\* port, connects to the node it found first unless that one has stopped.
THEOREM CallsReachAdvertisers == Spec => []CallReachesAdvertiser
<1>1. Inv => CallReachesAdvertiser
  BY DEF Inv
<1> QED BY <1>1, Invariance, PTL

\* When the publishing threads of a node are done its properties have every
\* topic, unless two of them held collected topics at once.
THEOREM AllTopicsAdvertised == Spec => []TopicsAdvertised
<1>1. Inv => TopicsAdvertised
  BY DEF Inv, Propagating, TopicsAdvertised
<1> QED BY <1>1, Invariance, PTL

=============================================================================
