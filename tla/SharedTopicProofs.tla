-------------------------- MODULE SharedTopicProofs --------------------------
(***************************************************************************)
(* Theorems about SharedTopic, for every number of publishers, messages    *)
(* and readers: whatever a publisher writes, and whenever one crashes, who *)
(* uses the topic uses one block, and what reaches a callback is a message *)
(* that was published as a whole.                                          *)
(***************************************************************************)
EXTENDS SharedTopic, CodecProofs, TLAPS

\* The records of blocks and publishers have the fields they are made with;
\* what is in those that are not sizes does not matter here.
IsBlock(b) == {"size", "mem", "made", "whole"} \subseteq DOMAIN b /\ b.size \in Nat
IsPub(r)   == {"at", "block", "sent", "topic", "todo", "alone"} \subseteq DOMAIN r
Fields ==
  /\ block = [p \in Publishers |-> block[p]] /\ \A p \in Publishers : IsBlock(block[p])
  /\ pub = [p \in Publishers |-> pub[p]] /\ \A p \in Publishers : IsPub(pub[p])

\* As long as no creator has removed its block, the name stays with the first
\* publisher that took it; who has not set the size of its block is the one.
OneName ==
  ~withdrawn =>
    /\ name \in Publishers \cup {None}
    /\ sub = "up" => memory \in {None, name}
    /\ \A p \in Publishers :
         /\ pub[p].at = "size" => name = p /\ pub[p].block = p
         /\ Up(p) => name = pub[p].block /\ name # None /\ block[name].size > 0

\* What the size of a block is computed from.
FirstMessage ==
  \A p \in Publishers : pub[p].at = "size" =>
    \E c \in Contents : pub[p].topic = Message(p, 0, c) /\ Estimable(Message(p, 0, c))

Inv == Fields /\ OneName /\ FirstMessage

-----------------------------------------------------------------------------
(* The steps of a publisher.                                               *)

\* One publisher changes.
LEMMA PubChanges ==
  ASSUME Fields, NEW p \in Publishers, NEW r, IsPub(r), pub' = [pub EXCEPT ![p] = r]
  PROVE  /\ pub' = [q \in Publishers |-> pub'[q]] /\ \A q \in Publishers : IsPub(pub'[q])
         /\ pub'[p] = r /\ \A q \in Publishers : q # p => pub'[q] = pub[q]
<1>1. pub' = [q \in Publishers |-> pub'[q]]
  BY DEF Fields
<1>2. pub'[p] = r /\ \A q \in Publishers : q # p => pub'[q] = pub[q]
  BY DEF Fields
<1>3. \A q \in Publishers : IsPub(pub'[q])
  <2> TAKE q \in Publishers
  <2>1. CASE q = p
    BY <1>2, <2>1
  <2>2. CASE q # p
    BY <1>2, <2>2 DEF Fields
  <2> QED BY <2>1, <2>2
<1> QED BY <1>1, <1>2, <1>3

\* One block changes, if it is one of a publisher.
LEMMA BlockChanges ==
  ASSUME Fields, NEW b, NEW r, IsBlock(r), block' = [block EXCEPT ![b] = r]
  PROVE  /\ block' = [q \in Publishers |-> block'[q]]
         /\ \A q \in Publishers : IsBlock(block'[q])
         /\ \A q \in Publishers : block'[q] = IF q = b THEN r ELSE block[q]
<1>1. block' = [q \in Publishers |-> block'[q]]
  BY DEF Fields
<1>2. \A q \in Publishers : block'[q] = IF q = b THEN r ELSE block[q]
  BY DEF Fields
<1>3. \A q \in Publishers : IsBlock(block'[q])
  <2> TAKE q \in Publishers
  <2>1. CASE q = b
    BY <1>2, <2>1
  <2>2. CASE q # b
    BY <1>2, <2>2 DEF Fields
  <2> QED BY <2>1, <2>2
<1> QED BY <1>1, <1>2, <1>3

\* What stopping or crashing leaves of a publisher.
LEMMA DownFields ==
  ASSUME NEW p \in Publishers
  PROVE  IsPub(Down(p)) /\ Down(p).at = "down"
<1>1. IsPub(NewPub)
  BY DEF NewPub, IsPub
<1> QED BY <1>1 DEF Down, IsPub

\* Who creates a block has a first message with an estimate; who opens one
\* leaves the name.
LEMMA Creates ==
  ASSUME NEW p \in Publishers, CreateMemory(p)
  PROVE  /\ name = None => \E c \in Contents :
              /\ name' = p /\ Estimable(Message(p, 0, c))
              /\ pub' = [pub EXCEPT ![p].at = "size", ![p].block = p, ![p].topic = Message(p, 0, c)]
         /\ name # None => UNCHANGED name /\ pub' = [pub EXCEPT ![p].at = "open"]
BY DEF CreateMemory

\* The block of the name is made.
LEMMA CreateKeeps ==
  ASSUME Inv, NEW p \in Publishers, CreateMemory(p)
  PROVE  Inv'
<1>0. /\ pub[p].at = "new" /\ UNCHANGED <<block, sub, memory, withdrawn>> /\ IsPub(pub[p])
      /\ None \notin Publishers
  BY SharedTopicAssumption DEF CreateMemory, Inv, Fields
<1>1. CASE name = None
  <2>1. PICK c \in Contents :
          /\ name' = p /\ Estimable(Message(p, 0, c))
          /\ pub' = [pub EXCEPT ![p].at = "size", ![p].block = p, ![p].topic = Message(p, 0, c)]
    BY <1>1, Creates
  <2> DEFINE r == [pub[p] EXCEPT !.at = "size", !.block = p, !.topic = Message(p, 0, c)]
  <2>2. IsPub(r) /\ r.at = "size" /\ r.block = p /\ r.topic = Message(p, 0, c)
    <3> DEFINE m == Message(p, 0, c)
    <3> HIDE DEF m
    <3> QED BY <1>0 DEF IsPub
  <2>3. pub' = [pub EXCEPT ![p] = r]
    BY <2>1
  <2> HIDE DEF r
  <2>4. /\ pub' = [q \in Publishers |-> pub'[q]] /\ \A q \in Publishers : IsPub(pub'[q])
        /\ pub'[p] = r /\ \A q \in Publishers : q # p => pub'[q] = pub[q]
    BY <2>2, <2>3, PubChanges DEF Inv
  <2>5. Fields'
    BY <1>0, <2>4 DEF Inv, Fields
  <2>6. OneName'
    BY <1>0, <1>1, <2>1, <2>2, <2>4 DEF Inv, OneName, Up
  <2>7. FirstMessage'
    BY <2>1, <2>2, <2>4 DEF Inv, FirstMessage
  <2> QED BY <2>5, <2>6, <2>7 DEF Inv
<1>2. CASE name # None
  <2> DEFINE r == [pub[p] EXCEPT !.at = "open"]
  <2>1. UNCHANGED name /\ pub' = [pub EXCEPT ![p] = r]
    BY <1>2, Creates
  <2>2. IsPub(r) /\ r.at = "open"
    BY <1>0 DEF IsPub
  <2> HIDE DEF r
  <2>3. /\ pub' = [q \in Publishers |-> pub'[q]] /\ \A q \in Publishers : IsPub(pub'[q])
        /\ pub'[p] = r /\ \A q \in Publishers : q # p => pub'[q] = pub[q]
    BY <2>1, <2>2, PubChanges DEF Inv
  <2>4. Fields' /\ OneName' /\ FirstMessage'
    BY <1>0, <2>1, <2>2, <2>3 DEF Inv, Fields, OneName, FirstMessage, Up
  <2> QED BY <2>4 DEF Inv
<1> QED BY <1>1, <1>2

\* It gets its size.
LEMMA SizeKeeps ==
  ASSUME Inv, NEW p \in Publishers, SizeMemory(p)
  PROVE  Inv'
<1> DEFINE s == ApproximateSize(pub[p].topic)
           b == [block[p] EXCEPT !.size = s, !.made = pub[p].topic, !.whole = <<>>]
           r == [pub[p] EXCEPT !.at = "up", !.topic = <<>>]
<1>1. /\ pub[p].at = "size" /\ IsPub(pub[p]) /\ IsBlock(block[p])
      /\ UNCHANGED <<name, sub, memory, withdrawn>>
  BY DEF SizeMemory, Inv, Fields
<1>2. s \in Nat \ {0}
  <2>1. PICK c \in Contents : pub[p].topic = Message(p, 0, c)
    BY <1>1 DEF Inv, FirstMessage
  <2>2. 0 \in 0..(MaxPublish + 1)
    BY SharedTopicAssumption
  <2>3. IsMessage(pub[p].topic)
    BY <2>1, <2>2, MessagesAssumption
  <2> QED BY <2>3, ApproximateSizes
<1>3. block' = [block EXCEPT ![p] = b] /\ pub' = [pub EXCEPT ![p] = r]
  BY DEF SizeMemory
<1>4. IsBlock(b) /\ b.size = s
  <2> HIDE DEF s
  <2> QED BY <1>1, <1>2 DEF IsBlock
<1>5. IsPub(r) /\ r.at = "up" /\ r.block = pub[p].block
  BY <1>1 DEF IsPub
<1> HIDE DEF s, b, r
<1>6. /\ block' = [q \in Publishers |-> block'[q]] /\ \A q \in Publishers : IsBlock(block'[q])
      /\ \A q \in Publishers : block'[q] = IF q = p THEN b ELSE block[q]
  BY <1>3, <1>4, BlockChanges DEF Inv
<1>7. /\ pub' = [q \in Publishers |-> pub'[q]] /\ \A q \in Publishers : IsPub(pub'[q])
      /\ pub'[p] = r /\ \A q \in Publishers : q # p => pub'[q] = pub[q]
  BY <1>3, <1>5, PubChanges DEF Inv
<1>8. Fields'
  BY <1>6, <1>7 DEF Fields
<1>9. FirstMessage'
  BY <1>5, <1>7 DEF Inv, FirstMessage
<1>10. \A q \in Publishers : block[q].size > 0 => block'[q].size > 0
  BY <1>2, <1>4, <1>6
<1>11. block'[p].size > 0
  BY <1>2, <1>4, <1>6
<1>12. ~withdrawn => name = p /\ pub[p].block = p
  BY <1>1 DEF Inv, OneName
<1>13. OneName'
  BY <1>1, <1>5, <1>7, <1>10, <1>11, <1>12, SharedTopicAssumption DEF Inv, OneName, Up
<1> QED BY <1>8, <1>9, <1>13 DEF Inv

\* It is opened.
LEMMA OpenKeeps ==
  ASSUME Inv, NEW p \in Publishers, OpenMemory(p)
  PROVE  Inv'
<1>1. IsPub(pub[p]) /\ UNCHANGED <<name, block, sub, memory, withdrawn>>
  BY DEF OpenMemory, Inv, Fields
<1> DEFINE r == IF name = None \/ block[name].size = 0
                  THEN Down(p)
                  ELSE [pub[p] EXCEPT !.at = "up", !.block = name, !.topic = <<>>]
<1>2. pub' = [pub EXCEPT ![p] = r]
  BY DEF OpenMemory
<1>3. IsPub(r) /\ r.at \in {"down", "up"}
  BY <1>1, DownFields DEF IsPub
<1>4. r.at = "up" => r.block = name /\ name # None /\ block[name].size # 0
  BY <1>1, DownFields DEF IsPub
<1> HIDE DEF r
<1>5. /\ pub' = [q \in Publishers |-> pub'[q]] /\ \A q \in Publishers : IsPub(pub'[q])
      /\ pub'[p] = r /\ \A q \in Publishers : q # p => pub'[q] = pub[q]
  BY <1>2, <1>3, PubChanges DEF Inv
<1>6. Fields' /\ FirstMessage'
  BY <1>1, <1>3, <1>5 DEF Inv, Fields, FirstMessage
<1>7. ~withdrawn /\ r.at = "up" => block[name].size > 0
  <2>1. ~withdrawn /\ r.at = "up" => name \in Publishers
    BY <1>4 DEF Inv, OneName
  <2> QED BY <1>4, <2>1 DEF Inv, Fields, IsBlock
<1>8. OneName'
  BY <1>1, <1>3, <1>4, <1>5, <1>7 DEF Inv, OneName, Up
<1> QED BY <1>6, <1>8 DEF Inv

\* A message is begun: the publisher keeps its block, and others only learn
\* that they are not alone.
LEMMA BeginKeeps ==
  ASSUME Inv, NEW p \in Publishers, PublishBegin(p)
  PROVE  Inv'
<1> DEFINE bb     == pub[p].block
           others == {q \in Publishers : pub[q].at = "writing" /\ pub[q].block = bb}
<1>1. PICK c \in Contents :
        pub' = [q \in Publishers |->
          IF q = p THEN [pub[p] EXCEPT !.at = "writing", !.topic = Message(p, pub[p].sent + 1, c),
                                       !.sent = @ + 1,
                                       !.todo = Encode(Message(p, pub[p].sent + 1, c)),
                                       !.alone = others = {}]
          ELSE IF q \in others THEN [pub[q] EXCEPT !.alone = FALSE]
          ELSE pub[q]]
  BY DEF PublishBegin
<1>2. /\ pub[p].at = "up" /\ block' = [block EXCEPT ![bb].whole = None]
      /\ UNCHANGED <<name, sub, memory, withdrawn>>
  BY DEF PublishBegin
<1> DEFINE b == [block[bb] EXCEPT !.whole = None]
<1>3. pub' = [q \in Publishers |-> pub'[q]]
  <2> HIDE DEF others
  <2> QED BY <1>1
<1>4. /\ IsPub(pub'[p]) /\ pub'[p].at = "writing" /\ pub'[p].block = pub[p].block
  <2> DEFINE m == Message(p, pub[p].sent + 1, c)
             e == Encode(m)
             a == others = {}
             n == pub[p].sent + 1
  <2>1. pub'[p] = [pub[p] EXCEPT !.at = "writing", !.topic = m, !.sent = n, !.todo = e, !.alone = a]
    BY <1>1
  <2> HIDE DEF m, e, a, n
  <2>2. IsPub(pub[p])
    BY DEF Inv, Fields
  <2> QED BY <2>1, <2>2 DEF IsPub
<1>5. \A q \in Publishers : q # p =>
        /\ IsPub(pub'[q]) /\ pub'[q].at = pub[q].at /\ pub'[q].block = pub[q].block
        /\ pub'[q].topic = pub[q].topic
  <2> SUFFICES ASSUME NEW q \in Publishers, q # p
               PROVE  /\ IsPub(pub'[q]) /\ pub'[q].at = pub[q].at
                      /\ pub'[q].block = pub[q].block /\ pub'[q].topic = pub[q].topic
    OBVIOUS
  <2>1. pub'[q] = [pub[q] EXCEPT !.alone = FALSE] \/ pub'[q] = pub[q]
    BY <1>1
  <2>2. IsPub(pub[q])
    BY DEF Inv, Fields
  <2> QED BY <2>1, <2>2 DEF IsPub
<1> HIDE DEF others
<1>6. Fields' /\ \A q \in Publishers : block'[q].size = block[q].size
  <2>1. CASE bb \in Publishers
    <3>1. IsBlock(b) /\ b.size = block[bb].size /\ block' = [block EXCEPT ![bb] = b]
      BY <1>2, <2>1 DEF Inv, Fields, IsBlock
    <3> HIDE DEF b
    <3>2. /\ block' = [q \in Publishers |-> block'[q]]
          /\ \A q \in Publishers : IsBlock(block'[q])
          /\ \A q \in Publishers : block'[q] = IF q = bb THEN b ELSE block[q]
      BY <3>1, BlockChanges DEF Inv
    <3> QED BY <1>3, <1>4, <1>5, <3>1, <3>2 DEF Fields
  <2>2. CASE bb \notin Publishers
    <3>1. block' = block
      BY <1>2, <2>2 DEF Inv, Fields
    <3> QED BY <1>3, <1>4, <1>5, <3>1 DEF Inv, Fields
  <2> QED BY <2>1, <2>2
<1> HIDE DEF bb, b
<1>7. OneName'
  BY <1>2, <1>4, <1>5, <1>6 DEF Inv, OneName, Up
<1>8. FirstMessage'
  BY <1>4, <1>5 DEF Inv, FirstMessage
<1> QED BY <1>6, <1>7, <1>8 DEF Inv

\* A part of it is copied.
LEMMA StepKeeps ==
  ASSUME Inv, NEW p \in Publishers, PublishStep(p)
  PROVE  Inv'
<1> DEFINE bb   == pub[p].block
           last == Len(pub[p].todo) = 1
           b    == [block[bb] EXCEPT !.mem = Write(@, Head(pub[p].todo)),
                                     !.whole = IF last /\ pub[p].alone THEN pub[p].topic ELSE @]
           r    == IF last
                     THEN [pub[p] EXCEPT !.at = "up", !.topic = <<>>, !.todo = <<>>, !.alone = TRUE]
                     ELSE [pub[p] EXCEPT !.todo = Tail(@)]
<1>1. /\ pub[p].at = "writing" /\ IsPub(pub[p])
      /\ UNCHANGED <<name, sub, memory, withdrawn>>
  BY DEF PublishStep, Inv, Fields
<1>2. pub' = [pub EXCEPT ![p] = r]
  BY DEF PublishStep
<1>3. IsPub(r) /\ r.at \in {"up", "writing"} /\ r.block = pub[p].block
  <2> DEFINE t == Tail(pub[p].todo)
  <2> HIDE DEF t
  <2>1. r = [pub[p] EXCEPT !.at = "up", !.topic = <<>>, !.todo = <<>>, !.alone = TRUE]
        \/ r = [pub[p] EXCEPT !.todo = t]
    BY DEF t
  <2> HIDE DEF r
  <2> QED BY <1>1, <2>1 DEF IsPub
<1> HIDE DEF r
<1>4. /\ pub' = [q \in Publishers |-> pub'[q]] /\ \A q \in Publishers : IsPub(pub'[q])
      /\ pub'[p] = r /\ \A q \in Publishers : q # p => pub'[q] = pub[q]
  BY <1>2, <1>3, PubChanges DEF Inv
<1>5. Fields' /\ \A q \in Publishers : block'[q].size = block[q].size
  <2>0. block' = [block EXCEPT ![bb].mem = Write(@, Head(pub[p].todo)),
                               ![bb].whole = IF last /\ pub[p].alone THEN pub[p].topic ELSE @]
    BY DEF PublishStep
  <2>1. CASE bb \in Publishers
    <3>1. block' = [block EXCEPT ![bb] = b]
      BY <2>0, <2>1 DEF Inv, Fields, IsBlock
    <3>2. IsBlock(b) /\ b.size = block[bb].size
      <4> DEFINE m == Write(block[bb].mem, Head(pub[p].todo))
                 w == IF last /\ pub[p].alone THEN pub[p].topic ELSE block[bb].whole
      <4>1. b = [block[bb] EXCEPT !.mem = m, !.whole = w]
        OBVIOUS
      <4> HIDE DEF m, w, b
      <4>2. IsBlock(block[bb])
        BY <2>1 DEF Inv, Fields
      <4> QED BY <4>1, <4>2 DEF IsBlock
    <3> HIDE DEF b
    <3>3. /\ block' = [q \in Publishers |-> block'[q]]
          /\ \A q \in Publishers : IsBlock(block'[q])
          /\ \A q \in Publishers : block'[q] = IF q = bb THEN b ELSE block[q]
      BY <3>1, <3>2, BlockChanges DEF Inv
    <3> QED BY <1>4, <3>2, <3>3 DEF Fields
  <2>2. CASE bb \notin Publishers
    <3>1. block' = block
      BY <2>0, <2>2 DEF Inv, Fields
    <3> QED BY <1>4, <3>1 DEF Inv, Fields
  <2> QED BY <2>1, <2>2
<1> HIDE DEF b
<1>6. OneName'
  BY <1>1, <1>3, <1>4, <1>5 DEF Inv, OneName, Up
<1>7. FirstMessage'
  BY <1>3, <1>4 DEF Inv, FirstMessage
<1> QED BY <1>5, <1>6, <1>7 DEF Inv

\* A publisher stops. Only its creator takes the name from a block, and that
\* goes on record.
LEMMA StopKeeps ==
  ASSUME Inv, NEW p \in Publishers, StopPublisher(p)
  PROVE  Inv'
<1>1. /\ UNCHANGED <<block, sub, memory>> /\ pub' = [pub EXCEPT ![p] = Down(p)]
      /\ withdrawn' \/ UNCHANGED <<name, withdrawn>>
  BY DEF StopPublisher
<1>2. /\ pub' = [q \in Publishers |-> pub'[q]] /\ \A q \in Publishers : IsPub(pub'[q])
      /\ pub'[p] = Down(p) /\ \A q \in Publishers : q # p => pub'[q] = pub[q]
  BY <1>1, DownFields, PubChanges DEF Inv
<1>3. Fields'
  BY <1>1, <1>2 DEF Inv, Fields
<1>4. OneName'
  BY <1>1, <1>2, DownFields DEF Inv, OneName, Up
<1>5. FirstMessage'
  BY <1>2, DownFields DEF Inv, FirstMessage
<1> QED BY <1>3, <1>4, <1>5 DEF Inv

\* One crashes, or is never made; its block and the name stay.
LEMMA CrashKeeps ==
  ASSUME Inv, NEW p \in Publishers, NoEstimate(p) \/ Crash(p)
  PROVE  Inv'
<1>1. /\ UNCHANGED <<name, block, sub, memory, withdrawn>>
      /\ pub' = [pub EXCEPT ![p] = Down(p)]
  BY DEF NoEstimate, Crash
<1>2. /\ pub' = [q \in Publishers |-> pub'[q]] /\ \A q \in Publishers : IsPub(pub'[q])
      /\ pub'[p] = Down(p) /\ \A q \in Publishers : q # p => pub'[q] = pub[q]
  BY <1>1, DownFields, PubChanges DEF Inv
<1>3. Fields'
  BY <1>1, <1>2 DEF Inv, Fields
<1>4. OneName'
  BY <1>1, <1>2, DownFields DEF Inv, OneName, Up
<1>5. FirstMessage'
  BY <1>2, DownFields DEF Inv, FirstMessage
<1> QED BY <1>3, <1>4, <1>5 DEF Inv

\* What the subscription does leaves the publishers alone.
LEMMA SubscriptionKeeps ==
  ASSUME Inv, Subscribe \/ StopSubscription \/ (\E t \in Threads : Reader(t)) \/ UNCHANGED vars
  PROVE  Inv'
<1>1. /\ UNCHANGED <<name, block, pub, withdrawn>>
      /\ sub' = "up" => memory' = name \/ (sub = "up" /\ memory' = memory)
  BY DEF Subscribe, StopSubscription, Reader, Read, DecodeStep, DecodeRaises, Deliver, vars
<1>2. Fields' /\ FirstMessage'
  BY <1>1 DEF Inv, Fields, FirstMessage
<1>3. OneName'
  BY <1>1 DEF Inv, OneName, Up
<1> QED BY <1>2, <1>3 DEF Inv


\* What holds before any publisher is made.
LEMMA Initially ==
  ASSUME Init
  PROVE  Inv
<1>1. /\ \A p \in Publishers : pub[p] = NewPub /\ block[p] = NoBlock
      /\ pub = [p \in Publishers |-> pub[p]] /\ block = [p \in Publishers |-> block[p]]
      /\ name = None /\ sub = "new"
  BY DEF Init
<1>2. IsPub(NewPub) /\ NewPub.at = "new"
  BY DEF NewPub, IsPub
<1>3. IsBlock(NoBlock)
  BY DEF NoBlock, IsBlock
<1>4. Fields
  BY <1>1, <1>2, <1>3 DEF Fields
<1>5. OneName /\ FirstMessage
  BY <1>1, <1>2 DEF OneName, FirstMessage, Up
<1> QED BY <1>4, <1>5 DEF Inv

\* Every step of a publisher, of the subscription or of nobody.
LEMMA Inductive ==
  ASSUME Inv, [Next]_vars
  PROVE  Inv'
<1>1. ASSUME NEW p \in Publishers, Publisher(p)
      PROVE  Inv'
  BY <1>1, CreateKeeps, SizeKeeps, OpenKeeps, BeginKeeps, StepKeeps, StopKeeps, CrashKeeps
    DEF Publisher
<1> QED BY <1>1, SubscriptionKeeps DEF Next

\* The inductive invariant holds in every behaviour of the topic.
THEOREM Invariance == Spec => []Inv
<1>1. Init => Inv
  BY Initially
<1>2. Inv /\ [Next]_vars => Inv'
  BY Inductive
<1> QED BY <1>1, <1>2, PTL DEF Spec

\* As long as no creator has removed its block, all publishers that are up and
\* the subscription use one block, which has a size and is the one the name
\* leads to: creating and sizing a block are two steps (publisher.py), others
\* may open it in between, and any of them may crash.
THEOREM OneBlockForAll == Spec => []OneBlock
<1>1. Inv => OneBlock
  BY DEF Inv, OneName, OneBlock
<1> QED BY <1>1, Invariance, PTL

-----------------------------------------------------------------------------
(* What the blocks, the publishers and the readers hold.                   *)

\* Who is up uses a block that has a size; before a block has one it is new.
Places ==
  /\ name \in Publishers \cup {None}
  /\ \A p \in Publishers :
       /\ pub[p].sent \in Nat
       /\ pub[p].at \in {"new", "open", "size"} => block[p] = NoBlock
       /\ pub[p].at = "size" => pub[p].block = p
       /\ Up(p) => pub[p].block \in Publishers /\ block[pub[p].block].size > 0

Writing(p) == pub[p].at = "writing"

\* The first k cells of its message are copied.
Copied(p, k) ==
  pub[p].todo = SubSeq(Encode(pub[p].topic), k + 1, Len(pub[p].topic) + 1)

\* Who writes alone has in the block what it has copied.
Writers ==
  \A p \in Publishers : Writing(p) =>
    /\ IsMessage(pub[p].topic) /\ pub[p].topic # <<>>
    /\ block[pub[p].block].whole = None
    /\ \E k \in 0..Len(pub[p].topic) :
         /\ Copied(p, k)
         /\ pub[p].alone => Holds(block[pub[p].block].mem, pub[p].topic, k)

OneWriter ==
  \A p, q \in Publishers :
    /\ Writing(p) /\ pub[p].alone
    /\ Writing(q) /\ pub[q].block = pub[p].block
    => q = p

\* The message that a block is said to hold is there as a whole.
Whole(b) ==
  \/ b.whole = None
  \/ b.whole = <<>> /\ b.mem = Zeros
  \/ b.whole # <<>> /\ IsMessage(b.whole) /\ Holds(b.mem, b.whole, Len(b.whole) + 1)

Blocks == \A p \in Publishers : IsMemory(block[p].mem) /\ Whole(block[p])

IsReader(r) == {"at", "todo", "ok", "of"} \subseteq DOMAIN r

\* Of a block that nobody has written to, nothing is read.
Subscribed ==
  /\ reader = [t \in Threads |-> reader[t]] /\ \A t \in Threads : IsReader(reader[t])
  /\ memory # None => memory \in Publishers /\ block[memory].size > 0
  /\ sub = "new" =>
       memory = None /\ DOMAIN topic = {} /\ \A t \in Threads : reader[t] = NoReader
  /\ memory # None /\ block[memory].whole = <<>> =>
       DOMAIN topic = {} /\ \A t \in Threads : reader[t].todo = <<>>

\* The struct has the first k attributes of a message.
Known(m, k) == \A i \in 1..k : m[i].key \in DOMAIN topic /\ topic[m[i].key] = m[i].value

\* A thread that no other disturbed has those it has decoded.
Decoding(r) ==
  \/ r.of = None
  \/ r.of = <<>> /\ r.todo = <<>> /\ DOMAIN topic = {}
  \/ /\ r.of # <<>> /\ IsMessage(r.of)
     /\ \E k \in 0..Len(r.of) : r.todo = SubSeq(r.of, k + 1, Len(r.of)) /\ Known(r.of, k)

Readers == \A t \in Threads : reader[t].at = "decoding" => Decoding(reader[t])

Contained == Places /\ Writers /\ OneWriter /\ Blocks /\ Subscribed /\ Readers

\* A publisher that does not write comes or goes.
LEMMA PubMoves ==
  ASSUME Inv, Contained, NEW p \in Publishers, NEW r, IsPub(r), pub' = [pub EXCEPT ![p] = r],
         UNCHANGED <<block, sub, memory, topic, reader>>, name' \in Publishers \cup {None},
         r.at # "writing", r.sent \in Nat,
         r.at \in {"new", "open", "size"} => block[p] = NoBlock,
         r.at = "size" => r.block = p,
         r.at = "up" => r.block \in Publishers /\ block[r.block].size > 0
  PROVE  Contained'
<1>1. /\ pub'[p] = r /\ \A q \in Publishers : q # p => pub'[q] = pub[q]
  BY PubChanges DEF Inv
<1>2. Places'
  BY <1>1 DEF Contained, Places, Up
<1>3. Writers'
  <2> SUFFICES ASSUME NEW q \in Publishers, Writing(q)'
               PROVE  /\ IsMessage(pub'[q].topic) /\ pub'[q].topic # <<>>
                      /\ block'[pub'[q].block].whole = None
                      /\ \E k \in 0..Len(pub'[q].topic) :
                           /\ Copied(q, k)'
                           /\ pub'[q].alone => Holds(block'[pub'[q].block].mem, pub'[q].topic, k)
    BY Zenon DEF Writers
  <2>1. pub'[q] = pub[q] /\ Writing(q)
    BY <1>1 DEF Writing
  <2> QED BY <2>1 DEF Contained, Writers, Copied
<1>4. OneWriter'
  BY <1>1 DEF Contained, OneWriter, Writing
<1>5. Blocks' /\ Subscribed' /\ Readers'
  BY DEF Contained, Blocks, Whole, Subscribed, Readers, Decoding, Known
<1> QED BY <1>2, <1>3, <1>4, <1>5 DEF Contained

\* What stopping or crashing leaves of it.
LEMMA DownSent ==
  ASSUME Contained, NEW p \in Publishers
  PROVE  Down(p).sent \in Nat
BY DEF Down, NewPub, Contained, Places

LEMMA ComesAndGoes ==
  ASSUME Inv, Contained, NEW p \in Publishers,
         \/ NoEstimate(p) \/ CreateMemory(p) \/ OpenMemory(p)
         \/ StopPublisher(p) \/ Crash(p)
  PROVE  Contained'
<1>0. IsPub(pub[p]) /\ pub[p].sent \in Nat
  BY DEF Inv, Fields, Contained, Places
<1>1. CASE CreateMemory(p)
  <2>1. /\ pub[p].at = "new" /\ UNCHANGED <<block, sub, memory, topic, reader>>
        /\ block[p] = NoBlock
    BY <1>1 DEF CreateMemory, Contained, Places
  <2>2. CASE name = None
    <3>1. PICK c \in Contents :
            /\ name' = p
            /\ pub' = [pub EXCEPT ![p].at = "size", ![p].block = p, ![p].topic = Message(p, 0, c)]
      BY <1>1, <2>2, Creates
    <3> DEFINE m == Message(p, 0, c)
               r == [pub[p] EXCEPT !.at = "size", !.block = p, !.topic = m]
    <3> HIDE DEF m
    <3>2. IsPub(r) /\ r.at = "size" /\ r.block = p /\ r.sent = pub[p].sent
      BY <1>0 DEF IsPub
    <3>3. pub' = [pub EXCEPT ![p] = r]
      BY <3>1 DEF m
    <3> HIDE DEF r
    <3> QED BY <1>0, <2>1, <3>1, <3>2, <3>3, PubMoves
  <2>3. CASE name # None
    <3> DEFINE r == [pub[p] EXCEPT !.at = "open"]
    <3>1. UNCHANGED name /\ pub' = [pub EXCEPT ![p] = r]
      BY <1>1, <2>3, Creates
    <3>2. IsPub(r) /\ r.at = "open" /\ r.sent = pub[p].sent
      BY <1>0 DEF IsPub
    <3>3. name' \in Publishers \cup {None}
      BY <3>1 DEF Contained, Places
    <3> HIDE DEF r
    <3> QED BY <1>0, <2>1, <3>1, <3>2, <3>3, PubMoves
  <2> QED BY <2>2, <2>3
<1>2. CASE OpenMemory(p)
  <2> DEFINE r == IF name = None \/ block[name].size = 0
                    THEN Down(p)
                    ELSE [pub[p] EXCEPT !.at = "up", !.block = name, !.topic = <<>>]
  <2>1. pub' = [pub EXCEPT ![p] = r] /\ UNCHANGED <<name, block, sub, memory, topic, reader>>
    BY <1>2 DEF OpenMemory
  <2>2. /\ IsPub(r) /\ r.at \in {"down", "up"} /\ r.sent \in Nat
        /\ r.at = "up" => r.block = name /\ name # None /\ block[name].size # 0
    <3>1. CASE name = None \/ block[name].size = 0
      <4>1. r = Down(p)
        BY <3>1
      <4> HIDE DEF r
      <4> QED BY <4>1, DownFields, DownSent
    <3>2. CASE ~(name = None \/ block[name].size = 0)
      BY <1>0, <3>2 DEF IsPub
    <3> QED BY <3>1, <3>2
  <2> HIDE DEF r
  <2>3. name \in Publishers \cup {None}
    BY DEF Contained, Places
  <2>4. r.at = "up" => r.block \in Publishers /\ block[r.block].size > 0
    <3>1. \A q \in Publishers : block[q].size \in Nat
      BY DEF Inv, Fields, IsBlock
    <3> QED BY <2>2, <2>3, <3>1
  <2> QED BY <2>1, <2>2, <2>3, <2>4, PubMoves
<1>3. CASE NoEstimate(p) \/ StopPublisher(p) \/ Crash(p)
  <2>1. /\ pub' = [pub EXCEPT ![p] = Down(p)] /\ UNCHANGED <<block, sub, memory, topic, reader>>
        /\ name' = None \/ name' = name
    BY <1>3 DEF NoEstimate, StopPublisher, Crash
  <2>2. name' \in Publishers \cup {None}
    BY <2>1 DEF Contained, Places
  <2> QED BY <2>1, <2>2, DownFields, DownSent, PubMoves
<1> QED BY <1>1, <1>2, <1>3

\* The block gets its size: nobody uses it yet.
LEMMA SizeContains ==
  ASSUME Inv, Contained, NEW p \in Publishers, SizeMemory(p)
  PROVE  Contained'
<1> DEFINE s == ApproximateSize(pub[p].topic)
           b == [block[p] EXCEPT !.size = s, !.made = pub[p].topic, !.whole = <<>>]
           r == [pub[p] EXCEPT !.at = "up", !.topic = <<>>]
<1>1. /\ pub[p].at = "size" /\ IsPub(pub[p]) /\ IsBlock(block[p])
      /\ UNCHANGED <<name, sub, memory, topic, reader>>
      /\ block[p] = NoBlock /\ pub[p].block = p /\ pub[p].sent \in Nat
  BY DEF SizeMemory, Inv, Fields, Contained, Places
<1>2. s \in Nat \ {0}
  <2>1. PICK c \in Contents : pub[p].topic = Message(p, 0, c)
    BY <1>1 DEF Inv, FirstMessage
  <2>2. 0 \in 0..(MaxPublish + 1)
    BY SharedTopicAssumption
  <2>3. IsMessage(pub[p].topic)
    BY <2>1, <2>2, MessagesAssumption
  <2> QED BY <2>3, ApproximateSizes
<1>3. block' = [block EXCEPT ![p] = b] /\ pub' = [pub EXCEPT ![p] = r]
  BY DEF SizeMemory
<1>4. IsBlock(b) /\ b.size = s /\ b.whole = <<>> /\ b.mem = Zeros
  <2> HIDE DEF s
  <2>1. block[p].mem = Zeros
    BY <1>1 DEF NoBlock
  <2> QED BY <1>1, <1>2, <2>1 DEF IsBlock
<1>5. IsPub(r) /\ r.at = "up" /\ r.block = p /\ r.sent \in Nat
  BY <1>1 DEF IsPub
<1> HIDE DEF s, b, r
<1>6. \A q \in Publishers : block'[q] = IF q = p THEN b ELSE block[q]
  BY <1>3, <1>4, BlockChanges DEF Inv
<1>7. pub'[p] = r /\ \A q \in Publishers : q # p => pub'[q] = pub[q]
  BY <1>3, <1>5, PubChanges DEF Inv
<1>8. block[p].size = 0
  BY <1>1 DEF NoBlock
<1>9. \A q \in Publishers : Up(q) => pub[q].block # p /\ block'[pub[q].block] = block[pub[q].block]
  BY <1>6, <1>8 DEF Contained, Places
<1>10. memory # None => memory # p /\ block'[memory] = block[memory]
  BY <1>6, <1>8 DEF Contained, Subscribed
<1>11. Places'
  <2>1. b.size > 0
    BY <1>2, <1>4
  <2>2. ASSUME NEW q \in Publishers, q # p
        PROVE  /\ pub'[q].sent \in Nat
               /\ pub'[q].at \in {"new", "open", "size"} => block'[q] = NoBlock
               /\ pub'[q].at = "size" => pub'[q].block = q
               /\ Up(q)' => pub'[q].block \in Publishers /\ block'[pub'[q].block].size > 0
    <3>1. pub'[q] = pub[q] /\ block'[q] = block[q] /\ (Up(q)' => Up(q))
      BY <1>6, <1>7, <2>2 DEF Up
    <3> QED BY <1>9, <3>1 DEF Contained, Places
  <2> QED BY <1>1, <1>5, <1>6, <1>7, <2>1, <2>2 DEF Contained, Places
<1>12. Writers'
  <2> SUFFICES ASSUME NEW q \in Publishers, Writing(q)'
               PROVE  /\ IsMessage(pub'[q].topic) /\ pub'[q].topic # <<>>
                      /\ block'[pub'[q].block].whole = None
                      /\ \E k \in 0..Len(pub'[q].topic) :
                           /\ Copied(q, k)'
                           /\ pub'[q].alone => Holds(block'[pub'[q].block].mem, pub'[q].topic, k)
    BY Zenon DEF Writers
  <2>1. pub'[q] = pub[q] /\ Writing(q) /\ block'[pub[q].block] = block[pub[q].block]
    BY <1>5, <1>7, <1>9 DEF Writing, Up
  <2> QED BY <2>1 DEF Contained, Writers, Copied
<1>13. OneWriter'
  BY <1>5, <1>7 DEF Contained, OneWriter, Writing
<1>14. Blocks'
  BY <1>4, <1>6, NewMemory DEF Contained, Blocks, Whole
<1>15. Subscribed' /\ Readers'
  BY <1>1, <1>10 DEF Contained, Subscribed, Readers, Decoding, Known
<1> QED BY <1>11, <1>12, <1>13, <1>14, <1>15 DEF Contained

\* A message is begun: whoever writes to the same block is no longer alone.
LEMMA BeginContains ==
  ASSUME Inv, Contained, NEW p \in Publishers, PublishBegin(p)
  PROVE  Contained'
<1> DEFINE bb     == pub[p].block
           others == {q \in Publishers : pub[q].at = "writing" /\ pub[q].block = bb}
           n      == pub[p].sent + 1
<1>1. PICK c \in Contents :
        pub' = [q \in Publishers |->
          IF q = p THEN [pub[p] EXCEPT !.at = "writing", !.topic = Message(p, n, c),
                                       !.sent = @ + 1,
                                       !.todo = Encode(Message(p, n, c)),
                                       !.alone = others = {}]
          ELSE IF q \in others THEN [pub[q] EXCEPT !.alone = FALSE]
          ELSE pub[q]]
  BY DEF PublishBegin
<1>2. /\ pub[p].at = "up" /\ block' = [block EXCEPT ![bb].whole = None]
      /\ pub[p].sent < MaxPublish
      /\ UNCHANGED <<name, sub, memory, topic, reader>>
  BY DEF PublishBegin
<1> DEFINE m == Message(p, n, c)
           e == Encode(m)
           a == others = {}
<1>3. /\ pub[p].sent \in Nat /\ n \in 0..(MaxPublish + 1) /\ IsMessage(m) /\ m # <<>>
      /\ bb \in Publishers
  <2>1. pub[p].sent \in Nat /\ MaxPublish \in Nat /\ bb \in Publishers
    BY <1>2, SharedTopicAssumption DEF Contained, Places, Up
  <2>2. n \in 0..(MaxPublish + 1)
    BY <1>2, <2>1
  <2> QED BY <2>1, <2>2, MessagesAssumption
<1>4. /\ IsPub(pub'[p]) /\ pub'[p].at = "writing" /\ pub'[p].block = bb
      /\ pub'[p].topic = m /\ pub'[p].todo = e /\ pub'[p].alone = a /\ pub'[p].sent \in Nat
  <2>1. pub'[p] = [pub[p] EXCEPT !.at = "writing", !.topic = m, !.sent = n, !.todo = e, !.alone = a]
    BY <1>1
  <2>2. n \in Nat
    BY <1>3
  <2> HIDE DEF m, e, a, n
  <2>3. IsPub(pub[p])
    BY DEF Inv, Fields
  <2> QED BY <2>1, <2>2, <2>3 DEF IsPub
<1>5. ASSUME NEW q \in Publishers, q # p
      PROVE  /\ IsPub(pub'[q]) /\ pub'[q].at = pub[q].at /\ pub'[q].block = pub[q].block
             /\ pub'[q].topic = pub[q].topic /\ pub'[q].todo = pub[q].todo
             /\ pub'[q].sent = pub[q].sent
             /\ q \in others => pub'[q].alone = FALSE
             /\ q \notin others => pub'[q].alone = pub[q].alone
  <2>1. \/ q \in others /\ pub'[q] = [pub[q] EXCEPT !.alone = FALSE]
        \/ q \notin others /\ pub'[q] = pub[q]
    BY <1>1, <1>5
  <2>2. IsPub(pub[q])
    BY DEF Inv, Fields
  <2> HIDE DEF others
  <2> QED BY <2>1, <2>2 DEF IsPub
<1> DEFINE b == [block[bb] EXCEPT !.whole = None]
<1>6. /\ \A q \in Publishers : block'[q] = IF q = bb THEN b ELSE block[q]
      /\ b.size = block[bb].size /\ b.mem = block[bb].mem /\ b.whole = None
  <2>1. IsBlock(block[bb])
    BY <1>3 DEF Inv, Fields
  <2>2. /\ IsBlock(b) /\ b.size = block[bb].size /\ b.mem = block[bb].mem /\ b.whole = None
        /\ block' = [block EXCEPT ![bb] = b]
    BY <1>2, <2>1 DEF IsBlock
  <2> HIDE DEF b
  <2> QED BY <2>2, BlockChanges DEF Inv
<1> HIDE DEF b
<1>7. \A q \in Publishers :
        /\ block'[q].size = block[q].size /\ block'[q].mem = block[q].mem
        /\ block'[q].whole = None \/ (q # bb /\ block'[q] = block[q])
  BY <1>6
<1>8. Places'
  <2>1. \A q \in Publishers : pub[q].at \in {"new", "open", "size"} => q # bb
    <3>1. block[bb].size > 0
      BY <1>2 DEF Contained, Places, Up
    <3> QED BY <3>1 DEF Contained, Places, NoBlock
  <2>2. ASSUME NEW q \in Publishers, q # p
        PROVE  /\ pub'[q].sent \in Nat
               /\ pub'[q].at \in {"new", "open", "size"} => block'[q] = NoBlock
               /\ pub'[q].at = "size" => pub'[q].block = q
               /\ Up(q)' => pub'[q].block \in Publishers /\ block'[pub'[q].block].size > 0
    <3>1. /\ pub'[q].at = pub[q].at /\ pub'[q].block = pub[q].block /\ pub'[q].sent = pub[q].sent
          /\ Up(q)' => Up(q)
      BY <1>5, <2>2 DEF Up
    <3>2. /\ pub[q].sent \in Nat
          /\ pub[q].at \in {"new", "open", "size"} => block[q] = NoBlock
          /\ pub[q].at = "size" => pub[q].block = q
          /\ Up(q) => pub[q].block \in Publishers /\ block[pub[q].block].size > 0
      BY DEF Contained, Places
    <3>3. q # bb => block'[q] = block[q]
      BY <1>6
    <3> HIDE DEF bb
    <3> QED BY <1>7, <2>1, <3>1, <3>2, <3>3
  <2>3. /\ pub'[p].sent \in Nat /\ pub'[p].at = "writing"
        /\ pub'[p].block \in Publishers /\ block'[pub'[p].block].size > 0
    BY <1>2, <1>3, <1>4, <1>7 DEF Contained, Places, Up
  <2>4. name' \in Publishers \cup {None}
    BY <1>2 DEF Contained, Places
  <2> HIDE DEF bb, others, m, e, a, n
  <2> QED BY <2>2, <2>3, <2>4 DEF Places
<1>9. Writers'
  <2> SUFFICES ASSUME NEW q \in Publishers, Writing(q)'
               PROVE  /\ IsMessage(pub'[q].topic) /\ pub'[q].topic # <<>>
                      /\ block'[pub'[q].block].whole = None
                      /\ \E k \in 0..Len(pub'[q].topic) :
                           /\ Copied(q, k)'
                           /\ pub'[q].alone => Holds(block'[pub'[q].block].mem, pub'[q].topic, k)
    BY Zenon DEF Writers
  <2>1. CASE q = p
    <3>1. 0 \in 0..Len(m) /\ Len(e) = Len(m) + 1 /\ e \in Seq({e[i] : i \in 1..Len(e)})
      <4>1. Len(e) = Len(m) + 1 /\ e = [i \in 1..(Len(m) + 1) |-> e[i]] /\ Len(m) \in Nat
        BY <1>3, MessageSized, Cells DEF Sized
      <4> HIDE DEF e, m
      <4> QED BY <4>1
    <3>2. SubSeq(e, 0 + 1, Len(m) + 1) = e
      <4> HIDE DEF e, m
      <4>1. SubSeq(e, 1, Len(e)) = e
        BY <3>1, SubSeqFull
      <4> QED BY <3>1, <4>1
    <3>3. Copied(q, 0)'
      BY <1>4, <2>1, <3>2 DEF Copied
    <3>4. Holds(block'[pub'[q].block].mem, pub'[q].topic, 0)
      BY DEF Holds
    <3>5. block'[bb].whole = None
      BY <1>3, <1>7
    <3> HIDE DEF m, e
    <3> QED BY <1>3, <1>4, <2>1, <3>1, <3>3, <3>4, <3>5
  <2>2. CASE q # p
    <3>1. /\ Writing(q) /\ pub'[q].block = pub[q].block /\ pub'[q].topic = pub[q].topic
          /\ pub'[q].todo = pub[q].todo /\ (pub'[q].alone => pub[q].alone)
      BY <1>5, <2>2 DEF Writing
    <3>2. pub[q].block \in Publishers
      BY <3>1 DEF Contained, Places, Up, Writing
    <3>3. /\ block'[pub[q].block].mem = block[pub[q].block].mem
          /\ block'[pub[q].block].whole = None \/ block'[pub[q].block] = block[pub[q].block]
      BY <1>7, <3>2
    <3> QED BY <3>1, <3>3 DEF Contained, Writers, Copied
  <2> QED BY <2>1, <2>2
<1>10. OneWriter'
  <2> SUFFICES ASSUME NEW q \in Publishers, NEW w \in Publishers,
                      Writing(q)', pub'[q].alone, Writing(w)', pub'[w].block = pub'[q].block
               PROVE  w = q
    BY DEF OneWriter
  <2>1. CASE q = p
    <3>1. others = {}
      BY <1>4, <2>1
    <3>2. w # p => w \in others
      BY <1>4, <1>5, <2>1 DEF Writing
    <3> QED BY <2>1, <3>1, <3>2
  <2>2. CASE q # p
    <3>1. q \notin others /\ Writing(q) /\ pub[q].alone
      BY <1>5, <2>2 DEF Writing
    <3>2. pub[q].block # bb
      BY <3>1 DEF Writing
    <3>3. w # p
      <4>1. pub'[q].block = pub[q].block /\ pub'[p].block = bb
        BY <1>4, <1>5, <2>2
      <4> QED BY <3>2, <4>1
    <3>4. Writing(w) /\ pub[w].block = pub[q].block
      BY <1>5, <2>2, <3>3 DEF Writing
    <3> QED BY <3>1, <3>4 DEF Contained, OneWriter
  <2> QED BY <2>1, <2>2
<1>11. Blocks'
  <2>1. \A q \in Publishers : IsMemory(block[q].mem) /\ Whole(block[q])
    BY DEF Contained, Blocks
  <2> QED BY <1>7, <2>1 DEF Blocks, Whole
<1>12. Subscribed' /\ Readers'
  <2>1. None # <<>>
    BY SharedTopicAssumption
  <2>2. memory # None => /\ memory \in Publishers /\ block'[memory].size > 0
                         /\ block'[memory].whole = None \/ block'[memory] = block[memory]
    BY <1>7 DEF Contained, Subscribed
  <2> QED BY <1>2, <2>1, <2>2 DEF Contained, Subscribed, Readers, Decoding, Known
<1> QED BY <1>8, <1>9, <1>10, <1>11, <1>12 DEF Contained

\* A cell is copied. Others that write to the block are not alone in it.
LEMMA StepContains ==
  ASSUME Inv, Contained, NEW p \in Publishers, PublishStep(p)
  PROVE  Contained'
<1> DEFINE bb   == pub[p].block
           m    == pub[p].topic
           todo == pub[p].todo
           last == Len(todo) = 1
           mem  == Write(block[bb].mem, Head(todo))
           w    == IF last /\ pub[p].alone THEN m ELSE block[bb].whole
           b    == [block[bb] EXCEPT !.mem = mem, !.whole = w]
           r    == IF last
                     THEN [pub[p] EXCEPT !.at = "up", !.topic = <<>>, !.todo = <<>>, !.alone = TRUE]
                     ELSE [pub[p] EXCEPT !.todo = Tail(todo)]
<1>1. /\ Writing(p) /\ IsPub(pub[p]) /\ bb \in Publishers /\ IsBlock(block[bb])
      /\ IsMessage(m) /\ m # <<>> /\ block[bb].whole = None /\ pub[p].sent \in Nat
      /\ block[bb].size > 0 /\ IsMemory(block[bb].mem)
      /\ UNCHANGED <<name, sub, memory, topic, reader>>
  <2>1. Writing(p) /\ UNCHANGED <<name, sub, memory, topic, reader>>
    BY DEF PublishStep, Writing
  <2>2. bb \in Publishers /\ block[bb].size > 0 /\ pub[p].sent \in Nat
    BY <2>1 DEF Contained, Places, Writing, Up
  <2>3. IsMessage(m) /\ m # <<>> /\ block[bb].whole = None
    BY <2>1 DEF Contained, Writers
  <2>4. IsPub(pub[p]) /\ IsBlock(block[bb])
    BY <2>2 DEF Inv, Fields
  <2>5. IsMemory(block[bb].mem)
    BY <2>2 DEF Contained, Blocks
  <2> QED BY <2>1, <2>2, <2>3, <2>4, <2>5
<1>2. pub' = [pub EXCEPT ![p] = r]
  BY DEF PublishStep
<1>3. block' = [block EXCEPT ![bb] = b]
  <2>1. block' = [block EXCEPT ![bb].mem = Write(@, Head(pub[p].todo)),
                               ![bb].whole = IF last /\ pub[p].alone THEN pub[p].topic ELSE @]
    BY DEF PublishStep
  <2>2. block = [q \in Publishers |-> block[q]]
    BY DEF Inv, Fields
  <2> QED BY <1>1, <2>1, <2>2 DEF IsBlock
<1>4. PICK k \in 0..Len(m) :
        todo = SubSeq(Encode(m), k + 1, Len(m) + 1) /\ (pub[p].alone => Holds(block[bb].mem, m, k))
  BY <1>1 DEF Contained, Writers, Copied
<1>5. /\ Len(m) \in Nat /\ Sized(m) /\ k + 1 \in 1..(Len(m) + 1)
      /\ Head(todo) = Encode(m)[k + 1] /\ (last <=> k = Len(m))
      /\ Tail(todo) = SubSeq(Encode(m), (k + 1) + 1, Len(m) + 1)
  <2> DEFINE e == Encode(m)
             S == {e[i] : i \in 1..Len(e)}
  <2>1. Len(e) = Len(m) + 1 /\ e = [i \in 1..(Len(m) + 1) |-> e[i]] /\ Len(m) \in Nat /\ Sized(m)
    BY <1>1, MessageSized, Cells DEF Sized
  <2>2. k + 1 \in 1..(Len(m) + 1) /\ k \in 0..(Len(e) - 1)
    BY <2>1
  <2>3. e \in Seq(S)
    <3> HIDE DEF e, m
    <3> QED BY <2>1
  <2>4. /\ Head(todo) = e[k + 1] /\ Len(todo) = (Len(m) + 1) - k
        /\ Tail(todo) = SubSeq(e, (k + 1) + 1, Len(m) + 1)
    <3> HIDE DEF S, e, m, todo
    <3>1. LET s == SubSeq(e, k + 1, Len(e))
          IN /\ Head(s) = e[k + 1] /\ Len(s) = Len(e) - k
             /\ Tail(s) = SubSeq(e, (k + 1) + 1, Len(e))
      BY <2>2, <2>3, Rest
    <3>2. todo = SubSeq(e, k + 1, Len(e))
      BY <1>4, <2>1 DEF e
    <3> QED BY <2>1, <3>1, <3>2
  <2>5. last <=> k = Len(m)
    <3> HIDE DEF S, e, m, todo
    <3> QED BY <2>1, <2>2, <2>4
  <2> QED BY <2>1, <2>2, <2>4, <2>5
<1>6. /\ IsMemory(mem)
      /\ pub[p].alone => Holds(mem, m, k + 1)
  <2> DEFINE c == Head(todo)
  <2>1. c.at \in Nat /\ c.size \in Nat /\ (c.at = 0 => c.cell \in Nat)
    BY <1>5, CellTypes
  <2>2. IsMemory(mem)
    <3> HIDE DEF c
    <3>1. IsMemory(Write(block[bb].mem, c))
      BY <1>1, <2>1, WriteMemory
    <3> QED BY <3>1 DEF c
  <2>3. pub[p].alone => Holds(mem, m, k + 1)
    BY <1>4, <1>5, WriteHolds
  <2> QED BY <2>2, <2>3
<1>7. /\ IsBlock(b) /\ b.size = block[bb].size /\ b.mem = mem /\ b.whole = w
  <2> HIDE DEF mem, w
  <2> QED BY <1>1 DEF IsBlock
<1>8. w = None \/ (last /\ pub[p].alone /\ w = m)
  BY <1>1
<1>9. /\ IsPub(r) /\ r.block = bb /\ r.sent = pub[p].sent
      /\ last => r.at = "up"
      /\ ~last => /\ r.at = "writing" /\ r.topic = m /\ r.alone = pub[p].alone
                  /\ r.todo = SubSeq(Encode(m), (k + 1) + 1, Len(m) + 1)
  <2> DEFINE t == Tail(todo)
  <2>1. CASE last
    <3>1. r = [pub[p] EXCEPT !.at = "up", !.topic = <<>>, !.todo = <<>>, !.alone = TRUE]
      BY <2>1
    <3> HIDE DEF r, last
    <3> QED BY <1>1, <2>1, <3>1 DEF IsPub
  <2>2. CASE ~last
    <3>1. r = [pub[p] EXCEPT !.todo = t]
      BY <2>2
    <3>2. t = SubSeq(Encode(m), (k + 1) + 1, Len(m) + 1)
      BY <1>5
    <3> HIDE DEF r, last, t
    <3>3. IsPub(r) /\ r.block = bb /\ r.sent = pub[p].sent /\ r.at = pub[p].at
          /\ r.topic = m /\ r.alone = pub[p].alone /\ r.todo = t
      BY <1>1, <3>1 DEF IsPub
    <3> QED BY <1>1, <2>2, <3>2, <3>3 DEF Writing
  <2> QED BY <2>1, <2>2
<1> HIDE DEF b, r, w, mem
<1>10. \A q \in Publishers : block'[q] = IF q = bb THEN b ELSE block[q]
  BY <1>3, <1>7, BlockChanges DEF Inv
<1>11. pub'[p] = r /\ \A q \in Publishers : q # p => pub'[q] = pub[q]
  BY <1>2, <1>9, PubChanges DEF Inv
<1>12. \A q \in Publishers : block'[q].size = block[q].size
  BY <1>7, <1>10
<1>13. \A q \in Publishers \ {p} :
         Writing(q) /\ pub[q].block = bb => ~pub[p].alone /\ ~pub[q].alone
  BY <1>1 DEF Contained, OneWriter
<1> HIDE DEF bb, m, todo, last
<1>14. Places'
  <2>1. \A q \in Publishers : pub[q].at \in {"new", "open", "size"} => q # bb
    BY <1>1 DEF Contained, Places, NoBlock
  <2>2. ASSUME NEW q \in Publishers, q # p
        PROVE  /\ pub'[q].sent \in Nat
               /\ pub'[q].at \in {"new", "open", "size"} => block'[q] = NoBlock
               /\ pub'[q].at = "size" => pub'[q].block = q
               /\ Up(q)' => pub'[q].block \in Publishers /\ block'[pub'[q].block].size > 0
    <3>1. pub'[q] = pub[q] /\ (Up(q)' => Up(q))
      BY <1>11, <2>2 DEF Up
    <3> QED BY <1>10, <1>12, <2>1, <3>1 DEF Contained, Places
  <2>3. r.at \in {"up", "writing"}
    BY <1>9
  <2> QED BY <1>1, <1>9, <1>11, <1>12, <2>2, <2>3 DEF Contained, Places
<1>15. Writers'
  <2> SUFFICES ASSUME NEW q \in Publishers, Writing(q)'
               PROVE  /\ IsMessage(pub'[q].topic) /\ pub'[q].topic # <<>>
                      /\ block'[pub'[q].block].whole = None
                      /\ \E l \in 0..Len(pub'[q].topic) :
                           /\ Copied(q, l)'
                           /\ pub'[q].alone => Holds(block'[pub'[q].block].mem, pub'[q].topic, l)
    BY Zenon DEF Writers
  <2>1. CASE q = p
    <3>1. pub'[q] = r /\ ~last
      BY <1>9, <1>11, <2>1 DEF Writing
    <3>2. block'[bb].whole = None /\ block'[bb].mem = mem
      BY <1>1, <1>7, <1>8, <1>10, <3>1
    <3>3. k + 1 \in 0..Len(m)
      BY <1>5, <3>1
    <3>4. r.topic = m /\ r.block = bb /\ r.alone = pub[p].alone
          /\ r.todo = SubSeq(Encode(m), (k + 1) + 1, Len(m) + 1)
      BY <1>9, <3>1
    <3>5. Copied(q, k + 1)'
      BY <3>1, <3>4 DEF Copied
    <3>6. pub'[q].alone => Holds(block'[pub'[q].block].mem, pub'[q].topic, k + 1)
      BY <1>6, <3>1, <3>2, <3>4
    <3>7. IsMessage(pub'[q].topic) /\ pub'[q].topic # <<>> /\ block'[pub'[q].block].whole = None
      BY <1>1, <3>1, <3>2, <3>4
    <3>8. k + 1 \in 0..Len(pub'[q].topic)
      BY <3>1, <3>3, <3>4
    <3> QED BY <3>5, <3>6, <3>7, <3>8
  <2>2. CASE q # p
    <3>1. pub'[q] = pub[q] /\ Writing(q)
      BY <1>11, <2>2 DEF Writing
    <3>2. /\ IsMessage(pub[q].topic) /\ pub[q].topic # <<>> /\ pub[q].block \in Publishers
          /\ block[pub[q].block].whole = None
      BY <3>1 DEF Contained, Writers, Places, Up, Writing
    <3>3. PICK l \in 0..Len(pub[q].topic) :
            Copied(q, l) /\ (pub[q].alone => Holds(block[pub[q].block].mem, pub[q].topic, l))
      BY <3>1 DEF Contained, Writers
    <3>4. Copied(q, l)'
      BY <3>1, <3>3 DEF Copied
    <3>5. CASE pub[q].block = bb
      <4>1. ~pub[p].alone /\ ~pub[q].alone
        BY <1>13, <2>2, <3>1, <3>5
      <4>2. block'[pub[q].block].whole = None
        BY <1>1, <1>7, <1>8, <1>10, <3>5, <4>1
      <4> QED BY <3>1, <3>2, <3>4, <4>1, <4>2
    <3>6. CASE pub[q].block # bb
      <4>1. block'[pub[q].block] = block[pub[q].block]
        BY <1>10, <3>2, <3>6
      <4> QED BY <3>1, <3>2, <3>3, <3>4, <4>1
    <3> QED BY <3>5, <3>6
  <2> QED BY <2>1, <2>2
<1>16. OneWriter'
  <2> SUFFICES ASSUME NEW q \in Publishers, NEW u \in Publishers,
                      Writing(q)', pub'[q].alone, Writing(u)', pub'[u].block = pub'[q].block
               PROVE  u = q
    BY DEF OneWriter
  <2>1. ASSUME NEW v \in Publishers, Writing(v)'
        PROVE  Writing(v) /\ pub'[v].block = pub[v].block /\ pub'[v].alone = pub[v].alone
    <3>1. CASE v = p
      <4>1. ~last
        BY <1>9, <1>11, <2>1, <3>1 DEF Writing
      <4> QED BY <1>1, <1>9, <1>11, <3>1, <4>1 DEF bb
    <3>2. CASE v # p
      BY <1>11, <2>1, <3>2 DEF Writing
    <3> QED BY <3>1, <3>2
  <2> QED BY <2>1 DEF Contained, OneWriter
<1>17. Blocks'
  <2>1. Whole(b)
    <3>1. CASE w = None
      BY <1>7, <3>1 DEF Whole
    <3>2. CASE last /\ pub[p].alone /\ w = m
      <4>1. Holds(b.mem, m, Len(m) + 1)
        BY <1>5, <1>6, <1>7, <3>2
      <4> QED BY <1>1, <1>7, <3>2, <4>1 DEF Whole
    <3> QED BY <1>8, <3>1, <3>2
  <2>2. IsMemory(b.mem)
    BY <1>6, <1>7
  <2>3. \A q \in Publishers : IsMemory(block[q].mem) /\ Whole(block[q])
    BY DEF Contained, Blocks
  <2>4. \A q \in Publishers : block'[q] = b \/ block'[q] = block[q]
    BY <1>10
  <2>5. ASSUME NEW q \in Publishers
        PROVE  IsMemory(block'[q].mem) /\ Whole(block'[q])
    <3>1. CASE block'[q] = b
      BY <2>1, <2>2, <3>1
    <3>2. CASE block'[q] = block[q]
      BY <2>3, <3>2
    <3> QED BY <2>4, <3>1, <3>2
  <2> QED BY <2>5 DEF Blocks, Whole
<1>18. Subscribed' /\ Readers'
  <2>1. b.whole # <<>>
    BY <1>1, <1>7, <1>8, SharedTopicAssumption
  <2>2. memory # None => /\ memory \in Publishers /\ block'[memory].size > 0
                         /\ block'[memory].whole # <<>> \/ block'[memory] = block[memory]
    BY <1>10, <1>12, <2>1 DEF Contained, Subscribed
  <2> QED BY <1>1, <2>2 DEF Contained, Subscribed, Readers, Decoding, Known
<1> QED BY <1>14, <1>15, <1>16, <1>17, <1>18 DEF Contained

-----------------------------------------------------------------------------
(* The steps of the subscription.                                          *)

\* They leave the publishers and the blocks alone.
LEMMA Untouched ==
  ASSUME Contained, UNCHANGED <<name, block, pub>>, Subscribed', Readers'
  PROVE  Contained'
BY DEF Contained, Places, Up, Writers, Writing, Copied, OneWriter, Blocks, Whole

\* It starts, and stops.
LEMMA SubscribeContains ==
  ASSUME Inv, Contained, Subscribe \/ StopSubscription
  PROVE  Contained'
<1>1. CASE Subscribe
  <2>1. /\ sub = "new" /\ sub' # "new" /\ UNCHANGED <<name, block, pub, topic, reader>>
        /\ memory' = memory \/ (memory' = name /\ (name # None => block[name].size # 0))
    BY <1>1 DEF Subscribe
  <2>2. memory = None /\ DOMAIN topic = {} /\ \A t \in Threads : reader[t] = NoReader
    BY <2>1 DEF Contained, Subscribed
  <2>3. memory' # None => memory' \in Publishers /\ block[memory'].size > 0
    <3>1. \A q \in Publishers : block[q].size \in Nat
      BY DEF Inv, Fields, IsBlock
    <3>2. memory' # None => memory' = name /\ name # None /\ block[name].size # 0
      BY <2>1, <2>2
    <3>3. name \in Publishers \cup {None}
      BY DEF Contained, Places
    <3> QED BY <3>1, <3>2, <3>3
  <2>4. \A t \in Threads : reader[t].todo = <<>> /\ reader[t].at # "decoding"
    BY <2>2 DEF NoReader
  <2>5. Subscribed'
    BY <2>1, <2>2, <2>3, <2>4 DEF Contained, Subscribed
  <2>6. Readers'
    BY <2>1, <2>4 DEF Readers
  <2> QED BY <2>1, <2>5, <2>6, Untouched
<1>2. CASE StopSubscription
  <2>1. sub' = "down" /\ UNCHANGED <<name, block, pub, memory, topic, reader>>
    BY <1>2 DEF StopSubscription
  <2>2. Subscribed' /\ Readers'
    BY <2>1 DEF Contained, Subscribed, Readers, Decoding, Known
  <2> QED BY <2>1, <2>2, Untouched
<1> QED BY <1>1, <1>2

\* One thread changes; the struct does not.
LEMMA ReaderMoves ==
  ASSUME Contained, NEW t \in Threads, NEW r, IsReader(r), reader' = [reader EXCEPT ![t] = r],
         UNCHANGED <<name, block, pub, sub, memory, topic>>, sub # "new",
         memory # None /\ block[memory].whole = <<>> => r.todo = <<>>,
         r.at = "decoding" => Decoding(r)
  PROVE  Contained'
<1>1. /\ reader' = [u \in Threads |-> reader'[u]]
      /\ reader'[t] = r /\ \A u \in Threads : u # t => reader'[u] = reader[u]
  BY DEF Contained, Subscribed
<1>2. Subscribed'
  BY <1>1 DEF Contained, Subscribed
<1>3. Readers'
  <2> SUFFICES ASSUME NEW u \in Threads, reader'[u].at = "decoding"
               PROVE  Decoding(reader[u])'
    BY DEF Readers
  <2>1. CASE u = t
    BY <1>1, <2>1 DEF Decoding, Known
  <2>2. CASE u # t
    BY <1>1, <2>2 DEF Contained, Readers, Decoding, Known
  <2> QED BY <2>1, <2>2
<1> QED BY <1>2, <1>3, Untouched

\* The memory is read: what a block holds as a whole is what is decoded.
LEMMA ReadContains ==
  ASSUME Inv, Contained, NEW t \in Threads, Read(t)
  PROVE  Contained'
<1> DEFINE b == block[memory]
           d == Decode(b.mem)
           r == [at |-> "decoding", todo |-> d.fields, ok |-> d.ok, of |-> b.whole]
<1>1. /\ sub = "up" /\ memory # None /\ reader' = [reader EXCEPT ![t] = r]
      /\ UNCHANGED <<name, block, pub, sub, memory, topic>>
  BY DEF Read
<1>2. IsMemory(b.mem) /\ Whole(b)
  BY <1>1 DEF Contained, Subscribed, Blocks
<1>3. CASE b.whole = None
  <2>1. b.whole # <<>>
    BY <1>3, SharedTopicAssumption
  <2>2. IsReader(r) /\ r.of = None
    BY <1>3 DEF IsReader
  <2>3. Decoding(r)
    BY <2>2 DEF Decoding
  <2> HIDE DEF r
  <2> QED BY <1>1, <2>1, <2>2, <2>3, ReaderMoves
<1>4. CASE b.whole = <<>> /\ b.mem = Zeros
  <2>1. d.fields = <<>>
    <3>1. Sized(<<>>) /\ IsMemory(Zeros) /\ Holds(Zeros, <<>>, Len(<<>>) + 1)
      <4>1. Len(<<>>) + 1 = 1
        OBVIOUS
      <4> QED BY <4>1, NewMemory
    <3>2. Decode(Zeros).fields = <<>>
      BY <3>1, RoundTrip
    <3> QED BY <1>4, <3>2
  <2>2. IsReader(r) /\ r.of = <<>> /\ r.todo = <<>>
    BY <1>4, <2>1 DEF IsReader
  <2>3. DOMAIN topic = {}
    BY <1>1, <1>4 DEF Contained, Subscribed
  <2>4. Decoding(r)
    BY <2>2, <2>3 DEF Decoding
  <2> HIDE DEF r
  <2> QED BY <1>1, <2>2, <2>4, ReaderMoves
<1>5. CASE b.whole # <<>> /\ IsMessage(b.whole) /\ Holds(b.mem, b.whole, Len(b.whole) + 1)
  <2> DEFINE m == b.whole
  <2>1. d.fields = m
    BY <1>2, <1>5, MessageSized, RoundTrip
  <2>2. IsReader(r) /\ r.of = m /\ r.todo = m
    BY <2>1 DEF IsReader
  <2>3. m \in Seq({m[i] : i \in 1..Len(m)}) /\ Len(m) \in Nat
    BY <1>5, MessageSized DEF IsMessage, Sized
  <2>4. 0 \in 0..Len(m) /\ m = SubSeq(m, 0 + 1, Len(m)) /\ Known(m, 0)
    <3> HIDE DEF m
    <3>1. m = SubSeq(m, 1, Len(m))
      BY <2>3, SubSeqFull
    <3> QED BY <2>3, <3>1 DEF Known
  <2>5. Decoding(r)
    <3> HIDE DEF r, m
    <3>1. m # <<>> /\ IsMessage(m)
      BY <1>5 DEF m
    <3> QED BY <2>2, <2>4, <3>1 DEF Decoding
  <2> HIDE DEF r
  <2>6. memory # None /\ block[memory].whole = <<>> => r.todo = <<>>
    BY <1>5
  <2> QED BY <1>1, <2>2, <2>5, <2>6, ReaderMoves
<1> QED BY <1>2, <1>3, <1>4, <1>5 DEF Whole

\* An attribute is set: the keys of a message are distinct, so those that were
\* set before stay.
LEMMA DecodeContains ==
  ASSUME Inv, Contained, NEW t \in Threads, DecodeStep(t)
  PROVE  Contained'
<1> DEFINE todo == reader[t].todo
           f    == Head(todo)
           rest == Tail(todo)
<1>1. /\ reader[t].at = "decoding" /\ todo # <<>>
      /\ topic' = [k \in DOMAIN topic \cup {f.key} |-> IF k = f.key THEN f.value ELSE topic[k]]
      /\ reader' = [u \in Threads |-> IF u = t THEN [reader[t] EXCEPT !.todo = rest]
                                      ELSE [reader[u] EXCEPT !.of = None]]
      /\ UNCHANGED <<name, block, pub, sub, memory>>
  BY DEF DecodeStep
<1>2. sub # "new" /\ ~(memory # None /\ block[memory].whole = <<>>)
  <2>1. sub # "new"
    BY <1>1 DEF Contained, Subscribed, NoReader
  <2>2. ~(memory # None /\ block[memory].whole = <<>>)
    BY <1>1 DEF Contained, Subscribed
  <2> QED BY <2>1, <2>2
<1>3. /\ reader' = [u \in Threads |-> reader'[u]]
      /\ IsReader(reader'[t]) /\ reader'[t].todo = rest /\ reader'[t].of = reader[t].of
      /\ \A u \in Threads : u # t => IsReader(reader'[u]) /\ reader'[u].of = None
  <2> HIDE DEF todo, f, rest
  <2>1. \A u \in Threads : IsReader(reader[u])
    BY DEF Contained, Subscribed
  <2>2. reader' = [u \in Threads |-> reader'[u]]
    BY <1>1
  <2>3. reader'[t] = [reader[t] EXCEPT !.todo = rest]
    BY <1>1
  <2>4. \A u \in Threads : u # t => reader'[u] = [reader[u] EXCEPT !.of = None]
    BY <1>1
  <2>5. IsReader(reader'[t]) /\ reader'[t].todo = rest /\ reader'[t].of = reader[t].of
    BY <2>1, <2>3 DEF IsReader
  <2>6. ASSUME NEW u \in Threads, u # t
        PROVE  IsReader(reader'[u]) /\ reader'[u].of = None
    BY <2>1, <2>4, <2>6 DEF IsReader
  <2> QED BY <2>2, <2>5, <2>6
<1>4. Subscribed'
  <2>1. \A u \in Threads : IsReader(reader'[u])
    BY <1>3
  <2> QED BY <1>1, <1>2, <1>3, <2>1 DEF Contained, Subscribed
<1>5. Decoding(reader[t])'
  <2>0. PICK m : m = reader[t].of
    OBVIOUS
  <2>1. Decoding(reader[t])
    BY <1>1 DEF Contained, Readers
  <2>2. CASE m = None
    BY <1>3, <2>0, <2>2 DEF Decoding
  <2>3. CASE m # None
    <3>1. m # <<>> /\ IsMessage(m)
      BY <1>1, <2>0, <2>1, <2>3 DEF Decoding
    <3>2. PICK k \in 0..Len(m) : todo = SubSeq(m, k + 1, Len(m)) /\ Known(m, k)
      BY <1>1, <2>0, <2>1, <2>3 DEF Decoding
    <3>3. Len(m) \in Nat /\ m \in Seq({m[i] : i \in 1..Len(m)})
      BY <3>1, MessageSized DEF IsMessage, Sized
    <3> HIDE DEF todo, f, rest
    <3>4. k \in 0..(Len(m) - 1) /\ k + 1 \in 0..Len(m) /\ k + 1 \in 1..Len(m)
      <4>1. k # Len(m)
        <5>1. k = Len(m) => todo = <<>>
          BY <3>2, <3>3, SubSeqEmpty
        <5> QED BY <1>1, <5>1
      <4> QED BY <3>3, <4>1
    <3>5. f = m[k + 1] /\ rest = SubSeq(m, (k + 1) + 1, Len(m))
      BY <3>2, <3>3, <3>4, Rest DEF f, rest
    <3>6. Known(m, k + 1)'
      <4> SUFFICES ASSUME NEW i \in 1..(k + 1)
                   PROVE  m[i].key \in DOMAIN topic' /\ topic'[m[i].key] = m[i].value
        BY DEF Known
      <4>1. CASE i = k + 1
        BY <1>1, <3>5, <4>1
      <4>2. CASE i # k + 1
        <5>1. i \in 1..k /\ i \in 1..Len(m)
          BY <3>4, <4>2
        <5>2. m[i].key \in DOMAIN topic /\ topic[m[i].key] = m[i].value
          BY <3>2, <5>1 DEF Known
        <5>3. m[i].key # f.key
          BY <3>1, <3>4, <3>5, <4>2, <5>1 DEF IsMessage
        <5> QED BY <1>1, <5>2, <5>3
      <4> QED BY <4>1, <4>2
    <3>7. reader'[t].of = m /\ reader'[t].todo = SubSeq(m, (k + 1) + 1, Len(m))
      BY <1>3, <2>0, <3>5
    <3> QED BY <3>1, <3>4, <3>6, <3>7 DEF Decoding
  <2> QED BY <2>2, <2>3
<1>6. Readers'
  BY <1>3, <1>5 DEF Readers, Decoding
<1> QED BY <1>1, <1>4, <1>6, Untouched

\* A thread is done.
LEMMA DoneContains ==
  ASSUME Inv, Contained, NEW t \in Threads, DecodeRaises(t) \/ Deliver(t)
  PROVE  Contained'
<1>1. /\ reader[t].at = "decoding" /\ reader' = [reader EXCEPT ![t] = NoReader]
      /\ UNCHANGED <<name, block, pub, sub, memory, topic>>
  BY DEF DecodeRaises, Deliver, Decoded
<1>2. IsReader(NoReader) /\ NoReader.at = "idle" /\ NoReader.todo = <<>>
  BY DEF NoReader, IsReader
<1>3. sub # "new"
  BY <1>1, <1>2 DEF Contained, Subscribed
<1> QED BY <1>1, <1>2, <1>3, ReaderMoves

\* What holds before any publisher is made.
LEMMA ContainedAtFirst ==
  ASSUME Init
  PROVE  Contained
<1>1. /\ \A p \in Publishers : pub[p] = NewPub /\ block[p] = NoBlock
      /\ name = None /\ sub = "new" /\ memory = None /\ DOMAIN topic = {}
      /\ reader = [t \in Threads |-> reader[t]] /\ \A t \in Threads : reader[t] = NoReader
  BY DEF Init
<1>2. NewPub.at = "new" /\ NewPub.sent = 0
  BY DEF NewPub
<1>3. NoBlock.mem = Zeros /\ NoBlock.whole = None
  BY DEF NoBlock
<1>4. IsReader(NoReader) /\ NoReader.at = "idle"
  BY DEF NoReader, IsReader
<1>5. Places /\ Writers /\ OneWriter
  BY <1>1, <1>2 DEF Places, Writers, OneWriter, Writing, Up
<1>6. Blocks
  BY <1>1, <1>3, NewMemory DEF Blocks, Whole
<1>7. Subscribed /\ Readers
  BY <1>1, <1>4 DEF Subscribed, Readers
<1> QED BY <1>5, <1>6, <1>7 DEF Contained

LEMMA StaysContained ==
  ASSUME Inv, Contained, [Next]_vars
  PROVE  Contained'
<1>1. ASSUME NEW p \in Publishers, Publisher(p)
      PROVE  Contained'
  BY <1>1, ComesAndGoes, SizeContains, BeginContains, StepContains DEF Publisher
<1>2. ASSUME NEW t \in Threads, Reader(t)
      PROVE  Contained'
  BY <1>2, ReadContains, DecodeContains, DoneContains DEF Reader
<1>3. CASE UNCHANGED vars
  <2>1. UNCHANGED <<name, block, pub, sub, memory, topic, reader>>
    BY <1>3 DEF vars
  <2>2. Subscribed' /\ Readers'
    BY <2>1 DEF Contained, Subscribed, Readers, Decoding, Known
  <2> QED BY <2>1, <2>2, Untouched
<1> QED BY <1>1, <1>2, <1>3, SubscribeContains DEF Next

\* The blocks, the publishers and the readers hold what they are said to hold.
THEOREM Containment == Spec => []Contained
<1>1. Init => Contained
  BY ContainedAtFirst
<1>2. Inv /\ Contained /\ [Next]_vars => Contained'
  BY StaysContained
<1> QED BY <1>1, <1>2, Invariance, PTL DEF Spec

\* A callback gets a message that was published, in all its attributes, however
\* many publishers and threads there are, whatever the messages are, and
\* whatever the memory held before: publish leaves what is behind the message
\* (publisher.py), and decode takes as many attributes as the number in front
\* says (axone_struct.py). Excepted is what was read while it was
\* written, what two publishers wrote at once or one crashed over, and what
\* another thread has decoded in between.
THEOREM WholeMessages == Spec => []WholeMessage
<1>1. Contained => WholeMessage
  <2> SUFFICES ASSUME Contained, NEW t \in Threads, Decoded(t), Good(t), reader[t].of # None
               PROVE  /\ reader[t].of # <<>>
                      /\ \A i \in 1..Len(reader[t].of) :
                           topic[reader[t].of[i].key] = reader[t].of[i].value
    BY DEF WholeMessage
  <2>0. PICK m : m = reader[t].of
    OBVIOUS
  <2>1. reader[t].todo = <<>> /\ Decoding(reader[t]) /\ DOMAIN topic # {}
    BY DEF Decoded, Good, Contained, Readers
  <2>2. m # <<>> /\ IsMessage(m)
    BY <2>0, <2>1 DEF Decoding
  <2>3. PICK k \in 0..Len(m) : <<>> = SubSeq(m, k + 1, Len(m)) /\ Known(m, k)
    BY <2>0, <2>1 DEF Decoding
  <2>4. Len(m) \in Nat /\ m \in Seq({m[i] : i \in 1..Len(m)})
    BY <2>2, MessageSized DEF IsMessage, Sized
  <2>5. k = Len(m)
    <3>1. k \in 0..(Len(m) - 1) => SubSeq(m, k + 1, Len(m)) # <<>>
      BY <2>4, Rest
    <3> QED BY <2>3, <2>4, <3>1
  <2> QED BY <2>0, <2>2, <2>3, <2>5 DEF Known
<1> QED BY <1>1, Containment, PTL

-----------------------------------------------------------------------------
(* The room in the blocks.                                                 *)

\* A block that has a size has the one that a first message is expected to
\* need; and the messages of a publisher are those there is a bound for.
Made(b) ==
  b.size > 0 => \E q \in Publishers, c \in Contents :
                  /\ b.made = Message(q, 0, c) /\ Estimable(Message(q, 0, c))
                  /\ b.size = ApproximateSize(Message(q, 0, c))

Rooms ==
  /\ \A p \in Publishers : Made(block[p])
  /\ \A p \in Publishers : pub[p].sent \in 0..MaxPublish

\* Blocks keep their room.
LEMMA MadeKept ==
  ASSUME Rooms, \A q \in Publishers : /\ block'[q].size = block[q].size
                                      /\ block'[q].made = block[q].made
  PROVE  \A q \in Publishers : Made(block'[q])
BY DEF Rooms, Made

\* Publishers keep their number of messages.
LEMMA SentKept ==
  ASSUME Inv, Rooms, NEW p \in Publishers, NEW r, IsPub(r), pub' = [pub EXCEPT ![p] = r],
         r.sent = pub[p].sent
  PROVE  \A q \in Publishers : pub'[q].sent \in 0..MaxPublish
<1>1. /\ pub'[p] = r /\ \A q \in Publishers : q # p => pub'[q] = pub[q]
  BY PubChanges DEF Inv
<1> QED BY <1>1 DEF Rooms

\* Those that come and go leave the blocks alone.
LEMMA RoomsComeAndGo ==
  ASSUME Inv, Rooms, NEW p \in Publishers,
         \/ NoEstimate(p) \/ CreateMemory(p) \/ OpenMemory(p)
         \/ StopPublisher(p) \/ Crash(p)
  PROVE  Rooms'
<1>0. IsPub(pub[p]) /\ IsPub(Down(p)) /\ Down(p).sent = pub[p].sent
  BY DownFields DEF Inv, Fields, Down, NewPub
<1>1. UNCHANGED block
  BY DEF NoEstimate, CreateMemory, OpenMemory, StopPublisher, Crash
<1>2. \A q \in Publishers : pub'[q].sent \in 0..MaxPublish
  <2>1. CASE CreateMemory(p) /\ name = None
    <3>1. PICK c \in Contents :
            pub' = [pub EXCEPT ![p].at = "size", ![p].block = p, ![p].topic = Message(p, 0, c)]
      BY <2>1, Creates
    <3> DEFINE m == Message(p, 0, c)
               r == [pub[p] EXCEPT !.at = "size", !.block = p, !.topic = m]
    <3>2. pub' = [pub EXCEPT ![p] = r]
      BY <3>1
    <3> HIDE DEF m
    <3>3. IsPub(r) /\ r.sent = pub[p].sent
      BY <1>0 DEF IsPub
    <3> HIDE DEF r
    <3> QED BY <3>2, <3>3, SentKept
  <2>2. CASE CreateMemory(p) /\ name # None
    <3> DEFINE r == [pub[p] EXCEPT !.at = "open"]
    <3>1. pub' = [pub EXCEPT ![p] = r]
      BY <2>2, Creates
    <3>2. IsPub(r) /\ r.sent = pub[p].sent
      BY <1>0 DEF IsPub
    <3> HIDE DEF r
    <3> QED BY <3>1, <3>2, SentKept
  <2>3. CASE OpenMemory(p) /\ ~(name = None \/ block[name].size = 0)
    <3> DEFINE r == [pub[p] EXCEPT !.at = "up", !.block = name, !.topic = <<>>]
    <3>1. pub' = [pub EXCEPT ![p] = r]
      BY <2>3 DEF OpenMemory
    <3>2. IsPub(r) /\ r.sent = pub[p].sent
      BY <1>0 DEF IsPub
    <3> HIDE DEF r
    <3> QED BY <3>1, <3>2, SentKept
  <2>4. CASE \/ OpenMemory(p) /\ (name = None \/ block[name].size = 0)
             \/ NoEstimate(p) \/ StopPublisher(p) \/ Crash(p)
    <3>1. pub' = [pub EXCEPT ![p] = Down(p)]
      BY <2>4 DEF NoEstimate, OpenMemory, StopPublisher, Crash
    <3> QED BY <1>0, <3>1, SentKept
  <2> QED BY <2>1, <2>2, <2>3, <2>4
<1>3. \A q \in Publishers : Made(block'[q])
  BY <1>1, MadeKept
<1> QED BY <1>2, <1>3 DEF Rooms, Made

\* A block is sized for the first message of its publisher.
LEMMA SizeMakesRoom ==
  ASSUME Inv, Rooms, NEW p \in Publishers, SizeMemory(p)
  PROVE  Rooms'
<1>1. PICK c \in Contents : pub[p].topic = Message(p, 0, c) /\ Estimable(Message(p, 0, c))
  BY DEF SizeMemory, Inv, FirstMessage
<1> DEFINE m == Message(p, 0, c)
           s == ApproximateSize(m)
           b == [block[p] EXCEPT !.size = s, !.made = m, !.whole = <<>>]
           r == [pub[p] EXCEPT !.at = "up", !.topic = <<>>]
<1>2. IsPub(pub[p]) /\ IsBlock(block[p])
  BY DEF Inv, Fields
<1>3. s \in Nat
  <2>1. 0 \in 0..(MaxPublish + 1)
    BY SharedTopicAssumption
  <2>2. IsMessage(m)
    BY <2>1, MessagesAssumption
  <2> QED BY <2>2, ApproximateSizes
<1>4. block' = [block EXCEPT ![p] = b] /\ pub' = [pub EXCEPT ![p] = r]
  BY <1>1 DEF SizeMemory
<1>5. IsBlock(b) /\ b.size = s /\ b.made = m
  <2> HIDE DEF s, m
  <2> QED BY <1>2, <1>3 DEF IsBlock
<1>6. IsPub(r) /\ r.sent = pub[p].sent
  BY <1>2 DEF IsPub
<1> HIDE DEF b, r
<1>7. \A q \in Publishers : block'[q] = IF q = p THEN b ELSE block[q]
  BY <1>4, <1>5, BlockChanges DEF Inv
<1>8. \A q \in Publishers : pub'[q].sent \in 0..MaxPublish
  BY <1>4, <1>6, SentKept
<1>9. Made(b)
  BY <1>1, <1>5 DEF Made
<1>10. ASSUME NEW q \in Publishers
       PROVE  Made(block'[q])
  <2>1. CASE q = p
    BY <1>7, <1>9, <2>1
  <2>2. CASE q # p
    BY <1>7, <2>2 DEF Rooms
  <2> QED BY <2>1, <2>2
<1> QED BY <1>8, <1>10 DEF Rooms, Made

\* Messages are begun up to the bound, and blocks keep their size meanwhile.
LEMMA BeginKeepsRoom ==
  ASSUME Inv, Rooms, NEW p \in Publishers, PublishBegin(p)
  PROVE  Rooms'
<1> DEFINE bb     == pub[p].block
           others == {q \in Publishers : pub[q].at = "writing" /\ pub[q].block = bb}
<1>1. PICK c \in Contents :
        pub' = [q \in Publishers |->
          IF q = p THEN [pub[p] EXCEPT !.at = "writing", !.topic = Message(p, pub[p].sent + 1, c),
                                       !.sent = @ + 1,
                                       !.todo = Encode(Message(p, pub[p].sent + 1, c)),
                                       !.alone = others = {}]
          ELSE IF q \in others THEN [pub[q] EXCEPT !.alone = FALSE]
          ELSE pub[q]]
  BY DEF PublishBegin
<1>2. /\ block' = [block EXCEPT ![bb].whole = None]
      /\ pub[p].sent < MaxPublish
  BY DEF PublishBegin
<1>3. \A q \in Publishers : IsBlock(block[q]) /\ IsPub(pub[q])
  BY DEF Inv, Fields
<1>4. \A q \in Publishers : block'[q].size = block[q].size /\ block'[q].made = block[q].made
  <2> TAKE q \in Publishers
  <2>1. block'[q] = block[q] \/ block'[q] = [block[q] EXCEPT !.whole = None]
    BY <1>2 DEF Inv, Fields
  <2> QED BY <1>3, <2>1 DEF IsBlock
<1>5. ASSUME NEW q \in Publishers
      PROVE  pub'[q].sent \in 0..MaxPublish
  <2>0. pub[q].sent \in 0..MaxPublish /\ pub[p].sent \in 0..MaxPublish /\ MaxPublish \in Nat
    BY SharedTopicAssumption DEF Rooms
  <2>1. CASE q = p
    <3> DEFINE m == Message(p, pub[p].sent + 1, c)
               e == Encode(m)
               a == others = {}
    <3>1. pub'[q] = [pub[p] EXCEPT !.at = "writing", !.topic = m, !.sent = @ + 1,
                                   !.todo = e, !.alone = a]
      BY <1>1, <2>1
    <3> HIDE DEF m, e, a
    <3>2. pub'[q].sent = pub[p].sent + 1
      BY <1>3, <3>1 DEF IsPub
    <3> QED BY <1>2, <2>0, <3>2
  <2>2. CASE q # p
    <3>1. pub'[q] = pub[q] \/ pub'[q] = [pub[q] EXCEPT !.alone = FALSE]
      BY <1>1, <2>2
    <3>2. pub'[q].sent = pub[q].sent
      BY <1>3, <3>1 DEF IsPub
    <3> QED BY <2>0, <3>2
  <2> QED BY <2>1, <2>2
<1>6. \A q \in Publishers : Made(block'[q])
  BY <1>4, MadeKept
<1> QED BY <1>5, <1>6 DEF Rooms, Made

\* So they do while a message is copied.
LEMMA StepKeepsRoom ==
  ASSUME Inv, Rooms, NEW p \in Publishers, PublishStep(p)
  PROVE  Rooms'
<1> DEFINE bb   == pub[p].block
           last == Len(pub[p].todo) = 1
           mem  == Write(block[bb].mem, Head(pub[p].todo))
           w    == IF last /\ pub[p].alone THEN pub[p].topic ELSE block[bb].whole
           r    == IF last
                     THEN [pub[p] EXCEPT !.at = "up", !.topic = <<>>, !.todo = <<>>, !.alone = TRUE]
                     ELSE [pub[p] EXCEPT !.todo = Tail(@)]
<1>1. \A q \in Publishers : IsBlock(block[q]) /\ IsPub(pub[q])
  BY DEF Inv, Fields
<1>2. pub' = [pub EXCEPT ![p] = r]
  BY DEF PublishStep
<1>3. IsPub(r) /\ r.sent = pub[p].sent
  <2> DEFINE t == Tail(pub[p].todo)
  <2> HIDE DEF t
  <2>1. r = [pub[p] EXCEPT !.at = "up", !.topic = <<>>, !.todo = <<>>, !.alone = TRUE]
        \/ r = [pub[p] EXCEPT !.todo = t]
    BY DEF t
  <2> HIDE DEF r
  <2> QED BY <1>1, <2>1 DEF IsPub
<1> HIDE DEF r
<1>4. \A q \in Publishers : block'[q].size = block[q].size /\ block'[q].made = block[q].made
  <2> TAKE q \in Publishers
  <2>1. block' = [block EXCEPT ![bb].mem = Write(@, Head(pub[p].todo)),
                               ![bb].whole = IF last /\ pub[p].alone THEN pub[p].topic ELSE @]
    BY DEF PublishStep
  <2>2. block'[q] = block[q] \/ block'[q] = [block[q] EXCEPT !.mem = mem, !.whole = w]
    <3>1. CASE q = bb
      BY <1>1, <2>1, <3>1 DEF Inv, Fields, IsBlock
    <3>2. CASE q # bb
      BY <2>1, <3>2 DEF Inv, Fields
    <3> QED BY <3>1, <3>2
  <2> HIDE DEF mem, w
  <2> QED BY <1>1, <2>2 DEF IsBlock
<1>5. \A q \in Publishers : pub'[q].sent \in 0..MaxPublish
  BY <1>2, <1>3, SentKept
<1>6. \A q \in Publishers : Made(block'[q])
  BY <1>4, MadeKept
<1> QED BY <1>5, <1>6 DEF Rooms, Made

LEMMA StaysRoomy ==
  ASSUME Inv, Rooms, [Next]_vars
  PROVE  Rooms'
<1>1. ASSUME NEW p \in Publishers, Publisher(p)
      PROVE  Rooms'
  BY <1>1, RoomsComeAndGo, SizeMakesRoom, BeginKeepsRoom, StepKeepsRoom DEF Publisher
<1>2. CASE UNCHANGED <<block, pub>>
  BY <1>2 DEF Rooms, Made
<1>3. ASSUME NEW t \in Threads, Reader(t)
      PROVE  UNCHANGED <<block, pub>>
  BY <1>3 DEF Reader, Read, DecodeStep, DecodeRaises, Deliver
<1>4. Subscribe \/ StopSubscription \/ UNCHANGED vars => UNCHANGED <<block, pub>>
  BY DEF Subscribe, StopSubscription, vars
<1> QED BY <1>1, <1>2, <1>3, <1>4 DEF Next

LEMMA RoomyAtFirst ==
  ASSUME Init
  PROVE  Rooms
<1>1. MaxPublish \in Nat
  BY SharedTopicAssumption
<1> QED BY <1>1 DEF Init, Rooms, Made, NoBlock, NewPub

\* What is lacking where a message has no room.
LEMMA NoRoom ==
  ASSUME Estimated, Contained, Rooms, NEW p \in Publishers, Up(p), NEW c \in Contents,
         NEW m, m = Message(p, pub[p].sent + 1, c), NEW o, o = block[pub[p].block].made,
         Encodable(m), \A f \in ToSet(m) : ~Underestimated(f),
         {f.key : f \in ToSet(m)} \ {f.key : f \in ToSet(o)} = {},
         \A f \in ToSet(m), g \in ToSet(o) : f.key = g.key => ~Outgrows(f, g)
  PROVE  Fits(m, pub[p].block)
<1> DEFINE n == pub[p].sent + 1
<1>1. n \in 0..(MaxPublish + 1)
  <2>1. pub[p].sent \in 0..MaxPublish /\ MaxPublish \in Nat
    BY SharedTopicAssumption DEF Rooms
  <2> QED BY <2>1
<1>2. pub[p].block \in Publishers /\ block[pub[p].block].size > 0
  BY DEF Contained, Places
<1>3. PICK q \in Publishers, d \in Contents :
        /\ o = Message(q, 0, d) /\ Estimable(o)
        /\ block[pub[p].block].size = ApproximateSize(o)
  BY <1>2 DEF Rooms, Made
<1>4. IsMessage(m) /\ IsMessage(o)
  <2>1. 0 \in 0..(MaxPublish + 1)
    BY SharedTopicAssumption
  <2> QED BY <1>1, <1>3, <2>1, MessagesAssumption
<1>5. /\ Len(m) \in Nat /\ ToSet(m) = {m[i] : i \in 1..Len(m)}
      /\ Len(o) \in Nat /\ ToSet(o) = {o[j] : j \in 1..Len(o)}
  <2>1. /\ m \in Seq({m[i] : i \in 1..Len(m)}) /\ o \in Seq({o[j] : j \in 1..Len(o)})
    BY <1>4 DEF IsMessage
  <2>2. DOMAIN m = 1..Len(m) /\ Len(m) \in Nat
    BY <2>1
  <2>3. DOMAIN o = 1..Len(o) /\ Len(o) \in Nat
    BY <2>1
  <2> QED BY <2>2, <2>3, Zenon DEF ToSet
<1>6. ASSUME NEW i \in 1..Len(m)
      PROVE  \E j \in 1..Len(o) : m[i].key = o[j].key /\ Covers(o[j].value, m[i].value)
  <2>1. m[i] \in ToSet(m)
    BY <1>5
  <2>2. m[i].key \in {g.key : g \in ToSet(o)}
    BY <2>1
  <2>3. PICK j \in 1..Len(o) : m[i].key = o[j].key
    BY <1>5, <2>2
  <2>4. ~Outgrows(m[i], o[j])
    <3>1. o[j] \in ToSet(o)
      BY <1>5
    <3> QED BY <2>1, <2>3, <3>1, Zenon
  <2>5. IsValue(m[i].value) /\ IsValue(o[j].value)
    BY <1>4 DEF IsMessage
  <2>6. Covers(o[j].value, m[i].value)
    <3>1. m[i].value.type = o[j].value.type
      BY <2>4, Zenon DEF Outgrows
    <3>2. ASSUME m[i].value.type = "list"
          PROVE  /\ m[i].value.len <= o[j].value.len
                 /\ m[i].value.item.chars <= o[j].value.item.chars
      <4>1. /\ ~(m[i].value.len > o[j].value.len)
            /\ ~(m[i].value.item.chars > o[j].value.item.chars)
        BY <2>4, <3>2, Zenon DEF Outgrows
      <4>2. /\ m[i].value.len \in Nat /\ o[j].value.len \in Nat
            /\ m[i].value.item.chars \in Nat /\ o[j].value.item.chars \in Nat
        BY <2>5, <3>1, <3>2, Zenon DEF IsValue
      <4> QED BY <4>1, <4>2, NotAbove, Zenon
    <3> QED BY <3>1, <3>2, Zenon DEF Covers
  <2> QED BY <2>3, <2>6
<1>7. EncodedSize(m) <= ApproximateSize(m)
  <2>1. Estimable(m)
    BY <1>3, <1>6 DEF Estimable, Covers
  <2> QED BY <1>1, <2>1 DEF Estimated
<1>8. ApproximateSize(m) <= ApproximateSize(o)
  BY <1>4, <1>6, MessageCovered
<1>9. EncodedSize(m) \in Nat /\ ApproximateSize(m) \in Nat /\ ApproximateSize(o) \in Nat
  <2>1. Sized(m)
    BY <1>4, MessageSized
  <2>2. Len(m) + 1 \in 1..(Len(m) + 1)
    BY <1>5
  <2>3. EncodedSize(m) \in Nat
    BY <2>1, <2>2, Offsets DEF EncodedSize
  <2> QED BY <1>4, <2>3, ApproximateSizes
<1> QED BY <1>3, <1>8, <1>9, <1>7 DEF Fits

\* Where LongList is such that a message without underestimated lists has room
\* in a block made for it (Estimated), publish lacks room for nothing but what
\* RoomEnough lists, for any messages: a block is sized once by
\* get_approximate_size (publisher.py), which raises for None and for other
\* types, whoever finds it uses it, and what its publishers encode later is
\* bounded, attribute by attribute, by what was expected then.
THEOREM EnoughRoom == Estimated => (Spec => []RoomEnough)
<1> SUFFICES ASSUME Estimated PROVE Spec => []RoomEnough
  OBVIOUS
<1>1. Init => Rooms
  BY RoomyAtFirst
<1>2. Inv /\ Rooms /\ [Next]_vars => Rooms'
  BY StaysRoomy
<1>3. Contained /\ Rooms => RoomEnough
  <2> SUFFICES ASSUME Contained, Rooms, NEW p \in Publishers, Up(p), NEW c \in Contents,
                      NEW m, m = Message(p, pub[p].sent + 1, c),
                      NEW o, o = block[pub[p].block].made,
                      ~Fits(m, pub[p].block), Encodable(m),
                      \A f \in ToSet(m) : ~Underestimated(f),
                      {f.key : f \in ToSet(m)} \ {f.key : f \in ToSet(o)} = {},
                      \A f \in ToSet(m), g \in ToSet(o) : f.key = g.key => ~Outgrows(f, g)
               PROVE  FALSE
    BY Zenon DEF RoomEnough
  <2> QED BY NoRoom, Zenon
<1>4. Spec => []Rooms
  BY <1>1, <1>2, Invariance, PTL DEF Spec
<1> QED BY <1>3, <1>4, Containment, PTL

=============================================================================
