----------------------------- MODULE SharedTopic -----------------------------
(***************************************************************************)
(* A topic in shared memory: the publishers of a topic (publisher.py) and  *)
(* one subscription to it (subscriber.py), with Method.SHARED_MEMORY. All  *)
(* publishers of a topic use one block, found by a name made of the name   *)
(* of the topic; who finds none creates it, in the size that               *)
(* get_approximate_size expects, and removes it when it stops. Nothing     *)
(* guards the block: it is written and read while others do so, by         *)
(* processes that may crash. Two threads decode it into the same struct:   *)
(* the one that listens and the application's, in listen_once.             *)
(*                                                                         *)
(* The operating system is external: an exclusive creation of a name, its  *)
(* size set in a second step, and copies that others see in part. Blocks   *)
(* outlive their processes: nodes take them from the resource tracker.     *)
(***************************************************************************)
EXTENDS Naturals, Sequences, FiniteSets, SequencesExt, Codec

CONSTANTS
  Publishers,
  Contents,      (* The attributes an application gives its topic.         *)
  Common,        (* Those that Publisher adds to the n-th message of p.    *)
  Threads,       (* The subscription's listener, the application's thread. *)
  MaxPublish,    (* Bound: messages of a publisher.                        *)
  LongList,      (* More items than RoomEnough is about.                   *)
  None

ASSUME SharedTopicAssumption ==
  /\ IsFiniteSet(Publishers) /\ None \notin Publishers \cup {<<>>}
  /\ MaxPublish \in Nat /\ LongList \in Nat

VARIABLES
  name,          (* Whose block has the name of the topic, or None.        *)
  block,         (* The block each publisher created: size and memory,     *)
                 (* what it was made for, and the message it holds whole   *)
                 (* (history), or None.                                    *)
  pub,           (* The publishers.                                        *)
  sub,           (* Control point of the subscription ...                  *)
  memory,        (* ... and the block it uses, or None.                    *)
  topic,         (* Its struct: the value of each attribute.               *)
  reader,        (* The threads that read it.                              *)
  withdrawn      (* History: the creator of a block has removed it.        *)

vars == <<name, block, pub, sub, memory, topic, reader, withdrawn>>

Message(p, n, content) == content \o Common[p, n]

\* Messages are structs, and those that Publisher adds to are not empty.
ASSUME MessagesAssumption ==
  \A p \in Publishers, n \in 0..(MaxPublish + 1), c \in Contents :
    IsMessage(Message(p, n, c)) /\ Message(p, n, c) # <<>>

NoBlock  == [size |-> 0, mem |-> Zeros, made |-> <<>>, whole |-> None]
NewPub   == [at |-> "new", block |-> None, sent |-> 0, topic |-> <<>>, todo |-> <<>>,
             alone |-> TRUE]
NoReader == [at |-> "idle", todo |-> <<>>, ok |-> TRUE, of |-> None]

Init ==
  /\ name = None
  /\ block = [p \in Publishers |-> NoBlock]
  /\ pub = [p \in Publishers |-> NewPub]
  /\ sub = "new" /\ memory = None
  /\ topic = [k \in {} |-> None]
  /\ reader = [t \in Threads |-> NoReader]
  /\ withdrawn = FALSE

-----------------------------------------------------------------------------
(* Publishers.                                                             *)

Up(p)      == pub[p].at \in {"up", "writing"}
Created(p) == pub[p].block = p
Down(p)    == [NewPub EXCEPT !.at = "down", !.sent = pub[p].sent]

\* The size is asked for first, also where a block is there: who hands over a
\* struct without an estimate is told by an exception.
NoEstimate(p) ==
  /\ pub[p].at = "new"
  /\ \E c \in Contents : ~Estimable(Message(p, 0, c))
  /\ pub' = [pub EXCEPT ![p] = Down(p)]
  /\ UNCHANGED <<name, block, sub, memory, topic, reader, withdrawn>>

\* The name is taken exclusively, or is taken already, ...
CreateMemory(p) ==
  /\ pub[p].at = "new"
  /\ \E c \in Contents :
       LET m == Message(p, 0, c)
       IN /\ Estimable(m)
          /\ IF name = None
               THEN /\ name' = p
                    /\ pub' = [pub EXCEPT ![p].at = "size", ![p].block = p, ![p].topic = m]
               ELSE /\ pub' = [pub EXCEPT ![p].at = "open"]
                    /\ UNCHANGED name
  /\ UNCHANGED <<block, sub, memory, topic, reader, withdrawn>>

\* Mutant: the block has the size of the message that is there.
SizeMemoryAsIs(p) ==
  /\ pub[p].at = "size"
  /\ block' = [block EXCEPT ![p].size = EncodedSize(pub[p].topic),
                            ![p].made = pub[p].topic, ![p].whole = <<>>]
  /\ pub' = [pub EXCEPT ![p].at = "up", ![p].topic = <<>>]
  /\ UNCHANGED <<name, sub, memory, topic, reader, withdrawn>>

\* ... and the block gets its size.
SizeMemory(p) ==
  /\ pub[p].at = "size"
  /\ block' = [block EXCEPT ![p].size = ApproximateSize(pub[p].topic),
                            ![p].made = pub[p].topic, ![p].whole = <<>>]
  /\ pub' = [pub EXCEPT ![p].at = "up", ![p].topic = <<>>]
  /\ UNCHANGED <<name, sub, memory, topic, reader, withdrawn>>

\* Meanwhile the block may be gone, or may not have its size yet: raises.
OpenMemory(p) ==
  /\ pub[p].at = "open"
  /\ pub' = [pub EXCEPT
       ![p] = IF name = None \/ block[name].size = 0
                THEN Down(p)
                ELSE [@ EXCEPT !.at = "up", !.block = name, !.topic = <<>>]]
  /\ UNCHANGED <<name, block, sub, memory, topic, reader, withdrawn>>

\* publish encodes the topic, which raises if it cannot be, or if there is no
\* room for it, and starts to copy it.
Fits(m, b) == Encodable(m) /\ EncodedSize(m) <= block[b].size

PublishBegin(p) ==
  LET b      == pub[p].block
      others == {q \in Publishers : pub[q].at = "writing" /\ pub[q].block = b}
  IN /\ pub[p].at = "up" /\ pub[p].sent < MaxPublish
     /\ \E c \in Contents :
          LET m == Message(p, pub[p].sent + 1, c)
          IN /\ Fits(m, b)
             /\ pub' = [q \in Publishers |->
                  IF q = p THEN [pub[p] EXCEPT !.at = "writing", !.topic = m, !.sent = @ + 1,
                                               !.todo = Encode(m), !.alone = others = {}]
                  ELSE IF q \in others THEN [pub[q] EXCEPT !.alone = FALSE]
                  ELSE pub[q]]
     /\ block' = [block EXCEPT ![b].whole = None]
     /\ UNCHANGED <<name, sub, memory, topic, reader, withdrawn>>

\* Mutant: the attributes are copied, the number that is there is kept.
PublishStepKeepsCount(p) ==
  LET b    == pub[p].block
      last == Len(pub[p].todo) = 1
  IN /\ pub[p].at = "writing"
     /\ block' = [block EXCEPT
          ![b].mem = IF Head(pub[p].todo).at = 0 /\ @[0].cell # 0 THEN @
                     ELSE Write(@, Head(pub[p].todo)),
          ![b].whole = IF last /\ pub[p].alone THEN pub[p].topic ELSE @]
     /\ pub' = [pub EXCEPT ![p] = IF last
                  THEN [@ EXCEPT !.at = "up", !.topic = <<>>, !.todo = <<>>, !.alone = TRUE]
                  ELSE [@ EXCEPT !.todo = Tail(pub[p].todo)]]
     /\ UNCHANGED <<name, sub, memory, topic, reader, withdrawn>>

PublishStep(p) ==
  LET b    == pub[p].block
      last == Len(pub[p].todo) = 1
  IN /\ pub[p].at = "writing"
     /\ block' = [block EXCEPT
          ![b].mem = Write(@, Head(pub[p].todo)),
          ![b].whole = IF last /\ pub[p].alone THEN pub[p].topic ELSE @]
     /\ pub' = [pub EXCEPT ![p] = IF last
                  THEN [@ EXCEPT !.at = "up", !.topic = <<>>, !.todo = <<>>, !.alone = TRUE]
                  ELSE [@ EXCEPT !.todo = Tail(pub[p].todo)]]
     /\ UNCHANGED <<name, sub, memory, topic, reader, withdrawn>>

\* Mutant: who only opened the block removes it, too.
StopPublisherUnlinks(p) ==
  /\ pub[p].at = "up"
  /\ name' = None
  /\ withdrawn' = (withdrawn \/ Created(p))
  /\ pub' = [pub EXCEPT ![p] = Down(p)]
  /\ UNCHANGED <<block, sub, memory, topic, reader>>

StopPublisher(p) ==
  /\ pub[p].at = "up"
  /\ IF Created(p)
       THEN name' = None /\ withdrawn' = TRUE
       ELSE UNCHANGED <<name, withdrawn>>
  /\ pub' = [pub EXCEPT ![p] = Down(p)]
  /\ UNCHANGED <<block, sub, memory, topic, reader>>

\* What the process has written stays, and so does the block.
Crash(p) ==
  /\ pub[p].at = "size" \/ Up(p)
  /\ pub' = [pub EXCEPT ![p] = Down(p)]
  /\ UNCHANGED <<name, block, sub, memory, topic, reader, withdrawn>>

Publisher(p) ==
  \/ NoEstimate(p) \/ CreateMemory(p) \/ SizeMemory(p) \/ OpenMemory(p)
  \/ PublishBegin(p) \/ PublishStep(p) \/ StopPublisher(p) \/ Crash(p)

-----------------------------------------------------------------------------
(* The subscription.                                                       *)

\* Without a block it stays without; a block without a size raises.
Subscribe ==
  /\ sub = "new"
  /\ IF name # None /\ block[name].size = 0
       THEN sub' = "down" /\ UNCHANGED memory
       ELSE sub' = "up" /\ memory' = name
  /\ UNCHANGED <<name, block, pub, topic, reader, withdrawn>>

\* The block is closed, which raises BufferError while a thread copies it: the
\* stop event is set by then, and the block is not read again either way.
StopSubscription ==
  /\ sub = "up"
  /\ sub' = "down"
  /\ UNCHANGED <<name, block, pub, memory, topic, reader, withdrawn>>

\* One copy of the whole block, of which others may have written a part.
Read(t) ==
  /\ sub = "up" /\ memory # None /\ reader[t].at = "idle"
  /\ LET d == Decode(block[memory].mem)
     IN reader' = [reader EXCEPT ![t] = [at |-> "decoding", todo |-> d.fields, ok |-> d.ok,
                                         of |-> block[memory].whole]]
  /\ UNCHANGED <<name, block, pub, sub, memory, topic, withdrawn>>

\* One attribute is set; another thread that is about to deliver the struct
\* now delivers something else.
DecodeStep(t) ==
  /\ reader[t].at = "decoding" /\ reader[t].todo # <<>>
  /\ LET f == Head(reader[t].todo)
     IN topic' = [k \in DOMAIN topic \cup {f.key} |->
                    IF k = f.key THEN f.value ELSE topic[k]]
  /\ reader' = [u \in Threads |->
       IF u = t THEN [reader[t] EXCEPT !.todo = Tail(@)]
       ELSE [reader[u] EXCEPT !.of = None]]
  /\ UNCHANGED <<name, block, pub, sub, memory, withdrawn>>

\* What cannot be decoded, and a struct without a timestamp, raises; otherwise
\* the callbacks are called.
Decoded(t) == reader[t].at = "decoding" /\ reader[t].todo = <<>>
Good(t)    == reader[t].ok /\ "timestamp_" \in DOMAIN topic

DecodeRaises(t) ==
  /\ Decoded(t) /\ ~Good(t)
  /\ reader' = [reader EXCEPT ![t] = NoReader]
  /\ UNCHANGED <<name, block, pub, sub, memory, topic, withdrawn>>

Deliver(t) ==
  /\ Decoded(t) /\ Good(t)
  /\ reader' = [reader EXCEPT ![t] = NoReader]
  /\ UNCHANGED <<name, block, pub, sub, memory, topic, withdrawn>>

Reader(t) == Read(t) \/ DecodeStep(t) \/ DecodeRaises(t) \/ Deliver(t)

-----------------------------------------------------------------------------

Next ==
  \/ \E p \in Publishers : Publisher(p)
  \/ Subscribe \/ StopSubscription
  \/ \E t \in Threads : Reader(t)

Spec == Init /\ [][Next]_vars

-----------------------------------------------------------------------------
(* Properties.                                                             *)

\* A callback gets a message that was published, in all its attributes: the
\* number in front makes a message shorter or longer than the one before
\* replace it, whatever else the memory holds. Excepted is what was read while
\* it was written, what two publishers wrote at once or one crashed over, and
\* what another thread has decoded in between: then it may be of any mix.
WholeMessage ==
  \A t \in Threads :
    LET m == reader[t].of
    IN Decoded(t) /\ Good(t) /\ m # None =>
         /\ m # <<>>
         /\ \A i \in 1..Len(m) : topic[m[i].key] = m[i].value

\* An attribute is of another kind than another, or has more or longer items.
Outgrows(f, g) ==
  \/ f.value.type # g.value.type
  \/ f.value.type = "list" /\ \/ f.value.len > g.value.len
                              \/ f.value.item.chars > g.value.item.chars

\* The items of a list take more than the estimate has for them: they are too
\* many, or have characters of more than a byte.
Underestimated(f) ==
  /\ f.value.type = "list"
  /\ \/ f.value.len > LongList
     \/ f.value.item.type = "str" /\ f.value.item.len > f.value.item.chars

\* publish only lacks room for a message with an attribute that the topic did
\* not have when the block was made, or that has outgrown the one it had, or
\* with a list whose items take more than their estimate: texts beyond ASCII,
\* or so many that the shortfall, two bytes for each short number, exceeds
\* what the estimate grants to strings.
RoomEnough ==
  \A p \in {q \in Publishers : Up(q)}, c \in Contents :
    LET m    == Message(p, pub[p].sent + 1, c)
        made == block[pub[p].block].made
    IN ~Fits(m, pub[p].block) =>
         \/ ~Encodable(m) \/ \E f \in ToSet(m) : Underestimated(f)
         \/ {f.key : f \in ToSet(m)} \ {f.key : f \in ToSet(made)} # {}
         \/ \E f \in ToSet(m), g \in ToSet(made) : f.key = g.key /\ Outgrows(f, g)

\* What LongList and Contents are to be for that: a message without such lists
\* has room in a block that is made for it.
Estimated ==
  \A p \in Publishers, n \in 0..(MaxPublish + 1), c \in Contents :
    LET m == Message(p, n, c)
    IN Encodable(m) /\ Estimable(m) /\ (\A f \in ToSet(m) : ~Underestimated(f))
         => EncodedSize(m) <= ApproximateSize(m)

\* As long as no creator has removed its block, all publishers that are up
\* and the subscription use one block, which has a size and is the one later
\* subscriptions find, also after a creator crashed; only a subscription older
\* than the block is deaf.
OneBlock ==
  withdrawn \/ \A p \in Publishers :
    Up(p) => /\ name = pub[p].block /\ name # None /\ block[name].size > 0
             /\ sub = "up" => memory \in {None, pub[p].block}

=============================================================================
