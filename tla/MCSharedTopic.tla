---------------------------- MODULE MCSharedTopic ----------------------------
(***************************************************************************)
(* Instance of SharedTopic for TLC: two publishers of a topic with a label *)
(* of any length, or none, and a list of numbers or of names.              *)
(***************************************************************************)
EXTENDS SharedTopic, TLC

CONSTANTS p1, p2, t1, t2

Text(k, n)   == [key |-> k, value |-> [type |-> "str", len |-> n, id |-> n]]
Number(k, x) == [key |-> k, value |-> [type |-> "float", id |-> x]]
Empty(k)     == [key |-> k, value |-> [type |-> "none"]]
Numbers(k, n) ==
  [key |-> k, value |-> [type |-> "list", len |-> n,
                         item |-> [type |-> "float", chars |-> 3]]]
Names(k, n, bytes) ==
  [key |-> k, value |-> [type |-> "list", len |-> n,
                         item |-> [type |-> "str", chars |-> 12, len |-> bytes]]]

MCContents == {<<Text("label", 3), Numbers("path", 2)>>,
               <<Text("label", 127)>>,
               <<Numbers("path", 40)>>}

\* Where nothing is read: no label, too many numbers, and names in Greek, for
\* which their own block would be too small.
MCAllContents ==
  MCContents \cup {<<Empty("label")>>, <<Numbers("path", 60)>>,
                   <<Names("path", 20, 12)>>, <<Names("path", 20, 24)>>}

\* At most two of the four threads are in the middle of something.
AtMostTwoBusy ==
  Cardinality({p \in Publishers : pub[p].at = "writing"})
    + Cardinality({t \in Threads : reader[t].at # "idle"}) <= 2

\* A block is made for any of them, and once there is a subscription, or
\* something is published, for one of the former, which alone are published.
Plain(m) ==
  m = <<>> \/ \E c \in MCContents : SubSeq(m, 1, Len(m) - 2) = c

PlainIfUsed ==
  \/ sub = "new" /\ \A p \in Publishers : pub[p].sent = 0
  \/ \A p \in Publishers : Plain(pub[p].topic) /\ Plain(block[p].made)

Bounds == AtMostTwoBusy /\ PlainIfUsed

MCCommon ==
  [p \in {p1, p2}, n \in 0..(MaxPublish + 1) |->
     <<[key |-> "source_", value |-> [type |-> "str", len |-> 10, id |-> 0]],
       Number("timestamp_", <<p, n>>)>>]

\* 50 items are not too many for these messages.
ASSUME EstimatedAssumption == Estimated

\* Without what RoomEnough excepts it would not hold: these messages could be
\* encoded, but have no room in a block that is made for them.
ASSUME UnderestimatedAssumption ==
  \A c \in {<<Numbers("path", 60)>>, <<Names("path", 20, 24)>>} :
    LET m == Message(p1, 1, c)
    IN Encodable(m) /\ Estimable(m) /\ EncodedSize(m) > ApproximateSize(m)

Symmetry == Permutations({p1, p2}) \cup Permutations({t1, t2})

=============================================================================
