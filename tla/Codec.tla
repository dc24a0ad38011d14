-------------------------------- MODULE Codec --------------------------------
(***************************************************************************)
(* The encoding of an AxoneStruct (axone_struct.py): the layout and size   *)
(* of an encoded message, the size that get_approximate_size expects, and  *)
(* what decode makes of a memory whose content it does not control.        *)
(*                                                                         *)
(* A message is the sequence of a struct's attributes, each with a key and *)
(* a value; a value has a type, an identity and a length: the bytes of its *)
(* text, or the number of items of a list, which are all alike. An item    *)
(* has, besides, the number of characters that str() makes of it, which    *)
(* its bytes may exceed. Bytes matter by their number: what is encoded is a *)
(* sequence of cells, and a memory maps the offset of each intact cell to  *)
(* the cell. Structs in structs are left out, and so is encryption.        *)
(***************************************************************************)
LOCAL INSTANCE Naturals
LOCAL INSTANCE Sequences

SizeOfInt == 4

\* An int beyond 32 bits ("long") and a value of another type ("other") are
\* never written: see Encodable.
Payload == [none |-> 1, bool |-> 1, int |-> SizeOfInt, float |-> 8,
            long |-> SizeOfInt, other |-> 1]

\* The total of each prefix of a sequence of sizes.
Totals(sizes) ==
  LET total[i \in 0..Len(sizes)] == IF i = 0 THEN 0 ELSE total[i - 1] + sizes[i]
  IN total

Digits(n) == IF n < 10 THEN 1 ELSE IF n < 100 THEN 2 ELSE 3

\* n, the length in decimal, s, and the text.
TextSize(n) == 1 + Digits(n) + 1 + n

ScalarSize(v) == IF v.type = "str" THEN TextSize(v.len) ELSE 1 + Payload[v.type]

ValueSize(v) ==
  IF v.type = "list" THEN 1 + SizeOfInt + v.len * ScalarSize(v.item)
                     ELSE ScalarSize(v)

FieldSize(f) == TextSize(Len(f.key)) + ValueSize(f.value)

-----------------------------------------------------------------------------

\* What can be in a struct. The names of attributes are keys of a dictionary;
\* utf-8 takes one to four bytes for a character.
IsScalar(v) == v.type \in DOMAIN Payload \cup {"str"} /\ (v.type = "str" => v.len \in Nat)

IsValue(v) ==
  IF v.type = "list"
    THEN /\ v.len \in Nat /\ IsScalar(v.item) /\ v.item.chars \in Nat
         /\ v.item.type = "str" => v.item.len \in v.item.chars..(4 * v.item.chars)
    ELSE IsScalar(v)

IsMessage(m) ==
  /\ m \in Seq({m[i] : i \in 1..Len(m)})
  /\ \A i \in 1..Len(m) : Len(m[i].key) \in Nat /\ IsValue(m[i].value)
  /\ \A i, j \in 1..Len(m) : m[i].key = m[j].key => i = j

\* Names and values longer than this are refused.
MaxText == 127

\* encode raises for what it refuses; None is refused in a list only.
Writable(v) == v.type \notin {"long", "other"} /\ (v.type = "str" => v.len <= MaxText)

Encodable(m) ==
  \A i \in 1..Len(m) :
    LET v == m[i].value
    IN /\ Len(m[i].key) <= MaxText
       /\ IF v.type = "list" THEN v.len > 0 => v.item.type # "none" /\ Writable(v.item)
                             ELSE Writable(v)

\* The number of attributes, then the attributes one after the other.
Offset(m, i) == SizeOfInt + Totals([j \in 1..Len(m) |-> FieldSize(m[j])])[i - 1]

Encode(m) ==
  <<[at |-> 0, size |-> SizeOfInt, cell |-> Len(m)]>>
    \o [i \in 1..Len(m) |->
          [at |-> Offset(m, i), size |-> FieldSize(m[i]), cell |-> m[i]]]

EncodedSize(m) == Offset(m, Len(m) + 1)

\* get_approximate_size raises for an attribute that is None, which encode
\* writes, and for those of other types.
Estimable(m) == \A i \in 1..Len(m) : m[i].value.type \notin {"none", "other"}

\* It allows for any text; the lengths in front of names and items are not
\* counted in full, and of an item the characters, not the bytes, are.
ApproximateValue(v) ==
  CASE v.type = "str"  -> 5 + MaxText
    [] v.type = "list" -> 1 + 4 + v.len * (4 + v.item.chars)
    [] OTHER           -> 1 + Payload[v.type]

ApproximateField(f) == Len(f.key) + 1 + ApproximateValue(f.value)

ApproximateSize(m) == 2 + Totals([i \in 1..Len(m) |-> ApproximateField(m[i])])[Len(m)]

-----------------------------------------------------------------------------
(* A memory maps offsets to cells.                                         *)

Zeros == [o \in {0} |-> [at |-> 0, size |-> SizeOfInt, cell |-> 0]]

Overlap(c, d) == c.at < d.at + d.size /\ d.at < c.at + c.size

\* What a cell overlaps is overwritten at least in part.
Write(mem, c) ==
  LET kept == {o \in DOMAIN mem : ~Overlap(mem[o], c)}
  IN [o \in kept \cup {c.at} |-> IF o = c.at THEN c ELSE mem[o]]

\* The bytes from an offset on are overwritten with zeros.
Pad(mem, from) == [o \in {x \in DOMAIN mem : x < from} |-> mem[o]]

\* decode takes as many attributes as the number says, each where the one
\* before ends; where there is none it raises, with the former ones set.
Decode(mem) ==
  LET count == IF 0 \in DOMAIN mem THEN mem[0].cell ELSE 0
      step[i \in 0..count] ==
        IF i = 0 THEN [at |-> SizeOfInt, fields |-> <<>>, ok |-> 0 \in DOMAIN mem]
        ELSE LET former == step[i - 1]
             IN IF former.ok /\ former.at \in DOMAIN mem
                  THEN [at |-> former.at + mem[former.at].size,
                        fields |-> Append(former.fields, mem[former.at].cell),
                        ok |-> TRUE]
                  ELSE [former EXCEPT !.ok = FALSE]
  IN step[count]

=============================================================================
