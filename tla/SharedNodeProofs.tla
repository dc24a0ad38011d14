-------------------------- MODULE SharedNodeProofs --------------------------
(***************************************************************************)
(* Theorems about SharedNode, for every number of nodes, names and sizes   *)
(* of the registry, with crashes and restarts at any point: which keys the *)
(* nodes get, and what is in the registry they share.                      *)
(***************************************************************************)
EXTENDS SharedNode, CodecProofs, TLAPS

KeyLabels == {"start", "load", "generate", "open", "write", "ready", "crashed"}

KeyTypes ==
  /\ file \in [Files -> Makers \cup {None, Empty}]
  /\ keyPc \in [Makers -> KeyLabels]
  /\ key \in [Makers -> Makers \cup {None, Empty}]
  /\ source \in [Makers -> Files]
  /\ raced \in BOOLEAN

\* The key a maker has got is the one in its file, and stays there; a file is
\* only made while it has no key.
Kept ==
  /\ \A u \in Makers :
       keyPc[u] = "load" => source[u] = "configured" /\ file["configured"] # None
  /\ ~raced =>
       \A u \in Makers :
         /\ keyPc[u] = "ready" =>
              \/ key[u] = file[source[u]] /\ key[u] \in Makers
              \/ source[u] = "configured" /\ key[u] = Empty
         /\ keyPc[u] \in {"open", "write"} => file[source[u]] \in {None, Empty}

\* One maker at a time makes a file, or it goes on record.
Alone ==
  ~raced =>
    \A u, w \in Makers :
      /\ keyPc[u] \in {"open", "write"} /\ keyPc[w] \in {"open", "write"}
      /\ source[u] = source[w]
      => u = w

KeyInv == KeyTypes /\ Kept /\ Alone

-----------------------------------------------------------------------------
(* The files and the keys.                                                 *)

\* A file without a key, or without text, is made by nobody.
LEMMA Distinct ==
  /\ None \notin Makers /\ Empty \notin Makers /\ None # Empty
  /\ "configured" \in Files /\ "temporary" \in Files /\ Tool \in Makers
  /\ Files = {"configured", "temporary"}
BY KeyFileAssumption, MachineNodesAssumption DEF Makers, Files

\* Which file a maker looks for.
LEMMA CheckPathKeeps ==
  ASSUME KeyInv, NEW u \in Makers, CheckPath(u)
  PROVE  KeyInv'
<1>1. PICK label, f :
        /\ keyPc' = [keyPc EXCEPT ![u] = label] /\ source' = [source EXCEPT ![u] = f]
        /\ label = "generate" \/ (label = "load" /\ f = "configured" /\ file["configured"] # None)
        /\ f \in Files /\ UNCHANGED <<file, key, raced>>
  BY Distinct DEF CheckPath, KeyGo
<1>2. KeyTypes'
  BY <1>1 DEF KeyInv, KeyTypes, KeyLabels
<1>3. Kept'
  BY <1>1 DEF KeyInv, KeyTypes, Kept
<1>4. Alone'
  BY <1>1 DEF KeyInv, KeyTypes, Alone
<1> QED BY <1>2, <1>3, <1>4 DEF KeyInv

\* The configured file is loaded, with or without text.
LEMMA LoadKeyKeeps ==
  ASSUME KeyInv, NEW u \in Makers, LoadKey(u)
  PROVE  KeyInv'
<1>1. /\ keyPc[u] = "load" /\ key' = [key EXCEPT ![u] = file["configured"]]
      /\ keyPc' = [keyPc EXCEPT ![u] = "ready"] /\ UNCHANGED <<file, source, raced>>
  BY DEF LoadKey, Got, KeyGo
<1>2. source[u] = "configured" /\ file["configured"] \in Makers \cup {Empty}
  BY <1>1, Distinct DEF KeyInv, KeyTypes, Kept
<1>3. KeyTypes'
  BY <1>1, <1>2 DEF KeyInv, KeyTypes, KeyLabels
<1>4. Kept'
  BY <1>1, <1>2 DEF KeyInv, KeyTypes, Kept
<1>5. Alone'
  BY <1>1 DEF KeyInv, KeyTypes, Alone
<1> QED BY <1>3, <1>4, <1>5 DEF KeyInv

\* The key in the file is taken, or one will be made.
LEMMA GenerateKeeps ==
  ASSUME KeyInv, NEW u \in Makers, Generate(u)
  PROVE  KeyInv'
<1>1. CASE file[source[u]] \notin {None, Empty}
  <2>1. /\ key' = [key EXCEPT ![u] = file[source[u]]]
        /\ keyPc' = [keyPc EXCEPT ![u] = "ready"] /\ UNCHANGED <<file, source, raced>>
    BY <1>1 DEF Generate, Got, KeyGo
  <2>2. file[source[u]] \in Makers
    BY <1>1 DEF KeyInv, KeyTypes
  <2>3. KeyTypes'
    BY <2>1, <2>2 DEF KeyInv, KeyTypes, KeyLabels
  <2>4. Kept'
    BY <2>1, <2>2 DEF KeyInv, KeyTypes, Kept
  <2>5. Alone'
    BY <2>1 DEF KeyInv, KeyTypes, Alone
  <2> QED BY <2>3, <2>4, <2>5 DEF KeyInv
<1>2. CASE file[source[u]] \in {None, Empty}
  <2>1. /\ keyPc' = [keyPc EXCEPT ![u] = "open"] /\ UNCHANGED <<key, file, source>>
        /\ raced' = (raced \/ Making(u) # {})
    BY <1>2 DEF Generate, KeyGo
  <2>2. KeyTypes'
    BY <2>1 DEF KeyInv, KeyTypes, KeyLabels
  <2>3. Kept'
    BY <1>2, <2>1 DEF KeyInv, KeyTypes, Kept
  <2>4. ASSUME ~raced' PROVE ~raced /\ \A w \in Makers \ {u} :
          keyPc[w] \in {"open", "write"} => source[w] # source[u]
    BY <2>1, <2>4 DEF Making
  <2>5. Alone'
    BY <2>1, <2>4 DEF KeyInv, KeyTypes, Alone
  <2> QED BY <2>2, <2>3, <2>5 DEF KeyInv
<1> QED BY <1>1, <1>2

\* The file is opened, which empties it.
LEMMA OpenFileKeeps ==
  ASSUME KeyInv, NEW u \in Makers, OpenFile(u)
  PROVE  KeyInv'
<1>1. /\ keyPc[u] = "open" /\ file' = [file EXCEPT ![source[u]] = Empty]
      /\ keyPc' = [keyPc EXCEPT ![u] = "write"] /\ UNCHANGED <<key, source, raced>>
  BY DEF OpenFile, KeyGo
<1>2. source[u] \in Files
  BY DEF KeyInv, KeyTypes
<1>3. KeyTypes'
  BY <1>1, <1>2 DEF KeyInv, KeyTypes, KeyLabels
<1>4. Kept'
  <2>1. ~raced => file[source[u]] \in {None, Empty}
    BY <1>1 DEF KeyInv, Kept
  <2>2. file'["configured"] = file["configured"] \/ file'["configured"] = Empty
    BY <1>1, <1>2, Distinct DEF KeyInv, KeyTypes
  <2>3. \A w \in Makers : keyPc'[w] = "load" => source'[w] = "configured" /\ file'["configured"] # None
    BY <1>1, <2>2, Distinct DEF KeyInv, KeyTypes, Kept
  <2>4. ASSUME ~raced, NEW w \in Makers
        PROVE  /\ keyPc'[w] = "ready" =>
                    \/ key'[w] = file'[source'[w]] /\ key'[w] \in Makers
                    \/ source'[w] = "configured" /\ key'[w] = Empty
               /\ keyPc'[w] \in {"open", "write"} => file'[source'[w]] \in {None, Empty}
    BY <1>1, <1>2, <2>1, <2>4, Distinct DEF KeyInv, KeyTypes, Kept
  <2> QED BY <1>1, <2>3, <2>4 DEF Kept
<1>5. Alone'
  BY <1>1 DEF KeyInv, KeyTypes, Alone
<1> QED BY <1>3, <1>4, <1>5 DEF KeyInv

\* The key is written to it: who has got one before has it from another file.
LEMMA WriteKeyKeeps ==
  ASSUME KeyInv, NEW u \in Makers, WriteKey(u)
  PROVE  KeyInv'
<1>1. /\ keyPc[u] = "write" /\ file' = [file EXCEPT ![source[u]] = u]
      /\ keyPc' = [keyPc EXCEPT ![u] = "ready"] /\ key' = [key EXCEPT ![u] = u]
      /\ UNCHANGED <<source, raced>>
  BY DEF WriteKey, Got, KeyGo
<1>2. source[u] \in Files
  BY DEF KeyInv, KeyTypes
<1>3. KeyTypes'
  BY <1>1, <1>2 DEF KeyInv, KeyTypes, KeyLabels
<1>4. Kept'
  <2>1. ~raced => /\ file[source[u]] \in {None, Empty}
                  /\ \A w \in Makers : keyPc[w] \in {"open", "write"} /\ source[w] = source[u] => w = u
    BY <1>1 DEF KeyInv, Kept, Alone
  <2>2. file'["configured"] = file["configured"] \/ file'["configured"] = u
    BY <1>1, <1>2, Distinct DEF KeyInv, KeyTypes
  <2>3. \A w \in Makers : keyPc'[w] = "load" => source'[w] = "configured" /\ file'["configured"] # None
    BY <1>1, <2>2, Distinct DEF KeyInv, KeyTypes, Kept
  <2>4. ASSUME ~raced, NEW w \in Makers
        PROVE  /\ keyPc'[w] = "ready" =>
                    \/ key'[w] = file'[source'[w]] /\ key'[w] \in Makers
                    \/ source'[w] = "configured" /\ key'[w] = Empty
               /\ keyPc'[w] \in {"open", "write"} => file'[source'[w]] \in {None, Empty}
    <3>1. CASE w = u
      BY <1>1, <1>2, <3>1 DEF KeyInv, KeyTypes
    <3>2. CASE w # u
      BY <1>1, <1>2, <2>1, <2>4, <3>2, Distinct DEF KeyInv, KeyTypes, Kept
    <3> QED BY <3>1, <3>2
  <2> QED BY <1>1, <2>3, <2>4 DEF Kept
<1>5. Alone'
  BY <1>1 DEF KeyInv, KeyTypes, Alone
<1> QED BY <1>3, <1>4, <1>5 DEF KeyInv

\* A maker crashes, or starts again: it has no key and makes no file.
LEMMA AwayKeeps ==
  ASSUME KeyInv, NEW u \in Makers, CrashMaking(u) \/ ForgetKey(u)
  PROVE  KeyInv'
<1>1. PICK label \in {"start", "crashed"} :
        keyPc' = [keyPc EXCEPT ![u] = label] /\ UNCHANGED <<file, source, raced>>
  BY DEF CrashMaking, ForgetKey, KeyGo
<1>2. key' \in [Makers -> Makers \cup {None, Empty}]
      /\ \A w \in Makers : w # u => key'[w] = key[w]
  BY DEF CrashMaking, ForgetKey, KeyInv, KeyTypes
<1>3. KeyTypes'
  BY <1>1, <1>2 DEF KeyInv, KeyTypes, KeyLabels
<1>4. Kept'
  BY <1>1, <1>2 DEF KeyInv, KeyTypes, Kept
<1>5. Alone'
  BY <1>1 DEF KeyInv, KeyTypes, Alone
<1> QED BY <1>3, <1>4, <1>5 DEF KeyInv

\* Nobody has a key at first; the files may be there, without text.
LEMMA InitKeys == Init => KeyInv
<1> SUFFICES ASSUME Init PROVE KeyInv
  OBVIOUS
<1>1. KeyInit
  BY DEF Init
<1>2. KeyTypes
  BY <1>1, Distinct DEF KeyInit, KeyTypes, KeyLabels
<1>3. Kept /\ Alone
  BY <1>1 DEF KeyInit, Kept, Alone
<1> QED BY <1>2, <1>3 DEF KeyInv

\* What nodes do in the registry has no effect on the files.
LEMMA NextKeys == KeyInv /\ [Next]_vars => KeyInv'
<1> SUFFICES ASSUME KeyInv, [Next]_vars PROVE KeyInv'
  OBVIOUS
<1>1. CASE UNCHANGED keyVars
  BY <1>1 DEF keyVars, KeyInv, KeyTypes, Kept, Alone
<1>2. ASSUME NEW u \in Makers, GetKey(u) PROVE KeyInv'
  BY <1>2, CheckPathKeeps, LoadKeyKeeps, GenerateKeeps, OpenFileKeeps, WriteKeyKeeps,
     AwayKeeps DEF GetKey
<1>3. ASSUME NEW n \in Nodes, StartAgain(n) PROVE KeyInv'
  BY <1>3, AwayKeeps DEF StartAgain, Makers
<1> QED BY <1>1, <1>2, <1>3 DEF Next, vars

\* The inductive invariant of the key files.
THEOREM KeyInvariance == Spec => []KeyInv
BY InitKeys, NextKeys, PTL DEF Spec

\* Nodes that got their keys from the same file have the same key, unless two
\* found it missing at once, whoever crashes or starts again; what a node loads
\* from the configured file while the tool has only opened it is excepted.
THEOREM SameKeys == Spec => []KeysAgree
<1>1. KeyInv => KeysAgree
  BY Distinct DEF KeyInv, KeyTypes, Kept, KeysAgree
<1> QED BY <1>1, KeyInvariance, PTL

-----------------------------------------------------------------------------
(* What is in the registry.                                                *)

Entry == [key : Nodes, value : {NameOf(n) : n \in Nodes} \cup {NoName}]

\* The attributes of an instance, and of what is written to the registry.
IsList(s) == s \in Seq(Entry) /\ \A i, j \in 1..Len(s) : s[i].key = s[j].key => i = j

LEMMA Names ==
  ASSUME NEW f \in Entry
  PROVE  IsValue(f.value) /\ Len(f.key) \in Nat
<1>1. NameLength \in Nat /\ \A n \in Nodes : Len(n) \in Nat
  BY RegistryAssumption DEF MaxText
<1>2. f.key \in Nodes /\ (f.value = NoName \/ \E n \in Nodes : f.value = NameOf(n))
  BY DEF Entry
<1>3. CASE f.value = NoName
  <2>1. f.value.type = "none"
    BY <1>3 DEF NoName
  <2> QED BY <1>1, <1>2, <2>1 DEF IsValue, IsScalar, Payload
<1>4. ASSUME NEW n \in Nodes, f.value = NameOf(n)
      PROVE  IsValue(f.value)
  <2>1. f.value.type = "str" /\ f.value.len = NameLength
    BY <1>4 DEF NameOf
  <2> QED BY <1>1, <2>1 DEF IsValue, IsScalar, Payload
<1> QED BY <1>1, <1>2, <1>3, <1>4

\* A list can be encoded.
LEMMA ListIsMessage ==
  ASSUME NEW s, IsList(s)
  PROVE  IsMessage(s) /\ Sized(s) /\ Len(s) \in Nat
<1>1. \A i \in 1..Len(s) : s[i] \in Entry
  BY DEF IsList
<1>2. s \in Seq({s[i] : i \in 1..Len(s)}) /\ Len(s) \in Nat
  BY DEF IsList
<1>3. IsMessage(s)
  BY <1>1, <1>2, Names DEF IsList, IsMessage
<1> QED BY <1>2, <1>3, MessageSized

\* decode sets one attribute.
LEMMA SetOne ==
  ASSUME NEW s \in Seq(Entry), NEW f \in Entry
  PROVE  SetAttribute(s, f) \in Seq(Entry) /\ (IsList(s) => IsList(SetAttribute(s, f)))
<1> DEFINE r == SetAttribute(s, f)
<1>1. Len(s) \in Nat /\ \A i \in 1..Len(s) : s[i] \in Entry
  OBVIOUS
<1>2. CASE f.key \notin Entries(s)
  <2>1. r = Append(s, f)
    BY <1>2 DEF SetAttribute
  <2> HIDE DEF r
  <2>2. /\ r \in Seq(Entry) /\ Len(r) = Len(s) + 1 /\ r[Len(s) + 1] = f
        /\ \A i \in 1..Len(s) : r[i] = s[i]
    BY <2>1
  <2>3. \A i \in 1..Len(s) : s[i].key # f.key
    BY <1>2 DEF Entries
  <2>4. ASSUME IsList(s), NEW i \in 1..Len(r), NEW j \in 1..Len(r), r[i].key = r[j].key
        PROVE  i = j
    <3>1. i \in 1..Len(s) \/ i = Len(s) + 1
      BY <1>1, <2>2
    <3>2. j \in 1..Len(s) \/ j = Len(s) + 1
      BY <1>1, <2>2
    <3> QED BY <2>2, <2>3, <2>4, <3>1, <3>2 DEF IsList
  <2> QED BY <2>2, <2>4 DEF r, IsList
<1>3. CASE f.key \in Entries(s)
  <2>1. r = [i \in 1..Len(s) |-> IF s[i].key = f.key THEN f ELSE s[i]]
    BY <1>3 DEF SetAttribute
  <2> HIDE DEF r
  <2>2. /\ r \in Seq(Entry) /\ Len(r) = Len(s)
        /\ \A i \in 1..Len(s) : r[i].key = s[i].key
    BY <1>1, <2>1
  <2> QED BY <2>2 DEF r, IsList
<1> QED BY <1>2, <1>3

\* It sets one after the other.
LEMMA SetSteps ==
  ASSUME NEW s \in Seq(Entry), NEW z \in Seq(Entry)
  PROVE  \E f \in [0..Len(z) -> Seq(Entry)] :
           /\ f[0] = s /\ \A i \in 1..Len(z) : f[i] = SetAttribute(f[i - 1], z[i])
           /\ SetAttributes(s, z) = f[Len(z)]
<1> DEFINE n == Len(z)
           D == Seq(Entry)
           g == [p \in (1..n) \X D |-> SetAttribute(p[2], z[p[1]])]
           Sets(f) == f = [i \in 0..n |-> IF i = 0 THEN s ELSE SetAttribute(f[i - 1], z[i])]
<1>1. n \in Nat /\ \A i \in 1..n : z[i] \in Entry
  OBVIOUS
<1>2. g \in [(1..n) \X D -> D]
  BY <1>1, SetOne
<1>3. PICK f \in [0..n -> D] : f[0] = s /\ \A i \in 1..n : f[i] = SetAttribute(f[i - 1], z[i])
  <2> HIDE DEF g, n, D
  <2>1. s \in D
    BY DEF D
  <2>2. PICK f \in [0..n -> D] : Recurs(f, n, s, g)
    BY <1>1, <1>2, <2>1, Recursion
  <2>3. ASSUME NEW i \in 1..n
        PROVE  f[i] = SetAttribute(f[i - 1], z[i])
    <3>1. f[i - 1] \in D
      BY <1>1
    <3>2. g[<<i, f[i - 1]>>] = SetAttribute(f[i - 1], z[i])
      BY <3>1 DEF g
    <3> QED BY <2>2, <3>2 DEF Recurs
  <2> QED BY <2>2, <2>3 DEF Recurs
<1>4. Sets(f)
  <2> HIDE DEF n, D
  <2>1. \A i \in 0..n : i # 0 => i \in 1..n
    BY <1>1
  <2> QED BY <1>1, <1>3, <2>1
<1> DEFINE set == CHOOSE h : Sets(h)
<1>5. Sets(set)
  <2> HIDE DEF Sets
  <2> QED BY <1>4
<1>6. SetAttributes(s, z) = set[n]
  BY DEF SetAttributes
<1> HIDE DEF n, D, set
<1>7. /\ set[0] = s /\ \A i \in 1..n : set[i] = SetAttribute(set[i - 1], z[i])
      /\ set = [i \in 0..n |-> set[i]]
  <2>1. set = [i \in 0..n |-> IF i = 0 THEN s ELSE SetAttribute(set[i - 1], z[i])]
    BY <1>5
  <2> HIDE <1>5
  <2>2. 0 \in 0..n /\ \A i \in 1..n : i \in 0..n /\ i # 0
    BY <1>1
  <2>3. set = [i \in 0..n |-> set[i]]
    BY <2>1
  <2>4. set[0] = s
    BY <2>1, <2>2, Zenon
  <2>5. ASSUME NEW i \in 1..n
        PROVE  set[i] = SetAttribute(set[i - 1], z[i])
    BY <2>1, <2>2, Zenon
  <2> QED BY <2>3, <2>4, <2>5
<1>8. \A i \in 0..n : set[i] \in D
  <2> DEFINE T == {i \in 0..n : set[i] \in D}
  <2>1. 0 \in T
    BY <1>1, <1>7 DEF D
  <2>2. ASSUME NEW i \in 1..n, i - 1 \in T
        PROVE  i \in T
    <3>1. set[i - 1] \in D /\ i \in 0..n /\ z[i] \in Entry
      BY <1>1, <2>2
    <3>2. set[i] \in D
      BY <1>7, <3>1, SetOne DEF D
    <3> QED BY <3>1, <3>2
  <2> HIDE DEF T
  <2>3. 0..n \subseteq T
    BY <1>1, <2>1, <2>2, UpTo
  <2> QED BY <2>3 DEF T
<1>9. set \in [0..n -> D]
  BY <1>7, <1>8
<1> QED BY <1>6, <1>7, <1>9 DEF n, D

\* What is decoded into a list leaves a list; what is decoded into nothing is
\* what there was.
LEMMA SetAll ==
  ASSUME NEW s, IsList(s), NEW z \in Seq(Entry)
  PROVE  /\ IsList(SetAttributes(s, z))
         /\ s = <<>> /\ IsList(z) => SetAttributes(s, z) = z
<1> DEFINE n == Len(z)
<1>1. n \in Nat /\ \A i \in 1..n : z[i] \in Entry
  OBVIOUS
<1>2. PICK f \in [0..n -> Seq(Entry)] :
        /\ f[0] = s /\ \A i \in 1..n : f[i] = SetAttribute(f[i - 1], z[i])
        /\ SetAttributes(s, z) = f[n]
  BY SetSteps DEF IsList
<1>3. IsList(f[n])
  <2> DEFINE T == {i \in 0..n : IsList(f[i])}
  <2>1. 0 \in T
    BY <1>1, <1>2
  <2>2. ASSUME NEW i \in 1..n, i - 1 \in T
        PROVE  i \in T
    <3>1. IsList(f[i - 1]) /\ f[i - 1] \in Seq(Entry) /\ i \in 0..n /\ z[i] \in Entry
      BY <1>1, <2>2 DEF IsList
    <3>2. IsList(f[i])
      BY <1>2, <3>1, SetOne
    <3> QED BY <3>1, <3>2
  <2> HIDE DEF T, n
  <2>3. 0..n \subseteq T
    BY <1>1, <2>1, <2>2, UpTo
  <2> QED BY <1>1, <2>3 DEF T
<1>4. ASSUME s = <<>>, IsList(z)
      PROVE  f[n] = z
  <2> DEFINE part(i) == [j \in 1..i |-> z[j]]
             T == {i \in 0..n : f[i] = part(i)}
  <2>1. 0 \in T
    <3>1. part(0) = <<>>
      OBVIOUS
    <3> QED BY <1>1, <1>2, <1>4, <3>1
  <2>2. ASSUME NEW i \in 1..n, i - 1 \in T
        PROVE  i \in T
    <3>1. /\ f[i - 1] = part(i - 1) /\ i - 1 \in Nat /\ i \in 0..n /\ i = (i - 1) + 1
          /\ z[i] \in Entry /\ f[i] = SetAttribute(f[i - 1], z[i])
      BY <1>1, <1>2, <2>2
    <3>2. \A j \in 1..(i - 1) : z[j] \in Entry /\ z[j].key # z[i].key
      BY <1>1, <1>4 DEF IsList
    <3>3. part(i - 1) \in Seq(Entry) /\ Len(part(i - 1)) = i - 1
      BY <3>1, <3>2
    <3>4. z[i].key \notin Entries(part(i - 1))
      BY <3>2, <3>3 DEF Entries
    <3>5. f[i] = Append(part(i - 1), z[i])
      BY <3>1, <3>4 DEF SetAttribute
    <3>6. Append(part(i - 1), z[i]) = part(i)
      BY <3>1, <3>3
    <3> QED BY <3>1, <3>5, <3>6
  <2>3. n \in T
    <3> HIDE DEF T, n
    <3>1. 0..n \subseteq T
      BY <1>1, <2>1, <2>2, UpTo
    <3> QED BY <1>1, <3>1
  <2>4. part(n) = z
    OBVIOUS
  <2> QED BY <2>3, <2>4
<1> QED BY <1>2, <1>3, <1>4

\* What is written has the entry of the node first, and then the others.
LEMMA AttributesOf ==
  ASSUME NEW n \in Nodes, NEW v, v = NameOf(n) \/ v = NoName,
         NEW s, s = node[n].inst, IsList(s), NEW m, m = Attributes(n, v)
  PROVE  /\ IsList(m)
         /\ \A q \in Nodes : Listed(q, s) => Listed(q, m)
         /\ n \notin Entries(s) => (Listed(n, m) <=> v = NameOf(n))
         /\ \A i \in 1..Len(m) : m[i] = [key |-> n, value |-> v] \/ \E j \in 1..Len(s) : m[i] = s[j]
<1> DEFINE e == [key |-> n, value |-> v]
<1>1. Len(s) \in Nat /\ s \in Seq(Entry) /\ \A i \in 1..Len(s) : s[i] \in Entry
  BY DEF IsList
<1>2. e \in Entry /\ e.key = n /\ e.value = v
  BY DEF Entry
<1>3. CASE n \notin Entries(s)
  <2>1. m = <<e>> \o s
    BY <1>3 DEF Attributes
  <2>2. \A i \in 1..Len(s) : s[i].key # n
    BY <1>3 DEF Entries
  <2> HIDE DEF e
  <2>3. /\ m \in Seq(Entry) /\ Len(m) = Len(s) + 1 /\ m[1] = e
        /\ \A i \in 1..Len(s) : m[i + 1] = s[i]
    BY <1>1, <1>2, <2>1
  <2>4. ASSUME NEW i \in 1..Len(m)
        PROVE  i = 1 \/ (i - 1 \in 1..Len(s) /\ m[i] = s[i - 1])
    <3>1. i = 1 \/ (i - 1 \in 1..Len(s) /\ (i - 1) + 1 = i)
      BY <1>1, <2>3
    <3>2. i - 1 \in 1..Len(s) => m[(i - 1) + 1] = s[i - 1]
      BY <2>3
    <3> QED BY <3>1, <3>2
  <2>5. IsList(m)
    <3>1. ASSUME NEW i \in 1..Len(m), NEW j \in 1..Len(m), m[i].key = m[j].key
          PROVE  i = j
      <4>0. /\ i = 1 \/ (i - 1 \in 1..Len(s) /\ m[i] = s[i - 1])
            /\ j = 1 \/ (j - 1 \in 1..Len(s) /\ m[j] = s[j - 1])
            /\ m[1].key = n
        BY <1>2, <2>3, <2>4
      <4>1. CASE i = 1
        BY <2>2, <3>1, <4>0, <4>1
      <4>2. CASE j = 1
        BY <2>2, <3>1, <4>0, <4>2
      <4>3. CASE i # 1 /\ j # 1
        <5>1. i - 1 = j - 1
          BY <3>1, <4>0, <4>3 DEF IsList
        <5>2. i \in Nat /\ j \in Nat
          BY <1>1, <2>3
        <5> QED BY <5>1, <5>2
      <4> QED BY <4>1, <4>2, <4>3
    <3> QED BY <2>3, <3>1 DEF IsList
  <2>6. ASSUME NEW q \in Nodes, Listed(q, s)
        PROVE  Listed(q, m)
    <3>1. PICK i \in 1..Len(s) : s[i].key = q /\ s[i].value = NameOf(q)
      BY <2>6 DEF Listed
    <3>2. i + 1 \in 1..Len(m) /\ m[i + 1] = s[i]
      BY <1>1, <2>3
    <3> QED BY <3>1, <3>2 DEF Listed
  <2>7. Listed(n, m) <=> v = NameOf(n)
    <3>1. 1 \in 1..Len(m) /\ m[1].key = n /\ m[1].value = v
      BY <1>1, <1>2, <2>3
    <3>2. \A i \in 1..Len(m) : m[i].key = n => i = 1
      BY <2>2, <2>4
    <3> QED BY <3>1, <3>2 DEF Listed
  <2> QED BY <2>3, <2>4, <2>5, <2>6, <2>7 DEF e
<1>4. CASE n \in Entries(s)
  <2> DEFINE o == CHOOSE i \in 1..Len(s) : s[i].key = n
             a == SubSeq(s, 1, o - 1)
             b == SubSeq(s, o + 1, Len(s))
             p(i) == IF i = 1 THEN o ELSE IF i <= o THEN i - 1 ELSE i
  <2>1. o \in 1..Len(s) /\ s[o].key = n
    BY <1>4 DEF Entries
  <2>2. m = <<s[o]>> \o (a \o b)
    BY <1>4 DEF Attributes, RemoveAt
  <2> HIDE DEF o
  <2>3. /\ a \in Seq(Entry) /\ Len(a) = o - 1 /\ \A i \in 1..(o - 1) : a[i] = s[i]
        /\ b \in Seq(Entry) /\ Len(b) = Len(s) - o /\ \A i \in 1..(Len(s) - o) : b[i] = s[o + i]
    <3>1. a \in Seq(Entry) /\ Len(a) = o - 1 /\ \A i \in 1..(o - 1) : a[i] = s[i]
      <4>1. 1 \in Int /\ o - 1 \in Int /\ \A i \in 1..(o - 1) : s[i] \in Entry
        BY <1>1, <2>1
      <4>2. /\ a \in Seq(Entry) /\ Len(a) = IF 1 <= o - 1 THEN (o - 1) - 1 + 1 ELSE 0
            /\ \A i \in 1..((o - 1) - 1 + 1) : a[i] = s[1 + i - 1]
        BY <4>1, SubSeqProperties
      <4>3. (o - 1) - 1 + 1 = o - 1 /\ \A i \in 1..(o - 1) : 1 + i - 1 = i
        BY <1>1, <2>1
      <4> HIDE DEF a
      <4> QED BY <1>1, <2>1, <4>2, <4>3
    <3>2. b \in Seq(Entry) /\ Len(b) = Len(s) - o /\ \A i \in 1..(Len(s) - o) : b[i] = s[o + i]
      <4>1. o + 1 \in Int /\ Len(s) \in Int /\ \A i \in (o + 1)..Len(s) : s[i] \in Entry
        BY <1>1, <2>1
      <4>2. /\ b \in Seq(Entry) /\ Len(b) = IF o + 1 <= Len(s) THEN Len(s) - (o + 1) + 1 ELSE 0
            /\ \A i \in 1..(Len(s) - (o + 1) + 1) : b[i] = s[(o + 1) + i - 1]
        BY <4>1, SubSeqProperties
      <4>3. Len(s) - (o + 1) + 1 = Len(s) - o /\ \A i \in 1..(Len(s) - o) : (o + 1) + i - 1 = o + i
        BY <1>1, <2>1
      <4> HIDE DEF b
      <4> QED BY <1>1, <2>1, <4>2, <4>3
    <3> QED BY <3>1, <3>2
  <2> HIDE DEF a, b
  <2>4. /\ a \o b \in Seq(Entry) /\ Len(a \o b) = Len(s) - 1
        /\ \A i \in 1..(Len(s) - 1) : (a \o b)[i] = IF i < o THEN s[i] ELSE s[i + 1]
    <3>1. a \o b \in Seq(Entry) /\ Len(a \o b) = Len(s) - 1
      BY <1>1, <2>1, <2>3
    <3>2. ASSUME NEW i \in 1..(Len(s) - 1)
          PROVE  (a \o b)[i] = IF i < o THEN s[i] ELSE s[i + 1]
      <4>1. CASE i < o
        BY <1>1, <2>1, <2>3, <4>1
      <4>2. CASE ~(i < o)
        <5>1. i - (o - 1) \in 1..(Len(s) - o) /\ o + (i - (o - 1)) = i + 1
          BY <1>1, <2>1, <4>2
        <5>2. i \in 1..(Len(a) + Len(b)) /\ ~(i <= Len(a)) /\ i - Len(a) = i - (o - 1)
          BY <1>1, <2>1, <2>3, <4>2
        <5>3. (a \o b)[i] = b[i - (o - 1)]
          BY <2>3, <5>2, ConcatProperties
        <5> QED BY <2>3, <4>2, <5>1, <5>3
      <4> QED BY <4>1, <4>2
    <3> QED BY <3>1, <3>2
  <2>5. /\ m \in Seq(Entry) /\ Len(m) = Len(s)
        /\ \A i \in 1..Len(s) : m[i] = s[p(i)] /\ p(i) \in 1..Len(s)
    <3> DEFINE c == a \o b
    <3> HIDE DEF c
    <3>1. m \in Seq(Entry) /\ Len(m) = Len(s) /\ m[1] = s[o]
      BY <1>1, <2>1, <2>2, <2>4 DEF c
    <3>2. \A i \in 1..(Len(s) - 1) : m[i + 1] = c[i]
      BY <1>1, <2>1, <2>2, <2>4 DEF c
    <3>3. ASSUME NEW i \in 1..Len(s), i # 1
          PROVE  m[i] = s[p(i)] /\ p(i) \in 1..Len(s)
      <4>1. i - 1 \in 1..(Len(s) - 1) /\ (i - 1) + 1 = i
        BY <1>1, <3>3
      <4>2. m[i] = IF i - 1 < o THEN s[i - 1] ELSE s[i]
        BY <2>4, <3>2, <4>1 DEF c
      <4> QED BY <1>1, <2>1, <3>3, <4>2
    <3> QED BY <2>1, <3>1, <3>3
  <2>6. \A i, j \in 1..Len(s) : p(i) = p(j) => i = j
    BY <1>1, <2>1
  <2>7. ASSUME NEW j \in 1..Len(s)
        PROVE  \E i \in 1..Len(s) : p(i) = j
    <3>1. CASE j = o
      <4>1. 1 \in 1..Len(s) /\ p(1) = j
        BY <1>1, <3>1
      <4> QED BY <4>1
    <3>2. CASE j < o
      <4>1. j + 1 \in 1..Len(s) /\ p(j + 1) = j
        BY <1>1, <2>1, <3>2
      <4> QED BY <4>1
    <3>3. CASE j > o
      <4>1. j \in 1..Len(s) /\ p(j) = j
        BY <1>1, <2>1, <3>3
      <4> QED BY <4>1
    <3> QED BY <1>1, <2>1, <3>1, <3>2, <3>3
  <2> HIDE DEF p
  <2>8. IsList(m)
    <3>1. ASSUME NEW i \in 1..Len(m), NEW j \in 1..Len(m), m[i].key = m[j].key
          PROVE  i = j
      <4>1. s[p(i)].key = s[p(j)].key /\ p(i) \in 1..Len(s) /\ p(j) \in 1..Len(s)
        BY <2>5, <3>1
      <4>2. p(i) = p(j)
        BY <4>1 DEF IsList
      <4> QED BY <2>5, <2>6, <4>2
    <3> QED BY <2>5, <3>1 DEF IsList
  <2>9. ASSUME NEW q \in Nodes, Listed(q, s)
        PROVE  Listed(q, m)
    <3>1. PICK j \in 1..Len(s) : s[j].key = q /\ s[j].value = NameOf(q)
      BY <2>9 DEF Listed
    <3>2. PICK i \in 1..Len(s) : p(i) = j
      BY <2>7
    <3> QED BY <2>5, <3>1, <3>2 DEF Listed
  <2>10. \A i \in 1..Len(m) : \E j \in 1..Len(s) : m[i] = s[j]
    BY <2>5
  <2> QED BY <1>4, <2>8, <2>9, <2>10
<1> QED BY <1>3, <1>4

-----------------------------------------------------------------------------
(* The nodes and the registry.                                             *)

Orderly == ~overlapped /\ ~departed
Busy(n) == node[n].at \in {"register", "saving"}

\* A list has the entries of all nodes that are up, and no other values.
Complete(m) ==
  /\ \A q \in Nodes : node[q].at = "up" => Listed(q, m)
  /\ \A i \in 1..Len(m) : m[i].value = NameOf(m[i].key)

Memory ==
  IsMemory(registry) /\ \A o \in DOMAIN registry \ {0} : registry[o].cell \in Entry

IsNode(r) ==
  {"at", "inst", "cells", "end", "goal", "alone", "torn", "looked"} \subseteq DOMAIN r

\* A node has looked at the entry that its instance has of it; a read that
\* failed was of a registry that nobody wrote as a whole.
NodeRight(n) ==
  LET r == node[n]
  IN /\ IsNode(r) /\ IsList(r.inst)
     /\ r.at \in {"new", "create", "size", "advertise"} => r.inst = <<>>
     /\ n \in Entries(r.inst) => r.looked
     /\ r.at = "blocked" => r.torn

NodesRight == node = [n \in Nodes |-> node[n]] /\ \A n \in Nodes : NodeRight(n)

\* A node that writes has written the first cells of a list, which are in the
\* registry if it is alone.
Copied(n, m) ==
  \E k \in 0..(Len(m) + 1) :
    /\ node[n].cells = SubSeq(Encode(m), k + 1, Len(m) + 1)
    /\ node[n].alone => Holds(registry, m, k)

Saves(n, m) ==
  /\ IsList(m) /\ node[n].end = EncodedSize(m)
  /\ node[n].goal \in {"up", "stopped"}
  /\ node[n].goal = "stopped" => node[n].looked \/ ~Listed(n, m)
  /\ Orderly => Complete(m) /\ Listed(n, m)
  /\ Copied(n, m)

Savers ==
  /\ \A n \in Nodes : Saving(n) => ~clean /\ \E m : Saves(n, m)
  /\ \A n, q \in Nodes : Saving(n) /\ node[n].alone /\ Saving(q) => q = n

\* What one node wrote is a list.
Clean ==
  clean => \E m : /\ IsList(m) /\ Holds(registry, m, Len(m) + 1)
                  /\ Orderly => Complete(m)

\* As long as no two registered at once and none stopped.
Order ==
  Orderly =>
    /\ \A n, q \in Nodes : Busy(n) /\ Busy(q) => n = q
    /\ \A n \in Nodes : Saving(n) => node[n].alone
    /\ \A n \in Nodes : node[n].at = "register" => Complete(node[n].inst)
    /\ clean \/ \E n \in Nodes : Saving(n)

RegInv == Memory /\ NodesRight /\ Savers /\ Clean /\ Order

\* One node changes.
LEMMA NodeChanges ==
  ASSUME NodesRight, NEW n \in Nodes, NEW r, node' = [node EXCEPT ![n] = r]
  PROVE  /\ node' = [q \in Nodes |-> node'[q]]
         /\ node'[n] = r /\ \A q \in Nodes : q # n => node'[q] = node[q]
BY DEF NodesRight

\* A node goes, or comes to where it has nothing to do with the others.
LEMMA NodeGoes ==
  ASSUME RegInv, NEW n \in Nodes, NEW r, IsNode(r), node' = [node EXCEPT ![n] = r],
         UNCHANGED <<registry, clean, overlapped>>, departed => departed',
         Saving(n) => departed', IsList(r.inst),
         r.at \notin {"register", "saving", "up", "blocked"},
         r.at \in {"new", "create", "size", "advertise"} => r.inst = <<>>,
         n \in Entries(r.inst) => r.looked
  PROVE  RegInv'
<1>1. /\ node' = [q \in Nodes |-> node'[q]]
      /\ node'[n] = r /\ \A q \in Nodes : q # n => node'[q] = node[q]
  BY NodeChanges DEF RegInv
<1>2. Orderly' => Orderly /\ ~Saving(n)
  BY DEF Orderly
<1>3. \A m : Complete(m) => Complete(m)'
  BY <1>1 DEF Complete
<1>4. Memory'
  BY DEF RegInv, Memory
<1>5. NodesRight'
  <2>1. NodeRight(n)'
    BY <1>1 DEF NodeRight
  <2>2. \A q \in Nodes : q # n => NodeRight(q)'
    BY <1>1 DEF RegInv, NodesRight, NodeRight
  <2> QED BY <1>1, <2>1, <2>2 DEF NodesRight
<1>6. Savers'
  <2>1. ASSUME NEW q \in Nodes, Saving(q)'
        PROVE  q # n /\ Saving(q) /\ ~clean' /\ \E m : Saves(q, m)'
    <3>1. q # n /\ node'[q] = node[q] /\ Saving(q)
      BY <1>1, <2>1 DEF Saving
    <3>2. PICK m : Saves(q, m)
      BY <3>1 DEF RegInv, Savers
    <3>3. Copied(q, m)'
      BY <3>1, <3>2 DEF Saves, Copied
    <3>4. Orderly' => Complete(m)' /\ Listed(q, m)
      BY <1>2, <1>3, <3>2 DEF Saves
    <3>5. Saves(q, m)'
      BY <3>1, <3>2, <3>3, <3>4 DEF Saves
    <3> QED BY <3>1, <3>5 DEF RegInv, Savers
  <2>2. \A q \in Nodes : Saving(q)' => node'[q] = node[q]
    BY <1>1, <2>1
  <2> QED BY <2>1, <2>2 DEF RegInv, Savers
<1>7. Clean'
  BY <1>2, <1>3 DEF RegInv, Clean
<1>8. Order'
  <2> SUFFICES ASSUME Orderly'
               PROVE  /\ \A p, q \in Nodes : Busy(p)' /\ Busy(q)' => p = q
                      /\ \A q \in Nodes : Saving(q)' => node'[q].alone
                      /\ \A q \in Nodes : node'[q].at = "register" => Complete(node[q].inst)'
                      /\ clean' \/ \E q \in Nodes : Saving(q)'
    BY DEF Order
  <2>1. \A q \in Nodes : (Busy(q)' \/ Saving(q)') => node'[q] = node[q] /\ q # n
    BY <1>1 DEF Busy, Saving
  <2>2. \A q \in Nodes : node'[q].at = "register" => Complete(node[q].inst)'
    <3> TAKE q \in Nodes
    <3> HAVE node'[q].at = "register"
    <3>1. q # n /\ node'[q] = node[q] /\ node[q].at = "register"
      BY <1>1
    <3>2. Complete(node[q].inst)
      BY <1>2, <3>1 DEF RegInv, Order
    <3> QED BY <1>1, <3>1, <3>2 DEF Complete
  <2>3. clean' \/ \E q \in Nodes : Saving(q)'
    <3>1. ASSUME NEW q \in Nodes, Saving(q)
          PROVE  Saving(q)'
      <4>1. q # n
        BY <1>2, <3>1
      <4> QED BY <1>1, <3>1, <4>1 DEF Saving
    <3> QED BY <1>2, <3>1 DEF RegInv, Order
  <2> QED BY <1>2, <2>1, <2>2, <2>3 DEF RegInv, Order, Busy, Saving
<1> QED BY <1>4, <1>5, <1>6, <1>7, <1>8 DEF RegInv

\* One that has not read the registry has nothing in its instance.
LEMMA EmptyList == IsList(<<>>)
BY DEF IsList

\* A node finds or makes the block, crashes, or starts again.
LEMMA AwayFromRegistry ==
  ASSUME RegInv, NEW n \in Nodes,
         Attach(n) \/ Create(n) \/ SetSize(n) \/ Crash(n) \/ Restart(n)
  PROVE  RegInv'
<1>0. NodeRight(n) /\ IsNode(node[n])
  BY DEF RegInv, NodesRight, NodeRight
<1>1. CASE Attach(n) \/ Create(n) \/ SetSize(n)
  <2>1. PICK label \in {"create", "down", "advertise", "size"} :
          /\ node' = [node EXCEPT ![n].at = label]
          /\ node[n].at \in {"new", "create", "size"}
          /\ UNCHANGED <<registry, clean, overlapped, departed>>
    BY <1>1 DEF Attach, Create, SetSize, Go
  <2> DEFINE r == [node[n] EXCEPT !.at = label]
  <2>2. node' = [node EXCEPT ![n] = r]
    BY <2>1
  <2>3. IsNode(r) /\ r.at = label /\ r.inst = node[n].inst /\ r.looked = node[n].looked
    BY <1>0 DEF IsNode
  <2> HIDE DEF r
  <2>4. IsList(r.inst) /\ r.inst = <<>> /\ (n \in Entries(r.inst) => r.looked) /\ ~Saving(n)
    BY <1>0, <2>1, <2>3 DEF NodeRight, Saving
  <2> QED BY <2>1, <2>2, <2>3, <2>4, NodeGoes
<1>2. CASE Crash(n) \/ Restart(n)
  <2>1. PICK label \in {"new", "down"} :
          /\ node' = [node EXCEPT ![n] = [NewNode EXCEPT !.at = label]]
          /\ (departed => departed') /\ (Saving(n) => departed')
          /\ UNCHANGED <<registry, clean, overlapped>>
    <3>1. CASE Crash(n)
      BY <3>1 DEF Crash
    <3>2. CASE Restart(n)
      <4>1. NewNode = [NewNode EXCEPT !.at = "new"]
        BY DEF NewNode
      <4>2. (departed => departed') /\ ~Saving(n)
        BY <3>2 DEF Restart, Saving
      <4> QED BY <3>2, <4>1, <4>2 DEF Restart
    <3> QED BY <1>2, <3>1, <3>2
  <2> DEFINE r == [NewNode EXCEPT !.at = label]
  <2>2. IsNode(r) /\ r.at = label /\ r.inst = <<>>
    BY DEF NewNode, IsNode
  <2>3. n \notin Entries(<<>>)
    BY DEF Entries
  <2> HIDE DEF r
  <2>4. node' = [node EXCEPT ![n] = r]
    BY <2>1 DEF r
  <2> QED BY <2>1, <2>2, <2>3, <2>4, EmptyList, NodeGoes
<1> QED BY <1>1, <1>2

\* What decode makes of the registry are entries; of a clean one, all of them.
LEMMA RegistryDecoded ==
  ASSUME RegInv
  PROVE  /\ Decode(registry).fields \in Seq(Entry)
         /\ clean => /\ Decode(registry).ok
                     /\ IsList(Decode(registry).fields)
                     /\ Orderly => Complete(Decode(registry).fields)
<1>1. Decode(registry).fields \in Seq(Entry)
  <2> DEFINE C == {registry[o].cell : o \in DOMAIN registry \ {0}}
  <2>1. Decode(registry).fields \in Seq(C)
    BY DecodeType DEF RegInv, Memory, Results
  <2>2. C \subseteq Entry
    BY DEF RegInv, Memory
  <2> HIDE DEF C
  <2> QED BY <2>1, <2>2, SeqMonotonic
<1>2. ASSUME clean
      PROVE  /\ Decode(registry).ok
             /\ IsList(Decode(registry).fields)
             /\ Orderly => Complete(Decode(registry).fields)
  <2>1. PICK m : /\ IsList(m) /\ Holds(registry, m, Len(m) + 1)
                 /\ Orderly => Complete(m)
    BY <1>2, Zenon DEF RegInv, Clean
  <2>2. Decode(registry).fields = m /\ Decode(registry).ok = TRUE
    BY <2>1, ListIsMessage, RoundTrip DEF RegInv, Memory
  <2> QED BY <2>1, <2>2
<1> QED BY <1>1, <1>2

\* A node reads the registry: into an instance without attributes, and then
\* registers; or while it is up. Orderly, nobody else is registering.
LEMMA ReadKeeps ==
  ASSUME RegInv, NEW n \in Nodes, Advertise(n) \/ Lookup(n)
  PROVE  RegInv'
<1> DEFINE d == Decode(registry)
           inst == SetAttributes(node[n].inst, d.fields)
           ok == d.ok
           seen == node[n].looked \/ n \in Entries(inst)
<1>0. NodeRight(n) /\ IsNode(node[n]) /\ ~Saving(n)
  BY DEF RegInv, NodesRight, NodeRight, Advertise, Lookup, Saving
<1>1. PICK label \in {"register", "up"} :
        /\ ReadInto(n, label) /\ UNCHANGED <<registry, clean, departed>>
        /\ overlapped => overlapped'
        /\ label = "up" => node[n].at = "up" /\ UNCHANGED overlapped
        /\ label = "register" =>
             /\ node[n].at = "advertise"
             /\ (\E q \in Nodes \ {n} : Busy(q)) => overlapped'
  <2>1. CASE Advertise(n)
    <3>1. ReadInto(n, "register") /\ UNCHANGED <<registry, clean, departed>> /\ node[n].at = "advertise"
      BY <2>1 DEF Advertise
    <3>2. (overlapped => overlapped') /\ ((\E q \in Nodes \ {n} : Busy(q)) => overlapped')
      BY <2>1, Zenon DEF Advertise, Busy
    <3> QED BY <3>1, <3>2
  <2>2. CASE Lookup(n)
    <3>1. ReadInto(n, "up") /\ UNCHANGED <<registry, clean, departed, overlapped>> /\ node[n].at = "up"
      BY <2>2 DEF Lookup
    <3> QED BY <3>1
  <2> QED BY <2>1, <2>2
<1>2. PICK r : /\ node' = [node EXCEPT ![n] = r] /\ IsNode(r)
               /\ r.inst = inst /\ r.torn = ~clean /\ r.looked = seen
               /\ r.at = (IF ok THEN label ELSE "blocked")
  <2> DEFINE r == [node[n] EXCEPT !.inst = inst, !.torn = ~clean, !.looked = seen,
                                  !.at = IF ok THEN label ELSE "blocked"]
  <2>1. node' = [node EXCEPT ![n].inst = inst, ![n].torn = ~clean,
                             ![n].looked = @ \/ n \in Entries(inst),
                             ![n].at = IF ok THEN label ELSE "blocked"]
    BY <1>1 DEF ReadInto
  <2> HIDE DEF inst, ok
  <2>2. node = [q \in Nodes |-> node[q]]
    BY DEF RegInv, NodesRight
  <2>3. node' = [node EXCEPT ![n] = r]
    BY <1>0, <2>1, <2>2 DEF IsNode
  <2> HIDE DEF seen
  <2>4. /\ IsNode(r) /\ r.inst = inst /\ r.torn = ~clean /\ r.looked = seen
        /\ r.at = (IF ok THEN label ELSE "blocked")
    BY <1>0 DEF IsNode
  <2> QED BY <2>3, <2>4
<1>3. /\ IsList(inst) /\ (clean => ok)
      /\ clean /\ Orderly /\ label = "register" => Complete(inst)
  <2>1. /\ d.fields \in Seq(Entry)
        /\ clean => ok /\ IsList(d.fields) /\ (Orderly => Complete(d.fields))
    BY RegistryDecoded
  <2>2. IsList(node[n].inst) /\ (label = "register" => node[n].inst = <<>>)
    BY <1>0, <1>1 DEF NodeRight
  <2> HIDE DEF d, ok
  <2>3. IsList(inst)
    BY <2>1, <2>2, SetAll
  <2>4. clean /\ Orderly /\ label = "register" => inst = d.fields
    BY <2>1, <2>2, SetAll
  <2> QED BY <2>1, <2>3, <2>4
<1> HIDE DEF d, inst, ok
<1>4. /\ node' = [q \in Nodes |-> node'[q]]
      /\ node'[n] = r /\ \A q \in Nodes : q # n => node'[q] = node[q]
  BY <1>2, NodeChanges DEF RegInv
<1>5. /\ Orderly' => Orderly
      /\ Orderly' /\ label = "register" => \A q \in Nodes : ~Busy(q)
  BY <1>1 DEF Orderly, Busy
<1>6. \A q \in Nodes : node'[q].at = "up" => node[q].at = "up"
  BY <1>1, <1>2, <1>4
<1>7. \A m : Complete(m) => Complete(m)'
  BY <1>6 DEF Complete
<1>8. Memory'
  BY <1>1 DEF RegInv, Memory
<1>9. NodesRight'
  <2>1. r.at \in {"register", "up", "blocked"} /\ (r.at = "blocked" => r.torn)
    BY <1>1, <1>2, <1>3
  <2>2. n \in Entries(r.inst) => r.looked
    BY <1>2
  <2>3. NodeRight(n)'
    BY <1>2, <1>3, <1>4, <2>1, <2>2 DEF NodeRight
  <2>4. \A q \in Nodes : q # n => NodeRight(q)'
    BY <1>4 DEF RegInv, NodesRight, NodeRight
  <2> QED BY <1>4, <2>3, <2>4 DEF NodesRight
<1>10. \A q \in Nodes : (Saving(q)' <=> Saving(q)) /\ (Saving(q) => q # n /\ node'[q] = node[q])
  BY <1>0, <1>1, <1>2, <1>4 DEF Saving
<1>11. Savers'
  <2>1. ASSUME NEW q \in Nodes, Saving(q)'
        PROVE  ~clean' /\ \E m : Saves(q, m)'
    <3>1. node'[q] = node[q] /\ Saving(q)
      BY <1>10, <2>1
    <3>2. PICK m : Saves(q, m)
      BY <3>1 DEF RegInv, Savers
    <3>3. Copied(q, m)'
      BY <1>1, <3>1, <3>2 DEF Saves, Copied
    <3>4. Orderly' => Complete(m)' /\ Listed(q, m)
      BY <1>5, <1>7, <3>2 DEF Saves
    <3>5. Saves(q, m)'
      BY <3>1, <3>2, <3>3, <3>4 DEF Saves
    <3> QED BY <1>1, <3>1, <3>5 DEF RegInv, Savers
  <2> QED BY <1>10, <2>1 DEF RegInv, Savers
<1>12. Clean'
  BY <1>1, <1>5, <1>7 DEF RegInv, Clean
<1>13. Order'
  <2> SUFFICES ASSUME Orderly'
               PROVE  /\ \A p, q \in Nodes : Busy(p)' /\ Busy(q)' => p = q
                      /\ \A q \in Nodes : Saving(q)' => node'[q].alone
                      /\ \A q \in Nodes : node'[q].at = "register" => Complete(node[q].inst)'
                      /\ clean' \/ \E q \in Nodes : Saving(q)'
    BY DEF Order
  <2>1. \A q \in Nodes : Busy(q)' => IF q = n THEN label = "register" ELSE Busy(q)
    BY <1>1, <1>2, <1>4 DEF Busy
  <2>2. \A p, q \in Nodes : Busy(p)' /\ Busy(q)' => p = q
    BY <1>5, <2>1 DEF RegInv, Order
  <2>3. ASSUME NEW q \in Nodes, node'[q].at = "register"
        PROVE  Complete(node[q].inst)'
    <3>1. CASE q = n
      <4>1. label = "register" /\ node'[n].inst = inst
        BY <1>2, <1>4, <2>3, <3>1
      <4>2. clean
        BY <1>5, <4>1 DEF RegInv, Order, Busy, Saving
      <4>3. Complete(inst)
        BY <1>3, <1>5, <4>1, <4>2
      <4> QED BY <1>6, <3>1, <4>1, <4>3 DEF Complete
    <3>2. CASE q # n
      <4>1. node'[q] = node[q] /\ Complete(node[q].inst)
        BY <1>4, <1>5, <2>3, <3>2 DEF RegInv, Order
      <4> QED BY <1>6, <4>1 DEF Complete
    <3> QED BY <3>1, <3>2
  <2> QED BY <1>1, <1>5, <1>10, <2>2, <2>3 DEF RegInv, Order
<1> QED BY <1>8, <1>9, <1>11, <1>12, <1>13 DEF RegInv

\* A node begins to write what its instance has: when it registers, and when
\* it stops. What does not fit is refused.
LEMMA SetEntryKeeps ==
  ASSUME RegInv, NEW n \in Nodes, NEW v, NEW goal, SetEntry(n, v, goal),
         UNCHANGED <<registry, overlapped>>,
         \/ goal = "up" /\ v = NameOf(n) /\ node[n].at = "register" /\ UNCHANGED departed
         \/ goal = "stopped" /\ v = NoName /\ node[n].at = "up" /\ departed'
  PROVE  RegInv'
<1>m. PICK m : m = Attributes(n, v)
  OBVIOUS
<1> DEFINE others == {q \in Nodes : Saving(q)}
<1>0. /\ NodeRight(n) /\ IsNode(node[n]) /\ IsList(node[n].inst) /\ ~Saving(n)
      /\ (v = NameOf(n) \/ v = NoName) /\ goal \in {"up", "stopped"} /\ (departed => departed')
  BY DEF RegInv, NodesRight, NodeRight, Saving
<1>1. CASE EncodedSize(m) > size
  <2>1. node' = [node EXCEPT ![n].at = "down"] /\ UNCHANGED clean
    BY <1>1, <1>m DEF SetEntry, Go
  <2> DEFINE r == [node[n] EXCEPT !.at = "down"]
  <2>2. node' = [node EXCEPT ![n] = r]
    BY <2>1
  <2>3. IsNode(r) /\ r.at = "down" /\ r.inst = node[n].inst /\ r.looked = node[n].looked
    BY <1>0 DEF IsNode
  <2> HIDE DEF r
  <2>4. IsList(r.inst) /\ (n \in Entries(r.inst) => r.looked)
    BY <1>0, <2>3 DEF NodeRight
  <2> QED BY <1>0, <2>1, <2>2, <2>3, <2>4, NodeGoes
<1>2. CASE ~(EncodedSize(m) > size)
  <2>1. PICK r : /\ node' = [q \in Nodes |-> IF q = n THEN r
                                             ELSE IF Saving(q) THEN [node[q] EXCEPT !.alone = FALSE]
                                             ELSE node[q]]
                 /\ IsNode(r) /\ r.at = "saving" /\ r.goal = goal /\ r.cells = Encode(m)
                 /\ r.end = EncodedSize(m) /\ (r.alone <=> others = {})
                 /\ r.inst = node[n].inst /\ r.looked = node[n].looked
                 /\ clean' = FALSE
    <3> DEFINE r == [node[n] EXCEPT !.at = "saving", !.goal = goal, !.cells = Encode(m),
                                    !.end = EncodedSize(m), !.alone = others = {}]
    <3>1. /\ node' = [q \in Nodes |-> IF q = n THEN r
                                      ELSE IF Saving(q) THEN [node[q] EXCEPT !.alone = FALSE]
                                      ELSE node[q]]
          /\ clean' = FALSE
      BY <1>2, <1>m DEF SetEntry
    <3> DEFINE c == Encode(m)
               e == EncodedSize(m)
               a == others = {}
    <3> HIDE DEF c, e, a
    <3>2. r = [node[n] EXCEPT !.at = "saving", !.goal = goal, !.cells = c, !.end = e, !.alone = a]
      BY DEF c, e, a
    <3> HIDE DEF r
    <3>3. /\ IsNode(r) /\ r.at = "saving" /\ r.goal = goal /\ r.cells = c /\ r.end = e
          /\ r.alone = a /\ r.inst = node[n].inst /\ r.looked = node[n].looked
      BY <1>0, <3>2 DEF IsNode
    <3> QED BY <3>1, <3>3 DEF c, e, a
  <2>2. ASSUME NEW q \in Nodes, q # n
        PROVE  /\ IsNode(node'[q])
               /\ node'[q].at = node[q].at /\ node'[q].inst = node[q].inst
               /\ node'[q].cells = node[q].cells /\ node'[q].end = node[q].end
               /\ node'[q].goal = node[q].goal /\ node'[q].looked = node[q].looked
               /\ node'[q].torn = node[q].torn
               /\ Saving(q) => node'[q].alone = FALSE
    <3>1. IsNode(node[q])
      BY DEF RegInv, NodesRight, NodeRight
    <3>2. CASE Saving(q)
      <4>1. node'[q] = [node[q] EXCEPT !.alone = FALSE]
        BY <2>1, <2>2, <3>2
      <4> QED BY <3>1, <4>1 DEF IsNode
    <3>3. CASE ~Saving(q)
      <4>1. node'[q] = node[q]
        BY <2>1, <2>2, <3>3
      <4> QED BY <3>1, <3>3, <4>1
    <3> QED BY <3>2, <3>3
  <2>3. node'[n] = r /\ node' = [q \in Nodes |-> node'[q]]
    BY <2>1
  <2>4. \A q \in Nodes : Saving(q)' <=> q = n \/ Saving(q)
    BY <2>1, <2>2, <2>3 DEF Saving
  <2>5. /\ Orderly' => Orderly /\ goal = "up" /\ v = NameOf(n) /\ node[n].at = "register"
        /\ Orderly' => \A q \in Nodes : Busy(q) => q = n
        /\ Orderly' => Complete(node[n].inst)
    <3>1. Orderly' => Orderly /\ goal = "up" /\ v = NameOf(n) /\ node[n].at = "register"
      BY DEF Orderly
    <3> QED BY <3>1 DEF RegInv, Order, Busy
  <2>6. Orderly' => r.alone
    BY <2>1, <2>5, <1>0 DEF Busy, Saving
  <2>7. \A q \in Nodes : node'[q].at = "up" => node[q].at = "up"
    BY <2>1, <2>2, <2>3
  <2>8. /\ IsList(m)
        /\ \A q \in Nodes : Listed(q, node[n].inst) => Listed(q, m)
        /\ n \notin Entries(node[n].inst) => (Listed(n, m) <=> v = NameOf(n))
        /\ \A i \in 1..Len(m) : \/ m[i] = [key |-> n, value |-> v]
                                \/ \E j \in 1..Len(node[n].inst) : m[i] = node[n].inst[j]
    <3>1. PICK s : s = node[n].inst
      OBVIOUS
    <3>2. IsList(s)
      BY <1>0, <3>1
    <3>3. /\ IsList(m)
          /\ \A q \in Nodes : Listed(q, s) => Listed(q, m)
          /\ n \notin Entries(s) => (Listed(n, m) <=> v = NameOf(n))
          /\ \A i \in 1..Len(m) : m[i] = [key |-> n, value |-> v] \/ \E j \in 1..Len(s) : m[i] = s[j]
      BY <1>0, <1>m, <3>1, <3>2, AttributesOf
    <3> QED BY <3>1, <3>3
  <2>9. Orderly' => Complete(m)' /\ Listed(n, m)
    <3> SUFFICES ASSUME Orderly' PROVE Complete(m)' /\ Listed(n, m)
      OBVIOUS
    <3> DEFINE s == node[n].inst
    <3>1. /\ \A q \in Nodes : node[q].at = "up" => Listed(q, s)
          /\ \A i \in 1..Len(s) : s[i].value = NameOf(s[i].key)
      BY <2>5 DEF Complete
    <3>2. \A q \in Nodes : node'[q].at = "up" => Listed(q, m)
      BY <2>7, <2>8, <3>1
    <3>3. ASSUME NEW i \in 1..Len(m)
          PROVE  m[i].value = NameOf(m[i].key)
      <4>1. CASE m[i] = [key |-> n, value |-> v]
        BY <2>5, <4>1
      <4>2. CASE \E j \in 1..Len(s) : m[i] = s[j]
        BY <3>1, <4>2
      <4> QED BY <2>8, <4>1, <4>2
    <3>4. Listed(n, m)
      <4>1. CASE n \in Entries(s)
        <5>1. PICK i \in 1..Len(s) : s[i].key = n
          BY <4>1 DEF Entries
        <5>2. Listed(n, s)
          BY <3>1, <5>1 DEF Listed
        <5> QED BY <2>8, <5>2
      <4>2. CASE n \notin Entries(s)
        BY <2>5, <2>8, <4>2
      <4> QED BY <4>1, <4>2
    <3> QED BY <3>2, <3>3, <3>4 DEF Complete
  <2>10. goal = "stopped" => node[n].looked \/ ~Listed(n, m)
    <3>1. NoName # NameOf(n)
      <4>1. NoName.type = "none" /\ NameOf(n).type = "str"
        BY DEF NoName, NameOf
      <4> QED BY <4>1
    <3>2. n \in Entries(node[n].inst) => node[n].looked
      BY <1>0 DEF NodeRight
    <3>3. goal = "stopped" => v = NoName
      OBVIOUS
    <3> QED BY <2>8, <3>1, <3>2, <3>3
  <2>11. Copied(n, m)'
    <3>1. /\ Len(Encode(m)) = Len(m) + 1 /\ Encode(m) = [i \in 1..(Len(m) + 1) |-> Encode(m)[i]]
          /\ Len(m) \in Nat
      BY <2>8, ListIsMessage, Cells
    <3> DEFINE e == Encode(m)
    <3> HIDE DEF e
    <3>2. e \in Seq({e[i] : i \in 1..Len(e)}) /\ Len(e) = Len(m) + 1
      BY <3>1 DEF e
    <3>3. SubSeq(e, 1, Len(e)) = e
      BY <3>2
    <3>4. 0 \in 0..(Len(m) + 1) /\ r.cells = SubSeq(e, 0 + 1, Len(m) + 1)
      BY <2>1, <3>1, <3>2, <3>3 DEF e
    <3>5. Holds(registry, m, 0)'
      BY DEF Holds
    <3> QED BY <2>3, <3>4, <3>5 DEF Copied, e
  <2>12. Saves(n, m)'
    <3>1. /\ IsList(m) /\ node'[n].end = EncodedSize(m) /\ node'[n].goal = goal
          /\ node'[n].looked = node[n].looked
      BY <2>1, <2>3, <2>8
    <3> QED BY <1>0, <2>9, <2>10, <2>11, <3>1 DEF Saves
  <2>13. ASSUME NEW q \in Nodes, q # n, Saving(q), NEW x, Saves(q, x)
         PROVE  Saves(q, x)'
    <3>1. Copied(q, x)'
      BY <2>2, <2>13 DEF Saves, Copied
    <3>2. ~Orderly'
      BY <2>5, <2>13 DEF Busy, Saving
    <3> QED BY <2>2, <2>13, <3>1, <3>2 DEF Saves
  <2>14. Memory'
    BY DEF RegInv, Memory
  <2>15. NodesRight'
    <3>1. NodeRight(n)'
      BY <1>0, <2>1, <2>3 DEF NodeRight
    <3>2. ASSUME NEW q \in Nodes, q # n
          PROVE  NodeRight(q)'
      <4>1. NodeRight(q)
        BY DEF RegInv, NodesRight
      <4> QED BY <2>2, <3>2, <4>1 DEF NodeRight
    <3> QED BY <2>3, <3>1, <3>2 DEF NodesRight
  <2>16. Savers'
    <3>1. ASSUME NEW q \in Nodes, Saving(q)'
          PROVE  ~clean' /\ \E x : Saves(q, x)'
      <4>1. CASE q = n
        BY <2>1, <2>12, <4>1
      <4>2. CASE q # n
        <5>1. Saving(q)
          BY <2>4, <3>1, <4>2
        <5>2. PICK x : Saves(q, x)
          BY <5>1 DEF RegInv, Savers
        <5> QED BY <2>1, <2>13, <4>2, <5>1, <5>2
      <4> QED BY <4>1, <4>2
    <3>2. ASSUME NEW q \in Nodes, Saving(q)', node'[q].alone, NEW x \in Nodes, Saving(x)'
          PROVE  x = q
      <4>1. CASE q = n
        BY <2>1, <2>3, <2>4, <3>2, <4>1
      <4>2. CASE q # n
        BY <2>2, <2>4, <3>2, <4>2
      <4> QED BY <4>1, <4>2
    <3> QED BY <3>1, <3>2 DEF Savers
  <2>17. Clean'
    BY <2>1 DEF Clean
  <2>18. Order'
    <3> SUFFICES ASSUME Orderly'
                 PROVE  /\ \A x, q \in Nodes : Busy(x)' /\ Busy(q)' => x = q
                        /\ \A q \in Nodes : Saving(q)' => node'[q].alone
                        /\ \A q \in Nodes : node'[q].at = "register" => Complete(node[q].inst)'
                        /\ clean' \/ \E q \in Nodes : Saving(q)'
      BY DEF Order
    <3>1. \A q \in Nodes : Busy(q)' => q = n
      BY <2>2, <2>5 DEF Busy
    <3>2. \A q \in Nodes : Saving(q)' \/ node'[q].at = "register" => q = n
      BY <3>1 DEF Busy, Saving
    <3>3. Saving(n)' /\ node'[n].alone /\ node'[n].at # "register"
      BY <2>1, <2>3, <2>6 DEF Saving
    <3> QED BY <3>1, <3>2, <3>3
  <2> QED BY <2>14, <2>15, <2>16, <2>17, <2>18 DEF RegInv
<1> QED BY <1>1, <1>2

\* What a node that writes has still to write; the others know that they do
\* not write alone.
LEMMA Progress ==
  ASSUME RegInv, NEW n \in Nodes, Saving(n)
  PROVE  /\ ~clean
         /\ \A q \in Nodes : Saving(q) /\ q # n => ~node[q].alone /\ ~node[n].alone
         /\ \E m : Saves(n, m)
         /\ \A m : Saves(n, m) =>
              /\ Sized(m) /\ Len(m) \in Nat
              /\ \A k \in 0..(Len(m) + 1) :
                   LET c == SubSeq(Encode(m), k + 1, Len(m) + 1)
                   IN IF k = Len(m) + 1 THEN c = <<>>
                      ELSE /\ c # <<>> /\ Head(c) = Encode(m)[k + 1]
                           /\ Tail(c) = SubSeq(Encode(m), (k + 1) + 1, Len(m) + 1)
<1>1. ASSUME NEW m, Saves(n, m)
      PROVE  /\ Sized(m) /\ Len(m) \in Nat
             /\ \A k \in 0..(Len(m) + 1) :
                  LET c == SubSeq(Encode(m), k + 1, Len(m) + 1)
                  IN IF k = Len(m) + 1 THEN c = <<>>
                     ELSE /\ c # <<>> /\ Head(c) = Encode(m)[k + 1]
                          /\ Tail(c) = SubSeq(Encode(m), (k + 1) + 1, Len(m) + 1)
  <2> DEFINE e == Encode(m)
             S == {e[i] : i \in 1..(Len(m) + 1)}
  <2>1. Sized(m) /\ Len(m) \in Nat
    BY <1>1, ListIsMessage DEF Saves
  <2>2. Len(e) = Len(m) + 1 /\ e = [i \in 1..(Len(m) + 1) |-> e[i]]
    BY <2>1, Cells
  <2> HIDE DEF e
  <2>3. e \in Seq(S)
    BY <2>1, <2>2
  <2>4. ASSUME NEW k \in 0..(Len(m) + 1)
        PROVE  LET c == SubSeq(e, k + 1, Len(m) + 1)
               IN IF k = Len(m) + 1 THEN c = <<>>
                  ELSE c # <<>> /\ Head(c) = e[k + 1] /\ Tail(c) = SubSeq(e, (k + 1) + 1, Len(m) + 1)
    <3>1. CASE k = Len(m) + 1
      <4>1. SubSeq(e, k + 1, Len(m) + 1) = <<>>
        BY <2>1, <2>2, <2>3, <3>1
      <4> QED BY <3>1, <4>1
    <3>2. CASE k # Len(m) + 1
      <4>1. k \in 0..(Len(e) - 1)
        BY <2>1, <2>2, <3>2
      <4> HIDE DEF S
      <4> QED BY <2>2, <2>3, <3>2, <4>1, Rest
    <3> QED BY <3>1, <3>2
  <2> QED BY <2>1, <2>4 DEF e
<1> QED BY <1>1 DEF RegInv, Savers

\* The next cell of a list is written.
LEMMA SaveStepKeeps ==
  ASSUME RegInv, NEW n \in Nodes, SaveStep(n)
  PROVE  RegInv'
<1>0. /\ NodeRight(n) /\ IsNode(node[n]) /\ Saving(n) /\ node[n].cells # <<>>
      /\ registry' = Write(registry, Head(node[n].cells))
      /\ UNCHANGED <<clean, overlapped, departed>>
  BY DEF RegInv, NodesRight, NodeRight, SaveStep
<1>1. PICK m : Saves(n, m)
  BY <1>0, Progress
<1>2. PICK k \in 0..(Len(m) + 1) :
        /\ node[n].cells = SubSeq(Encode(m), k + 1, Len(m) + 1)
        /\ node[n].alone => Holds(registry, m, k)
  BY <1>1 DEF Saves, Copied
<1>3. PICK e : e = Encode(m)
  OBVIOUS
<1>4. /\ Sized(m) /\ Len(m) \in Nat /\ k \in 0..Len(m) /\ k + 1 \in 1..(Len(m) + 1)
      /\ Head(node[n].cells) = e[k + 1]
      /\ Tail(node[n].cells) = SubSeq(e, (k + 1) + 1, Len(m) + 1)
  <2>1. /\ Sized(m) /\ Len(m) \in Nat
        /\ IF k = Len(m) + 1 THEN node[n].cells = <<>>
           ELSE /\ Head(node[n].cells) = e[k + 1]
                /\ Tail(node[n].cells) = SubSeq(e, (k + 1) + 1, Len(m) + 1)
    BY <1>0, <1>1, <1>2, <1>3, Progress
  <2>2. k # Len(m) + 1
    BY <1>0, <2>1
  <2> QED BY <2>1, <2>2
<1>5. PICK r : /\ node' = [node EXCEPT ![n] = r] /\ IsNode(r)
               /\ r.cells = Tail(node[n].cells)
               /\ r.at = node[n].at /\ r.inst = node[n].inst /\ r.end = node[n].end
               /\ r.goal = node[n].goal /\ r.alone = node[n].alone /\ r.torn = node[n].torn
               /\ r.looked = node[n].looked
  <2> DEFINE c == Tail(node[n].cells)
             r == [node[n] EXCEPT !.cells = c]
  <2>1. node' = [node EXCEPT ![n] = r]
    BY DEF SaveStep
  <2> HIDE DEF c
  <2>2. /\ IsNode(r) /\ r.cells = c
        /\ r.at = node[n].at /\ r.inst = node[n].inst /\ r.end = node[n].end
        /\ r.goal = node[n].goal /\ r.alone = node[n].alone /\ r.torn = node[n].torn
        /\ r.looked = node[n].looked
    BY <1>0 DEF IsNode
  <2> HIDE DEF r
  <2> QED BY <2>1, <2>2 DEF c
<1>6. /\ node' = [q \in Nodes |-> node'[q]]
      /\ node'[n] = r /\ \A q \in Nodes : q # n => node'[q] = node[q]
  BY <1>5, NodeChanges DEF RegInv
<1>7. \A q \in Nodes : node'[q].at = node[q].at /\ node'[q].inst = node[q].inst
                       /\ node'[q].alone = node[q].alone
  BY <1>5, <1>6
<1>8. \A q \in Nodes : (Saving(q)' <=> Saving(q)) /\ (Busy(q)' <=> Busy(q))
  BY <1>7 DEF Saving, Busy
<1>9. (\A x : Complete(x)' <=> Complete(x)) /\ (Orderly' <=> Orderly)
  BY <1>0, <1>7 DEF Complete, Orderly
<1>10. Memory'
  <2>1. /\ e[k + 1].at \in Nat /\ e[k + 1].size \in Nat /\ (e[k + 1].at = 0 => e[k + 1].cell \in Nat)
    BY <1>3, <1>4, CellTypes
  <2>2. registry' = Write(registry, e[k + 1])
    BY <1>0, <1>4
  <2>3. IsMemory(registry')
    BY <2>1, <2>2, WriteMemory DEF RegInv, Memory
  <2>4. e[k + 1].at # 0 => e[k + 1].cell \in Entry
    <3>1. CASE k = 0
      <4>1. e[1] = [at |-> 0, size |-> SizeOfInt, cell |-> Len(m)]
        BY <1>3, <1>4, Cells
      <4> QED BY <3>1, <4>1
    <3>2. CASE k # 0
      <4>1. k \in 1..Len(m)
        BY <1>4, <3>2
      <4>2. e[k + 1] = [at |-> Offset(m, k), size |-> FieldSize(m[k]), cell |-> m[k]]
        BY <1>3, <1>4, <4>1, Cells
      <4>3. m[k] \in Entry
        BY <1>1, <4>1 DEF Saves, IsList
      <4> QED BY <4>2, <4>3
    <3> QED BY <3>1, <3>2
  <2>5. \A o \in DOMAIN registry' \ {0} : registry'[o].cell \in Entry
    BY <2>2, <2>4 DEF RegInv, Memory, Write
  <2> QED BY <2>3, <2>5 DEF Memory
<1>11. NodesRight'
  <2>1. NodeRight(n)'
    BY <1>0, <1>5, <1>6 DEF NodeRight
  <2>2. \A q \in Nodes : q # n => NodeRight(q)'
    BY <1>6 DEF RegInv, NodesRight, NodeRight
  <2> QED BY <1>6, <2>1, <2>2 DEF NodesRight
<1>12. Savers'
  <2>1. Saves(n, m)'
    <3>1. node'[n].alone => Holds(registry', m, k + 1)
      <4>1. node[n].alone => Holds(Write(registry, e[k + 1]), m, k + 1)
        BY <1>2, <1>3, <1>4, WriteHolds
      <4> QED BY <1>0, <1>4, <1>7, <4>1
    <3>2. node'[n].cells = SubSeq(Encode(m), (k + 1) + 1, Len(m) + 1)
      <4>1. node'[n].cells = Tail(node[n].cells)
        BY <1>5, <1>6
      <4> QED BY <1>3, <1>4, <4>1
    <3>3. k + 1 \in 0..(Len(m) + 1)
      BY <1>4
    <3>4. Copied(n, m)'
      BY <3>1, <3>2, <3>3 DEF Copied
    <3>5. /\ IsList(m) /\ node'[n].end = EncodedSize(m) /\ node'[n].goal = node[n].goal
          /\ node'[n].looked = node[n].looked
      BY <1>1, <1>5, <1>6 DEF Saves
    <3> QED BY <1>1, <1>9, <3>4, <3>5 DEF Saves
  <2>2. ASSUME NEW q \in Nodes, Saving(q), q # n
        PROVE  \E x : Saves(q, x)'
    <3>1. PICK x : Saves(q, x)
      BY <2>2 DEF RegInv, Savers
    <3>2. ~node[q].alone /\ node'[q] = node[q]
      BY <1>0, <1>6, <2>2, Progress
    <3>3. Copied(q, x)'
      BY <3>1, <3>2 DEF Saves, Copied
    <3> QED BY <1>9, <3>1, <3>2, <3>3 DEF Saves
  <2>3. ASSUME NEW q \in Nodes, Saving(q)'
        PROVE  ~clean' /\ \E x : Saves(q, x)'
    <3>1. ~clean'
      BY <1>0, Progress
    <3> QED BY <1>8, <2>1, <2>2, <2>3, <3>1
  <2> QED BY <1>7, <1>8, <2>3 DEF RegInv, Savers
<1>13. Clean'
  BY <1>0, Progress DEF Clean
<1>14. Order'
  BY <1>0, <1>7, <1>8, <1>9 DEF RegInv, Order
<1> QED BY <1>10, <1>11, <1>12, <1>13, <1>14 DEF RegInv

\* The rest of the block is filled with zeros.
LEMMA SaveEndKeeps ==
  ASSUME RegInv, NEW n \in Nodes, SaveEnd(n)
  PROVE  /\ RegInv'
         /\ \E m : /\ Saves(n, m)
                   /\ clean' => Holds(registry', m, Len(m) + 1)
<1>0. /\ NodeRight(n) /\ IsNode(node[n]) /\ Saving(n) /\ node[n].cells = <<>>
      /\ registry' = Pad(registry, node[n].end)
      /\ clean' = node[n].alone /\ UNCHANGED <<overlapped, departed>>
  BY DEF RegInv, NodesRight, NodeRight, SaveEnd
<1>1. PICK m : Saves(n, m)
  BY <1>0, Progress
<1>2. /\ Sized(m) /\ Len(m) \in Nat /\ IsList(m)
      /\ node[n].alone => Holds(registry, m, Len(m) + 1)
  <2>1. PICK k \in 0..(Len(m) + 1) :
          /\ node[n].cells = SubSeq(Encode(m), k + 1, Len(m) + 1)
          /\ node[n].alone => Holds(registry, m, k)
    BY <1>1 DEF Saves, Copied
  <2>2. Sized(m) /\ Len(m) \in Nat /\ k = Len(m) + 1
    BY <1>0, <1>1, <2>1, Progress
  <2> QED BY <1>1, <2>1, <2>2 DEF Saves
<1>3. clean' => Holds(registry', m, Len(m) + 1)
  <2>1. DOMAIN registry \subseteq Nat
    BY DEF RegInv, Memory, IsMemory
  <2>2. node[n].alone => Holds(Pad(registry, EncodedSize(m)), m, Len(m) + 1)
    BY <1>2, <2>1, PadHolds
  <2>3. node[n].end = EncodedSize(m)
    BY <1>1 DEF Saves
  <2> QED BY <1>0, <2>2, <2>3
<1>4. PICK r : /\ node' = [node EXCEPT ![n] = r] /\ IsNode(r) /\ r.at = node[n].goal
               /\ r.inst = node[n].inst /\ r.looked = node[n].looked
  <2> DEFINE r == [node[n] EXCEPT !.at = node[n].goal, !.end = 0]
  <2>1. node' = [node EXCEPT ![n] = r]
    BY DEF SaveEnd
  <2>2. IsNode(r) /\ r.at = node[n].goal /\ r.inst = node[n].inst /\ r.looked = node[n].looked
    BY <1>0 DEF IsNode
  <2> HIDE DEF r
  <2> QED BY <2>1, <2>2
<1>5. /\ node' = [q \in Nodes |-> node'[q]]
      /\ node'[n] = r /\ \A q \in Nodes : q # n => node'[q] = node[q]
  BY <1>4, NodeChanges DEF RegInv
<1>6. r.at \in {"up", "stopped"} /\ (Orderly => Complete(m) /\ Listed(n, m))
  BY <1>1, <1>4 DEF Saves
<1>7. \A q \in Nodes : /\ Saving(q)' <=> Saving(q) /\ q # n
                       /\ Busy(q)' <=> Busy(q) /\ q # n
  BY <1>0, <1>5, <1>6 DEF Saving, Busy
<1>8. (Orderly' <=> Orderly) /\ \A x : Complete(x) /\ Listed(n, x) => Complete(x)'
  <2>1. \A q \in Nodes : node'[q].at = "up" => q = n \/ node[q].at = "up"
    BY <1>5
  <2> QED BY <1>0, <2>1 DEF Orderly, Complete
<1>9. \A q \in Nodes : Saving(q) /\ q # n => ~node[q].alone /\ ~node[n].alone
  BY <1>0, Progress
<1>10. Memory'
  <2>1. IsMemory(registry')
    BY <1>0, PadMemory DEF RegInv, Memory
  <2>2. \A o \in DOMAIN registry' \ {0} : registry'[o].cell \in Entry
    BY <1>0 DEF RegInv, Memory, Pad
  <2> QED BY <2>1, <2>2 DEF Memory
<1>11. NodesRight'
  <2>1. NodeRight(n)'
    BY <1>0, <1>4, <1>5, <1>6 DEF NodeRight
  <2>2. \A q \in Nodes : q # n => NodeRight(q)'
    BY <1>5 DEF RegInv, NodesRight, NodeRight
  <2> QED BY <1>5, <2>1, <2>2 DEF NodesRight
<1>12. Savers'
  <2>1. ASSUME NEW q \in Nodes, Saving(q)'
        PROVE  ~clean' /\ \E x : Saves(q, x)'
    <3>1. Saving(q) /\ q # n /\ node'[q] = node[q] /\ ~node[q].alone /\ ~clean'
      BY <1>0, <1>5, <1>7, <1>9, <2>1
    <3>2. PICK x : Saves(q, x)
      BY <3>1 DEF RegInv, Savers
    <3>3. ~Orderly
      BY <1>0, <3>1 DEF RegInv, Order
    <3>4. Copied(q, x)'
      BY <3>1, <3>2 DEF Saves, Copied
    <3> QED BY <1>8, <3>1, <3>2, <3>3, <3>4 DEF Saves
  <2> QED BY <1>5, <1>7, <2>1 DEF RegInv, Savers
<1>13. Clean'
  <2>1. Orderly' => Complete(m)'
    BY <1>6, <1>8
  <2> QED BY <1>2, <1>3, <2>1 DEF Clean
<1>14. Order'
  <2> SUFFICES ASSUME Orderly'
               PROVE  /\ \A x, q \in Nodes : Busy(x)' /\ Busy(q)' => x = q
                      /\ \A q \in Nodes : Saving(q)' => node'[q].alone
                      /\ \A q \in Nodes : node'[q].at = "register" => Complete(node[q].inst)'
                      /\ clean' \/ \E q \in Nodes : Saving(q)'
    BY DEF Order
  <2>1. \A q \in Nodes : ~Busy(q)'
    BY <1>0, <1>7, <1>8 DEF RegInv, Order, Busy, Saving
  <2>2. clean'
    BY <1>0, <1>8 DEF RegInv, Order
  <2> QED BY <2>1, <2>2 DEF Busy, Saving
<1> QED BY <1>1, <1>3, <1>10, <1>11, <1>12, <1>13, <1>14 DEF RegInv

\* At first there is a memory of zeros, which is an empty list, and no node.
LEMMA InitRegistry == Init => RegInv
<1> SUFFICES ASSUME Init PROVE RegInv
  OBVIOUS
<1>1. /\ registry = Zeros /\ clean = TRUE /\ node = [n \in Nodes |-> NewNode]
  BY DEF Init, RegInit
<1>2. \A n \in Nodes : node[n] = NewNode
  BY <1>1
<1>3. NewNode.at = "new" /\ NewNode.inst = <<>> /\ IsNode(NewNode)
  BY DEF NewNode, IsNode
<1>4. Memory
  <2>1. DOMAIN Zeros = {0}
    BY DEF Zeros
  <2> QED BY <1>1, <2>1, NewMemory DEF Memory
<1>5. NodesRight
  <2>1. ASSUME NEW n \in Nodes
        PROVE  NodeRight(n)
    <3>1. n \notin Entries(<<>>)
      BY DEF Entries
    <3> QED BY <1>2, <1>3, <3>1, EmptyList DEF NodeRight
  <2>2. node = [n \in Nodes |-> node[n]]
    BY <1>1
  <2> QED BY <2>1, <2>2 DEF NodesRight
<1>6. \A n \in Nodes : node[n].at = "new" /\ ~Saving(n) /\ ~Busy(n)
  BY <1>2, <1>3 DEF Saving, Busy
<1>7. Savers
  BY <1>6 DEF Savers
<1>8. Clean
  <2>1. Len(<<>>) = 0 /\ Holds(registry, <<>>, Len(<<>>) + 1)
    BY <1>1, NewMemory
  <2>2. Complete(<<>>)
    BY <1>6 DEF Complete
  <2> QED BY <2>1, <2>2, EmptyList DEF Clean
<1>9. Order
  BY <1>1, <1>6 DEF Order
<1> QED BY <1>4, <1>5, <1>7, <1>8, <1>9 DEF RegInv

\* How nodes get their keys has no effect on the registry.
LEMMA NextRegistry == RegInv /\ [Next]_vars => RegInv'
<1> SUFFICES ASSUME RegInv, [Next]_vars PROVE RegInv'
  OBVIOUS
<1>1. CASE UNCHANGED regVars
  <2>1. UNCHANGED <<registry, clean, node, overlapped, departed>>
    BY <1>1 DEF regVars
  <2>2. /\ \A m : Complete(m)' <=> Complete(m)
        /\ \A n \in Nodes : (Saving(n)' <=> Saving(n)) /\ (Busy(n)' <=> Busy(n))
        /\ Orderly' <=> Orderly
    BY <2>1 DEF Complete, Saving, Busy, Orderly
  <2>3. Memory' /\ NodesRight'
    BY <2>1 DEF RegInv, Memory, NodesRight, NodeRight
  <2>4. \A n \in Nodes : \A m : Saves(n, m) => Saves(n, m)'
    BY <2>1, <2>2 DEF Saves, Copied
  <2>5. Savers'
    BY <2>1, <2>2, <2>4 DEF RegInv, Savers
  <2>6. Clean'
    BY <2>1, <2>2 DEF RegInv, Clean
  <2>7. Order'
    BY <2>1, <2>2 DEF RegInv, Order
  <2> QED BY <2>3, <2>5, <2>6, <2>7 DEF RegInv
<1>2. ASSUME NEW n \in Nodes, Attach(n) \/ StartAgain(n)
      PROVE  RegInv'
  BY <1>2, AwayFromRegistry DEF StartAgain
<1>3. ASSUME NEW n \in Nodes, UseRegistry(n)
      PROVE  RegInv'
  <2>1. CASE Create(n) \/ SetSize(n) \/ Crash(n)
    BY <2>1, AwayFromRegistry
  <2>2. CASE Advertise(n) \/ Lookup(n)
    BY <2>2, ReadKeeps
  <2>3. CASE Register(n)
    BY <2>3, SetEntryKeeps DEF Register
  <2>4. CASE Stop(n)
    BY <2>4, SetEntryKeeps DEF Stop
  <2>5. CASE SaveStep(n)
    BY <2>5, SaveStepKeeps
  <2>6. CASE SaveEnd(n)
    BY <2>6, SaveEndKeeps
  <2> QED BY <1>3, <2>1, <2>2, <2>3, <2>4, <2>5, <2>6 DEF UseRegistry
<1> QED BY <1>1, <1>2, <1>3 DEF Next, vars

\* Only the end of its write makes a node that writes one that has stopped.
LEMMA StopsAtTheEnd ==
  ASSUME RegInv, [Next]_vars, NEW n \in Nodes, Saving(n), node'[n].at = "stopped"
  PROVE  SaveEnd(n)
<1>0. node[n].at = "saving" /\ node = [q \in Nodes |-> node[q]] /\ \A q \in Nodes : IsNode(node[q])
  BY DEF Saving, RegInv, NodesRight, NodeRight
<1>1. CASE UNCHANGED node
  BY <1>0, <1>1
<1>2. ASSUME NEW q \in Nodes, q # n, NEW r, node' = [node EXCEPT ![q] = r]
      PROVE  FALSE
  BY <1>0, <1>2
<1>3. ASSUME NEW q \in Nodes, NEW v, NEW goal, SetEntry(q, v, goal), node[q].at # "saving"
      PROVE  FALSE
  <2>1. q # n
    BY <1>0, <1>3
  <2>2. node'[n].at = node[n].at
    <3>1. CASE EncodedSize(Attributes(q, v)) > size
      BY <1>0, <2>1, <3>1, <1>3 DEF SetEntry, Go
    <3>2. CASE ~(EncodedSize(Attributes(q, v)) > size)
      <4>1. node'[n] = [node[n] EXCEPT !.alone = FALSE]
        BY <1>3, <2>1, <3>2 DEF SetEntry
      <4> QED BY <1>0, <4>1 DEF IsNode
    <3> QED BY <3>1, <3>2
  <2> QED BY <1>0, <2>2
<1>4. ASSUME NEW q \in Nodes,
             Attach(q) \/ Create(q) \/ SetSize(q) \/ Advertise(q) \/ Lookup(q) \/ Restart(q)
      PROVE  FALSE
  <2>1. node[q].at # "saving"
    BY <1>4 DEF Attach, Create, SetSize, Advertise, Lookup, Restart
  <2>2. \E r : node' = [node EXCEPT ![q] = r]
    BY <1>4 DEF Attach, Create, SetSize, Advertise, Lookup, ReadInto, Restart, Go
  <2> QED BY <1>0, <1>2, <2>1, <2>2
<1>5. ASSUME NEW q \in Nodes, Register(q) \/ Stop(q)
      PROVE  FALSE
  BY <1>3, <1>5 DEF Register, Stop
<1>6. ASSUME NEW q \in Nodes, Crash(q)
      PROVE  FALSE
  <2>1. node' = [node EXCEPT ![q] = [NewNode EXCEPT !.at = "down"]]
    BY <1>6 DEF Crash
  <2>2. [NewNode EXCEPT !.at = "down"].at = "down"
    BY DEF NewNode
  <2> QED BY <1>0, <1>2, <2>1, <2>2
<1>7. ASSUME NEW q \in Nodes, SaveStep(q)
      PROVE  FALSE
  <2> DEFINE r == [node[q] EXCEPT !.cells = Tail(node[q].cells)]
  <2>1. node' = [node EXCEPT ![q] = r]
    BY <1>7 DEF SaveStep
  <2>2. r.at = node[q].at
    BY <1>0 DEF IsNode
  <2> HIDE DEF r
  <2> QED BY <1>0, <1>2, <2>1, <2>2
<1>8. ASSUME NEW q \in Nodes, SaveEnd(q)
      PROVE  q = n
  <2>1. \E r : node' = [node EXCEPT ![q] = r]
    BY <1>8 DEF SaveEnd
  <2> QED BY <1>2, <2>1
<1> QED BY <1>1, <1>4, <1>5, <1>6, <1>7, <1>8
       DEF Next, vars, regVars, UseRegistry, StartAgain

\* The inductive invariant of the registry: what a node that is alone has
\* written so far is the beginning of a list, and what one node wrote as a whole
\* is a list, with the entries of all nodes that are up as long as no two
\* registered at once and none stopped.
THEOREM RegInvariance == Spec => []RegInv
BY InitRegistry, NextRegistry, PTL DEF Spec

\* The registry lists every node that is up, as long as no two registered at
\* once and none stopped, however many come, look for others, crash and come
\* back, and whatever their names take of the block (advertise and the lookups
\* of node.py, CentralizedNode).
THEOREM EveryNodeListed == Spec => []AllListed
<1>1. ASSUME RegInv, clean, ~overlapped, ~departed, NEW n \in Nodes, node[n].at = "up"
      PROVE  Listed(n, Written)
  BY <1>1, RegistryDecoded DEF Orderly, Complete, Written
<1>2. RegInv => AllListed
  BY <1>1 DEF AllListed
<1> QED BY <1>2, RegInvariance, PTL

\* A read of the registry that fails, which blocks the node for good
\* (_read_memory and _save_memory take the same lock), is of one that another
\* node was writing, had crashed when it wrote, or wrote while a third did.
THEOREM OnlyTornBlocks == Spec => []OnlyTornReadsBlock
<1>1. RegInv => OnlyTornReadsBlock
  BY DEF RegInv, NodesRight, NodeRight, OnlyTornReadsBlock
<1> QED BY <1>1, RegInvariance, PTL

\* When a node that stops has written its entry and nobody else wrote, then
\* decode finds no entry of it any more, unless it had seen its own: what
\* __setitem__ sets in the class is then hidden by the instance's attribute.
THEOREM StoppedUnlisted == Spec => StopUnregisters
<1>1. ASSUME RegInv, [Next]_vars, NEW n \in Nodes, Saving(n), node'[n].at = "stopped", clean'
      PROVE  ~Listed(n, Written') \/ node[n].looked
  <2>1. SaveEnd(n) /\ RegInv'
    BY <1>1, StopsAtTheEnd, SaveEndKeeps
  <2>2. PICK m : Saves(n, m) /\ Holds(registry', m, Len(m) + 1)
    BY <1>1, <2>1, SaveEndKeeps
  <2>3. Sized(m) /\ IsMemory(registry')
    BY <2>1, <2>2, ListIsMessage DEF Saves, RegInv, Memory
  <2>4. Written' = m
    <3>1. Decode(registry').fields = m
      BY <2>2, <2>3, RoundTrip
    <3> QED BY <3>1 DEF Written
  <2>5. node[n].goal = "stopped"
    <3>1. node' = [node EXCEPT ![n].at = node[n].goal, ![n].end = 0]
      BY <2>1 DEF SaveEnd
    <3>2. node = [q \in Nodes |-> node[q]] /\ IsNode(node[n])
      BY <1>1 DEF RegInv, NodesRight, NodeRight
    <3>3. node'[n].at = node[n].goal
      BY <3>1, <3>2 DEF IsNode
    <3> QED BY <1>1, <3>3
  <2> QED BY <2>2, <2>4, <2>5 DEF Saves
<1>2. RegInv /\ [Next]_vars =>
        [\A n \in Nodes : Saving(n) /\ node'[n].at = "stopped" /\ clean'
                            => ~Listed(n, Written') \/ node[n].looked]_regVars
  BY <1>1
<1> QED BY <1>2, RegInvariance, PTL DEF Spec, StopUnregisters

=============================================================================
