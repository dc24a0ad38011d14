------------------------------ MODULE Registry ------------------------------
(***************************************************************************)
(* The registry of the nodes of a machine, in one shared memory            *)
(* (CentralizedNode in axone_shm.py, AxoneSharedMemory in                  *)
(* shared_memory.py, the lookups of node.py for Method.SHARED_MEMORY).     *)
(* Each node is a process of its own. It reads the registry into the       *)
(* attributes of an instance, sets its entry in the attributes of the      *)
(* class, which those of the instance hide, and writes back all of them.   *)
(* The lock is the instance's own: it excludes no other process, and is    *)
(* taken twice by a read that fails.                                       *)
(***************************************************************************)
EXTENDS Naturals, Sequences, FiniteSets, SequencesExt, Codec, MachineNodes

CONSTANTS
  Size,         (* centralized_memory_size, in bytes.                      *)
  NameLength    (* The length of the names of the nodes.                   *)

ASSUME RegistryAssumption ==
  /\ Size \in Nat \ {0} /\ NameLength \in 0..MaxText
  /\ \A n \in Nodes : Len(n) \in Nat

VARIABLES
  size,         (* The size of the block, 0 while it has none, or None.    *)
  registry,     (* Its memory ...                                          *)
  clean,        (* ... and whether one node wrote all of it (history).     *)
  node,         (* The nodes.                                              *)
  overlapped,   (* History: one node read while another was registering.   *)
  departed      (* History: a node stopped, or crashed while it wrote.     *)

regVars == <<size, registry, clean, node, overlapped, departed>>

NewNode == [at |-> "new", inst |-> <<>>, cells |-> <<>>, end |-> 0, goal |-> "new",
            alone |-> TRUE, torn |-> FALSE, looked |-> FALSE]

RegInit ==
  /\ size = None /\ registry = Zeros /\ clean = TRUE
  /\ node = [n \in Nodes |-> NewNode]
  /\ overlapped = FALSE /\ departed = FALSE

NameOf(n) == [type |-> "str", len |-> NameLength, id |-> n]
NoName    == [type |-> "none"]

Entries(s) == {s[i].key : i \in 1..Len(s)}
Listed(n, s) == \E i \in 1..Len(s) : s[i].key = n /\ s[i].value = NameOf(n)

Go(n, label) == node' = [node EXCEPT ![n].at = label]

-----------------------------------------------------------------------------
(* _get_or_create_memory_block.                                            *)

\* An existing block without a size cannot be mapped: raises.
Attach(n) ==
  /\ node[n].at = "new"
  /\ Go(n, IF size = None THEN "create" ELSE IF size = 0 THEN "down" ELSE "advertise")
  /\ UNCHANGED <<size, registry, clean, overlapped, departed>>

\* FileExistsError if another node was faster.
Create(n) ==
  /\ node[n].at = "create"
  /\ IF size = None THEN size' = 0 /\ Go(n, "size") ELSE Go(n, "down") /\ UNCHANGED size
  /\ UNCHANGED <<registry, clean, overlapped, departed>>

SetSize(n) ==
  /\ node[n].at = "size"
  /\ size' = Size
  /\ Go(n, "advertise")
  /\ UNCHANGED <<registry, clean, overlapped, departed>>

-----------------------------------------------------------------------------
(* _read_memory and _save_memory.                                          *)

\* decode sets the attributes of the instance one by one.
SetAttribute(inst, f) ==
  IF f.key \notin Entries(inst) THEN Append(inst, f)
  ELSE [i \in 1..Len(inst) |-> IF inst[i].key = f.key THEN f ELSE inst[i]]

SetAttributes(inst, fields) ==
  LET set[i \in 0..Len(fields)] ==
        IF i = 0 THEN inst ELSE SetAttribute(set[i - 1], fields[i])
  IN set[Len(fields)]

\* After a failure _read_memory calls _save_memory, which waits for the lock
\* that _read_memory holds.
ReadInto(n, label) ==
  LET d    == Decode(registry)
      inst == SetAttributes(node[n].inst, d.fields)
  IN node' = [node EXCEPT ![n].inst = inst, ![n].torn = ~clean,
                          ![n].looked = @ \/ n \in Entries(inst),
                          ![n].at = IF d.ok THEN label ELSE "blocked"]

\* What is encoded after __setitem__ has set the attribute of the class: that
\* one first, but with the value of the instance's attribute if there is one,
\* then the other attributes of the instance.
Attributes(n, value) ==
  LET inst == node[n].inst
      own  == CHOOSE i \in 1..Len(inst) : inst[i].key = n
  IN IF n \notin Entries(inst) THEN <<[key |-> n, value |-> value]>> \o inst
     ELSE <<inst[own]>> \o RemoveAt(inst, own)

Saving(n) == node[n].at = "saving"

\* What does not fit raises.
SetEntry(n, value, goal) ==
  LET m      == Attributes(n, value)
      others == {q \in Nodes : Saving(q)}
  IN IF EncodedSize(m) > size
       THEN Go(n, "down") /\ UNCHANGED clean
       ELSE /\ node' = [q \in Nodes |->
                 IF q = n THEN [node[n] EXCEPT !.at = "saving", !.goal = goal,
                                               !.cells = Encode(m), !.end = EncodedSize(m),
                                               !.alone = others = {}]
                 ELSE IF Saving(q) THEN [node[q] EXCEPT !.alone = FALSE]
                 ELSE node[q]]
            /\ clean' = FALSE

\* The data is copied ...
SaveStep(n) ==
  /\ Saving(n) /\ node[n].cells # <<>>
  /\ registry' = Write(registry, Head(node[n].cells))
  /\ node' = [node EXCEPT ![n].cells = Tail(@)]
  /\ UNCHANGED <<size, clean, overlapped, departed>>

\* Mutant: the zeros start too early.
SaveEndEarly(n) ==
  /\ Saving(n) /\ node[n].cells = <<>>
  /\ registry' = Pad(registry, node[n].end - 1 - FieldSize([key |-> n, value |-> NoName]))
  /\ clean' = node[n].alone
  /\ node' = [node EXCEPT ![n].at = node[n].goal, ![n].end = 0]
  /\ UNCHANGED <<size, overlapped, departed>>

\* ... and what follows it is filled with zeros.
SaveEnd(n) ==
  /\ Saving(n) /\ node[n].cells = <<>>
  /\ registry' = Pad(registry, node[n].end)
  /\ clean' = node[n].alone
  /\ node' = [node EXCEPT ![n].at = node[n].goal, ![n].end = 0]
  /\ UNCHANGED <<size, overlapped, departed>>

-----------------------------------------------------------------------------
(* What nodes do.                                                          *)

\* Mutant: advertise does not look whether the node is registered.
AdvertiseBlind(n) ==
  /\ node[n].at = "advertise"
  /\ Go(n, "register")
  /\ overlapped' = (overlapped \/ \E q \in Nodes \ {n} : node[q].at \in {"register", "saving"})
  /\ UNCHANGED <<size, registry, clean, departed>>

\* advertise looks whether the node is registered, ...
Advertise(n) ==
  /\ node[n].at = "advertise"
  /\ ReadInto(n, "register")
  /\ overlapped' = (overlapped \/ \E q \in Nodes \ {n} : node[q].at \in {"register", "saving"})
  /\ UNCHANGED <<size, registry, clean, departed>>

\* ... and registers it.
Register(n) ==
  /\ node[n].at = "register"
  /\ SetEntry(n, NameOf(n), "up")
  /\ UNCHANGED <<size, registry, overlapped, departed>>

\* list_nodes, find_node_by_name. get_node_configuration goes on with what it
\* found, which is a name and not an id: there is no memory of that name.
Lookup(n) ==
  /\ node[n].at = "up"
  /\ ReadInto(n, "up")
  /\ UNCHANGED <<size, registry, clean, overlapped, departed>>

\* Mutant: the entry keeps its value.
StopKeepsEntry(n) ==
  /\ node[n].at = "up"
  /\ SetEntry(n, NameOf(n), "stopped")
  /\ departed' = TRUE
  /\ UNCHANGED <<size, registry, overlapped>>

\* stop sets the entry without a look at the registry.
Stop(n) ==
  /\ node[n].at = "up"
  /\ SetEntry(n, NoName, "stopped")
  /\ departed' = TRUE
  /\ UNCHANGED <<size, registry, overlapped>>

Crash(n) ==
  /\ node[n].at \in {"size", "register", "saving", "up"}
  /\ node' = [node EXCEPT ![n] = [NewNode EXCEPT !.at = "down"]]
  /\ departed' = (departed \/ Saving(n))
  /\ UNCHANGED <<size, registry, clean, overlapped>>

Restart(n) ==
  /\ node[n].at \in {"down", "stopped"}
  /\ node' = [node EXCEPT ![n] = NewNode]
  /\ UNCHANGED <<size, registry, clean, overlapped, departed>>

-----------------------------------------------------------------------------
(* Properties.                                                             *)

Written == Decode(registry).fields

\* The registry lists every node that is up, as long as no two registered at
\* once and none stopped: nodes that come, look, crash and come back lose
\* nobody's entry, and a registry that is full only refuses the new node. One
\* that stopped and registers again finds its own entry, None, which hides the
\* new one, and is not listed either.
AllListed ==
  clean /\ ~overlapped /\ ~departed =>
    \A n \in Nodes : node[n].at = "up" => Listed(n, Written)

\* A read only fails, and then blocks its node for good, if another node was
\* writing, or had crashed when it wrote, or two had written at once.
OnlyTornReadsBlock ==
  \A n \in Nodes : node[n].at = "blocked" => node[n].torn

\* stop() unregisters a node, unless it has seen its own entry: the attribute
\* of the instance then hides the one that stop() sets.
StopUnregisters ==
  [][\A n \in Nodes :
       Saving(n) /\ node'[n].at = "stopped" /\ clean'
         => ~Listed(n, Written') \/ node[n].looked]_regVars

=============================================================================
