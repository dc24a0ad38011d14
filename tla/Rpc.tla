-------------------------------- MODULE Rpc --------------------------------
(***************************************************************************)
(* What a service call promises, seen from outside: the service runs at    *)
(* some moment between the call and its answer, at most once, and the      *)
(* answer a caller gets is the one its own call produced. A call may also  *)
(* fail, and then the service may have run or may still run.               *)
(*                                                                         *)
(* A service returns the number of times the node has run one, which tells *)
(* the answers of different calls apart.                                   *)
(***************************************************************************)
EXTENDS Naturals

CONSTANTS Callers, Nodes, Slots, None

VARIABLES
  calling,  (* The slot of the call a caller is waiting for, or None.      *)
  slots,    (* The calls in progress: their node and their answer.         *)
  runs,     (* How many services each node has run.                        *)
  got       (* The last answer each caller received.                        *)

vars == <<calling, slots, runs, got>>

Free == [node |-> None, answer |-> None]

Init ==
  /\ calling = [c \in Callers |-> None]
  /\ slots = [k \in Slots |-> Free]
  /\ runs = [n \in Nodes |-> 0]
  /\ got = [c \in Callers |-> None]

Call(c, k, n) ==
  /\ calling[c] = None /\ slots[k] = Free
  /\ calling' = [calling EXCEPT ![c] = k]
  /\ slots' = [slots EXCEPT ![k] = [node |-> n, answer |-> None]]
  /\ UNCHANGED <<runs, got>>

Run(k) ==
  LET n == slots[k].node
  IN /\ n # None /\ slots[k].answer = None
     /\ runs' = [runs EXCEPT ![n] = @ + 1]
     /\ slots' = [slots EXCEPT ![k].answer = runs'[n]]
     /\ UNCHANGED <<calling, got>>

Answer(c) ==
  /\ calling[c] # None
  /\ slots[calling[c]].answer # None
  /\ got' = [got EXCEPT ![c] = slots[calling[c]].answer]
  /\ calling' = [calling EXCEPT ![c] = None]
  /\ UNCHANGED <<slots, runs>>

\* The caller gives up; what it asked for is over, or may still run.
Fail(c) ==
  /\ calling[c] # None
  /\ slots' \in {slots, [slots EXCEPT ![calling[c]] = Free]}
  /\ calling' = [calling EXCEPT ![c] = None]
  /\ UNCHANGED <<runs, got>>

\* A call that nobody waits for any more is forgotten.
Forget(k) ==
  /\ slots[k] # Free
  /\ \A c \in Callers : calling[c] # k
  /\ slots' = [slots EXCEPT ![k] = Free]
  /\ UNCHANGED <<calling, runs, got>>

Next ==
  \/ \E c \in Callers, k \in Slots, n \in Nodes : Call(c, k, n)
  \/ \E k \in Slots : Run(k) \/ Forget(k)
  \/ \E c \in Callers : Answer(c) \/ Fail(c)

Spec == Init /\ [][Next]_vars

=============================================================================
