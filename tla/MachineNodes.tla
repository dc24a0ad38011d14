---- MODULE MachineNodes ----
(***************************************************************************)
(* The nodes of one machine, which share its files and memory.             *)
(***************************************************************************)
LOCAL INSTANCE FiniteSets

CONSTANTS
  Nodes,        (* Strings: the ids of the nodes.                          *)
  None

ASSUME MachineNodesAssumption == IsFiniteSet(Nodes) /\ None \notin Nodes

====
