---------------------------- MODULE MCSharedNode ----------------------------
(***************************************************************************)
(* Instance of SharedNode for TLC: three nodes and a registry with room    *)
(* for two.                                                                *)
(***************************************************************************)
EXTENDS SharedNode

\* The keys and the registry have nothing in common but the order, so beyond
\* the first step to the registry one outcome of the first part will do, ...
OneOutcomeOfKeys ==
  \/ /\ \A n \in Nodes : node[n].at = "new"
     /\ keyPc["c"] = "start"
  \/ /\ file["configured"] = None /\ file["temporary"] = "a"
     /\ keyPc[Tool] = "start" /\ ~raced
     /\ \A n \in Nodes : keyPc[n] \notin {"open", "write", "crashed"}

\* ... and the third node starts, if at all, when two are up, undisturbed.
Latecomer ==
  \/ keyPc["c"] = "start" /\ node["c"].at = "new"
  \/ ~overlapped /\ ~departed /\ node["a"].at = "up" /\ node["b"].at = "up"

Bounds == OneOutcomeOfKeys /\ Latecomer

=============================================================================
