----------------------------- MODULE MCDirectory -----------------------------
(***************************************************************************)
(* Instance of Directory for TLC: three nodes that ask for the same name,  *)
(* one of which publishes, one leaves and one observes.                    *)
(***************************************************************************)
EXTENDS Directory, TLC

CONSTANTS n1, n2, n3, a

MCNodeName == [n \in {n1, n2, n3} |-> a]

=============================================================================
