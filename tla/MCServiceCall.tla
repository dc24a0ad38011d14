--------------------------- MODULE MCServiceCall ---------------------------
(***************************************************************************)
(* Instances of ServiceCall for TLC: two applications, and two nodes of    *)
(* which the first may call the second from a service.                     *)
(***************************************************************************)
EXTENDS ServiceCall, TLC

CONSTANTS c1, c2, n1, n2

MCTargets == {<<c1, n1>>, <<c2, n1>>, <<n1, n2>>}

=============================================================================
