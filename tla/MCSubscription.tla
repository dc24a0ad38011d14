--------------------------- MODULE MCSubscription ---------------------------
(***************************************************************************)
(* Instances of Subscription for TLC. The configurations give the          *)
(* constants; listening threads, sockets and endpoints are interchangeable *)
(* identities, which the safety run uses as symmetry.                      *)
(***************************************************************************)
EXTENDS Subscription, TLC

Symmetry ==
  Permutations(Listeners) \cup Permutations(Sockets) \cup Permutations(Endpoints)

\* The safety run joins two instances: a second receiver without a withdrawal,
\* and a withdrawal without a second receiver at work.
CallersOrWithdrawal == removals > 0 => \A c \in Callers : pc[c] = "idle"

=============================================================================
