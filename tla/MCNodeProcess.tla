--------------------------- MODULE MCNodeProcess ---------------------------
(***************************************************************************)
(* Instance of NodeProcess for TLC: two threads that call, one that reads. *)
(***************************************************************************)
EXTENDS NodeProcess, TLC

CONSTANTS t1, t2, t3

\* A structure that cannot be encoded reaches a rated publisher through
\* publish_once.
MCPublications == {<<"once", FALSE>>, <<"rated", TRUE>>, <<"zero", TRUE>>}

=============================================================================
