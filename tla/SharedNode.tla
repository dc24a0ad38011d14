----------------------------- MODULE SharedNode -----------------------------
(***************************************************************************)
(* The start, life and end of nodes with Method.SHARED_MEMORY: each gets   *)
(* its encryption key and then joins the registry (AxoneNode.__init__), in *)
(* which it looks for others until it stops; it may crash and come back.   *)
(***************************************************************************)
EXTENDS KeyFile, Registry

vars == <<keyVars, regVars>>

Init == KeyInit /\ RegInit

UseRegistry(n) ==
  \/ Create(n) \/ SetSize(n) \/ Advertise(n) \/ Register(n) \/ SaveStep(n) \/ SaveEnd(n)
  \/ Lookup(n) \/ Stop(n) \/ Crash(n)

StartAgain(n) == Restart(n) /\ ForgetKey(n)

Next ==
  \/ \E u \in Makers : GetKey(u) /\ UNCHANGED regVars
  \/ \E n \in Nodes : \/ keyPc[n] = "ready" /\ Attach(n) /\ UNCHANGED keyVars
                      \/ UseRegistry(n) /\ UNCHANGED keyVars
                      \/ StartAgain(n)

Spec == Init /\ [][Next]_vars

=============================================================================
