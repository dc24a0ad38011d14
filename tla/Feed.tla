-------------------------------- MODULE Feed --------------------------------
(***************************************************************************)
(* What a subscription promises the application, seen from its callbacks:  *)
(* it follows the endpoint the publisher announces, and once it has handed *)
(* the topic over to a reader it shows messages of that endpoint only, one *)
(* at a time and each of them once. A message taken is shown. A withdrawal *)
(* of the publisher takes back that readers exclude each other, and a      *)
(* withdrawal, a stop or another receiver that a message taken is shown.   *)
(***************************************************************************)
CONSTANTS
  Readers,    (* The threads that may run the callbacks.                   *)
  Endpoints,
  Exclusive,  (* Nobody else receives on the subscription.                 *)
  None

VARIABLES
  advert,     (* What the publisher announces, or None.                    *)
  withdrawn,  (* The publisher has been withdrawn at least once.           *)
  target,     (* The endpoint followed, or None.                           *)
  reader,     (* The reader the topic was handed over to, or None.         *)
  hand,       (* The origin of the message a reader has taken, or None.    *)
  shown,      (* The readers that are running the callbacks.               *)
  phase       (* Of the subscription: open, closing or closed.             *)

vars == <<advert, withdrawn, target, reader, hand, shown, phase>>

Idle == \A r \in Readers : hand[r] = None

Init ==
  /\ advert = None /\ target = None /\ reader = None
  /\ hand = [r \in Readers |-> None]
  /\ shown = {}
  /\ phase = "open" /\ withdrawn = FALSE

Announce ==
  /\ advert' \in Endpoints
  /\ UNCHANGED <<withdrawn, target, reader, hand, shown, phase>>

Withdraw ==
  /\ advert' = None /\ withdrawn' = TRUE
  /\ UNCHANGED <<target, reader, hand, shown, phase>>

Follow ==
  /\ phase # "closed" /\ advert # None
  /\ target' = advert /\ reader' = None
  /\ UNCHANGED <<advert, withdrawn, hand, shown, phase>>

HandOver(r) ==
  /\ phase # "closed" /\ target # None /\ reader = None
  /\ hand[r] = None /\ (Idle \/ withdrawn)
  /\ reader' = r
  /\ UNCHANGED <<advert, withdrawn, target, hand, shown, phase>>

\* The publisher is gone.
Lose ==
  /\ withdrawn /\ phase # "closed"
  /\ reader' = None
  /\ UNCHANGED <<advert, withdrawn, target, hand, shown, phase>>

Take(r, origin) ==
  /\ hand[r] = None /\ ((Idle /\ reader \in {r, None}) \/ withdrawn)
  /\ r = reader => origin = <<target, target>>
  /\ hand' = [hand EXCEPT ![r] = origin]
  /\ UNCHANGED <<advert, withdrawn, target, reader, shown, phase>>

Show(r) ==
  /\ hand[r] # None /\ r \notin shown
  /\ shown' = shown \cup {r}
  /\ UNCHANGED <<advert, withdrawn, target, reader, hand, phase>>

Done(r) ==
  /\ r \in shown
  /\ shown' = shown \ {r}
  /\ hand' = [hand EXCEPT ![r] = None]
  /\ UNCHANGED <<advert, withdrawn, target, reader, phase>>

Drop(r) ==
  /\ hand[r] # None /\ r \notin shown
  /\ phase # "open" \/ withdrawn \/ ~Exclusive
  /\ hand' = [hand EXCEPT ![r] = None]
  /\ UNCHANGED <<advert, withdrawn, target, reader, shown, phase>>

Close ==
  /\ \/ phase = "open" /\ phase' = "closing"
     \/ phase = "closing" /\ phase' = "closed"
  /\ UNCHANGED <<advert, withdrawn, target, reader, hand, shown>>

Next ==
  \/ Announce \/ Withdraw \/ Follow \/ Lose \/ Close
  \/ \E r \in Readers :
       \/ HandOver(r) \/ Show(r) \/ Done(r) \/ Drop(r)
       \/ \E origin \in Endpoints \X Endpoints : Take(r, origin)

Spec == Init /\ [][Next]_vars

=============================================================================
