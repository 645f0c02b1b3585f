------------------------------ MODULE DurableQueue -----------------------------
(***************************************************************************)
(* What a persistent replication queue promises, whatever happens in       *)
(* memory: an item leaves the queue only after it has been delivered, and  *)
(* what was delivered stays delivered.                                     *)
(***************************************************************************)
CONSTANT Items
VARIABLES pending, delivered

Init == pending = {} /\ delivered = {}

\* An item is recorded, for the first time or again.
Accept(i) == pending' = pending \cup {i} /\ UNCHANGED delivered

\* An item is delivered; it need not have been recorded (yet).
Deliver(i) == delivered' = delivered \cup {i} /\ UNCHANGED pending

\* A delivered item is forgotten.
Retire(i) == i \in delivered /\ pending' = pending \ {i} /\ UNCHANGED delivered

Next == \E i \in Items : Accept(i) \/ Deliver(i) \/ Retire(i)

Spec == Init /\ [][Next]_<<pending, delivered>>
=============================================================================
