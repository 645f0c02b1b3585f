-------------------------------- MODULE MCSync ---------------------------------
(* Small instances of SyncHandler for TLC. *)
EXTENDS SyncHandler, TLC

CONSTANTS b1, b2

\* Different sizes, one of them zero: a sum that forgets or repeats a blob differs.
MCSize == [b \in Blobs |-> IF b = b1 THEN 0 ELSE IF b = b2 THEN 1 ELSE 2]

\* The enqueuers are alike, and so are the workers.
Alike == Permutations(Enqueuers) \cup Permutations(Workers)
=============================================================================
