-------------------------------- MODULE MCIndex --------------------------------
(* Small instances of Index for TLC. *)
EXTENDS Index, TLC

CONSTANTS k, c, x, d, f

\* Claim c and delete claim x both need the key k to be verified; x deletes c.
ClaimKind   == [b \in Blobs |-> IF b = k THEN "data" ELSE IF b = c THEN "claim" ELSE "delete"]
ClaimDeps   == [b \in Blobs |-> IF b = k THEN {} ELSE {k}]
ClaimTarget == [b \in Blobs |-> IF b = x THEN c ELSE NoBlob]

\* File f has two parts, k and d.
FileKind   == [b \in Blobs |-> IF b = f THEN "file" ELSE "data"]
FileDeps   == [b \in Blobs |-> IF b = f THEN Blobs \ {f} ELSE {}]
FileTarget == [b \in Blobs |-> NoBlob]

\* File f of part k, directory d of the same, delete claim x of permanode c: one
\* need each.
LiveKind   == [b \in Blobs |-> CASE b = f -> "file" [] b = d -> "directory" [] b = x -> "delete"
                                [] b = c -> "permanode" [] OTHER -> "data"]
LiveDeps   == [b \in Blobs |-> IF b \in {d, f} THEN {k} ELSE {}]
LiveTarget == [b \in Blobs |-> IF b = x THEN c ELSE NoBlob]

\* The receiving threads are alike.
Alike == Permutations(Receivers)
=============================================================================
