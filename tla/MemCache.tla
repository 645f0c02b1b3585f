------------------------------ MODULE MemCache ------------------------------
(***************************************************************************)
(* The in-memory storage as a cache (pkg/blobserver/memory, NewCache) and  *)
(* the LRU list it evicts by (pkg/lru).  Every operation runs under a      *)
(* lock, and a removal leaves the blob's key in the list.                  *)
(***************************************************************************)
EXTENDS Integers, Sequences, Functions, FiniteSets

CONSTANTS
    Blobs,
    SizeOf,    \* the length of each blob
    maxSize    \* positive

MemCacheAssumption ==
    IsFiniteSet(Blobs) /\ SizeOf \in [Blobs -> Nat] /\ maxSize \in Nat

VARIABLES
    m,       \* the blobs held
    size,
    lru,     \* the keys of the list, the most recent first
    newer    \* history: <<b, c>> if b was stored or fetched after c, of the blobs held

vars == <<m, size, lru, newer>>

Init ==
    /\ m = {}
    /\ size = 0
    /\ lru = << >>
    /\ newer = {}

\* lru.Add, and lru.Get of a key that is there: the list's MoveToFront, or its PushFront.
ToFront(s, b) ==
    IF b \in Range(s)
    THEN [i \in 1..Len(s) |-> IF i = 1 THEN b
                              ELSE IF b \in {s[j] : j \in 1..(i - 1)} THEN s[i]
                              ELSE s[i - 1]]
    ELSE <<b>> \o s

\* b is used now, and the blobs of S are held.
Newest(b, S) ==
    {p \in newer : p[1] \in S /\ p[2] \in S \ {b}} \cup {<<b, c>> : c \in S \ {b}}

SizeOfAll(S) == SumFunctionOnSet(SizeOf, S)

\* The k oldest keys of a list.
Oldest(l, k) == {l[i] : i \in (Len(l) - k + 1)..Len(l)}

\* Faulty variant: a key counts for the length of its blob, held or not.
sizeLessAny(S, z, l, k) == z - SizeOfAll(Oldest(l, k))

\* The size once the k oldest keys are off the list: removeBlobLocked counts only
\* those that are held.
sizeLess(S, z, l, k) == z - SizeOfAll(Oldest(l, k) \cap S)

\* How many keys the loop takes off: as many as it takes for the size to fit.
evictions(S, z, l) ==
    CHOOSE k \in 0..Len(l) :
       /\ sizeLess(S, z, l, k) <= maxSize \/ k = Len(l)
       /\ \A j \in 0..(k - 1) : sizeLess(S, z, l, j) > maxSize

ReceiveBlob(b) ==
    /\ IF b \in m THEN UNCHANGED vars
       ELSE LET S == m \cup {b}
                z == size + SizeOf[b]
                l == ToFront(lru, b)
                k == evictions(S, z, l)
            IN  /\ m' = S \ Oldest(l, k)
                /\ size' = sizeLess(S, z, l, k)
                /\ lru' = SubSeq(l, 1, Len(l) - k)
                /\ newer' = {p \in Newest(b, S) : p[1] \in m' /\ p[2] \in m'}

\* The key is forced to the head, also that of a blob that was removed.
Fetch(b) ==
    /\ lru' = IF b \in Range(lru) THEN ToFront(lru, b) ELSE lru
    /\ newer' = IF b \in m THEN Newest(b, m) ELSE newer
    /\ UNCHANGED <<m, size>>

RemoveBlobs(b) ==
    /\ m' = m \ {b}
    /\ size' = size - SizeOfAll(m \cap {b})
    /\ newer' = {p \in newer : p[1] # b /\ p[2] # b}
    /\ UNCHANGED lru

Next == \E b \in Blobs : ReceiveBlob(b) \/ Fetch(b) \/ RemoveBlobs(b)

Spec == Init /\ [][Next]_vars

-----------------------------------------------------------------------------
(* Properties *)

\* Types.
TypeOK ==
    /\ m \subseteq Blobs
    /\ size \in Int
    /\ lru \in Seq(Blobs) /\ newer \subseteq m \X m

\* "Won't store more than size bytes", "evicted in LRU order": the count of bytes
\* is right and within the limit, although removals leave keys behind; every blob
\* held can be evicted; and the list has the blobs held in the order they were last
\* stored or fetched in, so that it is the least recent one that goes.
CacheSound ==
    /\ size = SizeOfAll(m) /\ size <= maxSize
    /\ m \subseteq Range(lru)
    /\ \A i, j \in 1..Len(lru) :
          lru[i] \in m /\ lru[j] \in m => (i < j <=> <<lru[i], lru[j]>> \in newer)
=============================================================================
