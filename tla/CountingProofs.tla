--------------------------- MODULE CountingProofs ---------------------------
(***************************************************************************)
(* What Replica and MemCache promise, for all values of their constants:   *)
(* one section for each, with its inductive invariant and the lemmas on    *)
(* its actions, and then the theorems.                                     *)
(***************************************************************************)
EXTENDS CountingStorages, SumTheorems, Sequences, SequenceTheorems

\* A leaf is tried with Zenon first, which is the quicker of the two here.
USE ZenonT(5), SMTT(60)

-----------------------------------------------------------------------------
(***************************************************************************)
(* The replica storage, for any replicas, any number of uploads and any    *)
(* minWritesForSuccess: an acknowledged blob is on as many replicas as     *)
(* were asked for.                                                         *)
(*                                                                         *)
(* An upload counts the successes it was told of; each is of a replica     *)
(* that holds the blob, as long as no removal came between (Counted), and  *)
(* a removal takes nothing from a blob that counts as acknowledged         *)
(* (Removing).                                                             *)
(***************************************************************************)

\* What Replica says of finite sets, in the terms of FiniteSets.
LEMMA ReplicaSets ==
  \A S : /\ Repl!IsFiniteSet(S) <=> IsFiniteSet(S)
         /\ Repl!Cardinality(S) = Cardinality(S)
<1>1. \A S : Repl!IsFiniteSet(S) <=> IsFiniteSet(S)
  BY DEF IsFiniteSet, Repl!IsFiniteSet
<1>2. \A S : Repl!Cardinality(S) = Cardinality(S)
  BY DEF Cardinality, Repl!Cardinality
<1> QED BY <1>1, <1>2

\* What an upload that no removal has overlapped has counted is on replicas that hold
\* the blob: those that have answered, all of them unless one has failed.
Counted(t) ==
  rPc[t] = "wait" =>
    /\ rNSuccess[t] + Cardinality(rTodo[t]) <= Repl!NReplicas
    /\ t \notin rOverlap =>
         /\ rNSuccess[t] <= Cardinality(rHas \ rTodo[t])
         /\ ~rFails[t] => Replicas \ rTodo[t] \subseteq rHas

\* While a removal runs nothing is acknowledged, and every upload overlaps it.
Removing ==
  /\ rRpc = "idle" => rRtodo = {}
  /\ rRpc = "wait" => ~rAcked /\ \A t \in Callers : rPc[t] = "wait" => t \in rOverlap

\* The inductive invariant.
ReplIInv == Repl!TypeOK /\ Removing /\ (\A t \in Callers : Counted(t)) /\ Repl!MinWritesHeld

\* Subsets of the replicas are finite, and larger ones count more.
LEMMA Count ==
  ASSUME NEW S, S \subseteq Replicas
  PROVE  /\ IsFiniteSet(S) /\ Cardinality(S) \in Nat
         /\ Cardinality(S) <= Repl!NReplicas
         /\ \A T : T \subseteq S => Cardinality(T) <= Cardinality(S) /\ Cardinality(T) \in Nat
         /\ \A r : r \notin S => Cardinality(S \cup {r}) = Cardinality(S) + 1
         /\ \A r : r \in S => Cardinality(S \ {r}) = Cardinality(S) - 1
  <1>1. IsFiniteSet(Replicas) BY ReplicaSets, CountingAssumption DEF Repl!ReplicaAssumption
  <1>2. IsFiniteSet(S) BY <1>1, FS_Subset
  <1>3. \A T : T \subseteq S => IsFiniteSet(T) /\ Cardinality(T) <= Cardinality(S)
    BY <1>2, FS_Subset
  <1>4. Cardinality(S) <= Repl!NReplicas
    BY ReplicaSets, <1>1, FS_Subset DEF Repl!NReplicas
  <1> QED BY <1>2, <1>3, <1>4, FS_CardinalityType, FS_AddElement, FS_RemoveElement

\* It holds at the start, with no upload under way.
LEMMA ReplInitial == ASSUME Repl!Init PROVE ReplIInv
  <1>1. Repl!NReplicas \in Nat
    BY ReplicaSets, Count DEF Repl!NReplicas
  <1>2. rFails \in [Callers -> BOOLEAN] /\ rAcked \in BOOLEAN
    BY Zenon DEF Repl!Init
  <1>3. Repl!TypeOK
    BY <1>1, <1>2, CountingAssumption DEF Repl!Init, Repl!TypeOK, Repl!ReplicaAssumption
  <1> QED BY <1>3 DEF Repl!Init, ReplIInv, Removing, Counted, Repl!MinWritesHeld

\* An upload does not lose what it has counted while no removal runs.
LEMMA CountedKept ==
  ASSUME Repl!TypeOK, NEW t \in Callers, Counted(t), rHas \subseteq rHas', rHas' \subseteq Replicas,
         rPc'[t] = rPc[t], rTodo'[t] = rTodo[t], rNSuccess'[t] = rNSuccess[t],
         rFails'[t] = rFails[t], t \in rOverlap => t \in rOverlap'
  PROVE  Counted(t)'
  <1>1. rTodo[t] \subseteq Replicas /\ rNSuccess[t] \in Nat
    BY Count DEF Repl!TypeOK
  <1>2. Cardinality(rHas \ rTodo[t]) <= Cardinality(rHas' \ rTodo[t])
        /\ Cardinality(rHas \ rTodo[t]) \in Nat /\ Cardinality(rHas' \ rTodo[t]) \in Nat
    <2>1. rHas \ rTodo[t] \subseteq rHas' \ rTodo[t] /\ rHas' \ rTodo[t] \subseteq Replicas
      BY DEF Repl!TypeOK
    <2> QED BY <2>1, Count
  <1> DEFINE c == Cardinality(rHas \ rTodo[t])
             d == Cardinality(rHas' \ rTodo[t])
  <1>3. c <= d /\ c \in Nat /\ d \in Nat BY <1>2
  <1>4. rNSuccess[t] <= c => rNSuccess[t] <= d
    <2> HIDE DEF c, d
    <2> QED BY <1>1, <1>3
  <1> QED BY <1>4 DEF Counted

\* What is acknowledged stays where it is while no removal takes it away.
LEMMA HeldKept ==
  ASSUME Repl!TypeOK, Repl!MinWritesHeld, rHas \subseteq rHas', rHas' \subseteq Replicas,
         UNCHANGED rMinWritesForSuccess, rAcked' => rAcked
  PROVE  Repl!MinWritesHeld'
  <1>1. Cardinality(rHas) <= Cardinality(rHas')
        /\ Cardinality(rHas) \in Nat /\ Cardinality(rHas') \in Nat
    BY Count
  <1>2. rMinWritesForSuccess \in Nat
    BY CountingAssumption DEF Repl!TypeOK, Repl!ReplicaAssumption
  <1>3. Cardinality(rHas) >= rMinWritesForSuccess => Cardinality(rHas') >= rMinWritesForSuccess
    <2> DEFINE c == Cardinality(rHas)
               d == Cardinality(rHas')
    <2>1. c <= d /\ c \in Nat /\ d \in Nat BY <1>1
    <2> HIDE DEF c, d
    <2>2. c >= rMinWritesForSuccess => d >= rMinWritesForSuccess BY <2>1, <1>2
    <2> QED BY <2>2 DEF c, d
  <1>4. rHas = Replicas => rHas' = Replicas
    OBVIOUS
  <1> QED BY ReplicaSets, <1>3, <1>4 DEF Repl!MinWritesHeld

\* An upload begins: it has counted nothing.
LEMMA ReplReceiveBlobOK ==
  ASSUME ReplIInv, NEW t \in Callers, Repl!ReceiveBlob(t)
  PROVE  ReplIInv'
  <1> USE DEF ReplIInv
  <1>1. Repl!NReplicas \in Nat /\ Cardinality(Replicas) = Repl!NReplicas /\ Cardinality(Replicas \ Replicas) \in Nat
    BY ReplicaSets, Count DEF Repl!NReplicas
  <1>2. Repl!TypeOK'
    BY <1>1, CountingAssumption DEF Repl!ReceiveBlob, Repl!TypeOK, Repl!ReplicaAssumption
  <1>3. Repl!MinWritesHeld'
    BY HeldKept DEF Repl!ReceiveBlob, Repl!TypeOK
  <1>4. Removing'
    BY DEF Removing, Repl!ReceiveBlob, Repl!TypeOK
  <1>5. ASSUME NEW u \in Callers PROVE Counted(u)'
    <2>1. CASE u # t
      <3>1. /\ rPc'[u] = rPc[u] /\ rTodo'[u] = rTodo[u] /\ rNSuccess'[u] = rNSuccess[u]
            /\ rFails'[u] = rFails[u] /\ (u \in rOverlap => u \in rOverlap')
        BY <2>1 DEF Repl!ReceiveBlob, Repl!TypeOK
      <3> QED BY <3>1, CountedKept DEF Repl!ReceiveBlob, Repl!TypeOK
    <2>2. CASE u = t
      <3>1. rNSuccess'[t] = 0 /\ rTodo'[t] = Replicas
        BY DEF Repl!ReceiveBlob, Repl!TypeOK
      <3>2. 0 <= Cardinality(rHas' \ Replicas)
        <4>1. rHas' \ Replicas = {} BY <1>2 DEF Repl!TypeOK
        <4> QED BY <4>1, FS_EmptySet
      <3> QED BY <2>2, <3>1, <3>2, <1>1 DEF Counted
    <2> QED BY <2>1, <2>2
  <1> QED BY <1>2, <1>3, <1>4, <1>5

\* A replica answers an upload, which may return with that: a success is counted
\* for a replica that holds the blob.
LEMMA AnswerOK ==
  ASSUME ReplIInv, NEW t \in Callers, NEW r \in Replicas,
         Repl!uploadToReplica(t, r) \/ Repl!uploadFails(t, r)
  PROVE  ReplIInv'
  <1> USE DEF ReplIInv
  <1> DEFINE rest == rTodo[t] \ {r}
             c == Cardinality(rTodo[t])
             d == Cardinality(rest)
             f == Cardinality(rHas \ rTodo[t])
             g == Cardinality(rHas' \ rest)
             n == rNSuccess[t]
  <1>0. /\ rPc[t] = "wait" /\ r \in rTodo[t] /\ rTodo[t] \subseteq Replicas
        /\ n \in Nat /\ n + c <= Repl!NReplicas /\ Repl!NReplicas \in Nat
    <2>1. rPc[t] = "wait" /\ r \in rTodo[t] BY DEF Repl!uploadToReplica, Repl!uploadFails
    <2>2. rTodo[t] \subseteq Replicas /\ n \in 0..Repl!NReplicas BY DEF Repl!TypeOK
    <2>3. n + c <= Repl!NReplicas BY <2>1 DEF Counted
    <2>4. Repl!NReplicas \in Nat BY ReplicaSets, Count DEF Repl!NReplicas
    <2> QED BY <2>1, <2>2, <2>3, <2>4
  <1>1. c \in Nat /\ d \in Nat /\ c = d + 1
    BY <1>0, Count
  <1>2. /\ rHas \subseteq rHas' /\ rHas' \subseteq Replicas
        /\ UNCHANGED <<rMinWritesForSuccess, rRpc, rRtodo, rOverlap, rUploads, rRemovals>>
    BY DEF Repl!uploadToReplica, Repl!uploadFails, Repl!TypeOK
  <1>3. f \in Nat /\ g \in Nat /\ f <= g /\ (r \in rHas' => f + 1 <= g)
    <2>1. rHas' \ rest \subseteq Replicas /\ rHas \ rTodo[t] \subseteq rHas' \ rest
          /\ r \notin rHas \ rTodo[t]
      BY <1>0, <1>2
    <2>2. r \in rHas' => (rHas \ rTodo[t]) \cup {r} \subseteq rHas' \ rest
      BY <1>0, <1>2
    <2>3. Cardinality((rHas \ rTodo[t]) \cup {r}) = f + 1 /\ f \in Nat
      BY <2>1, <1>2, Count
    <2> QED BY <2>1, <2>2, <2>3, Count
  <1>4. \A u \in Callers \ {t} :
          /\ rPc'[u] = rPc[u] /\ rTodo'[u] = rTodo[u] /\ rNSuccess'[u] = rNSuccess[u]
          /\ rFails'[u] = rFails[u]
    BY DEF Repl!uploadToReplica, Repl!uploadFails, Repl!return, Repl!TypeOK
  <1>5. /\ rPc'[t] \in {"idle", "wait"}
        /\ rPc'[t] = "wait" => rTodo'[t] = rest
        /\ \/ rNSuccess'[t] = n + 1 /\ r \in rHas' /\ rFails'[t] = rFails[t]
           \/ rNSuccess'[t] = n /\ rFails'[t]
    BY DEF Repl!uploadToReplica, Repl!uploadFails, Repl!return, Repl!TypeOK
  <1>6. rNSuccess'[t] \in Nat /\ rNSuccess'[t] + d <= Repl!NReplicas
        /\ (n <= f => rNSuccess'[t] <= g)
    <2> HIDE DEF c, d, f, g, n
    <2> QED BY <1>0, <1>1, <1>3, <1>5
  <1>7. \A u \in Callers : Counted(u)'
    <2>1. ASSUME NEW u \in Callers \ {t} PROVE Counted(u)'
      BY <1>2, <1>4, CountedKept
    <2>2. Counted(t)'
      <3>1. ASSUME t \notin rOverlap, ~rFails'[t], rPc'[t] = "wait"
            PROVE  Replicas \ rest \subseteq rHas'
        BY <3>1, <1>0, <1>2, <1>5 DEF Counted, Repl!TypeOK
      <3> QED BY <1>0, <1>2, <1>5, <1>6, <3>1 DEF Counted
    <2> QED BY <2>1, <2>2
  <1>8. Removing'
    <2>1. rRpc = "wait" => (rAcked' => rAcked)
      BY <1>0 DEF Removing, Repl!uploadToReplica, Repl!uploadFails
    <2>2. \A u \in Callers : rPc'[u] = "wait" => rPc[u] = "wait"
      BY <1>0, <1>4, <1>5
    <2> QED BY <1>2, <2>1, <2>2 DEF Removing
  <1>9. Repl!MinWritesHeld'
    <2>1. CASE rAcked' => rAcked
      BY <2>1, <1>2, HeldKept
    <2>2. CASE rAcked' /\ ~rAcked
      <3>1. /\ t \notin rOverlap /\ r \in rHas'
            /\ \/ n + 1 = rMinWritesForSuccess
               \/ rest = {} /\ ~rFails[t]
        BY <2>2 DEF Repl!uploadToReplica, Repl!uploadFails, Repl!succeeded
      <3>2. CASE n + 1 = rMinWritesForSuccess
        <4>1. n <= f BY <1>0, <3>1 DEF Counted
        <4>2. g <= Cardinality(rHas') /\ Cardinality(rHas') \in Nat
          BY <1>2, Count
        <4> DEFINE h == Cardinality(rHas')
        <4>3. g <= h /\ h \in Nat BY <4>2
        <4>4. h >= rMinWritesForSuccess
          <5> HIDE DEF f, g, h, n
          <5> QED BY <3>1, <3>2, <4>1, <4>3, <1>0, <1>3
        <4> QED BY ReplicaSets, <4>4, <1>2 DEF Repl!MinWritesHeld
      <3>3. CASE rest = {} /\ ~rFails[t]
        <4>1. Replicas \ rTodo[t] \subseteq rHas BY <1>0, <3>1, <3>3 DEF Counted
        <4>2. rHas' = Replicas BY <4>1, <3>1, <3>3, <1>2
        <4> QED BY <4>2 DEF Repl!MinWritesHeld
      <3> QED BY <3>1, <3>2, <3>3
    <2> QED BY <2>1, <2>2
  <1>10. Repl!TypeOK'
    <2>1. rNSuccess'[t] \in 0..Repl!NReplicas
      <3> HIDE DEF c, d, f, g, n
      <3> QED BY <1>0, <1>1, <1>6
    <2>2. rNSuccess' \in [Callers -> 0..Repl!NReplicas]
      <3>1. rNSuccess' = [rNSuccess EXCEPT ![t] = rNSuccess'[t]]
        BY DEF Repl!uploadToReplica, Repl!uploadFails, Repl!TypeOK
      <3> QED BY <3>1, <2>1 DEF Repl!TypeOK
    <2>3. /\ rPc' \in [Callers -> {"idle", "wait"}]
          /\ rTodo' \in [Callers -> SUBSET Replicas]
          /\ rLate' \in [Replicas -> Nat]
      BY DEF Repl!TypeOK, Repl!uploadToReplica, Repl!uploadFails, Repl!return
    <2>4. rFails' \in [Callers -> BOOLEAN] /\ rAcked' \in BOOLEAN
      BY DEF Repl!TypeOK, Repl!uploadToReplica, Repl!uploadFails
    <2> QED BY <1>2, <2>2, <2>3, <2>4 DEF Repl!TypeOK
  <1> QED BY <1>7, <1>8, <1>9, <1>10

\* A write that ends after its upload has returned only adds a replica.
LEMMA lateWriteOK ==
  ASSUME ReplIInv, NEW r \in Replicas, Repl!lateWrite(r)
  PROVE  ReplIInv'
  <1> USE DEF ReplIInv
  <1>1. Repl!TypeOK' BY DEF Repl!TypeOK, Repl!lateWrite
  <1>2. Repl!MinWritesHeld' BY <1>1, HeldKept DEF Repl!lateWrite, Repl!TypeOK
  <1>3. Removing' BY DEF Removing, Repl!lateWrite
  <1>4. \A u \in Callers : Counted(u)' BY <1>1, CountedKept DEF Repl!lateWrite, Repl!TypeOK
  <1> QED BY <1>1, <1>2, <1>3, <1>4

\* A removal takes the blob from the replicas once nothing counts as acknowledged.
LEMMA RemovalOK ==
  ASSUME ReplIInv, Repl!RemoveBlobs \/ \E r \in Replicas : Repl!removeFrom(r)
  PROVE  ReplIInv'
  <1> USE DEF ReplIInv
  <1>1. CASE Repl!RemoveBlobs
    <2>0. rAcked' \in BOOLEAN BY <1>1, Zenon DEF Repl!RemoveBlobs
    <2>1. Repl!TypeOK' BY <1>1, <2>0, CountingAssumption DEF Repl!TypeOK, Repl!RemoveBlobs, Repl!ReplicaAssumption
    <2>2. Repl!MinWritesHeld' BY <1>1 DEF Repl!RemoveBlobs, Repl!MinWritesHeld
    <2>3. Removing' BY <1>1 DEF Removing, Repl!RemoveBlobs
    <2>4. \A u \in Callers : Counted(u)' BY <1>1, <2>1, CountedKept DEF Repl!RemoveBlobs, Repl!TypeOK
    <2> QED BY <2>1, <2>2, <2>3, <2>4
  <1>2. ASSUME NEW r \in Replicas, Repl!removeFrom(r) PROVE ReplIInv'
    <2>1. rRpc = "wait" /\ ~rAcked /\ \A t \in Callers : rPc[t] = "wait" => t \in rOverlap
      BY <1>2 DEF Repl!removeFrom, Removing, Repl!TypeOK
    <2>2. Repl!TypeOK' BY <1>2 DEF Repl!TypeOK, Repl!removeFrom
    <2>3. Repl!MinWritesHeld' BY <1>2, <2>1 DEF Repl!removeFrom, Repl!MinWritesHeld
    <2>4. Removing' BY <1>2, <2>1 DEF Removing, Repl!removeFrom
    <2>5. \A u \in Callers : Counted(u)' BY <1>2, <2>1 DEF Repl!removeFrom, Counted
    <2> QED BY <2>2, <2>3, <2>4, <2>5
  <1> QED BY <1>1, <1>2

\* Every step keeps the invariant.
LEMMA ReplStepOK == ASSUME ReplIInv, [Repl!Next]_(Repl!vars) PROVE ReplIInv'
  <1>1. CASE UNCHANGED Repl!vars
    BY <1>1 DEF Repl!vars, ReplIInv, Repl!TypeOK, Removing, Counted, Repl!MinWritesHeld
  <1> QED BY <1>1, ReplReceiveBlobOK, AnswerOK, lateWriteOK, RemovalOK DEF Repl!Next

-----------------------------------------------------------------------------
(***************************************************************************)
(* The memory cache, for any blobs, sizes and limit: its size is the sum   *)
(* of the sizes of what it holds, and what it evicts was used least        *)
(* recently.                                                               *)
(*                                                                         *)
(* The list may hold places of blobs that were removed: the order of use   *)
(* is that of the list without them (InOrder). The proof of the eviction   *)
(* goes along the list, with the smallest number of evictions that         *)
(* suffices.                                                               *)
(***************************************************************************)

\* What MemCache says of finite sets, ranges and sums, in the terms of FiniteSets and
\* Functions.
LEMMA CacheSets ==
  /\ \A S : Cache!IsFiniteSet(S) <=> IsFiniteSet(S)
  /\ \A f : Cache!Range(f) = Range(f)
  /\ \A f, S : Cache!SumFunctionOnSet(f, S) = SumFunctionOnSet(f, S)
<1>1. \A S : Cache!IsFiniteSet(S) <=> IsFiniteSet(S)
  BY DEF IsFiniteSet, Cache!IsFiniteSet
<1>2. \A f : Cache!Range(f) = Range(f)
  BY DEF Range, Cache!Range
<1>3. \A f, S : Cache!SumFunctionOnSet(f, S) = SumFunctionOnSet(f, S)
  BY DEF SumFunctionOnSet, Cache!SumFunctionOnSet, FoldFunctionOnSet, Cache!FoldFunctionOnSet,
         MapThenFoldSet, Cache!MapThenFoldSet
<1> QED BY <1>1, <1>2, <1>3

\* No element is twice in the list.
Distinct(s) == \A i, j \in 1..Len(s) : s[i] = s[j] => i = j

\* The list s has the blobs of S in the order of N.
InOrder(s, S, N) ==
  \A i, j \in 1..Len(s) : s[i] \in S /\ s[j] \in S => (i < j <=> <<s[i], s[j]>> \in N)

\* The inductive invariant.
CacheIInv ==
  /\ Cache!TypeOK
  /\ kSize = Cache!SizeOfAll(kM) /\ kSize <= maxSize
  /\ kM \subseteq Range(kLru) /\ Distinct(kLru)
  /\ InOrder(kLru, kM, kNewer)

\* The order Q is N with b the newest of all, and the order Q is N for the blobs of T.
UsedNow(Q, N, M, b) ==
  \A c, d \in M \cup {b} : <<c, d>> \in Q <=> d # b /\ (c = b \/ <<c, d>> \in N)
SameOrder(Q, N, T) == \A c, d \in T : <<c, d>> \in Q <=> <<c, d>> \in N

\* The rest of the list l is the list s without b.
Shift(s, b, l, f) ==
  /\ f \in [2..Len(l) -> 1..Len(s)]
  /\ \A i \in 2..Len(l) : l[i] = s[f[i]] /\ s[f[i]] # b
  /\ \A i, j \in 2..Len(l) : i < j => f[i] < f[j]
  /\ \A k \in 1..Len(s) : s[k] # b => \E i \in 2..Len(l) : f[i] = k

\* A key moves to the front, or is new there; the others keep their order.
LEMMA Front ==
  ASSUME NEW s \in Seq(CacheBlobs), Distinct(s), NEW b \in CacheBlobs, NEW l, l = Cache!ToFront(s, b)
  PROVE  /\ l \in Seq(CacheBlobs) /\ Len(l) \in Nat /\ Len(l) >= 1 /\ l[1] = b
         /\ \E f : Shift(s, b, l, f)
  <1>0. Len(s) \in Nat /\ \A i \in 1..Len(s) : s[i] \in CacheBlobs
    OBVIOUS
  <1>1. CASE b \in Range(s)
    <2>1. PICK p \in 1..Len(s) : s[p] = b
      BY <1>1 DEF Range
    <2>2. l = [i \in 1..Len(s) |-> IF i = 1 THEN b
                              ELSE IF b \in {s[j] : j \in 1..(i - 1)} THEN s[i]
                              ELSE s[i - 1]]
      BY CacheSets, <1>1 DEF Cache!ToFront
    <2>3. \A i \in 1..Len(s) : b \in {s[j] : j \in 1..(i - 1)} <=> p < i
      <3> SUFFICES ASSUME NEW i \in 1..Len(s)
                   PROVE  b \in {s[j] : j \in 1..(i - 1)} <=> p < i
        OBVIOUS
      <3>1. ASSUME NEW j \in 1..(i - 1), s[j] = b PROVE p < i
        <4>1. j \in 1..Len(s) BY <1>0
        <4>2. j = p BY <2>1, <3>1, <4>1 DEF Distinct
        <4> QED BY <1>0, <4>2
      <3>2. p < i => p \in 1..(i - 1) BY <1>0
      <3> QED BY <2>1, <3>1, <3>2
    <2>4. l \in [1..Len(s) -> CacheBlobs]
      <3>1. \A i \in 1..Len(s) : i # 1 => i - 1 \in 1..Len(s) BY <1>0
      <3> QED BY <1>0, <2>2, <3>1
    <2>5. l \in Seq(CacheBlobs) /\ Len(l) = Len(s) /\ 1 \in 1..Len(s)
      BY <1>0, <2>1, <2>4
    <2>6. l[1] = b BY <2>2, <2>5
    <2>7. \A i \in 2..Len(s) : l[i] = (IF p < i THEN s[i] ELSE s[i - 1])
      <3>1. \A i \in 2..Len(s) : i \in 1..Len(s) /\ i # 1 BY <1>0
      <3> QED BY <2>2, <2>3, <3>1
    <2> DEFINE f == [i \in 2..Len(s) |-> IF p < i THEN i ELSE i - 1]
    <2>8. f \in [2..Len(s) -> 1..Len(s)] BY <1>0
    <2>9. \A i \in 2..Len(s) : l[i] = s[f[i]] /\ f[i] # p BY <1>0, <2>7
    <2>10. \A i \in 2..Len(s) : s[f[i]] # b
      BY <2>1, <2>8, <2>9 DEF Distinct
    <2>11. \A i, j \in 2..Len(s) : i < j => f[i] < f[j] BY <1>0
    <2>12. \A k \in 1..Len(s) : s[k] # b => \E i \in 2..Len(s) : f[i] = k
      <3> SUFFICES ASSUME NEW k \in 1..Len(s), s[k] # b PROVE \E i \in 2..Len(s) : f[i] = k
        OBVIOUS
      <3>1. k # p BY <2>1
      <3>2. CASE p < k
        <4>1. k \in 2..Len(s) /\ f[k] = k BY <1>0, <3>2
        <4> QED BY <4>1
      <3>3. CASE k < p
        <4>1. k + 1 \in 2..Len(s) /\ f[k + 1] = k BY <1>0, <3>3
        <4> QED BY <4>1
      <3> QED BY <1>0, <3>1, <3>2, <3>3
    <2> HIDE DEF f
    <2>13. Shift(s, b, l, f)
      BY <2>5, <2>8, <2>9, <2>10, <2>11, <2>12 DEF Shift
    <2>14. Len(l) \in Nat /\ Len(l) >= 1 BY <1>0, <2>5
    <2> QED BY <2>5, <2>6, <2>13, <2>14
  <1>2. CASE b \notin Range(s)
    <2>1. l = <<b>> \o s BY CacheSets, <1>2 DEF Cache!ToFront
    <2>2. l \in Seq(CacheBlobs) /\ Len(l) = Len(s) + 1 /\ l[1] = b
          /\ \A i \in 2..(Len(s) + 1) : l[i] = s[i - 1]
      <3>1. <<b>> \in Seq(CacheBlobs) /\ Len(<<b>>) = 1 /\ <<b>>[1] = b OBVIOUS
      <3>2. l \in Seq(CacheBlobs) BY <2>1, <3>1, ConcatProperties
      <3>3. Len(l) = Len(s) + 1 BY <1>0, <2>1, <3>1, ConcatProperties
      <3>4. l[1] = b BY <1>0, <2>1, <3>1, ConcatProperties
      <3>5. \A i \in 2..(Len(s) + 1) : l[i] = s[i - 1]
        BY <1>0, <2>1, <3>1, ConcatProperties
      <3> QED BY <3>2, <3>3, <3>4, <3>5
    <2> DEFINE f == [i \in 2..(Len(s) + 1) |-> i - 1]
    <2>3. f \in [2..(Len(s) + 1) -> 1..Len(s)] BY <1>0
    <2>4. \A i \in 2..(Len(s) + 1) : l[i] = s[f[i]] BY <2>2
    <2>5. \A i \in 2..(Len(s) + 1) : s[f[i]] # b BY <1>2, <2>3 DEF Range
    <2>6. \A i, j \in 2..(Len(s) + 1) : i < j => f[i] < f[j] BY <1>0
    <2>7. \A k \in 1..Len(s) : \E i \in 2..(Len(s) + 1) : f[i] = k
      <3> SUFFICES ASSUME NEW k \in 1..Len(s) PROVE \E i \in 2..(Len(s) + 1) : f[i] = k
        OBVIOUS
      <3>1. k + 1 \in 2..(Len(s) + 1) /\ f[k + 1] = k BY <1>0
      <3> QED BY <3>1
    <2> HIDE DEF f
    <2>8. Shift(s, b, l, f)
      BY <2>2, <2>3, <2>4, <2>5, <2>6, <2>7 DEF Shift
    <2>9. Len(l) \in Nat /\ Len(l) >= 1 BY <1>0, <2>2
    <2> QED BY <2>2, <2>8, <2>9
  <1> QED BY <1>1, <1>2

\* The list after that: its keys, without repetition, and in the new order.
LEMMA Fronted ==
  ASSUME NEW s \in Seq(CacheBlobs), Distinct(s), NEW b \in CacheBlobs, NEW l, l = Cache!ToFront(s, b),
         NEW M \in SUBSET CacheBlobs, NEW N, InOrder(s, M, N), NEW Q,
         UsedNow(Q, N, M, b)
  PROVE  /\ l \in Seq(CacheBlobs) /\ Distinct(l) /\ Range(l) = Range(s) \cup {b}
         /\ InOrder(l, M \cup {b}, Q)
  <1> USE DEF UsedNow
  <1>0. Len(s) \in Nat OBVIOUS
  <1>1. l \in Seq(CacheBlobs) /\ Len(l) \in Nat /\ Len(s) \in Nat /\ Len(l) >= 1 /\ l[1] = b
    BY <1>0, Front
  <1>a. PICK f : Shift(s, b, l, f)
    BY Front
  <1>2. /\ f \in [2..Len(l) -> 1..Len(s)]
        /\ \A i \in 2..Len(l) : l[i] = s[f[i]] /\ s[f[i]] # b
        /\ \A i, j \in 2..Len(l) : i < j => f[i] < f[j]
        /\ \A k \in 1..Len(s) : s[k] # b => \E i \in 2..Len(l) : f[i] = k
    BY <1>a DEF Shift
  <1>3. \A i \in 1..Len(l) : i = 1 \/ i \in 2..Len(l) BY <1>1
  <1>4. \A i, j \in 2..Len(l) : f[i] = f[j] => i = j
    <2> SUFFICES ASSUME NEW i \in 2..Len(l), NEW j \in 2..Len(l), f[i] = f[j] PROVE i = j
      OBVIOUS
    <2>1. f[i] \in Nat BY <1>1, <1>2
    <2>2. ~(i < j) /\ ~(j < i) BY <1>2, <2>1
    <2> QED BY <1>1, <2>2
  <1>5. Distinct(l)
    <2> SUFFICES ASSUME NEW i \in 1..Len(l), NEW j \in 1..Len(l), l[i] = l[j] PROVE i = j
      BY DEF Distinct
    <2>1. CASE i = 1 \/ j = 1 BY <1>1, <1>2, <1>3, <2>1
    <2>2. CASE i \in 2..Len(l) /\ j \in 2..Len(l)
      <3>1. s[f[i]] = s[f[j]] /\ f[i] \in 1..Len(s) /\ f[j] \in 1..Len(s) BY <1>2, <2>2
      <3>2. f[i] = f[j] BY <3>1 DEF Distinct
      <3> QED BY <1>4, <2>2, <3>2
    <2> QED BY <1>3, <2>1, <2>2
  <1>6. Range(l) = Range(s) \cup {b}
    <2>1. ASSUME NEW c \in Range(l) PROVE c \in Range(s) \cup {b}
      <3>1. PICK i \in 1..Len(l) : l[i] = c BY <1>1, <2>1 DEF Range
      <3> QED BY <1>1, <1>2, <1>3, <3>1 DEF Range
    <2>2. ASSUME NEW c \in Range(s) PROVE c \in Range(l) \cup {b}
      <3>1. PICK k \in 1..Len(s) : s[k] = c BY <2>2 DEF Range
      <3>2. CASE c # b
        <4>1. PICK i \in 2..Len(l) : f[i] = k BY <1>2, <3>1, <3>2
        <4>2. i \in 1..Len(l) /\ l[i] = c BY <1>1, <1>2, <3>1, <4>1
        <4> QED BY <1>1, <4>2 DEF Range
      <3> QED BY <3>2
    <2>3. b \in Range(l)
      <3>1. 1 \in 1..Len(l) BY <1>1
      <3> QED BY <1>1, <3>1 DEF Range
    <2> QED BY <2>1, <2>2, <2>3
  <1>7. InOrder(l, M \cup {b}, Q)
    <2> SUFFICES ASSUME NEW i \in 1..Len(l), NEW j \in 1..Len(l),
                        l[i] \in M \cup {b}, l[j] \in M \cup {b}
                 PROVE  i < j <=> <<l[i], l[j]>> \in Q
      BY DEF InOrder
    <2>1. CASE j = 1
      <3>1. l[j] = b BY <1>1, <2>1
      <3>2. <<l[i], l[j]>> \notin Q BY <3>1
      <3> QED BY <1>1, <2>1, <3>2
    <2>2. CASE i = 1 /\ j \in 2..Len(l)
      <3>1. l[i] = b /\ l[j] # b BY <1>1, <1>2, <2>2
      <3> QED BY <1>1, <2>2, <3>1
    <2>3. CASE i \in 2..Len(l) /\ j \in 2..Len(l)
      <3>1. l[i] # b /\ l[j] # b /\ l[i] \in M /\ l[j] \in M BY <1>2, <2>3
      <3>2. f[i] \in 1..Len(s) /\ f[j] \in 1..Len(s) /\ s[f[i]] = l[i] /\ s[f[j]] = l[j]
        BY <1>2, <2>3
      <3>3. f[i] < f[j] <=> <<l[i], l[j]>> \in N BY <3>1, <3>2 DEF InOrder
      <3>4. i < j <=> f[i] < f[j]
        <4>1. i < j => f[i] < f[j] BY <1>2, <2>3
        <4>2. j < i => f[j] < f[i] BY <1>2, <2>3
        <4> QED BY <1>1, <2>3, <3>2, <4>1, <4>2
      <3>5. <<l[i], l[j]>> \in Q <=> <<l[i], l[j]>> \in N BY <3>1
      <3> QED BY <3>3, <3>4, <3>5
    <2> QED BY <1>3, <2>1, <2>2, <2>3
  <1> QED BY <1>1, <1>5, <1>6, <1>7

\* It holds for the empty cache.
LEMMA CacheInitial == ASSUME Cache!Init PROVE CacheIInv
  <1>1. kSize = Cache!SizeOfAll(kM) /\ kSize <= maxSize
    BY CacheSets, CountingAssumption, SumEmpty DEF Cache!Init, Cache!SizeOfAll, Cache!MemCacheAssumption
  <1>2. Cache!TypeOK BY DEF Cache!Init, Cache!TypeOK
  <1>3. Len(kLru) = 0 BY DEF Cache!Init
  <1> QED BY <1>1, <1>2, <1>3 DEF Cache!Init, CacheIInv, Distinct, InOrder

\* Sums over held blobs.
LEMMA Sizes ==
  ASSUME NEW S \in SUBSET CacheBlobs
  PROVE  /\ Cache!SizeOfAll(S) \in Nat
         /\ \A T : Cache!SizeOfAll(S \ T) = Cache!SizeOfAll(S) - Cache!SizeOfAll(T \cap S)
         /\ \A b \in CacheBlobs \ S : Cache!SizeOfAll(S \cup {b}) = Cache!SizeOfAll(S) + SizeOf[b]
  <1>1. IsFiniteSet(S) /\ \A b \in CacheBlobs : SizeOf[b] \in Nat
    BY CacheSets, CountingAssumption, FS_Subset DEF Cache!MemCacheAssumption
  <1>2. \A T \in SUBSET S : Cache!SizeOfAll(T) \in Nat
    <2> SUFFICES ASSUME NEW T \in SUBSET S PROVE Cache!SizeOfAll(T) \in Nat OBVIOUS
    <2>1. IsFiniteSet(T) /\ \A b \in T : SizeOf[b] \in Nat BY <1>1, FS_Subset
    <2> QED BY CacheSets, <2>1, SumNat DEF Cache!SizeOfAll
  <1>3. ASSUME NEW T PROVE Cache!SizeOfAll(S \ T) = Cache!SizeOfAll(S) - Cache!SizeOfAll(T \cap S)
    <2>1. T \cap S \in SUBSET S /\ S \ (T \cap S) = S \ T /\ S \ T \in SUBSET S OBVIOUS
    <2>2. Cache!SizeOfAll(S) = Cache!SizeOfAll(T \cap S) + Cache!SizeOfAll(S \ T)
      <3>1. SumFunctionOnSet(SizeOf, S) = SumFunctionOnSet(SizeOf, T \cap S) + SumFunctionOnSet(SizeOf, S \ (T \cap S))
        BY <1>1, <2>1, SumParts
      <3> QED BY CacheSets, <2>1, <3>1 DEF Cache!SizeOfAll
    <2>3. Cache!SizeOfAll(S) \in Nat /\ Cache!SizeOfAll(T \cap S) \in Nat /\ Cache!SizeOfAll(S \ T) \in Nat
      BY <1>2, <2>1
    <2> QED BY <2>2, <2>3
  <1>4. ASSUME NEW b \in CacheBlobs \ S PROVE Cache!SizeOfAll(S \cup {b}) = Cache!SizeOfAll(S) + SizeOf[b]
    BY CacheSets, <1>1, SumAdd DEF Cache!SizeOfAll
  <1> QED BY <1>2, <1>3, <1>4

\* The loop stops: the size fits, or the list is empty.
LEMMA Evictions ==
  ASSUME NEW S \in SUBSET CacheBlobs, NEW l \in Seq(CacheBlobs), S \subseteq Range(l)
  PROVE  LET z == Cache!SizeOfAll(S)
             k == Cache!evictions(S, z, l)
         IN  /\ k \in 0..Len(l)
             /\ Cache!sizeLess(S, z, l, k) = Cache!SizeOfAll(S \ Cache!Oldest(l, k))
             /\ Cache!sizeLess(S, z, l, k) \in Nat /\ Cache!sizeLess(S, z, l, k) <= maxSize
  <1> DEFINE z == Cache!SizeOfAll(S)
             k == Cache!evictions(S, z, l)
             Fits(n) == Cache!sizeLess(S, z, l, n) <= maxSize \/ n = Len(l)
             Fit == {n \in 0..Len(l) : Fits(n)}
  <1>0. Len(l) \in Nat /\ maxSize \in Nat BY CountingAssumption DEF Cache!MemCacheAssumption
  <1>1. \A n \in 0..Len(l) : Cache!sizeLess(S, z, l, n) = Cache!SizeOfAll(S \ Cache!Oldest(l, n))
                             /\ Cache!sizeLess(S, z, l, n) \in Nat
    <2> SUFFICES ASSUME NEW n \in 0..Len(l)
                 PROVE  Cache!sizeLess(S, z, l, n) = Cache!SizeOfAll(S \ Cache!Oldest(l, n))
                        /\ Cache!sizeLess(S, z, l, n) \in Nat
      OBVIOUS
    <2>1. Cache!SizeOfAll(S \ Cache!Oldest(l, n)) = z - Cache!SizeOfAll(Cache!Oldest(l, n) \cap S) BY Sizes
    <2>2. S \ Cache!Oldest(l, n) \in SUBSET CacheBlobs OBVIOUS
    <2>3. Cache!SizeOfAll(S \ Cache!Oldest(l, n)) \in Nat BY <2>2, Sizes
    <2> QED BY <2>1, <2>3 DEF Cache!sizeLess
  <1>2. PICK n \in Fit : \A j \in Fit : n <= j
    <2>1. Len(l) \in Fit BY <1>0
    <2>2. Fit \in SUBSET Nat /\ Fit # {} BY <1>0, <2>1
    <2> HIDE DEF Fit
    <2> QED BY <2>2, SmallestNat
  <1>3. n \in 0..Len(l) /\ Fits(n) /\ \A j \in 0..(n - 1) : Cache!sizeLess(S, z, l, j) > maxSize
    <2>1. ASSUME NEW j \in 0..(n - 1) PROVE Cache!sizeLess(S, z, l, j) > maxSize
      <3>1. j \in 0..Len(l) /\ j < n BY <1>0, <1>2
      <3>2. j \notin Fit BY <1>0, <1>2, <3>1
      <3>3. ~(Cache!sizeLess(S, z, l, j) <= maxSize) BY <3>1, <3>2
      <3>4. Cache!sizeLess(S, z, l, j) \in Nat BY <1>1, <3>1
      <3> QED BY <1>0, <3>3, <3>4
    <2> QED BY <1>2, <2>1
  <1>4. k \in 0..Len(l) /\ Fits(k)
    BY <1>3, Zenon DEF Cache!evictions
  <1>5. Cache!Oldest(l, Len(l)) = Range(l)
    <2>1. Len(l) - Len(l) + 1 = 1 BY <1>0
    <2>2. DOMAIN l = 1..Len(l) OBVIOUS
    <2> QED BY <2>1, <2>2 DEF Cache!Oldest, Range
  <1>6. Cache!sizeLess(S, z, l, Len(l)) = 0
    <2>1. S \ Cache!Oldest(l, Len(l)) = {} BY <1>5
    <2>2. Cache!SizeOfAll({}) = 0 BY CacheSets, SumEmpty DEF Cache!SizeOfAll
    <2>3. Len(l) \in 0..Len(l) BY <1>0
    <2> QED BY <1>1, <2>1, <2>2, <2>3
  <1> HIDE DEF k
  <1>7. Cache!sizeLess(S, z, l, k) <= maxSize BY <1>0, <1>4, <1>6
  <1> QED BY <1>1, <1>4, <1>7 DEF k

\* The k oldest keys are taken off the list.
LEMMA Cut ==
  ASSUME NEW l \in Seq(CacheBlobs), Distinct(l), NEW k \in 0..Len(l),
         NEW S, S \subseteq Range(l), NEW N, InOrder(l, S, N), NEW c, c = SubSeq(l, 1, Len(l) - k),
         NEW T, T = S \ Cache!Oldest(l, k), NEW Q,
         SameOrder(Q, N, T)
  PROVE  c \in Seq(CacheBlobs) /\ Distinct(c) /\ T \subseteq Range(c) /\ InOrder(c, T, Q)
  <1>1. Len(l) \in Nat /\ Len(l) - k \in 0..Len(l) OBVIOUS
  <1>2. c \in Seq(CacheBlobs) /\ Len(c) = Len(l) - k /\ \A i \in 1..Len(c) : c[i] = l[i]
    BY <1>1
  <1>3. \A i \in 1..Len(c) : i \in 1..Len(l) BY <1>1, <1>2
  <1>4. Distinct(c) BY <1>2, <1>3 DEF Distinct
  <1>5. ASSUME NEW b \in T PROVE b \in Range(c)
    <2>1. PICK i \in 1..Len(l) : l[i] = b BY <1>5 DEF Range
    <2>2. i \notin (Len(l) - k + 1)..Len(l) BY <1>5, <2>1 DEF Cache!Oldest
    <2>3. i \in 1..Len(c) BY <1>1, <1>2, <2>2
    <2>4. i \in DOMAIN c /\ c[i] = b BY <1>2, <2>1, <2>3
    <2> QED BY <2>4 DEF Range
  <1>6. InOrder(c, T, Q)
    <2> SUFFICES ASSUME NEW i \in 1..Len(c), NEW j \in 1..Len(c), c[i] \in T, c[j] \in T
                 PROVE  i < j <=> <<c[i], c[j]>> \in Q
      BY DEF InOrder
    <2>1. i \in 1..Len(l) /\ j \in 1..Len(l) /\ c[i] = l[i] /\ c[j] = l[j] BY <1>2, <1>3
    <2>2. i < j <=> <<c[i], c[j]>> \in N BY <2>1 DEF InOrder
    <2> QED BY <2>2 DEF SameOrder
  <1> QED BY <1>2, <1>4, <1>5, <1>6

\* A blob is added, and the least recently used ones go until the size is within
\* the limit.
LEMMA CacheReceiveBlobOK ==
  ASSUME CacheIInv, NEW b \in CacheBlobs, Cache!ReceiveBlob(b), b \notin kM
  PROVE  CacheIInv'
  <1> DEFINE S == kM \cup {b}
             z == kSize + SizeOf[b]
             l == Cache!ToFront(kLru, b)
             k == Cache!evictions(S, z, l)
  <1>1. /\ kM' = S \ Cache!Oldest(l, k) /\ kSize' = Cache!sizeLess(S, z, l, k)
        /\ kLru' = SubSeq(l, 1, Len(l) - k)
        /\ kNewer' = {p \in Cache!Newest(b, S) : p[1] \in kM' /\ p[2] \in kM'}
    BY DEF Cache!ReceiveBlob
  <1>2. kM \in SUBSET CacheBlobs /\ S \in SUBSET CacheBlobs /\ kLru \in Seq(CacheBlobs) /\ Distinct(kLru)
        /\ InOrder(kLru, kM, kNewer) /\ kM \subseteq Range(kLru)
    BY DEF CacheIInv, Cache!TypeOK
  <1>3. UsedNow(Cache!Newest(b, S), kNewer, kM, b)
    BY DEF Cache!Newest, UsedNow
  <1> HIDE DEF l
  <1>4. l \in Seq(CacheBlobs) /\ Distinct(l) /\ Range(l) = Range(kLru) \cup {b} /\ InOrder(l, S, Cache!Newest(b, S))
    BY <1>2, <1>3, Fronted DEF l
  <1>5. z = Cache!SizeOfAll(S) BY <1>2, Sizes DEF CacheIInv
  <1>6. S \subseteq Range(l) BY <1>2, <1>4
  <1> HIDE DEF S
  <1>7. /\ k \in 0..Len(l) /\ kSize' = Cache!SizeOfAll(kM') /\ kSize' \in Nat /\ kSize' <= maxSize
    BY <1>1, <1>2, <1>4, <1>5, <1>6, Evictions
  <1> HIDE DEF k
  <1>8. kLru' \in Seq(CacheBlobs) /\ Distinct(kLru') /\ kM' \subseteq Range(kLru') /\ InOrder(kLru', kM', kNewer')
    <2>1. SameOrder(kNewer', Cache!Newest(b, S), kM') BY <1>1 DEF SameOrder
    <2>2. kM' = S \ Cache!Oldest(l, k) /\ kLru' = SubSeq(l, 1, Len(l) - k) /\ k \in 0..Len(l)
      BY <1>1, <1>7
    <2>3. l \in Seq(CacheBlobs) /\ Distinct(l) /\ InOrder(l, S, Cache!Newest(b, S)) /\ S \subseteq Range(l)
      BY <1>4, <1>6
    <2> QED BY <2>1, <2>2, <2>3, Cut, Zenon
  <1>9. Cache!TypeOK'
    <2>1. kM' \subseteq CacheBlobs /\ kSize' \in Int BY <1>1, <1>2, <1>7
    <2>2. kNewer \subseteq kM \X kM BY DEF CacheIInv, Cache!TypeOK
    <2>3. \A p \in Cache!Newest(b, S) : p = <<p[1], p[2]>> BY <2>2 DEF Cache!Newest
    <2>4. kNewer' \subseteq kM' \X kM' BY <1>1, <2>3
    <2> QED BY <1>8, <2>1, <2>4 DEF Cache!TypeOK
  <1> QED BY <1>7, <1>8, <1>9 DEF CacheIInv, Cache!SizeOfAll, Distinct, InOrder

\* Fetch moves its key to the head of the list, where a blob that is held is the newest.
LEMMA FetchOK == ASSUME CacheIInv, NEW b \in CacheBlobs, Cache!Fetch(b) PROVE CacheIInv'
  <1>1. kM' = kM /\ kSize' = kSize /\ Cache!TypeOK BY DEF Cache!Fetch, CacheIInv
  <1>2. kM \in SUBSET CacheBlobs /\ kLru \in Seq(CacheBlobs) /\ Distinct(kLru) /\ InOrder(kLru, kM, kNewer)
        /\ kM \subseteq Range(kLru) /\ kNewer \subseteq kM \X kM
    BY DEF CacheIInv, Cache!TypeOK
  <1>3. Cache!SizeOfAll(kM)' = Cache!SizeOfAll(kM) BY <1>1 DEF Cache!SizeOfAll
  <1>4. CASE b \notin Range(kLru)
    <2>1. kLru' = kLru /\ kNewer' = kNewer BY CacheSets, <1>2, <1>4 DEF Cache!Fetch
    <2> QED BY <1>1, <1>3, <2>1 DEF CacheIInv, Cache!TypeOK, Distinct, InOrder
  <1>5. CASE b \in Range(kLru)
    <2>1. kLru' = Cache!ToFront(kLru, b) BY CacheSets, <1>5 DEF Cache!Fetch
    <2> DEFINE Q == Cache!Newest(b, kM \cup {b})
    <2>0. UsedNow(Q, kNewer, kM, b)
      BY DEF Cache!Newest, UsedNow
    <2> HIDE DEF Q
    <2>2. kLru' \in Seq(CacheBlobs) /\ Distinct(kLru') /\ Range(kLru') = Range(kLru) \cup {b}
          /\ InOrder(kLru', kM \cup {b}, Q)
      BY <1>2, <2>0, <2>1, Fronted
    <2>3. InOrder(kLru', kM, kNewer') /\ kNewer' \subseteq kM \X kM
      <3>1. CASE b \in kM
        <4>1. kM \cup {b} = kM BY <3>1
        <4>2. kNewer' = Cache!Newest(b, kM) BY <3>1 DEF Cache!Fetch
        <4>3. Q = kNewer' BY <4>1, <4>2 DEF Q
        <4>4. kNewer' \subseteq kM \X kM BY <1>2, <3>1, <4>2 DEF Cache!Newest
        <4> QED BY <2>2, <4>1, <4>3, <4>4
      <3>2. CASE b \notin kM
        <4>1. kNewer' = kNewer BY <3>2 DEF Cache!Fetch
        <4>2. \A c, d \in kM : <<c, d>> \in Q <=> <<c, d>> \in kNewer BY <2>0, <3>2 DEF UsedNow
        <4>3. InOrder(kLru', kM, kNewer) BY <2>2, <4>2 DEF InOrder
        <4> QED BY <1>2, <4>1, <4>3
      <3> QED BY <3>1, <3>2
    <2>4. Cache!TypeOK' BY <1>1, <2>2, <2>3 DEF Cache!TypeOK
    <2> QED BY <1>1, <1>2, <1>3, <2>2, <2>3, <2>4 DEF CacheIInv, Distinct, InOrder
  <1> QED BY <1>4, <1>5

\* A removed blob leaves the cache and its size, while its place in the list stays.
LEMMA RemoveBlobsOK == ASSUME CacheIInv, NEW b \in CacheBlobs, Cache!RemoveBlobs(b) PROVE CacheIInv'
  <1>1. /\ kM' = kM \ {b} /\ kSize' = kSize - Cache!SizeOfAll(kM \cap {b}) /\ kLru' = kLru
        /\ kNewer' = {p \in kNewer : p[1] # b /\ p[2] # b}
    BY DEF Cache!RemoveBlobs
  <1>2. kM \in SUBSET CacheBlobs /\ kSize = Cache!SizeOfAll(kM) /\ kSize <= maxSize /\ maxSize \in Nat
        /\ kNewer \subseteq kM \X kM
    BY CountingAssumption DEF CacheIInv, Cache!TypeOK, Cache!MemCacheAssumption
  <1>3. kSize' = Cache!SizeOfAll(kM') /\ kSize' \in Nat /\ kSize' <= maxSize
    <2>1. kM \cap {b} = {b} \cap kM /\ kM' \in SUBSET CacheBlobs /\ kM \cap {b} \in SUBSET CacheBlobs BY <1>1, <1>2
    <2>2. Cache!SizeOfAll(kM \ {b}) = Cache!SizeOfAll(kM) - Cache!SizeOfAll({b} \cap kM) BY <1>2, Sizes
    <2>3. Cache!SizeOfAll(kM') \in Nat /\ Cache!SizeOfAll(kM \cap {b}) \in Nat /\ Cache!SizeOfAll(kM) \in Nat
      BY <1>2, <2>1, Sizes
    <2>4. kSize' = Cache!SizeOfAll(kM') BY <1>1, <1>2, <2>1, <2>2
    <2>5. kSize' <= kSize BY <1>1, <1>2, <2>3
    <2> QED BY <1>2, <2>3, <2>4, <2>5
  <1>4. Cache!TypeOK'
    <2>1. kNewer' \subseteq kM' \X kM' BY <1>1, <1>2
    <2> QED BY <1>1, <1>3, <2>1 DEF CacheIInv, Cache!TypeOK
  <1>5. InOrder(kLru', kM', kNewer') BY <1>1 DEF CacheIInv, InOrder
  <1>6. Distinct(kLru') /\ kM' \subseteq Range(kLru') BY <1>1 DEF CacheIInv, Distinct
  <1> QED BY <1>3, <1>4, <1>5, <1>6 DEF CacheIInv, Cache!SizeOfAll, Distinct, InOrder

\* Every step keeps the invariant.
LEMMA CacheStepOK == ASSUME CacheIInv, [Cache!Next]_(Cache!vars) PROVE CacheIInv'
  <1>1. ASSUME UNCHANGED Cache!vars PROVE CacheIInv'
    BY <1>1 DEF CacheIInv, Cache!vars, Cache!TypeOK, Cache!SizeOfAll, Distinct, InOrder
  <1>2. ASSUME NEW b \in CacheBlobs, Cache!ReceiveBlob(b), b \in kM PROVE UNCHANGED Cache!vars
    BY <1>2 DEF Cache!ReceiveBlob
  <1> QED BY <1>1, <1>2, CacheReceiveBlobOK, FetchOK, RemoveBlobsOK DEF Cache!Next

-----------------------------------------------------------------------------
(***************************************************************************)
(* The components as they run beside each other.                           *)
(***************************************************************************)

\* A step is one of the component that runs, or leaves it alone; nothing changes
\* which component runs.
LEMMA CountingStep ==
  ASSUME [CountingNext]_<<part, countingVars>>
  PROVE  /\ part' = part
         /\ part = "replica" => [Repl!Next]_(Repl!vars)
         /\ part = "memcache" => [Cache!Next]_(Cache!vars)
  BY DEF CountingNext, countingVars, rVars, kVars,
         Repl!vars, Cache!vars

\* The component that runs keeps its inductive invariant.
CountingInv ==
    /\ part = "replica" => ReplIInv
    /\ part = "memcache" => CacheIInv

\* The invariant of the component that runs is inductive.
LEMMA CountingInvHolds == CountingSpec => []CountingInv
<1>1. CountingInit => CountingInv
  BY CountingAssumption, ReplInitial, CacheInitial
     DEF CountingInit, CountingInv
<1>2. CountingInv /\ [CountingNext]_<<part, countingVars>> => CountingInv'
  <2> SUFFICES ASSUME CountingInv, [CountingNext]_<<part, countingVars>> PROVE CountingInv'
    OBVIOUS
  <2>1. part = "replica" => ReplIInv'
    BY CountingStep, ReplStepOK DEF CountingInv
  <2>2. part = "memcache" => CacheIInv'
    BY CountingStep, CacheStepOK DEF CountingInv
  <2> QED
    BY <2>1, <2>2, CountingStep DEF CountingInv
<1> QED
  BY <1>1, <1>2, PTL DEF CountingSpec

\* The variables of the two components keep to their types.
THEOREM CountingTypes == CountingSpec => []CountingTypeOK
<1>1. CountingInv => CountingTypeOK
  BY DEF CountingInv, CountingTypeOK, ReplIInv, CacheIInv
<1> QED
  BY <1>1, CountingInvHolds, PTL

\* A blob ReceiveBlob acknowledged, and nobody began to remove since, is on at least
\* minWritesForSuccess replicas, whichever of them failed or answered late.
THEOREM ReplicaSafety == CountingSpec => []MinWritesHeld
<1>1. CountingInv => MinWritesHeld
  BY DEF CountingInv, MinWritesHeld, ReplIInv
<1> QED
  BY <1>1, CountingInvHolds, PTL

\* The cache counts the bytes it holds, holds no more than its limit, and its list is
\* in the order in which its blobs were used, so that the one it evicts was used
\* least recently.
THEOREM CacheSafety == CountingSpec => []CacheSound
<1>1. CountingInv => CacheSound
  BY CacheSets DEF CountingInv, CacheSound, CacheIInv, Cache!CacheSound, InOrder
<1> QED
  BY <1>1, CountingInvHolds, PTL
=============================================================================
