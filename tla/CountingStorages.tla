-------------------------- MODULE CountingStorages --------------------------
(***************************************************************************)
(* Replica and MemCache as components of Storages: the one counts the      *)
(* replicas that have a blob, the other the bytes of its blobs.            *)
(***************************************************************************)
EXTENDS StorageBounds

CONSTANTS
    Replicas, MinWrites,  \* replica
    SizeOf, maxSize       \* memory

VARIABLES
    rMinWritesForSuccess, rHas, rPc, rTodo, rNSuccess, rFails, rLate, rRpc, rRtodo,
    rAcked, rOverlap, rUploads, rRemovals,
    kM, kSize, kLru, kNewer

rVars == <<rMinWritesForSuccess, rHas, rPc, rTodo, rNSuccess, rFails, rLate, rRpc,
           rRtodo, rAcked, rOverlap, rUploads, rRemovals>>
kVars == <<kM, kSize, kLru, kNewer>>

CacheBlobs == DOMAIN SizeOf

Repl == INSTANCE Replica WITH
        Uploads <- Callers, Faults <- Failing,
        minWritesForSuccess <- rMinWritesForSuccess, has <- rHas, pc <- rPc,
        todo <- rTodo, nSuccess <- rNSuccess, fails <- rFails, late <- rLate,
        rpc <- rRpc, rtodo <- rRtodo, acked <- rAcked, overlap <- rOverlap,
        uploads <- rUploads, removals <- rRemovals

Cache == INSTANCE MemCache WITH
        Blobs <- CacheBlobs, m <- kM, size <- kSize, lru <- kLru, newer <- kNewer

countingVars == <<rVars, kVars>>

(* The variables of a component that does not run *)
rOff ==
    /\ rMinWritesForSuccess = Off /\ rHas = Off /\ rPc = Off /\ rTodo = Off
    /\ rNSuccess = Off /\ rFails = Off /\ rLate = Off /\ rRpc = Off
    /\ rRtodo = Off /\ rAcked = Off /\ rOverlap = Off /\ rUploads = Off
    /\ rRemovals = Off
kOff ==
    /\ kM = Off /\ kSize = Off /\ kLru = Off /\ kNewer = Off

CountingInit ==
    /\ IF part = "replica" THEN Repl!Init ELSE rOff
    /\ IF part = "memcache" THEN Cache!Init ELSE kOff

CountingNext ==
    /\ UNCHANGED part
    /\ \/ part = "replica" /\ Repl!Next /\ UNCHANGED kVars
       \/ part = "memcache" /\ Cache!Next /\ UNCHANGED rVars

CountingSpec == CountingInit /\ [][CountingNext]_<<part, countingVars>>

ASSUME CountingAssumption ==
    /\ Repl!ReplicaAssumption
    /\ Cache!MemCacheAssumption

-----------------------------------------------------------------------------
\* The components keep their types.
CountingTypeOK ==
    /\ part = "replica" => Repl!TypeOK
    /\ part = "memcache" => Cache!TypeOK

\* The replica storage: an acknowledged blob is on minWritesForSuccess replicas.
MinWritesHeld == part = "replica" => Repl!MinWritesHeld

\* The memory cache counts its bytes, keeps to its limit and evicts by LRU.
CacheSound == part = "memcache" => Cache!CacheSound
=============================================================================
