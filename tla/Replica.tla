------------------------------- MODULE Replica -------------------------------
(***************************************************************************)
(* The replica storage (pkg/blobserver/replica): an upload goes to all the *)
(* replicas at once and is acknowledged as soon as minWritesForSuccess of  *)
(* them have it, while the others go on; a removal goes to all of them and *)
(* succeeds when any of them does.                                         *)
(*                                                                         *)
(* Blobs do not meet in this storage, so the model has one.                *)
(***************************************************************************)
EXTENDS Naturals, FiniteSets

CONSTANTS
    Replicas,    \* the backends
    MinWrites,   \* the values of minWritesForSuccess the configuration may have
    Uploads,     \* callers of ReceiveBlob
    Faults,      \* the calls of a backend that may fail: "receive", "remove"
    MaxUploads,  \* bound: how many uploads begin
    MaxRemovals  \* bound: how many removals begin

NReplicas == Cardinality(Replicas)

\* There are finitely many replicas, and a configuration asks for a number of them.
ReplicaAssumption ==
    /\ IsFiniteSet(Replicas)
    /\ MinWrites \subseteq Nat
    /\ MaxUploads \in Nat /\ MaxRemovals \in Nat

VARIABLES
    minWritesForSuccess,
    has,       \* the replicas that hold the blob
    pc,        \* where each ReceiveBlob is: "idle" or "wait"
    todo,      \* the replicas its goroutines have not answered for
    nSuccess,  \* the successes it has counted
    fails,     \* whether it has counted a failure
    late,      \* writes of uploads that have returned: how many, per replica
    rpc,       \* where RemoveBlobs is
    rtodo,     \* the replicas it has not removed the blob from
    acked,     \* history: an upload was acknowledged, and no removal begun since
    overlap,   \* history: the uploads that overlapped a removal
    uploads, removals   \* how many of each there were

vars == <<minWritesForSuccess, has, pc, todo, nSuccess, fails, late, rpc, rtodo,
          acked, overlap, uploads, removals>>

Init ==
    /\ minWritesForSuccess \in MinWrites
    /\ has = {}
    /\ pc = [t \in Uploads |-> "idle"]
    /\ todo = [t \in Uploads |-> {}]
    /\ nSuccess = [t \in Uploads |-> 0]
    /\ fails = [t \in Uploads |-> FALSE]
    /\ late = [r \in Replicas |-> 0]
    /\ rpc = "idle" /\ rtodo = {}
    /\ acked = FALSE /\ overlap = {}
    /\ uploads = 0 /\ removals = 0

-----------------------------------------------------------------------------
(* ReceiveBlob *)

\* The blob is read into memory and a goroutine begins for each replica.
ReceiveBlob(t) ==
    /\ pc[t] = "idle"
    /\ uploads < MaxUploads
    /\ uploads' = uploads + 1
    /\ pc' = [pc EXCEPT ![t] = "wait"]
    /\ todo' = [todo EXCEPT ![t] = Replicas]
    /\ nSuccess' = [nSuccess EXCEPT ![t] = 0]
    /\ fails' = [fails EXCEPT ![t] = FALSE]
    /\ overlap' = IF rpc = "idle" THEN overlap \ {t} ELSE overlap \cup {t}
    /\ UNCHANGED <<minWritesForSuccess, has, late, rpc, rtodo, acked, removals>>

\* The call returns; the goroutines that have not answered go on.
return(t, rest) ==
    /\ pc' = [pc EXCEPT ![t] = "idle"]
    /\ todo' = [todo EXCEPT ![t] = {}]
    /\ late' = [r \in Replicas |-> late[r] + IF r \in rest THEN 1 ELSE 0]

\* Faulty variant: the successes are compared before the last one is counted in.
succeededEarly(t, n, rest) == n + 1 = minWritesForSuccess \/ (rest = {} /\ ~fails[t])

\* Enough successes; or all have answered, none with an error.
succeeded(t, n, rest) == n = minWritesForSuccess \/ (rest = {} /\ ~fails[t])

\* A replica stores the blob and its result is counted.
uploadToReplica(t, r) ==
    /\ pc[t] = "wait" /\ r \in todo[t]
    /\ has' = has \cup {r}
    /\ LET n == nSuccess[t] + 1
           rest == todo[t] \ {r}
       IN  /\ nSuccess' = [nSuccess EXCEPT ![t] = n]
           /\ IF succeeded(t, n, rest)
                THEN /\ return(t, rest)
                     /\ acked' = (acked \/ t \notin overlap)
              ELSE IF rest = {}
                THEN return(t, rest) /\ UNCHANGED acked
                ELSE /\ todo' = [todo EXCEPT ![t] = rest]
                     /\ UNCHANGED <<pc, late, acked>>
    /\ UNCHANGED <<minWritesForSuccess, fails, rpc, rtodo, overlap, uploads, removals>>

\* It reports an error, or another size, whether or not it has the blob.
uploadFails(t, r) ==
    /\ pc[t] = "wait" /\ r \in todo[t]
    /\ "receive" \in Faults
    /\ has' \in {has, has \cup {r}}
    /\ fails' = [fails EXCEPT ![t] = TRUE]
    /\ LET rest == todo[t] \ {r}
       IN  IF rest = {} THEN return(t, rest)
                        ELSE /\ todo' = [todo EXCEPT ![t] = rest]
                             /\ UNCHANGED <<pc, late>>
    /\ UNCHANGED <<minWritesForSuccess, nSuccess, rpc, rtodo, acked, overlap, uploads,
                   removals>>

\* The write of an upload that was acknowledged without it.
lateWrite(r) ==
    /\ late[r] > 0
    /\ late' = [late EXCEPT ![r] = @ - 1]
    /\ \/ has' = has \cup {r}
       \/ "receive" \in Faults /\ UNCHANGED has
    /\ UNCHANGED <<minWritesForSuccess, pc, todo, nSuccess, fails, rpc, rtodo, acked,
                   overlap, uploads, removals>>

-----------------------------------------------------------------------------
(* RemoveBlobs *)

RemoveBlobs ==
    /\ rpc = "idle"
    /\ removals < MaxRemovals
    /\ removals' = removals + 1
    /\ rpc' = "wait" /\ rtodo' = Replicas
    /\ acked' = FALSE
    /\ overlap' = overlap \cup {t \in Uploads : pc[t] = "wait"}
    /\ UNCHANGED <<minWritesForSuccess, has, pc, todo, nSuccess, fails, late, uploads>>

\* One goroutine per replica; when the last has answered the call returns, nil
\* if any of them succeeded.
removeFrom(r) ==
    /\ r \in rtodo
    /\ \/ has' = has \ {r}
       \/ "remove" \in Faults /\ UNCHANGED has
    /\ rtodo' = rtodo \ {r}
    /\ rpc' = IF rtodo = {r} THEN "idle" ELSE "wait"
    /\ UNCHANGED <<minWritesForSuccess, pc, todo, nSuccess, fails, late, acked, overlap,
                   uploads, removals>>

Next ==
    \/ \E t \in Uploads :
          \/ ReceiveBlob(t)
          \/ \E r \in Replicas : uploadToReplica(t, r) \/ uploadFails(t, r)
    \/ \E r \in Replicas : lateWrite(r) \/ removeFrom(r)
    \/ RemoveBlobs

Spec == Init /\ [][Next]_vars

-----------------------------------------------------------------------------
(* Properties *)

\* Types.
TypeOK ==
    /\ minWritesForSuccess \in MinWrites
    /\ has \subseteq Replicas
    /\ pc \in [Uploads -> {"idle", "wait"}]
    /\ todo \in [Uploads -> SUBSET Replicas]
    /\ nSuccess \in [Uploads -> 0..NReplicas]
    /\ fails \in [Uploads -> BOOLEAN]
    /\ late \in [Replicas -> Nat]
    /\ rpc \in {"idle", "wait"} /\ rtodo \subseteq Replicas
    /\ acked \in BOOLEAN /\ overlap \subseteq Uploads
    /\ uploads \in 0..MaxUploads /\ removals \in 0..MaxRemovals

\* While an acknowledged blob is not removed, minWritesForSuccess replicas hold
\* it (all of them, if the configuration asks for more than there are), however
\* uploads, their late writes, failures and earlier removals were interleaved: a
\* read survives the loss of all of these replicas but one.
MinWritesHeld ==
    acked => \/ Cardinality(has) >= minWritesForSuccess
             \/ has = Replicas
=============================================================================
