--------------------------- MODULE SyncHandlerProofs ----------------------------
(***************************************************************************)
(* What holds of SyncHandler for every set of blobs, workers and enqueuers *)
(* and for all capacities.  Two inductive invariants: Ledger relates the   *)
(* tables, the queue and the destination; Batch follows the blobs of one   *)
(* runSync through its channels and workers.                               *)
(***************************************************************************)
EXTENDS SyncHandler, SumTheorems, FiniteSetTheorems, TLAPS

\* A leaf is tried with Zenon first, which is the quicker of the two here.
USE ZenonT(5), SMTT(60)

\* A blob in the hands of a goroutine: where the code is, it must be.
InHand ==
  /\ \A e \in Enqueuers : epc[e] # "idle" => eblob[e] \in Blobs
  /\ \A e \in Enqueuers : epc[e] = "set" => eblob[e] \in needCopy \cup dest
  /\ \A w \in Workers : Held(w) => wblob[w] \in Blobs
  /\ \A w \in Workers : wpc[w] \in {"delete", "succeeded"} => wblob[w] \in dest

Ledger == TypeOK /\ LastFailSubset /\ DurableNotLost /\ QueueRowsPending /\ InHand

\* Where the batch of the current runSync is.
Quiet ==
  /\ toSend = {} /\ enumch = {} /\ workch = {}
  /\ \A w \in Workers : ~Held(w)

Stages ==
  /\ npc = "off" <=> mpc \in {"begin", "sleep"}
  /\ npc \in {"off", "start"} => Quiet
  /\ npc = "off" => resOK = 0 /\ resErr = 0
  /\ npc = "done" => toSend = {}
  /\ npc = "start" => mpc = "feed" /\ enumClosed = FALSE

\* No blob of the batch is in two places.
OnePlace ==
  /\ toSend \cap enumch = {} /\ toSend \cap workch = {} /\ enumch \cap workch = {}
  /\ \A w \in Workers : Held(w) => wblob[w] \notin toSend \cup enumch \cup workch
  /\ \A v, w \in Workers : Held(v) /\ Held(w) /\ wblob[v] = wblob[w] => v = w

Batch == Stages /\ OnePlace /\ EveryFedBlobYieldsAResult

-----------------------------------------------------------------------------
\* noteRecentError keeps the list of recent errors a list of blobs no longer than
\* maxRecentErrors, whether it is full or not.
LEMMA RecentErrorsBounded ==
  ASSUME NEW r \in Seq(Blobs), Len(r) <= MaxRecentErrors, NEW b \in Blobs
  PROVE  /\ noteRecentError(r, b) \in Seq(Blobs)
         /\ Len(noteRecentError(r, b)) <= MaxRecentErrors
  <1> DEFINE n == MaxRecentErrors
  <1> DEFINE q == [i \in 1..(n - 1) |-> IF i = 1 THEN r[1] ELSE r[i - 1]]
  <1>1. n \in Nat \ {0} BY SyncAssumption
  <1>2. CASE Len(r) = n
    <2>1. \A i \in 1..n : r[i] \in Blobs BY <1>2, <1>1
    <2>2. \A i \in 1..(n - 1) : i \in 1..n /\ (i = 1 \/ i - 1 \in 1..n) BY <1>1
    <2>3. 1 \in 1..n BY <1>1
    <2>4. q \in [1..(n - 1) -> Blobs] BY <2>1, <2>2, <2>3
    <2>5. q \in Seq(Blobs) /\ Len(q) = n - 1 BY <2>4, <1>1
    <2>6. noteRecentError(r, b) = Append(q, b) BY <1>2 DEF noteRecentError
    <2> HIDE DEF q
    <2> QED BY <2>5, <2>6, <1>1
  <1>3. CASE Len(r) # n
    <2>1. noteRecentError(r, b) = Append(r, b) BY <1>3 DEF noteRecentError
    <2> QED BY <2>1, <1>1, <1>3
  <1> QED BY <1>2, <1>3

\* newSyncHandler starts with a consistent ledger.
LEMMA LedgerInit == Init => Ledger
  <1> SUFFICES ASSUME Init PROVE Ledger
    OBVIOUS
  <1>1. recentErrors \in Seq(Blobs) /\ Len(recentErrors) <= MaxRecentErrors
    BY SyncAssumption DEF Init
  <1>2. mode \in {"queue", "full", "loop"}
    BY DEF Init, firstMode
  <1>3. TypeOK
    <2>1. epc \in [Enqueuers -> {"idle", "add", "set"}]
      BY DEF Init
    <2>2. /\ wpc \in [Workers -> {"off", "ready", "copy", "delete", "succeeded", "failed",
                                  "sendOK", "sendErr"}]
          /\ wblob \in [Workers -> Blobs \cup {NoBlob}]
          /\ eblob \in [Enqueuers -> Blobs \cup {NoBlob}]
      BY DEF Init
    <2>3. crashes \in 0..MaxCrashes
      BY SyncAssumption DEF Init
    <2>4. copied \in BOOLEAN /\ enumClosed \in BOOLEAN
      BY Zenon DEF Init
    <2> QED BY <1>1, <1>2, <2>1, <2>2, <2>3, <2>4 DEF Init, TypeOK
  <1>4. LastFailSubset /\ DurableNotLost /\ QueueRowsPending
    BY DEF Init, LastFailSubset, DurableNotLost, QueueRowsPending
  <1>5. InHand
    BY DEF Init, InHand, Held
  <1> QED BY <1>3, <1>4, <1>5 DEF Ledger

\* Every step of every goroutine, and a restart, keeps the ledger.
LEMMA LedgerStep == Ledger /\ [Next]_vars => Ledger'
  <1> SUFFICES ASSUME Ledger, [Next]_vars PROVE Ledger'
    OBVIOUS
  <1> USE SyncAssumption DEF Ledger, TypeOK, LastFailSubset, DurableNotLost, QueueRowsPending, InHand, Held, durables, tables, enqs, loop, enumr, chans, workers, history
  <1>1. CASE \E e \in Enqueuers, b \in Blobs : StoreBlob(e, b)
    BY <1>1 DEF StoreBlob
  <1>2. CASE \E e \in Enqueuers : addBlobToCopy(e)
    <2> PICK e \in Enqueuers : addBlobToCopy(e)
      BY <1>2
    <2>1. eblob[e] \in Blobs
      BY DEF addBlobToCopy
    <2>2. CASE eblob[e] \in needCopy
      <3>1. /\ epc' = [epc EXCEPT ![e] = "idle"] /\ eblob' = [eblob EXCEPT ![e] = NoBlob]
            /\ acked' = acked \cup {eblob[e]}
            /\ UNCHANGED <<durables, tables, loop, enumr, chans, workers, crashes, durable>>
        BY <2>2 DEF addBlobToCopy
      <3> QED BY <2>1, <3>1
    <2>3. CASE eblob[e] \notin needCopy
      <3>1. /\ needCopy' = needCopy \cup {eblob[e]}
            /\ mpc' = IF mpc = "sleep" THEN "begin" ELSE mpc
            /\ epc' = [epc EXCEPT ![e] = "set"]
            /\ UNCHANGED <<durables, lastFail, copying, recentErrors, eblob, mode, toCopy, nRes,
                           copied, enumr, chans, workers, history>>
        BY <2>3 DEF addBlobToCopy
      <3>2. TypeOK' BY <2>1, <3>1
      <3>3. InHand' BY <2>1, <3>1
      <3> QED BY <3>1, <3>2, <3>3
    <2> QED BY <2>2, <2>3
  <1>3. CASE \E e \in Enqueuers : enqueueSet(e)
    BY <1>3 DEF enqueueSet
  <1>4. CASE \E e \in Enqueuers : enqueueSetFails(e)
    BY <1>4 DEF enqueueSetFails
  <1>5. CASE Enumerator
    <2>1. CASE enumeratePendingBlobs BY <2>1 DEF enumeratePendingBlobs
    <2>2. CASE blobserverEnumerator BY <2>2 DEF blobserverEnumerator
    <2>3. CASE EnumSend BY <2>3 DEF EnumSend
    <2>4. CASE EnumReturn
      <3>1. enumClosed' \in BOOLEAN BY <2>4, Zenon DEF EnumReturn
      <3> QED BY <2>4, <3>1 DEF EnumReturn
    <2> QED BY <1>5, <2>1, <2>2, <2>3, <2>4 DEF Enumerator
  <1>6. CASE RunSync
    <2>1. CASE runSyncBegin
      <3>1. copied' \in BOOLEAN /\ enumClosed' \in BOOLEAN BY <2>1, Zenon DEF runSyncBegin
      <3> QED BY <2>1, <3>1 DEF runSyncBegin
    <2>2. CASE runSyncFeed
      <3>1. \A w \in Workers : wpc'[w] = wpc[w] \/ (wpc[w] = "off" /\ wpc'[w] = "ready")
        BY <2>2 DEF runSyncFeed
      <3>2. TypeOK'
        <4>1. wpc' \in [Workers -> {"off", "ready", "copy", "delete", "succeeded", "failed",
                                    "sendOK", "sendErr"}]
          <5>1. wpc' = wpc \/ \E w \in Workers : wpc' = [wpc EXCEPT ![w] = "ready"]
            BY <2>2 DEF runSyncFeed
          <5> QED BY <5>1
        <4>2. toCopy' \in Nat /\ enumch' \subseteq Blobs /\ workch' \subseteq Blobs
          BY <2>2 DEF runSyncFeed
        <4>3. mpc' \in {"begin", "feed", "collect", "sleep"}
          BY <2>2 DEF runSyncFeed
        <4> QED BY <2>2, <4>1, <4>2, <4>3 DEF runSyncFeed
      <3>3. InHand' BY <2>2, <3>1 DEF runSyncFeed
      <3> QED BY <2>2, <3>2, <3>3 DEF runSyncFeed
    <2>3. CASE runSyncFed BY <2>3 DEF runSyncFed
    <2>4. CASE runSyncCollect
      <3>1. nRes' \in Nat /\ resOK' \in Nat /\ resErr' \in Nat
        BY <2>4 DEF runSyncCollect
      <3>2. copied' \in BOOLEAN
        BY <2>4, Zenon DEF runSyncCollect
      <3> QED BY <2>4, <3>1, <3>2 DEF runSyncCollect
    <2>5. CASE runSyncReturn BY <2>5 DEF runSyncReturn, nextMode
    <2>6. CASE syncLoopTimer BY <2>6 DEF syncLoopTimer
    <2> QED BY <1>6, <2>1, <2>2, <2>3, <2>4, <2>5, <2>6, Zenon DEF RunSync
  <1>7. CASE \E w \in Workers : copyWorkerTake(w)
    BY <1>7 DEF copyWorkerTake
  <1>8. CASE \E w \in Workers : copyBlob(w)
    BY <1>8 DEF copyBlob
  <1>9. CASE \E w \in Workers : copyBlobFails(w)
    BY <1>9 DEF copyBlobFails
  <1>10. CASE \E w \in Workers : setErrorDelete(w)
    BY <1>10 DEF setErrorDelete
  <1>11. CASE \E w \in Workers : setError(w)
    <2> PICK w \in Workers : setError(w)
      BY <1>11
    <2>1. wblob[w] \in Blobs
      BY DEF setError
    <2>2. recentErrors' \in Seq(Blobs) /\ Len(recentErrors') <= MaxRecentErrors
      BY <2>1, RecentErrorsBounded DEF setError
    <2>3. TypeOK'
      BY <2>1, <2>2 DEF setError
    <2>4. LastFailSubset' /\ DurableNotLost' /\ QueueRowsPending'
      BY <2>1 DEF setError
    <2>5. InHand'
      BY <2>1 DEF setError
    <2> QED BY <2>3, <2>4, <2>5
  <1>12. CASE \E w \in Workers : copyWorkerSend(w)
    BY <1>12 DEF copyWorkerSend
  <1>13. CASE Restart
    <2>1. recentErrors' \in Seq(Blobs) /\ Len(recentErrors') <= MaxRecentErrors
      BY <1>13 DEF Restart
    <2>2. mode' \in {"queue", "full", "loop"}
      BY <1>13 DEF Restart, firstMode
    <2>3. TypeOK'
      <3>1. epc' \in [Enqueuers -> {"idle", "add", "set"}]
        BY <1>13 DEF Restart
      <3>2. /\ wpc' \in [Workers -> {"off", "ready", "copy", "delete", "succeeded", "failed",
                                     "sendOK", "sendErr"}]
            /\ wblob' \in [Workers -> Blobs \cup {NoBlob}]
            /\ eblob' \in [Enqueuers -> Blobs \cup {NoBlob}]
        BY <1>13 DEF Restart
      <3>3. crashes' \in 0..MaxCrashes
        BY <1>13 DEF Restart
      <3>4. copied' \in BOOLEAN /\ enumClosed' \in BOOLEAN
        BY <1>13, Zenon DEF Restart
      <3> QED BY <1>13, <2>1, <2>2, <3>1, <3>2, <3>3, <3>4 DEF Restart, readQueueToMemory
    <2>4. LastFailSubset' /\ DurableNotLost' /\ QueueRowsPending' /\ InHand'
      BY <1>13 DEF Restart, readQueueToMemory
    <2> QED BY <2>3, <2>4
  <1>14. CASE UNCHANGED vars
    BY <1>14 DEF vars
  <1> QED BY <1>1, <1>2, <1>3, <1>4, <1>5, <1>6, <1>7, <1>8, <1>9,
           <1>10, <1>11, <1>12, <1>13, <1>14, Zenon DEF Next, Enqueue, Worker

-----------------------------------------------------------------------------
\* The ledger holds in every reachable state.
THEOREM LedgerHolds == Spec => []Ledger
  <1>1. Init => Ledger BY LedgerInit
  <1>2. Ledger /\ [Next]_vars => Ledger' BY LedgerStep
  <1> QED BY <1>1, <1>2, PTL DEF Spec

\* Type correctness of the handler, for every value of the constants.
THEOREM TypeCorrect == Spec => []TypeOK
  <1>1. Ledger => TypeOK BY DEF Ledger
  <1> QED BY <1>1, LedgerHolds, PTL

\* A blob whose queue row was written is delivered or still has its row, through
\* every interleaving of enqueue, copyBlob and setError and across crashes.
THEOREM NothingDurableIsLost == Spec => []DurableNotLost
  <1>1. Ledger => DurableNotLost BY DEF Ledger
  <1> QED BY <1>1, LedgerHolds, PTL

\* Every row of the queue is known to the running handler or already delivered.
THEOREM NoRowWaitsForRestart == Spec => []QueueRowsPending
  <1>1. Ledger => QueueRowsPending BY DEF Ledger
  <1> QED BY <1>1, LedgerHolds, PTL

\* lastFail is always a subset of needCopy.
THEOREM FailuresArePending == Spec => []LastFailSubset
  <1>1. Ledger => LastFailSubset BY DEF Ledger
  <1> QED BY <1>1, LedgerHolds, PTL

\* The handler implements the durable queue: every step of the detailed
\* specification accepts, delivers or retires one blob, or changes neither the
\* queue nor the destination.
THEOREM Refinement == Spec => ImplementsDurableQueue
  <1>1. Init => Q!Init
    BY DEF Init, Q!Init
  <1>2. Ledger /\ [Next]_vars => [Q!Next]_<<queue, dest>>
    <2> SUFFICES ASSUME Ledger, [Next]_vars PROVE [Q!Next]_<<queue, dest>>
      OBVIOUS
    <2> USE DEF Ledger, InHand, TypeOK, Held, durables, Q!Next, Q!Accept, Q!Deliver, Q!Retire
    <2>1. CASE \E e \in Enqueuers : Enqueue(e)
      BY <2>1 DEF Enqueue, StoreBlob, addBlobToCopy, enqueueSet, enqueueSetFails
    <2>2. CASE Enumerator
      BY <2>2 DEF Enumerator, enumeratePendingBlobs, blobserverEnumerator, EnumSend, EnumReturn
    <2>3. CASE RunSync
      BY <2>3 DEF RunSync, runSyncBegin, runSyncFeed, runSyncFed, runSyncCollect,
         runSyncReturn, syncLoopTimer
    <2>4. ASSUME NEW w \in Workers, Worker(w) PROVE [Q!Next]_<<queue, dest>>
      <3>1. CASE copyBlob(w) BY <3>1 DEF copyBlob
      <3>2. CASE copyBlobFails(w) BY <3>2 DEF copyBlobFails
      <3>3. CASE setErrorDelete(w) BY <3>3 DEF setErrorDelete
      <3>4. CASE copyWorkerTake(w) BY <3>4 DEF copyWorkerTake
      <3>5. CASE setError(w) BY <3>5 DEF setError
      <3>6. CASE copyWorkerSend(w) BY <3>6 DEF copyWorkerSend
      <3> QED BY <2>4, <3>1, <3>2, <3>3, <3>4, <3>5, <3>6 DEF Worker
    <2>5. CASE Restart
      BY <2>5 DEF Restart
    <2>6. CASE UNCHANGED vars
      BY <2>6 DEF vars
    <2> QED BY <2>1, <2>2, <2>3, <2>4, <2>5, <2>6 DEF Next
  <1> QED BY <1>1, <1>2, LedgerHolds, PTL DEF Spec, ImplementsDurableQueue, Q!Spec

-----------------------------------------------------------------------------
\* The workers that hold a blob.
InFlight == {w \in Workers : Held(w)}

\* Cardinalities of the two finite sets that runSync's count is about.
LEMMA CountsAreNat ==
  ASSUME TypeOK
  PROVE  /\ IsFiniteSet(workch) /\ Cardinality(workch) \in Nat
         /\ IsFiniteSet(InFlight) /\ Cardinality(InFlight) \in Nat
  <1>1. IsFiniteSet(workch)
    BY SyncAssumption, FS_Subset DEF TypeOK
  <1>2. IsFiniteSet(InFlight)
    BY SyncAssumption, FS_Subset DEF InFlight
  <1> QED BY <1>1, <1>2, FS_CardinalityType

\* A first start has an empty batch.
LEMMA BatchInit == Init => Batch
  BY DEF Init, Batch, Stages, Quiet, OnePlace, EveryFedBlobYieldsAResult, Held

\* A step that leaves the channels, the stages and the set of held blobs alone
\* leaves the batch alone.
LEMMA BatchFrame ==
  ASSUME Batch,
         UNCHANGED <<mpc, toCopy, nRes, npc, toSend, enumch, enumClosed, workch, resOK, resErr,
                     wblob>>,
         \A w \in Workers : Held(w)' = Held(w)
  PROVE  Batch'
  <1>1. InFlight' = InFlight BY DEF InFlight
  <1>2. Stages' BY DEF Batch, Stages, Quiet
  <1>3. OnePlace' BY DEF Batch, OnePlace
  <1>4. EveryFedBlobYieldsAResult'
    BY <1>1 DEF Batch, EveryFedBlobYieldsAResult, InFlight
  <1> QED BY <1>2, <1>3, <1>4 DEF Batch

\* Every step keeps the batch: a blob moves from toSend to enumch, to workch, to a
\* worker and becomes one result; a new batch starts only after the old one ended.
LEMMA BatchStep == Ledger /\ Batch /\ [Next]_vars => Batch'
  <1> SUFFICES ASSUME Ledger, Batch, [Next]_vars PROVE Batch'
    OBVIOUS
  <1> USE SyncAssumption DEF durables, tables, enqs, loop, enumr, chans, workers, history
  <1>t. TypeOK BY DEF Ledger
  <1>c. /\ IsFiniteSet(workch) /\ Cardinality(workch) \in Nat
        /\ IsFiniteSet(InFlight) /\ Cardinality(InFlight) \in Nat
    BY <1>t, CountsAreNat
  <1>n. toCopy \in Nat /\ nRes \in Nat /\ resOK \in Nat /\ resErr \in Nat
    BY <1>t DEF TypeOK
  <1>s. Stages /\ OnePlace
    BY DEF Batch
  <1>f. mpc \in {"feed", "collect"} =>
          toCopy = nRes + Cardinality(workch) + resOK + resErr + Cardinality(InFlight)
    BY DEF Batch, EveryFedBlobYieldsAResult, InFlight
  <1>q. Stages' /\ OnePlace'
        /\ (mpc' \in {"feed", "collect"} =>
             toCopy' = nRes' + Cardinality(workch') + resOK' + resErr' + Cardinality(InFlight'))
        => Batch'
    BY DEF Batch, EveryFedBlobYieldsAResult, InFlight
  <1>1. ASSUME NEW e \in Enqueuers, NEW b \in Blobs, StoreBlob(e, b) PROVE Batch'
    BY <1>1, BatchFrame DEF StoreBlob, Held
  <1>2. ASSUME NEW e \in Enqueuers, addBlobToCopy(e) PROVE Batch'
    <2>1. CASE mpc # "sleep"
      BY <1>2, <2>1, BatchFrame DEF addBlobToCopy, Held
    <2>2. CASE mpc = "sleep"
      <3>1. Stages' /\ OnePlace' /\ mpc' \in {"begin", "sleep"}
        BY <1>2, <2>2, <1>s DEF addBlobToCopy, Stages, Quiet, OnePlace, Held
      <3> QED BY <3>1, <1>q
    <2> QED BY <2>1, <2>2
  <1>3. ASSUME NEW e \in Enqueuers, enqueueSet(e) \/ enqueueSetFails(e) PROVE Batch'
    BY <1>3, BatchFrame DEF enqueueSet, enqueueSetFails, Held
  <1>4. CASE enumeratePendingBlobs \/ blobserverEnumerator
    <2>1. Stages' /\ OnePlace'
      <3>1. Stages'
        BY <1>4, <1>s DEF enumeratePendingBlobs, blobserverEnumerator, Stages, Quiet, Held
      <3>2. OnePlace'
        BY <1>4, <1>s DEF enumeratePendingBlobs, blobserverEnumerator, Stages, Quiet, OnePlace, Held
      <3> QED BY <3>1, <3>2
    <2>2. InFlight' = InFlight /\ UNCHANGED <<mpc, toCopy, nRes, workch, resOK, resErr>>
      BY <1>4 DEF enumeratePendingBlobs, blobserverEnumerator, InFlight, Held
    <2> QED BY <2>1, <2>2, <1>f, <1>q
  <1>5. CASE EnumSend \/ EnumReturn
    <2>1. Stages' /\ OnePlace'
      <3>1. CASE EnumSend
        <4>1. Stages'
          BY <3>1, <1>s, <1>t DEF EnumSend, Stages, Quiet, Held, TypeOK
        <4>2. OnePlace'
          BY <3>1, <1>s, <1>t, SMTT(60) DEF EnumSend, OnePlace, Held, TypeOK
        <4> QED BY <4>1, <4>2
      <3>2. CASE EnumReturn
        <4>1. Stages'
          BY <3>2, <1>s, <1>t DEF EnumReturn, Stages, Quiet, Held, TypeOK
        <4>2. OnePlace'
          BY <3>2, <1>s, <1>t DEF EnumReturn, OnePlace, Held, TypeOK
        <4> QED BY <4>1, <4>2
      <3> QED BY <1>5, <3>1, <3>2
    <2>2. InFlight' = InFlight /\ UNCHANGED <<mpc, toCopy, nRes, workch, resOK, resErr>>
      BY <1>5 DEF EnumSend, EnumReturn, InFlight, Held
    <2> QED BY <2>1, <2>2, <1>f, <1>q
  <1>6. CASE runSyncBegin
    <2>1. Stages' /\ OnePlace'
      BY <1>6, <1>s DEF runSyncBegin, Stages, Quiet, OnePlace, Held
    <2>2. workch' = {} /\ InFlight' = {} /\ resOK' = 0 /\ resErr' = 0 /\ toCopy' = 0 /\ nRes' = 0
      BY <1>6, <1>s DEF runSyncBegin, Stages, Quiet, InFlight, Held
    <2> QED BY <2>1, <2>2, <1>q, FS_EmptySet
  <1>7. CASE runSyncFeed
    <2>1. \A w \in Workers : Held(w)' = Held(w)
      BY <1>7, <1>t DEF runSyncFeed, Held, TypeOK
    <2>2. InFlight' = InFlight
      BY <2>1 DEF InFlight
    <2>3. PICK b \in enumch :
            /\ enumch' = enumch \ {b}
            /\ \/ workch' = workch \cup {b} /\ toCopy' = toCopy + 1 /\ mpc' = mpc
               \/ workch' = workch /\ toCopy' = toCopy /\ mpc' = "collect"
      BY <1>7 DEF runSyncFeed
    <2>4. b \notin workch
      BY <1>s DEF OnePlace
    <2>5. Stages'
      BY <1>7, <1>s, <2>1, <2>3 DEF runSyncFeed, Stages, Quiet
    <2>6. OnePlace'
      BY <1>7, <1>s, <2>1, <2>3, <2>4 DEF runSyncFeed, OnePlace
    <2>7. toCopy' = nRes' + Cardinality(workch') + resOK' + resErr' + Cardinality(InFlight')
      <3>1. Cardinality(workch \cup {b}) = Cardinality(workch) + 1
        BY <1>c, <2>4, FS_AddElement, Zenon
      <3>2. UNCHANGED <<nRes, resOK, resErr>> /\ mpc \in {"feed", "collect"}
        BY <1>7 DEF runSyncFeed
      <3>3. toCopy = nRes + Cardinality(workch) + resOK + resErr + Cardinality(InFlight)
        BY <1>f, <3>2
      <3>4. CASE workch' = workch \cup {b} /\ toCopy' = toCopy + 1
        <4>1. Cardinality(workch') = Cardinality(workch) + 1 BY <3>1, <3>4
        <4> QED BY <1>n, <1>c, <2>2, <3>2, <3>3, <3>4, <4>1
      <3>5. CASE workch' = workch /\ toCopy' = toCopy
        BY <2>2, <3>2, <3>3, <3>5
      <3> QED BY <2>3, <3>4, <3>5
    <2> QED BY <2>5, <2>6, <2>7, <1>q
  <1>8. CASE runSyncFed
    <2>1. Stages' /\ OnePlace'
      BY <1>8, <1>s DEF runSyncFed, Stages, Quiet, OnePlace, Held
    <2>2. InFlight' = InFlight /\ UNCHANGED <<toCopy, nRes, workch, resOK, resErr>> /\ mpc = "feed"
      BY <1>8 DEF runSyncFed, InFlight, Held
    <2> QED BY <2>1, <2>2, <1>f, <1>q
  <1>9. CASE runSyncCollect
    <2>1. Stages' /\ OnePlace'
      BY <1>9, <1>s DEF runSyncCollect, Stages, Quiet, OnePlace, Held
    <2>2. InFlight' = InFlight /\ UNCHANGED <<toCopy, workch>> /\ mpc = "collect"
      BY <1>9 DEF runSyncCollect, InFlight, Held
    <2>3. toCopy = nRes + Cardinality(workch) + resOK + resErr + Cardinality(InFlight)
      BY <1>f, <2>2
    <2>4. \/ nRes' = nRes + 1 /\ resOK' = resOK - 1 /\ resErr' = resErr
          \/ nRes' = nRes + 1 /\ resOK' = resOK /\ resErr' = resErr - 1
      BY <1>9 DEF runSyncCollect
    <2>5. toCopy = nRes' + Cardinality(workch) + resOK' + resErr' + Cardinality(InFlight)
      <3>1. CASE nRes' = nRes + 1 /\ resOK' = resOK - 1 /\ resErr' = resErr
        BY <3>1, <1>c, <1>n, <2>3
      <3>2. CASE nRes' = nRes + 1 /\ resOK' = resOK /\ resErr' = resErr - 1
        BY <3>2, <1>c, <1>n, <2>3
      <3> QED BY <3>1, <3>2, <2>4
    <2> QED BY <2>1, <2>2, <2>5, <1>q
  <1>10. CASE runSyncReturn
    <2>1. Cardinality(workch) = 0 /\ Cardinality(InFlight) = 0 /\ resOK = 0 /\ resErr = 0
      <3>1. toCopy = nRes + Cardinality(workch) + resOK + resErr + Cardinality(InFlight)
            /\ nRes = toCopy
        BY <1>10, <1>f DEF runSyncReturn
      <3> QED BY <3>1, <1>c, <1>n
    <2>2. workch = {}
      BY <2>1, <1>c, FS_EmptySet
    <2>3. Stages' /\ OnePlace' /\ mpc' \in {"begin", "sleep"}
      BY <1>10, <1>s, <2>1, <2>2 DEF runSyncReturn, Stages, Quiet, OnePlace, Held
    <2> QED BY <2>3, <1>q
  <1>11. CASE syncLoopTimer
    <2>1. Stages' /\ OnePlace' /\ mpc' \in {"begin", "sleep"}
      BY <1>11, <1>s DEF syncLoopTimer, Stages, Quiet, OnePlace, Held
    <2> QED BY <2>1, <1>q
  <1>12. ASSUME NEW w \in Workers, copyWorkerTake(w) PROVE Batch'
    <2>1. PICK b \in workch : workch' = workch \ {b} /\ wblob' = [wblob EXCEPT ![w] = b]
      BY <1>12, Zenon DEF copyWorkerTake
    <2>2. wpc[w] = "ready" /\ wpc' = [wpc EXCEPT ![w] = "copy"]
          /\ UNCHANGED <<mpc, toCopy, nRes, npc, toSend, enumch, enumClosed, resOK, resErr>>
      BY <1>12 DEF copyWorkerTake
    <2>3. /\ ~Held(w) /\ Held(w)' /\ wblob'[w] = b
          /\ \A v \in Workers \ {w} : Held(v)' = Held(v) /\ wblob'[v] = wblob[v]
      BY <2>1, <2>2, <1>t DEF Held, TypeOK
    <2>4. InFlight' = InFlight \cup {w} /\ w \notin InFlight
      BY <2>3 DEF InFlight
    <2>5. Stages'
      BY <2>1, <2>2, <2>3, <1>s DEF Stages, Quiet
    <2>6. OnePlace'
      BY <2>1, <2>2, <2>3, <1>s, SMTT(60) DEF OnePlace
    <2>7. Cardinality(InFlight') = Cardinality(InFlight) + 1
      BY <2>4, <1>c, FS_AddElement, Zenon
    <2>8. Cardinality(workch') = Cardinality(workch) - 1
      BY <2>1, <1>c, FS_RemoveElement, Zenon
    <2>9. mpc \in {"feed", "collect"} =>
            toCopy = nRes + Cardinality(workch') + resOK + resErr + Cardinality(InFlight')
      BY <1>f, <1>c, <1>n, <2>7, <2>8
    <2> QED BY <2>2, <2>5, <2>6, <2>9, <1>q
  <1>13. ASSUME NEW w \in Workers,
                copyBlob(w) \/ copyBlobFails(w) \/ setErrorDelete(w) \/ setError(w)
         PROVE  Batch'
    <2>1. \A v \in Workers : Held(v)' = Held(v)
      <3>1. Held(w) /\ Held(w)'
        <4> wpc \in [Workers -> {"off", "ready", "copy", "delete", "succeeded", "failed",
                                "sendOK", "sendErr"}]
          BY <1>t DEF TypeOK
        <4>1. CASE copyBlob(w) BY <4>1 DEF copyBlob, Held
        <4>2. CASE copyBlobFails(w) BY <4>2 DEF copyBlobFails, Held
        <4>3. CASE setErrorDelete(w) BY <4>3 DEF setErrorDelete, Held
        <4>4. CASE setError(w) BY <4>4 DEF setError, Held
        <4> QED BY <1>13, <4>1, <4>2, <4>3, <4>4
      <3>2. PICK x : wpc' = [wpc EXCEPT ![w] = x]
        BY <1>13, Zenon DEF copyBlob, copyBlobFails, setErrorDelete, setError
      <3>3. \A v \in Workers \ {w} : wpc'[v] = wpc[v]
        BY <1>t, <3>2 DEF TypeOK
      <3> QED BY <3>1, <3>3 DEF Held
    <2>2. UNCHANGED <<mpc, toCopy, nRes, npc, toSend, enumch, enumClosed, workch, resOK, resErr,
                      wblob>>
      BY <1>13, Zenon DEF copyBlob, copyBlobFails, setErrorDelete, setError
    <2> QED BY <2>1, <2>2, BatchFrame
  <1>14. ASSUME NEW w \in Workers, copyWorkerSend(w) PROVE Batch'
    <2>1. /\ Held(w) /\ wpc' = [wpc EXCEPT ![w] = "ready"]
          /\ wblob' = [wblob EXCEPT ![w] = NoBlob]
          /\ UNCHANGED <<mpc, toCopy, nRes, npc, toSend, enumch, enumClosed, workch>>
      BY <1>14 DEF copyWorkerSend, Held
    <2>2. (resOK' = resOK + 1 /\ resErr' = resErr) \/ (resOK' = resOK /\ resErr' = resErr + 1)
      BY <1>14 DEF copyWorkerSend
    <2>3. /\ ~Held(w)'
          /\ \A v \in Workers \ {w} : Held(v)' = Held(v) /\ wblob'[v] = wblob[v]
      BY <2>1, <1>t DEF Held, TypeOK
    <2>4. InFlight' = InFlight \ {w} /\ w \in InFlight
      BY <2>1, <2>3 DEF InFlight
    <2>5. Stages'
      BY <2>1, <2>3, <1>s DEF Stages, Quiet
    <2>6. OnePlace'
      BY <2>1, <2>3, <1>s DEF OnePlace
    <2>7. Cardinality(InFlight') = Cardinality(InFlight) - 1
      BY <2>4, <1>c, FS_RemoveElement, Zenon
    <2>8. ASSUME mpc \in {"feed", "collect"}
          PROVE  toCopy = nRes + Cardinality(workch) + resOK' + resErr' + Cardinality(InFlight')
      <3>1. toCopy = nRes + Cardinality(workch) + resOK + resErr + Cardinality(InFlight)
        BY <2>8, <1>f
      <3> HIDE DEF InFlight
      <3>2. CASE resOK' = resOK + 1 /\ resErr' = resErr
        BY <3>1, <3>2, <1>c, <1>n, <2>7
      <3>3. CASE resOK' = resOK /\ resErr' = resErr + 1
        BY <3>1, <3>3, <1>c, <1>n, <2>7
      <3> QED BY <3>2, <3>3, <2>2
    <2> QED BY <2>1, <2>5, <2>6, <2>8, <1>q
  <1>15. CASE Restart
    <2>1. Stages' /\ OnePlace' /\ mpc' = "begin"
      BY <1>15 DEF Restart, Stages, Quiet, OnePlace, Held
    <2> QED BY <2>1, <1>q
  <1>16. CASE UNCHANGED vars
    BY <1>16, BatchFrame DEF vars, Held
  <1> QED
    BY <1>1, <1>2, <1>3, <1>4, <1>5, <1>6, <1>7, <1>8, <1>9, <1>10, <1>11, <1>12, <1>13, <1>14,
       <1>15, <1>16 DEF Next, Enqueue, Enumerator, RunSync, Worker

\* The batch invariant holds in every reachable state.
THEOREM BatchHolds == Spec => []Batch
  <1>1. Init => Batch BY BatchInit
  <1>2. Ledger /\ Batch /\ [Next]_vars => Batch' BY BatchStep
  <1> QED BY <1>1, <1>2, LedgerHolds, PTL DEF Spec

\* No two copyWorkers ever copy the same blob at the same time, because runSync
\* returns only after as many results as blobs it has fed.
THEOREM NoDoubleCopy == Spec => []NoBlobCopiedTwiceAtOnce
  <1>1. Batch => NoBlobCopiedTwiceAtOnce
    BY DEF Batch, OnePlace, NoBlobCopiedTwiceAtOnce, Busy, Held
  <1> QED BY <1>1, BatchHolds, PTL

\* runSync never waits for a result that nobody will send: what it has fed and
\* not collected is in workch, with a worker, or in resch.
THEOREM ResultsAccounted == Spec => []EveryFedBlobYieldsAResult
  <1>1. Batch => EveryFedBlobYieldsAResult BY DEF Batch
  <1> QED BY <1>1, BatchHolds, PTL

-----------------------------------------------------------------------------
(* The figures of the status page *)

\* A step that changes neither needCopy nor bytesRemain.
LEMMA BytesFrame ==
  ASSUME BytesRemainIsSum, UNCHANGED <<needCopy, bytesRemain>>
  PROVE  BytesRemainIsSum'
  BY DEF BytesRemainIsSum, SumSizes

\* Only addBlobToCopy, setError and a restart change the sum, and they change
\* needCopy in the same region under sh.mu.
LEMMA BytesStep == Ledger /\ BytesRemainIsSum /\ [Next]_vars => BytesRemainIsSum'
  <1> SUFFICES ASSUME Ledger, BytesRemainIsSum, [Next]_vars PROVE BytesRemainIsSum'
    OBVIOUS
  <1>s. /\ needCopy \subseteq Blobs
        /\ IsFiniteSet(needCopy)
        /\ \A b \in Blobs : Size[b] \in Nat
    BY SyncAssumption, FS_Subset DEF Ledger, TypeOK
  <1>1. ASSUME NEW e \in Enqueuers, addBlobToCopy(e) PROVE BytesRemainIsSum'
    <2>1. eblob[e] \in Blobs
      BY <1>1 DEF Ledger, InHand, addBlobToCopy
    <2>2. CASE eblob[e] \in needCopy
      BY <1>1, <2>2, BytesFrame DEF addBlobToCopy
    <2>3. CASE eblob[e] \notin needCopy
      <3>1. /\ needCopy' = needCopy \cup {eblob[e]}
            /\ bytesRemain' = bytesRemain + Size[eblob[e]]
        BY <1>1, <2>3 DEF addBlobToCopy
      <3>2. \A b \in needCopy \cup {eblob[e]} : Size[b] \in Nat
        BY <1>s, <2>1
      <3>3. SumSizes(needCopy \cup {eblob[e]}) = SumSizes(needCopy) + Size[eblob[e]]
        BY <1>s, <2>3, <3>2, SumAdd DEF SumSizes
      <3> QED BY <3>1, <3>3 DEF BytesRemainIsSum, SumSizes
    <2> QED BY <2>2, <2>3
  <1>2. ASSUME NEW w \in Workers, setError(w) PROVE BytesRemainIsSum'
    <2>1. CASE UNCHANGED <<needCopy, bytesRemain>>
      BY <2>1, BytesFrame
    <2>2. CASE ~UNCHANGED <<needCopy, bytesRemain>>
      <3>1. /\ wblob[w] \in needCopy
            /\ needCopy' = needCopy \ {wblob[w]}
            /\ bytesRemain' = bytesRemain - Size[wblob[w]]
        BY <1>2, <2>2 DEF setError, tables
      <3>2. SumSizes(needCopy) = Size[wblob[w]] + SumSizes(needCopy \ {wblob[w]})
        BY <1>s, <3>1, SumRemove DEF SumSizes
      <3>3. IsFiniteSet(needCopy \ {wblob[w]})
        BY <1>s, FS_RemoveElement
      <3>4. SumSizes(needCopy \ {wblob[w]}) \in Nat /\ Size[wblob[w]] \in Nat
        BY <1>s, <3>1, <3>3, SumNat DEF SumSizes
      <3> QED BY <3>1, <3>2, <3>4 DEF BytesRemainIsSum, SumSizes
    <2> QED BY <2>1, <2>2
  <1>3. CASE Restart
    BY <1>3 DEF Restart, BytesRemainIsSum, SumSizes
  <1>4. ASSUME UNCHANGED tables PROVE BytesRemainIsSum'
    BY <1>4, BytesFrame DEF tables
  <1>5. ASSUME NEW e \in Enqueuers, \/ \E b \in Blobs : StoreBlob(e, b)
                                    \/ enqueueSet(e) \/ enqueueSetFails(e)
        PROVE  UNCHANGED tables
    BY <1>5, Zenon DEF StoreBlob, enqueueSet, enqueueSetFails, tables
  <1>6. ASSUME Enumerator \/ RunSync PROVE UNCHANGED tables
    BY <1>6, Zenon DEF Enumerator, enumeratePendingBlobs, blobserverEnumerator, EnumSend,
       EnumReturn, RunSync, runSyncBegin, runSyncFeed, runSyncFed, runSyncCollect,
       runSyncReturn, syncLoopTimer, tables
  <1>7. ASSUME NEW w \in Workers, \/ copyBlob(w) \/ copyBlobFails(w) \/ setErrorDelete(w)
                                  \/ copyWorkerSend(w)
        PROVE  UNCHANGED tables
    BY <1>7, Zenon DEF copyBlob, copyBlobFails, setErrorDelete, copyWorkerSend, tables
  <1>8. ASSUME NEW w \in Workers, copyWorkerTake(w) PROVE BytesRemainIsSum'
    BY <1>8, BytesFrame DEF copyWorkerTake
  <1>9. CASE UNCHANGED vars
    BY <1>9, <1>4 DEF vars
  <1> QED
    BY <1>1, <1>2, <1>3, <1>4, <1>5, <1>6, <1>7, <1>8, <1>9 DEF Next, Enqueue, Worker

\* bytesRemain, which the status page shows, is the sum of the sizes of the blobs
\* in needCopy, however uploads, copies, failures and restarts interleave.
THEOREM BytesRemainCorrect == Spec => []BytesRemainIsSum
  <1>1. Init => BytesRemainIsSum
    BY SumEmpty DEF Init, BytesRemainIsSum, SumSizes
  <1>2. Ledger /\ BytesRemainIsSum /\ [Next]_vars => BytesRemainIsSum'
    BY BytesStep
  <1> QED BY <1>1, <1>2, LedgerHolds, PTL DEF Spec

\* Without a full sync a batch is made of blobs of needCopy, and a blob stays there
\* until the worker that copies it is through with it.
Listed ==
  /\ mode = "loop"
  /\ toSend \subseteq needCopy /\ enumch \subseteq needCopy /\ workch \subseteq needCopy
  /\ \A w \in Workers : Busy(w) => wblob[w] \in needCopy
  /\ CopyingAccurate

\* A step that only moves workers between states in which they hold the same blob.
LEMMA ListedFrame ==
  ASSUME Listed, UNCHANGED <<mode, toSend, enumch, workch, copying>>,
         needCopy \subseteq needCopy',
         \A w \in Workers : Busy(w)' = Busy(w) /\ (Busy(w) => wblob'[w] = wblob[w])
  PROVE  Listed'
  <1>1. {wblob'[w] : w \in {v \in Workers : Busy(v)'}} = {wblob[w] : w \in {v \in Workers : Busy(v)}}
    BY DEF Listed
  <1>2. CopyingAccurate'
    BY <1>1 DEF Listed, CopyingAccurate, Busy
  <1> QED BY <1>2 DEF Listed, Busy

\* A step keeps the list of copies under way: a blob enters and leaves copying with
\* the worker that copies it.
LEMMA ListedStep ==
  ASSUME ~FullSyncOnStart, Ledger, Batch, Listed, [Next]_vars
  PROVE  Listed'
  <1>t. wpc \in [Workers -> {"off", "ready", "copy", "delete", "succeeded", "failed", "sendOK",
                             "sendErr"}]
        /\ wblob \in [Workers -> Blobs \cup {NoBlob}]
    BY DEF Ledger, TypeOK
  <1>1. ASSUME NEW e \in Enqueuers, Enqueue(e) PROVE Listed'
    <2>1. /\ UNCHANGED <<mode, toSend, enumch, workch, copying, wpc, wblob>>
          /\ needCopy \subseteq needCopy'
      BY <1>1, Zenon DEF Enqueue, StoreBlob, addBlobToCopy, enqueueSet, enqueueSetFails, tables,
         loop, enumr, chans, workers
    <2> QED BY <2>1, ListedFrame DEF Busy
  <1>2. CASE enumeratePendingBlobs
    <2>1. /\ UNCHANGED <<mode, enumch, workch, copying, needCopy, wpc, wblob>>
          /\ toSend' \subseteq needCopy
      BY <1>2 DEF enumeratePendingBlobs, tables, loop, chans, workers
    <2> QED BY <2>1 DEF Listed, CopyingAccurate, Busy
  <1>3. ~blobserverEnumerator
    BY DEF Listed, blobserverEnumerator
  <1>4. CASE EnumSend
    <2>1. /\ UNCHANGED <<mode, workch, copying, needCopy, wpc, wblob>>
          /\ toSend' \subseteq toSend /\ enumch' \subseteq enumch \cup toSend
      BY <1>4 DEF EnumSend, tables, loop, workers
    <2> QED BY <2>1 DEF Listed, CopyingAccurate, Busy
  <1>5. CASE EnumReturn \/ runSyncBegin \/ runSyncFed \/ runSyncCollect \/ syncLoopTimer
    <2>1. UNCHANGED <<mode, toSend, enumch, workch, copying, needCopy, wpc, wblob>>
      BY <1>5, Zenon DEF EnumReturn, runSyncBegin, runSyncFed, runSyncCollect, syncLoopTimer,
         tables, loop, enumr, chans, workers
    <2> QED BY <2>1, ListedFrame DEF Busy
  <1>6. CASE runSyncFeed
    <2>1. /\ UNCHANGED <<mode, toSend, copying, needCopy, wblob>>
          /\ enumch' \subseteq enumch /\ workch' \subseteq workch \cup enumch
      BY <1>6 DEF runSyncFeed, tables, enumr
    <2>2. \A w \in Workers : Busy(w)' = Busy(w)
      <3>1. wpc' = wpc \/ \E w \in Workers : wpc[w] = "off" /\ wpc' = [wpc EXCEPT ![w] = "ready"]
        BY <1>6 DEF runSyncFeed
      <3> QED BY <3>1, <1>t DEF Busy
    <2>3. {wblob'[w] : w \in {v \in Workers : Busy(v)'}} = {wblob[w] : w \in {v \in Workers : Busy(v)}}
      BY <2>1, <2>2
    <2>4. CopyingAccurate'
      BY <2>1, <2>3 DEF Listed, CopyingAccurate, Busy
    <2> QED BY <2>1, <2>2, <2>4 DEF Listed, Busy
  <1>7. CASE runSyncReturn
    <2>1. /\ UNCHANGED <<toSend, workch, copying, needCopy, wblob>>
          /\ enumch' = {} /\ mode' = "loop"
          /\ wpc' = [w \in Workers |-> "off"]
      BY <1>7 DEF runSyncReturn, nextMode, Listed, tables
    <2>2. \A w \in Workers : ~Held(w)
      <3>1. toCopy = nRes + Cardinality(workch) + resOK + resErr + Cardinality(InFlight)
        BY <1>7 DEF runSyncReturn, Batch, EveryFedBlobYieldsAResult, InFlight
      <3>2. /\ IsFiniteSet(InFlight)
            /\ Cardinality(workch) \in Nat /\ Cardinality(InFlight) \in Nat
        BY CountsAreNat DEF Ledger
      <3>3. nRes = toCopy /\ nRes \in Nat /\ toCopy \in Nat /\ resOK \in Nat /\ resErr \in Nat
        BY <1>7 DEF runSyncReturn, Ledger, TypeOK
      <3>4. Cardinality(InFlight) = 0
        <4> DEFINE c == Cardinality(workch)
        <4> DEFINE d == Cardinality(InFlight)
        <4>1. c \in Nat /\ d \in Nat /\ toCopy = nRes + c + resOK + resErr + d
          BY <3>1, <3>2
        <4> HIDE DEF c, d
        <4>2. d = 0 BY <4>1, <3>3
        <4> QED BY <4>2 DEF d
      <3>5. InFlight = {}
        BY <3>2, <3>4, FS_EmptySet
      <3> QED BY <3>5 DEF InFlight
    <2>3. \A w \in Workers : ~Busy(w) /\ ~Busy(w)'
      BY <2>1, <2>2 DEF Busy, Held
    <2>4. CopyingAccurate'
      BY <2>1, <2>3 DEF Listed, CopyingAccurate, Busy
    <2> QED BY <2>1, <2>3, <2>4 DEF Listed, Busy
  <1>8. ASSUME NEW w \in Workers, copyWorkerTake(w) PROVE Listed'
    <2>1. PICK b \in workch : /\ workch' = workch \ {b}
                              /\ copying' = copying \cup {b}
                              /\ wblob' = [wblob EXCEPT ![w] = b]
      BY <1>8 DEF copyWorkerTake
    <2>2. /\ UNCHANGED <<mode, toSend, enumch, needCopy>>
          /\ ~Busy(w) /\ wpc' = [wpc EXCEPT ![w] = "copy"]
      BY <1>8 DEF copyWorkerTake, loop, enumr, Busy
    <2>3. /\ Busy(w)' /\ wblob'[w] = b
          /\ \A v \in Workers \ {w} : Busy(v)' = Busy(v) /\ wblob'[v] = wblob[v]
      BY <2>1, <2>2, <1>t DEF Busy
    <2>4. {wblob'[v] : v \in {u \in Workers : Busy(u)'}}
            = {wblob[v] : v \in {u \in Workers : Busy(u)}} \cup {b}
      BY <2>2, <2>3
    <2>5. CopyingAccurate'
      BY <2>1, <2>4 DEF Listed, CopyingAccurate, Busy
    <2> QED BY <2>1, <2>2, <2>3, <2>5 DEF Listed
  <1>9. ASSUME NEW w \in Workers, copyBlob(w) \/ copyBlobFails(w) \/ setErrorDelete(w)
               \/ copyWorkerSend(w)
        PROVE  Listed'
    <2>1. UNCHANGED <<mode, toSend, enumch, workch, copying, needCopy>>
      BY <1>9, Zenon DEF copyBlob, copyBlobFails, setErrorDelete, copyWorkerSend, tables, loop,
         enumr, chans
    <2>2. \A v \in Workers : Busy(v)' = Busy(v) /\ (Busy(v) => wblob'[v] = wblob[v])
      <3>1. CASE copyBlob(w) BY <3>1, <1>t DEF copyBlob, Busy
      <3>2. CASE copyBlobFails(w) BY <3>2, <1>t DEF copyBlobFails, Busy
      <3>3. CASE setErrorDelete(w) BY <3>3, <1>t DEF setErrorDelete, Busy
      <3>4. CASE copyWorkerSend(w) BY <3>4, <1>t DEF copyWorkerSend, Busy
      <3> QED BY <1>9, <3>1, <3>2, <3>3, <3>4
    <2> QED BY <2>1, <2>2, ListedFrame
  <1>10. ASSUME NEW w \in Workers, setError(w) PROVE Listed'
    <2>1. /\ Busy(w) /\ wblob[w] \in needCopy
          /\ UNCHANGED <<mode, toSend, enumch, workch, wblob>>
      BY <1>10 DEF setError, Busy, Listed, loop, enumr, chans
    <2>2. /\ copying' = copying \ {wblob[w]}
          /\ needCopy' \in {needCopy, needCopy \ {wblob[w]}}
      BY <1>10, <2>1 DEF setError
    <2>3. /\ ~Busy(w)'
          /\ \A v \in Workers \ {w} : Busy(v)' = Busy(v)
      BY <1>10, <1>t DEF setError, Busy
    <2>4. /\ wblob[w] \notin toSend \cup enumch \cup workch
          /\ \A v \in Workers \ {w} : Busy(v) => wblob[v] # wblob[w]
      BY <2>1 DEF Batch, OnePlace, Busy, Held
    <2>5. {wblob[v] : v \in {u \in Workers : Busy(u)'}}
            = {wblob[v] : v \in {u \in Workers : Busy(u)}} \ {wblob[w]}
      BY <2>3, <2>4
    <2>6. CopyingAccurate'
      BY <2>1, <2>2, <2>5 DEF Listed, CopyingAccurate, Busy
    <2> QED BY <2>1, <2>2, <2>3, <2>4, <2>6 DEF Listed
  <1>11. CASE Restart
    BY <1>11 DEF Restart, Listed, CopyingAccurate, Busy, firstMode
  <1>12. CASE UNCHANGED vars
    BY <1>12, ListedFrame DEF vars, tables, loop, enumr, chans, workers, Busy
  <1> QED
    BY <1>1, <1>2, <1>3, <1>4, <1>5, <1>6, <1>7, <1>8, <1>9, <1>10, <1>11, <1>12
       DEF Next, Enumerator, RunSync, Worker

\* Unless the full sync of the start-up runs, "Currently Copying" on the status page
\* lists exactly the blobs between the start of copyBlob and the end of setError.
\* (A full sync copies blobs that are not in needCopy, and setError leaves those on
\* the list.)
THEOREM CopyingListed == ASSUME ~FullSyncOnStart PROVE Spec => []CopyingAccurate
  <1>1. Init => Listed
    BY DEF Init, Listed, CopyingAccurate, Busy, firstMode
  <1>2. Ledger /\ Batch /\ Listed /\ [Next]_vars => Listed'
    BY ListedStep
  <1>3. Listed => CopyingAccurate
    BY DEF Listed
  <1> QED BY <1>1, <1>2, <1>3, LedgerHolds, BatchHolds, PTL DEF Spec
=============================================================================
