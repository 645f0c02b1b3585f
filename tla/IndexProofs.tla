------------------------------ MODULE IndexProofs ------------------------------
(***************************************************************************)
(* Proofs about Index, for any number of blobs, receiving threads and      *)
(* restarts, with or without a corpus, failures and SourceFirst.           *)
(*                                                                         *)
(* Flow says what each thread may hold at each place of ReceiveBlob.       *)
(* Dependencies, Tracking and Memory are inductive relative to it.         *)
(***************************************************************************)
EXTENDS Index, TLAPS

\* A leaf is tried with Zenon first, which is the quicker of the two here.
USE ZenonT(5), SMTT(60)

\* What a thread holds at each place of ReceiveBlob and of the loop.
Place(t) ==
  /\ pc[t] \in Inside \cup {"fetch", "retry"} => cur[t] \in Blobs
  /\ pc[t] \in {"fetch", "retry", "wait", "take"} => t = Ooo
  /\ pc[t] = "idle" => t # Ooo
  /\ pc[t] \in {"wait", "take"} => cur[t] = NoBlob
  /\ pc[t] \in {"noteRow", "noteMemory"} => miss[t] \in Blobs /\ out[t] \in {"missed", "partial"}
  /\ pc[t] \in {"commit", "corpus", "edges", "remove"} => out[t] \in {"full", "unread", "partial"}
  /\ pc[t] = "noteIndexed" => out[t] \in {"full", "unread", "partial", "missed"}
  /\ pc[t] \in Inside \ {"populate"} /\ out[t] \in {"unread", "partial"} =>
       Kind[cur[t]] = "delete"
  /\ pc[t] = "remove" => \A r \in edges[t] : r[1] = cur[t]
Flow == TypeOK /\ \A t \in Threads : Place(t)

\* What IndexedHasDeps rests on: a thread about to commit an indexed blob has seen
\* its dependencies, which never go away; what the corpus knows has a row.
Complete(b) ==
  /\ Kind[b] # "directory" => Deps[b] \subseteq source
  /\ Kind[b] = "delete" /\ (HasCorpus \/ ~Failures) => have[Target[b]] # "none"
Dependencies ==
  /\ IndexedHasDeps
  /\ \A b \in corpus : have[b] # "none"
  /\ \A t \in Threads : pc[t] = "corpus" => have[cur[t]] # "none"
  /\ \A t \in Threads : pc[t] = "commit" /\ out[t] # "partial" => Complete(cur[t])

\* What TrackedUntilIndexed rests on: a thread past its commit has an indexed
\* blob, and one that noted a miss has a row (or another thread has indexed the
\* blob meanwhile).
Settled(b) == Kind[b] = "delete" \/ have[b] = "indexed"
Committed(t) == pc[t] \in {"corpus", "noteIndexed", "edges", "remove"} /\ out[t] = "full"
Missed(t) == pc[t] = "noteIndexed" /\ out[t] = "missed"
Tracking ==
  /\ TrackedUntilIndexed
  /\ \A t \in Threads : Committed(t) => Settled(cur[t])
  /\ \A t \in Threads : pc[t] = "noteMemory" => Settled(cur[t]) \/ <<cur[t], miss[t]>> \in missing
  /\ \A t \in Threads : Missed(t) => Settled(cur[t]) \/ MissTracked(cur[t])

\* What NotForgotten rests on: a thread that is about to return after a miss
\* leaves its blob in one of the maps, or the loop has it.
Waiting(b) == needs[b] # {} \/ b \in readyReindex
Memory ==
  /\ NotForgotten
  /\ \A t \in Threads : Missed(t) =>
       Settled(cur[t]) \/ Waiting(cur[t]) \/ (t # Ooo /\ cur[Ooo] = cur[t])

-----------------------------------------------------------------------------
\* Initially no thread is inside ReceiveBlob.
LEMMA FlowInit == Init => Flow
  <1> SUFFICES ASSUME Init PROVE Flow
    OBVIOUS
  <1> USE IndexAssumption
  <1>0. tickleOoo \in BOOLEAN
    BY Zenon DEF Init
  <1>1. crashes \in 0..MaxCrashes
    BY DEF Init
  <1>2. TypeOK
    BY <1>0, <1>1 DEF Init, TypeOK, Start, None
  <1>3. \A t \in Threads : Place(t)
    BY DEF Init, Place, Start, Inside
  <1> QED BY <1>2, <1>3 DEF Flow

\* Every step keeps the types and the places of the threads.
LEMMA FlowStep == Flow /\ [Next]_vars => Flow'
  <1> SUFFICES ASSUME Flow, [Next]_vars PROVE Flow'
    OBVIOUS
  <1> USE IndexAssumption DEF rows, maps, caches, local
  <1>p. Ooo \in Threads /\ Receivers \subseteq Threads
    BY DEF Threads
  <1>f. TypeOK /\ \A t \in Threads : Place(t)
    BY DEF Flow
  <1>q. TypeOK' /\ (\A t \in Threads : Place(t)') => Flow'
    BY DEF Flow
  <1>1. ASSUME NEW b \in Blobs, StoreBlob(b) PROVE Flow'
    BY <1>1, <1>f, <1>q DEF StoreBlob, TypeOK, Place
  <1>2. ASSUME NEW t \in Receivers, NEW b \in Blobs, ReceiveBlob(t, b) PROVE Flow'
    <2>1. TypeOK'
      BY <1>2, <1>f, <1>p DEF ReceiveBlob, enterReceiveBlob, TypeOK, Inside
    <2>2. \A u \in Threads : Place(u)'
      BY <1>2, <1>f, <1>p DEF ReceiveBlob, enterReceiveBlob, TypeOK, Place, Inside
    <2> QED BY <2>1, <2>2, <1>q
  <1>3. ASSUME NEW t \in Threads, populateMiss(t) PROVE Flow'
    <2>1. TypeOK'
      BY <1>3, <1>f, <1>p DEF populateMiss, TypeOK, Place, Inside
    <2>2. \A u \in Threads : Place(u)'
      BY <1>3, <1>f, <1>p DEF populateMiss, TypeOK, Place, Inside
    <2> QED BY <2>1, <2>2, <1>q
  <1>4. ASSUME NEW t \in Threads, populateFull(t) PROVE Flow'
    <2>1. TypeOK'
      BY <1>4, <1>f, <1>p DEF populateFull, TypeOK, Place, Inside
    <2>2. \A u \in Threads : Place(u)'
      BY <1>4, <1>f, <1>p DEF populateFull, TypeOK, Place, Inside
    <2> QED BY <2>1, <2>2, <1>q
  <1>u. ASSUME NEW t \in Threads, populateUnread(t) PROVE Flow'
    <2>1. TypeOK'
      BY <1>u, <1>f, <1>p DEF populateUnread, TypeOK, Place, Inside
    <2>2. \A u \in Threads : Place(u)'
      BY <1>u, <1>f, <1>p DEF populateUnread, TypeOK, Place, Inside
    <2> QED BY <2>1, <2>2, <1>q
  <1>5. ASSUME NEW t \in Threads, populateDeleteClaim(t) PROVE Flow'
    <2>1. TypeOK'
      BY <1>5, <1>f, <1>p DEF populateDeleteClaim, TypeOK, Place, Inside
    <2>2. \A u \in Threads : Place(u)'
      BY <1>5, <1>f, <1>p DEF populateDeleteClaim, TypeOK, Place, Inside
    <2> QED BY <2>1, <2>2, <1>q
  <1>6. ASSUME NEW t \in Threads, receiveFails(t) PROVE Flow'
    <2>1. TypeOK'
      BY <1>6, <1>f, <1>p DEF receiveFails, returnErr, TypeOK, Place, Inside
    <2>2. \A u \in Threads : Place(u)'
      BY <1>6, <1>f, <1>p DEF receiveFails, returnErr, TypeOK, Place, Inside
    <2> QED BY <2>1, <2>2, <1>q
  <1>7. ASSUME NEW t \in Threads, noteNeeded(t) PROVE Flow'
    <2>1. TypeOK'
      BY <1>7, <1>f, <1>p DEF noteNeeded, TypeOK, Place, Inside
    <2>2. \A u \in Threads : Place(u)'
      BY <1>7, <1>f, <1>p DEF noteNeeded, TypeOK, Place, Inside
    <2> QED BY <2>1, <2>2, <1>q
  <1>8. ASSUME NEW t \in Threads, noteNeededMemory(t) PROVE Flow'
    <2>1. TypeOK'
      BY <1>8, <1>f, <1>p DEF noteNeededMemory, TypeOK, Place, Inside
    <2>2. \A u \in Threads : Place(u)'
      BY <1>8, <1>f, <1>p DEF noteNeededMemory, TypeOK, Place, Inside
    <2> QED BY <2>1, <2>2, <1>q
  <1>9. ASSUME NEW t \in Threads, commit(t) PROVE Flow'
    <2>1. TypeOK'
      BY <1>9, <1>f, <1>p DEF commit, Deletion, TypeOK, Place, Inside
    <2>2. \A u \in Threads : Place(u)'
      BY <1>9, <1>f, <1>p DEF commit, Deletion, TypeOK, Place, Inside
    <2> QED BY <2>1, <2>2, <1>q
  <1>10. ASSUME NEW t \in Threads, addBlob(t) PROVE Flow'
    <2>1. TypeOK'
      BY <1>10, <1>f, <1>p DEF addBlob, Deletion, TypeOK, Place, Inside
    <2>2. \A u \in Threads : Place(u)'
      BY <1>10, <1>f, <1>p DEF addBlob, Deletion, TypeOK, Place, Inside
    <2> QED BY <2>1, <2>2, <1>q
  <1>11. ASSUME NEW t \in Threads, noteBlobIndexed(t) PROVE Flow'
    <2>0. cur[t] \in Blobs /\ woken(cur[t]) \subseteq Blobs
      BY <1>11, <1>f DEF noteBlobIndexed, woken, TypeOK, Place, Inside
    <2>a. /\ needs' \in [Blobs -> SUBSET Blobs] /\ neededBy' \in [Blobs -> SUBSET Blobs]
          /\ readyReindex' \subseteq Blobs
      BY <1>11, <1>f, <2>0 DEF noteBlobIndexed, noteIndexed, TypeOK
    <2>b. tickleOoo' \in BOOLEAN
      BY <1>11, Zenon DEF noteBlobIndexed, noteIndexed
    <2>1. TypeOK'
      <3>1. CASE out[t] = "missed"
        <4>1. /\ pc' = [pc EXCEPT ![t] = IF t = Ooo THEN "take" ELSE "idle"]
              /\ cur' = [cur EXCEPT ![t] = NoBlob] /\ miss' = [miss EXCEPT ![t] = NoBlob]
              /\ out' = [out EXCEPT ![t] = "none"]
              /\ acked' \in {acked, acked \cup {cur[t]}}
              /\ UNCHANGED <<source, have, missing, deleted, deletes, corpus, corpusDeletes,
                             edges, crashes>>
          BY <1>11, <3>1 DEF noteBlobIndexed, returnNil
        <4> QED BY <4>1, <1>f, <1>p, <2>0, <2>a, <2>b DEF TypeOK, Inside
      <3>2. CASE out[t] # "missed"
        BY <1>11, <1>f, <1>p, <2>0, <2>a, <2>b, <3>2 DEF noteBlobIndexed, TypeOK, Inside
      <3> QED BY <3>1, <3>2
    <2>2. \A u \in Threads : Place(u)'
      BY <1>11, <1>f, <1>p DEF noteBlobIndexed, noteIndexed, woken, returnNil, TypeOK, Place, Inside
    <2> QED BY <2>1, <2>2, <1>q
  <1>12. ASSUME NEW t \in Threads, removeAllMissingEdges(t) PROVE Flow'
    <2>1. TypeOK'
      BY <1>12, <1>f, <1>p DEF removeAllMissingEdges, TypeOK, Place, Inside
    <2>2. \A u \in Threads : Place(u)'
      BY <1>12, <1>f, <1>p DEF removeAllMissingEdges, TypeOK, Place, Inside
    <2> QED BY <2>1, <2>2, <1>q
  <1>13. ASSUME NEW t \in Threads, removeEdge(t) PROVE Flow'
    <2>1. TypeOK'
      BY <1>13, <1>f, <1>p DEF removeEdge, TypeOK, Place, Inside
    <2>2. \A u \in Threads : Place(u)'
      BY <1>13, <1>f, <1>p DEF removeEdge, TypeOK, Place, Inside
    <2> QED BY <2>1, <2>2, <1>q
  <1>14. ASSUME NEW t \in Threads, edgesRemoved(t) PROVE Flow'
    <2>1. TypeOK'
      BY <1>14, <1>f, <1>p DEF edgesRemoved, returnNil, TypeOK, Place, Inside
    <2>2. \A u \in Threads : Place(u)'
      BY <1>14, <1>f, <1>p DEF edgesRemoved, returnNil, TypeOK, Place, Inside
    <2> QED BY <2>1, <2>2, <1>q
  <1>15. CASE WaitTickle
    <2>1. TypeOK'
      BY <1>15, <1>f, <1>p DEF WaitTickle, TypeOK, Place, Inside
    <2>2. \A u \in Threads : Place(u)'
      BY <1>15, <1>f, <1>p DEF WaitTickle, TypeOK, Place, Inside
    <2> QED BY <2>1, <2>2, <1>q
  <1>16. CASE takeReady
    <2>1. TypeOK'
      BY <1>16, <1>f, <1>p DEF takeReady, TypeOK, Place, Inside
    <2>2. \A u \in Threads : Place(u)'
      BY <1>16, <1>f, <1>p DEF takeReady, TypeOK, Place, Inside
    <2> QED BY <2>1, <2>2, <1>q
  <1>17. CASE indexBlob
    <2>0. cur' = [cur EXCEPT ![Ooo] = cur[Ooo]] /\ cur[Ooo] \in Blobs
      BY <1>17, <1>f, <1>p DEF indexBlob, enterReceiveBlob, Place
    <2>1. TypeOK'
      BY <1>17, <1>f, <1>p, <2>0, SMTT(60) DEF indexBlob, enterReceiveBlob, TypeOK, Inside
    <2>2. \A u \in Threads : Place(u)'
      BY <1>17, <1>f, <1>p DEF indexBlob, enterReceiveBlob, TypeOK, Place, Inside
    <2> QED BY <2>1, <2>2, <1>q
  <1>18. CASE indexBlobFails
    <2>1. TypeOK'
      BY <1>18, <1>f, <1>p DEF indexBlobFails, returnErr, TypeOK, Place, Inside
    <2>2. \A u \in Threads : Place(u)'
      BY <1>18, <1>f, <1>p DEF indexBlobFails, returnErr, TypeOK, Place, Inside
    <2> QED BY <2>1, <2>2, <1>q
  <1>19. CASE retryLater
    <2>1. TypeOK'
      BY <1>19, <1>f, <1>p DEF retryLater, TypeOK, Place, Inside
    <2>2. \A u \in Threads : Place(u)'
      BY <1>19, <1>f, <1>p DEF retryLater, TypeOK, Place, Inside
    <2> QED BY <2>1, <2>2, <1>q
  <1>20. CASE Restart
    <2>b. tickleOoo' \in BOOLEAN
      BY <1>20, Zenon DEF Restart
    <2>0. crashes' \in 0..MaxCrashes
      BY <1>20, <1>f DEF Restart, TypeOK
    <2>a. /\ needs' \in [Blobs -> SUBSET Blobs] /\ neededBy' \in [Blobs -> SUBSET Blobs]
          /\ corpus' \subseteq Blobs /\ corpusDeletes' \subseteq Blobs \X Blobs
      BY <1>20, <1>f DEF Restart, TypeOK
    <2>1. TypeOK'
      BY <1>20, <1>f, <1>p, <2>0, <2>a, <2>b DEF Restart, Start, TypeOK
    <2>2. \A u \in Threads : Place(u)'
      BY <1>20, <1>f, <1>p DEF Restart, Start, TypeOK, Place, Inside
    <2> QED BY <2>1, <2>2, <1>q
  <1>21. CASE UNCHANGED vars
    BY <1>21, <1>f, <1>q DEF vars, TypeOK, Place
  <1> QED BY <1>1, <1>2, <1>3, <1>4, <1>5, <1>6, <1>7, <1>8, <1>9, <1>10, <1>11, <1>12,
             <1>13, <1>14, <1>15, <1>16, <1>17, <1>18, <1>19, <1>20, <1>21, <1>u, Zenon
          DEF Next, Receive, outOfOrderIndexerLoop

\* Every variable of the index keeps its type, whatever is received, stored, lost
\* or restarted.
THEOREM TypeCorrect == Spec => []TypeOK
  <1>1. Flow => TypeOK BY DEF Flow
  <1> QED BY <1>1, FlowInit, FlowStep, PTL DEF Spec

\* Of the threads' places, for the proofs below.
LEMMA FlowHolds == Spec => []Flow
  BY FlowInit, FlowStep, PTL DEF Spec

-----------------------------------------------------------------------------
\* The maps needs and neededBy change together.
LEMMA InverseStep == Flow /\ InverseMaps /\ [Next]_vars => InverseMaps'
  <1> SUFFICES ASSUME Flow, InverseMaps, [Next]_vars PROVE InverseMaps'
    OBVIOUS
  <1> USE IndexAssumption DEF rows, maps, caches, local
  <1>f. TypeOK /\ \A t \in Threads : Place(t)
    BY DEF Flow
  <1>u. UNCHANGED <<needs, neededBy>> => InverseMaps'
    BY DEF InverseMaps
  <1>1. ASSUME NEW t \in Threads, noteNeededMemory(t) PROVE InverseMaps'
    <2>1. cur[t] \in Blobs /\ miss[t] \in Blobs
      BY <1>1, <1>f DEF noteNeededMemory, Place, Inside
    <2> QED BY <1>1, <1>f, <2>1 DEF noteNeededMemory, InverseMaps, TypeOK
  <1>2. ASSUME NEW t \in Threads, noteBlobIndexed(t) PROVE InverseMaps'
    <2>1. cur[t] \in Blobs
      BY <1>2, <1>f DEF noteBlobIndexed, Place, Inside
    <2> QED BY <1>2, <1>f, <2>1 DEF noteBlobIndexed, noteIndexed, InverseMaps, TypeOK
  <1>3. CASE Restart
    BY <1>3 DEF Restart, InverseMaps
  <1>4. ASSUME NEW t \in Threads,
               \/ populateMiss(t) \/ populateFull(t) \/ populateDeleteClaim(t) \/ populateUnread(t)
               \/ receiveFails(t) \/ noteNeeded(t) \/ commit(t) \/ addBlob(t)
               \/ removeAllMissingEdges(t) \/ removeEdge(t) \/ edgesRemoved(t)
        PROVE  InverseMaps'
    BY <1>4, <1>u DEF populateMiss, populateFull, populateDeleteClaim, populateUnread, receiveFails, noteNeeded,
         commit, addBlob, removeAllMissingEdges, removeEdge, edgesRemoved
  <1>5. ASSUME \/ \E b \in Blobs : StoreBlob(b)
               \/ \E t \in Receivers, b \in Blobs : ReceiveBlob(t, b)
               \/ outOfOrderIndexerLoop \/ UNCHANGED vars
        PROVE  InverseMaps'
    BY <1>5, <1>u DEF StoreBlob, ReceiveBlob, outOfOrderIndexerLoop, WaitTickle, takeReady,
         indexBlob, indexBlobFails, retryLater, vars
  <1> QED BY <1>1, <1>2, <1>3, <1>4, <1>5, Zenon DEF Next, Receive

\* The comment on Index.neededBy, "the inverse of needs", holds for any number of
\* threads that note needs and arrivals at once.
THEOREM NeedsMapsAgree == Spec => []InverseMaps
  <1>1. Init => InverseMaps
    BY DEF Init, InverseMaps, None
  <1> QED BY <1>1, InverseStep, FlowHolds, PTL DEF Spec

-----------------------------------------------------------------------------
\* A blob becomes ready in the same region under ix.mu that tickles the loop, and
\* the loop waits only after it has seen that nothing is ready.
LEMMA TickleStep == Flow /\ NoLostTickle /\ [Next]_vars => NoLostTickle'
  <1> SUFFICES ASSUME Flow, NoLostTickle, [Next]_vars PROVE NoLostTickle'
    OBVIOUS
  <1> USE IndexAssumption DEF rows, maps, caches, local
  <1>f. TypeOK /\ (\A t \in Threads : Place(t)) /\ Ooo \in Threads
    BY DEF Flow, Threads
  <1>u. UNCHANGED <<readyReindex, tickleOoo>> /\ (pc[Ooo] = "wait" \/ pc'[Ooo] # "wait")
        => NoLostTickle'
    BY DEF NoLostTickle
  <1>1. ASSUME NEW t \in Threads, noteBlobIndexed(t) PROVE NoLostTickle'
    <2>1. woken(cur[t]) = {} => readyReindex' = readyReindex
      BY <1>1 DEF noteBlobIndexed, noteIndexed
    <2>2. tickleOoo \/ woken(cur[t]) # {} => tickleOoo'
      BY <1>1, Zenon DEF noteBlobIndexed, noteIndexed
    <2>3. pc[Ooo] = "wait" \/ pc'[Ooo] # "wait"
      BY <1>1, <1>f DEF noteBlobIndexed, returnNil, TypeOK
    <2> QED BY <2>1, <2>2, <2>3 DEF NoLostTickle
  <1>2. ASSUME NEW t \in Threads,
               \/ populateMiss(t) \/ populateFull(t) \/ populateDeleteClaim(t) \/ populateUnread(t)
               \/ receiveFails(t) \/ noteNeeded(t) \/ noteNeededMemory(t) \/ commit(t) \/ addBlob(t)
               \/ removeAllMissingEdges(t) \/ removeEdge(t) \/ edgesRemoved(t)
        PROVE  NoLostTickle'
    <2>1. CASE populateMiss(t) BY <2>1, <1>f, <1>u DEF populateMiss, TypeOK
    <2>2. CASE populateFull(t) BY <2>2, <1>f, <1>u DEF populateFull, TypeOK
    <2>3. CASE populateDeleteClaim(t) BY <2>3, <1>f, <1>u DEF populateDeleteClaim, TypeOK
    <2>4. CASE populateUnread(t) BY <2>4, <1>f, <1>u DEF populateUnread, TypeOK
    <2>5. CASE receiveFails(t) BY <2>5, <1>f, <1>u DEF receiveFails, returnErr, TypeOK
    <2>6. CASE noteNeeded(t) BY <2>6, <1>f, <1>u DEF noteNeeded, TypeOK
    <2>7. CASE noteNeededMemory(t) BY <2>7, <1>f, <1>u DEF noteNeededMemory, TypeOK
    <2>8. CASE commit(t) BY <2>8, <1>f, <1>u DEF commit, TypeOK
    <2>9. CASE addBlob(t) BY <2>9, <1>f, <1>u DEF addBlob, TypeOK
    <2>10. CASE removeAllMissingEdges(t) BY <2>10, <1>f, <1>u DEF removeAllMissingEdges, TypeOK
    <2>11. CASE removeEdge(t) BY <2>11, <1>f, <1>u DEF removeEdge, TypeOK
    <2>12. CASE edgesRemoved(t) BY <2>12, <1>f, <1>u DEF edgesRemoved, returnNil, TypeOK
    <2> QED BY <1>2, <2>1, <2>2, <2>3, <2>4, <2>5, <2>6, <2>7, <2>8, <2>9, <2>10, <2>11, <2>12, Zenon
  <1>3. CASE WaitTickle
    BY <1>3, <1>f DEF WaitTickle, NoLostTickle, TypeOK
  <1>4. CASE takeReady
    BY <1>4, <1>f DEF takeReady, NoLostTickle, TypeOK
  <1>5. CASE indexBlob \/ indexBlobFails \/ retryLater
    <2>1. pc'[Ooo] # "wait"
      BY <1>5, <1>f DEF indexBlob, indexBlobFails, retryLater, enterReceiveBlob, returnErr, TypeOK
    <2> QED BY <2>1 DEF NoLostTickle
  <1>6. CASE Restart
    BY <1>6 DEF Restart, NoLostTickle
  <1>7. ASSUME \/ \E b \in Blobs : StoreBlob(b)
               \/ \E t \in Receivers, b \in Blobs : ReceiveBlob(t, b)
               \/ UNCHANGED vars
        PROVE  NoLostTickle'
    <2>1. UNCHANGED <<readyReindex, tickleOoo>> /\ pc'[Ooo] = pc[Ooo]
      BY <1>7, <1>f DEF StoreBlob, ReceiveBlob, enterReceiveBlob, vars, TypeOK, Threads
    <2> QED BY <2>1, <1>u
  <1> QED BY <1>1, <1>2, <1>3, <1>4, <1>5, <1>6, <1>7, Zenon DEF Next, Receive, outOfOrderIndexerLoop

\* The non-blocking send on a channel of capacity one loses no wake-up of
\* outOfOrderIndexerLoop.
THEOREM NoTickleLost == Spec => []NoLostTickle
  <1>1. Init => NoLostTickle
    BY DEF Init, NoLostTickle
  <1> QED BY <1>1, TickleStep, FlowHolds, PTL DEF Spec

-----------------------------------------------------------------------------
\* The dependencies a thread has seen are still there when it commits, because
\* blobs and "have:" rows are never removed.
LEMMA DependenciesStep == Flow /\ Dependencies /\ [Next]_vars => Dependencies'
  <1> SUFFICES ASSUME Flow, Dependencies, [Next]_vars PROVE Dependencies'
    OBVIOUS
  <1> USE IndexAssumption DEF rows, maps, caches, local
  <1>f. TypeOK /\ (\A t \in Threads : Place(t)) /\ Ooo \in Threads /\ Receivers \subseteq Threads
    BY DEF Flow, Threads
  <1>u. ASSUME source \subseteq source', UNCHANGED <<have, corpus>>,
               \A t \in Threads : pc'[t] \in {"commit", "corpus"} =>
                 pc'[t] = pc[t] /\ cur'[t] = cur[t] /\ out'[t] = out[t]
        PROVE  Dependencies'
    BY <1>u DEF Dependencies, IndexedHasDeps, Complete
  <1>1. ASSUME NEW t \in Threads, populateFull(t) PROVE Dependencies'
    <2>1. Complete(cur[t])
      <3>1. cur[t] \in Blobs
        BY <1>1, <1>f DEF populateFull, Place, Inside
      <3> QED BY <1>1, <3>1 DEF populateFull, Complete, hasMeta, Dependencies
    <2>2. \A u \in Threads : pc'[u] = "commit" /\ out'[u] # "partial" => Complete(cur'[u])
      BY <1>1, <1>f, <2>1 DEF populateFull, Dependencies, TypeOK
    <2>3. \A u \in Threads : pc'[u] = "corpus" => have[cur'[u]] # "none"
      BY <1>1, <1>f DEF populateFull, Dependencies, TypeOK
    <2> QED BY <1>1, <2>2, <2>3 DEF populateFull, Dependencies, IndexedHasDeps, Complete
  <1>r. ASSUME NEW t \in Threads, populateUnread(t) PROVE Dependencies'
    <2>1. Complete(cur[t])
      BY <1>r DEF populateUnread, Complete
    <2>2. \A u \in Threads : pc'[u] = "commit" /\ out'[u] # "partial" => Complete(cur'[u])
      BY <1>r, <1>f, <2>1 DEF populateUnread, Dependencies, TypeOK
    <2>3. \A u \in Threads : pc'[u] = "corpus" => have[cur'[u]] # "none"
      BY <1>r, <1>f DEF populateUnread, Dependencies, TypeOK
    <2> QED BY <1>r, <2>2, <2>3 DEF populateUnread, Dependencies, IndexedHasDeps, Complete
  <1>2. ASSUME NEW t \in Threads, noteNeededMemory(t) PROVE Dependencies'
    <2>1. \A u \in Threads : pc'[u] = "commit" /\ out'[u] # "partial" => Complete(cur'[u])
      BY <1>2, <1>f DEF noteNeededMemory, Dependencies, TypeOK, Place
    <2>2. \A u \in Threads : pc'[u] = "corpus" => have[cur'[u]] # "none"
      BY <1>2, <1>f DEF noteNeededMemory, Dependencies, TypeOK
    <2> QED BY <1>2, <2>1, <2>2 DEF noteNeededMemory, Dependencies, IndexedHasDeps, Complete
  <1>3. ASSUME NEW t \in Threads, commit(t) PROVE Dependencies'
    <2>1. cur[t] \in Blobs /\ (out[t] # "partial" => Complete(cur[t]))
      BY <1>3, <1>f DEF commit, Place, Inside, Dependencies
    <2>2. /\ have' = [have EXCEPT ![cur[t]] = IF out[t] = "partial" THEN "partial" ELSE "indexed"]
          /\ UNCHANGED <<source, corpus, cur, out>>
          /\ pc' = [pc EXCEPT ![t] = IF HasCorpus THEN "corpus" ELSE "noteIndexed"]
      BY <1>3 DEF commit
    <2>3. \A b \in Blobs : have[b] # "none" => have'[b] # "none"
      BY <2>1, <2>2, <1>f DEF TypeOK
    <2>4. \A b \in Blobs : Complete(b) => Complete(b)'
      BY <2>2, <2>3 DEF Complete
    <2>5. IndexedHasDeps'
      <3>1. ASSUME NEW b \in Blobs, have'[b] = "indexed" PROVE Complete(b)
        BY <3>1, <2>1, <2>2, <1>f DEF Dependencies, IndexedHasDeps, Complete, TypeOK
      <3> QED BY <3>1, <2>4 DEF IndexedHasDeps, Complete
    <2>6. \A b \in corpus' : have'[b] # "none"
      BY <2>2, <2>3, <1>f DEF Dependencies, TypeOK
    <2>7. \A u \in Threads : pc'[u] = "corpus" => have'[cur'[u]] # "none"
      BY <2>1, <2>2, <2>3, <1>f DEF Dependencies, TypeOK, Place, Inside
    <2>8. \A u \in Threads : pc'[u] = "commit" /\ out'[u] # "partial" => Complete(cur[u])'
      BY <2>2, <2>4, <1>f DEF Dependencies, TypeOK, Place, Inside
    <2> QED BY <2>5, <2>6, <2>7, <2>8 DEF Dependencies
  <1>4. ASSUME NEW t \in Threads, addBlob(t) PROVE Dependencies'
    <2>1. /\ corpus' = corpus \cup {cur[t]} /\ have[cur[t]] # "none"
          /\ pc' = [pc EXCEPT ![t] = "noteIndexed"]
          /\ UNCHANGED <<source, have, cur, out>>
      BY <1>4 DEF addBlob, Dependencies
    <2>2. \A b \in corpus' : have'[b] # "none"
      BY <2>1 DEF Dependencies
    <2> QED BY <2>1, <2>2, <1>f DEF Dependencies, IndexedHasDeps, Complete, TypeOK
  <1>5. ASSUME NEW t \in Threads,
               \/ populateMiss(t) \/ populateDeleteClaim(t) \/ receiveFails(t)
               \/ noteNeeded(t) \/ noteBlobIndexed(t)
               \/ removeAllMissingEdges(t) \/ removeEdge(t) \/ edgesRemoved(t)
        PROVE  Dependencies'
    <2>1. CASE populateMiss(t) BY <2>1, <1>f, <1>u DEF populateMiss, TypeOK
    <2>2. CASE populateDeleteClaim(t) BY <2>2, <1>f, <1>u DEF populateDeleteClaim, TypeOK
    <2>3. CASE receiveFails(t) BY <2>3, <1>f, <1>u DEF receiveFails, returnErr, TypeOK
    <2>4. CASE noteNeeded(t) BY <2>4, <1>f, <1>u DEF noteNeeded, TypeOK
    <2>5. CASE noteBlobIndexed(t) BY <2>5, <1>f, <1>u DEF noteBlobIndexed, returnNil, TypeOK
    <2>6. CASE removeAllMissingEdges(t) BY <2>6, <1>f, <1>u DEF removeAllMissingEdges, TypeOK
    <2>7. CASE removeEdge(t) BY <2>7, <1>f, <1>u DEF removeEdge, TypeOK
    <2>8. CASE edgesRemoved(t) BY <2>8, <1>f, <1>u DEF edgesRemoved, returnNil, TypeOK
    <2> QED BY <1>5, <2>1, <2>2, <2>3, <2>4, <2>5, <2>6, <2>7, <2>8, Zenon
  <1>6. CASE outOfOrderIndexerLoop
    <2>1. CASE WaitTickle BY <2>1, <1>f, <1>u DEF WaitTickle, TypeOK
    <2>2. CASE takeReady BY <2>2, <1>f, <1>u DEF takeReady, TypeOK
    <2>3. CASE indexBlob BY <2>3, <1>f, <1>u DEF indexBlob, enterReceiveBlob, TypeOK
    <2>4. CASE indexBlobFails BY <2>4, <1>f, <1>u DEF indexBlobFails, returnErr, TypeOK
    <2>5. CASE retryLater BY <2>5, <1>f, <1>u DEF retryLater, TypeOK
    <2> QED BY <1>6, <2>1, <2>2, <2>3, <2>4, <2>5 DEF outOfOrderIndexerLoop
  <1>7. CASE Restart
    BY <1>7, <1>f DEF Restart, Start, Dependencies, IndexedHasDeps, Complete, TypeOK
  <1>8. ASSUME \/ \E b \in Blobs : StoreBlob(b)
               \/ \E t \in Receivers, b \in Blobs : ReceiveBlob(t, b)
               \/ UNCHANGED vars
        PROVE  Dependencies'
    <2>1. ASSUME NEW b \in Blobs, StoreBlob(b) PROVE Dependencies'
      BY <2>1, <1>u DEF StoreBlob
    <2>2. ASSUME NEW t \in Receivers, NEW b \in Blobs, ReceiveBlob(t, b) PROVE Dependencies'
      BY <2>2, <1>f, <1>u DEF ReceiveBlob, enterReceiveBlob, TypeOK
    <2>3. CASE UNCHANGED vars
      BY <2>3, <1>u DEF vars
    <2> QED BY <1>8, <2>1, <2>2, <2>3
  <1> QED BY <1>1, <1>2, <1>3, <1>4, <1>5, <1>6, <1>7, <1>8, <1>r, Zenon DEF Next, Receive

\* A blob marked indexed had the parts, key or target it needs, whichever threads
\* received it and whenever the process restarted.
THEOREM IndexedBlobsHaveDeps == Spec => []IndexedHasDeps
  <1>1. Init => Dependencies
    BY DEF Init, Dependencies, IndexedHasDeps, Start, Threads
  <1>2. Dependencies => IndexedHasDeps
    BY DEF Dependencies
  <1> QED BY <1>1, <1>2, DependenciesStep, FlowHolds, PTL DEF Spec

-----------------------------------------------------------------------------
\* No "have:" row goes back from indexed, except for delete claims.
LEMMA SettledStays ==
  ASSUME Flow, [Next]_vars, NEW b \in Blobs, Settled(b) PROVE Settled(b)'
  <1> USE IndexAssumption DEF rows, maps, caches, local
  <1>1. ASSUME NEW t \in Threads, commit(t) PROVE Settled(b)'
    <2>1. out[t] = "partial" => Kind[cur[t]] = "delete"
      BY <1>1 DEF Flow, Place, Inside, commit
    <2> QED BY <1>1, <2>1 DEF commit, Settled, Flow, TypeOK
  <1>2. CASE have' = have
    BY <1>2 DEF Settled
  <1>3. have' = have \/ \E t \in Threads : commit(t)
    BY DEF Next, StoreBlob, ReceiveBlob, Receive, populateMiss, populateFull, populateDeleteClaim,
       populateUnread, receiveFails, noteNeeded, noteNeededMemory, addBlob, noteBlobIndexed,
       removeAllMissingEdges, removeEdge, edgesRemoved, outOfOrderIndexerLoop, WaitTickle,
       takeReady, indexBlob, indexBlobFails, retryLater, Restart, vars
  <1> QED BY <1>1, <1>2, <1>3

\* The step is not one of a thread other than t.
Others(t) ==
  \A u \in Threads \ {t} : /\ pc'[u] = pc[u] /\ cur'[u] = cur[u]
                           /\ out'[u] = out[u] /\ miss'[u] = miss[u]

\* A step of ReceiveBlob leaves the other threads alone ...
LEMMA ReceiveOthers ==
  ASSUME TypeOK, NEW t \in Threads, Receive(t) \/ receiveFails(t) PROVE Others(t)
  <1> USE DEF local, TypeOK, Others
  <1>1. CASE populateMiss(t) BY <1>1 DEF populateMiss
  <1>2. CASE populateFull(t) BY <1>2 DEF populateFull
  <1>3. CASE populateDeleteClaim(t) BY <1>3 DEF populateDeleteClaim
  <1>4. CASE populateUnread(t) BY <1>4 DEF populateUnread
  <1>5. CASE noteNeeded(t) BY <1>5 DEF noteNeeded
  <1>6. CASE noteNeededMemory(t) BY <1>6 DEF noteNeededMemory
  <1>7. CASE commit(t) BY <1>7 DEF commit
  <1>8. CASE addBlob(t) BY <1>8 DEF addBlob
  <1>9. CASE noteBlobIndexed(t) BY <1>9 DEF noteBlobIndexed, returnNil
  <1>10. CASE removeAllMissingEdges(t) BY <1>10 DEF removeAllMissingEdges
  <1>11. CASE removeEdge(t) BY <1>11 DEF removeEdge
  <1>12. CASE edgesRemoved(t) BY <1>12 DEF edgesRemoved, returnNil
  <1>13. CASE receiveFails(t) BY <1>13 DEF receiveFails, returnErr
  <1> QED BY <1>1, <1>2, <1>3, <1>4, <1>5, <1>6, <1>7, <1>8, <1>9,
             <1>10, <1>11, <1>12, <1>13, Zenon DEF Receive

\* ... and so does one of the loop.
LEMMA LoopOthers ==
  ASSUME TypeOK, outOfOrderIndexerLoop PROVE Others(Ooo)
  <1> USE DEF local, TypeOK, Others
  <1>1. CASE WaitTickle BY <1>1 DEF WaitTickle
  <1>2. CASE takeReady BY <1>2 DEF takeReady
  <1>3. CASE indexBlob BY <1>3 DEF indexBlob, enterReceiveBlob
  <1>4. CASE indexBlobFails BY <1>4 DEF indexBlobFails, returnErr
  <1>5. CASE retryLater BY <1>5 DEF retryLater
  <1> QED BY <1>1, <1>2, <1>3, <1>4, <1>5, Zenon DEF outOfOrderIndexerLoop

\* What one thread's step must show to keep Tracking.
LEMMA TrackingFrame ==
  ASSUME Flow, Tracking, [Next]_vars, NEW t \in Threads,
         Others(t),
         \A b, d \in Blobs : <<b, d>> \in missing => <<b, d>> \in missing' \/ Settled(b)',
         \A b \in acked' \ acked : Settled(b)' \/ MissTracked(b)',
         Committed(t)' => Settled(cur[t])',
         pc'[t] = "noteMemory" => Settled(cur[t])' \/ <<cur'[t], miss'[t]>> \in missing',
         Missed(t)' => Settled(cur[t])' \/ MissTracked(cur[t])'
  PROVE  Tracking'
  <1>t. TypeOK /\ \A u \in Threads : Place(u)
    BY DEF Flow
  <1>s. \A b \in Blobs : Settled(b) => Settled(b)'
    BY SettledStays
  <1>m. \A b \in Blobs : MissTracked(b) => MissTracked(b)' \/ Settled(b)'
    BY DEF MissTracked
  <1>1. TrackedUntilIndexed'
    <2> SUFFICES ASSUME NEW b \in acked' PROVE Settled(b)' \/ MissTracked(b)'
      BY DEF TrackedUntilIndexed, Settled
    <2>1. CASE b \in acked
      <3>1. b \in Blobs /\ (Settled(b) \/ MissTracked(b))
        BY <1>t, <2>1 DEF Tracking, TrackedUntilIndexed, Settled, TypeOK
      <3> QED BY <3>1, <1>s, <1>m
    <2> QED BY <2>1
  <1>2. ASSUME NEW u \in Threads PROVE Committed(u)' => Settled(cur[u])'
    <2>1. CASE u # t
      <3>1. Committed(u)' => Committed(u) /\ cur[u] \in Blobs /\ cur'[u] = cur[u]
        BY <2>1, <1>t, ZenonT(30) DEF Committed, Others, Place, Inside
      <3>2. Committed(u) => Settled(cur[u])
        BY DEF Tracking
      <3>3. Committed(u)' => Settled(cur[u]) /\ cur[u] \in Blobs /\ cur'[u] = cur[u]
        BY <3>1, <3>2
      <3> QED BY <3>3, <1>s DEF Settled
    <2> QED BY <2>1
  <1>3. ASSUME NEW u \in Threads, pc'[u] = "noteMemory"
        PROVE  Settled(cur[u])' \/ <<cur'[u], miss'[u]>> \in missing'
    <2>1. CASE u # t
      <3>1. /\ pc[u] = "noteMemory" /\ cur[u] \in Blobs /\ miss[u] \in Blobs
            /\ cur'[u] = cur[u] /\ miss'[u] = miss[u]
        BY <1>3, <2>1, <1>t DEF Others, Place, Inside
      <3>2. Settled(cur[u]) \/ <<cur[u], miss[u]>> \in missing
        BY <3>1 DEF Tracking
      <3> QED BY <3>1, <3>2, <1>s DEF Settled
    <2> QED BY <1>3, <2>1
  <1>4. ASSUME NEW u \in Threads, Missed(u)' PROVE Settled(cur[u])' \/ MissTracked(cur[u])'
    <2>1. CASE u # t
      <3>1. Missed(u) /\ cur[u] \in Blobs /\ cur'[u] = cur[u]
        BY <1>4, <2>1, <1>t, ZenonT(30) DEF Missed, Others, Place, Inside
      <3>2. Settled(cur[u]) \/ MissTracked(cur[u])
        BY <3>1 DEF Tracking
      <3> QED BY <3>1, <3>2, <1>s, <1>m DEF Settled, MissTracked
    <2> QED BY <1>4, <2>1
  <1> QED BY <1>1, <1>2, <1>3, <1>4 DEF Tracking

\* A row goes only with a blob that is indexed, and ReceiveBlob returns nil only
\* for a blob that is indexed or has a row.
LEMMA TrackingStep == Flow /\ Tracking /\ [Next]_vars => Tracking'
  <1> SUFFICES ASSUME Flow, Tracking, [Next]_vars PROVE Tracking'
    OBVIOUS
  <1> USE IndexAssumption DEF rows, maps, caches, local, Committed, Missed
  <1>f. TypeOK /\ (\A t \in Threads : Place(t)) /\ Ooo \in Threads /\ Receivers \subseteq Threads
    BY DEF Flow, Threads
  <1>a. ASSUME NEW t \in Threads, pc[t] \in {"edges", "remove"} PROVE Settled(cur[t])
    BY <1>a, <1>f DEF Tracking, Settled, Place, Inside
  <1>1. ASSUME NEW b \in Blobs, StoreBlob(b) PROVE Tracking'
    BY <1>1 DEF StoreBlob, Tracking, TrackedUntilIndexed, Settled, MissTracked
  <1>2. ASSUME NEW t \in Receivers, NEW b \in Blobs, ReceiveBlob(t, b) PROVE Tracking'
    <2>o. Others(t)
      BY <1>2, <1>f DEF ReceiveBlob, enterReceiveBlob, TypeOK, Others
    <2>1. /\ UNCHANGED <<missing, acked>>
          /\ \/ pc'[t] = "populate"
             \/ pc'[t] = "noteIndexed" /\ out'[t] = "full" /\ Settled(cur[t])'
      BY <1>2, <1>f, SMTT(60) DEF ReceiveBlob, enterReceiveBlob, TypeOK, Settled
    <2> QED BY <1>f, <2>o, <2>1, TrackingFrame
  <1>3. ASSUME NEW t \in Threads,
               \/ populateMiss(t) \/ populateFull(t) \/ populateDeleteClaim(t) \/ populateUnread(t)
               \/ receiveFails(t)
        PROVE  Tracking'
    <2>o. Others(t)
      BY <1>3, <1>f, ReceiveOthers DEF Receive
    <2>1. /\ UNCHANGED <<missing, acked>>
          /\ pc'[t] \in {"noteRow", "commit", "idle", "retry"}
      BY <1>3, <1>f, ZenonT(30) DEF populateMiss, populateFull, populateDeleteClaim, populateUnread, receiveFails, returnErr,
           TypeOK
    <2> QED BY <2>o, <2>1, TrackingFrame
  <1>4. ASSUME NEW t \in Threads, noteNeeded(t) PROVE Tracking'
    <2>o. Others(t)
      BY <1>4, <1>f, ReceiveOthers DEF Receive
    <2>1. /\ acked' = acked /\ missing' = missing \cup {<<cur[t], miss[t]>>}
          /\ cur' = cur /\ miss' = miss /\ pc'[t] = "noteMemory"
      BY <1>4, <1>f DEF noteNeeded, TypeOK
    <2> QED BY <2>o, <2>1, TrackingFrame
  <1>5. ASSUME NEW t \in Threads, noteNeededMemory(t) PROVE Tracking'
    <2>1. miss[t] \in Blobs /\ (Settled(cur[t]) \/ <<cur[t], miss[t]>> \in missing)
      BY <1>5, <1>f DEF noteNeededMemory, Tracking, Place
    <2>2. Settled(cur[t])' \/ MissTracked(cur[t])'
      BY <1>5, <2>1 DEF noteNeededMemory, Settled, MissTracked
    <2>o. Others(t)
      BY <1>5, <1>f, ReceiveOthers DEF Receive
    <2>3. /\ UNCHANGED <<missing, acked, out>> /\ out[t] # "full"
          /\ pc'[t] \in {"noteIndexed", "commit"}
      BY <1>5, <1>f, SMTT(60) DEF noteNeededMemory, TypeOK, Place
    <2> QED BY <2>o, <2>2, <2>3, TrackingFrame
  <1>6. ASSUME NEW t \in Threads, commit(t) PROVE Tracking'
    <2>1. out[t] # "missed" /\ cur[t] \in Blobs
      BY <1>6, <1>f DEF commit, Place, Inside
    <2>2. out[t] = "full" => Settled(cur[t])'
      BY <1>6, <2>1, <1>f DEF commit, Settled, TypeOK
    <2>o. Others(t)
      BY <1>6, <1>f, ReceiveOthers DEF Receive
    <2>3. UNCHANGED <<missing, acked, out>> /\ pc'[t] \in {"noteIndexed", "corpus"}
      BY <1>6, <1>f DEF commit, TypeOK
    <2> QED BY <2>o, <2>1, <2>2, <2>3, TrackingFrame
  <1>7. ASSUME NEW t \in Threads, addBlob(t) PROVE Tracking'
    <2>1. out[t] = "full" => Settled(cur[t])'
      BY <1>7, <1>f DEF addBlob, Settled, Tracking
    <2>o. Others(t)
      BY <1>7, <1>f, ReceiveOthers DEF Receive
    <2>2. UNCHANGED <<missing, acked, out>> /\ pc'[t] = "noteIndexed" /\ out[t] # "missed"
      BY <1>7, <1>f, ZenonT(30) DEF addBlob, TypeOK, Place
    <2> QED BY <2>o, <2>1, <2>2, TrackingFrame
  <1>8. ASSUME NEW t \in Threads, noteBlobIndexed(t) PROVE Tracking'
    <2>o. Others(t)
      BY <1>8, <1>f, ReceiveOthers DEF Receive
    <2>1. CASE out[t] = "missed"
      <3>2. Settled(cur[t]) \/ MissTracked(cur[t])
        BY <1>8, <2>1 DEF noteBlobIndexed, Tracking
      <3>3. \A b \in acked' \ acked : b = cur[t]
        BY <1>8, <2>1 DEF noteBlobIndexed, returnNil
      <3>4. \A b \in acked' \ acked : Settled(b)' \/ MissTracked(b)'
        BY <1>8, <3>2, <3>3 DEF noteBlobIndexed, Settled, MissTracked
      <3>5. missing' = missing /\ pc'[t] \in {"take", "idle"}
        BY <1>8, <2>1, <1>f DEF noteBlobIndexed, returnNil, TypeOK
      <3> QED BY <2>o, <3>4, <3>5, TrackingFrame
    <2>2. CASE out[t] # "missed"
      <3>1. out[t] = "full" => Settled(cur[t])'
        BY <1>8, <2>2 DEF noteBlobIndexed, Tracking, Settled
      <3>2. UNCHANGED <<missing, acked, out>> /\ pc'[t] = "edges"
        BY <1>8, <2>2, <1>f DEF noteBlobIndexed, TypeOK
      <3> QED BY <2>o, <3>1, <3>2, TrackingFrame
    <2> QED BY <2>1, <2>2
  <1>9. ASSUME NEW t \in Threads, removeAllMissingEdges(t) PROVE Tracking'
    <2>1. Settled(cur[t])'
      BY <1>9, <1>a DEF removeAllMissingEdges, Settled
    <2>o. Others(t)
      BY <1>9, <1>f, ReceiveOthers DEF Receive
    <2>4. acked' = acked /\ pc'[t] = "remove" /\ missing' = missing
      BY <1>9, <1>f DEF removeAllMissingEdges, TypeOK
    <2> QED BY <2>o, <2>1, <2>4, TrackingFrame
  <1>10. ASSUME NEW t \in Threads, removeEdge(t) PROVE Tracking'
    <2>1. Settled(cur[t]) /\ Settled(cur[t])'
      BY <1>10, <1>a DEF removeEdge, Settled
    <2>2. PICK r \in edges[t] : missing \ {r} \subseteq missing' /\ r[1] = cur[t]
      BY <1>10, <1>f DEF removeEdge, Place
    <2>5. cur' = cur
      BY <1>10 DEF removeEdge
    <2>3. \A b, d \in Blobs : <<b, d>> \in missing => <<b, d>> \in missing' \/ Settled(b)'
      <3>1. ASSUME NEW b \in Blobs, NEW d \in Blobs, <<b, d>> \in missing, <<b, d>> \notin missing'
            PROVE  b = cur[t]
        BY <2>2, <3>1
      <3> QED BY <2>1, <3>1, <2>5 DEF Settled
    <2>o. Others(t)
      BY <1>10, <1>f, ReceiveOthers DEF Receive
    <2>4. acked' = acked /\ pc'[t] = "remove"
      BY <1>10, <1>f DEF removeEdge, TypeOK
    <2> QED BY <2>o, <2>1, <2>3, <2>4, TrackingFrame
  <1>11. ASSUME NEW t \in Threads, edgesRemoved(t) PROVE Tracking'
    <2>1. \A b \in acked' \ acked : Settled(b)'
      BY <1>11, <1>a DEF edgesRemoved, returnNil, Settled
    <2>o. Others(t)
      BY <1>11, <1>f, ReceiveOthers DEF Receive
    <2>2. missing' = missing /\ pc'[t] \in {"take", "idle"}
      BY <1>11, <1>f DEF edgesRemoved, returnNil, TypeOK
    <2> QED BY <2>o, <2>1, <2>2, TrackingFrame
  <1>12. CASE outOfOrderIndexerLoop
    <2>o. Others(Ooo)
      BY <1>12, <1>f, LoopOthers
    <2>1. UNCHANGED <<missing, acked>>
      BY <1>12 DEF outOfOrderIndexerLoop, WaitTickle, takeReady, indexBlob, indexBlobFails,
           retryLater
    <2>2. CASE indexBlob
      <3>1. \/ pc'[Ooo] = "populate"
            \/ pc'[Ooo] = "noteIndexed" /\ out'[Ooo] = "full" /\ Settled(cur[Ooo])'
        <4>1. \/ pc' = [pc EXCEPT ![Ooo] = "populate"]
              \/ /\ pc' = [pc EXCEPT ![Ooo] = "noteIndexed"] /\ out' = [out EXCEPT ![Ooo] = "full"]
                 /\ have[cur[Ooo]] = "indexed" /\ have' = have
          BY <2>2, Zenon DEF indexBlob, enterReceiveBlob
        <4>2. cur'[Ooo] = cur[Ooo]
          BY <2>2, <1>f DEF indexBlob, enterReceiveBlob, TypeOK
        <4> QED BY <4>1, <4>2, <1>f DEF TypeOK, Settled
      <3> QED BY <3>1, <2>o, <2>1, <1>f, TrackingFrame
    <2>3. CASE WaitTickle \/ takeReady \/ indexBlobFails \/ retryLater
      <3>1. pc'[Ooo] \in {"take", "wait", "fetch", "retry"}
        BY <2>3, <1>f DEF WaitTickle, takeReady, indexBlobFails, retryLater, returnErr, TypeOK
      <3> QED BY <3>1, <2>o, <2>1, <1>f, TrackingFrame
    <2> QED BY <1>12, <2>2, <2>3 DEF outOfOrderIndexerLoop
  <1>13. CASE Restart
    BY <1>13 DEF Restart, Start, Tracking, TrackedUntilIndexed, Settled, MissTracked
  <1>14. CASE UNCHANGED vars
    BY <1>14 DEF vars, Tracking, TrackedUntilIndexed, Settled, MissTracked
  <1> QED BY <1>1, <1>2, <1>3, <1>4, <1>5, <1>6, <1>7, <1>8, <1>9, <1>10, <1>11, <1>12, <1>13,
             <1>14, Zenon DEF Next, Receive

\* No "missing" row of an acknowledged blob is lost before the blob is indexed.
THEOREM MissesAreTracked == Spec => []TrackedUntilIndexed
  <1>1. Init => Tracking
    BY DEF Init, Tracking, TrackedUntilIndexed, Start, Threads, Committed, Missed
  <1>2. Tracking => TrackedUntilIndexed
    BY DEF Tracking
  <1> QED BY <1>1, <1>2, TrackingStep, FlowHolds, PTL DEF Spec

-----------------------------------------------------------------------------
\* What one thread's step must show to keep Memory.
LEMMA MemoryFrame ==
  ASSUME Flow, Memory, [Next]_vars, NEW t \in Threads, Others(t),
         \A b \in Blobs : Waiting(b) => Waiting(b)' \/ (cur'[Ooo] = b /\ pc'[Ooo] = "fetch"),
         cur[Ooo] \in Blobs =>
           cur'[Ooo] = cur[Ooo] \/ Settled(cur[Ooo]) \/ Waiting(cur[Ooo]),
         \A b \in acked' \ acked : Settled(b)' \/ Remembered(b)',
         Missed(t)' => \/ Settled(cur[t])' \/ Waiting(cur[t])'
                       \/ t # Ooo /\ cur'[Ooo] = cur'[t]
  PROVE  Memory'
  <1>t. TypeOK /\ \A u \in Threads : Place(u)
    BY DEF Flow
  <1>s. \A b \in Blobs : Settled(b) => Settled(b)'
    BY SettledStays
  <1>r. \A b \in Blobs : Remembered(b) => Settled(b)' \/ Remembered(b)'
    BY <1>s DEF Remembered, Waiting
  <1>1. NotForgotten'
    <2> SUFFICES ASSUME NEW b \in acked' PROVE Settled(b)' \/ Remembered(b)'
      BY DEF NotForgotten, Settled
    <2>1. CASE b \in acked
      <3>1. b \in Blobs /\ (Settled(b) \/ Remembered(b))
        BY <1>t, <2>1 DEF Memory, NotForgotten, Settled, TypeOK
      <3> QED BY <3>1, <1>s, <1>r
    <2> QED BY <2>1
  <1>2. ASSUME NEW u \in Threads, Missed(u)'
        PROVE  Settled(cur[u])' \/ Waiting(cur[u])' \/ (u # Ooo /\ cur'[Ooo] = cur'[u])
    <2>1. CASE u # t
      <3>1. Missed(u) /\ cur[u] \in Blobs /\ cur'[u] = cur[u]
        BY <1>2, <2>1, <1>t, ZenonT(30) DEF Missed, Others, Place, Inside
      <3>2. Settled(cur[u]) \/ Waiting(cur[u]) \/ (u # Ooo /\ cur[Ooo] = cur[u])
        BY <3>1 DEF Memory
      <3>3. CASE Settled(cur[u])
        BY <3>1, <3>3, <1>s DEF Settled
      <3>4. CASE Waiting(cur[u])
        <4>1. Waiting(cur[u])' \/ (cur'[Ooo] = cur[u] /\ u # Ooo)
          BY <1>2, <3>1, <3>4 DEF Missed, Waiting
        <4> QED BY <4>1, <3>1 DEF Waiting
      <3>5. CASE u # Ooo /\ cur[Ooo] = cur[u]
        <4>1. cur'[Ooo] = cur[u] \/ Settled(cur[u]) \/ Waiting(cur[u])
          BY <3>1, <3>5
        <4> QED BY <4>1, <3>1, <3>3, <3>4, <3>5
      <3> QED BY <3>2, <3>3, <3>4, <3>5
    <2> QED BY <1>2, <2>1
  <1> QED BY <1>1, <1>2 DEF Memory

\* A blob leaves needs or readyReindex only for readyReindex or for the hands of the
\* loop, and the loop lets go only of what is indexed or waits again.
LEMMA MemoryStep == Flow /\ Tracking /\ Memory /\ [Next]_vars => Memory'
  <1> SUFFICES ASSUME Flow, Tracking, Memory, [Next]_vars PROVE Memory'
    OBVIOUS
  <1> USE IndexAssumption DEF rows, maps, caches, local
  <1>f. TypeOK /\ (\A t \in Threads : Place(t)) /\ Ooo \in Threads /\ Receivers \subseteq Threads
    BY DEF Flow, Threads
  <1>n. NoBlob \notin Blobs
    OBVIOUS
  <1>a. ASSUME NEW t \in Threads, pc[t] \in {"edges", "remove"} PROVE Settled(cur[t])
    BY <1>a, <1>f DEF Tracking, Settled, Committed, Place, Inside
  <1>u. ASSUME NEW t \in Threads, Others(t), UNCHANGED <<needs, readyReindex, acked>>,
               cur'[Ooo] = cur[Ooo] \/ cur[Ooo] = NoBlob, ~Missed(t)'
        PROVE  Memory'
    BY <1>u, <1>n, MemoryFrame DEF Waiting
  <1>1. ASSUME NEW b \in Blobs, StoreBlob(b) PROVE Memory'
    BY <1>1 DEF StoreBlob, Memory, NotForgotten, Settled, Remembered, Waiting, Missed
  <1>2. ASSUME NEW t \in Receivers, NEW b \in Blobs, ReceiveBlob(t, b) PROVE Memory'
    <2>o. Others(t)
      BY <1>2, <1>f DEF ReceiveBlob, enterReceiveBlob, TypeOK, Others
    <2>1. /\ UNCHANGED <<needs, readyReindex, acked>> /\ cur'[Ooo] = cur[Ooo]
          /\ pc'[t] = "noteIndexed" => out'[t] = "full"
      BY <1>2, <1>f DEF ReceiveBlob, enterReceiveBlob, TypeOK
    <2> QED BY <2>o, <2>1, <1>f, <1>u DEF Missed
  <1>3. ASSUME NEW t \in Threads,
               \/ populateMiss(t) \/ populateFull(t) \/ populateDeleteClaim(t) \/ populateUnread(t)
               \/ receiveFails(t)
        PROVE  Memory'
    <2>o. Others(t)
      BY <1>3, <1>f, ReceiveOthers DEF Receive
    <2>1. /\ UNCHANGED <<needs, readyReindex, acked>> /\ cur'[Ooo] = cur[Ooo]
          /\ pc'[t] # "noteIndexed"
      BY <1>3, <1>f, ZenonT(30) DEF populateMiss, populateFull, populateDeleteClaim, populateUnread, receiveFails, returnErr,
           TypeOK
    <2> QED BY <2>o, <2>1, <1>u DEF Missed
  <1>4. ASSUME NEW t \in Threads,
               noteNeeded(t) \/ commit(t) \/ addBlob(t) \/ removeAllMissingEdges(t) \/ removeEdge(t)
        PROVE  Memory'
    <2>o. Others(t)
      BY <1>4, <1>f, ReceiveOthers DEF Receive
    <2>1. UNCHANGED <<needs, readyReindex, acked, cur>>
      BY <1>4 DEF noteNeeded, commit, addBlob, removeAllMissingEdges, removeEdge
    <2>2. ~Missed(t)'
      BY <1>4, <1>f, ZenonT(30) DEF noteNeeded, commit, addBlob, removeAllMissingEdges, removeEdge, TypeOK,
           Missed, Place
    <2> QED BY <2>o, <2>1, <2>2, <1>u
  <1>5. ASSUME NEW t \in Threads, noteNeededMemory(t) PROVE Memory'
    <2>o. Others(t)
      BY <1>5, <1>f, ReceiveOthers DEF Receive
    <2>0. cur[t] \in Blobs
      BY <1>5, <1>f DEF noteNeededMemory, Place, Inside
    <2>1. /\ needs' = [needs EXCEPT ![cur[t]] = @ \cup {miss[t]}]
          /\ UNCHANGED <<readyReindex, acked, cur>>
      BY <1>5 DEF noteNeededMemory
    <2>2. Waiting(cur[t])' /\ \A b \in Blobs : Waiting(b) => Waiting(b)'
      BY <2>0, <2>1, <1>f DEF Waiting, TypeOK
    <2> QED BY <2>o, <2>1, <2>2, MemoryFrame
  <1>6. ASSUME NEW t \in Threads, noteBlobIndexed(t) PROVE Memory'
    <2>o. Others(t)
      BY <1>6, <1>f, ReceiveOthers DEF Receive
    <2>0. cur[t] \in Blobs /\ pc[t] = "noteIndexed" /\ have' = have
      BY <1>6, <1>f DEF noteBlobIndexed, Place, Inside
    <2>1. /\ needs' = [b \in Blobs |-> IF b \in neededBy[cur[t]] THEN needs[b] \ {cur[t]} ELSE needs[b]]
          /\ readyReindex' = readyReindex \cup woken(cur[t])
      BY <1>6 DEF noteBlobIndexed, noteIndexed
    <2>2. \A b \in Blobs : Waiting(b) => Waiting(b)'
      BY <2>1 DEF Waiting, woken
    <2>3. CASE out[t] = "missed"
      <3>1. Settled(cur[t]) \/ Waiting(cur[t]) \/ (t # Ooo /\ cur[Ooo] = cur[t])
        BY <2>0, <2>3 DEF Memory, Missed
      <3>2. pc'[t] # "noteIndexed" /\ (t # Ooo => cur'[Ooo] = cur[Ooo])
        BY <1>6, <2>3, <1>f DEF noteBlobIndexed, returnNil, TypeOK
      <3>3. \A b \in acked' \ acked : b = cur[t] /\ t # Ooo
        BY <1>6, <2>3 DEF noteBlobIndexed, returnNil
      <3>4. t # Ooo => Settled(cur[t]) \/ Waiting(cur[t]) \/ cur'[Ooo] = cur[t]
        BY <3>1, <3>2
      <3>5. \A b \in acked' \ acked : Settled(b) \/ Waiting(b) \/ cur'[Ooo] = b
        BY <3>3, <3>4
      <3>6. \A b \in acked' \ acked : Settled(b)' \/ Remembered(b)'
        BY <2>0, <2>2, <3>3, <3>5 DEF Settled, Waiting, Remembered
      <3>7. cur'[Ooo] = cur[Ooo] \/ Settled(cur[Ooo]) \/ Waiting(cur[Ooo])
        BY <3>1, <3>2
      <3> QED BY <2>o, <2>2, <3>2, <3>6, <3>7, MemoryFrame DEF Missed
    <2>4. CASE out[t] # "missed"
      <3>1. UNCHANGED <<acked, cur>> /\ pc'[t] # "noteIndexed"
        BY <1>6, <2>4, <1>f DEF noteBlobIndexed, TypeOK
      <3> QED BY <2>o, <2>2, <3>1, MemoryFrame DEF Missed
    <2> QED BY <2>3, <2>4
  <1>7. ASSUME NEW t \in Threads, edgesRemoved(t) PROVE Memory'
    <2>o. Others(t)
      BY <1>7, <1>f, ReceiveOthers DEF Receive
    <2>0. Settled(cur[t]) /\ UNCHANGED <<have, needs, readyReindex>>
      BY <1>7, <1>a DEF edgesRemoved
    <2>1. (t # Ooo => cur'[Ooo] = cur[Ooo]) /\ pc'[t] \in {"take", "idle"}
      BY <1>7, <1>f DEF edgesRemoved, returnNil, TypeOK
    <2>2. \A b \in acked' \ acked : Settled(b)'
      BY <1>7, <2>0 DEF edgesRemoved, returnNil, Settled
    <2>3. cur'[Ooo] = cur[Ooo] \/ Settled(cur[Ooo])
      BY <2>0, <2>1
    <2>4. \A b \in Blobs : Waiting(b) => Waiting(b)'
      BY <2>0 DEF Waiting
    <2> QED BY <2>o, <2>1, <2>2, <2>3, <2>4, MemoryFrame DEF Missed
  <1>8. CASE WaitTickle \/ indexBlob \/ indexBlobFails
    <2>o. Others(Ooo)
      BY <1>8, <1>f, LoopOthers DEF outOfOrderIndexerLoop
    <2>1. UNCHANGED <<needs, readyReindex, acked>> /\ cur'[Ooo] = cur[Ooo]
      BY <1>8, <1>f DEF WaitTickle, indexBlob, indexBlobFails, enterReceiveBlob, returnErr, TypeOK
    <2>2. ~Missed(Ooo)'
      BY <1>8, <1>f DEF WaitTickle, indexBlob, indexBlobFails, enterReceiveBlob, returnErr, TypeOK,
           Missed
    <2> QED BY <2>o, <2>1, <2>2, <1>f, <1>u
  <1>9. CASE takeReady
    <2>o. Others(Ooo)
      BY <1>9, <1>f, LoopOthers DEF outOfOrderIndexerLoop
    <2>1. /\ cur[Ooo] = NoBlob /\ UNCHANGED <<needs, acked>> /\ pc'[Ooo] # "noteIndexed"
      BY <1>9, <1>f, ZenonT(30) DEF takeReady, TypeOK, Place
    <2>2. \A b \in Blobs : Waiting(b) => Waiting(b)' \/ (cur'[Ooo] = b /\ pc'[Ooo] = "fetch")
      BY <1>9, <1>f DEF takeReady, TypeOK, Waiting
    <2> QED BY <2>o, <2>1, <2>2, <1>f, <1>n, MemoryFrame DEF Missed
  <1>10. CASE retryLater
    <2>o. Others(Ooo)
      BY <1>10, <1>f, LoopOthers DEF outOfOrderIndexerLoop
    <2>1. UNCHANGED <<needs, acked, have>> /\ pc'[Ooo] # "noteIndexed"
          /\ readyReindex \subseteq readyReindex'
      BY <1>10, <1>f DEF retryLater, TypeOK
    <2>2. \A b \in Blobs : Waiting(b) => Waiting(b)'
      BY <2>1 DEF Waiting
    <2>3. Waiting(cur[Ooo]) \/ cur[Ooo] \in readyReindex'
      BY <1>10 DEF retryLater, Waiting
    <2>4. \A b \in acked' : Settled(b)' \/ Remembered(b)'
      <3>1. ASSUME NEW b \in acked' PROVE Settled(b)' \/ Remembered(b)'
        <4>1. b \in Blobs /\ (Settled(b) \/ Waiting(b) \/ cur[Ooo] = b)
          BY <2>1, <1>f DEF Memory, NotForgotten, Settled, Remembered, Waiting, TypeOK
        <4>2. Settled(b) => Settled(b)'
          BY <2>1 DEF Settled
        <4> QED BY <4>1, <4>2, <2>2, <2>3, <2>1 DEF Waiting, Remembered
      <3> QED BY <3>1
    <2>5. ASSUME NEW u \in Threads, Missed(u)'
          PROVE  Settled(cur[u])' \/ Waiting(cur[u])'
      <3>0. u # Ooo
        BY <2>1, <2>5 DEF Missed
      <3>1. Missed(u) /\ cur'[u] = cur[u] /\ cur[u] \in Blobs
        BY <2>o, <2>5, <3>0, <1>f, ZenonT(30) DEF Missed, Others, Place, Inside
      <3>2. Settled(cur[u]) \/ Waiting(cur[u]) \/ cur[Ooo] = cur[u]
        BY <3>1 DEF Memory
      <3> QED BY <3>1, <3>2, <2>1, <2>2, <2>3 DEF Settled, Waiting
    <2> QED BY <2>4, <2>5 DEF Memory, NotForgotten, Settled
  <1>11. CASE Restart
    <2>1. ASSUME NEW b \in acked' PROVE Settled(b)' \/ Remembered(b)'
      <3>1. b \in Blobs /\ (Settled(b) \/ MissTracked(b)) /\ (Settled(b) => Settled(b)')
        BY <1>11, <1>f DEF Restart, Tracking, TrackedUntilIndexed, Settled, TypeOK
      <3>2. MissTracked(b) => needs'[b] # {}
        BY <1>11, <3>1 DEF Restart, MissTracked
      <3> QED BY <3>1, <3>2 DEF Remembered
    <2>2. \A u \in Threads : ~Missed(u)'
      BY <1>11 DEF Restart, Start, Missed
    <2> QED BY <2>1, <2>2 DEF Memory, NotForgotten, Settled
  <1>12. CASE UNCHANGED vars
    BY <1>12 DEF vars, Memory, NotForgotten, Settled, Remembered, Waiting, Missed
  <1> QED BY <1>1, <1>2, <1>3, <1>4, <1>5, <1>6, <1>7, <1>8, <1>9, <1>10, <1>11, <1>12, Zenon
          DEF Next, Receive, outOfOrderIndexerLoop

\* The running index never forgets an acknowledged blob that still has to be
\* indexed: it waits for a need, is ready, or is in the loop's hands.
THEOREM NothingForgotten == Spec => []NotForgotten
  <1>1. Init => Tracking
    BY DEF Init, Tracking, TrackedUntilIndexed, Start, Threads, Committed, Missed
  <1>2. Init => Memory
    BY DEF Init, Memory, NotForgotten, Start, Threads, Missed
  <1>3. Memory => NotForgotten
    BY DEF Memory
  <1> QED BY <1>1, <1>2, <1>3, TrackingStep, MemoryStep, FlowHolds, PTL DEF Spec

\* Until New runs again, commit keeps the deletion cache complete.
THEOREM DeletesCached == Spec => []DeletesCacheComplete
  <1> USE DEF rows, maps, caches, local
  <1>1. Init => DeletesCacheComplete
    BY DEF Init, DeletesCacheComplete
  <1>2. DeletesCacheComplete /\ [Next]_vars /\ Flow => DeletesCacheComplete'
    <2> SUFFICES ASSUME DeletesCacheComplete, [Next]_vars, Flow PROVE DeletesCacheComplete'
      OBVIOUS
    <2>1. CASE Restart
      BY <2>1 DEF Restart, DeletesCacheComplete, Flow, TypeOK
    <2>2. ASSUME NEW t \in Threads, commit(t) PROVE DeletesCacheComplete'
      BY <2>2 DEF commit, DeletesCacheComplete
    <2>3. CASE UNCHANGED <<deleted, deletes, crashes>>
      BY <2>3 DEF DeletesCacheComplete
    <2> QED BY <2>1, <2>2, <2>3 DEF Next, StoreBlob, ReceiveBlob, Receive, populateMiss,
          populateFull, populateDeleteClaim, populateUnread, receiveFails, noteNeeded, noteNeededMemory, addBlob,
          noteBlobIndexed, removeAllMissingEdges, removeEdge, edgesRemoved,
          outOfOrderIndexerLoop, WaitTickle, takeReady, indexBlob, indexBlobFails, retryLater, vars
  <1> QED BY <1>1, <1>2, FlowHolds, PTL DEF Spec
=============================================================================
