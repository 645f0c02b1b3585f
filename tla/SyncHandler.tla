------------------------------ MODULE SyncHandler ------------------------------
(***************************************************************************)
(* pkg/server/sync.go: asynchronous replication of blobs from a source     *)
(* storage to a destination through a persistent queue.                    *)
(*                                                                         *)
(* Goroutines: the callers of enqueue (the receive hook of the source's    *)
(* hub, ReceiveBlob and the validation shards), the loop that calls        *)
(* runSync, the enumerator runSync starts, and its copyWorkers.  A region  *)
(* under sh.mu is one step; calls to the queue, to the source and to the   *)
(* destination are steps of their own.  Channels of distinct blobs are     *)
(* sets: nothing depends on their order.                                   *)
(***************************************************************************)
EXTENDS Integers, FiniteSets, Sequences, Functions

CONSTANTS
  Blobs,            \* the blob refs
  NoBlob,           \* "no blob in hand"
  Size,             \* the size of each blob
  Enqueuers,        \* goroutines that may be inside enqueue at once
  Workers,          \* copyWorker slots: copierPoolSize of them
  EnumCap,          \* capacity of enumch    (8 in the code)
  WorkCap,          \* capacity of workch    (1000)
  ResCap,           \* capacity of resch     (8)
  MaxBatch,         \* limit of one enumeration of needCopy (1000)
  MaxRecentErrors,  \* maxRecentErrors       (20)
  FullSyncOnStart,  \* the option of that name
  MaxCrashes        \* bound on the number of restarts explored

ASSUME SyncAssumption ==
  /\ NoBlob \notin Blobs
  /\ Size \in [Blobs -> Nat]
  /\ IsFiniteSet(Blobs) /\ IsFiniteSet(Workers)
  /\ EnumCap \in Nat /\ WorkCap \in Nat /\ ResCap \in Nat
  /\ MaxBatch \in Nat /\ MaxRecentErrors \in Nat \ {0}
  /\ FullSyncOnStart \in BOOLEAN
  /\ MaxCrashes \in Nat

VARIABLES
  source,       \* blobs stored at sh.from                     (durable)
  dest,         \* blobs stored at sh.to                       (durable)
  queue,        \* keys of sh.queue                            (durable)
  needCopy,     \* keys of sh.needCopy; the value is Size
  lastFail,     \* keys of sh.lastFail
  copying,      \* keys of sh.copying
  bytesRemain,
  recentErrors,
  epc, eblob,   \* where each enqueuer is, and the blob it holds
  mpc,          \* where the goroutine that calls runSync is
  mode,         \* which runSync: "queue", "full" (start-up), "loop" (syncLoop)
  toCopy, nRes, \* runSync's toCopy, and how many results it has taken
  copied,       \* nCopied > 0
  npc, toSend,  \* the enumerator goroutine and what it has yet to send
  enumch, enumClosed, workch, resOK, resErr,  \* the channels of runSync
  wpc, wblob,   \* where each copyWorker is, and the blob it copies
  crashes,      \* restarts so far
  durable,      \* history: blobs whose own queue.Set has succeeded
  acked         \* history: blobs for which enqueue has returned nil

durables == <<source, dest, queue>>
tables   == <<needCopy, lastFail, copying, bytesRemain, recentErrors>>
enqs     == <<epc, eblob>>
loop     == <<mpc, mode, toCopy, nRes, copied>>
enumr    == <<npc, toSend>>
chans    == <<enumch, enumClosed, workch, resOK, resErr>>
workers  == <<wpc, wblob>>
history  == <<crashes, durable, acked>>
vars     == <<durables, tables, enqs, loop, enumr, chans, workers, history>>

-----------------------------------------------------------------------------
SumSizes(S) == SumFunctionOnSet(Size, S)

\* The runSync that newSyncFromConfig starts first.
firstMode == IF FullSyncOnStart THEN "queue" ELSE "loop"

\* A first start, with an empty queue.  The source may already hold blobs.
Init ==
  /\ source \in SUBSET Blobs /\ dest = {} /\ queue = {}
  /\ needCopy = {} /\ bytesRemain = 0
  /\ lastFail = {} /\ copying = {} /\ recentErrors = <<>>
  /\ epc = [e \in Enqueuers |-> "idle"] /\ eblob = [e \in Enqueuers |-> NoBlob]
  /\ mpc = "begin" /\ mode = firstMode /\ toCopy = 0 /\ nRes = 0 /\ copied = FALSE
  /\ npc = "off" /\ toSend = {}
  /\ enumch = {} /\ enumClosed = FALSE /\ workch = {} /\ resOK = 0 /\ resErr = 0
  /\ wpc = [w \in Workers |-> "off"] /\ wblob = [w \in Workers |-> NoBlob]
  /\ crashes = 0 /\ durable = {} /\ acked = {}

-----------------------------------------------------------------------------
(* enqueue                                                                 *)

\* The source stores a blob, for the first time or again, and its hub then
\* calls the receive hook, sh.enqueue.
StoreBlob(e, b) ==
  /\ epc[e] = "idle"
  /\ source' = source \cup {b}
  /\ epc' = [epc EXCEPT ![e] = "add"]
  /\ eblob' = [eblob EXCEPT ![e] = b]
  /\ UNCHANGED <<dest, queue, tables, loop, enumr, chans, workers, history>>

\* Faulty variant: the duplicate test is missing.
addBlobToCopyNoDup(e) ==
  /\ epc[e] = "add"
  /\ needCopy' = needCopy \cup {eblob[e]}
  /\ bytesRemain' = bytesRemain + Size[eblob[e]]
  /\ mpc' = IF mpc = "sleep" THEN "begin" ELSE mpc
  /\ epc' = [epc EXCEPT ![e] = "set"]
  /\ UNCHANGED <<durables, lastFail, copying, recentErrors, eblob, mode, toCopy, nRes,
                 copied, enumr, chans, workers, history>>

\* addBlobToCopy, one region under sh.mu: a duplicate makes enqueue return
\* nil; otherwise the send on the unbuffered wakec succeeds only while
\* syncLoop is in its select.
addBlobToCopy(e) ==
  /\ epc[e] = "add"
  /\ LET b == eblob[e] IN
     IF b \in needCopy
     THEN /\ epc' = [epc EXCEPT ![e] = "idle"]
          /\ eblob' = [eblob EXCEPT ![e] = NoBlob]
          /\ acked' = acked \cup {b}
          /\ UNCHANGED <<needCopy, bytesRemain, mpc>>
     ELSE /\ needCopy' = needCopy \cup {b}
          /\ bytesRemain' = bytesRemain + Size[b]
          /\ mpc' = IF mpc = "sleep" THEN "begin" ELSE mpc
          /\ epc' = [epc EXCEPT ![e] = "set"]
          /\ UNCHANGED <<eblob, acked>>
  /\ UNCHANGED <<durables, lastFail, copying, recentErrors, mode, toCopy, nRes,
                 copied, enumr, chans, workers, crashes, durable>>

\* The second half of enqueue: the row is written and enqueue returns nil ...
enqueueSet(e) ==
  /\ epc[e] = "set"
  /\ queue' = queue \cup {eblob[e]}
  /\ durable' = durable \cup {eblob[e]}
  /\ acked' = acked \cup {eblob[e]}
  /\ epc' = [epc EXCEPT ![e] = "idle"]
  /\ eblob' = [eblob EXCEPT ![e] = NoBlob]
  /\ UNCHANGED <<source, dest, tables, loop, enumr, chans, workers, crashes>>

\* ... or queue.Set fails and enqueue returns the error; needCopy keeps the blob.
enqueueSetFails(e) ==
  /\ epc[e] = "set"
  /\ epc' = [epc EXCEPT ![e] = "idle"]
  /\ eblob' = [eblob EXCEPT ![e] = NoBlob]
  /\ UNCHANGED <<durables, tables, loop, enumr, chans, workers, history>>

-----------------------------------------------------------------------------
(* The enumerator goroutine of runSync                                     *)

\* Faulty variant: blobs that have failed are not tried again.
enumeratePendingBlobsNoRetry ==
  /\ npc = "start" /\ mode # "full"
  /\ toSend' = needCopy \ lastFail
  /\ npc' = "send"
  /\ UNCHANGED <<durables, tables, enqs, loop, chans, workers, history>>

\* enumeratePendingBlobs takes at most MaxBatch blobs of needCopy under the
\* lock; map iteration may yield any of them.
enumeratePendingBlobs ==
  /\ npc = "start" /\ mode # "full"
  /\ \E S \in SUBSET needCopy :
       /\ \/ S = needCopy /\ Cardinality(S) <= MaxBatch
          \/ Cardinality(S) = MaxBatch
       /\ toSend' = S
  /\ npc' = "send"
  /\ UNCHANGED <<durables, tables, enqs, loop, chans, workers, history>>

\* blobserverEnumerator: EnumerateAll over the source.
blobserverEnumerator ==
  /\ npc = "start" /\ mode = "full"
  /\ toSend' = source
  /\ npc' = "send"
  /\ UNCHANGED <<durables, tables, enqs, loop, chans, workers, history>>

\* dst <- sb.  The other case of the select, <-intr, is never ready: runSync
\* closes intr when it returns, and it returns after it has received errch.
EnumSend ==
  /\ npc = "send" /\ Cardinality(enumch) < EnumCap
  /\ \E b \in toSend :
       /\ toSend' = toSend \ {b}
       /\ enumch' = enumch \cup {b}
  /\ UNCHANGED <<durables, tables, enqs, loop, npc, enumClosed, workch, resOK, resErr,
                 workers, history>>

\* The enumerator returns, its result in errch.  enumeratePendingBlobs closes
\* dst; blobserverEnumerator does not.
EnumReturn ==
  /\ npc = "send" /\ toSend = {}
  /\ npc' = "done"
  /\ enumClosed' = (mode # "full")
  /\ UNCHANGED <<durables, tables, enqs, loop, toSend, enumch, workch, resOK, resErr,
                 workers, history>>

-----------------------------------------------------------------------------
(* runSync, and the goroutine of newSyncFromConfig that calls it           *)

runSyncBegin ==
  /\ mpc = "begin"
  /\ mpc' = "feed" /\ toCopy' = 0 /\ nRes' = 0 /\ copied' = FALSE
  /\ npc' = "start"
  /\ enumClosed' = FALSE
  /\ UNCHANGED <<durables, tables, enqs, mode, toSend, enumch, workch, resOK, resErr,
                 workers, history>>

\* Faulty variant: the blob dropped on a full workch is counted.
runSyncFeedCountsDropped ==
  /\ mpc = "feed"
  /\ \E b \in enumch :
       /\ enumch' = enumch \ {b}
       /\ IF Cardinality(workch) < WorkCap
          THEN workch' = workch \cup {b} /\ mpc' = mpc
          ELSE workch' = workch /\ mpc' = "collect"
  /\ toCopy' = toCopy + 1
  /\ IF toCopy < Cardinality(Workers)
     THEN \E w \in Workers : wpc[w] = "off" /\ wpc' = [wpc EXCEPT ![w] = "ready"]
     ELSE wpc' = wpc
  /\ UNCHANGED <<durables, tables, enqs, mode, nRes, copied, enumr, enumClosed,
                 resOK, resErr, wblob, history>>

\* One turn of the FeedWork loop: a worker is started while toCopy is below
\* the pool size; a full workch ends the loop and drops the blob in hand.
runSyncFeed ==
  /\ mpc = "feed"
  /\ \E b \in enumch :
       /\ enumch' = enumch \ {b}
       /\ IF Cardinality(workch) < WorkCap
          THEN workch' = workch \cup {b} /\ toCopy' = toCopy + 1 /\ mpc' = mpc
          ELSE mpc' = "collect" /\ UNCHANGED <<workch, toCopy>>
  /\ IF toCopy < Cardinality(Workers)
     THEN \E w \in Workers : wpc[w] = "off" /\ wpc' = [wpc EXCEPT ![w] = "ready"]
     ELSE wpc' = wpc
  /\ UNCHANGED <<durables, tables, enqs, mode, nRes, copied, enumr, enumClosed,
                 resOK, resErr, wblob, history>>

\* range enumch ends once the channel is closed and empty; workch is closed.
runSyncFed ==
  /\ mpc = "feed" /\ enumClosed /\ enumch = {}
  /\ mpc' = "collect"
  /\ UNCHANGED <<durables, tables, enqs, mode, toCopy, nRes, copied, enumr, chans,
                 workers, history>>

runSyncCollect ==
  /\ mpc = "collect" /\ nRes < toCopy
  /\ nRes' = nRes + 1
  /\ \/ resOK > 0 /\ resOK' = resOK - 1 /\ copied' = TRUE /\ resErr' = resErr
     \/ resErr > 0 /\ resErr' = resErr - 1 /\ UNCHANGED <<copied, resOK>>
  /\ UNCHANGED <<durables, tables, enqs, mpc, mode, toCopy, enumr, enumch, enumClosed,
                 workch, workers, history>>

\* What newSyncFromConfig's goroutine runs next: the queue until a sync copies
\* nothing, the full sync once, then syncLoop.
nextMode == IF mode = "queue" /\ ~copied THEN "full"
            ELSE IF mode = "full" THEN "loop" ELSE mode

\* Faulty variant: runSync returns without waiting for its results, and the
\* workers it started go on with the next run.
runSyncReturnEarly ==
  /\ mpc = "collect" /\ npc = "done"
  /\ npc' = "off"
  /\ mode' = nextMode
  /\ mpc' = IF mode = "loop" /\ ~copied THEN "sleep" ELSE "begin"
  /\ enumch' = {}
  /\ UNCHANGED <<durables, tables, enqs, toCopy, nRes, copied, toSend, enumClosed, workch,
                 resOK, resErr, workers, history>>

\* All results are in: runSync receives errch and returns nCopied.  The
\* workers find workch closed and empty and exit.  syncLoop sleeps when a run
\* has copied nothing.
runSyncReturn ==
  /\ mpc = "collect" /\ nRes = toCopy /\ npc = "done"
  /\ npc' = "off"
  /\ mode' = nextMode
  /\ mpc' = IF mode = "loop" /\ ~copied THEN "sleep" ELSE "begin"
  /\ wpc' = [w \in Workers |-> "off"]
  /\ enumch' = {}
  /\ UNCHANGED <<durables, tables, enqs, toCopy, nRes, copied, toSend, enumClosed, workch,
                 resOK, resErr, wblob, history>>

\* syncLoop's timer fires (wakec is in addBlobToCopy).
syncLoopTimer ==
  /\ mpc = "sleep"
  /\ mpc' = "begin"
  /\ UNCHANGED <<durables, tables, enqs, mode, toCopy, nRes, copied, enumr, chans,
                 workers, history>>

-----------------------------------------------------------------------------
(* copyWorker                                                              *)

\* A worker receives from workch; copyBlob enters the blob in sh.copying.
copyWorkerTake(w) ==
  /\ wpc[w] = "ready"
  /\ \E b \in workch :
       /\ workch' = workch \ {b}
       /\ copying' = copying \cup {b}
       /\ wblob' = [wblob EXCEPT ![w] = b]
  /\ wpc' = [wpc EXCEPT ![w] = "copy"]
  /\ UNCHANGED <<durables, needCopy, lastFail, bytesRemain, recentErrors, enqs, loop, enumr,
                 enumch, enumClosed, resOK, resErr, history>>

\* The source has the blob, the bytes match their digest and the destination
\* acknowledges the whole of it.
copyBlob(w) ==
  /\ wpc[w] = "copy"
  /\ wblob[w] \in source
  /\ dest' = dest \cup {wblob[w]}
  /\ wpc' = [wpc EXCEPT ![w] = "delete"]
  /\ UNCHANGED <<source, queue, tables, enqs, loop, enumr, chans, wblob, history>>

\* Faulty variant: an error of the copy is lost on the way to setError.
copyBlobFailsUnnoticed(w) ==
  /\ wpc[w] = "copy"
  /\ wpc' = [wpc EXCEPT ![w] = "delete"]
  /\ UNCHANGED <<durables, tables, enqs, loop, enumr, chans, wblob, history>>

\* Any of copyBlob's error returns.  The destination may have stored the blob
\* all the same (an error after the write, a size mismatch).
copyBlobFails(w) ==
  /\ wpc[w] = "copy"
  /\ \/ dest' = dest
     \/ wblob[w] \in source /\ dest' = dest \cup {wblob[w]}
  /\ wpc' = [wpc EXCEPT ![w] = "failed"]
  /\ UNCHANGED <<source, queue, tables, enqs, loop, enumr, chans, wblob, history>>

\* setError(nil) deletes the row before it takes the lock; an error of Delete
\* is only logged.
setErrorDelete(w) ==
  /\ wpc[w] = "delete"
  /\ queue' \in {queue \ {wblob[w]}, queue}
  /\ wpc' = [wpc EXCEPT ![w] = "succeeded"]
  /\ UNCHANGED <<source, dest, tables, enqs, loop, enumr, chans, wblob, history>>

\* Faulty variant: the list is never cut.
noteRecentErrorUncut(r, b) == Append(r, b)

\* The append to recentErrors, and what happens when it is full:
\* copy(r[1:], r) shifts every entry one place up, r[:max-1] drops the last,
\* and the new entry goes at the end.
noteRecentError(r, b) ==
  LET n == MaxRecentErrors IN
  Append(IF Len(r) = n
         THEN [i \in 1..(n - 1) |-> IF i = 1 THEN r[1] ELSE r[i - 1]]
         ELSE r, b)

\* Faulty variant: no test for a duplicate upload.
setErrorNoDupTest(w) ==
  /\ wpc[w] \in {"succeeded", "failed"}
  /\ copying' = copying \ {wblob[w]}
  /\ IF wpc[w] = "succeeded"
     THEN /\ needCopy' = needCopy \ {wblob[w]}
          /\ lastFail' = lastFail \ {wblob[w]}
          /\ bytesRemain' = bytesRemain - Size[wblob[w]]
          /\ recentErrors' = recentErrors
     ELSE /\ lastFail' = lastFail \cup {wblob[w]}
          /\ recentErrors' = noteRecentError(recentErrors, wblob[w])
          /\ UNCHANGED <<needCopy, bytesRemain>>
  /\ wpc' = [wpc EXCEPT ![w] = IF @ = "succeeded" THEN "sendOK" ELSE "sendErr"]
  /\ UNCHANGED <<durables, enqs, loop, enumr, chans, wblob, history>>

\* Faulty variant: only a success clears the tables, and it forgets lastFail.
setErrorLeaves(w) ==
  /\ wpc[w] \in {"succeeded", "failed"}
  /\ LET b == wblob[w] IN
     IF b \in needCopy /\ wpc[w] = "succeeded"
     THEN /\ copying' = copying \ {b}
          /\ needCopy' = needCopy \ {b}
          /\ bytesRemain' = bytesRemain - Size[b]
          /\ UNCHANGED <<lastFail, recentErrors>>
     ELSE /\ lastFail' = lastFail \cup ({b} \cap needCopy)
          /\ UNCHANGED <<copying, needCopy, bytesRemain, recentErrors>>
  /\ wpc' = [wpc EXCEPT ![w] = IF @ = "succeeded" THEN "sendOK" ELSE "sendErr"]
  /\ UNCHANGED <<durables, enqs, loop, enumr, chans, wblob, history>>

\* setError, the region under sh.mu.
setError(w) ==
  /\ wpc[w] \in {"succeeded", "failed"}
  /\ LET b == wblob[w] IN
     IF b \notin needCopy
     THEN UNCHANGED tables             \* "IGNORING DUPLICATE UPLOAD"
     ELSE /\ copying' = copying \ {b}
          /\ IF wpc[w] = "succeeded"
             THEN /\ needCopy' = needCopy \ {b}
                  /\ lastFail' = lastFail \ {b}
                  /\ bytesRemain' = bytesRemain - Size[b]
                  /\ recentErrors' = recentErrors
             ELSE /\ lastFail' = lastFail \cup {b}
                  /\ recentErrors' = noteRecentError(recentErrors, b)
                  /\ UNCHANGED <<needCopy, bytesRemain>>
  /\ wpc' = [wpc EXCEPT ![w] = IF @ = "succeeded" THEN "sendOK" ELSE "sendErr"]
  /\ UNCHANGED <<durables, enqs, loop, enumr, chans, wblob, history>>

\* Faulty variant: only successful copies report a result.
copyWorkerSendSuccess(w) ==
  /\ wpc[w] \in {"sendOK", "sendErr"}
  /\ resOK + resErr < ResCap
  /\ resOK' = resOK + (IF wpc[w] = "sendOK" THEN 1 ELSE 0)
  /\ wpc' = [wpc EXCEPT ![w] = "ready"]
  /\ wblob' = [wblob EXCEPT ![w] = NoBlob]
  /\ UNCHANGED <<durables, tables, enqs, loop, enumr, enumch, enumClosed, workch, resErr,
                 history>>

\* res <- copyResult{...}
copyWorkerSend(w) ==
  /\ wpc[w] \in {"sendOK", "sendErr"}
  /\ resOK + resErr < ResCap
  /\ IF wpc[w] = "sendOK"
     THEN resOK' = resOK + 1 /\ resErr' = resErr
     ELSE resErr' = resErr + 1 /\ resOK' = resOK
  /\ wpc' = [wpc EXCEPT ![w] = "ready"]
  /\ wblob' = [wblob EXCEPT ![w] = NoBlob]
  /\ UNCHANGED <<durables, tables, enqs, loop, enumr, enumch, enumClosed, workch, history>>

-----------------------------------------------------------------------------
\* Faulty variant: the queue is not read at start-up.
readNothingToMemory == {}

\* The rows of the queue, each given to addBlobToCopy before anything else runs.
readQueueToMemory == queue

\* The server stops at any point and newSyncFromConfig runs again: memory is
\* lost, what the storages and the queue hold is not.
Restart ==
  /\ crashes < MaxCrashes
  /\ crashes' = crashes + 1
  /\ needCopy' = readQueueToMemory /\ bytesRemain' = SumSizes(readQueueToMemory)
  /\ lastFail' = {} /\ copying' = {} /\ recentErrors' = <<>>
  /\ epc' = [e \in Enqueuers |-> "idle"] /\ eblob' = [e \in Enqueuers |-> NoBlob]
  /\ mpc' = "begin" /\ mode' = firstMode /\ toCopy' = 0 /\ nRes' = 0 /\ copied' = FALSE
  /\ npc' = "off" /\ toSend' = {}
  /\ enumch' = {} /\ enumClosed' = FALSE /\ workch' = {} /\ resOK' = 0 /\ resErr' = 0
  /\ wpc' = [w \in Workers |-> "off"] /\ wblob' = [w \in Workers |-> NoBlob]
  /\ UNCHANGED <<durables, durable, acked>>

Enqueue(e) == (\E b \in Blobs : StoreBlob(e, b))
              \/ addBlobToCopy(e) \/ enqueueSet(e) \/ enqueueSetFails(e)
Enumerator == enumeratePendingBlobs \/ blobserverEnumerator \/ EnumSend \/ EnumReturn
RunSync    == runSyncBegin \/ runSyncFeed \/ runSyncFed \/ runSyncCollect
              \/ runSyncReturn \/ syncLoopTimer
Worker(w)  == copyWorkerTake(w) \/ copyBlob(w) \/ copyBlobFails(w) \/ setErrorDelete(w)
              \/ setError(w) \/ copyWorkerSend(w)

Next ==
  \/ \E e \in Enqueuers : Enqueue(e)
  \/ Enumerator
  \/ RunSync
  \/ \E w \in Workers : Worker(w)
  \/ Restart

Spec == Init /\ [][Next]_vars

\* The scheduler runs every goroutine that can take a step, the timer of
\* syncLoop fires, and the copy of a blob that is tried for ever succeeds at last.
Fairness ==
  /\ WF_vars(Enumerator)
  /\ WF_vars(RunSync)
  /\ \A w \in Workers : WF_vars(Worker(w))
  /\ \A b \in Blobs : SF_vars(\E w \in Workers : wblob[w] = b /\ copyBlob(w))

FairSpec == Spec /\ Fairness

-----------------------------------------------------------------------------
(* Properties                                                              *)

Q == INSTANCE DurableQueue WITH Items <- Blobs, pending <- queue, delivered <- dest

\* Every variable keeps its type, and setError keeps recentErrors within
\* maxRecentErrors (bytesRemain is in BytesRemainIsSum).
TypeOK ==
  /\ source \subseteq Blobs /\ dest \subseteq Blobs /\ queue \subseteq Blobs
  /\ needCopy \subseteq Blobs /\ lastFail \subseteq Blobs /\ copying \subseteq Blobs
  /\ recentErrors \in Seq(Blobs) /\ Len(recentErrors) <= MaxRecentErrors
  /\ epc \in [Enqueuers -> {"idle", "add", "set"}]
  /\ eblob \in [Enqueuers -> Blobs \cup {NoBlob}]
  /\ mpc \in {"begin", "feed", "collect", "sleep"}
  /\ mode \in {"queue", "full", "loop"}
  /\ toCopy \in Nat /\ nRes \in Nat /\ copied \in BOOLEAN
  /\ npc \in {"off", "start", "send", "done"}
  /\ toSend \subseteq Blobs /\ enumch \subseteq Blobs /\ workch \subseteq Blobs
  /\ enumClosed \in BOOLEAN /\ resOK \in Nat /\ resErr \in Nat
  /\ wpc \in [Workers -> {"off", "ready", "copy", "delete", "succeeded", "failed",
                          "sendOK", "sendErr"}]
  /\ wblob \in [Workers -> Blobs \cup {NoBlob}]
  /\ crashes \in 0..MaxCrashes
  /\ durable \subseteq Blobs /\ acked \subseteq Blobs

\* bytesRemain is "sum of needCopy values", so never negative, whatever the order
\* in which uploads, copies and restarts interleave.
BytesRemainIsSum == bytesRemain = SumSizes(needCopy)

\* lastFail is the "subset of needCopy that previously failed": a blob that has
\* been copied leaves both.
LastFailSubset == lastFail \subseteq needCopy

\* A blob whose row was written by enqueue is at the destination or still has
\* its row: neither a copy racing the write nor a crash between any two steps
\* loses it.
DurableNotLost == durable \subseteq dest \cup queue

\* Every row of the persistent queue is known to the running handler or
\* describes a blob that has been copied: nothing waits for a restart.
QueueRowsPending == queue \subseteq needCopy \cup dest

\* Worker w is inside copyBlob; it holds a blob until it has sent the result.
Busy(w) == wpc[w] \in {"copy", "delete", "succeeded", "failed"}
Held(w) == wpc[w] \in {"copy", "delete", "succeeded", "failed", "sendOK", "sendErr"}

\* Two workers never copy the same blob at the same time: runSync collects
\* every result before it can enumerate a blob again.
NoBlobCopiedTwiceAtOnce ==
  \A v, w \in Workers : Busy(v) /\ Busy(w) /\ wblob[v] = wblob[w] => v = w

\* sh.copying, the "Currently Copying" list of the status page, holds exactly
\* the blobs between the start of copyBlob and the end of setError.
CopyingAccurate == copying = {wblob[w] : w \in {v \in Workers : Busy(v)}}

\* runSync waits for toCopy results: each blob it has fed is in workch, with a
\* worker, or a result not yet taken, so that the wait ends.
EveryFedBlobYieldsAResult ==
  mpc \in {"feed", "collect"} =>
    toCopy = nRes + Cardinality(workch) + resOK + resErr
             + Cardinality({w \in Workers : Held(w)})

\* The handler implements a durable queue: rows appear when a blob is accepted
\* and are dropped only for blobs that have been delivered.
ImplementsDurableQueue == Q!Spec

\* A blob recorded for copying reaches the destination, if copies that are
\* retried succeed at last; a restart hands the duty to the rows of the queue.
PendingEventuallyCopied ==
  \A b \in Blobs : (b \in needCopy /\ (crashes = MaxCrashes \/ b \in queue)) ~> b \in dest

\* What the comment on readQueueToMemory promises ("The point of the persistent
\* queue is to survive restarts"): a blob whose enqueue returned nil is at the
\* destination or has a row.
AckedIsDurable == acked \subseteq dest \cup queue

\* What the comment on readQueueToMemory says of fullSyncOnStart, "we'd figure
\* out what's missing eventually": every blob of the source is copied.
FullSyncCopiesAll == \A b \in Blobs : b \in source ~> b \in dest
=============================================================================
