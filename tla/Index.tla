--------------------------------- MODULE Index ---------------------------------
(***************************************************************************)
(* pkg/index: Index.ReceiveBlob, the bookkeeping of blobs that arrive      *)
(* before the blobs they need, and the loop that indexes those again.      *)
(*                                                                         *)
(* Several threads may be inside ReceiveBlob at once (the two halves of a  *)
(* replicated upload, the workers of the sync handler) and the             *)
(* out-of-order loop is one more.  A read or write of the index storage, a *)
(* read of the blob source and a region under ix.mu are one step each.     *)
(* Rows are abstracted to what decides what is indexed and what is         *)
(* deleted: "have:" (with "meta:", written in the same batch), "missing"   *)
(* and "deleted" rows.                                                     *)
(***************************************************************************)
EXTENDS Naturals

CONSTANTS
  Blobs, NoBlob,
  Kind,         \* "data", "permanode", "file", "directory", "claim" or "delete"
  Deps,         \* the blobs that indexing must fetch: parts, static set, public key
  Target,       \* the target of a delete claim
  Receivers,    \* threads that call ReceiveBlob for new blobs
  Ooo,          \* the thread of outOfOrderIndexerLoop
  HasCorpus,    \* KeepInMemory was called
  SourceFirst,  \* the index gets a blob after the blob source has it (sync), or
                \* while it is being stored there (replica)
  Failures,     \* storage calls may fail
  MaxCrashes    \* bound on the number of restarts explored

Kinds   == {"data", "permanode", "file", "directory", "claim", "delete"}
Threads == Receivers \cup {Ooo}
None    == [b \in Blobs |-> {}]

ASSUME IndexAssumption ==
  /\ NoBlob \notin Blobs /\ Ooo \notin Receivers
  /\ Kind \in [Blobs -> Kinds]
  /\ Deps \in [Blobs -> SUBSET Blobs]
  /\ Target \in [Blobs -> Blobs \cup {NoBlob}]
  /\ \A b \in Blobs : Kind[b] \in {"data", "permanode"} => Deps[b] = {}
  /\ \A b \in Blobs : Kind[b] = "delete" <=> Target[b] \in Blobs
  /\ HasCorpus \in BOOLEAN /\ SourceFirst \in BOOLEAN /\ Failures \in BOOLEAN
  /\ MaxCrashes \in Nat

VARIABLES
  source,           \* blobs in ix.blobSource                        (durable)
  have,             \* the "have:" row of each blob                  (durable)
  missing,          \* "missing" rows, <<blob, what it needs>>       (durable)
  deleted,          \* "deleted" rows, <<target, delete claim>>      (durable)
  needs, neededBy,
  readyReindex,
  tickleOoo,        \* the channel of capacity one holds a value
  deletes,          \* the deletion cache, <<target, delete claim>>
  corpus,           \* keys of corpus.blobs
  corpusDeletes,    \* corpus.deletes, <<target, delete claim>>
  pc, cur,          \* where each thread is, and the blob it indexes
  out,              \* what populateMutationMap returned to it
  miss,             \* the blob it found missing
  edges,            \* the rows removeAllMissingEdges has yet to delete
  acked,            \* history: blobs whose ReceiveBlob returned nil
  crashes           \* restarts so far

rows   == <<have, missing, deleted>>
maps   == <<needs, neededBy, readyReindex, tickleOoo>>
caches == <<deletes, corpus, corpusDeletes>>
local  == <<pc, cur, out, miss, edges>>
vars   == <<source, rows, maps, caches, local, acked, crashes>>

-----------------------------------------------------------------------------
Start(t) == IF t = Ooo THEN "wait" ELSE "idle"

Init ==
  /\ source = {} /\ missing = {} /\ deleted = {}
  /\ have = [b \in Blobs |-> "none"]
  /\ needs = None /\ neededBy = None /\ readyReindex = {} /\ tickleOoo = FALSE
  /\ deletes = {} /\ corpus = {} /\ corpusDeletes = {}
  /\ pc = [t \in Threads |-> Start(t)] /\ cur = [t \in Threads |-> NoBlob]
  /\ out = [t \in Threads |-> "none"] /\ miss = [t \in Threads |-> NoBlob]
  /\ edges = [t \in Threads |-> {}]
  /\ acked = {} /\ crashes = 0

\* The blob source stores a blob.
StoreBlob(b) ==
  /\ b \notin source
  /\ source' = source \cup {b}
  /\ UNCHANGED <<rows, maps, caches, local, acked, crashes>>

\* Thread t has b in hand and reads its "have:" row: a blob that is indexed
\* already goes straight to the deferred function; a failed read counts as no row.
enterReceiveBlob(t, b) ==
  /\ cur' = [cur EXCEPT ![t] = b]
  /\ miss' = miss
  /\ \/ /\ have[b] = "indexed"
        /\ pc' = [pc EXCEPT ![t] = "noteIndexed"] /\ out' = [out EXCEPT ![t] = "full"]
     \/ /\ have[b] # "indexed" \/ Failures
        /\ pc' = [pc EXCEPT ![t] = "populate"] /\ out' = out

ReceiveBlob(t, b) ==
  /\ pc[t] = "idle" /\ t # Ooo
  /\ SourceFirst => b \in source
  /\ enterReceiveBlob(t, b)
  /\ UNCHANGED <<source, rows, maps, caches, edges, acked, crashes>>

\* ReceiveBlob returns nil to its caller: an upload is acknowledged, the
\* out-of-order loop goes on.
returnNil(t) ==
  /\ pc' = [pc EXCEPT ![t] = IF t = Ooo THEN "take" ELSE "idle"]
  /\ cur' = [cur EXCEPT ![t] = NoBlob]
  /\ out' = [out EXCEPT ![t] = "none"]
  /\ miss' = [miss EXCEPT ![t] = NoBlob]
  /\ acked' = IF t = Ooo THEN acked ELSE acked \cup {cur[t]}

\* ReceiveBlob returns an error; the deferred function does nothing.
returnErr(t) ==
  /\ pc' = [pc EXCEPT ![t] = IF t = Ooo THEN "retry" ELSE "idle"]
  /\ cur' = IF t = Ooo THEN cur ELSE [cur EXCEPT ![t] = NoBlob]
  /\ out' = [out EXCEPT ![t] = "none"]
  /\ miss' = [miss EXCEPT ![t] = NoBlob]

-----------------------------------------------------------------------------
(* populateMutationMap                                                     *)

\* GetBlobMeta finds the blob: in the corpus if there is one, else in its row.
hasMeta(b) == IF HasCorpus THEN b \in corpus ELSE have[b] # "none"

\* A fetch misses: the reader of a file, or the verification of a claim,
\* returns errMissingDep with the blob in fetcher.missing.
populateMiss(t) ==
  /\ pc[t] = "populate" /\ Kind[cur[t]] # "directory"
  /\ \E d \in Deps[cur[t]] \ source : miss' = [miss EXCEPT ![t] = d]
  /\ out' = [out EXCEPT ![t] = "missed"]
  /\ pc' = [pc EXCEPT ![t] = "noteRow"]
  /\ UNCHANGED <<source, rows, maps, caches, cur, edges, acked, crashes>>

\* Faulty variant: a miss is swallowed, as populateDir does.
populateFullSwallows(t) ==
  /\ pc[t] = "populate"
  /\ out' = [out EXCEPT ![t] = "full"]
  /\ pc' = [pc EXCEPT ![t] = "commit"]
  /\ UNCHANGED <<source, rows, maps, caches, cur, miss, edges, acked, crashes>>

\* Everything is there (populateDir also swallows its misses).
populateFull(t) ==
  /\ pc[t] = "populate"
  /\ Kind[cur[t]] = "directory" \/ Deps[cur[t]] \subseteq source
  /\ Kind[cur[t]] = "delete" => hasMeta(Target[cur[t]])
  /\ out' = [out EXCEPT ![t] = "full"]
  /\ pc' = [pc EXCEPT ![t] = "commit"]
  /\ UNCHANGED <<source, rows, maps, caches, cur, miss, edges, acked, crashes>>

\* A delete claim whose target has no meta row: populateDeleteClaim notes the
\* need itself, and populateMutationMap then returns a nil error.
populateDeleteClaim(t) ==
  /\ pc[t] = "populate"
  /\ Kind[cur[t]] = "delete" /\ Deps[cur[t]] \subseteq source
  /\ ~hasMeta(Target[cur[t]])
  /\ miss' = [miss EXCEPT ![t] = Target[cur[t]]]
  /\ out' = [out EXCEPT ![t] = "partial"]
  /\ pc' = [pc EXCEPT ![t] = "noteRow"]
  /\ UNCHANGED <<source, rows, maps, caches, cur, edges, acked, crashes>>

\* GetBlobMeta fails to read the row of the target (the corpus never fails): that
\* is only logged, and the claim counts as indexed.
populateUnread(t) ==
  /\ Failures /\ ~HasCorpus
  /\ pc[t] = "populate"
  /\ Kind[cur[t]] = "delete" /\ Deps[cur[t]] \subseteq source
  /\ out' = [out EXCEPT ![t] = "unread"]
  /\ pc' = [pc EXCEPT ![t] = "commit"]
  /\ UNCHANGED <<source, rows, maps, caches, cur, miss, edges, acked, crashes>>

\* Any other error of populateMutationMap, a failed Set of noteNeeded, or a
\* failed CommitBatch: ReceiveBlob returns an error and has changed nothing.
receiveFails(t) ==
  /\ Failures
  /\ pc[t] \in {"populate", "noteRow", "commit"}
  /\ returnErr(t)
  /\ UNCHANGED <<source, rows, maps, caches, edges, acked, crashes>>

\* noteNeeded: the row first ...
noteNeeded(t) ==
  /\ pc[t] = "noteRow"
  /\ missing' = missing \cup {<<cur[t], miss[t]>>}
  /\ pc' = [pc EXCEPT ![t] = "noteMemory"]
  /\ UNCHANGED <<source, have, deleted, maps, caches, cur, out, miss, edges, acked, crashes>>

\* Faulty variant: only the blob itself remembers what it needs.
noteNeededMemoryOneWay(t) ==
  /\ pc[t] = "noteMemory"
  /\ needs' = [needs EXCEPT ![cur[t]] = @ \cup {miss[t]}]
  /\ pc' = [pc EXCEPT ![t] = IF out[t] = "missed" THEN "noteIndexed" ELSE "commit"]
  /\ UNCHANGED <<source, rows, neededBy, readyReindex, tickleOoo, caches, cur, out, miss, edges,
                 acked, crashes>>

\* ... then the maps, under ix.mu.  A missed fetch leaves ReceiveBlob with a nil
\* error; a delete claim goes on to commit what it has.
noteNeededMemory(t) ==
  /\ pc[t] = "noteMemory"
  /\ needs' = [needs EXCEPT ![cur[t]] = @ \cup {miss[t]}]
  /\ neededBy' = [neededBy EXCEPT ![miss[t]] = @ \cup {cur[t]}]
  /\ pc' = [pc EXCEPT ![t] = IF out[t] = "missed" THEN "noteIndexed" ELSE "commit"]
  /\ UNCHANGED <<source, rows, readyReindex, tickleOoo, caches, cur, out, miss, edges,
                 acked, crashes>>

-----------------------------------------------------------------------------
(* commit, the corpus, and the deferred function                           *)

Deletion(b) == <<Target[b], b>>

\* Faulty variant: the deletion cache is left as it is.
commitNoCache(t) ==
  /\ pc[t] = "commit"
  /\ have' = [have EXCEPT ![cur[t]] = IF out[t] = "partial" THEN "partial" ELSE "indexed"]
  /\ deleted' = deleted \cup
       (IF Kind[cur[t]] = "delete" /\ out[t] = "full" THEN {Deletion(cur[t])} ELSE {})
  /\ pc' = [pc EXCEPT ![t] = IF HasCorpus THEN "corpus" ELSE "noteIndexed"]
  /\ UNCHANGED <<source, missing, maps, caches, cur, out, miss, edges, acked, crashes>>

\* One batch under deletes.Lock.  populateClaim calls noteDelete for every
\* delete claim it gets through; the row is written only for a target known to
\* be a permanode or a claim.
commit(t) ==
  /\ pc[t] = "commit"
  /\ LET b == cur[t]
         deletion == IF Kind[b] = "delete" /\ out[t] # "partial" THEN {Deletion(b)} ELSE {}
         valid == out[t] = "full" /\ Kind[Target[b]] \in {"permanode", "claim", "delete"}
     IN /\ have' = [have EXCEPT ![b] = IF out[t] = "partial" THEN "partial" ELSE "indexed"]
        /\ deleted' = deleted \cup (IF deletion # {} /\ valid THEN deletion ELSE {})
        /\ deletes' = deletes \cup deletion
  /\ pc' = [pc EXCEPT ![t] = IF HasCorpus THEN "corpus" ELSE "noteIndexed"]
  /\ UNCHANGED <<source, missing, maps, corpus, corpusDeletes, cur, out, miss, edges,
                 acked, crashes>>

\* corpus.addBlob does nothing for a blob it knows.
addBlob(t) ==
  /\ pc[t] = "corpus"
  /\ LET b == cur[t] IN
     /\ corpus' = corpus \cup {b}
     /\ corpusDeletes' = corpusDeletes \cup
          (IF b \notin corpus /\ Kind[b] = "delete" /\ out[t] = "full"
           THEN {Deletion(b)} ELSE {})
  /\ pc' = [pc EXCEPT ![t] = "noteIndexed"]
  /\ UNCHANGED <<source, rows, maps, deletes, cur, out, miss, edges, acked, crashes>>

\* The blobs that needed b and need nothing else.
woken(b) == {x \in neededBy[b] : needs[x] \ {b} = {}}

\* Faulty variant: the inverse map keeps its entry.
noteIndexedKeepsInverse(b) ==
  /\ needs' = [x \in Blobs |-> IF x \in neededBy[b] THEN needs[x] \ {b} ELSE needs[x]]
  /\ neededBy' = neededBy
  /\ readyReindex' = readyReindex \cup woken(b)
  /\ tickleOoo' = (tickleOoo \/ woken(b) # {})

\* Faulty variant: the loop is not tickled.
noteIndexedNoTickle(b) ==
  /\ needs' = [x \in Blobs |-> IF x \in neededBy[b] THEN needs[x] \ {b} ELSE needs[x]]
  /\ neededBy' = [neededBy EXCEPT ![b] = {}]
  /\ readyReindex' = readyReindex \cup woken(b)
  /\ tickleOoo' = tickleOoo

\* The body of noteBlobIndexed, under ix.mu: the blobs that needed nothing else
\* are ready, and the loop is tickled without blocking.
noteIndexed(b) ==
  /\ needs' = [x \in Blobs |-> IF x \in neededBy[b] THEN needs[x] \ {b} ELSE needs[x]]
  /\ neededBy' = [neededBy EXCEPT ![b] = {}]
  /\ readyReindex' = readyReindex \cup woken(b)
  /\ tickleOoo' = (tickleOoo \/ woken(b) # {})

\* Faulty variant: the edges of a blob with missing dependencies are removed, too.
noteBlobIndexedIgnoresMiss(t) ==
  /\ pc[t] = "noteIndexed"
  /\ noteIndexed(cur[t])
  /\ pc' = [pc EXCEPT ![t] = "edges"]
  /\ UNCHANGED <<source, rows, caches, cur, out, miss, edges, acked, crashes>>

\* The deferred function of ReceiveBlob: with a missed fetch that is all,
\* otherwise removeAllMissingEdges follows.
noteBlobIndexed(t) ==
  /\ pc[t] = "noteIndexed"
  /\ noteIndexed(cur[t])
  /\ IF out[t] = "missed"
     THEN returnNil(t)
     ELSE pc' = [pc EXCEPT ![t] = "edges"] /\ UNCHANGED <<cur, out, miss, acked>>
  /\ UNCHANGED <<source, rows, caches, edges, crashes>>

\* removeAllMissingEdges reads the rows of the blob, then deletes them one by
\* one; errors are only logged.
removeAllMissingEdges(t) ==
  /\ pc[t] = "edges"
  /\ edges' = [edges EXCEPT ![t] = {r \in missing : r[1] = cur[t]}]
  /\ pc' = [pc EXCEPT ![t] = "remove"]
  /\ UNCHANGED <<source, rows, maps, caches, cur, out, miss, acked, crashes>>

removeEdge(t) ==
  /\ pc[t] = "remove"
  /\ \E r \in edges[t] :
       /\ edges' = [edges EXCEPT ![t] = @ \ {r}]
       /\ missing' = missing \ {r} \/ (Failures /\ missing' = missing)
  /\ UNCHANGED <<source, have, deleted, maps, caches, pc, cur, out, miss, acked, crashes>>

edgesRemoved(t) ==
  /\ pc[t] = "remove" /\ edges[t] = {}
  /\ returnNil(t)
  /\ UNCHANGED <<source, rows, maps, caches, edges, crashes>>

-----------------------------------------------------------------------------
(* outOfOrderIndexerLoop                                                   *)

\* range ix.tickleOoo
WaitTickle ==
  /\ pc[Ooo] = "wait" /\ tickleOoo
  /\ tickleOoo' = FALSE
  /\ pc' = [pc EXCEPT ![Ooo] = "take"]
  /\ UNCHANGED <<source, rows, needs, neededBy, readyReindex, caches, cur, out, miss, edges,
                 acked, crashes>>

\* Under ix.mu: take any ready blob, or go back to waiting.
takeReady ==
  /\ pc[Ooo] = "take"
  /\ \/ /\ readyReindex = {}
        /\ pc' = [pc EXCEPT ![Ooo] = "wait"]
        /\ UNCHANGED <<readyReindex, cur>>
     \/ \E b \in readyReindex :
          /\ readyReindex' = readyReindex \ {b}
          /\ cur' = [cur EXCEPT ![Ooo] = b]
          /\ pc' = [pc EXCEPT ![Ooo] = "fetch"]
  /\ UNCHANGED <<source, rows, needs, neededBy, tickleOoo, caches, out, miss, edges,
                 acked, crashes>>

\* indexBlob: fetch the blob and call ReceiveBlob ...
indexBlob ==
  /\ pc[Ooo] = "fetch" /\ cur[Ooo] \in source
  /\ enterReceiveBlob(Ooo, cur[Ooo])
  /\ UNCHANGED <<source, rows, maps, caches, edges, acked, crashes>>

\* ... or fail to fetch it.
indexBlobFails ==
  /\ pc[Ooo] = "fetch" /\ (Failures \/ cur[Ooo] \notin source)
  /\ returnErr(Ooo)
  /\ UNCHANGED <<source, rows, maps, caches, edges, acked, crashes>>

\* Faulty variant: what is tried again is the blob that was missed.
retryLaterMissed ==
  /\ pc[Ooo] = "retry"
  /\ readyReindex' = readyReindex \cup {miss[Ooo]}
  /\ pc' = [pc EXCEPT ![Ooo] = "take"]
  /\ cur' = [cur EXCEPT ![Ooo] = NoBlob]
  /\ UNCHANGED <<source, rows, needs, neededBy, tickleOoo, caches, out, miss, edges,
                 acked, crashes>>

\* Faulty variant: the error is logged and the blob forgotten.
retryLaterNever ==
  /\ pc[Ooo] = "retry"
  /\ pc' = [pc EXCEPT ![Ooo] = "take"]
  /\ cur' = [cur EXCEPT ![Ooo] = NoBlob]
  /\ UNCHANGED <<source, rows, maps, caches, out, miss, edges, acked, crashes>>

\* The error branch of the loop, under ix.mu.
retryLater ==
  /\ pc[Ooo] = "retry"
  /\ readyReindex' = IF needs[cur[Ooo]] = {} THEN readyReindex \cup {cur[Ooo]} ELSE readyReindex
  /\ pc' = [pc EXCEPT ![Ooo] = "take"]
  /\ cur' = [cur EXCEPT ![Ooo] = NoBlob]
  /\ UNCHANGED <<source, rows, needs, neededBy, tickleOoo, caches, out, miss, edges,
                 acked, crashes>>

-----------------------------------------------------------------------------
\* The process stops and New runs on the same storage: initDeletesCache fills
\* the cache, initNeededMaps replaces it by an empty one and reads the missing
\* rows; KeepInMemory scans the rest.
Restart ==
  /\ crashes < MaxCrashes
  /\ crashes' = crashes + 1
  /\ needs' = [b \in Blobs |-> {d \in Blobs : <<b, d>> \in missing}]
  /\ neededBy' = [d \in Blobs |-> {b \in Blobs : <<b, d>> \in missing}]
  /\ readyReindex' = {} /\ tickleOoo' = FALSE
  /\ deletes' = {}
  /\ corpus' = IF HasCorpus THEN {b \in Blobs : have[b] # "none"} ELSE {}
  /\ corpusDeletes' = IF HasCorpus THEN deleted ELSE {}
  /\ pc' = [t \in Threads |-> Start(t)] /\ cur' = [t \in Threads |-> NoBlob]
  /\ out' = [t \in Threads |-> "none"] /\ miss' = [t \in Threads |-> NoBlob]
  /\ edges' = [t \in Threads |-> {}]
  /\ UNCHANGED <<source, rows, acked>>

\* The steps of a thread inside ReceiveBlob.
Receive(t) ==
  \/ populateMiss(t) \/ populateFull(t) \/ populateDeleteClaim(t) \/ populateUnread(t)
  \/ noteNeeded(t) \/ noteNeededMemory(t) \/ commit(t) \/ addBlob(t)
  \/ noteBlobIndexed(t) \/ removeAllMissingEdges(t) \/ removeEdge(t) \/ edgesRemoved(t)

outOfOrderIndexerLoop ==
  WaitTickle \/ takeReady \/ indexBlob \/ indexBlobFails \/ retryLater

Next ==
  \/ \E b \in Blobs : StoreBlob(b)
  \/ \E t \in Receivers, b \in Blobs : ReceiveBlob(t, b)
  \/ \E t \in Threads : Receive(t) \/ receiveFails(t)
  \/ outOfOrderIndexerLoop
  \/ Restart

Spec == Init /\ [][Next]_vars

\* Every goroutine that can take a step takes one; uploads need not happen.
Fairness ==
  /\ \A t \in Threads : WF_vars(Receive(t))
  /\ WF_vars(outOfOrderIndexerLoop)

FairSpec == Spec /\ Fairness

-----------------------------------------------------------------------------
(* Properties                                                              *)

Inside == {"populate", "noteRow", "noteMemory", "commit", "corpus", "noteIndexed", "edges",
           "remove"}

\* Every variable keeps its type.
TypeOK ==
  /\ source \subseteq Blobs /\ acked \subseteq Blobs /\ readyReindex \subseteq Blobs
  /\ have \in [Blobs -> {"none", "partial", "indexed"}]
  /\ missing \subseteq Blobs \X Blobs /\ deleted \subseteq Blobs \X Blobs
  /\ needs \in [Blobs -> SUBSET Blobs] /\ neededBy \in [Blobs -> SUBSET Blobs]
  /\ tickleOoo \in BOOLEAN
  /\ deletes \subseteq Blobs \X Blobs /\ corpusDeletes \subseteq Blobs \X Blobs
  /\ corpus \subseteq Blobs
  /\ pc \in [Threads -> Inside \cup {"idle", "wait", "take", "fetch", "retry"}]
  /\ cur \in [Threads -> Blobs \cup {NoBlob}] /\ miss \in [Threads -> Blobs \cup {NoBlob}]
  /\ out \in [Threads -> {"none", "missed", "partial", "unread", "full"}]
  /\ edges \in [Threads -> SUBSET (Blobs \X Blobs)]
  /\ crashes \in 0..MaxCrashes

\* "neededBy is the inverse of needs": the two maps agree whatever the order in
\* which threads note needs and note arrivals.
InverseMaps == \A x, d \in Blobs : d \in needs[x] <=> x \in neededBy[d]

\* A blob marked "|indexed" had everything it needs: no interleaving commits a
\* file or claim as indexed without its parts or key, nor a delete claim without
\* its target (unless the row of the target could not be read).
IndexedHasDeps ==
  \A b \in Blobs : have[b] = "indexed" =>
    /\ Kind[b] # "directory" => Deps[b] \subseteq source
    /\ Kind[b] = "delete" /\ (HasCorpus \/ ~Failures) => have[Target[b]] # "none"

\* A blob whose ReceiveBlob returned nil and that is not indexed keeps a
\* "missing" row.  Delete claims are left out: one that lacks its target loses its
\* row in the call that wrote it.
MissTracked(b) == \E d \in Blobs : <<b, d>> \in missing
TrackedUntilIndexed ==
  \A b \in acked : Kind[b] # "delete" /\ have[b] # "indexed" => MissTracked(b)

\* The running index knows of it too: it waits for a need, is ready, or is
\* being indexed again, also after restarts.
Remembered(b) == needs[b] # {} \/ b \in readyReindex \/ cur[Ooo] = b
NotForgotten ==
  \A b \in acked : Kind[b] # "delete" /\ have[b] # "indexed" => Remembered(b)

\* No wake-up of the out-of-order loop is lost: blobs that are ready are seen by
\* the loop or a tickle is in the channel.
NoLostTickle == readyReindex # {} => tickleOoo \/ pc[Ooo] # "wait"

\* Until a restart, every "deleted" row is in the deletion cache: commit makes
\* both under one lock.
DeletesCacheComplete == crashes = 0 => deleted \subseteq deletes

\* A blob that was received, and all it needs, get it indexed.  Stated for blobs
\* that have been stored; what the comment in ReceiveBlob promises ("we'll
\* reindex it later once the dependent blobs arrive").
Arrived(b) == b \in acked \cap source
IndexedOnceDepsArrive ==
  \A b \in Blobs :
    Arrived(b) /\ (\A d \in Deps[b] : Arrived(d))
      /\ (Kind[b] = "delete" => have[Target[b]] = "indexed")
    ~> have[b] = "indexed"

\* What the comment on initDeletesCache says ("creates and populates the deletion
\* status cache ... It is called by New"): the cache has every "deleted" row.
DeletesCacheHasRows == deleted \subseteq deletes
=============================================================================
