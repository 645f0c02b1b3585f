------------------------------ MODULE Encrypt -------------------------------
(***************************************************************************)
(* The encrypting storage (pkg/blobserver/encrypt): ReceiveBlob stores an  *)
(* encrypted blob, then a meta blob that says which plaintext it is of,    *)
(* then a row of the index.  The index is rebuilt from the meta blobs when *)
(* the storage is made, by a pipeline of goroutines.                       *)
(*                                                                         *)
(* An encrypted blob is a pair <<plaintext, iv>> and so is the meta blob   *)
(* that describes it; the index keeps the iv.  A failed call on one of the *)
(* two stores may have stored the blob.  RemoveBlobs panics in the code    *)
(* and is left out.                                                        *)
(***************************************************************************)
EXTENDS Naturals, FiniteSets

CONSTANTS
    Plain,        \* plaintext blobs
    IVs,          \* random ivs, each of which comes up once
    NoIV,         \* no row in the index
    Uploads,      \* callers of ReceiveBlob
    maxInFlight,  \* meta blobs fetched at the same time
    MetacCap,     \* capacity of metac
    Faults,       \* what may fail: "blobs", "meta", "index", "enum", "fetch"
    MaxCrashes    \* bound: how many times the process stops

Encs == Plain \X IVs

\* NoIV is no iv, and there is something to encrypt.
EncryptAssumption == NoIV \notin IVs /\ Encs # {}

VARIABLES
    mode,      \* "down", "starting" or "up"
    blobs,     \* the encrypted blobs stored
    meta,      \* the meta blobs stored
    index,     \* the iv in the row of each plaintext blob
    pc,        \* where each upload is
    enc,       \* the pair it writes
    used,      \* the ivs that have come up
    epc,       \* the enumeration of readAllMetaBlobs: "run", "nil", "err"
    unread,    \* meta blobs it has still to enumerate
    fetching,  \* those being fetched
    metac,     \* the channel of fetched ones: <<pair, ok>>
    acked,     \* history: the plaintext blobs whose upload was acknowledged
    crashes    \* how often the process stopped

vars == <<mode, blobs, meta, index, pc, enc, used, epc, unread, fetching, metac, acked, crashes>>
pipeline == <<epc, unread, fetching, metac>>
uploads == <<pc, enc, used>>

NoRows == [p \in Plain |-> NoIV]

Init ==
    /\ mode = "down"
    /\ blobs = {} /\ meta = {}
    /\ index = NoRows
    /\ pc = [u \in Uploads |-> "idle"]
    /\ enc = [u \in Uploads |-> CHOOSE e \in Encs : TRUE]
    /\ used = {}
    /\ epc = "nil" /\ unread = {} /\ fetching = {} /\ metac = {}
    /\ acked = {}
    /\ crashes = 0

\* The goroutines of a start that has ended do nothing any more.
endPipeline == epc' = "nil" /\ unread' = {} /\ fetching' = {} /\ metac' = {}

-----------------------------------------------------------------------------
(* ReceiveBlob *)

to(u, where) == pc' = [pc EXCEPT ![u] = where]

ReceiveBlob(u, p) ==
    /\ mode = "up"
    /\ pc[u] = "idle"
    /\ \E iv \in IVs \ used :
          /\ enc' = [enc EXCEPT ![u] = <<p, iv>>]
          /\ used' = used \cup {iv}
    /\ to(u, "blobs")
    /\ UNCHANGED <<mode, blobs, meta, index, pipeline, acked, crashes>>

storeBlob(u) ==
    /\ pc[u] = "blobs"
    /\ \/ blobs' = blobs \cup {enc[u]} /\ to(u, "meta")
       \/ "blobs" \in Faults /\ blobs' \in {blobs, blobs \cup {enc[u]}} /\ to(u, "idle")
    /\ UNCHANGED <<mode, meta, index, enc, used, pipeline, acked, crashes>>

storeMeta(u) ==
    /\ pc[u] = "meta"
    /\ \/ meta' = meta \cup {enc[u]} /\ to(u, "index")
       \/ "meta" \in Faults /\ meta' \in {meta, meta \cup {enc[u]}} /\ to(u, "idle")
    /\ UNCHANGED <<mode, blobs, index, enc, used, pipeline, acked, crashes>>

\* s.index.Set, and the blob is acknowledged.
setIndex(u) ==
    /\ pc[u] = "index"
    /\ to(u, "idle")
    /\ \/ /\ index' = [index EXCEPT ![enc[u][1]] = enc[u][2]]
          /\ acked' = acked \cup {enc[u][1]}
       \/ "index" \in Faults /\ UNCHANGED <<index, acked>>
    /\ UNCHANGED <<mode, blobs, meta, enc, used, pipeline, crashes>>

-----------------------------------------------------------------------------
(* readAllMetaBlobs *)

Start ==
    /\ mode = "down"
    /\ mode' = "starting"
    /\ epc' = "run"
    /\ unread' = meta
    /\ UNCHANGED <<blobs, meta, index, uploads, fetching, metac, acked, crashes>>

\* The callback of the enumeration, past the gate, starts a fetch.
startFetch(m) ==
    /\ mode = "starting" /\ epc = "run"
    /\ Cardinality(fetching) < maxInFlight
    /\ unread' = unread \ {m}
    /\ fetching' = fetching \cup {m}
    /\ UNCHANGED <<mode, blobs, meta, index, uploads, epc, metac, acked, crashes>>

enumerateEnds ==
    /\ mode = "starting" /\ epc = "run"
    /\ \/ unread = {} /\ epc' = "nil"
       \/ "enum" \in Faults /\ epc' = "err"
    /\ UNCHANGED <<mode, blobs, meta, index, uploads, unread, fetching, metac, acked, crashes>>

\* The fetched blob, or the error, goes to metac.
fetched(m) ==
    /\ mode = "starting"
    /\ Cardinality(metac) < MetacCap
    /\ \E ok \in BOOLEAN : (ok \/ "fetch" \in Faults) /\ metac' = metac \cup {<<m, ok>>}
    /\ fetching' = fetching \ {m}
    /\ UNCHANGED <<mode, blobs, meta, index, uploads, epc, unread, acked, crashes>>

\* processEncryptedMetaBlob adds its row; an error ends the start of the process
\* (what still runs only empties metac).
processMeta(e) ==
    /\ mode = "starting"
    /\ \/ /\ e[2]
          /\ index' = [index EXCEPT ![e[1][1]] = e[1][2]]
          /\ metac' = metac \ {e}
          /\ UNCHANGED <<mode, epc, unread, fetching>>
       \/ /\ ~e[2] \/ "index" \in Faults
          /\ mode' = "down"
          /\ endPipeline
          /\ UNCHANGED index
    /\ UNCHANGED <<blobs, meta, uploads, acked, crashes>>

\* Faulty variant: metac is closed without waiting for the fetches.
startedEarly ==
    /\ mode = "starting" /\ epc # "run"
    /\ metac = {}
    /\ mode' = IF epc = "nil" THEN "up" ELSE "down"
    /\ endPipeline
    /\ UNCHANGED <<blobs, meta, index, uploads, acked, crashes>>

\* metac is closed once the enumeration has returned and every fetch has ended;
\* the error of the enumeration decides.
started ==
    /\ mode = "starting" /\ epc # "run"
    /\ fetching = {} /\ metac = {}
    /\ mode' = IF epc = "nil" THEN "up" ELSE "down"
    /\ endPipeline
    /\ UNCHANGED <<blobs, meta, index, uploads, acked, crashes>>

-----------------------------------------------------------------------------
\* The process stops.  The index may be a new one when it starts again.
Crash ==
    /\ mode # "down"
    /\ crashes < MaxCrashes /\ crashes' = crashes + 1
    /\ mode' = "down"
    /\ pc' = [u \in Uploads |-> "idle"]
    /\ index' \in {index, NoRows}
    /\ endPipeline
    /\ UNCHANGED <<blobs, meta, enc, used, acked>>

Next ==
    \/ \E u \in Uploads :
          \/ \E p \in Plain : ReceiveBlob(u, p)
          \/ storeBlob(u)
          \/ storeMeta(u)
          \/ setIndex(u)
    \/ Start
    \/ \E m \in unread : startFetch(m)
    \/ enumerateEnds
    \/ \E m \in fetching : fetched(m)
    \/ \E e \in metac : processMeta(e)
    \/ started
    \/ Crash

Spec == Init /\ [][Next]_vars

-----------------------------------------------------------------------------
(* Properties *)

\* Types.
TypeOK ==
    /\ mode \in {"down", "starting", "up"}
    /\ blobs \subseteq Encs /\ meta \subseteq Encs
    /\ index \in [Plain -> IVs \cup {NoIV}]
    /\ pc \in [Uploads -> {"idle", "blobs", "meta", "index"}]
    /\ enc \in [Uploads -> Encs]
    /\ used \subseteq IVs
    /\ epc \in {"run", "nil", "err"}
    /\ unread \subseteq Encs /\ fetching \subseteq Encs
    /\ metac \subseteq Encs \X BOOLEAN
    /\ acked \subseteq Plain
    /\ crashes \in Nat

\* A storage that is up can decrypt every blob whose upload was acknowledged, also
\* one of an earlier life of the process and with an index made anew: its row is in
\* the index and names an encrypted blob of it that is stored.  No row ever names
\* one that is not.
EncryptReadable ==
    /\ mode = "up" => \A p \in acked : index[p] # NoIV
    /\ \A p \in Plain : index[p] # NoIV => <<p, index[p]>> \in blobs
=============================================================================
