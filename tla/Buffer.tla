------------------------------- MODULE Buffer -------------------------------
(***************************************************************************)
(* The buffering sorted.KeyValue (pkg/sorted/buffer): writes go to a       *)
(* buffer in memory, reads look there first and then in the backing store, *)
(* and Flush moves the buffer to the backing store in two batches.  Get,   *)
(* Set, Delete and CommitBatch hold the read lock, Flush the write lock.   *)
(*                                                                         *)
(* The two stores are maps whose calls are atomic.  A batch that deletes a *)
(* key and sets it again is not told apart from one that sets it.          *)
(***************************************************************************)
EXTENDS Naturals

CONSTANTS
    Keys, Values,
    Nothing,    \* no value: sorted.ErrNotFound
    Clients,    \* concurrent callers
    NoClient,   \* nobody
    MaxBuffer,  \* maxBuffer, in entries
    Faults,     \* the stores whose writes may fail: "buf", "back"
    MaxCalls    \* bound: how many calls begin

Maps == [Keys -> Values \cup {Nothing}]

\* What a batch does: a value to set, Nothing to delete, or Keep.
CONSTANT Keep

Batches == [Keys -> Values \cup {Nothing, Keep}] \ {[k \in Keys |-> Keep]}

\* The marks are told apart from what they stand beside.
BufferAssumption ==
    /\ NoClient \notin Clients
    /\ Nothing \notin Values
    /\ Keep \notin Values \cup {Nothing}

VARIABLES
    buf, back,  \* the two stores
    buffered,   \* entries set since the last Flush
    readers,    \* who holds mu for reading
    writer,     \* who holds it for writing
    pc,         \* where each call is
    key,        \* the keys it has still to look up or delete in back
    val,        \* history: what the map is meant to hold
    limbo,      \* history: keys deleted from buf, and not or not yet from back
    seen,       \* history: what the key of a Get held from its beginning to its end
    got,        \* history: the last answer of each client's Get
    calls       \* how many calls there were

vars == <<buf, back, buffered, readers, writer, pc, key, val, limbo, seen, got, calls>>

Init ==
    /\ buf = [k \in Keys |-> Nothing]
    /\ back \in Maps
    /\ buffered = 0
    /\ readers = {} /\ writer = NoClient
    /\ pc = [c \in Clients |-> "idle"]
    /\ key = [c \in Clients |-> {}]
    /\ val = back
    /\ limbo = {}
    /\ seen = [c \in Clients |-> {}]
    /\ got = [c \in Clients |-> Nothing]
    /\ calls = 0

call(c) == pc[c] = "idle" /\ calls < MaxCalls /\ calls' = calls + 1

\* mu.RLock may be taken.
canRLock == writer = NoClient

\* The history of a write of map m: who is reading a key sees its new value.
wrote(m) ==
    /\ val' = m
    /\ seen' = [c \in Clients |->
                  IF pc[c] = "get" THEN seen[c] \cup {m[k] : k \in key[c]} ELSE seen[c]]

-----------------------------------------------------------------------------
(* Get *)

\* The answer is in the buffer, or the backing store is asked next.
Get(c, k) ==
    /\ call(c)
    /\ canRLock
    /\ seen' = [seen EXCEPT ![c] = {val[k]} \cup {back[j] : j \in limbo \cap {k}}]
    /\ IF buf[k] # Nothing
         THEN got' = [got EXCEPT ![c] = buf[k]] /\ UNCHANGED <<readers, pc, key>>
         ELSE /\ readers' = readers \cup {c}
              /\ pc' = [pc EXCEPT ![c] = "get"]
              /\ key' = [key EXCEPT ![c] = {k}]
              /\ UNCHANGED got
    /\ UNCHANGED <<buf, back, buffered, writer, val, limbo>>

\* kv.back.Get
getBack(c) ==
    /\ pc[c] = "get"
    /\ \E k \in key[c] : got' = [got EXCEPT ![c] = back[k]]
    /\ pc' = [pc EXCEPT ![c] = "idle"]
    /\ key' = [key EXCEPT ![c] = {}]
    /\ readers' = readers \ {c}
    /\ UNCHANGED <<buf, back, buffered, writer, val, limbo, seen, calls>>

-----------------------------------------------------------------------------
(* Set *)

Set(c, k, v) ==
    /\ call(c)
    /\ canRLock
    /\ buf' = [buf EXCEPT ![k] = v]
    /\ wrote([val EXCEPT ![k] = v])
    /\ limbo' = limbo \ {k}
    /\ pc' = [pc EXCEPT ![c] = "count"]
    /\ UNCHANGED <<back, buffered, readers, writer, key, got>>

\* The entry is counted, under bufMu; a full buffer is flushed.
countBuffered(c) ==
    /\ pc[c] = "count"
    /\ buffered' = buffered + 1
    /\ pc' = [pc EXCEPT ![c] = IF buffered + 1 > MaxBuffer THEN "flush" ELSE "idle"]
    /\ UNCHANGED <<buf, back, readers, writer, key, val, limbo, seen, got, calls>>

-----------------------------------------------------------------------------
(* Delete and CommitBatch *)

Deleted(b) == {k \in Keys : b[k] = Nothing}

Apply(b, m) == [k \in Keys |-> IF b[k] = Keep THEN m[k] ELSE b[k]]

\* The batch is applied to the buffer, then the deletions to the backing store.
\* Delete is a batch of one deletion.  Nothing is counted as buffered.
CommitBatch(c, b) ==
    /\ call(c)
    /\ canRLock
    /\ buf' = Apply(b, buf)
    /\ wrote(Apply(b, val))
    /\ limbo' = {k \in limbo \cup Deleted(b) : b[k] \in {Keep, Nothing}}
    /\ IF Deleted(b) = {}
         THEN UNCHANGED <<readers, pc, key>>
         ELSE /\ readers' = readers \cup {c}
              /\ pc' = [pc EXCEPT ![c] = "delete"]
              /\ key' = [key EXCEPT ![c] = Deleted(b)]
    /\ UNCHANGED <<back, buffered, writer, got>>

deleteBack(c) ==
    /\ pc[c] = "delete"
    /\ back' = [k \in Keys |-> IF k \in key[c] THEN Nothing ELSE back[k]]
    /\ limbo' = limbo \ key[c]
    /\ pc' = [pc EXCEPT ![c] = "idle"]
    /\ key' = [key EXCEPT ![c] = {}]
    /\ readers' = readers \ {c}
    /\ UNCHANGED <<buf, buffered, writer, val, seen, got, calls>>

\* The error is returned, and the keys stay as they were in the backing store.
deleteBackFails(c) ==
    /\ pc[c] = "delete"
    /\ "back" \in Faults
    /\ pc' = [pc EXCEPT ![c] = "idle"]
    /\ key' = [key EXCEPT ![c] = {}]
    /\ readers' = readers \ {c}
    /\ UNCHANGED <<buf, back, buffered, writer, val, limbo, seen, got, calls>>

-----------------------------------------------------------------------------
(* Flush, by Set, by Close or by the owner *)

FlushCall(c) ==
    /\ call(c)
    /\ pc' = [pc EXCEPT ![c] = "flush"]
    /\ UNCHANGED <<buf, back, buffered, readers, writer, key, val, limbo, seen, got>>

\* The write lock is held from here on.
lock(c) ==
    /\ pc[c] = "flush"
    /\ writer = NoClient /\ readers = {}
    /\ writer' = c
    /\ pc' = [pc EXCEPT ![c] = "toBack"]
    /\ UNCHANGED <<buf, back, buffered, readers, key, val, limbo, seen, got, calls>>

Buffered == {k \in Keys : buf[k] # Nothing}

\* Faulty variant: the buffer is emptied first.
flushToBackLate(c) ==
    /\ pc[c] = "toBack"
    /\ buf' = [k \in Keys |-> Nothing]
    /\ pc' = [pc EXCEPT ![c] = "idle"]
    /\ writer' = NoClient
    /\ UNCHANGED <<back, buffered, readers, key, val, limbo, seen, got, calls>>

\* kv.back.CommitBatch(bmback)
flushToBack(c) ==
    /\ pc[c] = "toBack"
    /\ back' = [k \in Keys |-> IF k \in Buffered THEN buf[k] ELSE back[k]]
    /\ pc' = [pc EXCEPT ![c] = "clear"]
    /\ UNCHANGED <<buf, buffered, readers, writer, key, val, limbo, seen, got, calls>>

\* kv.buf.CommitBatch(bmbuf); the counter is reset if there was anything.
flushClear(c) ==
    /\ pc[c] = "clear"
    /\ buf' = [k \in Keys |-> Nothing]
    /\ buffered' = IF Buffered = {} THEN buffered ELSE 0
    /\ pc' = [pc EXCEPT ![c] = "idle"]
    /\ writer' = NoClient
    /\ UNCHANGED <<back, readers, key, val, limbo, seen, got, calls>>

flushFails(c) ==
    /\ \/ pc[c] = "toBack" /\ "back" \in Faults
       \/ pc[c] = "clear" /\ "buf" \in Faults
    /\ pc' = [pc EXCEPT ![c] = "idle"]
    /\ writer' = NoClient
    /\ UNCHANGED <<buf, back, buffered, readers, key, val, limbo, seen, got, calls>>

Next ==
    \E c \in Clients :
       \/ \E k \in Keys : Get(c, k)
       \/ getBack(c)
       \/ \E k \in Keys, v \in Values : Set(c, k, v)
       \/ countBuffered(c)
       \/ \E b \in Batches : CommitBatch(c, b)
       \/ deleteBack(c)
       \/ deleteBackFails(c)
       \/ FlushCall(c)
       \/ lock(c)
       \/ flushToBack(c)
       \/ flushClear(c)
       \/ flushFails(c)

Spec == Init /\ [][Next]_vars

-----------------------------------------------------------------------------
(* Properties *)

\* Types.
TypeOK ==
    /\ buf \in Maps /\ back \in Maps /\ val \in Maps
    /\ buffered \in Nat
    /\ readers \subseteq Clients /\ writer \in Clients \cup {NoClient}
    /\ pc \in [Clients -> {"idle", "get", "count", "delete", "flush", "toBack", "clear"}]
    /\ key \in [Clients -> SUBSET Keys]
    /\ limbo \subseteq Keys
    /\ seen \in [Clients -> SUBSET (Values \cup {Nothing})]
    /\ got \in [Clients -> Values \cup {Nothing}]
    /\ calls \in Nat

\* Get answers with a value the key held at some moment of the call, however
\* Sets, batches and Flushes, also failed ones, run between its two lookups.  Of
\* a key that was deleted from the buffer and not, or not yet, from the backing
\* store, the value there counts too: it shows through.
ReadsCurrent ==
    \A c \in Clients : pc[c] # "get" /\ seen[c] # {} => got[c] \in seen[c]
=============================================================================
