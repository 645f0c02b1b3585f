----------------------------- MODULE Diskpacked -----------------------------
(***************************************************************************)
(* The diskpacked blob storage (pkg/blobserver/diskpacked): blobs appended *)
(* to a sequence of pack files, and an index that holds, for each blob,    *)
(* the row <<pack, offset>> of its bytes.  Writers hold s.mu while they    *)
(* append; the check for duplicates and the removals do not.               *)
(*                                                                         *)
(* A pack is a sequence of cells.  An entry is a header cell, written by   *)
(* one call, and a data cell, written by the next, so an offset is a       *)
(* number of cells.  A header cut short is a junk cell; data cut short     *)
(* leaves no cell, which puts what follows at the wrong place just as the  *)
(* missing bytes do.                                                       *)
(***************************************************************************)
EXTENDS Naturals, Sequences

CONSTANTS
    Blobs,        \* blob references
    NoBlob,       \* no blob
    Receivers,    \* callers of ReceiveBlob
    Removers,     \* callers of RemoveBlobs
    Free,         \* nobody holds s.mu
    NoRow,        \* the index has no row
    MaxFileSize,  \* s.maxFileSize, in cells
    Faults,       \* the system calls that may fail
    MaxAppends,   \* bound: how many appends begin
    MaxCrashes    \* bound: how many times the process stops

FaultNames == {"read", "write", "close", "openWrite", "openRead", "set",
               "seek", "truncate", "delete", "commit"}

ASSUME DiskpackedAssumption ==
    /\ NoBlob \notin Blobs
    /\ Free \notin Receivers
    /\ NoRow \notin Nat \X Nat
    /\ MaxFileSize \in Nat
    /\ Faults \subseteq FaultNames
    /\ MaxAppends \in Nat
    /\ MaxCrashes \in Nat

VARIABLES
    packs,     \* the pack files, on disk
    index,     \* s.index, on disk: the row of each blob
    writer,    \* the pack s.writer appends to, 0 when that file is closed
    fds,       \* len(s.fds)
    size,      \* s.size
    pos,       \* the position of s.writer in its file
    synced,    \* how many cells of each pack would survive a power loss
    mu,        \* who holds s.mu
    app,       \* origOffset, offset and packIdx of the append under way
    pc,        \* where each ReceiveBlob is
    arg,       \* the blob it receives
    held,      \* the row its duplicate check read
    dpc,       \* where the goroutine of RemoveBlobs call m for blob b is
    dat,       \* the row that goroutine read
    acked,     \* history: received, and no removal begun since
    removal,   \* history: blobs whose removal began and never completed
    overlap,   \* history: receives that overlapped a removal of their blob
    lagged,    \* history: a pack was opened for writing and not for reading
    appends,   \* how many appends began
    crashes    \* how many times the process stopped

disk == <<packs, index>>
files == <<writer, fds, size, pos, synced, lagged>>
receiving == <<pc, arg, held>>
removing == <<dpc, dat>>
history == <<acked, removal, overlap>>
bounds == <<appends, crashes>>
vars == <<disk, files, mu, app, receiving, removing, history, bounds>>

Goroutines == Removers \X Blobs

Header(b) == <<"head", b>>
Body(b) == <<"data", b>>
Dead == <<"dead", NoBlob>>     \* the header of a deleted blob
Zero == <<"zero", NoBlob>>     \* data that was zeroed, or a hole
Junk == <<"junk", NoBlob>>     \* part of a header

Cells == ({"head", "data"} \X Blobs) \cup {Dead, Zero, Junk}

Rows == (Nat \X Nat) \cup {NoRow}
File(r) == r[1]
Offset(r) == r[2]

Writing == {"data", "sync", "rotate", "set"}

\* No append under way.
NoAppend == [orig |-> 0, offset |-> 0, packIdx |-> 0]

Init ==
    /\ packs = << << >> >>
    /\ index = [b \in Blobs |-> NoRow]
    /\ writer = 1 /\ fds = 1 /\ size = 0 /\ pos = 0 /\ synced = <<0>>
    /\ mu = Free
    /\ app = NoAppend
    /\ pc = [t \in Receivers |-> "idle"]
    /\ arg = [t \in Receivers |-> NoBlob]
    /\ held = [t \in Receivers |-> NoRow]
    /\ dpc = [g \in Goroutines |-> "off"]
    /\ dat = [g \in Goroutines |-> NoRow]
    /\ acked = {} /\ removal = {} /\ overlap = {} /\ lagged = FALSE
    /\ appends = 0 /\ crashes = 0

Running(b) == \E m \in Removers : dpc[<<m, b>>] # "off"

-----------------------------------------------------------------------------
(* ReceiveBlob *)

\* ReceiveBlob returns: with err = nil the blob is acknowledged.
returnErr(t) ==
    /\ pc' = [pc EXCEPT ![t] = "idle"]
    /\ arg' = [arg EXCEPT ![t] = NoBlob]
    /\ held' = [held EXCEPT ![t] = NoRow]
    /\ overlap' = overlap \ {t}
    /\ UNCHANGED <<acked, removal>>

returnNil(t) ==
    /\ pc' = [pc EXCEPT ![t] = "idle"]
    /\ arg' = [arg EXCEPT ![t] = NoBlob]
    /\ held' = [held EXCEPT ![t] = NoRow]
    /\ acked' = IF t \in overlap THEN acked ELSE acked \cup {arg[t]}
    /\ overlap' = overlap \ {t}
    /\ UNCHANGED removal

\* Looks the blob up in the index; any error counts as "not there".
ReceiveBlob(t, b) ==
    /\ pc[t] = "idle"
    /\ arg' = [arg EXCEPT ![t] = b]
    /\ \/ /\ index[b] # NoRow
          /\ held' = [held EXCEPT ![t] = index[b]]
          /\ pc' = [pc EXCEPT ![t] = "stat"]
       \/ /\ index[b] = NoRow \/ "read" \in Faults
          /\ pc' = [pc EXCEPT ![t] = "append"]
          /\ UNCHANGED held
    /\ overlap' = IF Running(b) THEN overlap \cup {t} ELSE overlap
    /\ UNCHANGED <<disk, files, mu, app, removing, acked, removal, bounds>>

LongEnough(r) == Len(packs[File(r)]) >= Offset(r) + 1

\* A duplicate when the pack is long enough to hold the row's bytes; their
\* contents are not looked at.
foundDup(t) ==
    /\ pc[t] = "stat"
    /\ LongEnough(held[t])
    /\ returnNil(t)
    /\ UNCHANGED <<disk, files, mu, app, removing, bounds>>

notDup(t) ==
    /\ pc[t] = "stat"
    /\ ~LongEnough(held[t]) \/ "read" \in Faults
    /\ pc' = [pc EXCEPT ![t] = "append"]
    /\ UNCHANGED <<disk, files, mu, app, arg, held, removing, history, bounds>>

-----------------------------------------------------------------------------
(* append, under s.mu *)

\* Cell c at place i of p; past the end it leaves a hole before it.
WriteAt(p, i, c) ==
    [j \in 1..(IF i > Len(p) THEN i ELSE Len(p)) |->
        IF j = i THEN c ELSE IF j <= Len(p) THEN p[j] ELSE Zero]

\* A write to s.writer, counted in s.size.
write(c) ==
    /\ packs' = [packs EXCEPT ![writer] = WriteAt(@, pos + 1, c)]
    /\ size' = size + 1
    /\ pos' = pos + 1

beginAppend(t) ==
    /\ pc[t] = "append"
    /\ mu = Free
    /\ appends < MaxAppends
    /\ appends' = appends + 1
    /\ UNCHANGED <<index, writer, fds, synced, lagged, removing, crashes>>

\* Faulty variant: without the seek and the offset check that a TODO would remove.
writeHeaderUnchecked(t) ==
    /\ beginAppend(t)
    /\ writer # 0
    /\ write(Header(arg[t]))
    /\ mu' = t
    /\ app' = [orig |-> size, offset |-> size + 1, packIdx |-> 0]
    /\ pc' = [pc EXCEPT ![t] = "data"]
    /\ UNCHANGED <<arg, held, history>>

\* The header is written, and s.size agrees with the place in the file.
writeHeader(t) ==
    /\ beginAppend(t)
    /\ writer # 0
    /\ size = pos
    /\ write(Header(arg[t]))
    /\ mu' = t
    /\ app' = [orig |-> size, offset |-> size + 1, packIdx |-> 0]
    /\ pc' = [pc EXCEPT ![t] = "data"]
    /\ UNCHANGED <<arg, held, history>>

\* "seek says offset = %d, we think %d": the header stays in the pack.
badOffset(t) ==
    /\ beginAppend(t)
    /\ writer # 0
    /\ size # pos
    /\ write(Header(arg[t]))
    /\ returnErr(t)
    /\ UNCHANGED <<mu, app>>

\* The write fails, some of the header written or none, or the file is closed.
writeHeaderFails(t) ==
    /\ beginAppend(t)
    /\ \/ writer # 0 /\ "write" \in Faults /\ write(Junk)
       \/ /\ writer = 0 \/ "write" \in Faults
          /\ UNCHANGED <<packs, size, pos>>
    /\ returnErr(t)
    /\ UNCHANGED <<mu, app>>

\* s.mu is released on every way out of append.
unlock(t) == mu = t /\ mu' = Free /\ app' = NoAppend

writeData(t) ==
    /\ pc[t] = "data" /\ mu = t
    /\ write(Body(arg[t]))
    /\ pc' = [pc EXCEPT ![t] = "sync"]
    /\ UNCHANGED <<index, writer, fds, synced, lagged, mu, app, arg, held,
                   removing, history, bounds>>

\* io.Copy fails with part of the data written, or Sync fails after all of it.
\* Nothing is undone.
writeDataFails(t) ==
    /\ pc[t] \in {"data", "sync"}
    /\ "write" \in Faults
    /\ unlock(t)
    /\ returnErr(t)
    /\ UNCHANGED <<disk, files, removing, bounds>>

\* After Sync packIdx is the last pack opened for reading, and a pack that
\* has grown past maxFileSize is closed.
Sync(t) ==
    /\ pc[t] = "sync" /\ mu = t
    /\ synced' = [synced EXCEPT ![writer] = Len(packs[writer])]
    /\ app' = [app EXCEPT !.packIdx = fds]
    /\ pc' = [pc EXCEPT ![t] = IF size > MaxFileSize THEN "rotate" ELSE "set"]
    /\ UNCHANGED <<disk, writer, fds, size, pos, lagged, mu, arg, held,
                   removing, history, bounds>>

\* Faulty variant: the pack is opened without O_CREATE.
openForWriteNoCreate(n) ==
    /\ writer' = n
    /\ size' = 0
    /\ pos' = 0
    /\ UNCHANGED <<packs, synced>>

\* openForWrite creates the pack, or opens one that is there, at its end.
openForWrite(n) ==
    /\ packs' = IF n > Len(packs) THEN Append(packs, << >>) ELSE packs
    /\ writer' = n
    /\ size' = Len(packs'[n])
    /\ pos' = Len(packs'[n])
    /\ synced' = IF n > Len(packs) THEN Append(synced, 0) ELSE synced

nextPack(t) ==
    /\ pc[t] = "rotate" /\ mu = t
    /\ openForWrite(fds + 1)
    /\ fds' = fds + 1
    /\ pc' = [pc EXCEPT ![t] = "set"]
    /\ UNCHANGED <<index, lagged, mu, app, arg, held, removing, history, bounds>>

\* nextPack sets s.size to 0 first.  Then closing the lock fails and the old
\* pack stays the writer; or the writer is closed and no other is opened; or
\* the new pack is opened for writing and not for reading.
nextPackFails(t) ==
    /\ pc[t] = "rotate"
    /\ \/ /\ "close" \in Faults
          /\ size' = 0
          /\ UNCHANGED <<packs, writer, pos, synced, lagged>>
       \/ /\ "openWrite" \in Faults
          /\ size' = 0 /\ pos' = 0 /\ writer' = 0
          /\ UNCHANGED <<packs, synced, lagged>>
       \/ "openRead" \in Faults /\ openForWrite(fds + 1) /\ lagged' = TRUE
    /\ unlock(t)
    /\ returnErr(t)
    /\ UNCHANGED <<index, fds, removing, bounds>>

\* The row is written: the blob is received.
setRow(t) ==
    /\ pc[t] = "set"
    /\ index' = [index EXCEPT ![arg[t]] = <<app.packIdx, app.offset>>]
    /\ unlock(t)
    /\ returnNil(t)
    /\ UNCHANGED <<packs, files, removing, bounds>>

\* A file cut to n cells, or lengthened to n with a hole.
Truncate(p, n) == [i \in 1..n |-> IF i <= Len(p) THEN p[i] ELSE Zero]

\* The writer, which nextPack may have changed, is sent back to origOffset and
\* truncated there.  When it cannot be truncated its position has moved.
rollback ==
    \/ /\ packs' = [packs EXCEPT ![writer] = Truncate(@, app.orig)]
       /\ size' = app.orig
       /\ pos' = app.orig
       /\ synced' = [synced EXCEPT ![writer] =
                        IF @ < app.orig THEN @ ELSE app.orig]
    \/ "seek" \in Faults /\ UNCHANGED <<packs, size, pos, synced>>
    \/ "truncate" \in Faults /\ pos' = app.orig /\ UNCHANGED <<packs, size, synced>>

\* Faulty variant: the error of index.Set is lost on the way out.
setRowFailsIgnored(t) ==
    /\ pc[t] = "set"
    /\ "set" \in Faults
    /\ rollback
    /\ unlock(t)
    /\ returnNil(t)
    /\ UNCHANGED <<index, writer, fds, lagged, removing, bounds>>

\* The row is not written, and what was appended is undone if it can be.
setRowFails(t) ==
    /\ pc[t] = "set"
    /\ "set" \in Faults
    /\ rollback
    /\ unlock(t)
    /\ returnErr(t)
    /\ UNCHANGED <<index, writer, fds, lagged, removing, bounds>>

-----------------------------------------------------------------------------
(* RemoveBlobs and delete, without s.mu *)

\* One goroutine per blob.
RemoveBlobs(m, S) ==
    /\ \A b \in Blobs : dpc[<<m, b>>] = "off"
    /\ dpc' = [g \in Goroutines |->
                  IF g[1] = m /\ g[2] \in S THEN "meta" ELSE dpc[g]]
    /\ acked' = acked \ S
    /\ removal' = removal \cup S
    /\ overlap' = overlap \cup {t \in Receivers : arg[t] \in S}
    /\ UNCHANGED <<disk, files, mu, app, receiving, dat, bounds>>

\* delete reads the row of its blob; without one it is an error.
deleteMeta(g) ==
    /\ dpc[g] = "meta"
    /\ dat' = [dat EXCEPT ![g] = index[g[2]]]
    /\ dpc' = [dpc EXCEPT ![g] = IF index[g[2]] = NoRow THEN "done" ELSE "head"]
    /\ UNCHANGED <<disk, files, mu, app, receiving, history, bounds>>

\* What stands before the row's bytes must look like a header, of whatever
\* blob; its reference is overwritten.
IsHeader(c) == c = Dead \/ c[1] = "head"

overwriteHeader(g) ==
    LET f == File(dat[g])
        h == Offset(dat[g])
    IN  /\ dpc[g] = "head"
        /\ IF h \in DOMAIN packs[f] /\ IsHeader(packs[f][h])
             THEN /\ packs' = [packs EXCEPT ![f][h] = Dead]
                  /\ dpc' = [dpc EXCEPT ![g] = "zero"]
             ELSE /\ dpc' = [dpc EXCEPT ![g] = "done"]
                  /\ UNCHANGED packs
        /\ UNCHANGED <<index, files, mu, app, receiving, dat, history, bounds>>

\* The hole is punched, or zeroes are written over the data.
zeroData(g) ==
    LET f == File(dat[g])
        d == Offset(dat[g]) + 1
    IN  /\ dpc[g] = "zero"
        /\ packs' = IF d \in DOMAIN packs[f]
                      THEN [packs EXCEPT ![f][d] = Zero] ELSE packs
        /\ dpc' = [dpc EXCEPT ![g] = "done"]
        /\ UNCHANGED <<index, files, mu, app, receiving, dat, history, bounds>>

deleteFails(g) ==
    /\ dpc[g] \in {"meta", "head", "zero"}
    /\ "delete" \in Faults
    /\ dpc' = [dpc EXCEPT ![g] = "done"]
    /\ UNCHANGED <<disk, files, mu, app, receiving, dat, history, bounds>>

InCall(m) == {b \in Blobs : dpc[<<m, b>>] # "off"}

\* The goroutines are waited for (wg.Err).
endRemove(m) ==
    /\ InCall(m) # {}
    /\ \A b \in InCall(m) : dpc[<<m, b>>] = "done"
    /\ dpc' = [g \in Goroutines |-> IF g[1] = m THEN "off" ELSE dpc[g]]
    /\ dat' = [g \in Goroutines |-> IF g[1] = m THEN NoRow ELSE dat[g]]
    /\ UNCHANGED <<packs, files, mu, app, receiving, acked, overlap, bounds>>

\* The batch deletes every row, those whose delete failed included.
CommitBatch(m) ==
    /\ endRemove(m)
    /\ index' = [b \in Blobs |-> IF b \in InCall(m) THEN NoRow ELSE index[b]]
    /\ removal' = removal \ {b \in InCall(m) :
                      \A n \in Removers \ {m} : dpc[<<n, b>>] = "off"}

CommitBatchFails(m) ==
    /\ "commit" \in Faults
    /\ endRemove(m)
    /\ UNCHANGED <<index, removal>>

-----------------------------------------------------------------------------
(* The process stops, at any moment, and newStorage runs again *)

\* What a crash leaves of a pack: what was synced and some of what was not,
\* and in the writer's pack part of a header if one was being written.
Remains(f) ==
    {SubSeq(packs[f], 1, n) : n \in synced[f]..Len(packs[f])} \cup
    {WriteAt(packs[f], pos + 1, Junk) : t \in {u \in Receivers :
                                 f = writer /\ mu = Free /\ pc[u] = "append"}}

openAllPacks ==
    /\ fds' = Len(packs')
    /\ writer' = Len(packs')
    /\ size' = Len(packs'[Len(packs')])
    /\ pos' = Len(packs'[Len(packs')])
    /\ synced' = [f \in 1..Len(packs') |-> Len(packs'[f])]

Restart ==
    /\ crashes < MaxCrashes
    /\ crashes' = crashes + 1
    /\ packs' \in {q \in [1..Len(packs) -> UNION {Remains(f) : f \in 1..Len(packs)}] :
                      \A f \in 1..Len(packs) : q[f] \in Remains(f)}
    /\ openAllPacks
    /\ mu' = Free /\ app' = NoAppend
    /\ pc' = [t \in Receivers |-> "idle"]
    /\ arg' = [t \in Receivers |-> NoBlob]
    /\ held' = [t \in Receivers |-> NoRow]
    /\ dpc' = [g \in Goroutines |-> "off"]
    /\ dat' = [g \in Goroutines |-> NoRow]
    /\ overlap' = {}
    /\ UNCHANGED <<index, acked, removal, lagged, appends>>

-----------------------------------------------------------------------------
Next ==
    \/ \E t \in Receivers :
          \/ \E b \in Blobs : ReceiveBlob(t, b)
          \/ foundDup(t)
          \/ notDup(t)
          \/ writeHeader(t)
          \/ badOffset(t)
          \/ writeHeaderFails(t)
          \/ writeData(t)
          \/ writeDataFails(t)
          \/ Sync(t)
          \/ nextPack(t)
          \/ nextPackFails(t)
          \/ setRow(t)
          \/ setRowFails(t)
    \/ \E m \in Removers :
          \/ \E S \in SUBSET Blobs \ {{}} : RemoveBlobs(m, S)
          \/ CommitBatch(m)
          \/ CommitBatchFails(m)
    \/ \E g \in Goroutines :
          \/ deleteMeta(g)
          \/ overwriteHeader(g)
          \/ zeroData(g)
          \/ deleteFails(g)
    \/ Restart

Spec == Init /\ [][Next]_vars

-----------------------------------------------------------------------------
(* Properties *)

\* Every variable has the type its Go counterpart has; the writer, when open,
\* is one of the packs on disk, and so is every pack opened for reading.
TypeOK ==
    /\ packs \in Seq(Seq(Cells)) /\ packs # << >>
    /\ index \in [Blobs -> Rows]
    /\ writer \in 0..Len(packs) /\ fds \in 1..Len(packs)
    /\ size \in Nat /\ pos \in Nat /\ lagged \in BOOLEAN
    /\ synced \in Seq(Nat) /\ Len(synced) = Len(packs)
    /\ mu \in Receivers \cup {Free}
    /\ app \in [orig : Nat, offset : Nat, packIdx : Nat]
    /\ pc \in [Receivers -> {"idle", "stat", "append"} \cup Writing]
    /\ arg \in [Receivers -> Blobs \cup {NoBlob}]
    /\ held \in [Receivers -> Rows]
    /\ dpc \in [Goroutines -> {"off", "meta", "head", "zero", "done"}]
    /\ dat \in [Goroutines -> Rows]
    /\ acked \subseteq Blobs /\ removal \subseteq Blobs
    /\ overlap \subseteq Receivers
    /\ appends \in Nat /\ crashes \in Nat

\* The bytes row r names are those of b, or the zeroes that delete wrote over
\* them, after b's header or what delete made of it.
EntryOf(b, r) ==
    /\ File(r) \in 1..Len(packs)
    /\ Offset(r) \in 1..(Len(packs[File(r)]) - 1)
    /\ packs[File(r)][Offset(r)] \in {Header(b), Dead}
    /\ packs[File(r)][Offset(r) + 1] \in {Body(b), Zero}

\* A row never names the bytes of another blob or bytes that are not there,
\* whatever write, rotation, rollback or restart came between (append computes
\* the row's offset before it rotates and writes the row after).  One failure
\* is left out: once nextPack has opened a pack for writing and not for reading,
\* append takes len(s.fds)-1 for the number of a pack it does not write to.
RowsIntact ==
    lagged \/ \A b \in Blobs : index[b] # NoRow => EntryOf(b, index[b])

\* fetch finds the row, the pack is open, and the bytes are the blob's.
Readable(b) ==
    /\ index[b] # NoRow
    /\ File(index[b]) <= fds
    /\ Offset(index[b]) < Len(packs[File(index[b])])
    /\ packs[File(index[b])][Offset(index[b]) + 1] = Body(b)

\* A blob that ReceiveBlob acknowledged, and nobody began to remove since, can
\* be fetched, across failed calls, removals of other blobs and power losses:
\* Sync comes before the row, and nothing cuts or zeroes what a row names.
\* Left out are the failure RowsIntact leaves out, and blobs whose removal was
\* cut short: the duplicate test takes the zeroes it left for the blob.
AckedReadable == lagged \/ \A b \in acked \ removal : Readable(b)
=============================================================================
