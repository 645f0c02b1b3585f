----------------------------- MODULE Blobpacked -----------------------------
(***************************************************************************)
(* The blobpacked storage (pkg/blobserver/blobpacked).  Blobs arrive in    *)
(* the storage `small'.  When the schema blob of a large file arrives, the *)
(* upload packs the file: zips that hold its chunks and its schema blob go *)
(* to the storage `large', a batch of meta rows says which zip each blob   *)
(* is in, and the blobs are removed from small.  No lock is held, so       *)
(* uploads, packers, removals and the deletion of emptied zips interleave. *)
(*                                                                         *)
(* How many chunks fit in a zip is a matter of sizes, which the model does *)
(* not keep: writeAZip takes any number of them, as it does after any      *)
(* number of rounds of needsTruncatedAfterError, which change nothing.     *)
(***************************************************************************)
EXTENDS Naturals, Sequences

CONSTANTS
    Files,        \* schema blobs of files of at least packThreshold bytes
    Chunks,       \* all other blobs
    Parts,        \* the chunks of each file, in order
    NoBlob,       \* no blob
    NoZip,        \* no zip
    Uploads,      \* callers of ReceiveBlob
    Removers,     \* callers of RemoveBlobs
    Sweepers,     \* callers of deleteZipPack
    Faults,       \* the calls that may fail
    MaxZips,      \* bound: zips per packer
    MaxUploads,   \* bound: how many uploads begin
    MaxRemovals,  \* bound: how many removals begin
    MaxCrashes    \* bound: how many times the process stops

AllBlobs == Files \cup Chunks

\* A zip is named by its contents: part number `part' of file `file', holding
\* the chunks after place `from' up to place `to'.
Zips == [file : Files, part : 0..MaxZips, from : Nat, to : Nat]

\* Its data blobs, and the schema blob when there are any (writeAZip adds the
\* schema blobs of the chunks it writes).
Contents(z) ==
    IF z.to > z.from
      THEN {Parts[z.file][i] : i \in (z.from + 1)..z.to} \cup {z.file}
      ELSE {}

\* The bytes of the file decide its wholeRef: here, its chunks.
WholeRef(f) == Parts[f]

\* The marks are no zips or blobs, and a file has a sequence of chunks.
BlobpackedAssumption ==
    /\ Parts \in [Files -> Seq(Chunks)]
    /\ MaxZips \in Nat
    /\ NoZip \notin Zips
    /\ NoBlob \notin AllBlobs

FileBlobs(f) == {Parts[f][i] : i \in 1..Len(Parts[f])} \cup {f}

VARIABLES
    small,    \* the blobs in s.small
    large,    \* the zips in s.large
    row,      \* the "b:" rows of s.meta: the zip of a packed blob
    whole,    \* the final "w:" rows
    dead,     \* the "d:" rows: zips with a deleted blob
    pc,       \* where each ReceiveBlob is
    arg,      \* the blob it receives
    zip,      \* the zip its packer is at work on: part, from and to
    rpc,      \* where each RemoveBlobs is
    rarg,     \* the blobs it removes
    packed,   \* those it found packed
    unpacked, \* and those it did not
    marks,    \* the zips it found them in
    spc,      \* where each deleteZipPack is
    sarg,     \* its zip
    acked,    \* history: received, and no removal begun since
    overlap,  \* history: uploads that overlapped a removal of their blob
    clash,    \* history: blobs unpacked by a removal while a packer had them
              \* still to remove from small
    raced,    \* history: zips written while they were being deleted
    quiet,    \* history: blobs of a removal nobody else has touched meanwhile
    gone,     \* history: removed, and not uploaded since
    uploads, removals, crashes   \* how many of each there were

bounds == <<uploads, removals, crashes>>
stores == <<small, large, row, whole, dead>>
receiving == <<pc, arg, zip>>
removing == <<rpc, rarg, packed, unpacked, marks>>
sweeping == <<spc, sarg>>
history == <<acked, overlap, clash, raced, quiet, gone>>
vars == <<stores, receiving, removing, sweeping, history, bounds>>

NoPack == [part |-> 0, from |-> 0, to |-> 0]

\* The storage starts with some loose chunks.
Init ==
    /\ small \in SUBSET Chunks
    /\ large = {} /\ whole = {} /\ dead = {}
    /\ row = [b \in AllBlobs |-> NoZip]
    /\ pc = [t \in Uploads |-> "idle"]
    /\ arg = [t \in Uploads |-> NoBlob]
    /\ zip = [t \in Uploads |-> NoPack]
    /\ rpc = [m \in Removers |-> "idle"]
    /\ rarg = [m \in Removers |-> {}]
    /\ packed = [m \in Removers |-> {}]
    /\ unpacked = [m \in Removers |-> {}]
    /\ marks = [m \in Removers |-> {}]
    /\ spc = [s \in Sweepers |-> "idle"]
    /\ sarg = [s \in Sweepers |-> NoZip]
    /\ acked = small
    /\ overlap = {} /\ clash = {} /\ raced = {} /\ gone = {}
    /\ quiet = [m \in Removers |-> {}]
    /\ uploads = 0 /\ removals = 0 /\ crashes = 0

\* Fetch: from the zip the meta row names, or from small without a row.
Fetchable(b) ==
    IF row[b] = NoZip THEN b \in small
                      ELSE row[b] \in large /\ b \in Contents(row[b])

ZipOf(t) == [file |-> arg[t], part |-> zip[t].part,
             from |-> zip[t].from, to |-> zip[t].to]

Packing == {"scan", "read", "zip", "commit", "clean", "whole"}

\* What an upload may write or remove: its blob and, once it packs, its file.
Holds(t) ==
    IF pc[t] \in Packing THEN FileBlobs(arg[t])
    ELSE IF pc[t] = "idle" THEN {} ELSE {arg[t]}

Removing == UNION {rarg[m] : m \in Removers}

-----------------------------------------------------------------------------
(* ReceiveBlob *)

\* The call returns; its packer, if it had one, is done.
return(t) ==
    /\ pc' = [pc EXCEPT ![t] = "idle"]
    /\ arg' = [arg EXCEPT ![t] = NoBlob]
    /\ zip' = [zip EXCEPT ![t] = NoPack]
    /\ overlap' = overlap \ {t}

returnErr(t) == return(t) /\ UNCHANGED acked

returnNil(t) ==
    /\ return(t)
    /\ acked' = IF t \in overlap THEN acked ELSE acked \cup {arg[t]}

\* The meta row is read.  A packed blob is acknowledged at once.
ReceiveBlob(t, b) ==
    /\ pc[t] = "idle"
    /\ uploads < MaxUploads
    /\ uploads' = uploads + 1
    /\ quiet' = [m \in Removers |-> quiet[m] \ {b}]
    /\ gone' = gone \ {b}
    /\ \/ /\ row[b] = NoZip
          /\ pc' = [pc EXCEPT ![t] = "store"]
          /\ arg' = [arg EXCEPT ![t] = b]
          /\ overlap' = IF b \in Removing THEN overlap \cup {t} ELSE overlap
          /\ UNCHANGED acked
       \/ /\ row[b] # NoZip
          /\ acked' = IF b \in Removing THEN acked ELSE acked \cup {b}
          /\ UNCHANGED <<pc, arg, overlap>>
    /\ UNCHANGED <<stores, zip, removing, sweeping, clash, raced, removals, crashes>>

\* s.small.ReceiveBlob; then the schema blob of a large file is packed.
storeSmall(t) ==
    /\ pc[t] = "store"
    /\ small' = small \cup {arg[t]}
    /\ IF arg[t] \in Files
         THEN /\ pc' = [pc EXCEPT ![t] = "scan"]
              /\ quiet' = [m \in Removers |-> quiet[m] \ FileBlobs(arg[t])]
              /\ UNCHANGED <<arg, zip, overlap, acked>>
         ELSE returnNil(t) /\ UNCHANGED quiet
    /\ UNCHANGED <<large, row, whole, dead, removing, sweeping, clash, raced,
                   gone, bounds>>

\* It fails, with or without having stored the blob.
storeSmallFails(t) ==
    /\ pc[t] = "store"
    /\ "store" \in Faults
    /\ small' \in {small, small \cup {arg[t]}}
    /\ returnErr(t)
    /\ UNCHANGED <<large, row, whole, dead, removing, sweeping, clash, raced,
                   quiet, gone, bounds>>

-----------------------------------------------------------------------------
(* packFile, whose error ReceiveBlob ignores *)

\* The steps of a packer leave these alone.
packStep == UNCHANGED <<dead, removing, sweeping, clash, quiet, gone,
                        bounds>>

\* Any error before the meta batch: nothing is undone.
packFails(t) ==
    /\ pc[t] \in {"scan", "read", "zip", "commit", "whole"}
    /\ "pack" \in Faults
    /\ returnNil(t)
    /\ packStep
    /\ UNCHANGED <<small, large, row, whole, raced>>

\* pack reads the schema blobs and the whole file, to compute its wholeRef.
scanChunks(t) ==
    /\ pc[t] = "scan"
    /\ \A b \in FileBlobs(arg[t]) : Fetchable(b)
    /\ WholeRef(arg[t]) \notin whole
    /\ pc' = [pc EXCEPT ![t] = "read"]
    /\ packStep
    /\ UNCHANGED <<small, large, row, whole, arg, zip, overlap, acked, raced>>

\* A part is missing, or "already have wholeref packed; not packing again".
notPacked(t) ==
    /\ pc[t] = "scan"
    /\ \/ \E b \in FileBlobs(arg[t]) : ~Fetchable(b)
       \/ WholeRef(arg[t]) \in whole
    /\ returnNil(t)
    /\ packStep
    /\ UNCHANGED <<small, large, row, whole, raced>>

\* writeAZip copies the next chunks, as many as fit, into a zip in memory.
readChunks(t) ==
    /\ pc[t] = "read"
    /\ zip[t].part < MaxZips
    /\ \E n \in zip[t].from..Len(Parts[arg[t]]) :
          /\ \A i \in (zip[t].from + 1)..n : Fetchable(Parts[arg[t]][i])
          /\ zip' = [zip EXCEPT ![t].to = n]
    /\ pc' = [pc EXCEPT ![t] = "zip"]
    /\ packStep
    /\ UNCHANGED <<small, large, row, whole, arg, overlap, acked, raced>>

chunkMissing(t) ==
    /\ pc[t] = "read"
    /\ \E i \in (zip[t].from + 1)..Len(Parts[arg[t]]) :
          ~Fetchable(Parts[arg[t]][i])
    /\ returnNil(t)
    /\ packStep
    /\ UNCHANGED <<small, large, row, whole, raced>>

\* Faulty variant: an error of s.large is overlooked.
writeAZipUnchecked(t) ==
    /\ pc[t] = "zip"
    /\ large' \in {large, large \cup {ZipOf(t)}}
    /\ pc' = [pc EXCEPT ![t] = "commit"]
    /\ packStep
    /\ UNCHANGED <<small, row, whole, arg, zip, overlap, acked, raced>>

\* The zip is written to s.large.
writeAZip(t) ==
    /\ pc[t] = "zip"
    /\ large' = large \cup {ZipOf(t)}
    /\ raced' = IF \E s \in Sweepers : sarg[s] = ZipOf(t)
                  THEN raced \cup {ZipOf(t)} ELSE raced
    /\ pc' = [pc EXCEPT ![t] = "commit"]
    /\ packStep
    /\ UNCHANGED <<small, row, whole, arg, zip, overlap, acked>>

\* Then one batch sets the rows of all it holds.
commitMeta(t) ==
    /\ pc[t] = "commit"
    /\ row' = [b \in AllBlobs |-> IF b \in Contents(ZipOf(t)) THEN ZipOf(t)
                                                           ELSE row[b]]
    /\ pc' = [pc EXCEPT ![t] = "clean"]
    /\ packStep
    /\ UNCHANGED <<small, large, whole, arg, zip, overlap, acked, raced>>

\* Then they are removed from s.small; an error, after some of them or none,
\* is only logged.  The next zip, if chunks remain.
cleanSmall(t) ==
    /\ pc[t] = "clean"
    /\ \E S \in SUBSET Contents(ZipOf(t)) :
          /\ S = Contents(ZipOf(t)) \/ "clean" \in Faults
          /\ small' = small \ S
    /\ zip' = [zip EXCEPT ![t] = [part |-> @.part + 1, from |-> @.to, to |-> @.to]]
    /\ pc' = [pc EXCEPT ![t] =
                 IF zip[t].to = Len(Parts[arg[t]]) THEN "whole" ELSE "read"]
    /\ packStep
    /\ UNCHANGED <<large, row, whole, arg, overlap, acked, raced>>

\* The final "w:" row.
setWhole(t) ==
    /\ pc[t] = "whole"
    /\ whole' = whole \cup {WholeRef(arg[t])}
    /\ returnNil(t)
    /\ packStep
    /\ UNCHANGED <<small, large, row, raced>>

-----------------------------------------------------------------------------
(* RemoveBlobs *)

\* What a removal leaves alone.
removeStep == UNCHANGED <<large, whole, receiving, sweeping, raced, uploads,
                          crashes>>

RemoveBlobs(m, S) ==
    /\ rpc[m] = "idle"
    /\ removals < MaxRemovals
    /\ removals' = removals + 1
    /\ rpc' = [rpc EXCEPT ![m] = "lookup"]
    /\ rarg' = [rarg EXCEPT ![m] = S]
    /\ acked' = acked \ S
    /\ overlap' = overlap \cup {t \in Uploads : arg[t] \in S}
    /\ quiet' = [quiet EXCEPT ![m] =
                    {b \in S : /\ \A t \in Uploads : b \notin Holds(t)
                               /\ row[b] = NoZip \/ b \notin small}]
    /\ removeStep
    /\ UNCHANGED <<small, row, dead, packed, unpacked, marks, clash, gone>>

\* One goroutine per blob reads its row.  When all have, the removals begin.
getMetaRow(m, b) ==
    /\ rpc[m] = "lookup"
    /\ b \in rarg[m] \ (packed[m] \cup unpacked[m])
    /\ packed' = [packed EXCEPT ![m] = IF row[b] = NoZip THEN @ ELSE @ \cup {b}]
    /\ unpacked' = [unpacked EXCEPT ![m] = IF row[b] = NoZip THEN @ \cup {b} ELSE @]
    /\ marks' = [marks EXCEPT ![m] = IF row[b] = NoZip THEN @ ELSE @ \cup {row[b]}]
    /\ rpc' = [rpc EXCEPT ![m] =
                  IF rarg[m] = packed[m] \cup unpacked[m] \cup {b}
                    THEN "remove" ELSE "lookup"]
    /\ removeStep
    /\ UNCHANGED <<removals, small, row, dead, rarg, acked, overlap, clash, quiet, gone>>

\* A row that cannot be read ends the call before it has removed anything.
getMetaRowFails(m) ==
    /\ rpc[m] = "lookup"
    /\ "read" \in Faults
    /\ rpc' = [rpc EXCEPT ![m] = "idle"]
    /\ rarg' = [rarg EXCEPT ![m] = {}]
    /\ packed' = [packed EXCEPT ![m] = {}]
    /\ unpacked' = [unpacked EXCEPT ![m] = {}]
    /\ marks' = [marks EXCEPT ![m] = {}]
    /\ quiet' = [quiet EXCEPT ![m] = {}]
    /\ removeStep
    /\ UNCHANGED <<removals, small, row, dead, acked, overlap, clash, gone>>

\* s.small.RemoveBlobs(unpacked), in a goroutine of its own.
removeSmall(m) ==
    /\ rpc[m] = "remove"
    /\ unpacked[m] # {}
    /\ small' = small \ unpacked[m]
    /\ unpacked' = [unpacked EXCEPT ![m] = {}]
    /\ removeStep
    /\ UNCHANGED <<removals, row, dead, rpc, rarg, packed, marks, acked, overlap, clash, quiet, gone>>

removeSmallFails(m) ==
    /\ rpc[m] = "remove"
    /\ unpacked[m] # {}
    /\ "remove" \in Faults
    /\ \E S \in SUBSET unpacked[m] : small' = small \ S
    /\ unpacked' = [unpacked EXCEPT ![m] = {}]
    /\ quiet' = [quiet EXCEPT ![m] = {}]
    /\ removeStep
    /\ UNCHANGED <<removals, row, dead, rpc, rarg, packed, marks, acked, overlap, clash, gone>>

\* Faulty variant: the batch marks the zips and forgets the rows.
removeRowsMarkOnly(m) ==
    /\ rpc[m] = "remove"
    /\ packed[m] # {}
    /\ dead' = dead \cup marks[m]
    /\ packed' = [packed EXCEPT ![m] = {}]
    /\ removeStep
    /\ UNCHANGED <<removals, small, row, rpc, rarg, unpacked, marks, acked, overlap,
                   clash, quiet, gone>>

\* The batch, in another goroutine: each zip is marked, each row deleted.
removeRows(m) ==
    /\ rpc[m] = "remove"
    /\ packed[m] # {}
    /\ row' = [b \in AllBlobs |-> IF b \in packed[m] THEN NoZip ELSE row[b]]
    /\ dead' = dead \cup marks[m]
    /\ clash' = clash \cup {b \in packed[m] : \E t \in Uploads :
                               pc[t] = "clean" /\ b \in Contents(ZipOf(t))}
    /\ packed' = [packed EXCEPT ![m] = {}]
    /\ removeStep
    /\ UNCHANGED <<removals, small, rpc, rarg, unpacked, marks, acked, overlap, quiet, gone>>

removeRowsFails(m) ==
    /\ rpc[m] = "remove"
    /\ packed[m] # {}
    /\ "remove" \in Faults
    /\ packed' = [packed EXCEPT ![m] = {}]
    /\ quiet' = [quiet EXCEPT ![m] = {}]
    /\ removeStep
    /\ UNCHANGED <<removals, small, row, dead, rpc, rarg, unpacked, marks, acked, overlap, clash,
                   gone>>

\* Both goroutines are done.
removeReturns(m) ==
    /\ rpc[m] = "remove"
    /\ packed[m] = {} /\ unpacked[m] = {}
    /\ rpc' = [rpc EXCEPT ![m] = "idle"]
    /\ rarg' = [rarg EXCEPT ![m] = {}]
    /\ marks' = [marks EXCEPT ![m] = {}]
    /\ gone' = gone \cup quiet[m]
    /\ quiet' = [quiet EXCEPT ![m] = {}]
    /\ removeStep
    /\ UNCHANGED <<removals, small, row, dead, packed, unpacked, acked, overlap, clash>>

-----------------------------------------------------------------------------
(* deleteZipPack, for a zip with a "d:" row *)

sweepStep == UNCHANGED <<small, row, whole, receiving, removing, acked, overlap,
                         clash, quiet, gone, bounds>>

\* None of the blobs in the zip is packed, here or in another zip.  A zip that
\* is not in large has no parts.
zipPartsInUse(z) == z \in large /\ \E b \in Contents(z) : row[b] # NoZip

deleteZipPack(s, z) ==
    /\ spc[s] = "idle"
    /\ ~zipPartsInUse(z)
    /\ spc' = [spc EXCEPT ![s] = "remove"]
    /\ sarg' = [sarg EXCEPT ![s] = z]
    /\ raced' = IF \E t \in Uploads : pc[t] = "commit" /\ ZipOf(t) = z
                  THEN raced \cup {z} ELSE raced
    /\ sweepStep
    /\ UNCHANGED <<large, dead>>

removeZip(s) ==
    /\ spc[s] = "remove"
    /\ large' = large \ {sarg[s]}
    /\ spc' = [spc EXCEPT ![s] = "unmark"]
    /\ sweepStep
    /\ UNCHANGED <<dead, sarg, raced>>

unmarkZip(s) ==
    /\ spc[s] = "unmark"
    /\ dead' = dead \ {sarg[s]}
    /\ spc' = [spc EXCEPT ![s] = "idle"]
    /\ sarg' = [sarg EXCEPT ![s] = NoZip]
    /\ sweepStep
    /\ UNCHANGED <<large, raced>>

sweepFails(s) ==
    /\ spc[s] # "idle"
    /\ "sweep" \in Faults
    /\ spc' = [spc EXCEPT ![s] = "idle"]
    /\ sarg' = [sarg EXCEPT ![s] = NoZip]
    /\ sweepStep
    /\ UNCHANGED <<large, dead, raced>>

-----------------------------------------------------------------------------
\* The process stops; the storages and the meta rows stay.  newFromConfig only
\* warns of zips without rows.
Restart ==
    /\ crashes < MaxCrashes
    /\ crashes' = crashes + 1
    /\ pc' = [t \in Uploads |-> "idle"]
    /\ arg' = [t \in Uploads |-> NoBlob]
    /\ zip' = [t \in Uploads |-> NoPack]
    /\ rpc' = [m \in Removers |-> "idle"]
    /\ rarg' = [m \in Removers |-> {}]
    /\ packed' = [m \in Removers |-> {}]
    /\ unpacked' = [m \in Removers |-> {}]
    /\ marks' = [m \in Removers |-> {}]
    /\ spc' = [s \in Sweepers |-> "idle"]
    /\ sarg' = [s \in Sweepers |-> NoZip]
    /\ overlap' = {}
    /\ quiet' = [m \in Removers |-> {}]
    /\ UNCHANGED <<stores, acked, clash, raced, gone, uploads, removals>>

Next ==
    \/ \E t \in Uploads :
          \/ \E b \in AllBlobs : ReceiveBlob(t, b)
          \/ storeSmall(t)
          \/ storeSmallFails(t)
          \/ scanChunks(t)
          \/ notPacked(t)
          \/ readChunks(t)
          \/ chunkMissing(t)
          \/ writeAZip(t)
          \/ commitMeta(t)
          \/ cleanSmall(t)
          \/ setWhole(t)
          \/ packFails(t)
    \/ \E m \in Removers :
          \/ \E S \in SUBSET AllBlobs \ {{}} : RemoveBlobs(m, S)
          \/ \E b \in AllBlobs : getMetaRow(m, b)
          \/ getMetaRowFails(m)
          \/ removeSmall(m)
          \/ removeSmallFails(m)
          \/ removeRows(m)
          \/ removeRowsFails(m)
          \/ removeReturns(m)
    \/ \E s \in Sweepers :
          \/ \E z \in dead : deleteZipPack(s, z)
          \/ removeZip(s)
          \/ unmarkZip(s)
          \/ sweepFails(s)
    \/ Restart

Spec == Init /\ [][Next]_vars

-----------------------------------------------------------------------------
(* Properties *)

\* Types.
TypeOK ==
    /\ small \subseteq AllBlobs
    /\ large \subseteq Zips
    /\ row \in [AllBlobs -> Zips \cup {NoZip}]
    /\ dead \subseteq Zips
    /\ pc \in [Uploads -> {"idle", "store"} \cup Packing]
    /\ arg \in [Uploads -> AllBlobs \cup {NoBlob}]
    /\ zip \in [Uploads -> [part : 0..MaxZips, from : Nat, to : Nat]]
    /\ rpc \in [Removers -> {"idle", "lookup", "remove"}]
    /\ rarg \in [Removers -> SUBSET AllBlobs]
    /\ packed \in [Removers -> SUBSET AllBlobs]
    /\ unpacked \in [Removers -> SUBSET AllBlobs]
    /\ marks \in [Removers -> SUBSET Zips]
    /\ spc \in [Sweepers -> {"idle", "remove", "unmark"}]
    /\ sarg \in [Sweepers -> Zips \cup {NoZip}]
    /\ acked \subseteq AllBlobs /\ overlap \subseteq Uploads
    /\ clash \subseteq AllBlobs /\ raced \subseteq Zips /\ gone \subseteq AllBlobs
    /\ quiet \in [Removers -> SUBSET AllBlobs]
    /\ uploads \in Nat /\ removals \in Nat /\ crashes \in Nat

\* A blob that ReceiveBlob acknowledged, and nobody began to remove since, can
\* be fetched at every moment of its move from small to large, whoever packs it,
\* fails or crashes, and whatever zips are deleted: the zip comes before its
\* rows and the rows before the removal from small.  Two races the code loses
\* are left out: a removal and a new upload between those last two steps
\* (clash), and a zip that is written while deleteZipPack is at work on it.
PackedReadable == \A b \in acked \ clash : Fetchable(b) \/ row[b] \in raced

\* A blob that RemoveBlobs removed while nobody else was at work on it stays
\* away until it is uploaded again: no packer that begins later, and no crash,
\* brings it back.  (A copy that was left in small beside the row would.)
RemovedGone == \A b \in gone : ~Fetchable(b)
=============================================================================
