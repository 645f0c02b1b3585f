----------------------------- MODULE LocalDisk ------------------------------
(***************************************************************************)
(* The file-per-blob storage (pkg/blobserver/localdisk), in one of the     *)
(* directories of its tree: ReceiveBlob writes a temporary file, syncs it  *)
(* and renames it; removals take no lock; and an enumeration that finds    *)
(* the directory empty starts a goroutine that removes it, which the       *)
(* receivers hold off with a read lock.                                    *)
(*                                                                         *)
(* The file system: a removal of a directory fails unless it is empty; a   *)
(* crash keeps the synced data of a file, and may undo any rename, removal *)
(* or creation, as the code never syncs a directory.                       *)
(***************************************************************************)
EXTENDS Naturals

CONSTANTS
    Blobs,       \* blobs of this directory
    NoBlob,      \* no blob
    Receivers,   \* callers of ReceiveBlob
    Cleaners,    \* goroutines of tryRemoveDir
    Faults,      \* what may fail: "write", "sync", "rename"
    MaxReceives, \* bound: how many receives begin
    MaxCrashes   \* bound: how many times the machine stops

VARIABLES
    dir,       \* whether the directory exists
    file,      \* the file of each blob: "none", "whole", "unsynced" or "partial"
    junk,      \* whether a temporary file was left behind
    readers,   \* the receivers that hold dirLockMu for reading
    pc,        \* where each receiver is
    want,      \* its blob
    synced,    \* the receivers whose temporary file is synced
    cpc,       \* "idle", or "remove" once an enumeration has found nothing
    was,       \* the blobs whose whole file was there at some time
    noDir,     \* history: a receiver found its directory gone
    acked,     \* history: blobs acknowledged and since then not removed
    receives, crashes

vars == <<dir, file, junk, readers, pc, want, synced, cpc, was, noDir, acked, receives, crashes>>

Init ==
    /\ dir \in BOOLEAN
    /\ file = [b \in Blobs |-> "none"]
    /\ junk = FALSE
    /\ readers = {}
    /\ pc = [r \in Receivers |-> "idle"]
    /\ want = [r \in Receivers |-> NoBlob]
    /\ synced = {}
    /\ cpc = [c \in Cleaners |-> "idle"]
    /\ was = {}
    /\ noDir = FALSE
    /\ acked = {}
    /\ receives = 0 /\ crashes = 0

\* The receivers whose temporary file is there.
Temps == {r \in Receivers : pc[r] \in {"copy", "sync", "rename", "fail"}}

Empty == ~junk /\ Temps = {} /\ \A b \in Blobs : file[b] = "none"

-----------------------------------------------------------------------------
(* ReceiveBlob *)

to(r, where) == pc' = [pc EXCEPT ![r] = where]

\* The deferred removal of the temporary file, and RUnlock.
return(r) ==
    /\ to(r, "idle")
    /\ readers' = readers \ {r}
    /\ want' = [want EXCEPT ![r] = NoBlob]
    /\ synced' = synced \ {r}

\* Faulty variant: the lock is not taken.
ReceiveBlobUnlocked(r, b) ==
    /\ pc[r] = "idle"
    /\ receives < MaxReceives /\ receives' = receives + 1
    /\ dir' = TRUE
    /\ want' = [want EXCEPT ![r] = b]
    /\ to(r, "temp")
    /\ UNCHANGED <<file, junk, readers, synced, cpc, was, noDir, acked, crashes>>

\* RLock (tryRemoveDir holds the lock for one step only) and MkdirAll.
ReceiveBlob(r, b) ==
    /\ pc[r] = "idle"
    /\ receives < MaxReceives /\ receives' = receives + 1
    /\ readers' = readers \cup {r}
    /\ dir' = TRUE
    /\ want' = [want EXCEPT ![r] = b]
    /\ to(r, "temp")
    /\ UNCHANGED <<file, junk, synced, cpc, was, noDir, acked, crashes>>

tempFile(r) ==
    /\ pc[r] = "temp"
    /\ IF dir
         THEN to(r, "copy") /\ UNCHANGED <<readers, want, synced, noDir>>
         ELSE return(r) /\ noDir' = TRUE
    /\ UNCHANGED <<dir, file, junk, cpc, was, acked, receives, crashes>>

copy(r) ==
    /\ pc[r] = "copy"
    /\ to(r, "sync") \/ ("write" \in Faults /\ to(r, "fail"))
    /\ UNCHANGED <<dir, file, junk, readers, want, synced, cpc, was, noDir, acked, receives, crashes>>

\* Faulty variant: the data is left to the system.
closeUnsynced(r) ==
    /\ pc[r] = "sync"
    /\ to(r, "rename")
    /\ UNCHANGED <<dir, file, junk, readers, want, synced, cpc, was, noDir, acked, receives, crashes>>

\* Sync, Close and Lstat.
sync(r) ==
    /\ pc[r] = "sync"
    /\ \/ to(r, "rename") /\ synced' = synced \cup {r}
       \/ "sync" \in Faults /\ to(r, "fail") /\ UNCHANGED synced
    /\ UNCHANGED <<dir, file, junk, readers, want, cpc, was, noDir, acked, receives, crashes>>

\* It replaces the file of another receiver of the same blob.
rename(r) ==
    /\ pc[r] = "rename"
    /\ \/ /\ file' = [file EXCEPT ![want[r]] = IF r \in synced THEN "whole" ELSE "unsynced"]
          /\ was' = IF r \in synced THEN was \cup {want[r]} ELSE was
          /\ to(r, "stat")
       \/ /\ "rename" \in Faults
          /\ to(r, "fail")
          /\ UNCHANGED <<file, was>>
    /\ UNCHANGED <<dir, junk, readers, want, synced, cpc, noDir, acked, receives, crashes>>

\* The file is there with the size written, or it has been removed meanwhile.
stat(r) ==
    /\ pc[r] = "stat"
    /\ return(r)
    /\ acked' = IF file[want[r]] = "none" THEN acked ELSE acked \cup {want[r]}
    /\ UNCHANGED <<dir, file, junk, cpc, was, noDir, receives, crashes>>

fail(r) ==
    /\ pc[r] = "fail"
    /\ return(r)
    /\ UNCHANGED <<dir, file, junk, cpc, was, noDir, acked, receives, crashes>>

-----------------------------------------------------------------------------
(* RemoveBlobs, EnumerateBlobs and tryRemoveDir *)

RemoveBlobs(b) ==
    /\ file[b] # "none"
    /\ file' = [file EXCEPT ![b] = "none"]
    /\ acked' = acked \ {b}
    /\ UNCHANGED <<dir, junk, readers, pc, want, synced, cpc, was, noDir, receives, crashes>>

\* readBlobs reads the names and finds none.
readBlobs(c) ==
    /\ cpc[c] = "idle"
    /\ dir /\ Empty
    /\ cpc' = [cpc EXCEPT ![c] = "remove"]
    /\ UNCHANGED <<dir, file, junk, readers, pc, want, synced, was, noDir, acked, receives, crashes>>

\* Under the write lock; the error of a directory that is not empty is ignored.
tryRemoveDir(c) ==
    /\ cpc[c] = "remove"
    /\ readers = {}
    /\ dir' = (dir /\ ~Empty)
    /\ cpc' = [cpc EXCEPT ![c] = "idle"]
    /\ UNCHANGED <<file, junk, readers, pc, want, synced, was, noDir, acked, receives, crashes>>

-----------------------------------------------------------------------------
\* What a crash may leave of a blob's file.
Left(b) ==
    {"none"} \cup (IF b \in was THEN {"whole"} ELSE {})
             \cup (IF file[b] = "unsynced" THEN {"partial", "whole"} ELSE {})

\* The machine stops.
Crash ==
    /\ crashes < MaxCrashes /\ crashes' = crashes + 1
    /\ file' \in {f \in [Blobs -> {"none", "whole", "partial"}] : \A b \in Blobs : f[b] \in Left(b)}
    /\ junk' \in {junk, junk \/ Temps # {}}
    /\ dir' \in {d \in BOOLEAN : (junk' \/ \E b \in Blobs : file'[b] # "none") => d}
    /\ readers' = {}
    /\ pc' = [r \in Receivers |-> "idle"]
    /\ want' = [r \in Receivers |-> NoBlob]
    /\ synced' = {}
    /\ cpc' = [c \in Cleaners |-> "idle"]
    /\ acked' = {}
    /\ UNCHANGED <<was, noDir, receives>>

Next ==
    \/ \E r \in Receivers :
          \/ \E b \in Blobs : ReceiveBlob(r, b)
          \/ tempFile(r)
          \/ copy(r)
          \/ sync(r)
          \/ rename(r)
          \/ stat(r)
          \/ fail(r)
    \/ \E b \in Blobs : RemoveBlobs(b)
    \/ \E c \in Cleaners : readBlobs(c) \/ tryRemoveDir(c)
    \/ Crash

Spec == Init /\ [][Next]_vars

-----------------------------------------------------------------------------
(* Properties *)

\* Types.
TypeOK ==
    /\ dir \in BOOLEAN /\ junk \in BOOLEAN /\ noDir \in BOOLEAN
    /\ file \in [Blobs -> {"none", "whole", "unsynced", "partial"}]
    /\ readers \subseteq Receivers /\ synced \subseteq Receivers
    /\ pc \in [Receivers -> {"idle", "temp", "copy", "sync", "rename", "stat", "fail"}]
    /\ want \in [Receivers -> Blobs \cup {NoBlob}]
    /\ cpc \in [Cleaners -> {"idle", "remove"}]
    /\ was \subseteq Blobs /\ acked \subseteq Blobs
    /\ receives \in Nat /\ crashes \in Nat

\* No receiver loses the directory it has made to a goroutine of tryRemoveDir that
\* an earlier enumeration has started, and none is removed under a blob.
DirHeld == ~noDir /\ (~dir => Empty)

\* A file under the name of a blob has all of its content, also after a crash; and
\* the file of a blob that was acknowledged, and not removed since, is there as
\* long as the machine runs.
AckedWhole ==
    \A b \in Blobs : file[b] # "partial" /\ (b \in acked => file[b] = "whole")
=============================================================================
