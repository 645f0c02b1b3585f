-------------------------- MODULE DurableStorages ---------------------------
(***************************************************************************)
(* Buffer, Encrypt and LocalDisk as components of Storages: what a caller  *)
(* wrote is moved or indexed by others while it is read.                   *)
(***************************************************************************)
EXTENDS StorageBounds

CONSTANTS
    Keys, Values, Keep, MaxBuffer, MaxCalls,   \* buffer
    Plain, IVs, maxInFlight, MetacCap,         \* encrypt
    DirBlobs, Cleaners, MaxReceives            \* localdisk

VARIABLES
    bBuf, bBack, bBuffered, bReaders, bWriter, bPc, bKey, bVal, bLimbo, bSeen, bGot,
    bCalls,
    eMode, eBlobs, eMeta, eIndex, ePc, eEnc, eUsed, eEpc, eUnread, eFetching, eMetac,
    eAcked, eCrashes,
    lDir, lFile, lJunk, lReaders, lPc, lWant, lSynced, lCpc, lWas, lNoDir, lAcked,
    lReceives, lCrashes

bVars == <<bBuf, bBack, bBuffered, bReaders, bWriter, bPc, bKey, bVal, bLimbo, bSeen,
           bGot, bCalls>>
eVars == <<eMode, eBlobs, eMeta, eIndex, ePc, eEnc, eUsed, eEpc, eUnread, eFetching,
           eMetac, eAcked, eCrashes>>
lVars == <<lDir, lFile, lJunk, lReaders, lPc, lWant, lSynced, lCpc, lWas, lNoDir,
           lAcked, lReceives, lCrashes>>

Buff == INSTANCE Buffer WITH
        Nothing <- Off, Clients <- Callers, NoClient <- Off, Faults <- Failing,
        buf <- bBuf, back <- bBack, buffered <- bBuffered, readers <- bReaders,
        writer <- bWriter, pc <- bPc, key <- bKey, val <- bVal, limbo <- bLimbo,
        seen <- bSeen, got <- bGot, calls <- bCalls

Encr == INSTANCE Encrypt WITH
        NoIV <- Off, Uploads <- Callers, Faults <- Failing, MaxCrashes <- MaxStops,
        mode <- eMode, blobs <- eBlobs, meta <- eMeta, index <- eIndex, pc <- ePc,
        enc <- eEnc, used <- eUsed, epc <- eEpc, unread <- eUnread, fetching <- eFetching,
        metac <- eMetac, acked <- eAcked, crashes <- eCrashes

Disk == INSTANCE LocalDisk WITH
        Blobs <- DirBlobs, NoBlob <- Off, Receivers <- Callers, Faults <- Failing,
        MaxCrashes <- MaxStops, dir <- lDir, file <- lFile, junk <- lJunk,
        readers <- lReaders, pc <- lPc, want <- lWant, synced <- lSynced,
        cpc <- lCpc, was <- lWas, noDir <- lNoDir, acked <- lAcked,
        receives <- lReceives, crashes <- lCrashes

durableVars == <<bVars, eVars, lVars>>

(* The variables of a component that does not run *)
bOff ==
    /\ bBuf = Off /\ bBack = Off /\ bBuffered = Off /\ bReaders = Off
    /\ bWriter = Off /\ bPc = Off /\ bKey = Off /\ bVal = Off /\ bLimbo = Off
    /\ bSeen = Off /\ bGot = Off /\ bCalls = Off
eOff ==
    /\ eMode = Off /\ eBlobs = Off /\ eMeta = Off /\ eIndex = Off /\ ePc = Off
    /\ eEnc = Off /\ eUsed = Off /\ eEpc = Off /\ eUnread = Off
    /\ eFetching = Off /\ eMetac = Off /\ eAcked = Off /\ eCrashes = Off
lOff ==
    /\ lDir = Off /\ lFile = Off /\ lJunk = Off /\ lReaders = Off /\ lPc = Off
    /\ lWant = Off /\ lSynced = Off /\ lCpc = Off /\ lWas = Off /\ lNoDir = Off
    /\ lAcked = Off /\ lReceives = Off /\ lCrashes = Off

DurableInit ==
    /\ IF part = "buffer" THEN Buff!Init ELSE bOff
    /\ IF part = "encrypt" THEN Encr!Init ELSE eOff
    /\ IF part = "localdisk" THEN Disk!Init ELSE lOff

DurableNext ==
    /\ UNCHANGED part
    /\ \/ part = "buffer" /\ Buff!Next /\ UNCHANGED <<eVars, lVars>>
       \/ part = "encrypt" /\ Encr!Next /\ UNCHANGED <<bVars, lVars>>
       \/ part = "localdisk" /\ Disk!Next /\ UNCHANGED <<bVars, eVars>>

DurableSpec == DurableInit /\ [][DurableNext]_<<part, durableVars>>

ASSUME DurableAssumption ==
    /\ Buff!BufferAssumption
    /\ Encr!EncryptAssumption

-----------------------------------------------------------------------------
\* The components keep their types.
DurableTypeOK ==
    /\ part = "buffer" => Buff!TypeOK
    /\ part = "encrypt" => Encr!TypeOK
    /\ part = "localdisk" => Disk!TypeOK

\* The buffered sorted.KeyValue: Get answers with a value the key had during the
\* call.
ReadsCurrent == part = "buffer" => Buff!ReadsCurrent

\* The encrypting storage: acknowledged blobs can be decrypted, in every later
\* life of the process too.
EncryptReadable == part = "encrypt" => Encr!EncryptReadable

\* The file-per-blob storage: no receiver loses its directory.
DirHeld == part = "localdisk" => Disk!DirHeld

\* The file-per-blob storage: files are whole, and those acknowledged are there.
AckedWhole == part = "localdisk" => Disk!AckedWhole
=============================================================================
