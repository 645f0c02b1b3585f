--------------------------- MODULE PackingStorage ---------------------------
(***************************************************************************)
(* Blobpacked as one of the components of Storages.                        *)
(***************************************************************************)
EXTENDS StorageBounds

CONSTANTS Files, Chunks, Parts, RemoveCallers, Sweepers, MaxZips

VARIABLES
    pSmall, pLarge, pRow, pWhole, pDead, pPc, pArg, pZip, pRpc, pRarg, pPacked,
    pUnpacked, pMarks, pSpc, pSarg, pAcked, pOverlap, pClash, pRaced, pQuiet, pGone,
    pUploads, pRemovals, pCrashes

pVars == <<pSmall, pLarge, pRow, pWhole, pDead, pPc, pArg, pZip, pRpc, pRarg, pPacked,
           pUnpacked, pMarks, pSpc, pSarg, pAcked, pOverlap, pClash, pRaced, pQuiet,
           pGone, pUploads, pRemovals, pCrashes>>

Packed == INSTANCE Blobpacked WITH
        NoBlob <- Off, NoZip <- Off, Uploads <- Callers, Removers <- RemoveCallers,
        Faults <- Failing, MaxCrashes <- MaxStops, small <- pSmall, large <- pLarge,
        row <- pRow, whole <- pWhole, dead <- pDead, pc <- pPc, arg <- pArg,
        zip <- pZip, rpc <- pRpc, rarg <- pRarg, packed <- pPacked,
        unpacked <- pUnpacked, marks <- pMarks, spc <- pSpc, sarg <- pSarg,
        acked <- pAcked, overlap <- pOverlap, clash <- pClash, raced <- pRaced,
        quiet <- pQuiet, gone <- pGone, uploads <- pUploads, removals <- pRemovals,
        crashes <- pCrashes

\* The variables of blobpacked when it does not run.
pOff ==
    /\ pSmall = Off /\ pLarge = Off /\ pRow = Off /\ pWhole = Off
    /\ pDead = Off /\ pPc = Off /\ pArg = Off /\ pZip = Off /\ pRpc = Off
    /\ pRarg = Off /\ pPacked = Off /\ pUnpacked = Off /\ pMarks = Off
    /\ pSpc = Off /\ pSarg = Off /\ pAcked = Off /\ pOverlap = Off
    /\ pClash = Off /\ pRaced = Off /\ pQuiet = Off /\ pGone = Off
    /\ pUploads = Off /\ pRemovals = Off /\ pCrashes = Off

PackedInit == IF part = "blobpacked" THEN Packed!Init ELSE pOff

PackedNext == part = "blobpacked" /\ Packed!Next /\ UNCHANGED part

PackedSpec == PackedInit /\ [][PackedNext]_<<part, pVars>>

ASSUME PackingAssumption == Packed!BlobpackedAssumption

-----------------------------------------------------------------------------
\* The packing storage keeps its types.
PackedTypeOK == part = "blobpacked" => Packed!TypeOK

\* The packing storage: every blob that was acknowledged can be read, from small
\* or from a zip.
PackedReadable == part = "blobpacked" => Packed!PackedReadable

\* The packing storage: a blob that was removed is gone.
RemovedGone == part = "blobpacked" => Packed!RemovedGone
=============================================================================
