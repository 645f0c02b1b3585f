--------------------------- MODULE DurableProofs ----------------------------
(***************************************************************************)
(* What Blobpacked, Buffer, Encrypt and LocalDisk promise, for all values  *)
(* of their constants: one section for each, with its inductive invariant, *)
(* the lemmas on its actions and its theorems.                             *)
(***************************************************************************)
EXTENDS PackingStorage, DurableStorages, Sequences, Integers, FiniteSets, TLAPS

\* A leaf is tried with Zenon first, which is the quicker of the two here.
USE ZenonT(5), SMTT(60)

-----------------------------------------------------------------------------
(***************************************************************************)
(* The blobpacked storage, for any files, chunks, uploads, removals and    *)
(* sweeps: an acknowledged blob can be fetched at every moment of its move *)
(* from small to large, apart from the two races PackedReadable names.     *)
(*                                                                         *)
(* The argument: a row names a zip that is in large and holds the blob, or *)
(* a zip that lost the race with deleteZipPack (WholeRowInv), which rests  *)
(* on what the packers (CommitInv) and the sweepers (SweepInv) know        *)
(* between their steps.  So a blob is readable when it has a row or is in  *)
(* small (PackKept).  A packer removes from small only what has a row      *)
(* (CleanInv), a removal works on blobs that are not acknowledged only     *)
(* (RemoveInv), and an upload that may still be acknowledged keeps its     *)
(* blob (KeptInv).                                                         *)
(*                                                                         *)
(* And a blob that was removed in peace stays away (GoneInv): no packer    *)
(* has it on its list, so none writes a row for it again.                  *)
(***************************************************************************)

\* The arguments of the uploads.
ArgInv ==
    \A t \in Callers :
       /\ pPc[t] = "idle" => pArg[t] = Off
       /\ pPc[t] # "idle" => pArg[t] \in Packed!AllBlobs
       /\ pPc[t] \in Packed!Packing => pArg[t] \in Files
       /\ pPc[t] \in {"zip", "commit", "clean"} => pZip[t].part < MaxZips

WholeRowInv == \A b \in Packed!AllBlobs : pRow[b] # Off => /\ b \in Packed!Contents(pRow[b])
                                             /\ pRow[b] \in pLarge \cup pRaced

CommitInv == \A t \in Callers : pPc[t] = "commit" => Packed!ZipOf(t) \in pLarge \cup pRaced

SweepInv ==
    \A s \in Sweepers :
       pSpc[s] # "idle" =>
          /\ pSarg[s] \in Packed!Zips
          /\ \/ pSarg[s] \in pRaced
             \/ /\ \A b \in Packed!AllBlobs : pRow[b] # pSarg[s]
                /\ \A t \in Callers : pPc[t] = "commit" => Packed!ZipOf(t) # pSarg[s]

CleanInv ==
    \A t \in Callers : \A b \in Packed!AllBlobs :
       pPc[t] = "clean" /\ b \in Packed!Contents(Packed!ZipOf(t)) => pRow[b] # Off \/ b \in pClash

RemoveInv ==
    \A m \in RemoveCallers :
       /\ pPacked[m] \subseteq pRarg[m] /\ pUnpacked[m] \subseteq pRarg[m]
       /\ \A b \in pRarg[m] : b \notin pAcked
       /\ \A t \in Callers : pArg[t] \in pRarg[m] => t \in pOverlap

\* A removal that does not run has no blobs.
IdleInv == \A m \in RemoveCallers : pRpc[m] = "idle" => pPacked[m] = {} /\ pUnpacked[m] = {}

PackKept(b) == b \in pClash \/ b \in pSmall \/ pRow[b] # Off

KeptInv ==
    /\ \A b \in pAcked : PackKept(b)
    /\ \A t \in Callers : pPc[t] \in Packed!Packing /\ t \notin pOverlap => PackKept(pArg[t])

PackedInv == /\ Packed!TypeOK /\ ArgInv /\ WholeRowInv /\ CommitInv
       /\ SweepInv /\ CleanInv /\ RemoveInv /\ IdleInv /\ KeptInv

-----------------------------------------------------------------------------

LEMMA PackedInitInv == ASSUME Packed!BlobpackedAssumption PROVE Packed!Init => PackedInv
<1> SUFFICES ASSUME Packed!Init PROVE PackedInv
  OBVIOUS
<1>1. Packed!NoPack \in [part : 0..MaxZips, from : Nat, to : Nat]
  BY DEF Packed!NoPack, Packed!BlobpackedAssumption
<1>2. Packed!TypeOK
  BY <1>1 DEF Packed!Init, Packed!TypeOK, Packed!AllBlobs
<1>3. ArgInv /\ WholeRowInv /\ CommitInv /\ SweepInv /\ CleanInv
  BY DEF Packed!Init, ArgInv, WholeRowInv, CommitInv, SweepInv, CleanInv, Packed!Packing
<1>4. RemoveInv /\ IdleInv /\ KeptInv
  BY DEF Packed!Init, RemoveInv, IdleInv, KeptInv, PackKept, Packed!Packing
<1> QED
  BY <1>2, <1>3, <1>4 DEF PackedInv

\* Every upload that runs has a zip of its own kind.
LEMMA ZipTyped ==
  ASSUME Packed!BlobpackedAssumption, PackedInv, NEW t \in Callers, pPc[t] \in Packed!Packing
  PROVE  Packed!ZipOf(t) \in Packed!Zips /\ Packed!ZipOf(t) # Off
<1>1. /\ pArg[t] \in Files /\ pZip[t] \in [part : 0..MaxZips, from : Nat, to : Nat]
  BY DEF PackedInv, Packed!TypeOK, ArgInv
<1> QED
  BY <1>1 DEF Packed!ZipOf, Packed!Zips, Packed!BlobpackedAssumption

-----------------------------------------------------------------------------
(* Uploads *)

LEMMA ReceiveBlobInv ==
  ASSUME Packed!BlobpackedAssumption, PackedInv, NEW t \in Callers, NEW b \in Packed!AllBlobs, Packed!ReceiveBlob(t, b)
  PROVE  PackedInv'
<1>1. /\ pPc[t] = "idle" /\ pArg[t] = Off
      /\ \A e \in Callers : pPc'[e] \in {pPc[e], "store"}
      /\ \A e \in Callers : e # t => pPc'[e] = pPc[e] /\ pArg'[e] = pArg[e]
      /\ pPc'[t] \in {"idle", "store"}
      /\ pZip' = pZip
  BY DEF PackedInv, Packed!TypeOK, ArgInv, Packed!ReceiveBlob
<1>2. /\ pAcked' \in SUBSET Packed!AllBlobs
      /\ pOverlap \subseteq pOverlap' /\ pOverlap' \in SUBSET Callers
  BY DEF PackedInv, Packed!TypeOK, Packed!ReceiveBlob
<1>3. Packed!TypeOK'
  <2>1. pPc' \in [Callers -> {"idle", "store"} \cup Packed!Packing]
    BY DEF PackedInv, Packed!TypeOK, Packed!ReceiveBlob
  <2>2. pArg' \in [Callers -> Packed!AllBlobs \cup {Off}]
    BY DEF PackedInv, Packed!TypeOK, Packed!ReceiveBlob
  <2>3. pQuiet' \in [RemoveCallers -> SUBSET Packed!AllBlobs]
    BY DEF PackedInv, Packed!TypeOK, Packed!ReceiveBlob
  <2>4. pGone' \in SUBSET Packed!AllBlobs /\ pUploads' \in Nat
    BY DEF PackedInv, Packed!TypeOK, Packed!ReceiveBlob
  <2> QED
    BY <1>1, <1>2, <2>1, <2>2, <2>3, <2>4
       DEF PackedInv, Packed!TypeOK, Packed!ReceiveBlob, Packed!stores, Packed!removing, Packed!sweeping
<1>4. ArgInv'
  <2>1. /\ pPc'[t] = "idle" => pArg'[t] = Off
        /\ pPc'[t] = "store" => pArg'[t] \in Packed!AllBlobs
    <3>1. \/ pPc' = [pPc EXCEPT ![t] = "store"] /\ pArg' = [pArg EXCEPT ![t] = b]
          \/ pPc' = pPc /\ pArg' = pArg
      BY DEF Packed!ReceiveBlob
    <3>2. /\ pPc \in [Callers -> {"idle", "store"} \cup Packed!Packing]
          /\ pArg \in [Callers -> Packed!AllBlobs \cup {Off}]
      BY DEF PackedInv, Packed!TypeOK
    <3> QED
      BY <1>1, <3>1, <3>2
  <2>2. pPc'[t] \notin Packed!Packing \cup {"zip", "commit", "clean"}
    BY <1>1 DEF Packed!Packing
  <2>3. \A e \in Callers : e # t => pPc'[e] = pPc[e] /\ pArg'[e] = pArg[e] /\ pZip'[e] = pZip[e]
    BY <1>1
  <2> SUFFICES ASSUME NEW e \in Callers
               PROVE  /\ pPc'[e] = "idle" => pArg'[e] = Off
                      /\ pPc'[e] # "idle" => pArg'[e] \in Packed!AllBlobs
                      /\ pPc'[e] \in Packed!Packing => pArg'[e] \in Files
                      /\ pPc'[e] \in {"zip", "commit", "clean"} => pZip'[e].part < MaxZips
    BY DEF ArgInv, Packed!Packing, Packed!AllBlobs
  <2>4. CASE e = t
    BY <1>1, <2>1, <2>2, <2>4
  <2>5. CASE e # t
    BY <2>3, <2>5 DEF PackedInv, ArgInv
  <2> QED
    BY <2>4, <2>5
<1>5. \A e \in Callers : pPc'[e] \in Packed!Packing => pPc[e] = pPc'[e] /\ pArg'[e] = pArg[e] /\ Packed!ZipOf(e)' = Packed!ZipOf(e)
  BY <1>1 DEF Packed!Packing, Packed!ZipOf
<1>6. WholeRowInv' /\ CommitInv' /\ SweepInv' /\ CleanInv'
  BY <1>5 DEF PackedInv, WholeRowInv, CommitInv, SweepInv, CleanInv, Packed!ReceiveBlob, Packed!stores, Packed!sweeping, Packed!Packing
<1>7. RemoveInv' /\ IdleInv'
  <2>1. \A m \in RemoveCallers : b \in pRarg[m] => b \in Packed!Removing
    BY DEF Packed!Removing
  <2>2. b # Off
    BY DEF Packed!BlobpackedAssumption
  <2>3. \A m \in RemoveCallers : \A e \in pRarg[m] : e \notin pAcked'
    BY <2>1 DEF PackedInv, RemoveInv, Packed!ReceiveBlob
  <2>4. \A m \in RemoveCallers : \A e \in Callers : pArg'[e] \in pRarg[m] => e \in pOverlap'
    <3> SUFFICES ASSUME NEW m \in RemoveCallers, NEW e \in Callers, pArg'[e] \in pRarg[m]
                 PROVE  e \in pOverlap'
      OBVIOUS
    <3>1. CASE pArg'[e] = pArg[e]
      BY <1>2, <3>1 DEF PackedInv, RemoveInv
    <3>2. CASE pArg'[e] # pArg[e]
      <4>1. e = t /\ pArg'[t] = b
        BY <1>1, <3>2 DEF PackedInv, Packed!TypeOK, Packed!ReceiveBlob
      <4> QED
        BY <2>1, <3>2, <4>1 DEF Packed!ReceiveBlob
    <3> QED
      BY <3>1, <3>2
  <2> QED
    BY <2>3, <2>4 DEF PackedInv, RemoveInv, IdleInv, Packed!ReceiveBlob, Packed!removing
<1>8. KeptInv'
  <2>1. \A e \in pAcked' : e \in pAcked \/ pRow[e] # Off
    BY DEF Packed!ReceiveBlob
  <2>2. \A e \in Callers : pPc'[e] \in Packed!Packing /\ e \notin pOverlap' => PackKept(pArg'[e])
    BY <1>2, <1>5 DEF PackedInv, KeptInv
  <2> QED
    BY <2>1, <2>2 DEF PackedInv, KeptInv, PackKept, Packed!ReceiveBlob, Packed!stores
<1> QED
  BY <1>3, <1>4, <1>6, <1>7, <1>8 DEF PackedInv

\* What an upload's step may do to the rest.
Frame == /\ UNCHANGED <<pLarge, pRow, pDead, pRaced, pClash, Packed!removing, Packed!sweeping, Packed!bounds>>
         /\ pSmall \subseteq pSmall' /\ pSmall' \subseteq Packed!AllBlobs
         /\ pQuiet' \in [RemoveCallers -> SUBSET Packed!AllBlobs] /\ pGone' \subseteq Packed!AllBlobs

\* A call that returns acknowledges nothing, or a blob that is kept.
LEMMA PackReturnInv ==
  ASSUME Packed!BlobpackedAssumption, PackedInv, NEW t \in Callers, pPc[t] # "idle", Packed!return(t), Frame,
         \/ pAcked' = pAcked
         \/ /\ pAcked' = pAcked \cup {pArg[t]} /\ t \notin pOverlap
            /\ pPc[t] \in Packed!Packing \/ pArg[t] \in pSmall'
  PROVE  PackedInv'
<1>1. /\ pPc' = [pPc EXCEPT ![t] = "idle"] /\ pArg' = [pArg EXCEPT ![t] = Off]
      /\ pZip' = [pZip EXCEPT ![t] = Packed!NoPack] /\ pOverlap' = pOverlap \ {t}
      /\ pPc \in [Callers -> {"idle", "store"} \cup Packed!Packing]
      /\ pArg \in [Callers -> Packed!AllBlobs \cup {Off}]
      /\ pZip \in [Callers -> [part : 0..MaxZips, from : Nat, to : Nat]]
      /\ pArg[t] \in Packed!AllBlobs /\ Off \notin Packed!AllBlobs
  BY DEF PackedInv, Packed!TypeOK, ArgInv, Packed!return, Packed!BlobpackedAssumption
<1>2. Packed!NoPack \in [part : 0..MaxZips, from : Nat, to : Nat]
  BY DEF Packed!NoPack, Packed!BlobpackedAssumption
<1>3. Packed!TypeOK'
  BY <1>1, <1>2 DEF PackedInv, Packed!TypeOK, Frame, Packed!removing, Packed!sweeping, Packed!bounds
<1>4. ArgInv'
  BY <1>1 DEF PackedInv, ArgInv, Packed!Packing
<1>5. \A e \in Callers : pPc'[e] # "idle" => pPc[e] = pPc'[e] /\ pArg'[e] = pArg[e] /\ Packed!ZipOf(e)' = Packed!ZipOf(e)
  BY <1>1 DEF Packed!ZipOf
<1>6. WholeRowInv' /\ CommitInv' /\ SweepInv' /\ CleanInv'
  BY <1>5 DEF PackedInv, WholeRowInv, CommitInv, SweepInv, CleanInv, Frame, Packed!sweeping
<1>7. RemoveInv' /\ IdleInv'
  <2>1. \A m \in RemoveCallers : \A e \in Callers : pArg'[e] \in pRarg[m] => e \in pOverlap'
    BY <1>1 DEF PackedInv, Packed!TypeOK, RemoveInv
  <2>2. \A m \in RemoveCallers : \A b \in pRarg[m] : b \notin pAcked'
    BY DEF PackedInv, RemoveInv
  <2> QED
    BY <2>1, <2>2, Zenon DEF PackedInv, RemoveInv, IdleInv, Frame, Packed!removing
<1>8. KeptInv'
  <2>1. \A b : PackKept(b) => PackKept(b)'
    BY DEF PackKept, Frame
  <2>2. \A e \in Callers : pPc'[e] \in Packed!Packing /\ e \notin pOverlap' => PackKept(pArg[e]) /\ pArg'[e] = pArg[e]
    BY <1>1, <1>5 DEF PackedInv, KeptInv, Packed!Packing
  <2>3. \A b \in pAcked' : b \in pAcked \/ PackKept(b) \/ b \in pSmall'
    BY DEF PackedInv, KeptInv
  <2> QED
    BY <2>1, <2>2, <2>3 DEF PackedInv, KeptInv, PackKept
<1> QED
  BY <1>3, <1>4, <1>6, <1>7, <1>8 DEF PackedInv

\* A packer moves on: pc and zip change for one upload, which keeps its blob.
LEMMA MoveInv ==
  ASSUME Packed!BlobpackedAssumption, PackedInv, NEW t \in Callers, NEW to \in Packed!Packing, NEW z,
         pArg[t] \in Files, pPc' = [pPc EXCEPT ![t] = to], pZip' = [pZip EXCEPT ![t] = z],
         z \in [part : 0..MaxZips, from : Nat, to : Nat],
         to \notin {"commit", "clean"}, to = "zip" => z.part < MaxZips,
         pPc[t] \in Packed!Packing \/ pArg[t] \in pSmall',
         Frame, UNCHANGED <<pArg, pOverlap, pAcked>>
  PROVE  PackedInv'
<1>1. /\ pPc \in [Callers -> {"idle", "store"} \cup Packed!Packing]
      /\ pZip \in [Callers -> [part : 0..MaxZips, from : Nat, to : Nat]]
  BY DEF PackedInv, Packed!TypeOK
<1>2. Packed!TypeOK'
  BY <1>1 DEF PackedInv, Packed!TypeOK, Frame, Packed!removing, Packed!sweeping, Packed!bounds
<1>3. ArgInv'
  BY <1>1 DEF PackedInv, ArgInv, Packed!Packing, Packed!AllBlobs
<1>4. \A e \in Callers : pPc'[e] \in {"commit", "clean"} => pPc[e] = pPc'[e] /\ Packed!ZipOf(e)' = Packed!ZipOf(e)
  BY <1>1 DEF Packed!ZipOf
<1>5. WholeRowInv' /\ CommitInv' /\ SweepInv' /\ CleanInv'
  BY <1>4 DEF PackedInv, WholeRowInv, CommitInv, SweepInv, CleanInv, Frame, Packed!sweeping
<1>6. RemoveInv' /\ IdleInv'
  BY Zenon DEF PackedInv, RemoveInv, IdleInv, Frame, Packed!removing
<1>7. KeptInv'
  <2>1. \A b : PackKept(b) => PackKept(b)'
    BY Zenon DEF PackKept, Frame
  <2>2. \A e \in Callers : pPc'[e] \in Packed!Packing => pPc[e] \in Packed!Packing \/ pArg[e] \in pSmall'
    BY <1>1
  <2> QED
    BY <2>1, <2>2 DEF PackedInv, KeptInv, PackKept
<1> QED
  BY <1>2, <1>3, <1>5, <1>6, <1>7 DEF PackedInv

LEMMA StoreSmallInv ==
  ASSUME Packed!BlobpackedAssumption, PackedInv, NEW t \in Callers, Packed!storeSmall(t)
  PROVE  PackedInv'
<1>1. /\ pPc[t] = "store" /\ pArg[t] \in Packed!AllBlobs /\ pArg[t] \in pSmall'
      /\ pZip[t] \in [part : 0..MaxZips, from : Nat, to : Nat]
  BY DEF PackedInv, Packed!TypeOK, ArgInv, Packed!storeSmall
<1>2. Frame
  <2>1. pQuiet' \in [RemoveCallers -> SUBSET Packed!AllBlobs]
    BY DEF PackedInv, Packed!TypeOK, Packed!storeSmall
  <2> QED
    BY <1>1, <2>1 DEF PackedInv, Packed!TypeOK, Frame, Packed!storeSmall
<1>3. CASE pArg[t] \in Files
  <2>1. pPc' = [pPc EXCEPT ![t] = "scan"] /\ UNCHANGED <<pArg, pZip, pOverlap, pAcked>>
    BY <1>3 DEF Packed!storeSmall
  <2>2. pZip' = [pZip EXCEPT ![t] = pZip[t]]
    BY <2>1 DEF PackedInv, Packed!TypeOK
  <2>3. "scan" \in Packed!Packing
    BY DEF Packed!Packing
  <2> HIDE DEF Packed!Packing
  <2> QED
    BY <1>1, <1>2, <1>3, <2>1, <2>2, <2>3, MoveInv, Zenon
<1>4. CASE pArg[t] \notin Files
  BY <1>1, <1>2, <1>4, PackReturnInv DEF Packed!storeSmall, Packed!returnNil
<1> QED
  BY <1>3, <1>4

LEMMA StoreSmallFailsInv ==
  ASSUME Packed!BlobpackedAssumption, PackedInv, NEW t \in Callers, Packed!storeSmallFails(t)
  PROVE  PackedInv'
<1>1. pPc[t] = "store" /\ pArg[t] \in Packed!AllBlobs
  BY DEF PackedInv, ArgInv, Packed!storeSmallFails
<1>2. Frame
  BY <1>1 DEF PackedInv, Packed!TypeOK, Frame, Packed!storeSmallFails
<1> QED
  BY <1>1, <1>2, PackReturnInv DEF Packed!storeSmallFails, Packed!returnErr

-----------------------------------------------------------------------------
(* Packers *)

\* packFile returns early, or with the whole file packed.
LEMMA PackReturnsInv ==
  ASSUME Packed!BlobpackedAssumption, PackedInv, NEW t \in Callers,
         Packed!packFails(t) \/ Packed!notPacked(t) \/ Packed!chunkMissing(t) \/ Packed!setWhole(t)
  PROVE  PackedInv'
<1>1. pPc[t] \in Packed!Packing /\ pPc[t] # "idle" /\ Packed!returnNil(t)
  BY DEF Packed!packFails, Packed!notPacked, Packed!chunkMissing, Packed!setWhole, Packed!Packing
<1>2. Frame
  BY Zenon DEF PackedInv, Packed!TypeOK, Frame, Packed!packFails, Packed!notPacked, Packed!chunkMissing, Packed!setWhole, Packed!packStep
<1> QED
  BY <1>1, <1>2, PackReturnInv DEF Packed!returnNil

LEMMA ScanChunksInv ==
  ASSUME Packed!BlobpackedAssumption, PackedInv, NEW t \in Callers, Packed!scanChunks(t)
  PROVE  PackedInv'
<1>1. /\ pPc[t] \in Packed!Packing /\ "read" \in Packed!Packing /\ pArg[t] \in Files
      /\ pZip[t] \in [part : 0..MaxZips, from : Nat, to : Nat]
      /\ pZip' = [pZip EXCEPT ![t] = pZip[t]] /\ pPc' = [pPc EXCEPT ![t] = "read"]
      /\ UNCHANGED <<pArg, pOverlap, pAcked>>
  BY DEF PackedInv, Packed!TypeOK, ArgInv, Packed!scanChunks, Packed!Packing
<1>2. Frame
  BY DEF PackedInv, Packed!TypeOK, Frame, Packed!scanChunks, Packed!packStep
<1> QED
  BY <1>1, <1>2, MoveInv, Zenon

LEMMA ReadChunksInv ==
  ASSUME Packed!BlobpackedAssumption, PackedInv, NEW t \in Callers, Packed!readChunks(t)
  PROVE  PackedInv'
<1>1. /\ pPc[t] \in Packed!Packing /\ "zip" \in Packed!Packing /\ pArg[t] \in Files
      /\ pZip \in [Callers -> [part : 0..MaxZips, from : Nat, to : Nat]]
      /\ pZip[t].part < MaxZips /\ pPc' = [pPc EXCEPT ![t] = "zip"]
      /\ UNCHANGED <<pArg, pOverlap, pAcked>>
  BY DEF PackedInv, Packed!TypeOK, ArgInv, Packed!readChunks, Packed!Packing
<1>2. PICK n \in pZip[t].from..Len(Parts[pArg[t]]) : pZip' = [pZip EXCEPT ![t].to = n]
  BY Zenon DEF Packed!readChunks
<1>3. n \in Nat
  BY <1>1, <1>2
<1> DEFINE z == [pZip[t] EXCEPT !.to = n]
<1>4. pZip' = [pZip EXCEPT ![t] = z]
  BY <1>2
<1>5. z \in [part : 0..MaxZips, from : Nat, to : Nat] /\ z.part < MaxZips
  BY <1>1, <1>3
<1>6. Frame
  BY DEF PackedInv, Packed!TypeOK, Frame, Packed!readChunks, Packed!packStep
<1> HIDE DEF z
<1> QED
  BY <1>1, <1>4, <1>5, <1>6, MoveInv, Zenon

\* The zip is in large before the packer goes on to its rows.
LEMMA WriteAZipInv ==
  ASSUME Packed!BlobpackedAssumption, PackedInv, NEW t \in Callers, Packed!writeAZip(t)
  PROVE  PackedInv'
<1>1. /\ pPc \in [Callers -> {"idle", "store"} \cup Packed!Packing]
      /\ pPc[t] = "zip" /\ pPc' = [pPc EXCEPT ![t] = "commit"] /\ pPc[t] \in Packed!Packing
      /\ pLarge' = pLarge \cup {Packed!ZipOf(t)} /\ pRaced \subseteq pRaced'
      /\ pRaced' \subseteq pRaced \cup {Packed!ZipOf(t)}
      /\ \A e \in Callers : Packed!ZipOf(e)' = Packed!ZipOf(e)
      /\ UNCHANGED <<pSmall, pRow, pClash, pArg, pZip, pOverlap, pAcked>>
      /\ UNCHANGED <<pDead, Packed!removing, Packed!sweeping, pClash, pQuiet, pGone, Packed!bounds>>
  BY DEF PackedInv, Packed!TypeOK, Packed!writeAZip, Packed!packStep, Packed!ZipOf, Packed!Packing
<1>2. Packed!ZipOf(t) \in Packed!Zips
  BY <1>1, ZipTyped
<1>3. Packed!TypeOK'
  BY <1>1, <1>2 DEF PackedInv, Packed!TypeOK, Packed!Packing, Packed!removing, Packed!sweeping, Packed!bounds
<1>4. ArgInv'
  BY <1>1, Zenon DEF PackedInv, ArgInv, Packed!Packing
<1>5. WholeRowInv' /\ CommitInv' /\ CleanInv'
  BY <1>1, Zenon DEF PackedInv, WholeRowInv, CommitInv, CleanInv
<1>6. SweepInv'
  <2>1. \A s \in Sweepers : pSarg[s] = Packed!ZipOf(t) => pSarg[s] \in pRaced'
    BY DEF Packed!writeAZip
  <2> QED
    BY <1>1, <2>1 DEF PackedInv, SweepInv, Packed!sweeping
<1>7. RemoveInv' /\ IdleInv' /\ KeptInv'
  BY <1>1 DEF PackedInv, RemoveInv, IdleInv, KeptInv, PackKept, Packed!removing
<1> QED
  BY <1>3, <1>4, <1>5, <1>6, <1>7 DEF PackedInv

LEMMA CommitMetaInv ==
  ASSUME Packed!BlobpackedAssumption, PackedInv, NEW t \in Callers, Packed!commitMeta(t)
  PROVE  PackedInv'
<1>1. /\ pPc \in [Callers -> {"idle", "store"} \cup Packed!Packing]
      /\ pPc[t] = "commit" /\ pPc' = [pPc EXCEPT ![t] = "clean"] /\ pPc[t] \in Packed!Packing
      /\ pRow' \in [Packed!AllBlobs -> {pRow[b] : b \in Packed!AllBlobs} \cup {Packed!ZipOf(t)}]
      /\ \A b \in Packed!AllBlobs : pRow'[b] = IF b \in Packed!Contents(Packed!ZipOf(t)) THEN Packed!ZipOf(t) ELSE pRow[b]
      /\ \A e \in Callers : Packed!ZipOf(e)' = Packed!ZipOf(e)
      /\ UNCHANGED <<pSmall, pLarge, pRaced, pArg, pZip, pOverlap, pAcked>>
      /\ UNCHANGED <<pDead, Packed!removing, Packed!sweeping, pClash, pQuiet, pGone, Packed!bounds>>
  BY Zenon DEF PackedInv, Packed!TypeOK, Packed!commitMeta, Packed!packStep, Packed!ZipOf, Packed!Packing
<1>2. Packed!ZipOf(t) \in Packed!Zips /\ Packed!ZipOf(t) # Off
  BY <1>1, ZipTyped
<1>3. pRow' \in [Packed!AllBlobs -> Packed!Zips \cup {Off}]
  BY <1>1, <1>2 DEF PackedInv, Packed!TypeOK
<1>4. Packed!TypeOK'
  BY <1>1, <1>3, Zenon DEF PackedInv, Packed!TypeOK, Packed!Packing, Packed!removing, Packed!sweeping, Packed!bounds
<1>5. ArgInv'
  BY <1>1 DEF PackedInv, ArgInv, Packed!Packing
<1>6. WholeRowInv'
  BY <1>1 DEF PackedInv, WholeRowInv, CommitInv
<1>7. CommitInv'
  BY <1>1 DEF PackedInv, CommitInv
<1>8. CleanInv'
  BY <1>1, <1>2, Zenon DEF PackedInv, CleanInv
<1>9. SweepInv'
  BY <1>1, Zenon DEF PackedInv, SweepInv, Packed!sweeping
<1>10. RemoveInv' /\ IdleInv'
  BY <1>1, Zenon DEF PackedInv, RemoveInv, IdleInv, Packed!removing
<1>11. KeptInv'
  <2>1. \A b \in Packed!AllBlobs : PackKept(b) => PackKept(b)'
    BY <1>1, <1>2 DEF PackKept
  <2>2. pAcked \subseteq Packed!AllBlobs /\ \A e \in Callers : pPc[e] \in Packed!Packing => pArg[e] \in Packed!AllBlobs
    BY DEF PackedInv, Packed!TypeOK, ArgInv, Packed!AllBlobs
  <2>3. \A e \in Callers : pPc'[e] \in Packed!Packing => pPc[e] \in Packed!Packing
    BY <1>1, Zenon
  <2> QED
    BY <1>1, <2>1, <2>2, <2>3, Zenon DEF PackedInv, KeptInv, PackKept
<1> QED
  BY <1>4, <1>5, <1>6, <1>7, <1>8, <1>9, <1>10, <1>11 DEF PackedInv

LEMMA CleanSmallInv ==
  ASSUME Packed!BlobpackedAssumption, PackedInv, NEW t \in Callers, Packed!cleanSmall(t)
  PROVE  PackedInv'
<1>1. PICK S \in SUBSET Packed!Contents(Packed!ZipOf(t)) : pSmall' = pSmall \ S
  BY Zenon DEF Packed!cleanSmall
<1> DEFINE z == [part |-> pZip[t].part + 1, from |-> pZip[t].to, to |-> pZip[t].to]
<1>2. /\ pPc \in [Callers -> {"idle", "store"} \cup Packed!Packing]
      /\ pZip \in [Callers -> [part : 0..MaxZips, from : Nat, to : Nat]]
      /\ pPc[t] = "clean" /\ pPc[t] \in Packed!Packing /\ pZip[t].part < MaxZips /\ pArg[t] \in Files
      /\ pZip' = [pZip EXCEPT ![t] = z]
      /\ UNCHANGED <<pLarge, pRow, pRaced, pArg, pOverlap, pAcked>>
      /\ UNCHANGED <<pDead, Packed!removing, Packed!sweeping, pClash, pQuiet, pGone, Packed!bounds>>
  BY Zenon DEF PackedInv, Packed!TypeOK, ArgInv, Packed!cleanSmall, Packed!packStep, Packed!Packing
<1>3. PICK to \in {"whole", "read"} : pPc' = [pPc EXCEPT ![t] = to]
  BY Zenon DEF Packed!cleanSmall
<1>4. z \in [part : 0..MaxZips, from : Nat, to : Nat]
  BY <1>2 DEF Packed!BlobpackedAssumption
<1> HIDE DEF z
<1>5. Packed!TypeOK'
  BY <1>1, <1>2, <1>3, <1>4 DEF PackedInv, Packed!TypeOK, Packed!Packing, Packed!removing, Packed!sweeping, Packed!bounds
<1>6. ArgInv'
  BY <1>2, <1>3 DEF PackedInv, ArgInv, Packed!Packing
<1>7. \A e \in Callers : pPc'[e] \in {"commit", "clean"} => pPc[e] = pPc'[e] /\ Packed!ZipOf(e)' = Packed!ZipOf(e)
  BY <1>2, <1>3 DEF Packed!ZipOf
<1>8. WholeRowInv' /\ CommitInv' /\ SweepInv' /\ CleanInv'
  BY <1>2, <1>7, Zenon DEF PackedInv, WholeRowInv, CommitInv, SweepInv, CleanInv, Packed!sweeping
<1>9. RemoveInv' /\ IdleInv'
  BY <1>2, Zenon DEF PackedInv, RemoveInv, IdleInv, Packed!removing
<1>10. KeptInv'
  <2>1. \A b \in Packed!AllBlobs : PackKept(b) => PackKept(b)'
    BY <1>1, <1>2 DEF PackedInv, CleanInv, PackKept
  <2>2. pAcked \subseteq Packed!AllBlobs /\ \A e \in Callers : pPc[e] \in Packed!Packing => pArg[e] \in Packed!AllBlobs
    BY DEF PackedInv, Packed!TypeOK, ArgInv, Packed!AllBlobs
  <2>3. \A e \in Callers : pPc'[e] \in Packed!Packing => pPc[e] \in Packed!Packing
    BY <1>2, <1>3
  <2> QED
    BY <1>2, <2>1, <2>2, <2>3, Zenon DEF PackedInv, KeptInv, PackKept
<1> QED
  BY <1>5, <1>6, <1>8, <1>9, <1>10 DEF PackedInv

-----------------------------------------------------------------------------
(* Removals *)

LEMMA PackRemoveInv ==
  ASSUME Packed!BlobpackedAssumption, PackedInv, NEW m \in RemoveCallers, NEW S \in SUBSET Packed!AllBlobs, Packed!RemoveBlobs(m, S)
  PROVE  PackedInv'
<1>1. /\ pRarg \in [RemoveCallers -> SUBSET Packed!AllBlobs] /\ pRpc[m] = "idle"
      /\ pRarg' = [pRarg EXCEPT ![m] = S] /\ pAcked' = pAcked \ S
      /\ pOverlap' = pOverlap \cup {t \in Callers : pArg[t] \in S}
      /\ UNCHANGED <<pSmall, pRow, pDead, pPacked, pUnpacked, pMarks, pClash, pGone>>
      /\ UNCHANGED <<pLarge, pWhole, pPc, pArg, pZip, pSpc, pSarg, pRaced, pUploads, pCrashes>>
  BY DEF PackedInv, Packed!TypeOK, Packed!RemoveBlobs, Packed!removeStep, Packed!receiving, Packed!sweeping
<1>2. Packed!TypeOK'
  <2>1. pRpc' \in [RemoveCallers -> {"idle", "lookup", "remove"}] /\ pRemovals' \in Nat
    BY DEF PackedInv, Packed!TypeOK, Packed!RemoveBlobs
  <2>2. pQuiet' \in [RemoveCallers -> SUBSET Packed!AllBlobs]
    <3>1. {b \in S : /\ \A t \in Callers : b \notin Packed!Holds(t)
                     /\ pRow[b] = Off \/ b \notin pSmall} \in SUBSET Packed!AllBlobs
      OBVIOUS
    <3> QED
      BY <3>1 DEF PackedInv, Packed!TypeOK, Packed!RemoveBlobs
  <2> QED
    BY <1>1, <2>1, <2>2, Zenon DEF PackedInv, Packed!TypeOK
<1>3. \A t \in Callers : Packed!ZipOf(t)' = Packed!ZipOf(t)
  BY <1>1, Zenon DEF Packed!ZipOf
<1>4. ArgInv' /\ WholeRowInv' /\ CommitInv' /\ SweepInv' /\ CleanInv'
  BY <1>1, <1>3, Zenon DEF PackedInv, ArgInv, WholeRowInv, CommitInv, SweepInv, CleanInv
<1>5. RemoveInv'
  <2> SUFFICES ASSUME NEW r \in RemoveCallers
               PROVE  /\ pPacked[r] \subseteq pRarg'[r] /\ pUnpacked[r] \subseteq pRarg'[r]
                      /\ \A b \in pRarg'[r] : b \notin pAcked'
                      /\ \A t \in Callers : pArg[t] \in pRarg'[r] => t \in pOverlap'
    BY <1>1, Zenon DEF RemoveInv
  <2>1. CASE r # m
    BY <1>1, <2>1 DEF PackedInv, RemoveInv
  <2>2. CASE r = m
    BY <1>1, <2>2 DEF PackedInv, IdleInv
  <2> QED
    BY <2>1, <2>2, Zenon
<1>6. IdleInv'
  BY <1>1 DEF PackedInv, IdleInv, Packed!RemoveBlobs
<1>7. KeptInv'
  BY <1>1, Zenon DEF PackedInv, KeptInv, PackKept
<1> QED
  BY <1>2, <1>4, <1>5, <1>6, <1>7 DEF PackedInv

\* What the later steps of a removal leave alone.
RemovalFrame ==
    /\ UNCHANGED <<pLarge, pWhole, pRaced, pPc, pArg, pZip, pSpc, pSarg, pAcked, pOverlap>>
    /\ \A m \in RemoveCallers : /\ pPacked'[m] \subseteq pRarg'[m] /\ pUnpacked'[m] \subseteq pRarg'[m]
                                /\ pRarg'[m] \subseteq pRarg[m]
                                /\ pRpc'[m] = "idle" => pPacked'[m] = {} /\ pUnpacked'[m] = {}

LEMMA RemovalFrameInv ==
  ASSUME Packed!BlobpackedAssumption, PackedInv, RemovalFrame, Packed!TypeOK',
         \A b \in Packed!AllBlobs : pRow'[b] = pRow[b] \/ pRow'[b] = Off,
         \A t \in Callers : \A b \in Packed!AllBlobs :
            pPc[t] = "clean" /\ b \in Packed!Contents(Packed!ZipOf(t)) => pRow'[b] = pRow[b] \/ b \in pClash',
         pClash \subseteq pClash',
         \A b \in Packed!AllBlobs : PackKept(b) => \/ b \in pClash' \cup pSmall' \/ pRow'[b] # Off
                                     \/ \E m \in RemoveCallers : b \in pRarg[m]
  PROVE  PackedInv'
<1>1. \A t \in Callers : Packed!ZipOf(t)' = Packed!ZipOf(t)
  BY Zenon DEF RemovalFrame, Packed!ZipOf
<1>2. ArgInv' /\ WholeRowInv' /\ CommitInv' /\ IdleInv'
  BY <1>1, Zenon DEF PackedInv, ArgInv, WholeRowInv, CommitInv, IdleInv, RemovalFrame
<1>3. SweepInv'
  <2> SUFFICES ASSUME NEW s \in Sweepers, pSpc[s] # "idle"
               PROVE  /\ pSarg[s] \in Packed!Zips
                      /\ \/ pSarg[s] \in pRaced
                         \/ /\ \A b \in Packed!AllBlobs : pRow'[b] # pSarg[s]
                            /\ \A t \in Callers : pPc[t] = "commit" => Packed!ZipOf(t) # pSarg[s]
    BY <1>1, Zenon DEF SweepInv, RemovalFrame
  <2>1. pSarg[s] \in Packed!Zips /\ pSarg[s] # Off
    BY Zenon DEF PackedInv, SweepInv, Packed!BlobpackedAssumption
  <2> QED
    BY <2>1, Zenon DEF PackedInv, SweepInv
<1>4. CleanInv'
  BY <1>1, Zenon DEF PackedInv, CleanInv, RemovalFrame
<1>5. RemoveInv'
  BY Zenon DEF PackedInv, RemoveInv, RemovalFrame
<1>6. KeptInv'
  <2>1. pAcked \subseteq Packed!AllBlobs /\ \A e \in Callers : pPc[e] \in Packed!Packing => pArg[e] \in Packed!AllBlobs
    BY DEF PackedInv, Packed!TypeOK, ArgInv, Packed!AllBlobs
  <2>2. \A b \in pAcked : \A m \in RemoveCallers : b \notin pRarg[m]
    BY Zenon DEF PackedInv, RemoveInv
  <2>3. \A t \in Callers : t \notin pOverlap => \A m \in RemoveCallers : pArg[t] \notin pRarg[m]
    BY Zenon DEF PackedInv, RemoveInv
  <2> QED
    BY <2>1, <2>2, <2>3, Zenon DEF PackedInv, KeptInv, PackKept, RemovalFrame
<1> QED
  BY <1>2, <1>3, <1>4, <1>5, <1>6, Zenon DEF PackedInv

LEMMA GetMetaRowInv ==
  ASSUME Packed!BlobpackedAssumption, PackedInv, NEW m \in RemoveCallers, NEW b \in Packed!AllBlobs, Packed!getMetaRow(m, b)
  PROVE  PackedInv'
<1>1. /\ pPacked \in [RemoveCallers -> SUBSET Packed!AllBlobs] /\ pUnpacked \in [RemoveCallers -> SUBSET Packed!AllBlobs]
      /\ pMarks \in [RemoveCallers -> SUBSET Packed!Zips] /\ pRpc \in [RemoveCallers -> {"idle", "lookup", "remove"}]
      /\ pRow[b] \in Packed!Zips \cup {Off} /\ b \in pRarg[m] /\ pRpc[m] = "lookup"
  BY DEF PackedInv, Packed!TypeOK, Packed!getMetaRow
<1>2. /\ \A r \in RemoveCallers : pPacked'[r] \subseteq pPacked[r] \cup (IF r = m THEN {b} ELSE {})
      /\ \A r \in RemoveCallers : pUnpacked'[r] \subseteq pUnpacked[r] \cup (IF r = m THEN {b} ELSE {})
      /\ \A r \in RemoveCallers : r # m => pRpc'[r] = pRpc[r] /\ pPacked'[r] = pPacked[r] /\ pUnpacked'[r] = pUnpacked[r]
      /\ pRpc'[m] # "idle"
  BY <1>1 DEF Packed!getMetaRow
<1>3. /\ UNCHANGED <<pLarge, pWhole, pRaced, pPc, pArg, pZip, pSpc, pSarg, pAcked, pOverlap>>
      /\ UNCHANGED <<pSmall, pRow, pDead, pRarg, pClash, pQuiet, pGone, pUploads, pRemovals, pCrashes>>
  BY DEF Packed!getMetaRow, Packed!removeStep, Packed!receiving, Packed!sweeping
<1>4. RemovalFrame
  BY <1>1, <1>2, <1>3, Zenon DEF PackedInv, RemoveInv, IdleInv, RemovalFrame
<1>5. Packed!TypeOK'
  <2>1. pPacked' \in [RemoveCallers -> SUBSET Packed!AllBlobs] /\ pUnpacked' \in [RemoveCallers -> SUBSET Packed!AllBlobs]
    BY <1>1, Zenon DEF Packed!getMetaRow
  <2>2. pMarks' \in [RemoveCallers -> SUBSET Packed!Zips] /\ pRpc' \in [RemoveCallers -> {"idle", "lookup", "remove"}]
    BY <1>1 DEF Packed!getMetaRow
  <2> QED
    BY <1>3, <2>1, <2>2 DEF PackedInv, Packed!TypeOK
<1> QED
  BY <1>3, <1>4, <1>5, RemovalFrameInv DEF PackKept

\* An action that ends with the sets of one removal emptied or made smaller.
LEMMA RemovalEndsInv ==
  ASSUME Packed!BlobpackedAssumption, PackedInv, NEW m \in RemoveCallers,
         Packed!getMetaRowFails(m) \/ Packed!removeRowsFails(m) \/ Packed!removeReturns(m)
  PROVE  PackedInv'
<1>1. /\ pPacked \in [RemoveCallers -> SUBSET Packed!AllBlobs] /\ pUnpacked \in [RemoveCallers -> SUBSET Packed!AllBlobs]
      /\ pRarg \in [RemoveCallers -> SUBSET Packed!AllBlobs] /\ pMarks \in [RemoveCallers -> SUBSET Packed!Zips]
      /\ pRpc \in [RemoveCallers -> {"idle", "lookup", "remove"}]
      /\ pQuiet \in [RemoveCallers -> SUBSET Packed!AllBlobs]
  BY DEF PackedInv, Packed!TypeOK
<1>2. /\ UNCHANGED <<pLarge, pWhole, pRaced, pPc, pArg, pZip, pSpc, pSarg, pAcked, pOverlap>>
      /\ UNCHANGED <<pSmall, pRow, pDead, pClash, pUploads, pRemovals, pCrashes>>
  BY DEF Packed!getMetaRowFails, Packed!removeRowsFails, Packed!removeReturns, Packed!removeStep, Packed!receiving, Packed!sweeping
<1>3. CASE Packed!getMetaRowFails(m)
  <2>1. RemovalFrame
    BY <1>1, <1>2, <1>3 DEF PackedInv, RemoveInv, IdleInv, RemovalFrame, Packed!getMetaRowFails
  <2>2. Packed!TypeOK'
    BY <1>1, <1>2, <1>3, Zenon DEF PackedInv, Packed!TypeOK, Packed!getMetaRowFails
  <2> QED
    BY <1>2, <2>1, <2>2, RemovalFrameInv, Zenon DEF PackKept
<1>4. CASE Packed!removeRowsFails(m)
  <2>1. RemovalFrame
    BY <1>1, <1>2, <1>4 DEF PackedInv, RemoveInv, IdleInv, RemovalFrame, Packed!removeRowsFails
  <2>2. Packed!TypeOK'
    BY <1>1, <1>2, <1>4, Zenon DEF PackedInv, Packed!TypeOK, Packed!removeRowsFails
  <2> QED
    BY <1>2, <2>1, <2>2, RemovalFrameInv, Zenon DEF PackKept
<1>5. CASE Packed!removeReturns(m)
  <2>1. RemovalFrame
    BY <1>1, <1>2, <1>5, Zenon DEF PackedInv, RemoveInv, IdleInv, RemovalFrame, Packed!removeReturns
  <2>2. Packed!TypeOK'
    BY <1>1, <1>2, <1>5, Zenon DEF PackedInv, Packed!TypeOK, Packed!removeReturns
  <2> QED
    BY <1>2, <2>1, <2>2, RemovalFrameInv, Zenon DEF PackKept
<1> QED
  BY <1>3, <1>4, <1>5

LEMMA RemoveSmallInv ==
  ASSUME Packed!BlobpackedAssumption, PackedInv, NEW m \in RemoveCallers, Packed!removeSmall(m) \/ Packed!removeSmallFails(m)
  PROVE  PackedInv'
<1>1. PICK S \in SUBSET pUnpacked[m] : pSmall' = pSmall \ S
  BY DEF Packed!removeSmall, Packed!removeSmallFails
<1>2. /\ pUnpacked \in [RemoveCallers -> SUBSET Packed!AllBlobs] /\ pQuiet' \in [RemoveCallers -> SUBSET Packed!AllBlobs]
      /\ pUnpacked' = [pUnpacked EXCEPT ![m] = {}]
      /\ UNCHANGED <<pLarge, pWhole, pRaced, pPc, pArg, pZip, pSpc, pSarg, pAcked, pOverlap>>
      /\ UNCHANGED <<pRow, pDead, pRpc, pRarg, pPacked, pMarks, pClash, pGone, pUploads, pRemovals, pCrashes>>
  BY Zenon DEF PackedInv, Packed!TypeOK, Packed!removeSmall, Packed!removeSmallFails, Packed!removeStep, Packed!receiving, Packed!sweeping
<1>3. RemovalFrame
  BY <1>2, Zenon DEF PackedInv, RemoveInv, IdleInv, RemovalFrame
<1>4. Packed!TypeOK'
  BY <1>1, <1>2, Zenon DEF PackedInv, Packed!TypeOK
<1>5. S \subseteq pRarg[m]
  BY DEF PackedInv, RemoveInv
<1> QED
  BY <1>1, <1>2, <1>3, <1>4, <1>5, RemovalFrameInv, Zenon DEF PackKept

LEMMA RemoveRowsInv ==
  ASSUME Packed!BlobpackedAssumption, PackedInv, NEW m \in RemoveCallers, Packed!removeRows(m)
  PROVE  PackedInv'
<1>1. /\ pPacked \in [RemoveCallers -> SUBSET Packed!AllBlobs] /\ pPacked' = [pPacked EXCEPT ![m] = {}]
      /\ pMarks[m] \in SUBSET Packed!Zips /\ pDead' = pDead \cup pMarks[m]
      /\ UNCHANGED <<pLarge, pWhole, pRaced, pPc, pArg, pZip, pSpc, pSarg, pAcked, pOverlap>>
      /\ UNCHANGED <<pSmall, pRpc, pRarg, pUnpacked, pMarks, pQuiet, pGone, pUploads, pRemovals, pCrashes>>
  BY Zenon DEF PackedInv, Packed!TypeOK, Packed!removeRows, Packed!removeStep, Packed!receiving, Packed!sweeping
<1>2. /\ pClash \subseteq pClash' /\ pClash' \subseteq Packed!AllBlobs
      /\ \A b \in pPacked[m], t \in Callers :
            pPc[t] = "clean" /\ b \in Packed!Contents(Packed!ZipOf(t)) => b \in pClash'
  BY <1>1, Zenon DEF PackedInv, Packed!TypeOK, Packed!removeRows
<1>3. \A b \in Packed!AllBlobs : pRow'[b] = IF b \in pPacked[m] THEN Off ELSE pRow[b]
  BY Zenon DEF Packed!removeRows
<1>4. pRow' \in [Packed!AllBlobs -> Packed!Zips \cup {Off}]
  BY DEF PackedInv, Packed!TypeOK, Packed!removeRows
<1>5. RemovalFrame
  BY <1>1, Zenon DEF PackedInv, RemoveInv, IdleInv, RemovalFrame
<1>6. Packed!TypeOK'
  BY <1>1, <1>2, <1>4, Zenon DEF PackedInv, Packed!TypeOK
<1>7. pPacked[m] \subseteq pRarg[m]
  BY DEF PackedInv, RemoveInv
<1>8. \A b \in Packed!AllBlobs : PackKept(b) => \/ b \in pClash' \cup pSmall' \/ pRow'[b] # Off
                                  \/ \E r \in RemoveCallers : b \in pRarg[r]
  BY <1>1, <1>2, <1>3, <1>7, Zenon DEF PackKept
<1> QED
  BY <1>2, <1>3, <1>5, <1>6, <1>8, RemovalFrameInv, Zenon

-----------------------------------------------------------------------------
(* Sweeps *)

\* What no sweep changes.
SweepFrame == UNCHANGED <<pSmall, pRow, pWhole, pPc, pArg, pZip, pRpc, pRarg, pPacked, pUnpacked, pMarks,
                          pAcked, pOverlap, pClash, pQuiet, pGone, pUploads, pRemovals, pCrashes>>

LEMMA SweepFrameInv ==
  ASSUME PackedInv, SweepFrame
  PROVE  /\ ArgInv' /\ CleanInv' /\ RemoveInv' /\ IdleInv' /\ KeptInv'
         /\ \A t \in Callers : Packed!ZipOf(t)' = Packed!ZipOf(t)
<1>1. \A t \in Callers : Packed!ZipOf(t)' = Packed!ZipOf(t)
  BY Zenon DEF SweepFrame, Packed!ZipOf
<1>2. ArgInv' /\ CleanInv'
  BY <1>1, Zenon DEF PackedInv, ArgInv, CleanInv, SweepFrame
<1>3. RemoveInv' /\ IdleInv' /\ KeptInv'
  BY Zenon DEF PackedInv, RemoveInv, IdleInv, KeptInv, PackKept, SweepFrame
<1> QED
  BY <1>1, <1>2, <1>3

LEMMA DeleteZipPackInv ==
  ASSUME Packed!BlobpackedAssumption, PackedInv, NEW s \in Sweepers, NEW z \in pDead, Packed!deleteZipPack(s, z)
  PROVE  PackedInv'
<1>1. SweepFrame
  BY DEF Packed!deleteZipPack, Packed!sweepStep, SweepFrame, Packed!receiving, Packed!removing, Packed!bounds
<1>2. /\ z \in Packed!Zips /\ pSpc \in [Sweepers -> {"idle", "remove", "unmark"}]
      /\ pSarg \in [Sweepers -> Packed!Zips \cup {Off}]
      /\ pSpc' = [pSpc EXCEPT ![s] = "remove"] /\ pSarg' = [pSarg EXCEPT ![s] = z]
      /\ pRaced \subseteq pRaced' /\ pRaced' \subseteq pRaced \cup {z} /\ UNCHANGED <<pLarge, pDead>>
  BY DEF PackedInv, Packed!TypeOK, Packed!deleteZipPack
<1>3. Packed!TypeOK'
  BY <1>1, <1>2, Zenon DEF PackedInv, Packed!TypeOK, SweepFrame
<1>4. WholeRowInv' /\ CommitInv'
  BY <1>1, <1>2, SweepFrameInv, Zenon DEF PackedInv, WholeRowInv, CommitInv, SweepFrame
<1>5. \/ z \in pRaced'
      \/ /\ \A b \in Packed!AllBlobs : pRow[b] # z
         /\ \A t \in Callers : pPc[t] = "commit" => Packed!ZipOf(t) # z
  <2> SUFFICES ASSUME z \notin pRaced'
               PROVE  /\ \A b \in Packed!AllBlobs : pRow[b] # z
                      /\ \A t \in Callers : pPc[t] = "commit" => Packed!ZipOf(t) # z
    OBVIOUS
  <2>1. \A t \in Callers : pPc[t] = "commit" => Packed!ZipOf(t) # z
    BY DEF Packed!deleteZipPack
  <2>2. ASSUME NEW b \in Packed!AllBlobs, pRow[b] = z PROVE FALSE
    <3>1. z # Off
      BY <1>2 DEF Packed!BlobpackedAssumption
    <3>2. b \in Packed!Contents(z) /\ z \in pLarge
      BY <1>2, <2>2, <3>1, Zenon DEF PackedInv, WholeRowInv
    <3> QED
      BY <2>2, <3>1, <3>2 DEF Packed!deleteZipPack, Packed!zipPartsInUse
  <2> QED
    BY <2>1, <2>2
<1>6. SweepInv'
  BY <1>1, <1>2, <1>5, SweepFrameInv, Zenon DEF PackedInv, SweepInv, SweepFrame
<1> QED
  BY <1>1, <1>3, <1>4, <1>6, SweepFrameInv DEF PackedInv

LEMMA RemoveZipInv ==
  ASSUME Packed!BlobpackedAssumption, PackedInv, NEW s \in Sweepers, Packed!removeZip(s)
  PROVE  PackedInv'
<1>1. SweepFrame
  BY Zenon DEF Packed!removeZip, Packed!sweepStep, SweepFrame, Packed!receiving, Packed!removing, Packed!bounds
<1>2. /\ pSpc \in [Sweepers -> {"idle", "remove", "unmark"}] /\ pSpc[s] = "remove"
      /\ pSpc' = [pSpc EXCEPT ![s] = "unmark"]
      /\ pLarge' = pLarge \ {pSarg[s]} /\ UNCHANGED <<pDead, pSarg, pRaced>>
  BY DEF PackedInv, Packed!TypeOK, Packed!removeZip
<1>3. Packed!TypeOK'
  BY <1>1, <1>2, Zenon DEF PackedInv, Packed!TypeOK, SweepFrame
<1>4. WholeRowInv'
  BY <1>1, <1>2, Zenon DEF PackedInv, WholeRowInv, SweepInv, SweepFrame
<1>5. CommitInv'
  BY <1>1, <1>2, SweepFrameInv, Zenon DEF PackedInv, CommitInv, SweepInv, SweepFrame
<1>6. SweepInv'
  BY <1>1, <1>2, SweepFrameInv, Zenon DEF PackedInv, SweepInv, SweepFrame
<1> QED
  BY <1>1, <1>3, <1>4, <1>5, <1>6, SweepFrameInv DEF PackedInv

LEMMA SweepEndsInv ==
  ASSUME Packed!BlobpackedAssumption, PackedInv, NEW s \in Sweepers, Packed!unmarkZip(s) \/ Packed!sweepFails(s)
  PROVE  PackedInv'
<1>1. SweepFrame
  BY DEF Packed!unmarkZip, Packed!sweepFails, Packed!sweepStep, SweepFrame, Packed!receiving, Packed!removing, Packed!bounds
<1>2. /\ pSpc \in [Sweepers -> {"idle", "remove", "unmark"}]
      /\ pSarg \in [Sweepers -> Packed!Zips \cup {Off}]
      /\ pSpc' = [pSpc EXCEPT ![s] = "idle"] /\ pSarg' = [pSarg EXCEPT ![s] = Off]
      /\ pDead' \subseteq pDead /\ UNCHANGED <<pLarge, pRaced>>
  BY DEF PackedInv, Packed!TypeOK, Packed!unmarkZip, Packed!sweepFails
<1>3. Packed!TypeOK'
  BY <1>1, <1>2, Zenon DEF PackedInv, Packed!TypeOK, SweepFrame
<1>4. WholeRowInv' /\ CommitInv'
  BY <1>1, <1>2, SweepFrameInv, Zenon DEF PackedInv, WholeRowInv, CommitInv, SweepFrame
<1>5. SweepInv'
  BY <1>1, <1>2, SweepFrameInv, Zenon DEF PackedInv, SweepInv, SweepFrame
<1> QED
  BY <1>1, <1>3, <1>4, <1>5, SweepFrameInv DEF PackedInv

-----------------------------------------------------------------------------

LEMMA RestartInv == ASSUME Packed!BlobpackedAssumption, PackedInv, Packed!Restart PROVE PackedInv'
<1>1. Packed!NoPack \in [part : 0..MaxZips, from : Nat, to : Nat]
  BY DEF Packed!NoPack, Packed!BlobpackedAssumption
<1>2. Packed!TypeOK'
  <2>1. /\ pPc' \in [Callers -> {"idle", "store"} \cup Packed!Packing]
        /\ pArg' \in [Callers -> Packed!AllBlobs \cup {Off}]
        /\ pZip' \in [Callers -> [part : 0..MaxZips, from : Nat, to : Nat]]
    BY <1>1 DEF Packed!Restart
  <2>2. /\ pRpc' \in [RemoveCallers -> {"idle", "lookup", "remove"}]
        /\ pRarg' \in [RemoveCallers -> SUBSET Packed!AllBlobs] /\ pPacked' \in [RemoveCallers -> SUBSET Packed!AllBlobs]
        /\ pUnpacked' \in [RemoveCallers -> SUBSET Packed!AllBlobs] /\ pMarks' \in [RemoveCallers -> SUBSET Packed!Zips]
        /\ pQuiet' \in [RemoveCallers -> SUBSET Packed!AllBlobs]
    BY DEF Packed!Restart
  <2>3. /\ pSpc' \in [Sweepers -> {"idle", "remove", "unmark"}]
        /\ pSarg' \in [Sweepers -> Packed!Zips \cup {Off}]
        /\ pOverlap' \subseteq Callers
    BY DEF Packed!Restart
  <2>4. /\ UNCHANGED <<pSmall, pLarge, pRow, pDead, pAcked, pClash, pRaced, pGone, pUploads, pRemovals>>
        /\ pCrashes' = pCrashes + 1
    BY DEF Packed!Restart, Packed!stores
  <2>5. pCrashes' \in Nat
    BY <2>4 DEF PackedInv, Packed!TypeOK
  <2> QED
    BY <2>1, <2>2, <2>3, <2>4, <2>5 DEF PackedInv, Packed!TypeOK
<1>3. ArgInv' /\ WholeRowInv' /\ CommitInv' /\ SweepInv' /\ CleanInv'
  BY Zenon DEF PackedInv, ArgInv, WholeRowInv, CommitInv, SweepInv, CleanInv, Packed!Restart, Packed!stores, Packed!Packing
<1>4. RemoveInv' /\ IdleInv' /\ KeptInv'
  BY Zenon DEF PackedInv, RemoveInv, IdleInv, KeptInv, PackKept, Packed!Restart, Packed!stores, Packed!Packing
<1> QED
  BY <1>2, <1>3, <1>4 DEF PackedInv

LEMMA StutterInv == ASSUME PackedInv, UNCHANGED Packed!vars PROVE PackedInv'
<1>1. Packed!TypeOK'
  BY DEF Packed!vars, Packed!stores, Packed!receiving, Packed!removing, Packed!sweeping, Packed!history, Packed!bounds, PackedInv, Packed!TypeOK
<1>2. \A t \in Callers : Packed!ZipOf(t)' = Packed!ZipOf(t)
  BY Zenon DEF Packed!vars, Packed!receiving, Packed!ZipOf
<1>3. ArgInv' /\ WholeRowInv' /\ CommitInv' /\ SweepInv' /\ CleanInv'
  BY <1>2, Zenon DEF Packed!vars, Packed!stores, Packed!receiving, Packed!sweeping, Packed!history, PackedInv, ArgInv, WholeRowInv, CommitInv,
              SweepInv, CleanInv
<1>4. RemoveInv' /\ IdleInv' /\ KeptInv'
  BY Zenon DEF Packed!vars, Packed!stores, Packed!receiving, Packed!removing, Packed!history, PackedInv, RemoveInv, IdleInv, KeptInv, PackKept
<1> QED
  BY <1>1, <1>3, <1>4 DEF PackedInv

LEMMA NextInv == ASSUME Packed!BlobpackedAssumption, PackedInv, [Packed!Next]_(Packed!vars) PROVE PackedInv'
<1>1. ASSUME NEW t \in Callers, NEW b \in Packed!AllBlobs, Packed!ReceiveBlob(t, b) PROVE PackedInv'
  BY <1>1, ReceiveBlobInv
<1>2. ASSUME NEW t \in Callers, Packed!storeSmall(t) \/ Packed!storeSmallFails(t) PROVE PackedInv'
  BY <1>2, StoreSmallInv, StoreSmallFailsInv
<1>3. ASSUME NEW t \in Callers, Packed!scanChunks(t) \/ Packed!readChunks(t) \/ Packed!writeAZip(t) PROVE PackedInv'
  BY <1>3, ScanChunksInv, ReadChunksInv, WriteAZipInv
<1>4. ASSUME NEW t \in Callers, Packed!commitMeta(t) \/ Packed!cleanSmall(t) PROVE PackedInv'
  BY <1>4, CommitMetaInv, CleanSmallInv
<1>5. ASSUME NEW t \in Callers,
             Packed!packFails(t) \/ Packed!notPacked(t) \/ Packed!chunkMissing(t) \/ Packed!setWhole(t)
      PROVE  PackedInv'
  BY <1>5, PackReturnsInv
<1>6. ASSUME NEW m \in RemoveCallers, NEW S \in SUBSET Packed!AllBlobs \ {{}}, Packed!RemoveBlobs(m, S) PROVE PackedInv'
  BY <1>6, PackRemoveInv
<1>7. ASSUME NEW m \in RemoveCallers, NEW b \in Packed!AllBlobs, Packed!getMetaRow(m, b) PROVE PackedInv'
  BY <1>7, GetMetaRowInv
<1>8. ASSUME NEW m \in RemoveCallers,
             Packed!getMetaRowFails(m) \/ Packed!removeRowsFails(m) \/ Packed!removeReturns(m)
      PROVE  PackedInv'
  BY <1>8, RemovalEndsInv
<1>9. ASSUME NEW m \in RemoveCallers, Packed!removeSmall(m) \/ Packed!removeSmallFails(m) \/ Packed!removeRows(m)
      PROVE  PackedInv'
  BY <1>9, RemoveSmallInv, RemoveRowsInv
<1>10. ASSUME NEW s \in Sweepers, NEW z \in pDead, Packed!deleteZipPack(s, z) PROVE PackedInv'
  BY <1>10, DeleteZipPackInv
<1>11. ASSUME NEW s \in Sweepers, Packed!removeZip(s) \/ Packed!unmarkZip(s) \/ Packed!sweepFails(s) PROVE PackedInv'
  BY <1>11, RemoveZipInv, SweepEndsInv
<1>12. CASE Packed!Restart \/ UNCHANGED Packed!vars
  BY <1>12, RestartInv, StutterInv
<1> QED
  BY <1>1, <1>2, <1>3, <1>4, <1>5, <1>6, <1>7, <1>8, <1>9, <1>10, <1>11, <1>12 DEF Packed!Next

-----------------------------------------------------------------------------
(* The component as it runs beside others *)

\* While blobpacked runs, every step is one of its own or leaves it alone.
LEMMA PackedStep ==
    ASSUME part = "blobpacked", [PackedNext]_<<part, pVars>>
    PROVE  part' = part /\ [Packed!Next]_(Packed!vars)
  BY DEF PackedNext, pVars, Packed!vars, Packed!stores, Packed!receiving, Packed!removing,
         Packed!sweeping, Packed!history, Packed!bounds

\* Nothing changes which component runs.
LEMMA PartStays == ASSUME [PackedNext]_<<part, pVars>>  PROVE part' = part
  BY DEF PackedNext


\* A blob ReceiveBlob acknowledged, and nobody began to remove since, can be fetched
\* while packFile moves it from small to large, whoever else packs it, removes other
\* blobs, deletes zips or crashes, but for the two races PackedReadable names.
THEOREM PackedSafety == PackedSpec => [](PackedTypeOK /\ PackedReadable)
<1> DEFINE PInv == part = "blobpacked" => PackedInv
<1>1. PackedInit => PInv
  BY PackingAssumption, PackedInitInv DEF PackedInit
<1>2. PInv /\ [PackedNext]_<<part, pVars>> => PInv'
  BY PackingAssumption, NextInv, PackedStep, PartStays
<1>3. PackedInv => Packed!PackedReadable
  <2> SUFFICES ASSUME PackedInv, NEW b \in pAcked, b \notin pClash
               PROVE  Packed!Fetchable(b) \/ pRow[b] \in pRaced
    BY DEF Packed!PackedReadable
  <2>1. b \in Packed!AllBlobs /\ (b \in pSmall \/ pRow[b] # Off)
    BY DEF PackedInv, Packed!TypeOK, KeptInv, PackKept
  <2> QED
    BY <2>1 DEF PackedInv, WholeRowInv, Packed!Fetchable
<1>4. PInv => PackedTypeOK /\ PackedReadable
  BY <1>3 DEF PackedReadable, PackedTypeOK, PackedInv
<1> QED
  BY <1>1, <1>2, <1>4, PTL DEF PackedSpec

-----------------------------------------------------------------------------
(* Removed blobs stay away *)

\* The blob is neither packed nor in small.
Clear(b) == pRow[b] = Off /\ b \notin pSmall

\* Where a removal is with the blobs that nobody else works on: a packed one has no
\* second copy in small, an unpacked one no row, and what it is through with is clear.
Undisturbed(m) ==
    /\ pRpc[m] = "idle" => pQuiet[m] = {}
    /\ pQuiet[m] \subseteq pRarg[m]
    /\ \A b \in pQuiet[m] :
          /\ \A t \in Callers : b \notin Packed!Holds(t)
          /\ pRow[b] = Off \/ b \notin pSmall
          /\ b \in pUnpacked[m] => pRow[b] = Off
          /\ b \in pPacked[m] => b \notin pSmall
          /\ pRpc[m] = "remove" /\ b \notin pPacked[m] \cup pUnpacked[m] => Clear(b)

\* No upload brings a blob: it does not receive it, nor has it found the whole of a
\* file that the blob is of.
Without(t, b) ==
    /\ pPc[t] # "idle" => pArg[t] # b
    /\ pPc[t] \in Packed!Packing \ {"scan"} => b \notin Packed!FileBlobs(pArg[t])

\* A zip ends within its file.
Within(t) == pPc[t] \in {"zip", "commit", "clean"} => pZip[t].to <= Len(Parts[pArg[t]])

\* The inductive invariant of the removals.
GoneInv ==
    /\ \A t \in Callers : Within(t)
    /\ \A m \in RemoveCallers : Undisturbed(m)
    /\ \A b \in pGone : Clear(b) /\ \A t \in Callers : Without(t, b)

\* It holds at the start, when nothing was removed.
LEMMA GoneInit == ASSUME Packed!Init PROVE GoneInv
  BY DEF Packed!Init, GoneInv, Undisturbed, Within

\* A zip holds blobs of its file only.
LEMMA ContentsOfFile ==
  ASSUME Packed!BlobpackedAssumption, PackedInv, GoneInv, NEW t \in Callers, pPc[t] \in {"zip", "commit", "clean"}
  PROVE  Packed!Contents(Packed!ZipOf(t)) \subseteq Packed!FileBlobs(pArg[t])
<1>1. pZip[t].to <= Len(Parts[pArg[t]]) /\ pZip[t].from \in Nat /\ pZip[t].to \in Nat
  BY DEF GoneInv, Within, PackedInv, Packed!TypeOK
<1>2. Len(Parts[pArg[t]]) \in Nat
  BY DEF PackedInv, ArgInv, Packed!Packing, Packed!BlobpackedAssumption
<1>3. \A i \in (pZip[t].from + 1)..pZip[t].to : i \in 1..Len(Parts[pArg[t]])
  BY <1>1, <1>2
<1>4. Packed!Contents(Packed!ZipOf(t)) \subseteq {Parts[pArg[t]][i] : i \in (pZip[t].from + 1)..pZip[t].to} \cup {pArg[t]}
  BY DEF Packed!Contents, Packed!ZipOf
<1> QED
  BY <1>3, <1>4 DEF Packed!FileBlobs

\* A step of an upload t: it is enough that the blobs of quiet and gone keep away
\* from small and from the rows, and that t does not come to hold any.
LEMMA UploadGone ==
  ASSUME PackedInv, GoneInv, NEW t \in Callers,
         UNCHANGED <<pRpc, pRarg, pPacked, pUnpacked>>,
         \A e \in Callers \ {t} : pPc'[e] = pPc[e] /\ pArg'[e] = pArg[e] /\ pZip'[e] = pZip[e],
         \A m \in RemoveCallers : pQuiet'[m] \subseteq pQuiet[m], pGone' \subseteq pGone,
         Within(t)',
         \A b \in Packed!AllBlobs : (\A e \in Callers : b \notin Packed!Holds(e)) =>
            (pRow[b] = Off => pRow'[b] = Off) /\ (b \notin pSmall => b \notin pSmall'),
         \A b \in pGone' : Clear(b)' /\ Without(t, b)',
         \A m \in RemoveCallers : \A b \in pQuiet'[m] : b \notin Packed!Holds(t)'
  PROVE  GoneInv'
<1>1. \A e \in Callers : Within(e)'
  BY DEF GoneInv, Within
<1>2. \A b \in pGone' : \A e \in Callers : Without(e, b)'
  BY DEF GoneInv, Without
<1>3. ASSUME NEW m \in RemoveCallers PROVE Undisturbed(m)'
  <2>1. \A b \in pQuiet'[m] : \A e \in Callers : b \notin Packed!Holds(e)'
    BY DEF GoneInv, Undisturbed, Packed!Holds
  <2>2. pQuiet[m] \subseteq Packed!AllBlobs /\ Undisturbed(m)
    BY DEF PackedInv, Packed!TypeOK, GoneInv
  <2>3. \A b \in pQuiet'[m] : (pRow[b] = Off => pRow'[b] = Off) /\ (b \notin pSmall => b \notin pSmall')
    BY <2>2 DEF Undisturbed
  <2> QED
    BY <2>1, <2>2, <2>3 DEF Undisturbed, Clear
<1> QED
  BY <1>1, <1>2, <1>3 DEF GoneInv

\* An upload that begins takes its blob, and those of its file, from what counts as
\* gone.
LEMMA ReceiveBlobGone ==
  ASSUME Packed!BlobpackedAssumption, PackedInv, GoneInv, NEW t \in Callers, NEW b \in Packed!AllBlobs, Packed!ReceiveBlob(t, b)
  PROVE  GoneInv'
<1>1. /\ UNCHANGED <<pRpc, pRarg, pPacked, pUnpacked, pSmall, pRow, pZip>>
      /\ pPc[t] = "idle" /\ pPc'[t] \in {"idle", "store"}
      /\ pPc'[t] = "store" => pArg'[t] = b
      /\ \A e \in Callers \ {t} : pPc'[e] = pPc[e] /\ pArg'[e] = pArg[e]
      /\ pGone' = pGone \ {b}
      /\ \A m \in RemoveCallers : pQuiet'[m] = pQuiet[m] \ {b}
  BY DEF Packed!ReceiveBlob, Packed!stores, Packed!removing, PackedInv, Packed!TypeOK
<1>2. \A e \in pGone' : Clear(e)' /\ Without(t, e)'
  BY <1>1 DEF GoneInv, Clear, Without, Packed!Packing
<1>3. \A m \in RemoveCallers : \A e \in pQuiet'[m] : e \notin Packed!Holds(t)'
  BY <1>1 DEF Packed!Holds, Packed!Packing
<1>4. Within(t)'
  BY <1>1 DEF Within
<1> QED
  BY <1>1, <1>2, <1>3, <1>4, UploadGone

\* An upload returns, without a row and with no blob in small but its own.
LEMMA ReturnGone ==
  ASSUME PackedInv, GoneInv, NEW t \in Callers, pPc[t] # "idle", Packed!return(t),
         UNCHANGED <<pRpc, pRarg, pPacked, pUnpacked, pRow, pQuiet, pGone>>,
         pSmall' \subseteq pSmall \cup {pArg[t]}
  PROVE  GoneInv'
<1>1. /\ pPc'[t] = "idle"
      /\ \A e \in Callers \ {t} : pPc'[e] = pPc[e] /\ pArg'[e] = pArg[e] /\ pZip'[e] = pZip[e]
  BY DEF Packed!return, PackedInv, Packed!TypeOK
<1>2. \A e \in pGone' : Clear(e)' /\ Without(t, e)'
  BY <1>1 DEF GoneInv, Clear, Without, Packed!Packing
<1>3. \A m \in RemoveCallers : \A e \in pQuiet'[m] : e \notin Packed!Holds(t)'
  BY <1>1 DEF Packed!Holds, Packed!Packing
<1>4. Within(t)'
  BY <1>1 DEF Within
<1>5. pArg[t] \in Packed!Holds(t)
  BY DEF Packed!Holds, Packed!FileBlobs
<1> QED
  BY <1>1, <1>2, <1>3, <1>4, <1>5, UploadGone

\* A blob that is put into small is held by its upload, and so it is neither gone nor
\* undisturbed.
LEMMA StoreSmallGone ==
  ASSUME Packed!BlobpackedAssumption, PackedInv, GoneInv, NEW t \in Callers, Packed!storeSmall(t)
  PROVE  GoneInv'
<1>0. pPc[t] = "store" /\ UNCHANGED <<pRpc, pRarg, pPacked, pUnpacked, pRow, pGone>>
      /\ pSmall' = pSmall \cup {pArg[t]}
  BY DEF Packed!storeSmall, Packed!removing
<1>1. CASE pArg[t] \in Files
  <2>1. /\ pPc'[t] = "scan" /\ pArg' = pArg /\ pZip' = pZip
        /\ \A e \in Callers \ {t} : pPc'[e] = pPc[e]
        /\ \A m \in RemoveCallers : pQuiet'[m] = pQuiet[m] \ Packed!FileBlobs(pArg[t])
    BY <1>1 DEF Packed!storeSmall, PackedInv, Packed!TypeOK
  <2>2. \A e \in pGone' : Clear(e)' /\ Without(t, e)'
    BY <1>0, <2>1 DEF GoneInv, Clear, Without, Packed!Packing
  <2>3. \A m \in RemoveCallers : \A e \in pQuiet'[m] : e \notin Packed!Holds(t)'
    BY <2>1 DEF Packed!Holds, Packed!Packing
  <2>4. Within(t)'
    BY <2>1 DEF Within
  <2>5. pArg[t] \in Packed!Holds(t)
    BY <1>0 DEF Packed!Holds, Packed!FileBlobs
  <2> QED
    BY <1>0, <2>1, <2>2, <2>3, <2>4, <2>5, UploadGone
<1>2. CASE pArg[t] \notin Files
  BY <1>0, <1>2, ReturnGone DEF Packed!storeSmall, Packed!returnNil
<1> QED
  BY <1>1, <1>2

\* What a packer does after it has found every blob of its file.
LEMMA PackerGone ==
  ASSUME Packed!BlobpackedAssumption, PackedInv, GoneInv, NEW t \in Callers,
         Packed!scanChunks(t) \/ Packed!readChunks(t) \/ Packed!writeAZip(t) \/ Packed!commitMeta(t) \/ Packed!cleanSmall(t)
  PROVE  GoneInv'
<1>1. /\ UNCHANGED <<pRpc, pRarg, pPacked, pUnpacked, pQuiet, pGone, pArg>>
      /\ pPc[t] \in Packed!Packing /\ pPc'[t] \in Packed!Packing /\ pSmall' \subseteq pSmall
      /\ \A e \in Callers \ {t} : pPc'[e] = pPc[e] /\ pZip'[e] = pZip[e]
  <2>1. UNCHANGED <<pRpc, pRarg, pPacked, pUnpacked, pQuiet, pGone, pArg>>
    BY DEF Packed!scanChunks, Packed!readChunks, Packed!writeAZip, Packed!commitMeta, Packed!cleanSmall, Packed!packStep, Packed!removing
  <2>2. pPc[t] \in Packed!Packing /\ pPc'[t] \in Packed!Packing /\ pSmall' \subseteq pSmall
    BY DEF Packed!scanChunks, Packed!readChunks, Packed!writeAZip, Packed!commitMeta, Packed!cleanSmall, Packed!Packing, PackedInv, Packed!TypeOK
  <2>3. \A e \in Callers \ {t} : pPc'[e] = pPc[e] /\ pZip'[e] = pZip[e]
    BY DEF Packed!scanChunks, Packed!readChunks, Packed!writeAZip, Packed!commitMeta, Packed!cleanSmall, PackedInv, Packed!TypeOK
  <2> QED BY <2>1, <2>2, <2>3
<1>2. Within(t)'
  <2>1. CASE Packed!readChunks(t)
    <3>0. pArg[t] \in Files /\ Parts[pArg[t]] \in Seq(Chunks)
      BY <1>1 DEF PackedInv, ArgInv, Packed!BlobpackedAssumption
    <3>1. Len(Parts[pArg[t]]) \in Nat /\ pZip[t].from \in Nat
      BY <3>0 DEF PackedInv, Packed!TypeOK
    <3>2. PICK n \in pZip[t].from..Len(Parts[pArg[t]]) : pZip' = [pZip EXCEPT ![t].to = n]
      BY <2>1 DEF Packed!readChunks
    <3>3. pZip'[t].to = n
      BY <3>2 DEF PackedInv, Packed!TypeOK
    <3> QED
      BY <1>1, <3>1, <3>2, <3>3 DEF Within
  <2>2. CASE Packed!scanChunks(t) \/ Packed!cleanSmall(t)
    <3>1. pPc'[t] \in {"read", "whole"}
      BY <2>2 DEF Packed!scanChunks, Packed!cleanSmall, PackedInv, Packed!TypeOK
    <3> QED BY <3>1 DEF Within
  <2>3. CASE Packed!writeAZip(t) \/ Packed!commitMeta(t)
    <3>1. pPc[t] \in {"zip", "commit"} /\ pZip' = pZip
      BY <2>3 DEF Packed!writeAZip, Packed!commitMeta
    <3> QED BY <1>1, <3>1 DEF Within, GoneInv
  <2> QED BY <2>1, <2>2, <2>3
<1>3. \A b \in pGone : b \notin Packed!FileBlobs(pArg[t])
  <2>1. CASE Packed!scanChunks(t)
    BY <2>1 DEF Packed!scanChunks, GoneInv, Clear, Packed!Fetchable
  <2>2. CASE ~Packed!scanChunks(t)
    <3>1. pPc[t] \in Packed!Packing \ {"scan"}
      BY <2>2 DEF Packed!readChunks, Packed!writeAZip, Packed!commitMeta, Packed!cleanSmall, Packed!Packing
    <3> QED BY <3>1 DEF GoneInv, Without
  <2> QED BY <2>1, <2>2
<1>4. \A b \in Packed!AllBlobs : b \notin Packed!FileBlobs(pArg[t]) => pRow'[b] = pRow[b]
  <2>1. CASE Packed!commitMeta(t)
    <3>1. Packed!Contents(Packed!ZipOf(t)) \subseteq Packed!FileBlobs(pArg[t])
      BY <2>1, ContentsOfFile DEF Packed!commitMeta
    <3> QED BY <2>1, <3>1 DEF Packed!commitMeta
  <2>2. CASE ~Packed!commitMeta(t)
    <3>1. pRow' = pRow
      BY <2>2 DEF Packed!scanChunks, Packed!readChunks, Packed!writeAZip, Packed!cleanSmall
    <3> QED BY <3>1
  <2> QED BY <2>1, <2>2
<1>5. Packed!Holds(t) = Packed!FileBlobs(pArg[t]) /\ Packed!Holds(t)' = Packed!FileBlobs(pArg[t])
  BY <1>1 DEF Packed!Holds, Packed!FileBlobs
<1>6. \A b \in pGone' : Clear(b)' /\ Without(t, b)'
  <2> SUFFICES ASSUME NEW b \in pGone PROVE Clear(b)' /\ Without(t, b)'
    BY <1>1
  <2>1. b \in Packed!AllBlobs /\ b \notin Packed!FileBlobs(pArg[t])
    BY <1>3 DEF PackedInv, Packed!TypeOK
  <2>2. pArg[t] # b
    BY <2>1 DEF Packed!FileBlobs
  <2>3. Clear(b)
    BY DEF GoneInv
  <2>4. Clear(b)'
    BY <1>1, <1>4, <2>1, <2>3 DEF Clear
  <2>5. Packed!FileBlobs(pArg[t])' = Packed!FileBlobs(pArg[t])
    BY <1>1, Zenon DEF Packed!FileBlobs
  <2> QED
    BY <1>1, <2>1, <2>2, <2>4, <2>5 DEF Without
<1>7. \A m \in RemoveCallers : \A b \in pQuiet'[m] : b \notin Packed!Holds(t)'
  <2>1. \A m \in RemoveCallers : \A b \in pQuiet[m] : b \notin Packed!Holds(t)
    BY DEF GoneInv, Undisturbed
  <2> QED
    BY <1>1, <1>5, <2>1
<1> QED
  BY <1>1, <1>2, <1>4, <1>5, <1>6, <1>7, UploadGone

\* What the uploads hold depends on where they are only.
LEMMA UploadsFrame ==
  ASSUME UNCHANGED Packed!receiving
  PROVE  /\ \A t \in Callers : Within(t)' = Within(t) /\ Packed!Holds(t)' = Packed!Holds(t)
         /\ \A t \in Callers : \A b : Without(t, b)' = Without(t, b)
<1>1. pPc' = pPc /\ pArg' = pArg /\ pZip' = pZip
  BY Zenon DEF Packed!receiving
<1>2. \A t \in Callers : Packed!FileBlobs(pArg[t])' = Packed!FileBlobs(pArg[t])
  BY <1>1, Zenon DEF Packed!FileBlobs
<1>3. \A t \in Callers : Packed!Holds(t)' = Packed!Holds(t)
  BY <1>1, <1>2, Zenon DEF Packed!Holds
<1>4. \A t \in Callers : Within(t)' = Within(t)
  BY <1>1, Zenon DEF Within
<1>5. \A t \in Callers : \A b : Without(t, b)' = Without(t, b)
  BY <1>1, <1>2, Zenon DEF Without
<1> QED
  BY <1>3, <1>4, <1>5

\* A removal is not disturbed by what keeps its blobs away from small and the rows.
LEMMA UndisturbedKept ==
  ASSUME NEW e \in RemoveCallers, Undisturbed(e),
         pRpc'[e] = pRpc[e], pRarg'[e] = pRarg[e], pPacked'[e] = pPacked[e],
         pUnpacked'[e] = pUnpacked[e], pQuiet'[e] = pQuiet[e],
         \A t \in Callers : Packed!Holds(t)' = Packed!Holds(t),
         \A b \in pQuiet'[e] :
            (pRow[b] = Off => pRow'[b] = Off) /\ (b \notin pSmall => b \notin pSmall')
  PROVE  Undisturbed(e)'
<1>1. (pRpc'[e] = "idle" => pQuiet'[e] = {}) /\ pQuiet'[e] \subseteq pRarg'[e]
  BY DEF Undisturbed
<1>2. ASSUME NEW b \in pQuiet'[e]
      PROVE  /\ \A t \in Callers : b \notin Packed!Holds(t)'
             /\ pRow'[b] = Off \/ b \notin pSmall'
             /\ b \in pUnpacked'[e] => pRow'[b] = Off
             /\ b \in pPacked'[e] => b \notin pSmall'
             /\ pRpc'[e] = "remove" /\ b \notin pPacked'[e] \cup pUnpacked'[e] => Clear(b)'
  BY DEF Undisturbed, Clear
<1> QED
  BY <1>1, <1>2, Zenon DEF Undisturbed

\* A step of a removal m: small and the rows can only lose blobs.
LEMMA RemovalGone ==
  ASSUME PackedInv, GoneInv, NEW m \in RemoveCallers, UNCHANGED Packed!receiving,
         pSmall' \subseteq pSmall, \A b \in Packed!AllBlobs : pRow'[b] \in {pRow[b], Off},
         \A e \in RemoveCallers \ {m} : /\ pRpc'[e] = pRpc[e] /\ pRarg'[e] = pRarg[e]
                                        /\ pPacked'[e] = pPacked[e] /\ pUnpacked'[e] = pUnpacked[e]
                                        /\ pQuiet'[e] = pQuiet[e],
         Undisturbed(m)',
         \A b \in pGone' \ pGone : Clear(b)' /\ \A t \in Callers : Without(t, b)
  PROVE  GoneInv'
<1>2. \A t \in Callers : Within(t)' /\ Packed!Holds(t)' = Packed!Holds(t) /\ \A b : Without(t, b)' = Without(t, b)
  BY UploadsFrame DEF GoneInv
<1>3. \A b \in pGone' : Clear(b)' /\ \A t \in Callers : Without(t, b)'
  <2>1. pGone \subseteq Packed!AllBlobs
    BY DEF PackedInv, Packed!TypeOK
  <2> QED BY <1>2, <2>1 DEF GoneInv, Clear
<1>4. ASSUME NEW e \in RemoveCallers \ {m} PROVE Undisturbed(e)'
  <2>1. pQuiet[e] \subseteq Packed!AllBlobs /\ Undisturbed(e)
    BY DEF PackedInv, Packed!TypeOK, GoneInv
  <2>2. \A b \in pQuiet'[e] : (pRow[b] = Off => pRow'[b] = Off) /\ (b \notin pSmall => b \notin pSmall')
    BY <2>1
  <2>3. /\ pRpc'[e] = pRpc[e] /\ pRarg'[e] = pRarg[e] /\ pPacked'[e] = pPacked[e]
        /\ pUnpacked'[e] = pUnpacked[e] /\ pQuiet'[e] = pQuiet[e]
    OBVIOUS
  <2> QED
    BY <1>2, <2>1, <2>2, <2>3, UndisturbedKept
<1> QED
  BY <1>2, <1>3, <1>4 DEF GoneInv

\* A removal begins with the blobs that nobody else works on.
LEMMA RemoveBlobsGone ==
  ASSUME PackedInv, GoneInv, NEW m \in RemoveCallers, NEW S \in SUBSET Packed!AllBlobs, Packed!RemoveBlobs(m, S)
  PROVE  GoneInv'
<1>1. /\ UNCHANGED <<pSmall, pRow, pPacked, pUnpacked, pGone, Packed!receiving>>
      /\ pRpc[m] = "idle" /\ pRpc'[m] = "lookup" /\ pRarg'[m] = S
      /\ pQuiet'[m] = {b \in S : /\ \A t \in Callers : b \notin Packed!Holds(t)
                                 /\ pRow[b] = Off \/ b \notin pSmall}
      /\ \A e \in RemoveCallers \ {m} : pRpc'[e] = pRpc[e] /\ pRarg'[e] = pRarg[e] /\ pQuiet'[e] = pQuiet[e]
  BY DEF Packed!RemoveBlobs, Packed!removeStep, PackedInv, Packed!TypeOK
<1>2. pPacked[m] = {} /\ pUnpacked[m] = {}
  BY <1>1 DEF PackedInv, IdleInv
<1>3. \A t \in Callers : Packed!Holds(t)' = Packed!Holds(t)
  BY <1>1, UploadsFrame
<1>4. Undisturbed(m)'
  BY <1>1, <1>2, <1>3 DEF Undisturbed
<1> QED
  BY <1>1, <1>4, RemovalGone

\* A removal sorts its blobs by their rows, and finds nothing where nothing is.
LEMMA GetMetaRowGone ==
  ASSUME PackedInv, GoneInv, NEW m \in RemoveCallers, NEW b \in Packed!AllBlobs, Packed!getMetaRow(m, b)
  PROVE  GoneInv'
<1>1. /\ UNCHANGED <<pSmall, pRow, pGone, Packed!receiving, pRarg, pQuiet>>
      /\ pRpc[m] = "lookup"
      /\ pPacked'[m] = IF pRow[b] = Off THEN pPacked[m] ELSE pPacked[m] \cup {b}
      /\ pUnpacked'[m] = IF pRow[b] = Off THEN pUnpacked[m] \cup {b} ELSE pUnpacked[m]
      /\ pRpc'[m] = IF pRarg[m] = pPacked[m] \cup pUnpacked[m] \cup {b} THEN "remove" ELSE "lookup"
      /\ \A e \in RemoveCallers \ {m} : /\ pRpc'[e] = pRpc[e] /\ pPacked'[e] = pPacked[e]
                                        /\ pUnpacked'[e] = pUnpacked[e]
  BY DEF Packed!getMetaRow, Packed!removeStep, PackedInv, Packed!TypeOK
<1>2. \A t \in Callers : Packed!Holds(t)' = Packed!Holds(t)
  BY <1>1, UploadsFrame
<1>3. Undisturbed(m)
  BY DEF GoneInv
<1>4. pRpc'[m] = "remove" => pQuiet[m] \subseteq pPacked'[m] \cup pUnpacked'[m]
  BY <1>1, <1>3 DEF Undisturbed
<1>5. Undisturbed(m)'
  <2>1. pRpc'[m] # "idle" /\ pQuiet'[m] \subseteq pRarg'[m]
    BY <1>1, <1>3 DEF Undisturbed
  <2>2. ASSUME NEW c \in pQuiet[m]
        PROVE  /\ \A t \in Callers : c \notin Packed!Holds(t)'
               /\ pRow'[c] = Off \/ c \notin pSmall'
               /\ c \in pUnpacked'[m] => pRow'[c] = Off
               /\ c \in pPacked'[m] => c \notin pSmall'
    BY <1>1, <1>2, <1>3 DEF Undisturbed
  <2> QED
    BY <1>1, <1>4, <2>1, <2>2 DEF Undisturbed
<1> QED
  BY <1>1, <1>5, RemovalGone

\* What was not packed leaves small.
LEMMA RemoveSmallGone ==
  ASSUME PackedInv, GoneInv, NEW m \in RemoveCallers, Packed!removeSmall(m)
  PROVE  GoneInv'
<1>1. /\ UNCHANGED <<pRow, pGone, Packed!receiving, pRarg, pQuiet, pRpc, pPacked>>
      /\ pRpc[m] = "remove" /\ pSmall' = pSmall \ pUnpacked[m] /\ pUnpacked'[m] = {}
      /\ \A e \in RemoveCallers \ {m} : pUnpacked'[e] = pUnpacked[e]
  BY DEF Packed!removeSmall, Packed!removeStep, PackedInv, Packed!TypeOK
<1>2. \A t \in Callers : Packed!Holds(t)' = Packed!Holds(t)
  BY <1>1, UploadsFrame
<1>3. Undisturbed(m)
  BY DEF GoneInv
<1>4. Undisturbed(m)'
  BY <1>1, <1>2, <1>3 DEF Undisturbed, Clear
<1> QED
  BY <1>1, <1>4, RemovalGone

\* What was packed loses its row.
LEMMA RemoveRowsGone ==
  ASSUME PackedInv, GoneInv, NEW m \in RemoveCallers, Packed!removeRows(m)
  PROVE  GoneInv'
<1>1. /\ UNCHANGED <<pSmall, pGone, Packed!receiving, pRarg, pQuiet, pRpc, pUnpacked>>
      /\ pRpc[m] = "remove" /\ pPacked'[m] = {}
      /\ pRow' = [b \in Packed!AllBlobs |-> IF b \in pPacked[m] THEN Off ELSE pRow[b]]
      /\ \A e \in RemoveCallers \ {m} : pPacked'[e] = pPacked[e]
  BY DEF Packed!removeRows, Packed!removeStep, PackedInv, Packed!TypeOK
<1>2. \A t \in Callers : Packed!Holds(t)' = Packed!Holds(t)
  BY <1>1, UploadsFrame
<1>3. Undisturbed(m) /\ pQuiet[m] \subseteq Packed!AllBlobs
  BY DEF GoneInv, PackedInv, Packed!TypeOK
<1>4. Undisturbed(m)'
  BY <1>1, <1>2, <1>3 DEF Undisturbed, Clear
<1> QED
  BY <1>1, <1>4, RemovalGone

\* A removal ends; a failed one removes nothing for certain.
LEMMA RemovalEndsGone ==
  ASSUME PackedInv, GoneInv, NEW m \in RemoveCallers,
         Packed!getMetaRowFails(m) \/ Packed!removeSmallFails(m) \/ Packed!removeRowsFails(m) \/ Packed!removeReturns(m)
  PROVE  GoneInv'
<1>1. /\ UNCHANGED <<pRow, Packed!receiving>> /\ pSmall' \subseteq pSmall /\ pQuiet'[m] = {}
      /\ \A e \in RemoveCallers \ {m} : /\ pRpc'[e] = pRpc[e] /\ pRarg'[e] = pRarg[e]
                                        /\ pPacked'[e] = pPacked[e] /\ pUnpacked'[e] = pUnpacked[e]
                                        /\ pQuiet'[e] = pQuiet[e]
  <2>1. CASE Packed!getMetaRowFails(m)
    BY <2>1 DEF Packed!getMetaRowFails, Packed!removeStep, PackedInv, Packed!TypeOK
  <2>2. CASE Packed!removeSmallFails(m)
    BY <2>2 DEF Packed!removeSmallFails, Packed!removeStep, PackedInv, Packed!TypeOK
  <2>3. CASE Packed!removeRowsFails(m)
    BY <2>3 DEF Packed!removeRowsFails, Packed!removeStep, PackedInv, Packed!TypeOK
  <2>4. CASE Packed!removeReturns(m)
    BY <2>4 DEF Packed!removeReturns, Packed!removeStep, PackedInv, Packed!TypeOK
  <2> QED
    BY <2>1, <2>2, <2>3, <2>4
<1>2. Undisturbed(m)'
  BY <1>1 DEF Undisturbed
<1>3. \A b \in pGone' \ pGone : Clear(b)' /\ \A t \in Callers : Without(t, b)
  <2>1. CASE ~Packed!removeReturns(m)
    BY <2>1 DEF Packed!getMetaRowFails, Packed!removeSmallFails, Packed!removeRowsFails
  <2>2. CASE Packed!removeReturns(m)
    <3> SUFFICES ASSUME NEW b \in pQuiet[m]
                 PROVE  Clear(b)' /\ \A t \in Callers : Without(t, b)
      BY <2>2 DEF Packed!removeReturns
    <3>1. Clear(b) /\ \A t \in Callers : b \notin Packed!Holds(t)
      BY <2>2 DEF Packed!removeReturns, GoneInv, Undisturbed
    <3>2. Clear(b)'
      BY <2>2, <3>1 DEF Packed!removeReturns, Clear
    <3>3. ASSUME NEW t \in Callers PROVE Without(t, b)
      BY <3>1 DEF Packed!Holds, Without, Packed!FileBlobs
    <3> QED BY <3>2, <3>3
  <2> QED BY <2>1, <2>2
<1> QED
  BY <1>1, <1>2, <1>3, RemovalGone

\* Sweepers, and steps that change nothing here.
LEMMA FrameGone ==
  ASSUME GoneInv, UNCHANGED <<pSmall, pRow, Packed!receiving, Packed!removing, pQuiet, pGone>>
  PROVE  GoneInv'
<1>1. UNCHANGED <<pRpc, pRarg, pPacked, pUnpacked>>
  BY Zenon DEF Packed!removing
<1>2. \A t \in Callers : Within(t)' /\ Packed!Holds(t)' = Packed!Holds(t) /\ \A b : Without(t, b)' = Without(t, b)
  BY UploadsFrame DEF GoneInv
<1>3. ASSUME NEW m \in RemoveCallers PROVE Undisturbed(m)'
  <2>1. Undisturbed(m)
    BY DEF GoneInv
  <2> QED
    BY <1>1, <1>2, <2>1 DEF Undisturbed, Clear
<1> QED
  BY <1>2, <1>3 DEF GoneInv, Clear

\* A restart ends the removals; what was gone stays so.
LEMMA RestartGone == ASSUME PackedInv, GoneInv, Packed!Restart PROVE GoneInv'
<1>1. /\ UNCHANGED <<pSmall, pRow, pGone>>
      /\ \A t \in Callers : pPc'[t] = "idle"
      /\ \A m \in RemoveCallers : pQuiet'[m] = {}
  BY DEF Packed!Restart, Packed!stores
<1> QED
  BY <1>1 DEF GoneInv, Undisturbed, Within, Without, Clear, Packed!Packing

\* Every step keeps the invariant of the removals.
LEMMA NextGone == ASSUME Packed!BlobpackedAssumption, PackedInv, GoneInv, [Packed!Next]_(Packed!vars) PROVE GoneInv'
<1>1. ASSUME NEW t \in Callers, NEW b \in Packed!AllBlobs, Packed!ReceiveBlob(t, b) PROVE GoneInv'
  BY <1>1, ReceiveBlobGone
<1>2. ASSUME NEW t \in Callers, Packed!storeSmall(t) PROVE GoneInv'
  BY <1>2, StoreSmallGone
<1>3. ASSUME NEW t \in Callers, Packed!storeSmallFails(t) PROVE GoneInv'
  BY <1>3, ReturnGone DEF Packed!storeSmallFails, Packed!returnErr, Packed!removing
<1>4. ASSUME NEW t \in Callers,
             Packed!scanChunks(t) \/ Packed!readChunks(t) \/ Packed!writeAZip(t) \/ Packed!commitMeta(t) \/ Packed!cleanSmall(t)
      PROVE  GoneInv'
  BY <1>4, PackerGone
<1>5. ASSUME NEW t \in Callers,
             Packed!packFails(t) \/ Packed!notPacked(t) \/ Packed!chunkMissing(t) \/ Packed!setWhole(t)
      PROVE  GoneInv'
  <2>1. /\ pPc[t] # "idle" /\ Packed!return(t) /\ pSmall' = pSmall
        /\ UNCHANGED <<pRpc, pRarg, pPacked, pUnpacked, pRow, pQuiet, pGone>>
    BY <1>5 DEF Packed!packFails, Packed!notPacked, Packed!chunkMissing, Packed!setWhole, Packed!returnNil, Packed!packStep, Packed!removing
  <2> QED BY <2>1, ReturnGone
<1>6. ASSUME NEW m \in RemoveCallers, NEW S \in SUBSET Packed!AllBlobs \ {{}}, Packed!RemoveBlobs(m, S) PROVE GoneInv'
  BY <1>6, RemoveBlobsGone
<1>7. ASSUME NEW m \in RemoveCallers, NEW b \in Packed!AllBlobs, Packed!getMetaRow(m, b) PROVE GoneInv'
  BY <1>7, GetMetaRowGone
<1>8. ASSUME NEW m \in RemoveCallers, Packed!removeSmall(m) \/ Packed!removeRows(m) PROVE GoneInv'
  BY <1>8, RemoveSmallGone, RemoveRowsGone
<1>9. ASSUME NEW m \in RemoveCallers,
             Packed!getMetaRowFails(m) \/ Packed!removeSmallFails(m) \/ Packed!removeRowsFails(m) \/ Packed!removeReturns(m)
      PROVE  GoneInv'
  BY <1>9, RemovalEndsGone
<1>10. ASSUME NEW s \in Sweepers, NEW z \in pDead, Packed!deleteZipPack(s, z) PROVE GoneInv'
  BY <1>10, FrameGone DEF Packed!deleteZipPack, Packed!sweepStep
<1>11. ASSUME NEW s \in Sweepers, Packed!removeZip(s) \/ Packed!unmarkZip(s) \/ Packed!sweepFails(s) PROVE GoneInv'
  BY <1>11, FrameGone DEF Packed!removeZip, Packed!unmarkZip, Packed!sweepFails, Packed!sweepStep
<1>12. CASE Packed!Restart
  BY <1>12, RestartGone
<1>13. CASE UNCHANGED Packed!vars
  BY <1>13, FrameGone DEF Packed!vars, Packed!stores, Packed!history
<1> QED
  BY <1>1, <1>2, <1>3, <1>4, <1>5, <1>6, <1>7, <1>8, <1>9, <1>10, <1>11, <1>12, <1>13 DEF Packed!Next

\* A blob that RemoveBlobs removed while no upload or packer was at work on it cannot
\* be fetched until it is received again: packers that begin later do not find it, so
\* none of them writes a row for it, and no crash or failed removal undoes that.
THEOREM RemovalSafety == PackedSpec => []RemovedGone
<1> DEFINE PInv == part = "blobpacked" => PackedInv /\ GoneInv
<1>1. PackedInit => PInv
  BY PackingAssumption, PackedInitInv, GoneInit DEF PackedInit
<1>2. PInv /\ [PackedNext]_<<part, pVars>> => PInv'
  BY PackingAssumption, NextInv, NextGone, PackedStep, PartStays
<1>3. GoneInv => Packed!RemovedGone
  BY DEF GoneInv, Clear, Packed!RemovedGone, Packed!Fetchable
<1>4. PInv => RemovedGone
  BY <1>3 DEF RemovedGone
<1> QED
  BY <1>1, <1>2, <1>4, PTL DEF PackedSpec
-----------------------------------------------------------------------------
(***************************************************************************)
(* The buffering KeyValue, for any keys, values and clients: a Get answers *)
(* with a value its key held during the call.                              *)
(*                                                                         *)
(* A Get looks in the buffer, then in the backing store, and is right only *)
(* as nothing moves from one to the other in between: the read lock keeps  *)
(* Flush out (LockInv).  The two stores together hold the map (ViewInv),   *)
(* except for the keys in limbo; a Flush has written what it is about to   *)
(* clear (ClearInv); and what a pending deletion is about to take from the *)
(* backing store is not what a reader may still answer with (DeleteInv,    *)
(* GetInv).                                                                *)
(***************************************************************************)

\* Who holds mu, and how.
BuffLockInv ==
    \A c \in Callers :
       /\ c \in bReaders <=> bPc[c] \in {"get", "delete"}
       /\ bWriter = c <=> bPc[c] \in {"toBack", "clear"}
       /\ bWriter # Off => c \notin bReaders

\* What the two stores hold of a key together.
View(k) == IF bBuf[k] # Off THEN bBuf[k] ELSE bBack[k]

ViewInv ==
    \A k \in Keys : /\ k \notin bLimbo => View(k) = bVal[k]
                    /\ k \in bLimbo => bBuf[k] = Off

ClearInv ==
    \A c \in Callers, k \in Keys :
       bPc[c] = "clear" /\ bBuf[k] # Off => bBack[k] = bBuf[k]

\* A pending deletion is of a key that is set again in the buffer or deleted.
DeleteInv ==
    \A c \in Callers : \A k \in bKey[c] :
       bPc[c] = "delete" /\ bBuf[k] = Off => bVal[k] = Off

\* What a Get may find in the backing store, now and after a pending deletion.
GetInv ==
    \A c \in Callers : \A k \in bKey[c] :
       bPc[c] = "get" => /\ bBack[k] \in bSeen[c]
                         /\ \A d \in Callers : bPc[d] = "delete" /\ k \in bKey[d] => Off \in bSeen[c]

BuffInv == Buff!TypeOK /\ BuffLockInv /\ ViewInv /\ ClearInv /\ DeleteInv /\ GetInv /\ Buff!ReadsCurrent

-----------------------------------------------------------------------------

LEMMA BuffInitInv == ASSUME Buff!BufferAssumption PROVE Buff!Init => BuffInv
<1> SUFFICES ASSUME Buff!Init PROVE BuffInv
  OBVIOUS
<1>1. Buff!TypeOK
  BY DEF Buff!Init, Buff!TypeOK, Buff!Maps
<1>2. BuffLockInv
  BY DEF Buff!Init, BuffLockInv, Buff!BufferAssumption
<1>3. ViewInv /\ ClearInv /\ DeleteInv /\ GetInv /\ Buff!ReadsCurrent
  BY DEF Buff!Init, ViewInv, View, ClearInv, DeleteInv, GetInv, Buff!ReadsCurrent, Buff!Maps
<1> QED
  BY <1>1, <1>2, <1>3 DEF BuffInv

LEMMA GetKeepsInv ==
  ASSUME Buff!BufferAssumption, BuffInv, NEW c \in Callers, NEW k \in Keys, Buff!Get(c, k)
  PROVE  BuffInv'
<1> DEFINE S == {bVal[k]} \cup {bBack[j] : j \in bLimbo \cap {k}}
<1>1. /\ S \in SUBSET (Values \cup {Off}) /\ bVal[k] \in S
      /\ k \in bLimbo => bBack[k] \in S
      /\ bSeen' = [bSeen EXCEPT ![c] = S] /\ bPc[c] = "idle"
  BY DEF BuffInv, Buff!TypeOK, Buff!Maps, Buff!Get, Buff!call
<1> HIDE DEF S
<1>2. CASE bBuf[k] # Off
  <2>1. bGot' = [bGot EXCEPT ![c] = bBuf[k]] /\ bBuf[k] \in S /\ UNCHANGED <<bReaders, bPc, bKey>>
    BY <1>1, <1>2 DEF BuffInv, ViewInv, View, Buff!Get
  <2>2. Buff!TypeOK'
    BY <1>1, <2>1 DEF BuffInv, Buff!TypeOK, Buff!Maps, Buff!Get, Buff!call
  <2>3. BuffLockInv' /\ ViewInv' /\ ClearInv' /\ DeleteInv'
    BY <2>1 DEF BuffInv, BuffLockInv, ViewInv, View, ClearInv, DeleteInv, Buff!Get
  <2>4. GetInv'
    BY <1>1, <2>1 DEF BuffInv, Buff!TypeOK, GetInv, Buff!Get
  <2>5. Buff!ReadsCurrent'
    BY <1>1, <2>1 DEF BuffInv, Buff!TypeOK, Buff!ReadsCurrent
  <2> QED
    BY <2>2, <2>3, <2>4, <2>5 DEF BuffInv
<1>3. CASE bBuf[k] = Off
  <2>1. /\ bReaders' = bReaders \cup {c} /\ bPc' = [bPc EXCEPT ![c] = "get"]
        /\ bKey' = [bKey EXCEPT ![c] = {k}] /\ UNCHANGED bGot /\ bWriter = Off
        /\ UNCHANGED <<bBuf, bBack, bBuffered, bWriter, bVal, bLimbo>> /\ bCalls' = bCalls + 1
    BY <1>3 DEF Buff!Get, Buff!call, Buff!canRLock
  <2>2. Buff!TypeOK'
    BY <1>1, <2>1 DEF BuffInv, Buff!TypeOK
  <2>3. BuffLockInv'
    BY <2>1 DEF BuffInv, Buff!TypeOK, BuffLockInv, Buff!BufferAssumption
  <2>4. ViewInv' /\ ClearInv' /\ DeleteInv'
    BY <2>1 DEF BuffInv, Buff!TypeOK, ViewInv, View, ClearInv, DeleteInv
  <2>5. bBack[k] \in S
    BY <1>1, <1>3 DEF BuffInv, ViewInv, View
  <2>6. \A d \in Callers : bPc[d] = "delete" /\ k \in bKey[d] => Off \in S
    BY <1>1, <1>3 DEF BuffInv, DeleteInv
  <2>7. \A d \in Callers : bPc'[d] = "delete" => bPc[d] = "delete" /\ bKey'[d] = bKey[d]
    BY <2>1 DEF BuffInv, Buff!TypeOK
  <2>8. GetInv'
    BY <1>1, <2>1, <2>5, <2>6, <2>7 DEF BuffInv, Buff!TypeOK, GetInv
  <2>9. Buff!ReadsCurrent'
    BY <1>1, <2>1 DEF BuffInv, Buff!TypeOK, Buff!ReadsCurrent
  <2> QED
    BY <2>2, <2>3, <2>4, <2>8, <2>9 DEF BuffInv
<1> QED
  BY <1>2, <1>3

LEMMA GetBackInv == ASSUME BuffInv, NEW c \in Callers, Buff!getBack(c) PROVE BuffInv'
<1>1. PICK k \in bKey[c] : bGot' = [bGot EXCEPT ![c] = bBack[k]]
  BY DEF Buff!getBack
<1>2. k \in Keys /\ bBack[k] \in Values \cup {Off} /\ bBack[k] \in bSeen[c]
  BY DEF BuffInv, Buff!TypeOK, Buff!Maps, GetInv, Buff!getBack
<1>3. Buff!TypeOK'
  BY <1>1, <1>2 DEF BuffInv, Buff!TypeOK, Buff!getBack
<1>4. BuffLockInv'
  BY DEF BuffInv, Buff!TypeOK, BuffLockInv, Buff!getBack
<1>5. ViewInv' /\ ClearInv' /\ DeleteInv' /\ GetInv'
  BY DEF BuffInv, Buff!TypeOK, ViewInv, View, ClearInv, DeleteInv, GetInv, Buff!getBack
<1>6. Buff!ReadsCurrent'
  BY <1>1, <1>2 DEF BuffInv, Buff!TypeOK, Buff!ReadsCurrent, Buff!getBack
<1> QED
  BY <1>3, <1>4, <1>5, <1>6 DEF BuffInv

-----------------------------------------------------------------------------
(* Writes *)

\* What the history of a write keeps.
LEMMA WroteFacts ==
  ASSUME Buff!TypeOK, NEW m \in Buff!Maps, Buff!wrote(m)
  PROVE  /\ bVal' = m
         /\ bSeen' \in [Callers -> SUBSET (Values \cup {Off})]
         /\ \A c \in Callers : bSeen[c] \subseteq bSeen'[c]
         /\ \A c \in Callers : bPc[c] # "get" => bSeen'[c] = bSeen[c]
         /\ \A c \in Callers : \A k \in bKey[c] : bPc[c] = "get" => m[k] \in bSeen'[c]
<1>1. \A c \in Callers : bSeen[c] \cup {m[k] : k \in bKey[c]} \in SUBSET (Values \cup {Off})
  BY DEF Buff!TypeOK, Buff!Maps
<1> QED
  BY <1>1 DEF Buff!TypeOK, Buff!wrote

LEMMA SetInv ==
  ASSUME Buff!BufferAssumption, BuffInv, NEW c \in Callers, NEW k \in Keys, NEW v \in Values, Buff!Set(c, k, v)
  PROVE  BuffInv'
<1> DEFINE m == [bVal EXCEPT ![k] = v]
<1>1. m \in Buff!Maps /\ bBuf' \in Buff!Maps
  BY DEF BuffInv, Buff!TypeOK, Buff!Maps, Buff!Set
<1>2. /\ bVal' = m
      /\ bSeen' \in [Callers -> SUBSET (Values \cup {Off})]
      /\ \A e \in Callers : bSeen[e] \subseteq bSeen'[e]
      /\ \A e \in Callers : bPc[e] # "get" => bSeen'[e] = bSeen[e]
  BY <1>1, WroteFacts DEF BuffInv, Buff!Set
<1>3. /\ bPc[c] = "idle" /\ bPc' = [bPc EXCEPT ![c] = "count"] /\ bWriter = Off
      /\ \A j \in Keys : bBuf'[j] = (IF j = k THEN v ELSE bBuf[j])
      /\ \A j \in Keys : m[j] = (IF j = k THEN v ELSE bVal[j])
  BY DEF BuffInv, Buff!TypeOK, Buff!Maps, Buff!Set, Buff!call, Buff!canRLock
<1> HIDE DEF m
<1>4. Buff!TypeOK'
  <2>1. bVal' \in Buff!Maps /\ bLimbo' \in SUBSET Keys /\ bCalls' \in Nat
    BY <1>1, <1>2 DEF BuffInv, Buff!TypeOK, Buff!Set, Buff!call
  <2>2. bPc' \in [Callers -> {"idle", "get", "count", "delete", "flush", "toBack", "clear"}]
    BY <1>3 DEF BuffInv, Buff!TypeOK
  <2> QED
    BY <1>1, <1>2, <2>1, <2>2 DEF BuffInv, Buff!TypeOK, Buff!Set
<1>5. BuffLockInv'
  BY <1>3 DEF BuffInv, Buff!TypeOK, BuffLockInv, Buff!Set
<1>6. ViewInv'
  BY <1>2, <1>3 DEF BuffInv, ViewInv, View, Buff!Set, Buff!BufferAssumption
<1>7. ClearInv'
  BY <1>3 DEF BuffInv, Buff!TypeOK, BuffLockInv, ClearInv, Buff!BufferAssumption
<1>8. DeleteInv'
  BY <1>2, <1>3 DEF BuffInv, Buff!TypeOK, DeleteInv, Buff!Set, Buff!BufferAssumption
<1>9. GetInv'
  BY <1>2, <1>3 DEF BuffInv, Buff!TypeOK, GetInv, Buff!Set
<1>10. Buff!ReadsCurrent'
  BY <1>2, <1>3 DEF BuffInv, Buff!TypeOK, Buff!ReadsCurrent, Buff!Set
<1> QED
  BY <1>4, <1>5, <1>6, <1>7, <1>8, <1>9, <1>10 DEF BuffInv

LEMMA CommitBatchInv ==
  ASSUME Buff!BufferAssumption, BuffInv, NEW c \in Callers, NEW b \in Buff!Batches, Buff!CommitBatch(c, b)
  PROVE  BuffInv'
<1> DEFINE m == Buff!Apply(b, bVal)
<1> DEFINE D == Buff!Deleted(b)
<1>1. m \in Buff!Maps /\ bBuf' \in Buff!Maps /\ D \in SUBSET Keys
  BY DEF BuffInv, Buff!TypeOK, Buff!Maps, Buff!CommitBatch, Buff!Batches, Buff!Apply, Buff!Deleted
<1>2. /\ bVal' = m
      /\ bSeen' \in [Callers -> SUBSET (Values \cup {Off})]
      /\ \A e \in Callers : bSeen[e] \subseteq bSeen'[e]
      /\ \A e \in Callers : bPc[e] # "get" => bSeen'[e] = bSeen[e]
      /\ \A e \in Callers : \A k \in bKey[e] : bPc[e] = "get" => m[k] \in bSeen'[e]
  BY <1>1, WroteFacts DEF BuffInv, Buff!CommitBatch
<1>3. /\ \A k \in Keys : bBuf'[k] = (IF b[k] = Keep THEN bBuf[k] ELSE b[k])
      /\ \A k \in Keys : m[k] = (IF b[k] = Keep THEN bVal[k] ELSE b[k])
      /\ \A k \in Keys : k \in D <=> b[k] = Off
      /\ \A k \in Keys : k \in bLimbo' <=> (k \in bLimbo \/ k \in D) /\ b[k] \in {Keep, Off}
      /\ bLimbo' \in SUBSET Keys
      /\ bPc[c] = "idle" /\ bWriter = Off /\ bCalls' = bCalls + 1
      /\ UNCHANGED <<bBack, bBuffered, bWriter, bGot>>
  BY DEF BuffInv, Buff!TypeOK, Buff!CommitBatch, Buff!call, Buff!canRLock, Buff!Apply, Buff!Deleted
<1>4. \/ D = {} /\ UNCHANGED <<bReaders, bPc, bKey>>
      \/ /\ bReaders' = bReaders \cup {c} /\ bPc' = [bPc EXCEPT ![c] = "delete"]
         /\ bKey' = [bKey EXCEPT ![c] = D]
  BY DEF Buff!CommitBatch
<1> HIDE DEF m, D
<1>5. Keep # Off
  BY DEF Buff!BufferAssumption
<1>6. Buff!TypeOK'
  BY <1>1, <1>2, <1>3, <1>4 DEF BuffInv, Buff!TypeOK
<1>7. BuffLockInv'
  BY <1>3, <1>4 DEF BuffInv, Buff!TypeOK, BuffLockInv, Buff!BufferAssumption
<1>8. ViewInv'
  BY <1>2, <1>3, <1>5 DEF BuffInv, Buff!TypeOK, ViewInv, View
<1>9. ClearInv'
  BY <1>3, <1>4 DEF BuffInv, Buff!TypeOK, BuffLockInv, ClearInv, Buff!BufferAssumption
<1>10. DeleteInv'
  <2> SUFFICES ASSUME NEW d \in Callers, NEW k \in bKey'[d], bPc'[d] = "delete", bBuf'[k] = Off
               PROVE  bVal'[k] = Off
    BY DEF DeleteInv
  <2>1. k \in Keys
    BY <1>6 DEF Buff!TypeOK
  <2>2. CASE b[k] # Keep
    BY <1>2, <1>3, <2>1, <2>2
  <2>3. CASE b[k] = Keep
    <3>1. k \in bKey[d] /\ bPc[d] = "delete"
      BY <1>3, <1>4, <1>5, <2>1, <2>3 DEF BuffInv, Buff!TypeOK
    <3> QED
      BY <1>2, <1>3, <2>1, <2>3, <3>1 DEF BuffInv, DeleteInv
  <2> QED
    BY <2>2, <2>3
<1>11. GetInv'
  <2> SUFFICES ASSUME NEW e \in Callers, NEW k \in bKey'[e], bPc'[e] = "get"
               PROVE  /\ bBack'[k] \in bSeen'[e]
                      /\ \A d \in Callers :
                            bPc'[d] = "delete" /\ k \in bKey'[d] => Off \in bSeen'[e]
    BY DEF GetInv
  <2>1. bPc[e] = "get" /\ bKey'[e] = bKey[e] /\ k \in Keys
    BY <1>3, <1>4, <1>6 DEF BuffInv, Buff!TypeOK
  <2>2. bBack'[k] \in bSeen'[e]
    BY <1>2, <1>3, <2>1 DEF BuffInv, GetInv
  <2>3. ASSUME NEW d \in Callers, bPc'[d] = "delete", k \in bKey'[d]
        PROVE  Off \in bSeen'[e]
    <3>1. CASE bPc[d] = "delete" /\ k \in bKey[d]
      BY <1>2, <2>1, <3>1 DEF BuffInv, GetInv
    <3>2. CASE ~(bPc[d] = "delete" /\ k \in bKey[d])
      <4>1. k \in D
        BY <1>4, <2>3, <3>2 DEF BuffInv, Buff!TypeOK
      <4>2. m[k] = Off
        BY <1>3, <1>5, <2>1, <4>1
      <4> QED
        BY <1>2, <2>1, <4>2
    <3> QED
      BY <3>1, <3>2
  <2> QED
    BY <2>2, <2>3
<1>12. Buff!ReadsCurrent'
  BY <1>2, <1>3, <1>4 DEF BuffInv, Buff!TypeOK, Buff!ReadsCurrent
<1> QED
  BY <1>6, <1>7, <1>8, <1>9, <1>10, <1>11, <1>12 DEF BuffInv

LEMMA CountBufferedInv == ASSUME BuffInv, NEW c \in Callers, Buff!countBuffered(c) PROVE BuffInv'
<1>1. Buff!TypeOK'
  BY DEF BuffInv, Buff!TypeOK, Buff!countBuffered
<1>2. BuffLockInv'
  BY DEF BuffInv, Buff!TypeOK, BuffLockInv, Buff!countBuffered
<1>3. ViewInv' /\ ClearInv' /\ DeleteInv' /\ GetInv' /\ Buff!ReadsCurrent'
  BY DEF BuffInv, Buff!TypeOK, ViewInv, View, ClearInv, DeleteInv, GetInv, Buff!ReadsCurrent, Buff!countBuffered
<1> QED
  BY <1>1, <1>2, <1>3 DEF BuffInv

LEMMA DeleteBackInv == ASSUME Buff!BufferAssumption, BuffInv, NEW c \in Callers, Buff!deleteBack(c) PROVE BuffInv'
<1>1. \A k \in Keys : bBack'[k] = (IF k \in bKey[c] THEN Off ELSE bBack[k])
  BY DEF Buff!deleteBack
<1>2. Buff!TypeOK'
  BY DEF BuffInv, Buff!TypeOK, Buff!Maps, Buff!deleteBack
<1>3. BuffLockInv'
  BY DEF BuffInv, Buff!TypeOK, BuffLockInv, Buff!deleteBack
<1>4. ViewInv'
  BY <1>1 DEF BuffInv, Buff!TypeOK, ViewInv, View, DeleteInv, Buff!deleteBack
<1>5. \A d \in Callers : bPc[d] # "clear"
  BY DEF BuffInv, BuffLockInv, Buff!deleteBack, Buff!BufferAssumption
<1>6. ClearInv'
  BY <1>5 DEF BuffInv, Buff!TypeOK, ClearInv, Buff!deleteBack
<1>7. DeleteInv' /\ Buff!ReadsCurrent'
  BY DEF BuffInv, Buff!TypeOK, DeleteInv, Buff!ReadsCurrent, Buff!deleteBack
<1>8. GetInv'
  BY <1>1 DEF BuffInv, Buff!TypeOK, GetInv, Buff!deleteBack
<1> QED
  BY <1>2, <1>3, <1>4, <1>6, <1>7, <1>8 DEF BuffInv

LEMMA DeleteBackFailsInv == ASSUME BuffInv, NEW c \in Callers, Buff!deleteBackFails(c) PROVE BuffInv'
<1>1. Buff!TypeOK'
  BY DEF BuffInv, Buff!TypeOK, Buff!deleteBackFails
<1>2. BuffLockInv'
  BY DEF BuffInv, Buff!TypeOK, BuffLockInv, Buff!deleteBackFails
<1>3. ViewInv' /\ ClearInv' /\ DeleteInv' /\ GetInv' /\ Buff!ReadsCurrent'
  BY DEF BuffInv, Buff!TypeOK, ViewInv, View, ClearInv, DeleteInv, GetInv, Buff!ReadsCurrent, Buff!deleteBackFails
<1> QED
  BY <1>1, <1>2, <1>3 DEF BuffInv

-----------------------------------------------------------------------------
(* Flush *)

LEMMA FlushCallInv == ASSUME BuffInv, NEW c \in Callers, Buff!FlushCall(c) PROVE BuffInv'
<1>1. Buff!TypeOK'
  BY DEF BuffInv, Buff!TypeOK, Buff!FlushCall, Buff!call
<1>2. BuffLockInv'
  BY DEF BuffInv, Buff!TypeOK, BuffLockInv, Buff!FlushCall, Buff!call
<1>3. ViewInv' /\ ClearInv' /\ DeleteInv' /\ GetInv' /\ Buff!ReadsCurrent'
  BY DEF BuffInv, Buff!TypeOK, ViewInv, View, ClearInv, DeleteInv, GetInv, Buff!ReadsCurrent, Buff!FlushCall, Buff!call
<1> QED
  BY <1>1, <1>2, <1>3 DEF BuffInv

LEMMA LockKeepsInv == ASSUME Buff!BufferAssumption, BuffInv, NEW c \in Callers, Buff!lock(c) PROVE BuffInv'
<1>1. Buff!TypeOK'
  BY DEF BuffInv, Buff!TypeOK, Buff!lock
<1>2. BuffLockInv'
  BY DEF BuffInv, Buff!TypeOK, BuffLockInv, Buff!lock, Buff!BufferAssumption
<1>3. ViewInv' /\ ClearInv' /\ DeleteInv' /\ GetInv' /\ Buff!ReadsCurrent'
  BY DEF BuffInv, Buff!TypeOK, ViewInv, View, ClearInv, DeleteInv, GetInv, Buff!ReadsCurrent, Buff!lock
<1> QED
  BY <1>1, <1>2, <1>3 DEF BuffInv

\* While one holds the write lock nobody else is between two steps under mu.
LEMMA Alone ==
  ASSUME Buff!BufferAssumption, BuffInv, NEW c \in Callers, bPc[c] \in {"toBack", "clear"}
  PROVE  \A d \in Callers : /\ bPc[d] \notin {"get", "delete"}
                            /\ d # c => bPc[d] \notin {"toBack", "clear"}
BY DEF BuffInv, Buff!TypeOK, BuffLockInv, Buff!BufferAssumption

LEMMA FlushToBackInv == ASSUME Buff!BufferAssumption, BuffInv, NEW c \in Callers, Buff!flushToBack(c) PROVE BuffInv'
<1>1. \A k \in Keys : bBack'[k] = (IF bBuf[k] # Off THEN bBuf[k] ELSE bBack[k])
  BY DEF Buff!flushToBack, Buff!Buffered
<1>2. Buff!TypeOK'
  BY DEF BuffInv, Buff!TypeOK, Buff!Maps, Buff!flushToBack, Buff!Buffered
<1>3. BuffLockInv'
  BY DEF BuffInv, Buff!TypeOK, BuffLockInv, Buff!flushToBack
<1>4. ViewInv'
  BY <1>1 DEF BuffInv, ViewInv, View, Buff!flushToBack
<1>5. ClearInv'
  BY <1>1 DEF ClearInv, Buff!flushToBack
<1>6. DeleteInv' /\ GetInv' /\ Buff!ReadsCurrent'
  BY Alone DEF BuffInv, Buff!TypeOK, DeleteInv, GetInv, Buff!ReadsCurrent, Buff!flushToBack
<1> QED
  BY <1>2, <1>3, <1>4, <1>5, <1>6 DEF BuffInv

LEMMA FlushClearInv == ASSUME Buff!BufferAssumption, BuffInv, NEW c \in Callers, Buff!flushClear(c) PROVE BuffInv'
<1>1. \A k \in Keys : bBuf'[k] = Off
  BY DEF Buff!flushClear
<1>2. Buff!TypeOK'
  BY DEF BuffInv, Buff!TypeOK, Buff!Maps, Buff!flushClear
<1>3. BuffLockInv'
  BY DEF BuffInv, Buff!TypeOK, BuffLockInv, Buff!flushClear, Buff!BufferAssumption
<1>4. ViewInv'
  BY <1>1 DEF BuffInv, ViewInv, View, ClearInv, Buff!flushClear
<1>5. ClearInv'
  BY <1>1 DEF ClearInv
<1>6. DeleteInv' /\ GetInv' /\ Buff!ReadsCurrent'
  BY Alone DEF BuffInv, Buff!TypeOK, DeleteInv, GetInv, Buff!ReadsCurrent, Buff!flushClear
<1> QED
  BY <1>2, <1>3, <1>4, <1>5, <1>6 DEF BuffInv

LEMMA FlushFailsInv == ASSUME Buff!BufferAssumption, BuffInv, NEW c \in Callers, Buff!flushFails(c) PROVE BuffInv'
<1>1. Buff!TypeOK'
  BY DEF BuffInv, Buff!TypeOK, Buff!flushFails
<1>2. BuffLockInv'
  BY DEF BuffInv, Buff!TypeOK, BuffLockInv, Buff!flushFails, Buff!BufferAssumption
<1>3. ViewInv' /\ ClearInv' /\ DeleteInv' /\ GetInv' /\ Buff!ReadsCurrent'
  BY DEF BuffInv, Buff!TypeOK, ViewInv, View, ClearInv, DeleteInv, GetInv, Buff!ReadsCurrent, Buff!flushFails
<1> QED
  BY <1>1, <1>2, <1>3 DEF BuffInv

-----------------------------------------------------------------------------

LEMMA BuffNextInv == ASSUME Buff!BufferAssumption, BuffInv, [Buff!Next]_(Buff!vars) PROVE BuffInv'
<1>1. ASSUME NEW c \in Callers, NEW k \in Keys, Buff!Get(c, k) PROVE BuffInv'
  BY <1>1, GetKeepsInv
<1>2. ASSUME NEW c \in Callers, NEW k \in Keys, NEW v \in Values, Buff!Set(c, k, v) PROVE BuffInv'
  BY <1>2, SetInv
<1>3. ASSUME NEW c \in Callers, NEW b \in Buff!Batches, Buff!CommitBatch(c, b) PROVE BuffInv'
  BY <1>3, CommitBatchInv
<1>4. ASSUME NEW c \in Callers,
             Buff!getBack(c) \/ Buff!countBuffered(c) \/ Buff!deleteBack(c) \/ Buff!deleteBackFails(c)
      PROVE  BuffInv'
  BY <1>4, GetBackInv, CountBufferedInv, DeleteBackInv, DeleteBackFailsInv
<1>5. ASSUME NEW c \in Callers, Buff!FlushCall(c) \/ Buff!lock(c) PROVE BuffInv'
  BY <1>5, FlushCallInv, LockKeepsInv
<1>6. ASSUME NEW c \in Callers, Buff!flushToBack(c) \/ Buff!flushClear(c) \/ Buff!flushFails(c) PROVE BuffInv'
  BY <1>6, FlushToBackInv, FlushClearInv, FlushFailsInv
<1>7. CASE UNCHANGED Buff!vars
  BY <1>7 DEF Buff!vars, BuffInv, Buff!TypeOK, BuffLockInv, ViewInv, View, ClearInv, DeleteInv, GetInv, Buff!ReadsCurrent
<1> QED
  BY <1>1, <1>2, <1>3, <1>4, <1>5, <1>6, <1>7 DEF Buff!Next

-----------------------------------------------------------------------------
(***************************************************************************)
(* The encrypting storage, for any plaintext blobs, uploads and gate: what *)
(* was acknowledged can be decrypted, in this life of the process and in   *)
(* any later one.                                                          *)
(*                                                                         *)
(* EncryptReadable is not inductive.  What carries an acknowledged blob    *)
(* over a restart is its meta blob (EncrAckInv); what makes the rebuilt    *)
(* index complete is that, while the storage starts, every meta blob is    *)
(* either in the index or somewhere in the pipeline (StartInv); and what   *)
(* makes a row good is that the encrypted blob was stored before the meta  *)
(* blob and the meta blob before the row (OrderInv, MetaInv).              *)
(***************************************************************************)

\* The encrypted blob before the meta blob, the meta blob before the row.
OrderInv ==
    \A u \in Callers :
       /\ ePc[u] # "idle" => eMode = "up"
       /\ ePc[u] \in {"meta", "index"} => eEnc[u] \in eBlobs
       /\ ePc[u] = "index" => eEnc[u] \in eMeta

MetaInv == eMeta \subseteq eBlobs

RowInv == \A p \in Plain : eIndex[p] # Off => <<p, eIndex[p]>> \in eBlobs

\* Only meta blobs are in the pipeline.
PipeInv ==
    /\ eUnread \subseteq eMeta /\ eFetching \subseteq eMeta
    /\ \A e \in eMetac : e[1] \in eMeta

EncrAckInv == \A p \in eAcked : \E iv \in IVs : <<p, iv>> \in eMeta

\* No meta blob drops out of the pipeline before its row is set.
StartInv ==
    eMode = "starting" /\ eEpc # "err" =>
       /\ eEpc = "nil" => eUnread = {}
       /\ \A m \in eMeta : \/ eIndex[m[1]] # Off
                           \/ m \in eUnread \cup eFetching
                           \/ \E ok \in BOOLEAN : <<m, ok>> \in eMetac

UpInv == eMode = "up" => \A p \in eAcked : eIndex[p] # Off

EncrInv == /\ Encr!TypeOK /\ OrderInv /\ MetaInv /\ RowInv
           /\ PipeInv /\ EncrAckInv /\ StartInv /\ UpInv

-----------------------------------------------------------------------------

LEMMA EncrInitInv == ASSUME Encr!EncryptAssumption PROVE Encr!Init => EncrInv
<1> SUFFICES ASSUME Encr!Init PROVE EncrInv
  OBVIOUS
<1>1. (CHOOSE e \in Encr!Encs : TRUE) \in Encr!Encs
  BY DEF Encr!EncryptAssumption
<1>2. Encr!TypeOK
  BY <1>1 DEF Encr!Init, Encr!TypeOK, Encr!NoRows
<1> QED
  BY <1>2 DEF Encr!Init, EncrInv, OrderInv, MetaInv, RowInv, PipeInv, EncrAckInv, StartInv, UpInv, Encr!NoRows

LEMMA EncrReceiveBlobInv ==
  ASSUME EncrInv, NEW u \in Callers, NEW p \in Plain, Encr!ReceiveBlob(u, p)
  PROVE  EncrInv'
<1>1. Encr!TypeOK'
  BY DEF EncrInv, Encr!TypeOK, Encr!ReceiveBlob, Encr!to, Encr!pipeline, Encr!Encs
<1>2. OrderInv'
  BY DEF EncrInv, Encr!TypeOK, OrderInv, Encr!ReceiveBlob, Encr!to
<1>3. MetaInv' /\ RowInv' /\ PipeInv' /\ EncrAckInv' /\ StartInv' /\ UpInv'
  BY DEF EncrInv, MetaInv, RowInv, PipeInv, EncrAckInv, StartInv, UpInv, Encr!ReceiveBlob, Encr!pipeline
<1> QED
  BY <1>1, <1>2, <1>3 DEF EncrInv

LEMMA StoreBlobInv ==
  ASSUME EncrInv, NEW u \in Callers, Encr!storeBlob(u)
  PROVE  EncrInv'
<1>1. eEnc[u] \in Encr!Encs
  BY DEF EncrInv, Encr!TypeOK
<1>2. Encr!TypeOK'
  BY <1>1 DEF EncrInv, Encr!TypeOK, Encr!storeBlob, Encr!to, Encr!pipeline
<1>3. OrderInv'
  BY DEF EncrInv, Encr!TypeOK, OrderInv, Encr!storeBlob, Encr!to
<1>4. MetaInv' /\ RowInv' /\ PipeInv' /\ EncrAckInv' /\ StartInv' /\ UpInv'
  BY DEF EncrInv, MetaInv, RowInv, PipeInv, EncrAckInv, StartInv, UpInv, Encr!storeBlob, Encr!pipeline
<1> QED
  BY <1>2, <1>3, <1>4 DEF EncrInv

LEMMA StoreMetaInv ==
  ASSUME EncrInv, NEW u \in Callers, Encr!storeMeta(u)
  PROVE  EncrInv'
<1>1. eEnc[u] \in Encr!Encs /\ eEnc[u] \in eBlobs /\ eMode = "up"
  BY DEF EncrInv, Encr!TypeOK, OrderInv, Encr!storeMeta
<1>2. Encr!TypeOK'
  BY <1>1 DEF EncrInv, Encr!TypeOK, Encr!storeMeta, Encr!to, Encr!pipeline
<1>3. OrderInv'
  BY DEF EncrInv, Encr!TypeOK, OrderInv, Encr!storeMeta, Encr!to
<1>4. MetaInv' /\ RowInv' /\ PipeInv' /\ EncrAckInv' /\ StartInv' /\ UpInv'
  BY <1>1 DEF EncrInv, MetaInv, RowInv, PipeInv, EncrAckInv, StartInv, UpInv, Encr!storeMeta, Encr!pipeline
<1> QED
  BY <1>2, <1>3, <1>4 DEF EncrInv

LEMMA SetIndexInv ==
  ASSUME Encr!EncryptAssumption, EncrInv, NEW u \in Callers, Encr!setIndex(u)
  PROVE  EncrInv'
<1>1. /\ eEnc[u] \in Encr!Encs /\ eEnc[u] \in eBlobs /\ eEnc[u] \in eMeta /\ eMode = "up"
      /\ eEnc[u][1] \in Plain /\ eEnc[u][2] \in IVs /\ eEnc[u] = <<eEnc[u][1], eEnc[u][2]>>
  BY DEF EncrInv, Encr!TypeOK, OrderInv, Encr!setIndex, Encr!Encs
<1>2. Encr!TypeOK'
  BY <1>1 DEF EncrInv, Encr!TypeOK, Encr!setIndex, Encr!to, Encr!pipeline
<1>3. OrderInv'
  BY DEF EncrInv, Encr!TypeOK, OrderInv, Encr!setIndex, Encr!to
<1>4. RowInv'
  BY <1>1 DEF EncrInv, Encr!TypeOK, RowInv, Encr!setIndex
<1>5. EncrAckInv'
  BY <1>1 DEF EncrInv, EncrAckInv, Encr!setIndex
<1>6. UpInv'
  BY <1>1 DEF EncrInv, Encr!TypeOK, UpInv, Encr!setIndex, Encr!EncryptAssumption
<1>7. MetaInv' /\ PipeInv' /\ StartInv'
  BY <1>1 DEF EncrInv, MetaInv, PipeInv, StartInv, Encr!setIndex, Encr!pipeline
<1> QED
  BY <1>2, <1>3, <1>4, <1>5, <1>6, <1>7 DEF EncrInv

-----------------------------------------------------------------------------

LEMMA StartKeepsInv == ASSUME EncrInv, Encr!Start PROVE EncrInv'
<1>1. Encr!TypeOK'
  BY DEF EncrInv, Encr!TypeOK, Encr!Start, Encr!uploads
<1>2. OrderInv' /\ MetaInv' /\ RowInv' /\ PipeInv' /\ EncrAckInv' /\ UpInv'
  BY DEF EncrInv, OrderInv, MetaInv, RowInv, PipeInv, EncrAckInv, UpInv, Encr!Start, Encr!uploads
<1>3. StartInv'
  BY DEF StartInv, Encr!Start
<1> QED
  BY <1>1, <1>2, <1>3 DEF EncrInv

LEMMA StartFetchInv == ASSUME EncrInv, NEW m \in eUnread, Encr!startFetch(m) PROVE EncrInv'
<1>1. Encr!TypeOK'
  BY DEF EncrInv, Encr!TypeOK, Encr!startFetch, Encr!uploads
<1>2. OrderInv' /\ MetaInv' /\ RowInv' /\ PipeInv' /\ EncrAckInv' /\ UpInv'
  BY DEF EncrInv, OrderInv, MetaInv, RowInv, PipeInv, EncrAckInv, UpInv, Encr!startFetch, Encr!uploads
<1>3. StartInv'
  BY DEF EncrInv, StartInv, Encr!startFetch
<1> QED
  BY <1>1, <1>2, <1>3 DEF EncrInv

LEMMA EnumerateEndsInv == ASSUME EncrInv, Encr!enumerateEnds PROVE EncrInv'
<1>1. Encr!TypeOK'
  BY DEF EncrInv, Encr!TypeOK, Encr!enumerateEnds, Encr!uploads
<1>2. OrderInv' /\ MetaInv' /\ RowInv' /\ PipeInv' /\ EncrAckInv' /\ UpInv'
  BY DEF EncrInv, OrderInv, MetaInv, RowInv, PipeInv, EncrAckInv, UpInv, Encr!enumerateEnds, Encr!uploads
<1>3. StartInv'
  BY DEF EncrInv, StartInv, Encr!enumerateEnds
<1> QED
  BY <1>1, <1>2, <1>3 DEF EncrInv

LEMMA FetchedInv == ASSUME EncrInv, NEW m \in eFetching, Encr!fetched(m) PROVE EncrInv'
<1>1. PICK ok \in BOOLEAN : eMetac' = eMetac \cup {<<m, ok>>}
  BY DEF Encr!fetched
<1>2. Encr!TypeOK'
  BY <1>1 DEF EncrInv, Encr!TypeOK, Encr!fetched, Encr!uploads
<1>3. OrderInv' /\ MetaInv' /\ RowInv' /\ EncrAckInv' /\ UpInv'
  BY DEF EncrInv, OrderInv, MetaInv, RowInv, EncrAckInv, UpInv, Encr!fetched, Encr!uploads
<1>4. PipeInv'
  BY <1>1 DEF EncrInv, PipeInv, Encr!fetched
<1>5. StartInv'
  BY <1>1 DEF EncrInv, StartInv, Encr!fetched
<1> QED
  BY <1>2, <1>3, <1>4, <1>5 DEF EncrInv

LEMMA ProcessMetaInv ==
  ASSUME Encr!EncryptAssumption, EncrInv, NEW e \in eMetac, Encr!processMeta(e)
  PROVE  EncrInv'
<1>1. /\ e[1] \in eMeta /\ e[1] \in eBlobs /\ e[2] \in BOOLEAN /\ e = <<e[1], e[2]>>
      /\ e[1][1] \in Plain /\ e[1][2] \in IVs /\ e[1] = <<e[1][1], e[1][2]>>
  BY DEF EncrInv, Encr!TypeOK, PipeInv, MetaInv, Encr!Encs
<1>2. OrderInv' /\ MetaInv' /\ EncrAckInv' /\ UpInv'
  BY DEF EncrInv, OrderInv, MetaInv, EncrAckInv, UpInv, Encr!processMeta, Encr!uploads
<1>3. CASE eMode' = "down" /\ Encr!endPipeline /\ UNCHANGED eIndex
  <2>1. Encr!TypeOK'
    BY <1>3 DEF EncrInv, Encr!TypeOK, Encr!processMeta, Encr!uploads, Encr!endPipeline
  <2> QED
    BY <1>2, <1>3, <2>1 DEF EncrInv, RowInv, PipeInv, StartInv, Encr!processMeta, Encr!endPipeline
<1>4. CASE /\ eIndex' = [eIndex EXCEPT ![e[1][1]] = e[1][2]]
           /\ eMetac' = eMetac \ {e}
           /\ UNCHANGED <<eMode, eEpc, eUnread, eFetching>>
  <2>1. Encr!TypeOK'
    BY <1>1, <1>4 DEF EncrInv, Encr!TypeOK, Encr!processMeta, Encr!uploads
  <2>2. RowInv'
    BY <1>1, <1>4 DEF EncrInv, Encr!TypeOK, RowInv, Encr!processMeta
  <2>3. PipeInv'
    BY <1>4 DEF EncrInv, PipeInv, Encr!processMeta
  <2>4. ASSUME StartInv, eMode = "starting", eEpc # "err", NEW m \in eMeta
        PROVE  \/ eIndex'[m[1]] # Off
               \/ m \in eUnread \cup eFetching
               \/ \E ok \in BOOLEAN : <<m, ok>> \in eMetac'
    <3>1. m[1] \in Plain
      BY DEF EncrInv, Encr!TypeOK, Encr!Encs
    <3>2. CASE m[1] = e[1][1]
      BY <1>1, <1>4, <3>2 DEF EncrInv, Encr!TypeOK, Encr!EncryptAssumption
    <3>3. CASE m[1] # e[1][1]
      <4>1. eIndex'[m[1]] = eIndex[m[1]]
        BY <1>4, <3>1, <3>3 DEF EncrInv, Encr!TypeOK
      <4>2. \A ok \in BOOLEAN : <<m, ok>> \in eMetac => <<m, ok>> \in eMetac'
        BY <1>1, <1>4, <3>3
      <4> QED
        BY <2>4, <4>1, <4>2 DEF StartInv
    <3> QED
      BY <3>2, <3>3
  <2>5. StartInv'
    BY <1>4, <2>4 DEF EncrInv, StartInv, Encr!processMeta
  <2> QED
    BY <1>2, <2>1, <2>2, <2>3, <2>5 DEF EncrInv
<1> QED
  BY <1>3, <1>4 DEF Encr!processMeta

LEMMA StartedInv == ASSUME EncrInv, Encr!started PROVE EncrInv'
<1>1. Encr!TypeOK'
  BY DEF EncrInv, Encr!TypeOK, Encr!started, Encr!uploads, Encr!endPipeline
<1>2. OrderInv' /\ MetaInv' /\ RowInv' /\ PipeInv' /\ EncrAckInv' /\ StartInv'
  BY DEF EncrInv, OrderInv, MetaInv, RowInv, PipeInv, EncrAckInv, StartInv, Encr!started, Encr!uploads, Encr!endPipeline
<1>3. UpInv'
  <2> SUFFICES ASSUME eEpc = "nil", NEW p \in eAcked PROVE eIndex[p] # Off
    BY DEF UpInv, Encr!started
  <2>1. PICK iv \in IVs : <<p, iv>> \in eMeta
    BY DEF EncrInv, EncrAckInv
  <2> QED
    BY <2>1 DEF EncrInv, StartInv, Encr!started
<1> QED
  BY <1>1, <1>2, <1>3 DEF EncrInv

LEMMA EncrCrashInv == ASSUME EncrInv, Encr!Crash PROVE EncrInv'
<1>1. Encr!TypeOK'
  BY DEF EncrInv, Encr!TypeOK, Encr!Crash, Encr!endPipeline, Encr!NoRows
<1>2. RowInv'
  BY DEF EncrInv, RowInv, Encr!Crash, Encr!NoRows
<1>3. OrderInv' /\ MetaInv' /\ PipeInv' /\ EncrAckInv' /\ StartInv' /\ UpInv'
  BY DEF EncrInv, OrderInv, MetaInv, PipeInv, EncrAckInv, StartInv, UpInv, Encr!Crash, Encr!endPipeline
<1> QED
  BY <1>1, <1>2, <1>3 DEF EncrInv

-----------------------------------------------------------------------------

LEMMA EncrNextInv == ASSUME Encr!EncryptAssumption, EncrInv, [Encr!Next]_(Encr!vars) PROVE EncrInv'
<1>1. ASSUME NEW u \in Callers, NEW p \in Plain, Encr!ReceiveBlob(u, p) PROVE EncrInv'
  BY <1>1, EncrReceiveBlobInv
<1>2. ASSUME NEW u \in Callers, Encr!storeBlob(u) \/ Encr!storeMeta(u) \/ Encr!setIndex(u) PROVE EncrInv'
  BY <1>2, StoreBlobInv, StoreMetaInv, SetIndexInv
<1>3. ASSUME NEW m \in eUnread, Encr!startFetch(m) PROVE EncrInv'
  BY <1>3, StartFetchInv
<1>4. ASSUME NEW m \in eFetching, Encr!fetched(m) PROVE EncrInv'
  BY <1>4, FetchedInv
<1>5. ASSUME NEW e \in eMetac, Encr!processMeta(e) PROVE EncrInv'
  BY <1>5, ProcessMetaInv
<1>6. CASE Encr!Start \/ Encr!enumerateEnds \/ Encr!started \/ Encr!Crash
  BY <1>6, StartKeepsInv, EnumerateEndsInv, StartedInv, EncrCrashInv
<1>7. CASE UNCHANGED Encr!vars
  BY <1>7 DEF Encr!vars, EncrInv, Encr!TypeOK, OrderInv, MetaInv, RowInv, PipeInv, EncrAckInv, StartInv, UpInv
<1> QED
  BY <1>1, <1>2, <1>3, <1>4, <1>5, <1>6, <1>7 DEF Encr!Next

-----------------------------------------------------------------------------
(***************************************************************************)
(* One directory of the file-per-blob storage, for any blobs, receivers    *)
(* and cleaners: the read lock keeps a receiver's directory, and what was  *)
(* acknowledged is whole.                                                  *)
(*                                                                         *)
(* A receiver holds the lock from the making of the directory to its       *)
(* return (LockInv), and so the directory is there at every step between   *)
(* (DirInv); a file gets the name of a blob after its sync only            *)
(* (WholeInv), which is also why no crash can leave a part of one.         *)
(***************************************************************************)

DiskLockInv == \A r \in Callers : lPc[r] # "idle" => r \in lReaders /\ lWant[r] \in DirBlobs

DirInv ==
    /\ \A r \in Callers : lPc[r] # "idle" => lDir
    /\ ~lDir => ~lJunk /\ \A b \in DirBlobs : lFile[b] = "none"
    /\ ~lNoDir

WholeInv ==
    /\ \A r \in Callers : lPc[r] = "rename" => r \in lSynced
    /\ \A b \in DirBlobs : lFile[b] \in {"none", "whole"}
    /\ \A b \in lAcked : lFile[b] = "whole"

DiskInv == Disk!TypeOK /\ DiskLockInv /\ DirInv /\ WholeInv

-----------------------------------------------------------------------------

LEMMA DiskInitInv == Disk!Init => DiskInv
<1> SUFFICES ASSUME Disk!Init PROVE DiskInv
  OBVIOUS
<1>1. Disk!TypeOK
  BY DEF Disk!Init, Disk!TypeOK
<1>2. DiskLockInv /\ DirInv /\ WholeInv
  BY DEF Disk!Init, DiskLockInv, DirInv, WholeInv
<1> QED
  BY <1>1, <1>2 DEF DiskInv

LEMMA DiskReceiveBlobInv ==
  ASSUME DiskInv, NEW r \in Callers, NEW b \in DirBlobs, Disk!ReceiveBlob(r, b)
  PROVE  DiskInv'
<1>1. Disk!TypeOK'
  BY DEF DiskInv, Disk!TypeOK, Disk!ReceiveBlob, Disk!to
<1>2. DiskLockInv'
  BY DEF DiskInv, Disk!TypeOK, DiskLockInv, Disk!ReceiveBlob, Disk!to
<1>3. DirInv'
  BY DEF DiskInv, DirInv, Disk!ReceiveBlob
<1>4. WholeInv'
  BY DEF DiskInv, Disk!TypeOK, WholeInv, Disk!ReceiveBlob, Disk!to
<1> QED
  BY <1>1, <1>2, <1>3, <1>4 DEF DiskInv

LEMMA ReturnInv ==
  ASSUME DiskInv, NEW r \in Callers, Disk!return(r), lAcked' \in SUBSET DirBlobs,
         \A b \in lAcked' : lFile[b] = "whole",
         UNCHANGED <<lDir, lFile, lJunk, lCpc, lWas, lNoDir, lReceives, lCrashes>>
  PROVE  DiskInv'
<1>1. Disk!TypeOK'
  BY DEF DiskInv, Disk!TypeOK, Disk!return, Disk!to
<1>2. DiskLockInv'
  BY DEF DiskInv, Disk!TypeOK, DiskLockInv, Disk!return, Disk!to
<1>3. DirInv'
  BY DEF DiskInv, Disk!TypeOK, DirInv, Disk!return, Disk!to
<1>4. WholeInv'
  BY DEF DiskInv, Disk!TypeOK, WholeInv, Disk!return, Disk!to
<1> QED
  BY <1>1, <1>2, <1>3, <1>4 DEF DiskInv

LEMMA TempFileInv == ASSUME DiskInv, NEW r \in Callers, Disk!tempFile(r) PROVE DiskInv'
<1>1. lDir /\ Disk!to(r, "copy") /\ UNCHANGED <<lReaders, lWant, lSynced, lNoDir>>
  BY DEF DiskInv, DirInv, Disk!tempFile
<1>2. Disk!TypeOK'
  BY <1>1 DEF DiskInv, Disk!TypeOK, Disk!tempFile, Disk!to
<1>3. DiskLockInv' /\ DirInv' /\ WholeInv'
  BY <1>1 DEF DiskInv, Disk!TypeOK, DiskLockInv, DirInv, WholeInv, Disk!tempFile, Disk!to
<1> QED
  BY <1>2, <1>3 DEF DiskInv

LEMMA CopyInv == ASSUME DiskInv, NEW r \in Callers, Disk!copy(r) PROVE DiskInv'
<1>1. Disk!TypeOK'
  BY DEF DiskInv, Disk!TypeOK, Disk!copy, Disk!to
<1>2. DiskLockInv' /\ DirInv' /\ WholeInv'
  BY DEF DiskInv, Disk!TypeOK, DiskLockInv, DirInv, WholeInv, Disk!copy, Disk!to
<1> QED
  BY <1>1, <1>2 DEF DiskInv

LEMMA SyncInv == ASSUME DiskInv, NEW r \in Callers, Disk!sync(r) PROVE DiskInv'
<1>1. Disk!TypeOK'
  BY DEF DiskInv, Disk!TypeOK, Disk!sync, Disk!to
<1>2. DiskLockInv' /\ DirInv'
  BY DEF DiskInv, Disk!TypeOK, DiskLockInv, DirInv, Disk!sync, Disk!to
<1>3. WholeInv'
  BY DEF DiskInv, Disk!TypeOK, WholeInv, Disk!sync, Disk!to
<1> QED
  BY <1>1, <1>2, <1>3 DEF DiskInv

LEMMA RenameInv == ASSUME DiskInv, NEW r \in Callers, Disk!rename(r) PROVE DiskInv'
<1>1. lWant[r] \in DirBlobs /\ r \in lSynced /\ lDir
  BY DEF DiskInv, DiskLockInv, DirInv, WholeInv, Disk!rename
<1>2. Disk!TypeOK'
  BY <1>1 DEF DiskInv, Disk!TypeOK, Disk!rename, Disk!to
<1>3. DiskLockInv'
  BY DEF DiskInv, Disk!TypeOK, DiskLockInv, Disk!rename, Disk!to
<1>4. DirInv'
  BY <1>1 DEF DiskInv, Disk!TypeOK, DirInv, Disk!rename, Disk!to
<1>5. WholeInv'
  BY <1>1 DEF DiskInv, Disk!TypeOK, WholeInv, Disk!rename, Disk!to
<1> QED
  BY <1>2, <1>3, <1>4, <1>5 DEF DiskInv

LEMMA StatInv == ASSUME DiskInv, NEW r \in Callers, Disk!stat(r) PROVE DiskInv'
<1>1. lWant[r] \in DirBlobs
  BY DEF DiskInv, DiskLockInv, Disk!stat
<1>2. lAcked' \in SUBSET DirBlobs /\ \A b \in lAcked' : lFile[b] = "whole"
  BY <1>1 DEF DiskInv, Disk!TypeOK, WholeInv, Disk!stat
<1> QED
  BY <1>2, ReturnInv DEF Disk!stat

LEMMA FailInv == ASSUME DiskInv, NEW r \in Callers, Disk!fail(r) PROVE DiskInv'
<1>1. lAcked' \in SUBSET DirBlobs /\ \A b \in lAcked' : lFile[b] = "whole"
  BY DEF DiskInv, Disk!TypeOK, WholeInv, Disk!fail
<1> QED
  BY <1>1, ReturnInv DEF Disk!fail

LEMMA RemoveBlobsInv == ASSUME DiskInv, NEW b \in DirBlobs, Disk!RemoveBlobs(b) PROVE DiskInv'
<1>1. Disk!TypeOK'
  BY DEF DiskInv, Disk!TypeOK, Disk!RemoveBlobs
<1>2. DiskLockInv' /\ DirInv' /\ WholeInv'
  BY DEF DiskInv, Disk!TypeOK, DiskLockInv, DirInv, WholeInv, Disk!RemoveBlobs
<1> QED
  BY <1>1, <1>2 DEF DiskInv

LEMMA CleanerInv ==
  ASSUME DiskInv, NEW c \in Cleaners, Disk!readBlobs(c) \/ Disk!tryRemoveDir(c)
  PROVE  DiskInv'
<1>1. CASE Disk!readBlobs(c)
  BY <1>1 DEF DiskInv, Disk!TypeOK, DiskLockInv, DirInv, WholeInv, Disk!readBlobs
<1>2. CASE Disk!tryRemoveDir(c)
  <2>1. Disk!TypeOK'
    BY <1>2 DEF DiskInv, Disk!TypeOK, Disk!tryRemoveDir
  <2>2. DiskLockInv' /\ WholeInv'
    BY <1>2 DEF DiskInv, DiskLockInv, WholeInv, Disk!tryRemoveDir
  <2>3. \A r \in Callers : lPc[r] = "idle"
    BY <1>2 DEF DiskInv, DiskLockInv, Disk!tryRemoveDir
  <2>4. DirInv'
    BY <1>2, <2>3 DEF DiskInv, Disk!TypeOK, DirInv, Disk!tryRemoveDir, Disk!Empty
  <2> QED
    BY <2>1, <2>2, <2>4 DEF DiskInv
<1> QED
  BY <1>1, <1>2

LEMMA DiskCrashInv == ASSUME DiskInv, Disk!Crash PROVE DiskInv'
<1>1. /\ lFile' \in [DirBlobs -> {"none", "whole", "partial"}]
      /\ \A b \in DirBlobs : lFile'[b] \in Disk!Left(b)
  BY DEF Disk!Crash
<1>2. \A b \in DirBlobs : lFile'[b] \in {"none", "whole"}
  BY <1>1 DEF DiskInv, WholeInv, Disk!Left
<1>3. Disk!TypeOK'
  <2>1. lJunk' \in {lJunk, lJunk \/ Disk!Temps # {}} /\ lJunk \in BOOLEAN
    BY DEF DiskInv, Disk!TypeOK, Disk!Crash
  <2>2. lJunk' \in BOOLEAN
    BY <2>1, Zenon
  <2>3. lDir' \in BOOLEAN
    BY DEF Disk!Crash
  <2>4. lCrashes' \in Nat
    BY DEF DiskInv, Disk!TypeOK, Disk!Crash
  <2> QED
    BY <1>1, <2>2, <2>3, <2>4 DEF DiskInv, Disk!TypeOK, Disk!Crash
<1>4. DiskLockInv' /\ WholeInv'
  BY <1>2 DEF Disk!Crash, DiskLockInv, WholeInv
<1>5. DirInv'
  BY DEF DiskInv, DirInv, Disk!Crash
<1> QED
  BY <1>3, <1>4, <1>5 DEF DiskInv

LEMMA DiskNextInv == ASSUME DiskInv, [Disk!Next]_(Disk!vars) PROVE DiskInv'
<1>1. ASSUME NEW r \in Callers, NEW b \in DirBlobs, Disk!ReceiveBlob(r, b) PROVE DiskInv'
  BY <1>1, DiskReceiveBlobInv
<1>2. ASSUME NEW r \in Callers, Disk!tempFile(r) \/ Disk!copy(r) \/ Disk!sync(r) PROVE DiskInv'
  BY <1>2, TempFileInv, CopyInv, SyncInv
<1>3. ASSUME NEW r \in Callers, Disk!rename(r) \/ Disk!stat(r) \/ Disk!fail(r) PROVE DiskInv'
  BY <1>3, RenameInv, StatInv, FailInv
<1>4. ASSUME NEW b \in DirBlobs, Disk!RemoveBlobs(b) PROVE DiskInv'
  BY <1>4, RemoveBlobsInv
<1>5. ASSUME NEW c \in Cleaners, Disk!readBlobs(c) \/ Disk!tryRemoveDir(c) PROVE DiskInv'
  BY <1>5, CleanerInv
<1>6. CASE Disk!Crash
  BY <1>6, DiskCrashInv
<1>7. CASE UNCHANGED Disk!vars
  BY <1>7 DEF Disk!vars, DiskInv, Disk!TypeOK, DiskLockInv, DirInv, WholeInv
<1> QED
  BY <1>1, <1>2, <1>3, <1>4, <1>5, <1>6, <1>7 DEF Disk!Next

-----------------------------------------------------------------------------
(***************************************************************************)
(* The components as they run beside each other.                           *)
(***************************************************************************)

\* A step is one of the component that runs, or leaves it alone; nothing changes
\* which component runs.
LEMMA DurableStep ==
  ASSUME [DurableNext]_<<part, durableVars>>
  PROVE  /\ part' = part
         /\ part = "buffer" => [Buff!Next]_(Buff!vars)
         /\ part = "encrypt" => [Encr!Next]_(Encr!vars)
         /\ part = "localdisk" => [Disk!Next]_(Disk!vars)
  BY DEF DurableNext, durableVars, bVars, eVars, lVars,
         Buff!vars, Encr!vars, Disk!vars

\* The component that runs keeps its inductive invariant.
DurableInv ==
    /\ part = "buffer" => BuffInv
    /\ part = "encrypt" => EncrInv
    /\ part = "localdisk" => DiskInv

\* The invariant of the component that runs is inductive.
LEMMA DurableInvHolds == DurableSpec => []DurableInv
<1>1. DurableInit => DurableInv
  BY DurableAssumption, BuffInitInv, EncrInitInv, DiskInitInv
     DEF DurableInit, DurableInv
<1>2. DurableInv /\ [DurableNext]_<<part, durableVars>> => DurableInv'
  <2> SUFFICES ASSUME DurableInv, [DurableNext]_<<part, durableVars>> PROVE DurableInv'
    OBVIOUS
  <2>1. part = "buffer" => BuffInv'
    BY DurableAssumption, DurableStep, BuffNextInv DEF DurableInv
  <2>2. part = "encrypt" => EncrInv'
    BY DurableAssumption, DurableStep, EncrNextInv DEF DurableInv
  <2>3. part = "localdisk" => DiskInv'
    BY DurableStep, DiskNextInv DEF DurableInv
  <2> QED
    BY <2>1, <2>2, <2>3, DurableStep DEF DurableInv
<1> QED
  BY <1>1, <1>2, PTL DEF DurableSpec

\* The variables of the three components keep to their types.
THEOREM DurableTypes == DurableSpec => []DurableTypeOK
<1>1. DurableInv => DurableTypeOK
  BY DEF DurableInv, DurableTypeOK, BuffInv, EncrInv, DiskInv
<1> QED
  BY <1>1, DurableInvHolds, PTL

\* Get answers with a value its key held during the call, whatever Sets, batches
\* and Flushes, failed ones too, come between its look into the buffer and its look
\* into the backing store.
THEOREM BufferSafety == DurableSpec => []ReadsCurrent
<1>1. DurableInv => ReadsCurrent
  BY DEF DurableInv, ReadsCurrent, BuffInv
<1> QED
  BY <1>1, DurableInvHolds, PTL

\* A storage that is up can decrypt every blob ReceiveBlob acknowledged, also when
\* readAllMetaBlobs has rebuilt the index from nothing, and no row of the index
\* names an encrypted blob that is not stored.
THEOREM EncryptSafety == DurableSpec => []EncryptReadable
<1>1. DurableInv => EncryptReadable
  BY DEF DurableInv, EncryptReadable, EncrInv, UpInv, RowInv, Encr!EncryptReadable
<1> QED
  BY <1>1, DurableInvHolds, PTL

\* No goroutine of tryRemoveDir takes the directory from a receiver that has made
\* it, and none removes a directory that has something in it.
THEOREM DirSafety == DurableSpec => []DirHeld
<1>1. DurableInv => DirHeld
  BY DEF DurableInv, DirHeld, DiskInv, Disk!TypeOK, DirInv, Disk!DirHeld, Disk!Empty, Disk!Temps
<1> QED
  BY <1>1, DurableInvHolds, PTL

\* A file under the name of a blob is whole, after a crash too, since ReceiveBlob
\* syncs it before the rename; a blob that was acknowledged, and not removed since,
\* has its file.
THEOREM AckedSafety == DurableSpec => []AckedWhole
<1>1. DurableInv => AckedWhole
  BY DEF DurableInv, AckedWhole, DiskInv, Disk!TypeOK, WholeInv, Disk!AckedWhole
<1> QED
  BY <1>1, DurableInvHolds, PTL
=============================================================================
