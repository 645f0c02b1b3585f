----------------------------- MODULE MCStorages -----------------------------
(***************************************************************************)
(* A small instance of Storages for TLC, and of the file writer beside it  *)
(* in the same way.                                                        *)
(***************************************************************************)
EXTENDS Storages, TLC

\* No component tells the blobs of diskpacked and localdisk or the callers apart.
Symmetric == Permutations(Blobs) \cup Permutations(Receivers)

\* The file that blobpacked packs: one chunk.
OneFile == "f1" :> <<"c1">>

\* The blobs of the memory cache: one of them is longer than the cache.
Lengths == "a" :> 1 @@ "b" :> 2 @@ "c" :> 1 @@ "d" :> 4

VARIABLES fPc, fN, fSpans, fUploading, fFirsterrc, fSchemas, fFutureErr, fStored, fFaulted

fVars == <<fPc, fN, fSpans, fUploading, fFirsterrc, fSchemas, fFutureErr, fStored,
           fFaulted>>

F == INSTANCE FileWriter WITH
        Data <- <<1, 1, 2, 1>>, ChunkSizes <- {1, 2}, Bits <- {1, 2, 3},
        chunksInFlight <- 2, Faults <- Failing, pc <- fPc,
        n <- fN, spans <- fSpans, uploading <- fUploading, firsterrc <- fFirsterrc,
        schemas <- fSchemas, futureErr <- fFutureErr, stored <- fStored,
        faulted <- fFaulted

Components == {"diskpacked", "blobpacked", "replica", "buffer", "encrypt", "localdisk",
               "memcache", "filewriter"}

MCInit ==
    /\ part \in Components
    /\ AllInit
    /\ \/ part = "filewriter" /\ F!Init
       \/ /\ part # "filewriter"
          /\ fPc = Off /\ fN = Off /\ fSpans = Off /\ fUploading = Off
          /\ fFirsterrc = Off /\ fSchemas = Off /\ fFutureErr = Off /\ fStored = Off
          /\ fFaulted = Off

MCNext ==
    \/ AllNext /\ UNCHANGED fVars
    \/ part = "filewriter" /\ F!Next /\ UNCHANGED allVars

MCSpec == MCInit /\ [][MCNext]_<<allVars, fVars>>

\* The file writer keeps its types, and a file whose schema blob is stored reads back
\* as it was written.
FileReadsBack == part = "filewriter" => F!TypeOK /\ F!FileReadsBack
=============================================================================
