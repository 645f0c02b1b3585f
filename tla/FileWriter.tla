----------------------------- MODULE FileWriter -----------------------------
(***************************************************************************)
(* Writing a file as chunks, "bytes" blobs and a "file" blob, and reading  *)
(* it back (pkg/schema/filewriter.go and filereader.go).                   *)
(*                                                                         *)
(* A blob is its content: a chunk has the bytes of a span of the file, a   *)
(* schema blob has parts, and equal chunks are the same blob.  Where the   *)
(* rolling checksum splits and with how many bits is left open: any chunk  *)
(* may end anywhere.  A call on the blob server takes one step, and a      *)
(* failed upload may have stored the blob.                                 *)
(***************************************************************************)
EXTENDS Naturals, Sequences, SequencesExt, FiniteSets

CONSTANTS
    Data,            \* the file's bytes
    ChunkSizes,      \* the sizes a chunk may have, the last one excepted
    Bits,            \* the scores a split may have: positive numbers
    chunksInFlight,  \* capacity of gatec
    Faults           \* what may fail: "read", "chunk", "bytes", "file"


VARIABLES
    pc,         \* where the writer is
    n,          \* bytes read and cut into spans
    spans,      \* the tree of spans
    uploading,  \* the spans of chunks being uploaded, each a <<from, to>>
    firsterrc,  \* whether an error waits to be noticed
    schemas,    \* the bytes blobs being uploaded
    futureErr,  \* whether the upload of one has failed
    stored,     \* what the blob server holds
    faulted     \* history: whether anything has failed

vars == <<pc, n, spans, uploading, firsterrc, schemas, futureErr, stored, faulted>>

Init ==
    /\ pc = "read"
    /\ n = 0
    /\ spans = << >>
    /\ uploading = {}
    /\ firsterrc = FALSE
    /\ schemas = {}
    /\ futureErr = FALSE
    /\ stored = {}
    /\ faulted = FALSE

Chunk(from, to) == [data |-> SubSeq(Data, from + 1, to)]

-----------------------------------------------------------------------------
(* writeFileChunks *)

\* How many spans at the end have a score smaller than bits.
Trailing(bits) ==
    CHOOSE k \in 0..Len(spans) :
       /\ \A i \in (Len(spans) - k + 1)..Len(spans) : spans[i].bits < bits
       /\ k < Len(spans) => spans[Len(spans) - k].bits >= bits

\* The loop reads up to a split; the spans before it with a smaller score become
\* its children.
split(k, bits) ==
    /\ pc = "read"
    /\ n + k <= Len(Data)
    /\ LET at == Len(spans) - Trailing(bits)
       IN  spans' = Append(SubSeq(spans, 1, at),
                           [from |-> n, to |-> n + k, bits |-> bits,
                            children |-> SubSeq(spans, at + 1, Len(spans))])
    /\ n' = n + k
    /\ pc' = "span"
    /\ UNCHANGED <<uploading, firsterrc, schemas, futureErr, stored, faulted>>

\* What was read since the last split is a span of its own.
endOfFile ==
    /\ pc = "read"
    /\ IF n = Len(Data)
         THEN pc' = "wait" /\ UNCHANGED spans
         ELSE /\ pc' = "lastSpan"
              /\ spans' = Append(spans, [from |-> n, to |-> Len(Data), bits |-> 0,
                                         children |-> << >>])
    /\ n' = Len(Data)
    /\ UNCHANGED <<uploading, firsterrc, schemas, futureErr, stored, faulted>>

readFails ==
    /\ pc = "read"
    /\ "read" \in Faults
    /\ pc' = "failed"
    /\ faulted' = TRUE
    /\ UNCHANGED <<n, spans, uploading, firsterrc, schemas, futureErr, stored>>

\* An error seen by now ends the loop.
uploadLastSpan ==
    /\ pc \in {"span", "lastSpan"}
    /\ pc' = IF firsterrc THEN "failed" ELSE IF pc = "span" THEN "gate" ELSE "lastGate"
    /\ firsterrc' = FALSE
    /\ UNCHANGED <<n, spans, uploading, schemas, futureErr, stored, faulted>>

\* gatec.Start, and the goroutine is on its way.
startUpload ==
    /\ pc \in {"gate", "lastGate"}
    /\ Cardinality(uploading) < chunksInFlight
    /\ uploading' = uploading \cup {<<spans[Len(spans)].from, spans[Len(spans)].to>>}
    /\ pc' = IF pc = "gate" THEN "read" ELSE "wait"
    /\ UNCHANGED <<n, spans, firsterrc, schemas, futureErr, stored, faulted>>

\* The goroutine's uploadString; only the first error is kept.
chunkUploaded(u) ==
    /\ uploading' = uploading \ {u}
    /\ \/ /\ stored' = stored \cup {Chunk(u[1], u[2])}
          /\ UNCHANGED <<firsterrc, faulted>>
       \/ /\ "chunk" \in Faults
          /\ firsterrc' = TRUE
          /\ faulted' = TRUE
          /\ stored' \in {stored, stored \cup {Chunk(u[1], u[2])}}
    /\ UNCHANGED <<pc, n, spans, schemas, futureErr>>

-----------------------------------------------------------------------------
(* addBytesParts *)

RECURSIVE Size(_)
Size(sp) ==
    sp.to - sp.from + FoldSeq(LAMBDA c, s : s + Size(c), 0, sp.children)

ChildrenSize(sps) == FoldSeq(LAMBDA c, s : s + Size(c), 0, sps)

BlobPart(sp) == [ref |-> Chunk(sp.from, sp.to), size |-> sp.to - sp.from]

RECURSIVE addBytesParts(_)

\* Faulty variant: an only child is promoted whatever children it has.
spanPartsPromoted(sp) ==
    (CASE sp.children = << >> -> << >>
       [] Len(sp.children) = 1 ->
            <<[ref |-> Chunk(sp.children[1].from, sp.children[1].to),
               size |-> Size(sp.children[1])]>>
       [] OTHER -> <<[ref |-> [parts |-> addBytesParts(sp.children)],
                      size |-> ChildrenSize(sp.children)]>>)
      \o <<BlobPart(sp)>>

\* The children's bytes come first: as a bytes blob, or as a chunk when there is
\* only one.
spanParts(sp) ==
    (CASE sp.children = << >> -> << >>
       [] Len(sp.children) = 1 /\ sp.children[1].children = << >> ->
            <<BlobPart(sp.children[1])>>
       [] OTHER -> <<[ref |-> [parts |-> addBytesParts(sp.children)],
                      size |-> ChildrenSize(sp.children)]>>)
      \o <<BlobPart(sp)>>

addBytesParts(sps) == FlattenSeq([i \in DOMAIN sps |-> spanParts(sps[i])])

SumPartsSize(parts) == FoldSeq(LAMBDA p, s : s + p.size, 0, parts)

IsBytes(b) == "parts" \in DOMAIN b

\* The bytes blobs below a list of parts.
RECURSIVE BytesBlobs(_)
BytesBlobs(parts) ==
    UNION {{p.ref} \cup BytesBlobs(p.ref.parts) : p \in {q \in Range(parts) : IsBytes(q.ref)}}

FileBlob == [parts |-> addBytesParts(spans), size |-> n]

-----------------------------------------------------------------------------
(* writeFileMapRolling: uploadBytes of the file *)

\* Once no upload of a chunk is under way the tree is built and its bytes blobs
\* are on their way.  PopulateParts wants the sizes to add up.
allUploaded ==
    /\ pc = "wait"
    /\ uploading = {}
    /\ IF firsterrc \/ SumPartsSize(FileBlob.parts) # n
         THEN pc' = "failed" /\ UNCHANGED schemas
         ELSE pc' = "tree" /\ schemas' = BytesBlobs(FileBlob.parts)
    /\ UNCHANGED <<n, spans, uploading, firsterrc, futureErr, stored, faulted>>

bytesUploaded(b) ==
    /\ schemas' = schemas \ {b}
    /\ \/ /\ stored' = stored \cup {b}
          /\ UNCHANGED <<futureErr, faulted>>
       \/ /\ "bytes" \in Faults
          /\ futureErr' = TRUE
          /\ faulted' = TRUE
          /\ stored' \in {stored, stored \cup {b}}
    /\ UNCHANGED <<pc, n, spans, uploading, firsterrc>>

\* Get waits for all futures, or returns an error one of them has.
partsUploaded ==
    /\ pc = "tree"
    /\ \/ futureErr /\ pc' = "failed"
       \/ ~futureErr /\ schemas = {} /\ pc' = "file"
    /\ UNCHANGED <<n, spans, uploading, firsterrc, schemas, futureErr, stored, faulted>>

fileUploaded ==
    /\ pc = "file"
    /\ \/ /\ stored' = stored \cup {FileBlob}
          /\ pc' = "done"
          /\ UNCHANGED faulted
       \/ /\ "file" \in Faults
          /\ stored' \in {stored, stored \cup {FileBlob}}
          /\ pc' = "failed"
          /\ faulted' = TRUE
    /\ UNCHANGED <<n, spans, uploading, firsterrc, schemas, futureErr>>

-----------------------------------------------------------------------------
Next ==
    \/ \E k \in ChunkSizes, bits \in Bits : split(k, bits)
    \/ endOfFile
    \/ readFails
    \/ uploadLastSpan
    \/ startUpload
    \/ \E u \in uploading : chunkUploaded(u)
    \/ allUploaded
    \/ \E b \in schemas : bytesUploaded(b)
    \/ partsUploaded
    \/ fileUploaded

Spec == Init /\ [][Next]_vars

-----------------------------------------------------------------------------
(* FileReader *)

Least(a, b) == IF a <= b THEN a ELSE b

\* Where part i begins.
Start(parts, i) == SumPartsSize(SubSeq(parts, 1, i - 1))

PartAt(parts, off) ==
    CHOOSE i \in DOMAIN parts : Start(parts, i) <= off /\ off < Start(parts, i) + parts[i].size

RECURSIVE ReadAt(_, _, _)

\* At most want bytes from the part that holds offset off; none if its blob is
\* not there.  The limit is the size of the part, wherever in it off is.
readerForOffset(parts, off, want) ==
    LET i == PartAt(parts, off)
        p == parts[i]
        offRemain == off - Start(parts, i)
        limit == Least(want, p.size)
    IN  IF p.ref \notin stored THEN << >>
        ELSE IF IsBytes(p.ref)
          THEN ReadAt(p.ref.parts, offRemain, limit)
          ELSE SubSeq(p.ref.data, offRemain + 1, Least(offRemain + limit, Len(p.ref.data)))

ReadAt(parts, off, want) ==
    IF want = 0 \/ off >= SumPartsSize(parts) THEN << >>
    ELSE LET read == readerForOffset(parts, off, want)
         IN  IF read = << >> THEN << >>
             ELSE read \o ReadAt(parts, off + Len(read), want - Len(read))

-----------------------------------------------------------------------------
(* Properties *)

RECURSIVE WellFormed(_)
WellFormed(sps) ==
    \A i \in DOMAIN sps :
       sps[i].from < sps[i].to /\ sps[i].bits \in Bits \cup {0} /\ WellFormed(sps[i].children)

\* Types.
TypeOK ==
    /\ pc \in {"read", "span", "gate", "lastSpan", "lastGate", "wait", "tree", "file",
               "done", "failed"}
    /\ n \in 0..Len(Data)
    /\ WellFormed(spans)
    /\ uploading \subseteq (0..n) \X (1..n)
    /\ Cardinality(uploading) <= chunksInFlight
    /\ \A b \in schemas : IsBytes(b)
    /\ firsterrc \in BOOLEAN /\ futureErr \in BOOLEAN /\ faulted \in BOOLEAN

\* As soon as the file blob is on the server, and so from the moment the writer
\* returns its reference, ReadAt gives the file's bytes back at every offset and
\* length, however the file was cut and whatever uploads failed or came late; and
\* the writer gives up only after a failure, never because its parts do not add up.
FileReadsBack ==
    /\ FileBlob \in stored =>
         \A off \in 0..(n - 1) : \A want \in 1..(n - off) :
            ReadAt(FileBlob.parts, off, want) = SubSeq(Data, off + 1, off + want)
    /\ pc = "done" => FileBlob \in stored /\ n = Len(Data)
    /\ pc = "failed" => faulted
=============================================================================
