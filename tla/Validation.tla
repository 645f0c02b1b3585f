----------------------------- MODULE Validation -----------------------------
(***************************************************************************)
(* The validation of one shard of a sync handler (pkg/server/sync.go,      *)
(* validateShardPrefix): two goroutines enumerate the source and the       *)
(* destination in order, ListMissingDestinationBlobs (pkg/blobserver/      *)
(* sync.go) merges the two channels, and what the destination misses is    *)
(* enqueued for copying.  Uploads and copies go on meanwhile.              *)
(*                                                                         *)
(* A blob is a number, in the order of the references of the shard.  An    *)
(* enumeration may fail at any point; the channel inside EnumerateAllFrom  *)
(* only decides how far the callback got by then.                          *)
(***************************************************************************)
EXTENDS Naturals, Sequences

CONSTANTS
    Shard,       \* the blobs of the shard: a set of positive numbers
    Arriving,    \* those that may reach either side during the validation
    ChanCap,     \* capacity of the two channels of startValidatePrefix
    MissingCap,  \* capacity of missingc
    Faults       \* the calls that may fail: "src", "dst", "enqueue"

Sides == {"src", "dst"}

Zero == 0        \* the zero blob.SizedRef

\* Blobs are positive numbers.
ASSUME ValidationAssumption ==
    /\ Shard \subseteq Nat \ {Zero} /\ Arriving \subseteq Shard
    /\ ChanCap \in Nat /\ MissingCap \in Nat

VARIABLES
    store,     \* what the source and the destination hold
    atStart,   \* history: what they held at first
    ch,        \* the channel of each side
    closed,    \* which of them are closed
    last,      \* the last blob each side enumerated
    epc,       \* where the goroutine of startValidatePrefix is
    errc,      \* what it sent on its error channel: "none", "nil" or "err"
    peek,      \* the peeked element of each ChanPeeker, << >> if none
    lpc,       \* where ListMissingDestinationBlobs is
    missingc,  \* its output
    vpc,       \* where validateShardPrefix is
    missing,   \* what it has collected
    queued,    \* what it has enqueued
    canceled   \* ctx

vars == <<store, atStart, ch, closed, last, epc, errc, peek, lpc, missingc, vpc,
          missing, queued, canceled>>

Init ==
    /\ store \in [Sides -> SUBSET Shard]
    /\ atStart = store
    /\ ch = [x \in Sides |-> << >>]
    /\ closed = [x \in Sides |-> FALSE]
    /\ last = [x \in Sides |-> Zero]
    /\ epc = [x \in Sides |-> "run"]
    /\ errc = [x \in Sides |-> "none"]
    /\ peek = [x \in Sides |-> << >>]
    /\ lpc = "merge"
    /\ missingc = << >>
    /\ vpc = "collect"
    /\ missing = << >>
    /\ queued = {}
    /\ canceled = FALSE

\* An upload to the source, or a copy that reaches the destination.
StoreBlob(x, b) ==
    /\ b \notin store[x]
    /\ store' = [store EXCEPT ![x] = @ \cup {b}]
    /\ UNCHANGED <<atStart, ch, closed, last, epc, errc, peek, lpc, missingc, vpc,
                   missing, queued, canceled>>

-----------------------------------------------------------------------------
(* startValidatePrefix *)

enumUnchanged == UNCHANGED <<store, atStart, peek, lpc, missingc, vpc, missing,
                             queued, canceled>>

Remaining(x) == {b \in store[x] : b > last[x]}

\* The callback sends the next blob, unless the channel stays full.
sendBlob(x) ==
    /\ epc[x] = "run"
    /\ Len(ch[x]) < ChanCap
    /\ \E b \in Remaining(x) :
          /\ \A c \in Remaining(x) : b <= c
          /\ ch' = [ch EXCEPT ![x] = Append(@, b)]
          /\ last' = [last EXCEPT ![x] = b]
    /\ UNCHANGED <<closed, epc, errc>>
    /\ enumUnchanged

\* No blob is left, or the next one is of another shard.
enumerationEnds(x) ==
    /\ epc[x] = "run"
    /\ Remaining(x) = {}
    /\ epc' = [epc EXCEPT ![x] = "nil"]
    /\ UNCHANGED <<ch, closed, last, errc>>
    /\ enumUnchanged

\* EnumerateBlobs fails, or the callback finds the context canceled.
enumerationFails(x) ==
    /\ epc[x] = "run"
    /\ x \in Faults \/ (canceled /\ Remaining(x) # {})
    /\ epc' = [epc EXCEPT ![x] = "zero"]
    /\ UNCHANGED <<ch, closed, last, errc>>
    /\ enumUnchanged

\* The zero value is sent, whatever the context says.
sendZero(x) ==
    /\ epc[x] = "zero"
    /\ Len(ch[x]) < ChanCap
    /\ ch' = [ch EXCEPT ![x] = Append(@, Zero)]
    /\ epc' = [epc EXCEPT ![x] = "err"]
    /\ UNCHANGED <<closed, last, errc>>
    /\ enumUnchanged

\* The error channel has room for one; the deferred close follows.
sendErr(x) ==
    /\ epc[x] \in {"nil", "err"}
    /\ errc' = [errc EXCEPT ![x] = epc[x]]
    /\ epc' = [epc EXCEPT ![x] = "close"]
    /\ UNCHANGED <<ch, closed, last>>
    /\ enumUnchanged

\* Faulty variant: the channel is left open.
leaveChanOpen(x) ==
    /\ epc[x] = "close"
    /\ epc' = [epc EXCEPT ![x] = "done"]
    /\ UNCHANGED <<ch, closed, last, errc>>
    /\ enumUnchanged

closeChan(x) ==
    /\ epc[x] = "close"
    /\ closed' = [closed EXCEPT ![x] = TRUE]
    /\ epc' = [epc EXCEPT ![x] = "done"]
    /\ UNCHANGED <<ch, last, errc>>
    /\ enumUnchanged

-----------------------------------------------------------------------------
(* ListMissingDestinationBlobs *)

listUnchanged == UNCHANGED <<store, atStart, closed, last, epc, errc, vpc, missing,
                             queued, canceled>>

\* Whether the peeker knows that nothing more comes.
Drained(x) == peek[x] = << >> /\ ch[x] = << >> /\ closed[x]

Peeked(x) == peek[x] # << >>

\* The source is peeked first, and the destination only when it has a blob.
Peek(x) ==
    /\ lpc = "merge"
    /\ ~Peeked(x)
    /\ x = "dst" => Peeked("src") /\ peek["src"] # <<Zero>>
    /\ ch[x] # << >>
    /\ peek' = [peek EXCEPT ![x] = <<Head(ch[x])>>]
    /\ ch' = [ch EXCEPT ![x] = Tail(@)]
    /\ UNCHANGED <<lpc, missingc>>
    /\ listUnchanged

\* destMissing is closed on every way out.
returnFromList ==
    /\ lpc' = "closed"
    /\ UNCHANGED <<ch, peek, missingc>>
    /\ listUnchanged

\* A zero blob, or the end of the source.
listStops ==
    /\ lpc = "merge"
    /\ \/ Drained("src")
       \/ peek["src"] = <<Zero>>
       \/ Peeked("src") /\ peek["dst"] = <<Zero>>
    /\ returnFromList

\* Faulty variant: the zero blob of a failed enumeration is taken for a blob.
isMissingUnchecked ==
    /\ Peeked("src")
    /\ \/ Drained("dst")
       \/ /\ Peeked("dst") /\ peek["dst"] # <<Zero>>
          /\ peek["src"][1] < peek["dst"][1]

\* The source's blob is not at the destination.
isMissing ==
    /\ Peeked("src") /\ peek["src"] # <<Zero>>
    /\ \/ Drained("dst")
       \/ /\ Peeked("dst") /\ peek["dst"] # <<Zero>>
          /\ peek["src"][1] < peek["dst"][1]

sendMissing ==
    /\ lpc = "merge"
    /\ isMissing
    /\ Len(missingc) < MissingCap
    /\ missingc' = Append(missingc, peek["src"][1])
    /\ peek' = [peek EXCEPT !["src"] = << >>]
    /\ UNCHANGED <<ch, lpc>>
    /\ listUnchanged

\* Both have the blob, or only the destination.
skipBlob ==
    /\ lpc = "merge"
    /\ \A x \in Sides : Peeked(x) /\ peek[x] # <<Zero>>
    /\ peek["dst"][1] <= peek["src"][1]
    /\ peek' = [x \in Sides |->
                  IF x = "dst" \/ peek["src"] = peek["dst"] THEN << >> ELSE peek[x]]
    /\ UNCHANGED <<ch, lpc, missingc>>
    /\ listUnchanged

-----------------------------------------------------------------------------
(* validateShardPrefix *)

validUnchanged == UNCHANGED <<store, atStart, ch, closed, last, epc, errc, peek, lpc>>

collect ==
    /\ vpc = "collect"
    /\ missingc # << >>
    /\ missing' = Append(missing, Head(missingc))
    /\ missingc' = Tail(missingc)
    /\ UNCHANGED <<vpc, queued, canceled>>
    /\ validUnchanged

collected ==
    /\ vpc = "collect"
    /\ missingc = << >> /\ lpc = "closed"
    /\ vpc' = "srcErr"
    /\ UNCHANGED <<missing, missingc, queued, canceled>>
    /\ validUnchanged

\* Faulty variant: the error is waited for and not looked at.
ignoreErr(x, here, then) ==
    /\ vpc = here
    /\ errc[x] # "none"
    /\ vpc' = then
    /\ UNCHANGED <<missing, missingc, queued, canceled>>
    /\ validUnchanged

\* The error of the source is waited for, then that of the destination.  The
\* context is canceled when the function returns, not before.
getErr(x, here, then) ==
    /\ vpc = here
    /\ errc[x] # "none"
    /\ vpc' = IF errc[x] = "nil" THEN then ELSE "failed"
    /\ canceled' = (errc[x] # "nil")
    /\ UNCHANGED <<missing, missingc, queued>>
    /\ validUnchanged

\* enqueue; an error is kept and the loop goes on.
enqueue ==
    /\ vpc \in {"enqueue", "enqueueErr"}
    /\ missing # << >>
    /\ \/ queued' = queued \cup {Head(missing)} /\ UNCHANGED vpc
       \/ "enqueue" \in Faults /\ vpc' = "enqueueErr" /\ UNCHANGED queued
    /\ missing' = Tail(missing)
    /\ UNCHANGED <<missingc, canceled>>
    /\ validUnchanged

\* vshardDone is counted, or an error.
validated ==
    /\ vpc \in {"enqueue", "enqueueErr"}
    /\ missing = << >>
    /\ vpc' = IF vpc = "enqueue" THEN "done" ELSE "failed"
    /\ canceled' = TRUE
    /\ UNCHANGED <<missing, missingc, queued>>
    /\ validUnchanged

-----------------------------------------------------------------------------
Goroutines ==
    \/ \E x \in Sides :
          \/ sendBlob(x)
          \/ enumerationEnds(x)
          \/ enumerationFails(x)
          \/ sendZero(x)
          \/ sendErr(x)
          \/ closeChan(x)
          \/ Peek(x)
    \/ listStops
    \/ sendMissing
    \/ skipBlob
    \/ collect
    \/ collected
    \/ getErr("src", "srcErr", "dstErr")
    \/ getErr("dst", "dstErr", "enqueue")
    \/ enqueue
    \/ validated

Next == Goroutines \/ \E x \in Sides, b \in Arriving : StoreBlob(x, b)

Spec == Init /\ [][Next]_vars /\ WF_vars(Goroutines)

-----------------------------------------------------------------------------
(* Properties *)

\* Types.
TypeOK ==
    /\ store \in [Sides -> SUBSET Shard] /\ atStart \in [Sides -> SUBSET Shard]
    /\ ch \in [Sides -> Seq(Shard \cup {Zero})]
    /\ \A x \in Sides : Len(ch[x]) <= ChanCap
    /\ closed \in [Sides -> BOOLEAN]
    /\ last \in [Sides -> Shard \cup {Zero}]
    /\ epc \in [Sides -> {"run", "zero", "nil", "err", "close", "done"}]
    /\ errc \in [Sides -> {"none", "nil", "err"}]
    /\ peek \in [Sides -> Seq(Shard \cup {Zero})]
    /\ lpc \in {"merge", "closed"}
    /\ missingc \in Seq(Shard) /\ Len(missingc) <= MissingCap
    /\ missing \in Seq(Shard)
    /\ vpc \in {"collect", "srcErr", "dstErr", "enqueue", "enqueueErr", "done", "failed"}
    /\ queued \subseteq Shard /\ canceled \in BOOLEAN

\* A shard that validateShardPrefix counts as done was compared to its end:
\* what the source held all along is at the destination or enqueued; and nothing
\* is ever enqueued that the destination held from the start, whichever side
\* fails, and at whatever point.
ShardAccounted ==
    /\ vpc = "done" => atStart["src"] \subseteq store["dst"] \cup queued
    /\ queued \cap atStart["dst"] = {}

\* The ways it gets stuck: the merge stopped while the other side still had more
\* to send than its channel holds - because the destination's enumeration failed,
\* or because the source's ended - and the context is only canceled on return.
StuckOnSource ==
    /\ vpc = "srcErr"
    /\ epc["src"] \in {"run", "zero"} /\ Len(ch["src"]) = ChanCap
    /\ peek["dst"] = <<Zero>>

StuckOnDestination ==
    /\ vpc = "dstErr"
    /\ epc["dst"] \in {"run", "zero"} /\ Len(ch["dst"]) = ChanCap
    /\ errc["src"] = "nil"

\* validateShardPrefix returns, or it is stuck in one of these ways.
ShardEnds == <>(vpc \in {"done", "failed"} \/ StuckOnSource \/ StuckOnDestination)
=============================================================================
