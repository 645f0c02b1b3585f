----------------------------- MODULE MergedEnum -----------------------------
(***************************************************************************)
(* mergedEnumerate (pkg/blobserver/mergedenum.go): the sorted enumerations *)
(* of several storages, each run by a goroutine of its own, merged into    *)
(* one without duplicates and cut at the limit.  Sharded, replicated and   *)
(* packed storages enumerate this way.                                     *)
(*                                                                         *)
(* A blob is a number, in the order of the references.                     *)
(***************************************************************************)
EXTENDS Naturals, Sequences

CONSTANTS
    Blobs,     \* a set of positive numbers
    Stores,    \* what a source may hold: sets of blobs
    Sources,   \* 1..n
    Buffered,  \* capacity of the channel of a source
    After,     \* enumerate the blobs above this one
    Limit,     \* and at most so many
    Faults     \* "source": an enumeration may fail; "cancel": the caller may give up

\* Blobs are numbers.
MergedEnumAssumption ==
    /\ Blobs \subseteq Nat /\ Stores \subseteq SUBSET Blobs
    /\ After \in Nat /\ Limit \in Nat /\ Buffered \in Nat

VARIABLES
    have,      \* what each source holds
    ch,        \* the channel of each source
    last,      \* the last blob each source has sent
    sent,      \* how many it has sent
    spc,       \* where its EnumerateBlobs is: "run", "nil", "err"
    peek,      \* the peeked blob of each ChanPeeker, << >> if none
    dest,      \* what was sent to the caller
    mpc,       \* "merge", "errs", then what mergedEnumerate returned: "nil", "err"
    canceled   \* the context of the caller, and subctx with it

vars == <<have, ch, last, sent, spc, peek, dest, mpc, canceled>>

Init ==
    /\ have \in [Sources -> Stores]
    /\ ch = [s \in Sources |-> << >>]
    /\ last = [s \in Sources |-> After]
    /\ sent = [s \in Sources |-> 0]
    /\ spc = [s \in Sources |-> "run"]
    /\ peek = [s \in Sources |-> << >>]
    /\ dest = << >>
    /\ mpc = "merge"
    /\ canceled = FALSE

-----------------------------------------------------------------------------
(* EnumerateBlobs of a source, which closes its channel as it returns *)

Remaining(s) == {b \in have[s] : b > last[s]}

Least(S) == CHOOSE b \in S : \A c \in S : b <= c

Sends(s) == spc[s] = "run" /\ Remaining(s) # {} /\ sent[s] < Limit

sourceSends(s) ==
    /\ Sends(s)
    /\ Len(ch[s]) < Buffered
    /\ ch' = [ch EXCEPT ![s] = Append(@, Least(Remaining(s)))]
    /\ last' = [last EXCEPT ![s] = Least(Remaining(s))]
    /\ sent' = [sent EXCEPT ![s] = @ + 1]
    /\ UNCHANGED <<have, spc, peek, dest, mpc, canceled>>

sourceEnds(s) ==
    /\ spc[s] = "run" /\ ~Sends(s)
    /\ spc' = [spc EXCEPT ![s] = "nil"]
    /\ UNCHANGED <<have, ch, last, sent, peek, dest, mpc, canceled>>

sourceFails(s) ==
    /\ spc[s] = "run"
    /\ "source" \in Faults \/ canceled
    /\ spc' = [spc EXCEPT ![s] = "err"]
    /\ UNCHANGED <<have, ch, last, sent, peek, dest, mpc, canceled>>

Cancel ==
    /\ "cancel" \in Faults /\ ~canceled
    /\ canceled' = TRUE
    /\ UNCHANGED <<have, ch, last, sent, spc, peek, dest, mpc>>

-----------------------------------------------------------------------------
(* mergedEnumerate *)

Closed(s) == peek[s] = << >> /\ ch[s] = << >> /\ spc[s] # "run"

\* Faulty variant: the blob that was just sent is not too low.
tooLowStrict(b) == dest # << >> /\ b < dest[Len(dest)]

tooLow(b) == dest # << >> /\ b <= dest[Len(dest)]

Settled(s) == Closed(s) \/ (peek[s] # << >> /\ ~tooLow(peek[s][1]))

InLoop(s) ==
    /\ mpc = "merge" /\ Len(dest) < Limit
    /\ ~Settled(s) /\ \A t \in Sources : t < s => Settled(t)

\* The peekers are looked at in turn; each blocks until its source has sent.
Peek(s) ==
    /\ InLoop(s)
    /\ peek[s] = << >> /\ ch[s] # << >>
    /\ peek' = [peek EXCEPT ![s] = <<Head(ch[s])>>]
    /\ ch' = [ch EXCEPT ![s] = Tail(@)]
    /\ UNCHANGED <<have, last, sent, spc, dest, mpc, canceled>>

\* What is not above the blob sent last is taken off and dropped.
dropTooLow(s) ==
    /\ InLoop(s)
    /\ peek[s] # << >>
    /\ peek' = [peek EXCEPT ![s] = << >>]
    /\ UNCHANGED <<have, ch, last, sent, spc, dest, mpc, canceled>>

Open == {s \in Sources : ~Closed(s)}

\* The lowest is sent.  It stays in its peeker until the next round.
sendLowest ==
    /\ mpc = "merge" /\ Len(dest) < Limit
    /\ \A s \in Sources : Settled(s)
    /\ Open # {}
    /\ dest' = Append(dest, Least({peek[s][1] : s \in Open}))
    /\ UNCHANGED <<have, ch, last, sent, spc, peek, mpc, canceled>>

\* Faulty variant: only the end of all sources ends the loop.
endLoopAtEnd ==
    /\ mpc = "merge"
    /\ \A s \in Sources : Closed(s)
    /\ mpc' = "errs"
    /\ UNCHANGED <<have, ch, last, sent, spc, peek, dest, canceled>>

endLoop ==
    /\ mpc = "merge"
    /\ Len(dest) = Limit \/ \A s \in Sources : Closed(s)
    /\ mpc' = "errs"
    /\ UNCHANGED <<have, ch, last, sent, spc, peek, dest, canceled>>

\* The error of every source is waited for, and subctx is canceled afterwards.
waitErrs ==
    /\ mpc = "errs"
    /\ \A s \in Sources : spc[s] # "run"
    /\ mpc' = IF \E s \in Sources : spc[s] = "err" THEN "err" ELSE "nil"
    /\ UNCHANGED <<have, ch, last, sent, spc, peek, dest, canceled>>

-----------------------------------------------------------------------------
Goroutines ==
    \/ \E s \in Sources :
          \/ sourceSends(s)
          \/ sourceEnds(s)
          \/ sourceFails(s)
          \/ Peek(s)
          \/ dropTooLow(s)
    \/ sendLowest
    \/ endLoop
    \/ waitErrs

Next == Goroutines \/ Cancel

Spec == Init /\ [][Next]_vars /\ WF_vars(Goroutines)

-----------------------------------------------------------------------------
(* Properties *)

\* Types.
TypeOK ==
    /\ have \in [Sources -> Stores]
    /\ ch \in [Sources -> Seq(Blobs)] /\ \A s \in Sources : Len(ch[s]) <= Buffered
    /\ last \in [Sources -> Blobs \cup {After}]
    /\ sent \in [Sources -> 0..Limit]
    /\ spc \in [Sources -> {"run", "nil", "err"}]
    /\ peek \in [Sources -> Seq(Blobs)]
    /\ dest \in Seq(Blobs) /\ Len(dest) <= Limit
    /\ mpc \in {"merge", "errs", "nil", "err"}
    /\ canceled \in BOOLEAN

\* What the caller is to get: the blobs of any source above After.
Union == {b \in UNION {have[s] : s \in Sources} : b > After}

\* mergedEnumerate sends blobs of its sources in strictly increasing order; and
\* when it returns no error it has sent exactly the first Limit of their union.
MergedIsUnion ==
    /\ \A i \in 1..Len(dest) : dest[i] \in Union /\ \A j \in 1..(i - 1) : dest[j] < dest[i]
    /\ mpc = "nil" =>
         LET Sent == {dest[i] : i \in 1..Len(dest)}
         IN  /\ \A b \in Union \ Sent : \A c \in Sent : c < b
             /\ Sent = Union \/ Len(dest) = Limit

\* The way it gets stuck: the limit was hit, and a source still has more to send
\* than its channel holds.  Nobody reads the channel, and subctx is canceled only
\* after the source's error has come.
StuckAtLimit ==
    /\ mpc = "errs" /\ Len(dest) = Limit
    /\ \E s \in Sources : Sends(s) /\ Len(ch[s]) = Buffered

\* mergedEnumerate returns, and so closes dest, or it is stuck in this way.
MergeEnds == <>(mpc \in {"nil", "err"} \/ StuckAtLimit)
=============================================================================
