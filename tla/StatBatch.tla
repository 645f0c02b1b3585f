----------------------------- MODULE StatBatch ------------------------------
(***************************************************************************)
(* The batching of stat requests in the client (pkg/client/upload.go,      *)
(* StatBlobs and doSomeStats).  Callers leave their requests in pendStat   *)
(* and start a worker; the worker that gets through the HTTP gate first    *)
(* takes what is there, up to maxStatPerReq blobs, asks the server and     *)
(* answers every caller that asked.  The other workers find nothing.       *)
(*                                                                         *)
(* A blob is a number, in the order in which a caller lists its blobs.     *)
(* Each caller makes one call, and reads from dest until it returns.       *)
(***************************************************************************)
EXTENDS Naturals, FiniteSets

CONSTANTS
    Callers,
    Wanted,         \* the blobs each caller asks about: sets of numbers
    Cached,         \* the blobs that haveCache knows
    Workers,        \* 1..n: enough of them for every `go c.doSomeStats()'
    Gate,           \* capacity of httpGate
    maxStatPerReq,
    Faults          \* "http": the request may fail

AskedBlobs == UNION {Wanted[c] : c \in Callers}

Requests == {q \in AskedBlobs \X Callers : q[1] \in Wanted[q[2]]}

None == <<0, 0>>    \* no request

\* The requests that the cache does not answer.
Uncached == {q \in Requests : q[1] \notin Cached}

\* A request asks about one blob at least, and there is a worker for every caller and
\* for every full batch there can be.
StatBatchAssumption ==
    /\ IsFiniteSet(Callers) /\ IsFiniteSet(Requests)
    /\ maxStatPerReq \in Nat \ {0}
    /\ IsFiniteSet(Workers) /\ Workers = 1..Cardinality(Workers)
    /\ Cardinality(Workers) >= Cardinality(Callers) + Cardinality(Uncached)

VARIABLES
    server,    \* the blobs the server has
    pendStat,  \* requests for the next batches
    started,   \* how many workers were started
    wpc,       \* where each worker is
    batch,     \* the requests it has taken
    found,     \* the answers it has still to pass on
    sending,   \* the one it is passing on, or None
    result,    \* the error of its doStat
    cpc,       \* where each caller is; "nil" or "err" once it has returned
    errcs,     \* what was sent on the error channels, for each request
    got        \* what each caller received on dest

vars == <<server, pendStat, started, wpc, batch, found, sending, result, cpc, errcs, got>>

Init ==
    /\ server \in SUBSET AskedBlobs
    /\ pendStat = {}
    /\ started = 0
    /\ wpc = [w \in Workers |-> "none"]
    /\ batch = [w \in Workers |-> {}]
    /\ found = [w \in Workers |-> {}]
    /\ sending = [w \in Workers |-> None]
    /\ result = [w \in Workers |-> "nil"]
    /\ cpc = [c \in Callers |-> "call"]
    /\ errcs = [q \in Requests |-> "none"]
    /\ got = [c \in Callers |-> {}]

\* The next n workers.
Fresh(n) == {w \in Workers : started < w /\ w <= started + n}

-----------------------------------------------------------------------------
(* StatBlobs *)

NeedStat(c) == Wanted[c] \ Cached

StatBlobs(c) ==
    /\ cpc[c] = "call"
    /\ got' = [got EXCEPT ![c] = Wanted[c] \cap Cached]
    /\ IF NeedStat(c) = {}
         THEN cpc' = [cpc EXCEPT ![c] = "nil"] /\ UNCHANGED <<pendStat, started, wpc>>
         ELSE /\ cpc' = [cpc EXCEPT ![c] = "wait"]
              /\ pendStat' = pendStat \cup {<<b, c>> : b \in NeedStat(c)}
              /\ started' = started + 1
              /\ wpc' = [w \in Workers |-> IF w \in Fresh(1) THEN "gate" ELSE wpc[w]]
    /\ UNCHANGED <<server, batch, found, sending, result, errcs>>

Unanswered(c) == {b \in NeedStat(c) : errcs[<<b, c>>] # "nil"}

\* The errors are read in turn, and the first one that is not nil is returned.
\* (Having read a nil is not told apart from its being there to read.)
returnErr(c) ==
    /\ cpc[c] = "wait"
    /\ \/ Unanswered(c) = {} /\ cpc' = [cpc EXCEPT ![c] = "nil"]
       \/ \E b \in Unanswered(c) :
             /\ \A d \in Unanswered(c) : b <= d
             /\ errcs[<<b, c>>] = "err"
             /\ cpc' = [cpc EXCEPT ![c] = "err"]
    /\ UNCHANGED <<server, pendStat, started, wpc, batch, found, sending, result, errcs, got>>

-----------------------------------------------------------------------------
(* doSomeStats *)

Busy == {w \in Workers : wpc[w] \in {"stat", "send"}}

BlobsOf(Q) == {q[1] : q \in Q}

\* The batches there can be: everything pending, or maxStatPerReq of its blobs.
Batches ==
    IF Cardinality(BlobsOf(pendStat)) <= maxStatPerReq
      THEN {pendStat}
      ELSE {{q \in pendStat : q[1] \in S} :
              S \in {T \in SUBSET BlobsOf(pendStat) : Cardinality(T) = maxStatPerReq}}

\* Faulty variant: a full batch leaves the rest to others.
takeBatchOnly(w) ==
    /\ wpc[w] = "gate"
    /\ Cardinality(Busy) < Gate
    /\ \E Q \in Batches :
          /\ batch' = [batch EXCEPT ![w] = Q]
          /\ pendStat' = pendStat \ Q
          /\ wpc' = [wpc EXCEPT ![w] = IF pendStat = {} THEN "done" ELSE "stat"]
    /\ UNCHANGED <<server, started, found, sending, result, cpc, errcs, got>>

\* Past the gate the worker takes a batch.  Another one got everything, or this
\* batch is full and the next worker is started.
takeBatch(w) ==
    /\ wpc[w] = "gate"
    /\ Cardinality(Busy) < Gate
    /\ \E Q \in Batches :
          LET kick == IF Cardinality(BlobsOf(Q)) = maxStatPerReq THEN 1 ELSE 0
          IN  /\ batch' = [batch EXCEPT ![w] = Q]
              /\ pendStat' = pendStat \ Q
              /\ started' = started + kick
              /\ wpc' = [v \in Workers |->
                           IF v = w THEN (IF pendStat = {} THEN "done" ELSE "stat")
                           ELSE IF v \in Fresh(kick) THEN "gate" ELSE wpc[v]]
    /\ UNCHANGED <<server, found, sending, result, cpc, errcs, got>>

\* The answer of the server, or an error and no answer.
doStat(w) ==
    /\ wpc[w] = "stat"
    /\ \/ /\ found' = [found EXCEPT ![w] = {q \in batch[w] : q[1] \in server}]
          /\ result' = [result EXCEPT ![w] = "nil"]
       \/ /\ "http" \in Faults
          /\ found' = [found EXCEPT ![w] = {}]
          /\ result' = [result EXCEPT ![w] = "err"]
    /\ wpc' = [wpc EXCEPT ![w] = "send"]
    /\ UNCHANGED <<server, pendStat, started, batch, sending, cpc, errcs, got>>

nextDest(w) ==
    /\ wpc[w] = "send" /\ sending[w] = None
    /\ \E q \in found[w] : sending' = [sending EXCEPT ![w] = q]
    /\ UNCHANGED <<server, pendStat, started, wpc, batch, found, result, cpc, errcs, got>>

\* req.dest <- sb: it takes a caller that has not returned.
sendDest(w) ==
    /\ wpc[w] = "send" /\ sending[w] # None
    /\ cpc[sending[w][2]] = "wait"
    /\ got' = [got EXCEPT ![sending[w][2]] = @ \cup {sending[w][1]}]
    /\ found' = [found EXCEPT ![w] = @ \ {sending[w]}]
    /\ sending' = [sending EXCEPT ![w] = None]
    /\ UNCHANGED <<server, pendStat, started, wpc, batch, result, cpc, errcs>>

\* Faulty variant: the waiters are told before they have the answers.
sendErrEarly(w) ==
    /\ wpc[w] = "send" /\ sending[w] = None
    /\ errcs' = [q \in Requests |-> IF q \in batch[w] THEN result[w] ELSE errcs[q]]
    /\ wpc' = [wpc EXCEPT ![w] = "done"]
    /\ UNCHANGED <<server, pendStat, started, batch, found, sending, result, cpc, got>>

\* The error goes to all waiters, whose channels have room, and the gate opens.
sendErr(w) ==
    /\ wpc[w] = "send" /\ found[w] = {}
    /\ errcs' = [q \in Requests |-> IF q \in batch[w] THEN result[w] ELSE errcs[q]]
    /\ wpc' = [wpc EXCEPT ![w] = "done"]
    /\ UNCHANGED <<server, pendStat, started, batch, found, sending, result, cpc, got>>

-----------------------------------------------------------------------------
Goroutines ==
    \/ \E c \in Callers : StatBlobs(c) \/ returnErr(c)
    \/ \E w \in Workers : takeBatch(w) \/ doStat(w) \/ nextDest(w) \/ sendDest(w) \/ sendErr(w)

Next == Goroutines

Spec == Init /\ [][Next]_vars /\ WF_vars(Goroutines)

-----------------------------------------------------------------------------
(* Properties *)

\* Types.
TypeOK ==
    /\ server \subseteq AskedBlobs /\ pendStat \subseteq Requests
    /\ started \in 0..Cardinality(Workers)
    /\ wpc \in [Workers -> {"none", "gate", "stat", "send", "done"}]
    /\ batch \in [Workers -> SUBSET Requests] /\ found \in [Workers -> SUBSET Requests]
    /\ sending \in [Workers -> Requests \cup {None}]
    /\ result \in [Workers -> {"nil", "err"}]
    /\ cpc \in [Callers -> {"call", "wait", "nil", "err"}]
    /\ errcs \in [Requests -> {"none", "nil", "err"}]
    /\ got \in [Callers -> SUBSET AskedBlobs]

\* A caller gets only blobs the cache or the server has, and when StatBlobs has
\* returned no error it has got all of those it asked about, whichever workers
\* answered for it and in whatever order.
StatTruth ==
    \A c \in Callers :
       LET there == Wanted[c] \cap (server \cup Cached)
       IN  got[c] \subseteq there /\ (cpc[c] = "nil" => got[c] = there)

\* The way it gets stuck: a call whose blobs went to two batches returned the
\* error of one while the other still has an answer for it.
StuckOnDest ==
    \E w \in Workers : sending[w] # None /\ cpc[sending[w][2]] = "err"

\* Every call has returned, or a worker is stuck in this way.
Answered == StuckOnDest \/ \A c \in Callers : cpc[c] \in {"nil", "err"}

\* "Somebody will handle our requests in pendStat", however the workers that the
\* callers and full batches start race for the gate and for the requests.
StatEnds == <>Answered
=============================================================================
