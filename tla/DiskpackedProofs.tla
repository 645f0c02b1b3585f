-------------------------- MODULE DiskpackedProofs --------------------------
(***************************************************************************)
(* Every row of the diskpacked index names the bytes of its blob, for any  *)
(* number of blobs, callers, appends and restarts and for every fault,     *)
(* until nextPack opens a pack for writing and not for reading (lagged).   *)
(*                                                                         *)
(* The argument: a row, and a row some delete holds, lies wholly inside    *)
(* what is synced, before the position of the writer, and before           *)
(* origOffset when it is in the pack of the append under way.  So neither  *)
(* a power loss nor the rollback cuts it; writes add cells after it; and   *)
(* two entries never overlap, so that what delete overwrites is the header *)
(* or the data of one entry.                                               *)
(***************************************************************************)
EXTENDS Diskpacked, TLAPS

\* A leaf is tried with Zenon first, which is the quicker of the two here.
USE ZenonT(5), SMTT(60)

\* EntryOf, of any packs.
EntryIn(P, b, r) ==
    /\ File(r) \in 1..Len(P)
    /\ Offset(r) \in 1..(Len(P[File(r)]) - 1)
    /\ P[File(r)][Offset(r)] \in {Header(b), Dead}
    /\ P[File(r)][Offset(r) + 1] \in {Body(b), Zero}

\* The header of b, or what delete made of it, is at place i of pack f.
HeaderAt(P, b, f, i) ==
    /\ f \in 1..Len(P)
    /\ i \in 1..Len(P[f])
    /\ P[f][i] \in {Header(b), Dead}

\* The packs of Q are as long as those of P.
SameLengths(P, Q) == \A f \in 1..Len(P) : Len(Q[f]) = Len(P[f])

\* Row r is out of reach of a power loss, of a write and of a rollback.
OutOfReach(r) ==
    /\ Offset(r) < synced[File(r)]
    /\ File(r) = writer => Offset(r) < pos
    /\ mu # Free /\ File(r) \in {writer, app.packIdx} => Offset(r) < app.orig

Kept(b, r) == EntryIn(packs, b, r) /\ OutOfReach(r)

\* Every pack is open for reading; the writer, when open, is the last one, and
\* when s.size is its position that is its end.
FilesInv ==
    /\ fds = Len(packs)
    /\ writer \in {0, fds}
    /\ \A f \in 1..Len(packs) : synced[f] <= Len(packs[f])
    /\ writer # 0 /\ size = pos => pos = Len(packs[writer])

\* s.mu is held by the receive that is inside append.
MuInv == \A t \in Receivers : /\ mu = t <=> pc[t] \in Writing
                              /\ pc[t] # "idle" => arg[t] \in Blobs

RowsInv == \A b \in Blobs : index[b] # NoRow => Kept(b, index[b])

DatInv == \A g \in Goroutines : dpc[g] \in {"head", "zero"} => Kept(g[2], dat[g])

\* What append has written so far.
AppInv ==
    \A t \in Receivers : mu = t =>
        /\ writer # 0
        /\ size = pos
        /\ app.offset = app.orig + 1
        /\ pc[t] = "data" =>
              /\ app.packIdx = 0
              /\ Len(packs[writer]) = app.offset
              /\ packs[writer][app.offset] \in {Header(arg[t]), Dead}
        /\ pc[t] = "sync" =>
              /\ app.packIdx = 0
              /\ EntryIn(packs, arg[t], <<writer, app.offset>>)
        /\ pc[t] \in {"rotate", "set"} =>
              /\ EntryIn(packs, arg[t], <<app.packIdx, app.offset>>)
              /\ app.offset < synced[app.packIdx]

\* The inductive invariant.
Inv == TypeOK /\ FilesInv /\ MuInv /\ RowsInv /\ DatInv /\ AppInv

-----------------------------------------------------------------------------
(* The packs *)

\* q is p with cell c at place i.
Wrote(q, p, i, c) ==
    /\ q \in Seq(Cells)
    /\ Len(q) = IF i > Len(p) THEN i ELSE Len(p)
    /\ q[i] = c
    /\ \A j \in 1..Len(p) : j # i => q[j] = p[j]

\* What a write does to a file (WriteAt).
LEMMA WriteAtFacts ==
    ASSUME NEW p \in Seq(Cells), NEW i \in Nat \ {0}, NEW c \in Cells
    PROVE  Wrote(WriteAt(p, i, c), p, i, c)
<1> DEFINE n == IF i > Len(p) THEN i ELSE Len(p)
           e(j) == IF j = i THEN c ELSE IF j <= Len(p) THEN p[j] ELSE Zero
<1>1. n \in Nat /\ i \in 1..n /\ \A j \in 1..Len(p) : j \in 1..n
  OBVIOUS
<1>2. Zero \in Cells
  BY DEF Cells
<1>3. \A j \in 1..n : e(j) \in Cells
  BY <1>1, <1>2
<1>4. WriteAt(p, i, c) = [j \in 1..n |-> e(j)]
  BY DEF WriteAt
<1> HIDE DEF n
<1>5. WriteAt(p, i, c) \in Seq(Cells) /\ Len(WriteAt(p, i, c)) = n
  BY <1>1, <1>3, <1>4
<1>6. WriteAt(p, i, c)[i] = c /\ \A j \in 1..Len(p) : j # i => WriteAt(p, i, c)[j] = p[j]
  BY <1>1, <1>4
<1> QED
  BY <1>5, <1>6 DEF n, Wrote

\* The cells of headers are not those of data.
LEMMA KindsDiffer ==
    \A b, c : {Header(b), Dead} \cap {Body(c), Zero} = {}
BY DEF Header, Dead, Body, Zero

\* Overwriting the header of an entry, or its data, as delete does, leaves
\* every entry an entry: no entry's header is the data of another.
LEMMA OverwriteKeeps ==
    ASSUME NEW P \in Seq(Seq(Cells)), NEW b, NEW r, EntryIn(P, b, r),
           NEW Q,
           \/ Q = [P EXCEPT ![File(r)][Offset(r)] = Dead]
           \/ Q = [P EXCEPT ![File(r)][Offset(r) + 1] = Zero]
    PROVE  /\ Q \in Seq(Seq(Cells))
           /\ Len(Q) = Len(P)
           /\ SameLengths(P, Q)
           /\ \A a, f, i : HeaderAt(P, a, f, i) => HeaderAt(Q, a, f, i)
           /\ \A a, s : EntryIn(P, a, s) => EntryIn(Q, a, s)
<1> DEFINE w == File(r)
           o == Offset(r)
           n == Len(P[w])
<1>1. w \in 1..Len(P) /\ P[w] \in Seq(Cells) /\ n \in Nat /\ o \in 1..(n - 1)
  BY DEF EntryIn
<1>2. o \in 1..n /\ o + 1 \in 1..n
  BY <1>1
<1>3. PICK k \in {o, o + 1}, c \in {Dead, Zero} :
         /\ Q = [P EXCEPT ![w] = [P[w] EXCEPT ![k] = c]]
         /\ k = o => c = Dead
         /\ k # o => c = Zero
  <2>1. o # o + 1
    BY <1>1
  <2>2. CASE Q = [P EXCEPT ![w][o] = Dead]
    BY <2>2
  <2>3. CASE Q = [P EXCEPT ![w][o + 1] = Zero]
    BY <2>1, <2>3
  <2> QED
    BY <2>2, <2>3
<1>4. k \in 1..n /\ c \in Cells
  BY <1>2, <1>3 DEF Cells
<1> DEFINE p == [P[w] EXCEPT ![k] = c]
<1>5. p \in Seq(Cells) /\ Len(p) = n /\ \A i \in 1..n : p[i] = IF i = k THEN c ELSE P[w][i]
  BY <1>1, <1>4
<1>6. Q \in Seq(Seq(Cells)) /\ Len(Q) = Len(P)
      /\ Q[w] = p /\ \A f \in 1..Len(P) : f # w => Q[f] = P[f]
  <2>1. Q = [P EXCEPT ![w] = p]
    BY <1>3
  <2>2. p \in Seq(Cells) /\ w \in 1..Len(P)
    BY <1>1, <1>5
  <2> HIDE DEF p, w
  <2> QED
    BY <2>1, <2>2
<1>7. P[w][o] \in {Header(b), Dead} /\ P[w][o + 1] \in {Body(b), Zero}
  BY DEF EntryIn
<1>8. \A i \in 1..n : \A a : P[w][i] \in {Header(a), Dead} => p[i] \in {Header(a), Dead}
  BY <1>3, <1>4, <1>5, <1>7, KindsDiffer
<1>9. \A i \in 1..n : \A a : P[w][i] \in {Body(a), Zero} => p[i] \in {Body(a), Zero}
  BY <1>3, <1>4, <1>5, <1>7, KindsDiffer
<1>10. ASSUME NEW a, NEW s, EntryIn(P, a, s)  PROVE EntryIn(Q, a, s)
  <2>1. CASE File(s) # w
    BY <1>6, <1>10, <2>1 DEF EntryIn
  <2>2. CASE File(s) = w
    <3>1. Offset(s) \in 1..(n - 1) /\ Offset(s) \in 1..n /\ Offset(s) + 1 \in 1..n
      <4>1. Offset(s) \in 1..(Len(P[w]) - 1)
        BY <1>10, <2>2 DEF EntryIn
      <4> HIDE DEF w
      <4> QED
        BY <1>1, <4>1
    <3>2. p[Offset(s)] \in {Header(a), Dead} /\ p[Offset(s) + 1] \in {Body(a), Zero}
      <4>1. P[w][Offset(s)] \in {Header(a), Dead} /\ P[w][Offset(s) + 1] \in {Body(a), Zero}
        BY <1>10, <2>2 DEF EntryIn
      <4> HIDE DEF p, w
      <4> QED
        BY <3>1, <1>8, <1>9, <4>1
    <3> QED
      BY <3>1, <3>2, <1>1, <1>5, <1>6, <2>2 DEF EntryIn
  <2> QED
    BY <2>1, <2>2
<1>11. \A f \in 1..Len(P) : Len(Q[f]) = Len(P[f])
  BY <1>5, <1>6
<1>12. ASSUME NEW a, NEW f, NEW i, HeaderAt(P, a, f, i)  PROVE HeaderAt(Q, a, f, i)
  <2> HIDE DEF p, w
  <2>1. f \in 1..Len(P) /\ i \in 1..Len(P[f]) /\ P[f][i] \in {Header(a), Dead}
    BY <1>12 DEF HeaderAt
  <2>2. CASE f = w
    <3>1. p[i] \in {Header(a), Dead}
      BY <1>8, <2>1, <2>2
    <3> QED
      BY <1>6, <1>11, <2>1, <2>2, <3>1 DEF HeaderAt
  <2>3. CASE f # w
    BY <1>6, <2>1, <2>3 DEF HeaderAt
  <2> QED
    BY <2>2, <2>3
<1> QED
  BY <1>6, <1>10, <1>11, <1>12, Zenon DEF SameLengths

-----------------------------------------------------------------------------
(* One lemma per step of ReceiveBlob *)

\* What leaves the packs, their syncing and the append alone keeps rows kept.
LEMMA KeptFrame ==
    ASSUME UNCHANGED <<packs, synced, mu, writer, pos, app>>, NEW b, NEW r
    PROVE  Kept(b, r)' <=> Kept(b, r)
BY DEF Kept, EntryIn, OutOfReach, File, Offset, Header, Body, Dead, Zero

\* And what leaves the receive inside append alone keeps what append has written.
LEMMA AppFrame ==
    ASSUME AppInv, UNCHANGED <<packs, synced, mu, writer, size, pos, app>>,
           \A u \in Receivers : mu = u => pc'[u] = pc[u] /\ arg'[u] = arg[u]
    PROVE  AppInv'
BY DEF AppInv, EntryIn, File, Offset, Header, Body, Dead, Zero

\* The duplicate check touches neither packs nor rows.
LEMMA CheckKeepsInv ==
    ASSUME Inv, NEW t \in Receivers,
           (\E b \in Blobs : ReceiveBlob(t, b)) \/ foundDup(t) \/ notDup(t)
    PROVE  Inv'
<1> USE DEF Inv, disk, files, removing, history, bounds, receiving
<1>1. UNCHANGED <<packs, index, writer, fds, size, pos, synced, lagged, mu, app,
                  dpc, dat>>
  BY DEF ReceiveBlob, foundDup, notDup
<1>2. /\ pc[t] \notin Writing /\ pc'[t] \notin Writing
      /\ \A u \in Receivers : u # t => pc'[u] = pc[u] /\ arg'[u] = arg[u]
      /\ pc'[t] # "idle" => arg'[t] \in Blobs
  <2>1. /\ pc[t] \in {"idle", "stat"}
        /\ \E p \in {"idle", "stat", "append"} : pc' = [pc EXCEPT ![t] = p]
    BY DEF ReceiveBlob, foundDup, notDup, returnNil
  <2>2. \/ \E b \in Blobs : arg' = [arg EXCEPT ![t] = b]
        \/ arg' = [arg EXCEPT ![t] = NoBlob] /\ pc' = [pc EXCEPT ![t] = "idle"]
        \/ arg' = arg /\ pc[t] = "stat"
    BY DEF ReceiveBlob, foundDup, notDup, returnNil
  <2>3. pc \in [Receivers -> {"idle", "stat", "append"} \cup Writing]
        /\ arg \in [Receivers -> Blobs \cup {NoBlob}]
    BY DEF TypeOK
  <2>4. pc[t] \notin Writing /\ pc'[t] \notin Writing /\ \A u \in Receivers : u # t => pc'[u] = pc[u]
    BY <2>1, <2>3 DEF Writing
  <2>5. \A u \in Receivers : u # t => arg'[u] = arg[u]
    BY <2>2, <2>3
  <2>6. pc'[t] # "idle" => arg'[t] \in Blobs
    <3>1. pc[t] = "stat" => arg[t] \in Blobs
      BY DEF MuInv
    <3> QED
      BY <2>2, <2>3, <3>1
  <2> QED
    BY <2>4, <2>5, <2>6
<1>3. TypeOK'
  <2>1. CASE \E b \in Blobs : ReceiveBlob(t, b)
    <3> PICK b \in Blobs : ReceiveBlob(t, b)
      BY <2>1
    <3>1. held' \in [Receivers -> Rows] /\ arg' \in [Receivers -> Blobs \cup {NoBlob}]
      <4>1. /\ held' = held \/ held' = [held EXCEPT ![t] = index[b]]
            /\ arg' = [arg EXCEPT ![t] = b]
        BY DEF ReceiveBlob
      <4>2. /\ index[b] \in Rows /\ held \in [Receivers -> Rows]
            /\ arg \in [Receivers -> Blobs \cup {NoBlob}]
        BY DEF TypeOK
      <4> QED
        BY <4>1, <4>2
    <3>2. pc' \in [Receivers -> {"idle", "stat", "append"} \cup Writing]
      <4>1. pc' = [pc EXCEPT ![t] = "stat"] \/ pc' = [pc EXCEPT ![t] = "append"]
        BY DEF ReceiveBlob
      <4>2. pc \in [Receivers -> {"idle", "stat", "append"} \cup Writing]
        BY DEF TypeOK
      <4> QED
        BY <4>1, <4>2
    <3>3. overlap' \subseteq Receivers /\ UNCHANGED <<acked, removal, appends, crashes>>
      BY DEF TypeOK, ReceiveBlob
    <3> QED
      BY <1>1, <3>1, <3>2, <3>3 DEF TypeOK
  <2>2. CASE foundDup(t)
    <3>1. arg[t] \in Blobs
      BY <2>2 DEF MuInv, foundDup
    <3> QED
      BY <1>1, <2>2, <3>1 DEF TypeOK, foundDup, returnNil, Writing, Rows
  <2>3. CASE notDup(t)
    BY <1>1, <2>3 DEF TypeOK, notDup
  <2> QED
    BY <2>1, <2>2, <2>3
<1>4. FilesInv'
  BY <1>1 DEF FilesInv
<1>5. MuInv'
  BY <1>1, <1>2 DEF MuInv
<1>6. RowsInv' /\ DatInv'
  BY <1>1, KeptFrame DEF RowsInv, DatInv
<1>7. AppInv'
  <2>1. \A u \in Receivers : mu = u => pc'[u] = pc[u] /\ arg'[u] = arg[u]
    BY <1>2 DEF MuInv
  <2> QED
    BY <1>1, <2>1, AppFrame
<1> QED
  BY <1>3, <1>4, <1>5, <1>6, <1>7

\* A write to the writer's pack keeps the rows, whoever holds s.mu afterwards, as
\* long as origOffset was the writer's position.
LEMMA WriteKeeps ==
    ASSUME Inv, writer # 0, NEW c \in Cells, write(c),
           UNCHANGED <<writer, synced>>,
           \/ mu' = Free
           \/ app'.orig = pos /\ app'.packIdx = 0
           \/ mu # Free /\ app' = app
    PROVE  /\ packs' \in Seq(Seq(Cells)) /\ packs' # << >>
           /\ Len(packs') = Len(packs)
           /\ size' \in Nat /\ pos' \in Nat
           /\ \A f \in 1..Len(packs) : synced'[f] <= Len(packs'[f])
           /\ size' = pos' => pos' = Len(packs'[writer])
           /\ packs'[writer][pos + 1] = c
           /\ \A i \in 1..pos : i <= Len(packs[writer]) =>
                                   packs'[writer][i] = packs[writer][i]
           /\ \A b, r : Kept(b, r) => Kept(b, r)'
<1>1. /\ writer \in 1..Len(packs) /\ packs \in Seq(Seq(Cells)) /\ packs # << >>
      /\ pos \in Nat /\ size \in Nat /\ pos + 1 \in Nat \ {0}
  BY DEF Inv, TypeOK
<1> DEFINE p == packs[writer]
           q == WriteAt(p, pos + 1, c)
<1>2. /\ packs' = [packs EXCEPT ![writer] = q]
      /\ size' = size + 1 /\ pos' = pos + 1
  BY DEF write
<1>3. p \in Seq(Cells) /\ Len(p) \in Nat
  BY <1>1
<1>4. /\ q \in Seq(Cells) /\ q[pos + 1] = c
      /\ Len(q) = IF pos + 1 > Len(p) THEN pos + 1 ELSE Len(p)
      /\ \A j \in 1..Len(p) : j # pos + 1 => q[j] = p[j]
  <2>1. Wrote(q, p, pos + 1, c)
    BY <1>1, <1>3, WriteAtFacts
  <2> HIDE DEF q
  <2> QED
    BY <2>1 DEF Wrote
<1> HIDE DEF q
<1>5. /\ packs' \in Seq(Seq(Cells)) /\ Len(packs') = Len(packs) /\ packs'[writer] = q
      /\ \A f \in 1..Len(packs) : f # writer => packs'[f] = packs[f]
  BY <1>1, <1>2, <1>4
<1>6. \A i \in 1..pos : i <= Len(p) => q[i] = p[i]
  BY <1>1, <1>3, <1>4
<1>7. \A f \in 1..Len(packs) : synced'[f] <= Len(packs'[f])
  <2> SUFFICES ASSUME NEW f \in 1..Len(packs)  PROVE synced[f] <= Len(packs'[f])
    OBVIOUS
  <2>1. synced[f] \in Nat /\ synced[f] <= Len(packs[f]) /\ Len(packs[f]) \in Nat
    <3>1. /\ synced \in Seq(Nat) /\ Len(synced) = Len(packs) /\ packs \in Seq(Seq(Cells))
          /\ synced[f] <= Len(packs[f])
      BY DEF Inv, TypeOK, FilesInv
    <3>2. synced[f] \in Nat
      BY <3>1
    <3>3. packs[f] \in Seq(Cells)
      BY <3>1
    <3> QED
      BY <3>1, <3>2, <3>3
  <2>2. CASE f = writer
    <3>1. Len(p) <= Len(q) /\ Len(q) \in Nat
      BY <1>1, <1>3, <1>4
    <3> QED
      BY <1>3, <1>5, <2>1, <2>2, <3>1
  <2>3. CASE f # writer
    BY <1>5, <2>1, <2>3
  <2> QED
    BY <2>2, <2>3
<1>8. size' = pos' => pos' = Len(packs'[writer])
  <2>1. size = pos => pos = Len(p)
    BY DEF Inv, FilesInv
  <2> QED
    BY <1>1, <1>2, <1>4, <1>5, <2>1
<1>9. ASSUME NEW b, NEW r, Kept(b, r)  PROVE Kept(b, r)'
  <2>1. /\ EntryIn(packs, b, r) /\ File(r) \in 1..Len(packs)
        /\ Offset(r) \in 1..(Len(packs[File(r)]) - 1)
        /\ Offset(r) < synced[File(r)]
        /\ File(r) = writer => Offset(r) < pos
    BY <1>9 DEF Kept, EntryIn, OutOfReach
  <2>2. EntryIn(packs', b, r)
    <3>1. CASE File(r) # writer
      BY <1>5, <2>1, <3>1 DEF EntryIn
    <3>2. CASE File(r) = writer
      <4>1. /\ Offset(r) \in 1..pos /\ Offset(r) + 1 \in 1..pos
            /\ Offset(r) <= Len(p) /\ Offset(r) + 1 <= Len(p)
            /\ Offset(r) \in 1..(Len(q) - 1)
        BY <1>1, <1>3, <1>4, <2>1, <3>2
      <4>2. q[Offset(r)] = p[Offset(r)] /\ q[Offset(r) + 1] = p[Offset(r) + 1]
        BY <1>6, <4>1
      <4> QED
        BY <1>5, <2>1, <3>2, <4>1, <4>2 DEF EntryIn
    <3> QED
      BY <3>1, <3>2
  <2>3. EntryIn(packs, b, r)'
    BY <2>2 DEF EntryIn, File, Offset, Header, Body, Dead, Zero
  <2>4. File(r) = writer => Offset(r) < pos'
    BY <1>1, <1>2, <2>1
  <2>5. ASSUME mu' # Free, File(r) \in {writer, app'.packIdx}  PROVE Offset(r) < app'.orig
    <3>1. CASE app'.orig = pos /\ app'.packIdx = 0
      BY <2>1, <2>5, <3>1
    <3>2. CASE mu # Free /\ app' = app
      BY <1>9, <2>5, <3>2 DEF Kept, OutOfReach
    <3> QED
      BY <2>5, <3>1, <3>2
  <2> QED
    BY <2>1, <2>3, <2>4, <2>5 DEF Kept, OutOfReach, File, Offset
<1>10. packs' # << >> /\ size' \in Nat /\ pos' \in Nat
  BY <1>1, <1>2, <1>5
<1> QED
  BY <1>4, <1>5, <1>6, <1>7, <1>8, <1>9, <1>10, Zenon

\* A receive that returns an error, and leaves append if it was there.
LEMMA ReturnErrTypes ==
    ASSUME Inv, NEW t \in Receivers, returnErr(t)
    PROVE  /\ pc' \in [Receivers -> {"idle", "stat", "append"} \cup Writing]
           /\ arg' \in [Receivers -> Blobs \cup {NoBlob}]
           /\ held' \in [Receivers -> Rows]
           /\ acked' \subseteq Blobs /\ removal' \subseteq Blobs
           /\ overlap' \subseteq Receivers
           /\ pc'[t] = "idle"
           /\ \A u \in Receivers : u # t => pc'[u] = pc[u] /\ arg'[u] = arg[u]
BY DEF Inv, TypeOK, returnErr, Rows

\* When nobody is left inside append there is nothing to say of it.
LEMMA NobodyInside ==
    ASSUME mu' = Free  PROVE AppInv'
<1>1. \A t \in Receivers : mu' # t
  BY DiskpackedAssumption
<1> QED
  BY <1>1 DEF AppInv

LEMMA CellTypes ==
    /\ Junk \in Cells /\ Dead \in Cells /\ Zero \in Cells
    /\ \A b \in Blobs : Header(b) \in Cells /\ Body(b) \in Cells
BY DEF Cells, Junk, Dead, Zero, Header, Body

\* The header is written and append goes on.
LEMMA WriteHeaderKeepsInv ==
    ASSUME Inv, NEW t \in Receivers, writeHeader(t)
    PROVE  Inv'
<1> DEFINE c == Header(arg[t])
<1>1. /\ pc[t] = "append" /\ mu = Free /\ mu' = t /\ writer # 0
      /\ size = pos /\ write(c)
      /\ app' = [orig |-> size, offset |-> size + 1, packIdx |-> 0]
      /\ pc' = [pc EXCEPT ![t] = "data"]
      /\ appends' = appends + 1
      /\ UNCHANGED <<index, writer, fds, synced, lagged, dpc, dat, arg, held,
                     acked, removal, overlap, crashes>>
  BY DEF writeHeader, beginAppend, removing, history
<1>2. arg[t] \in Blobs /\ c \in Cells
  BY <1>1, CellTypes DEF Inv, MuInv
<1>3. /\ size \in Nat /\ app'.orig = size /\ app'.offset = size + 1
      /\ app'.packIdx = 0
      /\ app' \in [orig : Nat, offset : Nat, packIdx : Nat]
  BY <1>1 DEF Inv, TypeOK
<1> HIDE DEF c
<1>4. /\ packs' \in Seq(Seq(Cells)) /\ packs' # << >>
      /\ Len(packs') = Len(packs) /\ size' \in Nat /\ pos' \in Nat
      /\ \A f \in 1..Len(packs) : synced'[f] <= Len(packs'[f])
      /\ size' = pos' => pos' = Len(packs'[writer])
      /\ packs'[writer][pos + 1] = c
  BY <1>1, <1>2, <1>3, WriteKeeps
<1>5. \A b, r : Kept(b, r) => Kept(b, r)'
  BY <1>1, <1>2, <1>3, WriteKeeps
<1>6. size' = size + 1 /\ pos' = pos + 1
  BY <1>1 DEF write
<1>7. pc' \in [Receivers -> {"idle", "stat", "append"} \cup Writing]
      /\ pc'[t] = "data" /\ \A u \in Receivers : u # t => pc'[u] = pc[u]
  BY <1>1 DEF Inv, TypeOK, Writing
<1>8. TypeOK'
  <2>1. appends' \in Nat /\ mu' \in Receivers \cup {Free}
    BY <1>1 DEF Inv, TypeOK
  <2>2. UNCHANGED <<index, writer, fds, synced, lagged, dpc, dat, arg, held, acked,
                    removal, overlap, crashes>>
    BY <1>1
  <2> QED
    BY <2>1, <2>2, <1>3, <1>4, <1>7 DEF Inv, TypeOK
<1>9. FilesInv'
  BY <1>1, <1>4 DEF Inv, FilesInv
<1>10. MuInv'
  <2>1. \A u \in Receivers : pc[u] \notin Writing
    BY <1>1, DiskpackedAssumption DEF Inv, MuInv
  <2>2. ASSUME NEW u \in Receivers
        PROVE  (mu' = u <=> pc'[u] \in Writing) /\ (pc'[u] # "idle" => arg'[u] \in Blobs)
    <3>1. CASE u = t
      BY <1>1, <1>2, <1>7, <3>1 DEF Writing
    <3>2. CASE u # t
      BY <1>1, <1>7, <2>1, <3>2 DEF Inv, MuInv
    <3> QED
      BY <3>1, <3>2
  <2> QED
    BY <2>2 DEF MuInv
<1>11. RowsInv' /\ DatInv'
  BY <1>1, <1>5 DEF Inv, RowsInv, DatInv
<1>12. AppInv'
  <2> SUFFICES ASSUME NEW u \in Receivers, mu' = u
               PROVE  /\ writer' # 0 /\ size' = pos'
                      /\ app'.offset = app'.orig + 1 /\ app'.packIdx = 0
                      /\ pc'[u] = "data"
                      /\ Len(packs'[writer']) = app'.offset
                      /\ packs'[writer'][app'.offset] = Header(arg[u])
    BY <1>1 DEF AppInv, Header, Dead
  <2> QED
    BY <1>1, <1>3, <1>4, <1>6, <1>7 DEF c
<1> QED
  BY <1>8, <1>9, <1>10, <1>11, <1>12 DEF Inv

\* append fails before or at its header: it holds s.mu no longer.
LEMMA HeaderFailsKeepsInv ==
    ASSUME Inv, NEW t \in Receivers, badOffset(t) \/ writeHeaderFails(t)
    PROVE  Inv'
<1>1. /\ pc[t] = "append" /\ mu = Free /\ returnErr(t)
      /\ appends' = appends + 1
      /\ UNCHANGED <<index, writer, fds, synced, lagged, mu, app, dpc, dat, crashes>>
  BY DEF badOffset, writeHeaderFails, beginAppend, removing
<1>2. arg[t] \in Blobs
  BY <1>1 DEF Inv, MuInv
<1>3. \/ UNCHANGED <<packs, size, pos>>
      \/ writer # 0 /\ \E c \in Cells : write(c)
  BY <1>2, CellTypes DEF badOffset, writeHeaderFails
<1> DEFINE Stay ==
              /\ packs' \in Seq(Seq(Cells)) /\ packs' # << >>
              /\ Len(packs') = Len(packs) /\ size' \in Nat /\ pos' \in Nat
              /\ \A f \in 1..Len(packs) : synced'[f] <= Len(packs'[f])
              /\ writer # 0 /\ size' = pos' => pos' = Len(packs'[writer])
              /\ \A b, r : Kept(b, r) => Kept(b, r)'
<1>4. Stay
  <2>1. CASE UNCHANGED <<packs, size, pos>>
    <3>1. \A b, r : Kept(b, r) => Kept(b, r)'
      BY <1>1, <2>1, KeptFrame
    <3> QED
      BY <1>1, <2>1, <3>1 DEF Inv, TypeOK, FilesInv
  <2>2. ASSUME writer # 0, NEW c \in Cells, write(c)
        PROVE  Stay
    <3>1. \A b, r : Kept(b, r) => Kept(b, r)'
      BY <1>1, <2>2, WriteKeeps
    <3> QED
      BY <1>1, <2>2, <3>1, WriteKeeps
  <2> QED
    BY <1>3, <2>1, <2>2
<1>5. TypeOK'
  <2>1. appends' \in Nat
    BY <1>1 DEF Inv, TypeOK
  <2> QED
    BY <1>1, <1>4, <2>1, ReturnErrTypes DEF Inv, TypeOK
<1>6. FilesInv'
  BY <1>1, <1>4 DEF Inv, FilesInv
<1>7. MuInv'
  BY <1>1, ReturnErrTypes, DiskpackedAssumption DEF Inv, MuInv, Writing
<1>8. RowsInv' /\ DatInv'
  BY <1>1, <1>4 DEF Inv, RowsInv, DatInv
<1> QED
  BY <1>1, <1>5, <1>6, <1>7, <1>8, NobodyInside DEF Inv

\* The holder of s.mu moves on inside append.
LEMMA StepInside ==
    ASSUME Inv, NEW t \in Receivers, mu = t, UNCHANGED <<mu, arg>>,
           NEW p \in Writing, pc' = [pc EXCEPT ![t] = p]
    PROVE  /\ MuInv'
           /\ pc' \in [Receivers -> {"idle", "stat", "append"} \cup Writing]
           /\ pc'[t] = p
           /\ arg[t] \in Blobs
<1>1. pc' \in [Receivers -> {"idle", "stat", "append"} \cup Writing] /\ pc'[t] = p
      /\ \A u \in Receivers : u # t => pc'[u] = pc[u]
  BY DEF Inv, TypeOK
<1>2. pc[t] \in Writing /\ arg[t] \in Blobs
  BY DEF Inv, MuInv, Writing
<1>3. ASSUME NEW u \in Receivers
      PROVE  (mu' = u <=> pc'[u] \in Writing) /\ (pc'[u] # "idle" => arg'[u] \in Blobs)
  <2>1. CASE u = t
    BY <1>1, <1>2, <2>1
  <2>2. CASE u # t
    BY <1>1, <2>2 DEF Inv, MuInv
  <2> QED
    BY <2>1, <2>2
<1> QED
  BY <1>1, <1>2, <1>3 DEF MuInv

\* The holder of s.mu returns.
LEMMA StepOutside ==
    ASSUME Inv, NEW t \in Receivers, mu = t, mu' = Free,
           pc'[t] = "idle",
           \A u \in Receivers : u # t => pc'[u] = pc[u] /\ arg'[u] = arg[u]
    PROVE  MuInv'
<1> SUFFICES ASSUME NEW u \in Receivers
             PROVE  pc'[u] \notin Writing /\ (pc'[u] # "idle" => arg'[u] \in Blobs)
  BY DiskpackedAssumption DEF MuInv
<1>1. CASE u = t
  BY <1>1 DEF Writing
<1>2. CASE u # t
  BY <1>2 DEF Inv, MuInv
<1> QED
  BY <1>1, <1>2

\* The data is written after the header.
LEMMA WriteDataKeepsInv ==
    ASSUME Inv, NEW t \in Receivers, writeData(t)
    PROVE  Inv'
<1> DEFINE c == Body(arg[t])
<1>1. /\ pc[t] = "data" /\ mu = t /\ write(c) /\ pc' = [pc EXCEPT ![t] = "sync"]
      /\ UNCHANGED <<index, writer, fds, synced, lagged, mu, app, arg, held, dpc,
                     dat, acked, removal, overlap, appends, crashes>>
  BY DEF writeData, removing, history, bounds
<1>2. "sync" \in Writing /\ mu # Free
  BY <1>1, DiskpackedAssumption DEF Writing
<1>3. /\ MuInv' /\ pc'[t] = "sync" /\ arg[t] \in Blobs
      /\ pc' \in [Receivers -> {"idle", "stat", "append"} \cup Writing]
  BY <1>1, <1>2, StepInside
<1>4. /\ writer # 0 /\ size = pos /\ app.offset = app.orig + 1 /\ app.packIdx = 0
      /\ Len(packs[writer]) = app.offset
      /\ packs[writer][app.offset] \in {Header(arg[t]), Dead}
  BY <1>1 DEF Inv, AppInv
<1>5. /\ app.orig \in Nat /\ pos = app.offset /\ app.offset \in Nat
      /\ writer \in 1..Len(packs) /\ Len(packs) \in Nat
  BY <1>4 DEF Inv, TypeOK, FilesInv
<1>6. c \in Cells
  BY <1>3, CellTypes
<1> HIDE DEF c
<1>7. /\ packs' \in Seq(Seq(Cells)) /\ packs' # << >>
      /\ Len(packs') = Len(packs) /\ size' \in Nat /\ pos' \in Nat
      /\ \A f \in 1..Len(packs) : synced'[f] <= Len(packs'[f])
      /\ size' = pos' => pos' = Len(packs'[writer])
      /\ packs'[writer][pos + 1] = c
  BY <1>1, <1>2, <1>4, <1>6, WriteKeeps
<1>8. \A i \in 1..pos : i <= Len(packs[writer]) => packs'[writer][i] = packs[writer][i]
  BY <1>1, <1>2, <1>4, <1>6, WriteKeeps
<1>9. \A b, r : Kept(b, r) => Kept(b, r)'
  BY <1>1, <1>2, <1>4, <1>6, WriteKeeps
<1>10. size' = size + 1 /\ pos' = pos + 1
  BY <1>1 DEF write
<1>11. TypeOK'
  BY <1>1, <1>3, <1>7 DEF Inv, TypeOK
<1>12. FilesInv'
  BY <1>1, <1>7 DEF Inv, FilesInv
<1>13. RowsInv' /\ DatInv'
  BY <1>1, <1>9 DEF Inv, RowsInv, DatInv
<1>14. AppInv'
  <2>1. EntryIn(packs', arg[t], <<writer, app.offset>>)
    <3>1. /\ writer \in 1..Len(packs')
          /\ app.offset \in 1..(Len(packs'[writer]) - 1)
          /\ app.offset \in 1..pos /\ app.offset <= Len(packs[writer])
      BY <1>4, <1>5, <1>7, <1>10
    <3>2. packs'[writer][app.offset] = packs[writer][app.offset]
      BY <1>8, <3>1
    <3>3. packs'[writer][app.offset + 1] = c
      BY <1>5, <1>7
    <3> QED
      BY <1>4, <3>1, <3>2, <3>3 DEF EntryIn, File, Offset, c
  <2>2. \A u \in Receivers : mu' = u => u = t
    BY <1>1
  <2>3. EntryIn(packs, arg[t], <<writer, app.offset>>)'
    BY <1>1, <2>1 DEF EntryIn, File, Offset, Header, Body, Dead, Zero
  <2>4. size' = pos'
    BY <1>4, <1>10
  <2> QED
    BY <1>1, <1>3, <1>4, <2>2, <2>3, <2>4 DEF AppInv
<1> QED
  BY <1>3, <1>11, <1>12, <1>13, <1>14 DEF Inv

\* A write or a Sync that fails leaves what it wrote.
LEMMA WriteDataFailsKeepsInv ==
    ASSUME Inv, NEW t \in Receivers, writeDataFails(t)
    PROVE  Inv'
<1>1. /\ mu = t /\ mu' = Free /\ app' = NoAppend /\ returnErr(t)
      /\ UNCHANGED <<packs, index, writer, fds, size, pos, synced, lagged, dpc, dat,
                     appends, crashes>>
  BY DEF writeDataFails, unlock, disk, files, removing, bounds
<1>2. app' \in [orig : Nat, offset : Nat, packIdx : Nat]
  BY <1>1 DEF NoAppend
<1>3. TypeOK'
  BY <1>1, <1>2, ReturnErrTypes DEF Inv, TypeOK
<1>4. FilesInv'
  BY <1>1 DEF Inv, FilesInv
<1>5. MuInv'
  BY <1>1, ReturnErrTypes, StepOutside
<1>6. \A b, r : Kept(b, r) => Kept(b, r)'
  BY <1>1 DEF Kept, EntryIn, OutOfReach, File, Offset, Header, Body, Dead, Zero
<1>7. RowsInv' /\ DatInv'
  BY <1>1, <1>6 DEF Inv, RowsInv, DatInv
<1> QED
  BY <1>1, <1>3, <1>4, <1>5, <1>7, NobodyInside DEF Inv

\* After Sync the new entry is as safe as the others.
LEMMA SyncKeepsInv ==
    ASSUME Inv, NEW t \in Receivers, Sync(t)
    PROVE  Inv'
<1> DEFINE p == IF size > MaxFileSize THEN "rotate" ELSE "set"
<1>1. /\ pc[t] = "sync" /\ mu = t
      /\ synced' = [synced EXCEPT ![writer] = Len(packs[writer])]
      /\ app' = [app EXCEPT !.packIdx = fds]
      /\ pc' = [pc EXCEPT ![t] = p]
      /\ UNCHANGED <<packs, index, writer, fds, size, pos, lagged, mu, arg, held,
                     dpc, dat, acked, removal, overlap, appends, crashes>>
  BY DEF Sync, disk, removing, history, bounds
<1>2. p \in {"rotate", "set"} /\ p \in Writing
  BY DEF Writing
<1> HIDE DEF p
<1>3. /\ MuInv' /\ pc'[t] = p /\ arg[t] \in Blobs
      /\ pc' \in [Receivers -> {"idle", "stat", "append"} \cup Writing]
  BY <1>1, <1>2, StepInside
<1>4. /\ writer # 0 /\ size = pos /\ app.offset = app.orig + 1
      /\ EntryIn(packs, arg[t], <<writer, app.offset>>)
      /\ writer = fds /\ fds \in Nat
      /\ app \in [orig : Nat, offset : Nat, packIdx : Nat]
  <2>1. /\ writer # 0 /\ size = pos /\ app.offset = app.orig + 1
        /\ EntryIn(packs, arg[t], <<writer, app.offset>>)
    BY <1>1 DEF Inv, AppInv
  <2>2. /\ writer \in {0, fds} /\ fds \in Nat
        /\ app \in [orig : Nat, offset : Nat, packIdx : Nat]
    BY DEF Inv, TypeOK, FilesInv
  <2> QED
    BY <2>1, <2>2
<1>5. /\ app'.orig = app.orig /\ app'.offset = app.offset /\ app'.packIdx = fds
      /\ app' \in [orig : Nat, offset : Nat, packIdx : Nat]
  BY <1>1, <1>4
<1>6. /\ packs \in Seq(Seq(Cells)) /\ writer \in 1..Len(packs)
      /\ synced \in Seq(Nat) /\ Len(synced) = Len(packs)
  BY <1>4 DEF Inv, TypeOK
<1>7. /\ synced' \in Seq(Nat) /\ Len(synced') = Len(packs)
      /\ synced'[writer] = Len(packs[writer]) /\ Len(packs[writer]) \in Nat
      /\ \A f \in 1..Len(packs) : f # writer => synced'[f] = synced[f]
  BY <1>1, <1>6
<1>8. TypeOK'
  BY <1>1, <1>3, <1>5, <1>7 DEF Inv, TypeOK
<1>9. FilesInv'
  BY <1>1, <1>7 DEF Inv, FilesInv
<1>10. ASSUME NEW b, NEW r, Kept(b, r)  PROVE Kept(b, r)'
  <2>1. EntryIn(packs, b, r) /\ File(r) \in 1..Len(packs)
        /\ Offset(r) \in 1..(Len(packs[File(r)]) - 1)
    BY <1>10 DEF Kept, EntryIn
  <2>2. Offset(r) < synced'[File(r)]
    BY <1>7, <1>10, <2>1 DEF Kept, OutOfReach
  <2>3. OutOfReach(r)'
    <3>1. mu # Free
      BY <1>1, DiskpackedAssumption
    <3>2. /\ File(r) = writer => Offset(r) < pos
          /\ File(r) = writer => Offset(r) < app.orig
      BY <1>10, <3>1 DEF Kept, OutOfReach
    <3> QED
      BY <1>1, <1>4, <1>5, <2>2, <3>2 DEF OutOfReach, File, Offset
  <2> QED
    BY <1>1, <2>1, <2>3 DEF Kept, EntryIn, File, Offset, Header, Body, Dead, Zero
<1>11. RowsInv' /\ DatInv'
  BY <1>1, <1>10 DEF Inv, RowsInv, DatInv
<1>12. AppInv'
  <2>1. EntryIn(packs, arg[t], <<app.packIdx, app.offset>>)'
    BY <1>1, <1>4, <1>5 DEF EntryIn, File, Offset, Header, Body, Dead, Zero
  <2>2. app'.offset < synced'[app'.packIdx]
    <3>1. app.offset \in 1..(Len(packs[writer]) - 1)
      BY <1>4 DEF EntryIn, File, Offset
    <3> QED
      BY <1>4, <1>5, <1>7, <3>1
  <2>3. \A u \in Receivers : mu' = u => u = t
    BY <1>1
  <2> QED
    BY <1>1, <1>2, <1>3, <1>4, <1>5, <2>1, <2>2, <2>3 DEF AppInv
<1> QED
  BY <1>3, <1>8, <1>9, <1>11, <1>12 DEF Inv

\* The new pack is empty, and no row is in it.
LEMMA NextPackKeepsInv ==
    ASSUME Inv, NEW t \in Receivers, nextPack(t)
    PROVE  Inv'
<1>1. /\ pc[t] = "rotate" /\ mu = t /\ openForWrite(fds + 1)
      /\ fds' = fds + 1 /\ pc' = [pc EXCEPT ![t] = "set"]
      /\ UNCHANGED <<index, lagged, mu, app, arg, held, dpc, dat, acked, removal,
                     overlap, appends, crashes>>
  BY DEF nextPack, removing, history, bounds
<1>2. fds = Len(packs) /\ packs \in Seq(Seq(Cells)) /\ fds \in Nat
      /\ synced \in Seq(Nat) /\ Len(synced) = fds
  BY DEF Inv, TypeOK, FilesInv
<1>3. /\ packs' = Append(packs, << >>) /\ writer' = fds + 1
      /\ size' = Len(packs'[fds + 1]) /\ pos' = Len(packs'[fds + 1])
      /\ synced' = Append(synced, 0)
  BY <1>1, <1>2 DEF openForWrite
<1>4. << >> \in Seq(Cells) /\ 0 \in Nat
  OBVIOUS
<1>5. /\ packs' \in Seq(Seq(Cells)) /\ Len(packs') = fds + 1
      /\ packs'[fds + 1] = << >>
      /\ \A f \in 1..fds : packs'[f] = packs[f]
  BY <1>2, <1>3, <1>4
<1>6. /\ synced' \in Seq(Nat) /\ Len(synced') = fds + 1 /\ synced'[fds + 1] = 0
      /\ \A f \in 1..fds : synced'[f] = synced[f]
  BY <1>2, <1>3, <1>4
<1>7. size' = 0 /\ pos' = 0
  BY <1>3, <1>5
<1>8. "set" \in Writing
  BY DEF Writing
<1>9. /\ MuInv' /\ pc'[t] = "set" /\ arg[t] \in Blobs
      /\ pc' \in [Receivers -> {"idle", "stat", "append"} \cup Writing]
  BY <1>1, <1>8, StepInside
<1>10. TypeOK'
  <2>1. writer' \in 0..Len(packs') /\ fds' \in 1..Len(packs') /\ packs' # << >>
    BY <1>1, <1>2, <1>3, <1>5
  <2> QED
    BY <1>1, <1>5, <1>6, <1>7, <1>9, <2>1 DEF Inv, TypeOK
<1>11. FilesInv'
  <2>1. ASSUME NEW f \in 1..(fds + 1)  PROVE synced'[f] <= Len(packs'[f])
    <3>1. CASE f = fds + 1
      BY <1>5, <1>6, <3>1
    <3>2. CASE f \in 1..fds
      BY <1>2, <1>5, <1>6, <3>2 DEF Inv, FilesInv
    <3> QED
      BY <1>2, <3>1, <3>2
  <2> QED
    BY <1>1, <1>2, <1>3, <1>5, <1>7, <2>1 DEF FilesInv
<1>12. ASSUME NEW b, NEW r, EntryIn(packs, b, r)
       PROVE  EntryIn(packs, b, r)' /\ EntryIn(packs', b, r) /\ File(r) \in 1..fds
  <2>1. File(r) \in 1..fds /\ packs'[File(r)] = packs[File(r)]
    BY <1>2, <1>5, <1>12 DEF EntryIn
  <2>2. File(r) \in 1..Len(packs')
    BY <1>2, <1>5, <2>1
  <2> QED
    BY <1>12, <2>1, <2>2 DEF EntryIn, File, Offset, Header, Body, Dead, Zero
<1>13. ASSUME NEW b, NEW r, Kept(b, r)  PROVE Kept(b, r)'
  <2>1. EntryIn(packs, b, r)' /\ File(r) \in 1..fds /\ File(r) # writer'
    BY <1>2, <1>3, <1>12, <1>13 DEF Kept
  <2>2. Offset(r) < synced'[File(r)]
    BY <1>6, <1>13, <2>1 DEF Kept, OutOfReach
  <2> QED
    <3>1. mu # Free
      BY <1>1, DiskpackedAssumption
    <3>2. File(r) = app.packIdx => Offset(r) < app.orig
      BY <1>13, <3>1 DEF Kept, OutOfReach
    <3> QED
      BY <1>1, <2>1, <2>2, <3>2 DEF Kept, OutOfReach, File, Offset
<1>14. RowsInv' /\ DatInv'
  BY <1>1, <1>13 DEF Inv, RowsInv, DatInv
<1>15. AppInv'
  <2>1. /\ app.offset = app.orig + 1 /\ app.offset < synced[app.packIdx]
        /\ EntryIn(packs, arg[t], <<app.packIdx, app.offset>>)
    BY <1>1 DEF Inv, AppInv
  <2> DEFINE row == <<app.packIdx, app.offset>>
  <2>6. EntryIn(packs, arg[t], row)
    BY <2>1
  <2> HIDE DEF row
  <2>7. EntryIn(packs', arg[t], row) /\ File(row) \in 1..fds
    BY <1>12, <2>6
  <2>2. /\ EntryIn(packs', arg[t], <<app.packIdx, app.offset>>)
        /\ app.packIdx \in 1..fds
    BY <2>7 DEF row, File
  <2>3. EntryIn(packs, arg[t], <<app.packIdx, app.offset>>)'
    BY <1>1, <2>2 DEF EntryIn, File, Offset, Header, Body, Dead, Zero
  <2>4. app'.offset < synced'[app'.packIdx]
    BY <1>1, <1>6, <2>1, <2>2
  <2>5. \A u \in Receivers : mu' = u => u = t
    BY <1>1
  <2>8. writer' # 0 /\ app'.offset = app'.orig + 1
    BY <1>1, <1>2, <1>3, <2>1
  <2>9. arg'[t] = arg[t]
    BY <1>1
  <2> QED
    BY <1>7, <1>9, <2>3, <2>4, <2>5, <2>8, <2>9 DEF AppInv
<1> QED
  BY <1>9, <1>10, <1>11, <1>14, <1>15 DEF Inv

\* A rotation that fails before it opens the next pack leaves the packs alone.
LEMMA NextPackFailsKeepsInv ==
    ASSUME Inv, ~lagged', NEW t \in Receivers, nextPackFails(t)
    PROVE  Inv'
<1>1. /\ mu = t /\ mu' = Free /\ app' = NoAppend /\ returnErr(t)
      /\ size' = 0
      /\ \/ writer' = 0 /\ pos' = 0
         \/ UNCHANGED <<writer, pos>>
      /\ UNCHANGED <<packs, synced, lagged, index, fds, dpc, dat, appends, crashes>>
  BY DEF nextPackFails, unlock, removing, bounds
<1>2. app' \in [orig : Nat, offset : Nat, packIdx : Nat]
  BY <1>1 DEF NoAppend
<1>3. writer' \in 0..Len(packs') /\ pos' \in Nat
  BY <1>1 DEF Inv, TypeOK
<1>4. TypeOK'
  BY <1>1, <1>2, <1>3, ReturnErrTypes DEF Inv, TypeOK
<1>5. FilesInv'
  <2>1. writer' # 0 => pos' = Len(packs[writer])
    <3>1. size = pos /\ writer # 0
      BY <1>1 DEF Inv, AppInv
    <3> QED
      BY <1>1, <3>1 DEF Inv, FilesInv
  <2> QED
    BY <1>1, <2>1 DEF Inv, FilesInv
<1>6. MuInv'
  BY <1>1, ReturnErrTypes, StepOutside
<1>7. ASSUME NEW b, NEW r, Kept(b, r)  PROVE Kept(b, r)'
  <2>1. File(r) \in 1..Len(packs) /\ Len(packs) \in Nat
    <3>1. File(r) \in 1..Len(packs)
      BY <1>7, Zenon DEF Kept, EntryIn
    <3>2. packs \in Seq(Seq(Cells))
      BY DEF Inv, TypeOK
    <3>3. Len(packs) \in Nat
      BY <3>2
    <3> QED
      BY <3>1, <3>3
  <2>2. File(r) # 0
    BY <2>1
  <2> QED
    BY <1>1, <1>7, <2>2 DEF Kept, EntryIn, OutOfReach, File, Offset, Header, Body,
                            Dead, Zero
<1>8. RowsInv' /\ DatInv'
  BY <1>1, <1>7 DEF Inv, RowsInv, DatInv
<1> QED
  BY <1>1, <1>4, <1>5, <1>6, <1>8, NobodyInside DEF Inv

\* The row names the entry that was written and synced.
LEMMA SetRowKeepsInv ==
    ASSUME Inv, NEW t \in Receivers, setRow(t)
    PROVE  Inv'
<1> DEFINE row == <<app.packIdx, app.offset>>
<1>1. /\ pc[t] = "set" /\ mu = t /\ mu' = Free /\ app' = NoAppend
      /\ index' = [index EXCEPT ![arg[t]] = row] /\ returnNil(t)
      /\ UNCHANGED <<packs, writer, fds, size, pos, synced, lagged, dpc, dat, appends,
                     crashes>>
  BY DEF setRow, unlock, files, removing, bounds
<1>2. arg[t] \in Blobs
  BY <1>1 DEF Inv, MuInv
<1>3. /\ pc' \in [Receivers -> {"idle", "stat", "append"} \cup Writing]
      /\ arg' \in [Receivers -> Blobs \cup {NoBlob}]
      /\ held' \in [Receivers -> Rows]
      /\ pc'[t] = "idle"
      /\ \A u \in Receivers : u # t => pc'[u] = pc[u] /\ arg'[u] = arg[u]
  BY <1>1 DEF Inv, TypeOK, returnNil, Rows
<1>4. /\ acked' \subseteq Blobs /\ removal' \subseteq Blobs
      /\ overlap' \subseteq Receivers
  BY <1>1, <1>2 DEF Inv, TypeOK, returnNil
<1>5. row \in Rows /\ app' \in [orig : Nat, offset : Nat, packIdx : Nat]
  <2>1. app \in [orig : Nat, offset : Nat, packIdx : Nat]
    BY DEF Inv, TypeOK
  <2> QED
    BY <1>1, <2>1 DEF NoAppend, Rows
<1>6. /\ EntryIn(packs, arg[t], row) /\ Offset(row) < synced[File(row)]
      /\ File(row) = writer => Offset(row) < pos
  <2>1. /\ EntryIn(packs, arg[t], row)
        /\ app.offset < synced[app.packIdx]
        /\ writer # 0 /\ size = pos
    BY <1>1 DEF Inv, AppInv
  <2>2. pos = Len(packs[writer]) /\ pos \in Nat
    BY <2>1 DEF Inv, FilesInv, TypeOK
  <2>3. File(row) = writer => Offset(row) \in 1..(pos - 1)
    BY <2>1, <2>2 DEF EntryIn
  <2>4. File(row) = writer => Offset(row) < pos
    BY <2>2, <2>3
  <2> QED
    BY <2>1, <2>4 DEF File, Offset
<1> HIDE DEF row
<1>7. index' \in [Blobs -> Rows] /\ index'[arg[t]] = row
      /\ \A b \in Blobs : b # arg[t] => index'[b] = index[b]
  BY <1>1, <1>2, <1>5 DEF Inv, TypeOK
<1>8. TypeOK'
  BY <1>1, <1>3, <1>4, <1>5, <1>7 DEF Inv, TypeOK
<1>9. FilesInv'
  BY <1>1 DEF Inv, FilesInv
<1>10. MuInv'
  BY <1>1, <1>3, StepOutside
<1>11. \A b, r : /\ EntryIn(packs, b, r) /\ Offset(r) < synced[File(r)]
                 /\ File(r) = writer => Offset(r) < pos
                 => Kept(b, r)'
  BY <1>1 DEF Kept, EntryIn, OutOfReach, File, Offset, Header, Body, Dead, Zero
<1>12. RowsInv'
  <2> SUFFICES ASSUME NEW b \in Blobs, index'[b] # NoRow  PROVE Kept(b, index[b])'
    BY DEF RowsInv
  <2>1. /\ EntryIn(packs, b, index'[b]) /\ Offset(index'[b]) < synced[File(index'[b])]
        /\ File(index'[b]) = writer => Offset(index'[b]) < pos
    <3>1. CASE b = arg[t]
      BY <1>6, <1>7, <3>1
    <3>2. CASE b # arg[t]
      BY <1>7, <3>2 DEF Inv, RowsInv, Kept, OutOfReach
    <3> QED
      BY <3>1, <3>2
  <2> QED
    BY <1>1, <2>1 DEF Kept, EntryIn, OutOfReach, File, Offset, Header, Body, Dead, Zero
<1>13. DatInv'
  BY <1>1, <1>11 DEF Inv, DatInv, Kept, OutOfReach
<1> QED
  BY <1>1, <1>8, <1>9, <1>10, <1>12, <1>13, NobodyInside DEF Inv

\* The rollback cuts nothing that a row names, in the pack of the append or in
\* the one nextPack opened.
LEMMA SetRowFailsKeepsInv ==
    ASSUME Inv, NEW t \in Receivers, setRowFails(t)
    PROVE  Inv'
<1> DEFINE n == app.orig
           cut == [i \in 1..n |-> IF i <= Len(packs[writer])
                                     THEN packs[writer][i] ELSE Zero]
<1>1. /\ pc[t] = "set" /\ mu = t /\ mu' = Free /\ app' = NoAppend /\ returnErr(t)
      /\ UNCHANGED <<index, writer, fds, lagged, dpc, dat, appends, crashes>>
  BY DEF setRowFails, unlock, removing, bounds
<1>2. \/ /\ packs' = [packs EXCEPT ![writer] = cut] /\ size' = n /\ pos' = n
         /\ synced' = [synced EXCEPT ![writer] = IF synced[writer] < n
                                                   THEN synced[writer] ELSE n]
      \/ UNCHANGED <<packs, size, synced>> /\ pos' \in {pos, n}
  BY DEF setRowFails, rollback, Truncate
<1>3. /\ n \in Nat /\ writer \in 1..Len(packs) /\ packs \in Seq(Seq(Cells))
      /\ synced \in Seq(Nat) /\ Len(synced) = Len(packs)
  <2>1. writer # 0
    BY <1>1 DEF Inv, AppInv
  <2>2. app \in [orig : Nat, offset : Nat, packIdx : Nat]
    BY DEF Inv, TypeOK
  <2> QED
    BY <2>1, <2>2 DEF Inv, TypeOK
<1>4. packs[writer] \in Seq(Cells) /\ Len(packs[writer]) \in Nat
      /\ synced[writer] \in Nat /\ synced[writer] <= Len(packs[writer])
  BY <1>3 DEF Inv, FilesInv
<1>5. cut \in Seq(Cells) /\ Len(cut) = n
      /\ \A i \in 1..n : i <= Len(packs[writer]) => cut[i] = packs[writer][i]
  <2>1. n \in Nat /\ Zero \in Cells
    BY <1>3, CellTypes
  <2> HIDE DEF n
  <2>2. \A i \in 1..n : (IF i <= Len(packs[writer]) THEN packs[writer][i] ELSE Zero) \in Cells
    BY <1>4, <2>1
  <2>3. cut \in Seq(Cells) /\ Len(cut) = n
    BY <2>1, <2>2
  <2> QED
    BY <2>3
<1> HIDE DEF cut, n
<1> DEFINE Stay ==
              /\ packs' \in Seq(Seq(Cells)) /\ packs' # << >>
              /\ Len(packs') = Len(packs) /\ size' \in Nat /\ pos' \in Nat
              /\ synced' \in Seq(Nat) /\ Len(synced') = Len(packs)
              /\ \A f \in 1..Len(packs) : synced'[f] <= Len(packs'[f])
              /\ size' = pos' => pos' = Len(packs'[writer])
              /\ \A b, r : Kept(b, r) => Kept(b, r)'
<1>6. Stay
  <2>1. CASE UNCHANGED <<packs, size, synced>> /\ pos' \in {pos, n}
    <3>1. mu # Free
      BY <1>1, DiskpackedAssumption
    <3>2. \A b, r : Kept(b, r) => Kept(b, r)'
      BY <1>1, <2>1, <3>1 DEF Kept, EntryIn, OutOfReach, File, Offset, Header, Body,
                              Dead, Zero, n
    <3>3. writer # 0 /\ size = pos
      BY <1>1 DEF Inv, AppInv
    <3>4. size' = pos' => pos' = Len(packs'[writer])
      BY <2>1, <3>3 DEF Inv, FilesInv
    <3>5. pos' \in Nat
      BY <1>3, <2>1 DEF Inv, TypeOK
    <3> QED
      BY <1>1, <2>1, <3>2, <3>4, <3>5 DEF Inv, TypeOK, FilesInv
  <2>2. ASSUME packs' = [packs EXCEPT ![writer] = cut], size' = n, pos' = n,
               synced' = [synced EXCEPT ![writer] = IF synced[writer] < n
                                                     THEN synced[writer] ELSE n]
        PROVE  Stay
    <3>1. /\ packs' \in Seq(Seq(Cells)) /\ Len(packs') = Len(packs)
          /\ packs'[writer] = cut
          /\ \A f \in 1..Len(packs) : f # writer => packs'[f] = packs[f]
      BY <1>3, <1>5, <2>2
    <3>2. /\ synced' \in Seq(Nat) /\ Len(synced') = Len(packs)
          /\ synced'[writer] = IF synced[writer] < n THEN synced[writer] ELSE n
          /\ \A f \in 1..Len(packs) : f # writer => synced'[f] = synced[f]
      BY <1>3, <1>4, <2>2
    <3>3. \A f \in 1..Len(packs) : synced'[f] <= Len(packs'[f])
      <4> SUFFICES ASSUME NEW f \in 1..Len(packs)  PROVE synced'[f] <= Len(packs'[f])
        OBVIOUS
      <4>1. CASE f = writer
        BY <1>3, <1>4, <1>5, <3>1, <3>2, <4>1
      <4>2. CASE f # writer
        BY <3>1, <3>2, <4>2 DEF Inv, FilesInv
      <4> QED
        BY <4>1, <4>2
    <3>4. ASSUME NEW b, NEW r, Kept(b, r)  PROVE Kept(b, r)'
      <4>1. /\ EntryIn(packs, b, r) /\ File(r) \in 1..Len(packs)
            /\ Offset(r) \in 1..(Len(packs[File(r)]) - 1)
            /\ Offset(r) < synced[File(r)]
            /\ File(r) = writer => Offset(r) < n
        BY <1>1, <3>4, DiskpackedAssumption DEF Kept, EntryIn, OutOfReach, n
      <4>2. EntryIn(packs', b, r)
        <5>1. CASE File(r) # writer
          BY <3>1, <4>1, <5>1 DEF EntryIn
        <5>2. CASE File(r) = writer
          <6>1. /\ Offset(r) \in 1..n /\ Offset(r) + 1 \in 1..n
                /\ Offset(r) <= Len(packs[writer])
                /\ Offset(r) + 1 <= Len(packs[writer])
                /\ Offset(r) \in 1..(n - 1)
            BY <1>3, <1>4, <4>1, <5>2
          <6>2. /\ cut[Offset(r)] = packs[writer][Offset(r)]
                /\ cut[Offset(r) + 1] = packs[writer][Offset(r) + 1]
            BY <1>5, <6>1
          <6> QED
            BY <1>5, <3>1, <4>1, <5>2, <6>1, <6>2 DEF EntryIn
        <5> QED
          BY <5>1, <5>2
      <4>3. Offset(r) < synced'[File(r)]
        BY <3>2, <4>1
      <4> QED
        BY <1>1, <2>2, <4>1, <4>2, <4>3 DEF Kept, EntryIn, OutOfReach, File, Offset, Header,
                                Body, Dead, Zero
    <3>5. packs' # << >> /\ size' \in Nat /\ pos' \in Nat /\ pos' = Len(packs'[writer])
      BY <1>3, <1>5, <2>2, <3>1
    <3> QED
      BY <3>1, <3>2, <3>3, <3>4, <3>5
  <2> QED
    BY <1>2, <2>1, <2>2
<1>7. TypeOK'
  <2>1. app' \in [orig : Nat, offset : Nat, packIdx : Nat] /\ mu' \in Receivers \cup {Free}
    BY <1>1 DEF NoAppend
  <2> QED
    BY <1>1, <1>6, <2>1, ReturnErrTypes DEF Inv, TypeOK
<1>8. FilesInv'
  BY <1>1, <1>6 DEF Inv, FilesInv
<1>9. MuInv'
  BY <1>1, ReturnErrTypes, StepOutside
<1>10. RowsInv' /\ DatInv'
  BY <1>1, <1>6 DEF Inv, RowsInv, DatInv
<1> QED
  BY <1>1, <1>7, <1>8, <1>9, <1>10, NobodyInside DEF Inv

-----------------------------------------------------------------------------
(* RemoveBlobs, delete and Restart *)

\* A removal begins, reads a row, fails or ends: the packs stay as they are,
\* and rows only disappear.
LEMMA RemoveKeepsInv ==
    ASSUME Inv,
           \/ \E m \in Removers : \/ \E S \in SUBSET Blobs \ {{}} : RemoveBlobs(m, S)
                                  \/ CommitBatch(m)
                                  \/ CommitBatchFails(m)
           \/ \E g \in Goroutines : deleteMeta(g) \/ deleteFails(g)
    PROVE  Inv'
<1> USE DEF disk, files, receiving, history, bounds
<1>1. UNCHANGED <<packs, writer, fds, size, pos, synced, lagged, mu, app, pc,
                  arg, held, appends, crashes>>
  BY DEF RemoveBlobs, CommitBatch, CommitBatchFails, endRemove, deleteMeta, deleteFails
<1>2. /\ index' \in [Blobs -> Rows]
      /\ \A b \in Blobs : index'[b] \in {NoRow, index[b]}
  <2>1. index' = index \/ \E m \in Removers : CommitBatch(m)
    BY DEF RemoveBlobs, CommitBatchFails, deleteMeta, deleteFails
  <2>2. CASE index' = index
    BY <2>2 DEF Inv, TypeOK
  <2>3. CASE \E m \in Removers : CommitBatch(m)
    BY <2>3 DEF CommitBatch, Inv, TypeOK, Rows
  <2> QED
    BY <2>1, <2>2, <2>3
<1> DEFINE Dats ==
              /\ dpc' \in [Goroutines -> {"off", "meta", "head", "zero", "done"}]
              /\ dat' \in [Goroutines -> Rows]
              /\ \A g \in Goroutines : dpc'[g] \in {"head", "zero"} =>
                    \/ dpc[g] = dpc'[g] /\ dat'[g] = dat[g]
                    \/ index[g[2]] # NoRow /\ dat'[g] = index[g[2]]
           Hist ==
              /\ acked' \subseteq Blobs /\ removal' \subseteq Blobs
              /\ overlap' \subseteq Receivers
<1>3. Dats
  <2>1. ASSUME NEW m \in Removers, NEW S \in SUBSET Blobs \ {{}}, RemoveBlobs(m, S)
        PROVE  Dats
    BY <2>1 DEF RemoveBlobs, Inv, TypeOK
  <2>2. ASSUME NEW m \in Removers, endRemove(m)
        PROVE  Dats
    BY <2>2 DEF endRemove, Inv, TypeOK, Rows
  <2>3. ASSUME NEW g \in Goroutines, deleteMeta(g)
        PROVE  Dats
    <3>1. g[2] \in Blobs
      BY DEF Goroutines
    <3>2. index[g[2]] \in Rows
      BY <3>1 DEF Inv, TypeOK
    <3> QED
      BY <2>3, <3>2 DEF deleteMeta, Inv, TypeOK
  <2>4. ASSUME NEW g \in Goroutines, deleteFails(g)
        PROVE  Dats
    BY <2>4 DEF deleteFails, Inv, TypeOK
  <2> QED
    BY <2>1, <2>2, <2>3, <2>4 DEF CommitBatch, CommitBatchFails
<1>4. Hist
  <2>1. ASSUME NEW m \in Removers, NEW S \in SUBSET Blobs \ {{}}, RemoveBlobs(m, S)
        PROVE  Hist
    BY <2>1 DEF RemoveBlobs, Inv, TypeOK
  <2>2. ASSUME NEW m \in Removers, CommitBatch(m) \/ CommitBatchFails(m)
        PROVE  Hist
    BY <2>2 DEF CommitBatch, CommitBatchFails, endRemove, Inv, TypeOK
  <2>3. ASSUME NEW g \in Goroutines, deleteMeta(g) \/ deleteFails(g)
        PROVE  Hist
    BY <2>3 DEF deleteMeta, deleteFails, Inv, TypeOK
  <2> QED
    BY <2>1, <2>2, <2>3
<1>5. TypeOK'
  BY <1>1, <1>2, <1>3, <1>4 DEF Inv, TypeOK
<1>6. FilesInv' /\ MuInv'
  BY <1>1 DEF Inv, FilesInv, MuInv
<1>7. RowsInv'
  <2>1. \A b \in Blobs : index'[b] # NoRow => index'[b] = index[b]
    BY <1>2
  <2> QED
    BY <1>1, <2>1, KeptFrame DEF Inv, RowsInv
<1>8. DatInv'
  <2> SUFFICES ASSUME NEW g \in Goroutines, dpc'[g] \in {"head", "zero"}
               PROVE  Kept(g[2], dat[g])'
    BY DEF DatInv
  <2>1. g[2] \in Blobs
    BY DEF Goroutines
  <2>2. Kept(g[2], dat'[g])
    BY <1>3, <2>1 DEF Inv, DatInv, RowsInv
  <2> QED
    BY <1>1, <2>2 DEF Kept, EntryIn, OutOfReach, File, Offset, Header, Body, Dead, Zero
<1>9. AppInv'
  BY <1>1 DEF Inv, AppInv, EntryIn, File, Offset, Header, Body, Dead, Zero
<1> QED
  BY <1>5, <1>6, <1>7, <1>8, <1>9 DEF Inv

\* delete overwrites the header, then the data, of the entry whose row it read.
LEMMA DeleteKeepsInv ==
    ASSUME Inv, NEW g \in Goroutines, overwriteHeader(g) \/ zeroData(g)
    PROVE  Inv'
<1> DEFINE r == dat[g]
<1>1. /\ dpc[g] \in {"head", "zero"}
      /\ UNCHANGED <<index, writer, fds, size, pos, synced, lagged, mu, app, pc, arg, held,
                     dat, acked, removal, overlap, appends, crashes>>
      /\ \/ dpc' = [dpc EXCEPT ![g] = "zero"]
         \/ dpc' = [dpc EXCEPT ![g] = "done"]
      /\ \/ packs' = [packs EXCEPT ![File(r)][Offset(r)] = Dead]
         \/ packs' = [packs EXCEPT ![File(r)][Offset(r) + 1] = Zero]
         \/ packs' = packs
  BY DEF overwriteHeader, zeroData, files, receiving, history, bounds
<1>2. g[2] \in Blobs /\ Kept(g[2], r) /\ packs \in Seq(Seq(Cells))
  BY <1>1 DEF Inv, DatInv, Goroutines, TypeOK
<1> DEFINE Q == packs'
           b0 == g[2]
<1>3. /\ Q \in Seq(Seq(Cells)) /\ Len(Q) = Len(packs)
      /\ \A f \in 1..Len(packs) : Len(Q[f]) = Len(packs[f])
      /\ \A a, f, i : HeaderAt(packs, a, f, i) => HeaderAt(Q, a, f, i)
      /\ \A a, s : EntryIn(packs, a, s) => EntryIn(Q, a, s)
  <2>1. CASE Q = packs
    BY <1>2, <2>1
  <2>2. CASE Q # packs
    <3>1. /\ EntryIn(packs, b0, r)
          /\ \/ Q = [packs EXCEPT ![File(r)][Offset(r)] = Dead]
             \/ Q = [packs EXCEPT ![File(r)][Offset(r) + 1] = Zero]
      BY <1>1, <1>2, <2>2 DEF Kept
    <3> HIDE DEF Q, r, b0
    <3>2. packs \in Seq(Seq(Cells))
      BY <1>2
    <3>3. Q \in Seq(Seq(Cells)) /\ Len(Q) = Len(packs)
      BY <3>1, <3>2, OverwriteKeeps
    <3>4. SameLengths(packs, Q)
      BY <3>1, <3>2, OverwriteKeeps
    <3>5. \A a, f, i : HeaderAt(packs, a, f, i) => HeaderAt(Q, a, f, i)
      BY <3>1, <3>2, OverwriteKeeps
    <3>6. \A a, s : EntryIn(packs, a, s) => EntryIn(Q, a, s)
      BY <3>1, <3>2, OverwriteKeeps
    <3> QED
      BY <3>3, <3>4, <3>5, <3>6, Zenon DEF SameLengths
  <2> QED
    BY <2>1, <2>2
<1>4. \A a, s : EntryIn(packs, a, s) => EntryIn(packs, a, s)'
  BY <1>3 DEF EntryIn, File, Offset, Header, Body, Dead, Zero
<1>5. \A a, s : Kept(a, s) => Kept(a, s)'
  BY <1>1, <1>4 DEF Kept, OutOfReach, File, Offset
<1>6. TypeOK'
  <2>1. dpc' \in [Goroutines -> {"off", "meta", "head", "zero", "done"}]
    BY <1>1 DEF Inv, TypeOK
  <2>2. packs' # << >> /\ packs' \in Seq(Seq(Cells)) /\ Len(packs') = Len(packs)
    BY <1>3 DEF Inv, TypeOK
  <2> QED
    BY <1>1, <2>1, <2>2 DEF Inv, TypeOK
<1>7. FilesInv' /\ MuInv'
  <2>1. \A f \in 1..Len(packs) : synced'[f] <= Len(packs'[f])
    BY <1>1, <1>3 DEF Inv, FilesInv
  <2> QED
    <3>1. writer # 0 => Len(packs'[writer]) = Len(packs[writer])
      BY <1>3 DEF Inv, TypeOK
    <3>2. FilesInv'
      BY <1>1, <1>3, <2>1, <3>1 DEF Inv, FilesInv
    <3>3. MuInv'
      BY <1>1 DEF Inv, MuInv
    <3> QED
      BY <3>2, <3>3
<1>8. RowsInv'
  BY <1>1, <1>5 DEF Inv, RowsInv
<1>9. DatInv'
  <2> SUFFICES ASSUME NEW h \in Goroutines, dpc'[h] \in {"head", "zero"}
               PROVE  Kept(h[2], dat[h])'
    BY DEF DatInv
  <2>1. dpc[h] \in {"head", "zero"}
    BY <1>1 DEF Inv, TypeOK
  <2> QED
    BY <1>1, <1>5, <2>1 DEF Inv, DatInv
<1>10. AppInv'
  <2> SUFFICES ASSUME NEW t \in Receivers, mu = t
               PROVE  /\ writer # 0 /\ size = pos
                      /\ app.offset = app.orig + 1
                      /\ pc[t] \in {"data", "sync"} => app.packIdx = 0
                      /\ pc[t] = "data" =>
                            /\ Len(packs'[writer]) = app.offset
                            /\ packs'[writer][app.offset] \in {Header(arg[t]), Dead}
                      /\ pc[t] = "sync" =>
                            EntryIn(packs', arg[t], <<writer, app.offset>>)
                      /\ pc[t] \in {"rotate", "set"} =>
                            /\ EntryIn(packs', arg[t], <<app.packIdx, app.offset>>)
                            /\ app.offset < synced[app.packIdx]
    BY <1>1 DEF AppInv, EntryIn, File, Offset, Header, Body, Dead, Zero
  <2>1. /\ writer # 0 /\ size = pos /\ app.offset = app.orig + 1
        /\ pc[t] \in {"data", "sync"} => app.packIdx = 0
    BY DEF Inv, AppInv
  <2>2. ASSUME pc[t] = "data"
        PROVE  /\ Len(packs'[writer]) = app.offset
               /\ packs'[writer][app.offset] \in {Header(arg[t]), Dead}
    <3>1. /\ Len(packs[writer]) = app.offset
          /\ packs[writer][app.offset] \in {Header(arg[t]), Dead}
      BY <2>2 DEF Inv, AppInv
    <3>2. writer \in 1..Len(packs) /\ app.orig \in Nat
      BY <2>1 DEF Inv, TypeOK
    <3>3. app.offset \in Nat /\ app.offset \in 1..Len(packs[writer])
      BY <2>1, <3>1, <3>2
    <3>4. HeaderAt(packs, arg[t], writer, app.offset)
      BY <3>1, <3>2, <3>3 DEF HeaderAt
    <3>5. HeaderAt(packs', arg[t], writer, app.offset)
      BY <1>3, <3>4
    <3> QED
      BY <1>3, <3>1, <3>2, <3>5 DEF HeaderAt
  <2>3. pc[t] = "sync" => EntryIn(packs', arg[t], <<writer, app.offset>>)
    BY <1>3 DEF Inv, AppInv
  <2>4. pc[t] \in {"rotate", "set"} =>
           /\ EntryIn(packs', arg[t], <<app.packIdx, app.offset>>)
           /\ app.offset < synced[app.packIdx]
    BY <1>3 DEF Inv, AppInv
  <2> QED
    BY <2>1, <2>2, <2>3, <2>4
<1> QED
  BY <1>6, <1>7, <1>8, <1>9, <1>10 DEF Inv

\* A power loss cuts a pack after what was synced.
LEMMA RestartKeepsInv ==
    ASSUME Inv, Restart
    PROVE  Inv'
<1>1. /\ mu' = Free /\ app' = NoAppend /\ overlap' = {} /\ crashes' = crashes + 1
      /\ pc' = [t \in Receivers |-> "idle"]
      /\ arg' = [t \in Receivers |-> NoBlob]
      /\ held' = [t \in Receivers |-> NoRow]
      /\ dpc' = [g \in Goroutines |-> "off"]
      /\ dat' = [g \in Goroutines |-> NoRow]
      /\ UNCHANGED <<index, acked, removal, lagged, appends>>
      /\ openAllPacks
  BY DEF Restart
<1>2. /\ packs \in Seq(Seq(Cells)) /\ packs # << >> /\ synced \in Seq(Nat)
      /\ Len(synced) = Len(packs) /\ Len(packs) \in Nat \ {0}
      /\ \A f \in 1..Len(packs) : synced[f] <= Len(packs[f])
  BY DEF Inv, TypeOK, FilesInv
<1>3. /\ packs' \in [1..Len(packs) -> UNION {Remains(f) : f \in 1..Len(packs)}]
      /\ \A f \in 1..Len(packs) : packs'[f] \in Remains(f)
  BY DEF Restart
<1>4. ASSUME NEW f \in 1..Len(packs), NEW p \in Remains(f)
      PROVE  /\ p \in Seq(Cells) /\ synced[f] <= Len(p)
             /\ \A i \in 1..synced[f] : (f = writer => i <= pos) => p[i] = packs[f][i]
  <2>1. /\ packs[f] \in Seq(Cells) /\ synced[f] \in Nat
        /\ synced[f] <= Len(packs[f]) /\ Len(packs[f]) \in Nat
        /\ pos \in Nat /\ pos + 1 \in Nat \ {0} /\ Junk \in Cells
    BY <1>2, CellTypes DEF Inv, TypeOK
  <2>2. CASE f = writer /\ p = WriteAt(packs[f], pos + 1, Junk)
    <3>1. /\ p \in Seq(Cells)
          /\ Len(p) = IF pos + 1 > Len(packs[f]) THEN pos + 1 ELSE Len(packs[f])
          /\ \A j \in 1..Len(packs[f]) : j # pos + 1 => p[j] = packs[f][j]
      <4>1. Wrote(p, packs[f], pos + 1, Junk)
        BY <2>1, <2>2, WriteAtFacts
      <4> QED
        BY <4>1 DEF Wrote
    <3>2. ASSUME NEW i \in 1..synced[f], i <= pos  PROVE p[i] = packs[f][i]
      BY <2>1, <3>1, <3>2
    <3>3. synced[f] <= Len(p)
      BY <2>1, <3>1
    <3> QED
      BY <2>2, <3>1, <3>2, <3>3
  <2>3. ASSUME NEW n \in synced[f]..Len(packs[f]), p = SubSeq(packs[f], 1, n)
        PROVE  /\ p \in Seq(Cells) /\ synced[f] <= Len(p)
               /\ \A i \in 1..synced[f] : (f = writer => i <= pos) => p[i] = packs[f][i]
    <3>1. n \in Nat /\ n <= Len(packs[f])
      BY <2>1
    <3>2. p \in Seq(Cells) /\ Len(p) = n /\ \A i \in 1..n : p[i] = packs[f][i]
      BY <2>1, <2>3, <3>1
    <3> QED
      BY <2>1, <3>1, <3>2
  <2> QED
    BY <2>2, <2>3 DEF Remains
<1>5. packs' \in Seq(Seq(Cells)) /\ Len(packs') = Len(packs)
  <2>1. \A f \in 1..Len(packs) : packs'[f] \in Seq(Cells)
    BY <1>3, <1>4
  <2>2. packs' = [f \in 1..Len(packs) |-> packs'[f]] /\ Len(packs) \in Nat
    BY <1>2, <1>3
  <2> QED
    BY <2>1, <2>2
<1>6. /\ fds' = Len(packs) /\ writer' = Len(packs)
      /\ size' = Len(packs'[Len(packs)]) /\ pos' = Len(packs'[Len(packs)])
      /\ synced' = [f \in 1..Len(packs) |-> Len(packs'[f])]
  BY <1>1, <1>5 DEF openAllPacks
<1>7. /\ synced' \in Seq(Nat) /\ Len(synced') = Len(packs)
      /\ size' \in Nat /\ pos' \in Nat
      /\ \A f \in 1..Len(packs) : synced'[f] = Len(packs'[f])
  <2>1. \A f \in 1..Len(packs) : Len(packs'[f]) \in Nat
    BY <1>5
  <2> QED
    BY <1>2, <1>6, <2>1
<1>8. TypeOK'
  <2>1. /\ packs' # << >> /\ writer' \in 0..Len(packs') /\ fds' \in 1..Len(packs')
        /\ app' \in [orig : Nat, offset : Nat, packIdx : Nat]
    BY <1>1, <1>2, <1>5, <1>6 DEF NoAppend
  <2>2. crashes' \in Nat /\ held' \in [Receivers -> Rows] /\ dat' \in [Goroutines -> Rows]
    BY <1>1 DEF Inv, TypeOK, Rows
  <2> QED
    BY <1>1, <1>5, <1>7, <2>1, <2>2 DEF Inv, TypeOK
<1>9. FilesInv'
  <2>1. \A f \in 1..Len(packs) : Len(packs'[f]) \in Nat
    BY <1>5
  <2> QED
    BY <1>5, <1>6, <1>7, <2>1 DEF FilesInv
<1>10. MuInv'
  BY <1>1, DiskpackedAssumption DEF MuInv, Writing
<1>11. RowsInv'
  <2> SUFFICES ASSUME NEW b \in Blobs, index[b] # NoRow  PROVE Kept(b, index[b])'
    BY <1>1 DEF RowsInv
  <2> DEFINE r == index[b]
             f == File(r)
             o == Offset(r)
  <2>1. /\ EntryIn(packs, b, r) /\ f \in 1..Len(packs)
        /\ o \in 1..(Len(packs[f]) - 1) /\ o < synced[f]
        /\ f = writer => o < pos
    BY DEF Inv, RowsInv, Kept, EntryIn, OutOfReach
  <2>2. packs'[f] \in Remains(f)
    BY <1>3, <2>1
  <2>3. /\ packs'[f] \in Seq(Cells) /\ synced[f] <= Len(packs'[f])
        /\ \A i \in 1..synced[f] : (f = writer => i <= pos) => packs'[f][i] = packs[f][i]
    BY <1>4, <2>1, <2>2
  <2>4. /\ synced[f] \in Nat /\ Len(packs'[f]) \in Nat /\ o \in Nat
        /\ o \in 1..synced[f] /\ o + 1 \in 1..synced[f]
        /\ o \in 1..(Len(packs'[f]) - 1)
        /\ f = writer => o <= pos /\ o + 1 <= pos
    <3>2. Len(packs[f]) \in Nat /\ pos \in Nat
      BY <1>2, <2>1 DEF Inv, TypeOK
    <3>3. synced[f] \in Nat
      BY <1>2, <2>1
    <3>4. Len(packs'[f]) \in Nat
      BY <2>3
    <3>1. o \in Nat /\ 1 <= o
      BY <2>1, <3>2
    <3> DEFINE s == synced[f]
               l == Len(packs'[f])
               p == pos
               isWriter == f = writer
    <3>5. /\ o \in Nat /\ s \in Nat /\ l \in Nat /\ p \in Nat
          /\ 1 <= o /\ o < s /\ s <= l /\ (isWriter => o < p)
      BY <2>1, <2>3, <3>1, <3>2, <3>3, <3>4
    <3> HIDE DEF o, s, l, p, isWriter
    <3>6. /\ s \in Nat /\ l \in Nat /\ o \in Nat
          /\ o \in 1..s /\ o + 1 \in 1..s /\ o \in 1..(l - 1)
          /\ isWriter => o <= p /\ o + 1 <= p
      BY ONLY <3>5
    <3> QED
      BY ONLY <3>6 DEF o, s, l, p, isWriter
  <2>5. packs'[f][o] = packs[f][o] /\ packs'[f][o + 1] = packs[f][o + 1]
    BY <2>3, <2>4
  <2>6. EntryIn(packs', b, r)
    BY <1>5, <2>1, <2>4, <2>5 DEF EntryIn
  <2>7. o < synced'[f] /\ (f = writer' => o < pos')
    BY <1>6, <1>7, <2>1, <2>4
  <2> QED
    BY <1>1, <2>6, <2>7 DEF Kept, EntryIn, OutOfReach, File, Offset, Header, Body, Dead, Zero
<1>12. DatInv'
  BY <1>1 DEF DatInv
<1> QED
  BY <1>1, <1>8, <1>9, <1>10, <1>11, <1>12, NobodyInside DEF Inv

-----------------------------------------------------------------------------
(* The theorems *)

\* The empty storage satisfies the invariant.
LEMMA InitInv == Init => Inv
<1> SUFFICES ASSUME Init  PROVE Inv
  OBVIOUS
<1>1. packs = << << >> >> /\ synced = <<0>>
  BY DEF Init
<1>2. /\ packs \in Seq(Seq(Cells)) /\ packs # << >> /\ Len(packs) = 1
      /\ packs[1] = << >> /\ synced \in Seq(Nat) /\ Len(synced) = 1 /\ synced[1] = 0
  BY <1>1
<1>3. TypeOK
  <2>1. /\ app \in [orig : Nat, offset : Nat, packIdx : Nat]
        /\ index \in [Blobs -> Rows] /\ held \in [Receivers -> Rows]
        /\ dat \in [Goroutines -> Rows]
    BY DEF Init, NoAppend, Rows
  <2>2. lagged \in BOOLEAN /\ mu \in Receivers \cup {Free}
    BY DEF Init
  <2>3. /\ pc \in [Receivers -> {"idle", "stat", "append"} \cup Writing]
        /\ arg \in [Receivers -> Blobs \cup {NoBlob}]
        /\ dpc \in [Goroutines -> {"off", "meta", "head", "zero", "done"}]
    BY DEF Init
  <2>4. /\ writer \in 0..Len(packs) /\ fds \in 1..Len(packs) /\ size \in Nat
        /\ pos \in Nat /\ appends \in Nat /\ crashes \in Nat
        /\ acked \subseteq Blobs /\ removal \subseteq Blobs /\ overlap \subseteq Receivers
    BY <1>2 DEF Init
  <2> QED
    BY <1>2, <2>1, <2>2, <2>3, <2>4 DEF TypeOK
<1>4. FilesInv
  BY <1>2 DEF Init, FilesInv
<1>5. MuInv /\ AppInv
  BY DiskpackedAssumption DEF Init, MuInv, AppInv, Writing
<1>6. RowsInv /\ DatInv
  BY DEF Init, RowsInv, DatInv
<1> QED
  BY <1>3, <1>4, <1>5, <1>6 DEF Inv

\* Every step keeps the invariant, unless it opens a pack for writing and not
\* for reading.
THEOREM DiskpackedInductive ==
    ASSUME Inv, [Next]_vars, ~lagged'
    PROVE  Inv'
<1>1. ASSUME NEW t \in Receivers,
             \/ \E b \in Blobs : ReceiveBlob(t, b)
             \/ foundDup(t) \/ notDup(t)
      PROVE  Inv'
  BY <1>1, CheckKeepsInv
<1>2. ASSUME NEW t \in Receivers, writeHeader(t)  PROVE Inv'
  BY <1>2, WriteHeaderKeepsInv
<1>3. ASSUME NEW t \in Receivers, badOffset(t) \/ writeHeaderFails(t)  PROVE Inv'
  BY <1>3, HeaderFailsKeepsInv
<1>4. ASSUME NEW t \in Receivers, writeData(t)  PROVE Inv'
  BY <1>4, WriteDataKeepsInv
<1>5. ASSUME NEW t \in Receivers, writeDataFails(t)  PROVE Inv'
  BY <1>5, WriteDataFailsKeepsInv
<1>6. ASSUME NEW t \in Receivers, Sync(t)  PROVE Inv'
  BY <1>6, SyncKeepsInv
<1>7. ASSUME NEW t \in Receivers, nextPack(t)  PROVE Inv'
  BY <1>7, NextPackKeepsInv
<1>8. ASSUME NEW t \in Receivers, nextPackFails(t)  PROVE Inv'
  BY <1>8, NextPackFailsKeepsInv
<1>9. ASSUME NEW t \in Receivers, setRow(t)  PROVE Inv'
  BY <1>9, SetRowKeepsInv
<1>10. ASSUME NEW t \in Receivers, setRowFails(t)  PROVE Inv'
  BY <1>10, SetRowFailsKeepsInv
<1>11. ASSUME \/ \E m \in Removers : \/ \E S \in SUBSET Blobs \ {{}} : RemoveBlobs(m, S)
                                     \/ CommitBatch(m)
                                     \/ CommitBatchFails(m)
              \/ \E g \in Goroutines : deleteMeta(g) \/ deleteFails(g)
       PROVE  Inv'
  BY <1>11, RemoveKeepsInv
<1>12. ASSUME NEW g \in Goroutines, overwriteHeader(g) \/ zeroData(g)  PROVE Inv'
  BY <1>12, DeleteKeepsInv
<1>13. CASE Restart
  BY <1>13, RestartKeepsInv
<1>14. CASE UNCHANGED vars
  <2>1. UNCHANGED <<packs, index, writer, fds, size, pos, synced, lagged, mu, app, pc,
                    arg, held, dpc, dat, acked, removal, overlap, appends, crashes>>
    BY <1>14 DEF vars, disk, files, receiving, removing, history, bounds
  <2>2. TypeOK'
    BY <2>1 DEF Inv, TypeOK
  <2>3. FilesInv' /\ MuInv'
    BY <2>1 DEF Inv, FilesInv, MuInv
  <2>4. RowsInv' /\ DatInv'
    BY <2>1, KeptFrame DEF Inv, RowsInv, DatInv
  <2>5. AppInv'
    BY <2>1, AppFrame DEF Inv
  <2> QED
    BY <2>2, <2>3, <2>4, <2>5 DEF Inv
<1> QED
  BY <1>1, <1>2, <1>3, <1>4, <1>5, <1>6, <1>7, <1>8, <1>9, <1>10, <1>11, <1>12, <1>13,
     <1>14 DEF Next

\* A pack that is not open for reading stays so in the rows it spoiled.
LEMMA LaggedStays ==
    ASSUME [Next]_vars, lagged  PROVE lagged'
BY DEF Next, vars, disk, files, ReceiveBlob, foundDup, notDup, writeHeader, badOffset,
       writeHeaderFails, beginAppend, writeData, writeDataFails, Sync, nextPack,
       nextPackFails, setRow, setRowFails, RemoveBlobs, CommitBatch, CommitBatchFails,
       endRemove, deleteMeta, overwriteHeader, zeroData, deleteFails, Restart

\* For any blobs, callers, faults, appends and restarts, and as long as nextPack
\* opened each new pack for reading too, a row of the index names the bytes of
\* its blob, or the zeroes a removal wrote over them: append, nextPack, the
\* rollback, delete and a power loss never make it name anything else.
THEOREM DiskpackedRowsIntact == Spec => []RowsIntact
<1> DEFINE LInv == lagged \/ Inv
<1>1. Init => LInv
  BY InitInv
<1>2. LInv /\ [Next]_vars => LInv'
  BY DiskpackedInductive, LaggedStays
<1>3. LInv => RowsIntact
  BY DEF Inv, RowsInv, Kept, EntryIn, RowsIntact, EntryOf
<1> QED
  BY <1>1, <1>2, <1>3, PTL DEF Spec

-----------------------------------------------------------------------------
(***************************************************************************)
(* A blob that diskpacked acknowledged, and nobody began to remove since,  *)
(* can be fetched.                                                         *)
(*                                                                         *)
(* A row names its blob's entry.  Here the entry is shown to hold data,    *)
(* not zeroes: only a removal of a blob zeroes the data of its entry, and  *)
(* while one runs the blob is in "removal", not in "acked", and every      *)
(* receive of it is in "overlap".                                          *)
(***************************************************************************)

\* The data row r names is that of b.
Live(b, r) == packs[File(r)][Offset(r) + 1] = Body(b)

\* What is known of a blob while RemoveBlobs runs for it.
RunInv ==
    \A b \in Blobs : Running(b) =>
        /\ b \in removal /\ b \notin acked
        /\ \A t \in Receivers : arg[t] = b => t \in overlap

\* An acknowledged blob has a row, and so has one a receive takes for a
\* duplicate.
AckRow == \A b \in acked : index[b] # NoRow
StatRow == \A t \in Receivers : pc[t] = "stat" /\ t \notin overlap => index[arg[t]] # NoRow

\* The rows of blobs nobody removes, and the entry being appended, have data.
LiveRows == \A b \in Blobs \ removal : index[b] # NoRow => Live(b, index[b])
LiveApp ==
    \A t \in Receivers : mu = t =>
        /\ pc[t] = "sync" => Live(arg[t], <<writer, app.offset>>)
        /\ pc[t] \in {"rotate", "set"} => Live(arg[t], <<app.packIdx, app.offset>>)

AckInv == RunInv /\ AckRow /\ StatRow /\ LiveRows /\ LiveApp

-----------------------------------------------------------------------------
(* The data that kept rows name stays where it is *)

\* The data cell of row r is left alone.
Same(r) == packs'[File(r)][Offset(r) + 1] = packs[File(r)][Offset(r) + 1]

\* A cell that is left alone keeps its data live.
LEMMA SameLive ==
    ASSUME NEW b, NEW r, Same(r), Live(b, r)
    PROVE  packs'[File(r)][Offset(r) + 1] = Body(b)
BY DEF Same, Live

\* Writes go after the rows.
LEMMA WriteSame ==
    ASSUME Inv, writer # 0, NEW c \in Cells, write(c), NEW b, NEW r, Kept(b, r)
    PROVE  Same(r)
<1> DEFINE p == packs[writer]
           q == WriteAt(p, pos + 1, c)
<1>1. /\ writer \in 1..Len(packs) /\ packs \in Seq(Seq(Cells)) /\ pos \in Nat
      /\ pos + 1 \in Nat \ {0} /\ p \in Seq(Cells) /\ Len(p) \in Nat
  BY DEF Inv, TypeOK
<1>2. packs' = [packs EXCEPT ![writer] = q]
  BY DEF write
<1>3. Wrote(q, p, pos + 1, c)
  BY <1>1, WriteAtFacts
<1> HIDE DEF q
<1>4. packs'[writer] = q /\ \A f \in 1..Len(packs) : f # writer => packs'[f] = packs[f]
  BY <1>1, <1>2
<1>5. /\ File(r) \in 1..Len(packs) /\ Offset(r) \in 1..(Len(packs[File(r)]) - 1)
      /\ File(r) = writer => Offset(r) < pos
  BY DEF Kept, EntryIn, OutOfReach
<1>6. CASE File(r) # writer
  BY <1>4, <1>5, <1>6 DEF Same
<1>7. CASE File(r) = writer
  <2>1. Offset(r) + 1 \in 1..Len(p) /\ Offset(r) + 1 # pos + 1
    BY <1>1, <1>5, <1>7
  <2>2. q[Offset(r) + 1] = p[Offset(r) + 1]
    BY <1>3, <2>1 DEF Wrote
  <2> QED
    BY <1>4, <1>7, <2>2 DEF Same
<1> QED
  BY <1>6, <1>7

\* The new pack comes after the others.
LEMMA NextPackSame ==
    ASSUME Inv, NEW t \in Receivers, nextPack(t), NEW r, File(r) \in 1..Len(packs)
    PROVE  Same(r)
<1>1. /\ packs' = Append(packs, << >>) /\ packs \in Seq(Seq(Cells))
  <2>1. openForWrite(fds + 1) /\ fds = Len(packs) /\ packs \in Seq(Seq(Cells))
    BY DEF nextPack, Inv, FilesInv, TypeOK
  <2> QED
    BY <2>1 DEF openForWrite
<1>2. packs'[File(r)] = packs[File(r)]
  BY <1>1
<1> QED
  BY <1>2 DEF Same

\* The rollback cuts after the rows.
LEMMA RollbackSame ==
    ASSUME Inv, NEW t \in Receivers, setRowFails(t), NEW b, NEW r, Kept(b, r)
    PROVE  Same(r)
<1> DEFINE n == app.orig
           cut == Truncate(packs[writer], n)
<1>1. mu = t /\ mu # Free /\ writer # 0
  <2>1. mu = t
    BY DEF setRowFails, unlock
  <2> QED
    BY <2>1, DiskpackedAssumption DEF Inv, AppInv
<1>2. packs' = [packs EXCEPT ![writer] = cut] \/ packs' = packs
  BY DEF setRowFails, rollback
<1>3. /\ writer \in 1..Len(packs) /\ packs \in Seq(Seq(Cells)) /\ n \in Nat
      /\ Len(packs[writer]) \in Nat
  <2>1. app \in [orig : Nat, offset : Nat, packIdx : Nat]
    BY DEF Inv, TypeOK
  <2> QED
    BY <1>1, <2>1 DEF Inv, TypeOK
<1>4. /\ File(r) \in 1..Len(packs) /\ Offset(r) \in 1..(Len(packs[File(r)]) - 1)
      /\ File(r) = writer => Offset(r) < n
  BY <1>1 DEF Kept, EntryIn, OutOfReach
<1>5. CASE packs' = packs \/ File(r) # writer
  <2> HIDE DEF cut
  <2> QED
    BY <1>2, <1>3, <1>4, <1>5 DEF Same
<1>6. CASE packs' = [packs EXCEPT ![writer] = cut] /\ File(r) = writer
  <2> DEFINE i == Offset(r) + 1
  <2>1. i \in 1..n /\ i <= Len(packs[writer])
    BY <1>3, <1>4, <1>6
  <2>2. cut[i] = packs[writer][i]
    BY <2>1 DEF Truncate
  <2> HIDE DEF cut
  <2>3. packs'[writer] = cut
    BY <1>3, <1>6
  <2> QED
    BY <1>6, <2>2, <2>3 DEF Same
<1> QED
  BY <1>2, <1>5, <1>6

\* A power loss cuts after what was synced.
LEMMA RestartSame ==
    ASSUME Inv, Restart, NEW b, NEW r, Kept(b, r)
    PROVE  Same(r)
<1> DEFINE f == File(r)
           i == Offset(r) + 1
<1>1. /\ packs \in Seq(Seq(Cells)) /\ synced \in Seq(Nat) /\ Len(synced) = Len(packs)
      /\ pos \in Nat /\ pos + 1 \in Nat \ {0}
      /\ f \in 1..Len(packs) /\ Offset(r) \in 1..(Len(packs[f]) - 1)
      /\ Offset(r) < synced[f] /\ (f = writer => Offset(r) < pos)
  BY DEF Inv, TypeOK, Kept, EntryIn, OutOfReach
<1>2. /\ packs[f] \in Seq(Cells) /\ Len(packs[f]) \in Nat /\ synced[f] \in Nat
      /\ Offset(r) \in Nat
  BY <1>1
<1>3. /\ i \in 1..Len(packs[f]) /\ i <= synced[f] /\ i \in Nat
      /\ f = writer => i # pos + 1
  <2> DEFINE o == Offset(r)
             s == synced[f]
             l == Len(packs[f])
             p == pos
             isWriter == f = writer
  <2>1. /\ o \in Nat /\ s \in Nat /\ l \in Nat /\ p \in Nat
        /\ o \in 1..(l - 1) /\ o < s /\ (isWriter => o < p)
    BY <1>1, <1>2
  <2> HIDE DEF o, s, l, p, isWriter
  <2>2. /\ o + 1 \in 1..l /\ o + 1 <= s /\ o + 1 \in Nat
        /\ isWriter => o + 1 # p + 1
    BY ONLY <2>1
  <2> QED
    BY ONLY <2>2 DEF o, s, l, p, isWriter
<1>4. packs'[f] \in Remains(f)
  BY <1>1 DEF Restart
<1>5. CASE f = writer /\ packs'[f] = WriteAt(packs[f], pos + 1, Junk)
  <2>1. Wrote(packs'[f], packs[f], pos + 1, Junk)
    BY <1>1, <1>2, <1>5, CellTypes, WriteAtFacts
  <2> QED
    BY <1>3, <1>5, <2>1 DEF Wrote, Same
<1>6. ASSUME NEW n \in synced[f]..Len(packs[f]), packs'[f] = SubSeq(packs[f], 1, n)
      PROVE  Same(r)
  <2>1. n \in Nat /\ n <= Len(packs[f]) /\ i \in 1..n
    BY <1>2, <1>3
  <2>2. SubSeq(packs[f], 1, n)[i] = packs[f][i]
    BY <1>2, <2>1
  <2> QED
    BY <1>6, <2>2 DEF Same
<1> QED
  BY <1>4, <1>5, <1>6 DEF Remains

-----------------------------------------------------------------------------
(* The bookkeeping *)

Book == RunInv /\ AckRow /\ StatRow

\* A receive that returns an error acknowledges nothing.
LEMMA ErrBook ==
    ASSUME Inv, AckInv, NEW t \in Receivers, returnErr(t), UNCHANGED <<index, dpc>>
    PROVE  Book'
<1>1. /\ \A u \in Receivers : u # t => pc'[u] = pc[u] /\ arg'[u] = arg[u]
      /\ pc'[t] = "idle" /\ arg'[t] = NoBlob
      /\ overlap' = overlap \ {t} /\ acked' = acked /\ removal' = removal
  BY DEF returnErr, Inv, TypeOK
<1>2. RunInv'
  BY <1>1, DiskpackedAssumption DEF AckInv, RunInv, Running
<1>3. AckRow'
  BY <1>1 DEF AckInv, AckRow
<1>4. StatRow'
  BY <1>1 DEF AckInv, StatRow
<1> QED
  BY <1>2, <1>3, <1>4 DEF Book

\* A receive that goes on, past the duplicate check.
LEMMA StayBook ==
    ASSUME Inv, AckInv, NEW t \in Receivers, NEW p, p # "stat",
           pc' = [pc EXCEPT ![t] = p],
           UNCHANGED <<index, dpc, arg, acked, removal, overlap>>
    PROVE  Book'
<1>1. \A u \in Receivers : pc'[u] = "stat" => pc[u] = "stat"
  BY DEF Inv, TypeOK
<1>2. RunInv'
  BY DEF AckInv, RunInv, Running
<1>3. AckRow' /\ StatRow'
  BY <1>1 DEF AckInv, AckRow, StatRow
<1> QED
  BY <1>2, <1>3 DEF Book

\* Rows whose data stays.
LEMMA RowsStay ==
    ASSUME AckInv, UNCHANGED <<index, removal>>,
           \A b \in Blobs : index[b] # NoRow => Same(index[b])
    PROVE  LiveRows'
<1> SUFFICES ASSUME NEW b \in Blobs \ removal, index[b] # NoRow
             PROVE  packs'[File(index[b])][Offset(index[b]) + 1] = Body(b)
  BY DEF LiveRows, Live, File, Offset, Body
<1>1. Live(b, index[b]) /\ Same(index[b])
  BY DEF AckInv, LiveRows
<1> QED
  BY <1>1, SameLive

LEMMA NobodyApp ==
    ASSUME mu' = Free  PROVE LiveApp'
<1>1. \A t \in Receivers : mu' # t
  BY DiskpackedAssumption
<1> QED
  BY <1>1 DEF LiveApp

\* Packs, append and receivers are left alone.
LEMMA LiveFrame ==
    ASSUME AckInv, UNCHANGED <<packs, mu, app, writer, pc, arg>>
    PROVE  LiveApp'
BY DEF AckInv, LiveApp, Live, File, Offset, Body

-----------------------------------------------------------------------------
(* The steps of ReceiveBlob *)

\* A blob that is being removed is received: the receive is in overlap.
LEMMA ReceiveKeepsAck ==
    ASSUME Inv, AckInv, NEW t \in Receivers, NEW b \in Blobs, ReceiveBlob(t, b)
    PROVE  AckInv'
<1>1. /\ UNCHANGED <<packs, index, writer, mu, app, dpc, acked, removal>>
      /\ pc[t] = "idle" /\ arg' = [arg EXCEPT ![t] = b]
      /\ overlap' = IF Running(b) THEN overlap \cup {t} ELSE overlap
      /\ \/ index[b] # NoRow /\ pc' = [pc EXCEPT ![t] = "stat"]
         \/ pc' = [pc EXCEPT ![t] = "append"]
  BY DEF ReceiveBlob, disk, files, removing
<1>2. /\ arg'[t] = b /\ \A u \in Receivers : u # t => arg'[u] = arg[u] /\ pc'[u] = pc[u]
      /\ pc'[t] \notin Writing
      /\ pc'[t] = "stat" => index[b] # NoRow
  BY <1>1 DEF Inv, TypeOK, Writing
<1>3. RunInv'
  <2>1. \A c \in Blobs : Running(c)' <=> Running(c)
    BY <1>1 DEF Running
  <2>2. overlap \subseteq overlap' /\ (Running(b) => t \in overlap')
    BY <1>1
  <2>3. RunInv /\ acked' = acked /\ removal' = removal
    BY <1>1 DEF AckInv
  <2> QED
    BY <1>2, <2>1, <2>2, <2>3 DEF RunInv
<1>4. AckRow' /\ StatRow'
  BY <1>1, <1>2 DEF AckInv, AckRow, StatRow
<1>5. LiveRows'
  BY <1>1, RowsStay DEF Same
<1>6. mu # t
  BY <1>1 DEF Inv, MuInv, Writing
<1>7. LiveApp'
  BY <1>1, <1>2, <1>6 DEF AckInv, LiveApp, Live, File, Offset, Body
<1> QED
  BY <1>3, <1>4, <1>5, <1>7 DEF AckInv

\* A duplicate is acknowledged: it has a row, unless a removal ran meanwhile.
LEMMA DupKeepsAck ==
    ASSUME Inv, AckInv, NEW t \in Receivers, foundDup(t)
    PROVE  AckInv'
<1>1. /\ UNCHANGED <<packs, index, writer, mu, app, dpc, removal>>
      /\ pc[t] = "stat" /\ pc' = [pc EXCEPT ![t] = "idle"]
      /\ arg' = [arg EXCEPT ![t] = NoBlob] /\ overlap' = overlap \ {t}
      /\ acked' = IF t \in overlap THEN acked ELSE acked \cup {arg[t]}
  BY DEF foundDup, returnNil, disk, files, removing
<1>2. /\ arg'[t] = NoBlob /\ pc'[t] = "idle"
      /\ \A u \in Receivers : u # t => arg'[u] = arg[u] /\ pc'[u] = pc[u]
  BY <1>1 DEF Inv, TypeOK
<1>3. RunInv'
  BY <1>1, <1>2, DiskpackedAssumption DEF AckInv, RunInv, Running
<1>4. AckRow' /\ StatRow'
  BY <1>1, <1>2 DEF AckInv, AckRow, StatRow
<1>5. LiveRows'
  BY <1>1, RowsStay DEF Same
<1>6. mu # t
  BY <1>1 DEF Inv, MuInv, Writing
<1>7. LiveApp'
  BY <1>1, <1>2, <1>6 DEF AckInv, LiveApp, Live, File, Offset, Body
<1> QED
  BY <1>3, <1>4, <1>5, <1>7 DEF AckInv

LEMMA NotDupKeepsAck ==
    ASSUME Inv, AckInv, NEW t \in Receivers, notDup(t)
    PROVE  AckInv'
<1>1. /\ UNCHANGED <<packs, index, writer, mu, app, dpc, arg, acked, removal, overlap>>
      /\ pc[t] = "stat" /\ pc' = [pc EXCEPT ![t] = "append"]
  BY DEF notDup, disk, files, removing, history
<1>2. Book'
  BY <1>1, StayBook
<1>3. LiveRows'
  BY <1>1, RowsStay DEF Same
<1>4. mu # t /\ \A u \in Receivers : u # t => pc'[u] = pc[u]
  BY <1>1 DEF Inv, MuInv, TypeOK, Writing
<1>5. LiveApp'
  BY <1>1, <1>4 DEF AckInv, LiveApp, Live, File, Offset, Body
<1> QED
  BY <1>2, <1>3, <1>5 DEF AckInv, Book

-----------------------------------------------------------------------------
(* The steps of append *)

\* What a write leaves: the rows keep their data.
LEMMA WriteRows ==
    ASSUME Inv, AckInv, writer # 0, NEW c \in Cells, write(c), UNCHANGED <<index, removal>>
    PROVE  LiveRows'
<1>1. \A b \in Blobs : index[b] # NoRow => Kept(b, index[b])
  BY DEF Inv, RowsInv
<1>2. \A b \in Blobs : index[b] # NoRow => Same(index[b])
  BY <1>1, WriteSame
<1> QED
  BY <1>2, RowsStay

LEMMA HeaderKeepsAck ==
    ASSUME Inv, AckInv, NEW t \in Receivers, writeHeader(t)
    PROVE  AckInv'
<1>1. /\ UNCHANGED <<index, writer, dpc, arg, acked, removal, overlap>>
      /\ writer # 0 /\ write(Header(arg[t])) /\ pc[t] = "append"
      /\ mu' = t /\ pc' = [pc EXCEPT ![t] = "data"]
  BY DEF writeHeader, beginAppend, removing, history
<1>2. Book'
  BY <1>1, StayBook
<1>3. arg[t] \in Blobs
  BY <1>1 DEF Inv, MuInv
<1>4. LiveRows'
  BY <1>1, <1>3, CellTypes, WriteRows
<1>5. pc'[t] = "data"
  BY <1>1 DEF Inv, TypeOK
<1>6. LiveApp'
  BY <1>1, <1>5 DEF LiveApp
<1> QED
  BY <1>2, <1>4, <1>6 DEF AckInv, Book

LEMMA HeaderFailsKeepsAck ==
    ASSUME Inv, AckInv, NEW t \in Receivers, badOffset(t) \/ writeHeaderFails(t)
    PROVE  AckInv'
<1>1. /\ UNCHANGED <<index, writer, mu, dpc>> /\ mu = Free /\ returnErr(t)
      /\ pc[t] = "append"
      /\ \/ writer # 0 /\ write(Header(arg[t]))
         \/ writer # 0 /\ write(Junk)
         \/ UNCHANGED packs
  BY DEF badOffset, writeHeaderFails, beginAppend, removing
<1>2. Book'
  BY <1>1, ErrBook
<1>3. arg[t] \in Blobs /\ UNCHANGED removal
  BY <1>1 DEF Inv, MuInv, returnErr
<1>4. LiveRows'
  <2>1. CASE UNCHANGED packs
    BY <1>1, <1>3, <2>1, RowsStay DEF Same
  <2>2. CASE writer # 0 /\ (write(Header(arg[t])) \/ write(Junk))
    BY <1>1, <1>3, <2>2, CellTypes, WriteRows
  <2> QED
    BY <1>1, <2>1, <2>2
<1>5. LiveApp'
  BY <1>1, NobodyApp
<1> QED
  BY <1>2, <1>4, <1>5 DEF AckInv, Book

\* The data is written where the header said it would be.
LEMMA DataKeepsAck ==
    ASSUME Inv, AckInv, NEW t \in Receivers, writeData(t)
    PROVE  AckInv'
<1>1. /\ UNCHANGED <<index, writer, mu, app, dpc, arg, acked, removal, overlap>>
      /\ write(Body(arg[t])) /\ pc[t] = "data" /\ mu = t
      /\ pc' = [pc EXCEPT ![t] = "sync"]
  BY DEF writeData, removing, history
<1>2. Book'
  BY <1>1, StayBook
<1>3. /\ arg[t] \in Blobs /\ writer # 0 /\ size = pos
      /\ Len(packs[writer]) = app.offset
  BY <1>1 DEF Inv, MuInv, AppInv
<1>4. LiveRows'
  BY <1>1, <1>3, CellTypes, WriteRows
<1>5. /\ writer \in 1..Len(packs) /\ packs \in Seq(Seq(Cells)) /\ pos \in Nat
      /\ pos + 1 \in Nat \ {0} /\ packs[writer] \in Seq(Cells) /\ pos = app.offset
  BY <1>1, <1>3 DEF Inv, TypeOK, FilesInv
<1> DEFINE q == WriteAt(packs[writer], pos + 1, Body(arg[t]))
<1>6. Wrote(q, packs[writer], pos + 1, Body(arg[t]))
  BY <1>3, <1>5, CellTypes, WriteAtFacts
<1>7. packs' = [packs EXCEPT ![writer] = q]
  BY <1>1 DEF write
<1> HIDE DEF q
<1>8. packs'[writer][app.offset + 1] = Body(arg[t])
  BY <1>5, <1>6, <1>7 DEF Wrote
<1>9. pc'[t] = "sync"
  BY <1>1 DEF Inv, TypeOK
<1>10. LiveApp'
  BY <1>1, <1>8, <1>9 DEF LiveApp, Live, File, Offset, Body
<1> QED
  BY <1>2, <1>4, <1>10 DEF AckInv, Book

LEMMA DataFailsKeepsAck ==
    ASSUME Inv, AckInv, NEW t \in Receivers, writeDataFails(t)
    PROVE  AckInv'
<1>1. /\ UNCHANGED <<packs, index, dpc>> /\ mu' = Free /\ returnErr(t)
  BY DEF writeDataFails, unlock, disk, removing
<1>2. Book' /\ UNCHANGED removal
  BY <1>1, ErrBook DEF returnErr
<1>3. LiveRows'
  BY <1>1, <1>2, RowsStay DEF Same
<1>4. LiveApp'
  BY <1>1, NobodyApp
<1> QED
  BY <1>2, <1>3, <1>4 DEF AckInv, Book

\* packIdx is the pack that was written to, because every pack is open.
LEMMA SyncKeepsAck ==
    ASSUME Inv, AckInv, NEW t \in Receivers, Sync(t)
    PROVE  AckInv'
<1> DEFINE p == IF size > MaxFileSize THEN "rotate" ELSE "set"
<1>1. /\ UNCHANGED <<packs, index, writer, mu, dpc, arg, acked, removal, overlap>>
      /\ pc[t] = "sync" /\ mu = t /\ app' = [app EXCEPT !.packIdx = fds]
      /\ pc' = [pc EXCEPT ![t] = p]
  BY DEF Sync, disk, removing, history
<1>2. p # "stat"
  OBVIOUS
<1> HIDE DEF p
<1>3. Book'
  BY <1>1, <1>2, StayBook
<1>4. LiveRows'
  BY <1>1, RowsStay DEF Same
<1>5. fds = writer /\ app'.packIdx = fds /\ app'.offset = app.offset
  BY <1>1 DEF Inv, TypeOK, FilesInv, AppInv
<1>6. Live(arg[t], <<writer, app.offset>>)
  BY <1>1 DEF AckInv, LiveApp
<1>7. pc'[t] = p /\ p # "sync"
  BY <1>1 DEF Inv, TypeOK, p
<1>8. LiveApp'
  BY <1>1, <1>5, <1>6, <1>7 DEF LiveApp, Live, File, Offset, Body
<1> QED
  BY <1>3, <1>4, <1>8 DEF AckInv, Book

LEMMA NextPackKeepsAck ==
    ASSUME Inv, AckInv, NEW t \in Receivers, nextPack(t)
    PROVE  AckInv'
<1>1. /\ UNCHANGED <<index, mu, app, dpc, arg, acked, removal, overlap>>
      /\ pc[t] = "rotate" /\ mu = t /\ pc' = [pc EXCEPT ![t] = "set"]
  BY DEF nextPack, removing, history
<1>2. Book'
  BY <1>1, StayBook
<1> DEFINE row == <<app.packIdx, app.offset>>
<1>3. \A b \in Blobs : index[b] # NoRow => File(index[b]) \in 1..Len(packs)
  BY DEF Inv, RowsInv, Kept, EntryIn
<1>4. LiveRows'
  BY <1>1, <1>3, NextPackSame, RowsStay
<1>5. EntryIn(packs, arg[t], row) /\ Live(arg[t], row)
  BY <1>1 DEF Inv, AppInv, AckInv, LiveApp
<1>6. Same(row)
  BY <1>5, NextPackSame DEF EntryIn
<1>7. packs'[File(row)][Offset(row) + 1] = Body(arg[t])
  BY <1>5, <1>6, SameLive
<1>8. pc'[t] = "set"
  BY <1>1 DEF Inv, TypeOK
<1>9. LiveApp'
  BY <1>1, <1>7, <1>8 DEF LiveApp, Live, File, Offset, Body
<1> QED
  BY <1>2, <1>4, <1>9 DEF AckInv, Book

LEMMA NextPackFailsKeepsAck ==
    ASSUME Inv, AckInv, ~lagged', NEW t \in Receivers, nextPackFails(t)
    PROVE  AckInv'
<1>1. /\ UNCHANGED <<packs, index, dpc>> /\ mu' = Free /\ returnErr(t)
  BY DEF nextPackFails, unlock, removing
<1>2. Book' /\ UNCHANGED removal
  BY <1>1, ErrBook DEF returnErr
<1>3. LiveRows'
  BY <1>1, <1>2, RowsStay DEF Same
<1>4. LiveApp'
  BY <1>1, NobodyApp
<1> QED
  BY <1>2, <1>3, <1>4 DEF AckInv, Book

\* The new row names the data just written, and only then the blob is
\* acknowledged.
LEMMA SetRowKeepsAck ==
    ASSUME Inv, AckInv, NEW t \in Receivers, setRow(t)
    PROVE  AckInv'
<1> DEFINE row == <<app.packIdx, app.offset>>
<1>1. /\ UNCHANGED <<packs, dpc, removal>> /\ mu = t /\ mu' = Free
      /\ pc[t] = "set" /\ pc' = [pc EXCEPT ![t] = "idle"]
      /\ index' = [index EXCEPT ![arg[t]] = row]
      /\ arg' = [arg EXCEPT ![t] = NoBlob] /\ overlap' = overlap \ {t}
      /\ acked' = IF t \in overlap THEN acked ELSE acked \cup {arg[t]}
  BY DEF setRow, unlock, returnNil, removing
<1>2. arg[t] \in Blobs /\ Live(arg[t], row)
  BY <1>1 DEF Inv, MuInv, AckInv, LiveApp
<1>3. row # NoRow
  <2>1. app \in [orig : Nat, offset : Nat, packIdx : Nat]
    BY DEF Inv, TypeOK
  <2> QED
    BY <2>1, DiskpackedAssumption
<1>4. /\ arg'[t] = NoBlob /\ pc'[t] = "idle"
      /\ \A u \in Receivers : u # t => arg'[u] = arg[u] /\ pc'[u] = pc[u]
  BY <1>1 DEF Inv, TypeOK
<1> HIDE DEF row
<1>5. /\ index'[arg[t]] = row
      /\ \A b \in Blobs : b # arg[t] => index'[b] = index[b]
  BY <1>1, <1>2 DEF Inv, TypeOK
<1>6. RunInv'
  BY <1>1, <1>4, DiskpackedAssumption DEF AckInv, RunInv, Running
<1>7. AckRow'
  BY <1>1, <1>2, <1>3, <1>5 DEF Inv, TypeOK, AckInv, AckRow
<1>8. StatRow'
  <2>1. SUFFICES ASSUME NEW u \in Receivers, pc'[u] = "stat", u \notin overlap'
                 PROVE  index'[arg'[u]] # NoRow
    BY DEF StatRow
  <2>2. u # t /\ pc[u] = "stat" /\ u \notin overlap /\ arg'[u] = arg[u]
    BY <1>1, <1>4, <2>1
  <2>3. arg[u] \in Blobs /\ index[arg[u]] # NoRow
    BY <2>2 DEF Inv, MuInv, AckInv, StatRow
  <2> QED
    BY <1>3, <1>5, <2>2, <2>3
<1>9. LiveRows'
  <2>1. SUFFICES ASSUME NEW b \in Blobs \ removal, index'[b] # NoRow
                 PROVE  packs[File(index'[b])][Offset(index'[b]) + 1] = Body(b)
    BY <1>1 DEF LiveRows, Live, File, Offset, Body
  <2>2. CASE b = arg[t]
    BY <1>2, <1>5, <2>2 DEF Live
  <2>3. CASE b # arg[t]
    BY <1>5, <2>1, <2>3 DEF AckInv, LiveRows, Live
  <2> QED
    BY <2>2, <2>3
<1>10. LiveApp'
  BY <1>1, NobodyApp
<1> QED
  BY <1>6, <1>7, <1>8, <1>9, <1>10 DEF AckInv

LEMMA SetRowFailsKeepsAck ==
    ASSUME Inv, AckInv, NEW t \in Receivers, setRowFails(t)
    PROVE  AckInv'
<1>1. /\ UNCHANGED <<index, dpc>> /\ mu' = Free /\ returnErr(t)
  BY DEF setRowFails, unlock, removing
<1>2. Book' /\ UNCHANGED removal
  BY <1>1, ErrBook DEF returnErr
<1>3. \A b \in Blobs : index[b] # NoRow => Kept(b, index[b])
  BY DEF Inv, RowsInv
<1>4. LiveRows'
  BY <1>1, <1>2, <1>3, RollbackSame, RowsStay
<1>5. LiveApp'
  BY <1>1, NobodyApp
<1> QED
  BY <1>2, <1>4, <1>5 DEF AckInv, Book

-----------------------------------------------------------------------------
(* The steps of RemoveBlobs, and the restart *)

\* A removal begins: its blobs are no longer acknowledged.
LEMMA RemoveKeepsAck ==
    ASSUME Inv, AckInv, NEW m \in Removers, NEW S \in SUBSET Blobs, RemoveBlobs(m, S)
    PROVE  AckInv'
<1>1. /\ UNCHANGED <<packs, index, writer, mu, app, pc, arg>>
      /\ dpc' = [g \in Goroutines |->
                    IF g[1] = m /\ g[2] \in S THEN "meta" ELSE dpc[g]]
      /\ acked' = acked \ S /\ removal' = removal \cup S
      /\ overlap' = overlap \cup {t \in Receivers : arg[t] \in S}
  BY DEF RemoveBlobs, disk, files, receiving
<1>2. \A b \in Blobs : Running(b)' => Running(b) \/ b \in S
  <2>1. SUFFICES ASSUME NEW b \in Blobs, NEW n \in Removers, dpc'[<<n, b>>] # "off",
                        b \notin S
                 PROVE  dpc[<<n, b>>] # "off"
    BY DEF Running
  <2>2. <<n, b>> \in Goroutines
    BY DEF Goroutines
  <2> QED
    BY <1>1, <2>1, <2>2
<1>3. RunInv'
  BY <1>1, <1>2 DEF AckInv, RunInv
<1>4. AckRow' /\ StatRow'
  BY <1>1 DEF AckInv, AckRow, StatRow
<1>5. LiveRows'
  BY <1>1 DEF AckInv, LiveRows, Live, File, Offset, Body
<1>6. LiveApp'
  BY <1>1, LiveFrame
<1> QED
  BY <1>3, <1>4, <1>5, <1>6 DEF AckInv

\* A step of delete leaves who is being removed as it was.
LEMMA DeleteBook ==
    ASSUME Inv, AckInv, NEW g \in Goroutines, NEW p, dpc[g] # "off",
           dpc' = [dpc EXCEPT ![g] = p],
           UNCHANGED <<index, arg, pc, acked, removal, overlap>>
    PROVE  Book'
<1>1. \A b \in Blobs : Running(b)' => Running(b)
  <2>1. SUFFICES ASSUME NEW b \in Blobs, NEW n \in Removers, dpc'[<<n, b>>] # "off"
                 PROVE  dpc[<<n, b>>] # "off"
    BY DEF Running
  <2>2. <<n, b>> \in Goroutines
    BY DEF Goroutines
  <2>3. <<n, b>> # g => dpc'[<<n, b>>] = dpc[<<n, b>>]
    BY <2>2 DEF Inv, TypeOK
  <2> QED
    BY <2>1, <2>3
<1>2. RunInv'
  BY <1>1 DEF AckInv, RunInv
<1>3. AckRow' /\ StatRow'
  BY DEF AckInv, AckRow, StatRow
<1> QED
  BY <1>2, <1>3 DEF Book

LEMMA DeleteMetaKeepsAck ==
    ASSUME Inv, AckInv, NEW g \in Goroutines, deleteMeta(g) \/ deleteFails(g)
    PROVE  AckInv'
<1>1. /\ UNCHANGED <<packs, index, writer, mu, app, pc, arg, acked, removal, overlap>>
      /\ dpc[g] # "off"
      /\ \/ dpc' = [dpc EXCEPT ![g] = "done"]
         \/ dpc' = [dpc EXCEPT ![g] = "head"]
  BY DEF deleteMeta, deleteFails, disk, files, receiving, history
<1>2. Book'
  BY <1>1, DeleteBook
<1>3. LiveRows'
  BY <1>1, RowsStay DEF Same
<1>4. LiveApp'
  BY <1>1, LiveFrame
<1> QED
  BY <1>2, <1>3, <1>4 DEF AckInv, Book

\* A cell that is not the data of r is overwritten.
LEMMA OverwriteSame ==
    ASSUME Inv, NEW f \in 1..Len(packs), NEW i \in 1..Len(packs[f]), NEW c \in Cells,
           packs' = [packs EXCEPT ![f][i] = c],
           NEW r, File(r) \in 1..Len(packs), Offset(r) \in Nat,
           File(r) # f \/ Offset(r) + 1 # i
    PROVE  Same(r)
<1>1. packs \in Seq(Seq(Cells)) /\ packs[f] \in Seq(Cells)
  BY DEF Inv, TypeOK
<1>2. CASE File(r) # f
  BY <1>1, <1>2 DEF Same
<1>3. CASE File(r) = f /\ Offset(r) + 1 # i
  <2>1. packs'[f] = [packs[f] EXCEPT ![i] = c]
    BY <1>1
  <2>2. packs'[f][Offset(r) + 1] = packs[f][Offset(r) + 1]
    BY <1>1, <1>3, <2>1
  <2> QED
    BY <1>3, <2>2 DEF Same
<1> QED
  BY <1>2, <1>3

\* delete overwrites the header of its own entry, or its data: the data of
\* another blob and that of the append under way stay.
LEMMA DeleteKeepsAck ==
    ASSUME Inv, AckInv, NEW g \in Goroutines, overwriteHeader(g) \/ zeroData(g)
    PROVE  AckInv'
<1> DEFINE r == dat[g]
           f == File(r)
           h == Offset(r)
<1>1. /\ UNCHANGED <<index, writer, mu, app, pc, arg, acked, removal, overlap>>
      /\ dpc[g] \in {"head", "zero"}
      /\ dpc' = [dpc EXCEPT ![g] = "zero"] \/ dpc' = [dpc EXCEPT ![g] = "done"]
      /\ \/ packs' = [packs EXCEPT ![f][h] = Dead]
         \/ packs' = [packs EXCEPT ![f][h + 1] = Zero]
         \/ packs' = packs
  BY DEF overwriteHeader, zeroData, files, receiving, history
<1>2. Book'
  BY <1>1, DeleteBook
<1>3. EntryIn(packs, g[2], r) /\ OutOfReach(r)
  BY <1>1 DEF Inv, DatInv, Kept
<1>4. /\ f \in 1..Len(packs) /\ h \in 1..Len(packs[f]) /\ h + 1 \in 1..Len(packs[f])
      /\ h \in Nat /\ packs[f][h] \in {Header(g[2]), Dead}
      /\ packs[f][h + 1] \in {Body(g[2]), Zero}
  <2>1. packs \in Seq(Seq(Cells)) /\ f \in 1..Len(packs) /\ h \in 1..(Len(packs[f]) - 1)
    BY <1>3 DEF EntryIn, Inv, TypeOK
  <2>2. Len(packs[f]) \in Nat
    BY <2>1
  <2>3. packs[f][h] \in {Header(g[2]), Dead} /\ packs[f][h + 1] \in {Body(g[2]), Zero}
    BY <1>3 DEF EntryIn
  <2>4. h \in Nat /\ h \in 1..Len(packs[f]) /\ h + 1 \in 1..Len(packs[f])
    <3> HIDE DEF f, h
    <3> QED
      BY <2>1, <2>2
  <2> QED
    BY <2>1, <2>3, <2>4
<1>5. g[2] \in removal
  <2>1. g[1] \in Removers /\ g[2] \in Blobs /\ g = <<g[1], g[2]>>
    BY DEF Goroutines
  <2>2. Running(g[2])
    BY <1>1, <2>1 DEF Running
  <2> QED
    BY <2>1, <2>2 DEF AckInv, RunInv
<1> HIDE DEF r, f, h
<1>6. ASSUME NEW s, File(s) \in 1..Len(packs), Offset(s) \in Nat,
             File(s) # f \/ Offset(s) # h, File(s) # f \/ Offset(s) + 1 # h
      PROVE  Same(s)
  <2>1. CASE packs' = [packs EXCEPT ![f][h] = Dead]
    BY <1>4, <1>6, <2>1, CellTypes, OverwriteSame
  <2>2. CASE packs' = [packs EXCEPT ![f][h + 1] = Zero]
    <3>1. File(s) # f \/ Offset(s) + 1 # h + 1
      <4>1. h \in Nat /\ Offset(s) \in Nat /\ (File(s) # f \/ Offset(s) # h)
        BY <1>4, <1>6
      <4> QED
        BY <4>1
    <3> QED
      BY <1>4, <1>6, <2>2, <3>1, CellTypes, OverwriteSame
  <2>3. CASE packs' = packs
    BY <2>3 DEF Same
  <2> QED
    BY <1>1, <2>1, <2>2, <2>3
<1>7. LiveRows'
  <2>1. SUFFICES ASSUME NEW b \in Blobs \ removal, index[b] # NoRow
                 PROVE  packs'[File(index[b])][Offset(index[b]) + 1] = Body(b)
    BY <1>1 DEF LiveRows, Live, File, Offset, Body
  <2> DEFINE s == index[b]
  <2>2. Live(b, s) /\ File(s) \in 1..Len(packs) /\ Offset(s) \in Nat
    <3>1. Live(b, s)
      BY <2>1 DEF AckInv, LiveRows
    <3>2. EntryIn(packs, b, s)
      BY <2>1 DEF Inv, RowsInv, Kept
    <3>3. File(s) \in 1..Len(packs) /\ Offset(s) \in 1..(Len(packs[File(s)]) - 1)
      BY <3>2 DEF EntryIn
    <3> HIDE DEF s
    <3> QED
      BY <3>1, <3>3
  <2>3. /\ packs[f][h] # Body(b) /\ packs[f][h + 1] # Body(b)
    BY <1>4, <1>5, <2>1 DEF Header, Dead, Body, Zero
  <2>4. File(s) # f \/ Offset(s) # h
    BY <2>2, <2>3 DEF Live
  <2>5. File(s) # f \/ Offset(s) + 1 # h
    BY <2>2, <2>3 DEF Live
  <2>6. Same(s)
    BY <1>6, <2>2, <2>4, <2>5
  <2> QED
    BY <2>2, <2>6, SameLive
<1>8. LiveApp'
  <2>1. SUFFICES ASSUME NEW t \in Receivers, mu = t, pc[t] \in {"sync", "rotate", "set"},
                        NEW k, k = IF pc[t] = "sync" THEN writer ELSE app.packIdx
                 PROVE  packs'[k][app.offset + 1] = Body(arg[t])
    BY <1>1 DEF LiveApp, Live, File, Offset, Body
  <2> DEFINE s == <<k, app.offset>>
  <2>2. Live(arg[t], s) /\ EntryIn(packs, arg[t], s) /\ app.offset = app.orig + 1
    BY <2>1 DEF AckInv, LiveApp, Inv, AppInv
  <2>3. app.orig \in Nat /\ k \in 1..Len(packs) /\ mu # Free
    <3>1. app \in [orig : Nat, offset : Nat, packIdx : Nat]
      BY DEF Inv, TypeOK
    <3> QED
      BY <2>1, <2>2, <3>1, DiskpackedAssumption DEF EntryIn, File
  <2>4. f = k => h < app.orig
    BY <1>3, <2>1, <2>3 DEF OutOfReach, f, h
  <2>5. Same(s)
    <3>1. File(s) = k /\ Offset(s) = app.orig + 1
      BY <2>2 DEF File, Offset
    <3>2. h \in Nat /\ Offset(s) \in Nat /\ File(s) \in 1..Len(packs)
      BY <1>4, <2>3, <3>1
    <3>3. File(s) # f \/ (Offset(s) # h /\ Offset(s) + 1 # h)
      BY <2>3, <2>4, <3>1, <3>2
    <3> HIDE DEF s
    <3> QED
      BY <1>6, <3>2, <3>3
  <2>6. packs'[File(s)][Offset(s) + 1] = Body(arg[t])
    BY <2>2, <2>5, SameLive
  <2> QED
    BY <2>6 DEF File, Offset
<1> QED
  BY <1>2, <1>7, <1>8 DEF AckInv, Book

\* The rows of a removal go; a blob that was acknowledged, or whose duplicate
\* check counts, is not among them.
LEMMA CommitKeepsAck ==
    ASSUME Inv, AckInv, NEW m \in Removers, CommitBatch(m) \/ CommitBatchFails(m)
    PROVE  AckInv'
<1>1. /\ UNCHANGED <<packs, writer, mu, app, pc, arg, acked, overlap>>
      /\ dpc' = [g \in Goroutines |-> IF g[1] = m THEN "off" ELSE dpc[g]]
  BY DEF CommitBatch, CommitBatchFails, endRemove, files, receiving
<1>2. \A b \in Blobs : Running(b)' =>
            Running(b) /\ \E n \in Removers \ {m} : dpc[<<n, b>>] # "off"
  <2>1. SUFFICES ASSUME NEW b \in Blobs, NEW n \in Removers, dpc'[<<n, b>>] # "off"
                 PROVE  n # m /\ dpc[<<n, b>>] # "off"
    BY DEF Running
  <2>2. <<n, b>> \in Goroutines
    BY DEF Goroutines
  <2> QED
    BY <1>1, <2>1, <2>2
<1>3. \A b \in InCall(m) : Running(b)
  BY DEF InCall, Running
<1>4. /\ \A b \in Blobs \ InCall(m) : index'[b] = index[b] /\ (b \in removal' <=> b \in removal)
      /\ \A b \in InCall(m) : index'[b] = NoRow \/ (index'[b] = index[b] /\ b \in removal')
      /\ \A b \in removal : (\E n \in Removers \ {m} : dpc[<<n, b>>] # "off") => b \in removal'
  <2>1. CASE CommitBatchFails(m)
    <3>1. index' = index /\ removal' = removal
      BY <2>1 DEF CommitBatchFails
    <3>2. \A b \in InCall(m) : b \in removal
      BY <1>3 DEF AckInv, RunInv, InCall
    <3> QED
      BY <3>1, <3>2
  <2>2. CASE CommitBatch(m)
    <3>1. /\ index' = [b \in Blobs |-> IF b \in InCall(m) THEN NoRow ELSE index[b]]
          /\ removal' = removal \ {b \in InCall(m) :
                             \A n \in Removers \ {m} : dpc[<<n, b>>] = "off"}
      BY <2>2 DEF CommitBatch
    <3>2. InCall(m) \subseteq Blobs
      BY DEF InCall
    <3> QED
      BY <3>1, <3>2
  <2> QED
    BY <2>1, <2>2
<1>5. RunInv'
  BY <1>1, <1>2, <1>4 DEF AckInv, RunInv
<1>6. \A b \in acked : b \notin InCall(m)
  BY <1>3 DEF AckInv, RunInv, InCall
<1>7. AckRow'
  BY <1>1, <1>4, <1>6 DEF AckInv, AckRow, Inv, TypeOK
<1>8. StatRow'
  <2>1. SUFFICES ASSUME NEW t \in Receivers, pc[t] = "stat", t \notin overlap
                 PROVE  index'[arg[t]] # NoRow
    BY <1>1 DEF StatRow
  <2>2. arg[t] \in Blobs /\ index[arg[t]] # NoRow
    BY <2>1 DEF Inv, MuInv, AckInv, StatRow
  <2>3. arg[t] \notin InCall(m)
    BY <1>3, <2>1, <2>2 DEF AckInv, RunInv
  <2> QED
    BY <1>4, <2>2, <2>3
<1>9. LiveRows'
  <2>1. SUFFICES ASSUME NEW b \in Blobs, b \notin removal', index'[b] # NoRow
                 PROVE  packs[File(index'[b])][Offset(index'[b]) + 1] = Body(b)
    BY <1>1 DEF LiveRows, Live, File, Offset, Body
  <2>2. b \notin removal /\ index'[b] = index[b]
    BY <1>4, <2>1
  <2> QED
    BY <2>1, <2>2 DEF AckInv, LiveRows, Live
<1>10. LiveApp'
  BY <1>1, LiveFrame
<1> QED
  BY <1>5, <1>7, <1>8, <1>9, <1>10 DEF AckInv

LEMMA RestartKeepsAck ==
    ASSUME Inv, AckInv, Restart
    PROVE  AckInv'
<1>1. /\ UNCHANGED <<index, acked, removal>> /\ mu' = Free
      /\ pc' = [t \in Receivers |-> "idle"]
      /\ dpc' = [g \in Goroutines |-> "off"]
  BY DEF Restart
<1>2. \A b \in Blobs : ~Running(b)'
  BY <1>1 DEF Running, Goroutines
<1>3. RunInv' /\ AckRow' /\ StatRow'
  BY <1>1, <1>2 DEF AckInv, RunInv, AckRow, StatRow
<1>4. \A b \in Blobs : index[b] # NoRow => Kept(b, index[b])
  BY DEF Inv, RowsInv
<1>5. LiveRows'
  BY <1>1, <1>4, RestartSame, RowsStay
<1>6. LiveApp'
  BY <1>1, NobodyApp
<1> QED
  BY <1>3, <1>5, <1>6 DEF AckInv

-----------------------------------------------------------------------------
\* What is known of acknowledged blobs stays known as long as nextPack opened
\* each new pack for reading too.
LEMMA AckInductive ==
    ASSUME Inv, AckInv, [Next]_vars, ~lagged'
    PROVE  AckInv'
<1>1. ASSUME NEW t \in Receivers, NEW b \in Blobs, ReceiveBlob(t, b)  PROVE AckInv'
  BY <1>1, ReceiveKeepsAck
<1>2. ASSUME NEW t \in Receivers, foundDup(t) \/ notDup(t)  PROVE AckInv'
  BY <1>2, DupKeepsAck, NotDupKeepsAck
<1>3. ASSUME NEW t \in Receivers, writeHeader(t) \/ badOffset(t) \/ writeHeaderFails(t)
      PROVE  AckInv'
  BY <1>3, HeaderKeepsAck, HeaderFailsKeepsAck
<1>4. ASSUME NEW t \in Receivers, writeData(t) \/ writeDataFails(t) \/ Sync(t)
      PROVE  AckInv'
  BY <1>4, DataKeepsAck, DataFailsKeepsAck, SyncKeepsAck
<1>5. ASSUME NEW t \in Receivers, nextPack(t) \/ nextPackFails(t)  PROVE AckInv'
  BY <1>5, NextPackKeepsAck, NextPackFailsKeepsAck
<1>6. ASSUME NEW t \in Receivers, setRow(t) \/ setRowFails(t)  PROVE AckInv'
  BY <1>6, SetRowKeepsAck, SetRowFailsKeepsAck
<1>7. ASSUME NEW m \in Removers, NEW S \in SUBSET Blobs, RemoveBlobs(m, S)  PROVE AckInv'
  BY <1>7, RemoveKeepsAck
<1>8. ASSUME NEW m \in Removers, CommitBatch(m) \/ CommitBatchFails(m)  PROVE AckInv'
  BY <1>8, CommitKeepsAck
<1>9. ASSUME NEW g \in Goroutines, deleteMeta(g) \/ deleteFails(g)  PROVE AckInv'
  BY <1>9, DeleteMetaKeepsAck
<1>10. ASSUME NEW g \in Goroutines, overwriteHeader(g) \/ zeroData(g)  PROVE AckInv'
  BY <1>10, DeleteKeepsAck
<1>11. CASE UNCHANGED vars
  <2>1. /\ UNCHANGED <<packs, index, writer, mu, app, pc, arg, dpc>>
        /\ UNCHANGED <<acked, removal, overlap>>
    BY <1>11 DEF vars, disk, files, receiving, removing, history
  <2>2. LiveRows' /\ LiveApp'
    BY <2>1, RowsStay, LiveFrame DEF Same
  <2>3. RunInv' /\ AckRow' /\ StatRow'
    BY <2>1 DEF AckInv, RunInv, AckRow, StatRow, Running
  <2> QED
    BY <2>2, <2>3 DEF AckInv
<1> QED
  BY <1>1, <1>2, <1>3, <1>4, <1>5, <1>6, <1>7, <1>8, <1>9, <1>10, <1>11,
     RestartKeepsAck DEF Next

\* For any blobs, callers, faults, appends and restarts: a blob ReceiveBlob
\* acknowledged, that nobody began to remove since, can be fetched, as long as
\* nextPack opened each new pack for reading too.
THEOREM DiskpackedAckedReadable == Spec => []AckedReadable
<1> DEFINE LInv == lagged \/ (Inv /\ AckInv)
<1>1. Init => LInv
  <2> SUFFICES ASSUME Init  PROVE AckInv
    BY InitInv
  <2>1. \A b \in Blobs : ~Running(b)
    BY DEF Init, Running, Goroutines
  <2>2. mu = Free /\ \A t \in Receivers : mu # t /\ pc[t] = "idle"
    BY DiskpackedAssumption DEF Init
  <2> QED
    BY <2>1, <2>2 DEF Init, AckInv, RunInv, AckRow, StatRow, LiveRows, LiveApp
<1>2. LInv /\ [Next]_vars => LInv'
  BY DiskpackedInductive, AckInductive, LaggedStays
<1>3. LInv => AckedReadable
  <2> SUFFICES ASSUME Inv, AckInv, NEW b \in acked \ removal  PROVE Readable(b)
    BY DEF AckedReadable
  <2>1. b \in Blobs /\ index[b] # NoRow
    BY DEF Inv, TypeOK, AckInv, AckRow
  <2>2. EntryIn(packs, b, index[b]) /\ Live(b, index[b])
    BY <2>1 DEF Inv, RowsInv, Kept, AckInv, LiveRows
  <2>3. fds = Len(packs) /\ packs \in Seq(Seq(Cells))
    BY DEF Inv, FilesInv, TypeOK
  <2>4. /\ File(index[b]) \in 1..Len(packs)
        /\ Offset(index[b]) \in 1..(Len(packs[File(index[b])]) - 1)
    BY <2>2 DEF EntryIn
  <2>5. Len(packs[File(index[b])]) \in Nat
    BY <2>3, <2>4
  <2>6. File(index[b]) <= fds
    BY <2>3, <2>4
  <2>7. Offset(index[b]) < Len(packs[File(index[b])])
    BY <2>4, <2>5
  <2> QED
    BY <2>1, <2>2, <2>6, <2>7 DEF Readable, Live
<1> QED
  BY <1>1, <1>2, <1>3, PTL DEF Spec
-----------------------------------------------------------------------------
(***************************************************************************)
(* The types hold whatever fails, a pack that is not open for reading      *)
(* (lagged) included.  A row may then name the bytes of another blob, but  *)
(* every row, and every row a delete holds, still names a pack that is on  *)
(* disk, and s.writer is open while an append is under way.                *)
(***************************************************************************)

\* The types of the packs and of what is known of them.
FileTypes ==
    /\ packs \in Seq(Seq(Cells)) /\ packs # << >>
    /\ writer \in 0..Len(packs) /\ fds \in 1..Len(packs)
    /\ size \in Nat /\ pos \in Nat
    /\ synced \in Seq(Nat) /\ Len(synced) = Len(packs)

\* The packs that rows, deletes and the append under way name are on disk.
Sites ==
    /\ \A b \in Blobs : index[b] # NoRow => File(index[b]) \in 1..Len(packs)
    /\ \A g \in Goroutines : dpc[g] \in {"head", "zero"} => File(dat[g]) \in 1..Len(packs)
    /\ \A t \in Receivers : pc[t] \in Writing => writer # 0
    /\ \A t \in Receivers : pc[t] \in {"rotate", "set"} => app.packIdx \in 1..Len(packs)

\* The inductive invariant of the types.
TypesInv == TypeOK /\ MuInv /\ Sites

\* A write changes the pack of the writer only.
LEMMA WriteTypes ==
    ASSUME FileTypes, writer # 0, NEW c \in Cells, write(c),
           UNCHANGED <<writer, fds, synced>>
    PROVE  FileTypes' /\ Len(packs') = Len(packs)
<1>1. /\ writer \in 1..Len(packs) /\ packs \in Seq(Seq(Cells)) /\ pos \in Nat
      /\ size \in Nat /\ pos + 1 \in Nat \ {0}
  BY DEF FileTypes
<1> DEFINE q == WriteAt(packs[writer], pos + 1, c)
<1>2. /\ packs' = [packs EXCEPT ![writer] = q]
      /\ size' = size + 1 /\ pos' = pos + 1
  BY DEF write
<1>3. packs[writer] \in Seq(Cells)
  BY <1>1
<1>4. q \in Seq(Cells)
  BY <1>1, <1>3, WriteAtFacts DEF Wrote
<1> HIDE DEF q
<1>5. packs' \in Seq(Seq(Cells)) /\ Len(packs') = Len(packs)
  BY <1>1, <1>2, <1>4
<1>6. size' \in Nat /\ pos' \in Nat
  BY <1>1, <1>2
<1>7. Len(packs) # 0 /\ Len(packs') # 0
  BY <1>1, <1>5
<1>8. packs' # << >>
  BY <1>7
<1> QED
  BY <1>5, <1>6, <1>8 DEF FileTypes

\* openForWrite adds a pack at most, and opens one that is on disk.
LEMMA OpenTypes ==
    ASSUME FileTypes, openForWrite(fds + 1), fds' \in {fds, fds + 1}
    PROVE  FileTypes' /\ Len(packs') \in Nat /\ Len(packs') >= Len(packs) /\ writer' # 0
<1>1. /\ fds \in 1..Len(packs) /\ packs \in Seq(Seq(Cells)) /\ Len(packs) \in Nat
      /\ synced \in Seq(Nat) /\ Len(synced) = Len(packs) /\ fds + 1 \in Nat \ {0}
      /\ packs # << >>
  BY DEF FileTypes
<1>2. /\ writer' = fds + 1 /\ size' = Len(packs'[fds + 1]) /\ pos' = Len(packs'[fds + 1])
      /\ packs' = IF fds + 1 > Len(packs) THEN Append(packs, << >>) ELSE packs
      /\ synced' = IF fds + 1 > Len(packs) THEN Append(synced, 0) ELSE synced
  BY DEF openForWrite
<1>3. /\ packs' \in Seq(Seq(Cells)) /\ synced' \in Seq(Nat) /\ Len(synced') = Len(packs')
      /\ fds + 1 \in 1..Len(packs') /\ Len(packs') >= Len(packs) /\ Len(packs') \in Nat
  <2>1. CASE fds + 1 > Len(packs)
    <3>1. << >> \in Seq(Cells) /\ 0 \in Nat /\ fds = Len(packs)
      BY <1>1, <2>1
    <3>2. packs' = Append(packs, << >>) /\ synced' = Append(synced, 0)
      BY <1>2, <2>1
    <3>3. packs' \in Seq(Seq(Cells)) /\ Len(packs') = Len(packs) + 1
      BY <1>1, <3>1, <3>2
    <3>4. synced' \in Seq(Nat) /\ Len(synced') = Len(synced) + 1
      BY <1>1, <3>1, <3>2
    <3> QED
      BY <1>1, <3>1, <3>3, <3>4
  <2>2. CASE ~(fds + 1 > Len(packs))
    BY <1>1, <1>2, <2>2
  <2> QED
    BY <2>1, <2>2
<1>4. size' \in Nat /\ pos' \in Nat
  <2>1. packs'[fds + 1] \in Seq(Cells)
    BY <1>3
  <2> QED
    BY <1>2, <2>1
<1>5. packs' # << >>
  BY <1>1, <1>3
<1>6. writer' \in 0..Len(packs') /\ fds' \in 1..Len(packs') /\ writer' # 0
  BY <1>1, <1>2, <1>3
<1> QED
  BY <1>3, <1>4, <1>5, <1>6 DEF FileTypes

\* The rollback cuts the pack of the writer, or lengthens it.
LEMMA RollbackTypes ==
    ASSUME FileTypes, writer # 0, app.orig \in Nat, rollback, UNCHANGED <<writer, fds>>
    PROVE  FileTypes' /\ Len(packs') = Len(packs)
<1>1. /\ writer \in 1..Len(packs) /\ packs \in Seq(Seq(Cells)) /\ packs # << >>
      /\ synced \in Seq(Nat) /\ Len(synced) = Len(packs) /\ Len(packs) \in Nat
  BY DEF FileTypes
<1> DEFINE p == packs[writer]
           q == Truncate(p, app.orig)
           m == IF synced[writer] < app.orig THEN synced[writer] ELSE app.orig
<1>2. p \in Seq(Cells) /\ synced[writer] \in Nat
  BY <1>1
<1>3. q \in Seq(Cells)
  <2>1. q = [i \in 1..app.orig |-> IF i <= Len(p) THEN p[i] ELSE Zero]
    BY DEF Truncate
  <2>2. \A i \in 1..app.orig : (IF i <= Len(p) THEN p[i] ELSE Zero) \in Cells
    <3> HIDE DEF p
    <3> QED
      BY <1>2, CellTypes
  <2> QED
    BY <2>1, <2>2
<1>4. m \in Nat
  BY <1>2
<1> HIDE DEF q, m
<1>5. CASE /\ packs' = [packs EXCEPT ![writer] = q] /\ size' = app.orig
           /\ pos' = app.orig /\ synced' = [synced EXCEPT ![writer] = m]
  <2>1. packs' \in Seq(Seq(Cells)) /\ Len(packs') = Len(packs)
    BY <1>1, <1>3, <1>5
  <2>2. synced' \in Seq(Nat) /\ Len(synced') = Len(synced)
    BY <1>1, <1>4, <1>5
  <2>3. packs' # << >>
    BY <1>1, <2>1
  <2> QED
    BY <1>1, <1>5, <2>1, <2>2, <2>3 DEF FileTypes
<1>6. CASE UNCHANGED <<packs, size, synced>> /\ (pos' = pos \/ pos' = app.orig)
  BY <1>6 DEF FileTypes
<1> QED
  BY <1>5, <1>6 DEF rollback, q, m

\* delete overwrites one cell.
LEMMA OverwriteTypes ==
    ASSUME FileTypes, NEW f \in 1..Len(packs), NEW h \in DOMAIN packs[f], NEW c \in Cells,
           packs' = [packs EXCEPT ![f][h] = c],
           UNCHANGED <<writer, fds, size, pos, synced>>
    PROVE  FileTypes' /\ Len(packs') = Len(packs)
<1>1. packs \in Seq(Seq(Cells)) /\ packs # << >>
  BY DEF FileTypes
<1> DEFINE q == [packs[f] EXCEPT ![h] = c]
<1>2. q \in Seq(Cells)
  <2>1. packs[f] \in Seq(Cells)
    BY <1>1
  <2> QED
    BY <2>1
<1>3. packs' = [packs EXCEPT ![f] = q]
  OBVIOUS
<1> HIDE DEF q
<1>4. packs' \in Seq(Seq(Cells)) /\ Len(packs') = Len(packs)
  BY <1>1, <1>2, <1>3
<1>5. packs' # << >>
  BY <1>1, <1>4
<1> QED
  BY <1>4, <1>5 DEF FileTypes
\* A power loss leaves cells of the packs, and part of a header.
LEMMA RestartTypes ==
    ASSUME FileTypes, Restart
    PROVE  FileTypes' /\ Len(packs') = Len(packs)
<1>1. /\ packs \in Seq(Seq(Cells)) /\ packs # << >> /\ synced \in Seq(Nat)
      /\ Len(synced) = Len(packs) /\ Len(packs) \in Nat \ {0}
      /\ pos \in Nat /\ pos + 1 \in Nat \ {0}
  BY DEF FileTypes
<1>2. /\ packs' \in [1..Len(packs) -> UNION {Remains(f) : f \in 1..Len(packs)}]
      /\ \A f \in 1..Len(packs) : packs'[f] \in Remains(f)
      /\ openAllPacks
  BY DEF Restart
<1>3. ASSUME NEW f \in 1..Len(packs), NEW p \in Remains(f)  PROVE p \in Seq(Cells)
  <2>1. packs[f] \in Seq(Cells) /\ synced[f] \in Nat /\ Junk \in Cells
    BY <1>1, CellTypes
  <2>2. CASE p = WriteAt(packs[f], pos + 1, Junk)
    BY <1>1, <2>1, <2>2, WriteAtFacts DEF Wrote
  <2>3. ASSUME NEW n \in synced[f]..Len(packs[f]), p = SubSeq(packs[f], 1, n)
        PROVE  p \in Seq(Cells)
    <3>1. n \in Nat /\ n <= Len(packs[f])
      BY <2>1
    <3> QED
      BY <2>1, <2>3, <3>1
  <2> QED
    BY <2>2, <2>3 DEF Remains
<1>4. packs' \in Seq(Seq(Cells)) /\ Len(packs') = Len(packs)
  <2>1. \A f \in 1..Len(packs) : packs'[f] \in Seq(Cells)
    BY <1>2, <1>3
  <2>2. packs' = [f \in 1..Len(packs) |-> packs'[f]] /\ Len(packs) \in Nat
    BY <1>1, <1>2
  <2> QED
    BY <2>1, <2>2
<1>5. /\ fds' = Len(packs) /\ writer' = Len(packs)
      /\ size' = Len(packs'[Len(packs)]) /\ pos' = Len(packs'[Len(packs)])
      /\ synced' = [f \in 1..Len(packs) |-> Len(packs'[f])]
  BY <1>2, <1>4 DEF openAllPacks
<1>6. \A f \in 1..Len(packs) : Len(packs'[f]) \in Nat
  BY <1>4
<1>7. size' \in Nat /\ pos' \in Nat /\ synced' \in Seq(Nat) /\ Len(synced') = Len(packs)
  BY <1>1, <1>5, <1>6
<1>8. packs' # << >> /\ writer' \in 0..Len(packs') /\ fds' \in 1..Len(packs')
  BY <1>1, <1>4, <1>5
<1> QED
  BY <1>4, <1>7, <1>8 DEF FileTypes

\* No step breaks the types of the files, and none takes a pack away.
LEMMA FilesStep ==
    ASSUME TypesInv, [Next]_vars
    PROVE  FileTypes' /\ Len(packs') \in Nat /\ Len(packs') >= Len(packs)
<1> DEFINE Goal == FileTypes' /\ Len(packs') \in Nat /\ Len(packs') >= Len(packs)
           Still == UNCHANGED <<packs, writer, fds, size, pos, synced>>
<1>1. FileTypes /\ Len(packs) \in Nat
  BY DEF TypesInv, TypeOK, FileTypes
<1> SUFFICES Goal
  OBVIOUS
<1> HIDE DEF Goal, Still
<1>2. ASSUME FileTypes', Len(packs') = Len(packs)  PROVE Goal
  BY <1>1, <1>2 DEF Goal
<1>3. ASSUME Still  PROVE Goal
  BY <1>1, <1>3 DEF FileTypes, Goal, Still
<1>4. ASSUME NEW t \in Receivers, pc[t] \in Writing \cup {"append"}
      PROVE  /\ Header(arg[t]) \in Cells /\ Body(arg[t]) \in Cells /\ Junk \in Cells
             /\ pc[t] \in Writing => writer # 0
  <2>1. arg[t] \in Blobs
    BY <1>4 DEF TypesInv, MuInv, Writing
  <2> QED
    BY <1>4, <2>1, CellTypes DEF TypesInv, Sites
<1>5. ASSUME NEW t \in Receivers, writeHeader(t) \/ badOffset(t) \/ writeHeaderFails(t)
      PROVE  Goal
  <2>1. /\ pc[t] = "append" /\ UNCHANGED <<writer, fds, synced>>
        /\ \/ writer # 0 /\ (write(Header(arg[t])) \/ write(Junk))
           \/ UNCHANGED <<packs, size, pos>>
    BY <1>5 DEF writeHeader, badOffset, writeHeaderFails, beginAppend
  <2>2. CASE writer # 0 /\ (write(Header(arg[t])) \/ write(Junk))
    <3>1. FileTypes' /\ Len(packs') = Len(packs)
      BY <1>1, <1>4, <2>1, <2>2, WriteTypes
    <3> QED
      BY <1>2, <3>1
  <2> QED
    BY <1>3, <2>1, <2>2 DEF Still
<1>6. ASSUME NEW t \in Receivers, writeData(t)  PROVE Goal
  <2>1. /\ pc[t] \in Writing /\ write(Body(arg[t])) /\ UNCHANGED <<writer, fds, synced>>
    BY <1>6 DEF writeData, Writing
  <2>2. FileTypes' /\ Len(packs') = Len(packs)
    BY <1>1, <1>4, <2>1, WriteTypes
  <2> QED
    BY <1>2, <2>2
<1>7. ASSUME NEW t \in Receivers, Sync(t)  PROVE Goal
  <2>1. /\ synced' = [synced EXCEPT ![writer] = Len(packs[writer])]
        /\ UNCHANGED <<packs, writer, fds, size, pos>> /\ pc[t] \in Writing
    BY <1>7 DEF Sync, disk, Writing
  <2>2. writer \in 1..Len(packs)
    BY <1>1, <1>4, <2>1 DEF FileTypes
  <2>3. packs \in Seq(Seq(Cells)) /\ synced \in Seq(Nat) /\ Len(synced) = Len(packs)
    BY <1>1 DEF FileTypes
  <2>4. Len(packs[writer]) \in Nat
    BY <2>2, <2>3
  <2>5. synced' \in Seq(Nat) /\ Len(synced') = Len(packs)
    BY <2>1, <2>2, <2>3, <2>4
  <2> QED
    BY <1>1, <2>1, <2>5 DEF FileTypes, Goal
<1>8. ASSUME NEW t \in Receivers, nextPack(t) \/ nextPackFails(t)  PROVE Goal
  <2>1. \/ openForWrite(fds + 1) /\ fds' \in {fds, fds + 1}
        \/ /\ UNCHANGED <<packs, synced, fds>> /\ size' = 0
           /\ writer' \in {writer, 0} /\ pos' \in {pos, 0}
    BY <1>8 DEF nextPack, nextPackFails
  <2>2. CASE openForWrite(fds + 1) /\ fds' \in {fds, fds + 1}
    BY <1>1, <2>2, OpenTypes DEF Goal
  <2>3. CASE /\ UNCHANGED <<packs, synced, fds>> /\ size' = 0
             /\ writer' \in {writer, 0} /\ pos' \in {pos, 0}
    <3>1. writer' \in 0..Len(packs) /\ pos' \in Nat
      BY <1>1, <2>3 DEF FileTypes
    <3> QED
      BY <1>1, <2>3, <3>1 DEF FileTypes, Goal
  <2> QED
    BY <2>1, <2>2, <2>3
<1>9. ASSUME NEW t \in Receivers, setRowFails(t)  PROVE Goal
  <2>1. rollback /\ UNCHANGED <<writer, fds>> /\ writer # 0
    BY <1>4, <1>9 DEF setRowFails, Writing
  <2>2. app.orig \in Nat
    BY DEF TypesInv, TypeOK
  <2>3. FileTypes' /\ Len(packs') = Len(packs)
    BY <1>1, <2>1, <2>2, RollbackTypes
  <2> QED
    BY <1>2, <2>3
<1>10. ASSUME NEW g \in Goroutines, overwriteHeader(g) \/ zeroData(g)  PROVE Goal
  <2> DEFINE f == File(dat[g])
             h == Offset(dat[g])
  <2>1. dpc[g] \in {"head", "zero"} /\ UNCHANGED <<writer, fds, size, pos, synced>>
    BY <1>10 DEF overwriteHeader, zeroData, files
  <2>2. \/ UNCHANGED packs
        \/ h \in DOMAIN packs[f] /\ packs' = [packs EXCEPT ![f][h] = Dead]
        \/ h + 1 \in DOMAIN packs[f] /\ packs' = [packs EXCEPT ![f][h + 1] = Zero]
    BY <1>10 DEF overwriteHeader, zeroData
  <2>3. f \in 1..Len(packs) /\ Dead \in Cells /\ Zero \in Cells
    BY <2>1, CellTypes DEF TypesInv, Sites
  <2> HIDE DEF f, h
  <2>4. CASE UNCHANGED packs
    BY <1>3, <2>1, <2>4 DEF Still
  <2>5. CASE h \in DOMAIN packs[f] /\ packs' = [packs EXCEPT ![f][h] = Dead]
    BY <1>1, <1>2, <2>1, <2>3, <2>5, OverwriteTypes
  <2>6. CASE h + 1 \in DOMAIN packs[f] /\ packs' = [packs EXCEPT ![f][h + 1] = Zero]
    BY <1>1, <1>2, <2>1, <2>3, <2>6, OverwriteTypes
  <2> QED
    BY <2>2, <2>4, <2>5, <2>6
<1>11. CASE Restart
  <2>1. FileTypes' /\ Len(packs') = Len(packs)
    BY <1>1, <1>11, RestartTypes
  <2> QED
    BY <1>2, <2>1
<1>12. ASSUME \/ \E t \in Receivers : \/ \E b \in Blobs : ReceiveBlob(t, b)
                                      \/ foundDup(t) \/ notDup(t)
                                      \/ writeDataFails(t) \/ setRow(t)
              \/ \E m \in Removers : \/ \E S \in SUBSET Blobs \ {{}} : RemoveBlobs(m, S)
                                     \/ CommitBatch(m) \/ CommitBatchFails(m)
              \/ \E g \in Goroutines : deleteMeta(g) \/ deleteFails(g)
       PROVE  Goal
  <2>1. Still
    BY <1>12 DEF ReceiveBlob, foundDup, notDup, writeDataFails, setRow, RemoveBlobs,
                 CommitBatch, CommitBatchFails, endRemove, deleteMeta, deleteFails, disk, files,
                 Still
  <2> QED
    BY <1>3, <2>1
<1>13. CASE UNCHANGED vars
  BY <1>3, <1>13 DEF vars, disk, files, Still
<1>14. CASE Next
  BY <1>5, <1>6, <1>7, <1>8, <1>9, <1>10, <1>11, <1>12, <1>14 DEF Next
<1> QED
  BY <1>13, <1>14
\* The types of the calls and of the history, and who holds s.mu.
CallTypes ==
    /\ mu \in Receivers \cup {Free}
    /\ app \in [orig : Nat, offset : Nat, packIdx : Nat]
    /\ pc \in [Receivers -> {"idle", "stat", "append"} \cup Writing]
    /\ arg \in [Receivers -> Blobs \cup {NoBlob}]
    /\ held \in [Receivers -> Rows]
    /\ acked \subseteq Blobs /\ removal \subseteq Blobs /\ overlap \subseteq Receivers
    /\ appends \in Nat /\ crashes \in Nat /\ lagged \in BOOLEAN
    /\ MuInv

\* ReceiveBlob returns, from the duplicate check or from append.
LEMMA ReturnTypes ==
    ASSUME CallTypes, NEW t \in Receivers, pc[t] # "idle", returnErr(t) \/ returnNil(t),
           \/ mu = t /\ mu' = Free /\ app' = NoAppend
           \/ pc[t] \notin Writing /\ UNCHANGED <<mu, app>>,
           appends' \in Nat, crashes' \in Nat, lagged' \in BOOLEAN
    PROVE  CallTypes'
<1>1. arg[t] \in Blobs
  BY DEF CallTypes, MuInv
<1>2. /\ pc' = [pc EXCEPT ![t] = "idle"] /\ arg' = [arg EXCEPT ![t] = NoBlob]
      /\ held' = [held EXCEPT ![t] = NoRow] /\ overlap' = overlap \ {t}
      /\ removal' = removal /\ acked' \subseteq acked \cup {arg[t]}
  BY DEF returnErr, returnNil
<1>3. /\ pc' \in [Receivers -> {"idle", "stat", "append"} \cup Writing]
      /\ arg' \in [Receivers -> Blobs \cup {NoBlob}] /\ held' \in [Receivers -> Rows]
  BY <1>2 DEF CallTypes, Rows
<1>4. acked' \subseteq Blobs /\ removal' \subseteq Blobs /\ overlap' \subseteq Receivers
  BY <1>1, <1>2 DEF CallTypes
<1>5. mu' \in Receivers \cup {Free} /\ app' \in [orig : Nat, offset : Nat, packIdx : Nat]
  BY DEF CallTypes, NoAppend
<1>6. MuInv'
  <2> SUFFICES ASSUME NEW u \in Receivers
               PROVE  /\ mu' = u <=> pc'[u] \in Writing
                      /\ pc'[u] # "idle" => arg'[u] \in Blobs
    BY DEF MuInv
  <2>1. CASE u = t
    <3>1. pc'[u] = "idle" /\ "idle" \notin Writing
      BY <1>2, <2>1 DEF CallTypes, Writing
    <3>2. mu' # u
      BY <2>1, DiskpackedAssumption DEF CallTypes, MuInv
    <3> QED
      BY <3>1, <3>2
  <2>2. CASE u # t
    <3>1. pc'[u] = pc[u] /\ arg'[u] = arg[u]
      BY <1>2, <2>2 DEF CallTypes
    <3>2. mu' = u <=> mu = u
      BY <2>2, DiskpackedAssumption
    <3> QED
      BY <3>1, <3>2 DEF CallTypes, MuInv
  <2> QED
    BY <2>1, <2>2
<1> QED
  BY <1>3, <1>4, <1>5, <1>6 DEF CallTypes

\* ReceiveBlob goes on, inside append or on its way there.
LEMMA GoOnTypes ==
    ASSUME CallTypes, NEW t \in Receivers,
           NEW p \in {"stat", "append"} \cup Writing,
           pc' = [pc EXCEPT ![t] = p],
           NEW b \in Blobs, arg' = [arg EXCEPT ![t] = b],
           held' \in [Receivers -> Rows], overlap' \subseteq Receivers,
           app' \in [orig : Nat, offset : Nat, packIdx : Nat],
           appends' \in Nat, UNCHANGED <<acked, removal, crashes, lagged>>,
           \/ p \in Writing /\ mu \in {t, Free} /\ mu' = t
           \/ p \notin Writing /\ pc[t] \notin Writing /\ mu' = mu
    PROVE  CallTypes'
<1>1. /\ pc' \in [Receivers -> {"idle", "stat", "append"} \cup Writing]
      /\ arg' \in [Receivers -> Blobs \cup {NoBlob}] /\ mu' \in Receivers \cup {Free}
  BY DEF CallTypes
<1>2. MuInv'
  <2> SUFFICES ASSUME NEW u \in Receivers
               PROVE  /\ mu' = u <=> pc'[u] \in Writing
                      /\ pc'[u] # "idle" => arg'[u] \in Blobs
    BY DEF MuInv
  <2>1. CASE u = t
    <3>1. pc'[u] = p /\ arg'[u] = b
      BY <2>1 DEF CallTypes
    <3> QED
      BY <2>1, <3>1 DEF CallTypes, MuInv
  <2>2. CASE u # t
    <3>1. pc'[u] = pc[u] /\ arg'[u] = arg[u]
      BY <2>2 DEF CallTypes
    <3>2. mu' = u <=> mu = u
      BY <2>2, DiskpackedAssumption
    <3> QED
      BY <3>1, <3>2 DEF CallTypes, MuInv
  <2> QED
    BY <2>1, <2>2
<1> QED
  BY <1>1, <1>2 DEF CallTypes

\* No step breaks the types of the calls, and s.mu is held by the one inside append.
LEMMA CallStep ==
    ASSUME TypesInv, [Next]_vars
    PROVE  CallTypes'
<1>1. /\ CallTypes /\ fds \in Nat /\ size \in Nat /\ index \in [Blobs -> Rows]
      /\ appends + 1 \in Nat /\ crashes + 1 \in Nat
  BY DEF TypesInv, TypeOK, CallTypes
<1>2. ASSUME UNCHANGED <<mu, app, pc, arg, held, appends, crashes, lagged>>,
             acked' \subseteq Blobs, removal' \subseteq Blobs, overlap' \subseteq Receivers
      PROVE  CallTypes'
  BY <1>1, <1>2 DEF CallTypes, MuInv
<1>3. ASSUME NEW t \in Receivers, pc[t] # "idle"
      PROVE  arg[t] \in Blobs /\ arg = [arg EXCEPT ![t] = arg[t]]
  BY <1>1, <1>3 DEF CallTypes, MuInv
<1>4. ASSUME NEW t \in Receivers, NEW b \in Blobs, ReceiveBlob(t, b)  PROVE CallTypes'
  <2>1. PICK p \in {"stat", "append"} : pc' = [pc EXCEPT ![t] = p]
    BY <1>4 DEF ReceiveBlob
  <2>2. /\ arg' = [arg EXCEPT ![t] = b] /\ overlap' \subseteq Receivers
        /\ held' \in [Receivers -> Rows]
    BY <1>1, <1>4 DEF ReceiveBlob, CallTypes
  <2>3. /\ UNCHANGED <<mu, app, acked, removal, appends, crashes, lagged>>
        /\ pc[t] \notin Writing /\ p \notin Writing
    BY <1>4 DEF ReceiveBlob, files, bounds, Writing
  <2>4. app' \in [orig : Nat, offset : Nat, packIdx : Nat] /\ appends' \in Nat
    BY <1>1, <2>3 DEF CallTypes
  <2> QED
    BY <1>1, <2>1, <2>2, <2>3, <2>4, GoOnTypes
<1>5. ASSUME NEW t \in Receivers, notDup(t)  PROVE CallTypes'
  <2>1. /\ pc[t] = "stat" /\ pc' = [pc EXCEPT ![t] = "append"]
        /\ UNCHANGED <<mu, app, arg, held, acked, removal, overlap, appends, crashes, lagged>>
    BY <1>5 DEF notDup, files, history, bounds
  <2>2. "append" \notin Writing /\ "stat" \notin Writing
    BY DEF Writing
  <2>3. /\ held' \in [Receivers -> Rows] /\ overlap' \subseteq Receivers /\ appends' \in Nat
        /\ app' \in [orig : Nat, offset : Nat, packIdx : Nat]
    BY <1>1, <2>1 DEF CallTypes
  <2>4. arg[t] \in Blobs /\ arg' = [arg EXCEPT ![t] = arg[t]]
    BY <1>3, <2>1
  <2> QED
    BY <1>1, <2>1, <2>2, <2>3, <2>4, GoOnTypes
<1>6. ASSUME NEW t \in Receivers,
             foundDup(t) \/ badOffset(t) \/ writeHeaderFails(t)
      PROVE  CallTypes'
  <2>1. /\ pc[t] \in {"stat", "append"} /\ (returnErr(t) \/ returnNil(t))
        /\ UNCHANGED <<mu, app, crashes, lagged>> /\ appends' \in {appends, appends + 1}
    BY <1>6 DEF foundDup, badOffset, writeHeaderFails, beginAppend, files, bounds
  <2>2. pc[t] # "idle" /\ pc[t] \notin Writing
    BY <2>1 DEF Writing
  <2>3. appends' \in Nat /\ crashes' \in Nat /\ lagged' \in BOOLEAN
    BY <1>1, <2>1 DEF CallTypes
  <2> QED
    BY <1>1, <2>1, <2>2, <2>3, ReturnTypes
<1>7. ASSUME NEW t \in Receivers,
             writeDataFails(t) \/ nextPackFails(t) \/ setRow(t) \/ setRowFails(t)
      PROVE  CallTypes'
  <2>1. /\ pc[t] # "idle" /\ (returnErr(t) \/ returnNil(t)) /\ unlock(t)
        /\ UNCHANGED <<appends, crashes>> /\ lagged' \in {lagged, TRUE}
    BY <1>7 DEF writeDataFails, nextPackFails, setRow, setRowFails, files, bounds
  <2>2. appends' \in Nat /\ crashes' \in Nat /\ lagged' \in BOOLEAN
    BY <1>1, <2>1 DEF CallTypes
  <2> QED
    BY <1>1, <2>1, <2>2, ReturnTypes DEF unlock
<1>8. ASSUME NEW t \in Receivers,
             writeHeader(t) \/ writeData(t) \/ Sync(t) \/ nextPack(t)
      PROVE  CallTypes'
  <2>1. PICK p \in Writing : pc' = [pc EXCEPT ![t] = p]
    BY <1>8 DEF writeHeader, writeData, Sync, nextPack, Writing
  <2>2. /\ pc[t] # "idle" /\ mu \in {t, Free} /\ mu' = t
        /\ UNCHANGED <<arg, held, acked, removal, overlap, crashes, lagged>>
        /\ appends' \in {appends, appends + 1}
    BY <1>8 DEF writeHeader, beginAppend, writeData, Sync, nextPack, history, bounds
  <2>3. app' \in [orig : Nat, offset : Nat, packIdx : Nat]
    BY <1>1, <1>8 DEF CallTypes, writeHeader, writeData, Sync, nextPack
  <2>4. held' \in [Receivers -> Rows] /\ overlap' \subseteq Receivers /\ appends' \in Nat
    BY <1>1, <2>2 DEF CallTypes
  <2>5. arg[t] \in Blobs /\ arg' = [arg EXCEPT ![t] = arg[t]]
    BY <1>3, <2>2
  <2> QED
    BY <1>1, <2>1, <2>2, <2>3, <2>4, <2>5, GoOnTypes
<1>9. ASSUME \/ \E m \in Removers : \/ \E S \in SUBSET Blobs \ {{}} : RemoveBlobs(m, S)
                                    \/ CommitBatch(m) \/ CommitBatchFails(m)
             \/ \E g \in Goroutines : \/ deleteMeta(g) \/ deleteFails(g)
                                      \/ overwriteHeader(g) \/ zeroData(g)
      PROVE  CallTypes'
  <2>1. UNCHANGED <<mu, app, pc, arg, held, appends, crashes, lagged>>
    BY <1>9 DEF RemoveBlobs, CommitBatch, CommitBatchFails, endRemove, deleteMeta,
                deleteFails, overwriteHeader, zeroData, files, receiving, bounds
  <2>2. acked' \subseteq Blobs /\ removal' \subseteq Blobs /\ overlap' \subseteq Receivers
    BY <1>1, <1>9 DEF CallTypes, RemoveBlobs, CommitBatch, CommitBatchFails, endRemove,
                deleteMeta, deleteFails, overwriteHeader, zeroData, history
  <2> QED
    BY <1>2, <2>1, <2>2
<1>10. CASE Restart
  <2>1. /\ mu' = Free /\ app' = NoAppend /\ overlap' = {} /\ crashes' = crashes + 1
        /\ pc' = [t \in Receivers |-> "idle"]
        /\ arg' = [t \in Receivers |-> NoBlob]
        /\ held' = [t \in Receivers |-> NoRow]
        /\ UNCHANGED <<acked, removal, lagged, appends>>
    BY <1>10 DEF Restart
  <2>2. MuInv'
    BY <2>1, DiskpackedAssumption DEF MuInv, Writing
  <2>3. app' \in [orig : Nat, offset : Nat, packIdx : Nat]
    BY <2>1 DEF NoAppend
  <2> QED
    BY <1>1, <2>1, <2>2, <2>3 DEF CallTypes, Rows
<1>11. CASE UNCHANGED vars
  BY <1>1, <1>2, <1>11 DEF CallTypes, vars, files, receiving, history, bounds
<1>12. CASE Next
  BY <1>4, <1>5, <1>6, <1>7, <1>8, <1>9, <1>10, <1>12 DEF Next
<1> QED
  BY <1>11, <1>12
\* Rows, and what a delete read, keep their types and name packs that are on disk.
LEMMA RowStep ==
    ASSUME TypesInv, [Next]_vars
    PROVE  /\ index' \in [Blobs -> Rows] /\ dat' \in [Goroutines -> Rows]
           /\ dpc' \in [Goroutines -> {"off", "meta", "head", "zero", "done"}]
           /\ \A b \in Blobs : index'[b] # NoRow => File(index'[b]) \in 1..Len(packs)
           /\ \A g \in Goroutines :
                 dpc'[g] \in {"head", "zero"} => File(dat'[g]) \in 1..Len(packs)
<1> DEFINE IndexOK == /\ index' \in [Blobs -> Rows]
                      /\ \A b \in Blobs :
                            index'[b] # NoRow => File(index'[b]) \in 1..Len(packs)
           DatOK == /\ dat' \in [Goroutines -> Rows]
                    /\ dpc' \in [Goroutines -> {"off", "meta", "head", "zero", "done"}]
                    /\ \A g \in Goroutines :
                          dpc'[g] \in {"head", "zero"} => File(dat'[g]) \in 1..Len(packs)
<1> SUFFICES IndexOK /\ DatOK
  OBVIOUS
<1>1. /\ index \in [Blobs -> Rows] /\ dat \in [Goroutines -> Rows]
      /\ dpc \in [Goroutines -> {"off", "meta", "head", "zero", "done"}]
      /\ \A b \in Blobs : index[b] # NoRow => File(index[b]) \in 1..Len(packs)
      /\ \A g \in Goroutines : dpc[g] \in {"head", "zero"} => File(dat[g]) \in 1..Len(packs)
  BY DEF TypesInv, TypeOK, Sites
<1>2. UNCHANGED index => IndexOK
  BY <1>1
<1>3. UNCHANGED <<dat, dpc>> => DatOK
  BY <1>1
<1>4. NoRow \in Rows
  BY DEF Rows
<1>5. ASSUME NEW t \in Receivers, setRow(t)  PROVE IndexOK
  <2> DEFINE row == <<app.packIdx, app.offset>>
  <2>1. pc[t] = "set" /\ index' = [index EXCEPT ![arg[t]] = row]
    BY <1>5 DEF setRow
  <2>2. app.packIdx \in 1..Len(packs) /\ app.packIdx \in Nat /\ app.offset \in Nat
    BY <2>1 DEF TypesInv, TypeOK, Sites
  <2>3. row \in Rows /\ File(row) \in 1..Len(packs)
    BY <2>2 DEF Rows, File
  <2> HIDE DEF row
  <2>4. arg[t] \in Blobs
    BY <2>1 DEF TypesInv, MuInv
  <2> QED
    BY <1>1, <2>1, <2>3, <2>4
<1>6. ASSUME NEW m \in Removers, CommitBatch(m)  PROVE IndexOK
  BY <1>1, <1>4, <1>6 DEF CommitBatch
<1>7. ASSUME NEW m \in Removers, endRemove(m)  PROVE DatOK
  BY <1>1, <1>4, <1>7 DEF endRemove
<1>8. ASSUME NEW m \in Removers, NEW S \in SUBSET Blobs, RemoveBlobs(m, S)  PROVE DatOK
  BY <1>1, <1>8 DEF RemoveBlobs
<1>9. ASSUME NEW g \in Goroutines, deleteMeta(g)  PROVE DatOK
  <2>1. /\ dat' = [dat EXCEPT ![g] = index[g[2]]] /\ g[2] \in Blobs
        /\ dpc' = [dpc EXCEPT ![g] = IF index[g[2]] = NoRow THEN "done" ELSE "head"]
    BY <1>9 DEF deleteMeta, Goroutines
  <2> QED
    BY <1>1, <2>1
<1>10. ASSUME NEW g \in Goroutines, overwriteHeader(g) \/ zeroData(g) \/ deleteFails(g)
       PROVE  IndexOK /\ DatOK
  <2>1. /\ UNCHANGED <<index, dat>> /\ dpc[g] \in {"meta", "head", "zero"}
        /\ \/ dpc' = [dpc EXCEPT ![g] = "done"]
           \/ dpc[g] = "head" /\ dpc' = [dpc EXCEPT ![g] = "zero"]
    BY <1>10 DEF overwriteHeader, zeroData, deleteFails, disk
  <2>2. DatOK
    BY <1>1, <2>1
  <2> QED
    BY <1>2, <2>1, <2>2
<1>11. CASE Restart
  <2>1. /\ UNCHANGED index /\ dpc' = [g \in Goroutines |-> "off"]
        /\ dat' = [g \in Goroutines |-> NoRow]
    BY <1>11 DEF Restart
  <2> QED
    BY <1>2, <1>4, <2>1
<1> HIDE DEF IndexOK, DatOK
<1>12. ASSUME NEW t \in Receivers,
              \/ \E b \in Blobs : ReceiveBlob(t, b)
              \/ foundDup(t) \/ notDup(t) \/ writeHeader(t) \/ badOffset(t)
              \/ writeHeaderFails(t) \/ writeData(t) \/ writeDataFails(t) \/ Sync(t)
              \/ nextPack(t) \/ nextPackFails(t) \/ setRow(t) \/ setRowFails(t)
       PROVE  IndexOK /\ DatOK
  <2>1. UNCHANGED <<dat, dpc>>
    BY <1>12 DEF ReceiveBlob, foundDup, notDup, writeHeader, badOffset, writeHeaderFails,
                 beginAppend, writeData, writeDataFails, Sync, nextPack, nextPackFails,
                 setRow, setRowFails, removing
  <2>2. UNCHANGED index \/ setRow(t)
    BY <1>12 DEF ReceiveBlob, foundDup, notDup, writeHeader, badOffset, writeHeaderFails,
                 beginAppend, writeData, writeDataFails, Sync, nextPack, nextPackFails,
                 setRowFails, disk
  <2> QED
    BY <1>2, <1>3, <1>5, <2>1, <2>2
<1>13. ASSUME NEW m \in Removers, CommitBatch(m) \/ CommitBatchFails(m)
       PROVE  IndexOK /\ DatOK
  BY <1>2, <1>6, <1>7, <1>13 DEF CommitBatch, CommitBatchFails
<1>14. ASSUME NEW m \in Removers, NEW S \in SUBSET Blobs, RemoveBlobs(m, S)
       PROVE  IndexOK /\ DatOK
  BY <1>2, <1>8, <1>14 DEF RemoveBlobs, disk
<1>15. ASSUME NEW g \in Goroutines, deleteMeta(g)  PROVE IndexOK /\ DatOK
  BY <1>2, <1>9, <1>15 DEF deleteMeta, disk
<1>16. CASE UNCHANGED vars
  BY <1>2, <1>3, <1>16 DEF vars, disk, removing
<1>17. CASE Next
  BY <1>10, <1>11, <1>12, <1>13, <1>14, <1>15, <1>17 DEF Next
<1> QED
  BY <1>16, <1>17

\* Whoever is inside append has an open writer, and after Sync a pack to name.
LEMMA InsideStep ==
    ASSUME TypesInv, [Next]_vars, NEW t \in Receivers, pc'[t] \in Writing
    PROVE  /\ writer' # 0
           /\ pc'[t] \in {"rotate", "set"} => app'.packIdx \in 1..Len(packs)
<1>1. /\ fds \in 1..Len(packs) /\ FileTypes /\ "idle" \notin Writing
      /\ "append" \notin Writing /\ "stat" \notin Writing
      /\ pc \in [Receivers -> {"idle", "stat", "append"} \cup Writing]
      /\ app \in [orig : Nat, offset : Nat, packIdx : Nat]
  BY DEF TypesInv, TypeOK, FileTypes, Writing
<1>2. pc[t] \in Writing =>
         /\ writer # 0 /\ mu = t
         /\ pc[t] \in {"rotate", "set"} => app.packIdx \in 1..Len(packs)
  BY DEF TypesInv, Sites, MuInv
<1>3. ASSUME NEW u \in Receivers,
             \/ \E b \in Blobs : ReceiveBlob(u, b)
             \/ foundDup(u) \/ notDup(u) \/ badOffset(u) \/ writeHeaderFails(u)
      PROVE  pc[t] \in Writing /\ pc'[t] = pc[t] /\ UNCHANGED <<writer, app>>
  <2>1. /\ UNCHANGED <<writer, app>>
        /\ \E p \in {"idle", "stat", "append"} : pc' = [pc EXCEPT ![u] = p]
    BY <1>3 DEF ReceiveBlob, foundDup, notDup, badOffset, writeHeaderFails, beginAppend,
                returnErr, returnNil, files
  <2> QED
    BY <1>1, <2>1
<1>4. ASSUME NEW u \in Receivers,
             writeDataFails(u) \/ nextPackFails(u) \/ setRow(u) \/ setRowFails(u)
      PROVE  FALSE
  <2>1. mu = u /\ pc' = [pc EXCEPT ![u] = "idle"]
    BY <1>4 DEF writeDataFails, nextPackFails, setRow, setRowFails, unlock, returnErr,
                returnNil
  <2>2. t # u /\ pc[t] \in Writing
    BY <1>1, <2>1
  <2> QED
    BY <1>2, <2>1, <2>2
<1>5. ASSUME NEW u \in Receivers,
             writeHeader(u) \/ writeData(u) \/ Sync(u) \/ nextPack(u)
      PROVE  u = t
  <2>1. mu \in {u, Free} /\ \E p \in Writing : pc' = [pc EXCEPT ![u] = p]
    BY <1>5 DEF writeHeader, beginAppend, writeData, Sync, nextPack, Writing
  <2>2. u # t => pc[t] \in Writing
    BY <1>1, <2>1
  <2> QED
    BY <1>2, <2>1, <2>2, DiskpackedAssumption
<1>6. CASE writeHeader(t)
  BY <1>1, <1>6 DEF writeHeader, beginAppend
<1>7. CASE writeData(t)
  <2>1. pc[t] = "data" /\ pc'[t] = "sync" /\ UNCHANGED writer
    BY <1>1, <1>7 DEF writeData
  <2> QED
    BY <1>2, <2>1 DEF Writing
<1>8. CASE Sync(t)
  <2>1. pc[t] = "sync" /\ UNCHANGED writer /\ app' = [app EXCEPT !.packIdx = fds]
    BY <1>8 DEF Sync
  <2>2. app'.packIdx = fds
    BY <1>1, <2>1
  <2> QED
    BY <1>1, <1>2, <2>1, <2>2 DEF Writing
<1>9. CASE nextPack(t)
  <2>1. /\ pc[t] = "rotate" /\ openForWrite(fds + 1) /\ fds' = fds + 1 /\ UNCHANGED app
    BY <1>9 DEF nextPack
  <2>2. writer' # 0
    BY <1>1, <2>1, OpenTypes
  <2> QED
    BY <1>2, <2>1, <2>2 DEF Writing
<1>10. ASSUME \/ \E m \in Removers : \/ \E S \in SUBSET Blobs \ {{}} : RemoveBlobs(m, S)
                                     \/ CommitBatch(m) \/ CommitBatchFails(m)
              \/ \E g \in Goroutines : \/ deleteMeta(g) \/ deleteFails(g)
                                       \/ overwriteHeader(g) \/ zeroData(g)
       PROVE  pc[t] \in Writing /\ pc'[t] = pc[t] /\ UNCHANGED <<writer, app>>
  BY <1>10 DEF RemoveBlobs, CommitBatch, CommitBatchFails, endRemove, deleteMeta,
               deleteFails, overwriteHeader, zeroData, files, receiving
<1>11. ~Restart
  BY <1>1 DEF Restart
<1>12. CASE UNCHANGED vars
  BY <1>2, <1>12 DEF vars, files, receiving
<1>13. CASE Next
  BY <1>2, <1>3, <1>4, <1>5, <1>6, <1>7, <1>8, <1>9, <1>10, <1>11, <1>13 DEF Next
<1> QED
  BY <1>12, <1>13

\* Diskpacked keeps its types for any blobs, callers, faults, appends and restarts,
\* also once nextPack has opened a pack for writing and not for reading: s.writer,
\* what is open for reading and every row stay within the packs that are on disk.
THEOREM DiskpackedTypes == Spec => []TypeOK
<1>1. Init => TypesInv
  <2> SUFFICES ASSUME Init  PROVE TypesInv
    OBVIOUS
  <2>1. TypeOK /\ MuInv
    BY InitInv DEF Inv
  <2>2. Sites
    BY DEF Init, Sites, Writing
  <2> QED
    BY <2>1, <2>2 DEF TypesInv
<1>2. TypesInv /\ [Next]_vars => TypesInv'
  <2> SUFFICES ASSUME TypesInv, [Next]_vars  PROVE TypesInv'
    OBVIOUS
  <2>1. TypeOK'
    BY FilesStep, CallStep, RowStep DEF TypeOK, FileTypes, CallTypes
  <2>2. MuInv'
    BY CallStep DEF CallTypes
  <2>3. \A f \in 1..Len(packs) : f \in 1..Len(packs')
    <3>1. Len(packs) \in Nat
      BY DEF TypesInv, TypeOK
    <3> QED
      BY <3>1, FilesStep
  <2>4. Sites'
    BY <2>3, RowStep, InsideStep DEF Sites, Writing, Goroutines, File
  <2> QED
    BY <2>1, <2>2, <2>4 DEF TypesInv
<1>3. TypesInv => TypeOK
  BY DEF TypesInv
<1> QED
  BY <1>1, <1>2, <1>3, PTL DEF Spec
=============================================================================
