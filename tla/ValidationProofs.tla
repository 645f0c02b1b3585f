-------------------------- MODULE ValidationProofs --------------------------
(***************************************************************************)
(* The validation of a shard, for any shard, any capacity of the channels  *)
(* and any fault: when it ends without an error, every blob the source had *)
(* is accounted for.                                                       *)
(*                                                                         *)
(* The blobs of a side go through a channel and a peeker to the merge, in  *)
(* order (ShardLine), and the end of an enumeration tells whether all of   *)
(* them were sent (Ends). What the destination had and has sent, the       *)
(* merge meets before it passes it (KeptDst); so what the source has sent  *)
(* is on its way, reported, or at the destination (KeptSrc), and nothing   *)
(* is reported that the destination had (NotThere). Stages ties the places *)
(* of the merge and of validateShardPrefix to what has been drained.       *)
(***************************************************************************)
EXTENDS Validation, Integers, TLAPS

\* A leaf is tried with Zenon first, which is the quicker of the two here.
USE ZenonT(5), SMTT(60)

\* The elements of a queue.
Elems(q) == {q[i] : i \in 1..Len(q)}

\* What is on its way from a side to the merge.
ShardOnTheWay(x, b) ==
  \/ peek[x] # << >> /\ peek[x][1] = b
  \/ \E i \in 1..Len(ch[x]) : ch[x][i] = b

\* The peeker and the channel of a side hold blobs of it in order, and after them at
\* most one zero blob.
ShardLine(x) ==
  /\ atStart[x] \subseteq store[x]
  /\ Len(peek[x]) <= 1
  /\ \A i \in 1..Len(ch[x]) : ch[x][i] # Zero => ch[x][i] \in store[x] /\ ch[x][i] <= last[x]
  /\ \A i, j \in 1..Len(ch[x]) :
        i < j => ch[x][i] # Zero /\ (ch[x][j] # Zero => ch[x][i] < ch[x][j])
  /\ peek[x] # << >> /\ peek[x][1] # Zero =>
        /\ peek[x][1] \in store[x] /\ peek[x][1] <= last[x]
        /\ \A i \in 1..Len(ch[x]) : ch[x][i] # Zero => peek[x][1] < ch[x][i]
  /\ peek[x] # << >> /\ peek[x][1] = Zero => ch[x] = << >>

\* How an enumeration ends: with nil when it has passed everything that was there, or
\* with an error and a zero blob that nobody takes away.
Ends(x) ==
  /\ epc[x] \in {"run", "zero", "nil", "err"} => errc[x] = "none" /\ ~closed[x]
  /\ epc[x] \in {"close", "done"} => errc[x] \in {"nil", "err"}
  /\ closed[x] => epc[x] = "done"
  /\ epc[x] = "err" \/ errc[x] = "err" <=> ShardOnTheWay(x, Zero)
  /\ epc[x] = "nil" \/ errc[x] = "nil" => \A b \in atStart[x] : b <= last[x]

\* The merge is past a blob: all that comes from the source is above it.
Past(b) ==
  /\ b <= last["src"]
  /\ peek["src"] # << >> /\ peek["src"][1] # Zero => b < peek["src"][1]
  /\ \A i \in 1..Len(ch["src"]) : ch["src"][i] # Zero => b < ch["src"][i]

\* What the destination had and has enumerated is on its way, or the merge is past it.
KeptDst == \A b \in atStart["dst"] : b <= last["dst"] => ShardOnTheWay("dst", b) \/ Past(b)

\* The blob is reported missing, enqueued, or at the destination.
Handled(b) == b \in Elems(missingc) \cup Elems(missing) \cup queued \cup store["dst"]

\* What the source had and has enumerated is on its way, or reported, or there.
KeptSrc ==
  vpc \notin {"enqueueErr", "failed"} =>
    \A b \in atStart["src"] : b <= last["src"] => ShardOnTheWay("src", b) \/ Handled(b)

\* Nothing is reported that the destination had.
NotThere == (Elems(missingc) \cup Elems(missing) \cup queued) \cap atStart["dst"] = {}

\* The stages of the merge and of validateShardPrefix.
Stages ==
  /\ lpc = "closed" => Drained("src") \/ ShardOnTheWay("src", Zero) \/ ShardOnTheWay("dst", Zero)
  /\ vpc # "collect" => lpc = "closed" /\ missingc = << >>
  /\ vpc \in {"dstErr", "enqueue", "enqueueErr", "done"} => errc["src"] = "nil"
  /\ vpc \in {"enqueue", "enqueueErr", "done"} => errc["dst"] = "nil"
  /\ vpc = "done" => missing = << >>

\* The inductive invariant.
ValidIInv == /\ TypeOK /\ (\A x \in Sides : ShardLine(x) /\ Ends(x))
        /\ KeptDst /\ KeptSrc /\ NotThere /\ Stages

-----------------------------------------------------------------------------
\* The elements of a queue that grows at its end and shrinks at its head.
LEMMA ElemsAppend ==
  ASSUME NEW S, NEW q \in Seq(S), NEW e \in S
  PROVE  Elems(Append(q, e)) = Elems(q) \cup {e}
  <1>1. /\ Len(Append(q, e)) = Len(q) + 1 /\ Len(q) \in Nat
        /\ \A i \in 1..Len(q) : Append(q, e)[i] = q[i]
        /\ Append(q, e)[Len(q) + 1] = e
    OBVIOUS
  <1>2. 1..(Len(q) + 1) = (1..Len(q)) \cup {Len(q) + 1}
    BY <1>1
  <1> QED BY <1>1, <1>2 DEF Elems

\* What Append does to the places of a queue.
LEMMA Appended ==
  ASSUME NEW S, NEW q \in Seq(S), NEW e \in S, NEW r, r = Append(q, e)
  PROVE  /\ Len(r) = Len(q) + 1 /\ Len(q) \in Nat
         /\ \A i \in 1..Len(q) : r[i] = q[i] /\ i \in 1..Len(r)
         /\ \A i \in 1..Len(r) : i \in 1..Len(q) \/ (i = Len(q) + 1 /\ r[i] = e)
         /\ Len(q) + 1 \in 1..Len(r) /\ r[Len(q) + 1] = e
  OBVIOUS

\* The element at the head of a queue is the one that Tail takes off.
LEMMA ElemsTail ==
  ASSUME NEW S, NEW q \in Seq(S), q # << >>
  PROVE  Elems(q) = Elems(Tail(q)) \cup {Head(q)} /\ Head(q) \in S /\ Tail(q) \in Seq(S)
         /\ Len(Tail(q)) = Len(q) - 1
  <1>1. /\ Len(Tail(q)) = Len(q) - 1 /\ Len(q) \in Nat /\ Len(q) >= 1 /\ Tail(q) \in Seq(S)
        /\ \A i \in 1..Len(Tail(q)) : Tail(q)[i] = q[i + 1]
        /\ Head(q) = q[1] /\ q[1] \in S
    OBVIOUS
  <1>2. \A i \in 1..Len(Tail(q)) : i + 1 \in 1..Len(q)
    BY <1>1
  <1>3. \A i \in 1..Len(q) : i = 1 \/ (i - 1 \in 1..Len(Tail(q)) /\ (i - 1) + 1 = i)
    BY <1>1
  <1>4. 1 \in 1..Len(q)
    BY <1>1
  <1>5. Elems(q) \subseteq Elems(Tail(q)) \cup {Head(q)}
    BY <1>1, <1>3 DEF Elems
  <1>6. Elems(Tail(q)) \cup {Head(q)} \subseteq Elems(q)
    BY <1>1, <1>2, <1>4 DEF Elems
  <1> QED BY <1>1, <1>5, <1>6

\* Blobs are positive numbers.
LEMMA ShardNumbers ==
  ASSUME TypeOK
  PROVE  /\ \A x \in Sides : store[x] \subseteq Shard /\ atStart[x] \subseteq Shard
                             /\ last[x] \in Nat /\ ch[x] \in Seq(Shard \cup {Zero})
                             /\ peek[x] \in Seq(Shard \cup {Zero}) /\ Len(ch[x]) \in Nat
         /\ \A x \in Sides : \A i \in 1..Len(ch[x]) : ch[x][i] \in Nat
                             /\ (ch[x][i] # Zero => ch[x][i] \in Shard)
         /\ \A x \in Sides : peek[x] # << >> => peek[x][1] \in Nat
                             /\ (peek[x][1] # Zero => peek[x][1] \in Shard)
         /\ Shard \subseteq Nat /\ Zero \in Nat /\ Zero \notin Shard
         /\ ChanCap \in Nat /\ MissingCap \in Nat
  <1>1. Shard \subseteq Nat /\ Zero \in Nat /\ Zero \notin Shard /\ ChanCap \in Nat /\ MissingCap \in Nat
    BY ValidationAssumption DEF Zero
  <1>2. \A x \in Sides : store[x] \subseteq Shard /\ atStart[x] \subseteq Shard
                         /\ last[x] \in Shard \cup {Zero}
    BY DEF TypeOK
  <1>3. \A x \in Sides : ch[x] \in Seq(Shard \cup {Zero}) /\ peek[x] \in Seq(Shard \cup {Zero})
    BY DEF TypeOK
  <1>4. \A x \in Sides : \A i \in 1..Len(ch[x]) : ch[x][i] \in Shard \cup {Zero}
    BY <1>3
  <1>5. \A x \in Sides : peek[x] # << >> => peek[x][1] \in Shard \cup {Zero}
    BY <1>3
  <1>6. \A x \in Sides : last[x] \in Nat
    BY <1>1, <1>2
  <1>7. \A x \in Sides : Len(ch[x]) \in Nat
    BY <1>3
  <1> QED BY <1>1, <1>2, <1>3, <1>4, <1>5, <1>6, <1>7

\* The invariant holds when the validation of a shard begins.
LEMMA ValidInitial == ASSUME Init PROVE ValidIInv
  <1>1. TypeOK
    <2>1. closed \in [Sides -> BOOLEAN] /\ canceled \in BOOLEAN
      BY Zenon DEF Init
    <2> QED BY <2>1, ValidationAssumption DEF Init, TypeOK
  <1>2. ASSUME NEW x \in Sides PROVE ShardLine(x) /\ Ends(x)
    BY <1>2 DEF Init, ShardLine, Ends, ShardOnTheWay
  <1>3. KeptDst /\ KeptSrc
    <2>1. \A x \in Sides : \A b \in atStart[x] : b \in Nat /\ b # 0
      BY <1>1, ShardNumbers DEF Zero
    <2>2. "src" \in Sides /\ "dst" \in Sides BY DEF Sides
    <2>3. last["src"] = 0 /\ last["dst"] = 0 BY <2>2 DEF Init, Zero
    <2> QED BY <2>1, <2>2, <2>3 DEF KeptDst, KeptSrc
  <1>4. NotThere /\ Stages
    BY DEF Init, NotThere, Stages, Elems
  <1> QED BY <1>1, <1>2, <1>3, <1>4 DEF ValidIInv

\* The end: a shard is reported done when everything the source had was handled.
LEMMA ValidAtTheEnd == ASSUME ValidIInv PROVE ShardAccounted
  <1> USE DEF ValidIInv
  <1>0. "src" \in Sides /\ "dst" \in Sides BY DEF Sides
  <1>1. ASSUME vpc = "done", NEW b \in atStart["src"]
        PROVE  b \in store["dst"] \cup queued
    <2>1. errc["src"] = "nil" /\ errc["dst"] = "nil" /\ lpc = "closed" /\ missingc = << >> /\ missing = << >>
      BY <1>1 DEF Stages
    <2>2. ~ShardOnTheWay("src", Zero) /\ ~ShardOnTheWay("dst", Zero)
      BY <1>0, <2>1 DEF Ends
    <2>3. Drained("src")
      BY <2>1, <2>2 DEF Stages
    <2>4. b <= last["src"]
      BY <1>0, <1>1, <2>1 DEF Ends
    <2>5. ~ShardOnTheWay("src", b)
      BY <2>3 DEF Drained, ShardOnTheWay
    <2>6. Handled(b)
      BY <1>1, <2>4, <2>5 DEF KeptSrc
    <2> QED BY <2>1, <2>6 DEF Handled, Elems
  <1> QED BY <1>1 DEF ShardAccounted, NotThere

-----------------------------------------------------------------------------
\* A peeker holds one element at most.
LEMMA Single ==
  ASSUME TypeOK, NEW x \in Sides, ShardLine(x), peek[x] # << >>
  PROVE  peek[x] = <<peek[x][1]>>
  <1>1. peek[x] \in Seq(Shard \cup {Zero}) /\ Len(peek[x]) <= 1
    BY DEF TypeOK, ShardLine
  <1> QED BY <1>1

\* A blob that arrives while the enumerations run disturbs nothing: what was there
\* at the start is still there.
LEMMA StoreBlobOK ==
  ASSUME ValidIInv, NEW y \in Sides, NEW c \in Arriving, StoreBlob(y, c)
  PROVE  ValidIInv'
  <1> USE DEF ValidIInv
  <1>0. "src" \in Sides /\ "dst" \in Sides BY DEF Sides
  <1>1. c \in Shard BY ValidationAssumption
  <1>2. UNCHANGED <<atStart, ch, closed, last, epc, errc, peek, lpc, missingc, vpc, missing, queued, canceled>>
    BY DEF StoreBlob
  <1>3. store' \in [Sides -> SUBSET Shard] /\ \A x \in Sides : store[x] \subseteq store'[x]
    BY <1>1 DEF StoreBlob, TypeOK
  <1>4. TypeOK' BY <1>2, <1>3 DEF TypeOK
  <1>5. \A x \in Sides : ShardLine(x)' /\ Ends(x)'
    BY <1>2, <1>3 DEF ShardLine, Ends, ShardOnTheWay
  <1>6. KeptDst' /\ NotThere' /\ Stages'
    BY <1>2 DEF KeptDst, Past, ShardOnTheWay, NotThere, Elems, Stages, Drained
  <1>7. KeptSrc'
    BY <1>0, <1>2, <1>3 DEF KeptSrc, Handled, Elems, ShardOnTheWay
  <1> QED BY <1>4, <1>5, <1>6, <1>7

\* The steps of an enumeration that send nothing.
LEMMA EnumEndOK ==
  ASSUME ValidIInv, NEW y \in Sides,
         enumerationEnds(y) \/ enumerationFails(y) \/ sendErr(y) \/ closeChan(y)
  PROVE  ValidIInv'
  <1> USE DEF ValidIInv
  <1>0. "src" \in Sides /\ "dst" \in Sides BY DEF Sides
  <1>1. UNCHANGED <<store, atStart, ch, last, peek, lpc, missingc, vpc, missing, queued, canceled>>
    BY DEF enumerationEnds, enumerationFails, sendErr, closeChan, enumUnchanged
  <1>2. /\ epc' \in [Sides -> {"run", "zero", "nil", "err", "close", "done"}]
        /\ errc' \in [Sides -> {"none", "nil", "err"}]
    BY DEF enumerationEnds, enumerationFails, sendErr, closeChan, TypeOK
  <1>3. closed' \in [Sides -> BOOLEAN]
    <2>1. closed \in [Sides -> BOOLEAN] BY DEF TypeOK
    <2>2. CASE UNCHANGED closed BY <2>1, <2>2, Zenon
    <2>3. CASE closed' = [closed EXCEPT ![y] = TRUE] BY <2>1, <2>3, Zenon
    <2> QED BY <2>2, <2>3 DEF enumerationEnds, enumerationFails, sendErr, closeChan
  <1>4. TypeOK' BY <1>1, <1>2, <1>3 DEF TypeOK
  <1>5. \A x \in Sides : ShardLine(x)'
    BY <1>1 DEF ShardLine
  <1>6. ASSUME NEW x \in Sides PROVE Ends(x)'
    <2>0. ShardOnTheWay(x, Zero)' <=> ShardOnTheWay(x, Zero)
      BY <1>1 DEF ShardOnTheWay
    <2>1. CASE x # y
      <3>1. epc'[x] = epc[x] /\ errc'[x] = errc[x] /\ closed'[x] = closed[x]
        BY <2>1 DEF enumerationEnds, enumerationFails, sendErr, closeChan, TypeOK
      <3> QED BY <1>1, <2>0, <3>1 DEF Ends
    <2>2. CASE x = y /\ enumerationEnds(y)
      <3>1. epc[x] = "run" /\ epc'[x] = "nil" /\ errc'[x] = errc[x] /\ closed' = closed
        BY <2>2 DEF enumerationEnds, TypeOK
      <3>2. \A b \in atStart[x] : b <= last[x]
        <4>1. \A b \in store[x] : ~(b > last[x])
          BY <2>2 DEF enumerationEnds, Remaining
        <4>2. atStart[x] \subseteq store[x] BY DEF ShardLine
        <4>3. \A b \in store[x] : b \in Nat BY ShardNumbers
        <4>4. last[x] \in Nat BY ShardNumbers
        <4> QED BY <4>1, <4>2, <4>3, <4>4
      <3> QED BY <1>1, <2>0, <3>1, <3>2 DEF Ends
    <2>3. CASE x = y /\ enumerationFails(y)
      <3>1. epc[x] = "run" /\ epc'[x] = "zero" /\ errc'[x] = errc[x] /\ closed' = closed
        BY <2>3 DEF enumerationFails, TypeOK
      <3> QED BY <1>1, <2>0, <3>1 DEF Ends
    <2>4. CASE x = y /\ sendErr(y)
      <3>1. epc[x] \in {"nil", "err"} /\ epc'[x] = "close" /\ errc'[x] = epc[x] /\ closed' = closed
        BY <2>4 DEF sendErr, TypeOK
      <3> QED BY <1>1, <2>0, <3>1 DEF Ends
    <2>5. CASE x = y /\ closeChan(y)
      <3>1. epc[x] = "close" /\ epc'[x] = "done" /\ errc'[x] = errc[x]
        BY <2>5 DEF closeChan, TypeOK
      <3> QED BY <1>1, <2>0, <3>1 DEF Ends
    <2> QED BY <2>1, <2>2, <2>3, <2>4, <2>5
  <1>7. KeptDst' /\ NotThere' /\ KeptSrc'
    BY <1>1 DEF KeptDst, Past, ShardOnTheWay, NotThere, Elems, KeptSrc, Handled
  <1>8. Stages'
    <2>1. Drained("src") => Drained("src")'
      BY <1>0, <1>1 DEF Drained, enumerationEnds, enumerationFails, sendErr, closeChan, TypeOK
    <2>2. \A x \in Sides : ShardOnTheWay(x, Zero) => ShardOnTheWay(x, Zero)'
      BY <1>1 DEF ShardOnTheWay
    <2>3. \A x \in Sides : errc[x] = "nil" => errc'[x] = "nil"
      BY DEF enumerationEnds, enumerationFails, sendErr, closeChan, TypeOK, Ends
    <2> QED BY <1>0, <1>1, <2>1, <2>2, <2>3 DEF Stages
  <1> QED BY <1>4, <1>5, <1>6, <1>7, <1>8

\* A list, a collection, an error or an enqueued blob: the sides stand still.
LEMMA SidesStill ==
  ASSUME ValidIInv, UNCHANGED <<store, atStart, ch, closed, last, epc, errc, peek>>
  PROVE  (\A x \in Sides : ShardLine(x)' /\ Ends(x)') /\ KeptDst'
  BY DEF ValidIInv, ShardLine, Ends, ShardOnTheWay, KeptDst, Past

\* The next blob of a side is above all that it has sent.
LEMMA sendBlobOK ==
  ASSUME ValidIInv, NEW y \in Sides, sendBlob(y)
  PROVE  ValidIInv'
  <1> USE DEF ValidIInv
  <1>0. "src" \in Sides /\ "dst" \in Sides BY DEF Sides
  <1>1. UNCHANGED <<store, atStart, closed, epc, errc, peek, lpc, missingc, vpc, missing, queued, canceled>>
    BY DEF sendBlob, enumUnchanged
  <1>2. PICK b \in Remaining(y) :
           /\ \A d \in Remaining(y) : b <= d
           /\ ch' = [ch EXCEPT ![y] = Append(@, b)]
           /\ last' = [last EXCEPT ![y] = b]
    BY DEF sendBlob
  <1>3. ch' = [ch EXCEPT ![y] = Append(@, b)] /\ last' = [last EXCEPT ![y] = b]
    BY <1>2
  <1>4. b \in store[y] /\ b \in Shard /\ b \in Nat /\ b # Zero /\ b > last[y]
    BY <1>2, ShardNumbers DEF Remaining
  <1>5. epc[y] = "run" /\ Len(ch[y]) < ChanCap
    BY DEF sendBlob
  <1>6. /\ ch' \in [Sides -> Seq(Shard \cup {Zero})]
        /\ last' \in [Sides -> Shard \cup {Zero}]
        /\ \A x \in Sides \ {y} : ch'[x] = ch[x] /\ last'[x] = last[x]
        /\ last'[y] = b /\ ch'[y] = Append(ch[y], b)
    BY <1>3, <1>4 DEF TypeOK
  <1>7. /\ Len(ch'[y]) = Len(ch[y]) + 1 /\ Len(ch[y]) \in Nat
        /\ \A i \in 1..Len(ch[y]) : ch'[y][i] = ch[y][i] /\ i \in 1..Len(ch'[y])
        /\ \A i \in 1..Len(ch'[y]) : i \in 1..Len(ch[y]) \/ (i = Len(ch[y]) + 1 /\ ch'[y][i] = b)
        /\ Len(ch[y]) + 1 \in 1..Len(ch'[y]) /\ ch'[y][Len(ch[y]) + 1] = b
    <2>1. ch[y] \in Seq(Shard \cup {Zero}) /\ b \in Shard \cup {Zero} BY <1>4, ShardNumbers
    <2>2. ch'[y] = Append(ch[y], b) BY <1>6
    <2> QED BY <2>1, <2>2, Appended
  <1>8. TypeOK'
    <2>1. \A x \in Sides : Len(ch'[x]) <= ChanCap
      <3> SUFFICES ASSUME NEW x \in Sides PROVE Len(ch'[x]) <= ChanCap
        OBVIOUS
      <3>1. CASE x = y
        <4>1. Len(ch[y]) \in Nat /\ ChanCap \in Nat BY ShardNumbers
        <4>2. Len(ch'[y]) = Len(ch[y]) + 1 BY <1>7
        <4> QED BY <1>5, <3>1, <4>1, <4>2
      <3>2. CASE x # y
        <4>1. Len(ch[x]) <= ChanCap BY DEF TypeOK
        <4>2. ch'[x] = ch[x] BY <1>6, <3>2
        <4> QED BY <4>1, <4>2
      <3> QED BY <3>1, <3>2
    <2>2. /\ missingc' = missingc /\ missing' = missing /\ vpc' = vpc /\ lpc' = lpc
          /\ queued' = queued /\ canceled' = canceled /\ peek' = peek
      BY <1>1
    <2>3. /\ store' = store /\ atStart' = atStart /\ closed' = closed /\ epc' = epc
          /\ errc' = errc
      BY <1>1
    <2>4. TypeOK BY DEF ValidIInv
    <2> HIDE DEF ValidIInv
    <2> QED BY <1>6, <2>1, <2>2, <2>3, <2>4 DEF TypeOK
  <1>9. ~ShardOnTheWay(y, Zero)
    BY <1>5 DEF Ends
  <1>10. \A x \in Sides : \A c : ShardOnTheWay(x, c)' <=> ShardOnTheWay(x, c) \/ (x = y /\ c = b)
    <2> SUFFICES ASSUME NEW x \in Sides, NEW c
                 PROVE  ShardOnTheWay(x, c)' <=> ShardOnTheWay(x, c) \/ (x = y /\ c = b)
      OBVIOUS
    <2>1. CASE x # y BY <1>1, <1>6, <2>1 DEF ShardOnTheWay
    <2>2. CASE x = y BY <1>1, <1>7, <2>2 DEF ShardOnTheWay
    <2> QED BY <2>1, <2>2
  <1>11. ASSUME NEW x \in Sides PROVE ShardLine(x)' /\ Ends(x)'
    <2>1. CASE x # y
      <3>1. ch'[x] = ch[x] /\ last'[x] = last[x] BY <1>6, <2>1
      <3>2. ShardLine(x)' BY <1>1, <3>1 DEF ShardLine
      <3>3. Ends(x)' BY <1>1, <1>10, <3>1, <2>1 DEF Ends
      <3> QED BY <3>2, <3>3
    <2>2. CASE x = y
      <3>1. \A i \in 1..Len(ch[y]) : ch[y][i] \in Nat /\ ch[y][i] # Zero /\ ch[y][i] < b
        <4> SUFFICES ASSUME NEW i \in 1..Len(ch[y])
                     PROVE  ch[y][i] \in Nat /\ ch[y][i] # Zero /\ ch[y][i] < b
          OBVIOUS
        <4>1. ch[y][i] # Zero BY <1>9 DEF ShardOnTheWay
        <4>2. ch[y][i] <= last[y] BY <4>1 DEF ShardLine
        <4>3. ch[y][i] \in Nat /\ last[y] \in Nat BY ShardNumbers
        <4> QED BY <1>4, <4>1, <4>2, <4>3
      <3>2. peek[y] # << >> => peek[y][1] \in Nat /\ peek[y][1] # Zero /\ peek[y][1] < b
                               /\ peek[y][1] <= b
        BY <1>4, <1>9, ShardNumbers DEF ShardLine, ShardOnTheWay
      <3>3. \A i \in 1..Len(ch'[y]) : ch'[y][i] \in store'[y] /\ ch'[y][i] <= last'[y]
        <4> SUFFICES ASSUME NEW i \in 1..Len(ch'[y])
                     PROVE  ch'[y][i] \in store[y] /\ ch'[y][i] <= b
          BY <1>1, <1>6
        <4>1. CASE i \in 1..Len(ch[y])
          <5>1. ch'[y][i] = ch[y][i] BY <1>7, <4>1
          <5>2. ch[y][i] \in Nat /\ ch[y][i] # Zero /\ ch[y][i] < b BY <3>1, <4>1
          <5>3. ch[y][i] \in store[y] BY <4>1, <5>2 DEF ShardLine
          <5> QED BY <1>4, <5>1, <5>2, <5>3
        <4>2. CASE ch'[y][i] = b BY <1>4, <4>2
        <4> QED BY <1>7, <4>1, <4>2
      <3>4. \A i, j \in 1..Len(ch'[y]) :
               i < j => ch'[y][i] # Zero /\ (ch'[y][j] # Zero => ch'[y][i] < ch'[y][j])
        <4> SUFFICES ASSUME NEW i \in 1..Len(ch'[y]), NEW j \in 1..Len(ch'[y]), i < j
                     PROVE  ch'[y][i] # Zero /\ ch'[y][i] < ch'[y][j]
          OBVIOUS
        <4>1. i \in 1..Len(ch[y]) BY <1>7
        <4>2. CASE j \in 1..Len(ch[y])
          <5>1. ch[y][j] # Zero BY <3>1, <4>2
          <5>2. ch[y][i] # Zero /\ ch[y][i] < ch[y][j] BY <4>1, <4>2, <5>1 DEF ShardLine
          <5> QED BY <1>7, <4>1, <4>2, <5>2
        <4>3. CASE ch'[y][j] = b BY <1>7, <3>1, <4>1, <4>3
        <4> QED BY <1>7, <4>2, <4>3
      <3>5. peek[y] # << >> =>
              /\ peek[y][1] # Zero /\ peek[y][1] \in store[y]
              /\ \A i \in 1..Len(ch'[y]) : peek[y][1] < ch'[y][i]
        BY <1>7, <3>1, <3>2 DEF ShardLine
      <3>6. ShardLine(y)'
        BY <1>1, <1>6, <3>2, <3>3, <3>4, <3>5 DEF ShardLine
      <3>7. Ends(y)'
        BY <1>1, <1>4, <1>5, <1>9, <1>10 DEF Ends
      <3> QED BY <2>2, <3>6, <3>7
    <2> QED BY <2>1, <2>2
  <1>12. ASSUME NEW x \in Sides, NEW c \in atStart[x], c <= last'[x]
         PROVE  c <= last[x] \/ ShardOnTheWay(x, c)'
    <2>1. CASE x # y BY <1>6, <1>12, <2>1
    <2>2. CASE x = y
      <3>1. c \in store[y] /\ c \in Nat /\ last[y] \in Nat
        BY <1>12, <2>2, ShardNumbers DEF ShardLine
      <3>2. CASE c > last[y]
        <4>1. c \in Remaining(y) BY <3>1, <3>2 DEF Remaining
        <4>2. c = b BY <1>2, <1>4, <1>6, <1>12, <2>2, <3>1, <4>1
        <4> QED BY <1>10, <2>2, <4>2
      <3> QED BY <2>2, <3>1, <3>2
    <2> QED BY <2>1, <2>2
  <1>13. KeptSrc'
    <2>1. \A c : Handled(c)' <=> Handled(c) BY <1>1 DEF Handled, Elems
    <2> QED BY <1>0, <1>1, <1>10, <1>12, <2>1 DEF KeptSrc
  <1>14. ASSUME NEW c \in Nat, Past(c) PROVE Past(c)'
    <2>1. CASE y # "src"
      <3>1. ch'["src"] = ch["src"] /\ last'["src"] = last["src"] BY <1>0, <1>6, <2>1
      <3> QED BY <1>1, <1>14, <3>1 DEF Past
    <2>2. CASE y = "src"
      <3>1. c <= last["src"] /\ last["src"] \in Nat BY <1>0, <1>14, ShardNumbers DEF Past
      <3>2. c < b BY <1>4, <2>2, <3>1
      <3>3. c <= last'["src"] BY <1>4, <1>6, <2>2, <3>2
      <3>4. \A i \in 1..Len(ch'["src"]) : ch'["src"][i] # Zero => c < ch'["src"][i]
        BY <1>7, <1>14, <2>2, <3>2 DEF Past
      <3> QED BY <1>1, <1>14, <3>3, <3>4 DEF Past
    <2> QED BY <2>1, <2>2
  <1>15. KeptDst'
    <2>1. \A c \in atStart["dst"] : c \in Nat BY <1>0, ShardNumbers
    <2> QED BY <1>0, <1>1, <1>10, <1>12, <1>14, <2>1 DEF KeptDst
  <1>16. NotThere' BY <1>1 DEF NotThere, Elems
  <1>17. Stages'
    <2>1. Drained("src") => Drained("src")'
      <3>1. CASE y = "src" BY <1>5, <3>1, <1>0 DEF Drained, Ends
      <3>2. CASE y # "src" BY <1>0, <1>1, <1>6, <3>2 DEF Drained
      <3> QED BY <3>1, <3>2
    <2> QED BY <1>0, <1>1, <1>10, <2>1 DEF Stages
  <1> QED BY <1>8, <1>11, <1>13, <1>15, <1>16, <1>17

\* The zero blob comes last.
LEMMA sendZeroOK ==
  ASSUME ValidIInv, NEW y \in Sides, sendZero(y)
  PROVE  ValidIInv'
  <1> USE DEF ValidIInv
  <1>0. "src" \in Sides /\ "dst" \in Sides BY DEF Sides
  <1>1. UNCHANGED <<store, atStart, closed, last, errc, peek, lpc, missingc, vpc, missing, queued, canceled>>
    BY DEF sendZero, enumUnchanged
  <1>2. epc[y] = "zero" /\ Len(ch[y]) < ChanCap
    BY DEF sendZero
  <1>3. /\ ch' \in [Sides -> Seq(Shard \cup {Zero})]
        /\ epc' \in [Sides -> {"run", "zero", "nil", "err", "close", "done"}]
        /\ \A x \in Sides \ {y} : ch'[x] = ch[x] /\ epc'[x] = epc[x]
        /\ epc'[y] = "err" /\ ch'[y] = Append(ch[y], Zero)
    BY DEF sendZero, TypeOK
  <1>4. /\ Len(ch'[y]) = Len(ch[y]) + 1 /\ Len(ch[y]) \in Nat
        /\ \A i \in 1..Len(ch[y]) : ch'[y][i] = ch[y][i] /\ i \in 1..Len(ch'[y])
        /\ \A i \in 1..Len(ch'[y]) : i \in 1..Len(ch[y]) \/ (i = Len(ch[y]) + 1 /\ ch'[y][i] = Zero)
        /\ Len(ch[y]) + 1 \in 1..Len(ch'[y]) /\ ch'[y][Len(ch[y]) + 1] = Zero
    <2>1. ch[y] \in Seq(Shard \cup {Zero}) /\ Zero \in Shard \cup {Zero} BY ShardNumbers
    <2>2. ch'[y] = Append(ch[y], Zero) BY <1>3
    <2> QED BY <2>1, <2>2, Appended
  <1>5. TypeOK'
    <2>0. ChanCap \in Nat BY ShardNumbers
    <2>1. \A x \in Sides : Len(ch'[x]) <= ChanCap
      <3>1. \A x \in Sides : Len(ch[x]) <= ChanCap BY DEF TypeOK
      <3>2. Len(ch'[y]) <= ChanCap BY <1>2, <1>4, <2>0
      <3> QED BY <1>3, <3>1, <3>2
    <2> QED BY <1>1, <1>3, <2>1 DEF TypeOK
  <1>6. ~ShardOnTheWay(y, Zero)
    BY <1>2 DEF Ends
  <1>7. \A x \in Sides : \A c : ShardOnTheWay(x, c)' <=> ShardOnTheWay(x, c) \/ (x = y /\ c = Zero)
    <2> SUFFICES ASSUME NEW x \in Sides, NEW c
                 PROVE  ShardOnTheWay(x, c)' <=> ShardOnTheWay(x, c) \/ (x = y /\ c = Zero)
      OBVIOUS
    <2>1. CASE x # y
      <3>1. ch'[x] = ch[x] BY <1>3, <2>1
      <3> QED BY <1>1, <2>1, <3>1 DEF ShardOnTheWay
    <2>2. CASE x = y
      <3>1. (\E i \in 1..Len(ch[y]) : ch[y][i] = c) => \E i \in 1..Len(ch'[y]) : ch'[y][i] = c
        BY <1>4
      <3>2. c = Zero => \E i \in 1..Len(ch'[y]) : ch'[y][i] = c
        BY <1>4
      <3>3. (\E i \in 1..Len(ch'[y]) : ch'[y][i] = c) =>
               c = Zero \/ \E i \in 1..Len(ch[y]) : ch[y][i] = c
        BY <1>4
      <3> QED BY <1>1, <2>2, <3>1, <3>2, <3>3 DEF ShardOnTheWay
    <2> QED BY <2>1, <2>2
  <1>8. ASSUME NEW x \in Sides PROVE ShardLine(x)' /\ Ends(x)'
    <2>1. CASE x # y
      <3>1. ch'[x] = ch[x] /\ epc'[x] = epc[x] BY <1>3, <2>1
      <3>2. ShardLine(x)' BY <1>1, <3>1 DEF ShardLine
      <3>3. Ends(x)' BY <1>1, <1>7, <3>1, <2>1 DEF Ends
      <3> QED BY <3>2, <3>3
    <2>2. CASE x = y
      <3>1. \A i \in 1..Len(ch[y]) : ch[y][i] # Zero
        BY <1>6 DEF ShardOnTheWay
      <3>2. peek[y] # << >> => peek[y][1] # Zero
        BY <1>6 DEF ShardOnTheWay
      <3>3. \A i, j \in 1..Len(ch'[y]) :
               i < j => ch'[y][i] # Zero /\ (ch'[y][j] # Zero => ch'[y][i] < ch'[y][j])
        <4> SUFFICES ASSUME NEW i \in 1..Len(ch'[y]), NEW j \in 1..Len(ch'[y]), i < j
                     PROVE  ch'[y][i] # Zero /\ (ch'[y][j] # Zero => ch'[y][i] < ch'[y][j])
          OBVIOUS
        <4>1. i \in 1..Len(ch[y]) BY <1>4
        <4>2. j \in 1..Len(ch[y]) => ch[y][i] < ch[y][j] BY <3>1, <4>1 DEF ShardLine
        <4> QED BY <1>4, <3>1, <4>1, <4>2
      <3>4. ShardLine(y)'
        BY <1>1, <1>4, <3>2, <3>3 DEF ShardLine
      <3>5. Ends(y)'
        BY <1>1, <1>2, <1>3, <1>7 DEF Ends
      <3> QED BY <2>2, <3>4, <3>5
    <2> QED BY <2>1, <2>2
  <1>9. KeptSrc'
    <2>1. \A c : Handled(c)' <=> Handled(c) BY <1>1 DEF Handled, Elems
    <2> QED BY <1>0, <1>1, <1>7, <2>1 DEF KeptSrc
  <1>10. ASSUME NEW c, Past(c) PROVE Past(c)'
    <2>1. /\ c <= last'["src"]
          /\ peek'["src"] # << >> /\ peek'["src"][1] # Zero => c < peek'["src"][1]
      BY <1>1, <1>10 DEF Past
    <2>2. ASSUME NEW i \in 1..Len(ch'["src"]), ch'["src"][i] # Zero
          PROVE  c < ch'["src"][i]
      <3>1. i \in 1..Len(ch["src"]) /\ ch'["src"][i] = ch["src"][i]
        <4>1. CASE y = "src" BY <1>4, <2>2, <4>1
        <4>2. CASE y # "src"
          <5>1. ch'["src"] = ch["src"] BY <1>0, <1>3, <4>2
          <5> QED BY <2>2, <5>1
        <4> QED BY <4>1, <4>2
      <3> QED BY <1>10, <2>2, <3>1 DEF Past
    <2> QED BY <2>1, <2>2 DEF Past
  <1>11. KeptDst' BY <1>0, <1>1, <1>7, <1>10 DEF KeptDst
  <1>12. NotThere' BY <1>1 DEF NotThere, Elems
  <1>13. Stages'
    <2>1. Drained("src") => Drained("src")'
      <3>1. CASE y = "src" BY <1>2, <3>1, <1>0 DEF Drained, Ends
      <3>2. CASE y # "src" BY <1>0, <1>1, <1>3, <3>2 DEF Drained
      <3> QED BY <3>1, <3>2
    <2> QED BY <1>0, <1>1, <1>7, <2>1 DEF Stages
  <1> QED BY <1>5, <1>8, <1>9, <1>11, <1>12, <1>13

\* The head of a channel moves to its peeker.
LEMMA ShardPeekOK ==
  ASSUME ValidIInv, NEW y \in Sides, Peek(y)
  PROVE  ValidIInv'
  <1> USE DEF ValidIInv
  <1>0. "src" \in Sides /\ "dst" \in Sides BY DEF Sides
  <1>1. UNCHANGED <<store, atStart, closed, last, epc, errc, lpc, missingc, vpc, missing, queued, canceled>>
    BY DEF Peek, listUnchanged
  <1>2. lpc = "merge" /\ peek[y] = << >> /\ ch[y] # << >>
    BY DEF Peek, Peeked
  <1>3. /\ \A x \in Sides \ {y} : ch'[x] = ch[x] /\ peek'[x] = peek[x]
        /\ ch'[y] = Tail(ch[y]) /\ peek'[y] = <<Head(ch[y])>>
    BY DEF Peek, TypeOK
  <1>4. /\ Len(ch[y]) \in Nat /\ Len(ch[y]) >= 1 /\ Len(ch'[y]) = Len(ch[y]) - 1
        /\ ch'[y] \in Seq(Shard \cup {Zero}) /\ peek'[y] \in Seq(Shard \cup {Zero})
        /\ \A i \in 1..Len(ch'[y]) : ch'[y][i] = ch[y][i + 1] /\ i + 1 \in 1..Len(ch[y])
        /\ \A i \in 1..Len(ch[y]) : i = 1 \/ (i - 1 \in 1..Len(ch'[y]) /\ ch'[y][i - 1] = ch[y][i])
        /\ 1 \in 1..Len(ch[y]) /\ peek'[y] # << >> /\ peek'[y][1] = ch[y][1] /\ Len(peek'[y]) = 1
    <2>1. ch[y] \in Seq(Shard \cup {Zero}) BY ShardNumbers
    <2>2. /\ Len(ch[y]) \in Nat /\ Len(ch[y]) >= 1 /\ Len(ch'[y]) = Len(ch[y]) - 1
          /\ ch'[y] \in Seq(Shard \cup {Zero}) /\ Head(ch[y]) = ch[y][1]
          /\ ch[y][1] \in Shard \cup {Zero}
      BY <1>2, <1>3, <2>1
    <2>3. /\ peek'[y] \in Seq(Shard \cup {Zero}) /\ peek'[y] # << >>
          /\ peek'[y][1] = ch[y][1] /\ Len(peek'[y]) = 1 /\ 1 \in 1..Len(ch[y])
      BY <1>3, <2>2
    <2>4. \A i \in 1..Len(ch'[y]) : ch'[y][i] = ch[y][i + 1] /\ i + 1 \in 1..Len(ch[y])
      BY <1>2, <1>3, <2>1, <2>2
    <2>5. \A i \in 1..Len(ch[y]) : i = 1 \/ (i - 1 \in 1..Len(ch'[y]) /\ (i - 1) + 1 = i)
      BY <2>2
    <2> QED BY <2>2, <2>3, <2>4, <2>5
  <1>5. TypeOK'
    <2>1. /\ ch' \in [Sides -> Seq(Shard \cup {Zero})]
          /\ peek' \in [Sides -> Seq(Shard \cup {Zero})]
      BY <1>4, <1>3 DEF Peek, TypeOK
    <2>2. \A x \in Sides : Len(ch'[x]) <= ChanCap
      <3>0. ChanCap \in Nat BY ShardNumbers
      <3>1. \A x \in Sides : Len(ch[x]) <= ChanCap BY DEF TypeOK
      <3>2. Len(ch'[y]) <= ChanCap BY <1>4, <3>0, <3>1
      <3> QED BY <1>3, <3>1, <3>2
    <2> QED BY <1>1, <2>1, <2>2 DEF TypeOK
  <1>6. \A x \in Sides : \A c : ShardOnTheWay(x, c)' <=> ShardOnTheWay(x, c)
    <2> SUFFICES ASSUME NEW x \in Sides, NEW c
                 PROVE  ShardOnTheWay(x, c)' <=> ShardOnTheWay(x, c)
      OBVIOUS
    <2>1. CASE x # y BY <1>3, <2>1 DEF ShardOnTheWay
    <2>2. CASE x = y
      <3>1. ShardOnTheWay(y, c) <=> \E i \in 1..Len(ch[y]) : ch[y][i] = c
        BY <1>2 DEF ShardOnTheWay
      <3>2. ShardOnTheWay(y, c)' <=> ch[y][1] = c \/ \E i \in 1..Len(ch'[y]) : ch'[y][i] = c
        BY <1>4 DEF ShardOnTheWay
      <3>3. ASSUME NEW i \in 1..Len(ch[y]), ch[y][i] = c PROVE ShardOnTheWay(y, c)'
        BY <1>4, <3>2, <3>3
      <3>4. ASSUME NEW i \in 1..Len(ch'[y]), ch'[y][i] = c PROVE ShardOnTheWay(y, c)
        BY <1>4, <3>1, <3>4
      <3>5. ch[y][1] = c => ShardOnTheWay(y, c)
        BY <1>4, <3>1
      <3> QED BY <2>2, <3>1, <3>2, <3>3, <3>4, <3>5
    <2> QED BY <2>1, <2>2
  <1>7. ASSUME NEW x \in Sides PROVE ShardLine(x)'
    <2>1. CASE x # y BY <1>1, <1>3, <2>1 DEF ShardLine
    <2>2. CASE x = y
      <3>1. \A i \in 1..Len(ch'[y]) :
               ch'[y][i] # Zero => ch'[y][i] \in store[y] /\ ch'[y][i] <= last[y]
        BY <1>4 DEF ShardLine
      <3>2. \A i, j \in 1..Len(ch'[y]) :
               i < j => ch'[y][i] # Zero /\ (ch'[y][j] # Zero => ch'[y][i] < ch'[y][j])
        <4> SUFFICES ASSUME NEW i \in 1..Len(ch'[y]), NEW j \in 1..Len(ch'[y]), i < j
                     PROVE  ch'[y][i] # Zero /\ (ch'[y][j] # Zero => ch'[y][i] < ch'[y][j])
          OBVIOUS
        <4>1. i + 1 < j + 1 OBVIOUS
        <4>2. i + 1 \in 1..Len(ch[y]) /\ j + 1 \in 1..Len(ch[y])
              /\ ch'[y][i] = ch[y][i + 1] /\ ch'[y][j] = ch[y][j + 1]
          BY <1>4
        <4> QED BY <4>1, <4>2 DEF ShardLine
      <3>3. \A i \in 1..Len(ch'[y]) : ch[y][1] # Zero /\ (ch'[y][i] # Zero => ch[y][1] < ch'[y][i])
        <4> SUFFICES ASSUME NEW i \in 1..Len(ch'[y])
                     PROVE  ch[y][1] # Zero /\ (ch'[y][i] # Zero => ch[y][1] < ch'[y][i])
          OBVIOUS
        <4>1. 1 < i + 1 BY <1>4
        <4>2. i + 1 \in 1..Len(ch[y]) /\ ch'[y][i] = ch[y][i + 1] /\ 1 \in 1..Len(ch[y])
          BY <1>4
        <4> QED BY <4>1, <4>2 DEF ShardLine
      <3>4. ch[y][1] # Zero => ch[y][1] \in store[y] /\ ch[y][1] <= last[y]
        BY <1>4 DEF ShardLine
      <3>5. ch[y][1] = Zero => ch'[y] = << >>
        <4>1. Len(ch'[y]) \in Nat BY <1>4
        <4>2. Len(ch'[y]) # 0 => 1 \in 1..Len(ch'[y]) BY <4>1
        <4>3. ch[y][1] = Zero => Len(ch'[y]) = 0 BY <3>3, <4>2
        <4>4. Len(ch'[y]) = 0 => ch'[y] = << >> BY <1>4
        <4> QED BY <4>3, <4>4
      <3>6. Len(peek'[y]) <= 1 /\ peek'[y][1] = ch[y][1] BY <1>4
      <3>7. atStart[y] \subseteq store[y] BY DEF ShardLine
      <3>8. store' = store /\ atStart' = atStart /\ last' = last BY <1>1
      <3>9. peek'[y] # << >> /\ peek'[y][1] # Zero =>
               /\ peek'[y][1] \in store[y] /\ peek'[y][1] <= last[y]
               /\ \A i \in 1..Len(ch'[y]) : ch'[y][i] # Zero => peek'[y][1] < ch'[y][i]
        BY <3>3, <3>4, <3>6
      <3>10. peek'[y] # << >> /\ peek'[y][1] = Zero => ch'[y] = << >> BY <3>5, <3>6
      <3>11. ShardLine(y)'
        BY <3>1, <3>2, <3>6, <3>7, <3>8, <3>9, <3>10 DEF ShardLine
      <3> QED BY <2>2, <3>11
    <2> QED BY <2>1, <2>2
  <1>8. \A x \in Sides : Ends(x)'
    BY <1>1, <1>6 DEF Ends
  <1>9. KeptSrc'
    <2>1. \A c : Handled(c)' <=> Handled(c) BY <1>1 DEF Handled, Elems
    <2> QED BY <1>0, <1>1, <1>6, <2>1 DEF KeptSrc
  <1>10. ASSUME NEW c, Past(c) PROVE Past(c)'
    <2>1. CASE y # "src"
      <3>1. ch'["src"] = ch["src"] /\ peek'["src"] = peek["src"] /\ last'["src"] = last["src"]
        BY <1>0, <1>1, <1>3, <2>1
      <3> QED BY <1>10, <3>1 DEF Past
    <2>2. CASE y = "src"
      <3>1. \A i \in 1..Len(ch[y]) : ch[y][i] # Zero => c < ch[y][i]
        BY <1>10, <2>2 DEF Past
      <3>2. peek'[y][1] # Zero => c < peek'[y][1]
        BY <1>4, <3>1
      <3>3. \A i \in 1..Len(ch'[y]) : ch'[y][i] # Zero => c < ch'[y][i]
        BY <1>4, <3>1
      <3>4. c <= last'["src"]
        BY <1>1, <1>10 DEF Past
      <3> QED BY <2>2, <3>2, <3>3, <3>4 DEF Past
    <2> QED BY <2>1, <2>2
  <1>11. KeptDst' BY <1>0, <1>1, <1>6, <1>10 DEF KeptDst
  <1>12. NotThere' BY <1>1 DEF NotThere, Elems
  <1>13. Stages' BY <1>1, <1>2 DEF Stages
  <1> QED BY <1>5, <1>7, <1>8, <1>9, <1>11, <1>12, <1>13

\* The merge gives up a peeked blob: the rest of its side is as it was.
LEMMA Unpeeked ==
  ASSUME ValidIInv, NEW Gone \in SUBSET Sides,
         \A x \in Gone : peek[x] # << >> /\ peek[x][1] # Zero,
         peek' = [x \in Sides |-> IF x \in Gone THEN << >> ELSE peek[x]],
         UNCHANGED <<store, atStart, ch, closed, last, epc, errc>>
  PROVE  /\ peek' \in [Sides -> Seq(Shard \cup {Zero})]
         /\ \A x \in Sides : ShardLine(x)' /\ Ends(x)'
         /\ \A x \in Sides : \A c : ShardOnTheWay(x, c)' => ShardOnTheWay(x, c)
         /\ \A x \in Sides : \A c : ShardOnTheWay(x, c) => ShardOnTheWay(x, c)' \/ (x \in Gone /\ c = peek[x][1])
         /\ \A c : Past(c) => Past(c)'
  <1> USE DEF ValidIInv
  <1>0. "src" \in Sides /\ "dst" \in Sides BY DEF Sides
  <1>1. \A x \in Sides : peek'[x] = (IF x \in Gone THEN << >> ELSE peek[x])
    OBVIOUS
  <1>2. peek' \in [Sides -> Seq(Shard \cup {Zero})]
    <2>1. << >> \in Seq(Shard \cup {Zero}) OBVIOUS
    <2> QED BY <2>1 DEF TypeOK
  <1>3. \A x \in Sides : \A c : ShardOnTheWay(x, c)' => ShardOnTheWay(x, c)
    BY <1>1 DEF ShardOnTheWay
  <1>4. \A x \in Sides : \A c : ShardOnTheWay(x, c) => ShardOnTheWay(x, c)' \/ (x \in Gone /\ c = peek[x][1])
    BY <1>1 DEF ShardOnTheWay
  <1>5. \A x \in Sides : ShardOnTheWay(x, Zero)' <=> ShardOnTheWay(x, Zero)
    BY <1>3, <1>4
  <1>6. \A x \in Sides : Ends(x)'
    BY <1>5 DEF Ends
  <1>7. ASSUME NEW x \in Sides PROVE ShardLine(x)'
    <2>1. CASE x \in Gone
      <3>1. peek'[x] = << >> /\ Len(peek'[x]) <= 1 BY <1>1, <2>1
      <3> QED BY <3>1 DEF ShardLine
    <2>2. CASE x \notin Gone
      <3>1. peek'[x] = peek[x] BY <1>1, <2>2
      <3> QED BY <3>1 DEF ShardLine
    <2> QED BY <2>1, <2>2
  <1>8. \A c : Past(c) => Past(c)'
    <2>1. peek'["src"] # << >> => peek'["src"] = peek["src"] BY <1>0, <1>1
    <2> QED BY <2>1 DEF Past
  <1> QED BY <1>2, <1>3, <1>4, <1>6, <1>7, <1>8

\* ListMissingDestinationBlobs stops at the end of the source, or at the zero blob
\* of an enumeration that failed.
LEMMA listStopsOK == ASSUME ValidIInv, listStops PROVE ValidIInv'
  <1> USE DEF ValidIInv
  <1>0. "src" \in Sides /\ "dst" \in Sides BY DEF Sides
  <1>1. UNCHANGED <<store, atStart, ch, closed, last, epc, errc, peek, missingc, vpc, missing, queued, canceled>>
        /\ lpc' = "closed"
    BY DEF listStops, returnFromList, listUnchanged
  <1>2. TypeOK' BY <1>1 DEF TypeOK
  <1>3. KeptSrc' /\ NotThere' BY <1>1 DEF KeptSrc, NotThere, Handled, Elems, ShardOnTheWay
  <1>4. Drained("src") \/ ShardOnTheWay("src", Zero) \/ ShardOnTheWay("dst", Zero)
    <2>1. <<Zero>> # << >> /\ <<Zero>>[1] = Zero OBVIOUS
    <2> QED BY <2>1 DEF listStops, ShardOnTheWay
  <1>5. Stages'
    <2>1. Drained("src")' \/ ShardOnTheWay("src", Zero)' \/ ShardOnTheWay("dst", Zero)'
      BY <1>1, <1>4 DEF Drained, ShardOnTheWay
    <2> QED BY <1>1, <2>1 DEF Stages
  <1> QED BY <1>1, <1>2, <1>3, <1>5, SidesStill

\* What is reported missing was not at the destination at first.
LEMMA MissingNew ==
  ASSUME ValidIInv, isMissing
  PROVE  peek["src"] # << >> /\ peek["src"][1] # Zero /\ peek["src"][1] \notin atStart["dst"]
  <1> USE DEF ValidIInv
  <1>0. "src" \in Sides /\ "dst" \in Sides BY DEF Sides
  <1> DEFINE b == peek["src"][1]
  <1>1. peek["src"] # << >> /\ b # Zero
    <2>1. peek["src"] # << >> /\ peek["src"] # <<Zero>> BY DEF isMissing, Peeked
    <2> QED BY <1>0, <2>1, Single
  <1>2. b \in Nat BY <1>0, <1>1, ShardNumbers
  <1>3. ~Past(b) BY <1>1, <1>2 DEF Past
  <1>4. ASSUME b \in atStart["dst"] PROVE FALSE
    <2>1. CASE Drained("dst")
      <3>1. epc["dst"] = "done" /\ ~ShardOnTheWay("dst", Zero) /\ ~ShardOnTheWay("dst", b)
        BY <1>0, <2>1 DEF Drained, Ends, ShardOnTheWay
      <3>2. errc["dst"] = "nil" BY <1>0, <3>1 DEF Ends
      <3>3. b <= last["dst"] BY <1>0, <1>4, <3>2 DEF Ends
      <3> QED BY <1>3, <1>4, <3>1, <3>3 DEF KeptDst
    <2>2. CASE Peeked("dst") /\ peek["dst"] # <<Zero>> /\ b < peek["dst"][1]
      <3>1. peek["dst"] # << >> /\ peek["dst"][1] # Zero
        BY <1>0, <2>2, Single DEF Peeked
      <3>2. peek["dst"][1] \in Nat /\ last["dst"] \in Nat BY <1>0, <3>1, ShardNumbers
      <3>3. b <= last["dst"]
        <4>1. peek["dst"][1] <= last["dst"] BY <1>0, <3>1 DEF ShardLine
        <4> QED BY <1>2, <2>2, <3>2, <4>1
      <3>4. \A i \in 1..Len(ch["dst"]) : ch["dst"][i] # b
        <4> SUFFICES ASSUME NEW i \in 1..Len(ch["dst"]), ch["dst"][i] = b PROVE FALSE
          OBVIOUS
        <4>1. peek["dst"][1] < b BY <1>0, <1>1, <3>1 DEF ShardLine
        <4> QED BY <1>2, <2>2, <3>2, <4>1
      <3>5. ~ShardOnTheWay("dst", b) BY <1>2, <2>2, <3>2, <3>4 DEF ShardOnTheWay
      <3> QED BY <1>3, <1>4, <3>3, <3>5 DEF KeptDst
    <2> QED BY <2>1, <2>2 DEF isMissing
  <1> QED BY <1>1, <1>4

\* A blob of the source that is below what the destination sends next is reported,
\* and the destination did not have it at the start.
LEMMA sendMissingOK == ASSUME ValidIInv, sendMissing PROVE ValidIInv'
  <1> USE DEF ValidIInv
  <1>0. "src" \in Sides /\ "dst" \in Sides BY DEF Sides
  <1> DEFINE b == peek["src"][1]
  <1>1. /\ UNCHANGED <<store, atStart, ch, closed, last, epc, errc, lpc, vpc, missing, queued, canceled>>
        /\ missingc' = Append(missingc, b) /\ lpc = "merge" /\ Len(missingc) < MissingCap /\ isMissing
    BY DEF sendMissing, listUnchanged
  <1>2. peek["src"] # << >> /\ b # Zero /\ b \notin atStart["dst"]
    BY <1>1, MissingNew
  <1>3. peek' = [x \in Sides |-> IF x \in {"src"} THEN << >> ELSE peek[x]]
    BY <1>0 DEF sendMissing, TypeOK
  <1>4. /\ peek' \in [Sides -> Seq(Shard \cup {Zero})]
        /\ \A x \in Sides : ShardLine(x)' /\ Ends(x)'
        /\ \A x \in Sides : \A c : ShardOnTheWay(x, c)' => ShardOnTheWay(x, c)
        /\ \A x \in Sides : \A c : ShardOnTheWay(x, c) => ShardOnTheWay(x, c)' \/ (x \in {"src"} /\ c = peek[x][1])
        /\ \A c : Past(c) => Past(c)'
    BY <1>0, <1>1, <1>2, <1>3, Unpeeked
  <1>5. b \in Shard BY <1>0, <1>2, ShardNumbers
  <1> HIDE DEF b
  <1>6. missingc \in Seq(Shard) BY DEF TypeOK
  <1>7. Elems(missingc') = Elems(missingc) \cup {b} BY <1>1, <1>5, <1>6, ElemsAppend
  <1>8. TypeOK'
    <2>1. missingc' \in Seq(Shard) /\ Len(missingc') <= MissingCap
      <3>1. MissingCap \in Nat BY ShardNumbers
      <3> QED BY <1>1, <1>5, <1>6, <3>1
    <2> QED BY <1>1, <1>4, <2>1 DEF TypeOK
  <1>9. KeptSrc'
    <2>1. \A c : Handled(c) \/ c = b => Handled(c)' BY <1>1, <1>7 DEF Handled, Elems
    <2> QED BY <1>0, <1>1, <1>4, <2>1 DEF KeptSrc, b
  <1>10. KeptDst' BY <1>0, <1>1, <1>4, Zenon DEF KeptDst
  <1>11. NotThere' BY <1>1, <1>2, <1>7 DEF NotThere, Elems
  <1>12. Stages' BY <1>1 DEF Stages
  <1> QED BY <1>4, <1>8, <1>9, <1>10, <1>11, <1>12

\* A blob that is not reported is taken off: the destination has sent it, or it is
\* below the next of the source.
LEMMA skipBlobOK == ASSUME ValidIInv, skipBlob PROVE ValidIInv'
  <1> USE DEF ValidIInv
  <1>0. "src" \in Sides /\ "dst" \in Sides /\ Sides = {"src", "dst"} BY DEF Sides
  <1> DEFINE b == peek["src"][1]
             d == peek["dst"][1]
             Gone == IF peek["src"] = peek["dst"] THEN Sides ELSE {"dst"}
  <1>1. /\ UNCHANGED <<store, atStart, ch, closed, last, epc, errc, lpc, missingc, vpc, missing, queued, canceled>>
        /\ lpc = "merge" /\ d <= b
        /\ \A x \in Sides : peek[x] # << >> /\ peek[x] # <<Zero>>
    BY DEF skipBlob, listUnchanged, Peeked
  <1>2. \A x \in Sides : peek[x] # << >> /\ peek[x][1] # Zero /\ peek[x] = <<peek[x][1]>>
    BY <1>1, Single
  <1>3. peek' = [x \in Sides |-> IF x \in Gone THEN << >> ELSE peek[x]]
    BY <1>0 DEF skipBlob
  <1>4. Gone \in SUBSET Sides BY <1>0
  <1>5. Gone = {"dst"} \/ (Gone = Sides /\ b = d) BY <1>0
  <1>6. Gone = {"dst"} => b # d BY <1>0, <1>2
  <1>7. b \in Nat /\ d \in Nat /\ b \in store["src"] /\ d \in store["dst"] /\ b <= last["src"]
        /\ last["src"] \in Nat
    BY <1>0, <1>2, ShardNumbers DEF ShardLine
  <1> HIDE DEF Gone
  <1>8. /\ peek' \in [Sides -> Seq(Shard \cup {Zero})]
        /\ \A x \in Sides : ShardLine(x)' /\ Ends(x)'
        /\ \A x \in Sides : \A c : ShardOnTheWay(x, c)' => ShardOnTheWay(x, c)
        /\ \A x \in Sides : \A c : ShardOnTheWay(x, c) => ShardOnTheWay(x, c)' \/ (x \in Gone /\ c = peek[x][1])
        /\ \A c : Past(c) => Past(c)'
    BY <1>1, <1>2, <1>3, <1>4, Unpeeked
  <1>9. TypeOK' BY <1>1, <1>8 DEF TypeOK
  <1>10. KeptSrc'
    <2>1. \A c : Handled(c) <=> Handled(c)' BY <1>1 DEF Handled, Elems
    <2>2. "src" \in Gone => Handled(b) BY <1>0, <1>5, <1>7 DEF Handled
    <2> QED BY <1>0, <1>1, <1>8, <2>1, <2>2 DEF KeptSrc
  <1>11. ASSUME NEW c, c = d PROVE Past(c)'
    <2>1. \A i \in 1..Len(ch["src"]) : ch["src"][i] # Zero => d < ch["src"][i]
      <3> SUFFICES ASSUME NEW i \in 1..Len(ch["src"]), ch["src"][i] # Zero PROVE d < ch["src"][i]
        OBVIOUS
      <3>1. b < ch["src"][i] /\ ch["src"][i] \in Nat BY <1>0, <1>2, ShardNumbers DEF ShardLine
      <3> QED BY <1>1, <1>7, <3>1
    <2>2. d <= last["src"] BY <1>1, <1>7
    <2>3. peek'["src"] # << >> => d < peek'["src"][1]
      <3>1. peek'["src"] # << >> => Gone = {"dst"} /\ peek'["src"] = peek["src"]
        BY <1>0, <1>3, <1>5
      <3>2. Gone = {"dst"} => d < b BY <1>1, <1>6, <1>7
      <3> QED BY <3>1, <3>2
    <2> QED BY <1>1, <1>11, <2>1, <2>2, <2>3 DEF Past
  <1>12. KeptDst'
    <2> SUFFICES ASSUME NEW c \in atStart["dst"], c <= last["dst"]
                 PROVE  ShardOnTheWay("dst", c)' \/ Past(c)'
      BY <1>1 DEF KeptDst
    <2>1. ShardOnTheWay("dst", c) \/ Past(c) BY DEF KeptDst
    <2> QED BY <1>0, <1>8, <1>11, <2>1
  <1>13. NotThere' BY <1>1 DEF NotThere, Elems
  <1>14. Stages' BY <1>1 DEF Stages
  <1> QED BY <1>8, <1>9, <1>10, <1>12, <1>13, <1>14

\* validateShardPrefix takes what the merge reports.
LEMMA collectOK == ASSUME ValidIInv, collect PROVE ValidIInv'
  <1> USE DEF ValidIInv
  <1>1. /\ UNCHANGED <<store, atStart, ch, closed, last, epc, errc, peek, lpc, vpc, queued, canceled>>
        /\ vpc = "collect" /\ missingc # << >>
        /\ missing' = Append(missing, Head(missingc)) /\ missingc' = Tail(missingc)
    BY DEF collect, validUnchanged
  <1>2. missingc \in Seq(Shard) /\ missing \in Seq(Shard) BY DEF TypeOK
  <1>3. /\ Elems(missingc) = Elems(missingc') \cup {Head(missingc)} /\ Head(missingc) \in Shard
        /\ missingc' \in Seq(Shard) /\ Len(missingc') = Len(missingc) - 1
    BY <1>1, <1>2, ElemsTail
  <1>4. Elems(missing') = Elems(missing) \cup {Head(missingc)}
    BY <1>1, <1>2, <1>3, ElemsAppend
  <1>5. TypeOK'
    <2>1. Len(missingc') <= MissingCap
      <3>1. MissingCap \in Nat /\ Len(missingc) <= MissingCap /\ Len(missingc) \in Nat
        BY <1>2, ShardNumbers DEF TypeOK
      <3> QED BY <1>3, <3>1
    <2>2. missing' \in Seq(Shard) BY <1>1, <1>2, <1>3
    <2> QED BY <1>1, <1>3, <2>1, <2>2 DEF TypeOK
  <1>6. Elems(missingc') \cup Elems(missing') = Elems(missingc) \cup Elems(missing)
    BY <1>3, <1>4
  <1>7. KeptSrc'
    <2>1. \A c : Handled(c) <=> Handled(c)' BY <1>1, <1>6 DEF Handled
    <2>2. \A c : ShardOnTheWay("src", c) <=> ShardOnTheWay("src", c)' BY <1>1 DEF ShardOnTheWay
    <2> QED BY <1>1, <2>1, <2>2 DEF KeptSrc
  <1>8. NotThere' BY <1>1, <1>6 DEF NotThere
  <1>9. Stages' BY <1>1 DEF Stages, Drained, ShardOnTheWay
  <1> QED BY <1>1, <1>5, <1>7, <1>8, <1>9, SidesStill

\* The merge is over; then the errors are waited for, and the work ends.
LEMMA StageOK ==
  ASSUME ValidIInv,
         collected \/ getErr("src", "srcErr", "dstErr") \/ getErr("dst", "dstErr", "enqueue")
         \/ validated
  PROVE  ValidIInv'
  <1> USE DEF ValidIInv
  <1>0. "src" \in Sides /\ "dst" \in Sides BY DEF Sides
  <1>1. UNCHANGED <<store, atStart, ch, closed, last, epc, errc, peek, lpc, missingc, missing, queued>>
    BY DEF collected, getErr, validated, validUnchanged
  <1>2. vpc' \in {"collect", "srcErr", "dstErr", "enqueue", "enqueueErr", "done", "failed"}
    BY DEF collected, getErr, validated, TypeOK
  <1>3. canceled' \in BOOLEAN
    <2>1. canceled \in BOOLEAN BY DEF TypeOK
    <2>2. CASE UNCHANGED canceled BY <2>1, <2>2, Zenon
    <2>3. CASE canceled' = TRUE BY <2>3, Zenon
    <2>4. CASE canceled' = (errc["src"] # "nil") BY <2>4, Zenon
    <2>5. CASE canceled' = (errc["dst"] # "nil") BY <2>5, Zenon
    <2> QED BY <2>2, <2>3, <2>4, <2>5 DEF collected, getErr, validated
  <1>4. TypeOK' BY <1>1, <1>2, <1>3 DEF TypeOK
  <1>5. KeptSrc'
    <2>1. \A c : Handled(c) <=> Handled(c)' BY <1>1 DEF Handled, Elems
    <2>2. \A c : ShardOnTheWay("src", c) <=> ShardOnTheWay("src", c)' BY <1>1 DEF ShardOnTheWay
    <2>3. vpc \in {"enqueueErr", "failed"} => vpc' = "failed"
      BY DEF collected, getErr, validated
    <2> QED BY <1>1, <2>1, <2>2, <2>3 DEF KeptSrc
  <1>6. NotThere' BY <1>1 DEF NotThere, Elems
  <1>7. Stages'
    <2>1. (Drained("src") <=> Drained("src")') /\ \A x \in Sides : ShardOnTheWay(x, Zero) <=> ShardOnTheWay(x, Zero)'
      BY <1>1 DEF Drained, ShardOnTheWay
    <2>2. CASE collected BY <1>0, <1>1, <2>1, <2>2 DEF collected, Stages
    <2>3. CASE getErr("src", "srcErr", "dstErr") BY <1>0, <1>1, <2>1, <2>3 DEF getErr, Stages
    <2>4. CASE getErr("dst", "dstErr", "enqueue") BY <1>0, <1>1, <2>1, <2>4 DEF getErr, Stages
    <2>5. CASE validated BY <1>0, <1>1, <2>1, <2>5 DEF validated, Stages
    <2> QED BY <2>2, <2>3, <2>4, <2>5
  <1> QED BY <1>1, <1>4, <1>5, <1>6, <1>7, SidesStill

\* A missing blob is enqueued, or its error is kept.
LEMMA enqueueOK == ASSUME ValidIInv, enqueue PROVE ValidIInv'
  <1> USE DEF ValidIInv
  <1>0. "src" \in Sides /\ "dst" \in Sides BY DEF Sides
  <1>1. /\ UNCHANGED <<store, atStart, ch, closed, last, epc, errc, peek, lpc, missingc, canceled>>
        /\ vpc \in {"enqueue", "enqueueErr"} /\ missing # << >> /\ missing' = Tail(missing)
    BY DEF enqueue, validUnchanged
  <1>2. \/ queued' = queued \cup {Head(missing)} /\ vpc' = vpc
        \/ vpc' = "enqueueErr" /\ queued' = queued
    BY DEF enqueue
  <1>3. missing \in Seq(Shard) BY DEF TypeOK
  <1>4. /\ Elems(missing) = Elems(missing') \cup {Head(missing)} /\ Head(missing) \in Shard
        /\ missing' \in Seq(Shard)
    BY <1>1, <1>3, ElemsTail
  <1>5. TypeOK'
    <2>1. queued' \subseteq Shard
      BY <1>2, <1>4 DEF TypeOK
    <2>2. vpc' \in {"enqueue", "enqueueErr"} BY <1>1, <1>2
    <2> QED BY <1>1, <1>4, <2>1, <2>2 DEF TypeOK
  <1>6. KeptSrc'
    <2>1. vpc' # "enqueueErr" => \A c : Handled(c) => Handled(c)'
      BY <1>1, <1>2, <1>4 DEF Handled, Elems
    <2>2. \A c : ShardOnTheWay("src", c) <=> ShardOnTheWay("src", c)' BY <1>1 DEF ShardOnTheWay
    <2>3. vpc' \in {"enqueueErr", "failed"} \/ vpc' = vpc BY <1>2
    <2> QED BY <1>1, <2>1, <2>2, <2>3 DEF KeptSrc
  <1>7. NotThere' BY <1>1, <1>2, <1>4 DEF NotThere
  <1>8. Stages'
    <2>1. (Drained("src") <=> Drained("src")') /\ \A x \in Sides : ShardOnTheWay(x, Zero) <=> ShardOnTheWay(x, Zero)'
      BY <1>1 DEF Drained, ShardOnTheWay
    <2> QED BY <1>0, <1>1, <1>2, <2>1 DEF Stages
  <1> QED BY <1>1, <1>5, <1>6, <1>7, <1>8, SidesStill

\* Every step keeps the invariant.
LEMMA ValidStepOK == ASSUME ValidIInv, [Next]_vars PROVE ValidIInv'
  <1>1. CASE Next
    BY <1>1, StoreBlobOK, EnumEndOK, sendBlobOK, sendZeroOK, ShardPeekOK, listStopsOK, sendMissingOK,
       skipBlobOK, collectOK, StageOK, enqueueOK DEF Next, Goroutines
  <1>2. CASE UNCHANGED vars
    <2>1. UNCHANGED <<store, atStart, ch, closed, last, epc, errc, peek, lpc, missingc, vpc,
                      missing, queued, canceled>>
      BY <1>2 DEF vars
    <2>2. TypeOK' BY <2>1 DEF ValidIInv, TypeOK
    <2>3. \A x \in Sides : ShardLine(x)' BY <2>1 DEF ValidIInv, ShardLine
    <2>4. \A x \in Sides : Ends(x)' BY <2>1 DEF ValidIInv, Ends, ShardOnTheWay
    <2>5. KeptDst' BY <2>1 DEF ValidIInv, KeptDst, Past, ShardOnTheWay
    <2>6. KeptSrc' BY <2>1 DEF ValidIInv, KeptSrc, Past, Handled, Elems, ShardOnTheWay
    <2>7. NotThere' BY <2>1 DEF ValidIInv, NotThere, Handled, Elems
    <2>8. Stages' BY <2>1 DEF ValidIInv, Stages, Drained, ShardOnTheWay
    <2> QED BY <2>2, <2>3, <2>4, <2>5, <2>6, <2>7, <2>8 DEF ValidIInv
  <1> QED BY <1>1, <1>2

\* The invariant needs no fairness.
LEMMA ValidationInvariant == Init /\ [][Next]_vars => []ValidIInv
  <1>1. Init => ValidIInv BY ValidInitial
  <1>2. ValidIInv /\ [Next]_vars => ValidIInv' BY ValidStepOK
  <1> QED BY <1>1, <1>2, PTL

\* ShardAccounted, for every shard, every capacity and every fault.
THEOREM ValidationSafety == Spec => [](TypeOK /\ ShardAccounted)
  <1>1. ValidIInv => TypeOK /\ ShardAccounted BY ValidAtTheEnd DEF ValidIInv
  <1> QED BY <1>1, ValidationInvariant, PTL DEF Spec
=============================================================================
