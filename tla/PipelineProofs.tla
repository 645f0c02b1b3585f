--------------------------- MODULE PipelineProofs ---------------------------
(***************************************************************************)
(* What MergedEnum and StatBatch promise, for all values of their          *)
(* constants: one section for each, with its inductive invariant and the   *)
(* lemmas on its actions, and then the theorems.                           *)
(***************************************************************************)
EXTENDS Pipelines, ValidationProofs, Sequences, FiniteSetTheorems, TLAPS

\* A leaf is tried with Zenon first, which is the quicker of the two here.
USE ZenonT(5), SMTT(60)

-----------------------------------------------------------------------------
(***************************************************************************)
(* mergedEnumerate, for any sources, any capacity of their channels and    *)
(* any limit: dest gets the blobs of the union of the sources in order,    *)
(* each once, up to the limit.                                             *)
(*                                                                         *)
(* The blobs of a source come in order (Line); what a source has sent is   *)
(* on its way or not above the last blob of dest (Kept), and what is not   *)
(* above it and belongs to a source that has not failed was sent           *)
(* (Covered). A source stops at the limit too, and then dest has as many   *)
(* blobs (Counted, LimitReached): each blob the source has passed was      *)
(* sent, and there are as many of them as the limit says.                  *)
(***************************************************************************)

\* The blobs sent to dest.
Sent == {mDest[i] : i \in 1..Len(mDest)}

\* What a source has sent so far.
Passed(s) == {b \in mHave[s] : After < b /\ b <= mLast[s]}

\* A blob on its way from a source to the merge.
OnTheWay(s, b) ==
  \/ mPeek[s] # << >> /\ mPeek[s][1] = b
  \/ \E i \in 1..Len(mCh[s]) : mCh[s][i] = b

\* The peeker and the channel of a source hold blobs of it in order.
Line(s) ==
  /\ Len(mPeek[s]) <= 1
  /\ After <= mLast[s]
  /\ mPeek[s] # << >> => /\ mPeek[s][1] \in Passed(s)
                         /\ \A i \in 1..Len(mCh[s]) : mPeek[s][1] < mCh[s][i]
  /\ \A i \in 1..Len(mCh[s]) : mCh[s][i] \in Passed(s)
  /\ \A i, j \in 1..Len(mCh[s]) : i < j => mCh[s][i] < mCh[s][j]

\* What a source has sent is on its way, or not above the last blob of dest.
Kept(s) == \A b \in Passed(s) : OnTheWay(s, b) \/ Merged!tooLow(b)

\* The source has counted what it has sent, and stops at its end or at the limit.
Counted(s) ==
  /\ Cardinality(Passed(s)) = mSent[s]
  /\ mSpc[s] = "nil" => Merged!Remaining(s) = {} \/ mSent[s] = Limit

\* No blob of a source that has not failed is left out.
Covered(s) == mSpc[s] # "err" => \A b \in mHave[s] : After < b /\ Merged!tooLow(b) => b \in Sent

\* The blobs sent are of the union, in order.
Ordered == \A i \in 1..Len(mDest) : mDest[i] \in Merged!Union /\ \A j \in 1..(i - 1) : mDest[j] < mDest[i]

\* How the loop has ended.
Ended ==
  /\ mMpc # "merge" => Len(mDest) = Limit \/ \A s \in Sources : Merged!Closed(s)
  /\ mMpc = "nil" => \A s \in Sources : mSpc[s] = "nil"

\* The inductive invariant.
MergedIInv == /\ Merged!TypeOK /\ Ordered /\ Ended
              /\ \A s \in Sources : Line(s) /\ Kept(s) /\ Counted(s) /\ Covered(s)

-----------------------------------------------------------------------------
\* A set of numbers that is not empty has a least element.
LEMMA LeastIs ==
  ASSUME NEW S \in SUBSET Nat, S # {}
  PROVE  Merged!Least(S) \in S /\ \A c \in S : Merged!Least(S) <= c
  <1>1. \E b \in S : \A c \in S : b <= c
    <2> DEFINE R == OpToRel(<, Nat)
    <2>1. \A b, c \in Nat : <<b, c>> \in R <=> b < c
      BY DEF OpToRel
    <2>2. IsWellFoundedOn(R, Nat)
      BY NatLessThanWellFounded
    <2> HIDE DEF R
    <2>3. PICK b \in S : \A c \in S : ~(<<c, b>> \in R)
      BY <2>2, WFMin
    <2>4. b \in Nat /\ \A c \in S : c \in Nat /\ ~(c < b) BY <2>1, <2>3
    <2> QED BY <2>4
  <1> QED BY <1>1 DEF Merged!Least

\* The elements of the state are numbers.
LEMMA Numbers ==
  ASSUME Merged!TypeOK
  PROVE  /\ \A s \in Sources : mHave[s] \subseteq Nat /\ mHave[s] \subseteq Blobs /\ mLast[s] \in Nat
         /\ \A s \in Sources : \A i \in 1..Len(mCh[s]) : mCh[s][i] \in Nat
         /\ \A s \in Sources : mPeek[s] # << >> => mPeek[s][1] \in Nat
         /\ \A i \in 1..Len(mDest) : mDest[i] \in Nat
         /\ mDest # << >> => Len(mDest) \in 1..Len(mDest) /\ mDest[Len(mDest)] \in Nat
  <1> USE DEF Merged!TypeOK
  <1>1. Blobs \subseteq Nat /\ Stores \subseteq SUBSET Blobs /\ After \in Nat
    BY AnsweringAssumption DEF Merged!MergedEnumAssumption
  <1>2. \A s \in Sources : mHave[s] \in Stores /\ mLast[s] \in Blobs \cup {After}
    OBVIOUS
  <1>3. \A s \in Sources : mCh[s] \in Seq(Blobs) /\ mPeek[s] \in Seq(Blobs)
    OBVIOUS
  <1>4. \A s \in Sources : \A i \in 1..Len(mCh[s]) : mCh[s][i] \in Blobs
    BY <1>3
  <1>5. \A s \in Sources : mPeek[s] # << >> => mPeek[s][1] \in Blobs
    BY <1>3
  <1>6. mDest \in Seq(Blobs) /\ Len(mDest) \in Nat
    OBVIOUS
  <1>7. \A i \in 1..Len(mDest) : mDest[i] \in Blobs
    BY <1>6
  <1>8. mDest # << >> => Len(mDest) \in 1..Len(mDest)
    BY <1>6
  <1> QED BY <1>1, <1>2, <1>4, <1>5, <1>7, <1>8

\* What a source has passed is finite.
LEMMA PassedFinite ==
  ASSUME Merged!TypeOK, NEW s \in Sources
  PROVE  IsFiniteSet(Passed(s)) /\ Cardinality(Passed(s)) \in Nat
  <1>1. Passed(s) \subseteq 0..mLast[s] /\ mLast[s] \in Nat
    BY Numbers DEF Passed
  <1>2. IsFiniteSet(0..mLast[s])
    BY <1>1, FS_Interval
  <1> QED BY <1>1, <1>2, FS_Subset, FS_CardinalityType

\* The last blob sent is the largest one.
LEMMA LastIsLargest ==
  ASSUME Merged!TypeOK, Ordered
  PROVE  \A b \in Sent : Merged!tooLow(b)
  <1> SUFFICES ASSUME NEW i \in 1..Len(mDest) PROVE Merged!tooLow(mDest[i])
    BY DEF Sent
  <1>1. Len(mDest) \in Nat /\ i \in 1..Len(mDest) /\ mDest # << >>
    BY DEF Merged!TypeOK
  <1>2. mDest[i] \in Nat /\ mDest[Len(mDest)] \in Nat /\ Len(mDest) \in 1..Len(mDest)
    BY <1>1, Numbers
  <1>3. CASE i = Len(mDest)
    BY <1>1, <1>2, <1>3 DEF Merged!tooLow
  <1>4. CASE i # Len(mDest)
    <2>1. i \in 1..(Len(mDest) - 1)
      BY <1>1, <1>4
    <2>2. mDest[i] < mDest[Len(mDest)]
      BY <1>2, <2>1 DEF Ordered
    <2> QED BY <1>1, <1>2, <2>2 DEF Merged!tooLow
  <1> QED BY <1>3, <1>4

\* A source that has sent Limit blobs, all of which the merge has passed, has filled
\* dest.
LEMMA LimitReached ==
  ASSUME MergedIInv, NEW s \in Sources, Merged!Closed(s), mSpc[s] # "err", mSent[s] = Limit
  PROVE  Len(mDest) = Limit
  <1> USE DEF MergedIInv
  <1>1. Passed(s) \subseteq Sent
    <2> SUFFICES ASSUME NEW b \in Passed(s) PROVE b \in Sent
      OBVIOUS
    <2>1. ~OnTheWay(s, b)
      BY DEF Merged!Closed, OnTheWay, Merged!TypeOK
    <2>2. Merged!tooLow(b)
      BY <2>1 DEF Kept
    <2> QED BY <2>2 DEF Covered, Passed
  <1>2. Len(mDest) \in Nat /\ Len(mDest) <= Limit /\ Limit \in Nat
    BY AnsweringAssumption DEF Merged!TypeOK, Merged!MergedEnumAssumption
  <1>3. IsFiniteSet(1..Len(mDest)) /\ Cardinality(1..Len(mDest)) = Len(mDest)
    <2>1. \A k \in Nat : IsFiniteSet(1..k) /\ Cardinality(1..k) = k
      BY FS_Interval
    <2> QED BY <1>2, <2>1
  <1>4. IsFiniteSet(Sent) /\ Cardinality(Sent) <= Len(mDest)
    <2>1. [i \in 1..Len(mDest) |-> mDest[i]] \in Surjection(1..Len(mDest), Sent)
      BY DEF Surjection, Sent
    <2> QED BY <1>3, <2>1, FS_Surjection
  <1>5. Cardinality(Passed(s)) <= Cardinality(Sent) /\ Cardinality(Passed(s)) = Limit
        /\ Cardinality(Sent) \in Nat
    <2>1. Cardinality(Passed(s)) = Limit BY DEF Counted
    <2>2. Cardinality(Passed(s)) <= Cardinality(Sent) BY <1>1, <1>4, FS_Subset
    <2>3. Cardinality(Sent) \in Nat BY <1>4, FS_CardinalityType
    <2> QED BY <2>1, <2>2, <2>3
  <1> QED BY <1>2, <1>4, <1>5

\* mergedEnumerate has returned nil: nothing is left out below the last blob sent,
\* and all is sent unless the limit was reached.
LEMMA AtTheEnd == ASSUME MergedIInv PROVE Merged!MergedIsUnion
  <1> USE DEF MergedIInv
  <1>1. ASSUME mMpc = "nil", NEW b \in Merged!Union, b \notin Sent
        PROVE  /\ \A c \in Sent : c < b
               /\ Len(mDest) = Limit
    <2>1. PICK s \in Sources : b \in mHave[s] /\ b > After /\ mSpc[s] = "nil" /\ b \in Nat /\ After \in Nat
      BY <1>1, Numbers, AnsweringAssumption DEF Merged!Union, Ended, Merged!MergedEnumAssumption
    <2>2. ~Merged!tooLow(b)
      BY <1>1, <2>1 DEF Covered
    <2>3. \A c \in Sent : c < b
      <3> SUFFICES ASSUME NEW c \in Sent PROVE c < b
        OBVIOUS
      <3>1. Merged!tooLow(c) /\ c \in Nat
        BY LastIsLargest, Numbers DEF Sent
      <3> QED BY <2>1, <2>2, <3>1, Numbers DEF Merged!tooLow
    <2>4. Len(mDest) = Limit
      <3> SUFFICES ASSUME Merged!Closed(s) PROVE Len(mDest) = Limit
        BY <1>1 DEF Ended
      <3>1. b \notin Passed(s)
        <4>1. ~OnTheWay(s, b)
          BY DEF Merged!Closed, OnTheWay, Merged!TypeOK
        <4> QED BY <2>2, <4>1 DEF Kept
      <3>2. b \in Merged!Remaining(s)
        <4>1. mLast[s] \in Nat BY Numbers
        <4> QED BY <2>1, <3>1, <4>1 DEF Merged!Remaining, Passed
      <3> QED BY <2>1, <3>2, LimitReached DEF Counted
    <2> QED BY <2>3, <2>4
  <1>2. Sent \subseteq Merged!Union
    BY DEF Ordered, Sent
  <1>3. mMpc = "nil" => /\ \A b \in Merged!Union \ Sent : \A c \in Sent : c < b
                        /\ Sent = Merged!Union \/ Len(mDest) = Limit
    BY <1>1, <1>2
  <1> QED BY <1>3 DEF Merged!MergedIsUnion, Ordered, Sent

\* The invariant holds when mergedEnumerate has started its sources.
LEMMA MergedInitial == ASSUME Merged!Init PROVE MergedIInv
  <1>1. /\ Limit \in Nat /\ After \in Nat /\ Buffered \in Nat
    BY AnsweringAssumption DEF Merged!MergedEnumAssumption
  <1>2. Merged!TypeOK
    <2>1. mCanceled \in BOOLEAN BY Zenon DEF Merged!Init
    <2> QED BY <1>1, <2>1 DEF Merged!Init, Merged!TypeOK
  <1>3. Ordered /\ Ended
    BY DEF Merged!Init, Ordered, Ended
  <1>4. ASSUME NEW s \in Sources PROVE Line(s) /\ Kept(s) /\ Counted(s) /\ Covered(s)
    <2>1. mHave[s] \subseteq Nat BY <1>2, Numbers
    <2>2. Passed(s) = {} BY <1>1, <2>1 DEF Merged!Init, Passed
    <2>3. Line(s) BY <1>1, <2>2 DEF Merged!Init, Line
    <2>4. Kept(s) BY <2>2 DEF Kept
    <2>5. Counted(s) BY <2>2, FS_EmptySet DEF Merged!Init, Counted
    <2>6. Covered(s) BY DEF Merged!Init, Covered, Merged!tooLow
    <2> QED BY <2>3, <2>4, <2>5, <2>6
  <1> QED BY <1>2, <1>3, <1>4 DEF MergedIInv

-----------------------------------------------------------------------------
\* A source that sends its next blob keeps the invariant: the blob is above all it
\* has sent, and is counted.
LEMMA sourceSendsOK ==
  ASSUME MergedIInv, NEW s \in Sources, Merged!sourceSends(s)
  PROVE  MergedIInv'
  <1> USE DEF MergedIInv
  <1> DEFINE x == Merged!Least(Merged!Remaining(s))
  <1>1. x \in mHave[s] /\ x > mLast[s] /\ x \in Nat /\ mLast[s] \in Nat /\ x \in Blobs
        /\ \A b \in mHave[s] : b > mLast[s] => x <= b
    <2>1. Merged!Remaining(s) # {} /\ Merged!Remaining(s) \in SUBSET Nat
      BY Numbers DEF Merged!sourceSends, Merged!Sends, Merged!Remaining
    <2>2. x \in Merged!Remaining(s) /\ \A b \in Merged!Remaining(s) : x <= b
      BY <2>1, LeastIs
    <2>3. mHave[s] \subseteq Blobs /\ mHave[s] \subseteq Nat /\ mLast[s] \in Nat
      BY Numbers
    <2> QED BY <2>2, <2>3 DEF Merged!Remaining
  <1>2. /\ UNCHANGED <<mHave, mSpc, mPeek, mDest, mMpc, mCanceled>>
        /\ mCh' = [mCh EXCEPT ![s] = Append(@, x)] /\ mLast' = [mLast EXCEPT ![s] = x]
        /\ mSent' = [mSent EXCEPT ![s] = @ + 1]
        /\ mSpc[s] = "run" /\ Len(mCh[s]) < Buffered /\ mSent[s] < Limit
    BY DEF Merged!sourceSends, Merged!Sends
  <1> HIDE DEF x
  <1>3. /\ \A t \in Sources \ {s} : mCh'[t] = mCh[t] /\ mLast'[t] = mLast[t] /\ mSent'[t] = mSent[t]
        /\ mCh'[s] = Append(mCh[s], x) /\ mLast'[s] = x /\ mSent'[s] = mSent[s] + 1
    BY <1>2 DEF Merged!TypeOK
  <1>4. /\ mCh[s] \in Seq(Blobs) /\ Len(mCh[s]) \in Nat
        /\ Len(mCh'[s]) = Len(mCh[s]) + 1
        /\ \A i \in 1..Len(mCh[s]) : mCh'[s][i] = mCh[s][i]
        /\ mCh'[s][Len(mCh[s]) + 1] = x /\ mCh'[s] \in Seq(Blobs)
    BY <1>1, <1>3 DEF Merged!TypeOK
  <1>5. Merged!TypeOK'
    <2>1. Buffered \in Nat /\ Limit \in Nat
      BY AnsweringAssumption DEF Merged!MergedEnumAssumption
    <2>2. mCh' \in [Sources -> Seq(Blobs)]
      BY <1>2, <1>3, <1>4 DEF Merged!TypeOK
    <2>3. \A t \in Sources : Len(mCh'[t]) <= Buffered
      BY <1>2, <1>3, <1>4, <2>1 DEF Merged!TypeOK
    <2>4. mLast' \in [Sources -> Blobs \cup {After}]
      BY <1>1, <1>2 DEF Merged!TypeOK
    <2>5. mSent' \in [Sources -> 0..Limit]
      BY <1>2, <2>1 DEF Merged!TypeOK
    <2> QED BY <1>2, <2>2, <2>3, <2>4, <2>5 DEF Merged!TypeOK
  <1>6. Ordered'
    BY <1>2 DEF Ordered, Merged!Union
  <1>7. Ended'
    BY <1>2, <1>3 DEF Ended, Merged!Closed
  <1>8. \A b : Merged!tooLow(b)' = Merged!tooLow(b)
    BY <1>2 DEF Merged!tooLow
  <1>9. ASSUME NEW t \in Sources \ {s} PROVE Line(t)' /\ Kept(t)' /\ Counted(t)'
    <2>1. Passed(t)' = Passed(t) /\ Merged!Remaining(t)' = Merged!Remaining(t)
      BY <1>2, <1>3 DEF Passed, Merged!Remaining
    <2>2. Line(t)'
      BY <1>2, <1>3, <2>1 DEF Line
    <2>3. \A b : OnTheWay(t, b)' = OnTheWay(t, b)
      BY <1>2, <1>3 DEF OnTheWay
    <2> QED BY <1>2, <1>3, <1>8, <2>1, <2>2, <2>3 DEF Kept, Counted
  <1>10. \A t \in Sources : Covered(t)'
    BY <1>2, <1>8 DEF Covered, Sent
  <1>11. Passed(s)' = Passed(s) \cup {x} /\ x \notin Passed(s)
    <2>1. mHave[s] \subseteq Nat /\ After \in Nat /\ After <= mLast[s]
      BY Numbers, AnsweringAssumption DEF Merged!MergedEnumAssumption, Line
    <2> QED BY <1>1, <1>2, <1>3, <2>1 DEF Passed
  <1>12. Line(s)'
    <2>1. \A i \in 1..Len(mCh[s]) : mCh[s][i] < x /\ mCh[s][i] \in Nat
      BY <1>1, Numbers DEF Line, Passed
    <2>2. mPeek[s] # << >> => mPeek[s][1] < x /\ mPeek[s][1] \in Nat
      BY <1>1, Numbers DEF Line, Passed
    <2>3. \A i \in 1..Len(mCh'[s]) : i \in 1..Len(mCh[s]) \/ i = Len(mCh[s]) + 1
      BY <1>4
    <2>4. After <= mLast'[s]
      BY <1>1, <1>3, AnsweringAssumption DEF Line, Merged!MergedEnumAssumption
    <2>5. Len(mPeek'[s]) <= 1 /\ \A i \in 1..Len(mCh'[s]) : mCh'[s][i] \in Passed(s)'
      BY <1>2, <1>4, <1>11, <2>3 DEF Line
    <2>6. mPeek'[s] # << >> => /\ mPeek'[s][1] \in Passed(s)'
                               /\ \A i \in 1..Len(mCh'[s]) : mPeek'[s][1] < mCh'[s][i]
      BY <1>2, <1>4, <1>11, <2>2, <2>3 DEF Line
    <2>7. ASSUME NEW i \in 1..Len(mCh'[s]), NEW j \in 1..Len(mCh'[s]), i < j
          PROVE  mCh'[s][i] < mCh'[s][j]
      <3>1. i \in 1..Len(mCh[s])
        BY <1>4, <2>7, <2>3
      <3>2. CASE j \in 1..Len(mCh[s])
        BY <1>4, <2>7, <3>1, <3>2 DEF Line
      <3>3. CASE j = Len(mCh[s]) + 1
        BY <1>4, <2>1, <3>1, <3>3
      <3> QED BY <2>3, <3>2, <3>3
    <2> QED BY <2>4, <2>5, <2>6, <2>7 DEF Line
  <1>13. Kept(s)'
    <2> SUFFICES ASSUME NEW b \in Passed(s)' PROVE OnTheWay(s, b)' \/ Merged!tooLow(b)'
      BY DEF Kept
    <2>1. CASE b = x
      <3>1. Len(mCh[s]) + 1 \in 1..Len(mCh'[s])
        BY <1>4
      <3> QED BY <1>4, <2>1, <3>1 DEF OnTheWay
    <2>2. CASE b \in Passed(s)
      <3>1. OnTheWay(s, b) \/ Merged!tooLow(b)
        BY <2>2 DEF Kept
      <3>2. \A i \in 1..Len(mCh[s]) : i \in 1..Len(mCh'[s])
        BY <1>4
      <3> QED BY <1>2, <1>4, <1>8, <3>1, <3>2 DEF OnTheWay
    <2> QED BY <1>11, <2>1, <2>2
  <1>14. Counted(s)'
    <2>1. Cardinality(Passed(s)') = Cardinality(Passed(s)) + 1
      BY <1>11, PassedFinite, FS_AddElement
    <2> QED BY <1>2, <1>3, <2>1 DEF Counted
  <1> QED BY <1>5, <1>6, <1>7, <1>9, <1>10, <1>12, <1>13, <1>14

\* The steps that leave the blobs where they are.
LEMMA Still ==
  ASSUME MergedIInv, UNCHANGED <<mHave, mCh, mLast, mSent, mPeek, mDest>>, Merged!TypeOK', Ended',
         \A t \in Sources : mSpc'[t] # "err" => mSpc[t] # "err",
         \A t \in Sources : mSpc'[t] = "nil" => mSpc[t] = "nil" \/ Merged!Remaining(t) = {} \/ mSent[t] = Limit
  PROVE  MergedIInv'
  <1> USE DEF MergedIInv
  <1>1. Ordered'
    BY DEF Ordered, Merged!Union
  <1>2. ASSUME NEW t \in Sources PROVE Line(t)' /\ Kept(t)' /\ Counted(t)' /\ Covered(t)'
    <2>1. Passed(t)' = Passed(t) /\ Merged!Remaining(t)' = Merged!Remaining(t)
      BY DEF Passed, Merged!Remaining
    <2>2. Line(t)' BY <2>1 DEF Line
    <2>3. \A b : OnTheWay(t, b)' = OnTheWay(t, b) /\ Merged!tooLow(b)' = Merged!tooLow(b)
      BY DEF OnTheWay, Merged!tooLow
    <2>4. Kept(t)' BY <2>1, <2>3 DEF Kept
    <2>5. Counted(t)' BY <2>1 DEF Counted
    <2>6. Covered(t)' BY <2>3 DEF Covered, Sent
    <2> QED BY <2>2, <2>4, <2>5, <2>6
  <1> QED BY <1>1, <1>2

\* The steps that send and take off nothing keep the invariant.
LEMMA StillSteps ==
  ASSUME MergedIInv,
         \/ \E s \in Sources : Merged!sourceEnds(s) \/ Merged!sourceFails(s)
         \/ Merged!Cancel \/ Merged!endLoop \/ Merged!waitErrs \/ UNCHANGED Merged!vars
  PROVE  MergedIInv'
  <1> USE DEF MergedIInv
  <1>1. ASSUME NEW s \in Sources, Merged!sourceEnds(s) \/ Merged!sourceFails(s) PROVE MergedIInv'
    <2>1. /\ UNCHANGED <<mHave, mCh, mLast, mSent, mPeek, mDest, mMpc, mCanceled>>
          /\ mSpc[s] = "run" /\ mSpc' \in {[mSpc EXCEPT ![s] = "nil"], [mSpc EXCEPT ![s] = "err"]}
      BY <1>1 DEF Merged!sourceEnds, Merged!sourceFails
    <2>2. Merged!TypeOK' BY <2>1 DEF Merged!TypeOK
    <2>3. Ended' BY <2>1 DEF Ended, Merged!Closed, Merged!TypeOK
    <2>4. \A t \in Sources : mSpc'[t] # "err" => mSpc[t] # "err"
      BY <2>1 DEF Merged!TypeOK
    <2>5. \A t \in Sources : mSpc'[t] = "nil" => mSpc[t] = "nil" \/ Merged!Remaining(t) = {} \/ mSent[t] = Limit
      <3>1. CASE Merged!sourceEnds(s)
        <4>1. Merged!Remaining(s) = {} \/ mSent[s] = Limit
          BY <3>1, AnsweringAssumption DEF Merged!sourceEnds, Merged!Sends, Merged!TypeOK, Merged!MergedEnumAssumption
        <4> QED BY <2>1, <4>1 DEF Merged!TypeOK
      <3>2. CASE Merged!sourceFails(s)
        BY <3>2 DEF Merged!sourceFails, Merged!TypeOK
      <3> QED BY <1>1, <3>1, <3>2
    <2> QED BY <2>1, <2>2, <2>3, <2>4, <2>5, Still
  <1>2. CASE Merged!Cancel
    <2>0. mCanceled' \in BOOLEAN BY <1>2, Zenon DEF Merged!Cancel
    <2>1. Merged!TypeOK' BY <1>2, <2>0 DEF Merged!Cancel, Merged!TypeOK
    <2>2. Ended' BY <1>2 DEF Merged!Cancel, Ended, Merged!Closed
    <2> QED BY <1>2, <2>1, <2>2, Still DEF Merged!Cancel
  <1>3. CASE Merged!endLoop
    <2>1. Merged!TypeOK' BY <1>3 DEF Merged!endLoop, Merged!TypeOK
    <2>2. Ended' BY <1>3 DEF Merged!endLoop, Ended, Merged!Closed
    <2> QED BY <1>3, <2>1, <2>2, Still DEF Merged!endLoop
  <1>4. CASE Merged!waitErrs
    <2>1. Merged!TypeOK' BY <1>4 DEF Merged!waitErrs, Merged!TypeOK
    <2>2. Ended' BY <1>4 DEF Merged!waitErrs, Ended, Merged!Closed, Merged!TypeOK
    <2> QED BY <1>4, <2>1, <2>2, Still DEF Merged!waitErrs
  <1>5. CASE UNCHANGED Merged!vars
    <2>1. Merged!TypeOK' BY <1>5 DEF Merged!vars, Merged!TypeOK
    <2>2. Ended' BY <1>5 DEF Merged!vars, Ended, Merged!Closed
    <2> QED BY <1>5, <2>1, <2>2, Still DEF Merged!vars
  <1> QED BY <1>1, <1>2, <1>3, <1>4, <1>5

\* A blob that goes from the channel to the peeker stays on its way.
LEMMA PeekOK ==
  ASSUME MergedIInv, NEW s \in Sources, Merged!Peek(s)
  PROVE  MergedIInv'
  <1> USE DEF MergedIInv
  <1>1. /\ UNCHANGED <<mHave, mLast, mSent, mSpc, mDest, mMpc, mCanceled>>
        /\ mMpc = "merge" /\ mPeek[s] = << >> /\ mCh[s] # << >>
        /\ mPeek' = [mPeek EXCEPT ![s] = <<Head(mCh[s])>>]
        /\ mCh' = [mCh EXCEPT ![s] = Tail(@)]
    BY DEF Merged!Peek, Merged!InLoop
  <1>2. /\ \A t \in Sources \ {s} : mCh'[t] = mCh[t] /\ mPeek'[t] = mPeek[t]
        /\ mCh'[s] = Tail(mCh[s]) /\ mPeek'[s] = <<Head(mCh[s])>>
    BY <1>1 DEF Merged!TypeOK
  <1>3. /\ mCh[s] \in Seq(Blobs) /\ Len(mCh[s]) \in Nat /\ Len(mCh[s]) >= 1
        /\ mCh'[s] \in Seq(Blobs) /\ Len(mCh'[s]) = Len(mCh[s]) - 1
        /\ \A i \in 1..Len(mCh'[s]) : mCh'[s][i] = mCh[s][i + 1]
        /\ mPeek'[s][1] = mCh[s][1] /\ mPeek'[s] # << >> /\ Len(mPeek'[s]) = 1
        /\ mPeek'[s] \in Seq(Blobs)
    BY <1>1, <1>2 DEF Merged!TypeOK
  <1>4. Merged!TypeOK'
    <2>1. mCh' \in [Sources -> Seq(Blobs)] /\ mPeek' \in [Sources -> Seq(Blobs)]
      BY <1>1, <1>2, <1>3 DEF Merged!TypeOK
    <2>2. \A t \in Sources : Len(mCh'[t]) <= Buffered
      <3>1. \A t \in Sources : Len(mCh[t]) <= Buffered
        BY DEF Merged!TypeOK
      <3>2. Len(mCh'[s]) <= Buffered
        BY <1>3, <3>1, AnsweringAssumption DEF Merged!MergedEnumAssumption
      <3> QED BY <1>2, <3>1, <3>2
    <2> QED BY <1>1, <2>1, <2>2 DEF Merged!TypeOK
  <1>5. Ordered' /\ Ended'
    BY <1>1 DEF Ordered, Merged!Union, Ended
  <1>6. \A t \in Sources : /\ Passed(t)' = Passed(t) /\ Merged!Remaining(t)' = Merged!Remaining(t)
                           /\ Counted(t)' /\ Covered(t)'
    <2>1. \A t \in Sources : Passed(t)' = Passed(t) /\ Merged!Remaining(t)' = Merged!Remaining(t)
      BY <1>1 DEF Passed, Merged!Remaining
    <2> QED BY <1>1, <2>1 DEF Counted, Covered, Merged!tooLow, Sent
  <1>7. ASSUME NEW t \in Sources \ {s} PROVE Line(t)' /\ Kept(t)'
    BY <1>1, <1>2, <1>6 DEF Line, Kept, OnTheWay, Merged!tooLow
  <1>8. Line(s)'
    <2>1. \A i \in 1..Len(mCh'[s]) : i + 1 \in 1..Len(mCh[s]) /\ 1 < i + 1 /\ 1 \in 1..Len(mCh[s])
      <3> DEFINE n == Len(mCh[s])
                 k == Len(mCh'[s])
      <3>1. n \in Nat /\ n >= 1 /\ k = n - 1 BY <1>3
      <3> HIDE DEF n, k
      <3>2. \A i \in 1..k : i + 1 \in 1..n /\ 1 < i + 1 /\ 1 \in 1..n BY <3>1
      <3> QED BY <3>2 DEF n, k
    <2>2. 1 \in 1..Len(mCh[s])
      BY <1>3
    <2>3. \A i \in 1..Len(mCh'[s]) : mPeek'[s][1] < mCh'[s][i] /\ mCh'[s][i] \in Passed(s)
      BY <1>3, <2>1 DEF Line
    <2>4. \A i, j \in 1..Len(mCh'[s]) : i < j => mCh'[s][i] < mCh'[s][j]
      BY <1>3, <2>1 DEF Line
    <2>5. mPeek'[s][1] \in Passed(s)
      BY <1>3, <2>2 DEF Line
    <2> QED BY <1>1, <1>3, <1>6, <2>3, <2>4, <2>5 DEF Line
  <1>9. Kept(s)'
    <2> SUFFICES ASSUME NEW b \in Passed(s), ~Merged!tooLow(b) PROVE OnTheWay(s, b)'
      BY <1>1, <1>6 DEF Kept, Merged!tooLow
    <2>1. PICK i \in 1..Len(mCh[s]) : mCh[s][i] = b
      BY <1>1 DEF Kept, OnTheWay
    <2>2. CASE i = 1
      BY <1>3, <2>1, <2>2 DEF OnTheWay
    <2>3. CASE i # 1
      <3>1. i - 1 \in 1..Len(mCh'[s]) /\ (i - 1) + 1 = i
        BY <1>3, <2>3
      <3>2. mCh'[s][i - 1] = b
        BY <1>3, <2>1, <3>1
      <3> QED BY <3>1, <3>2 DEF OnTheWay
    <2> QED BY <2>2, <2>3
  <1> QED BY <1>4, <1>5, <1>6, <1>7, <1>8, <1>9

\* What is dropped is not above the last blob of dest.
LEMMA dropTooLowOK ==
  ASSUME MergedIInv, NEW s \in Sources, Merged!dropTooLow(s)
  PROVE  MergedIInv'
  <1> USE DEF MergedIInv
  <1>1. /\ UNCHANGED <<mHave, mCh, mLast, mSent, mSpc, mDest, mMpc, mCanceled>>
        /\ mMpc = "merge" /\ mPeek[s] # << >> /\ Merged!tooLow(mPeek[s][1])
        /\ mPeek' = [mPeek EXCEPT ![s] = << >>]
    BY DEF Merged!dropTooLow, Merged!InLoop, Merged!Settled
  <1>2. mPeek'[s] = << >> /\ \A t \in Sources \ {s} : mPeek'[t] = mPeek[t]
    BY <1>1 DEF Merged!TypeOK
  <1>3. Merged!TypeOK'
    BY <1>1 DEF Merged!TypeOK
  <1>4. Ordered' /\ Ended'
    BY <1>1 DEF Ordered, Merged!Union, Ended
  <1>5. \A t \in Sources : /\ Passed(t)' = Passed(t) /\ Merged!Remaining(t)' = Merged!Remaining(t)
                           /\ Counted(t)' /\ Covered(t)'
    <2>1. \A t \in Sources : Passed(t)' = Passed(t) /\ Merged!Remaining(t)' = Merged!Remaining(t)
      BY <1>1 DEF Passed, Merged!Remaining
    <2> QED BY <1>1, <2>1 DEF Counted, Covered, Merged!tooLow, Sent
  <1>6. ASSUME NEW t \in Sources PROVE Line(t)'
    BY <1>1, <1>2, <1>5 DEF Line, Merged!TypeOK
  <1>7. ASSUME NEW t \in Sources PROVE Kept(t)'
    BY <1>1, <1>2, <1>5 DEF Kept, OnTheWay, Merged!tooLow
  <1> QED BY <1>3, <1>4, <1>5, <1>6, <1>7

\* The lowest of the peekers goes to dest: it is above what was sent, and no blob
\* of a source that has not failed lies between.
LEMMA sendLowestOK ==
  ASSUME MergedIInv, Merged!sendLowest
  PROVE  MergedIInv'
  <1> USE DEF MergedIInv
  <1> DEFINE P == {mPeek[s][1] : s \in Merged!Open}
             x == Merged!Least(P)
             n == Len(mDest)
  <1>0. /\ UNCHANGED <<mHave, mCh, mLast, mSent, mSpc, mPeek, mMpc, mCanceled>>
        /\ mMpc = "merge" /\ n < Limit /\ \A s \in Sources : Merged!Settled(s)
        /\ Merged!Open # {} /\ mDest' = Append(mDest, x)
    BY DEF Merged!sendLowest
  <1>1. \A s \in Merged!Open : s \in Sources /\ mPeek[s] # << >> /\ ~Merged!tooLow(mPeek[s][1])
                        /\ mPeek[s][1] \in mHave[s] /\ mPeek[s][1] > After /\ mPeek[s][1] \in Nat
    <2> SUFFICES ASSUME NEW s \in Merged!Open
                 PROVE  s \in Sources /\ mPeek[s] # << >> /\ ~Merged!tooLow(mPeek[s][1])
                        /\ mPeek[s][1] \in mHave[s] /\ mPeek[s][1] > After /\ mPeek[s][1] \in Nat
      OBVIOUS
    <2>1. s \in Sources /\ mPeek[s] # << >> /\ ~Merged!tooLow(mPeek[s][1])
      BY <1>0 DEF Merged!Open, Merged!Settled
    <2>2. mPeek[s][1] \in Passed(s) /\ mPeek[s][1] \in Nat /\ After \in Nat
      BY <2>1, Numbers, AnsweringAssumption DEF Line, Merged!MergedEnumAssumption
    <2> QED BY <2>1, <2>2 DEF Passed
  <1>2. P \in SUBSET Nat /\ P # {}
    BY <1>0, <1>1
  <1>3. x \in P /\ \A c \in P : x <= c
    BY <1>2, LeastIs
  <1>4. PICK s0 \in Merged!Open : x = mPeek[s0][1]
    BY <1>3
  <1>5. x \in Nat /\ x \in Merged!Union /\ ~Merged!tooLow(x) /\ x \in Blobs
    <2>1. mHave[s0] \subseteq Blobs /\ s0 \in Sources
      BY <1>1, Numbers
    <2> QED BY <1>1, <1>4, <2>1 DEF Merged!Union
  <1>6. \A s \in Merged!Open : x <= mPeek[s][1]
    BY <1>3
  <1> HIDE DEF x, P
  <1>7. /\ n \in Nat /\ mDest \in Seq(Blobs) /\ mDest' \in Seq(Blobs) /\ Len(mDest') = n + 1
        /\ \A i \in 1..n : mDest'[i] = mDest[i]
        /\ mDest'[n + 1] = x /\ mDest' # << >>
    <2>1. n \in Nat /\ mDest \in Seq(Blobs) BY DEF Merged!TypeOK
    <2>2. mDest' = Append(mDest, x) /\ x \in Blobs BY <1>0, <1>5
    <2> QED BY <2>1, <2>2
  <1>8. Merged!TypeOK'
    BY <1>0, <1>7, AnsweringAssumption DEF Merged!TypeOK, Merged!MergedEnumAssumption
  <1>9. \A b \in Nat : Merged!tooLow(b)' <=> b <= x
    BY <1>7 DEF Merged!tooLow
  <1>10. \A b \in Nat : Merged!tooLow(b) => b < x
    <2>1. (n \in 1..n /\ mDest[n] \in Nat) \/ mDest = << >>
      BY Numbers
    <2> QED BY <1>5, <2>1 DEF Merged!tooLow
  <1>11. \A i \in 1..n : mDest[i] < x /\ mDest[i] \in Nat
    BY <1>10, LastIsLargest, Numbers DEF Sent
  <1>12. Ordered'
    <2>1. Merged!Union' = Merged!Union
      BY <1>0 DEF Merged!Union
    <2>2. ASSUME NEW i \in 1..(n + 1)
          PROVE  mDest'[i] \in Merged!Union /\ \A j \in 1..(i - 1) : mDest'[j] < mDest'[i]
      <3>1. CASE i \in 1..n
        <4>1. \A j \in 1..(i - 1) : j \in 1..n
          BY <1>7, <3>1
        <4> QED BY <1>7, <3>1, <4>1 DEF Ordered
      <3>2. CASE i = n + 1
        <4>1. \A j \in 1..(i - 1) : j \in 1..n
          BY <1>7, <3>2
        <4> QED BY <1>5, <1>7, <1>11, <3>2, <4>1
      <3> QED BY <1>7, <3>1, <3>2
    <2> QED BY <1>7, <2>1, <2>2 DEF Ordered
  <1>13. Ended'
    BY <1>0 DEF Ended
  <1>14. ASSUME NEW s \in Sources PROVE Line(s)' /\ Kept(s)' /\ Counted(s)'
    <2>1. Passed(s)' = Passed(s) /\ Merged!Remaining(s)' = Merged!Remaining(s)
      BY <1>0 DEF Passed, Merged!Remaining
    <2>2. Line(s)' BY <1>0, <2>1 DEF Line
    <2>3. Counted(s)' BY <1>0, <2>1 DEF Counted
    <2>4. ASSUME NEW b \in Passed(s) PROVE OnTheWay(s, b)' \/ Merged!tooLow(b)'
      <3>1. b \in Nat BY Numbers DEF Passed
      <3>2. CASE OnTheWay(s, b) BY <1>0, <3>2 DEF OnTheWay
      <3>3. CASE Merged!tooLow(b) BY <1>5, <1>9, <1>10, <3>1, <3>3
      <3> QED BY <3>2, <3>3 DEF Kept
    <2> QED BY <2>1, <2>2, <2>3, <2>4 DEF Kept
  <1>15. ASSUME NEW s \in Sources PROVE Covered(s)'
    <2> SUFFICES ASSUME mSpc[s] # "err", NEW b \in mHave[s], After < b, Merged!tooLow(b)'
                 PROVE  b \in Sent'
      BY <1>0 DEF Covered
    <2>1. b \in Nat /\ mLast[s] \in Nat BY Numbers
    <2>2. b <= x BY <1>9, <2>1
    <2>3. Sent \subseteq Sent' /\ x \in Sent'
      <3>1. \A i \in 1..n : i \in 1..Len(mDest')
        BY <1>7
      <3>2. n + 1 \in 1..Len(mDest')
        BY <1>7
      <3> QED BY <1>7, <3>1, <3>2 DEF Sent
    <2>4. CASE Merged!tooLow(b)
      BY <2>3, <2>4 DEF Covered
    <2>5. CASE b = x
      BY <2>3, <2>5
    <2>6. CASE b # x /\ ~Merged!tooLow(b)
      <3>1. b < x BY <1>5, <2>1, <2>2, <2>6
      <3>2. CASE s \in Merged!Open
        <4>1. mPeek[s] # << >> /\ x <= mPeek[s][1] /\ mPeek[s][1] \in Nat
          BY <1>1, <1>6, <3>2
        <4>2. b \in Passed(s)
          <5>1. mPeek[s][1] <= mLast[s] BY <4>1 DEF Line, Passed
          <5> QED BY <1>5, <2>1, <3>1, <4>1, <5>1 DEF Passed
        <4>3. OnTheWay(s, b) BY <2>6, <4>2 DEF Kept
        <4>4. PICK i \in 1..Len(mCh[s]) : mCh[s][i] = b
          BY <1>5, <2>1, <3>1, <4>1, <4>3 DEF OnTheWay
        <4>5. mPeek[s][1] < b BY <4>1, <4>4 DEF Line
        <4> QED BY <1>5, <2>1, <3>1, <4>1, <4>5
      <3>3. CASE s \notin Merged!Open
        <4>1. Merged!Closed(s) BY <3>3 DEF Merged!Open
        <4>2. mSpc[s] = "nil" BY <4>1 DEF Merged!Closed, Merged!TypeOK
        <4>3. mSent[s] # Limit BY <1>0, <4>1, LimitReached, AnsweringAssumption DEF Merged!TypeOK, Merged!MergedEnumAssumption
        <4>4. Merged!Remaining(s) = {} BY <4>2, <4>3 DEF Counted
        <4>5. b \in Passed(s) BY <2>1, <4>4 DEF Merged!Remaining, Passed
        <4>6. OnTheWay(s, b) BY <2>6, <4>5 DEF Kept
        <4> QED BY <4>1, <4>6 DEF Merged!Closed, OnTheWay, Merged!TypeOK
      <3> QED BY <3>2, <3>3
    <2> QED BY <2>4, <2>5, <2>6
  <1> QED BY <1>8, <1>12, <1>13, <1>14, <1>15

\* Every step keeps the invariant.
LEMMA MergedStepOK == ASSUME MergedIInv, [Merged!Next]_(Merged!vars) PROVE MergedIInv'
  BY sourceSendsOK, StillSteps, PeekOK, dropTooLowOK, sendLowestOK DEF Merged!Next, Merged!Goroutines

-----------------------------------------------------------------------------
(***************************************************************************)
(* The batched stats of the client, for any callers, blobs, batch size and *)
(* size of the gate: a call that returns nil has got what the server has   *)
(* of its blobs, whoever made the request.                                 *)
(*                                                                         *)
(* A worker has yet to pass on what its callers have not got (FoundInv),   *)
(* and answers when it has passed all (NilInv), so that the calls that got *)
(* nil for all their requests got all there is. That the workers the code  *)
(* starts are never more than those of the model is part of the invariant  *)
(* (StartInv, FreshInv): no more are started than calls were made and full *)
(* batches taken.                                                          *)
(***************************************************************************)

\* What StatBatch says of finite sets, in the terms of FiniteSets.
LEMMA StatsSets ==
  \A S : /\ Stats!IsFiniteSet(S) <=> IsFiniteSet(S)
         /\ Stats!Cardinality(S) = Cardinality(S)
<1>1. \A S : Stats!IsFiniteSet(S) <=> IsFiniteSet(S)
  BY DEF IsFiniteSet, Stats!IsFiniteSet
<1>2. \A S : Stats!Cardinality(S) = Cardinality(S)
  BY DEF Cardinality, Stats!Cardinality
<1> QED BY <1>1, <1>2

\* The callers that have called.
Called == {c \in Callers : sCpc[c] # "call"}

\* The requests that were made and are not pending any more.
Taken == {q \in Stats!Uncached : q[2] \in Called /\ q \notin sPendStat}

\* No more workers were started than there were calls and full batches.
StartInv == sStarted <= Cardinality(Called) + Cardinality(Taken)

\* A worker that was not started does nothing.
FreshInv == \A w \in Workers : sStarted < w => sWpc[w] = "none"

\* Who has not called has no requests.
CallInv ==
  /\ sPendStat \subseteq Stats!Uncached
  /\ \A q \in sPendStat : q[2] \in Called
  /\ \A w \in Workers : \A q \in sBatch[w] : q[2] \in Called
  /\ \A q \in Stats!Requests : sErrcs[q] # "none" => q[2] \in Called

\* A worker has still to pass on what its callers have not got, and nothing else.
FoundAt(w) ==
  /\ sSending[w] \in sFound[w] \cup {Stats!None}
  /\ sFound[w] \subseteq {q \in sBatch[w] : q[1] \in sServer}
  /\ sWpc[w] # "send" => sFound[w] = {}
  /\ sWpc[w] = "send" /\ sResult[w] = "nil" =>
       \A q \in sBatch[w] : q[1] \in sServer => q \in sFound[w] \/ q[1] \in sGot[q[2]]

FoundInv == \A w \in Workers : FoundAt(w)

\* A request that was answered without an error was answered whole.
NilInv == \A q \in Stats!Requests : sErrcs[q] = "nil" /\ q[1] \in sServer => q[1] \in sGot[q[2]]

\* A caller got only blobs it asked for that exist, and first those of its cache.
GotInv ==
  \A c \in Callers : /\ sGot[c] \subseteq Wanted[c] \cap (sServer \cup Cached)
                     /\ c \in Called => Wanted[c] \cap Cached \subseteq sGot[c]

\* The inductive invariant.
StatsIInv == Stats!TypeOK /\ StartInv /\ FreshInv /\ CallInv /\ FoundInv /\ NilInv /\ GotInv /\ Stats!StatTruth

\* Sets of callers and of requests are finite.
LEMMA Count ==
  /\ \A S : S \subseteq Callers => IsFiniteSet(S) /\ Cardinality(S) \in Nat
                                /\ Cardinality(S) <= Cardinality(Callers)
  /\ \A S : S \subseteq Stats!Uncached => IsFiniteSet(S) /\ Cardinality(S) \in Nat
                                 /\ Cardinality(S) <= Cardinality(Stats!Uncached)
  <1>1. IsFiniteSet(Callers) /\ IsFiniteSet(Stats!Uncached)
    <2>1. IsFiniteSet(Stats!Requests) /\ Stats!Uncached \subseteq Stats!Requests
      BY StatsSets, AnsweringAssumption DEF Stats!StatBatchAssumption, Stats!Uncached
    <2> QED BY StatsSets, <2>1, AnsweringAssumption, FS_Subset DEF Stats!StatBatchAssumption
  <1> QED BY <1>1, FS_Subset, FS_CardinalityType

\* There are enough workers.
LEMMA Enough ==
  ASSUME NEW s \in Nat, NEW C \in SUBSET Callers, NEW T \in SUBSET Stats!Uncached,
         s <= Cardinality(C) + Cardinality(T)
  PROVE  s \in 0..Cardinality(Workers)
  <1>1. PICK n \in Nat : Workers = 1..n /\ n >= Cardinality(Callers) + Cardinality(Stats!Uncached)
    BY StatsSets, AnsweringAssumption, FS_CardinalityType DEF Stats!StatBatchAssumption
  <1>2. Cardinality(Workers) = n
    BY <1>1, FS_Interval
  <1> DEFINE a == Cardinality(C)
             b == Cardinality(T)
             A == Cardinality(Callers)
             B == Cardinality(Stats!Uncached)
  <1>3. a \in Nat /\ b \in Nat /\ a <= A /\ b <= B /\ A \in Nat /\ B \in Nat
    BY Count
  <1>4. s <= a + b /\ n >= A + B
    BY <1>1
  <1> HIDE DEF a, b, A, B
  <1>5. s <= n
    BY <1>3, <1>4
  <1> QED BY <1>2, <1>5

\* The invariant holds before the first call.
LEMMA StatsInitial == ASSUME Stats!Init PROVE StatsIInv
  <1>1. Called = {} /\ Taken = {}
    BY DEF Stats!Init, Called, Taken
  <1>2. Cardinality(Called) = 0 /\ Cardinality(Taken) = 0
    BY <1>1, FS_EmptySet
  <1>3. StartInv
    BY <1>2 DEF Stats!Init, StartInv
  <1>4. Stats!TypeOK
    <2>1. sStarted \in 0..Cardinality(Workers)
      BY <1>3, Enough DEF Stats!Init, StartInv, Called, Taken
    <2> QED BY StatsSets, <2>1 DEF Stats!Init, Stats!TypeOK
  <1>5. FreshInv /\ CallInv /\ FoundInv /\ NilInv /\ GotInv
    BY <1>1 DEF Stats!Init, FreshInv, CallInv, FoundInv, FoundAt, NilInv, GotInv
  <1>6. Stats!StatTruth
    BY DEF Stats!Init, Stats!StatTruth
  <1> QED BY <1>3, <1>4, <1>5, <1>6 DEF StatsIInv

\* A call adds its requests to those pending and starts a worker.
LEMMA StatBlobsOK ==
  ASSUME StatsIInv, NEW c \in Callers, Stats!StatBlobs(c)
  PROVE  StatsIInv'
  <1> USE DEF StatsIInv
  <1> DEFINE New == {<<b, c>> : b \in Stats!NeedStat(c)}
  <1>1. /\ UNCHANGED <<sServer, sBatch, sFound, sSending, sResult, sErrcs>>
        /\ sCpc[c] = "call" /\ sCpc' = [sCpc EXCEPT ![c] = IF Stats!NeedStat(c) = {} THEN "nil" ELSE "wait"]
        /\ sGot' = [sGot EXCEPT ![c] = Wanted[c] \cap Cached]
        /\ sPendStat' = sPendStat \cup New
    BY DEF Stats!StatBlobs
  <1>2. /\ sStarted' \in {sStarted, sStarted + 1}
        /\ sWpc' \in [Workers -> {"none", "gate", "stat", "send", "done"}]
        /\ \A w \in Workers : sWpc'[w] = sWpc[w] \/ (sWpc[w] = "none" /\ sWpc'[w] = "gate")
        /\ \A w \in Workers : sStarted' < w => sStarted < w /\ sWpc'[w] = sWpc[w]
    <2>1. Workers \subseteq Nat /\ sStarted \in Nat
      BY StatsSets, AnsweringAssumption, FS_CardinalityType DEF Stats!StatBatchAssumption, Stats!TypeOK
    <2>2. CASE Stats!NeedStat(c) = {}
      BY <2>2 DEF Stats!StatBlobs, Stats!TypeOK
    <2>3. CASE Stats!NeedStat(c) # {}
      <3>1. sStarted' = sStarted + 1 /\ sWpc' = [w \in Workers |-> IF w \in Stats!Fresh(1) THEN "gate" ELSE sWpc[w]]
        BY <2>3 DEF Stats!StatBlobs
      <3>2. \A w \in Workers : w \in Stats!Fresh(1) <=> sStarted < w /\ w <= sStarted + 1
        BY DEF Stats!Fresh
      <3> QED BY <2>1, <3>1, <3>2 DEF Stats!TypeOK, FreshInv
    <2> QED BY <2>2, <2>3
  <1>3. New \subseteq Stats!Uncached /\ \A q \in New : q[2] = c
    BY DEF Stats!NeedStat, Stats!Uncached, Stats!Requests, Stats!AskedBlobs
  <1>4. Called' = Called \cup {c} /\ c \notin Called
    BY <1>1 DEF Called, Stats!TypeOK
  <1>5. Taken' = Taken
    <2>1. \A q \in Stats!Uncached : q[2] = c => q \in New
      BY DEF Stats!NeedStat, Stats!Uncached, Stats!Requests
    <2> QED BY <1>1, <1>3, <1>4, <2>1 DEF Taken
  <1>6. StartInv' /\ sStarted' \in Nat
    <2> DEFINE a == Cardinality(Called)
               b == Cardinality(Taken)
    <2>1. a \in Nat /\ b \in Nat /\ Cardinality(Called') = a + 1
      <3>1. Called \subseteq Callers /\ Taken \subseteq Stats!Uncached
        BY DEF Called, Taken
      <3>2. IsFiniteSet(Called) /\ a \in Nat /\ b \in Nat
        BY <3>1, Count
      <3> QED BY <1>4, <3>2, FS_AddElement
    <2>2. sStarted <= a + b /\ sStarted \in Nat
      BY DEF StartInv, Stats!TypeOK
    <2>3. sStarted' <= (a + 1) + b
      <3> HIDE DEF a, b
      <3> QED BY <2>1, <2>2, <1>2
    <2> QED BY <2>1, <2>2, <2>3, <1>2, <1>5 DEF StartInv
  <1>7. Stats!TypeOK'
    <2>1. sGot' \in [Callers -> SUBSET Stats!AskedBlobs]
      <3>1. sGot \in [Callers -> SUBSET Stats!AskedBlobs] BY DEF Stats!TypeOK
      <3>2. Wanted[c] \cap Cached \subseteq Stats!AskedBlobs BY DEF Stats!AskedBlobs
      <3> QED BY <1>1, <3>1, <3>2
    <2>2. sCpc' \in [Callers -> {"call", "wait", "nil", "err"}]
      BY <1>1 DEF Stats!TypeOK
    <2>3. sPendStat' \subseteq Stats!Requests
      BY <1>1, <1>3 DEF Stats!TypeOK, Stats!Uncached
    <2>4. sStarted' \in 0..Cardinality(Workers)
      <3>1. Called' \in SUBSET Callers /\ Taken' \in SUBSET Stats!Uncached
        BY DEF Called, Taken
      <3> QED BY <1>6, <3>1, Enough DEF StartInv
    <2> QED BY StatsSets, <1>1, <1>2, <2>1, <2>2, <2>3, <2>4 DEF Stats!TypeOK
  <1>8. CallInv' /\ FreshInv'
    BY <1>1, <1>2, <1>3, <1>4 DEF CallInv, FreshInv
  <1>9. \A d \in Callers \ {c} : sGot'[d] = sGot[d] /\ sCpc'[d] = sCpc[d]
    BY <1>1 DEF Stats!TypeOK
  <1>10. sGot'[c] = Wanted[c] \cap Cached
    BY <1>1 DEF Stats!TypeOK
  <1>11. \A w \in Workers : \A q \in sBatch[w] : sGot'[q[2]] = sGot[q[2]]
    BY <1>4, <1>9 DEF CallInv, Called
  <1>12. FoundInv'
    <2> SUFFICES ASSUME NEW w \in Workers, FoundAt(w)
                 PROVE  FoundAt(w)'
      BY DEF FoundInv
    <2>1. sWpc'[w] = "send" <=> sWpc[w] = "send"
      BY <1>2
    <2>2. \A q \in sBatch[w] : sGot'[q[2]] = sGot[q[2]]
      BY <1>11
    <2>3. UNCHANGED <<sSending, sFound, sBatch, sServer, sResult>>
      BY <1>1
    <2> HIDE DEF StatsIInv
    <2> QED BY <2>1, <2>2, <2>3 DEF FoundAt
  <1>13. NilInv'
    <2>1. \A q \in Stats!Requests : sErrcs[q] = "nil" => sGot'[q[2]] = sGot[q[2]]
      BY <1>4, <1>9 DEF CallInv, Called
    <2> QED BY <1>1, <2>1 DEF NilInv
  <1>14. GotInv'
    BY <1>1, <1>4, <1>9, <1>10 DEF GotInv
  <1>15. Stats!StatTruth'
    <2>1. sCpc'[c] = "nil" => Wanted[c] \subseteq Cached
      BY <1>1 DEF Stats!TypeOK, Stats!NeedStat
    <2> QED BY <1>1, <1>9, <1>10, <2>1 DEF Stats!StatTruth
  <1> QED BY <1>6, <1>7, <1>8, <1>12, <1>13, <1>14, <1>15

\* A call returns nil only when each of its requests was answered without an error.
LEMMA returnErrOK ==
  ASSUME StatsIInv, NEW c \in Callers, Stats!returnErr(c)
  PROVE  StatsIInv'
  <1> USE DEF StatsIInv
  <1>1. /\ UNCHANGED <<sServer, sPendStat, sStarted, sWpc, sBatch, sFound, sSending, sResult, sErrcs, sGot>>
        /\ sCpc[c] = "wait"
        /\ \/ Stats!Unanswered(c) = {} /\ sCpc' = [sCpc EXCEPT ![c] = "nil"]
           \/ sCpc' = [sCpc EXCEPT ![c] = "err"]
    BY DEF Stats!returnErr
  <1>2. Called' = Called /\ c \in Called
    BY <1>1 DEF Called, Stats!TypeOK
  <1>3. Stats!TypeOK'
    BY <1>1 DEF Stats!TypeOK
  <1>4. StartInv' /\ FreshInv' /\ CallInv' /\ FoundInv' /\ NilInv' /\ GotInv'
    <2>1. Taken' = Taken BY <1>1, <1>2 DEF Taken
    <2>2. StartInv' /\ FreshInv' BY <1>1, <1>2, <2>1 DEF StartInv, FreshInv
    <2>3. CallInv' /\ FoundInv' BY <1>1, <1>2 DEF CallInv, FoundInv, FoundAt
    <2>4. NilInv' /\ GotInv' BY <1>1, <1>2 DEF NilInv, GotInv
    <2> QED BY <2>2, <2>3, <2>4
  <1>5. Stats!StatTruth'
    <2>1. \A d \in Callers \ {c} : sCpc'[d] = sCpc[d]
      BY <1>1 DEF Stats!TypeOK
    <2>2. sCpc'[c] = "nil" => Wanted[c] \cap (sServer \cup Cached) \subseteq sGot[c]
      <3> SUFFICES ASSUME sCpc'[c] = "nil", NEW b \in Wanted[c], b \in sServer \cup Cached
                   PROVE  b \in sGot[c]
        OBVIOUS
      <3>1. CASE b \in Cached BY <3>1, <1>2 DEF GotInv
      <3>2. CASE b \notin Cached
        <4>1. <<b, c>> \in Stats!Requests BY DEF Stats!Requests, Stats!AskedBlobs
        <4>2. Stats!Unanswered(c) = {} BY <1>1 DEF Stats!TypeOK
        <4>3. sErrcs[<<b, c>>] = "nil" BY <3>2, <4>2 DEF Stats!Unanswered, Stats!NeedStat
        <4> QED BY <3>2, <4>1, <4>3 DEF NilInv
      <3> QED BY <3>1, <3>2
    <2>3. \A d \in Callers : sGot[d] \subseteq Wanted[d] \cap (sServer \cup Cached)
      BY DEF GotInv
    <2> QED BY <1>1, <2>1, <2>2, <2>3 DEF Stats!StatTruth
  <1> QED BY <1>3, <1>4, <1>5

\* A worker takes a batch off the pending requests; what it starts beside it for a
\* full batch is no more than there are requests taken.
LEMMA takeBatchOK ==
  ASSUME StatsIInv, NEW w \in Workers, Stats!takeBatch(w)
  PROVE  StatsIInv'
  <1> USE DEF StatsIInv
  <1>1. PICK Q \in Stats!Batches :
          /\ sBatch' = [sBatch EXCEPT ![w] = Q]
          /\ sPendStat' = sPendStat \ Q
          /\ sStarted' = sStarted + IF Cardinality(Stats!BlobsOf(Q)) = maxStatPerReq THEN 1 ELSE 0
          /\ sWpc' = [v \in Workers |->
                       IF v = w THEN (IF sPendStat = {} THEN "done" ELSE "stat")
                       ELSE IF v \in Stats!Fresh(IF Cardinality(Stats!BlobsOf(Q)) = maxStatPerReq THEN 1 ELSE 0)
                            THEN "gate" ELSE sWpc[v]]
    BY StatsSets DEF Stats!takeBatch
  <1>2. UNCHANGED <<sServer, sFound, sSending, sResult, sCpc, sErrcs, sGot>>
    BY DEF Stats!takeBatch
  <1>3. Q \subseteq sPendStat
    BY DEF Stats!Batches
  <1>4. Called' = Called
    BY <1>2 DEF Called
  <1>5. Taken' = Taken \cup Q /\ Taken \cap Q = {}
    BY <1>1, <1>2, <1>3, <1>4 DEF Taken, CallInv
  <1>6. StartInv' /\ sStarted' \in Nat
    <2> DEFINE a == Cardinality(Called)
               b == Cardinality(Taken)
               e == Cardinality(Q)
    <2>0. Taken \subseteq Stats!Uncached /\ Q \subseteq Stats!Uncached /\ Called \subseteq Callers
      BY <1>3 DEF Taken, CallInv, Called
    <2>1. a \in Nat /\ b \in Nat /\ e \in Nat /\ IsFiniteSet(Taken) /\ IsFiniteSet(Q)
      BY <2>0, Count
    <2>2. Cardinality(Taken') = b + e
      <3>1. Cardinality(Taken \cap Q) = 0 BY <1>5, FS_EmptySet
      <3>2. Cardinality(Taken \cup Q) = b + e - 0
        BY <2>1, <3>1, FS_Union
      <3> QED BY <1>5, <3>2, <2>1
    <2>3. sStarted <= a + b /\ sStarted \in Nat
      BY DEF StartInv, Stats!TypeOK
    <2>4. Cardinality(Stats!BlobsOf(Q)) = maxStatPerReq => e >= 1
      <3> SUFFICES ASSUME Q = {} PROVE Cardinality(Stats!BlobsOf(Q)) # maxStatPerReq
        BY <2>1, FS_EmptySet
      <3>1. Stats!BlobsOf(Q) = {} BY DEF Stats!BlobsOf
      <3> QED BY <3>1, FS_EmptySet, AnsweringAssumption DEF Stats!StatBatchAssumption
    <2>5. sStarted' \in Nat /\ sStarted' <= a + (b + e)
      <3> HIDE DEF a, b, e
      <3> QED BY <2>1, <2>3, <2>4, <1>1
    <2> QED BY <2>2, <2>5, <1>4 DEF StartInv
  <1>7. /\ sWpc' \in [Workers -> {"none", "gate", "stat", "send", "done"}]
        /\ sWpc[w] = "gate" /\ sWpc'[w] \in {"stat", "done"}
        /\ \A v \in Workers \ {w} : sWpc'[v] = sWpc[v] \/ (sWpc[v] = "none" /\ sWpc'[v] = "gate")
        /\ \A v \in Workers : sStarted' < v => sWpc'[v] = "none"
        /\ \A v \in Workers \ {w} : sBatch'[v] = sBatch[v]
        /\ sBatch'[w] = Q
    <2> DEFINE kick == IF Cardinality(Stats!BlobsOf(Q)) = maxStatPerReq THEN 1 ELSE 0
    <2>1. Workers \subseteq Nat /\ sStarted \in Nat /\ kick \in {0, 1} /\ sStarted' = sStarted + kick
      BY StatsSets, <1>1, AnsweringAssumption, FS_CardinalityType DEF Stats!StatBatchAssumption, Stats!TypeOK
    <2>2. sWpc[w] = "gate" /\ w <= sStarted
      BY <2>1 DEF Stats!takeBatch, FreshInv
    <2>3. sWpc' = [v \in Workers |->
                     IF v = w THEN (IF sPendStat = {} THEN "done" ELSE "stat")
                     ELSE IF v \in Stats!Fresh(kick) THEN "gate" ELSE sWpc[v]]
      BY <1>1
    <2> HIDE DEF kick
    <2>4. \A v \in Workers : v \in Stats!Fresh(kick) <=> sStarted < v /\ v <= sStarted + kick
      BY DEF Stats!Fresh
    <2>5. /\ sWpc' \in [Workers -> {"none", "gate", "stat", "send", "done"}]
          /\ sWpc'[w] \in {"stat", "done"}
          /\ \A v \in Workers \ {w} : sWpc'[v] = IF v \in Stats!Fresh(kick) THEN "gate" ELSE sWpc[v]
      BY <2>3 DEF Stats!TypeOK
    <2>6. \A v \in Workers \ {w} : sWpc'[v] = sWpc[v] \/ (sWpc[v] = "none" /\ sWpc'[v] = "gate")
      BY <2>1, <2>4, <2>5 DEF FreshInv
    <2>7. \A v \in Workers : sStarted' < v => sWpc'[v] = "none"
      BY <2>1, <2>2, <2>4, <2>5 DEF FreshInv
    <2>8. sBatch'[w] = Q /\ \A v \in Workers \ {w} : sBatch'[v] = sBatch[v]
      BY <1>1 DEF Stats!TypeOK
    <2> QED BY <2>2, <2>5, <2>6, <2>7, <2>8
  <1>8. Stats!TypeOK'
    <2>1. sBatch' \in [Workers -> SUBSET Stats!Requests] /\ sPendStat' \subseteq Stats!Requests
      BY <1>1, <1>3 DEF Stats!TypeOK
    <2>2. sStarted' \in 0..Cardinality(Workers)
      <3>1. Called' \in SUBSET Callers /\ Taken' \in SUBSET Stats!Uncached
        BY DEF Called, Taken
      <3> QED BY <1>6, <3>1, Enough DEF StartInv
    <2> QED BY StatsSets, <1>2, <1>7, <2>1, <2>2 DEF Stats!TypeOK
  <1>9. CallInv' /\ FreshInv'
    BY <1>1, <1>2, <1>3, <1>4, <1>7 DEF CallInv, FreshInv
  <1>10. FoundInv'
    <2>1. sFound[w] = {} /\ sSending[w] = Stats!None
      BY <1>7 DEF FoundInv, FoundAt
    <2> QED BY <1>2, <1>7, <2>1 DEF FoundInv, FoundAt
  <1>11. NilInv' /\ GotInv' /\ Stats!StatTruth'
    BY <1>2, <1>4 DEF NilInv, GotInv, Stats!StatTruth
  <1> QED BY <1>6, <1>8, <1>9, <1>10, <1>11

\* The request to the server finds what the server has of the batch, or fails.
LEMMA doStatOK ==
  ASSUME StatsIInv, NEW w \in Workers, Stats!doStat(w)
  PROVE  StatsIInv'
  <1> USE DEF StatsIInv
  <1>1. /\ UNCHANGED <<sServer, sPendStat, sStarted, sBatch, sSending, sCpc, sErrcs, sGot>>
        /\ sWpc[w] = "stat" /\ sWpc' = [sWpc EXCEPT ![w] = "send"]
        /\ \/ /\ sFound' = [sFound EXCEPT ![w] = {q \in sBatch[w] : q[1] \in sServer}]
              /\ sResult' = [sResult EXCEPT ![w] = "nil"]
           \/ /\ sFound' = [sFound EXCEPT ![w] = {}]
              /\ sResult' = [sResult EXCEPT ![w] = "err"]
    BY DEF Stats!doStat
  <1>2. Called' = Called /\ Taken' = Taken
    BY <1>1 DEF Called, Taken
  <1>3. Stats!TypeOK' BY <1>1 DEF Stats!TypeOK
  <1>4. StartInv' /\ FreshInv' /\ CallInv'
    BY <1>1, <1>2 DEF StartInv, FreshInv, CallInv, Stats!TypeOK
  <1>5. FoundInv'
    <2>1. sSending[w] = Stats!None
      BY <1>1 DEF FoundInv, FoundAt
    <2>2. \A v \in Workers \ {w} : sFound'[v] = sFound[v] /\ sResult'[v] = sResult[v] /\ sWpc'[v] = sWpc[v]
      BY <1>1 DEF Stats!TypeOK
    <2>3. /\ sWpc'[w] = "send"
          /\ \/ sFound'[w] = {q \in sBatch[w] : q[1] \in sServer}
             \/ sFound'[w] = {} /\ sResult'[w] = "err"
      BY <1>1 DEF Stats!TypeOK
    <2>4. /\ sSending'[w] \in sFound'[w] \cup {Stats!None}
          /\ sFound'[w] \subseteq {q \in sBatch'[w] : q[1] \in sServer'}
          /\ sWpc'[w] = "send"
          /\ sResult'[w] = "nil" => \A q \in sBatch'[w] : q[1] \in sServer' => q \in sFound'[w]
      BY <1>1, <2>1, <2>3
    <2>5. \A v \in Workers \ {w} : FoundAt(v)'
      BY <1>1, <2>2 DEF FoundInv, FoundAt
    <2> QED BY <2>4, <2>5 DEF FoundInv, FoundAt
  <1>6. NilInv' /\ GotInv' /\ Stats!StatTruth'
    BY <1>1, <1>2 DEF NilInv, GotInv, Stats!StatTruth
  <1> QED BY <1>3, <1>4, <1>5, <1>6

\* The worker looks for the next blob it has found.
LEMMA nextDestOK ==
  ASSUME StatsIInv, NEW w \in Workers, Stats!nextDest(w)
  PROVE  StatsIInv'
  <1> USE DEF StatsIInv
  <1>1. /\ UNCHANGED <<sServer, sPendStat, sStarted, sWpc, sBatch, sFound, sResult, sCpc, sErrcs, sGot>>
        /\ \E q \in sFound[w] : sSending' = [sSending EXCEPT ![w] = q]
    BY DEF Stats!nextDest
  <1>2. Called' = Called /\ Taken' = Taken
    BY <1>1 DEF Called, Taken
  <1>3. Stats!TypeOK' BY <1>1 DEF Stats!TypeOK
  <1>4. StartInv' /\ FreshInv' /\ CallInv'
    BY <1>1, <1>2 DEF StartInv, FreshInv, CallInv
  <1>5. FoundInv' BY <1>1 DEF FoundInv, FoundAt, Stats!TypeOK
  <1>6. NilInv' /\ GotInv' /\ Stats!StatTruth'
    BY <1>1, <1>2 DEF NilInv, GotInv, Stats!StatTruth
  <1> QED BY <1>3, <1>4, <1>5, <1>6

\* The worker passes a blob on to the caller that asked for it.
LEMMA sendDestOK ==
  ASSUME StatsIInv, NEW w \in Workers, Stats!sendDest(w)
  PROVE  StatsIInv'
  <1> USE DEF StatsIInv
  <1> DEFINE q == sSending[w]
  <1>1. /\ UNCHANGED <<sServer, sPendStat, sStarted, sWpc, sBatch, sResult, sCpc, sErrcs>>
        /\ sWpc[w] = "send" /\ q # Stats!None /\ sCpc[q[2]] = "wait"
        /\ sGot' = [sGot EXCEPT ![q[2]] = @ \cup {q[1]}]
        /\ sFound' = [sFound EXCEPT ![w] = @ \ {q}]
        /\ sSending' = [sSending EXCEPT ![w] = Stats!None]
    BY DEF Stats!sendDest
  <1>2. q \in sFound[w] /\ q \in sBatch[w] /\ q \in Stats!Requests /\ q[1] \in sServer
    BY <1>1 DEF FoundInv, FoundAt, Stats!TypeOK
  <1>3. q[2] \in Callers /\ q[1] \in Wanted[q[2]] /\ q[1] \in Stats!AskedBlobs
    BY <1>2 DEF Stats!Requests
  <1> HIDE DEF q
  <1>4. Called' = Called /\ Taken' = Taken
    BY <1>1 DEF Called, Taken
  <1>5. Stats!TypeOK' BY <1>1, <1>3 DEF Stats!TypeOK
  <1>6. StartInv' /\ FreshInv' /\ CallInv'
    BY <1>1, <1>4 DEF StartInv, FreshInv, CallInv
  <1>7. /\ sGot'[q[2]] = sGot[q[2]] \cup {q[1]}
        /\ \A c \in Callers \ {q[2]} : sGot'[c] = sGot[c]
    BY <1>1, <1>3 DEF Stats!TypeOK
  <1>8. FoundInv'
    <2>1. \A v \in Workers \ {w} : sFound'[v] = sFound[v] /\ sSending'[v] = sSending[v]
      BY <1>1 DEF Stats!TypeOK
    <2>2. sFound'[w] = sFound[w] \ {q} /\ sSending'[w] = Stats!None
      BY <1>1 DEF Stats!TypeOK
    <2>3. \A v \in Workers : \A p \in sBatch[v] : p[1] \in sGot[p[2]] => p[1] \in sGot'[p[2]]
      <3> SUFFICES ASSUME NEW v \in Workers, NEW p \in sBatch[v], p[1] \in sGot[p[2]]
                   PROVE  p[1] \in sGot'[p[2]]
        OBVIOUS
      <3>0. p \in Stats!Requests BY DEF Stats!TypeOK
      <3>1. p[2] \in Callers BY <3>0 DEF Stats!Requests
      <3> QED BY <1>7, <3>1
    <2> QED BY <1>1, <1>7, <2>1, <2>2, <2>3 DEF FoundInv, FoundAt
  <1>9. NilInv'
    <2>1. \A p \in Stats!Requests : p[2] \in Callers BY DEF Stats!Requests
    <2> QED BY <1>1, <1>7, <2>1 DEF NilInv
  <1>10. GotInv'
    <2> SUFFICES ASSUME NEW c \in Callers
                 PROVE  /\ sGot'[c] \subseteq Wanted[c] \cap (sServer \cup Cached)
                        /\ c \in Called => Wanted[c] \cap Cached \subseteq sGot'[c]
      BY <1>1, <1>4 DEF GotInv
    <2>1. /\ sGot[c] \subseteq Wanted[c] \cap (sServer \cup Cached)
          /\ c \in Called => Wanted[c] \cap Cached \subseteq sGot[c]
      BY DEF GotInv
    <2>2. CASE c = q[2] BY <1>2, <1>3, <1>7, <2>1, <2>2
    <2>3. CASE c # q[2] BY <1>7, <2>1, <2>3
    <2> QED BY <2>2, <2>3
  <1>11. Stats!StatTruth'
    <2> SUFFICES ASSUME NEW c \in Callers
                 PROVE  /\ sGot'[c] \subseteq Wanted[c] \cap (sServer \cup Cached)
                        /\ sCpc[c] = "nil" => sGot'[c] = Wanted[c] \cap (sServer \cup Cached)
      BY <1>1 DEF Stats!StatTruth
    <2>1. /\ sGot[c] \subseteq Wanted[c] \cap (sServer \cup Cached)
          /\ sCpc[c] = "nil" => sGot[c] = Wanted[c] \cap (sServer \cup Cached)
      BY DEF Stats!StatTruth
    <2>2. CASE c = q[2] BY <1>1, <1>2, <1>3, <1>7, <2>1, <2>2
    <2>3. CASE c # q[2] BY <1>7, <2>1, <2>3
    <2> QED BY <2>2, <2>3
  <1> QED BY <1>5, <1>6, <1>8, <1>9, <1>10, <1>11

\* The worker answers the requests of its batch after it has passed all blobs on.
LEMMA sendErrOK ==
  ASSUME StatsIInv, NEW w \in Workers, Stats!sendErr(w)
  PROVE  StatsIInv'
  <1> USE DEF StatsIInv
  <1>1. /\ UNCHANGED <<sServer, sPendStat, sStarted, sBatch, sFound, sSending, sResult, sCpc, sGot>>
        /\ sWpc[w] = "send" /\ sFound[w] = {} /\ sWpc' = [sWpc EXCEPT ![w] = "done"]
        /\ sErrcs' = [q \in Stats!Requests |-> IF q \in sBatch[w] THEN sResult[w] ELSE sErrcs[q]]
    BY DEF Stats!sendErr
  <1>2. Called' = Called /\ Taken' = Taken
    BY <1>1 DEF Called, Taken
  <1>3. Stats!TypeOK' BY <1>1 DEF Stats!TypeOK
  <1>4. StartInv' /\ FreshInv' /\ CallInv'
    BY <1>1, <1>2 DEF StartInv, FreshInv, CallInv, Stats!TypeOK
  <1>5. FoundInv'
    BY <1>1 DEF FoundInv, FoundAt, Stats!TypeOK
  <1>6. NilInv'
    BY <1>1 DEF NilInv, FoundInv, FoundAt
  <1>7. GotInv' /\ Stats!StatTruth'
    BY <1>1, <1>2 DEF GotInv, Stats!StatTruth
  <1> QED BY <1>3, <1>4, <1>5, <1>6, <1>7

\* Every step keeps the invariant.
LEMMA StatsStepOK == ASSUME StatsIInv, [Stats!Next]_(Stats!vars) PROVE StatsIInv'
  <1>1. CASE UNCHANGED Stats!vars
    <2>1. Called' = Called /\ Taken' = Taken BY <1>1 DEF Stats!vars, Called, Taken
    <2>2. Stats!TypeOK' BY <1>1 DEF Stats!vars, StatsIInv, Stats!TypeOK
    <2>3. StartInv' /\ FreshInv' /\ CallInv' BY <1>1, <2>1 DEF Stats!vars, StatsIInv, StartInv, FreshInv, CallInv
    <2>4. FoundInv' /\ NilInv' BY <1>1 DEF Stats!vars, StatsIInv, FoundInv, FoundAt, NilInv
    <2>5. GotInv' /\ Stats!StatTruth' BY <1>1, <2>1 DEF Stats!vars, StatsIInv, GotInv, Stats!StatTruth
    <2> QED BY <2>2, <2>3, <2>4, <2>5 DEF StatsIInv
  <1> QED
    BY <1>1, StatBlobsOK, returnErrOK, takeBatchOK, doStatOK, nextDestOK, sendDestOK, sendErrOK
       DEF Stats!Next, Stats!Goroutines

-----------------------------------------------------------------------------
(***************************************************************************)
(* The components as they run beside each other.                           *)
(***************************************************************************)

\* A step is one of the component that runs, or leaves it alone; nothing changes
\* which component runs.
LEMMA AnsweringStep ==
  ASSUME [AnsweringNext]_<<part, answeringVars>>
  PROVE  /\ part' = part
         /\ part = "mergedenum" => [Merged!Next]_(Merged!vars)
         /\ part = "statbatch" => [Stats!Next]_(Stats!vars)
  BY DEF AnsweringNext, answeringVars, mVars, sVars,
         Merged!vars, Stats!vars

\* The component that runs keeps its inductive invariant.
AnsweringInv ==
    /\ part = "mergedenum" => MergedIInv
    /\ part = "statbatch" => StatsIInv

\* The invariant of the component that runs is inductive.
LEMMA AnsweringInvHolds == AnsweringSpec => []AnsweringInv
<1>1. AnsweringInit => AnsweringInv
  BY AnsweringAssumption, MergedInitial, StatsInitial
     DEF AnsweringInit, AnsweringInv
<1>2. AnsweringInv /\ [AnsweringNext]_<<part, answeringVars>> => AnsweringInv'
  <2> SUFFICES ASSUME AnsweringInv, [AnsweringNext]_<<part, answeringVars>> PROVE AnsweringInv'
    OBVIOUS
  <2>1. part = "mergedenum" => MergedIInv'
    BY AnsweringStep, MergedStepOK DEF AnsweringInv
  <2>2. part = "statbatch" => StatsIInv'
    BY AnsweringStep, StatsStepOK DEF AnsweringInv
  <2> QED
    BY <2>1, <2>2, AnsweringStep DEF AnsweringInv
<1> QED
  BY <1>1, <1>2, PTL DEF AnsweringSpec

\* The variables of the two pipelines keep to their types: no channel holds more than
\* its capacity, and no more workers are started than there can be.
THEOREM AnsweringTypes == AnsweringSpec => []AnsweringTypeOK
<1>1. AnsweringInv => AnsweringTypeOK
  BY DEF AnsweringInv, AnsweringTypeOK, MergedIInv, StatsIInv
<1> QED
  BY <1>1, AnsweringInvHolds, PTL

\* mergedEnumerate sends the blobs of the union of its sources in order, each once,
\* and when it returns without an error all of them, or as many as were asked for.
THEOREM MergeSafety == AnsweringSpec => []MergedIsUnion
<1>1. AnsweringInv => MergedIsUnion
  BY AtTheEnd DEF AnsweringInv, MergedIsUnion
<1> QED
  BY <1>1, AnsweringInvHolds, PTL

\* StatBlobs of the client gives its caller what the server has, and nothing else, when
\* it returns without an error, whoever did the request for it.
THEOREM StatSafety == AnsweringSpec => []StatTruth
<1>1. AnsweringInv => StatTruth
  BY DEF AnsweringInv, StatTruth, StatsIInv
<1> QED
  BY <1>1, AnsweringInvHolds, PTL
-----------------------------------------------------------------------------
(* The pipelines side by side *)

\* Every behavior of the pipelines is one of the validation, without its fairness, and
\* one of mergedEnumerate and the stats: what the theorems say of each holds of it.
THEOREM PipelinesImplementParts ==
    AllSpec => (Init /\ [][Next]_vars) /\ AnsweringSpec
<1>1. AllInit => Init /\ AnsweringInit
  BY DEF AllInit
<1>2. [AllNext]_allVars => [Next]_vars /\ [AnsweringNext]_<<part, answeringVars>>
  <2>1. CASE UNCHANGED allVars
    BY <2>1 DEF allVars
  <2>2. CASE part = "validation" /\ Next /\ UNCHANGED <<part, answeringVars>>
    BY <2>2
  <2>3. CASE AnsweringNext /\ UNCHANGED vars
    BY <2>3
  <2> QED
    BY <2>1, <2>2, <2>3 DEF AllNext
<1> QED
  BY <1>1, <1>2, PTL DEF AllSpec, AnsweringSpec

\* Every pipeline keeps its types, whatever its constants and the faults: channels stay
\* within their capacity, and no zero blob is reported missing.
THEOREM PipelinesTypes == AllSpec => []AllTypeOK
<1>1. TypeOK /\ AnsweringTypeOK => AllTypeOK
  BY DEF AllTypeOK
<1>2. ValidIInv => TypeOK
  BY DEF ValidIInv
<1> QED
  BY <1>1, <1>2, PipelinesImplementParts, ValidationInvariant, AnsweringTypes, PTL
=============================================================================
