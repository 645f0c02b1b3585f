----------------------------- MODULE Answering ------------------------------
(***************************************************************************)
(* MergedEnum and StatBatch as components of Pipelines: both put the       *)
(* answer to a caller together from what several goroutines found.         *)
(***************************************************************************)
EXTENDS Running

CONSTANTS
    Blobs, Stores, Sources, Buffered, After, Limit,    \* mergedEnumerate
    Wanted, Cached, Workers, Gate, maxStatPerReq       \* stats

VARIABLES
    mHave, mCh, mLast, mSent, mSpc, mPeek, mDest, mMpc, mCanceled,
    sServer, sPendStat, sStarted, sWpc, sBatch, sFound, sSending, sResult, sCpc,
    sErrcs, sGot

mVars == <<mHave, mCh, mLast, mSent, mSpc, mPeek, mDest, mMpc, mCanceled>>
sVars == <<sServer, sPendStat, sStarted, sWpc, sBatch, sFound, sSending, sResult, sCpc,
           sErrcs, sGot>>
answeringVars == <<mVars, sVars>>

Merged == INSTANCE MergedEnum WITH
        Faults <- Failing, have <- mHave, ch <- mCh, last <- mLast, sent <- mSent, spc <- mSpc,
        peek <- mPeek, dest <- mDest, mpc <- mMpc, canceled <- mCanceled

Stats == INSTANCE StatBatch WITH
        Faults <- Failing, server <- sServer, pendStat <- sPendStat, started <- sStarted, wpc <- sWpc,
        batch <- sBatch, found <- sFound, sending <- sSending, result <- sResult,
        cpc <- sCpc, errcs <- sErrcs, got <- sGot

(* The variables of a component that does not run *)
mOff ==
    /\ mHave = Off /\ mCh = Off /\ mLast = Off /\ mSent = Off /\ mSpc = Off
    /\ mPeek = Off /\ mDest = Off /\ mMpc = Off /\ mCanceled = Off
sOff ==
    /\ sServer = Off /\ sPendStat = Off /\ sStarted = Off /\ sWpc = Off
    /\ sBatch = Off /\ sFound = Off /\ sSending = Off /\ sResult = Off
    /\ sCpc = Off /\ sErrcs = Off /\ sGot = Off

AnsweringInit ==
    /\ IF part = "mergedenum" THEN Merged!Init ELSE mOff
    /\ IF part = "statbatch" THEN Stats!Init ELSE sOff

AnsweringNext ==
    /\ UNCHANGED part
    /\ \/ part = "mergedenum" /\ Merged!Next /\ UNCHANGED sVars
       \/ part = "statbatch" /\ Stats!Next /\ UNCHANGED mVars

AnsweringSpec == AnsweringInit /\ [][AnsweringNext]_<<part, answeringVars>>

ASSUME AnsweringAssumption ==
    /\ Merged!MergedEnumAssumption
    /\ Stats!StatBatchAssumption

-----------------------------------------------------------------------------
\* The components keep their types; channels stay within their capacity.
AnsweringTypeOK ==
    /\ part = "mergedenum" => Merged!TypeOK
    /\ part = "statbatch" => Stats!TypeOK

\* mergedEnumerate sends the first blobs of the union of its sources, in order.
MergedIsUnion == part = "mergedenum" => Merged!MergedIsUnion

\* mergedEnumerate returns, or hangs at the limit in the way named there.
MergeEnds == part = "mergedenum" => Merged!MergeEnds

\* StatBlobs of the client gives its caller what the server has.
StatTruth == part = "statbatch" => Stats!StatTruth

\* StatBlobs of the client returns, or a worker hangs in the way named there.
StatEnds == <>(part = "statbatch" => Stats!Answered)
=============================================================================
