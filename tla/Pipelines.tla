----------------------------- MODULE Pipelines ------------------------------
(***************************************************************************)
(* Three pipelines of goroutines: the validation of a sync handler,        *)
(* mergedEnumerate and the batched stats of the client.  One of them runs, *)
(* and the others rest, the validation at its initial values.              *)
(***************************************************************************)
EXTENDS Validation, Answering

allVars == <<part, vars, answeringVars>>

\* Whatever part is; the run that checks this module gives it its values.
AllInit == Init /\ AnsweringInit

AllNext ==
    \/ part = "validation" /\ Next /\ UNCHANGED <<part, answeringVars>>
    \/ AnsweringNext /\ UNCHANGED vars

\* Some goroutine of the component that runs can take a step.
SomeGoroutine ==
    \/ part = "validation" /\ Goroutines /\ UNCHANGED <<part, answeringVars>>
    \/ part = "mergedenum" /\ Merged!Goroutines /\ UNCHANGED <<part, vars, sVars>>
    \/ part = "statbatch" /\ Stats!Goroutines /\ UNCHANGED <<part, vars, mVars>>

\* The program goes on while it can.
AllSpec == AllInit /\ [][AllNext]_allVars /\ WF_allVars(SomeGoroutine)

-----------------------------------------------------------------------------
\* Every component keeps its types; channels stay within their capacity,
\* and no zero blob is reported missing.
AllTypeOK == TypeOK /\ AnsweringTypeOK

\* validateShardPrefix returns, or hangs in one of the two ways that ShardEnds names.
ValidationEnds == part = "validation" => ShardEnds
=============================================================================
