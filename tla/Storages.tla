------------------------------ MODULE Storages ------------------------------
(***************************************************************************)
(* The diskpacked storage and six components beside it: one of them runs,  *)
(* and the others rest, diskpacked at its initial values.                  *)
(***************************************************************************)
EXTENDS Diskpacked, PackingStorage, DurableStorages, CountingStorages

allVars == <<part, vars, pVars, durableVars, countingVars>>

\* Whatever part is; the run that checks this module gives it its values.
AllInit == Init /\ PackedInit /\ DurableInit /\ CountingInit

AllNext ==
    \/ part = "diskpacked" /\ Next /\ UNCHANGED <<part, pVars, durableVars, countingVars>>
    \/ PackedNext /\ UNCHANGED <<vars, durableVars, countingVars>>
    \/ DurableNext /\ UNCHANGED <<vars, pVars, countingVars>>
    \/ CountingNext /\ UNCHANGED <<vars, pVars, durableVars>>

AllSpec == AllInit /\ [][AllNext]_allVars

-----------------------------------------------------------------------------
\* Every component keeps its types, Diskpacked in its row offsets and file sizes too.
AllTypeOK == TypeOK /\ PackedTypeOK /\ DurableTypeOK /\ CountingTypeOK
=============================================================================
