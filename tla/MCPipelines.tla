---------------------------- MODULE MCPipelines -----------------------------
(***************************************************************************)
(* A small instance of Pipelines for TLC.                                  *)
(***************************************************************************)
EXTENDS Pipelines, TLC

\* What the sources of mergedEnumerate may have.
SomeStores == {{2, 3, 4}, {4, 5, 6}, {1, 3, 5}, {}, {2, 6}, {3}}

\* Two callers of StatBlobs that share a blob.
Asked == "x" :> {1, 2} @@ "y" :> {2, 3}

Components == {"validation", "mergedenum", "statbatch"}

\* A validation that does not run has one initial state.
MCInit ==
    /\ part \in Components
    /\ part # "validation" => store = [x \in Sides |-> {}]
    /\ AllInit

MCSpec == MCInit /\ [][AllNext]_allVars /\ WF_allVars(SomeGoroutine)
=============================================================================
