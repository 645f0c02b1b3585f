------------------------------ MODULE Running -------------------------------
(***************************************************************************)
(* What the components that are checked side by side share.  They do not   *)
(* interact: `part' says which of them runs in a behavior, and the         *)
(* variables of the others rest at Off.                                    *)
(***************************************************************************)
CONSTANTS
    Off,      \* nothing, nobody, and the variables of what does not run
    Callers,  \* callers of ReceiveBlob, of StatBlobs, or of a sorted.KeyValue
    Failing   \* the calls that may fail

VARIABLE part  \* the component that runs
=============================================================================
