--------------------------- MODULE StorageBounds ----------------------------
(***************************************************************************)
(* The bounds that the storages beside diskpacked share.                   *)
(***************************************************************************)
EXTENDS Running

CONSTANTS
    MaxUploads,   \* bound: how many uploads begin
    MaxRemovals,  \* bound: how many removals begin
    MaxStops      \* bound: how many times the process stops
=============================================================================
