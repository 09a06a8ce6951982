----------------------------- MODULE MCSnapshot -----------------------------
(* Snapshot with one node from genesis and one that joins by state sync.   *)
EXTENDS Snapshot
=============================================================================
