------------------------------ MODULE MCNotary ------------------------------
(***************************************************************************)
(* Instances of Notary: two nodes, with Tendermint validator sets that     *)
(* differ, so that an aggregate can become signed by a change of the set.  *)
(***************************************************************************)
EXTENDS Notary

CONSTANTS v1, v2

TwoTmSets == {{v1}, {v1, v2}}
=============================================================================
