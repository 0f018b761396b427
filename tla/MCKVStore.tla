------------------------------ MODULE MCKVStore ------------------------------
(***************************************************************************)
(* Small instances of KVStore for TLC.                                     *)
(***************************************************************************)
EXTENDS KVStore

CONSTANTS k1, k2, k3, v1, v2, t1, t2
=============================================================================
