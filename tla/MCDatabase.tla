----------------------------- MODULE MCDatabase -----------------------------
(***************************************************************************)
(* Small instances of Database for TLC.                                    *)
(***************************************************************************)
EXTENDS Database

CONSTANTS a, b, w, x
=============================================================================
