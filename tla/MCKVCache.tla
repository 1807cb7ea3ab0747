------------------------------ MODULE MCKVCache ------------------------------
(***************************************************************************)
(* Model values for KVCache.                                               *)
(***************************************************************************)
EXTENDS KVCache

=============================================================================
