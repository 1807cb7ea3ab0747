---------------------------- MODULE MCBlockStream ----------------------------
(***************************************************************************)
(* Model values for BlockStream.                                           *)
(***************************************************************************)
EXTENDS BlockStream

=============================================================================
