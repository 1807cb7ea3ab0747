------------------------------ MODULE MCSession ------------------------------
(***************************************************************************)
(* Model values for Session.                                               *)
(***************************************************************************)
EXTENDS Session, TLC

MCForms == [id : FormIDs, cid : ContentIDs, issue : Issues]

\* Requests are interchangeable.
MCSymmetry == Permutations(Handlers)

=============================================================================
