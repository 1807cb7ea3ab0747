------------------------------ MODULE MCUpdates ------------------------------
(***************************************************************************)
(* Model values for Updates.  The viewer may be u1 or u2 and watch i1 or   *)
(* i2; forms are about i2.  One form of u1 comes accepted and refused; a   *)
(* form of u2 has its identifier.  Or u1 has an accepted form and a refused *)
(* one, with two identifiers.                                              *)
(***************************************************************************)
EXTENDS Updates

CONSTANTS u1, u2, i1, i2, id1, id2, k1, k2

FormTx(id, cid, key, good) ==
  [type |-> "submit", info |-> [id |-> id, cid |-> cid, issue |-> i2, submitter |-> key],
   good |-> good]

MCTxs ==
  {FormTx(id1, k1, u1, TRUE), FormTx(id1, k1, u1, FALSE), FormTx(id1, k2, u2, TRUE),
   [type |-> "submit", info |-> NoInfo, good |-> FALSE],
   [type |-> "other", info |-> NoInfo, good |-> TRUE]}

MCTwoForms == {FormTx(id1, k1, u1, TRUE), FormTx(id2, k2, u1, TRUE)}

=============================================================================
