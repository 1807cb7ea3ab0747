------------------------------ MODULE MCRestart ------------------------------
(***************************************************************************)
(* Model values for Restart: a user of the genesis file and another, one   *)
(* issue, a form, and for each account one that has its key for identifier. *)
(***************************************************************************)
EXTENDS Restart

CONSTANTS u1, u2, i1, i2, id1, k1, k2

MCInfos == {[id |-> id1, cid |-> k1, issue |-> i1, submitter |-> u1],
            [id |-> u1, cid |-> k1, issue |-> i1, submitter |-> u2],
            [id |-> u2, cid |-> k2, issue |-> i1, submitter |-> u2]}

MCSeqNos == 1 .. MaxLog + 1

\* The genesis file, with one key that lacks its prefix.
MCItems == << <<"base", "chainID">>, "comit", <<"base", "issue">>, i1, <<"issue">>, i2,
              <<"base", "account">>, u1 >>

=============================================================================
