-------------------------- MODULE AccountLifecycle ---------------------------
(***************************************************************************)
(* What the application promises about an account, without signatures,     *)
(* stores or filters: it is opened with one action used up, every further  *)
(* action uses up exactly the next one, and a closed account does nothing  *)
(* until it is opened again.  Opening an account that is open starts it    *)
(* over.                                                                   *)
(*                                                                         *)
(* Two exceptions.  An account that is not open can be closed, but only    *)
(* while some genesis account has used up nothing.  And with an action     *)
(* that leaves its account open, the account of another user may be lost;  *)
(* that one, too, does nothing until it is opened again.                   *)
(***************************************************************************)
EXTENDS Naturals

CONSTANTS Users, Genesis    \* genesis accounts are open with nothing used up

VARIABLE account

Init == account = [u \in Users |->
          [status |-> IF u \in Genesis THEN "open" ELSE "none", used |-> 0]]

Stopped(status) == [status |-> status, used |-> 0]

\* The account of u is open with n actions used up, and those of lost are lost.
Opens(u, n, lost) ==
  account' = [v \in Users |-> IF v = u THEN [status |-> "open", used |-> n]
                              ELSE IF v \in lost THEN Stopped("lost") ELSE account[v]]

Open(u, lost) == Opens(u, 1, lost)

Use(u, lost) == /\ account[u].status = "open"
                /\ Opens(u, account[u].used + 1, lost)

Close(u) == /\ \/ account[u].status = "open"
               \/ \E g \in Genesis : account[g] = [status |-> "open", used |-> 0]
            /\ account' = [account EXCEPT ![u] = Stopped("closed")]

Next ==
  \/ \E u, v \in Users : Open(u, {v}) \/ Use(u, {v})
  \/ \E u \in Users : Open(u, {}) \/ Use(u, {}) \/ Close(u)

Spec == Init /\ [][Next]_account

=============================================================================
