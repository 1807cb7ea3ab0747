------------------------------- MODULE Session -------------------------------
(***************************************************************************)
(* The HTTP handlers of manager/manager.go that make transactions, the     *)
(* Tendermint node they send them to, and the ledger of Execution.         *)
(*                                                                         *)
(* net/http runs each request in a goroutine of its own and all of them    *)
(* read and write m.acc, the one account that is logged in, without a      *)
(* lock.  So every read of m.acc, every write, and every call over RPC is  *)
(* a step.  A request that panics is aborted and the process goes on.      *)
(*                                                                         *)
(* The transactions are those the handlers make: the address is that of    *)
(* the key, and a form has the identifier computed from it, which is not   *)
(* the key of an account record.  Execution has all the others.            *)
(***************************************************************************)
EXTENDS Integers, Sequences, FiniteSets

CONSTANTS
  Users, Genesis, FormIDs, ContentIDs, IssueNames, Issues, MaxLog,
  NoUser, NoInfo, Absent, Removed,    \* as in Execution
  Handlers,     \* the requests that may be under way at one time
  Forms,        \* what citizens fill in: an info without its submitter
  MaxLogins,    \* bound: how often m.acc is assigned
  MaxPending    \* bound: how many transactions the mempool holds

ASSUME SessionAssumption ==
  /\ IsFiniteSet(Handlers)
  /\ Forms \subseteq [id : FormIDs, cid : ContentIDs, issue : IssueNames]
  /\ MaxLogins \in Nat
  /\ MaxPending \in Nat

VARIABLES
  accounts, forms, filters, up, res, log,   \* the ledger
  pending,      \* the mempool: transactions not yet in a block
  created,      \* the key pairs CreateAccount has generated
  session,      \* m.acc, and how often it has been assigned
  job           \* what each request is at, and what it has read so far

\* The info of a form that u has filled in, and what actions may carry.
Filled(form, u) ==
  [id |-> form.id, cid |-> form.cid, issue |-> form.issue, submitter |-> u]

Infos == {Filled(form, u) : form \in Forms, u \in Users}

Ledger == INSTANCE Execution WITH SeqNos <- Nat

\* What Execution assumes of its constants.
ASSUME LedgerAssumption ==
  /\ Genesis \subseteq Users
  /\ Issues \subseteq IssueNames
  /\ FormIDs \cap Users = {}
  /\ MaxLog \in Nat
  /\ NoUser \notin Users
  /\ NoInfo \notin Infos
  /\ Absent \notin ContentIDs
  /\ Removed \notin ContentIDs
  /\ ContentIDs \cap Ledger!Account = {}
  /\ Absent \notin Ledger!Account
  /\ Removed \notin Ledger!Account
  /\ Absent # Removed

ledger == <<accounts, forms, filters, up, res, log>>
vars   == <<ledger, pending, created, session, job>>

-----------------------------------------------------------------------------
(* Requests under way *)

\* An account with its private key.  A nil account has no user.
LoggedOut == [logins |-> 0, user |-> NoUser, seq |-> 0, key |-> NoUser]

LoggedIn == session.logins > 0

Idle == [at |-> "idle", type |-> "other", form |-> NoInfo,
         user |-> NoUser, seq |-> 0, key |-> NoUser, logins |-> 0]

Finish(h) == job' = [job EXCEPT ![h] = Idle]

\* The action a request has prepared and signed.
Prepared(h) ==
  Ledger!NewAction(job[h].type, job[h].form, job[h].user, job[h].seq, job[h].key)

-----------------------------------------------------------------------------
(* Login *)

\* The account is queried.  An absent one is an error, and m.acc stays as it is.
LoginQuery(h, u) ==
  /\ up
  /\ job[h].at = "idle"
  /\ accounts[u] # Absent
  /\ job' = [job EXCEPT ![h].at = "login",
                        ![h].user = IF accounts[u] = Removed THEN NoUser ELSE u,
                        ![h].seq = IF accounts[u] = Removed THEN 0 ELSE accounts[u].seq,
                        ![h].key = u]
  /\ UNCHANGED <<ledger, pending, created, session>>

LoginSet(h) ==
  /\ job[h].at = "login"
  /\ session.logins < MaxLogins
  /\ session' = [logins |-> session.logins + 1,
                 user |-> job[h].user, seq |-> job[h].seq, key |-> job[h].key]
  /\ Finish(h)
  /\ UNCHANGED <<ledger, pending, created>>

-----------------------------------------------------------------------------
(* Sending a transaction: BroadcastTx "sync" *)

\* The node runs CheckTx and takes the transaction when it is good.
Take(act) ==
  /\ up
  /\ act \notin pending
  /\ Ledger!CheckTx(act)
  /\ Cardinality(pending) < MaxPending
  /\ pending' = IF Ledger!Valid(act) THEN pending \cup {act} ELSE pending

\* Nothing is read from m.acc: the key pair is a new one.
CreateAccount(u) ==
  /\ u \notin Genesis \cup created
  /\ created' = created \cup {u}
  /\ \/ Take(Ledger!NewAction("create", NoInfo, u, 1, u))
     \/ UNCHANGED <<ledger, pending>>
  /\ UNCHANGED <<session, job>>

\* The number is counted whatever the node answered.
SendCounts(h) ==
  /\ job[h].at = "send"
  /\ Take(Prepared(h))
  /\ IF job[h].type = "submit" THEN job' = [job EXCEPT ![h].at = "load"] ELSE Finish(h)
  /\ UNCHANGED <<created, session>>

\* The answer of the node arrives.
Send(h) ==
  /\ job[h].at = "send"
  /\ Take(Prepared(h))
  /\ IF job[h].type = "submit" /\ Ledger!Valid(Prepared(h))
     THEN job' = [job EXCEPT ![h].at = "load"]
     ELSE Finish(h)
  /\ UNCHANGED <<created, session>>

\* The call fails, before the node took the transaction or after.
SendUnanswered(h) ==
  /\ job[h].at = "send"
  /\ Take(Prepared(h)) \/ UNCHANGED <<ledger, pending>>
  /\ Finish(h)
  /\ UNCHANGED <<created, session>>

-----------------------------------------------------------------------------
(* RemoveAccount and SubmitForm *)

BeginRemove(h) ==
  /\ job[h].at = "idle"
  /\ LoggedIn
  /\ job' = [job EXCEPT ![h].at = "user", ![h].type = "remove"]
  /\ UNCHANGED <<ledger, pending, created, session>>

BeginSubmit(h) ==
  /\ job[h].at = "idle"
  /\ LoggedIn
  /\ job' = [job EXCEPT ![h].at = "form", ![h].type = "submit"]
  /\ UNCHANGED <<ledger, pending, created, session>>

\* Every read below goes through the account of m.acc, and panics when it is nil.
Reads(h, label) ==
  /\ job[h].at = label
  /\ session.user # NoUser

Panic(h) ==
  /\ job[h].at \in {"form", "user", "seq", "load"}
  /\ session.user = NoUser
  /\ Finish(h)
  /\ UNCHANGED <<ledger, pending, created, session>>

\* The form is filled in, with the public key as its submitter.
FillForm(h, form) ==
  /\ Reads(h, "form")
  /\ job' = [job EXCEPT ![h].at = "user", ![h].form = Filled(form, session.user)]
  /\ UNCHANGED <<ledger, pending, created, session>>

\* The arguments of Prepare: the public key, then the sequence number.
PrepareUser(h) ==
  /\ Reads(h, "user")
  /\ job' = [job EXCEPT ![h].at = "seq", ![h].user = session.user]
  /\ UNCHANGED <<ledger, pending, created, session>>

\* A removal, too, passes the number after that of the session.
PrepareSeqNext(h) ==
  /\ Reads(h, "seq")
  /\ job' = [job EXCEPT ![h].at = "key", ![h].seq = session.seq + 1]
  /\ UNCHANGED <<ledger, pending, created, session>>

\* A removal passes the number before that of the session.
PrepareSeqBefore(h) ==
  /\ Reads(h, "seq")
  /\ job' = [job EXCEPT ![h].at = "key",
                        ![h].seq = IF job[h].type = "submit" THEN session.seq + 1
                                   ELSE session.seq - 1]
  /\ UNCHANGED <<ledger, pending, created, session>>

\* A removal passes the number of the session, a form the one after it.
PrepareSeq(h) ==
  /\ Reads(h, "seq")
  /\ job' = [job EXCEPT ![h].at = "key",
                        ![h].seq = IF job[h].type = "submit" THEN session.seq + 1
                                   ELSE session.seq]
  /\ UNCHANGED <<ledger, pending, created, session>>

Sign(h) ==
  /\ job[h].at = "key"
  /\ job' = [job EXCEPT ![h].at = "send", ![h].key = session.key]
  /\ UNCHANGED <<ledger, pending, created, session>>

\* m.acc.Sequence++ after the answer: a load and a store.
LoadSequence(h) ==
  /\ Reads(h, "load")
  /\ job' = [job EXCEPT ![h].at = "store", ![h].seq = session.seq, ![h].logins = session.logins]
  /\ UNCHANGED <<ledger, pending, created, session>>

\* The store goes to the account that was loaded, of which nothing is seen when
\* m.acc has been assigned since.
StoreSequence(h) ==
  /\ job[h].at = "store"
  /\ session' = IF job[h].logins = session.logins
                THEN [session EXCEPT !.seq = job[h].seq + 1] ELSE session
  /\ Finish(h)
  /\ UNCHANGED <<ledger, pending, created>>

-----------------------------------------------------------------------------
\* A transaction comes up in a block.  Transactions of one mempool may do so in
\* any order: another node may propose the block.
Deliver(act) ==
  /\ act \in pending
  /\ Ledger!AppendTx(act)
  /\ pending' = pending \ {act}
  /\ UNCHANGED <<created, session, job>>

Init ==
  /\ Ledger!Init
  /\ pending = {}
  /\ created = {}
  /\ session = LoggedOut
  /\ job = [h \in Handlers |-> Idle]

Next ==
  \/ \E h \in Handlers :
       \/ \E u \in Users : LoginQuery(h, u)
       \/ \E form \in Forms : FillForm(h, form)
       \/ LoginSet(h) \/ BeginRemove(h) \/ BeginSubmit(h) \/ Panic(h)
       \/ PrepareUser(h) \/ PrepareSeq(h) \/ Sign(h)
       \/ Send(h) \/ SendUnanswered(h)
       \/ LoadSequence(h) \/ StoreSequence(h)
  \/ \E u \in Users : CreateAccount(u)
  \/ \E act \in pending : Deliver(act)

Spec == Init /\ [][Next]_vars

-----------------------------------------------------------------------------
(* Properties *)

\* Every variable of the manager has its type.
TypeOK ==
  /\ session \in [logins : 0 .. MaxLogins, user : Users \cup {NoUser}, seq : Nat,
                  key : Users \cup {NoUser}]
  /\ job \in [Handlers ->
                [at : {"idle", "login", "form", "user", "seq", "key", "send", "load", "store"},
                 type : {"other", "submit", "remove"}, form : Infos \cup {NoInfo},
                 user : Users \cup {NoUser}, seq : Nat, key : Users \cup {NoUser},
                 logins : 0 .. MaxLogins]]
  /\ created \subseteq Users
  /\ \A act \in pending : /\ act.addr \in Users
                          /\ act.type \in {"create", "submit", "remove"}
                          /\ act.seq \in Nat

\* The session is of an account that is on the ledger.
Live == LoggedIn /\ session.user # NoUser /\ Ledger!HasAccount(session.user)

\* While requests come one at a time, the sequence number of the session runs
\* ahead of the ledger by at most one, and only while the form it was
\* incremented for waits in the mempool: the session is never stuck with a
\* number the ledger will not reach, whatever answers are lost and whoever logs
\* in between.
NeverStuckAhead ==
  up /\ Live /\ session.seq > accounts[session.user].seq =>
    /\ session.seq = accounts[session.user].seq + 1
    /\ \E act \in pending : /\ act.type = "submit"
                            /\ act.addr = session.user
                            /\ act.seq = session.seq

\* While requests come one at a time, a removal is accepted only in the place
\* of a form that the node had taken and the ledger will now refuse: the action
\* carries the number of the session and not the one after it.
RemovalCostsForm ==
  [][\A act \in pending :
       Len(log') > Len(log) /\ log'[Len(log')] = act /\ act.type = "remove" =>
         \E form \in pending' : /\ form.type = "submit"
                                /\ form.addr = act.addr
                                /\ form.seq = act.seq]_vars

\* While no more than two requests overlap, the session is ahead of the ledger
\* by no more numbers than there are requests, whatever increments are lost.
\* Three can take it further: one of them stores an old number, which takes the
\* session back, and the numbers from there on are counted a second time.
AheadByHandlers ==
  Live => session.seq <= accounts[session.user].seq + Cardinality(Handlers)

\* Of two accepted transactions signed with one key the later has the larger
\* sequence number, with no exception: the handlers make neither of the two kinds
\* of transaction that can begin an account anew a second time, so none of theirs
\* is accepted twice, however often it is sent.
AcceptedOnce ==
  \A i, j \in DOMAIN log :
    i < j /\ log[i].signer = log[j].signer => log[i].seq < log[j].seq

\* manager.go:372, "CheckTx is ok so we can increment sequence": once no request
\* is under way and no transaction is pending, the session is not ahead of the
\* ledger.
IncrementTracksLedger ==
  up /\ Live /\ pending = {} /\ (\A h \in Handlers : job[h] = Idle) =>
    session.seq <= accounts[session.user].seq

=============================================================================
