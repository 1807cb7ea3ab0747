---------------------------- MODULE SessionProofs ----------------------------
(***************************************************************************)
(* Proofs about Session.  What it does to the ledger is what Execution     *)
(* does, for any number of requests.  The bounds of the session's sequence *)
(* number hold for one request at a time and for two.                      *)
(***************************************************************************)
EXTENDS Session, FiniteSetTheorems, SequenceTheorems, TLAPS

LP == INSTANCE ExecutionProofs WITH SeqNos <- Nat

(***************************************************************************)
(* The invariants.  A name with parameters is about the values of a state, *)
(* so that its primed form is that about the values of the next one.       *)
(***************************************************************************)

\* The account logged in last is known by its key; a nil account has no user.
SessionSound(s) ==
  s.logins > 0 => s.key \in Users /\ s.user \in {NoUser, s.key}

\* What a request has read by the time it is at a label.
JobSound(s, r) ==
  /\ r.at = "idle" => r = Idle
  /\ r.at = "login" => r.key \in Users /\ r.user \in {NoUser, r.key}
  /\ r.at \notin {"idle", "login"} => /\ s.logins > 0
                                      /\ r.type \in {"submit", "remove"}
                                      /\ r.type = "remove" => r.form = NoInfo
  /\ r.at \in {"form", "load", "store"} => r.type = "submit"
  /\ r.at \in {"user", "seq", "key", "send"} /\ r.type = "submit" => r.form \in Infos
  /\ r.at \in {"seq", "key", "send"} => r.user \in Users
  /\ r.at = "send" => r.key \in Users

Known(acc, u) == acc[u] # Absent

IsOpen(acc, u) == acc[u] \notin ContentIDs \cup {Absent, Removed}

\* No form was filed over an account record.
Readable(acc) == \A u \in Users : acc[u] \notin ContentIDs

\* What a handler prepares: the key in it, if any, is that of the address.
HandlerMade(act) ==
  /\ act.addr \in Users
  /\ act.pubKey = IF act.seq = 1 THEN act.addr ELSE NoUser
  /\ act.type = "submit" => act.data \in Infos

\* A pending transaction was valid when the node took it.
PendingSound(acc, cr, act) ==
  /\ act \in Ledger!Actions
  /\ act.type \in {"create", "submit", "remove"}
  /\ act.signer = act.addr
  /\ HandlerMade(act)
  /\ act.type = "create" =>
       /\ act.addr \in cr
       /\ act = Ledger!NewAction("create", NoInfo, act.addr, 1, act.addr)
       /\ ~Known(acc, act.addr)
  /\ act.type # "create" =>
       /\ Known(acc, act.addr)
       /\ IsOpen(acc, act.addr) => act.seq <= acc[act.addr].seq + 1

\* Each account is created once, and one that was queried stays known: a number
\* read from the ledger is not above it later.
AccountsSound(acc, cr, s, j) ==
  /\ \A u \in Users \ (Genesis \cup cr) : ~Known(acc, u)
  /\ s.user # NoUser => Known(acc, s.user)
  /\ \A h \in Handlers :
       j[h].at = "login" /\ j[h].user # NoUser =>
         /\ Known(acc, j[h].user)
         /\ IsOpen(acc, j[h].user) => j[h].seq <= acc[j[h].user].seq

TInv ==
  /\ TypeOK
  /\ LP!TypeOK
  /\ LP!OwnKey
  /\ Readable(accounts)
  /\ SessionSound(session)
  /\ \A h \in Handlers : JobSound(session, job[h])

IInv ==
  /\ TInv
  /\ \A act \in pending : PendingSound(accounts, created, act)
  /\ AccountsSound(accounts, created, session, job)

-----------------------------------------------------------------------------
(* One request at a time *)

OneRequest == \A h, g \in Handlers : h = g

PendingForm(pend, u, n) ==
  \E act \in pend : act.type = "submit" /\ act.addr = u /\ act.seq = n

\* What the request has read is still what the session holds.
JobFresh(s, r) ==
  /\ r.at \in {"seq", "key", "send"} => r.user = s.user
  /\ r.at \in {"key", "send"} => r.seq = IF r.type = "submit" THEN s.seq + 1 ELSE s.seq
  /\ r.at = "store" => r.seq = s.seq /\ r.logins = s.logins

\* The number of the session, or the one it is about to be incremented to, is
\* that of the ledger or of a pending form after it.
Reached(acc, pend, alive, u, n) ==
  /\ n <= acc[u].seq + 1
  /\ alive /\ n = acc[u].seq + 1 => PendingForm(pend, u, n)

NumberReached(acc, pend, alive, s, j) ==
  s.user # NoUser /\ IsOpen(acc, s.user) =>
    /\ Reached(acc, pend, alive, s.user, s.seq)
    /\ \A h \in Handlers : j[h].at \in {"load", "store"} =>
         Reached(acc, pend, alive, s.user, s.seq + 1)

\* A pending removal that the ledger would accept has a form pending beside it.
RemovalsDisplace(acc, pend, alive) ==
  \A act \in pend :
    act.type = "remove" /\ IsOpen(acc, act.addr) =>
      Reached(acc, pend, alive, act.addr, act.seq)

SerialInv ==
  /\ \A h \in Handlers : JobFresh(session, job[h])
  /\ NumberReached(accounts, pending, up, session, job)
  /\ RemovalsDisplace(accounts, pending, up)

-----------------------------------------------------------------------------
(* Two requests *)

TwoRequests == \A f, g, h \in Handlers : f = g \/ g = h \/ f = h

\* A request that may still increment the session's number, were the ledger at
\* n: one that is incrementing, one whose transaction is of another account,
\* and one whose transaction the node would not refuse as too new.
MayCount(s, r, n) ==
  /\ r.type = "submit"
  /\ \/ r.at \in {"load", "store"}
     \/ r.at \in {"seq", "key", "send"} /\ r.user # s.user
     \/ r.at \in {"key", "send"} /\ r.user = s.user /\ r.seq <= n + 1

Counting(s, j, n) == {h \in Handlers : MayCount(s, j[h], n)}

\* The store of the request will be seen.
WillStore(s, r) == r.at = "store" /\ r.logins = s.logins

\* With every increment still to come the number stays within bounds, now and
\* when the ledger has moved on.
Bounded(s, j, n) ==
  /\ s.seq + Cardinality(Counting(s, j, n)) <= n + Cardinality(Handlers)
  /\ \A h \in Handlers : WillStore(s, j[h]) =>
       j[h].seq + Cardinality(Counting(s, j, n)) <= n + Cardinality(Handlers)

\* A number above the session's that is about to be stored has been reached by
\* the ledger.
NewIsReached(acc, s, j) ==
  \A h \in Handlers : WillStore(s, j[h]) /\ j[h].seq > s.seq => j[h].seq <= acc[s.user].seq

\* What the other request is at while one is about to take the session back.
Catching(acc, s, r) ==
  /\ r.at = "seq" => r.user = s.user
  /\ r.at \in {"key", "send"} /\ r.type = "submit" => r.user = s.user /\ r.seq = s.seq + 1
  /\ r.at = "load" => s.seq <= acc[s.user].seq
  /\ WillStore(s, r) => r.seq <= acc[s.user].seq

OldIsAlone(acc, s, j) ==
  \A h, g \in Handlers :
    h # g /\ WillStore(s, j[h]) /\ j[h].seq + 1 < s.seq => Catching(acc, s, j[g])

WithinBounds(acc, s, j) ==
  s.user # NoUser /\ IsOpen(acc, s.user) =>
    /\ \A n \in Nat : n >= acc[s.user].seq => Bounded(s, j, n)
    /\ NewIsReached(acc, s, j)
    /\ OldIsAlone(acc, s, j)

OverlapInv ==
  /\ \A h \in Handlers : job[h].logins <= session.logins
  /\ WithinBounds(accounts, session, job)

-----------------------------------------------------------------------------
(* The ledger that Session uses is the one ExecutionProofs is about *)

\* Infos has the form that Execution assumes.
LEMMA InfosFacts ==
  Infos \subseteq [id : FormIDs, cid : ContentIDs, issue : IssueNames, submitter : Users]
  BY SessionAssumption DEF Infos, Filled

\* What Execution assumes holds here.
LEMMA LedgerAssumptions == LP!ConstantsAssumption /\ LP!MarkersAssumption
<1>1. LP!ConstantsAssumption
  <2>1. Infos \subseteq [id : FormIDs \cup Users, cid : ContentIDs, issue : IssueNames,
                         submitter : Users]
    BY InfosFacts
  <2> QED
    BY <2>1, LedgerAssumption DEF LP!ConstantsAssumption
<1> QED
  BY <1>1, LedgerAssumption DEF LP!MarkersAssumption, LP!Account, Ledger!Account

\* The operators of the two instances agree, one lemma for each kind.
LEMMA SameActions == Ledger!Actions = LP!Actions
  BY DEF Ledger!Actions, LP!Actions, Ledger!ActionTypes, LP!ActionTypes, Ledger!Payloads,
         LP!Payloads

\* So do the types,
LEMMA SameTypes == Ledger!TypeOK <=> LP!TypeOK
  BY SameActions DEF Ledger!TypeOK, LP!TypeOK, Ledger!Account, LP!Account

\* the initial states,
LEMMA SameInit == Ledger!Init <=> LP!Init
  BY DEF Ledger!Init, LP!Init, Ledger!NewAccount, LP!NewAccount

\* what makes an action good,
LEMMA SameValid ==
  ASSUME NEW act
  PROVE  Ledger!Valid(act) <=> LP!Valid(act)
  BY DEF Ledger!Valid, LP!Valid, Ledger!ValidateBasic, LP!ValidateBasic, Ledger!HasAccount,
         LP!HasAccount, Ledger!ValidateInputAdvanced, LP!ValidateInputAdvanced,
         Ledger!InputAccount, LP!InputAccount, Ledger!NewAccount, LP!NewAccount

\* and what makes the process panic,
LEMMA SameUnreadable ==
  ASSUME NEW act
  PROVE  Ledger!Unreadable(act) <=> LP!Unreadable(act)
  BY DEF Ledger!Unreadable, LP!Unreadable, Ledger!Undecodable, LP!Undecodable,
         Ledger!ValidateBasic, LP!ValidateBasic

\* CheckTx,
LEMMA SameCheck ==
  ASSUME NEW act
  PROVE  Ledger!CheckTx(act) <=> LP!CheckTx(act)
  BY SameValid, SameUnreadable
     DEF Ledger!CheckTx, LP!CheckTx, Ledger!Respond, LP!Respond, Ledger!store, LP!store

\* and AppendTx.
LEMMA SameAppend ==
  ASSUME NEW act
  PROVE  Ledger!AppendTx(act) <=> LP!AppendTx(act)
<1>1. Ledger!Accept(act) <=> LP!Accept(act)
  BY SameValid DEF Ledger!Accept, LP!Accept, Ledger!Respond, LP!Respond
<1>2. Ledger!Charged(Ledger!InputAccount(act)) = LP!Charged(LP!InputAccount(act))
  BY DEF Ledger!Charged, LP!Charged, Ledger!InputAccount, LP!InputAccount, Ledger!NewAccount,
         LP!NewAccount
<1>3. Ledger!RunCreateAccount(act) <=> LP!RunCreateAccount(act)
  BY <1>1, <1>2 DEF Ledger!RunCreateAccount, LP!RunCreateAccount
<1>4. Ledger!RunRemoveAccount(act) <=> LP!RunRemoveAccount(act)
  BY <1>1, <1>2 DEF Ledger!RunRemoveAccount, LP!RunRemoveAccount
<1>5. Ledger!RunSubmitForm(act) <=> LP!RunSubmitForm(act)
  BY <1>1, <1>2 DEF Ledger!RunSubmitForm, LP!RunSubmitForm, Ledger!SetForm, LP!SetForm,
     Ledger!FilterAdd, LP!FilterAdd, Ledger!AddFormID, LP!AddFormID,
     Ledger!SetFormRecord, LP!SetFormRecord
<1>6. (Ledger!Reject(act) <=> LP!Reject(act)) /\ (Ledger!Panic(act) <=> LP!Panic(act))
      /\ (Ledger!Fail(act) <=> LP!Fail(act))
  BY SameValid, SameUnreadable DEF Ledger!Reject, LP!Reject, Ledger!Panic, LP!Panic, Ledger!Fail, LP!Fail,
     Ledger!Respond, LP!Respond, Ledger!store, LP!store
<1> QED
  BY <1>3, <1>4, <1>5, <1>6 DEF Ledger!AppendTx, LP!AppendTx

-----------------------------------------------------------------------------
(* What the steps of a request do to it *)

Sessions ==
  [logins : 0 .. MaxLogins, user : Users \cup {NoUser}, seq : Nat, key : Users \cup {NoUser}]

Jobs ==
  [at : {"idle", "login", "form", "user", "seq", "key", "send", "load", "store"},
   type : {"other", "submit", "remove"}, form : Infos \cup {NoInfo},
   user : Users \cup {NoUser}, seq : Nat, key : Users \cup {NoUser}, logins : 0 .. MaxLogins]

\* The request moves on to a label, and nothing else happens but to its data.
Moves(h, at) ==
  /\ job' \in [Handlers -> Jobs]
  /\ job'[h].at = at
  /\ \A g \in Handlers \ {h} : job'[g] = job[g]

\* TypeOK in the terms of the lemmas below.
LEMMA JobTypes ==
  ASSUME TypeOK
  PROVE  /\ session \in Sessions
         /\ job \in [Handlers -> Jobs]
         /\ \A h \in Handlers : job[h] \in Jobs
         /\ MaxLogins \in Nat
  BY SessionAssumption DEF TypeOK, Sessions, Jobs

\* A request that gets a new record moves to the label of that record.
LEMMA MovesFact ==
  ASSUME TypeOK, NEW h \in Handlers, NEW r \in Jobs, job' = [job EXCEPT ![h] = r]
  PROVE  job'[h] = r /\ Moves(h, r.at)
  BY JobTypes DEF Moves

\* A finished request is idle.
LEMMA FinishFacts ==
  ASSUME TypeOK, NEW h \in Handlers, Finish(h)
  PROVE  Moves(h, "idle") /\ job'[h] = Idle
<1>1. Idle \in Jobs
  BY SessionAssumption DEF Idle, Jobs
<1> QED
  BY <1>1, JobTypes DEF Finish, Moves, Idle

\* Login has read an account that is known, and its number.
LEMMA LoginQueryFacts ==
  ASSUME TypeOK, LP!TypeOK, Readable(accounts), NEW h \in Handlers, NEW u \in Users,
         LoginQuery(h, u)
  PROVE  /\ Moves(h, "login")
         /\ job[h].at = "idle"
         /\ job'[h].key = u
         /\ job'[h].user = IF accounts[u] = Removed THEN NoUser ELSE u
         /\ Known(accounts, u)
         /\ IsOpen(accounts, u) => job'[h].seq = accounts[u].seq
         /\ job'[h].logins = job[h].logins
<1> DEFINE r == [job[h] EXCEPT !.at = "login",
                             !.user = IF accounts[u] = Removed THEN NoUser ELSE u,
                             !.seq = IF accounts[u] = Removed THEN 0 ELSE accounts[u].seq,
                             !.key = u]
<1>1. accounts[u] # Absent /\ (accounts[u] # Removed => accounts[u].seq \in Nat)
  BY DEF LP!TypeOK, LP!Account, LoginQuery, Readable
<1>2. job' = [job EXCEPT ![h] = r]
  BY DEF LoginQuery
<1>3. r \in Jobs
  BY <1>1, JobTypes DEF Jobs
<1>4. r.at = "login" /\ r.key = u /\ r.user = (IF accounts[u] = Removed THEN NoUser ELSE u)
      /\ (accounts[u] # Removed => r.seq = accounts[u].seq)
      /\ r.logins = job[h].logins
  BY JobTypes DEF Jobs
<1> HIDE DEF r
<1>5. job'[h] = r /\ Moves(h, "login")
  BY <1>2, <1>3, <1>4, MovesFact
<1> QED
  BY <1>1, <1>4, <1>5 DEF LoginQuery, Known, IsOpen

\* A removal begins with somebody logged in, and nothing read.
LEMMA BeginRemoveFacts ==
  ASSUME TypeOK, NEW h \in Handlers, BeginRemove(h)
  PROVE  /\ Moves(h, "user")
         /\ job'[h].type = "remove"
         /\ job'[h].form = job[h].form
         /\ job'[h].user = job[h].user
         /\ job'[h].seq = job[h].seq
         /\ job'[h].key = job[h].key
         /\ job'[h].logins = job[h].logins
         /\ job[h].at = "idle"
         /\ LoggedIn
<1> DEFINE r == [job[h] EXCEPT !.at = "user", !.type = "remove"]
<1>1. job' = [job EXCEPT ![h] = r]
  BY DEF BeginRemove
<1>2. r \in Jobs
  BY JobTypes DEF Jobs, Sessions, BeginRemove, Reads
<1>3. job'[h] = r /\ Moves(h, "user")
  BY <1>1, <1>2, MovesFact, JobTypes DEF Jobs
<1>4. /\ r.type = "remove"
      /\ r.form = job[h].form
      /\ r.user = job[h].user
      /\ r.seq = job[h].seq
      /\ r.key = job[h].key
      /\ r.logins = job[h].logins
  BY JobTypes DEF Jobs
<1> QED
  BY <1>3, <1>4 DEF BeginRemove, Reads

\* So does a submission.
LEMMA BeginSubmitFacts ==
  ASSUME TypeOK, NEW h \in Handlers, BeginSubmit(h)
  PROVE  /\ Moves(h, "form")
         /\ job'[h].type = "submit"
         /\ job'[h].form = job[h].form
         /\ job'[h].user = job[h].user
         /\ job'[h].seq = job[h].seq
         /\ job'[h].key = job[h].key
         /\ job'[h].logins = job[h].logins
         /\ job[h].at = "idle"
         /\ LoggedIn
<1> DEFINE r == [job[h] EXCEPT !.at = "form", !.type = "submit"]
<1>1. job' = [job EXCEPT ![h] = r]
  BY DEF BeginSubmit
<1>2. r \in Jobs
  BY JobTypes DEF Jobs, Sessions, BeginSubmit, Reads
<1>3. job'[h] = r /\ Moves(h, "form")
  BY <1>1, <1>2, MovesFact, JobTypes DEF Jobs
<1>4. /\ r.type = "submit"
      /\ r.form = job[h].form
      /\ r.user = job[h].user
      /\ r.seq = job[h].seq
      /\ r.key = job[h].key
      /\ r.logins = job[h].logins
  BY JobTypes DEF Jobs
<1> QED
  BY <1>3, <1>4 DEF BeginSubmit, Reads

\* The form that is filled in names the user of the session as its submitter.
LEMMA FillFormFacts ==
  ASSUME TypeOK, NEW h \in Handlers, NEW form \in Forms, FillForm(h, form)
  PROVE  /\ Moves(h, "user")
         /\ job'[h].form = Filled(form, session.user)
         /\ job'[h].type = job[h].type
         /\ job'[h].user = job[h].user
         /\ job'[h].seq = job[h].seq
         /\ job'[h].key = job[h].key
         /\ job'[h].logins = job[h].logins
         /\ job[h].at = "form"
         /\ session.user \in Users
         /\ job'[h].form \in Infos
<1> DEFINE r == [job[h] EXCEPT !.at = "user", !.form = Filled(form, session.user)]
<1>1. job' = [job EXCEPT ![h] = r]
  BY DEF FillForm
<1>2. session.user \in Users
  BY JobTypes DEF FillForm, Reads, Sessions
<1>3. Filled(form, session.user) \in Infos
  BY <1>2 DEF Infos
<1>4. r \in Jobs
  BY <1>3, JobTypes DEF Jobs
<1>5. job'[h] = r /\ Moves(h, "user")
  BY <1>1, <1>4, MovesFact, JobTypes DEF Jobs
<1>6. /\ r.form = Filled(form, session.user)
      /\ r.type = job[h].type
      /\ r.user = job[h].user
      /\ r.seq = job[h].seq
      /\ r.key = job[h].key
      /\ r.logins = job[h].logins
  BY JobTypes DEF Jobs
<1> QED
  BY <1>5, <1>6, <1>2, <1>3 DEF FillForm, Reads

\* The user of the session is read, and nothing else changes.
LEMMA PrepareUserFacts ==
  ASSUME TypeOK, NEW h \in Handlers, PrepareUser(h)
  PROVE  /\ Moves(h, "seq")
         /\ job'[h].user = session.user
         /\ job'[h].type = job[h].type
         /\ job'[h].form = job[h].form
         /\ job'[h].seq = job[h].seq
         /\ job'[h].key = job[h].key
         /\ job'[h].logins = job[h].logins
         /\ job[h].at = "user"
         /\ session.user \in Users
<1> DEFINE r == [job[h] EXCEPT !.at = "seq", !.user = session.user]
<1>1. job' = [job EXCEPT ![h] = r]
  BY DEF PrepareUser
<1>2. r \in Jobs
  BY JobTypes DEF Jobs, Sessions, PrepareUser, Reads
<1>3. job'[h] = r /\ Moves(h, "seq")
  BY <1>1, <1>2, MovesFact, JobTypes DEF Jobs
<1>4. /\ r.user = session.user
      /\ r.type = job[h].type
      /\ r.form = job[h].form
      /\ r.seq = job[h].seq
      /\ r.key = job[h].key
      /\ r.logins = job[h].logins
  BY JobTypes DEF Jobs
<1> QED
  BY <1>3, <1>4, JobTypes DEF PrepareUser, Reads, Sessions

\* The number of the session is read, or the one after it.
LEMMA PrepareSeqFacts ==
  ASSUME TypeOK, NEW h \in Handlers, PrepareSeq(h)
  PROVE  /\ Moves(h, "key")
         /\ job'[h].seq = IF job[h].type = "submit" THEN session.seq + 1 ELSE session.seq
         /\ job'[h].type = job[h].type
         /\ job'[h].form = job[h].form
         /\ job'[h].user = job[h].user
         /\ job'[h].key = job[h].key
         /\ job'[h].logins = job[h].logins
         /\ job[h].at = "seq"
<1> DEFINE r == [job[h] EXCEPT !.at = "key", !.seq = IF job[h].type = "submit" THEN session.seq + 1 ELSE session.seq]
<1>1. job' = [job EXCEPT ![h] = r]
  BY DEF PrepareSeq
<1>2. (IF job[h].type = "submit" THEN session.seq + 1 ELSE session.seq) \in Nat
  BY JobTypes DEF Sessions
<1>3. r \in Jobs
  BY <1>2, JobTypes DEF Jobs
<1>4. job'[h] = r /\ Moves(h, "key")
  BY <1>1, <1>3, MovesFact, JobTypes DEF Jobs
<1>5. /\ r.seq = IF job[h].type = "submit" THEN session.seq + 1 ELSE session.seq
      /\ r.type = job[h].type
      /\ r.form = job[h].form
      /\ r.user = job[h].user
      /\ r.key = job[h].key
      /\ r.logins = job[h].logins
  BY JobTypes DEF Jobs
<1> QED
  BY <1>4, <1>5 DEF PrepareSeq, Reads

\* The key of the session is read, and nothing else changes.
LEMMA SignFacts ==
  ASSUME TypeOK, NEW h \in Handlers, Sign(h)
  PROVE  /\ Moves(h, "send")
         /\ job'[h].key = session.key
         /\ job'[h].type = job[h].type
         /\ job'[h].form = job[h].form
         /\ job'[h].user = job[h].user
         /\ job'[h].seq = job[h].seq
         /\ job'[h].logins = job[h].logins
         /\ job[h].at = "key"
<1> DEFINE r == [job[h] EXCEPT !.at = "send", !.key = session.key]
<1>1. job' = [job EXCEPT ![h] = r]
  BY DEF Sign
<1>2. r \in Jobs
  BY JobTypes DEF Jobs, Sessions, Sign, Reads
<1>3. job'[h] = r /\ Moves(h, "send")
  BY <1>1, <1>2, MovesFact, JobTypes DEF Jobs
<1>4. /\ r.key = session.key
      /\ r.type = job[h].type
      /\ r.form = job[h].form
      /\ r.user = job[h].user
      /\ r.seq = job[h].seq
      /\ r.logins = job[h].logins
  BY JobTypes DEF Jobs
<1> QED
  BY <1>3, <1>4 DEF Sign, Reads

\* The increment reads the number and which login it is of.
LEMMA LoadSequenceFacts ==
  ASSUME TypeOK, NEW h \in Handlers, LoadSequence(h)
  PROVE  /\ Moves(h, "store")
         /\ job'[h].seq = session.seq
         /\ job'[h].logins = session.logins
         /\ job'[h].type = job[h].type
         /\ job'[h].form = job[h].form
         /\ job'[h].user = job[h].user
         /\ job'[h].key = job[h].key
         /\ job[h].at = "load"
<1> DEFINE r == [job[h] EXCEPT !.at = "store", !.seq = session.seq, !.logins = session.logins]
<1>1. job' = [job EXCEPT ![h] = r]
  BY DEF LoadSequence
<1>2. r \in Jobs
  BY JobTypes DEF Jobs, Sessions, LoadSequence, Reads
<1>3. job'[h] = r /\ Moves(h, "store")
  BY <1>1, <1>2, MovesFact, JobTypes DEF Jobs
<1>4. /\ r.seq = session.seq
      /\ r.logins = session.logins
      /\ r.type = job[h].type
      /\ r.form = job[h].form
      /\ r.user = job[h].user
      /\ r.key = job[h].key
  BY JobTypes DEF Jobs
<1> QED
  BY <1>3, <1>4 DEF LoadSequence, Reads

\* The session becomes what the login has read.
LEMMA LoginSetFacts ==
  ASSUME TypeOK, NEW h \in Handlers, LoginSet(h)
  PROVE  /\ Moves(h, "idle")
         /\ job'[h] = Idle
         /\ job[h].at = "login"
         /\ session' \in Sessions
         /\ session'.logins = session.logins + 1
         /\ session'.user = job[h].user
         /\ session'.seq = job[h].seq
         /\ session'.key = job[h].key
<1>1. session' = [logins |-> session.logins + 1,
                  user |-> job[h].user, seq |-> job[h].seq, key |-> job[h].key]
      /\ session.logins < MaxLogins /\ Finish(h) /\ job[h].at = "login"
  BY DEF LoginSet
<1>2. session' \in Sessions
  BY <1>1, JobTypes DEF Sessions, Jobs
<1> QED
  BY <1>1, <1>2, FinishFacts

\* The increment shows only where nobody has logged in since.
LEMMA StoreSequenceFacts ==
  ASSUME TypeOK, NEW h \in Handlers, StoreSequence(h)
  PROVE  /\ Moves(h, "idle")
         /\ job'[h] = Idle
         /\ job[h].at = "store"
         /\ session' \in Sessions
         /\ session'.logins = session.logins
         /\ session'.user = session.user
         /\ session'.key = session.key
         /\ session'.seq = IF job[h].logins = session.logins THEN job[h].seq + 1 ELSE session.seq
<1> DEFINE s == [session EXCEPT !.seq = job[h].seq + 1]
<1>1. job[h].seq + 1 \in Nat
  BY JobTypes DEF Jobs
<1>2. s \in Sessions /\ s.logins = session.logins /\ s.user = session.user
      /\ s.key = session.key /\ s.seq = job[h].seq + 1
  BY <1>1, JobTypes DEF Sessions
<1>3. session' = IF job[h].logins = session.logins THEN s ELSE session
  BY DEF StoreSequence
<1> QED
  BY <1>2, <1>3, FinishFacts, JobTypes DEF StoreSequence

-----------------------------------------------------------------------------
(* The mempool and the ledger *)

\* A good transaction that a handler made is for an account on the ledger, or
\* makes one, is signed with its key and bears the number after its own.
LEMMA ValidFacts ==
  ASSUME LP!TypeOK, LP!OwnKey, NEW act \in LP!Actions, HandlerMade(act), Ledger!Valid(act)
  PROVE  /\ act.signer = act.addr
         /\ act.type # "create" => /\ IsOpen(accounts, act.addr)
                                   /\ act.seq = accounts[act.addr].seq + 1
<1>1. LP!Valid(act)
  BY SameValid
<1>2. LET acc == LP!InputAccount(act) IN
      /\ act.seq = acc.seq + 1
      /\ acc.pubKey = act.signer
      /\ act.type # "create" => LP!HasAccount(act.addr) /\ acc.seq = accounts[act.addr].seq
      /\ act.type # "create" => act.addr = act.signer \/ act.seq = 1
  BY <1>1, LP!InputFacts, LedgerAssumptions
<1>3. CASE act.type = "create"
  <2>1. LP!InputAccount(act) = [pubKey |-> act.pubKey, seq |-> 0, formIDs |-> <<>>]
    BY <1>3 DEF LP!InputAccount, LP!NewAccount
  <2>2. act.seq = 1 /\ act.signer = act.pubKey
    BY <1>2, <2>1
  <2> QED
    BY <1>3, <2>2 DEF HandlerMade
<1>4. CASE act.type # "create" /\ act.addr # act.signer
  <2> DEFINE old == accounts[act.addr]
  <2>1. act.seq = 1 /\ act.pubKey = act.addr /\ act.addr \in Users /\ LP!HasAccount(act.addr)
    BY <1>2, <1>4 DEF HandlerMade
  <2>2. old \in LP!Account
    BY <2>1 DEF LP!TypeOK, LP!HasAccount
  <2>3. LP!InputAccount(act) = [old EXCEPT !.pubKey = act.addr]
    BY <1>4, <2>1, LedgerAssumption DEF LP!InputAccount
  <2>4. [old EXCEPT !.pubKey = act.addr].pubKey = act.addr
    BY <2>2 DEF LP!Account
  <2> QED
    BY <1>2, <1>4, <2>3, <2>4
<1> QED
  BY <1>2, <1>3, <1>4 DEF LP!HasAccount, IsOpen

\* The action that a request sends.
LEMMA PreparedFacts ==
  ASSUME TypeOK, NEW h \in Handlers, JobSound(session, job[h]), job[h].at = "send"
  PROVE  /\ Prepared(h) \in LP!Actions
         /\ Prepared(h).type = job[h].type
         /\ Prepared(h).data = job[h].form
         /\ Prepared(h).addr = job[h].user
         /\ Prepared(h).seq = job[h].seq
         /\ job[h].type \in {"submit", "remove"}
         /\ HandlerMade(Prepared(h))
<1>1. /\ job[h].type \in {"submit", "remove"}
      /\ job[h].form \in LP!Payloads(job[h].type)
      /\ job[h].type = "submit" => job[h].form \in Infos
      /\ job[h].user \in Users
      /\ job[h].key \in Users
      /\ job[h].seq \in Nat
  BY JobTypes DEF JobSound, Jobs, LP!Payloads
<1>2. Prepared(h) = LP!NewAction(job[h].type, job[h].form, job[h].user, job[h].seq, job[h].key)
  BY DEF Prepared, Ledger!NewAction, LP!NewAction
<1>3. Prepared(h) \in LP!Actions
  <2>1. job[h].type \in LP!ActionTypes
    BY <1>1 DEF LP!ActionTypes
  <2> QED
    BY <1>1, <1>2, <2>1, LP!NewActionFacts, LedgerAssumptions
<1> QED
  BY <1>1, <1>2, <1>3 DEF LP!NewAction, HandlerMade

\* The node takes a transaction only when it is good, and the ledger stays.
LEMMA TakeFacts ==
  ASSUME NEW act, Take(act)
  PROVE  /\ UNCHANGED <<accounts, forms, filters, up, log>>
         /\ LP!CheckTx(act)
         /\ \/ pending' = pending
            \/ pending' = pending \cup {act} /\ Ledger!Valid(act)
  BY SameCheck DEF Take, Ledger!CheckTx, Ledger!store

\* An action takes effect: the account of its address is at its number, or gone.
TakesEffect(act) ==
  /\ log' = Append(log, act)
  /\ act.addr \in Users
  /\ act.type # "create" =>
       IsOpen(accounts, act.addr) /\ act.seq = accounts[act.addr].seq + 1
  /\ act.type = "remove" => accounts'[act.addr] = Removed
  /\ act.type # "remove" => IsOpen(accounts', act.addr) /\ accounts'[act.addr].seq = act.seq
  /\ \A u \in Users \ {act.addr} : accounts'[u] = accounts[u]
  /\ up /\ up'

\* No handler files a form over an account record.
LEMMA NeverOver ==
  ASSUME NEW act, HandlerMade(act), NEW v \in Users
  PROVE  ~LP!Over(act, v)
  BY InfosFacts, LedgerAssumption DEF HandlerMade, LP!Over

\* A transaction that comes up in a block takes effect or changes neither
\* accounts nor log.
LEMMA AppendCases ==
  ASSUME LP!TypeOK, LP!OwnKey, NEW act \in LP!Actions, HandlerMade(act), Ledger!AppendTx(act)
  PROVE  \/ UNCHANGED <<accounts, log>>
         \/ TakesEffect(act)
<1>1. CASE LP!RunCreateAccount(act) \/ LP!RunRemoveAccount(act) \/ LP!RunSubmitForm(act)
  <2>1. LP!Accept(act)
    BY <1>1 DEF LP!RunCreateAccount, LP!RunRemoveAccount, LP!RunSubmitForm
  <2>2. /\ act.signer = act.addr
        /\ act.type # "create" => /\ IsOpen(accounts, act.addr)
                                  /\ act.seq = accounts[act.addr].seq + 1
    BY <2>1, SameValid, ValidFacts DEF LP!Accept
  <2>3. /\ act.type = "remove" => accounts'[act.signer] = Removed
        /\ act.type # "remove" => /\ LP!HasAccount(act.signer)'
                                  /\ accounts'[act.signer].seq = act.seq
        /\ \A v \in Users \ {act.signer} : ~LP!Over(act, v) => accounts'[v] = accounts[v]
    BY <1>1, LP!AcceptEffect, LedgerAssumptions
  <2>4. act.addr \in Users
    BY DEF HandlerMade
  <2>5. \A v \in Users \ {act.addr} : accounts'[v] = accounts[v]
    BY <2>2, <2>3, NeverOver
  <2>6. act.type # "remove" => IsOpen(accounts', act.addr)
    BY <2>2, <2>3 DEF LP!HasAccount, IsOpen
  <2> QED
    BY <2>1, <2>2, <2>3, <2>4, <2>5, <2>6 DEF TakesEffect, LP!Accept
<1>2. CASE LP!Reject(act) \/ LP!Panic(act) \/ LP!Fail(act)
  BY <1>2 DEF LP!Reject, LP!Panic, LP!Fail, LP!store
<1> QED
  BY <1>1, <1>2, SameAppend DEF LP!AppendTx

\* A pending transaction that bears the next number takes effect when it comes
\* up, unless it takes the process along.
LEMMA DueTakesEffect ==
  ASSUME LP!TypeOK, LP!OwnKey, NEW act \in LP!Actions, HandlerMade(act), Ledger!AppendTx(act),
         act.type \in {"submit", "remove"}, act.signer = act.addr,
         IsOpen(accounts, act.addr), act.seq = accounts[act.addr].seq + 1
  PROVE  TakesEffect(act) \/ ~up'
<1> DEFINE old == accounts[act.addr]
<1>1. /\ act.addr \in Users /\ act.seq \in Nat
      /\ act.pubKey = IF act.seq = 1 THEN act.addr ELSE NoUser
      /\ act.type = "submit" => act.data # NoInfo
  BY LP!ActionFacts, LedgerAssumptions, LedgerAssumption DEF HandlerMade
<1>2. /\ LP!HasAccount(act.addr)
      /\ old \in LP!Account
      /\ old.pubKey = act.addr
  BY <1>1 DEF IsOpen, LP!HasAccount, LP!TypeOK, LP!OwnKey
<1>3. LP!InputAccount(act).pubKey = act.addr /\ LP!InputAccount(act).seq = old.seq
  <2>1. CASE act.pubKey # NoUser
    <3>1. LP!InputAccount(act) = [old EXCEPT !.pubKey = act.addr]
      BY <1>1, <2>1 DEF LP!InputAccount
    <3>2. /\ [old EXCEPT !.pubKey = act.addr].pubKey = act.addr
          /\ [old EXCEPT !.pubKey = act.addr].seq = old.seq
      BY <1>2 DEF LP!Account
    <3> QED
      BY <3>1, <3>2
  <2>2. CASE act.pubKey = NoUser
    BY <1>2, <2>2 DEF LP!InputAccount
  <2> QED
    BY <2>1, <2>2
<1>4. LP!ValidateBasic(act)
  <2>1. old.seq \in Nat
    BY <1>2 DEF LP!Account
  <2> QED
    BY <1>1, <2>1, LedgerAssumption DEF LP!ValidateBasic
<1>5. LP!Valid(act)
  BY <1>2, <1>3, <1>4 DEF LP!Valid, LP!ValidateInputAdvanced
<1>6. ~LP!Reject(act) /\ ~LP!Fail(act)
  BY <1>1, <1>5 DEF LP!Reject, LP!Fail
<1>7. LP!Panic(act) => ~up'
  BY DEF LP!Panic
<1>8. LP!RunCreateAccount(act) \/ LP!RunRemoveAccount(act) \/ LP!RunSubmitForm(act) =>
        log' = Append(log, act)
  BY DEF LP!RunCreateAccount, LP!RunRemoveAccount, LP!RunSubmitForm, LP!Accept
<1>9. log' # log => TakesEffect(act)
  BY AppendCases
<1>10. Append(log, act) # log
  BY AppendProperties DEF LP!TypeOK
<1> QED
  BY <1>6, <1>7, <1>8, <1>9, <1>10, SameAppend DEF LP!AppendTx

\* A send leaves ledger and session alone.  The request goes on to increment
\* only when the node has taken a good form.
LEMMA SendFacts ==
  ASSUME TypeOK, NEW h \in Handlers, Send(h) \/ SendUnanswered(h)
  PROVE  /\ job[h].at = "send"
         /\ UNCHANGED <<accounts, forms, filters, up, log, created, session>>
         /\ LP!CheckTx(Prepared(h)) \/ UNCHANGED ledger
         /\ \/ pending' = pending
            \/ pending' = pending \cup {Prepared(h)} /\ Ledger!Valid(Prepared(h))
         /\ \/ Moves(h, "idle") /\ job'[h] = Idle
            \/ /\ Moves(h, "load")
               /\ job'[h] = [job[h] EXCEPT !.at = "load"]
               /\ job'[h].type = "submit" /\ job[h].type = "submit"
               /\ Ledger!Valid(Prepared(h))
               /\ pending' = pending \cup {Prepared(h)}
<1>1. job[h].at = "send" /\ UNCHANGED <<created, session>>
  BY DEF Send, SendUnanswered
<1>2. Take(Prepared(h)) \/ UNCHANGED <<ledger, pending>>
  BY DEF Send, SendUnanswered
<1>3. /\ UNCHANGED <<accounts, forms, filters, up, log>>
      /\ LP!CheckTx(Prepared(h)) \/ UNCHANGED ledger
      /\ \/ pending' = pending
         \/ pending' = pending \cup {Prepared(h)} /\ Ledger!Valid(Prepared(h))
  BY <1>2, TakeFacts DEF ledger
<1>4. CASE Finish(h)
  BY <1>1, <1>3, <1>4, FinishFacts
<1>5. CASE ~Finish(h)
  <2> DEFINE r == [job[h] EXCEPT !.at = "load"]
  <2>1. /\ Take(Prepared(h)) /\ job[h].type = "submit" /\ Ledger!Valid(Prepared(h))
        /\ job' = [job EXCEPT ![h] = r]
    BY <1>5 DEF Send, SendUnanswered
  <2>2. r \in Jobs /\ r.at = "load" /\ r.type = job[h].type
    BY JobTypes DEF Jobs
  <2>3. job'[h] = r /\ Moves(h, "load")
    BY <2>1, <2>2, MovesFact, JobTypes DEF Jobs
  <2>4. pending' = pending \cup {Prepared(h)}
    BY <2>1 DEF Take
  <2> QED
    BY <1>1, <1>3, <2>1, <2>2, <2>3, <2>4
<1> QED
  BY <1>4, <1>5

\* A panic ends the request and changes nothing else.
LEMMA PanicFacts ==
  ASSUME TypeOK, NEW h \in Handlers, Panic(h)
  PROVE  Moves(h, "idle") /\ job'[h] = Idle /\ UNCHANGED <<ledger, pending, created, session>>
  BY FinishFacts DEF Panic

-----------------------------------------------------------------------------
(* The invariant of any number of requests *)

\* The steps of a request that are between it and the session.
Local(h) ==
  \/ \E u \in Users : LoginQuery(h, u)
  \/ \E form \in Forms : FillForm(h, form)
  \/ LoginSet(h) \/ BeginRemove(h) \/ BeginSubmit(h) \/ Panic(h)
  \/ PrepareUser(h) \/ PrepareSeq(h) \/ Sign(h)
  \/ LoadSequence(h) \/ StoreSequence(h)

\* The steps, by who takes them.
LEMMA NextCases ==
  ASSUME Next
  PROVE  \/ \E h \in Handlers : Local(h)
         \/ \E h \in Handlers : Send(h) \/ SendUnanswered(h)
         \/ \E u \in Users : CreateAccount(u)
         \/ \E act \in pending : Deliver(act)
  BY DEF Next, Local

\* A local step leaves ledger and mempool alone.
LEMMA LocalFacts ==
  ASSUME NEW h \in Handlers, Local(h)
  PROVE  /\ UNCHANGED <<ledger, pending, created>>
         /\ UNCHANGED <<accounts, forms, filters, up, res, log, pending, created>>
  BY DEF Local, LoginQuery, FillForm, LoginSet, BeginRemove, BeginSubmit, Panic, PrepareUser,
     PrepareSeq, Sign, LoadSequence, StoreSequence, ledger

\* An idle request is sound in every session.
LEMMA IdleSound ==
  ASSUME NEW s
  PROVE  JobSound(s, Idle)
  BY DEF JobSound, Idle

\* Requests that do not move stay sound.
LEMMA OthersSound ==
  ASSUME TInv, NEW h \in Handlers, NEW at, Moves(h, at), session' \in Sessions,
         session'.logins >= session.logins, JobSound(session', job'[h])
  PROVE  \A g \in Handlers : JobSound(session', job'[g])
<1>1. SUFFICES ASSUME NEW g \in Handlers \ {h}
               PROVE  JobSound(session', job[g])
  BY DEF Moves
<1>2. JobSound(session, job[g])
  BY DEF TInv
<1>3. session.logins > 0 => session'.logins > 0
  BY JobTypes DEF TInv, Sessions
<1> QED
  BY <1>2, <1>3 DEF JobSound

\* A local step keeps the types of session and requests, and what the
\* requests have read.
LEMMA LocalJobs ==
  ASSUME TInv, NEW h \in Handlers, Local(h)
  PROVE  /\ session' \in Sessions
         /\ job' \in [Handlers -> Jobs]
         /\ SessionSound(session')
         /\ \A g \in Handlers : JobSound(session', job'[g])
<1>1. /\ TypeOK /\ LP!TypeOK /\ Readable(accounts)
      /\ SessionSound(session) /\ JobSound(session, job[h])
  BY DEF TInv
<1>2. session \in Sessions /\ session.logins >= session.logins
  BY <1>1, JobTypes DEF Sessions
<1>3. ASSUME session' = session, NEW at, Moves(h, at), JobSound(session, job'[h])
      PROVE  /\ session' \in Sessions
             /\ job' \in [Handlers -> Jobs]
             /\ SessionSound(session')
             /\ \A g \in Handlers : JobSound(session', job'[g])
  <2>1. \A g \in Handlers : JobSound(session', job'[g])
    BY <1>2, <1>3, OthersSound
  <2> QED
    BY <1>1, <1>2, <1>3, <2>1 DEF Moves
<1>4. ASSUME NEW u \in Users, LoginQuery(h, u)
      PROVE  \E at : session' = session /\ Moves(h, at) /\ JobSound(session, job'[h])
  <2>1. /\ Moves(h, "login") /\ job'[h].key = u
        /\ job'[h].user = IF accounts[u] = Removed THEN NoUser ELSE u
    BY <1>1, <1>4, LoginQueryFacts
  <2>2. JobSound(session, job'[h])
    BY <2>1 DEF JobSound, Moves
  <2> QED
    BY <1>4, <2>1, <2>2 DEF LoginQuery
<1>5. ASSUME NEW form \in Forms, FillForm(h, form)
      PROVE  \E at : session' = session /\ Moves(h, at) /\ JobSound(session, job'[h])
  <2>1. /\ Moves(h, "user") /\ job[h].at = "form" /\ job'[h].form \in Infos
        /\ job'[h].type = job[h].type
    BY <1>1, <1>5, FillFormFacts
  <2>2. JobSound(session, job'[h])
    BY <1>1, <2>1 DEF JobSound, Moves
  <2> QED
    BY <1>5, <2>1, <2>2 DEF FillForm
<1>6. ASSUME BeginRemove(h) \/ BeginSubmit(h)
      PROVE  \E at : session' = session /\ Moves(h, at) /\ JobSound(session, job'[h])
  <2>1. job[h].at = "idle"
    BY <1>6 DEF BeginRemove, BeginSubmit
  <2>2. job[h].form = NoInfo
    BY <1>1, <2>1 DEF JobSound, Idle
  <2>3. CASE BeginRemove(h)
    <3>1. Moves(h, "user") /\ job'[h].type = "remove" /\ job'[h].form = NoInfo /\ LoggedIn
      BY <1>1, <2>2, <2>3, BeginRemoveFacts
    <3>2. JobSound(session, job'[h])
      BY <3>1 DEF JobSound, Moves, LoggedIn
    <3> QED
      BY <2>3, <3>1, <3>2 DEF BeginRemove
  <2>4. CASE BeginSubmit(h)
    <3>1. Moves(h, "form") /\ job'[h].type = "submit" /\ LoggedIn
      BY <1>1, <2>4, BeginSubmitFacts
    <3>2. JobSound(session, job'[h])
      BY <3>1 DEF JobSound, Moves, LoggedIn
    <3> QED
      BY <2>4, <3>1, <3>2 DEF BeginSubmit
  <2> QED
    BY <1>6, <2>3, <2>4
<1>7. ASSUME PrepareUser(h)
      PROVE  \E at : session' = session /\ Moves(h, at) /\ JobSound(session, job'[h])
  <2>1. /\ Moves(h, "seq") /\ job[h].at = "user" /\ job'[h].user \in Users
        /\ job'[h].type = job[h].type /\ job'[h].form = job[h].form
    BY <1>1, <1>7, PrepareUserFacts
  <2>2. JobSound(session, job'[h])
    BY <1>1, <2>1 DEF JobSound, Moves
  <2> QED
    BY <1>7, <2>1, <2>2 DEF PrepareUser
<1>8. ASSUME PrepareSeq(h)
      PROVE  \E at : session' = session /\ Moves(h, at) /\ JobSound(session, job'[h])
  <2>1. /\ Moves(h, "key") /\ job[h].at = "seq" /\ job'[h].user = job[h].user
        /\ job'[h].type = job[h].type /\ job'[h].form = job[h].form
    BY <1>1, <1>8, PrepareSeqFacts
  <2>2. JobSound(session, job'[h])
    BY <1>1, <2>1 DEF JobSound, Moves
  <2> QED
    BY <1>8, <2>1, <2>2 DEF PrepareSeq
<1>9. ASSUME Sign(h)
      PROVE  \E at : session' = session /\ Moves(h, at) /\ JobSound(session, job'[h])
  <2>1. /\ Moves(h, "send") /\ job[h].at = "key" /\ job'[h].user = job[h].user
        /\ job'[h].key = session.key
        /\ job'[h].type = job[h].type /\ job'[h].form = job[h].form
    BY <1>1, <1>9, SignFacts
  <2>2. session.key \in Users
    BY <1>1, <2>1 DEF JobSound, SessionSound
  <2>3. JobSound(session, job'[h])
    BY <1>1, <2>1, <2>2 DEF JobSound, Moves
  <2> QED
    BY <1>9, <2>1, <2>3 DEF Sign
<1>10. ASSUME LoadSequence(h)
       PROVE  \E at : session' = session /\ Moves(h, at) /\ JobSound(session, job'[h])
  <2>1. Moves(h, "store") /\ job[h].at = "load" /\ job'[h].type = job[h].type
    BY <1>1, <1>10, LoadSequenceFacts
  <2>2. JobSound(session, job'[h])
    BY <1>1, <2>1 DEF JobSound, Moves
  <2> QED
    BY <1>10, <2>1, <2>2 DEF LoadSequence
<1>11. ASSUME Panic(h)
       PROVE  \E at : session' = session /\ Moves(h, at) /\ JobSound(session, job'[h])
  BY <1>1, <1>11, PanicFacts, IdleSound
<1>12. CASE LoginSet(h)
  <2>1. /\ Moves(h, "idle") /\ job'[h] = Idle /\ session' \in Sessions
        /\ session'.logins = session.logins + 1
        /\ session'.user = job[h].user /\ session'.key = job[h].key
        /\ job[h].at = "login"
    BY <1>1, <1>12, LoginSetFacts
  <2>2. session'.logins >= session.logins
    BY <1>2, <2>1 DEF Sessions
  <2>3. SessionSound(session')
    BY <1>1, <2>1 DEF JobSound, SessionSound
  <2> QED
    BY <2>1, <2>2, <2>3, IdleSound, OthersSound DEF Moves
<1>13. CASE StoreSequence(h)
  <2>1. /\ Moves(h, "idle") /\ job'[h] = Idle /\ session' \in Sessions
        /\ session'.logins = session.logins
        /\ session'.user = session.user /\ session'.key = session.key
    BY <1>1, <1>13, StoreSequenceFacts
  <2>2. session'.logins >= session.logins
    BY <1>2, <2>1 DEF Sessions
  <2>3. SessionSound(session')
    BY <1>1, <2>1 DEF SessionSound
  <2> QED
    BY <2>1, <2>2, <2>3, IdleSound, OthersSound DEF Moves
<1> QED
  BY <1>3, <1>4, <1>5, <1>6, <1>7, <1>8, <1>9, <1>10, <1>11, <1>12, <1>13 DEF Local

\* So does a send.
LEMMA SendJobs ==
  ASSUME TInv, NEW h \in Handlers, Send(h) \/ SendUnanswered(h)
  PROVE  /\ session' = session
         /\ job' \in [Handlers -> Jobs]
         /\ \A g \in Handlers : JobSound(session', job'[g])
<1>1. TypeOK /\ JobSound(session, job[h])
  BY DEF TInv
<1>2. session \in Sessions /\ session.logins >= session.logins
  BY <1>1, JobTypes DEF Sessions
<1>3. session' = session /\ job[h].at = "send"
  BY <1>1, SendFacts
<1>4. \E at : Moves(h, at) /\ JobSound(session, job'[h])
  <2>1. CASE Moves(h, "idle") /\ job'[h] = Idle
    BY <2>1, IdleSound
  <2>2. CASE Moves(h, "load") /\ job'[h].type = "submit"
    BY <1>1, <1>3, <2>2 DEF JobSound, Moves
  <2> QED
    BY <1>1, <2>1, <2>2, SendFacts
<1> QED
  BY <1>2, <1>3, <1>4, OthersSound DEF Moves

\* A new account is of nobody that was created before.
LEMMA CreateFacts ==
  ASSUME TypeOK, NEW u \in Users, CreateAccount(u)
  PROVE  LET act == Ledger!NewAction("create", NoInfo, u, 1, u) IN
         /\ act \in LP!Actions
         /\ HandlerMade(act)
         /\ u \notin Genesis \cup created
         /\ created' = created \cup {u}
         /\ UNCHANGED <<accounts, forms, filters, up, log, session, job>>
         /\ LP!CheckTx(act) \/ UNCHANGED ledger
         /\ \/ pending' = pending
            \/ pending' = pending \cup {act}
<1> DEFINE act == Ledger!NewAction("create", NoInfo, u, 1, u)
<1>1. act \in LP!Actions /\ HandlerMade(act)
  <2>1. act = LP!NewAction("create", NoInfo, u, 1, u)
    BY DEF Ledger!NewAction, LP!NewAction
  <2>2. "create" \in LP!ActionTypes /\ NoInfo \in LP!Payloads("create") /\ 1 \in Nat
    BY DEF LP!ActionTypes, LP!Payloads
  <2>3. act \in LP!Actions
    BY <2>1, <2>2, LP!NewActionFacts, LedgerAssumptions
  <2> QED
    BY <2>1, <2>3 DEF HandlerMade, LP!NewAction
<1>2. Take(act) \/ UNCHANGED <<ledger, pending>>
  BY DEF CreateAccount
<1>3. /\ UNCHANGED <<accounts, forms, filters, up, log>>
      /\ LP!CheckTx(act) \/ UNCHANGED ledger
      /\ pending' = pending \/ pending' = pending \cup {act}
  BY <1>2, TakeFacts DEF ledger
<1> QED
  BY <1>1, <1>3 DEF CreateAccount

\* What comes up in a block is sound, and leaves session and requests alone.
LEMMA DeliverFacts ==
  ASSUME IInv, NEW act \in pending, Deliver(act)
  PROVE  /\ act \in LP!Actions
         /\ PendingSound(accounts, created, act)
         /\ LP!AppendTx(act)
         /\ UNCHANGED <<created, session, job>>
         /\ pending' = pending \ {act}
         /\ UNCHANGED <<accounts, log>> \/ TakesEffect(act)
<1>1. PendingSound(accounts, created, act) /\ LP!TypeOK /\ LP!OwnKey
  BY DEF IInv, TInv
<1>2. act \in LP!Actions
  BY <1>1, SameActions DEF PendingSound
<1>3. Ledger!AppendTx(act) /\ UNCHANGED <<created, session, job>> /\ pending' = pending \ {act}
  BY DEF Deliver
<1> QED
  BY <1>1, <1>2, <1>3, SameAppend, AppendCases DEF PendingSound

\* A step of Session is a step of Execution or leaves the ledger alone.
LEMMA LedgerStep == IInv /\ [Next]_vars => [LP!Next]_LP!vars
<1> SUFFICES ASSUME IInv, [Next]_vars
             PROVE  [LP!Next]_LP!vars
  OBVIOUS
<1>1. TypeOK /\ \A h \in Handlers : JobSound(session, job[h])
  BY DEF IInv, TInv
<1>2. UNCHANGED ledger => UNCHANGED LP!vars
  BY DEF ledger, LP!vars
<1>3. ASSUME NEW h \in Handlers, Local(h)
      PROVE  UNCHANGED ledger
  BY <1>3, LocalFacts
<1>4. ASSUME NEW h \in Handlers, Send(h) \/ SendUnanswered(h)
      PROVE  LP!Next \/ UNCHANGED ledger
  <2>1. job[h].at = "send" /\ (LP!CheckTx(Prepared(h)) \/ UNCHANGED ledger)
    BY <1>1, <1>4, SendFacts
  <2>2. Prepared(h) \in LP!Actions
    BY <1>1, <2>1, PreparedFacts
  <2> QED
    BY <2>1, <2>2 DEF LP!Next
<1>5. ASSUME NEW u \in Users, CreateAccount(u)
      PROVE  LP!Next \/ UNCHANGED ledger
  BY <1>1, <1>5, CreateFacts DEF LP!Next
<1>6. ASSUME NEW act \in pending, Deliver(act)
      PROVE  LP!Next
  BY <1>6, DeliverFacts DEF LP!Next
<1>7. UNCHANGED vars => UNCHANGED ledger
  BY DEF vars, ledger
<1> QED
  BY <1>2, <1>3, <1>4, <1>5, <1>6, <1>7, NextCases

\* An account on the ledger stays there or is removed for good, and its number
\* does not fall: nobody is created twice.
Later(before, after) ==
  \A u \in Users :
    Known(before, u) =>
      /\ Known(after, u)
      /\ IsOpen(after, u) => IsOpen(before, u) /\ before[u].seq <= after[u].seq

\* The accounts are no later than themselves.
LEMMA LaterReflexive ==
  ASSUME LP!TypeOK, accounts' = accounts
  PROVE  Later(accounts, accounts')
<1>1. \A u \in Users : IsOpen(accounts, u) => accounts[u].seq \in Nat
  BY DEF LP!TypeOK, IsOpen, LP!Account
<1>2. \A u \in Users : IsOpen(accounts, u) => accounts[u].seq <= accounts[u].seq
  BY <1>1
<1> QED
  BY <1>2 DEF Later

\* Every step brings later accounts: the only creation is of an unknown one.
LEMMA StepLater ==
  ASSUME IInv, Next
  PROVE  Later(accounts, accounts')
<1>1. LP!TypeOK /\ TypeOK
  BY DEF IInv, TInv
<1>2. CASE accounts' = accounts
  BY <1>1, <1>2, LaterReflexive
<1>3. ASSUME NEW act \in pending, Deliver(act)
      PROVE  Later(accounts, accounts')
  <2>1. /\ PendingSound(accounts, created, act) /\ act.seq \in Nat
        /\ accounts' = accounts \/ TakesEffect(act)
    BY <1>3, DeliverFacts, LP!ActionFacts, LedgerAssumptions
  <2>2. ASSUME TakesEffect(act), NEW u \in Users, Known(accounts, u)
        PROVE  /\ Known(accounts', u)
               /\ IsOpen(accounts', u) => /\ IsOpen(accounts, u)
                                          /\ accounts[u].seq <= accounts'[u].seq
    <3>1. CASE u # act.addr
      <4>1. accounts'[u] = accounts[u]
        BY <2>2, <3>1 DEF TakesEffect
      <4>2. IsOpen(accounts, u) => accounts[u].seq \in Nat
        BY <1>1 DEF LP!TypeOK, IsOpen, LP!Account
      <4> QED
        BY <2>2, <4>1, <4>2 DEF Known, IsOpen
    <3>2. CASE u = act.addr
      <4>1. act.type # "create"
        BY <2>1, <2>2, <3>2 DEF PendingSound
      <4>2. IsOpen(accounts, u) /\ act.seq = accounts[u].seq + 1 /\ accounts[u].seq \in Nat
        BY <1>1, <2>2, <3>2, <4>1 DEF TakesEffect, LP!TypeOK, IsOpen, LP!Account
      <4>3. CASE act.type = "remove"
        BY <2>2, <3>2, <4>3, LedgerAssumption DEF TakesEffect, Known, IsOpen
      <4>4. CASE act.type # "remove"
        BY <2>2, <3>2, <4>2, <4>4 DEF TakesEffect, Known, IsOpen
      <4> QED
        BY <4>3, <4>4
    <3> QED
      BY <3>1, <3>2
  <2> QED
    BY <1>2, <2>1, <2>2 DEF Later
<1> QED
  BY <1>1, <1>2, <1>3, NextCases, LocalFacts, SendFacts, CreateFacts

\* A transaction stays sound while the accounts of others change.
LEMMA PendingLater ==
  ASSUME LP!TypeOK, LP!TypeOK', NEW act, PendingSound(accounts, created, act),
         Later(accounts, accounts'), created \subseteq created',
         act.type = "create" => ~Known(accounts', act.addr)
  PROVE  PendingSound(accounts', created', act)
<1>1. act.addr \in Users /\ act.seq \in Nat
  BY SameActions, LP!ActionFacts, LedgerAssumptions DEF PendingSound
<1>2. ASSUME act.type # "create", IsOpen(accounts', act.addr)
      PROVE  act.seq <= accounts'[act.addr].seq + 1
  <2>1. /\ act.seq <= accounts[act.addr].seq + 1
        /\ accounts[act.addr].seq <= accounts'[act.addr].seq
        /\ IsOpen(accounts, act.addr)
    BY <1>1, <1>2 DEF PendingSound, Later
  <2>2. accounts[act.addr].seq \in Nat
    BY <1>1, <2>1 DEF LP!TypeOK, IsOpen, LP!Account
  <2>3. accounts'[act.addr].seq \in Nat
    BY <1>1, <1>2 DEF LP!TypeOK, IsOpen, LP!Account
  <2> QED
    BY <1>1, <2>1, <2>2, <2>3
<1>3. act.type # "create" => Known(accounts', act.addr)
  BY <1>1 DEF PendingSound, Later
<1> QED
  BY <1>2, <1>3 DEF PendingSound

\* The type invariants of the ledger, by the proofs of Execution.
LEMMA StepTypes ==
  ASSUME IInv, [Next]_vars
  PROVE  LP!TypeOK' /\ LP!OwnKey' /\ Readable(accounts')
<1>1. LP!TypeOK /\ LP!OwnKey /\ Readable(accounts) /\ TypeOK
  BY DEF IInv, TInv
<1>2. LP!TypeOK' /\ LP!OwnKey'
  BY <1>1, LedgerStep, LP!StepTypeOK, LP!StepOwnKey, LedgerAssumptions
<1>3. accounts' = accounts => Readable(accounts')
  BY <1>1 DEF Readable
<1>4. ASSUME NEW act \in pending, Deliver(act), accounts' # accounts
      PROVE  Readable(accounts')
  <2>1. TakesEffect(act)
    BY <1>4, DeliverFacts
  <2>2. accounts'[act.addr] \notin ContentIDs
    BY <2>1, LedgerAssumption DEF TakesEffect, IsOpen
  <2> QED
    BY <1>1, <2>1, <2>2 DEF TakesEffect, Readable
<1>5. UNCHANGED vars => accounts' = accounts
  BY DEF vars, ledger
<1> QED
  BY <1>1, <1>2, <1>3, <1>4, <1>5, NextCases, LocalFacts, SendFacts, CreateFacts

\* Every step keeps the pending transactions sound.
LEMMA StepPending ==
  ASSUME IInv, Next
  PROVE  \A act \in pending' : PendingSound(accounts', created', act)
<1>1. /\ TypeOK /\ LP!TypeOK /\ LP!OwnKey /\ LP!TypeOK'
      /\ \A h \in Handlers : JobSound(session, job[h])
      /\ \A act \in pending : PendingSound(accounts, created, act)
      /\ Later(accounts, accounts')
  BY StepTypes, StepLater DEF IInv, TInv
<1>2. ASSUME accounts' = accounts, created \subseteq created'
      PROVE  \A act \in pending : PendingSound(accounts', created', act)
  <2>1. \A act \in pending : act.type = "create" => ~Known(accounts', act.addr)
    BY <1>1, <1>2 DEF PendingSound
  <2> QED
    BY <1>1, <1>2, <2>1, PendingLater
<1>3. CASE \E h \in Handlers : Local(h)
  BY <1>2, <1>3, LocalFacts
<1>4. ASSUME NEW h \in Handlers, Send(h) \/ SendUnanswered(h)
      PROVE  \A act \in pending' : PendingSound(accounts', created', act)
  <2>1. /\ job[h].at = "send" /\ UNCHANGED <<accounts, created>>
        /\ \/ pending' = pending
           \/ pending' = pending \cup {Prepared(h)} /\ Ledger!Valid(Prepared(h))
    BY <1>1, <1>4, SendFacts
  <2>2. ASSUME Ledger!Valid(Prepared(h))
        PROVE  PendingSound(accounts, created, Prepared(h))
    <3>1. /\ Prepared(h) \in LP!Actions
          /\ Prepared(h).type \in {"submit", "remove"}
          /\ HandlerMade(Prepared(h))
      BY <1>1, <2>1, PreparedFacts
    <3>2. /\ Prepared(h).signer = Prepared(h).addr
          /\ IsOpen(accounts, Prepared(h).addr)
          /\ Prepared(h).seq = accounts[Prepared(h).addr].seq + 1
      BY <1>1, <2>2, <3>1, ValidFacts
    <3>3. Prepared(h).seq \in Nat
      BY <3>1, LP!ActionFacts, LedgerAssumptions
    <3> QED
      BY <3>1, <3>2, <3>3, SameActions DEF PendingSound, Known, IsOpen
  <2> QED
    BY <1>2, <2>1, <2>2
<1>5. ASSUME NEW u \in Users, CreateAccount(u)
      PROVE  \A act \in pending' : PendingSound(accounts', created', act)
  <2> DEFINE new == Ledger!NewAction("create", NoInfo, u, 1, u)
  <2>1. /\ new \in LP!Actions /\ HandlerMade(new) /\ u \notin Genesis \cup created
        /\ accounts' = accounts /\ created' = created \cup {u}
        /\ pending' = pending \/ pending' = pending \cup {new}
    BY <1>1, <1>5, CreateFacts
  <2>2. new.type = "create" /\ new.addr = u /\ new.signer = u
    BY DEF Ledger!NewAction
  <2>3. ~Known(accounts, u)
    BY <2>1 DEF IInv, AccountsSound
  <2>4. PendingSound(accounts', created', new)
    BY <2>1, <2>2, <2>3, SameActions DEF PendingSound
  <2> QED
    BY <1>2, <2>1, <2>4
<1>6. ASSUME NEW act \in pending, Deliver(act)
      PROVE  \A other \in pending' : PendingSound(accounts', created', other)
  <2>1. /\ PendingSound(accounts, created, act) /\ created' = created
        /\ pending' = pending \ {act}
        /\ accounts' = accounts \/ TakesEffect(act)
    BY <1>6, DeliverFacts
  <2>2. ASSUME TakesEffect(act), NEW other \in pending \ {act}, other.type = "create"
        PROVE  ~Known(accounts', other.addr)
    <3>1. PendingSound(accounts, created, other)
      BY <1>1
    <3>2. ~Known(accounts, other.addr)
          /\ other = Ledger!NewAction("create", NoInfo, other.addr, 1, other.addr)
      BY <2>2, <3>1 DEF PendingSound
    <3>3. other.addr # act.addr
      BY <2>1, <2>2, <3>2 DEF PendingSound
    <3>4. other.addr \in Users
      BY <3>1, SameActions, LP!ActionFacts, LedgerAssumptions DEF PendingSound
    <3> QED
      BY <2>2, <3>2, <3>3, <3>4 DEF TakesEffect, Known
  <2>3. CASE TakesEffect(act)
    BY <1>1, <2>1, <2>2, <2>3, PendingLater
  <2> QED
    BY <1>2, <2>1, <2>3
<1> QED
  BY <1>3, <1>4, <1>5, <1>6, NextCases

\* What was read of an account in Login holds of it later.
LoginKnown(acc, r) ==
  r.at = "login" /\ r.user # NoUser =>
    /\ Known(acc, r.user)
    /\ IsOpen(acc, r.user) => r.seq <= acc[r.user].seq

\* It holds of later accounts.
LEMMA LoginLater ==
  ASSUME LP!TypeOK, LP!TypeOK', NEW r \in Jobs, LoginKnown(accounts, r),
         Later(accounts, accounts')
  PROVE  LoginKnown(accounts', r)
<1>1. SUFFICES ASSUME r.at = "login", r.user # NoUser
               PROVE  /\ Known(accounts', r.user)
                      /\ IsOpen(accounts', r.user) => r.seq <= accounts'[r.user].seq
  BY DEF LoginKnown
<1>2. r.user \in Users /\ r.seq \in Nat
  BY <1>1 DEF Jobs
<1>3. Known(accounts, r.user) /\ Known(accounts', r.user)
  BY <1>1, <1>2 DEF LoginKnown, Later
<1>4. ASSUME IsOpen(accounts', r.user)
      PROVE  r.seq <= accounts'[r.user].seq
  <2>1. /\ IsOpen(accounts, r.user)
        /\ accounts[r.user].seq <= accounts'[r.user].seq
    BY <1>2, <1>3, <1>4 DEF Later
  <2>2. r.seq <= accounts[r.user].seq
    BY <1>1, <2>1 DEF LoginKnown
  <2>3. accounts[r.user].seq \in Nat /\ accounts'[r.user].seq \in Nat
    BY <1>2, <1>4, <2>1 DEF LP!TypeOK, IsOpen, LP!Account
  <2> QED
    BY <1>2, <2>1, <2>2, <2>3
<1> QED
  BY <1>3, <1>4

\* What assigns to the session, and what begins a login or an increment.
LEMMA LocalMoves ==
  ASSUME TypeOK, LP!TypeOK, Readable(accounts), NEW h \in Handlers, Local(h)
  PROVE  /\ \A g \in Handlers \ {h} : job'[g] = job[g]
         /\ session'.user = session.user \/ LoginSet(h)
         /\ session' = session \/ LoginSet(h) \/ StoreSequence(h)
         /\ job'[h].at # "login" \/ \E u \in Users : LoginQuery(h, u)
         /\ job'[h].at \notin {"load", "store"} \/ LoadSequence(h)
<1>1. ASSUME NEW at, Moves(h, at), at # "login" \/ \E u \in Users : LoginQuery(h, u),
             at \notin {"load", "store"} \/ LoadSequence(h),
             session'.user = session.user \/ LoginSet(h),
             session' = session \/ LoginSet(h) \/ StoreSequence(h)
      PROVE  /\ \A g \in Handlers \ {h} : job'[g] = job[g]
             /\ session'.user = session.user \/ LoginSet(h)
             /\ session' = session \/ LoginSet(h) \/ StoreSequence(h)
             /\ job'[h].at # "login" \/ \E u \in Users : LoginQuery(h, u)
             /\ job'[h].at \notin {"load", "store"} \/ LoadSequence(h)
  BY <1>1 DEF Moves
<1>2. CASE \E u \in Users : LoginQuery(h, u)
  <2>1. Moves(h, "login") /\ session' = session
    BY <1>2, LoginQueryFacts DEF LoginQuery
  <2> QED
    BY <1>1, <1>2, <2>1
<1>3. CASE \E form \in Forms : FillForm(h, form)
  <2>1. Moves(h, "user") /\ session' = session
    BY <1>3, FillFormFacts DEF FillForm
  <2> QED
    BY <1>1, <2>1
<1>4. CASE LoginSet(h)
  BY <1>1, <1>4, LoginSetFacts
<1>5. CASE StoreSequence(h)
  BY <1>1, <1>5, StoreSequenceFacts
<1>6. CASE Panic(h)
  BY <1>1, <1>6, PanicFacts
<1>7. CASE BeginRemove(h) \/ BeginSubmit(h)
  <2>1. (Moves(h, "user") \/ Moves(h, "form")) /\ session' = session
    BY <1>7, BeginRemoveFacts, BeginSubmitFacts DEF BeginRemove, BeginSubmit
  <2> QED
    BY <1>1, <2>1
<1>8. CASE PrepareUser(h)
  BY <1>1, <1>8, PrepareUserFacts DEF PrepareUser
<1>9. CASE PrepareSeq(h)
  BY <1>1, <1>9, PrepareSeqFacts DEF PrepareSeq
<1>10. CASE Sign(h)
  BY <1>1, <1>10, SignFacts DEF Sign
<1>11. CASE LoadSequence(h)
  BY <1>1, <1>11, LoadSequenceFacts DEF LoadSequence
<1> QED
  BY <1>2, <1>3, <1>4, <1>5, <1>6, <1>7, <1>8, <1>9, <1>10, <1>11 DEF Local

\* Every step keeps what is known of the accounts.
LEMMA StepAccounts ==
  ASSUME IInv, Next
  PROVE  AccountsSound(accounts', created', session', job')
<1>1. /\ TypeOK /\ LP!TypeOK /\ Readable(accounts) /\ LP!TypeOK'
      /\ \A u \in Users \ (Genesis \cup created) : ~Known(accounts, u)
      /\ session.user # NoUser => Known(accounts, session.user)
      /\ \A h \in Handlers : LoginKnown(accounts, job[h])
      /\ Later(accounts, accounts')
  BY StepTypes, StepLater DEF IInv, TInv, AccountsSound, LoginKnown
<1>2. session \in Sessions /\ \A h \in Handlers : job[h] \in Jobs
  BY <1>1, JobTypes
<1>3. \A u \in Users \ (Genesis \cup created') : ~Known(accounts', u)
  <2>1. CASE accounts' = accounts /\ created \subseteq created'
    BY <1>1, <2>1
  <2>2. ASSUME NEW act \in pending, Deliver(act)
        PROVE  \A u \in Users \ (Genesis \cup created') : ~Known(accounts', u)
    <3>1. /\ PendingSound(accounts, created, act) /\ created' = created
          /\ accounts' = accounts \/ TakesEffect(act)
      BY <2>2, DeliverFacts
    <3>2. TakesEffect(act) => \A u \in Users \ (Genesis \cup created) : u # act.addr
      BY <1>1, <3>1 DEF PendingSound
    <3>3. TakesEffect(act) =>
            \A u \in Users \ (Genesis \cup created) : accounts'[u] = accounts[u]
      BY <3>2 DEF TakesEffect
    <3> QED
      BY <1>1, <3>1, <3>3 DEF Known
  <2> QED
    BY <1>1, <2>1, <2>2, NextCases, LocalFacts, SendFacts, CreateFacts
<1>4. session'.user # NoUser => Known(accounts', session'.user)
  <2>1. CASE session'.user = session.user
    BY <1>1, <1>2, <2>1 DEF Later, Sessions
  <2>2. ASSUME NEW h \in Handlers, LoginSet(h)
        PROVE  session'.user # NoUser => Known(accounts', session'.user)
    <3>1. session'.user = job[h].user /\ job[h].at = "login"
      BY <1>1, <2>2, LoginSetFacts
    <3> QED
      BY <1>1, <1>2, <3>1 DEF LoginKnown, Later, Jobs
  <2> QED
    BY <1>1, <2>1, <2>2, NextCases, LocalMoves, SendFacts, CreateFacts, DeliverFacts
<1>5. ASSUME NEW g \in Handlers
      PROVE  LoginKnown(accounts', job'[g])
  <2>1. CASE job'[g] = job[g]
    BY <1>1, <1>2, <2>1, LoginLater
  <2>2. CASE job'[g].at # "login"
    BY <2>2 DEF LoginKnown
  <2>3. ASSUME NEW u \in Users, LoginQuery(g, u)
        PROVE  LoginKnown(accounts', job'[g])
    <3>1. /\ job'[g].user = IF accounts[u] = Removed THEN NoUser ELSE u
          /\ Known(accounts, u)
          /\ IsOpen(accounts, u) => job'[g].seq = accounts[u].seq
          /\ accounts' = accounts
      BY <1>1, <2>3, LoginQueryFacts DEF LoginQuery, ledger
    <3>2. IsOpen(accounts, u) => accounts[u].seq \in Nat
      BY <1>1 DEF LP!TypeOK, IsOpen, LP!Account
    <3> QED
      BY <3>1, <3>2, LedgerAssumption DEF LoginKnown, IsOpen, Known
  <2>4. ASSUME NEW h \in Handlers, Send(h) \/ SendUnanswered(h)
        PROVE  job'[g] = job[g] \/ job'[g].at # "login"
    <3>1. Moves(h, "idle") \/ Moves(h, "load")
      BY <1>1, <2>4, SendFacts
    <3> QED
      BY <3>1 DEF Moves
  <2>5. ASSUME NEW h \in Handlers, Local(h)
        PROVE  \/ job'[g] = job[g] \/ job'[g].at # "login"
               \/ \E u \in Users : LoginQuery(g, u)
    BY <1>1, <2>5, LocalMoves
  <2> QED
    BY <1>1, <2>1, <2>2, <2>3, <2>4, <2>5, NextCases, CreateFacts, DeliverFacts
<1> QED
  BY <1>3, <1>4, <1>5 DEF AccountsSound, LoginKnown

\* IInv holds initially.
LEMMA InitInv == Init => IInv
<1> SUFFICES ASSUME Init PROVE IInv
  OBVIOUS
<1>1. LP!Init /\ pending = {} /\ created = {} /\ session = LoggedOut
      /\ job = [h \in Handlers |-> Idle]
  BY SameInit DEF Init
<1>2. LP!TypeOK /\ LP!OwnKey /\ Readable(accounts)
  <2>1. LP!TypeOK /\ LP!OwnKey
    BY <1>1, LP!InitTypeOK, LP!InitOwnKey, LedgerAssumptions
  <2>2. \A u \in Users : accounts[u] = Absent \/ accounts[u] = LP!NewAccount(u)
    BY <1>1 DEF LP!Init
  <2>3. \A u \in Users : accounts[u] = LP!NewAccount(u) => accounts[u] \in LP!Account
    BY EmptySeq DEF LP!NewAccount, LP!Account
  <2>4. ContentIDs \cap LP!Account = {} /\ Absent \notin ContentIDs
    BY LedgerAssumptions DEF LP!MarkersAssumption
  <2> QED
    BY <2>1, <2>2, <2>3, <2>4 DEF Readable
<1>3. LoggedOut \in Sessions /\ Idle \in Jobs
  BY SessionAssumption DEF LoggedOut, Idle, Sessions, Jobs
<1>4. TypeOK
  BY <1>1, <1>3 DEF TypeOK, Sessions, Jobs
<1>5. SessionSound(session) /\ session.user = NoUser
  BY <1>1 DEF SessionSound, LoggedOut
<1>6. \A h \in Handlers : JobSound(session, job[h]) /\ job[h].at = "idle"
  BY <1>1, IdleSound DEF Idle
<1>7. \A u \in Users \ (Genesis \cup created) : ~Known(accounts, u)
  BY <1>1 DEF LP!Init, Known
<1> QED
  BY <1>1, <1>2, <1>4, <1>5, <1>6, <1>7 DEF IInv, TInv, AccountsSound

\* Every step keeps IInv.
LEMMA StepInv == IInv /\ [Next]_vars => IInv'
<1> SUFFICES ASSUME IInv, [Next]_vars
             PROVE  IInv'
  OBVIOUS
<1>1. LP!TypeOK' /\ LP!OwnKey' /\ Readable(accounts')
  BY StepTypes
<1>2. CASE Next
  <2>1. /\ TypeOK /\ LP!TypeOK /\ LP!OwnKey /\ SessionSound(session)
        /\ \A h \in Handlers : JobSound(session, job[h])
        /\ session \in Sessions /\ job \in [Handlers -> Jobs] /\ created \subseteq Users
    BY JobTypes DEF IInv, TInv, TypeOK
  <2>2. /\ \A act \in pending' : PendingSound(accounts', created', act)
        /\ AccountsSound(accounts', created', session', job')
    BY <1>2, StepPending, StepAccounts
  <2>3. /\ session' \in Sessions /\ job' \in [Handlers -> Jobs] /\ SessionSound(session')
        /\ \A h \in Handlers : JobSound(session', job'[h])
    <3>1. CASE session' = session /\ job' = job
      BY <2>1, <3>1
    <3>2. CASE \E h \in Handlers : Local(h)
      BY <3>2, LocalJobs DEF IInv
    <3>3. CASE \E h \in Handlers : Send(h) \/ SendUnanswered(h)
      BY <2>1, <3>3, SendJobs DEF IInv
    <3> QED
      BY <1>2, <2>1, <3>1, <3>2, <3>3, NextCases, CreateFacts, DeliverFacts
  <2>4. created' \subseteq Users
    <3>1. created' = created \/ \E u \in Users : created' = created \cup {u}
      BY <1>2, <2>1, NextCases, LocalFacts, SendFacts, CreateFacts, DeliverFacts
    <3> QED
      BY <2>1, <3>1
  <2>5. \A act \in pending' : /\ act.addr \in Users /\ act.seq \in Nat
                              /\ act.type \in {"create", "submit", "remove"}
    BY <2>2, SameActions, LP!ActionFacts, LedgerAssumptions DEF PendingSound
  <2>6. TypeOK'
    BY <2>3, <2>4, <2>5 DEF TypeOK, Sessions, Jobs
  <2> QED
    BY <1>1, <2>2, <2>3, <2>6 DEF IInv, TInv
<1>3. CASE UNCHANGED vars
  <2>1. UNCHANGED <<accounts, pending, created, session, job>>
    BY <1>3 DEF vars, ledger
  <2>2. TypeOK'
    BY <2>1 DEF IInv, TInv, TypeOK
  <2>3. /\ \A act \in pending' : PendingSound(accounts', created', act)
        /\ AccountsSound(accounts', created', session', job')
        /\ SessionSound(session')
        /\ \A h \in Handlers : JobSound(session', job'[h])
    BY <2>1 DEF IInv, TInv
  <2> QED
    BY <1>1, <2>2, <2>3 DEF IInv, TInv
<1> QED
  BY <1>2, <1>3

\* IInv is inductive, for any number of requests.
THEOREM Invariance == Spec => []IInv
  BY InitInv, StepInv, PTL DEF Spec

\* Every variable keeps its type: what a request reads and prepares is an
\* account, a form and a number the ledger can be asked about, even when the
\* session was assigned between the reads.
THEOREM TypesCorrect == Spec => []TypeOK
<1>1. IInv => TypeOK
  BY DEF IInv, TInv
<1> QED
  BY <1>1, Invariance, PTL

\* The handlers, the mempool and the blocks together implement Execution: each
\* of their steps is a request to the ledger, or leaves it alone.
THEOREM LedgerImplemented == Spec => Ledger!Spec
<1>1. Init => Ledger!Init
  BY DEF Init
<1>2. IInv /\ [Next]_vars => [Ledger!Next]_Ledger!vars
  BY LedgerStep, SameActions, SameCheck, SameAppend DEF LP!Next, Ledger!Next, LP!vars, Ledger!vars
<1> QED
  BY <1>1, <1>2, Invariance, PTL DEF Spec, Ledger!Spec

\* An account on the ledger has a number.
LEMMA OpenFacts ==
  ASSUME IInv, NEW u \in Users, IsOpen(accounts, u)
  PROVE  accounts[u].seq \in Nat
  BY DEF IInv, TInv, LP!TypeOK, IsOpen, LP!Account

\* A key that has signed an accepted action is known, and while its account is on
\* the ledger no accepted number is above the account's.
AcceptedBelow(acc, lg) ==
  \A i \in DOMAIN lg :
    /\ Known(acc, lg[i].signer)
    /\ IsOpen(acc, lg[i].signer) => lg[i].seq <= acc[lg[i].signer].seq

Once(lg) ==
  \A i, j \in DOMAIN lg : i < j /\ lg[i].signer = lg[j].signer => lg[i].seq < lg[j].seq

\* Every step keeps the accepted numbers increasing: a transaction that takes
\* effect is the first of its key or bears the number after the account's own.
LEMMA StepOnce ==
  ASSUME IInv, AcceptedBelow(accounts, log), Once(log), [Next]_vars
  PROVE  AcceptedBelow(accounts', log') /\ Once(log')
<1>1. TypeOK /\ LP!TypeOK /\ log \in Seq(LP!Actions)
  BY DEF IInv, TInv, LP!TypeOK
<1>2. (accounts' = accounts /\ log' = log) => AcceptedBelow(accounts', log') /\ Once(log')
  OBVIOUS
<1>3. ASSUME NEW act \in pending, Deliver(act), TakesEffect(act)
      PROVE  AcceptedBelow(accounts', log') /\ Once(log')
  <2> DEFINE u == act.addr
  <2>1. /\ PendingSound(accounts, created, act) /\ act \in LP!Actions /\ act.seq \in Nat
        /\ act.signer = u /\ u \in Users
    BY <1>3, DeliverFacts, LP!ActionFacts, LedgerAssumptions DEF PendingSound, HandlerMade
  <2>2. /\ Len(log') = Len(log) + 1 /\ Len(log) \in Nat
        /\ DOMAIN log = 1 .. Len(log) /\ DOMAIN log' = 1 .. Len(log')
        /\ log'[Len(log')] = act
        /\ \A i \in DOMAIN log : log'[i] = log[i]
        /\ \A i \in DOMAIN log : log[i] \in LP!Actions
    BY <1>1, <1>3, <2>1, AppendProperties, LenProperties, ElementOfSeq DEF TakesEffect
  <2>3. \A i \in DOMAIN log : log[i].signer \in Users /\ log[i].seq \in Nat
    BY <2>2, LP!ActionFacts, LedgerAssumptions
  <2>4. \A i \in DOMAIN log : log[i].signer = u => log[i].seq < act.seq
    <3>1. CASE act.type = "create"
      BY <2>1, <3>1 DEF PendingSound, AcceptedBelow
    <3>2. CASE act.type # "create"
      <4>1. IsOpen(accounts, u) /\ act.seq = accounts[u].seq + 1
        BY <1>3, <3>2 DEF TakesEffect
      <4>2. accounts[u].seq \in Nat
        BY <2>1, <4>1, OpenFacts
      <4> QED
        BY <2>3, <4>1, <4>2 DEF AcceptedBelow
    <3> QED
      BY <3>1, <3>2
  <2>5. /\ Known(accounts', u)
        /\ IsOpen(accounts', u) => accounts'[u].seq = act.seq
    <3>1. CASE act.type = "remove"
      BY <1>3, <3>1, LedgerAssumption DEF TakesEffect, Known, IsOpen
    <3>2. CASE act.type # "remove"
      BY <1>3, <3>2 DEF TakesEffect, Known, IsOpen
    <3> QED
      BY <3>1, <3>2
  <2>6. AcceptedBelow(accounts', log')
    <3>1. SUFFICES ASSUME NEW i \in DOMAIN log
                   PROVE  /\ Known(accounts', log[i].signer)
                          /\ IsOpen(accounts', log[i].signer) =>
                               log[i].seq <= accounts'[log[i].signer].seq
      BY <2>1, <2>2, <2>5 DEF AcceptedBelow
    <3>2. CASE log[i].signer = u
      BY <2>1, <2>3, <2>4, <2>5, <3>2
    <3>3. CASE log[i].signer # u
      <4>1. accounts'[log[i].signer] = accounts[log[i].signer]
        BY <1>3, <2>3, <3>3 DEF TakesEffect
      <4> QED
        BY <4>1 DEF AcceptedBelow, Known, IsOpen
    <3> QED
      BY <3>2, <3>3
  <2>7. Once(log')
    BY <2>1, <2>2, <2>4 DEF Once
  <2> QED
    BY <2>6, <2>7
<1>4. UNCHANGED vars => accounts' = accounts /\ log' = log
  BY DEF vars, ledger
<1>5. ASSUME NEW act \in pending, Deliver(act)
      PROVE  (accounts' = accounts /\ log' = log) \/ TakesEffect(act)
  BY <1>5, DeliverFacts
<1> QED
  BY <1>1, <1>2, <1>3, <1>4, <1>5, NextCases, LocalFacts, SendFacts, CreateFacts

\* Replay protection without exceptions, for any number of handlers and any order
\* of delivery: no two accepted transactions of one key have the same number.
THEOREM NothingReplayed == Spec => []AcceptedOnce
<1>1. Init => AcceptedBelow(accounts, log) /\ Once(log)
  BY DEF Init, Ledger!Init, AcceptedBelow, Once
<1>2. IInv /\ (AcceptedBelow(accounts, log) /\ Once(log)) /\ [Next]_vars =>
        (AcceptedBelow(accounts, log) /\ Once(log))'
  BY StepOnce
<1>3. Once(log) <=> AcceptedOnce
  BY DEF Once, AcceptedOnce
<1> QED
  BY <1>1, <1>2, <1>3, Invariance, PTL DEF Spec

-----------------------------------------------------------------------------
(* One request at a time *)

\* An idle request has read nothing.
LEMMA IdleFresh ==
  ASSUME NEW s
  PROVE  JobFresh(s, Idle)
  BY DEF JobFresh, Idle

\* Alone, a request reads what the session holds.
LEMMA LocalFresh ==
  ASSUME TInv, NEW h \in Handlers, JobFresh(session, job[h]), Local(h)
  PROVE  JobFresh(session', job'[h])
<1>1. TypeOK /\ LP!TypeOK /\ Readable(accounts)
  BY DEF TInv
<1>2. CASE \E u \in Users : LoginQuery(h, u)
  <2>1. job'[h].at = "login"
    BY <1>1, <1>2, LoginQueryFacts DEF Moves
  <2> QED
    BY <2>1 DEF JobFresh
<1>3. CASE \E form \in Forms : FillForm(h, form)
  <2>1. job'[h].at = "user"
    BY <1>1, <1>3, FillFormFacts DEF Moves
  <2> QED
    BY <2>1 DEF JobFresh
<1>4. CASE LoginSet(h) \/ StoreSequence(h) \/ Panic(h)
  BY <1>1, <1>4, LoginSetFacts, StoreSequenceFacts, PanicFacts, IdleFresh
<1>5. CASE BeginRemove(h) \/ BeginSubmit(h)
  <2>1. (job'[h].at = "user" /\ job'[h].type = "remove") \/ job'[h].at = "form"
    BY <1>1, <1>5, BeginRemoveFacts, BeginSubmitFacts DEF Moves
  <2> QED
    BY <2>1 DEF JobFresh
<1>6. CASE PrepareUser(h)
  <2>1. /\ job'[h].at = "seq" /\ job'[h].user = session.user /\ session' = session
        /\ job[h].at = "user" /\ job'[h].form = job[h].form /\ job'[h].type = job[h].type
    BY <1>1, <1>6, PrepareUserFacts DEF Moves, PrepareUser
  <2> QED
    BY <2>1 DEF JobFresh
<1>7. CASE PrepareSeq(h)
  <2>1. /\ job'[h].at = "key" /\ job'[h].user = job[h].user /\ session' = session
        /\ job[h].at = "seq" /\ job'[h].form = job[h].form /\ job'[h].type = job[h].type
        /\ job'[h].seq = IF job[h].type = "submit" THEN session.seq + 1 ELSE session.seq
    BY <1>1, <1>7, PrepareSeqFacts DEF Moves, PrepareSeq
  <2> QED
    BY <2>1 DEF JobFresh
<1>8. CASE Sign(h)
  <2>1. /\ job'[h].at = "send" /\ job'[h].user = job[h].user /\ session' = session
        /\ job[h].at = "key" /\ job'[h].form = job[h].form /\ job'[h].type = job[h].type
        /\ job'[h].seq = job[h].seq
    BY <1>1, <1>8, SignFacts DEF Moves, Sign
  <2> QED
    BY <2>1 DEF JobFresh
<1>9. CASE LoadSequence(h)
  <2>1. /\ job'[h].at = "store" /\ session' = session
        /\ job'[h].seq = session.seq /\ job'[h].logins = session.logins
    BY <1>1, <1>9, LoadSequenceFacts DEF Moves, LoadSequence
  <2> QED
    BY <2>1 DEF JobFresh
<1> QED
  BY <1>2, <1>3, <1>4, <1>5, <1>6, <1>7, <1>8, <1>9 DEF Local

\* While one request runs, what it has read is what the session holds.
LEMMA StepFresh ==
  ASSUME OneRequest, IInv, \A h \in Handlers : JobFresh(session, job[h]), Next
  PROVE  \A h \in Handlers : JobFresh(session', job'[h])
<1>1. CASE session' = session /\ job' = job
  BY <1>1
<1>2. ASSUME NEW h \in Handlers, JobFresh(session', job'[h])
      PROVE  \A g \in Handlers : JobFresh(session', job'[g])
  BY <1>2 DEF OneRequest
<1>3. ASSUME NEW h \in Handlers, Local(h)
      PROVE  JobFresh(session', job'[h])
  BY <1>3, LocalFresh DEF IInv
<1>4. ASSUME NEW h \in Handlers, Send(h) \/ SendUnanswered(h)
      PROVE  JobFresh(session', job'[h])
  <2>1. job'[h] = Idle \/ job'[h].at = "load"
    BY <1>4, SendFacts DEF IInv, TInv, Moves
  <2>2. job'[h].at = "load" => JobFresh(session', job'[h])
    BY DEF JobFresh
  <2> QED
    BY <2>1, <2>2, IdleFresh
<1> QED
  BY <1>1, <1>2, <1>3, <1>4, NextCases, CreateFacts, DeliverFacts DEF IInv, TInv

\* A number that is reached stays reached: the form that stands for it takes
\* effect when it comes up.
LEMMA DeliverReached ==
  ASSUME IInv, NEW act \in pending, Deliver(act), NEW u \in Users, NEW n \in Nat,
         Known(accounts, u), IsOpen(accounts', u), Reached(accounts, pending, up, u, n)
  PROVE  Reached(accounts', pending', up', u, n)
<1>1. IsOpen(accounts, u) /\ accounts[u].seq <= accounts'[u].seq
  <2>1. Next
    BY DEF Next
  <2> QED
    BY <2>1, StepLater DEF Later
<1>2. accounts[u].seq \in Nat /\ accounts'[u].seq \in Nat
  <2>1. LP!TypeOK'
    BY StepTypes DEF Next
  <2> QED
    BY <1>1, <2>1, OpenFacts DEF LP!TypeOK, IsOpen, LP!Account
<1>3. n <= accounts'[u].seq + 1
  BY <1>1, <1>2 DEF Reached
<1>4. ASSUME up', n = accounts'[u].seq + 1
      PROVE  PendingForm(pending', u, n)
  <2>1. n = accounts[u].seq + 1
    BY <1>1, <1>2, <1>4 DEF Reached
  <2>2. up /\ Ledger!AppendTx(act)
    BY DEF Deliver, Ledger!AppendTx, Ledger!Reject, Ledger!Panic, Ledger!Fail,
       Ledger!RunCreateAccount, Ledger!RunRemoveAccount, Ledger!RunSubmitForm, Ledger!Accept
  <2>3. PICK form \in pending : form.type = "submit" /\ form.addr = u /\ form.seq = n
    BY <2>1, <2>2 DEF Reached, PendingForm
  <2>4. form # act
    <3>1. SUFFICES ASSUME form = act PROVE FALSE
      OBVIOUS
    <3>2. PendingSound(accounts, created, act) /\ act \in LP!Actions
      BY DeliverFacts
    <3>3. TakesEffect(act)
      BY <1>1, <1>4, <2>1, <2>2, <2>3, <3>1, <3>2, DueTakesEffect
         DEF PendingSound, IInv, TInv
    <3>4. accounts'[u].seq = n
      BY <2>3, <3>1, <3>3 DEF TakesEffect
    <3> QED
      BY <1>2, <1>4, <3>4
  <2>5. form \in pending'
    BY <2>3, <2>4, DeliverFacts
  <2> QED
    BY <2>3, <2>5 DEF PendingForm
<1> QED
  BY <1>3, <1>4 DEF Reached

\* A number that is reached stays so while the mempool grows.
LEMMA MoreReached ==
  ASSUME NEW acc, NEW pend, NEW more, NEW alive, NEW u, NEW n,
         pend \subseteq more, Reached(acc, pend, alive, u, n)
  PROVE  Reached(acc, more, alive, u, n)
  BY DEF Reached, PendingForm

\* What SerialInv says of the session while it is of an open account.
LEMMA NumberFacts ==
  ASSUME IInv, NumberReached(accounts, pending, up, session, job),
         session.user # NoUser, IsOpen(accounts, session.user)
  PROVE  /\ session.user \in Users
         /\ session.seq \in Nat
         /\ Known(accounts, session.user)
         /\ accounts[session.user].seq \in Nat
         /\ Reached(accounts, pending, up, session.user, session.seq)
         /\ \A h \in Handlers : job[h].at \in {"load", "store"} =>
              Reached(accounts, pending, up, session.user, session.seq + 1)
<1>1. session \in Sessions
  BY JobTypes DEF IInv, TInv
<1> QED
  BY <1>1, OpenFacts DEF NumberReached, IInv, AccountsSound, Sessions

\* Steps of the request that assign nothing and neither load nor store: the
\* number and its bounds are as before.
LEMMA QuietReached ==
  ASSUME NumberReached(accounts, pending, up, session, job), accounts' = accounts,
         up' = up, session' = session, pending \subseteq pending',
         \A h \in Handlers : job'[h].at \in {"load", "store"} =>
           job[h].at \in {"load", "store"}
  PROVE  NumberReached(accounts', pending', up', session', job')
<1>1. SUFFICES ASSUME session.user # NoUser, IsOpen(accounts, session.user)
               PROVE  /\ Reached(accounts, pending', up, session.user, session.seq)
                      /\ \A h \in Handlers : job'[h].at \in {"load", "store"} =>
                           Reached(accounts, pending', up, session.user, session.seq + 1)
  BY DEF NumberReached
<1> QED
  BY <1>1, MoreReached DEF NumberReached

\* A local step of the only request keeps the number reached.
LEMMA LocalReached ==
  ASSUME OneRequest, IInv, NEW h \in Handlers, JobFresh(session, job[h]), Local(h),
         NumberReached(accounts, pending, up, session, job)
  PROVE  NumberReached(accounts', pending', up', session', job')
<1>1. TypeOK /\ LP!TypeOK /\ Readable(accounts) /\ \A g \in Handlers : g = h
  BY DEF IInv, TInv, OneRequest
<1>2. accounts' = accounts /\ pending' = pending /\ up' = up
  BY LocalFacts
<1>3. CASE session' = session
  <2>1. job'[h].at \in {"load", "store"} => job[h].at \in {"load", "store"}
    BY <1>1, LocalMoves, LoadSequenceFacts
  <2> QED
    BY <1>1, <1>2, <1>3, <2>1, QuietReached
<1>4. CASE LoginSet(h)
  <2>1. /\ job'[h] = Idle /\ job[h].at = "login"
        /\ session'.user = job[h].user /\ session'.seq = job[h].seq
    BY <1>1, <1>4, LoginSetFacts
  <2>2. \A g \in Handlers : job'[g].at \notin {"load", "store"}
    BY <1>1, <2>1 DEF Idle
  <2>3. ASSUME job[h].user # NoUser, IsOpen(accounts, job[h].user)
        PROVE  Reached(accounts, pending, up, job[h].user, job[h].seq)
    <3>1. job[h].user \in Users /\ job[h].seq \in Nat
      BY <1>1, <2>3, JobTypes DEF Jobs
    <3>2. job[h].seq <= accounts[job[h].user].seq
      BY <2>1, <2>3 DEF IInv, AccountsSound
    <3>3. accounts[job[h].user].seq \in Nat
      BY <2>3, <3>1, OpenFacts
    <3> QED
      BY <3>1, <3>2, <3>3 DEF Reached
  <2> QED
    BY <1>2, <2>1, <2>2, <2>3 DEF NumberReached
<1>5. CASE StoreSequence(h)
  <2>1. /\ job'[h] = Idle /\ job[h].at = "store"
        /\ session'.user = session.user
        /\ session'.seq = IF job[h].logins = session.logins THEN job[h].seq + 1 ELSE session.seq
    BY <1>1, <1>5, StoreSequenceFacts
  <2>2. \A g \in Handlers : job'[g].at \notin {"load", "store"}
    BY <1>1, <2>1 DEF Idle
  <2>3. session'.seq = session.seq + 1
    BY <2>1 DEF JobFresh
  <2> QED
    BY <1>2, <2>1, <2>2, <2>3 DEF NumberReached
<1> QED
  BY <1>1, <1>3, <1>4, <1>5, LocalMoves

\* So does every step of one request at a time.
LEMMA StepReached ==
  ASSUME OneRequest, IInv, SerialInv, Next
  PROVE  NumberReached(accounts', pending', up', session', job')
<1>1. /\ TypeOK /\ LP!TypeOK /\ LP!OwnKey
      /\ \A h \in Handlers : JobSound(session, job[h]) /\ JobFresh(session, job[h])
      /\ NumberReached(accounts, pending, up, session, job)
  BY DEF IInv, TInv, SerialInv
<1>2. CASE \E h \in Handlers : Local(h)
  BY <1>1, <1>2, LocalReached
<1>3. ASSUME NEW h \in Handlers, Send(h) \/ SendUnanswered(h)
      PROVE  NumberReached(accounts', pending', up', session', job')
  <2>1. /\ job[h].at = "send" /\ accounts' = accounts /\ up' = up /\ session' = session
        /\ pending \subseteq pending'
    BY <1>1, <1>3, SendFacts
  <2>2. CASE job'[h] = Idle
    <3>1. \A g \in Handlers : job'[g].at \notin {"load", "store"}
      BY <2>2 DEF OneRequest, Idle
    <3> QED
      BY <1>1, <2>1, <3>1, QuietReached
  <2>3. CASE /\ job[h].type = "submit" /\ Ledger!Valid(Prepared(h))
             /\ pending' = pending \cup {Prepared(h)}
    <3>1. SUFFICES ASSUME session.user # NoUser, IsOpen(accounts, session.user)
                   PROVE  /\ Reached(accounts, pending', up, session.user, session.seq)
                          /\ Reached(accounts, pending', up, session.user, session.seq + 1)
      BY <2>1 DEF NumberReached
    <3>2. /\ Prepared(h) \in LP!Actions /\ HandlerMade(Prepared(h))
          /\ Prepared(h).type = "submit" /\ Prepared(h).addr = session.user /\ Prepared(h).seq = session.seq + 1
      BY <1>1, <2>1, <2>3, PreparedFacts DEF JobFresh
    <3>3. session.seq + 1 = accounts[session.user].seq + 1
      BY <1>1, <2>3, <3>2, ValidFacts
    <3>4. PendingForm(pending', session.user, session.seq + 1)
      BY <2>3, <3>2 DEF PendingForm
    <3>5. session.seq \in Nat /\ accounts[session.user].seq \in Nat
      BY <1>1, <3>1, NumberFacts
    <3> QED
      BY <3>3, <3>4, <3>5 DEF Reached
  <2> QED
    BY <1>1, <1>3, <2>2, <2>3, SendFacts
<1>4. ASSUME NEW u \in Users, CreateAccount(u)
      PROVE  NumberReached(accounts', pending', up', session', job')
  <2>1. /\ accounts' = accounts /\ up' = up /\ session' = session /\ job' = job
        /\ pending \subseteq pending'
    BY <1>1, <1>4, CreateFacts
  <2> QED
    BY <1>1, <2>1, QuietReached
<1>5. ASSUME NEW act \in pending, Deliver(act)
      PROVE  NumberReached(accounts', pending', up', session', job')
  <2>1. session' = session /\ job' = job
    BY <1>5, DeliverFacts
  <2>2. SUFFICES ASSUME session.user # NoUser, IsOpen(accounts', session.user)
                 PROVE  /\ Reached(accounts', pending', up', session.user, session.seq)
                        /\ \A h \in Handlers : job[h].at \in {"load", "store"} =>
                             Reached(accounts', pending', up', session.user, session.seq + 1)
    BY <2>1 DEF NumberReached
  <2>3. session.user \in Users /\ Known(accounts, session.user)
        /\ session.seq \in Nat /\ session.seq + 1 \in Nat
    BY <1>1, <2>2, JobTypes DEF IInv, AccountsSound, Sessions
  <2>4. IsOpen(accounts, session.user)
    BY <1>5, <2>2, <2>3, StepLater DEF Later
  <2>5. /\ Reached(accounts, pending, up, session.user, session.seq)
        /\ \A h \in Handlers : job[h].at \in {"load", "store"} =>
             Reached(accounts, pending, up, session.user, session.seq + 1)
    BY <1>1, <2>2, <2>4, NumberFacts
  <2> QED
    BY <1>5, <2>2, <2>3, <2>5, DeliverReached
<1> QED
  BY <1>2, <1>3, <1>4, <1>5, NextCases

\* Every step keeps a form beside a removal that the ledger would accept.
LEMMA StepRemovals ==
  ASSUME OneRequest, IInv, SerialInv, Next
  PROVE  RemovalsDisplace(accounts', pending', up')
<1>1. /\ TypeOK /\ LP!TypeOK /\ LP!OwnKey
      /\ \A h \in Handlers : JobSound(session, job[h]) /\ JobFresh(session, job[h])
      /\ NumberReached(accounts, pending, up, session, job)
      /\ RemovalsDisplace(accounts, pending, up)
      /\ \A act \in pending : PendingSound(accounts, created, act)
  BY DEF IInv, TInv, SerialInv
<1>2. ASSUME accounts' = accounts, up' = up, pending \subseteq pending',
             NEW act \in pending, act.type = "remove", IsOpen(accounts', act.addr)
      PROVE  Reached(accounts', pending', up', act.addr, act.seq)
  BY <1>1, <1>2, MoreReached DEF RemovalsDisplace
<1>3. CASE \E h \in Handlers : Local(h)
  BY <1>2, <1>3, LocalFacts DEF RemovalsDisplace
<1>4. ASSUME NEW h \in Handlers, Send(h) \/ SendUnanswered(h)
      PROVE  RemovalsDisplace(accounts', pending', up')
  <2>1. /\ job[h].at = "send" /\ accounts' = accounts /\ up' = up
        /\ \/ pending' = pending
           \/ pending' = pending \cup {Prepared(h)} /\ Ledger!Valid(Prepared(h))
    BY <1>1, <1>4, SendFacts
  <2>2. ASSUME Ledger!Valid(Prepared(h)), Prepared(h).type = "remove"
        PROVE  Reached(accounts, pending, up, Prepared(h).addr, Prepared(h).seq)
    <3>1. /\ Prepared(h) \in LP!Actions /\ HandlerMade(Prepared(h))
          /\ Prepared(h).addr = session.user /\ Prepared(h).seq = session.seq
          /\ session.user \in Users
      BY <1>1, <2>1, <2>2, PreparedFacts DEF JobFresh, JobSound
    <3>2. IsOpen(accounts, session.user)
      BY <1>1, <2>2, <3>1, ValidFacts
    <3> QED
      BY <1>1, <3>1, <3>2, NumberFacts, LedgerAssumption
  <2> QED
    BY <1>2, <2>1, <2>2, MoreReached DEF RemovalsDisplace
<1>5. ASSUME NEW u \in Users, CreateAccount(u)
      PROVE  RemovalsDisplace(accounts', pending', up')
  <2>1. /\ accounts' = accounts /\ up' = up
        /\ \/ pending' = pending
           \/ pending' = pending \cup {Ledger!NewAction("create", NoInfo, u, 1, u)}
    BY <1>1, <1>5, CreateFacts
  <2>2. Ledger!NewAction("create", NoInfo, u, 1, u).type # "remove"
    BY DEF Ledger!NewAction
  <2> QED
    BY <1>2, <2>1, <2>2 DEF RemovalsDisplace
<1>6. ASSUME NEW act \in pending, Deliver(act)
      PROVE  RemovalsDisplace(accounts', pending', up')
  <2>1. SUFFICES ASSUME NEW other \in pending \ {act}, other.type = "remove",
                        IsOpen(accounts', other.addr)
                 PROVE  Reached(accounts', pending', up', other.addr, other.seq)
    BY <1>6, DeliverFacts DEF RemovalsDisplace
  <2>2. Known(accounts, other.addr) /\ other.addr \in Users /\ other.seq \in Nat
    BY <1>1, <2>1, SameActions, LP!ActionFacts, LedgerAssumptions DEF PendingSound
  <2>3. IsOpen(accounts, other.addr)
    BY <1>6, <2>1, <2>2, StepLater DEF Later
  <2>4. Reached(accounts, pending, up, other.addr, other.seq)
    BY <1>1, <2>1, <2>3 DEF RemovalsDisplace
  <2> QED
    BY <1>6, <2>1, <2>2, <2>4, DeliverReached
<1> QED
  BY <1>3, <1>4, <1>5, <1>6, NextCases

\* SerialInv holds initially.
LEMMA InitSerial == Init => SerialInv
<1> SUFFICES ASSUME Init PROVE SerialInv
  OBVIOUS
<1>1. /\ pending = {} /\ session.user = NoUser /\ log = <<>>
      /\ \A h \in Handlers : job[h] = Idle
  BY DEF Init, LoggedOut, Ledger!Init
<1> QED
  BY <1>1, IdleFresh DEF SerialInv, NumberReached, RemovalsDisplace

\* Every step keeps SerialInv.
LEMMA StepSerial == OneRequest /\ IInv /\ SerialInv /\ [Next]_vars => SerialInv'
<1> SUFFICES ASSUME OneRequest, IInv, SerialInv, [Next]_vars
             PROVE  SerialInv'
  OBVIOUS
<1>1. CASE Next
  <2>1. \A h \in Handlers : JobFresh(session', job'[h])
    BY <1>1, StepFresh DEF SerialInv
  <2>2. NumberReached(accounts', pending', up', session', job')
    BY <1>1, StepReached
  <2>3. RemovalsDisplace(accounts', pending', up')
    BY <1>1, StepRemovals
  <2> QED
    BY <2>1, <2>2, <2>3 DEF SerialInv
<1>2. CASE UNCHANGED vars
  <2>1. UNCHANGED <<accounts, pending, up, session, job, log>>
    BY <1>2 DEF vars, ledger
  <2> QED
    BY <2>1 DEF SerialInv
<1> QED
  BY <1>1, <1>2

\* While requests come one at a time, SerialInv is inductive together with IInv.
THEOREM SerialInvariance ==
  ASSUME OneRequest
  PROVE  Spec => [](IInv /\ SerialInv)
<1>1. Init => IInv /\ SerialInv
  BY InitInv, InitSerial
<1>2. (IInv /\ SerialInv) /\ [Next]_vars => (IInv /\ SerialInv)'
  BY OneRequest, StepInv, StepSerial
<1> QED
  BY <1>1, <1>2, PTL DEF Spec

\* While requests come one at a time, the session is ahead of the ledger by one
\* number at most, and only with the form that explains it in the mempool.
THEOREM NumberNotStuck ==
  ASSUME OneRequest
  PROVE  Spec => []NeverStuckAhead
<1>1. IInv /\ SerialInv => NeverStuckAhead
  <2> SUFFICES ASSUME IInv, SerialInv, up, Live, session.seq > accounts[session.user].seq
               PROVE  /\ session.seq = accounts[session.user].seq + 1
                      /\ \E act \in pending : /\ act.type = "submit"
                                              /\ act.addr = session.user
                                              /\ act.seq = session.seq
    BY DEF NeverStuckAhead
  <2>1. session.user # NoUser /\ IsOpen(accounts, session.user)
    BY DEF Live, Ledger!HasAccount, IsOpen
  <2>2. /\ Reached(accounts, pending, up, session.user, session.seq)
        /\ session.seq \in Nat /\ accounts[session.user].seq \in Nat
    BY <2>1, NumberFacts DEF SerialInv
  <2> QED
    BY <2>2 DEF Reached, PendingForm
<1> QED
  BY <1>1, SerialInvariance, PTL

\* While requests come one at a time, a removal is accepted only in the place of
\* a form: the form with its number is still pending and is refused from then on.
THEOREM RemovalsCostForms ==
  ASSUME OneRequest
  PROVE  Spec => RemovalCostsForm
<1> DEFINE A == \A act \in pending :
                  Len(log') > Len(log) /\ log'[Len(log')] = act /\ act.type = "remove" =>
                    \E form \in pending' : /\ form.type = "submit"
                                           /\ form.addr = act.addr
                                           /\ form.seq = act.seq
<1>1. (IInv /\ SerialInv) /\ [Next]_vars => [A]_vars
  <2> SUFFICES ASSUME IInv, SerialInv, Next, NEW act \in pending,
                      Len(log') > Len(log), log'[Len(log')] = act, act.type = "remove"
               PROVE  \E form \in pending' : /\ form.type = "submit"
                                             /\ form.addr = act.addr
                                             /\ form.seq = act.seq
    OBVIOUS
  <2>1. log \in Seq(LP!Actions) /\ Len(log) \in Nat /\ TypeOK
    BY DEF IInv, TInv, LP!TypeOK
  <2>2. log' # log
    BY <2>1
  <2>3. PICK new \in pending : Deliver(new)
    BY <2>1, <2>2, NextCases, LocalFacts, SendFacts, CreateFacts
  <2>4. /\ TakesEffect(new) /\ new \in LP!Actions /\ pending' = pending \ {new}
    BY <2>2, <2>3, DeliverFacts
  <2>5. new = act
    BY <2>1, <2>4, AppendProperties DEF TakesEffect
  <2>6. /\ IsOpen(accounts, act.addr) /\ up
        /\ act.seq = accounts[act.addr].seq + 1
    BY <2>4, <2>5 DEF TakesEffect
  <2>7. PendingForm(pending, act.addr, act.seq)
    BY <2>6 DEF SerialInv, RemovalsDisplace, Reached
  <2> QED
    BY <2>4, <2>5, <2>7 DEF PendingForm
<1> QED
  BY <1>1, SerialInvariance, PTL DEF Spec, RemovalCostsForm

-----------------------------------------------------------------------------
(* Two requests at a time *)

\* The numbers of requests are numbers, and subsets are no larger.
LEMMA CountFacts ==
  ASSUME NEW s, NEW j, NEW n, NEW X, Counting(s, j, n) \subseteq X, X \subseteq Handlers
  PROVE  /\ Cardinality(Counting(s, j, n)) \in Nat
         /\ Cardinality(Handlers) \in Nat
         /\ Cardinality(X) \in Nat
         /\ Cardinality(Counting(s, j, n)) <= Cardinality(X)
         /\ Cardinality(X) <= Cardinality(Handlers)
<1>1. IsFiniteSet(Handlers)
  BY SessionAssumption
<1>2. IsFiniteSet(X) /\ Cardinality(X) <= Cardinality(Handlers)
  BY <1>1, FS_Subset
<1>3. /\ IsFiniteSet(Counting(s, j, n))
      /\ Cardinality(Counting(s, j, n)) <= Cardinality(X)
  BY <1>2, FS_Subset
<1> QED
  BY <1>1, <1>2, <1>3, FS_CardinalityType

\* A number the ledger may be at counts all requests.
LEMMA EvenBounded ==
  ASSUME NEW s \in Sessions, NEW j \in [Handlers -> Jobs], NEW n \in Nat, s.seq <= n,
         \A h \in Handlers : WillStore(s, j[h]) => j[h].seq <= n
  PROVE  Bounded(s, j, n)
<1>1. Counting(s, j, n) \subseteq Handlers
  BY DEF Counting
<1>2. /\ Cardinality(Counting(s, j, n)) \in Nat /\ Cardinality(Handlers) \in Nat
      /\ Cardinality(Counting(s, j, n)) <= Cardinality(Handlers)
  BY <1>1, CountFacts
<1>3. s.seq \in Nat /\ \A h \in Handlers : j[h].seq \in Nat
  BY DEF Sessions, Jobs
<1> QED
  BY <1>2, <1>3 DEF Bounded

\* A request that does not begin to count keeps the bound.
LEMMA QuietBounded ==
  ASSUME TInv, NEW h \in Handlers, NEW n \in Nat, Bounded(session, job, n),
         session' = session, job' \in [Handlers -> Jobs],
         \A g \in Handlers \ {h} : job'[g] = job[g],
         MayCount(session, job'[h], n) => MayCount(session, job[h], n),
         WillStore(session, job'[h]) => job'[h].seq = session.seq
  PROVE  Bounded(session', job', n)
<1>1. Counting(session', job', n) \subseteq Counting(session, job, n)
  BY DEF Counting
<1>2. Counting(session, job, n) \subseteq Handlers
  BY DEF Counting
<1>3. /\ Cardinality(Counting(session', job', n)) \in Nat
      /\ Cardinality(Counting(session, job, n)) \in Nat
      /\ Cardinality(Handlers) \in Nat
      /\ Cardinality(Counting(session', job', n)) <= Cardinality(Counting(session, job, n))
  BY <1>1, <1>2, CountFacts
<1>4. session.seq \in Nat /\ \A g \in Handlers : job[g].seq \in Nat /\ job'[g].seq \in Nat
  BY JobTypes DEF TInv, Sessions, Jobs
<1>5. session'.seq + Cardinality(Counting(session', job', n)) <= n + Cardinality(Handlers)
  BY <1>3, <1>4 DEF Bounded
<1>6. ASSUME NEW g \in Handlers, WillStore(session', job'[g])
      PROVE  job'[g].seq + Cardinality(Counting(session', job', n)) <= n + Cardinality(Handlers)
  <2>1. CASE g = h
    BY <1>5, <1>6, <2>1
  <2>2. CASE g # h
    <3>1. job[g].seq + Cardinality(Counting(session, job, n)) <= n + Cardinality(Handlers)
      BY <1>6, <2>2 DEF Bounded
    <3>2. job'[g].seq = job[g].seq
      BY <2>2
    <3> QED
      BY <1>3, <1>4, <3>1, <3>2
  <2> QED
    BY <2>1, <2>2
<1> QED
  BY <1>5, <1>6 DEF Bounded

\* The increment of a request uses up what it counted for.
LEMMA StoreBounded ==
  ASSUME TInv, NEW h \in Handlers, StoreSequence(h), job[h].logins = session.logins,
         NEW n \in Nat, Bounded(session, job, n)
  PROVE  Bounded(session', job', n)
<1>1. /\ job'[h] = Idle /\ job[h].at = "store" /\ job' \in [Handlers -> Jobs]
      /\ session'.seq = job[h].seq + 1
      /\ session'.user = session.user /\ session'.logins = session.logins
      /\ \A g \in Handlers \ {h} : job'[g] = job[g]
  BY StoreSequenceFacts DEF TInv, Moves
<1>2. Counting(session', job', n) \subseteq Counting(session, job, n) \ {h}
  BY <1>1 DEF Counting, MayCount, Idle
<1>3. h \in Counting(session, job, n)
  BY <1>1 DEF Counting, MayCount, TInv, JobSound
<1>4. Counting(session, job, n) \subseteq Handlers
  BY DEF Counting
<1>5. IsFiniteSet(Counting(session, job, n))
  BY <1>4, SessionAssumption, FS_Subset
<1>6. /\ Cardinality(Counting(session, job, n)) \in Nat
      /\ Cardinality(Counting(session, job, n) \ {h}) = Cardinality(Counting(session, job, n)) - 1
  BY <1>3, <1>5, FS_CardinalityType, FS_RemoveElement
<1>7. /\ Cardinality(Counting(session', job', n)) \in Nat
      /\ Cardinality(Handlers) \in Nat
      /\ Cardinality(Counting(session', job', n)) <= Cardinality(Counting(session, job, n)) - 1
  BY <1>2, <1>4, <1>6, CountFacts
<1>8. \A g \in Handlers : job[g].seq \in Nat
  BY JobTypes DEF TInv, Jobs
<1>9. session'.seq + Cardinality(Counting(session', job', n)) <= n + Cardinality(Handlers)
  <2>1. job[h].seq + Cardinality(Counting(session, job, n)) <= n + Cardinality(Handlers)
    BY <1>1 DEF Bounded, WillStore
  <2> QED
    BY <1>1, <1>6, <1>7, <1>8, <2>1
<1>10. ASSUME NEW g \in Handlers, WillStore(session', job'[g])
       PROVE  job'[g].seq + Cardinality(Counting(session', job', n)) <= n + Cardinality(Handlers)
  <2>1. g # h
    BY <1>1, <1>10 DEF WillStore, Idle
  <2>2. job[g].seq + Cardinality(Counting(session, job, n)) <= n + Cardinality(Handlers)
    BY <1>1, <1>10, <2>1 DEF Bounded, WillStore
  <2> QED
    BY <1>1, <1>6, <1>7, <1>8, <2>1, <2>2
<1> QED
  BY <1>9, <1>10 DEF Bounded

\* A request that leaves the session alone may count from the moment it
\* prepares a number on, and then does so where the ledger has reached it.
LEMMA LocalQuiet ==
  ASSUME TInv, NEW h \in Handlers, Local(h), ~LoginSet(h), ~StoreSequence(h), NEW n \in Nat
  PROVE  /\ session' = session
         /\ MayCount(session, job'[h], n) => MayCount(session, job[h], n) \/ session.seq <= n
         /\ WillStore(session, job'[h]) => job'[h].seq = session.seq
         /\ Catching(accounts, session, job[h]) => Catching(accounts, session, job'[h])
<1>1. TypeOK /\ LP!TypeOK /\ Readable(accounts) /\ session' = session /\ session.seq \in Nat
  BY LocalMoves, JobTypes DEF TInv, Sessions
<1>2. ASSUME job'[h].at \in {"idle", "login", "form", "user"}
      PROVE  /\ ~MayCount(session, job'[h], n)
             /\ ~WillStore(session, job'[h])
             /\ Catching(accounts, session, job'[h])
  BY <1>2 DEF MayCount, WillStore, Catching
<1>3. CASE \/ \E u \in Users : LoginQuery(h, u)
           \/ \E form \in Forms : FillForm(h, form)
           \/ BeginRemove(h) \/ BeginSubmit(h) \/ Panic(h)
  <2>1. job'[h].at \in {"idle", "login", "form", "user"}
    BY <1>1, <1>3, LoginQueryFacts, FillFormFacts, BeginRemoveFacts, BeginSubmitFacts,
       PanicFacts DEF Moves
  <2> QED
    BY <1>1, <1>2, <2>1
<1>4. CASE PrepareUser(h)
  <2>1. job'[h].at = "seq" /\ job'[h].user = session.user
    BY <1>1, <1>4, PrepareUserFacts DEF Moves
  <2> QED
    BY <1>1, <2>1 DEF MayCount, WillStore, Catching
<1>5. CASE PrepareSeq(h)
  <2>1. /\ job'[h].at = "key" /\ job[h].at = "seq"
        /\ job'[h].user = job[h].user /\ job'[h].type = job[h].type
        /\ job'[h].seq = IF job[h].type = "submit" THEN session.seq + 1 ELSE session.seq
    BY <1>1, <1>5, PrepareSeqFacts DEF Moves
  <2>2. job[h].type = "submit" /\ session.seq + 1 <= n + 1 => session.seq <= n
    BY <1>1
  <2> QED
    BY <1>1, <2>1, <2>2 DEF MayCount, WillStore, Catching
<1>6. CASE Sign(h)
  <2>1. /\ job'[h].at = "send" /\ job[h].at = "key"
        /\ job'[h].user = job[h].user /\ job'[h].type = job[h].type
        /\ job'[h].seq = job[h].seq
    BY <1>1, <1>6, SignFacts DEF Moves
  <2> QED
    BY <1>1, <2>1 DEF MayCount, WillStore, Catching
<1>7. CASE LoadSequence(h)
  <2>1. /\ job'[h].at = "store" /\ job[h].at = "load" /\ job'[h].type = job[h].type
        /\ job'[h].seq = session.seq
    BY <1>1, <1>7, LoadSequenceFacts DEF Moves
  <2> QED
    BY <1>1, <2>1 DEF MayCount, WillStore, Catching
<1> QED
  BY <1>3, <1>4, <1>5, <1>6, <1>7 DEF Local

\* Sending begins no count: a form that the node takes bears the number after
\* that of the ledger, or is of another account.
LEMMA SendQuiet ==
  ASSUME IInv, NEW h \in Handlers, Send(h) \/ SendUnanswered(h), NEW n \in Nat,
         IsOpen(accounts, session.user), n >= accounts[session.user].seq
  PROVE  /\ MayCount(session, job'[h], n) => MayCount(session, job[h], n)
         /\ ~WillStore(session, job'[h])
         /\ Catching(accounts, session, job[h]) => Catching(accounts, session, job'[h])
<1>1. /\ TypeOK /\ LP!TypeOK /\ LP!OwnKey /\ JobSound(session, job[h])
      /\ session.seq \in Nat /\ job[h].seq \in Nat
  BY JobTypes DEF IInv, TInv, Sessions, Jobs
<1>2. job[h].at = "send"
  BY <1>1, SendFacts
<1>3. CASE job'[h] = Idle
  BY <1>3 DEF MayCount, WillStore, Catching, Idle
<1>4. CASE /\ Moves(h, "load") /\ job[h].type = "submit" /\ Ledger!Valid(Prepared(h))
  <2>1. job'[h].at = "load"
    BY <1>4 DEF Moves
  <2>2. ASSUME job[h].user = session.user
        PROVE  job[h].seq = accounts[session.user].seq + 1
    <3>1. /\ Prepared(h) \in LP!Actions /\ HandlerMade(Prepared(h))
          /\ Prepared(h).type = "submit"
          /\ Prepared(h).addr = session.user /\ Prepared(h).seq = job[h].seq
      BY <1>1, <1>2, <1>4, <2>2, PreparedFacts
    <3> QED
      BY <1>1, <1>4, <3>1, ValidFacts
  <2>3. session.user = job[h].user => accounts[session.user].seq \in Nat
    BY <1>1, <1>2, OpenFacts DEF JobSound
  <2>4. MayCount(session, job[h], n)
    BY <1>1, <1>2, <1>4, <2>2, <2>3 DEF MayCount
  <2>5. Catching(accounts, session, job[h]) => session.seq <= accounts[session.user].seq
    BY <1>1, <1>2, <1>4, <2>2, <2>3 DEF Catching
  <2> QED
    BY <2>1, <2>4, <2>5 DEF WillStore, Catching
<1> QED
  BY <1>1, <1>3, <1>4, SendFacts

\* A request has not seen a later login than the last one.
LEMMA StepLogins ==
  ASSUME TInv, Next, \A g \in Handlers : job[g].logins <= session.logins
  PROVE  \A g \in Handlers : job'[g].logins <= session'.logins
<1>1. /\ TypeOK /\ LP!TypeOK /\ Readable(accounts) /\ session.logins \in Nat
      /\ \A g \in Handlers : job[g].logins \in Nat
  BY JobTypes DEF TInv, Sessions, Jobs
<1>2. ASSUME NEW h \in Handlers, \A g \in Handlers \ {h} : job'[g] = job[g],
             job'[h].logins \in {0, job[h].logins, session.logins},
             session'.logins \in {session.logins, session.logins + 1}
      PROVE  \A g \in Handlers : job'[g].logins <= session'.logins
  <2>1. ASSUME NEW g \in Handlers
        PROVE  job'[g].logins \in {0, job[g].logins, session.logins}
    BY <1>2
  <2>2. ASSUME NEW g \in Handlers
        PROVE  job'[g].logins <= session'.logins
    <3>1. job'[g].logins \in {0, job[g].logins, session.logins} /\ job[g].logins <= session.logins
      BY <2>1
    <3> QED
      BY <1>1, <1>2, <3>1
  <2> QED
    BY <2>2
<1>3. ASSUME NEW h \in Handlers, Local(h)
      PROVE  job'[h].logins \in {0, job[h].logins, session.logins}
  <2>1. Idle.logins = 0
    BY DEF Idle
  <2> QED
    BY <1>1, <1>3, <2>1, LoginQueryFacts, FillFormFacts, LoginSetFacts, BeginRemoveFacts,
       BeginSubmitFacts, PanicFacts, PrepareUserFacts, PrepareSeqFacts, SignFacts,
       LoadSequenceFacts, StoreSequenceFacts DEF Local
<1>4. ASSUME NEW h \in Handlers, Local(h)
      PROVE  session'.logins \in {session.logins, session.logins + 1}
  BY <1>1, <1>4, LocalMoves, LoginSetFacts, StoreSequenceFacts
<1>5. ASSUME NEW h \in Handlers, Send(h) \/ SendUnanswered(h)
      PROVE  /\ job'[h].logins \in {0, job[h].logins} /\ session' = session
             /\ \A g \in Handlers \ {h} : job'[g] = job[g]
  <2>1. Idle.logins = 0 /\ [job[h] EXCEPT !.at = "load"].logins = job[h].logins
    BY <1>1, JobTypes DEF Idle, Jobs
  <2> QED
    BY <1>1, <1>5, <2>1, SendFacts DEF Moves
<1>6. CASE \E h \in Handlers : Local(h)
  BY <1>1, <1>2, <1>3, <1>4, <1>6, LocalMoves
<1>7. CASE \E h \in Handlers : Send(h) \/ SendUnanswered(h)
  BY <1>2, <1>5, <1>7
<1>8. CASE session' = session /\ job' = job
  BY <1>8
<1> QED
  BY <1>1, <1>6, <1>7, <1>8, NextCases, CreateFacts DEF Deliver

\* A request that only moves on keeps the bounds, if it begins to count and to
\* store with numbers that the session has.
LEMMA QuietWithin ==
  ASSUME IInv, NEW h \in Handlers, WithinBounds(accounts, session, job),
         session' = session, accounts' = accounts, job' \in [Handlers -> Jobs],
         \A g \in Handlers \ {h} : job'[g] = job[g],
         IsOpen(accounts, session.user) =>
           \A n \in Nat : n >= accounts[session.user].seq =>
             (MayCount(session, job'[h], n) =>
                MayCount(session, job[h], n) \/ session.seq <= n),
         WillStore(session, job'[h]) => job'[h].seq = session.seq,
         Catching(accounts, session, job[h]) => Catching(accounts, session, job'[h])
  PROVE  WithinBounds(accounts', session', job')
<1> SUFFICES ASSUME session.user # NoUser, IsOpen(accounts, session.user)
             PROVE  /\ \A n \in Nat : n >= accounts[session.user].seq =>
                         Bounded(session', job', n)
                    /\ NewIsReached(accounts, session, job')
                    /\ OldIsAlone(accounts, session, job')
  BY DEF WithinBounds
<1>1. /\ \A n \in Nat : n >= accounts[session.user].seq => Bounded(session, job, n)
      /\ NewIsReached(accounts, session, job)
      /\ OldIsAlone(accounts, session, job)
  BY DEF WithinBounds
<1>2. /\ session \in Sessions /\ session.seq \in Nat /\ accounts[session.user].seq \in Nat
      /\ \A g \in Handlers : job[g].seq \in Nat
  <2>1. session.user \in Users /\ session \in Sessions /\ \A g \in Handlers : job[g] \in Jobs
    BY JobTypes DEF IInv, TInv, Sessions
  <2> QED
    BY <2>1, OpenFacts DEF Sessions, Jobs
<1>3. ASSUME NEW n \in Nat, n >= accounts[session.user].seq
      PROVE  Bounded(session', job', n)
  <2>1. CASE MayCount(session, job'[h], n) => MayCount(session, job[h], n)
    BY <1>1, <1>3, <2>1, QuietBounded DEF IInv
  <2>2. CASE session.seq <= n
    <3>1. ASSUME NEW g \in Handlers, WillStore(session, job'[g])
          PROVE  job'[g].seq <= n
      <4>1. CASE g = h
        BY <2>2, <3>1, <4>1
      <4>2. CASE g # h
        <5>1. job'[g] = job[g]
          BY <4>2
        <5>2. job[g].seq > session.seq => job[g].seq <= accounts[session.user].seq
          BY <1>1, <3>1, <5>1 DEF NewIsReached
        <5> QED
          BY <1>2, <1>3, <2>2, <5>1, <5>2
      <4> QED
        BY <4>1, <4>2
    <3> QED
      BY <1>2, <2>2, <3>1, EvenBounded
  <2> QED
    BY <1>3, <2>1, <2>2
<1>4. NewIsReached(accounts, session, job')
  BY <1>1, <1>2 DEF NewIsReached
<1>5. OldIsAlone(accounts, session, job')
  <2> SUFFICES ASSUME NEW f \in Handlers, NEW g \in Handlers, f # g,
                      WillStore(session, job'[f]), job'[f].seq + 1 < session.seq
               PROVE  Catching(accounts, session, job'[g])
    BY DEF OldIsAlone
  <2>1. f # h
    BY <1>2
  <2>2. Catching(accounts, session, job[g])
    BY <1>1, <2>1 DEF OldIsAlone
  <2> QED
    BY <2>2
<1> QED
  BY <1>3, <1>4, <1>5

\* A login brings a number of the ledger, and no store of before it is seen.
LEMMA LoginWithin ==
  ASSUME IInv, NEW h \in Handlers, LoginSet(h), accounts' = accounts,
         \A g \in Handlers : job[g].logins <= session.logins
  PROVE  WithinBounds(accounts', session', job')
<1> SUFFICES ASSUME session'.user # NoUser, IsOpen(accounts, session'.user)
             PROVE  /\ \A n \in Nat : n >= accounts[session'.user].seq =>
                         Bounded(session', job', n)
                    /\ NewIsReached(accounts, session', job')
                    /\ OldIsAlone(accounts, session', job')
  BY DEF WithinBounds
<1>1. /\ session' \in Sessions /\ session'.logins = session.logins + 1
      /\ session'.user = job[h].user /\ session'.seq = job[h].seq /\ job[h].at = "login"
      /\ job'[h] = Idle /\ job' \in [Handlers -> Jobs]
      /\ \A g \in Handlers \ {h} : job'[g] = job[g]
  BY LoginSetFacts DEF IInv, TInv, Moves
<1>2. session.logins \in Nat /\ \A g \in Handlers : job[g].logins \in Nat
  BY JobTypes DEF IInv, TInv, Sessions, Jobs
<1>3. ASSUME NEW g \in Handlers
      PROVE  ~WillStore(session', job'[g])
  <2>1. CASE g = h
    BY <1>1, <2>1 DEF WillStore, Idle
  <2>2. CASE g # h
    <3>1. job'[g] = job[g] /\ job[g].logins <= session.logins
      BY <1>1, <2>2
    <3> QED
      BY <1>1, <1>2, <3>1 DEF WillStore
  <2> QED
    BY <2>1, <2>2
<1>4. session'.seq <= accounts[session'.user].seq
  BY <1>1 DEF IInv, AccountsSound
<1>5. session'.seq \in Nat /\ session'.user \in Users /\ accounts[session'.user].seq \in Nat
  <2>1. session'.seq \in Nat /\ session'.user \in Users
    BY <1>1 DEF Sessions
  <2> QED
    BY <2>1, OpenFacts
<1>6. ASSUME NEW n \in Nat, n >= accounts[session'.user].seq
      PROVE  Bounded(session', job', n)
  <2>1. session'.seq <= n
    BY <1>4, <1>5, <1>6
  <2> QED
    BY <1>1, <1>3, <2>1, EvenBounded
<1> QED
  BY <1>3, <1>6 DEF NewIsReached, OldIsAlone

\* An increment keeps the bounds.  Where it takes the session back, the number of
\* the other request is one that the ledger has reached.
LEMMA StoreWithin ==
  ASSUME TwoRequests, IInv, NEW h \in Handlers, StoreSequence(h), accounts' = accounts,
         job[h].logins = session.logins, WithinBounds(accounts, session, job)
  PROVE  WithinBounds(accounts', session', job')
<1>1. /\ TInv
      /\ job[h].at = "store" /\ job'[h] = Idle
      /\ session'.user = session.user /\ session'.logins = session.logins
      /\ session'.seq = job[h].seq + 1
      /\ \A g \in Handlers \ {h} : job'[g] = job[g]
  BY StoreSequenceFacts DEF IInv, TInv, Moves
<1> SUFFICES ASSUME session.user # NoUser, IsOpen(accounts, session.user)
             PROVE  /\ \A n \in Nat : n >= accounts[session.user].seq =>
                         Bounded(session', job', n)
                    /\ NewIsReached(accounts, session', job')
                    /\ OldIsAlone(accounts, session', job')
  BY <1>1 DEF WithinBounds
<1>2. /\ \A n \in Nat : n >= accounts[session.user].seq => Bounded(session, job, n)
      /\ NewIsReached(accounts, session, job)
      /\ OldIsAlone(accounts, session, job)
  BY DEF WithinBounds
<1>3. session.seq \in Nat /\ \A g \in Handlers : job[g].seq \in Nat
  BY <1>1, JobTypes DEF TInv, Sessions, Jobs
<1>4. \A n \in Nat : n >= accounts[session.user].seq => Bounded(session', job', n)
  BY <1>1, <1>2, StoreBounded
<1>5. NewIsReached(accounts, session', job')
  <2> SUFFICES ASSUME NEW g \in Handlers, WillStore(session', job'[g]), job'[g].seq > session'.seq
               PROVE  job'[g].seq <= accounts[session.user].seq
    BY <1>1 DEF NewIsReached
  <2>1. g # h
    BY <1>1 DEF WillStore, Idle
  <2>2. job'[g] = job[g] /\ WillStore(session, job[g])
    BY <1>1, <2>1 DEF WillStore
  <2>3. CASE job[g].seq > session.seq
    BY <1>2, <2>2, <2>3 DEF NewIsReached
  <2>4. CASE ~(job[g].seq > session.seq)
    <3>1. job[h].seq + 1 < session.seq
      BY <1>1, <1>3, <2>2, <2>4
    <3>2. WillStore(session, job[h])
      BY <1>1 DEF WillStore
    <3>3. Catching(accounts, session, job[g])
      BY <1>2, <2>1, <3>1, <3>2 DEF OldIsAlone
    <3> QED
      BY <2>2, <3>3 DEF Catching
  <2> QED
    BY <2>3, <2>4
<1>6. OldIsAlone(accounts, session', job')
  <2> SUFFICES ASSUME NEW f \in Handlers, NEW g \in Handlers, f # g, WillStore(session', job'[f])
               PROVE  Catching(accounts, session', job'[g])
    BY DEF OldIsAlone
  <2>1. f # h
    BY <1>1 DEF WillStore, Idle
  <2>2. g = h
    BY <2>1 DEF TwoRequests
  <2> QED
    BY <1>1, <2>2 DEF Catching, WillStore, Idle
<1> QED
  BY <1>4, <1>5, <1>6

\* The ledger moving on keeps the bounds.
LEMMA LaterWithin ==
  ASSUME IInv, Next, WithinBounds(accounts, session, job), session' = session, job' = job
  PROVE  WithinBounds(accounts', session', job')
<1> SUFFICES ASSUME session.user # NoUser, IsOpen(accounts', session.user)
             PROVE  /\ \A n \in Nat : n >= accounts'[session.user].seq => Bounded(session, job, n)
                    /\ NewIsReached(accounts', session, job)
                    /\ OldIsAlone(accounts', session, job)
  BY DEF WithinBounds
<1>1. session.user \in Users /\ session.seq \in Nat /\ \A g \in Handlers : job[g].seq \in Nat
  BY JobTypes DEF IInv, TInv, Sessions, Jobs
<1>2. /\ IsOpen(accounts, session.user)
      /\ accounts[session.user].seq <= accounts'[session.user].seq
  BY <1>1, StepLater DEF IInv, AccountsSound, Later
<1>3. accounts[session.user].seq \in Nat /\ accounts'[session.user].seq \in Nat
  BY <1>1, <1>2, StepTypes, OpenFacts DEF LP!TypeOK, IsOpen, LP!Account
<1>4. /\ \A n \in Nat : n >= accounts[session.user].seq => Bounded(session, job, n)
      /\ NewIsReached(accounts, session, job)
      /\ OldIsAlone(accounts, session, job)
  BY <1>2 DEF WithinBounds
<1>5. ASSUME NEW n \in Nat, n >= accounts'[session.user].seq
      PROVE  Bounded(session, job, n)
  <2>1. n >= accounts[session.user].seq
    BY <1>2, <1>3, <1>5
  <2> QED
    BY <1>4, <2>1
<1>6. NewIsReached(accounts', session, job)
  BY <1>1, <1>2, <1>3, <1>4 DEF NewIsReached
<1>7. ASSUME NEW g \in Handlers, Catching(accounts, session, job[g])
      PROVE  Catching(accounts', session, job[g])
  BY <1>1, <1>2, <1>3, <1>7 DEF Catching
<1>8. OldIsAlone(accounts', session, job)
  BY <1>4, <1>7 DEF OldIsAlone
<1> QED
  BY <1>5, <1>6, <1>8

\* Every step of two requests keeps the bounds.
LEMMA StepWithin ==
  ASSUME TwoRequests, IInv, OverlapInv, Next
  PROVE  WithinBounds(accounts', session', job')
<1>1. /\ TInv /\ TypeOK /\ LP!TypeOK /\ Readable(accounts) /\ WithinBounds(accounts, session, job)
      /\ \A g \in Handlers : job[g].logins <= session.logins
      /\ session \in Sessions
  BY JobTypes DEF IInv, TInv, OverlapInv
<1>2. ASSUME NEW h \in Handlers, Local(h)
      PROVE  WithinBounds(accounts', session', job')
  <2>1. /\ accounts' = accounts /\ job' \in [Handlers -> Jobs]
        /\ \A g \in Handlers \ {h} : job'[g] = job[g]
    BY <1>1, <1>2, LocalFacts, LocalMoves, LocalJobs
  <2>2. CASE LoginSet(h)
    BY <1>1, <2>1, <2>2, LoginWithin
  <2>3. CASE StoreSequence(h) /\ job[h].logins = session.logins
    BY <1>1, <2>1, <2>3, StoreWithin
  <2>4. CASE StoreSequence(h) /\ job[h].logins # session.logins
    <3>1. job'[h] = Idle /\ session' = session
      BY <1>1, <2>4, StoreSequenceFacts DEF StoreSequence
    <3>2. /\ ~WillStore(session, job'[h]) /\ Catching(accounts, session, job'[h])
          /\ \A n : ~MayCount(session, job'[h], n)
      BY <3>1 DEF WillStore, Catching, MayCount, Idle
    <3> QED
      BY <1>1, <2>1, <3>1, <3>2, QuietWithin
  <2>5. CASE ~LoginSet(h) /\ ~StoreSequence(h)
    <3>1. \A n \in Nat :
            MayCount(session, job'[h], n) => MayCount(session, job[h], n) \/ session.seq <= n
      BY <1>1, <1>2, <2>5, LocalQuiet
    <3>2. /\ session' = session
          /\ WillStore(session, job'[h]) => job'[h].seq = session.seq
          /\ Catching(accounts, session, job[h]) => Catching(accounts, session, job'[h])
      BY <1>1, <1>2, <2>5, LocalQuiet
    <3> QED
      BY <1>1, <2>1, <3>1, <3>2, QuietWithin
  <2> QED
    BY <2>2, <2>3, <2>4, <2>5
<1>3. ASSUME NEW h \in Handlers, Send(h) \/ SendUnanswered(h)
      PROVE  WithinBounds(accounts', session', job')
  <2>1. /\ accounts' = accounts /\ session' = session /\ job' \in [Handlers -> Jobs]
        /\ \A g \in Handlers \ {h} : job'[g] = job[g]
    BY <1>1, <1>3, SendFacts, SendJobs DEF Moves
  <2>2. CASE session.user # NoUser /\ IsOpen(accounts, session.user)
    <3>1. \A n \in Nat : n >= accounts[session.user].seq =>
            (MayCount(session, job'[h], n) => MayCount(session, job[h], n))
      BY <1>3, <2>2, SendQuiet
    <3>2. accounts[session.user].seq \in Nat /\ accounts[session.user].seq >= accounts[session.user].seq
      <4>1. session.user \in Users
        BY <1>1, <2>2 DEF Sessions
      <4>2. accounts[session.user].seq \in Nat
        BY <2>2, <4>1, OpenFacts
      <4> QED
        BY <4>2
    <3>3. /\ ~WillStore(session, job'[h])
          /\ Catching(accounts, session, job[h]) => Catching(accounts, session, job'[h])
      BY <1>3, <2>2, <3>2, SendQuiet
    <3> QED
      BY <1>1, <2>1, <3>1, <3>3, QuietWithin
  <2>3. CASE ~(session.user # NoUser /\ IsOpen(accounts, session.user))
    BY <2>1, <2>3 DEF WithinBounds
  <2> QED
    BY <2>2, <2>3
<1>4. CASE session' = session /\ job' = job
  BY <1>1, <1>4, LaterWithin
<1> QED
  BY <1>1, <1>2, <1>3, <1>4, NextCases, CreateFacts DEF Deliver

\* OverlapInv holds initially.
LEMMA InitOverlap == Init => OverlapInv
<1> SUFFICES ASSUME Init PROVE OverlapInv
  OBVIOUS
<1>1. session.user = NoUser /\ session.logins = 0 /\ \A h \in Handlers : job[h].logins = 0
  BY DEF Init, LoggedOut, Idle
<1> QED
  BY <1>1 DEF OverlapInv, WithinBounds

\* Every step keeps OverlapInv.
LEMMA StepOverlap == TwoRequests /\ IInv /\ OverlapInv /\ [Next]_vars => OverlapInv'
<1> SUFFICES ASSUME TwoRequests, IInv, OverlapInv, [Next]_vars
             PROVE  OverlapInv'
  OBVIOUS
<1>1. CASE Next
  BY <1>1, StepLogins, StepWithin DEF OverlapInv, IInv
<1>2. CASE UNCHANGED vars
  <2>1. UNCHANGED <<accounts, session, job>>
    BY <1>2 DEF vars, ledger
  <2> QED
    BY <2>1 DEF OverlapInv
<1> QED
  BY <1>1, <1>2

\* While no more than two requests overlap, OverlapInv is inductive together
\* with IInv.
THEOREM OverlapInvariance ==
  ASSUME TwoRequests
  PROVE  Spec => [](IInv /\ OverlapInv)
<1>1. Init => IInv /\ OverlapInv
  BY InitInv, InitOverlap
<1>2. (IInv /\ OverlapInv) /\ [Next]_vars => (IInv /\ OverlapInv)'
  BY TwoRequests, StepInv, StepOverlap
<1> QED
  BY <1>1, <1>2, PTL DEF Spec

\* While no more than two requests overlap, the session is ahead of the ledger
\* by no more numbers than there are requests, whatever increments of
\* m.acc.Sequence are lost.
THEOREM AheadAtMostRequests ==
  ASSUME TwoRequests
  PROVE  Spec => []AheadByHandlers
<1>1. IInv /\ OverlapInv => AheadByHandlers
  <2> SUFFICES ASSUME IInv, OverlapInv, Live
               PROVE  session.seq <= accounts[session.user].seq + Cardinality(Handlers)
    BY DEF AheadByHandlers
  <2> DEFINE n == accounts[session.user].seq
  <2>1. session.user # NoUser /\ IsOpen(accounts, session.user)
    BY DEF Live, Ledger!HasAccount, IsOpen
  <2>2. session.user \in Users /\ session.seq \in Nat
    BY <2>1, JobTypes DEF IInv, TInv, Sessions
  <2>3. n \in Nat
    BY <2>1, <2>2, OpenFacts
  <2>4. Bounded(session, job, n)
    BY <2>1, <2>3 DEF OverlapInv, WithinBounds
  <2>5. Counting(session, job, n) \subseteq Handlers
    BY DEF Counting
  <2>6. Cardinality(Counting(session, job, n)) \in Nat /\ Cardinality(Handlers) \in Nat
    BY <2>5, CountFacts
  <2> HIDE DEF n
  <2>7. session.seq <= n + Cardinality(Handlers)
    BY <2>2, <2>3, <2>4, <2>6 DEF Bounded
  <2> QED
    BY <2>7 DEF n
<1> QED
  BY <1>1, OverlapInvariance, PTL

=============================================================================
