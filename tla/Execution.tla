------------------------------ MODULE Execution ------------------------------
(***************************************************************************)
(* The replicated application: state/execution.go and state/state.go as    *)
(* app/app.go drives them for the TMSP requests CheckTx and AppendTx, over *)
(* the Merkle store of app/merkle.go reached through app/client.go.        *)
(*                                                                         *)
(* The TMSP server holds one mutex for the length of a request, so a       *)
(* request is one step: the action is validated, run against a write-back  *)
(* cache, and the cache is written to the store when the run succeeded and *)
(* dropped when it failed.  The filters are not behind that cache.         *)
(*                                                                         *)
(* A user stands for a key pair, for its public key, for the address of    *)
(* that key, and for the key of its account record in the store.           *)
(***************************************************************************)
EXTENDS Integers, Sequences

CONSTANTS
  Users,        \* the key pairs that sign actions
  Genesis,      \* the users with an account in the genesis file
  FormIDs,      \* form identifiers that are not the key of an account record
  ContentIDs,   \* content identifiers of forms
  IssueNames,   \* the issues a form can name
  Issues,       \* the issues of the genesis file: each of them has a filter
  Infos,        \* the form infos that actions carry
  SeqNos,       \* the sequence numbers that actions carry
  MaxLog,       \* bound: how many actions the ledger accepts
  NoUser,       \* a public key that is nil, an address that is not 20 bytes
  NoInfo,       \* action data that does not decode to an Info
  Absent,       \* what the store answers for a key it does not hold
  Removed       \* the encoding of a nil account

Account == [pubKey : Users, seq : Nat, formIDs : Seq(FormIDs \cup Users)]

ASSUME ConstantsAssumption ==
  /\ Genesis \subseteq Users
  /\ Issues \subseteq IssueNames
  /\ Infos \subseteq [id : FormIDs \cup Users, cid : ContentIDs, issue : IssueNames,
                      submitter : Users]
  /\ FormIDs \cap Users = {}
  /\ SeqNos \subseteq Nat
  /\ MaxLog \in Nat
  /\ NoUser \notin Users
  /\ NoInfo \notin Infos

ASSUME MarkersAssumption ==
  /\ Absent \notin ContentIDs
  /\ Removed \notin ContentIDs
  /\ ContentIDs \cap Account = {}
  /\ Absent \notin Account
  /\ Removed \notin Account
  /\ Absent # Removed

VARIABLES
  accounts,     \* what the store holds at the keys of account records
  forms,        \* what it holds at other form identifiers: a content identifier
  filters,      \* the identifiers added to the filter of each issue
  up,           \* the process has not panicked
  res,          \* the response to the last request
  log           \* history: the actions AppendTx has accepted, in order

store == <<accounts, forms, filters>>
vars  == <<accounts, forms, filters, up, res, log>>

-----------------------------------------------------------------------------
(* Actions: types/action.go *)

ActionTypes == {"create", "remove", "submit", "other"}

Payloads(type) == IF type = "submit" THEN Infos \cup {NoInfo} ELSE {NoInfo}

(***************************************************************************)
(* The program checks none of an action's parts against another: address,  *)
(* public key and key that signs may be of three users, and the identifier *)
(* of a form is whatever bytes the info carries.                           *)
(***************************************************************************)
Actions ==
  UNION {[type : {t}, data : Payloads(t), addr : Users \cup {NoUser}, seq : SeqNos,
          pubKey : Users \cup {NoUser}, signer : Users] : t \in ActionTypes}

\* What NewAction, Prepare and Sign make of a user: the address is that of the
\* key, and the key goes in exactly when the sequence number is 1.
NewAction(type, data, user, seq, signer) ==
  [type |-> type, data |-> data, addr |-> user, seq |-> seq,
   pubKey |-> IF seq = 1 THEN user ELSE NoUser, signer |-> signer]

\* Mutated form: a key may come with any number.
BasicAnyKey(act) ==
  /\ act.addr # NoUser
  /\ act.seq > 0
  /\ act.seq = 1 => act.pubKey # NoUser

ValidateBasic(act) ==
  /\ act.addr # NoUser
  /\ act.seq > 0
  /\ act.seq = 1 => act.pubKey # NoUser
  /\ act.seq > 1 => act.pubKey = NoUser

-----------------------------------------------------------------------------
(* Accounts: types/account.go and state/state.go *)

NewAccount(pubKey) == [pubKey |-> pubKey, seq |-> 0, formIDs |-> <<>>]

\* An identifier already listed is not listed again.
AddNewFormID(acc, info) ==
  IF \E k \in DOMAIN acc.formIDs : acc.formIDs[k] = info.id
  THEN acc ELSE [acc EXCEPT !.formIDs = Append(@, info.id)]
\* The issue is listed in place of the form identifier.
AddIssue(acc, info) == [acc EXCEPT !.formIDs = Append(@, info.issue)]

AddFormID(acc, info) == [acc EXCEPT !.formIDs = Append(@, info.id)]

\* GetAccount answers nil for an absent key and for a removed account alike.
HasAccount(u) == accounts[u] \notin ContentIDs \cup {Absent, Removed}

\* A content identifier is stored where an account record should be: GetAccount
\* cannot decode it, and panics.
Undecodable(u) == accounts[u] \in ContentIDs

-----------------------------------------------------------------------------
(* Validation: state/execution.go *)

\* The account an action is validated against and run for.  A public key that
\* comes with the action replaces the account's own, and every run writes to
\* the address of the key the account has by then.
InputAccount(act) ==
  IF act.type = "create" THEN NewAccount(act.pubKey)
  ELSE IF act.pubKey # NoUser THEN [accounts[act.addr] EXCEPT !.pubKey = act.pubKey]
  ELSE accounts[act.addr]

AdvancedNoSequence(acc, act) == acc.pubKey = act.signer
AdvancedNoSignature(acc, act) == acc.seq + 1 = act.seq

ValidateInputAdvanced(acc, act) ==
  /\ acc.seq + 1 = act.seq
  /\ acc.pubKey = act.signer

Valid(act) ==
  /\ ValidateBasic(act)
  /\ act.type # "create" => HasAccount(act.addr)
  /\ ValidateInputAdvanced(InputAccount(act), act)

-----------------------------------------------------------------------------
(* Requests *)

\* The account that the action names cannot be read.
Unreadable(act) ==
  /\ ValidateBasic(act)
  /\ act.type # "create"
  /\ Undecodable(act.addr)

Respond(code) == res' = code

\* CheckTx validates and stops there.
CheckTx(act) ==
  /\ up
  /\ ~Unreadable(act)
  /\ Respond(IF Valid(act) THEN "ok" ELSE "invalid")
  /\ UNCHANGED <<store, up, log>>

\* AppendTx of an action that does not validate.
Reject(act) ==
  /\ up
  /\ ~Unreadable(act)
  /\ ~Valid(act)
  /\ Respond("invalid")
  /\ UNCHANGED <<store, up, log>>

NotCharged(acc) == acc

\* The sequence number is used up before the action runs.
Charged(acc) == [acc EXCEPT !.seq = @ + 1]

\* The cache of a run that succeeded reaches the store.
Accept(act) ==
  /\ up
  /\ Len(log) < MaxLog
  /\ Valid(act)
  /\ Respond("ok")
  /\ log' = Append(log, act)
  /\ UNCHANGED up

RunCreateAccount(act) ==
  LET acc == Charged(InputAccount(act)) IN
  /\ act.type = "create"
  /\ Accept(act)
  /\ accounts' = [accounts EXCEPT ![acc.pubKey] = acc]
  /\ UNCHANGED <<forms, filters>>

\* The removed account is left behind as a fresh one.
RunResetAccount(act) ==
  LET acc == Charged(InputAccount(act)) IN
  /\ act.type = "remove"
  /\ Accept(act)
  /\ accounts' = [accounts EXCEPT ![acc.pubKey] = NewAccount(acc.pubKey)]
  /\ UNCHANGED <<forms, filters>>

\* Setting a nil account leaves a one-byte record behind, not an absent key.
RunRemoveAccount(act) ==
  LET acc == Charged(InputAccount(act)) IN
  /\ act.type = "remove"
  /\ Accept(act)
  /\ accounts' = [accounts EXCEPT ![acc.pubKey] = Removed]
  /\ UNCHANGED <<forms, filters>>

SetFormOnce(info) ==
  IF info.id \in FormIDs /\ forms[info.id] = Absent
  THEN [forms EXCEPT ![info.id] = info.cid] ELSE forms

\* The form goes to its identifier, which may be the key of an account record.
SetForm(info) ==
  IF info.id \in FormIDs THEN [forms EXCEPT ![info.id] = info.cid] ELSE forms

SetFormRecord(info) ==
  IF info.id \in Users THEN [accounts EXCEPT ![info.id] = info.cid] ELSE accounts

FilterReplace(info) == [filters EXCEPT ![info.issue] = {info.id}]

FilterAdd(info) == [filters EXCEPT ![info.issue] = @ \cup {info.id}]

\* The form is filed without being written to the store.
RunFileForm(act) ==
  LET acc  == Charged(InputAccount(act))
      info == act.data IN
  /\ act.type = "submit"
  /\ info # NoInfo
  /\ info.issue \in Issues
  /\ Accept(act)
  /\ filters' = FilterAdd(info)
  /\ accounts' = [SetFormRecord(info) EXCEPT ![acc.pubKey] = AddFormID(acc, info)]
  /\ UNCHANGED forms

RunSubmitForm(act) ==
  LET acc  == Charged(InputAccount(act))
      info == act.data IN
  /\ act.type = "submit"
  /\ info # NoInfo
  /\ info.issue \in Issues
  /\ Accept(act)
  /\ forms' = SetForm(info)
  /\ filters' = FilterAdd(info)
  /\ accounts' = [SetFormRecord(info) EXCEPT ![acc.pubKey] = AddFormID(acc, info)]

(***************************************************************************)
(* FilterAdd fails for an issue without a filter, and for any issue when   *)
(* the filter has no room left for the identifier; RunSubmitForm panics on *)
(* either.  The cache is lost with the process.  GetAccount panics before  *)
(* that, in CheckTx as in AppendTx.                                        *)
(***************************************************************************)
Panic(act) ==
  /\ up
  /\ \/ Unreadable(act)
     \/ Valid(act) /\ act.type = "submit" /\ act.data # NoInfo
  /\ up' = FALSE
  /\ UNCHANGED <<store, res, log>>

(***************************************************************************)
(* The run of an unknown action, or of a form that does not decode, fails. *)
(* The account with its sequence number used up is set in the cache, and   *)
(* the cache is dropped.                                                   *)
(***************************************************************************)
Fail(act) ==
  /\ up
  /\ Valid(act)
  /\ \/ act.type = "other"
     \/ act.type = "submit" /\ act.data = NoInfo
  /\ Respond("failed")
  /\ UNCHANGED <<store, up, log>>

AppendTx(act) ==
  \/ Reject(act)
  \/ RunCreateAccount(act)
  \/ RunRemoveAccount(act)
  \/ RunSubmitForm(act)
  \/ Panic(act)
  \/ Fail(act)

-----------------------------------------------------------------------------
(* The state after the genesis file has been read and the filters set. *)
Init ==
  /\ accounts = [u \in Users |-> IF u \in Genesis THEN NewAccount(u) ELSE Absent]
  /\ forms = [id \in FormIDs |-> Absent]
  /\ filters = [i \in Issues |-> {}]
  /\ up = TRUE
  /\ res = "none"
  /\ log = <<>>

Next == \E act \in Actions : CheckTx(act) \/ AppendTx(act)

Spec == Init /\ [][Next]_vars

-----------------------------------------------------------------------------
(* Properties *)

\* Every variable has its type: a stored account has a real public key and
\* lists form identifiers, and only the issues of the genesis file have filters.
TypeOK ==
  /\ accounts \in [Users -> Account \cup ContentIDs \cup {Absent, Removed}]
  /\ forms \in [FormIDs -> ContentIDs \cup {Absent}]
  /\ filters \in [Issues -> SUBSET (FormIDs \cup Users)]
  /\ up \in BOOLEAN
  /\ res \in {"none", "ok", "invalid", "failed"}
  /\ log \in Seq(Actions)

By(u) == {i \in DOMAIN log : log[i].signer = u}

Submits(i, id) == log[i].type = "submit" /\ log[i].data.id = id

Newest(i, indices) == i \in indices /\ \A j \in indices : j <= i

\* What the log has about the record of an account: the actions that its key
\* signed, and the forms that have the key of the record for an identifier.
Touched(u) == By(u) \cup {i \in DOMAIN log : Submits(i, u)}

\* The account record of an address is what the newest accepted action left that
\* was signed with its key: gone after a removal, else live, filed under its own
\* key and at that action's sequence number.  The actions of other keys leave it
\* alone, even those that name its address, but for a form filed over it.
AccountTracksLog ==
  \A u \in Users :
    /\ Touched(u) = {} => accounts[u] = IF u \in Genesis THEN NewAccount(u) ELSE Absent
    /\ \A i \in DOMAIN log : Newest(i, Touched(u)) =>
         IF log[i].signer # u THEN accounts[u] = log[i].data.cid
         ELSE IF log[i].type = "remove" THEN accounts[u] = Removed
         ELSE /\ HasAccount(u)
              /\ accounts[u].pubKey = u
              /\ accounts[u].seq = log[i].seq

\* The i-th action named the account of another user than the one who signed it,
\* and brought the signer's key along.
Borrows(i) == log[i].type # "create" /\ log[i].addr # log[i].signer

\* The i-th action began the record of u anew: a creation, or an action that
\* borrowed another user's account.
Renews(i, u) == log[i].signer = u /\ (log[i].type = "create" \/ Borrows(i))

\* An action can bring the signer's key to the account of another user only while
\* that account is of the genesis file and its key has signed nothing yet: from
\* the first accepted action of its own key on, an account answers to that key
\* alone.
BorrowedUnused ==
  \A i \in DOMAIN log : Borrows(i) =>
    /\ log[i].addr \in Genesis
    /\ log[i].seq = 1
    /\ \A j \in By(log[i].addr) : i < j

\* Replay protection: of two accepted actions signed with one key the later has
\* the larger sequence number, unless the account was begun anew in between.  So
\* a transaction that is delivered again is accepted again only after that, or
\* when it is itself one that begins an account anew.
NoReplay ==
  \A i, j \in DOMAIN log :
    ( /\ i < j
      /\ log[i].signer = log[j].signer
      /\ \A k \in i + 1 .. j : ~Renews(k, log[i].signer) )
    => log[i].seq < log[j].seq

Firsts(u) == {i \in By(u) : log[i].seq = 1}

\* What an account's first action since it was begun adds to its number without
\* a form: a creation does.
Offset(u) ==
  IF \E i \in DOMAIN log : Newest(i, Firsts(u)) /\ log[i].type = "create" THEN 1 ELSE 0

\* The sequence number of a live account counts its creation and its forms and
\* nothing else: no accepted action is charged twice, none goes uncharged, and
\* no form drops out of the account's list.
SequenceCountsForms ==
  \A u \in Users : HasAccount(u) =>
    accounts[u].seq = Len(accounts[u].formIDs) + Offset(u)

\* The k-th form an account lists was accepted with that account's signature as
\* its k-th action (not counting a creation), and can be found: the filter of
\* its issue knows it and the store holds it, unless it was filed over an
\* account record.
ListedFormsFindable ==
  \A u \in Users : HasAccount(u) =>
    \A k \in DOMAIN accounts[u].formIDs :
      \E i \in By(u) :
        /\ Submits(i, accounts[u].formIDs[k])
        /\ log[i].seq = k + Offset(u)
        /\ log[i].data.id \in FormIDs => forms[log[i].data.id] # Absent
        /\ log[i].data.id \in filters[log[i].data.issue]

\* The store maps a form identifier to the content of the newest accepted
\* submission with that identifier, and to nothing when there is none.  (The
\* identifiers that are keys of account records are AccountTracksLog's.)
FormsFollowLog ==
  \A id \in FormIDs :
    LET at == {i \in DOMAIN log : Submits(i, id)} IN
    /\ at = {} => forms[id] = Absent
    /\ \A i \in at : Newest(i, at) => forms[id] = log[i].data.cid

\* The filter of an issue holds exactly the forms accepted under the issue: a
\* search misses none, and no run that did not succeed left a mark in it,
\* although the filters are written past the cache.
FiltersFollowLog ==
  \A issue \in Issues :
    filters[issue] = {log[i].data.id : i \in {j \in DOMAIN log :
                        log[j].type = "submit" /\ log[j].data.issue = issue}}

\* An account record changes only in a step that accepts an action signed with
\* the key of that account, whatever address the action names, or a form whose
\* identifier is the key of the record.
AccountsChangeAsSigned ==
  [][\A u \in Users : accounts'[u] # accounts[u] =>
       /\ Len(log') = Len(log) + 1
       /\ LET act == log'[Len(log')] IN
          act.signer = u \/ (act.type = "submit" /\ act.data.id = u)]_vars

\* Where an account record is in the life cycle.
Stage(record) ==
  [status |-> IF record = Absent THEN "none"
              ELSE IF record = Removed THEN "closed"
              ELSE IF record \in ContentIDs THEN "lost" ELSE "open",
   used |-> IF record \in ContentIDs \cup {Absent, Removed} THEN 0 ELSE record.seq]

stages == [u \in Users |-> Stage(accounts[u])]

Lifecycle == INSTANCE AccountLifecycle WITH account <- stages

\* The accounts of the store go through the life cycle AccountLifecycle states.
ImplementsLifecycle == Lifecycle!Spec

=============================================================================
