--------------------------- MODULE ExecutionProofs ---------------------------
(***************************************************************************)
(* Proofs about Execution, for any users, genesis file, forms and bound.   *)
(***************************************************************************)
EXTENDS Execution, SequenceTheorems, TLAPS

(***************************************************************************)
(* What the invariants of Execution need besides each other.               *)
(***************************************************************************)

\* A live account is filed under the address of its own key.
OwnKey == \A u \in Users : HasAccount(u) => accounts[u].pubKey = u

\* An account at number 0 is one of the genesis file whose key signed nothing.
UnusedIsFresh ==
  \A u \in Users : HasAccount(u) /\ accounts[u].seq = 0 => u \in Genesis /\ By(u) = {}

\* What was accepted as a form carries an info, of an issue with a filter.
LoggedForms ==
  \A i \in DOMAIN log : log[i].type = "submit" =>
    /\ log[i].data \in Infos
    /\ log[i].data.issue \in Issues

\* No action accepted since the account was begun has a larger sequence number
\* than the account, so the next one has a larger number than them all.
SeqIsLargest ==
  \A u \in Users : HasAccount(u) =>
    \A i \in By(u) :
      (\A k \in i + 1 .. Len(log) : ~Renews(k, u)) => log[i].seq <= accounts[u].seq

-----------------------------------------------------------------------------
(* Actions and accounts *)

LEMMA ActionFacts ==
  ASSUME NEW act \in Actions
  PROVE  /\ act.type \in ActionTypes
         /\ act.data \in Payloads(act.type)
         /\ act.addr \in Users \cup {NoUser}
         /\ act.seq \in Nat
         /\ act.pubKey \in Users \cup {NoUser}
         /\ act.signer \in Users
<1>1. PICK t \in ActionTypes :
        act \in [type : {t}, data : Payloads(t), addr : Users \cup {NoUser}, seq : SeqNos,
                 pubKey : Users \cup {NoUser}, signer : Users]
  BY DEF Actions
<1>2. SeqNos \subseteq Nat
  BY ConstantsAssumption
<1> QED
  BY <1>1, <1>2

\* What the handlers prepare is one of the actions there are.
LEMMA NewActionFacts ==
  ASSUME NEW t \in ActionTypes, NEW d \in Payloads(t), NEW u \in Users, NEW s \in SeqNos,
         NEW k \in Users
  PROVE  NewAction(t, d, u, s, k) \in Actions
<1> DEFINE rec == [type : {t}, data : Payloads(t), addr : Users \cup {NoUser}, seq : SeqNos,
                   pubKey : Users \cup {NoUser}, signer : Users]
<1>1. NewAction(t, d, u, s, k) \in rec
  BY DEF NewAction
<1>2. rec \subseteq Actions
  BY DEF Actions
<1> QED
  BY <1>1, <1>2

LEMMA InfoFacts ==
  ASSUME NEW info \in Infos
  PROVE  /\ info.id \in FormIDs \cup Users
         /\ info.id \in FormIDs <=> info.id \notin Users
         /\ info.cid \in ContentIDs
         /\ info.cid # Absent
         /\ info.cid # Removed
         /\ info.cid \notin Account
  BY ConstantsAssumption, MarkersAssumption

\* A valid action is run for an account that has the key that signed it, at the
\* sequence number before its own.  An account that was read is that of the
\* action's address, and the signer's own unless this is its first action.
LEMMA InputFacts ==
  ASSUME TypeOK, OwnKey, NEW act \in Actions, Valid(act)
  PROVE  LET acc == InputAccount(act) IN
         /\ acc \in Account
         /\ acc.pubKey = act.signer
         /\ act.seq = acc.seq + 1
         /\ act.seq > 0
         /\ act.type = "create" => acc.seq = 0 /\ acc.formIDs = <<>>
         /\ act.type # "create" => /\ act.addr \in Users
                                   /\ HasAccount(act.addr)
                                   /\ acc.seq = accounts[act.addr].seq
                                   /\ acc.formIDs = accounts[act.addr].formIDs
                                   /\ act.addr = act.signer \/ act.seq = 1
<1> USE ActionFacts, ConstantsAssumption
<1> DEFINE acc == InputAccount(act)
<1>1. /\ acc.pubKey = act.signer
      /\ act.seq = acc.seq + 1
      /\ act.seq > 0
      /\ act.addr # NoUser
  BY DEF Valid, ValidateBasic, ValidateInputAdvanced
<1>2. CASE act.type = "create"
  <2>1. acc = [pubKey |-> act.pubKey, seq |-> 0, formIDs |-> <<>>]
    BY <1>2 DEF InputAccount, NewAccount
  <2>2. acc.pubKey = act.pubKey /\ acc.seq = 0 /\ acc.formIDs = <<>>
    BY <2>1
  <2>3. acc \in Account
    BY <1>1, <2>1, <2>2, EmptySeq DEF Account
  <2> QED
    BY <1>1, <1>2, <2>2, <2>3
<1>3. CASE act.type # "create"
  <2> DEFINE old == accounts[act.addr]
  <2>1. act.addr \in Users /\ HasAccount(act.addr)
    BY <1>1, <1>3 DEF Valid
  <2>2. old \in Account /\ old.pubKey = act.addr
    BY <2>1 DEF TypeOK, OwnKey, HasAccount
  <2>3. CASE act.pubKey # NoUser
    <3>1. acc = [old EXCEPT !.pubKey = act.pubKey]
      BY <1>3, <2>3 DEF InputAccount
    <3>2. acc \in Account /\ acc.seq = old.seq /\ acc.formIDs = old.formIDs
      BY <2>2, <2>3, <3>1 DEF Account
    <3>3. act.seq = 1
      BY <1>1, <2>3 DEF Valid, ValidateBasic
    <3> QED
      BY <1>1, <1>3, <2>1, <3>2, <3>3
  <2>4. CASE act.pubKey = NoUser
    <3>1. acc = old
      BY <1>3, <2>4 DEF InputAccount
    <3> QED
      BY <1>1, <1>3, <2>1, <2>2, <3>1
  <2> QED
    BY <2>3, <2>4
<1> QED
  BY <1>2, <1>3

-----------------------------------------------------------------------------
(* Steps *)

\* A step either leaves the store and the log alone or accepts an action.
LEMMA StepCases ==
  ASSUME Next
  PROVE  \/ UNCHANGED <<accounts, forms, filters, log>>
         \/ \E act \in Actions :
              RunCreateAccount(act) \/ RunRemoveAccount(act) \/ RunSubmitForm(act)
  BY DEF Next, CheckTx, AppendTx, Reject, Panic, Fail, store

LEMMA LogGrows ==
  ASSUME TypeOK, NEW act \in Actions, Accept(act)
  PROVE  /\ Len(log) \in Nat
         /\ DOMAIN log = 1 .. Len(log)
         /\ log' \in Seq(Actions)
         /\ Len(log') = Len(log) + 1
         /\ DOMAIN log' = 1 .. Len(log) + 1
         /\ DOMAIN log' = DOMAIN log \cup {Len(log) + 1}
         /\ \A i \in DOMAIN log : log'[i] = log[i]
         /\ log'[Len(log) + 1] = act
<1>1. log \in Seq(Actions) /\ log' = Append(log, act)
  BY DEF TypeOK, Accept
<1>2. /\ Len(log) \in Nat
      /\ DOMAIN log = 1 .. Len(log)
  BY <1>1, LenProperties
<1>3. /\ log' \in Seq(Actions)
      /\ Len(log') = Len(log) + 1
      /\ \A i \in 1 .. Len(log) : log'[i] = log[i]
      /\ log'[Len(log) + 1] = act
  BY <1>1, AppendProperties
<1>4. DOMAIN log' = 1 .. Len(log) + 1
  BY <1>3, LenProperties
<1> QED
  BY <1>2, <1>3, <1>4

\* An action files a form over the record of v.
Over(act, v) == act.type = "submit" /\ act.data.id = v

\* In this step the record of the key that signed becomes x, and the one that a
\* form is filed over becomes its content identifier.
RecordsSet(act, x) ==
  /\ act.signer \in Users
  /\ accounts' = [v \in Users |-> IF v = act.signer THEN x
                                  ELSE IF Over(act, v) THEN act.data.cid ELSE accounts[v]]

LEMMA RecordSet ==
  ASSUME TypeOK, NEW act \in Actions, NEW x, act.type # "submit",
         accounts' = [accounts EXCEPT ![act.signer] = x]
  PROVE  RecordsSet(act, x)
  BY ActionFacts DEF TypeOK, RecordsSet, Over

\* The account that an accepted action leaves live: the lists it may have are
\* the empty one of a creation and the longer one of a submission.
Left(act, formIDs) ==
  [pubKey |-> act.signer, seq |-> act.seq, formIDs |-> formIDs]

LEMMA LeftFacts ==
  ASSUME NEW act \in Actions, NEW formIDs \in Seq(FormIDs \cup Users)
  PROVE  /\ Left(act, formIDs) \in Account
         /\ Left(act, formIDs) \notin ContentIDs \cup {Absent, Removed}
         /\ Left(act, formIDs).pubKey = act.signer
         /\ Left(act, formIDs).seq = act.seq
         /\ Left(act, formIDs).formIDs = formIDs
<1>1. Left(act, formIDs) \in Account
  BY ActionFacts DEF Left, Account
<1> QED
  BY <1>1, MarkersAssumption DEF Left

LEMMA ListReplaced ==
  ASSUME NEW p, NEW n, NEW f, NEW g
  PROVE  [[pubKey |-> p, seq |-> n, formIDs |-> f] EXCEPT !.formIDs = g] =
           [pubKey |-> p, seq |-> n, formIDs |-> g]
  BY Z3

LEMMA AddFormIDFact ==
  ASSUME NEW p, NEW n, NEW f, NEW info
  PROVE  AddFormID([pubKey |-> p, seq |-> n, formIDs |-> f], info) =
           [pubKey |-> p, seq |-> n, formIDs |-> Append(f, info.id)]
  BY ListReplaced DEF AddFormID

\* The account that is charged has the key that signed, and the action's number.
LEMMA ChargedFact ==
  ASSUME TypeOK, OwnKey, NEW act \in Actions, Valid(act)
  PROVE  /\ Charged(InputAccount(act)) = Left(act, InputAccount(act).formIDs)
         /\ Charged(InputAccount(act)).pubKey = act.signer
<1> DEFINE acc == InputAccount(act)
<1>1. acc \in Account /\ acc.pubKey = act.signer /\ act.seq = acc.seq + 1
  BY InputFacts
<1> HIDE DEF acc
<1>2. Charged(acc) = [pubKey |-> act.signer, seq |-> act.seq, formIDs |-> acc.formIDs]
  BY <1>1 DEF Charged, Account
<1> QED
  BY <1>2 DEF acc, Left

\* What accepting an action does to the store.
LEMMA CreateEffect ==
  ASSUME TypeOK, OwnKey, NEW act \in Actions, RunCreateAccount(act)
  PROVE  /\ Accept(act)
         /\ act.type = "create"
         /\ act.seq = 1
         /\ RecordsSet(act, Left(act, <<>>))
         /\ forms' = forms /\ filters' = filters
<1>1. Valid(act) /\ act.type = "create" /\ Accept(act)
  BY DEF RunCreateAccount, Accept
<1>2. InputAccount(act).formIDs = <<>> /\ act.seq = 1
  BY <1>1, InputFacts
<1>3. accounts' = [accounts EXCEPT ![act.signer] = Left(act, <<>>)]
  BY <1>1, <1>2, ChargedFact DEF RunCreateAccount
<1> QED
  BY <1>1, <1>2, <1>3, RecordSet DEF RunCreateAccount

\* The account that an action other than a creation names, at the number before
\* the action's own.
Named(act) ==
  /\ act.addr \in Users
  /\ HasAccount(act.addr)
  /\ act.seq = accounts[act.addr].seq + 1
  /\ act.addr = act.signer \/ act.seq = 1

LEMMA RemoveEffect ==
  ASSUME TypeOK, OwnKey, NEW act \in Actions, RunRemoveAccount(act)
  PROVE  /\ Accept(act)
         /\ act.type = "remove"
         /\ Named(act)
         /\ RecordsSet(act, Removed)
         /\ forms' = forms /\ filters' = filters
<1>1. Valid(act) /\ act.type = "remove" /\ Accept(act)
  BY DEF RunRemoveAccount, Accept
<1>2. Named(act)
  BY <1>1, InputFacts DEF Named
<1>3. accounts' = [accounts EXCEPT ![act.signer] = Removed]
  BY <1>1, ChargedFact DEF RunRemoveAccount
<1> QED
  BY <1>1, <1>2, <1>3, RecordSet DEF RunRemoveAccount

LEMMA SubmitEffect ==
  ASSUME TypeOK, OwnKey, NEW act \in Actions, RunSubmitForm(act)
  PROVE  /\ Accept(act)
         /\ act.type = "submit"
         /\ act.data \in Infos
         /\ act.data.issue \in Issues
         /\ Named(act)
         /\ accounts[act.addr].formIDs \in Seq(FormIDs \cup Users)
         /\ Append(accounts[act.addr].formIDs, act.data.id) \in Seq(FormIDs \cup Users)
         /\ RecordsSet(act, Left(act, Append(accounts[act.addr].formIDs, act.data.id)))
         /\ forms' = SetForm(act.data)
         /\ filters' = [filters EXCEPT ![act.data.issue] = @ \cup {act.data.id}]
<1> DEFINE old == accounts[act.addr].formIDs
           listed == Append(old, act.data.id)
<1>1. /\ Valid(act) /\ act.type = "submit" /\ Accept(act)
      /\ act.data # NoInfo /\ act.data.issue \in Issues
  BY DEF RunSubmitForm, Accept
<1>2. act.data \in Infos
  BY <1>1, ActionFacts DEF Payloads
<1>3. Named(act) /\ InputAccount(act).formIDs = old
  BY <1>1, InputFacts DEF Named
<1>4. old \in Seq(FormIDs \cup Users)
  <2>1. accounts[act.addr] \in Account
    BY <1>3 DEF Named, HasAccount, TypeOK
  <2> QED
    BY <2>1 DEF Account
<1>5. listed \in Seq(FormIDs \cup Users)
  BY <1>2, <1>4, InfoFacts, AppendProperties
<1>6. AddFormID(Left(act, old), act.data) = Left(act, listed)
  BY AddFormIDFact DEF Left
<1>7. accounts' = [SetFormRecord(act.data) EXCEPT ![act.signer] = Left(act, listed)]
  <2> DEFINE acc == Charged(InputAccount(act))
  <2>1. acc = Left(act, old) /\ acc.pubKey = act.signer
    BY <1>1, <1>3, ChargedFact
  <2>2. accounts' = [SetFormRecord(act.data) EXCEPT ![acc.pubKey] = AddFormID(acc, act.data)]
    BY DEF RunSubmitForm
  <2> QED
    BY <1>6, <2>1, <2>2
<1>8. SetFormRecord(act.data) =
        [v \in Users |-> IF Over(act, v) THEN act.data.cid ELSE accounts[v]]
  BY <1>1 DEF SetFormRecord, Over, TypeOK
<1>9. RecordsSet(act, Left(act, listed))
  BY <1>7, <1>8, ActionFacts DEF RecordsSet
<1>10. forms' = SetForm(act.data) /\ filters' = FilterAdd(act.data)
  BY DEF RunSubmitForm
<1> QED
  BY <1>1, <1>2, <1>3, <1>4, <1>5, <1>9, <1>10 DEF FilterAdd

\* What the three have in common: only the record of the key that signed changes,
\* and what a form is filed over, and the action bears the number after the one
\* it finds.
LEMMA AcceptEffect ==
  ASSUME TypeOK, OwnKey, NEW act \in Actions,
         RunCreateAccount(act) \/ RunRemoveAccount(act) \/ RunSubmitForm(act)
  PROVE  /\ Accept(act)
         /\ act.signer \in Users
         /\ act.seq \in Nat /\ act.seq > 0
         /\ act.type = "create" => act.seq = 1
         /\ act.type # "create" => Named(act)
         /\ act.type = "remove" => accounts'[act.signer] = Removed
         /\ act.type # "remove" => /\ HasAccount(act.signer)'
                                   /\ accounts'[act.signer].pubKey = act.signer
                                   /\ accounts'[act.signer].seq = act.seq
         /\ \A v \in Users \ {act.signer} : ~Over(act, v) => accounts'[v] = accounts[v]
         /\ \A v \in Users \ {act.signer} : Over(act, v) =>
              /\ accounts'[v] = act.data.cid
              /\ act.data.cid \in ContentIDs
              /\ ~HasAccount(v)'
<1>1. CASE RunCreateAccount(act)
  <2>1. RecordsSet(act, Left(act, <<>>)) /\ act.type = "create" /\ Accept(act) /\ act.seq = 1
    BY <1>1, CreateEffect
  <2>2. accounts'[act.signer] = Left(act, <<>>)
    BY <2>1 DEF RecordsSet
  <2>3. /\ HasAccount(act.signer)'
        /\ accounts'[act.signer].pubKey = act.signer
        /\ accounts'[act.signer].seq = act.seq
    <3>1. /\ Left(act, <<>>) \notin ContentIDs \cup {Absent, Removed}
          /\ Left(act, <<>>).pubKey = act.signer
          /\ Left(act, <<>>).seq = act.seq
      BY LeftFacts, EmptySeq
    <3> QED
      BY <2>2, <3>1 DEF HasAccount
  <2>4. \A v \in Users \ {act.signer} : ~Over(act, v) /\ accounts'[v] = accounts[v]
    BY <2>1 DEF RecordsSet, Over
  <2> QED
    BY <2>1, <2>3, <2>4, ActionFacts
<1>2. CASE RunRemoveAccount(act)
  <2>1. RecordsSet(act, Removed) /\ act.type = "remove" /\ Accept(act) /\ Named(act)
    BY <1>2, RemoveEffect
  <2>2. act.seq > 0
    BY <2>1, InputFacts DEF Accept
  <2>3. \A v \in Users \ {act.signer} : ~Over(act, v) /\ accounts'[v] = accounts[v]
    BY <2>1 DEF RecordsSet, Over
  <2>4. accounts'[act.signer] = Removed
    BY <2>1 DEF RecordsSet
  <2> QED
    BY <2>1, <2>2, <2>3, <2>4, ActionFacts
<1>3. CASE RunSubmitForm(act)
  <2> DEFINE listed == Append(accounts[act.addr].formIDs, act.data.id)
  <2>1. /\ RecordsSet(act, Left(act, listed)) /\ listed \in Seq(FormIDs \cup Users)
        /\ act.type = "submit" /\ act.data \in Infos /\ Accept(act) /\ Named(act)
    BY <1>3, SubmitEffect
  <2> HIDE DEF listed
  <2>2. accounts'[act.signer] = Left(act, listed)
    BY <2>1 DEF RecordsSet
  <2>3. /\ HasAccount(act.signer)'
        /\ accounts'[act.signer].pubKey = act.signer
        /\ accounts'[act.signer].seq = act.seq
    <3>1. /\ Left(act, listed) \notin ContentIDs \cup {Absent, Removed}
          /\ Left(act, listed).pubKey = act.signer
          /\ Left(act, listed).seq = act.seq
      BY <2>1, LeftFacts
    <3> QED
      BY <2>2, <3>1 DEF HasAccount
  <2>4. act.seq > 0
    BY <2>1, InputFacts DEF Accept
  <2>5. ASSUME NEW v \in Users \ {act.signer}
        PROVE  accounts'[v] = IF Over(act, v) THEN act.data.cid ELSE accounts[v]
    BY <2>1 DEF RecordsSet
  <2>6. act.data.cid \in ContentIDs
    BY <2>1, InfoFacts
  <2> QED
    BY <2>1, <2>3, <2>4, <2>5, <2>6, ActionFacts DEF HasAccount
<1> QED
  BY <1>1, <1>2, <1>3

-----------------------------------------------------------------------------
(* Types *)

LEMMA InitTypeOK == Init => TypeOK
<1> SUFFICES ASSUME Init PROVE TypeOK
  OBVIOUS
<1>1. accounts \in [Users -> Account \cup ContentIDs \cup {Absent, Removed}]
  BY ConstantsAssumption, EmptySeq DEF Init, NewAccount, Account
<1>2. log \in Seq(Actions)
  BY EmptySeq DEF Init
<1> QED
  BY <1>1, <1>2 DEF Init, TypeOK

LEMMA RecordsTyped ==
  ASSUME TypeOK, NEW act \in Actions, NEW x \in Account \cup {Removed}, RecordsSet(act, x),
         act.type = "submit" => act.data \in Infos
  PROVE  accounts' \in [Users -> Account \cup ContentIDs \cup {Absent, Removed}]
<1>1. \A v : Over(act, v) => act.data.cid \in ContentIDs
  BY InfoFacts DEF Over
<1> QED
  BY <1>1 DEF RecordsSet, TypeOK

LEMMA StepTypeOK == TypeOK /\ OwnKey /\ [Next]_vars => TypeOK'
<1> SUFFICES ASSUME TypeOK, OwnKey, [Next]_vars
             PROVE  TypeOK'
  OBVIOUS
<1>1. ASSUME UNCHANGED vars
      PROVE  TypeOK'
  BY <1>1 DEF vars, TypeOK
<1>2. ASSUME NEW act \in Actions, CheckTx(act) \/ Reject(act) \/ Fail(act)
      PROVE  TypeOK'
  BY <1>2, ActionFacts DEF CheckTx, Reject, Fail, Respond, store, TypeOK
<1>3. ASSUME NEW act \in Actions, Panic(act)
      PROVE  TypeOK'
  BY <1>3 DEF Panic, store, TypeOK
<1>4. ASSUME NEW act \in Actions, Accept(act)
      PROVE  /\ up' \in BOOLEAN
             /\ log' \in Seq(Actions)
             /\ res' \in {"none", "ok", "invalid", "failed"}
  BY <1>4, LogGrows, ActionFacts DEF Accept, Respond, TypeOK
<1>5. ASSUME NEW act \in Actions, RunCreateAccount(act)
      PROVE  TypeOK'
  <2>1. Left(act, <<>>) \in Account
    BY LeftFacts, EmptySeq
  <2>2. accounts' \in [Users -> Account \cup ContentIDs \cup {Absent, Removed}]
    BY <1>5, <2>1, CreateEffect, RecordsTyped
  <2> QED
    BY <1>4, <1>5, <2>2, CreateEffect DEF TypeOK
<1>6. ASSUME NEW act \in Actions, RunRemoveAccount(act)
      PROVE  TypeOK'
  <2>1. accounts' \in [Users -> Account \cup ContentIDs \cup {Absent, Removed}]
    BY <1>6, RemoveEffect, RecordsTyped
  <2> QED
    BY <1>4, <1>6, <2>1, RemoveEffect DEF TypeOK
<1>7. ASSUME NEW act \in Actions, RunSubmitForm(act)
      PROVE  TypeOK'
  <2> DEFINE listed == Append(accounts[act.addr].formIDs, act.data.id)
  <2>1. act.data \in Infos /\ act.data.id \in FormIDs \cup Users /\ act.data.cid \in ContentIDs
    BY <1>7, SubmitEffect, InfoFacts
  <2>2. Left(act, listed) \in Account
    BY <1>7, SubmitEffect, LeftFacts
  <2>3. RecordsSet(act, Left(act, listed))
    BY <1>7, SubmitEffect
  <2>4. accounts' \in [Users -> Account \cup ContentIDs \cup {Absent, Removed}]
    BY <2>1, <2>2, <2>3, RecordsTyped
  <2>5. forms' \in [FormIDs -> ContentIDs \cup {Absent}]
    BY <1>7, <2>1, SubmitEffect DEF TypeOK, SetForm
  <2>6. filters' = [filters EXCEPT ![act.data.issue] = @ \cup {act.data.id}]
    BY <1>7, SubmitEffect
  <2>7. filters' \in [Issues -> SUBSET (FormIDs \cup Users)]
    BY <2>1, <2>6 DEF TypeOK
  <2> QED
    BY <1>4, <1>7, <2>4, <2>5, <2>7, SubmitEffect DEF TypeOK
<1> QED
  BY <1>1, <1>2, <1>3, <1>5, <1>6, <1>7 DEF Next, AppendTx

LEMMA InitOwnKey == Init => OwnKey
  BY DEF Init, OwnKey, HasAccount, NewAccount

LEMMA StepOwnKey == TypeOK /\ OwnKey /\ [Next]_vars => OwnKey'
<1> SUFFICES ASSUME TypeOK, OwnKey, [Next]_vars
             PROVE  OwnKey'
  OBVIOUS
<1>1. ASSUME UNCHANGED accounts
      PROVE  OwnKey'
  BY <1>1 DEF OwnKey, HasAccount
<1>2. ASSUME NEW act \in Actions,
             RunCreateAccount(act) \/ RunRemoveAccount(act) \/ RunSubmitForm(act)
      PROVE  OwnKey'
  <2>1. /\ act.signer \in Users
        /\ accounts'[act.signer] = Removed \/ accounts'[act.signer].pubKey = act.signer
        /\ \A v \in Users \ {act.signer} : ~HasAccount(v)' \/ accounts'[v] = accounts[v]
    BY <1>2, AcceptEffect
  <2> QED
    BY <2>1 DEF OwnKey, HasAccount
<1> QED
  BY <1>1, <1>2, StepCases DEF vars

\* TypeOK holds throughout: in particular a panic or a failed run leaves no
\* ill-formed record behind.  (An account that is named is filed under its own
\* key, which is what OwnKey adds.)
THEOREM TypesCorrect == Spec => []TypeOK
<1>1. Init => TypeOK /\ OwnKey
  BY InitTypeOK, InitOwnKey
<1>2. TypeOK /\ OwnKey /\ [Next]_vars => (TypeOK /\ OwnKey)'
  BY StepTypeOK, StepOwnKey
<1> QED
  BY <1>1, <1>2, PTL DEF Spec

\* An account record changes only in a step that accepts an action signed with
\* its own key, whatever address the action names, or a form that is filed over
\* it (AccountsChangeAsSigned).
THEOREM SignersOnly == Spec => AccountsChangeAsSigned
<1> DEFINE A == \A u \in Users : accounts'[u] # accounts[u] =>
                  /\ Len(log') = Len(log) + 1
                  /\ LET act == log'[Len(log')] IN
                     act.signer = u \/ (act.type = "submit" /\ act.data.id = u)
<1>1. TypeOK /\ OwnKey /\ [Next]_vars => [A]_vars
  <2> SUFFICES ASSUME TypeOK, OwnKey, Next
               PROVE  A
    OBVIOUS
  <2>1. CASE UNCHANGED <<accounts, forms, filters, log>>
    BY <2>1
  <2>2. ASSUME NEW act \in Actions,
               RunCreateAccount(act) \/ RunRemoveAccount(act) \/ RunSubmitForm(act)
        PROVE  A
    <3>1. /\ Accept(act)
          /\ \A u \in Users : u # act.signer /\ ~Over(act, u) => accounts'[u] = accounts[u]
      BY <2>2, AcceptEffect
    <3>2. Len(log') = Len(log) + 1 /\ log'[Len(log')] = act
      BY <3>1, LogGrows
    <3> QED
      BY <3>1, <3>2 DEF Over
  <2> QED
    BY <2>1, <2>2, StepCases
<1>2. Init => TypeOK /\ OwnKey
  BY InitTypeOK, InitOwnKey
<1>3. TypeOK /\ OwnKey /\ [Next]_vars => (TypeOK /\ OwnKey)'
  BY StepTypeOK, StepOwnKey
<1> QED
  BY <1>1, <1>2, <1>3, PTL DEF Spec, AccountsChangeAsSigned

-----------------------------------------------------------------------------
(* The log and the account records *)

LEMMA ByGrows ==
  ASSUME TypeOK, NEW act \in Actions, Accept(act)
  PROVE  /\ \A u \in Users \ {act.signer} : By(u)' = By(u)
         /\ By(act.signer)' = By(act.signer) \cup {Len(log) + 1}
<1>1. /\ DOMAIN log' = DOMAIN log \cup {Len(log) + 1}
      /\ \A i \in DOMAIN log : log'[i] = log[i]
      /\ log'[Len(log) + 1] = act
  BY LogGrows
<1>2. ASSUME NEW u
      PROVE  By(u)' = {i \in DOMAIN log' : log'[i].signer = u}
  BY DEF By
<1>3. ASSUME NEW u \in Users \ {act.signer}
      PROVE  By(u)' = By(u)
  BY <1>1, <1>2 DEF By
<1>4. By(act.signer)' = By(act.signer) \cup {Len(log) + 1}
  BY <1>1, <1>2 DEF By
<1> QED
  BY <1>3, <1>4

\* The accepted submissions of one form identifier.
SubmitsOf(id) == {i \in DOMAIN log : Submits(i, id)}

LEMMA SubmitsGrow ==
  ASSUME TypeOK, NEW act \in Actions, Accept(act), NEW id
  PROVE  SubmitsOf(id)' = IF Over(act, id) THEN SubmitsOf(id) \cup {Len(log) + 1}
                          ELSE SubmitsOf(id)
<1>1. /\ DOMAIN log' = DOMAIN log \cup {Len(log) + 1}
      /\ \A i \in DOMAIN log : log'[i] = log[i]
      /\ log'[Len(log) + 1] = act
  BY LogGrows
<1>2. SubmitsOf(id)' =
        {i \in DOMAIN log' : log'[i].type = "submit" /\ log'[i].data.id = id}
  BY DEF SubmitsOf, Submits
<1> QED
  BY <1>1, <1>2 DEF SubmitsOf, Submits, Over

LEMMA NewestGrows ==
  ASSUME NEW n \in Nat, NEW S \in SUBSET (1 .. n)
  PROVE  \A i : Newest(i, S \cup {n + 1}) <=> i = n + 1
<1>1. \A j \in S : j \in Nat /\ j < n + 1
  OBVIOUS
<1>2. Newest(n + 1, S \cup {n + 1})
  BY <1>1 DEF Newest
<1>3. ASSUME NEW i, Newest(i, S \cup {n + 1})
      PROVE  i = n + 1
  BY <1>1, <1>3 DEF Newest
<1> QED
  BY <1>2, <1>3

LEMMA LoggedTypes ==
  ASSUME TypeOK, NEW i \in DOMAIN log
  PROVE  log[i] \in Actions /\ log[i].seq \in Nat /\ log[i].signer \in Users
<1>1. log[i] \in Actions
  BY ElementOfSeq, LenProperties DEF TypeOK
<1> QED
  BY <1>1, ActionFacts

LEMMA InitTracks == Init => AccountTracksLog /\ UnusedIsFresh
<1> SUFFICES ASSUME Init PROVE AccountTracksLog /\ UnusedIsFresh
  OBVIOUS
<1>1. DOMAIN log = {}
  BY DEF Init
<1>2. AccountTracksLog
  BY <1>1 DEF Init, AccountTracksLog
<1>3. UnusedIsFresh
  BY <1>1 DEF Init, UnusedIsFresh, HasAccount, By
<1> QED
  BY <1>2, <1>3

LEMMA StepFresh ==
  TypeOK /\ OwnKey /\ UnusedIsFresh /\ [Next]_vars => UnusedIsFresh'
<1> SUFFICES ASSUME TypeOK, OwnKey, UnusedIsFresh, [Next]_vars
             PROVE  UnusedIsFresh'
  OBVIOUS
<1>1. ASSUME UNCHANGED <<accounts, log>>
      PROVE  UnusedIsFresh'
  BY <1>1 DEF UnusedIsFresh, By, HasAccount
<1>2. ASSUME NEW act \in Actions,
             RunCreateAccount(act) \/ RunRemoveAccount(act) \/ RunSubmitForm(act)
      PROVE  UnusedIsFresh'
  <2> SUFFICES ASSUME NEW u \in Users, HasAccount(u)', accounts'[u].seq = 0
               PROVE  u \in Genesis /\ By(u)' = {}
    BY DEF UnusedIsFresh
  <2>1. CASE u = act.signer
    <3>1. act.seq > 0 /\ (act.type # "remove" => accounts'[u].seq = act.seq)
      BY <1>2, <2>1, AcceptEffect
    <3>2. act.type = "remove" => accounts'[u] = Removed
      BY <1>2, <2>1, AcceptEffect
    <3> QED
      BY <3>1, <3>2 DEF HasAccount
  <2>2. CASE u # act.signer
    <3>1. accounts'[u] = accounts[u] /\ Accept(act)
      BY <1>2, <2>2, AcceptEffect
    <3>2. By(u)' = By(u)
      BY <2>2, <3>1, ByGrows
    <3> QED
      BY <3>1, <3>2 DEF UnusedIsFresh, HasAccount
  <2> QED
    BY <2>1, <2>2
<1> QED
  BY <1>1, <1>2, StepCases DEF vars

LEMMA StepTracks ==
  TypeOK /\ OwnKey /\ AccountTracksLog /\ [Next]_vars => AccountTracksLog'
<1> DEFINE Tracks(u) ==
      /\ Touched(u) = {} => accounts[u] = IF u \in Genesis THEN NewAccount(u) ELSE Absent
      /\ \A i \in DOMAIN log : Newest(i, Touched(u)) =>
           IF log[i].signer # u THEN accounts[u] = log[i].data.cid
           ELSE IF log[i].type = "remove" THEN accounts[u] = Removed
           ELSE /\ HasAccount(u)
                /\ accounts[u].pubKey = u
                /\ accounts[u].seq = log[i].seq
<1> SUFFICES ASSUME TypeOK, OwnKey, AccountTracksLog, [Next]_vars
             PROVE  AccountTracksLog'
  OBVIOUS
<1>1. ASSUME UNCHANGED <<accounts, log>>
      PROVE  AccountTracksLog'
  BY <1>1 DEF AccountTracksLog, Touched, By, Submits, HasAccount
<1>2. ASSUME NEW act \in Actions,
             RunCreateAccount(act) \/ RunRemoveAccount(act) \/ RunSubmitForm(act)
      PROVE  AccountTracksLog'
  <2>1. Accept(act) /\ act.signer \in Users
    BY <1>2, AcceptEffect
  <2>2. PICK n \in Nat : /\ n = Len(log)
                         /\ DOMAIN log = 1 .. n
                         /\ \A i \in DOMAIN log : log'[i] = log[i]
                         /\ log'[n + 1] = act
    BY <2>1, LogGrows
  <2>3. ASSUME NEW u \in Users
        PROVE  /\ Touched(u) = By(u) \cup SubmitsOf(u)
               /\ Touched(u)' = By(u)' \cup SubmitsOf(u)'
               /\ Touched(u) \subseteq 1 .. n
    BY <2>2 DEF Touched, SubmitsOf, By
  <2>4. ASSUME NEW u \in Users, u = act.signer \/ Over(act, u)
        PROVE  Tracks(u)'
    <3>1. Touched(u)' = Touched(u) \cup {n + 1}
      BY <2>1, <2>2, <2>3, <2>4, ByGrows, SubmitsGrow
    <3>2. \A i : Newest(i, Touched(u)') => i = n + 1
      BY <2>3, <3>1, NewestGrows
    <3>3. IF act.signer # u THEN accounts'[u] = act.data.cid
          ELSE IF act.type = "remove" THEN accounts'[u] = Removed
          ELSE /\ HasAccount(u)'
               /\ accounts'[u].pubKey = u
               /\ accounts'[u].seq = act.seq
      BY <1>2, <2>4, AcceptEffect
    <3> QED
      BY <2>2, <3>1, <3>2, <3>3
  <2>5. ASSUME NEW u \in Users, ~(u = act.signer \/ Over(act, u))
        PROVE  Tracks(u)'
    <3>1. accounts'[u] = accounts[u]
      BY <1>2, <2>5, AcceptEffect
    <3>2. Touched(u)' = Touched(u)
      BY <2>1, <2>3, <2>5, ByGrows, SubmitsGrow
    <3>3. \A i \in Touched(u) : log'[i] = log[i] /\ i \in DOMAIN log
      BY <2>2, <2>3
    <3>4. HasAccount(u)' <=> HasAccount(u)
      BY <3>1 DEF HasAccount
    <3>5. Tracks(u)
      BY DEF AccountTracksLog
    <3> QED
      BY <3>1, <3>2, <3>3, <3>4, <3>5 DEF Newest
  <2> QED
    BY <2>4, <2>5 DEF AccountTracksLog
<1> QED
  BY <1>1, <1>2, StepCases DEF vars

-----------------------------------------------------------------------------
(* Borrowed accounts *)

LEMMA InitBorrowed == Init => BorrowedUnused
<1> SUFFICES ASSUME Init PROVE BorrowedUnused
  OBVIOUS
<1>1. DOMAIN log = {}
  BY DEF Init
<1> QED
  BY <1>1 DEF BorrowedUnused

LEMMA StepBorrowed ==
  TypeOK /\ OwnKey /\ UnusedIsFresh /\ BorrowedUnused /\ [Next]_vars => BorrowedUnused'
<1> SUFFICES ASSUME TypeOK, OwnKey, UnusedIsFresh, BorrowedUnused, [Next]_vars
             PROVE  BorrowedUnused'
  OBVIOUS
<1>1. ASSUME UNCHANGED log
      PROVE  BorrowedUnused'
  BY <1>1 DEF BorrowedUnused, Borrows, By
<1>2. ASSUME NEW act \in Actions,
             RunCreateAccount(act) \/ RunRemoveAccount(act) \/ RunSubmitForm(act)
      PROVE  BorrowedUnused'
  <2>1. Accept(act) /\ act.signer \in Users
    BY <1>2, AcceptEffect
  <2>2. PICK n \in Nat : /\ n = Len(log)
                         /\ DOMAIN log = 1 .. n
                         /\ DOMAIN log' = 1 .. n + 1
                         /\ \A i \in 1 .. n : log'[i] = log[i]
                         /\ log'[n + 1] = act
    BY <2>1, LogGrows
  <2> SUFFICES ASSUME NEW i \in 1 .. n + 1, Borrows(i)', NEW g, g = log'[i].addr
               PROVE  /\ g \in Genesis
                      /\ log'[i].seq = 1
                      /\ \A j \in By(g)' : i < j
    <3>1. ASSUME NEW g
          PROVE  By(g)' = {j \in DOMAIN log' : log'[j].signer = g}
      BY DEF By
    <3> QED
      BY <2>2, <3>1 DEF BorrowedUnused, By
  <2>3. CASE i \in 1 .. n
    <3>1. Borrows(i) /\ log'[i] = log[i]
      BY <2>2, <2>3 DEF Borrows
    <3>2. /\ g \in Genesis
          /\ log[i].seq = 1
          /\ \A j \in By(g) : i < j
      BY <2>2, <2>3, <3>1 DEF BorrowedUnused
    <3>3. g \in Users
      BY <3>2, ConstantsAssumption
    <3>4. By(g)' \subseteq By(g) \cup {n + 1}
      <4>1. CASE g = act.signer
        <5>1. By(act.signer)' = By(act.signer) \cup {n + 1}
          BY <2>1, <2>2, ByGrows
        <5> QED
          BY <4>1, <5>1
      <4>2. CASE g # act.signer
        BY <2>1, <3>3, <4>2, ByGrows
      <4> QED
        BY <4>1, <4>2
    <3> QED
      BY <2>3, <3>1, <3>2, <3>4
  <2>4. CASE i = n + 1
    <3>1. act.type # "create" /\ act.addr # act.signer
      BY <2>2, <2>4 DEF Borrows
    <3>2. Named(act)
      BY <1>2, <3>1, AcceptEffect
    <3>3. act.addr \in Users /\ HasAccount(act.addr) /\ act.seq = 1 /\ accounts[act.addr].seq = 0
      <4>1. /\ act.addr \in Users /\ HasAccount(act.addr) /\ act.seq = 1
            /\ act.seq = accounts[act.addr].seq + 1
        BY <3>1, <3>2 DEF Named
      <4>2. accounts[act.addr].seq \in Nat
        BY <4>1 DEF TypeOK, HasAccount, Account
      <4> QED
        BY <4>1, <4>2
    <3>4. act.addr \in Genesis /\ By(act.addr) = {}
      BY <3>3 DEF UnusedIsFresh
    <3>5. By(act.addr)' = {}
      BY <2>1, <3>1, <3>3, <3>4, ByGrows
    <3>6. g = act.addr /\ log'[i] = act
      BY <2>2, <2>4
    <3> QED
      BY <3>3, <3>4, <3>5, <3>6
  <2> QED
    BY <2>3, <2>4
<1> QED
  BY <1>1, <1>2, StepCases DEF vars

-----------------------------------------------------------------------------
(* Replay *)

LEMMA InitReplay == Init => SeqIsLargest /\ NoReplay
<1> SUFFICES ASSUME Init PROVE SeqIsLargest /\ NoReplay
  OBVIOUS
<1>1. DOMAIN log = {}
  BY DEF Init
<1> QED
  BY <1>1 DEF SeqIsLargest, NoReplay, By

LEMMA RenewsGrows ==
  ASSUME TypeOK, NEW act \in Actions, Accept(act)
  PROVE  /\ \A k \in 1 .. Len(log), u \in Users : Renews(k, u)' <=> Renews(k, u)
         /\ \A k, u : k = Len(log) + 1 =>
              (Renews(k, u)' <=>
                 act.signer = u /\ (act.type = "create" \/ act.addr # act.signer))
<1>1. ASSUME NEW k \in 1 .. Len(log), NEW u \in Users
      PROVE  Renews(k, u)' <=> Renews(k, u)
  <2>1. log'[k] = log[k]
    BY LogGrows
  <2> QED
    BY <2>1 DEF Renews, Borrows
<1>2. ASSUME NEW k, NEW u, k = Len(log) + 1
      PROVE  Renews(k, u)' <=>
               act.signer = u /\ (act.type = "create" \/ act.addr # act.signer)
  <2>1. log'[k] = act
    BY <1>2, LogGrows
  <2> QED
    BY <2>1 DEF Renews, Borrows
<1> QED
  BY <1>1, <1>2

LEMMA StepReplay ==
  TypeOK /\ OwnKey /\ SeqIsLargest /\ NoReplay /\ [Next]_vars
    => SeqIsLargest' /\ NoReplay'
<1> SUFFICES ASSUME TypeOK, OwnKey, SeqIsLargest, NoReplay, [Next]_vars
             PROVE  SeqIsLargest' /\ NoReplay'
  OBVIOUS
<1>1. ASSUME UNCHANGED <<accounts, log>>
      PROVE  SeqIsLargest' /\ NoReplay'
  BY <1>1 DEF SeqIsLargest, NoReplay, By, Renews, Borrows, HasAccount
<1>2. ASSUME NEW act \in Actions,
             RunCreateAccount(act) \/ RunRemoveAccount(act) \/ RunSubmitForm(act)
      PROVE  SeqIsLargest' /\ NoReplay'
  <2> DEFINE u == act.signer
  <2>1. Accept(act) /\ u \in Users /\ act.seq \in Nat
    BY <1>2, AcceptEffect, ActionFacts
  <2>n. PICK n \in Nat : n = Len(log)
    BY <2>1, LogGrows
  <2>2. /\ n = Len(log)
        /\ DOMAIN log = 1 .. n
        /\ DOMAIN log' = 1 .. n + 1
        /\ Len(log') = n + 1
        /\ \A i \in 1 .. n : log'[i] = log[i]
        /\ log'[n + 1] = act
    BY <2>1, <2>n, LogGrows
  <2>3. /\ \A k \in 1 .. n, v \in Users : Renews(k, v)' <=> Renews(k, v)
        /\ \A v \in Users : Renews(n + 1, v)' <=>
             u = v /\ (act.type = "create" \/ act.addr # u)
    BY <2>1, <2>n, RenewsGrows
  <2>4. ASSUME NEW i \in 1 .. n, log[i].signer = u,
               \A k \in i + 1 .. n + 1 : ~Renews(k, u)'
        PROVE  log[i].seq < act.seq
    <3>1. ~Renews(n + 1, u)'
      BY <2>2, <2>4
    <3>2. act.type # "create" /\ act.addr = u
      BY <2>1, <2>3, <3>1
    <3>3. HasAccount(u) /\ act.seq = accounts[u].seq + 1
      BY <1>2, <3>2, AcceptEffect DEF Named
    <3>4. \A k \in i + 1 .. n : ~Renews(k, u)
      BY <2>1, <2>2, <2>3, <2>4
    <3>5. i \in By(u)
      BY <2>2, <2>4 DEF By
    <3>6. log[i].seq <= accounts[u].seq
      BY <2>1, <2>2, <3>3, <3>4, <3>5 DEF SeqIsLargest
    <3>7. log[i].seq \in Nat /\ accounts[u].seq \in Nat
      BY <2>1, <2>2, <3>3, LoggedTypes DEF TypeOK, HasAccount, Account
    <3> QED
      BY <3>3, <3>6, <3>7
  <2>5. NoReplay'
    <3> SUFFICES ASSUME NEW i \in 1 .. n + 1, NEW j \in 1 .. n + 1,
                        i < j,
                        NEW v, log'[i].signer = v, log'[j].signer = v,
                        \A k \in i + 1 .. j : ~Renews(k, v)'
                 PROVE  log'[i].seq < log'[j].seq
      BY <2>2 DEF NoReplay, Renews, Borrows
    <3>1. CASE j \in 1 .. n
      <4>1. i \in 1 .. n /\ log[i].signer = v /\ log[j].signer = v /\ v \in Users
        BY <2>2, <3>1, LoggedTypes
      <4>2. \A k \in i + 1 .. j : k \in 1 .. n
        BY <3>1
      <4>3. \A k \in i + 1 .. j : ~Renews(k, v)
        BY <2>3, <4>1, <4>2
      <4> QED
        BY <2>2, <3>1, <4>1, <4>3 DEF NoReplay
    <3>2. CASE j = n + 1
      BY <2>2, <2>4, <3>2
    <3> QED
      BY <2>2, <3>1, <3>2
  <2>6. SeqIsLargest'
    <3> SUFFICES ASSUME NEW v \in Users, HasAccount(v)', NEW i \in By(v)',
                        \A k \in i + 1 .. n + 1 : ~Renews(k, v)'
                 PROVE  log'[i].seq <= accounts'[v].seq
      BY <2>2 DEF SeqIsLargest
    <3>1. CASE v # u
      <4>1. accounts'[v] = accounts[v] /\ i \in By(v)
        BY <1>2, <2>1, <3>1, AcceptEffect, ByGrows
      <4>2. i \in 1 .. n /\ HasAccount(v)
        BY <2>2, <4>1 DEF By, HasAccount
      <4>3. \A k \in i + 1 .. n : ~Renews(k, v)
        BY <2>2, <2>3, <4>2
      <4> QED
        BY <2>2, <4>1, <4>2, <4>3 DEF SeqIsLargest
    <3>2. CASE v = u
      <4>1. accounts'[u].seq = act.seq
        BY <1>2, <3>2, AcceptEffect DEF HasAccount
      <4>2. i \in 1 .. n + 1 /\ log'[i].signer = u
        BY <2>2, <3>2 DEF By
      <4>3. CASE i \in 1 .. n
        <5>1. log[i].seq < act.seq
          BY <2>2, <2>4, <3>2, <4>2, <4>3
        <5> QED
          BY <2>1, <2>2, <3>2, <4>1, <4>3, <5>1, LoggedTypes
      <4>4. CASE i = n + 1
        BY <2>1, <2>2, <3>2, <4>1, <4>4
      <4> QED
        BY <2>2, <4>2, <4>3, <4>4
    <3> QED
      BY <3>1, <3>2
  <2> QED
    BY <2>5, <2>6
<1> QED
  BY <1>1, <1>2, StepCases DEF vars

-----------------------------------------------------------------------------
(* Forms and filters *)

LEMMA InitLogged == Init => LoggedForms /\ FormsFollowLog /\ FiltersFollowLog
<1> SUFFICES ASSUME Init PROVE LoggedForms /\ FormsFollowLog /\ FiltersFollowLog
  OBVIOUS
<1>1. DOMAIN log = {}
  BY DEF Init
<1> QED
  BY <1>1 DEF Init, LoggedForms, FormsFollowLog, FiltersFollowLog

LEMMA StepLogged == TypeOK /\ OwnKey /\ LoggedForms /\ [Next]_vars => LoggedForms'
<1> SUFFICES ASSUME TypeOK, OwnKey, LoggedForms, [Next]_vars
             PROVE  LoggedForms'
  OBVIOUS
<1>1. ASSUME UNCHANGED log
      PROVE  LoggedForms'
  BY <1>1 DEF LoggedForms
<1>2. ASSUME NEW act \in Actions,
             RunCreateAccount(act) \/ RunRemoveAccount(act) \/ RunSubmitForm(act)
      PROVE  LoggedForms'
  <2>1. act.type = "submit" => act.data \in Infos /\ act.data.issue \in Issues
    BY <1>2, CreateEffect, RemoveEffect, SubmitEffect
  <2>2. /\ DOMAIN log' = DOMAIN log \cup {Len(log) + 1}
        /\ \A i \in DOMAIN log : log'[i] = log[i]
        /\ log'[Len(log) + 1] = act
    BY <1>2, AcceptEffect, LogGrows
  <2> QED
    BY <2>1, <2>2 DEF LoggedForms
<1> QED
  BY <1>1, <1>2, StepCases DEF vars

LEMMA StepForms ==
  TypeOK /\ OwnKey /\ FormsFollowLog /\ [Next]_vars => FormsFollowLog'
<1> DEFINE Follows(id) ==
      /\ SubmitsOf(id) = {} => forms[id] = Absent
      /\ \A i \in SubmitsOf(id) :
           Newest(i, SubmitsOf(id)) => forms[id] = log[i].data.cid
<1> SUFFICES ASSUME TypeOK, OwnKey, FormsFollowLog, [Next]_vars
             PROVE  FormsFollowLog'
  OBVIOUS
<1>a. \A id \in FormIDs : Follows(id)
  BY DEF FormsFollowLog, SubmitsOf
<1>1. ASSUME UNCHANGED <<forms, log>>
      PROVE  FormsFollowLog'
  BY <1>1 DEF FormsFollowLog, Submits
<1>2. ASSUME NEW act \in Actions,
             RunCreateAccount(act) \/ RunRemoveAccount(act) \/ RunSubmitForm(act)
      PROVE  FormsFollowLog'
  <2>1. /\ Accept(act)
        /\ \/ act.type # "submit" /\ forms' = forms
           \/ /\ act.type = "submit"
              /\ act.data \in Infos
              /\ forms' = SetForm(act.data)
    BY <1>2, CreateEffect, RemoveEffect, SubmitEffect
  <2>2. PICK n \in Nat : n = Len(log)
    BY <2>1, LogGrows
  <2>3. /\ DOMAIN log = 1 .. n
        /\ \A i \in DOMAIN log : log'[i] = log[i]
        /\ log'[n + 1] = act
    BY <2>1, <2>2, LogGrows
  <2>4. ASSUME NEW id \in FormIDs
        PROVE  Follows(id)'
    <3>1. SubmitsOf(id) \subseteq 1 .. n
      BY <2>3 DEF SubmitsOf
    <3>2. CASE act.type = "submit" /\ act.data.id = id
      <4>1. SubmitsOf(id)' = SubmitsOf(id) \cup {n + 1}
        BY <2>1, <2>2, <3>2, SubmitsGrow DEF Over
      <4>2. forms'[id] = act.data.cid
        BY <2>1, <3>2 DEF TypeOK, SetForm
      <4>3. \A i : Newest(i, SubmitsOf(id)') => i = n + 1
        BY <3>1, <4>1, NewestGrows
      <4> QED
        BY <2>3, <4>1, <4>2, <4>3
    <3>3. CASE ~(act.type = "submit" /\ act.data.id = id)
      <4>1. SubmitsOf(id)' = SubmitsOf(id)
        BY <2>1, <3>3, SubmitsGrow DEF Over
      <4>2. forms'[id] = forms[id]
        BY <2>1, <3>3 DEF TypeOK, SetForm
      <4>3. \A i \in SubmitsOf(id) : log'[i] = log[i]
        BY <2>3, <3>1
      <4> QED
        BY <1>a, <4>1, <4>2, <4>3 DEF Newest
    <3> QED
      BY <3>2, <3>3
  <2> QED
    BY <2>4 DEF FormsFollowLog, SubmitsOf
<1> QED
  BY <1>1, <1>2, StepCases DEF vars

LEMMA StepFilters ==
  TypeOK /\ OwnKey /\ FiltersFollowLog /\ [Next]_vars => FiltersFollowLog'
<1> DEFINE Under(issue) ==
      {j \in DOMAIN log : log[j].type = "submit" /\ log[j].data.issue = issue}
<1> SUFFICES ASSUME TypeOK, OwnKey, FiltersFollowLog, [Next]_vars
             PROVE  FiltersFollowLog'
  OBVIOUS
<1>1. ASSUME UNCHANGED <<filters, log>>
      PROVE  FiltersFollowLog'
  BY <1>1 DEF FiltersFollowLog
<1>2. ASSUME NEW act \in Actions,
             RunCreateAccount(act) \/ RunRemoveAccount(act) \/ RunSubmitForm(act)
      PROVE  FiltersFollowLog'
  <2>1. /\ Accept(act)
        /\ \/ act.type # "submit" /\ filters' = filters
           \/ /\ act.type = "submit"
              /\ act.data.issue \in Issues
              /\ filters' =
                   [filters EXCEPT ![act.data.issue] = @ \cup {act.data.id}]
    BY <1>2, CreateEffect, RemoveEffect, SubmitEffect
  <2>2. /\ DOMAIN log' = DOMAIN log \cup {Len(log) + 1}
        /\ \A i \in DOMAIN log : log'[i] = log[i]
        /\ log'[Len(log) + 1] = act
    BY <2>1, LogGrows
  <2>3. ASSUME NEW issue \in Issues
        PROVE  filters'[issue] = {log'[i].data.id : i \in Under(issue)'}
    <3>1. filters[issue] = {log[i].data.id : i \in Under(issue)}
      BY DEF FiltersFollowLog
    <3>2. \A i \in Under(issue) : log'[i] = log[i]
      BY <2>2
    <3>3. CASE act.type = "submit" /\ act.data.issue = issue
      <4>1. Under(issue)' = Under(issue) \cup {Len(log) + 1}
        BY <2>2, <3>3
      <4>2. filters'[issue] = filters[issue] \cup {act.data.id}
        BY <2>1, <3>3 DEF TypeOK
      <4>3. {log'[i].data.id : i \in Under(issue)'} =
              {log[i].data.id : i \in Under(issue)} \cup {act.data.id}
        BY <2>2, <3>2, <4>1
      <4> QED
        BY <3>1, <4>2, <4>3
    <3>4. CASE ~(act.type = "submit" /\ act.data.issue = issue)
      <4>1. Under(issue)' = Under(issue)
        BY <2>2, <3>4
      <4>2. filters'[issue] = filters[issue]
        BY <2>1, <3>4 DEF TypeOK
      <4> QED
        BY <3>1, <3>2, <4>1, <4>2
    <3> QED
      BY <3>3, <3>4
  <2> QED
    BY <2>3 DEF FiltersFollowLog
<1> QED
  BY <1>1, <1>2, StepCases DEF vars

-----------------------------------------------------------------------------
(* The forms an account lists *)

LEMMA InitListed == Init => SequenceCountsForms /\ ListedFormsFindable
<1> SUFFICES ASSUME Init
             PROVE  SequenceCountsForms /\ ListedFormsFindable
  OBVIOUS
<1>1. ASSUME NEW u \in Users, HasAccount(u)
      PROVE  /\ accounts[u].seq = Len(accounts[u].formIDs) + Offset(u)
             /\ DOMAIN accounts[u].formIDs = {}
  <2>1. accounts[u] = NewAccount(u)
    BY <1>1 DEF Init, HasAccount
  <2>2. accounts[u].seq = 0 /\ accounts[u].formIDs = <<>>
    BY <2>1 DEF NewAccount
  <2>3. DOMAIN log = {}
    BY DEF Init
  <2>4. Offset(u) = 0
    BY <2>3 DEF Offset
  <2> QED
    BY <2>2, <2>4
<1> QED
  BY <1>1 DEF SequenceCountsForms, ListedFormsFindable

LEMMA OffsetGrows ==
  ASSUME TypeOK, NEW act \in Actions, Accept(act), NEW u \in Users
  PROVE  /\ Offset(u) \in {0, 1}
         /\ Offset(u)' = IF act.signer = u /\ act.seq = 1
                         THEN (IF act.type = "create" THEN 1 ELSE 0) ELSE Offset(u)
<1> DEFINE Started == \E i \in DOMAIN log : Newest(i, Firsts(u)) /\ log[i].type = "create"
<1>1. PICK n \in Nat : /\ n = Len(log)
                       /\ DOMAIN log = 1 .. n
                       /\ DOMAIN log' = 1 .. n + 1
                       /\ \A i \in 1 .. n : log'[i] = log[i]
                       /\ log'[n + 1] = act
  BY LogGrows
<1>2. Firsts(u) = {i \in By(u) : log[i].seq = 1} /\ Firsts(u)' = {i \in By(u)' : log'[i].seq = 1}
  BY DEF Firsts
<1>3. By(u) \subseteq 1 .. n
  BY <1>1 DEF By
<1>4. By(u)' = IF act.signer = u THEN By(u) \cup {n + 1} ELSE By(u)
  BY <1>1, ByGrows
<1>5. Firsts(u)' = IF act.signer = u /\ act.seq = 1 THEN Firsts(u) \cup {n + 1} ELSE Firsts(u)
  BY <1>1, <1>2, <1>3, <1>4
<1>6. CASE act.signer = u /\ act.seq = 1
  <2>1. Firsts(u)' = Firsts(u) \cup {n + 1} /\ Firsts(u) \subseteq 1 .. n
    BY <1>2, <1>3, <1>5, <1>6
  <2> DEFINE S == Firsts(u)
  <2> HIDE DEF S
  <2>a. S \in SUBSET (1 .. n) /\ S' = S \cup {n + 1}
    BY <2>1 DEF S
  <2>b. \A i : Newest(i, S \cup {n + 1}) <=> i = n + 1
    BY <2>a, NewestGrows
  <2>2. \A i : Newest(i, Firsts(u)') <=> i = n + 1
    BY <2>a, <2>b DEF S
  <2>3. Started' <=> act.type = "create"
    BY <1>1, <2>2
  <2> QED
    BY <1>6, <2>3 DEF Offset
<1>7. CASE ~(act.signer = u /\ act.seq = 1)
  <2>1. Firsts(u)' = Firsts(u) /\ Firsts(u) \subseteq 1 .. n
    BY <1>2, <1>3, <1>5, <1>7
  <2>2. Started' <=> \E i \in 1 .. n + 1 : Newest(i, Firsts(u)) /\ log'[i].type = "create"
    BY <1>1, <2>1
  <2>3. Started <=> \E i \in 1 .. n : Newest(i, Firsts(u)) /\ log[i].type = "create"
    BY <1>1
  <2>4. \A i : Newest(i, Firsts(u)) => i \in 1 .. n
    BY <2>1 DEF Newest
  <2>5. Started' <=> Started
    BY <1>1, <2>2, <2>3, <2>4
  <2> QED
    BY <1>7, <2>5 DEF Offset
<1> QED
  BY <1>6, <1>7 DEF Offset

\* The list an accepted form is added to, and the number of the form's action:
\* on the signer's own account it goes on from there, on a borrowed one it starts.
LEMMA ListedBefore ==
  ASSUME TypeOK, OwnKey, SequenceCountsForms, NEW act \in Actions, RunSubmitForm(act)
  PROVE  /\ Len(accounts[act.addr].formIDs) \in Nat
         /\ act.seq = Len(accounts[act.addr].formIDs) + 1 + Offset(act.signer)'
         /\ \/ act.addr = act.signer /\ HasAccount(act.signer)
            \/ Len(accounts[act.addr].formIDs) = 0
         /\ act.seq = 1 \/ (act.addr = act.signer /\ Offset(act.signer)' = Offset(act.signer))
         /\ act.seq = 1 => Len(accounts[act.addr].formIDs) = 0
<1> DEFINE old == accounts[act.addr].formIDs
<1>1. /\ Accept(act) /\ act.type = "submit" /\ act.signer \in Users
      /\ act.addr \in Users /\ HasAccount(act.addr)
      /\ act.seq = accounts[act.addr].seq + 1
      /\ act.addr = act.signer \/ act.seq = 1
      /\ old \in Seq(FormIDs \cup Users)
  BY SubmitEffect, ActionFacts DEF Named
<1>2. Len(old) \in Nat
  BY <1>1, LenProperties
<1>3. accounts[act.addr].seq = Len(old) + Offset(act.addr)
  BY <1>1 DEF SequenceCountsForms
<1>4. Offset(act.addr) \in {0, 1}
  BY <1>1, OffsetGrows
<1>5. Offset(act.signer)' = IF act.seq = 1 THEN 0 ELSE Offset(act.signer)
  BY <1>1, OffsetGrows
<1>6. CASE act.seq = 1
  <2>1. Len(old) = 0
    BY <1>1, <1>2, <1>3, <1>4, <1>6
  <2> QED
    BY <1>2, <1>5, <1>6, <2>1
<1>7. CASE act.seq # 1
  <2>1. act.addr = act.signer
    BY <1>1, <1>7
  <2> QED
    BY <1>1, <1>2, <1>3, <1>4, <1>5, <1>7, <2>1
<1> QED
  BY <1>6, <1>7

LEMMA StepCounts ==
  TypeOK /\ OwnKey /\ SequenceCountsForms /\ [Next]_vars => SequenceCountsForms'
<1> SUFFICES ASSUME TypeOK, OwnKey, SequenceCountsForms, [Next]_vars
             PROVE  SequenceCountsForms'
  OBVIOUS
<1>1. ASSUME UNCHANGED <<accounts, log>>
      PROVE  SequenceCountsForms'
  BY <1>1 DEF SequenceCountsForms, HasAccount, Offset, Firsts, By
<1>2. ASSUME NEW act \in Actions,
             RunCreateAccount(act) \/ RunRemoveAccount(act) \/ RunSubmitForm(act)
      PROVE  SequenceCountsForms'
  <2> SUFFICES ASSUME NEW u \in Users, HasAccount(u)'
               PROVE  accounts'[u].seq = Len(accounts'[u].formIDs) + Offset(u)'
    BY DEF SequenceCountsForms
  <2>1. CASE u # act.signer
    <3>1. accounts'[u] = accounts[u]
      BY <1>2, <2>1, AcceptEffect
    <3>2. Offset(u)' = Offset(u)
      BY <1>2, <2>1, AcceptEffect, OffsetGrows
    <3> QED
      BY <3>1, <3>2 DEF SequenceCountsForms, HasAccount
  <2>2. CASE u = act.signer /\ RunCreateAccount(act)
    <3>1. accounts'[u] = Left(act, <<>>) /\ act.seq = 1 /\ act.type = "create" /\ Accept(act)
      BY <2>2, CreateEffect DEF RecordsSet
    <3>2. Left(act, <<>>).seq = act.seq /\ Left(act, <<>>).formIDs = <<>>
      BY LeftFacts, EmptySeq
    <3>3. accounts'[u].seq = 1 /\ accounts'[u].formIDs = <<>>
      BY <3>1, <3>2
    <3>4. Offset(u)' = 1
      BY <2>2, <3>1, OffsetGrows
    <3> QED
      BY <3>3, <3>4
  <2>3. CASE u = act.signer /\ RunRemoveAccount(act)
    BY <2>3, RemoveEffect DEF RecordsSet, HasAccount
  <2>4. CASE u = act.signer /\ RunSubmitForm(act)
    <3> DEFINE old == accounts[act.addr].formIDs
               listed == Append(old, act.data.id)
    <3>1. /\ RecordsSet(act, Left(act, listed))
          /\ old \in Seq(FormIDs \cup Users)
          /\ listed \in Seq(FormIDs \cup Users)
          /\ act.data \in Infos
      BY <2>4, SubmitEffect
    <3>2. Left(act, listed).seq = act.seq /\ Left(act, listed).formIDs = listed
      BY <3>1, LeftFacts
    <3>3. Len(listed) = Len(old) + 1 /\ Len(old) \in Nat
      BY <3>1, InfoFacts, AppendProperties, LenProperties
    <3>4. accounts'[u] = Left(act, listed)
      BY <2>4, <3>1 DEF RecordsSet
    <3>5. act.seq = Len(old) + 1 + Offset(u)'
      BY <2>4, ListedBefore
    <3> QED
      BY <3>2, <3>3, <3>4, <3>5
  <2> QED
    BY <1>2, <2>1, <2>2, <2>3, <2>4
<1> QED
  BY <1>1, <1>2, StepCases DEF vars

\* The k-th form of a list is the one of the accepted action i.
Finds(u, k, id, i) ==
  /\ i \in By(u)
  /\ Submits(i, id)
  /\ log[i].seq = k + Offset(u)
  /\ log[i].data.id \in FormIDs => forms[log[i].data.id] # Absent
  /\ log[i].data.id \in filters[log[i].data.issue]

LEMMA FindsLasts ==
  ASSUME TypeOK, OwnKey, LoggedForms, NEW act \in Actions,
         RunCreateAccount(act) \/ RunRemoveAccount(act) \/ RunSubmitForm(act),
         NEW u \in Users, ~(act.signer = u /\ act.seq = 1),
         NEW k, NEW id, NEW i, Finds(u, k, id, i)
  PROVE  Finds(u, k, id, i)'
<1>1. Accept(act)
  BY AcceptEffect
<1>2. i \in DOMAIN log /\ log'[i] = log[i] /\ i \in DOMAIN log' /\ i \in By(u)
  BY <1>1, LogGrows DEF Finds, By
<1>3. i \in By(u)' /\ Submits(i, id)'
  BY <1>2 DEF By, Submits, Finds
<1>4. Offset(u)' = Offset(u)
  BY <1>1, OffsetGrows
<1>5. log[i].data.issue \in Issues
  BY <1>2 DEF LoggedForms, Finds, Submits
<1>6. log[i].data.id \in FormIDs => forms'[log[i].data.id] # Absent
  <2>1. CASE forms' = forms
    BY <2>1 DEF Finds
  <2>2. CASE RunSubmitForm(act)
    <3>1. act.data \in Infos /\ forms' = SetForm(act.data) /\ act.data.cid # Absent
      BY <2>2, SubmitEffect, InfoFacts
    <3>2. forms \in [FormIDs -> ContentIDs \cup {Absent}]
      BY DEF TypeOK
    <3> QED
      BY <3>1, <3>2 DEF Finds, SetForm
  <2> QED
    BY <2>1, <2>2, CreateEffect, RemoveEffect
<1>7. log[i].data.id \in filters'[log[i].data.issue]
  <2>1. CASE filters' = filters
    BY <2>1 DEF Finds
  <2>2. CASE RunSubmitForm(act)
    <3>1. filters' = [filters EXCEPT ![act.data.issue] = @ \cup {act.data.id}]
      BY <2>2, SubmitEffect
    <3> QED
      BY <1>5, <3>1 DEF Finds, TypeOK
  <2> QED
    BY <2>1, <2>2, CreateEffect, RemoveEffect
<1>8. log'[i].seq = k + Offset(u)'
  BY <1>2, <1>4 DEF Finds
<1> QED
  BY <1>2, <1>3, <1>6, <1>7, <1>8 DEF Finds

\* An accepted form is found in its place at the end of the list.
LEMMA FindsLast ==
  ASSUME TypeOK, OwnKey, SequenceCountsForms, NEW act \in Actions, RunSubmitForm(act),
         NEW k, k = Len(accounts[act.addr].formIDs) + 1, NEW i, i = Len(log) + 1
  PROVE  Finds(act.signer, k, act.data.id, i)'
<1> DEFINE u == act.signer
<1>1. /\ Accept(act) /\ act.type = "submit" /\ u \in Users
      /\ act.data \in Infos /\ act.data.issue \in Issues /\ act.data.cid # Absent
      /\ forms' = SetForm(act.data)
      /\ filters' = [filters EXCEPT ![act.data.issue] = @ \cup {act.data.id}]
  BY SubmitEffect, InfoFacts, ActionFacts
<1>2. PICK n \in Nat : /\ n = Len(log)
                       /\ n + 1 \in DOMAIN log'
                       /\ log'[n + 1] = act
  BY <1>1, LogGrows
<1>3. n + 1 \in By(u)'
  BY <1>2 DEF By
<1>4. Submits(n + 1, act.data.id)'
  BY <1>1, <1>2 DEF Submits
<1>5. log'[n + 1].seq = k + Offset(u)'
  BY <1>2, ListedBefore
<1>6. act.data.id \in FormIDs => forms'[act.data.id] # Absent
  BY <1>1 DEF SetForm, TypeOK
<1>7. act.data.id \in filters'[act.data.issue]
  BY <1>1 DEF TypeOK
<1>8. Finds(u, k, act.data.id, n + 1)'
  BY <1>2, <1>3, <1>4, <1>5, <1>6, <1>7 DEF Finds
<1>9. i = n + 1
  BY <1>2
<1> QED
  BY <1>8, <1>9

LEMMA StepListed ==
  /\ TypeOK /\ OwnKey /\ LoggedForms
  /\ SequenceCountsForms /\ ListedFormsFindable
  /\ [Next]_vars
  => ListedFormsFindable'
<1> DEFINE Listed(u) ==
      HasAccount(u) => \A k \in DOMAIN accounts[u].formIDs :
        \E i : Finds(u, k, accounts[u].formIDs[k], i)
<1> SUFFICES ASSUME TypeOK, OwnKey, LoggedForms,
                    SequenceCountsForms, ListedFormsFindable, [Next]_vars
             PROVE  ListedFormsFindable'
  OBVIOUS
<1>a. \A u \in Users : Listed(u)
  BY DEF ListedFormsFindable, Finds
<1>1. ASSUME UNCHANGED <<accounts, forms, filters, log>>
      PROVE  ListedFormsFindable'
  BY <1>1 DEF ListedFormsFindable, HasAccount, By, Submits, Offset, Firsts
<1>2. ASSUME NEW act \in Actions,
             RunCreateAccount(act) \/ RunRemoveAccount(act) \/ RunSubmitForm(act)
      PROVE  ListedFormsFindable'
  <2>1. ASSUME NEW u \in Users, HasAccount(u)'
        PROVE  (\A k \in DOMAIN accounts[u].formIDs :
                  \E i : Finds(u, k, accounts[u].formIDs[k], i))'
    <3>1. SUFFICES ASSUME NEW k, NEW id,
                          k \in DOMAIN accounts'[u].formIDs,
                          id = accounts'[u].formIDs[k]
                   PROVE  \E i : Finds(u, k, id, i)'
      OBVIOUS
    <3>2. ASSUME HasAccount(u), ~(act.signer = u /\ act.seq = 1),
                 k \in DOMAIN accounts[u].formIDs, id = accounts[u].formIDs[k]
          PROVE  \E i : Finds(u, k, id, i)'
      <4>1. PICK i : Finds(u, k, id, i)
        BY <1>a, <3>2
      <4>2. Finds(u, k, id, i)'
        BY <1>2, <3>2, <4>1, FindsLasts
      <4> QED
        BY <4>2
    <3>3. CASE u # act.signer
      <4>1. accounts'[u] = accounts[u]
        BY <1>2, <2>1, <3>3, AcceptEffect
      <4> QED
        BY <2>1, <3>1, <3>2, <3>3, <4>1 DEF HasAccount
    <3>4. CASE u = act.signer /\ RunCreateAccount(act)
      <4>1. accounts'[u] = Left(act, <<>>)
        BY <3>4, CreateEffect DEF RecordsSet
      <4>2. Left(act, <<>>).formIDs = <<>>
        BY LeftFacts, EmptySeq
      <4> QED
        BY <3>1, <4>1, <4>2
    <3>5. CASE u = act.signer /\ RunRemoveAccount(act)
      BY <2>1, <3>5, RemoveEffect DEF RecordsSet, HasAccount
    <3>6. CASE u = act.signer /\ RunSubmitForm(act)
      <4> DEFINE old == accounts[act.addr].formIDs
                 listed == Append(old, act.data.id)
      <4>1. /\ accounts'[u] = Left(act, listed)
            /\ old \in Seq(FormIDs \cup Users)
            /\ listed \in Seq(FormIDs \cup Users)
            /\ act.data.id \in FormIDs \cup Users
        BY <3>6, SubmitEffect, InfoFacts DEF RecordsSet
      <4>2. Left(act, listed).formIDs = listed
        BY <4>1, LeftFacts
      <4>3. PICK m \in Nat : m = Len(old) /\ DOMAIN old = 1 .. m
        BY <4>1, LenProperties
      <4>4. /\ DOMAIN listed = 1 .. m + 1
            /\ listed[m + 1] = act.data.id
            /\ \A j \in 1 .. m : listed[j] = old[j]
        BY <4>1, <4>3, AppendProperties, LenProperties
      <4>5. k \in 1 .. m + 1 /\ id = listed[k]
        BY <3>1, <4>1, <4>2, <4>4
      <4>6. CASE k \in 1 .. m
        <5>1. act.addr = act.signer /\ HasAccount(act.signer) /\ act.seq # 1
          BY <3>6, <4>3, <4>6, ListedBefore
        <5> QED
          BY <3>2, <3>6, <4>3, <4>4, <4>5, <4>6, <5>1
      <4>7. CASE k = m + 1
        <5>1. PICK i : i = Len(log) + 1
          OBVIOUS
        <5>2. Finds(u, k, id, i)'
          BY <3>6, <4>3, <4>4, <4>5, <4>7, <5>1, FindsLast
        <5> QED
          BY <5>2
      <4> QED
        BY <4>3, <4>5, <4>6, <4>7
    <3> QED
      BY <1>2, <3>3, <3>4, <3>5, <3>6
  <2> QED
    BY <2>1 DEF ListedFormsFindable, Finds, HasAccount
<1> QED
  BY <1>1, <1>2, StepCases DEF vars

-----------------------------------------------------------------------------
(* The inductive invariant *)

IInv ==
  /\ TypeOK
  /\ OwnKey
  /\ UnusedIsFresh
  /\ LoggedForms
  /\ AccountTracksLog
  /\ BorrowedUnused
  /\ SeqIsLargest
  /\ NoReplay
  /\ SequenceCountsForms
  /\ ListedFormsFindable
  /\ FormsFollowLog
  /\ FiltersFollowLog

\* Every invariant of the runs holds of the ledger in every reachable state,
\* together with what they rest on.
THEOREM Invariance == Spec => []IInv
<1>1. Init => IInv
  BY InitTypeOK, InitOwnKey, InitLogged, InitTracks, InitBorrowed, InitReplay, InitListed
     DEF IInv
<1>2. IInv /\ [Next]_vars => IInv'
  BY StepTypeOK, StepOwnKey, StepFresh, StepLogged, StepTracks, StepBorrowed, StepReplay,
     StepCounts, StepListed, StepForms, StepFilters DEF IInv
<1> QED
  BY <1>1, <1>2, PTL DEF Spec

\* The stored account of an address is what the newest accepted action left that
\* was signed with its key, or the form filed over it since.
THEOREM AccountsTrackLog == Spec => []AccountTracksLog
  BY Invariance, PTL DEF IInv

\* Only an account of the genesis file whose key has signed nothing yet is used
\* with another user's key.
THEOREM BorrowedOnce == Spec => []BorrowedUnused
  BY Invariance, PTL DEF IInv

\* Until a key begins its account anew, no sequence number is accepted twice of
\* it.
THEOREM ReplayProtection == Spec => []NoReplay
  BY Invariance, PTL DEF IInv

\* A live account is charged once for its creation and once for each form.
THEOREM ChargedOnce == Spec => []SequenceCountsForms
  BY Invariance, PTL DEF IInv

\* Every form an account lists is in the filter of its issue, and in the store
\* unless filed over an account.
THEOREM FormsFindable == Spec => []ListedFormsFindable
  BY Invariance, PTL DEF IInv

\* The store holds, for every form identifier, the newest accepted content.
THEOREM FormsTrackLog == Spec => []FormsFollowLog
  BY Invariance, PTL DEF IInv

\* The filters, written past the cache, hold the accepted forms and no others.
THEOREM FiltersTrackLog == Spec => []FiltersFollowLog
  BY Invariance, PTL DEF IInv

-----------------------------------------------------------------------------
(* The life cycle of accounts *)

LEMMA StageFacts ==
  ASSUME NEW act \in Actions, NEW formIDs \in Seq(FormIDs \cup Users)
  PROVE  Stage(Left(act, formIDs)) = [status |-> "open", used |-> act.seq]
<1>1. /\ Left(act, formIDs) \notin ContentIDs \cup {Absent, Removed}
      /\ Left(act, formIDs).seq = act.seq
  BY LeftFacts
<1> QED
  BY <1>1 DEF Stage

\* The stages after a step, one for each record.
LEMMA StageSet ==
  ASSUME NEW act, NEW x, RecordsSet(act, x)
  PROVE  stages' = [v \in Users |-> IF v = act.signer THEN Stage(x)
                      ELSE IF Over(act, v) THEN Stage(act.data.cid) ELSE stages[v]]
<1>1. ASSUME NEW v \in Users
      PROVE  Stage(accounts[v])' = Stage(accounts'[v])
  BY DEF Stage
<1>2. stages' = [v \in Users |-> Stage(accounts'[v])]
  BY <1>1 DEF stages
<1>3. ASSUME NEW v \in Users
      PROVE  Stage(accounts'[v]) = IF v = act.signer THEN Stage(x)
               ELSE IF Over(act, v) THEN Stage(act.data.cid) ELSE stages[v]
  BY DEF RecordsSet, stages
<1> QED
  BY <1>2, <1>3

LEMMA StageOpen ==
  ASSUME NEW u \in Users, HasAccount(u)
  PROVE  stages[u] = [status |-> "open", used |-> accounts[u].seq]
  BY DEF stages, Stage, HasAccount

\* The ledger implements AccountLifecycle: each request opens, uses or closes
\* one account as that specification allows, or changes no account.
THEOREM LifecycleImplemented == Spec => ImplementsLifecycle
<1>1. Init => Lifecycle!Init
  <2> SUFFICES ASSUME Init PROVE Lifecycle!Init
    OBVIOUS
  <2>1. ASSUME NEW u \in Users
        PROVE  Stage(accounts[u]) =
                 [status |-> IF u \in Genesis THEN "open" ELSE "none", used |-> 0]
    <3>1. NewAccount(u) \in Account
      BY <2>1, EmptySeq DEF NewAccount, Account
    <3>2. NewAccount(u) \notin ContentIDs \cup {Absent, Removed} /\ NewAccount(u).seq = 0
      BY <3>1, MarkersAssumption DEF NewAccount
    <3> QED
      BY <2>1, <3>2, MarkersAssumption DEF Init, Stage
  <2> QED
    BY <2>1 DEF Lifecycle!Init, stages
<1>2. IInv /\ [Next]_vars => [Lifecycle!Next]_stages
  <2> SUFFICES ASSUME TypeOK, OwnKey, UnusedIsFresh, [Next]_vars
               PROVE  [Lifecycle!Next]_stages
    BY DEF IInv
  <2>1. ASSUME UNCHANGED accounts
        PROVE  UNCHANGED stages
    BY <2>1 DEF stages, Stage
  <2>2. ASSUME NEW act \in Actions, RunCreateAccount(act)
        PROVE  Lifecycle!Next
    <3>1. /\ RecordsSet(act, Left(act, <<>>)) /\ act.seq = 1 /\ act.type = "create"
          /\ act.signer \in Users
      BY <2>2, CreateEffect, ActionFacts
    <3>2. Stage(Left(act, <<>>)) = [status |-> "open", used |-> 1]
      BY <3>1, EmptySeq, StageFacts
    <3>3. stages' = [v \in Users |-> IF v = act.signer THEN [status |-> "open", used |-> 1]
                                     ELSE stages[v]]
      BY <3>1, <3>2, StageSet DEF Over
    <3>4. Lifecycle!Open(act.signer, {})
      BY <3>3 DEF Lifecycle!Open, Lifecycle!Opens
    <3> QED
      BY <3>1, <3>4 DEF Lifecycle!Next
  <2>3. ASSUME NEW act \in Actions, RunRemoveAccount(act)
        PROVE  Lifecycle!Next
    <3>1. /\ RecordsSet(act, Removed) /\ act.type = "remove" /\ act.signer \in Users
          /\ Named(act)
      BY <2>3, RemoveEffect, ActionFacts
    <3>2. Stage(Removed) = Lifecycle!Stopped("closed")
      BY MarkersAssumption DEF Stage, Lifecycle!Stopped
    <3>3. stages' = [stages EXCEPT ![act.signer] = Lifecycle!Stopped("closed")]
      <4>1. stages' = [v \in Users |-> IF v = act.signer THEN Lifecycle!Stopped("closed")
                                       ELSE stages[v]]
        BY <3>1, <3>2, StageSet DEF Over
      <4>2. stages = [v \in Users |-> stages[v]]
        BY DEF stages
      <4> QED
        BY <4>1, <4>2
    <3>4. stages[act.addr] = [status |-> "open", used |-> accounts[act.addr].seq]
      BY <3>1, StageOpen DEF Named
    <3>5. CASE act.addr = act.signer
      <4>1. Lifecycle!Close(act.signer)
        BY <3>3, <3>4, <3>5 DEF Lifecycle!Close
      <4> QED
        BY <3>1, <4>1 DEF Lifecycle!Next
    <3>6. CASE act.addr # act.signer
      <4>1. accounts[act.addr].seq \in Nat /\ accounts[act.addr].seq + 1 = 1
        BY <3>1, <3>6 DEF Named, TypeOK, HasAccount, Account
      <4>2. act.addr \in Genesis /\ accounts[act.addr].seq = 0
        BY <3>1, <4>1 DEF Named, UnusedIsFresh
      <4>3. Lifecycle!Close(act.signer)
        BY <3>3, <3>4, <4>2 DEF Lifecycle!Close
      <4> QED
        BY <3>1, <4>3 DEF Lifecycle!Next
    <3> QED
      BY <3>5, <3>6
  <2>4. ASSUME NEW act \in Actions, RunSubmitForm(act)
        PROVE  Lifecycle!Next
    <3> DEFINE listed == Append(accounts[act.addr].formIDs, act.data.id)
               lost == {v \in Users : Over(act, v)}
    <3>1. /\ RecordsSet(act, Left(act, listed))
          /\ listed \in Seq(FormIDs \cup Users)
          /\ Named(act)
          /\ act.data \in Infos
          /\ act.signer \in Users
      BY <2>4, SubmitEffect, ActionFacts
    <3>2. Stage(Left(act, listed)) = [status |-> "open", used |-> act.seq]
      BY <3>1, StageFacts
    <3>3. Stage(act.data.cid) = Lifecycle!Stopped("lost")
      BY <3>1, InfoFacts DEF Stage, Lifecycle!Stopped
    <3>4. stages' = [v \in Users |-> IF v = act.signer THEN [status |-> "open", used |-> act.seq]
                       ELSE IF v \in lost THEN Lifecycle!Stopped("lost") ELSE stages[v]]
      <4> HIDE DEF listed
      <4> QED
        BY <3>1, <3>2, <3>3, StageSet
    <3>5. Lifecycle!Opens(act.signer, act.seq, lost)
      BY <3>4 DEF Lifecycle!Opens
    <3>6. lost = {} \/ \E v \in Users : lost = {v}
      BY DEF Over
    <3> HIDE DEF lost, listed
    <3>7. Lifecycle!Open(act.signer, lost) \/ Lifecycle!Use(act.signer, lost)
      <4>1. CASE act.seq = 1
        BY <3>5, <4>1 DEF Lifecycle!Open
      <4>2. CASE act.seq # 1
        <5>1. stages[act.signer] = [status |-> "open", used |-> accounts[act.signer].seq]
              /\ act.seq = accounts[act.signer].seq + 1
          BY <3>1, <4>2, StageOpen DEF Named
        <5> QED
          BY <3>5, <5>1 DEF Lifecycle!Use
      <4> QED
        BY <4>1, <4>2
    <3> QED
      BY <3>1, <3>6, <3>7 DEF Lifecycle!Next
  <2> QED
    BY <2>1, <2>2, <2>3, <2>4, StepCases DEF vars
<1> QED
  BY <1>1, <1>2, Invariance, PTL DEF Spec, ImplementsLifecycle, Lifecycle!Spec

=============================================================================
