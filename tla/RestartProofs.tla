----------------------------- MODULE RestartProofs ----------------------------
(***************************************************************************)
(* Proofs about Restart, for any genesis file, users, forms and bounds.    *)
(***************************************************************************)
EXTENDS Restart, SequenceTheorems, TLAPS

(***************************************************************************)
(* What the invariants of Restart need besides each other.                 *)
(***************************************************************************)
Live(u) == accounts[u] \notin ContentIDs \cup {Absent, Removed}

\* A live account of the store is filed under its own key.
OwnKey == \A u \in Users : Live(u) => accounts[u].pubKey = u

\* The record that the running action leaves of its account: the last write.
Left == run.writes[Len(run.writes)].value

\* An action that runs has a list of writes that ends with that of its account.
\* While the store can be reached, the forms the account will list are there by
\* then, and nothing has come between the account and the action that was
\* validated against it.
Pending ==
  run # NoRun =>
    LET act == run.act IN
    /\ Serving
    /\ act.type \in {"create", "remove", "submit"}
    /\ act.type = "submit" => act.data \in Infos /\ act.data.issue \in Issues
    /\ run.writes # <<>> =>
         /\ \/ run.writes = <<Record(act.signer, Left)>>
            \/ /\ act.type = "submit" /\ act.data.id # act.signer
               /\ run.writes = <<Content(act.data), Record(act.signer, Left)>>
         /\ IF act.type = "remove" THEN Left = Removed
            ELSE Left \in App!Account /\ Left.pubKey = act.signer /\ Left.seq = act.seq
         /\ link /\ Left # Removed => \A k \in DOMAIN Left.formIDs :
              Left.formIDs[k] \in FormIDs =>
                \/ forms[Left.formIDs[k]] # Absent
                \/ Len(run.writes) = 2 /\ Left.formIDs[k] = act.data.id
         /\ link /\ act.type # "create" /\ act.addr = act.signer =>
              Live(act.signer) /\ act.seq = accounts[act.signer].seq + 1

\* Nothing is logged in a life that is not there yet, nor before the application
\* serves.
Lives ==
  \A i \in DOMAIN log :
    /\ log[i].life <= life
    /\ ~Serving => log[i].life < life
    /\ log[i].act.type = "submit" => log[i].act.data \in Infos /\ log[i].act.data.issue \in Issues

\* No action that took effect since the account was begun has a larger sequence
\* number than the account.
SeqIsLargest ==
  \A u \in Users : Live(u) =>
    \A i \in DOMAIN log :
      ( /\ log[i].act.signer = u
        /\ u \in Genesis => log[i].life = life
        /\ \A k \in i + 1 .. Len(log) : ~Renews(k, u) )
      => log[i].act.seq <= accounts[u].seq

\* A sequence of actions is found, in its order, among the first n of a log.
Embeds(acts, entries, n) ==
  \E at \in [DOMAIN acts -> 1 .. n] :
    /\ \A i \in DOMAIN acts : acts[i] = entries[at[i]].act
    /\ \A i, j \in DOMAIN acts : i < j => at[i] < at[j]

\* While the store can be reached, what was answered with ok is in the log, in
\* its order, before the action that is about to be answered.
Effect ==
  /\ Embeds(committed, log, Len(log))
  /\ link =>
       IF run # NoRun /\ run.writes = <<>>
       THEN /\ log # <<>>
            /\ log[Len(log)].act = run.act
            /\ Embeds(committed \o block, log, Len(log) - 1)
       ELSE Embeds(committed \o block, log, Len(log))

\* The form of the running action is in its filter, and not in the log, as long
\* as the account is not written.
InFlight(issue) ==
  IF run # NoRun /\ run.writes # <<>> /\ run.act.type = "submit" /\ run.act.data.issue = issue
  THEN {run.act.data.id} ELSE {}

FiltersHold ==
  Serving => \A issue \in Issues :
    /\ Fresh(issue) \cup InFlight(issue) \subseteq filters[issue]
    /\ link => filters[issue] = Fresh(issue) \cup InFlight(issue)

TInv == TypeOK /\ OwnKey /\ Pending

IInv == TInv /\ Lives /\ ListedFormsStored /\ SeqIsLargest /\ NoReplayDurable /\ Effect /\ FiltersHold

-----------------------------------------------------------------------------
(* The genesis file *)

\* What an option adds to the values of its key.
LEMMA OptionFacts ==
  /\ Len(Options) \in Nat /\ DOMAIN Options = 1 .. Len(Options)
  /\ \A key : Values(key, 0) = {}
  /\ \A key : \A n \in DOMAIN Options :
       Values(key, n) = Values(key, n - 1) \cup (IF Key(n) = key THEN {Options[n].value} ELSE {})
  /\ \A key : \A n \in DOMAIN Options : Key(n) = key => Options[n].value \in Values(key, Len(Options))
  /\ \A key : Values(key, Len(Options) + 1) = Values(key, Len(Options))
<1> DEFINE half == Len(Items) \div 2
<1>1. half \in Nat
  BY ItemsAssumption
<1>3. DOMAIN Options = 1 .. half
  BY DEF Options
<1>2. Options \in Seq({Options[n] : n \in 1 .. half})
  <2> DEFINE S == {Options[n] : n \in 1 .. half}
  <2>1. Options \in [1 .. half -> S]
    BY <1>3 DEF Options
  <2>2. [1 .. half -> S] \subseteq Seq(S)
    BY <1>1, SeqDef
  <2> QED
    BY <2>1, <2>2
<1>4. Len(Options) \in Nat /\ DOMAIN Options = 1 .. Len(Options)
  BY <1>2, LenProperties
<1>5. \A key : Values(key, 0) = {}
  BY <1>4 DEF Values
<1>6. ASSUME NEW key, NEW n \in DOMAIN Options
      PROVE  Values(key, n) = Values(key, n - 1) \cup (IF Key(n) = key THEN {Options[n].value} ELSE {})
  <2>1. \A m \in DOMAIN Options : m <= n <=> m <= n - 1 \/ m = n
    BY <1>4, <1>6
  <2>2. {k \in DOMAIN Options : k <= n /\ Key(k) = key} =
        {k \in DOMAIN Options : k <= n - 1 /\ Key(k) = key} \cup (IF Key(n) = key THEN {n} ELSE {})
    BY <2>1
  <2> QED
    BY <2>2 DEF Values
<1>7. ASSUME NEW key, NEW n \in DOMAIN Options, Key(n) = key
      PROVE  Options[n].value \in Values(key, Len(Options))
  BY <1>4, <1>7 DEF Values
<1>8. ASSUME NEW key
      PROVE  Values(key, Len(Options) + 1) = Values(key, Len(Options))
  <2>1. \A k \in DOMAIN Options : k <= Len(Options) + 1 /\ k <= Len(Options)
    BY <1>4
  <2> QED
    BY <2>1 DEF Values
<1> QED
  BY <1>4, <1>5, <1>6, <1>7, <1>8

\* An option that has been set is set once, in its turn.
LEMMA BootFacts ==
  ASSUME TypeOK, NEW n \in DOMAIN Options, Booting(n)
  PROVE  /\ n \in 1 .. Len(Options) /\ booted = n - 1
         /\ ~Serving
         /\ n # Len(Options) + 1
  BY OptionFacts DEF Booting, Serving, TypeOK

-----------------------------------------------------------------------------
(* Actions and accounts *)

\* The parts of an action.
LEMMA ActionFacts ==
  ASSUME NEW act \in App!Actions
  PROVE  /\ act.type \in App!ActionTypes
         /\ act.data \in App!Payloads(act.type)
         /\ act.addr \in Users \cup {NoUser}
         /\ act.seq \in Nat
         /\ act.pubKey \in Users \cup {NoUser}
         /\ act.signer \in Users
<1>1. PICK t \in App!ActionTypes :
        act \in [type : {t}, data : App!Payloads(t), addr : Users \cup {NoUser}, seq : SeqNos,
                 pubKey : Users \cup {NoUser}, signer : Users]
  BY DEF App!Actions
<1>2. SeqNos \subseteq Nat
  BY ConstantsAssumption
<1> QED
  BY <1>1, <1>2

\* The parts of a form; its content is neither the mark of an absent record nor
\* an account.
LEMMA InfoFacts ==
  ASSUME NEW info \in Infos
  PROVE  /\ info.id \in FormIDs \cup Users
         /\ info.id \in FormIDs <=> info.id \notin Users
         /\ info.cid \in ContentIDs /\ info.cid # Absent
         /\ info.issue \in IssueNames
  BY ConstantsAssumption, MarkersAssumption

\* A valid action is run for an account with the key that signed it, at the
\* sequence number before its own; only a creation does without an account in the
\* store, and only an action with the number 1 can use that of another user.
LEMMA InputFacts ==
  ASSUME TypeOK, OwnKey, NEW act \in App!Actions, App!Valid(act)
  PROVE  LET acc == App!InputAccount(act) IN
         /\ acc \in App!Account
         /\ acc.pubKey = act.signer
         /\ act.seq = acc.seq + 1
         /\ act.type = "create" => acc.formIDs = <<>>
         /\ act.type # "create" => /\ link /\ act.addr \in Users /\ Live(act.addr)
                                   /\ acc.seq = accounts[act.addr].seq
                                   /\ acc.formIDs = accounts[act.addr].formIDs
<1> USE ActionFacts, ConstantsAssumption
<1> DEFINE acc == App!InputAccount(act)
<1>1. acc.pubKey = act.signer /\ act.seq = acc.seq + 1 /\ act.addr # NoUser
  BY DEF App!Valid, App!ValidateBasic, App!ValidateInputAdvanced
<1>2. CASE act.type = "create"
  <2>1. acc = [pubKey |-> act.pubKey, seq |-> 0, formIDs |-> <<>>]
    BY <1>2 DEF App!InputAccount, App!NewAccount
  <2>2. acc.pubKey = act.pubKey /\ acc.formIDs = <<>>
    BY <2>1
  <2>3. acc \in App!Account
    BY <1>1, <2>1, <2>2, EmptySeq DEF App!Account
  <2> QED
    BY <1>1, <1>2, <2>2, <2>3
<1>3. CASE act.type # "create"
  <2> DEFINE old == accounts[act.addr]
  <2>1. act.addr \in Users /\ App!HasAccount(act.addr)
    BY <1>1, <1>3 DEF App!Valid
  <2>2. link /\ Live(act.addr) /\ Seen = accounts
    BY <2>1 DEF App!HasAccount, Seen, Live
  <2>3. old \in App!Account
    BY <2>1, <2>2 DEF TypeOK, Live
  <2>4. CASE act.pubKey # NoUser
    <3>1. acc = [old EXCEPT !.pubKey = act.pubKey]
      BY <1>3, <2>2, <2>4 DEF App!InputAccount
    <3>2. acc \in App!Account /\ acc.seq = old.seq /\ acc.formIDs = old.formIDs
      BY <2>3, <2>4, <3>1 DEF App!Account
    <3> QED
      BY <1>1, <1>3, <2>1, <2>2, <3>2
  <2>5. CASE act.pubKey = NoUser
    <3>1. acc = old
      BY <1>3, <2>2, <2>5 DEF App!InputAccount
    <3> QED
      BY <1>1, <1>3, <2>1, <2>2, <2>3, <3>1
  <2> QED
    BY <2>4, <2>5
<1> QED
  BY <1>2, <1>3

-----------------------------------------------------------------------------
(* The writes of a run *)

\* One write after another is a list of two.
LEMMA TwoWrites ==
  ASSUME NEW S, NEW first \in S, NEW second \in S
  PROVE  <<first>> \o <<second>> = <<first, second>>
<1> DEFINE long == Append(<<first>>, second)
<1>1. <<first>> \in Seq(S) /\ Len(<<first>>) = 1 /\ <<first>>[1] = first
  OBVIOUS
<1>2. long \in Seq(S) /\ Len(long) = 2 /\ long[1] = first /\ long[2] = second
  BY <1>1, AppendProperties
<1>3. /\ <<first, second>> \in Seq(S) /\ Len(<<first, second>>) = 2
      /\ <<first, second>>[1] = first /\ <<first, second>>[2] = second
  OBVIOUS
<1>4. ASSUME NEW s \in Seq(S), NEW t \in Seq(S), Len(s) = 2, Len(t) = 2, s[1] = t[1], s[2] = t[2]
      PROVE  s = t
  <2>1. \A i \in 1 .. 2 : s[i] = t[i]
    BY <1>4
  <2> QED
    BY <1>4, <2>1, SeqEqual
<1>5. long = <<first, second>>
  BY <1>2, <1>3, <1>4
<1> QED
  BY <1>1, <1>5, AppendIsConcat

\* The writes that a valid action leaves, and the record its account becomes.
LEMMA WritesFacts ==
  ASSUME TypeOK, OwnKey, NEW act \in App!Actions, App!Valid(act), CanRun(act), issues = Issues
  PROVE  /\ act.type \in {"create", "remove", "submit"}
         /\ act.type = "submit" => act.data \in Infos /\ act.data.issue \in Issues
         /\ act.signer \in Users
         /\ Writes(act) \in Seq(WriteRecords)
         /\ act.type # "create" /\ act.addr = act.signer =>
              link /\ Live(act.signer) /\ act.seq = accounts[act.signer].seq + 1
         /\ act.type = "submit" => act.addr \in Users /\ Live(act.addr)
         /\ \E x \in App!Account \cup {Removed} :
              /\ IF act.type = "submit" /\ act.data.id # act.signer
                 THEN Writes(act) = <<Content(act.data), Record(act.signer, x)>>
                 ELSE Writes(act) = <<Record(act.signer, x)>>
              /\ IF act.type = "remove" THEN x = Removed
                 ELSE x \in App!Account /\ x.pubKey = act.signer /\ x.seq = act.seq
              /\ act.type = "create" => x.formIDs = <<>>
              /\ act.type = "submit" => x.formIDs = Append(accounts[act.addr].formIDs, act.data.id)
<1> DEFINE input == App!InputAccount(act)
           acc == App!Charged(input)
<1>1. /\ input \in App!Account /\ input.pubKey = act.signer /\ act.seq = input.seq + 1
      /\ act.type = "create" => input.formIDs = <<>>
      /\ act.type # "create" => /\ link /\ act.addr \in Users /\ Live(act.addr)
                                /\ input.seq = accounts[act.addr].seq
                                /\ input.formIDs = accounts[act.addr].formIDs
  BY InputFacts
<1>2. /\ act.type \in {"create", "remove", "submit"}
      /\ act.type = "submit" => act.data \in Infos /\ act.data.issue \in Issues
  BY ActionFacts DEF CanRun, App!Payloads
<1>3. /\ acc \in App!Account
      /\ acc.pubKey = act.signer /\ acc.seq = act.seq /\ acc.formIDs = input.formIDs
  BY <1>1 DEF App!Charged, App!Account
<1>4. act.signer \in Users
  BY ActionFacts
<1>5. \A x \in App!Account \cup {Removed} : Record(act.signer, x) \in WriteRecords
  BY <1>4 DEF Record, WriteRecords
<1> HIDE DEF input
<1>6. CASE act.type = "create"
  <2>1. Writes(act) = <<Record(act.signer, acc)>>
    BY <1>3, <1>6 DEF Writes, input
  <2> QED
    BY <1>1, <1>2, <1>3, <1>4, <1>5, <1>6, <2>1
<1>7. CASE act.type = "remove"
  <2>1. Writes(act) = <<Record(act.signer, Removed)>>
    BY <1>3, <1>7 DEF Writes, input
  <2> QED
    BY <1>1, <1>2, <1>3, <1>4, <1>5, <1>7, <2>1
<1>8. CASE act.type = "submit"
  <2> DEFINE x == App!AddFormID(acc, act.data)
  <2>1. Writes(act) = (IF act.data.id = act.signer THEN <<>> ELSE <<Content(act.data)>>)
                        \o <<Record(act.signer, x)>>
    BY <1>3, <1>8 DEF Writes, input
  <2>2. act.data.id \in FormIDs \cup Users /\ act.data.cid \in ContentIDs
    BY <1>2, <1>8, InfoFacts
  <2>3. input.formIDs \in Seq(FormIDs \cup Users)
    BY <1>1 DEF App!Account
  <2>4. Append(input.formIDs, act.data.id) \in Seq(FormIDs \cup Users)
    BY <2>2, <2>3, AppendProperties
  <2>5. /\ x \in App!Account
        /\ x.pubKey = act.signer /\ x.seq = act.seq
        /\ x.formIDs = Append(input.formIDs, act.data.id)
    BY <1>3, <2>4 DEF App!AddFormID, App!Account
  <2>6. Content(act.data) \in WriteRecords
    <3>1. CASE act.data.id \in Users
      BY <2>2, <3>1 DEF Content, WriteRecords
    <3>2. CASE act.data.id \notin Users
      BY <2>2, <3>2 DEF Content, WriteRecords
    <3> QED
      BY <3>1, <3>2
  <2> HIDE DEF x
  <2>7. Record(act.signer, x) \in WriteRecords
    BY <1>5, <2>5
  <2>8. CASE act.data.id = act.signer
    <3>1. Writes(act) = <<Record(act.signer, x)>>
      BY <2>1, <2>8
    <3> QED
      BY <1>1, <1>2, <1>4, <1>8, <2>5, <2>7, <2>8, <3>1
  <2>9. CASE act.data.id # act.signer
    <3>1. <<Content(act.data)>> \o <<Record(act.signer, x)>> = <<Content(act.data), Record(act.signer, x)>>
      BY <2>6, <2>7, TwoWrites
    <3>3. Writes(act) = <<Content(act.data), Record(act.signer, x)>>
      BY <2>1, <2>9, <3>1
    <3>2. <<Content(act.data), Record(act.signer, x)>> \in Seq(WriteRecords)
      BY <2>6, <2>7
    <3> QED
      BY <1>1, <1>2, <1>4, <1>8, <2>5, <2>9, <3>2, <3>3
  <2> QED
    BY <2>8, <2>9
<1> QED
  BY <1>2, <1>6, <1>7, <1>8

\* What one write does: the last one takes the record of the account to the
\* store, and the action into the log; one before it takes the form, perhaps over
\* the record of another account.
LEMMA WriteCases ==
  ASSUME TypeOK, Pending, Write
  PROVE  LET act == run.act IN
         /\ run # NoRun /\ run \in Runs /\ run' \in Runs /\ run' # NoRun /\ run'.act = act
         /\ act.signer \in Users
         /\ UNCHANGED <<link, life, booted, chainID, issues, filters, block, committed>>
         /\ \/ /\ run.writes = <<Record(act.signer, Left)>> /\ run'.writes = <<>>
               /\ Left \in App!Account \cup {Removed}
               /\ UNCHANGED forms
               /\ accounts' = IF link THEN [accounts EXCEPT ![act.signer] = Left] ELSE accounts
               /\ log' = IF link THEN Append(log, [act |-> act, life |-> life]) ELSE log
            \/ /\ act.type = "submit" /\ act.data.id # act.signer
               /\ act.data \in Infos
               /\ run.writes = <<Content(act.data), Record(act.signer, Left)>>
               /\ run'.writes = <<Record(act.signer, Left)>>
               /\ Left' = Left
               /\ UNCHANGED log
               /\ accounts' = IF link /\ act.data.id \in Users
                              THEN [accounts EXCEPT ![act.data.id] = act.data.cid] ELSE accounts
               /\ forms' = IF link /\ act.data.id \in FormIDs
                           THEN [forms EXCEPT ![act.data.id] = act.data.cid] ELSE forms
<1> DEFINE act == run.act
<1>1. /\ run # NoRun /\ run \in Runs /\ run.writes # <<>>
      /\ UNCHANGED <<link, life, booted, chainID, issues, filters, block, committed>>
      /\ run' = [run EXCEPT !.writes = Tail(run.writes)]
  BY DEF Write, TypeOK
<1>2. act \in App!Actions /\ run.writes \in Seq(WriteRecords) /\ act.signer \in Users
  BY <1>1, ActionFacts DEF Runs
<1>3. Tail(run.writes) \in Seq(WriteRecords)
  BY <1>1, <1>2, HeadTailProperties
<1>4. run' = [act |-> act, writes |-> Tail(run.writes)]
  BY <1>1, <1>2 DEF Runs
<1>5. run' \in Runs /\ run' # NoRun /\ run'.act = act /\ run'.writes = Tail(run.writes)
  <2>1. run'.act = act /\ run'.writes = Tail(run.writes)
    BY <1>4
  <2>2. [act |-> act, writes |-> Tail(run.writes)] \in Runs
    BY <1>2, <1>3 DEF Runs
  <2>3. run' \in Runs
    BY <1>4, <2>2
  <2>4. run' # NoRun
    BY <2>3, MarkersAssumption
  <2> QED
    BY <2>1, <2>3, <2>4
<1>6. Left \in App!Account \cup {Removed}
  BY <1>1 DEF Pending
<1> DEFINE w == Head(run.writes)
<1>9. /\ forms' = IF link /\ w.to = "forms" THEN [forms EXCEPT ![w.key] = w.value] ELSE forms
      /\ accounts' = IF link /\ w.to = "accounts" THEN [accounts EXCEPT ![w.key] = w.value] ELSE accounts
      /\ log' = IF link /\ Tail(run.writes) = <<>>
                THEN Append(log, [act |-> act, life |-> life]) ELSE log
  BY DEF Write
<1>7. CASE run.writes = <<Record(act.signer, Left)>>
  <2>1. Head(run.writes) = Record(act.signer, Left) /\ Tail(run.writes) = <<>>
    BY <1>7
  <2>2. /\ forms' = forms
        /\ accounts' = IF link THEN [accounts EXCEPT ![act.signer] = Left] ELSE accounts
        /\ log' = IF link THEN Append(log, [act |-> act, life |-> life]) ELSE log
    <3>1. w.to = "accounts" /\ w.key = act.signer /\ w.value = Left
      BY <2>1 DEF Record
    <3> QED
      BY <1>9, <2>1, <3>1
  <2>3. run'.writes = <<>>
    BY <1>5, <2>1
  <2> QED
    BY <1>1, <1>2, <1>5, <1>6, <1>7, <2>2, <2>3
<1>8. CASE /\ act.type = "submit" /\ act.data.id # act.signer
           /\ run.writes = <<Content(act.data), Record(act.signer, Left)>>
  <2>1. Head(run.writes) = Content(act.data) /\ Tail(run.writes) = <<Record(act.signer, Left)>>
    BY <1>8
  <2>2. run'.writes = <<Record(act.signer, Left)>>
    BY <1>5, <2>1
  <2>3. Left' = Left
    BY <2>2 DEF Left, Record
  <2>4. act.data \in Infos
    BY <1>1, <1>8 DEF Pending
  <2>5. log' = log
    <3>1. Tail(run.writes) # <<>>
      BY <2>1
    <3> QED
      BY <1>9, <3>1
  <2>6. /\ accounts' = IF link /\ act.data.id \in Users
                       THEN [accounts EXCEPT ![act.data.id] = act.data.cid] ELSE accounts
        /\ forms' = IF link /\ act.data.id \in FormIDs
                    THEN [forms EXCEPT ![act.data.id] = act.data.cid] ELSE forms
    <3>1. /\ w.to = IF act.data.id \in Users THEN "accounts" ELSE "forms"
          /\ w.key = act.data.id /\ w.value = act.data.cid
      BY <2>1 DEF Content
    <3>2. act.data.id \in FormIDs <=> act.data.id \notin Users
      BY <2>4, InfoFacts
    <3> QED
      BY <1>9, <3>1, <3>2
  <2> QED
    BY <1>1, <1>2, <1>5, <1>8, <2>2, <2>3, <2>4, <2>5, <2>6
<1> QED
  BY <1>1, <1>7, <1>8 DEF Pending

-----------------------------------------------------------------------------
(* Types *)

\* Once the application serves it knows every issue of the genesis file.
LEMMA ServingIssues == TypeOK /\ Serving => issues = Issues
  BY OptionFacts DEF TypeOK, Serving, Issues

\* At the first start the types are right, and nothing runs.
LEMMA InitTypes == Init => TInv
<1> SUFFICES ASSUME Init PROVE TInv
  OBVIOUS
<1> USE DEF Init
<1>1. Len(Options) \in Nat /\ \A key : Values(key, 0) = {}
  BY OptionFacts
<1>2. TypeOK
  <2>1. life \in 1 .. MaxLives
    BY OptionsAssumption
  <2>2. block \in Seq(App!Actions) /\ committed \in Seq(App!Actions)
        /\ log \in Seq([act : App!Actions, life : 1 .. MaxLives])
    BY EmptySeq
  <2>3. ~Serving /\ booted \in 0 .. Len(Options) + 1
    BY <1>1 DEF Serving
  <2> QED
    BY <1>1, <2>1, <2>2, <2>3 DEF TypeOK
<1>3. OwnKey
  BY DEF OwnKey, Live
<1>4. Pending
  BY DEF Pending
<1> QED
  BY <1>2, <1>3, <1>4 DEF TInv

\* An option only adds to what the process knows.
LEMMA BootTypes ==
  ASSUME TypeOK, NEW n \in DOMAIN Options, SetOption(n)
  PROVE  TypeOK'
<1>1. Booting(n) /\ booted' = n /\ UNCHANGED <<forms, link, life, filters, run, block, log, committed>>
  BY DEF SetOption, SetChainID, SetIssue, SetAccount, SkipOption, store
<1>2. n \in 1 .. Len(Options) /\ booted = n - 1 /\ ~Serving /\ n # Len(Options) + 1 /\ Len(Options) \in Nat
  BY <1>1, BootFacts, OptionFacts
<1>3. ~Serving' /\ booted' \in 0 .. Len(Options) + 1
  BY <1>1, <1>2 DEF Serving
<1>4. \A key : Values(key, n) = Values(key, n - 1) \cup (IF Key(n) = key THEN {Options[n].value} ELSE {})
  BY OptionFacts
<1>5. issues' = Values("issue", booted')
  BY <1>1, <1>2, <1>4 DEF SetOption, SetChainID, SetIssue, SetAccount, SkipOption, TypeOK
<1>6. chainID' \in Values("chainID", booted') \cup {NoChain}
  BY <1>1, <1>2, <1>4 DEF SetOption, SetChainID, SetIssue, SetAccount, SkipOption, TypeOK
<1>7. accounts' \in [Users -> App!Account \cup ContentIDs \cup {Absent, Removed}]
  <2>1. CASE UNCHANGED accounts
    BY <2>1 DEF TypeOK
  <2>2. CASE SetAccount(n)
    <3>1. Options[n].value \in Users
      BY <2>2, OptionFacts, OptionsAssumption DEF SetAccount, Genesis
    <3>2. App!NewAccount(Options[n].value) \in App!Account
      BY <3>1, EmptySeq DEF App!NewAccount, App!Account
    <3> QED
      BY <2>2, <3>1, <3>2 DEF SetAccount, TypeOK
  <2> QED
    BY <2>1, <2>2 DEF SetOption, SetChainID, SetIssue, SkipOption, store
<1> QED
  BY <1>1, <1>2, <1>3, <1>5, <1>6, <1>7 DEF TypeOK

\* The filters are made for the issues of the genesis file.
LEMMA SetFiltersTypes ==
  ASSUME TypeOK, SetFilters
  PROVE  TypeOK'
<1>1. /\ booted = Len(Options) /\ booted' = Len(Options) + 1
      /\ filters' = [issue \in issues |-> {}]
      /\ UNCHANGED <<accounts, forms, link, life, chainID, issues, run, block, log, committed>>
  BY DEF SetFilters, store
<1>2. Len(Options) \in Nat /\ \A key : Values(key, Len(Options) + 1) = Values(key, Len(Options))
  BY OptionFacts
<1>3. Serving' /\ issues = Issues
  BY <1>1 DEF Serving, TypeOK, Issues
<1>4. filters' \in [Issues -> SUBSET (FormIDs \cup Users)]
  BY <1>1, <1>3
<1> QED
  BY <1>1, <1>2, <1>3, <1>4 DEF TypeOK

\* A run leaves a list of writes, and a form in a filter that is there.
LEMMA RunTypes ==
  ASSUME TypeOK, OwnKey, NEW act \in App!Actions, Run(act)
  PROVE  /\ TypeOK'
         /\ run' \in Runs /\ run' # NoRun /\ run'.act = act /\ run'.writes = Writes(act)
<1>1. /\ Serving /\ run = NoRun /\ App!Valid(act) /\ CanRun(act)
      /\ filters' = IF act.type = "submit" THEN App!FilterAdd(act.data) ELSE filters
      /\ run' = [act |-> act, writes |-> Writes(act)]
      /\ UNCHANGED <<accounts, forms, link, life, booted, chainID, issues, block, log, committed>>
  BY DEF Run, Idle, store
<1>2. issues = Issues
  BY <1>1, ServingIssues
<1>3. /\ Writes(act) \in Seq(WriteRecords)
      /\ act.type = "submit" => act.data \in Infos /\ act.data.issue \in Issues
  BY <1>1, <1>2, WritesFacts
<1>4. run' \in Runs /\ run'.act = act /\ run'.writes = Writes(act)
  BY <1>1, <1>3 DEF Runs
<1>5. filters' \in [Issues -> SUBSET (FormIDs \cup Users)]
  BY <1>1, <1>3, InfoFacts DEF TypeOK, App!FilterAdd
<1>6. TypeOK'
  BY <1>1, <1>4, <1>5 DEF TypeOK, Serving
<1> QED
  BY <1>4, <1>6, MarkersAssumption

\* A write takes a record to an account, or content to a form.
LEMMA WriteTypes ==
  ASSUME TypeOK, Pending, Write
  PROVE  TypeOK'
<1> DEFINE act == run.act
<1>1. /\ run \in Runs /\ run' \in Runs /\ act.signer \in Users
      /\ UNCHANGED <<link, life, booted, chainID, issues, filters, block, committed>>
  BY WriteCases
<1>2. accounts' \in [Users -> App!Account \cup ContentIDs \cup {Absent, Removed}]
  BY <1>1, WriteCases, InfoFacts DEF TypeOK
<1>3. forms' \in [FormIDs -> ContentIDs \cup {Absent}]
  BY WriteCases, InfoFacts DEF TypeOK
<1>4. log' \in Seq([act : App!Actions, life : 1 .. MaxLives])
  <2>1. [act |-> act, life |-> life] \in [act : App!Actions, life : 1 .. MaxLives]
    BY <1>1 DEF Runs, TypeOK
  <2>2. log \in Seq([act : App!Actions, life : 1 .. MaxLives])
    BY DEF TypeOK
  <2>3. Append(log, [act |-> act, life |-> life]) \in Seq([act : App!Actions, life : 1 .. MaxLives])
    BY <2>1, <2>2, AppendProperties
  <2> QED
    BY <2>2, <2>3, WriteCases
<1> QED
  BY <1>1, <1>2, <1>3, <1>4 DEF TypeOK, Serving

\* Every step keeps the types.
LEMMA StepTypes == TInv /\ [Next]_vars => TypeOK'
<1> SUFFICES ASSUME TInv, [Next]_vars
             PROVE  TypeOK'
  OBVIOUS
<1>1. TypeOK /\ OwnKey /\ Pending
  BY DEF TInv
<1>2. CASE UNCHANGED vars
  BY <1>1, <1>2 DEF vars, TypeOK, Serving
<1>3. CASE \E n \in DOMAIN Options : SetOption(n)
  BY <1>1, <1>3, BootTypes
<1>4. CASE SetFilters
  BY <1>1, <1>4, SetFiltersTypes
<1>5. CASE \E act \in App!Actions : Run(act)
  BY <1>1, <1>5, RunTypes
<1>6. CASE Write
  BY <1>1, <1>6, WriteTypes
<1>7. CASE Respond
  <2>1. run \in Runs /\ run.act \in App!Actions
    BY <1>1, <1>7 DEF Respond, TypeOK, Runs
  <2>2. Append(block, run.act) \in Seq(App!Actions)
    BY <1>1, <2>1, AppendProperties DEF TypeOK
  <2> QED
    BY <1>1, <1>7, <2>2 DEF Respond, TypeOK, Serving, store
<1>8. CASE Commit
  <2>1. <<>> \in Seq(App!Actions) /\ committed \o block \in Seq(App!Actions)
    BY <1>1, EmptySeq, ConcatProperties DEF TypeOK
  <2> QED
    BY <1>1, <1>8, <2>1 DEF Commit, TypeOK, Serving, store
<1>9. CASE Restart
  <2>1. life' \in 1 .. MaxLives
    BY <1>1, <1>9, OptionsAssumption DEF Restart, TypeOK
  <2>2. Len(Options) \in Nat /\ \A key : Values(key, 0) = {}
    BY OptionFacts
  <2>3. ~Serving' /\ booted' \in 0 .. Len(Options) + 1
    BY <1>9, <2>2 DEF Restart, End, Serving
  <2>4. <<>> \in Seq(App!Actions)
    BY EmptySeq
  <2> QED
    BY <1>1, <1>9, <2>1, <2>2, <2>3, <2>4 DEF Restart, End, TypeOK, store
<1>10. CASE Break
  BY <1>1, <1>10 DEF Break, TypeOK, Serving, store, proc
<1> QED
  BY <1>2, <1>3, <1>4, <1>5, <1>6, <1>7, <1>8, <1>9, <1>10 DEF Next, CommitPanics

-----------------------------------------------------------------------------
(* The store *)

\* The form of a submission gets through to the key of another account's record.
FiledOver ==
  /\ Write /\ link
  /\ run.act.data.id \in Users /\ run.act.data.id # run.act.signer
  /\ run.act.data.cid \in ContentIDs
  /\ accounts' = [accounts EXCEPT ![run.act.data.id] = run.act.data.cid]

\* The steps that change an account: the one of the genesis file is set anew,
\* the last write of an action gets through, or a form is filed over a record.
LEMMA AccountCases ==
  ASSUME TInv, Next
  PROVE  \/ UNCHANGED accounts
         \/ \E n \in DOMAIN Options :
              /\ SetAccount(n) /\ link /\ Options[n].value \in Genesis
              /\ accounts' = [accounts EXCEPT ![Options[n].value] = App!NewAccount(Options[n].value)]
         \/ /\ Write /\ link
            /\ run.writes = <<Record(run.act.signer, Left)>>
            /\ accounts' = [accounts EXCEPT ![run.act.signer] = Left]
         \/ FiledOver
<1>1. TypeOK /\ Pending
  BY DEF TInv
<1>2. CASE Write
  BY <1>1, <1>2, WriteCases, InfoFacts DEF FiledOver
<1>3. ASSUME NEW n \in DOMAIN Options, SetAccount(n)
      PROVE  \/ UNCHANGED accounts
             \/ /\ link /\ Options[n].value \in Genesis
                /\ accounts' = [accounts EXCEPT ![Options[n].value] = App!NewAccount(Options[n].value)]
  BY <1>3, OptionFacts DEF SetAccount, Genesis
<1>4. CASE \E n \in DOMAIN Options : SetOption(n)
  BY <1>3, <1>4 DEF SetOption, SetChainID, SetIssue, SkipOption, store
<1>5. CASE SetFilters \/ (\E act \in App!Actions : Run(act)) \/ Respond \/ Commit \/ Restart \/ Break
  BY <1>5 DEF SetFilters, Run, Respond, Commit, Restart, End, Break, store
<1> QED
  BY <1>2, <1>4, <1>5 DEF Next, CommitPanics

\* A form that is in the store stays there.
LEMMA FormsLast ==
  ASSUME TInv, [Next]_vars, NEW id \in FormIDs, forms[id] # Absent
  PROVE  forms'[id] # Absent
<1>1. TypeOK /\ Pending
  BY DEF TInv
<1>2. CASE Write
  BY <1>1, <1>2, WriteCases, InfoFacts DEF TypeOK
<1>3. CASE UNCHANGED forms
  BY <1>3
<1> QED
  BY <1>2, <1>3
     DEF Next, SetOption, SetChainID, SetIssue, SetAccount, SkipOption, SetFilters, Run, Respond, Commit,
         CommitPanics, Restart, End, Break, store, vars

\* Every step keeps the accounts under their own keys.
LEMMA StepOwnKey == TInv /\ [Next]_vars => OwnKey'
<1> SUFFICES ASSUME TInv, [Next]_vars
             PROVE  OwnKey'
  OBVIOUS
<1>1. TypeOK /\ OwnKey /\ Pending
  BY DEF TInv
<1>2. CASE UNCHANGED accounts
  BY <1>1, <1>2 DEF OwnKey, Live
<1>3. CASE /\ Write
           /\ run.writes = <<Record(run.act.signer, Left)>>
           /\ accounts' = [accounts EXCEPT ![run.act.signer] = Left]
  <2>1. run # NoRun /\ run.writes # <<>>
    BY <1>3 DEF Write
  <2>2. Left = Removed \/ Left.pubKey = run.act.signer
    BY <1>1, <2>1 DEF Pending
  <2> QED
    BY <1>1, <1>3, <2>2 DEF OwnKey, Live, TypeOK
<1>4. ASSUME NEW n \in DOMAIN Options,
             accounts' = [accounts EXCEPT ![Options[n].value] = App!NewAccount(Options[n].value)]
      PROVE  OwnKey'
  BY <1>1, <1>4 DEF OwnKey, Live, TypeOK, App!NewAccount
<1>5. CASE FiledOver
  BY <1>1, <1>5 DEF OwnKey, Live, TypeOK, FiledOver
<1> QED
  BY <1>2, <1>3, <1>4, <1>5, AccountCases DEF vars

\* The list of an account in the store, and that of one about to get there, are
\* lists of form identifiers.
LEMMA ListTypes ==
  ASSUME TInv
  PROVE  \A u \in Users : Live(u) =>
           accounts[u] \in App!Account /\ accounts[u].formIDs \in Seq(FormIDs \cup Users)
<1>1. \A u \in Users : Live(u) => accounts[u] \in App!Account
  BY DEF TInv, TypeOK, Live
<1> QED
  BY <1>1 DEF App!Account

\* Every step keeps the listed forms in the store: the form of an action
\* is written before its account.
LEMMA StepListed == TInv /\ ListedFormsStored /\ [Next]_vars => ListedFormsStored'
<1> SUFFICES ASSUME TInv, ListedFormsStored, [Next]_vars,
                    NEW u \in Users, Live(u)', NEW k \in DOMAIN accounts'[u].formIDs,
                    accounts'[u].formIDs[k] \in FormIDs
             PROVE  forms'[accounts'[u].formIDs[k]] # Absent
  BY DEF ListedFormsStored, Live
<1>1. TypeOK /\ Pending
  BY DEF TInv
<1>2. CASE accounts'[u] = accounts[u]
  <2>1. Live(u)
    BY <1>2 DEF Live
  <2> QED
    BY <1>2, <2>1, FormsLast DEF ListedFormsStored, Live
<1>3. CASE /\ Write /\ link
           /\ run.writes = <<Record(run.act.signer, Left)>>
           /\ accounts' = [accounts EXCEPT ![run.act.signer] = Left]
  <2>1. run # NoRun /\ run.writes # <<>> /\ Len(run.writes) = 1
    BY <1>3 DEF Write
  <2>2. Left # Removed => \A l \in DOMAIN Left.formIDs :
          Left.formIDs[l] \in FormIDs => forms[Left.formIDs[l]] # Absent
    BY <1>1, <1>3, <2>1 DEF Pending
  <2>3. CASE u = run.act.signer
    <3>1. accounts'[u] = Left /\ Left # Removed
      BY <1>1, <1>3, <2>3 DEF TypeOK, Live
    <3> QED
      BY <2>2, <3>1, FormsLast
  <2>4. CASE u # run.act.signer
    BY <1>1, <1>2, <1>3, <2>4 DEF TypeOK
  <2> QED
    BY <2>3, <2>4
<1>4. ASSUME NEW n \in DOMAIN Options,
             accounts' = [accounts EXCEPT ![Options[n].value] = App!NewAccount(Options[n].value)]
      PROVE  forms'[accounts'[u].formIDs[k]] # Absent
  <2>1. CASE u = Options[n].value
    <3>1. accounts'[u].formIDs = <<>>
      BY <1>1, <1>4, <2>1 DEF TypeOK, App!NewAccount
    <3> QED
      BY <3>1
  <2>2. CASE u # Options[n].value
    BY <1>1, <1>2, <1>4, <2>2 DEF TypeOK
  <2> QED
    BY <2>1, <2>2
<1>5. CASE FiledOver
  <2>1. accounts'[u] = accounts[u]
    BY <1>1, <1>5 DEF FiledOver, TypeOK, Live
  <2> QED
    BY <1>2, <2>1
<1> QED
  BY <1>2, <1>3, <1>4, <1>5, AccountCases DEF vars

\* Every step keeps what is known of the writes to come.
LEMMA StepPending == TInv /\ ListedFormsStored /\ [Next]_vars => Pending'
<1> SUFFICES ASSUME TInv, ListedFormsStored, [Next]_vars
             PROVE  Pending'
  OBVIOUS
<1>1. TypeOK /\ OwnKey /\ Pending
  BY DEF TInv
<1>2. ASSUME UNCHANGED <<accounts, forms, booted, run>>, link' => link
      PROVE  Pending'
  BY <1>1, <1>2 DEF Pending, Left, Serving, Live
<1>3. ASSUME ~Serving, UNCHANGED run
      PROVE  Pending'
  BY <1>1, <1>3 DEF Pending
<1>4. CASE \E n \in DOMAIN Options : SetOption(n)
  <2>1. ~Serving /\ UNCHANGED run
    BY <1>1, <1>4, BootFacts DEF SetOption, SetChainID, SetIssue, SetAccount, SkipOption
  <2> QED
    BY <1>3, <2>1
<1>5. CASE SetFilters
  <2>1. ~Serving /\ UNCHANGED run
    BY <1>5, OptionFacts DEF SetFilters, Serving
  <2> QED
    BY <1>3, <2>1
<1>6. ASSUME NEW act \in App!Actions, Run(act)
      PROVE  Pending'
  <2>1. /\ Serving /\ run = NoRun /\ App!Valid(act) /\ CanRun(act)
        /\ UNCHANGED <<accounts, forms, link, booted>>
        /\ run'.act = act /\ run'.writes = Writes(act) /\ run' # NoRun
        /\ issues = Issues
    BY <1>1, <1>6, RunTypes, ServingIssues DEF Run, Idle, store
  <2>2. /\ act.type \in {"create", "remove", "submit"}
        /\ act.type = "submit" => act.data \in Infos /\ act.data.issue \in Issues
        /\ act.type # "create" /\ act.addr = act.signer =>
             Live(act.signer) /\ act.seq = accounts[act.signer].seq + 1
        /\ act.type = "submit" => act.addr \in Users /\ Live(act.addr)
        /\ act.signer \in Users
    BY <1>1, <2>1, WritesFacts
  <2>3. PICK x \in App!Account \cup {Removed} :
          /\ IF act.type = "submit" /\ act.data.id # act.signer
             THEN Writes(act) = <<Content(act.data), Record(act.signer, x)>>
             ELSE Writes(act) = <<Record(act.signer, x)>>
          /\ IF act.type = "remove" THEN x = Removed
             ELSE x \in App!Account /\ x.pubKey = act.signer /\ x.seq = act.seq
          /\ act.type = "create" => x.formIDs = <<>>
          /\ act.type = "submit" => x.formIDs = Append(accounts[act.addr].formIDs, act.data.id)
    BY <1>1, <2>1, WritesFacts
  <2>4. /\ Left' = x /\ run'.writes # <<>>
        /\ act.type = "submit" /\ act.data.id # act.signer => Len(run'.writes) = 2
    <3>1. CASE act.type = "submit" /\ act.data.id # act.signer
      <4>1. run'.writes = <<Content(act.data), Record(act.signer, x)>>
        BY <2>1, <2>3, <3>1
      <4> QED
        BY <4>1 DEF Left, Record
    <3>2. CASE ~(act.type = "submit" /\ act.data.id # act.signer)
      <4>1. run'.writes = <<Record(act.signer, x)>>
        BY <2>1, <2>3, <3>2
      <4> QED
        BY <3>2, <4>1 DEF Left, Record
    <3> QED
      BY <3>1, <3>2
  <2>5. x # Removed => \A k \in DOMAIN x.formIDs : x.formIDs[k] \in FormIDs =>
          \/ forms[x.formIDs[k]] # Absent
          \/ act.type = "submit" /\ act.data.id # act.signer /\ x.formIDs[k] = act.data.id
    <3>1. CASE act.type = "submit"
      <4> DEFINE ids == accounts[act.addr].formIDs
      <4>1. /\ ids \in Seq(FormIDs \cup Users) /\ act.data.id \in FormIDs \cup Users
            /\ x.formIDs = Append(ids, act.data.id)
            /\ act.data.id \in FormIDs => act.data.id # act.signer
        BY <2>2, <2>3, <3>1, InfoFacts, ListTypes
      <4>2. /\ DOMAIN x.formIDs = 1 .. Len(ids) + 1 /\ Len(ids) \in Nat /\ DOMAIN ids = 1 .. Len(ids)
            /\ \A k \in 1 .. Len(ids) : x.formIDs[k] = ids[k]
            /\ x.formIDs[Len(ids) + 1] = act.data.id
        BY <4>1, AppendProperties, LenProperties
      <4>3. \A k \in DOMAIN ids : ids[k] \in FormIDs => forms[ids[k]] # Absent
        BY <2>2, <3>1 DEF ListedFormsStored, Live
      <4>4. \A k \in 1 .. Len(ids) + 1 : k \in 1 .. Len(ids) \/ k = Len(ids) + 1
        BY <4>2
      <4> QED
        BY <3>1, <4>1, <4>2, <4>3, <4>4
    <3>2. CASE act.type = "create"
      BY <2>3, <3>2
    <3>3. CASE act.type = "remove"
      BY <2>3, <3>3
    <3> QED
      BY <2>2, <3>1, <3>2, <3>3
  <2>6. Serving' /\ \A u : Live(u)' = Live(u)
    BY <2>1 DEF Serving, Live
  <2>7. \/ run'.writes = <<Record(act.signer, x)>>
        \/ /\ act.type = "submit" /\ act.data.id # act.signer
           /\ run'.writes = <<Content(act.data), Record(act.signer, x)>>
    BY <2>1, <2>3
  <2>8. IF act.type = "remove" THEN x = Removed
        ELSE x \in App!Account /\ x.pubKey = act.signer /\ x.seq = act.seq
    BY <2>3
  <2> QED
    BY <2>1, <2>2, <2>4, <2>5, <2>6, <2>7, <2>8 DEF Pending, Record, Content
<1>7. CASE Write
  <2> DEFINE act == run.act
  <2>1. /\ run # NoRun /\ run.writes # <<>> /\ run'.act = act
        /\ Serving /\ Serving'
        /\ UNCHANGED link
    BY <1>1, <1>7, WriteCases DEF Pending, Serving, Write
  <2>2. CASE run'.writes = <<>>
    BY <1>1, <2>1, <2>2 DEF Pending
  <2>3. CASE /\ act.type = "submit" /\ act.data.id # act.signer
             /\ act.data \in Infos
             /\ run.writes = <<Content(act.data), Record(act.signer, Left)>>
             /\ run'.writes = <<Record(act.signer, Left)>>
             /\ Left' = Left
             /\ accounts' = IF link /\ act.data.id \in Users
                            THEN [accounts EXCEPT ![act.data.id] = act.data.cid] ELSE accounts
             /\ forms' = IF link /\ act.data.id \in FormIDs
                         THEN [forms EXCEPT ![act.data.id] = act.data.cid] ELSE forms
    <3>1. /\ Left \in App!Account /\ Left.pubKey = act.signer /\ Left.seq = act.seq
          /\ act.data.issue \in Issues
          /\ link /\ act.addr = act.signer =>
               Live(act.signer) /\ act.seq = accounts[act.signer].seq + 1
          /\ link => \A k \in DOMAIN Left.formIDs : Left.formIDs[k] \in FormIDs =>
                       forms[Left.formIDs[k]] # Absent \/ Left.formIDs[k] = act.data.id
      BY <1>1, <2>1, <2>3, MarkersAssumption DEF Pending
    <3>2. link /\ act.data.id \in FormIDs => forms'[act.data.id] # Absent
      BY <1>1, <2>3, InfoFacts DEF TypeOK
    <3>3. link => \A k \in DOMAIN Left.formIDs : Left.formIDs[k] \in FormIDs =>
                    forms'[Left.formIDs[k]] # Absent
      BY <3>1, <3>2, FormsLast
    <3>4. accounts'[act.signer] = accounts[act.signer]
      BY <1>1, <2>3 DEF TypeOK
    <3>5. Live(act.signer)' = Live(act.signer)
      BY <2>1, <3>4 DEF Live
    <3> QED
      BY <2>1, <2>3, <3>1, <3>3, <3>4, <3>5 DEF Pending, Record
  <2> QED
    BY <1>1, <1>7, <2>2, <2>3, WriteCases
<1>8. CASE Respond \/ Restart
  BY <1>8 DEF Respond, Restart, End, Pending
<1>9. CASE Commit \/ Break
  BY <1>2, <1>9 DEF Commit, Break, store, proc
<1>10. CASE UNCHANGED vars
  BY <1>2, <1>10 DEF vars
<1> QED
  BY <1>4, <1>5, <1>6, <1>7, <1>8, <1>9, <1>10 DEF Next, CommitPanics

-----------------------------------------------------------------------------
(* The log *)

Entries == [act : App!Actions, life : 1 .. MaxLives]

\* The last write of an action gets through: its account becomes what it leaves,
\* and the log becomes longer.
Lands ==
  /\ Write /\ link
  /\ run.writes = <<Record(run.act.signer, Left)>>
  /\ accounts' = [accounts EXCEPT ![run.act.signer] = Left]
  /\ log' = Append(log, [act |-> run.act, life |-> life])
  /\ run'.writes = <<>> /\ run' # NoRun /\ run'.act = run.act
  /\ UNCHANGED <<forms, link, life, booted, issues, filters, block, committed>>

\* The steps a proof about the log and the accounts has to tell apart.
LEMMA LogCases ==
  ASSUME TInv, [Next]_vars
  PROVE  \/ Lands
         \/ UNCHANGED <<accounts, log, life>> /\ (Serving => Serving')
         \/ Restart /\ UNCHANGED <<accounts, log>> /\ life' = life + 1
         \/ /\ UNCHANGED <<log, life>> /\ ~Serving
            /\ \E u \in Genesis : accounts' = [accounts EXCEPT ![u] = App!NewAccount(u)]
         \/ FiledOver /\ UNCHANGED <<log, life>> /\ (Serving => Serving')
<1>1. TypeOK /\ Pending
  BY DEF TInv
<1>2. CASE Write
  <2>1. UNCHANGED <<life, booted>>
    BY <1>1, <1>2, WriteCases
  <2>2. \/ Lands
        \/ UNCHANGED <<accounts, log>>
        \/ FiledOver /\ UNCHANGED log
    BY <1>1, <1>2, WriteCases, InfoFacts DEF Lands, FiledOver
  <2> QED
    BY <2>1, <2>2 DEF Serving
<1>3. ASSUME NEW n \in DOMAIN Options, SetOption(n)
      PROVE  /\ UNCHANGED <<log, life>> /\ ~Serving
             /\ UNCHANGED accounts \/ SetAccount(n)
  BY <1>1, <1>3, BootFacts DEF SetOption, SetChainID, SetIssue, SetAccount, SkipOption, store
<1>4. CASE \E n \in DOMAIN Options : SetOption(n)
  <2>1. PICK n \in DOMAIN Options : SetOption(n)
    BY <1>4
  <2>2. CASE UNCHANGED accounts
    BY <1>3, <2>1, <2>2
  <2>3. CASE SetAccount(n)
    <3>1. Options[n].value \in Genesis
      BY <2>3, OptionFacts DEF SetAccount, Genesis
    <3> QED
      BY <1>3, <2>1, <2>3, <3>1 DEF SetAccount
  <2> QED
    BY <1>3, <2>1, <2>2, <2>3
<1>5. CASE SetFilters
  BY <1>5 DEF SetFilters, Serving, store
<1>6. CASE (\E act \in App!Actions : Run(act)) \/ Respond \/ Commit \/ Break \/ UNCHANGED vars
  BY <1>6 DEF Run, Respond, Commit, Break, store, proc, vars, Serving
<1>7. CASE Restart
  BY <1>7 DEF Restart, End, store
<1> QED
  BY <1>2, <1>4, <1>5, <1>6, <1>7 DEF Next, CommitPanics

\* The parts of the log.
LEMMA LogFacts ==
  ASSUME TypeOK
  PROVE  /\ log \in Seq(Entries) /\ Len(log) \in Nat /\ DOMAIN log = 1 .. Len(log)
         /\ \A i \in DOMAIN log : /\ log[i].act \in App!Actions /\ log[i].life \in 1 .. MaxLives
                                  /\ log[i].act.signer \in Users /\ log[i].act.seq \in Nat
<1>1. log \in Seq(Entries)
  BY DEF TypeOK, Entries
<1>2. Len(log) \in Nat /\ DOMAIN log = 1 .. Len(log) /\ \A i \in DOMAIN log : log[i] \in Entries
  BY <1>1, LenProperties, ElementOfSeq
<1> QED
  BY <1>1, <1>2, ActionFacts DEF Entries

\* What the last write of an action does to the log.
LEMMA LandsFacts ==
  ASSUME TInv, Lands
  PROVE  /\ run.act \in App!Actions /\ run.act.signer \in Users /\ run.act.seq \in Nat /\ Serving
         /\ DOMAIN log' = 1 .. Len(log) + 1 /\ Len(log') = Len(log) + 1 /\ log' # <<>>
         /\ \A i \in 1 .. Len(log) : log'[i] = log[i]
         /\ log'[Len(log) + 1].act = run.act /\ log'[Len(log) + 1].life = life
         /\ Left \in App!Account \cup {Removed}
         /\ Left # Removed => Left.seq = run.act.seq
         /\ run.act.type # "create" /\ run.act.addr = run.act.signer =>
              Live(run.act.signer) /\ run.act.seq = accounts[run.act.signer].seq + 1
         /\ run.act.type = "submit" => run.act.data \in Infos /\ run.act.data.issue \in Issues
<1>1. TypeOK /\ Pending
  BY DEF TInv
<1>2. run # NoRun /\ run \in Runs /\ run.writes # <<>> /\ link
  BY <1>1 DEF Lands, Write, TypeOK
<1>3. run.act \in App!Actions /\ run.act.signer \in Users /\ run.act.seq \in Nat
  BY <1>2, ActionFacts DEF Runs
<1> DEFINE e == [act |-> run.act, life |-> life]
<1>4. e \in Entries /\ e.act = run.act /\ e.life = life
  BY <1>1, <1>3 DEF Entries, TypeOK
<1>5. log \in Seq(Entries) /\ log' = Append(log, e)
  BY <1>1, LogFacts DEF Lands
<1>6. /\ log' \in Seq(Entries) /\ Len(log') = Len(log) + 1 /\ log' # <<>>
      /\ \A i \in 1 .. Len(log) : log'[i] = log[i]
      /\ log'[Len(log) + 1] = e
  BY <1>4, <1>5, AppendProperties
<1>7. DOMAIN log' = 1 .. Len(log) + 1
  BY <1>6, LenProperties
<1>8. /\ Serving
      /\ Left \in App!Account \cup {Removed}
      /\ Left # Removed => Left.seq = run.act.seq
      /\ run.act.type # "create" /\ run.act.addr = run.act.signer =>
           Live(run.act.signer) /\ run.act.seq = accounts[run.act.signer].seq + 1
      /\ run.act.type = "submit" => run.act.data \in Infos /\ run.act.data.issue \in Issues
  BY <1>1, <1>2 DEF Pending
<1> QED
  BY <1>3, <1>4, <1>6, <1>7, <1>8

\* Every step keeps the log in its lives.
LEMMA StepLives == TInv /\ Lives /\ [Next]_vars => Lives'
<1> SUFFICES ASSUME TInv, Lives, [Next]_vars
             PROVE  Lives'
  OBVIOUS
<1>1. TypeOK
  BY DEF TInv
<1>2. \A i \in DOMAIN log : log[i].life \in Nat /\ life \in Nat
  BY <1>1, LogFacts DEF TypeOK
<1>3. CASE Lands
  <2>1. Serving'
    BY <1>3, LandsFacts DEF Lands, Serving
  <2>2. Len(log) \in Nat /\ DOMAIN log = 1 .. Len(log) /\ life' = life /\ life \in Nat
    BY <1>1, <1>3, LogFacts DEF Lands, TypeOK
  <2> SUFFICES ASSUME NEW i \in 1 .. Len(log) + 1
               PROVE  /\ log'[i].life <= life
                      /\ log'[i].act.type = "submit" =>
                           log'[i].act.data \in Infos /\ log'[i].act.data.issue \in Issues
    BY <1>3, <2>1, <2>2, LandsFacts DEF Lives
  <2>3. CASE i = Len(log) + 1
    BY <1>3, <2>2, <2>3, LandsFacts
  <2>4. CASE i \in 1 .. Len(log)
    BY <1>3, <2>2, <2>4, LandsFacts DEF Lives
  <2> QED
    BY <2>2, <2>3, <2>4
<1>4. CASE UNCHANGED <<log, life>> /\ (Serving => Serving')
  BY <1>4 DEF Lives
<1>5. CASE UNCHANGED log /\ life' = life + 1
  BY <1>2, <1>5 DEF Lives
<1> QED
  BY <1>3, <1>4, <1>5, LogCases

\* An action that lands has the sequence number after that of its account, and
\* no earlier one since the account was begun has a larger number; a form filed
\* over an account leaves none to compare with.
LEMMA StepReplay ==
  TInv /\ Lives /\ SeqIsLargest /\ NoReplayDurable /\ [Next]_vars => SeqIsLargest' /\ NoReplayDurable'
<1> SUFFICES ASSUME TInv, Lives, SeqIsLargest, NoReplayDurable, [Next]_vars
             PROVE  SeqIsLargest' /\ NoReplayDurable'
  OBVIOUS
<1>1. TypeOK /\ Pending
  BY DEF TInv
<1>2. /\ Len(log) \in Nat /\ DOMAIN log = 1 .. Len(log)
      /\ \A i \in DOMAIN log : log[i].life \in Nat /\ log[i].act.signer \in Users /\ log[i].act.seq \in Nat
      /\ life \in Nat
      /\ \A u \in Users : Live(u) => accounts[u].seq \in Nat
  BY <1>1, LogFacts, ListTypes DEF TypeOK, App!Account
<1>3. CASE Lands
  <2> DEFINE n == Len(log)
             act == run.act
  <2> PICK a : a = act.signer
    OBVIOUS
  <2>1. /\ a \in Users /\ act.seq \in Nat /\ Left \in App!Account \cup {Removed}
        /\ DOMAIN log' = 1 .. n + 1 /\ Len(log') = n + 1
        /\ \A i \in 1 .. n : log'[i] = log[i]
        /\ log'[n + 1].act = act /\ log'[n + 1].life = life
        /\ Left # Removed => Left.seq = act.seq
        /\ act.type # "create" /\ act.addr = a => Live(a) /\ act.seq = accounts[a].seq + 1
        /\ life' = life
    BY <1>3, LandsFacts DEF Lands
  <2>2. \A v \in Users : accounts'[v] = IF v = a THEN Left ELSE accounts[v]
    BY <1>1, <1>3 DEF Lands, TypeOK
  <2>3. ASSUME NEW k \in 1 .. n, NEW u \in Users
        PROVE  Renews(k, u)' = Renews(k, u)
    BY <2>1 DEF Renews
  <2>4. ASSUME NEW k, k = n + 1, ~Renews(k, a)'
        PROVE  act.type # "create" /\ act.addr = a
    BY <2>1, <2>4 DEF Renews
  \* What an earlier action of the account has to fulfil to be compared with
  \* this one is what it had to fulfil before.
  <2>5. ASSUME NEW i \in 1 .. n, log[i].act.signer = a, a \in Genesis => log[i].life = life,
               \A k \in i + 1 .. n + 1 : ~Renews(k, a)'
        PROVE  log[i].act.seq < act.seq
    <3>1. n + 1 \in i + 1 .. n + 1
      BY <1>2
    <3>2. act.type # "create" /\ act.addr = a
      BY <2>4, <2>5, <3>1
    <3>3. \A k \in i + 1 .. n : k \in 1 .. n /\ k \in i + 1 .. n + 1
      BY <1>2
    <3>4. \A k \in i + 1 .. n : ~Renews(k, a)
      BY <2>1, <2>3, <2>5, <3>3
    <3>5. log[i].act.seq <= accounts[a].seq
      BY <1>2, <2>1, <2>5, <3>2, <3>4 DEF SeqIsLargest
    <3> QED
      BY <1>2, <2>1, <3>2, <3>5
  <2>6. SeqIsLargest'
    <3> SUFFICES ASSUME NEW u \in Users, Live(u)', NEW i \in 1 .. n + 1,
                        log'[i].act.signer = u,
                        u \in Genesis => log'[i].life = life,
                        \A k \in i + 1 .. n + 1 : ~Renews(k, u)'
                 PROVE  log'[i].act.seq <= accounts'[u].seq
      BY <2>1 DEF SeqIsLargest
    <3>1. CASE u = a
      <4>1. accounts'[u].seq = act.seq
        BY <2>1, <2>2, <3>1 DEF Live
      <4>2. CASE i = n + 1
        BY <2>1, <4>1, <4>2
      <4>3. CASE i \in 1 .. n
        <5>1. log[i].act.seq < act.seq
          BY <2>1, <2>5, <3>1, <4>3
        <5> QED
          BY <1>2, <2>1, <4>1, <4>3, <5>1
      <4> QED
        BY <1>2, <4>2, <4>3
    <3>2. CASE u # a
      <4>1. accounts'[u] = accounts[u] /\ Live(u)
        BY <2>2, <3>2 DEF Live
      <4>2. i \in 1 .. n
        BY <1>2, <2>1, <3>2
      <4>3. \A k \in i + 1 .. n : k \in 1 .. n /\ k \in i + 1 .. n + 1
        BY <1>2
      <4>4. \A k \in i + 1 .. n : ~Renews(k, u)
        BY <2>3, <4>3
      <4> QED
        BY <1>2, <2>1, <4>1, <4>2, <4>4 DEF SeqIsLargest
    <3> QED
      BY <3>1, <3>2
  <2>7. NoReplayDurable'
    <3> SUFFICES ASSUME NEW i \in 1 .. n + 1, NEW j \in 1 .. n + 1, i < j,
                        log'[i].act.signer = log'[j].act.signer,
                        log'[i].act.signer \in Genesis => log'[i].life = log'[j].life,
                        \A k \in i + 1 .. j : ~Renews(k, log[i].act.signer)'
                 PROVE  log'[i].act.seq < log'[j].act.seq
      BY <2>1 DEF NoReplayDurable
    <3>1. i \in 1 .. n /\ log'[i] = log[i]
      BY <1>2, <2>1
    <3>2. CASE j = n + 1
      <4>1. log[i].act.signer = a
        BY <2>1, <3>1, <3>2
      <4>2. \A k \in i + 1 .. n + 1 : ~Renews(k, a)'
        BY <2>1, <3>1, <3>2, <4>1 DEF Renews
      <4> QED
        BY <2>1, <2>5, <3>1, <3>2, <4>1, <4>2
    <3>3. CASE j \in 1 .. n
      <4>1. \A k \in i + 1 .. j : k \in 1 .. n
        BY <1>2, <3>3
      <4>2. log'[j] = log[j] /\ log[i].act.signer \in Users
        BY <1>2, <2>1, <3>1, <3>3
      <4>3. \A k \in i + 1 .. j : ~Renews(k, log[i].act.signer)
        BY <2>1, <3>1, <4>1 DEF Renews
      <4> QED
        BY <1>2, <3>1, <3>3, <4>2, <4>3 DEF NoReplayDurable
    <3> QED
      BY <1>2, <3>2, <3>3
  <2> QED
    BY <2>6, <2>7
<1>4. CASE UNCHANGED <<accounts, log, life>>
  BY <1>4 DEF SeqIsLargest, NoReplayDurable, Live, Renews
<1>5. CASE UNCHANGED <<accounts, log>> /\ life' = life + 1
  <2>1. \A i \in DOMAIN log : log[i].life # life'
    BY <1>2, <1>5 DEF Lives
  <2> QED
    BY <1>5, <2>1 DEF SeqIsLargest, NoReplayDurable, Live, Renews
<1>6. ASSUME UNCHANGED <<log, life>>, ~Serving,
             NEW u \in Genesis, accounts' = [accounts EXCEPT ![u] = App!NewAccount(u)]
      PROVE  SeqIsLargest' /\ NoReplayDurable'
  <2>1. \A i \in DOMAIN log : log[i].life # life
    BY <1>2, <1>6 DEF Lives
  <2>2. \A v \in Users : v # u => accounts'[v] = accounts[v]
    BY <1>1, <1>6 DEF TypeOK
  <2> QED
    BY <1>6, <2>1, <2>2 DEF SeqIsLargest, NoReplayDurable, Live, Renews
<1>7. CASE FiledOver /\ UNCHANGED <<log, life>>
  <2>1. \A v \in Users : Live(v)' => accounts'[v] = accounts[v] /\ Live(v)
    BY <1>1, <1>7 DEF FiledOver, TypeOK, Live
  <2> QED
    BY <1>7, <2>1 DEF SeqIsLargest, NoReplayDurable, Renews
<1> QED
  BY <1>3, <1>4, <1>5, <1>6, <1>7, LogCases

-----------------------------------------------------------------------------
(* What was committed *)

\* A longer log holds what the shorter one held.
LEMMA EmbedsLasts ==
  ASSUME NEW acts, NEW old, NEW new, NEW n \in Nat, NEW m \in Nat, n <= m, Embeds(acts, old, n),
         \A i \in 1 .. n : new[i] = old[i]
  PROVE  Embeds(acts, new, m)
<1>1. PICK at \in [DOMAIN acts -> 1 .. n] :
        /\ \A i \in DOMAIN acts : acts[i] = old[at[i]].act
        /\ \A i, j \in DOMAIN acts : i < j => at[i] < at[j]
  BY DEF Embeds
<1>2. at \in [DOMAIN acts -> 1 .. m]
  BY <1>1
<1>3. \A i \in DOMAIN acts : new[at[i]] = old[at[i]]
  BY <1>1
<1> QED
  BY <1>1, <1>2, <1>3 DEF Embeds

\* An action that follows what was found is found with it.
LEMMA EmbedsAppend ==
  ASSUME NEW A, NEW acts \in Seq(A), NEW e \in A, NEW entries, NEW n \in Nat,
         Embeds(acts, entries, n), e = entries[n + 1].act
  PROVE  Embeds(Append(acts, e), entries, n + 1)
<1> DEFINE l == Len(acts)
           more == Append(acts, e)
<1>1. /\ l \in Nat /\ DOMAIN acts = 1 .. l /\ DOMAIN more = 1 .. l + 1
      /\ \A i \in 1 .. l : more[i] = acts[i]
      /\ more[l + 1] = e
  BY AppendProperties, LenProperties
<1>2. PICK at \in [1 .. l -> 1 .. n] :
        /\ \A i \in 1 .. l : acts[i] = entries[at[i]].act
        /\ \A i, j \in 1 .. l : i < j => at[i] < at[j]
  BY <1>1 DEF Embeds
<1> DEFINE to == [i \in 1 .. l + 1 |-> IF i = l + 1 THEN n + 1 ELSE at[i]]
<1>3. \A i \in 1 .. l + 1 : i = l + 1 \/ i \in 1 .. l
  BY <1>1
<1>4. \A i \in 1 .. l : at[i] \in 1 .. n /\ at[i] \in 1 .. n + 1 /\ at[i] < n + 1
  BY <1>2
<1>5. to \in [1 .. l + 1 -> 1 .. n + 1]
  BY <1>3, <1>4
<1>6. /\ to[l + 1] = n + 1
      /\ \A i \in 1 .. l : to[i] = at[i]
  BY <1>1
<1>7. \A i \in 1 .. l + 1 : more[i] = entries[to[i]].act
  BY <1>1, <1>2, <1>3, <1>6
<1>8. \A i, j \in 1 .. l + 1 : i < j => to[i] < to[j]
  <2> SUFFICES ASSUME NEW i \in 1 .. l + 1, NEW j \in 1 .. l + 1, i < j
               PROVE  to[i] < to[j]
    BY Zenon
  <2>1. i \in 1 .. l
    BY <1>1
  <2>2. CASE j = l + 1
    BY <1>4, <1>6, <2>1, <2>2
  <2>3. CASE j \in 1 .. l
    BY <1>2, <1>6, <2>1, <2>3
  <2> QED
    BY <1>3, <2>2, <2>3
<1>9. DOMAIN more = 1 .. l + 1
  BY <1>1
<1> HIDE DEF to, more, l
<1>10. \E f \in [DOMAIN more -> 1 .. n + 1] :
         /\ \A i \in DOMAIN more : more[i] = entries[f[i]].act
         /\ \A i, j \in DOMAIN more : i < j => f[i] < f[j]
  BY <1>5, <1>7, <1>8, <1>9, Zenon
<1> QED
  BY <1>10 DEF Embeds, more

\* What is answered with ok has landed, unless the connection is broken; then
\* the block is never committed.
LEMMA StepEffect == TInv /\ Effect /\ [Next]_vars => Effect'
<1> SUFFICES ASSUME TInv, Effect, [Next]_vars
             PROVE  Effect'
  OBVIOUS
<1>1. TypeOK /\ Pending
  BY DEF TInv
<1>2. /\ Len(log) \in Nat /\ DOMAIN log = 1 .. Len(log) /\ log \in Seq(Entries)
      /\ committed \in Seq(App!Actions) /\ block \in Seq(App!Actions)
      /\ committed \o block \in Seq(App!Actions)
      /\ committed \o <<>> = committed
      /\ (committed \o block) \o <<>> = committed \o block
  BY <1>1, LogFacts, ConcatProperties, ConcatEmptySeq DEF TypeOK
<1>4. ASSUME UNCHANGED <<log, committed, block>>, link' => link,
             (run' # NoRun /\ run'.writes = <<>>) <=> (run # NoRun /\ run.writes = <<>>),
             run' # NoRun /\ run # NoRun => run'.act = run.act
      PROVE  Effect'
  BY <1>4 DEF Effect
<1>5. ASSUME UNCHANGED <<log, committed>>, block' = <<>>, run' = NoRun
      PROVE  Effect'
  <2>1. committed' \o block' = committed
    BY <1>2, <1>5
  <2> QED
    BY <1>5, <2>1 DEF Effect
<1>6. CASE \E n \in DOMAIN Options : SetOption(n)
  BY <1>4, <1>6 DEF SetOption, SetChainID, SetIssue, SetAccount, SkipOption
<1>7. CASE SetFilters \/ Break \/ UNCHANGED vars
  BY <1>4, <1>7 DEF SetFilters, Break, vars, proc
<1>8. CASE \E act \in App!Actions : Run(act)
  <2>1. PICK act \in App!Actions : Run(act)
    BY <1>8
  <2>2. run'.writes # <<>> /\ run = NoRun
    <3>1. App!Valid(act) /\ CanRun(act) /\ issues = Issues /\ run = NoRun
      BY <1>1, <2>1, ServingIssues DEF Run, Idle
    <3>2. PICK x \in App!Account \cup {Removed} :
            IF act.type = "submit" /\ act.data.id # act.signer
            THEN Writes(act) = <<Content(act.data), Record(act.signer, x)>>
            ELSE Writes(act) = <<Record(act.signer, x)>>
      BY <1>1, <3>1, WritesFacts DEF TInv
    <3>3. Writes(act) # <<>>
      <4>1. CASE act.type = "submit" /\ act.data.id # act.signer
        <5>1. Writes(act) = <<Content(act.data), Record(act.signer, x)>>
          BY <3>2, <4>1
        <5>2. Len(Writes(act)) = 2
          BY <5>1
        <5> QED
          BY <5>2
      <4>2. CASE ~(act.type = "submit" /\ act.data.id # act.signer)
        BY <3>2, <4>2
      <4> QED
        BY <4>1, <4>2
    <3>4. run' = [act |-> act, writes |-> Writes(act)]
      BY <2>1 DEF Run
    <3> QED
      BY <3>1, <3>3, <3>4
  <2> QED
    BY <1>4, <2>1, <2>2 DEF Run
<1>9. CASE Write
  <2>1. /\ run # NoRun /\ run.writes # <<>> /\ run' # NoRun /\ run'.act = run.act
        /\ UNCHANGED <<link, block, committed>>
    BY <1>1, <1>9, WriteCases DEF Write
  <2>2. CASE Lands
    <3>1. /\ Len(log') = Len(log) + 1 /\ log' # <<>>
          /\ \A i \in 1 .. Len(log) : log'[i] = log[i]
          /\ log'[Len(log')].act = run.act
          /\ link /\ run'.writes = <<>>
      BY <2>2, LandsFacts DEF Lands
    <3>2. Embeds(committed, log, Len(log)) /\ Embeds(committed \o block, log, Len(log))
      BY <2>1, <3>1 DEF Effect
    <3>3. Len(log') \in Nat /\ Len(log) <= Len(log') /\ Len(log') - 1 = Len(log)
      BY <1>2, <3>1
    <3>4. Embeds(committed, log', Len(log'))
      BY <1>2, <3>1, <3>2, <3>3, EmbedsLasts
    <3>5. Embeds(committed \o block, log', Len(log') - 1)
      <4>1. Embeds(committed \o block, log', Len(log))
        <5>1. Len(log) \in Nat /\ Len(log) <= Len(log) /\ \A i \in 1 .. Len(log) : log'[i] = log[i]
          BY <1>2, <3>1
        <5> QED
          BY <3>2, <5>1, EmbedsLasts
      <4> QED
        BY <3>3, <4>1
    <3> QED
      BY <2>1, <3>1, <3>4, <3>5 DEF Effect
  <2>3. CASE UNCHANGED log /\ run'.writes # <<>>
    BY <1>4, <2>1, <2>3
  <2>4. CASE UNCHANGED log /\ ~link
    BY <2>1, <2>4 DEF Effect
  <2> QED
    BY <1>1, <1>9, <2>2, <2>3, <2>4, WriteCases DEF Lands
<1>10. CASE Respond
  <2>1. /\ run # NoRun /\ run.writes = <<>> /\ block' = Append(block, run.act) /\ run' = NoRun
        /\ UNCHANGED <<log, link, committed>>
        /\ run.act \in App!Actions
    BY <1>1, <1>10 DEF Respond, TypeOK, Runs
  <2>2. committed \o Append(block, run.act) = Append(committed \o block, run.act)
    <3>1. Append(block, run.act) = block \o <<run.act>>
      BY <1>2, <2>1, AppendIsConcat
    <3>2. Append(committed \o block, run.act) = (committed \o block) \o <<run.act>>
      BY <1>2, <2>1, AppendIsConcat
    <3>3. <<run.act>> \in Seq(App!Actions)
      BY <2>1
    <3>4. (committed \o block) \o <<run.act>> = committed \o (block \o <<run.act>>)
      BY <1>2, <3>3, ConcatAssociative
    <3> QED
      BY <3>1, <3>2, <3>4
  <2>3. link => Embeds(Append(committed \o block, run.act), log, Len(log))
    <3> SUFFICES ASSUME link
                 PROVE  Embeds(Append(committed \o block, run.act), log, Len(log))
      OBVIOUS
    <3>1. log # <<>> /\ log[Len(log)].act = run.act /\ Embeds(committed \o block, log, Len(log) - 1)
      BY <2>1 DEF Effect
    <3>2. Len(log) - 1 \in Nat /\ Len(log) = (Len(log) - 1) + 1
      BY <1>2, <3>1, EmptySeq
    <3> QED
      BY <1>2, <2>1, <3>1, <3>2, EmbedsAppend
  <2>4. committed' \o block' = Append(committed \o block, run.act)
    BY <2>1, <2>2
  <2>5. link' => Embeds(committed' \o block', log', Len(log'))
    BY <2>1, <2>3, <2>4
  <2>6. Embeds(committed', log', Len(log'))
    BY <2>1 DEF Effect
  <2> QED
    BY <2>1, <2>5, <2>6 DEF Effect
<1>11. CASE Restart
  BY <1>5, <1>11 DEF Restart, End
<1>12. CASE Commit
  <2>1. /\ link /\ run = NoRun /\ run' = NoRun
        /\ committed' = committed \o block /\ block' = <<>>
        /\ UNCHANGED <<log, link>>
    BY <1>12 DEF Commit, Idle
  <2>2. Embeds(committed \o block, log, Len(log))
    BY <2>1 DEF Effect
  <2>3. committed' \o block' = committed \o block
    BY <1>2, <2>1
  <2> QED
    BY <2>1, <2>2, <2>3 DEF Effect
<1> QED
  BY <1>6, <1>7, <1>8, <1>9, <1>10, <1>11, <1>12 DEF Next, CommitPanics

-----------------------------------------------------------------------------
(* The filters *)

\* What a step does to the forms that are fresh: the form of the action that
\* lands joins them, and there are none before the application serves.
LEMMA FreshFacts ==
  ASSUME TInv, Lives, NEW issue
  PROVE  /\ UNCHANGED <<log, life>> => Fresh(issue)' = Fresh(issue)
         /\ ~Serving => Fresh(issue) = {}
         /\ Lands => Fresh(issue)' = Fresh(issue) \cup InFlight(issue)
<1>1. TypeOK
  BY DEF TInv
<1>2. /\ Len(log) \in Nat /\ DOMAIN log = 1 .. Len(log)
      /\ \A i \in DOMAIN log : log[i].life \in Nat
      /\ life \in Nat
  BY <1>1, LogFacts DEF TypeOK
<1>3. UNCHANGED <<log, life>> => Fresh(issue)' = Fresh(issue)
  BY DEF Fresh
<1>4. ~Serving => Fresh(issue) = {}
  BY <1>2 DEF Lives, Fresh
<1>5. ASSUME Lands
      PROVE  Fresh(issue)' = Fresh(issue) \cup InFlight(issue)
  <2> DEFINE n == Len(log)
             act == run.act
             now == {i \in 1 .. n : /\ log[i].life = life
                                    /\ log[i].act.type = "submit"
                                    /\ log[i].act.data.issue = issue}
             then == {i \in 1 .. n + 1 : /\ log'[i].life = life
                                         /\ log'[i].act.type = "submit"
                                         /\ log'[i].act.data.issue = issue}
  <2>1. /\ DOMAIN log' = 1 .. n + 1 /\ life' = life
        /\ \A i \in 1 .. n : log'[i] = log[i]
        /\ log'[n + 1].act = act /\ log'[n + 1].life = life
        /\ run # NoRun /\ run.writes # <<>>
    BY <1>5, LandsFacts DEF Lands, Write
  <2>2. Fresh(issue) = {log[i].act.data.id : i \in now}
    BY <1>2 DEF Fresh
  <2>3. Fresh(issue)' = {log'[i].act.data.id : i \in then}
    BY <2>1 DEF Fresh
  <2>4. InFlight(issue) = IF act.type = "submit" /\ act.data.issue = issue THEN {act.data.id} ELSE {}
    BY <2>1 DEF InFlight
  <2>5. n + 1 \notin 1 .. n /\ \A i : i \in 1 .. n + 1 <=> i \in 1 .. n \/ i = n + 1
    BY <1>2
  <2>6. then = now \cup IF act.type = "submit" /\ act.data.issue = issue THEN {n + 1} ELSE {}
    BY <2>1, <2>5
  <2>7. \A i \in now : log'[i].act.data.id = log[i].act.data.id
    BY <2>1
  <2>8. log'[n + 1].act.data.id = act.data.id
    BY <2>1
  <2> HIDE DEF now, then
  <2> QED
    BY <2>2, <2>3, <2>4, <2>6, <2>7, <2>8
<1> QED
  BY <1>3, <1>4, <1>5

\* A form joins its filter when its action runs, and the log when it lands.
LEMMA StepFilters == TInv /\ Lives /\ FiltersHold /\ [Next]_vars => FiltersHold'
<1> SUFFICES ASSUME TInv, Lives, FiltersHold, [Next]_vars, Serving', NEW issue \in Issues
             PROVE  /\ Fresh(issue)' \cup InFlight(issue)' \subseteq filters'[issue]
                    /\ link' => filters'[issue] = Fresh(issue)' \cup InFlight(issue)'
  BY DEF FiltersHold
<1>1. TypeOK /\ Pending
  BY DEF TInv
<1>2. Serving => /\ Fresh(issue) \cup InFlight(issue) \subseteq filters[issue]
                 /\ link => filters[issue] = Fresh(issue) \cup InFlight(issue)
  BY DEF FiltersHold
<1>3. ASSUME Serving, UNCHANGED <<log, life, filters>>, link' => link,
             InFlight(issue)' = InFlight(issue)
      PROVE  /\ Fresh(issue)' \cup InFlight(issue)' \subseteq filters'[issue]
             /\ link' => filters'[issue] = Fresh(issue)' \cup InFlight(issue)'
  BY <1>2, <1>3, FreshFacts
<1>4. CASE \E n \in DOMAIN Options : SetOption(n)
  <2>1. PICK n \in DOMAIN Options : SetOption(n)
    BY <1>4
  <2>2. booted' = n /\ n # Len(Options) + 1
    BY <1>1, <2>1, BootFacts DEF SetOption, SetChainID, SetIssue, SetAccount, SkipOption
  <2> QED
    BY <2>2 DEF Serving
<1>5. CASE SetFilters
  <2>1. /\ ~Serving /\ issues = Issues
        /\ filters' = [i \in issues |-> {}]
        /\ UNCHANGED <<log, life, run>>
    BY <1>1, <1>5, OptionFacts DEF SetFilters, Serving, TypeOK, Issues
  <2>2. run = NoRun
    BY <1>1, <2>1 DEF Pending
  <2>3. InFlight(issue)' = {}
    BY <2>1, <2>2 DEF InFlight
  <2>4. Fresh(issue)' = {}
    BY <2>1, FreshFacts
  <2> QED
    BY <2>1, <2>3, <2>4
<1>6. CASE \E act \in App!Actions : Run(act)
  <2>1. PICK act \in App!Actions : Run(act)
    BY <1>6
  <2>2. /\ Serving /\ run = NoRun /\ App!Valid(act) /\ CanRun(act) /\ issues = Issues
        /\ filters' = IF act.type = "submit" THEN App!FilterAdd(act.data) ELSE filters
        /\ UNCHANGED <<log, life, link>>
        /\ run' # NoRun /\ run'.act = act /\ run'.writes = Writes(act)
    BY <1>1, <2>1, RunTypes, ServingIssues DEF Run, Idle, TInv
  <2>3. InFlight(issue) = {}
    BY <2>2 DEF InFlight
  <2>4. Fresh(issue)' = Fresh(issue)
    BY <2>2, FreshFacts
  <2>5. CASE act.type = "submit" /\ act.data.issue = issue
    <3>1. \E x \in App!Account \cup {Removed} :
            \/ Writes(act) = <<Content(act.data), Record(act.signer, x)>>
            \/ Writes(act) = <<Record(act.signer, x)>>
      BY <1>1, <2>2, <2>5, WritesFacts DEF TInv
    <3>2. \A first, second : <<first, second>> # <<>> /\ <<second>> # <<>>
      OBVIOUS
    <3>3. run'.writes # <<>>
      BY <2>2, <3>1, <3>2, Zenon
    <3>4. InFlight(issue)' = {act.data.id}
      BY <2>2, <2>5, <3>3 DEF InFlight
    <3>5. filters'[issue] = filters[issue] \cup {act.data.id}
      BY <1>1, <2>2, <2>5 DEF App!FilterAdd, TypeOK
    <3> QED
      BY <1>2, <2>2, <2>3, <2>4, <3>4, <3>5
  <2>6. CASE ~(act.type = "submit" /\ act.data.issue = issue)
    <3>1. InFlight(issue)' = {}
      BY <2>2, <2>6 DEF InFlight
    <3>2. filters'[issue] = filters[issue]
      BY <1>1, <2>2, <2>6 DEF App!FilterAdd, TypeOK
    <3> QED
      BY <1>2, <2>2, <2>3, <2>4, <3>1, <3>2
  <2> QED
    BY <2>5, <2>6
<1>7. CASE Write
  <2>1. /\ run # NoRun /\ run.writes # <<>> /\ run' # NoRun /\ run'.act = run.act
        /\ UNCHANGED <<link, life, booted, filters>>
    BY <1>1, <1>7, WriteCases DEF Write
  <2>2. Serving
    BY <2>1 DEF Serving
  <2>3. CASE Lands
    <3>1. InFlight(issue)' = {}
      BY <2>3 DEF InFlight, Lands
    <3>2. Fresh(issue)' = Fresh(issue) \cup InFlight(issue)
      BY <2>3, FreshFacts
    <3> QED
      BY <1>2, <2>1, <2>2, <3>1, <3>2
  <2>4. CASE UNCHANGED log /\ run'.writes # <<>>
    <3>1. InFlight(issue)' = InFlight(issue)
      BY <2>1, <2>4 DEF InFlight
    <3> QED
      BY <1>3, <2>1, <2>2, <2>4, <3>1
  <2>5. CASE UNCHANGED log /\ ~link
    <3>1. InFlight(issue)' \subseteq InFlight(issue)
      BY <2>1 DEF InFlight
    <3>2. Fresh(issue)' = Fresh(issue)
      BY <2>1, <2>5, FreshFacts
    <3> QED
      BY <1>2, <2>1, <2>2, <2>5, <3>1, <3>2
  <2> QED
    BY <1>1, <1>7, <2>3, <2>4, <2>5, WriteCases DEF Lands
<1>8. CASE Respond
  <2>1. InFlight(issue)' = InFlight(issue)
    BY <1>8 DEF Respond, InFlight
  <2> QED
    BY <1>3, <1>8, <2>1 DEF Respond, Serving
<1>9. CASE Commit \/ Break \/ UNCHANGED vars
  <2>1. InFlight(issue)' = InFlight(issue)
    BY <1>9 DEF Commit, Break, proc, vars, InFlight
  <2> QED
    BY <1>3, <1>9, <2>1 DEF Commit, Break, proc, vars, Serving
<1>10. CASE Restart
  BY <1>10, OptionFacts DEF Restart, End, Serving
<1> QED
  BY <1>4, <1>5, <1>6, <1>7, <1>8, <1>9, <1>10 DEF Next, CommitPanics

-----------------------------------------------------------------------------
(* The theorems *)

\* The inductive invariant holds at the first start of the process, over a new
\* store.
LEMMA InitInv == Init => IInv
<1> SUFFICES ASSUME Init PROVE IInv
  OBVIOUS
<1> USE DEF Init
<1>1. TInv
  BY InitTypes
<1>2. DOMAIN log = {} /\ Len(log) = 0 /\ DOMAIN committed = {}
  OBVIOUS
<1>3. Lives /\ NoReplayDurable
  BY <1>2 DEF Lives, NoReplayDurable
<1>4. ListedFormsStored /\ SeqIsLargest
  BY DEF ListedFormsStored, SeqIsLargest, Live
<1>5. Embeds(<<>>, log, Len(log))
  <2> DEFINE at == [i \in {} |-> 0]
  <2>1. DOMAIN <<>> = {} /\ at \in [{} -> 1 .. Len(log)]
    OBVIOUS
  <2> QED
    BY <2>1 DEF Embeds
<1>6. committed \o block = <<>> /\ committed = <<>> /\ run = NoRun
  OBVIOUS
<1>7. Effect
  BY <1>5, <1>6 DEF Effect
<1>8. FiltersHold
  BY OptionFacts DEF FiltersHold, Serving
<1> QED
  BY <1>1, <1>3, <1>4, <1>7, <1>8 DEF IInv

\* Every step keeps it.
LEMMA StepInv == IInv /\ [Next]_vars => IInv'
<1> SUFFICES ASSUME IInv, [Next]_vars
             PROVE  IInv'
  OBVIOUS
<1>1. TInv /\ Lives /\ ListedFormsStored /\ SeqIsLargest /\ NoReplayDurable /\ Effect /\ FiltersHold
  BY DEF IInv
<1>2. TInv'
  BY <1>1, StepTypes, StepOwnKey, StepPending DEF TInv
<1>3. Lives' /\ ListedFormsStored' /\ SeqIsLargest' /\ NoReplayDurable'
  BY <1>1, StepLives, StepListed, StepReplay
<1>4. Effect' /\ FiltersHold'
  BY <1>1, StepEffect, StepFilters
<1> QED
  BY <1>2, <1>3, <1>4 DEF IInv

\* The invariant the others follow from: whatever the genesis file, whichever
\* writes are lost and wherever the process ends.
THEOREM Invariance == Spec => []IInv
<1>1. Init => IInv
  BY InitInv
<1>2. IInv /\ [Next]_vars => IInv'
  BY StepInv
<1> QED
  BY <1>1, <1>2, PTL DEF Spec

\* Every variable keeps its type; what the process knows of the genesis file is
\* what the options read so far say.
THEOREM TypesCorrect == Spec => []TypeOK
<1>1. IInv => TypeOK
  BY DEF IInv, TInv
<1> QED
  BY <1>1, Invariance, PTL

\* A form that an account lists can be found in the store, also when the process
\* or the connection ended between the writes of the form and of the account.
THEOREM ListedFormsFound == Spec => []ListedFormsStored
<1>1. IInv => ListedFormsStored
  BY DEF IInv
<1> QED
  BY <1>1, Invariance, PTL

\* What was committed reached the store, in its order, though the client loses
\* writes without a word.
THEOREM CommitsTookEffect == Spec => []CommittedTookEffect
<1>1. IInv => CommittedTookEffect
  <2> SUFFICES ASSUME IInv
               PROVE  CommittedTookEffect
    OBVIOUS
  <2>1. Embeds(committed, log, Len(log))
    BY DEF IInv, Effect
  <2>2. DOMAIN log = 1 .. Len(log)
    BY LogFacts DEF IInv, TInv
  <2> QED
    BY <2>1, <2>2 DEF Embeds, CommittedTookEffect
<1> QED
  BY <1>1, Invariance, PTL

\* Replay protection lasts through restarts and lost writes, as long as the
\* account is not made anew.
THEOREM ReplaysRefused == Spec => []NoReplayDurable
<1>1. IInv => NoReplayDurable
  BY DEF IInv
<1> QED
  BY <1>1, Invariance, PTL

\* The filters hold the forms accepted since the process started, and, while no
\* write was lost and no action runs, nothing else.
THEOREM FiltersKnowTheLife == Spec => []FiltersSinceStart
<1>1. IInv => FiltersSinceStart
  <2> SUFFICES ASSUME IInv, Serving, NEW issue \in Issues
               PROVE  /\ Fresh(issue) \subseteq filters[issue]
                      /\ (link /\ run = NoRun) => filters[issue] = Fresh(issue)
    BY DEF FiltersSinceStart
  <2>1. /\ Fresh(issue) \cup InFlight(issue) \subseteq filters[issue]
        /\ link => filters[issue] = Fresh(issue) \cup InFlight(issue)
    BY DEF IInv, FiltersHold
  <2>2. run = NoRun => InFlight(issue) = {}
    BY DEF InFlight
  <2> QED
    BY <2>1, <2>2
<1> QED
  BY <1>1, Invariance, PTL

=============================================================================
