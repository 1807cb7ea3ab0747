------------------------------- MODULE Restart -------------------------------
(***************************************************************************)
(* The application over a store in another process (main.go:19): how it    *)
(* starts (cmd/comit/main.go), how the writes of an action reach the store *)
(* one by one (the Sync of types/cache.go over app/client.go), and what is *)
(* left when the process ends in between or the connection breaks.         *)
(*                                                                         *)
(* The store keeps accounts and forms.  The filters and everything else of *)
(* the application are gone with the process; it then starts again and     *)
(* reads the same genesis file.  The client logs an error and goes on: a   *)
(* read over a broken connection finds nothing, a write is lost.           *)
(*                                                                         *)
(* Actions that do not validate, and runs that fail, change nothing and    *)
(* have no step here; a panic (a record that a form was filed over is read) is  *)
(* an end of the process like any other.                                   *)
(***************************************************************************)
EXTENDS Integers, Sequences

CONSTANTS
  Users, FormIDs, ContentIDs, IssueNames, Infos, SeqNos,  \* as in Execution
  NoUser, NoInfo, Absent, Removed,
  Items,        \* the genesis file: a key, a value, a key, a value, and so on
  MaxLog,       \* bound: how many actions reach the store
  MaxBlock,     \* bound: how many actions a block has
  MaxLives,     \* bound: how often the process starts
  NoRun, NoChain

-----------------------------------------------------------------------------
(* The genesis file: loadGenesis of cmd/comit/main.go *)

\* A file with an odd number of items is refused, and the process exits.
ASSUME ItemsAssumption == Len(Items) \in Nat /\ Len(Items) % 2 = 0

Options == [n \in 1 .. Len(Items) \div 2 |-> [key |-> Items[2 * n - 1], value |-> Items[2 * n]]]

\* A key is its parts around the first slash; one without a slash is all prefix.
SplitKey(key) == IF Len(key) = 2 THEN key[2] ELSE ""

Key(n) == SplitKey(Options[n].key)

\* The values of the options up to the n-th that have a key.
Values(key, n) == {Options[m].value : m \in {k \in DOMAIN Options : k <= n /\ Key(k) = key}}

Issues  == Values("issue", Len(Options))
Genesis == Values("account", Len(Options))

ASSUME OptionsAssumption ==
  /\ Issues \subseteq IssueNames
  /\ Genesis \subseteq Users
  /\ MaxLog \in Nat /\ MaxBlock \in Nat /\ MaxLives \in Nat \ {0}

VARIABLES
  accounts, forms,   \* the store
  link,         \* the connection to the store
  life,         \* how often the process has started
  booted,       \* how many options are set; one more when the filters are, too,
                \* and the application serves requests
  chainID,      \* the chain the application signs for
  issues,       \* the issues the application knows
  filters,      \* the identifiers added to the filter of each issue
  run,          \* the action that is run, with the writes still to make
  block,        \* the actions answered with ok since the last commit
  log,          \* history: the actions whose account reached the store, each
                \* with the life it was accepted in
  committed     \* history: the actions of committed blocks

store == <<accounts, forms>>
proc  == <<booted, chainID, issues, filters, run, block>>
vars  == <<accounts, forms, link, life, booted, chainID, issues, filters, run, block, log, committed>>

\* What a read of an account finds.
Seen == IF link THEN accounts ELSE [u \in Users |-> Absent]

App == INSTANCE Execution WITH
  accounts <- Seen, up <- TRUE, res <- "none"

\* What a write takes to the store.
WriteRecords ==
  [to : {"accounts"}, key : Users, value : App!Account \cup ContentIDs \cup {Removed}] \cup
  [to : {"forms"}, key : FormIDs, value : ContentIDs]

\* An action that is run, with the writes still to make.
Runs == [act : App!Actions, writes : Seq(WriteRecords)]

ASSUME ConstantsAssumption ==
  /\ Infos \subseteq [id : FormIDs \cup Users, cid : ContentIDs, issue : IssueNames,
                      submitter : Users]
  /\ FormIDs \cap Users = {}
  /\ SeqNos \subseteq Nat
  /\ NoUser \notin Users
  /\ NoInfo \notin Infos

ASSUME MarkersAssumption ==
  /\ Absent \notin ContentIDs
  /\ Removed \notin ContentIDs
  /\ ContentIDs \cap App!Account = {}
  /\ Absent \notin App!Account
  /\ Removed \notin App!Account
  /\ Absent # Removed
  /\ NoRun \notin Runs

-----------------------------------------------------------------------------
(* Startup: cmd/comit/main.go *)

Serving == booted = Len(Options) + 1

Booting(n) == booted = n - 1

SetChainID(n) ==
  /\ Booting(n)
  /\ Key(n) = "chainID"
  /\ chainID' = Options[n].value
  /\ booted' = n
  /\ UNCHANGED <<store, link, life, issues, filters, run, block, log, committed>>

SetIssue(n) ==
  /\ Booting(n)
  /\ Key(n) = "issue"
  /\ issues' = issues \cup {Options[n].value}
  /\ booted' = n
  /\ UNCHANGED <<store, link, life, chainID, filters, run, block, log, committed>>

\* The account of the genesis file takes the place of the one in the store.
SetAccount(n) ==
  LET u == Options[n].value IN
  /\ Booting(n)
  /\ Key(n) = "account"
  /\ accounts' = IF link THEN [accounts EXCEPT ![u] = App!NewAccount(u)] ELSE accounts
  /\ booted' = n
  /\ UNCHANGED <<forms, link, life, chainID, issues, filters, run, block, log, committed>>

\* An option that is not known is answered with a message, and that is all.
SkipOption(n) ==
  /\ Booting(n)
  /\ Key(n) \notin {"chainID", "issue", "account"}
  /\ booted' = n
  /\ UNCHANGED <<store, link, life, chainID, issues, filters, run, block, log, committed>>

SetOption(n) == SetChainID(n) \/ SetIssue(n) \/ SetAccount(n) \/ SkipOption(n)

\* Filters are made, empty, for the issues known by now; the server starts.
SetFilters ==
  /\ booted = Len(Options)
  /\ filters' = [issue \in issues |-> {}]
  /\ booted' = Len(Options) + 1
  /\ UNCHANGED <<store, link, life, chainID, issues, run, block, log, committed>>

-----------------------------------------------------------------------------
(* AppendTx: state/execution.go *)

Record(user, record) == [to |-> "accounts", key |-> user, value |-> record]

\* A form goes to its identifier, which may be the key of an account record.
Content(info) ==
  [to |-> IF info.id \in Users THEN "accounts" ELSE "forms",
   key |-> info.id, value |-> info.cid]

\* Mutated form: the account is written before the form it lists.
AccountFirst(act) ==
  LET acc == App!Charged(App!InputAccount(act)) IN
  CASE act.type = "create" -> <<Record(acc.pubKey, acc)>>
    [] act.type = "remove" -> <<Record(acc.pubKey, Removed)>>
    [] act.type = "submit" -> <<Record(acc.pubKey, App!AddFormID(acc, act.data)), Content(act.data)>>

\* The writes that the run of an action leaves in its cache, in the order of
\* their Sync.  The cache has one write for a key: of a form that is filed over
\* the account it is listed in nothing is left.
Writes(act) ==
  LET acc == App!Charged(App!InputAccount(act)) IN
  CASE act.type = "create" -> <<Record(acc.pubKey, acc)>>
    [] act.type = "remove" -> <<Record(acc.pubKey, Removed)>>
    [] act.type = "submit" ->
         (IF act.data.id = acc.pubKey THEN <<>> ELSE <<Content(act.data)>>)
           \o <<Record(acc.pubKey, App!AddFormID(acc, act.data))>>

Idle == Serving /\ run = NoRun

CanRun(act) ==
  \/ act.type \in {"create", "remove"}
  \/ act.type = "submit" /\ act.data # NoInfo /\ act.data.issue \in issues

\* Mutated form: a form that is stored is taken to be in the filter.
RunKnownForm(act) ==
  /\ Idle /\ chainID # NoChain
  /\ Len(log) < MaxLog /\ Len(block) < MaxBlock
  /\ App!Valid(act)
  /\ CanRun(act)
  /\ filters' = IF /\ act.type = "submit"
                   /\ act.data.id \in FormIDs => forms[act.data.id] = Absent
                THEN App!FilterAdd(act.data) ELSE filters
  /\ run' = [act |-> act, writes |-> Writes(act)]
  /\ UNCHANGED <<store, link, life, booted, chainID, issues, block, log, committed>>

\* The action validates and runs.  A form is in the filter before it is in the
\* store.
Run(act) ==
  /\ Idle /\ chainID # NoChain
  /\ Len(log) < MaxLog /\ Len(block) < MaxBlock
  /\ App!Valid(act)
  /\ CanRun(act)
  /\ filters' = IF act.type = "submit" THEN App!FilterAdd(act.data) ELSE filters
  /\ run' = [act |-> act, writes |-> Writes(act)]
  /\ UNCHANGED <<store, link, life, booted, chainID, issues, block, log, committed>>

\* One write of the Sync, of which that of the account is the last.  A write over
\* a broken connection is logged and lost.
Write ==
  /\ run # NoRun
  /\ run.writes # <<>>
  /\ LET w == Head(run.writes) IN
     /\ forms' = IF link /\ w.to = "forms" THEN [forms EXCEPT ![w.key] = w.value] ELSE forms
     /\ accounts' = IF link /\ w.to = "accounts" THEN [accounts EXCEPT ![w.key] = w.value] ELSE accounts
  /\ log' = IF link /\ Tail(run.writes) = <<>>
            THEN Append(log, [act |-> run.act, life |-> life]) ELSE log
  /\ run' = [run EXCEPT !.writes = Tail(@)]
  /\ UNCHANGED <<link, life, booted, chainID, issues, filters, block, committed>>

\* The action is answered with ok, whatever became of its writes.
Respond ==
  /\ run # NoRun
  /\ run.writes = <<>>
  /\ block' = Append(block, run.act)
  /\ run' = NoRun
  /\ UNCHANGED <<store, link, life, booted, chainID, issues, filters, log, committed>>

-----------------------------------------------------------------------------
(* Commit, and the end of the process *)

\* Mutated form: the error of the store is not looked at.
CommitAnyway ==
  /\ Idle
  /\ committed' = committed \o block
  /\ block' = <<>>
  /\ UNCHANGED <<store, link, life, booted, chainID, issues, filters, run, log>>

\* The store answers with the hash of the tree.
Commit ==
  /\ Idle
  /\ link
  /\ committed' = committed \o block
  /\ block' = <<>>
  /\ UNCHANGED <<store, link, life, booted, chainID, issues, filters, run, log>>

End ==
  /\ booted' = 0
  /\ chainID' = NoChain
  /\ issues' = {}
  /\ filters' = <<>>
  /\ run' = NoRun
  /\ block' = <<>>
  /\ UNCHANGED <<store, log, committed>>

\* A process that has ended is started again, and connects to the store.
\* It ends anywhere: killed, or by a panic of its own.
Restart ==
  /\ life < MaxLives
  /\ End
  /\ link' = TRUE
  /\ life' = life + 1

\* The hash cannot be had: Commit panics.
CommitPanics ==
  /\ Idle
  /\ ~link
  /\ Restart

\* The connection breaks, and stays broken as long as the process runs.
Break ==
  /\ link
  /\ link' = FALSE
  /\ UNCHANGED <<store, life, proc, log, committed>>

-----------------------------------------------------------------------------
\* The store is new, and the process starts for the first time.
Init ==
  /\ accounts = [u \in Users |-> Absent]
  /\ forms = [id \in FormIDs |-> Absent]
  /\ link = TRUE
  /\ life = 1
  /\ booted = 0
  /\ chainID = NoChain
  /\ issues = {}
  /\ filters = <<>>
  /\ run = NoRun
  /\ block = <<>>
  /\ log = <<>>
  /\ committed = <<>>

Next ==
  \/ \E n \in DOMAIN Options : SetOption(n)
  \/ SetFilters
  \/ \E act \in App!Actions : Run(act)
  \/ Write \/ Respond
  \/ Commit \/ CommitPanics
  \/ Restart \/ Break

Spec == Init /\ [][Next]_vars

-----------------------------------------------------------------------------
(* Properties *)

\* Every variable has its type; once the application serves, its filters are
\* those of the issues of the genesis file.
TypeOK ==
  /\ accounts \in [Users -> App!Account \cup ContentIDs \cup {Absent, Removed}]
  /\ forms \in [FormIDs -> ContentIDs \cup {Absent}]
  /\ link \in BOOLEAN
  /\ life \in 1 .. MaxLives
  /\ booted \in 0 .. Len(Options) + 1
  /\ chainID \in Values("chainID", booted) \cup {NoChain}
  /\ issues = Values("issue", booted)
  /\ IF Serving THEN filters \in [Issues -> SUBSET (FormIDs \cup Users)]
     ELSE filters = <<>>
  /\ run \in Runs \cup {NoRun}
  /\ block \in Seq(App!Actions)
  /\ log \in Seq([act : App!Actions, life : 1 .. MaxLives])
  /\ committed \in Seq(App!Actions)

\* A form that an account lists can be found in the store, unless it was filed
\* over an account record: also in the middle of a Sync, and after the process or
\* the connection ended there.
ListedFormsStored ==
  \A u \in Users : accounts[u] \notin ContentIDs \cup {Absent, Removed} =>
    \A k \in DOMAIN accounts[u].formIDs :
      accounts[u].formIDs[k] \in FormIDs => forms[accounts[u].formIDs[k]] # Absent

\* The actions of committed blocks all reached the store, in their order: the
\* writes that the client loses without a word are never committed, for the
\* process ends before.
CommittedTookEffect ==
  \E at \in [DOMAIN committed -> DOMAIN log] :
    /\ \A i \in DOMAIN committed : committed[i] = log[at[i]].act
    /\ \A i, j \in DOMAIN committed : i < j => at[i] < at[j]

\* The k-th action that took effect began the record of u anew: a creation, or
\* an action that borrowed another user's account.
Renews(k, u) ==
  LET act == log[k].act IN act.signer = u /\ (act.type = "create" \/ act.addr # u)

\* Replay protection lasts through restarts: of two actions of one key that took
\* effect, the later has the larger sequence number, unless the account was begun
\* anew in between, by an action or, being of the genesis file, by a restart.
NoReplayDurable ==
  \A i, j \in DOMAIN log :
    LET user == log[i].act.signer IN
    ( /\ i < j
      /\ user = log[j].act.signer
      /\ user \in Genesis => log[i].life = log[j].life
      /\ \A k \in i + 1 .. j : ~Renews(k, user) )
    => log[i].act.seq < log[j].act.seq

\* The forms accepted under an issue since the process started.
Fresh(issue) ==
  {log[i].act.data.id : i \in {j \in DOMAIN log :
     /\ log[j].life = life
     /\ log[j].act.type = "submit"
     /\ log[j].act.data.issue = issue}}

\* A search finds every form accepted since the process started, and none from
\* before, though the store still has them.  Only a form whose writes are to
\* come, or were lost, is found and has not taken effect.
FiltersSinceStart ==
  Serving => \A issue \in Issues :
    /\ Fresh(issue) \subseteq filters[issue]
    /\ (link /\ run = NoRun) => filters[issue] = Fresh(issue)

=============================================================================
