# A TLA+ model of comit

comit lets citizens submit forms about issues in their city to a ledger. This
directory holds a model of the program: what its parts do, what they may never
do, TLC runs over small instances, and TLAPS proofs for any instance.

## The system

| part | source | state | operations |
|---|---|---|---|
| execution | `state/execution.go`, `types/action.go`, `app/app.go` | none of its own | `CheckTx`, `AppendTx`: validate an action, run it on a cache, sync or drop the cache |
| account state | `state/state.go`, `types/account.go` | account records by address, form records by form ID, one filter per issue | `GetAccount`, `SetAccount`, `FilterAdd`, `FilterLookup` |
| cache | `types/cache.go`, `types/kv.go` | a map into a linked list of pending writes | `Set`, `Get` (which remembers what it read), `Sync` |
| Merkle store | `app/merkle.go`, `app/client.go` | an in-memory IAVL tree, maybe in another process | `Get`, `Set`; errors are logged and swallowed |
| search | `app/app.go`, `util/time.go` | channels between three goroutines and the request | `Query` of type search |
| form IDs | `types/form.go` | none | `XOR`, `ID` |
| session | `manager/manager.go` | one logged-in account with its sequence number, for all requests | `Login`, `CreateAccount`, `RemoveAccount`, `SubmitForm` |
| updates | `manager/manager.go`, `types/proxy.go` | latest height, channel of blocks, one pending receipt per connection | `BlockStream`, `Updates` |
| startup | `cmd/comit/main.go`, `app/app.go` | issues, genesis accounts, filters | `loadGenesis`, `SetOption`, `SetFilters` |

The browser talks HTTP to the manager; the manager broadcasts transactions to a
Tendermint node and subscribes to its blocks; the node calls the application's
`CheckTx` when a transaction arrives and its `AppendTx` when a block is
delivered, one call at a time under the server's mutex; the application keeps
everything in the Merkle store except the filters, which live beside it. The
store is embedded, or a process of its own reached over a connection
(`main.go:19`). Application and manager are one process
(`cmd/comit/main.go`), so a panic in a goroutine that is not an HTTP handler
ends both.

What is hard: the sequence number a session keeps and the one the ledger keeps
move apart; HTTP handlers read the session's account several times while others
replace it; the filters are written past the cache; form IDs collide; the block
stream loses, repeats and shares blocks; the receipt is checked against state
read at another moment; the parts of an action - its address, its public key,
the key that signed it, the identifier of its form - are checked only in part
against one another; the search passes keys where forms are expected,
through goroutines that wait on one another; the writes of an action reach a
remote store one by one, and neither the process nor the connection need last
as long.

What makes each part correct:

| part | properties |
|---|---|
| execution and accounts | an account changes only by an accepted action signed with its key, or by a form filed over it; a key comes to another's account only while that is unused; no sequence number is accepted twice until an account is begun anew; nothing is charged twice; listed forms can be found; filters and forms follow the accepted actions although a run writes to two places and may fail |
| cache | the list always has the keys of the map in the order of their last write; a sync writes them in that order and ends; a dropped cache leaves no trace |
| search | it answers what its issue and range select, in the order of the tree, loses nothing between the stages, ends, and leaves no goroutine behind |
| session | its number is not stuck ahead of the ledger; none of its transactions is accepted twice; a removal takes effect only in the place of a form |
| updates | no block is skipped; an announced block arrives; a receipt proves accepted content under an identifier its account submitted; the last form of a block gets its receipt unless the tree moved on |
| startup and store | every issue that can be submitted has a filter; what an account lists is stored; what is committed took effect; replay protection lasts through restarts |

## Modules

| module | models | composes |
|---|---|---|
| `Form` | form IDs: `XOR`, `ID`, `NewInfo` | |
| `AccountLifecycle` | abstract: an account is none, open with a count of what it used up, closed, or lost | |
| `Execution` | the application: `CheckTx`, `AppendTx`, account state, filters | implements `AccountLifecycle` |
| `WriteBack` | abstract: what a write-back cache promises | |
| `KVCache` | `KVMap`, `KVList` and `KVCache` over the Merkle store | implements `WriteBack` |
| `Session` | the handlers that make transactions, with a mempool | `Execution` (as `Ledger`) |
| `BlockStream` | the goroutine and the channel of each websocket connection | |
| `Updates` | the handler of each connection: receipts and the scan of blocks | `BlockStream` (as `Blocks`) |
| `Time` | the two parsers of dates | |
| `Search` | abstract: what a search answers and what ends it | |
| `SearchPipeline` | `IterQuery`, the `IterCheck`s, `IterResult` and the request | implements `Search` |
| `Restart` | startup, the writes of an action to a remote store, commit, the end of the process and its next start | `Execution` (as `App`: validation, records, filters) |
| `MC...` | model values of the runs | |
| `ExecutionProofs`, `KVCacheProofs`, `SessionProofs`, `BlockStreamProofs`, `UpdatesProofs`, `SearchProofs`, `RestartProofs`, `FormProofs` | theorems about the module of that name (`SearchProofs`: about `SearchPipeline`) | `SessionProofs` uses `ExecutionProofs`, `UpdatesProofs` uses `BlockStreamProofs` |

### Execution

`accounts`, `forms` and `filters` are what `state.State` reaches: records by
address, content identifiers by form ID, and one filter per issue of the
genesis file. The cache of a run is not a variable: `AppendTx` either runs to
its end and syncs, fails and drops it, or panics. `KVCache` shows that this is
what the cache does. `log` is a history of the accepted actions.
`Accept`, `Fail` and `Panic` are the outcomes of the switch in `ExecuteAction`;
`Reject` covers its early returns. Three details carry much of the behaviour:

- `CheckTx` stops before the run and looks at the delivered state, so several
  transactions with one sequence number pass it.
- `RunRemoveAccount` sets a nil account, which is stored as a record of one
  byte: `Removed` is neither absent nor an account.
- `ExecuteAction` makes a new account for a creation without looking at the
  store.

Address, public key and signing key of an action are chosen independently
(`Actions`), as nothing in the code compares the first two: `ValidateBasic` asks
only that a key comes with number 1 and with no other. A key that comes along
replaces that of the account found under the address (`InputAccount`), and every
run writes under the address of the key the account then has. So an action may
borrow an unused genesis account: it is validated against that account and runs
on the record of its own key. The named account stays unused, and the same
transaction is valid again; each time it begins the signer's record anew. The
exceptions in the properties say exactly this: `BorrowedUnused` that only unused
genesis accounts can be borrowed, `Renews` in `NoReplay` when an account is begun
anew, `Offset` in `SequenceCountsForms` what the number of an account counts from.
What stays true of the code is about the key that signs: `AccountTracksLog` and
`AccountsChangeAsSigned` go by the signer and not by the address.

A form is stored under the identifier its info carries, whatever that is
(`SetForm`, `SetFormRecord`): it may be the key of an account record, which then
holds a content identifier. `GetAccount` cannot decode that and panics
(`Unreadable`, in `CheckTx` too); only a creation or an action that borrows
another account gets the record back. `AccountLifecycle` has such an
account as `lost`.

A string is the set of its bits in `Form`, each a byte and a place in it. XOR
takes the first 16 bytes of a string (`Cut`), and there it is symmetric
difference. An action carries its signer; a signature verifies when the signer
is the key it is checked against. Usernames are left out, as nothing reads them.

### KVCache

Nodes of `KVList` are identified with their keys, since the map holds one node
for each key; `head`, `tail`, `next`, `prev`, `val` are the pointers and values
of `types/kv.go`. `Update` has a disjunct for a node at the tail, at the head
and in the middle. `Get` puts what it found into the list, nil too. `Sync`
takes a step per node. `Lookup` and `Put` are the store: an empty record is
answered as none. `order` and `written` are histories.

### Session

`session` is `m.acc` with a count of its assignments, which tells one account
pointer from the next. A request is a record in `job` with its program counter
and what it has read. Every read or write of `m.acc` and every RPC call is a
step: `PrepareUser`, `PrepareSeq` and `Sign` are three reads, `LoadSequence` and
`StoreSequence` the two halves of `Sequence++`. `Send` takes the answer of the
node; `SendUnanswered` is a call that fails after the node has taken the
transaction. `Deliver` gives any pending transaction to the ledger. A
transaction that would fail at a recheck of the mempool may be delivered here;
the ledger then refuses it, which changes nothing but the response. `Ledger` is
`Execution` with all naturals as sequence numbers, since the session's number
has no bound of its own, and with the infos that somebody's filled-in form can
have (`Filled`, `Infos`). The handlers make an action of one account
(`Prepared`), so of the actions `Execution` takes they use few: none that borrows
an account, and no second creation. `AcceptedOnce` is replay protection without
the exceptions.

### BlockStream and Updates

`stream[c]` is the goroutine of connection `c`: where it is, its block, and the
next missed block. The four reads of `m.latestHeight` (`IsSame`, `IsOlder`,
`IsAfterGap`, `FillFrom`) and its two writes (`Start`, `SetHeight`) are steps,
since all goroutines share it. A send on the unbuffered channel (`Fill`,
`Push`) is one step with the receive of any waiting handler (`Take`). `Commit`
may lose the event of a block, which also covers an event without a block. A
failed subscription, read or fetch is `Die`.

`Updates` adds what the blocks hold (`chain`), the tree after each block
(`roots`) and the locals of each handler: `receipt`, `info`, and whether it is
at the receipt or at the scan (`phase`). The hash of a tree is the tree itself,
and the header of a block carries that of the tree before it. `Execute` gives
the tree after a block at once, by the last place of a good form with each
identifier (`FormsIn`, `GoodForms`). The scan makes a receipt for every form of
the viewer's, accepted or not, in one slot, and verifies it with the content of
the last form of the block: `ReceiptSound` says what a receipt proves all the
same, and Findings what it does not. The query for a
proof sees the tree of the moment. A transaction is `good` when the ledger
accepts it, an abstraction of `Execution`. Trees never return to an earlier
one, which leaves out that an account removed and created again may have its
earlier record. `ConstructProof` is external: it gives nil for a key the tree
does not hold, and `app/merkle.go:142` dereferences it (`ProofPanics`).

### SearchPipeline

`iter` is `IterQuery`: it asks for the size of the tree, then for a key per
index. `check[1]` and `check[2]` are the `IterCheck`s with the filter and with
the range, `datas` what `IterResult` has collected, `closed` the closed
channels. A send on an unbuffered channel is one step with its receive
(`HandFirst`, `HandSecond`, `HandResult`). The TMSP server holds its mutex
during a query, so tree and filters change between searches only. A filter may
answer yes to a key that was never added (`SubmitForm` adds any other key).

The checks are given keys and not values. Keys of accounts and form identifiers
decode to no form, so a store that comit has to itself answers every search
with nothing, or with the end of the process once a filter passes a key
(`SearchSurvives`). Only a remote store can hold keys that decode to a form, put
there by another program (`OtherSets`, `OtherRemoves`); with those the stages
have something to pass on, to lose and to reorder. Such a program is taken to
leave the store alone while a search runs.

`ParseMomentString` has the month 0 for every date. `Search` states the answer
by the dates it makes, so the refinement says nothing about them (Findings says
what they cost).

### Restart

`booted` counts the options that are set; one more step makes the filters, and
the application serves. `Options` are the items of the genesis file in pairs; a
key without a slash has no effect. `run` is an action with the writes of its
`Sync` still to make, in the order of `KVCache`: the form, then the account.
`log` gets an action when its account reaches the store, `committed` when its
block is committed. Actions that do not validate and runs that fail change
nothing and have no step. `Actions` and the exceptions of `NoReplay` are those of
`Execution`.

`Restart` is the end of the process at any point with its next start. A broken
connection (`Break`) stays broken until then: reads find nothing, writes are
lost, both without a word, and `Commit` panics. The connection breaks between
two calls; a call that fails after the store took the write behaves like a
break after it. An embedded store ends with the process, and the next start is
`Init`. That the node replays blocks to an application that lost them is the
node's handshake and not in `src/`: here every action may come again.

## Runs

| run | shows | bounds |
|---|---|---|
| `execution` | accounts, forms and filters follow the accepted actions exactly; who can borrow an account; replay protection; refinement of `AccountLifecycle` | 2 users, 4 infos, 3 accepted actions |
| `kvcache` | the list, the order of a sync, its end, refinement of `WriteBack` | 3 keys, 2 values, any number of operations |
| `session_serial` | one request at a time: never stuck ahead; a removal only displaces a form; no transaction is accepted twice | 1 request, 2 logins, 3 pending, 3 accepted |
| `session_overlap` | two requests at a time: ahead by at most two numbers | 2 requests, 2 logins, 2 pending, 2 accepted |
| `session_increment` | a session that stays ahead of the ledger (finding) | 2 requests |
| `stream_one` | one connection: nothing skipped, announced blocks arrive | 5 blocks |
| `stream_two` | two connections: blocks are missed (finding) | 3 blocks |
| `updates` | what a receipt proves; the last form of a block is answered unless the tree moved on | 2 blocks of up to 2 transactions of 5 kinds |
| `updates_two_forms` | an accepted form without a receipt (finding) | 2 blocks of up to 2 forms of one user |
| `search` | nothing lost between the stages, no goroutine left, every search ends, refinement of `Search` | 5 keys, 3 searches, any number of requests |
| `search_survives` | a search that meets a form identifier ends the process (finding) | as above |
| `restart` | stored forms, committed actions, replay protection and filters through crashes and broken connections | 2 users, 3 infos, 3 stored actions, blocks of 2, 2 starts |

Bounds, and why they are enough:

- `MaxLog` bounds the accepted actions. Three take an account through create,
  remove and create again, borrow a genesis account twice and use it after
  that, or write a form over an account and begin it anew: the longest paths to
  a state of a new kind. Rejections, panics and rechecks are unbounded, and the
  proofs are for every bound.
- The infos of `MCExecution` are of two forms with one ID (the locations differ
  beyond 16 bytes too), of one about an issue without a filter, and one with
  the key of a genesis account for its identifier.
- Three keys give the list a head, a middle and a tail; two values tell old
  from new.
- `MaxLogins` 2 lets a login come between any two steps of a request;
  `MaxPending` 3 (2 when requests overlap) has a form, a removal and one more
  in the mempool.
- `MaxHeight` 5 gives a gap after a block and a gap after a gap; for receipts,
  two blocks are one with the form and one that answers it, and a gap repeats
  the second. The bound is on blocks: the streams run on.
- Five keys: one of an account, a form identifier, and three that decode to
  forms, of which one is in range, one at the edge and one out of it. Three
  consecutive keys fill all three hands of the pipeline.
- `MaxLives` 2 has a life with a past and one without; `MaxBlock` 2 gives a
  block whose first action is stored and whose second is lost; `MaxLog` 3 as
  for `Execution`, spread over the two lives.

`CHECK_DEADLOCK FALSE` stands where a bound ends the behaviour or a panic ends
the process.

Fairness: `KVCache` has weak fairness of the loop of `Sync`, which is straight
code. `BlockStream` has weak fairness of each stream, as the Go scheduler runs
a goroutine that can run, and of `Done`, as a handler gets through its block
unless it panics. Nothing is assumed of `Commit`, `Open` or failures.
`SearchPipeline` has weak fairness of the steps of a running search together:
some goroutine that can go on does, and a call to the store answers or fails.
Nothing is assumed of the requests or of `Break`. The other specifications have
no fairness and only safety properties.

Each property has a mutated form of the code next to the definition it mutates
(`... Mutated form: ...`), under which TLC finds it violated.

## Proofs

Every safety invariant, every action property and every refinement that a passing run
checks is proved, for all values of the constants. What a theorem needs beyond
the assumptions named `...Assumption` in the modules (the reserved values differ
from the others, the bounds are naturals, the genesis file has pairs) is stated
as its hypothesis: how many requests or connections there are.

`ExecutionProofs`: for all users, forms, issues, and every `MaxLog`.

- `TypesCorrect`, `SignersOnly`, `AccountsTrackLog`, `BorrowedOnce`,
  `ReplayProtection`, `ChargedOnce`, `FormsFindable`, `FormsTrackLog`,
  `FiltersTrackLog`: every property of the run `execution`;
  `LifecycleImplemented`: the refinement.
- The properties are not inductive alone. `IInv` adds `OwnKey` (a record lies
  under the address of its own key, because every run writes it there; so an
  action without a key of its own is signed by the account it names),
  `UnusedIsFresh` (only a genesis account whose key has signed nothing has
  number 0, so only such an account can be borrowed), `LoggedForms` (an
  accepted form carries an info, of an issue with a filter) and `SeqIsLargest`
  (a live account's number is at least every number accepted since it was
  begun, which gives `NoReplay` its step). The effect of each run on a record
  is a lemma (`CreateEffect`, `RemoveEffect`, `SubmitEffect`), and every
  property has a lemma of its step.

`KVCacheProofs`: for all keys and values.

- `TypesCorrect`, `ListCorrect`, `SyncOrdered` and `PromiseKept` (the
  refinement). `IInv` adds `NilReads` (a pending nil was read from a store that
  answers nil for it, so that syncing it changes no answer) and `Flushed` (during
  a sync, what was written agrees with the store), both needed for the step of
  the refinement that ends a sync.

`SessionProofs`: for all users and forms, every bound, and

- any number of requests: `TypesCorrect`; `LedgerImplemented`, that handlers,
  mempool and blocks refine `Execution`; `NothingReplayed` (`AcceptedOnce`,
  without exceptions). `IInv` says what a request has read at each label
  (`JobSound`), that a pending transaction was good when it was taken and its
  account has moved on at most (`PendingSound`), and that an account is created
  once, so that a number which was queried is never above the ledger's later
  (`AccountsSound`).
- one request at a time (`OneRequest`): `NumberNotStuck`, `RemovalsCostForms`.
  `SerialInv` adds that what the request has read is still what the session
  holds (`JobFresh`), and that a number above the ledger's, be it of the
  session, of an increment under way or of a pending removal, has a pending
  form with it (`Reached`, `DeliverReached`: it stays so while blocks come in
  any order).
- two requests (`TwoRequests`): `AheadAtMostRequests`. The bound itself is not
  inductive. `OverlapInv` counts the increments still to come (`Counting`:
  requests that increment, that send for another account, or whose number the
  node would not refuse as too new) and holds for every number the ledger may
  reach later (`Bounded`). A store of an old number takes the session back;
  then the other request has a number that the ledger has reached
  (`OldIsAlone`, `NewIsReached`). That last step is what a third request
  breaks, see Findings.

`BlockStreamProofs`: for every `MaxHeight`.

- `TypesCorrect` for any number of connections; `FeedComplete` and
  `LatestFollows` for one (`OneConnection`; `stream_two` shows that they fail for
  two). `Position` ties the block in the hands of the stream, the next missed
  block and the shared height to the block received last, label by label.

`UpdatesProofs`: for any number of connections, blocks of any size.

- `TypesCorrect`, `ReceiptsAreSound`, `UndisturbedIsAnswered`, and
  `ViewerSeesEveryBlock`: the feed of one connection is complete although its
  handler also answers receipts, and may end. `Held` says where a receipt that
  is held comes from, `Kept` what the tree stores of the forms in the blocks,
  `Rooted` that what a tree stores was accepted in a block before it.

`SearchProofs`: for any tree, filters and searches.

- `TypesCorrect`, `GoroutinesEnd`, `KeysAccountedFor` and
  `PipelineImplementsSearch` (the refinement of `Search`). `Closes` says which
  stage is at its end when a channel is closed, `Flow` which keys are before,
  in and behind each stage, in the order of the tree; `RankFacts` that an index
  finds exactly one key.

`RestartProofs`: for any genesis file, users, forms and bounds.

- `TypesCorrect`, `ListedFormsFound`, `CommitsTookEffect`, `ReplaysRefused`,
  `FiltersKnowTheLife`. `Pending` says what the writes still to make will leave,
  and that nothing came between them and the account the action was validated
  against; `Effect` that what was answered is in the log, in order, as long as
  the store can be reached; `SeqIsLargest` is per life for a genesis account.

`FormProofs`: for any bits.

- `SameIdentifier`: exactly when two forms have one identifier.
  `LocationsTellApart`: forms about one issue in one minute have different ones
  exactly when their locations differ within the first 16 bytes.
  `ExchangedCollide`: exchanging issue and location within these bytes does not
  change it.

Only model-checked: `SyncTerminates`, `AnnouncedIsReceived` and `SearchEnds`,
liveness under fairness, which is out of the prover's reach.

Induction over data is out of reach too, so the modules have closed forms where
the code has a loop: `Updates!Execute` takes the last place of a form in its
block, and that a finite set of places has a last one is proved from the
well-founded order of the naturals (`LastPlace`).

## Findings

The runs that expect a violation state what a comment or `doc.md` says and show a
behaviour of the code against it; `PROJECT.json` quotes the lines:

- `session_increment`: two overlapping submissions leave the session ahead of the
  ledger until the next login.
- `stream_two`: two connections take blocks from one channel and miss some.
- `updates_two_forms`: of two accepted forms in one block only the last gets a
  receipt.
- `search_survives`: a search that meets a form identifier ends the process.

The same models show more, for which there is no run:

- An action that validates and then fails does not use up its number: the account
  set after the failure goes into a cache nobody syncs, although
  `execution.go:62` says "Increment sequence and create checkpoint" (`Execution`,
  `Fail`).
- With overlapping requests a form may name one account as its submitter and be
  signed by another: a login comes between two reads of `m.acc` (`Session`,
  `FillForm` and `Sign`), and the receipt goes to the wrong account.
- A refused form gets the receipt of another user's form with the same
  identifier, when that is the last of the block: the scan does not ask whether
  the ledger accepted a form (`Updates`, `Scan`; `ReceiptSound` says only that
  accepted content is stored under the identifier).
- The dates of a search range have month 0, which is the December before: no form
  of the year in which the range ends is answered, although `doc.md:63` has the
  user select a range (`Time`, `ParseMomentString`).
- An action that brings another key than that of the account it names runs on
  the record of that key. While the named genesis account is unused the same
  transaction is accepted again and again, each time beginning the signer's
  record anew (`Execution`; `BorrowedUnused`, `NoReplay`).
- A form whose identifier is the key of an account record is stored over the
  account, and the next action that names the account ends the process
  (`Execution`; `Unreadable`, `AccountTracksLog`).
- A form ID is not unique: `XOR` cancels, and a later form with the same ID
  replaces the content of an earlier one (`form.go:66`), although `doc.md:57`
  finds a form by it (`Execution`; `FormsFollowLog` says which one is kept).
- With three overlapping requests the session can be ahead of the ledger by more
  numbers than there are requests: one of them stores a number it loaded before
  the others incremented, which takes the session back, and the numbers from
  there on are counted once more (`Session`; found with three requests, one user
  and one accepted action; `AheadByHandlers` is about two).
- A receipt is verified with the content of the last form of the block, so one
  for an earlier form is dropped (`Updates`; `LastFormIsAnswered`).
- After a restart over a remote store the genesis accounts have sequence number
  0, and what they signed before is accepted once more; the filters know no form
  of before (`Restart`; the exceptions in `NoReplayDurable`, `FiltersSinceStart`).
- A login to a removed account succeeds with a nil account, and the requests
  after it panic (`Session`, `Panic`).
- A refused form in a block makes a receipt, and the query for its proof ends
  the process (`Updates`, `ProofPanics`).
- The last block of a gap is handed over twice, and the event of a block older
  than the status is handed over and sets the height back; comments at
  `manager.go:490` and `:564` say "shouldn't happen".
- The error of a receipt that does not verify is lost in an inner scope
  (`Updates`, `DropReceipt`).

## Not modelled, and why

- `FindForm`: reads only; what it finds under an identifier is
  `FormsFollowLog`. A form that IPFS does not have, or a record that does not
  decode, is a panic of its request.
- `GetIssues`: the list of issues is kept once it is not empty. It does not
  change after the start, so the copy cannot be stale. `GetChainID` has no route.
- An action without an input: `ValidateBasic` dereferences it and the process
  ends. An issue that is set after the filters are made has none: nothing in the
  repository sets an option that late, and no property would catch it.
- `EndBlock`, `BeginBlock`: the cache made there is used by nothing.
- The shape of the Merkle tree: `SyncFollowsOrder` is what it depends on.
- A crash of a remote store: it keeps its tree in memory, so the connection
  breaks and the next start is `Init`.
- IPFS and the start of its node, key generation, templates, pages, messages to
  the browser, hex and MIME helpers: I/O and formatting without state of the
  program's own.
- Unsubscribing from blocks: it waits for a `done` channel that nothing closes.
- The tree in the middle of a block: a proof made there is of a tree that
  no header has, which verifies as little as one of a later tree.
- The content of the feed: the forms of each received block, in order, follow
  from the blocks received.

## Plan

The components that hold the program's own logic are modelled, and their safety
properties proved. What is left:

1. How far ahead a session gets with any number of overlapping requests: TLC
   finds no small bound with three, and the proof for two shows where a third
   request takes it apart.
2. `ReceiptSound` with trees that return to an earlier one: an account that is
   removed and created again may get its earlier record, which `Updates` leaves
   out.

`Updates` keeps `good` as a free choice per transaction: it allows every block
that `Execution` would and more, apart from trees that return to an earlier one
(see above), so the composition would show nothing further.
