------------------------------- MODULE Updates -------------------------------
(***************************************************************************)
(* What a handler of websocket connections does with the blocks of         *)
(* BlockStream: Updates in manager/manager.go, with the queries for proofs *)
(* that app/merkle.go answers.                                             *)
(*                                                                         *)
(* A handler first deals with the receipt it holds from an earlier block,  *)
(* then goes through the transactions of the block.  The proof comes from  *)
(* the tree as it is when the query arrives, not from a block.  The hash   *)
(* of a tree is the tree itself: equal hashes mean equal trees.  A block   *)
(* is executed in one step.                                                *)
(***************************************************************************)
EXTENDS Integers, Sequences, FiniteSetsExt

CONSTANTS
  Conns, MaxHeight,     \* as in BlockStream
  Users, Issues,        \* who may be logged in, which feeds there are
  FormIDs, ContentIDs,
  Txs,                  \* the transactions that blocks are made of
  MaxTxs,               \* bound: how many transactions a block has
  NoInfo, NoReceipt, NoHash, Absent

Info == [id : FormIDs, cid : ContentIDs, issue : Issues, submitter : Users]

(***************************************************************************)
(* A transaction with NoInfo is a submission whose data does not decode.   *)
(* A transaction is good when the ledger accepts it; blocks carry others,  *)
(* for CheckTx looks at the state before them.  Of the other transactions,  *)
(* the good ones are those that change the tree.                           *)
(***************************************************************************)
ASSUME TxsAssumption ==
  /\ Txs \subseteq [type : {"submit", "other"}, info : Info \cup {NoInfo}, good : BOOLEAN]
  /\ \A tx \in Txs : tx.type = "submit" /\ tx.good => tx.info # NoInfo
  /\ NoInfo \notin Info
  /\ Absent \notin ContentIDs
  /\ MaxTxs \in Nat /\ MaxHeight \in Nat

VARIABLES
  height, results, latest, up, stream, handler, received,   \* BlockStream
  chain,        \* the transactions of each block
  roots,        \* the tree after each block, from height 0
  viewer,       \* the account and the feed each connection is opened with
  phase,        \* what a busy handler does next
  receipt,      \* the receipt each handler holds
  info,         \* the info each handler has decoded last
  sent          \* history: the answers each handler has written about its receipts

streamVars == <<height, results, latest, up, stream, handler, received>>
nodeVars   == <<chain, roots>>
viewVars   == <<viewer, phase, receipt, info, sent>>
vars       == <<streamVars, nodeVars, viewVars>>

Blocks == INSTANCE BlockStream

-----------------------------------------------------------------------------
(* The node and the tree *)

EmptyTree == [forms |-> [id \in FormIDs |-> Absent], changes |-> 0]

\* Where the forms of a block are, and those with an identifier that the ledger
\* accepts.
FormsIn(txs) == {i \in DOMAIN txs : txs[i].type = "submit"}

GoodForms(txs, id) == {i \in FormsIn(txs) : txs[i].good /\ txs[i].info.id = id}

\* The tree after a block: the last form with an identifier stays.  Every good
\* transaction changes an account, so the tree never comes back to an earlier one.
Execute(tree, txs) ==
  [forms |-> [id \in FormIDs |-> IF GoodForms(txs, id) = {} THEN tree.forms[id]
                                 ELSE txs[Max(GoodForms(txs, id))].info.cid],
   changes |-> tree.changes + Cardinality({i \in DOMAIN txs : txs[i].good})]

Tree == roots[height]

\* The header of a block has the hash of the tree before the block.
AppHash(h) == roots[h - 1]

BlocksOfTxs == UNION {[1 .. n -> Txs] : n \in 0 .. MaxTxs}

Commit(txs) ==
  /\ Blocks!Commit
  /\ chain' = Append(chain, txs)
  /\ roots' = [h \in 0 .. height + 1 |-> IF h <= height THEN roots[h]
                                         ELSE Execute(Tree, txs)]
  /\ UNCHANGED viewVars

-----------------------------------------------------------------------------
(* Updates *)

Open(c) ==
  /\ Blocks!Open(c)
  /\ UNCHANGED <<nodeVars, viewVars>>

\* The goroutines run and hand over blocks.
Flow(c) ==
  /\ Blocks!Stream(c) \/ Blocks!Die(c)
  /\ UNCHANGED <<nodeVars, viewVars>>

\* The block a handler is busy with.
Block(c) == received[c][Len(received[c])]

Holds(c) ==
  /\ up
  /\ handler[c] = "busy"
  /\ phase[c] = "receipt"
  /\ receipt[c] # NoReceipt

\* Mutated form: the height moves up each time.
RaisedAlways(c) == receipt[c].height + 1

\* The height of the receipt moves up to that of the block, or stays.
Raised(c) == IF receipt[c].height >= Block(c) THEN receipt[c].height ELSE Block(c)

\* The receipt is done with; the transactions of the block come next.
Release(c) ==
  /\ phase' = [phase EXCEPT ![c] = "scan"]
  /\ receipt' = [receipt EXCEPT ![c] = NoReceipt]
  /\ UNCHANGED <<streamVars, nodeVars, viewer, info>>

Answer(c, hash) ==
  sent' = [sent EXCEPT ![c] =
             Append(@, [id |-> receipt[c].id, height |-> Raised(c), hash |-> hash])]

NothingHeld(c) ==
  /\ up
  /\ handler[c] = "busy"
  /\ phase[c] = "receipt"
  /\ receipt[c] = NoReceipt
  /\ Release(c)
  /\ UNCHANGED sent

\* Mutated form: the proof is not held against the header.
VerifiedInTree(c) == Tree.forms[receipt[c].id] = info[c].cid

\* Mutated form: the proof is held against the header of the form's own block.
VerifiedInOwnBlock(c) ==
  /\ Tree.forms[receipt[c].id] = info[c].cid
  /\ Tree = AppHash(receipt[c].height)

\* The proof is of the key of the receipt, the value that of the last info.
Verified(c) ==
  /\ Tree.forms[receipt[c].id] = info[c].cid
  /\ Tree = AppHash(Block(c))

SendReceipt(c) ==
  /\ Holds(c)
  /\ Verified(c)
  /\ Answer(c, AppHash(Block(c)))
  /\ Release(c)

\* The error of a proof that does not verify is set in a variable of an inner
\* scope, so that nothing is written.
DropReceipt(c) ==
  /\ Holds(c)
  /\ Tree.forms[receipt[c].id] # Absent
  /\ ~Verified(c)
  /\ Release(c)
  /\ UNCHANGED sent

\* A query without an answer is reported.
QueryFails(c) ==
  /\ Holds(c)
  /\ Answer(c, NoHash)
  /\ Release(c)

\* There is no proof for a key that the tree does not hold: the application
\* dereferences a nil pointer.
ProofPanics(c) ==
  /\ Holds(c)
  /\ Tree.forms[receipt[c].id] = Absent
  /\ up' = FALSE
  /\ UNCHANGED <<height, results, latest, stream, handler, received, nodeVars, viewVars>>

TxsOf(c) == chain[Block(c)]

Decodes(c) == \A i \in FormsIn(TxsOf(c)) : TxsOf(c)[i].info # NoInfo

Mine(c) == {i \in FormsIn(TxsOf(c)) : TxsOf(c)[i].info.submitter = viewer[c].key}

\* The last form of the viewer in the block is the receipt to send with the
\* next block, whether the ledger has accepted it or not.
Scan(c) ==
  /\ phase[c] = "scan"
  /\ Decodes(c)
  /\ Blocks!Done(c)
  /\ phase' = [phase EXCEPT ![c] = "receipt"]
  /\ info' = [info EXCEPT ![c] = IF FormsIn(TxsOf(c)) = {} THEN @
                                 ELSE TxsOf(c)[Max(FormsIn(TxsOf(c)))].info]
  /\ receipt' = [receipt EXCEPT ![c] =
                   IF Mine(c) = {} THEN @
                   ELSE [id |-> TxsOf(c)[Max(Mine(c))].info.id, height |-> Block(c)]]
  /\ UNCHANGED <<nodeVars, viewer, sent>>

\* Data that does not decode, or a form that cannot be fetched for the feed,
\* ends the handler.
ScanPanics(c) ==
  /\ phase[c] = "scan"
  /\ Decodes(c) => \E i \in FormsIn(TxsOf(c)) : TxsOf(c)[i].info.issue = viewer[c].issue
  /\ Blocks!Gone(c)
  /\ UNCHANGED <<nodeVars, viewVars>>

-----------------------------------------------------------------------------
Init ==
  /\ Blocks!Init
  /\ chain = [h \in 1 .. height |-> <<>>]
  /\ roots = [h \in 0 .. height |-> EmptyTree]
  /\ viewer \in [Conns -> [key : Users, issue : Issues]]
  /\ phase = [c \in Conns |-> "receipt"]
  /\ receipt = [c \in Conns |-> NoReceipt]
  /\ info = [c \in Conns |-> NoInfo]
  /\ sent = [c \in Conns |-> <<>>]

Next ==
  \/ \E txs \in BlocksOfTxs : Commit(txs)
  \/ \E c \in Conns :
       \/ Open(c) \/ Flow(c) \/ NothingHeld(c)
       \/ SendReceipt(c) \/ DropReceipt(c) \/ QueryFails(c) \/ ProofPanics(c)
       \/ Scan(c) \/ ScanPanics(c)

Spec == Init /\ [][Next]_vars

-----------------------------------------------------------------------------
(* Properties *)

\* Block b has a form of account key with identifier id, accepted or refused.
Submitted(key, id, b) ==
  \E i \in FormsIn(chain[b]) :
    /\ chain[b][i].info # NoInfo
    /\ chain[b][i].info.submitter = key
    /\ chain[b][i].info.id = id

LastForm(b) == chain[b][Max(FormsIn(chain[b]))].info

\* What a receipt with a hash proves to an account key.
Proven(key, r) ==
  /\ \E b \in 1 .. r.height :
       Submitted(key, r.id, b) /\ r.hash.forms[r.id] = LastForm(b).cid
  /\ \E b \in 1 .. r.height - 1 : \E i \in GoodForms(chain[b], r.id) :
       r.hash.forms[r.id] = chain[b][i].info.cid

Trees == [forms : [FormIDs -> ContentIDs \cup {Absent}], changes : Nat]

\* Every variable has its type, and no receipt is for a height above the chain.
TypeOK ==
  /\ Blocks!TypeOK
  /\ chain \in [1 .. height -> BlocksOfTxs]
  /\ roots \in [0 .. height -> Trees]
  /\ viewer \in [Conns -> [key : Users, issue : Issues]]
  /\ phase \in [Conns -> {"receipt", "scan"}]
  /\ receipt \in [Conns -> [id : FormIDs, height : 1 .. height] \cup {NoReceipt}]
  /\ info \in [Conns -> Info \cup {NoInfo}]
  /\ sent \in [Conns -> Seq([id : FormIDs, height : 1 .. height, hash : Trees \cup {NoHash}])]

\* What a receipt with a hash proves, whatever blocks were committed, missed or
\* repeated between the block of the form, the query for the proof and the
\* answer: the viewer submitted a form with this identifier; the tree with this
\* hash stores under it the content of the last form of the block the viewer's
\* was in; and the ledger accepted that content with this identifier in a block
\* below the height of the receipt.  So it is the viewer's own form that is
\* stored when the viewer's was the last of its block.
ReceiptSound ==
  \A c \in Conns : \A i \in DOMAIN sent[c] :
    sent[c][i].hash # NoHash => Proven(viewer[c].key, sent[c][i])

\* doc.md:51, "if/when the form is *committed* to the blockchain, you will receive
\* a `receipt`": once the receipt of a block has been dealt with, and the tree
\* has not moved on meanwhile, the viewer has an answer about each form of the
\* block that he submitted and the ledger accepted.  (Not so: the handler has
\* room for one receipt, and the viewer's last form of a block takes it.)
EachFormIsAnswered ==
  [][\A c \in Conns :
       LET txs == chain[receipt[c].height] IN
       ( /\ receipt[c] # NoReceipt
         /\ receipt'[c] = NoReceipt
         /\ roots[height] = roots[Block(c) - 1] )
       => \A i \in FormsIn(txs) :
            txs[i].good /\ txs[i].info.submitter = viewer[c].key =>
              \E k \in DOMAIN sent'[c] : sent'[c][k].id = txs[i].info.id]_vars

\* The account key submitted the last form of block b, and the ledger accepted
\* it and no other form with its identifier since.
Undisturbed(key, b) ==
  LET mine == chain[b][Max(FormsIn(chain[b]))] IN
  /\ FormsIn(chain[b]) # {}
  /\ mine.good
  /\ mine.info.submitter = key
  /\ \A h \in b + 1 .. height : GoodForms(chain[h], mine.info.id) = {}

\* A handler that gives a receipt up without a word has a reason: the tree is
\* not that of the header of the block it has received, or the form was not the
\* last of its block, or was refused or overwritten.  A form that was the last
\* of its block and is still stored gets its answer from the first block that
\* the handler receives while nothing else happens.
LastFormIsAnswered ==
  [][\A c \in Conns :
       ( /\ receipt[c] # NoReceipt
         /\ receipt'[c] = NoReceipt
         /\ roots[height] = roots[Block(c) - 1]
         /\ Undisturbed(viewer[c].key, receipt[c].height) )
       => sent'[c] # sent[c]]_vars

=============================================================================
