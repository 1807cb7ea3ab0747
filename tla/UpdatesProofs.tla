---------------------------- MODULE UpdatesProofs ----------------------------
(***************************************************************************)
(* Proofs about Updates, for any number of connections, blocks of any size *)
(* and any transactions.                                                   *)
(***************************************************************************)
EXTENDS Updates, SequenceTheorems, FiniteSetTheorems, WellFoundedInduction, TLAPS

Feed == INSTANCE BlockStreamProofs

(***************************************************************************)
(* What the invariants of Updates need besides each other.                 *)
(***************************************************************************)

\* A busy handler has received a block.
Busy == \A c \in Conns : handler[c] = "busy" => received[c] # <<>>

\* A receipt that is held is for a form of the viewer's in the block of its
\* height, and the info decoded last is that of the last form of this block.
Held ==
  \A c \in Conns : receipt[c] # NoReceipt =>
    LET txs  == chain[receipt[c].height]
        last == txs[Max(FormsIn(txs))].info
    IN
    /\ phase[c] = "receipt"
    /\ info[c] # NoInfo
    /\ info[c] = last
    /\ last.submitter = viewer[c].key => receipt[c].id = last.id
    /\ Submitted(viewer[c].key, receipt[c].id, receipt[c].height)

\* What the tree of a height stores was accepted in a block up to that height.
Rooted ==
  \A g \in 0 .. height, id \in FormIDs : roots[g].forms[id] # Absent =>
    \E b \in 1 .. g : \E i \in GoodForms(chain[b], id) :
      roots[g].forms[id] = chain[b][i].info.cid

\* The tree stores the last form with an identifier that the ledger accepted.
Kept ==
  \A b \in 1 .. height, id \in FormIDs :
    LET good == GoodForms(chain[b], id) IN
    good # {} /\ (\A h \in b + 1 .. height : GoodForms(chain[h], id) = {})
    => Tree.forms[id] = chain[b][Max(good)].info.cid

TInv == TypeOK /\ Feed!TInv /\ Busy

IInv == TInv /\ Held /\ Kept /\ Rooted /\ ReceiptSound

-----------------------------------------------------------------------------
(* Transactions *)

\* Of some places in a block there is a last one.
LEMMA LastPlace ==
  ASSUME NEW n \in Nat, NEW S \in SUBSET (1 .. n), S # {}
  PROVE  Max(S) \in S /\ \A i \in S : i <= Max(S)
<1> DEFINE T == {n - i : i \in S}
<1>1. T \subseteq Nat /\ T # {}
  <2>1. \A i \in S : i \in 1 .. n /\ n - i \in Nat
    OBVIOUS
  <2> QED
    BY <2>1
<1>2. \E x \in T : \A y \in T : ~(<<y, x>> \in OpToRel(<, Nat))
  BY <1>1, WFMin, NatLessThanWellFounded
<1>3. PICK x \in T : \A y \in T : ~(y < x)
  BY <1>1, <1>2 DEF OpToRel
<1>4. PICK m \in S : x = n - m
  BY <1>3
<1>5. \A i \in S : m >= i
  <2> SUFFICES ASSUME NEW i \in S PROVE m >= i
    OBVIOUS
  <2>1. ~(n - i < n - m) /\ i \in 1 .. n /\ m \in 1 .. n
    BY <1>3, <1>4
  <2> QED
    BY <2>1
<1> QED
  BY <1>4, <1>5 DEF Max

\* The parts of a block, and of the forms in it.
LEMMA BlockFacts ==
  ASSUME NEW txs \in BlocksOfTxs
  PROVE  /\ \A S \in SUBSET FormsIn(txs) : S # {} => Max(S) \in S /\ \A i \in S : i <= Max(S)
         /\ \A i \in DOMAIN txs : i \in Nat /\ txs[i] \in Txs
         /\ \A i \in FormsIn(txs) :
              /\ i \in DOMAIN txs /\ txs[i].type = "submit"
              /\ txs[i].info # NoInfo => txs[i].info \in Info
              /\ txs[i].good => txs[i].info # NoInfo
         /\ \A id : GoodForms(txs, id) \in SUBSET FormsIn(txs)
         /\ Cardinality({i \in DOMAIN txs : txs[i].good}) \in Nat
<1>1. PICK n \in 0 .. MaxTxs : txs \in [1 .. n -> Txs]
  BY DEF BlocksOfTxs
<1>2. n \in Nat /\ DOMAIN txs = 1 .. n /\ FormsIn(txs) \subseteq 1 .. n
  BY <1>1, TxsAssumption DEF FormsIn
<1>3. \A S \in SUBSET FormsIn(txs) : S # {} => Max(S) \in S /\ \A i \in S : i <= Max(S)
  BY <1>2, LastPlace
<1>4. \A i \in DOMAIN txs : i \in Nat /\ txs[i] \in Txs
  BY <1>1, <1>2
<1>5. ASSUME NEW i \in FormsIn(txs)
      PROVE  /\ i \in DOMAIN txs /\ txs[i].type = "submit"
             /\ txs[i].info # NoInfo => txs[i].info \in Info
             /\ txs[i].good => txs[i].info # NoInfo
  <2>1. i \in DOMAIN txs /\ txs[i].type = "submit"
    BY DEF FormsIn
  <2>2. txs[i] \in Txs /\ txs[i] \in [type : {"submit", "other"}, info : Info \cup {NoInfo}, good : BOOLEAN]
    BY <1>4, <2>1, TxsAssumption
  <2> QED
    BY <2>1, <2>2, TxsAssumption
<1>6. \A id : GoodForms(txs, id) \in SUBSET FormsIn(txs)
  BY DEF GoodForms
<1>7. Cardinality({i \in DOMAIN txs : txs[i].good}) \in Nat
  <2>1. IsFiniteSet(1 .. n)
    BY <1>2, FS_Interval
  <2>2. IsFiniteSet({i \in DOMAIN txs : txs[i].good})
    BY <1>2, <2>1, FS_Subset
  <2> QED
    BY <2>2, FS_CardinalityType
<1> QED
  BY <1>3, <1>4, <1>5, <1>6, <1>7

\* A block makes a tree of a tree, and its accepted forms are found there.
LEMMA ExecuteFacts ==
  ASSUME NEW tree \in Trees, NEW txs \in BlocksOfTxs
  PROVE  /\ Execute(tree, txs) \in Trees
         /\ \A id \in FormIDs :
              Execute(tree, txs).forms[id] = IF GoodForms(txs, id) = {} THEN tree.forms[id]
                                             ELSE txs[Max(GoodForms(txs, id))].info.cid
<1> DEFINE stored(id) == IF GoodForms(txs, id) = {} THEN tree.forms[id]
                         ELSE txs[Max(GoodForms(txs, id))].info.cid
           more == Cardinality({i \in DOMAIN txs : txs[i].good})
<1>1. \A id \in FormIDs : stored(id) \in ContentIDs \cup {Absent}
  <2> SUFFICES ASSUME NEW id \in FormIDs PROVE stored(id) \in ContentIDs \cup {Absent}
    OBVIOUS
  <2>1. CASE GoodForms(txs, id) = {}
    BY <2>1 DEF Trees
  <2>2. CASE GoodForms(txs, id) # {}
    <3> DEFINE i == Max(GoodForms(txs, id))
    <3>1. i \in GoodForms(txs, id) /\ i \in FormsIn(txs)
      BY <2>2, BlockFacts
    <3>2. txs[i].good
      BY <3>1 DEF GoodForms
    <3>3. txs[i].info \in Info
      BY <3>1, <3>2, BlockFacts
    <3> QED
      BY <2>2, <3>3 DEF Info
  <2> QED
    BY <2>1, <2>2
<1>2. more \in Nat /\ tree.changes \in Nat
  BY BlockFacts DEF Trees
<1>3. Execute(tree, txs) = [forms |-> [id \in FormIDs |-> stored(id)], changes |-> tree.changes + more]
  BY DEF Execute
<1> HIDE DEF stored, more
<1>4. Execute(tree, txs) \in Trees
  BY <1>1, <1>2, <1>3 DEF Trees
<1>5. \A id \in FormIDs : Execute(tree, txs).forms[id] = stored(id)
  BY <1>3
<1> QED
  BY <1>4, <1>5 DEF stored

-----------------------------------------------------------------------------
(* The streams *)

\* The streams of Updates are those that BlockStreamProofs is about.
LEMMA SameFeed ==
  ASSUME [Blocks!Next]_streamVars
  PROVE  [Feed!Next]_Feed!vars
  BY DEF Blocks!Next, Feed!Next, streamVars, Feed!vars, Blocks!Commit, Feed!Commit, Blocks!Subscribed, Feed!Subscribed,
   Blocks!Open, Feed!Open, Blocks!Goto, Feed!Goto, Blocks!Stream, Feed!Stream, Blocks!Subscribe, Feed!Subscribe, Blocks!Status, Feed!Status,
   Blocks!Start, Feed!Start, Blocks!Read, Feed!Read, Blocks!IsSame, Feed!IsSame, Blocks!IsOlder, Feed!IsOlder, Blocks!IsAfterGap, Feed!IsAfterGap,
   Blocks!FillFrom, Feed!FillFrom, Blocks!Fill, Feed!Fill, Blocks!FillEnd, Feed!FillEnd, Blocks!Push, Feed!Push, Blocks!SetHeight, Feed!SetHeight, Blocks!Take, Feed!Take,
   Blocks!Die, Feed!Die, Blocks!Done, Feed!Done, Blocks!Gone, Feed!Gone

\* A step of the streams keeps the types.
LEMMA FeedTypes ==
  ASSUME Feed!TInv, [Blocks!Next]_streamVars
  PROVE  Feed!TInv'
<1>1. MaxHeight \in Nat
  BY TxsAssumption
<1> QED
  BY <1>1, SameFeed, Feed!StepTypes DEF Feed!MaxHeightAssumption

\* The parts of the chain and of what was received.
LEMMA ChainFacts ==
  ASSUME TInv
  PROVE  /\ height \in Nat
         /\ chain \in Seq(BlocksOfTxs) /\ Len(chain) = height /\ DOMAIN chain = 1 .. height
         /\ \A h \in 1 .. height : chain[h] \in BlocksOfTxs
         /\ \A h \in 0 .. height : roots[h] \in Trees
         /\ Tree \in Trees
         /\ handler \in [Conns -> {"none", "recv", "busy", "gone"}]
         /\ received \in [Conns -> Seq(1 .. height)]
<1>1. TypeOK /\ Blocks!TypeOK
  BY DEF TInv, TypeOK
<1>2. height \in Nat /\ received \in [Conns -> Seq(1 .. height)] /\ handler \in [Conns -> {"none", "recv", "busy", "gone"}]
  BY <1>1, TxsAssumption DEF Blocks!TypeOK
<1>3. chain \in [1 .. height -> BlocksOfTxs] /\ roots \in [0 .. height -> Trees]
  BY <1>1 DEF TypeOK
<1>4. chain \in Seq(BlocksOfTxs)
  BY <1>2, <1>3, SeqDef
<1>5. Len(chain) = height
  BY <1>2, <1>3, <1>4, LenProperties
<1> QED
  BY <1>2, <1>3, <1>4, <1>5 DEF Tree

\* A busy handler has a block of the chain, and the tree before it.
LEMMA BusyFacts ==
  ASSUME TInv, NEW c \in Conns, handler[c] = "busy"
  PROVE  Block(c) \in 1 .. height /\ TxsOf(c) \in BlocksOfTxs /\ AppHash(Block(c)) \in Trees
<1>1. received[c] # <<>> /\ received[c] \in Seq(1 .. height) /\ height \in Nat
  BY ChainFacts DEF TInv, Busy
<1>2. Block(c) \in 1 .. height
  <2>1. Len(received[c]) \in DOMAIN received[c]
    BY <1>1, LenProperties, EmptySeq
  <2> QED
    BY <1>1, <2>1, ElementOfSeq DEF Block
<1>3. Block(c) - 1 \in 0 .. height
  BY <1>1, <1>2
<1> QED
  BY <1>2, <1>3, ChainFacts DEF TxsOf, AppHash

\* A handler gets busy with a block that it receives.
LEMMA FeedBusy ==
  ASSUME TInv, [Blocks!Next]_streamVars
  PROVE  Busy'
<1> SUFFICES ASSUME NEW c \in Conns, handler'[c] = "busy"
             PROVE  received'[c] # <<>>
  BY DEF Busy
<1>1. handler \in [Conns -> {"none", "recv", "busy", "gone"}] /\ received \in [Conns -> Seq(1 .. height)]
  BY ChainFacts
<1>2. CASE UNCHANGED <<handler, received>>
  BY <1>2 DEF TInv, Busy
<1>3. ASSUME NEW d \in Conns, NEW s \in {"none", "recv", "gone"}, UNCHANGED received,
             handler' = [handler EXCEPT ![d] = s]
      PROVE  received'[c] # <<>>
  BY <1>1, <1>3 DEF TInv, Busy
<1>4. ASSUME NEW d \in Conns, NEW h, Blocks!Take(d, h)
      PROVE  received'[c] # <<>>
  <2>1. Append(received[d], h) # <<>>
    <3> DEFINE S == (1 .. height) \cup {h}
    <3>1. 1 .. height \subseteq S /\ h \in S
      OBVIOUS
    <3>2. received[d] \in Seq(S)
      <4>1. received[d] \in Seq(1 .. height)
        BY <1>1
      <4> HIDE DEF S
      <4> QED
        BY <3>1, <4>1, SeqMonotonic
    <3> HIDE DEF S
    <3> QED
      BY <3>1, <3>2, AppendProperties
  <2>2. CASE c = d
    <3>1. received' = [received EXCEPT ![d] = Append(received[d], h)]
      BY <1>4 DEF Blocks!Take
    <3> QED
      BY <1>1, <2>1, <2>2, <3>1, Zenon
  <2>3. CASE c # d
    BY <1>1, <1>4, <2>3 DEF Blocks!Take, TInv, Busy
  <2> QED
    BY <2>2, <2>3
<1>5. ASSUME NEW d \in Conns, Blocks!Stream(d)
      PROVE  received'[c] # <<>>
  <2>1. CASE \E e \in Conns : Blocks!Fill(d, e) \/ Blocks!Push(d, e)
    BY <1>4, <2>1 DEF Blocks!Fill, Blocks!Push
  <2>2. CASE ~ \E e \in Conns : Blocks!Fill(d, e) \/ Blocks!Push(d, e)
    BY <1>2, <1>5, <2>2
       DEF Blocks!Stream, Blocks!Subscribe, Blocks!Status, Blocks!Start, Blocks!Read, Blocks!IsSame, Blocks!IsOlder,
           Blocks!IsAfterGap, Blocks!FillFrom, Blocks!FillEnd, Blocks!SetHeight
  <2> QED
    BY <2>1, <2>2
<1>6. ASSUME NEW d \in Conns, Blocks!Open(d) \/ Blocks!Done(d) \/ Blocks!Gone(d)
      PROVE  received'[c] # <<>>
  BY <1>3, <1>6 DEF Blocks!Open, Blocks!Done, Blocks!Gone
<1>7. CASE Blocks!Commit \/ (\E d \in Conns : Blocks!Die(d)) \/ UNCHANGED streamVars
  BY <1>2, <1>7 DEF Blocks!Commit, Blocks!Die, streamVars
<1> QED
  BY <1>5, <1>6, <1>7 DEF Blocks!Next

\* The handler is done with the receipt.
Releases(c) == NothingHeld(c) \/ SendReceipt(c) \/ DropReceipt(c) \/ QueryFails(c)

\* The kinds of steps: a block is committed, a stream or an end that leaves the
\* handlers what they hold, a receipt that is dealt with, a block gone through.
LEMMA StepCases ==
  ASSUME [Next]_vars
  PROVE  \/ \E txs \in BlocksOfTxs : Commit(txs)
         \/ UNCHANGED <<height, nodeVars, viewVars>>
         \/ \E c \in Conns : Releases(c) \/ Scan(c)
<1>1. ASSUME NEW c \in Conns, Open(c) \/ Flow(c) \/ ProofPanics(c) \/ ScanPanics(c)
      PROVE  UNCHANGED <<height, nodeVars, viewVars>>
  <2>1. CASE Open(c) \/ ProofPanics(c) \/ ScanPanics(c)
    BY <2>1 DEF Open, ProofPanics, ScanPanics, Blocks!Open, Blocks!Gone
  <2>2. CASE Flow(c)
    <3>1. UNCHANGED height
      BY <2>2
         DEF Flow, Blocks!Die, Blocks!Stream, Blocks!Subscribe, Blocks!Status, Blocks!Start, Blocks!Read,
             Blocks!IsSame, Blocks!IsOlder, Blocks!IsAfterGap, Blocks!FillFrom, Blocks!FillEnd, Blocks!SetHeight,
             Blocks!Fill, Blocks!Push
    <3> QED
      BY <2>2, <3>1 DEF Flow
  <2> QED
    BY <1>1, <2>1, <2>2
<1>2. CASE UNCHANGED vars
  BY <1>2 DEF vars, streamVars
<1> QED
  BY <1>1, <1>2 DEF Next, Releases

\* What the streams and the handlers share keeps its types.
LEMMA StepFeed == TInv /\ [Next]_vars => Feed!TInv' /\ Busy'
<1> SUFFICES ASSUME TInv, [Next]_vars
             PROVE  Feed!TInv' /\ Busy'
  OBVIOUS
<1>1. ASSUME [Blocks!Next]_streamVars
      PROVE  Feed!TInv' /\ Busy'
  BY <1>1, FeedTypes, FeedBusy DEF TInv
<1>2. ASSUME UNCHANGED streamVars
      PROVE  Feed!TInv' /\ Busy'
  BY <1>1, <1>2
<1>3. CASE \E txs \in BlocksOfTxs : Commit(txs)
  BY <1>1, <1>3 DEF Commit, Blocks!Next
<1>4. ASSUME NEW c \in Conns, Open(c) \/ Flow(c) \/ Scan(c) \/ ScanPanics(c)
      PROVE  Feed!TInv' /\ Busy'
  BY <1>1, <1>4 DEF Open, Flow, Scan, ScanPanics, Blocks!Next
<1>5. ASSUME NEW c \in Conns, NothingHeld(c) \/ SendReceipt(c) \/ DropReceipt(c) \/ QueryFails(c)
      PROVE  Feed!TInv' /\ Busy'
  BY <1>2, <1>5 DEF NothingHeld, SendReceipt, DropReceipt, QueryFails, Release
<1>6. ASSUME NEW c \in Conns, ProofPanics(c)
      PROVE  Feed!TInv' /\ Busy'
  <2>1. up' = FALSE /\ UNCHANGED <<height, results, latest, stream, handler, received>>
    BY <1>6 DEF ProofPanics
  <2> QED
    BY <2>1 DEF TInv, Feed!TInv, Feed!TypeOK, Feed!HoldsBlock, Busy
<1>7. CASE UNCHANGED vars
  BY <1>2, <1>7 DEF vars
<1> QED
  BY <1>3, <1>4, <1>5, <1>6, <1>7 DEF Next

-----------------------------------------------------------------------------
(* What each kind of step does *)

\* A block is appended, and the tree is that after it.
LEMMA CommitFacts ==
  ASSUME TInv, NEW txs \in BlocksOfTxs, Commit(txs)
  PROVE  /\ height' = height + 1 /\ height \in Nat
         /\ chain' \in [1 .. height' -> BlocksOfTxs]
         /\ \A b \in 1 .. height : chain'[b] = chain[b]
         /\ chain'[height + 1] = txs
         /\ roots' \in [0 .. height' -> Trees]
         /\ \A h \in 0 .. height : roots'[h] = roots[h]
         /\ Tree' = Execute(Tree, txs)
         /\ UNCHANGED viewVars
<1>1. height' = height + 1 /\ height \in Nat /\ UNCHANGED viewVars
  BY ChainFacts DEF Commit, Blocks!Commit
<1>2. /\ chain' \in Seq(BlocksOfTxs) /\ Len(chain') = height + 1
      /\ \A b \in 1 .. height : chain'[b] = chain[b]
      /\ chain'[height + 1] = txs
  BY ChainFacts, AppendProperties DEF Commit
<1>3. chain' \in [1 .. height' -> BlocksOfTxs]
  BY <1>1, <1>2, LenProperties
<1>4. roots' = [h \in 0 .. height + 1 |-> IF h <= height THEN roots[h] ELSE Execute(Tree, txs)]
  BY DEF Commit
<1>5. Execute(Tree, txs) \in Trees /\ \A h \in 0 .. height : roots[h] \in Trees
  BY ChainFacts, ExecuteFacts
<1>6. \A h \in 0 .. height + 1 : h <= height => h \in 0 .. height
  BY <1>1
<1>7. roots' \in [0 .. height' -> Trees]
  BY <1>1, <1>4, <1>5, <1>6
<1>8. \A h \in 0 .. height : roots'[h] = roots[h]
  BY <1>1, <1>4
<1>9. Tree' = Execute(Tree, txs)
  <2>1. height + 1 \in 0 .. height + 1 /\ ~(height + 1 <= height)
    BY <1>1
  <2> QED
    BY <1>1, <1>4, <2>1 DEF Tree
<1> QED
  BY <1>1, <1>2, <1>3, <1>7, <1>8, <1>9

\* What a receipt proves does not depend on the blocks above it.
LEMMA ProvenLasts ==
  ASSUME NEW key, NEW r, NEW h \in Nat, r.height \in 1 .. h,
         \A b \in 1 .. h : chain'[b] = chain[b],
         Proven(key, r)
  PROVE  Proven(key, r)'
<1>1. PICK b \in 1 .. r.height : Submitted(key, r.id, b) /\ r.hash.forms[r.id] = LastForm(b).cid
  BY DEF Proven
<1>2. PICK a \in 1 .. r.height - 1 : \E i \in GoodForms(chain[a], r.id) :
        r.hash.forms[r.id] = chain[a][i].info.cid
  BY DEF Proven
<1>3. chain'[b] = chain[b] /\ chain'[a] = chain[a]
  OBVIOUS
<1>4. Submitted(key, r.id, b)' /\ r.hash.forms[r.id] = LastForm(b)'.cid
  BY <1>1, <1>3 DEF Submitted, LastForm
<1>5. \E i \in GoodForms(chain'[a], r.id) : r.hash.forms[r.id] = chain'[a][i].info.cid
  BY <1>2, <1>3
<1> QED
  BY <1>4, <1>5 DEF Proven

Answers == [id : FormIDs, height : 1 .. height, hash : Trees \cup {NoHash}]

\* The parts of a receipt that is held.
LEMMA ReceiptFacts ==
  ASSUME TInv, NEW c \in Conns, receipt[c] # NoReceipt
  PROVE  receipt[c].id \in FormIDs /\ receipt[c].height \in 1 .. height
  BY DEF TInv, TypeOK

\* A receipt is given up; when it is answered with a hash, it is that of a tree
\* before the block that has come, which stores the content of the info.
LEMMA ReleaseFacts ==
  ASSUME TInv, NEW c \in Conns, Releases(c)
  PROVE  /\ UNCHANGED <<streamVars, nodeVars, viewer, info>>
         /\ phase' = [phase EXCEPT ![c] = "scan"]
         /\ receipt' = [receipt EXCEPT ![c] = NoReceipt]
         /\ \/ UNCHANGED sent
            \/ \E a \in Answers :
                 /\ receipt[c] # NoReceipt
                 /\ sent' = [sent EXCEPT ![c] = Append(sent[c], a)]
                 /\ a.id = receipt[c].id /\ receipt[c].height <= a.height
                 /\ a.hash # NoHash => /\ a.hash.forms[a.id] = info[c].cid
                                        /\ \E g \in 0 .. height : g <= a.height - 1 /\ a.hash = roots[g]
<1>1. /\ UNCHANGED <<streamVars, nodeVars, viewer, info>>
      /\ phase' = [phase EXCEPT ![c] = "scan"]
      /\ receipt' = [receipt EXCEPT ![c] = NoReceipt]
  BY DEF Releases, NothingHeld, SendReceipt, DropReceipt, QueryFails, Release
<1>2. ASSUME Holds(c), NEW hash \in Trees \cup {NoHash}, Answer(c, hash),
             hash # NoHash => /\ hash.forms[receipt[c].id] = info[c].cid
                              /\ hash = AppHash(Block(c))
      PROVE  \E a \in Answers :
               /\ receipt[c] # NoReceipt
               /\ sent' = [sent EXCEPT ![c] = Append(sent[c], a)]
               /\ a.id = receipt[c].id /\ receipt[c].height <= a.height
               /\ a.hash # NoHash => /\ a.hash.forms[a.id] = info[c].cid
                                      /\ \E g \in 0 .. height : g <= a.height - 1 /\ a.hash = roots[g]
  <2> DEFINE a == [id |-> receipt[c].id, height |-> Raised(c), hash |-> hash]
  <2>1. handler[c] = "busy" /\ receipt[c] # NoReceipt
    BY <1>2 DEF Holds
  <2>2. receipt[c].id \in FormIDs /\ receipt[c].height \in 1 .. height /\ Block(c) \in 1 .. height
    BY <2>1, ReceiptFacts, BusyFacts
  <2>3. Raised(c) \in 1 .. height /\ receipt[c].height <= Raised(c) /\ Block(c) <= Raised(c)
    BY <2>2, ChainFacts DEF Raised
  <2>4. sent' = [sent EXCEPT ![c] = Append(sent[c], a)]
    BY <1>2 DEF Answer
  <2>5. a \in Answers
    BY <2>2, <2>3 DEF Answers
  <2>6. Block(c) - 1 \in 0 .. height /\ Block(c) - 1 <= Raised(c) - 1
    BY <2>2, <2>3, ChainFacts
  <2>7. hash # NoHash => hash = roots[Block(c) - 1]
    BY <1>2 DEF AppHash
  <2>8. a.hash # NoHash => \E g \in 0 .. height : g <= a.height - 1 /\ a.hash = roots[g]
    BY <2>6, <2>7
  <2> QED
    BY <1>2, <2>1, <2>3, <2>4, <2>5, <2>8
<1>3. CASE SendReceipt(c)
  <2>1. Holds(c) /\ Verified(c) /\ Answer(c, AppHash(Block(c)))
    BY <1>3 DEF SendReceipt
  <2>2. AppHash(Block(c)) \in Trees
    BY <2>1, BusyFacts DEF Holds
  <2>3. AppHash(Block(c)).forms[receipt[c].id] = info[c].cid
    BY <2>1 DEF Verified
  <2> QED
    BY <1>1, <1>2, <2>1, <2>2, <2>3
<1>4. CASE QueryFails(c)
  <2>1. Holds(c) /\ Answer(c, NoHash)
    BY <1>4 DEF QueryFails
  <2> QED
    BY <1>1, <1>2, <2>1
<1>5. CASE NothingHeld(c) \/ DropReceipt(c)
  BY <1>1, <1>5 DEF NothingHeld, DropReceipt
<1> QED
  BY <1>3, <1>4, <1>5 DEF Releases

\* The receipt that a block leaves is for the last form of the viewer's in it.
LEMMA ScanFacts ==
  ASSUME TInv, NEW c \in Conns, Scan(c)
  PROVE  LET txs  == chain[Block(c)]
             last == txs[Max(FormsIn(txs))].info
         IN
         /\ UNCHANGED <<height, nodeVars, viewer, sent>>
         /\ phase[c] = "scan" /\ phase' = [phase EXCEPT ![c] = "receipt"]
         /\ Block(c) \in 1 .. height
         /\ \E x \in Info \cup {NoInfo} : info' = [info EXCEPT ![c] = x] /\ (x = info[c] \/ x = last)
         /\ \/ UNCHANGED receipt
            \/ \E i \in FormsIn(txs) :
                 /\ txs[i].info \in Info /\ last \in Info
                 /\ txs[i].info.submitter = viewer[c].key
                 /\ last.submitter = viewer[c].key => txs[i].info = last
                 /\ receipt' = [receipt EXCEPT ![c] = [id |-> txs[i].info.id, height |-> Block(c)]]
                 /\ info' = [info EXCEPT ![c] = last]
<1> DEFINE txs  == chain[Block(c)]
           m    == Max(FormsIn(txs))
           last == txs[m].info
<1>1. /\ UNCHANGED <<height, nodeVars, viewer, sent>>
      /\ phase[c] = "scan" /\ phase' = [phase EXCEPT ![c] = "receipt"]
      /\ handler[c] = "busy" /\ TxsOf(c) = txs
  BY DEF Scan, Blocks!Done, TxsOf
<1>2. Block(c) \in 1 .. height /\ txs \in BlocksOfTxs
  BY <1>1, BusyFacts
<1>3. \A i \in FormsIn(txs) : txs[i].info \in Info
  <2>1. \A i \in FormsIn(txs) : txs[i].info # NoInfo
    BY <1>1 DEF Scan, Decodes
  <2>2. \A i \in FormsIn(txs) : txs[i].info # NoInfo => txs[i].info \in Info
    BY <1>2, BlockFacts
  <2> QED
    BY <2>1, <2>2, Zenon
<1>4. FormsIn(txs) # {} => m \in FormsIn(txs) /\ \A i \in FormsIn(txs) : i <= m
  BY <1>2, BlockFacts
<1>5. FormsIn(txs) # {} => last \in Info
  BY <1>3, <1>4
<1>6. info' = [info EXCEPT ![c] = IF FormsIn(txs) = {} THEN info[c] ELSE last]
  BY <1>1 DEF Scan
<1>7. info[c] \in Info \cup {NoInfo}
  BY DEF TInv, TypeOK
<1>8. CASE Mine(c) = {}
  <2>1. receipt' = [receipt EXCEPT ![c] = receipt[c]]
    BY <1>1, <1>8 DEF Scan
  <2>2. UNCHANGED receipt
    BY <2>1 DEF TInv, TypeOK
  <2> QED
    BY <1>1, <1>2, <1>5, <1>6, <1>7, <2>2
<1>9. CASE Mine(c) # {}
  <2> DEFINE i == Max(Mine(c))
  <2>1. Mine(c) \in SUBSET FormsIn(txs)
    BY <1>1 DEF Mine
  <2>2. i \in Mine(c) /\ \A k \in Mine(c) : k <= i
    BY <1>2, <1>9, <2>1, BlockFacts
  <2>3. i \in FormsIn(txs) /\ txs[i].info.submitter = viewer[c].key
    BY <1>1, <2>2 DEF Mine
  <2>4. ASSUME last.submitter = viewer[c].key
        PROVE  txs[i].info = last
    <3>1. m \in FormsIn(txs) /\ i <= m
      BY <1>4, <2>3
    <3>2. m \in Mine(c)
      BY <1>1, <2>4, <3>1 DEF Mine
    <3>3. m <= i
      BY <2>2, <3>2
    <3>4. i \in Nat /\ m \in Nat
      BY <1>2, <2>3, <3>1, BlockFacts
    <3>5. i = m
      BY <3>1, <3>3, <3>4
    <3> QED
      BY <3>5
  <2>5. receipt' = [receipt EXCEPT ![c] = [id |-> txs[i].info.id, height |-> Block(c)]]
    BY <1>1, <1>9 DEF Scan
  <2>6. info' = [info EXCEPT ![c] = last] /\ last \in Info
    BY <1>5, <1>6, <2>3
  <2> QED
    BY <1>1, <1>2, <1>3, <2>3, <2>4, <2>5, <2>6
<1> QED
  BY <1>8, <1>9

-----------------------------------------------------------------------------
(* The invariant *)

\* Every step keeps the types.
LEMMA StepTypes == TInv /\ [Next]_vars => TInv'
<1> SUFFICES ASSUME TInv, [Next]_vars
             PROVE  TypeOK'
  BY StepFeed DEF TInv
<1>1. TypeOK
  BY DEF TInv
<1>2. Blocks!TypeOK'
  BY StepFeed DEF Feed!TInv, Feed!TypeOK, Blocks!TypeOK
<1>3. CASE \E txs \in BlocksOfTxs : Commit(txs)
  <2>1. PICK txs \in BlocksOfTxs : Commit(txs)
    BY <1>3
  <2>2. /\ height' = height + 1 /\ height \in Nat
        /\ chain' \in [1 .. height' -> BlocksOfTxs] /\ roots' \in [0 .. height' -> Trees]
        /\ UNCHANGED viewVars
    BY <2>1, CommitFacts
  <2>3. 1 .. height \subseteq 1 .. height'
    BY <2>2
  <2> DEFINE A(h) == [id : FormIDs, height : 1 .. h, hash : Trees \cup {NoHash}]
  <2>4. A(height) \subseteq A(height')
    BY <2>3
  <2>5. sent' \in [Conns -> Seq(A(height'))]
    <3>1. sent \in [Conns -> Seq(A(height))] /\ sent' = sent
      BY <1>1, <2>2 DEF TypeOK, viewVars
    <3>2. ASSUME NEW c \in Conns
          PROVE  sent[c] \in Seq(A(height'))
      <4>1. sent[c] \in Seq(A(height))
        BY <3>1
      <4> HIDE DEF A
      <4> QED
        BY <2>4, <4>1, SeqMonotonic
    <3> QED
      BY <3>1, <3>2
  <2>6. receipt' \in [Conns -> [id : FormIDs, height : 1 .. height'] \cup {NoReceipt}]
    BY <1>1, <2>2, <2>3 DEF TypeOK, viewVars
  <2> QED
    BY <1>1, <1>2, <2>2, <2>5, <2>6 DEF TypeOK, viewVars
<1>4. CASE UNCHANGED <<height, nodeVars, viewVars>>
  BY <1>1, <1>2, <1>4 DEF TypeOK, nodeVars, viewVars
<1>5. ASSUME NEW c \in Conns, Releases(c)
      PROVE  TypeOK'
  <2>1. /\ UNCHANGED <<streamVars, nodeVars, viewer, info>>
        /\ phase' = [phase EXCEPT ![c] = "scan"]
        /\ receipt' = [receipt EXCEPT ![c] = NoReceipt]
    BY <1>5, ReleaseFacts
  <2>2. sent \in [Conns -> Seq(Answers)]
    BY <1>1 DEF TypeOK, Answers
  <2>3. sent' \in [Conns -> Seq(Answers)]
    <3>1. CASE UNCHANGED sent
      BY <2>2, <3>1
    <3>2. ASSUME NEW a \in Answers, sent' = [sent EXCEPT ![c] = Append(sent[c], a)]
          PROVE  sent' \in [Conns -> Seq(Answers)]
      BY <2>2, <3>2, AppendProperties
    <3> QED
      BY <1>5, <3>1, <3>2, ReleaseFacts
  <2>4. UNCHANGED <<height, chain, roots>>
    BY <2>1 DEF streamVars, nodeVars
  <2> QED
    BY <1>1, <1>2, <2>1, <2>3, <2>4 DEF TypeOK, Answers
<1>6. ASSUME NEW c \in Conns, Scan(c)
      PROVE  TypeOK'
  <2>1. /\ UNCHANGED <<height, nodeVars, viewer, sent>>
        /\ phase' = [phase EXCEPT ![c] = "receipt"]
        /\ Block(c) \in 1 .. height
        /\ \E x \in Info \cup {NoInfo} : info' = [info EXCEPT ![c] = x]
    BY <1>6, ScanFacts
  <2>2. info' \in [Conns -> Info \cup {NoInfo}]
    BY <1>1, <2>1 DEF TypeOK
  <2>3. receipt' \in [Conns -> [id : FormIDs, height : 1 .. height] \cup {NoReceipt}]
    <3>1. CASE UNCHANGED receipt
      BY <1>1, <3>1 DEF TypeOK
    <3>2. ASSUME NEW f \in Info,
                 receipt' = [receipt EXCEPT ![c] = [id |-> f.id, height |-> Block(c)]]
          PROVE  receipt' \in [Conns -> [id : FormIDs, height : 1 .. height] \cup {NoReceipt}]
      BY <1>1, <2>1, <3>2 DEF TypeOK, Info
    <3> QED
      BY <1>6, <3>1, <3>2, ScanFacts
  <2> QED
    BY <1>1, <1>2, <2>1, <2>2, <2>3 DEF TypeOK, nodeVars
<1> QED
  BY <1>3, <1>4, <1>5, <1>6, StepCases

\* Every step keeps what is known of the receipts that are held.
LEMMA StepHeld == TInv /\ Held /\ [Next]_vars => Held'
<1> SUFFICES ASSUME TInv, Held, [Next]_vars
             PROVE  Held'
  OBVIOUS
<1>1. TypeOK /\ height \in Nat
  BY ChainFacts DEF TInv
\* The conditions on a handler that do not depend on the step.
<1> DEFINE Good(c, r, x) ==
             LET txs  == chain[r.height]
                 last == txs[Max(FormsIn(txs))].info
             IN
             /\ x # NoInfo
             /\ x = last
             /\ last.submitter = viewer[c].key => r.id = last.id
             /\ Submitted(viewer[c].key, r.id, r.height)
<1>2. \A c \in Conns : receipt[c] # NoReceipt => phase[c] = "receipt" /\ Good(c, receipt[c], info[c])
  BY DEF Held
<1>3. ASSUME UNCHANGED <<chain, viewer>>,
             \A c \in Conns : receipt'[c] # NoReceipt => phase'[c] = "receipt" /\ Good(c, receipt'[c], info'[c])
      PROVE  Held'
  BY <1>3 DEF Held, Submitted
<1>4. CASE \E txs \in BlocksOfTxs : Commit(txs)
  <2>1. (\A b \in 1 .. height : chain'[b] = chain[b]) /\ UNCHANGED <<viewer, phase, receipt, info>>
    BY <1>4, CommitFacts DEF viewVars
  <2> SUFFICES ASSUME NEW c \in Conns, receipt[c] # NoReceipt
               PROVE  LET txs  == chain'[receipt[c].height]
                          last == txs[Max(FormsIn(txs))].info
                      IN
                      /\ phase[c] = "receipt"
                      /\ info[c] # NoInfo
                      /\ info[c] = last
                      /\ last.submitter = viewer[c].key => receipt[c].id = last.id
                      /\ Submitted(viewer[c].key, receipt[c].id, receipt[c].height)'
    BY <2>1 DEF Held
  <2>2. receipt[c].height \in 1 .. height
    BY ReceiptFacts
  <2>3. chain'[receipt[c].height] = chain[receipt[c].height]
    BY <2>1, <2>2
  <2>4. Submitted(viewer[c].key, receipt[c].id, receipt[c].height)'
    <3>1. Submitted(viewer[c].key, receipt[c].id, receipt[c].height)
      BY <1>2
    <3>2. UNCHANGED <<viewer, receipt>>
      BY <2>1
    <3> QED
      BY <2>3, <3>1, <3>2 DEF Submitted
  <2> QED
    BY <1>2, <2>3, <2>4
<1>5. CASE UNCHANGED <<height, nodeVars, viewVars>>
  BY <1>2, <1>3, <1>5 DEF nodeVars, viewVars
<1>6. ASSUME NEW c \in Conns, Releases(c)
      PROVE  Held'
  <2>1. /\ UNCHANGED <<chain, viewer, info>>
        /\ phase' = [phase EXCEPT ![c] = "scan"]
        /\ receipt' = [receipt EXCEPT ![c] = NoReceipt]
    BY <1>6, ReleaseFacts DEF nodeVars
  <2>2. \A d \in Conns : receipt'[d] # NoReceipt => d # c /\ receipt'[d] = receipt[d] /\ phase'[d] = phase[d]
    BY <1>1, <2>1 DEF TypeOK
  <2> QED
    BY <1>2, <1>3, <2>1, <2>2
<1>7. ASSUME NEW c \in Conns, Scan(c)
      PROVE  Held'
  <2> DEFINE txs  == chain[Block(c)]
             last == txs[Max(FormsIn(txs))].info
  <2>1. /\ UNCHANGED <<chain, viewer>>
        /\ phase[c] = "scan" /\ phase' = [phase EXCEPT ![c] = "receipt"]
        /\ Block(c) \in 1 .. height
    BY <1>7, ScanFacts DEF nodeVars
  <2>2. receipt[c] = NoReceipt
    BY <1>2, <2>1
  <2>3. \A d \in Conns : d # c => info'[d] = info[d] /\ phase'[d] = phase[d] /\ receipt'[d] = receipt[d]
    BY <1>1, <1>7, <2>1, ScanFacts DEF TypeOK
  <2>4. phase'[c] = "receipt"
    BY <1>1, <2>1 DEF TypeOK
  <2>5. receipt'[c] # NoReceipt => Good(c, receipt'[c], info'[c])
    <3>1. CASE UNCHANGED receipt
      BY <2>2, <3>1
    <3>2. ASSUME NEW i \in FormsIn(txs), txs[i].info \in Info, last \in Info,
                 txs[i].info.submitter = viewer[c].key,
                 last.submitter = viewer[c].key => txs[i].info = last,
                 receipt' = [receipt EXCEPT ![c] = [id |-> txs[i].info.id, height |-> Block(c)]],
                 info' = [info EXCEPT ![c] = last]
          PROVE  Good(c, receipt'[c], info'[c])
      <4>1. /\ receipt'[c] = [id |-> txs[i].info.id, height |-> Block(c)]
            /\ info'[c] = last
        BY <1>1, <3>2 DEF TypeOK
      <4>2. receipt'[c].id = txs[i].info.id /\ receipt'[c].height = Block(c)
        BY <4>1
      <4>3. Submitted(viewer[c].key, txs[i].info.id, Block(c))
        <5>1. txs[i].info # NoInfo
          BY <3>2, TxsAssumption
        <5> QED
          BY <3>2, <5>1 DEF Submitted
      <4>4. last # NoInfo
        BY <3>2, TxsAssumption
      <4> QED
        BY <3>2, <4>1, <4>2, <4>3, <4>4
    <3> QED
      BY <1>7, <3>1, <3>2, ScanFacts
  <2> HIDE DEF Good
  <2> QED
    BY <1>2, <1>3, <2>1, <2>3, <2>4, <2>5
<1> QED
  BY <1>4, <1>5, <1>6, <1>7, StepCases

\* Every step keeps the last accepted forms in the tree.
LEMMA StepKept == TInv /\ Kept /\ [Next]_vars => Kept'
<1> SUFFICES ASSUME TInv, Kept, [Next]_vars
             PROVE  Kept'
  OBVIOUS
<1>1. CASE \E txs \in BlocksOfTxs : Commit(txs)
  <2>1. PICK txs \in BlocksOfTxs : Commit(txs)
    BY <1>1
  <2>2. /\ height' = height + 1 /\ height \in Nat
        /\ \A b \in 1 .. height : chain'[b] = chain[b]
        /\ chain'[height + 1] = txs
        /\ Tree' = Execute(Tree, txs)
    BY <2>1, CommitFacts
  <2> SUFFICES ASSUME NEW b \in 1 .. height + 1, NEW id \in FormIDs,
                      GoodForms(chain'[b], id) # {},
                      \A h \in b + 1 .. height + 1 : GoodForms(chain'[h], id) = {}
               PROVE  Tree'.forms[id] = chain'[b][Max(GoodForms(chain'[b], id))].info.cid
    BY <2>2 DEF Kept
  <2>3. Tree'.forms[id] = IF GoodForms(txs, id) = {} THEN Tree.forms[id]
                          ELSE txs[Max(GoodForms(txs, id))].info.cid
    BY <2>2, ChainFacts, ExecuteFacts
  <2>4. CASE b = height + 1
    BY <2>2, <2>3, <2>4
  <2>5. CASE b \in 1 .. height
    <3>1. GoodForms(txs, id) = {}
      <4>1. height + 1 \in b + 1 .. height + 1
        BY <2>2, <2>5
      <4> QED
        BY <2>2, <4>1
    <3>2. \A h \in b + 1 .. height : h \in 1 .. height /\ h \in b + 1 .. height + 1
      BY <2>2, <2>5
    <3>3. \A h \in b + 1 .. height : GoodForms(chain[h], id) = {}
      BY <2>2, <3>2
    <3>4. chain'[b] = chain[b]
      BY <2>2, <2>5
    <3>5. Tree.forms[id] = chain[b][Max(GoodForms(chain[b], id))].info.cid
      BY <2>5, <3>3, <3>4 DEF Kept
    <3> QED
      BY <2>3, <3>1, <3>4, <3>5
  <2> QED
    BY <2>2, <2>4, <2>5
<1>2. CASE UNCHANGED <<height, nodeVars>>
  BY <1>2 DEF nodeVars, Kept, Tree
<1>3. ASSUME NEW c \in Conns, Releases(c) \/ Scan(c)
      PROVE  UNCHANGED <<height, nodeVars>>
  BY <1>3, ReleaseFacts, ScanFacts DEF streamVars
<1> QED
  BY <1>1, <1>2, <1>3, StepCases

\* Every step keeps the trees to what was accepted.
LEMMA StepRooted == TInv /\ Rooted /\ [Next]_vars => Rooted'
<1> SUFFICES ASSUME TInv, Rooted, [Next]_vars
             PROVE  Rooted'
  OBVIOUS
<1>1. CASE \E txs \in BlocksOfTxs : Commit(txs)
  <2>1. PICK txs \in BlocksOfTxs : Commit(txs)
    BY <1>1
  <2>2. /\ height' = height + 1 /\ height \in Nat
        /\ \A b \in 1 .. height : chain'[b] = chain[b]
        /\ chain'[height + 1] = txs
        /\ \A g \in 0 .. height : roots'[g] = roots[g]
        /\ roots'[height + 1] = Execute(Tree, txs)
    BY <2>1, CommitFacts DEF Tree
  <2> SUFFICES ASSUME NEW g \in 0 .. height + 1, NEW id \in FormIDs, roots'[g].forms[id] # Absent
               PROVE  \E b \in 1 .. g : \E i \in GoodForms(chain'[b], id) :
                        roots'[g].forms[id] = chain'[b][i].info.cid
    BY <2>2 DEF Rooted
  \* What a tree before the block stores was accepted by then.
  <2>3. ASSUME NEW h \in 0 .. height, h <= g, roots'[g].forms[id] = roots[h].forms[id]
        PROVE  \E b \in 1 .. g : \E i \in GoodForms(chain'[b], id) :
                 roots'[g].forms[id] = chain'[b][i].info.cid
    <3>1. PICK b \in 1 .. h : \E i \in GoodForms(chain[b], id) :
            roots[h].forms[id] = chain[b][i].info.cid
      BY <2>3 DEF Rooted
    <3>2. b \in 1 .. g /\ chain'[b] = chain[b]
      BY <2>2, <2>3
    <3> QED
      BY <2>3, <3>1, <3>2
  <2>4. CASE g \in 0 .. height
    BY <2>2, <2>3, <2>4
  <2>5. CASE g = height + 1
    <3>1. roots'[g].forms[id] = IF GoodForms(txs, id) = {} THEN Tree.forms[id]
                                ELSE txs[Max(GoodForms(txs, id))].info.cid
      BY <2>2, <2>5, ChainFacts, ExecuteFacts
    <3>2. CASE GoodForms(txs, id) = {}
      BY <2>2, <2>3, <2>5, <3>1, <3>2 DEF Tree
    <3>3. CASE GoodForms(txs, id) # {}
      <4>1. Max(GoodForms(txs, id)) \in GoodForms(txs, id)
        BY <3>3, BlockFacts
      <4>2. g \in 1 .. g /\ chain'[g] = txs
        BY <2>2, <2>5
      <4> QED
        BY <3>1, <3>3, <4>1, <4>2
    <3> QED
      BY <3>2, <3>3
  <2> QED
    BY <2>2, <2>4, <2>5
<1>2. CASE UNCHANGED <<height, nodeVars>>
  BY <1>2 DEF nodeVars, Rooted
<1>3. ASSUME NEW c \in Conns, Releases(c) \/ Scan(c)
      PROVE  UNCHANGED <<height, nodeVars>>
  BY <1>3, ReleaseFacts, ScanFacts DEF streamVars
<1> QED
  BY <1>1, <1>2, <1>3, StepCases

\* Every step keeps the answers sound.
LEMMA StepSound == TInv /\ Held /\ Rooted /\ ReceiptSound /\ [Next]_vars => ReceiptSound'
<1> SUFFICES ASSUME TInv, Held, Rooted, ReceiptSound, [Next]_vars
             PROVE  ReceiptSound'
  OBVIOUS
<1>1. TypeOK /\ height \in Nat
  BY ChainFacts DEF TInv
<1>2. sent \in [Conns -> Seq(Answers)]
  BY <1>1 DEF TypeOK, Answers
<1> DEFINE Sound(c, r) == r.hash # NoHash => Proven(viewer[c].key, r)
<1>3. \A c \in Conns : \A i \in DOMAIN sent[c] : Sound(c, sent[c][i])
  BY DEF ReceiptSound
<1>4. CASE \E txs \in BlocksOfTxs : Commit(txs)
  <2>1. (\A b \in 1 .. height : chain'[b] = chain[b]) /\ UNCHANGED <<viewer, sent>>
    BY <1>4, CommitFacts DEF viewVars
  <2> SUFFICES ASSUME NEW c \in Conns, NEW i \in DOMAIN sent[c], sent[c][i].hash # NoHash
               PROVE  Proven(viewer[c].key, sent[c][i])'
    BY <2>1 DEF ReceiptSound
  <2> PICK key, r : key = viewer[c].key /\ r = sent[c][i]
    OBVIOUS
  <2>2. r \in Answers
    BY <1>2, ElementOfSeq
  <2>3. r.height \in 1 .. height
    BY <2>2 DEF Answers
  <2>4. Proven(key, r)'
    BY <1>1, <1>3, <2>1, <2>3, ProvenLasts
  <2>5. key = viewer'[c].key /\ r = sent'[c][i]
    BY <2>1
  <2> QED
    BY <2>4, <2>5 DEF Proven, Submitted, LastForm
<1>5. CASE UNCHANGED <<nodeVars, viewer, sent>>
  BY <1>5 DEF nodeVars, ReceiptSound, Proven, Submitted, LastForm
<1>6. ASSUME NEW c \in Conns, Releases(c)
      PROVE  ReceiptSound'
  <2>1. UNCHANGED <<nodeVars, viewer>>
    BY <1>6, ReleaseFacts
  <2>2. CASE UNCHANGED sent
    BY <1>5, <2>1, <2>2
  <2>3. ASSUME NEW a \in Answers,
               receipt[c] # NoReceipt,
               sent' = [sent EXCEPT ![c] = Append(sent[c], a)],
               a.id = receipt[c].id, receipt[c].height <= a.height,
               a.hash # NoHash => /\ a.hash.forms[a.id] = info[c].cid
                                  /\ \E g \in 0 .. height : g <= a.height - 1 /\ a.hash = roots[g]
        PROVE  ReceiptSound'
    <3>1. /\ Submitted(viewer[c].key, a.id, receipt[c].height)
          /\ info[c] = LastForm(receipt[c].height)
          /\ info[c] \in Info
      BY <1>1, <2>3 DEF Held, TypeOK, LastForm
    <3>2. /\ receipt[c].height \in 1 .. height /\ a.height \in 1 .. height
          /\ receipt[c].height \in 1 .. a.height
          /\ a.id \in FormIDs
      BY <1>1, <2>3, ReceiptFacts DEF Answers
    <3>3. info[c].cid # Absent
      BY <3>1, TxsAssumption DEF Info
    <3>4. Sound(c, a)
      <4> SUFFICES ASSUME a.hash # NoHash
                   PROVE  Proven(viewer[c].key, a)
        OBVIOUS
      <4>1. a.hash.forms[a.id] = LastForm(receipt[c].height).cid /\ a.hash.forms[a.id] # Absent
        BY <2>3, <3>1, <3>3
      <4>2. PICK g \in 0 .. height : g <= a.height - 1 /\ a.hash = roots[g]
        BY <2>3
      <4>3. PICK b \in 1 .. g : \E i \in GoodForms(chain[b], a.id) :
              roots[g].forms[a.id] = chain[b][i].info.cid
        BY <3>2, <4>1, <4>2 DEF Rooted
      <4>4. b \in 1 .. a.height - 1
        BY <1>1, <3>2, <4>2
      <4>5. \E i \in GoodForms(chain[b], a.id) : a.hash.forms[a.id] = chain[b][i].info.cid
        BY <4>2, <4>3
      <4> QED
        BY <3>1, <3>2, <4>1, <4>4, <4>5 DEF Proven
    <3>5. ASSUME NEW d \in Conns, NEW i \in DOMAIN sent'[d]
          PROVE  Sound(d, sent'[d][i])
      <4>1. CASE d # c
        <5>1. sent'[d] = sent[d]
          BY <1>2, <2>3, <4>1
        <5> QED
          BY <1>3, <5>1
      <4>2. CASE d = c
        <5>1. sent'[c] = Append(sent[c], a) /\ sent[c] \in Seq(Answers)
          BY <1>2, <2>3
        <5>2. /\ DOMAIN sent'[c] = 1 .. Len(sent[c]) + 1 /\ Len(sent[c]) \in Nat
              /\ DOMAIN sent[c] = 1 .. Len(sent[c])
              /\ \A k \in 1 .. Len(sent[c]) : sent'[c][k] = sent[c][k]
              /\ sent'[c][Len(sent[c]) + 1] = a
          BY <2>3, <5>1, AppendProperties, LenProperties
        <5>3. i = Len(sent[c]) + 1 \/ i \in DOMAIN sent[c]
          BY <4>2, <5>2
        <5> HIDE DEF Sound
        <5> QED
          BY <1>3, <3>4, <4>2, <5>2, <5>3
      <4> QED
        BY <4>1, <4>2
    <3> QED
      BY <2>1, <3>5 DEF ReceiptSound, Proven, Submitted, LastForm, nodeVars
  <2> QED
    BY <1>6, <2>2, <2>3, ReleaseFacts
<1>7. ASSUME NEW c \in Conns, Scan(c)
      PROVE  ReceiptSound'
  BY <1>5, <1>7, ScanFacts
<1> QED
  BY <1>4, <1>5, <1>6, <1>7, StepCases DEF viewVars

\* The invariant holds before the first connection.
LEMMA InitInv == Init => IInv
<1> SUFFICES ASSUME Init
             PROVE  IInv
  OBVIOUS
<1>1. MaxHeight \in Nat /\ MaxTxs \in Nat
  BY TxsAssumption
<1>2. Feed!TInv
  <2>1. Feed!Init
    BY DEF Init, Blocks!Init, Feed!Init
  <2> QED
    BY <1>1, <2>1, Feed!InitTypes DEF Feed!MaxHeightAssumption
<1>3. Blocks!TypeOK
  BY <1>2 DEF Feed!TInv, Feed!TypeOK, Blocks!TypeOK
<1>4. height \in Nat /\ chain = [h \in 1 .. height |-> <<>>] /\ roots = [h \in 0 .. height |-> EmptyTree]
  BY <1>1 DEF Init, Blocks!Init
<1>5. <<>> \in BlocksOfTxs
  <2>1. 0 \in 0 .. MaxTxs /\ <<>> \in [1 .. 0 -> Txs]
    BY <1>1
  <2> QED
    BY <2>1 DEF BlocksOfTxs
<1>6. EmptyTree \in Trees
  BY DEF EmptyTree, Trees
<1>7. TypeOK
  <2>1. \A c \in Conns : sent[c] = <<>>
    BY DEF Init
  <2>2. sent \in [Conns -> Seq([id : FormIDs, height : 1 .. height, hash : Trees \cup {NoHash}])]
    BY <2>1, EmptySeq DEF Init
  <2> QED
    BY <1>3, <1>4, <1>5, <1>6, <2>2 DEF Init, TypeOK
<1>8. Busy
  BY DEF Busy, Init, Blocks!Init
<1>9. Held
  BY DEF Held, Init
<1>10. Kept
  <2>1. \A b \in 1 .. height : \A id : GoodForms(chain[b], id) = {}
    BY <1>4 DEF GoodForms, FormsIn
  <2> QED
    BY <2>1 DEF Kept
<1>11. ReceiptSound
  BY DEF ReceiptSound, Init
<1>12. Rooted
  BY <1>4 DEF Rooted, EmptyTree
<1> QED
  BY <1>2, <1>7, <1>8, <1>9, <1>10, <1>11, <1>12 DEF IInv, TInv

\* A receipt for a form that nothing has disturbed, over the tree of the header,
\* is for what the tree stores.
LEMMA UndisturbedVerifies ==
  ASSUME IInv, NEW c \in Conns, receipt[c] # NoReceipt, handler[c] = "busy",
         roots[height] = roots[Block(c) - 1],
         Undisturbed(viewer[c].key, receipt[c].height)
  PROVE  Verified(c)
<1> DEFINE b    == receipt[c].height
           txs  == chain[b]
           m    == Max(FormsIn(txs))
           mine == txs[m]
           id   == mine.info.id
           good == GoodForms(txs, id)
<1>1. TInv /\ Held /\ Kept
  BY DEF IInv
<1>2. b \in 1 .. height /\ txs \in BlocksOfTxs
  BY <1>1, ReceiptFacts, ChainFacts
<1>3. /\ FormsIn(txs) # {} /\ mine.good /\ mine.info.submitter = viewer[c].key
      /\ \A h \in b + 1 .. height : GoodForms(chain[h], id) = {}
  BY DEF Undisturbed
<1>4. info[c] = mine.info /\ receipt[c].id = id
  BY <1>1, <1>3 DEF Held
<1>5. m \in FormsIn(txs) /\ \A i \in FormsIn(txs) : i <= m
  BY <1>2, <1>3, BlockFacts
<1>6. m \in good
  BY <1>3, <1>5 DEF GoodForms
<1>7. Max(good) = m
  <2>1. Max(good) \in good /\ m <= Max(good) /\ good \subseteq FormsIn(txs)
    BY <1>2, <1>6, BlockFacts
  <2>2. Max(good) <= m
    BY <1>5, <2>1
  <2>3. Max(good) \in DOMAIN txs /\ m \in DOMAIN txs
    BY <1>2, <1>5, <2>1, BlockFacts
  <2>4. Max(good) \in Nat /\ m \in Nat
    BY <1>2, <2>3, BlockFacts
  <2>5. \A x, y \in Nat : x <= y /\ y <= x => x = y
    OBVIOUS
  <2> QED
    BY <2>1, <2>2, <2>4, <2>5, Zenon
<1>8. id \in FormIDs
  BY <1>1, <1>4, ReceiptFacts
<1>9. Tree.forms[id] = mine.info.cid
  BY <1>1, <1>2, <1>3, <1>6, <1>7, <1>8 DEF Kept
<1> QED
  BY <1>4, <1>9 DEF Verified, AppHash, Tree

\* A step that gives up such a receipt writes an answer.
LEMMA StepAnswered ==
  ASSUME IInv, [Next]_vars, NEW c \in Conns,
         receipt[c] # NoReceipt, receipt'[c] = NoReceipt,
         roots[height] = roots[Block(c) - 1],
         Undisturbed(viewer[c].key, receipt[c].height)
  PROVE  sent'[c] # sent[c]
<1>1. TInv /\ TypeOK /\ Held
  BY DEF IInv, TInv
<1>2. sent \in [Conns -> Seq(Answers)]
  BY <1>1 DEF TypeOK, Answers
<1>3. UNCHANGED receipt => FALSE
  OBVIOUS
<1>4. ASSUME NEW d \in Conns, Releases(d)
      PROVE  sent'[c] # sent[c]
  <2>1. receipt' = [receipt EXCEPT ![d] = NoReceipt]
    BY <1>1, <1>4, ReleaseFacts
  <2>2. c = d
    BY <1>1, <2>1 DEF TypeOK
  <2>4. ~DropReceipt(c)
    <3>1. DropReceipt(c) => handler[c] = "busy" /\ ~Verified(c)
      BY DEF DropReceipt, Holds
    <3> QED
      BY <3>1, UndisturbedVerifies
  <2>5. ~NothingHeld(c)
    BY DEF NothingHeld
  <2>6. \A hash : Answer(c, hash) => sent'[c] # sent[c]
    <3> SUFFICES ASSUME NEW hash, Answer(c, hash)
                 PROVE  sent'[c] # sent[c]
      OBVIOUS
    <3> DEFINE a == [id |-> receipt[c].id, height |-> Raised(c), hash |-> hash]
               S == Answers \cup {a}
    <3>1. sent'[c] = Append(sent[c], a)
      BY <1>2 DEF Answer
    <3>2. a \in S /\ Answers \subseteq S /\ sent[c] \in Seq(Answers)
      BY <1>2
    <3> HIDE DEF S, a
    <3>3. sent[c] \in Seq(S)
      BY <3>2, SeqMonotonic
    <3>4. Len(sent'[c]) = Len(sent[c]) + 1 /\ Len(sent[c]) \in Nat
      BY <3>1, <3>2, <3>3, AppendProperties, LenProperties
    <3> QED
      BY <3>4
  <2> QED
    BY <1>4, <2>2, <2>4, <2>5, <2>6 DEF Releases, SendReceipt, QueryFails
<1>5. ASSUME NEW d \in Conns, Scan(d)
      PROVE  FALSE
  <2>1. phase[d] = "scan" /\ (UNCHANGED receipt \/ \E r : receipt' = [receipt EXCEPT ![d] = r])
    BY <1>1, <1>5, ScanFacts
  <2>2. c # d
    BY <1>1, <2>1 DEF Held
  <2> QED
    BY <1>1, <2>1, <2>2 DEF TypeOK
<1> QED
  BY <1>1, <1>3, <1>4, <1>5, CommitFacts, StepCases DEF viewVars

-----------------------------------------------------------------------------
(* The theorems *)

\* The invariant the others follow from, for any number of connections that
\* share the blocks.
THEOREM Invariance == Spec => []IInv
<1>1. IInv /\ [Next]_vars => IInv'
  BY StepTypes, StepHeld, StepKept, StepRooted, StepSound DEF IInv
<1> QED
  BY <1>1, InitInv, PTL DEF Spec

\* Every variable keeps its type, and no receipt is for a height above the chain.
THEOREM TypesCorrect == Spec => []TypeOK
<1>1. IInv => TypeOK
  BY DEF IInv, TInv
<1> QED
  BY <1>1, Invariance, PTL

\* A receipt with a hash is for an identifier that the viewer submitted, under
\* which the tree of the hash stores the content of the last form of that block,
\* accepted before, however many connections take the blocks of each other and
\* whatever came between the form, the proof and the answer.
THEOREM ReceiptsAreSound == Spec => []ReceiptSound
<1>1. IInv => ReceiptSound
  BY DEF IInv
<1> QED
  BY <1>1, Invariance, PTL

\* The receipt of the last form of a block is answered, unless the tree has moved
\* on or the form was refused or overwritten.
THEOREM UndisturbedIsAnswered == Spec => LastFormIsAnswered
<1> DEFINE Answered ==
             \A c \in Conns :
               ( /\ receipt[c] # NoReceipt
                 /\ receipt'[c] = NoReceipt
                 /\ roots[height] = roots[Block(c) - 1]
                 /\ Undisturbed(viewer[c].key, receipt[c].height) )
               => sent'[c] # sent[c]
<1>1. IInv /\ [Next]_vars => [Answered]_vars
  BY StepAnswered
<1>2. LastFormIsAnswered <=> [][Answered]_vars
  BY DEF LastFormIsAnswered
<1> HIDE DEF Answered
<1> QED
  BY <1>1, <1>2, Invariance, PTL DEF Spec

\* A step of Updates is one of the streams, leaves them alone, or ends the
\* process.
LEMMA FeedStep ==
  ASSUME [Next]_vars
  PROVE  \/ [Feed!Next]_Feed!vars
         \/ up' = FALSE /\ UNCHANGED <<height, results, latest, stream, handler, received>>
<1>1. UNCHANGED streamVars => [Blocks!Next]_streamVars
  OBVIOUS
<1>2. CASE \E txs \in BlocksOfTxs : Commit(txs)
  BY <1>2, SameFeed DEF Commit, Blocks!Next
<1>3. ASSUME NEW c \in Conns, Open(c) \/ Flow(c) \/ Scan(c) \/ ScanPanics(c)
      PROVE  [Feed!Next]_Feed!vars
  BY <1>3, SameFeed DEF Open, Flow, Scan, ScanPanics, Blocks!Next
<1>4. ASSUME NEW c \in Conns, NothingHeld(c) \/ SendReceipt(c) \/ DropReceipt(c) \/ QueryFails(c)
      PROVE  [Feed!Next]_Feed!vars
  BY <1>1, <1>4, SameFeed DEF NothingHeld, SendReceipt, DropReceipt, QueryFails, Release
<1>5. ASSUME NEW c \in Conns, ProofPanics(c)
      PROVE  up' = FALSE /\ UNCHANGED <<height, results, latest, stream, handler, received>>
  BY <1>5 DEF ProofPanics
<1>6. CASE UNCHANGED vars
  BY <1>1, <1>6, SameFeed DEF vars
<1> QED
  BY <1>2, <1>3, <1>4, <1>5, <1>6 DEF Next

\* A single connection misses no block while its handler also answers receipts,
\* whatever ends the handler or the process.
THEOREM ViewerSeesEveryBlock ==
  ASSUME Feed!OneConnection
  PROVE  Spec => []Blocks!FeedSkipsNothing
<1>1. MaxHeight \in Nat
  BY TxsAssumption
<1>2. Init => Feed!IInv
  <2>1. Init => Feed!Init
    BY DEF Init, Blocks!Init, Feed!Init
  <2> QED
    BY <1>1, <2>1, Feed!InitInv DEF Feed!MaxHeightAssumption
<1>3. Feed!IInv /\ [Next]_vars => Feed!IInv'
  <2> SUFFICES ASSUME Feed!IInv, [Next]_vars PROVE Feed!IInv'
    OBVIOUS
  <2>1. CASE [Feed!Next]_Feed!vars
    BY <1>1, <2>1, Feed!StepTypes, Feed!StepInv DEF Feed!IInv, Feed!MaxHeightAssumption
  <2>2. CASE up' = FALSE /\ UNCHANGED <<height, results, latest, stream, handler, received>>
    BY <2>2 DEF Feed!IInv, Feed!TInv, Feed!TypeOK, Feed!HoldsBlock, Feed!Position, Feed!Got,
       Feed!Newest, Feed!FeedSkipsNothing
  <2> QED
    BY <2>1, <2>2, FeedStep
<1>4. Feed!IInv => Blocks!FeedSkipsNothing
  BY DEF Feed!IInv, Feed!FeedSkipsNothing, Blocks!FeedSkipsNothing
<1> QED
  BY <1>2, <1>3, <1>4, PTL DEF Spec

=============================================================================
