----------------------------- MODULE SearchProofs -----------------------------
(***************************************************************************)
(* Proofs about SearchPipeline, for any keys, filters and searches.        *)
(***************************************************************************)
EXTENDS SearchPipeline, FiniteSetTheorems, SequenceTheorems, TLAPS

(***************************************************************************)
(* The place of a key in the tree.  That GetByIndex finds exactly one key  *)
(* at every index is what IterQuery relies on.                             *)
(***************************************************************************)
Rank(k) == Cardinality({j \in tree : j < k})

\* Every key of the tree has a place, keys have the places of their order, and
\* no place is left out.
LEMMA RankFacts ==
  ASSUME IsFiniteSet(tree), tree \subseteq Nat
  PROVE  /\ Size \in Nat
         /\ \A k \in tree : Rank(k) \in 0 .. Size - 1
         /\ \A k, l \in tree : k < l => Rank(k) < Rank(l)
         /\ \A i \in 0 .. Size - 1 : \E k \in tree : Rank(k) = i
<1> DEFINE below(k) == {j \in tree : j < k}
<1>1. Size \in Nat
  BY FS_CardinalityType DEF Size
<1>2. \A k : IsFiniteSet(below(k)) /\ Cardinality(below(k)) \in Nat
  BY FS_Subset, FS_CardinalityType
<1>3. ASSUME NEW k \in tree
      PROVE  Rank(k) \in 0 .. Size - 1
  <2>1. below(k) \in SUBSET tree /\ below(k) # tree
    BY <1>3
  <2>2. Cardinality(below(k)) <= Size /\ Cardinality(below(k)) # Size
    BY <2>1, FS_Subset DEF Size
  <2> QED
    BY <1>1, <1>2, <2>2 DEF Rank
<1>4. ASSUME NEW k \in tree, NEW l \in tree, k < l
      PROVE  Rank(k) < Rank(l)
  <2>1. below(k) \in SUBSET below(l) /\ k \in below(l) /\ k \notin below(k)
    <3>1. k \in Nat /\ l \in Nat /\ \A j \in tree : j \in Nat
      OBVIOUS
    <3>2. \A j \in tree : j < k => j < l
      BY <1>4, <3>1
    <3>3. ~(k < k)
      BY <3>1
    <3> QED
      BY <1>4, <3>2, <3>3
  <2>2. Cardinality(below(k)) <= Cardinality(below(l)) /\ Cardinality(below(k)) # Cardinality(below(l))
    BY <1>2, <2>1, FS_Subset
  <2> QED
    BY <1>2, <2>2 DEF Rank
<1>5. \A i \in 0 .. Size - 1 : \E k \in tree : Rank(k) = i
  <2> DEFINE f == [k \in tree |-> Rank(k)]
             places == 0 .. Size - 1
  <2>1. f \in [tree -> places]
    BY <1>3
  <2>2. \A k, l \in tree : k # l => Rank(k) # Rank(l)
    <3> SUFFICES ASSUME NEW k \in tree, NEW l \in tree, k # l
                 PROVE  Rank(k) # Rank(l)
      OBVIOUS
    <3>1. k < l \/ l < k
      OBVIOUS
    <3>2. Rank(k) < Rank(l) \/ Rank(l) < Rank(k)
      BY <1>4, <3>1
    <3> QED
      BY <1>3, <3>2
  <2>3. f \in Injection(tree, places)
    BY <2>1, <2>2 DEF Injection, IsInjective
  <2>4. IsFiniteSet(places) /\ Cardinality(places) = Size
    BY <1>1, FS_Interval
  <2>5. f \in Surjection(tree, places)
    BY <2>3, <2>4, FS_Injection DEF Size
  <2> QED
    BY <2>5 DEF Surjection
<1> QED
  BY <1>1, <1>3, <1>4, <1>5

\* The index of a key is its rank, and the other way round.
LEMMA IndexFacts ==
  ASSUME IsFiniteSet(tree), tree \subseteq Nat
  PROVE  /\ \A i \in 0 .. Size - 1 : GetByIndex(i) \in tree /\ Rank(GetByIndex(i)) = i
         /\ \A k \in tree : Rank(k) \in 0 .. Size - 1 /\ GetByIndex(Rank(k)) = k
<1>1. ASSUME NEW i \in 0 .. Size - 1
      PROVE  GetByIndex(i) \in tree /\ Rank(GetByIndex(i)) = i
  <2>1. ~(i >= Size)
    BY RankFacts
  <2>2. \E k \in tree : Cardinality({j \in tree : j < k}) = i
    BY RankFacts DEF Rank
  <2> QED
    BY <2>1, <2>2 DEF GetByIndex, Rank
<1>2. ASSUME NEW k \in tree
      PROVE  Rank(k) \in 0 .. Size - 1 /\ GetByIndex(Rank(k)) = k
  <2>1. Rank(k) \in 0 .. Size - 1
    BY RankFacts
  <2> DEFINE l == GetByIndex(Rank(k))
  <2>2. l \in tree /\ Rank(l) = Rank(k)
    BY <1>1, <2>1
  <2>3. l \in Nat /\ k \in Nat
    BY <2>2
  <2>4. (l < k => Rank(l) < Rank(k)) /\ (k < l => Rank(k) < Rank(l))
    BY <2>2, RankFacts
  <2>5. Rank(k) \in Int
    BY <2>1
  <2>6. ~(l < k) /\ ~(k < l)
    BY <2>2, <2>4, <2>5
  <2>7. l = k
    BY <2>3, <2>6
  <2> QED
    BY <2>1, <2>7
<1> QED
  BY <1>1, <1>2

\* What the iteration has handed on are the keys below its index.
LEMMA HandedFacts ==
  ASSUME IsFiniteSet(tree), tree \subseteq Nat, iter.i \in 0 .. Size
  PROVE  /\ Handed \subseteq tree
         /\ iter.i = Size => Handed = tree
         /\ iter.i < Size => \A k \in Handed : k < GetByIndex(iter.i)
<1>0. Size \in Nat
  BY RankFacts
<1>1. Handed \subseteq tree
  BY <1>0, IndexFacts DEF Handed
<1>2. ASSUME iter.i = Size
      PROVE  tree \subseteq Handed
  BY <1>0, <1>2, IndexFacts DEF Handed
<1>3. ASSUME iter.i < Size, NEW k \in Handed
      PROVE  k < GetByIndex(iter.i)
  <2> DEFINE l == GetByIndex(iter.i)
  <2>1. PICK i \in 0 .. iter.i - 1 : k = GetByIndex(i)
    BY <1>3 DEF Handed
  <2>2. i \in 0 .. Size - 1 /\ iter.i \in 0 .. Size - 1 /\ i < iter.i
    BY <1>0, <1>3, <2>1
  <2>3. k \in tree /\ l \in tree /\ Rank(k) = i /\ Rank(l) = iter.i
    BY <2>1, <2>2, IndexFacts
  <2>4. k \in Nat /\ l \in Nat /\ k # l
    <3>1. k = l => Rank(k) = Rank(l)
      BY Zenon
    <3>2. i # iter.i
      BY <2>2
    <3> QED
      BY <2>3, <3>1, <3>2
  <2>5. l < k => Rank(l) < Rank(k)
    BY <2>3, RankFacts
  <2>6. ~(l < k)
    BY <2>2, <2>3, <2>5
  <2> QED
    BY <2>4, <2>6
<1> QED
  BY <1>1, <1>2, <1>3

-----------------------------------------------------------------------------
(***************************************************************************)
(* The inductive invariant.                                                *)
(***************************************************************************)

\* IterQuery reads the tree it was told the size of, each index once.
Reads ==
  search # NoSearch =>
    /\ iter.i \in 0 .. Size
    /\ iter.at = "size" => iter.i = 0
    /\ iter.at # "size" => iter.size = Size
    /\ iter.at = "send" => iter.i < Size /\ iter.key = GetByIndex(iter.i)
    /\ iter.at = "done" => iter.i = Size

\* A channel is closed by the stage before it when that stage ends, and stages
\* end in their order.
Closes ==
  /\ 1 \in closed <=> iter.at = "done"
  /\ 2 \in closed <=> check[1].at = "done"
  /\ 3 \in closed <=> check[2].at = "done"
  /\ 2 \in closed => 1 \in closed
  /\ 3 \in closed => 2 \in closed
  /\ search = NoSearch => 3 \in closed

Holds(j) == check[j].at \in {"check", "send"}

Collects(k) == \E i \in DOMAIN datas : datas[i] = k

\* The check of the filter, or that of the dates, has a reason to drop the key.
Drops(k) ==
  /\ search.issue \in Issues
  /\ ~FilterLookup(k) \/ (Submitted[k] # NoForm /\ ~TimeRange(k))

\* Where every key that was read is, what is known of a key from where it is,
\* and that keys keep their order on the way.
Flow ==
  search # NoSearch =>
    /\ \A j \in Checks : Holds(j) => check[j].key \in Handed
    /\ \A i \in DOMAIN datas : datas[i] \in Handed
    /\ check[1].at = "send" => FilterLookup(check[1].key)
    /\ Holds(2) => FilterLookup(check[2].key)
    /\ check[2].at = "send" => Submitted[check[2].key] # NoForm /\ TimeRange(check[2].key)
    /\ \A i \in DOMAIN datas :
         FilterLookup(datas[i]) /\ Submitted[datas[i]] # NoForm /\ TimeRange(datas[i])
    /\ \A k \in Handed : Collects(k) \/ (\E j \in Checks : Holds(j) /\ check[j].key = k) \/ Drops(k)
    /\ \A i, j \in DOMAIN datas : i < j => datas[i] < datas[j]
    /\ \A i \in DOMAIN datas, j \in Checks : Holds(j) => datas[i] < check[j].key
    /\ Holds(1) /\ Holds(2) => check[2].key < check[1].key

\* An answer is given when no search runs, and holds forms of its range only.
Answered ==
  answer # NoAnswer =>
    /\ search = NoSearch
    /\ \A i \in DOMAIN answer.keys :
         /\ Submitted[answer.keys[i]] # NoForm
         /\ Promise!InRange(answer.search, answer.keys[i])

TInv == TypeOK /\ IsFiniteSet(tree) /\ Reads /\ Closes

IInv == TInv /\ Flow /\ Answered

\* The invariant holds over an empty tree.
LEMMA InitInv == Init => IInv
<1> SUFFICES ASSUME Init PROVE IInv
  OBVIOUS
<1> USE DEF Init
<1>1. TypeOK
  BY SearchAssumption, EmptySeq DEF TypeOK, Checks, Places
<1>2. IsFiniteSet(tree)
  BY FS_EmptySet
<1>3. Reads /\ Flow /\ Answered
  BY DEF Reads, Flow, Answered
<1>4. Closes
  BY DEF Closes, Checks
<1> QED
  BY <1>1, <1>2, <1>3, <1>4 DEF IInv, TInv

\* While no search runs, the tree may become any finite set of keys.
LEMMA IdleInv ==
  ASSUME IInv, search = NoSearch, UNCHANGED <<link, up, search, pipe>>, answer' = NoAnswer,
         tree' \subseteq Keys, IsFiniteSet(tree'), hits' \in [Issues -> SUBSET Keys]
  PROVE  IInv'
<1>1. TypeOK /\ Closes
  BY DEF IInv, TInv
<1>2. UNCHANGED <<link, up, search, iter, check, closed, datas>>
  BY DEF pipe
<1>3. TypeOK'
  <2>1. link' \in BOOLEAN /\ up' \in BOOLEAN /\ search' = NoSearch
    BY <1>1, <1>2 DEF TypeOK
  <2>2. /\ iter' \in [at : {"size", "index", "send", "done"}, size : Nat, i : Nat, key : Keys \cup {NoKey}]
        /\ check' \in [Checks -> [at : Places, key : Keys \cup {NoKey}]]
        /\ closed' \subseteq {1, 2, 3} /\ datas' \in Seq(Keys)
    BY <1>1, <1>2 DEF TypeOK
  <2>3. iter'.at = "done" /\ \A j \in Checks : check'[j].at = "done"
    BY <1>1, <1>2 DEF Closes, Checks
  <2> QED
    BY <1>1, <1>2, <2>1, <2>2, <2>3 DEF TypeOK
<1>4. Reads' /\ Flow' /\ Answered'
  BY DEF Reads, Flow, Answered
<1>5. Closes'
  BY <1>1, <1>2 DEF Closes
<1> QED
  BY <1>3, <1>4, <1>5 DEF IInv, TInv

\* A request between two searches keeps the invariant.
LEMMA RequestsInv ==
  ASSUME IInv,
         \/ \E k \in AccountKeys : SetAccount(k)
         \/ \E k \in FormIDs, issue \in Issues : SubmitForm(k, issue)
         \/ \E k \in Keys : OtherSets(k) \/ OtherRemoves(k)
  PROVE  IInv'
<1> USE SearchAssumption DEF IInv, TInv, Idle
<1>1. CASE \E k \in AccountKeys : SetAccount(k)
  <2>1. PICK k \in AccountKeys : SetAccount(k)
    BY <1>1
  <2>2. tree' \subseteq Keys /\ IsFiniteSet(tree')
    BY <2>1, FS_AddElement DEF SetAccount, TypeOK
  <2> QED
    BY <2>1, <2>2, IdleInv DEF SetAccount, TypeOK
<1>2. CASE \E k \in FormIDs, issue \in Issues : SubmitForm(k, issue)
  <2>1. PICK k \in FormIDs, issue \in Issues : SubmitForm(k, issue)
    BY <1>2
  <2>2. tree' \subseteq Keys /\ IsFiniteSet(tree')
    <3>1. tree' = tree \cup {k} /\ tree \subseteq Keys /\ k \in Keys
      BY <2>1 DEF SubmitForm, TypeOK
    <3> QED
      BY <3>1, FS_AddElement
  <2>3. PICK other \in Keys : hits' = [hits EXCEPT ![issue] = @ \cup {k, other}]
    BY <2>1 DEF SubmitForm
  <2>4. hits' \in [Issues -> SUBSET Keys]
    BY <2>3 DEF TypeOK
  <2> QED
    BY <2>1, <2>2, <2>4, IdleInv DEF SubmitForm
<1>3. CASE \E k \in Keys : OtherSets(k)
  <2>1. PICK k \in Keys : OtherSets(k)
    BY <1>3
  <2>2. tree' \subseteq Keys /\ IsFiniteSet(tree')
    BY <2>1, FS_AddElement DEF OtherSets, TypeOK
  <2> QED
    BY <2>1, <2>2, IdleInv DEF OtherSets, TypeOK
<1>4. CASE \E k \in Keys : OtherRemoves(k)
  <2>1. PICK k \in Keys : OtherRemoves(k)
    BY <1>4
  <2>2. tree' \subseteq Keys /\ IsFiniteSet(tree')
    BY <2>1, FS_RemoveElement DEF OtherRemoves, TypeOK
  <2> QED
    BY <2>1, <2>2, IdleInv DEF OtherRemoves, TypeOK
<1> QED
  BY <1>1, <1>2, <1>3, <1>4

\* Nothing that the invariant reads changes but the link and the process.
LEMMA SameInv ==
  ASSUME IInv, UNCHANGED <<store, search, answer, pipe>>, link' \in BOOLEAN, up' \in BOOLEAN
  PROVE  IInv'
<1> USE DEF IInv, TInv, store, pipe
<1>1. TypeOK'
  BY DEF TypeOK
<1>2. Size' = Size /\ Handed' = Handed /\ \A i : GetByIndex(i)' = GetByIndex(i)
  BY DEF Size, Handed, GetByIndex
<1>3. Reads'
  BY <1>2 DEF Reads
<1>4. Closes'
  BY DEF Closes
<1>5. \A k : /\ FilterLookup(k)' = FilterLookup(k) /\ TimeRange(k)' = TimeRange(k)
             /\ Drops(k)' = Drops(k) /\ Collects(k)' = Collects(k)
  BY DEF FilterLookup, TimeRange, Drops, Collects
<1>6. \A j : Holds(j)' = Holds(j)
  BY DEF Holds
<1>7. Flow'
  BY <1>2, <1>5, <1>6 DEF Flow
<1>8. Answered'
  BY DEF Answered
<1> QED
  BY <1>1, <1>3, <1>4, <1>7, <1>8

\* A search that is asked for starts with nothing handed on.
LEMMA AskInv ==
  ASSUME IInv, NEW s \in Searches, Ask(s)
  PROVE  IInv'
<1> USE DEF IInv, TInv, store
<1>1. TypeOK'
  BY SearchAssumption, EmptySeq DEF Ask, TypeOK, Checks, Places
<1>2. Size \in Nat /\ Size' = Size
  BY FS_CardinalityType DEF Size, Ask
<1>3. Reads'
  BY <1>2 DEF Ask, Reads
<1>4. Closes'
  BY SearchAssumption DEF Ask, Closes, Checks
<1>5. Handed' = {}
  BY DEF Ask, Handed
<1>6. Flow'
  BY <1>5 DEF Ask, Flow, Holds, Checks
<1>7. Answered'
  BY DEF Ask, Answered
<1> QED
  BY <1>1, <1>2, <1>3, <1>4, <1>6, <1>7 DEF Ask

-----------------------------------------------------------------------------
(* The steps of a search *)

Slots == [at : Places, key : Keys \cup {NoKey}]

\* The forms an assignment to the checks takes in SearchPipeline.
LEMMA CheckForms ==
  ASSUME TypeOK, NEW j \in Checks, NEW a \in Places, NEW k \in Keys \cup {NoKey}
  PROVE  /\ check' = [check EXCEPT ![j].at = a] =>
              /\ check' \in [Checks -> Slots]
              /\ check'[j].at = a /\ check'[j].key = check[j].key
              /\ \A l \in Checks : l # j => check'[l] = check[l]
         /\ check' = [check EXCEPT ![j] = [at |-> a, key |-> k]] =>
              /\ check' \in [Checks -> Slots]
              /\ check'[j].at = a /\ check'[j].key = k
              /\ \A l \in Checks : l # j => check'[l] = check[l]
<1>1. check \in [Checks -> Slots]
  BY DEF TypeOK, Slots
<1>2. check[j].key \in Keys \cup {NoKey} /\ check[j] \in Slots
  BY <1>1 DEF Slots
<1>3. [check[j] EXCEPT !.at = a] = [at |-> a, key |-> check[j].key]
  BY <1>2 DEF Slots
<1>4. \A r \in Keys \cup {NoKey} : [at |-> a, key |-> r] \in Slots
  BY DEF Slots
<1>5. ASSUME check' = [check EXCEPT ![j].at = a]
      PROVE  /\ check' \in [Checks -> Slots]
             /\ check'[j].at = a /\ check'[j].key = check[j].key
             /\ \A l \in Checks : l # j => check'[l] = check[l]
  <2>1. check' = [check EXCEPT ![j] = [at |-> a, key |-> check[j].key]]
    BY <1>1, <1>3, <1>5
  <2> QED
    BY <1>1, <1>2, <1>4, <2>1
<1>6. ASSUME check' = [check EXCEPT ![j] = [at |-> a, key |-> k]]
      PROVE  /\ check' \in [Checks -> Slots]
             /\ check'[j].at = a /\ check'[j].key = k
             /\ \A l \in Checks : l # j => check'[l] = check[l]
  BY <1>1, <1>4, <1>6
<1> QED
  BY <1>5, <1>6

\* A step of a search leaves the tree alone, and what is asked of it.
LEMMA SameTree ==
  ASSUME UNCHANGED <<store, search>>
  PROVE  /\ tree' = tree /\ hits' = hits /\ search' = search
         /\ Size' = Size
         /\ \A i : GetByIndex(i)' = GetByIndex(i)
         /\ \A k : FilterLookup(k)' = FilterLookup(k) /\ TimeRange(k)' = TimeRange(k) /\ Drops(k)' = Drops(k)
  BY DEF store, Size, GetByIndex, FilterLookup, TimeRange, Drops

\* What was handed on depends on the tree and the index alone.
LEMMA SameHanded ==
  ASSUME UNCHANGED <<store, search>>, iter'.i = iter.i
  PROVE  Handed' = Handed
  BY SameTree DEF Handed

\* IterQuery asks for the size or for a key, or finds that there are no more.
LEMMA QueryInv ==
  ASSUME IInv, QuerySize \/ QueryIndex \/ IterClose
  PROVE  IInv'
<1>1. TypeOK /\ IsFiniteSet(tree) /\ Reads /\ Closes /\ Flow /\ Answered
  BY DEF IInv, TInv
<1>2. /\ UNCHANGED <<store, search, check, datas, answer, link, up>>
      /\ search # NoSearch
      /\ tree \subseteq Nat
  BY <1>1, SearchAssumption DEF QuerySize, QueryIndex, IterClose, Asks, TypeOK
<1>3. Size \in Nat /\ iter.i \in 0 .. Size
  BY <1>1, <1>2, RankFacts DEF Reads
<1>4. /\ iter' \in [at : {"size", "index", "send", "done"}, size : Nat, i : Nat, key : Keys \cup {NoKey}]
      /\ iter'.i = iter.i
      /\ iter'.at = "send" => iter'.key \in tree
      /\ closed' \subseteq {1, 2, 3}
      /\ Reads' /\ Closes'
  <2>1. CASE QuerySize
    <3>1. iter' = [iter EXCEPT !.at = "index", !.size = Size] /\ closed' = closed /\ iter.at = "size"
      BY <2>1 DEF QuerySize, Asks
    <3>2. /\ iter' \in [at : {"size", "index", "send", "done"}, size : Nat, i : Nat, key : Keys \cup {NoKey}]
          /\ iter'.at = "index" /\ iter'.size = Size /\ iter'.i = iter.i
      BY <1>1, <1>3, <3>1 DEF TypeOK
    <3>3. Reads'
      BY <1>2, <1>3, <3>2, SameTree DEF Reads
    <3>4. Closes'
      BY <1>1, <1>2, <3>1, <3>2 DEF Closes
    <3> QED
      BY <1>1, <3>1, <3>2, <3>3, <3>4 DEF TypeOK
  <2>2. CASE QueryIndex
    <3>1. /\ iter' = [iter EXCEPT !.at = "send", !.key = GetByIndex(iter.i)]
          /\ closed' = closed /\ iter.at = "index" /\ iter.i < iter.size
      BY <2>2 DEF QueryIndex, Asks, More
    <3>2. iter.size = Size /\ iter.i \in 0 .. Size - 1
      BY <1>1, <1>2, <1>3, <3>1 DEF Reads
    <3>3. GetByIndex(iter.i) \in tree /\ GetByIndex(iter.i) \in Keys
      BY <1>1, <1>2, <3>2, IndexFacts DEF TypeOK
    <3>4. /\ iter' \in [at : {"size", "index", "send", "done"}, size : Nat, i : Nat, key : Keys \cup {NoKey}]
          /\ iter'.at = "send" /\ iter'.size = Size /\ iter'.i = iter.i /\ iter'.key = GetByIndex(iter.i)
      BY <1>1, <3>1, <3>2, <3>3 DEF TypeOK
    <3>5. Reads'
      BY <1>2, <1>3, <3>2, <3>4, SameTree DEF Reads
    <3>6. Closes'
      BY <1>1, <1>2, <3>1, <3>4 DEF Closes
    <3> QED
      BY <1>1, <1>2, <3>1, <3>3, <3>4, <3>5, <3>6 DEF TypeOK, store
  <2>3. CASE IterClose
    <3>1. /\ iter' = [iter EXCEPT !.at = "done"]
          /\ closed' = closed \cup {1} /\ iter.at = "index" /\ ~(iter.i < iter.size)
      BY <2>3 DEF IterClose, Asks, More
    <3>2. iter.size = Size /\ iter.i = Size
      BY <1>1, <1>2, <1>3, <3>1 DEF Reads
    <3>3. /\ iter' \in [at : {"size", "index", "send", "done"}, size : Nat, i : Nat, key : Keys \cup {NoKey}]
          /\ iter'.at = "done" /\ iter'.size = Size /\ iter'.i = iter.i
      BY <1>1, <3>1, <3>2 DEF TypeOK
    <3>4. Reads'
      BY <1>2, <1>3, <3>2, <3>3, SameTree DEF Reads
    <3>5. Closes'
      BY <1>1, <1>2, <3>1, <3>3 DEF Closes
    <3> QED
      BY <1>1, <3>1, <3>3, <3>4, <3>5 DEF TypeOK
  <2> QED
    BY <2>1, <2>2, <2>3
<1>5. TypeOK'
  BY <1>1, <1>2, <1>4 DEF TypeOK, store
<1>6. Flow'
  <2>1. Handed' = Handed
    BY <1>2, <1>4, SameHanded
  <2>2. \A k : Collects(k)' = Collects(k)
    BY <1>2 DEF Collects
  <2>3. \A j : Holds(j)' = Holds(j)
    BY <1>2 DEF Holds
  <2> QED
    BY <1>1, <1>2, <2>1, <2>2, <2>3, SameTree DEF Flow
<1>7. Answered'
  BY <1>1, <1>2 DEF Answered
<1> QED
  BY <1>1, <1>2, <1>4, <1>5, <1>6, <1>7 DEF IInv, TInv, store

\* What is left to show of a step of the checks.
LEMMA CheckStep ==
  ASSUME IInv, search # NoSearch, UNCHANGED <<store, link, up, search, answer>>,
         check' \in [Checks -> Slots],
         \A j \in Checks : check'[j].at \in {"check", "send"} => check'[j].key \in tree,
         iter' \in [at : {"size", "index", "send", "done"}, size : Nat, i : Nat, key : Keys \cup {NoKey}],
         iter'.at # "send" \/ iter' = iter,
         closed' \subseteq {1, 2, 3}, datas' \in Seq(tree),
         Reads', Closes', Flow'
  PROVE  IInv'
<1>1. TypeOK /\ IsFiniteSet(tree) /\ Answered
  BY DEF IInv, TInv
<1>2. datas' \in Seq(Keys)
  BY <1>1, SeqMonotonic DEF TypeOK
<1>3. TypeOK'
  BY <1>1, <1>2 DEF TypeOK, store, Slots
<1>4. Answered'
  BY <1>1 DEF Answered
<1> QED
  BY <1>1, <1>3, <1>4 DEF IInv, TInv, store

\* A check lets a key through, or drops it.
LEMMA DecideInv ==
  ASSUME IInv, NEW j \in Checks, Pass(j) \/ Drop(j)
  PROVE  IInv'
<1>1. TypeOK /\ IsFiniteSet(tree) /\ Reads /\ Closes /\ Flow
  BY DEF IInv, TInv
<1>2. /\ UNCHANGED <<store, link, up, search, answer, iter, closed, datas>>
      /\ search # NoSearch /\ check[j].at = "check"
      /\ NoKey \in Keys \cup {NoKey} /\ {"receive", "send"} \subseteq Places
  BY DEF Pass, Drop, At, Places
<1>3. Handed' = Handed /\ \A k : Collects(k)' = Collects(k)
  BY <1>2, SameHanded DEF Collects
<1>4. Reads'
  BY <1>1, <1>2, SameTree DEF Reads
<1>5. datas \in Seq(tree)
  BY <1>1, <1>2 DEF TypeOK
<1>6. ASSUME Pass(j)
      PROVE  IInv'
  <2>1. /\ check' \in [Checks -> Slots]
        /\ check'[j].at = "send" /\ check'[j].key = check[j].key
        /\ \A l \in Checks : l # j => check'[l] = check[l]
    BY <1>1, <1>2, <1>6, CheckForms DEF Pass
  <2>2. /\ j = 1 => FilterLookup(check[1].key)
        /\ j = 2 => Submitted[check[2].key] # NoForm /\ TimeRange(check[2].key)
    BY <1>6 DEF Pass, Passes, CheckPanics
  <2>3. \A l \in Checks : Holds(l)' = Holds(l) /\ check'[l].key = check[l].key
    BY <1>2, <2>1 DEF Holds
  <2>4. \A l \in Checks : check'[l].at = check[l].at \/ l = j
    BY <2>1
  <2>5. Flow'
    BY <1>1, <1>2, <1>3, <2>1, <2>2, <2>3, <2>4, SameTree DEF Flow, Checks
  <2>6. Closes'
    BY <1>1, <1>2, <2>1 DEF Closes, Checks
  <2>7. \A l \in Checks : check'[l].at \in {"check", "send"} => check'[l].key \in tree
    BY <1>1, <1>2, <2>1 DEF TypeOK
  <2> QED
    BY <1>1, <1>2, <1>4, <1>5, <2>1, <2>5, <2>6, <2>7, CheckStep DEF TypeOK
<1>7. ASSUME Drop(j)
      PROVE  IInv'
  <2>1. /\ check' \in [Checks -> Slots]
        /\ check'[j].at = "receive"
        /\ \A l \in Checks : l # j => check'[l] = check[l]
    BY <1>1, <1>2, <1>7, CheckForms DEF Drop
  <2>2. Drops(check[j].key)
    BY <1>1, <1>2, <1>7 DEF Drop, Passes, CheckPanics, Drops, Flow, Holds, FilterLookup, Checks
  <2>3. ~Holds(j)' /\ \A l \in Checks : l # j => Holds(l)' = Holds(l) /\ check'[l] = check[l]
    BY <2>1 DEF Holds
  <2>4. \A k \in Handed : Collects(k) \/ (\E l \in Checks : Holds(l)' /\ check'[l].key = k) \/ Drops(k)
    BY <1>1, <1>2, <2>2, <2>3 DEF Flow
  <2>5. Flow'
    BY <1>1, <1>2, <1>3, <2>1, <2>3, <2>4, SameTree DEF Flow, Checks
  <2>6. Closes'
    BY <1>1, <1>2, <2>1 DEF Closes, Checks
  <2>7. \A l \in Checks : check'[l].at \in {"check", "send"} => check'[l].key \in tree
    BY <1>1, <1>2, <2>1 DEF TypeOK
  <2> QED
    BY <1>1, <1>2, <1>4, <1>5, <2>1, <2>5, <2>6, <2>7, CheckStep DEF TypeOK
<1> QED
  BY <1>6, <1>7

\* A check finds its channel closed.
LEMMA CheckCloseInv ==
  ASSUME IInv, NEW j \in Checks, CheckClose(j)
  PROVE  IInv'
<1>1. TypeOK /\ IsFiniteSet(tree) /\ Reads /\ Closes /\ Flow
  BY DEF IInv, TInv
<1>2. /\ UNCHANGED <<store, link, up, search, answer, iter, datas>>
      /\ search # NoSearch /\ check[j].at = "receive" /\ j \in closed
      /\ closed' = closed \cup {j + 1}
      /\ "done" \in Places /\ NoKey \in Keys \cup {NoKey}
  BY DEF CheckClose, At, Places
<1>3. /\ check' \in [Checks -> Slots]
      /\ check'[j].at = "done" /\ check'[j].key = check[j].key
      /\ \A l \in Checks : l # j => check'[l] = check[l]
  BY <1>1, <1>2, CheckForms DEF CheckClose
<1>4. Handed' = Handed /\ \A k : Collects(k)' = Collects(k)
  BY <1>2, SameHanded DEF Collects
<1>5. Reads'
  BY <1>1, <1>2, SameTree DEF Reads
<1>6. datas \in Seq(tree) /\ closed' \subseteq {1, 2, 3}
  BY <1>1, <1>2 DEF TypeOK, Checks
<1>7. \A l \in Checks : Holds(l)' = Holds(l) /\ check'[l].key = check[l].key
  BY <1>2, <1>3 DEF Holds
<1>8. check'[1].at = "send" => check[1].at = "send"
  BY <1>3 DEF Checks
<1>9. check'[2].at = "send" => check[2].at = "send"
  BY <1>3 DEF Checks
<1>10. Flow'
  BY <1>1, <1>2, <1>4, <1>7, <1>8, <1>9, SameTree DEF Flow, Checks
<1>11. Closes'
  BY <1>1, <1>2, <1>3 DEF Closes, Checks
<1>12. \A l \in Checks : check'[l].at \in {"check", "send"} => check'[l].key \in tree
  BY <1>1, <1>2, <1>3 DEF TypeOK
<1> QED
  BY <1>1, <1>2, <1>3, <1>5, <1>6, <1>10, <1>11, <1>12, CheckStep DEF TypeOK

\* A key read is handed to the first check: it comes after every key before it.
LEMMA HandFirstInv ==
  ASSUME IInv, HandFirst
  PROVE  IInv'
<1>1. TypeOK /\ IsFiniteSet(tree) /\ Reads /\ Closes /\ Flow /\ tree \subseteq Nat
  BY SearchAssumption DEF IInv, TInv, TypeOK
<1>2. /\ UNCHANGED <<store, link, up, search, answer, closed, datas>>
      /\ search # NoSearch /\ iter.at = "send" /\ check[1].at = "receive"
      /\ iter' = [iter EXCEPT !.at = "index", !.i = @ + 1, !.key = NoKey]
      /\ check' = [check EXCEPT ![1] = [at |-> "check", key |-> iter.key]]
      /\ "check" \in Places /\ 1 \in Checks
  BY DEF HandFirst, Asks, At, Places, Checks
<1>3. Size \in Nat /\ iter.i \in 0 .. Size - 1 /\ iter.key = GetByIndex(iter.i) /\ iter.size = Size
  BY <1>1, <1>2, RankFacts DEF Reads
<1>4. iter.key \in tree /\ iter.key \in Keys
  BY <1>1, <1>2 DEF TypeOK
<1>5. /\ iter' \in [at : {"size", "index", "send", "done"}, size : Nat, i : Nat, key : Keys \cup {NoKey}]
      /\ iter'.at = "index" /\ iter'.i = iter.i + 1 /\ iter'.size = Size
  <2>1. iter.i + 1 \in Nat
    BY <1>3
  <2>2. iter' = [at |-> "index", size |-> Size, i |-> iter.i + 1, key |-> NoKey]
    BY <1>1, <1>2, <1>3 DEF TypeOK
  <2> QED
    BY <1>3, <2>1, <2>2
<1>6. /\ check' \in [Checks -> Slots]
      /\ check'[1].at = "check" /\ check'[1].key = iter.key
      /\ \A l \in Checks : l # 1 => check'[l] = check[l]
  BY <1>1, <1>2, <1>4, CheckForms
<1>7. Handed' = Handed \cup {iter.key}
  <2>1. Handed' = {GetByIndex(i) : i \in 0 .. iter.i}
    BY <1>2, <1>3, <1>5, SameTree DEF Handed
  <2>2. 0 .. iter.i = (0 .. iter.i - 1) \cup {iter.i}
    BY <1>3
  <2> QED
    BY <1>3, <2>1, <2>2 DEF Handed
<1>8. \A k \in Handed : k < iter.key
  BY <1>1, <1>3, HandedFacts
<1>9. Reads'
  BY <1>2, <1>3, <1>5, SameTree DEF Reads
<1>10. Closes'
  BY <1>1, <1>2, <1>5, <1>6 DEF Closes, Checks
<1>11. \A l \in Checks : check'[l].at \in {"check", "send"} => check'[l].key \in tree
  BY <1>1, <1>2, <1>4, <1>6 DEF TypeOK
<1>12. Flow'
  <2>1. /\ ~Holds(1) /\ Holds(1)' /\ check'[1].key = iter.key
        /\ \A l \in Checks : l # 1 => Holds(l)' = Holds(l) /\ check'[l] = check[l]
    BY <1>2, <1>6 DEF Holds
  <2>2. \A k : Collects(k)' = Collects(k)
    BY <1>2 DEF Collects
  <2>3. \A k \in Handed' : Collects(k) \/ (\E l \in Checks : Holds(l)' /\ check'[l].key = k) \/ Drops(k)
    BY <1>1, <1>2, <1>7, <2>1 DEF Flow
  <2>4. \A l \in Checks : Holds(l)' => check'[l].key \in Handed'
    BY <1>1, <1>2, <1>7, <2>1 DEF Flow
  <2>5. \A i \in DOMAIN datas : datas[i] \in Handed' /\ datas[i] < iter.key
    BY <1>1, <1>2, <1>7, <1>8 DEF Flow
  <2>6. Holds(2) => check[2].key < iter.key
    BY <1>1, <1>2, <1>8 DEF Flow, Checks
  <2>7. \A i \in DOMAIN datas, l \in Checks : Holds(l)' => datas[i] < check'[l].key
    BY <1>1, <1>2, <2>1, <2>5 DEF Flow
  <2> QED
    BY <1>1, <1>2, <1>6, <2>1, <2>2, <2>3, <2>4, <2>5, <2>6, <2>7, SameTree DEF Flow, Checks
<1> QED
  BY <1>1, <1>2, <1>5, <1>6, <1>9, <1>10, <1>11, <1>12, CheckStep DEF TypeOK

\* The first check hands its key to the second.
LEMMA HandSecondInv ==
  ASSUME IInv, HandSecond
  PROVE  IInv'
<1>1. TypeOK /\ IsFiniteSet(tree) /\ Reads /\ Closes /\ Flow
  BY DEF IInv, TInv
<1>2. /\ UNCHANGED <<store, link, up, search, answer, iter, closed, datas>>
      /\ search # NoSearch /\ check[1].at = "send" /\ check[2].at = "receive"
      /\ check' = [check EXCEPT ![1] = [at |-> "receive", key |-> NoKey],
                                ![2] = [at |-> "check", key |-> check[1].key]]
  BY DEF HandSecond, At
<1>3. check[1].key \in tree /\ check[1].key \in Keys
  BY <1>1, <1>2 DEF TypeOK, Checks
<1>4. /\ check' \in [Checks -> Slots]
      /\ check'[1].at = "receive" /\ check'[2].at = "check" /\ check'[2].key = check[1].key
  <2>1. [at |-> "receive", key |-> NoKey] \in Slots /\ [at |-> "check", key |-> check[1].key] \in Slots
    BY <1>3 DEF Slots, Places
  <2> QED
    BY <1>1, <1>2, <2>1 DEF TypeOK, Checks, Slots
<1>5. Handed' = Handed /\ \A k : Collects(k)' = Collects(k)
  BY <1>2, SameHanded DEF Collects
<1>6. Reads'
  BY <1>1, <1>2, SameTree DEF Reads
<1>7. Closes'
  BY <1>1, <1>2, <1>4 DEF Closes
<1>8. \A l \in Checks : check'[l].at \in {"check", "send"} => check'[l].key \in tree
  BY <1>3, <1>4 DEF Checks
<1>9. Flow'
  <2>1. Holds(1) /\ ~Holds(2) /\ ~Holds(1)' /\ Holds(2)'
    BY <1>2, <1>4 DEF Holds
  <2>2. \A k \in Handed : Collects(k) \/ (\E l \in Checks : Holds(l)' /\ check'[l].key = k) \/ Drops(k)
    BY <1>1, <1>2, <1>4, <2>1 DEF Flow, Checks
  <2> QED
    BY <1>1, <1>2, <1>4, <1>5, <2>1, <2>2, SameTree DEF Flow, Checks
<1>10. datas \in Seq(tree)
  BY <1>1, <1>2 DEF TypeOK
<1> QED
  BY <1>1, <1>2, <1>4, <1>6, <1>7, <1>8, <1>9, <1>10, CheckStep DEF TypeOK

\* The second check hands its key to IterResult, which puts it at the end.
LEMMA HandResultInv ==
  ASSUME IInv, HandResult
  PROVE  IInv'
<1>1. TypeOK /\ IsFiniteSet(tree) /\ Reads /\ Closes /\ Flow
  BY DEF IInv, TInv
<1>2. /\ UNCHANGED <<store, link, up, search, answer, iter, closed>>
      /\ search # NoSearch /\ check[2].at = "send"
      /\ datas' = Append(datas, check[2].key)
      /\ check' = [check EXCEPT ![2] = [at |-> "receive", key |-> NoKey]]
      /\ "receive" \in Places /\ 2 \in Checks
  BY DEF HandResult, At, Places, Checks
<1>3. check[2].key \in tree /\ datas \in Seq(tree)
  BY <1>1, <1>2 DEF TypeOK, Checks
<1>4. /\ check' \in [Checks -> Slots]
      /\ check'[2].at = "receive"
      /\ \A l \in Checks : l # 2 => check'[l] = check[l]
  BY <1>1, <1>2, CheckForms
<1> DEFINE n == Len(datas)
<1>5. /\ datas' \in Seq(tree)
      /\ n \in Nat /\ DOMAIN datas = 1 .. n /\ DOMAIN datas' = 1 .. n + 1
      /\ datas'[n + 1] = check[2].key
      /\ \A i \in 1 .. n : datas'[i] = datas[i]
  BY <1>2, <1>3, AppendProperties, LenProperties
<1>6. Handed' = Handed
  BY <1>2, SameHanded
<1>7. Reads'
  BY <1>1, <1>2, SameTree DEF Reads
<1>8. Closes'
  BY <1>1, <1>2, <1>4 DEF Closes, Checks
<1>9. \A l \in Checks : check'[l].at \in {"check", "send"} => check'[l].key \in tree
  BY <1>1, <1>2, <1>4 DEF TypeOK
<1>10. Flow'
  <2>1. Holds(2) /\ ~Holds(2)' /\ Holds(1)' = Holds(1) /\ check'[1] = check[1]
    BY <1>2, <1>4 DEF Holds, Checks
  <2>2. \A k : Collects(k)' <=> Collects(k) \/ k = check[2].key
    <3>1. ASSUME NEW k, Collects(k)
          PROVE  Collects(k)'
      BY <1>5, <3>1 DEF Collects
    <3>2. ASSUME NEW k, k = check[2].key
          PROVE  Collects(k)'
      <4>1. n + 1 \in DOMAIN datas'
        BY <1>5
      <4> QED
        BY <1>5, <3>2, <4>1 DEF Collects
    <3>3. ASSUME NEW k, Collects(k)', k # check[2].key
          PROVE  Collects(k)
      <4>1. PICK i \in 1 .. n + 1 : datas'[i] = k
        BY <1>5, <3>3 DEF Collects
      <4>2. i \in 1 .. n
        BY <1>5, <3>3, <4>1
      <4> QED
        BY <1>5, <4>1, <4>2 DEF Collects
    <3> QED
      BY <3>1, <3>2, <3>3
  <2>3. \A k \in Handed : Collects(k)' \/ (\E l \in Checks : Holds(l)' /\ check'[l].key = k) \/ Drops(k)
    BY <1>1, <1>2, <2>1, <2>2 DEF Flow, Checks
  <2>4. \A i \in DOMAIN datas' :
          /\ datas'[i] \in Handed
          /\ FilterLookup(datas'[i]) /\ Submitted[datas'[i]] # NoForm /\ TimeRange(datas'[i])
    <3> SUFFICES ASSUME NEW i \in 1 .. n + 1
                 PROVE  /\ datas'[i] \in Handed
                        /\ FilterLookup(datas'[i]) /\ Submitted[datas'[i]] # NoForm /\ TimeRange(datas'[i])
      BY <1>5
    <3>1. CASE i = n + 1
      BY <1>1, <1>2, <1>5, <2>1, <3>1 DEF Flow
    <3>2. CASE i \in 1 .. n
      BY <1>1, <1>2, <1>5, <3>2 DEF Flow
    <3> QED
      BY <1>5, <3>1, <3>2
  <2>5. \A i, j \in DOMAIN datas' : i < j => datas'[i] < datas'[j]
    <3> SUFFICES ASSUME NEW i \in 1 .. n + 1, NEW j \in 1 .. n + 1, i < j
                 PROVE  datas'[i] < datas'[j]
      BY <1>5
    <3>1. i \in 1 .. n
      BY <1>5
    <3>2. CASE j = n + 1
      BY <1>1, <1>2, <1>5, <2>1, <3>1, <3>2 DEF Flow
    <3>3. CASE j \in 1 .. n
      BY <1>1, <1>2, <1>5, <3>1, <3>3 DEF Flow
    <3> QED
      BY <1>5, <3>2, <3>3
  <2>6. \A i \in DOMAIN datas' : Holds(1)' => datas'[i] < check'[1].key
    <3> SUFFICES ASSUME NEW i \in 1 .. n + 1, Holds(1)'
                 PROVE  datas'[i] < check'[1].key
      BY <1>5
    <3>1. CASE i = n + 1
      BY <1>1, <1>2, <1>5, <2>1, <3>1 DEF Flow
    <3>2. CASE i \in 1 .. n
      BY <1>1, <1>2, <1>5, <2>1, <3>2 DEF Flow, Checks
    <3> QED
      BY <1>5, <3>1, <3>2
  <2> QED
    BY <1>1, <1>2, <1>4, <1>6, <2>1, <2>3, <2>4, <2>5, <2>6, SameTree DEF Flow, Checks
<1> QED
  BY <1>1, <1>2, <1>4, <1>5, <1>7, <1>8, <1>9, <1>10, CheckStep DEF TypeOK

\* What IterResult knows when its channel is closed: every key was read, and
\* the forms found are those that neither check has a reason to drop.
LEMMA AnswerFacts ==
  ASSUME IInv, Answer
  PROVE  /\ \A i \in DOMAIN datas :
              /\ datas[i] \in tree
              /\ FilterLookup(datas[i]) /\ Submitted[datas[i]] # NoForm /\ TimeRange(datas[i])
         /\ \A k \in tree : Collects(k) \/ Drops(k)
         /\ \A i, j \in DOMAIN datas : i < j => datas[i] < datas[j]
<1>1. TypeOK /\ IsFiniteSet(tree) /\ Reads /\ Closes /\ Flow /\ tree \subseteq Nat
  BY SearchAssumption DEF IInv, TInv, TypeOK
<1>2. search # NoSearch /\ 3 \in closed
  BY DEF Answer, Collected
<1>3. iter.at = "done" /\ check[1].at = "done" /\ check[2].at = "done"
  BY <1>1, <1>2 DEF Closes
<1>4. iter.i \in 0 .. Size /\ iter.i = Size
  BY <1>1, <1>2, <1>3 DEF Reads
<1>5. Handed = tree
  BY <1>1, <1>4, HandedFacts
<1>6. \A j \in Checks : ~Holds(j)
  BY <1>3 DEF Holds, Checks
<1> QED
  BY <1>1, <1>2, <1>5, <1>6 DEF Flow

\* The answer ends the search.
LEMMA AnswerInv ==
  ASSUME IInv, Answer
  PROVE  IInv'
<1>1. TypeOK /\ IsFiniteSet(tree) /\ Reads /\ Closes
  BY DEF IInv, TInv
<1>2. /\ UNCHANGED <<tree, hits, link, up, iter, check, closed, datas>>
      /\ search # NoSearch /\ search' = NoSearch
      /\ answer' = [search |-> search, keys |-> datas]
      /\ 3 \in closed
  BY DEF Answer, store, pipe, Collected
<1>3. search \in Searches /\ datas \in Seq(tree)
  BY <1>1, <1>2 DEF TypeOK
<1>4. answer'.search = search /\ answer'.keys = datas
  BY <1>2
<1>5. TypeOK'
  BY <1>1, <1>2, <1>3, <1>4 DEF TypeOK
<1>6. Reads' /\ Flow'
  BY <1>2 DEF Reads, Flow
<1>7. Closes'
  BY <1>1, <1>2 DEF Closes
<1>8. \A i \in DOMAIN datas : Submitted[datas[i]] # NoForm /\ Promise!InRange(search, datas[i])
  BY AnswerFacts DEF TimeRange, Promise!InRange, Promise!ParseMinuteString, Promise!ParseMomentString, Promise!Date, ParseMinuteString, ParseMomentString, Date
<1>9. Answered'
  BY <1>2, <1>4, <1>8 DEF Answered, Promise!InRange
<1> QED
  BY <1>1, <1>2, <1>5, <1>6, <1>7, <1>9 DEF IInv, TInv

\* Every step keeps the invariant.
LEMMA StepInv == IInv /\ [Next]_vars => IInv'
<1> SUFFICES ASSUME IInv, [Next]_vars
             PROVE  IInv'
  OBVIOUS
<1>1. link \in BOOLEAN /\ up \in BOOLEAN
  BY DEF IInv, TInv, TypeOK
<1>2. CASE UNCHANGED vars
  BY <1>1, <1>2, SameInv DEF vars, store, pipe
<1>3. CASE Break
  BY <1>1, <1>3, SameInv DEF Break
<1>4. CASE \E s \in Searches : Ask(s)
  BY <1>4, AskInv
<1>5. CASE Step
  <2>1. CASE QuerySize \/ QueryIndex \/ IterClose
    BY <2>1, QueryInv
  <2>2. CASE QueryFails
    BY <1>1, <2>2, SameInv DEF QueryFails
  <2>3. CASE HandFirst \/ HandSecond \/ HandResult
    BY <2>3, HandFirstInv, HandSecondInv, HandResultInv
  <2>4. CASE \E j \in Checks : Pass(j) \/ Drop(j) \/ CheckClose(j)
    BY <2>4, DecideInv, CheckCloseInv
  <2>5. CASE \E j \in Checks : Panic(j)
    BY <1>1, <2>5, SameInv DEF Panic
  <2>6. CASE Answer
    BY <2>6, AnswerInv
  <2> QED
    BY <1>5, <2>1, <2>2, <2>3, <2>4, <2>5, <2>6 DEF Step
<1>6. CASE \/ \E k \in AccountKeys : SetAccount(k)
           \/ \E k \in FormIDs, issue \in Issues : SubmitForm(k, issue)
           \/ \E k \in Keys : OtherSets(k) \/ OtherRemoves(k)
  BY <1>6, RequestsInv
<1> QED
  BY <1>2, <1>3, <1>4, <1>5, <1>6 DEF Next

\* IInv is inductive.
THEOREM Invariance == Spec => []IInv
  BY InitInv, StepInv, PTL DEF Spec

-----------------------------------------------------------------------------
(* What follows from it *)

\* Every variable has its type; a check never holds, and IterResult never
\* collects, a key that is not in the tree.
THEOREM TypesCorrect == Spec => []TypeOK
<1>1. IInv => TypeOK
  BY DEF IInv, TInv
<1> QED
  BY <1>1, Invariance, PTL

\* A search that is answered leaves no goroutine of its own behind.
THEOREM GoroutinesEnd == Spec => []NoGoroutineLeft
<1>1. IInv => NoGoroutineLeft
  BY DEF IInv, TInv, TypeOK, Closes, Answered, NoGoroutineLeft, Checks
<1> QED
  BY <1>1, Invariance, PTL

\* Whatever the order the stages work in, no key is lost, answered twice or
\* answered out of order.
THEOREM KeysAccountedFor == Spec => []NothingLost
<1>1. IInv => NothingLost
  <2> SUFFICES ASSUME IInv, search # NoSearch, search.issue \in Issues
               PROVE  NothingLost
    BY DEF NothingLost
  <2> DEFINE waiting == InHand(1, "check") \cup InHand(1, "send") \cup InHand(2, "check") \cup InHand(2, "send")
             through == {datas[i] : i \in DOMAIN datas}
  <2>1. Flow
    BY DEF IInv
  <2>2. \A k : k \in waiting <=> \E j \in Checks : Holds(j) /\ check[j].key = k
    BY DEF InHand, Holds, Checks
  <2>3. \A k : k \in through <=> Collects(k)
    BY DEF Collects
  <2>4. through \cup waiting \subseteq Handed
    BY <2>1, <2>2 DEF Flow
  <2>5. \A k \in Handed \ waiting :
          k \in through <=> (FilterLookup(k) /\ Submitted[k] # NoForm /\ TimeRange(k))
    BY <2>1, <2>2, <2>3 DEF Flow, Drops
  <2>6. \A i, j \in DOMAIN datas : i < j => datas[i] < datas[j]
    BY <2>1 DEF Flow
  <2>7. \A k \in through, w \in waiting : k < w
    BY <2>1, <2>2 DEF Flow
  <2> QED
    BY <2>4, <2>5, <2>6, <2>7 DEF NothingLost
<1> QED
  BY <1>1, Invariance, PTL

-----------------------------------------------------------------------------
(* The pipeline implements Search *)

\* Steps of the stages change nothing that Search speaks of.
LEMMA StutterStep ==
  ASSUME \/ QuerySize \/ QueryIndex \/ IterClose \/ HandFirst \/ HandSecond \/ HandResult
         \/ \E j \in Checks : Pass(j) \/ Drop(j) \/ CheckClose(j)
  PROVE  UNCHANGED Promise!vars
  BY DEF QuerySize, QueryIndex, IterClose, HandFirst, HandSecond, HandResult, Pass, Drop, CheckClose,
         Promise!vars, store

\* The process ends only where Search says so.
LEMMA DieStep ==
  ASSUME IInv, QueryFails \/ \E j \in Checks : Panic(j)
  PROVE  Promise!Die
<1>1. TypeOK /\ Flow
  BY DEF IInv, TInv
<1>2. CASE QueryFails
  BY <1>2 DEF QueryFails, Asks, Promise!Die, store
<1>3. ASSUME NEW j \in Checks, Panic(j)
      PROVE  Promise!Die
  <2>1. /\ up /\ search # NoSearch /\ check[j].at = "check" /\ up' = FALSE
        /\ UNCHANGED <<tree, hits, link, search, answer>>
    BY <1>3 DEF Panic, At, store
  <2>2. check[j].key \in tree
    BY <1>1, <2>1 DEF TypeOK
  <2>3. Promise!Stops(search, check[j].key)
    <3>1. CASE j = 1
      BY <1>3, <3>1 DEF Panic, CheckPanics, Promise!Stops
    <3>2. CASE j = 2
      <4>1. FilterLookup(check[2].key)
        BY <1>1, <2>1, <3>2 DEF Flow, Holds
      <4> QED
        BY <1>3, <3>2, <4>1 DEF Panic, CheckPanics, FilterLookup, Promise!Stops
    <3> QED
      BY <3>1, <3>2 DEF Checks
  <2> QED
    BY <2>1, <2>2, <2>3 DEF Promise!Die
<1> QED
  BY <1>2, <1>3

\* The answer is what Search promises.
LEMMA AnswerStep ==
  ASSUME IInv, Answer
  PROVE  Promise!Answer
<1>1. /\ UNCHANGED <<tree, hits, link, up>>
      /\ up /\ search # NoSearch /\ search' = NoSearch
      /\ answer'.search = search /\ answer'.keys = datas
  BY DEF Answer, store
<1>2. \A k : TimeRange(k) <=> Promise!InRange(search, k)
  BY DEF TimeRange, Promise!InRange, Promise!ParseMinuteString, Promise!ParseMomentString, Promise!Date,
         ParseMinuteString, ParseMomentString, Date
<1>3. \A k \in tree : ~Promise!Stops(search, k)
  <2> SUFFICES ASSUME NEW k \in tree
               PROVE  ~Promise!Stops(search, k)
    OBVIOUS
  <2>1. CASE Collects(k)
    BY <2>1, AnswerFacts DEF Collects, FilterLookup, Promise!Stops
  <2>2. CASE Drops(k)
    BY <2>2 DEF Drops, FilterLookup, Promise!Stops
  <2> QED
    BY <2>1, <2>2, AnswerFacts
<1>4. {datas[i] : i \in DOMAIN datas} = {k \in tree : Promise!Matches(search, k)}
  <2>1. \A i \in DOMAIN datas : datas[i] \in tree /\ Promise!Matches(search, datas[i])
    BY <1>2, AnswerFacts DEF FilterLookup, Promise!Matches
  <2>2. \A k \in tree : Promise!Matches(search, k) => ~Drops(k)
    BY <1>2 DEF Drops, FilterLookup, Promise!Matches
  <2>3. \A k \in tree : Promise!Matches(search, k) => \E i \in DOMAIN datas : datas[i] = k
    BY <2>2, AnswerFacts DEF Collects
  <2> QED
    BY <2>1, <2>3
<1>5. \A i, j \in DOMAIN datas : i < j => datas[i] < datas[j]
  BY AnswerFacts
<1>6. Promise!Answers(search, answer'.keys)
  BY <1>1, <1>4, <1>5 DEF Promise!Answers
<1> QED
  BY <1>1, <1>3, <1>6 DEF Promise!Answer

\* Each request between two searches is a change that Search allows.
LEMMA ChangeStep ==
  ASSUME IInv,
         \/ \E k \in AccountKeys : SetAccount(k)
         \/ \E k \in FormIDs, issue \in Issues : SubmitForm(k, issue)
         \/ \E k \in Keys : OtherSets(k) \/ OtherRemoves(k)
  PROVE  Promise!Change
<1>1. tree' \subseteq Keys
  BY RequestsInv DEF IInv, TInv, TypeOK
<1>2. /\ up /\ search = NoSearch /\ answer' = NoAnswer
      /\ UNCHANGED <<link, up, search>>
  BY DEF SetAccount, SubmitForm, OtherSets, OtherRemoves, Idle
<1>3. \A issue \in Issues : hits[issue] \subseteq hits'[issue]
  <2>1. CASE \E k \in FormIDs, issue \in Issues : SubmitForm(k, issue)
    <3>1. PICK k \in FormIDs, issue \in Issues : SubmitForm(k, issue)
      BY <2>1
    <3>2. PICK other \in Keys : hits' = [hits EXCEPT ![issue] = @ \cup {k, other}]
      BY <3>1 DEF SubmitForm
    <3> QED
      BY <3>2 DEF IInv, TInv, TypeOK
  <2>2. CASE hits' = hits
    BY <2>2
  <2> QED
    BY <2>1, <2>2 DEF SetAccount, OtherSets, OtherRemoves
<1> QED
  BY <1>1, <1>2, <1>3 DEF Promise!Change

\* Every step is one of the promise, or changes nothing it speaks of.
LEMMA StepImplements == IInv /\ [Next]_vars => [Promise!Next]_Promise!vars
<1> SUFFICES ASSUME IInv, [Next]_vars
             PROVE  [Promise!Next]_Promise!vars
  OBVIOUS
<1>1. CASE UNCHANGED vars
  BY <1>1 DEF vars, Promise!vars
<1>2. CASE Break
  BY <1>2 DEF Break, Promise!Break, Promise!Next, store
<1>3. CASE \E s \in Searches : Ask(s)
  BY <1>3 DEF Ask, Idle, Promise!Ask, Promise!Next, store
<1>4. CASE Step
  BY <1>4, StutterStep, DieStep, AnswerStep DEF Step, Promise!Next
<1>5. CASE \/ \E k \in AccountKeys : SetAccount(k)
           \/ \E k \in FormIDs, issue \in Issues : SubmitForm(k, issue)
           \/ \E k \in Keys : OtherSets(k) \/ OtherRemoves(k)
  BY <1>5, ChangeStep DEF Promise!Next
<1> QED
  BY <1>1, <1>2, <1>3, <1>4, <1>5 DEF Next

\* The goroutines and channels of a search implement its promise: the keys of
\* the tree that match, all of them and in order, or the end of the process
\* where a key that is no form is found, or where nothing answers.
THEOREM PipelineImplementsSearch == Spec => ImplementsSearch
<1>1. Init => Promise!Init
  BY DEF Init, Promise!Init
<1> QED
  BY <1>1, Invariance, StepImplements, PTL DEF Spec, ImplementsSearch, Promise!Spec

=============================================================================
