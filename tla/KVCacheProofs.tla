---------------------------- MODULE KVCacheProofs ----------------------------
(***************************************************************************)
(* Proofs about KVCache, for any set of keys and values.                   *)
(***************************************************************************)
EXTENDS KVCache, SequenceTheorems, TLAPS

-----------------------------------------------------------------------------
(* The order of the keys *)

LEMMA OrderFacts ==
  ASSUME TypeOK
  PROVE  /\ order \in Seq(Keys)
         /\ Len(order) \in Nat
         /\ DOMAIN order = 1 .. Len(order)
         /\ \A i \in 1 .. Len(order) : order[i] \in Keys
         /\ order = <<>> <=> Len(order) = 0
  BY LenProperties, EmptySeq, ElementOfSeq DEF TypeOK

\* A key that is set again leaves its place p and goes to the end.
Moved(k, p) ==
  /\ p \in 1 .. Len(order)
  /\ order[p] = k
  /\ \A q \in 1 .. Len(order) : order[q] = k => q = p
  /\ order' \in Seq(Keys)
  /\ Len(order') = Len(order)
  /\ \A i \in 1 .. Len(order) :
       order'[i] = IF i < p THEN order[i]
                   ELSE IF i < Len(order) THEN order[i + 1] ELSE k

\* A key that is new goes to the end.
Added(k) ==
  /\ \A q \in 1 .. Len(order) : order[q] # k
  /\ order' \in Seq(Keys)
  /\ Len(order') = Len(order) + 1
  /\ \A i \in 1 .. Len(order) : order'[i] = order[i]
  /\ order'[Len(order) + 1] = k

LEMMA TouchedMoves ==
  ASSUME TypeOK, OrderOfMap, NEW k \in kvm, order' = Touched(k)
  PROVE  \E p \in 1 .. Len(order) : Moved(k, p)
<1> DEFINE n == Len(order)
           p == CHOOSE i \in DOMAIN order : order[i] = k
           f == [i \in DOMAIN order |-> IF i < p THEN order[i]
                                        ELSE IF i < n THEN order[i + 1] ELSE k]
<1>1. n \in Nat /\ DOMAIN order = 1 .. n /\ k \in Keys
  BY OrderFacts DEF TypeOK
<1>2. \E i \in DOMAIN order : order[i] = k
  BY DEF OrderOfMap, Elements
<1>3. p \in 1 .. n /\ order[p] = k
  BY <1>1, <1>2
<1>4. \A q \in 1 .. n : order[q] = k => q = p
  BY <1>1, <1>3 DEF OrderOfMap
<1>5. order' = f
  BY DEF Touched
<1>6. \A i \in 1 .. n : f[i] \in Keys
  BY <1>1, OrderFacts
<1>7. f \in [1 .. n -> Keys]
  BY <1>1, <1>6
<1>8. order' \in Seq(Keys) /\ Len(order') = n
  BY <1>1, <1>5, <1>7, SeqDef, LenProperties
<1> QED
  BY <1>1, <1>3, <1>4, <1>5, <1>8 DEF Moved

LEMMA TouchedAdds ==
  ASSUME TypeOK, OrderOfMap, NEW k \in Keys \ kvm, order' = Touched(k)
  PROVE  Added(k)
<1>1. order' = Append(order, k)
  BY DEF Touched
<1>2. \A q \in 1 .. Len(order) : order[q] # k
  BY OrderFacts DEF OrderOfMap, Elements
<1> QED
  BY <1>1, <1>2, OrderFacts, AppendProperties DEF Added

LEMMA OrderAfter ==
  ASSUME TypeOK'
  PROVE  /\ DOMAIN order' = 1 .. Len(order')
         /\ Len(order') \in Nat
         /\ order' = <<>> <=> Len(order') = 0
  BY LenProperties, EmptySeq DEF TypeOK

\* Either way the order still lists the keys of the map, each once.
LEMMA SetKeepsOrderOfMap ==
  ASSUME TypeOK, TypeOK', OrderOfMap, NEW k \in Keys, kvm' = kvm \cup {k},
         order' = Touched(k)
  PROVE  OrderOfMap'
<1> DEFINE n == Len(order)
<1>0. n \in Nat /\ DOMAIN order = 1 .. n /\ kvm = {order[i] : i \in 1 .. n}
  BY OrderFacts DEF OrderOfMap, Elements
<1>1. \A i, j \in 1 .. n : order[i] = order[j] => i = j
  BY <1>0 DEF OrderOfMap
<1>2. CASE k \in kvm
  <2>1. PICK p \in 1 .. n : Moved(k, p)
    BY <1>2, TouchedMoves
  <2>2. DOMAIN order' = 1 .. n
    BY <2>1, OrderAfter DEF Moved
  <2>3. \A x \in kvm' : \E i \in 1 .. n : order'[i] = x
    <3> TAKE x \in kvm'
    <3>1. PICK q \in 1 .. n : order[q] = x
      BY <1>0, <1>2
    <3>2. CASE q < p
      BY <1>0, <2>1, <3>1, <3>2 DEF Moved
    <3>3. CASE q = p
      <4>1. order'[n] = k /\ n \in 1 .. n
        BY <1>0, <2>1 DEF Moved
      <4> QED
        BY <4>1, <3>1, <3>3, <2>1 DEF Moved
    <3>4. CASE q > p
      <4>1. q - 1 \in 1 .. n /\ ~(q - 1 < p) /\ q - 1 < n /\ q - 1 + 1 = q
        BY <1>0, <3>4
      <4> QED
        BY <4>1, <2>1, <3>1 DEF Moved
    <3> QED
      BY <3>2, <3>3, <3>4
  <2>4. \A i \in 1 .. n : order'[i] \in kvm'
    BY <1>0, <1>2, <2>1 DEF Moved
  <2>5. \A i, j \in 1 .. n : order'[i] = order'[j] => i = j
    BY <1>0, <1>1, <2>1 DEF Moved
  <2>6. kvm' = {order'[i] : i \in DOMAIN order'}
    BY <2>2, <2>3, <2>4
  <2> QED
    BY <2>2, <2>5, <2>6 DEF OrderOfMap, Elements
<1>3. CASE k \notin kvm
  <2>1. Added(k)
    BY <1>3, TouchedAdds
  <2>2. DOMAIN order' = 1 .. n + 1
    BY <2>1, OrderAfter DEF Added
  <2>3. \A x \in kvm' : \E i \in 1 .. n + 1 : order'[i] = x
    BY <1>0, <2>1 DEF Added
  <2>4. \A i \in 1 .. n + 1 : order'[i] \in kvm'
    BY <1>0, <2>1 DEF Added
  <2>5. \A i, j \in 1 .. n + 1 : order'[i] = order'[j] => i = j
    BY <1>0, <1>1, <2>1 DEF Added
  <2>6. kvm' = {order'[i] : i \in DOMAIN order'}
    BY <2>2, <2>3, <2>4
  <2> QED
    BY <2>2, <2>5, <2>6 DEF OrderOfMap, Elements
<1> QED
  BY <1>2, <1>3

-----------------------------------------------------------------------------
(* The pointers *)

\* What a step of the list leaves of types.
ListTyped ==
  /\ head \in Pointer /\ tail \in Pointer
  /\ next \in [Keys -> Pointer]
  /\ prev \in [Keys -> Pointer]
  /\ val \in [Keys -> Value]

LEMMA UpdateHasType ==
  ASSUME TypeOK, NEW k \in Keys, NEW v \in Value, Update(k, v)
  PROVE  ListTyped'
<1>1. CASE UpdateTail(k, v)
  BY <1>1 DEF UpdateTail, ListTyped, TypeOK
<1>2. CASE UpdateHead(k, v)
  BY <1>2 DEF UpdateHead, ListTyped, TypeOK, Pointer
<1>3. CASE UpdateMiddle(k, v)
  BY <1>3 DEF UpdateMiddle, ListTyped, TypeOK, Pointer
<1> QED
  BY <1>1, <1>2, <1>3 DEF Update

LEMMA PushHasType ==
  ASSUME TypeOK, NEW k \in Keys, NEW v \in Value, Push(k, v)
  PROVE  ListTyped'
  BY DEF Push, ListTyped, TypeOK, Pointer

\* A key that is added: Push links it behind the old tail.
LEMMA PushKeepsLinks ==
  ASSUME TypeOK, ListIsOrder, NEW k \in Keys, NEW v \in Value, Push(k, v), Added(k),
         TypeOK'
  PROVE  Ends' /\ Links'
<1> DEFINE n == Len(order)
<1>0. n \in Nat
  BY OrderFacts
<1>1. /\ n \in Nat /\ DOMAIN order = 1 .. n /\ (order = <<>> <=> n = 0)
      /\ \A i \in 1 .. n : order[i] \in Keys
  BY OrderFacts
<1>2. /\ Len(order') = n + 1 /\ DOMAIN order' = 1 .. n + 1 /\ order' # <<>>
      /\ order'[n + 1] = k
      /\ \A i \in 1 .. n : order'[i] = order[i] /\ order[i] # k
  BY <1>1, OrderAfter DEF Added
<1>3. \A i, j \in 1 .. n : order[i] = order[j] => i = j
  BY <1>1 DEF ListIsOrder, OrderOfMap
<1>4. CASE n = 0
  <2>1. head = Nil
    BY <1>1, <1>4 DEF ListIsOrder, Ends
  <2>2. head' = k /\ tail' = k /\ next'[k] = Nil /\ prev'[k] = Nil
    BY <2>1 DEF Push, TypeOK
  <2> QED
    BY <1>1, <1>2, <1>4, <2>2 DEF Ends, Links
<1>5. CASE n > 0
  <2>1. head = order[1] /\ tail = order[n] /\ head # Nil /\ tail \in Keys /\ tail # k
    BY <1>1, <1>2, <1>5, NilAssumption DEF ListIsOrder, Ends
  <2>2. /\ head' = order[1] /\ tail' = k
        /\ next'[k] = Nil /\ next'[order[n]] = k /\ prev'[k] = order[n]
        /\ \A x \in Keys \ {k, order[n]} : next'[x] = next[x]
        /\ \A x \in Keys \ {k} : prev'[x] = prev[x]
    BY <2>1 DEF Push, TypeOK
  <2>3. Ends'
    BY <1>1, <1>2, <1>5, <2>2 DEF Ends
  <2>4. ASSUME NEW i \in 1 .. n
        PROVE  /\ next'[order'[i]] = order'[i + 1]
               /\ prev'[order'[i]] = IF i = 1 THEN Nil ELSE order'[i - 1]
    <3>1. /\ order'[i] = order[i] /\ order[i] \in Keys \ {k}
          /\ next[order[i]] = IF i = n THEN Nil ELSE order[i + 1]
          /\ prev[order[i]] = IF i = 1 THEN Nil ELSE order[i - 1]
      BY <1>1, <1>2 DEF ListIsOrder, Links
    <3>0. i # 1 => order'[i - 1] = order[i - 1]
      <4>1. i # 1 => i - 1 \in 1 .. n
        BY <1>1
      <4> QED
        BY <1>2, <4>1
    <3>2. prev'[order'[i]] = IF i = 1 THEN Nil ELSE order'[i - 1]
      BY <2>2, <3>0, <3>1
    <3>3. CASE i = n
      BY <1>2, <2>2, <3>1, <3>2, <3>3
    <3>4. CASE i < n
      <4>1. order[i] # order[n]
        BY <1>1, <1>3, <3>4
      <4>2. i + 1 \in 1 .. n /\ i # n
        BY <1>0, <3>4
      <4>3. order'[i + 1] = order[i + 1]
        BY <1>2, <4>2
      <4> QED
        BY <2>2, <3>1, <3>2, <4>1, <4>2, <4>3
    <3>5. i \in Nat /\ (i = n \/ i < n)
      BY <1>0
    <3> QED
      BY <3>2, <3>3, <3>4, <3>5
  <2>5. /\ next'[order'[n + 1]] = Nil
        /\ prev'[order'[n + 1]] = order'[n]
    BY <1>1, <1>2, <1>5, <2>2
  <2>6. Links'
    BY <1>1, <1>2, <1>5, <2>4, <2>5 DEF Links
  <2> QED
    BY <2>3, <2>6
<1> QED
  BY <1>1, <1>4, <1>5

\* A key that is set again: Update unlinks its node and links it at the tail.
LEMMA UpdateKeepsLinks ==
  ASSUME TypeOK, ListIsOrder, NEW k \in Keys, NEW v \in Value, Update(k, v),
         NEW p \in 1 .. Len(order), Moved(k, p), TypeOK'
  PROVE  Ends' /\ Links'
<1> DEFINE n == Len(order)
<1>0. n \in Nat /\ n > 0 /\ p \in Nat /\ 1 <= p /\ p <= n
  BY OrderFacts
<1>1. /\ DOMAIN order = 1 .. n /\ order # <<>>
      /\ \A i \in 1 .. n : order[i] \in Keys
  BY <1>0, OrderFacts
<1>2. /\ Len(order') = n /\ DOMAIN order' = 1 .. n /\ order' # <<>>
  BY <1>0, OrderAfter DEF Moved
<1>3. \A i, j \in 1 .. n : order[i] = order[j] => i = j
  BY <1>1 DEF ListIsOrder, OrderOfMap
<1>4. /\ \A i \in 1 .. n : i < p => order'[i] = order[i]
      /\ \A i \in 1 .. n : i >= p /\ i < n => order'[i] = order[i + 1]
      /\ order'[n] = k
      /\ order[p] = k
  <2>1. n \in 1 .. n
    BY <1>0
  <2> QED
    BY <1>0, <2>1 DEF Moved
<1>5. /\ head = order[1] /\ tail = order[n]
      /\ \A i \in 1 .. n : /\ next[order[i]] = IF i = n THEN Nil ELSE order[i + 1]
                           /\ prev[order[i]] = IF i = 1 THEN Nil ELSE order[i - 1]
  BY <1>1 DEF ListIsOrder, Ends, Links
<1>6. 1 \in 1 .. n /\ n \in 1 .. n
  BY <1>0
<1>7. CASE p = n
  <2>1. \A i \in 1 .. n : order'[i] = order[i]
    BY <1>0, <1>4, <1>7
  <2>2. tail = k
    BY <1>4, <1>5, <1>7
  <2>3. UNCHANGED <<head, tail, next, prev>>
    BY <2>2 DEF Update, UpdateTail, UpdateHead, UpdateMiddle
  <2>4. Ends'
    BY <1>1, <1>2, <1>5, <1>6, <2>1, <2>3 DEF Ends
  <2>5. \A i \in 1 .. n : /\ i # n => i + 1 \in 1 .. n
                          /\ i # 1 => i - 1 \in 1 .. n
    BY <1>0
  <2>6. Links'
    BY <1>2, <1>5, <2>1, <2>3, <2>5 DEF Links
  <2> QED
    BY <2>4, <2>6
<1>8. CASE p < n
  \* The pointers after the step, by the place a node had before it.
  <2>1. p + 1 \in 1 .. n /\ p # n
    BY <1>0, <1>8
  <2>2. tail # k
    BY <1>3, <1>4, <1>5, <1>6, <2>1
  <2>3. \A i, j \in 1 .. n : i # j => order[i] # order[j]
    BY <1>3
  <2>4. next[k] = order[p + 1] /\ order[p + 1] \in Keys /\ order[p + 1] # k
    <3>1. order[p + 1] \in Keys /\ next[order[p]] = order[p + 1]
      BY <1>1, <1>5, <2>1
    <3>2. order[p + 1] # order[p]
      BY <1>0, <2>1, <2>3
    <3> QED
      BY <1>4, <3>1, <3>2
  <2>5. p # 1 => /\ p - 1 \in 1 .. n /\ p - 1 # p /\ p - 1 # n
                 /\ prev[k] = order[p - 1] /\ order[p - 1] \in Keys
                 /\ order[p - 1] # k /\ order[p - 1] # order[n]
    <3>1. p # 1 => p - 1 \in 1 .. n /\ p - 1 # p /\ p - 1 # n
      BY <1>0
    <3>2. p # 1 => prev[order[p]] = order[p - 1]
      BY <1>5
    <3>3. p # 1 => order[p - 1] # order[p] /\ order[p - 1] # order[n]
      BY <1>6, <2>3, <3>1
    <3>4. p # 1 => order[p - 1] \in Keys
      BY <1>1, <3>1
    <3> QED
      BY <1>4, <3>1, <3>2, <3>3, <3>4
  <2>6. order[n] \in Keys /\ order[n] # k
    BY <1>1, <1>5, <1>6, <2>2
  \* The pointers after the step, by the place a node had before it.
  <2>7. /\ head' = IF p = 1 THEN order[p + 1] ELSE order[1]
        /\ tail' = k
        /\ next'[k] = Nil
        /\ next'[order[n]] = k
        /\ p # 1 => next'[order[p - 1]] = order[p + 1]
        /\ \A i \in 1 .. n : i # p - 1 /\ i # p /\ i # n => next'[order[i]] = next[order[i]]
        /\ prev'[k] = order[n]
        /\ prev'[order[p + 1]] = IF p = 1 THEN Nil ELSE order[p - 1]
        /\ \A i \in 1 .. n : i # p /\ i # p + 1 => prev'[order[i]] = prev[order[i]]
    <3>0. next \in [Keys -> Pointer] /\ prev \in [Keys -> Pointer]
      BY DEF TypeOK
    <3>1. CASE p = 1
      <4>1. head = k
        BY <1>4, <1>5, <3>1
      <4>2. UpdateHead(k, v)
        BY <2>2, <4>1 DEF Update, UpdateTail, UpdateHead, UpdateMiddle
      <4>3. /\ head' = order[p + 1] /\ tail' = k
            /\ next' = [next EXCEPT ![order[n]] = k, ![k] = Nil]
            /\ prev' = [prev EXCEPT ![order[p + 1]] = Nil, ![k] = order[n]]
        BY <1>5, <2>4, <4>2 DEF UpdateHead
      <4>4. /\ next'[k] = Nil /\ next'[order[n]] = k
            /\ \A x \in Keys \ {k, order[n]} : next'[x] = next[x]
            /\ prev'[k] = order[n] /\ prev'[order[p + 1]] = Nil
            /\ \A x \in Keys \ {k, order[p + 1]} : prev'[x] = prev[x]
        BY <2>4, <2>6, <3>0, <4>3
      <4>5. \A i \in 1 .. n : i # p /\ i # n => order[i] \in Keys \ {k, order[n]}
        BY <1>1, <1>4, <1>6, <2>3
      <4>6. \A i \in 1 .. n : i # p /\ i # p + 1 => order[i] \in Keys \ {k, order[p + 1]}
        BY <1>1, <1>4, <2>1, <2>3
      <4> QED
        BY <3>1, <4>3, <4>4, <4>5, <4>6
    <3>2. CASE p # 1
      <4>1. head # k
        BY <1>4, <1>5, <1>6, <2>3, <3>2
      <4>2. UpdateMiddle(k, v)
        BY <2>2, <4>1 DEF Update, UpdateTail, UpdateHead, UpdateMiddle
      <4>3. /\ head' = order[1] /\ tail' = k
            /\ next' = [next EXCEPT ![order[p - 1]] = order[p + 1], ![order[n]] = k, ![k] = Nil]
            /\ prev' = [prev EXCEPT ![order[p + 1]] = order[p - 1], ![k] = order[n]]
        BY <1>5, <2>4, <2>5, <3>2, <4>2 DEF UpdateMiddle
      <4>4. /\ next'[k] = Nil /\ next'[order[n]] = k /\ next'[order[p - 1]] = order[p + 1]
            /\ \A x \in Keys \ {k, order[n], order[p - 1]} : next'[x] = next[x]
        BY <2>5, <2>6, <3>0, <3>2, <4>3
      <4>5. /\ prev'[k] = order[n] /\ prev'[order[p + 1]] = order[p - 1]
            /\ \A x \in Keys \ {k, order[p + 1]} : prev'[x] = prev[x]
        BY <2>4, <2>6, <3>0, <4>3
      <4>6. \A i \in 1 .. n : i # p - 1 /\ i # p /\ i # n =>
                               order[i] \in Keys \ {k, order[n], order[p - 1]}
        BY <1>1, <1>4, <1>6, <2>3, <2>5, <3>2
      <4>7. \A i \in 1 .. n : i # p /\ i # p + 1 => order[i] \in Keys \ {k, order[p + 1]}
        BY <1>1, <1>4, <2>1, <2>3
      <4> QED
        BY <3>2, <4>3, <4>4, <4>5, <4>6, <4>7
    <3> QED
      BY <3>1, <3>2
  <2>8. Ends'
    <3>1. p = 1 => order'[1] = order[p + 1]
      BY <1>0, <1>4, <1>6, <1>8
    <3>2. p # 1 => order'[1] = order[1]
      BY <1>0, <1>4, <1>6, <1>8
    <3> QED
      BY <1>2, <1>4, <2>7, <3>1, <3>2 DEF Ends
  <2>9. ASSUME NEW i \in 1 .. n
        PROVE  next'[order'[i]] = IF i = n THEN Nil ELSE order'[i + 1]
    <3>0. i \in Nat /\ 1 <= i /\ i <= n
      BY <1>0
    <3>1. CASE i = n
      BY <1>4, <2>7, <3>1
    <3>2. CASE i = n - 1
      <4>1. i >= p /\ i < n /\ i + 1 = n /\ i # n
        BY <1>0, <1>8, <3>0, <3>2
      <4>2. order'[i] = order[n] /\ order'[i + 1] = k
        BY <1>4, <4>1
      <4> QED
        BY <2>7, <4>1, <4>2
    <3>3. CASE i # n /\ i # n - 1 /\ i >= p
      <4>1. i < n /\ i + 1 \in 1 .. n /\ i + 1 >= p /\ i + 1 < n /\ i + 1 # n
        BY <1>0, <3>0, <3>3
      <4>2. i + 1 # p - 1 /\ i + 1 # p
        BY <1>0, <3>0, <3>3
      <4>3. order'[i] = order[i + 1] /\ order'[i + 1] = order[i + 1 + 1]
        BY <1>4, <3>3, <4>1
      <4>4. next'[order[i + 1]] = order[i + 1 + 1]
        BY <1>5, <2>7, <4>1, <4>2
      <4> QED
        BY <3>3, <4>3, <4>4
    <3>4. CASE i = p - 1
      <4>1. p # 1 /\ i < p /\ i # n /\ i + 1 = p /\ p >= p
        BY <1>0, <1>8, <3>0, <3>4
      <4>2. order'[i] = order[p - 1] /\ order'[i + 1] = order[p + 1]
        BY <1>4, <1>8, <3>4, <4>1
      <4> QED
        BY <2>7, <4>1, <4>2
    <3>5. CASE i < p - 1
      <4>1. /\ i < p /\ i + 1 < p /\ i + 1 \in 1 .. n
            /\ i # n /\ i # p /\ i # p - 1
        BY <1>0, <3>0, <3>5
      <4>2. order'[i] = order[i] /\ order'[i + 1] = order[i + 1]
        BY <1>4, <4>1
      <4> QED
        BY <1>5, <2>7, <4>1, <4>2
    <3> QED
      BY <1>0, <3>0, <3>1, <3>2, <3>3, <3>4, <3>5
  <2>10. ASSUME NEW i \in 1 .. n
         PROVE  prev'[order'[i]] = IF i = 1 THEN Nil ELSE order'[i - 1]
    <3>0. i \in Nat /\ 1 <= i /\ i <= n
      BY <1>0
    <3>1. CASE i = n
      <4>1. i # 1 /\ i - 1 \in 1 .. n /\ i - 1 >= p /\ i - 1 < n /\ i - 1 + 1 = n
        BY <1>0, <1>8, <3>0, <3>1
      <4>2. order'[i] = k /\ order'[i - 1] = order[n]
        BY <1>4, <3>1, <4>1
      <4> QED
        BY <2>7, <4>1, <4>2
    <3>2. CASE i = p
      <4>1. p # 1 => p - 1 \in 1 .. n /\ p - 1 < p
        BY <1>0
      <4>2. order'[i] = order[p + 1]
        BY <1>0, <1>4, <1>8, <3>2
      <4>3. p # 1 => order'[i - 1] = order[p - 1]
        BY <1>4, <3>2, <4>1
      <4> QED
        BY <2>7, <3>2, <4>2, <4>3
    <3>3. CASE i # n /\ i > p
      <4>1. /\ i >= p /\ i < n /\ i + 1 \in 1 .. n /\ i + 1 # p /\ i + 1 # p + 1 /\ i + 1 # 1
            /\ i + 1 - 1 = i
            /\ i # 1 /\ i - 1 \in 1 .. n /\ i - 1 >= p /\ i - 1 < n /\ i - 1 + 1 = i
        BY <1>0, <3>0, <3>3
      <4>2. order'[i] = order[i + 1] /\ order'[i - 1] = order[i]
        BY <1>4, <4>1
      <4>3. prev'[order[i + 1]] = prev[order[i + 1]]
        BY <2>7, <4>1
      <4>4. prev[order[i + 1]] = order[i]
        BY <1>5, <4>1
      <4> QED
        BY <4>1, <4>2, <4>3, <4>4
    <3>4. CASE i < p
      <4>1. i # p /\ i # p + 1 /\ (i # 1 => i - 1 \in 1 .. n /\ i - 1 < p)
        BY <1>0, <3>0, <3>4
      <4>2. order'[i] = order[i] /\ (i # 1 => order'[i - 1] = order[i - 1])
        BY <1>4, <3>4, <4>1
      <4> QED
        BY <1>5, <2>7, <4>1, <4>2
    <3> QED
      BY <1>0, <3>0, <3>1, <3>2, <3>3, <3>4
  <2>11. Links'
    BY <1>2, <2>9, <2>10 DEF Links
  <2> QED
    BY <2>8, <2>11
<1> QED
  BY <1>0, <1>7, <1>8

-----------------------------------------------------------------------------
(* The invariant *)

\* A pending nil value stands for a key the store answers nil for.
NilReads == \A k \in kvm : val[k] = Nil => Lookup(k) = Nil

\* What Sync has written is in the store.
Flushed == syncing => \A i \in 1 .. Len(written) : Lookup(order[i]) = val[order[i]]

IInv == TypeOK /\ ListIsOrder /\ SyncFollowsOrder /\ NilReads /\ Flushed

LEMMA LookupFacts ==
  ASSUME TypeOK, NEW k \in Keys
  PROVE  Lookup(k) \in Value
  BY DEF TypeOK, Lookup, Value

\* The types after a key is set.
LEMMA KVSetHasType ==
  ASSUME TypeOK, OrderOfMap, NEW k \in Keys, NEW v \in Value, KVSet(k, v)
  PROVE  ListTyped' /\ kvm' \in SUBSET Keys /\ order' \in Seq(Keys)
<1>1. ListTyped'
  BY UpdateHasType, PushHasType DEF KVSet
<1>2. kvm' \in SUBSET Keys
  BY DEF KVSet, TypeOK
<1>3. order' \in Seq(Keys)
  BY TouchedMoves, TouchedAdds DEF KVSet, Moved, Added
<1> QED
  BY <1>1, <1>2, <1>3

\* The list after a key is set.
LEMMA KVSetKeepsList ==
  ASSUME TypeOK, ListIsOrder, NEW k \in Keys, NEW v \in Value, KVSet(k, v), TypeOK'
  PROVE  /\ ListIsOrder'
         /\ val' = [val EXCEPT ![k] = v]
         /\ kvm' = kvm \cup {k}
<1>1. OrderOfMap'
  BY SetKeepsOrderOfMap DEF KVSet, ListIsOrder
<1>2. CASE k \in kvm
  <2>1. Update(k, v)
    BY <1>2 DEF KVSet
  <2>2. PICK p \in 1 .. Len(order) : Moved(k, p)
    BY <1>2, TouchedMoves DEF KVSet, ListIsOrder
  <2>3. Ends' /\ Links'
    BY <2>1, <2>2, UpdateKeepsLinks
  <2>4. val' = [val EXCEPT ![k] = v]
    BY <2>1 DEF Update, UpdateTail, UpdateHead, UpdateMiddle
  <2> QED
    BY <1>1, <2>3, <2>4 DEF ListIsOrder, KVSet
<1>3. CASE k \notin kvm
  <2>1. Push(k, v) /\ Added(k)
    BY <1>3, TouchedAdds DEF KVSet, ListIsOrder
  <2>2. Ends' /\ Links'
    BY <2>1, PushKeepsLinks
  <2> QED
    BY <1>1, <2>1, <2>2 DEF ListIsOrder, KVSet, Push
<1> QED
  BY <1>2, <1>3

LEMMA EmptyCacheFacts ==
  ASSUME EmptyCache
  PROVE  ListTyped' /\ ListIsOrder' /\ kvm' = {} /\ order' = <<>>
<1>1. order' = <<>> /\ DOMAIN order' = {}
  BY EmptySeq DEF EmptyCache
<1> QED
  BY <1>1 DEF EmptyCache, ListTyped, ListIsOrder, OrderOfMap, Ends, Links, Elements,
             Pointer, Value

LEMMA InitHolds == Init => IInv
<1> SUFFICES ASSUME Init PROVE IInv
  OBVIOUS
<1>1. TypeOK
  BY EmptySeq DEF Init, TypeOK, Pointer, Value
<1>2. ListIsOrder
  <2>1. DOMAIN order = {}
    BY EmptySeq DEF Init
  <2> QED
    BY <2>1 DEF Init, ListIsOrder, OrderOfMap, Ends, Links, Elements
<1> QED
  BY <1>1, <1>2 DEF Init, IInv, SyncFollowsOrder, NilReads, Flushed

\* Setting a pair with what a caller of Set, or Get itself, may set.
LEMMA KVSetStep ==
  ASSUME IInv, NEW k \in Keys, NEW v \in Value, KVSet(k, v), ~syncing,
         UNCHANGED <<store, cursor, syncing, written>>, got' \in Value,
         v = Nil => Lookup(k) = Nil
  PROVE  IInv'
<1>1. TypeOK'
  <2>1. ListTyped' /\ kvm' \in SUBSET Keys /\ order' \in Seq(Keys)
    BY KVSetHasType DEF IInv, ListIsOrder
  <2> QED
    BY <2>1 DEF IInv, TypeOK, ListTyped
<1>2. ListIsOrder' /\ val' = [val EXCEPT ![k] = v] /\ kvm' = kvm \cup {k}
  BY <1>1, KVSetKeepsList DEF IInv
<1>3. NilReads'
  <2>1. \A x \in Keys : (Lookup(x))' = Lookup(x)
    BY DEF Lookup
  <2>2. val \in [Keys -> Value] /\ kvm \subseteq Keys
    BY DEF IInv, TypeOK
  <2> QED
    BY <1>2, <2>1, <2>2 DEF IInv, NilReads
<1> QED
  BY <1>1, <1>2, <1>3 DEF IInv, SyncFollowsOrder, Flushed

LEMMA SyncBeginStep ==
  ASSUME IInv, SyncBegin
  PROVE  IInv'
<1>1. TypeOK'
  BY EmptySeq DEF IInv, TypeOK, SyncBegin, nodes
<1>2. ListIsOrder' /\ NilReads'
  BY DEF IInv, SyncBegin, nodes, ListIsOrder, OrderOfMap, Ends, Links, NilReads, Lookup
<1>3. Len(written') = 0
  BY EmptySeq DEF SyncBegin
<1>4. cursor' = IF Len(order) = 0 THEN Nil ELSE order[1]
  BY OrderFacts DEF IInv, ListIsOrder, Ends, SyncBegin
<1>5. SyncFollowsOrder'
  BY <1>3, <1>4, OrderFacts DEF IInv, SyncBegin, SyncFollowsOrder
<1> QED
  BY <1>1, <1>2, <1>3, <1>5 DEF IInv, Flushed

\* Sync is at the pair after those it has written, and has not written it yet.
LEMMA AtCursor ==
  ASSUME IInv, syncing, cursor # Nil
  PROVE  LET m == Len(written) IN
         /\ m \in Nat
         /\ m + 1 \in 1 .. Len(order)
         /\ cursor = order[m + 1]
         /\ cursor \in kvm
         /\ cursor \in Keys
         /\ cursor \notin Elements(written)
         /\ \A i \in 1 .. m : i \in 1 .. Len(order) /\ order[i] # cursor
<1> DEFINE m == Len(written)
<1>1. m \in Nat /\ DOMAIN written = 1 .. m /\ Len(order) \in Nat
  BY OrderFacts, LenProperties DEF IInv, TypeOK
<1>2. /\ m <= Len(order) /\ m # Len(order) /\ cursor = order[m + 1]
      /\ \A i \in 1 .. m : written[i] = order[i]
  BY <1>1 DEF IInv, SyncFollowsOrder
<1>3. m + 1 \in 1 .. Len(order) /\ \A i \in 1 .. m : i \in 1 .. Len(order) /\ i # m + 1
  BY <1>1, <1>2
<1>4. \A i \in 1 .. m : order[i] # order[m + 1]
  BY <1>3, OrderFacts DEF IInv, ListIsOrder, OrderOfMap
<1>5. order[m + 1] \in kvm
  BY <1>3, OrderFacts DEF IInv, ListIsOrder, OrderOfMap, Elements
<1>6. cursor \in Keys
  BY <1>2, <1>3, OrderFacts DEF IInv
<1>7. cursor \notin Elements(written)
  BY <1>1, <1>2, <1>4 DEF Elements
<1> QED
  BY <1>1, <1>2, <1>3, <1>4, <1>5, <1>6, <1>7

\* After a write the store answers the pending value for that key, and what it
\* answered before for the others.
LEMMA PutFacts ==
  ASSUME TypeOK, NEW k \in Keys, Put(k, val[k])
  PROVE  /\ store' \in [Keys -> Values \cup {Nil, Empty}]
         /\ (Lookup(k))' = val[k]
         /\ \A x \in Keys \ {k} : (Lookup(x))' = Lookup(x)
<1>1. val[k] \in Values \cup {Nil} /\ store \in [Keys -> Values \cup {Nil, Empty}]
  BY DEF TypeOK, Value
<1>2. /\ store'[k] = IF val[k] = Nil THEN Empty ELSE val[k]
      /\ \A x \in Keys \ {k} : store'[x] = store[x]
      /\ store' \in [Keys -> Values \cup {Nil, Empty}]
  BY <1>1 DEF Put
<1> QED
  BY <1>1, <1>2, NilAssumption DEF Lookup

LEMMA SyncWriteStep ==
  ASSUME IInv, SyncWrite
  PROVE  IInv'
<1> DEFINE m == Len(written)
           n == Len(order)
<1>1. /\ m \in Nat /\ m + 1 \in 1 .. n /\ cursor = order[m + 1]
      /\ cursor \in kvm /\ cursor \in Keys /\ cursor \notin Elements(written)
      /\ \A i \in 1 .. m : i \in 1 .. n /\ order[i] # cursor
  BY AtCursor DEF SyncWrite
<1>2. n \in Nat /\ DOMAIN order = 1 .. n
  BY OrderFacts DEF IInv
<1>3. UNCHANGED <<head, tail, next, prev, val, kvm, order, syncing, got>> /\ syncing
  BY DEF SyncWrite, nodes
<1>4. written \in Seq(Keys) /\ written' = Append(written, cursor)
  BY <1>1 DEF SyncWrite, IInv, TypeOK
<1>5. /\ written' \in Seq(Keys) /\ Len(written') = m + 1
      /\ written'[m + 1] = cursor
      /\ \A i \in 1 .. m : written'[i] = written[i]
  BY <1>1, <1>4, AppendProperties
<1>6. PICK c \in Keys : c = cursor
  BY <1>1
<1>7. /\ store' \in [Keys -> Values \cup {Nil, Empty}]
      /\ (Lookup(c))' = val[c]
      /\ \A x \in Keys \ {c} : (Lookup(x))' = Lookup(x)
  <2>1. Put(c, val[c])
    BY <1>6 DEF SyncWrite
  <2> QED
    BY <2>1, PutFacts DEF IInv
<1>8. cursor' = next[c] /\ cursor' \in Pointer
  BY <1>6 DEF SyncWrite, IInv, TypeOK
<1>9. TypeOK'
  BY <1>3, <1>5, <1>7, <1>8 DEF IInv, TypeOK
<1>10. ListIsOrder'
  BY <1>3 DEF IInv, ListIsOrder, OrderOfMap, Ends, Links
<1>11. SyncFollowsOrder'
  <2>1. cursor' = IF m + 1 = n THEN Nil ELSE order[m + 1 + 1]
    BY <1>1, <1>2, <1>6, <1>8 DEF IInv, ListIsOrder, Links
  <2>2. \A i \in 1 .. m : written[i] = order[i]
    BY <1>3 DEF IInv, SyncFollowsOrder
  <2>3. \A i \in 1 .. m + 1 : written'[i] = order[i]
    BY <1>1, <1>5, <2>2
  <2>4. m + 1 <= n
    BY <1>1, <1>2
  <2> QED
    BY <1>3, <1>5, <2>1, <2>3, <2>4 DEF SyncFollowsOrder
<1>12. NilReads'
  <2>1. kvm \subseteq Keys
    BY DEF IInv, TypeOK
  <2> QED
    BY <1>3, <1>7, <2>1 DEF IInv, NilReads
<1>13. Flushed'
  <2> SUFFICES ASSUME NEW i \in 1 .. m + 1
               PROVE  (Lookup(order[i]))' = val'[order'[i]]
    BY <1>3, <1>5 DEF Flushed
  <2>1. PICK x \in Keys : x = order[i]
    <3>1. i \in 1 .. n
      BY <1>1, <1>2
    <3> QED
      BY <3>1, OrderFacts DEF IInv
  <2>2. (Lookup(order[i]))' = (Lookup(x))'
    BY <1>3, <2>1 DEF Lookup
  <2>3. CASE i = m + 1
    BY <1>1, <1>3, <1>6, <1>7, <2>1, <2>2, <2>3
  <2>4. CASE i \in 1 .. m
    <3>1. x # c /\ Lookup(x) = val[x]
      BY <1>1, <1>3, <1>6, <2>1, <2>4 DEF IInv, Flushed
    <3> QED
      BY <1>3, <1>7, <2>1, <2>2, <3>1
  <2> QED
    BY <1>1, <2>3, <2>4
<1> QED
  BY <1>9, <1>10, <1>11, <1>12, <1>13 DEF IInv

\* Sync and the loss of a cache both leave an empty one.
LEMMA EmptiedStep ==
  ASSUME IInv, EmptyCache, UNCHANGED <<store, cursor, got, written>>, syncing' = FALSE
  PROVE  IInv'
<1>1. ListTyped' /\ ListIsOrder' /\ kvm' = {} /\ order' = <<>>
  BY EmptyCacheFacts
<1>2. TypeOK'
  BY <1>1, EmptySeq DEF IInv, TypeOK, ListTyped
<1> QED
  BY <1>1, <1>2 DEF IInv, SyncFollowsOrder, NilReads, Flushed

LEMMA NextKeeps == IInv /\ [Next]_vars => IInv'
<1> SUFFICES ASSUME IInv, [Next]_vars PROVE IInv'
  OBVIOUS
<1>1. ASSUME NEW k \in Keys, NEW v \in Values, Set(k, v) PROVE IInv'
  <2>1. v \in Value /\ v # Nil /\ got \in Value
    BY NilAssumption DEF Value, IInv, TypeOK
  <2> QED
    BY <1>1, <2>1, KVSetStep DEF Set
<1>2. ASSUME NEW k \in Keys, GetPending(k) PROVE IInv'
  <2>1. val[k] \in Value
    BY DEF IInv, TypeOK
  <2>2. TypeOK'
    BY <1>2, <2>1 DEF GetPending, IInv, TypeOK, nodes
  <2>3. ListIsOrder' /\ NilReads'
    BY <1>2 DEF GetPending, IInv, nodes, ListIsOrder, OrderOfMap, Ends, Links, NilReads, Lookup
  <2> QED
    BY <1>2, <2>2, <2>3 DEF GetPending, IInv, SyncFollowsOrder, Flushed
<1>3. ASSUME NEW k \in Keys, GetStored(k) PROVE IInv'
  <2>1. PICK v \in Value : v = Lookup(k)
    BY LookupFacts DEF IInv
  <2>2. KVSet(k, v) /\ got' = v
    BY <1>3, <2>1 DEF GetStored
  <2>3. ~syncing /\ UNCHANGED <<store, cursor, syncing, written>>
    BY <1>3 DEF GetStored
  <2>4. got' \in Value /\ (v = Nil => Lookup(k) = Nil)
    BY <2>1, <2>2
  <2> QED
    BY <2>2, <2>3, <2>4, KVSetStep
<1>4. CASE Discard
  <2>1. syncing' = FALSE
    BY <1>4 DEF Discard, IInv, TypeOK
  <2> QED
    BY <1>4, <2>1, EmptiedStep DEF Discard
<1>5. CASE SyncBegin
  BY <1>5, SyncBeginStep
<1>6. CASE SyncWrite
  BY <1>6, SyncWriteStep
<1>7. CASE SyncEnd
  BY <1>7, EmptiedStep DEF SyncEnd
<1>8. CASE UNCHANGED vars
  <2>1. TypeOK'
    BY <1>8 DEF vars, nodes, IInv, TypeOK
  <2>2. ListIsOrder' /\ NilReads'
    BY <1>8 DEF vars, nodes, IInv, ListIsOrder, OrderOfMap, Ends, Links, NilReads, Lookup
  <2>3. SyncFollowsOrder' /\ Flushed'
    BY <1>8 DEF vars, nodes, IInv, SyncFollowsOrder, Flushed, Lookup
  <2> QED
    BY <2>1, <2>2, <2>3 DEF IInv
<1> QED
  BY <1>1, <1>2, <1>3, <1>4, <1>5, <1>6, <1>7, <1>8 DEF Next

\* The invariant of the cache holds: of the list and map, of the progress of
\* Sync through them, and of what is pending and what is stored.
THEOREM Invariance == Spec => []IInv
  BY InitHolds, NextKeeps, PTL DEF Spec

\* Every variable of the cache keeps its type.
THEOREM TypesCorrect == Spec => []TypeOK
<1>1. IInv => TypeOK
  BY DEF IInv
<1> QED
  BY <1>1, Invariance, PTL

\* The pointers of KVList always describe the keys of the map, each once, in
\* the order of their last Set: Update never loses a node or closes a cycle.
THEOREM ListCorrect == Spec => []ListIsOrder
<1>1. IInv => ListIsOrder
  BY DEF IInv
<1> QED
  BY <1>1, Invariance, PTL

\* Sync writes in the order in which keys were last set.
THEOREM SyncOrdered == Spec => []SyncFollowsOrder
<1>1. IInv => SyncFollowsOrder
  BY DEF IInv
<1> QED
  BY <1>1, Invariance, PTL

-----------------------------------------------------------------------------
(* The promise *)

LEMMA InitPromise == Init => Promise!Init
<1> SUFFICES ASSUME Init PROVE Promise!Init
  OBVIOUS
<1>1. TypeOK /\ kvm = {} /\ syncing = FALSE /\ got = Nil
  BY InitHolds DEF Init, IInv
<1>2. stored \in [Keys -> Values \cup {Nil}]
  BY <1>1, LookupFacts DEF stored, Value
<1>3. viewed = stored
  BY <1>1 DEF viewed, stored, View
<1> QED
  BY <1>1, <1>2, <1>3 DEF Promise!Init, mode

\* Setting a pair changes what is seen of its key to the value that was set, or
\* to what is stored when that is a nil value.
LEMMA SetIsSeen ==
  ASSUME IInv, IInv', NEW k \in Keys, NEW v \in Value, KVSet(k, v), store' = store
  PROVE  /\ stored' = stored
         /\ viewed' = [viewed EXCEPT ![k] = IF v # Nil THEN v ELSE Lookup(k)]
<1>1. val' = [val EXCEPT ![k] = v] /\ kvm' = kvm \cup {k} /\ val \in [Keys -> Value]
  BY KVSetKeepsList DEF IInv, TypeOK
<1>2. \A x \in Keys : (Lookup(x))' = Lookup(x)
  BY DEF Lookup
<1>3. \A x \in Keys : (View(x))' = IF x = k THEN IF v # Nil THEN v ELSE Lookup(k) ELSE View(x)
  BY <1>1, <1>2 DEF View
<1> QED
  BY <1>2, <1>3 DEF stored, viewed

\* Without the cache what is seen is what is stored.
LEMMA EmptiedIsSeen ==
  ASSUME kvm' = {}, store' = store
  PROVE  stored' = stored /\ viewed' = stored
<1>1. \A x \in Keys : (Lookup(x))' = Lookup(x)
  BY DEF Lookup
<1>2. \A x \in Keys : (View(x))' = Lookup(x)
  BY <1>1 DEF View
<1> QED
  BY <1>1, <1>2 DEF stored, viewed

LEMMA NothingSeen ==
  ASSUME UNCHANGED <<store, val, kvm>>
  PROVE  UNCHANGED <<stored, viewed>>
  BY DEF stored, viewed, View, Lookup

LEMMA StepPromise == IInv /\ IInv' /\ [Next]_vars => [Promise!Next]_(Promise!cache)
<1> SUFFICES ASSUME IInv, IInv', [Next]_vars PROVE [Promise!Next]_(Promise!cache)
  OBVIOUS
<1>1. ASSUME NEW k \in Keys, NEW v \in Values, Set(k, v) PROVE Promise!Write(k, v)
  <2>1. v \in Value /\ v # Nil
    BY NilAssumption DEF Value
  <2>2. stored' = stored /\ viewed' = [viewed EXCEPT ![k] = v]
    BY <1>1, <2>1, SetIsSeen DEF Set
  <2> QED
    BY <1>1, <2>2 DEF Set, Promise!Write, mode
<1>2. ASSUME NEW k \in Keys, GetPending(k) PROVE Promise!Read(k)
  <2>1. UNCHANGED <<stored, viewed>>
    BY <1>2, NothingSeen DEF GetPending, nodes
  <2>2. got' = viewed[k]
    BY <1>2 DEF GetPending, viewed, View
  <2> QED
    BY <1>2, <2>1, <2>2 DEF GetPending, Promise!Read, mode
<1>3. ASSUME NEW k \in Keys, GetStored(k) PROVE Promise!Read(k)
  <2>1. PICK v \in Value : v = Lookup(k)
    BY LookupFacts DEF IInv
  <2>2. KVSet(k, v) /\ store' = store /\ got' = v /\ viewed[k] = v
    BY <1>3, <2>1 DEF GetStored, viewed, View
  <2>3. stored' = stored /\ viewed' = [viewed EXCEPT ![k] = v]
    BY <2>1, <2>2, SetIsSeen
  <2>4. viewed' = viewed
    BY <2>2, <2>3 DEF viewed
  <2> QED
    BY <1>3, <2>2, <2>3, <2>4 DEF GetStored, Promise!Read, mode
<1>4. CASE Discard
  <2>1. stored' = stored /\ viewed' = stored
    BY <1>4, EmptiedIsSeen DEF Discard, EmptyCache
  <2> QED
    BY <1>4, <2>1 DEF Discard, Promise!Next, Promise!Discard, mode
<1>5. CASE SyncBegin
  <2>1. UNCHANGED <<stored, viewed>>
    BY <1>5, NothingSeen DEF SyncBegin, nodes
  <2> QED
    BY <1>5, <2>1 DEF SyncBegin, Promise!Next, Promise!BeginFlush, mode
<1>6. CASE SyncWrite
  <2>1. PICK c \in Keys : c = cursor /\ c \in kvm
    BY <1>6, AtCursor DEF SyncWrite
  <2>2. Put(c, val[c])
    BY <1>6, <2>1 DEF SyncWrite
  <2>3. /\ (Lookup(c))' = val[c]
        /\ \A x \in Keys \ {c} : (Lookup(x))' = Lookup(x)
    BY <2>2, PutFacts DEF IInv
  <2>4. View(c) = val[c]
    BY <2>1 DEF IInv, NilReads, View
  <2>5. stored' = [stored EXCEPT ![c] = viewed[c]]
    BY <2>3, <2>4 DEF stored, viewed
  <2>6. \A x \in Keys : (View(x))' = View(x)
    <3>1. UNCHANGED <<val, kvm>>
      BY <1>6 DEF SyncWrite, nodes
    <3>2. (View(c))' = View(c)
      BY <2>1, <2>3, <2>4, <3>1 DEF View
    <3>3. \A x \in Keys \ {c} : (View(x))' = View(x)
      BY <2>3, <3>1 DEF View
    <3> QED
      BY <3>2, <3>3
  <2>7. viewed' = viewed
    BY <2>6 DEF viewed
  <2>8. Promise!Flush(c)
    BY <1>6, <2>5, <2>7 DEF SyncWrite, Promise!Flush, mode
  <2> QED
    BY <2>8 DEF Promise!Next
<1>7. CASE SyncEnd
  <2>1. \A x \in Keys : View(x) = Lookup(x)
    <3>1. Len(written) = Len(order)
      <4>1. order[Len(written) + 1] # Nil \/ Len(written) = Len(order)
        <5>1. Len(written) \in Nat /\ Len(written) <= Len(order) /\ Len(order) \in Nat
          BY <1>7, OrderFacts, LenProperties DEF SyncEnd, IInv, SyncFollowsOrder, TypeOK
        <5>2. Len(written) # Len(order) => Len(written) + 1 \in 1 .. Len(order)
          BY <5>1
        <5> QED
          BY <5>2, OrderFacts, NilAssumption DEF IInv
      <4> QED
        BY <1>7, <4>1 DEF SyncEnd, IInv, SyncFollowsOrder
    <3>2. \A x \in kvm : Lookup(x) = val[x]
      <4>1. \A x \in kvm : \E i \in 1 .. Len(order) : x = order[i]
        BY OrderFacts DEF IInv, ListIsOrder, OrderOfMap, Elements
      <4> QED
        BY <1>7, <3>1, <4>1 DEF SyncEnd, IInv, Flushed
    <3> QED
      BY <3>2 DEF View
  <2>2. stored = viewed
    BY <2>1 DEF stored, viewed
  <2>3. stored' = stored /\ viewed' = stored
    BY <1>7, EmptiedIsSeen DEF SyncEnd, EmptyCache
  <2> QED
    BY <1>7, <2>2, <2>3 DEF SyncEnd, Promise!Next, Promise!EndFlush, mode
<1>8. CASE UNCHANGED vars
  <2>1. UNCHANGED <<stored, viewed>>
    BY <1>8, NothingSeen DEF vars, nodes
  <2> QED
    BY <1>8, <2>1 DEF vars, Promise!cache, mode
<1> QED
  BY <1>1, <1>2, <1>3, <1>4, <1>5, <1>6, <1>7, <1>8 DEF Next, Promise!Next

\* The cache implements WriteBack: writes are seen at once, reach the store
\* with Sync and not before, and are all there when Sync ends.
THEOREM PromiseKept == Spec => KeepsPromise
  BY InitPromise, StepPromise, Invariance, PTL DEF Spec, KeepsPromise, Promise!Spec

=============================================================================
