------------------------------- MODULE KVCache -------------------------------
(***************************************************************************)
(* The cache an action runs on: types/kv.go and types/cache.go, over the   *)
(* store of app/client.go and app/merkle.go.                               *)
(*                                                                         *)
(* Pending pairs sit in a doubly linked list that a map indexes.  A map    *)
(* never holds two nodes of one key, so a node is named by its key and a   *)
(* pointer is a key or Nil.  Sync writes in list order; the order matters, *)
(* for the shape and so the hash of the Merkle tree depends on it and all  *)
(* replicas must agree on the hash.                                        *)
(*                                                                         *)
(* One request at a time uses a cache, so a call is a step, except Sync,   *)
(* which is one step for each write to the store.                          *)
(***************************************************************************)
EXTENDS Integers, Sequences

CONSTANTS
  Keys,
  Values,   \* what callers set: never a nil value
  Nil,      \* a nil pointer, a nil value
  Empty     \* the store's record of a nil value that was set

ASSUME NilAssumption == Nil \notin Keys \cup Values /\ Empty \notin Values /\ Nil # Empty

Pointer == Keys \cup {Nil}
Value == Values \cup {Nil}

VARIABLES
  store,                        \* the records of the store
  head, tail, next, prev, val,  \* the list and its nodes
  kvm,                          \* the keys of the map
  cursor,                       \* the node Sync is at
  syncing,                      \* Sync has begun and not ended
  got,                          \* what the last Get answered
  order,                        \* history: the keys of the map, last set last
  written                       \* history: the keys Sync has written, first write first

nodes == <<head, tail, next, prev, val, kvm>>
vars  == <<store, nodes, cursor, syncing, got, order, written>>

Elements(s) == {s[i] : i \in DOMAIN s}

-----------------------------------------------------------------------------
(* The store *)

\* The query answers the record whatever its length.
LookupAny(k) == store[k]

\* A record with no value is answered like no record.
Lookup(k) == IF store[k] = Empty THEN Nil ELSE store[k]

Put(k, v) == store' = [store EXCEPT ![k] = IF v = Nil THEN Empty ELSE v]

-----------------------------------------------------------------------------
(* KVList and KVMap *)

Push(k, v) ==
  /\ head' = IF head = Nil THEN k ELSE head
  /\ next' = IF head = Nil THEN [next EXCEPT ![k] = Nil]
             ELSE [next EXCEPT ![tail] = k, ![k] = Nil]
  /\ prev' = [prev EXCEPT ![k] = IF head = Nil THEN Nil ELSE tail]
  /\ val' = [val EXCEPT ![k] = v]
  /\ tail' = k

\* The node at the tail stays there.
UpdateTail(k, v) ==
  /\ tail = k
  /\ val' = [val EXCEPT ![k] = v]
  /\ UNCHANGED <<head, tail, next, prev>>

\* The old head still points to its old successor.
UpdateHeadNoCut(k, v) ==
  /\ tail # k
  /\ head = k
  /\ head' = next[k]
  /\ next' = [next EXCEPT ![tail] = k]
  /\ prev' = [prev EXCEPT ![next[k]] = Nil, ![k] = tail]
  /\ val' = [val EXCEPT ![k] = v]
  /\ tail' = k

UpdateHead(k, v) ==
  /\ tail # k
  /\ head = k
  /\ head' = next[k]
  /\ next' = [next EXCEPT ![tail] = k, ![k] = Nil]
  /\ prev' = [prev EXCEPT ![next[k]] = Nil, ![k] = tail]
  /\ val' = [val EXCEPT ![k] = v]
  /\ tail' = k

\* The successor goes on pointing back to the node that left.
UpdateMiddleOneWay(k, v) ==
  /\ tail # k
  /\ head # k
  /\ next' = [next EXCEPT ![prev[k]] = next[k], ![tail] = k, ![k] = Nil]
  /\ prev' = [prev EXCEPT ![k] = tail]
  /\ val' = [val EXCEPT ![k] = v]
  /\ tail' = k
  /\ UNCHANGED head

UpdateMiddle(k, v) ==
  /\ tail # k
  /\ head # k
  /\ next' = [next EXCEPT ![prev[k]] = next[k], ![tail] = k, ![k] = Nil]
  /\ prev' = [prev EXCEPT ![next[k]] = prev[k], ![k] = tail]
  /\ val' = [val EXCEPT ![k] = v]
  /\ tail' = k
  /\ UNCHANGED head

\* The node keeps its place.
UpdateInPlace(k, v) ==
  /\ val' = [val EXCEPT ![k] = v]
  /\ UNCHANGED <<head, tail, next, prev>>

Update(k, v) == UpdateTail(k, v) \/ UpdateHead(k, v) \/ UpdateMiddle(k, v)

\* The keys with k moved, or added, to the end.
Touched(k) ==
  IF k \in kvm
  THEN LET p == CHOOSE i \in DOMAIN order : order[i] = k IN
       [i \in DOMAIN order |-> IF i < p THEN order[i]
                               ELSE IF i < Len(order) THEN order[i + 1] ELSE k]
  ELSE Append(order, k)

KVSet(k, v) ==
  /\ IF k \in kvm THEN Update(k, v) ELSE Push(k, v)
  /\ kvm' = kvm \cup {k}
  /\ order' = Touched(k)

-----------------------------------------------------------------------------
(* Cache *)

\* The map is made anew, the list is kept.
EmptyMap ==
  /\ kvm' = {}
  /\ order' = <<>>
  /\ UNCHANGED <<head, tail, next, prev, val>>

\* Reset.
EmptyCache ==
  /\ head' = Nil /\ tail' = Nil
  /\ next' = [k \in Keys |-> Nil]
  /\ prev' = [k \in Keys |-> Nil]
  /\ val' = [k \in Keys |-> Nil]
  /\ kvm' = {}
  /\ order' = <<>>

Set(k, v) ==
  /\ ~syncing
  /\ KVSet(k, v)
  /\ UNCHANGED <<store, cursor, syncing, got, written>>

\* A value that is pending is answered.
GetPending(k) ==
  /\ ~syncing
  /\ k \in kvm /\ val[k] # Nil
  /\ got' = val[k]
  /\ UNCHANGED <<store, nodes, cursor, syncing, order, written>>

\* Anything else is looked up, and what was found, a nil value too, is pending.
GetStored(k) ==
  /\ ~syncing
  /\ ~(k \in kvm /\ val[k] # Nil)
  /\ got' = Lookup(k)
  /\ KVSet(k, Lookup(k))
  /\ UNCHANGED <<store, cursor, syncing, written>>

\* The run failed: nobody syncs the cache, the next action has a new one.
Discard ==
  /\ ~syncing
  /\ EmptyCache
  /\ UNCHANGED <<store, cursor, syncing, got, written>>

SyncBegin ==
  /\ ~syncing
  /\ syncing' = TRUE
  /\ cursor' = head
  /\ written' = <<>>
  /\ UNCHANGED <<store, nodes, got, order>>

SyncWrite ==
  /\ syncing
  /\ cursor # Nil
  /\ Put(cursor, val[cursor])
  /\ cursor' = next[cursor]
  /\ written' = IF cursor \in Elements(written) THEN written ELSE Append(written, cursor)
  /\ UNCHANGED <<nodes, syncing, got, order>>

SyncEnd ==
  /\ syncing
  /\ cursor = Nil
  /\ syncing' = FALSE
  /\ EmptyCache
  /\ UNCHANGED <<store, cursor, got, written>>

Init ==
  /\ store \in [Keys -> Values \cup {Nil, Empty}]
  /\ head = Nil /\ tail = Nil
  /\ next = [k \in Keys |-> Nil]
  /\ prev = [k \in Keys |-> Nil]
  /\ val = [k \in Keys |-> Nil]
  /\ kvm = {}
  /\ cursor = Nil
  /\ syncing = FALSE
  /\ got = Nil
  /\ order = <<>>
  /\ written = <<>>

Next ==
  \/ \E k \in Keys : (\E v \in Values : Set(k, v)) \/ GetPending(k) \/ GetStored(k)
  \/ Discard \/ SyncBegin \/ SyncWrite \/ SyncEnd

Spec == Init /\ [][Next]_vars /\ WF_vars(SyncWrite \/ SyncEnd)

-----------------------------------------------------------------------------
(* Properties *)

\* Every variable has its type: in particular the pointers are null or point to
\* nodes.
TypeOK ==
  /\ store \in [Keys -> Values \cup {Nil, Empty}]
  /\ head \in Pointer /\ tail \in Pointer /\ cursor \in Pointer
  /\ next \in [Keys -> Pointer]
  /\ prev \in [Keys -> Pointer]
  /\ val \in [Keys -> Value]
  /\ kvm \in SUBSET Keys
  /\ syncing \in BOOLEAN
  /\ got \in Value
  /\ order \in Seq(Keys)
  /\ written \in Seq(Keys)

\* The parts of ListIsOrder.
OrderOfMap ==
  /\ kvm = Elements(order)
  /\ \A i, j \in DOMAIN order : order[i] = order[j] => i = j

Ends ==
  /\ head = IF order = <<>> THEN Nil ELSE order[1]
  /\ tail = IF order = <<>> THEN Nil ELSE order[Len(order)]

Links ==
  \A i \in DOMAIN order :
    /\ next[order[i]] = IF i = Len(order) THEN Nil ELSE order[i + 1]
    /\ prev[order[i]] = IF i = 1 THEN Nil ELSE order[i - 1]

\* Following the pointers of KVList from its head, or back from its tail, meets
\* the keys of the map each once, in the order in which they were last set:
\* what Update unlinks and links again never drops a node, doubles one or
\* closes a cycle.
ListIsOrder == OrderOfMap /\ Ends /\ Links

\* Sync writes the pairs in the order in which their keys were last set, so
\* that replicas that ran the same actions build the same tree.
SyncFollowsOrder ==
  syncing =>
    /\ Len(written) <= Len(order)
    /\ \A i \in 1 .. Len(written) : written[i] = order[i]
    /\ cursor = IF Len(written) = Len(order) THEN Nil ELSE order[Len(written) + 1]

\* What Get answers for k.
View(k) == IF k \in kvm /\ val[k] # Nil THEN val[k] ELSE Lookup(k)

stored == [k \in Keys |-> Lookup(k)]
viewed == [k \in Keys |-> View(k)]
mode   == IF syncing THEN "flush" ELSE "open"

Promise == INSTANCE WriteBack WITH base <- stored, view <- viewed, phase <- mode

\* The cache keeps the promise of WriteBack: Get answers the last value set,
\* remembering what was read changes no answer, the store does not move before
\* Sync, Sync ends with the store equal to what Get answered, and a cache that
\* is dropped leaves the store as it was.
KeepsPromise == Promise!Spec

\* A Sync that has begun ends: it follows next from the head to a null pointer.
SyncTerminates == syncing ~> ~syncing

=============================================================================
