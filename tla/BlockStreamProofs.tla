-------------------------- MODULE BlockStreamProofs --------------------------
(***************************************************************************)
(* Proofs about BlockStream, for a chain of any height: the types for any  *)
(* number of connections, and for one connection that it misses no block.  *)
(***************************************************************************)
EXTENDS BlockStream, SequenceTheorems, TLAPS

(***************************************************************************)
(* What the invariants of BlockStream need besides each other.             *)
(***************************************************************************)

\* A stream that holds a block holds one of the chain, and fetches no block
\* below the first.
HoldsBlock ==
  \A c \in Conns :
    /\ stream[c].at \in {"same", "older", "gap", "from", "fill", "push", "set"} => stream[c].block >= 1
    /\ stream[c].at = "start" => stream[c].next <= height
    /\ stream[c].at = "fill" => stream[c].next >= 1

Got(c) == received[c] # <<>>

Newest(c) == received[c][Len(received[c])]

\* Where a stream is tells how its block stands to the shared height and to the
\* block that was handed over last.
Position ==
  \A c \in Conns :
    LET s == stream[c] IN
    /\ s.at \in {"none", "subscribe", "status", "start"} => ~Got(c)
    /\ s.at \in {"read", "same", "older", "gap", "from"} /\ Got(c) => latest = Newest(c)
    /\ s.at = "older" => latest # s.block
    /\ s.at = "gap" => latest < s.block
    /\ s.at = "fill" /\ Got(c) => s.next = Newest(c) + 1
    /\ s.at = "push" /\ Got(c) => s.block <= Newest(c) + 1
    /\ s.at = "set" => Got(c) /\ s.block = Newest(c)

-----------------------------------------------------------------------------
(* Types, for any number of connections *)

TInv == TypeOK /\ HoldsBlock

\* A list of heights stays one when the chain grows.
LEMMA SeqGrows ==
  ASSUME NEW m \in Nat, NEW n \in Nat, m <= n, NEW s \in Seq(1 .. m)
  PROVE  s \in Seq(1 .. n)
<1>1. 1 .. m \subseteq 1 .. n
  OBVIOUS
<1> QED
  BY <1>1, SeqMonotonic

Labels == {"none", "subscribe", "status", "start", "read", "same", "older", "gap", "from", "fill",
           "push", "set"}

Stages(h) == [at : Labels, block : 0 .. h, next : 0 .. h + 1]

\* In this step the stream of c comes to a label, with a block and a next block.
Moves(c, a, b, n) ==
  /\ stream' = [stream EXCEPT ![c] = [at |-> a, block |-> b, next |-> n]]
  /\ height' = height

\* The parts of what a stream does.
LEMMA StageFact ==
  ASSUME TypeOK, NEW c \in Conns
  PROVE  /\ stream[c].at \in Labels
         /\ stream[c].block \in 0 .. height
         /\ stream[c].next \in 0 .. height + 1
         /\ height \in Nat
         /\ stream[c] = [at |-> stream[c].at, block |-> stream[c].block, next |-> stream[c].next]
  BY MaxHeightAssumption DEF TypeOK, Labels

\* The forms an assignment to a stream takes in BlockStream.
LEMMA MoveForms ==
  ASSUME TypeOK, NEW c \in Conns, NEW a, NEW x, height' = height
  PROVE  /\ stream' = [stream EXCEPT ![c].at = a] =>
              Moves(c, a, stream[c].block, stream[c].next)
         /\ stream' = [stream EXCEPT ![c].at = a, ![c].block = x] =>
              Moves(c, a, x, stream[c].next)
         /\ stream' = [stream EXCEPT ![c].at = a, ![c].next = x] =>
              Moves(c, a, stream[c].block, x)
         /\ stream' = [stream EXCEPT ![c].next = x] =>
              Moves(c, stream[c].at, stream[c].block, x)
  BY StageFact DEF Moves, TypeOK

\* A stream that moves on keeps its types, and a block when it has one.
LEMMA MoveTypes ==
  ASSUME TInv, NEW c \in Conns, NEW a \in Labels, NEW b \in 0 .. height, NEW n \in 0 .. height + 1,
         Moves(c, a, b, n),
         a \in {"same", "older", "gap", "from", "fill", "push", "set"} => b >= 1,
         a = "start" => n <= height,
         a = "fill" => n >= 1
  PROVE  stream' \in [Conns -> Stages(height')] /\ HoldsBlock'
<1> DEFINE r == [at |-> a, block |-> b, next |-> n]
<1>1. r \in Stages(height)
  BY DEF Stages
<1>2. stream \in [Conns -> Stages(height)] /\ HoldsBlock
  BY DEF TInv, TypeOK, Stages, Labels
<1>3. height' = height /\ stream' = [stream EXCEPT ![c] = r]
  BY DEF Moves
<1>4. \A d \in Conns : stream'[d] = IF d = c THEN r ELSE stream[d]
  BY <1>2, <1>3
<1>5. stream' \in [Conns -> Stages(height')]
  BY <1>1, <1>2, <1>3
<1>6. HoldsBlock'
  BY <1>2, <1>3, <1>4 DEF HoldsBlock
<1> QED
  BY <1>5, <1>6

\* Where each action takes the stream it belongs to.
LEMMA ActionMoves ==
  ASSUME TypeOK, NEW c \in Conns
  PROVE  LET b == stream[c].block
             n == stream[c].next
         IN
         /\ Open(c) => Moves(c, "subscribe", b, n)
         /\ Subscribe(c) => Moves(c, "status", b, n)
         /\ Status(c) => Moves(c, "start", b, height) \/ Moves(c, "read", b, n)
         /\ Start(c) => Moves(c, "read", b, n)
         /\ Read(c) => Moves(c, "same", Head(results), n)
         /\ IsSame(c) => Moves(c, IF latest = b THEN "read" ELSE "older", b, n)
         /\ IsOlder(c) => Moves(c, IF latest > b THEN "push" ELSE "gap", b, n)
         /\ IsAfterGap(c) => Moves(c, IF latest + 1 < b THEN "from" ELSE "push", b, n)
         /\ FillFrom(c) => Moves(c, "fill", b, latest + 1)
         /\ FillEnd(c) => Moves(c, "push", b, n)
         /\ SetHeight(c) => Moves(c, "read", b, n)
         /\ \A d \in Conns : Fill(c, d) => Moves(c, "fill", b, n + 1)
         /\ \A d \in Conns : Push(c, d) => Moves(c, "set", b, n)
<1> DEFINE b == stream[c].block
           n == stream[c].next
<1>1. Open(c) => Moves(c, "subscribe", b, n)
  BY MoveForms DEF Open, Goto
<1>2. Subscribe(c) => Moves(c, "status", b, n)
  BY MoveForms DEF Subscribe, Goto
<1>3. Status(c) => Moves(c, "start", b, height) \/ Moves(c, "read", b, n)
  BY MoveForms DEF Status, Goto
<1>4. Start(c) => Moves(c, "read", b, n)
  BY MoveForms DEF Start, Goto
<1>5. Read(c) => Moves(c, "same", Head(results), n)
  BY MoveForms DEF Read
<1>6. IsSame(c) => Moves(c, IF latest = b THEN "read" ELSE "older", b, n)
  BY MoveForms DEF IsSame, Goto
<1>7. IsOlder(c) => Moves(c, IF latest > b THEN "push" ELSE "gap", b, n)
  BY MoveForms DEF IsOlder, Goto
<1>8. IsAfterGap(c) => Moves(c, IF latest + 1 < b THEN "from" ELSE "push", b, n)
  BY MoveForms DEF IsAfterGap, Goto
<1>9. FillFrom(c) => Moves(c, "fill", b, latest + 1)
  BY MoveForms DEF FillFrom
<1>10. FillEnd(c) => Moves(c, "push", b, n)
  BY MoveForms DEF FillEnd, Goto
<1>11. SetHeight(c) => Moves(c, "read", b, n)
  BY MoveForms DEF SetHeight, Goto
<1>12. \A d \in Conns : Fill(c, d) => Moves(c, "fill", b, n + 1)
  BY MoveForms DEF Fill
<1>13. \A d \in Conns : Push(c, d) => Moves(c, "set", b, n)
  BY MoveForms DEF Push, Goto
<1> QED
  BY <1>1, <1>2, <1>3, <1>4, <1>5, <1>6, <1>7, <1>8, <1>9, <1>10, <1>11, <1>12, <1>13

\* The types at the start.
LEMMA InitTypes == Init => TInv
  BY MaxHeightAssumption, EmptySeq DEF Init, TInv, TypeOK, HoldsBlock

\* A handler that takes a block keeps the types.
LEMMA TakeTypes ==
  ASSUME TypeOK, NEW d \in Conns, NEW h \in 1 .. height, Take(d, h)
  PROVE  /\ handler' \in [Conns -> {"none", "recv", "busy", "gone"}]
         /\ received' \in [Conns -> Seq(1 .. height)]
<1>1. Append(received[d], h) \in Seq(1 .. height)
  BY AppendProperties DEF TypeOK
<1> QED
  BY <1>1 DEF Take, TypeOK

\* Every step keeps the types.
LEMMA StepTypes == TInv /\ [Next]_vars => TInv'
<1> SUFFICES ASSUME TInv, [Next]_vars
             PROVE  TInv'
  OBVIOUS
<1> USE DEF TInv
<1>1. CASE UNCHANGED vars
  BY <1>1 DEF vars, TypeOK, HoldsBlock
<1>2. CASE Commit
  <2>1. height \in Nat /\ height' = height + 1 /\ height' \in 0 .. MaxHeight
    BY <1>2, MaxHeightAssumption DEF Commit, TypeOK
  <2>2. \A s \in Seq(1 .. height) : s \in Seq(1 .. height')
    BY <2>1, SeqGrows
  <2>3. results' \in Seq(1 .. height')
    <3>1. height + 1 \in 1 .. height' /\ results \in Seq(1 .. height')
      BY <2>1, <2>2 DEF TypeOK
    <3> QED
      BY <1>2, <3>1, AppendProperties DEF Commit
  <2>4. received' \in [Conns -> Seq(1 .. height')]
    BY <1>2, <2>2 DEF Commit, TypeOK
  <2>5. stream' = stream /\ latest' = latest /\ up' = up /\ handler' = handler
    BY <1>2 DEF Commit
  <2>6. 0 .. height \subseteq 0 .. height' /\ 0 .. height + 1 \subseteq 0 .. height' + 1
    BY <2>1
  <2>7. stream' \in [Conns ->
          [at : {"none", "subscribe", "status", "start", "read", "same", "older", "gap", "from",
                 "fill", "push", "set"},
           block : 0 .. height', next : 0 .. height' + 1]]
    BY <2>5, <2>6 DEF TypeOK
  <2>8. HoldsBlock'
    BY <2>1, <2>5 DEF TypeOK, HoldsBlock
  <2> QED
    BY <2>1, <2>3, <2>4, <2>5, <2>6, <2>7, <2>8 DEF TypeOK
<1> DEFINE Rest == /\ height' = height
                  /\ results' \in Seq(1 .. height)
                  /\ latest' \in 0 .. height
                  /\ up' \in BOOLEAN
                  /\ handler' \in [Conns -> {"none", "recv", "busy", "gone"}]
                  /\ received' \in [Conns -> Seq(1 .. height)]
<1>3. ASSUME Rest, stream' \in [Conns -> Stages(height')], HoldsBlock'
      PROVE  TInv'
  BY <1>3 DEF TypeOK, Stages, Labels
<1>4. ASSUME NEW c \in Conns, NEW a \in Labels, NEW b \in 0 .. height, NEW n \in 0 .. height + 1,
             Rest, Moves(c, a, b, n),
             a \in {"same", "older", "gap", "from", "fill", "push", "set"} => b >= 1,
             a = "start" => n <= height,
             a = "fill" => n >= 1
      PROVE  TInv'
  BY <1>3, <1>4, MoveTypes
<1>5. ASSUME NEW c \in Conns, Die(c) \/ Done(c) \/ Gone(c)
      PROVE  TInv'
  BY <1>5 DEF Die, Done, Gone, TypeOK, HoldsBlock
<1>6. ASSUME NEW c \in Conns, Open(c) \/ Stream(c)
      PROVE  TInv'
  <2> DEFINE b == stream[c].block
             n == stream[c].next
  <2>1. /\ b \in 0 .. height /\ n \in 0 .. height + 1 /\ height \in Nat /\ latest \in 0 .. height
        /\ stream[c].at \in {"same", "older", "gap", "from", "fill", "push", "set"} => b >= 1
    BY StageFact DEF TypeOK, HoldsBlock
  <2>2. CASE Open(c)
    <3>1. Rest
      BY <2>2 DEF Open, TypeOK
    <3>2. Moves(c, "subscribe", b, n)
      BY <2>2, ActionMoves
    <3> QED
      BY <1>4, <2>1, <3>1, <3>2 DEF Labels
  <2>3. CASE Subscribe(c)
    <3>1. Rest
      BY <2>3 DEF Subscribe, TypeOK
    <3>2. Moves(c, "status", b, n)
      BY <2>3, ActionMoves
    <3> QED
      BY <1>4, <2>1, <3>1, <3>2 DEF Labels
  <2>4. CASE Status(c)
    <3>1. Rest
      BY <2>4 DEF Status, TypeOK
    <3>2. Moves(c, "start", b, height) \/ Moves(c, "read", b, n)
      BY <2>4, ActionMoves
    <3>3. "start" \in Labels /\ "read" \in Labels /\ height \in 0 .. height + 1 /\ height <= height
      BY <2>1 DEF Labels
    <3> HIDE DEF Labels, Rest, b, n
    <3>4. CASE Moves(c, "start", b, height)
      BY <1>4, <2>1, <3>1, <3>3, <3>4
    <3>5. CASE Moves(c, "read", b, n)
      BY <1>4, <2>1, <3>1, <3>3, <3>5
    <3> QED
      BY <3>2, <3>4, <3>5
  <2>5. CASE Start(c)
    <3>1. n \in 0 .. height
      BY <2>5 DEF Start, TypeOK, HoldsBlock
    <3>2. Rest
      BY <2>5, <3>1 DEF Start, TypeOK
    <3>3. Moves(c, "read", b, n)
      BY <2>5, ActionMoves
    <3> QED
      BY <1>4, <2>1, <3>2, <3>3 DEF Labels
  <2>6. CASE Read(c)
    <3>1. Head(results) \in 1 .. height /\ Tail(results) \in Seq(1 .. height)
      BY <2>6, HeadTailProperties DEF Read, TypeOK
    <3>2. Rest
      BY <2>6, <3>1 DEF Read, TypeOK
    <3>3. Moves(c, "same", Head(results), n)
      BY <2>6, ActionMoves
    <3>4. Head(results) \in 0 .. height /\ Head(results) >= 1
      BY <2>1, <3>1
    <3> QED
      BY <1>4, <2>1, <3>2, <3>3, <3>4 DEF Labels
  <2>7. CASE IsSame(c)
    <3>1. Rest
      BY <2>7 DEF IsSame, TypeOK
    <3>2. Moves(c, "read", b, n) \/ Moves(c, "older", b, n)
      BY <2>7, ActionMoves
    <3>3. b >= 1
      BY <2>1, <2>7 DEF IsSame
    <3> QED
      BY <1>4, <2>1, <3>1, <3>2, <3>3 DEF Labels
  <2>8. CASE IsOlder(c)
    <3>1. Rest
      BY <2>8 DEF IsOlder, TypeOK
    <3>2. Moves(c, "push", b, n) \/ Moves(c, "gap", b, n)
      BY <2>8, ActionMoves
    <3>3. b >= 1
      BY <2>1, <2>8 DEF IsOlder
    <3> QED
      BY <1>4, <2>1, <3>1, <3>2, <3>3 DEF Labels
  <2>9. CASE IsAfterGap(c)
    <3>1. Rest
      BY <2>9 DEF IsAfterGap, TypeOK
    <3>2. Moves(c, "from", b, n) \/ Moves(c, "push", b, n)
      BY <2>9, ActionMoves
    <3>3. b >= 1
      BY <2>1, <2>9 DEF IsAfterGap
    <3> QED
      BY <1>4, <2>1, <3>1, <3>2, <3>3 DEF Labels
  <2>10. CASE FillFrom(c)
    <3>1. Rest
      BY <2>10 DEF FillFrom, TypeOK
    <3>2. Moves(c, "fill", b, latest + 1)
      BY <2>10, ActionMoves
    <3>3. b >= 1
      BY <2>1, <2>10 DEF FillFrom
    <3>4. latest + 1 \in 0 .. height + 1 /\ latest + 1 >= 1
      BY <2>1
    <3> QED
      BY <1>4, <2>1, <3>1, <3>2, <3>3, <3>4 DEF Labels
  <2>11. CASE FillEnd(c)
    <3>1. Rest
      BY <2>11 DEF FillEnd, TypeOK
    <3>2. Moves(c, "push", b, n)
      BY <2>11, ActionMoves
    <3>3. b >= 1
      BY <2>1, <2>11 DEF FillEnd
    <3> QED
      BY <1>4, <2>1, <3>1, <3>2, <3>3 DEF Labels
  <2>12. CASE SetHeight(c)
    <3>1. Rest
      BY <2>12 DEF SetHeight, TypeOK
    <3>2. Moves(c, "read", b, n)
      BY <2>12, ActionMoves
    <3>3. b >= 1
      BY <2>1, <2>12 DEF SetHeight
    <3> QED
      BY <1>4, <2>1, <3>1, <3>2, <3>3 DEF Labels
  <2>13. CASE \E d \in Conns : Fill(c, d)
    <3>1. PICK d \in Conns : Fill(c, d)
      BY <2>13
    <3>2. n \in 1 .. height /\ b >= 1
      BY <2>1, <3>1 DEF Fill, HoldsBlock
    <3>3. /\ handler' \in [Conns -> {"none", "recv", "busy", "gone"}]
          /\ received' \in [Conns -> Seq(1 .. height)]
      BY <3>1, <3>2, TakeTypes DEF Fill
    <3>4. Rest
      BY <3>1, <3>3 DEF Fill, TypeOK
    <3>5. Moves(c, "fill", b, n + 1)
      BY <3>1, ActionMoves
    <3>6. n + 1 \in 0 .. height + 1 /\ n + 1 >= 1
      BY <2>1, <3>2
    <3> QED
      BY <1>4, <2>1, <3>2, <3>4, <3>5, <3>6 DEF Labels
  <2>14. CASE \E d \in Conns : Push(c, d)
    <3>1. PICK d \in Conns : Push(c, d)
      BY <2>14
    <3>2. b \in 1 .. height /\ b >= 1
      BY <2>1, <3>1 DEF Push, HoldsBlock
    <3>3. /\ handler' \in [Conns -> {"none", "recv", "busy", "gone"}]
          /\ received' \in [Conns -> Seq(1 .. height)]
      BY <3>1, <3>2, TakeTypes DEF Push
    <3>4. Rest
      BY <3>1, <3>3 DEF Push, TypeOK
    <3>5. Moves(c, "set", b, n)
      BY <3>1, ActionMoves
    <3> QED
      BY <1>4, <2>1, <3>2, <3>4, <3>5 DEF Labels
  <2> QED
    BY <1>6, <2>2, <2>3, <2>4, <2>5, <2>6, <2>7, <2>8, <2>9, <2>10, <2>11, <2>12, <2>13, <2>14 DEF Stream
<1> QED
  BY <1>1, <1>2, <1>5, <1>6 DEF Next

\* Every variable of the streams keeps its type, whatever streams do to the
\* height they share.
THEOREM TypesCorrect == Spec => []TypeOK
<1>1. TInv => TypeOK
  BY DEF TInv
<1> QED
  BY <1>1, InitTypes, StepTypes, PTL DEF Spec

-----------------------------------------------------------------------------
(* One connection *)

OneConnection == \A c, d \in Conns : c = d

IInv == TInv /\ Position /\ FeedSkipsNothing

\* What a handler has received after it took a block.
LEMMA TakeFacts ==
  ASSUME TypeOK, NEW d \in Conns, NEW h \in 1 .. height, Take(d, h)
  PROVE  /\ Got(d)'
         /\ Newest(d)' = h
         /\ Len(received'[d]) = Len(received[d]) + 1
         /\ Len(received[d]) \in Nat
         /\ \A i \in 1 .. Len(received[d]) : received'[d][i] = received[d][i]
         /\ received'[d][Len(received[d]) + 1] = h
         /\ ~Got(d) => Len(received[d]) = 0
<1>1. received[d] \in Seq(1 .. height)
  BY DEF TypeOK
<1>2. received'[d] = Append(received[d], h)
  BY DEF Take, TypeOK
<1> QED
  BY <1>1, <1>2, AppendProperties, LenProperties, EmptySeq DEF Got, Newest

\* A handler that takes a block at most one above the last has skipped nothing.
LEMMA TakeSkipsNothing ==
  ASSUME TypeOK, OneConnection, FeedSkipsNothing, NEW d \in Conns, NEW h \in 1 .. height,
         Take(d, h), Got(d) => h <= Newest(d) + 1
  PROVE  FeedSkipsNothing'
<1> SUFFICES ASSUME NEW i \in 2 .. Len(received'[d])
             PROVE  received'[d][i] <= received'[d][i - 1] + 1
  BY DEF FeedSkipsNothing, OneConnection
<1> DEFINE n == Len(received[d])
<1>1. n \in Nat /\ Len(received'[d]) = n + 1
  BY TakeFacts
<1>2. \A j \in 1 .. n : received'[d][j] = received[d][j]
  BY TakeFacts
<1>3. CASE i <= n
  <2>1. i \in 2 .. n /\ i \in 1 .. n /\ i - 1 \in 1 .. n
    BY <1>1, <1>3
  <2> QED
    BY <1>2, <2>1 DEF FeedSkipsNothing
<1>4. CASE i = n + 1
  <2>1. n \in 1 .. n /\ Got(d)
    BY <1>1, <1>4, TakeFacts
  <2>2. received'[d][i] = h /\ received'[d][i - 1] = Newest(d)
    BY <1>1, <1>2, <1>4, <2>1, TakeFacts DEF Newest
  <2> QED
    BY <2>1, <2>2
<1> QED
  BY <1>1, <1>3, <1>4

\* The invariant holds at the start.
LEMMA InitInv == Init => IInv
<1> SUFFICES ASSUME Init PROVE IInv
  OBVIOUS
<1>1. TInv
  BY InitTypes
<1>2. Position
  BY DEF Init, Position, Got
<1>3. FeedSkipsNothing
  BY EmptySeq DEF Init, FeedSkipsNothing
<1> QED
  BY <1>1, <1>2, <1>3 DEF IInv

\* With one connection, every step keeps the feed without gaps.
LEMMA StepInv == OneConnection /\ IInv /\ [Next]_vars => (Position /\ FeedSkipsNothing)'
<1> SUFFICES ASSUME OneConnection, IInv, [Next]_vars
             PROVE  Position' /\ FeedSkipsNothing'
  OBVIOUS
<1> USE DEF IInv, TInv
<1>1. ASSUME UNCHANGED <<latest, stream, received>>
      PROVE  Position' /\ FeedSkipsNothing'
  BY <1>1 DEF Position, FeedSkipsNothing, Got, Newest
<1>2. ASSUME UNCHANGED received
      PROVE  FeedSkipsNothing' /\ \A c \in Conns : Got(c)' = Got(c) /\ Newest(c)' = Newest(c)
  BY <1>2 DEF FeedSkipsNothing, Got, Newest
<1>3. ASSUME NEW c \in Conns, Open(c) \/ Subscribe(c) \/ Status(c) \/ Start(c) \/ Read(c)
      PROVE  Position' /\ FeedSkipsNothing'
  <2>1. UNCHANGED received
    BY <1>3 DEF Open, Subscribe, Status, Start, Read
  <2> QED
    BY <1>2, <1>3, <2>1 DEF Open, Subscribe, Status, Start, Read, Goto, Position, OneConnection, TypeOK
<1>4. ASSUME NEW c \in Conns, IsSame(c) \/ IsOlder(c) \/ IsAfterGap(c) \/ FillFrom(c)
      PROVE  Position' /\ FeedSkipsNothing'
  <2>1. UNCHANGED <<latest, received>>
    BY <1>4 DEF IsSame, IsOlder, IsAfterGap, FillFrom
  <2>2. latest \in Int /\ stream[c].block \in Int
    BY DEF TypeOK
  <2>3. ASSUME NEW a, NEW b, NEW n, Moves(c, a, b, n)
        PROVE  stream'[c].at = a /\ stream'[c].block = b /\ stream'[c].next = n
    BY <2>3 DEF Moves, TypeOK
  <2>4. CASE IsSame(c)
    <3>1. Moves(c, IF latest = stream[c].block THEN "read" ELSE "older", stream[c].block, stream[c].next)
      BY <2>4, ActionMoves
    <3> QED
      BY <1>2, <2>1, <2>2, <2>3, <2>4, <3>1 DEF IsSame, Position, OneConnection
  <2>5. CASE IsOlder(c)
    <3>1. Moves(c, IF latest > stream[c].block THEN "push" ELSE "gap", stream[c].block, stream[c].next)
      BY <2>5, ActionMoves
    <3> QED
      BY <1>2, <2>1, <2>2, <2>3, <2>5, <3>1 DEF IsOlder, Position, OneConnection
  <2>6. CASE IsAfterGap(c)
    <3>1. Moves(c, IF latest + 1 < stream[c].block THEN "from" ELSE "push", stream[c].block, stream[c].next)
      BY <2>6, ActionMoves
    <3> QED
      BY <1>2, <2>1, <2>2, <2>3, <2>6, <3>1 DEF IsAfterGap, Position, OneConnection
  <2>7. CASE FillFrom(c)
    <3>1. Moves(c, "fill", stream[c].block, latest + 1)
      BY <2>7, ActionMoves
    <3>2. /\ stream'[c].at = "fill" /\ stream'[c].next = latest + 1
          /\ \A d \in Conns : d = c
      BY <2>3, <3>1 DEF OneConnection
    <3>3. Got(c) => latest = Newest(c)
      BY <2>7 DEF FillFrom, Position
    <3> QED
      BY <1>2, <2>1, <3>2, <3>3 DEF Position
  <2> QED
    BY <1>4, <2>4, <2>5, <2>6, <2>7
<1>5. ASSUME NEW c \in Conns, FillEnd(c) \/ SetHeight(c)
      PROVE  Position' /\ FeedSkipsNothing'
  <2>1. UNCHANGED received
    BY <1>5 DEF FillEnd, SetHeight
  <2>2. stream[c].block \in Int /\ stream[c].next \in Int
    BY DEF TypeOK
  <2> QED
    BY <1>2, <1>5, <2>1, <2>2 DEF FillEnd, SetHeight, Goto, Position, OneConnection, TypeOK
<1>6. ASSUME NEW c \in Conns, NEW d \in Conns, Fill(c, d)
      PROVE  Position' /\ FeedSkipsNothing'
  <2>1. stream[c].next \in 1 .. height /\ c = d
    BY <1>6 DEF Fill, TypeOK, HoldsBlock, OneConnection
  <2>2. Got(d)' /\ Newest(d)' = stream[c].next
    BY <1>6, <2>1, TakeFacts DEF Fill
  <2>3. Got(d) => stream[c].next = Newest(d) + 1
    BY <1>6, <2>1 DEF Fill, Position
  <2>4. FeedSkipsNothing'
    <3>1. Got(d) => stream[c].next <= Newest(d) + 1
      BY <2>1, <2>3
    <3> QED
      BY <1>6, <2>1, <3>1, TakeSkipsNothing DEF Fill
  <2>5. Position'
    BY <1>6, <2>1, <2>2 DEF Fill, Position, OneConnection, TypeOK
  <2> QED
    BY <2>4, <2>5
<1>7. ASSUME NEW c \in Conns, NEW d \in Conns, Push(c, d)
      PROVE  Position' /\ FeedSkipsNothing'
  <2>1. stream[c].block \in 1 .. height /\ c = d
    BY <1>7 DEF Push, TypeOK, HoldsBlock, OneConnection
  <2>2. Got(d)' /\ Newest(d)' = stream[c].block
    BY <1>7, <2>1, TakeFacts DEF Push
  <2>3. FeedSkipsNothing'
    <3>1. Got(d) => stream[c].block <= Newest(d) + 1
      BY <1>7, <2>1 DEF Push, Position
    <3> QED
      BY <1>7, <2>1, <3>1, TakeSkipsNothing DEF Push
  <2>4. Position'
    BY <1>7, <2>1, <2>2 DEF Push, Goto, Position, OneConnection, TypeOK
  <2> QED
    BY <2>3, <2>4
<1> QED
  BY <1>1, <1>3, <1>4, <1>5, <1>6, <1>7 DEF Next, Stream, Commit, Die, Done, Gone, vars

\* IInv is inductive when there is one connection.
THEOREM Invariance ==
  ASSUME OneConnection
  PROVE  Spec => []IInv
<1>1. IInv /\ [Next]_vars => IInv'
  BY StepTypes, StepInv DEF IInv
<1> QED
  BY <1>1, InitInv, PTL DEF Spec

\* A single connection misses no block, whatever events of the node are lost.
THEOREM FeedComplete ==
  ASSUME OneConnection
  PROVE  Spec => []FeedSkipsNothing
<1>1. IInv => FeedSkipsNothing
  BY DEF IInv
<1> QED
  BY <1>1, Invariance, PTL

\* With a single connection the shared height is that of the block handed over
\* last, whenever the stream reads the next event.
THEOREM LatestFollows ==
  ASSUME OneConnection
  PROVE  Spec => []LatestIsLast
<1>1. IInv => LatestIsLast
  BY DEF IInv, Position, LatestIsLast, Got, Newest
<1> QED
  BY <1>1, Invariance, PTL

=============================================================================
