----------------------------- MODULE BlockStream -----------------------------
(***************************************************************************)
(* How new blocks reach the browsers: BlockStream and the receiving side   *)
(* of Updates in manager/manager.go.                                       *)
(*                                                                         *)
(* Every websocket connection brings a handler (Updates) and a goroutine   *)
(* of its own (BlockStream).  All of them share one websocket to the node, *)
(* one m.latestHeight and one unbuffered channel m.blocks: a block goes to *)
(* any handler that is waiting for one.  Nothing ever closes the done      *)
(* channel of a stream, so a stream lives as long as the process.          *)
(***************************************************************************)
EXTENDS Integers, Sequences

CONSTANTS
  Conns,        \* websocket connections
  MaxHeight     \* bound: how many blocks the chain grows to

ASSUME MaxHeightAssumption == MaxHeight \in Nat

VARIABLES
  height,       \* the height of the chain
  results,      \* the heights of the new-block events that wait to be read
  latest,       \* m.latestHeight
  up,           \* the process has not died
  stream,       \* what each goroutine is at, its block, the missed block it fetches
  handler,      \* whether each handler waits for a block
  received      \* history: the heights each handler has received, in order

vars == <<height, results, latest, up, stream, handler, received>>

\* Under way, a stream has subscribed to new blocks.
Subscribed(c) == stream[c].at \notin {"none", "subscribe"}

Goto(c, label) == stream' = [stream EXCEPT ![c].at = label]

-----------------------------------------------------------------------------
(* The node *)

\* A block is committed; the event for it is sent to the subscriber, or lost.
Commit ==
  /\ height < MaxHeight
  /\ height' = height + 1
  /\ \/ /\ \E c \in Conns : Subscribed(c)
        /\ results' = Append(results, height + 1)
     \/ UNCHANGED results
  /\ UNCHANGED <<latest, up, stream, handler, received>>

-----------------------------------------------------------------------------
(* BlockStream *)

\* Updates has its websocket and the first message on it, and starts a stream.
Open(c) ==
  /\ up
  /\ stream[c].at = "none"
  /\ Goto(c, "subscribe")
  /\ handler' = [handler EXCEPT ![c] = "recv"]
  /\ UNCHANGED <<height, results, latest, up, received>>

Subscribe(c) ==
  /\ up
  /\ stream[c].at = "subscribe"
  /\ Goto(c, "status")
  /\ UNCHANGED <<height, results, latest, up, handler, received>>

\* The node answers with the height of the moment; without an answer the height
\* stays as it is.
Status(c) ==
  /\ up
  /\ stream[c].at = "status"
  /\ \/ stream' = [stream EXCEPT ![c].at = "start", ![c].next = height]
     \/ Goto(c, "read")
  /\ UNCHANGED <<height, results, latest, up, handler, received>>

Start(c) ==
  /\ up
  /\ stream[c].at = "start"
  /\ latest' = stream[c].next
  /\ Goto(c, "read")
  /\ UNCHANGED <<height, results, up, handler, received>>

\* An event without a block is passed over, as if it were lost.
Read(c) ==
  /\ up
  /\ stream[c].at = "read"
  /\ results # <<>>
  /\ stream' = [stream EXCEPT ![c].at = "same", ![c].block = Head(results)]
  /\ results' = Tail(results)
  /\ UNCHANGED <<height, latest, up, handler, received>>

\* Mutated form: the comparison is one off.
IsSameOffByOne(c) ==
  /\ up
  /\ stream[c].at = "same"
  /\ Goto(c, IF latest + 1 = stream[c].block THEN "read" ELSE "older")
  /\ UNCHANGED <<height, results, latest, up, handler, received>>

\* Four reads of the shared height choose what becomes of the block.
IsSame(c) ==
  /\ up
  /\ stream[c].at = "same"
  /\ Goto(c, IF latest = stream[c].block THEN "read" ELSE "older")
  /\ UNCHANGED <<height, results, latest, up, handler, received>>

IsOlder(c) ==
  /\ up
  /\ stream[c].at = "older"
  /\ Goto(c, IF latest > stream[c].block THEN "push" ELSE "gap")
  /\ UNCHANGED <<height, results, latest, up, handler, received>>

IsAfterGap(c) ==
  /\ up
  /\ stream[c].at = "gap"
  /\ Goto(c, IF latest + 1 < stream[c].block THEN "from" ELSE "push")
  /\ UNCHANGED <<height, results, latest, up, handler, received>>

\* Mutated form: the fill starts one block late.
FillFromLate(c) ==
  /\ up
  /\ stream[c].at = "from"
  /\ stream' = [stream EXCEPT ![c].at = "fill", ![c].next = latest + 2]
  /\ UNCHANGED <<height, results, latest, up, handler, received>>

FillFrom(c) ==
  /\ up
  /\ stream[c].at = "from"
  /\ stream' = [stream EXCEPT ![c].at = "fill", ![c].next = latest + 1]
  /\ UNCHANGED <<height, results, latest, up, handler, received>>

\* A handler d takes block h from the channel.
Take(d, h) ==
  /\ handler[d] = "recv"
  /\ handler' = [handler EXCEPT ![d] = "busy"]
  /\ received' = [received EXCEPT ![d] = Append(@, h)]

\* Mutated form: the fill goes one block too far.
FillPast(c, d) ==
  /\ up
  /\ stream[c].at = "fill"
  /\ stream[c].next <= stream[c].block + 1
  /\ Take(d, stream[c].next)
  /\ stream' = [stream EXCEPT ![c].next = @ + 1]
  /\ UNCHANGED <<height, results, latest, up>>

\* A missed block is fetched and sent, the block itself included.
Fill(c, d) ==
  /\ up
  /\ stream[c].at = "fill"
  /\ stream[c].next <= stream[c].block
  /\ Take(d, stream[c].next)
  /\ stream' = [stream EXCEPT ![c].next = @ + 1]
  /\ UNCHANGED <<height, results, latest, up>>

FillEnd(c) ==
  /\ up
  /\ stream[c].at = "fill"
  /\ stream[c].next > stream[c].block
  /\ Goto(c, "push")
  /\ UNCHANGED <<height, results, latest, up, handler, received>>

\* Mutated form: the height is not set after the block is handed over.
PushOnly(c, d) ==
  /\ up
  /\ stream[c].at = "push"
  /\ Take(d, stream[c].block)
  /\ Goto(c, "read")
  /\ UNCHANGED <<height, results, latest, up>>

Push(c, d) ==
  /\ up
  /\ stream[c].at = "push"
  /\ Take(d, stream[c].block)
  /\ Goto(c, "set")
  /\ UNCHANGED <<height, results, latest, up>>

SetHeight(c) ==
  /\ up
  /\ stream[c].at = "set"
  /\ latest' = stream[c].block
  /\ Goto(c, "read")
  /\ UNCHANGED <<height, results, up, handler, received>>

\* A call over the websocket or RPC fails: the goroutine panics, and with it
\* the process.
Die(c) ==
  /\ up
  /\ stream[c].at \in {"subscribe", "read", "fill"}
  /\ up' = FALSE
  /\ UNCHANGED <<height, results, latest, stream, handler, received>>

-----------------------------------------------------------------------------
(* Updates *)

\* The handler has worked through its block and waits for the next.
Done(c) ==
  /\ up
  /\ handler[c] = "busy"
  /\ handler' = [handler EXCEPT ![c] = "recv"]
  /\ UNCHANGED <<height, results, latest, up, stream, received>>

\* The handler panics.  Its stream goes on.
Gone(c) ==
  /\ up
  /\ handler[c] = "busy"
  /\ handler' = [handler EXCEPT ![c] = "gone"]
  /\ UNCHANGED <<height, results, latest, up, stream, received>>

-----------------------------------------------------------------------------
Init ==
  /\ height \in 0 .. MaxHeight
  /\ results = <<>>
  /\ latest = 0
  /\ up = TRUE
  /\ stream = [c \in Conns |-> [at |-> "none", block |-> 0, next |-> 0]]
  /\ handler = [c \in Conns |-> "none"]
  /\ received = [c \in Conns |-> <<>>]

\* The steps a stream takes by itself once it is open.
Stream(c) ==
  \/ Subscribe(c) \/ Status(c) \/ Start(c) \/ Read(c)
  \/ IsSame(c) \/ IsOlder(c) \/ IsAfterGap(c) \/ FillFrom(c) \/ FillEnd(c) \/ SetHeight(c)
  \/ \E d \in Conns : Fill(c, d) \/ Push(c, d)

Next ==
  \/ Commit
  \/ \E c \in Conns : Open(c) \/ Stream(c) \/ Die(c) \/ Done(c) \/ Gone(c)

\* Goroutines that can run do, and a handler gets through its block.
Fairness == \A c \in Conns : WF_vars(Stream(c)) /\ WF_vars(Done(c))

Spec == Init /\ [][Next]_vars /\ Fairness

-----------------------------------------------------------------------------
(* Properties *)

Elements(s) == {s[i] : i \in DOMAIN s}

\* Every variable has its type, and no event is ahead of the chain.
TypeOK ==
  /\ height \in 0 .. MaxHeight
  /\ results \in Seq(1 .. height)
  /\ latest \in 0 .. height
  /\ up \in BOOLEAN
  /\ stream \in [Conns ->
       [at : {"none", "subscribe", "status", "start", "read", "same", "older", "gap", "from", "fill",
              "push", "set"},
        block : 0 .. height, next : 0 .. height + 1]]
  /\ handler \in [Conns -> {"none", "recv", "busy", "gone"}]
  /\ received \in [Conns -> Seq(1 .. height)]

\* With one connection a handler misses no block: whatever events are lost,
\* the block it receives is at most one higher than the one before.
FeedSkipsNothing ==
  \A c \in Conns : \A i \in 2 .. Len(received[c]) : received[c][i] <= received[c][i - 1] + 1

\* With one connection the shared height is that of the block last handed
\* over, whenever the stream goes to read the next event.
LatestIsLast ==
  \A c \in Conns : stream[c].at = "read" /\ received[c] # <<>> =>
    latest = received[c][Len(received[c])]

\* A block above the shared height whose event has arrived is received in the
\* end, unless the process has died or the handler is gone.
AnnouncedIsReceived ==
  \A c \in Conns, h \in 1 .. MaxHeight :
    stream[c].at = "read" /\ h \in Elements(results) /\ h > latest
      ~> h \in Elements(received[c]) \/ ~up \/ handler[c] = "gone"

=============================================================================
