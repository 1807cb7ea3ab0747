---------------------------- MODULE SearchPipeline ----------------------------
(***************************************************************************)
(* A search as app/app.go runs it: IterQuery reads the keys of the Merkle  *)
(* store one by one, two IterChecks pass on those in the filter of the     *)
(* issue and in the range of dates, and IterResult collects what is left.  *)
(* The first three are goroutines, the last is the request itself; each    *)
(* hands its keys to the next over an unbuffered channel.                  *)
(*                                                                         *)
(* Channel j leads to check j, channel 3 to IterResult.  The TMSP server   *)
(* holds its mutex while a search runs, so no other request changes tree   *)
(* or filters meanwhile.                                                   *)
(*                                                                         *)
(* The checks are made for forms and the tree gives keys: those of         *)
(* accounts, and form identifiers, 16 bytes that are too short for a form. *)
(* A key that does decode to a form can only come from another program: a  *)
(* remote store (main.go:19) takes writes and removals from anyone.  Such  *)
(* a program is taken to leave the store alone while a search runs.        *)
(***************************************************************************)
EXTENDS Time, Sequences, FiniteSets

CONSTANTS
  Keys,         \* keys of the store, as numbers in the order of their bytes
  FormIDs,      \* the form identifiers among them
  AccountKeys,  \* the keys of accounts
  Submitted,    \* the date of the form a key decodes to
  Issues,       \* the issues that have a filter
  IssueNames,   \* the issues that a search can name
  Searches,     \* the searches that are asked for
  NoForm,       \* what a key decodes to that is no form
  NoKey, NoSearch, NoAnswer

Checks == {1, 2}

ASSUME SearchAssumption ==
  /\ Keys \subseteq Nat
  /\ FormIDs \subseteq Keys /\ AccountKeys \subseteq Keys
  /\ Submitted \in [Keys -> Dates \cup {NoForm}]
  /\ \A k \in FormIDs \cup AccountKeys : Submitted[k] = NoForm
  /\ Issues \subseteq IssueNames
  /\ Searches \subseteq [after : Dates, before : Dates, issue : IssueNames]
  /\ NoForm \notin Dates /\ NoKey \notin Keys
  /\ NoSearch \notin Searches

VARIABLES
  tree,     \* the keys of the store
  hits,     \* the keys each filter answers yes to
  link,     \* the store can be reached
  up,       \* the process has not panicked
  search,   \* the search that is running
  answer,   \* the answer to the last request, when it was a search
  iter,     \* IterQuery: where it is, the size it was told, index and key in hand
  check,    \* the IterChecks: where they are and the key in hand
  closed,   \* the channels that are closed
  datas     \* what IterResult has collected

store == <<tree, hits>>
pipe  == <<iter, check, closed, datas>>
vars  == <<tree, hits, link, up, search, answer, iter, check, closed, datas>>

-----------------------------------------------------------------------------
(* Other requests, between two searches *)

Idle == up /\ search = NoSearch

\* An account is created.
SetAccount(k) ==
  /\ Idle /\ link
  /\ tree' = tree \cup {k}
  /\ answer' = NoAnswer
  /\ UNCHANGED <<hits, link, up, search, pipe>>

\* A form is filed: its identifier is found from now on, and another key may be
\* found with it, for the filter keeps a few bits of each.
SubmitForm(k, issue) ==
  /\ Idle /\ link
  /\ tree' = tree \cup {k}
  /\ \E other \in Keys :
       hits' = [hits EXCEPT ![issue] = @ \cup {k, other}]
  /\ answer' = NoAnswer
  /\ UNCHANGED <<link, up, search, pipe>>

\* Another program sets or removes a key of a remote store.
OtherSets(k) ==
  /\ Idle /\ link
  /\ tree' = tree \cup {k}
  /\ answer' = NoAnswer
  /\ UNCHANGED <<hits, link, up, search, pipe>>

OtherRemoves(k) ==
  /\ Idle /\ link
  /\ tree' = tree \ {k}
  /\ answer' = NoAnswer
  /\ UNCHANGED <<hits, link, up, search, pipe>>

\* The connection to the store breaks, at any moment and for good.
Break ==
  /\ link
  /\ link' = FALSE
  /\ UNCHANGED <<store, up, search, answer, pipe>>

-----------------------------------------------------------------------------
(* IterQuery *)

Size == Cardinality(tree)

\* The key at an index, counted from 0; none at an index past the last.
GetByIndex(i) ==
  IF i >= Size THEN NoKey
  ELSE CHOOSE k \in tree : Cardinality({j \in tree : j < k}) = i

Asks(at) == up /\ search # NoSearch /\ iter.at = at

QuerySize ==
  /\ Asks("size") /\ link
  /\ iter' = [iter EXCEPT !.at = "index", !.size = Size]
  /\ UNCHANGED <<store, link, up, search, answer, check, closed, datas>>

\* Mutated form: one index too many.
MoreThrough == iter.i <= iter.size

More == iter.i < iter.size

QueryIndex ==
  /\ Asks("index") /\ More /\ link
  /\ iter' = [iter EXCEPT !.at = "send", !.key = GetByIndex(iter.i)]
  /\ UNCHANGED <<store, link, up, search, answer, check, closed, datas>>

\* A query that fails is a panic.
QueryFails ==
  /\ Asks("size") \/ (Asks("index") /\ More)
  /\ ~link
  /\ up' = FALSE
  /\ UNCHANGED <<store, link, search, answer, pipe>>

\* There are no more keys.
IterClose ==
  /\ Asks("index") /\ ~More
  /\ closed' = closed \cup {1}
  /\ iter' = [iter EXCEPT !.at = "done"]
  /\ UNCHANGED <<store, link, up, search, answer, check, datas>>

-----------------------------------------------------------------------------
(* IterCheck *)

\* Mutated form: the bounds belong to the range.
TimeRangeWithBounds(key) ==
  LET t == ParseMinuteString(Submitted[key]) IN
  ParseMomentString(search.after) <= t /\ t <= ParseMomentString(search.before)

TimeRange(key) ==
  LET t == ParseMinuteString(Submitted[key]) IN
  ParseMomentString(search.after) < t /\ t < ParseMomentString(search.before)

FilterLookup(key) == search.issue \in Issues /\ key \in hits[search.issue]

\* There is no filter for the issue, or the key does not decode.
CheckPanics(j, key) ==
  \/ j = 1 /\ search.issue \notin Issues
  \/ j = 2 /\ Submitted[key] = NoForm

Passes(j, key) == (j = 1 /\ FilterLookup(key)) \/ (j = 2 /\ TimeRange(key))

At(j, at) == up /\ search # NoSearch /\ check[j].at = at

Pass(j) ==
  /\ At(j, "check")
  /\ ~CheckPanics(j, check[j].key)
  /\ Passes(j, check[j].key)
  /\ check' = [check EXCEPT ![j].at = "send"]
  /\ UNCHANGED <<store, link, up, search, answer, iter, closed, datas>>

Drop(j) ==
  /\ At(j, "check")
  /\ ~CheckPanics(j, check[j].key)
  /\ ~Passes(j, check[j].key)
  /\ check' = [check EXCEPT ![j] = [at |-> "receive", key |-> NoKey]]
  /\ UNCHANGED <<store, link, up, search, answer, iter, closed, datas>>

Panic(j) ==
  /\ At(j, "check")
  /\ CheckPanics(j, check[j].key)
  /\ up' = FALSE
  /\ UNCHANGED <<store, link, search, answer, pipe>>

\* Mutated form: the channel out is not closed.
CheckLeaves(j) ==
  /\ At(j, "receive") /\ j \in closed
  /\ check' = [check EXCEPT ![j].at = "done"]
  /\ UNCHANGED <<store, link, up, search, answer, iter, closed, datas>>

\* The channel in is closed, and so is the channel out.
CheckClose(j) ==
  /\ At(j, "receive") /\ j \in closed
  /\ closed' = closed \cup {j + 1}
  /\ check' = [check EXCEPT ![j].at = "done"]
  /\ UNCHANGED <<store, link, up, search, answer, iter, datas>>

-----------------------------------------------------------------------------
(* A send on an unbuffered channel is one step with its receive. *)

\* Mutated form: a key is dropped when the check is not ready for it.
HandOrDrop ==
  /\ Asks("send")
  /\ iter' = [iter EXCEPT !.at = "index", !.i = @ + 1, !.key = NoKey]
  /\ check' = IF At(1, "receive") THEN [check EXCEPT ![1] = [at |-> "check", key |-> iter.key]]
              ELSE check
  /\ UNCHANGED <<store, link, up, search, answer, closed, datas>>

HandFirst ==
  /\ Asks("send") /\ At(1, "receive")
  /\ iter' = [iter EXCEPT !.at = "index", !.i = @ + 1, !.key = NoKey]
  /\ check' = [check EXCEPT ![1] = [at |-> "check", key |-> iter.key]]
  /\ UNCHANGED <<store, link, up, search, answer, closed, datas>>

HandSecond ==
  /\ At(1, "send") /\ At(2, "receive")
  /\ check' = [check EXCEPT ![1] = [at |-> "receive", key |-> NoKey],
                            ![2] = [at |-> "check", key |-> check[1].key]]
  /\ UNCHANGED <<store, link, up, search, answer, iter, closed, datas>>

\* IterResult receives whenever there is something to receive.
HandResult ==
  /\ At(2, "send")
  /\ datas' = Append(datas, check[2].key)
  /\ check' = [check EXCEPT ![2] = [at |-> "receive", key |-> NoKey]]
  /\ UNCHANGED <<store, link, up, search, answer, iter, closed>>

-----------------------------------------------------------------------------
(* The request *)

\* The channels are made and the goroutines started.
Ask(s) ==
  /\ Idle
  /\ search' = s
  /\ answer' = NoAnswer
  /\ iter' = [at |-> "size", size |-> 0, i |-> 0, key |-> NoKey]
  /\ check' = [j \in Checks |-> [at |-> "receive", key |-> NoKey]]
  /\ closed' = {}
  /\ datas' = <<>>
  /\ UNCHANGED <<store, link, up>>

\* Mutated form: the first key is enough.
CollectedOne == 3 \in closed \/ Len(datas) = 1

Collected == 3 \in closed

Answer ==
  /\ up /\ search # NoSearch
  /\ Collected
  /\ answer' = [search |-> search, keys |-> datas]
  /\ search' = NoSearch
  /\ UNCHANGED <<store, link, up, pipe>>

-----------------------------------------------------------------------------
Init ==
  /\ tree = {}
  /\ hits = [issue \in Issues |-> {}]
  /\ link = TRUE
  /\ up = TRUE
  /\ search = NoSearch
  /\ answer = NoAnswer
  /\ iter = [at |-> "done", size |-> 0, i |-> 0, key |-> NoKey]
  /\ check = [j \in Checks |-> [at |-> "done", key |-> NoKey]]
  /\ closed = {1, 2, 3}
  /\ datas = <<>>

\* The steps of the search that is running.
Step ==
  \/ QuerySize \/ QueryIndex \/ QueryFails \/ IterClose
  \/ HandFirst \/ HandSecond \/ HandResult
  \/ \E j \in Checks : Pass(j) \/ Drop(j) \/ Panic(j) \/ CheckClose(j)
  \/ Answer

Next ==
  \/ \E k \in AccountKeys : SetAccount(k)
  \/ \E k \in FormIDs, issue \in Issues : SubmitForm(k, issue)
  \/ \E k \in Keys : OtherSets(k) \/ OtherRemoves(k)
  \/ Break
  \/ \E s \in Searches : Ask(s)
  \/ Step

Spec == Init /\ [][Next]_vars /\ WF_vars(Step)

-----------------------------------------------------------------------------
(* Properties *)

Places == {"receive", "check", "send", "done"}

\* Every variable has its type: what stages hold and what is answered are keys
\* of the tree.
TypeOK ==
  /\ tree \subseteq Keys
  /\ hits \in [Issues -> SUBSET Keys]
  /\ link \in BOOLEAN /\ up \in BOOLEAN
  /\ search \in Searches \cup {NoSearch}
  /\ answer = NoAnswer \/ (answer.search \in Searches /\ answer.keys \in Seq(tree))
  /\ iter \in [at : {"size", "index", "send", "done"}, size : Nat, i : Nat, key : Keys \cup {NoKey}]
  /\ iter.at = "send" => iter.key \in tree
  /\ check \in [Checks -> [at : Places, key : Keys \cup {NoKey}]]
  /\ \A j \in Checks : check[j].at \in {"check", "send"} => check[j].key \in tree
  /\ closed \subseteq {1, 2, 3}
  /\ datas \in Seq(Keys)
  /\ search # NoSearch => datas \in Seq(tree)

\* The keys that IterQuery has handed over.
Handed == {GetByIndex(i) : i \in 0 .. iter.i - 1}

InHand(j, at) == IF check[j].at = at THEN {check[j].key} ELSE {}

\* While the stages work on different keys at once, none is lost, answered
\* twice or out of order: of the keys read so far, each that the filter knows
\* is collected, in the hand of a check, or out of the range, and the collected
\* ones come in the order of the tree before those in hand.
NothingLost ==
  search # NoSearch /\ search.issue \in Issues =>
    LET waiting == InHand(1, "check") \cup InHand(1, "send") \cup InHand(2, "check") \cup InHand(2, "send")
        through == {datas[i] : i \in DOMAIN datas}
    IN
    /\ through \cup waiting \subseteq Handed
    /\ \A k \in Handed \ waiting :
         k \in through <=> (FilterLookup(k) /\ Submitted[k] # NoForm /\ TimeRange(k))
    /\ \A i, j \in DOMAIN datas : i < j => datas[i] < datas[j]
    /\ \A k \in through, w \in waiting : k < w

\* When a search is answered its goroutines have ended: none is left waiting on
\* a channel nobody uses any more.
NoGoroutineLeft ==
  answer # NoAnswer => /\ iter.at = "done"
                       /\ \A j \in Checks : check[j].at = "done"
                       /\ closed = {1, 2, 3}

Promise == INSTANCE Search

\* The pipeline answers what Search promises, key for key and in order, and
\* ends the process only where Search says so.
ImplementsSearch == Promise!Spec

\* Every search comes to an end, with an answer or with the process: the stages
\* that wait on one another do not wait for ever.
SearchEnds == search # NoSearch ~> (search = NoSearch \/ ~up)

\* doc.md:60-64, "click search to view content of matching forms": a search for
\* an issue of the genesis file does not end the process while the store answers.
SearchSurvives ==
  ~up => (~link \/ search.issue \notin Issues)

=============================================================================
