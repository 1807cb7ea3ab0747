-------------------------------- MODULE Search -------------------------------
(***************************************************************************)
(* What a search promises, whatever runs inside it: it answers the keys of *)
(* the tree that the filter of its issue knows and that decode to a form   *)
(* of its range, in the order of the tree.  A key that the filter knows    *)
(* and that is no form ends the process, and so do an issue without a      *)
(* filter and a store that does not answer.                                *)
(***************************************************************************)
EXTENDS Time, Sequences

CONSTANTS Keys, Submitted, Issues, Searches, NoForm, NoSearch, NoAnswer

VARIABLES
  tree,     \* the keys of the store
  hits,     \* the keys each filter answers yes to
  link,     \* the store can be reached
  up,       \* the process has not panicked
  search,   \* the search that is running
  answer    \* the answer to the last request, when it was a search

vars == <<tree, hits, link, up, search, answer>>

\* A key stops the search before it can be told whether it matches.
Stops(s, k) ==
  \/ s.issue \notin Issues
  \/ k \in hits[s.issue] /\ Submitted[k] = NoForm

InRange(s, k) ==
  LET t == ParseMinuteString(Submitted[k]) IN
  ParseMomentString(s.after) < t /\ t < ParseMomentString(s.before)

Matches(s, k) == k \in hits[s.issue] /\ InRange(s, k)

Answers(s, keys) ==
  /\ {keys[i] : i \in DOMAIN keys} = {k \in tree : Matches(s, k)}
  /\ \A i, j \in DOMAIN keys : i < j => keys[i] < keys[j]

Init ==
  /\ tree = {}
  /\ hits = [issue \in Issues |-> {}]
  /\ link = TRUE
  /\ up = TRUE
  /\ search = NoSearch
  /\ answer = NoAnswer

\* The tree and the filters change between searches only; the filters grow.
Change ==
  /\ up
  /\ search = NoSearch
  /\ tree' \subseteq Keys
  /\ \A issue \in Issues : hits[issue] \subseteq hits'[issue]
  /\ answer' = NoAnswer
  /\ UNCHANGED <<link, up, search>>

Break == link' = FALSE /\ UNCHANGED <<tree, hits, up, search, answer>>

Ask(s) ==
  /\ up
  /\ search = NoSearch
  /\ search' = s
  /\ answer' = NoAnswer
  /\ UNCHANGED <<tree, hits, link, up>>

Answer ==
  /\ up
  /\ search # NoSearch
  /\ ~\E k \in tree : Stops(search, k)
  /\ search' = NoSearch
  /\ answer'.search = search
  /\ Answers(search, answer'.keys)
  /\ UNCHANGED <<tree, hits, link, up>>

Die ==
  /\ up
  /\ search # NoSearch
  /\ ~link \/ \E k \in tree : Stops(search, k)
  /\ up' = FALSE
  /\ UNCHANGED <<tree, hits, link, search, answer>>

Next == Change \/ Break \/ (\E s \in Searches : Ask(s)) \/ Answer \/ Die

Spec == Init /\ [][Next]_vars

=============================================================================
