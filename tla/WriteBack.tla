------------------------------ MODULE WriteBack ------------------------------
(***************************************************************************)
(* What a write-back cache promises: its user sees every write at once,    *)
(* the store sees none of them until they are flushed, a flush ends only   *)
(* when the store agrees with what the user saw, and a cache thrown away   *)
(* leaves the store as it was.                                             *)
(***************************************************************************)
CONSTANTS Keys, Values, Nil

VARIABLES
  base,     \* what a read of the store gives
  view,     \* what a read through the cache gives
  phase,    \* whether the cache is in use or being flushed
  got       \* what the last read through the cache gave

cache == <<base, view, phase, got>>

Init ==
  /\ base \in [Keys -> Values \cup {Nil}]
  /\ view = base
  /\ phase = "open"
  /\ got = Nil

Write(k, v) ==
  /\ phase = "open"
  /\ view' = [view EXCEPT ![k] = v]
  /\ UNCHANGED <<base, phase, got>>

Read(k) ==
  /\ phase = "open"
  /\ got' = view[k]
  /\ UNCHANGED <<base, view, phase>>

Discard ==
  /\ phase = "open"
  /\ view' = base
  /\ UNCHANGED <<base, phase, got>>

BeginFlush ==
  /\ phase = "open"
  /\ phase' = "flush"
  /\ UNCHANGED <<base, view, got>>

Flush(k) ==
  /\ phase = "flush"
  /\ base' = [base EXCEPT ![k] = view[k]]
  /\ UNCHANGED <<view, phase, got>>

EndFlush ==
  /\ phase = "flush"
  /\ base = view
  /\ phase' = "open"
  /\ UNCHANGED <<base, view, got>>

Next ==
  \/ \E k \in Keys, v \in Values : Write(k, v)
  \/ \E k \in Keys : Read(k) \/ Flush(k)
  \/ Discard \/ BeginFlush \/ EndFlush

Spec == Init /\ [][Next]_cache

=============================================================================
