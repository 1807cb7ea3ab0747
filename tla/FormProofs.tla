------------------------------ MODULE FormProofs ------------------------------
(***************************************************************************)
(* Proofs about Form: when two forms have one identifier, for any bits of  *)
(* minute, issue and location.                                             *)
(***************************************************************************)
EXTENDS Form, TLAPS

\* A bit is in an identifier when it is within its bytes and in an odd number of
\* the three items.
LEMMA BitsOfID ==
  ASSUME NEW form, NEW bit
  PROVE  bit \in ID(form) <=>
           (bit \in Cut(form.minute)) # ((bit \in Cut(form.issue)) # (bit \in Cut(form.location)))
  BY DEF ID, XOR

\* The bits in which two items differ within the bytes of an identifier.
Differ(x, y) == XOR(Cut(x), y)

\* Two forms have one identifier exactly when the bits in which their minutes
\* differ are those in which issue and location together differ, within the
\* first 16 bytes of each: ID writes the three over one another.
THEOREM SameIdentifier ==
  ASSUME NEW f, NEW g
  PROVE  ID(f) = ID(g) <=>
           Differ(f.minute, g.minute) = XOR(Differ(f.issue, g.issue), Differ(f.location, g.location))
<1> DEFINE left  == Differ(f.minute, g.minute)
           right == XOR(Differ(f.issue, g.issue), Differ(f.location, g.location))
           Parts(bit, x, y) == (bit \in Cut(x)) # (bit \in Cut(y))
<1>1. \A bit : bit \in left <=> Parts(bit, f.minute, g.minute)
  BY DEF Differ, XOR
<1>2. \A bit : bit \in right <=> (Parts(bit, f.issue, g.issue) # Parts(bit, f.location, g.location))
  BY DEF Differ, XOR, Cut
<1>3. \A bit : (bit \in ID(f) <=> bit \in ID(g)) <=> (bit \in left <=> bit \in right)
  BY <1>1, <1>2, BitsOfID
<1>4. ID(f) = ID(g) <=> \A bit : bit \in ID(f) <=> bit \in ID(g)
  BY DEF ID, XOR
<1>5. left = right <=> \A bit : bit \in left <=> bit \in right
  BY DEF Differ, XOR
<1> QED
  BY <1>3, <1>4, <1>5

\* Forms about one issue in one minute are told apart by the first 16 bytes of
\* their locations, and by nothing else: two places whose names begin with the
\* same 16 bytes are one to the store.
THEOREM LocationsTellApart ==
  ASSUME NEW f, NEW g, f.minute = g.minute, f.issue = g.issue
  PROVE  ID(f) = ID(g) <=> Cut(f.location) = Cut(g.location)
<1>1. \A bit : (bit \in ID(f) <=> bit \in ID(g)) <=> (bit \in Cut(f.location) <=> bit \in Cut(g.location))
  BY BitsOfID
<1>2. ID(f) = ID(g) <=> \A bit : bit \in ID(f) <=> bit \in ID(g)
  BY DEF ID, XOR
<1>3. Cut(f.location) = Cut(g.location) <=> \A bit : bit \in Cut(f.location) <=> bit \in Cut(g.location)
  BY DEF Cut
<1> QED
  BY <1>1, <1>2, <1>3

\* Forms of one minute in which the first 16 bytes of issue and location are
\* exchanged have the same identifier, whatever else they say: the second
\* replaces the first in the store.
THEOREM ExchangedCollide ==
  ASSUME NEW f, NEW g, f.minute = g.minute,
         Cut(f.issue) = Cut(g.location), Cut(f.location) = Cut(g.issue)
  PROVE  ID(f) = ID(g)
<1>1. \A bit : bit \in ID(f) <=> bit \in ID(g)
  BY BitsOfID
<1> QED
  BY <1>1 DEF ID, XOR

=============================================================================
