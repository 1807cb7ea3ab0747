-------------------------------- MODULE Form --------------------------------
(***************************************************************************)
(* types/form.go: the form a citizen submits, the identifier computed from *)
(* it, and the Info that travels in a transaction in its place.            *)
(*                                                                         *)
(* A form identifier is 16 bytes, all zero to begin with, into which the   *)
(* submission minute, the issue and the location are XORed, byte by byte as *)
(* far as both reach.  A string is abstracted to the set of bits set in it, *)
(* a bit being the index of its byte and its place there: XOR is then the   *)
(* symmetric difference of sets, and of the item only the bytes that the    *)
(* identifier has take part.                                               *)
(***************************************************************************)
EXTENDS Integers

FORM_ID_LENGTH == 16

\* What of an item is within the bytes of an identifier.
Cut(item) == {bit \in item : bit[1] < FORM_ID_LENGTH}

\* XOR of one item into the bytes.
XOR(bytes, item) == (bytes \ Cut(item)) \cup (Cut(item) \ bytes)

\* The minute is SubmittedAt cut to its first 16 characters.
ID(form) == XOR(XOR(XOR({}, form.minute), form.issue), form.location)

(***************************************************************************)
(* The content identifier is a hash of the whole encoded form, so a form   *)
(* stands for its own content identifier.  The location of an Info is read *)
(* by no one and is left out.                                              *)
(***************************************************************************)
NewInfo(form) ==
  [id |-> ID(form), cid |-> form, issue |-> form.issue, submitter |-> form.submitter]

=============================================================================
