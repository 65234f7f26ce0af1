------------------------------ MODULE Channel ------------------------------
(***************************************************************************)
(* What a pipe promises to its reader and its writer: a bounded first-in   *)
(* first-out channel of bytes.  The k-th byte ever written is the number k *)
(* so that order, loss and duplication all show.                           *)
(***************************************************************************)
EXTENDS Integers, Sequences

CONSTANT Capacity

VARIABLES
  chan,   \* bytes written and not yet read, oldest first
  sent,   \* number of bytes written
  got     \* bytes read, in the order of reading

Init == chan = <<>> /\ sent = 0 /\ got = <<>>

Write ==
  /\ Len(chan) < Capacity
  /\ chan' = Append(chan, sent + 1)
  /\ sent' = sent + 1
  /\ UNCHANGED got

\* The byte that arrives is the oldest one.
Read ==
  /\ chan # <<>>
  /\ chan' = Tail(chan)
  /\ got' = Append(got, Head(chan))
  /\ UNCHANGED sent

Spec == Init /\ [][Write \/ Read]_<<chan, sent, got>>
=============================================================================
