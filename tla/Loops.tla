------------------------------- MODULE Loops -------------------------------
(***************************************************************************)
(* Loops.  A turn is a function from the loop's states to its states; one  *)
(* that finds the condition of the loop false leaves the state as it is.   *)
(***************************************************************************)
EXTENDS Integers, Sequences

\* n turns from state s.
Iterate(turn, s, n) ==
  LET after[i \in 0..n] == IF i = 0 THEN s ELSE turn[after[i - 1]]
  IN  after[n]

\* One turn for each element of a sequence, of a turn that also depends on it.
Through(turn, s, seq) ==
  LET after[i \in 0..Len(seq)] == IF i = 0 THEN s ELSE turn[after[i - 1]][seq[i]]
  IN  after[Len(seq)]
=============================================================================
