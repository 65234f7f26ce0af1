------------------------------- MODULE MCCow -------------------------------
(* Constants of the runs of Cow *)
EXTENDS Cow, TLC

Pages == <<"heap", "shared", "stack">>

\* All processes but the first are alike until they run.
Symm == Permutations(Proc \ {Parent})
=============================================================================
