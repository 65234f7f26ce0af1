--------------------------- MODULE PrivateMemory ---------------------------
(***************************************************************************)
(* What fork promises to programs: every process has memory of its own,    *)
(* which starts as a copy of its parent's, and shares nothing but the      *)
(* pages marked PTE_LIBRARY.  The page of the stack is in use while fork   *)
(* runs; what the child finds in it is left open.                          *)
(***************************************************************************)
CONSTANTS Proc, Va, Lib, Stack, Val

VARIABLES
  running,  \* the processes
  view      \* what a process reads at an address

Write ==
  \E p \in running, v \in Va, x \in Val :
    /\ view' = [q \in running |-> [w \in Va |->
                  IF w = v /\ (q = p \/ v \in Lib) THEN x ELSE view[q][w]]]
    /\ UNCHANGED running

Fork ==
  \E p \in running, c \in Proc \ running, x \in Val :
    /\ running' = running \union {c}
    /\ view' = [q \in running' |-> [w \in Va |->
                  IF q # c THEN view[q][w] ELSE IF w = Stack THEN x ELSE view[p][w]]]

Exit ==
  \E p \in running :
    /\ running' = running \ {p}
    /\ view' = [q \in running' |-> view[q]]

Init == running \in SUBSET Proc /\ view \in [running -> [Va -> Val]]

Spec == Init /\ [][Write \/ Fork \/ Exit]_<<running, view>>
=============================================================================
