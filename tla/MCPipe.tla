------------------------------- MODULE MCPipe -------------------------------
(***************************************************************************)
(* Instances of Pipe that TLC checks: where the descriptors of the pipe    *)
(* are at the start.                                                       *)
(***************************************************************************)
EXTENDS Pipe

CONSTANTS p1, p2, p3

\* After 'pipe, fork' and one close on either side: p1 reads, p2 writes.
Split == [e \in Proc |-> [n \in Fdno |-> IF e = p1 /\ n = 0 THEN "r"
                                         ELSE IF e = p2 /\ n = 0 THEN "w" ELSE "none"]]

\* After 'pipe': p1 has both ends, the others are still to be forked.
Created == [e \in Proc |-> [n \in Fdno |-> IF e = p1 /\ n = 0 THEN "r"
                                           ELSE IF e = p1 /\ n = 1 THEN "w" ELSE "none"]]

\* After 'pipe, fork': both have both ends.  With a third process to fork,
\* NoFalseClose fails from here (README, Divergences).
Shared == [e \in Proc |-> [n \in Fdno |-> IF e \in {p1, p2} /\ n = 0 THEN "r"
                                          ELSE IF e \in {p1, p2} /\ n = 1 THEN "w"
                                          ELSE "none"]]
=============================================================================
