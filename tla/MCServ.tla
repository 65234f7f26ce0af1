------------------------------ MODULE MCServ -------------------------------
(* Constants of the runs of FsServ *)
EXTENDS FsServ

\* One empty file, the others of one page.
Sizes == [f \in File |-> IF f = "empty" THEN 0 ELSE 1]
=============================================================================
