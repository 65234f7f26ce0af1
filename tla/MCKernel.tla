------------------------------ MODULE MCKernel ------------------------------
(***************************************************************************)
(* Constants of the instances of Kernel that TLC checks.                   *)
(***************************************************************************)
EXTENDS Kernel, TLC

\* One page table covers all user pages of the instance.
MCPtVa == {"pt"}
MCPtOf == [v \in UserVa |-> "pt"]

\* The window with a page above the directory's own page, and without one.
MCWindow == {"pt", "high"}
MCHighVa == {"high"}
MCNoHighVa == {}

\* Boot images without a page.
MCNoImage == {}

\* No order among the slots is ever used.
Symm == Permutations(Env)
=============================================================================
