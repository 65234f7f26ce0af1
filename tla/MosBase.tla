------------------------------ MODULE MosBase ------------------------------
(***************************************************************************)
(* The parameters the kernel's components share: the slots of the array    *)
(* 'envs' (include/env.h), the null pointer, and the address space layout  *)
(* of include/mmu.h reduced to the pages a property can tell apart.        *)
(*                                                                         *)
(* Page tables are mapped into the address space they describe: the entry  *)
(* PDX(UVPT) of a page directory is the directory itself (env_setup_vm).   *)
(* Therefore a page table is the page mapped at an address of the UVPT     *)
(* window, the directory is the page mapped at UVPT + PDX(UVPT), and the   *)
(* entry for a virtual page lives in the table mapped at Table(va).        *)
(*                                                                         *)
(* The window reaches up to ULIM, past the entries of the page tables: its *)
(* pages above the directory's own page, 0x7fe00000 and up, show the       *)
(* entries for addresses only the kernel uses.  A program may touch them   *)
(* (passive_alloc refuses only ULIM and above) and then has a page there,  *)
(* but env_free looks at the entries below PDX(UTOP) only.  HighVa are     *)
(* such pages.                                                             *)
(***************************************************************************)
EXTENDS Integers, FiniteSets

CONSTANTS
  Env,      \* slots of envs[NENV]
  NULL,     \* the null pointer
  UserVa,   \* virtual pages below UTOP
  NullVa,   \* the page of address 0, below UTEMP
  PtVa,     \* pages of the UVPT window that show an entry of the directory
  HighVa,   \* those of PtVa above the directory's own page: see below
  PdVa,     \* the page of the UVPT window that shows the page directory
  PtOf      \* which page of the window holds the entry of a user page

Va == UserVa \union PtVa \union {PdVa}

\* The virtual page of the table that holds the entry of 'va'.
Table(va) == IF va \in UserVa THEN PtOf[va] ELSE PdVa

\* Mutant of is_illegal_va: the range check is forgotten.
any_va_legal(va) == FALSE

\* A system call takes any address; the legal ones are UTEMP <= va < UTOP.
is_illegal_va(va) == va \notin UserVa \ {NullVa}

ASSUME EnvAssumption == IsFiniteSet(Env) /\ NULL \notin Env

ASSUME LayoutAssumption ==
  /\ IsFiniteSet(UserVa) /\ IsFiniteSet(PtVa)
  /\ NullVa \in UserVa
  /\ HighVa \subseteq PtVa
  /\ PdVa \notin PtVa /\ PdVa \notin UserVa
  /\ UserVa \intersect PtVa = {}
  /\ PtOf \in [UserVa -> PtVa]
  /\ \A v \in UserVa : PtOf[v] \notin HighVa
=============================================================================
