-------------------------------- MODULE Cow --------------------------------
(***************************************************************************)
(* fork and copy-on-write: user/lib/fork.c with the system calls it makes, *)
(* and the kernel's do_tlb_mod and passive_alloc (kern/tlbex.c).           *)
(*                                                                         *)
(* fork and cow_entry run in user mode: between two of their system calls  *)
(* other processes run.  The process that forks is in no other code        *)
(* meanwhile, but every call it makes stores into its own stack, one of    *)
(* the pages that it is duplicating.                                       *)
(*                                                                         *)
(* A page is free when nothing maps it (KernelProofs).  An address      *)
(* space holds further frames: its directory, a page table (the addresses  *)
(* are taken to lie in one) and the page of the exception stack.           *)
(***************************************************************************)
EXTENDS Naturals, Sequences, FiniteSets

CONSTANTS
  Proc,     \* environments
  Order,    \* the virtual pages below USTACKTOP, in the order of fork's loop
  Lib,      \* those mapped with PTE_LIBRARY
  Unmapped, \* those that need not be mapped at the start
  Stack,    \* the page $sp points into
  NPage,    \* physical pages
  Val,      \* contents of a page; 0 is a cleared page
  Frame,    \* what a call leaves in the page of the stack
  MaxOps,   \* bound on the stores and forks of all programs together
  Parent,   \* the process running at the start
  None

Va == {Order[i] : i \in 1..Len(Order)}

\* Free pages are interchangeable, so a page is named after the place for which it
\* was allocated; it may outlive its use there in other address spaces.
Page == Proc \X Va \X (1..Cardinality(Proc) + 1)

Perm == [d : BOOLEAN, cow : BOOLEAN, lib : BOOLEAN]

ASSUME CowAssumption ==
  /\ IsFiniteSet(Proc) /\ NPage \in Nat /\ MaxOps \in Nat
  /\ None \notin Page \union Proc \union [pp : Page, perm : Perm]
  /\ Order \in Seq(Va) /\ \A i, j \in 1..Len(Order) : Order[i] = Order[j] => i = j
  /\ Lib \subseteq Va /\ Unmapped \subseteq Va \ Lib /\ Stack \in Va \ (Lib \union Unmapped)
  /\ 0 \in Val /\ Frame \in Val /\ Parent \in Proc

VARIABLES
  status,   \* env_status
  pt,       \* page and permission of each user page, or None
  ucow,     \* the page mapped at UCOW
  aux,      \* the further frames of each address space
  content,  \* contents of the physical pages
  handler,  \* whether env_user_tlb_mod_entry is cow_entry
  loc,      \* program counter and locals
  kern,     \* "up" or the reason of a panic
  ops       \* stores and forks so far

memory == <<pt, ucow, aux, content>>
vars == <<status, memory, handler, loc, kern, ops>>

Pcs == {"user", "exofork",                   \* the program; fork up to exofork
        "call", "dup", "again", "map",       \* fork's loop and duppage
        "handler", "status",                 \* the end of fork
        "alloc", "copy", "remap", "unmap",   \* cow_entry
        "user_panic"}

Local == [pc : Pcs,
          i : 1..(Len(Order) + 1),           \* fork: the page it is at
          child : Proc \union {None},        \* None: exofork has failed
          perm : Perm,                       \* duppage: the permission and the
          targets : {<<>>} \union {<<t>> : t \in Proc \union {None}}, \* second call
          va : Va, ret : Pcs]                \* cow_entry: the page, where to return

TypeOK ==
  /\ status \in [Proc -> {"free", "not_runnable", "runnable"}]
  /\ pt \in [Proc -> [Va -> [pp : Page, perm : Perm] \union {None}]]
  /\ ucow \in [Proc -> Page \union {None}]
  /\ aux \in [Proc -> SUBSET {"dir", "table", "xstack"}]
  /\ content \in [Page -> Val]
  /\ handler \in [Proc -> BOOLEAN]
  /\ loc \in [Proc -> Local]
  /\ kern \in {"up", "no_handler", "no_mem"}
  /\ ops \in 0..MaxOps

-----------------------------------------------------------------------------
(* Physical pages *)

Mapped == {ucow[p] : p \in Proc} \union
          {pt[x[1]][x[2]].pp : x \in {y \in Proc \X Va : pt[y[1]][y[2]] # None}}

NFree == NPage - Cardinality(Mapped \ {None})
               - Cardinality(UNION {{p} \X aux[p] : p \in Proc})

page_alloc(p, v) ==
  <<p, v, CHOOSE n \in 1..Cardinality(Proc) + 1 :
            /\ <<p, v, n>> \notin Mapped
            /\ \A k \in 1..(n - 1) : <<p, v, k>> \in Mapped>>

\* page_alloc clears a page; here it is cleared when it becomes free.
Cleared == [g \in Page |-> IF g \in Mapped' THEN content[g] ELSE 0]

Running(p) == kern = "up" /\ status[p] = "runnable"

At(p, pc) == Running(p) /\ loc[p].pc = pc

Goto(p, pc) == loc' = [loc EXCEPT ![p].pc = pc]

IdleLocal == [pc |-> "user", i |-> 1, child |-> None,
              perm |-> [d |-> FALSE, cow |-> FALSE, lib |-> FALSE], targets |-> <<>>,
              va |-> Stack, ret |-> "user"]

Init ==
  /\ status = [p \in Proc |-> IF p = Parent THEN "runnable" ELSE "free"]
  /\ \E U \in SUBSET Unmapped :
       pt = [p \in Proc |-> [v \in Va |->
               IF p # Parent \/ v \in U THEN None
               ELSE [pp |-> <<p, v, 1>>, perm |-> [d |-> TRUE, cow |-> FALSE, lib |-> v \in Lib]]]]
  /\ ucow = [p \in Proc |-> None]
  /\ aux = [p \in Proc |-> IF p = Parent THEN {"dir", "table"} ELSE {}]
  /\ content = [g \in Page |-> 0]
  /\ handler = [p \in Proc |-> FALSE]
  /\ loc = [p \in Proc |-> IdleLocal]
  /\ kern = "up"
  /\ ops = 0

-----------------------------------------------------------------------------
(* Stores and the exceptions they raise *)

\* do_tlb_refill: a page of zeros, writable, and the page table if there is none;
\* no memory is a panic.
passive_alloc(p, v) ==
  /\ IF NFree >= IF "table" \in aux[p] THEN 1 ELSE 2
     THEN /\ pt' = [pt EXCEPT ![p][v] =
                      [pp |-> page_alloc(p, v), perm |-> [d |-> TRUE, cow |-> FALSE, lib |-> FALSE]]]
          /\ aux' = [aux EXCEPT ![p] = @ \union {"table"}]
          /\ UNCHANGED kern
     ELSE kern' = "no_mem" /\ UNCHANGED <<pt, aux>>
  /\ UNCHANGED <<status, ucow, content, handler, loc, ops>>

\* The trap frame is stored on the exception stack, whose page is allocated when
\* first touched; then the process continues in cow_entry, which looks at PTE_COW.
do_tlb_mod(p, v) ==
  LET room == "xstack" \in aux[p] \/ NFree > 0 IN
  /\ kern' = IF ~room THEN "no_mem" ELSE IF handler[p] THEN "up" ELSE "no_handler"
  /\ aux' = IF room THEN [aux EXCEPT ![p] = @ \union {"xstack"}] ELSE aux
  /\ loc' = [loc EXCEPT ![p].va = v, ![p].ret = loc[p].pc,
                        ![p].pc = IF pt[p][v].perm.cow THEN "alloc" ELSE "user_panic"]
  /\ UNCHANGED <<status, pt, ucow, content, handler, ops>>

\* p stores x at v and goes on at pc; after an exception the store is repeated.
Store(p, v, x, pc) ==
  \/ pt[p][v] = None /\ passive_alloc(p, v)
  \/ pt[p][v] # None /\ ~pt[p][v].perm.d /\ do_tlb_mod(p, v)
  \/ /\ pt[p][v] # None /\ pt[p][v].perm.d
     /\ content' = [content EXCEPT ![pt[p][v].pp] = x]
     /\ Goto(p, pc)
     /\ ops' = IF pc = "user" THEN ops + 1 ELSE ops
     /\ UNCHANGED <<status, pt, ucow, aux, handler, kern>>

\* The program stores into its memory.
Write(p) == At(p, "user") /\ ops < MaxOps /\ \E v \in Va, x \in Val : Store(p, v, x, "user")

\* A function call of fork, which keeps its frame on the stack.
Call(p, pc) == Store(p, Stack, Frame, pc)

-----------------------------------------------------------------------------
(* cow_entry *)

\* syscall_mem_alloc(0, UCOW, perm); the result is ignored.
cow_alloc(p) ==
  /\ At(p, "alloc")
  /\ Goto(p, "copy")
  /\ ucow' = [ucow EXCEPT ![p] = IF NFree > 0 THEN page_alloc(p, loc[p].va) ELSE @]
  /\ UNCHANGED <<status, pt, aux, content, handler, kern, ops>>

\* memcpy to UCOW; a page that is not there is allocated passively.  Nobody stores
\* into the page copied: see WritableIsPrivate.
cow_copy(p) ==
  /\ At(p, "copy")
  /\ IF ucow[p] # None
     THEN /\ content' = [content EXCEPT ![ucow[p]] = content[pt[p][loc[p].va].pp]]
          /\ Goto(p, "remap")
          /\ UNCHANGED <<ucow, kern>>
     ELSE IF NFree > 0
     THEN ucow' = [ucow EXCEPT ![p] = page_alloc(p, loc[p].va)] /\ UNCHANGED <<content, loc, kern>>
     ELSE kern' = "no_mem" /\ UNCHANGED <<ucow, content, loc>>
  /\ UNCHANGED <<status, pt, aux, handler, ops>>

\* syscall_mem_map from UCOW to va.
cow_map(p) ==
  /\ At(p, "remap")
  /\ pt' = [pt EXCEPT ![p][loc[p].va] =
              [pp |-> ucow[p], perm |-> [@.perm EXCEPT !.d = TRUE, !.cow = FALSE]]]
  /\ Goto(p, "unmap")
  /\ UNCHANGED <<status, ucow, aux, handler, kern, ops>>
  /\ content' = Cleared

\* syscall_mem_unmap and syscall_set_trapframe, which repeats the store.
cow_unmap(p) ==
  /\ At(p, "unmap")
  /\ ucow' = [ucow EXCEPT ![p] = None]
  /\ loc' = [loc EXCEPT ![p].pc = loc[p].ret, ![p].va = Stack, ![p].ret = "user"]
  /\ UNCHANGED <<status, pt, aux, content, handler, kern, ops>>

cow_entry(p) == cow_alloc(p) \/ cow_copy(p) \/ cow_map(p) \/ cow_unmap(p)

-----------------------------------------------------------------------------
(* fork *)

\* syscall_set_tlb_mod_entry(0, cow_entry).
fork_begin(p) ==
  /\ At(p, "user") /\ ops < MaxOps
  /\ handler' = [handler EXCEPT ![p] = TRUE]
  /\ Goto(p, "exofork")
  /\ ops' = ops + 1
  /\ UNCHANGED <<status, memory, kern>>

\* A child without pages, or an error when no slot or no page for the directory
\* is left; fork does not look at the error.
sys_exofork(p) ==
  LET slots == IF NFree > 0 THEN {c \in Proc : status[c] = "free"} ELSE {} IN
  /\ At(p, "exofork")
  /\ \E c \in IF slots = {} THEN {None} ELSE slots :
       /\ status' = [q \in Proc |-> IF q = c THEN "not_runnable" ELSE status[q]]
       /\ aux' = [q \in Proc |-> IF q = c THEN {"dir"} ELSE aux[q]]
       /\ handler' = [q \in Proc |-> IF q = c THEN FALSE ELSE handler[q]]
       /\ loc' = [loc EXCEPT ![p].pc = "call", ![p].child = c, ![p].i = 1]
  /\ UNCHANGED <<pt, ucow, content, kern, ops>>

\* Mutant: the loop runs one page too far.
fork_loop_past(p) ==
  LET i == loc[p].i IN
  /\ At(p, "call")
  /\ \/ /\ IF i <= Len(Order) THEN pt[p][Order[i]] = None ELSE i = Len(Order) + 1
        /\ loc' = [loc EXCEPT ![p].i = i + 1]
        /\ UNCHANGED <<status, memory, handler, kern, ops>>
     \/ i <= Len(Order) /\ pt[p][Order[i]] # None /\ Call(p, "dup")
     \/ i > Len(Order) + 1 /\ Call(p, "handler")

\* The loop passes over an unmapped page, calls duppage for a mapped one, and
\* ends with the call of syscall_set_tlb_mod_entry.
fork_loop(p) ==
  LET i == loc[p].i IN
  /\ At(p, "call")
  /\ \/ /\ i <= Len(Order) /\ pt[p][Order[i]] = None
        /\ loc' = [loc EXCEPT ![p].i = i + 1]
        /\ UNCHANGED <<status, memory, handler, kern, ops>>
     \/ i <= Len(Order) /\ pt[p][Order[i]] # None /\ Call(p, "dup")
     \/ i > Len(Order) /\ Call(p, "handler")

\* Mutant: the parent first.
DupTargets_swapped(child, p, remap) == IF remap THEN <<p, child>> ELSE <<child>>

\* The order of duppage's calls of sys_mem_map: the child, then the parent.
DupTargets(child, p, remap) == IF remap THEN <<child, p>> ELSE <<child>>

\* The permission duppage gives to the child's page and, if remap, to the parent's.
DupPerm(perm, remap) == IF remap THEN [perm EXCEPT !.d = FALSE, !.cow = TRUE] ELSE perm

\* Mutant: PTE_LIBRARY is not looked at.
Remap_all(perm) == perm.d

Remap(perm) == perm.d /\ ~perm.lib

\* sys_mem_map(0, addr, target, addr, perm), the first of targets.  It fails for a
\* child that does not exist, or when the target's page table cannot be allocated;
\* duppage goes on all the same.
duppage_map(p, perm, targets) ==
  LET v    == Order[loc[p].i]
      t    == Head(targets)
      rest == Tail(targets)
      done == t # None /\ ("table" \in aux[t] \/ NFree > 0)
  IN
  /\ IF done
     THEN /\ pt' = [pt EXCEPT ![t][v] = [pp |-> pt[p][v].pp, perm |-> perm]]
          /\ aux' = [aux EXCEPT ![t] = @ \union {"table"}]
     ELSE UNCHANGED <<pt, aux>>
  /\ loc' = [loc EXCEPT ![p] =
       IF rest = <<>> THEN [@ EXCEPT !.pc = "call", !.i = loc[p].i + 1, !.targets = <<>>,
                                     !.perm = IdleLocal.perm]
       ELSE [@ EXCEPT !.pc = "again", !.perm = perm, !.targets = rest]]
  /\ UNCHANGED <<status, ucow, content, handler, kern, ops>>

\* duppage: reads the permission and makes the first call, its frame being on the
\* stack; the second call follows another store into the stack.
duppage(p) ==
  \/ LET perm == pt[p][Order[loc[p].i]].perm
         remap == Remap(perm)
     IN At(p, "dup") /\ duppage_map(p, DupPerm(perm, remap), DupTargets(loc[p].child, p, remap))
  \/ At(p, "again") /\ Call(p, "map")
  \/ At(p, "map") /\ duppage_map(p, loc[p].perm, loc[p].targets)

\* Mutant: only the parent's handler is set.
fork_set_handler_not(p) ==
  /\ At(p, "handler")
  /\ loc' = [loc EXCEPT ![p] =
       IF loc[p].child = None THEN IdleLocal ELSE [@ EXCEPT !.pc = "status"]]
  /\ UNCHANGED <<status, memory, handler, kern, ops>>

\* syscall_set_tlb_mod_entry(child, cow_entry); fork returns an error without a child.
fork_set_handler(p) ==
  LET c == loc[p].child IN
  /\ At(p, "handler")
  /\ handler' = [q \in Proc |-> handler[q] \/ q = c]
  /\ loc' = [loc EXCEPT ![p] = IF c = None THEN IdleLocal ELSE [@ EXCEPT !.pc = "status"]]
  /\ UNCHANGED <<status, memory, kern, ops>>

\* syscall_set_env_status(child, ENV_RUNNABLE); parent and child return from fork.
fork_set_status(p) ==
  /\ At(p, "status")
  /\ status' = [status EXCEPT ![loc[p].child] = "runnable"]
  /\ loc' = [loc EXCEPT ![p] = IdleLocal]
  /\ UNCHANGED <<memory, handler, kern, ops>>

fork(p) ==
  \/ fork_begin(p) \/ sys_exofork(p) \/ fork_loop(p)
  \/ duppage(p)
  \/ fork_set_handler(p) \/ fork_set_status(p)

-----------------------------------------------------------------------------
\* exit, of the program itself or out of user_panic: the kernel drops all pages.
exit(p) ==
  /\ Running(p) /\ loc[p].pc \in {"user", "user_panic"}
  /\ status' = [status EXCEPT ![p] = "free"]
  /\ pt' = [pt EXCEPT ![p] = [v \in Va |-> None]]
  /\ ucow' = [ucow EXCEPT ![p] = None]
  /\ aux' = [aux EXCEPT ![p] = {}]
  /\ handler' = [handler EXCEPT ![p] = FALSE]
  /\ loc' = [loc EXCEPT ![p] = IdleLocal]
  /\ content' = Cleared
  /\ UNCHANGED <<kern, ops>>

Next == \E p \in Proc : Write(p) \/ cow_entry(p) \/ fork(p) \/ exit(p)

Spec == Init /\ [][Next]_vars

-----------------------------------------------------------------------------
\* A page that a running process can store into without a fault, and that is not
\* shared on purpose, is mapped by no other running process: whoever comes first
\* with a store, duppage and cow_entry have taken PTE_D from all but one of them.
WritableIsPrivate ==
  \A p, q \in Proc, v, w \in Va :
    /\ p # q /\ status[p] = "runnable" /\ status[q] = "runnable"
    /\ pt[p][v] # None /\ pt[p][v].perm.d /\ ~pt[p][v].perm.lib
    /\ pt[q][w] # None
    => pt[p][v].pp # pt[q][w].pp

\* No store of a program into its own memory brings down the kernel for lack of a
\* handler, and cow_entry never finds a page that is not copy-on-write.
FaultsHandled ==
  kern # "no_handler" /\ \A p \in Proc : loc[p].pc # "user_panic"

running == {p \in Proc : status[p] = "runnable"}

view == [p \in running |-> [v \in Va |-> IF pt[p][v] = None THEN 0 ELSE content[pt[p][v].pp]]]

Private == INSTANCE PrivateMemory

\* Processes see memory of their own: fork copies the parent's, a store is seen by
\* its process alone except in shared pages, faults and copies change nothing.
MemoryIsPrivate == Private!Spec
=============================================================================
