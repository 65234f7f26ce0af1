------------------------------- MODULE Kernel -------------------------------
(***************************************************************************)
(* The MOS kernel: environments (kern/env.c), the scheduler (kern/sched.c),*)
(* system calls (kern/syscall_all.c) and TLB refill (kern/tlbex.c) over the*)
(* memory of Pmap and the run queue of Tailq.                              *)
(*                                                                         *)
(* The kernel runs on one CPU with interrupts off, so a handler is one     *)
(* step.  Between two handlers the environment 'curenv' executes user code *)
(* that may issue any system call, touch any page, or be interrupted by the*)
(* clock.  One system call is two steps: sys_cgetc waits in the kernel for *)
(* a key, and while it does nothing else happens (kern = "cgetc").         *)
(*                                                                         *)
(* An envid is a pair <<i, e>>: the counter of mkenvid in the high bits and*)
(* the slot ENVX(envid) in the low bits; envid 0 is NoId.                  *)
(***************************************************************************)
EXTENDS Pmap, Tailq

CONSTANTS
  ImageVa,  \* user pages of a boot image
  Pri,      \* priorities of the environments created at boot
  Boots,    \* number of environments mips_init creates
  TlbSize,  \* number of TLB slots
  MaxId,    \* bound: mkenvid is called at most MaxId times
  Console   \* bound: whether any program reads the console

ASSUME KernelAssumption ==
  /\ ImageVa \subseteq UserVa \ {NullVa}
  /\ Pri \subseteq Nat
  /\ Boots \in Nat
  /\ TlbSize \in Nat
  /\ MaxId \in Nat
  /\ Console \in BOOLEAN

VARIABLES
  mem,            \* Pmap's record
  envs,           \* the fields of struct Env that control depends on
  env_free_list,  \* env_free_list, a pool like page_free_list
  asid_bitmap,    \* ASIDs in use
  env_sched_list, \* Tailq's record
  curenv,         \* the running environment or NULL
  count,          \* time slices left, static in schedule()
  next_id,        \* the counter 'i', static in mkenvid()
  kern            \* "boot", "up", "cgetc" while sys_cgetc waits for a key,
                  \* or the reason of the panic that halted it

vars == <<mem, envs, env_free_list, asid_bitmap, env_sched_list, curenv,
          count, next_id, kern>>

ENV_FREE == "free"
ENV_RUNNABLE == "runnable"
ENV_NOT_RUNNABLE == "not_runnable"

NoId == <<0, NULL>>
EnvId == ((1..MaxId) \X Env) \union {NoId}

Panics == {"assert",      \* an assert() of pmap.c or env_run failed
           "null_link",   \* store through a null link of the run queue
           "no_runnable", \* schedule() found the run queue empty
           "no_asid",     \* asid_alloc failed in env_alloc
           "no_mem",      \* no page for a page fault or a boot image
           "bad_va"}      \* page fault below UTEMP

EnvRec == [id : EnvId, status : {ENV_FREE, ENV_RUNNABLE, ENV_NOT_RUNNABLE},
           asid : Asid, parent_id : EnvId, pri : Pri \union {0},
           ipc_recving : BOOLEAN, ipc_dstva : UserVa]

TypeOK ==
  /\ mem \in Mem
  /\ envs \in [Env -> EnvRec]
  /\ env_free_list \in SUBSET Env
  /\ asid_bitmap \in SUBSET Asid
  /\ env_sched_list \in Tailq
  /\ curenv \in Env \union {NULL}
  /\ count \in Int
  /\ next_id \in 0..MaxId
  /\ kern \in {"boot", "up", "cgetc"} \union Panics

\* env_init after page_init: envs[] is in the bss, hence zero.
Init ==
  /\ mem = page_init
  /\ envs = [e \in Env |-> [id |-> NoId, status |-> ENV_FREE, asid |-> 0,
                parent_id |-> NoId, pri |-> 0, ipc_recving |-> FALSE,
                ipc_dstva |-> NullVa]]
  /\ env_free_list = Env
  /\ asid_bitmap = {}
  /\ env_sched_list = TAILQ_INIT
  /\ curenv = NULL
  /\ count = 0
  /\ next_id = 0
  /\ kern = "boot"

-----------------------------------------------------------------------------
(***************************************************************************)
(* The scheduler.  schedule(yield) is called with the environment table es *)
(* and the queue q as the caller has left them; e is the caller's curenv.  *)
(***************************************************************************)

env_run(es, e, c, q) ==
  [cur |-> e, count |-> c, queue |-> q,
   kern |-> IF es[e].status = ENV_RUNNABLE THEN "up" ELSE "assert"]

\* Mutant of schedule: the environment stays where it is in the queue.
schedule_in_place(yield, e, es, q) ==
  LET runnable == e # NULL /\ es[e].status = ENV_RUNNABLE
  IN  IF ~yield /\ count - 1 > 0 /\ runnable THEN env_run(es, e, count - 1, q)
      ELSE IF TAILQ_EMPTY(q)
        THEN [cur |-> e, count |-> count - 1, queue |-> q, kern |-> "no_runnable"]
      ELSE LET f == TAILQ_FIRST(q) IN env_run(es, f, es[f].pri, q)

\* Mutant of schedule: TAILQ_INSERT_TAIL without TAILQ_REMOVE.
schedule_no_remove(yield, e, es, q) ==
  LET runnable == e # NULL /\ es[e].status = ENV_RUNNABLE
      moved    == IF runnable THEN TAILQ_INSERT_TAIL(q, e) ELSE q
  IN  IF ~yield /\ count - 1 > 0 /\ runnable THEN env_run(es, e, count - 1, q)
      ELSE IF moved.fault \/ TAILQ_EMPTY(moved)
        THEN [cur |-> e, count |-> count - 1, queue |-> moved,
              kern |-> IF moved.fault THEN "null_link" ELSE "no_runnable"]
      ELSE LET f == TAILQ_FIRST(moved) IN env_run(es, f, es[f].pri, moved)

schedule(yield, e, es, q) ==
  LET runnable == e # NULL /\ es[e].status = ENV_RUNNABLE
      moved    == IF runnable THEN TAILQ_INSERT_TAIL(TAILQ_REMOVE(q, e), e)
                              ELSE q
  IN  IF ~yield /\ count - 1 > 0 /\ runnable THEN env_run(es, e, count - 1, q)
      ELSE IF moved.fault \/ TAILQ_EMPTY(moved)
        THEN [cur |-> e, count |-> count - 1, queue |-> moved,
              kern |-> IF moved.fault THEN "null_link" ELSE "no_runnable"]
      ELSE LET f == TAILQ_FIRST(moved) IN env_run(es, f, es[f].pri, moved)

\* How a handler ends that has left the queue as q and the memory as m.
Outcome(q, m) == IF q.fault THEN "null_link"
                 ELSE IF m.assert_failed THEN "assert" ELSE "up"

\* A handler that ends in schedule(), which it reaches unless it panics first.
Switch(yield, e, es, q, m) ==
  LET s == schedule(yield, e, es, q)
  IN  /\ envs' = es /\ mem' = m
      /\ IF Outcome(q, m) # "up"
           THEN /\ kern' = Outcome(q, m) /\ env_sched_list' = q
                /\ UNCHANGED <<curenv, count>>
           ELSE /\ curenv' = s.cur /\ count' = s.count
                /\ env_sched_list' = s.queue /\ kern' = s.kern

\* A handler that returns to the caller.
Return(es, q, m) ==
  /\ envs' = es /\ mem' = m /\ env_sched_list' = q
  /\ kern' = Outcome(q, m)
  /\ UNCHANGED <<curenv, count>>

\* A system call that returns an error before it has changed anything; the
\* error code goes to the caller's $v0, which is not modelled.
Error == UNCHANGED vars

\* panic() never returns, so what the handler has changed on the way to it is
\* never looked at again and is left out.
Panic(reason) ==
  /\ kern' = reason
  /\ UNCHANGED <<mem, envs, env_free_list, asid_bitmap, env_sched_list, curenv,
                 count, next_id>>

UserRuns == kern = "up" /\ curenv # NULL

Me == envs[curenv]

-----------------------------------------------------------------------------
(***************************************************************************)
(* Creating and freeing environments.                                      *)
(***************************************************************************)

\* Mutant of asid_alloc: the bits of asid_bitmap are not looked at.
asid_alloc_blind == {a \in Asid : \A b \in Asid : a <= b}

\* The lowest clear bit of asid_bitmap, if there is one.
asid_alloc == {a \in Asid \ asid_bitmap :
                 \A b \in Asid \ asid_bitmap : a <= b}

mkenvid(e) == <<next_id + 1, e>>

\* The fields env_alloc sets.  Status, priority and the IPC fields keep what
\* the previous environment in this slot left there.
env_alloc(e, a, parent) ==
  [envs[e] EXCEPT !.id = mkenvid(e), !.asid = a, !.parent_id = parent]

\* env_create, before the clock starts: env_alloc, load_icode (the image is
\* abstracted to at most one page) and TAILQ_INSERT_HEAD.  mips_init creates a
\* handful of environments, fewer than there are slots, pages and ASIDs.
env_create(e, a, va, pri) ==
  LET m1   == env_setup_vm(mem, e)
      load == alloc_insert(m1, e, a, va, PTE_D)
  IN  /\ kern = "boot" /\ next_id < Boots /\ next_id < MaxId /\ mem.free # {}
      /\ IF va = NullVa THEN mem' = m1 /\ kern' = "boot"
         ELSE /\ mem' = load.mem
              /\ kern' = IF load.ret = "ok" THEN "boot" ELSE "no_mem"
      /\ envs' = [envs EXCEPT ![e] =
                    [env_alloc(e, a, NoId) EXCEPT !.pri = pri,
                                                  !.status = ENV_RUNNABLE]]
      /\ env_free_list' = env_free_list \ {e}
      /\ asid_bitmap' = asid_bitmap \union {a}
      /\ next_id' = next_id + 1
      /\ env_sched_list' = TAILQ_INSERT_HEAD(env_sched_list, e)
      /\ UNCHANGED <<curenv, count>>

EnvCreate ==
  \E e \in env_free_list, a \in asid_alloc, pri \in Pri,
     va \in IF ImageVa = {} THEN {NullVa} ELSE ImageVa :
    env_create(e, a, va, pri)

\* kclock_init and enable_irq: interrupts are taken from here on.
kclock_init ==
  /\ kern = "boot" /\ next_id = Boots
  /\ kern' = "up"
  /\ UNCHANGED <<mem, envs, env_free_list, asid_bitmap, env_sched_list, curenv,
                 count, next_id>>

\* envid2env for the running environment; NULL stands for -E_BAD_ENV.
envid2env(envid, checkperm) ==
  IF envid = NoId THEN curenv
  ELSE LET e == envid[2]
       IN  IF /\ envs[e].status # ENV_FREE /\ envs[e].id = envid
              /\ checkperm => \/ envs[e].id = Me.id
                              \/ envs[e].parent_id = Me.id
             THEN e ELSE NULL

\* What envid2env makes of the envids a system call can be given.  The handlers
\* below take the result, NULL when the call is refused with -E_BAD_ENV.
Named(checkperm) == {envid2env(id, checkperm) : id \in EnvId}

sys_exofork ==
  /\ UserRuns /\ next_id < MaxId
  /\ \/ env_free_list = {} /\ Error \* -E_NO_FREE_ENV
     \/ env_free_list # {} /\ mem.free = {} /\ Error \* -E_NO_MEM
     \/ /\ env_free_list # {} /\ mem.free # {} /\ Asid \subseteq asid_bitmap
        /\ Panic("no_asid")
     \/ \E e \in env_free_list, a \in asid_alloc :
          LET child == [env_alloc(e, a, Me.id)
                          EXCEPT !.status = ENV_NOT_RUNNABLE, !.pri = Me.pri]
          IN  /\ mem.free # {}
              /\ Return([envs EXCEPT ![e] = child], env_sched_list,
                        env_setup_vm(mem, e))
              /\ env_free_list' = env_free_list \ {e}
              /\ asid_bitmap' = asid_bitmap \union {a}
              /\ next_id' = next_id + 1

\* sys_env_destroy with env_destroy and env_free.  The slot's links in the
\* run queue are unlinked whatever its status is.
sys_env_destroy(e) ==
  LET es == [envs EXCEPT ![e].status = ENV_FREE]
      q == TAILQ_REMOVE(env_sched_list, e)
      m == env_free_vm(mem, e, envs[e].asid)
  IN  /\ UserRuns
      /\ \/ e = NULL /\ Error \* -E_BAD_ENV
         \/ /\ e # NULL
            /\ asid_bitmap' = asid_bitmap \ {envs[e].asid}
            /\ env_free_list' = env_free_list \union {e}
            /\ IF e = curenv THEN Switch(TRUE, NULL, es, q, m)
                             ELSE Return(es, q, m)
            /\ UNCHANGED next_id

sys_set_env_status(e, status) ==
  /\ UserRuns
  /\ \/ /\ status \notin {ENV_RUNNABLE, ENV_NOT_RUNNABLE}
        /\ Error \* -E_INVAL
     \/ /\ status \in {ENV_RUNNABLE, ENV_NOT_RUNNABLE} /\ e = NULL
        /\ Error \* -E_BAD_ENV
     \/ /\ status \in {ENV_RUNNABLE, ENV_NOT_RUNNABLE} /\ e # NULL
        /\ Return([envs EXCEPT ![e].status = status],
                  IF status = ENV_RUNNABLE
                    THEN TAILQ_INSERT_TAIL(env_sched_list, e)
                    ELSE TAILQ_REMOVE(env_sched_list, e), mem)
        /\ UNCHANGED <<env_free_list, asid_bitmap, next_id>>

-----------------------------------------------------------------------------
(***************************************************************************)
(* Giving up the CPU.                                                      *)
(***************************************************************************)

sys_yield ==
  /\ UserRuns
  /\ Switch(TRUE, curenv, envs, env_sched_list, mem)
  /\ UNCHANGED <<env_free_list, asid_bitmap, next_id>>

\* handle_int: schedule(0).  The first one finds curenv = NULL.
handle_int ==
  /\ kern = "up"
  /\ Switch(FALSE, curenv, envs, env_sched_list, mem)
  /\ UNCHANGED <<env_free_list, asid_bitmap, next_id>>

Quiet == UNCHANGED <<env_free_list, asid_bitmap, next_id>>

\* sys_cgetc: the kernel looks at the console until a character is there.
\* Interrupts are off, so until then no other environment runs and no clock
\* interrupt is taken.
sys_cgetc ==
  /\ UserRuns /\ Console
  /\ kern' = "cgetc"
  /\ UNCHANGED <<mem, envs, env_sched_list, curenv, count>> /\ Quiet

\* scancharc finds a key: sys_cgetc returns it.
scancharc ==
  /\ kern = "cgetc"
  /\ kern' = "up"
  /\ UNCHANGED <<mem, envs, env_sched_list, curenv, count>> /\ Quiet

-----------------------------------------------------------------------------
(***************************************************************************)
(* Memory system calls and the TLB refill exception.                       *)
(***************************************************************************)

sys_mem_alloc(e, va, perm) ==
  /\ UserRuns
  /\ \/ is_illegal_va(va) /\ Error \* -E_INVAL
     \/ ~is_illegal_va(va) /\ e = NULL /\ Error \* -E_BAD_ENV
     \/ /\ ~is_illegal_va(va) /\ e # NULL
        /\ Return(envs, env_sched_list,
                  alloc_insert(mem, e, envs[e].asid, va, perm).mem)
        /\ Quiet

sys_mem_map(src, srcva, dst, dstva, perm) ==
  LET illegal == is_illegal_va(srcva) \/ is_illegal_va(dstva)
  IN  /\ UserRuns
      /\ \/ illegal /\ Error \* -E_INVAL
         \/ ~illegal /\ (src = NULL \/ dst = NULL) /\ Error \* -E_BAD_ENV
         \/ /\ ~illegal /\ src # NULL /\ dst # NULL
            /\ page_lookup(mem, src, srcva) = NoPte
            /\ Error \* -E_INVAL
         \/ /\ ~illegal /\ src # NULL /\ dst # NULL
            /\ page_lookup(mem, src, srcva) # NoPte
            /\ Return(envs, env_sched_list,
                      page_insert(mem, dst, envs[dst].asid,
                        page_lookup(mem, src, srcva).pp, dstva, perm).mem)
            /\ Quiet

sys_mem_unmap(e, va) ==
  /\ UserRuns
  /\ \/ is_illegal_va(va) /\ Error \* -E_INVAL
     \/ ~is_illegal_va(va) /\ e = NULL /\ Error \* -E_BAD_ENV
     \/ /\ ~is_illegal_va(va) /\ e # NULL
        /\ Return(envs, env_sched_list,
                  page_remove(mem, e, envs[e].asid, va))
        /\ Quiet

\* The slots tlbwr may hit: one that holds an entry, which is lost, or an
\* unused one as long as there is one.
Cached == {x \in Asid \X Va : mem.tlb[x[1]][x[2]] # NoPte}
Victims(va) ==
  Cached \union IF Cardinality(Cached) < TlbSize THEN {<<Me.asid, va>>} ELSE {}

\* do_tlb_refill: the running environment touches a page the TLB does not
\* know.  passive_alloc maps a fresh page unless the address is too low.
do_tlb_refill(va) ==
  LET filled == alloc_insert(mem, curenv, Me.asid, va, PTE_D)
      refill(m) == \E victim \in Victims(va) :
        mem' = tlbwr(m, Me.asid, va, page_lookup(m, curenv, va), victim)
  IN  /\ UserRuns /\ mem.tlb[Me.asid][va] = NoPte
      /\ \/ page_lookup(mem, curenv, va) # NoPte /\ refill(mem) /\ kern' = kern
         \/ /\ page_lookup(mem, curenv, va) = NoPte /\ va = NullVa
            /\ kern' = "bad_va" /\ mem' = mem
         \/ /\ page_lookup(mem, curenv, va) = NoPte /\ va # NullVa
            /\ IF filled.ret = "ok" THEN refill(filled.mem) /\ kern' = kern
               ELSE mem' = filled.mem /\ kern' = "no_mem"
      /\ UNCHANGED <<envs, env_free_list, asid_bitmap, env_sched_list, curenv,
                     count, next_id>>

-----------------------------------------------------------------------------
(***************************************************************************)
(* Inter-process communication.  What the message says (env_ipc_value,     *)
(* env_ipc_from, env_ipc_perm) is left out; who waits, who is woken and    *)
(* which page is mapped is not.                                            *)
(***************************************************************************)

\* Mutant of sys_ipc_recv: it returns to its caller instead of schedule(1).
sys_ipc_recv_no_yield(dstva) ==
  LET es == [envs EXCEPT ![curenv].ipc_recving = TRUE,
                         ![curenv].ipc_dstva = dstva,
                         ![curenv].status = ENV_NOT_RUNNABLE]
  IN  /\ UserRuns
      /\ Return(es, TAILQ_REMOVE(env_sched_list, curenv), mem)
      /\ Quiet

sys_ipc_recv(dstva) ==
  LET es == [envs EXCEPT ![curenv].ipc_recving = TRUE,
                         ![curenv].ipc_dstva = dstva,
                         ![curenv].status = ENV_NOT_RUNNABLE]
  IN  /\ UserRuns
      /\ \/ dstva # NullVa /\ is_illegal_va(dstva) /\ Error \* -E_INVAL
         \/ /\ dstva = NullVa \/ ~is_illegal_va(dstva)
            /\ Switch(TRUE, curenv, es,
                      TAILQ_REMOVE(env_sched_list, curenv), mem)
            /\ Quiet

\* Mutant of sys_ipc_try_send: 'e->env_ipc_recving = 0' is forgotten.
sys_ipc_try_send_keep(e, srcva, perm) ==
  /\ UserRuns /\ srcva = NullVa /\ e # NULL /\ envs[e].ipc_recving
  /\ Return([envs EXCEPT ![e].status = ENV_RUNNABLE],
            TAILQ_INSERT_TAIL(env_sched_list, e), mem)
  /\ Quiet

\* The receiver is awake with its fields filled before the page is mapped.
sys_ipc_try_send(e, srcva, perm) ==
  LET es == [envs EXCEPT ![e].ipc_recving = FALSE,
                         ![e].status = ENV_RUNNABLE]
      q  == TAILQ_INSERT_TAIL(env_sched_list, e)
      pte == page_lookup(mem, curenv, srcva)
  IN  /\ UserRuns
      /\ \/ srcva # NullVa /\ is_illegal_va(srcva) /\ Error \* -E_INVAL
         \/ /\ srcva = NullVa \/ ~is_illegal_va(srcva)
            /\ e = NULL /\ Error \* -E_BAD_ENV
         \/ /\ srcva = NullVa \/ ~is_illegal_va(srcva)
            /\ e # NULL /\ ~envs[e].ipc_recving /\ Error \* -E_IPC_NOT_RECV
         \/ /\ srcva = NullVa \/ ~is_illegal_va(srcva)
            /\ e # NULL /\ envs[e].ipc_recving
            /\ \/ srcva = NullVa /\ Return(es, q, mem)
               \/ srcva # NullVa /\ pte = NoPte /\ Return(es, q, mem) \* -E_INVAL
               \/ /\ srcva # NullVa /\ pte # NoPte
                  /\ Return(es, q, page_insert(mem, e, envs[e].asid, pte.pp,
                                         envs[e].ipc_dstva, perm).mem)
            /\ Quiet

-----------------------------------------------------------------------------
MemSyscall ==
  /\ UserRuns
  /\ \/ \E e \in Named(TRUE), va \in UserVa, perm \in Perm :
           sys_mem_alloc(e, va, perm)
     \/ \E src, dst \in Named(TRUE), va, va2 \in UserVa, perm \in Perm :
           sys_mem_map(src, va, dst, va2, perm)
     \/ \E e \in Named(TRUE), va \in UserVa : sys_mem_unmap(e, va)
     \/ \E va \in Va : do_tlb_refill(va)

\* The address of a page above UTOP stands for all that are illegal here.
IpcVa == UserVa \union {PdVa}

Ipc ==
  /\ UserRuns
  /\ \/ \E va \in IpcVa : sys_ipc_recv(va)
     \/ \E e \in Named(FALSE), va \in IpcVa, perm \in Perm :
           sys_ipc_try_send(e, va, perm)

Common == EnvCreate \/ kclock_init \/ sys_exofork \/ sys_yield \/ handle_int
            \/ sys_cgetc \/ scancharc \/ MemSyscall \/ Ipc

(***************************************************************************)
(* Any program: every system call with every argument.                     *)
(***************************************************************************)
Next ==
  \/ Common
  \/ UserRuns /\ \E e \in Named(TRUE) : sys_env_destroy(e)
  \/ UserRuns /\ \E e \in Named(TRUE),
                    status \in {ENV_FREE, ENV_RUNNABLE, ENV_NOT_RUNNABLE} :
                    sys_set_env_status(e, status)

Spec == Init /\ [][Next]_vars

(***************************************************************************)
(* Programs built on user/lib: an environment destroys only itself (exit), *)
(* and starts only a child that fork or spawn has just built, once.  The   *)
(* error paths of spawn, which destroy the child they were building, are   *)
(* not among them.                                                         *)
(***************************************************************************)
FreshChild == {e \in Named(TRUE) \ {NULL} :
                 envs[e].status = ENV_NOT_RUNNABLE /\ ~envs[e].ipc_recving}

LibNext ==
  \/ Common
  \/ UserRuns /\ sys_env_destroy(curenv)
  \/ UserRuns /\ \E e \in FreshChild : sys_set_env_status(e, ENV_RUNNABLE)

LibSpec == Init /\ [][LibNext]_vars

\* The same with spawn's error paths: a child that cannot be filled is destroyed
\* before it was ever runnable.
SpawnNext ==
  \/ LibNext
  \/ UserRuns /\ \E e \in FreshChild : sys_env_destroy(e)

SpawnSpec == Init /\ [][SpawnNext]_vars

\* The clock goes on ticking, and a tick that finds the kernel busy stays
\* pending until the kernel returns to user mode.  A program whose sys_cgetc is
\* answered again and again is therefore interrupted in between: strong fairness.
\* Nothing makes anybody press a key: scancharc is not fair.
FairLibSpec == LibSpec /\ WF_vars(kclock_init) /\ WF_vars(EnvCreate)
                       /\ SF_vars(handle_int)

-----------------------------------------------------------------------------
(***************************************************************************)
(* Properties.                                                             *)
(***************************************************************************)

Live == {e \in Env : envs[e].status # ENV_FREE}
Runnable == {e \in Env : envs[e].status = ENV_RUNNABLE}

\* pp_ref of every page equals the number of page table entries, page
\* directory entries and directories that refer to it, whatever sequence of
\* page_insert, page_remove, env_setup_vm and env_free has run; a page that
\* env_free forgot in the top of the UVPT window counts the entry that is gone,
\* so it is lost for good but never freed twice or handed out.
PageRefsExact == RefsExact(mem)

\* "Free env e and all memory it uses" (kern/env.c, env_free): a page is counted
\* only as long as somebody refers to it.
EnvFreesAll == \A p \in Page : mem.ref[p] > 0 => Refs(mem, p) # {}

\* No page on page_free_list is mapped anywhere: page_alloc never hands out
\* memory that an address space still reaches.
FreePagesUnmapped == FreeUnmapped(mem)

\* The pages of page tables and directories are nobody's ordinary memory, and
\* every mapping hangs on an existing table.
PageTablesSound == TablesPrivate(mem) /\ TablesPresent(mem)

\* An entry env_free did not invalidate: it shows a page that is lost for good.
Leftover(m, a, v) == /\ v \in HighVa /\ m.tlb[a][v] # NoPte
                     /\ m.tlb[a][v].pp \in m.leaked

\* The TLB agrees with the page table of the environment that owns the ASID,
\* and nothing is left in it under an ASID that asid_alloc may hand out again,
\* except in the top of the UVPT window: what stays there shows only pages that
\* no environment and no page table will ever be given.
TlbCoherent ==
  /\ \A e \in Live : \A v \in Va :
       \/ mem.tlb[envs[e].asid][v] \in {NoPte, mem.pt[e][v]}
       \/ Leftover(mem, envs[e].asid, v)
  /\ \A a \in Asid \ asid_bitmap : \A v \in Va :
       mem.tlb[a][v] = NoPte \/ Leftover(mem, a, v)

\* Two living environments never share an ASID, and asid_bitmap has a bit for
\* exactly the ASIDs in use.
AsidsExact ==
  /\ asid_bitmap = {envs[e].asid : e \in Live}
  /\ \A e, f \in Live : envs[e].asid = envs[f].asid => e = f

\* "Invariant: 'env' in 'env_sched_list' iff. 'env->env_status' is 'RUNNABLE'"
\* (kern/env.c): the links form one well-shaped queue of the runnable
\* environments.
SchedListInvariant ==
  kern \in {"boot", "up", "cgetc"} =>
    \E s \in UNION {[1..n -> Runnable] : n \in 0..Cardinality(Runnable)} :
      Represents(env_sched_list, s) /\ Elems(s) = Runnable

\* The environment that executes user code is runnable, hence queued: the
\* scheduler never loses the environment it has to rotate.
CurenvRunnable == UserRuns => curenv \in Runnable

\* None of the kernel's own assertions fails (page_decref, page_free, env_run)
\* and no null link of the run queue is followed.
NoInternalPanic == kern \notin {"assert", "null_link"}

\* An environment begins to wait for a message only by its own sys_ipc_recv:
\* the flag is never inherited from the slot's previous occupant.
WaitsOnlyByOwnCall ==
  [][\A e \in Env :
       (envs'[e].ipc_recving /\ e \in Live')
         => \/ e = curenv
            \/ e \in Live /\ envs[e].ipc_recving /\ envs'[e].id = envs[e].id]_vars

\* Round robin: a runnable environment gets the CPU unless it stops being
\* runnable, the machine halts, or some sys_cgetc waits for ever for a key
\* ("kernel does busy waiting here, blocking all envs", kern/syscall_all.c).
NoStarvation ==
  \/ <>[](kern = "cgetc")
  \/ \A e \in Env : (kern = "up" /\ e \in Runnable)
                      ~> (curenv = e \/ e \notin Runnable \/ kern \in Panics)
=============================================================================
