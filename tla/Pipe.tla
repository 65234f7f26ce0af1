-------------------------------- MODULE Pipe --------------------------------
(***************************************************************************)
(* Pipes of the user library: user/lib/pipe.c, with the parts of           *)
(* user/lib/fd.c and user/lib/fork.c that map and unmap a pipe's pages.    *)
(*                                                                         *)
(* A pipe is three shared pages: the Fd page of the read end, that of the  *)
(* write end, and the page of 'struct Pipe' ("the pipe page"), mapped once *)
(* at fd2data() of every open descriptor.  Whether the other end is closed *)
(* is read off the pages' reference counts.  The library runs in user mode *)
(* and a timer interrupt may switch environments between any two of its    *)
(* instructions: every step below touches shared state once.               *)
(***************************************************************************)
EXTENDS Integers, Sequences, FiniteSets

CONSTANTS
  Proc,        \* environments
  NFd,         \* descriptor numbers are 0..NFd-1
  BY2PIPE,     \* size of the buffer
  PosMod,      \* number of values of p_rpos and p_wpos, a multiple of BY2PIPE
  IndexFirst,  \* whether the compiler stores p_rpos++ (p_wpos++) before it
               \* touches p_buf: C leaves the order open
  Ops,         \* the library calls the programs make
  Sizes,       \* arguments 'n' of read and write
  MaxBytes,    \* bound: bytes written over the life of the pipe
  Start        \* descriptors open at the start: [Proc -> [Fdno -> End]], or
               \* all "none" for an environment not created yet

Fdno == 0..(NFd - 1)
End == {"none", "r", "w"}

ASSUME PipeAssumption ==
  /\ IsFiniteSet(Proc)
  /\ NFd \in Nat \ {0}
  /\ BY2PIPE \in Nat \ {0}
  /\ PosMod \in Nat /\ PosMod > BY2PIPE /\ PosMod % BY2PIPE = 0
  /\ IndexFirst \in BOOLEAN
  /\ Sizes \subseteq Nat \ {0}
  /\ MaxBytes \in Nat
  /\ Start \in [Proc -> [Fdno -> End]]

VARIABLES
  fdpg,    \* which Fd page is mapped at INDEX2FD(n)
  data,    \* whether the pipe page is mapped at INDEX2DATA(n)
  p_rpos, p_wpos, p_buf,
  loc,     \* per environment: program counter and locals of the call in progress
  sent,    \* history: bytes stored in the pipe
  got,     \* history: bytes fetched, in order
  told     \* history: the ends at which e was told that the pipe is closed

vars == <<fdpg, data, p_rpos, p_wpos, p_buf, loc, sent, got, told>>

Pcs == {"free", "idle", "read", "take", "taken", "write", "put", "stored",
        "runs", "fd_ref", "pipe_ref", "unmap_fd", "unmap_data", "dup_data",
        "dup_fd", "fork"}

Local == [pc : Pcs,
          op : {"none", "read", "write", "check", "close", "dup", "fork"},
          fd : Fdno,             \* the descriptor worked on
          arg : Int,             \* read, write: bytes wanted; dup: the source
          n : Nat,               \* bytes done; fork: pages done
          idx : 0..(PosMod - 1), \* the loaded position
          byte : 0..MaxBytes,    \* the loaded byte
          child : Proc,
          ref : Nat,             \* fd_ref
          rerun : BOOLEAN]       \* env_runs differs from 'runs'

TypeOK ==
  /\ fdpg \in [Proc -> [Fdno -> End]]
  /\ data \in [Proc -> [Fdno -> BOOLEAN]]
  /\ p_rpos \in 0..(PosMod - 1) /\ p_wpos \in 0..(PosMod - 1)
  /\ p_buf \in [0..(BY2PIPE - 1) -> 0..MaxBytes]
  /\ loc \in [Proc -> Local]
  /\ sent \in 0..MaxBytes
  /\ got \in Seq(0..MaxBytes)
  /\ told \in [Proc -> SUBSET {"r", "w"}]

Open(e) == {n \in Fdno : fdpg[e][n] # "none"}

Idle(e) == [pc |-> "idle", op |-> "none", fd |-> 0, arg |-> 0, n |-> 0, idx |-> 0,
            byte |-> 0, child |-> e, ref |-> 0, rerun |-> FALSE]

\* pipe() has run, and the descriptors have been inherited and closed as Start
\* says.
Init ==
  /\ fdpg = Start
  /\ data = [e \in Proc |-> [n \in Fdno |-> Start[e][n] # "none"]]
  /\ p_rpos = 0 /\ p_wpos = 0
  /\ p_buf = [i \in 0..(BY2PIPE - 1) |-> 0]
  /\ loc = [e \in Proc |-> [Idle(e) EXCEPT
              !.pc = IF \E n \in Fdno : Start[e][n] # "none" THEN "idle" ELSE "free"]]
  /\ sent = 0 /\ got = <<>>
  /\ told = [e \in Proc |-> {}]

-----------------------------------------------------------------------------
(***************************************************************************)
(* e executes one step and its locals become l.  Every other environment   *)
(* that runs again later finds its env_runs increased (env_run), which     *)
(* matters to one that has loaded 'runs'.                                  *)
(***************************************************************************)
Preempted(f) == [loc[f] EXCEPT !.rerun = loc[f].pc \in {"fd_ref", "pipe_ref"}]

Step(e, l) == loc' = [f \in Proc |-> IF f = e THEN l ELSE Preempted(f)]

Goto(e, pc) == Step(e, [loc[e] EXCEPT !.pc = pc])

UnchangedPipe == UNCHANGED <<p_rpos, p_wpos, p_buf, sent, got>>
UnchangedMaps == UNCHANGED <<fdpg, data>>

At(e, pc) == loc[e].pc = pc

Call(e, op, pc, fd, arg) ==
  /\ op \in Ops /\ At(e, "idle")
  /\ Step(e, [Idle(e) EXCEPT !.pc = pc, !.op = op, !.fd = fd, !.arg = arg])
  /\ UnchangedPipe /\ UnchangedMaps /\ UNCHANGED told

\* pageref(): pp_ref of the page, by what maps it.
pageref_fd(end) ==
  Cardinality({x \in Proc \X Fdno : fdpg[x[1]][x[2]] = end})
pageref_pipe == Cardinality({x \in Proc \X Fdno : data[x[1]][x[2]]})

-----------------------------------------------------------------------------
(***************************************************************************)
(* _pipe_is_closed, called from pipe_read, pipe_write and pipe_is_closed.  *)
(***************************************************************************)
pipe_is_closed(e) ==
  \E n \in Open(e) : Call(e, "check", "runs", n, 0)

read_runs(e) ==
  /\ At(e, "runs")
  /\ Step(e, [loc[e] EXCEPT !.pc = "fd_ref", !.rerun = FALSE])
  /\ UnchangedPipe /\ UnchangedMaps /\ UNCHANGED told

read_fd_ref(e) ==
  /\ At(e, "fd_ref")
  /\ Step(e, [loc[e] EXCEPT !.pc = "pipe_ref",
                            !.ref = pageref_fd(fdpg[e][loc[e].fd])])
  /\ UnchangedPipe /\ UnchangedMaps /\ UNCHANGED told

\* The caller goes on: a closed pipe ends the call, an open one is waited for
\* with syscall_yield, which pipe_is_closed does not do.
Conclude(e, closed) ==
  LET l == loc[e]
  IN  /\ Step(e, IF closed \/ l.op = "check" THEN Idle(e)
                 ELSE [l EXCEPT !.pc = l.op])
      /\ told' = IF ~closed THEN told
                 ELSE [told EXCEPT ![e] = @ \union {fdpg[e][l.fd]}]

\* Mutant of read_pipe_ref: the loop on env_runs is forgotten.
read_pipe_ref_once(e) ==
  /\ At(e, "pipe_ref")
  /\ Conclude(e, loc[e].ref = pageref_pipe)
  /\ UnchangedPipe /\ UnchangedMaps

\* 'pipe_ref = pageref(p)' and the test of env_runs.
read_pipe_ref(e) ==
  /\ At(e, "pipe_ref")
  /\ IF loc[e].rerun THEN Goto(e, "runs") /\ UNCHANGED told
     ELSE Conclude(e, loc[e].ref = pageref_pipe)
  /\ UnchangedPipe /\ UnchangedMaps

\* An iteration that no interrupt hits, the normal case: it reads both counts in
\* one time slice.
read_refs(e) ==
  /\ At(e, "runs")
  /\ Conclude(e, pageref_fd(fdpg[e][loc[e].fd]) = pageref_pipe)
  /\ UnchangedPipe /\ UnchangedMaps

-----------------------------------------------------------------------------
(***************************************************************************)
(* pipe_read.  One reader and one writer use the pipe at a time: the       *)
(* position the other side moves is loaded once per test.                  *)
(***************************************************************************)
_pipe_is_empty == p_rpos >= p_wpos

\* Mutant of _pipe_is_full: one byte more than the buffer holds.
pipe_is_full_late == (p_wpos - p_rpos) % PosMod > BY2PIPE

_pipe_is_full == (p_wpos - p_rpos) % PosMod >= BY2PIPE

pipe_read(e) ==
  \E fd \in Fdno, n \in Sizes :
    fdpg[e][fd] = "r" /\ Call(e, "read", "read", fd, n)

\* Mutant of read_test: a byte already read does not end the call.
read_test_all(e) ==
  LET l == loc[e]
  IN  /\ At(e, "read")
      /\ Step(e, IF ~_pipe_is_empty /\ l.n < l.arg THEN [l EXCEPT !.pc = "take"]
                 ELSE IF l.n = l.arg THEN Idle(e)
                 ELSE [l EXCEPT !.pc = "read"])
      /\ UnchangedPipe /\ UnchangedMaps /\ UNCHANGED told

\* The inner loop's test and, when it fails, 'nbytes > 0'.
read_test(e) ==
  LET l == loc[e]
  IN  /\ At(e, "read")
      /\ Step(e, IF ~_pipe_is_empty /\ l.n < l.arg THEN [l EXCEPT !.pc = "take"]
                 ELSE IF l.n > 0 THEN Idle(e)
                 ELSE [l EXCEPT !.pc = "runs"])
      /\ UnchangedPipe /\ UnchangedMaps /\ UNCHANGED told

\* Load p_rpos and do the first of its update and the access to p_buf.
take(e) ==
  /\ At(e, "take")
  /\ Step(e, [loc[e] EXCEPT !.pc = "taken", !.idx = p_rpos,
                !.byte = IF IndexFirst THEN 0 ELSE p_buf[p_rpos % BY2PIPE]])
  /\ p_rpos' = IF IndexFirst THEN (p_rpos + 1) % PosMod ELSE p_rpos
  /\ UNCHANGED <<p_wpos, p_buf, sent, got, told>> /\ UnchangedMaps

taken(e) ==
  LET l == loc[e]
      byte == IF IndexFirst THEN p_buf[l.idx % BY2PIPE] ELSE l.byte
  IN  /\ At(e, "taken")
      /\ Step(e, [l EXCEPT !.pc = "read", !.n = @ + 1, !.idx = 0, !.byte = 0])
      /\ got' = Append(got, byte)
      /\ p_rpos' = IF IndexFirst THEN p_rpos ELSE (l.idx + 1) % PosMod
      /\ UNCHANGED <<p_wpos, p_buf, sent, told>> /\ UnchangedMaps

-----------------------------------------------------------------------------
(***************************************************************************)
(* pipe_write.                                                             *)
(***************************************************************************)
pipe_write(e) ==
  \E fd \in Fdno, n \in Sizes :
    /\ fdpg[e][fd] = "w" /\ sent + n <= MaxBytes
    /\ Call(e, "write", "write", fd, n)

\* Mutant of write_test: 'nbytes <= n'.
write_test_over(e) ==
  LET l == loc[e]
  IN  /\ At(e, "write")
      /\ Step(e, IF ~_pipe_is_full /\ l.n <= l.arg THEN [l EXCEPT !.pc = "put"]
                 ELSE IF l.n >= l.arg THEN Idle(e)
                 ELSE [l EXCEPT !.pc = "runs"])
      /\ UnchangedPipe /\ UnchangedMaps /\ UNCHANGED told

\* Mutant of write_test: a full pipe is waited for without _pipe_is_closed.
write_test_blind(e) ==
  LET l == loc[e]
  IN  /\ At(e, "write")
      /\ Step(e, IF ~_pipe_is_full /\ l.n < l.arg THEN [l EXCEPT !.pc = "put"]
                 ELSE IF l.n = l.arg THEN Idle(e)
                 ELSE l)
      /\ UnchangedPipe /\ UnchangedMaps /\ UNCHANGED told

write_test(e) ==
  LET l == loc[e]
  IN  /\ At(e, "write")
      /\ Step(e, IF ~_pipe_is_full /\ l.n < l.arg THEN [l EXCEPT !.pc = "put"]
                 ELSE IF l.n = l.arg THEN Idle(e)
                 ELSE [l EXCEPT !.pc = "runs"])
      /\ UnchangedPipe /\ UnchangedMaps /\ UNCHANGED told

put(e) ==
  /\ At(e, "put")
  /\ Step(e, [loc[e] EXCEPT !.pc = "stored", !.idx = p_wpos])
  /\ IF IndexFirst
       THEN p_wpos' = (p_wpos + 1) % PosMod /\ UNCHANGED p_buf
       ELSE p_buf' = [p_buf EXCEPT ![p_wpos % BY2PIPE] = sent + 1] /\ UNCHANGED p_wpos
  /\ UNCHANGED <<p_rpos, sent, got, told>> /\ UnchangedMaps

stored(e) ==
  LET l == loc[e]
  IN  /\ At(e, "stored")
      /\ Step(e, [l EXCEPT !.pc = "write", !.n = @ + 1, !.idx = 0])
      /\ IF IndexFirst
           THEN p_buf' = [p_buf EXCEPT ![l.idx % BY2PIPE] = sent + 1] /\ UNCHANGED p_wpos
           ELSE p_wpos' = (l.idx + 1) % PosMod /\ UNCHANGED p_buf
      /\ sent' = sent + 1
      /\ UNCHANGED <<p_rpos, got, told>> /\ UnchangedMaps

-----------------------------------------------------------------------------
(***************************************************************************)
(* Mapping and unmapping: close with pipe_close, dup, and fork, which      *)
(* shares PTE_LIBRARY pages with the child in the order of their addresses *)
(* (all Fd pages are below all pipe pages).                                *)
(***************************************************************************)
close(e) ==
  \E n \in Open(e) : Call(e, "close", "unmap_fd", n, 0)

unmap_fd(e) ==
  /\ At(e, "unmap_fd")
  /\ fdpg' = [fdpg EXCEPT ![e][loc[e].fd] = "none"]
  /\ Goto(e, "unmap_data")
  /\ UnchangedPipe /\ UNCHANGED <<data, told>>

\* The second fd_close() of close() finds the Fd page unmapped already.
unmap_data(e) ==
  LET l == loc[e]
  IN  /\ At(e, "unmap_data")
      /\ data' = [data EXCEPT ![e][l.fd] = FALSE]
      /\ Step(e, IF l.op = "dup" THEN [l EXCEPT !.pc = "dup_data"] ELSE Idle(e))
      /\ UnchangedPipe /\ UNCHANGED <<fdpg, told>>

dup(e) ==
  \E old \in Open(e), new \in Fdno :
    Call(e, "dup", IF new \in Open(e) THEN "unmap_fd" ELSE "dup_data", new, old)

dup_data(e) ==
  LET l == loc[e]
  IN  /\ At(e, "dup_data")
      /\ data' = [data EXCEPT ![e][l.fd] = @ \/ data[e][l.arg]]
      /\ Goto(e, "dup_fd")
      /\ UnchangedPipe /\ UNCHANGED <<fdpg, told>>

\* syscall_mem_map of the Fd page fails if the page is gone, which dup(n, n)
\* brings about; the error path unmaps what is left of the new descriptor.
dup_fd(e) ==
  LET l == loc[e]
  IN  /\ At(e, "dup_fd")
      /\ fdpg' = [fdpg EXCEPT ![e][l.fd] = fdpg[e][l.arg]]
      /\ data' = [data EXCEPT ![e][l.fd] = @ /\ fdpg[e][l.arg] # "none"]
      /\ Step(e, Idle(e))
      /\ UnchangedPipe /\ UNCHANGED told

\* syscall_exofork hands out an environment nobody else is forking.
fork(e) ==
  \E c \in Proc :
    /\ "fork" \in Ops /\ At(e, "idle") /\ At(c, "free")
    /\ \A f \in Proc : At(f, "fork") => loc[f].child # c
    /\ Step(e, [Idle(e) EXCEPT !.pc = "fork", !.op = "fork", !.child = c])
    /\ UnchangedPipe /\ UnchangedMaps /\ UNCHANGED told

\* duppage, in the order of the addresses; then the child becomes runnable.
duppage(e) ==
  LET l == loc[e]
      c == l.child
  IN  /\ At(e, "fork")
      /\ \/ /\ l.n < NFd
            /\ fdpg' = [fdpg EXCEPT ![c][l.n] = fdpg[e][l.n]] /\ UNCHANGED data
            /\ Step(e, [l EXCEPT !.n = @ + 1])
         \/ /\ l.n \in NFd..(2 * NFd - 1)
            /\ data' = [data EXCEPT ![c][l.n - NFd] = data[e][l.n - NFd]]
            /\ Step(e, [l EXCEPT !.n = @ + 1]) /\ UNCHANGED fdpg
         \/ /\ l.n = 2 * NFd
            /\ loc' = [f \in Proc |-> IF f \in {e, c} THEN Idle(f)
                                      ELSE Preempted(f)]
            /\ UnchangedMaps
      /\ UnchangedPipe /\ UNCHANGED told

-----------------------------------------------------------------------------
Calls(e) == pipe_is_closed(e) \/ pipe_read(e) \/ pipe_write(e) \/ close(e) \/ dup(e)
              \/ fork(e)

Steps(e) == read_runs(e) \/ read_fd_ref(e) \/ read_pipe_ref(e) \/ read_test(e) \/ take(e)
              \/ taken(e) \/ write_test(e) \/ put(e) \/ stored(e) \/ unmap_fd(e)
              \/ unmap_data(e) \/ dup_data(e) \/ dup_fd(e) \/ duppage(e)

Next == \E e \in Proc : Calls(e) \/ Steps(e) \/ read_refs(e)

Spec == Init /\ [][Next]_vars

(***************************************************************************)
(* The scheduler runs every runnable environment again and again, and a    *)
(* time slice (5 ms) is long enough for one iteration of the loop in       *)
(* _pipe_is_closed, so not every iteration is interrupted.                 *)
(***************************************************************************)
FairSpec == Spec /\ \A e \in Proc : WF_vars(Steps(e)) /\ SF_vars(read_refs(e))

-----------------------------------------------------------------------------
Holders(end) == {e \in Proc : \E n \in Fdno : fdpg[e][n] = end}

\* "If they're the same, the pipe is closed" (pipe.c): nobody who was told that
\* the pipe is closed is wrong, then or later: no environment has the other end
\* open any more.
NoFalseClose ==
  \A e \in Proc : /\ "r" \in told[e] => Holders("w") = {}
                  /\ "w" \in told[e] => Holders("r") = {}

\* With one reader and one writer the pipe is a FIFO of BY2PIPE bytes: none is
\* lost, doubled, reordered or overwritten, whatever the interleaving.
chan == [i \in 1..((p_wpos - p_rpos) % PosMod) |-> p_buf[(p_rpos + i - 1) % BY2PIPE]]
Fifo == INSTANCE Channel WITH Capacity <- BY2PIPE
PipeIsFifo == Fifo!Spec

\* pipe_read: "keep yielding until the buffer isn't empty or the pipe is closed":
\* a read does not go on for ever once there is something to read, or nobody to
\* write it.
ReadReturns ==
  \A e \in Proc : (loc[e].op = "read" /\ (p_rpos # p_wpos \/ Holders("w") = {}))
                    ~> loc[e].op # "read"

\* pipe_write returns once the reader is gone.
WriteReturns ==
  \A e \in Proc : (loc[e].op = "write" /\ Holders("r") = {}) ~> loc[e].op # "write"
=============================================================================
