------------------------------- MODULE Shell -------------------------------
(***************************************************************************)
(* The shell, user/sh.c, and the library functions its command lines run   *)
(* through: spawn, wait, exit, close_all, dup, pipe (user/lib).            *)
(*                                                                         *)
(* A line is the sequence of its tokens.  The shell forks a process for    *)
(* it; at every '|' that process forks again, keeps the left command and   *)
(* leaves the rest to the child.  Each then spawns its program, gives up   *)
(* its descriptors and waits.  Whether a pipe has ended is decided by who  *)
(* still has its other end open (Pipe shows that the counts say so), so    *)
(* every process that forgets to close an end keeps a reader waiting.      *)
(*                                                                         *)
(* A process makes one library call per step.  Programs are echo, which    *)
(* writes and ends, and cat, which copies its input until that ends.       *)
(***************************************************************************)
EXTENDS Integers, Sequences, FiniteSets

CONSTANTS
  Lines,      \* command lines: sequences of tokens
  Missing,    \* words that name no file
  MAXARGS,    \* arguments a command may have
  NFd,        \* descriptors of a process
  BY2PIPE,    \* bytes a pipe holds
  Len0,       \* bytes echo writes, length of a file, bound of the console's input
  MaxProc,    \* bound: processes over the run
  MaxFail     \* bound: calls that fail for lack of memory

Symbols == {"<", ">", "|", "&", ";", "(", ")"}
Proc == 1..MaxProc
Sh == 1                       \* the interactive shell
Fd == 0..(NFd - 1)
Pipe == 1..MaxProc

ASSUME ShellAssumption ==
  /\ Lines \subseteq Seq(STRING)
  /\ MAXARGS \in Nat \ {0} /\ NFd \in Nat /\ NFd > 2
  /\ BY2PIPE \in Nat \ {0} /\ Len0 \in Nat
  /\ MaxProc \in Nat \ {0} /\ MaxFail \in Nat

\* What a descriptor refers to.
Obj == [kind : {"none", "cons", "file", "r", "w"}, pipe : Pipe \union {0}]
None == [kind |-> "none", pipe |-> 0]
Console == [kind |-> "cons", pipe |-> 0]
File == [kind |-> "file", pipe |-> 0]
End(k, i) == [kind |-> k, pipe |-> i]

VARIABLES
  env,      \* the processes
  held,     \* bytes in each pipe
  failed,   \* calls that have failed
  early     \* history: some runcmd returned without waiting for its right side

vars == <<env, held, failed, early>>

Pcs == {"none", "prompt", "main_wait", "parse", "fork", "right_dup", "left_dup", "close0",
        "close1", "spawn", "spawn_close", "spawn_share", "close_all", "wait_right",
        "exit", "dead", "embryo", "run", "empty", "full"}

Process ==
  [pc    : Pcs,
   line  : Seq(STRING),      \* tokens not yet parsed
   argv  : Seq(STRING),
   fds   : [Fd -> Obj],
   p     : Fd \X Fd,         \* the descriptors from pipe()
   fd    : Fd,               \* the program file, or a file cat reads
   child : Proc \union {0},  \* the spawned or forked process
   right : Proc \union {0},  \* rightpipe
   seg   : Nat,              \* which command of the line this is, from 0
   of    : Seq(STRING),      \* the line
   todo  : Nat,              \* bytes left to write, or to read from a file or the console
   byte  : BOOLEAN]          \* cat has read a byte that is not written yet

TypeOK ==
  /\ \A p \in Proc : /\ env[p].pc \in Pcs
                     /\ env[p].fds \in [Fd -> Obj]
                     /\ env[p].child \in Proc \union {0} /\ env[p].right \in Proc \union {0}
                     /\ env[p].seg \in Nat /\ env[p].todo \in Nat /\ env[p].byte \in BOOLEAN
  /\ held \in [Pipe -> 0..BY2PIPE]
  /\ failed \in 0..MaxFail
  /\ early \in BOOLEAN

Closed == [d \in Fd |-> None]

Unborn == [pc |-> "none", line |-> <<>>, argv |-> <<>>, fds |-> Closed, p |-> <<0, 0>>,
           fd |-> 0, child |-> 0, right |-> 0, seg |-> 0, of |-> <<>>, todo |-> 0,
           byte |-> FALSE]

\* init has opened the console as 0 and 1 and spawned the shell.
Init ==
  /\ env = [p \in Proc |-> IF p = Sh
              THEN [Unborn EXCEPT !.pc = "prompt", !.fds[0] = Console, !.fds[1] = Console]
              ELSE Unborn]
  /\ held = [i \in Pipe |-> 0]
  /\ failed = 0
  /\ early = FALSE

-----------------------------------------------------------------------------
(* Descriptors. *)

OpenFds(e) == {d \in Fd : e.fds[d] # None}

Least(S) == CHOOSE d \in S : \A c \in S : d <= c

\* fd_alloc: the smallest free descriptor, never the last.
FreeFds(e) == {d \in 0..(NFd - 2) : e.fds[d] = None}
fd_alloc(e) == Least(FreeFds(e))

close(e, d) == [e EXCEPT !.fds[d] = None]

dup(e, old, new) == [e EXCEPT !.fds[new] = e.fds[old]]

\* The processes that have an end of a pipe open.
Holders(end) == {p \in Proc : \E d \in Fd : env[p].fds[d] = end}

FreePipes == {i \in Pipe : Holders(End("r", i)) \union Holders(End("w", i)) = {}}

\* The next process id.
Fresh == {p \in Proc : env[p].pc = "none"}
NewProc == Least(Fresh)

Become(p, e) == env' = [env EXCEPT ![p] = e]
Goto(p, pc) == Become(p, [env[p] EXCEPT !.pc = pc])
At(p, pc) == env[p].pc = pc

\* A call may fail for lack of memory.
Fails == failed < MaxFail /\ failed' = failed + 1
Succeeds == UNCHANGED failed

-----------------------------------------------------------------------------
(* sh.c: main *)

\* readline and fork: one line of a behaviour.  A comment is skipped, a failing fork is
\* a user_panic.
main(l) ==
  LET c == NewProc
      sh == env[Sh]
      comment == l # <<>> /\ Head(l) = "#"
  IN  /\ At(Sh, "prompt") /\ sh.of = <<>> /\ sh.child = 0 /\ Fresh # {}
      /\ \/ comment /\ Succeeds /\ Become(Sh, [sh EXCEPT !.of = l])
         \/ ~comment /\ Fails /\ Goto(Sh, "exit")
         \/ /\ ~comment /\ Succeeds
            /\ env' = [env EXCEPT ![Sh].pc = "main_wait", ![Sh].child = c, ![Sh].of = l,
                         ![c] = [Unborn EXCEPT !.pc = "parse", !.line = l, !.of = l,
                                               !.fds = sh.fds]]
      /\ UNCHANGED <<held, early>>

\* wait: until the process with that id is gone.
main_wait ==
  /\ At(Sh, "main_wait") /\ At(env[Sh].child, "dead")
  /\ Goto(Sh, "prompt")
  /\ UNCHANGED <<held, failed, early>>

-----------------------------------------------------------------------------
(* sh.c: parsecmd *)

\* parsecmd has returned to runcmd: an empty command ends the process at once.
RunCmd(e) == [e EXCEPT !.pc = IF e.argv = <<>> THEN "exit" ELSE "spawn"]
Early(e) == early' = (early \/ (e.argv = <<>> /\ e.right # 0))

\* The end of the line.
parse_end(p) ==
  LET e == env[p]
  IN  /\ e.line = <<>>
      /\ Become(p, RunCmd(e)) /\ Early(e)
      /\ UNCHANGED <<held, failed>>

\* gettoken: a word.
parse_word(p) ==
  LET e == env[p]
  IN  /\ e.line # <<>> /\ Head(e.line) \notin Symbols
      /\ Become(p, IF Len(e.argv) >= MAXARGS THEN [e EXCEPT !.pc = "exit"]
                   ELSE [e EXCEPT !.line = Tail(@), !.argv = Append(@, Head(e.line))])
      /\ UNCHANGED <<held, failed, early>>

\* '<' and '>': open the file, dup it onto 0 or 1, close it.
parse_redirect(p) ==
  LET e == env[p]
      onto == IF Head(e.line) = "<" THEN 0 ELSE 1
      fd == fd_alloc(e)
      opened == [e EXCEPT !.fds[fd] = File]
      word == Len(e.line) > 1 /\ e.line[2] \notin Symbols
      ok == word /\ e.line[2] \notin Missing /\ FreeFds(e) # {}
  IN  /\ e.line # <<>> /\ Head(e.line) \in {"<", ">"}
      /\ Become(p, IF ok THEN [close(dup(opened, fd, onto), fd) EXCEPT !.line = SubSeq(@, 3, Len(@))]
                   ELSE [e EXCEPT !.pc = "exit"])
      /\ UNCHANGED <<held, failed, early>>

\* '|': pipe() takes two descriptors.
parse_pipe(p) ==
  LET e == env[p]
      i == Least(FreePipes)
      fd0 == fd_alloc(e)
      e0 == [e EXCEPT !.fds[fd0] = End("r", i)]
      fd1 == fd_alloc(e0)
      e1 == [e0 EXCEPT !.fds[fd1] = End("w", i), !.p = <<fd0, fd1>>, !.pc = "fork"]
      possible == FreeFds(e) # {} /\ FreeFds(e0) # {}
  IN  /\ e.line # <<>> /\ Head(e.line) = "|"
      /\ \/ possible /\ Succeeds /\ Become(p, e1) /\ held' = [held EXCEPT ![i] = 0]
         \/ ~possible /\ Succeeds /\ Goto(p, "exit") /\ UNCHANGED held
         \/ possible /\ Fails /\ Goto(p, "exit") /\ UNCHANGED held
      /\ UNCHANGED early

\* Other symbols have no case in the switch.
parse_other(p) ==
  LET e == env[p]
  IN  /\ e.line # <<>> /\ Head(e.line) \in Symbols \ {"<", ">", "|"}
      /\ Become(p, [e EXCEPT !.line = Tail(@)])
      /\ UNCHANGED <<held, failed, early>>

\* gettoken and the switch of parsecmd.
parsecmd(p) ==
  /\ At(p, "parse")
  /\ parse_end(p) \/ parse_word(p) \/ parse_redirect(p) \/ parse_pipe(p) \/ parse_other(p)

\* The child parses the rest with an argv of its own.
pipe_fork(p) ==
  LET e == env[p]
      c == NewProc
  IN  /\ At(p, "fork")
      /\ \/ Fails /\ Goto(p, "exit")
         \/ /\ Succeeds /\ Fresh # {}
            /\ env' = [env EXCEPT ![p].pc = "left_dup", ![p].right = c,
                         ![c] = [e EXCEPT !.pc = "right_dup", !.right = 0, !.argv = <<>>,
                                          !.line = Tail(e.line), !.seg = e.seg + 1]]
      /\ UNCHANGED <<held, early>>

right_dup(p) ==
  /\ At(p, "right_dup")
  /\ Become(p, [dup(env[p], env[p].p[1], 0) EXCEPT !.pc = "close0"])
  /\ UNCHANGED <<held, failed, early>>

left_dup(p) ==
  /\ At(p, "left_dup")
  /\ Become(p, [dup(env[p], env[p].p[2], 1) EXCEPT !.pc = "close0"])
  /\ UNCHANGED <<held, failed, early>>

\* Both sides close the read end, then the write end.
pipe_close0(p) ==
  /\ At(p, "close0")
  /\ Become(p, [close(env[p], env[p].p[1]) EXCEPT !.pc = "close1"])
  /\ UNCHANGED <<held, failed, early>>

\* Mutant: the right side keeps the write end of its own input.
pipe_close1_forgets(p) ==
  LET e == env[p]
      right == e.right = 0
  IN  /\ At(p, "close1")
      /\ Become(p, IF right THEN [e EXCEPT !.pc = "parse"] ELSE RunCmd(close(e, e.p[2])))
      /\ IF right THEN UNCHANGED early ELSE Early(e)
      /\ UNCHANGED <<held, failed>>

\* The right side goes on parsing, the left side returns to runcmd.
pipe_close1(p) ==
  LET e == env[p]
      closed == close(e, e.p[2])
      right == e.right = 0
  IN  /\ At(p, "close1")
      /\ Become(p, IF right THEN [closed EXCEPT !.pc = "parse"] ELSE RunCmd(closed))
      /\ IF right THEN UNCHANGED early ELSE Early(e)
      /\ UNCHANGED <<held, failed>>

-----------------------------------------------------------------------------
(* sh.c: runcmd; spawn.c, wait.c, libos.c *)

Exists(e) == e.argv[1] \notin Missing /\ FreeFds(e) # {}

\* Opening the program and syscall_exofork; failing later is the run spawn_error.
spawn(p) ==
  LET e == env[p]
      c == NewProc
      fd == fd_alloc(e)
  IN  /\ At(p, "spawn")
      /\ \/ ~Exists(e) /\ Succeeds /\ Become(p, [e EXCEPT !.pc = "close_all", !.child = 0])
         \/ Exists(e) /\ Fails /\ Become(p, [e EXCEPT !.pc = "close_all", !.child = 0])
         \/ /\ Exists(e) /\ Succeeds /\ Fresh # {}
            /\ env' = [env EXCEPT
                 ![p] = [e EXCEPT !.pc = "spawn_close", !.child = c, !.fd = fd, !.fds[fd] = File],
                 ![c] = [Unborn EXCEPT !.pc = "embryo", !.argv = e.argv, !.seg = e.seg,
                                       !.of = e.of, !.todo = Len0]]
      /\ UNCHANGED <<held, early>>

spawn_close(p) ==
  /\ At(p, "spawn_close")
  /\ Become(p, [close(env[p], env[p].fd) EXCEPT !.pc = "spawn_share"])
  /\ UNCHANGED <<held, failed, early>>

\* The PTE_LIBRARY pages, among them all descriptors, are mapped into the child, and
\* it becomes runnable.
spawn_share(p) ==
  /\ At(p, "spawn_share")
  /\ env' = [env EXCEPT ![p].pc = "close_all",
                        ![env[p].child].fds = env[p].fds, ![env[p].child].pc = "run"]
  /\ UNCHANGED <<held, failed, early>>

\* One descriptor at a time: in runcmd before it waits, and in exit.
close_all(p) ==
  LET e == env[p]
  IN  /\ e.pc \in {"close_all", "exit"} /\ OpenFds(e) # {}
      /\ Become(p, close(e, Least(OpenFds(e))))
      /\ UNCHANGED <<held, failed, early>>

\* Mutant: the right side of the pipe is not waited for.
wait_left_only(p) ==
  /\ At(p, "close_all") /\ OpenFds(env[p]) = {}
  /\ env[p].child # 0 => At(env[p].child, "dead")
  /\ Goto(p, "exit")
  /\ UNCHANGED <<held, failed, early>>

\* The program, if it was started, is waited for first.
wait(p) ==
  /\ At(p, "close_all") /\ OpenFds(env[p]) = {}
  /\ env[p].child # 0 => At(env[p].child, "dead")
  /\ Goto(p, "wait_right")
  /\ UNCHANGED <<held, failed, early>>

wait_right(p) ==
  /\ At(p, "wait_right")
  /\ env[p].right # 0 => At(env[p].right, "dead")
  /\ Goto(p, "exit")
  /\ UNCHANGED <<held, failed, early>>

\* Behind close_all, syscall_env_destroy(0).
exit(p) ==
  /\ At(p, "exit") /\ OpenFds(env[p]) = {}
  /\ Goto(p, "dead")
  /\ UNCHANGED <<held, failed, early>>

-----------------------------------------------------------------------------
(***************************************************************************)
(* Programs, user/echo.c and user/cat.c.  Reading an empty pipe and        *)
(* writing a full one test whether the other end is closed in a step of    *)
(* their own, as pipe_read and pipe_write do.                              *)
(***************************************************************************)
IsCat(e) == e.argv[1] = "cat"

\* cat with arguments reads those files; otherwise its input is descriptor 0.
Source(e) == IF Len(e.argv) > 1 THEN File ELSE e.fds[0]

\* The file cannot be opened, a user_panic.
Unopened(e) == Len(e.argv) > 1 /\ e.argv[2] \in Missing

Reading(e) == IsCat(e) /\ ~e.byte

prog_read(p) ==
  LET e == env[p]
      src == Source(e)
      next == [e EXCEPT !.byte = TRUE]
  IN  /\ At(p, "run") /\ Reading(e)
      /\ \/ /\ src.kind = "r" /\ held[src.pipe] > 0
            /\ Become(p, next) /\ held' = [held EXCEPT ![src.pipe] = @ - 1]
         \/ src.kind = "r" /\ held[src.pipe] = 0 /\ Goto(p, "empty") /\ UNCHANGED held
         \/ src.kind = "file" /\ e.todo > 0 /\ ~Unopened(e)
              /\ Become(p, [next EXCEPT !.todo = @ - 1]) /\ UNCHANGED held
         \/ src.kind = "file" /\ (e.todo = 0 \/ Unopened(e)) /\ UNCHANGED held
              /\ Become(p, IF Len(e.argv) > 2 /\ ~Unopened(e)
                           THEN [e EXCEPT !.argv = <<@[1]>> \o SubSeq(@, 3, Len(@)), !.todo = Len0]
                           ELSE [e EXCEPT !.pc = "exit"])
         \/ src.kind = "cons" /\ e.todo > 0 /\ Become(p, [next EXCEPT !.todo = @ - 1])
              /\ UNCHANGED held
         \/ src.kind = "cons" /\ Goto(p, "exit") /\ UNCHANGED held
      /\ UNCHANGED <<failed, early>>

\* The byte is written; cat reads the next, echo writes the next or ends.
Written(e) ==
  IF IsCat(e) THEN [e EXCEPT !.byte = FALSE, !.pc = "run"]
  ELSE [e EXCEPT !.todo = @ - 1, !.pc = "run"]

\* Mutant: the ring is tested for full with the wrong bound.
prog_write_over(p) ==
  LET e == env[p]
      dst == e.fds[1]
  IN  /\ At(p, "run") /\ ~Reading(e)
      /\ \/ ~IsCat(e) /\ e.todo = 0 /\ Goto(p, "exit") /\ UNCHANGED held
         \/ /\ IsCat(e) \/ e.todo > 0
            /\ \/ dst.kind = "w" /\ held[dst.pipe] <= BY2PIPE /\ Become(p, Written(e))
                    /\ held' = [held EXCEPT ![dst.pipe] = @ + 1]
               \/ dst.kind # "w" /\ Become(p, Written(e)) /\ UNCHANGED held
      /\ UNCHANGED <<failed, early>>

prog_write(p) ==
  LET e == env[p]
      dst == e.fds[1]
  IN  /\ At(p, "run") /\ ~Reading(e)
      /\ \/ ~IsCat(e) /\ e.todo = 0 /\ Goto(p, "exit") /\ UNCHANGED held
         \/ /\ IsCat(e) \/ e.todo > 0
            /\ \/ dst.kind = "w" /\ held[dst.pipe] < BY2PIPE /\ Become(p, Written(e))
                    /\ held' = [held EXCEPT ![dst.pipe] = @ + 1]
               \/ dst.kind = "w" /\ held[dst.pipe] = BY2PIPE /\ Goto(p, "full") /\ UNCHANGED held
               \/ dst.kind # "w" /\ Become(p, Written(e)) /\ UNCHANGED held
      /\ UNCHANGED <<failed, early>>

\* Mutant: a writer does not look whether it has a reader.
prog_closed_reader_only(p) ==
  LET e == env[p]
      ends == At(p, "empty") /\ Holders(End("w", e.fds[0].pipe)) = {}
  IN  /\ e.pc \in {"empty", "full"}
      /\ Goto(p, IF ends THEN "exit" ELSE "run")
      /\ UNCHANGED <<held, failed, early>>

\* _pipe_is_closed: the end of the input ends cat; a short write is a user_panic of
\* cat, and echo's printf calls all return short.
prog_closed(p) ==
  LET e == env[p]
      ends == \/ At(p, "empty") /\ Holders(End("w", e.fds[0].pipe)) = {}
              \/ At(p, "full") /\ Holders(End("r", e.fds[1].pipe)) = {}
  IN  /\ e.pc \in {"empty", "full"}
      /\ Goto(p, IF ends THEN "exit" ELSE "run")
      /\ UNCHANGED <<held, failed, early>>

-----------------------------------------------------------------------------
Shells(p) ==
  \/ parsecmd(p) \/ pipe_fork(p) \/ right_dup(p) \/ left_dup(p) \/ pipe_close0(p)
  \/ pipe_close1(p) \/ spawn(p) \/ spawn_close(p) \/ spawn_share(p) \/ close_all(p)
  \/ wait(p) \/ wait_right(p) \/ exit(p)

Programs(p) == prog_read(p) \/ prog_write(p) \/ prog_closed(p)

Next ==
  \/ \E l \in Lines : main(l)
  \/ main_wait
  \/ \E p \in Proc : Shells(p) \/ Programs(p)

Spec == Init /\ [][Next]_vars

\* The scheduler runs every process again and again (Kernel!NoStarvation).  The user
\* ends the input of cat after at most Len0 bytes (ctl-d); nothing is assumed of when a
\* line is typed.
FairSpec ==
  /\ Spec /\ WF_vars(main_wait)
  /\ \A p \in Proc : WF_vars(Shells(p) \/ Programs(p))

-----------------------------------------------------------------------------
Running(p) == env[p].pc \in {"run", "empty", "full"}

\* The k-th command of a line, from 0, and whether it has a redirection.
Bars(l, i) == Cardinality({j \in 1..i : l[j] = "|"})
Has(l, k, t) == \E i \in 1..Len(l) : l[i] = t /\ Bars(l, i) = k

\* Every program is wired as the line says ("dup the write end of the pipe onto 1",
\* sh.c): it reads the pipe its left neighbour writes, unless it has '<', the first and
\* the last have the console or their file, and it inherits nothing else, whatever
\* descriptors the shells opened and closed on the way.  (A '>' left of a '|' gives way
\* to the pipe, and is what the last command writes to: the right side was forked after
\* it.)
Wired ==
  \A p \in Proc : Running(p) =>
    LET e == env[p]
        in == e.fds[0]
        out == e.fds[1]
        last == Bars(e.of, Len(e.of)) = e.seg
        want_in == IF Has(e.of, e.seg, "<") THEN "file" ELSE IF e.seg = 0 THEN "cons" ELSE "r"
        want_out == IF ~last THEN "w"
                    ELSE IF \E k \in 0..e.seg : Has(e.of, k, ">") THEN "file" ELSE "cons"
    IN  /\ in.kind = want_in /\ out.kind = want_out
        /\ OpenFds(e) = {0, 1}
        /\ \A q \in Proc : Running(q) /\ env[q].seg = e.seg + 1 /\ env[q].fds[0].kind = "r"
             => env[q].fds[0].pipe = out.pipe

\* When the shell prompts again, the command is over: no process of it is left, and no
\* pipe.  (The exception is an empty command left of a '|', where runcmd returns before
\* it comes to wait(rightpipe).)
PromptMeansDone ==
  At(Sh, "prompt") /\ ~early =>
    \A p \in Proc \ {Sh} : env[p].pc \in {"none", "dead"} /\ OpenFds(env[p]) = {}

\* Every command ends and the shell prompts again, whichever program of a pipeline
\* ends first, cannot be started or is killed by an error: no process keeps open an end
\* of a pipe that somebody waits for.
CommandEnds == At(Sh, "main_wait") ~> At(Sh, "prompt")
=============================================================================
