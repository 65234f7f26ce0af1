----------------------------- MODULE PipeProofs -----------------------------
(***************************************************************************)
(* Pipes for any number of environments and descriptors, any buffer size   *)
(* and any amount of data: the types, that nobody is told of a closed pipe *)
(* while the other end is open, and that one reader and one writer see a   *)
(* FIFO.                                                                   *)
(***************************************************************************)
EXTENDS Pipe, FiniteSetTheorems, TLAPS

LocalT == [pc : Pcs,
           op : {"none", "read", "write", "check", "close", "dup", "fork"},
           fd : Fdno, arg : Int, n : Nat, idx : 0..(PosMod - 1),
           byte : Nat, child : Proc, ref : Nat, rerun : BOOLEAN]

\* The types, but for the bound on the bytes written.
Types ==
  /\ fdpg \in [Proc -> [Fdno -> End]]
  /\ data \in [Proc -> [Fdno -> BOOLEAN]]
  /\ p_rpos \in 0..(PosMod - 1) /\ p_wpos \in 0..(PosMod - 1)
  /\ p_buf \in [0..(BY2PIPE - 1) -> Nat]
  /\ loc \in [Proc -> LocalT]
  /\ sent \in Nat
  /\ got \in Seq(Nat)
  /\ told \in [Proc -> SUBSET {"r", "w"}]

ReadPcs == {"read", "take", "taken"}
WritePcs == {"write", "put", "stored"}
CheckPcs == {"runs", "fd_ref", "pipe_ref"}
UnmapPcs == {"unmap_fd", "unmap_data"}
DupPcs == {"dup_data", "dup_fd"}

\* What the call of e in progress relies on in the mappings of e.
CallOK(e) ==
  LET l == loc[e]
  IN  /\ l.pc \in {"free", "idle"} => l.op = "none"
      /\ l.pc \in ReadPcs => l.op = "read"
      /\ l.pc \in WritePcs => l.op = "write"
      /\ l.pc \in CheckPcs => l.op \in {"read", "write", "check"}
      /\ l.pc \in DupPcs => l.op = "dup"
      /\ l.pc = "fork" => l.op = "fork"
      /\ l.pc \in UnmapPcs => l.op \in {"close", "dup"}
      /\ l.op = "read" => fdpg[e][l.fd] = "r"
      /\ l.op = "write" => fdpg[e][l.fd] = "w"
      /\ l.op = "check" => fdpg[e][l.fd] # "none"
      /\ l.op = "dup" => l.arg \in Fdno
      /\ l.pc \in DupPcs \union {"unmap_data"} => fdpg[e][l.fd] = "none"
      /\ l.pc = "dup_fd" => (data[e][l.arg] => data[e][l.fd])

\* duppage has copied the first n pages of e to its child, which is not running.
ForkOK(e) ==
  LET l == loc[e]
  IN  At(e, "fork") =>
        /\ "fork" \in Ops
        /\ l.child # e /\ At(l.child, "free")
        /\ \A f \in Proc \ {e} : At(f, "fork") => loc[f].child # l.child
        /\ \A i \in Fdno : /\ i < l.n => fdpg[l.child][i] = fdpg[e][i]
                           /\ i + NFd < l.n => data[l.child][i] = data[e][i]

BeingForked(c) == \E e \in Proc : At(e, "fork") /\ loc[e].child = c

\* close unmaps the Fd page first and dup maps it last: an open descriptor has the
\* pipe page, but for the child of a fork in progress.
Backed ==
  \A e \in Proc : BeingForked(e)
     \/ \A n \in Fdno : fdpg[e][n] # "none" => data[e][n]

\* The inductive invariant that holds whatever the programs do.
PipeInv == Types /\ (\A e \in Proc : CallOK(e) /\ ForkOK(e)) /\ Backed

\* fd_ref is up to date unless e was interrupted after it read it.
RefFresh ==
  \A e \in Proc : At(e, "pipe_ref") /\ ~loc[e].rerun
                    => loc[e].ref = pageref_fd(fdpg[e][loc[e].fd])

CloseInv == PipeInv /\ RefFresh /\ NoFalseClose
-----------------------------------------------------------------------------
LEMMA ConstFacts ==
  /\ IsFiniteSet(Proc) /\ NFd \in Nat /\ NFd > 0
  /\ BY2PIPE \in Nat /\ BY2PIPE > 0 /\ PosMod \in Nat /\ PosMod > BY2PIPE
  /\ MaxBytes \in Nat /\ Sizes \subseteq Nat
  /\ Start \in [Proc -> [Fdno -> End]]
  /\ 0 \in Fdno /\ Fdno \subseteq Nat
BY PipeAssumption DEF Fdno

LEMMA IdleType == \A e \in Proc : Idle(e) \in LocalT
BY ConstFacts DEF Idle, LocalT, Pcs

LEMMA PreemptedFacts ==
  ASSUME loc \in [Proc -> LocalT]
  PROVE  \A f \in Proc :
           /\ Preempted(f) \in LocalT
           /\ Preempted(f).pc = loc[f].pc /\ Preempted(f).op = loc[f].op
           /\ Preempted(f).fd = loc[f].fd /\ Preempted(f).arg = loc[f].arg
           /\ Preempted(f).n = loc[f].n /\ Preempted(f).idx = loc[f].idx
           /\ Preempted(f).byte = loc[f].byte /\ Preempted(f).child = loc[f].child
           /\ Preempted(f).rerun = (loc[f].pc \in {"fd_ref", "pipe_ref"})
<1>1. \A f \in Proc : loc[f] \in LocalT /\ Preempted(f) \in LocalT
  <2>1. \A r \in LocalT, b \in BOOLEAN : [r EXCEPT !.rerun = b] \in LocalT
    BY DEF LocalT
  <2>2. \A f \in Proc : loc[f] \in LocalT /\ (loc[f].pc \in {"fd_ref", "pipe_ref"}) \in BOOLEAN
    OBVIOUS
  <2> QED BY <2>1, <2>2 DEF Preempted
<1> QED BY <1>1 DEF LocalT, Preempted

\* A step of e changes nothing of the others' locals but 'rerun'.
LEMMA StepFrame ==
  ASSUME loc \in [Proc -> LocalT], NEW e \in Proc, NEW l \in LocalT, Step(e, l)
  PROVE  /\ loc' \in [Proc -> LocalT]
         /\ loc'[e] = l
         /\ \A f \in Proc \ {e} :
              /\ loc'[f].pc = loc[f].pc /\ loc'[f].op = loc[f].op
              /\ loc'[f].fd = loc[f].fd /\ loc'[f].arg = loc[f].arg
              /\ loc'[f].n = loc[f].n /\ loc'[f].idx = loc[f].idx
              /\ loc'[f].byte = loc[f].byte /\ loc'[f].child = loc[f].child
              /\ loc'[f].rerun = (loc[f].pc \in {"fd_ref", "pipe_ref"})
<1>1. \A f \in Proc : loc'[f] = IF f = e THEN l ELSE Preempted(f)
  BY DEF Step
<1>2. loc' \in [Proc -> LocalT]
  BY PreemptedFacts DEF Step
<1> QED BY <1>1, <1>2, PreemptedFacts

\* The maps and locals of every environment but e, and the shared part, typed.
RestOK(e) ==
  /\ fdpg' \in [Proc -> [Fdno -> End]] /\ data' \in [Proc -> [Fdno -> BOOLEAN]]
  /\ \A f \in Proc \ {e} : fdpg'[f] = fdpg[f] /\ data'[f] = data[f]
  /\ p_rpos' \in 0..(PosMod - 1) /\ p_wpos' \in 0..(PosMod - 1)
  /\ p_buf' \in [0..(BY2PIPE - 1) -> Nat]
  /\ sent' \in Nat /\ got' \in Seq(Nat)
  /\ told' \in [Proc -> SUBSET {"r", "w"}]

LEMMA SoloStep ==
  ASSUME PipeInv, NEW e \in Proc, NEW l \in LocalT, Step(e, l), RestOK(e),
         ~At(e, "free"), ~At(e, "fork"), l.pc # "fork",
         CallOK(e)', \A n \in Fdno : fdpg'[e][n] # "none" => data'[e][n]
  PROVE  PipeInv'
<1>1. loc \in [Proc -> LocalT] /\ \A f \in Proc : loc[f].child \in Proc
  BY DEF PipeInv, Types, LocalT
<1>2. /\ loc' \in [Proc -> LocalT] /\ loc'[e] = l
      /\ \A f \in Proc \ {e} :
           /\ loc'[f].pc = loc[f].pc /\ loc'[f].op = loc[f].op
           /\ loc'[f].fd = loc[f].fd /\ loc'[f].arg = loc[f].arg
           /\ loc'[f].n = loc[f].n /\ loc'[f].child = loc[f].child
  BY <1>1, StepFrame
<1>3. Types'
  BY <1>2 DEF Types, RestOK
<1>4. \A f \in Proc : CallOK(f)'
  <2>1. ASSUME NEW f \in Proc, f # e PROVE CallOK(f)'
    <3>1. CallOK(f) /\ fdpg'[f] = fdpg[f] /\ data'[f] = data[f]
      BY <2>1 DEF PipeInv, RestOK
    <3>2. /\ loc'[f].pc = loc[f].pc /\ loc'[f].op = loc[f].op
          /\ loc'[f].fd = loc[f].fd /\ loc'[f].arg = loc[f].arg
      BY <1>2, <2>1
    <3> QED BY <3>1, <3>2 DEF CallOK
  <2> QED BY <2>1
<1>5. \A f \in Proc : At(f, "fork") => loc[f].child # e
  BY DEF PipeInv, ForkOK, At
<1>6. \A f \in Proc : ForkOK(f)'
  <2>1. ASSUME NEW f \in Proc, At(f, "fork")' PROVE f # e /\ At(f, "fork")
    BY <2>1, <1>2 DEF At
  <2>2. ASSUME NEW f \in Proc, At(f, "fork")' PROVE ForkOK(f)'
    <3>1. f # e /\ At(f, "fork") /\ loc[f].child # e /\ loc[f].child \in Proc
      BY <1>1, <1>5, <2>1, <2>2
    <3>2. ForkOK(f)
      BY DEF PipeInv
    <3>3. loc'[f].child = loc[f].child /\ loc'[f].n = loc[f].n
      BY <1>2, <3>1
    <3>4. loc'[f].child # f /\ loc'[loc'[f].child].pc = "free"
      BY <1>2, <3>1, <3>2, <3>3 DEF ForkOK, At
    <3>5. \A g \in Proc \ {f} : At(g, "fork")' => loc'[g].child # loc'[f].child
      BY <1>2, <2>1, <3>1, <3>2, <3>3 DEF ForkOK, At
    <3>6. /\ fdpg'[loc[f].child] = fdpg[loc[f].child] /\ fdpg'[f] = fdpg[f]
          /\ data'[loc[f].child] = data[loc[f].child] /\ data'[f] = data[f]
      BY <3>1 DEF RestOK
    <3> QED BY <3>1, <3>2, <3>3, <3>4, <3>5, <3>6 DEF ForkOK, At
  <2> QED BY <2>2 DEF ForkOK
<1>7. Backed'
  <2>1. ASSUME NEW f \in Proc, f # e, BeingForked(f) PROVE BeingForked(f)'
    <3>1. PICK g \in Proc : At(g, "fork") /\ loc[g].child = f
      BY <2>1 DEF BeingForked
    <3> QED BY <1>2, <3>1 DEF BeingForked, At
  <2> QED BY <2>1 DEF PipeInv, Backed, RestOK
<1> QED BY <1>3, <1>4, <1>6, <1>7 DEF PipeInv

\* An environment that runs is nobody's unfinished child.
LEMMA Running ==
  ASSUME PipeInv, NEW e \in Proc, ~At(e, "free")
  PROVE  /\ loc[e] \in LocalT /\ CallOK(e)
         /\ fdpg[e] \in [Fdno -> End] /\ data[e] \in [Fdno -> BOOLEAN]
         /\ \A n \in Fdno : fdpg[e][n] # "none" => data[e][n]
<1>1. ~BeingForked(e)
  BY DEF BeingForked, PipeInv, ForkOK, At
<1> QED BY <1>1 DEF PipeInv, Types, Backed

LEMMA SameRest ==
  ASSUME PipeInv, UnchangedPipe, UnchangedMaps, UNCHANGED told, NEW e \in Proc
  PROVE  RestOK(e)
BY DEF PipeInv, Types, RestOK, UnchangedPipe, UnchangedMaps

LEMMA SetCall ==
  \A r \in LocalT, pc \in Pcs, fd \in Fdno, arg \in Int,
     op \in {"none", "read", "write", "check", "close", "dup", "fork"} :
    [r EXCEPT !.pc = pc, !.op = op, !.fd = fd, !.arg = arg] \in LocalT
<1> SUFFICES ASSUME NEW r \in LocalT, NEW pc \in Pcs, NEW fd \in Fdno, NEW arg \in Int,
             NEW op \in {"none", "read", "write", "check", "close", "dup", "fork"}
      PROVE  [r EXCEPT !.pc = pc, !.op = op, !.fd = fd, !.arg = arg] \in LocalT
  OBVIOUS
<1> QED BY ZenonT(60) DEF LocalT

LEMMA CallInv ==
  ASSUME PipeInv, NEW e \in Proc, NEW op, NEW pc, NEW fd \in Fdno, NEW arg \in Int,
         Call(e, op, pc, fd, arg),
         \/ op = "read" /\ pc = "read" /\ fdpg[e][fd] = "r"
         \/ op = "write" /\ pc = "write" /\ fdpg[e][fd] = "w"
         \/ op = "check" /\ pc = "runs" /\ fdpg[e][fd] # "none"
         \/ op = "close" /\ pc = "unmap_fd"
         \/ op = "dup" /\ arg \in Fdno /\ pc = "unmap_fd"
         \/ op = "dup" /\ arg \in Fdno /\ pc = "dup_data" /\ fdpg[e][fd] = "none"
  PROVE  PipeInv'
<1> DEFINE l == [Idle(e) EXCEPT !.pc = pc, !.op = op, !.fd = fd, !.arg = arg]
<1>1. l \in LocalT
  <2>1. pc \in Pcs /\ op \in {"none", "read", "write", "check", "close", "dup", "fork"}
    BY DEF Pcs
  <2> QED BY <2>1, IdleType, SetCall
<1>2. l.pc = pc /\ l.op = op /\ l.fd = fd /\ l.arg = arg
  BY DEF Idle
<1>3. Step(e, l) /\ RestOK(e) /\ ~At(e, "free") /\ ~At(e, "fork")
  BY SameRest DEF Call, At
<1> HIDE DEF l
<1>4. loc'[e] = l
  BY <1>1, <1>3, StepFrame DEF PipeInv, Types
<1>5. fdpg' = fdpg /\ data' = data
  BY DEF Call, UnchangedMaps
<1>6. CallOK(e)'
  BY <1>2, <1>4, <1>5 DEF CallOK, ReadPcs, WritePcs, CheckPcs, DupPcs, UnmapPcs
<1>7. \A n \in Fdno : fdpg'[e][n] # "none" => data'[e][n]
  BY <1>3, <1>5, Running
<1>8. l.pc # "fork"
  BY <1>2
<1> QED BY <1>1, <1>3, <1>6, <1>7, <1>8, SoloStep

LEMMA CallsInv ==
  ASSUME PipeInv, NEW e \in Proc,
         pipe_is_closed(e) \/ pipe_read(e) \/ pipe_write(e) \/ close(e) \/ dup(e)
  PROVE  PipeInv'
<1>0. Fdno \subseteq Int /\ 0 \in Int
  BY ConstFacts
<1>1. CASE pipe_is_closed(e)
  <2>1. PICK n \in Fdno : fdpg[e][n] # "none" /\ Call(e, "check", "runs", n, 0)
    BY <1>1 DEF pipe_is_closed, Open
  <2> QED BY <1>0, <2>1, CallInv
<1>2. CASE pipe_read(e)
  <2>1. PICK fd \in Fdno, n \in Sizes :
          fdpg[e][fd] = "r" /\ Call(e, "read", "read", fd, n)
    BY <1>2 DEF pipe_read
  <2> QED BY <2>1, CallInv, ConstFacts
<1>3. CASE pipe_write(e)
  <2>1. PICK fd \in Fdno, n \in Sizes :
          fdpg[e][fd] = "w" /\ Call(e, "write", "write", fd, n)
    BY <1>3 DEF pipe_write
  <2> QED BY <2>1, CallInv, ConstFacts
<1>4. CASE close(e)
  <2>1. PICK n \in Fdno : Call(e, "close", "unmap_fd", n, 0)
    BY <1>4 DEF close, Open
  <2> QED BY <1>0, <2>1, CallInv
<1>5. CASE dup(e)
  <2>1. PICK old \in Fdno, new \in Fdno :
          Call(e, "dup", IF new \in Open(e) THEN "unmap_fd" ELSE "dup_data", new, old)
    BY <1>5 DEF dup, Open
  <2>2. CASE new \in Open(e)
    BY <1>0, <2>1, <2>2, CallInv
  <2>3. CASE new \notin Open(e)
    <3>1. fdpg[e][new] = "none"
      BY <2>3 DEF Open
    <3> QED BY <1>0, <2>1, <2>3, <3>1, CallInv
  <2> QED BY <2>2, <2>3
<1> QED BY <1>1, <1>2, <1>3, <1>4, <1>5

\* A step of the call in progress that leaves the maps alone and stays within it.
LEMMA InnerStep ==
  ASSUME PipeInv, NEW e \in Proc, NEW l \in LocalT, Step(e, l), RestOK(e),
         UnchangedMaps, ~At(e, "free"), ~At(e, "fork"),
         \/ l = Idle(e)
         \/ /\ l.op = loc[e].op /\ l.fd = loc[e].fd /\ l.arg = loc[e].arg
            /\ \/ l.pc \in ReadPcs /\ l.op = "read"
               \/ l.pc \in WritePcs /\ l.op = "write"
               \/ l.pc \in CheckPcs /\ l.op \in {"read", "write", "check"}
  PROVE  PipeInv'
<1>1. loc'[e] = l
  BY StepFrame DEF PipeInv, Types
<1>2. fdpg' = fdpg /\ data' = data
  BY DEF UnchangedMaps
<1>3. CallOK(e) /\ \A n \in Fdno : fdpg[e][n] # "none" => data[e][n]
  BY Running
<1>4. CallOK(e)' /\ l.pc # "fork"
  <2>1. CASE l = Idle(e)
    BY <1>1, <2>1 DEF Idle, CallOK, ReadPcs, WritePcs, CheckPcs, DupPcs, UnmapPcs
  <2>2. CASE l # Idle(e)
    BY <1>1, <1>2, <1>3, <2>2 DEF CallOK, ReadPcs, WritePcs, CheckPcs, DupPcs, UnmapPcs
  <2> QED BY <2>1, <2>2
<1> QED BY <1>2, <1>3, <1>4, SoloStep

LEMMA CardTypes ==
  ASSUME PipeInv
  PROVE  /\ \A end : pageref_fd(end) \in Nat
         /\ IsFiniteSet({x \in Proc \X Fdno : data[x[1]][x[2]]})
<1>1. IsFiniteSet(Proc \X Fdno)
  <2>1. IsFiniteSet(Fdno)
    BY ConstFacts, FS_Interval DEF Fdno
  <2> QED BY <2>1, ConstFacts, FS_Product
<1>2. \A end : IsFiniteSet({x \in Proc \X Fdno : fdpg[x[1]][x[2]] = end})
  BY <1>1, FS_Subset
<1>3. \A end : pageref_fd(end) \in Nat
  BY <1>2, FS_CardinalityType DEF pageref_fd
<1>4. {x \in Proc \X Fdno : data[x[1]][x[2]]} \in SUBSET (Proc \X Fdno)
  OBVIOUS
<1> QED BY <1>1, <1>3, <1>4, FS_Subset

LEMMA CheckStepInv ==
  ASSUME PipeInv, NEW e \in Proc,
         read_runs(e) \/ read_fd_ref(e) \/ read_pipe_ref(e) \/ read_refs(e)
  PROVE  PipeInv'
<1>1. /\ loc[e].pc \in CheckPcs /\ ~At(e, "free") /\ ~At(e, "fork")
  BY DEF read_runs, read_fd_ref, read_pipe_ref, read_refs, At, CheckPcs
<1>2. /\ loc[e] \in LocalT /\ loc[e].op \in {"read", "write", "check"}
      /\ fdpg[e] \in [Fdno -> End] /\ fdpg[e][loc[e].fd] # "none"
  BY <1>1, Running DEF CallOK
<1>3. UnchangedPipe /\ UnchangedMaps
  BY DEF read_runs, read_fd_ref, read_pipe_ref, read_refs
<1>4. UNCHANGED told => RestOK(e)
  BY <1>3, SameRest
<1>5. CASE read_runs(e)
  <2> DEFINE l == [loc[e] EXCEPT !.pc = "fd_ref", !.rerun = FALSE]
  <2>1. l \in LocalT
    BY <1>2 DEF LocalT, Pcs
  <2>2. l.op = loc[e].op /\ l.fd = loc[e].fd /\ l.arg = loc[e].arg /\ l.pc = "fd_ref"
    BY <1>2 DEF LocalT
  <2>3. Step(e, l) /\ RestOK(e)
    BY <1>4, <1>5 DEF read_runs
  <2> HIDE DEF l
  <2> QED BY <1>1, <1>2, <1>3, <2>1, <2>2, <2>3, InnerStep DEF CheckPcs
<1>6. CASE read_fd_ref(e)
  <2> DEFINE l == [loc[e] EXCEPT !.pc = "pipe_ref",
                                 !.ref = pageref_fd(fdpg[e][loc[e].fd])]
  <2>1. l \in LocalT
    BY <1>2, CardTypes DEF LocalT, Pcs
  <2>2. l.op = loc[e].op /\ l.fd = loc[e].fd /\ l.arg = loc[e].arg /\ l.pc = "pipe_ref"
    BY <1>2 DEF LocalT
  <2>3. Step(e, l) /\ RestOK(e)
    BY <1>4, <1>6 DEF read_fd_ref
  <2> HIDE DEF l
  <2> QED BY <1>1, <1>2, <1>3, <2>1, <2>2, <2>3, InnerStep DEF CheckPcs
<1>7. ASSUME NEW closed \in BOOLEAN, Conclude(e, closed) PROVE PipeInv'
  <2> DEFINE l == IF closed \/ loc[e].op = "check" THEN Idle(e)
                  ELSE [loc[e] EXCEPT !.pc = loc[e].op]
  <2>1. l \in LocalT
    BY <1>2, IdleType DEF LocalT, Pcs
  <2>2. \/ l = Idle(e)
        \/ /\ l.op = loc[e].op /\ l.fd = loc[e].fd /\ l.arg = loc[e].arg
           /\ l.pc = l.op /\ l.op \in {"read", "write"}
    BY <1>2 DEF LocalT
  <2>3. told \in [Proc -> SUBSET {"r", "w"}] /\ fdpg[e][loc[e].fd] \in {"r", "w"}
    BY <1>2 DEF PipeInv, Types, LocalT, End
  <2>4. told' \in [Proc -> SUBSET {"r", "w"}]
    BY <1>7, <2>3 DEF Conclude
  <2>5. Step(e, l)
    BY <1>7 DEF Conclude
  <2>6. RestOK(e)
    BY <1>3, <2>4 DEF RestOK, UnchangedPipe, UnchangedMaps, PipeInv, Types
  <2> HIDE DEF l
  <2> QED BY <1>1, <1>3, <2>1, <2>2, <2>5, <2>6, InnerStep DEF ReadPcs, WritePcs
<1>8. CASE read_pipe_ref(e)
  <2>1. CASE loc[e].rerun
    <3> DEFINE l == [loc[e] EXCEPT !.pc = "runs"]
    <3>1. l \in LocalT
      BY <1>2 DEF LocalT, Pcs
    <3>2. l.op = loc[e].op /\ l.fd = loc[e].fd /\ l.arg = loc[e].arg /\ l.pc = "runs"
      BY <1>2 DEF LocalT
    <3>3. Step(e, l) /\ RestOK(e)
      BY <1>4, <1>8, <2>1 DEF read_pipe_ref, Goto
    <3> HIDE DEF l
    <3> QED BY <1>1, <1>2, <1>3, <3>1, <3>2, <3>3, InnerStep DEF CheckPcs
  <2>2. CASE ~loc[e].rerun
    <3>1. Conclude(e, loc[e].ref = pageref_pipe)
      BY <1>8, <2>2 DEF read_pipe_ref
    <3> QED BY <1>7, <3>1
  <2> QED BY <2>1, <2>2
<1>9. CASE read_refs(e)
  <2>1. Conclude(e, pageref_fd(fdpg[e][loc[e].fd]) = pageref_pipe)
    BY <1>9 DEF read_refs
  <2> QED BY <1>7, <2>1
<1> QED BY <1>5, <1>6, <1>8, <1>9

LEMMA ModRange ==
  ASSUME NEW x \in Int, NEW m \in Nat \ {0}
  PROVE  x % m \in 0..(m - 1)
OBVIOUS

LEMMA PosFacts ==
  ASSUME Types
  PROVE  /\ p_rpos \in Nat /\ p_wpos \in Nat
         /\ \A x \in Nat : /\ x % BY2PIPE \in 0..(BY2PIPE - 1)
                           /\ (x + 1) % PosMod \in 0..(PosMod - 1)
<1>1. BY2PIPE \in Nat \ {0} /\ PosMod \in Nat \ {0}
  BY ConstFacts
<1> QED BY <1>1, ModRange DEF Types

LEMMA ReadStepInv ==
  ASSUME PipeInv, NEW e \in Proc, read_test(e) \/ take(e) \/ taken(e)
  PROVE  PipeInv'
<1>1. loc[e].pc \in ReadPcs /\ ~At(e, "free") /\ ~At(e, "fork")
  BY DEF read_test, take, taken, At, ReadPcs
<1>2. loc[e] \in LocalT /\ loc[e].op = "read"
  BY <1>1, Running DEF CallOK
<1>3. Types /\ UnchangedMaps
  BY DEF PipeInv, read_test, take, taken
<1>4. CASE read_test(e)
  <2>1. RestOK(e)
    BY <1>4, SameRest DEF read_test
  <2> DEFINE l == IF ~_pipe_is_empty /\ loc[e].n < loc[e].arg
                    THEN [loc[e] EXCEPT !.pc = "take"]
                  ELSE IF loc[e].n > 0 THEN Idle(e)
                  ELSE [loc[e] EXCEPT !.pc = "runs"]
  <2>2. l \in LocalT
    BY <1>2, IdleType DEF LocalT, Pcs
  <2>3. \/ l = Idle(e)
        \/ /\ l.op = loc[e].op /\ l.fd = loc[e].fd /\ l.arg = loc[e].arg
           /\ l.pc \in {"take", "runs"}
    BY <1>2 DEF LocalT
  <2>4. Step(e, l)
    BY <1>4 DEF read_test
  <2> HIDE DEF l
  <2> QED BY <1>1, <1>2, <1>3, <2>1, <2>2, <2>3, <2>4, InnerStep DEF ReadPcs, CheckPcs
<1>5. CASE take(e)
  <2>1. RestOK(e)
    BY <1>3, <1>5, PosFacts DEF take, Types, RestOK, UnchangedMaps
  <2> DEFINE b == IF IndexFirst THEN 0 ELSE p_buf[p_rpos % BY2PIPE]
             l == [loc[e] EXCEPT !.pc = "taken", !.idx = p_rpos, !.byte = b]
  <2>2. b \in Nat /\ p_rpos \in 0..(PosMod - 1)
    BY <1>3, PosFacts DEF Types
  <2>3. Step(e, l)
    BY <1>5 DEF take
  <2> HIDE DEF b
  <2>4. l \in LocalT
    BY <1>2, <2>2 DEF LocalT, Pcs
  <2>5. l.op = loc[e].op /\ l.fd = loc[e].fd /\ l.arg = loc[e].arg /\ l.pc = "taken"
    BY <1>2 DEF LocalT
  <2> HIDE DEF l
  <2> QED BY <1>1, <1>2, <1>3, <2>1, <2>3, <2>4, <2>5, InnerStep DEF ReadPcs
<1>6. CASE taken(e)
  <2>1. loc[e].idx \in Nat /\ loc[e].byte \in Nat /\ loc[e].n \in Nat
    BY <1>2, ConstFacts DEF LocalT
  <2>2. p_buf[loc[e].idx % BY2PIPE] \in Nat /\ (loc[e].idx + 1) % PosMod \in 0..(PosMod - 1)
    BY <1>3, <2>1, PosFacts DEF Types
  <2>3. RestOK(e)
    BY <1>3, <1>6, <2>1, <2>2 DEF taken, Types, RestOK, UnchangedMaps
  <2> DEFINE l == [loc[e] EXCEPT !.pc = "read", !.n = @ + 1, !.idx = 0, !.byte = 0]
  <2>4. Step(e, l)
    BY <1>6 DEF taken
  <2>5. l \in LocalT
    <3>1. 0 \in 0..(PosMod - 1) /\ loc[e].n + 1 \in Nat
      BY <2>1, ConstFacts
    <3> QED BY <1>2, <3>1 DEF LocalT, Pcs
  <2>6. l.op = loc[e].op /\ l.fd = loc[e].fd /\ l.arg = loc[e].arg /\ l.pc = "read"
    BY <1>2 DEF LocalT
  <2> HIDE DEF l
  <2> QED BY <1>1, <1>2, <1>3, <2>3, <2>4, <2>5, <2>6, InnerStep DEF ReadPcs
<1> QED BY <1>4, <1>5, <1>6

LEMMA WriteStepInv ==
  ASSUME PipeInv, NEW e \in Proc, write_test(e) \/ put(e) \/ stored(e)
  PROVE  PipeInv'
<1>1. loc[e].pc \in WritePcs /\ ~At(e, "free") /\ ~At(e, "fork")
  BY DEF write_test, put, stored, At, WritePcs
<1>2. loc[e] \in LocalT /\ loc[e].op = "write"
  BY <1>1, Running DEF CallOK
<1>3. Types /\ UnchangedMaps
  BY DEF PipeInv, write_test, put, stored
<1>4. CASE write_test(e)
  <2>1. RestOK(e)
    BY <1>4, SameRest DEF write_test
  <2> DEFINE l == IF ~_pipe_is_full /\ loc[e].n < loc[e].arg
                    THEN [loc[e] EXCEPT !.pc = "put"]
                  ELSE IF loc[e].n = loc[e].arg THEN Idle(e)
                  ELSE [loc[e] EXCEPT !.pc = "runs"]
  <2>2. l \in LocalT
    BY <1>2, IdleType DEF LocalT, Pcs
  <2>3. \/ l = Idle(e)
        \/ /\ l.op = loc[e].op /\ l.fd = loc[e].fd /\ l.arg = loc[e].arg
           /\ l.pc \in {"put", "runs"}
    BY <1>2 DEF LocalT
  <2>4. Step(e, l)
    BY <1>4 DEF write_test
  <2> HIDE DEF l
  <2> QED BY <1>1, <1>2, <1>3, <2>1, <2>2, <2>3, <2>4, InnerStep DEF WritePcs, CheckPcs
<1>5. CASE put(e)
  <2>1. RestOK(e)
    <3>1. p_buf' \in [0..(BY2PIPE - 1) -> Nat]
      BY <1>3, <1>5, PosFacts DEF put, Types
    <3>2. p_wpos' \in 0..(PosMod - 1)
      BY <1>3, <1>5, PosFacts DEF put, Types
    <3> QED BY <1>3, <1>5, <3>1, <3>2 DEF put, Types, RestOK, UnchangedMaps
  <2> DEFINE l == [loc[e] EXCEPT !.pc = "stored", !.idx = p_wpos]
  <2>2. l \in LocalT
    BY <1>2, <1>3 DEF LocalT, Pcs, Types
  <2>3. Step(e, l)
    BY <1>5 DEF put
  <2>4. l.op = loc[e].op /\ l.fd = loc[e].fd /\ l.arg = loc[e].arg /\ l.pc = "stored"
    BY <1>2 DEF LocalT
  <2> HIDE DEF l
  <2> QED BY <1>1, <1>2, <1>3, <2>1, <2>2, <2>3, <2>4, InnerStep DEF WritePcs
<1>6. CASE stored(e)
  <2>1. loc[e].idx \in Nat /\ loc[e].n \in Nat
    BY <1>2, ConstFacts DEF LocalT
  <2>2. /\ loc[e].idx % BY2PIPE \in 0..(BY2PIPE - 1)
        /\ (loc[e].idx + 1) % PosMod \in 0..(PosMod - 1)
    BY <1>3, <2>1, PosFacts
  <2>3. RestOK(e)
    <3>1. p_buf' \in [0..(BY2PIPE - 1) -> Nat] /\ p_wpos' \in 0..(PosMod - 1)
      BY <1>3, <1>6, <2>1, <2>2 DEF stored, Types
    <3>2. sent' \in Nat
      BY <1>3, <1>6 DEF stored, Types
    <3> QED BY <1>3, <1>6, <3>1, <3>2 DEF stored, Types, RestOK, UnchangedMaps
  <2> DEFINE l == [loc[e] EXCEPT !.pc = "write", !.n = @ + 1, !.idx = 0]
  <2>4. Step(e, l)
    BY <1>6 DEF stored
  <2>5. l \in LocalT
    <3>1. 0 \in 0..(PosMod - 1) /\ loc[e].n + 1 \in Nat
      BY <2>1, ConstFacts
    <3> QED BY <1>2, <3>1 DEF LocalT, Pcs
  <2>6. l.op = loc[e].op /\ l.fd = loc[e].fd /\ l.arg = loc[e].arg /\ l.pc = "write"
    BY <1>2 DEF LocalT
  <2> HIDE DEF l
  <2> QED BY <1>1, <1>2, <1>3, <2>3, <2>4, <2>5, <2>6, InnerStep DEF WritePcs
<1> QED BY <1>4, <1>5, <1>6

LEMMA UnmapInv ==
  ASSUME PipeInv, NEW e \in Proc, unmap_fd(e) \/ unmap_data(e)
  PROVE  PipeInv'
<1>1. loc[e].pc \in UnmapPcs /\ ~At(e, "free") /\ ~At(e, "fork")
  BY DEF unmap_fd, unmap_data, At, UnmapPcs
<1>2. /\ loc[e] \in LocalT /\ CallOK(e) /\ loc[e].op \in {"close", "dup"}
      /\ loc[e].fd \in Fdno
      /\ \A n \in Fdno : fdpg[e][n] # "none" => data[e][n]
  BY <1>1, Running DEF CallOK, LocalT
<1>3. Types /\ UnchangedPipe /\ UNCHANGED told
  BY DEF PipeInv, unmap_fd, unmap_data
<1>4. CASE unmap_fd(e)
  <2> DEFINE l == [loc[e] EXCEPT !.pc = "unmap_data"]
  <2>1. l \in LocalT
    BY <1>2 DEF LocalT, Pcs
  <2>2. l.op = loc[e].op /\ l.fd = loc[e].fd /\ l.arg = loc[e].arg /\ l.pc = "unmap_data"
    BY <1>2 DEF LocalT
  <2>3. Step(e, l)
    BY <1>4 DEF unmap_fd, Goto
  <2> HIDE DEF l
  <2>4. loc'[e] = l
    BY <1>3, <2>1, <2>3, StepFrame DEF Types
  <2>5. RestOK(e) /\ data' = data /\ fdpg' = [fdpg EXCEPT ![e][loc[e].fd] = "none"]
    BY <1>2, <1>3, <1>4 DEF unmap_fd, Types, RestOK, UnchangedPipe, End
  <2>6. \A n \in Fdno : fdpg'[e][n] = IF n = loc[e].fd THEN "none" ELSE fdpg[e][n]
    BY <1>2, <1>3, <2>5 DEF Types
  <2>7. CallOK(e)'
    BY <1>2, <2>2, <2>4, <2>6 DEF CallOK, ReadPcs, WritePcs, CheckPcs, DupPcs, UnmapPcs
  <2> QED BY <1>1, <1>2, <2>1, <2>2, <2>3, <2>5, <2>6, <2>7, SoloStep
<1>5. CASE unmap_data(e)
  <2> DEFINE l == IF loc[e].op = "dup" THEN [loc[e] EXCEPT !.pc = "dup_data"]
                  ELSE Idle(e)
  <2>1. l \in LocalT
    BY <1>2, IdleType DEF LocalT, Pcs
  <2>2. \/ l = Idle(e)
        \/ /\ l.op = loc[e].op /\ l.fd = loc[e].fd /\ l.arg = loc[e].arg
           /\ l.pc = "dup_data" /\ l.op = "dup"
    BY <1>2 DEF LocalT
  <2>3. Step(e, l)
    BY <1>5 DEF unmap_data
  <2> HIDE DEF l
  <2>4. loc'[e] = l
    BY <1>3, <2>1, <2>3, StepFrame DEF Types
  <2>5. RestOK(e) /\ fdpg' = fdpg /\ data' = [data EXCEPT ![e][loc[e].fd] = FALSE]
    BY <1>2, <1>3, <1>5 DEF unmap_data, Types, RestOK, UnchangedPipe
  <2>6. \A n \in Fdno : n # loc[e].fd => data'[e][n] = data[e][n]
    BY <1>2, <1>3, <2>5 DEF Types
  <2>7. fdpg[e][loc[e].fd] = "none" /\ loc[e].pc = "unmap_data"
    BY <1>2, <1>5 DEF unmap_data, At, CallOK
  <2>8. CallOK(e)' /\ l.pc # "fork"
    <3>1. CASE l = Idle(e)
      BY <2>4, <3>1 DEF Idle, CallOK, ReadPcs, WritePcs, CheckPcs, DupPcs, UnmapPcs
    <3>2. CASE l # Idle(e)
      BY <1>2, <2>2, <2>4, <2>5, <2>7, <3>2
      DEF CallOK, ReadPcs, WritePcs, CheckPcs, DupPcs, UnmapPcs
    <3> QED BY <3>1, <3>2
  <2>9. \A n \in Fdno : fdpg'[e][n] # "none" => data'[e][n]
    BY <1>2, <2>5, <2>6, <2>7
  <2> QED BY <1>1, <2>1, <2>3, <2>5, <2>8, <2>9, SoloStep
<1> QED BY <1>4, <1>5

LEMMA DupInv ==
  ASSUME PipeInv, NEW e \in Proc, dup_data(e) \/ dup_fd(e)
  PROVE  PipeInv'
<1>1. loc[e].pc \in DupPcs /\ ~At(e, "free") /\ ~At(e, "fork")
  BY DEF dup_data, dup_fd, At, DupPcs
<1>2. /\ loc[e] \in LocalT /\ CallOK(e) /\ loc[e].op = "dup"
      /\ loc[e].fd \in Fdno /\ loc[e].arg \in Fdno
      /\ fdpg[e][loc[e].fd] = "none"
      /\ \A n \in Fdno : fdpg[e][n] # "none" => data[e][n]
  BY <1>1, Running DEF CallOK, LocalT
<1>3. Types /\ UnchangedPipe /\ UNCHANGED told
  BY DEF PipeInv, dup_data, dup_fd
<1>4. CASE dup_data(e)
  <2> DEFINE l == [loc[e] EXCEPT !.pc = "dup_fd"]
             b == data[e][loc[e].fd] \/ data[e][loc[e].arg]
  <2>1. l \in LocalT
    BY <1>2 DEF LocalT, Pcs
  <2>2. l.op = loc[e].op /\ l.fd = loc[e].fd /\ l.arg = loc[e].arg /\ l.pc = "dup_fd"
    BY <1>2 DEF LocalT
  <2>3. Step(e, l)
    BY <1>4 DEF dup_data, Goto
  <2> HIDE DEF l
  <2>4. loc'[e] = l
    BY <1>3, <2>1, <2>3, StepFrame DEF Types
  <2>5. b \in BOOLEAN
    OBVIOUS
  <2>6. data' = [data EXCEPT ![e][loc[e].fd] = b] /\ fdpg' = fdpg
    BY <1>4 DEF dup_data
  <2>7. (data[e][loc[e].arg] => b) /\ (data[e][loc[e].fd] => b)
    OBVIOUS
  <2> HIDE DEF b
  <2>8. RestOK(e)
    BY <1>2, <1>3, <2>5, <2>6 DEF Types, RestOK, UnchangedPipe
  <2>9. \A n \in Fdno : data'[e][n] = IF n = loc[e].fd THEN b ELSE data[e][n]
    BY <1>2, <1>3, <2>6 DEF Types
  <2>10. CallOK(e)'
    BY <1>2, <2>2, <2>4, <2>6, <2>7, <2>9
    DEF CallOK, ReadPcs, WritePcs, CheckPcs, DupPcs, UnmapPcs
  <2> QED BY <1>1, <1>2, <2>1, <2>2, <2>3, <2>6, <2>7, <2>8, <2>9, <2>10, SoloStep
<1>5. CASE dup_fd(e)
  <2> DEFINE b == data[e][loc[e].fd] /\ fdpg[e][loc[e].arg] # "none"
             end == fdpg[e][loc[e].arg]
  <2>1. Step(e, Idle(e)) /\ Idle(e) \in LocalT
    BY <1>5, IdleType DEF dup_fd
  <2>2. b \in BOOLEAN /\ end \in End
    BY <1>2, <1>3 DEF Types
  <2>3. /\ data' = [data EXCEPT ![e][loc[e].fd] = b]
        /\ fdpg' = [fdpg EXCEPT ![e][loc[e].fd] = end]
    BY <1>5 DEF dup_fd
  <2>4. end # "none" => b
    BY <1>2, <1>5 DEF dup_fd, At, CallOK
  <2> HIDE DEF b, end
  <2>5. RestOK(e)
    BY <1>2, <1>3, <2>2, <2>3 DEF Types, RestOK, UnchangedPipe
  <2>6. \A n \in Fdno : /\ data'[e][n] = IF n = loc[e].fd THEN b ELSE data[e][n]
                        /\ fdpg'[e][n] = IF n = loc[e].fd THEN end ELSE fdpg[e][n]
    BY <1>2, <1>3, <2>3 DEF Types
  <2>7. loc'[e] = Idle(e)
    BY <1>3, <2>1, StepFrame DEF Types
  <2>8. CallOK(e)' /\ Idle(e).pc # "fork"
    BY <2>7 DEF Idle, CallOK, ReadPcs, WritePcs, CheckPcs, DupPcs, UnmapPcs
  <2> QED BY <1>1, <1>2, <2>1, <2>4, <2>5, <2>6, <2>8, SoloStep
<1> QED BY <1>4, <1>5

LEMMA ForkInv ==
  ASSUME PipeInv, NEW e \in Proc, fork(e)
  PROVE  PipeInv'
<1>1. PICK c \in Proc :
        /\ "fork" \in Ops /\ At(e, "idle") /\ At(c, "free")
        /\ \A f \in Proc : At(f, "fork") => loc[f].child # c
        /\ Step(e, [Idle(e) EXCEPT !.pc = "fork", !.op = "fork", !.child = c])
        /\ UnchangedPipe /\ UnchangedMaps /\ UNCHANGED told
  BY DEF fork
<1> DEFINE l == [Idle(e) EXCEPT !.pc = "fork", !.op = "fork", !.child = c]
<1>2. l \in LocalT
  <2>1. \A r \in LocalT, d \in Proc :
          [r EXCEPT !.pc = "fork", !.op = "fork", !.child = d] \in LocalT
    BY DEF LocalT, Pcs
  <2> QED BY <2>1, IdleType
<1>3. l.pc = "fork" /\ l.op = "fork" /\ l.child = c /\ l.n = 0
  BY DEF Idle
<1> HIDE DEF l
<1>4. Step(e, l)
  BY <1>1 DEF l
<1>5. /\ Types /\ loc \in [Proc -> LocalT]
      /\ \A f \in Proc : loc[f].child \in Proc
  BY DEF PipeInv, Types, LocalT
<1>6. /\ loc' \in [Proc -> LocalT] /\ loc'[e] = l
      /\ \A f \in Proc \ {e} :
           /\ loc'[f].pc = loc[f].pc /\ loc'[f].op = loc[f].op
           /\ loc'[f].fd = loc[f].fd /\ loc'[f].arg = loc[f].arg
           /\ loc'[f].n = loc[f].n /\ loc'[f].child = loc[f].child
  BY <1>2, <1>4, <1>5, StepFrame
<1>7. fdpg' = fdpg /\ data' = data
  BY <1>1 DEF UnchangedMaps
<1>8. Types'
  BY <1>1, <1>5, <1>6 DEF Types, UnchangedPipe, UnchangedMaps
<1>9. \A f \in Proc : CallOK(f)'
  <2>1. CallOK(e)'
    BY <1>3, <1>6 DEF CallOK, ReadPcs, WritePcs, CheckPcs, DupPcs, UnmapPcs
  <2>2. ASSUME NEW f \in Proc, f # e PROVE CallOK(f)'
    <3>1. CallOK(f)
      BY DEF PipeInv
    <3>2. /\ loc'[f].pc = loc[f].pc /\ loc'[f].op = loc[f].op
          /\ loc'[f].fd = loc[f].fd /\ loc'[f].arg = loc[f].arg
      BY <1>6, <2>2
    <3> QED BY <1>7, <3>1, <3>2 DEF CallOK
  <2> QED BY <2>1, <2>2
<1>10. \A f \in Proc : At(f, "fork") => loc[f].child # e /\ f # e
  BY <1>1 DEF PipeInv, ForkOK, At
<1>11. \A f \in Proc : ForkOK(f)'
  <2>1. ForkOK(e)'
    <3>1. c # e /\ loc'[c].pc = "free"
      BY <1>1, <1>6 DEF At
    <3>2. \A f \in Proc \ {e} : loc'[f].pc = "fork" => loc'[f].child # c
      BY <1>1, <1>6 DEF At
    <3>3. \A i \in Fdno : ~(i < 0) /\ ~(i + NFd < 0)
      BY ConstFacts DEF Fdno
    <3> QED BY <1>1, <1>3, <1>6, <3>1, <3>2, <3>3 DEF ForkOK, At
  <2>2. ASSUME NEW f \in Proc, f # e, loc'[f].pc = "fork" PROVE ForkOK(f)'
    <3>1. ForkOK(f) /\ At(f, "fork")
      BY <1>6, <2>2 DEF PipeInv, At
    <3>2. /\ loc'[f].n = loc[f].n /\ loc'[f].child = loc[f].child
          /\ loc[f].child # c /\ loc[f].child # e /\ loc[f].child \in Proc
      BY <1>1, <1>5, <1>6, <1>10, <2>2, <3>1
    <3>3. loc'[loc[f].child].pc = "free" /\ loc[f].child # f
      BY <1>6, <3>1, <3>2 DEF ForkOK, At
    <3>4. \A g \in Proc \ {f} : loc'[g].pc = "fork" => loc'[g].child # loc[f].child
      BY <1>3, <1>6, <3>1, <3>2 DEF ForkOK, At
    <3> QED BY <1>1, <1>7, <3>1, <3>2, <3>3, <3>4 DEF ForkOK, At
  <2> QED BY <2>1, <2>2 DEF ForkOK, At
<1>12. Backed'
  <2>1. ASSUME NEW f \in Proc, BeingForked(f) PROVE BeingForked(f)'
    <3>1. PICK g \in Proc : At(g, "fork") /\ loc[g].child = f
      BY <2>1 DEF BeingForked
    <3> QED BY <1>6, <1>10, <3>1 DEF BeingForked, At
  <2> QED BY <1>7, <2>1 DEF PipeInv, Backed
<1> QED BY <1>8, <1>9, <1>11, <1>12 DEF PipeInv

\* duppage copies one mapping into the child, which is not running.
LEMMA CopyInv ==
  ASSUME PipeInv, NEW e \in Proc, At(e, "fork"), NEW c \in Proc, c = loc[e].child,
         Step(e, [loc[e] EXCEPT !.n = @ + 1]), UnchangedPipe, UNCHANGED told,
         NEW i \in Fdno,
         \/ /\ loc[e].n = i /\ UNCHANGED data
            /\ fdpg' = [fdpg EXCEPT ![c][i] = fdpg[e][i]]
         \/ /\ loc[e].n = NFd + i /\ UNCHANGED fdpg
            /\ data' = [data EXCEPT ![c][i] = data[e][i]]
  PROVE  PipeInv'
<1> DEFINE l == [loc[e] EXCEPT !.n = @ + 1]
<1>1. /\ Types /\ loc \in [Proc -> LocalT] /\ loc[e] \in LocalT
      /\ \A f \in Proc : loc[f].child \in Proc /\ loc[f].n \in Nat
  BY DEF PipeInv, Types, LocalT
<1>2. l \in LocalT
  BY <1>1 DEF LocalT
<1>3. /\ l.pc = loc[e].pc /\ l.op = loc[e].op /\ l.fd = loc[e].fd /\ l.arg = loc[e].arg
      /\ l.n = loc[e].n + 1 /\ l.child = loc[e].child
  BY <1>1 DEF LocalT
<1> HIDE DEF l
<1>4. Step(e, l)
  BY DEF l
<1>5. /\ loc' \in [Proc -> LocalT]
      /\ \A f \in Proc :
           /\ loc'[f].pc = loc[f].pc /\ loc'[f].op = loc[f].op
           /\ loc'[f].fd = loc[f].fd /\ loc'[f].arg = loc[f].arg
           /\ loc'[f].n = IF f = e THEN loc[e].n + 1 ELSE loc[f].n
           /\ loc'[f].child = loc[f].child
  BY <1>1, <1>2, <1>3, <1>4, StepFrame
<1>6. /\ ForkOK(e) /\ At(e, "fork") /\ At(c, "free") /\ c # e
      /\ \A f \in Proc \ {e} : At(f, "fork") => loc[f].child # c
  BY DEF PipeInv, ForkOK
<1>7. /\ fdpg' \in [Proc -> [Fdno -> End]] /\ data' \in [Proc -> [Fdno -> BOOLEAN]]
      /\ \A f \in Proc \ {c} : fdpg'[f] = fdpg[f] /\ data'[f] = data[f]
  <2>1. CASE data' = data /\ fdpg' = [fdpg EXCEPT ![c][i] = fdpg[e][i]]
    BY <1>1, <2>1 DEF Types
  <2>2. CASE fdpg' = fdpg /\ data' = [data EXCEPT ![c][i] = data[e][i]]
    <3>1. data[e][i] \in BOOLEAN
      BY <1>1 DEF Types
    <3> QED BY <1>1, <2>2, <3>1 DEF Types
  <2> QED BY <2>1, <2>2
<1>8. Types'
  BY <1>1, <1>5, <1>7 DEF Types, UnchangedPipe
<1>9. \A f \in Proc : CallOK(f)'
  <2>1. CallOK(c)'
    BY <1>5, <1>6 DEF PipeInv, CallOK, At, ReadPcs, WritePcs, CheckPcs, DupPcs, UnmapPcs
  <2>2. ASSUME NEW f \in Proc, f # c PROVE CallOK(f)'
    <3>1. CallOK(f) /\ fdpg'[f] = fdpg[f] /\ data'[f] = data[f]
      BY <1>7, <2>2 DEF PipeInv
    <3> QED BY <1>5, <3>1 DEF CallOK
  <2> QED BY <2>1, <2>2
<1>10. \A f \in Proc : ForkOK(f)'
  <2>1. ASSUME NEW f \in Proc, loc'[f].pc = "fork"
        PROVE  /\ "fork" \in Ops /\ loc'[f].child # f
               /\ loc'[loc'[f].child].pc = "free"
               /\ \A g \in Proc \ {f} : loc'[g].pc = "fork" => loc'[g].child # loc'[f].child
    <3>1. ForkOK(f) /\ At(f, "fork") /\ loc'[f].child = loc[f].child
      BY <1>5, <2>1 DEF PipeInv, At
    <3> QED BY <1>1, <1>5, <3>1 DEF ForkOK, At
  <2>2. ASSUME NEW f \in Proc, loc'[f].pc = "fork", f # e PROVE ForkOK(f)'
    <3>1. /\ ForkOK(f) /\ At(f, "fork") /\ loc'[f].child = loc[f].child
          /\ loc'[f].n = loc[f].n /\ loc[f].child # c /\ f # c
      BY <1>5, <1>6, <2>2 DEF PipeInv, At
    <3>2. /\ fdpg'[f] = fdpg[f] /\ fdpg'[loc[f].child] = fdpg[loc[f].child]
          /\ data'[f] = data[f] /\ data'[loc[f].child] = data[loc[f].child]
      BY <1>1, <1>7, <3>1
    <3> QED BY <2>1, <2>2, <3>1, <3>2 DEF ForkOK, At
  <2>3. ForkOK(e)'
    <3>1. /\ fdpg'[e] = fdpg[e] /\ data'[e] = data[e]
          /\ loc'[e].child = c /\ loc'[e].n = loc[e].n + 1 /\ loc'[e].pc = "fork"
      BY <1>5, <1>6, <1>7 DEF At
    <3>2. ASSUME NEW j \in Fdno, j < loc[e].n + 1 PROVE fdpg'[c][j] = fdpg[e][j]
      <4>0. j \in Nat /\ loc[e].n \in Nat
        BY <1>1, ConstFacts
      <4>1. j < loc[e].n \/ j = loc[e].n
        BY <3>2, <4>0
      <4>2. j < loc[e].n => fdpg[c][j] = fdpg[e][j]
        BY <1>6 DEF ForkOK
      <4>3. j = loc[e].n => j = i
        BY ConstFacts DEF Fdno
      <4>4. CASE j < loc[e].n
        <5>1. fdpg'[c][j] = fdpg[c][j]
          BY <1>1, <4>0, <4>4 DEF Types
        <5> QED BY <4>2, <4>4, <5>1
      <4>5. CASE j = loc[e].n
        <5>1. loc[e].n # NFd + i
          BY <4>0, <4>3, <4>5, ConstFacts
        <5>2. fdpg' = [fdpg EXCEPT ![c][i] = fdpg[e][i]]
          BY <5>1
        <5> QED BY <1>1, <4>3, <4>5, <5>2 DEF Types
      <4> QED BY <4>1, <4>4, <4>5
    <3>3. ASSUME NEW j \in Fdno, j + NFd < loc[e].n + 1 PROVE data'[c][j] = data[e][j]
      <4>0. j \in Nat /\ i \in Nat /\ loc[e].n \in Nat /\ NFd \in Nat
        BY <1>1, ConstFacts
      <4>1. j + NFd < loc[e].n \/ j + NFd = loc[e].n
        BY <3>3, <4>0
      <4>2. j + NFd < loc[e].n => data[c][j] = data[e][j]
        BY <1>6 DEF ForkOK
      <4>3. loc[e].n = i => i < NFd
        BY ConstFacts DEF Fdno
      <4>4. CASE loc[e].n = NFd + i
        <5>1. data' = [data EXCEPT ![c][i] = data[e][i]]
          BY <4>4, ConstFacts DEF Fdno
        <5>2. j + NFd = loc[e].n => j = i
          BY <4>0, <4>4
        <5> QED BY <1>1, <4>1, <4>2, <5>1, <5>2 DEF Types
      <4>5. CASE loc[e].n = i
        BY <3>3, <4>3, <4>5, ConstFacts DEF Fdno
      <4> QED BY <4>4, <4>5
    <3> QED BY <2>1, <3>1, <3>2, <3>3 DEF ForkOK, At
  <2> QED BY <2>2, <2>3 DEF ForkOK, At
<1>11. Backed'
  <2>1. ASSUME NEW f \in Proc, BeingForked(f) PROVE BeingForked(f)'
    BY <1>5, <2>1 DEF BeingForked, At
  <2>2. BeingForked(c)
    BY <1>6 DEF BeingForked
  <2> QED BY <1>7, <2>1, <2>2 DEF PipeInv, Backed
<1> QED BY <1>8, <1>9, <1>10, <1>11 DEF PipeInv

\* The last step of fork: the child has all of its parent's mappings and runs.
LEMMA ForkEndInv ==
  ASSUME PipeInv, NEW e \in Proc, At(e, "fork"), NEW c \in Proc, c = loc[e].child,
         loc[e].n = 2 * NFd, UnchangedMaps, UnchangedPipe, UNCHANGED told,
         loc' = [f \in Proc |-> IF f \in {e, c} THEN Idle(f) ELSE Preempted(f)]
  PROVE  PipeInv'
<1>1. /\ Types /\ loc \in [Proc -> LocalT]
      /\ \A f \in Proc : loc[f].child \in Proc /\ loc[f].n \in Nat
      /\ fdpg' = fdpg /\ data' = data
  BY DEF PipeInv, Types, LocalT, UnchangedMaps
<1>2. /\ loc' \in [Proc -> LocalT] /\ loc'[e] = Idle(e) /\ loc'[c] = Idle(c)
      /\ \A f \in Proc \ {e, c} :
           /\ loc'[f].pc = loc[f].pc /\ loc'[f].op = loc[f].op
           /\ loc'[f].fd = loc[f].fd /\ loc'[f].arg = loc[f].arg
           /\ loc'[f].n = loc[f].n /\ loc'[f].child = loc[f].child
  <2>1. \A f \in Proc : loc[f] \in LocalT /\ Idle(f) \in LocalT
    BY <1>1, IdleType
  <2> QED BY <1>1, <2>1, PreemptedFacts
<1>3. /\ ForkOK(e) /\ At(c, "free") /\ c # e
      /\ \A f \in Proc \ {e} : At(f, "fork") => loc[f].child # c
  BY DEF PipeInv, ForkOK
<1>4. \A f \in Proc : At(f, "fork") => loc[f].child # e
  BY DEF PipeInv, ForkOK, At
<1>5. Types'
  BY <1>1, <1>2 DEF Types, UnchangedPipe
<1>6. \A f \in Proc : CallOK(f)'
  <2>1. ASSUME NEW f \in {e, c} PROVE CallOK(f)'
    BY <1>2 DEF Idle, CallOK, ReadPcs, WritePcs, CheckPcs, DupPcs, UnmapPcs
  <2>2. ASSUME NEW f \in Proc \ {e, c} PROVE CallOK(f)'
    <3>1. CallOK(f)
      BY DEF PipeInv
    <3> QED BY <1>1, <1>2, <3>1 DEF CallOK
  <2> QED BY <2>1, <2>2
<1>7. \A f \in Proc : ForkOK(f)'
  <2>1. \A f \in {e, c} : loc'[f].pc # "fork"
    BY <1>2 DEF Idle
  <2>2. ASSUME NEW f \in Proc, loc'[f].pc = "fork" PROVE ForkOK(f)'
    <3>1. f \notin {e, c}
      BY <2>1, <2>2
    <3>2. /\ ForkOK(f) /\ At(f, "fork") /\ loc[f].child \notin {e, c}
          /\ loc'[f].child = loc[f].child /\ loc'[f].n = loc[f].n
          /\ loc[f].child \in Proc
      BY <1>1, <1>2, <1>3, <1>4, <2>2, <3>1 DEF PipeInv, At
    <3>3. loc'[loc[f].child].pc = "free" /\ loc[f].child # f
      BY <1>2, <3>2 DEF ForkOK, At
    <3>4. \A g \in Proc \ {f} : loc'[g].pc = "fork" => loc'[g].child # loc[f].child
      BY <1>2, <2>1, <3>2 DEF ForkOK, At
    <3> QED BY <1>1, <3>2, <3>3, <3>4 DEF ForkOK, At
  <2> QED BY <2>2 DEF ForkOK, At
<1>8. Backed'
  <2>1. ASSUME NEW f \in Proc, f # c, BeingForked(f) PROVE BeingForked(f)'
    <3>1. PICK g \in Proc : At(g, "fork") /\ loc[g].child = f
      BY <2>1 DEF BeingForked
    <3>2. g \notin {e, c}
      BY <1>3, <2>1, <3>1 DEF At
    <3> QED BY <1>2, <3>1, <3>2 DEF BeingForked, At
  <2>2. \A n \in Fdno : fdpg[e][n] # "none" => data[e][n]
    <3>1. ~At(e, "free")
      BY DEF At
    <3> QED BY <3>1, Running
  <2>3. \A n \in Fdno : fdpg[c][n] = fdpg[e][n] /\ data[c][n] = data[e][n]
    <3>1. \A n \in Fdno : n < loc[e].n /\ n + NFd < loc[e].n
      BY ConstFacts DEF Fdno
    <3> QED BY <1>3, <3>1 DEF ForkOK
  <2>4. \A n \in Fdno : fdpg[c][n] # "none" => data[c][n]
    BY <2>2, <2>3
  <2> QED BY <1>1, <2>1, <2>4 DEF PipeInv, Backed
<1> QED BY <1>5, <1>6, <1>7, <1>8 DEF PipeInv

LEMMA DuppageInv ==
  ASSUME PipeInv, NEW e \in Proc, duppage(e)
  PROVE  PipeInv'
<1>1. /\ At(e, "fork") /\ loc[e].child \in Proc /\ loc[e].n \in Nat
      /\ UnchangedPipe /\ UNCHANGED told
  BY DEF duppage, PipeInv, Types, LocalT
<1>2. CASE /\ loc[e].n < NFd
           /\ fdpg' = [fdpg EXCEPT ![loc[e].child][loc[e].n] = fdpg[e][loc[e].n]]
           /\ UNCHANGED data /\ Step(e, [loc[e] EXCEPT !.n = @ + 1])
  <2>1. loc[e].n \in Fdno
    BY <1>1, <1>2, ConstFacts DEF Fdno
  <2> QED BY <1>1, <1>2, <2>1, CopyInv
<1>3. CASE /\ loc[e].n \in NFd..(2 * NFd - 1)
           /\ data' = [data EXCEPT ![loc[e].child][loc[e].n - NFd] = data[e][loc[e].n - NFd]]
           /\ Step(e, [loc[e] EXCEPT !.n = @ + 1]) /\ UNCHANGED fdpg
  <2>1. loc[e].n - NFd \in Fdno /\ loc[e].n = NFd + (loc[e].n - NFd)
    <3>1. NFd <= loc[e].n /\ loc[e].n <= 2 * NFd - 1
      BY <1>3
    <3> QED BY <1>1, <3>1, ConstFacts DEF Fdno
  <2> QED BY <1>1, <1>3, <2>1, CopyInv
<1>4. CASE /\ loc[e].n = 2 * NFd /\ UnchangedMaps
           /\ loc' = [f \in Proc |-> IF f \in {e, loc[e].child} THEN Idle(f)
                                     ELSE Preempted(f)]
  BY <1>1, <1>4, ForkEndInv
<1> QED BY <1>2, <1>3, <1>4 DEF duppage

LEMMA PipeInit == Init => PipeInv
<1> SUFFICES ASSUME Init PROVE PipeInv
  OBVIOUS
<1>1. \A e \in Proc : /\ loc[e] \in LocalT /\ loc[e].pc \in {"free", "idle"}
                      /\ loc[e].op = "none"
  BY IdleType DEF Init, LocalT, Idle, Pcs
<1>2. Types
  <2>1. data \in [Proc -> [Fdno -> BOOLEAN]]
    BY DEF Init
  <2>2. loc \in [Proc -> LocalT]
    BY <1>1 DEF Init
  <2>3. 0 \in 0..(PosMod - 1) /\ p_buf \in [0..(BY2PIPE - 1) -> Nat] /\ got \in Seq(Nat)
    BY ConstFacts DEF Init
  <2> QED BY <2>1, <2>2, <2>3, ConstFacts DEF Init, Types
<1>3. \A e \in Proc : CallOK(e)
  BY <1>1 DEF CallOK, ReadPcs, WritePcs, CheckPcs, DupPcs, UnmapPcs
<1>4. \A e \in Proc : ForkOK(e)
  BY <1>1 DEF ForkOK, At
<1>5. Backed
  BY ConstFacts DEF Init, Backed
<1> QED BY <1>2, <1>3, <1>4, <1>5 DEF PipeInv

LEMMA PipeNext == PipeInv /\ [Next]_vars => PipeInv'
<1> SUFFICES ASSUME PipeInv, [Next]_vars PROVE PipeInv'
  OBVIOUS
<1>1. CASE UNCHANGED vars
  <2>1. Types' /\ Backed'
    BY <1>1 DEF vars, PipeInv, Types, Backed, BeingForked, At
  <2>2. \A e \in Proc : CallOK(e)' /\ ForkOK(e)'
    BY <1>1 DEF vars, PipeInv, CallOK, ForkOK, At
  <2> QED BY <2>1, <2>2 DEF PipeInv
<1>2. ASSUME NEW e \in Proc, Calls(e) PROVE PipeInv'
  BY <1>2, CallsInv, ForkInv DEF Calls
<1>3. ASSUME NEW e \in Proc, Steps(e) PROVE PipeInv'
  BY <1>3, CheckStepInv, ReadStepInv, WriteStepInv, UnmapInv, DupInv, DuppageInv DEF Steps
<1>4. ASSUME NEW e \in Proc, read_refs(e) PROVE PipeInv'
  BY <1>4, CheckStepInv
<1> QED BY <1>1, <1>2, <1>3, <1>4 DEF Next

-----------------------------------------------------------------------------
(***************************************************************************)
(* Nobody is told of a closed pipe while the other end is open.  The two   *)
(* counts compared are those of one moment, unless env_runs differs; and   *)
(* at every moment the pipe page has a mapping for each open descriptor,   *)
(* except in the child of a fork.  So no fork may be in progress while     *)
(* somebody else checks: either the programs do not fork once the pipe     *)
(* exists, or there are two environments, parent and child.                *)
(***************************************************************************)
NoThirdParty == "fork" \notin Ops \/ \E a, b : Proc \subseteq {a, b}

LEMMA EqualRefsMeanClosed ==
  ASSUME PipeInv, \A f \in Proc : ~At(f, "fork"), NEW end \in {"r", "w"},
         pageref_fd(end) = pageref_pipe
  PROVE  \A f \in Proc, n \in Fdno : fdpg[f][n] \in {"none", end}
<1> DEFINE S == {x \in Proc \X Fdno : data[x[1]][x[2]]}
           T == {x \in Proc \X Fdno : fdpg[x[1]][x[2]] = end}
<1>1. \A f \in Proc, n \in Fdno : fdpg[f][n] # "none" => data[f][n]
  BY DEF PipeInv, Backed, BeingForked
<1>2. T \in SUBSET S
  BY <1>1
<1>3. IsFiniteSet(S)
  BY CardTypes
<1>4. Cardinality(S) = Cardinality(T)
  BY DEF pageref_fd, pageref_pipe
<1> HIDE DEF S, T
<1>5. S = T
  BY <1>2, <1>3, <1>4, FS_Subset
<1>6. ASSUME NEW f \in Proc, NEW n \in Fdno, fdpg[f][n] # "none" PROVE fdpg[f][n] = end
  <2>1. <<f, n>> \in S
    BY <1>1, <1>6 DEF S
  <2>2. <<f, n>> \in T
    BY <1>5, <2>1
  <2> QED BY <2>2 DEF T
<1> QED BY <1>6

\* A checker knows that no fork is in progress.
LEMMA NobodyForks ==
  ASSUME NoThirdParty, PipeInv, NEW e \in Proc, loc[e].pc \in CheckPcs
  PROVE  \A f \in Proc : ~At(f, "fork")
<1> SUFFICES ASSUME NEW f \in Proc, At(f, "fork") PROVE FALSE
  OBVIOUS
<1>1. /\ "fork" \in Ops /\ loc[f].child \in Proc
      /\ loc[f].child # f /\ At(loc[f].child, "free")
  BY DEF PipeInv, ForkOK, Types, LocalT
<1>2. e # f /\ e # loc[f].child
  BY <1>1 DEF CheckPcs, At
<1> QED BY <1>1, <1>2 DEF NoThirdParty

\* No step opens an end that nobody has open.
LEMMA NoNewEnds ==
  ASSUME PipeInv, Next, NEW end \in {"r", "w"}, Holders(end) = {}
  PROVE  Holders(end)' = {}
<1>1. Types /\ \A f \in Proc, n \in Fdno : fdpg[f][n] # end
  BY DEF PipeInv, Holders
<1> SUFFICES \A f \in Proc, n \in Fdno : fdpg'[f][n] # end
  BY DEF Holders
<1>2. CASE UNCHANGED fdpg
  BY <1>1, <1>2
<1>3. ASSUME NEW e \in Proc, unmap_fd(e) PROVE \A f \in Proc, n \in Fdno : fdpg'[f][n] # end
  BY <1>1, <1>3 DEF unmap_fd, Types
<1>4. ASSUME NEW e \in Proc, dup_fd(e) PROVE \A f \in Proc, n \in Fdno : fdpg'[f][n] # end
  <2>1. CallOK(e) /\ loc[e].arg \in Fdno
    BY <1>4 DEF PipeInv, CallOK, dup_fd, At, DupPcs
  <2>2. fdpg[e][loc[e].arg] # end
    BY <1>1, <2>1
  <2> QED BY <1>1, <1>4, <2>2 DEF dup_fd, Types
<1>5. ASSUME NEW e \in Proc, duppage(e), ~UNCHANGED fdpg
      PROVE  \A f \in Proc, n \in Fdno : fdpg'[f][n] # end
  <2>1. /\ loc[e].n < NFd /\ loc[e].n \in Nat
        /\ fdpg' = [fdpg EXCEPT ![loc[e].child][loc[e].n] = fdpg[e][loc[e].n]]
    BY <1>5 DEF duppage, UnchangedMaps, PipeInv, Types, LocalT
  <2>2. loc[e].n \in Fdno
    BY <2>1, ConstFacts DEF Fdno
  <2>3. fdpg[e][loc[e].n] # end
    BY <1>1, <2>2
  <2> QED BY <1>1, <2>1, <2>3 DEF Types
<1>6. PICK e \in Proc : Calls(e) \/ Steps(e) \/ read_refs(e)
  BY DEF Next
<1>7. Calls(e) => UNCHANGED fdpg
  BY DEF Calls, Call, UnchangedMaps, pipe_is_closed, pipe_read, pipe_write, close, dup, fork
<1>8. Steps(e) => UNCHANGED fdpg \/ unmap_fd(e) \/ dup_fd(e) \/ duppage(e)
  BY DEF Steps, UnchangedMaps, read_runs, read_fd_ref, read_pipe_ref, read_test, take,
         taken, write_test, put, stored, unmap_data, dup_data
<1>9. read_refs(e) => UNCHANGED fdpg
  BY DEF read_refs, UnchangedMaps
<1> QED BY <1>2, <1>3, <1>4, <1>5, <1>6, <1>7, <1>8, <1>9

\* Who is told, and what he had compared.
Concludes(e) ==
  /\ \/ At(e, "runs") /\ pageref_fd(fdpg[e][loc[e].fd]) = pageref_pipe
     \/ At(e, "pipe_ref") /\ ~loc[e].rerun /\ loc[e].ref = pageref_pipe
  /\ told' = [told EXCEPT ![e] = @ \union {fdpg[e][loc[e].fd]}]
  /\ fdpg' = fdpg

LEMMA ToldStep == Next => UNCHANGED told \/ \E e \in Proc : Concludes(e)
<1> SUFFICES ASSUME NEW e \in Proc, Calls(e) \/ Steps(e) \/ read_refs(e)
             PROVE  UNCHANGED told \/ Concludes(e)
  BY DEF Next
<1>1. Calls(e) => UNCHANGED told
  BY DEF Calls, Call, pipe_is_closed, pipe_read, pipe_write, close, dup, fork
<1>2. Steps(e) => UNCHANGED told \/ read_pipe_ref(e)
  BY DEF Steps, read_runs, read_fd_ref, read_test, take, taken, write_test, put, stored,
         unmap_fd, unmap_data, dup_data, dup_fd, duppage
<1>3. read_pipe_ref(e) => UNCHANGED told \/ Concludes(e)
  BY DEF read_pipe_ref, Conclude, Concludes, UnchangedMaps
<1>4. read_refs(e) => UNCHANGED told \/ Concludes(e)
  BY DEF read_refs, Conclude, Concludes, UnchangedMaps
<1> QED BY <1>1, <1>2, <1>3, <1>4

LEMMA PreemptedRerun ==
  ASSUME loc \in [Proc -> LocalT]
  PROVE  \A f \in Proc : Preempted(f).pc = "pipe_ref" => Preempted(f).rerun
<1> SUFFICES ASSUME NEW f \in Proc, Preempted(f).pc = "pipe_ref" PROVE Preempted(f).rerun
  OBVIOUS
<1>1. loc[f].pc = "pipe_ref"
  BY PreemptedFacts
<1>2. loc[f].pc \in {"fd_ref", "pipe_ref"}
  BY <1>1
<1>3. Preempted(f).rerun = (loc[f].pc \in {"fd_ref", "pipe_ref"})
  BY PreemptedFacts
<1> QED BY <1>2, <1>3, Zenon

\* Only read_fd_ref brings e to the comparison, and e is alone in not having been
\* interrupted.
LEMMA ArrivesFresh ==
  ASSUME PipeInv, NEW e \in Proc, Calls(e) \/ Steps(e) \/ read_refs(e)
  PROVE  /\ \A f \in Proc \ {e} : loc'[f].pc = "pipe_ref" => loc'[f].rerun
         /\ loc'[e].pc = "pipe_ref" => read_fd_ref(e)
<1>1. loc \in [Proc -> LocalT] /\ \A f \in Proc : loc[f] \in LocalT
  BY DEF PipeInv, Types
<1>2. ASSUME NEW l, Step(e, l)
      PROVE  /\ loc'[e] = l
             /\ \A f \in Proc \ {e} : loc'[f].pc = "pipe_ref" => loc'[f].rerun
  <2>1. \A f \in Proc : loc'[f] = IF f = e THEN l ELSE Preempted(f)
    BY <1>2 DEF Step
  <2>2. \A f \in Proc : Preempted(f).pc = "pipe_ref" => Preempted(f).rerun
    BY <1>1, PreemptedRerun
  <2> QED BY <2>1, <2>2
<1>3. ASSUME NEW op, NEW pc, NEW fd, NEW arg, Call(e, op, pc, fd, arg), pc # "pipe_ref"
      PROVE  /\ loc'[e].pc # "pipe_ref"
             /\ \A f \in Proc \ {e} : loc'[f].pc = "pipe_ref" => loc'[f].rerun
  <2>1. Step(e, [Idle(e) EXCEPT !.pc = pc, !.op = op, !.fd = fd, !.arg = arg])
    BY <1>3 DEF Call
  <2>2. [Idle(e) EXCEPT !.pc = pc, !.op = op, !.fd = fd, !.arg = arg].pc = pc
    BY DEF Idle
  <2> QED BY <1>2, <1>3, <2>1, <2>2
<1>4. CASE Calls(e) /\ ~fork(e)
  <2>1. PICK op, pc, fd, arg : Call(e, op, pc, fd, arg) /\ pc # "pipe_ref"
    <3>1. CASE pipe_is_closed(e)
      BY <3>1 DEF pipe_is_closed
    <3>2. CASE pipe_read(e)
      BY <3>2 DEF pipe_read
    <3>3. CASE pipe_write(e)
      BY <3>3 DEF pipe_write
    <3>4. CASE close(e)
      BY <3>4 DEF close
    <3>5. CASE dup(e)
      BY <3>5 DEF dup
    <3> QED BY <1>4, <3>1, <3>2, <3>3, <3>4, <3>5 DEF Calls
  <2> QED BY <1>3, <2>1
<1>5. CASE fork(e)
  <2>1. PICK c \in Proc :
          Step(e, [Idle(e) EXCEPT !.pc = "fork", !.op = "fork", !.child = c])
    BY <1>5 DEF fork
  <2>2. [Idle(e) EXCEPT !.pc = "fork", !.op = "fork", !.child = c].pc # "pipe_ref"
    BY DEF Idle
  <2> QED BY <1>2, <2>1, <2>2
<1>6. CASE duppage(e)
  <2>1. CASE Step(e, [loc[e] EXCEPT !.n = @ + 1])
    <3>1. [loc[e] EXCEPT !.n = @ + 1].pc = "fork"
      BY <1>1, <1>6 DEF duppage, At, LocalT
    <3> QED BY <1>2, <2>1, <3>1
  <2>2. CASE loc' = [f \in Proc |-> IF f \in {e, loc[e].child} THEN Idle(f)
                                    ELSE Preempted(f)]
    <3>1. \A f \in Proc : /\ Preempted(f).pc = "pipe_ref" => Preempted(f).rerun
                          /\ Idle(f).pc # "pipe_ref"
      BY <1>1, PreemptedRerun DEF Idle
    <3>2. \A f \in Proc : loc'[f] = Idle(f) \/ (loc'[f] = Preempted(f) /\ f # e)
      BY <2>2
    <3> QED BY <3>1, <3>2
  <2> QED BY <1>6, <2>1, <2>2 DEF duppage
<1>7. CASE read_pipe_ref(e) \/ read_refs(e)
  <2>1. ASSUME NEW closed, Conclude(e, closed)
        PROVE  /\ loc'[e].pc # "pipe_ref"
               /\ \A f \in Proc \ {e} : loc'[f].pc = "pipe_ref" => loc'[f].rerun
    <3> DEFINE l == IF closed \/ loc[e].op = "check" THEN Idle(e)
                    ELSE [loc[e] EXCEPT !.pc = loc[e].op]
    <3>1. Step(e, l)
      BY <2>1 DEF Conclude
    <3>2. l.pc # "pipe_ref"
      BY <1>1 DEF LocalT, Idle
    <3> QED BY <1>2, <3>1, <3>2
  <2>2. CASE Goto(e, "runs")
    <3>1. [loc[e] EXCEPT !.pc = "runs"].pc = "runs"
      BY <1>1 DEF LocalT
    <3> QED BY <1>2, <2>2, <3>1 DEF Goto
  <2> QED BY <1>7, <2>1, <2>2 DEF read_pipe_ref, read_refs
<1>8. CASE read_runs(e)
  <2>1. [loc[e] EXCEPT !.pc = "fd_ref", !.rerun = FALSE].pc = "fd_ref"
    BY <1>1 DEF LocalT
  <2> QED BY <1>2, <1>8, <2>1 DEF read_runs
<1>9. CASE read_fd_ref(e)
  BY <1>2, <1>9 DEF read_fd_ref
<1>10. CASE read_test(e) \/ take(e) \/ taken(e)
  <2>1. \A pc : [loc[e] EXCEPT !.pc = pc].pc = pc
    BY <1>1 DEF LocalT
  <2>2. Idle(e).pc # "pipe_ref"
    BY DEF Idle
  <2>3. CASE read_test(e)
    BY <1>2, <2>1, <2>2, <2>3 DEF read_test
  <2>4. CASE take(e)
    <3>1. \A i, b : [loc[e] EXCEPT !.pc = "taken", !.idx = i, !.byte = b].pc = "taken"
      BY <1>1 DEF LocalT
    <3>2. PICK i, b : Step(e, [loc[e] EXCEPT !.pc = "taken", !.idx = i, !.byte = b])
      BY <2>4 DEF take
    <3> QED BY <1>2, <3>1, <3>2
  <2>5. CASE taken(e)
    <3>1. [loc[e] EXCEPT !.pc = "read", !.n = @ + 1, !.idx = 0, !.byte = 0].pc = "read"
      BY <1>1 DEF LocalT
    <3> QED BY <1>2, <2>5, <3>1 DEF taken
  <2> QED BY <1>10, <2>3, <2>4, <2>5
<1>11. CASE write_test(e) \/ put(e) \/ stored(e)
  <2>1. \A pc : [loc[e] EXCEPT !.pc = pc].pc = pc
    BY <1>1 DEF LocalT
  <2>2. Idle(e).pc # "pipe_ref"
    BY DEF Idle
  <2>3. CASE write_test(e)
    BY <1>2, <2>1, <2>2, <2>3 DEF write_test
  <2>4. CASE put(e)
    <3>1. \A i : [loc[e] EXCEPT !.pc = "stored", !.idx = i].pc = "stored"
      BY <1>1 DEF LocalT
    <3> QED BY <1>2, <2>4, <3>1 DEF put
  <2>5. CASE stored(e)
    <3>1. [loc[e] EXCEPT !.pc = "write", !.n = @ + 1, !.idx = 0].pc = "write"
      BY <1>1 DEF LocalT
    <3> QED BY <1>2, <2>5, <3>1 DEF stored
  <2> QED BY <1>11, <2>3, <2>4, <2>5
<1>12. CASE unmap_fd(e) \/ unmap_data(e) \/ dup_data(e) \/ dup_fd(e)
  <2>1. \A pc : [loc[e] EXCEPT !.pc = pc].pc = pc
    BY <1>1 DEF LocalT
  <2>2. Idle(e).pc # "pipe_ref"
    BY DEF Idle
  <2> QED BY <1>2, <1>12, <2>1, <2>2 DEF unmap_fd, unmap_data, dup_data, dup_fd, Goto
<1> QED BY <1>4, <1>5, <1>6, <1>7, <1>8, <1>9, <1>10, <1>11, <1>12 DEF Steps

LEMMA CloseNext ==
  ASSUME NoThirdParty
  PROVE  CloseInv /\ [Next]_vars => CloseInv'
<1> SUFFICES ASSUME CloseInv, [Next]_vars PROVE CloseInv'
  OBVIOUS
<1>1. PipeInv'
  BY PipeNext DEF CloseInv
<1>2. CASE UNCHANGED vars
  BY <1>1, <1>2 DEF CloseInv, vars, RefFresh, At, pageref_fd, NoFalseClose, Holders
<1>3. ASSUME Next PROVE RefFresh'
  <2>1. PICK e \in Proc : Calls(e) \/ Steps(e) \/ read_refs(e)
    BY <1>3 DEF Next
  <2>2. /\ \A f \in Proc \ {e} : loc'[f].pc = "pipe_ref" => loc'[f].rerun
        /\ loc'[e].pc = "pipe_ref" => read_fd_ref(e)
    BY <2>1, ArrivesFresh DEF CloseInv
  <2>3. ASSUME read_fd_ref(e)
        PROVE  /\ loc'[e].ref = pageref_fd(fdpg[e][loc[e].fd]) /\ loc'[e].fd = loc[e].fd
               /\ fdpg' = fdpg
    <3>1. loc[e] \in LocalT
      BY DEF CloseInv, PipeInv, Types
    <3>2. \A k : LET l == [loc[e] EXCEPT !.pc = "pipe_ref", !.ref = k]
                 IN  l.ref = k /\ l.fd = loc[e].fd
      BY <3>1 DEF LocalT
    <3>3. loc'[e] = [loc[e] EXCEPT !.pc = "pipe_ref",
                                   !.ref = pageref_fd(fdpg[e][loc[e].fd])]
      BY <2>3 DEF read_fd_ref, Step
    <3> QED BY <2>3, <3>2, <3>3 DEF read_fd_ref, UnchangedMaps
  <2>4. read_fd_ref(e) => loc'[e].ref = pageref_fd(fdpg[e][loc[e].fd])'
    BY <2>3 DEF pageref_fd
  <2> QED BY <2>2, <2>4 DEF RefFresh, At
<1>4. ASSUME Next PROVE NoFalseClose'
  <2>1. PipeInv /\ RefFresh /\ NoFalseClose
    BY DEF CloseInv
  <2>2. \A end \in {"r", "w"} : Holders(end) = {} => Holders(end)' = {}
    BY <1>4, <2>1, NoNewEnds
  <2>3. CASE UNCHANGED told
    BY <2>1, <2>2, <2>3 DEF NoFalseClose
  <2>4. ASSUME NEW e \in Proc, Concludes(e) PROVE NoFalseClose'
    <3>1. loc[e].pc \in CheckPcs /\ ~At(e, "free")
      BY <2>4 DEF Concludes, At, CheckPcs
    <3>2. fdpg[e][loc[e].fd] \in {"r", "w"}
      BY <2>1, <3>1, Running DEF CallOK, End, LocalT
    <3>3. pageref_fd(fdpg[e][loc[e].fd]) = pageref_pipe
      BY <2>1, <2>4 DEF Concludes, RefFresh
    <3>4. \A f \in Proc : ~At(f, "fork")
      BY <2>1, <3>1, NobodyForks
    <3>5. \A f \in Proc, n \in Fdno : fdpg[f][n] \in {"none", fdpg[e][loc[e].fd]}
      BY <2>1, <3>2, <3>3, <3>4, EqualRefsMeanClosed
    <3>6. /\ fdpg[e][loc[e].fd] = "r" => Holders("w") = {}
          /\ fdpg[e][loc[e].fd] = "w" => Holders("r") = {}
      BY <3>5 DEF Holders
    <3>7. told \in [Proc -> SUBSET {"r", "w"}]
      BY <2>1 DEF PipeInv, Types
    <3>8. \A f \in Proc : \A end \in told'[f] : end \in told[f] \/ end = fdpg[e][loc[e].fd]
      BY <2>4, <3>7 DEF Concludes
    <3> QED BY <2>1, <2>2, <3>6, <3>8 DEF NoFalseClose
  <2> QED BY <1>4, <2>3, <2>4, ToldStep
<1> QED BY <1>1, <1>2, <1>3, <1>4 DEF CloseInv

LEMMA CloseInit == Init => CloseInv
<1> SUFFICES ASSUME Init PROVE CloseInv
  OBVIOUS
<1>1. RefFresh
  BY IdleType DEF Init, RefFresh, At, Idle
<1>2. NoFalseClose
  BY DEF Init, NoFalseClose
<1> QED BY <1>1, <1>2, PipeInit DEF CloseInv

\* _pipe_is_closed never says "closed" while somebody has the other end open, for
\* any number of environments and descriptors, however their reads, writes, checks,
\* closes and dups interleave, and with fork between two environments.
THEOREM PipeNoFalseClose ==
  ASSUME NoThirdParty
  PROVE  Spec => []NoFalseClose
<1>1. CloseInv => NoFalseClose
  BY DEF CloseInv
<1> QED BY <1>1, CloseInit, CloseNext, PTL DEF Spec

-----------------------------------------------------------------------------
(***************************************************************************)
(* The data.  What a step does to the positions, the buffer and the locals *)
(* of read and write.                                                      *)
(***************************************************************************)
SameCall(f) ==
  /\ loc'[f].pc = loc[f].pc /\ loc'[f].op = loc[f].op /\ loc'[f].arg = loc[f].arg
  /\ loc'[f].n = loc[f].n /\ loc'[f].idx = loc[f].idx /\ loc'[f].byte = loc[f].byte

\* f is outside the accesses to the buffer.
Tame(f) ==
  /\ loc'[f].pc \notin {"take", "taken", "put", "stored"}
  /\ loc'[f].byte \in {0, loc[f].byte}
  /\ loc'[f].op = "write" => /\ loc[f].op = "write"
                             /\ loc'[f].n = loc[f].n /\ loc'[f].arg = loc[f].arg

Calm == UnchangedPipe /\ \A f \in Proc : SameCall(f) \/ Tame(f)

Begins(e) ==
  /\ UnchangedPipe /\ "write" \in Ops
  /\ loc'[e].pc = "write" /\ loc'[e].n = 0 /\ loc'[e].byte = 0
  /\ loc'[e].arg \in Nat /\ sent + loc'[e].arg <= MaxBytes

Ready(e) ==
  /\ UnchangedPipe /\ At(e, "read") /\ ~_pipe_is_empty
  /\ loc'[e].pc = "take" /\ loc'[e].op = "read" /\ loc'[e].byte = loc[e].byte

Takes(e) ==
  /\ take(e)
  /\ loc'[e].pc = "taken" /\ loc'[e].op = "read" /\ loc'[e].idx = p_rpos
  /\ loc'[e].byte = IF IndexFirst THEN 0 ELSE p_buf[p_rpos % BY2PIPE]

Took(e) == taken(e) /\ loc'[e].pc = "read" /\ loc'[e].op = "read" /\ loc'[e].byte = 0

Writes(e) ==
  loc'[e].op = "write" /\ loc'[e].arg = loc[e].arg /\ loc'[e].byte = loc[e].byte

Room(e) ==
  /\ UnchangedPipe /\ At(e, "write") /\ ~_pipe_is_full /\ loc[e].n < loc[e].arg
  /\ loc'[e].pc = "put" /\ loc'[e].n = loc[e].n /\ Writes(e)

Puts(e) ==
  /\ put(e) /\ loc'[e].pc = "stored" /\ loc'[e].n = loc[e].n /\ loc'[e].idx = p_wpos
  /\ Writes(e)

Stores(e) == stored(e) /\ loc'[e].pc = "write" /\ loc'[e].n = loc[e].n + 1 /\ Writes(e)

LEMMA StepOthers ==
  ASSUME loc \in [Proc -> LocalT], NEW e \in Proc, NEW l, Step(e, l)
  PROVE  loc'[e] = l /\ \A f \in Proc \ {e} : SameCall(f)
<1>1. \A f \in Proc : loc'[f] = IF f = e THEN l ELSE Preempted(f)
  BY DEF Step
<1> QED BY <1>1, PreemptedFacts DEF SameCall

LEMMA CallKinds ==
  ASSUME PipeInv, NEW e \in Proc, Calls(e)
  PROVE  Calm \/ (Begins(e) /\ \A f \in Proc \ {e} : SameCall(f))
<1>1. loc \in [Proc -> LocalT]
  BY DEF PipeInv, Types
<1>2. ASSUME NEW op, NEW pc, NEW fd, NEW arg, Call(e, op, pc, fd, arg)
      PROVE  /\ UnchangedPipe /\ \A f \in Proc \ {e} : SameCall(f)
             /\ loc'[e].pc = pc /\ loc'[e].op = op /\ loc'[e].arg = arg
             /\ loc'[e].n = 0 /\ loc'[e].byte = 0
  <2> DEFINE l == [Idle(e) EXCEPT !.pc = pc, !.op = op, !.fd = fd, !.arg = arg]
  <2>1. l.pc = pc /\ l.op = op /\ l.arg = arg /\ l.n = 0 /\ l.byte = 0
    BY DEF Idle
  <2>2. Step(e, l)
    BY <1>2 DEF Call
  <2> HIDE DEF l
  <2> QED BY <1>1, <1>2, <2>1, <2>2, StepOthers DEF Call
<1>3. CASE pipe_is_closed(e)
  <2>1. PICK n \in Open(e) : Call(e, "check", "runs", n, 0)
    BY <1>3 DEF pipe_is_closed
  <2> QED BY <1>2, <2>1 DEF Calm, Tame
<1>4. CASE pipe_read(e)
  <2>1. PICK fd \in Fdno, n \in Sizes : Call(e, "read", "read", fd, n)
    BY <1>4 DEF pipe_read
  <2> QED BY <1>2, <2>1 DEF Calm, Tame
<1>5. CASE pipe_write(e)
  <2>1. PICK fd \in Fdno, n \in Sizes :
          sent + n <= MaxBytes /\ Call(e, "write", "write", fd, n)
    BY <1>5 DEF pipe_write
  <2>2. "write" \in Ops /\ n \in Nat
    BY <2>1, ConstFacts DEF Call
  <2> QED BY <1>2, <2>1, <2>2 DEF Begins
<1>6. CASE close(e)
  <2>1. PICK n \in Open(e) : Call(e, "close", "unmap_fd", n, 0)
    BY <1>6 DEF close
  <2> QED BY <1>2, <2>1 DEF Calm, Tame
<1>7. CASE dup(e)
  <2>1. PICK pc, new, old : pc \in {"unmap_fd", "dup_data"} /\ Call(e, "dup", pc, new, old)
    BY <1>7 DEF dup
  <2> QED BY <1>2, <2>1 DEF Calm, Tame
<1>8. CASE fork(e)
  <2>1. PICK c \in Proc :
          Step(e, [Idle(e) EXCEPT !.pc = "fork", !.op = "fork", !.child = c])
    BY <1>8 DEF fork
  <2> DEFINE l == [Idle(e) EXCEPT !.pc = "fork", !.op = "fork", !.child = c]
  <2>2. l.pc = "fork" /\ l.op = "fork" /\ l.byte = 0
    BY DEF Idle
  <2> HIDE DEF l
  <2>3. loc'[e] = l /\ \A f \in Proc \ {e} : SameCall(f)
    BY <1>1, <2>1, StepOthers DEF l
  <2>4. UnchangedPipe
    BY <1>8 DEF fork
  <2> QED BY <2>2, <2>3, <2>4 DEF Calm, Tame
<1> QED BY <1>3, <1>4, <1>5, <1>6, <1>7, <1>8 DEF Calls

LEMMA StepKinds ==
  ASSUME PipeInv, NEW e \in Proc, Steps(e) \/ read_refs(e)
  PROVE  \/ Calm
         \/ /\ Ready(e) \/ Takes(e) \/ Took(e) \/ Room(e) \/ Puts(e) \/ Stores(e)
            /\ \A f \in Proc \ {e} : SameCall(f)
<1>1. loc \in [Proc -> LocalT] /\ loc[e] \in LocalT /\ CallOK(e)
  BY DEF PipeInv, Types
<1>2. /\ Idle(e).pc = "idle" /\ Idle(e).op = "none" /\ Idle(e).byte = 0
      /\ \A pc : LET l == [loc[e] EXCEPT !.pc = pc]
                 IN  /\ l.pc = pc /\ l.op = loc[e].op /\ l.arg = loc[e].arg
                     /\ l.n = loc[e].n /\ l.byte = loc[e].byte
  BY <1>1 DEF LocalT, Idle
<1>3. ASSUME NEW l, Step(e, l), UnchangedPipe,
             l = Idle(e) \/ \E pc : /\ l = [loc[e] EXCEPT !.pc = pc]
                                    /\ pc \notin {"take", "taken", "put", "stored"}
      PROVE  Calm
  <2>1. loc'[e] = l /\ \A f \in Proc \ {e} : SameCall(f)
    BY <1>1, <1>3, StepOthers
  <2>2. Tame(e)
    <3>1. CASE l = Idle(e)
      BY <1>2, <2>1, <3>1 DEF Tame
    <3>2. CASE l # Idle(e)
      <4>1. PICK pc : /\ l = [loc[e] EXCEPT !.pc = pc]
                      /\ pc \notin {"take", "taken", "put", "stored"}
        BY <1>3, <3>2
      <4>2. /\ l.pc = pc /\ l.op = loc[e].op /\ l.arg = loc[e].arg
            /\ l.n = loc[e].n /\ l.byte = loc[e].byte
        BY <1>2, <4>1
      <4> QED BY <2>1, <4>1, <4>2 DEF Tame
    <3> QED BY <3>1, <3>2
  <2> QED BY <1>3, <2>1, <2>2 DEF Calm
<1>4. CASE read_runs(e)
  <2> DEFINE l == [loc[e] EXCEPT !.pc = "fd_ref", !.rerun = FALSE]
  <2>1. /\ l.pc = "fd_ref" /\ l.op = loc[e].op /\ l.arg = loc[e].arg
        /\ l.n = loc[e].n /\ l.byte = loc[e].byte
    BY <1>1 DEF LocalT
  <2>2. Step(e, l) /\ UnchangedPipe
    BY <1>4 DEF read_runs
  <2> HIDE DEF l
  <2> QED BY <1>1, <2>1, <2>2, StepOthers DEF Calm, Tame
<1>5. CASE read_fd_ref(e)
  <2>1. PICK k : Step(e, [loc[e] EXCEPT !.pc = "pipe_ref", !.ref = k]) /\ UnchangedPipe
    BY <1>5 DEF read_fd_ref
  <2> DEFINE l == [loc[e] EXCEPT !.pc = "pipe_ref", !.ref = k]
  <2>2. /\ l.pc = "pipe_ref" /\ l.op = loc[e].op /\ l.arg = loc[e].arg
        /\ l.n = loc[e].n /\ l.byte = loc[e].byte
    BY <1>1 DEF LocalT
  <2> HIDE DEF l
  <2>3. loc'[e] = l /\ \A f \in Proc \ {e} : SameCall(f)
    BY <1>1, <2>1, StepOthers DEF l
  <2> QED BY <2>1, <2>2, <2>3 DEF Calm, Tame
<1>6. ASSUME NEW closed, Conclude(e, closed), UnchangedPipe, loc[e].pc \in CheckPcs
      PROVE  Calm
  <2>1. loc[e].op \notin {"take", "taken", "put", "stored"}
    BY <1>1, <1>6 DEF CallOK
  <2> QED BY <1>3, <1>6, <2>1 DEF Conclude
<1>7. CASE read_pipe_ref(e) \/ read_refs(e)
  BY <1>3, <1>6, <1>7 DEF read_pipe_ref, read_refs, Goto, At, CheckPcs
<1>8. CASE read_test(e)
  <2>1. UnchangedPipe /\ loc[e].op = "read" /\ At(e, "read")
    BY <1>1, <1>8 DEF read_test, CallOK, At, ReadPcs
  <2>2. CASE ~_pipe_is_empty /\ loc[e].n < loc[e].arg
    <3>1. Step(e, [loc[e] EXCEPT !.pc = "take"])
      BY <1>8, <2>2 DEF read_test
    <3>2. loc'[e] = [loc[e] EXCEPT !.pc = "take"] /\ \A f \in Proc \ {e} : SameCall(f)
      BY <1>1, <3>1, StepOthers
    <3> QED BY <1>2, <2>1, <2>2, <3>2 DEF Ready
  <2>3. CASE ~(~_pipe_is_empty /\ loc[e].n < loc[e].arg)
    BY <1>3, <1>8, <2>1, <2>3 DEF read_test
  <2> QED BY <2>2, <2>3
<1>9. CASE take(e)
  <2> DEFINE b == IF IndexFirst THEN 0 ELSE p_buf[p_rpos % BY2PIPE]
             l == [loc[e] EXCEPT !.pc = "taken", !.idx = p_rpos, !.byte = b]
  <2>1. Step(e, l) /\ loc[e].op = "read"
    BY <1>1, <1>9 DEF take, CallOK, At, ReadPcs
  <2>2. l.pc = "taken" /\ l.op = loc[e].op /\ l.idx = p_rpos /\ l.byte = b
    BY <1>1 DEF LocalT
  <2> HIDE DEF l
  <2> QED BY <1>1, <1>9, <2>1, <2>2, StepOthers DEF Takes
<1>10. CASE taken(e)
  <2> DEFINE l == [loc[e] EXCEPT !.pc = "read", !.n = @ + 1, !.idx = 0, !.byte = 0]
  <2>1. Step(e, l) /\ loc[e].op = "read"
    BY <1>1, <1>10 DEF taken, CallOK, At, ReadPcs
  <2>2. l.pc = "read" /\ l.op = loc[e].op /\ l.byte = 0
    BY <1>1 DEF LocalT
  <2> HIDE DEF l
  <2> QED BY <1>1, <1>10, <2>1, <2>2, StepOthers DEF Took
<1>11. CASE write_test(e)
  <2>1. UnchangedPipe /\ loc[e].op = "write" /\ At(e, "write")
    BY <1>1, <1>11 DEF write_test, CallOK, At, WritePcs
  <2>2. CASE ~_pipe_is_full /\ loc[e].n < loc[e].arg
    <3>1. Step(e, [loc[e] EXCEPT !.pc = "put"])
      BY <1>11, <2>2 DEF write_test
    <3>2. loc'[e] = [loc[e] EXCEPT !.pc = "put"] /\ \A f \in Proc \ {e} : SameCall(f)
      BY <1>1, <3>1, StepOthers
    <3> QED BY <1>2, <2>1, <2>2, <3>2 DEF Room, Writes
  <2>3. CASE ~(~_pipe_is_full /\ loc[e].n < loc[e].arg)
    BY <1>3, <1>11, <2>1, <2>3 DEF write_test
  <2> QED BY <2>2, <2>3
<1>12. CASE put(e)
  <2> DEFINE l == [loc[e] EXCEPT !.pc = "stored", !.idx = p_wpos]
  <2>1. Step(e, l) /\ loc[e].op = "write"
    BY <1>1, <1>12 DEF put, CallOK, At, WritePcs
  <2>2. /\ l.pc = "stored" /\ l.op = loc[e].op /\ l.idx = p_wpos /\ l.byte = loc[e].byte
        /\ l.n = loc[e].n /\ l.arg = loc[e].arg
    BY <1>1 DEF LocalT
  <2> HIDE DEF l
  <2> QED BY <1>1, <1>12, <2>1, <2>2, StepOthers DEF Puts, Writes
<1>13. CASE stored(e)
  <2> DEFINE l == [loc[e] EXCEPT !.pc = "write", !.n = @ + 1, !.idx = 0]
  <2>1. Step(e, l) /\ loc[e].op = "write"
    BY <1>1, <1>13 DEF stored, CallOK, At, WritePcs
  <2>2. /\ l.pc = "write" /\ l.op = loc[e].op /\ l.byte = loc[e].byte
        /\ l.n = loc[e].n + 1 /\ l.arg = loc[e].arg
    BY <1>1 DEF LocalT
  <2> HIDE DEF l
  <2> QED BY <1>1, <1>13, <2>1, <2>2, StepOthers DEF Stores, Writes
<1>14. CASE unmap_fd(e) \/ unmap_data(e) \/ dup_data(e) \/ dup_fd(e)
  BY <1>3, <1>14 DEF unmap_fd, unmap_data, dup_data, dup_fd, Goto
<1>15. CASE duppage(e)
  <2>1. UnchangedPipe
    BY <1>15 DEF duppage
  <2>2. CASE Step(e, [loc[e] EXCEPT !.n = @ + 1])
    <3> DEFINE l == [loc[e] EXCEPT !.n = @ + 1]
    <3>1. l.pc = "fork" /\ l.op = loc[e].op /\ l.byte = loc[e].byte
      BY <1>1, <1>15 DEF LocalT, duppage, At
    <3>2. l.op # "write"
      BY <1>1, <1>15, <3>1 DEF duppage, At, CallOK
    <3> HIDE DEF l
    <3>3. loc'[e] = l /\ \A f \in Proc \ {e} : SameCall(f)
      BY <1>1, <2>2, StepOthers DEF l
    <3> QED BY <2>1, <3>1, <3>2, <3>3 DEF Calm, Tame
  <2>3. CASE loc' = [f \in Proc |-> IF f \in {e, loc[e].child} THEN Idle(f)
                                    ELSE Preempted(f)]
    <3>1. \A f \in Proc : loc'[f] = Idle(f) \/ loc'[f] = Preempted(f)
      BY <2>3
    <3>2. \A f \in Proc : loc'[f] = Idle(f) => Tame(f)
      BY DEF Idle, Tame
    <3>3. \A f \in Proc : loc'[f] = Preempted(f) => SameCall(f)
      BY <1>1, PreemptedFacts DEF SameCall
    <3> QED BY <2>1, <3>1, <3>2, <3>3 DEF Calm
  <2> QED BY <1>15, <2>2, <2>3 DEF duppage
<1> QED BY <1>4, <1>5, <1>7, <1>8, <1>9, <1>10, <1>11, <1>12, <1>13, <1>14, <1>15 DEF Steps

-----------------------------------------------------------------------------
(***************************************************************************)
(* The bound on the bytes.  pipe_write asks for room for its own bytes, so *)
(* the bound holds as long as one environment at a time writes.            *)
(***************************************************************************)
SoleAtStart(end) ==
  \A e, f \in Proc, m, n \in Fdno : Start[e][m] = end /\ Start[f][n] = end => e = f

OneWriter == "write" \notin Ops \/ ("fork" \notin Ops /\ SoleAtStart("w"))

Sole(end) ==
  \A e, f \in Proc, m, n \in Fdno : fdpg[e][m] = end /\ fdpg[f][n] = end => e = f

\* The inductive invariant for the types.
BoundInv ==
  /\ PipeInv
  /\ "write" \in Ops => Sole("w")
  /\ sent <= MaxBytes
  /\ p_buf \in [0..(BY2PIPE - 1) -> 0..MaxBytes]
  /\ got \in Seq(0..MaxBytes)
  /\ \A e \in Proc :
       LET l == loc[e]
       IN  /\ l.byte <= MaxBytes
           /\ l.op = "write" => /\ "write" \in Ops
                                /\ l.n <= l.arg /\ sent + (l.arg - l.n) <= MaxBytes
           /\ l.pc \in {"put", "stored"} => l.n < l.arg

\* Without fork an end stays with the environments that have it.
LEMMA SoleKept ==
  ASSUME PipeInv, Next, "fork" \notin Ops, NEW end \in {"r", "w"}, Sole(end)
  PROVE  Sole(end)'
<1>1. Types /\ \A e \in Proc : ~At(e, "fork")
  BY DEF PipeInv, ForkOK
<1> SUFFICES \A f \in Proc, n \in Fdno :
               fdpg'[f][n] = end => \E m \in Fdno : fdpg[f][m] = end
  BY DEF Sole
<1>2. ASSUME NEW e \in Proc, unmap_fd(e)
      PROVE  \A f \in Proc, n \in Fdno :
               fdpg'[f][n] = end => \E m \in Fdno : fdpg[f][m] = end
  BY <1>1, <1>2 DEF unmap_fd, Types
<1>3. ASSUME NEW e \in Proc, dup_fd(e)
      PROVE  \A f \in Proc, n \in Fdno :
               fdpg'[f][n] = end => \E m \in Fdno : fdpg[f][m] = end
  <2>1. CallOK(e) /\ loc[e].arg \in Fdno
    BY <1>3 DEF PipeInv, CallOK, dup_fd, At, DupPcs
  <2>2. fdpg' = [fdpg EXCEPT ![e][loc[e].fd] = fdpg[e][loc[e].arg]]
    BY <1>3 DEF dup_fd
  <2>3. \A f \in Proc, n \in Fdno :
          fdpg'[f][n] = fdpg[f][n] \/ (f = e /\ fdpg'[f][n] = fdpg[e][loc[e].arg])
    BY <1>1, <2>2 DEF Types
  <2> QED BY <2>1, <2>3
<1>4. PICK e \in Proc : Calls(e) \/ Steps(e) \/ read_refs(e)
  BY DEF Next
<1>5. Calls(e) => UNCHANGED fdpg
  BY DEF Calls, Call, UnchangedMaps, pipe_is_closed, pipe_read, pipe_write, close, dup, fork
<1>6. Steps(e) => UNCHANGED fdpg \/ unmap_fd(e) \/ dup_fd(e)
  BY <1>1 DEF Steps, UnchangedMaps, read_runs, read_fd_ref, read_pipe_ref, read_test, take,
              taken, write_test, put, stored, unmap_data, dup_data, duppage
<1>7. read_refs(e) => UNCHANGED fdpg
  BY DEF read_refs, UnchangedMaps
<1> QED BY <1>2, <1>3, <1>4, <1>5, <1>6, <1>7

\* The kinds of a step of Next.
LEMMA NextKinds ==
  ASSUME PipeInv, Next
  PROVE  \/ Calm
         \/ \E e \in Proc :
              /\ \/ Begins(e) \/ Ready(e) \/ Takes(e) \/ Took(e) \/ Room(e) \/ Puts(e)
                 \/ Stores(e)
              /\ \A f \in Proc \ {e} : SameCall(f)
BY CallKinds, StepKinds DEF Next

LEMMA BoundNext ==
  ASSUME OneWriter
  PROVE  BoundInv /\ [Next]_vars => BoundInv'
<1> SUFFICES ASSUME BoundInv, [Next]_vars PROVE BoundInv'
  OBVIOUS
<1>1. CASE UNCHANGED vars
  <2>1. PipeInv'
    BY PipeNext DEF BoundInv
  <2> QED BY <1>1, <2>1 DEF vars, BoundInv, Sole
<1>2. CASE Next
  <2>1. PipeInv /\ PipeInv' /\ Types /\ Types'
    BY PipeNext DEF BoundInv, PipeInv
  <2>2. "write" \in Ops => Sole("w")'
    BY <1>2, <2>1, SoleKept DEF OneWriter, BoundInv
  <2>3. /\ \A f \in Proc : loc[f].n \in Nat /\ loc[f].arg \in Int /\ loc[f].byte \in Nat
        /\ sent \in Nat /\ MaxBytes \in Nat
    BY <2>1, ConstFacts DEF Types, LocalT
  <2>4. \A f \in Proc : loc[f].op = "write" => fdpg[f][loc[f].fd] = "w" /\ loc[f].fd \in Fdno
    BY <2>1 DEF PipeInv, CallOK, Types, LocalT
  <2>5. \A f, g \in Proc : loc[f].op = "write" /\ loc[g].op = "write" => f = g
    BY <2>4 DEF BoundInv, Sole
  <2> DEFINE Loc(f) == /\ loc'[f].byte <= MaxBytes
                       /\ loc'[f].op = "write" =>
                            /\ "write" \in Ops /\ loc'[f].n <= loc'[f].arg
                            /\ sent' + (loc'[f].arg - loc'[f].n) <= MaxBytes
                       /\ loc'[f].pc \in {"put", "stored"} => loc'[f].n < loc'[f].arg
             Good == /\ sent' <= MaxBytes
                     /\ p_buf' \in [0..(BY2PIPE - 1) -> 0..MaxBytes]
                     /\ got' \in Seq(0..MaxBytes) /\ \A f \in Proc : Loc(f)
  <2>6. Good => BoundInv'
    BY <2>1, <2>2 DEF BoundInv
  <2>7. \A f \in Proc : SameCall(f) /\ sent' = sent => Loc(f)
    BY DEF SameCall, BoundInv
  <2>8. ASSUME Calm PROVE Good
    <3>1. \A f \in Proc : Tame(f) => Loc(f)
      BY <2>3, <2>8 DEF Tame, BoundInv, Calm, UnchangedPipe
    <3> QED BY <2>7, <2>8, <3>1 DEF Calm, UnchangedPipe, BoundInv
  <2>9. \A x \in Nat : x % BY2PIPE \in 0..(BY2PIPE - 1)
    BY <2>1, PosFacts
  <2>10. ASSUME NEW e \in Proc, Begins(e) \/ Ready(e) \/ Room(e),
                \A f \in Proc \ {e} : SameCall(f)
         PROVE  Good
    <3>1. UnchangedPipe
      BY <2>10 DEF Begins, Ready, Room
    <3>2. At(e, "write") => loc[e].op = "write"
      BY <2>1 DEF PipeInv, CallOK, At, WritePcs
    <3>3. Loc(e)
      BY <2>3, <2>10, <3>1, <3>2 DEF Begins, Ready, Room, Writes, BoundInv, UnchangedPipe
    <3> QED BY <2>7, <2>10, <3>1, <3>3 DEF BoundInv, UnchangedPipe
  <2>11. ASSUME NEW e \in Proc, Takes(e) \/ Took(e), \A f \in Proc \ {e} : SameCall(f)
         PROVE  Good
    <3>1. sent' = sent /\ p_buf' = p_buf
      BY <2>11 DEF Takes, Took, take, taken
    <3>2. /\ p_buf \in [0..(BY2PIPE - 1) -> 0..MaxBytes] /\ got \in Seq(0..MaxBytes)
          /\ p_rpos \in Nat
      BY <2>1, PosFacts DEF BoundInv
    <3>a. loc[e].idx \in Nat
      BY <2>1 DEF Types, LocalT
    <3>b. loc[e].byte \in 0..MaxBytes
      BY <2>3 DEF BoundInv
    <3>3. /\ p_buf[p_rpos % BY2PIPE] \in 0..MaxBytes
          /\ p_buf[loc[e].idx % BY2PIPE] \in 0..MaxBytes
      BY <2>9, <3>2, <3>a
    <3>4. got' \in Seq(0..MaxBytes)
      <4>1. CASE Takes(e)
        BY <3>2, <4>1 DEF Takes, take
      <4>2. CASE Took(e)
        <5>1. PICK b \in 0..MaxBytes : got' = Append(got, b)
          BY <3>3, <3>b, <4>2 DEF Took, taken
        <5> QED BY <3>2, <5>1
      <4> QED BY <2>11, <4>1, <4>2
    <3>5. Loc(e)
      BY <2>3, <2>11, <3>3 DEF Takes, Took
    <3> QED BY <2>7, <2>11, <3>1, <3>4, <3>5 DEF BoundInv
  <2>12. ASSUME NEW e \in Proc, Puts(e) \/ Stores(e), \A f \in Proc \ {e} : SameCall(f)
         PROVE  Good
    <3>1. loc[e].op = "write" /\ loc[e].pc \in {"put", "stored"}
      BY <2>1, <2>12 DEF Puts, Stores, put, stored, PipeInv, CallOK, At, WritePcs
    <3>2. /\ "write" \in Ops /\ loc[e].n < loc[e].arg
          /\ sent + (loc[e].arg - loc[e].n) <= MaxBytes
      BY <3>1 DEF BoundInv
    <3>3. sent + 1 <= MaxBytes /\ sent + 1 \in 0..MaxBytes
      BY <2>3, <3>2
    <3>4. /\ p_buf \in [0..(BY2PIPE - 1) -> 0..MaxBytes]
          /\ p_wpos \in Nat
      BY <2>1, PosFacts DEF BoundInv
    <3>a. loc[e].idx \in Nat
      BY <2>1 DEF Types, LocalT
    <3>5. p_buf' \in [0..(BY2PIPE - 1) -> 0..MaxBytes]
      BY <2>9, <2>12, <3>3, <3>4, <3>a DEF Puts, Stores, put, stored
    <3>6. got' = got /\ sent' \in {sent, sent + 1} /\ (Puts(e) => sent' = sent)
      BY <2>12 DEF Puts, Stores, put, stored
    <3>7. Loc(e)
      <4>1. CASE Puts(e)
        BY <2>3, <3>1, <3>2, <3>6, <4>1 DEF Puts, Writes, BoundInv
      <4>2. CASE Stores(e)
        <5>1. sent' = sent + 1
          BY <4>2 DEF Stores, stored
        <5>2. loc'[e].n <= loc'[e].arg /\ sent' + (loc'[e].arg - loc'[e].n) <= MaxBytes
          BY <2>3, <3>2, <4>2, <5>1 DEF Stores, Writes
        <5> QED BY <2>3, <3>2, <4>2, <5>2 DEF Stores, Writes, BoundInv
      <4> QED BY <2>12, <4>1, <4>2
    <3>8. \A f \in Proc \ {e} : Loc(f)
      <4>1. \A f \in Proc \ {e} : loc[f].op # "write"
        BY <2>5, <3>1
      <4> QED BY <2>12, <4>1 DEF SameCall, BoundInv
    <3> QED BY <2>3, <3>3, <3>5, <3>6, <3>7, <3>8 DEF BoundInv
  <2> QED BY <1>2, <2>1, <2>6, <2>8, <2>10, <2>11, <2>12, NextKinds
<1> QED BY <1>1, <1>2

LEMMA BoundInit == ASSUME OneWriter PROVE Init => BoundInv
<1> SUFFICES ASSUME Init PROVE BoundInv
  OBVIOUS
<1>1. PipeInv
  BY PipeInit
<1>2. "write" \in Ops => Sole("w")
  BY DEF OneWriter, SoleAtStart, Sole, Init
<1>3. \A e \in Proc : /\ loc[e].byte = 0 /\ loc[e].op = "none"
                      /\ loc[e].pc \in {"free", "idle"}
  BY DEF Init, Idle
<1> QED BY <1>1, <1>2, <1>3, ConstFacts DEF BoundInv, Init

\* The types hold for every number of environments and every size of the buffer, with
\* either order of the update of the positions.
THEOREM PipeTypes ==
  ASSUME OneWriter
  PROVE  Spec => []TypeOK
<1>1. BoundInv => TypeOK
  <2> SUFFICES ASSUME BoundInv PROVE TypeOK
    OBVIOUS
  <2>1. Types /\ MaxBytes \in Nat
    BY ConstFacts DEF BoundInv, PipeInv
  <2>2. \A e \in Proc : loc[e].byte \in 0..MaxBytes
    BY <2>1 DEF BoundInv, Types, LocalT
  <2>3. loc \in [Proc -> Local]
    <3>1. \A e \in Proc : loc[e] \in Local
      BY <2>1, <2>2 DEF Types, LocalT, Local
    <3> QED BY <2>1, <3>1 DEF Types
  <2> QED BY <2>1, <2>3 DEF BoundInv, Types, TypeOK
<1> QED BY <1>1, BoundInit, BoundNext, PTL DEF Spec

-----------------------------------------------------------------------------
(***************************************************************************)
(* One reader and one writer: the pipe is a FIFO.  The compiler stores a   *)
(* position after the access to p_buf that uses it, and the positions do   *)
(* not wrap (_pipe_is_empty compares them with >=).                        *)
(***************************************************************************)
OneOfEach ==
  /\ IndexFirst = FALSE /\ MaxBytes < PosMod
  /\ "fork" \notin Ops /\ SoleAtStart("r") /\ SoleAtStart("w")

\* The k-th byte read is the k-th byte written.
InOrder == \A i \in 1..Len(got) : got[i] = i

\* What the calls of e rely on between two of their steps.
DataOK(e) ==
  LET l == loc[e]
  IN  /\ l.pc \in {"take", "taken"} => p_rpos < p_wpos
      /\ l.pc = "taken" => l.idx = p_rpos /\ l.byte = p_rpos + 1
      /\ l.pc \in {"put", "stored"} => p_wpos - p_rpos < BY2PIPE
      /\ l.pc = "stored" => l.idx = p_wpos /\ p_buf[p_wpos % BY2PIPE] = p_wpos + 1

\* The inductive invariant: the bytes from p_rpos to p_wpos are in the buffer.
FifoInv ==
  /\ BoundInv /\ Sole("r") /\ Sole("w")
  /\ p_rpos <= p_wpos /\ p_wpos - p_rpos <= BY2PIPE
  /\ p_wpos = sent /\ p_rpos = Len(got)
  /\ \A k \in p_rpos..(p_wpos - 1) : p_buf[k % BY2PIPE] = k + 1
  /\ InOrder
  /\ \A e \in Proc : DataOK(e)

LEMMA ModSmall ==
  ASSUME NEW x \in Nat, NEW m \in Nat, x < m
  PROVE  x % m = x
OBVIOUS

LEMMA DivMod ==
  ASSUME NEW x \in Nat, NEW m \in Nat \ {0}
  PROVE  /\ x \div m \in Int /\ x % m \in Int
         /\ x = m * (x \div m) + (x % m)
OBVIOUS

LEMMA PositiveMultiple ==
  ASSUME NEW q \in Int, NEW m \in Nat \ {0}, m * q > 0
  PROVE  m * q >= m
<1>1. q >= 1
  OBVIOUS
<1> QED BY <1>1

\* Positions less than a buffer apart are different slots.
LEMMA ModDiff ==
  ASSUME NEW a \in Nat, NEW b \in Nat, NEW m \in Nat \ {0}, a < b, b - a < m
  PROVE  a % m # b % m
<1> SUFFICES ASSUME a % m = b % m PROVE FALSE
  OBVIOUS
<1> DEFINE p == a \div m
           q == b \div m
           r == a % m
<1>1. a = m * p + r /\ b = m * q + r /\ p \in Int /\ q \in Int /\ r \in Int
  BY DivMod
<1> HIDE DEF p, q, r
<1>2. b - a = m * (q - p)
  BY <1>1
<1>3. m * (q - p) >= m
  BY <1>1, <1>2, PositiveMultiple
<1> QED BY <1>2, <1>3

LEMMA FifoFacts ==
  ASSUME OneOfEach, FifoInv
  PROVE  /\ p_rpos \in Nat /\ p_wpos \in Nat /\ p_wpos <= MaxBytes /\ p_wpos < PosMod
         /\ sent \in Nat /\ got \in Seq(Nat)
         /\ BY2PIPE \in Nat \ {0} /\ PosMod \in Nat /\ MaxBytes \in Nat
         /\ (p_wpos - p_rpos) % PosMod = p_wpos - p_rpos
         /\ p_buf \in [0..(BY2PIPE - 1) -> Nat]
         /\ \A x \in Nat : x % BY2PIPE \in 0..(BY2PIPE - 1)
<1>1. Types /\ BoundInv
  BY DEF FifoInv, BoundInv, PipeInv
<1>2. p_rpos \in Nat /\ p_wpos \in Nat /\ sent \in Nat /\ \A x \in Nat : x % BY2PIPE \in 0..(BY2PIPE - 1)
  BY <1>1, PosFacts DEF Types
<1>3. BY2PIPE \in Nat \ {0} /\ PosMod \in Nat /\ MaxBytes \in Nat /\ BY2PIPE < PosMod
  BY ConstFacts
<1>4. p_wpos <= MaxBytes /\ p_wpos < PosMod
  BY <1>1, <1>2, <1>3 DEF FifoInv, BoundInv, OneOfEach
<1>5. p_wpos - p_rpos \in Nat /\ p_wpos - p_rpos < PosMod
  BY <1>2, <1>3 DEF FifoInv
<1>6. (p_wpos - p_rpos) % PosMod = p_wpos - p_rpos
  BY <1>3, <1>5, ModSmall
<1> QED BY <1>1, <1>2, <1>3, <1>4, <1>6 DEF Types

\* One environment is in read, one in write.
LEMMA Alone ==
  ASSUME FifoInv
  PROVE  /\ \A e, f \in Proc : loc[e].pc \in ReadPcs /\ loc[f].pc \in ReadPcs => e = f
         /\ \A e, f \in Proc : loc[e].pc \in WritePcs /\ loc[f].pc \in WritePcs => e = f
<1>1. \A e \in Proc : /\ loc[e].fd \in Fdno
                      /\ loc[e].pc \in ReadPcs => fdpg[e][loc[e].fd] = "r"
                      /\ loc[e].pc \in WritePcs => fdpg[e][loc[e].fd] = "w"
  BY DEF FifoInv, BoundInv, PipeInv, CallOK, Types, LocalT
<1> QED BY <1>1 DEF FifoInv, Sole

LEMMA FifoNext ==
  ASSUME OneOfEach
  PROVE  FifoInv /\ [Next]_vars => FifoInv'
<1> SUFFICES ASSUME FifoInv, [Next]_vars PROVE FifoInv'
  OBVIOUS
<1>1. BoundInv'
  <2>1. OneWriter
    BY DEF OneOfEach, OneWriter
  <2> QED BY <2>1, BoundNext DEF FifoInv
<1>2. CASE UNCHANGED vars
  BY <1>1, <1>2 DEF vars, FifoInv, Sole, InOrder, DataOK
<1>3. CASE Next
  <2>1. PipeInv /\ Sole("r")' /\ Sole("w")'
    BY <1>3, SoleKept DEF FifoInv, BoundInv, OneOfEach
  <2> DEFINE Good ==
        /\ p_rpos' <= p_wpos' /\ p_wpos' - p_rpos' <= BY2PIPE
        /\ p_wpos' = sent' /\ p_rpos' = Len(got')
        /\ \A k \in p_rpos'..(p_wpos' - 1) : p_buf'[k % BY2PIPE] = k + 1
        /\ InOrder'
        /\ \A e \in Proc : DataOK(e)'
  <2>2. Good => FifoInv'
    BY <1>1, <2>1 DEF FifoInv
  <2>3. /\ p_rpos \in Nat /\ p_wpos \in Nat /\ p_wpos <= MaxBytes /\ p_wpos < PosMod
        /\ sent \in Nat /\ got \in Seq(Nat)
        /\ BY2PIPE \in Nat \ {0} /\ PosMod \in Nat /\ MaxBytes \in Nat
        /\ (p_wpos - p_rpos) % PosMod = p_wpos - p_rpos
        /\ p_buf \in [0..(BY2PIPE - 1) -> Nat]
        /\ \A x \in Nat : x % BY2PIPE \in 0..(BY2PIPE - 1)
    BY FifoFacts
  <2>n. /\ p_rpos \in Nat /\ p_wpos \in Nat /\ p_wpos <= MaxBytes /\ p_wpos < PosMod
        /\ BY2PIPE \in Nat /\ PosMod \in Nat /\ MaxBytes \in Nat
        /\ p_rpos <= p_wpos /\ p_wpos - p_rpos <= BY2PIPE
        /\ p_wpos = sent /\ p_rpos = Len(got)
    BY <2>3 DEF FifoInv
  <2>4. IndexFirst = FALSE
    BY DEF OneOfEach
  <2>5. \A f \in Proc : UnchangedPipe /\ SameCall(f) => DataOK(f)'
    BY DEF FifoInv, DataOK, SameCall, UnchangedPipe
  <2>6. \A f \in Proc : UnchangedPipe /\ Tame(f) => DataOK(f)'
    BY DEF DataOK, Tame
  <2>7. UnchangedPipe /\ (\A e \in Proc : DataOK(e)') => Good
    BY DEF FifoInv, UnchangedPipe, InOrder
  <2>8. ASSUME Calm PROVE Good
    BY <2>5, <2>6, <2>7, <2>8 DEF Calm
  <2>9. ASSUME NEW e \in Proc, Begins(e) \/ Ready(e) \/ Room(e),
               \A f \in Proc \ {e} : SameCall(f)
        PROVE  Good
    <3>1. UnchangedPipe
      BY <2>9 DEF Begins, Ready, Room
    <3>2. DataOK(e)'
      <4>1. CASE Begins(e)
        BY <4>1 DEF Begins, DataOK
      <4>2. CASE Ready(e)
        BY <2>3, <3>1, <4>2 DEF Ready, DataOK, UnchangedPipe, _pipe_is_empty
      <4>3. CASE Room(e)
        <5>1. p_wpos - p_rpos < BY2PIPE
          <6>1. ~((p_wpos - p_rpos) % PosMod >= BY2PIPE)
            BY <4>3 DEF Room, _pipe_is_full
          <6> QED BY <2>3, <6>1
        <5> QED BY <3>1, <4>3, <5>1 DEF Room, DataOK, UnchangedPipe
      <4> QED BY <2>9, <4>1, <4>2, <4>3
    <3> QED BY <2>5, <2>7, <2>9, <3>1, <3>2
  <2>10. ASSUME NEW e \in Proc, Takes(e), \A f \in Proc \ {e} : SameCall(f)
         PROVE  Good
    <3>1. UnchangedPipe
      BY <2>4, <2>10 DEF Takes, take, UnchangedPipe
    <3>2. p_rpos < p_wpos
      BY <2>10 DEF Takes, take, At, FifoInv, DataOK
    <3>3. p_rpos \in p_rpos..(p_wpos - 1)
      BY <2>3, <3>2
    <3>4. p_buf[p_rpos % BY2PIPE] = p_rpos + 1
      BY <3>3 DEF FifoInv
    <3>5. DataOK(e)'
      BY <2>4, <2>10, <3>1, <3>2, <3>4 DEF Takes, DataOK, UnchangedPipe
    <3> QED BY <2>5, <2>7, <2>10, <3>1, <3>5
  <2>11. ASSUME NEW e \in Proc, Took(e), \A f \in Proc \ {e} : SameCall(f)
         PROVE  Good
    <3>1. /\ loc[e].pc = "taken" /\ p_rpos < p_wpos
          /\ loc[e].idx = p_rpos /\ loc[e].byte = p_rpos + 1
      BY <2>11 DEF Took, taken, At, FifoInv, DataOK
    <3>2. (p_rpos + 1) % PosMod = p_rpos + 1
      <4>1. p_rpos + 1 \in Nat /\ p_rpos + 1 < PosMod
        BY <2>n, <3>1
      <4> QED BY <2>n, <4>1, ModSmall
    <3>3. /\ p_rpos' = p_rpos + 1 /\ got' = Append(got, p_rpos + 1)
          /\ p_wpos' = p_wpos /\ p_buf' = p_buf /\ sent' = sent
      BY <2>4, <2>11, <3>1, <3>2 DEF Took, taken
    <3>4. Len(got') = p_rpos + 1 /\ InOrder'
      <4>1. got \in Seq(Nat) /\ Len(got) = p_rpos /\ InOrder /\ p_rpos \in Nat
        BY <2>3, <2>n DEF FifoInv
      <4>2. /\ Len(Append(got, p_rpos + 1)) = p_rpos + 1
            /\ \A i \in 1..p_rpos : Append(got, p_rpos + 1)[i] = got[i]
            /\ Append(got, p_rpos + 1)[p_rpos + 1] = p_rpos + 1
        BY <4>1
      <4>3. \A i \in 1..(p_rpos + 1) : i \in 1..p_rpos \/ i = p_rpos + 1
        BY <4>1
      <4>4. \A i \in 1..(p_rpos + 1) : Append(got, p_rpos + 1)[i] = i
        BY <4>1, <4>2, <4>3 DEF InOrder
      <4> QED BY <3>3, <4>2, <4>4 DEF InOrder
    <3>5. \A k \in p_rpos'..(p_wpos' - 1) : p_buf'[k % BY2PIPE] = k + 1
      <4>1. \A k \in (p_rpos + 1)..(p_wpos - 1) : k \in p_rpos..(p_wpos - 1)
        BY <2>3
      <4> QED BY <3>3, <4>1 DEF FifoInv
    <3>6. \A f \in Proc : DataOK(f)'
      <4>1. DataOK(e)'
        BY <2>11 DEF Took, DataOK
      <4>2. ASSUME NEW f \in Proc, f # e PROVE DataOK(f)'
        <5>1. SameCall(f) /\ DataOK(f) /\ loc[f].pc \notin ReadPcs
          BY <2>11, <3>1, <4>2, Alone DEF FifoInv, ReadPcs
        <5> QED BY <2>n, <3>3, <5>1 DEF SameCall, DataOK, ReadPcs
      <4> QED BY <4>1, <4>2
    <3>7. p_rpos' <= p_wpos' /\ p_wpos' - p_rpos' <= BY2PIPE /\ p_wpos' = sent'
      BY <2>n, <3>1, <3>3
    <3> QED BY <3>3, <3>4, <3>5, <3>6, <3>7
  <2>12. ASSUME NEW e \in Proc, Puts(e), \A f \in Proc \ {e} : SameCall(f)
         PROVE  Good
    <3>1. loc[e].pc = "put" /\ p_wpos - p_rpos < BY2PIPE
      BY <2>12 DEF Puts, put, At, FifoInv, DataOK
    <3>2. /\ p_buf' = [p_buf EXCEPT ![p_wpos % BY2PIPE] = p_wpos + 1]
          /\ p_wpos' = p_wpos /\ p_rpos' = p_rpos /\ sent' = sent /\ got' = got
      BY <2>4, <2>12 DEF Puts, put, FifoInv
    <3>3. p_buf'[p_wpos % BY2PIPE] = p_wpos + 1
      BY <2>3, <3>2
    <3>4. ASSUME NEW k \in p_rpos..(p_wpos - 1)
          PROVE  p_buf'[k % BY2PIPE] = p_buf[k % BY2PIPE]
      <4>1. k \in Nat /\ k < p_wpos /\ p_wpos - k < BY2PIPE
        BY <2>3, <3>1
      <4>2. k % BY2PIPE # p_wpos % BY2PIPE
        BY <2>3, <4>1, ModDiff
      <4>3. k % BY2PIPE \in 0..(BY2PIPE - 1)
        BY <2>3, <4>1
      <4> QED BY <2>3, <3>2, <4>2, <4>3
    <3>5. DataOK(e)'
      BY <2>12, <3>1, <3>2, <3>3 DEF Puts, DataOK
    <3>6. ASSUME NEW f \in Proc, f # e PROVE DataOK(f)'
      <4>1. SameCall(f) /\ DataOK(f) /\ loc[f].pc \notin WritePcs
        BY <2>12, <3>1, <3>6, Alone DEF FifoInv, WritePcs
      <4> QED BY <3>2, <4>1 DEF SameCall, DataOK, WritePcs
    <3>7. \A k \in p_rpos'..(p_wpos' - 1) : p_buf'[k % BY2PIPE] = k + 1
      BY <3>2, <3>4 DEF FifoInv
    <3> QED BY <3>2, <3>5, <3>6, <3>7 DEF FifoInv, InOrder
  <2>13. ASSUME NEW e \in Proc, Stores(e), \A f \in Proc \ {e} : SameCall(f)
         PROVE  Good
    <3>1. /\ loc[e].pc = "stored" /\ p_wpos - p_rpos < BY2PIPE /\ loc[e].idx = p_wpos
          /\ p_buf[p_wpos % BY2PIPE] = p_wpos + 1
      BY <2>13 DEF Stores, stored, At, FifoInv, DataOK
    <3>2. sent + 1 <= MaxBytes
      <4>1. loc[e].op = "write" /\ loc[e].n \in Nat /\ loc[e].arg \in Int
        BY <2>1, <3>1 DEF PipeInv, CallOK, WritePcs, Types, LocalT
      <4>2. loc[e].n < loc[e].arg /\ sent + (loc[e].arg - loc[e].n) <= MaxBytes
        BY <3>1, <4>1 DEF FifoInv, BoundInv
      <4> QED BY <2>n, <4>1, <4>2
    <3>3. (p_wpos + 1) % PosMod = p_wpos + 1
      <4>1. p_wpos + 1 \in Nat /\ p_wpos + 1 < PosMod
        BY <2>3, <3>2 DEF FifoInv, OneOfEach
      <4> QED BY <2>3, <4>1, ModSmall
    <3>4. /\ p_wpos' = p_wpos + 1 /\ sent' = sent + 1
          /\ p_rpos' = p_rpos /\ p_buf' = p_buf /\ got' = got
      BY <2>4, <2>13, <3>1, <3>3 DEF Stores, stored
    <3>5. \A k \in p_rpos'..(p_wpos' - 1) : p_buf'[k % BY2PIPE] = k + 1
      <4>1. \A k \in p_rpos..p_wpos : k = p_wpos \/ k \in p_rpos..(p_wpos - 1)
        BY <2>3
      <4>2. p_wpos' - 1 = p_wpos
        BY <2>3, <3>4
      <4> QED BY <3>1, <3>4, <4>1, <4>2 DEF FifoInv
    <3>6. DataOK(e)'
      BY <2>13 DEF Stores, DataOK
    <3>7. ASSUME NEW f \in Proc, f # e PROVE DataOK(f)'
      <4>1. SameCall(f) /\ DataOK(f) /\ loc[f].pc \notin WritePcs
        BY <2>13, <3>1, <3>7, Alone DEF FifoInv, WritePcs
      <4> QED BY <2>n, <3>4, <4>1 DEF SameCall, DataOK, WritePcs
    <3>8. p_rpos' <= p_wpos' /\ p_wpos' - p_rpos' <= BY2PIPE /\ p_wpos' = sent'
      BY <2>n, <3>1, <3>4
    <3> QED BY <3>4, <3>5, <3>6, <3>7, <3>8 DEF FifoInv, InOrder
  <2> HIDE DEF Good
  <2> QED BY <1>3, <2>1, <2>2, <2>8, <2>9, <2>10, <2>11, <2>12, <2>13, NextKinds
<1> QED BY <1>2, <1>3

LEMMA FifoInit == ASSUME OneOfEach PROVE Init => FifoInv
<1> SUFFICES ASSUME Init PROVE FifoInv
  OBVIOUS
<1>1. BoundInv
  BY BoundInit DEF OneOfEach, OneWriter
<1>2. Sole("r") /\ Sole("w")
  BY DEF OneOfEach, SoleAtStart, Sole, Init
<1>3. \A e \in Proc : DataOK(e)
  <2>1. \A e \in Proc : loc[e].pc \in {"free", "idle"}
    BY DEF Init, Idle
  <2> QED BY <2>1 DEF DataOK
<1>4. /\ p_rpos = 0 /\ p_wpos = 0 /\ sent = 0 /\ got = <<>> /\ Len(got) = 0
      /\ BY2PIPE \in Nat
  BY ConstFacts DEF Init
<1> QED BY <1>1, <1>2, <1>3, <1>4 DEF FifoInv, InOrder

\* How a step moves the positions.
LEMMA Moves ==
  ASSUME OneOfEach, FifoInv, Next
  PROVE  \/ UNCHANGED <<p_rpos, p_wpos, sent, got>>
         \/ /\ p_rpos < p_wpos /\ p_rpos' = p_rpos + 1 /\ got' = Append(got, p_rpos + 1)
            /\ UNCHANGED <<p_wpos, sent>>
         \/ /\ p_wpos - p_rpos < BY2PIPE /\ p_wpos' = p_wpos + 1 /\ sent' = sent + 1
            /\ UNCHANGED <<p_rpos, got>>
<1>1. IndexFirst = FALSE
  BY DEF OneOfEach
<1>2. CASE Calm
  BY <1>2 DEF Calm, UnchangedPipe
<1>3. ASSUME NEW e \in Proc, Begins(e) \/ Ready(e) \/ Room(e) \/ Takes(e) \/ Puts(e)
      PROVE  UNCHANGED <<p_rpos, p_wpos, sent, got>>
  BY <1>1, <1>3 DEF Begins, Ready, Room, Takes, Puts, take, put, UnchangedPipe
<1>4. FifoInv'
  BY FifoNext
<1>5. ASSUME NEW e \in Proc, Took(e)
      PROVE  /\ p_rpos < p_wpos /\ p_rpos' = p_rpos + 1 /\ got' = Append(got, p_rpos + 1)
             /\ UNCHANGED <<p_wpos, sent>>
  <2>1. p_rpos < p_wpos /\ loc[e].byte = p_rpos + 1
    BY <1>5 DEF Took, taken, At, FifoInv, DataOK
  <2>2. got' = Append(got, p_rpos + 1) /\ p_wpos' = p_wpos /\ sent' = sent
    BY <1>1, <1>5, <2>1 DEF Took, taken
  <2>3. got \in Seq(Nat) /\ p_rpos \in Nat
    BY FifoFacts
  <2>4. p_rpos' = p_rpos + 1
    BY <1>4, <2>2, <2>3 DEF FifoInv
  <2> QED BY <2>1, <2>2, <2>4
<1>6. ASSUME NEW e \in Proc, Stores(e)
      PROVE  /\ p_wpos - p_rpos < BY2PIPE /\ p_wpos' = p_wpos + 1 /\ sent' = sent + 1
             /\ UNCHANGED <<p_rpos, got>>
  <2>1. p_wpos - p_rpos < BY2PIPE
    BY <1>6 DEF Stores, stored, At, FifoInv, DataOK
  <2>2. sent' = sent + 1 /\ p_rpos' = p_rpos /\ got' = got
    BY <1>6 DEF Stores, stored
  <2> QED BY <1>4, <2>1, <2>2 DEF FifoInv
<1> QED BY <1>2, <1>3, <1>5, <1>6, NextKinds DEF FifoInv, BoundInv

\* The bytes in transit, by their numbers.
InTransit(r, w) == [i \in 1..(w - r) |-> r + i]

LEMMA ChanIs ==
  ASSUME OneOfEach
  PROVE  FifoInv => chan = InTransit(p_rpos, p_wpos)
<1> SUFFICES ASSUME FifoInv PROVE chan = InTransit(p_rpos, p_wpos)
  OBVIOUS
<1>1. p_rpos \in Nat /\ p_wpos \in Nat /\ (p_wpos - p_rpos) % PosMod = p_wpos - p_rpos
  BY FifoFacts
<1>2. ASSUME NEW i \in 1..(p_wpos - p_rpos)
      PROVE  p_buf[(p_rpos + i - 1) % BY2PIPE] = p_rpos + i
  <2>1. p_rpos + i - 1 \in p_rpos..(p_wpos - 1)
    BY <1>1
  <2>2. p_buf[(p_rpos + i - 1) % BY2PIPE] = (p_rpos + i - 1) + 1
    BY <2>1 DEF FifoInv
  <2>3. (p_rpos + i - 1) + 1 = p_rpos + i
    BY <1>1
  <2> QED BY <2>2, <2>3
<1>3. chan = [i \in 1..(p_wpos - p_rpos) |-> p_buf[(p_rpos + i - 1) % BY2PIPE]]
  BY <1>1 DEF chan
<1> QED BY <1>2, <1>3 DEF InTransit

LEMMA TransitFacts ==
  ASSUME NEW r \in Nat, NEW w \in Nat, r <= w
  PROVE  /\ InTransit(r, w) \in Seq(Nat) /\ Len(InTransit(r, w)) = w - r
         /\ Append(InTransit(r, w), w + 1) = InTransit(r, w + 1)
         /\ r < w => /\ InTransit(r, w) # <<>> /\ Head(InTransit(r, w)) = r + 1
                     /\ Tail(InTransit(r, w)) = InTransit(r + 1, w)
<1>1. InTransit(r, w) \in Seq(Nat) /\ Len(InTransit(r, w)) = w - r
  BY DEF InTransit
<1>2. Append(InTransit(r, w), w + 1) = InTransit(r, w + 1)
  <2> DEFINE s == Append(InTransit(r, w), w + 1)
             t == InTransit(r, w + 1)
  <2>1. s \in Seq(Nat) /\ Len(s) = (w - r) + 1 /\ DOMAIN s = 1..((w - r) + 1)
    BY <1>1
  <2>2. t \in Seq(Nat) /\ Len(t) = (w + 1) - r /\ (w + 1) - r = (w - r) + 1
    BY DEF InTransit
  <2>3. ASSUME NEW i \in 1..((w - r) + 1) PROVE s[i] = t[i]
    <3>1. t[i] = r + i
      BY <2>2 DEF InTransit
    <3>2. CASE i = (w - r) + 1
      BY <1>1, <3>1, <3>2
    <3>3. CASE i # (w - r) + 1
      <4>1. i \in 1..(w - r)
        BY <3>3
      <4>2. s[i] = InTransit(r, w)[i]
        BY <1>1, <4>1
      <4> QED BY <3>1, <4>1, <4>2 DEF InTransit
    <3> QED BY <3>2, <3>3
  <2> HIDE DEF s, t
  <2> QED BY <2>1, <2>2, <2>3 DEF s, t
<1>3. ASSUME r < w
      PROVE  /\ InTransit(r, w) # <<>> /\ Head(InTransit(r, w)) = r + 1
             /\ Tail(InTransit(r, w)) = InTransit(r + 1, w)
  <2>1. InTransit(r, w) # <<>> /\ 1 \in 1..(w - r)
    BY <1>1, <1>3
  <2>2. Head(InTransit(r, w)) = r + 1
    <3>1. Head(InTransit(r, w)) = InTransit(r, w)[1]
      BY <1>1, <2>1
    <3> QED BY <2>1, <3>1 DEF InTransit
  <2> DEFINE s == Tail(InTransit(r, w))
             t == InTransit(r + 1, w)
  <2>3. /\ s \in Seq(Nat) /\ Len(s) = (w - r) - 1
        /\ \A i \in 1..((w - r) - 1) : s[i] = InTransit(r, w)[i + 1]
    BY <1>1, <2>1
  <2>4. t \in Seq(Nat) /\ Len(t) = w - (r + 1) /\ w - (r + 1) = (w - r) - 1
    BY <1>3 DEF InTransit
  <2>5. ASSUME NEW i \in 1..((w - r) - 1) PROVE s[i] = t[i]
    <3>1. i \in 1..(w - (r + 1)) /\ i + 1 \in 1..(w - r)
      BY <1>3
    <3>2. t[i] = (r + 1) + i /\ InTransit(r, w)[i + 1] = r + (i + 1)
      BY <3>1 DEF InTransit
    <3> QED BY <2>3, <3>2
  <2> HIDE DEF s, t
  <2>6. s = t
    BY <2>3, <2>4, <2>5
  <2> QED BY <2>1, <2>2, <2>6 DEF s, t
<1> QED BY <1>1, <1>2, <1>3

\* With one reader and one writer the pipe implements the bounded FIFO of module
\* Channel, for any buffer size, any amounts read and written and any interleaving
\* with the checks, closes and dups.
THEOREM PipeImplementsChannel ==
  ASSUME OneOfEach
  PROVE  Spec => PipeIsFifo
<1>1. Init => Fifo!Init
  <2> SUFFICES ASSUME Init PROVE Fifo!Init
    OBVIOUS
  <2>1. chan = InTransit(0, 0) /\ sent = 0 /\ got = <<>>
    BY FifoInit, ChanIs DEF Init
  <2>2. InTransit(0, 0) = <<>>
    BY TransitFacts
  <2> QED BY <2>1, <2>2 DEF Fifo!Init
<1>2. FifoInv /\ [Next]_vars => [Fifo!Write \/ Fifo!Read]_<<chan, sent, got>>
  <2> SUFFICES ASSUME FifoInv, [Next]_vars
               PROVE  [Fifo!Write \/ Fifo!Read]_<<chan, sent, got>>
    OBVIOUS
  <2>1. CASE UNCHANGED vars
    BY <2>1 DEF vars, chan
  <2>2. CASE Next
    <3>1. FifoInv'
      BY FifoNext
    <3>2. chan = InTransit(p_rpos, p_wpos)
      BY ChanIs
    <3>3. chan' = InTransit(p_rpos', p_wpos')
      <4>1. (chan = InTransit(p_rpos, p_wpos))'
        BY <3>1, ChanIs, PTL
      <4> QED BY <4>1
    <3>4. /\ p_rpos \in Nat /\ p_wpos \in Nat /\ BY2PIPE \in Nat
          /\ p_rpos <= p_wpos /\ sent = p_wpos
      BY FifoFacts DEF FifoInv
    <3>5. CASE UNCHANGED <<p_rpos, p_wpos, sent, got>>
      BY <3>2, <3>3, <3>5
    <3>6. CASE /\ p_rpos < p_wpos /\ p_rpos' = p_rpos + 1 /\ got' = Append(got, p_rpos + 1)
               /\ UNCHANGED <<p_wpos, sent>>
      <4>1. /\ chan # <<>> /\ Head(chan) = p_rpos + 1 /\ chan' = Tail(chan)
        BY <3>2, <3>3, <3>4, <3>6, TransitFacts
      <4> QED BY <3>6, <4>1 DEF Fifo!Read
    <3>7. CASE /\ p_wpos - p_rpos < BY2PIPE /\ p_wpos' = p_wpos + 1 /\ sent' = sent + 1
               /\ UNCHANGED <<p_rpos, got>>
      <4>1. /\ Len(chan) < BY2PIPE /\ chan' = Append(chan, sent + 1)
        BY <3>2, <3>3, <3>4, <3>7, TransitFacts
      <4> QED BY <3>7, <4>1 DEF Fifo!Write
    <3> QED BY <2>2, <3>5, <3>6, <3>7, Moves
  <2> QED BY <2>1, <2>2
<1> QED BY <1>1, <1>2, FifoInit, FifoNext, PTL DEF Spec, PipeIsFifo, Fifo!Spec

\* The bytes that read returns are the bytes written, in the order of writing and
\* without gaps.
THEOREM PipeInOrder ==
  ASSUME OneOfEach
  PROVE  Spec => []InOrder
<1>1. FifoInv => InOrder
  BY DEF FifoInv
<1> QED BY <1>1, FifoInit, FifoNext, PTL DEF Spec
=============================================================================
