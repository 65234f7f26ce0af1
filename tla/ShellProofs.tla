----------------------------- MODULE ShellProofs -----------------------------
(***************************************************************************)
(* The shell for any command line and any number of processes: the types,  *)
(* that every program is wired as the line says, and that nothing of a     *)
(* command is left when the shell prompts again.                           *)
(***************************************************************************)
EXTENDS Shell, FiniteSetTheorems, SequenceTheorems, WellFoundedInduction, TLAPS

(***************************************************************************)
(* What is true of a process e, by where it is.                            *)
(***************************************************************************)

\* The two sides of a '|' behind the fork, and the process that parses the line.
LeftSide(e) == e.pc = "left_dup" \/ (e.pc \in {"close0", "close1"} /\ e.right # 0)
RightSide(e) == e.pc = "right_dup" \/ (e.pc \in {"close0", "close1"} /\ e.right = 0)
Parser(e) == e.pc \in {"parse", "fork"} \/ RightSide(e)

IsEnd(e, d) == e.fds[d].kind \in {"r", "w"}

\* The '|' of the line, counted from 0, whose pipe descriptor d belongs to.
Link(e, d) ==
  IF d = 0 THEN IF e.pc = "right_dup" THEN e.seg - 2 ELSE e.seg - 1
  ELSE IF d > 1 /\ RightSide(e) THEN e.seg - 1 ELSE e.seg

EndsOK(e) ==
  \A d \in Fd : IsEnd(e, d) =>
    /\ e.fds[d].pipe \in Pipe /\ Link(e, d) >= 0
    /\ e.fds[d].kind = "r" <=> d \in {0, 2}
    /\ d \in 0..3

WithPipe == {"fork", "right_dup", "left_dup", "close0"}

\* The descriptors that are open.
Opens(e, S) == S \subseteq Fd /\ \A d \in Fd : d \in S <=> e.fds[d] # None

Shape(e) ==
  /\ e.pc \in {"none", "embryo", "dead", "wait_right"} => Opens(e, {})
  /\ e.pc \in {"parse", "spawn", "spawn_share", "run", "empty", "full"} => Opens(e, {0, 1})
  /\ e.pc \in WithPipe => /\ Opens(e, {0, 1, 2, 3}) /\ e.p = <<2, 3>>
                          /\ e.fds[2].kind = "r" /\ e.fds[3].kind = "w"
  /\ e.pc = "close1" => Opens(e, {0, 1, 3}) /\ e.p = <<2, 3>> /\ e.fds[3].kind = "w"
  /\ e.pc = "spawn_close" => /\ e.fd \notin {0, 1} /\ Opens(e, {0, 1, e.fd})
                             /\ e.fds[e.fd] = File
  /\ e.pc \in {"prompt", "main_wait"} =>
       Opens(e, {0, 1}) /\ e.fds[0] = Console /\ e.fds[1] = Console

\* How much of the line is parsed, and what of it has been seen.
Pos(e) == Len(e.of) - Len(e.line)
Suffix(e) ==
  /\ Len(e.line) <= Len(e.of) /\ Bars(e.of, Pos(e)) = e.seg
  /\ \A j \in 1..Len(e.line) : e.line[j] = e.of[Pos(e) + j]
Seen(e, t) == \E i \in 1..Pos(e) : e.of[i] = t /\ Bars(e.of, i) = e.seg
SeenAny(e, t) == \E i \in 1..Pos(e) : e.of[i] = t

WantIn(e) == IF Has(e.of, e.seg, "<") THEN "file" ELSE IF e.seg = 0 THEN "cons" ELSE "r"
WantOut(e) ==
  IF Bars(e.of, Len(e.of)) # e.seg THEN "w"
  ELSE IF \E k \in 0..e.seg : Has(e.of, k, ">") THEN "file" ELSE "cons"

Wiring(e) ==
  /\ Parser(e) => e.child = 0 /\ Suffix(e) /\ e.fds[1].kind = IF SeenAny(e, ">") THEN "file" ELSE "cons"
  /\ e.pc \in {"parse", "fork"} =>
       e.fds[0].kind = IF Seen(e, "<") THEN "file" ELSE IF e.seg = 0 THEN "cons" ELSE "r"
  /\ RightSide(e) => e.right = 0 /\ e.seg > 0 /\ ~Seen(e, "<") /\ (e.pc # "right_dup" => e.fds[0].kind = "r")
  /\ e.pc = "fork" => e.line # <<>> /\ Head(e.line) = "|"
  /\ LeftSide(e) => /\ e.right # 0 /\ e.fds[0].kind = WantIn(e) /\ Bars(e.of, Len(e.of)) # e.seg
                    /\ e.pc # "left_dup" => e.fds[1].kind = "w"
  /\ e.pc \in {"spawn", "spawn_close", "spawn_share", "run", "empty", "full"} =>
       e.fds[0].kind = WantIn(e) /\ e.fds[1].kind = WantOut(e)

Local(e) == EndsOK(e) /\ Shape(e) /\ Wiring(e)

-----------------------------------------------------------------------------
(***************************************************************************)
(* What relates processes, in the processes E.                             *)
(***************************************************************************)

\* Two descriptors denote ends of one pipe just when they belong to the same '|'.
Links(E) ==
  \A x, y \in Proc, d, c \in Fd :
    IsEnd(E[x], d) /\ IsEnd(E[y], c) =>
      (E[x].fds[d].pipe = E[y].fds[c].pipe <=> Link(E[x], d) = Link(E[y], c))

\* One process parses, and the next '|' it meets has no pipe yet.
Limit(e) == IF e.pc = "fork" THEN e.seg ELSE e.seg - 1
Top(E) ==
  \A p \in Proc : Parser(E[p]) =>
    /\ \A q \in Proc : Parser(E[q]) => q = p
    /\ \A q \in Proc, d \in Fd : IsEnd(E[q], d) => Link(E[q], d) <= Limit(E[p])

\* Processes are numbered in the order of their creation.
Numbered(E) ==
  /\ \A p, q \in Proc : E[p].pc = "none" /\ p < q => E[q].pc = "none"
  /\ \A p \in Proc : E[p].child # 0 => E[p].child > p /\ E[E[p].child].pc # "none"
  /\ \A p \in Proc : E[p].right # 0 => E[p].right > p /\ E[E[p].right].pc # "none"

\* The shell and the processes of its line.
Family(E) ==
  /\ E[Sh].seg = 0 /\ E[Sh].pc \in {"prompt", "main_wait", "exit", "dead"}
  /\ \A p \in Proc \ {Sh} : E[p].pc \notin {"prompt", "main_wait"}
  /\ \A p \in Proc \ {Sh} : E[p].pc # "none" =>
       E[p].of = E[Sh].of /\ p >= E[p].seg + 2 /\ E[p].seg <= Bars(E[p].of, Len(E[p].of))
  /\ E[Sh].pc = "main_wait" => E[Sh].child # 0
  /\ E[Sh].pc = "prompt" /\ E[Sh].child = 0 => \A p \in Proc \ {Sh} : E[p].pc = "none"

\* A program that is being loaded belongs to the process that loads it.
Spawning == {"spawn_close", "spawn_share"}
Loading(E) ==
  \A p \in Proc : E[p].pc \in Spawning =>
    /\ E[p].child # 0 /\ E[E[p].child].pc = "embryo" /\ E[E[p].child].seg = E[p].seg
    /\ \A q \in Proc : E[q].pc \in Spawning /\ E[q].child = E[p].child => q = p

\* Somebody is going to wait for every process.
AwaitsChild == {"main_wait", "spawn_close", "spawn_share", "close_all"}
AwaitsRight == {"left_dup", "close0", "close1", "spawn", "spawn_close", "spawn_share",
                "close_all", "wait_right"}
Awaits(e, q) ==
  \/ e.child = q /\ e.pc \in AwaitsChild
  \/ e.right = q /\ e.pc \in AwaitsRight
Tree(E) ==
  \A q \in Proc \ {Sh} : E[q].pc \notin {"none", "dead"} => \E p \in Proc : Awaits(E[p], q)

Typed ==
  /\ env \in [Proc -> Process]
  /\ held \in [Pipe -> 0..BY2PIPE] /\ failed \in 0..MaxFail /\ early \in BOOLEAN

Inv ==
  /\ Typed /\ (\A p \in Proc : Local(env[p]))
  /\ Links(env) /\ Top(env) /\ Numbered(env) /\ Family(env) /\ Loading(env)
  /\ ~early => Tree(env)

-----------------------------------------------------------------------------
(***************************************************************************)
(* Facts about the operators.                                              *)
(***************************************************************************)

LEMMA Constants ==
  /\ NFd \in Nat /\ NFd > 2 /\ MaxProc \in Nat \ {0} /\ Len0 \in Nat /\ BY2PIPE \in Nat \ {0}
  /\ Sh \in Proc /\ 0 \in Fd /\ 1 \in Fd /\ 0 \notin Proc
  /\ Lines \subseteq Seq(STRING)
BY ShellAssumption DEF Sh, Proc, Fd

LEMMA LeastIn ==
  ASSUME NEW S, S \subseteq Nat, S # {}
  PROVE  Least(S) \in S /\ \A y \in S : Least(S) <= y
<1>1. \E x \in S : \A y \in S : ~(<<y, x>> \in OpToRel(<, Nat))
  BY NatLessThanWellFounded, WFMin, Zenon
<1>2. PICK x \in S : \A y \in S : ~(<<y, x>> \in OpToRel(<, Nat))
  BY <1>1, Zenon
<1>3. \A y \in S : ~(y < x)
  BY <1>2, Zenon DEF OpToRel
<1>4. \A y \in S : x <= y
  BY <1>3
<1> QED BY <1>4 DEF Least

\* The bars among the first i tokens.
BarSet(l, i) == {j \in 1..i : l[j] = "|"}

LEMMA BarSets ==
  ASSUME NEW l, NEW i \in Nat
  PROVE  IsFiniteSet(BarSet(l, i)) /\ Bars(l, i) = Cardinality(BarSet(l, i)) /\ Bars(l, i) \in Nat
<1>1. IsFiniteSet(1..i)
  BY FS_Interval
<1>2. IsFiniteSet(BarSet(l, i))
  BY <1>1, FS_Subset DEF BarSet
<1>3. Cardinality(BarSet(l, i)) \in Nat
  BY <1>2, FS_CardinalityType
<1> QED BY <1>2, <1>3 DEF Bars, BarSet

LEMMA BarsNone ==
  ASSUME NEW l
  PROVE  Bars(l, 0) = 0
<1>1. {j \in 1..0 : l[j] = "|"} = {}
  OBVIOUS
<1> QED BY <1>1, FS_EmptySet DEF Bars

LEMMA BarsNext ==
  ASSUME NEW l, NEW i \in Nat
  PROVE  Bars(l, i + 1) = IF l[i + 1] = "|" THEN Bars(l, i) + 1 ELSE Bars(l, i)
<1>1. IsFiniteSet(BarSet(l, i)) /\ Bars(l, i) = Cardinality(BarSet(l, i))
  BY BarSets
<1>2. Bars(l, i + 1) = Cardinality(BarSet(l, i + 1))
  BY DEF Bars, BarSet
<1>3. CASE l[i + 1] = "|"
  <2>1. BarSet(l, i + 1) = BarSet(l, i) \cup {i + 1}
    BY <1>3 DEF BarSet
  <2>2. i + 1 \notin BarSet(l, i)
    BY DEF BarSet
  <2> QED BY <1>1, <1>2, <1>3, <2>1, <2>2, FS_AddElement
<1>4. CASE l[i + 1] # "|"
  <2>1. BarSet(l, i + 1) = BarSet(l, i)
    BY <1>4 DEF BarSet
  <2> QED BY <1>1, <1>2, <1>4, <2>1
<1> QED BY <1>3, <1>4

LEMMA BarsGrow ==
  ASSUME NEW l, NEW i \in Nat, NEW j \in Nat, i <= j
  PROVE  Bars(l, i) <= Bars(l, j)
<1>1. BarSet(l, i) \subseteq BarSet(l, j)
  BY DEF BarSet
<1>2. IsFiniteSet(BarSet(l, j))
  BY BarSets
<1>3. Cardinality(BarSet(l, i)) <= Cardinality(BarSet(l, j))
  BY <1>1, <1>2, FS_Subset
<1> QED BY <1>3, BarSets

\* The fields of a process.
LEMMA Fields ==
  ASSUME NEW e \in Process
  PROVE  /\ e.pc \in Pcs /\ e.line \in Seq(STRING) /\ e.argv \in Seq(STRING)
         /\ e.fds \in [Fd -> Obj] /\ e.p \in Fd \X Fd /\ e.fd \in Fd
         /\ e.child \in Proc \union {0} /\ e.right \in Proc \union {0} /\ e.seg \in Nat
         /\ e.of \in Seq(STRING) /\ e.todo \in Nat /\ e.byte \in BOOLEAN
BY DEF Process

LEMMA Objects ==
  /\ None \in Obj /\ Console \in Obj /\ File \in Obj
  /\ \A i \in Pipe : End("r", i) \in Obj /\ End("w", i) \in Obj
  /\ None.kind = "none" /\ Console.kind = "cons" /\ File.kind = "file"
  /\ \A i : /\ End("r", i).kind = "r" /\ End("r", i).pipe = i
            /\ End("w", i).kind = "w" /\ End("w", i).pipe = i
BY DEF Obj, None, Console, File, End

LEMMA UnbornProcess ==
  /\ Closed \in [Fd -> Obj] /\ Unborn \in Process
  /\ Unborn.fds = Closed /\ Unborn.pc = "none" /\ Unborn.child = 0 /\ Unborn.right = 0
  /\ Unborn.seg = 0 /\ Unborn.line = <<>> /\ Unborn.of = <<>>
<1>1. Closed \in [Fd -> Obj]
  BY Objects DEF Closed
<1> QED BY <1>1, Constants DEF Unborn, Process, Pcs

-----------------------------------------------------------------------------
(***************************************************************************)
(* Steps that create no pipe: every end was an end of the same '|' before. *)
(***************************************************************************)

Came(e, d, n, c) ==
  IsEnd(e, d) /\ e.fds[d].pipe = n.fds[c].pipe /\ Link(e, d) = Link(n, c)

Derived(E, F) ==
  \A y \in Proc, c \in Fd : IsEnd(F[y], c) => \E x \in Proc, d \in Fd : Came(E[x], d, F[y], c)

LEMMA LinksDerived ==
  ASSUME NEW E, NEW F, Derived(E, F), Links(E)
  PROVE  Links(F)
<1> SUFFICES ASSUME NEW x \in Proc, NEW y \in Proc, NEW d \in Fd, NEW c \in Fd,
                    IsEnd(F[x], d), IsEnd(F[y], c)
             PROVE  F[x].fds[d].pipe = F[y].fds[c].pipe <=> Link(F[x], d) = Link(F[y], c)
  BY DEF Links
<1>1. PICK x1 \in Proc, d1 \in Fd : Came(E[x1], d1, F[x], d)
  BY DEF Derived
<1>2. PICK y1 \in Proc, c1 \in Fd : Came(E[y1], c1, F[y], c)
  BY DEF Derived
<1>3. E[x1].fds[d1].pipe = E[y1].fds[c1].pipe <=> Link(E[x1], d1) = Link(E[y1], c1)
  BY <1>1, <1>2 DEF Links, Came
<1> QED BY <1>1, <1>2, <1>3 DEF Came

LEMMA BoundDerived ==
  ASSUME NEW E, NEW F, Derived(E, F), NEW k,
         \A q \in Proc, d \in Fd : IsEnd(E[q], d) => Link(E[q], d) <= k
  PROVE  \A q \in Proc, d \in Fd : IsEnd(F[q], d) => Link(F[q], d) <= k
BY DEF Derived, Came

\* One process moves from e to n and creates nothing.
Kept(e, n) == \A c \in Fd : IsEnd(n, c) => \E d \in Fd : Came(e, d, n, c)

Kin(e, n) ==
  /\ n \in Process /\ n.seg = e.seg /\ n.of = e.of /\ n.right = e.right /\ n.child \in {e.child, 0}
  /\ e.pc \notin {"none", "embryo", "dead"} /\ n.pc \notin {"none", "main_wait"}
  /\ n.pc = "prompt" => e.pc = "main_wait" /\ n.child = e.child
  /\ e.pc \in {"prompt", "main_wait", "exit"} => n.pc \in {"prompt", "exit", "dead"}
  /\ n.pc \in Spawning => e.pc \in Spawning /\ n.child = e.child

Moves(e, n) ==
  /\ Kin(e, n) /\ Local(n) /\ Kept(e, n)
  /\ Parser(n) => Parser(e) /\ Limit(n) = Limit(e)

LEMMA SoloLocal ==
  ASSUME Inv, NEW p \in Proc, NEW n, Kin(env[p], n), Local(n), env' = [env EXCEPT ![p] = n],
         held' \in [Pipe -> 0..BY2PIPE], failed' \in 0..MaxFail, early' \in BOOLEAN
  PROVE  Typed' /\ (\A q \in Proc : Local(env[q])')
<1>1. Typed'
  BY DEF Inv, Typed, Moves, Kin
<1>2. ASSUME NEW q \in Proc
      PROVE  Local(env'[q])
  BY DEF Inv, Typed, Moves, Kin
<1> QED BY <1>1, <1>2

LEMMA SoloLinks ==
  ASSUME Inv, NEW p \in Proc, NEW n, Moves(env[p], n), env' = [env EXCEPT ![p] = n]
  PROVE  Derived(env, env') /\ Links(env') /\ Top(env')
<1> DEFINE E == env
           F == env'
<1>0. F[p] = n /\ (\A q \in Proc : q # p => F[q] = E[q]) /\ Moves(E[p], n)
  BY DEF Inv, Typed
<1>1. Links(E) /\ Top(E)
  BY DEF Inv
<1> SUFFICES Derived(E, F) /\ Links(F) /\ Top(F)
  OBVIOUS
<1> HIDE DEF E, F
<1>2. Derived(E, F)
  <2> SUFFICES ASSUME NEW y \in Proc, NEW c \in Fd, IsEnd(F[y], c)
               PROVE  \E x \in Proc, d \in Fd : Came(E[x], d, F[y], c)
    BY DEF Derived
  <2>1. CASE y = p
    BY <1>0, <2>1 DEF Moves, Kin, Kept
  <2>2. CASE y # p
    BY <1>0, <2>2 DEF Came
  <2> QED BY <2>1, <2>2
<1>3. Links(F)
  BY <1>1, <1>2, LinksDerived
<1>4. \A q \in Proc : Parser(F[q]) => Parser(E[q]) /\ Limit(F[q]) = Limit(E[q])
  BY <1>0 DEF Moves, Kin
<1>5. ASSUME NEW q \in Proc, Parser(F[q])
      PROVE  /\ \A r \in Proc : Parser(F[r]) => r = q
             /\ \A r \in Proc, d \in Fd : IsEnd(F[r], d) => Link(F[r], d) <= Limit(F[q])
  <2>1. \A r \in Proc, d \in Fd : IsEnd(E[r], d) => Link(E[r], d) <= Limit(F[q])
    BY <1>1, <1>4, <1>5 DEF Top
  <2>2. \A r \in Proc, d \in Fd : IsEnd(F[r], d) => Link(F[r], d) <= Limit(F[q])
    BY <1>2, <2>1, BoundDerived
  <2> QED BY <1>1, <1>4, <1>5, <2>2 DEF Top
<1>6. Top(F)
  BY <1>5 DEF Top
<1> QED BY <1>2, <1>3, <1>6

LEMMA SoloKin ==
  ASSUME Inv, NEW p \in Proc, NEW n, Kin(env[p], n), env' = [env EXCEPT ![p] = n]
  PROVE  Numbered(env') /\ Family(env') /\ Loading(env')
<1> DEFINE E == env
           F == env'
<1>0. /\ F[p] = n /\ (\A q \in Proc : q # p => F[q] = E[q]) /\ Kin(E[p], n)
      /\ \A q \in Proc : E[q] \in Process
  BY DEF Inv, Typed
<1>1. Numbered(E) /\ Family(E) /\ Loading(E)
  BY DEF Inv
<1> SUFFICES Numbered(F) /\ Family(F) /\ Loading(F)
  OBVIOUS
<1> HIDE DEF E, F
<1>2. \A q \in Proc : /\ F[q].seg = E[q].seg /\ F[q].of = E[q].of /\ F[q].right = E[q].right
                      /\ F[q].child \in {E[q].child, 0} /\ (F[q].pc = "none" <=> E[q].pc = "none")
                      /\ E[q].child \in Proc \union {0} /\ E[q].right \in Proc \union {0}
  BY <1>0, Fields DEF Kin
<1>3. Numbered(F)
  BY <1>1, <1>2 DEF Numbered
<1>4. Family(F)
  <2>1. F[Sh].seg = 0 /\ F[Sh].pc \in {"prompt", "main_wait", "exit", "dead"}
    BY <1>0, <1>1, <1>2, Constants DEF Family, Kin
  <2>2. \A q \in Proc \ {Sh} : F[q].pc \notin {"prompt", "main_wait"}
    BY <1>0, <1>1 DEF Family, Kin
  <2>3. F[Sh].pc = "main_wait" => F[Sh].child # 0
    BY <1>0, <1>1, Constants DEF Family, Kin
  <2>4. F[Sh].pc = "prompt" /\ F[Sh].child = 0 => \A q \in Proc \ {Sh} : F[q].pc = "none"
    BY <1>0, <1>1, <1>2, Constants DEF Family, Kin
  <2>5. \A q \in Proc \ {Sh} : F[q].pc # "none" =>
          F[q].of = F[Sh].of /\ q >= F[q].seg + 2 /\ F[q].seg <= Bars(F[q].of, Len(F[q].of))
    BY <1>1, <1>2, Constants DEF Family
  <2> QED BY <2>1, <2>2, <2>3, <2>4, <2>5 DEF Family
<1>5. Loading(F)
  <2>1. \A q \in Proc : F[q].pc \in Spawning => E[q].pc \in Spawning /\ F[q].child = E[q].child
    BY <1>0 DEF Kin
  <2>2. \A q \in Proc : E[q].pc = "embryo" => F[q] = E[q]
    BY <1>0 DEF Kin
  <2>3. ASSUME NEW q \in Proc, F[q].pc \in Spawning
        PROVE  /\ F[q].child # 0 /\ F[F[q].child].pc = "embryo" /\ F[F[q].child].seg = F[q].seg
               /\ \A r \in Proc : F[r].pc \in Spawning /\ F[r].child = F[q].child => r = q
    BY <1>1, <1>2, <2>1, <2>2, <2>3 DEF Loading
  <2> QED BY <2>3 DEF Loading
<1> QED BY <1>3, <1>4, <1>5

Live(e) == e.pc \notin {"none", "dead"}

LEMMA Solo ==
  ASSUME Inv, NEW p \in Proc, NEW n, Moves(env[p], n), env' = [env EXCEPT ![p] = n],
         held' \in [Pipe -> 0..BY2PIPE], failed' \in 0..MaxFail, early' \in BOOLEAN,
         ~early' => /\ ~early
                    /\ \A q \in Proc : Awaits(env[p], q) /\ Live(env[q]) => Awaits(n, q)
  PROVE  Inv'
<1>1. Typed' /\ \A q \in Proc : Local(env[q])'
  BY SoloLocal DEF Moves
<1>2. Links(env') /\ Top(env')
  BY SoloLinks
<1>3. Numbered(env') /\ Family(env') /\ Loading(env')
  BY SoloKin DEF Moves
<1>4. ASSUME ~early'
      PROVE  Tree(env')
  <2>1. env'[p] = n /\ \A q \in Proc : q # p => env'[q] = env[q]
    BY DEF Inv, Typed
  <2>2. Tree(env)
    BY <1>4 DEF Inv
  <2>3. \A q \in Proc : Live(env'[q]) => Live(env[q]) \/ q = p
    BY <2>1
  <2>4. Live(env[p])
    BY DEF Live, Moves, Kin
  <2> QED BY <1>4, <2>1, <2>2, <2>3, <2>4 DEF Tree, Live
<1> QED BY <1>1, <1>2, <1>3, <1>4 DEF Inv

-----------------------------------------------------------------------------
(***************************************************************************)
(* Steps that create a process: p moves from e to n, and the next process  *)
(* id gets m.                                                              *)
(***************************************************************************)

LEMMA Newest ==
  ASSUME Inv, Fresh # {}
  PROVE  /\ NewProc \in Proc /\ env[NewProc].pc = "none"
         /\ \A q \in Proc : env[q].pc # "none" <=> q < NewProc
<1>1. Fresh \subseteq Nat
  BY DEF Fresh, Proc
<1>2. NewProc \in Fresh
  BY <1>1, LeastIn DEF NewProc
<1>3. NewProc \in Proc /\ env[NewProc].pc = "none"
  BY <1>2 DEF Fresh
<1>4. ASSUME NEW q \in Proc, env[q].pc # "none"
      PROVE  q < NewProc
  <2>1. ~(NewProc < q) /\ NewProc # q
    BY <1>3, <1>4 DEF Inv, Numbered
  <2> QED BY <1>3, <2>1 DEF Proc
<1>5. ASSUME NEW q \in Proc, q < NewProc
      PROVE  env[q].pc # "none"
  BY <1>1, <1>3, <1>5, LeastIn DEF NewProc, Fresh, Proc
<1> QED BY <1>3, <1>4, <1>5

Bears(e, n, m, c) ==
  /\ n \in Process /\ Local(n) /\ Kept(e, n)
  /\ m \in Process /\ Local(m) /\ Kept(e, m)
  /\ n.seg = e.seg /\ n.pc \notin {"none", "prompt"}
  /\ e.pc \notin {"none", "embryo", "main_wait", "exit", "dead"}
  /\ n.child \in {e.child, c} /\ n.right \in {e.right, c}
  /\ m.child = 0 /\ m.right = 0 /\ m.of = n.of /\ m.pc \notin {"none", "prompt", "main_wait"}
  /\ m.seg \in {e.seg, e.seg + 1} /\ m.seg <= Bars(m.of, Len(m.of))
  /\ e.pc = "prompt" => e.child = 0
  /\ e.pc # "prompt" => n.of = e.of
  /\ n.pc = "main_wait" <=> e.pc = "prompt"
  /\ n.pc = "main_wait" => n.child = c /\ m.seg = 0
  /\ ~Parser(n)
  /\ Parser(m) => e.pc = "prompt" \/ (Parser(e) /\ Limit(m) = Limit(e))
  /\ n.pc \in Spawning => n.child = c /\ m.pc = "embryo" /\ m.seg = n.seg
  /\ m.pc \notin Spawning
  /\ Awaits(n, c) /\ \A q \in Proc : Awaits(e, q) => Awaits(n, q)

LEMMA BirthLocal ==
  ASSUME Inv, NEW p \in Proc, NEW c \in Proc, NEW n, NEW m, Bears(env[p], n, m, c),
         env' = [env EXCEPT ![p] = n, ![c] = m],
         UNCHANGED held, failed' \in 0..MaxFail, UNCHANGED early
  PROVE  Typed' /\ (\A q \in Proc : Local(env[q])')
<1>1. Typed'
  BY DEF Inv, Typed, Bears
<1>2. ASSUME NEW q \in Proc
      PROVE  Local(env'[q])
  BY DEF Inv, Typed, Bears
<1> QED BY <1>1, <1>2

\* A line that begins finds no process and no pipe.
LEMMA NoOther ==
  ASSUME Inv, NEW p \in Proc, env[p].pc = "prompt", env[p].child = 0
  PROVE  /\ p = Sh /\ \A q \in Proc \ {Sh} : env[q].pc = "none"
         /\ \A q \in Proc : ~Parser(env[q]) /\ \A d \in Fd : ~IsEnd(env[q], d)
<1>1. p = Sh /\ \A q \in Proc \ {Sh} : env[q].pc = "none"
  BY DEF Inv, Family
<1>2. ASSUME NEW q \in Proc
      PROVE  ~Parser(env[q]) /\ \A d \in Fd : ~IsEnd(env[q], d)
  <2>1. env[q].pc \in {"none", "prompt"}
    BY <1>1
  <2>2. Shape(env[q])
    BY DEF Inv, Local
  <2>3. \A d \in Fd : env[q].fds[d] \in {None, Console}
    BY <2>1, <2>2 DEF Shape, Opens
  <2> QED BY <2>1, <2>3, Objects DEF Parser, RightSide, IsEnd
<1> QED BY <1>1, <1>2

LEMMA BirthLinks ==
  ASSUME Inv, NEW p \in Proc, NEW c \in Proc, NEW n, NEW m, Bears(env[p], n, m, c),
         env[c].pc = "none", env' = [env EXCEPT ![p] = n, ![c] = m]
  PROVE  Links(env') /\ Top(env')
<1> DEFINE E == env
           F == env'
<1>0. /\ F[p] = n /\ F[c] = m /\ (\A q \in Proc : q \notin {p, c} => F[q] = E[q])
      /\ Bears(E[p], n, m, c) /\ p # c
  BY DEF Inv, Typed, Bears
<1>1. Links(E) /\ Top(E)
  BY DEF Inv
<1>2. E[p].pc = "prompt" /\ E[p].child = 0 =>
        \A q \in Proc : ~Parser(E[q]) /\ \A d \in Fd : ~IsEnd(E[q], d)
  BY NoOther
<1> SUFFICES Links(F) /\ Top(F)
  OBVIOUS
<1> HIDE DEF E, F
<1>3. Derived(E, F)
  <2> SUFFICES ASSUME NEW y \in Proc, NEW d \in Fd, IsEnd(F[y], d)
               PROVE  \E x \in Proc, b \in Fd : Came(E[x], b, F[y], d)
    BY DEF Derived
  <2>1. CASE y \in {p, c}
    BY <1>0, <2>1 DEF Bears, Kept
  <2>2. CASE y \notin {p, c}
    BY <1>0, <2>2 DEF Came
  <2> QED BY <2>1, <2>2
<1>4. Links(F)
  BY <1>1, <1>3, LinksDerived
<1>5. ASSUME NEW q \in Proc, Parser(F[q])
      PROVE  /\ \A r \in Proc : Parser(F[r]) => r = q
             /\ \A r \in Proc, d \in Fd : IsEnd(F[r], d) => Link(F[r], d) <= Limit(F[q])
  <2>0. q # p /\ ~Parser(F[p])
    BY <1>0, <1>5 DEF Bears
  <2>1. CASE E[p].pc = "prompt" /\ E[p].child = 0
    <3>1. q = c /\ \A r \in Proc : Parser(F[r]) => r = c
      BY <1>0, <1>2, <1>5, <2>0, <2>1
    <3>2. \A r \in Proc, d \in Fd : ~IsEnd(F[r], d)
      BY <1>2, <1>3, <2>1 DEF Derived, Came
    <3> QED BY <3>1, <3>2
  <2>2. CASE q = c /\ Parser(E[p]) /\ Limit(F[q]) = Limit(E[p])
    <3>1. \A r \in Proc, d \in Fd : IsEnd(F[r], d) => Link(F[r], d) <= Limit(F[q])
      BY <1>1, <1>3, <2>2, BoundDerived DEF Top
    <3>2. \A r \in Proc : Parser(F[r]) => r = q
      BY <1>0, <1>1, <2>0, <2>2 DEF Top
    <3> QED BY <3>1, <3>2
  <2>3. CASE q # c
    <3>1. F[q] = E[q] /\ Parser(E[q])
      BY <1>0, <1>5, <2>0, <2>3
    <3>2. \A r \in Proc, d \in Fd : IsEnd(E[r], d) => Link(E[r], d) <= Limit(F[q])
      BY <1>1, <3>1 DEF Top
    <3>3. \A r \in Proc, d \in Fd : IsEnd(F[r], d) => Link(F[r], d) <= Limit(F[q])
      BY <1>3, <3>2, BoundDerived
    <3>4. ~Parser(F[c])
      <4>1. ~Parser(E[p])
        BY <1>1, <2>0, <3>1 DEF Top
      <4> QED BY <1>0, <1>2, <3>1, <4>1 DEF Bears
    <3>5. \A r \in Proc : Parser(F[r]) => r = q
      BY <1>0, <1>1, <2>0, <3>1, <3>4 DEF Top
    <3> QED BY <3>3, <3>5
  <2> QED BY <1>0, <1>5, <2>1, <2>2, <2>3 DEF Bears
<1>6. Top(F)
  BY <1>5 DEF Top
<1> QED BY <1>4, <1>6

LEMMA BirthKin ==
  ASSUME Inv, NEW p \in Proc, NEW c \in Proc, NEW n, NEW m, Bears(env[p], n, m, c),
         env[c].pc = "none", \A q \in Proc : env[q].pc # "none" <=> q < c,
         env' = [env EXCEPT ![p] = n, ![c] = m]
  PROVE  Numbered(env') /\ Family(env') /\ Loading(env')
<1> DEFINE E == env
           F == env'
<1>0. /\ F[p] = n /\ F[c] = m /\ (\A q \in Proc : q \notin {p, c} => F[q] = E[q])
      /\ Bears(E[p], n, m, c) /\ p < c /\ E[c].pc = "none" /\ n.pc # "none" /\ m.pc # "none"
      /\ \A q \in Proc : E[q] \in Process /\ (E[q].pc # "none" <=> q < c)
  BY DEF Inv, Typed, Bears
<1>1. Numbered(E) /\ Family(E) /\ Loading(E)
  BY DEF Inv
<1>2. E[p].pc = "prompt" /\ E[p].child = 0 => p = Sh /\ \A q \in Proc \ {Sh} : E[q].pc = "none"
  BY NoOther
<1> SUFFICES Numbered(F) /\ Family(F) /\ Loading(F)
  OBVIOUS
<1> HIDE DEF E, F
<1>b. /\ n.seg = E[p].seg /\ n.child \in {E[p].child, c} /\ n.right \in {E[p].right, c}
      /\ m.child = 0 /\ m.right = 0 /\ E[p].pc # "none" /\ E[p].pc # "embryo"
  BY <1>0 DEF Bears
<1>c. \A q \in Proc : E[q].child \in Proc \union {0} /\ E[q].right \in Proc \union {0}
  BY <1>0, Fields
<1>d. c \in Nat /\ p \in Nat /\ c # 0 /\ Proc \subseteq Nat
  BY DEF Proc
<1>e. \A q \in Proc : E[q].pc # "none" => F[q].pc # "none"
  BY <1>0
<1>f. F[c].pc # "none"
  BY <1>0
<1>3. Numbered(F)
  <2>1. ASSUME NEW q \in Proc, NEW r \in Proc, F[q].pc = "none", q < r
        PROVE  F[r].pc = "none"
    <3>1. q # p /\ q # c /\ E[q].pc = "none" /\ E[r].pc = "none"
      BY <1>0, <1>1, <2>1 DEF Numbered
    <3>2. r # p
      BY <1>b, <3>1
    <3>3. ~(q < c)
      BY <1>0, <3>1
    <3>4. r # c
      BY <1>d, <2>1, <3>3
    <3> QED BY <1>0, <3>1, <3>2, <3>4
  <2>2. ASSUME NEW q \in Proc, F[q].child # 0
        PROVE  F[q].child > q /\ F[F[q].child].pc # "none"
    <3>1. CASE q = p /\ F[q].child = c
      BY <1>0, <1>f, <3>1
    <3>2. CASE F[q].child = E[q].child
      BY <1>1, <1>c, <1>e, <2>2, <3>2 DEF Numbered
    <3> QED BY <1>0, <1>b, <2>2, <3>1, <3>2
  <2>3. ASSUME NEW q \in Proc, F[q].right # 0
        PROVE  F[q].right > q /\ F[F[q].right].pc # "none"
    <3>1. CASE q = p /\ F[q].right = c
      BY <1>0, <1>f, <3>1
    <3>2. CASE F[q].right = E[q].right
      BY <1>1, <1>c, <1>e, <2>3, <3>2 DEF Numbered
    <3> QED BY <1>0, <1>b, <2>3, <3>1, <3>2
  <2> QED BY <2>1, <2>2, <2>3 DEF Numbered
<1>4. Family(F)
  <2>0. Sh # c /\ c \in Nat /\ p \in Nat /\ Sh \in Proc /\ Sh = 1 /\ p >= 1
    BY <1>0, Constants DEF Sh, Proc
  <2>1. F[Sh].seg = 0 /\ F[Sh].pc \in {"prompt", "main_wait", "exit", "dead"}
    BY <1>0, <1>1, <2>0 DEF Family, Bears
  <2>2. \A q \in Proc \ {Sh} : F[q].pc \notin {"prompt", "main_wait"}
    BY <1>0, <1>1 DEF Family, Bears
  <2>3. F[Sh].pc = "main_wait" => F[Sh].child # 0
    BY <1>0, <1>1, <2>0, Constants DEF Family, Bears
  <2>4. F[Sh].pc = "prompt" /\ F[Sh].child = 0 => \A q \in Proc \ {Sh} : F[q].pc = "none"
    BY <1>0, <1>1, <2>0 DEF Family, Bears
  <2>5. ASSUME NEW q \in Proc \ {Sh}, F[q].pc # "none"
        PROVE  F[q].of = F[Sh].of /\ q >= F[q].seg + 2 /\ F[q].seg <= Bars(F[q].of, Len(F[q].of))
    <3>1. CASE E[p].pc = "prompt" /\ E[p].child = 0
      <4>1. q = c /\ p = Sh
        BY <1>0, <1>2, <2>5, <3>1
      <4>2. m.seg \in {0, 1} /\ m.seg = 0 /\ m.of = n.of
        BY <1>0, <1>1, <3>1, <4>1 DEF Bears, Family
      <4> QED BY <1>0, <2>0, <4>1, <4>2 DEF Bears
    <3>2. CASE ~(E[p].pc = "prompt" /\ E[p].child = 0)
      <4>1. n.of = E[p].of /\ E[p].pc # "none" /\ n.seg = E[p].seg /\ n.seg \in Nat
        BY <1>0, <3>2, Fields DEF Bears
      <4>2. p # Sh
        BY <1>0, <1>1, <3>2, <2>0 DEF Bears, Family
      <4>3. p >= n.seg + 2 /\ n.seg <= Bars(n.of, Len(n.of)) /\ n.of = E[Sh].of
        BY <1>1, <4>1, <4>2 DEF Family
      <4>4. F[Sh] = E[Sh]
        BY <1>0, <4>2, <2>0
      <4>5. CASE q = c
        BY <1>0, <2>0, <4>1, <4>3, <4>4, <4>5 DEF Bears
      <4>6. CASE q = p
        BY <1>0, <4>3, <4>4, <4>6
      <4>7. CASE q \notin {p, c}
        BY <1>0, <1>1, <2>5, <4>4, <4>7 DEF Family
      <4> QED BY <4>5, <4>6, <4>7
    <3> QED BY <3>1, <3>2
  <2> QED BY <2>1, <2>2, <2>3, <2>4, <2>5 DEF Family
<1>5. Loading(F)
  <2>0. E[p].pc # "embryo" /\ ~(m.pc \in Spawning)
    BY <1>0 DEF Bears
  <2>1. ASSUME NEW q \in Proc, F[q].pc \in Spawning, q # p
        PROVE  /\ F[q] = E[q] /\ F[q].child # 0 /\ F[q].child # c
               /\ F[F[q].child] = E[E[q].child]
    <3>1. F[q] = E[q]
      BY <1>0, <2>0, <2>1
    <3>2. E[q].child # 0 /\ E[E[q].child].pc = "embryo" /\ E[q].child \in Proc \union {0}
      BY <1>0, <1>1, <2>1, <3>1, Fields DEF Loading
    <3> QED BY <1>0, <2>0, <3>1, <3>2
  <2>2. ASSUME NEW q \in Proc, F[q].pc \in Spawning
        PROVE  /\ F[q].child # 0 /\ F[F[q].child].pc = "embryo" /\ F[F[q].child].seg = F[q].seg
               /\ \A r \in Proc : F[r].pc \in Spawning /\ F[r].child = F[q].child => r = q
    <3>1. CASE q = p
      BY <1>0, <2>1, <2>2, <3>1, Constants DEF Bears
    <3>2. CASE q # p
      <4>1. F[p].pc \in Spawning => F[p].child = c
        BY <1>0 DEF Bears
      <4> QED BY <1>1, <2>1, <2>2, <3>2, <4>1 DEF Loading
    <3> QED BY <3>1, <3>2
  <2> QED BY <2>2 DEF Loading
<1> QED BY <1>3, <1>4, <1>5

LEMMA Birth ==
  ASSUME Inv, Fresh # {}, NEW p \in Proc, NEW n, NEW m, Bears(env[p], n, m, NewProc),
         env' = [env EXCEPT ![p] = n, ![NewProc] = m],
         UNCHANGED held, failed' \in 0..MaxFail, UNCHANGED early
  PROVE  Inv'
<1> DEFINE c == NewProc
<1>0. c \in Proc /\ env[c].pc = "none" /\ \A q \in Proc : env[q].pc # "none" <=> q < c
  BY Newest
<1> HIDE DEF c
<1>a. Bears(env[p], n, m, c) /\ env' = [env EXCEPT ![p] = n, ![c] = m]
  BY DEF c
<1>1. Typed' /\ \A q \in Proc : Local(env[q])'
  BY <1>0, <1>a, BirthLocal
<1>2. Links(env') /\ Top(env')
  BY <1>0, <1>a, BirthLinks
<1>3. Numbered(env') /\ Family(env') /\ Loading(env')
  BY <1>0, <1>a, BirthKin
<1>4. ASSUME ~early'
      PROVE  Tree(env')
  <2>1. /\ env'[p] = n /\ env'[c] = m /\ p # c
        /\ \A q \in Proc : q \notin {p, c} => env'[q] = env[q]
    BY <1>0, <1>a DEF Inv, Typed, Bears
  <2>2. Tree(env)
    BY <1>4 DEF Inv
  <2>3. ~Awaits(env[c], p) /\ \A q \in Proc : ~Awaits(env[c], q)
    BY <1>0 DEF Awaits, AwaitsChild, AwaitsRight
  <2>4. \A q \in Proc : Awaits(env[p], q) => Awaits(n, q)
    BY <1>a DEF Bears
  <2>5. Awaits(n, c) /\ Live(env[p])
    BY <1>a DEF Bears, Live
  <2>6. ASSUME NEW q \in Proc \ {Sh}, Live(env'[q])
        PROVE  \E r \in Proc : Awaits(env'[r], q)
    <3>1. CASE q = c
      BY <2>1, <2>5, <3>1
    <3>2. CASE q # c
      <4>1. Live(env[q])
        BY <2>1, <2>5, <2>6, <3>2
      <4>2. PICK r \in Proc : Awaits(env[r], q)
        BY <2>2, <4>1 DEF Tree, Live
      <4>3. r # c
        BY <2>3, <4>2
      <4> QED BY <2>1, <2>4, <4>2, <4>3
    <3> QED BY <3>1, <3>2
  <2> QED BY <2>6 DEF Tree, Live
<1> QED BY <1>1, <1>2, <1>3, <1>4 DEF Inv

-----------------------------------------------------------------------------
(***************************************************************************)
(* Descriptors.                                                            *)
(***************************************************************************)

LEMMA FewerEnds ==
  ASSUME NEW e, NEW n, EndsOK(e),
         \A d \in Fd : IsEnd(n, d) => n.fds[d] = e.fds[d] /\ Link(n, d) = Link(e, d)
  PROVE  EndsOK(n) /\ Kept(e, n)
<1>1. \A d \in Fd : IsEnd(n, d) => IsEnd(e, d)
  BY DEF IsEnd
<1>2. EndsOK(n)
  BY <1>1 DEF EndsOK
<1>3. Kept(e, n)
  BY <1>1 DEF Kept, Came
<1> QED BY <1>2, <1>3

LEMMA SameLink ==
  ASSUME NEW e, NEW n, n.seg = e.seg, RightSide(n) <=> RightSide(e),
         n.pc = "right_dup" <=> e.pc = "right_dup"
  PROVE  \A d : Link(n, d) = Link(e, d)
BY DEF Link

\* No descriptor is opened, moved or taken for another '|'.
LEMMA SubEnds ==
  ASSUME NEW e, NEW n, EndsOK(e), n.seg = e.seg, RightSide(n) <=> RightSide(e),
         n.pc = "right_dup" <=> e.pc = "right_dup",
         \A d \in Fd : n.fds[d] \in {e.fds[d], None, File}
  PROVE  EndsOK(n) /\ Kept(e, n)
<1>1. \A d : Link(n, d) = Link(e, d)
  BY SameLink
<1>2. \A d \in Fd : IsEnd(n, d) => n.fds[d] = e.fds[d]
  BY Objects DEF IsEnd
<1> QED BY <1>1, <1>2, FewerEnds

LEMMA OpenSet ==
  ASSUME NEW e, NEW S
  PROVE  Opens(e, S) <=> OpenFds(e) = S
BY DEF Opens, OpenFds

\* Giving up a descriptor, or all.
LEMMA Closing ==
  ASSUME NEW e \in Process, NEW d \in Fd
  PROVE  LET n == close(e, d)
         IN  /\ n \in Process /\ n.fds[d] = None /\ \A c \in Fd \ {d} : n.fds[c] = e.fds[c]
             /\ n.pc = e.pc /\ n.line = e.line /\ n.argv = e.argv /\ n.p = e.p /\ n.fd = e.fd
             /\ n.child = e.child /\ n.right = e.right /\ n.seg = e.seg /\ n.of = e.of
BY Objects DEF close, Process

LEMMA Going ==
  ASSUME NEW e \in Process, NEW pc \in Pcs
  PROVE  LET n == [e EXCEPT !.pc = pc]
         IN  /\ n \in Process /\ n.pc = pc /\ n.fds = e.fds
             /\ n.line = e.line /\ n.argv = e.argv /\ n.p = e.p /\ n.fd = e.fd
             /\ n.child = e.child /\ n.right = e.right /\ n.seg = e.seg /\ n.of = e.of
BY DEF Process

\* What Inv says of one process.
LEMMA One ==
  ASSUME Inv, NEW p \in Proc
  PROVE  /\ env[p] \in Process /\ EndsOK(env[p]) /\ Shape(env[p]) /\ Wiring(env[p])
         /\ env[p].pc \in Pcs /\ env[p].fds \in [Fd -> Obj]
BY Fields DEF Inv, Typed, Local

LEMMA Unfailed ==
  ASSUME Inv, Fails \/ Succeeds
  PROVE  failed' \in 0..MaxFail
BY ShellAssumption DEF Inv, Typed, Fails, Succeeds

-----------------------------------------------------------------------------
(***************************************************************************)
(* Programs.                                                               *)
(***************************************************************************)
Program == {"run", "empty", "full"}

LEMMA ProgMoves ==
  ASSUME NEW e \in Process, Local(e), e.pc \in Program,
         NEW n \in Process, n.pc \in Program \cup {"exit"}, n.fds = e.fds,
         n.seg = e.seg, n.of = e.of, n.right = e.right, n.child = e.child
  PROVE  Moves(e, n) /\ \A q : ~Awaits(e, q)
<1>1. ~RightSide(n) /\ ~RightSide(e) /\ n.pc # "right_dup" /\ e.pc # "right_dup" /\ ~LeftSide(n)
  BY DEF RightSide, LeftSide, Program
<1>2. EndsOK(n) /\ Kept(e, n)
  BY <1>1, SubEnds DEF Local
<1>3. Shape(n)
  BY DEF Local, Shape, Program, WithPipe, Opens
<1>4. ~Parser(n)
  BY <1>1 DEF Parser, Program
<1>5. Wiring(n)
  BY <1>1, <1>4 DEF Local, Wiring, Program, WantIn, WantOut
<1>6. \A q : ~Awaits(e, q)
  BY DEF Awaits, AwaitsChild, AwaitsRight, Program
<1>7. n.pc \notin Spawning /\ n.pc \notin {"prompt", "none", "main_wait"}
  BY DEF Spawning, Program
<1>8. e.pc \notin {"prompt", "main_wait", "exit", "none", "embryo", "dead"}
  BY DEF Program
<1> QED BY <1>2, <1>3, <1>4, <1>5, <1>6, <1>7, <1>8 DEF Moves, Kin, Local

LEMMA ProgStep ==
  ASSUME Inv, NEW p \in Proc, env[p].pc \in Program,
         NEW n \in Process, n.pc \in Program \cup {"exit"}, n.fds = env[p].fds,
         n.seg = env[p].seg, n.of = env[p].of, n.right = env[p].right, n.child = env[p].child,
         env' = [env EXCEPT ![p] = n], held' \in [Pipe -> 0..BY2PIPE],
         UNCHANGED <<failed, early>>
  PROVE  Inv'
<1>1. Moves(env[p], n) /\ \A q : ~Awaits(env[p], q)
  BY ProgMoves, One DEF Local
<1>2. failed' \in 0..MaxFail /\ early' \in BOOLEAN /\ (~early' => ~early)
  BY DEF Inv, Typed
<1> QED BY <1>1, <1>2, Solo

\* What a program changes of itself.
LEMMA ProgFields ==
  ASSUME NEW e \in Process
  PROVE  /\ LET n == [e EXCEPT !.byte = TRUE]
            IN  /\ n \in Process /\ n.pc = e.pc /\ n.fds = e.fds /\ n.seg = e.seg
                /\ n.of = e.of /\ n.right = e.right /\ n.child = e.child /\ n.todo = e.todo
         /\ LET n == [e EXCEPT !.byte = FALSE, !.pc = "run"]
            IN  /\ n \in Process /\ n.pc = "run" /\ n.fds = e.fds /\ n.seg = e.seg
                /\ n.of = e.of /\ n.right = e.right /\ n.child = e.child
         /\ e.todo > 0 =>
              /\ LET n == [e EXCEPT !.todo = @ - 1]
                 IN  /\ n \in Process /\ n.pc = e.pc /\ n.fds = e.fds /\ n.seg = e.seg
                     /\ n.of = e.of /\ n.right = e.right /\ n.child = e.child
              /\ LET n == [e EXCEPT !.todo = @ - 1, !.pc = "run"]
                 IN  /\ n \in Process /\ n.pc = "run" /\ n.fds = e.fds /\ n.seg = e.seg
                     /\ n.of = e.of /\ n.right = e.right /\ n.child = e.child
<1>1. e.todo > 0 => e.todo - 1 \in Nat
  BY DEF Process
<1> QED BY <1>1, ZenonT(60) DEF Process, Pcs

LEMMA NextFile ==
  ASSUME NEW e \in Process, Len(e.argv) > 2
  PROVE  LET n == [e EXCEPT !.argv = <<@[1]>> \o SubSeq(@, 3, Len(@)), !.todo = Len0]
         IN  /\ n \in Process /\ n.pc = e.pc /\ n.fds = e.fds /\ n.seg = e.seg
             /\ n.of = e.of /\ n.right = e.right /\ n.child = e.child
<1>1. e.argv \in Seq(STRING) /\ <<e.argv[1]>> \in Seq(STRING)
  BY DEF Process
<1>2. SubSeq(e.argv, 3, Len(e.argv)) \in Seq(STRING)
  BY <1>1
<1>3. <<e.argv[1]>> \o SubSeq(e.argv, 3, Len(e.argv)) \in Seq(STRING)
  BY <1>1, <1>2
<1> QED BY <1>3, Constants DEF Process

LEMMA ProgGo ==
  ASSUME Inv, NEW p \in Proc, env[p].pc \in Program, NEW pc \in {"run", "empty", "full", "exit"},
         Goto(p, pc), UNCHANGED <<held, failed, early>>
  PROVE  Inv'
<1> DEFINE n == [env[p] EXCEPT !.pc = pc]
<1>1. env[p] \in Process
  BY One
<1>2. /\ n \in Process /\ n.pc = pc /\ n.fds = env[p].fds /\ n.seg = env[p].seg
      /\ n.of = env[p].of /\ n.right = env[p].right /\ n.child = env[p].child
  <2>1. pc \in Pcs
    BY DEF Pcs
  <2> QED BY <1>1, <2>1, Going
<1>3. env' = [env EXCEPT ![p] = n]
  BY DEF Goto, Become
<1>4. held' \in [Pipe -> 0..BY2PIPE]
  BY DEF Inv, Typed
<1> HIDE DEF n
<1> QED BY <1>2, <1>3, <1>4, ProgStep DEF Program

LEMMA ReadStep ==
  ASSUME Inv, NEW p \in Proc, prog_read(p)
  PROVE  Inv'
<1> DEFINE e == env[p]
           src == Source(e)
           next == [e EXCEPT !.byte = TRUE]
           used == [next EXCEPT !.todo = @ - 1]
           file == [e EXCEPT !.argv = <<@[1]>> \o SubSeq(@, 3, Len(@)), !.todo = Len0]
<1>0. e \in Process /\ e.pc = "run" /\ e.pc \in Program /\ EndsOK(e) /\ e.fds \in [Fd -> Obj]
      /\ e.todo \in Nat
  BY One, Fields DEF prog_read, At, Program
<1>1. held \in [Pipe -> 0..BY2PIPE] /\ UNCHANGED <<failed, early>>
  BY DEF Inv, Typed, prog_read
<1>2. /\ next \in Process /\ next.pc = e.pc /\ next.fds = e.fds /\ next.seg = e.seg
      /\ next.of = e.of /\ next.right = e.right /\ next.child = e.child /\ next.todo = e.todo
  BY <1>0, ProgFields
<1>3. CASE src.kind = "r" /\ held[src.pipe] > 0 /\ Become(p, next)
           /\ held' = [held EXCEPT ![src.pipe] = @ - 1]
  <2>1. src.pipe \in Pipe
    <3>1. src = e.fds[0]
      BY <1>3, Objects DEF Source
    <3> QED BY <1>0, <1>3, <3>1, Constants DEF EndsOK, IsEnd
  <2>2. held' \in [Pipe -> 0..BY2PIPE]
    BY <1>1, <1>3, <2>1, Constants
  <2>3. env' = [env EXCEPT ![p] = next]
    BY <1>3 DEF Become
  <2> HIDE DEF next
  <2> QED BY <1>0, <1>1, <1>2, <2>2, <2>3, ProgStep
<1>4. CASE \E pc \in {"empty", "exit"} : Goto(p, pc) /\ UNCHANGED held
  BY <1>0, <1>1, <1>4, ProgGo
<1>5. CASE e.todo > 0 /\ Become(p, used) /\ UNCHANGED held
  <2>1. next \in Process /\ next.todo > 0
    BY <1>2, <1>5
  <2>2. /\ used \in Process /\ used.pc = next.pc /\ used.fds = next.fds /\ used.seg = next.seg
        /\ used.of = next.of /\ used.right = next.right /\ used.child = next.child
    <3> HIDE DEF next
    <3> QED BY <2>1, ProgFields
  <2>3. env' = [env EXCEPT ![p] = used]
    BY <1>5 DEF Become
  <2> HIDE DEF used, next
  <2> QED BY <1>0, <1>1, <1>2, <1>5, <2>2, <2>3, ProgStep
<1>6. CASE Len(e.argv) > 2 /\ Become(p, file) /\ UNCHANGED held
  <2>1. /\ file \in Process /\ file.pc = e.pc /\ file.fds = e.fds /\ file.seg = e.seg
        /\ file.of = e.of /\ file.right = e.right /\ file.child = e.child
    BY <1>0, <1>6, NextFile
  <2>2. env' = [env EXCEPT ![p] = file]
    BY <1>6 DEF Become
  <2> HIDE DEF file
  <2> QED BY <1>0, <1>1, <1>6, <2>1, <2>2, ProgStep
<1>7. \/ src.kind = "r" /\ held[src.pipe] > 0 /\ Become(p, next)
         /\ held' = [held EXCEPT ![src.pipe] = @ - 1]
      \/ \E pc \in {"empty", "exit"} : Goto(p, pc) /\ UNCHANGED held
      \/ e.todo > 0 /\ Become(p, used) /\ UNCHANGED held
      \/ Len(e.argv) > 2 /\ Become(p, file) /\ UNCHANGED held
  <2>1. CASE Goto(p, "empty") /\ UNCHANGED held
    BY <2>1
  <2>2. CASE Goto(p, "exit") /\ UNCHANGED held
    BY <2>2
  <2>3. CASE Become(p, [e EXCEPT !.pc = "exit"]) /\ UNCHANGED held
    <3>1. Goto(p, "exit")
      BY <2>3 DEF Goto
    <3> QED BY <2>3, <3>1
  <2> QED BY <2>1, <2>2, <2>3 DEF prog_read
<1> QED BY <1>3, <1>4, <1>5, <1>6, <1>7

LEMMA WriteStep ==
  ASSUME Inv, NEW p \in Proc, prog_write(p)
  PROVE  Inv'
<1> DEFINE e == env[p]
           dst == e.fds[1]
           n == Written(e)
<1>0. e \in Process /\ e.pc = "run" /\ e.pc \in Program /\ EndsOK(e) /\ e.fds \in [Fd -> Obj]
      /\ e.todo \in Nat
  BY One, Fields DEF prog_write, At, Program
<1>1. held \in [Pipe -> 0..BY2PIPE] /\ UNCHANGED <<failed, early>>
  BY DEF Inv, Typed, prog_write
<1>2. ASSUME IsCat(e) \/ e.todo > 0
      PROVE  /\ n \in Process /\ n.pc = "run" /\ n.fds = e.fds /\ n.seg = e.seg
             /\ n.of = e.of /\ n.right = e.right /\ n.child = e.child
  BY <1>0, <1>2, ProgFields DEF Written
<1>3. CASE \E pc \in {"full", "exit"} : Goto(p, pc) /\ UNCHANGED held
  BY <1>0, <1>1, <1>3, ProgGo
<1>4. CASE /\ IsCat(e) \/ e.todo > 0
           /\ Become(p, n)
           /\ \/ dst.kind = "w" /\ held[dst.pipe] < BY2PIPE /\ held' = [held EXCEPT ![dst.pipe] = @ + 1]
              \/ UNCHANGED held
  <2>1. dst.kind = "w" => dst.pipe \in Pipe
    BY <1>0, Constants DEF EndsOK, IsEnd
  <2>2. held' \in [Pipe -> 0..BY2PIPE]
    BY <1>1, <1>4, <2>1, Constants
  <2>3. env' = [env EXCEPT ![p] = n]
    BY <1>4 DEF Become
  <2> HIDE DEF n
  <2> QED BY <1>0, <1>1, <1>2, <1>4, <2>2, <2>3, ProgStep DEF Program
<1> QED BY <1>3, <1>4 DEF prog_write

LEMMA ClosedStep ==
  ASSUME Inv, NEW p \in Proc, prog_closed(p)
  PROVE  Inv'
<1>1. env[p].pc \in Program /\ UNCHANGED <<held, failed, early>>
  BY DEF prog_closed, Program
<1>2. Goto(p, "exit") \/ Goto(p, "run")
  BY DEF prog_closed
<1> QED BY <1>1, <1>2, ProgGo

-----------------------------------------------------------------------------
(***************************************************************************)
(* The shell's processes on their way out.                                 *)
(***************************************************************************)
Ending == {"exit", "close_all", "wait_right", "dead"}

LEMMA EndingMoves ==
  ASSUME NEW e \in Process, Local(e), ~RightSide(e), e.pc \notin {"none", "embryo", "dead"},
         NEW n \in Process, n.pc \in Ending,
         e.pc \in {"prompt", "main_wait", "exit"} => n.pc \in {"exit", "dead"},
         n.pc \in {"wait_right", "dead"} => Opens(n, {}),
         \A d \in Fd : n.fds[d] \in {e.fds[d], None, File},
         n.seg = e.seg, n.of = e.of, n.right = e.right, n.child \in {e.child, 0}
  PROVE  Moves(e, n)
<1>1. ~RightSide(n) /\ n.pc # "right_dup" /\ e.pc # "right_dup" /\ ~LeftSide(n) /\ ~Parser(n)
  BY DEF RightSide, LeftSide, Parser, Ending
<1>2. EndsOK(n) /\ Kept(e, n)
  BY <1>1, SubEnds DEF Local
<1>3. Shape(n)
  BY DEF Shape, Ending, WithPipe
<1>4. Wiring(n)
  BY <1>1 DEF Wiring, Ending
<1>5. n.pc \notin Spawning /\ n.pc \notin {"prompt", "none", "main_wait"}
  BY DEF Spawning, Ending
<1> QED BY <1>1, <1>2, <1>3, <1>4, <1>5 DEF Moves, Kin, Local

\* A process gives up: it has not got to what it would have waited for.
LEMMA ExitStep ==
  ASSUME Inv, NEW p \in Proc, Goto(p, "exit"), UNCHANGED held, failed' \in 0..MaxFail,
         early' \in BOOLEAN, ~early' => ~early,
         env[p].pc \in {"prompt", "parse", "fork", "wait_right"},
         env[p].pc = "wait_right" => \A q \in Proc : env[p].right = q => ~Live(env[q])
  PROVE  Inv'
<1> DEFINE e == env[p]
           n == [e EXCEPT !.pc = "exit"]
<1>0. e \in Process /\ Local(e)
  BY One DEF Local
<1>1. /\ n \in Process /\ n.pc = "exit" /\ n.fds = e.fds /\ n.child = e.child
      /\ n.right = e.right /\ n.seg = e.seg /\ n.of = e.of
  <2>1. "exit" \in Pcs
    BY DEF Pcs
  <2> QED BY <1>0, <2>1, Going
<1>2. env' = [env EXCEPT ![p] = n] /\ held' \in [Pipe -> 0..BY2PIPE]
  BY DEF Goto, Become, Inv, Typed
<1>3. ~RightSide(e) /\ e.pc \notin {"none", "embryo", "dead"}
  BY DEF RightSide
<1>4. ~early' => \A q \in Proc : ~(Awaits(e, q) /\ Live(env[q]))
  BY DEF Awaits, AwaitsChild, AwaitsRight
<1> HIDE DEF n
<1>5. Moves(e, n)
  BY <1>0, <1>1, <1>3, EndingMoves DEF Ending
<1> QED BY <1>1, <1>2, <1>4, <1>5, Solo

LEMMA CloseAllStep ==
  ASSUME Inv, NEW p \in Proc, close_all(p)
  PROVE  Inv'
<1> DEFINE e == env[p]
           d == Least(OpenFds(e))
           n == close(e, d)
<1>0. /\ e \in Process /\ Local(e) /\ e.pc \in {"close_all", "exit"}
      /\ env' = [env EXCEPT ![p] = n] /\ UNCHANGED <<held, failed, early>>
  BY One DEF Local, close_all, Become
<1>1. d \in Fd
  <2>1. OpenFds(e) \subseteq Nat /\ OpenFds(e) # {} /\ OpenFds(e) \subseteq Fd
    BY DEF OpenFds, Fd, close_all
  <2> QED BY <2>1, LeastIn
<1> HIDE DEF d
<1>2. /\ n \in Process /\ n.pc = e.pc /\ n.child = e.child /\ n.right = e.right
      /\ n.seg = e.seg /\ n.of = e.of /\ \A c \in Fd : n.fds[c] \in {e.fds[c], None, File}
  BY <1>0, <1>1, Closing
<1>3. \A q \in Proc : Awaits(e, q) => Awaits(n, q)
  BY <1>2 DEF Awaits
<1>4. ~RightSide(e)
  BY <1>0 DEF RightSide
<1>5. held' \in [Pipe -> 0..BY2PIPE] /\ failed' \in 0..MaxFail /\ early' \in BOOLEAN /\ (~early' => ~early)
  BY <1>0 DEF Inv, Typed
<1> HIDE DEF n
<1>6. Moves(e, n)
  BY <1>0, <1>2, <1>4, EndingMoves DEF Ending
<1> QED BY <1>0, <1>3, <1>5, <1>6, Solo

LEMMA WaitStep ==
  ASSUME Inv, NEW p \in Proc, wait(p)
  PROVE  Inv'
<1> DEFINE e == env[p]
           n == [e EXCEPT !.pc = "wait_right"]
<1>0. /\ e \in Process /\ Local(e) /\ e.pc = "close_all" /\ OpenFds(e) = {}
      /\ env' = [env EXCEPT ![p] = n] /\ UNCHANGED <<held, failed, early>>
      /\ e.child # 0 => env[e.child].pc = "dead"
  BY One DEF Local, wait, Goto, Become, At
<1>1. /\ n \in Process /\ n.pc = "wait_right" /\ n.fds = e.fds /\ n.child = e.child
      /\ n.right = e.right /\ n.seg = e.seg /\ n.of = e.of
  <2>1. "wait_right" \in Pcs
    BY DEF Pcs
  <2> QED BY <1>0, <2>1, Going
<1>2. ~RightSide(e)
  BY <1>0 DEF RightSide
<1>3. Opens(n, {})
  BY <1>0, <1>1 DEF Opens, OpenFds
<1>4. held' \in [Pipe -> 0..BY2PIPE] /\ failed' \in 0..MaxFail /\ early' \in BOOLEAN /\ (~early' => ~early)
  BY <1>0 DEF Inv, Typed
<1>5. ASSUME NEW q \in Proc, Awaits(e, q), Live(env[q])
      PROVE  Awaits(n, q)
  BY <1>0, <1>1, <1>5, Constants DEF Awaits, AwaitsRight, Live
<1> HIDE DEF n
<1>6. Moves(e, n)
  BY <1>0, <1>1, <1>2, <1>3, EndingMoves DEF Ending
<1> QED BY <1>0, <1>4, <1>5, <1>6, Solo

LEMMA DeadStep ==
  ASSUME Inv, NEW p \in Proc, exit(p)
  PROVE  Inv'
<1> DEFINE e == env[p]
           n == [e EXCEPT !.pc = "dead"]
<1>0. /\ e \in Process /\ Local(e) /\ e.pc = "exit" /\ OpenFds(e) = {}
      /\ env' = [env EXCEPT ![p] = n] /\ UNCHANGED <<held, failed, early>>
  BY One DEF Local, exit, Goto, Become, At
<1>1. /\ n \in Process /\ n.pc = "dead" /\ n.fds = e.fds /\ n.child = e.child
      /\ n.right = e.right /\ n.seg = e.seg /\ n.of = e.of
  <2>1. "dead" \in Pcs
    BY DEF Pcs
  <2> QED BY <1>0, <2>1, Going
<1>2. ~RightSide(e) /\ \A q : ~Awaits(e, q)
  BY <1>0 DEF RightSide, Awaits, AwaitsChild, AwaitsRight
<1>3. Opens(n, {})
  BY <1>0, <1>1 DEF Opens, OpenFds
<1>4. held' \in [Pipe -> 0..BY2PIPE] /\ failed' \in 0..MaxFail /\ early' \in BOOLEAN /\ (~early' => ~early)
  BY <1>0 DEF Inv, Typed
<1> HIDE DEF n
<1>5. Moves(e, n)
  BY <1>0, <1>1, <1>2, <1>3, EndingMoves DEF Ending
<1> QED BY <1>0, <1>2, <1>4, <1>5, Solo

LEMMA WaitRightStep ==
  ASSUME Inv, NEW p \in Proc, wait_right(p)
  PROVE  Inv'
<1>1. /\ env[p].pc = "wait_right" /\ Goto(p, "exit") /\ UNCHANGED <<held, failed, early>>
      /\ env[p].right # 0 => env[env[p].right].pc = "dead"
  BY DEF wait_right, At
<1>2. \A q \in Proc : env[p].right = q => ~Live(env[q])
  BY <1>1, Constants DEF Live
<1>3. failed' \in 0..MaxFail /\ early' \in BOOLEAN /\ (~early' => ~early)
  BY <1>1 DEF Inv, Typed
<1> QED BY <1>1, <1>2, <1>3, ExitStep

-----------------------------------------------------------------------------
(***************************************************************************)
(* main: the interactive shell.                                            *)
(***************************************************************************)
LEMMA PromptStep ==
  ASSUME Inv, main_wait
  PROVE  Inv'
<1> DEFINE e == env[Sh]
           n == [e EXCEPT !.pc = "prompt"]
<1>0. /\ e \in Process /\ Local(e) /\ e.pc = "main_wait" /\ Sh \in Proc
      /\ env' = [env EXCEPT ![Sh] = n] /\ UNCHANGED <<held, failed, early>>
      /\ env[e.child].pc = "dead" /\ e.child # 0
  BY One, Constants DEF Local, main_wait, Goto, Become, At, Inv, Family
<1>1. /\ n \in Process /\ n.pc = "prompt" /\ n.fds = e.fds /\ n.child = e.child
      /\ n.right = e.right /\ n.seg = e.seg /\ n.of = e.of
  <2>1. "prompt" \in Pcs
    BY DEF Pcs
  <2> QED BY <1>0, <2>1, Going
<1>2. held' \in [Pipe -> 0..BY2PIPE] /\ failed' \in 0..MaxFail /\ early' \in BOOLEAN /\ (~early' => ~early)
  BY <1>0 DEF Inv, Typed
<1>3. \A q \in Proc : ~(Awaits(e, q) /\ Live(env[q]))
  BY <1>0 DEF Awaits, AwaitsRight, Live
<1> HIDE DEF n
<1>4. ~RightSide(e) /\ ~RightSide(n) /\ ~LeftSide(n) /\ ~Parser(n)
  BY <1>0, <1>1 DEF RightSide, LeftSide, Parser
<1>5. EndsOK(n) /\ Kept(e, n)
  BY <1>0, <1>1, <1>4, SubEnds DEF Local
<1>6. Shape(n) /\ Wiring(n)
  BY <1>0, <1>1, <1>4 DEF Local, Shape, Wiring, WithPipe, Opens
<1>7. Moves(e, n)
  BY <1>0, <1>1, <1>4, <1>5, <1>6 DEF Moves, Kin, Local, Spawning
<1> QED BY <1>0, <1>2, <1>3, <1>7, Solo

\* A comment is skipped: the line is over before it began.
LEMMA CommentStep ==
  ASSUME Inv, NEW l \in Seq(STRING), At(Sh, "prompt"), env[Sh].child = 0,
         Become(Sh, [env[Sh] EXCEPT !.of = l]), UNCHANGED <<held, failed, early>>
  PROVE  Inv'
<1> DEFINE e == env[Sh]
           n == [e EXCEPT !.of = l]
           F == env'
<1>0. /\ e \in Process /\ Local(e) /\ e.pc = "prompt" /\ Sh \in Proc
      /\ env' = [env EXCEPT ![Sh] = n]
  BY One, Constants DEF Local, Become, At
<1>1. /\ n \in Process /\ n.pc = e.pc /\ n.fds = e.fds /\ n.child = e.child
      /\ n.right = e.right /\ n.seg = e.seg /\ n.of = l
  BY <1>0 DEF Process
<1>2. Typed'
  BY <1>0, <1>1 DEF Inv, Typed
<1>3. F[Sh] = n /\ \A q \in Proc : q # Sh => F[q] = env[q]
  BY <1>0 DEF Inv, Typed
<1> HIDE DEF n, F
<1>4. ~RightSide(e) /\ ~RightSide(n) /\ ~LeftSide(n) /\ ~Parser(n)
  BY <1>0, <1>1 DEF RightSide, LeftSide, Parser
<1>5. EndsOK(n) /\ Kept(e, n)
  BY <1>0, <1>1, <1>4, SubEnds DEF Local
<1>6. Shape(n) /\ Wiring(n)
  BY <1>0, <1>1, <1>4 DEF Local, Shape, Wiring, WithPipe, Opens
<1>7. \A q \in Proc : Local(F[q])
  BY <1>3, <1>5, <1>6, One DEF Local
<1>8. /\ \A q \in Proc : ~Parser(F[q])
      /\ \A q \in Proc, d \in Fd : ~IsEnd(F[q], d)
  <2>1. /\ \A q \in Proc \ {Sh} : env[q].pc = "none"
        /\ \A q \in Proc : ~Parser(env[q]) /\ \A d \in Fd : ~IsEnd(env[q], d)
    BY <1>0, NoOther
  <2> QED BY <1>1, <1>3, <1>4, <2>1 DEF IsEnd
<1>9. Links(F) /\ Top(F)
  BY <1>8 DEF Links, Top
<1>10. \A q \in Proc \ {Sh} : F[q].pc = "none"
  BY <1>0, <1>3, NoOther
<1>11. Numbered(F)
  <2>1. \A q \in Proc : F[q].pc = env[q].pc /\ F[q].child = env[q].child /\ F[q].right = env[q].right
    BY <1>1, <1>3
  <2>2. \A q \in Proc : env[q].child \in Proc \union {0} /\ env[q].right \in Proc \union {0}
    BY One, Fields
  <2> QED BY <2>1, <2>2 DEF Inv, Numbered
<1>12. Family(F)
  BY <1>0, <1>1, <1>3, <1>10 DEF Inv, Family
<1>13. Loading(F)
  BY <1>0, <1>1, <1>3, <1>10 DEF Loading, Spawning
<1>14. Tree(F)
  BY <1>10 DEF Tree
<1> QED BY <1>2, <1>7, <1>9, <1>11, <1>12, <1>13, <1>14 DEF Inv, F

LEMMA LineStep ==
  ASSUME Inv, NEW l \in Seq(STRING), At(Sh, "prompt"), env[Sh].child = 0, Fresh # {},
         env' = [env EXCEPT ![Sh].pc = "main_wait", ![Sh].child = NewProc, ![Sh].of = l,
                   ![NewProc] = [Unborn EXCEPT !.pc = "parse", !.line = l, !.of = l,
                                               !.fds = env[Sh].fds]],
         UNCHANGED <<held, failed, early>>
  PROVE  Inv'
<1> DEFINE c == NewProc
           e == env[Sh]
           n == [e EXCEPT !.pc = "main_wait", !.child = c, !.of = l]
           m == [Unborn EXCEPT !.pc = "parse", !.line = l, !.of = l, !.fds = e.fds]
<1>0. e \in Process /\ Local(e) /\ e.pc = "prompt" /\ Sh \in Proc /\ c \in Proc /\ c # Sh /\ e.child = 0
  BY One, Newest, Constants DEF Local, At
<1>1. /\ n \in Process /\ n.pc = "main_wait" /\ n.fds = e.fds /\ n.child = c
      /\ n.right = e.right /\ n.seg = e.seg /\ n.of = l
  <2> HIDE DEF c
  <2> QED BY <1>0 DEF Process, Pcs
<1>2. /\ m \in Process /\ m.pc = "parse" /\ m.fds = e.fds /\ m.child = 0
      /\ m.right = 0 /\ m.seg = 0 /\ m.of = l /\ m.line = l
  BY <1>0, UnbornProcess DEF Process, Pcs
<1>3. env' = [env EXCEPT ![Sh] = n, ![c] = m]
  BY <1>0 DEF Inv, Typed
<1>4. e.seg = 0 /\ failed' \in 0..MaxFail /\ \A d \in Fd : ~IsEnd(e, d)
  <2>1. \A d \in Fd : ~IsEnd(e, d)
    BY <1>0, NoOther
  <2> QED BY <2>1 DEF Inv, Typed, Family
<1> HIDE DEF n, m, c
<1>5. \A d \in Fd : ~IsEnd(n, d) /\ ~IsEnd(m, d)
  BY <1>1, <1>2, <1>4 DEF IsEnd
<1>6. EndsOK(n) /\ EndsOK(m) /\ Kept(e, n) /\ Kept(e, m)
  BY <1>5 DEF EndsOK, Kept
<1>7. Shape(n) /\ Shape(m)
  BY <1>0, <1>1, <1>2 DEF Local, Shape, WithPipe, Opens
<1>8. ~RightSide(n) /\ ~LeftSide(n) /\ ~Parser(n) /\ ~RightSide(m) /\ ~LeftSide(m)
  BY <1>1, <1>2 DEF RightSide, LeftSide, Parser
<1>9. Wiring(n)
  BY <1>1, <1>8 DEF Wiring
<1>10. Bars(l, 0) = 0 /\ Bars(l, Len(l)) \in Nat /\ Len(l) \in Nat
  BY BarsNone, BarSets
<1>11. Pos(m) = 0 /\ Suffix(m) /\ (\A t : ~Seen(m, t) /\ ~SeenAny(m, t))
  BY <1>2, <1>10 DEF Suffix, Pos, Seen, SeenAny
<1>12. m.fds[0].kind = "cons" /\ m.fds[1].kind = "cons"
  BY <1>0, <1>2, Objects DEF Local, Shape
<1>13. Wiring(m)
  BY <1>2, <1>8, <1>11, <1>12 DEF Wiring
<1>14. Awaits(n, c) /\ \A q \in Proc : ~Awaits(e, q)
  BY <1>0, <1>1 DEF Awaits, AwaitsChild, AwaitsRight
<1>15. Bears(e, n, m, c)
  BY <1>0, <1>1, <1>2, <1>4, <1>6, <1>7, <1>8, <1>9, <1>10, <1>13, <1>14
  DEF Bears, Local, Spawning
<1> QED BY <1>0, <1>3, <1>4, <1>15, Birth DEF c

LEMMA MainStep ==
  ASSUME Inv, NEW l \in Lines, main(l)
  PROVE  Inv'
<1>1. l \in Seq(STRING)
  BY Constants
<1>2. At(Sh, "prompt") /\ env[Sh].child = 0 /\ Fresh # {} /\ UNCHANGED <<held, early>>
  BY DEF main
<1>3. CASE Succeeds /\ Become(Sh, [env[Sh] EXCEPT !.of = l])
  BY <1>1, <1>2, <1>3, CommentStep DEF Succeeds
<1>4. CASE Fails /\ Goto(Sh, "exit")
  <2>1. failed' \in 0..MaxFail /\ early' \in BOOLEAN /\ (~early' => ~early)
    BY <1>2, <1>4, Unfailed DEF Inv, Typed
  <2> QED BY <1>2, <1>4, <2>1, ExitStep, Constants DEF At
<1>5. CASE Succeeds /\ env' = [env EXCEPT ![Sh].pc = "main_wait", ![Sh].child = NewProc, ![Sh].of = l,
                   ![NewProc] = [Unborn EXCEPT !.pc = "parse", !.line = l, !.of = l,
                                               !.fds = env[Sh].fds]]
  BY <1>1, <1>2, <1>5, LineStep DEF Succeeds
<1> QED BY <1>3, <1>4, <1>5 DEF main

-----------------------------------------------------------------------------
(***************************************************************************)
(* The two sides of a '|' take their ends.                                 *)
(***************************************************************************)
LEMMA TwoThree ==
  ASSUME NEW e \in Process, Shape(e), e.pc \in {"left_dup", "right_dup", "close0"}
  PROVE  /\ Opens(e, {0, 1, 2, 3}) /\ e.p[1] = 2 /\ e.p[2] = 3 /\ 2 \in Fd /\ 3 \in Fd
         /\ e.fds[2].kind = "r" /\ e.fds[3].kind = "w"
BY DEF Shape, WithPipe, Opens

LEMMA RightDupStep ==
  ASSUME Inv, NEW p \in Proc, right_dup(p)
  PROVE  Inv'
<1> DEFINE e == env[p]
           n == [dup(e, e.p[1], 0) EXCEPT !.pc = "close0"]
<1>0. /\ e \in Process /\ Local(e) /\ EndsOK(e) /\ Shape(e) /\ Wiring(e) /\ e.pc = "right_dup"
      /\ env' = [env EXCEPT ![p] = n] /\ UNCHANGED <<held, failed, early>> /\ e.fds \in [Fd -> Obj]
  BY One DEF Local, right_dup, Become, At
<1>1. /\ Opens(e, {0, 1, 2, 3}) /\ e.p[1] = 2 /\ e.p[2] = 3 /\ 2 \in Fd /\ 3 \in Fd
      /\ e.fds[2].kind = "r" /\ e.fds[3].kind = "w"
  BY <1>0, TwoThree
<1>2. /\ n \in Process /\ n.pc = "close0" /\ n.fds = [e.fds EXCEPT ![0] = e.fds[2]]
      /\ n.child = e.child /\ n.right = e.right /\ n.seg = e.seg /\ n.of = e.of
      /\ n.line = e.line /\ n.p = e.p
  BY <1>0, <1>1, Constants DEF dup, Process, Pcs
<1>3. held' \in [Pipe -> 0..BY2PIPE] /\ failed' \in 0..MaxFail /\ early' \in BOOLEAN /\ (~early' => ~early)
  BY <1>0 DEF Inv, Typed
<1> HIDE DEF n
<1>4. n.fds[0] = e.fds[2] /\ \A d \in Fd \ {0} : n.fds[d] = e.fds[d]
  BY <1>0, <1>2, Constants
<1>5. RightSide(e) /\ RightSide(n) /\ ~LeftSide(n) /\ Parser(e) /\ Parser(n)
  BY <1>0, <1>2 DEF RightSide, LeftSide, Parser, Wiring
<1>6. Link(n, 0) = Link(e, 2) /\ \A d \in Fd \ {0} : Link(n, d) = Link(e, d)
  BY <1>0, <1>2, <1>5 DEF Link
<1>7. Kept(e, n)
  BY <1>1, <1>4, <1>6 DEF Kept, Came, IsEnd
<1>8. EndsOK(n)
  BY <1>0, <1>1, <1>4, <1>6, Constants DEF EndsOK, IsEnd
<1>9. Shape(n)
  BY <1>0, <1>1, <1>2, <1>4, Objects DEF Shape, WithPipe, Opens
<1>10. Wiring(n)
  <2>1. Suffix(n) /\ \A t : (Seen(n, t) <=> Seen(e, t)) /\ (SeenAny(n, t) <=> SeenAny(e, t))
    BY <1>0, <1>2, <1>5, ZenonT(60) DEF Wiring, Suffix, Pos, Seen, SeenAny
  <2> QED BY <1>0, <1>1, <1>2, <1>4, <1>5, <2>1, Constants DEF Wiring
<1>11. Limit(n) = Limit(e)
  BY <1>0, <1>2 DEF Limit
<1>12. \A q : ~Awaits(e, q)
  BY <1>0 DEF Awaits, AwaitsChild, AwaitsRight
<1>13. Moves(e, n)
  BY <1>0, <1>2, <1>5, <1>7, <1>8, <1>9, <1>10, <1>11 DEF Moves, Kin, Local, Spawning
<1> QED BY <1>0, <1>3, <1>12, <1>13, Solo

LEMMA LeftDupStep ==
  ASSUME Inv, NEW p \in Proc, left_dup(p)
  PROVE  Inv'
<1> DEFINE e == env[p]
           n == [dup(e, e.p[2], 1) EXCEPT !.pc = "close0"]
<1>0. /\ e \in Process /\ Local(e) /\ EndsOK(e) /\ Shape(e) /\ Wiring(e) /\ e.pc = "left_dup"
      /\ env' = [env EXCEPT ![p] = n] /\ UNCHANGED <<held, failed, early>> /\ e.fds \in [Fd -> Obj]
  BY One DEF Local, left_dup, Become, At
<1>1. /\ Opens(e, {0, 1, 2, 3}) /\ e.p[1] = 2 /\ e.p[2] = 3 /\ 2 \in Fd /\ 3 \in Fd
      /\ e.fds[2].kind = "r" /\ e.fds[3].kind = "w"
  BY <1>0, TwoThree
<1>2. /\ n \in Process /\ n.pc = "close0" /\ n.fds = [e.fds EXCEPT ![1] = e.fds[3]]
      /\ n.child = e.child /\ n.right = e.right /\ n.seg = e.seg /\ n.of = e.of
      /\ n.line = e.line /\ n.p = e.p
  BY <1>0, <1>1, Constants DEF dup, Process, Pcs
<1>3. held' \in [Pipe -> 0..BY2PIPE] /\ failed' \in 0..MaxFail /\ early' \in BOOLEAN /\ (~early' => ~early)
  BY <1>0 DEF Inv, Typed
<1> HIDE DEF n
<1>4. n.fds[1] = e.fds[3] /\ \A d \in Fd \ {1} : n.fds[d] = e.fds[d]
  BY <1>0, <1>2, Constants
<1>5. ~RightSide(e) /\ ~RightSide(n) /\ LeftSide(n) /\ LeftSide(e) /\ ~Parser(n)
  BY <1>0, <1>2 DEF RightSide, LeftSide, Parser, Wiring
<1>6. Link(n, 1) = Link(e, 3) /\ \A d \in Fd \ {1} : Link(n, d) = Link(e, d)
  BY <1>0, <1>2, <1>5 DEF Link
<1>7. Kept(e, n)
  BY <1>1, <1>4, <1>6 DEF Kept, Came, IsEnd
<1>8. EndsOK(n)
  BY <1>0, <1>1, <1>4, <1>6, Constants DEF EndsOK, IsEnd
<1>9. Shape(n)
  BY <1>0, <1>1, <1>2, <1>4, Objects DEF Shape, WithPipe, Opens
<1>10. Wiring(n)
  BY <1>0, <1>1, <1>2, <1>4, <1>5, Constants DEF Wiring, WantIn
<1>11. \A q : Awaits(e, q) => Awaits(n, q)
  BY <1>0, <1>2 DEF Awaits, AwaitsChild, AwaitsRight
<1>12. Moves(e, n)
  BY <1>0, <1>2, <1>5, <1>7, <1>8, <1>9, <1>10 DEF Moves, Kin, Local, Spawning
<1> QED BY <1>0, <1>3, <1>11, <1>12, Solo

LEMMA Close0Step ==
  ASSUME Inv, NEW p \in Proc, pipe_close0(p)
  PROVE  Inv'
<1> DEFINE e == env[p]
           n == [close(e, e.p[1]) EXCEPT !.pc = "close1"]
<1>0. /\ e \in Process /\ Local(e) /\ EndsOK(e) /\ Shape(e) /\ Wiring(e) /\ e.pc = "close0"
      /\ env' = [env EXCEPT ![p] = n] /\ UNCHANGED <<held, failed, early>> /\ e.fds \in [Fd -> Obj]
  BY One DEF Local, pipe_close0, Become, At
<1>1. /\ Opens(e, {0, 1, 2, 3}) /\ e.p[1] = 2 /\ e.p[2] = 3 /\ 2 \in Fd /\ 3 \in Fd
      /\ e.fds[2].kind = "r" /\ e.fds[3].kind = "w" /\ e.p = <<2, 3>>
  BY <1>0, TwoThree DEF Shape, WithPipe
<1>2. /\ n \in Process /\ n.pc = "close1" /\ n.fds[2] = None /\ (\A d \in Fd \ {2} : n.fds[d] = e.fds[d])
      /\ n.child = e.child /\ n.right = e.right /\ n.seg = e.seg /\ n.of = e.of
      /\ n.line = e.line /\ n.p = e.p
  <2>1. "close1" \in Pcs
    BY DEF Pcs
  <2> DEFINE k == close(e, e.p[1])
  <2>2. /\ k \in Process /\ k.fds[2] = None /\ (\A d \in Fd \ {2} : k.fds[d] = e.fds[d])
        /\ k.child = e.child /\ k.right = e.right /\ k.seg = e.seg /\ k.of = e.of
        /\ k.line = e.line /\ k.p = e.p
    BY <1>0, <1>1, Closing, SMTT(30)
  <2> HIDE DEF k
  <2>3. n = [k EXCEPT !.pc = "close1"]
    BY DEF k
  <2> HIDE DEF n
  <2> QED BY <2>1, <2>2, <2>3, Going
<1>3. held' \in [Pipe -> 0..BY2PIPE] /\ failed' \in 0..MaxFail /\ early' \in BOOLEAN /\ (~early' => ~early)
  BY <1>0 DEF Inv, Typed
<1> HIDE DEF n
<1>4. (RightSide(n) <=> RightSide(e)) /\ (LeftSide(n) <=> LeftSide(e)) /\ (Parser(n) <=> Parser(e))
  BY <1>0, <1>2 DEF RightSide, LeftSide, Parser
<1>5. \A d \in Fd : n.fds[d] \in {e.fds[d], None, File}
  BY <1>2
<1>6. EndsOK(n) /\ Kept(e, n)
  BY <1>0, <1>2, <1>4, <1>5, SubEnds
<1>7. Shape(n)
  BY <1>0, <1>1, <1>2, Objects DEF Shape, WithPipe, Opens
<1>8. Wiring(n)
  <2>1. /\ Suffix(n) <=> Suffix(e)
        /\ \A t : (Seen(n, t) <=> Seen(e, t)) /\ (SeenAny(n, t) <=> SeenAny(e, t))
    BY <1>2 DEF Suffix, Pos, Seen, SeenAny
  <2>2. WantIn(n) = WantIn(e) /\ n.fds[0] = e.fds[0] /\ n.fds[1] = e.fds[1]
    BY <1>2, Constants DEF WantIn
  <2> QED BY <1>0, <1>2, <1>4, <2>1, <2>2 DEF Wiring
<1>9. Limit(n) = Limit(e)
  BY <1>0, <1>2 DEF Limit
<1>10. \A q : Awaits(e, q) => Awaits(n, q)
  BY <1>0, <1>2 DEF Awaits, AwaitsChild, AwaitsRight
<1>11. Moves(e, n)
  BY <1>0, <1>2, <1>4, <1>6, <1>7, <1>8, <1>9 DEF Moves, Kin, Local, Spawning
<1> QED BY <1>0, <1>3, <1>10, <1>11, Solo

\* runcmd without a command ends, otherwise it spawns.
LEMMA Running1 ==
  ASSUME NEW k \in Process
  PROVE  LET n == RunCmd(k)
         IN  /\ n \in Process /\ n.pc = (IF k.argv = <<>> THEN "exit" ELSE "spawn") /\ n.fds = k.fds
             /\ n.child = k.child /\ n.right = k.right /\ n.seg = k.seg /\ n.of = k.of
BY DEF RunCmd, Process, Pcs

LEMMA Close1Moves ==
  ASSUME NEW e \in Process, Local(e), e.pc = "close1", NEW n \in Process,
         n.pc = IF e.right = 0 THEN "parse" ELSE IF e.argv = <<>> THEN "exit" ELSE "spawn",
         n.fds[3] = None, \A d \in Fd \ {3} : n.fds[d] = e.fds[d],
         n.child = e.child, n.right = e.right, n.seg = e.seg, n.of = e.of,
         n.pc = "parse" => n.line = e.line
  PROVE  Moves(e, n)
<1>0. EndsOK(e) /\ Shape(e) /\ Wiring(e)
  BY DEF Local
<1>1. Opens(e, {0, 1, 3}) /\ e.fds[3].kind = "w" /\ 3 \in Fd
  BY <1>0 DEF Shape, Opens
<1>2. ~RightSide(n) /\ ~LeftSide(n) /\ n.pc \in {"parse", "exit", "spawn"}
  BY DEF RightSide, LeftSide
<1>3. \A d \in Fd : IsEnd(n, d) => n.fds[d] = e.fds[d] /\ d \in {0, 1}
  BY <1>1, Objects DEF IsEnd, Opens
<1>4. \A d \in {0, 1} : Link(n, d) = Link(e, d)
  BY <1>2 DEF Link
<1>5. EndsOK(n) /\ Kept(e, n)
  BY <1>0, <1>3, <1>4, FewerEnds
<1>6. Shape(n)
  <2>1. Opens(n, {0, 1})
    BY <1>1 DEF Opens
  <2> QED BY <1>2, <2>1 DEF Shape, WithPipe
<1>7. n.fds[0] = e.fds[0] /\ n.fds[1] = e.fds[1]
  BY Constants
<1>8. CASE e.right = 0
  <2>1. RightSide(e) /\ n.pc = "parse" /\ Parser(e)
    BY <1>8 DEF RightSide, Parser
  <2>2. Suffix(n) /\ \A t : (Seen(n, t) <=> Seen(e, t)) /\ (SeenAny(n, t) <=> SeenAny(e, t))
    BY <1>0, <2>1 DEF Wiring, Suffix, Pos, Seen, SeenAny
  <2>3. Wiring(n)
    <3>1. e.fds[0].kind = "r" /\ e.seg > 0 /\ e.seg # 0 /\ ~Seen(n, "<")
      BY <1>0, <2>1, <2>2 DEF Wiring
    <3>2. n.child = 0 /\ e.fds[1].kind = IF SeenAny(n, ">") THEN "file" ELSE "cons"
      BY <1>0, <2>1, <2>2 DEF Wiring
    <3> QED BY <1>2, <1>7, <2>1, <2>2, <3>1, <3>2 DEF Wiring
  <2>4. Limit(n) = Limit(e)
    BY <2>1 DEF Limit
  <2> QED BY <1>5, <1>6, <2>1, <2>3, <2>4 DEF Moves, Kin, Local, Spawning
<1>9. CASE e.right # 0
  <2>1. LeftSide(e) /\ n.pc \in {"exit", "spawn"} /\ ~Parser(n)
    BY <1>9, <1>2 DEF LeftSide, Parser
  <2>2. Wiring(n)
    <3>1. e.fds[0].kind = WantIn(e) /\ e.fds[1].kind = "w" /\ Bars(e.of, Len(e.of)) # e.seg
      BY <1>0, <2>1 DEF Wiring
    <3>2. n.fds[0].kind = WantIn(n) /\ n.fds[1].kind = WantOut(n)
      BY <1>7, <3>1 DEF WantIn, WantOut
    <3> QED BY <1>2, <2>1, <3>2 DEF Wiring
  <2> QED BY <1>5, <1>6, <2>1, <2>2 DEF Moves, Kin, Local, Spawning
<1> QED BY <1>8, <1>9

LEMMA Close1Step ==
  ASSUME Inv, NEW p \in Proc, pipe_close1(p)
  PROVE  Inv'
<1> DEFINE e == env[p]
           k == close(e, e.p[2])
           n == IF e.right = 0 THEN [k EXCEPT !.pc = "parse"] ELSE RunCmd(k)
<1>0. /\ e \in Process /\ Local(e) /\ e.pc = "close1"
      /\ env' = [env EXCEPT ![p] = n] /\ UNCHANGED <<held, failed>> /\ early \in BOOLEAN
  BY One DEF Local, pipe_close1, Become, At, Inv, Typed
<1>1. e.p[2] = 3 /\ 3 \in Fd
  BY <1>0 DEF Local, Shape, Opens
<1>2. /\ k \in Process /\ k.fds[3] = None /\ (\A d \in Fd \ {3} : k.fds[d] = e.fds[d])
      /\ k.child = e.child /\ k.right = e.right /\ k.seg = e.seg /\ k.of = e.of
      /\ k.line = e.line /\ k.argv = e.argv
  BY <1>0, <1>1, Closing
<1> HIDE DEF k
<1>3. /\ n \in Process
      /\ n.pc = IF e.right = 0 THEN "parse" ELSE IF e.argv = <<>> THEN "exit" ELSE "spawn"
      /\ n.fds = k.fds /\ n.child = e.child /\ n.right = e.right /\ n.seg = e.seg /\ n.of = e.of
      /\ n.pc = "parse" => n.line = e.line
  <2>1. CASE e.right = 0
    <3>1. "parse" \in Pcs /\ n = [k EXCEPT !.pc = "parse"]
      BY <2>1 DEF Pcs
    <3> HIDE DEF n
    <3> QED BY <1>2, <2>1, <3>1, Going
  <2>2. CASE e.right # 0
    <3>1. n = RunCmd(k)
      BY <2>2
    <3> HIDE DEF n
    <3> QED BY <1>2, <2>2, <3>1, Running1
  <2> QED BY <2>1, <2>2
<1>4. held' \in [Pipe -> 0..BY2PIPE] /\ failed' \in 0..MaxFail
  BY <1>0 DEF Inv, Typed
<1>5. /\ early' \in BOOLEAN /\ (~early' => ~early)
      /\ ~early' => e.right = 0 \/ e.argv # <<>>
  BY <1>0 DEF pipe_close1, Early
<1> HIDE DEF n
<1>6. Moves(e, n)
  BY <1>0, <1>2, <1>3, Close1Moves
<1>7. ASSUME ~early', NEW q \in Proc, Awaits(e, q)
      PROVE  Awaits(n, q)
  <2>1. e.right = q /\ e.right # 0
    BY <1>0, <1>7, Constants DEF Awaits, AwaitsChild
  <2> QED BY <1>3, <1>5, <1>7, <2>1 DEF Awaits, AwaitsRight
<1> QED BY <1>0, <1>4, <1>5, <1>6, <1>7, Solo

-----------------------------------------------------------------------------
(***************************************************************************)
(* runcmd: spawn.                                                          *)
(***************************************************************************)
LEMMA NoSpawnStep ==
  ASSUME Inv, NEW p \in Proc, At(p, "spawn"), failed' \in 0..MaxFail, UNCHANGED <<held, early>>,
         Become(p, [env[p] EXCEPT !.pc = "close_all", !.child = 0])
  PROVE  Inv'
<1> DEFINE e == env[p]
           n == [e EXCEPT !.pc = "close_all", !.child = 0]
<1>0. /\ e \in Process /\ Local(e) /\ e.pc = "spawn"
      /\ env' = [env EXCEPT ![p] = n]
  BY One DEF Local, Become, At
<1>1. /\ n \in Process /\ n.pc = "close_all" /\ n.fds = e.fds /\ n.child = 0
      /\ n.right = e.right /\ n.seg = e.seg /\ n.of = e.of
  BY <1>0 DEF Process, Pcs
<1>2. ~RightSide(e)
  BY <1>0 DEF RightSide
<1>3. held' \in [Pipe -> 0..BY2PIPE] /\ early' \in BOOLEAN /\ (~early' => ~early)
  BY <1>0 DEF Inv, Typed
<1>4. \A q \in Proc : Awaits(e, q) => Awaits(n, q)
  BY <1>0, <1>1 DEF Awaits, AwaitsChild, AwaitsRight
<1> HIDE DEF n
<1>5. Moves(e, n)
  BY <1>0, <1>1, <1>2, EndingMoves DEF Ending
<1> QED BY <1>0, <1>3, <1>4, <1>5, Solo

LEMMA SpawnCloseStep ==
  ASSUME Inv, NEW p \in Proc, spawn_close(p)
  PROVE  Inv'
<1> DEFINE e == env[p]
           k == close(e, e.fd)
           n == [k EXCEPT !.pc = "spawn_share"]
<1>0. /\ e \in Process /\ Local(e) /\ e.pc = "spawn_close" /\ e.fd \in Fd
      /\ env' = [env EXCEPT ![p] = n] /\ UNCHANGED <<held, failed, early>>
  BY One, Fields DEF Local, spawn_close, Become, At
<1>1. /\ k \in Process /\ k.fds[e.fd] = None /\ (\A d \in Fd \ {e.fd} : k.fds[d] = e.fds[d])
      /\ k.child = e.child /\ k.right = e.right /\ k.seg = e.seg /\ k.of = e.of
  BY <1>0, Closing
<1> HIDE DEF k
<1>2. /\ n \in Process /\ n.pc = "spawn_share" /\ n.fds = k.fds /\ n.child = e.child
      /\ n.right = e.right /\ n.seg = e.seg /\ n.of = e.of
  <2>1. "spawn_share" \in Pcs
    BY DEF Pcs
  <2> QED BY <1>1, <2>1, Going
<1>3. held' \in [Pipe -> 0..BY2PIPE] /\ failed' \in 0..MaxFail /\ early' \in BOOLEAN /\ (~early' => ~early)
  BY <1>0 DEF Inv, Typed
<1> HIDE DEF n
<1>4. ~RightSide(e) /\ ~RightSide(n) /\ ~LeftSide(n) /\ ~Parser(n)
  BY <1>0, <1>2 DEF RightSide, LeftSide, Parser
<1>5. EndsOK(n) /\ Kept(e, n)
  <2>1. \A d \in Fd : n.fds[d] \in {e.fds[d], None, File}
    BY <1>0, <1>1, <1>2
  <2> QED BY <1>0, <1>2, <1>4, <2>1, SubEnds DEF Local
<1>6. e.fd \notin {0, 1} /\ Opens(e, {0, 1, e.fd})
  BY <1>0 DEF Local, Shape
<1>7. Shape(n)
  <2>1. Opens(n, {0, 1})
    BY <1>0, <1>1, <1>2, <1>6 DEF Opens
  <2> QED BY <1>2, <2>1 DEF Shape, WithPipe
<1>8. Wiring(n)
  <2>1. n.fds[0] = e.fds[0] /\ n.fds[1] = e.fds[1]
    BY <1>1, <1>2, <1>6, Constants
  <2> QED BY <1>0, <1>2, <1>4, <2>1 DEF Local, Wiring, WantIn, WantOut
<1>9. Moves(e, n)
  BY <1>0, <1>2, <1>4, <1>5, <1>7, <1>8 DEF Moves, Kin, Local, Spawning
<1>10. \A q \in Proc : Awaits(e, q) => Awaits(n, q)
  BY <1>0, <1>2 DEF Awaits, AwaitsChild, AwaitsRight
<1> QED BY <1>0, <1>3, <1>9, <1>10, Solo

\* fd_alloc leaves what is open alone.
LEMMA Allocates ==
  ASSUME NEW e, FreeFds(e) # {}
  PROVE  /\ fd_alloc(e) \in Fd /\ e.fds[fd_alloc(e)] = None /\ fd_alloc(e) \in 0..(NFd - 2)
         /\ \A d \in 0..(NFd - 2) : e.fds[d] = None => fd_alloc(e) <= d
<1>1. FreeFds(e) \subseteq Nat
  BY DEF FreeFds
<1>2. fd_alloc(e) \in FreeFds(e) /\ \A d \in FreeFds(e) : fd_alloc(e) <= d
  BY <1>1, LeastIn DEF fd_alloc
<1> QED BY <1>2, Constants DEF FreeFds, Fd

LEMMA SpawnedStep ==
  ASSUME Inv, NEW p \in Proc, At(p, "spawn"), FreeFds(env[p]) # {}, Fresh # {},
         UNCHANGED <<held, failed, early>>,
         env' = [env EXCEPT
                 ![p] = [env[p] EXCEPT !.pc = "spawn_close", !.child = NewProc,
                                       !.fd = fd_alloc(env[p]), !.fds[fd_alloc(env[p])] = File],
                 ![NewProc] = [Unborn EXCEPT !.pc = "embryo", !.argv = env[p].argv,
                                             !.seg = env[p].seg, !.of = env[p].of, !.todo = Len0]]
  PROVE  Inv'
<1> DEFINE c == NewProc
           e == env[p]
           fd == fd_alloc(e)
           n == [e EXCEPT !.pc = "spawn_close", !.child = c, !.fd = fd, !.fds[fd] = File]
           m == [Unborn EXCEPT !.pc = "embryo", !.argv = e.argv, !.seg = e.seg,
                               !.of = e.of, !.todo = Len0]
<1>0. /\ e \in Process /\ Local(e) /\ e.pc = "spawn" /\ c \in Proc
      /\ env' = [env EXCEPT ![p] = n, ![c] = m]
  BY One, Newest DEF Local, At
<1>1. fd \in Fd /\ e.fds[fd] = None /\ Opens(e, {0, 1}) /\ fd \notin {0, 1}
  <2>1. fd \in Fd /\ e.fds[fd] = None
    BY Allocates
  <2>2. Opens(e, {0, 1})
    BY <1>0 DEF Local, Shape
  <2> QED BY <2>1, <2>2 DEF Opens
<1> HIDE DEF c, fd
<1>2. /\ n \in Process /\ n.pc = "spawn_close" /\ n.fds = [e.fds EXCEPT ![fd] = File]
      /\ n.child = c /\ n.right = e.right /\ n.seg = e.seg /\ n.of = e.of /\ n.fd = fd
  BY <1>0, <1>1, Objects DEF Process, Pcs
<1>3. /\ m \in Process /\ m.pc = "embryo" /\ m.fds = Closed /\ m.child = 0
      /\ m.right = 0 /\ m.seg = e.seg /\ m.of = e.of
  BY <1>0, UnbornProcess, Constants, Fields DEF Process, Pcs
<1> HIDE DEF n, m
<1>4. n.fds[fd] = File /\ \A d \in Fd \ {fd} : n.fds[d] = e.fds[d]
  BY <1>0, <1>1, <1>2, Fields
<1>5. ~RightSide(e) /\ ~RightSide(n) /\ ~LeftSide(n) /\ ~Parser(n) /\ ~Parser(m)
      /\ ~RightSide(m) /\ ~LeftSide(m)
  BY <1>0, <1>2, <1>3 DEF RightSide, LeftSide, Parser
<1>6. EndsOK(n) /\ Kept(e, n)
  <2>1. \A d \in Fd : n.fds[d] \in {e.fds[d], None, File}
    BY <1>4
  <2> QED BY <1>0, <1>2, <1>5, <2>1, SubEnds DEF Local
<1>7. Shape(n)
  <2>1. Opens(n, {0, 1, fd})
    BY <1>1, <1>4, Objects DEF Opens
  <2> QED BY <1>1, <1>2, <1>4, <2>1 DEF Shape, WithPipe
<1>8. Wiring(n)
  <2>1. n.fds[0] = e.fds[0] /\ n.fds[1] = e.fds[1]
    BY <1>1, <1>4, Constants
  <2> QED BY <1>0, <1>2, <1>5, <2>1 DEF Local, Wiring, WantIn, WantOut
<1>9. \A d \in Fd : m.fds[d] = None /\ ~IsEnd(m, d)
  BY <1>3, Objects DEF Closed, IsEnd
<1>10. EndsOK(m) /\ Kept(e, m) /\ Shape(m) /\ Wiring(m)
  <2>1. EndsOK(m) /\ Kept(e, m)
    BY <1>9 DEF EndsOK, Kept
  <2>2. Shape(m)
    BY <1>3, <1>9 DEF Shape, WithPipe, Opens
  <2>3. Wiring(m)
    BY <1>3, <1>5 DEF Wiring
  <2> QED BY <2>1, <2>2, <2>3
<1>11. Awaits(n, c) /\ \A q \in Proc : Awaits(e, q) => Awaits(n, q)
  BY <1>0, <1>2 DEF Awaits, AwaitsChild, AwaitsRight
<1>12. m.seg \in {e.seg, e.seg + 1} /\ m.seg <= Bars(m.of, Len(m.of))
  <2>1. p # Sh
    BY <1>0 DEF Inv, Family
  <2> QED BY <1>0, <1>3, <2>1 DEF Inv, Family
<1>13. Bears(e, n, m, c)
  BY <1>0, <1>2, <1>3, <1>5, <1>6, <1>7, <1>8, <1>10, <1>11, <1>12 DEF Bears, Local, Spawning
<1>14. failed' \in 0..MaxFail
  BY DEF Inv, Typed
<1> QED BY <1>0, <1>13, <1>14, Birth DEF c

LEMMA SpawnStep ==
  ASSUME Inv, NEW p \in Proc, spawn(p)
  PROVE  Inv'
<1>1. At(p, "spawn") /\ UNCHANGED <<held, early>>
  BY DEF spawn
<1>2. CASE (Succeeds \/ Fails) /\ Become(p, [env[p] EXCEPT !.pc = "close_all", !.child = 0])
  <2>1. failed' \in 0..MaxFail
    BY <1>2, Unfailed
  <2> QED BY <1>1, <1>2, <2>1, NoSpawnStep
<1>3. CASE /\ Exists(env[p]) /\ Succeeds /\ Fresh # {}
           /\ env' = [env EXCEPT
                 ![p] = [env[p] EXCEPT !.pc = "spawn_close", !.child = NewProc,
                                       !.fd = fd_alloc(env[p]), !.fds[fd_alloc(env[p])] = File],
                 ![NewProc] = [Unborn EXCEPT !.pc = "embryo", !.argv = env[p].argv,
                                             !.seg = env[p].seg, !.of = env[p].of, !.todo = Len0]]
  BY <1>1, <1>3, SpawnedStep DEF Exists, Succeeds
<1> QED BY <1>2, <1>3 DEF spawn

LEMMA ShareStep ==
  ASSUME Inv, NEW p \in Proc, spawn_share(p)
  PROVE  Inv'
<1> DEFINE c == env[p].child
           e == env[p]
           n == [e EXCEPT !.pc = "close_all"]
           m == [env[c] EXCEPT !.fds = e.fds, !.pc = "run"]
           E == env
           F == env'
<1>0. /\ e \in Process /\ Local(e) /\ e.pc = "spawn_share" /\ c \in Proc /\ p # Sh
      /\ env[c].pc = "embryo" /\ env[c].seg = e.seg /\ p # c /\ env[c] \in Process /\ c # Sh
  BY One, Fields, Constants DEF Local, spawn_share, At, Inv, Loading, Spawning, Family
<1>1. /\ n \in Process /\ n.pc = "close_all" /\ n.fds = e.fds /\ n.child = e.child
      /\ n.right = e.right /\ n.seg = e.seg /\ n.of = e.of
  BY <1>0 DEF Process, Pcs
<1>2. /\ m \in Process /\ m.pc = "run" /\ m.fds = e.fds /\ m.child = env[c].child
      /\ m.right = env[c].right /\ m.seg = e.seg /\ m.of = e.of /\ m.of = env[c].of
  <2>1. env[c].of = e.of
    BY <1>0 DEF Inv, Family
  <2> HIDE DEF c
  <2> QED BY <1>0, <2>1 DEF Process, Pcs
<1>3. /\ env' = [env EXCEPT ![p] = n, ![c] = m] /\ UNCHANGED <<held, failed, early>>
      /\ env \in [Proc -> Process]
  <2>1. /\ env' = [env EXCEPT ![p].pc = "close_all", ![c].fds = e.fds, ![c].pc = "run"]
        /\ env \in [Proc -> Process] /\ UNCHANGED <<held, failed, early>>
    BY DEF spawn_share, Inv, Typed
  <2> HIDE DEF c
  <2> QED BY <1>0, <2>1
<1>4. /\ F[p] = n /\ F[c] = m /\ (\A q \in Proc : q \notin {p, c} => F[q] = E[q])
      /\ E[p] = e /\ \A q \in Proc : E[q] \in Process
  BY <1>0, <1>3
<1>5. Typed'
  BY <1>0, <1>1, <1>2, <1>3 DEF Inv, Typed
<1>6. Links(E) /\ Top(E) /\ Numbered(E) /\ Family(E) /\ Loading(E) /\ \A q \in Proc : Local(E[q])
  BY DEF Inv
<1> HIDE DEF n, m, F, E, c
<1>7. ~RightSide(e) /\ ~RightSide(n) /\ ~LeftSide(n) /\ ~Parser(n) /\ ~Parser(m)
      /\ ~RightSide(m) /\ ~LeftSide(m)
  BY <1>0, <1>1, <1>2 DEF RightSide, LeftSide, Parser
<1>8. EndsOK(n) /\ Kept(e, n) /\ EndsOK(m) /\ Kept(e, m)
  BY <1>0, <1>1, <1>2, <1>7, SubEnds DEF Local
<1>9. Shape(n) /\ Shape(m)
  BY <1>0, <1>1, <1>2 DEF Local, Shape, WithPipe, Opens
<1>10. Wiring(n) /\ Wiring(m)
  <2>1. Wiring(n)
    BY <1>1, <1>7 DEF Wiring
  <2>2. Wiring(m)
    BY <1>0, <1>2, <1>7 DEF Local, Wiring, WantIn, WantOut
  <2> QED BY <2>1, <2>2
<1>11. \A q \in Proc : Local(F[q])
  BY <1>4, <1>6, <1>8, <1>9, <1>10 DEF Local
<1>12. Derived(E, F)
  <2> SUFFICES ASSUME NEW y \in Proc, NEW d \in Fd, IsEnd(F[y], d)
               PROVE  \E x \in Proc, b \in Fd : Came(E[x], b, F[y], d)
    BY DEF Derived
  <2>1. CASE y \in {p, c}
    BY <1>4, <1>8, <2>1 DEF Kept
  <2>2. CASE y \notin {p, c}
    BY <1>4, <2>2 DEF Came
  <2> QED BY <2>1, <2>2
<1>13. Links(F)
  BY <1>6, <1>12, LinksDerived
<1>14. Top(F)
  <2>1. \A q \in Proc : Parser(F[q]) => F[q] = E[q]
    BY <1>4, <1>7
  <2>2. ASSUME NEW q \in Proc, Parser(F[q])
        PROVE  /\ \A r \in Proc : Parser(F[r]) => r = q
               /\ \A r \in Proc, d \in Fd : IsEnd(F[r], d) => Link(F[r], d) <= Limit(F[q])
    <3>1. \A r \in Proc, d \in Fd : IsEnd(E[r], d) => Link(E[r], d) <= Limit(F[q])
      BY <1>6, <2>1, <2>2 DEF Top
    <3>2. \A r \in Proc, d \in Fd : IsEnd(F[r], d) => Link(F[r], d) <= Limit(F[q])
      BY <1>12, <3>1, BoundDerived
    <3> QED BY <1>6, <2>1, <2>2, <3>2 DEF Top
  <2> QED BY <2>2 DEF Top
<1>15. \A q \in Proc : /\ F[q].seg = E[q].seg /\ F[q].of = E[q].of /\ F[q].right = E[q].right
                       /\ F[q].child = E[q].child /\ (F[q].pc = "none" <=> E[q].pc = "none")
                       /\ E[q].child \in Proc \union {0} /\ E[q].right \in Proc \union {0}
  <2>1. E[c].pc = "embryo" /\ E[c].seg = m.seg /\ E[c].of = m.of /\ E[c].right = m.right
        /\ E[c].child = m.child
    BY <1>0, <1>2 DEF E
  <2> QED BY <1>0, <1>1, <1>2, <1>4, <2>1, Fields, ZenonT(60)
<1>16. Numbered(F)
  BY <1>6, <1>15 DEF Numbered
<1>17. Family(F)
  <2>1. F[Sh] = E[Sh] /\ Sh \in Proc
    BY <1>0, <1>4, Constants
  <2>2. \A q \in Proc \ {Sh} : F[q].pc \notin {"prompt", "main_wait"}
    BY <1>1, <1>2, <1>4, <1>6 DEF Family
  <2> QED BY <1>6, <1>15, <2>1, <2>2 DEF Family
<1>18. Loading(F)
  <2>1. E[p].pc \in Spawning /\ E[p].child = c
    BY <1>0, <1>4 DEF Spawning, c
  <2>2. ASSUME NEW q \in Proc, F[q].pc \in Spawning
        PROVE  /\ F[q] = E[q] /\ q # p /\ E[q].child # 0 /\ F[E[q].child] = E[E[q].child]
    <3>1. q # p /\ q # c
      BY <1>1, <1>2, <1>4, <2>2 DEF Spawning
    <3>2. F[q] = E[q] /\ E[q].child # c
      BY <1>4, <1>6, <2>1, <2>2, <3>1 DEF Loading
    <3>3. E[q].child \in Proc /\ E[E[q].child].pc = "embryo"
      BY <1>6, <1>15, <2>2, <3>2 DEF Loading
    <3>4. E[q].child # p
      BY <1>0, <1>4, <3>3
    <3> QED BY <1>4, <3>1, <3>2, <3>3, <3>4, Constants
  <2> QED BY <1>6, <2>2 DEF Loading
<1>19. ASSUME ~early'
       PROVE  Tree(F)
  <2>1. Tree(E)
    BY <1>3, <1>19 DEF Inv, E
  <2>2. \A q : (Awaits(e, q) => Awaits(n, q)) /\ ~Awaits(env[c], q)
    BY <1>0, <1>1 DEF Awaits, AwaitsChild, AwaitsRight
  <2>3. \A r \in Proc : \A q : Awaits(E[r], q) => Awaits(F[r], q)
    BY <1>4, <2>2 DEF E
  <2>4. \A q \in Proc : F[q].pc \notin {"none", "dead"} => E[q].pc \notin {"none", "dead"}
    BY <1>0, <1>4 DEF E
  <2> QED BY <2>1, <2>3, <2>4 DEF Tree
<1> QED BY <1>5, <1>11, <1>13, <1>14, <1>16, <1>17, <1>18, <1>19 DEF Inv, F

-----------------------------------------------------------------------------
(***************************************************************************)
(* parsecmd: one token more.                                               *)
(***************************************************************************)

\* The next token stands behind those that are parsed.
LEMMA Token ==
  ASSUME NEW e \in Process, Suffix(e), e.line # <<>>,
         NEW n \in Process, n.line = Tail(e.line), n.of = e.of
  PROVE  /\ Pos(e) \in Nat /\ Pos(n) = Pos(e) + 1 /\ Pos(n) <= Len(e.of) /\ Len(e.of) \in Nat
         /\ e.of[Pos(e) + 1] = Head(e.line) /\ Len(n.line) <= Len(n.of)
         /\ \A j \in 1..Len(n.line) : n.line[j] = n.of[Pos(n) + j]
<1>1. e.line \in Seq(STRING) /\ e.of \in Seq(STRING)
  BY DEF Process
<1>2. Len(e.line) \in Nat /\ Len(e.line) > 0 /\ Len(e.of) \in Nat /\ Head(e.line) = e.line[1]
  BY <1>1
<1>3. Len(n.line) = Len(e.line) - 1 /\ \A j \in 1..Len(n.line) : n.line[j] = e.line[j + 1]
  BY <1>1, <1>2
<1>4. Len(e.line) <= Len(e.of) /\ \A j \in 1..Len(e.line) : e.line[j] = e.of[Pos(e) + j]
  BY DEF Suffix
<1>5. Pos(e) \in Nat /\ Pos(n) = Pos(e) + 1 /\ Pos(n) <= Len(e.of)
  <2> DEFINE a == Len(e.of)
             b == Len(e.line)
  <2>1. Pos(e) = a - b /\ Pos(n) = a - (b - 1)
    BY <1>3 DEF Pos
  <2>2. a \in Nat /\ b \in Nat /\ b > 0 /\ b <= a
    BY <1>2, <1>4
  <2> HIDE DEF a, b
  <2>3. Pos(e) \in Nat /\ Pos(n) = Pos(e) + 1 /\ Pos(n) <= a
    BY <2>1, <2>2
  <2> QED BY <2>3 DEF a
<1>6. e.of[Pos(e) + 1] = Head(e.line)
  BY <1>2, <1>4
<1>7. ASSUME NEW j \in 1..Len(n.line)
      PROVE  n.line[j] = n.of[Pos(n) + j]
  <2>1. j + 1 \in 1..Len(e.line) /\ Pos(n) + j = Pos(e) + (j + 1)
    BY <1>2, <1>3, <1>5
  <2>2. e.line[j + 1] = e.of[Pos(e) + (j + 1)]
    BY <1>4, <2>1
  <2> QED BY <1>3, <2>1, <2>2
<1> QED BY <1>2, <1>3, <1>4, <1>5, <1>6, <1>7

\* A token other than '|'.
LEMMA SameCommand ==
  ASSUME NEW e \in Process, Suffix(e), e.line # <<>>, Head(e.line) # "|",
         NEW n \in Process, n.line = Tail(e.line), n.of = e.of, n.seg = e.seg
  PROVE  /\ Suffix(n)
         /\ \A t : Seen(n, t) <=> Seen(e, t) \/ Head(e.line) = t
         /\ \A t : SeenAny(n, t) <=> SeenAny(e, t) \/ Head(e.line) = t
<1> DEFINE i == Pos(e)
           l == e.of
<1>1. /\ i \in Nat /\ Pos(n) = i + 1 /\ l[i + 1] = Head(e.line) /\ Len(n.line) <= Len(n.of)
      /\ \A j \in 1..Len(n.line) : n.line[j] = n.of[Pos(n) + j]
  BY Token
<1>2. Bars(l, i) = e.seg
  BY DEF Suffix
<1> HIDE DEF i, l
<1>3. Bars(l, i + 1) = e.seg
  BY <1>1, <1>2, BarsNext
<1>4. \A j : j \in 1..(i + 1) <=> j \in 1..i \/ j = i + 1
  BY <1>1
<1>5. Suffix(n)
  BY <1>1, <1>3 DEF Suffix, l
<1>6. ASSUME NEW t
      PROVE  Seen(n, t) <=> Seen(e, t) \/ Head(e.line) = t
  <2>1. Seen(n, t) <=> \E j \in 1..(i + 1) : l[j] = t /\ Bars(l, j) = e.seg
    BY <1>1 DEF Seen, l
  <2>2. Seen(e, t) <=> \E j \in 1..i : l[j] = t /\ Bars(l, j) = e.seg
    BY DEF Seen, l, i
  <2> QED BY <1>1, <1>3, <1>4, <2>1, <2>2
<1>7. ASSUME NEW t
      PROVE  SeenAny(n, t) <=> SeenAny(e, t) \/ Head(e.line) = t
  <2>1. SeenAny(n, t) <=> \E j \in 1..(i + 1) : l[j] = t
    BY <1>1 DEF SeenAny, l
  <2>2. SeenAny(e, t) <=> \E j \in 1..i : l[j] = t
    BY DEF SeenAny, l, i
  <2> QED BY <1>1, <1>4, <2>1, <2>2
<1> QED BY <1>5, <1>6, <1>7

\* '|' begins the next command, and all of the command before it has been seen.
LEMMA NextCommand ==
  ASSUME NEW e \in Process, Suffix(e), e.line # <<>>, Head(e.line) = "|",
         NEW n \in Process, n.line = Tail(e.line), n.of = e.of, n.seg = e.seg + 1
  PROVE  /\ Suffix(n) /\ ~Seen(n, "<") /\ (SeenAny(n, ">") <=> SeenAny(e, ">"))
         /\ Has(e.of, e.seg, "<") <=> Seen(e, "<")
         /\ Bars(e.of, Len(e.of)) >= e.seg + 1
<1> DEFINE i == Pos(e)
           l == e.of
           k == Len(e.of)
<1>1. /\ i \in Nat /\ Pos(n) = i + 1 /\ l[i + 1] = Head(e.line) /\ Len(n.line) <= Len(n.of)
      /\ \A j \in 1..Len(n.line) : n.line[j] = n.of[Pos(n) + j]
      /\ i + 1 <= k /\ k \in Nat
  BY Token
<1>2. Bars(l, i) = e.seg /\ e.seg \in Nat
  BY Fields DEF Suffix
<1> HIDE DEF i, l, k
<1>3. Bars(l, i + 1) = e.seg + 1
  BY <1>1, <1>2, BarsNext
<1>4. \A j : j \in 1..(i + 1) <=> j \in 1..i \/ j = i + 1
  BY <1>1
<1>5. Suffix(n)
  BY <1>1, <1>3 DEF Suffix, l
<1>6. \A j \in 1..i : Bars(l, j) <= e.seg /\ Bars(l, j) \in Nat
  BY <1>1, <1>2, BarsGrow, BarSets
<1>7. ~Seen(n, "<")
  <2>1. Seen(n, "<") <=> \E j \in 1..(i + 1) : l[j] = "<" /\ Bars(l, j) = e.seg + 1
    BY <1>1 DEF Seen, l
  <2>2. \A j \in 1..i : Bars(l, j) # e.seg + 1
    BY <1>2, <1>6
  <2> QED BY <1>1, <1>4, <2>1, <2>2
<1>8. SeenAny(n, ">") <=> SeenAny(e, ">")
  <2>1. SeenAny(n, ">") <=> \E j \in 1..(i + 1) : l[j] = ">"
    BY <1>1 DEF SeenAny, l
  <2>2. SeenAny(e, ">") <=> \E j \in 1..i : l[j] = ">"
    BY DEF SeenAny, l, i
  <2> QED BY <1>1, <1>4, <2>1, <2>2
<1>9. \A j \in 1..k : j \in 1..i \/ (Bars(l, j) >= e.seg + 1 /\ Bars(l, j) \in Nat)
  <2> SUFFICES ASSUME NEW j \in 1..k, j \notin 1..i
               PROVE  Bars(l, j) >= e.seg + 1 /\ Bars(l, j) \in Nat
    OBVIOUS
  <2>1. j \in Nat /\ i + 1 \in Nat /\ i + 1 <= j
    BY <1>1
  <2>2. Bars(l, i + 1) <= Bars(l, j) /\ Bars(l, j) \in Nat
    BY <2>1, BarsGrow, BarSets
  <2> QED BY <1>2, <1>3, <2>2
<1>10. Has(l, e.seg, "<") <=> Seen(e, "<")
  <2>1. Has(l, e.seg, "<") <=> \E j \in 1..k : l[j] = "<" /\ Bars(l, j) = e.seg
    BY DEF Has, k, l
  <2>2. Seen(e, "<") <=> \E j \in 1..i : l[j] = "<" /\ Bars(l, j) = e.seg
    BY DEF Seen, l, i
  <2>3. \A j \in 1..k : Bars(l, j) = e.seg => j \in 1..i
    BY <1>2, <1>9
  <2>4. 1..i \subseteq 1..k
    BY <1>1
  <2> QED BY <2>1, <2>2, <2>3, <2>4
<1>11. Bars(l, k) >= e.seg + 1
  <2>1. Bars(l, i + 1) <= Bars(l, k) /\ Bars(l, k) \in Nat
    BY <1>1, BarsGrow, BarSets
  <2> QED BY <1>2, <1>3, <2>1
<1> QED BY <1>5, <1>7, <1>8, <1>10, <1>11 DEF l, k

\* At the end of the line everything has been seen.
LEMMA LastCommand ==
  ASSUME NEW e \in Process, Suffix(e), e.line = <<>>
  PROVE  /\ Bars(e.of, Len(e.of)) = e.seg
         /\ Has(e.of, e.seg, "<") <=> Seen(e, "<")
         /\ (\E k \in 0..e.seg : Has(e.of, k, ">")) <=> SeenAny(e, ">")
<1> DEFINE l == e.of
           i == Len(e.of)
<1>1. i \in Nat /\ Pos(e) = i /\ e.seg \in Nat
  BY DEF Process, Pos
<1>2. Bars(l, i) = e.seg
  BY <1>1 DEF Suffix
<1>3. Has(l, e.seg, "<") <=> Seen(e, "<")
  BY <1>1 DEF Has, Seen
<1>4. \A j \in 1..i : Bars(l, j) \in 0..e.seg
  <2> HIDE DEF l, i
  <2> TAKE j \in 1..i
  <2>1. j \in Nat /\ j <= i
    BY <1>1
  <2>2. Bars(l, j) <= Bars(l, i) /\ Bars(l, j) \in Nat
    BY <1>1, <2>1, BarsGrow, BarSets
  <2> QED BY <1>1, <1>2, <2>2
<1>5. (\E k \in 0..e.seg : Has(l, k, ">")) <=> SeenAny(e, ">")
  <2>1. SeenAny(e, ">") <=> \E j \in 1..i : l[j] = ">"
    BY <1>1 DEF SeenAny
  <2>2. \A k : Has(l, k, ">") <=> \E j \in 1..i : l[j] = ">" /\ Bars(l, j) = k
    BY DEF Has
  <2> HIDE DEF l, i
  <2> QED BY <1>4, <2>1, <2>2
<1> QED BY <1>2, <1>3, <1>5

LEMMA FirstToken ==
  ASSUME NEW s \in Seq(STRING), s # <<>>
  PROVE  Tail(s) \in Seq(STRING) /\ Head(s) \in STRING /\ Len(s) > 0 /\ Len(Tail(s)) = Len(s) - 1
OBVIOUS

LEMMA TwoTokens ==
  ASSUME NEW s \in Seq(STRING), Len(s) > 1
  PROVE  /\ Tail(s) \in Seq(STRING) /\ Tail(s) # <<>> /\ Head(Tail(s)) = s[2]
         /\ SubSeq(s, 3, Len(s)) = Tail(Tail(s)) /\ SubSeq(s, 3, Len(s)) \in Seq(STRING)
<1>1. s # <<>> /\ Len(s) \in Nat /\ 2 \in 1..Len(s) /\ Len(s) \in 2..Len(s)
  OBVIOUS
<1>2. Tail(s) \in Seq(STRING) /\ Len(Tail(s)) = Len(s) - 1 /\ Tail(s) = SubSeq(s, 2, Len(s))
  BY <1>1, FirstToken, TailIsSubSeq
<1>3. Head(SubSeq(s, 2, Len(s))) = s[2] /\ Tail(SubSeq(s, 2, Len(s))) = SubSeq(s, 2 + 1, Len(s))
  BY <1>1, HeadTailOfSubSeq
<1>4. Tail(s) # <<>>
  <2>1. Len(<<>>) = 0
    OBVIOUS
  <2>2. \A k \in Nat : k > 1 => k - 1 # 0
    OBVIOUS
  <2>3. Len(Tail(s)) # 0
    BY <1>1, <1>2, <2>2, Zenon
  <2> QED BY <2>1, <2>3, Zenon
<1>5. Tail(Tail(s)) \in Seq(STRING)
  BY <1>2, <1>4, FirstToken
<1> QED BY <1>2, <1>3, <1>4, <1>5

\* The parser goes on with its command.
LEMMA ParseMoves ==
  ASSUME NEW e \in Process, Local(e), e.pc = "parse", NEW n \in Process, n.pc = "parse",
         Opens(n, {0, 1}), \A d \in Fd : n.fds[d] \in {e.fds[d], None, File},
         n.child = e.child, n.right = e.right, n.seg = e.seg, n.of = e.of, Suffix(n),
         n.fds[0].kind = IF Seen(n, "<") THEN "file" ELSE IF n.seg = 0 THEN "cons" ELSE "r",
         n.fds[1].kind = IF SeenAny(n, ">") THEN "file" ELSE "cons"
  PROVE  Moves(e, n) /\ \A q : ~Awaits(e, q)
<1>1. ~RightSide(n) /\ ~RightSide(e) /\ ~LeftSide(n) /\ Parser(e) /\ Parser(n)
  BY DEF RightSide, LeftSide, Parser
<1>2. EndsOK(n) /\ Kept(e, n)
  BY <1>1, SubEnds DEF Local
<1>3. Shape(n)
  BY DEF Shape, WithPipe
<1>4. Wiring(n)
  <2>1. n.child = 0
    BY <1>1 DEF Local, Wiring
  <2> QED BY <1>1, <2>1 DEF Wiring
<1>5. Limit(n) = Limit(e)
  BY DEF Limit
<1>6. \A q : ~Awaits(e, q)
  BY DEF Awaits, AwaitsChild, AwaitsRight
<1> QED BY <1>1, <1>2, <1>3, <1>4, <1>5, <1>6 DEF Moves, Kin, Local, Spawning

LEMMA ParseStep ==
  ASSUME Inv, NEW p \in Proc, NEW n, env[p].pc = "parse", n.pc = "parse",
         Moves(env[p], n) /\ \A q : ~Awaits(env[p], q),
         env' = [env EXCEPT ![p] = n], UNCHANGED <<held, failed, early>>
  PROVE  Inv'
<1>1. held' \in [Pipe -> 0..BY2PIPE] /\ failed' \in 0..MaxFail /\ early' \in BOOLEAN /\ (~early' => ~early)
  BY DEF Inv, Typed
<1> QED BY <1>1, Solo

\* What is known of a process at parse.
LEMMA AtParse ==
  ASSUME Inv, NEW p \in Proc, At(p, "parse")
  PROVE  LET e == env[p]
         IN  /\ e \in Process /\ Local(e) /\ e.pc = "parse" /\ Opens(e, {0, 1}) /\ Suffix(e)
             /\ e.fds \in [Fd -> Obj] /\ e.line \in Seq(STRING) /\ e.argv \in Seq(STRING)
             /\ e.fds[0].kind = (IF Seen(e, "<") THEN "file" ELSE IF e.seg = 0 THEN "cons" ELSE "r")
             /\ e.fds[1].kind = (IF SeenAny(e, ">") THEN "file" ELSE "cons")
<1> DEFINE e == env[p]
<1>1. e \in Process /\ Local(e) /\ e.pc = "parse" /\ Parser(e)
  BY One DEF At, Local, Parser
<1> HIDE DEF e
<1>2. /\ Opens(e, {0, 1}) /\ Suffix(e)
      /\ e.fds[0].kind = (IF Seen(e, "<") THEN "file" ELSE IF e.seg = 0 THEN "cons" ELSE "r")
      /\ e.fds[1].kind = (IF SeenAny(e, ">") THEN "file" ELSE "cons")
  BY <1>1 DEF Local, Shape, Wiring
<1> QED BY <1>1, <1>2, Fields DEF e

LEMMA ParseFails ==
  ASSUME Inv, NEW p \in Proc, At(p, "parse"), Become(p, [env[p] EXCEPT !.pc = "exit"]),
         failed' \in 0..MaxFail, UNCHANGED <<held, early>>
  PROVE  Inv'
<1>1. Goto(p, "exit")
  BY DEF Goto
<1>2. early' \in BOOLEAN /\ (~early' => ~early)
  BY DEF Inv, Typed
<1> QED BY <1>1, <1>2, ExitStep DEF At

\* A word, and a symbol that has no case.
LEMMA TokenStep ==
  ASSUME Inv, NEW p \in Proc, At(p, "parse"), env[p].line # <<>>,
         Head(env[p].line) \notin {"<", ">", "|"},
         NEW n \in Process, n.line = Tail(env[p].line), n.pc = env[p].pc, n.fds = env[p].fds,
         n.child = env[p].child, n.right = env[p].right, n.seg = env[p].seg, n.of = env[p].of,
         env' = [env EXCEPT ![p] = n], UNCHANGED <<held, failed, early>>
  PROVE  Inv'
<1> DEFINE e == env[p]
<1>1. /\ e \in Process /\ Local(e) /\ e.pc = "parse" /\ Opens(e, {0, 1}) /\ Suffix(e)
      /\ e.fds[0].kind = (IF Seen(e, "<") THEN "file" ELSE IF e.seg = 0 THEN "cons" ELSE "r")
      /\ e.fds[1].kind = (IF SeenAny(e, ">") THEN "file" ELSE "cons")
  BY AtParse
<1>2. /\ Suffix(n) /\ (Seen(n, "<") <=> Seen(e, "<")) /\ (SeenAny(n, ">") <=> SeenAny(e, ">"))
  BY <1>1, SameCommand
<1>3. /\ n.fds[0].kind = (IF Seen(n, "<") THEN "file" ELSE IF n.seg = 0 THEN "cons" ELSE "r")
      /\ n.fds[1].kind = (IF SeenAny(n, ">") THEN "file" ELSE "cons")
      /\ Opens(n, {0, 1})
  BY <1>1, <1>2 DEF Opens
<1>4. Moves(e, n) /\ \A q : ~Awaits(e, q)
  BY <1>1, <1>2, <1>3, ParseMoves
<1> QED BY <1>1, <1>4, ParseStep

LEMMA WordStep ==
  ASSUME Inv, NEW p \in Proc, At(p, "parse"), parse_word(p)
  PROVE  Inv'
<1> DEFINE e == env[p]
           n == [e EXCEPT !.line = Tail(@), !.argv = Append(@, Head(e.line))]
<1>0. /\ e.line # <<>> /\ Head(e.line) \notin Symbols /\ UNCHANGED <<held, failed, early>>
      /\ Become(p, [e EXCEPT !.pc = "exit"]) \/ Become(p, n)
  BY DEF parse_word
<1>1. CASE Become(p, [e EXCEPT !.pc = "exit"])
  <2>1. failed' \in 0..MaxFail
    BY <1>0 DEF Inv, Typed
  <2> QED BY <1>0, <1>1, <2>1, ParseFails
<1>2. CASE Become(p, n)
  <2>1. e \in Process /\ e.line \in Seq(STRING) /\ e.argv \in Seq(STRING)
    BY AtParse
  <2>2. Tail(e.line) \in Seq(STRING) /\ Head(e.line) \in STRING
    <3> HIDE DEF e
    <3> QED BY <1>0, <2>1, FirstToken
  <2>3. Append(e.argv, Head(e.line)) \in Seq(STRING)
    BY <2>1, <2>2
  <2>4. /\ n \in Process /\ n.line = Tail(e.line) /\ n.pc = e.pc /\ n.fds = e.fds
        /\ n.child = e.child /\ n.right = e.right /\ n.seg = e.seg /\ n.of = e.of
    BY <2>1, <2>2, <2>3 DEF Process
  <2>5. env' = [env EXCEPT ![p] = n] /\ Head(e.line) \notin {"<", ">", "|"}
    BY <1>0, <1>2 DEF Become, Symbols
  <2> HIDE DEF n
  <2> QED BY <1>0, <2>4, <2>5, TokenStep
<1> QED BY <1>0, <1>1, <1>2

LEMMA OtherStep ==
  ASSUME Inv, NEW p \in Proc, At(p, "parse"), parse_other(p)
  PROVE  Inv'
<1> DEFINE e == env[p]
           n == [e EXCEPT !.line = Tail(@)]
<1>0. /\ e.line # <<>> /\ Head(e.line) \notin {"<", ">", "|"} /\ UNCHANGED <<held, failed, early>>
      /\ env' = [env EXCEPT ![p] = n]
  BY DEF parse_other, Become
<1>1. e \in Process /\ e.line \in Seq(STRING)
  BY AtParse
<1>2. Tail(e.line) \in Seq(STRING)
  <2> HIDE DEF e
  <2> QED BY <1>0, <1>1, FirstToken
<1>3. /\ n \in Process /\ n.line = Tail(e.line) /\ n.pc = e.pc /\ n.fds = e.fds
      /\ n.child = e.child /\ n.right = e.right /\ n.seg = e.seg /\ n.of = e.of
  BY <1>1, <1>2 DEF Process
<1> HIDE DEF n
<1> QED BY <1>0, <1>3, TokenStep

LEMMA RedirectStep ==
  ASSUME Inv, NEW p \in Proc, At(p, "parse"), parse_redirect(p)
  PROVE  Inv'
<1> DEFINE e == env[p]
           t == Head(e.line)
           onto == IF t = "<" THEN 0 ELSE 1
           fd == fd_alloc(e)
           opened == [e EXCEPT !.fds[fd] = File]
           n == [close(dup(opened, fd, onto), fd) EXCEPT !.line = SubSeq(@, 3, Len(@))]
           k == [e EXCEPT !.line = Tail(@)]
<1>0. /\ e.line # <<>> /\ t \in {"<", ">"} /\ UNCHANGED <<held, failed, early>>
      /\ \/ Become(p, [e EXCEPT !.pc = "exit"])
         \/ /\ Become(p, n) /\ Len(e.line) > 1 /\ e.line[2] \notin Symbols /\ FreeFds(e) # {}
  BY DEF parse_redirect
<1>1. CASE Become(p, [e EXCEPT !.pc = "exit"])
  <2>1. failed' \in 0..MaxFail
    BY <1>0 DEF Inv, Typed
  <2> QED BY <1>0, <1>1, <2>1, ParseFails
<1>2. CASE Become(p, n) /\ Len(e.line) > 1 /\ e.line[2] \notin Symbols /\ FreeFds(e) # {}
  <2>1. /\ e \in Process /\ Local(e) /\ e.pc = "parse" /\ Opens(e, {0, 1}) /\ Suffix(e)
        /\ e.fds \in [Fd -> Obj] /\ e.line \in Seq(STRING)
        /\ e.fds[0].kind = (IF Seen(e, "<") THEN "file" ELSE IF e.seg = 0 THEN "cons" ELSE "r")
        /\ e.fds[1].kind = (IF SeenAny(e, ">") THEN "file" ELSE "cons")
    BY AtParse
  <2>2. fd \in Fd /\ e.fds[fd] = None
    BY <1>2, Allocates
  <2>3. fd \notin {0, 1} /\ onto \in {0, 1} /\ onto \in Fd
    BY <2>1, <2>2, Constants DEF Opens
  <2>4. /\ Tail(e.line) \in Seq(STRING) /\ Tail(e.line) # <<>> /\ Head(Tail(e.line)) = e.line[2]
        /\ SubSeq(e.line, 3, Len(e.line)) = Tail(Tail(e.line))
        /\ SubSeq(e.line, 3, Len(e.line)) \in Seq(STRING)
    <3> HIDE DEF e
    <3> QED BY <1>2, <2>1, TwoTokens
  <2>5. /\ k \in Process /\ k.line = Tail(e.line) /\ k.of = e.of /\ k.seg = e.seg
    BY <2>1, <2>4 DEF Process
  <2> HIDE DEF fd, onto
  <2>6. /\ n \in Process /\ n.line = Tail(Tail(e.line)) /\ n.pc = "parse"
        /\ n.fds = [[[e.fds EXCEPT ![fd] = File] EXCEPT ![onto] = File] EXCEPT ![fd] = None]
        /\ n.child = e.child /\ n.right = e.right /\ n.seg = e.seg /\ n.of = e.of
    BY <2>1, <2>2, <2>3, <2>4, Objects DEF close, dup, Process
  <2>7. env' = [env EXCEPT ![p] = n]
    BY <1>2 DEF Become
  <2> HIDE DEF n, k
  <2>8. n.fds[onto] = File /\ \A d \in Fd \ {onto} : n.fds[d] = e.fds[d]
    BY <2>1, <2>2, <2>3, <2>6
  <2>9. Opens(n, {0, 1}) /\ \A d \in Fd : n.fds[d] \in {e.fds[d], None, File}
    BY <2>1, <2>3, <2>8, Objects DEF Opens
  <2>10. /\ Suffix(k) /\ \A s : /\ Seen(k, s) <=> Seen(e, s) \/ t = s
                                /\ SeenAny(k, s) <=> SeenAny(e, s) \/ t = s
    BY <1>0, <2>1, <2>5, SameCommand
  <2>11. e.line[2] \notin {"<", ">", "|"}
    BY <1>2 DEF Symbols
  <2>12. /\ Suffix(n) /\ \A s : /\ Seen(n, s) <=> Seen(k, s) \/ e.line[2] = s
                                /\ SeenAny(n, s) <=> SeenAny(k, s) \/ e.line[2] = s
    <3>1. k.line # <<>> /\ Head(k.line) = e.line[2] /\ n.line = Tail(k.line)
      BY <2>4, <2>5, <2>6
    <3>2. Suffix(k) /\ Head(k.line) # "|" /\ n.of = k.of /\ n.seg = k.seg
      BY <2>5, <2>6, <2>10, <2>11, <3>1
    <3> QED BY <2>5, <2>6, <3>1, <3>2, SameCommand, ZenonT(60)
  <2>13. /\ Seen(n, "<") <=> Seen(e, "<") \/ t = "<"
         /\ SeenAny(n, ">") <=> SeenAny(e, ">") \/ t = ">"
    BY <2>10, <2>11, <2>12
  <2>14. /\ n.fds[0].kind = IF Seen(n, "<") THEN "file" ELSE IF n.seg = 0 THEN "cons" ELSE "r"
         /\ n.fds[1].kind = IF SeenAny(n, ">") THEN "file" ELSE "cons"
    <3>1. CASE t = "<"
      BY <2>1, <2>6, <2>8, <2>13, <3>1, Objects, Constants DEF onto
    <3>2. CASE t = ">"
      BY <2>1, <2>6, <2>8, <2>13, <3>2, Objects, Constants DEF onto
    <3> QED BY <1>0, <3>1, <3>2
  <2>15. Moves(e, n) /\ \A q : ~Awaits(e, q)
    BY <2>1, <2>6, <2>9, <2>12, <2>14, ParseMoves
  <2> QED BY <1>0, <2>1, <2>6, <2>7, <2>15, ParseStep
<1> QED BY <1>0, <1>1, <1>2

\* The end of the line: what the command reads and writes is settled.
LEMMA EndStep ==
  ASSUME Inv, NEW p \in Proc, At(p, "parse"), parse_end(p)
  PROVE  Inv'
<1> DEFINE e == env[p]
           n == RunCmd(e)
<1>0. /\ e.line = <<>> /\ UNCHANGED <<held, failed>> /\ env' = [env EXCEPT ![p] = n] /\ Early(e)
  BY DEF parse_end, Become
<1>1. /\ e \in Process /\ Local(e) /\ e.pc = "parse" /\ Opens(e, {0, 1}) /\ Suffix(e)
      /\ e.fds[0].kind = (IF Seen(e, "<") THEN "file" ELSE IF e.seg = 0 THEN "cons" ELSE "r")
      /\ e.fds[1].kind = (IF SeenAny(e, ">") THEN "file" ELSE "cons")
  BY AtParse
<1>2. /\ n \in Process /\ n.pc \in {"exit", "spawn"} /\ n.fds = e.fds
      /\ n.child = e.child /\ n.right = e.right /\ n.seg = e.seg /\ n.of = e.of
  BY <1>1, Running1
<1>3. /\ held' \in [Pipe -> 0..BY2PIPE] /\ failed' \in 0..MaxFail /\ early' \in BOOLEAN
      /\ ~early' => ~early
  BY <1>0 DEF Inv, Typed, Early
<1> HIDE DEF n
<1>4. ~RightSide(n) /\ ~RightSide(e) /\ ~LeftSide(n) /\ ~Parser(n)
  BY <1>1, <1>2 DEF RightSide, LeftSide, Parser
<1>5. EndsOK(n) /\ Kept(e, n)
  BY <1>1, <1>2, <1>4, SubEnds DEF Local
<1>6. Shape(n)
  BY <1>1, <1>2 DEF Shape, WithPipe, Opens
<1>7. Wiring(n)
  <2>1. n.fds[0].kind = WantIn(n) /\ n.fds[1].kind = WantOut(n)
    BY <1>0, <1>1, <1>2, LastCommand DEF WantIn, WantOut
  <2> QED BY <1>2, <1>4, <2>1 DEF Wiring
<1>8. \A q : ~Awaits(e, q)
  BY <1>1 DEF Awaits, AwaitsChild, AwaitsRight
<1>9. Moves(e, n)
  BY <1>1, <1>2, <1>4, <1>5, <1>6, <1>7 DEF Moves, Kin, Local, Spawning
<1> QED BY <1>0, <1>3, <1>8, <1>9, Solo

-----------------------------------------------------------------------------
(***************************************************************************)
(* pipe: a pipe nobody holds is there, and becomes that of the next '|'.   *)
(***************************************************************************)

LEMMA HeldPipe ==
  ASSUME Inv, NEW i \in Pipe
  PROVE  i \in FreePipes <=> \A x \in Proc, d \in Fd : ~(IsEnd(env[x], d) /\ env[x].fds[d].pipe = i)
<1>1. ASSUME NEW x \in Proc, NEW d \in Fd
      PROVE  IsEnd(env[x], d) /\ env[x].fds[d].pipe = i
               <=> env[x].fds[d] = End("r", i) \/ env[x].fds[d] = End("w", i)
  <2>1. env[x].fds[d] \in Obj
    BY One
  <2> QED BY <2>1 DEF Obj, End, IsEnd
<1>2. i \in FreePipes <=> \A x \in Proc, d \in Fd :
                            env[x].fds[d] # End("r", i) /\ env[x].fds[d] # End("w", i)
  BY DEF FreePipes, Holders
<1> QED BY <1>1, <1>2

LEMMA PipeFree ==
  ASSUME Inv, NEW p \in Proc, At(p, "parse")
  PROVE  FreePipes # {}
<1> DEFINE s == env[p].seg
           HasLink(i, k) == \E x \in Proc, d \in Fd :
                              IsEnd(env[x], d) /\ env[x].fds[d].pipe = i /\ Link(env[x], d) = k
           f == [i \in Pipe |-> CHOOSE k \in 0..(s - 1) : HasLink(i, k)]
<1> SUFFICES ASSUME FreePipes = {}
             PROVE  FALSE
  OBVIOUS
<1>1. s \in Nat /\ s + 2 <= MaxProc /\ p \in Nat
  <2>1. p # Sh /\ p >= s + 2 /\ s \in Nat
    BY One, Fields DEF At, Inv, Family
  <2>2. p \in Nat /\ p <= MaxProc /\ MaxProc \in Nat
    BY Constants DEF Proc
  <2> QED BY <2>1, <2>2
<1>2. \A x \in Proc, d \in Fd : IsEnd(env[x], d) => Link(env[x], d) \in 0..(s - 1)
  <2> TAKE x \in Proc, d \in Fd
  <2> HAVE IsEnd(env[x], d)
  <2>1. Link(env[x], d) <= Limit(env[p]) /\ Limit(env[p]) = s - 1
    BY DEF Inv, Top, Parser, Limit, At
  <2>2. Link(env[x], d) >= 0 /\ Link(env[x], d) \in Int
    BY One, Fields DEF EndsOK, Link
  <2> QED BY <1>1, <2>1, <2>2
<1>3. \A i \in Pipe : \E k \in 0..(s - 1) : HasLink(i, k)
  BY <1>2, HeldPipe
<1>4. \A i \in Pipe : f[i] \in 0..(s - 1) /\ HasLink(i, f[i])
  BY <1>3
<1>5. f \in [Pipe -> 0..(s - 1)]
  BY <1>4
<1>6. \A i, j \in Pipe : f[i] = f[j] => i = j
  <2> HIDE DEF f
  <2> TAKE i, j \in Pipe
  <2> HAVE f[i] = f[j]
  <2>1. PICK x \in Proc, d \in Fd :
               IsEnd(env[x], d) /\ env[x].fds[d].pipe = i /\ Link(env[x], d) = f[i]
    BY <1>4
  <2>2. PICK y \in Proc, c \in Fd :
               IsEnd(env[y], c) /\ env[y].fds[c].pipe = j /\ Link(env[y], c) = f[j]
    BY <1>4
  <2> QED BY <2>1, <2>2 DEF Inv, Links
<1>7. IsFiniteSet(Pipe) /\ Cardinality(Pipe) = MaxProc
  BY FS_Interval, Constants DEF Pipe
<1>8. IsFiniteSet(0..(s - 1)) /\ Cardinality(0..(s - 1)) = s
  <2>1. 0 \in Int /\ s - 1 \in Int /\ (0 > s - 1 <=> s = 0) /\ (s - 1) - 0 + 1 = s
    BY <1>1
  <2> QED BY <2>1, FS_Interval
<1>9. Cardinality(0..(s - 1)) < Cardinality(Pipe)
  BY <1>1, <1>7, <1>8, Constants
<1>10. \E i, j \in Pipe : i # j /\ f[i] = f[j]
  <2> DEFINE T == 0..(s - 1)
  <2>1. f \in [Pipe -> T] /\ IsFiniteSet(T) /\ Cardinality(T) < Cardinality(Pipe)
    BY <1>5, <1>8, <1>9
  <2> HIDE DEF f, T
  <2> QED BY <1>7, <2>1, FS_PigeonHole
<1> QED BY <1>6, <1>10

\* pipe() takes the descriptors 2 and 3.
LEMMA PipeFds ==
  ASSUME NEW e \in Process, Opens(e, {0, 1}), NEW i \in Pipe, FreeFds(e) # {},
         FreeFds([e EXCEPT !.fds[fd_alloc(e)] = End("r", i)]) # {}
  PROVE  /\ fd_alloc(e) = 2 /\ fd_alloc([e EXCEPT !.fds[fd_alloc(e)] = End("r", i)]) = 3
         /\ 2 \in Fd /\ 3 \in Fd
<1> DEFINE a == fd_alloc(e)
           e0 == [e EXCEPT !.fds[a] = End("r", i)]
           b == fd_alloc(e0)
<1>1. e.fds \in [Fd -> Obj] /\ \A d \in Fd : d \in {0, 1} <=> e.fds[d] # None
  BY Fields DEF Opens
<1>2. /\ a \in 0..(NFd - 2) /\ a \in Fd /\ e.fds[a] = None
      /\ \A d \in 0..(NFd - 2) : e.fds[d] = None => a <= d
  BY Allocates
<1>3. a \in Nat /\ a >= 2 /\ NFd \in Nat /\ a <= NFd - 2
  <2>1. a \notin {0, 1} /\ a \in Nat
    BY <1>1, <1>2
  <2> QED BY <1>2, <2>1, Constants
<1>4. a = 2
  <2>1. 2 \in 0..(NFd - 2) /\ 2 \in Fd
    BY <1>3 DEF Fd
  <2>2. e.fds[2] = None
    BY <1>1, <2>1
  <2> QED BY <1>2, <1>3, <2>1, <2>2
<1> HIDE DEF a
<1>5. e0.fds[2] = End("r", i) /\ \A d \in Fd \ {2} : e0.fds[d] = e.fds[d]
  BY <1>1, <1>2, <1>4, Fields DEF Process
<1>6. /\ b \in 0..(NFd - 2) /\ b \in Fd /\ e0.fds[b] = None
      /\ \A d \in 0..(NFd - 2) : e0.fds[d] = None => b <= d
  BY Allocates DEF a
<1> HIDE DEF e0, b
<1>7. End("r", i) # None
  BY Objects
<1>8. b \in Nat /\ b >= 3 /\ b <= NFd - 2
  <2>1. b \notin {0, 1, 2} /\ b \in Nat
    BY <1>1, <1>5, <1>6, <1>7
  <2> QED BY <1>3, <1>6, <2>1
<1>9. b = 3
  <2>1. 3 \in 0..(NFd - 2) /\ 3 \in Fd
    BY <1>3, <1>8 DEF Fd
  <2>2. e0.fds[3] = None
    BY <1>1, <1>5, <2>1
  <2> QED BY <1>6, <1>8, <2>1, <2>2
<1>10. 3 \in Fd
  BY <1>6, <1>9
<1> QED BY <1>2, <1>4, <1>9, <1>10 DEF a, b, e0

LEMMA PipedStep ==
  ASSUME Inv, NEW p \in Proc, At(p, "parse"), env[p].line # <<>>, Head(env[p].line) = "|",
         NEW i \in Pipe, i \in FreePipes, 2 \in Fd, 3 \in Fd,
         NEW n \in Process, n.pc = "fork", n.p = <<2, 3>>,
         n.fds = [env[p].fds EXCEPT ![2] = End("r", i), ![3] = End("w", i)],
         n.child = env[p].child, n.right = env[p].right, n.seg = env[p].seg, n.of = env[p].of,
         n.line = env[p].line, env' = [env EXCEPT ![p] = n],
         held' \in [Pipe -> 0..BY2PIPE], UNCHANGED <<failed, early>>
  PROVE  Inv'
<1> DEFINE e == env[p]
           E == env
           F == env'
<1>1. /\ e \in Process /\ Local(e) /\ e.pc = "parse" /\ Opens(e, {0, 1}) /\ Suffix(e)
      /\ e.fds \in [Fd -> Obj]
      /\ e.fds[0].kind = (IF Seen(e, "<") THEN "file" ELSE IF e.seg = 0 THEN "cons" ELSE "r")
      /\ e.fds[1].kind = (IF SeenAny(e, ">") THEN "file" ELSE "cons")
  BY AtParse
<1>2. Parser(e) /\ Parser(n) /\ ~RightSide(e) /\ ~RightSide(n) /\ ~LeftSide(n)
  BY <1>1 DEF Parser, RightSide, LeftSide
<1>3. /\ n.fds[2] = End("r", i) /\ n.fds[3] = End("w", i)
      /\ \A d \in Fd : d \notin {2, 3} => n.fds[d] = e.fds[d]
  BY <1>1
<1>4. Link(n, 2) = e.seg /\ Link(n, 3) = e.seg /\ \A d \in Fd : Link(n, d) = Link(e, d)
  BY <1>1, <1>2 DEF Link
<1>5. e.seg \in Nat /\ Limit(e) = e.seg - 1 /\ Limit(n) = e.seg
  BY <1>1, Fields DEF Limit
<1>6. EndsOK(n)
  <2> SUFFICES ASSUME NEW d \in Fd, IsEnd(n, d)
               PROVE  /\ n.fds[d].pipe \in Pipe /\ Link(n, d) >= 0
                      /\ n.fds[d].kind = "r" <=> d \in {0, 2}
                      /\ d \in 0..3
    BY DEF EndsOK
  <2>1. CASE d = 2
    BY <1>3, <1>4, <1>5, <2>1, Objects
  <2>2. CASE d = 3
    BY <1>3, <1>4, <1>5, <2>2, Objects
  <2>3. CASE d \notin {2, 3}
    <3>1. IsEnd(e, d) /\ n.fds[d] = e.fds[d]
      BY <1>3, <2>3 DEF IsEnd
    <3> QED BY <1>1, <1>4, <3>1 DEF Local, EndsOK
  <2> QED BY <2>1, <2>2, <2>3
<1>7. Shape(n)
  <2>1. Opens(n, {0, 1, 2, 3})
    BY <1>1, <1>3, Objects DEF Opens
  <2> QED BY <1>3, <2>1, Objects DEF Shape, WithPipe
<1>8. Wiring(n)
  <2>1. /\ Suffix(n) /\ \A t : (Seen(n, t) <=> Seen(e, t)) /\ (SeenAny(n, t) <=> SeenAny(e, t))
    BY <1>1, ZenonT(60) DEF Suffix, Pos, Seen, SeenAny
  <2>2. e.child = 0
    BY <1>1, <1>2 DEF Local, Wiring
  <2>3. n.fds[0] = e.fds[0] /\ n.fds[1] = e.fds[1]
    BY <1>3, Constants
  <2> QED BY <1>1, <1>2, <2>1, <2>2, <2>3 DEF Wiring
<1>9. Kin(e, n) /\ Local(n)
  BY <1>1, <1>6, <1>7, <1>8 DEF Kin, Local, Spawning
<1>10. Typed' /\ (\A q \in Proc : Local(env[q])')
  <2>1. failed' \in 0..MaxFail /\ early' \in BOOLEAN
    BY DEF Inv, Typed
  <2> QED BY <1>9, <2>1, SoloLocal
<1>11. Numbered(F) /\ Family(F) /\ Loading(F)
  BY <1>9, SoloKin
<1>12. F[p] = n /\ (\A q \in Proc : q # p => F[q] = E[q]) /\ E[p] = e
  BY DEF Inv, Typed
<1>13. Links(E) /\ Top(E)
  BY DEF Inv
<1>14. \A x \in Proc, d \in Fd : IsEnd(E[x], d) => E[x].fds[d].pipe # i
  BY HeldPipe
<1>15. \A x \in Proc, d \in Fd : IsEnd(E[x], d) => Link(E[x], d) <= e.seg - 1 /\ Link(E[x], d) \in Int
  <2> TAKE x \in Proc, d \in Fd
  <2> HAVE IsEnd(E[x], d)
  <2>1. Link(E[x], d) <= Limit(e)
    BY <1>2, <1>13 DEF Top
  <2>2. Link(E[x], d) \in Int
    BY One, Fields, SMTT(30) DEF Link
  <2> QED BY <1>5, <2>1, <2>2
<1>16. ASSUME ~early'
       PROVE  Tree(F)
  <2>1. Tree(E)
    BY <1>16 DEF Inv
  <2>2. \A q : ~Awaits(e, q)
    BY <1>1 DEF Awaits, AwaitsChild, AwaitsRight
  <2>3. e.pc \notin {"none", "dead"}
    BY <1>1
  <2> HIDE DEF e, E, F
  <2> QED BY <1>12, <2>1, <2>2, <2>3 DEF Tree
<1> HIDE DEF e, E, F
<1>17. ASSUME NEW x \in Proc, NEW d \in Fd, IsEnd(F[x], d)
       PROVE  \/ x = p /\ d \in {2, 3} /\ F[x].fds[d].pipe = i /\ Link(F[x], d) = e.seg
              \/ /\ IsEnd(E[x], d) /\ F[x].fds[d] = E[x].fds[d] /\ Link(F[x], d) = Link(E[x], d)
                 /\ F[x].fds[d].pipe # i /\ Link(F[x], d) <= e.seg - 1 /\ Link(F[x], d) \in Int
  <2>1. CASE x = p /\ d \in {2, 3}
    <3>1. F[x] = n
      BY <1>12, <2>1
    <3>2. n.fds[2].pipe = i /\ n.fds[3].pipe = i
      BY <1>3, Objects
    <3>3. n.fds[d].pipe = i /\ Link(n, d) = e.seg
      BY <1>4, <2>1, <3>2
    <3> QED BY <2>1, <3>1, <3>3
  <2>2. CASE ~(x = p /\ d \in {2, 3})
    <3>1. F[x].fds[d] = E[x].fds[d] /\ Link(F[x], d) = Link(E[x], d)
      BY <1>3, <1>4, <1>12, <2>2
    <3>2. IsEnd(E[x], d)
      BY <1>17, <3>1 DEF IsEnd
    <3> QED BY <1>14, <1>15, <3>1, <3>2
  <2> QED BY <2>1, <2>2
<1>18. Links(F)
  <2> SUFFICES ASSUME NEW x \in Proc, NEW y \in Proc, NEW d \in Fd, NEW c \in Fd,
                      IsEnd(F[x], d), IsEnd(F[y], c)
               PROVE  F[x].fds[d].pipe = F[y].fds[c].pipe <=> Link(F[x], d) = Link(F[y], c)
    BY DEF Links
  <2>1. CASE F[x].fds[d].pipe = i
    <3>1. Link(F[x], d) = e.seg
      BY <1>17, <2>1
    <3>2. F[y].fds[c].pipe = i <=> Link(F[y], c) = e.seg
      BY <1>5, <1>17
    <3> QED BY <2>1, <3>1, <3>2
  <2>2. CASE F[y].fds[c].pipe = i
    <3>1. Link(F[y], c) = e.seg
      BY <1>17, <2>2
    <3>2. F[x].fds[d].pipe = i <=> Link(F[x], d) = e.seg
      BY <1>5, <1>17
    <3> QED BY <2>2, <3>1, <3>2
  <2>3. CASE F[x].fds[d].pipe # i /\ F[y].fds[c].pipe # i
    <3>1. IsEnd(E[x], d) /\ F[x].fds[d] = E[x].fds[d] /\ Link(F[x], d) = Link(E[x], d)
      BY <1>17, <2>3
    <3>2. IsEnd(E[y], c) /\ F[y].fds[c] = E[y].fds[c] /\ Link(F[y], c) = Link(E[y], c)
      BY <1>17, <2>3
    <3>3. E[x].fds[d].pipe = E[y].fds[c].pipe <=> Link(E[x], d) = Link(E[y], c)
      BY <1>13, <3>1, <3>2 DEF Links
    <3> QED BY <3>1, <3>2, <3>3
  <2> QED BY <2>1, <2>2, <2>3
<1>19. Top(F)
  <2>1. \A q \in Proc : Parser(F[q]) => q = p
    BY <1>2, <1>12, <1>13 DEF Top
  <2>2. \A r \in Proc, d \in Fd : IsEnd(F[r], d) => Link(F[r], d) <= e.seg
    BY <1>5, <1>17
  <2> QED BY <1>5, <1>12, <2>1, <2>2 DEF Top
<1> QED BY <1>10, <1>11, <1>16, <1>18, <1>19 DEF Inv, F

LEMMA PipeStep ==
  ASSUME Inv, NEW p \in Proc, At(p, "parse"), parse_pipe(p)
  PROVE  Inv'
<1> DEFINE e == env[p]
           i == Least(FreePipes)
           fd0 == fd_alloc(e)
           e0 == [e EXCEPT !.fds[fd0] = End("r", i)]
           fd1 == fd_alloc(e0)
           n == [e0 EXCEPT !.fds[fd1] = End("w", i), !.p = <<fd0, fd1>>, !.pc = "fork"]
           possible == FreeFds(e) # {} /\ FreeFds(e0) # {}
<1>0. /\ e.line # <<>> /\ Head(e.line) = "|" /\ UNCHANGED early
      /\ \/ possible /\ Succeeds /\ Become(p, n) /\ held' = [held EXCEPT ![i] = 0]
         \/ (Succeeds \/ Fails) /\ Goto(p, "exit") /\ UNCHANGED held
  BY DEF parse_pipe
<1>1. CASE (Succeeds \/ Fails) /\ Goto(p, "exit") /\ UNCHANGED held
  <2>1. failed' \in 0..MaxFail
    BY <1>1, Unfailed
  <2>2. Become(p, [env[p] EXCEPT !.pc = "exit"])
    BY <1>1 DEF Goto
  <2> QED BY <1>0, <1>1, <2>1, <2>2, ParseFails
<1>2. CASE possible /\ Succeeds /\ Become(p, n) /\ held' = [held EXCEPT ![i] = 0]
  <2>1. i \in FreePipes /\ i \in Pipe
    <3>1. FreePipes \subseteq Nat /\ FreePipes \subseteq Pipe
      BY DEF FreePipes, Pipe
    <3> QED BY <3>1, PipeFree, LeastIn
  <2>2. e \in Process /\ Opens(e, {0, 1}) /\ e.fds \in [Fd -> Obj]
    BY AtParse
  <2> HIDE DEF i
  <2>3. fd0 = 2 /\ fd1 = 3 /\ 2 \in Fd /\ 3 \in Fd
    <3> HIDE DEF e
    <3> QED BY <1>2, <2>1, <2>2, PipeFds
  <2> HIDE DEF fd0, fd1
  <2>4. /\ n \in Process /\ n.pc = "fork" /\ n.p = <<2, 3>>
        /\ n.fds = [e.fds EXCEPT ![2] = End("r", i), ![3] = End("w", i)]
        /\ n.child = e.child /\ n.right = e.right /\ n.seg = e.seg /\ n.of = e.of
        /\ n.line = e.line
    <3>1. End("r", i) \in Obj /\ End("w", i) \in Obj
      BY <2>1, Objects
    <3>2. /\ e0 \in Process /\ e0.fds = [e.fds EXCEPT ![2] = End("r", i)]
          /\ e0.child = e.child /\ e0.right = e.right /\ e0.seg = e.seg /\ e0.of = e.of
          /\ e0.line = e.line
      BY <2>2, <2>3, <3>1 DEF Process
    <3> HIDE DEF e0
    <3>3. <<2, 3>> \in Fd \X Fd
      BY <2>3
    <3> QED BY <2>3, <3>1, <3>2, <3>3, ZenonT(60) DEF Process, Pcs
  <2>5. held' \in [Pipe -> 0..BY2PIPE]
    <3>1. held \in [Pipe -> 0..BY2PIPE] /\ held' = [held EXCEPT ![i] = 0]
      BY <1>2 DEF Inv, Typed
    <3>2. 0 \in 0..BY2PIPE
      BY Constants
    <3> QED BY <3>1, <3>2
  <2>6. env' = [env EXCEPT ![p] = n] /\ UNCHANGED <<failed, early>>
    BY <1>0, <1>2 DEF Become, Succeeds
  <2> HIDE DEF n
  <2> QED BY <1>0, <2>1, <2>3, <2>4, <2>5, <2>6, PipedStep
<1> QED BY <1>0, <1>1, <1>2

-----------------------------------------------------------------------------
(***************************************************************************)
(* fork behind a '|': the left side keeps its command, the right side has  *)
(* the rest of the line.                                                   *)
(***************************************************************************)
LEMMA ForkedStep ==
  ASSUME Inv, NEW p \in Proc, At(p, "fork"), Fresh # {}, UNCHANGED <<held, failed, early>>,
         env' = [env EXCEPT ![p].pc = "left_dup", ![p].right = NewProc,
                   ![NewProc] = [env[p] EXCEPT !.pc = "right_dup", !.right = 0, !.argv = <<>>,
                                               !.line = Tail(env[p].line), !.seg = env[p].seg + 1]]
  PROVE  Inv'
<1> DEFINE c == NewProc
           e == env[p]
           n == [e EXCEPT !.pc = "left_dup", !.right = c]
           m == [e EXCEPT !.pc = "right_dup", !.right = 0, !.argv = <<>>,
                          !.line = Tail(e.line), !.seg = e.seg + 1]
<1>0. /\ e \in Process /\ Local(e) /\ e.pc = "fork" /\ c \in Proc /\ c # 0
      /\ c # p /\ env \in [Proc -> Process]
  BY One, Newest, Constants DEF Local, At, Inv, Typed
<1>1. env' = [env EXCEPT ![p] = n, ![c] = m]
  <2>1. env' = [env EXCEPT ![p].pc = "left_dup", ![p].right = c, ![c] = m]
    OBVIOUS
  <2> HIDE DEF c, m
  <2> QED BY <1>0, <2>1
<1> HIDE DEF c
<1>2. Parser(e) /\ ~RightSide(e)
  BY <1>0 DEF Parser, RightSide
<1>3. /\ Opens(e, {0, 1, 2, 3}) /\ e.p = <<2, 3>> /\ e.fds[2].kind = "r" /\ e.fds[3].kind = "w"
      /\ e.line # <<>> /\ Head(e.line) = "|" /\ e.child = 0 /\ Suffix(e)
      /\ e.fds[0].kind = (IF Seen(e, "<") THEN "file" ELSE IF e.seg = 0 THEN "cons" ELSE "r")
      /\ e.fds[1].kind = (IF SeenAny(e, ">") THEN "file" ELSE "cons")
  BY <1>0, <1>2 DEF Local, Shape, WithPipe, Wiring
<1>4. /\ n \in Process /\ n.pc = "left_dup" /\ n.fds = e.fds /\ n.child = e.child /\ n.right = c
      /\ n.seg = e.seg /\ n.of = e.of /\ n.p = e.p
  BY <1>0 DEF Process, Pcs
<1>5. /\ m \in Process /\ m.pc = "right_dup" /\ m.fds = e.fds /\ m.child = e.child /\ m.right = 0
      /\ m.seg = e.seg + 1 /\ m.of = e.of /\ m.p = e.p /\ m.line = Tail(e.line)
  <2>1. Tail(e.line) \in Seq(STRING) /\ e.seg + 1 \in Nat /\ <<>> \in Seq(STRING)
    <3>1. e.line \in Seq(STRING) /\ e.seg \in Nat
      BY <1>0, Fields
    <3>2. Tail(e.line) \in Seq(STRING)
      BY <1>3, <3>1, FirstToken
    <3> QED BY <3>1, <3>2
  <2> QED BY <1>0, <2>1 DEF Process, Pcs
<1> HIDE DEF n, m, e
<1>6. ~RightSide(n) /\ LeftSide(n) /\ ~Parser(n) /\ RightSide(m) /\ ~LeftSide(m) /\ Parser(m)
  BY <1>0, <1>4, <1>5 DEF RightSide, LeftSide, Parser
<1>7. e.seg \in Nat
  BY <1>0, Fields
<1>8. \A d \in Fd : IsEnd(n, d) => n.fds[d] = e.fds[d] /\ Link(n, d) = Link(e, d)
  BY <1>0, <1>2, <1>4, <1>6 DEF Link
<1>9. \A d \in Fd : IsEnd(m, d) => m.fds[d] = e.fds[d] /\ Link(m, d) = Link(e, d)
  <2> TAKE d \in Fd
  <2> HAVE IsEnd(m, d)
  <2>1. d # 1
    BY <1>3, <1>5 DEF IsEnd
  <2>2. CASE d = 0
    BY <1>0, <1>5, <1>7, <2>2 DEF Link
  <2>3. CASE d > 1
    BY <1>0, <1>2, <1>5, <1>6, <1>7, <2>3 DEF Link
  <2> QED BY <1>5, <2>1, <2>2, <2>3 DEF Fd
<1>10. EndsOK(n) /\ Kept(e, n) /\ EndsOK(m) /\ Kept(e, m)
  BY <1>0, <1>8, <1>9, FewerEnds DEF Local
<1>11. Shape(n) /\ Shape(m)
  BY <1>3, <1>4, <1>5 DEF Shape, WithPipe, Opens
<1>12. /\ Suffix(m) /\ ~Seen(m, "<") /\ (SeenAny(m, ">") <=> SeenAny(e, ">"))
       /\ Has(e.of, e.seg, "<") <=> Seen(e, "<")
       /\ Bars(e.of, Len(e.of)) >= e.seg + 1
  BY <1>0, <1>3, <1>5, NextCommand
<1>13. Wiring(m)
  BY <1>3, <1>5, <1>6, <1>7, <1>12 DEF Wiring
<1>14. Bars(e.of, Len(e.of)) \in Nat
  <2>1. Len(e.of) \in Nat
    BY <1>0, Fields
  <2> QED BY <2>1, BarSets
<1>15. Wiring(n)
  <2>1. n.fds[0].kind = WantIn(n)
    BY <1>3, <1>4, <1>12 DEF WantIn
  <2>2. Bars(n.of, Len(n.of)) # n.seg
    BY <1>4, <1>7, <1>12, <1>14
  <2> QED BY <1>0, <1>4, <1>6, <2>1, <2>2 DEF Wiring
<1>16. Limit(m) = Limit(e)
  BY <1>0, <1>5, <1>7 DEF Limit
<1>17. Awaits(n, c) /\ \A q : ~Awaits(e, q)
  BY <1>0, <1>4 DEF Awaits, AwaitsChild, AwaitsRight
<1>18. m.seg \in {e.seg, e.seg + 1} /\ m.seg <= Bars(m.of, Len(m.of))
  BY <1>5, <1>12
<1>19. Bears(e, n, m, c)
  BY <1>0, <1>2, <1>3, <1>4, <1>5, <1>6, <1>10, <1>11, <1>13, <1>15, <1>16, <1>17, <1>18
  DEF Bears, Local, Spawning
<1>20. failed' \in 0..MaxFail
  BY DEF Inv, Typed
<1> QED BY <1>1, <1>19, <1>20, Birth DEF c, e

LEMMA ForkStep ==
  ASSUME Inv, NEW p \in Proc, pipe_fork(p)
  PROVE  Inv'
<1>1. At(p, "fork") /\ UNCHANGED <<held, early>>
  BY DEF pipe_fork
<1>2. CASE Fails /\ Goto(p, "exit")
  <2>1. failed' \in 0..MaxFail /\ early' \in BOOLEAN /\ (~early' => ~early)
    BY <1>1, <1>2, Unfailed DEF Inv, Typed
  <2> QED BY <1>1, <1>2, <2>1, ExitStep DEF At
<1>3. CASE /\ Succeeds /\ Fresh # {}
           /\ env' = [env EXCEPT ![p].pc = "left_dup", ![p].right = NewProc,
                   ![NewProc] = [env[p] EXCEPT !.pc = "right_dup", !.right = 0, !.argv = <<>>,
                                               !.line = Tail(env[p].line), !.seg = env[p].seg + 1]]
  BY <1>1, <1>3, ForkedStep DEF Succeeds
<1> QED BY <1>2, <1>3 DEF pipe_fork

LEMMA ParsecmdStep ==
  ASSUME Inv, NEW p \in Proc, parsecmd(p)
  PROVE  Inv'
BY EndStep, WordStep, RedirectStep, PipeStep, OtherStep DEF parsecmd

-----------------------------------------------------------------------------
(***************************************************************************)
(* The invariant, and what follows from it.                                *)
(***************************************************************************)
LEMMA InitInv ==
  Init => Inv
<1> SUFFICES ASSUME Init PROVE Inv
  OBVIOUS
<1> DEFINE sh == [Unborn EXCEPT !.pc = "prompt", !.fds[0] = Console, !.fds[1] = Console]
<1>1. /\ sh \in Process /\ sh.pc = "prompt" /\ sh.child = 0 /\ sh.right = 0 /\ sh.seg = 0
      /\ sh.fds = [[Closed EXCEPT ![0] = Console] EXCEPT ![1] = Console]
  BY UnbornProcess, Objects, Constants DEF Process, Pcs
<1>2. env = [p \in Proc |-> IF p = Sh THEN sh ELSE Unborn]
  BY DEF Init
<1>3. env[Sh] = sh /\ \A p \in Proc \ {Sh} : env[p] = Unborn
  BY <1>2, Constants
<1> HIDE DEF sh
<1>4. Typed
  <2>1. env \in [Proc -> Process]
    BY <1>1, <1>2, UnbornProcess
  <2>2. 0 \in 0..BY2PIPE /\ 0 \in 0..MaxFail
    BY ShellAssumption
  <2>3. held = [i \in Pipe |-> 0] /\ failed = 0 /\ early = FALSE
    BY DEF Init
  <2>4. held \in [Pipe -> 0..BY2PIPE] /\ failed \in 0..MaxFail /\ early \in BOOLEAN
    BY <2>2, <2>3
  <2> QED BY <2>1, <2>4 DEF Typed
<1>5. \A d \in Fd : Unborn.fds[d] = None
  BY UnbornProcess DEF Closed
<1>6. /\ sh.fds[0] = Console /\ sh.fds[1] = Console
      /\ \A d \in Fd : d \notin {0, 1} => sh.fds[d] = None
  BY <1>1, <1>5, UnbornProcess, Constants
<1>7. \A p \in Proc, d \in Fd : ~IsEnd(env[p], d)
  BY <1>3, <1>5, <1>6, Objects DEF IsEnd
<1>8. \A p \in Proc : env[p].pc \in {"none", "prompt"} /\ (env[p].pc = "none" <=> p # Sh)
  BY <1>1, <1>3, UnbornProcess
<1>9. \A p \in Proc : ~Parser(env[p]) /\ ~RightSide(env[p]) /\ ~LeftSide(env[p])
  BY <1>8 DEF Parser, RightSide, LeftSide
<1>10. ASSUME NEW p \in Proc
       PROVE  Local(env[p])
  <2>1. EndsOK(env[p])
    BY <1>7 DEF EndsOK
  <2>2. Shape(env[p])
    <3>1. CASE p = Sh
      <4>1. Opens(sh, {0, 1})
        BY <1>6, Objects, Constants DEF Opens
      <4> QED BY <1>1, <1>3, <1>6, <3>1, <4>1 DEF Shape, WithPipe
    <3>2. CASE p # Sh
      <4>1. Opens(Unborn, {})
        BY <1>5 DEF Opens
      <4> QED BY <1>3, <3>2, <4>1, UnbornProcess DEF Shape, WithPipe
    <3> QED BY <3>1, <3>2
  <2>3. Wiring(env[p])
    BY <1>8, <1>9 DEF Wiring
  <2> QED BY <2>1, <2>2, <2>3 DEF Local
<1>11. Links(env) /\ Top(env)
  BY <1>7, <1>9 DEF Links, Top
<1>12. \A p \in Proc : env[p].child = 0 /\ env[p].right = 0
  BY <1>1, <1>3, UnbornProcess
<1>13. Numbered(env)
  BY <1>8, <1>12 DEF Numbered, Sh, Proc
<1>14. Family(env)
  BY <1>1, <1>3, <1>8, Constants DEF Family
<1>15. Loading(env)
  BY <1>8 DEF Loading, Spawning
<1>16. Tree(env)
  BY <1>8 DEF Tree
<1> QED BY <1>4, <1>10, <1>11, <1>13, <1>14, <1>15, <1>16 DEF Inv

LEMMA NextInv ==
  Inv /\ [Next]_vars => Inv'
<1> SUFFICES ASSUME Inv, [Next]_vars PROVE Inv'
  OBVIOUS
<1>1. CASE \E l \in Lines : main(l)
  BY <1>1, MainStep
<1>2. CASE main_wait
  BY <1>2, PromptStep
<1>3. ASSUME NEW p \in Proc, Shells(p)
      PROVE  Inv'
  BY <1>3, ParsecmdStep, ForkStep, RightDupStep, LeftDupStep, Close0Step, Close1Step, SpawnStep,
     SpawnCloseStep, ShareStep, CloseAllStep, WaitStep, WaitRightStep, DeadStep DEF Shells
<1>4. ASSUME NEW p \in Proc, Programs(p)
      PROVE  Inv'
  BY <1>4, ReadStep, WriteStep, ClosedStep DEF Programs
<1>5. CASE UNCHANGED vars
  BY <1>5 DEF vars, Inv, Typed
<1> QED BY <1>1, <1>2, <1>3, <1>4, <1>5 DEF Next

LEMMA InvHolds ==
  Spec => []Inv
BY InitInv, NextInv, PTL DEF Spec

LEMMA InvTypes ==
  Inv => TypeOK
BY Fields DEF Inv, Typed, TypeOK

\* A program's descriptors are what the line says, and the pipe it reads is the one the
\* command on its left writes: both belong to the same '|'.
LEMMA InvWired ==
  Inv => Wired
<1> SUFFICES ASSUME Inv, NEW p \in Proc, Running(p)
             PROVE  LET e == env[p]
                        in == e.fds[0]
                        out == e.fds[1]
                        last == Bars(e.of, Len(e.of)) = e.seg
                        want_in == IF Has(e.of, e.seg, "<") THEN "file"
                                   ELSE IF e.seg = 0 THEN "cons" ELSE "r"
                        want_out == IF ~last THEN "w"
                                    ELSE IF \E k \in 0..e.seg : Has(e.of, k, ">") THEN "file"
                                    ELSE "cons"
                    IN  /\ in.kind = want_in /\ out.kind = want_out
                        /\ OpenFds(e) = {0, 1}
                        /\ \A q \in Proc : Running(q) /\ env[q].seg = e.seg + 1
                                             /\ env[q].fds[0].kind = "r"
                             => env[q].fds[0].pipe = out.pipe
  BY DEF Wired
<1> DEFINE e == env[p]
<1>1. e.pc \in {"run", "empty", "full"} /\ Shape(e) /\ Wiring(e) /\ e.seg \in Nat
  BY One, Fields DEF Running
<1>2. e.fds[0].kind = WantIn(e) /\ e.fds[1].kind = WantOut(e)
  BY <1>1 DEF Wiring
<1>3. OpenFds(e) = {0, 1}
  BY <1>1, OpenSet DEF Shape
<1>4. ASSUME NEW q \in Proc, Running(q), env[q].seg = e.seg + 1, env[q].fds[0].kind = "r"
      PROVE  env[q].fds[0].pipe = e.fds[1].pipe
  <2>1. p # Sh /\ q # Sh /\ env[q].pc # "none" /\ e.pc # "none"
    BY <1>4 DEF Running, Inv, Family
  <2>2. env[q].of = e.of /\ env[q].seg <= Bars(env[q].of, Len(env[q].of))
    BY <2>1 DEF Inv, Family
  <2>3. Bars(e.of, Len(e.of)) # e.seg
    <3>1. Len(e.of) \in Nat
      BY One, Fields
    <3>2. Bars(e.of, Len(e.of)) \in Nat
      BY <3>1, BarSets
    <3> QED BY <1>1, <1>4, <2>2, <3>2
  <2>4. IsEnd(e, 1) /\ IsEnd(env[q], 0)
    BY <1>2, <1>4, <2>3 DEF WantOut, IsEnd
  <2>5. Link(e, 1) = e.seg /\ Link(env[q], 0) = e.seg
    BY <1>1, <1>4 DEF Link, Running
  <2> QED BY <2>4, <2>5, Constants DEF Inv, Links
<1> QED BY <1>2, <1>3, <1>4 DEF WantIn, WantOut

\* The process with the smallest number of those that are left has nobody to wait for it.
LEMMA InvDone ==
  Inv => PromptMeansDone
<1> SUFFICES ASSUME Inv, At(Sh, "prompt"), ~early
             PROVE  \A p \in Proc \ {Sh} : env[p].pc \in {"none", "dead"} /\ OpenFds(env[p]) = {}
  BY DEF PromptMeansDone
<1> DEFINE Left == {p \in Proc \ {Sh} : Live(env[p])}
<1>1. Left = {}
  <2> SUFFICES ASSUME Left # {}
               PROVE  FALSE
    OBVIOUS
  <2> DEFINE q == Least(Left)
  <2>1. Left \subseteq Nat
    BY DEF Proc
  <2>2. q \in Left /\ \A y \in Left : q <= y
    <3> HIDE DEF Left
    <3> QED BY <2>1, LeastIn
  <2> HIDE DEF q
  <2>3. q \in Proc \ {Sh} /\ Live(env[q]) /\ q \in Nat
    BY <2>1, <2>2
  <2>4. PICK p \in Proc : Awaits(env[p], q)
    BY <2>3 DEF Inv, Tree, Live
  <2>5. p < q
    <3>1. env[p].child = q \/ env[p].right = q
      BY <2>4 DEF Awaits
    <3>2. q > p
      BY <2>3, <3>1, Constants DEF Inv, Numbered
    <3> QED BY <2>3, <3>2 DEF Proc
  <2>6. p # Sh
    BY <2>4 DEF At, Awaits, AwaitsChild, AwaitsRight
  <2>7. Live(env[p])
    BY <2>4 DEF Live, Awaits, AwaitsChild, AwaitsRight
  <2>8. p \in Left
    BY <2>6, <2>7
  <2>9. p \in Nat /\ q <= p
    BY <2>1, <2>2, <2>8
  <2> QED BY <2>3, <2>5, <2>9
<1>2. ASSUME NEW p \in Proc \ {Sh}
      PROVE  env[p].pc \in {"none", "dead"} /\ OpenFds(env[p]) = {}
  <2>1. env[p].pc \in {"none", "dead"}
    BY <1>1 DEF Live
  <2>2. Opens(env[p], {})
    BY <2>1, One DEF Shape
  <2> QED BY <2>1, <2>2, OpenSet
<1> QED BY <1>2

\* Types: whatever the line and however calls fail, every process is at a step of its
\* program, its descriptors refer to objects there are, and no pipe holds more bytes than
\* its ring has.
THEOREM ShellTypes ==
  Spec => []TypeOK
BY InvHolds, InvTypes, PTL

\* runcmd, parsecmd: for every line, with any number of commands and redirections, a
\* program runs with 0 and 1 as the line says and with nothing else open, and a reader
\* has the pipe of its left neighbour, never that of another '|'.
THEOREM ShellWired ==
  Spec => []Wired
BY InvHolds, InvWired, PTL

\* main, runcmd, spawn, exit: when the shell prompts again every process of the line is
\* gone with all its descriptors, unless a runcmd returned before wait(rightpipe).
THEOREM ShellPromptDone ==
  Spec => []PromptMeansDone
BY InvHolds, InvDone, PTL
=============================================================================
