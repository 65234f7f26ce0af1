------------------------------- MODULE Tailq -------------------------------
(***************************************************************************)
(* The tail queue macros of include/queue.h on the links of struct Env, as *)
(* env.c, sched.c and syscall_all.c use them for 'env_sched_list'.         *)
(*                                                                         *)
(* A 'struct Env *' is a member of Env or NULL.  A 'struct Env **' (tqh_last*)
(* and tqe_prev) is the address of some tqe_next field, written as the Env *)
(* that holds it, or HEAD, the address of tqh_first, or NULL.  The macros  *)
(* never look whether the element is in the queue, and TAILQ_REMOVE leaves *)
(* the links of the removed element as they are: both matter as soon as a  *)
(* caller removes an element twice or inserts one twice.                   *)
(***************************************************************************)
EXTENDS MosBase, Sequences

CONSTANT HEAD

ASSUME HeadAssumption == HEAD \notin Env /\ HEAD # NULL

Tailq == [first : Env \union {NULL},
          last  : Env \union {HEAD, NULL},
          next  : [Env -> Env \union {NULL}],
          prev  : [Env -> Env \union {HEAD, NULL}],
          fault : BOOLEAN]

\* The bss is zero, then TAILQ_INIT.
TAILQ_INIT == [first |-> NULL, last |-> HEAD,
               next |-> [e \in Env |-> NULL], prev |-> [e \in Env |-> NULL],
               fault |-> FALSE]

TAILQ_EMPTY(q) == q.first = NULL
TAILQ_FIRST(q) == q.first

\* '*p = v' for a 'struct Env **p'.  A store through a null pointer is a TLB
\* miss on page 0 in kernel mode: passive_alloc panics, "address too low".
Store(q, p, v) ==
  IF p = HEAD THEN [q EXCEPT !.first = v]
  ELSE IF p = NULL THEN [q EXCEPT !.fault = TRUE]
  ELSE [q EXCEPT !.next[p] = v]

TAILQ_INSERT_HEAD(q, e) ==
  LET q1 == [q EXCEPT !.next[e] = q.first]
      q2 == IF q.first # NULL THEN [q1 EXCEPT !.prev[q.first] = e]
                              ELSE [q1 EXCEPT !.last = e]
  IN  [q2 EXCEPT !.first = e, !.prev[e] = HEAD]

TAILQ_INSERT_TAIL(q, e) ==
  LET q1 == [q EXCEPT !.next[e] = NULL, !.prev[e] = q.last]
      q2 == Store(q1, q1.last, e)
  IN  [q2 EXCEPT !.last = e]

TAILQ_REMOVE(q, e) ==
  LET q1 == IF q.next[e] # NULL
              THEN [q EXCEPT !.prev[q.next[e]] = q.prev[e]]
              ELSE [q EXCEPT !.last = q.prev[e]]
  IN  Store(q1, q1.prev[e], q1.next[e])

-----------------------------------------------------------------------------
(***************************************************************************)
(* What the links mean: q represents the sequence s when following the     *)
(* links from tqh_first visits s in order, every element points back at    *)
(* the link that leads to it, and tqh_last is the address of the link that *)
(* ends the queue.                                                         *)
(***************************************************************************)

NoDup(s) == \A i, j \in 1..Len(s) : s[i] = s[j] => i = j

Elems(s) == {s[i] : i \in 1..Len(s)}

Represents(q, s) ==
  /\ s \in Seq(Env)
  /\ NoDup(s)
  /\ ~q.fault
  /\ q.first = IF s = <<>> THEN NULL ELSE s[1]
  /\ q.last = IF s = <<>> THEN HEAD ELSE s[Len(s)]
  /\ \A i \in 1..Len(s) :
        /\ q.next[s[i]] = IF i = Len(s) THEN NULL ELSE s[i+1]
        /\ q.prev[s[i]] = IF i = 1 THEN HEAD ELSE s[i-1]

\* The sequence s without its element e.
Without(s, e) ==
  LET k == CHOOSE k \in 1..Len(s) : s[k] = e
  IN  [i \in 1..(Len(s) - 1) |-> IF i < k THEN s[i] ELSE s[i+1]]
=============================================================================
