------------------------------- MODULE Strings -------------------------------
(***************************************************************************)
(* Loops over bytes: memcpy and memset (lib/string.c), readline and        *)
(* gettoken (user/sh.c), and the tests of address ranges that system calls *)
(* start with (kern/syscall_all.c).                                        *)
(***************************************************************************)
EXTENDS SequencesExt, Loops

CONSTANTS
  BUFSIZE,    \* sizeof buf in the shell
  AddrSize,   \* number of addresses (2^32)
  UTEMP, UTOP,
  Devices     \* <<base, length>> of each device

ASSUME StringsAssumption ==
  /\ {BUFSIZE, AddrSize} \subseteq Nat \ {0} /\ UTEMP \in Nat /\ UTOP \in 0..(AddrSize - 1)
  /\ \A d \in Devices : d \in Nat \X Nat /\ d[1] + d[2] < AddrSize

Wrap(a) == a % AddrSize

-----------------------------------------------------------------------------
(* lib/string.c; ok: every word access so far was aligned *)

Copying(c) == [mem : [DOMAIN c.mem -> Int], dst : Int, src : Int, max : Int, ok : BOOLEAN]

\* Byte by byte, to the end or until a word begins.
copy_bytes(c, until) ==
  LET turn[a \in Copying(c)] ==
        IF a.dst >= a.max \/ (until = "word" /\ a.dst % 4 = 0) THEN a
        ELSE [a EXCEPT !.mem[a.dst] = a.mem[a.src], !.dst = @ + 1, !.src = @ + 1]
  IN  Iterate(turn, c, c.max - c.dst)

copy_words(c) ==
  LET turn[a \in Copying(c)] ==
        IF a.dst + 4 > a.max THEN a
        ELSE [a EXCEPT !.mem = [b \in DOMAIN a.mem |-> IF b \in a.dst..(a.dst + 3)
                                  THEN a.mem[a.src + (b - a.dst)] ELSE a.mem[b]],
                       !.ok = @ /\ a.dst % 4 = 0 /\ a.src % 4 = 0,
                       !.dst = @ + 4, !.src = @ + 4]
  IN  Iterate(turn, c, c.max - c.dst)

\* Mutant: alignment is tested for the destination alone.
memcpy_dst(mem, dst, src, n) ==
  LET c == [mem |-> mem, dst |-> dst, src |-> src, max |-> dst + n, ok |-> TRUE]
  IN  copy_bytes(copy_words(copy_bytes(c, "word")), "end")

memcpy(mem, dst, src, n) ==
  LET c == [mem |-> mem, dst |-> dst, src |-> src, max |-> dst + n, ok |-> TRUE]
  IN  IF src % 4 # dst % 4 THEN copy_bytes(c, "end")
      ELSE copy_bytes(copy_words(copy_bytes(c, "word")), "end")

Filling(a) == [mem : [DOMAIN a.mem -> Int], dst : Int, max : Int, ok : BOOLEAN]

fill(a, byte, step) ==
  [a EXCEPT !.mem = [b \in DOMAIN a.mem |-> IF b \in a.dst..(a.dst + step - 1)
                       THEN byte ELSE a.mem[b]],
            !.ok = @ /\ (step = 4 => a.dst % 4 = 0), !.dst = @ + step]

fill_bytes(c, byte, until) ==
  LET turn[a \in Filling(c)] ==
        IF a.dst >= a.max \/ (until = "word" /\ a.dst % 4 = 0) THEN a ELSE fill(a, byte, 1)
  IN  Iterate(turn, c, c.max - c.dst)

fill_words(c, byte) ==
  LET turn[a \in Filling(c)] == IF a.dst + 4 > a.max THEN a ELSE fill(a, byte, 4)
  IN  Iterate(turn, c, c.max - c.dst)

memset(mem, dst, byte, n) ==
  LET c == [mem |-> mem, dst |-> dst, max |-> dst + n, ok |-> TRUE]
  IN  fill_bytes(fill_words(fill_bytes(c, byte, "word"), byte), byte, "end")

-----------------------------------------------------------------------------
(***************************************************************************)
(* sh.c: readline.  The byte before buf, which it reads after a backspace  *)
(* at the start of the line, belongs to zero-initialised statics that the  *)
(* interactive shell never writes.                                         *)
(***************************************************************************)
NL == "NL"      \* '\n' or '\r'
DEL == "DEL"    \* '\b' or 0x7f

At(buf, i) == IF i < 0 THEN "NUL" ELSE buf[i]

\* Mutant: a backspace leaves the index where it is.
readline_step_stay(s, c) ==
  LET buf == [s.buf EXCEPT ![s.i] = c]
      i == IF c = DEL THEN s.i - 1 ELSE s.i
  IN  CASE s.state = "long" -> IF c = NL THEN [buf |-> s.buf, i |-> 0, state |-> "return"] ELSE s
        [] s.state = "read" /\ At(buf, i) = NL -> [buf |-> buf, i |-> i, state |-> "return"]
        [] s.state = "read" /\ At(buf, i) # NL ->
             [buf |-> buf, i |-> i + 1, state |-> IF i + 1 < BUFSIZE THEN "read" ELSE "long"]
        [] OTHER -> s

\* A character is read into buf[i]; the line ends at index i when it returns.
readline_step(s, c) ==
  LET buf == [s.buf EXCEPT ![s.i] = c]
      i == IF c # DEL THEN s.i ELSE IF s.i > 0 THEN s.i - 2 ELSE -1
  IN  CASE s.state = "long" -> IF c = NL THEN [buf |-> s.buf, i |-> 0, state |-> "return"] ELSE s
        [] s.state = "read" /\ At(buf, i) = NL -> [buf |-> buf, i |-> i, state |-> "return"]
        [] s.state = "read" /\ At(buf, i) # NL ->
             [buf |-> buf, i |-> i + 1, state |-> IF i + 1 < BUFSIZE THEN "read" ELSE "long"]
        [] OTHER -> s

\* The characters of the line, or <<"exit">> where the input ends.  The loop that skips the
\* rest of a line that is too long ends there too: the line is empty.
Keys == {NL, DEL, "NUL"} \union STRING
Lines == [buf : [0..(BUFSIZE - 1) -> Keys], i : Int, state : {"read", "long", "return"}]
readline(typed) ==
  LET read[s \in Lines] == [c \in Keys |-> readline_step(s, c)]
      s == Through(read, [buf |-> [i \in 0..(BUFSIZE - 1) |-> "NUL"], i |-> 0, state |-> "read"],
                   typed)
  IN  CASE s.state = "return" -> [i \in 1..s.i |-> s.buf[i - 1]]
        [] s.state = "long" -> <<>>
        [] s.state = "read" -> <<"exit">>

-----------------------------------------------------------------------------
(* sh.c: gettoken on the line s.buf, which it cuts into strings *)

WHITESPACE == {" "}
SYMBOLS == {"<", "|", ">", "&", ";", "(", ")"}
CharAt(buf, i) == IF i <= Len(buf) THEN buf[i] ELSE "NUL"

\* The first position from i on outside S, or the NUL; and the string at a position.
SkipSet(buf, i, S) == CHOOSE j \in i..(Len(buf) + 1) :
  (j > Len(buf) \/ buf[j] \notin S) /\ \A k \in i..(j - 1) : buf[k] \in S
WordEnd(buf, i) == CHOOSE j \in i..(Len(buf) + 1) :
  /\ CharAt(buf, j) \in WHITESPACE \union SYMBOLS \union {"NUL"}
  /\ \A k \in i..(j - 1) : buf[k] \notin WHITESPACE \union SYMBOLS \union {"NUL"}
StringAt(buf, i) ==
  SubSeq(buf, i, (CHOOSE j \in i..(Len(buf) + 1) : CharAt(buf, j) = "NUL"
                    /\ \A k \in i..(j - 1) : buf[k] # "NUL") - 1)

Cleared(buf, i, j) == [k \in 1..Len(buf) |-> IF k \in i..j THEN "NUL" ELSE buf[k]]

\* Mutant: a symbol is not replaced by a NUL.
next_token_keep(buf, s) ==
  LET p == SkipSet(buf, s, WHITESPACE)
      blank == Cleared(buf, s, p - 1)
      c == CharAt(blank, p)
  IN  CASE s = 0 \/ c = "NUL" -> [buf |-> IF s = 0 THEN buf ELSE blank, c |-> "0", p1 |-> 0, p2 |-> 0]
        [] s # 0 /\ c \in SYMBOLS -> [buf |-> blank, c |-> c, p1 |-> p, p2 |-> p + 1]
        [] OTHER -> [buf |-> blank, c |-> "w", p1 |-> p, p2 |-> WordEnd(blank, p)]

\* _gettoken
next_token(buf, s) ==
  LET p == SkipSet(buf, s, WHITESPACE)
      blank == Cleared(buf, s, p - 1)
      c == CharAt(blank, p)
  IN  CASE s = 0 -> [buf |-> buf, c |-> "0", p1 |-> 0, p2 |-> 0]
        [] s # 0 /\ c = "NUL" -> [buf |-> blank, c |-> "0", p1 |-> 0, p2 |-> 0]
        [] s # 0 /\ c \in SYMBOLS -> [buf |-> Cleared(blank, p, p), c |-> c, p1 |-> p, p2 |-> p + 1]
        [] OTHER -> [buf |-> blank, c |-> "w", p1 |-> p, p2 |-> WordEnd(blank, p)]

\* gettoken(line, 0), then gettoken(0, &t) until it returns 0: a token is read ahead, so
\* that a word has been cut off by the time it is returned.
Tokenizing ==
  [buf : Seq(Keys), nc : {"0", "w"} \union Keys, np1 : Nat, np2 : Nat, out : Seq(Seq(Keys))]
gettokens(line) ==
  LET get[a \in Tokenizing] ==
        IF a.nc = "0" THEN a
        ELSE LET n == next_token(a.buf, a.np2)
             IN  [buf |-> n.buf, nc |-> n.c, np1 |-> n.p1, np2 |-> n.p2,
                  out |-> Append(a.out, IF a.nc = "w" THEN StringAt(n.buf, a.np1) ELSE <<a.nc>>)]
      first == next_token(line, 1)
  IN  Iterate(get, [buf |-> first.buf, nc |-> first.c, np1 |-> first.p1, np2 |-> first.p2,
                    out |-> <<>>], Len(line) + 1).out

-----------------------------------------------------------------------------
(* kern/syscall_all.c: addresses wrap around *)

is_illegal_va_range(va, len) ==
  len # 0 /\ (Wrap(va + len) < va \/ va < UTEMP \/ Wrap(va + len) > UTOP)

in_range(base, range, begin, len) == base <= begin /\ Wrap(begin + len) <= Wrap(base + range)

\* Mutant: the sum is not tested for having wrapped.
is_illegal_dev_pa_range_wrap(pa, len) ==
  len # 0 /\ ~\E d \in Devices : in_range(d[1], d[2], pa, len)

is_illegal_dev_pa_range(pa, len) ==
  len # 0 /\ (Wrap(pa + len) < pa \/ ~\E d \in Devices : in_range(d[1], d[2], pa, len))

\* sys_write_dev and sys_read_dev: whether the copy is made.
sys_dev(va, pa, len) == ~is_illegal_va_range(va, len) /\ ~is_illegal_dev_pa_range(pa, len)

sys_print_cons(s, num) == ~(Wrap(s + num) > UTOP \/ s >= UTOP \/ s > Wrap(s + num))
=============================================================================
