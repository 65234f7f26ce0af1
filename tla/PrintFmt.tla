------------------------------ MODULE PrintFmt ------------------------------
(***************************************************************************)
(* lib/print.c: vprintfmt and its helpers, and the buffer user/lib/debugf.c*)
(* collects the output in.  A string is the sequence of its characters;    *)
(* what is read behind its last character is its NUL, once.                *)
(***************************************************************************)
EXTENDS SequencesExt, Loops

CONSTANTS
  W,          \* bits of an int and of a long (32 on this machine)
  BUF_LEN     \* size of debugf's buffer

ASSUME PrintAssumption == {W, BUF_LEN} \subseteq Nat \ {0}

NUL == "NUL"
Char(s, i) == IF i <= Len(s) THEN s[i] ELSE NUL

Digits == {"0", "1", "2", "3", "4", "5", "6", "7", "8", "9"}
DigitChars == <<"0", "1", "2", "3", "4", "5", "6", "7", "8", "9", "a", "b", "c", "d", "e", "f">>
DigitCharsUp == SubSeq(DigitChars, 1, 10) \o <<"A", "B", "C", "D", "E", "F">>
DigitValue(c) == (CHOOSE i \in 1..10 : DigitChars[i] = c) - 1
is_digit(c) == c \in Digits

LargerOf(a, b) == IF a < b THEN b ELSE a
Pad(c, n) == [i \in 1..n |-> c]

-----------------------------------------------------------------------------
print_char(c, length, ladjust) ==
  LET spaces == Pad(" ", LargerOf(length, 1) - 1)
  IN  IF ladjust THEN <<c>> \o spaces ELSE spaces \o <<c>>

print_str(s, length, ladjust) ==
  LET spaces == Pad(" ", LargerOf(length, Len(s)) - Len(s))
  IN  IF ladjust THEN s \o spaces ELSE spaces \o s

\* The digits of u, the last first: the do loop.
RevDigits(u, base, upcase) ==
  LET digit(v) == (IF upcase THEN DigitCharsUp ELSE DigitChars)[(v % base) + 1]
      more(d, i) == IF d.u = 0 THEN d
                    ELSE [u |-> d.u \div base, s |-> Append(d.s, digit(d.u))]
  IN  FoldLeft(more, [u |-> u \div base, s |-> <<digit(u)>>], Pad(0, W)).s

\* Mutant: a negative number is padded in front of its sign.
print_num_sign(u, base, neg_flag, length0, ladjust, padc0, upcase) ==
  LET digits == RevDigits(u, base, upcase) \o (IF neg_flag THEN <<"-">> ELSE <<>>)
      actualLength == Len(digits)
      length == LargerOf(length0, actualLength)
      padc == IF ladjust THEN " " ELSE padc0
      buf == digits \o Pad(padc, length - actualLength)
      end == IF ladjust THEN actualLength ELSE length
  IN  Reverse(SubSeq(buf, 1, end)) \o SubSeq(buf, end + 1, length)

\* buf is filled from the right end of the number, then reversed up to end.
print_num(u, base, neg_flag, length0, ladjust, padc0, upcase) ==
  LET digits == RevDigits(u, base, upcase) \o (IF neg_flag THEN <<"-">> ELSE <<>>)
      actualLength == Len(digits)
      length == LargerOf(length0, actualLength)
      padc == IF ladjust THEN " " ELSE padc0
      signLast == neg_flag /\ ~ladjust /\ padc = "0"
      buf == IF signLast
             THEN SubSeq(digits, 1, actualLength - 1) \o Pad(padc, length - actualLength) \o <<"-">>
             ELSE digits \o Pad(padc, length - actualLength)
      end == IF ladjust THEN actualLength ELSE length
  IN  Reverse(SubSeq(buf, 1, end)) \o SubSeq(buf, end + 1, length)

\* A long as an unsigned long: -num wraps for the smallest number.
Unsigned(num) == num % 2^W

Base(c) == CASE c = "b" -> 2 [] c \in {"o", "O"} -> 8 [] c \in {"x", "X"} -> 16 [] OTHER -> 10

\* What a conversion prints; an argument is [num, chr, str].
convert(c, arg, width, ladjust, padc) ==
  CASE c \in {"d", "D"} ->
         print_num(Unsigned(IF arg.num < 0 THEN -arg.num ELSE arg.num), 10, arg.num < 0, width,
                   ladjust, padc, FALSE)
    [] c \in {"b", "o", "O", "u", "U", "x", "X"} ->
         print_num(Unsigned(arg.num), Base(c), FALSE, width, ladjust, padc, c = "X")
    [] c = "c" -> print_char(arg.chr, width, ladjust)
    [] c = "s" -> print_str(arg.str, width, ladjust)

Conversions == {"b", "d", "D", "o", "O", "u", "U", "x", "X", "c", "s"}

\* The first position from i on that stops a scan.
Scan(fmt, i, Go(_)) == CHOOSE q \in i..(Len(fmt) + 1) :
  /\ q > Len(fmt) \/ ~Go(fmt[q])
  /\ \A j \in i..(q - 1) : Go(fmt[j])

\* One turn of the loop.  fmt has its position in pos, 1 past the NUL if it is overrun.
turn(fmt, args, s) ==
  LET q == Scan(fmt, s.pos, LAMBDA c : c # "%")
      text == s.out \o SubSeq(fmt, s.pos, q - 1)
      flag == Char(fmt, q + 1)
      w == q + 1 + (IF flag \in {"-", "0"} THEN 1 ELSE 0)
      l == Scan(fmt, w, is_digit)
      width == FoldLeft(LAMBDA n, c : n * 10 + DigitValue(c), 0, SubSeq(fmt, w, l - 1))
      p == IF Char(fmt, l) = "l" THEN l + 1 ELSE l
      c == Char(fmt, p)
      padc == IF flag = "0" THEN "0" ELSE " "
  IN  CASE s.done \/ s.pos > Len(fmt) + 1 -> s
        [] ~s.done /\ q > Len(fmt) -> [s EXCEPT !.out = text, !.pos = q, !.done = TRUE]
        [] ~s.done /\ q <= Len(fmt) /\ c \in Conversions ->
             [s EXCEPT !.out = text \o convert(c, args[s.arg], width, flag = "-", padc),
                       !.pos = p + 1, !.arg = @ + 1]
        [] ~s.done /\ q <= Len(fmt) /\ c = NUL -> [s EXCEPT !.out = text, !.pos = p]
        [] OTHER -> [s EXCEPT !.out = Append(text, c), !.pos = p + 1]

\* Mutant: the NUL behind an unfinished specifier is stepped over.
turn_past_nul(fmt, args, s) ==
  LET t == turn(fmt, args, s)
  IN  IF ~s.done /\ ~t.done /\ t.pos = Len(fmt) + 1 THEN [t EXCEPT !.pos = @ + 1] ELSE t

vprintfmt_past_nul(fmt, args) ==
  FoldLeft(LAMBDA s, i : turn_past_nul(fmt, args, s),
           [pos |-> 1, out |-> <<>>, arg |-> 1, done |-> FALSE], Pad(0, Len(fmt) + 2))

vprintfmt(fmt, args) ==
  FoldLeft(LAMBDA s, i : turn(fmt, args, s),
           [pos |-> 1, out |-> <<>>, arg |-> 1, done |-> FALSE], Pad(0, Len(fmt) + 2))

-----------------------------------------------------------------------------
(* debugf.c: the characters that have been flushed, and the buffer *)

Characters == Nat \X Nat    \* <<k, i>> is the i-th of chunk k
Contexts == [buf : Seq(Characters), cons : Seq(Characters)]
Outputs == [ctx : Contexts, s : Seq(Characters)]

debug_flush(ctx) == [buf |-> <<>>, cons |-> ctx.cons \o ctx.buf]

\* Mutant: what is left of the chunk is taken for all of it.
debug_output_again(ctx, s) ==
  LET fill[a \in Outputs] ==
        IF Len(a.ctx.buf) + Len(a.s) <= BUF_LEN THEN a
        ELSE LET n == BUF_LEN - Len(a.ctx.buf)
             IN  [ctx |-> debug_flush([a.ctx EXCEPT !.buf = @ \o SubSeq(a.s, 1, n)]),
                  s |-> SubSeq(a.s, n + 2, Len(a.s))]
      a == Iterate(fill, [ctx |-> ctx, s |-> s], Len(s) + 1)
  IN  [a.ctx EXCEPT !.buf = @ \o a.s]

debug_output(ctx, s) ==
  LET fill[a \in Outputs] ==
        IF Len(a.ctx.buf) + Len(a.s) <= BUF_LEN THEN a
        ELSE LET n == BUF_LEN - Len(a.ctx.buf)
             IN  [ctx |-> debug_flush([a.ctx EXCEPT !.buf = @ \o SubSeq(a.s, 1, n)]),
                  s |-> SubSeq(a.s, n + 1, Len(a.s))]
      a == Iterate(fill, [ctx |-> ctx, s |-> s], Len(s) + 1)
  IN  [a.ctx EXCEPT !.buf = @ \o a.s]

vdebugf(chunks) ==
  LET output[ctx \in Contexts] == [s \in Seq(Characters) |-> debug_output(ctx, s)]
  IN  debug_flush(Through(output, [buf |-> <<>>, cons |-> <<>>], chunks))

-----------------------------------------------------------------------------
(***************************************************************************)
(* What they should print: a number by its value, a field by its parts, a  *)
(* format by reading it one character at a time.                           *)
(***************************************************************************)
NDigits(u, base) == CHOOSE n \in 1..(W + 1) : u < base^n /\ (n = 1 \/ u >= base^(n - 1))
Numeral(u, base, upcase) ==
  LET n == NDigits(u, base)
  IN  [i \in 1..n |-> (IF upcase THEN DigitCharsUp ELSE DigitChars)
                        [((u \div base^(n - i)) % base) + 1]]

Field(sign, body, width, ladjust, padc) ==
  LET n == LargerOf(width - Len(sign) - Len(body), 0)
  IN  IF ladjust THEN sign \o body \o Pad(" ", n)
      ELSE IF padc = "0" THEN sign \o Pad("0", n) \o body
      ELSE Pad(" ", n) \o sign \o body

FieldOf(c, arg, width, ladjust, padc) ==
  CASE c \in {"d", "D"} ->
         Field(IF arg.num < 0 THEN <<"-">> ELSE <<>>,
               Numeral(IF arg.num < 0 THEN 0 - arg.num ELSE arg.num, 10, FALSE), width, ladjust, padc)
    [] c \in {"b", "o", "O", "u", "U", "x", "X"} ->
         Field(<<>>, Numeral(IF arg.num < 0 THEN 2^W + arg.num ELSE arg.num, Base(c), c = "X"),
               width, ladjust, padc)
    [] c = "c" -> Field(<<>>, <<arg.chr>>, width, ladjust, " ")
    [] c = "s" -> Field(<<>>, arg.str, width, ladjust, " ")

\* A specifier the format ends in is dropped, an unknown one prints its last character.
Formatted(fmt, args) ==
  LET new == [mode |-> "text", left |-> FALSE, padc |-> " ", width |-> 0]
      spec(a, c) ==
        IF c \in Conversions
        THEN [a EXCEPT !.p = new, !.k = @ + 1,
                       !.out = @ \o FieldOf(c, args[a.k], a.p.width, a.p.left, a.p.padc)]
        ELSE [a EXCEPT !.p = new, !.out = Append(@, c)]
      read(a, c) ==
        CASE a.p.mode = "text" /\ c # "%" -> [a EXCEPT !.out = Append(@, c)]
          [] a.p.mode = "text" /\ c = "%" -> [a EXCEPT !.p.mode = "flag"]
          [] a.p.mode = "flag" /\ c = "-" -> [a EXCEPT !.p.mode = "width", !.p.left = TRUE]
          [] a.p.mode = "flag" /\ c = "0" -> [a EXCEPT !.p.mode = "width", !.p.padc = "0"]
          [] a.p.mode \in {"flag", "width"} /\ is_digit(c) /\ ~(a.p.mode = "flag" /\ c = "0") ->
               [a EXCEPT !.p.mode = "width", !.p.width = 10 * @ + DigitValue(c)]
          [] a.p.mode \in {"flag", "width"} /\ c = "l" -> [a EXCEPT !.p.mode = "spec"]
          [] OTHER -> spec(a, c)
  IN  FoldLeft(read, [p |-> new, out |-> <<>>, k |-> 1], fmt).out
=============================================================================
