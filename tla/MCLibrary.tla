----------------------------- MODULE MCLibrary -----------------------------
(* The inputs of the run of Library *)
EXTENDS Library

FmtChars == {"%", "-", "0", "2", "l", "d", "x", "s", "c", "?"}
MCFormats ==
  UNION {[1..n -> FmtChars] : n \in 0..3} \union {<<"%">> \o f : f \in [1..4 -> FmtChars]}
MCArgs ==
  [k \in 1..8 |-> [num |-> IF k % 2 = 1 THEN -(2^(W - 1)) ELSE 11, chr |-> "q", str |-> <<"x", "y", "z">>]]
MCTyped == UNION {[1..n -> {"a", "b", NL, DEL}] : n \in 0..7}
MCLines == UNION {[1..n -> {"a", " ", "<", "|"}] : n \in 0..6}
MCDevices == {<<8, 2>>, <<16, 5>>, <<28, 1>>}

\* Segments with their bytes at byte off of the file.
Segments(off, starts, sizes) ==
  {ph \in [p_offset : {off}, p_vaddr : starts, p_filesz : sizes, p_memsz : sizes] :
     ph.p_filesz <= ph.p_memsz}
Sizes == {0, 1, 7, 23, 24, 25, 31, 32, 33, 55, 56, 57, 64, 65, 70}
FewSizes == {0, 7, 24, 33, 56}
\* A few, one of which starts inside a page and ends in it.
MCFewPrograms == {<<ph>> : ph \in Segments(100, {0, 8}, FewSizes)}
\* One segment of any kind; two, on the same pages, next to each other or apart, in either order.
MCPrograms ==
  {<<ph>> : ph \in Segments(100, {0, 1, 8, 31, 33}, Sizes)}
    \union {<<p, q>> : p \in Segments(100, {0, 40, 72}, FewSizes), q \in Segments(200, {0, 40, 64}, FewSizes)}
=============================================================================
