------------------------------ MODULE MCNames ------------------------------
(* The host files of the run of FsNames *)
EXTENDS FsNames

F(n, s) == [name |-> n, dir |-> FALSE, size |-> s, kids |-> <<>>]
D(n, k) == [name |-> n, dir |-> TRUE, size |-> 0, kids |-> k]

\* Files of every kind of size; directories in directories, of more blocks than there are
\* direct pointers, empty; a disk that is exactly full; a file that is too large.
MCHosts ==
  {<<F("a", i), D("d", <<F("a", j)>>), F("b", k)>> : i, k \in {0, 1, 4, 5, 8}, j \in {0, 2, 3}}
  \union {
  <<F("a", 8), F("b", 8), F("c", 6), F("d", 0)>>,
  <<D("d", <<F("a", 2), D("d", <<F("a", 3), F("b", 5)>>), F("b", 6)>>), F("a", 1)>>,
  <<D("d", <<F("a", 0), F("b", 0), F("c", 0), F("e", 1), F("f", 2)>>), D("e", <<>>)>>,
  <<F("a", 2), D("b", <<D("c", <<F("d", 1)>>), F("a", 7)>>)>>,
  <<F("a", 9)>>}

\* All that is in them, three levels deep.
Kids(S) == UNION {ToSet(f.kids) : f \in S}
MCHostFile ==
  LET top == UNION {ToSet(h) : h \in MCHosts}
  IN  top \union Kids(top) \union Kids(Kids(top))
=============================================================================
