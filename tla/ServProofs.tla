----------------------------- MODULE ServProofs -----------------------------
(***************************************************************************)
(* The file system server for any number of clients, files, descriptors    *)
(* and slots: the types, and that a descriptor keeps denoting the file it  *)
(* was opened for unless an open finds the table full.                     *)
(***************************************************************************)
EXTENDS FsServ, WellFoundedInduction, FiniteSetTheorems, TLAPS

\* Calls for which the Filefd page of loc[c].fd is mapped.
WithFile == {"open_map", "dirty", "close", "set_size", "ext_map", "undo"}

InCall == {"send", "sent", "wait"}

\* What the library call of c in progress relies on.
CallOK(c) ==
  LET l == loc[c]
  IN  /\ c \notin running => l.pc = "user"
      /\ l.pc # "user" /\ l.call \in WithFile => fds[c][l.fd] # None
      /\ l.pc \in InCall /\ l.call = "open" =>
           /\ buf[c].type = "OPEN" /\ buf[c].file = l.file
           /\ l.file \in File
           /\ l.fd < MAXFD - 1 /\ fds[c][l.fd] = None
      /\ l.pc \in InCall /\ l.call # "open" => buf[c].type # "OPEN"
      /\ l.pc = "got" /\ l.call = "open" /\ l.r = "ok" => fds[c][l.fd] # None
      /\ l.pc \in {"sent", "wait"} => srv.who = c /\ srv.pc \in {"serve", "reply"}

\* The server's answer to a client that still waits for it: the page goes with it
\* exactly when an open has succeeded, and belongs to the file asked for.
ServOK ==
  /\ srv.pc \in {"serve", "reply", "tail"} => srv.who \in Proc
  /\ srv.pc = "serve" => loc[srv.who].pc \in {"sent", "wait"}
  /\ srv.pc = "reply" /\ loc[srv.who].pc \in {"sent", "wait"} =>
       LET l == loc[srv.who]
       IN  /\ l.call = "open" /\ srv.r = "ok" => srv.slot # None
           /\ srv.slot # None => l.call = "open" /\ srv.r = "ok"

\* fd_alloc never hands out the last descriptor.
LowFds == \A c \in Proc, d \in Fd : fds[c][d] # None => d < MAXFD - 1

ServInv == TypeOK /\ (\A c \in Proc : CallOK(c)) /\ ServOK /\ LowFds

\* The fileid of a slot tells the slot.
Fileids == \A s \in Slot : opentab[s].fileid % MAXOPEN = s

\* A page in use, or about to be, carries the fileid and the file of its slot.
Current(s, f) == opentab[s].file = f /\ ff[s].fileid = opentab[s].fileid

Pages ==
  /\ \A c \in Proc, d \in Fd : fds[c][d] # None => Current(fds[c][d].slot, fds[c][d].file)
  /\ srv.pc = "reply" /\ srv.slot # None => Current(srv.slot, loc[srv.who].file)

\* The code after the error of a full table is not reached, and an answer is for a
\* client that waits for it.
NoTail ==
  /\ srv.pc # "tail" /\ srv.then = "loop"
  /\ srv.pc = "reply" => loc[srv.who].pc \in {"sent", "wait"}

DescInv == ServInv /\ Fileids /\ Pages /\ NoTail

\* When the server takes up an OPEN, open_alloc finds a slot.
OpenFindsSlot == srv.pc = "serve" /\ buf[srv.who].type = "OPEN" => FreeSlots # {}

-----------------------------------------------------------------------------
(* Numbers and records *)

\* A set of numbers that is not empty has a least element: what the loops of
\* open_alloc, fd_alloc and close_all stop at.
LEMMA Least ==
  ASSUME NEW S, S \subseteq Nat, S # {}
  PROVE  \E s \in S : \A t \in S : s <= t
<1>1. \E s \in S : \A t \in S : ~(<<t, s>> \in OpToRel(<, Nat))
  BY NatLessThanWellFounded, WFMin, Zenon
<1>2. PICK s \in S : \A t \in S : ~(<<t, s>> \in OpToRel(<, Nat))
  BY <1>1, Zenon
<1>3. \A t \in S : ~(t < s)
  BY <1>2, Zenon DEF OpToRel
<1>. QED
  BY <1>3

\* open_alloc returns a slot that nobody uses.
LEMMA AllocFree ==
  ASSUME FreeSlots # {}
  PROVE  open_alloc \in FreeSlots /\ open_alloc \in Slot
<1>1. FreeSlots \subseteq Slot /\ Slot \subseteq Nat
  BY FsServAssumption DEF FreeSlots, Slot
<1>2. \E s \in FreeSlots : \A t \in FreeSlots : s <= t
  BY <1>1, Least
<1>3. open_alloc \in FreeSlots
  BY <1>2 DEF open_alloc
<1>. QED
  BY <1>1, <1>3

LEMMA DivMod ==
  ASSUME NEW x \in Nat, NEW m \in Nat \ {0}
  PROVE  /\ x \div m \in Int /\ x % m \in Int
         /\ 0 <= x % m /\ x % m < m
         /\ x = m * (x \div m) + (x % m)
OBVIOUS

LEMMA PositiveMultiple ==
  ASSUME NEW q \in Int, NEW m \in Nat \ {0}, m * q > 0
  PROVE  m * q >= m
<1>1. q >= 1
  OBVIOUS
<1>. QED
  BY <1>1

\* open_alloc adds MAXOPEN to the fileid, which stays in its class.
LEMMA NextFileid ==
  ASSUME NEW n \in Nat
  PROVE  (n + MAXOPEN) % MAXOPEN = n % MAXOPEN
<1>. DEFINE m == MAXOPEN
            p == n \div m
            r == n % m
            q == (n + m) \div m
            s == (n + m) % m
<1>1. m \in Nat \ {0} /\ n + m \in Nat
  BY FsServAssumption
<1>2. n = m * p + r /\ p \in Int /\ r \in Int /\ 0 <= r /\ r < m
  BY <1>1, DivMod
<1>3. n + m = m * q + s /\ q \in Int /\ s \in Int /\ 0 <= s /\ s < m
  BY <1>1, DivMod
<1>. HIDE DEF m, p, r, q, s
<1>4. s - r = m * (p + 1 - q) /\ r - s = m * (q - p - 1)
  BY <1>1, <1>2, <1>3
<1>5. ~(m * (p + 1 - q) > 0) /\ ~(m * (q - p - 1) > 0)
  BY <1>1, <1>2, <1>3, <1>4, PositiveMultiple
<1>6. s = r
  BY <1>1, <1>2, <1>3, <1>4, <1>5
<1>. QED
  BY <1>6 DEF m, r, s

\* Fields of Local keep their types.
LEMMA LocalFields ==
  /\ Idle \in Local
  /\ \A b \in BOOLEAN : [Idle EXCEPT !.exiting = b] \in Local
  /\ \A l \in Local : /\ [l EXCEPT !.pc = "send"] \in Local
                      /\ [l EXCEPT !.pc = "sent"] \in Local
                      /\ [l EXCEPT !.pc = "wait"] \in Local
                      /\ \A r \in Result : [l EXCEPT !.pc = "got", !.r = r] \in Local
<1>1. Idle \in Local
  BY FsServAssumption DEF Idle, Local, Fd, Size, Result
<1>2. \A b \in BOOLEAN : [Idle EXCEPT !.exiting = b] \in Local
  BY <1>1 DEF Local
<1>3. \A l \in Local : /\ [l EXCEPT !.pc = "send"] \in Local
                       /\ [l EXCEPT !.pc = "sent"] \in Local
                       /\ [l EXCEPT !.pc = "wait"] \in Local
  BY DEF Local
<1>4. \A l \in Local, r \in Result : [l EXCEPT !.pc = "got", !.r = r] \in Local
  BY DEF Local
<1>. QED
  BY <1>1, <1>2, <1>3, <1>4

-----------------------------------------------------------------------------
(* ServInv: the client's steps *)

LEMMA InitServ == Init => ServInv
<1>. SUFFICES ASSUME Init PROVE ServInv
  OBVIOUS
<1>1. TypeOK
  <2>1. loc \in [Proc -> Local]
    BY LocalFields DEF Init
  <2>2. buf \in [Proc -> Req]
    BY FsServAssumption DEF Init, NoReq, Req, ReqType, Size
  <2>3. opentab \in [Slot -> [fileid : Nat, file : File \union {None}]]
    BY FsServAssumption DEF Init, Slot
  <2>4. ff \in [Slot -> [fileid : Nat, size : Size]]
    BY FsServAssumption DEF Init, Slot, Size
  <2>5. srv \in Server
    BY DEF Init, Waiting, Server, Result
  <2>. QED
    BY FsServAssumption, <2>1, <2>2, <2>3, <2>4, <2>5 DEF TypeOK, Init, Size
<1>2. (\A c \in Proc : CallOK(c)) /\ ServOK /\ LowFds
  BY FsServAssumption DEF Init, Idle, Waiting, CallOK, ServOK, LowFds, InCall
<1>. QED
  BY <1>1, <1>2 DEF ServInv

\* A client begins a call, or goes on with one, and sends a request.
LEMMA RequestServ ==
  ASSUME ServInv, NEW c \in running, loc[c].pc \in {"user", "got"},
         NEW type \in ReqType, NEW file \in File \union {None}, NEW fileid \in Nat,
         NEW arg \in Size, NEW l \in Local, Request(c, type, file, fileid, arg, l),
         l.call \in WithFile => fds[c][l.fd] # None,
         l.call = "open" => /\ type = "OPEN" /\ file = l.file /\ l.file \in File
                            /\ l.fd < MAXFD - 1 /\ fds[c][l.fd] = None,
         l.call # "open" => type # "OPEN",
         UNCHANGED <<running, fds, opentab, size, srv>>,
         ff' \in [Slot -> [fileid : Nat, size : Size]], ops' \in 0..MaxOps
  PROVE  ServInv'
<1>. c \in Proc
  BY DEF ServInv, TypeOK
<1>1. /\ loc' = [loc EXCEPT ![c] = [l EXCEPT !.pc = "send"]]
      /\ buf' = [buf EXCEPT ![c] = [type |-> type, file |-> file, fileid |-> fileid, arg |-> arg]]
  BY DEF Request
<1>2. [l EXCEPT !.pc = "send"] \in Local
  BY LocalFields
<1>3. TypeOK'
  <2>1. loc' \in [Proc -> Local]
    BY <1>1, <1>2 DEF ServInv, TypeOK
  <2>2. buf' \in [Proc -> Req]
    BY <1>1 DEF ServInv, TypeOK, Req
  <2>. QED
    BY <2>1, <2>2 DEF ServInv, TypeOK
<1>4. ASSUME NEW k \in Proc PROVE CallOK(k)'
  <2>0. CallOK(k)
    BY DEF ServInv
  <2>1. CASE k # c
    <3>1. loc'[k] = loc[k] /\ buf'[k] = buf[k]
      BY <1>1, <2>1 DEF ServInv, TypeOK
    <3>. QED
      BY <2>0, <3>1 DEF CallOK
  <2>2. CASE k = c
    <3>1. loc'[c] = [l EXCEPT !.pc = "send"] /\ buf'[c].type = type /\ buf'[c].file = file
      BY <1>1 DEF ServInv, TypeOK
    <3>2. /\ loc'[c].pc = "send" /\ loc'[c].call = l.call
          /\ loc'[c].fd = l.fd /\ loc'[c].file = l.file
      BY <3>1 DEF Local
    <3>. QED
      BY <2>2, <3>1, <3>2 DEF CallOK, InCall
  <2>. QED
    BY <2>1, <2>2
<1>5. ServOK'
  <2>1. loc'[c].pc = "send"
    BY <1>1 DEF ServInv, TypeOK, Local
  <2>2. \A k \in Proc : k # c => loc'[k] = loc[k]
    BY <1>1 DEF ServInv, TypeOK
  <2>. QED
    BY <2>1, <2>2 DEF ServInv, ServOK
<1>. QED
  BY <1>3, <1>4, <1>5 DEF ServInv, LowFds

\* A client returns to the program; only it may have changed its descriptors.
LEMMA ReturnServ ==
  ASSUME ServInv, NEW c \in Proc, loc[c].pc = "got", Return(c),
         UNCHANGED <<running, opentab, ff, size, srv, ops>>,
         NEW g \in [Fd -> [slot : Slot, file : File] \union {None}],
         fds' = [fds EXCEPT ![c] = g],
         \A d \in Fd : g[d] # None => d < MAXFD - 1
  PROVE  ServInv'
<1>1. /\ loc' = [loc EXCEPT ![c] = [Idle EXCEPT !.exiting = loc[c].exiting]]
      /\ buf' = buf
  BY DEF Return
<1>2. loc[c].exiting \in BOOLEAN
  BY DEF ServInv, TypeOK, Local
<1>3. [Idle EXCEPT !.exiting = loc[c].exiting] \in Local
  BY <1>2, LocalFields
<1>4. TypeOK'
  BY <1>1, <1>3 DEF ServInv, TypeOK
<1>5. loc'[c].pc = "user" /\ loc'[c].call = "none"
  BY <1>1 DEF ServInv, TypeOK, Idle
<1>6. \A k \in Proc : k # c => loc'[k] = loc[k] /\ fds'[k] = fds[k]
  BY <1>1 DEF ServInv, TypeOK
<1>7. ASSUME NEW k \in Proc PROVE CallOK(k)'
  <2>1. CASE k # c
    BY <1>1, <1>6, <2>1 DEF ServInv, CallOK
  <2>2. CASE k = c
    BY <1>5, <2>2 DEF CallOK, InCall
  <2>. QED
    BY <2>1, <2>2
<1>8. ServOK'
  BY <1>5, <1>6 DEF ServInv, ServOK
<1>9. LowFds'
  BY <1>6 DEF ServInv, TypeOK, LowFds
<1>. QED
  BY <1>4, <1>7, <1>8, <1>9 DEF ServInv

LEMMA KeepFds ==
  ASSUME ServInv, NEW c \in Proc
  PROVE  /\ fds[c] \in [Fd -> [slot : Slot, file : File] \union {None}]
         /\ fds = [fds EXCEPT ![c] = fds[c]]
         /\ \A d \in Fd : fds[c][d] # None => d < MAXFD - 1
  BY DEF ServInv, TypeOK, LowFds

\* What the page of an open descriptor says.
LEMMA FdTypes ==
  ASSUME ServInv, NEW c \in Proc, NEW d \in Fd, fds[c][d] # None
  PROVE  /\ fds[c][d].slot \in Slot /\ fds[c][d].file \in File
         /\ ff[fds[c][d].slot].fileid \in Nat /\ ff[fds[c][d].slot].size \in Size
<1>1. fds[c][d] \in [slot : Slot, file : File]
  BY DEF ServInv, TypeOK
<1>. QED
  BY <1>1 DEF ServInv, TypeOK

LEMMA LocTypes ==
  ASSUME ServInv, NEW c \in Proc
  PROVE  /\ loc[c] \in Local /\ loc[c].fd \in Fd /\ loc[c].i \in Size /\ loc[c].n \in Size
         /\ loc[c].old \in Size /\ loc[c].r \in Result /\ loc[c].exiting \in BOOLEAN
         /\ loc[c].file \in File \union {None}
         /\ loc[c].pc # "user" => c \in running
<1>1. loc[c] \in Local
  BY DEF ServInv, TypeOK
<1>2. loc[c].pc # "user" => c \in running
  BY DEF ServInv, CallOK
<1>. QED
  BY <1>1, <1>2 DEF Local

LEMMA StartServ ==
  ASSUME ServInv, NEW c \in Proc, Start(c)
  PROVE  c \in running /\ loc[c].pc = "user" /\ ops' \in 0..MaxOps
  BY FsServAssumption DEF ServInv, TypeOK, Start

\* The loop over the pages of a file: the next MAP or the return.
LEMMA MapServ ==
  ASSUME ServInv, NEW c \in Proc, loc[c].pc = "got", NEW l \in Local, MapFrom(c, l),
         l.call \in {"open_map", "ext_map"}, l.fd = loc[c].fd, fds[c][l.fd] # None,
         UNCHANGED <<client, server>>
  PROVE  ServInv'
<1>1. c \in running
  BY LocTypes
<1>u. UNCHANGED <<running, fds, ops, opentab, ff, size, srv>>
  BY DEF client, server
<1>2. CASE l.i < l.n
  <2>1. l.i \in Size /\ l.n \in Size /\ l.fd \in Fd
    BY DEF Local
  <2>2. l.i + 1 \in Size
    BY <1>2, <2>1, FsServAssumption DEF Size
  <2>3. Request(c, "MAP", None, Fileid(c), l.i, [l EXCEPT !.i = l.i + 1])
    BY <1>2 DEF MapFrom
  <2>4. [l EXCEPT !.i = l.i + 1] \in Local
    BY <2>2 DEF Local
  <2>5. /\ [l EXCEPT !.i = l.i + 1].call = l.call /\ [l EXCEPT !.i = l.i + 1].fd = l.fd
    BY DEF Local
  <2>6. Fileid(c) \in Nat
    BY <2>1, FdTypes DEF Fileid
  <2>. DEFINE l2 == [l EXCEPT !.i = l.i + 1]
  <2>7. l2 \in Local /\ l2.call = l.call /\ l2.fd = l.fd /\ Request(c, "MAP", None, Fileid(c), l.i, l2)
    BY <2>3, <2>4, <2>5
  <2>. HIDE DEF l2
  <2>8. ff' \in [Slot -> [fileid : Nat, size : Size]] /\ ops' \in 0..MaxOps
    BY <1>u DEF ServInv, TypeOK
  <2>. QED
    BY <1>1, <1>u, <2>1, <2>6, <2>7, <2>8, RequestServ DEF ReqType
<1>3. CASE ~(l.i < l.n)
  BY <1>u, <1>3, ReturnServ, KeepFds DEF MapFrom
<1>. QED
  BY <1>2, <1>3

\* file_close: the next DIRTY or the CLOSE.
LEMMA CloseServ ==
  ASSUME ServInv, NEW c \in running, loc[c].pc \in {"user", "got"}, NEW l \in Local,
         CloseFrom(c, l.fd, l), fds[c][l.fd] # None,
         UNCHANGED <<running, fds, opentab, ff, size, srv>>, ops' \in 0..MaxOps
  PROVE  ServInv'
<1>. DEFINE id == ff[fds[c][l.fd].slot].fileid
<1>0. c \in Proc
  BY DEF ServInv, TypeOK
<1>1. l.i \in Size /\ l.n \in Size /\ l.fd \in Fd /\ 0 \in Size
  BY FsServAssumption DEF Local, Size
<1>2. id \in Nat /\ ff' \in [Slot -> [fileid : Nat, size : Size]]
  BY <1>0, <1>1, FdTypes DEF ServInv, TypeOK
<1>. HIDE DEF id
<1>3. CASE l.i < l.n
  <2>. DEFINE l2 == [l EXCEPT !.call = "dirty", !.i = l.i + 1]
  <2>1. Request(c, "DIRTY", None, id, l.i, l2)
    BY <1>3 DEF CloseFrom, id
  <2>2. l.i + 1 \in Size
    BY <1>1, <1>3, FsServAssumption DEF Size
  <2>3. l2 \in Local /\ l2.call = "dirty" /\ l2.fd = l.fd
    BY <2>2 DEF Local
  <2>. HIDE DEF l2
  <2>. QED
    BY <1>1, <1>2, <2>1, <2>3, RequestServ DEF ReqType
<1>4. CASE ~(l.i < l.n)
  <2>. DEFINE l2 == [l EXCEPT !.call = "close"]
  <2>1. Request(c, "CLOSE", None, id, 0, l2)
    BY <1>4 DEF CloseFrom, id
  <2>2. l2 \in Local /\ l2.call = "close" /\ l2.fd = l.fd
    BY DEF Local
  <2>. HIDE DEF l2
  <2>. QED
    BY <1>1, <1>2, <2>1, <2>2, RequestServ DEF ReqType
<1>. QED
  BY <1>3, <1>4

LEMMA BeginCloseServ ==
  ASSUME ServInv, NEW c \in running, loc[c].pc = "user", NEW d \in Fd, NEW b \in BOOLEAN,
         BeginClose(c, d, b), ops' \in 0..MaxOps
  PROVE  ServInv'
<1>. DEFINE n == ff[fds[c][d].slot].size
            l == [Idle EXCEPT !.fd = d, !.n = n, !.exiting = b]
<1>1. fds[c][d] # None /\ CloseFrom(c, d, l) /\ UNCHANGED <<running, fds, opentab, ff, size, srv>>
  BY DEF BeginClose, server
<1>2. n \in Size /\ c \in Proc
  BY <1>1, FdTypes DEF ServInv, TypeOK
<1>. HIDE DEF n
<1>3. \A k \in Local, x \in BOOLEAN : [k EXCEPT !.fd = d, !.n = n, !.exiting = x] \in Local
  BY <1>2 DEF Local
<1>4. l \in Local
  BY <1>3, LocalFields
<1>5. l.fd = d
  BY DEF Idle
<1>. HIDE DEF l
<1>. QED
  BY <1>1, <1>4, <1>5, CloseServ

LEMMA SendServ ==
  ASSUME ServInv, NEW c \in Proc, Send(c)
  PROVE  ServInv'
<1>1. /\ loc[c].pc = "send" /\ srv.pc = "recving"
      /\ loc' = [loc EXCEPT ![c].pc = "sent"]
      /\ srv' = [srv EXCEPT !.pc = "serve", !.who = c]
      /\ UNCHANGED <<running, fds, ops, buf, opentab, ff, size>>
  BY DEF Send, client
<1>2. loc[c] \in Local /\ loc'[c] = [loc[c] EXCEPT !.pc = "sent"] /\ loc'[c] \in Local
  BY <1>1, LocalFields DEF ServInv, TypeOK
<1>3. \A k \in Proc : k # c => loc'[k] = loc[k]
  BY <1>1 DEF ServInv, TypeOK
<1>4. srv' \in Server /\ srv'.pc = "serve" /\ srv'.who = c
  BY <1>1 DEF ServInv, TypeOK, Server
<1>5. TypeOK'
  BY <1>1, <1>2, <1>4 DEF ServInv, TypeOK
<1>6. ASSUME NEW k \in Proc PROVE CallOK(k)'
  <2>1. CASE k # c
    BY <1>1, <1>3, <1>4, <2>1 DEF ServInv, CallOK
  <2>2. CASE k = c
    BY <1>1, <1>2, <1>4, <2>2 DEF ServInv, CallOK, InCall, Local
  <2>. QED
    BY <2>1, <2>2
<1>7. ServOK'
  BY <1>2, <1>4 DEF ServOK, Local
<1>. QED
  BY <1>1, <1>5, <1>6, <1>7 DEF ServInv, LowFds

LEMMA RecvServ ==
  ASSUME ServInv, NEW c \in Proc, Recv(c)
  PROVE  ServInv'
<1>1. /\ loc[c].pc = "sent"
      /\ loc' = [loc EXCEPT ![c].pc = "wait"]
      /\ UNCHANGED <<running, fds, ops, buf, opentab, ff, size, srv>>
  BY DEF Recv, client, server
<1>2. loc[c] \in Local /\ loc'[c] = [loc[c] EXCEPT !.pc = "wait"] /\ loc'[c] \in Local
  BY <1>1, LocalFields DEF ServInv, TypeOK
<1>3. \A k \in Proc : k # c => loc'[k] = loc[k]
  BY <1>1 DEF ServInv, TypeOK
<1>5. TypeOK'
  BY <1>1, <1>2 DEF ServInv, TypeOK
<1>6. ASSUME NEW k \in Proc PROVE CallOK(k)'
  <2>1. CASE k # c
    BY <1>1, <1>3, <2>1 DEF ServInv, CallOK
  <2>2. CASE k = c
    BY <1>1, <1>2, <2>2 DEF ServInv, CallOK, InCall, Local
  <2>. QED
    BY <2>1, <2>2
<1>7. ServOK'
  <2>1. loc'[c].pc = "wait" /\ loc'[c].call = loc[c].call
    BY <1>2 DEF Local
  <2>. QED
    BY <1>1, <1>3, <2>1 DEF ServInv, ServOK
<1>. QED
  BY <1>1, <1>5, <1>6, <1>7 DEF ServInv, LowFds

LEMMA RepliesServ ==
  ASSUME ServInv, NEW c \in Proc,
         open_reply(c) \/ dirty_reply(c) \/ close_reply(c) \/ ftruncate_reply(c) \/ plain_reply(c)
  PROVE  ServInv'
<1>1. /\ loc[c].pc = "got" /\ loc[c] \in Local /\ loc[c].fd \in Fd /\ c \in running
      /\ loc[c].old \in Size
  BY LocTypes DEF open_reply, dirty_reply, close_reply, ftruncate_reply, plain_reply
<1>2. CASE Return(c) /\ UNCHANGED <<client, server>>
  BY <1>1, <1>2, ReturnServ, KeepFds DEF client, server
<1>3. CASE open_reply(c) /\ ~Return(c)
  <2>1. loc[c].r = "ok" /\ loc[c].call \in {"open", "open_map"} /\ UNCHANGED <<client, server>>
    BY <1>1, <1>3 DEF open_reply, Local, Result
  <2>2. fds[c][loc[c].fd] # None
    BY <1>1, <2>1 DEF ServInv, CallOK, WithFile
  <2>. DEFINE n == ff[fds[c][loc[c].fd].slot].size
              l == IF loc[c].call = "open" THEN [loc[c] EXCEPT !.call = "open_map", !.n = n] ELSE loc[c]
  <2>3. n \in Size
    BY <1>1, <2>2, FdTypes
  <2>4. MapFrom(c, l)
    BY <1>3, <2>1 DEF open_reply
  <2>. HIDE DEF n
  <2>5. l \in Local /\ l.call = "open_map" /\ l.fd = loc[c].fd
    BY <1>1, <2>1, <2>3 DEF Local
  <2>. HIDE DEF l
  <2>. QED
    BY <1>1, <2>1, <2>2, <2>4, <2>5, MapServ
<1>4. CASE dirty_reply(c)
  <2>1. CloseFrom(c, loc[c].fd, loc[c]) /\ UNCHANGED <<client, server>> /\ loc[c].call = "dirty"
    BY <1>4 DEF dirty_reply
  <2>2. fds[c][loc[c].fd] # None
    BY <1>1, <2>1 DEF ServInv, CallOK, WithFile
  <2>3. UNCHANGED <<running, fds, opentab, ff, size, srv>> /\ ops' \in 0..MaxOps
    BY <2>1 DEF client, server, ServInv, TypeOK
  <2>. QED
    BY <1>1, <2>1, <2>2, <2>3, CloseServ
<1>5. CASE close_reply(c)
  <2>. DEFINE g == [fds[c] EXCEPT ![loc[c].fd] = None]
  <2>1. /\ fds' = [fds EXCEPT ![c] = g]
        /\ Return(c) /\ UNCHANGED <<running, opentab, ff, size, srv, ops>>
    BY <1>5 DEF close_reply, server
  <2>2. /\ g \in [Fd -> [slot : Slot, file : File] \union {None}]
        /\ \A d \in Fd : g[d] # None => d < MAXFD - 1
    BY <1>1, KeepFds
  <2>. HIDE DEF g
  <2>. QED
    BY <1>1, <2>1, <2>2, ReturnServ
<1>6. CASE ftruncate_reply(c) /\ ~Return(c)
  <2>1. loc[c].call \in {"set_size", "ext_map"} /\ UNCHANGED <<client, server>>
    BY <1>6 DEF ftruncate_reply
  <2>2. fds[c][loc[c].fd] # None
    BY <1>1, <2>1 DEF ServInv, CallOK, WithFile
  <2>3. CASE loc[c].r = "ok"
    <3>. DEFINE l == [loc[c] EXCEPT !.call = "ext_map"]
    <3>1. MapFrom(c, l)
      BY <1>6, <2>3 DEF ftruncate_reply
    <3>2. l \in Local /\ l.call = "ext_map" /\ l.fd = loc[c].fd
      BY <1>1 DEF Local
    <3>. HIDE DEF l
    <3>. QED
      BY <1>1, <2>1, <2>2, <3>1, <3>2, MapServ
  <2>4. CASE loc[c].r # "ok"
    <3>. DEFINE l == [loc[c] EXCEPT !.call = "undo"]
    <3>1. Request(c, "SET_SIZE", None, Fileid(c), loc[c].old, l)
      BY <1>6, <2>4 DEF ftruncate_reply
    <3>2. l \in Local /\ l.call = "undo" /\ l.fd = loc[c].fd
      BY <1>1 DEF Local
    <3>3. Fileid(c) \in Nat
      BY <1>1, <2>2, FdTypes DEF Fileid
    <3>4. /\ UNCHANGED <<running, fds, opentab, size, srv>> /\ ops' \in 0..MaxOps
          /\ ff' \in [Slot -> [fileid : Nat, size : Size]]
      BY <2>1 DEF client, server, ServInv, TypeOK
    <3>. HIDE DEF l
    <3>. QED
      BY <1>1, <2>2, <3>1, <3>2, <3>3, <3>4, RequestServ DEF ReqType
  <2>. QED
    BY <2>3, <2>4
<1>. QED
  BY <1>2, <1>3, <1>4, <1>5, <1>6 DEF open_reply, ftruncate_reply, plain_reply

LEMMA OpenServ ==
  ASSUME ServInv, NEW c \in Proc, open(c)
  PROVE  ServInv'
<1>1. c \in running /\ loc[c].pc = "user" /\ ops' \in 0..MaxOps /\ FreeFds(c) # {}
  BY StartServ DEF open
<1>. DEFINE d == CHOOSE x \in FreeFds(c) : \A e \in FreeFds(c) : x <= e
<1>2. FreeFds(c) \subseteq Nat /\ FreeFds(c) \subseteq Fd
  BY FsServAssumption DEF FreeFds, Fd
<1>3. \E x \in FreeFds(c) : \A e \in FreeFds(c) : x <= e
  BY <1>1, <1>2, Least
<1>4. d \in FreeFds(c)
  BY <1>3
<1>5. PICK f \in File : Request(c, "OPEN", f, 0, 0, [Idle EXCEPT !.call = "open", !.fd = d, !.file = f])
  BY DEF open
<1>. HIDE DEF d
<1>6. d \in Fd /\ d < MAXFD - 1 /\ fds[c][d] = None
  BY <1>2, <1>4, FsServAssumption DEF FreeFds
<1>. DEFINE l == [Idle EXCEPT !.call = "open", !.fd = d, !.file = f]
<1>7. l \in Local /\ l.call = "open" /\ l.fd = d /\ l.file = f
  <2>1. \A k \in Local : [k EXCEPT !.call = "open", !.fd = d, !.file = f] \in Local
    BY <1>6 DEF Local
  <2>2. l \in Local
    BY <2>1, LocalFields
  <2>. QED
    BY <2>2 DEF Idle
<1>8. UNCHANGED <<running, fds, opentab, size, srv>> /\ ff' \in [Slot -> [fileid : Nat, size : Size]]
  BY DEF open, server, ServInv, TypeOK
<1>9. 0 \in Nat /\ 0 \in Size /\ Request(c, "OPEN", f, 0, 0, l)
  BY <1>5, FsServAssumption DEF Size
<1>. HIDE DEF l
<1>. QED
  BY <1>1, <1>6, <1>7, <1>8, <1>9, RequestServ DEF ReqType, WithFile

LEMMA FtruncateServ ==
  ASSUME ServInv, NEW c \in Proc, ftruncate(c)
  PROVE  ServInv'
<1>1. c \in running /\ loc[c].pc = "user" /\ ops' \in 0..MaxOps
  BY StartServ DEF ftruncate
<1>2. PICK d \in Fd, n \in Size :
        /\ fds[c][d] # None
        /\ ff' = [ff EXCEPT ![fds[c][d].slot].size = n]
        /\ Request(c, "SET_SIZE", None, ff[fds[c][d].slot].fileid, n,
             [Idle EXCEPT !.call = "set_size", !.fd = d, !.i = ff[fds[c][d].slot].size, !.n = n,
                          !.old = ff[fds[c][d].slot].size])
  BY DEF ftruncate
<1>. DEFINE s == fds[c][d].slot
            o == ff[s].size
            l == [Idle EXCEPT !.call = "set_size", !.fd = d, !.i = o, !.n = n, !.old = o]
<1>3. s \in Slot /\ ff[s].fileid \in Nat /\ o \in Size
  BY <1>2, FdTypes
<1>4. ff' \in [Slot -> [fileid : Nat, size : Size]]
  BY <1>2 DEF ServInv, TypeOK
<1>5. Request(c, "SET_SIZE", None, ff[s].fileid, n, l)
  BY <1>2
<1>. HIDE DEF s, o
<1>6. l \in Local /\ l.call = "set_size" /\ l.fd = d
  <2>1. \A k \in Local :
          [k EXCEPT !.call = "set_size", !.fd = d, !.i = o, !.n = n, !.old = o] \in Local
    BY <1>3 DEF Local
  <2>2. l \in Local
    BY <2>1, LocalFields
  <2>. QED
    BY <2>2 DEF Idle
<1>. HIDE DEF l
<1>7. UNCHANGED <<running, fds, opentab, size, srv>>
  BY DEF ftruncate
<1>. QED
  BY <1>1, <1>2, <1>3, <1>4, <1>5, <1>6, <1>7, RequestServ DEF ReqType

LEMMA PlainServ ==
  ASSUME ServInv, NEW c \in Proc, remove_or_sync(c)
  PROVE  ServInv'
<1>1. c \in running /\ loc[c].pc = "user" /\ ops' \in 0..MaxOps
  BY StartServ DEF remove_or_sync
<1>. DEFINE l == [Idle EXCEPT !.call = "plain"]
<1>2. l \in Local /\ l.call = "plain"
  <2>1. \A k \in Local : [k EXCEPT !.call = "plain"] \in Local
    BY DEF Local
  <2>2. l \in Local
    BY <2>1, LocalFields
  <2>. QED
    BY <2>2 DEF Idle
<1>3. PICK type \in {"REMOVE", "SYNC"}, f \in File \union {None} : Request(c, type, f, 0, 0, l)
  BY DEF remove_or_sync
<1>4. UNCHANGED <<running, fds, opentab, size, srv>> /\ ff' \in [Slot -> [fileid : Nat, size : Size]]
  BY DEF remove_or_sync, server, ServInv, TypeOK
<1>5. 0 \in Nat /\ 0 \in Size
  BY FsServAssumption DEF Size
<1>. HIDE DEF l
<1>. QED
  BY <1>1, <1>2, <1>3, <1>4, <1>5, RequestServ DEF ReqType, WithFile

LEMMA ForkServ ==
  ASSUME ServInv, NEW c \in Proc, fork(c)
  PROVE  ServInv'
<1>1. ops' \in 0..MaxOps
  BY StartServ DEF fork
<1>2. PICK k \in Proc \ running :
        /\ running' = running \union {k}
        /\ fds' = [fds EXCEPT ![k] = fds[c]]
        /\ buf' = [buf EXCEPT ![k] = buf[c]]
        /\ UNCHANGED <<loc, opentab, ff, size, srv>>
  BY DEF fork, server
<1>3. TypeOK'
  BY <1>1, <1>2 DEF ServInv, TypeOK
<1>4. loc[k].pc = "user"
  BY <1>2 DEF ServInv, CallOK
<1>5. \A e \in Proc : e # k => fds'[e] = fds[e] /\ buf'[e] = buf[e]
  BY <1>2 DEF ServInv, TypeOK
<1>6. ASSUME NEW e \in Proc PROVE CallOK(e)'
  <2>1. CASE e # k
    BY <1>2, <1>5, <2>1 DEF ServInv, CallOK
  <2>2. CASE e = k
    BY <1>2, <1>4, <2>2 DEF ServInv, CallOK, InCall
  <2>. QED
    BY <2>1, <2>2
<1>7. ServOK'
  BY <1>2 DEF ServInv, ServOK
<1>8. LowFds'
  BY <1>2 DEF ServInv, TypeOK, LowFds
<1>. QED
  BY <1>3, <1>6, <1>7, <1>8 DEF ServInv

LEMMA ExitServ ==
  ASSUME ServInv, NEW c \in Proc, exit(c)
  PROVE  ServInv'
<1>. DEFINE F == {d \in Fd : fds[c][d] # None}
<1>1. c \in running /\ loc[c].pc = "user" /\ ops' = ops /\ ops' \in 0..MaxOps
  BY DEF exit, ServInv, TypeOK
<1>2. CASE F # {}
  <2>. DEFINE d == CHOOSE x \in F : \A e \in F : x <= e
  <2>1. F \subseteq Nat
    BY FsServAssumption DEF Fd
  <2>2. \E x \in F : \A e \in F : x <= e
    BY <1>2, <2>1, Least
  <2>3. d \in F
    BY <2>2
  <2>4. BeginClose(c, d, TRUE)
    BY <1>2 DEF exit
  <2>. HIDE DEF d
  <2>. QED
    BY <1>1, <2>3, <2>4, BeginCloseServ
<1>3. CASE F = {}
  <2>1. /\ running' = running \ {c}
        /\ loc' = [loc EXCEPT ![c] = Idle]
        /\ buf' = [buf EXCEPT ![c] = NoReq]
        /\ UNCHANGED <<fds, opentab, ff, size, srv>>
    BY <1>3 DEF exit, server
  <2>2. NoReq \in Req
    BY FsServAssumption DEF NoReq, Req, ReqType, Size
  <2>3. TypeOK'
    BY <1>1, <2>1, <2>2, LocalFields DEF ServInv, TypeOK
  <2>4. loc'[c].pc = "user"
    BY <2>1 DEF ServInv, TypeOK, Idle
  <2>5. \A e \in Proc : e # c => loc'[e] = loc[e] /\ buf'[e] = buf[e]
    BY <2>1 DEF ServInv, TypeOK
  <2>6. ASSUME NEW e \in Proc PROVE CallOK(e)'
    <3>1. CASE e # c
      BY <2>1, <2>5, <3>1 DEF ServInv, CallOK
    <3>2. CASE e = c
      BY <2>4, <3>2 DEF CallOK, InCall
    <3>. QED
      BY <3>1, <3>2
  <2>7. ServOK'
    BY <1>1, <2>1, <2>4, <2>5 DEF ServInv, ServOK
  <2>. QED
    BY <2>1, <2>3, <2>6, <2>7 DEF ServInv, LowFds
<1>. QED
  BY <1>2, <1>3

-----------------------------------------------------------------------------
(* ServInv: the server's steps *)

LEMMA ServerFields ==
  ASSUME NEW v \in Server
  PROVE  /\ [v EXCEPT !.pc = "recving"] \in Server /\ [v EXCEPT !.pc = "tail"] \in Server
         /\ \A r \in Result, slot \in Slot \union {None}, then \in {"loop", "tail"} :
              [v EXCEPT !.pc = "reply", !.r = r, !.slot = slot, !.then = then] \in Server
<1>1. [v EXCEPT !.pc = "recving"] \in Server /\ [v EXCEPT !.pc = "tail"] \in Server
  BY DEF Server
<1>2. \A r \in Result, slot \in Slot \union {None}, then \in {"loop", "tail"} :
        [v EXCEPT !.pc = "reply", !.r = r, !.slot = slot, !.then = then] \in Server
  BY DEF Server
<1>. QED
  BY <1>1, <1>2

LEMMA AnswerServ ==
  ASSUME ServInv, srv.pc \in {"serve", "tail"},
         NEW r \in Result, NEW slot \in Slot \union {None}, NEW then \in {"loop", "tail"},
         Answer(r, slot, then), UNCHANGED <<running, fds, ops, buf, loc>>,
         opentab' \in [Slot -> [fileid : Nat, file : File \union {None}]],
         ff' \in [Slot -> [fileid : Nat, size : Size]],
         size' \in [File -> Size \union {None}],
         srv.pc = "serve" /\ loc[srv.who].call = "open" /\ r = "ok" => slot # None,
         srv.pc = "serve" /\ slot # None => loc[srv.who].call = "open" /\ r = "ok"
  PROVE  ServInv'
<1>1. srv \in Server /\ srv.who \in Proc
  BY DEF ServInv, TypeOK, ServOK
<1>2. srv' = [srv EXCEPT !.pc = "reply", !.r = r, !.slot = slot, !.then = then]
  BY DEF Answer
<1>3. srv' \in Server
  BY <1>1, <1>2, ServerFields
<1>4. srv'.pc = "reply" /\ srv'.r = r /\ srv'.slot = slot /\ srv'.who = srv.who
  BY <1>1, <1>2 DEF Server
<1>5. TypeOK'
  BY <1>3 DEF ServInv, TypeOK
<1>6. ASSUME NEW c \in Proc PROVE CallOK(c)'
  BY <1>4 DEF ServInv, CallOK
<1>7. ServOK'
  <2>1. srv.pc = "tail" => loc[srv.who].pc \notin {"sent", "wait"}
    BY <1>1 DEF ServInv, CallOK
  <2>. QED
    BY <1>1, <1>4, <2>1 DEF ServOK
<1>. QED
  BY <1>5, <1>6, <1>7 DEF ServInv, LowFds

\* The request being served is the one its sender is waiting on.
LEMMA Served ==
  ASSUME ServInv, srv.pc = "serve"
  PROVE  /\ srv.who \in Proc /\ loc[srv.who].pc \in {"sent", "wait"}
         /\ buf[srv.who] \in Req
         /\ loc[srv.who].call = "open" <=> buf[srv.who].type = "OPEN"
         /\ buf[srv.who].type = "OPEN" => /\ buf[srv.who].file = loc[srv.who].file
                                          /\ buf[srv.who].file \in File
  BY DEF ServInv, ServOK, CallOK, TypeOK, InCall

LEMMA OpenFileServ ==
  ASSUME ServInv, srv.pc = "tail" \/ (srv.pc = "serve" /\ buf[srv.who].type = "OPEN"),
         NEW s \in Slot, NEW fileid \in Nat, open_file(s, fileid),
         UNCHANGED <<running, fds, ops, buf, loc, size>>
  PROVE  ServInv'
<1>. DEFINE f == buf[srv.who].file
<1>1. srv.pc = "serve" => loc[srv.who].call = "open"
  BY Served
<1>2. None \notin Slot /\ None \notin File /\ 0 \in Size
  BY FsServAssumption DEF Slot, Size
<1>3. srv.who \in Proc /\ f \in File \union {None}
  BY DEF ServInv, ServOK, TypeOK, Req
<1>4. CASE f = None \/ size[f] = None
  <2>1. /\ opentab' = [opentab EXCEPT ![s].fileid = fileid]
        /\ ff' = IF s \in FreeSlots THEN [ff EXCEPT ![s] = [fileid |-> 0, size |-> 0]] ELSE ff
        /\ Answer("err", None, "loop")
    BY <1>4 DEF open_file
  <2>2. opentab' \in [Slot -> [fileid : Nat, file : File \union {None}]]
    BY <2>1 DEF ServInv, TypeOK
  <2>3. ff' \in [Slot -> [fileid : Nat, size : Size]]
    BY <1>2, <2>1 DEF ServInv, TypeOK
  <2>4. size' \in [File -> Size \union {None}]
    BY DEF ServInv, TypeOK
  <2>. QED
    BY <2>1, <2>2, <2>3, <2>4, AnswerServ DEF Result
<1>5. CASE ~(f = None \/ size[f] = None)
  <2>1. /\ opentab' = [opentab EXCEPT ![s] = [fileid |-> fileid, file |-> f]]
        /\ ff' = [ff EXCEPT ![s] = [fileid |-> fileid, size |-> size[f]]]
        /\ Answer("ok", s, "loop")
    BY <1>5 DEF open_file
  <2>2. size[f] \in Size
    BY <1>3, <1>5 DEF ServInv, TypeOK
  <2>3. opentab' \in [Slot -> [fileid : Nat, file : File \union {None}]]
    BY <1>3, <2>1 DEF ServInv, TypeOK
  <2>4. ff' \in [Slot -> [fileid : Nat, size : Size]]
    BY <2>1, <2>2 DEF ServInv, TypeOK
  <2>5. size' \in [File -> Size \union {None}]
    BY DEF ServInv, TypeOK
  <2>. QED
    BY <1>1, <1>2, <2>1, <2>3, <2>4, <2>5, AnswerServ DEF Result
<1>. QED
  BY <1>4, <1>5

LEMMA DispatchServ ==
  ASSUME ServInv, Dispatch
  PROVE  ServInv'
<1>. DEFINE rq == buf[srv.who]
<1>0. UNCHANGED <<running, fds, ops, buf, loc>>
  BY DEF Dispatch, client
<1>t. /\ opentab \in [Slot -> [fileid : Nat, file : File \union {None}]]
      /\ ff \in [Slot -> [fileid : Nat, size : Size]]
      /\ size \in [File -> Size \union {None}]
  BY DEF ServInv, TypeOK
<1>n. None \notin Slot /\ "ok" \in Result /\ "err" \in Result
  BY FsServAssumption DEF Slot, Result
<1>1. CASE ((Serving /\ rq.type = "OPEN") \/ srv.pc = "tail") /\ serve_open
  <2>1. srv.pc = "tail" \/ (srv.pc = "serve" /\ buf[srv.who].type = "OPEN")
    BY <1>1 DEF Serving
  <2>2. CASE srv.pc = "tail"
    <3>1. PICK s \in Slot : open_file(s, opentab[s].fileid)
      BY <1>1, <2>2 DEF serve_open
    <3>2. opentab[s].fileid \in Nat /\ UNCHANGED size
      BY <1>1, <1>t DEF serve_open
    <3>. QED
      BY <1>0, <2>1, <3>1, <3>2, OpenFileServ
  <2>3. CASE srv.pc = "serve" /\ FreeSlots # {}
    <3>1. open_file(open_alloc, opentab[open_alloc].fileid + MAXOPEN) /\ UNCHANGED size
      BY <1>1, <2>3 DEF serve_open
    <3>2. open_alloc \in Slot
      BY <2>3, AllocFree
    <3>3. opentab[open_alloc].fileid + MAXOPEN \in Nat
      BY <1>t, <3>2, FsServAssumption
    <3>. QED
      BY <1>0, <2>1, <3>1, <3>2, <3>3, OpenFileServ
  <2>4. CASE srv.pc = "serve" /\ FreeSlots = {}
    <3>1. Answer("err", None, "tail") /\ UNCHANGED <<opentab, ff, size>>
      BY <1>1, <2>4 DEF serve_open
    <3>. QED
      BY <1>0, <1>t, <1>n, <2>1, <3>1, AnswerServ
  <2>. QED
    BY <2>1, <2>2, <2>3, <2>4
<1>2. CASE Serving /\ rq.type # "OPEN" /\ \E r \in Result : Answer(r, None, "loop")
  <2>1. srv.pc = "serve" /\ loc[srv.who].call # "open"
    BY <1>2, Served DEF Serving
  <2>2. /\ opentab' \in [Slot -> [fileid : Nat, file : File \union {None}]]
        /\ ff' \in [Slot -> [fileid : Nat, size : Size]]
        /\ size' \in [File -> Size \union {None}]
    <3>1. CASE UNCHANGED <<opentab, ff, size>>
      BY <1>t, <3>1
    <3>2. CASE serve_set_size(rq)
      <4>1. rq.arg \in Size
        BY <2>1, Served DEF Req
      <4>. QED
        BY <1>t, <3>2, <4>1 DEF serve_set_size
    <3>3. CASE serve_remove(rq)
      BY <1>t, <3>3 DEF serve_remove
    <3>. QED
      BY <1>2, <2>1, <3>1, <3>2, <3>3
      DEF Dispatch, serve_map_or_dirty, serve_close, serve_sync
  <2>3. PICK r \in Result : Answer(r, None, "loop")
    BY <1>2
  <2>. QED
    BY <1>0, <2>1, <2>2, <2>3, AnswerServ
<1>3. Serving /\ rq.type # "OPEN" => \E r \in Result : Answer(r, None, "loop")
  <2>1. ASSUME serve_map_or_dirty(rq) PROVE \E r \in Result : Answer(r, None, "loop")
    BY <1>n, <2>1 DEF serve_map_or_dirty
  <2>2. ASSUME serve_set_size(rq) PROVE \E r \in Result : Answer(r, None, "loop")
    BY <1>n, <2>2 DEF serve_set_size
  <2>3. ASSUME serve_close(rq) \/ serve_remove(rq) \/ serve_sync
        PROVE  \E r \in Result : Answer(r, None, "loop")
    BY <1>n, <2>3 DEF serve_close, serve_remove, serve_sync
  <2>. QED
    BY <2>1, <2>2, <2>3 DEF Dispatch, Serving
<1>. QED
  BY <1>1, <1>2, <1>3 DEF Dispatch, Serving

LEMMA ServeRecvServ ==
  ASSUME ServInv, serve_recv
  PROVE  ServInv'
<1>1. /\ srv.pc = "loop" /\ srv' = [srv EXCEPT !.pc = "recving"]
      /\ UNCHANGED <<running, fds, ops, buf, loc, opentab, ff, size>>
  BY DEF serve_recv, client
<1>2. srv \in Server /\ srv' \in Server /\ srv'.pc = "recving"
  BY <1>1, ServerFields DEF ServInv, TypeOK, Server
<1>3. TypeOK'
  BY <1>1, <1>2 DEF ServInv, TypeOK
<1>4. ASSUME NEW c \in Proc PROVE CallOK(c)'
  BY <1>1 DEF ServInv, CallOK
<1>. QED
  BY <1>1, <1>2, <1>3, <1>4 DEF ServInv, ServOK, LowFds

LEMMA ReplyServ ==
  ASSUME ServInv, Reply
  PROVE  ServInv'
<1>. DEFINE c == srv.who
            l == loc[c]
<1>1. /\ srv.pc = "reply" /\ l.pc = "wait" /\ c \in Proc
      /\ UNCHANGED <<running, ops, buf, opentab, ff, size>>
  BY DEF Reply, ServInv, ServOK
<1>2. l \in Local /\ l.fd \in Fd /\ srv \in Server /\ srv.r \in Result
      /\ srv.slot \in Slot \union {None}
  BY <1>1, LocTypes DEF ServInv, TypeOK, Server
<1>3. loc' = [loc EXCEPT ![c] = [l EXCEPT !.pc = "got", !.r = srv.r]]
  BY DEF Reply
<1>4. /\ l.call = "open" => l.file \in File /\ l.fd < MAXFD - 1
      /\ l.call = "open" /\ srv.r = "ok" => srv.slot # None
      /\ srv.slot # None => l.call = "open" /\ srv.r = "ok"
      /\ l.call \in WithFile => fds[c][l.fd] # None
  BY <1>1 DEF ServInv, CallOK, ServOK, InCall
<1>5. srv' \in Server /\ srv'.pc \in {"tail", "loop"} /\ (srv'.pc = "tail" => srv'.who = c)
  <2>1. Waiting \in Server /\ Waiting.pc = "loop"
    BY DEF Waiting, Server, Result
  <2>2. [srv EXCEPT !.pc = "tail"] \in Server
    BY <1>2, ServerFields
  <2>3. [srv EXCEPT !.pc = "tail"].pc = "tail" /\ [srv EXCEPT !.pc = "tail"].who = c
    BY <1>2 DEF Server
  <2>. QED
    BY <2>1, <2>2, <2>3 DEF Reply
<1>6. /\ srv.slot = None => fds' = fds
      /\ srv.slot # None =>
           fds' = [fds EXCEPT ![c][l.fd] = [slot |-> srv.slot, file |-> l.file]]
  BY DEF Reply
<1>. HIDE DEF l, c
<1>7. loc' \in [Proc -> Local] /\ loc'[c] = [l EXCEPT !.pc = "got", !.r = srv.r]
  BY <1>1, <1>2, <1>3, LocalFields DEF ServInv, TypeOK
<1>8. loc'[c].pc = "got" /\ loc'[c].call = l.call /\ loc'[c].fd = l.fd /\ loc'[c].r = srv.r
  BY <1>2, <1>7 DEF Local
<1>9. fds' \in [Proc -> [Fd -> [slot : Slot, file : File] \union {None}]]
  <2>1. CASE srv.slot = None
    BY <1>6, <2>1 DEF ServInv, TypeOK
  <2>2. CASE srv.slot # None
    <3>1. [slot |-> srv.slot, file |-> l.file] \in [slot : Slot, file : File] \union {None}
      BY <1>2, <1>4, <2>2
    <3>. DEFINE x == [slot |-> srv.slot, file |-> l.file]
                T == [slot : Slot, file : File] \union {None}
    <3>2. x \in T /\ fds \in [Proc -> [Fd -> T]] /\ fds' = [fds EXCEPT ![c][l.fd] = x]
      BY <1>6, <2>2, <3>1 DEF ServInv, TypeOK
    <3>. HIDE DEF x, T
    <3>3. fds' \in [Proc -> [Fd -> T]]
      BY <1>1, <1>2, <3>2
    <3>. QED
      BY <3>3 DEF T
  <2>. QED
    BY <2>1, <2>2
<1>10. TypeOK'
  BY <1>1, <1>5, <1>7, <1>9 DEF ServInv, TypeOK
<1>15. srv.slot # None => [slot |-> srv.slot, file |-> l.file] # None
  BY <1>2, <1>4, FsServAssumption DEF Slot
<1>11. /\ \A k \in Proc : k # c => loc'[k] = loc[k] /\ fds'[k] = fds[k]
       /\ \A d \in Fd : d # l.fd => fds'[c][d] = fds[c][d]
       /\ srv.slot # None => fds'[c][l.fd] # None
       /\ srv.slot = None => fds'[c][l.fd] = fds[c][l.fd]
  BY <1>1, <1>2, <1>3, <1>6, <1>15 DEF ServInv, TypeOK
<1>12. ASSUME NEW k \in Proc PROVE CallOK(k)'
  <2>1. CASE k # c
    BY <1>1, <1>11, <2>1 DEF ServInv, CallOK, c
  <2>2. CASE k = c
    <3>1. l.call = "open" /\ srv.r = "ok" => fds'[c][l.fd] # None
      BY <1>4, <1>11
    <3>2. l.call \in WithFile => fds'[c][l.fd] # None
      BY <1>4, <1>11 DEF WithFile
    <3>3. c \in running
      BY <1>1, LocTypes DEF l
    <3>. QED
      BY <1>1, <1>8, <2>2, <3>1, <3>2, <3>3 DEF CallOK, InCall
  <2>. QED
    BY <2>1, <2>2
<1>13. ServOK'
  BY <1>1, <1>5 DEF ServOK
<1>14. LowFds'
  BY <1>1, <1>4, <1>11 DEF ServInv, LowFds
<1>. QED
  BY <1>10, <1>12, <1>13, <1>14 DEF ServInv

LEMMA NextServ ==
  ASSUME ServInv, [Next]_vars
  PROVE  ServInv'
<1>1. CASE FsServer
  BY <1>1, ServeRecvServ, DispatchServ, ReplyServ DEF FsServer
<1>2. ASSUME NEW c \in Proc, Library(c) PROVE ServInv'
  BY <1>2, SendServ, RecvServ, RepliesServ DEF Library
<1>3. ASSUME NEW c \in Proc, Program(c) PROVE ServInv'
  <2>1. CASE close(c)
    <3>1. PICK d \in Fd : BeginClose(c, d, FALSE)
      BY <2>1 DEF close
    <3>2. Start(c)
      BY <2>1 DEF close
    <3>. QED
      BY <3>1, <3>2, StartServ, BeginCloseServ
  <2>. QED
    BY <1>3, <2>1, OpenServ, FtruncateServ, PlainServ, ForkServ, ExitServ DEF Program
<1>4. CASE UNCHANGED vars
  BY <1>4 DEF vars, ServInv, TypeOK, CallOK, ServOK, LowFds
<1>. QED
  BY <1>1, <1>2, <1>3, <1>4 DEF Next

\* Whatever the clients do, also after the table was full and serve_open went on with
\* a slot it has not chosen, the state of the server, its clients and the pages they
\* share keeps its types: in particular a library call that reads the fileid or the
\* size of an open file finds the page mapped.
THEOREM ServTypes == Spec => []TypeOK
<1>1. Init => ServInv
  BY InitServ
<1>2. ServInv /\ [Next]_vars => ServInv'
  BY NextServ
<1>3. ServInv => TypeOK
  BY DEF ServInv
<1>. QED
  BY <1>1, <1>2, <1>3, PTL DEF Spec

-----------------------------------------------------------------------------
(* DescInv: descriptors keep their files *)

LEMMA InitDesc == Init => DescInv
<1>. SUFFICES ASSUME Init PROVE DescInv
  OBVIOUS
<1>1. \A s \in Slot : s % MAXOPEN = s
  BY FsServAssumption DEF Slot
<1>3. Fileids
  BY <1>1 DEF Init, Fileids
<1>2. Pages /\ NoTail
  BY DEF Init, Pages, NoTail, Waiting
<1>. QED
  BY <1>2, <1>3, InitServ DEF DescInv

\* A step that leaves the table, the fileids and the server alone, and gives a
\* descriptor only what some process has at that place.
LEMMA ClientDesc ==
  ASSUME DescInv, ServInv', UNCHANGED <<opentab, srv>>,
         \A s \in Slot : ff'[s].fileid = ff[s].fileid,
         \A c \in Proc, d \in Fd :
           fds'[c][d] # None => \E k \in Proc : fds[k][d] = fds'[c][d],
         \A c \in Proc : loc[c].pc \in {"sent", "wait"} =>
           loc'[c].pc \in {"sent", "wait"} /\ loc'[c].file = loc[c].file
  PROVE  DescInv'
<1>1. Fileids'
  BY DEF DescInv, Fileids
<1>2. srv.pc = "reply" => /\ srv.who \in Proc /\ loc[srv.who].pc \in {"sent", "wait"}
                          /\ srv.slot # None => srv.slot \in Slot
  BY DEF DescInv, ServInv, ServOK, NoTail, TypeOK, Server
<1>3. NoTail'
  BY <1>2 DEF DescInv, NoTail
<1>4. Pages'
  <2>1. ASSUME NEW c \in Proc, NEW d \in Fd, fds'[c][d] # None
        PROVE  Current(fds[c][d].slot, fds[c][d].file)'
    <3>1. PICK k \in Proc : fds[k][d] = fds'[c][d]
      BY <2>1
    <3>2. Current(fds[k][d].slot, fds[k][d].file) /\ fds[k][d].slot \in Slot
      BY <2>1, <3>1, FdTypes DEF DescInv, Pages
    <3>. QED
      BY <3>1, <3>2 DEF Current
  <2>2. srv.pc = "reply" /\ srv.slot # None => Current(srv.slot, loc[srv.who].file)'
    BY <1>2 DEF DescInv, Pages, Current
  <2>. QED
    BY <2>1, <2>2 DEF Pages
<1>. QED
  BY <1>1, <1>3, <1>4 DEF DescInv

\* Requests and returns change nothing but their own process.
LEMMA OwnLoc ==
  ASSUME ServInv, NEW c \in Proc, NEW k \in Proc, k # c
  PROVE  /\ Return(c) => loc'[k] = loc[k]
         /\ \A type, file, fileid, arg, l :
              Request(c, type, file, fileid, arg, l) => loc'[k] = loc[k]
  BY DEF Return, Request, ServInv, TypeOK

LEMMA QuietDesc ==
  ASSUME DescInv, ServInv', UNCHANGED <<opentab, srv>>,
         \A s \in Slot : ff'[s].fileid = ff[s].fileid,
         NEW c \in Proc, loc[c].pc \in {"user", "got"}, \A k \in Proc : k # c => loc'[k] = loc[k],
         \A k \in Proc, d \in Fd :
           fds'[k][d] # None => \E j \in Proc : fds[j][d] = fds'[k][d]
  PROVE  DescInv'
  BY ClientDesc

LEMMA BeginCloseLoc ==
  ASSUME ServInv, NEW c \in Proc, NEW d, NEW b, BeginClose(c, d, b)
  PROVE  (\A k \in Proc : k # c => loc'[k] = loc[k]) /\ UNCHANGED <<fds, server>>
  BY OwnLoc DEF BeginClose, CloseFrom

LEMMA RepliesDesc ==
  ASSUME DescInv, ServInv', NEW c \in Proc,
         open_reply(c) \/ dirty_reply(c) \/ close_reply(c) \/ ftruncate_reply(c) \/ plain_reply(c)
  PROVE  DescInv'
<1>0. ServInv
  BY DEF DescInv
<1>1. loc[c].pc = "got" /\ UNCHANGED <<opentab, ff, srv>>
  BY DEF open_reply, dirty_reply, close_reply, ftruncate_reply, plain_reply, server
<1>2. \A k \in Proc : k # c => loc'[k] = loc[k]
  BY <1>0, OwnLoc
  DEF open_reply, dirty_reply, close_reply, ftruncate_reply, plain_reply, MapFrom, CloseFrom
<1>3. CASE UNCHANGED fds
  BY <1>1, <1>2, <1>3, QuietDesc
<1>4. CASE close_reply(c)
  <2>1. \A k \in Proc, d \in Fd : fds'[k][d] # None => fds[k][d] = fds'[k][d]
    BY <1>0, <1>4 DEF close_reply, ServInv, TypeOK
  <2>. QED
    BY <1>1, <1>2, <2>1, QuietDesc
<1>. QED
  BY <1>3, <1>4 DEF open_reply, dirty_reply, ftruncate_reply, plain_reply, client

LEMMA ProgramDesc ==
  ASSUME DescInv, ServInv', NEW c \in Proc, Program(c)
  PROVE  DescInv'
<1>0. ServInv
  BY DEF DescInv
<1>1. CASE open(c)
  <2>1. loc[c].pc = "user" /\ UNCHANGED <<fds, opentab, ff, srv>>
    BY <1>1 DEF open, Start, server
  <2>2. \A k \in Proc : k # c => loc'[k] = loc[k]
    BY <1>0, <1>1, OwnLoc DEF open
  <2>. QED
    BY <2>1, <2>2, QuietDesc
<1>2. CASE close(c)
  <2>1. loc[c].pc = "user"
    BY <1>2 DEF close, Start
  <2>2. (\A k \in Proc : k # c => loc'[k] = loc[k]) /\ UNCHANGED <<fds, server>>
    BY <1>0, <1>2, BeginCloseLoc DEF close
  <2>. QED
    BY <2>1, <2>2, QuietDesc DEF server
<1>3. CASE ftruncate(c)
  <2>1. loc[c].pc = "user" /\ UNCHANGED <<fds, opentab, srv>>
    BY <1>3 DEF ftruncate, Start
  <2>2. \A k \in Proc : k # c => loc'[k] = loc[k]
    BY <1>0, <1>3, OwnLoc DEF ftruncate
  <2>3. \A s \in Slot : ff'[s].fileid = ff[s].fileid
    BY <1>0, <1>3 DEF ftruncate, ServInv, TypeOK
  <2>. QED
    BY <2>1, <2>2, <2>3, QuietDesc
<1>4. CASE remove_or_sync(c)
  <2>1. loc[c].pc = "user" /\ UNCHANGED <<fds, opentab, ff, srv>>
    BY <1>4 DEF remove_or_sync, Start, server
  <2>2. \A k \in Proc : k # c => loc'[k] = loc[k]
    BY <1>0, <1>4, OwnLoc DEF remove_or_sync
  <2>. QED
    BY <2>1, <2>2, QuietDesc
<1>5. CASE fork(c)
  <2>1. loc[c].pc = "user" /\ UNCHANGED <<loc, opentab, ff, srv>>
    BY <1>5 DEF fork, Start, server
  <2>2. PICK e \in Proc : fds' = [fds EXCEPT ![e] = fds[c]]
    BY <1>5 DEF fork
  <2>3. \A k \in Proc : fds'[k] = fds[k] \/ fds'[k] = fds[c]
    BY <1>0, <2>2 DEF ServInv, TypeOK
  <2>. QED
    BY <2>1, <2>3, QuietDesc
<1>6. CASE exit(c)
  <2>1. loc[c].pc = "user"
    BY <1>6 DEF exit
  <2>2. (\A k \in Proc : k # c => loc'[k] = loc[k]) /\ UNCHANGED <<fds, server>>
    <3>1. CASE \E d, b : BeginClose(c, d, b)
      BY <1>0, <3>1, BeginCloseLoc
    <3>2. CASE loc' = [loc EXCEPT ![c] = Idle] /\ UNCHANGED <<fds, server>>
      BY <1>0, <3>2 DEF ServInv, TypeOK
    <3>. QED
      BY <1>6, <3>1, <3>2 DEF exit
  <2>. QED
    BY <2>1, <2>2, QuietDesc DEF server
<1>. QED
  BY <1>1, <1>2, <1>3, <1>4, <1>5, <1>6 DEF Program

LEMMA RecvDesc ==
  ASSUME DescInv, ServInv', NEW c \in Proc, Recv(c)
  PROVE  DescInv'
<1>1. /\ loc' = [loc EXCEPT ![c].pc = "wait"] /\ UNCHANGED <<fds, opentab, ff, srv>>
      /\ loc \in [Proc -> Local]
  BY DEF Recv, client, server, DescInv, ServInv, TypeOK
<1>2. \A k \in Proc : loc[k].pc \in {"sent", "wait"} =>
        loc'[k].pc \in {"sent", "wait"} /\ loc'[k].file = loc[k].file
  BY <1>1 DEF Local
<1>. QED
  BY <1>1, <1>2, ClientDesc

LEMMA SendDesc ==
  ASSUME DescInv, ServInv', NEW c \in Proc, Send(c)
  PROVE  DescInv'
<1>1. /\ srv' = [srv EXCEPT !.pc = "serve", !.who = c] /\ UNCHANGED <<fds, opentab, ff>>
      /\ srv \in Server
  BY DEF Send, client, DescInv, ServInv, TypeOK
<1>2. srv'.pc = "serve" /\ srv'.then = srv.then
  BY <1>1 DEF Server
<1>. QED
  BY <1>1, <1>2 DEF DescInv, Fileids, Pages, Current, NoTail

\* A slot that nobody uses may be given a new fileid and a new file.
LEMMA OpenFileDesc ==
  ASSUME DescInv, ServInv', srv.pc = "serve", buf[srv.who].type = "OPEN",
         NEW s \in FreeSlots, NEW fileid \in Nat, fileid % MAXOPEN = s,
         open_file(s, fileid), UNCHANGED <<fds, loc>>
  PROVE  DescInv'
<1>. DEFINE f == buf[srv.who].file
<1>0. ServInv /\ s \in Slot /\ srv \in Server
  BY DEF DescInv, ServInv, TypeOK, FreeSlots
<1>1. f = loc[srv.who].file /\ f # None /\ loc[srv.who].pc \in {"sent", "wait"}
  BY <1>0, Served, FsServAssumption
<1>2. \A c \in Proc, d \in Fd : fds[c][d] # None => fds[c][d].slot # s
  <2>1. Users(s) = {}
    BY DEF FreeSlots
  <2>. SUFFICES ASSUME NEW c \in Proc, NEW d \in Fd, fds[c][d] # None, fds[c][d].slot = s
               PROVE  FALSE
    OBVIOUS
  <2>2. <<c, d>> \in Users(s)
    BY DEF Users
  <2>. QED
    BY <2>1, <2>2
<1>3. \A t \in Slot : t # s => opentab'[t] = opentab[t] /\ ff'[t] = ff[t]
  BY <1>0 DEF open_file, ServInv, TypeOK
<1>4. opentab'[s].fileid = fileid
  BY <1>0 DEF open_file, ServInv, TypeOK
<1>5. Fileids'
  BY <1>3, <1>4 DEF DescInv, Fileids
<1>6. /\ srv'.pc = "reply" /\ srv'.who = srv.who /\ srv'.then = "loop"
      /\ srv'.slot # None => /\ srv'.slot = s /\ opentab'[s].file = f
                             /\ ff'[s].fileid = fileid
  <2>1. \A r, x, y : Answer(r, x, y) =>
          srv'.pc = "reply" /\ srv'.who = srv.who /\ srv'.then = y /\ srv'.slot = x
    BY <1>0 DEF Answer, Server
  <2>2. CASE f = None \/ size[f] = None
    <3>1. Answer("err", None, "loop")
      BY <2>2 DEF open_file
    <3>. QED
      BY <2>1, <3>1
  <2>3. CASE ~(f = None \/ size[f] = None)
    <3>1. /\ Answer("ok", s, "loop")
          /\ opentab' = [opentab EXCEPT ![s] = [fileid |-> fileid, file |-> f]]
          /\ ff' = [ff EXCEPT ![s] = [fileid |-> fileid, size |-> size[f]]]
      BY <2>3 DEF open_file
    <3>2. opentab'[s].file = f /\ ff'[s].fileid = fileid
      BY <1>0, <3>1 DEF ServInv, TypeOK
    <3>. QED
      BY <2>1, <3>1, <3>2
  <2>. QED
    BY <2>2, <2>3
<1>7. ASSUME NEW c \in Proc, NEW d \in Fd, fds[c][d] # None
      PROVE  Current(fds[c][d].slot, fds[c][d].file)'
  <2>1. fds[c][d].slot \in Slot /\ fds[c][d].slot # s
    BY <1>0, <1>2, <1>7, FdTypes
  <2>2. Current(fds[c][d].slot, fds[c][d].file)
    BY <1>7 DEF DescInv, Pages
  <2>. QED
    BY <1>3, <2>1, <2>2 DEF Current
<1>8. Pages'
  BY <1>1, <1>4, <1>6, <1>7 DEF Pages, Current
<1>9. NoTail'
  BY <1>1, <1>6 DEF NoTail
<1>. QED
  BY <1>5, <1>8, <1>9 DEF DescInv

LEMMA DispatchDesc ==
  ASSUME DescInv, ServInv', OpenFindsSlot, Dispatch
  PROVE  DescInv'
<1>. DEFINE rq == buf[srv.who]
<1>0. ServInv /\ srv.pc # "tail" /\ UNCHANGED <<fds, loc>> /\ srv \in Server
  BY DEF DescInv, NoTail, Dispatch, client, ServInv, TypeOK
<1>1. CASE Serving /\ rq.type = "OPEN" /\ serve_open
  <2>1. FreeSlots # {}
    BY <1>1 DEF OpenFindsSlot, Serving
  <2>2. open_alloc \in FreeSlots /\ open_alloc \in Slot
    BY <2>1, AllocFree
  <2>3. open_file(open_alloc, opentab[open_alloc].fileid + MAXOPEN)
    BY <1>0, <2>1, <1>1 DEF serve_open
  <2>4. opentab[open_alloc].fileid \in Nat /\ opentab[open_alloc].fileid % MAXOPEN = open_alloc
    BY <2>2 DEF DescInv, Fileids, ServInv, TypeOK
  <2>5. opentab[open_alloc].fileid + MAXOPEN \in Nat
    BY <2>4, FsServAssumption
  <2>6. (opentab[open_alloc].fileid + MAXOPEN) % MAXOPEN = open_alloc
    BY <2>4, NextFileid
  <2>. QED
    BY <1>0, <1>1, <2>2, <2>3, <2>5, <2>6, OpenFileDesc DEF Serving
<1>2. CASE Serving /\ UNCHANGED <<opentab, ff>> /\ \E r : Answer(r, None, "loop")
  <2>1. /\ srv'.pc = "reply" /\ srv'.who = srv.who /\ srv'.then = "loop" /\ srv'.slot = None
    BY <1>0, <1>2 DEF Answer, Server
  <2>2. loc[srv.who].pc \in {"sent", "wait"}
    BY <1>0, <1>2, Served DEF Serving
  <2>. QED
    BY <1>0, <1>2, <2>1, <2>2 DEF DescInv, Fileids, Pages, Current, NoTail
<1>3. Serving /\ rq.type # "OPEN" => UNCHANGED <<opentab, ff>> /\ \E r : Answer(r, None, "loop")
  <2>1. ASSUME serve_map_or_dirty(rq)
        PROVE  UNCHANGED <<opentab, ff>> /\ \E r : Answer(r, None, "loop")
    BY <2>1 DEF serve_map_or_dirty
  <2>2. ASSUME serve_set_size(rq)
        PROVE  UNCHANGED <<opentab, ff>> /\ \E r : Answer(r, None, "loop")
    BY <2>2 DEF serve_set_size
  <2>3. ASSUME serve_close(rq) \/ serve_remove(rq) \/ serve_sync
        PROVE  UNCHANGED <<opentab, ff>> /\ \E r : Answer(r, None, "loop")
    BY <2>3 DEF serve_close, serve_remove, serve_sync
  <2>. QED
    BY <2>1, <2>2, <2>3 DEF Dispatch, Serving
<1>. QED
  BY <1>0, <1>1, <1>2, <1>3 DEF Dispatch, Serving

LEMMA ReplyDesc ==
  ASSUME DescInv, ServInv', Reply
  PROVE  DescInv'
<1>. DEFINE c == srv.who
<1>1. /\ srv' = Waiting /\ srv.pc = "reply" /\ c \in Proc /\ UNCHANGED <<opentab, ff>>
  BY DEF Reply, DescInv, NoTail, ServInv, ServOK
<1>2. /\ srv.slot = None => fds' = fds
      /\ srv.slot # None =>
           fds' = [fds EXCEPT ![c][loc[c].fd] = [slot |-> srv.slot, file |-> loc[c].file]]
  BY DEF Reply
<1>3. srv.slot # None => Current(srv.slot, loc[c].file)
  BY <1>1 DEF DescInv, Pages
<1>4. loc[c].fd \in Fd /\ fds \in [Proc -> [Fd -> [slot : Slot, file : File] \union {None}]]
  BY <1>1, LocTypes DEF DescInv, ServInv, TypeOK
<1>. HIDE DEF c
<1>5. ASSUME NEW k \in Proc, NEW d \in Fd, fds'[k][d] # None
      PROVE  Current(fds[k][d].slot, fds[k][d].file)'
  <2>1. CASE fds'[k][d] = fds[k][d]
    BY <1>1, <1>5, <2>1 DEF DescInv, Pages, Current
  <2>2. CASE srv.slot # None /\ k = c /\ d = loc[c].fd
    <3>1. fds'[k][d] = [slot |-> srv.slot, file |-> loc[c].file]
      BY <1>2, <1>4, <2>2
    <3>2. fds'[k][d].slot = srv.slot /\ fds'[k][d].file = loc[c].file
      BY <3>1
    <3>. QED
      BY <1>1, <1>3, <2>2, <3>2 DEF Current
  <2>. QED
    BY <1>1, <1>2, <1>4, <2>1, <2>2
<1>6. Pages' /\ NoTail' /\ Fileids'
  BY <1>1, <1>5 DEF Pages, NoTail, Waiting, DescInv, Fileids
<1>. QED
  BY <1>6 DEF DescInv

LEMMA NextDesc ==
  ASSUME DescInv, OpenFindsSlot, [Next]_vars
  PROVE  DescInv'
<1>0. ServInv'
  BY NextServ DEF DescInv
<1>1. CASE serve_recv
  <2>1. srv' = [srv EXCEPT !.pc = "recving"] /\ UNCHANGED <<fds, opentab, ff>> /\ srv \in Server
    BY <1>1 DEF serve_recv, client, DescInv, ServInv, TypeOK
  <2>2. srv'.pc = "recving" /\ srv'.then = srv.then
    BY <2>1 DEF Server
  <2>. QED
    BY <1>0, <2>1, <2>2 DEF DescInv, Fileids, Pages, Current, NoTail
<1>2. ASSUME NEW c \in Proc, Library(c) PROVE DescInv'
  BY <1>0, <1>2, SendDesc, RecvDesc, RepliesDesc DEF Library
<1>3. ASSUME NEW c \in Proc, Program(c) PROVE DescInv'
  BY <1>0, <1>3, ProgramDesc
<1>4. CASE UNCHANGED vars
  BY <1>0, <1>4 DEF vars, DescInv, Fileids, Pages, Current, NoTail
<1>. QED
  BY <1>0, <1>1, <1>2, <1>3, <1>4, DispatchDesc, ReplyDesc DEF Next, FsServer

LEMMA DescStable ==
  ASSUME DescInv
  PROVE  DescriptorsStable
<1>. SUFFICES ASSUME NEW c \in Proc, NEW d \in Fd, fds[c][d] # None
             PROVE  /\ opentab[fds[c][d].slot].file = fds[c][d].file
                    /\ open_lookup(ff[fds[c][d].slot].fileid)
  BY DEF DescriptorsStable
<1>. DEFINE s == fds[c][d].slot
<1>1. Current(s, fds[c][d].file) /\ s \in Slot
  BY FdTypes DEF DescInv, Pages
<1>2. <<c, d>> \in Users(s)
  BY DEF Users
<1>3. ff[s].fileid % MAXOPEN = s /\ opentab[s].fileid = ff[s].fileid
  BY <1>1 DEF DescInv, Fileids, Current
<1>. HIDE DEF s
<1>4. open_lookup(ff[s].fileid)
  BY <1>2, <1>3 DEF open_lookup
<1>. QED
  BY <1>1, <1>4 DEF Current, s

\* As long as every open finds a free slot, a descriptor denotes the file it was
\* opened for and the server accepts it, for any number of clients that open, close,
\* fork, truncate and remove in any order: open_alloc reuses no slot in use, and
\* what the server has prepared for a client is still there when the client takes it.
THEOREM ServDescriptors == Spec /\ []OpenFindsSlot => []DescriptorsStable
<1>1. Init => DescInv
  BY InitDesc
<1>2. DescInv /\ OpenFindsSlot /\ [Next]_vars => DescInv'
  BY NextDesc
<1>3. DescInv => DescriptorsStable
  BY DescStable
<1>. QED
  BY <1>1, <1>2, <1>3, PTL DEF Spec

-----------------------------------------------------------------------------
(* When the table is large enough *)

\* A slot for every descriptor that fd_alloc can hand out.
EnoughSlots == IsFiniteSet(Proc) /\ Cardinality(Proc) * (MAXFD - 1) <= MAXOPEN

\* The client that is opening has a descriptor to spare, so the descriptors of all
\* cannot use every slot.
LEMMA NeverFull ==
  ASSUME EnoughSlots, ServInv
  PROVE  OpenFindsSlot
<1>. SUFFICES ASSUME srv.pc = "serve", buf[srv.who].type = "OPEN", FreeSlots = {}
             PROVE  FALSE
  BY DEF OpenFindsSlot
<1>. DEFINE D == 0..(MAXFD - 2)
            T == Proc \X D
            w == <<srv.who, loc[srv.who].fd>>
            R == T \ {w}
            f == [s \in Slot |-> CHOOSE u \in R : u \in Users(s)]
<1>1. srv.who \in Proc /\ loc[srv.who].fd \in D /\ fds[srv.who][loc[srv.who].fd] = None
  <2>1. srv.who \in Proc /\ loc[srv.who].call = "open" /\ loc[srv.who].pc \in {"sent", "wait"}
    BY Served
  <2>2. loc[srv.who].fd < MAXFD - 1 /\ fds[srv.who][loc[srv.who].fd] = None
    BY <2>1 DEF ServInv, CallOK, InCall
  <2>3. loc[srv.who].fd \in Fd
    BY <2>1, LocTypes
  <2>. QED
    BY <2>1, <2>2, <2>3, FsServAssumption DEF Fd
<1>2. MAXFD - 1 \in Nat /\ MAXFD - 1 > 0 /\ MAXOPEN \in Nat \ {0}
  BY <1>1, FsServAssumption
<1>3. IsFiniteSet(D) /\ Cardinality(D) = MAXFD - 1
  <2>1. 0 \in Int /\ MAXFD - 2 \in Int /\ ~(0 > MAXFD - 2) /\ MAXFD - 2 - 0 + 1 = MAXFD - 1
    BY <1>2, FsServAssumption
  <2>. QED
    BY <2>1, FS_Interval
<1>4. IsFiniteSet(T) /\ Cardinality(T) = Cardinality(Proc) * (MAXFD - 1)
  BY <1>3, FS_Product DEF EnoughSlots
<1>5. w \in T
  BY <1>1
<1>6. IsFiniteSet(R) /\ Cardinality(R) = Cardinality(T) - 1
  BY <1>4, <1>5, FS_RemoveElement
<1>7. IsFiniteSet(Slot) /\ Cardinality(Slot) = MAXOPEN
  BY <1>2, FS_Interval DEF Slot
<1>8. Cardinality(T) \in Nat
  BY <1>4, FS_CardinalityType
<1>9. Cardinality(R) < Cardinality(Slot)
  BY <1>2, <1>4, <1>6, <1>7, <1>8 DEF EnoughSlots
<1>10. ASSUME NEW s \in Slot PROVE \E u \in R : u \in Users(s)
  <2>1. Users(s) # {}
    BY DEF FreeSlots
  <2>2. PICK u \in Proc \X Fd : fds[u[1]][u[2]] # None /\ fds[u[1]][u[2]].slot = s
    BY <2>1 DEF Users
  <2>3. u[1] \in Proc /\ u[2] \in Fd /\ u = <<u[1], u[2]>>
    BY <2>2
  <2>4. u[2] < MAXFD - 1
    BY <2>2, <2>3 DEF ServInv, LowFds
  <2>5. u[2] \in D
    BY <2>3, <2>4, FsServAssumption DEF Fd
  <2>6. u # w
    BY <1>1, <2>2
  <2>. QED
    BY <2>2, <2>3, <2>5, <2>6 DEF Users
<1>11. \A s \in Slot : f[s] \in R /\ f[s] \in Users(s)
  BY <1>10
<1>12. f \in [Slot -> R]
  BY <1>11
<1>. HIDE DEF f, R
<1>13. PICK s, t \in Slot : s # t /\ f[s] = f[t]
  BY <1>6, <1>7, <1>9, <1>12, FS_PigeonHole
<1>14. f[s] \in Users(s) /\ f[s] \in Users(t)
  BY <1>11, <1>13
<1>. QED
  BY <1>13, <1>14 DEF Users

\* With a slot for every descriptor of every process the table is never full, and
\* descriptors keep their files without any further condition.
THEOREM ServDescriptorsEnough ==
  ASSUME EnoughSlots
  PROVE  Spec => []DescriptorsStable
<1>1. Init => DescInv
  BY InitDesc
<1>2. DescInv /\ [Next]_vars => DescInv'
  BY NextDesc, NeverFull DEF DescInv
<1>3. DescInv => DescriptorsStable
  BY DescStable
<1>. QED
  BY <1>1, <1>2, <1>3, PTL DEF Spec
=============================================================================
