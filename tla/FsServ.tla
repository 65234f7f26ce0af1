------------------------------ MODULE FsServ -------------------------------
(***************************************************************************)
(* The protocol between programs and the file system server: fs/serv.c and *)
(* its clients user/lib/file.c, fsipc.c and ipc.c.                         *)
(*                                                                         *)
(* A request travels in a page that the client shares with the server, and *)
(* ipc_send tries again until the receiver waits.  An open file is a slot  *)
(* of opentab; its Filefd page is mapped by the server and by every        *)
(* process that has the file open, and the slot is free when only the      *)
(* server maps it.  What a request does to blocks is left to FsBlocks: a   *)
(* request that needs a block may fail.                                    *)
(***************************************************************************)
EXTENDS Naturals, FiniteSets

CONSTANTS
  Proc,       \* client environments
  Parent,     \* the one that runs at the start
  File,       \* files
  InitSize,   \* and their sizes at the start, in pages
  MAXFD,      \* descriptors of a process
  MAXOPEN,    \* slots of opentab
  MaxSize,    \* bound on the size of a file in pages
  MaxOps,     \* bound on the calls of all programs together
  None

ASSUME FsServAssumption ==
  /\ MAXFD \in Nat \ {0} /\ MAXOPEN \in Nat \ {0} /\ MaxSize \in Nat /\ MaxOps \in Nat
  /\ InitSize \in [File -> 0..MaxSize]
  /\ Parent \in Proc
  /\ None \notin Proc \union File \union Nat \union [slot : Nat, file : File]

Fd == 0..(MAXFD - 1)
Slot == 0..(MAXOPEN - 1)
Size == 0..MaxSize
Result == {"ok", "err"}
ReqType == {"OPEN", "MAP", "SET_SIZE", "CLOSE", "DIRTY", "REMOVE", "SYNC"}
Req == [type : ReqType, file : File \union {None}, fileid : Nat, arg : Size]

VARIABLES
  running,   \* the client processes
  fds,       \* descriptors: the slot whose Filefd page is mapped, and the file opened
  buf,       \* fsipcbuf of each process, the page the server sees at REQVA
  loc,       \* where a process is in user/lib
  opentab,   \* o_fileid and o_file
  ff,        \* the Filefd pages: f_fileid and f_file.f_size
  size,      \* f_size of the files, or None for a file that does not exist
  srv,       \* where the server is
  ops        \* calls made by programs

vars == <<running, fds, buf, loc, opentab, ff, size, srv, ops>>

Local ==
  [pc : {"user", "send", "sent", "wait", "got"},
   call : {"none", "open", "open_map", "dirty", "close", "set_size", "ext_map", "undo", "plain"},
   fd : Fd, file : File \union {None},
   i : Size, n : Size, old : Size,      \* the loop over pages
   r : Result,                          \* the reply
   exiting : BOOLEAN]                   \* inside close_all

Server ==
  [pc : {"loop", "recving", "serve", "reply", "tail"}, who : Proc \union {None},
   r : Result, slot : Slot \union {None}, then : {"loop", "tail"}]

TypeOK ==
  /\ running \subseteq Proc
  /\ fds \in [Proc -> [Fd -> [slot : Slot, file : File] \union {None}]]
  /\ buf \in [Proc -> Req]
  /\ loc \in [Proc -> Local]
  /\ opentab \in [Slot -> [fileid : Nat, file : File \union {None}]]
  /\ ff \in [Slot -> [fileid : Nat, size : Size]]
  /\ size \in [File -> Size \union {None}]
  /\ srv \in Server
  /\ ops \in 0..MaxOps

Idle == [pc |-> "user", call |-> "none", fd |-> 0, file |-> None,
         i |-> 0, n |-> 0, old |-> 0, r |-> "ok", exiting |-> FALSE]

NoReq == [type |-> "SYNC", file |-> None, fileid |-> 0, arg |-> 0]

Waiting == [pc |-> "loop", who |-> None, r |-> "ok", slot |-> None, then |-> "loop"]

Init ==
  /\ running = {Parent}
  /\ fds = [c \in Proc |-> [d \in Fd |-> None]]
  /\ buf = [c \in Proc |-> NoReq]
  /\ loc = [c \in Proc |-> Idle]
  /\ opentab = [s \in Slot |-> [fileid |-> s, file |-> None]]
  /\ ff = [s \in Slot |-> [fileid |-> 0, size |-> 0]]
  /\ size = InitSize
  /\ srv = Waiting
  /\ ops = 0

-----------------------------------------------------------------------------
(* user/lib/fsipc.c and ipc.c *)

client == <<running, fds, ops>>
server == <<opentab, ff, size, srv>>

\* The request is put into fsipcbuf; ipc_send follows.
Request(c, type, file, fileid, arg, l) ==
  /\ buf' = [buf EXCEPT ![c] = [type |-> type, file |-> file, fileid |-> fileid, arg |-> arg]]
  /\ loc' = [loc EXCEPT ![c] = [l EXCEPT !.pc = "send"]]

Return(c) == loc' = [loc EXCEPT ![c] = [Idle EXCEPT !.exiting = loc[c].exiting]] /\ UNCHANGED buf

\* ipc_send succeeds once the server is in ipc_recv.
Send(c) ==
  /\ loc[c].pc = "send" /\ srv.pc = "recving"
  /\ loc' = [loc EXCEPT ![c].pc = "sent"]
  /\ srv' = [srv EXCEPT !.pc = "serve", !.who = c]
  /\ UNCHANGED <<client, buf, opentab, ff, size>>

\* sys_ipc_recv: from now on the reply can be delivered.
Recv(c) ==
  /\ loc[c].pc = "sent"
  /\ loc' = [loc EXCEPT ![c].pc = "wait"]
  /\ UNCHANGED <<client, buf, server>>

-----------------------------------------------------------------------------
(* fs/serv.c *)

Users(s) == {u \in Proc \X Fd : fds[u[1]][u[2]] # None /\ fds[u[1]][u[2]].slot = s}

\* Mutant: the count is compared as if the server had no mapping of its own.
FreeSlots_off_by_one == {s \in Slot : Cardinality(Users(s)) <= 1}

\* Slots whose page only the server maps, if it is mapped at all.
FreeSlots == {s \in Slot : Users(s) = {}}

\* open_alloc takes the first.
open_alloc == CHOOSE s \in FreeSlots : \A t \in FreeSlots : s <= t

open_lookup(fileid) ==
  LET s == fileid % MAXOPEN IN Users(s) # {} /\ opentab[s].fileid = fileid

Answer(r, slot, then) ==
  srv' = [srv EXCEPT !.pc = "reply", !.r = r, !.slot = slot, !.then = then]

\* The second half of serve_open: file_open, then the Filefd page is filled in.
open_file(s, fileid) ==
  LET f == buf[srv.who].file IN
  IF f = None \/ size[f] = None
  THEN /\ opentab' = [opentab EXCEPT ![s].fileid = fileid]
       /\ ff' = IF s \in FreeSlots THEN [ff EXCEPT ![s] = [fileid |-> 0, size |-> 0]] ELSE ff
       /\ Answer("err", None, "loop")
  ELSE /\ opentab' = [opentab EXCEPT ![s] = [fileid |-> fileid, file |-> f]]
       /\ ff' = [ff EXCEPT ![s] = [fileid |-> fileid, size |-> size[f]]]
       /\ Answer("ok", s, "loop")

\* Without a free slot the error is sent and the function goes on ("tail"), with a
\* variable o that has not been assigned: it is taken to point to any slot.
serve_open ==
  /\ IF srv.pc = "tail" THEN \E s \in Slot : open_file(s, opentab[s].fileid)
     ELSE IF FreeSlots # {}
     THEN open_file(open_alloc, opentab[open_alloc].fileid + MAXOPEN)
     ELSE Answer("err", None, "tail") /\ UNCHANGED <<opentab, ff>>
  /\ UNCHANGED size

\* file_get_block and file_dirty may find the disk full.
serve_map_or_dirty(rq) ==
  /\ \E r \in Result : Answer(IF open_lookup(rq.fileid) THEN r ELSE "err", None, "loop")
  /\ UNCHANGED <<opentab, ff, size>>

serve_set_size(rq) ==
  LET f == opentab[rq.fileid % MAXOPEN].file IN
  /\ IF open_lookup(rq.fileid)
     THEN /\ size' = IF size[f] = None THEN size ELSE [size EXCEPT ![f] = rq.arg]
          /\ Answer("ok", None, "loop")
     ELSE Answer("err", None, "loop") /\ UNCHANGED size
  /\ UNCHANGED <<opentab, ff>>

serve_close(rq) ==
  /\ Answer(IF open_lookup(rq.fileid) THEN "ok" ELSE "err", None, "loop")
  /\ UNCHANGED <<opentab, ff, size>>

serve_remove(rq) ==
  /\ size' = [size EXCEPT ![rq.file] = None]
  /\ Answer(IF size[rq.file] = None THEN "err" ELSE "ok", None, "loop")
  /\ UNCHANGED <<opentab, ff>>

\* Mutant: no reply to a sync.
serve_sync_silent == srv' = Waiting /\ UNCHANGED <<opentab, ff, size>>

serve_sync == Answer("ok", None, "loop") /\ UNCHANGED <<opentab, ff, size>>

Serving == srv.pc = "serve"

\* The dispatch of serve.
Dispatch ==
  LET rq == buf[srv.who] IN
  /\ \/ ((Serving /\ rq.type = "OPEN") \/ srv.pc = "tail") /\ serve_open
     \/ Serving /\ rq.type \in {"MAP", "DIRTY"} /\ serve_map_or_dirty(rq)
     \/ Serving /\ rq.type = "SET_SIZE" /\ serve_set_size(rq)
     \/ Serving /\ rq.type = "CLOSE" /\ serve_close(rq)
     \/ Serving /\ rq.type = "REMOVE" /\ serve_remove(rq)
     \/ Serving /\ rq.type = "SYNC" /\ serve_sync
  /\ UNCHANGED <<client, buf, loc>>

\* serve calls ipc_recv.
serve_recv ==
  /\ srv.pc = "loop"
  /\ srv' = [srv EXCEPT !.pc = "recving"]
  /\ UNCHANGED <<client, buf, loc, opentab, ff, size>>

\* ipc_send of the reply succeeds once the client is in ipc_recv; the Filefd page
\* is mapped at the descriptor the client asks for.  At the end the request page is
\* unmapped.
Reply ==
  LET c == srv.who IN
  /\ srv.pc = "reply" /\ loc[c].pc = "wait"
  /\ loc' = [loc EXCEPT ![c].pc = "got", ![c].r = srv.r]
  /\ fds' = IF srv.slot = None THEN fds
            ELSE [fds EXCEPT ![c][loc[c].fd] = [slot |-> srv.slot, file |-> loc[c].file]]
  /\ srv' = IF srv.then = "tail" THEN [srv EXCEPT !.pc = "tail"] ELSE Waiting
  /\ UNCHANGED <<running, ops, buf, opentab, ff, size>>

FsServer == serve_recv \/ Dispatch \/ Reply

-----------------------------------------------------------------------------
(* user/lib/file.c *)

Start(c) ==
  /\ c \in running /\ loc[c].pc = "user" /\ ~loc[c].exiting /\ ops < MaxOps
  /\ ops' = ops + 1

\* fd_alloc never hands out the last descriptor.
FreeFds(c) == {d \in 0..(MAXFD - 2) : fds[c][d] = None}

open(c) ==
  /\ Start(c) /\ FreeFds(c) # {}
  /\ \E f \in File :
       LET d == CHOOSE d \in FreeFds(c) : \A e \in FreeFds(c) : d <= e IN
       Request(c, "OPEN", f, 0, 0, [Idle EXCEPT !.call = "open", !.fd = d, !.file = f])
  /\ UNCHANGED <<running, fds, server>>

Fileid(c) == ff[fds[c][loc[c].fd].slot].fileid

\* The loops that map pages i to n - 1, one request each.
MapFrom(c, l) ==
  IF l.i < l.n
  THEN Request(c, "MAP", None, Fileid(c), l.i, [l EXCEPT !.i = l.i + 1])
  ELSE Return(c)

\* open: with the reply the Filefd page is there; its size says what to map.  When
\* a page cannot be mapped open returns the error and the descriptor stays.
open_reply(c) ==
  /\ loc[c].pc = "got" /\ loc[c].call \in {"open", "open_map"}
  /\ IF loc[c].r = "err" THEN Return(c)
     ELSE IF loc[c].call = "open"
     THEN MapFrom(c, [loc[c] EXCEPT !.call = "open_map", !.n = ff[fds[c][loc[c].fd].slot].size])
     ELSE MapFrom(c, loc[c])
  /\ UNCHANGED <<client, server>>

\* Mutant: one page too many.
CloseFrom_past(c, d, l) ==
  LET id == ff[fds[c][d].slot].fileid IN
  IF l.i <= l.n
  THEN Request(c, "DIRTY", None, id, l.i, [l EXCEPT !.call = "dirty", !.i = l.i + 1])
  ELSE Request(c, "CLOSE", None, id, 0, [l EXCEPT !.call = "close"])

\* file_close: every page is reported dirty, results ignored, then the file closed.
CloseFrom(c, d, l) ==
  LET id == ff[fds[c][d].slot].fileid IN
  IF l.i < l.n
  THEN Request(c, "DIRTY", None, id, l.i, [l EXCEPT !.call = "dirty", !.i = l.i + 1])
  ELSE Request(c, "CLOSE", None, id, 0, [l EXCEPT !.call = "close"])

BeginClose(c, d, exiting) ==
  /\ fds[c][d] # None
  /\ CloseFrom(c, d, [Idle EXCEPT !.fd = d, !.n = ff[fds[c][d].slot].size, !.exiting = exiting])
  /\ UNCHANGED <<running, fds, server>>

close(c) == Start(c) /\ \E d \in Fd : BeginClose(c, d, FALSE)

dirty_reply(c) ==
  /\ loc[c].pc = "got" /\ loc[c].call = "dirty"
  /\ CloseFrom(c, loc[c].fd, loc[c])
  /\ UNCHANGED <<client, server>>

\* fd_close unmaps the Filefd page, whatever file_close returned.
close_reply(c) ==
  /\ loc[c].pc = "got" /\ loc[c].call = "close"
  /\ fds' = [fds EXCEPT ![c][loc[c].fd] = None]
  /\ Return(c)
  /\ UNCHANGED <<running, ops, server>>

\* ftruncate: the size in the shared page is changed before the server knows.
ftruncate(c) ==
  /\ Start(c)
  /\ \E d \in {e \in Fd : fds[c][e] # None}, n \in Size :
       LET s == fds[c][d].slot IN
       /\ ff' = [ff EXCEPT ![s].size = n]
       /\ Request(c, "SET_SIZE", None, ff[s].fileid, n,
            [Idle EXCEPT !.call = "set_size", !.fd = d, !.i = ff[s].size, !.n = n,
                         !.old = ff[s].size])
  /\ UNCHANGED <<running, fds, opentab, size, srv>>

\* New pages are mapped; if that fails the old size is set again.
ftruncate_reply(c) ==
  /\ loc[c].pc = "got" /\ loc[c].call \in {"set_size", "ext_map"}
  /\ IF loc[c].r = "ok" THEN MapFrom(c, [loc[c] EXCEPT !.call = "ext_map"])
     ELSE IF loc[c].call = "set_size" THEN Return(c)
     ELSE Request(c, "SET_SIZE", None, Fileid(c), loc[c].old, [loc[c] EXCEPT !.call = "undo"])
  /\ UNCHANGED <<client, server>>

remove_or_sync(c) ==
  /\ Start(c)
  /\ \/ \E f \in File : Request(c, "REMOVE", f, 0, 0, [Idle EXCEPT !.call = "plain"])
     \/ Request(c, "SYNC", None, 0, 0, [Idle EXCEPT !.call = "plain"])
  /\ UNCHANGED <<running, fds, server>>

plain_reply(c) ==
  /\ loc[c].pc = "got" /\ loc[c].call \in {"undo", "plain"}
  /\ Return(c)
  /\ UNCHANGED <<client, server>>

\* fork: the Filefd pages are PTE_LIBRARY and stay shared; fsipcbuf is copied.
fork(c) ==
  /\ Start(c)
  /\ \E k \in Proc \ running :
       /\ running' = running \union {k}
       /\ fds' = [fds EXCEPT ![k] = fds[c]]
       /\ buf' = [buf EXCEPT ![k] = buf[c]]
  /\ UNCHANGED <<loc, server>>

\* exit: close_all closes the descriptors in their order, then the process ends.
exit(c) ==
  LET open_fds == {d \in Fd : fds[c][d] # None} IN
  /\ c \in running /\ loc[c].pc = "user"
  /\ UNCHANGED ops
  /\ IF open_fds # {}
     THEN BeginClose(c, CHOOSE d \in open_fds : \A e \in open_fds : d <= e, TRUE)
     ELSE /\ running' = running \ {c}
          /\ loc' = [loc EXCEPT ![c] = Idle]
          /\ buf' = [buf EXCEPT ![c] = NoReq]
          /\ UNCHANGED <<fds, server>>

Library(c) ==
  \/ Send(c) \/ Recv(c) \/ open_reply(c) \/ dirty_reply(c) \/ close_reply(c)
  \/ ftruncate_reply(c) \/ plain_reply(c)

Program(c) == open(c) \/ close(c) \/ ftruncate(c) \/ remove_or_sync(c) \/ fork(c) \/ exit(c)

Next == FsServer \/ \E c \in Proc : Library(c) \/ Program(c)

Spec == Init /\ [][Next]_vars

\* The scheduler runs everyone (Kernel!NoStarvation), so the server and processes
\* inside a library call keep going; programs need not call anything.
FairSpec == Spec /\ WF_vars(FsServer) /\ \A c \in Proc : WF_vars(Library(c))

-----------------------------------------------------------------------------
\* A descriptor keeps denoting the file it was opened for, and the server accepts
\* it, whatever other processes open, close, fork and truncate meanwhile: open_alloc
\* gives out no slot that is in use, and the fileid in the shared page stays current.
DescriptorsStable ==
  \A c \in Proc, d \in Fd : fds[c][d] # None =>
    LET s == fds[c][d].slot IN
    /\ opentab[s].file = fds[c][d].file
    /\ open_lookup(ff[s].fileid)

\* fsipc: "Send an IPC request to the file server, and wait for a reply."  Once the
\* server has taken a request, the reply comes.
RequestsAnswered ==
  \A c \in Proc : loc[c].pc = "sent" ~> loc[c].pc = "got"

\* With a single client every call of the library returns.
CallsReturn ==
  \A c \in Proc : loc[c].pc = "send" ~> loc[c].pc = "user"
=============================================================================
