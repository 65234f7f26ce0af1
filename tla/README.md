# A TLA+ model of MOS

MOS is the teaching operating system of this repository: a small exokernel for
one MIPS R3000 CPU (`kern/`), a user library that builds fork, pipes, files and
program loading on top of its system calls (`user/lib/`), a file system server
that runs as an ordinary process (`fs/`), a shell (`user/sh.c`) and host tools.
This directory models its parts in TLA+, checks them with TLC on small
instances, and proves with TLAPS, for every number of environments, pages,
descriptors, buffers, files and commands, the central properties of the kernel, of
pipes, of fork, of the file server, of the file system's blocks and start, of the shell, and of the
library's memory functions and program loader.

## 1. Inventory

What makes the system hard to test: the kernel is never interrupted inside a
handler, but everything in user mode, the whole of `user/lib` included, can be
preempted between any two instructions, and shares pages with other processes.
Handlers change page tables, reference counts, TLB, run queue and IPC state
together, and each of these steps can fail for lack of memory.

| component | state | operations | interacts with |
|---|---|---|---|
| physical pages, page tables, TLB (`kern/pmap.c`, `tlbex.c`, `tlb_asm.S`) | `pp_ref`, `page_free_list`, page directories and tables, TLB | `page_alloc`, `page_free`, `page_decref`, `pgdir_walk`, `page_insert`, `page_remove`, `tlb_invalidate`, TLB refill with passive allocation | called by environments and system calls |
| run queue (`include/queue.h`) | links `tqh_first`, `tqh_last`, `tqe_next`, `tqe_prev` | `TAILQ_INSERT_HEAD`, `_INSERT_TAIL`, `_REMOVE`, `_FIRST`, `_EMPTY` | scheduler, system calls |
| environments (`kern/env.c`) | `envs[]`, `env_free_list`, `asid_bitmap`, `curenv`, the counter of `mkenvid` | `env_alloc`, `env_create`, `env_free`, `env_destroy`, `env_run`, `envid2env` | pages, run queue |
| scheduler and clock (`kern/sched.c`, `genex.S`) | `env_sched_list`, `count` | `schedule`, timer interrupt | `env_run` |
| system calls and IPC (`kern/syscall_all.c`) | `env_ipc_*` fields | memory calls, `sys_exofork`, `sys_set_env_status`, `sys_env_destroy`, `sys_yield`, `sys_ipc_recv`, `sys_ipc_try_send`, console and device calls | everything above |
| pipes (`user/lib/pipe.c`, `pageref.c`) | `struct Pipe` in a shared page; mappings of three pages | read, write, close, `_pipe_is_closed` | descriptors, fork, `pp_ref` seen through `pages[]` |
| descriptors (`user/lib/fd.c`) | Fd pages and data pages by number | `fd_alloc`, `close`, `dup`, `read`, `write`, `seek` | device operations (pipe, file, console) |
| fork, copy-on-write (`user/lib/fork.c`, `kern/tlbex.c` `do_tlb_mod`) | `PTE_COW`, `PTE_LIBRARY` bits | `fork`, `duppage`, `cow_entry` | memory calls, page fault upcall |
| file system blocks (`fs/fs.c`) | block cache, bitmap, `struct File`, disk | `read_block`, `alloc_block`, `free_block`, `file_block_walk`, `file_truncate`, `file_flush`, `fs_sync`, directories | disk driver |
| file system server, clients (`fs/serv.c`, `user/lib/fsipc.c`, `file.c`, `ipc.c`) | `opentab`, Filefd pages, request page | open, map, set_size, close, dirty, remove, sync | IPC, page sharing |
| disk driver (`fs/ide.c`) | device registers | `ide_read`, `ide_write` | device |
| loading, spawn (`lib/elfloader.c`, `user/lib/spawn.c`) | segments of a program | `elf_load_seg`, `spawn` | kernel, files |
| shell, exit and wait (`user/sh.c`, `user/lib/libos.c`, `wait.c`) | descriptors and children of each shell process | `readline`, `gettoken`, `parsecmd`, `runcmd`, `close_all`, `wait`, `exit` | fork, spawn, pipes |
| formatting and strings (`lib/print.c`, `lib/string.c`, `user/lib/debugf.c`) | output buffer | `vprintfmt`, `print_num`, `debugf`, `memcpy`, `memset` | console |
| image writer (`tools/fsformat.c`) | `disk[]`, `nextbno` | `init_disk`, `create_file`, `write_file`, `write_directory`, `flush_bitmap` | the file system server boots from its image |
| console, exceptions entry, other host tools | see PROJECT.json | | |

Properties that make the components correct:

* pages: reference counts are exact; a free page is mapped nowhere; tables are
  private; the TLB never shows a page that somebody else may be given; no
  assertion fails, also when memory runs out in the middle of an operation;
* environments: ASIDs are unique and given back;
* scheduling: the linked queue holds exactly the runnable environments, the
  running one among them; nobody starves while the kernel does not wait for a key;
* IPC: a process waits for a message only by its own call;
* pipes: a bounded FIFO whatever the preemption; nobody is told of a close that
  has not happened; a read or write that can return does;
* fork: every process has memory of its own, and no write fault is without handler;
* file server: a descriptor keeps denoting its file; requests are answered;
* file system: a block belongs to one place of one file or is free, and internal
  panics cannot be reached, as long as nothing befalls an indirect block; a path
  leads to the file the image was made from; the server boots;
* shell: every program of a pipeline gets the descriptors the line says and no
  others; a command ends, and nothing of it is left when the shell prompts;
* loader: a program's segments, laid out as `user.lds` does, and its arguments are
  in memory as its file and the command line say;
* formatting and strings: what is printed, copied or tokenised is what the input
  says, for every width, alignment and end of input.

The hazards, each at its line and with the properties that would catch it, are
the list `hazards` of `PROJECT.json`.

## 2. Modules

| module | models | depends on |
|---|---|---|
| `MosBase` | slots of `envs[]`, address space layout, `is_illegal_va` | |
| `Tailq` | the TAILQ macros, store by store | `MosBase` |
| `Pmap` | `kern/pmap.c`, TLB | `MosBase` |
| `Kernel` | `env.c`, `sched.c`, `syscall_all.c`, `tlbex.c` as one state machine | `Pmap`, `Tailq` |
| `Channel` | abstract bounded FIFO | |
| `Pipe` | `pipe.c` with the parts of `fd.c` and `fork.c` that move its pages | refines `Channel` |
| `PrivateMemory` | abstract: every process has memory of its own | |
| `Cow` | `fork.c`, with `do_tlb_mod` and passive allocation | refines `PrivateMemory` |
| `FsBlocks` | `fs.c` under the requests of `serv.c` | |
| `FsServ` | `serv.c` and its clients `file.c`, `fsipc.c`, `ipc.c` | |
| `Shell` | `sh.c` with `spawn`, `wait`, `exit`, `fd_alloc`, `dup`, `close_all`, `pipe`, and `cat` and `echo` | |
| `FsImage` | `fsformat.c` as operators on an image | |
| `FsNames` | `fsformat`'s walk over host files, the server's start and path functions | `FsImage` |
| `PrintFmt`, `Strings`, `Loader` | pure algorithms: `print.c` and `debugf.c`; `string.c`, `readline`, `gettoken` and range checks; `elf_load_seg`, `init_stack` and the loop over program headers | |
| `Loops` | a loop as the state after each of its turns | |
| `Library` | calls each of them with every bounded input and compares | `PrintFmt`, `Strings`, `Loader` |
| `KernelProofs` | proofs about the kernel, its page tables and queues | `Kernel` |
| `PipeProofs`, `CowProofs`, `ShellProofs` | proofs about the user library and the shell | `Pipe`, `Cow`, `Shell` |
| `ServProofs`, `FsBlocksProofs` | proofs about the file server and the blocks of files | `FsServ`, `FsBlocks` |
| `NamesProofs` | proofs about the image and the server's start | `FsNames` |
| `LibraryProofs` | proofs about memory copies, output, input lines, range checks and the loader | `Library` |
| `MCKernel`, `MCPipe`, `MCCow`, `MCFs`, `MCServ`, `MCShell`, `MCNames`, `MCLibrary` | constants and symmetry for TLC | |

### Kernel, Pmap, Tailq

A handler runs with interrupts off on one CPU, so one handler is one action, the
trailing `schedule()` included (operator `Switch`). `curenv` may issue any
system call with any argument, touch any page (`do_tlb_refill`) or be
interrupted (`handle_int`). The exception is `sys_cgetc`, which looks for a key inside
the kernel until there is one: `kern` is `"cgetc"` from the call to the key (`scancharc`), and
nothing else happens meanwhile. The memory is one record that the functions of
`pmap.c` transform, so a handler is written as the composition of its calls, and
an early return leaves exactly what had been done by then. A failing assertion, a
store through a null link and a `panic` set `kern` to the reason, and nothing
happens afterwards.

Two-level paging is modelled through the recursive mapping that `env_setup_vm`
installs: a page table is the page mapped in the UVPT window, so that one
function from virtual pages to entries covers user pages, tables and the
directory, and a page fault on the window (which creates a table without
`pgdir_walk`) needs no special case. The window goes on above the directory's own page, up to
`ULIM`: `passive_alloc` gives pages there (`HighVa`), and `env_free`, whose loop ends at
`PDX(UTOP)`, forgets them, with their count and their TLB entry. The history variable
`leaked` records the pages to which this has happened. `pp_ref` wraps at `RefMod`. The free lists
of pages and environments are sets: their elements are interchangeable. The run
queue is not: its four kinds of link are kept as the macros store them, since a
second insertion or removal of the same element is what the hazards are about.
The value of a message, trap frames and `env_runs` are left out.

Three specifications share the actions. `Spec` lets programs make every call with
every argument. `LibSpec` restricts `sys_env_destroy` and
`sys_set_env_status` to their use in `user/lib`: exit destroys the caller, fork
and spawn start a child once. `SpawnSpec` adds spawn's error paths to it, which
destroy a child that was never runnable.

### Pipe and Channel

Every step touches shared memory once, in program order; between two steps any
other environment may run. `Preempted` raises the flag that stands for
"`env_runs` has changed" in every other environment. `IndexFirst` chooses what C
leaves open in `p_buf[p_wpos++ % BY2PIPE] = c`: whether the new index or the
byte is stored first.
The refinement mapping takes the buffer between the two positions for the
channel; a byte counts as written or read when the position is stored.

### Cow and PrivateMemory

Each system call of `fork` and `cow_entry` is a step, and so is each function
call of `fork`, because it stores into the stack, a page that `fork` is just
taking the write permission from. A store into a page without `PTE_D` enters
`do_tlb_mod`, runs `cow_entry` and is repeated; a store into an unmapped page
allocates one. Memory is counted: the pages mapped, and for each address
space its directory, a page table (the addresses lie in one) and the exception
stack. Running out of it is in the model at each allocation. Page contents are
values, and `MemoryIsPrivate` maps the contents seen through the page tables to
`PrivateMemory`, where fork copies and stores are private. The stack of the child is
left open there: it holds whatever frames the parent had when it was shared.

### FsServ

`ipc_send` and `ipc_recv` are a rendezvous: sending succeeds once the other side
waits. The request page is the client's own buffer, which the server reads when
it serves the request. `open`, `close`, `ftruncate`, `remove`, `sync` and exit send
the sequence of requests that `file.c` sends, fork shares descriptors. Whether a
slot of `opentab` is free is decided as in `open_alloc`, by who maps its page.
Requests that need a block may fail. The pointer that `serve_open` uses
after a failing `open_alloc` is uninitialised; it is taken to be any slot.

### FsBlocks

The server has one thread, so a request is one action. `fs` is its memory, the
disk, and whether it called `user_panic`. The words of a block are what
`file_block_walk` would find in it, so a data block that becomes an indirect
block shows what its old contents do. `serve_map` lends the page of a block to the client
(`lent`), and clients store words in pages lent to them (`ClientWrite`), as
`user/lib/file.c` does through its mappings. Nobody takes a page back when the file is
truncated or removed and the block used again, and nobody compares the offset of a request with the
size of the file, since a client loops over the size it read when it opened it. The pages the kernel still
has when a request comes (`pages`) are any number, so `alloc_block` may fail after it has found a block.

So three things can befall an indirect block, and the history variable `strayed` records
them: a block is asked for in it beyond the end of the file (`late`), a client stores in its
page, which was lent as a data block before (`stale`), and it is made of a page with old words
(`leftover`). Each breaks the file system; the properties say what holds until one of them
happens. What else stale pages do, to the data of other files, is not a
matter of blocks and not modelled. The loops of
`file_truncate` and `file_flush` are recursive functions over the block numbers; those
of `file_flush` and `fs_sync` that write independent blocks are one set of blocks. The
directory is flat, as an image of `fsformat` with files in `/`; the files are
open from the start and empty, and may have been larger when some client opened them.

### Shell

A process makes one library call per step, so that a switch can come between
`pipe`, `fork`, each `dup` and `close`, the two halves of `spawn` (the descriptor
of the program file closed, the library pages shared) and each descriptor of
`close_all`. A line is a sequence of tokens (`Strings` has the characters). The
processes that hold an end of a pipe stand for the reference counts: `Pipe` shows
that the counts say so. Reading an empty pipe and testing for its end are two steps.
`MaxFail` calls of a behaviour fail for lack of memory. A behaviour has one line: the
shell prompts again with nothing left of it (`PromptMeansDone`), which is its state
before the line. What is written is counted,
not kept. Spawn's failures behind `syscall_exofork` are the run `spawn_error`.

### FsImage and FsNames

The image is the array `disk` of `fsformat`; a block keeps its Files, its block
numbers, its bits of the bitmap and, for data, which block of which host file it is.
The host files are the initial state, and `fsformat` takes one of them per step, depth
first. The server then boots: `check_write_block` is three steps, because the super
block on the disk is overwritten between them, and the power may fail in each. In
service, files are removed in every order. A path is a sequence of names; a name that is
too long is a name of its own. `file_create` and
`dir_alloc_file` have no caller (`serve_open` returns the error of `file_open`) and are
left out. What of the cache reaches the disk is the subject of `FsBlocks`. `next_block` does not
notice the end of `disk[]`; the module says nothing of what is written behind it, so its
properties and theorems are about host files that fit.

### PrintFmt, Strings, Loader, Library

A loop is the state after each turn, a recursive function over the loop's own variables, so
that it can be reasoned about: `Iterate` of `Loops` for a number of turns, `Through` for a turn
per element of a sequence (a character typed, a chunk of output). `vprintfmt` and the digits of `print_num` are
folds over a bounded number of turns. The references in `Library` and at the end of `PrintFmt` are written without them (a number
by its value, a line by what the user sees, a format by a reader of one character at a
time). Integers have `W` bits, there are `AddrSize` addresses, and both wrap. Word accesses record
whether they were aligned. `Loader` keeps memory byte by byte and loads the segments of a program one after the
other into it (`load_segments`); the mappers of the kernel and of spawn do the same to it: they
replace what was mapped there.

## 3. Runs

| run | expected | what it shows |
|---|---|---|
| `mem` | pass | `LibSpec`, 2 environments, 2 user pages, a page of the window above the directory, 5 physical pages, TLB of 1 entry, 2 ASIDs, 3 creations: type invariant, `PageRefsExact`, `FreePagesUnmapped`, `PageTablesSound`, `TlbCoherent`, `AsidsExact`, `NoInternalPanic` |
| `sched` | pass | `FairLibSpec`, 3 environments, priorities 1 and 2, `sys_cgetc`: `SchedListInvariant`, `CurenvRunnable`, `WaitsOnlyByOwnCall`, `NoStarvation` |
| `spawn_error` | violation | `SpawnSpec`: destroying a child that never ran follows a null link (`env.c:517`) |
| `pipe_data` | pass | 1 reader, 1 writer, buffer of 2, 5 bytes: `PipeIsFifo` (refinement of `Channel`), `ReadReturns`, `WriteReturns` |
| `pipe_dup` | pass | 2 environments, 3 descriptors: fork, dup, close and test in every order keep `NoFalseClose` (with reads and writes too: `PipeNoFalseClose`, section 4) |
| `fs_blocks` | pass | 2 files, 3 data blocks, 1 direct pointer and 1 indirect word per file, clients that store block numbers and ask for any block, until something befalls an indirect block: `BlocksExact`, `NoFsPanic` |
| `cow` | pass | 3 processes, a private, a shared and a stack page, up to 3 stores and forks: `WritableIsPrivate`, `FaultsHandled`, `MemoryIsPrivate` (refinement of `PrivateMemory`) |
| `serv` | pass | 2 clients, 2 files, 3 open files, 4 calls: `DescriptorsStable`, `RequestsAnswered` |
| `serv_full` | violation | with no free slot `serve_open` answers twice, and server and client wait for each other |
| `shell` | pass | 13 command lines, 7 processes, 5 descriptors, pipes of 1 byte, 1 failing call: `Wired`, `PromptMeansDone`, `CommandEnds` |
| `names` | pass | 80 sets of host files on a disk of 20 blocks with two bitmap blocks: `PathsExact`, `Sound`, `NoneLost`, `Boots` |
| `library` | pass | about 80 000 calls: `PrintExact` (formats, numbers, buffer), `BytesExact`, `InputExact` (lines, tokens), `RangesSafe`, `ProgramLoaded` (segments, headers, stack) |

Bounds. Five pages let two environments own a directory and a table each and
compete for the fifth, so memory runs out at every place where it is allocated.
`MaxId` (calls of `mkenvid`) is one more than the slots, so a slot, its ASID and
its pages are reused once, also under what was left behind in the window. Slots are interchangeable (`Symm`):
nothing orders them, and `env_free_list` is a pool. `Console` says whether programs read the
console; `sched` has it, and in `mem`, which has no property that waiting could change, it is off. Three environments are the smallest queue with a
middle element. A pipe buffer of 2 is filled and drained several times by 5
bytes and read sizes 1 and 3, and the positions (`PosMod` 6) do not wrap. Three
data blocks for two files that want up to three each (two data, one indirect)
make the disk full at every allocation; sizes go over each block boundary and
stop on both sides of it (`BY2BLK` 2). In `fs_blocks` clients store 0, 4, which is a data block,
and 7, a number beyond the disk, and ask for both blocks of a file whatever its size is (`Bnos`).
The view `Seen` leaves out `dirty` and the copies on the disk: a server that runs does not read
them back (a cached page stays mapped, and a block that was never cached was never written), so
states that differ only there go on alike and the properties say the same of them. The constraint
`Unharmed` stops the run where `strayed` is no longer empty: the two properties say nothing of what
comes after, and `strayed` never becomes empty again.
In `cow` three operations of the programs are two forks and a store, or a fork
and two stores, by whichever process; exits are not counted. A third process
is what makes a page shared by copy-on-write be shared again. The 19 frames are
what three processes can need at once (three frames of tables and exception
stack, two private pages and a page at `UCOW` each, and the shared page): with
fewer, `duppage` ignores failing calls and a child starts without pages, which
`PrivateMemory` does not allow. In `serv` four calls and two usable descriptors per
process cannot fill three slots; `serv_full` has one slot.
In `shell` three programs are the longest pipeline (a shell, three shells for the
commands and three programs: 7 processes), a pipe of one byte is full and empty at
every second step while two bytes go through it, and five descriptors leave, next to
0 and 1, just what a pipe or a file needs. In `names` `BIT2BLK` is 16 for 20 blocks, so
the bitmap has a second, partial block; files have 0 to 4 blocks with 2 direct
pointers, directories up to 3 blocks of 2 Files; one set fills the disk exactly and
one has a file that is too large. In `library` the sets contain every boundary: all
formats of up to 3 characters over 10 and all of 5 that start with `%`, all lines of
up to 7 keys over a buffer of 3, which newline or end of input may follow, all three lengths around a buffer of 3, every pair of
alignments, every address and length of a 32-byte address space, single segments of all sizes around
pages of 32 bytes, and pairs of segments in either order on the same pages, on neighbouring ones and apart.

Deadlock is not checked where the system may stop: a kernel that panics or runs
out of its bounds, programs that end.

Fairness. `FairLibSpec` assumes weak fairness of the boot steps and strong fairness of the timer
interrupt: the clock is never masked in user mode, and a tick that comes while the kernel waits in
`sys_cgetc` stays pending and is taken when it returns. Nothing is assumed of the programs, nor that
anybody presses a key: "kernel does busy waiting here, blocking all envs"
(`kern/syscall_all.c:473`), so `NoStarvation` excepts the behaviours that wait for one for ever. The
fairness of the modules above the kernel presumes that the system does not wait for a key for ever.
`Pipe!FairSpec` assumes that every environment inside a library call keeps
running, which is what `NoStarvation` gives, as does `FsServ!FairSpec` for the server
and its clients (`RequestsAnswered` starts when the server has taken the request: which
of several spinning senders comes first is left open). `Shell!FairSpec` assumes it of every
process that is not at the prompt, and that the user ends the input of a `cat` that reads
the console; nothing is assumed of when a line is typed. `Pipe` also assumes strong fairness for `read_refs`,
an iteration of `_pipe_is_closed` that is not interrupted: an iteration is a few
instructions and a time slice 5 ms, so not all of them are cut. No fairness is
assumed of a program starting a call.

Each property has a mutant: a plausible mistake in the code (a dropped guard,
a forgotten reference, a swapped order) under which TLC finds it violated.
They stand before the definition they replace.

### Divergences

The runs `spawn_error` and `serv_full` each show one, and `findings` in `PROJECT.json` quotes what the
code says against it. Five more have a configuration of their own, which states what a comment of
the code says and which TLC finds violated by what the code does (`tlc -config X.cfg M`):

| configuration | module | property | the comment, and the code |
|---|---|---|---|
| `mem_window.cfg` | `MCKernel` | `EnvFreesAll` | "Free env e and all memory it uses." (`kern/env.c:472`): the loop of `env_free` stops at `PDX(UTOP)` (line 483), `passive_alloc` gives pages up to `ULIM` (`kern/tlbex.c:28`). A page that a program touched at the top of the UVPT window stays counted, and in the TLB, when nobody refers to it. |
| `fs_late.cfg` | `MCFs` | `TruncateFrees` | "Since the file is shorter, we can free the blocks that were used by the old bigger version but not by our new smaller self" (`fs/fs.c:772`): `serve_map` compares no offset with the size of the file (`fs/serv.c:154`), and a client maps the blocks below the size it read at `open` (`user/lib/file.c:56`). A block mapped beyond the end of a file that was truncated since is lost with the indirect block at the next truncation. |
| `fs_leftover.cfg` | `MCFs` | `GetBlockReturns` | "return 0 on success, and read the data to `blk`, return <0 on error" (`fs/fs.c:526`): `free_block` leaves the page of a block in the cache and `map_block` keeps it (`fs/fs.c:153`). A data block becomes an indirect block with what a client stored in it, and `read_block` panics on the block number it finds there. |
| `args_terminated.cfg` | `MCLibrary` | `ArgsTerminated` | "Set args[argc] to 0 to null-terminate the args array." (`user/lib/spawn.c:64`): the word is the address of the last string's NUL (line 66). |
| `segments_mapped.cfg` | `MCLibrary` | `SegmentsMapped` | "Map all section at correct virtual address" (`lib/elfloader.c:17`): of a segment whose file part starts and ends inside one page and that is larger in memory, the loop at line 59 maps that page again, zeroed. |

The following were met while modelling too and can be
reproduced by a change of constants or are visible in a definition:

* `fork` shares all Fd pages before the pipe page (`user/lib/fork.c:161`), while
  `pipe.c:108` says "If they're the same, the pipe is closed": in `pipe_dup.cfg` with
  `Proc = {p1, p2, p3}`, `NFd = 2` and `Start <- Shared`, `NoFalseClose` fails.
* `p_buf[p_wpos++ % BY2PIPE] = ...` (`pipe.c:210`): in `pipe_data.cfg` with
  `IndexFirst = TRUE`, which C allows as well, `PipeIsFifo` fails. The passing run is
  about the other order only.
* a client that keeps the page of a freed block (`user/lib/file.c:183`) stores in whatever the block
  has become: with `NoFsPanic` replaced by `strayed \subseteq {"stale"} => ~fs.panic` in the
  instance of `fs_blocks` and without its constraint, an indirect block is overwritten and
  `read_block` panics.
* `pipe_read` returns 0 although bytes were written, if writer and close come between its
  two tests (`pipe.c:173`, against the comment at 146).
* `argv[argc] = 0` (`user/sh.c:197`) is one behind the array with 128 arguments: `MAXARGS`
  bounds `argc`, not `argc + 1`.
* `echo > out | cat` writes the output of `cat` to `out` (`Wired`), and an empty command
  left of a `|` is not waited for (`PromptMeansDone`).
* removing a directory forgets the blocks of what is in it (`NoneLost`); a power failure in
  `check_write_block` leaves a disk that does not boot (`Boots`).

## 4. Proofs

Every theorem is for arbitrary values of the constants, under the assumptions stated
beside them and the hypotheses named in its statement. A hypothesis is there where the
code needs one; what goes wrong without it is said below.

### Kernel

The sets of environments, user pages and physical pages are finite and otherwise
arbitrary, and so are the number of ASIDs and the size of the TLB. All theorems but
`TypeCorrect` have the hypothesis
`RefBound`: `pp_ref` has more values than there are places in page tables
(`Cardinality(Env \X Va) < RefMod`). The code does not enforce it: 65536
mappings of one page fit into 64 page tables of one environment. The hypothesis
says exactly how far the accounting can be trusted.

* Queue: if the links represent a sequence, the macros' stores represent
  the sequence with the element put in front, appended or taken out, provided it
  was not in it (insertion) or was (removal).
* Memory: `Core` (counts exact but for the pages in `leaked`, free pages without a reference) and `Shape`
  (tables private and present) are preserved by `page_insert`, `page_remove`,
  `env_setup_vm`, `env_free` and TLB writes, in all their outcomes.
* `TypeCorrect`, `Spec => []TypeOK`, one lemma per action.
* `MemInv` is inductive for `Spec`, that is for arbitrary
  programs. It adds to the properties that the free list of environments and
  `asid_bitmap` match `envs[]`, that an environment that is free owns no
  mapping, and that the TLB agrees with the owner of each ASID. The last two
  need each other: freeing an address space flushes its entries because they
  are the ones in its tables, and reusing an ASID is safe because nothing is
  left under it but entries for the top of the UVPT window (`Leftover`). Those show pages in
  `leaked`, which have a count of one, no reference and no place on the free list, now and for
  ever: whoever reads through such an entry sees a page that no one else has. `PageRefsExactThm`,
  `FreePagesUnmappedThm`, `PageTablesSoundThm`, `TlbCoherentThm` and `AsidsExactThm`
  follow.
* Scheduling: `SchedInv` is inductive for `LibSpec`: `MemInv`, and the
  queue represents a duplicate-free sequence of exactly the runnable
  environments, and the running environment is one of them. It yields
  `SchedListInvariantThm`, `CurenvRunnableThm` and `NoInternalPanicThm`. They are not
  theorems of `Spec`, where a status may be set twice or a child destroyed that
  never ran; `spawn_error` shows the second.
* `WaitsOnlyByOwnCallThm`, an action property of `LibSpec`: in every step the only
  environment that can begin to wait for a message is the one that runs. `env_alloc` does not
  clear `env_ipc_recving`; the theorem needs `SchedInv` to know that a slot that is reused
  was not left waiting, since who waits does not run, and only who runs is destroyed.

### Pipes

`PipeProofs` is for any number of environments and descriptors, any buffer and any
amount of data.

* `PipeNoFalseClose` needs that `close` unmaps the Fd page first and `dup` maps it last
  (`Backed`: an open descriptor always has the pipe page), so that equal reference counts
  mean that no Fd page of the other end is mapped, and that a count that was read is still
  right unless the environment has been preempted since (`RefFresh`), which is what the
  loop over `env_runs` is for. Hypothesis `NoThirdParty`: nobody forks once the pipe exists,
  or there are only a parent and a child. `fork` breaks `Backed` for its child, and a third
  process that tests meanwhile is told of a close (Divergences).
* `PipeTypes`, for either order of the stores in `p_buf[p_wpos++ % BY2PIPE]`. Hypothesis
  `OneWriter`: the bound on the bytes written is tested when a call starts, so
  it holds for one writing environment.
* `PipeImplementsChannel`: `Spec => PipeIsFifo`, the refinement of `Channel`. `FifoInv` says
  that the bytes from `p_rpos` to `p_wpos` are in the buffer, at their place modulo
  `BY2PIPE`, and what a reader or writer has tested still holds when it acts: the other
  side can only make more room or more data. `PipeInOrder`: what is read is what was
  written, without gaps. Hypothesis `OneOfEach`: one environment reads and one writes, the byte is
  stored before the position, and the positions do not wrap (`_pipe_is_empty`
  compares them with `>=`).

### Fork and copy-on-write

`CowProofs` is for any number of processes and pages and any amount of memory.

* `CowTypes`, `CowWritablePrivate` and `CowFaultsHandled` hold without hypothesis, also when
  memory runs out anywhere. `CowInv` is their inductive invariant. Its
  core is `ShareOK`: a page that two processes map is writable for neither, except between
  the two `sys_mem_map` of `duppage`, and then the other one is the child, which does not
  run. `FaultOK` and `PageOK` say that the page under a fault is not written until it is
  replaced, and that the copy at `UCOW` is nobody else's.
* `CowPrivate`: `Spec /\ [](NFree > 0) => MemoryIsPrivate`, the refinement of
  `PrivateMemory`. It adds to `CowInv` that pages nobody maps are clear, that `cow_entry` has
  copied what it is about to map, and that the child has exactly the pages which `fork` has
  passed so far. Faults and the steps of `fork` then change nothing that can be read; the
  step that starts the child is the abstract fork.
* `CowPrivateEnough` replaces `NFree > 0` by a condition on the constants, `EnoughMemory`: a
  frame for every page a process can map, its `UCOW`, directory, table and exception stack,
  and one more. Without it `duppage` ignores the error of `sys_mem_map` and the child starts
  without pages.

### File server

`ServProofs` is for any number of clients, files, descriptors and slots.

* `ServTypes` holds without hypothesis, also after the table was full: a
  library call that reads the fileid or the size of an open file finds its page mapped. Only
  the process itself unmaps a descriptor, and the server's page goes only to the client whose
  `open` it answers, into the descriptor that `open` has chosen (`CallOK`, `ServOK`).
* `ServDescriptors`: as long as every `open` finds a slot (`OpenFindsSlot`), a descriptor denotes
  the file it was opened for. `DescInv` adds that the fileid of a slot tells
  the slot, that a page in use, or on its way to a client, carries the fileid and the file
  of its slot, and that the code after the error of a full table is not reached.
* `ServDescriptorsEnough`: with a slot for every descriptor that `fd_alloc` can hand out
  (`EnoughSlots`) that hypothesis is not needed, by counting: the client that opens has a
  descriptor to spare. With `MAXOPEN` 1024 and `MAXFD` 32 this covers 33 processes. With more,
  `serve_open` may go on with an uninitialised pointer and rewrite a slot in use
  (`serv_full` is about the first consequence of it).

### File system blocks

`FsBlocksProofs` is for any number of files, blocks, direct pointers and words of an
indirect block, and any contents.

* `FsTypes` holds of all behaviours. Its inductive invariant `Typed` adds that an indirect
  block is in the cache, and so is a block that is in use, dirty or lent: that is why
  `file_block_walk` may look into one without a fault and `write_block` never panics.
* `FsBlocksExact` and `FsNoPanic` share the invariant `Good`, which holds until something befalls
  an indirect block (`strayed`); clients may go on mapping, storing in and dirtying whatever
  they were ever given. `Exact` gives every place of
  every file, direct, indirect or in an indirect block, a block of its own, and every block
  in use a place. `Within` is what `file_truncate` needs beside it: the words of an indirect
  block lie below the size of the file, so the loop that clears the blocks behind the new
  size has emptied the indirect block when it is freed; without it the blocks in its
  remaining words would be lost. A `late` request breaks just that, a `leftover` or `stale` word
  breaks `Exact`; `fs_late.cfg` and `fs_leftover.cfg` show that the first two really happen. The loops are proved by the least index at which
  the claim about them fails.
* `FsSmallFiles` needs no such condition: if clients ask only for blocks below `NDIRECT`
  (`SmallFiles`; files of up to 10 blocks), there is never an indirect block, and the bitmap is exact and the
  server does not panic in all behaviours, late requests and stale pages included.

### Image and start of the server

`NamesProofs` is for any host files and any sizes of the disk and of its structures that leave
room for the super block and the bitmap (`ImageAssumption`).

* `BootsThm`: as long as `nextbno` does not pass `NBLOCK`, the server starts from the image that
  `fsformat` makes. What is to be shown is that
  `read_bitmap` finds each block up to the end of the bitmap marked: `nextbno` never
  falls (`Grown`, through every function of `fsformat` and both loops of `write_file`), the
  bitmap blocks are not written until `flush_bitmap`, and this clears the bit that
  `block_is_free` later tests for each block below `nextbno`. The two compute the bit in
  different ways, one by block, word and bit, the other by word from the start of the bitmap
  (`BitPlace`). `SuperSafe` follows the copies of the super block through `check_write_block`;
  it fails for good once the power has failed while the one on the disk is smashed.
* All theorems here are about host files that fit on the disk: `fsformat` does not
  check `nextbno` and writes on behind `disk[]`, so their hypothesis is that it never passes `NBLOCK`.
  In `NamesSound` and `NamesTypes` pointers are looked
  at by where they are (`Ptrs`: in a File, direct or indirect, or in an indirect block).
  `Kept` says that no two of them, wherever on the disk, hold the same block, and that each
  is zero or holds a block that was taken. This alone is not inductive: `Unused` adds that a
  File without a name, and everything behind `nextbno`, is zero, since `create_file` and
  `save_block_link` take over what they find there, and `DirSizes` that directories
  consist of whole blocks, without which a new block would be linked at the wrong number.
  `Complete` (no block of a file is missing) holds of every File except the one whose
  blocks `write_file` is copying (`Filling`, for each turn of the loop).
* `flush_bitmap` makes of this what the server keeps (`Served`): no pointer holds a
  block that is free in the bitmap. `file_truncate` frees each block before it clears the
  pointer to it; since that is the only one (`FreePtr`), the other files keep theirs
  (`Clearing`, for each turn). That a path ends at a File at all (`WalkPath`) needs
  `Complete` of the directories on it: `dir_lookup` would otherwise look into block 0.
* `Sound` follows from `Served`: `OwnPtrs` shows that no pointer is of two files, `OwnedCount`
  that none is in a file twice. `PathsExact` and `NoneLost` do not, see below.

### Shell

`ShellProofs` is for any command lines, with any number of `|`, redirections and words, any
number of processes and descriptors, and any bound on failing calls, without hypothesis.

* The invariant `Inv` says of each process, by where it is (`Local`), which descriptors it has,
  to which `|` of the line each pipe end belongs, and that 0 and 1 are what the part of the
  line parsed so far asks for. `Links` relates the processes: two descriptors, of whichever
  processes, are ends of one pipe exactly when they belong to the same `|`. A step of one process
  can break it only where a pipe is made, and there `Top` is used: one process parses at a
  time, and no descriptor belongs to a `|` that it has still to meet, so that the new pipe is nobody's.
* `ShellWired` follows from `Local` and `Links`: a program starts when its process has closed
  every end but the two it uses, and the pipe on its input is the one that its left
  neighbour has on its output.
* `ShellPromptDone` needs `Tree`: as long as no `runcmd` has returned early, each
  process is awaited by another one, the creator that holds its id in `child` or
  `rightpipe` and has yet to wait for it. `Numbered` says that processes wait for later ones only.
  The prompt is then impossible while a process of the line lives, by looking at the least
  such process: who awaits it is alive, earlier, and not the shell.
* `ShellTypes` is part of `Inv`, because the step of a program on its descriptors has a
  type only if they are open.

The invariants `Good` and `Inv` were invariants of `fs_blocks` and `shell` before
they were proved.

### Memory functions, input and output, loader

`LibraryProofs` is about calls with any input, not the bounded ones of the run. Its loops are
proved by the least turn after which the claim fails; `IterateInv` is the rule for a number
of turns, `ThroughNext` (the state after `k` elements is one turn from that after
`k - 1`) for those that go through a sequence. Assumptions:
`StringsAssumption` (devices lie inside the address space), `LoaderAssumption` (a page is a
multiple of a word, and the stack page starts on a page), `PrintAssumption` (a buffer has
room for a character), `LibraryAssumption` (sizes are natural numbers, and a line, which
ends at its NUL, has none before).

* `RangesSafeThm`: for an address space of any size and any devices, the tests of
  `sys_write_dev`, `sys_read_dev` and `sys_print_cons` are exact, although `va + len` wraps.
* `BytesExactThm`: `memcpy` and `memset` on disjoint ranges of any length and alignment. The
  state after `k` bytes is given explicitly (`k` of the bytes are copied, both addresses
  are at the next one), for the words and for the bytes before and behind them.
* `OutputKeptThm`: what `debugf` has flushed, followed by its buffer and by what is left of the
  chunk, is always what it was given so far; every turn shortens what is left.
* `LineExactThm`: `readline` and the user are followed character by character. Until the first
  newline the buffer holds what the user sees up to the index, and no newline: the invariant
  needs this of the bytes behind the index too, because a backspace makes the loop look at
  an earlier byte. If the line has ever been `BUFSIZE` long, the rest up to the newline or the end of
  the input is discarded and the line is empty; the end of the input ends the shell in other lines only.
* `TokensExactThm`: from the position where the next search starts, the buffer is still the
  line, and the reader of one character at a time has come there with the token that was
  read ahead as its last word. That word is cut off by the search for the next token,
  whether blanks, a symbol or the end of the line come behind it. `InputExactThm` is both.
* `SegmentsExactThm`: after each `map_page` the mapped pages hold the file up to where the
  loop has come and zeroes behind it, page by page, and the other pages what they held before; over
  the segments of a program the claim is that those loaded so far are in memory and nothing else.
  Both need `PageAligned`: a segment that shares a page with another one would replace it, and
  the case that loses the file part (`segments_mapped.cfg`) is excluded by `Loadable`, in the turn
  that maps the page with the end of the file part. `user.lds` aligns `.data` and `.bss` to
  pages, so the programs of the repository are `PageAligned`. `ProgramLoadedThm` has the same limit.
* `HeadersReadThm`: the count (byte 44) and the stride (byte 42) of the ELF header lie
  behind the 32 bytes that a program header overwrites, so they stay what they were for
  any number of headers with any contents; the offset was read before the loop.
* `StackExactThm`: the strings lie one behind the other, hence apart from each other, below the
  end of the page and above the words, for any number and lengths of arguments. It is silent about
  `args[argc]` (`args_terminated.cfg`).

### Only model-checked

`FsNames` (`PathsExact`, `NoneLost`): both relate the image to the tree of host files, which
`HostFiles` unfolds four levels deep for the run; of trees of any depth this is an
induction over data. Of `Library`, formats and numbers (`FormatExact`, `NumberExact`, two of the three parts of
`PrintExact`): the digits of a number are compared with powers of its base, and the provers
know nothing of exponents. Liveness (`NoStarvation`, `ReadReturns`, `WriteReturns`,
`RequestsAnswered`, `CommandEnds`) is out of this prover's reach and stays with TLC.

## 5. Not modelled

Console input and output, trap frames and register save, boot-time allocation, the disk
driver, `ls` and the test programs, `bintoc` and `readelf`: see the notes of `components`
in `PROJECT.json`. They carry no shared state that a property here is about, or are
straight-line device access. Of the console there is the wait for a key (`sys_cgetc`). Offsets of
files (`seek`, `file_read`, `file_write`) are left out, and so is which data a file
should hold: a client that keeps a page of a removed file can change another file's data, which
no property here speaks of. The pages that clients map are in `FsBlocks`, not in `FsServ`. The byte order of the image
(`reverse_block`) is left out of `FsImage`, and so are host names that overflow `f_name` and
host files that overflow `disk`, which `fsformat` does not notice.

## 6. Plan

1. Memory core with proofs: done.
2. Environments, scheduler, IPC with proofs: done.
3. Pipes as refinement of a channel, with proofs: done.
4. File system blocks, with proofs: done for a flat directory and clients that keep pages and
   sizes; left are the data of files and the restart from the disk after a crash.
5. Copy-on-write as refinement of private memory, with proofs: done.
6. File server protocol, with proofs: done for open files and requests; the pages that clients
   map are in `FsBlocks`; left are one model of both, and clients destroyed from outside.
7. Directories, image and boot: done (`FsNames`), with proofs for the boot and for the blocks
   of the files; left is a proof that paths lead to the host's files.
8. Shell, spawn, exit and wait, with proofs: done (`Shell`); left are `ls` and several lines
   of one behaviour.
9. Formatting, strings, loader: done (`Library`), with proofs for memory functions, output,
   input, range checks and loader; left are proofs for `print.c`.
10. Offsets and sizes of files shared by processes (`file_read`, `file_write`, `seek`).
