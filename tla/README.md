# A verification development for the operating-systems lab programs

The repository holds the solutions of a course on operating systems: small C
programs for Linux, one or two files each, that do not call each other. What they
have in common is that each one exercises a kernel mechanism (a heap over `mmap`, a
named semaphore, sockets, `fork`, `ptrace`, the file system), so most of what can go
wrong lies *between* the program and its environment: other processes, the network,
signals, a killed peer, a call that fails half way. That is what the modules here are
about. The assignment text, `src/OS.Semester-1.Tasks (1).pdf`, is the only document.

Two conventions hold everywhere. The kernel, the network and the users are modelled
from how the code uses them; in `PROJECT.json` they are marked external. A definition
named "Mutant of X" in a comment is a plausible bug in X, defined next to it; it is
never part of a specification, and exists so that each property can be shown to
fail when the code is wrong.

## 1. Inventory

| Component | Sources | State it keeps | Operations | Hard behaviour | What makes it correct |
|---|---|---|---|---|---|
| Fixed heap | `lab4/third/heap.c` | block list in one mapping | `my_malloc`, `my_free`, `split_block`, `merge_blocks`, `init_heap` | long sequences of legal calls; rounding and splitting at a boundary; a cursor on a list that changes under it | blocks tile the mapping; held = used; free neighbours merged; first fit; calls return |
| Growing heap | `lab4/third/superheap.c` | block list over several mappings, `total_heap_size` | as above, `expand_heap`, `destroy_heap` | `mmap` places regions anywhere, or fails; merging across regions; unmapping what the list is still read from | no overlap; every byte accounted for; one retry is enough; destruction reads nothing unmapped and leaves nothing |
| Shared memory exchange | `lab6/first.c` | a shared page, a named semaphore, locals of each process | writer pass, reader pass | any interleaving; kill and restart with shared objects that survive; counter overflow | exclusion; no half-written page is ever seen; nobody blocks unless somebody died at the page |
| Poll server and client | `lab7/third/server.c`, `client.c` | `fds[]`, `nfds`, the loop index; TCP buffers | poll, accept, recv, send, close with in-place removal | array edited while it is scanned; stale `revents`; cut messages; RST and SIGPIPE; full array | array = open connections; exact echo; slots come back; every client served |
| Fork server and client | `lab7/second/tcp_echo_server.c`, `tcp_echo_client.c` | descriptor tables of parent and children | accept, fork, close, session, exit | copies of descriptors; `fork` failing; kills of parent and children; reaping | no process holds what it does not use; no zombies; no client waits for ever; the port is released |
| UDP echo | `lab7/first/udp_server.c`, `udp_client.c` | one server buffer and address; client buffers | recvfrom, sendto on both sides | loss, duplicates, reordering, failing calls; several clients at one buffer | a typed line leaves room for the terminator; replies to their owner; in step; answered without loss |
| Tracer | `lab2/tracer3.c`, `ptr.h` | the child's ptrace state, `status`, `regs` | attach, wait, report, resume | signal stops among call stops; kill at any point; unchecked `wait` | no call missed; the trace ends when the child does |
| Directory copy | `lab3/lab_first.c` | the directory, one open file, a buffer | mkdir, readdir, open/fstat/read, reverse, write | other programs change files between `fstat` and `read`; each call fails | a copy is a mirror image of a real content; nothing leaks |
| File operations by link | `lab3/lab_second.c` | names, inodes, links (in the file system) | fourteen operations chosen by `argv[0]` | many commands at a time; a link read in one call and followed in the next; truncation through links | hard links stay one file; a text goes only with its last name and last reader, or when its file is emptied |
| Process life cycle | `lab5/First`, `lab5/Second` | two processes: variables, page frames, stdio buffers, exit status | fork, sleep, print, exit, wait, kill | order held up by sleeps only; buffers and pages duplicated by fork; orphans and zombies; kills | every line once; every report true; every process reaped |
| Clone on a mapped stack | `lab5/Third/third.c` | the mapping both processes use | clone, waitpid, scan, munmap | the parent does not wait and unmaps the stack of a running child; one stdio buffer for both | the child leaves the process table in the end, whether it returns, faults or is left behind by a killed parent |
| Pagemap readers | `lab3/contain_first.c`, `lab3/lab_third.c` | none (read `/proc`) | parse, seek, decode | boundaries of regions and bit fields | decoded pages = pages of the region |
| Address space demos | `lab4/first/*`, `lab4/secondd/*` | none | print, sleep, allocate | none within the program | - |
| Build and syscall demos | `lab1/*`, `lab2/hello*`, `lab2/Hello.asm`, `lab3/inf.c` | none | print | none | - |
| Data | `lab2/Text.txt`, `lab3/my_folder`, `README.md` | none | - | - | - |

The programs interact with each other only in pairs: writer and readers through the
page and the semaphore; servers and clients through sockets; the tracer and the
programs of lab5 with a child; the file commands through the file system. `PROJECT.json` lists the components with their status, and 40 hazards, each at
its line with the properties that would catch it going wrong, or with the reason why
none does.

## 2. Modules and their correspondence with the code

| Module | Models | State | Actions |
|---|---|---|---|
| `Allocator` | the contract of a heap, whatever its lists look like | the set of buffers the caller holds | `Grant`, `Release` |
| `Heap` | `heap.c` | `blocks` (header address -> size, free, next), `heap_start`, the cursor `curr` and loop `pc` of the call in progress, the size asked for and rounded, the buffers held | `Malloc`/`Free` enter a call; `SearchAdvance`, `SearchTake`, `SearchFail` are the turns of the search loop; `MergeFuse`, `MergeAdvance`, `MergeDone` those of `merge_blocks` |
| `SuperHeap` | `superheap.c` | the list as a sequence in list order, the pages mapped, `total_heap_size`, the cursor | the same, plus `Expand`/`ExpandFails`, and `Destroy`, `DestroyBlock`, `DestroyDone` |
| `SharedPage` | `lab6/first.c` | semaphore value, page, each process's place and locals, permits lost | `Start`, `SemWait`, `WriteElement`, `ReadElement`, `SemPost`, `Wake`, `Kill` |
| `PollServer` | `lab7/third` | `fds`, `nfds`, `i`, the listen queue, each connection's bytes in both directions, RSTs | `Poll`, `PollFails`, `Skip`, `Accept`, `AcceptFails`, `RecvEnd`, `Echo`, `EchoFails`, `EchoDies`, `ScanEnd`; client `Connect`, `Type`, `Receive`, `ReceiveEnd`, `Interrupt` |
| `ForkServer` | `lab7/second` | descriptor table of each process, the parent's place, each child's, the listen queue, messages | `Accept`, `Fork`, `ForkFails`, `ParentClose`; `ChildStart`, `Echo`, `RecvEnd`, `ChildClose`, `ChildExit`; kills; clients |
| `UdpEcho` | `lab7/first` | two bags of datagrams, server buffer and address, client buffers | `ServerRecv`, `ServerSend`; client `Type`, `TypeEnd`, `Receive`; failing calls; `Lose`, `Duplicate` |
| `Tracer` | `lab2/tracer3.c` | ptrace state of the child, `status`, `regs`, lines printed | `Attach`, `WaitStop`, `WaitEnd`, `WaitFails`, `Report`, `Resume`; child `TraceMe`, `Enter`, `Return`, `Exit`, `Signal`, `Kill` |
| `DirCopy` | `lab3/lab_first.c` | the directory and every content its files have had, the copy, the file in hand, the loop index, open descriptors | one action per call and one per failing call; `Swap` and `SwapDone`, the turns of `reverse_string`; `Edit` for other programs |
| `FileOps` | `lab3/lab_second.c` | nodes, directory entries, the `print_file` or `print_symlink_target` between its calls, what was printed | one action per command that changes something; `ReadLink`, `OpenTarget`, `OpenFile`, `ReadFile`, `CloseFile` for those that read; `Edit` for other programs |
| `LifeCycle` | the five programs of `lab5` | for each of the two processes its place, sleep, parent, variable and page frame, stdio buffer, end; the lines written; the privilege to see page frames | one action per kind of call; each program is a sequence of calls (`First`, `Observe`, `Second`, `ParZ`, `Third`); `Tick`, `Kill`, `Fault` |
| `MC...` | - | - | constants for TLC only |
| `HeapProofs`, `SuperHeapProofs`, `SharedPageProofs`, `PollServerProofs`, `ForkServerProofs`, `UdpEchoProofs`, `Lab3Proofs` (`DirCopy`, `FileOps`), `ProcessProofs` (`LifeCycle`, `Tracer`) | - | - | theorems |

What is one step, and why:

- *Heaps.* The programs have one thread, so a call in progress excludes another. The
  turns of the loops are steps nevertheless, because the properties speak of the list
  while a loop is at work on it, and because termination of the loops is one of them.
  A caller frees what it holds, once, which is what the `main`s do. A request of 0
  bytes, one over `MAX_ALLOC_SIZE`, a free of NULL, and a failing first `mmap` change
  nothing and are stuttering steps.
- *SharedPage.* Every access to one element of the page is a step. A process may be
  killed between any two steps and started again with fresh locals; the page and the
  semaphore are named objects which nobody unlinks, so they keep their contents.
- *Servers.* Every system call is a step. A server's buffer is local to one turn of
  its loop, so `recv` and the `send` that follows are one step in `PollServer` and
  `ForkServer`; `UdpEcho` separates them, because there the reply goes to an address
  kept in a variable. In `PollServer` a message is two pieces, so that TCP can deliver
  it whole, cut, or glued to the next; `ForkServer` is about descriptors and carries
  whole messages. The order in which `PollServer`'s clients connect is fixed (`IsNext`):
  they are alike, so this leaves out no behaviour but for their names.
- *UdpEcho.* `udp_client.c` does not look at what `fgets` returns (line 30). When the
  input ends, what the buffer holds is sent: the last reply, or, before the first line,
  uninitialised bytes, whose `strlen` is anything. `Init` gives each buffer every
  length up to one more than it holds, and `TypeEnd` may be a client's first step.
- *Tracer.* The child is any program. Calls are numbered; a number stands for what
  `orig_rax` holds during it.
- *FileOps.* A command that changes something is one system call and one step, so
  that any number of them may run at a time. One command reads: `print_symlink_target`
  (`readlink`, then `print_file`) or `print_file` (`fopen`, the `fgets` loop, `fclose`),
  with a step for each, and any other commands in between. A failing call changes
  nothing and is a stuttering step. A path is one name or two (a name in a
  directory); a symbolic link is resolved from where it is, as the kernel does it, and
  by `print_symlink_target` from the working directory, as the program does it. The
  permissions that matter are those of files; directories are always accessible.
- *LifeCycle.* A program is data, three sequences of calls (before the fork, child,
  parent), and the actions are what the calls do, so that the five programs share one
  model of fork, copy on write, stdio, sleep, exit and wait. Calls to `printf` with
  nothing between them are one line, and a text is named by a word or two of it. Time passes (`Tick`, to the next moment a sleep
  ends) only when no process can run: a process that can run does so within the second.
  This is what the programs rely on when they let sleeps order two processes; without
  it `SleepsOrder` fails and `AfterModification` fails all the more. stdout is a
  terminal or not (line or block buffering). Copy on write decides the frame by who
  else uses it; a page used by nobody else may or may not be copied, since it may still
  be the page of the program's file. The two processes of `third.c` share one stdio
  buffer whose lock cannot tell them apart, so that a line may be lost or doubled when
  both print; `waitpid` fails there at once, for lack of SIGCHLD. A step `Try` stands for
  calls whose failure ends the program (`open`, `ftruncate`, `mmap`; `fopen` of the stack
  file, after which the stack stays mapped). `print_pagemap_info` tells the frame to a
  privileged process and 0 to another, as the kernel has it; it tells none when the page
  is swapped out or absent, or when `open`, `lseek` or `read` fails (`PrintNoFrame`).
- *DirCopy.* One step per call that others can see or disturb and one per turn of the
  loop that reverses the buffer; `malloc`, `free` and `close` go with the call before or
  after them. What others do to a file, writing any content or deleting it, may fall
  between any two steps, `fstat` and `read` for one.

## 3. Runs

Every run's bounds are the constants of its `.cfg`.

| Run | Question | States | Bounds and why they are enough |
|---|---|---|---|
| `heap` | every order of calls on one mapping: shape, ownership, first fit, termination, and the allocator contract | 41 097 | 200 bytes = 25 words with the real 24-byte header: room for up to six blocks, so that a merge has free and used neighbours on both sides and a fusion of three; requests that round up, that leave a tail smaller than a header, that fit exactly, that fill the heap, that never fit |
| `superheap` | growth, placement, retry, destruction | 21 249 | six pages of 64 bytes and regions of two or three: a new region above, below, adjacent, or apart; no room; one request that needs a larger region than the default |
| `shared_page` | exclusion, torn reads, blocking under kills | 40 287 | one writer, two readers; three elements are enough for a first, a middle and a last; 2-bit numbers wrap in the middle of a page; two kills cover one at the page and one elsewhere |
| `poll_server` | array, echoes, slots that come back, answers | 267 409 | three clients for two slots, so that one is refused; two messages of two pieces each, of one client or of two, so that a chunk can end inside the second; any garbage in the array |
| `poll_server_blocks` (violation) | the freshly accepted entry | - | two clients, one message |
| `fork_server` | descriptors, zombies, waiting clients, the port | 6 122 | two clients for a listen queue of one, room for two processes and two descriptors |
| `tracer` | completeness and end of the trace | 1 059 | three calls, two signals, kill anywhere |
| `udp` | buffers, ownership, order, answers | 206 550 | two clients, two lines each, one loss, one duplicate, one failing call: each fault can hit any datagram in either direction; a buffer of one byte, so that a typed line leaves room for the zero and nothing else, and an uninitialised one fills it or runs past it |
| `dir_copy` | copies and leaks | 2 459 340 | two entries of up to three bytes over two values (a middle byte, palindromes and not), one change by others, to any content or none, which is enough to part what `fstat` and what `read` see; `CopiesAreMirrorImages` is for any number |
| `file_ops` | links under any sequence of commands | 199 064 | three names in the working directory and one in a directory, three nodes: a link to a link to a file, a link into a directory, a loop, two names of one file, a directory reached through a link; links are followed three deep |
| `life_cycle` | lines, sleeps, reports, pages, reaping | 525 293 | the five programs, stdout a terminal or not, two kills: parent and child, in either order, at any moment; one look into pagemap that tells no frame (`MaxUntold`), which can be any of the four; a recursion of one level, since the levels differ in nothing; the theorems are for any depth and any number of such looks |
| `observe_early` (violation) | what `observe.c` calls "after child changes" | - | nobody is killed |

What the properties say, by module:

- `Heap`: `Tiling` the list tiles the mapping at every turn of every loop; `Owned`
  held buffers and used blocks correspond one to one; `Coalesced` outside `my_free` no
  two neighbours are free; `FirstFit` NULL is returned only if no block fits;
  `HeldUntouched` no step moves, resizes or frees somebody else's block;
  `CallsReturn`; `ImplementsAllocator` refinement of `Allocator`. `NothingLost` (when
  all is given back the heap is as `init_heap` left it) is proved from these.
- `SuperHeap`: `BlocksApart`; `Accounted` (every byte of every mapped page lies in a
  block, `total_heap_size` is what the kernel holds, and no block is used that nobody
  holds: nothing is lost, also not by `destroy_heap`); `RetryFits` (the recursion of `my_malloc` ends after one
  level); `NoFault` for `destroy_heap`; `ImplementsAllocator`.
- `SharedPage`: `Exclusion` includes where the one permit is; `PageWhole`; `NoTornRead`;
  `Progress` holds as long as no permit is lost. That a process killed at the page
  blocks all others for ever, those started later included, is part of `Exclusion`.
- `PollServer`: `ArrayIsOpen`, `EchoExact`, `SlotFreed`, `Answered`. The liveness
  properties except two situations the code really gets into: the server sits in
  `recv` for a silent client (`Stuck`, the subject of `poll_server_blocks`), and it is dead.
- `ForkServer`: `NoStrayDescriptor`; `ProcessesAreSessions`, besides children that have
  closed their connection and whose next step is `exit`; `Answered`, `HangUp`, `PortFreed`.
- `UdpEcho`: `TerminatorFits`, a typed line leaves room for the terminating zero on both
  sides (of a buffer nobody has typed into nothing of the kind holds, section 4);
  `OwnReplies`, `InStep` (without duplicates and failing
  calls), `Answered` (without losses and failing calls). The conditions are not
  cosmetic: with a duplicate or a failed `recvfrom` a client really does run one reply
  behind for the rest of its life, and with a loss it waits for ever.
- `Tracer`: `TraceComplete`, `ExitEndsTrace`.
- `DirCopy`: `MirrorImage`, a copy is the mirror image of what its file held at one
  moment, cut at most to the size it had at another (the two are found by different
  calls), or the beginning of that when `write` stops early; `NoLeak`.
- `FileOps`: `LinksTogether`, no command makes one of two hard links mean another file;
  `TextKept`, a text is lost only when its file is emptied, or when it
  has neither a name nor a reader left: a file that `print_file` has open keeps its text
  though others remove its last name.
- `LifeCycle`: `LinesOnce`, although fork copies what stdio has buffered, each line is
  written once, because the programs print after the fork or flush before it (`first.c`
  on a terminal only); `SleepsOrder`, what a sleep is there to make true is true when
  it is relied on; `ReportIsTrue`; `PagesTellTheCopy`, what `observe.c` sets out to show, one
  frame and then another, where the kernel tells frames; where it does not, every frame
  reported is 0, before the copy and after it, so that an ordinary run shows nothing;
  `AllReaped`, zombies, orphans and the clone all leave the process table in the end. A
  child may outlive a killed parent for a while.

Each module states its `TypeOK`, which documents the variables; the proofs establish it
for all but `FileOps`.

### Fairness

Safety runs assume none. Where a run has liveness properties, `FairSpec` assumes weak
fairness of what runs by itself: a call of the heap once entered (`Step`), each process
of `SharedPage` (`Run(p)`; its loops have no other way to stop than a kill), the server
loops (`Serve`, `Main`, `Session(c)`, `Server`, `TraceLoop`), a client's return from
`recv` when there is something to return, and in `LifeCycle` each process (`Run(p)`) and
time (`Tick`). Users, clients, kills, edits and faults get
no fairness: a user may never type, and a traced child may compute for ever. Nothing is
assumed about who gets the semaphore: `sem_post` wakes some waiter, which is why
`Progress` speaks of somebody getting to the page. `UdpEcho` needs one strong fairness
condition, per client: a datagram in the server's socket is received in the end
although others keep arriving, since the socket is a queue. `ForkServer` and `UdpEcho`
have several processes, each with a condition of its own; the others have one.

`CHECK_DEADLOCK FALSE` is set where the system may really stop: when all clients are
gone, when a kill has lost the permit, when the copy or the trace is done, or when the
bound on what clients send is met, when no file command has anything to change. The
heaps and `LifeCycle` are checked for deadlock (`Finished` is its only way to stop).

## 4. Findings

1. `poll_server_blocks`: `accept` appends an entry without clearing `revents` and
   lengthens the scan it is part of; with a stale `POLLIN` the server calls a blocking
   `recv` on a connection that has sent nothing, and serves nobody else meanwhile.
2. `observe_early`: `observe.c` prints "after child changes" (line 100) and "In parent
   after child modification" (line 102) six seconds after the fork; the child changes
   its variable after seven. The frame the parent reports is the one still shared.

Facts about the code that the models contain and no run is spent on:

- `my_malloc(SIZE_MAX - 6 .. SIZE_MAX)` of `heap.c` rounds up to 0 (line 106). The first
  free block "fits", `split_block` returns because its size argument is 0 (line 71), and
  a pointer to a block that is still marked free is returned. `Heap` rounds as the code
  does; its theorems assume that no request wraps (`RequestsFit`). `superheap.c` refuses
  such requests (`MAX_ALLOC_SIZE`).
- The loop of `tracer3.c` ends on `WIFEXITED` only (line 20) and `wait` is not checked:
  when the child is killed by a signal the tracer prints its last line for ever.
  `ExitEndsTrace` is therefore about children that exit.
- A UDP client whose input ends before the first line sends its uninitialised buffer
  (`udp_client.c:30`, unchecked). When `strlen` of it is `BUFFER_SIZE` or more, the server
  receives `BUFFER_SIZE` bytes and `buffer[recv_len] = '\0'` (`udp_server.c:44`) is one
  past its buffer; so is the client's own when the reply comes back (line 45).
  `UdpEcho` has these states, and `TerminatorFits` excepts them by name.
- `observe.c` run without privilege is told frame 0 each time, so that what it prints
  before the write and after it is the same.
- `print_symlink_target` opens the text of a link from the working directory (lines 94
  and 101), though a relative link begins at the directory it lies in: for a link
  elsewhere another file is printed, or none.
- A command of `lab_second.c` called as its usage line says performs nothing: `argv[1]` is
  counted and not used.
- `third.c` does not wait for its child (line 61), which then dies of the unmapped stack
  (line 107) unless it happens to be done.

## 5. Proofs

TLAPS checks every proof to the last leaf. TLC checked each inductive invariant on the
constants of the component's run before it was proved. Nothing is assumed but the assumption each
module names about its constants (and `RequestsFit` in `HeapProofs`).

`HeapProofs`, for every heap size, header size, word size and set of requests that do
not wrap (`RequestsFit`, an assumption of each theorem, next to `HeapConstants`: sizes
are multiples of 8 and a heap holds more than a header):

- `TypeCorrect`, `ListTiles`, `HeldIsUsed`, `AlwaysCoalesced`, `SearchIsFirstFit`,
  `HeapRecovers`: type correctness, the invariants of the run and `NothingLost`;
  `HeldBuffersStay`: its action property;
  `HeapIsAllocator`: the refinement, initial states to initial states and every step
  to a step or a stutter;
  `CallsEnd`: every step of a call brings it nearer to its end, which is never more than
  `2 * HeapSize + 2` steps away. This is what `CallsReturn` rests on, but for the
  fairness that makes the steps happen: `Distance` counts the bytes above the cursor and
  those above the end of its block. An advance moves the cursor up, a fusion the end of
  its block, and `CursorInside` says that neither leaves the heap.
- The invariants of the run are not inductive. `IInv` adds `Aligned` (addresses and
  block sizes are multiples of 8, so that what a split leaves behind is aligned again),
  `MergeFront` (free neighbours exist only while `merge_blocks` runs and only at or
  beyond its cursor: `Coalesced` says nothing during the loop, where it must be
  re-established) and `SearchSize` (the rounded size is a multiple of 8, at least what
  was asked, so that the buffer handed out is large enough). There is one lemma per
  action; `TakeSplitIInv` and `MergeFuseIInv` carry the address arithmetic.
- `HeapRecovers` needs more than the invariant: with nothing held all blocks are free,
  and a tiling without two free neighbours has one block.

`SuperHeapProofs`, for every page size, size of the initial region, header size, limit on
requests and arena, and wherever `mmap` puts a region:

- `TypeCorrect`; `BlocksStayApart`, `RecursionEnds` and `DestroyIsSafe`, the run's
  `BlocksApart`, `RetryFits` and `NoFault`; `NothingIsLost`, its `Accounted`;
  `NothingStaysMapped`, an action property: the step that ends `destroy_heap` leaves no
  page mapped; `SuperHeapIsAllocator`, the refinement of the contract `heap.c` implements
  too; `CallsEnd`, as for `heap.c`: at most two searches with one expansion between them,
  or one pass over the list, and at most `2 * Len(list) + 7` steps.
- That blocks are apart is not inductive: fusing two of them takes that nothing lies
  between. `Layout` says how list and pages belong together: every page a block touches is
  mapped (`Inside`), every mapped page is touched by a block (`Covers`), blocks do not
  overlap, and a block that does not start a page starts where its predecessor on the list
  ends (`Chained`), so that a page is shared by neighbours only. `Held` relates the
  buffers held and the blocks marked used.
- `NothingIsLost` is about bytes, `Layout` about pages. A mapped page is touched by some
  block. Were there a byte of it in no block, that block would end before it in the page
  or begin after it; take the one nearest to the byte. Its end, or its beginning, is
  inside a page, so by `Chained` its neighbour on the list is nearer still (`NoGap`). That
  there is a nearest one is `LeastNatural`, from the library's theorem that the order of
  the natural numbers is well-founded.
- `NoFault` needs the whole history of the heap: `destroy_heap` unmaps block by block,
  which is right only if every block is made of whole pages then. It is, because nothing
  is held, and `Merged` says that with nothing held no two neighbours could be fused;
  by `Chained` each block then starts and ends at a page boundary (`NothingToFuse`). While
  something is held neighbours that touch do exist: a new region may begin where the
  last block ends, and is fused at the next `my_free` only.
- The lemmas are in three groups: pages of a range of bytes, where the prover needs each
  product and quotient of the page size introduced by hand; what a new region, a split, a
  fusion and an unmapping do to `Layout`; one lemma per action.

`SharedPageProofs`, for every set of writers and readers, page length, word width and
number of kills:

- `TypeCorrect`, `MutualExclusion`, `PageIsWhole`, `ReadsAreWhole`.
- `IInv` adds `Settled` (with no writer at the page and no permit lost the page is
  unwritten or whole), `Filling` (a writer at index i has written a run of i numbers
  that ends just before its counter) and `Reading` (a reader remembers the element before
  its index). `PageWhole` alone does not say what holds while the page is in use.

`PollServerProofs`, for every number of clients, length of the array and of the listen
queue, size of a `recv`, and any garbage in the array at the start:

- `TypeCorrect`, `ArrayIsExact`, `EchoIsExact`.
- `IInv` adds `Queue` (no connection is in the listen queue twice, and none in it has an
  entry), without which `accept` could repeat an entry; `Fresh` (nothing belongs to a
  client that has not connected); and `ResetIsLast` (only a client that is gone has
  reset its connection, so that the exception of `EchoExact` cannot be revoked).
- `CloseKeepsArray` is the removal in the middle of the scan: every entry but the closed
  one stays, once. It rests on the listener's entry being the first, which is never
  closed.

`ForkServerProofs`, for every set of clients, queue length and limit on processes and
descriptors:

- `TypeCorrect`, `NoDescriptorStrays`, `NoZombies`.
- `IInv` adds `Accepted` (between `accept` and `close` the parent holds the connection, so
  that the child it forks inherits it; without it a session could be a process without its
  descriptor) and `OneMessage` (a client has at most one message on its way).

`UdpEchoProofs`, for every set of clients, buffer size and number of datagrams, losses,
duplicates and failing calls:

- `TypeCorrect`, `TypedLinesLeaveRoom`, `RepliesAreOwn`, `RepliesStayInStep`.
- The properties speak of buffers; what fills them is on its way. `Short` and `OwnLines`
  say the same of every datagram in flight. `OneExchange` is what keeps a client in step:
  without duplicates and failing calls its line is in one place at most (on its way, at
  the server, or on its way back), and nowhere when it types. `NetIsBags` and the lemmas
  `SentBag` and `TakenBag` are about bags.

`Lab3Proofs`, about `DirCopy` for every set of names, every content up to any length and
every number of changes by others:

- `TypeCorrect`, `CopiesAreMirrorImages`, `NothingLeaks`.
- `NothingLeaks` needs `Counted` and `Handles`: what is open at each place of the program.
  `CopiesAreMirrorImages` needs the way of the bytes from `read` to `write`: `Remembered` (what
  `fstat` and `read` have seen are contents the file has had), `Sized` (the buffer is as long as
  what was read), `Reversing` (before turn `i` of `reverse_string` the first and last `i`
  bytes have changed places and those between have not) and `Copied`. `OneTurn` is the step
  of that loop and `AllTurned` its end, middle byte included.

and about `FileOps`, for every set of names, paths and permissions and every number of nodes:

- `HardLinksStayTogether`, the run's `LinksTogether`, and `TextsAreKept`, its `TextKept`. The
  only invariant they rest on is that every place has an entry; each command gives one vacant place a node, empties one
  place, or leaves the directories alone (`OneEntry`, `NoEntry`). The two modules share
  names, so the second is an instance `F` here, two of its parameters renamed.

`ProcessProofs`, about `LifeCycle` for every subset of the programs, every depth of the
recursion in `third.c` and every number of kills:

- `TypeCorrect`, `NoLineTwice`, `SleepsSuffice`, `ReportsAreTrue`, `PagesTellTheTruth`: every
  invariant of the run.
- The scripts are looked up first: `Known` collects what the proofs use of each call (where
  the sleeps, the fork, the assignment and the waitpid are, which texts show what, that no
  text occurs twice) and is proved script by script, for the recursion of `third.c` with a
  sequence of unknown length. After that no proof looks at a script again.
- The invariant has layers, each inductive given those before. `Core`: where both processes
  are and whose child is whose. `FirstRuns`, `ParZRuns`, `ObserveRuns`: what each
  program's variables are at each call; this is where the sleeps matter, through `Tick`, which
  happens only when nobody can run. `AllGood`: every line was true when printed and stays
  so, since how a process has ended is written once (`EndedOnce`). `Told`: every line
  belongs to a call already made (`Said`), no two of a process in output and buffer are the
  same (`Tidy`), and where the parent forks its buffer is empty (`Empties`), so that
  nothing is copied.

and about `Tracer`, an instance `T` for the same reason, for every number of calls and signals:

- `TracerTypeCorrect`, `TraceIsComplete`, the run's `TraceComplete`.
- `TraceComplete` says nothing of a stopped child, which is where the tracer prints.
  `TraceInv` adds `InTurn` (a running child was resumed with `PTRACE_SYSCALL` and the tracer
  waits for it), `Numbered` (what `orig_rax` holds at each kind of stop) and `InTrace`
  (all of the trace but the stop about to be reported is there).

Out of the prover's reach and left to TLC: every liveness property (`CallsReturn`,
`Progress`, `SlotFreed`, `Answered`, `HangUp`, `PortFreed`, `ExitEndsTrace`, `AllReaped`).
Of `CallsReturn` the half that is not about fairness is proved (`CallsEnd`, for both heaps).
Nothing is proved of where a path leads (`Walk`), on which `TypeOK` of `FileOps` rests:
it is a recursive function of the links followed so far, what it yields takes an
induction over them, and the installed provers cannot use the library's induction
theorems. That `TypeOK` is the one type invariant only TLC has checked.
`AfterModification` is false, which is the finding. Every other property of every run is
stated by a theorem.

## 6. Not modelled, and why

- Within modelled components: printing (`print_heap`, `print_stats`, the commands that
  list and show, the table of system call names, whose 258 entries are formatting);
  start-up errors that end a program before it does anything (those of `third.c` are
  modelled); a `send` that blocks on a
  full socket buffer, which the clients' waiting for each echo rules out;
  `destroy_heap` with buffers still held, which has no stated meaning; in `DirCopy`
  paths longer than the buffers; in `FileOps` permissions of directories; in `LifeCycle`
  what the scan of the stack file finds, which depends on the compiler's stack layout.
- Plain from the code and not worth a property: the tracer prints signal stops as if
  they were calls; a reader reports an error when two passes are not consecutive, which
  the exercise asks to explain; the copy says "successfully" whatever failed; a UDP
  client whose input has ended sends its buffer again and again (`TypeEnd`).
- The pagemap readers: sequential functions of two kernel files whose state is a
  position and three counters; any property of them restates the line that counts.
  How an entry's bits are decoded is modelled nowhere: `LifeCycle` has what `observe.c`
  tells of an entry.
- The demonstrations of `lab1`, `lab2`, `lab4/first` and `lab4/secondd`: no state that
  outlives a statement.

## 7. Plan

Done, in this order: `Allocator` and `Heap` with refinement and proofs; `SuperHeap`;
`SharedPage` with proofs; `PollServer`; `ForkServer`; `Tracer`; `UdpEcho`; `DirCopy`;
`LifeCycle`; `FileOps`; the proofs about `Tracer`, `FileOps`, `ForkServer`, `UdpEcho`,
`PollServer` and `SuperHeap`, the last with its refinement of `Allocator`; `Accounted` in
bytes and its proof, the ends of the heaps' calls, `DirCopy` turn by turn with its proofs,
and the proofs about `LifeCycle`.

Left of the model: an abstract echo service that `PollServer` and `ForkServer` both
implement. Left of the proofs: what TLAPS cannot state yet (section 5).
