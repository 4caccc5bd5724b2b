# Verification of parts of Open Watcom

Open Watcom is a set of compilers, a linker, a debugger, run-time libraries and
tools. Most of it is sequential: a translator reads a file and writes another.
The parts modelled here are those where several programs or threads meet, or where
memory moves under a program's feet, and where the order of steps decides whether
the result is right:

* the **remote debugger link** over a serial line: two programs and a wire that
  loses and damages what it carries, once connected and while the two negotiate
  their speed;
* the **semaphores of the C runtime** and the critical sections behind them,
  made on demand by threads that race for them;
* the **streams of the C runtime** in a program with threads;
* the **near heap of the C runtime**, whose calls are sequential under one semaphore
  but for `realloc`, and whose lists, rovers and cached sizes must agree after any
  history of calls;
* the **data of each thread** in the C runtime, on a list that threads join, resize and
  leave, and that the end of the program frees;
* the **virtual memory of the linker**, whose pages go to a spill file in the midst of
  the calls that use them.

All paths below are relative to `src/`.

## 1. The system

### Components, what they keep, how they interact

| component | state | operations | meets |
|---|---|---|---|
| serial transport `bld/trap/ser/c/serlink.c` | `SendBlkNo`, `ReceiveBlkNo`, `LastResponse`, `Errors`, the input buffer of the port | `RemotePut` (`BlockSend`), `RemoteGet` (`WaitReceive`, `BlockReceive`), `ReSync`, `RemoteConnect`, speed negotiation | the same code in the other program, over the line |
| request dispatch `bld/trap/common/remote.c`, `servacc.c`, `packet.c` | the packet buffers | `DoRequest`, `Session`, `AccTrap` | calls the transport; the client is called by the debugger (`bld/wv`), the server calls a trap file |
| other transports `bld/trap/{par,tcp,nmp,net,nov,vdm}` | as the serial one | the same `Remote*` functions | one of them is linked in place of the serial one |
| C runtime semaphores `bld/clib/mthread/c/mthread.c` | `semaphore_object` (owner, count, initialized, section), `critsect_cache` and its counters | `__AccessSemaphore`, `__ReleaseSemaphore`, `__NTGetCriticalSection` | every library function that keeps shared data; itself calls `malloc` |
| C runtime streams `bld/clib/streamio`, `startup/c/ioexit.c` | `_RWD_ostream`, `_RWD_cstream`, `_RWD_iob`, the `FILE` structures | `fopen`, `fclose`, `freopen`, `fputc`, `flushall`, `fcloseall` | takes the IOB semaphore and one per handle |
| C runtime near heap `bld/clib/heap` | the miniheaps (`__nheapbeg`), their rings of free blocks with rover and counts, `__MiniHeapRover`, `__LargestSizeB4MiniHeapRover`, `__MiniHeapFreeRover`, `_curbrk` | `malloc`, `free`, `realloc`, `_expand`, `_heapmin`, `sbrk` | takes the heap semaphore; asks the system for memory |
| C runtime thread data `bld/clib/mthread/c/trdlist.c`, `thredwnt.c` | the list of thread data, `__ThreadDataSize`, a slot of each thread (`TlsGetValue`) | `__AddThreadData`, `__RemoveThreadData`, `__ReallocThreadData`, `__RegisterThreadDataSize`, `__FreeThreadDataList`, thread start and end, exit | uses the heap and a semaphore; the entry points of the DLL are called under a lock of Windows |
| debugger `bld/wv`, `bld/dip`, `bld/mad`, `bld/dig` | symbols, breakpoints, the program that is debugged | commands | the client end of the link |
| make `bld/wmake`, parallel make `bld/pmake` | the target graph with times and flags | `Update` and its walk | starts commands |
| linker memory `bld/wl/c/{virtmem,spillio,reloc,mem}.c` | page tables `SegTab` and `HugeTab`, `NextSwap`, the relocation lists, the spill file | `AllocStg`, `ReadInfo`, `PutInfo`, `PutNulls`, `CompareInfo`, `WriteInfo`, `WriteReloc`, `LAlloc`, `FreeUpMemory` | every part of the linker; `malloc` |
| linker, the rest of `bld/wl` | symbols, classes, segments | passes over the objects | reads objects through `bld/orl` |
| editor `bld/vi` | file buffers swapped to memory or disk, undo stacks | edits, undo, swap | - |
| compilers `bld/cc`, `bld/plusplus`, `bld/f77`, `bld/cg`, assemblers | symbol tables, trees, code | translation | - |
| libraries and tools: the rest of `bld/` | - | - | - |
| `contrib`, `docs`, `distrib`, `bat` | third-party code, texts, scripts | - | - |

`PROJECT.json` lists every one of them, also those without a model and why.

### What is hard in them

* *Serial transport.* A character is lost or changed; an answer is lost, so that a
  block is sent again; a wait times out while the answer is on its way; a call is
  given up though its block arrived; both sides count blocks in integers that are
  wider than the number on the wire. Right means: no block is delivered twice or
  out of order; a send that succeeds has delivered; requests and answers match.
  While the two look for the fastest speed they cannot talk to each other, and only the
  clock tells them to go on to the next one. Right means: both test the same speed at the same
  time, they end at one speed, the fastest that works, and the negotiation ends.
* *Semaphores.* The owner of a semaphore is read without a lock; its critical
  section is made at the first access, tested before and again inside another
  semaphore; making it may need memory, hence a third semaphore. Right means:
  mutual exclusion, one section for each semaphore, no thread that waits for ever.
* *Streams.* The lists have a lock and every handle has one; `fopen` and `fclose`
  change a stream partly outside both; calls take the two in different orders.
  Right means: a stream belongs to one caller, nothing written is lost, calls return.
* *Heap.* Blocks split and merge under rovers that must stay in the ring; sizes are
  cached on three levels to skip blocks and miniheaps, and a stale one makes `malloc`
  fail or grow; miniheaps come and go under two rovers; growth may fail at every call;
  `realloc` is several calls with others between them; the program moves the break too.
  Right means: blocks are disjoint, nothing is lost, `NULL` means full, calls end.
* *Thread data.* A library that is loaded makes the data of every thread larger while
  threads start, end and use theirs; ids of threads are used again; exit frees it all.
  Right means: nobody touches what is freed, and each thread has its own data, large enough.
* *Linker memory.* A call for memory swaps out pages, also those that another call, further
  up the stack, is about to use; the file that is needed when memory has run out needs memory
  to be opened. Right means: callers see an array that keeps what was put in it.
* *Make, editor.* Long sequences of legal operations over linked data.

`hazards` in `PROJECT.json` lists them with lines and the properties aimed at them.

## 2. Modules

| module | models | extends |
|---|---|---|
| `SerialLink` | both ends of the serial transport, the line, and the calls of client and server | |
| `ErrorFreeLink` | *abstract*: what the programs above a link rely on | |
| `SerialConnect` | `RemoteConnect`, `ReSync` and the negotiation of the speed, with clocks | |
| `MCSerialConnect` | constants for TLC | `SerialConnect` |
| `SerialConnectProofs` | theorems about `SerialConnect` | `SerialConnect`, TLAPS |
| `MCSerialLink` | the refinement `SerialLink` => `ErrorFreeLink`, for TLC | `SerialLink` |
| `SerialOneFault` | the inductive invariant of `SerialLink` when at most one fault strikes | `MCSerialLink` |
| `SerialLinkProofs` | theorems about `SerialLink`, and its refinement of `ErrorFreeLink` under one fault | `SerialOneFault`, TLAPS |
| `ReentrantLocks` | *abstract*: locks that their owner may take again | |
| `Sema4` | `__AccessSemaphore`, `__ReleaseSemaphore`, the pool of sections | instance of `ReentrantLocks` |
| `MCSema4` | constants for TLC | `Sema4` |
| `Sema4Proofs` | theorems about `Sema4` | `Sema4`, TLAPS |
| `Streams` | the stream functions, on the locks of `ReentrantLocks` | instance of `ReentrantLocks` |
| `MCStreams` | the programs with threads that TLC runs | `Streams` |
| `StreamsProofs` | theorems about `Streams` | `Streams`, TLAPS |
| `Allocator` | *abstract*: a program's blocks and its other memory are disjoint | |
| `MiniHeap` | the operations on the blocks of a miniheap and on the list of miniheaps, as operators | |
| `NearHeap` | the calls of the near heap, growing and shrinking | `MiniHeap`, instance of `Allocator` |
| `MCNearHeap` | the heap for TLC, and every miniheap of some length of which one block is freed | `NearHeap` |
| `NearHeapInv` | the inductive invariant of `NearHeap`, and the relations its proof goes by | `NearHeap` |
| `NearHeapProofs` | theorems about `NearHeap`, and its refinement of `Allocator` | `NearHeapInv`, TLAPS |
| `ThreadData` | the data of threads, on the locks of `ReentrantLocks` | instance of `ReentrantLocks` |
| `MCThreadData` | the instances for TLC | `ThreadData` |
| `ThreadDataProofs` | theorems about `ThreadData` | `ThreadData`, TLAPS |
| `PlainMemory` | *abstract*: an array of cells that keeps what was put in it | |
| `LinkMemory` | the linker's pages, spill file, relocations and allocator | instance of `PlainMemory` |
| `MCLinkMemory` | the accesses that TLC's instance makes | `LinkMemory` |
| `LinkMemorySteps` | the inductive invariant of `LinkMemory`, the lemmas about places, cells, addresses and the stack, and that every action keeps the invariant | `LinkMemory`, TLAPS |
| `LinkMemoryProofs` | theorems about `LinkMemory`, and its refinement of `PlainMemory` | `LinkMemorySteps` |

`ReentrantLocks` is the seam: `Sema4` is shown to implement it, and `Streams` uses it,
so that the streams, and the thread data, are checked above any semaphores that keep that
promise.

### SerialLink

A peer is the client or the server. `pc` says where its program is: in the code
above the transport (`app`), in the wait of `BlockSend` (`send`), in the loop that
discards input until the line is quiet (`drain`), in `WaitReceive` (`hunt`), in `ReSync` on
behalf of a put or a get, or stopped. The other variables are those of the C file;
`buf` is the input a peer has not read, and `put`, `sent`, `got` are histories for the
properties. One action is the reaction of one loop to one character or block it
reads, together with everything sent in reaction: `AckArrives`, `NakArrives`,
`RlrArrives`, `MessArrives` for `BlockSend`; `Accept`, `Discard`, `TornBlock`, `OversizeBlock`,
`HuntOther` for `WaitReceive` with `BlockReceive`; `Quiet` and `GiveUp` are its time-outs;
`StartSend` begins a `RemotePut`, called by `Request` (`DoRequest`) or `Reply` (`AccTrap`).
`Noise` strikes an item on its way.

Abstractions, all of them assumptions of what is shown:

* Every time-out of the code is a quarter of a second or more, and a character takes
  far less; so what is sent is in the other's buffer at once, and a wait times out
  only when the buffer is empty (`Silence`). With `Prompt = FALSE` this is given up: a
  wait may time out while an answer is still unread.
* Noise never turns one control character into another, and the CRC catches every
  damaged block. Damage makes an item vanish, meaningless (`junk`), incomplete (`torn`)
  or of impossible length (`toolong`).
* The state after `RemoteConnect` is the initial state; the speed negotiation inside
  `ReSync` always ends and leaves both inputs empty. `SerialConnect` models both, and shows
  how far this is so: as long as no `ACK` of `SetSyncTime` is lost.
* A request is its number. `Errors` is kept up to `MAX_ERRORS + 1`, as the code only asks
  whether it is above `MAX_ERRORS`.
* The receive buffer holds any number of items, but an `RLR` that finds `RcvCap` of
  them unread is lost (this also bounds the model).

### SerialConnect

A peer's `pc` names the `WaitByte` or the `Wait` in which it is, and one action is what
it does from there to its next wait. `left` counts the ticks of that wait, `count` is
`WaitCount` since `MarchToTheSameDrummer`, `sync` the next sync point, `limit` the variable `wait_time`.
`was` chooses the call: the speed at which both entered `ReSync`, or -1 for `RemoteConnect`. `Hello` and
`March` are `SetSyncTime` and `MarchToTheSameDrummer`; `Exchange` stands for the two blocks
that carry `MaxBaud`; `AtSyncPoint`, `SayHi`, `HearHi`, `Turn` are `SetBaud`; `SenderHandshake`,
`StringSent`, `WaitTak`, `LastTak` and `ReceiverHandshake`, `CheckSyncString`, `TestAck` its two halves; `NextSlower` is
the loop of `Speed`. `Tick(p)` moves the clock of p.

Abstractions:

* The clocks differ by a tick at most, in any order. A character takes less than a tick, and
  a program that has something to do does it before the next tick; so clocks tick only
  when both programs rest (`Resting`).
* A port set to another speed than the sender's, a speed the line does not carry, or noise
  turns a character into `junk`; noise may swallow it too. The sync string is one
  item, whose sending keeps the waits for its characters from running out; the error that the port may
  have noted before it (`CheckPendingError`) is left out, `junk` standing for it. A character is sent
  at the speed the port has then: the `HI` of `SetSyncTime` at the one set just before it.
* Both programs enter within `MaxLate` ticks of each other. `Baud` never refuses a speed.
  `ClearCom` empties the input, as it does but on NT. The two blocks of `Exchange` arrive
  together or not at all: `SerialLink` has them in detail.
* The model follows a peer to its return: what arrives at one that has returned is not
  kept, and of a server that fails in `Speed` the next `RemoteConnect` is not followed. One
  that fails earlier tries again, as the server's main loop does.

### Sema4

`pc[t]` is the statement of `__AccessSemaphore` or `__ReleaseSemaphore` that thread t
executes next; one step is one statement that reads or writes shared data. The
fields of `semaphore_object` are functions on semaphores, named as in C. `inside[t]`
are the critical sections t is in: `Enter` waits until no other thread is in the
section (`EnterCriticalSection`), `Leave` leaves it. While t creates a section it calls
`__AccessSemaphore` again, for `InitSemaphore` (number 0), and, when the cache is used
up, for the heap's (`NHeap`): `outer[t]` keeps the semaphore of the outer call, `obj[t]` is
that of the inner one. The library above (`Access`, `Release`) nests its accesses in
any way that respects one order with the heap last, and releases what it has.

Abstractions: memory is sequentially consistent (the code reads `owner` and
`initialized` without a lock, which weaker processors it was built for, Alpha and
PowerPC, may reorder); the two allocations of `__NTGetCriticalSection` are taken for
one; allocation does not fail; the order of the library's accesses is the
guard of `Access`. The streams model shows where the library breaks that order, and
what comes of it.

### Streams

`ostream` and `cstream` are the lists of open and recently closed streams, a link being
identified with its stream; `flag` holds the flags that are tested (`RW` for `_READ | _WRITE`,
`DIRTY`, `DYNAMIC`); `handle` and `opened` are the handles of the system. `held` is the
variable of `ReentrantLocks`, for the semaphores `IOB` and one for each handle. What a
function does between taking a semaphore and giving it back is one step when it
takes no other one on the way; statements outside are one step each. Handles have a semaphore each,
where `mthread.c:328` takes the handle modulo the size of its table: there are no more handles in the
model than entries in the table. `fp`, `hdl` and
`next` are the variables of the call. `program` is chosen at the start: it says which
streams each thread has and which functions it calls.

Abstractions: files are opened for writing, without append mode; buffers
never fill up and are never refused memory; the standard streams, terminals,
temporary files and pipes are left out; `fcloseall`, which walks the list without a
lock, is called when no other thread uses a stream; a thread closes, reopens and
writes only streams it got from `fopen` (`mine`) or, for `freopen`, one that
was closed a short time before.

### MiniHeap and NearHeap

`near` is the data of the heap in one record: `len` is the tag in front of each block by
its address, `used` the blocks whose tag has its low bit set, `list` the miniheaps in the
order of their links, `mh` their descriptors. The ring of free blocks is a sequence that
begins with `freehead`. `Take`, `Place`, `JoinNext`, `LinkFree`, `MemAllocator`, `MemFree` and `nfree` are the
parts of `mem.c` and `nfree.c` of those names, as functions from one heap to the next, since
each runs under the semaphore without waiting. `nheapshrink`, `AdjustAmount`, `CreateNewNHeap`, `Slice`
and `ExpandDGROUP` give the results that giving back and getting memory can have.

`call` is the call that has the semaphore: `Malloc` starts it, `VisitMiniHeap` is one turn of the
search over miniheaps, `GrowForMalloc` and `MallocFails` follow it; `Expand`, `TakeNext` (one turn of the loop
over the blocks behind), `GrowForExpand`, `ExpandFails` and `ExpandDone` are `_nexpand`. `moving` is the `realloc`
in progress, whose four calls (`Realloc`, `ReallocMoves`, `ReallocFrees` or `ReallocRestores`) take the semaphore one by
one, so that every other call can come between. `platform` chooses the code for
miniheaps from the system (NT) or for a heap at the break (Linux, QNX). There the program moves the
break itself: `sbrk` reads it without the semaphore (`SbrkReads`, at any time, in the middle of a call
too), and `__brk` sets it under the semaphore (`SbrkSets`, `SbrkFails`), with any calls in between. `asked` is
what it has read.

Abstractions: memory is counted in tags (4 bytes), a descriptor being 11 of them and
the smallest block 4; contents are not modelled, so neither is the copying of
`realloc`. `Page` and `_amblksiz` are small numbers and the rounding of the growth to them is kept.
Sizes never come near the word's limit, so the tests for overflow are left out. The
system may refuse any growth and takes back what is given back. `__nmemneed` is that of the
library, which has nothing. `_nfree` looks for the miniheap at four rovers and their neighbours
before it goes through the list: as miniheaps are disjoint, only what it reads at a rover
that is no miniheap makes a difference, and `wild` records that. One `realloc` and one `sbrk` are in
progress at a time. With `SbrkRace = FALSE` the break is not above what `sbrk` has read when it is set: no
other thread has made the heap grow in between. What happens otherwise is in section 5. The program frees and resizes only what it has.

### ThreadData

`list` is the order of the entries, `entry` and `data` the structures that are allocated
(what is freed is taken out of them, and `wild` records that freed memory was touched),
`tls[t]` the slot of thread t. `Is_DLL` chooses between the runtime linked with a program, where
`_beginthread` puts the data on the new thread's stack (`Begin`) and `_endthread` removes it
(`EndThread`), and the runtime DLL, where Windows calls `_LibMain` in each thread that starts or
ends (`Attach`, `Detach`), under a lock of its own, which is the second object of
`ReentrantLocks`. `MultipleThread` is any use of the data: it goes on to `Alloc`, `Add`, `Link` when the thread
has none, and to `Realloc`, `Resize` when its data is marked. `LoadLibrary`, `Register`, `Grow`, `Mark` are
a library that is loaded and asks for room. `RemoveThread`, `Find`, `Unlink` and `Removed` are the end
of a thread, `Exit`, `FreeEntry` and `ExitProcess` that of a program. `foreign` are threads that the runtime was
not told of: made by `CreateThread`, there before the DLL was loaded (`Earlier`), or refused
memory when they were attached.

Abstractions: in a program the sizes are registered by initializers that run before the
first thread has data (`INIT_PRIORITY_THREAD`), so only the DLL registers later; data on a stack
then never needs to be resized, and the model keeps the code for it. Contents of the data are
not modelled. Freed structures are not given out again while anything points to them. The
DLL's process detach, in which Windows has killed the other threads wherever they were, is
not modelled. Ids are used again at once.

### LinkMemory

`stack` holds the C functions that are active, the innermost first, because memory is
given out recursively: an access (`Access`) goes over the pages of its storage (`ScanPiece`), a page at its
first use needs memory (`ScanFirstUse`, `AllocNode`, `AllocHugeNode`), `LAlloc` (`Malloc`) frees caches (`FreeCaches`) and then
swaps out a page (`SwapOutVirt`, `SwapOutNode`) or a relocation block (`SwapOutRelocs`, `SpillReloc`) for as long as it
fails, and the first of these opens the spill file (`OpenFirst`), which calls `LAlloc` again for the
file's name. Every step is one function up to its next call. `ram` is what is
allocated, `room` what the C heap still has, `spill` the file, `status` says whether the linker has
given up. `WriteReloc` adds a relocation, `ChkAlloc` and `LnkFree` stand for the rest of the linker.
Cells hold the address they were written at, so that a value in a wrong place shows. `Format` is the
output format: it decides which list `WriteReloc` writes to (`RelocList`) and which lists
`SwapOutRelocs` goes over (`SwappedLists`); for ELF these are not the same.

Abstractions: sizes are counted in cells and are small; the page tables do not grow (their
limits are far off and their growth is a copy); `CopyInfo`, which is a read and a write, is
left out; the relocation lists of groups, pages and sections are one list, and QNX's others are left out; the
format is decided before the first relocation is written, so `FMT_DECIDED` is not a variable; the heap has no fragmentation. `WriteInfo` reads like
`ReadInfo`. `_LnkFree` of the whole at the end of the link is not an action: `FreedAtEnd` is what
it would free, and `PlacesExact` says that this is all there is.

## 3. Runs

| run | question | result |
|---|---|---|
| `serial_one_fault` | does the link implement the error-free link of `bld/wv/doc/link.doc` when one thing goes wrong? | yes: safety and liveness |
| `serial_any_fault` | two faults, two abandoned sends, waits that time out early, input that is not cleared, a request without answer: is a block ever delivered twice or out of order? | never |
| `serial_connect` | do the peers find the fastest common speed, in step, and does `RemoteConnect` come to an end, with up to two characters lost or damaged? | yes |
| `serial_resync_hang` | "ReSync ... Returns: SUCCESS or FAIL" | violated: the server may never return |
| `sema4_threads` | do the semaphores implement reentrant locks, with sections made on the way, and does every call return? | yes |
| `streams_managed` | programs in which one thread at a time opens streams: do streams, data and locks stay right? | yes |
| `streams_slot_race` | two threads call `fopen` | violated: both get the same `FILE` |
| `streams_lock_order` | `flushall` meets `freopen` | violated: they wait for each other for ever |
| `heap` | does the heap keep its lists, its cached sizes and the promise of `Allocator`, does it grow by enough, and do calls end, under any history of calls? | yes, unless the heap grows in the midst of `sbrk` |
| `thread_data` | threads start, register, resize and end, in a program and a DLL, and one exits alone: is freed memory ever touched, has each thread its own data, and does it fit? | never; yes |
| `thread_exit` | "shutdown only has one thread executing" | violated: two threads in `exit` free the same list |
| `link_memory` | is the linker's memory `PlainMemory` while pages and relocations are swapped out, and does the linker give up only when nothing is left to swap? | yes, from the opening of the file on |

**Bounds.** `WireMod = CtrMod = 2` lets the block number wrap within two requests, which a
link that numbers its blocks must survive, and is the hardest modulus for telling blocks
apart. (The counter of a 32-bit build is wider than the number: see 5.)
`MAX_ERRORS = 2` is the code's (`serial.h:62`): `ReSync` is within reach of one fault and a few resends.
Four requests with one fault, three with two: the exchange before the fault, the one
it strikes, and two after it, in which a lost number would show. For the
semaphores two threads make three accesses each of three semaphores, one of which
has its section from the start; the cache has room for one more section, so one is
made from the cache and one from the heap, and a third thread is covered by the
theorems. For the streams two threads with three calls each, one static and two
dynamic `FILE` structures and two handles: the lists are full, empty and in between.
For the heap the memory has room for two or three miniheaps, or for one at the break that
grows once or twice, with a hole made by `sbrk` or without; the sizes 3 and 10 tags make the smallest block
and one three times as long, so that blocks are split, merged, extended over a free
neighbour in part or in full, and refused; two blocks are held at a time, a third during
`realloc`. That is too few for the search over allocated blocks in `__MemFree`, which starts
only when free blocks outnumber the average run of allocated ones: `PlacesAssumption` of
`MCNearHeap`, which TLC evaluates before the run, takes every layout of 12 blocks with up to 4 free ones
instead, where the limit of that search is both reached and not. `sbrk` may read the break at any
time, but `BreakAsRead` does not go on from states in which the break has moved before it is set; without
it the run has 6,368,150 states, too many to repeat each time, and the properties hold in all of them. In
`heap` the program does not call `_heapmin` when that would leave `__MiniHeapFreeRover` at memory given
back (`ShrinkAnytime = FALSE`; see 5).
`serial_connect` has the constants of `serial.h`, a table of five speeds and the entry "leave as it
is" instead of eight; the line carries the slower four; the ports are limited to the
fastest, to one in the middle or not to be set at all (a modem), in all pairs. That gives
negotiations that succeed at once, after failures, and not at all. `serial_resync_hang` has a shorter
table and one lost character, which is what it takes.
`thread_data` has the main thread, one that the runtime starts and, in the DLL, one that was
there before; ids are used again without limit. `MaxSize = 3` lets two libraries register, the
second while data is being resized for the first; `MaxEntries = 2` lets one entry be left behind
by a thread that ended untold, for a thread of the same id to find. `ExitAlone` keeps `exit` to the case its
comment speaks of; `thread_exit` drops it. Memory is refused at any time.
`link_memory` has pages of two cells, huge pages of two subpages of two, sectors and relocation
blocks of two; storage of 1 (tiny), 3 (two pages) and 4 cells (huge), asked for twice, up to two pages, one
huge page and two relocation blocks, in a heap of four cells of which the file's name takes
one, in a format whose relocations are swapped: everything is swapped out in some history, in every order, and the heap runs full with any mix
of them. `MaxDepth = 9` stands for the machine's stack: the recursion of `OpenTempFile` would exceed any.
A call that does not fit is made and ends the behaviour (`status` is `overflow`).

**Fairness.** A thread or program that can take a step takes one in the end: both
peers are loops that read or time out, and the threads are scheduled by the system.
The library releases what it has accessed. Nothing makes a client ask, a thread
call or noise strike. `GiveUp` is not fair: with the bound 0 the run asks what happens
when no send is abandoned. Deadlock is not checked, as the programs stop when they
have used up their calls; the liveness properties say that no call hangs. The heap needs
no fairness: a call has the semaphore and runs on, so `CallsEnd` states instead that
every step of a call has less before it than the last, and deadlock is checked.
`SerialConnect` assumes `WF_vars(Next)`: clocks tick and programs run; a program cannot be left
behind, as the clocks stay within a tick of each other. `ThreadData` and `LinkMemory` state safety
only; for the threads deadlock is checked (`Over` is the end of the process).

Each property has a mutant in `PROJECT.json`: a change of one definition that a
mistake in the code would make, under which TLC finds the property violated.

## 4. Proofs

TLAPS proves, for all values of the constants that satisfy the assumptions
(`LinkAssumption`: the counters are at least as wide as the wire number, which has
two values or more; `SemaAssumption`: the heap's semaphore is the last in the order and
the cache has the two sections made at the start; `ThreadDataAssumption`: finitely many
threads, one of which is the first, and sizes that do not shrink; `StreamsAssumption`: finitely many
`FILE` structures, positive handles, and no stream given to two threads; `SizesAssumption`: a node is
smaller than a huge page, which has two subpages or more, the sizes are not 0, and what `FreeCaches`
can give back is part of the heap; `HeapAssumption`: sizes are not 0, and the heap begins inside a memory
that is smaller than the largest size there is; `ConnectAssumption`: the speeds and ticks are of their
types, `LOW_BAUD` is a speed of the table, and a sync point takes time):

* `SerialLinkProofs!TypeCorrect`, `DeliveredInOrderOnce`: any number of faults and
  abandoned sends, any width of the numbers. `InOrderOnce` is not inductive: a block
  still unread might be accepted again. The inductive invariant is `TypeOK /\ FlowInv`. For one
  direction, `Flow` relates what is unread, what was accepted and what is being sent:
  unread blocks are in the order of their calls, none is older than what was accepted,
  and a repetition of the last one accepted carries another number than the receiver expects.
  The lemmas `Flow...` say that each thing that happens to a sequence of items (taking
  a part of it, a fault, appending the block or the next one, accepting) keeps `Flow`;
  the actions then are instances of them. The argument does not need numbers to be
  far apart, only that a number differs from its successor.
* `SerialLinkProofs!AckTrusted`, `NumbersStayTogether`, `OneFaultMasked`: any width of the numbers, any
  number of requests. All say `ASSUME OneFault`: at most one item is struck, no send is abandoned, input is
  read before the other side's wait ends, every request wants an answer, and the number fits in its two
  bytes. None of these can be left out: with two faults, an abandoned send, input read late, a request
  without answer or a number that does not fit, TLC finds `AckedIsAccepted` violated. `OneFaultMasked` is
  the safety of `ErrorFreeLink`: each step of the link is a step of a link without errors, or a stutter.
  None of this is inductive, since an acknowledgement is to be trusted only if it answers the
  block that was sent last. The invariant `FaultInv` (in `SerialOneFault`) says in which of five phases
  the exchange is: `Between` two sends; `Asking`, when a peer sends and the other hunts for the block; `Working`, when
  the block is accepted and the other program is at work; `Crossing`, when that program sends as well, so
  that the acknowledgement and its block are both under way; `Syncing`, when a block has told of many errors. For
  each it lists what may be unread on either side, before the fault and after it: the fault can only have
  taken away or spoilt what the phase names, and every answer that is there is to the block being
  sent. Each action has a lemma that says which phase it leads to.
* `Sema4Proofs!TypeCorrect`, `MutualExclusion`, `NeverWrongOwner`, `SectionsDistinct`,
  `SectionsStay`: any number of threads, semaphores and cached sections. The inductive invariant
  `SemaInv` has four parts: `Pool` (numbers of sections are handed out once),
  `Ownership` (the owner's count is what it has accessed, and the owner is in the section),
  `Control` (what a statement finds about its semaphore: between leaving and clearing,
  between entering and writing the owner) and `Nesting` (who creates a section has
  `InitSemaphore`, and the section is there before it is released). Each action has a lemma
  with one step for each part. `MutualExclusion` is the refinement of `ReentrantLocks`: `Count` maps to
  `Lock`, `Decrement` to `Unlock`, every other step to a stutter.
* `ThreadDataProofs!TypeCorrect`, `OwnDataKept`, `FreedIsLeftAlone`, `DataHasRoom`: any number of
  threads, identifiers and sizes. All four say `ASSUME ExitAlone`: the thread that calls `exit` is the last
  one by the time the list is freed, as the comment of `__FreeThreadDataList` has it ("shutdown
  only has one thread executing"); `thread_exit` shows what happens without it. Threads that
  start and end before, and register while another one does, are all in. `OwnData` is
  not inductive: a thread looks itself up by its identifier, identifiers are used again,
  and an entry left behind by an earlier thread could be found. The invariant `IInv` says who is where
  under the two locks. Of each live thread: what it has found is the first entry of its identifier
  (`Found`), which nobody else unlinks or frees (`Ownership`); a thread that leaves has its entry
  between the lookup and the free, and at the unlinking the data it allocated itself is already gone
  (`Leaving`); whoever adds data has read the size after all earlier registrations (`NewFits`). The proof first
  gives each step's effect on the list and the data (`LinkEffect`, `UnlinkEffect`, `FreeEffect`,
  `DataEffect`, `EntryEffect`), then has one lemma for each part of `IInv`. That the lookup finds a first
  entry uses the least element of a set of naturals, from the library's `NatLessThanWellFounded`.

* `StreamsProofs!TypeCorrect`, `StreamsIntact`, `DataIsKept`, `AllIsFlushed`: any number of threads, structures,
  handles and calls. All four say `ASSUME OneOpener`: in each program one thread opens streams,
  and another may reopen only those it has, none of them in the static array. Without it two calls of
  `fopen` give out one structure (finding at `fopen.c:185`, `streams_slot_race`); `OneOpens` of `MCStreams` is
  evaluated before `streams_managed` and says that its programs are such. `StreamIntact` speaks of streams
  that a thread has between its calls and is not inductive: a structure on a list could
  be taken for an unused one, or its handle closed by a call that is under way. `IInv` therefore says
  whose each stream is: a stream on the open list belongs to exactly one thread, as one it
  has (`mine`), as one that its `fcloseall` has not come to (`Rest`), or as the one its call is about (`Work`); that
  is `Owned`. Open ones have an open handle of their own (`Usable`), none else has characters in its
  buffer (`Clean`), those on a list are marked as taken or about to be by the one
  opener (`Marked`), locks are held exactly where the statements say (`Locking`), walks are on the list, and
  what `flushall` has passed is flushed (`Passing`). Each step is of one of three kinds, each with a
  lemma: `Quiet` (lists and handles stay), `FilesKeep` (a handle is opened or closed), `Moves` (one stream changes
  lists).

* `LinkMemoryProofs!TypeCorrect`, `SwapListIsExact`, `PlacesAreExact`, `RelocsAreKept`, `SpillsFirst`,
  `MemoryKept`: any sizes, any storage handed out and any accesses to it. The properties speak of
  nodes, huge pages and relocation blocks one kind at a time, and of moments when no call is active;
  none is inductive. The proof therefore speaks of *owners*: a node, a subpage, the n-th relocation
  block that was made, and the block that `LAlloc` has just returned and nobody has stored yet. `Places`
  maps each owner that has cells to its place in RAM or in the file, and `Memory` says that owners in RAM
  have blocks of their own and of their sizes, that every block has an owner, and that areas of the file
  are on sectors, inside the file, and apart. `malloc`, `free`, a move to the file and a write each have
  one lemma about `Memory`, whatever the owner is. The rest of `IInv` is what makes an owner's place
  change as these lemmas say: `Calls` (who may have called whom, and what each function
  finds when it goes on: the page that `AllocNode` is about to fill still has no place, the node that
  `SwapOutVirt` has taken is not on the list, no node is being swapped out twice on one stack), `HugePages` (the
  subpages without a place are those `AllocHugeNode` has not come to), `Storage` (what was handed out is
  covered by pages), `SwapList`, `Accounted` (the heap's cells), `RelocValues` and `NewIsFresh` (what `LAlloc` returns
  is zeroed). Each action has a lemma `...Step`: it keeps `IInv`, and, unless it is `ScanPiece`, the cells
  of every page that has some (`CellsKept`). `MemoryKept` is the refinement of `PlainMemory`: the
  start of an access maps to `Begin`, `ScanPiece` to `Put`, `Read` or `Compare`, the return of `ScanNodes` to `Return`,
  every other step, every swap among them, to a stutter. `SpillsFirst` has `ASSUME MaxDepth >= 4`: with
  the file open at most `ScanNodes`, `AllocNode`, `LAlloc` and `SwapOutVirt` are active at once, and a
  stack without room for these would overflow whatever the code does. Before the file is open the
  property does not hold (see 5), and the theorem does not say it. It speaks of every format: for ELF
  relocations may be left in memory too, which is `KeptBlocks`.

* `SerialConnectProofs!TypeCorrect`, `EstablishedByBoth`: any table of speeds and any times for them,
  any difference between the starts, any line and any number of characters lost or damaged. `ServerLast`
  must hold with no help of the clocks, and the argument uses none. A peer that has the `HI` of the other
  side knows that the other was at its own speed; one that tries speeds only goes on to slower ones, so the
  other side is at this speed still, or slower, or has returned (`Heard`). The server's success rests on
  two `TAK`s (`TakSent`). The client sends the first while it waits for the last `ACK`; when the
  server has it, the client waits still or has succeeded, at the server's speed, or tries a slower
  speed, or has failed. The second is sent by a client that has succeeded, and until the server reads
  it the server's port is not set anew. A client that tries a slower speed cannot have sent the second, nor come
  back. `ACK` is used by the first contact as well: `Answered => ~Alone` says that the server is not on to the
  speeds before the client has heard it. Every handler makes one of five kinds of step
  (`Opens`, `Clears`, `Slows`, `GoesOn`, `Succeeds`), which keep the invariant by a lemma each, and `Tick` keeps it.

* `NearHeapProofs!TypeCorrect`, `HeapsStayExact`, `BoundsAreTrue`, `RoversStayLive`, `NullOnlyWhenFull`,
  `BlocksStayOwn`, `ReallocRestored`, `CallsComeToEnd`: any memory, any page, any sizes asked for, any number of blocks and any history of calls, on
  both kinds of platforms. All eight say `ASSUME ~SbrkRace`: no thread makes the heap grow while another
  is between the two steps of `sbrk` (see 5 for what happens then); whatever else a thread does there is in, and
  `AskedOk` says what is left of what `sbrk` has read. None of the properties is inductive, and none stands alone: a bound is
  true only of a ring that is exact, a ring is exact only if the blocks tile the miniheap, and a
  block that is freed is found only if the program's blocks are those that are allocated. `IInv` (in
  `NearHeapInv`) is about the data of the heap first: `Tiling` (from a block one comes to the next tag,
  each tag is the first of its miniheap or the end of a block, an END_TAG is where a miniheap ends,
  and miniheaps are apart), `Ring` (its blocks that are not allocated, in order), `AloneOf` (no two
  free blocks are neighbours), `Counted`, `Bounded`, `RoversOk`; all of these are `Sound`. `Situated` adds
  that miniheaps at the break lie below it and that the program's own memory is in none of them. The
  other parts relate the calls to it. `Owned`: the allocated blocks are those of the program, each as
  long as it asked for, but for the one that `_nexpand` has made shorter before it returns.
  `Searched`: no miniheap before the one where `malloc` is has a block that would do, which is what
  `NullOnlyWhenFull` comes from. `Expands`: what `_nexpand` still needs and where it looks next.
  `MovingOk`, `Names`: the block that `realloc` has in hand between its calls is still there, whatever
  calls came between. The proof goes up as the code does: first what a split, a merge, an addition or a cut does to a
  tiling, and an insertion or a removal to a ring; then `Take`, `JoinNext`, `LinkFree` and `Place`, which
  goes through blocks or the ring by turns and finds the same place (`PlaceIsNext`, which TLC checks in one miniheap
  before the run and the proof shows for all); then `MemAllocator`, `nfree`, the
  growth and the shrinking of the heap from `Sound` to `Sound`, and last one lemma for each action.
  `RoversStayLive` assumes `~ShrinkAnytime` too, as the run: without it the property fails (see 5), and the
  other theorems do not assume it. `BlocksStayOwn` is the refinement of `Allocator`: `MallocReturns`
  with a block maps to `Give`, `ExpandReturns` to `Resize`, `Free` and `ReallocFrees` to `TakeBack`, `SbrkSets` to `Extend`,
  every other step to a stutter; that nothing given has a cell of anything else follows from
  `Owned` and `Tiling`.
  `ReallocRestored` bounds the block of a `realloc` that fails on both sides. Below, by `HeldNow`: the steps of `malloc`
  and `free` make no allocated block shorter (`NoneShorter`), an `_nexpand` cuts no block but its own, and
  the block in hand is that one only when `_nexpand` is about to return. Above, by `Expands`: `_nexpand` leaves at most what
  is too little to be a block (`len < BlockSize(amt) + FRL_SIZE`). `CallsComeToEnd` is the variant of the
  loops: a turn of `malloc` moves to a later miniheap of a list that stays, a turn of
  `_nexpand` to a later block, and only growth, of which there is one in each call, begins anew.

Only model-checked: of `SerialConnect`, `OnTime`, `InStep` and
`HighestSpeed`, which are true of the code's times and not of every time the assumptions allow; of the
heap, `GrowthSuffices`; all liveness (`Contract`'s,
`CallsReturn`, `ConnectEnds`), which together with ENABLED is beyond the prover.

## 5. Findings

* *ReSync hangs* (`serlink.c:617`): when the last `ACK` of `MarchToTheSameDrummer` is lost, one side
  leaves `ReSync` and the other waits for it there for ever (`serial_resync_hang`).
* *Exit frees under threads* (`trdlist.c:355`): `__FreeThreadDataList` takes the process to have one
  thread, and `exit` on NT calls it while others run (`thread_exit`).
* *Slot race* (`fopen.c:185`): the flags that mark a `FILE` as taken are cleared for an
  instant outside the lock (`streams_slot_race`).
* *Lock order* (`fopen.c:343`): `freopen` and `flushall` take the two semaphores in opposite
  orders; a read from a terminal (`fgetc.c:63`) does as `freopen` (`streams_lock_order`).

Observations without a run of their own; each shows with the constants that are named:

* *Block numbers* (`serlink.c:556`): past 65535 blocks a 32-bit build acknowledges and
  drops every block. `AckedIsAccepted` fails with `CtrMod` a multiple of `WireMod`.
* *Stale answer* (`serlink.c:469`): `BlockSend` answers `RLR` with an answer of the other
  direction, and with two faults the peer takes that old `ACK` for its own block's:
  `AckedIsAccepted` fails with `MaxNoise = 2`.
* *Empty get* (`serlink.c:957`): `RemoteGet` returns 0 for a block it accepted when the
  sender had more than `MAX_ERRORS` errors in its last send.
* *Free rover* (`nheapmin.c:231`): a heap at the break that is given back stays the
  miniheap where `_nfree` looks first: `RoversLive` fails with `ShrinkAnytime = TRUE`.
* *Break read too early* (`sbrklnx.c:44`): `sbrk` reads the break before `__brk` takes the semaphore (on
  QNX, `sbrk.c:75`). When another thread's `malloc` makes the heap grow in between, the break is set back
  into the heap: `BlocksOwn` fails with `SbrkRace = TRUE`. `sbrk` has read 53, the heap grows to 73, `sbrk` sets
  the break to 55 and returns 73 as its memory, and the next growth makes a miniheap over the first.
* *ELF relocations are not swapped* (`reloc.c:510`): `WriteReloc` puts them on the group's list, and
  `SwapOutRelocs` goes over that list for 16-bit OS/2 and QNX only. The linker gives up with them in
  memory and the spill file open, where `wlerrmsg.gml:122` says that the file is used when memory is:
  with `Format = "MK_ELF"`, `SpilledBeforeFatal` fails with `HugeBlocks` for `KeptBlocks`.
* *File opened too late* (`spillio.c:78`): the spill file is opened when memory has run out, and its
  name needs memory. When nothing but pages can give it, each attempt to swap one out tries to open
  the file again: the linker gives up with all its pages in memory, or recurses until its stack is
  full. `SpilledBeforeFatal` without `TempFile =>` fails.
* *Late size* (`mthread.c:481`): a thread that was there before the DLL, and makes its first call while
  another thread registers, keeps data of the old size: `DataFits` over all `Threads` fails.

## 6. Plan

1. Done: the serial link and its connection, the semaphores, the streams, the near heap, the
   thread data, the linker's memory.
2. Done: theorems about the serial link and its connection, the semaphores, the streams, the heap, the
   thread data and the linker's memory.
3. Done: the serial link under one fault, whose invariant tells apart where the fault struck.
4. Left: `GrowthSuffices` as a theorem, from what `AdjustAmount` leaves after the descriptor and the tag.

### Not modelled

* *Composition of `SerialConnect` and `SerialLink`*: the state after a `ReSync` that only one side has left
  is that of `serial_resync_hang`, from which `SerialLink` could not go on. Time in the one and
  its absence in the other keep them apart.
* *Exit with threads*: what else `__FiniSema4s` takes down (`mthread.c:881`) while threads run; the
  comments there take threading to be over, as that of the list does, and the finding stands for them.
* *Make* (`bld/wmake`), *editor* (`bld/vi`): sequential walks over data that the program itself
  built; the hazards are in the data, and a model with a target graph or a file of a few nodes would
  be as long as the code.
* *Other transports* (`bld/trap`): the named-pipe, TCP and NetBIOS transports hand blocks to a
  protocol of the system; the parallel one is a handshake on the wires of each platform.
* *Translators, assemblers, numeric code, user interfaces and thin layers over operating
  systems*: sequential, and their correctness is about data rather than order.
* *Third-party code.*
