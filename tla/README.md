# A TLA+ model of the CSCE 611 machine problems

The repository holds six small kernels for 32-bit x86, one directory per machine
problem: `mp2` (contiguous frame pools), `mp3` (demand paging), `mp4` (recursive
page table and virtual-memory pools), `mp5` (kernel threads, a FIFO and a
round-robin scheduler), `mp6` (blocking and mirrored disks) and `mp7` (a file
system). Each directory is a complete kernel; they share no compiled code, and
copies of the same file (console, interrupts, machine) differ little. The
kernels have no test programs: `main()` in each `kernel.C` is the test, and
`bochsout.txt` records one run of it. This directory models their core logic
from the source, checks it with TLC on small instances and proves the main
safety properties with TLAPS.

## 1. The system

| Component | State | Operations | Interacts with | What is hard | Correct when |
|---|---|---|---|---|---|
| Contiguous frame pool, `mp2/cont_frame_pool.C` | two bits per frame in the info frames, `nFreeFrames`, the static list of pools | constructor, `get_frames`, `mark_inaccessible`, `release_frames`, `needed_info_frames` | writes its bitmap into frames, possibly another pool's | ends of runs and of bitmaps, order of releases, which pool a frame belongs to | extents never overlap, a release frees its extent and nothing else, the search passes over no run that it should take |
| Memory test, `mp2/kernel.C` | the recursion's local frames, memory contents | `test_memory` and the boot sequence of `main` | both frame pools | deep recursion, the hole, a failed request that writes to address 0 | the test never fails and leaves the bitmaps as they were |
| Ready list and FIFO scheduler, `mp5/scheduler.C` | `head`, `tail`, list nodes | `add`, `resume`, `yield`, `terminate` | threads, memory pool, interrupt flag | empty list, stale `tail`, termination | no thread lost or doubled, turns in order, nobody starves |
| Threads, `mp5/thread.C`, `threads_low.asm` | `current_thread`, saved contexts with EFLAGS | `dispatch_to`, start, shutdown, context switch | scheduler, interrupts | the flag that each context restores; what a terminated thread does when it is dispatched again | every thread continues where it left |
| Round-robin scheduler, EOQ timer, `mp5/scheduler.C`, `simple_timer.C`, `interrupts.C` | the ready list, `rr_yield_flag`, `ticks`, the PIC's in-service bit | the same, plus `handle_rr_quantum` | called inside the timer interrupt | preemption anywhere in `resume`, `add`, `yield`; late end-of-interrupt | as FIFO, and quanta end when they should |
| Page table, `mp3/page_table.C` | page directory, page tables, frames | constructor, `load`, `handle_fault` | frame pools, the MMU | faults on either level, memory exhaustion | every fault leaves one valid mapping to a frame of its own |
| Recursive page table and VM pools, `mp4` | the same in virtual memory, `allocated_list`, `free_list` | `allocate`, `release`, `is_legitimate`, `register_pool`, `free_page`, `handle_fault` | faults taken while lists are read | release and reuse of regions, stale mappings | legitimate addresses are those of allocated regions, frames come back |
| Disks, `mp6/blocking_disk.C`, `mirrored_disk.C`, `simple_disk.C` | one request per disk object, the controller's command and selected drive | `push_request`, `issue_operation`, `is_ready`, `read`, `write`, the wait loops that yield | FIFO scheduler, threads that share the disk, the device | two threads and one request; a mirror whose status port belongs to one drive | every request moves its own data, nobody waits for ever |
| Context switch, `mp5/threads_low.asm`, `thread.C`, `irq_low.asm` | a stack for each thread, `esp` in the thread object, `current_thread` | `threads_low_switch_to`, first stack, interrupt stub | scheduler, timer interrupt | words below the stack pointer, a preemption in the middle of a switch | a thread gets its registers, flags and stack back |
| File system, `mp7/file_system.C`, `file.C` | inode list and free list in memory and on the disk, open `File` objects with one cached block | `Format`, `Mount`, destructor, `CreateFile`, `LookupFile`, `DeleteFile`; `File`, `Read`, `Write`, `Reset`, `~File` | disk | lists in step over any sequence of calls, pointers stored on the disk, full lists | files do not interfere, no block lost or given twice |
| Memory pool, `mem_pool.C` | one pointer | `allocate`, `release` (does nothing) | everything that uses `new` | `+=` is a load and a store that a quantum may separate; memory runs out | every call gets memory of its own |
| Console, `console.C`, the same in all kernels | cursor and text memory | `init`, `cls`, `putch`, `scroll`, `puts` | `main()` and the timer handler print on it | the handler prints in the middle of `putch` or `scroll`; tab, edge and scroll together | text memory is not overrun, the screen shows the end of the output |
| Interrupt dispatch, PIC, `interrupts.C` | the in-service bit, the handler table | `dispatch_interrupt`, end-of-interrupt | timers, context switch | the end-of-interrupt comes after a handler that may switch threads | ticks go on |
| GDT, IDT, exceptions, start-up, keyboard, `utils.C` | hardware tables | set-up, output | - | - | - |

The kernels of `mp2`, `mp3`, `mp4` and `mp7` run one thread, and none of their
interrupt handlers touches the state above except the console's: apart from
output their concurrency lies in the order of calls, not in the interleaving of
instructions. `mp5` and `mp6` run four
threads on one processor; `mp5` in its round-robin build also preempts them, and
in `mp6` the drives go on beside the processor.

## 2. What is modelled

| Module | Models | Kind |
|---|---|---|
| `FrameBitmap` | the two-bit states, `isFree`, `allocate`, `release`, which run a search finds, where a release stops | operators |
| `ContFramePool` | pools, their list, every operation of the class as one action | component |
| `FrameScan` | the loops of `get_frames` one iteration at a time | component |
| `TestMemory` | `main()` and `test_memory` of `mp2` on two pools | composition with `ContFramePool` |
| `ExtentAllocator` | what an allocator of extents promises | abstract specification |
| `ReadyList` | class `Scheduler`: nodes, `head`, `tail`, `add`, the dequeue of `yield` | component |
| `FIFOScheduler` | the FIFO `yield`/`resume`/`terminate`, dispatch, thread functions, `main()` of `mp5` | composition with `ReadyList` |
| `RoundRobin` | threads that take turns | abstract specification |
| `RRScheduler` | the round-robin `resume`/`yield`, the EOQ timer, the end-of-interrupt | component |
| `VMPool` | the virtual-memory pools of `mp4`, the page faults and `free_page`, clients with arrays | component |
| `FileSystem` | both classes of `mp7` on one disk | component |
| `FileStore` | a set of files with contents | abstract specification |
| `DemandPaging` | boot, page table, fault handler and memory test of `mp3`, tables in the memory they map | component |
| `FlatMemory` | memory in which every address is a cell of its own | abstract specification |
| `BlockingDisk` | both disk classes of `mp6` with the scheduler, the thread functions and the controller | composition with `ReadyList` |
| `CommandSlot` | a disk with room for one command | abstract specification |
| `ContextSwitch` | `threads_low_switch_to`, the first stack of a thread and the interrupt stub, instruction by instruction | component |
| `Console` | `putch` and `scroll` statement by statement, and the timer handler's output | component |
| `ReadyListProofs` | lemmas on the ready list, used by the next two | proofs |
| `FramePoolProofs` | theorems about `FrameScan` and `TestMemory` | proofs |
| `DiskProofs` | theorems about `BlockingDisk` and `FileSystem` | proofs |
| `InterruptProofs` | theorems about `Console` and `ContextSwitch` | proofs |
| `FIFOSchedulerProofs`, `RRSchedulerProofs`, `VMPoolProofs`, `DemandPagingProofs` | theorems about the module of the same name | proofs |
| `MC*` | instances for TLC | - |

### Frame pools

`bitmap[p][k]` is the state of frame `base_frame_no + k` of pool `p`. Its domain
`Entry(p)` is longer than the pool by the largest request, because the scan
`for(j = i; j <= i + n; j++)` of `get_frames` reads entries behind the last one:
`PoolInit` gives each pool's memory before its constructor any of the four values two bits can
hold, and the constructor clears only the pool's own entries. `Window(i, n)` is
the range that loop visits, n + 1 entries: every extent is one frame longer than
the client asked for, and n free entries alone are not enough (section 5), while
`nFreeFrames` goes down by n. `release_frames` finds
the pool by walking the list and frees entries until it meets a free one; if the
model's bitmap ends first, `fault` becomes `"overrun"`. A failed assertion is
`fault = "assert"`. In the constructor of a pool whose info frames belong to
another pool `i - base_frame_no` wraps around; that write lands outside both
bitmaps and changes no entry, while the free counter is lowered all the same.
`mp3/cont_frame_pool.C` is the same file and is not compiled there.

In `TestMemory` level `g` of the recursion is an index: `frame[g]` is its local
variable, `allocs_to_go` the level that runs. `Allocate` is `get_frames` with
the loop that fills the frames (address 0 included when the call fails),
`CheckAndRelease` the loop that compares and then releases, with the endless
loop of a failed test as `pc = "failed"`.

`FrameScan` opens `get_frames` up: `i`, `j` and each exit of the two loops
(`SkipTaken`, `StartRun`, `ExtendRun`, `Judge`, `GiveUp`, `Mark`), from every
possible bitmap. Its property `OnlyExactFitsMissed` measures the loops against the
comment of `get_frames`, and the proof shows on the way that they compute
`FirstFit`, the one-step form the other modules use.

### FIFO scheduler

The list is modelled with its nodes: `next` and `thread` as functions, `head`,
`tail`, and an auxiliary variable `queue`, the sequence of nodes that `head`
reaches, which `IsList` ties to the pointers. `MemPool` never gives a node out
twice; the model reuses a node only when no pointer reaches it, which nothing
can observe, so that `Node` can stay finite. `yield` is four steps (disable
interrupts, take the head, enable them, dispatch) and a fifth after the switch
back. `IF_flag` is the processor's interrupt flag and `saved_IF` the one in each
saved context, because `Machine::disable_interrupts` and `enable_interrupts`
assert its value. `burst` counts the ten bursts of a terminating function. The
context switch is one step, which `ContextSwitch` opens up. A timer tick in this build runs
`SimpleTimer::handle_interrupt`, which touches none of these variables, and is
left out.

`terminate` of a thread other than the running one is not modelled: nothing in
the repository calls it.

### Round-robin scheduler

This build calls `resume` and `yield` with interrupts enabled (the calls that
would mask them are commented out), so `RRScheduler` has a list of its own: each
read or write of `head`, `tail` and the node members is one step (`Fill`,
`ReadTail`, `Link`, `SetTail`, `CheckFlag`, `TakeHead`, `PeekNext`, `StoreHead`,
`Dispatch`), and what a thread has read and not yet used is in `local`. The
timer may interrupt before each of them. The handler itself runs with interrupts
disabled: `Tick` and `Preempt`, which contains all of `handle_rr_quantum` with
its `resume`, its `yield` and the switch, are one step each. The PIC's in-service
bit is set from the tick that preempts until some thread returns through
`dispatch_interrupt` (`HandlerReturn`); meanwhile no tick arrives. `interrupted`
remembers where a preempted thread goes on.

`MemPool::allocate` reads `start_address` to return it (`PassOn`), and its
`start_address += _size` reads it again (`LoadAddress`) and writes it
(`MoveAddress`), since the kernels are compiled without optimisation. A thread that is
interrupted in between gets the same memory as another, or stores an old value: it
moves the pointer back over nodes that were queued meanwhile, and later calls
hand those nodes out again. An address of the pool is modelled by the
sequence of nodes that lie from there on, up to the first that was never handed out:
only a pointer that was moved back sees more than one. `MaxNode` nodes stand for
the memory of any number of calls: where the pool goes on, the model takes a node
that nobody holds and no pointer reaches (`Unused`), with its members cleared
(`Wiped`), which nothing can observe.

A run begins when `main()` has added its threads and started the first one. The
history variable `torn` counts the quanta that ended, and the threads that resumed
themselves, since a quantum ended where that may damage the list, with that one:
between `allocate`'s load and store of the pointer, or from `add`'s read of `tail`
to the context switch. While it is 0 the list cannot have been damaged. `fault` records that `yield` met an empty list or that a returned thread
was dispatched again. The context switch is one step (`ContextSwitch` opens it up); `terminate` of
another thread is not modelled, as in the FIFO build.

### Virtual-memory pools

One thread runs and every call is one step: `ConstructPool`, `Allocate`,
`ReleaseArray`, and the clients' accesses `Write` and `Read` with the page fault
they may take, or `AccessFails` when the handler's assertion fails or memory runs
out. Addresses count array elements, a page holds `PageSize` of them.
`allocated_list` and `free_list` are those of each pool with their counters:
`allocate` cuts a region off the first free entry that is large enough,
`release` moves an entry to the end of the free list, leaves a hole in the other
one, and calls `free_page` for the page in which the region begins
(`PageFreed`), whatever else lies in that page and however long the region is.

`pde` and `pte` are the two levels of tables, `NULL` for an entry that is not
present. `handle_fault` takes a frame for the page and, if the page table is
missing, another one for that and clears it (`Cleared`); a page's own frame keeps
what was in it. `free_page` reads the page's entry through the recursive mapping;
without a page table that access is a fault on an address of no pool, and the
kernel stops. The frame pool of `mp4` is linked as the object file
`cont_frame_pool.o`, which was not built from the sources here
(`mp4/cont_frame_pool.C` is an empty frame whose methods assert false): the
model takes from the calls that it hands out
the lowest free frame, stops the machine when there is none, and frees what was
got.

The lists lie in each pool's first page. They are modelled apart from `mem`: that
nobody else ever gets that page's frame is `FramesAccounted`. The two counters
are not initialised by the constructor, but the pools are locals of `main()`,
whose stack is zeroed memory, and are constructed before anything has used it, so
they begin at 0 there. The flush of the TLB in `free_page` is taken for granted.
Neither list is bounded in the code; the model's clients make at most
`MaxEntry - 1` calls to `allocate` for each pool (`kernel.C` makes 49 of 255).

### File system

`inodes[m]` and `free_blocks[m]` are the lists of the m-th `FileSystem` object;
the pointer `Inode::fs` is the number of the object that created the inode, and
goes to the disk with it. A destroyed object's memory keeps its contents, since
the memory pool never reuses anything. Calls are one step (one thread, no
interrupt handler involved). Clients may make any sequence of legal calls:
`CreateFile` of any name, `DeleteFile` and `File` of one that exists, no deletion
of an open file, no unmount with files open. `CreateFile` keeps the code's
confusion of `block_no` with `inode_index`: with a free block and no free inode it
marks the block as used and writes in front of the inode array, where the
`FileSystem` object lies (`OverwriteObject`, recorded by `fault`). Its `disk` is then
the file's number and its `inodes` 0, and the call through `disk` that follows goes
wherever the memory there points. The model lets each list on the disk stay as it was or
be replaced by what the pointers now lead to (`Damage` is what lies at address 0),
and ends the behaviour. `Write` copies n + 1
characters, wrapping at the end of the block; `Read` moves the position by
n + 1 or back to 0. `Inode::size` is left out because nothing reads it.

### Demand paging

`mem` is physical memory, word by word: directory and page tables have no
variables of their own but lie in frames, as in the kernel, and an entry is a
number from which `Present` and `Target` take a bit and a frame. `Walk` is what
the processor makes of a logical page. At the start every word holds one of
`Garbage`, among it words that read as present entries and point to frames that
are used later. `main()` is `BootPools`, `ConstructPageTable`, `Load`,
`EnablePaging` and the two loops of the memory test, whose accesses come in any
order (`WriteWord`, `TestWord`); an access to a page that is not mapped is
`PageFault`. The fault and its handler are one step, but the order of its writes
matters and is kept: `Linked` (the directory entry), `Cleared` (the new table),
`Filled` (the page's entry), each on the result of the one before. `Reaches` is
the condition under which the handler's own accesses, which go through the
mapping it is changing, reach directory and table; without it the handler would
fault inside itself and no step is possible. As in `VMPool`, the frame pool is an
object file here and gives the lowest free frame.

### Disks

In `mp6` threads start with the interrupt flag clear and nothing sets it again:
what a thread does between two yields is one step, and only the drives run
beside it. `Read` and `Write` are the two operations up to their waiting loop
(`push_request` and `issue_operation`), `Poll` one round of that loop with
`resume`, `Yield` the scheduler, `ReadDone` and `WriteDone` the transfer behind
the loop. `mirrored` is the build (`_DISK_MIRRORING`): `issue_operation` then
goes to both drives. The transfer moves what the request says at that time, not
what the thread asked for, and goes through the port of the drive that was
selected last. The controller is external, modelled as the code uses it
(`DeviceReady`): a command replaces the one before; data move when the drive has
set DRQ. In `kernel.C` one thread uses the disk; `UserSets` lets others do so,
which is what the disk classes are for. `overlapped` remembers the threads whose
operation shared its time with another one's.

### Context switch

`ContextSwitch` executes `threads_low.asm` line by line (its labels are the
line numbers) on the stacks that `setup_context` lays out, with the timer
interrupt before any instruction while IF is set. The general registers but
`eax` are one word and the four segment registers another, so a frame has eight
words instead of 17; everything else on a stack is kept, with the kind of word it
is. A step that would use a word of the wrong kind is not possible; `ResumesWhole`
would have shown it before. Both timers are there: `SimpleTimer`, whose handler
returns, and the end of a quantum, where the handler switches itself (`Preempt`).
Which thread comes next is left open, so any scheduler's switches are covered.
`StartIF` is the flag of a new thread: set in `mp5`, clear in `mp6`. `called`
holds what a thread had when it called the switch; `torn` that an interrupt has hit
one of the instructions named below, where a behaviour ends.

### Console

`Console` has two users: `main()`, which may print any text, one statement at a
time with loads and stores apart (the kernels are compiled without optimisation),
and the timer handler, which prints a line of its own, one character in a step
because nothing interrupts it (`Tick`, `PutMessage`). `quiet` says that no such
line has begun inside a `putch`; `paper` is what the same characters would look
like on endless paper, rows that have left the screen included. Text memory has two
rows behind the screen to see what is written there.

## 3. What TLC checks

| Run | Instance | Properties |
|---|---|---|
| `scan` (pass) | every bitmap of four frames plus what lies behind, requests of 0 to 2 | `ScanTypeOK`; `OnlyExactFitsMissed`: the runs of free entries passed over are exact fits, and what a call marks; `ScanTerminates` |
| `test_memory` (pass) | 48 kernel frames, 60 process frames with a hole of 6, depth 12, every fill of the memory behind the bitmaps | `TypeOK`; `TestNeverFails`; `PoolsRestored` (the bitmaps, not `nFreeFrames`); `BitmapsUntouched`; `ImplementsExtents` (refines `ExtentAllocator`); `TestsComplete` |
| `fifo` (pass) | the four threads of `kernel.C`, `fun1` and `fun2` return after three bursts | `TypeOK`; `EachThreadOnce`; `NoFault`; `ImplementsRoundRobin` (refines `RoundRobin`); `NobodyStarves` |
| `rr` (pass) | three threads, one of which may return, a quantum of two ticks; 1.1 million states | `TypeOK`; `OneInHandler`; `WholeUnlessTorn`; `TimerAndThreadsGoOn` |
| `rr_torn` (violation) | the same | `TakesWhatItDispatches` |
| `vm_pool` (pass) | two pools of four and two pages, the first one in three page tables, ten frames, two arrays of one or five elements, pages of two | `TypeOK`; `FramesAccounted`; `LegitimateIsAllocated`; `WholePagesKept`; `AssertsOnlyWhenUnwritten`; `ImplementsRegions` (refines `ExtentAllocator`) |
| `file_system` (pass) | three names, two `File` objects, two inodes, three data blocks of two characters, one remount; 760,030 states | `FileSystemTypeOK`; `BlocksOwned`; `HandlesValid`; `ImplementsFileStore` (refines `FileStore`) |
| `paging` (pass) | tables of eight entries, a kernel pool of seven frames and a process pool of six with a hole, six accesses in three tables, three contents of memory; 59,499 states | `TypeOK`; `PrivateFrames`; `ImplementsFlatMemory` (refines `FlatMemory`); `TestPasses` |
| `disks` (pass) | the four threads of `kernel.C`, one or two users, both builds, three blocks; 50,863 states | `TypeOK`; `ImplementsCommandSlot` (refines `CommandSlot`); `ServedUnlessOverlapped`; `OperationsReturn` |
| `mirror` (violation) | one user of the mirrored disk | `TransferWhenBothReady` |
| `switch` (pass) | two threads, either flag, either timer, stacks of 28 words; 3.0 million states | `SwitchTypeOK`; `ResumesWhole` |
| `console` (pass) | two rows of four columns, six characters of `main()`, two lines of the handler; 177,840 states | `ConsoleTypeOK`; `ScreenShowsOutput` |

Bounds, and why they are enough:

- The kernel of `mp2` recurses 128 levels over 512 and 2816 frames. A level's
  demand has period four, so depth 12 goes through every size three times, with
  pools that leave about as little room above the deepest level as
  `LayoutAssumption` allows. The proofs cover every depth and size that satisfies it.
- `scan` has bitmaps of every content, so a larger pool only repeats the same
  local situations; the proof covers all sizes.
- Three bursts instead of ten: a burst more is another round of the same list.
  Nine nodes are more than four threads can hold at once (`add` always finds
  one; the proofs assume it can).
- A quantum of two ticks instead of five has the three kinds of tick that the
  code tells apart: one within the quantum, the one that ends it, and the state
  `ticks = Quantum - 1` in which a voluntary yield resets the count. Three threads are
  one that is interrupted and two that take turns meanwhile. `MaxNode` is six:
  enough for three threads and a whole list, with what they hold in locals
  (`WholeUnlessTorn` and `TimerAndThreadsGoOn` would be cut short otherwise; the
  states with `torn = 0` do not grow with seven). `MaxTorn` is five quanta and
  resumes after an interruption that may do damage: enough for the interrupted thread
  to come back and move the pool's pointer back, and for a later call to be given a
  node of the list. That this happens shows when `move` is counted as `Harmless`:
  TLC then finds `WholeUnlessTorn` violated after 27 steps.
- In `vm_pool` an array of five elements has whole pages in its middle and
  shares its first or last one, an array of one shares its page with the other;
  both may span two page tables, one of which nobody has touched. Two
  allocations per pool let a released region be given out again, and ten frames
  run out in some states and not in others. `MaxEntry`, `Base` and `Size` are the
  only bounds that cut anything off; the proofs hold for all of them. The arrays
  are symmetric, and no property is temporal beyond single steps.
- A block of two characters, with reads and writes up to one more than that,
  passes each boundary of the wrap-around arithmetic. Three names on two inodes
  let slots be reused in each order and use the inodes up while a block is free,
  the order of the build, too (32 inodes, 510 data blocks: there the blocks cannot
  run out first); `Damage` is one list, since no state follows; `MaxMounts` is the number of `FileSystem`
  objects and two gives one remount, which is where a stale object first
  appears. Names and `File` objects are symmetric; no temporal property of that
  run singles one out.

- In `paging` two words share a page, two pages a table, and the array reaches
  over three tables: with seven kernel frames and five usable process frames each
  kind of fault occurs in every order, and the last frames of both pools are
  used. The garbage values are the ones that matter: absent, present and pointing
  to a table, present and pointing to a page. The proof covers all sizes.
- `disks` has one user, as `kernel.C`, or two; a third adds no new situation,
  since the disk remembers one request only and the proof covers any number.
  Three blocks let the block numbers go round. Five nodes are more than four
  threads hold at once.
- In `switch` 28 words hold a function's call, the switch, an interrupt on top
  of it and the handler's own switch. That is not the deepest stack there can be:
  a thread that is preempted at line 112 or 116, while it is being resumed, keeps the
  frame it was resumed from, and may be hit there again the next time. Where the
  stack ends the model has no further interrupt; the proof covers stacks of any
  size, and with them any nesting. Two threads suffice for a thread to be left,
  passed over and resumed; `Dispatch` and `Preempt` may also choose the running
  thread itself.
- `console` scrolls by more than a screen's height, with tabs that reach the edge. The
  handler's line is one character and a new line. `ConsoleAssumption` asks for
  tab stops that divide the width, as 8 and 80 do, and for a line that ends with a
  new line; the proof covers any screen and any such line, longer ones included.

Deadlock is not checked in `test_memory`, `scan`, `rr`, `rr_torn`, `vm_pool`,
`file_system`, `paging`, `switch` and `console`. The kernel does stop at the end
of `main()` or when memory runs out, a scan ends, a client need not call, a
damaged ready list ends in a failed assertion or at the node bound (that an
undamaged one goes on is `TimerAndThreadsGoOn`), a switch that was hit ends a
behaviour, and `console` ends at its bounds. It is checked in `fifo` and
`disks`: a scheduler must not stop.

Fairness. `FrameScan` (`WF_scanVars(ScanNext)`) and `TestMemory` (`WF_vars(Next)`)
assume weak fairness of every step: one thread runs
and nothing takes the processor away for good. `FIFOScheduler` assumes the same
for the whole processor, not for each thread: it always executes the next
instruction of whoever is current, and bursts are finite loops. That every
thread gets its turn is then a result, not an assumption. `RRScheduler` assumes
strong fairness of each thread's own steps: a tick comes every 10 ms, so a thread
that is switched in again and again executes something in between, but no more
than that, since its quantum may be over at once. `HandlerReturn` is weakly fair:
the handler runs with interrupts disabled. Ticks are not assumed to come.
`DemandPaging` assumes `WF_vars(Next)`, as the other boots do; its progress is
not trivial, because a handler that cannot reach its tables, or an empty pool,
disables every step. `BlockingDisk` assumes weak fairness of the processor as a
whole (`CPU`) and of each drive with a command: a drive answers at some time,
and which thread is served is again a result. `FileSystem`, `VMPool`,
`ContextSwitch` and `Console` have none, because nobody has to call.

Each passing property has a mutant, a small plausible change to one definition
(for instance `IsReleaseEndEarly`, `addInFront`, `DeleteAndLeak`) that makes TLC
report the property violated. They stand next to the definitions they change
and are used nowhere else.

## 4. What is proved

All theorems hold for every value of the constants that satisfies the named
assumptions.

`FramePoolProofs`, first part: `ScanCorrect`, `ScanSpec => []OnlyExactFitsMissed`. The
invariant says that below `i` no window fits, and that the entries from `i` to `j`
are free. The step that matters is the restart at `j + 1` after entry `j` broke a
run: every window between `i` and `j` contains `j`. So the loops find the lowest
window of n + 1 free entries; a run of n that lies below it, or anywhere when there
is none, is followed by a taken entry (`RunThatFits`). `ScanTypeCorrect` comes with it.

`FramePoolProofs`, second part: `Inductive`, `TypeCorrect`, `TestSucceeds`, `BitmapsSafe`,
`Restored`, `Refinement`. None of the properties is inductive, because a release
that runs on until a free entry is right only for the topmost extent. The
invariant says that each pool is a stack: below a top entry everything is taken,
from there to the hole everything is free, the frames of the live levels are
consecutive segments in the order of the recursion, and each segment holds the
value of its level. `LayoutAssumption` (the pool below its first reserved entry
is longer than `Demand(Depth)`) keeps the top below the limit, so `get_frames`
succeeds, first fit is the top, and the release of the innermost extent ends
exactly where it began. `Demand` is the closed form of the sum of k % 4 + 2.
The instance of `kernel.C` satisfies it: 451 of 512 kernel frames and 448 of the
2816 process frames below the hole. `Refinement` maps levels to owners
and shows each step to be one of `ExtentAllocator` or to change nothing there.

`ReadyListProofs` has the lemmas on the list that both of its users need: with a
list that is not empty, or never was used, `add` appends and keeps `head`, `tail`,
`next` and `queue` one list (`AddAppends`), and taking the first of two or more
nodes leaves the others in order.

`FIFOSchedulerProofs`: `Inductive`, `TypeCorrect`, `NoThreadLost`, `Assertions`,
`TurnsInOrder`, each under `TwoStay`: at least two threads have functions that
never return. The invariant places each thread (running, resumed, queued, picked,
or returned), fixes the interrupt flag at every label and in every saved context,
and ties the pointers to `queue`. With two threads that stay, one of them is
always on the list when `yield` takes the head, and after it is taken another is
left behind it: so the list is never empty while threads run, and the stale
`tail` of an empty list never comes into play. The condition is needed: with
three threads that return the list becomes empty, and the thread resumed next is
hung behind a node that is no longer on it. `TurnsInOrder` is the safety part of
the refinement of `RoundRobin`. The abstract turn passes in one step, the code's
in several, so the abstract queue leaves out a thread that has resumed itself and
still runs and counts one that is picked and not yet dispatched; that this is the
abstract queue at the switch needs one invariant more, `ResumedIsLast`: nobody is
queued behind a thread that still runs.

`RRSchedulerProofs`, first part: `Inductive`, `TypeCorrect`, `HandlerNeverNests`, for any
threads, quantum and number of nodes, and without any condition on the list. The
invariant says that only the current thread is at a statement it can execute
while every other one is where a switch left it (`OneRuns`), and that the locals
of `add` and `yield` hold nodes where they are used (`LocalsSet`); so a switch
always goes to a thread, and a preempted thread that is switched in is inside the
handler and nobody else is. Even a thread that a damaged list dispatches twice
cannot enter the handler a second time, because the in-service bit is still set.

`RRSchedulerProofs`, second part: `ListStaysWhole`, `Spec => []WholeUnlessTorn` under
`TwoStay`, for any quantum, any number of threads and of nodes. The model defines
the list by a recursive function from `head` on; the proof names the sequence `q`
of nodes it reaches and carries `Whole(q)` through each statement: `Chain`, the
pointers spell `q`; `OncePerThread`, every thread is on `q` once, or is the one
that runs, has been picked, or has returned; `TailOf`, `tail` is the last node, but
for one statement; `OwnNodes`, a node being filled is on no list and nobody else's;
`PoolNew`, the pool's pointer was never moved back, and the node at it is nobody's but
the running thread's, between its two reads of the pointer and its store;
`UpToDate`, what `yield` has read is still so and whatever was interrupted was outside
the list's operations, or has not touched it yet. `allocate` needs the care: a thread
interrupted between its two reads has been given the node at the pointer, and so is the
handler. It queues that node for the same thread and has it off the list again when
that thread goes on, and the second read finds the pointer where it is by then. With `torn = 0` as a condition nothing is said of a
list that was hit; `StaysTorn` shows that it never counts as whole again.

`RRSchedulerProofs`, third part: `PreemptiveTurnsInOrder`, also under `TwoStay`.
`scheduler.C` adds to the FIFO scheduler a timer that calls `resume` and `yield` on a
thread's behalf; as long as `torn = 0` each of its steps is a `Rotate` or a `Leave`
of `RoundRobin` or changes nothing there. Preemption so decides when a turn ends
and never whose turn is next. The mapping is that of `FIFOScheduler`: between
`set_tail` and the switch the running thread does not count as ready yet
(`WithoutLast`), from `dispatch` on the next one still does (`PickedFirst`); a
`Preempt` is a turn by itself. Besides `Whole` it takes `ResumedIsLast`. Two lemmas
carry the sequences: `ReadyFollows` connects the recursive `Reach` with the chain,
in both states of a step, and `LinkKeeps`, `StoreHeadKeeps` and `PreemptKeeps` say
what a step makes of the chain, not only that it is whole. The theorem has no
property of a run: its invariant is that of `WholeUnlessTorn`, and TLC checks
`RoundRobin` on `fifo`.

`VMPoolProofs`: `Inductive`, `TypeCorrect`, `FramesSafe`, `Legitimacy`,
`PagesKept`, `Asserts`, `Refinement`, that is, every property of the `vm_pool` run.
The invariant has two halves. `ListsOK` says that the entries of both lists of a
pool are disjoint parts of it, that entries behind the counters are unused, and
that the free list has one entry more than the allocated list has holes, which
bounds it; `HeldOK` says that the valid entries are exactly what the clients
hold. From these the base of a region finds its entry and no other (`HeldEntry`),
so the assertion in `release` never fails, and legitimacy follows. For the pages
the argument is that a page which lies in one region is never the page in which
another one begins, so no other release frees it, and that a fault takes only
free frames. That written pages have a page table for good (`WrittenTables`)
gives `Asserts`. `VMAssumption` asks for pools that are whole, disjoint pages of
more than one page each, and a longest request.

`DemandPagingProofs`: `Inductive`, `TypeCorrect`, `FramesPrivate`,
`ImplementsFlat`, for any sizes, array and contents of memory. `PrivateFrames`
speaks of walks, and only once paging is on; the invariant is `Layout`, a
statement about tables in memory from their construction on: the first table maps
the kernel onto itself (`Identity`), each table has a kernel frame and each page a
process frame of its own (`OwnTables`, `OwnPages`), none free. From it
follow the walks of a fault, among them the handler's own. A new empty table
and a new page keep the layout (`LayoutWithTable`, `LayoutWithPage`), and so
does a write into a page, because no page's frame is a table
(`LayoutOfTables`). The refinement needs in addition that page and offset
determine the address of a word. `PagingAssumption` asks for the kernel pool
below 4 MB, the process pool above and an array that ends before the address
space does.

`DiskProofs`, first part: `Inductive`, `TypeCorrect`, `ServedOrOverlapped`,
`ImplementsSlot`, for any number of threads and users, in both builds, under
`TwoThreads`: with one thread the list is empty when it yields and the assertion
in `yield` fails. The invariant has the scheduler's half (every thread but the
running one is on the list, `SchedInv`) and the disk's: the drive that
answers has the command of the request, whose thread still waits (`Commanded`),
and a waiting thread that nobody overlapped made it (`OwnUnlessOverlapped`).
`Commanded` is what makes overlapping operations harmless to the disk: one that
is replaced is lost, but it is never mixed with another. Of a mirror this says nothing
about `MASTER`: the store of the abstract disk is the medium of `DEPENDENT`, the drive
that answers, and whether a write reaches the other one is not stated.

`DiskProofs`, second part: `FileSystemInductive`, `FileSystemTypeCorrect`,
`NoBlockLostOrShared`, `HandlesStayValid`, `FileSystemIsStore`, every property of the
`file_system` run, for any disk, any number of inodes, names, `File` objects and
mounts, up to a `CreateFile` that finds no inode: `BlocksOwned` says which block that
call loses, and behaviours end with it (`FaultEnds`). Two more facts are needed beyond
the properties: the reserved blocks of a
formatted disk stay marked (`Formatted`), so that a new file never gets one of
them, and every inode names a `FileSystem` object that has existed (`Owners`),
because closing a file writes the list of that object. A remount reads back lists
that the last create, delete or unmount wrote, so what the disk holds has to
satisfy the same invariant whenever nothing is mounted. The refinement maps files
to the contents of the blocks their inodes name: a close changes one of them,
since blocks are not shared.

`InterruptProofs`, first part: `ConsoleInductive`, `ConsoleTypeCorrect`,
`ScreenCorrect`, for any screen, tab width, alphabet and message. The invariant follows
`putch` and `scroll` statement by statement. `CursorInv` is what holds even when
the handler prints in between: the cursor is off the screen in one direction at
most, and only where `putch` is about to correct it, and what has been loaded
(`temp`) is small enough to be stored later; from it follows that nothing is written
behind the two extra rows. `ShownInv` is what holds in quiet: `Shown(p, q, g)` says
at each statement how cursor and text relate to the paper `p` before the character
and `q` after it, `g` rows of which have left the screen, down to the state in which
`scroll` has moved the rows up and not yet blanked the last one (`RowsMoved`).

`InterruptProofs`, second part: `SwitchInductive`, `SwitchTypeCorrect`,
`ThreadsResumeWhole`, for any number of threads, either flag and timer, and stacks of
any size. No description of a whole stack is an invariant, because frames may lie on
frames without limit. What holds is local: wherever a stack has the word that begins a frame,
the eight words are a frame, and the words above it are what the code at its return
address needs (`FramesOK`, `PlaceOK`: one line for each instruction, saying
which words lie at which distance from `esp`). The same predicate describes the running thread
(`RunningInv`) and, inside the handler, the state that the handler will return to
(`LabelNow`, `EspNow`, ...), so an interrupt and its return change nothing in it, and
a frame left on the stack by a preemption was a running state once.
`CurrentInv` and `WaitingInv` relate `current_thread` and the saved
`esp` of each thread to the stacks. The nine lines of `torn` are the places
where an interrupt would break it: at five of them `PlaceOK` speaks of words below
`esp`, at the other four `CurrentInv` speaks of the `esp` member of a thread object that another switch would change.

Only model-checked: all liveness (`ScanTerminates`, `TestsComplete`,
`NobodyStarves`, `TimerAndThreadsGoOn`, `TestPasses`, `OperationsReturn`) and
with it the fairness part of the refinement of `RoundRobin`, none of which the
prover can state. Every safety property of a passing run is a theorem.

## 5. What the code does that its documents do not say

Two disagreements are runs that TLC refutes:

1. `rr_torn`: `RRScheduler::yield` reads `head` twice and then writes it, with
   interrupts enabled; when a quantum ends in between, the node taken off the list
   is not the one whose thread is dispatched.
2. `mirror`: the loop that is to wait for both drives of a mirror reads the status
   of the drive selected last, twice. The data move while the master may not be
   ready.

Others lie outside what the modelled clients do; the models state them as
preconditions or as steps that end a behaviour:

3. `get_frames` wants one free frame more than was asked for. The comment at
   `mp2/cont_frame_pool.C:59-62` says: look for "a sequence of at least _n_frames
   entries that are FREE", mark the first as head "and the remaining _n_frames-1 as
   ALLOCATED". Both loops go on while `j <= i + _n_frames` (lines 290, 316): a run of
   exactly n free frames is passed over, so that a request which it could satisfy fails, n + 1
   frames are taken, and the last one may be an entry behind the pool's last if
   the memory there reads as free. `OnlyExactFitsMissed` states what remains true:
   no other run is missed, and without such memory the extent lies in the pool.
   `nFreeFrames` is lowered by n and raised by n + 1, so it drifts.
4. A release does not stop at the head of the next sequence, as the comment in
   `cont_frame_pool.C` requires: two adjacent extents released in the order of
   allocation are both freed by the first release. `test_memory` never does that,
   which is why it passes.
5. Once the ready list has become empty `tail` is stale, and a resumed thread is
   hung behind a node that is not on the list (`TwoStay` excludes it).
6. `MemPool::allocate` does not give each caller "a region of _size bytes" (`mem_pool.H`) of
   its own in the round-robin build: its `+=` at `mem_pool.C:43` is a load and a
   store, and a thread preempted in between moves the pool's pointer back over nodes
   that are on the ready list. Later calls hand them out again and the list loses
   threads. `WholeUnlessTorn` says that this, and a quantum that ends inside the list's own
   operations, is the only way as long as two threads stay.
7. `release` of one array frees the page in which it begins even if another
   array's elements lie there, too; `WholePagesKept` says which elements are safe.
   The test of `mp4/kernel.C` holds one array at a time.
8. `CreateFile` tests the block number where it means the inode's index: with a
   free block and no free inode it marks the block as used, which then belongs to
   nobody, and overwrites the `FileSystem` object, whose list of files is gone
   (`OverwriteObject`). `BlocksOwned` says that this call loses one block and no other
   call any; what clients see (`ImplementsFileStore`) is described up to it.
   `file_system.H` promises false only for a file that exists.
9. Closing a file that was created before a remount writes the inode list of the
   destroyed `FileSystem` object to the disk. The list in memory stays right and
   the next create, delete or unmount writes it, which is why
   `ImplementsFileStore` holds in the absence of crashes.
10. `threads_low_switch_to` keeps the return address below the stack pointer at
   lines 84 to 88, where any interrupt overwrites it, and a preemption at lines
   104, 107, 108 or 126 uses the `esp` of a thread object that the interrupted
   switch has saved to or not yet read. `ResumesWhole` shows that these nine are the
   only ones. Both builds of `mp5` can be hit; in `mp6` the flag is clear.
11. Two threads that use one `BlockingDisk` at once overwrite each other's
   request: one of them gets its call back without its data moved.
   `kernel.C` lets one thread use the disk.

## 6. Not modelled, and what is left

What a further step would take up, in this order:

1. A refinement between the two models of dispatching: that `ContextSwitch`, seen
   at the calls and returns of `dispatch_to`, is the one-step switch of
   `FIFOScheduler` and `RRScheduler`.
2. The console of two threads that print at once, as those of `mp5` do.

Out of scope: keyboard and string utilities (input nobody waits for,
formatting), the console's backspace (no kernel prints one), descriptor tables,
exceptions and start-up (no state that changes afterwards), the port protocol of
`mp7/simple_disk.C` (busy waiting on the device), `mp2/simple_frame_pool.C`
(example code that nothing links), crashes of the file system (`main()` formats the
disk at every boot, so no kernel ever mounts what a failure left). The memory
pool's exhaustion is listed as a hazard: its code has no limit to model. So is
the lists' overflow in `vm_pool.C`, behind 255 calls that no client makes.
`terminate` of a thread other than the running one has no caller.
`rr_yield_flag == false` in `scheduler.C` is a comparison where an assignment is
meant; `RRScheduler` models it as it is.

The share of all lines that the model stands for is limited by the repository's
shape: console, interrupts, machine, descriptor tables, exceptions and utilities
lie in the kernel directories in up to six copies, of which a definition names
one.
