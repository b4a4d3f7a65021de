# Formal models of the borrrdex kernel

borrrdex is a small x86-64 operating system: a kernel in C++ (`src/Kernel`), a
user library (`src/LibBor`) and a terminal emulator (`src/System/fterm`). This
directory holds TLA+ models of the kernel and the terminal emulator, the TLC runs that check them on small
instances, and proofs that TLAPS checks for instances of every size.
`PROJECT.json` lists components, runs, the source lines behind every definition,
hazards and theorems.

How to run it, from this directory:

    tlc -workers 2 -config RWLock.cfg MCRWLock      # a run: <run>.cfg and its MC module
    tlapm WaitProofs.tla                            # the proofs of a module

## 1. The system

| Part | State | Operations | Hard behaviour |
|---|---|---|---|
| `read_write_lock` (`lock.h`) | two lock words, reader count | acquire/release read and write, try | the count is changed without the lock that guards its test |
| blocking (`fs_blocker`, `thread.cpp`) | blocker on the reader's stack, node's list, thread state | construct, block, unblock, destroy | two locks in opposite orders, pointers to stack objects, lost wakeups |
| timer (`timer.cpp`) | delta list, pending ticks, lock | construct, destroy, tick, dispatch | the interrupt cannot wait for the lock |
| scheduler (`scheduler.cpp`) | run queue, lock and current thread per CPU | tick, yield, block, start, end, collect | several CPUs, exits that take each other's locks |
| physical allocator | bitmap, hint, count, lock | allocate, free | `free` takes no lock |
| `address_space` | sorted list of regions | map at a hint, map anywhere, check a range | two searches rely on one order |
| descriptors (`scheduler.h`, `syscalls.cpp`) | table, handle counts | open, close, dup, pipe, grant_pty, read, write, seek, exit | shared nodes, nodes that delete themselves |
| pipes (`pipe.cpp`, `stream.cpp`) | two ends that point at each other, bytes | read, write, close | one end outlives the other |
| semaphore, timed block | value, list, lock | wait, signal, timeout | timeout against signal, lock held while blocked |
| AHCI disk | command slots, 8 buffers, one command table | read block | slot found before a wait and used after it |
| ext2 and its caches | inode and block caches | read, look up | eviction of what is in use, indirect blocks |
| paths, volumes, initrd | tree with links and mounts | resolve, mount, open, stat | link loops, a tokenizer that cuts its argument |
| page maps, `vm_object` | frames, tables, use counts | start, map, fault, end, collect | ownership of frames over a process's life |
| kernel pages, heap (`liballoc`) | page bits, tags, lists of free pieces | malloc, free, realloc | called with interrupts off, search and marking are apart |
| keyboard | ring of 256 codes, 8-bit counters | interrupt, read | limits, an unlocked counter |
| pty, `char_buffer` | two buffers, lines, modes | read, write, tcsetattr, tcflush | canonical mode, limits, the retry loop |
| fterm | screen, cursor, escape state | poll, print, prompt | one thread holds both ends of its pty |
| boot, SMP start-up | hand-shake words | start CPU | the start of each CPU |

The parts meet as follows. System calls work on descriptors, descriptors on
nodes (files, devices, pipe ends, ptys). Reading an empty node blocks through
`fs_blocker`, and `thread::block` ends in `scheduler::yield`. The timer interrupt
drives both the sleep queue and the scheduler. File reads go through the ext2
caches to the disk, which waits on a semaphore. A process owns an address space,
that owns regions, those own `vm_object`s, and those own physical blocks. All of
them use the heap, and the heap uses kernel pages.

Facts on which the models rest. There is no `fork` and no call that makes a
second thread: every process has one thread. So descriptor tables, pipes, ptys
and address spaces belong to one thread, and their calls run one after another.
The locks, the scheduler, the timer, the allocators, the disk and the nodes of the
file system are shared. `kernel_process` starts one program; ext2 is only read. The kernel runs on several CPUs, and threads are preempted in
the kernel whenever interrupts are enabled.

## 2. The modules

Each component has a module, an `MC` module for TLC and, where something is
proved, a `Proofs` module. Where the code is concurrent, one action is one atomic
instruction on shared state, `pc` says where each thread is, and a spin on a lock
is an action that is not enabled while the lock is taken. Local computation is
joined to the instruction before it. Definitions marked `Mutant` are wrong
variants, each of which some property rejects.

**RWLock / RWLockSpec** — `kstd::read_write_lock`. `read_lock`,
`write_lock` and `active_readers` are the members. `acquire_read` is
`CallAcquireRead`, `EnterReadLock`, `CountReader`, `FirstReaderTakesWriteLock`,
`ExitReadLock`; `release_read` is `UncountReader` and, for the last one,
`LastReaderFreesWriteLock`. `RWLockSpec` is the promise: atomic entry and exit,
readers together, a writer alone.

**FsBlock** — a node, its readers and its wakers. The reader constructs a blocker
(`Construct` … `CtorUnlock`), blocks (`GetLock`, `TestShouldBlock`, then
`SkipBlock` or `CommitBlock` and `Park`), resumes and destroys it (`DtorLock` …
`DtorUnlock`, with the retry when the node is locked). The waker is the loop of
`pty::worker_write`, with `fs_blocker::unblock` inside it. `smp` is chosen at the
start: on one CPU (`FALSE`) nobody else runs between `cli` and `sti`. With
`SpuriousResume` the scheduler may resume a blocked thread, as it really does
(section 3, statements that do not hold).

**TimerQueue** — the sleep queue. `EventCtor`, `EventCtorLock` and
`EventCtorInsert` are the constructor; `EventDtor` and `EventDtorRemove` the
destructor. `Tick` is the handler that finds the queue free and takes it,
`ChargeTick` one turn of its loop (one pending tick, and the dispatch of the events
that are due), `EndTick` the release; `TickDeferred` is the handler with the queue
locked. Three ghosts say what should happen, by the interrupts alone: `asked` is the
length of a request, `left` is that less the interrupts that came while the event was
queued, and `drift` is how far the queue is off. An event that is inserted while ticks
are pending is charged for them too (drift minus `pending_ticks`); an event of zero
ticks takes a tick that those behind it still have to wait (drift plus 1). `crashed` is
set when the queue is used with a destroyed event in it, which the destructor can leave
behind (it erases only events that have a next one); nothing is promised after that.

**Scheduler** — run queues, `schedule()` (`Switch`, with `Turn` and
`SkipBlocked`), `tick`, `yield`, `block`, `unblock`, `insert_new_thread` (`Spawn`,
`SpawnCli`, `SpawnPush`), `end_process` (`EndProcess` … `ExitDie`) and `gc`. A
thread can lose its CPU between taking a run queue lock and `cli`. A process is
named by its thread. Insertion without the lock is a data race: if two CPUs change
a list at once, `fault` becomes "torn". If the assertion at the end of
`end_process` fails, it becomes "overran". Either ends the behaviour.

**PhysicalAllocator / PhysicalAllocatorProofs** — the bitmap as the set of blocks
whose bit is set. `Lock`, `StartSearch`, `TestChunk` and `TestBit` (a turn of a
loop each), `SetBit`, `CountUsed`, `Unlock` are the allocation, with "panic" when
the search fails; `Free`, `ClearBit`, `UncountUsed`, `TestHint`, `SetHint` the
release. `|=`, `&`, `++` and `--` are a load into `reg` and a store (`…Store`), and any
thread may run in between: the kernel is built without optimisation and its threads are
preempted, so one CPU is enough for an update to be lost. History: `owned` counts how
often a block was handed out and not freed, `freed` holds the bits cleared during the
search; `erased` the bits that a free's store cleared although they were set after its
load, `leaked` those a store set again, and `miscounted` says that two updates of the
count interleaved. The properties are stated up to these.

**AddressSpace / AddressSpaceSpec / AddressSpaceProofs** — `_regions` as a
sequence, `i` the iterator. A request (`Call`) tries its hint (`AtSkip`,
`AtInsert`, `AtInUse`, `AtAdd`), then the free search (`FindInsert`, `FindNext`
with the three tests of `Past`, `FindAdd`), and maps or fails. `AddressSpaceSpec`
is the promise over a set of regions. It remembers the request that is being answered
(`Ask`), and the answer depends on it: a region of the size asked for at its hint if that
is free (`AtHint`), otherwise null if it is fixed (`Refuse`), else the lowest free range
(`AtFirstFit`), and the kernel stops only when there is none (`OutOfSpace`). Sums of
addresses are taken not to wrap around 2^64.

**Files** — `fds` is the descriptor table (descriptor `d` of the model is number
`d - 1`), `nodes` the handle counts and, for pipe ends, which are deleted and which
know that their peer is gone, `bytes` the fill of each pipe. There is one action
per system call; `sys_grant_pty` and the closing of all files at exit take a step
per descriptor. "panic" is the assertion in `list::get` that closing the number
behind the table reaches. "corrupt" is one outcome of closing the second end of a
pipe, which writes to its deleted peer; the other is that nothing happens. `lost`
is a ghost for the handle that `sys_dup` takes and drops when it refuses a number.

**Heap** — kernel pages and liballoc. A thread runs `CallMalloc`, `CallFree` or
`CallRealloc`; `LiballocLock` takes the lock, or `LiballocLockAsserts` panics when
interrupts are off and it is taken. `malloc` looks through the lists
(`MallocFound`), or has new pages searched and marked (`MallocSearch`,
`MallocGrow`); `free` melts to the left and right, then keeps the piece or gives its
pages back (`FreeMeltLeft`, `FreeMeltRight`, `FreeInsert`, `FreeArea`). Tags are
records with the links `split_left` and `split_right`. The rest of the kernel takes
and returns pages with `SearchPages` (or `SearchPagesAsserts`, when none are found),
`MarkPages` and `FreePages`. `raced` is set when
two searches overlap before either marks its pages, since the code holds no lock
there. Nothing is claimed after that, nor after a failed assertion.

**Disk** — from the PCI scan (`Initialize`) over partitions to the mounted volume,
each step with its failures; then threads read blocks: `ReadBlock` looks in the block
cache, `FindCmdSlot`, `SemaphoreWait`, `AcquireBuffer`, `DoRead`, `CopyChunk`,
`ReleaseBuffer` and `Signal` are `read_disk_block`, `Set` and `Memcpy` fill the cache.
`Complete` is the controller: it does what the one shared command table says at that
time. A waiter that blocks on the semaphore holds `_lock`, so only its timeout helps
it (`WaitTimesOut`), and the unit is lost; or the scheduler resumes it too early
(`WaitResumed`), and it goes on as if it had a unit. `_lock` and the locks of the buffers
are never initialised: with garbage in `_lock` the boot hangs in `Parse`, with garbage in
a buffer's lock the buffer is never used. The positive error codes of `read_disk_block`
are read as success above it. `hurt` marks a request that met an error or shared the
table, `freed` one whose block another thread evicted before it was copied.

**Ext2** — pure operators. `ReadInode`, `FindDataBlock` (direct, indirect, double
indirect), `Read`, `FindDir`, `ReadDir`, and the tar archive's `TarChildren`,
`ReadDirectory` and `TarReadDir`, over an abstract layout of blocks. `past` holds block
numbers behind the end of the volume, which cannot be read: `find_data_block` and `read`
then go on with 1, the outcome of a comparison.

**Names** — `resolve_path` as a stack of frames, one per recursive `follow_link`; an
action `Walk` is a turn of its loop. The boot calls (`Kmain`, `AhciInitialize`,
`RegisterLib` … `StartInit`) come first, then `SysOpen`, `SysStat`, `SysRead` and
`SysClose` of the process. A node is an object: `<<"ext2", i, k>>` is the k-th node made
for inode i. `icache` is the inode cache, which deletes the node it evicts, whoever holds
it; a walk over a deleted node (`WalkFreed`) or a call on one (`UseFreed`) ends the
behaviour. A relative path is copied behind the working directory without its final NUL,
so its last component may get a tail (`Unterminated`). `Meaning` is the reference, a
recursive definition of what a path means by what the volumes hold (`EntryRef`); it uses
none of the lookups of the code. `excused` collects why a path need not get what it
means. `sys_stat` passes the process's own string on, and `strtok_r` cuts it (`Cut`).

**Memory** — frames, page maps, regions and objects of processes. A process is set up
(`initialize_process`, `load_elf`), maps memory (`sys_mmap`, `sys_map_fb`), faults its
pages in (`PageFault`), and ends (`EndProcessLists`, `EndProcessDies`, `Gc`). Each can
fail where the code can. `lost` names frames the code forgets: page tables, kernel
stacks, and at the end of a process all frames of its objects, since `list::clear` only
sets the size to 0 and no object is released. `stray` names frames that
`destroy_page_map` frees by mistake. The use count of an object begins with garbage, as
in the code. A region is assigned to a slot of the list that nobody constructed; `clean`
says how many slots of that memory hold zeros, and a mapping beyond them is a panic.

**ElfStack** — the arithmetic of `load_elf` on the first stack: how
long strings, padding and the vectors are, and where the stack pointer ends up, with
and without an `exec_path` (no caller passes one).

**CharBuffer, Screen, Terminal** — `CharBuffer` has the operators of `char_buffer` on a
record, `Screen` those of fterm's screen: printing, escape sequences, scrolling.
`Terminal` composes them with the keyboard's start-up and interrupt, its ring buffer,
`input_manager::poll`, the two ends of the pty, `/dev/klog` and the loop of fterm's
`main`. What the process may do besides (write to stdout, read stdin, change modes,
flush) are actions of their own. Fields that the code leaves uninitialised (`i` of the
keyboard, a fresh `char_buffer`) take any value of a small set. `Atoi` is signed, and
coordinates are `int`s that wrap around (`Wrapped`). The prompt stands for its
first and last byte, and its write may be taken in parts. Named faults (`torn`, `over`, `wild`, `smashed`, `strayed`,
`wrapped`, `raced`, `junk`) mark where the code leaves its own terms.

## 3. The runs

| Run | Instance | What it shows |
|---|---|---|
| rwlock | 4 threads | a writer is alone (`Exclusion`), somebody always gets in (`SomeoneGetsIn`), the lock implements `RWLockSpec` |
| fsblock | 2 readers, 2 wakers, 1 or several CPUs, spurious resumption | the list holds exactly the live blockers and no waker uses a destroyed one (`BlockersAreSafe`), the opposite lock orders never deadlock (`NoCircularWait`); on one CPU no wakeup is lost and woken readers return (`NoLostWakeupOneCPU`, `WokenReturns`) |
| timer | 3 events, one on a stack, lengths 0, 1, 3 | offsets add up to the remaining time by the count of interrupts, up to a bounded drift (`QueueIsExact`), events fire in the order they are due (`FiresInOrder`), every sleep ends (`SleepEnds`) |
| scheduler | 2 CPUs, 3 threads, one started late, the kernel thread may block | every live thread is in exactly one queue, counts are exact, the current thread is queued, every taken lock has one owner (`QueuesAreExact`); while nobody blocks, everybody runs and every exit ends (`EveryoneGetsOn`) |
| physical | 2 threads, 6 chunks of 2 blocks, 3 usable, 2 out at once | a block gets two owners only after a free erased its bit (`NoDoubleAllocation`), bitmap and count are exact up to lost updates and a wrong hint raises no false alarm (`MarksAndSearchExact`), the lock is released (`LockIsReleased`) |
| address_space | 4 regions, sizes 1–3, 6 hints, 9 pages | sorted and disjoint, ranges in a region are accepted (`RegionsExact`), every request is answered as first fit with hints answers it (`ImplementsAddressSpaceSpec`), searches end (`RequestEnds`) |
| files | 2 pipes, 1 pty, 1 file, 5 descriptors | exact handle counts and positions in the file (`DescriptorsExact`), pipe ends live as long as their handles and the survivor knows (`PipeEndsExact`), no call changes a descriptor it does not name (`DescriptorsStable`) |
| heap | 2 threads, areas of 2 pages of 10 units, sizes 4, 8, 20 | between two calls the pieces tile the areas, links right both ways (`HeapIsTiled`), lists hold exactly the free pieces and no two are neighbours (`FreeListsExact`), a bounded number of whole areas stands by (`CompletePagesExact`) |
| disk | 2 threads, 1 slot, 1 or 2 buffers, 3 sectors per block, 2 per buffer | a read that met no error, shared no command and kept its block while it copied gives its block (`ReadIsRight`), the semaphore's value is exact up to lost units (`SemaphoreExact`), the cache's map and list agree (`CacheExact`), every read of a mounted volume ends (`ReadEnds`) |
| names | 3 disk images, 3 initrds, 9 paths, cache of 4 | a resolved path is what the path means, unless it is excused (`ResolveIsRight`), reads return the file's bytes (`FileReadIsRight`), nodes in use live while the cache has room (`NodesStayAlive`), inodes, entries and initrd files are found where they are (`LayoutIsRight`) |
| memory | 22 frames, 8 combinations of program, linker and garbage | a frame has one owner or is lost for good (`FramesOwnedOnce`), page maps follow objects (`PagesFollowObjects`), a process finds its file's bytes and zeroes (`MemoryIsRight`), an ended process is taken down by gc (`ProcessIsReclaimed`) |
| terminal | 3 typed scripts, 3 × 2 screen, ring of 3, buffers of 12 to 20, 8-bit `int` | keys (`KeysInOrder`) and bytes (`BytesInOrder`) arrive in order and once, the cursor stays on the screen until it is moved by a negative or overflowing amount (`CursorOnScreen`), the loop comes round (`LoopReturns`) |

Several properties are conjunctions: `BlockersAreSafe`, `QueueIsExact`,
`QueuesAreExact`, `MarksAndSearchExact`, `RegionsExact` and `DescriptorsExact` contain
the type invariant of their module and the exactness claims about one piece of state,
each of which is still a definition with its own comment. `ImplementsRWLockSpec` and
`ImplementsAddressSpaceSpec` are refinements.

### Where the claims stop

The newer models contain the faults of the code as steps, and their properties say
what holds until one of them happens. A reader of the code should know them:

- TimerQueue: a request shorter than a tick counts zero ticks. The tick that dispatches
  it is charged to it and not to the events behind it, which then wait a tick too long.
  An event inserted while ticks are pending fires that much too early. `DriftIsBounded`
  says that these are the only two errors.
- PhysicalAllocator: a free that loses the CPU between its load and its store of a word
  of the bitmap erases a bit that was set meanwhile, and the block is handed out twice.
- Heap: `kernel_allocate_4k_pages` searches and marks without a lock; `free` with
  interrupts off panics when the lock is taken.
- Disk: all slots share one command table; `interrupt_status = -1` clears the error of
  another request; a block read with a positive error code is cached as good; the cache
  frees a block that another thread is copying; the semaphore's `_lock` is not
  initialised.
- Names: absolute link targets start in the link's directory; a link to itself recurses
  until the stack is gone; a relative path is copied without its NUL; `..` at the root of
  a volume, and names with a dot in front in `/dev` and the initrd, are the directory
  itself; a read that ends on a block boundary after more than one block does not copy
  the last one; double indirect blocks are off by one; a block that cannot be read makes
  a read return 1; in an initrd the entry behind a directory is skipped; the inode cache
  deletes nodes in use once more inodes were looked up than it holds.
- Memory: `destroy_page_map` frees another block than the map's; page tables, the kernel
  stack and all objects of a process are never freed; segments that share a page
  overwrite each other; regions are assigned to memory nobody constructed; `gc` can run
  before the dying thread has left its page map. What that thread does on the freed map
  is not followed: the properties say who owns the frames and that gc gets through.
- Terminal: a full worker buffer, or a backspace on an empty one, makes the write loop
  for ever, and fterm, which holds both ends, with it; `worker_read` blocks while there
  is something to read; escape mode ends only when its buffer is full; a negative amount
  in a sequence moves the cursor off the screen; the second write on a descriptor of
  `/dev/klog` is refused; the ring's count wraps at 8 bits.

### Statements of the code that do not hold

Five definitions state what a comment or an assertion says. TLC refutes each, with the
config named here; they are not among the runs of `PROJECT.json`.

| Command (after `tlc -config`) | Property | Statement | What happens |
|---|---|---|---|
| `FsBlockLostWakeup.cfg MCFsBlock` | `NoLostWakeup` | `thread.h:38`: an early `unblock()` tells the thread not to block | on two CPUs `unblock()` runs between the release of the blocker's lock and `state = blocked`; the thread stays blocked |
| `TimerQueueEarly.cfg MCTimerQueue` | `NeverEarly` | `timer.cpp:14-16`: a thread waits its ticks | the constructor tests the global `ticks`, which is 0 once a second, and calls back at once |
| `SchedulerBlocked.cfg MCScheduler` | `BlockedNeverScheduled` | `scheduler.cpp:439`: blocked stops a thread from running | the loop's condition is inverted: with two blocked threads, one is resumed |
| `SchedulerOverrun.cfg MCScheduler` | `NeverOverran` | `scheduler.cpp:532`: the last `schedule()` does not return | another CPU that ends a process has the run queue lock, and `schedule()` only tries it |
| `PhysicalAllocatorMemory.cfg MCPhysicalAllocator` | `OutOfMemoryIsReal` | `physical_allocator.cpp:64`, `.h:12`: the search covers the bitmap | chunk 0 and everything behind 1/32 of the bitmap is never searched; "Out of memory" with memory free |

### Bounds, and why they are enough

- rwlock: with 4 threads there are a first reader, a later one, one waiting and a
  writer at once. The theorems cover every number.
- fsblock: two readers give a list of more than one blocker, two wakers compete
  for the node.
- timer: three events give a first, a middle and a last one; `MaxPending` = 1 and the
  tick that finds the queue free make two ticks charged at once; `Frequency` = 2 reaches
  the turn of the second. The code's frequency is larger, which only makes the tick 0
  rarer. Lengths 0, 1 and 3 give an event that is due at once, one that is due with a
  late tick, and one behind both. The theorems cover every value.
- scheduler: two CPUs and two processes besides the kernel's are the fewest that
  can end at the same time on different CPUs and share a queue. `DefaultSlice` = 1
  separates a tick that counts down from one that switches.
- physical: the searched part has two chunks besides chunk 0; three usable blocks
  let a chunk be full, half full and empty. A lost update lets the blocks that are out
  grow without bound, so no call begins after `MaxLost` = 1 bits are wrong or the count
  is, and at most `MaxOut` = 2 blocks are out. The safety theorems cover every size.
- address_space: four regions suffice for a gap between regions, a gap that is too
  small, and a hint in each; `UserLimit` < `KernelBase` reaches both limits. The
  theorems cover every size.
- files: five entries are the three standard descriptors and one pipe, or two
  copies; larger tables only repeat the free entries. `MaxBytes` = 1 separates an
  empty pipe from one that is not; `MaxLost` = 1 allows one lost handle; `Word` = 4
  with `FileSize` = 1 lets sums wrap around. The pipes are symmetric.

- heap: sizes 4, 8 and 20 of 20 units give pieces that are split, melted on either
  side, and an area of its own; two threads give a taken lock and overlapping searches.
- disk: 3 sectors per block over buffers of 2 make a full and a partial chunk; block 1
  lies on the partition, block 2 just behind it (`block_count`, accepted by the code),
  block 3 is refused. One slot and one buffer make both run out; with two buffers
  (fewer requests) two transfers overlap on the table. A cache of 1 evicts.
- names: `Direct` = 2 and `Entries` = 2 reach double indirect blocks in few steps;
  `StackDepth` = 6 stands for the kernel stack; `MaxOps` = 3 lets an open node be
  evicted and then read. A path stays in the images' few names. The third image has a
  data block and the indirect block behind the end of the volume.
- memory: 22 frames suffice for a process with every kind of region and for running out.
  `Boots` lists what a process may meet: each kind of program with the linker, garbage
  and clean slots that make a difference to it. `Ratio` = 17 lets `destroy_page_map` free
  a block by mistake and free none.
- terminal: a ring of 3 wraps, `EscMax` = 8 fills the escape buffer, buffers of 12
  grow once to their limit of 20, `MaxLogs` = 5 wraps the log of `LogMax` = 4. The typed
  scripts hold plain keys, shift, enter, backspace and the escape of a cursor key.
  `IntMax` = 127 lets three digits overflow an `int`.

`CHECK_DEADLOCK FALSE` is used where the system may stop: after a panic
(physical, address_space, files), after a fault (scheduler), once a destroyed event
was used (timer), when `MaxRegions` is reached (address_space), and when the process
has exited (files). In heap, disk, names, memory and terminal it is used since a panic, an
endless loop or a bound on the calls ends the behaviour.

### Fairness

- A thread that can take its next step takes it in the end (`WF` on the steps
  inside an operation): the timer interrupt gives every thread its slice. Nobody is
  obliged to start an operation, and a blocked thread is not obliged to resume.
- Ticks keep coming (`WF` on the timer's and the scheduler's ticks): the timer is
  periodic hardware, and the time slice counts down on every one. In the timer the
  weak fairness is on the tick that finds the queue free and on the handler's loop:
  the lock is held for a bounded time. It is `SF` for a thread that waits for the
  queue, since every tick takes the queue for a moment: the handler ends before
  the thread goes on, so the thread finds the lock free.
- In the scheduler, `SF` on the steps of a thread: it runs only while it is
  current, so its steps are enabled again and again, not continuously, and a time
  slice is long enough for a step. The run queue locks are contended only while
  other processes end, which each does once.
- Disk: `WF` on the steps of each thread, and on `Complete` of each slot: the
  controller ends every command it was given. A waiter's timeout is one of its steps.
- Memory: `WF` on the two steps of an exit and on `Gc`, which `kernel_process`
  calls in its last loop for ever. Nobody has to exit.
- Terminal: `WF` on the steps of fterm, the only user thread. It is written out,
  infinitely often stopped or infinitely often a step, with `Stopped` in place of
  ENABLED, which TLC is slow to evaluate on this next-state relation. `WF` on
  `KbdHandlerCounts`: an interrupt handler that has begun ends. Keys are not fair.

## 4. The proofs

TLAPS proves the following for every value of the constants that satisfies the
module's `ASSUME`.

- **WaitProofs**, first part, about FsBlock (any readers and wakers; no thread is both): `SafeBlockers`,
  `NoWakeupLostOnOneCPU` and `LockOrderIsSafe`. `IInv` says which program points own the
  node's lock and which own a blocker's, each by one thread; that the list holds exactly
  the live blockers not yet removed; that a waker's target is on the list until it takes
  it off; and that `_should_block` is cleared before `_removed` is set. On one CPU the
  test of `_should_block` and the switch are one step for everybody else, and so no
  wake-up is lost there. `LockOrderIsSafe` is the part of `NoCircularWait` without
  ENABLED: a waker that spins for a blocker's lock spins for a reader at a point where
  it needs no lock.
- **WaitProofs**, second part, about TimerQueue (any events, requests and bounds):
  `ExactQueue` and the action property `DueOrder`. That the counters add up is not
  inductive. `TimerInv` has it as a difference: an entry's counter is when it is due
  (what is left of it, the pending ticks and its drift) less when the entry in front of
  it is (`OffsetInv`), and an entry that is due at once is one that asked for nothing. It
  adds that an event is queued once, and who has `sleep_list_lock`. `RestFacts` says what
  is left of a request at each place of the walk: that is induction over the queue, which
  `LeastNat` and `Induction` make available as a fact about sets of numbers. It gives
  the place of an insertion. All events that one turn of the loop dispatches are due at
  that same tick (`ExpiredFacts`), and this is the order of `DueOrder`. For the bound on
  the drift `DriftInv` is carried beside it: the turn that adds a tick to the drift of
  the queue dispatches its first event, which asked for zero ticks and was not called
  before, so the set of such events grows with every such turn.
- **WaitProofs**, third part, about RWLock (finite `Thread`): `RWTypeCorrect`, `CountCorrect`, `MutualExclusion`
  and `Refinement`. Exclusion is not inductive by itself. `RWInv` adds who is inside
  `_read_lock` (at most one thread), that a reader who waits for the write lock is the
  only one counted, and that the owners of `_write_lock` (a writer, the leaving last
  reader, the readers as a group) exclude each other. The argument about the count uses
  how the cardinality of the set of counted readers changes when one thread moves.
  `Refinement` maps `Readers` and `Writers` to the abstract sets; every instruction is
  an abstract entry, an exit, or no step.
- **PhysicalAllocatorProofs** (finite `Thread`, any chunks and memory map):
  `SingleOwner`, `ExactMarks` and `ExactAllocator`. `IInv` says that one thread is inside
  the lock (`LockInv`), that a block that is found or owned is in a chunk that is
  searched (`PlaceInv`), and, for every block whose bit no free has erased, that it has
  one owner (`OwnerInv`), that it is marked while it has one, that the word `set_bit` has
  loaded marks it too, and that the block the search has found has none (`MarkInv`). The
  word that a free has loaded needs no such fact: what it misses is what its store puts
  into `erased`. `SearchInv` says that every block the second loop has passed was taken,
  or was freed since the search began. So "Out of memory" is said only when nothing was
  free, whatever `next_chunk` held, up to blocks freed during the search. `CountInv` adds
  the count until two updates of it interleave, by how the cardinality of the set of
  threads at some points changes when one thread moves.
- **AddressSpaceProofs** (any sizes, hints, limits): `SortedRegions`, `ExactRegions` and
  `FirstFitRefinement`. `IInv` adds to the order that no region is empty or holds page
  0, and loop invariants: everything before the iterator lies below the request
  (`AtInv`), or below the candidate, with no lower base free (`FindInv`). `LimitInv`
  bounds the mapped regions, and lemmas say what an insertion does to the order and to
  the set of elements. Each step of the searches is an answer to the request that is
  still open, or no step of the abstract address space. `ExactRegions` needs the order only: the first region has the
  least base, so the answer `range_in_region` gives there accepts every address that any
  region covers.
- **FilesProofs** (any pipes, ptys and bytes, a table of at least three descriptors):
  `ExactDescriptors`, `ExactPipeEnds` and the action property `StableDescriptors`. A
  call opens and closes several descriptors, so the invariant is stated for a table, a
  state of the nodes and the dropped handles as parameters (`TableInv`, `EndsInv`) and
  lemmas say that each opening, closing and replacing of one entry keeps it; an action
  is then a sequence of them. `PhaseInv` adds what the calls of several steps rely on:
  room in the table for `sys_grant_pty`, and that `destroy_all_files` leaves only null
  entries behind it.
- **SchedulerProofs** (any `NumCPU >= 1`, finite `Thread`): `ExactQueues`. `IInv` holds
  until the first fault. It says that a queue holds no thread twice, that different
  queues are disjoint and together hold the live threads, that the count is the length,
  that the current thread is in the CPU's own queue, that only a thread that has gone is
  dying, that a queue index is a CPU's number, and that a taken lock has one owner.
  Initially the threads are dealt out over the queues, in any order with the kernel
  first; by the lemmas on quotient and remainder every thread has one place.
- **DiskProofs** (any threads, buffers, slots, sizes and capacity): `ExactSemaphore`,
  `ExactCache` and `RightReads`. `SemInv` ties the semaphore, the flags of the buffers
  and the program points together. `PtrInv` says that the memory a request is filling is
  known to nobody else; `CacheInv` that keys and values of the list are distinct and
  that a value of the list is in the map under its own key or not at all, which is what
  makes an eviction free memory that neither names any more. `OwnInv` follows the chunks
  of a request (the sectors read so far and where it goes on), `WaitInv` says that a
  request that is not hurt waits alone, so the one command table is its own, and
  `CopyInv` carries the contents through the cache to later readers, as long as the block
  they found is allocated (`freed` marks the others). `FullInv` adds that
  what is allocated is finite, so that there is a new pointer.
- **HeapTagsProofs** and **HeapProofs** (any threads, any sizes of header, block, page
  and area, any `MINEXP < MAXEXP` and `MAXCOMPLETE`): `TiledHeap`, `ExactFreeLists` and
  `ExactCompletePages`. The properties speak of the heap between two calls; the
  invariant has to hold inside them. `Sound` says of the tags, the lists and the pages
  that links join neighbours, that every piece lies in one area and the links end only
  at the ends of an area (`AreasOK`), that no two pieces overlap, that a list holds
  exactly the tags that carry its index, and that no two free pieces are neighbours. A
  piece a call has in hand carries no index, so it counts as taken, and HeapTagsProofs
  shows that each helper of liballoc.c (insert, remove, split, melt, absorb, a new area,
  an area given back) keeps `Sound`.
  HeapProofs adds `CallOK` (who has `alloc_lock`, and that no two calls claim one
  block), `BlocksOK` (the tags outside the lists are the blocks handed out and the piece
  in hand), `PagesOK` (the pages a call has found are still free until it marks them)
  and `CountOK` (`l_completePages`, as the cardinality of a set of tags). All of it is
  claimed while `raced` is false: the step that makes two searches overlap is the last
  one the model follows. The least page that fits and the cardinality of a set with one
  element more or less enter the lemmas as the hypotheses `WellOrdered` and `SetCounts`,
  which the end of HeapProofs proves.
- **AddressSpaceProofs**, second part, about ElfStack (any lengths of strings, any
  numbers of arguments and variables): `StackIsAligned`, the assertion at `scheduler.cpp:279` that the stack pointer a
  program starts with is a multiple of 16. The lemma `WordsAreEven` says that the
  padding word makes the number of words pushed even; the rest is arithmetic on the
  aligned strings. It holds with and without the entry for `exec_path`.

Each inductive invariant was first an invariant of a TLC run on the instance of the
module's run, where needed with finite sets for `Nat` and `Seq`, and in Heap with the
areas computed from the tags. Leaves are Zenon's unless they name SMT: arithmetic,
records and sequences do.

Only model-checked: all liveness (`SomeoneGetsIn`, `WokenReturns`, `SleepEnds`,
`EveryoneGetsOn`, `LockIsReleased`, `RequestEnds`, `ReadEnds`, `ProcessIsReclaimed`,
`LoopReturns`), which is out of the prover's reach; `NoCircularWait`, which uses
ENABLED; what the recursive definitions of Ext2 and Names compute; and all of
Names, Memory and Terminal, whose safety properties are within
reach and not proved yet.

## 5. Plan

1. **Proofs**: `FramesOwnedOnce` of Memory; `CursorOnScreen` of Terminal.
2. **Composition**: Memory over the promises of PhysicalAllocator and AddressSpace as
   instances, in place of its own sets of frames and regions.
3. **Boot**: the hand-shake that starts another CPU.

## 6. Not modelled, and why

Formatting, the output of log messages, and pixel drawing (`video.cpp`, LibBor): layout
without control. Hardware tables and register access (APIC, ACPI, PCI configuration,
CPUID, GDT, IDT, serial port), written or read once at boot. The SMP start-up, where one
writer and one reader poll one word. System calls that only copy data (`fstat`, the ids,
the working directory, window sizes). Code that nothing calls or that nothing can reach:
`packet_stream`, `fs_blocker::interrupt`, copy-on-write, `clone` and
`used_physical_memory` of `vm_object`, `write_disk_block`, ext2's changing calls (they
return ENOSYS), `read_dir` of ext2 beyond its own check. The header checks of an ELF
file and the bytes of a tar file, which are inputs. In the modelled parts: more than one
thread per process, which nothing creates; the uptime and `timer::wait`; floating-point
state and register contents of `schedule()`.
