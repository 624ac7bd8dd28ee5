# A model of the Lithium kernel

Lithium is a small RISC-V kernel in C: a page allocator and SV39 page tables, a
process table with a round-robin scheduler, traps and system calls, and a file
system with a write-ahead log, a buffer cache, inodes, open files, pipes and a
VirtIO disk. These modules model the parts of it that keep state, with TLC runs
on small instances and TLAPS proofs for instances of every size. Every
definition translates C code; `PROJECT.json` names the lines of each.

## 1. Inventory

| component | state | operations | what makes it correct |
|---|---|---|---|
| page allocator `mem/physmem.c` | `phys_bitmap` | `physmem_init`, `physmem_alloc_page`, `free_physical_page` | no page has two owners, none is lost |
| page tables `mem/paging.c` | table tree, `paging_active` | `map_page`, `unmap_page`, `walk`, `paging_init` | a walk finds what was mapped; running out of memory changes no translation |
| spinlock `mem/spinlock.c` | `locked`, interrupt enable | acquire, release | sections are exclusive and atomic |
| process table `proc/process.c`, `control.c` | `proc_table`, `current_process`, `next_pid` | `alloc_proc`, `free_proc`, `fork`, `exit`, `wait`, `sleep`, `wakeup` | a slot has its pages exactly while in use; zombies wait for their parent |
| scheduler `proc/scheduler.c`, `switch_context.S` | `current_index`, contexts | `yield`, `scheduler`, `context_switch` | the scan skips nobody; a dead process is never dispatched |
| traps, PLIC, system calls `trap/`, `sys/` | trapframe, device registers | `kerneltrap`, `syscall` | each cause reaches its handler |
| log `fs/log.c` | header and blocks on disk, `log.lh`, counts | begin, write, end, commit, recovery | a transaction is complete or absent after a crash |
| buffer cache, block layer `fs/buffer.c`, `block.c` | buffers, flags, counts, LRU list | `buf_get`, `buf_release`, pin, unpin, read, write | one current copy of a block |
| sleeplock `fs/sleeplock.c` | `locked`, `pid` | acquire, release, held | one holder, and it is known |
| VirtIO driver `fs/virtio_disk.c` | descriptors, rings | `virtio_disk_rw`, `virtio_disk_intr` | each request gets its own answer |
| inodes `fs/inode.c` | inode cache, dinodes | alloc, get, lock, update, put, read, write | counts exact, copy current, no free under use |
| open files `fs/file.c`, pipe ends | `ftable` | alloc, dup, close, read, write | counts exact, pages of pipes accounted for |
| pipe `fs/pipe.c` | circular buffer, counters, ends | alloc, read, write, close | a queue with end of file |
| console, printk, UART, kpanic `io/` | the UART's transmit register | `printf`, `printk`, `panic`, `uart_putchar` | which numbers arrive readable; only interrupts and ticks can lose a character |
| user library `user/ulibc`, `include/user/syscall.h` | none that outlives a call | `u_printf`, `u_itoa`, `u_atoi`, `u_write` | results say what was handed over |

How they interact. `kernel_main` starts memory, then processes, then the
scheduler. Everything that waits calls `sleep()` with a spinlock and is woken by
`wakeup()`, which scans the process table. Files call pipes or inodes; inodes
call the block layer inside log operations; the log pins buffers of the cache;
the cache calls the driver; the driver sleeps until `virtio_disk_intr`, which nothing
calls. `fork` and
pipes take pages from the allocator.

What is hard: sleeping and waking (the wakeup may come too early, and wakes
everyone), crashes between disk transfers, buffers and inodes that are recycled
or freed while somebody is about to use them, fixed tables that run full half-way
through an operation, counters that wrap, and requests the device answers in its
own order.

## 2. Modules

| module | models | built on |
|---|---|---|
| `PhysMem` | page allocator, as operators on the set of free pages | |
| `Proc` | process table, scheduler, timer branch, pages of processes | `PhysMem` |
| `ProcProofs` | its theorems, and those of `Paging`, with that it implements `AddressMap` | `Proc`, `Paging`, `TLAPS` |
| `AtomicDisk` | what the log promises: transactions change blocks all at once, a crash loses whole ones | |
| `Log`, `MCLog` | log over a coarse cache and the disk, crash, recovery; implements `AtomicDisk` | `AtomicDisk` |
| `LogProofs` | its theorems | `Log`, `TLAPS` |
| `BufCache`, `MCBufCache` | cache with its LRU list, sleeplocks, block layer | |
| `BufCacheProofs` | its theorems | `BufCache`, `TLAPS` |
| `Virtio` | descriptors, rings, device, interrupt handler | |
| `VirtioProofs` | its theorems, and those of `Output` on the serial line | `Virtio`, `Output`, `TLAPS` |
| `Channel` | what a pipe promises: a bounded queue, end of file | |
| `Pipe` | circular buffer, counters, readers and writers; implements `Channel` | `Channel` |
| `PipeProofs` | `Pipe` implements `Channel` while the counters do not wrap | `Pipe`, `TLAPS` |
| `Inode` | inode cache and dinodes | |
| `Files`, `MCFiles` | open files over inodes and over the pages and ends of pipes | `Inode`, `PhysMem` |
| `AddressMap` | what page tables promise: each space a partial function | |
| `Paging`, `MCPaging` | page tables: create, free, walk, map, unmap; implements `AddressMap` | `PhysMem`, `AddressMap` |
| `FilesProofs` | theorems about the table of open files, the pages of pipes and the inode cache | `Files`, `TLAPS` |
| `ByteFile` | what an open file promises: bytes, and a position behind the last one moved | |
| `FileIO`, `MCFileIO` | `file_read`, `file_write`, the block loops of `inode_read` and `inode_write`; implements `ByteFile` | `ByteFile` |
| `FileIOProofs` | its theorems, with that `FileIO` implements `ByteFile` | `FileIO`, `TLAPS` |
| `Spinlock` | spinlocks, the interrupt flag, the timer, below calls that take locks and pages | `PhysMem` |
| `SpinlockProofs` | its theorems | `Spinlock`, `TLAPS` |
| `Format` | the conversions of the three printers and `u_atoi`, as operators | |
| `Output`, `MCOutput` | printers, system calls, external interrupts and the PLIC, down to the transmit register | `Format` |

State and actions. Variables are the C fields of the same name where TLA+ allows
it; a `pc` or `at` variable stands for the place in a function where a process
can be overtaken. One action is one stretch of code that nothing interrupts:

* a call of the process table (entered from `kernel_main` or from the trap
  handler, with interrupts off in both);
* code between `spinlock_acquire` and `spinlock_release` or `sleep()`;
* code that holds a buffer's or an inode's lock, when only the holder sees what
  it changes.

`sleep()` is two steps everywhere it matters: it releases its lock, and only
then becomes SLEEPING. `wakeup()` ignores its channel, as in the code, so a
sleeper is also woken by `OtherWakeup`, any wakeup elsewhere in the kernel.

Where one module stands on another it says what it takes for granted. `Log`
lets any clean unreferenced buffer be recycled, which includes every choice the
LRU list of `BufCache` makes. `BufCache` takes a transfer to be what `Virtio`
provides. `Files` sees dinodes through a cache in which a block has one current
copy, which is what `BufCache` shows, and takes `block_read` to succeed.
`FileIO` looks at one inode that `Files` has made valid, with offsets and bytes,
and there `block_read` may fail; its `log_begin_op` is `Log`'s admission.

`BufCache` has the three ways the log comes to the cache. `log_write` may refuse a
block (`Update`: the buffer is then changed, valid and neither pinned nor dirty, and
is remembered in `unlogged`). `write_log` copies the buffer to its log block (`copy`);
a turn that gets only one of its two buffers is skipped and leaves that one locked and
referenced (`left`). `Install` copies the log block back over the home buffer, whatever
stands there, and unpins it.

`Spinlock` opens the sections that the other modules take to be one action each.
A call is there a sequence of steps (acquire, release, sleep, wake; the test of a bit
of the bitmap, the read of its byte and the write of it), and a tick comes between any
two while interrupts are on, in the loop of `scheduler()` that `sleep()` has entered
too. `fork` and `wait` run with interrupts off; `pipe_alloc` and `pipe_close` reach the
bitmap after a `spinlock_release` that has turned them on (pipe.c:78-79). After a
dispatch, `scheduler()` stays in its loop, in the context it has dispatched, as the code
does, or returns to the caller. It answers what the other modules assume: `Exclusion`
holds, and no section can be cut but that of `log_write`, between the release of
`buf_pin`'s lock and its own, where it has only to count the block (`log.lh.n++`), which
nobody reads without the lock before the operation ends (`HangNeedsNesting`). Then the
next process that wants the log's lock hangs the hart, so no other module's states are
wrong because of it; they merely stop. The page operations are the exception:
`Files` takes `physmem_alloc_page` and `free_physical_page` to be one step, which is
right as long as neither is preempted (`WrongPageNeedsRelease`). `pipe_alloc`, which no
caller in the repository reaches yet, is taken to follow another file operation of the
same system call, whose release has turned interrupts on.

`Output` has one thread, another process to which a tick gives the hart, and on top of
either the interrupt handler. `Acknowledges` says whether the handler satisfies the
device that asks; in the code it does not (trap.c:90-98), so the source stays asserted
behind `plic_complete`. A device that is satisfied may ask again at once, so the value
TRUE has the behaviours of both. `SchedulerReturns` says whether the hart comes back from
the other process; in the code it does not. `UserPrint` has both numbers: the one
`u_printf` was called with, and the one it finds in memory behind `fmt`. The trap entry
code that saves registers is not in the repository (`kerneltrap` is a C function
with no prologue for traps): `Output` takes it to exist. `Format` keeps the widths
of C's types as parameters, so that a conversion meets its smallest and largest
argument on six-bit ints.

## 3. Runs

| run | instance | question |
|---|---|---|
| `proc` | 3 slots, 11 pages, 6 pids, every boot size, `scheduler()` in its loop or returning | table and pages stay sound; the scan starves nobody |
| `log_atomic` | 2 processes, 3 blocks, log of 6, cache of 9 | atomic across crashes, with a sufficient cache |
| `log_exhausted` | 2 processes, 2 blocks, log of 3, cache of 4, overrunning operations | write-ahead when the cache runs out |
| `pipe` | 2 readers, 2 writers, buffer of 3, calls of 1 or 2 bytes, 5 bytes | a bounded queue with end of file |
| `bufcache` | 3 processes, 3 blocks, 2 buffers | right block, one copy, alone; what brings older contents back |
| `virtio` | 3 processes, the 8 descriptors of the code, a handler that may be called | chains whole, right answer |
| `files` | 2 processes, 2 files, 1 inode entry, 2 inodes, 2 pages | counts exact, nothing freed in use |
| `paging` | 2 address spaces, 5 pages, tables of 2 entries, targets physical page 0 and another | each space a map of its own, each page one table or free |
| `fileio` | 2 processes, 2 open files, blocks of 2 bytes, files of 3, 12 and 16 bytes, calls for -1, 3 or 12 bytes, 3 calls, one failing block | a byte sequence, exact offsets, transactions in their reservation, who leaves `addrs` |
| `output` | ints of 6 bits, longs of 8, 2 calls, devices that ask again and again | which numbers are readable, results right, what may get lost |
| `spinlock` | 2 processes, 2 pages, all eight calls | exclusion, when the hart hangs, when a page goes wrong |
| `pipe_lost_wakeup` | 1 reader, 1 writer | *violation:* asleep on a pipe that holds data |

Nine more configurations stand beside these for a reader who wants to see a
counterexample; each checks one property that a document states and the code does not
have, and TLC finds it violated within seconds. They are named in section 5:
`Proc_two_running`, `MCLog_torn`, `Pipe_close_unnoticed`, `Virtio_unanswered`,
`MCPaging_zero`, `MCFileIO_outside`, `MCOutput_smallest`, `MCOutput_argument`,
`MCOutput_again` (`tlc -config Proc_two_running.cfg Proc`, and so on).

The bounds, and why they are enough:

* `proc`: three slots give a grandparent, a slot that is reused, and a process
  that is neither caller nor target; 11 pages are three processes of three pages
  and the two pages `kernel_main` keeps, and smaller memories (the boot sizes)
  make every `fork` fail after zero, one and two pages. `MaxPid` allows a slot to
  be used twice.
* `log_atomic`: a log of 6 blocks holds one reserved operation of 3 and not two,
  so admission waits; two processes give the last and the not-last end. Blocks of
  two values show a mixed transaction. Crashes are possible at every state,
  recovery included. `log_exhausted` makes `NBUF` smaller than what two
  transactions dirty.
* `pipe`: a full buffer, an empty one, a call longer than the space that is left,
  and an index that goes round; `Width = 6` is the counter's width in place of
  2^32 and is not reached, see section 6.
* `bufcache`: three blocks over two buffers make every get a possible recycling,
  and two processes compete for a buffer that a third recycles.
* `virtio`: 8 descriptors serve two requests, in any order, and leave the third
  short of one.
* `files`: one entry is the hardest case for recycling and for the full cache;
  two inodes let the entry change its inode; two files are one pipe, or two halves
  of two failing ones. `MaxRefs = 2` gives a shared file, and no property depends on it: the descriptors
  of a file are counted as a set. That two entries never hold one inode is proved
  instead.
* `paging`: a space with one mapping takes three pages and with two distant ones
  five, so walks fail at every level while another space holds tables; the four
  virtual pages share all tables, two levels, or the root only. Pages start with
  any contents, so a table that is not cleared shows. `ZeroPage` is the page at physical
  address 0, which is a target of `paging_init` and no page of the allocator.
* `fileio`: chunks of one block (`MAXOPBLOCKS = 6`) make a call for 3 bytes take two
  transactions and one for 12 six; after 3 bytes the offset is inside a block, and a
  chunk touches two; 12 bytes fill all six direct blocks, 3 leave half of one, 16 need
  the indirect one; `NINDIRECT = 2` puts the size limit past the array, as in the code. A log of 12 admits both
  processes at once.
* `output`: -32 and 31 are the ends of a six-bit int, -128 that of a long; 40 and
  63 need a register wider than an int. Interrupts of two sources come one after the
  other or together, at every place, any number of times, and a tick wherever they
  are on. Each printer has one number in one text, so that `Told` can read it back; the
  second call meets what the first has left in the register. The run has
  `SchedulerReturns = FALSE`, the code's mode; `LostOnlyIfCut` is proved for both.
* `spinlock`: two pages of one byte are needed for a byte written back over
  another page's bit; two processes are the preempted one and the one that meets what
  it left. Three processes over one page give the same answers (3 million states), and
  the theorems are for any number.

A state predicate `TypeOK` stands in every module; `proc` checks Proc's, which has
a theorem. The type invariants of the others are conjuncts to reach for when a
change breaks something else.

`CHECK_DEADLOCK FALSE` is set where the system really may stop: `proc` (`exit` ends in
a loop of `wfi` with interrupts off), `pipe` and its violation run (all ends closed, or
all asleep), `fileio` and `output` (the calls are used up, `panic` halts), `spinlock`
(the hart hangs).

Each property has a mutant in `PROJECT.json`: the definition next to it in the
module that changes the code the way a slip would (`HasRoomOffByOne`,
`UnlinkedOrNamed`, `TriedStoresSuccess`, ...), under which TLC finds the property
violated.

### Fairness

The code justifies little of it. No code programs a timer, a hart halted by `exit` has
interrupts off, nothing answers the disk, nothing acknowledges a device, and
`scheduler()` does not return. So only one passing run has a liveness property:

* `Proc`: the loop of `scheduler()` goes on (`WF` of `Scheduler`: `Skip`, `Dispatch`).
  Nothing is assumed of the timer or of the processes. `NoStarvation` is about the scan:
  *if* the hart comes back to the scheduler again and again, a RUNNABLE process is run.

Fairness stands besides that only where a counterexample needs it, so that it is not one
of a system that has simply stopped: in `Pipe` a process inside a call goes on when it
can (`FairSpec`; readers and writers are not made to call); in `Virtio` the device takes
and ends requests, and the handler is served if it is called at all; in `Output` the hart
goes on in the thread and the handler, and the UART sends. `Log`, `BufCache`, `Files`,
`Paging`, `FileIO` and `Spinlock` have none.

## 4. Proofs

`ProcProofs`, for every `NPROC`, `NUM_PAGES`, `MaxPid` and both scheduler modes,
from `NprocAssumption`, `NumPagesAssumption`, `MaxPidAssumption`, `ModeAssumption`:

* `TypeCorrect`: `Spec => []TypeOK`;
* `PagesAccounted`: no page is lost or shared;
* `DispatchableComplete`: what the scheduler may pick has its three pages;
* `CurrentLive`: the current process's slot is never freed;
* `ZombiesStayDead` (`OnlyWaitEndsZombie`, an action property): only the `wait()` of
  the process in its parent's slot ends a zombie.

None of the invariants is inductive alone. `PageAccounting` needs that the pages a failing `fork`
got are distinct and free (`BuiltPages`, from first-fit allocation); `CurrentIsLive`
needs that whoever calls `wait()` is alive, because otherwise the caller could be
the zombie its own `wait()` frees (`RunnerIsAlive`), and for that which state the current
process has in each `cpu` mode. The conjunction `IInv` of
these is the inductive invariant: `Init` implies it, each action preserves it by a
lemma of its own, and the theorems read the properties off it.

The second half of `ProcProofs` is about the page tables, which take pages from the
same memory, for any spaces, any set of indices in a table (512 in the code) and any
number of pages, with any targets, physical page 0 among them, from `VaddrAssumption`,
`TargetAssumption` and `NoSpaceAssumption`
(the names in `Paging` that `Proc` has too, `PagingInit` and so on, are prefixed because
one module proves things about both; likewise in `Output`, for `VirtioProofs`):

* `OneTableEach` (`TablePages`): each page is free or one table of one space;
* `ImplementsAddressMap` (`IsAddressMap`): `Paging` implements `AddressMap`.

Places (a root pointer, an entry of a root, an entry of a table below it) are there
made explicit, and the invariant `TreeInv` says that each page that is not free is at
exactly one place and a free one at none (`OnePlaceEach`). The property counts the
same places with `Cardinality` (`TreeCounts`). A walk is a sequence of up to two extensions, each of
them made or given up for lack of memory; `WalkSafe` is what every prefix of one
leaves: the invariant, and every translation as it was. For that a new table must be
cleared before anything reads it (`MiddleAdded`, `LastAdded`), whatever the page held, and
must be at no other place, or a store in one space would be seen in another
(`EntryWritten`). Hence a `map_page` that fails half-way is a stutter of the address map
and one that succeeds its `Map`, `unmap_page` its `Unmap` (`StepIsMapStep`).

`LogProofs`, for every number of blocks, contents and finite set of processes, and
every `LOGSIZE`, `MAXOPBLOCKS` and `NBUF` that `LogSizeAssumption` admits:

* `CommitsAlone` (`CommitIsAlone`) and `WritesAhead` (`WriteAhead`), whatever the
  cache has to give;
* `AdmissionSuffices` (`AdmittedFits`), for operations with fewer `log_write` calls
  than they reserved blocks: `log_write` leaves the last slot of the log unused, so
  with as many calls as blocks it can find the log full (section 5);
* `PinsMatchTheLog` (`PinnedExactlyLogged`) and `LogIsAtomic` (`AtomicTransactions`,
  the refinement of `AtomicDisk`), for such operations in behaviours with
  `CacheSuffices`: no turn of a commit is refused a buffer. Without it the property
  is false (section 5). Recovery needs no such condition: it holds one buffer at a
  time, and `LOGSIZE <= NBUF`. With the code's own numbers (`NBUF = LOGSIZE = 30`) the
  hypothesis is one on behaviours: a commit of few blocks meets it, the full log does
  not (`MCLog_torn`).

Two invariants carry these. `IInv` holds whatever the cache does: who is in an
operation, that the loops stay inside the header, and which header is on disk at
each stage (`DiskHead`), which is all `WriteAhead` takes. `Room` counts the
`log_write` calls still reserved (`Owed`, in the model, those that may still come) and gives
`AdmittedFits`. `Sound` needs both and `CacheSuffices`: log blocks before `tail`
hold what the cache does, homes before `tail` hold what the log does, and what is
not pinned is clean. The refinement maps the header write of a commit to
`AtomicDisk`'s Commit, the crash to its Crash, and everything else to a stutter, one
step of the proof for each action.

`BufCacheProofs`, for every finite set of processes, any blocks, contents and `NBUF`:
`NeverTwoCopies`, `GetsItsBlock`, `InsideAlone`, `CountsAreUsers`, and the action
property `OnlyWritesChange` (`NothingReverts`). They hold together or not at all: a
buffer is recycled only without references, so counts must be exact for nobody to
lose a buffer, and the block in it right for a count to be somebody's. `NothingReverts`
says that older contents come back for a block in `unlogged` only, one whose last change
`log_write` refused, and then those of the disk. Its invariant adds that a clean, unpinned,
valid buffer that is not `unlogged` holds what is on disk (`CleanIsDisk`), and that a
log block that `write_log` has written holds what its home buffer does
(`CopiesExact`): so the copy of `install_trans` changes nothing, also after skipped turns.
A turn of `write_log` that is skipped leaves the home buffer locked by the committing
process itself, which then sleeps on that lock in `install_trans` and never gets to copy.
The order of the LRU list is in none of it: it says which of the recyclable buffers
goes, and no theorem states that it stays a permutation.

`VirtioProofs`, for any processes and every ring whose size is 2 modulo 3 (8 is):
`DescriptorsAreExact` and `AnswersAreOwn`. The condition on the size is the code's
own: a shortage must leave two descriptors, or the loop over `idx` frees descriptors
that the attempt never took (section 5). The invariant therefore says that the
number of free descriptors is 2 modulo 3 (`FreeCount`), and that a head is in one of
the available ring, the device and the used ring, with a request that waits for it
(`HeadsExact`).

The second half of `VirtioProofs` is about the serial line, for all texts, counts,
descriptors, numbers of calls, interrupts without end and both modes of `scheduler()` that `OutputAssumption` admits (that a
program's count is within its text is what keeps `sys_write` inside it):

* `ResultsTell` (`ResultOfCall`): a write that returns n has stored its n characters.
  `CallInv` says of a call under way that what it has stored and what is left are the
  two parts of the text (`Copying`); no interrupt touches either.
* `LossNeedsACut` (`LostOnlyIfCut`, of which `Delivered`, that a call's text leaves
  the UART in order, is a part): unless `scheduler()` returns and a tick has come between a
  test and its store, the handler's characters are the only ones lost, and those only after
  an interrupt there. `LineInv` says what the register can hold at a store: nothing at
  the handler's, which is never interrupted; at another's nothing, or, if that was cut since
  its test, a character of the handler. With `scheduler()` as it is, a thread
  whose store a tick has cut never comes to that store.

`Told`, which numbers arrive readable, has these as its second half. Its first half,
what the conversions yield, stays with TLC.

`FilesProofs`, for every finite set of processes and any number of files and pages:
`PipePagesExact` (`PipePages`). Its invariant `TableInv` has the exact counts of
files; that the first file of an unfinished `pipe_alloc` has one reference and no type
(`FirstFile`); that a page being built is one process's (`OwnPage`); and, in place of
the cardinalities of `PipePages`, that an open end has one file or one closer, and no
two (`OneForEachEnd`).

The same module has the theorems about the inode cache:

* `InodeHasOneEntry` (`OneEntry`): an inode never has two referenced entries. The
  invariant is the property with the types of the three functions it reads: only
  `GetRecycles` makes an entry referenced, and only after a search, in the same
  critical section, found none. This one does not need finitely many processes.
* `CountsAreExact` (`CountsExact`), `OpenInodesAllocated` (`OpenInodeAllocated`),
  `CopiesCurrent` (`CopyCurrent`) and `TypesKept` (`TypeOK`), for every finite set of
  processes. They rest on one invariant, `FilesInv`, which is about the unlocked
  window of `inode_put`: who is in it has the only reference (`LastReference`), so no
  file and no other call is on its entry; a second reference could only come from
  `inode_get`, but a process that gets an inode without a name is its allocator, and an
  inode is allocated only when it is free (`SoleUser`). After the inode is erased
  the window holds no inode in use (`Owning` leaves "unlock" and "drop" out), which is
  why it may be allocated again by then. Its stale copy is the exception in `Shown`,
  and the lock keeps it from being used.

`FileIOProofs`, for every size of a block, of `addrs`, of the log and of a reservation,
any processes and open files, and files of every size up to the size limit, with or
without an indirect block, that `FileIOAssumption` admits:

* `ReservationKept` (`WithinReservation`): the blocks of a transaction are the inode's
  and those from the one in which its bytes begin up to `Whole` further on, wherever
  in a block they begin (`Together`), and `Whole + 2` is within `MAXOPBLOCKS`. That
  they lie together rests on the inode's lock: an offset moves only under it, so
  not under a call that has computed a block from it (`MoveKeeps`).
* `ArrayLeftByIndirect` (`ArrayLeftOnlyIndirect`): a loop that has bytes to go stands
  past the last element of `addrs` only in a file with an indirect block. In any other
  no turn goes past the last block the inode has, because `inode_write` stops where
  `addrs` is 0 (`TurnReaches`), and so no offset and no size does (`Reach`, `Allocated`).
  The test against `MAXFILE` plays no part in it.
* `FileImplementsByteFile` (`IsByteFile`): with a file of direct blocks, `FileIO`
  implements `ByteFile`; of a longer file, in which other blocks pass for data, the
  property says nothing. A turn of a
  write loop is a `Put` of the bytes it moves (`WritePuts`), a turn of a read loop a
  `Get` (`ReadGets`), the end of a call an `End`; every other step is a stutter,
  because what the loop has counted is taken over by the size (`UpdateStutters`) and by
  the offset (`OffsetTakesOver`) in full. The mapping adds to the file and its offsets
  what calls under way have moved; that at most one call has, the one in the lock,
  makes it readable (`View`). The invariant `FileInv` adds to the one above that a write
  begins inside the file, so it leaves no gap, and that a read's count was cut at the
  end, which is where the overflow test of `inode_read` is needed (`CutAtEnd`).

`PipeProofs`, for any readers, writers, bytes, buffer and call sizes that
`PipeAssumption` admits, under `MaxBytes < Width`: `PipeImplementsQueue`, that
`Spec => IsQueue`. The hypothesis says that fewer bytes are written than the counters
count (2^32 in the code); without it the theorem is false, since `pipe_read` compares
the counters with `<` (section 5). The three lemmas of the argument: what
`pipe_write`'s loop stores goes behind what is there (`Appended`), what `pipe_read`'s
loop copies is the front of it (`Taken`), and positions modulo the size are those of
consecutive bytes (`ModOfDifference`). The invariant `PipeInv` keeps `nwrite` from
wrapping: what has been copied and what the calls in progress have still to copy is
no more than what calls were accepted for (`Accounted`, where the bytes to copy are
counted as a set of pairs of writer and index). It also says that a reader in
`pipe_read` wants at least one byte and that nobody writes once the end is closed
(`Calling`), without which a read of nothing or a late byte would be no step of the
queue.

`SpinlockProofs`, for every `NPROC`, `NUM_PAGES` and every set `Used` of the calls,
from `SpinlockAssumption`:

* `LocksExclude`: `Spec => []Exclusion`;
* `HangsOnlyNested`: `Spec => []HangNeedsNesting`;
* `WrongPagesNeedRelease`: `Spec => []WrongPageNeedsRelease`.

`StepTable` reads the eight calls once: what a process holds is a function of its
place (`HeldAt`), an acquire is of a lock it does not hold, a release of one it
holds. The invariant `IInv` adds to `Exclusion` that each process holds what its
place says, that the running process can only be interrupted, and that any other
process only is, where it holds nothing or between the two releases of `log_write`
(`MaskedInside`, `IdleAway`). Without these two, a refused acquire could meet any
holder; with them the holder must be at that place, which is `HangNeedsNesting`.
`MoveKeeps` is the argument common to all steps of calls; each action cites it.

For `WrongPageNeedsRelease`, `PageInv` adds that `fork` and `wait` run masked from
their entry to their end, so that nobody is preempted in them (`MaskedStay`), and that
until a `pipe_alloc` or `pipe_close` has been cut each page is one caller's or free
(`PagesOnce`): who is about to mark or to free a page is the only one, and the byte it
has read is still what the bitmap holds (`AboutRight`).

The theorems over finite sets of processes have that as a hypothesis: the process
table has NPROC slots.

Only model-checked: `Told`, because what the recursive function of `Format` yields for
every number would take induction over data. Liveness (`NoStarvation`, and `ReadsEndAfterClose`, `RequestsAnswered` and `TextEnds`
with their counterexamples) and `ENABLED` stay with TLC, since the prover does not reach
them. So does that the
list of `BufCache` is a permutation: it is made with `SelectSeq`, which the prover
would have to do induction on.

## 5. Where the code and its documents disagree

Shown by a run: the lost wakeup (`pipe_lost_wakeup`, `findings` in `PROJECT.json`).

Shown by TLC with the configurations that are not among the runs:

* Two RUNNING processes on one hart (`OneRunning`, `Proc_two_running.cfg`): the loop of
  `scheduler()` goes on after a dispatch and leaves the previous process RUNNING
  (scheduler.c:46); process.h:20 says "En cours d'exécution sur le CPU".
* A torn transaction (`AtomicTransactions`, `MCLog_torn.cfg`, with `NBUF = LOGSIZE` as in
  param.h): `write_log` skips a block whose buffer cannot be had (log.c:204) and the
  commit writes the header all the same; log.h:4 says "une transaction est soit
  complète, soit absente du disque".
* A read that never ends (`ReadsEndAfterClose`, `Pipe_close_unnoticed.cfg`): `pipe_close`
  wakes the readers while one has released `pi->lock` and is not yet SLEEPING
  (control.c:148); pipe.c:71 says "Réveiller les lecteurs bloqués".
* A disk request that is never answered (`RequestsAnswered`, `Virtio_unanswered.cfg`):
  `kerneltrap` only prints (trap.c:93); virtio.h:18 says of `virtio_disk_intr` "appelée
  depuis plic / kerneltrap". With a handler that is called, the lost wakeup is still
  there (virtio_disk.c:200).
* A mapped page that is answered as not mapped (`AnswerTellsMapped`,
  `MCPaging_zero.cfg`): `walk_page_table` answers 0 for both (paging.c:113-117), and
  `paging_init` maps physical page 0 (paging.c:154-161); paging.c:110 says "Translate
  virtual address to physical address".
* A file with an indirect block (`AddressInArray`, `MCFileIO_outside.cfg`): `inode_lock`
  takes the size from disk (inode.c:160-163), `inode_read` takes `addrs[12]`, the number
  of the indirect block, for one of data and goes on behind the array (inode.c:264);
  inode.h:27 says "NDIRECT directs + 1 indirect".
* The smallest int (`SignedShown`, `MCOutput_smallest.cfg`): `print_int` negates it and it
  stays negative (console.c:32); console.c:143 says "%d  - entier décimal signé".
* Arguments that nobody passed (`ArgumentShown`, `MCOutput_argument.cfg`): `u_printf` reads
  memory behind its parameter `fmt` (ulibc.c:131), where RISC-V callers put nothing;
  ulibc.c:130 says "Accès aux arguments variadiques manuellement".
* An interrupt without end (`TextEnds`, `MCOutput_again.cfg`): `kerneltrap` completes an
  interrupt whose device still asks for it (trap.c:97), and the interrupted text never goes
  on; plic.c:53 says "Signaler au PLIC que l'interruption a été traitée".

`WaitReapsOwnChild` of `Proc` fails under the constants of `Proc.cfg`: a process collects a
child it never forked, when the child's parent has died and been collected and a third
process has its slot, for `wait()` knows a child by the slot it points at (control.c:129);
control.h:19 says "Attendre qu'un enfant se termine". It needs processes that run again
after `yield()` or `sleep()`, which `scheduler()` as written does not give.

Shown by what a passing run's property has to exclude:

* The smallest int is printed as "-(" by `print_int`, "--(" by `printk`, "-" by
  `u_itoa` (`Unshown` in `Output`). `printf` reads an `unsigned int` for `%u` and
  `%x` as 64 bits, which RISC-V callers have sign-extended, so that values from
  2^31 on show as 20 digits.
* The hart hangs over a lock that is merely contended (spinlock.c:21, which says
  "double acquire"); it happens after a preemption inside `log_write`, because
  `spinlock_release` turns interrupts on under an outer lock (spinlock.c:46).
* A page gets two owners, is freed in use or is lost when a tick comes inside the
  read and write of its byte (physmem.c:24, 32), or between the test and that, in a
  `pipe_alloc` or `pipe_close` that has released a lock before.
* A handler that prints can lose characters of its own message, when it interrupts
  `uart_putchar` after the test; `panic` leaves interrupts on (kpanic.c:30). Were
  `scheduler()` to return, processes would lose each other's.
* A block whose `log_write` was refused goes back to its contents on disk when its
  buffer is recycled (log.c:139-149; `unlogged` in `NothingReverts`).

Met while modelling:

* The count `vprintk` returns is not the "number of characters printed" of
  printk.h:8: a zero resets it to 1 (printk.c:60), `%u` and `%x` count 1 or the
  width, `%p` always 10. A width pads nothing but a zero (printk.c:137-145).
  `%p` shows 32 bits of a pointer.
* `paging_init` maps physical 0 to 128 MB, and the pages of the allocator start at
  0x80000000 (layout.h:15, 30): it maps none of them.
* A format that ends in % runs past its end in `printf` and `u_printf`
  (console.c:165, 231; ulibc.c:140, 174).
* `kerneltrap` does not keep `sepc` over `yield()` (trap.c:74, 85), and nothing
  stores registers in the trapframe whose `a7` `syscall()` reads (syscall.c:152).
* `sys_wait` passes the address 0 (syscall.c:69).
* `file_read` with n = -1 asks for 2^32 - 1 bytes (file.c:106): refused by the
  overflow test at any offset but 0, where it reads the whole file.
* `wait()` returns -1 at once when no child is dead (control.c:136);
  RAPPORT_BLOC3_PROCESSUS.md:728 has it wait.
* `exit()` leaves its children with a dead parent (control.c:106-118); user/init.c:12
  speaks of adopting orphans. It ends in `wfi` (control.c:120), not in the scheduler.
* `scheduler()` never returns (scheduler.c:34-54), so neither do `yield()` and
  `sleep()`; hence the constant `SchedulerReturns`.
* The lost wakeup is in `log_begin_op` as well (log.c:86, 117).
* `log_write` refuses the last block of operations that stay inside their
  reservation, when they fill the log: the log area has LOGSIZE - 1 slots
  (log.c:139), the reservation counts LOGSIZE (log.c:88).
* The status byte of a disk request is printed, not acted on
  (virtio_disk.c:229-237); virtio_disk.c:13 lists checking it.
* With a ring size that is not 2 modulo 3, `virtio_disk_rw` would read elements of
  `idx` that no attempt has set (virtio_disk.c:156); with 8 a shortage always finds
  exactly two descriptors.
* When `inode_get` finds the cache full, `inode_alloc` has already taken the dinode
  (inode.c:77-80) and nothing gives it back. An inode that is put before it was ever
  locked is not freed either, because its entry is not valid (inode.c:216).
* `inode_lock` returns with the lock held and the entry not valid when `block_read`
  fails (inode.c:152), and its callers go on with the fields of the entry's previous
  inode.
* `inode_write` admits files of MAXFILE blocks (inode.c:291), `addrs` has NDIRECT + 1
  elements; in a file without an indirect block the loop stops before the end only
  because no block is ever allocated (`ArrayLeftOnlyIndirect`).
* `file_write` returns -1 after it has advanced the offset over complete chunks
  (file.c:134-144).
* `pipe_read` compares counters with `<` (pipe.c:123): once `nwrite` has wrapped and
  `nread` has not, it reads nothing from a pipe that is not empty. With
  `Width <= MaxBytes` the `pipe` run shows it.

The kernel as it stands: `kernel_main` calls neither `trap_init`, `plic_init` nor
`fs_init`; the boot code never leaves machine mode, in which `satp` is ignored;
after `paging_init`, `create_page_table` writes through `phys_to_virt`, to an
address that is neither memory nor mapped; `kerneltrap` saves no registers, and
its VirtIO branch does not call `virtio_disk_intr` (trap.c:93). The modules
describe the subsystems as their callers and headers use them, not this boot.
In particular the transfers of `Log` and `BufCache` are those that end, and `Virtio` has
a handler that may be called (`HandlerCalled`): what they show of safety holds all the
more when none ever is.

## 6. Not modelled, and why

* **Table addresses after `switch_page_table`** (`phys_to_virt`), and what the
  hardware would make of the tables: `MAKE_PTE` keeps the address in place, where
  SV39 expects it shifted, and `satp` is ignored in machine mode. `Paging` is the
  tables as the kernel's own `walk` reads them. `free_page_table` releases the root
  only; `free_proc`, its one caller, releases tables in which nothing was mapped, and
  so does the module.
* **Context switch**: the registers it saves are no state a property reads, and the
  way it is used never returns (section 5). `Proc` and `Spinlock` have both modes,
  staying in the loop of `scheduler()` and returning from it; the modules above them let
  a process that was woken go on, which is a superset of what the code does.
* **Exceptions and `usertrap`**: they print and stop.
* **Failing block reads in `inode_lock`** (see section 5); `FileIO` and `Log` have
  failing reads elsewhere. `inode_init`, which no one calls.
* **Input** (`uart_getchar`, `uart_available`) and `uart_hexdump`, `uart_write`: no
  caller.
* **Device start-up** (`virtio_disk_init`, `plic_init`, `uart_init`): register
  writes.
* **Strings** (`string.c`, the `u_str` and `u_mem` functions): loops over memory of
  one caller.
* **32-bit wrap of the pipe's counters** in the passing run (see above), and of
  `next_pid`.
* `free_pages_count`, names, sizes and exit codes: nothing but output reads them.

## 7. Plan

Done, in this order: `Proc` with `PhysMem` and its proofs; `Log` with `AtomicDisk`;
`Pipe` with `Channel`; `BufCache`; `Virtio`; `Inode` and `Files`; `Paging` with
`AddressMap`; `FileIO` with `ByteFile`; `Format` and `Output`; `Spinlock` and its
proofs.

Next modules: `alloc_proc` under preemption, in the manner of `Spinlock`; a machine
module with contexts and with table addresses after `switch_page_table`, once the
kernel leaves machine mode. Once disk interrupts are served and devices acknowledged,
`RequestsAnswered`, `TextEnds` and the end of a commit become liveness properties to
check under that fairness.

Proofs so far: all safety properties that the passing runs check, except `Told`; `Log`
implements `AtomicDisk`, `Pipe` implements `Channel`, `FileIO` implements `ByteFile` for a
file of direct blocks, `Paging` implements `AddressMap`.
