# AxeialOS: models, checks and proofs

AxeialOS is a small AMD64 kernel in C that runs on several CPUs. This directory
holds TLA+ models of its core, the TLC configurations that check them on small
instances and TLAPS proofs that hold for every size.

* [1. The system](#1-the-system)
* [2. The modules](#2-the-modules)
* [3. What is checked](#3-what-is-checked)
* [4. Where the code and its comments disagree](#4-where-the-code-and-its-comments-disagree)
* [5. What is proved](#5-what-is-proved)
* [6. What is not modelled](#6-what-is-not-modelled)
* [7. Plan](#7-plan)

`PROJECT.json` is the index: the components, the runs, the source lines of every
definition (`map`), the hazards and which properties meet them, and the theorems.

## 1. The system

The kernel's own code is `Kernel/` (about 19,600 lines of C), the loadable modules in
`BootImg/`, their libraries in `KModLibs/`, the system-call stubs in
`CLibrary/userland` and the programs in `SysApps/`. The rest of `CLibrary/` (newlib),
`limine/`, `Boot/` and `Firmware/` are third-party code or data.

### Components

| Component | State | Operations | What makes it correct |
|---|---|---|---|
| Physical memory manager (`PMM/`) | bitmap of frames, allocation hint, counters, regions of the boot map | `InitializePmm`, `AllocPage(s)`, `FreePage(s)` | no frame handed out twice or lost, counters agree with the bitmap, failure only when there is no room |
| Spin locks (`Sync/Spinlocks.c`) | lock word, owner CPU, one slot of saved flags per CPU | acquire, try, release | exclusion, a holder is never displaced, the caller's interrupt flag comes back |
| Mutex (`Sync/Mutexes.c`) | lock word, owner CPU, recursion count | acquire, try, release | exclusion between CPUs, nested calls counted exactly |
| Semaphore (`Sync/SemaPhores.c`) | count | acquire, try, release | units neither lost nor made up |
| Threads and scheduler (`AxeThreads/`) | thread blocks, four intrusive queues per CPU, `ThreadList`, `CurrentThreads` | create, execute, sleep, exit, suspend, resume, destroy, `Schedule` | every thread is in one place, runs on one CPU, and runs again |
| Timers (`Timers/`) | tick counter | `TimerHandler` | every tick wakes the sleepers and schedules |
| Kernel heap (`KHeap/`) | slab caches and their free lists | `KMalloc`, `KFree` | blocks are disjoint, a freed block goes back to its slab |
| Virtual memory (`VMM/`) | four-level page tables | map, unmap, create and destroy a space | no frame in two spaces unless shared, destroying frees what was owned |
| Descriptors and pipes (`Proc/ProcFD.c`) | table of entries with reference counts, ring buffers | open, close, dup, pipe, read, write | a pipe lives as long as an end is open, bytes arrive in order |
| VFS (`VFS/`) | mounts, registered file systems, open files, `VfsLock` | mount, unmount, open, close, resolve | `VfsLock` is free after every call, a path resolves to its mount |
| RamFS and boot image (`RamFS/`) | tree of nodes | populate from CPIO, read, write, list | the tree is the archive |
| Processes and signals (`Proc/`) | process table, parents, zombies, pending signals | fork, exec, exit, wait, kill | a zombie is reaped once, a waiting parent wakes up |
| ProcFS (`Proc/ProcFS.c`) | cache of directories by pid | notifications, look-up, writes that stop, continue, signal or exec | no directory of a freed process |
| Loaders (`Proc/VirtBin/`, `BootImg/ELFLoader`) | registry of loaders | register, probe, load | a page holds the file's bytes or zeroes, nobody else's data |
| Device registry (`DevFS/`) | table of devices, open files | register, unregister, open | no open file points to a freed entry |
| Block and character devices (`BlocksDevs/`, `CharsDevs/`) | disks and partitions | register, transfer | a device file is a stream of bytes, a partition's file stays in it |
| Kernel modules (`DynLinker/`, `KMods/`) | module list, two memory cursors | load, link, unload | a running module's pages are its own, a removed one's code is unreachable |
| System calls (`Syscalls/`) | dispatch table, breaks | argument passing, `brk`, `mmap` | the heap below the break is mapped |
| SMP start-up (`SymMultiProc/`) | started-CPU counters | start, hand-shake | |
| Interrupt tables (`Interrupts/`) | GDT, IDT | dispatch | |
| Console, serial port, firmware blobs, string library, drivers, user programs | device registers, buffers | output, parsing, I/O | |

### How they interact

Every CPU runs threads and, when its APIC timer fires, `TimerHandler`, which wakes
sleepers and calls `Schedule`. The handler and the threads take the same spin locks, so
taking one masks interrupts. `Schedule` switches threads by replacing the interrupt frame
that `iretq` returns through. Thread blocks, page tables, slabs and file objects come from
the kernel heap, which takes its pages from the physical memory manager. Processes own
threads, an address space and a descriptor table; descriptors lead into the VFS, pipes or
the device registry; the VFS runs under one recursive mutex.

### What is hard here

* Interrupts arrive between any two instructions of a thread that has them enabled, and
  what the handler does (switch threads, wake sleepers, destroy zombies) changes the state
  that the thread was working on.
* CPUs put threads on each other's queues.
* The queues and `ThreadList` are intrusive and share the fields `Next` and `Prev`.
* Per-CPU slots (saved flags, mutex owner) are used for facts about one thread.
* Allocators keep redundant state (counters, hint, bitmap) that must not drift apart.
* Several functions have early returns inside a critical section.

* Multi-step operations (fork, exec, brk, a module load, a transfer over several blocks) run
  out of memory half way, and most of them undo nothing.
* Structures are found by number or by name after a step in which they may have been freed.

`PROJECT.json` lists the hazards at their lines. Those without a property are the ones that the
code does run into; section 4 describes them.

## 2. The modules

| Module | Models | Notes |
|---|---|---|
| `Pmm` | `PMM/PMM.c`, `Bitmap.c`, `MemMap.c` | the bitmap is kept word by word |
| `KHeap` | `KHeap/KHeap.c`, `Slab.c` | extends `Pmm`, whose steps it takes; free lists as sequences of addresses |
| `AbstractLock` | - | what a lock promises: one holder, taken when free, given up by the holder |
| `SpinLock` | `Sync/Spinlocks.c`, with the interrupt and thread switches that surround it | one step per atomic operation or change of `IF` |
| `Mutex` | `Sync/Mutexes.c` | one step per access of a shared field |
| `Semaphore` | `Sync/SemaPhores.c` | one step per atomic operation |
| `Scheduler` | `AxeThreads/Scheduler.c`, `ThreadMGR.c`, `Timers/TimerCtl.c` | the lists as `Next`/`Prev` links; one step per critical section |
| `RamFs` | `RamFS/`, `VFS/VfsRamFs.c` | operators on a tree of nodes; no behaviour of its own |
| `Vfs` | `VFS/VFS.c` | extends `RamFs`; one step per call, creation in up to three |
| `AbstractPipe` | - | what a pipe promises: a bounded queue of bytes |
| `FdTable` | `Proc/ProcFD.c` | extends `Vfs`, whose calls it makes |
| `Vmm` | `VMM/`, `Proc/VirtBin/VLoader.c`, `BootImg/ELFLoader/ELF.c`, the space-related half of `Proc/Proc.c`, `brk`, `mmap`, `munmap` of `Syscalls/SysTbl.c` | one step per call |
| `Process` | the process-table half of `Proc/Proc.c`, `Proc/ProcFS.c`, the writers of `Proc/ProcHelp.c` | fork, exit and wait4 split where they race |
| `AbstractDisk` | - | what a block device's file promises: a position in a row of bytes |
| `DevFs` | `DevFS/DevFS.c`, `BlocksDevs/`, `CharsDevs/`, the terminal's ioctl | one step per block of a transfer |
| `KMods` | `DevFS/DevInitMgr.c`, `DynLinker/Linker.c`, `KMods/` | extends `DevFs`; one step per section of a load |
| `MCPmm`, `MCKHeap`, `MCSpinLock`, `MCMutex`, `MCScheduler`, `MCVfs`, `MCFdTable`, `MCVmm`, `MCProcess`, `MCKMods` | - | instances for TLC |
| `KHeapProofs`, `SpinLockProofs`, `SyncProofs`, `SchedulerProofs`, `VmmProofs`, `FilesProofs`, `ProcessProofs`, `KModsProofs` | - | theorems; `KHeapProofs` is about `Pmm` and `KHeap`, `SyncProofs` about `Mutex` and `Semaphore`, `FilesProofs` about `RamFs`, `Vfs` and `FdTable`, `KModsProofs` about `DevFs` too |

`SpinLock` and `Mutex` are each related to `AbstractLock` by a refinement mapping.
`Scheduler` takes from `SpinLock` what is shown there, that a critical section is not
interrupted on its own CPU and excludes the other CPUs, and makes it one step. `Vfs`
takes from `Mutex` that a CPU is let in when no other CPU holds `VfsLock`, and how often a CPU
holds it; that the threads of one CPU make their calls one after another is its own abstraction,
since the mutex does not keep them apart (section 4). `FdTable` and `KMods` compose: their steps are the conjunction of their own update with
the step of the module below.

Definitions whose name is that of the next definition with a suffix after an underscore
are seeded faults: each is a plausible slip in the definition it stands next to, and breaks a property that the real definition satisfies.

### Pmm

State is the `Pmm` structure of the code, plus `lent`, the pages that callers hold, and
`last`, the last call with its result. `InitializePmm` takes a memory map, keeps the first
`MaxMemoryRegions` entries, computes the number of pages, chooses where the bitmap goes,
marks and counts; its failures (`phase = "failed"`) are "no entry" and "no room for the
bitmap". `AllocPage` scans from the hint and wraps around; `AllocPages` rejects a request
that the counters say cannot be met, then scans from page 0; `FreePage` ignores addresses
that are zero, unaligned, beyond memory or already free. Callers may pass any such address,
a stale one included, but not a page that somebody else holds: that would be a fault
of theirs which no allocator can detect.

Every call is one step. `PMM.c` has no lock, so overlapping calls are a hazard of the code
that this module does not cover; it asks whether the algorithm is right when they do
not overlap.

### KHeap

`Caches` has the list of slabs of each cache, `slabs` the header of each slab (object size,
free count, free list) by the page it lies in. `live` and `heapPages` are bookkeeping of the
model: the blocks that callers hold and the pages that the heap took. `KMallocLarge`,
`KMallocObject` and `KMallocNewSlab` are the three ways through `KMalloc`, `KFreeObject` and
`KFreeLarge` the two through `KFree`; each takes the steps of `Pmm` that the code calls.
`OtherUsers` are the rest of the kernel, which takes and returns pages meanwhile.

Callers free only what they hold. A double free links an object twice into its list, and
the heap has no means to see it (`FreeObjectMagic` is written and never read). `KFree`
finds out whether a page is a slab by its magic number; slabs are never returned to the
manager, since `FreeSlab` has no caller, so no page keeps the number from an earlier use, and
callers are taken not to start a block of their own with it. `KFree` of a block of
several pages returns the first one only, as the code does.

### SpinLock

The contexts are threads and one interrupt handler per CPU. `MaskInterrupts`,
`CompareExchange`, `RecordOwner` are `AcquireSpinLock`; `ForgetOwner`, `Unlock`,
`RestoreFlags` are `ReleaseSpinLock`. `Interrupt` happens at any point of a thread while
its CPU has `IF` set, clears `IF` and keeps it in the thread's frame; `ReturnFromInterrupt`
resumes any thread of that CPU. `SavedFlags` has one slot per CPU, as in the code.
`MaxNesting` says how many locks a context holds at once, and locks are taken in a fixed
order. `TryThreads` are those that call `TryAcquireSpinLock`, which masks nothing.

### Mutex

Every plain load or store of `Owner`, `RecursionCount` and the lock word is a step. The
mutex masks no interrupts, so two threads of one CPU interleave like threads of two CPUs;
what differs is only the CPU number that they compare with `Owner`. `RecursionCount` wraps
at `CounterRange`. The history variable `intruded` becomes true when a thread that does not hold
the mutex passes the test of `Owner`, which one of the holder's CPU can do; it and the holder
then go on, and the model with them. `IntrudersShareCpu` speaks of that step; the other two
properties hold until it is taken.

### Semaphore

The load, the test and the compare-exchange are separate steps. `WaitQueue` is initialised
and never used by the code: waiters spin.

### Scheduler

`tcb` holds the thread blocks with their links, `sched` the per-CPU queues and counters,
`frame` which thread's code a CPU executes and where it stands in it, `pc` whether the CPU
is in thread code or at which critical section of the handler. `TimerInterrupt`,
`TimerHandler`, `SaveCurrent`, `SelectAgain`, `CleanUp`, then one of `Idle`, `CoolDown`, `Run` are one
timer interrupt. What such a step stores outside its critical section is stored with it:
`AddThreadToReadyQueue` clears the links before it takes the lock (`Scheduler.c:30`), and `Run`
stands for the stores from the removal to `SetCurrentThread` (`Scheduler.c:577`), with interrupts
off and to fields that no other CPU reads, or, like `State`, writes over what a call of another CPU
has stored in between. `CleanUp` destroys all zombies it has detached. The calls of thread code are split where the code can be interrupted:
`CreateThread` before the unprotected store of the list head, `ThreadExecute` between
choosing the CPU and queueing, `ThreadSleep` between the state and the wake-up time,
`ThreadExit` between the state and the queueing. `int $0x20` is a timer interrupt at that
position. A walk of a list that has become cyclic never ends; such a step is disabled and
the CPU hangs, as it does in the code.

`CONSTANT Calls` selects which calls besides `CreateThread` and `ThreadExecute` thread code
makes. It exists because `ThreadExit` and `DestroyThread` corrupt the queues (section 4), and
because a thread that `SuspendThread` stops need not run again. The run of the queues has
neither; the theorems about the queues have every call but `ThreadExit` and `DestroyThread`;
`scheduler_calls` has every call but `ThreadSleep`.

### RamFs and Vfs

`nodes` is the RAM file system's tree, built once from the archive's entries (`RamFSMount`) and
extended by creations; `Archive` is the list of entries, because the parsing of CPIO bytes is
data. A path is a sequence of components and a component a sequence of characters, since
`__find_mount__` compares strings: `/m` is a prefix of `/mx`. `mounts`, `fsReg`, `root`, `live`
and `spare` are the VFS's tables; `files` the open files with the two positions that the code
keeps for each, `File->Offset` and the RAM file system's own.

A node has `count`, the code's `ChildCount`, and `children`, the slots of `Children` that were ever
filled. The two differ: of two creations that overlap the slower one may store its node at a
slot that it loaded before the other's, and then sets `ChildCount` back to the slot after that one.
What lies beyond is no longer counted, but still there when the count grows over it.

Every call is a step of one CPU. What it does to `VfsLock` is the operator's last
argument or its `...Leak` operator: the number of acquisitions that it returns without giving
back, which for many error paths, and some successful ones, is one or two. `held` adds
them up, and a CPU is let in only while no other one holds the lock. The acquisitions and releases
inside a call are thus counted, not modelled, and no property speaks of the count. `VfsCreate` and
`VfsMkdir` release the lock before they call the file system: `StartCreate`, `AttachFind` and
`AttachFinish` are the call, the search for the directory and the slot, and the link, and
other CPUs run in between. `VfsMkpath` creates with the lock held (`VFS.c:650`), in the same two
steps, since the creations of other CPUs do not wait for it, and `AttachFinish` gives the lock back
if the path was made. Calls that only read are steps as well, for what they do to the lock. Of the
allocations in these calls, those of nodes, superblocks and open files may fail; those of
dentries succeed.

`Mixes` selects which groups of calls a behaviour makes together (mounts with readers,
creations with open files), because all groups at once are out of reach. What is
undefined is not explored: once the vnode of the global root is freed, no call is modelled.

### FdTable

`fds` are the entries with their own reference counts, `pipes` the ring buffers, and `opens`,
`birth`, `shared` record which opening an object belongs to and whether two descriptors ever
pointed to it. File and pipe structures are reused after they are freed, as the heap does.
`PosixDup2` onto an open descriptor takes the table's lock twice: `stuck`, after which the
process makes no more calls. A use of freed memory that has not been reused is undefined, and
disabled.

### Vmm

`mem` holds the content of every frame, page tables included, so that a table that is reused
as a page, or the other way round, shows. `free` is what the page allocator can give, which
hands out the lowest frame or run. Walks, maps, ranges, forks and loads are operators from a
memory to a memory, so that a failure in the middle keeps what was done before it, as in the
code: tables created before a failure stay, the block of a failed `VirtMapRangeZeroed` is lost,
a fork that fails makes the half-copied child a zombie, an exec that fails has
already written over its own space. `Store` is the process's own write through the MMU.
`tabs` and `torn` are bookkeeping of the model: the frames handed out as tables, and the
pages a process unmapped itself.

The ranges of `mmap`, `munmap`, the image, the stack and the arguments lie in the lower half
(`LowerHalfAssumption`). The C library and the linker name no others; `__Handle__Mmap`,
`__Handle__Munmap` and `Elf64Load` do not check, and a range of the upper half would go into the
tables that every space shares with the kernel.

`Image` is the list of an executable's segments in half pages, the two words of a frame, so a
segment may begin or end inside a page, and two may share one. `Elf64Load` maps each, which may run out of
memory, reads it, which may fail and leaves zeroed pages behind, and copies it. `Chunks` says where the copy
goes. `GetPhysicalAddress` answers the address with the offset in the page and `Elf64Load` adds it again, so
the first chunk of a segment that begins inside a page is written to the frame after the page's. If that
frame is free or a page of the process itself, the model goes on. If it is a table, a page of another process or beyond the
memory of the model, `spilled` is set and the behaviour ends: what follows depends on the file's bytes,
read as page-table entries, say. Frames of the rest of the kernel (heap, modules) are not in this module;
a chunk may land there too.

`UserBase` is the lowest page that fork copies (`__IsUserVa__`).

### Process

A process structure has its pid, parent, zombie flag, signals, the state of its thread and the
call that the thread is in. Fork reads `__NextPid__` (`PosixFork`), stores it and creates
(`PosixProcCreate`), which may fail after the number is used up, then copies and starts (`ForkFinish`), which may fail; exit marks the process
(`PosixExit`) and then takes `ThreadListLock` (`ExitFinish`); wait4 finds a zombie and takes
its status (`PosixWait4`), then removes and frees it (`Reap`). `DestroyThread` takes the lock that
`PosixExit` holds: that CPU spins for ever (`stuck`), the process stays a zombie and may be
reaped. A freed structure keeps its thread, which runs on. The new process gets into the table and into `/proc`
in one step: in between it has no parent, so only a caller that is itself a freed structure could
reap it, which is use of freed memory. Its pid does not start over, which takes 2^63 forks.

`raced` and `orphaned` are history: two processes were about to be given one pid, and a structure
was freed whose thread could still run. `ReapIsOfOwnExit` holds without either. With four
structures the second matters: a zombie that `/proc/<pid>/exec` took back to life is reaped
by its parent, goes on as a freed structure with pid 0, calls wait4, and takes a new-born zombie
that its real parent reaps as well.

`DeliverPendingSignals` may run at any time for any process. Nothing in the kernel calls
`PosixDeliverSignals` at this commit; it is exported, and the model includes it because it changes the
same fields.

### DevFs and KMods

`DevTable` is the registry, with the installation that each entry's code belongs to; `file` the
open files with `FC->Lba`, `FC->Offset` and `File->Offset`; `call` a transfer under way, one
block per step, each of which may fail for want of a buffer or in the driver; `bytes` the
disk. A call into a module that was removed faults and stops the machine (`down`); it is taken to happen
on a CPU that has no stale translation. A registration may find no memory, for the disk or the entry, and is
then missing; those of the kernel itself at boot succeed. Names are values; the code keeps a block device's
name by pointer (`DevFS.c:190`), so a look-up after the module is gone reads memory that is no longer mapped, and may fault where
the model finds or misses the entry.
`Records` are the devices as they are registered; a partition among them lies on its disk, which
is how `BlockRegisterPartition` is called.

`KMods` adds the two arenas with their cursors (`cursor`, `pte`, `free`), the load under way
(`job`), the list of records and the modules that run without one (`modules`, `unlisted`), and
the boot's queue, sorted by the exchange sort of `InitRamDiskDevDrvs` (`Round` is its inner loop,
`LoadOrder` the outer one) from every order in which the directory may list the files. `LoadSection`, `PayloadFails`, `SectionFails`, `NoInit` and
`FinishInstall` are the ways through `InstallModule`. `released` and `removed` are history. Frames for page tables
are not counted; that a page cannot be mapped for want of one is explored at each page.

## 3. What is checked

| Run | Question | Instance | States |
|---|---|---|---|
| `pmm` | do bitmap, counters and callers' pages stay in agreement; does an allocation fail only when it must | five memory maps | 33,916 |
| `kheap` | are blocks disjoint, is every object free or held once, does `KMalloc` fail only when memory is out | two object sizes, three free pages | 19,836 |
| `spinlock` | no displaced holder, flags restored, refinement of `AbstractLock` | 2 CPUs, 3 threads, 2 handlers, 2 locks | 152,778 |
| `mutex` | who can intrude; until then exact nesting and refinement of `AbstractLock` | 2 threads on one CPU and 1 on another, depth 3 | 1,007,759 |
| `semaphore` | units conserved; somebody gets in | 4 threads, 2 units | 19,240 |
| `scheduler` | one place per thread, `ReadyCount` exact, one CPU per thread; a queued thread runs again, the handler returns | 2 threads with strides 1 and 4, 2 CPUs, creation, execution, sleep | 382,380 |
| `scheduler_calls` | a thread that is freed while it is queued executes nothing but the end of its `ThreadExit` | 2 threads, 1 CPU, every other call | 367,316 |
| `vfs` | no mount of a released superblock; offsets drift by no more than what was read; names stay bound | 2 CPUs, 4 paths, 2 mounts, one open file | 81,027 |
| `fd` | the table counts exactly; a descriptor refers to its own object unless shared; refinement of `AbstractPipe` | 3 descriptors, 2 files, a pipe of 2 bytes | 221,394 |
| `vmm` | no frame serves two uses; no table lost; no page shows another's data; the heap is mapped | 2 processes, 14 frames, two segments that share a page | 242,251 |
| `process` | the table is exact; no directory of a freed process; pids unique unless raced; wait4 answers a real exit of the caller's child | 3 processes, 2 CPUs, 3 signals | 339,492 |
| `kmods` | sections mapped and disjoint; removed code unreachable; devices have drivers; load order; refinement of `AbstractDisk` | 3 modules, 4 installations, 5 frames, a disk of 2 blocks | 1,057,976 |

### Bounds, and why they are enough

* `pmm`: pages of two bytes and words of eight bits, so that a memory of up to 17 pages has
  a bitmap of up to three words and of two pages. The maps are chosen for their shape: two usable
  regions with a hole and an unaligned end; more entries than the kernel keeps; a first
  usable region that is too small for the bitmap; a map that is empty; a map with no
  room. Requests of up to three pages meet runs that are shorter, equal and longer.
  The proofs remove these bounds.
* `kheap`: a page of eight bytes holds two objects of three bytes, which fill it exactly, or one
  of six, which does too; three free pages, two of them adjacent, allow several slabs of a
  cache next to a block of two pages and can run out. The sizes asked for are 0, less than an object, an object,
  between the two, and one and two pages. The proofs remove these bounds.
* `spinlock`: one CPU has a thread that nests two locks and one that does not, which
  preempt each other; the other has a driver that only tries. Both handlers take
  locks. Deadlock is not checked, because a thread that is interrupted inside a tried lock
  leaves its handler spinning for ever; `HolderIsRunning` shows that the other threads
  do not. The proofs remove the bounds.
* `mutex`: two threads of one CPU are a holder and an intruder, and one of another CPU waits,
  or holds while both wait; depth three has a first, a middle and a last level. The proofs
  remove the bounds.
* `semaphore`: more threads than units, and twice as many, so that a thread can hold a stale
  count while two others have come and gone.
* `scheduler`: two threads and two CPUs: a thread is placed on another CPU's queue while
  that one relinks it, and a queue has a head and a tail that differ. The priorities are the one
  with the smallest and the one with the largest cooldown, so that `SelectAgain` loops and
  one thread waits for several turns of the other. No symmetry, because of liveness.
* `scheduler_calls`: one CPU and no sleeper, because with either the clean-up frees live threads
  (section 4). Two threads are an exiting one and one that waits, is ready or exits behind it. With a
  third, discarding a thread that was never executed tangles the queues of the others, which
  `FreedOnlyHalts` exempts.
* `vfs`: of the four paths one is the root, one a string prefix of another that is not below it,
  one below it. Both mounts fill the table. One file is enough, since files do not interact; it
  is two bytes long, and reads of up to two and seeks of one reach its end and go beyond.
  `MaxHeld` of 2 lets a CPU that leaked the lock call again. The CPUs are interchangeable.
* `fd`: three descriptors hold a pipe and one copy, or two files and a copy; three openings reuse
  a structure; a pipe of two bytes with writes of one and two wraps, fills and empties.
* `vmm`: an image of two segments in one page, the second from its middle on, one page of stack, one of
  arguments and three of heap lie under different tables of three levels; page 0 lies below `UserBase` and can be mapped, but is
  not copied. 14 frames are enough for one process with everything and for a
  child that runs out of memory at any page, so that every failing path fires. The misplaced chunk is seen to land in a
  free frame, in a page of the process, in its own tables and in another's tables, not in another's page, which the
  proofs cover.
* `process`: three structures are a grandparent, a parent and a child, or two children; the
  cache has no room for pid 3. Process 3 is the one that sends signals and writes to `/proc`, to pid 2.
* `kmods`: sections of one and two pages in both arenas of four; five frames, so that a
  load of three fails in every place; a partition that is the second of two blocks, so that a missing
  shift or bound shows; transfers of one and two bytes with seeks in between straddle blocks of two.

### Fairness

* `scheduler` assumes that every CPU goes on taking steps of its timer interrupt. The
  APIC timer is programmed as periodic (`Timers/APIC.c`), thread code cannot stop it, and
  the handler runs with interrupts masked to its end. Thread code itself is under no fairness:
  a thread may never make a call.
* `semaphore` assumes that a thread in `AcquireSemaphore` keeps executing, which the
  preemptive scheduler provides, and that a thread inside eventually releases, without which
  no semaphore serves a waiter. `TryAcquireSemaphore` is under no fairness. Nothing is
  assumed about who wins a race, so the property is that somebody enters, not everybody.

## 4. Where the code and its comments disagree

The models do what the code does, these included, and the properties are what holds all the
same. `findings` in `PROJECT.json` has the comment that the code contradicts.

* Spin locks. `Spinlocks.c:31` says "Save flags for this CPU": the flags of all acquisitions of
  a CPU share one slot. A lock taken inside another stores "interrupts off" there, and after
  both releases the thread runs on with interrupts off. `PosixRead` on a pipe nests locks in
  this way. `InterruptsRestored` is therefore about threads that take one lock at a time.
  `TryAcquireSpinLock` masks no interrupts (`Spinlocks.c:56`): a handler that interrupts such a holder and takes the
  same lock spins for ever. Nothing is promised about that, and the run does not look for deadlock.
* Mutex. It records the CPU as the owner and does not mask interrupts (`Mutexes.c:18`): a thread
  that preempts the holder on its CPU takes the recursive path and both are inside. `VfsLock` is
  such a mutex. The run has two threads on a CPU and takes this step; nothing is promised after
  it. What holds is that nobody else intrudes (`IntrudersShareCpu`), and that until somebody does
  the mutex is a lock.
* Scheduler. With no ready thread, `Schedule` clears `CurrentThread` and returns to the frame
  it was given (`Scheduler.c:508`): the thread that has just gone to sleep goes on running, and is later
  resumed again from the context saved then. `ThreadExit` queues the thread as a zombie;
  `Schedule` has no case for a zombie and also makes it ready (`Scheduler.c:489`); the clean-up frees it
  while it is in the ready queue. `DestroyThread` unlinks a thread by the `Next` and `Prev` that
  the queues have rewritten (`Scheduler.c:32`). `scheduler_calls` asks only what survives this on
  one CPU. A thread that another CPU, or a wake-up, appends behind an exiting one between the two
  queueings and the clean-up is freed with it (`Scheduler.c:502`), since the clean-up follows the same `Next`.
  A thread that `SuspendThread` queued as waiting is never taken off that queue.
* Allocators. Neither the page allocator nor the heap has a lock; two calls that overlap get the
  same page or object. `Pmm` and `KHeap` are about calls that do not.
* VFS. `VfsUnmount` returns 0 with the lock held, as do the error paths of nearly every call;
  the next call of another CPU spins for ever. A read moves `File->Offset` twice, once in
  the file system and once in `VfsRead`; `OffsetDrift` bounds the error.
  Two creations that overlap may give one slot to two names.
* Descriptors. Reference counts are per entry: closing one end of a pipe, or one copy of
  a file, frees it for the others. `PosixDup2` onto an open descriptor waits for itself.
* Processes. `PosixExit` of a process with a thread waits for itself. A parent
  blocked in wait4 is not woken by its child. Signals that are masked are dropped with the next
  delivery of others, and `TERM`, `KILL` and `INT` are acted on although masked. `/proc/<pid>/exec` takes a zombie back to life.
  wait4 scans pids up to `MaxProcs`, and pids are never reused, so later children are never found.
* Memory. Unmapping a page and destroying a space leave the pages' frames allocated. `Elf64Load` adds the
  offset in the page to an address that has it already (`VMM.c:263` to 267, `ELF.c:250` to 258): the first chunk of a
  segment that begins inside a page, file bytes and zero fill, goes to the next physical frame, and the
  page stays zero. `CLibrary/userland/link.ld` aligns no section but the first, so such segments are normal. In a
  fresh space the next frame may be a table that was allocated to map the segment. The properties of
  `Vmm` hold up to the first chunk that meets a frame in use.
* Translations. `FlushTlb` is an `invlpg` on the calling CPU (`Pages.c:64`). Other CPUs keep what they have cached, kernel
  mappings included, while `ModFree` frees the frames: a CPU may go on executing a removed module's code from frames that
  are somebody else's by then.
* Modules. `Linker.c:16` says that a failed installation releases its memory; if a section
  cannot be read it keeps all of it. An uninstalled module's devices stay in `/dev`, and using
  one faults. Unregistering a device frees the entry that open files still point to (`DevFS.c:210`). A failing allocation in the middle of a transfer leaves `File->Offset` behind the
  position that the device file reads at.

## 5. What is proved

TLAPS checks these theorems for every value of the constants that satisfies the
assumptions named below.

### Physical memory manager (`KHeapProofs`, first part)

`PmmTypeCorrect`, `PmmStatsCorrect`, `PmmPagesAccountedFor` (invariants) and
`PmmFailsOnlyWhenNoRun`, `PmmAllocReturnsFreshRun` (action properties).

Assumed (`PmmAssumption`): positive page and word sizes; memory maps whose entries lie in
the address space and whose usable entries are page aligned and do not contain page 0. The
Limine boot protocol promises alignment, and keeps the first page out of usable memory. The
last part matters: address 0 is the allocator's failure value.

The inductive invariant is `PmmInv`. The three properties alone are not inductive:
`StatsMatchBitmap` needs the accounting, since a free must clear bits that were set;
the accounting needs `RegionsObeyProtocol`, since page 0 must be kept back for the returned
address to be told from a failure, and the bitmap's own pages must lie in memory; and `BootState` says that
nothing is lent before the bitmap exists. The lemmas go from arithmetic (quotients and
remainders), to single bits and sets of bits (`SetBitTest`, `ClearBitTest`, `SetBitsTest`,
`ClearBitsTest`, `BitmapWithTest`), to what taking and giving back pages does to all
of the invariant (`TakingFreePages`, `GivingLentPages`), to one lemma per operation.
`FailsOnlyWhenNoRun` rests on `StatsMatchBitmap`: a request that the counter rejects
has no run because a run would be that many free pages.

### Kernel heap (`KHeapProofs`, second part)

`HeapBlocksDisjoint`, `HeapObjectsAccountedFor` (invariants), `HeapFailsOnlyWhenFull` (action
property) and `HeapUsesPmm`: the specification of the heap with the other users implements
that of the manager, so that everything proved of the manager holds below the heap.

Assumed (`KHeapAssumption`): object sizes that grow from cache to cache, a header and a largest
object that fit in a page together, and requests that are at most `MaxCount` pages. The code's
sizes (16 to 2048, pages of 4096) satisfy it.

The inductive invariant is `PmmInv` together with `HeapInv`. Disjointness alone is not
inductive: a block handed out next comes from a free list, so the lists must hold exactly the
objects that nobody holds (`ObjectsAccountedFor`), and from pages of the manager, so the heap's
pages must be lent (`HeapShape`, with `PmmInv`: lent pages are not free). `BlocksInPlace` says
that a block is an object of its slab or whole pages that are no slabs, which is what `KFree` relies
on, and `LargeBlocksDisjoint` that returning a page takes it from no other block.
`CachesListSlabs` says that a cache lists exactly the slabs of its size, without which
`KMalloc` could miss a free object. Disjointness follows from geometry (`SlabGeometry`: objects lie
behind the header, inside the page and apart from each other). One lemma per operation shows that
the invariant is kept.

### Spin locks (`SpinLockProofs`)

Assumed (`SpinLockAssumption`): finitely many locks, at least one; a handler and at least one
thread for each CPU; only threads try. Nothing about the number of CPUs, threads or locks or
the depth of nesting.

* `SpinLockMutualExclusion`, from `ExclusionInv`: a lock word of 0 means that nobody is inside,
  and a call works on a lock that its caller is inside of.
* `SpinLockImplementsAbstractLock`: the compare-exchange maps to the acquisition, the store of
  0 to the release, every other step to a stutter.
* `SpinLockHolderIsRunning` and `SpinLockHandlerMasked`, from `MaskInv`. The two
  depend on each other, and on `NestedFlagsOff`: a context that holds a lock and is in a
  second acquisition has saved "off", so that no release inside another lock turns
  interrupts on.
* `SpinLockInterruptsRestored`, from `FlatInv`, which adds that the slot of a CPU holds "on"
  while a thread of it that takes one lock at a time is inside. It needs `MaskInv`, since
  the slot is safe only because nobody else runs on that CPU meanwhile.

### Mutex and semaphore (`SyncProofs`)

The three theorems about the mutex hold for any placement of any number of threads on the CPUs.
`MutexIntrudersShareCpu`: the recursion test lets in a thread that does not hold the mutex only
beside a holder on its own CPU. `MutexCountMatchesNesting` and `MutexImplementsAbstractLock`:
until that happens, owner and count are exactly the caller's nesting, and the mutex changes hands at the
compare-exchange and at the store of 0, every other access being invisible. With one user per CPU it
never happens. The inductive invariant `MutexInv` ties `Owner`, the count and the lock word
to each thread's position in its call, as long as `intruded` is false; that an owner is always some
thread between its store and its reset is the part that `IntrudersShareCpu` needs.

`SemaphoreConservesUnits`: for any number of threads and any initial count (`SemaphoreAssumption`:
finitely many threads, a count that is a natural number). `UnitsConserved` needs one more fact to
be inductive, that the count a thread is about to exchange was positive when it tested it.

### Scheduler (`SchedulerProofs`)

Assumed (`SchedulerAssumption`): finitely many threads, at least one CPU, and the priorities of the
code. Nothing about the number of threads or CPUs, the sleep times or the order of calls.

`SchedulerOnePlacePerThread`, `SchedulerReadyCountIsLength` and `SchedulerOneCpuPerThread` have
the hypothesis `Undisturbed`: the code does not call `ThreadExit` or `DestroyThread`. TLC refutes all
three with `DestroyThread` and the first two with `ThreadExit`, on three threads and two CPUs, for the
reasons of section 4; `OneCpuPerThread` holds there with `ThreadExit` (1,067,679 states, threads of one priority), but
not by this argument. The other calls are covered, those of `scheduler_calls` included. The
inductive invariant is `QueueInv`:

* `HasQueues`: the links spell one sequence per CPU and queue (`Linked`), no thread is twice in
  them (`Apart`), and `ReadyCount` is the length of the ready one. The zombie queues are empty. No
  clause is inductive alone: an insertion at the tail follows links, so it ends where it should
  only if the queue it walks is acyclic and shares no thread with another.
* `Homes`: a thread that has been executed is on one CPU, the one in its `LastCpu`, either
  in one of its queues or held by it, which means current and not yet queued again. This is what
  makes the thread that an operation queues one that is in no queue.
* `Owned` and `FrameInv`: the code that a CPU executes belongs to a thread of that CPU. A
  CPU with no ready thread goes on executing a thread that it has queued (section 4), so `Owned`
  cannot ask that the thread be held.

`ChainIs` says that following the links yields the sequence they spell, so that the walk in each
operation ends; then each operation on links is one on sequences (`TailIs`, `RemoveIs`, `QueueingIs`,
`UnlinkedIs`). `WakeupIs` follows the loop of `WakeupSleepingThreads`, which relinks the
queue it walks: after the sleepers up to `m`, those that stay are in front of the ones to
come, and `prev` is the last of them (`LoopQueues`). `CreateThread` writes `Next` of a thread that
is in no queue and `Prev` of one that may be in one, which is why `Linked` reads `Next` alone.

### Address spaces (`VmmProofs`)

`EachFrameHasOneOwner`, `EveryTableIsFound`, `PagesStayPrivate` and `HeapIsMapped` (the four
invariants that run `vmm` checks) and `StepsAreIsolated`: a step changes what at most one process has
mapped and finds there, wherever in a walk, a range, a load or a copy memory runs out. For a fork
and a `wait4` that one is the child, for everything else the caller.

Assumed (`VmmAssumption`, `LowerHalfAssumption`): more than two frames, finitely many processes, the tags
of pages differ from each other and from frame numbers, and requests are for the lower half
(section 2). Nothing is assumed about how many frames or processes there are, which
executable is loaded, how long its segments are or where in the lower half they begin and end. But all of it is
said of behaviours up to the first load that misplaces a chunk into a frame in use (`spilled`, section 4).
`AlignedSegmentsSpillNothing`: an executable whose segments begin on page boundaries never does, so for
it the theorems hold without the exception.

The invariant is `Intact`, which is `spilled \/ VmmInv` (theorem `VmmInvariant`). `VmmInv` speaks of places:
`<<process, level, index>>`, where level 0 holds the pages, 1 to 4 the tables and 5 the structure
of the space. `At` is the frame at a place: the root's is in the space, any other is the entry `Bit(z)` of
the table at the place `Above(z)`. `VmmInv` has four parts:

* `Sound`: a frame is at one place at most, whatever process and level; none of these is
  free or the kernel's; the frames handed out as tables are those at the places above the pages.
  `FramesOwnedOnce` alone does not say that the tables of one space differ, without which
  a write to one of them could show at a second place.
* `Contents`: the pages at a process's places hold zeros and tags of the process or
  of an ancestor.
* `HeapMapped`: `BreakIsMapped`, over places.
* `Processes`: who runs or waits to be reaped has a space and nobody else; a process never made
  has no break and is its own parent, and parents of processes that were made were made. The last part is
  what keeps a fork from changing the ancestors of others.

The argument goes upwards. Induction over the levels (`PlaceInduction`) gives the
two lemmas on which all others rest: memory that changes in no table changes no place
(`TablesUntouched`), and an entry written in one table changes one place (`EntryWritten`),
which holds because the table is at one place itself. From them: one turn of
`GetPageTable` (`DescendStep`), the walk (`GetPageTableWalks`), `MapPage` and `UnmapPage`
(`MapPageMaps`, `UnmapPageUnmaps`). A loop over pages is followed by `LoopExists`: the recursive function of
such a loop exists, and what every turn keeps holds at its end. So ranges, segments, the stack and the copy of
a fork are shown to `Grow` one process (it gets pages with words of a given set, everything else stays) or
to `Shrink` it; both relations compose (`GrowsTwice`), which is how a failure in the middle is
covered: each prefix of the loop is a `Grows` of its own. `SpaceCreated` and `SpaceDestroyed` are about the two
operations that change `space`. One lemma per action then gives `VmmInv'`, and
`OthersKept` for the isolation. Ancestors are a chain over `parent` that is cut off after
as many steps as there are processes; `ChainStops` shows by counting that the cut loses nothing, and
`ChainOfOthers` and `ChainOfChild` what a fork does to it.

### Files (`FilesProofs`)

Assumed (`RamFsAssumption`, `VfsAssumption`, `FdAssumption`): a boot image that is a list of paths,
types and bytes, positive limits, paths that are sequences of names, and that the values
that stand for null pointers are no pointers. Nothing about the number of CPUs, paths, mounts,
files, descriptors or pipes, or the depth of paths.

* `MountsAreLive`, `OffsetsDrift` (invariants) and `NamesAreStable` (an action
  property), from `VfsInv`. Its parts: `FileInv` (a file is open on a node of the tree, and
  its offset lies between its position and twice that; the tree is well linked, so that a
  position is inside a file), `MountInv` (which superblocks are live, and which of them were made
  reachable twice: a spare one is nobody's, and the root's is mounted on "/" alone unless it is
  aliased, or `VfsUnmount` of another path would leave the root behind), `LockInv` and `UnlockInv` (one CPU at
  most is left with `VfsLock`, and a `VfsMkpath` that will give it back has it) and `PendInv` (the slot that a creation loaded lies among those ever
  filled, and is still the count unless another creation came between).
  `MountsAreLive` rests on path resolution: `ResolveIs` says that whatever `VfsResolve` answers
  lies on the root's superblock or on a mounted one. `NamesAreStable` rests on `WalkStays`: in a
  tree that only grows at the end of the root's children a walk that succeeded goes the same way.
* `MountedTree`: the tree that `RamFSMount` builds from any archive is well linked.
* `DescriptorsAreCounted`, from `TableInv`.
* `PipesAreQueues`: the ring implements `AbstractPipe`. `PipeInv` keeps head, tail and length in
  agreement modulo the capacity; reading cuts the front of the queue, and writing, which may wrap
  in the middle of a chunk, appends to its end.
* `DescriptorsOwnTheirObjects`, from `FdInv`, which is all of the above with `ObjInv`: two descriptors
  with one structure are known to share it (`OneEach`). Without that closing the one could free
  the other's object. It uses `VfsInv`, since reads and seeks must leave a file open.

### Processes (`ProcessProofs`)

Assumed (`ProcessAssumption`): positive limits. `ProcessTableIsExact`, `ProcessDirectoryIsLive`,
`ProcessPidsUnique` and `ProcessReapIsOfOwnExit` are invariants, from `ProcInv`. What has to be
added: a structure that is being reaped has lost its directory for good (`DirInv`: `PosixFind`
must not bring it back between the scan and the removal), the next pid is above all in use unless two
creations raced (`PidInv`), a zombie's code is one that it exited with (`ExitInv`), and of the calls
in progress that a child in the middle of fork has one creator and no parent, so that nobody reaps
it, and that a child being reaped is its reaper's (`FamilyInv`).

### Modules and devices (`KModsProofs`)

Assumed (`KModsAssumption`, `DevFsAssumption`): a finite set of modules with their sections and what they
register; a block size and a disk that are not empty; partitions that lie on their disk.

* `ModulesAreMapped` and `ModulesStayRemoved`, from `ModInv`: every page of a module that runs, or is
  being installed, is mapped and lies behind its arena's cursor; a released page lies behind the
  cursor and is not mapped; and what is behind a cursor is never given again (by the page tables, section 6), although a failed
  installation leaves pages mapped in front of it, which the next one maps over.
* `ModulesNumberedFirst`: for any number of modules, the two nested loops of `InitRamDiskDevDrvs` sort.
  After the inner loop's turn `j` of the outer loop's turn `i`, place `i` has the least of the modules from
  `i` to `j` (`Ordered`).
* `DevicesKeepDrivers`, from `DevInv`: the table's owners are the kernel, modules that run or are
  removed, through installations that fail after `module_init` registered something.
* `DevicesImplementStream`: device files implement `AbstractDisk`. The invariant keeps a file inside its
  current block, and a transfer under way on a disk; the arithmetic of blocks and bytes
  (`FC->Lba`, `FC->Offset`, the partition's first block) maps every block transferred to the bytes at the
  file's position. A round that fails, for want of a buffer or in the driver, leaves the position at the first byte that
  was not moved (`busy` in `AbstractDisk`: only a file with no transfer under way is opened or sought).

### Induction

The library's induction theorems take an operator as a parameter, which the provers cannot
instantiate. Where a loop or a recursive function has to be followed, the proofs use lemmas of their own,
about sets instead of predicates: a set of naturals has a least element (`LeastNat`, from the
well-foundedness of `<`), so a set that contains 0 and with `n` also `n + 1` contains all
(`Induction`); and a recursive function is the one that its equations describe (`Recursion`). Paths,
walks, the archive, the sort, the ring and the loop over the sleepers are followed in this way.

### Only model-checked

Liveness (`QueuedThreadRuns`, `HandlerReturns`, `SomebodyEnters`) is beyond the prover. Every
invariant that a run checks has a theorem.

`PmmTypeCorrect`, `PmmAllocReturnsFreshRun`, `SpinLockMutualExclusion` and `SpinLockHandlerMasked`
are proved and in no run: the runs check properties that imply them on the instance or that
say more. `VmmInv` and `OneSpaceChanges` (what `StepsAreIsolated` states) are in no run either. They are stated in
`VmmProofs`; TLC finds `OneSpaceChanges` to hold on the instance of run `vmm` (242,251 states) and `Intact`
on the same with 13 frames (97,471 states), and `OneSpaceChanges` violated when a fork shares the parent's frames (`CopyPage_Share`).

## 6. What is not modelled

* Overlapping calls of the page allocator, of the heap and of the page-table walk: none of them has a lock.
* In the scheduler: `MigrateThreadToCpu`, `LoadBalanceThreads`, `WakeSleepingThreads` and
  `ThreadExecuteMultiple`, which nothing calls; failing allocations in `CreateThread`; reuse
  of a freed block; statistics and dumps. Wake-up times are kept as ticks to go, which is
  all that the code compares.
* In the VFS: setters of limits and flags that nothing reads, dentry helpers and notifications without a
  caller, relative paths, symbolic links (no file system implements them).
* In processes: sessions, groups, credentials, times, working directories, argument strings, and
  the copy of the descriptor table at fork, which would need a table per process; `select`; the
  directory listing of `/proc`.
* The registry of loaders, ELF headers, symbols and relocation.
* TLBs. Everything said about mappings, `RemovedCodeStaysUnmapped` included, is said of page tables; another CPU may
  still have a translation that the tables no longer have (section 4).
* Open files of `/proc/<pid>`, which keep the process structure in `F->Priv` (`ProcFS.c:827`): `DirectoryIsLive` is about
  the cache of directories only.
* Formatting, logging, device registers and file formats, in every component.
* Timer detection and programming, SMP start-up, interrupt tables, console, serial port,
  firmware blobs, string library, PCI access and user programs: device I/O, encodings of
  tables, or byte-level helpers with no protocol between them.

About 23,000 of the repository's lines of C are headers of newlib and about 2,100 a font's
bitmap. The map covers most of the state-changing code of `PMM`, `KHeap`, `Sync`, `AxeThreads`,
`VMM`, `VFS`, `RamFS`, `DevFS` and `KMods`, and half of `Proc`; the rest is listed above.

## 7. Plan

Done: allocators, locks and scheduler first, since everything else stands on them; then the VFS
with descriptors, address spaces, processes, and devices with modules.

To prove next: that `VirtMapRangeZeroed` and `MapPage` fail only when memory runs out, the counterpart
for `Vmm` of `PmmFailsOnlyWhenNoRun`; and that `Pmm`'s `AllocPage` and `AllocPages` give what `Vmm` takes from `free`,
which would join the two modules.

Candidates for a later extension: a table of descriptors per process with the copies that
fork makes; a run of `Pmm` in which two calls overlap; the hand-shake of SMP start-up.
