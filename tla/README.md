# Weenix in TLA+

The repository holds the course work of a small operating system, Weenix, in
several stages of completion, and two warm-up programs:

| directory | what it is |
|---|---|
| `src/kernel3/weenix` | the final kernel: threads, processes, VFS, virtual memory. **All modules model this one.** |
| `src/kernel2`, `src/kernel1` | the same kernel before VM and before VFS was filled in |
| `src/codeBase` | a second copy of everything |
| `src/warmup1`, `src/warmup2` | a doubly linked list; a multi-threaded token bucket emulation |

`Config.mk` builds it with `DRIVERS=VFS=S5FS=VM=DYNAMIC=1` and every optional
feature off: `UPREEMPT=0` (no kernel preemption, `util/time.c` is not compiled,
so no periodic timer), `MTP=0` (one thread per process), `SHADOWD=0`. The models
are of that build. Below, `K/` is `src/kernel3/weenix/kernel/`.

The kernel runs on one CPU. A thread keeps the CPU until it calls
`sched_switch`; between two such calls only interrupt handlers run. What makes
it hard is what happens *across* a sleep: nearly every kernel call can sleep in
its middle, every other thread may run meanwhile, the sleep can be cut short by
a cancellation, and what the caller read before it is stale after it.

## 1. Inventory

State, operations and interactions of every part, what is hard about it, and
what makes it correct. The last column says where it is modelled.

| part | state | operations | talks to | hard behaviour | correct when | module |
|---|---|---|---|---|---|---|
| scheduler `K/proc/sched.c` | run queue, wait queues, `kt_wchan`, `kt_state`, `kt_cancelled`, `curthr` | `sched_sleep_on`, `sched_cancellable_sleep_on`, `sched_wakeup_on`, `sched_broadcast_on`, `sched_cancel`, `sched_make_runnable`, `sched_switch` | everything that blocks; interrupt handlers | cancelling in each phase of a sleep; state and queue must agree; interrupts during the switch | a thread is on exactly the queue it names, never lost, and a runnable one runs | Sched, Idle |
| kernel mutexes `K/proc/kmutex.c` | `km_holder`, `km_waitq` | init, lock, cancellable lock, unlock | scheduler | unlock hands over to a thread that runs only later, perhaps after being cancelled | exclusion, nobody forgotten, first come first served | KMutex, FairLock |
| threads `K/proc/kthread.c` | `kt_state`, `kt_retval`, stack, context | create, clone, cancel, exit, destroy | scheduler, processes | exits while others still refer to it | freed only after its last switch | KMutex, Proc (state only) |
| processes `K/proc/proc.c`, `fork.c` | process list, tree, `p_state`, `p_wait`, pids | create, clean-up, reparent, waitpid, kill, kill all | threads, VFS, VM | exits in every order, clean-up that sleeps, slots used again | lists form one tree, no zombie is forgotten, nothing freed is used | Proc; Pids; Memory and Files (fork, exit) |
| interrupts and idling `K/main/interrupt.c`, `K/proc/context.c` | IPL, interrupt flag | `intr_setipl`, `intr_disable`, `intr_wait` | scheduler | a handler between the test of the run queue and `hlt` | no lost wakeup, level per thread | Idle |
| kernel main `K/main/kmain.c` | - | boot, idle process, init | processes | shut down only after init | idle waits for init | Proc |
| system call entry `K/api/syscall.c` | - | dispatch, cancellation check, halt | all | a cancelled thread must exit at the border | it does | Proc (check and halt) |
| page frame cache `K/mm/pframe.c` | hash of frames, alloc/pinned lists, busy and dirty flags | get, pin, unpin, dirty, clean, free, page-out daemon | VM, VFS, disks | fill and clean sleep with the frame busy; a frame may be gone after the sleep | one frame per page, no busy or pinned frame is freed | Cache |
| page allocator, slabs `K/mm/page.c`, `slab.c` | free lists per order | alloc, free | all | splitting and joining buddies | no overlap, nothing leaked | Heap |
| page tables `K/mm/pagetable.c` | hardware tables | map, unmap | VM | layout | - | Vmmap, Memory (what is translated); layout: no |
| address spaces `K/vm/vmmap.c`, `mmap.c`, `brk.c` | ordered list of areas | insert, find range, lookup, map, remove, clone, read, write | memory objects | four overlap cases, page boundaries | the list is the map page -> object it stands for | Vmmap, AddressSpace; Memory (clone, destroy) |
| memory objects and faults `K/vm/shadow.c`, `anon.c`, `pagefault.c`, `K/api/access.c` | shadow chains, reference counts, resident pages | get, put, look up, fill, fault, fork | page frames, vnodes | copy-on-write over a tree of forks | private writes stay private, shared ones are shared, objects are freed once | Memory, PrivateMemory |
| vnodes `K/fs/vnode.c`, `vfs.c` | vnode list, `vn_refcount`, `vn_nrespages`, `VN_BUSY` | vget, vref, vput | file systems, page frames | reading a vnode sleeps; a second vget meanwhile | one vnode per inode, freed when unused | Cache; Files (counts) |
| open files, system calls `K/fs/vfs_syscall.c`, `open.c`, `file.c`, `namev.c` | descriptors, `f_refcount`, `f_pos` | open, close, dup, read, write, link, unlink, rename ... | vnodes | references on every error path | no leak, no early free | Files |
| ramfs `K/fs/ramfs/ramfs.c` | inodes, directory entries | directory operations | vnodes | link counts | count = entries | Files |
| s5fs `K/fs/s5fs` | - | stubs here; the build links a prebuilt library | - | - | - | no: no code |
| disk and terminal drivers `K/drivers` | request and input queues | read, write, handler | scheduler | mostly stubs over a prebuilt library | - | as queues woken by interrupts |
| program loading `K/api/exec.c`, `elf32.c` | - | parse, map, copy | VM | sequential | - | no: sequential parsing |
| boot, hardware `K/boot`, `K/main/{gdt,apic,acpi,pit}.c` | registers | set-up | - | runs once | - | no: hardware |
| utilities `K/util`, `list.h` | - | lists, strings, printf | - | - | - | lists are the models' sequences |
| kernel shell, tests `K/test`, `K/proc/*_test.c` | - | - | - | - | - | callers of KMutex follow `faber_test.c` |
| user land `src/kernel3/weenix/user` | - | libc, shell, init | system calls | - | - | only init's wait loop (Proc) |
| token bucket `src/warmup2/warmup2.c` | two queues, tokens, counters | arrival, token, server and signal threads | each other: one mutex, one condition variable | who stops last wakes the others; cancelling a thread | every packet is served or dropped, all threads end | TokenBucket |
| linked list `src/warmup1/my402list.c` | ring of elements | insert, unlink, find, walk | - | - | behaves as a sequence | LinkedList |

`PROJECT.json` lists the same parts with their files, and under "hazards" each
place where this code can go wrong in a way a test would hardly reach, with the
properties aimed at it.

## 2. Modules and how they correspond to the code

    Sched  <- KMutex <- MCKMutex            FairLock (abstract lock, KMutex!Abs)
           <- Proc   <- MCProc
    Idle   <- MCIdle
    Cache  <- MCCache, MCFileSystem
    Files  <- MCFiles, MCFileSystem
    Memory <- MCMemory, MCParts             PrivateMemory (Memory!Abs)
    Vmmap  <- MCParts                       AddressSpace (Vmmap!Space)
    Heap, Pids, LinkedList <- MCParts
    TokenBucket <- MCParts, MCLive          (the latter with Idle)
    Queues (Only) <- Proc, Cache, SeqLemmas
    SeqLemmas <- SchedProofs <- KMutexProofs    (proofs)
                             <- ProcProofs
              <- PartsProofs            (about Idle, TokenBucket, LinkedList and Pids)
              <- MemoryProofs           (about Memory)
              <- FileSystemProofs       (about Cache and Files)
              <- AllocProofs            (about Vmmap and Heap)

**Sched** (`sched.c`) has the scheduler's state and one operator per function;
it has no `Next` of its own, since the scheduler does nothing on its own. A queue
`ktqueue_t` is the sequence of its threads, *next to dequeue first* (the code
enqueues at the head and dequeues at the tail). An operator covers the function up
to the point where it gives up the CPU, i.e. where it sets `switching`;
`sched_switch` is the step that picks the next thread and is a module action
of those that use Sched. What a function does after it was resumed is an action
of the caller's module. A KASSERT that can fail is modelled: `AssertFails` sets `panic`,
after which nothing moves. `p_state` is indexed by thread, because of `MTP=0`.

`SleepCancelled` keeps what the code does literally: both `-EINTR` exits of
`sched_cancellable_sleep_on` write `KT_EXITED` into the thread's state and
`PROC_DEAD` into its process's state, while the thread runs on.

**KMutex** (`kmutex.c`) puts arbitrary threads around the scheduler and the mutexes:
they lock (both ways), unlock, sleep on other queues, yield, spawn and cancel each
other, in any order (this is the loop of `faber_test.c` with its fixed script
removed). `frame[t]` is the kernel call thread t sleeps in, i.e. the part of its call
stack that matters; `locks[t]` is what t's *code* was told: it gains m when a lock
call returns successfully and loses it at `kmutex_unlock`. So `locks` is
the callers' view and `km_holder` the implementation's, and `MutualExclusion` relates
the two. Code respects the interface: it locks only what it believes it does not
hold and unlocks only what it believes it holds. `LockAssert` is the case where it is
wrong about the first, and the kernel panics.

| action | code |
|---|---|
| `LockFree`, `LockAssert`, `kmutex_lock`, `kmutex_lock_cancellable` | the outcomes of the two lock functions before they return or sleep |
| `Return`, `ReturnCancelled` | the rest of a call after the switch back, with 0 or -EINTR |
| `kmutex_unlock` | with the hand-over to the head of the queue |
| `SleepOn`, `CancellableSleepOn`, `Yield` | direct calls of the scheduler |
| `kthread_cancel`, `Spawn` | cancelling another thread; creating one and making it runnable |
| `Wakeup` | a wakeup or broadcast by a device interrupt or some thread's code |

**FairLock** is the abstract lock: an owner, a queue of waiters, who is inside;
acquire when free, wait, abandon, release with hand-over, enter. It knows nothing of
threads' states, run queue or cancellation flags. `KMutex!Abs` is the refinement
mapping: owner = `km_holder`, waiters = the mutex's wait queue, inside = the thread whose
code was told.

**Proc** (`proc.c`, `kthread.c`, `fork.c`, parts of `kmain.c` and `syscall.c`) is the process
life cycle. A process and its only thread are one element of `Thread`, a slot that
is used again after it was freed. Slot p also names the queue `p_wait` of process p. `pc[p]`
says where p is: own code, one of two kinds of device sleep, `do_waitpid`, three stages of
exit, reaped. The exit is cut exactly where the code can lose the CPU: `do_exit` (up
to `proc_cleanup`), `WakeParent` (its first act), `CloseSleeps` (closing files or dropping
the working directory may wait for the disk; s5fs does, ramfs does not - the constant
`Blocking`), `proc_cleanup` (the rest, with the last switch). `do_waitpid` scans the
children and either reaps (`cleanupDeadProcess`) or sleeps and scans again.
`Operation` starts only in a process that is not cancelled, which is the check
of `syscall_handler` on entry; a cancelled process leaves by `do_exit`. A process may
still sleep when cancelled, since a system call it is in may go on to do I/O.
The processes idle and init follow their loops in `kmain.c` and `user/sbin/init.c`.

**Idle** takes apart the one step that Sched treats as atomic. `at` is the next
statement of `sched_switch`, with the CPU's interrupt priority level and
interrupt flag; a device interrupt can be taken between any two statements
at which it is not masked, and its handler appends a thread to the run queue. `curipl[t]` is the
local variable on t's stack that holds the level the thread is to go on with.
A thread may sleep with its device's interrupt blocked (as `ata.c`) or not. `Dequeue`
includes the context switch, because everything is masked there
(`DequeueIsSafe` checks that).

**Cache** (`fs/vnode.c` over `mm/pframe.c`) is the two caches of a file system that
waits for its disk. `vnode[s]` and `pframe[f]` are the objects in slab memory that
is used again; `cur[t]` is the pointer a sleeping thread's stack holds, so that it
may be stale. An action runs from one point where the CPU can be lost to the next:

| action | code |
|---|---|
| `vget`, `FindAgain`, `ReadVnode` | the find loop, again after a sleep for a busy vnode, and the rest after `read_vnode` |
| `vput`, `PurgeAgain`, `DeleteVnode` | the page loop for an unlinked file with its sleeps, the drop, the rest after `delete_vnode` |
| `pframe_get`, `GetAgain`, `Filled`, `FillFailed` | lookup, sleep for a busy frame, allocation, after `fillpage` |
| `Got`, `Dirtied`, `DirtyFailed` | what the caller does with the page: read it, or `pframe_dirty` with `dirtypage` |
| `Store`, `Unmap` | a process that has the page mapped writable writes without a fault (and without `pframe_dirty`); munmap |
| `pframe_clean_all`, `CleanAllAgain`, `Cleaned`, `CleanFailed` | sync: the scan, restarted after each sleep, and `pframe_clean` around `cleanpage` |
| `Unlink`, `Create`, `Block`, `Interrupt` | the file system's links, waiting for the disk and its interrupt (external) |

A mapping stays in place when its page is cleaned (`CleanStart`) or its frame freed (`FreePages`): a page of a file
is mapped writable only by a shared area, which `pframe_remove_from_pts` does not find (finding 5). `ahead` (the page
holds data that was written to it while it was marked dirty, and that its disk block does not have) is the history
variable that `NoLostWrite` and `DataKept` are about. They promise nothing of a store to a clean page through a mapping
that outlived the clean: the code loses such a store if nobody dirties the page again, and finding 5 shows it.

**Memory** (`vm/shadow.c`, `anon.c`, `pagefault.c`, `fork.c`, the objects in `vmmap.c`): reference
counts, shadow chains, contents of pages and translations of processes with one area each. A fault
and the access that caused it are one step, since nothing comes between. `Put` is the
recursion of `shadow_put` down the chain, said at once: the objects that go are those of the
longest prefix in which every count is down to the resident pages. **PrivateMemory** knows
only that every process has pages of its own and that fork copies them; `Memory!Abs` maps each process
to what its shadow chain shows.

**Vmmap** (`vm/vmmap.c`, `mmap.c`, `brk.c`) has the list of areas, and the references and translations that go
with it. The five cases of `vmmap_remove` are `Cut`. Failed assertions and the pointer
that `do_mmap` uses when nothing was found are `panic`. **AddressSpace** is the map from pages to pages of
objects that it stands for, with the promise that a mapping without an address gets the highest room
there is.

**Files** (`vfs_syscall.c`, `open.c`, `namev.c`, `file.c` over `ramfs.c`): descriptors, open files, vnode
references, inodes and directory entries. Nothing in ramfs sleeps, so a call is one action and what
interleaves is the calls of processes that share files by fork. `dir_namev` walks real paths, with
"..", and the calls go on where the code goes on; a call that would use what it does not have sets
`fault`, with which the behaviour stops. `kept` counts the references `do_link` forgets.

**Heap** (`mm/page.c`, `mm/slab.c`): `map` is the bit map of the buddy allocator, and joining (`Join`) looks
at the bits, never at the free list, as the code does; that the bits tell the truth is a
property. The loops that split and join block after block are said at once: the halves that come free on the way
down are the buddies of the blocks of each order around the page (`Around`, `Buddy`). **Pids** is `_proc_getid` with the processes that hold the numbers. **LinkedList** has the pointers of
`my402list.c` beside the sequence they should stand for. **TokenBucket** (`warmup2.c`) has a step
for every stretch between two lock operations or unprotected accesses, a cancellation that can strike at any of them,
and the flags as they are really initialised (only the last one of
`int p_flag,t_flag,s1_flag,s2_flag=1`). Where two threads are inside at once or a cancelled thread
keeps the mutex, the behaviour is undefined or stuck: `Broken`.

**Harness modules.** `MCFileSystem`, `MCParts` and `MCLive` put several independent small models into one
run: `part` is chosen initially and names the one that moves, the others keep their initial state, so
the states add up and do not multiply. MCFileSystem extends Cache and Files, MCParts extends Memory, Vmmap,
TokenBucket, LinkedList, Pids and Heap, and MCLive extends Idle and TokenBucket, so that the properties of these runs are the
very definitions the theorems are about; their `Init`, `Next`, `Spec` and `TypeOK` are therefore called `SpaceInit`, `BucketNext` and
so on. In MCFileSystem
the slots of Cache serve as the processes of Files, and the frames as its open files, so that one set of
permutations is a symmetry of both.

**Mutants.** Definitions named `X_Bug` are deliberately wrong versions of the definition `X`
right after them, as a plausible slip in the code would have it (a missing reset, a
wrong end of a queue, a wakeup left out). No specification uses them. Put in the place
of `X`, each makes the property TLC is said to check fail, so that a passing run
means something.

## 3. Runs

| run | instance | what it shows |
|---|---|---|
| `kmutex` | 3 threads, 1 mutex, 1 device queue, cancellation, fair | nobody lost (`NeverStranded`), exclusion, no forgotten waiter, the inductive invariant `IInv`, which has the consistency of the queues (`LinksOK`, `StatesOK`) in it; refinement of FairLock (`ServesInOrder`), a waiter gets the mutex or is cancelled (`LockGranted`), a cancelled thread gets out (`CancelReturns`) |
| `kmutex_eintr` | the same | *violated*: finding 1 |
| `proc` | 5 slots (idle, init, 3), sleeping closes, kill-all | the tree, the lists and the queues stay consistent (`TreeOK`, `QueuesOK`); nothing freed is referred to (`NoUseAfterFree`) |
| `proc_halt` | 4 slots, closes do not sleep, kill-all, fair | the parent's wakeup is never lost (`BlocksUntilOneExits`), no KASSERT fails (`NoPanic`), `do_waitpid` returns (`WaitpidReturns`), halt makes every process exit (`HaltKills`) |
| `proc_lost_wakeup` | 4 slots, sleeping closes | *violated*: finding 2 |
| `live` | Idle: 3 threads, keyboard, fair; TokenBucket: 1 packet, depth 1, no SIGINT, fair | the dispatch is safe from handlers (`DequeueIsSafe`), the level is per thread (`IplIsPerThread`), no thread is in two places or none (`OnePlace`), each gets the CPU again (`EveryThreadRunsOn`); the emulation ends, starves or breaks (`EmulationEnds`) |
| `idle_halt` | Idle as above | *violated*: finding 3 |
| `file_system` | Cache: 3 threads, 2 inode numbers, 2 vnodes, 2 frames, 1 page, one mapping at a time, of the only file in memory. Files: 2 processes, 5 paths; either 2 inodes, 2 entries, 2 descriptors, 2 files ("open") or 3 inodes, 1 entry, 1 descriptor, 1 file ("dirs") | exact counts (`RefcountExact`), one owner of a busy page (`BusyHasOneOwner`), what was written to a dirty page stays on a dirty page, or on its way out, until the disk has it (`NoLostWrite`) and in memory as long as its file has links (`DataKept`), wakeups and no slot used again under a sleeper (`SleepersOK`); descriptors and vnodes counted through dup2, fork, exit and errors (`FileRefsExact`); no inode freed in use (`InodesStay`) |
| `cache_stale` | Cache | *violated*: finding 4 |
| `files_inodes` | Files | *violated*: finding 6 |
| `parts` | Memory: 2 processes, 4 objects, 1 page, 2 values, with and without a file. Vmmap: 4 pages, 2 objects. Heap: 9 pages in blocks of up to 8, slabs of 1 and of 2 pages, 2 objects each. Pids: 4 processes, 3 numbers. LinkedList: 4 elements, 2 objects. TokenBucket: 2 packets, depth 1, up to 2 tokens each, SIGINT | copy-on-write refines private copies (`CopyOnWrite`), with exact counts and no stale translation (`RefcountExact`, `TranslationsFresh`); the areas refine a map (`ImplementsMap`), sorted, counted and followed by the translations (`SpaceOK`); blocks never overlap, bits and counts tell the truth (`HeapOK`); numbers differ and none is skipped (`NumbersOK`); the list is its sequence (`StandsForSequence`); packets are counted and in order (`PacketsKept`) and nobody is left waiting (`NobodyLeftWaiting`) |
| `memory_shared` | Memory | *violated*: finding 5 |

**Bounds.** Nothing is cut off, except by `OneMapping` (while a page is mapped writable, one process has it mapped and its file is the
only one in memory), `TwoInodes` and `OneFile` of MCFileSystem (the two instances of Files in the table), by `FewSlabs` of
MCParts, and in that `do_link` forgets a reference to one vnode only once (`kept`
in Files); the bounds are the sizes of the sets. Three threads are the least with which one
holds a mutex, two wait and order matters, and one can be cancelled in the middle of a queue. With two mutexes
the same holds by the proofs below, which are for any number. Three ordinary slots let
a child and a grandchild exist beside the process that waits, so that a parent dies between its own parent and
its child, and each slot is freed and used again; for liveness two ordinary slots suffice: one waits,
one exits. In Cache two inode numbers with two vnodes let one slot be deleted and used again for the other
file while a third thread sleeps for it; two frames do the same for pages. Of the pages of one file only one
is needed: pages meet in the reference count, and two files give two of them. A mapping matters to Cache only through the stores to its page: one
process that stores while two others write, clean and give up that page is enough to have a store before, during and after
a clean, and the proofs are for any number of mappings. Four memory objects hold a chain of three shadows
over a bottom (fork of a fork after an exit). Four pages give an area both a left and a right neighbour with
room between, which is what the overlap cases distinguish. A heap of nine pages joins through three orders and leaves one page over. Small slabs are made only beside a block of four pages
(`FewSlabs` in MCParts), so that both sizes of slabs share the other four pages, where memory runs out soon and both are reclaimed at once. Four processes over three numbers exhaust them.
Symmetry is used only in runs with no liveness property.

**Deadlock.** The check is off where the system really stops: a KASSERT, a machine that is shut
down, two threads with two mutexes in opposite orders, a program that has ended, or (Memory) no object left.

**Fairness.** *KMutex:* the CPU switches (`WF Switch`), a dispatched call returns (`WF`),
devices interrupt (`WF Wakeup`), a thread gives up the CPU now and then (`WF Yield`, as kernel
code has no infinite loop without a sleep), and a holder that runs again and again unlocks
in the end (`SF kmutex_unlock`: critical sections are finite, but may sleep, so that the unlock is
enabled only from time to time). *Proc:* the same for switching and returning;
a device answers when an *uncancellable* sleeper waits for it, since these are disks, while a
terminal, on which threads sleep cancellably, may be silent for ever; a cancelled process reaches the
check of `syscall_handler` in the end (`SF do_exit` for cancelled ones: its system call may
sleep several times). Nothing says that a process exits on its own: `WaitpidReturns` is about parents whose
children do.
*Idle:* the CPU executes, devices finish, an interrupt raised is taken when it is unmasked
often enough, and somebody goes on typing, without whom finding 3 stops the machine.
*TokenBucket:* each thread runs, and gets the mutex if it is free again and again (`SF`): whoever had it
sleeps, or waits, before it takes it anew.

## 4. Findings

1. **-EINTR with the mutex held** (`kmutex_eintr`; `K/proc/kmutex.c:73`). `kmutex_unlock` makes the
   longest waiter the holder; if that thread is cancelled before it runs, its
   `kmutex_lock_cancellable` returns `-EINTR`. `K/include/proc/kmutex.h:50-51` promises
   -EINTR only "if the sleep was cancelled and this thread does not hold the mutex". The caller believes
   it has nothing to unlock, so nobody ever unlocks.
2. **Lost wakeup of a waiting parent** (`proc_lost_wakeup`; `K/proc/proc.c:204`). `proc_cleanup`
   wakes the parent first, and closes files, which may sleep, before it sets `PROC_DEAD`. The parent
   scans in between and sleeps again; nothing wakes it when the child is dead. It needs a file
   whose close does I/O; `proc_halt` shows that it does not happen with ramfs.
3. **Halting over a runnable thread** (`idle_halt`; `K/proc/sched.c:255`). From the second round of
   its loop on, `sched_switch` tests the run queue with the level low and interrupts on. A
   handler between the test and `intr_disable` makes a thread runnable, and the processor
   halts. Since there is no periodic timer, that thread waits for the next
   interrupt of whatever kind.
4. **A page frame used after it was freed** (`cache_stale`; `K/mm/pframe.c:364`). After a sleep for a busy page
   `pframe_get` returns to the frame it had found instead of looking the page up again. If the fill failed, or
   the file was purged, the frame is free or holds another page.
5. **Shared mappings stay writable when a page is cleaned** (`memory_shared`; `K/vm/vmmap.c:375`). Only
   private areas are put on `mmo_vmas`, the list `pframe_remove_from_pts` walks. A process with a
   shared mapping writes on without a fault, the page is not marked dirty, and the write never reaches the disk. The
   promise `NoLostWrite` of Cache leaves such stores out.
6. **".." of a removed directory** (`files_inodes`; `K/fs/ramfs/ramfs.c:586`). A removed directory that
   somebody works in keeps its entry ".."; once the parent is removed and freed as well, looking it up fails the assertion
   of `ramfs_read_vnode`, or finds whatever uses the inode number by then.

Seen while modelling, without a run of their own (most are listed as hazards): a zombie whose thread was
set to `KT_RUN` by a sleep in its exit (the reaping parent's KASSERT fails; again only when
closing sleeps); init not woken for zombies it inherits; a reader that waits in `vget` for a vnode that is being
read is woken only when that vnode is deleted; the paging daemon, which nothing wakes; descriptor `NFILES`
accepted by four calls; `do_open` without a free descriptor; `do_unlink`, `do_stat` and `do_link` after
a failed lookup; the first mapping of an empty address space, which finds no room; `do_brk`, which drops no translation, and which, where
`p_start_brk` is page-aligned and something is mapped right there, makes that area empty when the break is set back to `p_start_brk`.

## 5. What is proved

TLAPS proves, for **any** sets of threads, mutexes and queues, with or without
cancellation; in ProcProofs for any sets of process slots and devices; in PartsProofs for any finite set of threads of Idle,
of TokenBucket for any number of packets, any needs and any depth of the bucket, with or without SIGINT, of LinkedList for any elements and objects,
and of Pids for any processes and any number of numbers; in FileSystemProofs for any finite sets of threads and page frames
and any vnode slots, inode numbers and page numbers, and for any processes, inodes, directory sizes, descriptors and paths of Files; in MemoryProofs for any finite sets of processes, memory objects and pages and
any contents; in AllocProofs for any range of user pages, any set of memory objects and any sizes of calls,
and for any group of pages, any largest order and any slab allocators of Heap:

| theorem | module | says |
|---|---|---|
| `Inductive` | KMutexProofs | `Spec => []IInv` |
| `TypeCorrect` | KMutexProofs | `Spec => []TypeOK` |
| `QueuesConsistent` | KMutexProofs | `LinksOK`, `StatesOK` and `NeverStranded` always |
| `Exclusion` | KMutexProofs | `MutualExclusion` always, hence at most one thread in a critical section |
| `NobodyForgotten` | KMutexProofs | no sleeper on a mutex nobody holds |
| `Refinement` | KMutexProofs | `Spec => ServesInOrder`: KMutex implements FairLock |
| `ProcInvariant`, `TypeCorrect` | ProcProofs | `Spec => []IInv` of ProcProofs and its types |
| `QueuesStayConsistent` | ProcProofs | `QueuesOK` |
| `TreeStaysTree` | ProcProofs | `TreeOK`: process list, children and parents are one tree |
| `FreedIsForgotten` | ProcProofs | `NoUseAfterFree` |
| `ParentsAreWoken` | ProcProofs | `~Blocking => (Spec => []BlocksUntilOneExits)`: a wakeup is never lost, except that init is not told of the zombies it inherits |
| `NeverPanics` | ProcProofs | `~Blocking => (Spec => []NoPanic)` |
| `SwitchInvariant`, `SwitchTypes` | PartsProofs | `Spec => []SwitchInv`, the invariant of Idle, and its types |
| `DispatchSafe` | PartsProofs | `DequeueIsSafe`: a dispatch has interrupts masked and a thread to take |
| `LevelPerThread` | PartsProofs | `IplIsPerThread` |
| `NoThreadLost` | PartsProofs | `OnePlace`: processor, run queue or device, exactly one |
| `BucketInvariant`, `BucketTypes` | PartsProofs | `BucketSpec => []BucketInv`, the invariant of TokenBucket, and its types |
| `PacketsStay` | PartsProofs | `PacketsKept`: packets in order, and none missing |
| `ServersCalled` | PartsProofs | `NobodyLeftWaiting`: no server sleeps when all who could wake or cancel it are gone |
| `ListStandsForSequence` | PartsProofs | `StandsForSequence`: the links, the count and the search of `my402list.c` are a sequence's |
| `NumbersAreUnique` | PartsProofs | `PidsSpec => NumbersOK`: no two processes share a number, and `_proc_getid` gives the next free one |
| `CacheInvariant` | FileSystemProofs | `Spec => []IInv` of FileSystemProofs, the invariant of Cache |
| `CountsAreExact` | FileSystemProofs | `RefcountExact` |
| `BusyPagesAreOwned` | FileSystemProofs | `BusyHasOneOwner` |
| `NothingIsLost` | FileSystemProofs | `NoLostWrite`: data written to a dirty page; stores to a clean page that is still mapped are excepted (finding 5) |
| `LinkedDataIsKept` | FileSystemProofs | `DataKept`, an action property |
| `SleepersAreTold` | FileSystemProofs | `SleepersOK`: no lost wakeup for a page, no slot used again under a sleeper |
| `TypeCorrect` | FileSystemProofs | the types of Cache, with the bound of `vn_refcount` |
| `FilesAreCounted` | FileSystemProofs | `FilesSpec => []FilesCounted`, the counts of Files and that what is referred to is there |
| `FileCountsAreExact` | FileSystemProofs | `FileRefsExact`: `f_refcount` and `vn_refcount` on every path of every call |
| `InodesAreKept` | FileSystemProofs | `NoPathEndsInSlash => (FilesSpec => []InodesStay)`: nothing is freed that a file, a working directory or an entry has |
| `FilesAreTyped` | FileSystemProofs | `NoPathEndsInSlash => (FilesSpec => []FilesTypeOK)`: no count or link count is negative |
| `MemoryInvariant`, `TypeCorrect` | MemoryProofs | `Spec => []IInv` of MemoryProofs and its types |
| `CountsAreExact` | MemoryProofs | `RefcountExact`: exact counts, and what no area reaches is free |
| `NoStaleTranslation` | MemoryProofs | `TranslationsFresh` |
| `Refinement` | MemoryProofs | `Spec => CopyOnWrite`: Memory implements PrivateMemory |
| `TypeCorrect` | AllocProofs | the types of areas, counts and translations |
| `AreasAgree` | AllocProofs | `SpaceOK`: areas in order and disjoint, counted by their objects, no stale translation except of the pages `do_brk` gave up |
| `Refinement` | AllocProofs | `SpaceSpec => ImplementsMap`: Vmmap implements AddressSpace |
| `HeapIsTyped` | AllocProofs | `HeapSpec => []HeapTypeOK` |
| `HeapStaysWhole` | AllocProofs | `HeapSpec => []HeapOK`: no overlap, nothing leaked, truthful bits and counts, no slab reclaimed in use |

*Assumptions:* `SchedAssumption` (the run queue is no wait queue; NULL is no thread and no queue) and
`MutexAssumption` (each mutex has a wait queue of its own). The sets may be infinite. `ProcAssumption`: idle and init are two
threads, and the wait queues are those of the processes and of the devices. The last two theorems about Proc are for the build in which closing a
file does not sleep (ramfs); for the other build `BlocksUntilOneExits` is false, which is finding 2, and so is `NoPanic`, because the sleep in an exit leaves
the zombie's thread in state `KT_RUN`. `IdleAssumption`:
the threads are finite, at least one, and the keyboard is none of them. `CacheAssumption`: threads and frames are finite
(their numbers are counted), slots and frames have different names, and NULL is no thread, none of them and no inode number. `MemoryAssumption`: processes,
pages and objects are finite (they are counted, and an allocation fails when there are no more); objects are numbers, since the slab allocator
takes the first free one; NULL is no object, no contents and no private memory. `SpaceAssumption`: the user pages are a range of numbers that begins above page 0 and contains the page of `p_start_brk`; `Unmapped` is no area and no page of
an object. `BucketAssumption`: the five threads differ, and a free mutex is nobody's. `FilesAssumption`: the tables are finite, inode 0 (the root's) is one of them, and a path
has a component besides the slash it may start with. `ListAssumption`: the anchor is no element, and NULL neither, nor an object. `PidsAssumption`: there is a number to give.
`GroupAssumption`: slabs have an order the allocator has and room for an object.

`InodesAreKept` and `FilesAreTyped` have one hypothesis more, `NoPathEndsInSlash`. The code needs it: `do_rmdir` of a path with a slash at the end
passes the empty name on, which names the directory itself, and `ramfs_rmdir` then takes its first free entry for the one it looks for and
drops a link of whatever inode that entry named last. After mkdir a, mkdir b, rmdir a, mkdir b/a, a further rmdir of / frees the inode
of b/a under its name; TLC finds this when the run has the path. The first two theorems about Files hold for such paths, too.

*Argument.* Exclusion alone is not inductive. A thread that returns from
a lock call does not look at `km_holder` again: it trusts whoever dequeued it. So one needs
`Granted`: a thread in a lock call that is on no mutex queue any more and will return
success is the holder. To keep `Granted` when a thread is dequeued one must know *who*
can dequeue it: only the unlock (which makes it the holder) and a cancellation (which
makes the call fail), and the latter only of sleepers in a cancellable call, which is `FramesMatch`.
That a dequeued thread is not also on another queue is `LinksOK`, with
`StatesOK` for the decision of `sched_cancel`, and `NeverStranded` says the running thread
is on none. Their conjunction, with the types, is `IInv`; it is also checked by TLC in `kmutex`.

*Layout.* `SeqLemmas`: appending, taking the head and removing an element, on sequences
without repetition, and the least of a set of numbers. `SchedProofs`: each operator of Sched keeps the queue part of the
invariant, `QueueOK`, and what it changes, for use by any module that extends Sched.
`KMutexProofs`: one lemma per action; then, for the refinement, each action is one step of FairLock or
a stutter: taking a free mutex is *Acquire*, going to sleep on one *Wait*, cancelling a sleeper
*Abandon*, unlocking *Release*, and a successful return *Enter*; everything else stutters.

*Proc.* `TreeOK` says that children and parents name each other and that the live processes are those of `_proc_list`. It
is not inductive alone: were a process its own ancestor, reaping a child could free the parent in whose name it happens, and
reparenting could make init its own parent. `Grounded` excludes that for sets of any size: every set of live processes without idle
has a member whose parent is outside it. Its step cases are to attach a new leaf, to cut one off, and to move the orphans to init, which is no
descendant of theirs because it exits last (`Family`: idle's only child is init, and init leaves only
when it has no children). `Place` ties the phase `pc[p]` of a process to the scheduler's view of
its thread: the process idle is never cancelled and only waits or runs (`IdleStays`), a thread in state `KT_EXITED` that does not have
the CPU is a zombie's (`ExitedIsZombie`), and only a process itself sleeps on its `p_wait` (`OwnQueue`). So what `do_waitpid` frees is a zombie that no queue holds. For the wakeups, `Leaving` adds
that without sleeps in the exit a process that has woken its parent keeps the CPU until it is dead, and is not
cancelled into another state; the parent, dequeued by then, scans afterwards. `Only` (module Queues), the filter by which
`proc_kill_all` and the broadcasts of Cache are said, keeps order: it is defined by the rank of each kept index, so that its lemma needs counting but no induction.

*Idle.* `DequeueIsSafe` and `IplIsPerThread` each speak of one statement of `sched_switch`. `CpuOK` says for
every statement what the interrupt flag is, that the queue is not empty once the loop was left (a handler only adds to it),
and that the level is high at the dequeue. `PlaceOK` says that the run queue, the requests, the raised interrupts and
the running thread share out the threads; it needs the queue without repetitions, so that taking its head removes the thread.

*TokenBucket.* Most steps move no packet (`Quiet`); each of the other seven changes the counts by one (`MoveKeeps`, `ServeKeeps`, ...), and
`StepKinds` says that there are no more. Order needs that the packet in the hands of the first thread is newer than all queued ones (`NewestLast`); the
bound of `q1_to_q2`, which a SIGINT leaves behind the others, needs `MovesCounted`. The counters are changed without the mutex, so why a server cannot
sleep for ever is a chain of reasons (`WaitOK`). The second thread ends only when no packet is left to move (`AllMoved`), and its
broadcast leaves at most one server between the test and the wait, because both would be inside the mutex (`OneAwake`).
A server that then finds nothing to do knows that the counters do not add up yet, so the other server has the missing packet in its hands.
The server that finds everything served cancels the other unless its flag is set, and whoever waits has cleared its flag
(`FlagCleared`, `FirstCancels`); a thread is cancelled, before SIGINT, only when all is served (`CancelledServed`). After SIGINT the broadcast
of the third thread comes inside the mutex, and nobody waits again because `flag_server` is cleared first (`NobodyLeft`). The initial flags
`p_flag`, `t_flag`, `s1_flag`, which the C code leaves 0, do not matter to it.

*Cache.* The code after a disk call does not look again at what it left: it clears the busy bit, drops the reference or
frees the slot it had in hand. So `PagesOK` says whose a busy page is: one thread in a disk call on it; that it is not dirty meanwhile, so that what a process stores on it
through a mapping that is still there is not among the data the kernel knows of; and that it has nothing newer than the disk unless it is being written out. Nothing is
assumed of mappings, which may lead to clean, busy and free pages. `CallsOK` says the same of busy vnodes, that
a page being filled belongs to the vnode its thread holds, and that a purge works on a file that lost its links, which
no `Create` can give back as long as the vnode is in memory. Then the counts (`Counted`), that
nothing refers to a busy or free slot (`Unheld`) and that an inode has one slot (`OneSlot`) follow action by action: whoever changes a count
holds a reference, hence the slot is in use and not busy. Each action on a page that only sets flags is one case of
`PageStep`; the others change the sets that are counted by one thread, by one frame, or by the set of purged pages.
For the sleepers (`SleepInv`), a thread is in one place, so that whoever runs is no sleeper and changes only its own call;
then every action either leaves what others wait for (`Settles`) or ends with the broadcast that takes them all off the queue.

*Memory.* What a process sees is found along a chain, and a fork, an exit or a store changes many chains at once. `ChainsOK` says
that chains agree: below an object lies what the object it shadows says. `Owners` says that the
object of a private area is referred to by that area and nothing else, so that a store or the copy of a page into it is
seen by its process only, and a fork that puts two new shadows over it leaves the old one read-only. With `Counted`,
an object that `shadow_put` frees has no reference but the one that is dropped and its own pages; so the objects that go are the
first ones of one chain, no other chain passes through them, and the next object loses one shadow. That nothing leaks is not
local: `Referenced` says only that each object has an area or a shadow. Were some object reached by no area, take the one with
the longest chain: a shadow of it would have a longer one, and an area would reach it. The new objects of map and fork have no pages,
so lookups pass through them (`Grows`). Of the abstract steps, mapping privately is *Map*, unmapping and exit *Unmap*, a
write to a private area *Store*, forking a process that has one *Fork*; everything else, read faults and shared areas
included, stutters (`MemStep`).

*Vmmap.* A list in order whose areas are disjoint and not empty has at most one area for a page, so what a page shows depends on the set of
areas only (`ShownBy`, `ShownByNone`), and every operation is said as what it does to that set. `PiecesLeft` goes through the five cases of `vmmap_remove` for
one area: the pieces lie in it, outside the range, and show on what it showed. `vmmap_remove` puts the pieces of all areas behind each other,
a fold over the list; instead of an induction, `RemoveCuts` takes the least number of areas for which the result were not in order, or
showed something else, or did not have `AddUp`, the areas of each object there were, plus the splits, less those that went, which
is what the references count; `PrefixNext` is the step that refutes it. `InsertPlaces` says the same of `vmmap_insert`. For the
promise that a mapping without an address gets the highest room, `HighestRoom` takes a supposed room above and the least area that ends above its start:
that room is directly below an area, or above all. Then munmap, both forms of mmap and brk are each the step of AddressSpace they promise; faults
and panics stutter.

*Files.* The counts are proved for the whole call at once, although it walks a path, opens, fails and undoes: a walk and the error exits only return
inodes that are there (`FilesCounted`: a descriptor's file has a vnode, a vnode with a reference has its inode), so each reference a call takes is
to something, and each it drops was counted. The walk is a recursive function of the number of components, and what it returns is proved for the least number of components for which it
were wrong. A fork or an exit changes the count of every file and vnode by the size of a set of descriptors. That a freed inode has no name left needs the entries: `Linked` says
that an inode has at least as many links as entries that name it, which is what freeing at no link needs, and that ".." names a directory or what
is freed; each call adds an entry with a link, or takes one entry and one link of the same inode away.

*LinkedList.* The ring between the nodes before and after each place (`Ring`), with the count and NULL in the elements that are off the list, is inductive: an
insertion or removal changes the links of two neighbours and shifts every place behind them by one. `My402ListFind` is defined by a recursive function that follows pointers, so that
its existence is not given: a function with the required values is written down (the first hit from the place on), and that any such function
has them is shown by the last place at which it had not.

*Pids.* The scan of `_proc_getid` goes in a circle. `Ahead` is how far a number is from `next_pid`; the scan goes from one number to the one that is
one further, so the same argument works with the number furthest ahead. So -1 comes only after all numbers were looked at, and a number
only after all before it.

*Heap.* There is one block of each order around a page, so no overlap and no leak together say that around each page exactly one block is free or in use (`Tiled`).
A block of a page and the buddies on the way up to a larger block are the parts of that one, around each page just one (`PartsAre`); splitting puts the parts in the place
of the block, joining does the reverse. A bit is the exclusive or of two buddies' being free, and exactly those on the way up change (`FlipIs`). That joining
stops at the right order is where the bits are needed: of a block that is in use itself, the buddy is free just when the bit is set. Reclaiming folds `Join` over a set of slabs,
and a block's size is a recursive function; both are proved by the least number at which they would fail.

*Only model-checked:* every liveness property (`LockGranted`, `CancelReturns`, `WaitpidReturns`,
`HaltKills`, `EveryThreadRunsOn`, `EmulationEnds`), since the prover has no ENABLED and so no fairness. Of the safety properties only
`PartsTypeOK` of the runs `file_system` and `parts` has no theorem with its name: it is the conjunction of the types of the parts,
each of which is proved in a module of its own, since the parts do not share variables; the types of LinkedList and Pids are conjuncts of their invariants.

## 6. Not modelled

The repository holds far more text than behaviour of its own. Half of it is `src/codeBase`, a copy of the rest;
`src/kernel1` and `src/kernel2` are earlier states of the same functions; of `src/kernel3` about a third is user
programs, a C library and a dynamic loader, and another large part headers (ELF constants, device registers). None of these is
modelled, so the map covers a small share of all lines, but most of the kernel's stateful code.

* **s5fs and the drivers** (`K/fs/s5fs`, `K/drivers`): the sources are stubs and the build links a library. What
  their callers see of them, a wait until an interrupt that may end in an error, is there.
* **Hardware** set-up and page-table layout, **formatting**, **program loading**: no interleaving and little state.
* **Moving data**: `do_read`, `do_write`, `do_lseek`, `do_getdent`, `do_stat`, `vmmap_read`, `vmmap_write`, the
  contents of files in ramfs. They change positions and bytes; the references they take and drop are taken and dropped
  in the same call. Protections and `access.c`. `do_rename` is a stub.
* **Pinning** of page frames, used for anonymous and shadow pages only, which stay until their object goes (Memory says so),
  **pframe_migrate**, and the **paging daemon**, which runs once at boot and which nothing wakes.
* **Mounting**, special files and `vfs_shutdown`.
* Stacks and registers; several threads per process and the join of `kthread.c` (`MTP=0`); exit statuses.
  `proc_kill` of a single process: outside the tests only `proc_kill_all` calls it, and Proc has it as part of that.

Vmmap takes `p_start_brk` to lie inside a page, as it does unless the data segment of a program ends on a page boundary: a break set back to
a page-aligned `p_start_brk` is left out (see the end of section 4). Of memory in Memory each process has one area; areas beside each other are Vmmap's. Files and Cache overlap in
`vput`: Files has it without sleeps (ramfs), Cache with them.

## 7. Plan

Done: Sched, KMutex, FairLock, Proc, Idle, Cache, Memory and PrivateMemory, Vmmap and AddressSpace, Files, Heap, Pids,
LinkedList, TokenBucket; proofs of all their safety properties. Next:

1. Positions of open files (`do_read`, `do_write`, `do_lseek`) over shared `file_t`s in Files.
