# core-from-dust: TLA+ models, checks and proofs

core-from-dust is a teaching kernel for RISC-V (`os/`), with a small file system
(`easy-fs/`), a tool that packs disk images (`easy-fs-fuse/`) and user programs
(`user/`). There is one CPU. The kernel runs with interrupts off: a task that has
entered it runs until it suspends, blocks, exits or goes back to user mode. What
makes the code hard is therefore not data races but the order of *stretches* of
kernel code: what a task had decided before it was switched out, and what the
others have done by the time it runs again.

## Inventory

| Component | State | Operations | Hard behaviour |
|---|---|---|---|
| Scheduler (`os/src/task/{mod,manager,processor}.rs`) | `TASK_MANAGER.ready_queue`, `PROCESSOR.current`, `task_status` | `run_tasks`, `suspend/block/exit_current_and_run_next`, `add_task`, `wakeup_task`, `remove_task` | a task lost, or queued twice; the idle loop runs with interrupts off |
| Blocking primitives (`os/src/sync`, `os/src/syscall/sync.rs`) | `locked`, `count`, a `wait_queue` per object | lock, unlock, up, down, wait, signal | hand-over of a mutex to a task that has not run yet; lost wake-ups; `wait` unlocks, blocks and locks again |
| Sleep timers (`os/src/timer.rs`) | `TIMERS`, a heap by deadline | `sys_sleep`, `check_timer`, `remove_timer` | several sleepers due at once; a sleeper whose process exits |
| Trap handler (`os/src/trap/mod.rs`) | the point where a task will continue | system call, timer interrupt, fault, `check_signals_of_current`, `trap_return` | signals are looked at only on the way out of a trap |
| Processes and threads (`os/src/task/{process,task}.rs`, `os/src/syscall/{process,thread}.rs`) | the PCBs, `children`, `parent`, `is_zombie`, `exit_code`, `PID2PCB`, `tasks` | fork, exec, waitpid, kill, exit; thread_create, waittid | parent and child exit in either order; `Arc` counts that `waitpid` asserts; tids reused before they are waited for |
| Identifier allocators (`os/src/task/id.rs`) | `current`, `recycled` | alloc, dealloc | an id given out twice; kernel stacks and trap contexts are placed by id |
| Pipes (`os/src/fs/pipe.rs`) | ring buffer, `head`, `tail`, `status`, weak reference to the write end | read, write, close by drop | partial transfers across suspensions; end of file against a late write |
| Descriptor table, OS inodes (`os/src/syscall/fs.rs`, `os/src/fs/inode.rs`) | `fd_table`, `offset` | open, close, pipe, dup, read, write | shared offsets after fork and dup |
| Frames and address spaces (`os/src/mm`) | free frames, page tables, areas | map, unmap, copy for fork, recycle at exit | a frame with two owners; exhaustion |
| Block cache (`easy-fs/src/block_cache.rs`) | 16 entries with a dirty flag | get, modify, evict, sync | eviction of an entry in use; a crash between write-backs |
| Disk layout and file system (`easy-fs/src/{bitmap,layout,efs,vfs}.rs`) | bitmaps, inodes, indirect blocks, the root directory | create, find, read, write, clear | a block with two owners; indirect boundaries; a full disk |
| Synchronisation programs (`user/src/bin`) | static variables, sync objects | Peterson, Eisenberg-McGuire, adders, philosophers, barrier, bounded queue | interruption between any two loads and stores; signals that come before the wait |
| Coroutines (`user/src/bin/stack{ful,less}_coroutine.rs`) | task slots, a queue of futures | spawn, yield, return, poll | a task passed over, or `run` that ends too soon |
| Shell (`user/src/bin/user_shell.rs`, `cat.rs`, `count_lines.rs`) | descriptors, pipes and children of a line | pipe, fork, dup, close, exec, waitpid | a write end that somebody keeps: the reader never ends |

Components call each other directly. `trap_handler` dispatches the system calls;
those call the primitives, which call the scheduler (`block_current_and_run_next`,
`wakeup_task`); the timer interrupt calls `check_timer`, which calls `wakeup_task`;
the exit of a process reaches into the ready queue, `TIMERS`, the process tree, the
descriptor table (whose `Arc`s keep pipes open) and the address space.

What makes each component correct: no task lost or in two queues, and nothing
scheduled after its resources are gone (scheduler); mutual exclusion, no lost
wake-up, first come first served, and the counting contract of semaphores
(primitives); each sleeper woken once and never early (timers); every process
reaped exactly once with its own exit code, and the tree kept a tree (processes);
bytes delivered once and in order, end of file only when nothing more can come
(pipes); every id, frame and block with at most one owner (allocators, address
spaces, file system); reads see the last write, and what `sync` wrote survives
(block cache).

## Plan

Done:

1. `KernelSync`, with its contract `SyncContract` and its proofs.
2. `Process`, over `RecycleAllocator`, with its contract `ProcessContract`, and the
   proofs of both.
3. `Pipe`, with its abstraction `ByteChannel` and its proofs.
4. `PageTable` and `MemorySet`: frames, page tables, address spaces, and where threads
   have their stacks and trap contexts, with the proof that every frame has one owner.
5. `BlockCache`, which implements `Disk` through evictions, `sync` and crashes, and its
   proofs.
6. `DiskInode` and `EasyFs`: layout, bitmaps, inodes on three levels, the directory, and
   its proofs.
7. `OpenFiles` and `Shell`: descriptor tables, shared offsets, pipelines.
8. The user programs: `Peterson`, `Eisenberg`, `SyncPrograms`, `Coroutines`, with the
   proofs of the two locks, of the synchronisation programs and of the schedulers.

To do: creation of mutexes, semaphores and condvars while threads use others.

An invariant whose name ends in `Inv` is a conjunction of parts that are stated, and
commented, each by itself; a run that checks it checks all of them.

## KernelSync

`KernelSync.tla` composes the scheduler, mutexes, semaphores, condition variables,
timers, the trap handler and the exit of one process. Its threads share the sync
objects; `Peers` are tasks of other processes, which keep coming back to user mode,
as `initproc` does in its `wait` loop, and may kill the process.

* Only `current` acts. `pc[t]` and `arg[t]` stand for what `task_cx` and the kernel
  stack of `t` save: where `t` goes on when it runs again.
* A call is one action up to the point where it may be switched out.
  `sys_mutex_lock` only enters the call, since `Condvar::wait` enters `Mutex::lock`
  the same way after its wake-up; `lock_free`, `lock_block` and `lock_spin` are the
  ways it goes on.
* `suspend_current_and_run_next`, `block_current_and_run_next`, `wakeup_task` and
  `add_task` are operators on the variables those functions write; actions combine
  them as the calls do. `Condvar::wait` wakes a waiter of the mutex and blocks its
  caller in one action.
* The exit of the main thread marks the process as a zombie and then takes one step
  for each task of the process (`recycle_task`), and nothing else runs meanwhile.
* `timers` is a set of records; the heap's `peek` is any record with the least
  deadline.
* `holds` and `tokens` are history: which `lock()` has returned, and how many tokens
  a semaphore has been given less the `down()` calls that have returned.

`SyncContract.tla` is the abstract specification: a lock is acquired while nobody has
it, and a `down()` returns against a token. It knows neither queues nor threads that
block.

Left out: registers, the trampoline, creation of sync objects (they exist from the
start), system calls that touch none of this state. A program unlocks only mutexes
it holds; `Calls` says which calls the programs of a run make.

### Runs

| Run | Checks | Shows |
|---|---|---|
| `sync` | `KernelInv`, `ImplementsContract`, `FirstComeFirstServed`, `SleepersInOrder` | three threads, a blocking and a spinning mutex, a condvar, a semaphore and timers, with kills, faults and exits at any point |
| `sync_live` | `LockIsGranted`, `SleepersWake` | no starvation on a blocking mutex; every sleeper wakes |
| `sync_kill` | `KillTerminates` (violated) | a killed process whose main thread is blocked stays for ever |

`KernelInv` is the conjunction of `TypeOK`, `OnePlace` (no task lost, or queued twice),
`RunnableHasRes`, `ZombieNeverRuns` (nobody is scheduled after the exit of the process) and
what the proof below needs besides. `SleepersInOrder` is about whole passes of
`check_timer`: sleepers become ready in the order of their times, each once, and when it
returns nobody is left asleep whose time has come, which is right only because the heap
has the earliest on top. A sleeper that goes otherwise goes with its process, and is not
queued.

Bounds: three threads are the least number at which a mutex is handed over while a
third task asks for it, and at which two tasks wait in order. In
`sync` `MaxTime` is 2, so that two sleepers may be due at the same interrupt
or at different ones, and `MaxTokens` is 2. The two threads that are not the main one are
symmetric (`Others`); the properties of this run are all of safety.

Fairness (`KernelFairness`): a task in the kernel goes on by itself, and so does the
idle loop: weak fairness. A timer interrupt that is pending is taken as soon as the
CPU is in user mode, however often the program enters the kernel in between: strong
fairness. So is that of `Tick`, which is off only while `check_timer` runs. Nothing
is assumed of programs, except in `sync_live`, where no thread keeps a mutex for
ever (`UnlockFairness`).

### What `sync_kill` shows

`sys_kill` sets a bit that a thread looks at only at the end of its own next trap, and
wakes nobody; a thread other than the main one that sees it exits alone. A process
whose main thread is blocked on a mutex, semaphore or condvar is never terminated.
`user/src/bin/until_timeout.rs` kills a child that has run too long and then waits for
it: with such a child it waits for ever.

### Proofs

`KernelSyncProofs.tla` proves for every number of threads, peers and objects, from the
three assumptions on the constants:

* `KernelInvariant`: `Spec => []KernelInv`. `OnePlace` alone is not inductive. That a
  woken task may go on at once needs `Continuations` (where a task waits agrees with
  where it will go on); that an unlock meets no second owner needs `OneGrant` (held and
  handed-over count together) and `LockedWhileUsed`; that a `down()` has a token needs
  `SemaphoreQueue` and `TokensAccounted`, whose step counts the calls that are due by
  the cardinality theorems; that nobody runs after exit needs `ExitIsExclusive`.
* its parts as theorems of their own: `TypeCorrect`, `TasksInOnePlace`,
  `RunnablesHaveRes`, `ZombiesNeverRun`, `MutexesLockedWhileUsed`, `SemaphoreQueues`.
* `KernelImplementsContract`: `Spec => Contract!Spec`, one step for each action.
* `WaitersInOrder`: `Spec => FirstComeFirstServed`. Each change of a queue is an append,
  or the removal of the head (`QueueMoves`); with `OnePlace`, no task is in a queue
  twice, so who is gone was the head.
* `SleepersAreInOrder`: `Spec => SleepersInOrder`. Only the end of `check_timer` takes a task
  out of it (`TimerEnds`), and then the top of the heap is not due, hence nobody is
  (`TopOfTimers`, by the least of a set of naturals). That a sleeper is queued once is
  `OnePlace`.

There is one lemma per action, and under it one step per conjunct. `QueueLemmas.tla`
has what the proofs need of sequences: the range, length and injectivity of `Append`,
`Tail`, `Front` and `RemoveFirst`, and of folds: that they keep an invariant.

Only model-checked: liveness.

## Process

`Process.tla` has the PCBs and the `tasks` of each: fork, exit, waitpid, thread_create,
waittid. A PCB is named by its pid, which its `PidHandle` keeps until the PCB is
dropped. A call is one action. A thread is in user mode or in the kernel, switched
out; which one runs next is left open, since `KernelSync` has the queues.

* `tasks[p]` has a slot for each tid: `None`, `"Live"`, or the exit code that waits for
  waittid. A tid is taken from `task_res_allocator[p]` and goes back to it when the
  thread exits, which is before anybody has waited for it.
* `stack_refs[p]` are the threads whose kernel stack has an `Arc` of the process:
  `sys_semaphore_down`, `sys_condvar_wait`, `sys_read` and `sys_write` keep theirs
  while they are switched out, `sys_mutex_lock` drops it first. `strong_count` is what
  waitpid asserts to be 1.
* An assertion that fails, or an index out of bounds, stops the machine: `panicked`
  names the function.
* `RecycleAllocator.tla` has the allocator as operators on records. `Given` are the ids
  that are given out, `Sound` is what its assertions rely on.
* `Calls` says what programs do. With `abandon` a program may exit while its threads
  are in a call that keeps the process; with `fork_joined` it may fork after it has had
  other threads; with `waittid_any` it may wait for a tid it was never given.

`ProcessContract.tla` is the abstract specification: a process runs, terminates, keeps
its code and its pid until its owner reaps it, and its owner always runs.

| Run | Checks | Shows |
|---|---|---|
| `process` | `ProcessInv`, `NoPanic`, `ImplementsContract`, `OrphansReaped` | three processes with up to three threads fork, exit and wait in any order, and abandon threads in mutexes |
| `process_leak` | `ReapedIsUnreferenced` (violated) | the assertion of waitpid fails |

`ProcessInv` is `TypeOK`, `ProcessTree` (every process is once among the children of one
that runs), `AllDescendFromInit`, `PidsExact` and `TidsExact`.

Bounds: three processes are INITPROC, a parent and a child, so that an orphan meets
INITPROC as a zombie or alive; a pid is reused as soon as one is reaped. Three tids are
the least at which an earlier tid is reused while a later one lives. Fairness: only that
INITPROC calls `wait` again and again, as the loop of `user/src/bin/initproc.rs` does;
`waitpid` does not block, so nothing else is needed.

`process_leak`: a process that exits while one of its threads is blocked in
`semaphore_down`, `condvar_wait`, or suspended in `read` or `write`, leaves an `Arc` on
a kernel stack that is never unwound, and its parent's waitpid panics the kernel.

The model has three more disagreements between code and comments, behind `Calls` that
the run leaves out. With `waittid_any`, waittid of a tid that was never given out indexes
behind `tasks` and panics (`os/src/syscall/thread.rs`, whose comment at line 43 has it
return -1). With `fork_joined`, a process that has ever had a second thread panics when
it forks, since `thread_count` is the length of `tasks`. And a thread that is created
after another has exited takes its tid and overwrites the exit code that the comment at
`os/src/task/mod.rs:58` says is kept for waittid.

Left out: the address space that fork and exec build (`MemorySet`), the descriptors that
fork copies (`OpenFiles`), kill (`KernelSync`).

The first part of `ProcessProofs.tla` proves, for any ids, that a new allocator is sound, that `alloc`
returns an id that is not given out (`AllocIsFresh`) and that `dealloc` takes back that
id and no other (`DeallocIsExact`). Since a recycled id comes off the end of a stack,
this needs that the stack has no id twice (`IsInjective` in `Sound`).

The rest of it proves, for any bounds on pids and tids, any exit codes and any set of
`Calls`, from `ProcessAssumption`:

* `ProcessInvariant`: `Spec => []ProcessIInv`, with one lemma for each action.
  `ProcessTree` speaks of the owners of one process and is not inductive: exit moves the
  children of a process at the end of those of INITPROC. `TreeExact` has `parent` and
  `children` as one relation seen from two sides, with no child listed twice.
  `AllDescendFromInit` gives a live INITPROC to move them to, `PidsExact` and `TidsExact`
  that a fork and a new thread meet a free place. `StacksExact` tells which kernel
  stacks refer to a process, and `PanicCause` which call each panic needs.
* `ProcessesAreATree`: `Spec => []ProcessInv`.
* `ProcessesNeverPanic`: `Spec => []NoPanic`, if `Calls` has none of `fork_joined`,
  `waittid_any` and `abandon`; with any of them the code does panic, as said above.
* `ProcessesKeepContract`: `Spec => ImplementsContract`, for all `Calls`.

Only model-checked: that orphans are reaped.

## Pipe

`Pipe.tla` has the ring buffer, the calls `Pipe::read` and `Pipe::write` byte by byte,
and the descriptors that keep the write end open.

* `pc[t]` is where task `t` is in its call. `cpu` is the task in the middle of a stretch
  of the loop; nobody else acts until it returns or suspends (`write_suspend`,
  `read_suspend`). `loop` are the turns left of its `for`, counted before the first byte.
* `buf[t]` and `want[t]` are what is left of the iterator over the user buffer.
* A write end is open while a descriptor or a write call has an `Arc` of it, also a call
  of a process that has exited (`lost`). Of the read end nothing is asked by the code.
* close, dup, fork, thread_create and exit change the descriptors.

`ByteChannel.tla` is the abstract specification: a sequence of bytes, a flag for the
write end, and end of file, which may be told only when the write end has gone and
nothing is under way. `Contents` maps the ring buffer to the sequence.

| Run | Checks | Shows |
|---|---|---|
| `pipe_channel` | `RingConsistent`, `ImplementsChannel` | two bytes, a ring of three, calls of up to four bytes |
| `pipe_live` | `ReadersSeeEof`, `WritesComplete` | three tasks of two processes, a ring of one; close, dup, fork, exit at any point; a reader that waits when the last write end goes returns; a write longer than the ring completes while others read |

Bounds: calls may be longer than the ring, so that they go around and suspend in the
middle; two different bytes tell order and duplication; a call of zero bytes is among
them. All tasks may exit, so `CHECK_DEADLOCK` is off.

Fairness: a task in the kernel goes on (weak); a suspended task is in the FIFO ready
queue and runs again (strong, since others run in between). Nothing is assumed of
programs. `WritesComplete` holds only if readers go on and no second writer stays: two
writers of a full pipe do not queue, and the one that runs right after the reader
may keep the other out for ever.

The exit of the main thread clears `fd_table`, but a thread suspended in `Pipe::write`
has a clone of the `Arc` on its kernel stack, which is never unwound: the write end stays
open (`lost`), and the readers of such a pipe wait for ever. It is the cause of
`process_leak`, met by another process; `ReadersSeeEof` speaks only of write ends that
are gone.

`PipeProofs.tla` proves for any processes, tasks, bytes and ring size, from
`PipeAssumption`:

* `TypeCorrect` and `RingAlwaysConsistent`. Their invariant `PipeInv` adds `InLoop`, that
  only the running task is in a loop: otherwise the count of another would go stale when
  a byte moves.
* `PipeIsChannel`: `Spec => ImplementsChannel`. `WriteByteContents` and
  `ReadByteContents` show that the ring buffer's step is `Append` or `Tail` of the
  contents, whether or not it goes around; `ClosedForGood` that no step opens the write
  end again.

Only model-checked: the liveness properties.

## BlockCache and Disk

`BlockCache.tla` has the queue of cached blocks with their dirty flags, between a file
system that nests closures and a device that is synchronous.

* `get_hit`, `get_load` and `get_evict` are the three ways of `get_block_cache`; an
  eviction takes the first entry that only the queue refers to, and writes it back.
* `held` are the caches of the operation that runs, outermost first; `release` is the
  return of the innermost closure.
* `block_cache_sync_all` goes entry by entry (`sync_next`), and a `crash` may come
  between any two steps: the cache is lost, the device stays.

`Disk.tla` is the abstract specification: contents, of which any block may be made durable
at any time; a sync may return only when all is durable; a crash goes back to what is.

| Run | Checks | Shows |
|---|---|---|
| `cache` | `CacheInv`, `NeverRunsOut`, `ImplementsDisk` | four blocks, three entries, up to three of them held, crashes anywhere |

`CacheInv` is `TypeOK`, `OneCopy` (a block is cached once, and what is held is not evicted)
and `SyncedIsDurable`. Bounds: one block more than there are entries makes evictions;
three nested caches are what `DiskInode::increase_size` holds at most (the inode, the
double-indirect block, an indirect block). Two contents tell old from new.

What is promised is that operations which have returned survive. A crash inside one may
leave bitmap, inode and directory from before and after it, in any mixture of blocks
(`Disk` says exactly which); the code has no recovery for that, and none is claimed.

`CacheProofs.tla` proves, for any blocks, contents, number of entries and depth of
nesting, from `CacheAssumption`:

* `CacheInvariant`: `Spec => []CacheIInv`. `SyncedIsDurable` compares the device with
  what all blocks read as, and is not inductive: `CleanIsDurable` (an entry that is not
  marked is as it is on the device) and `SyncProgress` (the entries that sync_all has
  visited are not marked, since no closure runs meanwhile) give it when sync_all returns,
  and `SyncedIsClean` keeps it through loads and evictions.
* `CacheIsSound`: `Spec => []CacheInv`.
* `CacheNeverRunsOut`: `Spec => []NeverRunsOut`. Fewer caches are held than there are
  entries, and by `OneCopy` each is one entry: one entry is left (`FS_PigeonHole`).
* `CacheIsDisk`: `Spec => ImplementsDisk`. Every step is a write, a write-back, a sync or a
  crash of `Disk`, or leaves what is read and what is durable alone; `Reads` has what a
  block reads as, for any queue and any device, and a lemma for each change of them.

## DiskInode and EasyFs

`DiskInode.tla` has `easy-fs/src/layout.rs` as operators: where block k of a file is, what
`increase_size`, `clear_size`, `read_at` and `write_at` do over three levels of blocks.
`EasyFs.tla` has the layout of the disk (`create`, `open`), the bitmaps, the directory and
the operations of `Inode`. Each holds the lock of the file system until `sync` has
returned, so it is one action; the cache below it reads as a disk, which is what
`BlockCache` shows. An index of bytes is one of units of four bytes, the size of an entry
of an indirect block, so that a block of `BLOCK_SZ` units has as many entries.

| Run | Checks | Shows |
|---|---|---|
| `fs` | `FsInv`, `BlocksOwnedOnce`, `ReadsExact`, `FilesExact` | three files on disks of 9 and of 25 blocks, written, cleared and written again until the disks are full |

`FsInv` is `TypeOK`, `LayoutSound`, `SuperBlockIntact` (a file without a double-indirect
block has 0 in its place, the superblock), `FreeIsZero` and `DirectoryExact`.
`BlocksOwnedOnce` relates the bitmap to the places that the inodes name, in both
directions. `FilesExact` compares with `files`, what a program has written. `ReadsExact`
reads every part of every file.

Bounds: blocks of two units and one direct block put the three levels at 1, 3 and 7
blocks; `MCWrites` ends in each level, crosses blocks, and starts behind the end of the
file, which leaves holes; `<<14, 1>>` needs more blocks than the three levels have places,
which the code meets as an index out of bounds and the model as a panic (`CanGrow`). The
small disk fills up in the middle of a file and its data
bitmap has bits behind the disk; on the large one a file reaches the third level while
others have blocks. A full bitmap panics in the code (`unwrap`): `panic_create` and
`panic_write` stop the model (`panicked`), which is why deadlock is not checked. A restart
after such a panic is not modelled.

### What is proved

`EasyFsProofs.tla` proves all four invariants of the run for every block size, number of
direct pointers, size of the bitmaps, set of disks, names and writes. `EasyFsAssumption`
asks that sizes are positive, that a disk has room for the inode area (`create` subtracts
without a check), and that names are not 0; inode numbers and units are naturals, and the
arithmetic of `u32` is not bounded.

The first half is about `DiskInode`, whose loops make and take apart sequences of places.
The places of a file are numbered in the order in which `increase_size` fills them
(`Place`, `Number`): direct pointers, `indirect1`, its entries, `indirect2`, and then, row
by row, an entry of `indirect2` followed by the entries of that block. `Index` is the
block id in a place. In these numbers everything is a `Segment` of a numbering:

* `TotalBlocksPlaces`: `total_blocks` of a size is the number of its places (`PlacesOf`).
* `PlacesFilledSegment`: the three loops of `increase_size` fill the places from the old
  number up to the new one, each once, also when they go on, with nothing to do, behind a
  file that ends in `indirect1`.
* `ClearedSegment`: `clear_size` collects the blocks in all places, in order.
* `ReadAt` and `WriteAt`: chunk by chunk, `read_at` returns the units from the offset on
  and `write_at` replaces them; `IncreaseSize` has what the new inode and blocks hold.

The second half is an induction on the steps with `FsIInv`:

* `Core`: the types; no two places, of one file or of two, hold the same block; the marked
  blocks are those in the places; unmarked blocks, and what is behind the end of a file in
  its last block, are zero; the superblock is intact; no file is larger than its places.
  The first is what keeps a `write_at` of one file from the data and the index blocks of
  the others. Zeros are needed as `increase_size` does not clear what it takes: they make
  a hole read as zero.
* `Directory`: the entries of the root are names and inodes, each once, for all allocated
  inodes but the root. The operations find a file by its entry.
* `FilesOf`: each file has the contents that the history says.

`PutFile`, `ClearFile` and `AddFile` say what `Put` (`increase_size` and `write_at`),
`clear` and the allocation of an inode do to a disk with `Core`; `FilesAdd` and `FilesChange`
carry that over to directory and history. The theorems follow from `FsInductive`:

* `FsIsSound`: `Spec => []FsInv`. `Layout` is the arithmetic of `create`: the data bitmap
  has a bit for each data block, and no area reaches into the next.
* `BlocksAreOwnedOnce`: `Spec => []BlocksOwnedOnce`.
* `ReadsAreExact`: `Spec => []ReadsExact`.
* `FilesAreExact`: `Spec => []FilesExact`.

## PageTable and MemorySet

`PageTable.tla` has the frame allocator and Sv39 page tables as operators on `m`, the
memory as words in pages: a page table is in frames like anything else, so a frame that
is given twice or not cleared shows. `MemorySet.tla` has areas, the kernel's space, and
what fork, exec, thread_create, the exits, waittid and waitpid do with them, in the order
of the code, which decides which frame goes where. Kernel stacks, user stacks and trap
contexts are placed by id (`os/src/task/id.rs`).

* `procs` is a function on the pids in use. `procs[p]` has the space, the allocator of tids, the threads with their kernel stack
  and the physical page of their trap context. `held` is set at exit if one of the threads
  is in the middle of a semaphore_down, a condvar_wait, or a read or write of a pipe, where
  the handler has an `Arc` of the process on its stack: the assertion of waitpid then fails
  (`reap_panics`), which is what `process_leak` is about.
* `stuck` are the kernel stacks that nothing will ever drop. A thread in
  `block_current_and_run_next` has the `Arc` of its control block in a local variable, on the
  stack that this control block owns. The exit of the process drops the control blocks of
  threads that are only suspended; one that is in `block_current_and_run_next`, asleep or
  waiting, or woken and not yet run, stays for ever, and so does its stack.
* `user[p]` is history: what the process should find in each of its pages.
* `m.sound` is false once an assertion (dealloc of a free frame, map of a mapped page,
  unmap of one that is not) has failed; `panicked` is set when no frame is left, and by
  `reap_panics`. A boot
  that runs out of frames panics, so an initial state has had enough.

| Run | Checks | Shows |
|---|---|---|
| `memory` | `MemoryInv`, `FramesOwnedOnce`, `PrivateMemory`, `TrapContexts`, `BuffersExact` | two processes with two threads each, two programs, exits with blocked threads, until memory runs out |
| `memory_leak` | `BlockedAreRemoved` (violated) | when all processes but initproc have been waited for, a kernel stack of theirs is still given out |

`MemoryInv` is `TypeOK`, `NoAssertionFails`, `TablesMatchAreas` (a space that is in use maps
its areas and nothing else) and `StacksGuarded` (the kernel stacks given out are those of the
threads that are not dropped and the `stuck` ones, and each stack has a guard page).
`FramesOwnedOnce` says that no frame is shared or given out without an owner; it does not say
that every owner is of use: the frames of the `stuck` stacks are the kernel's. `TablesMatchAreas` leaves out zombies:
`recycle_data_pages` drops the frames and keeps the entries, which nobody looks at any
more, and `FramesOwnedOnce` with `PrivateMemory` says that this does no harm.

What `memory_leak` shows: a process forks, the child creates a thread, which blocks, and
exits; after the wait for it, the stack of its thread is still there. The comment at
`os/src/task/mod.rs:102` says that "the blocked tasks are removed then the PCB is
deallocated".

Bounds: `FANOUT` 4 and `LEVELS` 3 give 64 pages; 41 frames let two processes fork and
exec, and run out with more; `MaxCalls` 7 is enough for a fork, an exec, a thread, its
exit, the exit of the process, a wait, and a fork that takes the frames again.

### What is proved

`MemoryProofs.tla` proves `FramesOwnedOnce` for every size of memory, of pages, page tables
and stacks, every number of processes and threads, and every set of programs.
`MemorySetAssumption` asks that a program has a segment and that addresses are naturals;
nothing is asked of where the segments are.

* `Holds(x, O)` is the ledger while one space is changed: the frames of the space, and those
  in `O`, are the ones given out, each once. Each operation keeps it, from `frame_alloc` up
  to `from_elf`, `from_existed_user`, `alloc_user_res` and `recycle_data_pages`. After
  `frame_alloc` has failed it says nothing, and the call ends in a panic (`OutcomeKeeps`).
* No lemma looks into a page table: a walk may meet any words. Who owns a frame is told by
  the lists of `FrameTracker`s, so a wrong entry cannot make the kernel give a frame twice.
* Loops are folds. `QueueLemmas.tla` has `FoldKeeps`: a fold keeps what its step keeps, for
  an operator `FoldOp` and an invariant `FoldInv` that are constants of that module; each
  loop is an instance of it (`Walks`, `Maps`, `Copies`, `Loads`, `Kdrops`, ...). `FoldIsRun`
  is what ties a fold to the sequence of its values.
* `FramesIInv` is `Ledger` of the variables: `Holds` of the kernel, with the frames of all
  processes as `O`, and what `Processes` says of those: types, and no frame in two spaces
  or twice in one. `OpenProcess` moves to the space of one process, `ToKernel` back to
  that of the kernel, as a call does when it goes from one to the other, and `Settle` closes
  the ledger after the call. There is one lemma for each action.

`FramesInductive` is `Spec => []FramesIInv`, and `FramesAreOwnedOnce` is
`Spec => []FramesOwnedOnce`. In exec the old space is dropped while the new one is there
(`DropOther`); exit keeps the frames of the page table until the process is reaped
(`RecycleFacts`, `DropFacts`). The theorem does not say that frames come back: exit and
waitpid drop what the code drops, and the stacks of threads that were blocked at exit stay
areas of the kernel.

Only model-checked: `MemoryInv`, `PrivateMemory`, `TrapContexts` and `BuffersExact`, which
are about what the words of the page tables say.

## User programs

`MCUser.tla` runs one of them at a time (`running`), each with all its interleavings.

* `Peterson.tla`, `Eisenberg.tla`: each load and store is a step. `Eisenberg` has the code's
  lock, which leaves out the last test of the original algorithm.
* `SyncPrograms.tla`: `adder_mutex_*`, `phil_din_mutex`, `barrier_condvar`,
  `condsync_*`, `sync_sem`, `mpsc_sem`, as sequences of loads, stores and system
  calls. What a call does is that of `KernelSync`, with no more detail than a program
  sees: queues that are first come, first served.
* `Coroutines.tla`: the `Runtime` with stacks and the `Executor` of futures.
* `OpenFiles.tla`: descriptor tables, `OSInode`s with their offset, open flags, as
  operators. Here a pipe is a queue, as `Pipe` implements it.
* `Shell.tla`: a line from its commands to the prompt. Each system call is a step, of the
  shell or of a child; children wire their descriptors with `close` and `dup`, which gives
  the lowest free one. `expected` is history: what the line means.

| Property | Says |
|---|---|
| `PetersonExcludes` | the two threads are never both inside, and no `critical_test_*` fails |
| `EisenbergExcludes` | at most one thread is inside |
| `SectionsExclude` | no addition is lost under a spinning or a blocking mutex; no two neighbours eat at a time |
| `BarrierHolds` | a thread is past a barrier only when all have come to it and counted themselves |
| `QueueIsFifo` | the bounded queue gives what was put, in order, and never has too much |
| `SecondAfterFirst` | the second thread of `condsync_*` and `sync_sem` waits, whoever comes first |
| `CoroutinesFair` | no coroutine gets two turns more than another; `run` ends when all have |
| `ShellWiring` | a program has the input and output of its place, and no other end of a pipe |
| `LineIsExact` | after a line, the screen and the output file have what the line means |
| `AllFinish` | every program ends and every line of the run comes back to the prompt. A line such as `cat big \| unknown`, whose second command does not read what the first writes and the pipe cannot hold, does not come back in the code, and is not among the lines |

All are checked by the run `user`. Bounds: three threads for Eisenberg and McGuire, the
adders and the barrier, four philosophers with two rounds each, two producers of two
numbers with two places, tasks that yield 4 to 16 times in a runtime of five slots, three
futures, lines of up to three commands with pipes of one byte. The nine lines
have redirections, files that are not there, programs that are not there, first in the line and
between two others, and lines that the shell refuses. What is written to a program that is not
there is what the pipe holds. None of them reads the file it writes. A program ends, so deadlock is not
checked; `AllFinish` says that none stops before.

Fairness: weak, for each thread or process, as the scheduler is round robin and the timer
interrupts whoever runs. Nothing is assumed of whoever types lines.

`UserProofs.tla` proves the two locks and the two schedulers of coroutines first:

* `PetersonMutualExclusion`, for any number of rounds. `PetersonInv` adds `FlagsUp`,
  `TurnIsInside` (a thread is inside while the other one waits only if it has the turn) and
  `GuardCounts`, what the tests of the program look at.
* `EisenbergMutualExclusion`, for any number of threads and rounds. `EisenbergInv` adds
  `ClaimedIsIn` (whoever has claimed has its flag at `In`) and `OnePasses`: of two
  threads, at most one has claimed and has since found the other not `In`, as whichever
  looked last would have seen the claim of the other.

* `CoroutinesTakeTurns`, for any number of tasks and futures and however often each
  yields, as long as `main` spawns fewer tasks than there are places, as it does
  (`CoroutineAssumption`). `RuntimeInv` says which tasks have had their turn in this round
  (`TaskRounds`: those with a place before the current one have yielded once more), so that
  `t_yield`, which goes round the places, keeps the rounds together; and that `run` returns
  only from a round with nobody ready (`AllDone`). `ExecutorInv` says that the queue
  is a round: whoever is behind was polled as often, or once more.

The rest of it proves the programs that use system calls, for every number of threads,
rounds, places and elements. The first part of that is about the code alone: `CodeIsSound`
says, by cases on the programs, that a mutex is unlocked only inside its section and that
only a lock leads there (`Within`, `LocksWell`). The rest is induction on the steps:

* `MutexesHaveOneOwner`. `QueueInv` is the types, `Waiting` (whoever is in a queue is
  blocked there, once, by the call it made last, hence in no other queue; a semaphore
  below 0 counts its waiters) and `OneOwner` (of the threads inside a section, all but one
  wait in its queue). A hand-over makes the first of the queue the owner in the step in
  which the last one leaves. All that follows uses it.
* `SectionsAreExclusive`. `AdderInv`: `A` is the number of additions made (`Added`), and
  whoever is about to write has read `A` since. For the philosophers, two neighbours share
  a fork (`Forks`), which has one owner, whatever the order in which forks are taken.
* `BarriersHold`. `BarrierInv`: the count is the number of threads that have arrived, and
  nobody is behind the wait, unless blocked, until all are. One wake-up leads to
  the next, and each is made by a thread that knows that all have arrived.
* `SecondIsAfterFirst`. `CondsyncInv`: `second` leaves its loop with what it has read, and
  `A` stays set; `TokenInv`: until `first` gives the token, `second` waits for it.
* `QueuesAreFifo`. `HolderInv`: `SEM_MUTEX` is a lock, which at most one thread has.
  `CountInv`: where the tokens of the other two semaphores are, counting the producers
  that have asked for a place and not used it (`Claims`) and those that have put an element
  and not told of it (`Offers`). Together they bound the elements in the buffer (`Room`).
  `BufferInv`: from the front, round the ring, the buffer has what was put and not printed.

The last part proves the shell, for every set of lines, of files, and number of pipes:

* `ShellIsWired` is `ShellSpec => []ShellWiring`. A child gets its wiring one call at a time,
  and nothing but the order of the calls says which descriptor `open` and `dup` return, so
  the invariant (`ShellIInv`, of `ShellInductive`) follows the code call by call. `SetsUp`
  has one case for each stage of `Setup` (a redirection is opened, the old descriptor closed,
  the new one put in its place and closed; the same for the pipes on both sides; then the
  ends are closed one after the other): it says which calls are left and, with `TableIs`,
  what each entry of the child's table is. `SetupIs` shows that the calls of the model are
  these, `SetupStep` that a call leads from its stage to the next one or ends the child,
  and `SetupEnds` that what is left at the end is what `ShellWiring` asks for.
* `PromptInv` is the same for the shell: the ends it has made, or not yet closed. A fork
  gives the child a table at its first stage.
* `OsInv` says that every `OSInode` in some table is open, and `KeepsOpen` that a call of one
  process leaves those of the others as they are (`CloseKeeps`, `ExitKeeps`, `OpenKeeps`,
  ...), which is what makes a stage of one child safe from the steps of another.

`ShellAssumption` says that a line has no more pipes than `MaxPipes`, that `cat` has its
argument, and that no line begins with `count_lines` without redirection, as the
keyboard is not modelled; `OpenFilesAssumption` that `None` is no file. `MaxOpen` bounds the
`OSInode`s that are open at a time (`CanPlace`); the code has no such bound. `AllFinish` shows
that in the run nobody waits for a place.

Only model-checked: that all finish, and `LineIsExact`. The latter says that what comes out
of the last pipe does not depend on the interleaving; a proof would have to relate all
prefixes of what every command has read and written to what `expected` computes by a fold
over the line.

## Not modelled

Start-up, console, logging, the kernel heap, the virtio driver and the image packer
are straight-line input and output or wrap a library. `os/src/task/pid.rs` (an older
pid allocator) is used by nothing. The create calls of mutexes, semaphores and condvars
are not modelled: objects exist from the start. Of the user programs, `adder.rs` and
`adder_simple_*` race on purpose, `adder_peterson_*` is Peterson's lock with fences, and
the others make system calls in a fixed order that the actions cover. Barriers in
`lazy_static` are made before any thread uses them.

Behaviour of the code that was met and that no property is about:

* `os/src/timer.rs:58` orders timers by `-(expire_ms as isize)`: a deadline of 2^63 or more,
  which a negative argument of sleep gives, counts as the earliest, is never due, and
  keeps `check_timer` from the others.
* `os/src/fs/stdio.rs:15` asserts that a read of stdin asks for one byte: `count_lines`
  without redirection panics the kernel. No line of the run `user` starts with it so.
* `os/src/fs/stdio.rs:49` unwraps `from_utf8` of each slice of a buffer: a character that
  lies across two pages panics the kernel.
* `user/src/bin/user_shell.rs:50`: a line that ends in `<` or `>` indexes behind its words.
* A command that fails before it reads leaves its predecessor with a pipe that nobody
  reads: a writer of more than the ring holds waits for ever, and the shell for it.
* A read or write of no bytes waits like any other.
* A thread that exits keeps its mutexes locked. No document says otherwise;
  `LockIsGranted` assumes that holders unlock.

Liveness is out of the prover's reach and stays with TLC, and so do what the words of the
page tables say after the loops of `MemorySet`, and what a line of the shell prints.
