------------------------------ MODULE MemorySet ------------------------------
(***************************************************************************)
(* Address spaces over the frame allocator: mm/memory_set.rs, the          *)
(* resources of threads in task/id.rs, and what fork, exec, exit and the   *)
(* thread calls (task/process.rs, task/mod.rs, syscall/thread.rs) do with  *)
(* them.                                                                   *)
(*                                                                         *)
(* A system call runs to its end without a switch, so it is one step; all  *)
(* steps of it are taken in the order of the code, which decides which     *)
(* frame goes where.  A page of a program is told by its first word.       *)
(***************************************************************************)
EXTENDS PageTable

CONSTANTS Programs,          \* each a sequence of [start, end, data]
          InitProgram,
          USER_STACK_SIZE, KERNEL_STACK_SIZE,     \* in pages
          Writes,            \* pages that programs write to
          MaxPid, MaxTid,    \* bounds: processes and threads at a time
          MaxCalls           \* bound: how many calls there are

ASSUME MemorySetAssumption ==
    /\ InitProgram \in Programs
    /\ Programs \subseteq Seq([start : Nat, end : Nat, data : Seq(Nat)])
    /\ <<>> \notin Programs
    /\ {USER_STACK_SIZE, KERNEL_STACK_SIZE, MaxPid, MaxTid, MaxCalls}
          \subseteq Nat
    /\ USER_STACK_SIZE > 0 /\ KERNEL_STACK_SIZE > 0

VARIABLES m,         \* memory and the frame allocator
          kernel,    \* KERNEL_SPACE
          kstacks,   \* KSTACK_ALLOCATOR
          procs,     \* the processes there are, by pid
          stuck,     \* ids of the kernel stacks that nothing will ever drop
          user,      \* history: what each process should find in its pages
          panicked,
          calls      \* how many calls there were

vars == <<m, kernel, kstacks, procs, stuck, user, panicked, calls>>

Ids == INSTANCE RecycleAllocator

Pids == 0..MaxPid
Tids == 0..MaxTid

TRAMPOLINE == FANOUT ^ LEVELS - 1
TRAP_CONTEXT_BASE == TRAMPOLINE - 1

-----------------------------------------------------------------------------
(* MapArea and MemorySet.  x is [m, s]: the machine and the space.         *)

VPNRange(start, end) == [i \in 1..(end - start) |-> start + i - 1]

\* map_one: y has [m, s] in x, and the data_frames so far; `fresh` is the
\* machine with a frame for this page.
MapFrame(y, vpn, map_perm, fresh) ==
    [x |-> map([y.x EXCEPT !.m = fresh], vpn, fresh.frame, map_perm),
     data_frames |-> Append(y.data_frames, fresh.frame)]
map_one(y, vpn, area) ==
    IF area.map_type = "Identical"
    THEN [y EXCEPT !.x = map(y.x, vpn, vpn, area.map_perm)]
    ELSE MapFrame(y, vpn, area.map_perm, frame_alloc(y.x.m))

map_area(x, area) ==
    FoldLeft(LAMBDA y, vpn : map_one(y, vpn, area),
             [x |-> x, data_frames |-> <<>>], VPNRange(area.start, area.end))

\* copy_data: the words of `data` into the first pages of the area.
copy_data(x, area, data) ==
    FoldLeftDomain(LAMBDA y, i :
        [y EXCEPT !.m.mem[ppn_of(translate(y.m.mem, y.s.root_ppn,
                                           area.start + i - 1))][0] = data[i]],
        x, data)

AddArea(x, area) == [x EXCEPT !.s.areas = Append(@, area)]
PushMapped(y, area, data) ==
    AddArea(copy_data(y.x, area, data),
            [area EXCEPT !.data_frames = y.data_frames])
push(x, area, data) == PushMapped(map_area(x, area), area, data)

MapArea(start, end, map_type, map_perm) ==
    [start |-> start, end |-> end, map_type |-> map_type,
     map_perm |-> map_perm, data_frames |-> <<>>]

insert_framed_area(x, start, end, permission) ==
    push(x, MapArea(start, end, "Framed", permission), <<>>)

\* new_bare and map_trampoline; the trampoline is in page 0 of the kernel.
Bare(fresh) ==
    [m |-> fresh, s |-> [root_ppn |-> fresh.frame,
                         frames |-> <<fresh.frame>>, areas |-> <<>>]]
new_bare(mach) == map(Bare(frame_alloc(mach)), TRAMPOLINE, 0, 0)

\* One area for the sections of the kernel, one for the frames.
new_kernel ==
    push(push(new_bare(init_frame_allocator),
              MapArea(0, ekernel, "Identical", 0), <<>>),
         MapArea(ekernel, MEMORY_END, "Identical", 0), <<>>)

\* from_elf, and where the user stacks begin: a page above the last segment.
from_elf(mach, program) ==
    FoldLeft(LAMBDA x, ph : push(x, MapArea(ph.start, ph.end, "Framed", U),
                                 ph.data),
             new_bare(mach), program)
user_stack_base(program) == Last(program).end + 1

\* A mutant that leaves the entries in the page table.
RemoveArea_mapped(x, i) ==
    [m |-> frame_dealloc(x.m, x.s.areas[i].data_frames),
     s |-> [x.s EXCEPT !.areas = RemoveAt(@, i)]]

\* The area is unmapped, its frames are dropped, and it is removed.
Unmapped(x, area) ==
    FoldLeft(unmap, x, VPNRange(area.start, area.end))
RemoveArea(x, i) ==
    [m |-> frame_dealloc(Unmapped(x, x.s.areas[i]).m,
                         x.s.areas[i].data_frames),
     s |-> [x.s EXCEPT !.areas = RemoveAt(@, i)]]

\* The first area that starts there.
remove_area_with_start_vpn(x, start) ==
    IF \E i \in DOMAIN x.s.areas : x.s.areas[i].start = start
    THEN RemoveArea(x, SelectInSeq(x.s.areas, LAMBDA a : a.start = start))
    ELSE x

\* A copy with frames of its own, area by area.
FirstWord(mem, space, vpn) ==
    mem[ppn_of(translate(mem, space.root_ppn, vpn))][0]
from_existed_user(mach, space) ==
    FoldLeft(LAMBDA x, area :
                 push(x, [area EXCEPT !.data_frames = <<>>],
                      [i \in 1..(area.end - area.start) |->
                          FirstWord(x.m.mem, space, area.start + i - 1)]),
             new_bare(mach), space.areas)

AreaFrames(space) ==
    FlattenSeq([i \in DOMAIN space.areas |-> space.areas[i].data_frames])

\* recycle_data_pages drops the areas and leaves the page table as it is.
recycle_data_pages(x) ==
    [m |-> frame_dealloc(x.m, AreaFrames(x.s)),
     s |-> [x.s EXCEPT !.areas = <<>>]]

\* A mutant that keeps the frames of the page table.
drop_space_tables(mach, space) == frame_dealloc(mach, AreaFrames(space))

\* A MemorySet is dropped: the page table first, then the areas.
drop_space(mach, space) ==
    frame_dealloc(mach, space.frames \o AreaFrames(space))

-----------------------------------------------------------------------------
(* Kernel stacks, user stacks and trap contexts                            *)

kernel_stack_position(id) ==
    LET top == TRAMPOLINE - id * (KERNEL_STACK_SIZE + 1)
    IN  [bottom |-> top - KERNEL_STACK_SIZE, top |-> top]

\* w is [m, kernel, kstacks].
WithKernel(x, ids) == [m |-> x.m, kernel |-> x.s, kstacks |-> ids]
kstack_alloc(w) ==
    LET pos == kernel_stack_position(Ids!allocated(w.kstacks))
    IN  WithKernel(insert_framed_area([m |-> w.m, s |-> w.kernel],
                                      pos.bottom, pos.top, 0),
                   Ids!alloc(w.kstacks))

\* The KernelStacks of `ids` are dropped, in this order.
kstack_drop(w, ids) ==
    FoldLeft(LAMBDA v, id :
                 WithKernel(remove_area_with_start_vpn(
                                [m |-> v.m, s |-> v.kernel],
                                kernel_stack_position(id).bottom),
                            Ids!dealloc(v.kstacks, id)),
             w, ids)

trap_cx_bottom_from_tid(tid) == TRAP_CONTEXT_BASE - tid
ustack_bottom_from_tid(base, tid) == base + tid * (USER_STACK_SIZE + 1)

alloc_user_res(x, base, tid) ==
    LET bottom == ustack_bottom_from_tid(base, tid)
        trap_cx == trap_cx_bottom_from_tid(tid)
    IN  insert_framed_area(
            insert_framed_area(x, bottom, bottom + USER_STACK_SIZE, U),
            trap_cx, trap_cx + 1, 0)

\* dealloc_user_res of the threads in `tids`, from the first.
DeallocOne(x, base, tid) ==
    remove_area_with_start_vpn(
        remove_area_with_start_vpn(x, ustack_bottom_from_tid(base, tid)),
        trap_cx_bottom_from_tid(tid))
dealloc_user_res(x, base, tids) ==
    FoldLeft(LAMBDA y, tid : IF tid \in tids THEN DeallocOne(y, base, tid) ELSE y,
             x, [i \in 1..(MaxTid + 1) |-> i - 1])

trap_cx_ppn(x, tid) ==
    ppn_of(translate(x.m.mem, x.s.root_ppn, trap_cx_bottom_from_tid(tid)))

\* kernel_sp of the trap context in a page is set to the top of a stack.
init_trap_cx(mach, ppn, kstack) ==
    [mach EXCEPT !.mem[ppn][0] = kernel_stack_position(kstack).top]

-----------------------------------------------------------------------------
(* The calls.  A process has its space, the ustack_base of its threads,    *)
(* its tid allocator, and its tasks: tasks[tid + 1] is None or a thread.   *)
(* `held`: a thread that will not run again has an Arc of the process on   *)
(* its stack.                                                              *)

Task(kstack, trap_cx) ==
    [kstack |-> kstack, trap_cx_ppn |-> trap_cx, exited |-> FALSE]

Process(space, base, task) ==
    [zombie |-> FALSE, space |-> space, base |-> base,
     tids |-> Ids!alloc(Ids!new), tasks |-> <<task>>, held |-> FALSE]

Live(p) == p \in DOMAIN procs /\ ~procs[p].zombie
Exists(p, tid) == tid + 1 \in DOMAIN procs[p].tasks /\
                  procs[p].tasks[tid + 1] # None
Runs(p, tid) == Live(p) /\ Exists(p, tid) /\ ~procs[p].tasks[tid + 1].exited

UserPages(space) ==
    UNION {space.areas[i].start..(space.areas[i].end - 1) :
              i \in {j \in DOMAIN space.areas : space.areas[j].map_perm = U}}

\* The pages of a program that has just been loaded, with one thread.
Loaded(program) ==
    LET base == user_stack_base(program)
        segments == DOMAIN program
        pages == UNION {program[i].start..(program[i].end - 1) :
                            i \in segments}
        word(v) == LET i == CHOOSE i \in segments :
                              v \in program[i].start..(program[i].end - 1)
                       k == v - program[i].start + 1
                   IN  IF k \in DOMAIN program[i].data
                       THEN program[i].data[k] ELSE 0
    IN  [v \in pages \cup base..(base + USER_STACK_SIZE - 1) |->
            IF v \in pages THEN word(v) ELSE 0]

\* mm::init and ProcessControlBlock::new for initproc.  A value that several
\* parts of a step use is bound by \E over the set of it.
Init ==
    \E k \in {new_kernel}, base \in {user_stack_base(InitProgram)} :
    \E x \in {alloc_user_res(from_elf(k.m, InitProgram), base, 0)} :
    \E w \in {kstack_alloc([m |-> x.m, kernel |-> k.s,
                            kstacks |-> Ids!new])},
       trap_cx \in {trap_cx_ppn(x, 0)} :
        /\ w.m.enough     \* else the boot panics
        /\ m = init_trap_cx(w.m, trap_cx, 0)
        /\ kernel = w.kernel
        /\ kstacks = w.kstacks
        /\ procs = [p \in {0} |-> Process(x.s, base, Task(0, trap_cx))]
        /\ stuck = {}
        /\ user = [p \in Pids |->
                      IF p = 0 THEN Loaded(InitProgram) ELSE None]
        /\ panicked = FALSE
        /\ calls = 0

\* A call takes effect, or runs out of frames on the way and panics.
Outcome(w, procs_, user_) ==
    /\ ~panicked
    /\ calls < MaxCalls
    /\ calls' = calls + 1
    /\ IF w.m.enough
       THEN /\ m' = w.m
            /\ kernel' = w.kernel
            /\ kstacks' = w.kstacks
            /\ procs' = procs_
            /\ user' = user_
            /\ UNCHANGED panicked
       ELSE /\ panicked' = TRUE
            /\ UNCHANGED <<m, kernel, kstacks, procs, user>>

fork(p, child) ==
    /\ UNCHANGED stuck
    /\ Runs(p, 0)
    /\ Len(procs[p].tasks) = 1
    /\ child \notin DOMAIN procs
    /\ \E x \in {from_existed_user(m, procs[p].space)},
          id \in {Ids!allocated(kstacks)} :
       \E trap_cx \in {trap_cx_ppn(x, 0)},
          w \in {kstack_alloc([m |-> x.m, kernel |-> kernel,
                               kstacks |-> kstacks])} :
          Outcome([w EXCEPT !.m = init_trap_cx(@, trap_cx, id)],
                  [q \in DOMAIN procs \cup {child} |->
                      IF q = child
                      THEN Process(x.s, procs[p].base, Task(id, trap_cx))
                      ELSE procs[q]],
                  [user EXCEPT ![child] = user[p]])

\* A mutant that keeps the trap context of the old space.
NewTask_stale(task, trap_cx) == task
NewTask(task, trap_cx) == Task(task.kstack, trap_cx)

\* The new space is made before the old one is dropped.
exec(p, program) ==
    /\ UNCHANGED stuck
    /\ Runs(p, 0)
    /\ Len(procs[p].tasks) = 1
    /\ \E new \in {from_elf(m, program)},
          base \in {user_stack_base(program)} :
       \E x \in {alloc_user_res(
                     [new EXCEPT !.m = drop_space(@, procs[p].space)],
                     base, 0)} :
       \E task \in {NewTask(procs[p].tasks[1], trap_cx_ppn(x, 0))} :
          Outcome([m |-> init_trap_cx(x.m, task.trap_cx_ppn, task.kstack),
                   kernel |-> kernel, kstacks |-> kstacks],
                  [procs EXCEPT ![p].space = x.s,
                                ![p].base = base,
                                ![p].tasks = <<task>>],
                  [user EXCEPT ![p] = Loaded(program)])

\* tasks[tid] = Some(task), after None up to there.
PutTask(tasks, tid, task) ==
    [i \in 1..(IF Len(tasks) > tid THEN Len(tasks) ELSE tid + 1) |->
        IF i = tid + 1 THEN task
        ELSE IF i \in DOMAIN tasks THEN tasks[i] ELSE None]

\* A tid may be that of a thread that has exited and was not waited for; its
\* control block is then dropped.
thread_create(p) ==
    /\ UNCHANGED stuck
    /\ Live(p)
    /\ \E tid \in {Ids!allocated(procs[p].tids)} \cap Tids,
          id \in {Ids!allocated(kstacks)} :
       \E x \in {alloc_user_res([m |-> m, s |-> procs[p].space],
                                procs[p].base, tid)} :
       \E trap_cx \in {trap_cx_ppn(x, tid)},
          w \in {kstack_alloc([m |-> x.m, kernel |-> kernel,
                               kstacks |-> kstacks])} :
       \E v \in {kstack_drop(w, IF Exists(p, tid)
                                THEN <<procs[p].tasks[tid + 1].kstack>>
                                ELSE <<>>)} :
          Outcome([v EXCEPT !.m = init_trap_cx(@, trap_cx, id)],
                  [procs EXCEPT
                      ![p].space = x.s,
                      ![p].tids = Ids!alloc(@),
                      ![p].tasks = PutTask(@, tid, Task(id, trap_cx))],
                  [user EXCEPT ![p] =
                      [a \in UserPages(x.s) |->
                          IF a \in DOMAIN @ THEN @[a] ELSE 0]])

\* exit of a thread that is not the main one: its TaskUserRes is dropped.
thread_exit(p, tid) ==
    /\ UNCHANGED stuck
    /\ tid # 0
    /\ Runs(p, tid)
    /\ \E x \in {dealloc_user_res([m |-> m, s |-> procs[p].space],
                                  procs[p].base, {tid})} :
          Outcome([m |-> x.m, kernel |-> kernel, kstacks |-> kstacks],
                  [procs EXCEPT ![p].space = x.s,
                                ![p].tids = Ids!dealloc(@, tid),
                                ![p].tasks[tid + 1].exited = TRUE],
                  [user EXCEPT ![p] = [a \in UserPages(x.s) |-> @[a]]])

waittid(p, tid) ==
    /\ UNCHANGED stuck
    /\ Live(p)
    /\ Exists(p, tid)
    /\ procs[p].tasks[tid + 1].exited
    /\ \E w \in {kstack_drop([m |-> m, kernel |-> kernel,
                              kstacks |-> kstacks],
                             <<procs[p].tasks[tid + 1].kstack>>)} :
          Outcome(w, [procs EXCEPT ![p].tasks[tid + 1] = None], user)

\* The kernel stacks of some threads, from the last.
KstacksDown(p, tids) ==
    LET of(tid) == IF tid \in tids THEN <<procs[p].tasks[tid + 1].kstack>>
                   ELSE <<>>
    IN  FlattenSeq([i \in 1..MaxTid |-> of(MaxTid + 1 - i)])

\* A thread in block_current_and_run_next has the Arc of its control block
\* on the kernel stack that this control block owns: once it is not to run
\* again, neither is ever dropped.
Stuck(p, blocked) == ToSet(KstacksDown(p, blocked))

\* exit of the main thread: the resources of all threads are dropped, the
\* main one's first, then the areas, then the control blocks of the others
\* from the last, which is the end of those that are not `blocked`: in
\* block_current_and_run_next, also when they have been woken since.  If
\* `held`, one of the threads is in semaphore_down, condvar_wait, or a read
\* or write of a pipe, where it has an Arc of the process.
exit(p, blocked, held) ==
    /\ p # 0
    /\ Runs(p, 0)
    /\ \A t \in blocked : t # 0 /\ Runs(p, t)
    /\ held => \E t \in Tids \ {0} : Runs(p, t)
    /\ stuck' = stuck \cup Stuck(p, blocked)
    /\ \E x \in {recycle_data_pages(
                     dealloc_user_res([m |-> m, s |-> procs[p].space],
                         procs[p].base, {t \in Tids : Runs(p, t)}))} :
       \E w \in {kstack_drop([m |-> x.m, kernel |-> kernel,
                              kstacks |-> kstacks],
                             KstacksDown(p, {t \in Tids \ blocked :
                                                t # 0 /\ Exists(p, t)}))} :
          Outcome(w,
                  [procs EXCEPT ![p].zombie = TRUE,
                                ![p].space = x.s,
                                ![p].tasks = <<[@[1] EXCEPT !.exited = TRUE]>>,
                                ![p].held = held],
                  [user EXCEPT ![p] = None])

\* waitpid asserts that the Arc of the zombie in `children` is the last.
reap_panics(p) ==
    /\ p \in DOMAIN procs
    /\ procs[p].zombie
    /\ procs[p].held
    /\ ~panicked
    /\ calls < MaxCalls
    /\ calls' = calls + 1
    /\ panicked' = TRUE
    /\ UNCHANGED <<m, kernel, kstacks, procs, stuck, user>>

\* It then drops the ProcessControlBlock.
reap(p) ==
    /\ p \in DOMAIN procs
    /\ procs[p].zombie
    /\ ~procs[p].held
    /\ UNCHANGED stuck
    /\ \E w \in {kstack_drop([m |-> drop_space(m, procs[p].space),
                              kernel |-> kernel, kstacks |-> kstacks],
                             <<procs[p].tasks[1].kstack>>)} :
          Outcome(w, [q \in DOMAIN procs \ {p} |-> procs[q]], user)

\* A program stores to one of its pages, through its page table.
store(p, vpn, word) ==
    /\ ~panicked
    /\ calls < MaxCalls
    /\ calls' = calls + 1
    /\ Live(p)
    /\ \E pte \in {Mapped(m.mem, procs[p].space.root_ppn, vpn)} \ {None} :
          /\ is_user(pte)
          /\ m' = [m EXCEPT !.mem[ppn_of(pte)][0] = word]
          /\ user' = [user EXCEPT ![p][vpn] = word]
    /\ UNCHANGED <<kernel, kstacks, procs, stuck, panicked>>

Next ==
    \E p \in Pids :
        \/ \E child \in Pids : fork(p, child)
        \/ \E program \in Programs : exec(p, program)
        \/ thread_create(p)
        \/ \E tid \in Tids : thread_exit(p, tid) \/ waittid(p, tid)
        \/ \E blocked \in SUBSET Tids, held \in BOOLEAN :
              exit(p, blocked, held)
        \/ reap(p)
        \/ reap_panics(p)
        \/ \E vpn \in Writes : store(p, vpn, 100 + p)

Spec == Init /\ [][Next]_vars

-----------------------------------------------------------------------------
(* Properties                                                              *)

Spaces == {kernel} \cup {procs[p].space : p \in DOMAIN procs}
Given == (ekernel..(m.current - 1)) \ ToSet(m.recycled)

\* Every variable has its type.
TypeOK ==
    /\ m.current \in ekernel..MEMORY_END
    /\ m.mem \in [0..(MEMORY_END - 1) -> [Words -> Nat]]
    /\ Ids!Sound(kstacks)
    /\ DOMAIN procs \subseteq Pids
    /\ \A p \in DOMAIN procs :
          /\ Ids!Sound(procs[p].tids)
          /\ Len(procs[p].tasks) \in 1..(MaxTid + 1)
    /\ panicked \in BOOLEAN

\* No assertion of the allocator or of a page table fails: nothing is freed
\* twice, mapped twice, or unmapped when it is not mapped.
NoAssertionFails == m.sound

\* Every frame that is given out has one owner, a page table or an area of
\* one space, through fork, exec, exits of threads and processes, and waits:
\* none is shared, and none is given out that no space has.  The frames of
\* the stacks in `stuck` stay with the kernel.
FramesOwnedOnce ==
    LET owned(s) == s.frames \o AreaFrames(s)
        of(p) == ToSet(owned(procs[p].space))
    IN  /\ \A s \in Spaces : IsInjective(owned(s))
        /\ \A p \in DOMAIN procs :
              /\ of(p) \cap ToSet(owned(kernel)) = {}
              /\ \A q \in DOMAIN procs : p # q => of(p) \cap of(q) = {}
        /\ UNION {ToSet(owned(s)) : s \in Spaces} = Given

\* The page table of a space that is in use maps exactly its areas and the
\* trampoline, each page to its frame; what a zombie's still maps is unused.
TablesMatchAreas ==
    \A s \in {kernel} \cup {procs[p].space : p \in {q \in Pids : Live(q)}} :
        \A vpn \in Pages :
            LET at == {i \in DOMAIN s.areas :
                          vpn \in s.areas[i].start..(s.areas[i].end - 1)}
                area == s.areas[CHOOSE i \in at : TRUE]
            IN  Mapped(m.mem, s.root_ppn, vpn) =
                    IF vpn = TRAMPOLINE THEN PTE(0, V)
                    ELSE IF at = {} THEN None
                    ELSE PTE(IF area.map_type = "Identical" THEN vpn
                             ELSE area.data_frames[vpn - area.start + 1],
                             area.map_perm + V)

\* A process finds in each of its pages what it stored there, or its parent
\* before the fork, or the program file, and zero in new stacks: no other
\* process or thread ever changes it.
PrivateMemory ==
    \A p \in Pids : Live(p) =>
        /\ DOMAIN user[p] = UserPages(procs[p].space)
        /\ \A vpn \in DOMAIN user[p] :
              m.mem[ppn_of(Mapped(m.mem, procs[p].space.root_ppn, vpn))][0]
                  = user[p][vpn]

\* The trap context of each thread, which the kernel finds by the physical
\* page that it remembers and the trampoline by the address of the tid, is
\* one page, and has the kernel stack of this thread.
TrapContexts ==
    \A p \in Pids, tid \in Tids : Runs(p, tid) =>
        LET task == procs[p].tasks[tid + 1]
        IN  /\ task.trap_cx_ppn
                 = trap_cx_ppn([m |-> m, s |-> procs[p].space], tid)
            /\ m.mem[task.trap_cx_ppn][0]
                 = kernel_stack_position(task.kstack).top

\* The kernel stacks that are given out are those of the threads that are
\* not dropped, one each, and those that are stuck.  They are the framed
\* areas of the kernel, and below each stack, kernel or user, is a page that
\* is not mapped.
StacksGuarded ==
    LET tasks == {t \in (DOMAIN procs) \X (1..(MaxTid + 1)) :
                     Exists(t[1], t[2] - 1)}
        kstack(t) == procs[t[1]].tasks[t[2]].kstack
    IN  /\ \A t, u \in tasks : kstack(t) = kstack(u) => t = u
        /\ {kstack(t) : t \in tasks} \cap stuck = {}
        /\ {kstack(t) : t \in tasks} \cup stuck = Ids!Given(kstacks)
        /\ {kernel.areas[i].start :
                i \in {j \in DOMAIN kernel.areas :
                          kernel.areas[j].map_type = "Framed"}}
              = {kernel_stack_position(id).bottom : id \in Ids!Given(kstacks)}
        /\ \A id \in Ids!Given(kstacks) :
              LET bottom == kernel_stack_position(id).bottom
              IN  /\ Mapped(m.mem, kernel.root_ppn, bottom) # None
                  /\ Mapped(m.mem, kernel.root_ppn, bottom - 1) = None
        /\ \A t \in tasks : Runs(t[1], t[2] - 1) =>
              LET space == procs[t[1]].space
                  bottom == ustack_bottom_from_tid(procs[t[1]].base, t[2] - 1)
              IN  /\ Mapped(m.mem, space.root_ppn, bottom) # None
                  /\ Mapped(m.mem, space.root_ppn, bottom - 1) = None

\* What map, unmap, fork, exec and the exits keep of page tables and stacks.
MemoryInv ==
    /\ TypeOK
    /\ NoAssertionFails
    /\ TablesMatchAreas
    /\ StacksGuarded

\* What the comment in exit_current_and_run_next says of threads that are
\* blocked when their process exits: they are removed when the process is.
\* When only initproc is left, no kernel stack is given out but those of its
\* threads.
BlockedAreRemoved ==
    DOMAIN procs = {0} =>
        Ids!Given(kstacks)
            = {procs[0].tasks[i].kstack :
                  i \in {j \in DOMAIN procs[0].tasks : Exists(0, j - 1)}}

\* The slices that a system call gets for a buffer of a program are the
\* buffer, byte by byte and in order, wherever its pages are.
BuffersExact ==
    \A p \in Pids : Live(p) =>
        LET space == procs[p].space
            area == space.areas[1]
            size == (area.end - area.start) * FANOUT
            at(a) == <<ppn_of(Mapped(m.mem, space.root_ppn, a \div FANOUT)),
                       a % FANOUT>>
        IN  \A from \in 0..(size - 1) : \A len \in 0..(size - from) :
                LET ptr == area.start * FANOUT + from
                IN  iterate(translated_byte_buffer(m.mem, space.root_ppn,
                                                   ptr, len))
                        = [i \in 1..len |-> at(ptr + i - 1)]
=============================================================================
