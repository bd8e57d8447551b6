------------------------------ MODULE Process ------------------------------
(***************************************************************************)
(* Processes and their threads (os/src/task/process.rs, os/src/task/mod.rs,*)
(* os/src/syscall/{process,thread}.rs): the process tree, zombies and      *)
(* waitpid, pids and PID2PCB, the `tasks` of a process, tids and waittid,  *)
(* and the Arc<ProcessControlBlock>s that waitpid counts.                  *)
(*                                                                         *)
(* An action is what a thread does in the kernel up to where it may be     *)
(* switched out; which thread runs next is the scheduler's choice, and     *)
(* KernelSync has the queues.  Here a thread is either in user mode or in  *)
(* the kernel, switched out, until it returns.                             *)
(*                                                                         *)
(* A PCB is named by its pid, which its PidHandle keeps until the PCB is   *)
(* dropped; a thread by its place in `tasks`, which it keeps until it has  *)
(* exited.                                                                 *)
(***************************************************************************)
EXTENDS Integers, SequencesExt, RecycleAllocator

CONSTANTS MaxPids,   \* bound: PCBs at one time
          MaxTids,   \* bound: threads of a process at one time
          Codes,     \* exit codes
          Zero,      \* the code 0, with which a PCB is created
          Calls,     \* what the programs do: guards their actions
          None       \* the None of Option

INITPROC == 0
Pids == 0..(MaxPids - 1)
Tids == 0..(MaxTids - 1)
AnyPid == -1         \* the pid argument of wait()
CallNames == {"fork", "fork_joined", "waitpid", "exit", "create", "waittid",
              "waittid_any", "lock", "down", "abandon"}

ASSUME ProcessAssumption ==
    /\ MaxPids \in Nat \ {0}
    /\ MaxTids \in Nat \ {0}
    /\ Zero \in Codes
    /\ None \notin Codes \cup {"Live"}
    /\ None \notin Pids
    /\ "Live" \notin Codes
    /\ "Running" \notin Codes /\ "Free" \notin Codes
    /\ Calls \subseteq CallNames

VARIABLES
    pcbs,                \* the PCBs that have not been dropped
    PID_ALLOCATOR,
    PID2PCB,             \* the pids in the map
    parent, children,    \* ProcessControlBlockInner, by pid
    is_zombie,           \* the pids of the zombies
    exit_code,
    tasks,               \* a slot for each tid: None, "Live" or the exit code
    task_res_allocator,
    in_kernel,           \* tids of the threads switched out inside a call
    stack_refs,          \* tids whose kernel stack has an Arc of the process
    panicked             \* None, or the function whose assertion failed

treeVars == <<pcbs, PID_ALLOCATOR, PID2PCB, parent, children, is_zombie,
              exit_code>>
threadVars == <<tasks, task_res_allocator, in_kernel, stack_refs>>
vars == <<pcbs, PID_ALLOCATOR, PID2PCB, parent, children, is_zombie,
          exit_code, tasks, task_res_allocator, in_kernel, stack_refs,
          panicked>>

\* Every variable has its type.
TypeOK ==
    /\ pcbs \in SUBSET Pids
    /\ PID_ALLOCATOR \in Allocators
    /\ PID2PCB \in SUBSET Pids
    /\ parent \in [Pids -> Pids \cup {None}]
    /\ children \in [Pids -> Seq(Pids)]
    /\ is_zombie \in SUBSET Pids
    /\ exit_code \in [Pids -> Codes]
    /\ tasks \in [Pids -> Seq(Codes \cup {None, "Live"})]
    /\ task_res_allocator \in [Pids -> Allocators]
    /\ in_kernel \in [Pids -> SUBSET Tids]
    /\ stack_refs \in [Pids -> SUBSET Tids]
    /\ panicked \in {None, "fork", "exit", "waitpid", "waittid"}

\* add_initproc has created INITPROC, with its main thread.
Init ==
    /\ pcbs = {INITPROC}
    /\ PID_ALLOCATOR = alloc(new)
    /\ PID2PCB = {INITPROC}
    /\ parent = [p \in Pids |-> None]
    /\ children = [p \in Pids |-> <<>>]
    /\ is_zombie = {}
    /\ exit_code = [p \in Pids |-> Zero]
    /\ tasks = [p \in Pids |-> IF p = INITPROC THEN <<"Live">> ELSE <<>>]
    /\ task_res_allocator =
          [p \in Pids |-> IF p = INITPROC THEN alloc(new) ELSE new]
    /\ in_kernel = [p \in Pids |-> {}]
    /\ stack_refs = [p \in Pids |-> {}]
    /\ panicked = None
-----------------------------------------------------------------------------
LiveTids(p) == {i \in Tids : i < Len(tasks[p]) /\ tasks[p][i + 1] = "Live"}

\* Thread i of p is in user mode and makes the call.  The program of INITPROC
\* only forks and waits (user/src/bin/initproc.rs).
Syscall(p, i, call) ==
    /\ panicked = None
    /\ call \in Calls
    /\ p = INITPROC => call \in {"fork", "waitpid"}
    /\ p \in pcbs \ is_zombie
    /\ i \in LiveTids(p) \ in_kernel[p]

\* The panic handler shuts the machine down.
panic(where) ==
    /\ panicked' = where
    /\ UNCHANGED <<treeVars, threadVars>>
-----------------------------------------------------------------------------
(* Threads.                                                                *)

\* sys_thread_create puts the new thread at its tid: `tasks` grows with None
\* up to there, and what was there is overwritten.
sys_thread_create(p, i) ==
    LET tid == allocated(task_res_allocator[p])
        padded == tasks[p] \o [k \in 1..(tid + 1 - Len(tasks[p])) |-> None]
    IN  /\ Syscall(p, i, "create")
        /\ tid \in Tids
        /\ task_res_allocator' = [task_res_allocator EXCEPT ![p] = alloc(@)]
        /\ tasks' = [tasks EXCEPT ![p] = [padded EXCEPT ![tid + 1] = "Live"]]
        /\ UNCHANGED <<treeVars, in_kernel, stack_refs, panicked>>

\* The answers -1 and -2 of sys_waittid change nothing.  Unless its Calls say
\* otherwise, a program waits for tids it was given.
sys_waittid(p, i, tid) ==
    /\ Syscall(p, i, "waittid")
    /\ tid < Len(tasks[p]) \/ "waittid_any" \in Calls
    /\ IF tid # i /\ tid >= Len(tasks[p])
       THEN panic("waittid")
       ELSE /\ tasks' = IF tid # i /\ tasks[p][tid + 1] \in Codes
                        THEN [tasks EXCEPT ![p][tid + 1] = None]
                        ELSE tasks
            /\ UNCHANGED <<treeVars, task_res_allocator, in_kernel, stack_refs,
                           panicked>>

\* sys_semaphore_down keeps its Arc of the process while it is switched out, and
\* so do sys_condvar_wait, sys_read and sys_write.
sys_semaphore_down(p, i) ==
    /\ Syscall(p, i, "down")
    /\ in_kernel' = [in_kernel EXCEPT ![p] = @ \cup {i}]
    /\ stack_refs' = [stack_refs EXCEPT ![p] = @ \cup {i}]
    /\ UNCHANGED <<treeVars, tasks, task_res_allocator, panicked>>

\* sys_mutex_lock drops it first; sys_sleep and sys_yield take none.
sys_mutex_lock(p, i) ==
    /\ Syscall(p, i, "lock")
    /\ in_kernel' = [in_kernel EXCEPT ![p] = @ \cup {i}]
    /\ UNCHANGED <<treeVars, tasks, task_res_allocator, stack_refs, panicked>>

\* Mutant: the call forgets an Arc of the process.
return_to_user_leaking(p, i) ==
    /\ panicked = None
    /\ p \in pcbs \ is_zombie
    /\ i \in in_kernel[p]
    /\ in_kernel' = [in_kernel EXCEPT ![p] = @ \ {i}]
    /\ UNCHANGED <<treeVars, tasks, task_res_allocator, stack_refs, panicked>>

\* The thread runs again and the call returns.
return_to_user(p, i) ==
    /\ panicked = None
    /\ p \in pcbs \ is_zombie
    /\ i \in in_kernel[p]
    /\ in_kernel' = [in_kernel EXCEPT ![p] = @ \ {i}]
    /\ stack_refs' = [stack_refs EXCEPT ![p] = @ \ {i}]
    /\ UNCHANGED <<treeVars, tasks, task_res_allocator, panicked>>
-----------------------------------------------------------------------------
(* Processes.                                                              *)

\* The effect of fork: c is its child.
fork(p, c) ==
    /\ c \in Pids
    /\ pcbs' = pcbs \cup {c}
    /\ PID_ALLOCATOR' = alloc(PID_ALLOCATOR)
    /\ PID2PCB' = PID2PCB \cup {c}
    /\ parent' = [parent EXCEPT ![c] = p]
    /\ children' = [children EXCEPT ![p] = Append(@, c), ![c] = <<>>]
    /\ exit_code' = [exit_code EXCEPT ![c] = Zero]
    /\ tasks' = [tasks EXCEPT ![c] = <<"Live">>]
    /\ task_res_allocator' = [task_res_allocator EXCEPT ![c] = alloc(new)]
    /\ UNCHANGED <<is_zombie, in_kernel, stack_refs, panicked>>

\* fork asserts thread_count() = 1, the length of `tasks`.  Programs fork with a
\* single thread; that they may have had others is up to their Calls.
sys_fork(p, i) ==
    LET c == allocated(PID_ALLOCATOR)
    IN  /\ Syscall(p, i, "fork")
        /\ LiveTids(p) = {i}
        /\ Len(tasks[p]) > 1 => "fork_joined" \in Calls
        /\ IF Len(tasks[p]) # 1
           THEN panic("fork")
           ELSE fork(p, c)

\* exit_current_and_run_next of another thread than the main one: the exit code
\* stays in `tasks`, the tid is free at once.
exit_thread(p, i, code) ==
    /\ Syscall(p, i, "exit")
    /\ i # 0
    /\ tasks' = [tasks EXCEPT ![p][i + 1] = code]
    /\ task_res_allocator' = [task_res_allocator EXCEPT ![p] = dealloc(@, i)]
    /\ UNCHANGED <<treeVars, in_kernel, stack_refs, panicked>>

\* The tids are in the order of `tasks`.
InOrder(s) == \A j, k \in DOMAIN s : j < k => s[j] < s[k]

\* Mutant: the children keep their parent.
leave_tree_parentless(p) ==
    /\ PID2PCB' = PID2PCB \ {p}
    /\ children' = [children EXCEPT ![INITPROC] = @ \o children[p],
                                    ![p] = <<>>]
    /\ UNCHANGED parent

\* The relations of a process that exits.  The children go to INITPROC.
leave_tree(p) ==
    /\ PID2PCB' = PID2PCB \ {p}
    /\ parent' = [c \in Pids |-> IF c \in Range(children[p])
                                 THEN INITPROC ELSE parent[c]]
    /\ children' = [children EXCEPT ![INITPROC] = @ \o children[p],
                                    ![p] = <<>>]

\* exit_current_and_run_next of the main thread: every live thread loses its
\* TaskUserRes, the main one first, and never runs again: what it has on its
\* kernel stack stays there.  INITPROC does not exit.  Unless its Calls say
\* otherwise, a program joins the threads that are in a call which keeps the
\* process.
exit_process(p, code) ==
    /\ Syscall(p, 0, "exit")
    /\ p # INITPROC
    /\ in_kernel[p] \cap stack_refs[p] = {} \/ "abandon" \in Calls
    /\ IF p \notin PID2PCB
       THEN panic("exit")
       ELSE /\ leave_tree(p)
            /\ is_zombie' = is_zombie \cup {p}
            /\ exit_code' = [exit_code EXCEPT ![p] = code]
            /\ tasks' = [tasks EXCEPT ![p] = <<code>>]
            /\ \E s \in [1..Cardinality(LiveTids(p)) -> LiveTids(p)] :
                  /\ InOrder(s)
                  /\ task_res_allocator' =
                        [task_res_allocator EXCEPT ![p].recycled = @ \o s]
            /\ in_kernel' = [in_kernel EXCEPT ![p] = {}]
            /\ UNCHANGED <<pcbs, PID_ALLOCATOR, stack_refs, panicked>>

\* The children that waitpid(pid) may reap, by index.
ZombieChildren(p, pid) ==
    {k \in DOMAIN children[p] : /\ children[p][k] \in is_zombie
                                /\ pid \in {AnyPid, children[p][k]}}

\* Arc::strong_count of a child that has been taken out of `children`: the local
\* variable of waitpid, PID2PCB and the kernel stacks of the child's threads.
strong_count(c) == 1 + (IF c \in PID2PCB THEN 1 ELSE 0) + Cardinality(stack_refs[c])

\* Mutant: the PidHandle is not dropped.
drop_pcb_but_pid(c) ==
    /\ pcbs' = pcbs \ {c}
    /\ is_zombie' = is_zombie \ {c}
    /\ parent' = [parent EXCEPT ![c] = None]
    /\ exit_code' = [exit_code EXCEPT ![c] = Zero]
    /\ tasks' = [tasks EXCEPT ![c] = <<>>]
    /\ task_res_allocator' = [task_res_allocator EXCEPT ![c] = new]
    /\ UNCHANGED PID_ALLOCATOR

\* The last Arc of a PCB goes, and the PCB with its PidHandle and main thread.
drop_pcb(c) ==
    /\ pcbs' = pcbs \ {c}
    /\ is_zombie' = is_zombie \ {c}
    /\ parent' = [parent EXCEPT ![c] = None]
    /\ exit_code' = [exit_code EXCEPT ![c] = Zero]
    /\ tasks' = [tasks EXCEPT ![c] = <<>>]
    /\ task_res_allocator' = [task_res_allocator EXCEPT ![c] = new]
    /\ PID_ALLOCATOR' = dealloc(PID_ALLOCATOR, c)

\* The child is taken out of `children`, and nothing else may refer to it.
reap(p, k) ==
    IF strong_count(children[p][k]) # 1
    THEN panic("waitpid")
    ELSE /\ children' = [children EXCEPT ![p] = RemoveAt(@, k)]
         /\ drop_pcb(children[p][k])
         /\ UNCHANGED <<PID2PCB, in_kernel, stack_refs, panicked>>

\* Mutant: the last zombie is taken instead of the first.
first_zombie_last(p, pid, k) ==
    /\ k \in ZombieChildren(p, pid)
    /\ \A j \in ZombieChildren(p, pid) : k >= j

first_zombie(p, pid, k) ==
    /\ k \in ZombieChildren(p, pid)
    /\ \A j \in ZombieChildren(p, pid) : k <= j

\* sys_waitpid; the answers -1 and -2 change nothing.
sys_waitpid(p, i, pid) ==
    /\ Syscall(p, i, "waitpid")
    /\ \E k \in DOMAIN children[p] : first_zombie(p, pid, k) /\ reap(p, k)
-----------------------------------------------------------------------------
Next ==
    \E p \in Pids :
        \/ \E i \in Tids :
              \/ sys_thread_create(p, i)
              \/ \E tid \in Tids : sys_waittid(p, i, tid)
              \/ sys_semaphore_down(p, i)
              \/ sys_mutex_lock(p, i)
              \/ return_to_user(p, i)
              \/ sys_fork(p, i)
              \/ \E code \in Codes : exit_thread(p, i, code)
              \/ \E pid \in Pids \cup {AnyPid} : sys_waitpid(p, i, pid)
        \/ \E code \in Codes : exit_process(p, code)

Spec == Init /\ [][Next]_vars

\* The main thread of INITPROC calls wait() for ever (user/src/bin/initproc.rs).
FairSpec == Spec /\ WF_vars(sys_waitpid(INITPROC, 0, AnyPid))
-----------------------------------------------------------------------------
(* Properties.                                                             *)

\* Where a process is in the children of others: whose, and at which index.
Owners(c) == {o \in pcbs \X (1..MaxPids) :
                 o[2] \in DOMAIN children[o[1]] /\ children[o[1]][o[2]] = c}

\* Every process but INITPROC is once in the children of one process, the one its
\* `parent` names, and that one runs: exit must hand over each child exactly once,
\* whichever of a parent and its children exits first.
ProcessTree ==
    /\ INITPROC \in pcbs \ is_zombie
    /\ \A c \in pcbs \ {INITPROC} :
          /\ Cardinality(Owners(c)) = 1
          /\ parent[c] \in pcbs \ is_zombie
          /\ \E o \in Owners(c) : o[1] = parent[c]
    /\ \A p \in pcbs : Range(children[p]) \subseteq pcbs \ {INITPROC}

\* Following `parent` from any process ends at INITPROC: no cycle of orphans.
AllDescendFromInit ==
    \A S \in SUBSET (pcbs \ {INITPROC}) :
        S # {} => \E c \in S : parent[c] \notin S

\* The pids given out are those of the PCBs, and PID2PCB has those of the running
\* ones: kill cannot find a zombie, nor a process that was reaped, and the
\* asserts of dealloc hold.
PidsExact ==
    /\ Sound(PID_ALLOCATOR)
    /\ pcbs = Given(PID_ALLOCATOR)
    /\ PID2PCB = pcbs \ is_zombie

\* The tids given out are those of the live threads: two threads never share a
\* user stack or a trap context, which are placed by tid; and the main thread is
\* at tasks[0], which fork, exec and sys_fork unwrap.
TidsExact ==
    \A p \in pcbs \ is_zombie :
        /\ Sound(task_res_allocator[p])
        /\ Given(task_res_allocator[p]) = LiveTids(p)
        /\ Len(tasks[p]) = task_res_allocator[p].current
        /\ tasks[p][1] = "Live"

\* What fork, exit, thread_create, waitpid and waittid keep between them: a tree of
\* processes under INITPROC, and allocators that agree with what exists.
ProcessInv ==
    /\ TypeOK
    /\ ProcessTree
    /\ AllDescendFromInit
    /\ PidsExact
    /\ TidsExact

\* No assertion of fork, exit, waitpid or waittid fails.
NoPanic == panicked = None

\* waitpid finds that the zombie is referred to by nobody else: "confirm that
\* child will be deallocated after being removed from children list".
ReapedIsUnreferenced == panicked # "waitpid"

\* Processes implement the contract of fork, exit and waitpid.
Contract == INSTANCE ProcessContract WITH
    status <- [p \in Pids |-> IF p \notin pcbs THEN "Free"
                              ELSE IF p \in is_zombie THEN exit_code[p]
                              ELSE "Running"],
    owner <- parent
ImplementsContract == Contract!Spec

\* A zombie that has been left to INITPROC is reaped: waitpid takes the first one,
\* and orphans are added at the end.
OrphansReaped ==
    \A p \in Pids : (p \in is_zombie /\ parent[p] = INITPROC) ~> p \notin is_zombie
=============================================================================
