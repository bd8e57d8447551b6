----------------------------- MODULE KernelSync -----------------------------
(***************************************************************************)
(* The scheduler (os/src/task), the blocking primitives (os/src/sync), the *)
(* sleep timers (os/src/timer.rs), the trap handler's preemption and       *)
(* signal check (os/src/trap/mod.rs) and the exit of a process, composed.  *)
(*                                                                         *)
(* There is one CPU and the kernel is not preemptible: a task that entered *)
(* the kernel runs until it suspends, blocks, exits or returns to user     *)
(* mode.  So only `current` acts, and pc[t] says where t is:               *)
(*   user    in user mode (or newly created, about to enter it);           *)
(*   tail    at the end of trap_handler, before the signal check;          *)
(*   timer   in check_timer, entered from a timer interrupt;               *)
(*   lock    about to run Mutex::lock on arg[t];                           *)
(*   locked  lock() on arg[t] has nothing left to test: it returns as soon *)
(*           as t runs;                                                    *)
(*   downed  the same for Semaphore::down on arg[t];                       *)
(*   exited  exit_current_and_run_next has taken t off the CPU for good.   *)
(* Threads are the threads of one process, which share its mutexes,        *)
(* semaphores and condvars.  Peers are tasks of other processes: initproc  *)
(* and others that keep running, and that may kill the process.            *)
(***************************************************************************)
EXTENDS Integers, SequencesExt

CONSTANTS Threads,          \* threads the process can have
          Main,             \* the thread with tid 0
          Peers,            \* tasks of other processes
          BlockingMutexes,  \* MutexBlocking objects
          SpinMutexes,      \* MutexSpin objects
          Semaphores,
          Condvars,
          ResCount,         \* [Semaphores -> Nat]: the initial counts
          Calls,            \* what the programs do: guards their actions
          MaxTime,          \* bound: last value of the clock
          MaxTokens,        \* bound: tokens a program puts in a semaphore
          None              \* the None of Option

Tasks == Threads \cup Peers
Mutexes == BlockingMutexes \cup SpinMutexes
WaitQueues == BlockingMutexes \cup Semaphores \cup Condvars

CallNames == {"create", "yield", "lock", "relock", "unlock", "up", "down",
              "wait", "signal", "sleep", "kill", "fault", "exit"}

ASSUME TasksAssumption ==
    /\ Main \in Threads
    /\ Threads \cap Peers = {}
    /\ None \notin Tasks \cup Mutexes \cup Semaphores
    /\ IsFiniteSet(Tasks)

ASSUME ObjectsAssumption ==
    /\ BlockingMutexes \cap SpinMutexes = {}
    /\ Mutexes \cap (Semaphores \cup Condvars) = {}
    /\ Semaphores \cap Condvars = {}
    /\ ResCount \in [Semaphores -> Nat]

ASSUME BoundsAssumption ==
    /\ MaxTime \in Nat
    /\ MaxTokens \in Nat
    /\ Calls \subseteq CallNames

VARIABLES
    ready_queue,   \* TaskManager.ready_queue
    current,       \* Processor.current
    task_status,   \* TaskControlBlockInner.task_status
    pc, arg,       \* the kernel continuation saved in task_cx and the kstack
    res,           \* tasks whose TaskControlBlockInner.res is Some
    tasks,         \* ProcessControlBlockInner.tasks
    signals,       \* an error signal is set in ProcessControlBlockInner.signals
    is_zombie,     \* ProcessControlBlockInner.is_zombie
    to_recycle,    \* tasks that the loop of exit_current_and_run_next still visits
    wait_queue,    \* wait_queue of every MutexBlocking, Semaphore and Condvar
    locked,        \* `locked` of every mutex
    count,         \* SemaphoreInner.count
    timers,        \* TIMERS
    now,           \* get_time_ms()
    holds, tokens  \* history: see SyncContract

schedVars == <<ready_queue, current, task_status, pc, arg>>
procVars == <<res, tasks, signals, is_zombie, to_recycle>>
timeVars == <<timers, now>>
syncVars == <<wait_queue, locked, count, holds, tokens>>
vars == <<ready_queue, current, task_status, pc, arg, res, tasks, signals,
          is_zombie, to_recycle, wait_queue, locked, count, timers, now,
          holds, tokens>>

PCs == {"user", "tail", "timer", "lock", "locked", "downed", "exited"}

\* Every variable has its type.
TypeOK ==
    /\ ready_queue \in Seq(Tasks)
    /\ current \in Tasks \cup {None}
    /\ task_status \in [Tasks -> {"Ready", "Running", "Blocked"}]
    /\ pc \in [Tasks -> PCs]
    /\ arg \in [Tasks -> Mutexes \cup Semaphores \cup {None}]
    /\ res \in SUBSET Threads
    /\ tasks \in SUBSET Threads
    /\ signals \in BOOLEAN
    /\ is_zombie \in BOOLEAN
    /\ to_recycle \in SUBSET Threads
    /\ wait_queue \in [WaitQueues -> Seq(Threads)]
    /\ locked \in [Mutexes -> BOOLEAN]
    /\ count \in [Semaphores -> Int]
    /\ timers \in SUBSET [expire_ms : Nat, task : Threads]
    /\ now \in 0..MaxTime
    /\ holds \in [Tasks -> SUBSET Mutexes]
    /\ tokens \in [Semaphores -> Int]

\* add_initproc and ProcessControlBlock::new have queued the main threads of
\* the process and of the peers; the process has created its sync objects.
Init ==
    /\ ready_queue \in SetToSeqs({Main} \cup Peers)
    /\ Range(ready_queue) = {Main} \cup Peers
    /\ current = None
    /\ task_status = [t \in Tasks |-> "Ready"]
    /\ pc = [t \in Tasks |-> "user"]
    /\ arg = [t \in Tasks |-> None]
    /\ res = {Main}
    /\ tasks = {Main}
    /\ signals = FALSE
    /\ is_zombie = FALSE
    /\ to_recycle = {}
    /\ wait_queue = [q \in WaitQueues |-> <<>>]
    /\ locked = [m \in Mutexes |-> FALSE]
    /\ count = ResCount
    /\ timers = {}
    /\ now = 0
    /\ holds = [t \in Tasks |-> {}]
    /\ tokens = ResCount
-----------------------------------------------------------------------------
(* The scheduler.  The operators named after kernel functions constrain    *)
(* only the variables those functions write.                               *)

\* t is on the CPU, at l.
At(t, l) == current = t /\ pc[t] = l

\* A program in user mode makes the call.
Syscall(t, call) == At(t, "user") /\ call \in Calls

Goto(t, l) == pc' = [pc EXCEPT ![t] = l] /\ UNCHANGED arg

add_task(t) == ready_queue' = Append(ready_queue, t)

\* schedule() switches to the idle control flow; run_tasks goes on from there.
suspend_current_and_run_next(t) ==
    /\ current' = None
    /\ task_status' = [task_status EXCEPT ![t] = "Ready"]
    /\ add_task(t)

block_current_and_run_next(t) ==
    /\ current' = None
    /\ task_status' = [task_status EXCEPT ![t] = "Blocked"]

wakeup_task(t) ==
    /\ task_status' = [task_status EXCEPT ![t] = "Ready"]
    /\ add_task(t)

\* Mutant: pop_back instead of pop_front.
wakeup_back(q) ==
    IF wait_queue[q] # <<>>
    THEN /\ wakeup_task(Last(wait_queue[q]))
         /\ wait_queue' = [wait_queue EXCEPT ![q] = Front(@)]
    ELSE UNCHANGED <<task_status, ready_queue, wait_queue>>

\* wakeup_task on the front of a wait queue, if there is one.
wakeup_front(q) ==
    IF wait_queue[q] # <<>>
    THEN /\ wakeup_task(Head(wait_queue[q]))
         /\ wait_queue' = [wait_queue EXCEPT ![q] = Tail(@)]
    ELSE UNCHANGED <<task_status, ready_queue, wait_queue>>

\* The idle loop; it waits for the loop of exit_current_and_run_next to end.
run_tasks ==
    /\ current = None
    /\ to_recycle = {}
    /\ ready_queue # <<>>
    /\ current' = Head(ready_queue)
    /\ ready_queue' = Tail(ready_queue)
    /\ task_status' = [task_status EXCEPT ![Head(ready_queue)] = "Running"]
    /\ UNCHANGED <<pc, arg, procVars, timeVars, syncVars>>

sys_yield(t) ==
    /\ Syscall(t, "yield")
    /\ suspend_current_and_run_next(t)
    /\ Goto(t, "tail")
    /\ UNCHANGED <<procVars, timeVars, syncVars>>

\* The new thread starts at trap_return, with no signal check.
sys_thread_create(t, u) ==
    /\ Syscall(t, "create")
    /\ t \in Threads
    /\ u \notin tasks
    /\ add_task(u)
    /\ task_status' = [task_status EXCEPT ![u] = "Ready"]
    /\ res' = res \cup {u}
    /\ tasks' = tasks \cup {u}
    /\ Goto(t, "tail")
    /\ UNCHANGED <<current, signals, is_zombie, to_recycle,
                   timeVars, syncVars>>
-----------------------------------------------------------------------------
(* Timers.                                                                 *)

\* The clock does not move while check_timer works on the current_ms it read.
Tick ==
    /\ current # None => pc[current] # "timer"
    /\ now < MaxTime
    /\ now' = now + 1
    /\ UNCHANGED <<schedVars, procVars, timers, syncVars>>

\* sys_sleep: add_timer, then block; ms >= 0 from a bounded set.
sys_sleep(t, ms) ==
    /\ Syscall(t, "sleep")
    /\ t \in Threads
    /\ now + ms <= MaxTime
    /\ timers' = timers \cup {[expire_ms |-> now + ms, task |-> t]}
    /\ block_current_and_run_next(t)
    /\ Goto(t, "tail")
    /\ UNCHANGED <<ready_queue, procVars, now, syncVars>>

\* Mutant: the handler forgets check_timer.
timer_interrupt_unchecked(t) ==
    /\ At(t, "user")
    /\ suspend_current_and_run_next(t)
    /\ Goto(t, "tail")
    /\ UNCHANGED <<procVars, timeVars, syncVars>>

\* A timer interrupt arrives; the kernel only takes it from user mode.
timer_interrupt(t) ==
    /\ At(t, "user")
    /\ Goto(t, "timer")
    /\ UNCHANGED <<ready_queue, current, task_status, procVars, timeVars,
                   syncVars>>

\* Mutant: TimerCondVar is ordered by expire_ms, and the heap is a max-heap.
Peek_latest(x) == x \in timers /\ \A y \in timers : x.expire_ms >= y.expire_ms

\* An entry the heap may have on top: TimerCondVar is ordered by -expire_ms.
Peek(x) == x \in timers /\ \A y \in timers : x.expire_ms <= y.expire_ms

\* One turn of the loop of check_timer.
check_timer_wakeup(t, x) ==
    /\ At(t, "timer")
    /\ Peek(x)
    /\ x.expire_ms <= now
    /\ wakeup_task(x.task)
    /\ timers' = timers \ {x}
    /\ UNCHANGED <<current, pc, arg, procVars, now, syncVars>>

\* The end of the loop, and the suspension that follows it in trap_handler.
check_timer_done(t) ==
    /\ At(t, "timer")
    /\ \A x \in timers : Peek(x) => x.expire_ms > now
    /\ suspend_current_and_run_next(t)
    /\ Goto(t, "tail")
    /\ UNCHANGED <<procVars, timeVars, syncVars>>
-----------------------------------------------------------------------------
(* Mutexes.                                                                *)

\* A program may lock a mutex it holds already (a self-deadlock) only if its
\* Calls say so.
sys_mutex_lock(t, m) ==
    /\ Syscall(t, "lock")
    /\ t \in Threads
    /\ m \in holds[t] => "relock" \in Calls
    /\ pc' = [pc EXCEPT ![t] = "lock"]
    /\ arg' = [arg EXCEPT ![t] = m]
    /\ UNCHANGED <<ready_queue, current, task_status, procVars, timeVars,
                   syncVars>>

\* Mutant: the mutex is taken without a look at `locked`.
lock_barging(t, m) ==
    /\ At(t, "lock")
    /\ arg[t] = m
    /\ locked' = [locked EXCEPT ![m] = TRUE]
    /\ Goto(t, "locked")
    /\ UNCHANGED <<ready_queue, current, task_status, procVars, timeVars,
                   wait_queue, count, holds, tokens>>

\* Mutex::lock finds the mutex free.
lock_free(t, m) ==
    /\ At(t, "lock")
    /\ arg[t] = m
    /\ ~locked[m]
    /\ locked' = [locked EXCEPT ![m] = TRUE]
    /\ Goto(t, "locked")
    /\ UNCHANGED <<ready_queue, current, task_status, procVars, timeVars,
                   wait_queue, count, holds, tokens>>

\* Mutant: the woken waiter tests `locked` again, though the mutex is its own.
lock_block_retry(t, m) ==
    /\ At(t, "lock")
    /\ arg[t] = m
    /\ locked[m]
    /\ wait_queue' = [wait_queue EXCEPT ![m] = Append(@, t)]
    /\ block_current_and_run_next(t)
    /\ UNCHANGED <<ready_queue, pc, arg, procVars, timeVars, locked, count, holds,
                   tokens>>

\* MutexBlocking::lock finds it taken: the unlocker will hand it over.
lock_block(t, m) ==
    /\ At(t, "lock")
    /\ arg[t] = m
    /\ locked[m]
    /\ wait_queue' = [wait_queue EXCEPT ![m] = Append(@, t)]
    /\ block_current_and_run_next(t)
    /\ Goto(t, "locked")
    /\ UNCHANGED <<ready_queue, procVars, timeVars, locked, count, holds,
                   tokens>>

\* MutexSpin::lock finds it taken: it yields and tests again.
lock_spin(t, m) ==
    /\ At(t, "lock")
    /\ arg[t] = m
    /\ locked[m]
    /\ suspend_current_and_run_next(t)
    /\ UNCHANGED <<pc, arg, procVars, timeVars, syncVars>>

\* lock() returns to its caller.
lock_return(t) ==
    /\ At(t, "locked")
    /\ holds' = [holds EXCEPT ![t] = @ \cup {arg[t]}]
    /\ pc' = [pc EXCEPT ![t] = "tail"]
    /\ arg' = [arg EXCEPT ![t] = None]
    /\ UNCHANGED <<ready_queue, current, task_status, procVars, timeVars,
                   wait_queue, locked, count, tokens>>

\* unlock leaves the mutex locked when it hands it to the first waiter.
HandsOver(m) == m \in BlockingMutexes /\ wait_queue[m] # <<>>

unlock(t, m) ==
    /\ m \in holds[t]
    /\ holds' = [holds EXCEPT ![t] = @ \ {m}]
    /\ locked' = [locked EXCEPT ![m] = HandsOver(m)]

\* A program unlocks only what it holds; unlock() itself does not look.
sys_mutex_unlock(t, m) ==
    /\ Syscall(t, "unlock")
    /\ t \in Threads
    /\ unlock(t, m)
    /\ IF m \in BlockingMutexes
       THEN wakeup_front(m)
       ELSE UNCHANGED <<task_status, ready_queue, wait_queue>>
    /\ Goto(t, "tail")
    /\ UNCHANGED <<current, procVars, timeVars, count, tokens>>
-----------------------------------------------------------------------------
(* Semaphores and condition variables.                                     *)

sys_semaphore_up(t, s) ==
    /\ Syscall(t, "up")
    /\ t \in Threads
    /\ tokens[s] < MaxTokens
    /\ count' = [count EXCEPT ![s] = @ + 1]
    /\ tokens' = [tokens EXCEPT ![s] = @ + 1]
    /\ IF count'[s] <= 0
       THEN wakeup_front(s)
       ELSE UNCHANGED <<task_status, ready_queue, wait_queue>>
    /\ Goto(t, "tail")
    /\ UNCHANGED <<current, procVars, timeVars, locked, holds>>
\* The body of down with another bound below which it blocks.
down_below(t, s, bound) ==
    /\ Syscall(t, "down")
    /\ t \in Threads
    /\ count' = [count EXCEPT ![s] = @ - 1]
    /\ IF count'[s] < bound
       THEN /\ wait_queue' = [wait_queue EXCEPT ![s] = Append(@, t)]
            /\ block_current_and_run_next(t)
       ELSE UNCHANGED <<current, task_status, wait_queue>>
    /\ pc' = [pc EXCEPT ![t] = "downed"]
    /\ arg' = [arg EXCEPT ![t] = s]
    /\ UNCHANGED <<ready_queue, procVars, timeVars, locked, holds, tokens>>

\* Mutants: down() blocks on the last token, or lets one caller too many through.
sys_semaphore_down_eager(t, s) == down_below(t, s, 1)
sys_semaphore_down_lax(t, s) == down_below(t, s, -1)

sys_semaphore_down(t, s) ==
    /\ Syscall(t, "down")
    /\ t \in Threads
    /\ count' = [count EXCEPT ![s] = @ - 1]
    /\ IF count'[s] < 0
       THEN /\ wait_queue' = [wait_queue EXCEPT ![s] = Append(@, t)]
            /\ block_current_and_run_next(t)
       ELSE UNCHANGED <<current, task_status, wait_queue>>
    /\ pc' = [pc EXCEPT ![t] = "downed"]
    /\ arg' = [arg EXCEPT ![t] = s]
    /\ UNCHANGED <<ready_queue, procVars, timeVars, locked, holds, tokens>>

\* down() returns to its caller.
down_return(t) ==
    /\ At(t, "downed")
    /\ tokens' = [tokens EXCEPT ![arg[t]] = @ - 1]
    /\ pc' = [pc EXCEPT ![t] = "tail"]
    /\ arg' = [arg EXCEPT ![t] = None]
    /\ UNCHANGED <<ready_queue, current, task_status, procVars, timeVars,
                   wait_queue, locked, count, holds>>

sys_condvar_signal(t, c) ==
    /\ Syscall(t, "signal")
    /\ t \in Threads
    /\ wakeup_front(c)
    /\ Goto(t, "tail")
    /\ UNCHANGED <<current, procVars, timeVars, locked, count, holds, tokens>>

\* Condvar::wait: unlock, enqueue, block; when woken, lock again.  The front
\* waiter of the mutex is woken by the same call that blocks t.
sys_condvar_wait(t, c, m) ==
    /\ Syscall(t, "wait")
    /\ t \in Threads
    /\ unlock(t, m)
    /\ IF HandsOver(m)
       THEN /\ add_task(Head(wait_queue[m]))
            /\ task_status' = [task_status EXCEPT ![Head(wait_queue[m])] = "Ready",
                                                  ![t] = "Blocked"]
            /\ wait_queue' = [wait_queue EXCEPT ![m] = Tail(@),
                                                ![c] = Append(@, t)]
       ELSE /\ task_status' = [task_status EXCEPT ![t] = "Blocked"]
            /\ wait_queue' = [wait_queue EXCEPT ![c] = Append(@, t)]
            /\ UNCHANGED ready_queue
    /\ current' = None
    /\ pc' = [pc EXCEPT ![t] = "lock"]
    /\ arg' = [arg EXCEPT ![t] = m]
    /\ UNCHANGED <<procVars, timeVars, count, tokens>>
-----------------------------------------------------------------------------
(* Signals and exit.                                                       *)

\* sys_kill finds the process until remove_from_pid2process; the signal is one
\* of those check_error looks for.
sys_kill(t) ==
    /\ Syscall(t, "kill")
    /\ signals' = (signals \/ ~is_zombie)
    /\ Goto(t, "tail")
    /\ UNCHANGED <<ready_queue, current, task_status, res, tasks, is_zombie,
                   to_recycle, timeVars, syncVars>>

\* A page fault or an illegal instruction: current_add_signal.
user_fault(t) ==
    /\ Syscall(t, "fault")
    /\ t \in Threads
    /\ signals' = TRUE
    /\ Goto(t, "tail")
    /\ UNCHANGED <<ready_queue, current, task_status, res, tasks, is_zombie,
                   to_recycle, timeVars, syncVars>>

\* The tail of trap_handler without an error signal: trap_return.
trap_return(t) ==
    /\ At(t, "tail")
    /\ ~(t \in Threads /\ signals)
    /\ Goto(t, "user")
    /\ UNCHANGED <<ready_queue, current, task_status, procVars, timeVars,
                   syncVars>>

\* exit_current_and_run_next.  The exit of another thread than Main leaves its
\* status, its entry in tasks and what it holds as they are.
exit_current_and_run_next(t) ==
    /\ current' = None
    /\ Goto(t, "exited")
    /\ IF t = Main
       THEN /\ is_zombie' = TRUE
            /\ to_recycle' = tasks
       ELSE UNCHANGED <<is_zombie, to_recycle>>
    /\ res' = res \ {t}
    /\ UNCHANGED <<ready_queue, task_status, tasks, signals, timeVars,
                   syncVars>>

sys_exit(t) ==
    /\ Syscall(t, "exit")
    /\ t \in Threads
    /\ exit_current_and_run_next(t)

\* check_signals_of_current finds an error.
exit_on_signal(t) ==
    /\ At(t, "tail")
    /\ t \in Threads
    /\ signals
    /\ exit_current_and_run_next(t)

\* One turn of the loop over process_inner.tasks: remove_inactive_task and
\* res.take(); after the last one tasks.pop() leaves the main thread only.
recycle_task(u) ==
    /\ u \in to_recycle
    /\ ready_queue' = RemoveFirst(ready_queue, u)
    /\ timers' = {x \in timers : x.task # u}
    /\ res' = res \ {u}
    /\ to_recycle' = to_recycle \ {u}
    /\ tasks' = IF to_recycle = {u} THEN {Main} ELSE tasks
    /\ UNCHANGED <<current, task_status, pc, arg, signals, is_zombie, now,
                   syncVars>>
-----------------------------------------------------------------------------
\* What t does in the kernel once it is there: it goes on by itself.
KernelStep(t) ==
    \/ \E m \in Mutexes : lock_free(t, m)
    \/ \E m \in BlockingMutexes : lock_block(t, m)
    \/ \E m \in SpinMutexes : lock_spin(t, m)
    \/ lock_return(t)
    \/ down_return(t)
    \/ \E x \in timers : check_timer_wakeup(t, x)
    \/ check_timer_done(t)
    \/ trap_return(t)
    \/ exit_on_signal(t)

\* What the program of t does in user mode.
UserStep(t) ==
    \/ sys_yield(t)
    \/ \E u \in Threads : sys_thread_create(t, u)
    \/ \E ms \in 0..MaxTime : sys_sleep(t, ms)
    \/ \E m \in Mutexes : sys_mutex_lock(t, m) \/ sys_mutex_unlock(t, m)
    \/ \E s \in Semaphores : sys_semaphore_up(t, s) \/ sys_semaphore_down(t, s)
    \/ \E c \in Condvars : sys_condvar_signal(t, c)
    \/ \E c \in Condvars, m \in Mutexes : sys_condvar_wait(t, c, m)
    \/ sys_kill(t)
    \/ user_fault(t)
    \/ sys_exit(t)

Next ==
    \/ Tick
    \/ run_tasks
    \/ \E u \in to_recycle : recycle_task(u)
    \/ \E t \in Tasks : timer_interrupt(t) \/ KernelStep(t) \/ UserStep(t)

Spec == Init /\ [][Next]_vars
-----------------------------------------------------------------------------
(* Safety.                                                                 *)

Ready == Range(ready_queue)
Waiting(q) == Range(wait_queue[q])
Sleeping == {x.task : x \in timers}

\* Every task that still has its resources is in exactly one place, once: on the
\* CPU, in the ready queue, in one wait queue or in TIMERS; and its task_status
\* says which.  A task queued twice would run on one kernel stack twice, and one
\* queued nowhere would be lost (wakeup_task and add_task check nothing).
OnePlace ==
    /\ IsInjective(ready_queue)
    /\ \A q \in WaitQueues : IsInjective(wait_queue[q])
    /\ \A q, r \in WaitQueues : q # r => Waiting(q) \cap Waiting(r) = {}
    /\ \A x, y \in timers : x.task = y.task => x = y
    /\ \A t \in Ready : task_status[t] = "Ready"
    /\ current # None => task_status[current] = "Running"
    /\ \A q \in WaitQueues : \A t \in Waiting(q) : task_status[t] = "Blocked"
    /\ \A t \in Sleeping : task_status[t] = "Blocked"
    /\ \A q \in WaitQueues : Waiting(q) \cap Sleeping = {}
    /\ \A t \in res \cup Peers :
          \/ t = current
          \/ t \in Ready \cup Sleeping
          \/ \E q \in WaitQueues : t \in Waiting(q)

\* What runs, and what is queued to run or to be woken while the process lives,
\* still has its TaskUserRes: trap_return, exit_current_and_run_next and
\* current_trap_cx unwrap `res`, which exit has taken.
RunnableHasRes ==
    /\ current \in Threads => current \in res
    /\ Ready \cap Threads \subseteq res
    /\ Sleeping \subseteq res
    /\ ~is_zombie => \A q \in WaitQueues : Waiting(q) \subseteq res

\* Once the exit of the main thread is over, no thread of the process can be
\* scheduled again: none is on the CPU, in the ready queue or in TIMERS.  The
\* threads that stay blocked in the process' own mutexes, semaphores and condvars
\* have nobody left to wake them.
ZombieNeverRuns ==
    is_zombie =>
        /\ current \notin Threads
        /\ \A t \in Threads \ to_recycle :
              t \notin Ready \cup Sleeping \cup res

\* Whoever holds a mutex finds `locked` set (the assert! of unlock), and nobody
\* waits for a free mutex (MutexBlocking::unlock hands over or clears).
LockedWhileUsed ==
    \A m \in Mutexes :
        ~locked[m] =>
            /\ \A t \in Tasks : m \notin holds[t]
            /\ m \in BlockingMutexes => wait_queue[m] = <<>>

\* count < 0 says how many tasks wait: so `count <= 0` after the increment of up
\* is right about there being somebody to wake.
SemaphoreQueue ==
    \A s \in Semaphores :
        Len(wait_queue[s]) = IF count[s] < 0 THEN -count[s] ELSE 0

\* The lock() calls on m that have been granted and have yet to return, and the
\* same for the down() calls on s.
Granted(m) ==
    {t \in Tasks : /\ pc[t] = "locked" /\ arg[t] = m
                   /\ m \in BlockingMutexes => t \notin Waiting(m)}
DownsDue(s) ==
    {t \in Tasks : pc[t] = "downed" /\ arg[t] = s /\ t \notin Waiting(s)}

\* Where a task waits agrees with what it will do when it is woken.
Continuations ==
    /\ \A m \in BlockingMutexes : \A t \in Waiting(m) : pc[t] = "locked" /\ arg[t] = m
    /\ \A s \in Semaphores : \A t \in Waiting(s) : pc[t] = "downed" /\ arg[t] = s
    /\ \A c \in Condvars : \A t \in Waiting(c) : pc[t] = "lock"
    /\ \A t \in Sleeping : pc[t] = "tail"
    /\ \A t \in Tasks :
          /\ pc[t] \in {"lock", "locked"} => t \in Threads /\ arg[t] \in Mutexes
          /\ pc[t] = "downed" => t \in Threads /\ arg[t] \in Semaphores

\* The exit of the process is one step for everybody else.
ExitIsExclusive ==
    /\ to_recycle # {} => is_zombie /\ current = None
    /\ res \subseteq tasks

\* A mutex is locked exactly while one lock() has been granted on it: held, or
\* handed over to a task that has yet to run.
OneGrant ==
    \A m \in Mutexes :
        /\ \A t, u \in Tasks : m \in holds[t] /\ m \in holds[u] => t = u
        /\ \A t, u \in Granted(m) : t = u
        /\ \A t \in Tasks : m \in holds[t] => Granted(m) = {}
        /\ ~locked[m] => Granted(m) = {}

\* The tokens of a semaphore are those nobody asked for and those of the down()
\* calls that up() has let go but that have yet to return.
TokensAccounted ==
    \A s \in Semaphores :
        tokens[s] = (IF count[s] > 0 THEN count[s] ELSE 0) + Cardinality(DownsDue(s))

\* The inductive invariant: what the kernel relies on between two steps.
KernelInv ==
    /\ TypeOK
    /\ OnePlace
    /\ RunnableHasRes
    /\ ZombieNeverRuns
    /\ Continuations
    /\ ExitIsExclusive
    /\ LockedWhileUsed
    /\ OneGrant
    /\ SemaphoreQueue
    /\ TokensAccounted

Contract == INSTANCE SyncContract

\* The kernel implements the contract of its mutexes and semaphores: a lock()
\* returns only while nobody holds the mutex, a down() only against a token.
ImplementsContract == Contract!Spec

\* FIFO: while tasks wait for a blocking mutex or a semaphore, the only one of
\* them that a step lets go is the one that has waited longest.
FirstComeFirstServed ==
    [][\A q \in BlockingMutexes \cup Semaphores :
          \A i \in DOMAIN wait_queue[q] :
             wait_queue[q][i] \notin Range(wait_queue'[q]) => i = 1]_vars

\* A sleeper leaves TIMERS with its process, or when its time has come and
\* before those whose time comes later; then it is queued to run, once.  And
\* when check_timer returns, nobody whose time has come is left asleep, however
\* many were due: otherwise one would sleep on till the next interrupt.
SleepersInOrder ==
    [][/\ \A x \in timers \ timers' :
             \/ is_zombie /\ x.task \notin Ready'
             \/ /\ x.expire_ms <= now
                /\ \A y \in timers' : x.expire_ms <= y.expire_ms
                /\ x.task \notin Ready
                /\ ready_queue' = Append(ready_queue, x.task)
       /\ \A t \in Tasks :
             pc[t] = "timer" /\ pc'[t] # "timer" =>
                 \A x \in timers' : x.expire_ms > now]_vars
-----------------------------------------------------------------------------
(* Liveness.                                                               *)
(* The kernel goes on by itself.  A pending timer interrupt is taken as    *)
(* soon as the CPU is in user mode with the interrupt enabled, however     *)
(* often the program enters the kernel: strong fairness.  Time passes      *)
(* whatever the kernel does.                                               *)

KernelFairness ==
    /\ WF_vars(run_tasks)
    /\ WF_vars(\E u \in to_recycle : recycle_task(u))
    /\ \A t \in Tasks : WF_vars(KernelStep(t)) /\ SF_vars(timer_interrupt(t))

FairSpec == Spec /\ KernelFairness /\ SF_vars(Tick)

\* A program that does not keep a mutex for ever.
UnlockFairness ==
    \A t \in Threads, m \in Mutexes : SF_vars(sys_mutex_unlock(t, m))

UnlockingSpec == FairSpec /\ UnlockFairness

\* A thread that calls lock() on a blocking mutex gets it, if no thread keeps it
\* for ever: the hand-over of unlock leaves no room for barging.
LockIsGranted ==
    \A t \in Threads, m \in BlockingMutexes :
        (pc[t] \in {"lock", "locked"} /\ arg[t] = m) ~> (m \in holds[t])

\* Every sleeper becomes ready: some task (initproc) always comes back to user
\* mode, where the timer interrupt is taken; the idle loop would not take it.
SleepersWake == \A t \in Threads : t \in Sleeping ~> t \in Ready

\* A process that has been sent an error signal becomes a zombie.
KillTerminates == signals ~> is_zombie
=============================================================================
