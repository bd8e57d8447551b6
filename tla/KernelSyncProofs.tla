-------------------------- MODULE KernelSyncProofs --------------------------
(***************************************************************************)
(* Proofs about KernelSync, for any number of threads, peers, mutexes,     *)
(* semaphores and condvars.  KernelInv is inductive: one lemma per action  *)
(* shows that the action preserves it.  Three lemmas come first, on what   *)
(* the invariant says of the running task, and on the parts of it that an  *)
(* action leaves alone.                                                    *)
(***************************************************************************)
EXTENDS KernelSync, QueueLemmas, FiniteSetTheorems

\* The running task is queued nowhere, and its process is alive.
LEMMA RunningTask ==
    ASSUME KernelInv, NEW t \in Tasks, current = t
    PROVE  /\ t # None
           /\ task_status[t] = "Running"
           /\ t \notin Ready
           /\ t \notin Sleeping
           /\ \A q \in WaitQueues : t \notin Waiting(q)
           /\ t \in Threads => t \in res /\ ~is_zombie
           /\ t \in res \cup Peers
           /\ to_recycle = {}
  BY TasksAssumption DEF KernelInv, OnePlace, RunnableHasRes, ZombieNeverRuns,
     ExitIsExclusive, Tasks

\* Only tasks are queued, and only threads of the process wait or sleep.
LEMMA QueuedTasks ==
    ASSUME KernelInv
    PROVE  /\ Ready \subseteq Tasks
           /\ Sleeping \subseteq Threads
           /\ \A q \in WaitQueues : Waiting(q) \subseteq Threads
           /\ Threads \subseteq Tasks
<1>1. Ready \subseteq Tasks
  BY RangeOfSeq DEF KernelInv, TypeOK, Ready
<1>2. \A q \in WaitQueues : Waiting(q) \subseteq Threads
  BY RangeOfSeq DEF KernelInv, TypeOK, Waiting
<1>3. Sleeping \subseteq Threads
  BY DEF KernelInv, TypeOK, Sleeping
<1> QED  BY <1>1, <1>2, <1>3 DEF Tasks

\* A step that leaves alone the sync objects, and the tasks in the middle of a
\* granted lock() or down(), preserves what KernelInv says of the sync objects.
LEMMA SyncFrame ==
    ASSUME KernelInv, UNCHANGED syncVars,
           \A u \in Tasks :
              \/ pc'[u] = pc[u] /\ arg'[u] = arg[u]
              \/ /\ pc[u] \notin {"locked", "downed"}
                 /\ pc'[u] \notin {"locked", "downed"}
    PROVE  LockedWhileUsed' /\ OneGrant' /\ SemaphoreQueue' /\ TokensAccounted'
<1>1. \A q \in WaitQueues : Waiting(q)' = Waiting(q)
  BY DEF syncVars, Waiting
<1>2. \A m \in Mutexes : Granted(m)' = Granted(m)
  BY <1>1 DEF Granted, WaitQueues
<1>3. \A s \in Semaphores : DownsDue(s)' = DownsDue(s)
  BY <1>1 DEF DownsDue, WaitQueues
<1>4. LockedWhileUsed' /\ SemaphoreQueue'
  BY DEF KernelInv, LockedWhileUsed, SemaphoreQueue, syncVars
<1>5. OneGrant'
  BY <1>2 DEF KernelInv, OneGrant, syncVars
<1>6. TokensAccounted'
  BY <1>3 DEF KernelInv, TokensAccounted, syncVars
<1> QED  BY <1>4, <1>5, <1>6

\* A step that moves no task, creates none and ends none preserves what KernelInv
\* says of the places of the tasks.
LEMMA PlaceFrame ==
    ASSUME KernelInv,
           UNCHANGED <<ready_queue, current, task_status, wait_queue, timers, res,
                       tasks, is_zombie, to_recycle>>
    PROVE  /\ OnePlace' /\ RunnableHasRes' /\ ZombieNeverRuns' /\ ExitIsExclusive'
           /\ Ready' = Ready /\ Sleeping' = Sleeping
           /\ \A q : Waiting(q)' = Waiting(q)
<1>1. /\ Ready' = Ready /\ Sleeping' = Sleeping
      /\ \A q : Waiting(q)' = Waiting(q)
  BY DEF Ready, Sleeping, Waiting
<1>2. OnePlace'
  BY <1>1 DEF KernelInv, OnePlace
<1>3. RunnableHasRes' /\ ZombieNeverRuns' /\ ExitIsExclusive'
  BY <1>1 DEF KernelInv, RunnableHasRes, ZombieNeverRuns, ExitIsExclusive
<1> QED  BY <1>1, <1>2, <1>3

-----------------------------------------------------------------------------
(* Steps that leave every task where it is.                                *)

LEMMA TickInv ==
    ASSUME KernelInv, Tick
    PROVE  KernelInv'
<1> USE DEF Tick, schedVars, procVars
<1>1. TypeOK'
  BY BoundsAssumption DEF KernelInv, TypeOK, syncVars
<1>2. OnePlace' /\ RunnableHasRes' /\ ZombieNeverRuns' /\ ExitIsExclusive'
  BY PlaceFrame DEF syncVars
<1>3. Continuations'
  BY PlaceFrame DEF KernelInv, Continuations, syncVars
<1>4. LockedWhileUsed' /\ OneGrant' /\ SemaphoreQueue' /\ TokensAccounted'
  BY SyncFrame
<1> QED  BY <1>1, <1>2, <1>3, <1>4 DEF KernelInv

\* The steps of t in the kernel that only move its continuation.
LEMMA GotoInv ==
    ASSUME KernelInv, NEW t \in Tasks, current = t,
           pc[t] \in {"user", "tail"},
           NEW l \in {"user", "tail", "timer"}, Goto(t, l),
           UNCHANGED <<ready_queue, current, task_status, res, tasks, is_zombie,
                       to_recycle, timeVars, syncVars>>,
           signals' \in BOOLEAN
    PROVE  KernelInv'
<1>1. TypeOK'
  BY DEF KernelInv, TypeOK, PCs, Goto, timeVars, syncVars
<1>2. OnePlace' /\ RunnableHasRes' /\ ZombieNeverRuns' /\ ExitIsExclusive'
  BY PlaceFrame DEF timeVars, syncVars
<1>3. Continuations'
  BY PlaceFrame, RunningTask
     DEF KernelInv, Continuations, TypeOK, Goto, WaitQueues, timeVars, syncVars
<1>4. LockedWhileUsed' /\ OneGrant' /\ SemaphoreQueue' /\ TokensAccounted'
  BY SyncFrame DEF KernelInv, TypeOK, Goto
<1> QED  BY <1>1, <1>2, <1>3, <1>4 DEF KernelInv

LEMMA TimerInterruptInv ==
    ASSUME KernelInv, NEW t \in Tasks, timer_interrupt(t)
    PROVE  KernelInv'
  BY GotoInv DEF timer_interrupt, At, KernelInv, TypeOK, procVars

LEMMA TrapReturnInv ==
    ASSUME KernelInv, NEW t \in Tasks, trap_return(t)
    PROVE  KernelInv'
  BY GotoInv DEF trap_return, At, KernelInv, TypeOK, procVars

LEMMA KillInv ==
    ASSUME KernelInv, NEW t \in Tasks, sys_kill(t)
    PROVE  KernelInv'
  BY GotoInv DEF sys_kill, Syscall, At, KernelInv, TypeOK, procVars

LEMMA FaultInv ==
    ASSUME KernelInv, NEW t \in Tasks, user_fault(t)
    PROVE  KernelInv'
  BY GotoInv DEF user_fault, Syscall, At, KernelInv, TypeOK, procVars

LEMMA MutexLockInv ==
    ASSUME KernelInv, NEW t \in Tasks, NEW m \in Mutexes, sys_mutex_lock(t, m)
    PROVE  KernelInv'
<1> USE DEF sys_mutex_lock, Syscall, At
<1>1. TypeOK'
  BY DEF KernelInv, TypeOK, PCs, procVars, timeVars, syncVars
<1>2. OnePlace' /\ RunnableHasRes' /\ ZombieNeverRuns' /\ ExitIsExclusive'
  BY PlaceFrame DEF procVars, timeVars, syncVars
<1>3. Continuations'
  BY PlaceFrame, RunningTask
     DEF KernelInv, Continuations, TypeOK, WaitQueues, procVars, timeVars, syncVars
<1>4. LockedWhileUsed' /\ OneGrant' /\ SemaphoreQueue' /\ TokensAccounted'
  BY SyncFrame DEF KernelInv, TypeOK
<1> QED  BY <1>1, <1>2, <1>3, <1>4 DEF KernelInv

-----------------------------------------------------------------------------
(* lock() is granted, lock() and down() return.                            *)

LEMMA LockFreeInv ==
    ASSUME KernelInv, NEW t \in Tasks, NEW m \in Mutexes, lock_free(t, m)
    PROVE  KernelInv'
<1> USE DEF lock_free, At, Goto
<1>1. TypeOK'
  BY DEF KernelInv, TypeOK, PCs, procVars, timeVars
<1>2. OnePlace' /\ RunnableHasRes' /\ ZombieNeverRuns' /\ ExitIsExclusive'
  BY PlaceFrame DEF procVars, timeVars
<1>3. Continuations'
  BY PlaceFrame, RunningTask
     DEF KernelInv, Continuations, TypeOK, WaitQueues, procVars, timeVars
<1>4. LockedWhileUsed'
  BY DEF KernelInv, LockedWhileUsed, TypeOK
<1>5. \A q \in WaitQueues : Waiting(q)' = Waiting(q)
  BY DEF Waiting
<1>6. Granted(m)' = {t}
  BY <1>5, RunningTask DEF KernelInv, OneGrant, Granted, TypeOK, WaitQueues
<1>7. \A n \in Mutexes \ {m} : Granted(n)' = Granted(n)
  BY <1>5 DEF KernelInv, Granted, TypeOK, WaitQueues
<1>8. OneGrant'
  BY <1>6, <1>7 DEF KernelInv, OneGrant, LockedWhileUsed, TypeOK
<1>9. SemaphoreQueue'
  BY DEF KernelInv, SemaphoreQueue
<1>10. \A s \in Semaphores : DownsDue(s)' = DownsDue(s)
  BY <1>5 DEF KernelInv, DownsDue, TypeOK, WaitQueues
<1>11. TokensAccounted'
  BY <1>10 DEF KernelInv, TokensAccounted
<1> QED
  BY <1>1, <1>2, <1>3, <1>4, <1>8, <1>9, <1>11 DEF KernelInv

LEMMA LockReturnInv ==
    ASSUME KernelInv, NEW t \in Tasks, lock_return(t)
    PROVE  KernelInv'
<1> USE DEF lock_return, At
<1>1. PICK m \in Mutexes : m = arg[t]
  BY DEF KernelInv, Continuations
<1>2. TypeOK'
  BY <1>1 DEF KernelInv, TypeOK, PCs, procVars, timeVars
<1>3. OnePlace' /\ RunnableHasRes' /\ ZombieNeverRuns' /\ ExitIsExclusive'
  BY PlaceFrame DEF procVars, timeVars
<1>4. Continuations'
  BY PlaceFrame, RunningTask
     DEF KernelInv, Continuations, TypeOK, WaitQueues, procVars, timeVars
<1>5. \A q \in WaitQueues : Waiting(q)' = Waiting(q)
  BY DEF Waiting
<1>6. t \in Granted(m) /\ Granted(m)' = {}
  BY <1>1, <1>5, RunningTask DEF KernelInv, OneGrant, Granted, TypeOK, WaitQueues
<1>7. \A n \in Mutexes \ {m} : Granted(n)' = Granted(n)
  BY <1>1, <1>5 DEF KernelInv, Granted, TypeOK, WaitQueues
<1>8. LockedWhileUsed'
  BY <1>1, <1>6 DEF KernelInv, LockedWhileUsed, OneGrant, TypeOK
<1>9. OneGrant'
  <2>1. \A u \in Tasks : m \in holds'[u] => u = t
    BY <1>1, <1>6 DEF KernelInv, OneGrant, TypeOK
  <2>2. \A u \in Tasks, n \in Mutexes \ {m} : n \in holds'[u] <=> n \in holds[u]
    BY <1>1 DEF KernelInv, TypeOK
  <2> QED
    BY <2>1, <2>2, <1>6, <1>7 DEF KernelInv, OneGrant
<1>10. SemaphoreQueue'
  BY DEF KernelInv, SemaphoreQueue
<1>11. \A s \in Semaphores : DownsDue(s)' = DownsDue(s)
  BY <1>5 DEF KernelInv, DownsDue, TypeOK, WaitQueues
<1>12. TokensAccounted'
  BY <1>11 DEF KernelInv, TokensAccounted
<1> QED
  BY <1>2, <1>3, <1>4, <1>8, <1>9, <1>10, <1>12 DEF KernelInv

\* Cardinalities of the sets of tasks of TokensAccounted.
LEMMA TaskSets ==
    ASSUME NEW T \in SUBSET Tasks, NEW t
    PROVE  /\ IsFiniteSet(T)
           /\ Cardinality(T) \in Nat
           /\ t \in T => Cardinality(T \ {t}) = Cardinality(T) - 1 /\ Cardinality(T) > 0
           /\ t \notin T => Cardinality(T \cup {t}) = Cardinality(T) + 1
<1>1. IsFiniteSet(T)
  BY FS_Subset, TasksAssumption
<1>2. Cardinality(T) \in Nat
  BY <1>1, FS_CardinalityType
<1>3. t \notin T => Cardinality(T \cup {t}) = Cardinality(T) + 1
  BY <1>1, FS_AddElement
<1>4. ASSUME t \in T
      PROVE  Cardinality(T \ {t}) = Cardinality(T) - 1 /\ Cardinality(T) > 0
  <2>1. Cardinality(T \ {t}) = Cardinality(T) - 1
    BY <1>1, <1>4, FS_RemoveElement
  <2>2. IsFiniteSet(T \ {t}) /\ Cardinality(T \ {t}) \in Nat
    BY <1>1, FS_RemoveElement, FS_CardinalityType
  <2> QED  BY <1>2, <2>1, <2>2
<1> QED  BY <1>1, <1>2, <1>3, <1>4

LEMMA DownReturnInv ==
    ASSUME KernelInv, NEW t \in Tasks, down_return(t)
    PROVE  KernelInv'
<1> USE DEF down_return, At
<1>1. PICK s \in Semaphores : s = arg[t]
  BY DEF KernelInv, Continuations
<1>2. TypeOK'
  BY <1>1 DEF KernelInv, TypeOK, PCs, procVars, timeVars
<1>3. OnePlace' /\ RunnableHasRes' /\ ZombieNeverRuns' /\ ExitIsExclusive'
  BY PlaceFrame DEF procVars, timeVars
<1>4. Continuations'
  BY SMTT(30), PlaceFrame, RunningTask
     DEF KernelInv, Continuations, TypeOK, WaitQueues, procVars, timeVars
<1>5. \A q \in WaitQueues : Waiting(q)' = Waiting(q)
  BY DEF Waiting
<1>6. \A m \in Mutexes : Granted(m)' = Granted(m)
  BY <1>5 DEF KernelInv, Granted, TypeOK, WaitQueues
<1>7. LockedWhileUsed' /\ OneGrant' /\ SemaphoreQueue'
  BY <1>6 DEF KernelInv, LockedWhileUsed, OneGrant, SemaphoreQueue
<1>8. t \in DownsDue(s) /\ DownsDue(s)' = DownsDue(s) \ {t}
  BY <1>1, <1>5, RunningTask DEF KernelInv, DownsDue, TypeOK, WaitQueues
<1>9. \A r \in Semaphores \ {s} : DownsDue(r)' = DownsDue(r)
  BY <1>1, <1>5 DEF KernelInv, DownsDue, TypeOK, WaitQueues
<1>10. Cardinality(DownsDue(s)') = Cardinality(DownsDue(s)) - 1
  BY <1>8, TaskSets DEF DownsDue
<1>11. Cardinality(DownsDue(s)) \in Nat
  BY TaskSets DEF DownsDue
<1>12. /\ tokens'[s] = tokens[s] - 1
       /\ \A r \in Semaphores \ {s} : tokens'[r] = tokens[r]
  BY <1>1 DEF KernelInv, TypeOK
<1>13. TokensAccounted'
  BY <1>9, <1>10, <1>11, <1>12 DEF KernelInv, TokensAccounted, TypeOK
<1> QED
  BY <1>2, <1>3, <1>4, <1>7, <1>13 DEF KernelInv

-----------------------------------------------------------------------------
(* The running task gives up the CPU and goes to the ready queue.          *)

LEMMA SuspendInv ==
    ASSUME KernelInv, NEW t \in Tasks, current = t, suspend_current_and_run_next(t),
           UNCHANGED <<procVars, timeVars, syncVars, arg>>,
           \/ pc' = pc
           \/ pc[t] \in {"user", "timer"} /\ pc' = [pc EXCEPT ![t] = "tail"]
    PROVE  KernelInv'
<1> USE DEF suspend_current_and_run_next, add_task
<1>1. /\ ready_queue' \in Seq(Tasks)
      /\ Ready' = Ready \cup {t}
      /\ IsInjective(ready_queue')
  BY RunningTask, AppendFacts DEF KernelInv, OnePlace, TypeOK, Ready
<1>2. Sleeping' = Sleeping /\ \A q : Waiting(q)' = Waiting(q)
  BY DEF Sleeping, Waiting, timeVars, syncVars
<1>3. TypeOK'
  BY <1>1 DEF KernelInv, TypeOK, PCs, procVars, timeVars, syncVars
<1>4. OnePlace'
  BY <1>1, <1>2, RunningTask
     DEF KernelInv, OnePlace, TypeOK, procVars, timeVars, syncVars
<1>5. RunnableHasRes' /\ ZombieNeverRuns' /\ ExitIsExclusive'
  BY <1>1, <1>2, RunningTask, TasksAssumption
     DEF KernelInv, RunnableHasRes, ZombieNeverRuns, ExitIsExclusive, Tasks, procVars
<1>6. Continuations'
  <2>1. CASE pc' = pc
    BY <2>1, <1>2 DEF KernelInv, Continuations
  <2>2. CASE pc[t] \in {"user", "timer"} /\ pc' = [pc EXCEPT ![t] = "tail"]
    BY <2>2, <1>2, RunningTask DEF KernelInv, Continuations, TypeOK, WaitQueues
  <2> QED  BY <2>1, <2>2
<1>7. LockedWhileUsed' /\ OneGrant' /\ SemaphoreQueue' /\ TokensAccounted'
  BY SyncFrame DEF KernelInv, TypeOK
<1> QED  BY <1>3, <1>4, <1>5, <1>6, <1>7 DEF KernelInv

LEMMA YieldInv ==
    ASSUME KernelInv, NEW t \in Tasks, sys_yield(t)
    PROVE  KernelInv'
  BY SuspendInv DEF sys_yield, Syscall, At, Goto

LEMMA CheckTimerDoneInv ==
    ASSUME KernelInv, NEW t \in Tasks, check_timer_done(t)
    PROVE  KernelInv'
  BY SuspendInv DEF check_timer_done, At, Goto

LEMMA LockSpinInv ==
    ASSUME KernelInv, NEW t \in Tasks, NEW m \in SpinMutexes, lock_spin(t, m)
    PROVE  KernelInv'
  BY SuspendInv DEF lock_spin, At

-----------------------------------------------------------------------------
(* The running task blocks.                                                *)

\* The running thread goes from the CPU to the back of a wait queue.
LEMMA BlockPlaces ==
    ASSUME KernelInv, NEW t \in Threads, current = t, NEW q \in WaitQueues,
           wait_queue' = [wait_queue EXCEPT ![q] = Append(@, t)],
           block_current_and_run_next(t),
           UNCHANGED <<ready_queue, timers, res, tasks, is_zombie, to_recycle>>
    PROVE  /\ wait_queue' \in [WaitQueues -> Seq(Threads)]
           /\ Waiting(q)' = Waiting(q) \cup {t}
           /\ Len(wait_queue'[q]) = Len(wait_queue[q]) + 1
           /\ \A r \in WaitQueues \ {q} :
                 Waiting(r)' = Waiting(r) /\ wait_queue'[r] = wait_queue[r]
           /\ Ready' = Ready /\ Sleeping' = Sleeping
           /\ OnePlace' /\ RunnableHasRes' /\ ZombieNeverRuns' /\ ExitIsExclusive'
<1> USE DEF block_current_and_run_next
<1>1. t \in Tasks
  BY DEF Tasks
<1>2. wait_queue[q] \in Seq(Threads) /\ IsInjective(wait_queue[q])
  BY DEF KernelInv, TypeOK, OnePlace
<1>3. /\ wait_queue'[q] = Append(wait_queue[q], t)
      /\ \A r \in WaitQueues \ {q} : wait_queue'[r] = wait_queue[r]
  BY DEF KernelInv, TypeOK
<1>4. /\ wait_queue'[q] \in Seq(Threads)
      /\ Waiting(q)' = Waiting(q) \cup {t}
      /\ Len(wait_queue'[q]) = Len(wait_queue[q]) + 1
      /\ IsInjective(wait_queue'[q])
  BY <1>1, <1>2, <1>3, AppendFacts, RunningTask DEF Waiting
<1>5. wait_queue' \in [WaitQueues -> Seq(Threads)]
  BY <1>3, <1>4 DEF KernelInv, TypeOK
<1>6. \A r \in WaitQueues \ {q} : Waiting(r)' = Waiting(r)
  BY <1>3 DEF Waiting
<1>7. Ready' = Ready /\ Sleeping' = Sleeping
  BY DEF Ready, Sleeping
<1>8. OnePlace'
  <2>1. /\ task_status'[t] = "Blocked"
        /\ \A u \in Tasks \ {t} : task_status'[u] = task_status[u]
    BY <1>1 DEF KernelInv, TypeOK
  <2>2. /\ IsInjective(ready_queue')
        /\ \A r \in WaitQueues : IsInjective(wait_queue'[r])
        /\ \A x, y \in timers' : x.task = y.task => x = y
    BY <1>3, <1>4 DEF KernelInv, OnePlace
  <2>3. /\ \A q1, q2 \in WaitQueues : q1 # q2 => Waiting(q1)' \cap Waiting(q2)' = {}
        /\ \A r \in WaitQueues : Waiting(r)' \cap Sleeping' = {}
    BY <1>1, <1>4, <1>6, <1>7, RunningTask DEF KernelInv, OnePlace
  <2>4. /\ \A u \in Ready' : task_status'[u] = "Ready"
        /\ \A u \in Sleeping' : task_status'[u] = "Blocked"
        /\ \A r \in WaitQueues : \A u \in Waiting(r)' : task_status'[u] = "Blocked"
    BY <2>1, <1>1, <1>4, <1>6, <1>7, RunningTask, QueuedTasks DEF KernelInv, OnePlace
  <2>5. \A u \in (res \cup Peers)' :
           \/ u = current' \/ u \in (Ready \cup Sleeping)'
           \/ \E r \in WaitQueues : u \in Waiting(r)'
    BY <1>4, <1>6, <1>7 DEF KernelInv, OnePlace
  <2> QED  BY <2>2, <2>3, <2>4, <2>5 DEF OnePlace
<1>9. RunnableHasRes' /\ ZombieNeverRuns' /\ ExitIsExclusive'
  BY <1>1, <1>4, <1>6, <1>7, RunningTask, TasksAssumption
     DEF KernelInv, RunnableHasRes, ZombieNeverRuns, ExitIsExclusive, Tasks
<1> QED  BY <1>3, <1>4, <1>5, <1>6, <1>7, <1>8, <1>9

LEMMA LockBlockInv ==
    ASSUME KernelInv, NEW t \in Tasks, NEW m \in BlockingMutexes, lock_block(t, m)
    PROVE  KernelInv'
<1> USE DEF lock_block, At, Goto
<1>1. /\ t \in Threads /\ m \in WaitQueues /\ m \in Mutexes
      /\ m \notin Semaphores /\ m \notin Condvars
  BY ObjectsAssumption DEF KernelInv, Continuations, WaitQueues
<1>2. /\ wait_queue' \in [WaitQueues -> Seq(Threads)]
      /\ Waiting(m)' = Waiting(m) \cup {t}
      /\ \A r \in WaitQueues \ {m} :
            Waiting(r)' = Waiting(r) /\ wait_queue'[r] = wait_queue[r]
      /\ Sleeping' = Sleeping
      /\ OnePlace' /\ RunnableHasRes' /\ ZombieNeverRuns' /\ ExitIsExclusive'
  BY <1>1, BlockPlaces DEF procVars, timeVars
<1>3. TypeOK'
  BY <1>2, TasksAssumption
     DEF KernelInv, TypeOK, PCs, block_current_and_run_next, procVars, timeVars
<1>4. /\ pc[t] = "lock" /\ arg[t] = m /\ pc'[t] = "locked" /\ arg' = arg
      /\ \A u \in Tasks \ {t} : pc'[u] = pc[u]
  BY DEF KernelInv, TypeOK
<1>5. Continuations'
  BY SMTT(30), <1>1, <1>2, <1>4, RunningTask, QueuedTasks DEF KernelInv, Continuations, WaitQueues
<1>6. LockedWhileUsed'
  BY <1>2 DEF KernelInv, LockedWhileUsed, WaitQueues
<1>7. \A n \in Mutexes : Granted(n)' = Granted(n)
  <2>1. ASSUME NEW n \in Mutexes, NEW u \in Tasks
        PROVE  (u \in Granted(n))' <=> u \in Granted(n)
    BY <1>1, <1>2, <1>4 DEF Granted, WaitQueues
  <2> QED  BY <2>1 DEF Granted
<1>8. OneGrant'
  BY <1>7 DEF KernelInv, OneGrant
<1>9. SemaphoreQueue'
  BY <1>1, <1>2 DEF KernelInv, SemaphoreQueue, WaitQueues
<1>10. \A s \in Semaphores : DownsDue(s)' = DownsDue(s)
  BY <1>1, <1>2, <1>4 DEF DownsDue, WaitQueues
<1>11. TokensAccounted'
  BY <1>10 DEF KernelInv, TokensAccounted
<1> QED
  BY <1>2, <1>3, <1>5, <1>6, <1>8, <1>9, <1>11 DEF KernelInv

LEMMA SemaphoreDownInv ==
    ASSUME KernelInv, NEW t \in Tasks, NEW s \in Semaphores, sys_semaphore_down(t, s)
    PROVE  KernelInv'
<1>1. /\ t \in Threads /\ current = t /\ pc[t] = "user"
      /\ s \in WaitQueues /\ s \notin Mutexes
      /\ s \notin BlockingMutexes /\ s \notin Condvars
  BY ObjectsAssumption DEF sys_semaphore_down, Syscall, At, WaitQueues, Mutexes
<1>2. /\ count' \in [Semaphores -> Int]
      /\ count[s] \in Int /\ count'[s] = count[s] - 1
      /\ \A r \in Semaphores \ {s} : count'[r] = count[r]
  BY DEF sys_semaphore_down, KernelInv, TypeOK
<1>3. /\ pc' \in [Tasks -> PCs] /\ arg' \in [Tasks -> Mutexes \cup Semaphores \cup {None}]
      /\ pc'[t] = "downed" /\ arg'[t] = s
      /\ \A u \in Tasks \ {t} : pc'[u] = pc[u] /\ arg'[u] = arg[u]
  BY DEF sys_semaphore_down, KernelInv, TypeOK, PCs
<1>4. UNCHANGED <<ready_queue, procVars, timeVars, locked, holds, tokens>>
  BY DEF sys_semaphore_down
<1>5. CASE count'[s] < 0
  <2>1. /\ wait_queue' = [wait_queue EXCEPT ![s] = Append(@, t)]
        /\ block_current_and_run_next(t)
    BY <1>5 DEF sys_semaphore_down
  <2>2. /\ wait_queue' \in [WaitQueues -> Seq(Threads)]
        /\ Waiting(s)' = Waiting(s) \cup {t}
        /\ Len(wait_queue'[s]) = Len(wait_queue[s]) + 1
        /\ \A r \in WaitQueues \ {s} :
              Waiting(r)' = Waiting(r) /\ wait_queue'[r] = wait_queue[r]
        /\ Sleeping' = Sleeping
        /\ OnePlace' /\ RunnableHasRes' /\ ZombieNeverRuns' /\ ExitIsExclusive'
    BY <1>1, <1>4, <2>1, BlockPlaces DEF procVars, timeVars
  <2>3. TypeOK'
    BY <1>1, <1>2, <1>3, <1>4, <2>1, <2>2
       DEF KernelInv, TypeOK, block_current_and_run_next, procVars, timeVars
  <2>4. Continuations'
    BY SMTT(30), <1>1, <1>3, <2>2, RunningTask, QueuedTasks
       DEF KernelInv, Continuations, WaitQueues
  <2>5. LockedWhileUsed'
    BY <1>1, <1>4, <2>2 DEF KernelInv, LockedWhileUsed, WaitQueues
  <2>6. \A m \in Mutexes : Granted(m)' = Granted(m)
    BY <1>1, <1>3, <2>2 DEF Granted, WaitQueues
  <2>7. OneGrant'
    BY <1>4, <2>6 DEF KernelInv, OneGrant
  <2>8. SemaphoreQueue'
    <3>1. ASSUME NEW r \in Semaphores
          PROVE  Len(wait_queue'[r]) = IF count'[r] < 0 THEN -count'[r] ELSE 0
      <4>1. Len(wait_queue[r]) = IF count[r] < 0 THEN -count[r] ELSE 0
        BY DEF KernelInv, SemaphoreQueue
      <4>2. CASE r = s
        BY <4>1, <4>2, <1>2, <1>5, <2>2
      <4>3. CASE r # s
        <5>1. wait_queue'[r] = wait_queue[r] /\ count'[r] = count[r]
          BY <4>3, <1>2, <2>2 DEF WaitQueues
        <5> QED  BY <5>1, <4>1
      <4> QED  BY <4>2, <4>3
    <3> QED  BY <3>1 DEF SemaphoreQueue
  <2>9. \A r \in Semaphores : DownsDue(r)' = DownsDue(r)
    BY <1>1, <1>3, <2>2 DEF DownsDue, WaitQueues
  <2>10. TokensAccounted'
    BY <1>2, <1>4, <1>5, <2>9 DEF KernelInv, TokensAccounted
  <2> QED
    BY <2>2, <2>3, <2>4, <2>5, <2>7, <2>8, <2>10 DEF KernelInv
<1>6. CASE ~(count'[s] < 0)
  <2>1. UNCHANGED <<current, task_status, wait_queue>>
    BY <1>6 DEF sys_semaphore_down
  <2>2. TypeOK'
    BY <1>2, <1>3, <1>4, <2>1 DEF KernelInv, TypeOK, procVars, timeVars
  <2>3. /\ OnePlace' /\ RunnableHasRes' /\ ZombieNeverRuns' /\ ExitIsExclusive'
        /\ Sleeping' = Sleeping /\ \A q : Waiting(q)' = Waiting(q)
    BY <1>4, <2>1, PlaceFrame DEF procVars, timeVars
  <2>4. Continuations'
    BY <1>1, <1>3, <2>3, RunningTask, QueuedTasks DEF KernelInv, Continuations, WaitQueues
  <2>5. \A m \in Mutexes : Granted(m)' = Granted(m)
    BY <1>1, <1>3, <2>3 DEF Granted
  <2>6. LockedWhileUsed' /\ OneGrant'
    BY <1>4, <2>1, <2>5 DEF KernelInv, LockedWhileUsed, OneGrant
  <2>7. SemaphoreQueue'
    BY <1>2, <1>6, <2>1 DEF KernelInv, SemaphoreQueue
  <2>8. DownsDue(s)' = DownsDue(s) \cup {t} /\ t \notin DownsDue(s)
    BY <1>1, <1>3, <2>3, RunningTask DEF DownsDue
  <2>9. \A r \in Semaphores \ {s} : DownsDue(r)' = DownsDue(r)
    BY <1>1, <1>3, <2>3 DEF DownsDue
  <2>10. Cardinality(DownsDue(s)') = Cardinality(DownsDue(s)) + 1
    BY <2>8, TaskSets DEF DownsDue
  <2>11. Cardinality(DownsDue(s)) \in Nat
    BY TaskSets DEF DownsDue
  <2>12. TokensAccounted'
    BY <1>2, <1>4, <1>6, <2>9, <2>10, <2>11 DEF KernelInv, TokensAccounted
  <2> QED
    BY <2>2, <2>3, <2>4, <2>6, <2>7, <2>12 DEF KernelInv
<1> QED  BY <1>5, <1>6

LEMMA SleepInv ==
    ASSUME KernelInv, NEW t \in Tasks, NEW ms \in 0..MaxTime, sys_sleep(t, ms)
    PROVE  KernelInv'
<1> USE DEF sys_sleep, Syscall, At, Goto, block_current_and_run_next
<1> DEFINE x == [expire_ms |-> now + ms, task |-> t]
<1>1. t \in Threads /\ x.task = t /\ timers' = timers \cup {x}
  OBVIOUS
<1>2. TypeOK'
  BY BoundsAssumption, TasksAssumption
     DEF KernelInv, TypeOK, PCs, procVars, syncVars
<1> HIDE DEF x
<1>3. Sleeping' = Sleeping \cup {t}
  BY <1>1 DEF Sleeping
<1>4. Ready' = Ready /\ \A q : Waiting(q)' = Waiting(q)
  BY DEF Ready, Waiting, syncVars
<1>5. \A y \in timers : y.task # t
  BY RunningTask DEF Sleeping
<1>6. \A y, z \in timers' : y.task = z.task => y = z
  BY <1>1, <1>5 DEF KernelInv, OnePlace
<1>7. OnePlace'
  BY <1>3, <1>4, <1>6, RunningTask DEF KernelInv, OnePlace, TypeOK, procVars, syncVars
<1>8. RunnableHasRes' /\ ZombieNeverRuns' /\ ExitIsExclusive'
  BY <1>1, <1>3, <1>4, RunningTask, TasksAssumption
     DEF KernelInv, RunnableHasRes, ZombieNeverRuns, ExitIsExclusive, Tasks, procVars
<1>9. Continuations'
  BY <1>3, <1>4, RunningTask DEF KernelInv, Continuations, TypeOK, WaitQueues
<1>10. LockedWhileUsed' /\ OneGrant' /\ SemaphoreQueue' /\ TokensAccounted'
  BY SyncFrame DEF KernelInv, TypeOK
<1> QED  BY <1>2, <1>7, <1>8, <1>9, <1>10 DEF KernelInv

-----------------------------------------------------------------------------
(* The front of a wait queue is woken.                                     *)

\* The front of a wait queue goes to the back of the ready queue.
LEMMA WakePlaces ==
    ASSUME KernelInv, NEW t \in Threads, current = t, NEW q \in WaitQueues,
           wait_queue[q] # <<>>, wakeup_front(q),
           UNCHANGED <<current, timers, res, tasks, is_zombie, to_recycle>>
    PROVE  /\ wait_queue' \in [WaitQueues -> Seq(Threads)]
           /\ ready_queue' \in Seq(Tasks)
           /\ task_status' \in [Tasks -> {"Ready", "Running", "Blocked"}]
           /\ Head(wait_queue[q]) \in Waiting(q)
           /\ Waiting(q)' = Waiting(q) \ {Head(wait_queue[q])}
           /\ Len(wait_queue[q]) > 0
           /\ Len(wait_queue'[q]) = Len(wait_queue[q]) - 1
           /\ \A r \in WaitQueues \ {q} :
                 Waiting(r)' = Waiting(r) /\ wait_queue'[r] = wait_queue[r]
           /\ Sleeping' = Sleeping
           /\ OnePlace' /\ RunnableHasRes' /\ ZombieNeverRuns' /\ ExitIsExclusive'
<1> USE DEF wakeup_front, wakeup_task, add_task
<1> DEFINE h == Head(wait_queue[q])
<1>1. wait_queue[q] \in Seq(Threads) /\ IsInjective(wait_queue[q])
  BY DEF KernelInv, TypeOK, OnePlace
<1>2. /\ h \in Threads /\ h \in Waiting(q) /\ h \notin Range(Tail(wait_queue[q]))
      /\ Waiting(q) = Range(Tail(wait_queue[q])) \cup {h}
      /\ Tail(wait_queue[q]) \in Seq(Threads)
      /\ IsInjective(Tail(wait_queue[q]))
      /\ Len(Tail(wait_queue[q])) = Len(wait_queue[q]) - 1 /\ Len(wait_queue[q]) > 0
  BY <1>1, TailFacts DEF Waiting
<1>3. /\ wait_queue'[q] = Tail(wait_queue[q])
      /\ \A r \in WaitQueues \ {q} : wait_queue'[r] = wait_queue[r]
  BY DEF KernelInv, TypeOK
<1>4. wait_queue' \in [WaitQueues -> Seq(Threads)]
  BY <1>2, <1>3 DEF KernelInv, TypeOK
<1>5. Waiting(q)' = Waiting(q) \ {h}
  BY <1>2, <1>3 DEF Waiting
<1>6. \A r \in WaitQueues \ {q} : Waiting(r)' = Waiting(r)
  BY <1>3 DEF Waiting
<1>7. Sleeping' = Sleeping
  BY DEF Sleeping
<1>8. /\ h \in Tasks /\ h # t /\ h \notin Ready /\ h \notin Sleeping
      /\ \A r \in WaitQueues \ {q} : h \notin Waiting(r)
      /\ h \in res
  <2>1. t \notin Waiting(q) /\ ~is_zombie
    BY RunningTask DEF Tasks
  <2> QED
    BY <2>1, <1>2 DEF KernelInv, OnePlace, RunnableHasRes, Tasks
<1>9. ready_queue' = Append(ready_queue, h)
  OBVIOUS
<1>10. /\ ready_queue' \in Seq(Tasks) /\ Ready' = Ready \cup {h}
       /\ IsInjective(ready_queue')
  BY <1>8, <1>9, AppendFacts DEF KernelInv, OnePlace, TypeOK, Ready
<1>11. /\ task_status' \in [Tasks -> {"Ready", "Running", "Blocked"}]
       /\ task_status'[h] = "Ready"
       /\ \A u \in Tasks \ {h} : task_status'[u] = task_status[u]
  BY <1>8 DEF KernelInv, TypeOK
<1> HIDE DEF h, wakeup_front
<1>12. OnePlace'
  <2>1. /\ \A r \in WaitQueues : IsInjective(wait_queue'[r])
        /\ \A x, y \in timers' : x.task = y.task => x = y
    BY <1>2, <1>3 DEF KernelInv, OnePlace
  <2>2. /\ \A q1, q2 \in WaitQueues : q1 # q2 => Waiting(q1)' \cap Waiting(q2)' = {}
        /\ \A r \in WaitQueues : Waiting(r)' \cap Sleeping' = {}
    BY <1>5, <1>6, <1>7 DEF KernelInv, OnePlace
  <2>3. /\ \A u \in Ready' : task_status'[u] = "Ready"
        /\ current' # None => task_status'[current'] = "Running"
        /\ \A u \in Sleeping' : task_status'[u] = "Blocked"
        /\ \A r \in WaitQueues : \A u \in Waiting(r)' : task_status'[u] = "Blocked"
    BY <1>5, <1>6, <1>7, <1>8, <1>10, <1>11, RunningTask, QueuedTasks
       DEF KernelInv, OnePlace
  <2>4. \A u \in (res \cup Peers)' :
           \/ u = current' \/ u \in (Ready \cup Sleeping)'
           \/ \E r \in WaitQueues : u \in Waiting(r)'
    BY <1>5, <1>6, <1>7, <1>10 DEF KernelInv, OnePlace
  <2> QED  BY <1>10, <2>1, <2>2, <2>3, <2>4 DEF OnePlace
<1>13. RunnableHasRes' /\ ZombieNeverRuns' /\ ExitIsExclusive'
  BY <1>5, <1>6, <1>7, <1>8, <1>10, RunningTask
     DEF KernelInv, RunnableHasRes, ZombieNeverRuns, ExitIsExclusive, Tasks
<1> QED
  BY <1>2, <1>3, <1>4, <1>5, <1>6, <1>7, <1>10, <1>11, <1>12, <1>13 DEF h

\* unlock(), in sys_mutex_unlock and in Condvar::wait, as the mutexes see it.
LEMMA UnlockGrants ==
    ASSUME KernelInv, NEW t \in Threads, current = t, pc[t] = "user",
           NEW m \in Mutexes, unlock(t, m),
           pc'[t] \notin {"locked", "downed"},
           \A u \in Tasks \ {t} : pc'[u] = pc[u] /\ arg'[u] = arg[u],
           \A n \in BlockingMutexes :
              IF n = m /\ HandsOver(m)
              THEN /\ Waiting(m)' = Waiting(m) \ {Head(wait_queue[m])}
                   /\ Head(wait_queue[m]) \in Waiting(m)
              ELSE Waiting(n)' = Waiting(n) /\ wait_queue'[n] = wait_queue[n]
    PROVE  LockedWhileUsed' /\ OneGrant'
<1>1. t \in Tasks /\ m \in holds[t]
  BY DEF Tasks, unlock
<1>2. /\ locked[m] /\ Granted(m) = {}
      /\ \A u \in Tasks : m \in holds[u] => u = t
  BY <1>1 DEF KernelInv, LockedWhileUsed, OneGrant, TypeOK
<1>3. /\ \A u \in Tasks : m \notin holds'[u]
      /\ \A u \in Tasks, n \in Mutexes \ {m} : n \in holds'[u] <=> n \in holds[u]
  BY <1>1, <1>2 DEF KernelInv, TypeOK, unlock
<1>4. /\ locked'[m] = HandsOver(m)
      /\ \A n \in Mutexes \ {m} : locked'[n] = locked[n]
  BY DEF KernelInv, TypeOK, unlock
<1>5. \A n \in Mutexes \ {m} : Granted(n)' = Granted(n)
  <2>1. ASSUME NEW n \in Mutexes \ {m}, NEW u \in Tasks
        PROVE  (u \in Granted(n))' <=> u \in Granted(n)
    BY <1>1 DEF Granted
  <2> QED  BY <2>1 DEF Granted
<1>6. CASE HandsOver(m)
  <2>1. m \in BlockingMutexes
    BY <1>6 DEF HandsOver
  <2>2. PICK h \in Threads : h = Head(wait_queue[m]) /\ h \in Waiting(m)
    BY <1>6, <2>1, QueuedTasks DEF WaitQueues
  <2>3. Waiting(m)' = Waiting(m) \ {h}
    BY <1>6, <2>1, <2>2
  <2>4. pc[h] = "locked" /\ arg[h] = m /\ h \in Tasks /\ h # t
    BY <1>1, <2>1, <2>2, RunningTask DEF KernelInv, Continuations, Tasks, WaitQueues
  <2>5. Granted(m)' = {h}
    BY <1>1, <1>2, <2>1, <2>3, <2>4 DEF Granted
  <2>6. LockedWhileUsed'
    BY <1>3, <1>4, <1>6 DEF KernelInv, LockedWhileUsed
  <2>7. OneGrant'
    <3>1. locked'[m] /\ \A n \in Mutexes \ {m} : ~locked'[n] => ~locked[n]
      BY <1>4, <1>6
    <3>2. /\ \A u, v \in Granted(m)' : u = v
          /\ \A u, v \in Tasks : m \in holds'[u] /\ m \in holds'[v] => u = v
      BY <1>3, <2>5
    <3> QED  BY <1>3, <1>5, <3>1, <3>2 DEF KernelInv, OneGrant
  <2> QED  BY <2>6, <2>7
<1>7. CASE ~HandsOver(m)
  <2>1. m \in BlockingMutexes => wait_queue'[m] = <<>> /\ Waiting(m)' = Waiting(m)
    BY <1>7 DEF HandsOver
  <2>2. Granted(m)' = {}
    BY <1>1, <1>2, <2>1 DEF Granted
  <2>3. LockedWhileUsed'
    BY <1>3, <1>4, <1>7, <2>1 DEF KernelInv, LockedWhileUsed
  <2>4. OneGrant'
    BY <1>3, <1>4, <1>5, <2>2 DEF KernelInv, OneGrant
  <2> QED  BY <2>3, <2>4
<1> QED  BY <1>6, <1>7

\* A step that leaves alone the semaphores and the tasks in the middle of down().
LEMMA SemaphoreFrame ==
    ASSUME KernelInv, UNCHANGED <<count, tokens>>,
           \A s \in Semaphores :
              wait_queue'[s] = wait_queue[s] /\ Waiting(s)' = Waiting(s),
           \A u \in Tasks :
              \/ pc'[u] = pc[u] /\ arg'[u] = arg[u]
              \/ pc[u] # "downed" /\ pc'[u] # "downed"
    PROVE  SemaphoreQueue' /\ TokensAccounted'
<1>1. \A s \in Semaphores : DownsDue(s)' = DownsDue(s)
  BY DEF DownsDue
<1>2. TokensAccounted'
  BY <1>1 DEF KernelInv, TokensAccounted
<1> QED  BY <1>2 DEF KernelInv, SemaphoreQueue

\* Waking tasks, and taking t back to the end of trap_handler, keeps the
\* continuations right.
LEMMA ContinuationsAfterWake ==
    ASSUME KernelInv, NEW t \in Tasks, current = t, pc'[t] = "tail",
           \A u \in Tasks \ {t} : pc'[u] = pc[u] /\ arg'[u] = arg[u],
           Sleeping' \subseteq Sleeping,
           \A q \in WaitQueues : Waiting(q)' \subseteq Waiting(q)
    PROVE  Continuations'
<1>1. ASSUME NEW q \in WaitQueues, NEW u \in Waiting(q)'
      PROVE  u \in Waiting(q) /\ pc'[u] = pc[u] /\ arg'[u] = arg[u]
  BY <1>1, RunningTask, QueuedTasks
<1>2. ASSUME NEW u \in Sleeping'
      PROVE  pc'[u] = pc[u] /\ pc[u] = "tail"
  BY <1>2, RunningTask, QueuedTasks DEF KernelInv, Continuations
<1>3. /\ \A m \in BlockingMutexes : \A u \in Waiting(m)' : pc'[u] = "locked" /\ arg'[u] = m
      /\ \A s \in Semaphores : \A u \in Waiting(s)' : pc'[u] = "downed" /\ arg'[u] = s
      /\ \A c \in Condvars : \A u \in Waiting(c)' : pc'[u] = "lock"
  BY <1>1 DEF KernelInv, Continuations, WaitQueues
<1>4. \A u \in Tasks :
         /\ pc'[u] \in {"lock", "locked"} => u \in Threads /\ arg'[u] \in Mutexes
         /\ pc'[u] = "downed" => u \in Threads /\ arg'[u] \in Semaphores
  BY DEF KernelInv, Continuations
<1> QED  BY <1>2, <1>3, <1>4 DEF Continuations

LEMMA MutexUnlockInv ==
    ASSUME KernelInv, NEW t \in Tasks, NEW m \in Mutexes, sys_mutex_unlock(t, m)
    PROVE  KernelInv'
<1>1. /\ t \in Threads /\ current = t /\ pc[t] = "user" /\ unlock(t, m)
      /\ m \notin Semaphores /\ m \notin Condvars
      /\ UNCHANGED <<current, procVars, timeVars, count, tokens, arg>>
  BY ObjectsAssumption DEF sys_mutex_unlock, Syscall, At, Goto
<1>2. /\ pc' \in [Tasks -> PCs] /\ pc'[t] = "tail"
      /\ \A u \in Tasks \ {t} : pc'[u] = pc[u] /\ arg'[u] = arg[u]
  BY <1>1 DEF sys_mutex_unlock, Goto, KernelInv, TypeOK, PCs
<1>3. /\ holds' \in [Tasks -> SUBSET Mutexes]
      /\ locked' \in [Mutexes -> BOOLEAN]
  BY <1>1 DEF KernelInv, TypeOK, unlock, HandsOver
<1>4. CASE HandsOver(m)
  <2>1. m \in BlockingMutexes /\ m \in WaitQueues /\ wait_queue[m] # <<>> /\ wakeup_front(m)
    BY <1>4 DEF sys_mutex_unlock, HandsOver, WaitQueues
  <2>2. /\ wait_queue' \in [WaitQueues -> Seq(Threads)]
        /\ ready_queue' \in Seq(Tasks)
        /\ task_status' \in [Tasks -> {"Ready", "Running", "Blocked"}]
        /\ Head(wait_queue[m]) \in Waiting(m)
        /\ Waiting(m)' = Waiting(m) \ {Head(wait_queue[m])}
        /\ \A r \in WaitQueues \ {m} :
              Waiting(r)' = Waiting(r) /\ wait_queue'[r] = wait_queue[r]
        /\ Sleeping' = Sleeping
        /\ OnePlace' /\ RunnableHasRes' /\ ZombieNeverRuns' /\ ExitIsExclusive'
    BY <1>1, <2>1, WakePlaces DEF procVars, timeVars
  <2>3. TypeOK'
    BY <1>1, <1>2, <1>3, <2>2 DEF KernelInv, TypeOK, procVars, timeVars
  <2>4. Continuations'
    <3>1. \A q \in WaitQueues : Waiting(q)' \subseteq Waiting(q)
      BY <2>1, <2>2
    <3> QED  BY <1>1, <1>2, <2>2, <3>1, ContinuationsAfterWake
  <2>5. LockedWhileUsed' /\ OneGrant'
    BY <1>1, <1>2, <1>4, <2>2, UnlockGrants DEF WaitQueues
  <2>6. SemaphoreQueue' /\ TokensAccounted'
    BY <1>1, <1>2, <2>2, SemaphoreFrame DEF WaitQueues
  <2> QED  BY <2>2, <2>3, <2>4, <2>5, <2>6 DEF KernelInv
<1>5. CASE ~HandsOver(m)
  <2>1. UNCHANGED <<task_status, ready_queue, wait_queue>>
    BY <1>5 DEF sys_mutex_unlock, HandsOver, wakeup_front
  <2>2. /\ OnePlace' /\ RunnableHasRes' /\ ZombieNeverRuns' /\ ExitIsExclusive'
        /\ Sleeping' = Sleeping /\ \A q : Waiting(q)' = Waiting(q)
    BY <1>1, <2>1, PlaceFrame DEF procVars, timeVars
  <2>3. TypeOK'
    BY <1>1, <1>2, <1>3, <2>1 DEF KernelInv, TypeOK, procVars, timeVars
  <2>4. Continuations'
    BY <1>1, <1>2, <2>2, RunningTask, QueuedTasks
       DEF KernelInv, Continuations, WaitQueues
  <2>5. LockedWhileUsed' /\ OneGrant'
    BY <1>1, <1>2, <1>5, <2>1, <2>2, UnlockGrants
  <2>6. SemaphoreQueue' /\ TokensAccounted'
    BY <1>1, <1>2, <2>1, <2>2, SemaphoreFrame
  <2> QED  BY <2>2, <2>3, <2>4, <2>5, <2>6 DEF KernelInv
<1> QED  BY <1>4, <1>5

LEMMA CondvarSignalInv ==
    ASSUME KernelInv, NEW t \in Tasks, NEW c \in Condvars, sys_condvar_signal(t, c)
    PROVE  KernelInv'
<1>1. /\ t \in Threads /\ current = t /\ pc[t] = "user" /\ wakeup_front(c)
      /\ c \in WaitQueues /\ c \notin Semaphores /\ c \notin BlockingMutexes
      /\ UNCHANGED <<current, procVars, timeVars, locked, count, holds, tokens, arg>>
  BY ObjectsAssumption
     DEF sys_condvar_signal, Syscall, At, Goto, WaitQueues, Mutexes
<1>2. CASE wait_queue[c] = <<>>
  BY <1>1, <1>2, GotoInv
     DEF sys_condvar_signal, wakeup_front, procVars, timeVars, syncVars, KernelInv, TypeOK
<1>3. CASE wait_queue[c] # <<>>
  <2>1. /\ pc' \in [Tasks -> PCs] /\ pc'[t] = "tail"
        /\ \A u \in Tasks \ {t} : pc'[u] = pc[u] /\ arg'[u] = arg[u]
    BY <1>1 DEF sys_condvar_signal, Goto, KernelInv, TypeOK, PCs
  <2>2. /\ wait_queue' \in [WaitQueues -> Seq(Threads)]
        /\ ready_queue' \in Seq(Tasks)
        /\ task_status' \in [Tasks -> {"Ready", "Running", "Blocked"}]
        /\ Waiting(c)' = Waiting(c) \ {Head(wait_queue[c])}
        /\ \A r \in WaitQueues \ {c} :
              Waiting(r)' = Waiting(r) /\ wait_queue'[r] = wait_queue[r]
        /\ Sleeping' = Sleeping
        /\ OnePlace' /\ RunnableHasRes' /\ ZombieNeverRuns' /\ ExitIsExclusive'
    BY <1>1, <1>3, WakePlaces DEF procVars, timeVars
  <2>3. TypeOK'
    BY <1>1, <2>1, <2>2 DEF KernelInv, TypeOK, procVars, timeVars
  <2>4. Continuations'
    <3>1. \A q \in WaitQueues : Waiting(q)' \subseteq Waiting(q)
      BY <1>1, <2>2
    <3> QED  BY <1>1, <2>1, <2>2, <3>1, ContinuationsAfterWake
  <2>5. \A m \in Mutexes : Granted(m)' = Granted(m)
    BY <1>1, <2>1, <2>2 DEF Granted, WaitQueues
  <2>6. LockedWhileUsed'
    BY <1>1, <2>2 DEF KernelInv, LockedWhileUsed, WaitQueues
  <2>7. OneGrant'
    BY <1>1, <2>5 DEF KernelInv, OneGrant
  <2>8. SemaphoreQueue' /\ TokensAccounted'
    BY <1>1, <2>1, <2>2, SemaphoreFrame DEF WaitQueues
  <2> QED  BY <2>2, <2>3, <2>4, <2>6, <2>7, <2>8 DEF KernelInv
<1> QED  BY <1>2, <1>3

LEMMA SemaphoreUpInv ==
    ASSUME KernelInv, NEW t \in Tasks, NEW s \in Semaphores, sys_semaphore_up(t, s)
    PROVE  KernelInv'
<1>1. /\ t \in Threads /\ current = t /\ pc[t] = "user"
      /\ s \in WaitQueues /\ s \notin BlockingMutexes /\ s \notin Condvars
      /\ UNCHANGED <<current, procVars, timeVars, locked, holds, arg>>
  BY ObjectsAssumption DEF sys_semaphore_up, Syscall, At, Goto, WaitQueues, Mutexes
<1>2. /\ count' \in [Semaphores -> Int] /\ tokens' \in [Semaphores -> Int]
      /\ count[s] \in Int /\ count'[s] = count[s] + 1
      /\ tokens[s] \in Int /\ tokens'[s] = tokens[s] + 1
      /\ \A r \in Semaphores \ {s} : count'[r] = count[r] /\ tokens'[r] = tokens[r]
  BY DEF sys_semaphore_up, KernelInv, TypeOK
<1>3. /\ pc' \in [Tasks -> PCs] /\ pc'[t] = "tail"
      /\ \A u \in Tasks \ {t} : pc'[u] = pc[u] /\ arg'[u] = arg[u]
  BY <1>1 DEF sys_semaphore_up, Goto, KernelInv, TypeOK, PCs
<1>4. /\ Len(wait_queue[s]) = IF count[s] < 0 THEN -count[s] ELSE 0
      /\ tokens[s] = (IF count[s] > 0 THEN count[s] ELSE 0) + Cardinality(DownsDue(s))
      /\ Cardinality(DownsDue(s)) \in Nat
  BY TaskSets DEF KernelInv, SemaphoreQueue, TokensAccounted, DownsDue
<1>5. CASE count'[s] <= 0
  <2>1. wait_queue[s] # <<>> /\ wakeup_front(s)
    <3>1. Len(wait_queue[s]) # 0
      BY <1>2, <1>4, <1>5
    <3>2. wait_queue[s] # <<>>
      BY <3>1
    <3> QED  BY <3>2, <1>5 DEF sys_semaphore_up
  <2>2. /\ wait_queue' \in [WaitQueues -> Seq(Threads)]
        /\ ready_queue' \in Seq(Tasks)
        /\ task_status' \in [Tasks -> {"Ready", "Running", "Blocked"}]
        /\ Head(wait_queue[s]) \in Waiting(s)
        /\ Waiting(s)' = Waiting(s) \ {Head(wait_queue[s])}
        /\ Len(wait_queue'[s]) = Len(wait_queue[s]) - 1
        /\ \A r \in WaitQueues \ {s} :
              Waiting(r)' = Waiting(r) /\ wait_queue'[r] = wait_queue[r]
        /\ Sleeping' = Sleeping
        /\ OnePlace' /\ RunnableHasRes' /\ ZombieNeverRuns' /\ ExitIsExclusive'
    BY <1>1, <2>1, WakePlaces DEF procVars, timeVars
  <2>3. TypeOK'
    BY <1>1, <1>2, <1>3, <2>2 DEF KernelInv, TypeOK, procVars, timeVars
  <2>4. Continuations'
    <3>1. \A q \in WaitQueues : Waiting(q)' \subseteq Waiting(q)
      BY <2>2
    <3> QED  BY <1>1, <1>3, <2>2, <3>1, ContinuationsAfterWake
  <2>5. \A m \in Mutexes : Granted(m)' = Granted(m)
    BY <1>1, <1>3, <2>2 DEF Granted, WaitQueues
  <2>6. LockedWhileUsed'
    BY <1>1, <2>2 DEF KernelInv, LockedWhileUsed, WaitQueues
  <2>7. OneGrant'
    BY <1>1, <2>5 DEF KernelInv, OneGrant
  <2>8. Len(wait_queue'[s]) = IF count'[s] < 0 THEN -count'[s] ELSE 0
    BY <1>2, <1>4, <1>5, <2>2
  <2>9. SemaphoreQueue'
    BY <1>2, <2>2, <2>8 DEF KernelInv, SemaphoreQueue, WaitQueues
  <2>10. PICK h \in Tasks : h = Head(wait_queue[s]) /\ h \in Waiting(s)
    BY <1>1, <2>2, QueuedTasks
  <2>11. pc[h] = "downed" /\ arg[h] = s /\ h # t
    BY <1>1, <2>10 DEF KernelInv, Continuations
  <2>12. DownsDue(s)' = DownsDue(s) \cup {h} /\ h \notin DownsDue(s)
    BY <1>1, <1>3, <2>2, <2>10, <2>11 DEF DownsDue
  <2>13. Cardinality(DownsDue(s)') = Cardinality(DownsDue(s)) + 1
    BY <2>12, TaskSets DEF DownsDue
  <2>14. \A r \in Semaphores \ {s} : DownsDue(r)' = DownsDue(r)
    BY <1>1, <1>3, <2>2 DEF DownsDue, WaitQueues
  <2>15. tokens'[s] = (IF count'[s] > 0 THEN count'[s] ELSE 0) + Cardinality(DownsDue(s)')
    BY <1>2, <1>4, <1>5, <2>13
  <2>16. TokensAccounted'
    BY <1>2, <2>14, <2>15 DEF KernelInv, TokensAccounted
  <2> QED  BY <2>2, <2>3, <2>4, <2>6, <2>7, <2>9, <2>16 DEF KernelInv
<1>6. CASE ~(count'[s] <= 0)
  <2>1. UNCHANGED <<task_status, ready_queue, wait_queue>>
    BY <1>6 DEF sys_semaphore_up
  <2>2. /\ OnePlace' /\ RunnableHasRes' /\ ZombieNeverRuns' /\ ExitIsExclusive'
        /\ Sleeping' = Sleeping /\ \A q : Waiting(q)' = Waiting(q)
    BY <1>1, <2>1, PlaceFrame DEF procVars, timeVars
  <2>3. TypeOK'
    BY <1>1, <1>2, <1>3, <2>1 DEF KernelInv, TypeOK, procVars, timeVars
  <2>4. Continuations'
    BY <1>1, <1>3, <2>2, RunningTask, QueuedTasks DEF KernelInv, Continuations, WaitQueues
  <2>5. \A m \in Mutexes : Granted(m)' = Granted(m)
    BY <1>1, <1>3, <2>2 DEF Granted
  <2>6. LockedWhileUsed' /\ OneGrant'
    BY <1>1, <2>1, <2>5 DEF KernelInv, LockedWhileUsed, OneGrant
  <2>7. SemaphoreQueue'
    BY SMTT(30), <1>2, <1>4, <1>6, <2>1 DEF KernelInv, SemaphoreQueue
  <2>8. \A r \in Semaphores : DownsDue(r)' = DownsDue(r)
    BY <1>1, <1>3, <2>2 DEF DownsDue
  <2>9. tokens'[s] = (IF count'[s] > 0 THEN count'[s] ELSE 0) + Cardinality(DownsDue(s))
    BY <1>2, <1>4, <1>6
  <2>10. TokensAccounted'
    BY <1>2, <2>8, <2>9 DEF KernelInv, TokensAccounted
  <2> QED  BY <2>2, <2>3, <2>4, <2>6, <2>7, <2>10 DEF KernelInv
<1> QED  BY <1>5, <1>6

LEMMA CheckTimerWakeupInv ==
    ASSUME KernelInv, NEW t \in Tasks, NEW x \in timers, check_timer_wakeup(t, x)
    PROVE  KernelInv'
<1> USE DEF check_timer_wakeup, At, wakeup_task, add_task
<1>1. PICK h \in Threads : h = x.task /\ h \in Sleeping
  BY DEF KernelInv, TypeOK, Sleeping
<1>2. /\ h \in Tasks /\ h # t /\ h \notin Ready /\ h \in res
      /\ \A q \in WaitQueues : h \notin Waiting(q)
  BY <1>1, RunningTask DEF KernelInv, OnePlace, RunnableHasRes, Tasks
<1>3. Sleeping' = Sleeping \ {h}
  <2>1. \A y \in timers : y.task = h => y = x
    BY <1>1 DEF KernelInv, OnePlace
  <2>2. timers' = timers \ {x}
    OBVIOUS
  <2> QED  BY <1>1, <2>1, <2>2 DEF Sleeping
<1>4. \A q : Waiting(q)' = Waiting(q)
  BY DEF Waiting, syncVars
<1>5. ready_queue' = Append(ready_queue, h)
  BY <1>1
<1>6. /\ ready_queue' \in Seq(Tasks) /\ Ready' = Ready \cup {h}
      /\ IsInjective(ready_queue')
  BY <1>2, <1>5, AppendFacts DEF KernelInv, OnePlace, TypeOK, Ready
<1>7. /\ task_status' \in [Tasks -> {"Ready", "Running", "Blocked"}]
      /\ task_status'[h] = "Ready"
      /\ \A u \in Tasks \ {h} : task_status'[u] = task_status[u]
  BY <1>1, <1>2 DEF KernelInv, TypeOK
<1>8. TypeOK'
  BY <1>6, <1>7 DEF KernelInv, TypeOK, procVars, syncVars
<1>9. OnePlace'
  <2>1. /\ \A q \in WaitQueues : IsInjective(wait_queue'[q])
        /\ \A y, z \in timers' : y.task = z.task => y = z
        /\ \A q, r \in WaitQueues : q # r => Waiting(q)' \cap Waiting(r)' = {}
        /\ \A q \in WaitQueues : Waiting(q)' \cap Sleeping' = {}
    BY <1>3, <1>4 DEF KernelInv, OnePlace, syncVars
  <2>2. /\ \A u \in Ready' : task_status'[u] = "Ready"
        /\ current' # None => task_status'[current'] = "Running"
        /\ \A u \in Sleeping' : task_status'[u] = "Blocked"
        /\ \A q \in WaitQueues : \A u \in Waiting(q)' : task_status'[u] = "Blocked"
    BY <1>2, <1>3, <1>4, <1>6, <1>7, QueuedTasks DEF KernelInv, OnePlace
  <2>3. \A u \in (res \cup Peers)' :
           \/ u = current' \/ u \in (Ready \cup Sleeping)'
           \/ \E q \in WaitQueues : u \in Waiting(q)'
    BY <1>3, <1>4, <1>6 DEF KernelInv, OnePlace, procVars
  <2> QED  BY <1>6, <2>1, <2>2, <2>3 DEF OnePlace
<1>10. RunnableHasRes' /\ ZombieNeverRuns' /\ ExitIsExclusive'
  BY <1>1, <1>2, <1>3, <1>4, <1>6, RunningTask
     DEF KernelInv, RunnableHasRes, ZombieNeverRuns, ExitIsExclusive, procVars
<1>11. Continuations'
  BY <1>3, <1>4 DEF KernelInv, Continuations
<1>12. LockedWhileUsed' /\ OneGrant' /\ SemaphoreQueue' /\ TokensAccounted'
  BY SyncFrame
<1> QED  BY <1>8, <1>9, <1>10, <1>11, <1>12 DEF KernelInv

-----------------------------------------------------------------------------
(* run_tasks, thread creation, exit.                                       *)

LEMMA RunTasksInv ==
    ASSUME KernelInv, run_tasks
    PROVE  KernelInv'
<1> USE DEF run_tasks
<1>1. ready_queue \in Seq(Tasks) /\ IsInjective(ready_queue)
  BY DEF KernelInv, TypeOK, OnePlace
<1>2. PICK h \in Tasks : h = Head(ready_queue)
  BY <1>1, TailFacts
<1>3. /\ h \in Ready /\ ready_queue' \in Seq(Tasks) /\ Ready' = Ready \ {h}
      /\ IsInjective(ready_queue')
  BY <1>1, <1>2, TailFacts DEF Ready
<1>4. /\ current' = h /\ h # None
      /\ task_status' \in [Tasks -> {"Ready", "Running", "Blocked"}]
      /\ task_status'[h] = "Running"
      /\ \A u \in Tasks \ {h} : task_status'[u] = task_status[u]
  BY <1>2, TasksAssumption DEF KernelInv, TypeOK
<1>5. Sleeping' = Sleeping /\ \A q : Waiting(q)' = Waiting(q)
  BY DEF Sleeping, Waiting, timeVars, syncVars
<1>6. h \notin Sleeping /\ \A q \in WaitQueues : h \notin Waiting(q)
  BY <1>3 DEF KernelInv, OnePlace
<1>7. TypeOK'
  BY <1>3, <1>4 DEF KernelInv, TypeOK, procVars, timeVars, syncVars
<1>8. OnePlace'
  <2>1. /\ \A q \in WaitQueues : IsInjective(wait_queue'[q])
        /\ \A y, z \in timers' : y.task = z.task => y = z
        /\ \A q, r \in WaitQueues : q # r => Waiting(q)' \cap Waiting(r)' = {}
        /\ \A q \in WaitQueues : Waiting(q)' \cap Sleeping' = {}
    BY <1>5 DEF KernelInv, OnePlace, timeVars, syncVars
  <2>2. /\ \A u \in Ready' : task_status'[u] = "Ready"
        /\ \A u \in Sleeping' : task_status'[u] = "Blocked"
        /\ \A q \in WaitQueues : \A u \in Waiting(q)' : task_status'[u] = "Blocked"
    BY <1>3, <1>4, <1>5, <1>6, QueuedTasks DEF KernelInv, OnePlace
  <2>3. \A u \in (res \cup Peers)' :
           \/ u = current' \/ u \in (Ready \cup Sleeping)'
           \/ \E q \in WaitQueues : u \in Waiting(q)'
    <3>1. \A u \in res \cup Peers : u # current
      BY TasksAssumption DEF KernelInv, TypeOK, Tasks
    <3> QED  BY <1>3, <1>4, <1>5, <3>1 DEF KernelInv, OnePlace, procVars
  <2> QED  BY <1>3, <1>4, <2>1, <2>2, <2>3 DEF OnePlace
<1>9. RunnableHasRes' /\ ZombieNeverRuns' /\ ExitIsExclusive'
  BY <1>3, <1>4, <1>5
     DEF KernelInv, RunnableHasRes, ZombieNeverRuns, ExitIsExclusive, procVars
<1>10. Continuations'
  BY <1>5 DEF KernelInv, Continuations
<1>11. LockedWhileUsed' /\ OneGrant' /\ SemaphoreQueue' /\ TokensAccounted'
  BY SyncFrame
<1> QED  BY <1>7, <1>8, <1>9, <1>10, <1>11 DEF KernelInv

LEMMA ThreadCreateInv ==
    ASSUME KernelInv, NEW t \in Tasks, NEW u \in Threads, sys_thread_create(t, u)
    PROVE  KernelInv'
<1> USE DEF sys_thread_create, Syscall, At, Goto, add_task
<1>1. /\ u \in Tasks /\ u \notin res /\ u \notin Ready /\ u \notin Sleeping /\ u # t
      /\ \A q \in WaitQueues : u \notin Waiting(q)
      /\ ~is_zombie
  BY RunningTask DEF KernelInv, ExitIsExclusive, RunnableHasRes, Tasks
<1>2. Sleeping' = Sleeping /\ \A q : Waiting(q)' = Waiting(q)
  BY DEF Sleeping, Waiting, timeVars, syncVars
<1>3. /\ ready_queue' \in Seq(Tasks) /\ Ready' = Ready \cup {u}
      /\ IsInjective(ready_queue')
  BY <1>1, AppendFacts DEF KernelInv, OnePlace, TypeOK, Ready
<1>4. /\ task_status' \in [Tasks -> {"Ready", "Running", "Blocked"}]
      /\ task_status'[u] = "Ready"
      /\ \A v \in Tasks \ {u} : task_status'[v] = task_status[v]
  BY <1>1 DEF KernelInv, TypeOK
<1>5. TypeOK'
  BY <1>3, <1>4 DEF KernelInv, TypeOK, PCs, timeVars, syncVars
<1>6. OnePlace'
  <2>1. /\ \A q \in WaitQueues : IsInjective(wait_queue'[q])
        /\ \A y, z \in timers' : y.task = z.task => y = z
        /\ \A q, r \in WaitQueues : q # r => Waiting(q)' \cap Waiting(r)' = {}
        /\ \A q \in WaitQueues : Waiting(q)' \cap Sleeping' = {}
    BY <1>2 DEF KernelInv, OnePlace, timeVars, syncVars
  <2>2. /\ \A v \in Ready' : task_status'[v] = "Ready"
        /\ current' # None => task_status'[current'] = "Running"
        /\ \A v \in Sleeping' : task_status'[v] = "Blocked"
        /\ \A q \in WaitQueues : \A v \in Waiting(q)' : task_status'[v] = "Blocked"
    BY <1>1, <1>2, <1>3, <1>4, QueuedTasks, RunningTask DEF KernelInv, OnePlace
  <2>3. \A v \in (res \cup Peers)' :
           \/ v = current' \/ v \in (Ready \cup Sleeping)'
           \/ \E q \in WaitQueues : v \in Waiting(q)'
    BY <1>2, <1>3 DEF KernelInv, OnePlace
  <2> QED  BY <1>3, <2>1, <2>2, <2>3 DEF OnePlace
<1>7. RunnableHasRes' /\ ZombieNeverRuns' /\ ExitIsExclusive'
  BY <1>1, <1>2, <1>3 DEF KernelInv, RunnableHasRes, ZombieNeverRuns, ExitIsExclusive
<1>8. Continuations'
  BY <1>2, RunningTask, ContinuationsAfterWake DEF KernelInv, TypeOK
<1>9. LockedWhileUsed' /\ OneGrant' /\ SemaphoreQueue' /\ TokensAccounted'
  BY SyncFrame DEF KernelInv, TypeOK
<1> QED  BY <1>5, <1>6, <1>7, <1>8, <1>9 DEF KernelInv

LEMMA ExitInv ==
    ASSUME KernelInv, NEW t \in Threads, current = t, pc[t] \in {"user", "tail"},
           exit_current_and_run_next(t)
    PROVE  KernelInv'
<1> USE DEF exit_current_and_run_next, Goto
<1>1. /\ t \in Tasks /\ t \notin Peers /\ t \notin Ready /\ t \notin Sleeping
      /\ \A q \in WaitQueues : t \notin Waiting(q)
      /\ ~is_zombie /\ to_recycle = {}
  BY RunningTask, TasksAssumption DEF Tasks
<1>2. Ready' = Ready /\ Sleeping' = Sleeping /\ \A q : Waiting(q)' = Waiting(q)
  BY DEF Ready, Sleeping, Waiting, timeVars, syncVars
<1>3. TypeOK'
  BY DEF KernelInv, TypeOK, PCs, timeVars, syncVars
<1>4. OnePlace'
  BY <1>1, <1>2 DEF KernelInv, OnePlace, timeVars, syncVars
<1>5. RunnableHasRes' /\ ExitIsExclusive'
  BY <1>1, <1>2, TasksAssumption DEF KernelInv, RunnableHasRes, ExitIsExclusive, Tasks
<1>6. ZombieNeverRuns'
  BY <1>1, <1>2, TasksAssumption
     DEF KernelInv, RunnableHasRes, ExitIsExclusive, ZombieNeverRuns, Tasks
<1>7. Continuations'
  BY <1>1, <1>2, QueuedTasks DEF KernelInv, Continuations, TypeOK, WaitQueues
<1>8. LockedWhileUsed' /\ OneGrant' /\ SemaphoreQueue' /\ TokensAccounted'
  BY SyncFrame DEF KernelInv, TypeOK
<1> QED  BY <1>3, <1>4, <1>5, <1>6, <1>7, <1>8 DEF KernelInv

LEMMA RecycleInv ==
    ASSUME KernelInv, NEW u \in to_recycle, recycle_task(u)
    PROVE  KernelInv'
<1> USE DEF recycle_task
<1>1. u \in Threads /\ u \notin Peers /\ is_zombie /\ current = None
  BY TasksAssumption DEF KernelInv, TypeOK, ExitIsExclusive
<1>2. /\ ready_queue' \in Seq(Tasks) /\ Ready' = Ready \ {u}
      /\ IsInjective(ready_queue')
  BY RemoveFirstFacts DEF KernelInv, TypeOK, OnePlace, Ready
<1>3. Sleeping' = Sleeping \ {u}
  BY DEF Sleeping
<1>4. \A q : Waiting(q)' = Waiting(q)
  BY DEF Waiting, syncVars
<1>5. TypeOK'
  BY <1>2, TasksAssumption DEF KernelInv, TypeOK, syncVars
<1>6. OnePlace'
  BY <1>1, <1>2, <1>3, <1>4 DEF KernelInv, OnePlace, syncVars
<1>7. RunnableHasRes'
  BY <1>1, <1>2, <1>3, TasksAssumption DEF KernelInv, RunnableHasRes, Tasks
<1>8. ZombieNeverRuns'
  BY <1>1, <1>2, <1>3 DEF KernelInv, ZombieNeverRuns
<1>9. ExitIsExclusive'
  <2>1. to_recycle' = {} => res' = {}
    BY <1>1 DEF KernelInv, ZombieNeverRuns, TypeOK
  <2> QED  BY <1>1, <2>1 DEF KernelInv, ExitIsExclusive
<1>10. Continuations'
  BY <1>3, <1>4 DEF KernelInv, Continuations
<1>11. LockedWhileUsed' /\ OneGrant' /\ SemaphoreQueue' /\ TokensAccounted'
  BY SyncFrame
<1> QED  BY <1>5, <1>6, <1>7, <1>8, <1>9, <1>10, <1>11 DEF KernelInv

-----------------------------------------------------------------------------
(* Condvar::wait: unlock may wake a task, and the caller blocks.           *)

LEMMA CondvarWaitInv ==
    ASSUME KernelInv, NEW t \in Tasks, NEW c \in Condvars, NEW m \in Mutexes,
           sys_condvar_wait(t, c, m)
    PROVE  KernelInv'
<1>1. /\ t \in Threads /\ current = t /\ pc[t] = "user" /\ unlock(t, m)
      /\ c \in WaitQueues /\ c \notin Semaphores /\ c \notin BlockingMutexes /\ c # m
      /\ current' = None
      /\ UNCHANGED <<procVars, timeVars, count, tokens>>
  BY ObjectsAssumption DEF sys_condvar_wait, Syscall, At, WaitQueues, Mutexes
<1>2. /\ pc' \in [Tasks -> PCs] /\ pc'[t] = "lock" /\ arg'[t] = m
      /\ arg' \in [Tasks -> Mutexes \cup Semaphores \cup {None}]
      /\ \A u \in Tasks \ {t} : pc'[u] = pc[u] /\ arg'[u] = arg[u]
  BY DEF sys_condvar_wait, KernelInv, TypeOK, PCs
<1>3. /\ holds' \in [Tasks -> SUBSET Mutexes]
      /\ locked' \in [Mutexes -> BOOLEAN]
  BY <1>1 DEF KernelInv, TypeOK, unlock, HandsOver
<1>4. /\ t \notin Ready /\ t \notin Sleeping /\ t \in res /\ ~is_zombie /\ t # None
      /\ \A q \in WaitQueues : t \notin Waiting(q)
  BY <1>1, RunningTask
<1>5. /\ wait_queue[c] \in Seq(Threads) /\ IsInjective(wait_queue[c])
      /\ Append(wait_queue[c], t) \in Seq(Threads)
      /\ Range(Append(wait_queue[c], t)) = Waiting(c) \cup {t}
      /\ IsInjective(Append(wait_queue[c], t))
  <2>1. wait_queue[c] \in Seq(Threads) /\ IsInjective(wait_queue[c])
    BY <1>1 DEF KernelInv, TypeOK, OnePlace
  <2> QED  BY <1>1, <1>4, <2>1, AppendFacts DEF Waiting
<1>6. Sleeping' = Sleeping
  BY <1>1 DEF Sleeping, timeVars
\* The tasks that the unlock wakes.
<1> DEFINE W == IF HandsOver(m) THEN {Head(wait_queue[m])} ELSE {}
<1>7. /\ W \subseteq Threads
      /\ wait_queue' \in [WaitQueues -> Seq(Threads)]
      /\ \A q \in WaitQueues : IsInjective(wait_queue'[q])
      /\ Waiting(c)' = Waiting(c) \cup {t}
      /\ \A q \in WaitQueues \ {c} : Waiting(q)' = Waiting(q) \ W
      /\ \A s \in Semaphores : wait_queue'[s] = wait_queue[s] /\ Waiting(s)' = Waiting(s)
      /\ \A n \in BlockingMutexes :
            IF n = m /\ HandsOver(m)
            THEN /\ Waiting(m)' = Waiting(m) \ {Head(wait_queue[m])}
                 /\ Head(wait_queue[m]) \in Waiting(m)
            ELSE Waiting(n)' = Waiting(n) /\ wait_queue'[n] = wait_queue[n]
      /\ W \cap (Ready \cup Sleeping \cup Waiting(c) \cup {t}) = {}
      /\ W \subseteq res
      /\ ready_queue' \in Seq(Tasks) /\ IsInjective(ready_queue')
      /\ Ready' = Ready \cup W
      /\ task_status' \in [Tasks -> {"Ready", "Running", "Blocked"}]
      /\ task_status'[t] = "Blocked"
      /\ \A u \in W : task_status'[u] = "Ready"
      /\ \A u \in Tasks \ (W \cup {t}) : task_status'[u] = task_status[u]
  <2>1. CASE HandsOver(m)
    <3>1. m \in BlockingMutexes /\ m \in WaitQueues /\ wait_queue[m] # <<>> /\ m \notin Semaphores
      BY <2>1, ObjectsAssumption DEF HandsOver, WaitQueues, Mutexes
    <3>2. /\ wait_queue[m] \in Seq(Threads) /\ IsInjective(wait_queue[m])
      BY <3>1 DEF KernelInv, TypeOK, OnePlace
    <3>3. PICK h \in Threads : h = Head(wait_queue[m])
      BY <3>1, <3>2, TailFacts
    <3>4. /\ h \in Waiting(m)
          /\ Tail(wait_queue[m]) \in Seq(Threads)
          /\ Range(Tail(wait_queue[m])) = Waiting(m) \ {h}
          /\ IsInjective(Tail(wait_queue[m]))
      BY <3>1, <3>2, <3>3, TailFacts DEF Waiting
    <3>5. /\ wait_queue'[m] = Tail(wait_queue[m])
          /\ wait_queue'[c] = Append(wait_queue[c], t)
          /\ \A q \in WaitQueues \ {c, m} : wait_queue'[q] = wait_queue[q]
          /\ DOMAIN wait_queue' = WaitQueues
          /\ wait_queue' = [q \in WaitQueues |-> wait_queue'[q]]
      BY <1>1, <2>1, <3>1 DEF sys_condvar_wait, KernelInv, TypeOK
    <3>6. wait_queue' \in [WaitQueues -> Seq(Threads)]
      BY <1>5, <3>4, <3>5 DEF KernelInv, TypeOK
    <3>7. \A q \in WaitQueues : IsInjective(wait_queue'[q])
      BY <1>5, <3>4, <3>5 DEF KernelInv, OnePlace
    <3>8. /\ Waiting(c)' = Waiting(c) \cup {t} /\ Waiting(m)' = Waiting(m) \ {h}
          /\ \A q \in WaitQueues \ {c, m} : Waiting(q)' = Waiting(q)
      BY <1>5, <3>4, <3>5 DEF Waiting
    <3>9. /\ h \in Tasks /\ h # t /\ h \notin Ready /\ h \notin Sleeping /\ h \in res
          /\ \A q \in WaitQueues \ {m} : h \notin Waiting(q)
      BY <1>4, <3>1, <3>4 DEF KernelInv, OnePlace, RunnableHasRes, Tasks
    <3>10. ready_queue' = Append(ready_queue, h)
      BY <2>1, <3>3 DEF sys_condvar_wait, add_task
    <3>11. /\ ready_queue' \in Seq(Tasks) /\ IsInjective(ready_queue')
           /\ Ready' = Ready \cup {h}
      BY <3>9, <3>10, AppendFacts DEF KernelInv, OnePlace, TypeOK, Ready
    <3>12. task_status' = [task_status EXCEPT ![h] = "Ready", ![t] = "Blocked"]
      BY <2>1, <3>3 DEF sys_condvar_wait
    <3>13. /\ task_status' \in [Tasks -> {"Ready", "Running", "Blocked"}]
           /\ task_status'[t] = "Blocked" /\ task_status'[h] = "Ready"
           /\ \A u \in Tasks \ {h, t} : task_status'[u] = task_status[u]
      BY <3>9, <3>12 DEF KernelInv, TypeOK
    <3>14. \A q \in WaitQueues \ {c} : Waiting(q)' = Waiting(q) \ {h}
      BY <3>8, <3>9
    <3>15. \A s \in Semaphores : wait_queue'[s] = wait_queue[s] /\ Waiting(s)' = Waiting(s)
      BY <1>1, <3>1, <3>5, <3>8 DEF WaitQueues
    <3>16. \A n \in BlockingMutexes :
              IF n = m /\ HandsOver(m)
              THEN /\ Waiting(m)' = Waiting(m) \ {Head(wait_queue[m])}
                   /\ Head(wait_queue[m]) \in Waiting(m)
              ELSE Waiting(n)' = Waiting(n) /\ wait_queue'[n] = wait_queue[n]
      BY <1>1, <2>1, <3>3, <3>4, <3>5, <3>8 DEF WaitQueues
    <3>17. {h} \cap (Ready \cup Sleeping \cup Waiting(c) \cup {t}) = {}
      BY <1>1, <3>1, <3>9
    <3>18. W = {h}
      BY <2>1, <3>3
    <3> HIDE DEF W
    <3> QED
      BY <3>18, <3>6, <3>7, <3>8, <3>9, <3>11, <3>13, <3>14, <3>15, <3>16, <3>17
  <2>2. CASE ~HandsOver(m)
    <3>1. /\ wait_queue' = [wait_queue EXCEPT ![c] = Append(@, t)]
          /\ task_status' = [task_status EXCEPT ![t] = "Blocked"]
          /\ ready_queue' = ready_queue
      BY <2>2 DEF sys_condvar_wait
    <3>2. /\ wait_queue'[c] = Append(wait_queue[c], t)
          /\ \A q \in WaitQueues \ {c} : wait_queue'[q] = wait_queue[q]
      BY <1>1, <3>1 DEF KernelInv, TypeOK
    <3>3. wait_queue' \in [WaitQueues -> Seq(Threads)]
      BY <1>5, <3>1, <3>2 DEF KernelInv, TypeOK
    <3>4. \A q \in WaitQueues : IsInjective(wait_queue'[q])
      BY <1>5, <3>2 DEF KernelInv, OnePlace
    <3>5. /\ Waiting(c)' = Waiting(c) \cup {t}
          /\ \A q \in WaitQueues \ {c} : Waiting(q)' = Waiting(q)
      BY <1>5, <3>2 DEF Waiting
    <3>6. ready_queue' \in Seq(Tasks) /\ IsInjective(ready_queue') /\ Ready' = Ready
      BY <3>1 DEF KernelInv, TypeOK, OnePlace, Ready
    <3>7. /\ task_status' \in [Tasks -> {"Ready", "Running", "Blocked"}]
          /\ task_status'[t] = "Blocked"
          /\ \A u \in Tasks \ {t} : task_status'[u] = task_status[u]
      BY <3>1 DEF KernelInv, TypeOK
    <3>8. \A s \in Semaphores : wait_queue'[s] = wait_queue[s] /\ Waiting(s)' = Waiting(s)
      BY <1>1, <3>2, <3>5 DEF WaitQueues
    <3>9. \A n \in BlockingMutexes : Waiting(n)' = Waiting(n) /\ wait_queue'[n] = wait_queue[n]
      BY <1>1, <3>2, <3>5 DEF WaitQueues
    <3>10. W = {}
      BY <2>2
    <3> HIDE DEF W
    <3> QED  BY <2>2, <3>10, <3>3, <3>4, <3>5, <3>6, <3>7, <3>8, <3>9
  <2> QED  BY <2>1, <2>2
<1> HIDE DEF W
<1>8. TypeOK'
  BY <1>1, <1>2, <1>3, <1>7 DEF KernelInv, TypeOK, procVars, timeVars
<1>9. OnePlace'
  <2>1. /\ \A x, y \in timers' : x.task = y.task => x = y
        /\ \A q, r \in WaitQueues : q # r => Waiting(q)' \cap Waiting(r)' = {}
        /\ \A q \in WaitQueues : Waiting(q)' \cap Sleeping' = {}
    <3>1. \A x, y \in timers' : x.task = y.task => x = y
      BY <1>1 DEF KernelInv, OnePlace, timeVars
    <3>2. ASSUME NEW q \in WaitQueues, NEW u \in Waiting(q)'
          PROVE  u \in Waiting(q) \/ (u = t /\ q = c)
      BY <1>7, <3>2
    <3>3. \A q, r \in WaitQueues : q # r => Waiting(q)' \cap Waiting(r)' = {}
      BY <1>4, <3>2 DEF KernelInv, OnePlace
    <3>4. \A q \in WaitQueues : Waiting(q)' \cap Sleeping' = {}
      BY <1>4, <1>6, <3>2 DEF KernelInv, OnePlace
    <3> QED  BY <3>1, <3>3, <3>4
  <2>2. /\ \A u \in Ready' : task_status'[u] = "Ready"
        /\ \A u \in Sleeping' : task_status'[u] = "Blocked"
    <3>1. /\ \A u \in Ready : u \in Tasks \ (W \cup {t}) /\ task_status[u] = "Ready"
          /\ \A u \in Sleeping : u \in Tasks \ (W \cup {t}) /\ task_status[u] = "Blocked"
      BY <1>4, <1>7, QueuedTasks DEF KernelInv, OnePlace
    <3> QED  BY <1>6, <1>7, <3>1
  <2>3. \A q \in WaitQueues : \A u \in Waiting(q)' : task_status'[u] = "Blocked"
    BY <1>1, <1>4, <1>7, QueuedTasks DEF KernelInv, OnePlace
  <2>4. \A u \in (res \cup Peers)' :
           \/ u = current' \/ u \in (Ready \cup Sleeping)'
           \/ \E q \in WaitQueues : u \in Waiting(q)'
    <3>1. res' = res
      BY <1>1 DEF procVars
    <3>2. ASSUME NEW u \in res \cup Peers, u # t, u \notin W, NEW q \in WaitQueues,
                 u \in Waiting(q)
          PROVE  u \in Waiting(q)'
      BY <1>7, <3>2
    <3>3. t \in Waiting(c)' /\ W \subseteq Ready' /\ Ready \subseteq Ready'
      BY <1>7
    <3> QED  BY <1>1, <1>6, <3>1, <3>2, <3>3 DEF KernelInv, OnePlace
  <2> QED  BY <1>1, <1>7, <2>1, <2>2, <2>3, <2>4 DEF OnePlace
<1>10. RunnableHasRes' /\ ZombieNeverRuns' /\ ExitIsExclusive'
  BY <1>1, <1>4, <1>6, <1>7, TasksAssumption
     DEF KernelInv, RunnableHasRes, ZombieNeverRuns, ExitIsExclusive, Tasks, procVars
<1>11. Continuations'
  <2>1. \A q \in WaitQueues : \A u \in Waiting(q) : pc'[u] = pc[u] /\ arg'[u] = arg[u]
    BY <1>2, <1>4, QueuedTasks
  <2>2. \A u \in Sleeping : pc'[u] = pc[u]
    BY <1>2, <1>4, QueuedTasks
  <2>3. \A q \in WaitQueues \ {c} : Waiting(q)' \subseteq Waiting(q)
    BY <1>7
  <2>4. /\ \A n \in BlockingMutexes : n \in WaitQueues \ {c}
        /\ \A s \in Semaphores : s \in WaitQueues \ {c}
        /\ \A d \in Condvars : d \in WaitQueues
    BY <1>1 DEF WaitQueues
  <2>5. /\ \A n \in BlockingMutexes : \A u \in Waiting(n)' : pc'[u] = "locked" /\ arg'[u] = n
        /\ \A s \in Semaphores : \A u \in Waiting(s)' : pc'[u] = "downed" /\ arg'[u] = s
    BY <2>1, <2>3, <2>4 DEF KernelInv, Continuations
  <2>6. \A d \in Condvars : \A u \in Waiting(d)' : pc'[u] = "lock"
    BY SMTT(30), <1>2, <1>7, <2>1, <2>3, <2>4 DEF KernelInv, Continuations
  <2>7. \A u \in Tasks :
           /\ pc'[u] \in {"lock", "locked"} => u \in Threads /\ arg'[u] \in Mutexes
           /\ pc'[u] = "downed" => u \in Threads /\ arg'[u] \in Semaphores
    BY <1>1, <1>2 DEF KernelInv, Continuations
  <2>8. \A u \in Sleeping' : pc'[u] = "tail"
    BY <1>6, <2>2 DEF KernelInv, Continuations
  <2> QED  BY <2>5, <2>6, <2>7, <2>8 DEF Continuations
<1>12. LockedWhileUsed' /\ OneGrant'
  BY <1>1, <1>2, <1>7, UnlockGrants
<1>13. SemaphoreQueue' /\ TokensAccounted'
  BY <1>1, <1>2, <1>7, SemaphoreFrame
<1> QED
  BY <1>8, <1>9, <1>10, <1>11, <1>12, <1>13 DEF KernelInv

-----------------------------------------------------------------------------
(* The invariant and what follows from it.                                 *)

LEMMA InitInv ==
    ASSUME Init
    PROVE  KernelInv
<1> USE DEF Init
<1> DEFINE S == {Main} \cup Peers
<1>1. S \subseteq Tasks /\ IsFiniteSet(S)
  <2>1. S \subseteq Tasks
    BY TasksAssumption DEF Tasks
  <2> QED  BY <2>1, FS_Subset, TasksAssumption
<1>2. Cardinality(S) \in Nat
  BY <1>1, FS_CardinalityType
<1>3. /\ ready_queue \in [1..Cardinality(S) -> S]
      /\ IsInjective(ready_queue)
  BY DEF SetToSeqs, IsInjective
<1>4. ready_queue \in Seq(Tasks)
  <2> HIDE DEF S
  <2> QED  BY <1>1, <1>2, <1>3
<1>5. Ready = S /\ Sleeping = {} /\ \A q \in WaitQueues : Waiting(q) = {}
  <2>1. Ready = S
    BY DEF Ready
  <2>2. Sleeping = {}
    BY DEF Sleeping
  <2>3. \A q \in WaitQueues : Waiting(q) = {}
    BY DEF Waiting, Range
  <2> QED  BY <2>1, <2>2, <2>3
<1>6. TypeOK
  <2>1. count \in [Semaphores -> Int] /\ tokens \in [Semaphores -> Int]
    BY ObjectsAssumption
  <2>2. wait_queue \in [WaitQueues -> Seq(Threads)]
    OBVIOUS
  <2>3. now \in 0..MaxTime
    BY BoundsAssumption
  <2> QED  BY <1>4, <2>1, <2>2, <2>3, TasksAssumption DEF TypeOK, PCs
<1>7. OnePlace
  <2>1. \A q \in WaitQueues : IsInjective(wait_queue[q])
    BY DEF IsInjective
  <2>2. \A t \in Ready : task_status[t] = "Ready"
    BY <1>1, <1>5
  <2>3. \A t \in res \cup Peers : t \in Ready
    BY <1>5
  <2> QED  BY <1>3, <1>5, <2>1, <2>2, <2>3 DEF OnePlace
<1>8. RunnableHasRes /\ ZombieNeverRuns /\ ExitIsExclusive
  BY <1>5, TasksAssumption DEF RunnableHasRes, ZombieNeverRuns, ExitIsExclusive, Tasks
<1>9. Continuations
  BY <1>5 DEF Continuations, WaitQueues
<1>10. \A m \in Mutexes : Granted(m) = {}
  BY DEF Granted
<1>11. LockedWhileUsed /\ OneGrant
  BY <1>10 DEF LockedWhileUsed, OneGrant, WaitQueues
<1>12. SemaphoreQueue
  BY ObjectsAssumption DEF SemaphoreQueue, WaitQueues
<1>13. \A s \in Semaphores : Cardinality(DownsDue(s)) = 0
  BY FS_EmptySet DEF DownsDue
<1>14. TokensAccounted
  BY <1>13, ObjectsAssumption DEF TokensAccounted
<1> QED
  BY <1>6, <1>7, <1>8, <1>9, <1>11, <1>12, <1>14 DEF KernelInv

LEMMA StutterInv ==
    ASSUME KernelInv, UNCHANGED vars
    PROVE  KernelInv'
<1> USE DEF vars
<1>1. TypeOK'
  BY DEF KernelInv, TypeOK
<1>2. OnePlace' /\ RunnableHasRes' /\ ZombieNeverRuns' /\ ExitIsExclusive'
  BY PlaceFrame
<1>3. Continuations'
  BY PlaceFrame DEF KernelInv, Continuations
<1>4. LockedWhileUsed' /\ OneGrant' /\ SemaphoreQueue' /\ TokensAccounted'
  BY SyncFrame DEF syncVars
<1> QED  BY <1>1, <1>2, <1>3, <1>4 DEF KernelInv

LEMMA NextInv ==
    ASSUME KernelInv, [Next]_vars
    PROVE  KernelInv'
<1>1. CASE Tick
  BY <1>1, TickInv
<1>2. CASE run_tasks
  BY <1>2, RunTasksInv
<1>3. CASE \E u \in to_recycle : recycle_task(u)
  BY <1>3, RecycleInv
<1>4. ASSUME NEW t \in Tasks, timer_interrupt(t) \/ KernelStep(t)
      PROVE  KernelInv'
  <2>1. ASSUME exit_on_signal(t)
        PROVE  KernelInv'
    BY <2>1, ExitInv DEF exit_on_signal, At
  <2> QED
    BY <1>4, <2>1, TimerInterruptInv, LockFreeInv, LockBlockInv, LockSpinInv,
       LockReturnInv, DownReturnInv, CheckTimerWakeupInv, CheckTimerDoneInv,
       TrapReturnInv
       DEF KernelStep
<1>5. ASSUME NEW t \in Tasks, UserStep(t)
      PROVE  KernelInv'
  <2>1. ASSUME sys_exit(t)
        PROVE  KernelInv'
    BY <2>1, ExitInv DEF sys_exit, Syscall, At
  <2> QED
    BY <1>5, <2>1, YieldInv, ThreadCreateInv, SleepInv, MutexLockInv, MutexUnlockInv,
       SemaphoreUpInv, SemaphoreDownInv, CondvarSignalInv, CondvarWaitInv, KillInv,
       FaultInv
       DEF UserStep
<1>6. CASE UNCHANGED vars
  BY <1>6, StutterInv
<1> QED  BY <1>1, <1>2, <1>3, <1>4, <1>5, <1>6 DEF Next

\* The inductive invariant holds in every state of every instance.
THEOREM KernelInvariant == Spec => []KernelInv
<1>1. Init => KernelInv
  BY InitInv
<1>2. KernelInv /\ [Next]_vars => KernelInv'
  BY NextInv
<1> QED  BY <1>1, <1>2, PTL DEF Spec

\* Types are preserved, however many threads and objects there are.
THEOREM TypeCorrect == Spec => []TypeOK
<1>1. KernelInv => TypeOK
  BY DEF KernelInv
<1> QED  BY <1>1, KernelInvariant, PTL

\* No task is ever queued twice or lost.
THEOREM TasksInOnePlace == Spec => []OnePlace
<1>1. KernelInv => OnePlace
  BY DEF KernelInv
<1> QED  BY <1>1, KernelInvariant, PTL

\* The `res` that the trap path unwraps is always there.
THEOREM RunnablesHaveRes == Spec => []RunnableHasRes
<1>1. KernelInv => RunnableHasRes
  BY DEF KernelInv
<1> QED  BY <1>1, KernelInvariant, PTL

\* A thread of a process that has exited never runs again.
THEOREM ZombiesNeverRun == Spec => []ZombieNeverRuns
<1>1. KernelInv => ZombieNeverRuns
  BY DEF KernelInv
<1> QED  BY <1>1, KernelInvariant, PTL

\* unlock() finds the mutex locked, and no one waits for a free mutex.
THEOREM MutexesLockedWhileUsed == Spec => []LockedWhileUsed
<1>1. KernelInv => LockedWhileUsed
  BY DEF KernelInv
<1> QED  BY <1>1, KernelInvariant, PTL

\* A negative count is the number of waiters.
THEOREM SemaphoreQueues == Spec => []SemaphoreQueue
<1>1. KernelInv => SemaphoreQueue
  BY DEF KernelInv
<1> QED  BY <1>1, KernelInvariant, PTL

-----------------------------------------------------------------------------
(* The contract of mutexes and semaphores.                                 *)

\* A step of the kernel is a step of the contract, or invisible to it.
LEMMA StepContract ==
    ASSUME KernelInv, [Next]_vars
    PROVE  [Contract!Next]_(Contract!contractVars)
<1> USE DEF Contract!contractVars
<1>1. CASE UNCHANGED <<holds, tokens>>
  BY <1>1
<1>2. ASSUME NEW t \in Tasks, lock_return(t)
      PROVE  Contract!Next
  <2>1. PICK m \in Mutexes : m = arg[t]
    BY <1>2 DEF lock_return, At, KernelInv, Continuations
  <2>2. t \in Granted(m)
    BY <1>2, <2>1, RunningTask DEF lock_return, At, Granted, WaitQueues
  <2>3. \A u \in Tasks : m \notin holds[u]
    BY <2>2 DEF KernelInv, OneGrant
  <2>4. Contract!Acquire(t, m)
    BY <1>2, <2>1, <2>3 DEF lock_return, Contract!Acquire
  <2> QED  BY <2>4 DEF Contract!Next
<1>3. ASSUME NEW t \in Tasks, down_return(t)
      PROVE  Contract!Next
  <2>1. PICK s \in Semaphores : s = arg[t]
    BY <1>3 DEF down_return, At, KernelInv, Continuations
  <2>2. t \in DownsDue(s)
    BY <1>3, <2>1, RunningTask DEF down_return, At, DownsDue, WaitQueues
  <2>3. Cardinality(DownsDue(s)) \in Nat /\ Cardinality(DownsDue(s)) > 0
    BY <2>2, TaskSets DEF DownsDue
  <2>4. tokens[s] > 0
    <3>1. /\ tokens[s] = (IF count[s] > 0 THEN count[s] ELSE 0) + Cardinality(DownsDue(s))
          /\ count[s] \in Int
      BY DEF KernelInv, TokensAccounted, TypeOK
    <3> QED  BY <2>3, <3>1
  <2>5. Contract!Down(s)
    BY <1>3, <2>1, <2>4 DEF down_return, Contract!Down
  <2> QED  BY <2>5 DEF Contract!Next
<1>4. ASSUME NEW t \in Tasks, NEW m \in Mutexes,
             sys_mutex_unlock(t, m) \/ \E c \in Condvars : sys_condvar_wait(t, c, m)
      PROVE  Contract!Next
  <2>1. Contract!Release(t, m)
    BY <1>4 DEF sys_mutex_unlock, sys_condvar_wait, unlock, Contract!Release
  <2> QED  BY <2>1 DEF Contract!Next
<1>5. ASSUME NEW t \in Tasks, NEW s \in Semaphores, sys_semaphore_up(t, s)
      PROVE  Contract!Next
  <2>1. Contract!Up(s)
    BY <1>5 DEF sys_semaphore_up, Contract!Up
  <2> QED  BY <2>1 DEF Contract!Next
<1>6. CASE Tick \/ run_tasks \/ (\E u \in to_recycle : recycle_task(u)) \/ UNCHANGED vars
  BY <1>1, <1>6 DEF Tick, run_tasks, recycle_task, vars, syncVars
<1>7. ASSUME NEW t \in Tasks, timer_interrupt(t) \/ KernelStep(t)
      PROVE  [Contract!Next]_(Contract!contractVars)
  <2>1. ASSUME \/ timer_interrupt(t) \/ check_timer_done(t) \/ trap_return(t)
               \/ exit_on_signal(t)
               \/ \E x \in timers : check_timer_wakeup(t, x)
               \/ \E m \in Mutexes : lock_free(t, m)
               \/ \E m \in BlockingMutexes : lock_block(t, m)
               \/ \E m \in SpinMutexes : lock_spin(t, m)
        PROVE  UNCHANGED <<holds, tokens>>
    BY <2>1 DEF timer_interrupt, check_timer_done, trap_return, exit_on_signal,
       exit_current_and_run_next, check_timer_wakeup, lock_free, lock_block, lock_spin,
       syncVars
  <2> QED  BY <1>1, <1>2, <1>3, <1>7, <2>1 DEF KernelStep
<1>8. ASSUME NEW t \in Tasks, UserStep(t)
      PROVE  [Contract!Next]_(Contract!contractVars)
  <2>1. ASSUME \/ sys_yield(t) \/ sys_kill(t) \/ user_fault(t) \/ sys_exit(t)
               \/ \E u \in Threads : sys_thread_create(t, u)
               \/ \E ms \in 0..MaxTime : sys_sleep(t, ms)
               \/ \E m \in Mutexes : sys_mutex_lock(t, m)
               \/ \E s \in Semaphores : sys_semaphore_down(t, s)
               \/ \E c \in Condvars : sys_condvar_signal(t, c)
        PROVE  UNCHANGED <<holds, tokens>>
    BY <2>1 DEF sys_yield, sys_kill, user_fault, sys_exit, exit_current_and_run_next,
       sys_thread_create, sys_sleep, sys_mutex_lock, sys_semaphore_down,
       sys_condvar_signal, syncVars
  <2> QED  BY <1>1, <1>4, <1>5, <1>8, <2>1 DEF UserStep
<1> QED  BY <1>6, <1>7, <1>8 DEF Next

\* The kernel's mutexes exclude one another's holders and its semaphores never
\* let a down() return without a token.
THEOREM KernelImplementsContract == Spec => ImplementsContract
<1>1. Init => Contract!Init
  BY DEF Init, Contract!Init
<1>2. KernelInv /\ [Next]_vars => [Contract!Next]_(Contract!contractVars)
  BY StepContract
<1> QED
  BY <1>1, <1>2, KernelInvariant, PTL DEF Spec, ImplementsContract, Contract!Spec

-----------------------------------------------------------------------------
(* What a step may never do                                                *)

\* A queue from which at most the front is taken lets nobody else go.
LEMMA QueueStep ==
    ASSUME NEW S, NEW s \in Seq(S), NEW r,
           \/ r = s
           \/ \E t \in S : r = Append(s, t)
           \/ s # <<>> /\ r = Tail(s)
    PROVE  \A i \in DOMAIN s : s[i] \notin Range(r) => i = 1
<1>1. DOMAIN s = 1..Len(s) /\ Len(s) \in Nat
  BY LenProperties
<1> SUFFICES ASSUME NEW i \in DOMAIN s, i # 1 PROVE s[i] \in Range(r)
  OBVIOUS
<1>2. CASE r = s
  BY <1>2 DEF Range
<1>3. CASE \E t \in S : r = Append(s, t)
  <2>1. s[i] \in Range(s)
    BY DEF Range
  <2> QED  BY <1>3, <2>1, AppendFacts
<1>4. CASE s # <<>> /\ r = Tail(s)
  <2>1. /\ r \in Seq(S) /\ Len(r) = Len(s) - 1
        /\ \A k \in 1..Len(r) : r[k] = s[k + 1]
    BY <1>4, HeadTailProperties
  <2>2. i - 1 \in 1..Len(r) /\ (i - 1) + 1 = i
    BY <1>1, <2>1
  <2>3. i - 1 \in DOMAIN r
    BY <2>1, <2>2, LenProperties
  <2> QED  BY <2>1, <2>2, <2>3 DEF Range
<1> QED  BY <1>2, <1>3, <1>4

\* What a step may do to a wait queue: nothing, push_back or pop_front.
QueueMoves ==
    \A q \in BlockingMutexes \cup Semaphores :
        \/ wait_queue'[q] = wait_queue[q]
        \/ \E t \in Threads : wait_queue'[q] = Append(wait_queue[q], t)
        \/ wait_queue[q] # <<>> /\ wait_queue'[q] = Tail(wait_queue[q])

LEMMA WakeMoves ==
    ASSUME KernelInv, NEW w \in WaitQueues, wakeup_front(w)
    PROVE  QueueMoves
<1>1. wait_queue \in [WaitQueues -> Seq(Threads)]
  BY DEF KernelInv, TypeOK
<1>2. BlockingMutexes \cup Semaphores \subseteq WaitQueues
  BY DEF WaitQueues
<1> QED  BY <1>1, <1>2 DEF wakeup_front, QueueMoves

LEMMA PushMoves ==
    ASSUME KernelInv, NEW w \in WaitQueues, NEW t \in Threads,
           wait_queue' = [wait_queue EXCEPT ![w] = Append(@, t)]
    PROVE  QueueMoves
<1>1. wait_queue \in [WaitQueues -> Seq(Threads)]
  BY DEF KernelInv, TypeOK
<1>2. BlockingMutexes \cup Semaphores \subseteq WaitQueues
  BY DEF WaitQueues
<1> QED  BY <1>1, <1>2 DEF QueueMoves

LEMMA StillMoves ==
    ASSUME UNCHANGED wait_queue
    PROVE  QueueMoves
  BY DEF QueueMoves

LEMMA CondvarWaitMoves ==
    ASSUME KernelInv, NEW t \in Tasks, NEW c \in Condvars, NEW m \in Mutexes,
           sys_condvar_wait(t, c, m)
    PROVE  QueueMoves
<1>1. t \in Threads /\ c \in WaitQueues
  BY DEF sys_condvar_wait, WaitQueues
<1>2. CASE ~HandsOver(m)
  <2>1. wait_queue' = [wait_queue EXCEPT ![c] = Append(@, t)]
    BY <1>2 DEF sys_condvar_wait
  <2> QED  BY <1>1, <2>1, PushMoves
<1>3. CASE HandsOver(m)
  <2>1. /\ m \in BlockingMutexes /\ wait_queue[m] # <<>>
        /\ wait_queue' = [wait_queue EXCEPT ![m] = Tail(@), ![c] = Append(@, t)]
    BY <1>3 DEF sys_condvar_wait, HandsOver
  <2>2. c \notin BlockingMutexes \cup Semaphores /\ c # m /\ m \in WaitQueues
    BY <2>1, ObjectsAssumption DEF Mutexes, WaitQueues
  <2>3. wait_queue \in [WaitQueues -> Seq(Threads)]
    BY DEF KernelInv, TypeOK
  <2>4. ASSUME NEW q \in BlockingMutexes \cup Semaphores
        PROVE  wait_queue'[q] = IF q = m THEN Tail(wait_queue[m]) ELSE wait_queue[q]
    <3>1. q \in WaitQueues /\ q # c
      BY <2>2 DEF WaitQueues
    <3> QED  BY <1>1, <2>1, <2>2, <2>3, <3>1
  <2> QED  BY <2>1, <2>4 DEF QueueMoves
<1> QED  BY <1>2, <1>3

LEMMA StepMoves == KernelInv /\ [Next]_vars => QueueMoves
<1> SUFFICES ASSUME KernelInv, [Next]_vars PROVE QueueMoves
  OBVIOUS
<1>1. CASE Tick \/ run_tasks \/ \E u \in to_recycle : recycle_task(u)
  BY <1>1, StillMoves DEF Tick, run_tasks, recycle_task, syncVars
<1>2. ASSUME NEW t \in Tasks, timer_interrupt(t) PROVE QueueMoves
  BY <1>2, StillMoves DEF timer_interrupt, syncVars
<1>3. ASSUME NEW t \in Tasks, KernelStep(t) PROVE QueueMoves
  <2>1. ASSUME NEW m \in BlockingMutexes, lock_block(t, m) PROVE QueueMoves
    <3>1. m \in WaitQueues /\ t \in Threads
      BY <2>1 DEF WaitQueues, KernelInv, Continuations, lock_block, At
    <3> QED  BY <2>1, <3>1, PushMoves DEF lock_block
  <2>2. CASE \/ \E m \in Mutexes : lock_free(t, m)
             \/ \E m \in SpinMutexes : lock_spin(t, m)
             \/ lock_return(t) \/ down_return(t)
             \/ \E x \in timers : check_timer_wakeup(t, x)
             \/ check_timer_done(t) \/ trap_return(t) \/ exit_on_signal(t)
    BY <2>2, StillMoves
       DEF lock_free, lock_spin, lock_return, down_return, check_timer_wakeup,
           check_timer_done, trap_return, exit_on_signal,
           exit_current_and_run_next, syncVars
  <2> QED  BY <1>3, <2>1, <2>2 DEF KernelStep
<1>4. ASSUME NEW t \in Tasks, UserStep(t) PROVE QueueMoves
  <2>1. ASSUME NEW m \in Mutexes, sys_mutex_unlock(t, m) PROVE QueueMoves
    <3>1. CASE m \in BlockingMutexes
      BY <2>1, <3>1, WakeMoves DEF sys_mutex_unlock, WaitQueues
    <3>2. CASE m \notin BlockingMutexes
      BY <2>1, <3>2, StillMoves DEF sys_mutex_unlock
    <3> QED  BY <3>1, <3>2
  <2>2. ASSUME NEW s \in Semaphores, sys_semaphore_up(t, s) PROVE QueueMoves
    <3>1. CASE count'[s] <= 0
      BY <2>2, <3>1, WakeMoves DEF sys_semaphore_up, WaitQueues
    <3>2. CASE ~(count'[s] <= 0)
      BY <2>2, <3>2, StillMoves DEF sys_semaphore_up
    <3> QED  BY <3>1, <3>2
  <2>3. ASSUME NEW s \in Semaphores, sys_semaphore_down(t, s) PROVE QueueMoves
    <3>1. s \in WaitQueues /\ t \in Threads
      BY <2>3 DEF WaitQueues, sys_semaphore_down
    <3>2. CASE count'[s] < 0
      BY <2>3, <3>1, <3>2, PushMoves DEF sys_semaphore_down
    <3>3. CASE ~(count'[s] < 0)
      BY <2>3, <3>3, StillMoves DEF sys_semaphore_down
    <3> QED  BY <3>2, <3>3
  <2>4. ASSUME NEW c \in Condvars, sys_condvar_signal(t, c) PROVE QueueMoves
    BY <2>4, WakeMoves DEF sys_condvar_signal, WaitQueues
  <2>5. ASSUME NEW c \in Condvars, NEW m \in Mutexes, sys_condvar_wait(t, c, m)
        PROVE  QueueMoves
    BY <2>5, CondvarWaitMoves
  <2>6. CASE \/ sys_yield(t)
             \/ \E u \in Threads : sys_thread_create(t, u)
             \/ \E ms \in 0..MaxTime : sys_sleep(t, ms)
             \/ \E m \in Mutexes : sys_mutex_lock(t, m)
             \/ sys_kill(t) \/ user_fault(t) \/ sys_exit(t)
    BY <2>6, StillMoves
       DEF sys_yield, sys_thread_create, sys_sleep, sys_mutex_lock, sys_kill,
           user_fault, sys_exit, exit_current_and_run_next, syncVars
  <2> QED  BY <1>4, <2>1, <2>2, <2>3, <2>4, <2>5, <2>6 DEF UserStep
<1>5. CASE UNCHANGED vars
  BY <1>5, StillMoves DEF vars
<1> QED  BY <1>1, <1>2, <1>3, <1>4, <1>5 DEF Next

\* unlock, up and signal let go of the task that has waited longest for a blocking
\* mutex or a semaphore, and of no other, and no other step lets go of one.
THEOREM WaitersInOrder == Spec => FirstComeFirstServed
<1> DEFINE Fifo ==
             \A q \in BlockingMutexes \cup Semaphores :
                \A i \in DOMAIN wait_queue[q] :
                   wait_queue[q][i] \notin Range(wait_queue'[q]) => i = 1
<1>1. KernelInv /\ [Next]_vars => [Fifo]_vars
  <2> SUFFICES ASSUME KernelInv, [Next]_vars,
                      NEW q \in BlockingMutexes \cup Semaphores
               PROVE  \A i \in DOMAIN wait_queue[q] :
                         wait_queue[q][i] \notin Range(wait_queue'[q]) => i = 1
    OBVIOUS
  <2>1. wait_queue[q] \in Seq(Threads)
    BY DEF KernelInv, TypeOK, WaitQueues
  <2>2. \/ wait_queue'[q] = wait_queue[q]
        \/ \E t \in Threads : wait_queue'[q] = Append(wait_queue[q], t)
        \/ wait_queue[q] # <<>> /\ wait_queue'[q] = Tail(wait_queue[q])
    BY StepMoves DEF QueueMoves
  <2> QED  BY <2>1, <2>2, QueueStep
<1> QED  BY <1>1, KernelInvariant, PTL DEF Spec, FirstComeFirstServed

\* Only the end of check_timer takes a task away from "timer".
LEMMA TimerEnds ==
    ASSUME KernelInv, Next, NEW t \in Tasks,
           pc[t] = "timer", pc'[t] # "timer"
    PROVE  check_timer_done(t)
<1> USE DEF At, Syscall, Goto
<1>0. pc \in [Tasks -> PCs]
  BY DEF KernelInv, TypeOK
<1>1. CASE Tick \/ run_tasks \/ \E u \in to_recycle : recycle_task(u)
  BY <1>1 DEF Tick, run_tasks, recycle_task, schedVars
<1>2. ASSUME NEW u \in Tasks, timer_interrupt(u) PROVE FALSE
  BY <1>0, <1>2 DEF timer_interrupt
<1>3. ASSUME NEW u \in Tasks, KernelStep(u) PROVE check_timer_done(t)
  <2>1. CASE \/ \E m \in Mutexes : lock_free(u, m)
             \/ \E m \in BlockingMutexes : lock_block(u, m)
             \/ \E m \in SpinMutexes : lock_spin(u, m)
             \/ lock_return(u) \/ down_return(u)
    BY <1>0, <2>1 DEF lock_free, lock_block, lock_spin, lock_return, down_return
  <2>2. CASE \/ \E x \in timers : check_timer_wakeup(u, x)
             \/ trap_return(u) \/ exit_on_signal(u)
    BY <1>0, <2>2 DEF check_timer_wakeup, trap_return, exit_on_signal,
                      exit_current_and_run_next
  <2>3. CASE check_timer_done(u)
    BY <1>0, <2>3 DEF check_timer_done
  <2> QED  BY <1>3, <2>1, <2>2, <2>3 DEF KernelStep
<1>4. ASSUME NEW u \in Tasks, UserStep(u) PROVE FALSE
  <2>1. CASE \/ sys_yield(u)
             \/ \E v \in Threads : sys_thread_create(u, v)
             \/ \E ms \in 0..MaxTime : sys_sleep(u, ms)
             \/ sys_kill(u) \/ user_fault(u) \/ sys_exit(u)
    BY <1>0, <2>1 DEF sys_yield, sys_thread_create, sys_sleep, sys_kill,
                      user_fault, sys_exit, exit_current_and_run_next
  <2>2. CASE \/ \E m \in Mutexes : sys_mutex_lock(u, m) \/ sys_mutex_unlock(u, m)
             \/ \E s \in Semaphores :
                   sys_semaphore_up(u, s) \/ sys_semaphore_down(u, s)
             \/ \E c \in Condvars : sys_condvar_signal(u, c)
             \/ \E c \in Condvars, m \in Mutexes : sys_condvar_wait(u, c, m)
    BY <1>0, <2>2 DEF sys_mutex_lock, sys_mutex_unlock, sys_semaphore_up,
                      sys_semaphore_down, sys_condvar_signal, sys_condvar_wait
  <2> QED  BY <1>4, <2>1, <2>2 DEF UserStep
<1> QED  BY <1>1, <1>2, <1>3, <1>4 DEF Next

\* TIMERS that is not empty has an entry on top, and no other is due before it.
LEMMA TopOfTimers ==
    ASSUME KernelInv, \A x \in timers : Peek(x) => x.expire_ms > now
    PROVE  \A x \in timers : x.expire_ms > now
<1> DEFINE S == {n \in Nat : \E y \in timers : y.expire_ms = n}
<1>1. \A y \in timers : y.expire_ms \in S
  BY DEF KernelInv, TypeOK
<1>2. ASSUME NEW x \in timers PROVE x.expire_ms > now
  <2>1. PICK n \in S : \A k \in S : n <= k
    <3> HIDE DEF S
    <3> QED  BY <1>1, <1>2, LeastNatural DEF S
  <2>2. PICK y \in timers : y.expire_ms = n
    OBVIOUS
  <2>3. Peek(y)
    BY <1>1, <2>1, <2>2 DEF Peek
  <2>4. n > now /\ n <= x.expire_ms /\ x.expire_ms \in Nat /\ n \in Nat /\ now \in Int
    BY <1>1, <1>2, <2>1, <2>2, <2>3 DEF KernelInv, TypeOK
  <2> QED  BY <2>4
<1> QED  BY <1>2

\* check_timer wakes the sleepers that are due, in the order of their times and
\* each once, and leaves none of them asleep; remove_timer takes out only what
\* belongs to a process that has become a zombie.
THEOREM SleepersAreInOrder == Spec => SleepersInOrder
<1> DEFINE Left(x) ==
               \/ is_zombie /\ x.task \notin Ready'
               \/ /\ x.expire_ms <= now
                  /\ \A y \in timers' : x.expire_ms <= y.expire_ms
                  /\ x.task \notin Ready
                  /\ ready_queue' = Append(ready_queue, x.task)
           Due == \A x \in timers \ timers' : Left(x)
           Done == \A t \in Tasks :
                       pc[t] = "timer" /\ pc'[t] # "timer" =>
                           \A x \in timers' : x.expire_ms > now
<1>1. KernelInv /\ [Next]_vars => [Due]_vars
  <2> SUFFICES ASSUME KernelInv, [Next]_vars PROVE Due
    OBVIOUS
  <2>1. ASSUME NEW u \in to_recycle, recycle_task(u) PROVE Due
    <3>1. is_zombie /\ timers' = {x \in timers : x.task # u}
      BY <2>1 DEF KernelInv, ExitIsExclusive, recycle_task
    <3>2. u \notin Ready'
      BY <2>1, RemoveFirstFacts
         DEF recycle_task, KernelInv, TypeOK, OnePlace, Ready
    <3>3. \A x \in timers \ timers' : x.task = u
      BY <3>1
    <3> QED  BY <3>1, <3>2, <3>3
  <2>2. ASSUME NEW t \in Tasks, NEW x \in timers, check_timer_wakeup(t, x) PROVE Due
    <3>1. /\ timers' = timers \ {x} /\ x.expire_ms <= now
          /\ \A y \in timers : x.expire_ms <= y.expire_ms
          /\ ready_queue' = Append(ready_queue, x.task)
      BY <2>2 DEF check_timer_wakeup, Peek, wakeup_task, add_task
    <3>2. x.task \notin Ready
      BY DEF KernelInv, OnePlace, Sleeping
    <3>3. \A y \in timers \ timers' : y = x
      BY <3>1
    <3> QED  BY <3>1, <3>2, <3>3
  <2>3. ASSUME NEW t \in Tasks, NEW ms \in 0..MaxTime, sys_sleep(t, ms) PROVE Due
    BY <2>3 DEF sys_sleep
  <2>4. CASE UNCHANGED timers
    BY <2>4
  <2>5. CASE Tick \/ run_tasks
    BY <2>4, <2>5 DEF Tick, run_tasks, timeVars
  <2>6. ASSUME NEW t \in Tasks, timer_interrupt(t) PROVE Due
    BY <2>4, <2>6 DEF timer_interrupt, timeVars
  <2>7. ASSUME NEW t \in Tasks, KernelStep(t) PROVE Due
    <3>1. CASE \/ \E m \in Mutexes : lock_free(t, m)
               \/ \E m \in BlockingMutexes : lock_block(t, m)
               \/ \E m \in SpinMutexes : lock_spin(t, m)
               \/ lock_return(t) \/ down_return(t)
               \/ check_timer_done(t) \/ trap_return(t) \/ exit_on_signal(t)
      BY <2>4, <3>1
         DEF lock_free, lock_block, lock_spin, lock_return, down_return,
             check_timer_done, trap_return, exit_on_signal,
             exit_current_and_run_next, timeVars
    <3> QED  BY <2>2, <2>7, <3>1 DEF KernelStep
  <2>8. ASSUME NEW t \in Tasks, UserStep(t) PROVE Due
    <3>1. CASE \/ sys_yield(t)
               \/ \E u \in Threads : sys_thread_create(t, u)
               \/ \E m \in Mutexes : sys_mutex_lock(t, m) \/ sys_mutex_unlock(t, m)
               \/ \E s \in Semaphores :
                     sys_semaphore_up(t, s) \/ sys_semaphore_down(t, s)
               \/ \E c \in Condvars : sys_condvar_signal(t, c)
               \/ \E c \in Condvars, m \in Mutexes : sys_condvar_wait(t, c, m)
               \/ sys_kill(t) \/ user_fault(t) \/ sys_exit(t)
      BY <2>4, <3>1
         DEF sys_yield, sys_thread_create, sys_mutex_lock, sys_mutex_unlock,
             sys_semaphore_up, sys_semaphore_down, sys_condvar_signal,
             sys_condvar_wait, sys_kill, user_fault, sys_exit,
             exit_current_and_run_next, timeVars
    <3> QED  BY <2>3, <2>8, <3>1 DEF UserStep
  <2>9. CASE UNCHANGED vars
    BY <2>4, <2>9 DEF vars
  <2> QED  BY <2>1, <2>5, <2>6, <2>7, <2>8, <2>9 DEF Next
<1>2. KernelInv /\ [Next]_vars => [Done]_vars
  <2> SUFFICES ASSUME KernelInv, Next, NEW t \in Tasks,
                      pc[t] = "timer", pc'[t] # "timer"
               PROVE  \A x \in timers' : x.expire_ms > now
    BY DEF vars, schedVars
  <2>1. /\ \A x \in timers : Peek(x) => x.expire_ms > now
        /\ timers' = timers
    BY TimerEnds DEF check_timer_done, timeVars
  <2> QED  BY <2>1, TopOfTimers
<1>3. KernelInv /\ [Next]_vars => [Due /\ Done]_vars
  BY <1>1, <1>2
<1> QED  BY <1>3, KernelInvariant, PTL DEF Spec, SleepersInOrder
=============================================================================
