---------------------------- MODULE SyncPrograms ----------------------------
(***************************************************************************)
(* The programs in user/src/bin that synchronise by system calls.          *)
(*                                                                         *)
(* A thread runs a sequence of instructions: loads and stores of the       *)
(* static variables, and system calls.  It may be interrupted between any  *)
(* two of them.  What a call does is a step of the kernel, as the module   *)
(* KernelSync has it in detail: a blocking mutex and a semaphore are       *)
(* handed over to the first that waits.  sleep() and print!() are left     *)
(* out: any thread may be slow anywhere.                                   *)
(***************************************************************************)
EXTENDS Integers, SequencesExt

CONSTANTS PER_THREAD, ADDERS,              \* adder_*.rs
          N, ROUND,                        \* phil_din_mutex.rs
          BARRIER_THREADS,                 \* THREAD_NUM in barrier_condvar.rs
          BUFFER_SIZE, PRODUCER_COUNT, NUMBER_PER_PRODUCER    \* mpsc_sem.rs

ASSUME SyncAssumption ==
    /\ {PER_THREAD, ADDERS, N, ROUND, BARRIER_THREADS, BUFFER_SIZE,
         PRODUCER_COUNT, NUMBER_PER_PRODUCER} \subseteq Nat
    /\ N >= 2
    /\ BUFFER_SIZE > 0

VARIABLES program, ip, reg,                \* by thread: the next instruction,
                                           \* and what it has loaded
          blocked,                         \* by the kernel
          mem, BUFFER,                     \* static variables
          puts, output,                    \* history: what mpsc_sem has put
                                           \* in its buffer, and printed
          locked, mutex_queue, count, sem_queue, condvar_queue

syncVars == <<program, ip, reg, blocked, mem, BUFFER, puts, output, locked,
              mutex_queue, count, sem_queue, condvar_queue>>

-----------------------------------------------------------------------------
(* Instructions                                                            *)

Lock(m) == <<"lock", m>>
SpinLock(m) == <<"spin_lock", m>>
Unlock(m) == <<"unlock", m>>
Down(s) == <<"down", s>>
Up(s) == <<"up", s>>
Signal(c) == <<"signal", c>>
\* condvar_wait: the mutex is free again when the thread is in the queue.  The
\* lock that it takes again, when it was woken, is an instruction of its own.
Wait(c, m) == <<"wait", c, m>>

Load(x) == <<"load", x>>
Set(x, value) == <<"set", x, value>>
Inc(x) == <<"inc", x>>                     \* reg + 1 to x
Add(x, size) == <<"add", x, size>>         \* (reg + 1) % size to x
Put(value) == <<"put", value>>             \* value to BUFFER[reg]
Get == <<"get">>                           \* BUFFER[reg] is printed
JumpIf(value, to) == <<"jump_if", value, to>>
Jump(to) == <<"jump", to>>
Work == <<"work">>

\* n times the body of a loop: where a place of the code is in the body.
Place(k, length) == ((k - 1) % length) + 1
Repeat(body, n) ==
    [k \in 1..(n * Len(body)) |-> body[Place(k, Len(body))]]

-----------------------------------------------------------------------------
(* The programs                                                            *)

\* A mutant that does not lock.
adder_unlocked(lock) ==
    Repeat(<<Load("A"), Inc("A")>>, PER_THREAD)

\* The adders: f locks, and critical_section reads, computes and writes A.
adder(lock) ==
    Repeat(<<lock, Load("A"), Inc("A"), Unlock(0)>>, PER_THREAD)

philosopher(id, first, second) ==
    Repeat(<<Lock(first), Lock(second), Work, Unlock(second), Unlock(first)>>,
           ROUND)

\* The fork on the left has the number of the philosopher.
right(id) == IF id = N - 1 THEN 0 ELSE id + 1

\* A mutant that takes the left fork first.
philosopher_dining_problem_left(id) ==
    philosopher(id, id, right(id))

philosopher_dining_problem(id) ==
    IF id < right(id) THEN philosopher(id, id, right(id))
    ELSE philosopher(id, right(id), id)

\* A mutant that does not wait for the last thread.
block_early(b, x) ==
    <<SpinLock(b), Load(x), Inc(x), Load(x),
      JumpIf(BARRIER_THREADS - 1, 8), Wait(b, b), SpinLock(b), Signal(b), Unlock(b)>>

\* Barrier::block.  The jump is to Signal; b is mutex_id and condvar_id, and x
\* is the count.
block(b, x) ==
    <<SpinLock(b), Load(x), Inc(x), Load(x),
      JumpIf(BARRIER_THREADS, 8), Wait(b, b), SpinLock(b), Signal(b), Unlock(b)>>

\* thread_fn: the second barrier begins where the first ends.
Shifted(body, by) ==
    [k \in DOMAIN body |-> IF body[k][1] = "jump_if"
                           THEN JumpIf(body[k][2], body[k][3] + by)
                           ELSE body[k]]
Barriers(first, second) == first \o Shifted(second, Len(first))
barrier_thread == Barriers(block(0, "AB"), block(1, "BC"))

SEM_MUTEX == 0
SEM_EMPTY == 1
SEM_AVAIL == 2

\* A mutant that puts an element when the buffer may be full.
producer_greedy(id) ==
    Repeat(<<Down(SEM_MUTEX), Load("TAIL"), Put(id), Add("TAIL", BUFFER_SIZE),
             Up(SEM_MUTEX), Up(SEM_AVAIL)>>, NUMBER_PER_PRODUCER)

producer(id) ==
    Repeat(<<Down(SEM_EMPTY), Down(SEM_MUTEX), Load("TAIL"), Put(id),
             Add("TAIL", BUFFER_SIZE), Up(SEM_MUTEX), Up(SEM_AVAIL)>>,
           NUMBER_PER_PRODUCER)

consumer ==
    Repeat(<<Down(SEM_AVAIL), Down(SEM_MUTEX), Load("FRONT"), Get,
             Add("FRONT", BUFFER_SIZE), Up(SEM_MUTEX), Up(SEM_EMPTY)>>,
           PRODUCER_COUNT * NUMBER_PER_PRODUCER)

\* condsync_condvar.rs: second loops until A is not 0.
first_condvar == <<Lock(0), Set("A", 1), Signal(0), Unlock(0)>>
second_condvar ==
    <<Lock(0), Load("A"), JumpIf(1, 7), Wait(0, 0), Lock(0), Jump(2),
      Unlock(0)>>

\* condsync_sem.rs.
first_sem == <<Lock(0), Set("A", 1), Up(0), Unlock(0)>>
second_sem ==
    <<Lock(0), Load("A"), JumpIf(1, 7), Unlock(0), Down(0), Jump(1),
      Unlock(0)>>

\* A mutant that begins with a token.
SyncTokens_one == <<1>>
\* sync_sem.rs: the semaphore begins with no token.
SyncTokens == <<0>>
first_sync == <<Work, Up(0)>>
second_sync == <<Down(0), Work>>

Programs == {"adder_blocking", "adder_spin", "phil", "barrier", "mpsc",
             "condsync_condvar", "condsync_sem", "sync_sem"}

\* The threads of a program, and the code of each.
code == [p \in Programs |->
    CASE p = "adder_blocking" -> [t \in 0..(ADDERS - 1) |-> adder(Lock(0))]
      [] p = "adder_spin" -> [t \in 0..(ADDERS - 1) |-> adder(SpinLock(0))]
      [] p = "phil" -> [t \in 0..(N - 1) |-> philosopher_dining_problem(t)]
      [] p = "barrier" -> [t \in 0..(BARRIER_THREADS - 1) |-> barrier_thread]
      [] p = "mpsc" -> [t \in 0..PRODUCER_COUNT |->
                           IF t < PRODUCER_COUNT THEN producer(t)
                           ELSE consumer]
      [] p = "condsync_condvar" ->
            [t \in 0..1 |-> IF t = 0 THEN first_condvar ELSE second_condvar]
      [] p = "condsync_sem" ->
            [t \in 0..1 |-> IF t = 0 THEN first_sem ELSE second_sem]
      [] p = "sync_sem" ->
            [t \in 0..1 |-> IF t = 0 THEN first_sync ELSE second_sync]]

\* What semaphore_create is called with.
res_counts == [p \in Programs |->
    CASE p = "mpsc" -> <<1, BUFFER_SIZE, 0>>
      [] p = "sync_sem" -> SyncTokens
      [] OTHER -> <<0>>]

Variables == {"A", "AB", "BC", "FRONT", "TAIL"}
Mutexes == 0..N

-----------------------------------------------------------------------------
Here == DOMAIN ip
Ended(t) == ip[t] > Len(code[program][t])
Instruction(t) == code[program][t][ip[t]]

SyncInit ==
    /\ program \in Programs
    /\ ip = [t \in DOMAIN code[program] |-> 1]
    /\ reg = [t \in DOMAIN code[program] |-> 0]
    /\ blocked = {}
    /\ mem = [x \in Variables |-> 0]
    /\ BUFFER = [k \in 0..(BUFFER_SIZE - 1) |-> 0]
    /\ puts = <<>> /\ output = <<>>
    /\ locked = {}
    /\ mutex_queue = [m \in Mutexes |-> <<>>]
    /\ count = [s \in 0..2 |-> IF s < Len(res_counts[program])
                               THEN res_counts[program][s + 1] ELSE 0]
    /\ sem_queue = [s \in 0..2 |-> <<>>]
    /\ condvar_queue = [c \in 0..1 |-> <<>>]

\* Thread t is at this instruction, and goes on behind it.
At(t, op) == ~Ended(t) /\ t \notin blocked /\ Instruction(t)[1] = op
Advance(t) == ip' = [ip EXCEPT ![t] = @ + 1]

data == <<reg, mem, BUFFER, puts, output>>
objects == <<locked, mutex_queue, count, sem_queue, condvar_queue>>

\* Loads and stores.
access(t) ==
    /\ \/ /\ At(t, "load")
          /\ reg' = [reg EXCEPT ![t] = mem[Instruction(t)[2]]]
          /\ UNCHANGED <<mem, BUFFER, puts, output>>
       \/ /\ At(t, "set")
          /\ mem' = [mem EXCEPT ![Instruction(t)[2]] = Instruction(t)[3]]
          /\ UNCHANGED <<reg, BUFFER, puts, output>>
       \/ /\ At(t, "inc")
          /\ mem' = [mem EXCEPT ![Instruction(t)[2]] = reg[t] + 1]
          /\ UNCHANGED <<reg, BUFFER, puts, output>>
       \/ /\ At(t, "add")
          /\ mem' = [mem EXCEPT ![Instruction(t)[2]] =
                        (reg[t] + 1) % Instruction(t)[3]]
          /\ UNCHANGED <<reg, BUFFER, puts, output>>
       \/ /\ At(t, "put")
          /\ BUFFER' = [BUFFER EXCEPT ![reg[t]] = Instruction(t)[2]]
          /\ puts' = Append(puts, Instruction(t)[2])
          /\ UNCHANGED <<reg, mem, output>>
       \/ /\ At(t, "get")
          /\ output' = Append(output, BUFFER[reg[t]])
          /\ UNCHANGED <<reg, mem, BUFFER, puts>>
       \/ /\ At(t, "work")
          /\ UNCHANGED <<reg, mem, BUFFER, puts, output>>
    /\ Advance(t)
    /\ UNCHANGED <<program, blocked, objects>>

jump(t) ==
    /\ \/ /\ At(t, "jump_if")
          /\ ip' = [ip EXCEPT ![t] = IF reg[t] = Instruction(t)[2]
                                     THEN Instruction(t)[3] ELSE @ + 1]
       \/ /\ At(t, "jump")
          /\ ip' = [ip EXCEPT ![t] = Instruction(t)[2]]
    /\ UNCHANGED <<program, data, blocked, objects>>

\* mutex_lock of a blocking mutex: when it returns, it is locked.
Acquire(m, t) ==
    IF m \in locked
    THEN /\ blocked' = blocked \cup {t}
         /\ mutex_queue' = [mutex_queue EXCEPT ![m] = Append(@, t)]
         /\ UNCHANGED locked
    ELSE /\ locked' = locked \cup {m}
         /\ UNCHANGED <<blocked, mutex_queue>>

mutex_lock(t) ==
    /\ At(t, "lock")
    /\ Advance(t)
    /\ Acquire(Instruction(t)[2], t)
    /\ UNCHANGED <<program, data, count, sem_queue, condvar_queue>>

\* A spinning one yields until it is free, and so does lock() of adder_atomic.
mutex_lock_spin(t) ==
    /\ At(t, "spin_lock")
    /\ Instruction(t)[2] \notin locked
    /\ Advance(t)
    /\ locked' = locked \cup {Instruction(t)[2]}
    /\ UNCHANGED <<program, data, blocked, mutex_queue, count, sem_queue,
                   condvar_queue>>

\* Unlocking hands a mutex over to the first that waits; `more` are blocked.
Release(m, more) ==
    IF mutex_queue[m] # <<>>
    THEN /\ blocked' = (blocked \cup more) \ {Head(mutex_queue[m])}
         /\ mutex_queue' = [mutex_queue EXCEPT ![m] = Tail(@)]
         /\ UNCHANGED locked
    ELSE /\ locked' = locked \ {m}
         /\ blocked' = blocked \cup more
         /\ UNCHANGED mutex_queue

mutex_unlock(t) ==
    /\ At(t, "unlock")
    /\ Advance(t)
    /\ Release(Instruction(t)[2], {})
    /\ UNCHANGED <<program, data, count, sem_queue, condvar_queue>>

condvar_wait(t) ==
    /\ At(t, "wait")
    /\ Advance(t)
    /\ Release(Instruction(t)[3], {t})
    /\ condvar_queue' =
          [condvar_queue EXCEPT ![Instruction(t)[2]] = Append(@, t)]
    /\ UNCHANGED <<program, data, count, sem_queue>>

Wake(c) ==
    IF condvar_queue[c] = <<>>
    THEN UNCHANGED <<blocked, condvar_queue>>
    ELSE /\ blocked' = blocked \ {Head(condvar_queue[c])}
         /\ condvar_queue' = [condvar_queue EXCEPT ![c] = Tail(@)]

condvar_signal(t) ==
    /\ At(t, "signal")
    /\ Advance(t)
    /\ Wake(Instruction(t)[2])
    /\ UNCHANGED <<program, data, locked, mutex_queue, count, sem_queue>>

GiveToken(s) ==
    /\ count' = [count EXCEPT ![s] = @ + 1]
    /\ IF count[s] < 0
       THEN /\ blocked' = blocked \ {Head(sem_queue[s])}
            /\ sem_queue' = [sem_queue EXCEPT ![s] = Tail(@)]
       ELSE UNCHANGED <<blocked, sem_queue>>

semaphore_up(t) ==
    /\ At(t, "up")
    /\ Advance(t)
    /\ GiveToken(Instruction(t)[2])
    /\ UNCHANGED <<program, data, locked, mutex_queue, condvar_queue>>

TakeToken(s, t) ==
    /\ count' = [count EXCEPT ![s] = @ - 1]
    /\ IF count[s] <= 0
       THEN /\ blocked' = blocked \cup {t}
            /\ sem_queue' = [sem_queue EXCEPT ![s] = Append(@, t)]
       ELSE UNCHANGED <<blocked, sem_queue>>

semaphore_down(t) ==
    /\ At(t, "down")
    /\ Advance(t)
    /\ TakeToken(Instruction(t)[2], t)
    /\ UNCHANGED <<program, data, locked, mutex_queue, condvar_queue>>

SyncStep(t) ==
    /\ t \in Here
    /\ \/ access(t)
       \/ jump(t)
       \/ mutex_lock(t)
       \/ mutex_lock_spin(t)
       \/ mutex_unlock(t)
       \/ condvar_wait(t)
       \/ condvar_signal(t)
       \/ semaphore_up(t)
       \/ semaphore_down(t)

SyncDone == \A t \in Here : Ended(t)

SyncSpec == SyncInit /\ [][\E t \in Here : SyncStep(t)]_syncVars

-----------------------------------------------------------------------------
(* Properties                                                              *)

\* No addition is lost, whatever the lock: what the adders assert at the end.
AdderExact ==
    program \in {"adder_blocking", "adder_spin"} /\ SyncDone
        => mem["A"] = PER_THREAD * ADDERS

\* Two philosophers that sit side by side never eat at the same time.
NeighboursEatApart ==
    program = "phil" =>
        \A t \in Here : ~(At(t, "work") /\ At(right(t), "work"))

\* What the programs use locks for: the adders lose no addition, and no fork of
\* the philosophers is in two hands.
SectionsExclude == AdderExact /\ NeighboursEatApart

\* Nobody prints b before everybody has printed a, nor c before b: a thread is
\* past a barrier only when all have come to it and counted themselves.
BarrierHolds ==
    program = "barrier" =>
        \A t, u \in Here, k \in {1, 2} :
            ip[t] > k * Len(block(0, "AB")) =>
                ip[u] > (k - 1) * Len(block(0, "AB")) + 3

\* The consumer of mpsc_sem prints the elements in the order in which they were
\* put, each once, and the buffer never has more than it can hold.
QueueIsFifo ==
    /\ IsPrefix(output, puts)
    /\ Len(puts) - Len(output) <= BUFFER_SIZE

\* Second works only after First.
SecondAfterFirst ==
    /\ program \in {"condsync_condvar", "condsync_sem"} /\ Ended(1)
          => mem["A"] = 1
    /\ program = "sync_sem" /\ At(1, "work") => Ended(0)
=============================================================================
