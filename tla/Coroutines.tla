----------------------------- MODULE Coroutines -----------------------------
(***************************************************************************)
(* The two schedulers of coroutines in user mode: the Runtime with a stack *)
(* for each task (user/src/bin/stackful_coroutine.rs), and the Executor of *)
(* futures (user/src/bin/stackless_coroutine.rs).  Both run on one thread  *)
(* of the kernel.  switch() is the change of `current`: a task goes on     *)
(* where it was.                                                           *)
(***************************************************************************)
EXTENDS Integers, SequencesExt, FiniteSetsExt

CONSTANTS MAX_TASKS,
          Yields,      \* how often each task that main spawns yields
          Futures      \* how many futures are pushed

\* main spawns no more tasks than there are places beside its own.
ASSUME CoroutineAssumption ==
    /\ MAX_TASKS \in Nat \ {0}
    /\ Yields \in Seq(Nat) /\ Len(Yields) < MAX_TASKS
    /\ Futures \in Nat

VARIABLES
    \* Runtime
    state, current, finished,
    spawned,           \* how many tasks main has spawned
    to_yield,          \* by task: how often it will yield
    yielded,           \* history: how often it has
    \* Executor
    tasks,             \* the queue
    halted,            \* futures whose Task is Halted
    awaits             \* by future: how often it has come back from await

runtimeVars == <<state, current, finished, spawned, to_yield, yielded>>
executorVars == <<tasks, halted, awaits>>
coroutineVars == <<runtimeVars, executorVars>>

Slots == 0..(MAX_TASKS - 1)
Awaits == 2            \* in the async block of main

CoroutineInit ==
    /\ state = [k \in Slots |-> IF k = 0 THEN "Running" ELSE "Available"]
    /\ current = 0
    /\ finished = FALSE
    /\ spawned = 0
    /\ to_yield = [k \in Slots |-> 0]
    /\ yielded = [k \in Slots |-> 0]
    /\ tasks = [f \in 1..Futures |-> f]
    /\ halted = {}
    /\ awaits = [f \in 1..Futures |-> 0]

-----------------------------------------------------------------------------
(* Runtime                                                                 *)

\* A mutant that looks from the base task on.
NextReady_base(s) ==
    LET ready == {k \in Slots : s[k] = "Ready"}
    IN  IF ready = {} THEN {} ELSE {Min(ready)}

\* The task that t_yield switches to: the first that is Ready, from the current
\* one on, round and round.
NextReady(s) ==
    LET ready == {d \in Slots : s[(current + d) % MAX_TASKS] = "Ready"}
    IN  IF ready = {} THEN {} ELSE {(current + Min(ready)) % MAX_TASKS}

\* t_yield with the states s.  It returns FALSE if no other task is Ready, which
\* ends run(); only the base task can see that.
t_yield(s) ==
    \/ /\ NextReady(s) = {}
       /\ state' = s
       /\ finished' = (current = 0)
       /\ UNCHANGED current
    \/ \E pos \in NextReady(s) :
          /\ state' = [s EXCEPT
                ![current] = IF @ = "Available" THEN @ ELSE "Ready",
                ![pos] = "Running"]
          /\ current' = pos
          /\ UNCHANGED finished

spawn ==
    /\ spawned < Len(Yields)
    /\ \E k \in {Min({j \in Slots : state[j] = "Available"})} :
          /\ state' = [state EXCEPT ![k] = "Ready"]
          /\ to_yield' = [to_yield EXCEPT ![k] = Yields[spawned + 1]]
    /\ spawned' = spawned + 1
    /\ UNCHANGED <<current, finished, yielded>>

run ==
    /\ current = 0
    /\ spawned = Len(Yields)
    /\ ~finished
    /\ t_yield(state)
    /\ UNCHANGED <<spawned, to_yield, yielded>>

yield_task ==
    /\ current # 0
    /\ to_yield[current] > 0
    /\ to_yield' = [to_yield EXCEPT ![current] = @ - 1]
    /\ yielded' = [yielded EXCEPT ![current] = @ + 1]
    /\ t_yield(state)
    /\ UNCHANGED spawned

\* The function of the task returns to guard(), which calls t_return().
guard ==
    /\ current # 0
    /\ to_yield[current] = 0
    /\ t_yield([state EXCEPT ![current] = "Available"])
    /\ UNCHANGED <<spawned, to_yield, yielded>>

RuntimeStep == spawn \/ run \/ yield_task \/ guard

-----------------------------------------------------------------------------
(* Executor.  A poll of a future goes on until an await is pending: a       *)
(* Waiter is pending, and halts its Task, if that is Running, and the next  *)
(* poll finds it Halted, sets it Running and comes back from the await.     *)

PushBack(queue, f) == Append(queue, f)

\* The first poll of a future, up to its first await.
poll_first ==
    /\ tasks # <<>>
    /\ \E f \in {Head(tasks)} :
          /\ f \notin halted
          /\ halted' = halted \cup {f}
          /\ tasks' = PushBack(Tail(tasks), f)
    /\ UNCHANGED awaits

\* Back from an await, and on to the next one, or to the end.
poll_again ==
    /\ tasks # <<>>
    /\ \E f \in {Head(tasks)} :
          /\ f \in halted
          /\ awaits' = [awaits EXCEPT ![f] = @ + 1]
          /\ IF awaits[f] + 1 = Awaits
             THEN /\ halted' = halted \ {f}
                  /\ tasks' = Tail(tasks)
             ELSE /\ tasks' = PushBack(Tail(tasks), f)
                  /\ UNCHANGED halted

ExecutorStep == poll_first \/ poll_again

CoroutineSpec ==
    CoroutineInit /\ [][\/ RuntimeStep /\ UNCHANGED executorVars
                        \/ ExecutorStep /\ UNCHANGED runtimeVars]_coroutineVars

-----------------------------------------------------------------------------
(* Properties                                                              *)

\* The runtime is fair: of two tasks that are not done, none has yielded twice
\* more than the other; and when run() says that all tasks have finished, they
\* have, and every place is free again.
RuntimeIsFair ==
    /\ spawned = Len(Yields) =>
          \A k, j \in Slots \ {0} :
              state[k] # "Available" /\ state[j] # "Available"
                  => yielded[k] - yielded[j] <= 1
    /\ finished => \A k \in Slots : /\ to_yield[k] = 0
                                    /\ k # 0 => state[k] = "Available"

\* The executor is fair: no future comes back from an await twice before another
\* one does.
ExecutorIsFair ==
    \A f, g \in 1..Futures : awaits[f] - awaits[g] <= 1

\* t_yield and the executor give every coroutine its turn, and run() returns
\* only when all have returned.
CoroutinesFair == RuntimeIsFair /\ ExecutorIsFair
=============================================================================
