---------------------------- MODULE SyncContract ----------------------------
(***************************************************************************)
(* What the mutexes and semaphores of os/src/sync promise the threads that *)
(* call them, with no scheduler, no queue and no `locked` flag: a mutex is *)
(* held by at most one thread, and a `down` returns only against a token   *)
(* that was there at the start or that an `up` put in.                     *)
(*                                                                         *)
(* KernelSync is shown to implement this specification.                    *)
(***************************************************************************)
EXTENDS Naturals

CONSTANTS Tasks,       \* the callers
          Mutexes,     \* both flavours, MutexBlocking and MutexSpin
          Semaphores,
          ResCount     \* Semaphore::new(res_count), per semaphore

VARIABLES holds,       \* holds[t]: the mutexes whose lock() has returned to t
          tokens       \* tokens[s]: initial count + ups - downs that returned

contractVars == <<holds, tokens>>

Init ==
    /\ holds = [t \in Tasks |-> {}]
    /\ tokens = ResCount

\* A lock() returns: nobody else holds the mutex.
Acquire(t, m) ==
    /\ \A u \in Tasks : m \notin holds[u]
    /\ holds' = [holds EXCEPT ![t] = @ \cup {m}]
    /\ UNCHANGED tokens

\* unlock(), or the unlock() at the head of Condvar::wait.
Release(t, m) ==
    /\ m \in holds[t]
    /\ holds' = [holds EXCEPT ![t] = @ \ {m}]
    /\ UNCHANGED tokens

Up(s) ==
    /\ tokens' = [tokens EXCEPT ![s] = @ + 1]
    /\ UNCHANGED holds

\* A down() returns: it consumes a token.
Down(s) ==
    /\ tokens[s] > 0
    /\ tokens' = [tokens EXCEPT ![s] = @ - 1]
    /\ UNCHANGED holds

Next ==
    \/ \E t \in Tasks, m \in Mutexes : Acquire(t, m) \/ Release(t, m)
    \/ \E s \in Semaphores : Up(s) \/ Down(s)

Spec == Init /\ [][Next]_contractVars
=============================================================================
