------------------------------ MODULE Peterson ------------------------------
(***************************************************************************)
(* Peterson's lock (user/src/bin/peterson.rs): two threads, in user mode,  *)
(* that may be interrupted between any two loads and stores.  The stores   *)
(* are volatile, so they are made in the order of the code.                *)
(***************************************************************************)
EXTENDS Naturals

CONSTANT PetersonRounds        \* N in the code

VARIABLES FLAG, TURN, GUARD,
          at,        \* where each thread is
          rounds,    \* how many rounds each has still to do
          failed     \* a critical_test_* has failed

petersonVars == <<FLAG, TURN, GUARD, at, rounds, failed>>

Threads == {0, 1}
peer(id) == 1 - id

PetersonInit ==
    /\ FLAG = [id \in Threads |-> FALSE]
    /\ TURN = 0
    /\ GUARD = 0
    /\ at = [id \in Threads |-> "enter"]
    /\ rounds = [id \in Threads |-> PetersonRounds]
    /\ failed = FALSE

Go(id, from, to) == at[id] = from /\ at' = [at EXCEPT ![id] = to]

\* A mutant with the two stores in the other order.
store_flag_late(id) ==
    \/ /\ Go(id, "enter", "turn")
       /\ TURN' = peer(id)
       /\ UNCHANGED <<FLAG, GUARD, rounds, failed>>
    \/ /\ Go(id, "turn", "peer")
       /\ FLAG' = [FLAG EXCEPT ![id] = TRUE]
       /\ UNCHANGED <<TURN, GUARD, rounds, failed>>

\* peterson_enter_critical: the two stores, then the loads of the loop.
store_flag(id) ==
    \/ /\ Go(id, "enter", "turn")
       /\ FLAG' = [FLAG EXCEPT ![id] = TRUE]
       /\ UNCHANGED <<TURN, GUARD, rounds, failed>>
    \/ /\ Go(id, "turn", "peer")
       /\ TURN' = peer(id)
       /\ UNCHANGED <<FLAG, GUARD, rounds, failed>>

load_flag(id) ==
    /\ Go(id, "peer", IF FLAG[peer(id)] THEN "whose" ELSE "critical")
    /\ UNCHANGED <<FLAG, TURN, GUARD, rounds, failed>>

load_turn(id) ==
    /\ Go(id, "whose", IF TURN = peer(id) THEN "peer" ELSE "critical")
    /\ UNCHANGED <<FLAG, TURN, GUARD, rounds, failed>>

\* The critical section: the three functions assert the value of GUARD.
critical_test_enter(id) ==
    /\ Go(id, "critical", "inside")
    /\ GUARD' = GUARD + 1
    /\ failed' = (failed \/ GUARD # 0)
    /\ UNCHANGED <<FLAG, TURN, rounds>>

critical_test_claim(id) ==
    /\ Go(id, "inside", "claimed")
    /\ failed' = (failed \/ GUARD # 1)
    /\ UNCHANGED <<FLAG, TURN, GUARD, rounds>>

critical_test_exit(id) ==
    /\ Go(id, "claimed", "leave")
    /\ GUARD' = GUARD - 1
    /\ failed' = (failed \/ GUARD # 1)
    /\ UNCHANGED <<FLAG, TURN, rounds>>

\* peterson_exit_critical, and the next round of thread_fn.
peterson_exit_critical(id) ==
    /\ Go(id, "leave", IF rounds[id] > 1 THEN "enter" ELSE "done")
    /\ FLAG' = [FLAG EXCEPT ![id] = FALSE]
    /\ rounds' = [rounds EXCEPT ![id] = @ - 1]
    /\ UNCHANGED <<TURN, GUARD, failed>>

PetersonStep(id) ==
    \/ store_flag(id)
    \/ load_flag(id)
    \/ load_turn(id)
    \/ critical_test_enter(id)
    \/ critical_test_claim(id)
    \/ critical_test_exit(id)
    \/ peterson_exit_critical(id)

PetersonDone == \A id \in Threads : at[id] = "done"

PetersonSpec ==
    PetersonInit /\ [][\E id \in Threads : PetersonStep(id)]_petersonVars

\* Peterson's lock excludes: no critical_test_* fails, and the two threads are
\* never both between the end of the loop and the store of FALSE.
Critical == {"critical", "inside", "claimed", "leave"}
PetersonExcludes == ~failed /\ ~ \A id \in Threads : at[id] \in Critical
=============================================================================
