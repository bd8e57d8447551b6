----------------------------- MODULE Eisenberg -----------------------------
(***************************************************************************)
(* The lock of Eisenberg and McGuire (user/src/bin/eisenberg.rs), for any  *)
(* number of threads.  The code leaves out the last test of the original,  *)
(* that the thread whose turn it is be out; and threads are interrupted    *)
(* between any two loads and stores.                                       *)
(***************************************************************************)
EXTENDS Integers

CONSTANTS THREAD_NUM,
          EisenbergRounds      \* N in the code

ASSUME EisenbergAssumption == THREAD_NUM \in Nat \ {0}

VARIABLES flag, turn,          \* FLAG and TURN
          where,               \* where each thread is
          i,                   \* the loop variable of each
          ring_id,             \* and the end of its loop
          conflict,
          left                 \* how many rounds each has still to do

eisenbergVars == <<flag, turn, where, i, ring_id, conflict, left>>

Ids == 0..(THREAD_NUM - 1)

EisenbergInit ==
    /\ flag = [id \in Ids |-> "Out"]
    /\ turn = 0
    /\ where = [id \in Ids |-> "want"]
    /\ i = [id \in Ids |-> 0]
    /\ ring_id = [id \in Ids |-> 0]
    /\ conflict = [id \in Ids |-> FALSE]
    /\ left = [id \in Ids |-> EisenbergRounds]

Goto(id, from, to) == where[id] = from /\ where' = [where EXCEPT ![id] = to]

SetFlag(id, state) == flag' = [flag EXCEPT ![id] = state]

\* Thread id starts a loop over from..(to - 1).
Loop(id, from, to) ==
    /\ i' = [i EXCEPT ![id] = from]
    /\ ring_id' = [ring_id EXCEPT ![id] = to]

\* Here the loops of a thread do not matter any more.
NoLoop(id) == Loop(id, 0, 0)

Continue(id) == i' = [i EXCEPT ![id] = @ + 1] /\ UNCHANGED ring_id

\* eisenberg_enter_critical: announce that we want to enter.
want(id) ==
    /\ Goto(id, "want", "turn")
    /\ SetFlag(id, "Want")
    /\ UNCHANGED <<turn, i, ring_id, conflict, left>>

read_turn(id) ==
    /\ Goto(id, "turn", "scan")
    /\ Loop(id, turn, IF id < turn THEN id + THREAD_NUM ELSE id)
    /\ UNCHANGED <<flag, turn, conflict, left>>

\* Is any thread with higher priority not Out?  Then sleep and look again.
scan(id) ==
    /\ i[id] < ring_id[id]
    /\ IF flag[i[id] % THREAD_NUM] # "Out"
       THEN Goto(id, "scan", "turn") /\ NoLoop(id)
       ELSE Goto(id, "scan", "scan") /\ Continue(id)
    /\ UNCHANGED <<flag, turn, conflict, left>>

\* A mutant that looks at the others before it claims.
claim_late(id) ==
    \/ /\ i[id] = ring_id[id]
       /\ Goto(id, "scan", "check")
       /\ Loop(id, 0, THREAD_NUM)
       /\ conflict' = [conflict EXCEPT ![id] = FALSE]
       /\ UNCHANGED <<flag, turn, left>>
    \/ /\ i[id] = THREAD_NUM
       /\ Goto(id, "check", IF conflict[id] THEN "want" ELSE "claimed")
       /\ SetFlag(id, "In")
       /\ NoLoop(id)
       /\ UNCHANGED <<turn, conflict, left>>

\* Nobody is: claim, then look whether another thread is In, too.
claim(id) ==
    \/ /\ i[id] = ring_id[id]
       /\ Goto(id, "scan", "check")
       /\ SetFlag(id, "In")
       /\ Loop(id, 0, THREAD_NUM)
       /\ conflict' = [conflict EXCEPT ![id] = FALSE]
       /\ UNCHANGED <<turn, left>>
    \/ /\ i[id] = THREAD_NUM
       /\ Goto(id, "check", IF conflict[id] THEN "want" ELSE "claimed")
       /\ NoLoop(id)
       /\ UNCHANGED <<flag, turn, conflict, left>>

check(id) ==
    /\ i[id] < THREAD_NUM
    /\ Goto(id, "check", "check")
    /\ conflict' = [conflict EXCEPT ![id] =
                       @ \/ (i[id] # id /\ flag[i[id]] = "In")]
    /\ Continue(id)
    /\ UNCHANGED <<flag, turn, left>>

claim_turn(id) ==
    /\ Goto(id, "claimed", "critical")
    /\ turn' = id
    /\ UNCHANGED <<flag, i, ring_id, conflict, left>>

\* eisenberg_exit_critical: find the next one that wants to enter.
leave(id) ==
    /\ Goto(id, "critical", "next")
    /\ Loop(id, id + 1, id + THREAD_NUM)
    /\ UNCHANGED <<flag, turn, conflict, left>>

find_next(id) ==
    /\ i[id] < ring_id[id]
    /\ IF flag[i[id] % THREAD_NUM] = "Want"
       THEN Goto(id, "next", "give") /\ UNCHANGED <<i, ring_id>>
       ELSE Goto(id, "next", "next") /\ Continue(id)
    /\ UNCHANGED <<flag, turn, conflict, left>>

find_none(id) ==
    /\ i[id] = ring_id[id]
    /\ Goto(id, "next", "give")
    /\ UNCHANGED <<flag, turn, i, ring_id, conflict, left>>

\* The end of the loop is id itself, in the next lap.
give_turn(id) ==
    /\ Goto(id, "give", "out")
    /\ turn' = i[id] % THREAD_NUM
    /\ NoLoop(id)
    /\ UNCHANGED <<flag, conflict, left>>

\* All done, and the next round of thread_fn.
out(id) ==
    /\ Goto(id, "out", IF left[id] > 1 THEN "want" ELSE "done")
    /\ SetFlag(id, "Out")
    /\ left' = [left EXCEPT ![id] = @ - 1]
    /\ UNCHANGED <<turn, i, ring_id, conflict>>

EisenbergStep(id) ==
    \/ want(id) \/ read_turn(id) \/ scan(id) \/ claim(id) \/ check(id)
    \/ claim_turn(id) \/ leave(id) \/ find_next(id) \/ find_none(id)
    \/ give_turn(id) \/ out(id)

EisenbergDone == \A id \in Ids : where[id] = "done"

EisenbergSpec ==
    EisenbergInit /\ [][\E id \in Ids : EisenbergStep(id)]_eisenbergVars

\* At most one thread is past the conflict check and has not left: this is
\* what critical_test_enter, critical_test_claim and critical_test_exit
\* assert.
Inside == {id \in Ids : where[id] \in
              {"claimed", "critical", "next", "give", "out"}}
EisenbergExcludes == \A a, b \in Inside : a = b
=============================================================================
