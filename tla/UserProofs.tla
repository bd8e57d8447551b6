----------------------------- MODULE UserProofs -----------------------------
(***************************************************************************)
(* Proofs that the two locks of the user programs exclude: Peterson's, and *)
(* that of Eisenberg and McGuire for every number of threads; and that the *)
(* two schedulers of coroutines are fair, for every number of tasks; and   *)
(* about the programs that synchronise by system calls, for any number of  *)
(* threads, rounds and places; and that the shell gives every program of a *)
(* line its input and output, for every set of lines.                      *)
(***************************************************************************)
EXTENDS Peterson, Eisenberg, Coroutines, SyncPrograms, Shell, QueueLemmas,
        FiniteSetTheorems

-----------------------------------------------------------------------------
(* Peterson's lock                                                         *)

Waiters == {"peer", "whose"}

PetersonType ==
    /\ FLAG \in [Threads -> BOOLEAN]
    /\ TURN \in Threads
    /\ GUARD \in Int
    /\ at \in [Threads -> {"enter", "turn", "done"} \cup Waiters \cup Critical]

\* A thread that is not out has its flag up.
FlagsUp == \A id \in Threads : at[id] \notin {"enter", "done"} => FLAG[id] = TRUE

\* A thread is inside while the other one waits only if it has the turn: the
\* other one has given it away since.
TurnIsInside ==
    \A id \in Threads :
        at[id] \in Critical /\ at[peer(id)] \in Waiters \cup Critical
            => TURN = id

\* GUARD tells whether a thread is between the two tests that change it.
GuardCounts ==
    /\ (\A id \in Threads : at[id] \notin {"inside", "claimed"}) => GUARD = 0
    /\ (\E id \in Threads : at[id] \in {"inside", "claimed"}) => GUARD = 1

PetersonInv ==
    PetersonType /\ FlagsUp /\ TurnIsInside /\ GuardCounts /\ failed = FALSE

\* The turn is one thread's only, so at most one is inside.
LEMMA OneInside ==
    PetersonType /\ TurnIsInside => ~ \A id \in Threads : at[id] \in Critical
  BY DEF PetersonType, TurnIsInside, Threads, peer, Critical, Waiters

LEMMA PetersonInitially == PetersonInit => PetersonInv
  BY DEF PetersonInit, PetersonInv, PetersonType, FlagsUp, TurnIsInside,
         GuardCounts, Threads, peer, Critical, Waiters

\* One step of one thread keeps the invariant.
LEMMA PetersonStepKeeps ==
    ASSUME PetersonInv, NEW id \in Threads, PetersonStep(id)
    PROVE  PetersonInv'
  <1> USE DEF Threads, peer, Critical, Waiters, Go
  <1>t. /\ PetersonType /\ FlagsUp /\ TurnIsInside /\ GuardCounts
        /\ failed = FALSE
    BY DEF PetersonInv
  <1>o. ~ \A t \in Threads : at[t] \in Critical
    BY OneInside, <1>t
  <1>1. CASE store_flag(id)
    <2>0. PetersonType'
      <3>1. FLAG' \in [Threads -> BOOLEAN]
        BY <1>1, <1>t DEF store_flag, PetersonType
      <3>2. /\ TURN' \in Threads
            /\ at' \in [Threads -> {"enter", "turn", "done"} \cup Waiters
                                      \cup Critical]
        BY <1>1, <1>t DEF store_flag, PetersonType
      <3> QED BY <1>1, <1>t, <3>1, <3>2 DEF store_flag, PetersonType
    <2>1. FlagsUp'
      BY <1>1, <1>t, <2>0 DEF store_flag, PetersonType, FlagsUp
    <2>2. TurnIsInside'
      BY <1>1, <1>t DEF store_flag, PetersonType, TurnIsInside
    <2>3. GuardCounts' /\ failed' = FALSE
      BY <1>1, <1>t DEF store_flag, PetersonType, GuardCounts
    <2> QED BY <2>0, <2>1, <2>2, <2>3 DEF PetersonInv
  <1>2. CASE load_flag(id)
    <2>1. PetersonType' /\ FlagsUp'
      BY <1>2, <1>t DEF load_flag, PetersonType, FlagsUp
    <2>2. TurnIsInside'
      BY <1>2, <1>t DEF load_flag, PetersonType, FlagsUp, TurnIsInside
    <2>3. GuardCounts' /\ failed' = FALSE
      BY <1>2, <1>t DEF load_flag, PetersonType, GuardCounts
    <2> QED BY <2>1, <2>2, <2>3 DEF PetersonInv
  <1>3. CASE load_turn(id)
    <2>1. PetersonType' /\ FlagsUp'
      BY <1>3, <1>t DEF load_turn, PetersonType, FlagsUp
    <2>2. TurnIsInside'
      BY <1>3, <1>t DEF load_turn, PetersonType, TurnIsInside
    <2>3. GuardCounts' /\ failed' = FALSE
      BY <1>3, <1>t DEF load_turn, PetersonType, GuardCounts
    <2> QED BY <2>1, <2>2, <2>3 DEF PetersonInv
  <1>4. CASE critical_test_enter(id)
    <2>1. PetersonType' /\ FlagsUp'
      BY <1>4, <1>t DEF critical_test_enter, PetersonType, FlagsUp
    <2>2. TurnIsInside'
      BY <1>4, <1>t DEF critical_test_enter, PetersonType, TurnIsInside
    <2>3. GUARD = 0
      BY <1>4, <1>t, <1>o DEF critical_test_enter, PetersonType, GuardCounts
    <2>4. GUARD' = 1 /\ at'[id] = "inside"
      BY <1>4, <1>t, <2>3 DEF critical_test_enter, PetersonType
    <2>5. GuardCounts'
      BY <2>4 DEF GuardCounts
    <2>6. failed' = FALSE
      BY <1>4, <1>t, <2>3 DEF critical_test_enter
    <2> QED BY <2>1, <2>2, <2>5, <2>6 DEF PetersonInv
  <1>5. CASE critical_test_claim(id)
    <2>1. PetersonType' /\ FlagsUp'
      BY <1>5, <1>t DEF critical_test_claim, PetersonType, FlagsUp
    <2>2. TurnIsInside'
      BY <1>5, <1>t DEF critical_test_claim, PetersonType, TurnIsInside
    <2>3. GuardCounts' /\ failed' = FALSE
      BY <1>5, <1>t DEF critical_test_claim, PetersonType, GuardCounts
    <2> QED BY <2>1, <2>2, <2>3 DEF PetersonInv
  <1>6. CASE critical_test_exit(id)
    <2>1. PetersonType' /\ FlagsUp'
      BY <1>6, <1>t DEF critical_test_exit, PetersonType, FlagsUp
    <2>2. TurnIsInside'
      BY <1>6, <1>t DEF critical_test_exit, PetersonType, TurnIsInside
    <2>3. GUARD = 1
      BY <1>6, <1>t DEF critical_test_exit, PetersonType, GuardCounts
    <2>4. /\ GUARD' = 0
          /\ \A t \in Threads : at'[t] \notin {"inside", "claimed"}
      BY <1>6, <1>t, <1>o, <2>3 DEF critical_test_exit, PetersonType
    <2>5. GuardCounts'
      BY <2>4 DEF GuardCounts
    <2>6. failed' = FALSE
      BY <1>6, <1>t, <2>3 DEF critical_test_exit
    <2> QED BY <2>1, <2>2, <2>5, <2>6 DEF PetersonInv
  <1>7. CASE peterson_exit_critical(id)
    <2>1. PetersonType' /\ FlagsUp'
      BY <1>7, <1>t DEF peterson_exit_critical, PetersonType, FlagsUp
    <2>2. TurnIsInside'
      BY <1>7, <1>t DEF peterson_exit_critical, PetersonType, TurnIsInside
    <2>3. GuardCounts' /\ failed' = FALSE
      BY <1>7, <1>t DEF peterson_exit_critical, PetersonType, GuardCounts
    <2> QED BY <2>1, <2>2, <2>3 DEF PetersonInv
  <1> QED
    BY <1>1, <1>2, <1>3, <1>4, <1>5, <1>6, <1>7 DEF PetersonStep

\* The two threads of peterson.rs are never both inside, and none of its
\* assertions fails, for any number of rounds.
THEOREM PetersonMutualExclusion == PetersonSpec => []PetersonExcludes
  <1>1. PetersonInv /\ [\E id \in Threads : PetersonStep(id)]_petersonVars
            => PetersonInv'
    <2> SUFFICES ASSUME PetersonInv,
                        [\E id \in Threads : PetersonStep(id)]_petersonVars
                 PROVE  PetersonInv'
      OBVIOUS
    <2>1. CASE \E id \in Threads : PetersonStep(id)
      BY <2>1, PetersonStepKeeps
    <2>2. CASE UNCHANGED petersonVars
      BY <2>2 DEF petersonVars, PetersonInv, PetersonType, FlagsUp,
                  TurnIsInside, GuardCounts
    <2> QED BY <2>1, <2>2
  <1>2. PetersonInv => PetersonExcludes
    BY OneInside DEF PetersonInv, PetersonExcludes
  <1> QED BY <1>1, <1>2, PetersonInitially, PTL DEF PetersonSpec

-----------------------------------------------------------------------------
(* The lock of Eisenberg and McGuire                                       *)

Entered == {"claimed", "critical", "next", "give", "out"}

EisenbergType ==
    /\ flag \in [Ids -> {"Out", "Want", "In"}]
    /\ turn \in Ids
    /\ where \in [Ids -> {"want", "turn", "scan", "check", "done"}
                         \cup Entered]
    /\ i \in [Ids -> Nat]
    /\ ring_id \in [Ids -> Nat]
    /\ conflict \in [Ids -> BOOLEAN]

\* A thread that has claimed is In until it leaves or tries again.
ClaimedIsIn ==
    \A a \in Ids : where[a] \in {"check"} \cup Entered => flag[a] = "In"

\* Thread a has claimed, and has looked at the flag of b since, and b was not
\* In.
Passed(a, b) ==
    \/ where[a] \in Entered
    \/ where[a] = "check" /\ conflict[a] = FALSE /\ b < i[a]

\* Of two threads, at most one has passed the other: whichever looked last
\* would have seen the other In.
OnePasses ==
    \A a, b \in Ids : a # b => ~(Passed(a, b) /\ Passed(b, a))

EisenbergInv == EisenbergType /\ ClaimedIsIn /\ OnePasses

LEMMA EisenbergInitially == EisenbergInit => EisenbergInv
  BY EisenbergAssumption
     DEF EisenbergInit, EisenbergInv, EisenbergType, ClaimedIsIn, OnePasses,
         Passed, Ids, Entered

\* The ring: an index modulo THREAD_NUM is a thread.
LEMMA RingIndex == \A n \in Nat : n % THREAD_NUM \in Ids
  BY EisenbergAssumption DEF Ids

\* A step that leaves the flags, the conflicts and the places as they are seen
\* by OnePasses keeps it: no thread passes another that it had not passed.
LEMMA NoneNewlyPasses ==
    ASSUME OnePasses,
           \A a, b \in Ids : a # b /\ Passed(a, b)' => Passed(a, b)
    PROVE  OnePasses'
  BY DEF OnePasses

\* The types, action by action.
LEMMA EisenbergTypeKept ==
    ASSUME EisenbergType, NEW id \in Ids, EisenbergStep(id)
    PROVE  EisenbergType'
  <1> USE DEF EisenbergType, Goto, SetFlag, Loop, NoLoop, Continue, Entered
  <1>i. id \in Nat /\ THREAD_NUM \in Nat /\ 0 \in Nat
    BY EisenbergAssumption DEF Ids
  <1>n. turn \in Nat /\ i[id] \in Nat
    BY DEF Ids
  <1>1. CASE want(id)
    BY <1>1 DEF want
  <1>2. CASE read_turn(id)
    <2>1. (IF id < turn THEN id + THREAD_NUM ELSE id) \in Nat
      BY <1>i
    <2> QED BY <1>2, <1>n, <2>1 DEF read_turn
  <1>3. CASE scan(id)
    BY <1>3, <1>i, <1>n DEF scan
  <1>4. CASE claim(id)
    <2>1. conflict' \in [Ids -> BOOLEAN]
      BY <1>4, Zenon DEF claim
    <2> QED BY <1>4, <1>i, <2>1 DEF claim
  <1>5. CASE check(id)
    <2>1. (conflict[id] \/ (i[id] # id /\ flag[i[id]] = "In")) \in BOOLEAN
      BY Zenon
    <2>2. conflict' \in [Ids -> BOOLEAN]
      BY <1>5, <2>1, Zenon DEF check
    <2> QED BY <1>5, <1>n, <2>2 DEF check
  <1>6. CASE claim_turn(id)
    BY <1>6 DEF claim_turn
  <1>7. CASE leave(id)
    BY <1>7, <1>i DEF leave
  <1>8. CASE find_next(id)
    BY <1>8, <1>n DEF find_next
  <1>9. CASE find_none(id)
    BY <1>9 DEF find_none
  <1>10. CASE give_turn(id)
    <2>1. i[id] % THREAD_NUM \in Ids
      BY <1>n, RingIndex
    <2> QED BY <1>10, <1>i, <2>1 DEF give_turn
  <1>11. CASE out(id)
    BY <1>11 DEF out
  <1> QED
    BY <1>1, <1>2, <1>3, <1>4, <1>5, <1>6, <1>7, <1>8, <1>9, <1>10, <1>11
       DEF EisenbergStep

\* A thread that has claimed stays In.
LEMMA ClaimedStaysIn ==
    ASSUME EisenbergType, ClaimedIsIn, NEW id \in Ids, EisenbergStep(id)
    PROVE  ClaimedIsIn'
  <1> USE DEF EisenbergType, ClaimedIsIn, Goto, SetFlag, Entered
  <1>1. CASE want(id)       BY <1>1 DEF want
  <1>2. CASE read_turn(id)  BY <1>2 DEF read_turn
  <1>3. CASE scan(id)       BY <1>3 DEF scan
  <1>4. CASE claim(id)      BY <1>4 DEF claim
  <1>5. CASE check(id)      BY <1>5 DEF check
  <1>6. CASE claim_turn(id) BY <1>6 DEF claim_turn
  <1>7. CASE leave(id)      BY <1>7 DEF leave
  <1>8. CASE find_next(id)  BY <1>8 DEF find_next
  <1>9. CASE find_none(id)  BY <1>9 DEF find_none
  <1>10. CASE give_turn(id) BY <1>10 DEF give_turn
  <1>11. CASE out(id)       BY <1>11 DEF out
  <1> QED
    BY <1>1, <1>2, <1>3, <1>4, <1>5, <1>6, <1>7, <1>8, <1>9, <1>10, <1>11
       DEF EisenbergStep

\* Only check lets a thread pass another one, and that one was not In.
LEMMA OnePassesKept ==
    ASSUME EisenbergInv, NEW id \in Ids, EisenbergStep(id)
    PROVE  OnePasses'
  <1> USE DEF EisenbergInv, EisenbergType, Goto, SetFlag, Loop, NoLoop,
              Continue, Entered
  <1> DEFINE Same == \A a, b \in Ids : a # b /\ Passed(a, b)' => Passed(a, b)
  <1>1. CASE want(id)
    <2> Same BY <1>1 DEF want, Passed
    <2> QED BY NoneNewlyPasses
  <1>2. CASE read_turn(id)
    <2> Same BY <1>2 DEF read_turn, Passed
    <2> QED BY NoneNewlyPasses
  <1>3. CASE scan(id)
    <2> Same BY <1>3 DEF scan, Passed
    <2> QED BY NoneNewlyPasses
  <1>4. CASE claim(id)
    <2>1. CASE where[id] = "scan"
      <3>1. /\ where'[id] = "check" /\ i'[id] = 0
            /\ \A a \in Ids : a # id => /\ where'[a] = where[a]
                                       /\ i'[a] = i[a]
                                       /\ conflict'[a] = conflict[a]
        BY <1>4, <2>1 DEF claim
      <3>2. \A b \in Ids : ~Passed(id, b)'
        BY <3>1, EisenbergAssumption DEF Passed, Ids
      <3>3. Same
        BY <3>1, <3>2 DEF Passed
      <3> QED BY <3>3, NoneNewlyPasses
    <2>2. CASE where[id] = "check"
      <3>1. /\ conflict' = conflict
            /\ i[id] = THREAD_NUM
            /\ \A a \in Ids : a # id => where'[a] = where[a] /\ i'[a] = i[a]
            /\ where'[id] = IF conflict[id] THEN "want" ELSE "claimed"
        BY <1>4, <2>2 DEF claim
      <3>2. \A b \in Ids : Passed(id, b)' => Passed(id, b)
        BY <2>2, <3>1, EisenbergAssumption DEF Passed, Ids
      <3>3. Same
        BY <3>1, <3>2 DEF Passed
      <3> QED BY <3>3, NoneNewlyPasses
    <2> QED BY <1>4, <2>1, <2>2 DEF claim
  <1>5. CASE check(id)
    <2>1. \A a, b \in Ids : a # id => (Passed(a, b)' <=> Passed(a, b))
      BY <1>5 DEF check, Passed
    <2>2. \A b \in Ids : Passed(id, b)' => Passed(id, b) \/ b = i[id]
      BY <1>5 DEF check, Passed, Ids
    <2>3. ASSUME NEW b \in Ids, b # id, b = i[id], Passed(id, b)'
          PROVE  ~Passed(b, id)
      <3>1. flag[b] # "In"
        BY <1>5, <2>3 DEF check, Passed
      <3> QED BY <3>1 DEF ClaimedIsIn, Passed
    <2> QED BY <2>1, <2>2, <2>3 DEF OnePasses
  <1>6. CASE claim_turn(id)
    <2> Same BY <1>6 DEF claim_turn, Passed
    <2> QED BY NoneNewlyPasses
  <1>7. CASE leave(id)
    <2> Same BY <1>7 DEF leave, Passed
    <2> QED BY NoneNewlyPasses
  <1>8. CASE find_next(id)
    <2> Same BY <1>8 DEF find_next, Passed
    <2> QED BY NoneNewlyPasses
  <1>9. CASE find_none(id)
    <2> Same BY <1>9 DEF find_none, Passed
    <2> QED BY NoneNewlyPasses
  <1>10. CASE give_turn(id)
    <2> Same BY <1>10 DEF give_turn, Passed
    <2> QED BY NoneNewlyPasses
  <1>11. CASE out(id)
    <2> Same BY <1>11 DEF out, Passed
    <2> QED BY NoneNewlyPasses
  <1> QED
    BY <1>1, <1>2, <1>3, <1>4, <1>5, <1>6, <1>7, <1>8, <1>9, <1>10, <1>11
       DEF EisenbergStep

\* The lock of eisenberg.rs excludes for every number of threads and of rounds,
\* without the test of the turn that the original algorithm has.
THEOREM EisenbergMutualExclusion == EisenbergSpec => []EisenbergExcludes
  <1>1. EisenbergInv /\ [\E id \in Ids : EisenbergStep(id)]_eisenbergVars
            => EisenbergInv'
    <2> SUFFICES ASSUME EisenbergInv,
                        [\E id \in Ids : EisenbergStep(id)]_eisenbergVars
                 PROVE  EisenbergInv'
      OBVIOUS
    <2>1. CASE \E id \in Ids : EisenbergStep(id)
      BY <2>1, EisenbergTypeKept, ClaimedStaysIn, OnePassesKept
         DEF EisenbergInv
    <2>2. CASE UNCHANGED eisenbergVars
      BY <2>2 DEF eisenbergVars, EisenbergInv, EisenbergType, ClaimedIsIn,
                  OnePasses, Passed
    <2> QED BY <2>1, <2>2
  <1>2. EisenbergInv => EisenbergExcludes
    BY DEF EisenbergInv, OnePasses, Passed, EisenbergExcludes, Inside, Entered
  <1> QED BY <1>1, <1>2, EisenbergInitially, PTL DEF EisenbergSpec

-----------------------------------------------------------------------------
(* The executor of futures                                                 *)

\* How often each future has been polled.
Polled == [f \in 1..Futures |-> awaits[f] + IF f \in halted THEN 1 ELSE 0]

ExecutorType ==
    /\ tasks \in Seq(1..Futures)
    /\ IsInjective(tasks)
    /\ halted \subseteq Range(tasks)
    /\ awaits \in [1..Futures -> 0..Awaits]
    /\ \A f \in Range(tasks) : /\ Polled[f] <= Awaits
                               /\ f \notin halted => awaits[f] = 0
    /\ \A f \in (1..Futures) \ Range(tasks) : awaits[f] = Awaits

\* A queue is a round: whoever is behind was polled as often, or once more.
IsRound(q, p) ==
    \A k, j \in DOMAIN q :
        k < j => p[q[k]] <= p[q[j]] /\ p[q[j]] <= p[q[k]] + 1

\* A future ends only in the round in which all others do.
EndTogether ==
    (1..Futures) \ Range(tasks) # {} => \A f \in Range(tasks) : Polled[f] = Awaits

ExecutorInv == ExecutorType /\ IsRound(tasks, Polled) /\ EndTogether

LEMMA ExecutorInitially == CoroutineInit => ExecutorInv
<1> SUFFICES ASSUME CoroutineInit PROVE ExecutorInv
  OBVIOUS
<1>1. Futures \in Nat
  BY CoroutineAssumption
<1>2. /\ tasks = [f \in 1..Futures |-> f] /\ halted = {}
      /\ awaits = [f \in 1..Futures |-> 0]
  BY DEF CoroutineInit
<1>3. tasks \in Seq(1..Futures) /\ DOMAIN tasks = 1..Futures
  BY <1>1, <1>2
<1>4. Range(tasks) = 1..Futures /\ IsInjective(tasks)
  BY <1>2, <1>3 DEF Range, IsInjective
<1>5. Polled = [f \in 1..Futures |-> 0]
  BY <1>2 DEF Polled
<1> QED  BY <1>1, <1>2, <1>3, <1>4, <1>5
         DEF ExecutorInv, ExecutorType, IsRound, EndTogether, Awaits

\* The first one is polled and goes to the back.
LEMMA RoundGoesOn ==
    ASSUME NEW S, NEW q \in Seq(S), q # <<>>, IsInjective(q),
           NEW p \in [S -> Nat], IsRound(q, p)
    PROVE  IsRound(Append(Tail(q), Head(q)), [p EXCEPT ![q[1]] = @ + 1])
<1> DEFINE r == Append(Tail(q), Head(q))
           n == Len(q)
           m == [p EXCEPT ![q[1]] = @ + 1]
<1>1. /\ r \in Seq(S) /\ Len(r) = n
      /\ \A k \in 1..(n - 1) : r[k] = q[k + 1]
      /\ r[n] = q[1]
  BY RotateFacts
<1>2. n \in Nat \ {0} /\ DOMAIN q = 1..n /\ DOMAIN r = 1..n
  BY <1>1, EmptySeq, LenProperties
<1>3. \A k \in 1..n : q[k] \in S
  BY ElementOfSeq
<1>4. \A k \in 1..n : p[q[k]] \in Nat
  BY <1>3
<1>5. \A k \in 2..n : q[k] # q[1]
  BY <1>2 DEF IsInjective
<1>6. m[q[1]] = p[q[1]] + 1 /\ \A k \in 2..n : m[q[k]] = p[q[k]]
  BY <1>2, <1>3, <1>5
<1> DEFINE a == [k \in 1..n |-> p[q[k]]]
           b == [k \in 1..n |-> m[r[k]]]
<1>7. /\ a \in [1..n -> Nat]
      /\ \A k, j \in 1..n : k < j => a[k] <= a[j] /\ a[j] <= a[k] + 1
  BY <1>2, <1>4 DEF IsRound
<1> HIDE DEF r, m
<1>8. /\ b[n] = a[1] + 1
      /\ \A k \in 1..(n - 1) : b[k] = a[k + 1]
  <2>1. 1 \in 1..n /\ n \in 1..n
    BY <1>2
  <2>2. b[n] = a[1] + 1
    BY <1>1, <1>6, <2>1
  <2>3. ASSUME NEW k \in 1..(n - 1) PROVE b[k] = a[k + 1]
    <3>1. k \in 1..n /\ k + 1 \in 2..n /\ k + 1 \in 1..n
      BY <1>2
    <3>2. m[r[k]] = p[q[k + 1]]
      BY <1>1, <1>6, <3>1
    <3> QED  BY <3>1, <3>2
  <2> QED  BY <2>2, <2>3
<1>9. \A k \in 1..n : b[k] = m[r[k]]
  OBVIOUS
<1> HIDE DEF a, b, n
<1>10. ASSUME NEW k \in 1..n, NEW j \in 1..n, k < j
       PROVE  b[k] <= b[j] /\ b[j] <= b[k] + 1
  <2>1. k \in 1..(n - 1) /\ k + 1 \in 1..n /\ 1 \in 1..n
    BY <1>2, <1>10
  <2>2. b[k] = a[k + 1] /\ a[1] \in Nat /\ a[k + 1] \in Nat
    BY <1>7, <1>8, <2>1
  <2>3. CASE j = n
    <3>1. a[1] <= a[k + 1] /\ a[k + 1] <= a[1] + 1
      BY <1>7, <2>1
    <3> QED  BY <1>8, <2>2, <2>3, <3>1
  <2>4. CASE j # n
    <3>1. j \in 1..(n - 1) /\ j + 1 \in 1..n /\ k + 1 < j + 1
      BY <1>2, <1>10, <2>4
    <3>2. b[j] = a[j + 1]
      BY <1>8, <3>1
    <3> QED  BY <1>7, <2>1, <2>2, <3>1, <3>2
  <2> QED  BY <2>3, <2>4
<1>11. IsRound(r, m)
  BY SMTT(30), <1>2, <1>9, <1>10 DEF IsRound
<1> QED  BY <1>11 DEF r, m

\* The first one is done and goes.
LEMMA RoundShrinks ==
    ASSUME NEW S, NEW q \in Seq(S), q # <<>>, NEW p, NEW m, IsRound(q, p),
           \A f \in Range(Tail(q)) : m[f] = p[f]
    PROVE  IsRound(Tail(q), m)
<1> DEFINE r == Tail(q)
           n == Len(q)
<1>1. r \in Seq(S) /\ Len(r) = n - 1 /\ \A k \in 1..(n - 1) : r[k] = q[k + 1]
  BY HeadTailProperties
<1>2. n \in Nat \ {0} /\ DOMAIN q = 1..n /\ DOMAIN r = 1..(n - 1)
  BY <1>1, EmptySeq, LenProperties
<1> HIDE DEF r, n
<1>3. ASSUME NEW k \in 1..(n - 1)
      PROVE  k + 1 \in 1..n /\ m[r[k]] = p[q[k + 1]]
  BY <1>1, <1>2 DEF Range, r
<1>4. ASSUME NEW k \in 1..(n - 1), NEW j \in 1..(n - 1), k < j
      PROVE  m[r[k]] <= m[r[j]] /\ m[r[j]] <= m[r[k]] + 1
  <2>1. /\ k + 1 \in DOMAIN q /\ j + 1 \in DOMAIN q /\ k + 1 < j + 1
        /\ m[r[k]] = p[q[k + 1]] /\ m[r[j]] = p[q[j + 1]]
    BY <1>2, <1>3, <1>4
  <2> QED  BY <2>1 DEF IsRound
<1> QED  BY <1>2, <1>4 DEF IsRound, r

\* The invariant, with what it says of the queue and its head.
LEMMA ExecutorFacts ==
    ASSUME ExecutorInv
    PROVE  /\ tasks \in Seq(1..Futures) /\ IsInjective(tasks)
           /\ Range(tasks) \subseteq 1..Futures /\ halted \subseteq Range(tasks)
           /\ awaits \in [1..Futures -> 0..2]
           /\ Polled \in [1..Futures -> Nat]
           /\ \A f \in 1..Futures :
                 Polled[f] = awaits[f] + IF f \in halted THEN 1 ELSE 0
           /\ \A f \in Range(tasks) : /\ Polled[f] <= 2
                                      /\ f \notin halted => awaits[f] = 0
           /\ \A f \in (1..Futures) \ Range(tasks) : awaits[f] = 2
           /\ tasks # <<>> => /\ Head(tasks) = tasks[1]
                              /\ Head(tasks) \in Range(tasks)
                              /\ Head(tasks) \in 1..Futures
<1>1. /\ tasks \in Seq(1..Futures) /\ IsInjective(tasks)
      /\ halted \subseteq Range(tasks)
      /\ awaits \in [1..Futures -> 0..2]
      /\ \A f \in Range(tasks) : /\ Polled[f] <= 2
                                 /\ f \notin halted => awaits[f] = 0
      /\ \A f \in (1..Futures) \ Range(tasks) : awaits[f] = 2
  BY DEF ExecutorInv, ExecutorType, Awaits
<1>2. Range(tasks) \subseteq 1..Futures
  <2>1. \A k \in DOMAIN tasks : tasks[k] \in 1..Futures
    BY ZenonT(60), <1>1, ElementOfSeq, LenProperties
  <2> QED  BY <2>1 DEF Range
<1>3. /\ Polled \in [1..Futures -> Nat]
      /\ \A f \in 1..Futures :
            Polled[f] = awaits[f] + IF f \in halted THEN 1 ELSE 0
  <2>1. awaits \in [1..Futures -> Nat]
    BY <1>1
  <2> QED  BY <2>1 DEF Polled
<1>4. ASSUME tasks # <<>>
      PROVE  Head(tasks) = tasks[1] /\ Head(tasks) \in Range(tasks)
  BY <1>1, <1>4, TailFacts, HeadTailProperties
<1> QED  BY <1>1, <1>2, <1>3, <1>4

LEMMA PollFirstKeeps == ExecutorInv /\ poll_first => ExecutorInv'
<1> SUFFICES ASSUME ExecutorInv, poll_first PROVE ExecutorInv'
  OBVIOUS
<1> DEFINE f == Head(tasks)
<1>1. /\ tasks # <<>> /\ f \notin halted
      /\ halted' = halted \cup {f} /\ awaits' = awaits
      /\ tasks' = Append(Tail(tasks), Head(tasks))
  BY DEF poll_first, PushBack
<1>2. f = tasks[1] /\ f \in Range(tasks) /\ f \in 1..Futures
  BY <1>1, ExecutorFacts
<1>3. /\ tasks' \in Seq(1..Futures) /\ IsInjective(tasks')
      /\ Range(tasks') = Range(tasks)
  BY <1>1, ExecutorFacts, RotateFacts
<1>4. awaits[f] = 0 /\ Polled[f] = 0
  BY <1>1, <1>2, ExecutorFacts
<1>5. Polled' = [Polled EXCEPT ![f] = @ + 1]
  <2>1. \A g \in 1..Futures :
           awaits[g] + (IF g \in halted' THEN 1 ELSE 0) =
              IF g = f THEN Polled[g] + 1 ELSE Polled[g]
    BY <1>1, <1>4, ExecutorFacts
  <2> QED  BY <1>1, <2>1 DEF Polled
<1>6. IsRound(tasks', Polled')
  BY <1>1, <1>2, <1>5, ExecutorFacts, RoundGoesOn DEF ExecutorInv
<1> HIDE DEF f
<1>7. \A g \in Range(tasks) : /\ Polled'[g] <= 2
                              /\ g \notin halted' => awaits'[g] = 0
  BY <1>1, <1>2, <1>4, <1>5, ExecutorFacts
<1>8. ExecutorType'
  BY <1>1, <1>2, <1>3, <1>7, ExecutorFacts DEF ExecutorType, Awaits
<1>9. EndTogether'
  BY <1>2, <1>3, <1>4 DEF ExecutorInv, EndTogether, Awaits
<1> QED  BY <1>6, <1>8, <1>9 DEF ExecutorInv

LEMMA PollAgainKeeps == ExecutorInv /\ poll_again => ExecutorInv'
<1> SUFFICES ASSUME ExecutorInv, poll_again PROVE ExecutorInv'
  OBVIOUS
<1> DEFINE f == Head(tasks)
<1>1. /\ tasks # <<>> /\ f \in halted
      /\ awaits' = [awaits EXCEPT ![f] = @ + 1]
      /\ \/ /\ awaits[f] + 1 = 2
            /\ halted' = halted \ {f} /\ tasks' = Tail(tasks)
         \/ /\ awaits[f] + 1 # 2
            /\ tasks' = Append(Tail(tasks), Head(tasks)) /\ halted' = halted
  BY DEF poll_again, PushBack, Awaits
<1>2. f = tasks[1] /\ f \in Range(tasks) /\ f \in 1..Futures
  BY <1>1, ExecutorFacts
<1>3. awaits[f] \in {0, 1} /\ Polled[f] = awaits[f] + 1
  BY <1>1, <1>2, ExecutorFacts
<1>4. /\ awaits' \in [1..Futures -> 0..2] /\ awaits'[f] = awaits[f] + 1
      /\ \A g \in 1..Futures : g # f => awaits'[g] = awaits[g]
  BY <1>1, <1>2, <1>3, ExecutorFacts
<1>5. CASE awaits[f] = 0
  <2>1. tasks' = Append(Tail(tasks), Head(tasks)) /\ halted' = halted
    BY <1>1, <1>5
  <2>2. /\ tasks' \in Seq(1..Futures) /\ IsInjective(tasks')
        /\ Range(tasks') = Range(tasks)
    BY <1>1, <2>1, ExecutorFacts, RotateFacts
  <2>3. Polled' = [Polled EXCEPT ![f] = @ + 1]
    <3>1. \A g \in 1..Futures :
             awaits'[g] + (IF g \in halted THEN 1 ELSE 0) =
                IF g = f THEN Polled[g] + 1 ELSE Polled[g]
      BY <1>1, <1>3, <1>4, ExecutorFacts
    <3> QED  BY <2>1, <3>1 DEF Polled
  <2>4. IsRound(tasks', Polled')
    BY <1>1, <1>2, <2>1, <2>3, ExecutorFacts, RoundGoesOn DEF ExecutorInv
  <2> HIDE DEF f
  <2>5. \A g \in Range(tasks) : /\ Polled'[g] <= 2
                                /\ g \notin halted' => awaits'[g] = 0
    BY <1>1, <1>2, <1>3, <1>4, <1>5, <2>1, <2>3, ExecutorFacts
  <2>6. ExecutorType'
    BY <1>2, <1>4, <2>1, <2>2, <2>5, ExecutorFacts DEF ExecutorType, Awaits
  <2>7. EndTogether'
    BY <1>2, <1>3, <1>5, <2>2 DEF ExecutorInv, EndTogether, Awaits
  <2> QED  BY <2>4, <2>6, <2>7 DEF ExecutorInv
<1>6. CASE awaits[f] = 1
  <2>1. halted' = halted \ {f} /\ tasks' = Tail(tasks)
    BY <1>1, <1>6
  <2>2. /\ tasks' \in Seq(1..Futures) /\ IsInjective(tasks')
        /\ Range(tasks) = Range(tasks') \cup {f} /\ f \notin Range(tasks')
    BY <1>1, <2>1, ExecutorFacts, TailFacts
  <2> HIDE DEF f
  <2>3. \A g \in Range(tasks') : g \in 1..Futures /\ Polled'[g] = Polled[g]
    BY <1>4, <2>1, <2>2, ExecutorFacts DEF Polled
  <2>4. IsRound(tasks', Polled')
    BY <1>1, <2>1, <2>3, ExecutorFacts, RoundShrinks DEF ExecutorInv
  <2>5. ExecutorType'
    <3>1. \A g \in Range(tasks') : /\ Polled'[g] <= 2
                                   /\ g \notin halted' => awaits'[g] = 0
      BY <1>4, <2>1, <2>2, <2>3, ExecutorFacts
    <3>2. \A g \in (1..Futures) \ Range(tasks') : awaits'[g] = 2
      BY <1>4, <1>6, <2>2, ExecutorFacts
    <3>3. halted' \subseteq Range(tasks')
      BY <2>1, <2>2, ExecutorFacts
    <3> QED  BY <1>4, <2>2, <3>1, <3>2, <3>3 DEF ExecutorType, Awaits
  <2>6. ASSUME NEW g \in Range(tasks') PROVE Polled'[g] = 2
    <3>1. g \in Range(tasks) /\ g # f /\ Polled'[g] = Polled[g]
      BY <2>2, <2>3
    <3>2. PICK k \in DOMAIN tasks : g = tasks[k]
      BY <3>1 DEF Range
    <3>3. k \in Nat /\ 1 < k /\ 1 \in DOMAIN tasks
      BY <1>2, <3>1, <3>2, ExecutorFacts, LenProperties
    <3>4. Polled[f] <= Polled[g]
      BY <1>2, <3>2, <3>3 DEF ExecutorInv, IsRound
    <3>5. Polled[g] <= 2 /\ Polled[g] \in Nat
      BY <3>1, ExecutorFacts
    <3> QED  BY <1>3, <1>6, <3>1, <3>4, <3>5
  <2> QED  BY <2>4, <2>5, <2>6 DEF ExecutorInv, EndTogether, Awaits
<1> QED  BY <1>3, <1>5, <1>6

\* Whoever has come back from an await twice has ended, and the others are in
\* their last round.
LEMMA ExecutorInvIsFair == ExecutorInv => ExecutorIsFair
<1> SUFFICES ASSUME ExecutorInv, NEW f \in 1..Futures, NEW g \in 1..Futures
             PROVE  awaits[f] - awaits[g] <= 1
  BY DEF ExecutorIsFair
<1>1. /\ awaits[f] \in 0..2 /\ awaits[g] \in 0..2
      /\ Polled[f] = awaits[f] + IF f \in halted THEN 1 ELSE 0
      /\ Polled[g] = awaits[g] + IF g \in halted THEN 1 ELSE 0
  BY ExecutorFacts
<1>2. CASE g \notin Range(tasks)
  BY <1>1, <1>2, ExecutorFacts
<1>3. CASE g \in Range(tasks) /\ f \notin Range(tasks)
  <2>1. Polled[g] = 2
    BY <1>3 DEF ExecutorInv, EndTogether, Awaits
  <2> QED  BY <1>1, <2>1
<1>4. CASE f \in Range(tasks)
  <2>1. awaits[f] <= 1
    BY <1>1, <1>4, ExecutorFacts
  <2> QED  BY <1>1, <2>1
<1> QED  BY <1>2, <1>3, <1>4

-----------------------------------------------------------------------------
(* The runtime of tasks with stacks                                        *)

TaskStates == {"Available", "Ready", "Running"}

RuntimeType ==
    /\ state \in [Slots -> TaskStates]
    /\ current \in Slots
    /\ finished \in BOOLEAN
    /\ spawned \in 0..Len(Yields)
    /\ to_yield \in [Slots -> Nat]
    /\ yielded \in [Slots -> Nat]

\* The current task is the one that runs, and the base task is never done.
OneRuns ==
    /\ \A k \in Slots : state[k] = "Running" <=> k = current
    /\ state[0] # "Available"

\* A place that is free has nothing left to do, nor has the base task.
DoneIsDone ==
    \A k \in Slots : state[k] = "Available" \/ k = 0 => to_yield[k] = 0

\* main spawns its tasks, one place after another, before it runs them.
SpawnFirst ==
    spawned < Len(Yields) =>
        /\ current = 0 /\ ~finished
        /\ \A k \in Slots : yielded[k] = 0 /\ (k > spawned => state[k] = "Available")

\* The tasks before the current one have yielded in this round.
Turn(k, c) == IF k < c THEN 1 ELSE 0
TaskRounds(s, c, y) ==
    \A k, j \in Slots \ {0} :
        s[k] # "Available" /\ s[j] # "Available"
            => y[k] - Turn(k, c) = y[j] - Turn(j, c)

\* run() has returned.
AllDone ==
    finished => /\ current = 0
                /\ spawned = Len(Yields)
                /\ \A k \in Slots \ {0} : state[k] = "Available"

RuntimeInv ==
    /\ RuntimeType
    /\ OneRuns
    /\ DoneIsDone
    /\ SpawnFirst
    /\ TaskRounds(state, current, yielded)
    /\ AllDone

LEMMA SlotsFacts ==
    /\ Slots \subseteq Nat /\ 0 \in Slots
    /\ MAX_TASKS \in Nat \ {0} /\ Len(Yields) \in Nat
    /\ \A k \in Nat : k < MAX_TASKS => k \in Slots
    /\ \A k \in 1..Len(Yields) : Yields[k] \in Nat /\ k \in Slots
<1>1. Len(Yields) \in Nat /\ \A k \in 1..Len(Yields) : Yields[k] \in Nat
  BY CoroutineAssumption, LenProperties, ElementOfSeq
<1> QED  BY <1>1, CoroutineAssumption DEF Slots

LEMMA RuntimeInitially == CoroutineInit => RuntimeInv
<1> SUFFICES ASSUME CoroutineInit PROVE RuntimeInv
  OBVIOUS
<1>1. /\ state = [k \in Slots |-> IF k = 0 THEN "Running" ELSE "Available"]
      /\ current = 0 /\ finished = FALSE /\ spawned = 0
      /\ to_yield = [k \in Slots |-> 0] /\ yielded = [k \in Slots |-> 0]
  BY DEF CoroutineInit
<1>2. RuntimeType
  BY SMTT(30), <1>1, SlotsFacts DEF RuntimeType, TaskStates
<1>3. OneRuns /\ DoneIsDone /\ AllDone
  BY <1>1, SlotsFacts DEF OneRuns, DoneIsDone, AllDone
<1>4. SpawnFirst
  BY <1>1, SlotsFacts DEF SpawnFirst
<1>5. TaskRounds(state, current, yielded)
  BY <1>1 DEF TaskRounds
<1> QED  BY <1>2, <1>3, <1>4, <1>5 DEF RuntimeInv

\* Going round from a place: d places further.
LEMMA Around ==
    ASSUME NEW a \in Slots, NEW d \in Slots
    PROVE  /\ (a + d) % MAX_TASKS \in Slots
           /\ (a + d) % MAX_TASKS = IF a + d < MAX_TASKS THEN a + d
                                    ELSE a + d - MAX_TASKS
<1>1. MAX_TASKS \in Nat \ {0} /\ a \in 0..(MAX_TASKS - 1) /\ d \in 0..(MAX_TASKS - 1)
  BY CoroutineAssumption DEF Slots
<1> DEFINE b == a + d
<1>2. b \in 0..(2 * MAX_TASKS - 2)
  BY <1>1
<1> HIDE DEF b
<1>3. b < MAX_TASKS => b % MAX_TASKS = b
  BY <1>1, <1>2
<1>4. b >= MAX_TASKS => b % MAX_TASKS = b - MAX_TASKS
  BY <1>1, <1>2
<1>5. b < MAX_TASKS \/ b >= MAX_TASKS
  BY <1>1, <1>2
<1>6. b >= MAX_TASKS => b - MAX_TASKS \in 0..(MAX_TASKS - 1)
  BY <1>1, <1>2
<1>7. b < MAX_TASKS => b \in 0..(MAX_TASKS - 1)
  BY <1>1, <1>2
<1> QED  BY <1>1, <1>2, <1>3, <1>4, <1>5, <1>6, <1>7 DEF b, Slots

\* t_yield finds the next place that is Ready, and finds one if there is one.
LEMMA NextReadyFacts ==
    ASSUME NEW s \in [Slots -> TaskStates], current \in Slots,
           s[current] # "Ready"
    PROVE  /\ NextReady(s) = {} => \A k \in Slots : s[k] # "Ready"
           /\ \A pos \in NextReady(s) :
                 /\ pos \in Slots /\ s[pos] = "Ready" /\ pos # current
                 /\ pos > current =>
                       \A k \in Slots : current < k /\ k < pos => s[k] # "Ready"
                 /\ pos < current =>
                       \A k \in Slots : current < k \/ k < pos => s[k] # "Ready"
<1> DEFINE ready == {d \in Slots : s[(current + d) % MAX_TASKS] = "Ready"}
<1>1. /\ Slots \subseteq Nat /\ MAX_TASKS \in Nat \ {0} /\ current \in Nat
      /\ \A k \in Slots : k < MAX_TASKS
      /\ \A k \in Nat : k < MAX_TASKS => k \in Slots
  BY SlotsFacts DEF Slots
\* where each place is, seen from the current one
<1>2. ASSUME NEW k \in Slots, s[k] = "Ready"
      PROVE  /\ k # current
             /\ k > current => k - current \in ready
             /\ k < current => k - current + MAX_TASKS \in ready
  <2>1. CASE k > current
    <3>1. k - current \in Slots /\ current + (k - current) = k
      BY <1>1, <2>1
    <3>2. (current + (k - current)) % MAX_TASKS = k
      BY <1>1, <3>1, Around
    <3> QED  BY <1>2, <2>1, <3>1, <3>2, <1>1
  <2>2. CASE k < current
    <3>1. /\ k - current + MAX_TASKS \in Slots
          /\ current + (k - current + MAX_TASKS) = k + MAX_TASKS
      BY <1>1, <2>2
    <3>2. ~(current + (k - current + MAX_TASKS) < MAX_TASKS)
      BY <1>1
    <3>3. (current + (k - current + MAX_TASKS)) % MAX_TASKS
             = current + (k - current + MAX_TASKS) - MAX_TASKS
      BY <3>1, <3>2, Around
    <3>4. (current + (k - current + MAX_TASKS)) % MAX_TASKS = k
      BY <1>1, <3>1, <3>3
    <3> QED  BY <1>2, <2>2, <3>1, <3>4, <1>1
  <2> QED  BY <1>1, <1>2, <2>1, <2>2
<1> HIDE DEF ready
<1>3. ASSUME ready = {} PROVE \A k \in Slots : s[k] # "Ready"
  <2>1. \A k \in Slots : k > current \/ k < current \/ k = current
    BY <1>1
  <2> QED  BY <1>2, <1>3, <2>1
<1>4. NextReady(s) = IF ready = {} THEN {}
                     ELSE {(current + Min(ready)) % MAX_TASKS}
  BY DEF NextReady, ready
<1>5. ASSUME NEW d0 \in ready, \A d \in ready : d0 <= d,
             NEW pos, pos = (current + d0) % MAX_TASKS
      PROVE  /\ pos \in Slots /\ s[pos] = "Ready" /\ pos # current
             /\ pos > current =>
                   \A k \in Slots : current < k /\ k < pos => s[k] # "Ready"
             /\ pos < current =>
                   \A k \in Slots : current < k \/ k < pos => s[k] # "Ready"
  <2>1. d0 \in Slots /\ s[pos] = "Ready" /\ d0 \in Nat
    BY <1>1, <1>5 DEF ready
  <2>2. /\ pos \in Slots
        /\ pos = IF current + d0 < MAX_TASKS THEN current + d0
                 ELSE current + d0 - MAX_TASKS
    BY <1>5, <2>1, Around
  <2>3. pos # current
    BY <2>1
  <2>4. ASSUME pos > current, NEW k \in Slots, current < k, k < pos
        PROVE  s[k] # "Ready"
    <3> SUFFICES ASSUME s[k] = "Ready" PROVE FALSE
      OBVIOUS
    <3>1. k - current \in ready
      BY <1>1, <1>2, <2>4
    <3>2. d0 <= k - current
      BY <1>5, <3>1
    <3> QED  BY <1>1, <2>1, <2>2, <2>4, <3>2
  <2>5. ASSUME pos < current, NEW k \in Slots, current < k \/ k < pos
        PROVE  s[k] # "Ready"
    <3> SUFFICES ASSUME s[k] = "Ready" PROVE FALSE
      OBVIOUS
    <3>1. CASE current < k
      <4>1. d0 <= k - current
        BY <1>1, <1>2, <1>5, <3>1
      <4> QED  BY <1>1, <2>1, <2>2, <2>5, <3>1, <4>1
    <3>2. CASE k < pos
      <4>1. d0 <= k - current + MAX_TASKS
        BY <1>1, <1>2, <1>5, <2>2, <2>5, <3>2
      <4> QED  BY <1>1, <2>1, <2>2, <2>5, <3>2, <4>1
    <3> QED  BY <2>5, <3>1, <3>2
  <2> QED  BY <2>1, <2>2, <2>3, <2>4, <2>5
<1>6. ASSUME ready # {}
      PROVE  Min(ready) \in ready /\ \A d \in ready : Min(ready) <= d
  <2>1. ready \in SUBSET Nat
    BY <1>1 DEF ready
  <2>2. \E d \in ready : \A e \in ready : d <= e
    BY <1>6, <2>1, LeastNatural
  <2> QED  BY <2>2 DEF Min
<1>7. CASE ready = {}
  BY <1>3, <1>4, <1>7
<1>8. CASE ready # {}
  <2>1. NextReady(s) = {(current + Min(ready)) % MAX_TASKS}
    BY <1>4, <1>8
  <2> QED  BY <1>5, <1>6, <1>8, <2>1
<1> QED  BY <1>7, <1>8

\* t_yield goes to the next place that is not free, which is the base task when
\* there is none behind the current one; only the base task can find none.
LEMMA YieldMoves ==
    ASSUME NEW s \in [Slots -> TaskStates], current \in Slots,
           s[current] # "Ready", s[0] # "Available",
           \A k \in Slots : s[k] = "Running" => k = current,
           t_yield(s)
    PROVE  \/ /\ current = 0 /\ \A k \in Slots \ {0} : s[k] = "Available"
              /\ state' = s /\ current' = current /\ finished' = TRUE
           \/ /\ current' \in Slots /\ current' # current
              /\ finished' = finished
              /\ state' \in [Slots -> TaskStates]
              /\ s[current'] = "Ready"
              /\ \A k \in Slots : state'[k] =
                    IF k = current' THEN "Running"
                    ELSE IF k = current /\ s[k] # "Available" THEN "Ready"
                    ELSE s[k]
              /\ \/ /\ current' > current
                    /\ \A k \in Slots : current < k /\ k < current'
                                            => s[k] = "Available"
                 \/ /\ current' = 0 /\ current > 0
                    /\ \A k \in Slots : current < k => s[k] = "Available"
<1>1. Slots \subseteq Nat /\ 0 \in Slots /\ current \in Nat
  BY SlotsFacts
<1>2. \A k \in Slots : k # current /\ s[k] # "Ready" => s[k] = "Available"
  BY DEF TaskStates
<1>3. CASE NextReady(s) = {}
  <2>1. \A k \in Slots : s[k] # "Ready"
    BY <1>3, NextReadyFacts
  <2>2. current = 0
    BY <1>1, <1>2, <2>1
  <2>3. state' = s /\ current' = current /\ finished' = TRUE
    BY <1>3, <2>2 DEF t_yield
  <2> QED  BY <1>2, <2>1, <2>2, <2>3
<1>4. CASE NextReady(s) # {}
  <2>1. PICK pos \in NextReady(s) :
           /\ state' = [s EXCEPT
                 ![current] = IF @ = "Available" THEN @ ELSE "Ready",
                 ![pos] = "Running"]
           /\ current' = pos /\ finished' = finished
    BY <1>4 DEF t_yield
  <2>2. /\ pos \in Slots /\ s[pos] = "Ready" /\ pos # current
        /\ pos > current =>
              \A k \in Slots : current < k /\ k < pos => s[k] # "Ready"
        /\ pos < current =>
              \A k \in Slots : current < k \/ k < pos => s[k] # "Ready"
    BY NextReadyFacts
  <2>3. /\ state' \in [Slots -> TaskStates]
        /\ \A k \in Slots : state'[k] =
              IF k = pos THEN "Running"
              ELSE IF k = current /\ s[k] # "Available" THEN "Ready" ELSE s[k]
    BY <2>1, <2>2 DEF TaskStates
  <2>4. CASE pos > current
    <3>1. \A k \in Slots : current < k /\ k < pos => s[k] = "Available"
      BY <1>1, <1>2, <2>2, <2>4
    <3> QED  BY <2>1, <2>2, <2>3, <2>4, <3>1
  <2>5. CASE pos < current
    <3>1. s[0] = "Ready"
      BY <1>1, <1>2, <2>2, <2>5
    <3>2. pos = 0
      BY <1>1, <2>2, <2>5, <3>1
    <3>3. \A k \in Slots : current < k => s[k] = "Available"
      BY <1>1, <1>2, <2>2, <2>5
    <3> QED  BY <2>1, <2>2, <2>3, <2>5, <3>2, <3>3
  <2>6. pos > current \/ pos < current
    BY <1>1, <2>2
  <2> QED  BY <2>4, <2>5, <2>6
<1> QED  BY <1>3, <1>4

\* The step of a round from place c to place pos: the task at c has yielded, or
\* it is done; those between are free.
RoundStep(r, s, t, c, pos, y, z) ==
    /\ {r, s, t} \subseteq [Slots -> TaskStates]
    /\ {c, pos} \subseteq Slots
    /\ {y, z} \subseteq [Slots -> Nat]
    /\ \A k \in Slots : t[k] # "Available" => s[k] # "Available"
    /\ \A k \in Slots : s[k] # "Available" => r[k] # "Available"
    /\ \A k \in Slots : k # c => z[k] = y[k]
    /\ c # 0 /\ s[c] # "Available" => z[c] = y[c] + 1
    /\ \/ /\ pos > c
          /\ \A k \in Slots : c < k /\ k < pos => s[k] = "Available"
       \/ /\ pos = 0 /\ c > 0
          /\ \A k \in Slots : c < k => s[k] = "Available"

LEMMA RoundsGoOn ==
    ASSUME NEW r, NEW s, NEW t, NEW c, NEW pos, NEW y, NEW z,
           RoundStep(r, s, t, c, pos, y, z), TaskRounds(r, c, y)
    PROVE  TaskRounds(t, pos, z)
<1> USE DEF RoundStep
<1> DEFINE d == IF pos > c THEN 0 ELSE 1
<1>1. Slots \subseteq Nat
  BY SlotsFacts
<1>2. ASSUME NEW k \in Slots \ {0}, t[k] # "Available"
      PROVE  /\ r[k] # "Available"
             /\ z[k] - Turn(k, pos) = y[k] - Turn(k, c) + d
  <2>1. k \in Nat /\ c \in Nat /\ pos \in Nat /\ y[k] \in Nat /\ k # 0
    BY <1>1
  <2>2. s[k] # "Available" /\ r[k] # "Available"
    BY <1>2
  <2>3. CASE pos > c
    <3>1. ~(c < k /\ k < pos)
      BY <2>1, <2>2, <2>3
    <3>2. CASE k = c
      BY <2>1, <2>2, <2>3, <3>2 DEF Turn
    <3>3. CASE k # c
      BY <2>1, <2>2, <2>3, <3>1, <3>3 DEF Turn
    <3> QED  BY <3>2, <3>3
  <2>4. CASE ~(pos > c)
    <3>1. pos = 0 /\ c > 0 /\ ~(c < k)
      BY <2>1, <2>2, <2>4
    <3>2. CASE k = c
      BY <2>1, <2>2, <3>1, <3>2 DEF Turn
    <3>3. CASE k # c
      BY <2>1, <2>2, <3>1, <3>3 DEF Turn
    <3> QED  BY <3>2, <3>3
  <2> QED  BY <2>3, <2>4
<1> HIDE DEF d
<1>3. ASSUME NEW k \in Slots \ {0}, NEW j \in Slots \ {0},
             t[k] # "Available", t[j] # "Available"
      PROVE  z[k] - Turn(k, pos) = z[j] - Turn(j, pos)
  <2>1. /\ r[k] # "Available" /\ z[k] - Turn(k, pos) = y[k] - Turn(k, c) + d
        /\ r[j] # "Available" /\ z[j] - Turn(j, pos) = y[j] - Turn(j, c) + d
    BY <1>2, <1>3
  <2>2. y[k] - Turn(k, c) = y[j] - Turn(j, c)
    BY <2>1 DEF TaskRounds
  <2> QED  BY <2>1, <2>2
<1> QED  BY <1>3 DEF TaskRounds

\* A task yields, or returns, or the base task runs the others.
LEMMA YieldKeeps ==
    ASSUME RuntimeInv, NEW s \in [Slots -> TaskStates], t_yield(s),
           \A k \in Slots : k # current => s[k] = state[k],
           s[current] \in {"Available", "Running"},
           current = 0 => s[current] = "Running",
           to_yield' \in [Slots -> Nat],
           \A k \in Slots : k # current => to_yield'[k] = to_yield[k],
           current = 0 \/ s[current] = "Available" => to_yield'[current] = 0,
           yielded' \in [Slots -> Nat],
           \A k \in Slots : k # current => yielded'[k] = yielded[k],
           current # 0 /\ s[current] # "Available"
               => yielded'[current] = yielded[current] + 1,
           spawned = Len(Yields), ~finished, UNCHANGED spawned
    PROVE  RuntimeInv'
<1>1. /\ RuntimeType /\ OneRuns /\ DoneIsDone
      /\ TaskRounds(state, current, yielded)
      /\ Slots \subseteq Nat /\ 0 \in Slots /\ Len(Yields) \in Nat
      /\ current \in Slots /\ current \in Nat
      /\ state \in [Slots -> TaskStates] /\ yielded \in [Slots -> Nat]
  BY SlotsFacts DEF RuntimeInv, RuntimeType
<1>2. \A k \in Slots : s[k] = "Running" => k = current
  BY <1>1 DEF OneRuns
<1>3. s[0] # "Available"
  BY <1>1 DEF OneRuns
<1>4. \A k \in Slots : s[k] # "Available" => state[k] # "Available"
  BY <1>1 DEF OneRuns
<1>5. spawned' = Len(Yields) /\ SpawnFirst'
  BY <1>1 DEF SpawnFirst
<1>6. \A k \in Slots : s[k] = "Available" \/ k = 0 => to_yield'[k] = 0
  BY <1>1 DEF DoneIsDone
<1>7. CASE /\ current = 0 /\ \A k \in Slots \ {0} : s[k] = "Available"
           /\ state' = s /\ current' = current /\ finished' = TRUE
  <2>1. RuntimeType'
    BY <1>1, <1>5, <1>7 DEF RuntimeType
  <2>2. OneRuns'
    BY <1>1, <1>2, <1>3, <1>7 DEF OneRuns
  <2>3. DoneIsDone' /\ AllDone'
    BY <1>5, <1>6, <1>7 DEF DoneIsDone, AllDone
  <2>4. TaskRounds(state', current', yielded')
    BY <1>7 DEF TaskRounds
  <2> QED  BY <1>5, <2>1, <2>2, <2>3, <2>4 DEF RuntimeInv
<1>8. CASE /\ current' \in Slots /\ current' # current
           /\ finished' = finished
           /\ state' \in [Slots -> TaskStates]
           /\ s[current'] = "Ready"
           /\ \A k \in Slots : state'[k] =
                 IF k = current' THEN "Running"
                 ELSE IF k = current /\ s[k] # "Available" THEN "Ready"
                 ELSE s[k]
           /\ \/ /\ current' > current
                 /\ \A k \in Slots : current < k /\ k < current'
                                         => s[k] = "Available"
              \/ /\ current' = 0 /\ current > 0
                 /\ \A k \in Slots : current < k => s[k] = "Available"
  <2>1. RuntimeType'
    BY <1>1, <1>5, <1>8 DEF RuntimeType
  <2>2. \A k \in Slots : state'[k] = "Available" <=> s[k] = "Available"
    BY <1>8
  <2>3. OneRuns'
    BY <1>1, <1>2, <1>3, <1>8, <2>2 DEF OneRuns
  <2>4. DoneIsDone' /\ AllDone'
    BY <1>6, <1>8, <2>2 DEF DoneIsDone, AllDone
  <2>5. TaskRounds(state', current', yielded')
    <3>1. \A k \in Slots : state'[k] # "Available" => s[k] # "Available"
      BY <2>2
    <3>2. current' \in Slots /\ state' \in [Slots -> TaskStates]
      BY <1>8
    <3>3. /\ current \in Slots /\ state \in [Slots -> TaskStates]
          /\ yielded \in [Slots -> Nat] /\ TaskRounds(state, current, yielded)
      BY <1>1
    <3>4. \/ /\ current' > current
             /\ \A k \in Slots : current < k /\ k < current'
                                     => s[k] = "Available"
          \/ /\ current' = 0 /\ current > 0
             /\ \A k \in Slots : current < k => s[k] = "Available"
      BY <1>8
    <3>5. RoundStep(state, s, state', current, current', yielded, yielded')
      BY <1>4, <3>1, <3>2, <3>3, <3>4 DEF RoundStep
    <3> QED  BY <3>3, <3>5, RoundsGoOn
  <2> QED  BY <1>5, <2>1, <2>3, <2>4, <2>5 DEF RuntimeInv
<1>9. s[current] # "Ready"
  OBVIOUS
<1> QED  BY <1>1, <1>2, <1>3, <1>7, <1>8, <1>9, YieldMoves

LEMMA SpawnKeeps == RuntimeInv /\ spawn => RuntimeInv'
<1> SUFFICES ASSUME RuntimeInv, spawn PROVE RuntimeInv'
  OBVIOUS
<1> DEFINE free == {j \in Slots : state[j] = "Available"}
           k == Min(free)
<1>1. /\ spawned < Len(Yields) /\ spawned' = spawned + 1
      /\ state' = [state EXCEPT ![k] = "Ready"]
      /\ to_yield' = [to_yield EXCEPT ![k] = Yields[spawned + 1]]
      /\ current' = current /\ finished' = finished /\ yielded' = yielded
  BY DEF spawn
<1>2. /\ RuntimeType /\ OneRuns /\ DoneIsDone /\ AllDone
      /\ current = 0 /\ ~finished /\ spawned \in 0..Len(Yields)
      /\ \A j \in Slots :
            yielded[j] = 0 /\ (j > spawned => state[j] = "Available")
      /\ state \in [Slots -> TaskStates] /\ to_yield \in [Slots -> Nat]
  BY <1>1 DEF RuntimeInv, SpawnFirst, RuntimeType
<1>3. /\ Slots \subseteq Nat /\ 0 \in Slots /\ Len(Yields) \in Nat
      /\ spawned + 1 \in 1..Len(Yields) /\ spawned + 1 > spawned
      /\ spawned + 1 \in Slots /\ Yields[spawned + 1] \in Nat
  BY <1>1, <1>2, SlotsFacts
\* the first place that is free is the next one at most
<1>4. k \in free /\ \A j \in free : k <= j
  <2>1. free \in SUBSET Nat /\ spawned + 1 \in free
    BY <1>2, <1>3
  <2> HIDE DEF free
  <2>2. \E j \in free : \A e \in free : j <= e
    BY <2>1, LeastNatural
  <2> QED  BY <2>2 DEF Min
<1>5. /\ k \in Slots /\ state[k] = "Available" /\ k <= spawned + 1
  BY <1>2, <1>3, <1>4
<1>6. k # 0 /\ k # current
  BY <1>2, <1>5 DEF OneRuns
<1> HIDE DEF k
<1>7. /\ state' \in [Slots -> TaskStates] /\ to_yield' \in [Slots -> Nat]
      /\ \A j \in Slots : state'[j] = IF j = k THEN "Ready" ELSE state[j]
      /\ \A j \in Slots : to_yield'[j] = IF j = k THEN Yields[spawned + 1]
                                         ELSE to_yield[j]
  BY <1>1, <1>2, <1>3, <1>5 DEF TaskStates
<1>8. RuntimeType'
  BY <1>1, <1>2, <1>3, <1>7 DEF RuntimeType
<1>9. OneRuns' /\ DoneIsDone' /\ AllDone'
  BY <1>1, <1>2, <1>6, <1>7 DEF OneRuns, DoneIsDone, AllDone
<1>10. SpawnFirst'
  <2>1. ASSUME NEW j \in Slots, j > spawned + 1 PROVE state'[j] = "Available"
    <3>1. j \in Nat /\ k \in Nat /\ spawned \in Nat
      BY <1>2, <1>3, <1>5
    <3>2. j # k /\ j > spawned
      BY <1>5, <2>1, <3>1
    <3> QED  BY <1>2, <1>7, <3>2
  <2> QED  BY <1>1, <1>2, <2>1 DEF SpawnFirst
<1>11. TaskRounds(state', current', yielded')
  <2>1. \A j \in Slots \ {0} : yielded[j] = 0 /\ Turn(j, 0) = 0
    BY <1>2, <1>3 DEF Turn
  <2> QED  BY <1>1, <1>2, <2>1 DEF TaskRounds
<1> QED  BY <1>8, <1>9, <1>10, <1>11 DEF RuntimeInv

\* The current task, before t_yield.
LEMMA CurrentFacts ==
    ASSUME RuntimeInv
    PROVE  /\ current \in Slots /\ state \in [Slots -> TaskStates]
           /\ state[current] = "Running"
           /\ to_yield \in [Slots -> Nat] /\ yielded \in [Slots -> Nat]
           /\ to_yield[0] = 0 /\ 0 \in Slots
           /\ current # 0 => spawned = Len(Yields) /\ ~finished
  BY SlotsFacts DEF RuntimeInv, RuntimeType, OneRuns, DoneIsDone, SpawnFirst, AllDone

LEMMA RunKeeps == RuntimeInv /\ run => RuntimeInv'
<1> SUFFICES ASSUME RuntimeInv, run PROVE RuntimeInv'
  OBVIOUS
<1>1. /\ current = 0 /\ spawned = Len(Yields) /\ ~finished /\ t_yield(state)
      /\ UNCHANGED spawned /\ to_yield' = to_yield /\ yielded' = yielded
  BY DEF run
<1>2. /\ state \in [Slots -> TaskStates] /\ state[current] = "Running"
      /\ to_yield \in [Slots -> Nat] /\ yielded \in [Slots -> Nat]
      /\ to_yield'[current] = 0
  BY <1>1, CurrentFacts
<1> QED  BY <1>1, <1>2, YieldKeeps

LEMMA YieldTaskKeeps == RuntimeInv /\ yield_task => RuntimeInv'
<1> SUFFICES ASSUME RuntimeInv, yield_task PROVE RuntimeInv'
  OBVIOUS
<1>1. /\ current # 0 /\ to_yield[current] > 0
      /\ to_yield' = [to_yield EXCEPT ![current] = @ - 1]
      /\ yielded' = [yielded EXCEPT ![current] = @ + 1]
      /\ t_yield(state) /\ UNCHANGED spawned
  BY DEF yield_task
<1>2. /\ current \in Slots /\ state \in [Slots -> TaskStates]
      /\ state[current] = "Running"
      /\ to_yield \in [Slots -> Nat] /\ yielded \in [Slots -> Nat]
      /\ spawned = Len(Yields) /\ ~finished
  BY <1>1, CurrentFacts
<1>3. /\ to_yield' \in [Slots -> Nat]
      /\ \A k \in Slots : k # current => to_yield'[k] = to_yield[k]
  BY <1>1, <1>2
<1>4. /\ yielded' \in [Slots -> Nat]
      /\ \A k \in Slots : k # current => yielded'[k] = yielded[k]
      /\ yielded'[current] = yielded[current] + 1
  BY <1>1, <1>2
<1> QED  BY <1>1, <1>2, <1>3, <1>4, YieldKeeps

LEMMA GuardKeeps == RuntimeInv /\ guard => RuntimeInv'
<1> SUFFICES ASSUME RuntimeInv, guard PROVE RuntimeInv'
  OBVIOUS
<1> DEFINE s == [state EXCEPT ![current] = "Available"]
<1>1. /\ current # 0 /\ to_yield[current] = 0 /\ t_yield(s)
      /\ UNCHANGED spawned /\ to_yield' = to_yield /\ yielded' = yielded
  BY DEF guard
<1>2. /\ current \in Slots /\ state \in [Slots -> TaskStates]
      /\ to_yield \in [Slots -> Nat] /\ yielded \in [Slots -> Nat]
      /\ spawned = Len(Yields) /\ ~finished
  BY <1>1, CurrentFacts
<1>3. /\ s \in [Slots -> TaskStates] /\ s[current] = "Available"
      /\ \A k \in Slots : k # current => s[k] = state[k]
  BY <1>2 DEF TaskStates
<1> HIDE DEF s
<1> QED  BY <1>1, <1>2, <1>3, YieldKeeps

LEMMA RuntimeInvIsFair == RuntimeInv => RuntimeIsFair
<1> SUFFICES ASSUME RuntimeInv PROVE RuntimeIsFair
  OBVIOUS
<1>1. ASSUME NEW k \in Slots \ {0}, NEW j \in Slots \ {0},
             state[k] # "Available", state[j] # "Available"
      PROVE  yielded[k] - yielded[j] <= 1
  <2>1. yielded[k] \in Nat /\ yielded[j] \in Nat
    BY CurrentFacts
  <2>2. yielded[k] - Turn(k, current) = yielded[j] - Turn(j, current)
    BY <1>1 DEF RuntimeInv, TaskRounds
  <2>3. Turn(k, current) \in {0, 1} /\ Turn(j, current) \in {0, 1}
    BY DEF Turn
  <2> QED  BY <2>1, <2>2, <2>3
<1>2. finished => \A k \in Slots : /\ to_yield[k] = 0
                                   /\ k # 0 => state[k] = "Available"
  BY DEF RuntimeInv, DoneIsDone, AllDone
<1> QED  BY <1>1, <1>2 DEF RuntimeIsFair

\* The two schedulers of coroutines give every task its turn, for any number of
\* tasks and futures and however often each yields, and run() returns only when
\* all tasks have.
THEOREM CoroutinesTakeTurns == CoroutineSpec => []CoroutinesFair
<1> DEFINE Inv == RuntimeInv /\ ExecutorInv
           Step == \/ RuntimeStep /\ UNCHANGED executorVars
                   \/ ExecutorStep /\ UNCHANGED runtimeVars
<1>1. CoroutineInit => Inv
  BY RuntimeInitially, ExecutorInitially
<1>2. RuntimeInv /\ UNCHANGED runtimeVars => RuntimeInv'
  BY DEF runtimeVars, RuntimeInv, RuntimeType, OneRuns, DoneIsDone, SpawnFirst,
         AllDone
<1>3. ExecutorInv /\ UNCHANGED executorVars => ExecutorInv'
  BY DEF executorVars, ExecutorInv, ExecutorType, EndTogether, Polled
<1>4. Inv /\ [Step]_coroutineVars => Inv'
  <2> SUFFICES ASSUME Inv, [Step]_coroutineVars PROVE Inv'
    OBVIOUS
  <2>1. CASE RuntimeStep /\ UNCHANGED executorVars
    BY <2>1, <1>3, SpawnKeeps, RunKeeps, YieldTaskKeeps, GuardKeeps
       DEF RuntimeStep
  <2>2. CASE ExecutorStep /\ UNCHANGED runtimeVars
    BY <2>2, <1>2, PollFirstKeeps, PollAgainKeeps DEF ExecutorStep
  <2>3. CASE UNCHANGED coroutineVars
    BY <2>3, <1>2, <1>3 DEF coroutineVars
  <2> QED  BY <2>1, <2>2, <2>3
<1>5. Inv => CoroutinesFair
  BY RuntimeInvIsFair, ExecutorInvIsFair DEF CoroutinesFair
<1> QED  BY <1>1, <1>4, <1>5, PTL DEF CoroutineSpec

-----------------------------------------------------------------------------
(* The code of the programs                                                *)

\* The place in the body of a loop goes round.
LEMMA PlaceFacts ==
    ASSUME NEW n \in {4, 5, 7}, NEW k \in Nat \ {0}
    PROVE  /\ Place(1, n) = 1
           /\ Place(k, n) \in 1..n
           /\ Place(k + 1, n) = IF Place(k, n) = n THEN 1 ELSE Place(k, n) + 1
<1>1. CASE n = 4
  BY <1>1 DEF Place
<1>2. CASE n = 5
  BY <1>2 DEF Place
<1>3. CASE n = 7
  BY <1>3 DEF Place
<1> QED
  BY <1>1, <1>2, <1>3

LEMMA IsSequence ==
    ASSUME NEW S, NEW n \in Nat, NEW f \in [1..n -> S]
    PROVE  f \in Seq(S) /\ Len(f) = n
BY SeqDef, LenProperties

\* A loop has its body again and again.
LEMMA RepeatFacts ==
    ASSUME NEW S, NEW body \in Seq(S), NEW n \in Nat, NEW r,
           NEW len \in {4, 5, 7}, Len(body) = len, r = Repeat(body, n)
    PROVE  /\ Len(r) = n * len
           /\ Len(r) \in Nat
           /\ \A k \in 1..Len(r) : r[k] = body[Place(k, len)]
<1> DEFINE size == n * len
<1>1. size \in Nat
  OBVIOUS
<1>2. r = [k \in 1..size |-> body[Place(k, len)]]
  BY DEF Repeat
<1> HIDE DEF size
<1>3. \A k \in 1..size : Place(k, len) \in 1..len
  <2> SUFFICES ASSUME NEW k \in 1..size
               PROVE  Place(k, len) \in 1..len
    OBVIOUS
  <2>1. k \in Nat \ {0}
    BY <1>1
  <2> QED
    BY <2>1, PlaceFacts
<1>4. r \in [1..size -> S]
  BY <1>2, <1>3, LenProperties
<1>5. r \in Seq(S) /\ Len(r) = size
  BY <1>1, <1>4, IsSequence
<1> QED
  BY <1>1, <1>2, <1>5 DEF size

LEMMA Codes ==
    /\ code["adder_blocking"] = [t \in 0..(ADDERS - 1) |-> adder(Lock(0))]
    /\ code["adder_spin"] = [t \in 0..(ADDERS - 1) |-> adder(SpinLock(0))]
    /\ code["phil"] = [t \in 0..(N - 1) |-> philosopher_dining_problem(t)]
    /\ code["barrier"] = [t \in 0..(BARRIER_THREADS - 1) |-> barrier_thread]
    /\ code["mpsc"] = [t \in 0..PRODUCER_COUNT |->
                          IF t < PRODUCER_COUNT THEN producer(t) ELSE consumer]
    /\ code["condsync_condvar"] =
          [t \in 0..1 |-> IF t = 0 THEN first_condvar ELSE second_condvar]
    /\ code["condsync_sem"] =
          [t \in 0..1 |-> IF t = 0 THEN first_sem ELSE second_sem]
    /\ code["sync_sem"] =
          [t \in 0..1 |-> IF t = 0 THEN first_sync ELSE second_sync]
BY DEF code, Programs

\* The code of the adders.
LEMMA AdderCode ==
    ASSUME NEW p \in {"adder_blocking", "adder_spin"}, NEW t \in DOMAIN code[p]
    PROVE  LET lock == IF p = "adder_blocking" THEN Lock(0) ELSE SpinLock(0)
           IN  /\ Len(code[p][t]) = PER_THREAD * 4
               /\ Len(code[p][t]) \in Nat
               /\ \A k \in 1..Len(code[p][t]) :
                     /\ Place(k, 4) = 1 => code[p][t][k] = lock
                     /\ Place(k, 4) = 2 => code[p][t][k] = Load("A")
                     /\ Place(k, 4) = 3 => code[p][t][k] = Inc("A")
                     /\ Place(k, 4) = 4 => code[p][t][k] = Unlock(0)
<1> DEFINE lock == IF p = "adder_blocking" THEN Lock(0) ELSE SpinLock(0)
           body == <<lock, Load("A"), Inc("A"), Unlock(0)>>
           S == {lock, Load("A"), Inc("A"), Unlock(0)}
<1>1. code[p][t] = Repeat(body, PER_THREAD)
  <2>1. CASE p = "adder_blocking"
    BY <2>1, Codes DEF adder
  <2>2. CASE p = "adder_spin"
    BY <2>2, Codes DEF adder
  <2> QED
    BY <2>1, <2>2
<1>2. body \in Seq(S) /\ Len(body) = 4
  <2> HIDE DEF lock
  <2> QED
    OBVIOUS
<1> HIDE DEF body, S
<1>3. PER_THREAD \in Nat
  BY SyncAssumption
<1>4. /\ Len(code[p][t]) = PER_THREAD * 4
      /\ Len(code[p][t]) \in Nat
      /\ \A k \in 1..Len(code[p][t]) : code[p][t][k] = body[Place(k, 4)]
  BY SMTT(60), <1>1, <1>2, <1>3, RepeatFacts
<1> QED
  BY <1>4 DEF body

\* The two forks of a philosopher, in the order in which he takes them.
First(t) == IF t < right(t) THEN t ELSE right(t)
Second(t) == IF t < right(t) THEN right(t) ELSE t

LEMMA PhilCode ==
    ASSUME NEW t \in DOMAIN code["phil"]
    PROVE  LET c == code["phil"][t]
           IN  /\ Len(c) = ROUND * 5
               /\ Len(c) \in Nat
               /\ \A k \in 1..Len(c) :
                     /\ Place(k, 5) = 1 => c[k] = Lock(First(t))
                     /\ Place(k, 5) = 2 => c[k] = Lock(Second(t))
                     /\ Place(k, 5) = 3 => c[k] = Work
                     /\ Place(k, 5) = 4 => c[k] = Unlock(Second(t))
                     /\ Place(k, 5) = 5 => c[k] = Unlock(First(t))
<1> DEFINE c == code["phil"][t]
           body == <<Lock(First(t)), Lock(Second(t)), Work,
                     Unlock(Second(t)), Unlock(First(t))>>
           S == {Lock(First(t)), Lock(Second(t)), Work,
                 Unlock(Second(t)), Unlock(First(t))}
<1>1. c = Repeat(body, ROUND)
  <2>1. c = philosopher_dining_problem(t)
    BY Codes
  <2>2. CASE t < right(t)
    <3>1. First(t) = t /\ Second(t) = right(t)
      BY <2>2 DEF First, Second
    <3> QED
      BY <2>1, <2>2, <3>1 DEF philosopher_dining_problem, philosopher
  <2>3. CASE ~(t < right(t))
    <3>1. First(t) = right(t) /\ Second(t) = t
      BY <2>3 DEF First, Second
    <3> QED
      BY <2>1, <2>3, <3>1 DEF philosopher_dining_problem, philosopher
  <2> QED
    BY <2>2, <2>3
<1>2. body \in Seq(S) /\ Len(body) = 5
  OBVIOUS
<1> HIDE DEF body, S, c
<1>3. ROUND \in Nat
  BY SyncAssumption
<1>4. /\ Len(c) = ROUND * 5
      /\ Len(c) \in Nat
      /\ \A k \in 1..Len(c) : c[k] = body[Place(k, 5)]
  BY SMTT(60), <1>1, <1>2, <1>3, RepeatFacts
<1> QED
  BY <1>4 DEF body, c

LEMMA BarrierCode ==
    ASSUME NEW t \in DOMAIN code["barrier"]
    PROVE  LET c == code["barrier"][t]
           IN  /\ Len(c) = 18
               /\ \A b \in {0, 1} :
                     LET x == IF b = 0 THEN "AB" ELSE "BC"
                     IN  /\ c[9 * b + 1] = SpinLock(b)
                         /\ c[9 * b + 2] = Load(x)
                         /\ c[9 * b + 3] = Inc(x)
                         /\ c[9 * b + 4] = Load(x)
                         /\ c[9 * b + 5] = JumpIf(BARRIER_THREADS, 9 * b + 8)
                         /\ c[9 * b + 6] = Wait(b, b)
                         /\ c[9 * b + 7] = SpinLock(b)
                         /\ c[9 * b + 8] = Signal(b)
                         /\ c[9 * b + 9] = Unlock(b)
<1> DEFINE c == code["barrier"][t]
           f == block(0, "AB")
           s == block(1, "BC")
           h == Shifted(s, 9)
<1>1. c = f \o Shifted(s, Len(f))
  BY Codes DEF barrier_thread, Barriers
<1>2. \A b \in {0, 1}, x \in {"AB", "BC"} :
         LET d == block(b, x)
         IN  /\ Len(d) = 9
             /\ DOMAIN d = 1..9
             /\ d[1] = SpinLock(b)
             /\ d[2] = Load(x)
             /\ d[3] = Inc(x)
             /\ d[4] = Load(x)
             /\ d[5] = JumpIf(BARRIER_THREADS, 8)
             /\ d[6] = Wait(b, b)
             /\ d[7] = SpinLock(b)
             /\ d[8] = Signal(b)
             /\ d[9] = Unlock(b)
  BY DEF block
<1> HIDE DEF f, s, h, c
<1>3. /\ DOMAIN h = 1..9
      /\ h[1] = SpinLock(1)
      /\ h[2] = Load("BC")
      /\ h[3] = Inc("BC")
      /\ h[4] = Load("BC")
      /\ h[5] = JumpIf(BARRIER_THREADS, 17)
      /\ h[6] = Wait(1, 1)
      /\ h[7] = SpinLock(1)
      /\ h[8] = Signal(1)
      /\ h[9] = Unlock(1)
  BY <1>2 DEF h, s, Shifted, SpinLock, Load, Inc, JumpIf, Wait, Signal, Unlock
<1> DEFINE S == {f[y] : y \in 1..9} \cup {h[y] : y \in 1..9}
<1>4. h \in Seq(S) /\ Len(h) = 9
  <2>1. h \in [1..9 -> S]
    BY <1>3 DEF h, Shifted
  <2> HIDE DEF S
  <2> QED
    BY <2>1, IsSequence
<1>5. f \in Seq(S) /\ Len(f) = 9
  <2>1. f \in [1..9 -> S]
    BY <1>2 DEF f, block
  <2> HIDE DEF S
  <2> QED
    BY <2>1, IsSequence
<1> HIDE DEF S
<1>6. /\ Len(c) = 18
      /\ \A y \in 1..9 : c[y] = f[y]
      /\ \A y \in 1..9 : c[9 + y] = h[y]
  <2>1. c = f \o h
    BY <1>1, <1>5 DEF h
  <2>2. /\ Len(f \o h) = Len(f) + Len(h)
        /\ \A y \in 1..(Len(f) + Len(h)) :
              (f \o h)[y] = IF y <= Len(f) THEN f[y] ELSE h[y - Len(f)]
    BY <1>4, <1>5, ConcatProperties
  <2> QED
    BY SMTT(30), <2>1, <2>2, <1>4, <1>5
<1>7. \A b \in {0, 1} : b = 0 \/ b = 1
  OBVIOUS
<1> QED
  BY <1>2, <1>3, <1>6, <1>7 DEF c, f

LEMMA MpscCode ==
    ASSUME NEW t \in DOMAIN code["mpsc"]
    PROVE  LET c == code["mpsc"][t]
               x == IF t < PRODUCER_COUNT THEN "TAIL" ELSE "FRONT"
           IN  /\ Len(c) \in Nat
               /\ \A k \in 1..Len(c) :
                     /\ Place(k, 7) = 1 =>
                           c[k] = Down(IF t < PRODUCER_COUNT THEN SEM_EMPTY
                                       ELSE SEM_AVAIL)
                     /\ Place(k, 7) = 2 => c[k] = Down(SEM_MUTEX)
                     /\ Place(k, 7) = 3 => c[k] = Load(x)
                     /\ Place(k, 7) = 4 =>
                           c[k] = IF t < PRODUCER_COUNT THEN Put(t) ELSE Get
                     /\ Place(k, 7) = 5 => c[k] = Add(x, BUFFER_SIZE)
                     /\ Place(k, 7) = 6 => c[k] = Up(SEM_MUTEX)
                     /\ Place(k, 7) = 7 =>
                           c[k] = Up(IF t < PRODUCER_COUNT THEN SEM_AVAIL
                                     ELSE SEM_EMPTY)
<1> DEFINE c == code["mpsc"][t]
           P == <<Down(SEM_EMPTY), Down(SEM_MUTEX), Load("TAIL"), Put(t),
                  Add("TAIL", BUFFER_SIZE), Up(SEM_MUTEX), Up(SEM_AVAIL)>>
           PS == {Down(SEM_EMPTY), Down(SEM_MUTEX), Load("TAIL"), Put(t),
                  Add("TAIL", BUFFER_SIZE), Up(SEM_MUTEX), Up(SEM_AVAIL)}
           C == <<Down(SEM_AVAIL), Down(SEM_MUTEX), Load("FRONT"), Get,
                  Add("FRONT", BUFFER_SIZE), Up(SEM_MUTEX), Up(SEM_EMPTY)>>
           CS == {Down(SEM_AVAIL), Down(SEM_MUTEX), Load("FRONT"), Get,
                  Add("FRONT", BUFFER_SIZE), Up(SEM_MUTEX), Up(SEM_EMPTY)}
<1>1. c = IF t < PRODUCER_COUNT THEN Repeat(P, NUMBER_PER_PRODUCER)
          ELSE Repeat(C, PRODUCER_COUNT * NUMBER_PER_PRODUCER)
  BY Codes DEF producer, consumer
<1>2. P \in Seq(PS) /\ Len(P) = 7 /\ C \in Seq(CS) /\ Len(C) = 7
  OBVIOUS
<1> HIDE DEF P, PS, C, CS, c
<1>3. /\ NUMBER_PER_PRODUCER \in Nat
      /\ PRODUCER_COUNT * NUMBER_PER_PRODUCER \in Nat
  BY SyncAssumption
<1>4. CASE t < PRODUCER_COUNT
  <2>1. c = Repeat(P, NUMBER_PER_PRODUCER)
    BY <1>1, <1>4
  <2>2. Len(c) \in Nat /\ \A k \in 1..Len(c) : c[k] = P[Place(k, 7)]
    BY <1>2, <1>3, <2>1, RepeatFacts
  <2> QED
    BY <1>4, <2>2 DEF P, c
<1>5. CASE ~(t < PRODUCER_COUNT)
  <2> DEFINE n == PRODUCER_COUNT * NUMBER_PER_PRODUCER
  <2>1. c = Repeat(C, n)
    BY <1>1, <1>5
  <2>2. n \in Nat
    BY <1>3
  <2> HIDE DEF n
  <2>3. Len(c) \in Nat /\ \A k \in 1..Len(c) : c[k] = C[Place(k, 7)]
    BY <1>2, <2>1, <2>2, RepeatFacts
  <2> QED
    BY <1>5, <2>3 DEF C, c
<1> QED
  BY <1>4, <1>5

LEMMA CondsyncCode ==
    ASSUME NEW p \in {"condsync_condvar", "condsync_sem"}
    PROVE  /\ DOMAIN code[p] = {0, 1}
           /\ Len(code[p][0]) = 4
           /\ code[p][0][1] = Lock(0)
           /\ code[p][0][2] = Set("A", 1)
           /\ code[p][0][3] = IF p = "condsync_sem" THEN Up(0) ELSE Signal(0)
           /\ code[p][0][4] = Unlock(0)
           /\ Len(code[p][1]) = 7
           /\ code[p][1][1] = Lock(0)
           /\ code[p][1][2] = Load("A")
           /\ code[p][1][3] = JumpIf(1, 7)
           /\ code[p][1][4] = IF p = "condsync_sem" THEN Unlock(0)
                              ELSE Wait(0, 0)
           /\ code[p][1][5] = IF p = "condsync_sem" THEN Down(0) ELSE Lock(0)
           /\ code[p][1][6] = IF p = "condsync_sem" THEN Jump(1) ELSE Jump(2)
           /\ code[p][1][7] = Unlock(0)
<1>1. CASE p = "condsync_condvar"
  <2>1. /\ code[p][0] = first_condvar /\ code[p][1] = second_condvar
        /\ DOMAIN code[p] = {0, 1}
    BY <1>1, Codes
  <2> QED
    BY <1>1, <2>1 DEF first_condvar, second_condvar
<1>2. CASE p = "condsync_sem"
  <2>1. /\ code[p][0] = first_sem /\ code[p][1] = second_sem
        /\ DOMAIN code[p] = {0, 1}
    BY <1>2, Codes
  <2> QED
    BY <1>2, <2>1 DEF first_sem, second_sem
<1> QED
  BY <1>1, <1>2

LEMMA SyncSemCode ==
    LET c == code["sync_sem"]
    IN  /\ DOMAIN c = {0, 1}
        /\ Len(c[0]) = 2 /\ c[0][1] = Work /\ c[0][2] = Up(0)
        /\ Len(c[1]) = 2 /\ c[1][1] = Down(0) /\ c[1][2] = Work
<1>1. /\ code["sync_sem"][0] = first_sync /\ code["sync_sem"][1] = second_sync
      /\ DOMAIN code["sync_sem"] = {0, 1}
  BY Codes
<1> QED
  BY <1>1 DEF first_sync, second_sync

-----------------------------------------------------------------------------
(* The instructions, by their parts                                        *)

LEMMA AdderAt ==
    ASSUME NEW p \in {"adder_blocking", "adder_spin"}, NEW t \in DOMAIN code[p],
           NEW k \in 1..Len(code[p][t]), NEW y, y = code[p][t][k]
    PROVE  /\ Place(k, 4) \in 1..4
           /\ Place(k + 1, 4) = IF Place(k, 4) = 4 THEN 1 ELSE Place(k, 4) + 1
           /\ Place(k, 4) = 1 =>
                 /\ y[1] = IF p = "adder_blocking" THEN "lock" ELSE "spin_lock"
                 /\ y[2] = 0
           /\ Place(k, 4) = 2 => y[1] = "load" /\ y[2] = "A"
           /\ Place(k, 4) = 3 => y[1] = "inc" /\ y[2] = "A"
           /\ Place(k, 4) = 4 => y[1] = "unlock" /\ y[2] = 0
<1>1. k \in Nat \ {0}
  BY AdderCode
<1>2. /\ Place(k, 4) \in 1..4
      /\ Place(k + 1, 4) = IF Place(k, 4) = 4 THEN 1 ELSE Place(k, 4) + 1
  BY <1>1, PlaceFacts
<1> QED
  BY <1>2, AdderCode DEF Lock, SpinLock, Load, Inc, Unlock

LEMMA PhilAt ==
    ASSUME NEW t \in DOMAIN code["phil"], NEW k \in 1..Len(code["phil"][t]),
           NEW y, y = code["phil"][t][k]
    PROVE  /\ Place(k, 5) \in 1..5
           /\ Place(k + 1, 5) = IF Place(k, 5) = 5 THEN 1 ELSE Place(k, 5) + 1
           /\ Place(k, 5) = 1 => y[1] = "lock" /\ y[2] = First(t)
           /\ Place(k, 5) = 2 => y[1] = "lock" /\ y[2] = Second(t)
           /\ Place(k, 5) = 3 => y[1] = "work"
           /\ Place(k, 5) = 4 => y[1] = "unlock" /\ y[2] = Second(t)
           /\ Place(k, 5) = 5 => y[1] = "unlock" /\ y[2] = First(t)
<1>1. k \in Nat \ {0}
  BY PhilCode
<1>2. /\ Place(k, 5) \in 1..5
      /\ Place(k + 1, 5) = IF Place(k, 5) = 5 THEN 1 ELSE Place(k, 5) + 1
  BY <1>1, PlaceFacts
<1> QED
  BY <1>2, PhilCode DEF Lock, Unlock, Work

LEMMA Forks ==
    ASSUME NEW t \in DOMAIN code["phil"]
    PROVE  /\ t \in 0..(N - 1) /\ right(t) \in 0..(N - 1) /\ t # right(t)
           /\ {First(t), Second(t)} = {t, right(t)}
           /\ First(t) \in Mutexes /\ Second(t) \in Mutexes
           /\ First(t) # Second(t)
<1>1. t \in 0..(N - 1)
  BY Codes
<1> QED
  BY <1>1, SyncAssumption DEF First, Second, right, Mutexes

\* b is the barrier, and r the place in its code.
LEMMA BarrierAt ==
    ASSUME NEW t \in DOMAIN code["barrier"],
           NEW k \in 1..Len(code["barrier"][t]),
           NEW y, y = code["barrier"][t][k]
    PROVE  \E b \in {0, 1}, r \in 1..9 :
               LET x == IF b = 0 THEN "AB" ELSE "BC"
               IN  /\ k = 9 * b + r
                   /\ r \in {1, 7} => y[1] = "spin_lock" /\ y[2] = b
                   /\ r \in {2, 4} => y[1] = "load" /\ y[2] = x
                   /\ r = 3 => y[1] = "inc" /\ y[2] = x
                   /\ r = 5 => /\ y[1] = "jump_if" /\ y[2] = BARRIER_THREADS
                              /\ y[3] = 9 * b + 8
                   /\ r = 6 => y[1] = "wait" /\ y[2] = b /\ y[3] = b
                   /\ r = 8 => y[1] = "signal" /\ y[2] = b
                   /\ r = 9 => y[1] = "unlock" /\ y[2] = b
<1>1. k \in 1..18
  BY BarrierCode
<1>2. PICK b \in {0, 1}, r \in 1..9 : k = 9 * b + r
  <2>1. CASE k <= 9
    <3>1. k \in 1..9 /\ k = 9 * 0 + k
      BY <1>1, <2>1
    <3> QED
      BY <3>1
  <2>2. CASE k > 9
    <3>1. k - 9 \in 1..9 /\ k = 9 * 1 + (k - 9)
      BY <1>1, <2>2
    <3> QED
      BY <3>1
  <2> QED
    BY <1>1, <2>1, <2>2
<1> DEFINE c == code["barrier"][t]
           x == IF b = 0 THEN "AB" ELSE "BC"
<1>3. /\ c[9 * b + 1] = SpinLock(b)
      /\ c[9 * b + 2] = Load(x)
      /\ c[9 * b + 3] = Inc(x)
      /\ c[9 * b + 4] = Load(x)
      /\ c[9 * b + 5] = JumpIf(BARRIER_THREADS, 9 * b + 8)
      /\ c[9 * b + 6] = Wait(b, b)
      /\ c[9 * b + 7] = SpinLock(b)
      /\ c[9 * b + 8] = Signal(b)
      /\ c[9 * b + 9] = Unlock(b)
  BY BarrierCode
<1>4. y = c[9 * b + r]
  BY <1>2
<1> HIDE DEF c, x
<1>5. /\ r \in {1, 7} => y[1] = "spin_lock" /\ y[2] = b
      /\ r \in {2, 4} => y[1] = "load" /\ y[2] = x
      /\ r = 3 => y[1] = "inc" /\ y[2] = x
      /\ r = 5 => /\ y[1] = "jump_if" /\ y[2] = BARRIER_THREADS
                 /\ y[3] = 9 * b + 8
      /\ r = 6 => y[1] = "wait" /\ y[2] = b /\ y[3] = b
      /\ r = 8 => y[1] = "signal" /\ y[2] = b
      /\ r = 9 => y[1] = "unlock" /\ y[2] = b
  BY SMTT(30), <1>3, <1>4 DEF SpinLock, Load, Inc, JumpIf, Wait, Signal, Unlock
<1> QED
  BY <1>2, <1>5 DEF x

LEMMA MpscAt ==
    ASSUME NEW t \in DOMAIN code["mpsc"], NEW k \in 1..Len(code["mpsc"][t]),
           NEW y, y = code["mpsc"][t][k]
    PROVE  /\ Place(k, 7) \in 1..7
           /\ Place(k + 1, 7) = IF Place(k, 7) = 7 THEN 1 ELSE Place(k, 7) + 1
           /\ Place(k, 7) = 2 => y[1] = "down" /\ y[2] = SEM_MUTEX
           /\ Place(k, 7) = 6 => y[1] = "up" /\ y[2] = SEM_MUTEX
           /\ t < PRODUCER_COUNT =>
                 /\ Place(k, 7) = 1 => y[1] = "down" /\ y[2] = SEM_EMPTY
                 /\ Place(k, 7) = 3 => y[1] = "load" /\ y[2] = "TAIL"
                 /\ Place(k, 7) = 4 => y[1] = "put" /\ y[2] = t
                 /\ Place(k, 7) = 5 => /\ y[1] = "add" /\ y[2] = "TAIL"
                                       /\ y[3] = BUFFER_SIZE
                 /\ Place(k, 7) = 7 => y[1] = "up" /\ y[2] = SEM_AVAIL
           /\ ~(t < PRODUCER_COUNT) =>
                 /\ Place(k, 7) = 1 => y[1] = "down" /\ y[2] = SEM_AVAIL
                 /\ Place(k, 7) = 3 => y[1] = "load" /\ y[2] = "FRONT"
                 /\ Place(k, 7) = 4 => y[1] = "get"
                 /\ Place(k, 7) = 5 => /\ y[1] = "add" /\ y[2] = "FRONT"
                                       /\ y[3] = BUFFER_SIZE
                 /\ Place(k, 7) = 7 => y[1] = "up" /\ y[2] = SEM_EMPTY
<1>1. k \in Nat \ {0}
  BY MpscCode
<1>2. /\ Place(k, 7) \in 1..7
      /\ Place(k + 1, 7) = IF Place(k, 7) = 7 THEN 1 ELSE Place(k, 7) + 1
  BY <1>1, PlaceFacts
<1>3. CASE t < PRODUCER_COUNT
  <2>1. /\ Place(k, 7) = 1 => y = Down(SEM_EMPTY)
        /\ Place(k, 7) = 2 => y = Down(SEM_MUTEX)
        /\ Place(k, 7) = 3 => y = Load("TAIL")
        /\ Place(k, 7) = 4 => y = Put(t)
        /\ Place(k, 7) = 5 => y = Add("TAIL", BUFFER_SIZE)
        /\ Place(k, 7) = 6 => y = Up(SEM_MUTEX)
        /\ Place(k, 7) = 7 => y = Up(SEM_AVAIL)
    BY <1>3, MpscCode
  <2> QED
    BY SMTT(30), <1>2, <1>3, <2>1 DEF Down, Up, Load, Put, Add
<1>4. CASE ~(t < PRODUCER_COUNT)
  <2>1. /\ Place(k, 7) = 1 => y = Down(SEM_AVAIL)
        /\ Place(k, 7) = 2 => y = Down(SEM_MUTEX)
        /\ Place(k, 7) = 3 => y = Load("FRONT")
        /\ Place(k, 7) = 4 => y = Get
        /\ Place(k, 7) = 5 => y = Add("FRONT", BUFFER_SIZE)
        /\ Place(k, 7) = 6 => y = Up(SEM_MUTEX)
        /\ Place(k, 7) = 7 => y = Up(SEM_EMPTY)
    BY <1>4, MpscCode
  <2> QED
    BY SMTT(30), <1>2, <1>4, <2>1 DEF Down, Up, Load, Get, Add
<1> QED
  BY <1>3, <1>4

LEMMA CondsyncAt ==
    ASSUME NEW p \in {"condsync_condvar", "condsync_sem"},
           NEW t \in DOMAIN code[p], NEW k \in 1..Len(code[p][t]),
           NEW y, y = code[p][t][k]
    PROVE  /\ t \in {0, 1} /\ k \in 1..7 /\ (t = 0 => k <= 4)
           /\ k = 1 => y[1] = "lock" /\ y[2] = 0
           /\ t = 0 =>
                 /\ k = 2 => y[1] = "set" /\ y[2] = "A" /\ y[3] = 1
                 /\ k = 3 => /\ y[1] = IF p = "condsync_sem" THEN "up"
                                       ELSE "signal"
                            /\ y[2] = 0
                 /\ k = 4 => y[1] = "unlock" /\ y[2] = 0
           /\ t = 1 =>
                 /\ k = 2 => y[1] = "load" /\ y[2] = "A"
                 /\ k = 3 => y[1] = "jump_if" /\ y[2] = 1 /\ y[3] = 7
                 /\ k = 4 => IF p = "condsync_sem"
                            THEN y[1] = "unlock" /\ y[2] = 0
                            ELSE y[1] = "wait" /\ y[2] = 0 /\ y[3] = 0
                 /\ k = 5 => /\ y[1] = IF p = "condsync_sem" THEN "down"
                                       ELSE "lock"
                            /\ y[2] = 0
                 /\ k = 6 => /\ y[1] = "jump"
                            /\ y[2] = IF p = "condsync_sem" THEN 1 ELSE 2
                 /\ k = 7 => y[1] = "unlock" /\ y[2] = 0
<1>1. t = 0 \/ t = 1
  BY CondsyncCode
<1>2. CASE t = 0
  <2>1. k \in 1..4
    BY <1>2, CondsyncCode
  <2>2. /\ k = 1 => y = Lock(0)
        /\ k = 2 => y = Set("A", 1)
        /\ k = 3 => y = IF p = "condsync_sem" THEN Up(0) ELSE Signal(0)
        /\ k = 4 => y = Unlock(0)
    BY SMTT(30), <1>2, CondsyncCode
  <2> QED
    BY <1>2, <2>1, <2>2 DEF Lock, Unlock, Set, Up, Signal
<1>3. CASE t = 1
  <2>1. k \in 1..7
    BY <1>3, CondsyncCode
  <2>2. /\ k = 1 => y = Lock(0)
        /\ k = 2 => y = Load("A")
        /\ k = 3 => y = JumpIf(1, 7)
        /\ k = 7 => y = Unlock(0)
    BY <1>3, CondsyncCode
  <2>3. CASE p = "condsync_sem"
    <3>1. /\ k = 4 => y = Unlock(0)
          /\ k = 5 => y = Down(0)
          /\ k = 6 => y = Jump(1)
      BY <1>3, <2>3, CondsyncCode
    <3> QED
      BY SMTT(30), <1>3, <2>1, <2>2, <2>3, <3>1
      DEF Lock, Unlock, Load, JumpIf, Jump, Down
  <2>4. CASE p = "condsync_condvar"
    <3>1. /\ k = 4 => y = Wait(0, 0)
          /\ k = 5 => y = Lock(0)
          /\ k = 6 => y = Jump(2)
      BY <1>3, <2>4, CondsyncCode
    <3> QED
      BY <1>3, <2>1, <2>2, <2>4, <3>1
      DEF Lock, Unlock, Load, JumpIf, Jump, Wait
  <2> QED
    BY <2>3, <2>4
<1> QED
  BY <1>1, <1>2, <1>3

\* What both programs have in common.
CondsyncShape(t, k, y) ==
    /\ t \in {0, 1} /\ k \in 1..7 /\ (t = 0 => k <= 4)
    /\ k = 1 => y[1] = "lock"
    /\ t = 0 => /\ k = 2 => y[1] = "set" /\ y[2] = "A" /\ y[3] = 1
                /\ k = 3 => y[1] \in {"up", "signal"}
                /\ k = 4 => y[1] = "unlock"
    /\ t = 1 => /\ k = 2 => y[1] = "load" /\ y[2] = "A"
                /\ k = 3 => y[1] = "jump_if" /\ y[2] = 1 /\ y[3] = 7
                /\ k = 4 => y[1] \in {"unlock", "wait"}
                /\ k = 5 => y[1] \in {"down", "lock"}
                /\ k = 6 => y[1] = "jump" /\ y[2] \in {1, 2}
                /\ k = 7 => y[1] = "unlock"

LEMMA CondsyncShaped ==
    ASSUME NEW p \in {"condsync_condvar", "condsync_sem"},
           NEW t \in DOMAIN code[p], NEW k \in 1..Len(code[p][t]),
           NEW y, y = code[p][t][k]
    PROVE  CondsyncShape(t, k, y)
  BY SMTT(30), CondsyncAt DEF CondsyncShape

LEMMA SyncSemAt ==
    ASSUME NEW t \in DOMAIN code["sync_sem"],
           NEW k \in 1..Len(code["sync_sem"][t]),
           NEW y, y = code["sync_sem"][t][k]
    PROVE  /\ t \in {0, 1} /\ k \in {1, 2}
           /\ t = 0 /\ k = 1 => y[1] = "work"
           /\ t = 0 /\ k = 2 => y[1] = "up" /\ y[2] = 0
           /\ t = 1 /\ k = 1 => y[1] = "down" /\ y[2] = 0
           /\ t = 1 /\ k = 2 => y[1] = "work"
<1>1. t = 0 \/ t = 1
  BY SyncSemCode
<1>2. CASE t = 0
  BY <1>2, SyncSemCode DEF Work, Up
<1>3. CASE t = 1
  BY <1>3, SyncSemCode DEF Work, Down
<1> QED
  BY <1>1, <1>2, <1>3

-----------------------------------------------------------------------------
(* The discipline of locks                                                 *)

\* Thread t of program p, at place k of its code, is between a lock of m and
\* the unlock, or waits in this lock.
Within(p, t, m, k) ==
    \/ /\ p \in {"adder_blocking", "adder_spin"}
       /\ m = 0 /\ Place(k, 4) \in 2..4
    \/ /\ p = "phil"
       /\ \/ m = First(t) /\ Place(k, 5) \in 2..5
          \/ m = Second(t) /\ Place(k, 5) \in 3..4
    \/ /\ p = "barrier"
       /\ \/ m = 0 /\ (k \in 2..6 \/ k \in 8..9)
          \/ m = 1 /\ (k \in 11..15 \/ k \in 17..18)
    \/ /\ p = "condsync_condvar"
       /\ m = 0
       /\ IF t = 0 THEN k \in 2..4 ELSE k \in 2..4 \/ k \in 6..7
    \/ /\ p = "condsync_sem"
       /\ m = 0
       /\ IF t = 0 THEN k \in 2..4 ELSE k \in 2..4 \/ k = 7

\* Where an instruction i, at place k, may go.
Follows(y, k) ==
    IF y[1] = "jump" THEN {y[2]}
    ELSE IF y[1] = "jump_if" THEN {y[3], k + 1}
    ELSE {k + 1}

Locks(y, m) == y[1] \in {"lock", "spin_lock"} /\ y[2] = m
Unlocks(y, m) ==
    \/ y[1] = "unlock" /\ y[2] = m
    \/ y[1] = "wait" /\ y[3] = m

\* The operands of an instruction of program p are what they should be.
WellMade(p, y, k) ==
    /\ y[1] \in {"lock", "spin_lock", "unlock"} => y[2] \in Mutexes
    /\ y[1] = "wait" => y[2] \in 0..1 /\ y[3] \in Mutexes
    /\ y[1] = "signal" => y[2] \in 0..1
    /\ y[1] \in {"up", "down"} => y[2] \in 0..2
    /\ y[1] \in {"load", "set", "inc", "add"} => y[2] \in Variables
    /\ y[1] = "set" => y[3] \in Nat
    /\ y[1] = "add" => y[3] \in Nat \ {0}
    /\ y[1] \in {"put", "get"} => p = "mpsc"
    /\ Follows(y, k) \subseteq Nat \ {0}

\* A mutex is unlocked inside, and only a lock leads inside.
LocksWell(p, t, y, k) ==
    \A m \in Mutexes :
        /\ Unlocks(y, m) => Within(p, t, m, k) /\ ~Within(p, t, m, k + 1)
        /\ \A j \in Follows(y, k) :
              Within(p, t, m, j) => Within(p, t, m, k) \/ Locks(y, m)

LEMMA CodeLengths ==
    ASSUME NEW p \in Programs, NEW t \in DOMAIN code[p]
    PROVE  Len(code[p][t]) \in Nat
<1>1. CASE p \in {"adder_blocking", "adder_spin"}
  BY <1>1, AdderCode
<1>2. CASE p = "phil"
  BY <1>2, PhilCode
<1>3. CASE p = "barrier"
  BY <1>3, BarrierCode
<1>4. CASE p = "mpsc"
  BY <1>4, MpscCode
<1>5. CASE p \in {"condsync_condvar", "condsync_sem"}
  BY <1>5, CondsyncCode
<1>6. CASE p = "sync_sem"
  BY <1>6, SyncSemCode
<1> QED
  BY <1>1, <1>2, <1>3, <1>4, <1>5, <1>6 DEF Programs

LEMMA CodeIsSound ==
    ASSUME NEW p \in Programs, NEW t \in DOMAIN code[p],
           NEW k \in 1..Len(code[p][t])
    PROVE  WellMade(p, code[p][t][k], k) /\ LocksWell(p, t, code[p][t][k], k)
<1> DEFINE y == code[p][t][k]
<1>0. k \in Nat \ {0} /\ 0 \in Mutexes /\ 1 \in Mutexes
  BY CodeLengths, SyncAssumption DEF Mutexes
<1>1. CASE p \in {"adder_blocking", "adder_spin"}
  <2>1. /\ Place(k, 4) \in 1..4
        /\ Place(k + 1, 4) = IF Place(k, 4) = 4 THEN 1 ELSE Place(k, 4) + 1
        /\ Place(k, 4) = 1 => y[1] \in {"lock", "spin_lock"} /\ y[2] = 0
        /\ Place(k, 4) = 2 => y[1] = "load" /\ y[2] = "A"
        /\ Place(k, 4) = 3 => y[1] = "inc" /\ y[2] = "A"
        /\ Place(k, 4) = 4 => y[1] = "unlock" /\ y[2] = 0
    BY <1>1, AdderAt
  <2> HIDE DEF y
  <2>2. WellMade(p, y, k)
    BY <1>0, <2>1 DEF WellMade, Follows, Variables
  <2>3. LocksWell(p, t, y, k)
    BY <1>0, <1>1, <2>1 DEF LocksWell, Within, Follows, Locks, Unlocks
  <2> QED
    BY <2>2, <2>3 DEF y
<1>2. CASE p = "phil"
  <2>1. /\ Place(k, 5) \in 1..5
        /\ Place(k + 1, 5) = IF Place(k, 5) = 5 THEN 1 ELSE Place(k, 5) + 1
        /\ Place(k, 5) = 1 => y[1] = "lock" /\ y[2] = First(t)
        /\ Place(k, 5) = 2 => y[1] = "lock" /\ y[2] = Second(t)
        /\ Place(k, 5) = 3 => y[1] = "work"
        /\ Place(k, 5) = 4 => y[1] = "unlock" /\ y[2] = Second(t)
        /\ Place(k, 5) = 5 => y[1] = "unlock" /\ y[2] = First(t)
    BY <1>2, PhilAt
  <2>2. First(t) \in Mutexes /\ Second(t) \in Mutexes /\ First(t) # Second(t)
    BY <1>2, Forks
  <2> HIDE DEF y
  <2>3. WellMade(p, y, k)
    BY <1>0, <2>1, <2>2 DEF WellMade, Follows
  <2>4. LocksWell(p, t, y, k)
    BY <1>0, <1>2, <2>1, <2>2 DEF LocksWell, Within, Follows, Locks, Unlocks
  <2> QED
    BY <2>3, <2>4 DEF y
<1>3. CASE p = "barrier"
  <2>1. PICK b \in {0, 1}, r \in 1..9 :
            /\ k = 9 * b + r
            /\ r \in {1, 7} => y[1] = "spin_lock" /\ y[2] = b
            /\ r \in {2, 4} =>
                  y[1] = "load" /\ y[2] = (IF b = 0 THEN "AB" ELSE "BC")
            /\ r = 3 => y[1] = "inc" /\ y[2] = (IF b = 0 THEN "AB" ELSE "BC")
            /\ r = 5 => /\ y[1] = "jump_if" /\ y[2] = BARRIER_THREADS
                       /\ y[3] = 9 * b + 8
            /\ r = 6 => y[1] = "wait" /\ y[2] = b /\ y[3] = b
            /\ r = 8 => y[1] = "signal" /\ y[2] = b
            /\ r = 9 => y[1] = "unlock" /\ y[2] = b
    BY <1>3, BarrierAt
  <2> HIDE DEF y
  <2>2. WellMade(p, y, k)
    BY <1>0, <2>1 DEF WellMade, Follows, Variables
  <2>3. LocksWell(p, t, y, k)
    <3> SUFFICES ASSUME NEW m \in Mutexes
                 PROVE  /\ Unlocks(y, m) =>
                              Within(p, t, m, k) /\ ~Within(p, t, m, k + 1)
                        /\ \A j \in Follows(y, k) :
                              Within(p, t, m, j) =>
                                 Within(p, t, m, k) \/ Locks(y, m)
      BY DEF LocksWell
    <3>1. \A j : Within(p, t, m, j) <=>
                    \/ m = 0 /\ (j \in 2..6 \/ j \in 8..9)
                    \/ m = 1 /\ (j \in 11..15 \/ j \in 17..18)
      BY <1>3 DEF Within
    <3>2. Unlocks(y, m) => r \in {6, 9} /\ m = b
      BY SMTT(30), <2>1 DEF Unlocks
    <3>3. r \in {1, 7} => (Locks(y, m) <=> m = b)
      BY <2>1 DEF Locks
    <3>4. \A j \in Follows(y, k) :
             j = 9 * b + r + 1 \/ (r = 5 /\ j = 9 * b + 8)
      BY <2>1 DEF Follows
    <3> HIDE DEF y
    <3>5. k = 9 * b + r
      BY <2>1
    <3>6. CASE b = 0
      BY SMTT(30), <3>1, <3>2, <3>3, <3>4, <3>5, <3>6
    <3>7. CASE b = 1
      BY <3>1, <3>2, <3>3, <3>4, <3>5, <3>7
    <3> QED
      BY <3>6, <3>7
  <2> QED
    BY <2>2, <2>3 DEF y
<1>4. CASE p = "mpsc"
  <2>1. \/ y[1] \in {"down", "up"} /\ y[2] \in 0..2
        \/ y[1] = "load" /\ y[2] \in Variables
        \/ y[1] \in {"put", "get"}
        \/ y[1] = "add" /\ y[2] \in Variables /\ y[3] = BUFFER_SIZE
    <3> DEFINE a == Place(k, 7)
    <3>1. /\ a \in 1..7
          /\ a \in {1, 7} => y[1] \in {"down", "up"} /\ y[2] \in {1, 2}
          /\ a \in {2, 6} => y[1] \in {"down", "up"} /\ y[2] = 0
          /\ a = 3 => y[1] = "load" /\ y[2] \in {"TAIL", "FRONT"}
          /\ a = 4 => y[1] \in {"put", "get"}
          /\ a = 5 => /\ y[1] = "add" /\ y[2] \in {"TAIL", "FRONT"}
                     /\ y[3] = BUFFER_SIZE
      <4>1. /\ t \in DOMAIN code["mpsc"] /\ k \in 1..Len(code["mpsc"][t])
            /\ y = code["mpsc"][t][k]
        BY <1>4
      <4> HIDE DEF y
      <4> QED
        BY SMTT(30), <4>1, MpscAt DEF SEM_MUTEX, SEM_AVAIL, SEM_EMPTY
    <3> HIDE DEF y, a
    <3> QED
      BY <3>1 DEF Variables
  <2> HIDE DEF y
  <2>2. WellMade(p, y, k)
    <3>1. BUFFER_SIZE \in Nat \ {0} /\ k + 1 \in Nat \ {0}
      BY <1>0, SyncAssumption
    <3> QED
      BY <1>4, <2>1, <3>1 DEF WellMade, Follows
  <2>3. LocksWell(p, t, y, k)
    BY <1>0, <1>4, <2>1 DEF LocksWell, Within, Follows, Locks, Unlocks
  <2> QED
    BY <2>2, <2>3 DEF y
<1>5. CASE p \in {"condsync_condvar", "condsync_sem"}
  <2>1. /\ t \in {0, 1} /\ k \in 1..7 /\ (t = 0 => k <= 4)
        /\ k = 1 => y[1] = "lock" /\ y[2] = 0
        /\ t = 0 =>
              /\ k = 2 => y[1] = "set" /\ y[2] = "A" /\ y[3] = 1
              /\ k = 3 => y[1] \in {"up", "signal"} /\ y[2] = 0
              /\ k = 4 => y[1] = "unlock" /\ y[2] = 0
        /\ t = 1 =>
              /\ k = 2 => y[1] = "load" /\ y[2] = "A"
              /\ k = 3 => y[1] = "jump_if" /\ y[2] = 1 /\ y[3] = 7
              /\ k = 4 => IF p = "condsync_sem"
                         THEN y[1] = "unlock" /\ y[2] = 0
                         ELSE y[1] = "wait" /\ y[2] = 0 /\ y[3] = 0
              /\ k = 5 => /\ y[1] = IF p = "condsync_sem" THEN "down"
                                    ELSE "lock"
                         /\ y[2] = 0
              /\ k = 6 => /\ y[1] = "jump"
                         /\ y[2] = IF p = "condsync_sem" THEN 1 ELSE 2
              /\ k = 7 => y[1] = "unlock" /\ y[2] = 0
    BY SMTT(30), <1>5, CondsyncAt
  <2> HIDE DEF y
  <2>2. WellMade(p, y, k)
    BY SMTT(30), <1>0, <1>5, <2>1 DEF WellMade, Follows, Variables
  <2>3. LocksWell(p, t, y, k)
    BY <1>0, <1>5, <2>1 DEF LocksWell, Within, Follows, Locks, Unlocks
  <2> QED
    BY <2>2, <2>3 DEF y
<1>6. CASE p = "sync_sem"
  <2>1. y[1] = "work" \/ (y[1] \in {"up", "down"} /\ y[2] = 0)
    BY <1>6, SyncSemAt
  <2> HIDE DEF y
  <2>2. WellMade(p, y, k)
    BY <1>0, <2>1 DEF WellMade, Follows
  <2>3. LocksWell(p, t, y, k)
    BY <1>0, <1>6, <2>1 DEF LocksWell, Within, Follows, Locks, Unlocks
  <2> QED
    BY <2>2, <2>3 DEF y
<1> QED
  BY <1>1, <1>2, <1>3, <1>4, <1>5, <1>6 DEF Programs

-----------------------------------------------------------------------------
(* Threads that wait                                                       *)

SyncType ==
    /\ program \in Programs
    /\ ip \in [DOMAIN code[program] -> Nat \ {0}]
    /\ reg \in [DOMAIN code[program] -> Nat]
    /\ mem \in [Variables -> Nat]
    /\ blocked \subseteq Here
    /\ locked \subseteq Mutexes
    /\ mutex_queue \in [Mutexes -> Seq(Here)]
    /\ count \in [0..2 -> Int]
    /\ sem_queue \in [0..2 -> Seq(Here)]
    /\ condvar_queue \in [0..1 -> Seq(Here)]

\* The call that a thread has made last.
Prior(t) == code[program][t][ip[t] - 1]
IsIn(t, op, x) == t \in blocked /\ Prior(t)[1] = op /\ Prior(t)[2] = x

\* Whoever is in a queue is there once, is blocked, and has made the call that
\* put it there: it is in no other queue.  A semaphore that is below 0 says how
\* many wait for it.
Waiting ==
    /\ \A m \in Mutexes : /\ IsInjective(mutex_queue[m])
                          /\ \A t \in Range(mutex_queue[m]) : IsIn(t, "lock", m)
    /\ \A s \in 0..2 : /\ IsInjective(sem_queue[s])
                       /\ \A t \in Range(sem_queue[s]) : IsIn(t, "down", s)
                       /\ Len(sem_queue[s]) =
                             IF count[s] < 0 THEN 0 - count[s] ELSE 0
    /\ \A c \in 0..1 : /\ IsInjective(condvar_queue[c])
                       /\ \A t \in Range(condvar_queue[c]) : IsIn(t, "wait", c)

\* A thread has a mutex: it is inside, and it does not wait for it.
Owns(t, m) == Within(program, t, m, ip[t]) /\ t \notin Range(mutex_queue[m])

\* A mutex has at most one owner, and none when it is free.
OneOwner ==
    \A m \in Mutexes :
        /\ m \notin locked => mutex_queue[m] = <<>>
        /\ \A t \in Here : Owns(t, m) => m \in locked
        /\ \A t, u \in Here : Owns(t, m) /\ Owns(u, m) => t = u

QueueInv == SyncType /\ Waiting /\ OneOwner

\* What every step of thread t does to it.
LEMMA StepFacts ==
    ASSUME SyncType, NEW t, SyncStep(t)
    PROVE  /\ t \in Here /\ Here = DOMAIN code[program] /\ t \notin blocked
           /\ ip[t] \in 1..Len(code[program][t]) /\ ip[t] \in Nat \ {0}
           /\ WellMade(program, Instruction(t), ip[t])
           /\ LocksWell(program, t, Instruction(t), ip[t])
           /\ program' = program
           /\ \E j \in Follows(Instruction(t), ip[t]) :
                 ip' = [ip EXCEPT ![t] = j]
           /\ ip' \in [DOMAIN code[program] -> Nat \ {0}]
           /\ Here' = Here
<1>1. t \in Here /\ Here = DOMAIN code[program] /\ ip[t] \in Nat \ {0}
  BY DEF SyncStep, SyncType, Here
<1>2. t \notin blocked /\ ~Ended(t) /\ program' = program
  BY DEF SyncStep, access, jump, mutex_lock, mutex_lock_spin, mutex_unlock,
         condvar_wait, condvar_signal, semaphore_up, semaphore_down, At
<1>3. ip[t] \in 1..Len(code[program][t])
  BY SMTT(30), <1>1, <1>2, CodeLengths DEF SyncType, Ended
<1>4. /\ WellMade(program, Instruction(t), ip[t])
      /\ LocksWell(program, t, Instruction(t), ip[t])
  BY <1>1, <1>3, CodeIsSound DEF SyncType, Instruction
<1>5. PICK j \in Follows(Instruction(t), ip[t]) : ip' = [ip EXCEPT ![t] = j]
  <2>1. CASE jump(t)
    BY <2>1 DEF jump, At, Follows
  <2>2. CASE ~jump(t)
    <3>1. /\ ip' = [ip EXCEPT ![t] = ip[t] + 1]
          /\ Instruction(t)[1] \notin {"jump", "jump_if"}
      BY <2>2
      DEF SyncStep, access, mutex_lock, mutex_lock_spin, mutex_unlock,
          condvar_wait, condvar_signal, semaphore_up, semaphore_down, At,
          Advance
    <3> QED
      BY <3>1 DEF Follows
  <2> QED
    BY <2>1, <2>2
<1>6. j \in Nat \ {0}
  BY <1>4, <1>5 DEF WellMade
<1>7. ip' \in [DOMAIN code[program] -> Nat \ {0}]
  BY <1>5, <1>6 DEF SyncType
<1>8. Here' = Here
  BY <1>1, <1>7 DEF Here
<1> QED
  BY <1>1, <1>2, <1>3, <1>4, <1>5, <1>7, <1>8

\* A thread is in one queue at most, and the one that makes a step in none.
LEMMA Apart ==
    ASSUME SyncType, Waiting, NEW u
    PROVE  /\ u \notin blocked =>
                 /\ \A m \in Mutexes : u \notin Range(mutex_queue[m])
                 /\ \A s \in 0..2 : u \notin Range(sem_queue[s])
                 /\ \A c \in 0..1 : u \notin Range(condvar_queue[c])
           /\ \A m \in Mutexes : u \in Range(mutex_queue[m]) =>
                 /\ \A x \in Mutexes : x # m => u \notin Range(mutex_queue[x])
                 /\ \A s \in 0..2 : u \notin Range(sem_queue[s])
                 /\ \A c \in 0..1 : u \notin Range(condvar_queue[c])
           /\ \A s \in 0..2 : u \in Range(sem_queue[s]) =>
                 /\ \A x \in 0..2 : x # s => u \notin Range(sem_queue[x])
                 /\ \A c \in 0..1 : u \notin Range(condvar_queue[c])
           /\ \A c \in 0..1 : u \in Range(condvar_queue[c]) =>
                 \A x \in 0..1 : x # c => u \notin Range(condvar_queue[x])
BY SMTT(30) DEF Waiting, IsIn

\* Who waits does not move.
LEMMA Unmoved ==
    ASSUME SyncType, NEW t \in Here, NEW u \in Here, u # t, NEW j,
           ip' = [ip EXCEPT ![t] = j], program' = program, u \in blocked',
           NEW op, NEW x, IsIn(u, op, x)
    PROVE  IsIn(u, op, x)'
<1>1. ip'[u] = ip[u]
  BY DEF SyncType, Here
<1> QED
  BY <1>1 DEF IsIn, Prior

\* What a step does to the objects of the kernel, by the operand of the call.
Calls(t, op, x) == Instruction(t)[1] = op /\ Instruction(t)[2] = x
Effect(t) ==
    \/ /\ Instruction(t)[1] \notin {"lock", "spin_lock", "unlock", "wait",
                                   "signal", "up", "down"}
       /\ UNCHANGED <<blocked, objects>>
    \/ \E m \in Mutexes :
          /\ Calls(t, "lock", m) /\ Acquire(m, t)
          /\ UNCHANGED <<count, sem_queue, condvar_queue>>
    \/ \E m \in Mutexes :
          /\ Calls(t, "spin_lock", m) /\ m \notin locked
          /\ locked' = locked \cup {m}
          /\ UNCHANGED <<blocked, mutex_queue, count, sem_queue, condvar_queue>>
    \/ \E m \in Mutexes :
          /\ Calls(t, "unlock", m) /\ Release(m, {})
          /\ UNCHANGED <<count, sem_queue, condvar_queue>>
    \/ \E c \in 0..1, m \in Mutexes :
          /\ Calls(t, "wait", c) /\ Instruction(t)[3] = m /\ Release(m, {t})
          /\ condvar_queue' =
                [condvar_queue EXCEPT ![c] = Append(condvar_queue[c], t)]
          /\ UNCHANGED <<count, sem_queue>>
    \/ \E c \in 0..1 :
          /\ Calls(t, "signal", c) /\ Wake(c)
          /\ UNCHANGED <<locked, mutex_queue, count, sem_queue>>
    \/ \E s \in 0..2 :
          /\ Calls(t, "up", s) /\ GiveToken(s)
          /\ UNCHANGED <<locked, mutex_queue, condvar_queue>>
    \/ \E s \in 0..2 :
          /\ Calls(t, "down", s) /\ TakeToken(s, t)
          /\ UNCHANGED <<locked, mutex_queue, condvar_queue>>

LEMMA StepEffect ==
    ASSUME SyncType, NEW t, SyncStep(t)
    PROVE  /\ Effect(t)
           /\ Instruction(t)[1] \notin {"jump", "jump_if"} =>
                 ip' = [ip EXCEPT ![t] = ip[t] + 1]
<1>1. WellMade(program, Instruction(t), ip[t])
  BY StepFacts
<1> DEFINE y == Instruction(t)
<1>2. /\ y[1] \in {"lock", "spin_lock", "unlock"} => y[2] \in Mutexes
      /\ y[1] = "wait" => y[2] \in 0..1 /\ y[3] \in Mutexes
      /\ y[1] = "signal" => y[2] \in 0..1
      /\ y[1] \in {"up", "down"} => y[2] \in 0..2
  BY <1>1 DEF WellMade
<1> HIDE DEF y
<1>3. CASE access(t)
  BY <1>3 DEF access, Effect, At, Advance
<1>4. CASE jump(t)
  BY <1>4 DEF jump, Effect, At
<1>5. CASE mutex_lock(t)
  <2>1. y[2] \in Mutexes
    BY <1>2, <1>5 DEF mutex_lock, At, y
  <2> QED
    BY <1>5, <2>1 DEF mutex_lock, Effect, At, Calls, y, Advance
<1>6. CASE mutex_lock_spin(t)
  <2>1. y[2] \in Mutexes
    BY <1>2, <1>6 DEF mutex_lock_spin, At, y
  <2> QED
    BY <1>6, <2>1 DEF mutex_lock_spin, Effect, At, Calls, y, Advance
<1>7. CASE mutex_unlock(t)
  <2>1. y[2] \in Mutexes
    BY <1>2, <1>7 DEF mutex_unlock, At, y
  <2> QED
    BY <1>7, <2>1 DEF mutex_unlock, Effect, At, Calls, y, Advance
<1>8. CASE condvar_wait(t)
  <2>1. y[2] \in 0..1 /\ y[3] \in Mutexes
    BY <1>2, <1>8 DEF condvar_wait, At, y
  <2> QED
    BY <1>8, <2>1 DEF condvar_wait, Effect, At, Calls, y, Advance
<1>9. CASE condvar_signal(t)
  <2>1. y[2] \in 0..1
    BY <1>2, <1>9 DEF condvar_signal, At, y
  <2> QED
    BY <1>9, <2>1 DEF condvar_signal, Effect, At, Calls, y, Advance
<1>10. CASE semaphore_up(t)
  <2>1. y[2] \in 0..2
    BY <1>2, <1>10 DEF semaphore_up, At, y
  <2> QED
    BY <1>10, <2>1 DEF semaphore_up, Effect, At, Calls, y, Advance
<1>11. CASE semaphore_down(t)
  <2>1. y[2] \in 0..2
    BY <1>2, <1>11 DEF semaphore_down, At, y
  <2> QED
    BY <1>11, <2>1 DEF semaphore_down, Effect, At, Calls, y, Advance
<1> QED
  BY <1>3, <1>4, <1>5, <1>6, <1>7, <1>8, <1>9, <1>10, <1>11 DEF SyncStep

\* A semaphore below 0 has somebody in its queue.
LEMMA SomebodyWaits ==
    ASSUME SyncType, Waiting, NEW s \in 0..2, count[s] < 0
    PROVE  sem_queue[s] \in Seq(Here) /\ sem_queue[s] # <<>>
<1>1. sem_queue[s] \in Seq(Here) /\ Len(sem_queue[s]) > 0
  BY DEF SyncType, Waiting
<1> QED
  BY <1>1, EmptySeq

LEMMA TypeStep ==
    ASSUME SyncType, Waiting, NEW t, SyncStep(t)
    PROVE  SyncType'
<1>1. /\ t \in Here /\ Here = DOMAIN code[program] /\ program' = program
      /\ ip' \in [DOMAIN code[program] -> Nat \ {0}] /\ Here' = Here
      /\ WellMade(program, Instruction(t), ip[t])
  BY StepFacts
<1> DEFINE y == Instruction(t)
<1> HIDE DEF y
<1>2. /\ y[1] \in {"lock", "spin_lock", "unlock"} => y[2] \in Mutexes
      /\ y[1] = "wait" => y[2] \in 0..1 /\ y[3] \in Mutexes
      /\ y[1] = "signal" => y[2] \in 0..1
      /\ y[1] \in {"up", "down"} => y[2] \in 0..2
      /\ y[1] \in {"load", "set", "inc", "add"} => y[2] \in Variables
      /\ y[1] = "set" => y[3] \in Nat
      /\ y[1] = "add" => y[3] \in Nat \ {0}
  BY <1>1 DEF WellMade, y
<1>3. /\ \A m \in Mutexes : mutex_queue[m] \in Seq(Here)
      /\ \A s \in 0..2 : sem_queue[s] \in Seq(Here)
      /\ \A c \in 0..1 : condvar_queue[c] \in Seq(Here)
  BY DEF SyncType
<1>4. /\ \A m \in Mutexes : Append(mutex_queue[m], t) \in Seq(Here)
      /\ \A s \in 0..2 : Append(sem_queue[s], t) \in Seq(Here)
      /\ \A c \in 0..1 : Append(condvar_queue[c], t) \in Seq(Here)
  BY <1>1, <1>3, AppendFacts
<1>5. /\ \A m \in Mutexes :
            mutex_queue[m] # <<>> => Tail(mutex_queue[m]) \in Seq(Here)
      /\ \A c \in 0..1 :
            condvar_queue[c] # <<>> => Tail(condvar_queue[c]) \in Seq(Here)
  BY <1>3, TailFacts
<1>6. \A s \in 0..2 : count[s] < 0 => Tail(sem_queue[s]) \in Seq(Here)
  BY SomebodyWaits, TailFacts
<1>7. reg' \in [DOMAIN code[program] -> Nat] /\ mem' \in [Variables -> Nat]
  <2>1. CASE access(t)
    <3>1. /\ reg \in [DOMAIN code[program] -> Nat] /\ mem \in [Variables -> Nat]
          /\ reg[t] \in Nat
      BY <1>1 DEF SyncType
    <3>2. CASE y[1] = "load"
      BY <1>2, <2>1, <3>1, <3>2 DEF access, At, y
    <3>3. CASE y[1] = "set"
      BY <1>2, <2>1, <3>1, <3>3 DEF access, At, y
    <3>4. CASE y[1] = "inc"
      BY <1>2, <2>1, <3>1, <3>4 DEF access, At, y
    <3>5. CASE y[1] = "add"
      <4>1. (reg[t] + 1) % y[3] \in Nat
        BY <1>2, <3>1, <3>5
      <4> QED
        BY <1>2, <2>1, <3>1, <3>5, <4>1 DEF access, At, y
    <3>6. CASE y[1] \notin {"load", "set", "inc", "add"}
      BY <2>1, <3>1, <3>6 DEF access, At, y
    <3> QED
      BY <3>2, <3>3, <3>4, <3>5, <3>6
  <2>2. CASE ~access(t)
    BY <2>2
    DEF SyncStep, SyncType, jump, mutex_lock, mutex_lock_spin, mutex_unlock,
        condvar_wait, condvar_signal, semaphore_up, semaphore_down, data
  <2> QED
    BY <2>1, <2>2
<1> DEFINE Objects == /\ blocked \subseteq Here
                      /\ locked \subseteq Mutexes
                      /\ mutex_queue \in [Mutexes -> Seq(Here)]
                      /\ count \in [0..2 -> Int]
                      /\ sem_queue \in [0..2 -> Seq(Here)]
                      /\ condvar_queue \in [0..1 -> Seq(Here)]
<1>8. Objects
  BY DEF SyncType
<1>9. Effect(t)
  BY StepEffect
<1>10. Objects'
  <2>1. CASE UNCHANGED <<blocked, objects>>
    BY <1>1, <1>8, <2>1 DEF objects
  <2>2. ASSUME NEW m \in Mutexes, Acquire(m, t),
               UNCHANGED <<count, sem_queue, condvar_queue>>
        PROVE  Objects'
    BY <1>1, <1>4, <1>8, <2>2 DEF Acquire
  <2>3. ASSUME NEW m \in Mutexes, locked' = locked \cup {m},
               UNCHANGED <<blocked, mutex_queue, count, sem_queue,
                           condvar_queue>>
        PROVE  Objects'
    BY <1>1, <1>8, <2>3
  <2>4. ASSUME NEW m \in Mutexes, Release(m, {}),
               UNCHANGED <<count, sem_queue, condvar_queue>>
        PROVE  Objects'
    BY <1>1, <1>5, <1>8, <2>4 DEF Release
  <2>5. ASSUME NEW c \in 0..1, NEW m \in Mutexes, Release(m, {t}),
               condvar_queue' =
                  [condvar_queue EXCEPT ![c] = Append(condvar_queue[c], t)],
               UNCHANGED <<count, sem_queue>>
        PROVE  Objects'
    BY <1>1, <1>4, <1>5, <1>8, <2>5 DEF Release
  <2>6. ASSUME NEW c \in 0..1, Wake(c),
               UNCHANGED <<locked, mutex_queue, count, sem_queue>>
        PROVE  Objects'
    BY <1>1, <1>5, <1>8, <2>6 DEF Wake
  <2>7. ASSUME NEW s \in 0..2, GiveToken(s),
               UNCHANGED <<locked, mutex_queue, condvar_queue>>
        PROVE  Objects'
    <3>1. count[s] + 1 \in Int
      BY <1>8
    <3> QED
      BY <1>1, <1>6, <1>8, <2>7, <3>1 DEF GiveToken
  <2>8. ASSUME NEW s \in 0..2, TakeToken(s, t),
               UNCHANGED <<locked, mutex_queue, condvar_queue>>
        PROVE  Objects'
    <3>1. count[s] - 1 \in Int
      BY <1>8
    <3> QED
      BY <1>1, <1>4, <1>8, <2>8, <3>1 DEF TakeToken
  <2> HIDE DEF Objects
  <2> QED
    BY <1>9, <2>1, <2>2, <2>3, <2>4, <2>5, <2>6, <2>7, <2>8 DEF Effect
<1> QED
  BY <1>1, <1>7, <1>10 DEF SyncType

LEMMA WaitingStep ==
    ASSUME SyncType, Waiting, NEW t, SyncStep(t)
    PROVE  Waiting'
<1> DEFINE Mutex == \A m \in Mutexes :
                       /\ IsInjective(mutex_queue[m])
                       /\ \A u \in Range(mutex_queue[m]) : IsIn(u, "lock", m)
           Sem == \A s \in 0..2 :
                     /\ IsInjective(sem_queue[s])
                     /\ \A u \in Range(sem_queue[s]) : IsIn(u, "down", s)
                     /\ Len(sem_queue[s]) =
                           IF count[s] < 0 THEN 0 - count[s] ELSE 0
           Cond == \A c \in 0..1 :
                      /\ IsInjective(condvar_queue[c])
                      /\ \A u \in Range(condvar_queue[c]) : IsIn(u, "wait", c)
<1>1. /\ t \in Here /\ t \notin blocked /\ program' = program
      /\ Effect(t)
  BY StepFacts, StepEffect
<1>2. PICK j \in Follows(Instruction(t), ip[t]) : ip' = [ip EXCEPT ![t] = j]
  BY StepFacts
<1>3. Instruction(t)[1] \notin {"jump", "jump_if"} => Prior(t)' = Instruction(t)
  <2>1. SUFFICES ASSUME Instruction(t)[1] \notin {"jump", "jump_if"}
                 PROVE  Prior(t)' = Instruction(t)
    OBVIOUS
  <2>2. ip'[t] = ip[t] + 1 /\ ip[t] \in Nat
    BY <1>1, <2>1, StepEffect DEF SyncType, Here
  <2> QED
    BY <1>1, <2>2 DEF Prior, Instruction
<1>4. /\ \A m \in Mutexes : mutex_queue[m] \in Seq(Here)
      /\ \A s \in 0..2 : sem_queue[s] \in Seq(Here)
      /\ \A c \in 0..1 : condvar_queue[c] \in Seq(Here)
      /\ \A s \in 0..2 : count[s] \in Int
  BY DEF SyncType
<1>5. Mutex /\ Sem /\ Cond
  BY DEF Waiting
<1>6. /\ \A m \in Mutexes : t \notin Range(mutex_queue[m])
      /\ \A s \in 0..2 : t \notin Range(sem_queue[s])
      /\ \A c \in 0..1 : t \notin Range(condvar_queue[c])
  BY <1>1, Apart
<1>7. ASSUME NEW u, NEW op, NEW x, IsIn(u, op, x), u # t, u \in blocked'
      PROVE  IsIn(u, op, x)'
  <2>1. u \in Here
    BY <1>7 DEF IsIn, SyncType
  <2> QED
    BY <1>1, <1>2, <1>7, <2>1, Unmoved
<1>8. ASSUME UNCHANGED mutex_queue,
             \A m \in Mutexes : Range(mutex_queue[m]) \subseteq blocked'
      PROVE  Mutex'
  BY <1>5, <1>6, <1>7, <1>8
<1>9. ASSUME UNCHANGED <<sem_queue, count>>,
             \A s \in 0..2 : Range(sem_queue[s]) \subseteq blocked'
      PROVE  Sem'
  BY <1>5, <1>6, <1>7, <1>9
<1>10. ASSUME UNCHANGED condvar_queue,
              \A c \in 0..1 : Range(condvar_queue[c]) \subseteq blocked'
       PROVE  Cond'
  BY <1>5, <1>6, <1>7, <1>10
<1>11. /\ \A m \in Mutexes : Range(mutex_queue[m]) \subseteq blocked
       /\ \A s \in 0..2 : Range(sem_queue[s]) \subseteq blocked
       /\ \A c \in 0..1 : Range(condvar_queue[c]) \subseteq blocked
  BY <1>5 DEF IsIn
<1> HIDE DEF Mutex, Sem, Cond
<1>12. ASSUME NEW m \in Mutexes, NEW more \in SUBSET {t}, Release(m, more)
       PROVE  /\ Mutex'
              /\ \A s \in 0..2 : Range(sem_queue[s]) \subseteq blocked'
              /\ \A c \in 0..1 : Range(condvar_queue[c]) \subseteq blocked'
              /\ more \subseteq blocked'
  <2>1. CASE mutex_queue[m] = <<>>
    BY <1>8, <1>11, <1>12, <2>1 DEF Release
  <2>2. CASE mutex_queue[m] # <<>>
    <3> DEFINE q == mutex_queue[m]
               h == Head(q)
    <3>1. /\ blocked' = (blocked \cup more) \ {h}
          /\ mutex_queue' = [mutex_queue EXCEPT ![m] = Tail(q)]
      BY <1>12, <2>2 DEF Release
    <3>2. /\ Range(q) = Range(Tail(q)) \cup {h} /\ h \notin Range(Tail(q))
          /\ IsInjective(Tail(q))
      BY <1>4, <1>5, <2>2, TailFacts DEF Mutex
    <3>3. /\ \A x \in Mutexes : x # m => h \notin Range(mutex_queue[x])
          /\ \A s \in 0..2 : h \notin Range(sem_queue[s])
          /\ \A c \in 0..1 : h \notin Range(condvar_queue[c])
          /\ h # t
      BY <1>6, <3>2, Apart
    <3>4. /\ mutex_queue'[m] = Tail(q)
          /\ \A x \in Mutexes : x # m => mutex_queue'[x] = mutex_queue[x]
      BY <3>1 DEF SyncType
    <3> HIDE DEF q, h
    <3>5. ASSUME NEW x \in Mutexes
          PROVE  /\ IsInjective(mutex_queue[x])'
                 /\ \A u \in Range(mutex_queue[x])' : IsIn(u, "lock", x)'
      <4>1. CASE x = m
        <5>1. \A u \in Range(Tail(q)) :
                 u # t /\ u \in blocked' /\ IsIn(u, "lock", m)
          BY <1>5, <1>6, <1>11, <3>1, <3>2 DEF Mutex, q
        <5> QED
          BY <1>7, <3>2, <3>4, <4>1, <5>1
      <4>2. CASE x # m
        <5>1. \A u \in Range(mutex_queue[x]) :
                 u # t /\ u \in blocked' /\ IsIn(u, "lock", x)
          BY <1>5, <1>6, <1>11, <3>1, <3>3, <4>2 DEF Mutex
        <5> QED
          BY <1>5, <1>7, <3>4, <4>2, <5>1 DEF Mutex
      <4> QED
        BY <4>1, <4>2
    <3>6. Mutex'
      BY <3>5 DEF Mutex
    <3> QED
      BY <1>11, <1>12, <3>1, <3>3, <3>6
  <2> QED
    BY <2>1, <2>2
<1>13. CASE UNCHANGED <<blocked, objects>>
  BY <1>8, <1>9, <1>10, <1>11, <1>13 DEF Waiting, Mutex, Sem, Cond, objects
<1>14. ASSUME NEW m \in Mutexes, Calls(t, "lock", m), Acquire(m, t),
              UNCHANGED <<count, sem_queue, condvar_queue>>
       PROVE  Waiting'
  <2>1. CASE m \notin locked
    BY <1>8, <1>9, <1>10, <1>11, <1>14, <2>1
    DEF Waiting, Mutex, Sem, Cond, Acquire
  <2>2. CASE m \in locked
    <3> DEFINE q == mutex_queue[m]
    <3>1. /\ blocked' = blocked \cup {t}
          /\ mutex_queue' = [mutex_queue EXCEPT ![m] = Append(q, t)]
      BY <1>14, <2>2 DEF Acquire
    <3>2. /\ Range(Append(q, t)) = Range(q) \cup {t}
          /\ IsInjective(Append(q, t))
      BY <1>1, <1>4, <1>5, <1>6, AppendFacts DEF Mutex
    <3>3. /\ mutex_queue'[m] = Append(q, t)
          /\ \A x \in Mutexes : x # m => mutex_queue'[x] = mutex_queue[x]
      BY <3>1 DEF SyncType
    <3>4. IsIn(t, "lock", m)'
      BY <1>3, <1>14, <3>1 DEF IsIn, Calls
    <3> HIDE DEF q
    <3>5. ASSUME NEW x \in Mutexes
          PROVE  /\ IsInjective(mutex_queue[x])'
                 /\ \A u \in Range(mutex_queue[x])' : IsIn(u, "lock", x)'
      <4>1. \A u \in Range(mutex_queue[x]) :
               u # t /\ u \in blocked' /\ IsIn(u, "lock", x)
        BY <1>5, <1>6, <1>11, <3>1 DEF Mutex
      <4>2. CASE x = m
        BY <1>7, <3>2, <3>3, <3>4, <4>1, <4>2 DEF q
      <4>3. CASE x # m
        BY <1>5, <1>7, <3>3, <4>1, <4>3 DEF Mutex
      <4> QED
        BY <4>2, <4>3
    <3>6. Mutex'
      BY <3>5 DEF Mutex
    <3>7. Sem' /\ Cond'
      BY <1>9, <1>10, <1>11, <1>14, <3>1
    <3> QED
      BY <3>6, <3>7 DEF Waiting, Mutex, Sem, Cond
  <2> QED
    BY <2>1, <2>2
<1>15. ASSUME NEW m \in Mutexes, locked' = locked \cup {m},
              UNCHANGED <<blocked, mutex_queue, count, sem_queue,
                          condvar_queue>>
       PROVE  Waiting'
  BY <1>8, <1>9, <1>10, <1>11, <1>15 DEF Waiting, Mutex, Sem, Cond
<1>16. ASSUME NEW m \in Mutexes, Release(m, {}),
              UNCHANGED <<count, sem_queue, condvar_queue>>
       PROVE  Waiting'
  BY <1>9, <1>10, <1>12, <1>16 DEF Waiting, Mutex, Sem, Cond
<1>17. ASSUME NEW c \in 0..1, NEW m \in Mutexes, Calls(t, "wait", c),
              Release(m, {t}),
              condvar_queue' =
                 [condvar_queue EXCEPT ![c] = Append(condvar_queue[c], t)],
              UNCHANGED <<count, sem_queue>>
       PROVE  Waiting'
  <2> DEFINE q == condvar_queue[c]
  <2>1. /\ Mutex' /\ t \in blocked'
        /\ \A s \in 0..2 : Range(sem_queue[s]) \subseteq blocked'
        /\ \A x \in 0..1 : Range(condvar_queue[x]) \subseteq blocked'
    BY <1>12, <1>17
  <2>2. /\ Range(Append(q, t)) = Range(q) \cup {t}
        /\ IsInjective(Append(q, t))
    BY <1>1, <1>4, <1>5, <1>6, AppendFacts DEF Cond
  <2>3. /\ condvar_queue'[c] = Append(q, t)
        /\ \A x \in 0..1 : x # c => condvar_queue'[x] = condvar_queue[x]
    BY <1>17 DEF SyncType
  <2>4. IsIn(t, "wait", c)'
    BY <1>3, <1>17, <2>1 DEF IsIn, Calls
  <2> HIDE DEF q
  <2>5. ASSUME NEW x \in 0..1
        PROVE  /\ IsInjective(condvar_queue[x])'
               /\ \A u \in Range(condvar_queue[x])' : IsIn(u, "wait", x)'
    <3>1. \A u \in Range(condvar_queue[x]) :
             u # t /\ u \in blocked' /\ IsIn(u, "wait", x)
      BY <1>5, <1>6, <2>1 DEF Cond
    <3>2. CASE x = c
      BY <1>7, <2>2, <2>3, <2>4, <3>1, <3>2 DEF q
    <3>3. CASE x # c
      BY <1>5, <1>7, <2>3, <3>1, <3>3 DEF Cond
    <3> QED
      BY <3>2, <3>3
  <2>6. Cond'
    BY <2>5 DEF Cond
  <2>7. Sem'
    BY <1>9, <1>17, <2>1
  <2> QED
    BY <2>1, <2>6, <2>7 DEF Waiting, Mutex, Sem, Cond
<1>18. ASSUME NEW c \in 0..1, Wake(c),
              UNCHANGED <<locked, mutex_queue, count, sem_queue>>
       PROVE  Waiting'
  <2>1. CASE condvar_queue[c] = <<>>
    BY <1>8, <1>9, <1>10, <1>11, <1>18, <2>1
    DEF Waiting, Mutex, Sem, Cond, Wake
  <2>2. CASE condvar_queue[c] # <<>>
    <3> DEFINE q == condvar_queue[c]
               h == Head(q)
    <3>1. /\ blocked' = blocked \ {h}
          /\ condvar_queue' = [condvar_queue EXCEPT ![c] = Tail(q)]
      BY <1>18, <2>2 DEF Wake
    <3>2. /\ Range(q) = Range(Tail(q)) \cup {h} /\ h \notin Range(Tail(q))
          /\ IsInjective(Tail(q))
      BY <1>4, <1>5, <2>2, TailFacts DEF Cond
    <3>3. /\ \A x \in 0..1 : x # c => h \notin Range(condvar_queue[x])
          /\ \A m \in Mutexes : h \notin Range(mutex_queue[m])
          /\ \A s \in 0..2 : h \notin Range(sem_queue[s])
      BY <3>2, Apart
    <3>4. /\ condvar_queue'[c] = Tail(q)
          /\ \A x \in 0..1 : x # c => condvar_queue'[x] = condvar_queue[x]
      BY <3>1 DEF SyncType
    <3> HIDE DEF q, h
    <3>5. ASSUME NEW x \in 0..1
          PROVE  /\ IsInjective(condvar_queue[x])'
                 /\ \A u \in Range(condvar_queue[x])' : IsIn(u, "wait", x)'
      <4>1. CASE x = c
        <5>1. \A u \in Range(Tail(q)) :
                 u # t /\ u \in blocked' /\ IsIn(u, "wait", c)
          BY <1>5, <1>6, <1>11, <3>1, <3>2 DEF Cond, q
        <5> QED
          BY <1>7, <3>2, <3>4, <4>1, <5>1
      <4>2. CASE x # c
        <5>1. \A u \in Range(condvar_queue[x]) :
                 u # t /\ u \in blocked' /\ IsIn(u, "wait", x)
          BY <1>5, <1>6, <1>11, <3>1, <3>3, <4>2 DEF Cond
        <5> QED
          BY <1>5, <1>7, <3>4, <4>2, <5>1 DEF Cond
      <4> QED
        BY <4>1, <4>2
    <3>6. Cond'
      BY <3>5 DEF Cond
    <3>7. Mutex' /\ Sem'
      BY <1>8, <1>9, <1>11, <1>18, <3>1, <3>3
    <3> QED
      BY <3>6, <3>7 DEF Waiting, Mutex, Sem, Cond
  <2> QED
    BY <2>1, <2>2
<1>19. ASSUME NEW s \in 0..2, GiveToken(s),
              UNCHANGED <<locked, mutex_queue, condvar_queue>>
       PROVE  Waiting'
  <2>1. /\ count'[s] = count[s] + 1
        /\ \A x \in 0..2 : x # s => count'[x] = count[x]
    BY <1>19 DEF GiveToken, SyncType
  <2>2. CASE ~(count[s] < 0)
    <3>1. UNCHANGED <<blocked, sem_queue>>
      BY <1>19, <2>2 DEF GiveToken
    <3>2. ASSUME NEW x \in 0..2
          PROVE  /\ IsInjective(sem_queue[x])'
                 /\ \A u \in Range(sem_queue[x])' : IsIn(u, "down", x)'
                 /\ Len(sem_queue[x])' = IF count'[x] < 0 THEN 0 - count'[x] ELSE 0
      <4>1. \A u \in Range(sem_queue[x]) :
               u # t /\ u \in blocked' /\ IsIn(u, "down", x)
        BY <1>5, <1>6, <1>11, <3>1 DEF Sem
      <4>2. Len(sem_queue[x]) = IF count'[x] < 0 THEN 0 - count'[x] ELSE 0
        BY SMTT(30), <1>4, <1>5, <2>1, <2>2 DEF Sem
      <4> QED
        BY <1>5, <1>7, <3>1, <4>1, <4>2 DEF Sem
    <3>3. Sem'
      BY <3>2 DEF Sem
    <3> QED
      BY <1>8, <1>10, <1>11, <1>19, <3>1, <3>3 DEF Waiting, Mutex, Sem, Cond
  <2>3. CASE count[s] < 0
    <3> DEFINE q == sem_queue[s]
               h == Head(q)
    <3>1. /\ blocked' = blocked \ {h}
          /\ sem_queue' = [sem_queue EXCEPT ![s] = Tail(q)]
      BY <1>19, <2>3 DEF GiveToken
    <3>2. /\ Range(q) = Range(Tail(q)) \cup {h} /\ h \notin Range(Tail(q))
          /\ IsInjective(Tail(q)) /\ Len(Tail(q)) = Len(q) - 1
      BY <1>4, <1>5, <2>3, TailFacts, SomebodyWaits DEF Sem
    <3>3. /\ \A x \in 0..2 : x # s => h \notin Range(sem_queue[x])
          /\ \A m \in Mutexes : h \notin Range(mutex_queue[m])
          /\ \A c \in 0..1 : h \notin Range(condvar_queue[c])
      BY <3>2, Apart
    <3>4. /\ sem_queue'[s] = Tail(q)
          /\ \A x \in 0..2 : x # s => sem_queue'[x] = sem_queue[x]
      BY <3>1 DEF SyncType
    <3> HIDE DEF q, h
    <3>5. ASSUME NEW x \in 0..2
          PROVE  /\ IsInjective(sem_queue[x])'
                 /\ \A u \in Range(sem_queue[x])' : IsIn(u, "down", x)'
                 /\ Len(sem_queue[x])' = IF count'[x] < 0 THEN 0 - count'[x] ELSE 0
      <4>1. CASE x = s
        <5>1. \A u \in Range(Tail(q)) :
                 u # t /\ u \in blocked' /\ IsIn(u, "down", s)
          BY <1>5, <1>6, <1>11, <3>1, <3>2 DEF Sem, q
        <5>2. Len(Tail(q)) = IF count'[s] < 0 THEN 0 - count'[s] ELSE 0
          <6>1. Len(q) = 0 - count[s]
            BY <1>5, <2>3 DEF Sem, q
          <6> QED
            BY SMTT(30), <1>4, <2>1, <2>3, <3>2, <6>1
        <5> QED
          BY <1>7, <3>2, <3>4, <4>1, <5>1, <5>2
      <4>2. CASE x # s
        <5>1. \A u \in Range(sem_queue[x]) :
                 u # t /\ u \in blocked' /\ IsIn(u, "down", x)
          BY <1>5, <1>6, <1>11, <3>1, <3>3, <4>2 DEF Sem
        <5> QED
          BY <1>5, <1>7, <2>1, <3>4, <4>2, <5>1 DEF Sem
      <4> QED
        BY <4>1, <4>2
    <3>6. Sem'
      BY <3>5 DEF Sem
    <3>7. Mutex' /\ Cond'
      BY <1>8, <1>10, <1>11, <1>19, <3>1, <3>3
    <3> QED
      BY <3>6, <3>7 DEF Waiting, Mutex, Sem, Cond
  <2> QED
    BY <2>2, <2>3
<1>20. ASSUME NEW s \in 0..2, Calls(t, "down", s), TakeToken(s, t),
              UNCHANGED <<locked, mutex_queue, condvar_queue>>
       PROVE  Waiting'
  <2>1. /\ count'[s] = count[s] - 1
        /\ \A x \in 0..2 : x # s => count'[x] = count[x]
    BY <1>20 DEF TakeToken, SyncType
  <2>2. CASE ~(count[s] <= 0)
    <3>1. UNCHANGED <<blocked, sem_queue>>
      BY <1>20, <2>2 DEF TakeToken
    <3>2. ASSUME NEW x \in 0..2
          PROVE  /\ IsInjective(sem_queue[x])'
                 /\ \A u \in Range(sem_queue[x])' : IsIn(u, "down", x)'
                 /\ Len(sem_queue[x])' = IF count'[x] < 0 THEN 0 - count'[x] ELSE 0
      <4>1. \A u \in Range(sem_queue[x]) :
               u # t /\ u \in blocked' /\ IsIn(u, "down", x)
        BY <1>5, <1>6, <1>11, <3>1 DEF Sem
      <4>2. Len(sem_queue[x]) = IF count'[x] < 0 THEN 0 - count'[x] ELSE 0
        BY SMTT(30), <1>4, <1>5, <2>1, <2>2 DEF Sem
      <4> QED
        BY <1>5, <1>7, <3>1, <4>1, <4>2 DEF Sem
    <3>3. Sem'
      BY <3>2 DEF Sem
    <3> QED
      BY <1>8, <1>10, <1>11, <1>20, <3>1, <3>3 DEF Waiting, Mutex, Sem, Cond
  <2>3. CASE count[s] <= 0
    <3> DEFINE q == sem_queue[s]
    <3>1. /\ blocked' = blocked \cup {t}
          /\ sem_queue' = [sem_queue EXCEPT ![s] = Append(q, t)]
      BY <1>20, <2>3 DEF TakeToken
    <3>2. /\ Range(Append(q, t)) = Range(q) \cup {t}
          /\ IsInjective(Append(q, t)) /\ Len(Append(q, t)) = Len(q) + 1
      BY <1>1, <1>4, <1>5, <1>6, AppendFacts DEF Sem
    <3>3. /\ sem_queue'[s] = Append(q, t)
          /\ \A x \in 0..2 : x # s => sem_queue'[x] = sem_queue[x]
      BY <3>1 DEF SyncType
    <3>4. IsIn(t, "down", s)'
      BY <1>3, <1>20, <3>1 DEF IsIn, Calls
    <3> HIDE DEF q
    <3>5. ASSUME NEW x \in 0..2
          PROVE  /\ IsInjective(sem_queue[x])'
                 /\ \A u \in Range(sem_queue[x])' : IsIn(u, "down", x)'
                 /\ Len(sem_queue[x])' = IF count'[x] < 0 THEN 0 - count'[x] ELSE 0
      <4>1. \A u \in Range(sem_queue[x]) :
               u # t /\ u \in blocked' /\ IsIn(u, "down", x)
        BY <1>5, <1>6, <1>11, <3>1 DEF Sem
      <4>2. CASE x = s
        <5>1. Len(Append(q, t)) = IF count'[s] < 0 THEN 0 - count'[s] ELSE 0
          <6>1. Len(q) = 0 - count[s]
            BY SMTT(30), <1>4, <1>5, <2>3 DEF Sem, q
          <6> QED
            BY <1>4, <2>1, <2>3, <3>2, <6>1
        <5> QED
          BY <1>7, <3>2, <3>3, <3>4, <4>1, <4>2, <5>1 DEF q
      <4>3. CASE x # s
        BY <1>5, <1>7, <2>1, <3>3, <4>1, <4>3 DEF Sem
      <4> QED
        BY <4>2, <4>3
    <3>6. Sem'
      BY <3>5 DEF Sem
    <3>7. Mutex' /\ Cond'
      BY <1>8, <1>10, <1>11, <1>20, <3>1
    <3> QED
      BY <3>6, <3>7 DEF Waiting, Mutex, Sem, Cond
  <2> QED
    BY <2>2, <2>3
<1> QED
  BY <1>1, <1>13, <1>14, <1>15, <1>16, <1>17, <1>18, <1>19, <1>20 DEF Effect

LEMMA OwnerStep ==
    ASSUME QueueInv, NEW t, SyncStep(t)
    PROVE  OneOwner'
<1> USE DEF QueueInv
<1>1. /\ t \in Here /\ t \notin blocked /\ program' = program /\ Here' = Here
      /\ Effect(t) /\ ip[t] \in Nat
      /\ LocksWell(program, t, Instruction(t), ip[t])
      /\ Instruction(t)[1] \notin {"jump", "jump_if"} =>
            ip' = [ip EXCEPT ![t] = ip[t] + 1]
  BY StepFacts, StepEffect
<1>2. PICK j \in Follows(Instruction(t), ip[t]) : ip' = [ip EXCEPT ![t] = j]
  BY StepFacts
<1>3. ip'[t] = j /\ \A u \in Here : u # t => ip'[u] = ip[u]
  BY <1>1, <1>2 DEF SyncType, Here
<1>4. /\ \A m \in Mutexes : mutex_queue[m] \in Seq(Here)
      /\ \A m \in Mutexes : t \notin Range(mutex_queue[m])
      /\ mutex_queue \in [Mutexes -> Seq(Here)]
  BY <1>1, Apart DEF SyncType
<1> DEFINE In(u, m) == Within(program, u, m, ip[u])
           Free(m) == m \notin locked => mutex_queue[m] = <<>>
           Safe(m) == \A u \in Here : Owns(u, m) => m \in locked
           Once(m) == \A u, v \in Here : Owns(u, m) /\ Owns(v, m) => u = v
<1>5. \A u \in Here, m \in Mutexes :
         /\ u # t => (In(u, m)' <=> In(u, m))
         /\ Owns(u, m) <=> In(u, m) /\ u \notin Range(mutex_queue[m])
         /\ Owns(u, m)' <=> In(u, m)' /\ u \notin Range(mutex_queue[m])'
  BY <1>1, <1>3 DEF Owns
<1>6. \A m \in Mutexes :
         /\ Unlocks(Instruction(t), m) => In(t, m)
         /\ In(t, m)' => In(t, m) \/ Locks(Instruction(t), m)
  BY <1>1, <1>2, <1>3 DEF LocksWell
<1>7. \A m \in Mutexes : Unlocks(Instruction(t), m) => ~In(t, m)'
  <2>1. SUFFICES ASSUME NEW m \in Mutexes, Unlocks(Instruction(t), m)
                 PROVE  ~In(t, m)'
    OBVIOUS
  <2>2. ip'[t] = ip[t] + 1
    BY <1>1, <2>1 DEF Unlocks, SyncType, Here
  <2> QED
    BY <1>1, <2>1, <2>2 DEF LocksWell
<1>8. \A m \in Mutexes : Free(m) /\ Safe(m) /\ Once(m)
  BY DEF OneOwner
<1> HIDE DEF In
\* A mutex that the step is not about.
<1>9. ASSUME NEW m \in Mutexes, ~Locks(Instruction(t), m),
             mutex_queue'[m] = mutex_queue[m], m \in locked' <=> m \in locked
      PROVE  Free(m)' /\ Safe(m)' /\ Once(m)'
  <2>1. \A u \in Here : Owns(u, m)' => Owns(u, m)
    BY <1>5, <1>6, <1>9
  <2> QED
    BY <1>1, <1>8, <1>9, <2>1
\* It is unlocked.
<1>10. ASSUME NEW m \in Mutexes, NEW more, Release(m, more),
              Unlocks(Instruction(t), m), \A x : ~Locks(Instruction(t), x)
       PROVE  OneOwner'
  <2>1. ASSUME NEW x \in Mutexes, x # m
        PROVE  Free(x)' /\ Safe(x)' /\ Once(x)'
    <3>1. mutex_queue'[x] = mutex_queue[x] /\ (x \in locked' <=> x \in locked)
      BY <1>4, <1>10, <2>1 DEF Release
    <3> QED
      BY <1>9, <1>10, <3>1
  <2>2. Owns(t, m) /\ ~Owns(t, m)' /\ m \in locked
    BY <1>1, <1>4, <1>5, <1>6, <1>7, <1>8, <1>10
  <2>3. CASE mutex_queue[m] = <<>>
    <3>1. mutex_queue'[m] = mutex_queue[m]
      BY <1>10, <2>3 DEF Release
    <3>2. \A u \in Here : ~Owns(u, m)'
      BY <1>1, <1>5, <1>8, <2>2, <3>1
    <3>3. Free(m)' /\ Safe(m)' /\ Once(m)'
      BY <1>1, <2>3, <3>1, <3>2
    <3> QED
      BY <1>1, <2>1, <3>3 DEF OneOwner
  <2>4. CASE mutex_queue[m] # <<>>
    <3> DEFINE q == mutex_queue[m]
    <3>1. Range(q) = Range(Tail(q)) \cup {Head(q)}
      BY <1>4, <2>4, TailFacts
    <3>2. mutex_queue'[m] = Tail(q) /\ locked' = locked
      BY <1>4, <1>10, <2>4 DEF Release
    <3> HIDE DEF q
    <3>3. \A u \in Here : Owns(u, m)' => u = Head(q)
      <4>1. SUFFICES ASSUME NEW u \in Here, Owns(u, m)', u # Head(q)
                     PROVE  FALSE
        OBVIOUS
      <4>2. u # t
        BY <2>2, <4>1
      <4>3. Owns(u, m)
        BY <1>5, <3>1, <3>2, <4>1, <4>2 DEF q
      <4> QED
        BY <1>1, <1>8, <2>2, <4>2, <4>3
    <3>4. Free(m)' /\ Safe(m)' /\ Once(m)'
      BY <1>1, <2>2, <3>2, <3>3
    <3> QED
      BY <1>1, <2>1, <3>4 DEF OneOwner
  <2> QED
    BY <2>3, <2>4
\* It was free, and is locked.
<1>11. ASSUME NEW m \in Mutexes, m \notin locked, locked' = locked \cup {m},
              UNCHANGED mutex_queue, \A x : Locks(Instruction(t), x) <=> x = m
       PROVE  OneOwner'
  <2>1. ASSUME NEW x \in Mutexes, x # m
        PROVE  Free(x)' /\ Safe(x)' /\ Once(x)'
    BY <1>9, <1>11, <2>1
  <2>2. \A u \in Here : Owns(u, m)' => u = t
    BY <1>5, <1>8, <1>11
  <2>3. Free(m)' /\ Safe(m)' /\ Once(m)'
    BY <1>1, <1>11, <2>2
  <2> QED
    BY <1>1, <2>1, <2>3 DEF OneOwner
<1>12. ASSUME NEW m \in Mutexes, Calls(t, "lock", m), Acquire(m, t)
       PROVE  OneOwner'
  <2>1. \A x : Locks(Instruction(t), x) <=> x = m
    BY <1>12 DEF Calls, Locks
  <2>2. CASE m \notin locked
    BY <1>11, <1>12, <2>1, <2>2 DEF Acquire
  <2>3. CASE m \in locked
    <3> DEFINE q == mutex_queue[m]
    <3>1. /\ mutex_queue'[m] = Append(q, t) /\ locked' = locked
          /\ \A x \in Mutexes : x # m => mutex_queue'[x] = mutex_queue[x]
      BY <1>4, <1>12, <2>3 DEF Acquire
    <3>2. Range(Append(q, t)) = Range(q) \cup {t}
      BY <1>1, <1>4, AppendFacts
    <3> HIDE DEF q
    <3>3. ASSUME NEW x \in Mutexes, x # m
          PROVE  Free(x)' /\ Safe(x)' /\ Once(x)'
      BY <1>9, <2>1, <3>1, <3>3
    <3>4. \A u \in Here : Owns(u, m)' => Owns(u, m)
      BY <1>5, <3>1, <3>2 DEF q
    <3>5. Free(m)' /\ Safe(m)' /\ Once(m)'
      BY <1>1, <1>8, <2>3, <3>1, <3>4
    <3> QED
      BY <1>1, <3>3, <3>5 DEF OneOwner
  <2> QED
    BY <2>2, <2>3
<1>13. ASSUME UNCHANGED <<locked, mutex_queue>>,
              Instruction(t)[1] \notin {"lock", "spin_lock"}
       PROVE  OneOwner'
  <2>1. \A x : ~Locks(Instruction(t), x)
    BY <1>13 DEF Locks
  <2>2. \A m \in Mutexes : Free(m)' /\ Safe(m)' /\ Once(m)'
    BY <1>9, <1>13, <2>1
  <2> QED
    BY <1>1, <2>2 DEF OneOwner
<1>14. ASSUME NEW m \in Mutexes, Calls(t, "spin_lock", m)
       PROVE  \A x : Locks(Instruction(t), x) <=> x = m
  BY <1>14 DEF Calls, Locks
<1>15. ASSUME NEW m \in Mutexes, Calls(t, "unlock", m)
       PROVE  Unlocks(Instruction(t), m) /\ \A x : ~Locks(Instruction(t), x)
  BY <1>15 DEF Calls, Locks, Unlocks
<1>16. ASSUME NEW c, NEW m \in Mutexes, Calls(t, "wait", c),
              Instruction(t)[3] = m
       PROVE  Unlocks(Instruction(t), m) /\ \A x : ~Locks(Instruction(t), x)
  BY <1>16 DEF Calls, Locks, Unlocks
<1>17. \A x : /\ Calls(t, "up", x) => Instruction(t)[1] \notin {"lock", "spin_lock"}
              /\ Calls(t, "down", x) => Instruction(t)[1] \notin {"lock", "spin_lock"}
              /\ Calls(t, "signal", x) => Instruction(t)[1] \notin {"lock", "spin_lock"}
  BY DEF Calls
<1> QED
  BY <1>1, <1>10, <1>11, <1>12, <1>13, <1>14, <1>15, <1>16, <1>17
  DEF Effect, objects

LEMMA QueueInit == SyncInit => QueueInv
<1> SUFFICES ASSUME SyncInit PROVE QueueInv
  OBVIOUS
<1>1. /\ program \in Programs /\ ip = [t \in DOMAIN code[program] |-> 1]
      /\ Here = DOMAIN code[program]
  BY DEF SyncInit, Here
<1>2. \A S : <<>> \in Seq(S) /\ Len(<<>>) = 0 /\ Range(<<>>) = {}
             /\ IsInjective(<<>>)
  BY DEF Range, IsInjective
<1>3. /\ \A m \in Mutexes : mutex_queue[m] = <<>>
      /\ \A s \in 0..2 : sem_queue[s] = <<>>
      /\ \A c \in 0..1 : condvar_queue[c] = <<>>
  BY DEF SyncInit
<1>4. count \in [0..2 -> Int] /\ \A s \in 0..2 : count[s] >= 0
  <2>1. CASE program = "mpsc"
    <3>1. res_counts[program] = <<1, BUFFER_SIZE, 0>>
      BY <2>1 DEF res_counts, Programs
    <3> QED
      BY <3>1, SyncAssumption DEF SyncInit
  <2>2. CASE program # "mpsc"
    <3>1. res_counts[program] = <<0>>
      BY <1>1, <2>2 DEF res_counts, SyncTokens
    <3> QED
      BY <3>1 DEF SyncInit
  <2> QED
    BY <2>1, <2>2
<1>5. SyncType
  BY <1>1, <1>2, <1>4 DEF SyncInit, SyncType
<1>6. Waiting
  BY <1>2, <1>3, <1>4 DEF Waiting
<1>7. \A t \in Here, m \in Mutexes : ~Owns(t, m)
  <2>1. Place(1, 4) = 1 /\ Place(1, 5) = 1
    BY PlaceFacts
  <2>2. \A p, t, m : ~Within(p, t, m, 1)
    BY <2>1 DEF Within
  <2> QED
    BY <1>1, <2>2 DEF Owns
<1>8. OneOwner
  BY <1>3, <1>7 DEF OneOwner
<1> QED
  BY <1>5, <1>6, <1>8 DEF QueueInv

LEMMA QueueStep ==
    QueueInv /\ [\E t \in Here : SyncStep(t)]_syncVars => QueueInv'
<1> SUFFICES ASSUME QueueInv, [\E t \in Here : SyncStep(t)]_syncVars
             PROVE  QueueInv'
  OBVIOUS
<1>1. ASSUME NEW t, SyncStep(t)
      PROVE  QueueInv'
  BY <1>1, TypeStep, WaitingStep, OwnerStep DEF QueueInv
<1>2. CASE UNCHANGED syncVars
  <2>1. SyncType'
    BY <1>2 DEF QueueInv, SyncType, syncVars, Here
  <2>2. Waiting'
    BY <1>2 DEF QueueInv, Waiting, IsIn, Prior, syncVars
  <2>3. OneOwner'
    BY <1>2 DEF QueueInv, OneOwner, Owns, syncVars, Here
  <2> QED
    BY <2>1, <2>2, <2>3 DEF QueueInv
<1> QED
  BY <1>1, <1>2

\* In every program, each mutex has at most one owner, and who waits for a
\* mutex, a semaphore or a condition variable is in that queue, once.
THEOREM MutexesHaveOneOwner == SyncSpec => []QueueInv
<1>1. SyncInit => QueueInv
  BY QueueInit
<1>2. QueueInv /\ [\E t \in Here : SyncStep(t)]_syncVars => QueueInv'
  BY QueueStep
<1> QED
  BY <1>1, <1>2, PTL DEF SyncSpec

-----------------------------------------------------------------------------
(* What a step does to variables, and whom it blocks                       *)

LEMMA StepData ==
    ASSUME NEW t, SyncStep(t)
    PROVE  LET y == Instruction(t)
           IN  /\ y[1] = "load" =>
                     /\ reg' = [reg EXCEPT ![t] = mem[y[2]]]
                     /\ UNCHANGED <<mem, BUFFER, puts, output>>
               /\ y[1] = "set" =>
                     /\ mem' = [mem EXCEPT ![y[2]] = y[3]]
                     /\ UNCHANGED <<reg, BUFFER, puts, output>>
               /\ y[1] = "inc" =>
                     /\ mem' = [mem EXCEPT ![y[2]] = reg[t] + 1]
                     /\ UNCHANGED <<reg, BUFFER, puts, output>>
               /\ y[1] = "add" =>
                     /\ mem' = [mem EXCEPT ![y[2]] = (reg[t] + 1) % y[3]]
                     /\ UNCHANGED <<reg, BUFFER, puts, output>>
               /\ y[1] = "put" =>
                     /\ BUFFER' = [BUFFER EXCEPT ![reg[t]] = y[2]]
                     /\ puts' = Append(puts, y[2])
                     /\ UNCHANGED <<reg, mem, output>>
               /\ y[1] = "get" =>
                     /\ output' = Append(output, BUFFER[reg[t]])
                     /\ UNCHANGED <<reg, mem, BUFFER, puts>>
               /\ y[1] \notin {"load", "set", "inc", "add", "put", "get"} =>
                     UNCHANGED <<reg, mem, BUFFER, puts, output>>
               /\ y[1] \in {"load", "set", "inc", "add", "put", "get", "work",
                            "jump", "jump_if"} =>
                     UNCHANGED <<blocked, objects>>
               /\ y[1] = "jump" => ip' = [ip EXCEPT ![t] = y[2]]
               /\ y[1] = "jump_if" =>
                     ip' = [ip EXCEPT ![t] = IF reg[t] = y[2] THEN y[3]
                                             ELSE ip[t] + 1]
               /\ y[1] \notin {"jump", "jump_if"} =>
                     ip' = [ip EXCEPT ![t] = ip[t] + 1]
<1>1. CASE access(t)
  BY <1>1 DEF access, At, Advance
<1>2. CASE jump(t)
  BY <1>2 DEF jump, At, data
<1>3. CASE ~access(t) /\ ~jump(t)
  <2>1. /\ UNCHANGED <<reg, mem, BUFFER, puts, output>>
        /\ Instruction(t)[1] \in {"lock", "spin_lock", "unlock", "wait",
                                  "signal", "up", "down"}
        /\ ip' = [ip EXCEPT ![t] = ip[t] + 1]
    BY <1>3
    DEF SyncStep, mutex_lock, mutex_lock_spin, mutex_unlock, condvar_wait,
        condvar_signal, semaphore_up, semaphore_down, At, Advance, data
  <2> QED
    BY <2>1
<1> QED
  BY <1>1, <1>2, <1>3

\* A step blocks nobody but the thread that makes it.
LEMMA BlocksItself ==
    ASSUME SyncType, NEW t, SyncStep(t)
    PROVE  blocked' \subseteq blocked \cup {t}
<1>1. Effect(t)
  BY StepEffect
<1> QED
  BY <1>1 DEF Effect, Acquire, Release, Wake, GiveToken, TakeToken

\* Of two threads that run, one is inside.
LEMMA OneWithin ==
    ASSUME QueueInv, NEW t \in Here \ blocked, NEW u \in Here \ blocked,
           NEW m \in Mutexes, Within(program, t, m, ip[t]),
           Within(program, u, m, ip[u])
    PROVE  t = u
<1>1. Owns(t, m) /\ Owns(u, m)
  BY Apart DEF QueueInv, Owns
<1> QED
  BY <1>1 DEF QueueInv, OneOwner

-----------------------------------------------------------------------------
(* The adders                                                              *)

Adders == {"adder_blocking", "adder_spin"}

\* The additions that were made, by thread and round.
Added == {a \in Here \X (1..PER_THREAD) : ip[a[1]] >= 4 * a[2]}

\* A is their number, and whoever is about to write A has read it since.
AdderInv ==
    program \in Adders =>
        /\ mem["A"] = Cardinality(Added)
        /\ \A t \in Here : Place(ip[t], 4) = 3 =>
              t \notin blocked /\ reg[t] = mem["A"]

\* The third place of a round is the one before a multiple of 4.
LEMMA ThirdPlace ==
    ASSUME NEW k \in Nat \ {0}
    PROVE  /\ Place(k, 4) = 3 => \E q \in Nat \ {0} : k + 1 = 4 * q
           /\ Place(k, 4) # 3 => \A q \in Nat : k + 1 # 4 * q
<1>1. ASSUME Place(k, 4) = 3
      PROVE  \E q \in Nat \ {0} : k + 1 = 4 * q
  <2>1. k + 1 = 4 * ((k + 1) \div 4) /\ (k + 1) \div 4 \in Nat \ {0}
    BY <1>1 DEF Place
  <2> QED
    BY <2>1
<1>2. ASSUME NEW q \in Nat, k + 1 = 4 * q
      PROVE  Place(k, 4) = 3
  BY <1>2 DEF Place
<1> QED
  BY <1>1, <1>2

LEMMA AddersHere ==
    ASSUME QueueInv, program \in Adders
    PROVE  /\ Here = 0..(ADDERS - 1) /\ IsFiniteSet(Here)
           /\ Cardinality(Here) = ADDERS
           /\ IsFiniteSet(Here \X (1..PER_THREAD))
           /\ Cardinality(Here \X (1..PER_THREAD)) = ADDERS * PER_THREAD
           /\ IsFiniteSet(Added) /\ Cardinality(Added) \in Nat
<1>1. Here = 0..(ADDERS - 1) /\ ADDERS \in Nat /\ PER_THREAD \in Nat
  BY SMTT(30), Codes, SyncAssumption DEF QueueInv, SyncType, Here, Adders
<1>2. IsFiniteSet(Here) /\ Cardinality(Here) = ADDERS
  BY <1>1, FS_Interval
<1>3. IsFiniteSet(1..PER_THREAD) /\ Cardinality(1..PER_THREAD) = PER_THREAD
  BY <1>1, FS_Interval
<1>4. /\ IsFiniteSet(Here \X (1..PER_THREAD))
      /\ Cardinality(Here \X (1..PER_THREAD)) = ADDERS * PER_THREAD
  BY <1>2, <1>3, FS_Product
<1>5. IsFiniteSet(Added) /\ Cardinality(Added) \in Nat
  BY <1>4, FS_Subset, FS_CardinalityType DEF Added
<1> QED
  BY <1>1, <1>2, <1>4, <1>5

LEMMA AddedStep ==
    ASSUME QueueInv, program \in Adders, NEW t, SyncStep(t)
    PROVE  /\ Place(ip[t], 4) # 3 => Added' = Added
           /\ Place(ip[t], 4) = 3 =>
                 \E a : a \notin Added /\ Added' = Added \cup {a}
<1> DEFINE k == ip[t]
<1>1. /\ t \in Here /\ k \in 1..Len(code[program][t]) /\ k \in Nat \ {0}
      /\ program' = program /\ Here' = Here
      /\ t \in DOMAIN code[program]
      /\ ip \in [Here -> Nat \ {0}]
  BY StepFacts DEF QueueInv, SyncType, Here
<1>2. Len(code[program][t]) = PER_THREAD * 4 /\ PER_THREAD \in Nat
  BY <1>1, AdderCode, SyncAssumption DEF Adders
<1>3. Instruction(t)[1] \notin {"jump", "jump_if"}
  BY <1>1, AdderAt DEF Adders, Instruction
<1>4. ip'[t] = k + 1 /\ \A u \in Here : u # t => ip'[u] = ip[u]
  BY <1>1, <1>3, StepData
<1> HIDE DEF k
<1>5. ASSUME NEW a \in Here \X (1..PER_THREAD)
      PROVE  ip'[a[1]] >= 4 * a[2] <=>
                ip[a[1]] >= 4 * a[2] \/ (a[1] = t /\ k + 1 = 4 * a[2])
  <2>1. a[1] \in Here /\ a[2] \in Nat /\ ip[a[1]] \in Nat
    BY <1>1, <1>2
  <2>2. CASE a[1] = t
    BY <1>1, <1>4, <2>1, <2>2 DEF k
  <2>3. CASE a[1] # t
    BY <1>4, <2>1, <2>3
  <2> QED
    BY <2>2, <2>3
<1>6. Added' = {a \in Here \X (1..PER_THREAD) : ip'[a[1]] >= 4 * a[2]}
  BY <1>1 DEF Added
<1>7. ASSUME Place(k, 4) # 3
      PROVE  Added' = Added
  <2>1. \A a \in Here \X (1..PER_THREAD) : k + 1 # 4 * a[2]
    BY SMTT(30), <1>1, <1>2, <1>7, ThirdPlace
  <2> QED
    BY <1>5, <1>6, <2>1 DEF Added
<1>8. ASSUME Place(k, 4) = 3
      PROVE  \E a : a \notin Added /\ Added' = Added \cup {a}
  <2>1. PICK q \in Nat \ {0} : k + 1 = 4 * q
    BY <1>1, <1>8, ThirdPlace
  <2>2. q \in 1..PER_THREAD
    BY <1>1, <1>2, <2>1
  <2>3. <<t, q>> \in Here \X (1..PER_THREAD)
    BY <1>1, <2>2
  <2>4. <<t, q>> \notin Added
    BY <1>1, <2>1 DEF Added, k
  <2>5. \A a \in Here \X (1..PER_THREAD) :
           (a[1] = t /\ k + 1 = 4 * a[2]) <=> a = <<t, q>>
    BY <1>2, <2>1
  <2>6. Added' = Added \cup {<<t, q>>}
    BY <1>5, <1>6, <2>3, <2>5 DEF Added
  <2> QED
    BY <2>4, <2>6
<1> QED
  BY <1>7, <1>8 DEF k

LEMMA AdderInit == SyncInit => AdderInv
<1> SUFFICES ASSUME SyncInit, program \in Adders
             PROVE  /\ mem["A"] = Cardinality(Added)
                    /\ \A t \in Here : Place(ip[t], 4) # 3
  BY DEF AdderInv
<1>1. /\ \A t \in Here : ip[t] = 1
      /\ mem["A"] = 0
  BY DEF SyncInit, Here, Variables
<1>2. Added = {}
  BY <1>1, SyncAssumption DEF Added
<1>3. Place(1, 4) = 1
  BY PlaceFacts
<1> QED
  BY <1>1, <1>2, <1>3, FS_EmptySet

LEMMA AdderStep ==
    ASSUME QueueInv, AdderInv, NEW t, SyncStep(t)
    PROVE  AdderInv'
<1> DEFINE k == ip[t]
           y == Instruction(t)
<1>1. /\ t \in Here /\ k \in 1..Len(code[program][t]) /\ t \notin blocked
      /\ program' = program /\ Here' = Here
      /\ t \in DOMAIN code[program]
      /\ ip \in [Here -> Nat \ {0}]
      /\ reg \in [Here -> Nat] /\ mem \in [Variables -> Nat]
  BY StepFacts DEF QueueInv, SyncType, Here
<1> SUFFICES ASSUME program \in Adders
             PROVE  /\ mem'["A"] = Cardinality(Added')
                    /\ \A u \in Here : Place(ip'[u], 4) = 3 =>
                          u \notin blocked' /\ reg'[u] = mem'["A"]
  BY <1>1 DEF AdderInv
<1>2. /\ Place(k, 4) \in 1..4
      /\ Place(k + 1, 4) = IF Place(k, 4) = 4 THEN 1 ELSE Place(k, 4) + 1
      /\ Place(k, 4) = 1 => y[1] \in {"lock", "spin_lock"}
      /\ Place(k, 4) = 2 => y[1] = "load" /\ y[2] = "A"
      /\ Place(k, 4) = 3 => y[1] = "inc" /\ y[2] = "A"
      /\ Place(k, 4) = 4 => y[1] = "unlock"
  <2>1. y = code[program][t][k]
    BY DEF Instruction
  <2> HIDE DEF y, k
  <2> QED
    BY <1>1, <2>1, AdderAt DEF Adders
<1>3. /\ mem["A"] = Cardinality(Added)
      /\ \A u \in Here : Place(ip[u], 4) = 3 =>
            u \notin blocked /\ reg[u] = mem["A"]
  BY DEF AdderInv
<1>4. ip'[t] = k + 1 /\ \A u \in Here : u # t => ip'[u] = ip[u]
  BY <1>1, <1>2, StepData
<1>5. blocked' \subseteq blocked \cup {t}
  BY BlocksItself DEF QueueInv
<1>6. IsFiniteSet(Added)
  BY AddersHere
<1>7. /\ y[1] = "load" =>
            /\ reg' = [reg EXCEPT ![t] = mem[y[2]]]
            /\ UNCHANGED <<mem, blocked>>
      /\ y[1] = "inc" =>
            /\ mem' = [mem EXCEPT ![y[2]] = reg[t] + 1]
            /\ UNCHANGED <<reg, blocked>>
      /\ y[1] \in {"lock", "spin_lock", "unlock"} => UNCHANGED <<reg, mem>>
  BY StepData
<1> HIDE DEF y
<1>8. CASE Place(k, 4) \in {1, 4}
  <2>1. Added' = Added /\ UNCHANGED <<reg, mem>>
    BY <1>2, <1>7, <1>8, AddedStep
  <2> QED
    BY <1>2, <1>3, <1>4, <1>5, <1>8, <2>1
<1>9. CASE Place(k, 4) = 2
  <2>1. /\ Added' = Added /\ UNCHANGED <<mem, blocked>>
        /\ reg'[t] = mem["A"] /\ \A u \in Here : u # t => reg'[u] = reg[u]
    BY <1>1, <1>2, <1>7, <1>9, AddedStep
  <2> QED
    BY <1>1, <1>3, <1>4, <2>1
<1>10. CASE Place(k, 4) = 3
  <2>1. PICK a : a \notin Added /\ Added' = Added \cup {a}
    BY <1>10, AddedStep
  <2>2. Cardinality(Added') = Cardinality(Added) + 1
    BY <1>6, <2>1, FS_AddElement
  <2>3. mem'["A"] = mem["A"] + 1 /\ UNCHANGED <<reg, blocked>>
    BY <1>1, <1>2, <1>3, <1>7, <1>10 DEF Variables
  <2>4. \A u \in Here : Place(ip'[u], 4) # 3
    <3>1. SUFFICES ASSUME NEW u \in Here, Place(ip'[u], 4) = 3
                   PROVE  FALSE
      OBVIOUS
    <3>2. u # t
      BY <1>2, <1>4, <1>10, <3>1
    <3>3. Place(ip[u], 4) = 3 /\ u \notin blocked
      BY <1>3, <1>4, <3>1, <3>2
    <3>4. Within(program, u, 0, ip[u]) /\ Within(program, t, 0, ip[t])
      BY <1>10, <3>3 DEF Within, Adders
    <3>5. 0 \in Mutexes
      BY SyncAssumption DEF Mutexes
    <3> QED
      BY <1>1, <3>2, <3>3, <3>4, <3>5, OneWithin
  <2> QED
    BY <1>3, <2>2, <2>3, <2>4
<1> QED
  BY <1>2, <1>8, <1>9, <1>10

LEMMA AddersAdd ==
    ASSUME QueueInv, AdderInv
    PROVE  AdderExact
<1> SUFFICES ASSUME program \in Adders, SyncDone
             PROVE  mem["A"] = PER_THREAD * ADDERS
  BY DEF AdderExact, Adders
<1>1. /\ Cardinality(Here \X (1..PER_THREAD)) = ADDERS * PER_THREAD
      /\ ADDERS \in Nat /\ PER_THREAD \in Nat
  BY AddersHere, SyncAssumption
<1>2. Added = Here \X (1..PER_THREAD)
  <2> SUFFICES ASSUME NEW a \in Here \X (1..PER_THREAD)
               PROVE  ip[a[1]] >= 4 * a[2]
    BY DEF Added
  <2>1. /\ a[1] \in Here /\ a[2] \in 1..PER_THREAD
        /\ a[1] \in DOMAIN code[program] /\ ip[a[1]] \in Nat
    BY DEF QueueInv, SyncType, Here
  <2>2. Len(code[program][a[1]]) = PER_THREAD * 4
    BY <2>1, AdderCode DEF Adders
  <2>3. ip[a[1]] > PER_THREAD * 4
    BY <2>1, <2>2 DEF SyncDone, Ended
  <2> QED
    BY <1>1, <2>1, <2>3
<1>3. mem["A"] = ADDERS * PER_THREAD
  BY <1>1, <1>2 DEF AdderInv
<1> QED
  BY <1>1, <1>3

-----------------------------------------------------------------------------
(* The philosophers                                                        *)

\* Who eats has both forks, and so his neighbour has not.
LEMMA PhilosophersEatApart ==
    ASSUME QueueInv
    PROVE  NeighboursEatApart
<1> SUFFICES ASSUME program = "phil", NEW t \in Here,
                    At(t, "work"), At(right(t), "work")
             PROVE  FALSE
  BY DEF NeighboursEatApart
<1>1. Here = DOMAIN code["phil"] /\ ip \in [Here -> Nat \ {0}]
  BY DEF QueueInv, SyncType, Here
<1>2. right(t) \in Here /\ t # right(t) /\ right(t) \in Mutexes
  <2>1. DOMAIN code["phil"] = 0..(N - 1)
    BY Codes
  <2> QED
    BY SMTT(30), <1>1, <2>1, Forks, SyncAssumption DEF Mutexes
<1>3. ASSUME NEW u \in Here, At(u, "work"), NEW m \in {u, right(u)}
      PROVE  u \notin blocked /\ Within(program, u, m, ip[u])
  <2>1. Len(code["phil"][u]) \in Nat
    BY <1>1, PhilCode
  <2>2. ip[u] \in 1..Len(code["phil"][u]) /\ u \notin blocked
    BY <1>1, <1>3, <2>1 DEF At, Ended
  <2>3. Place(ip[u], 5) = 3
    BY SMTT(30), <1>1, <1>3, <2>2, PhilAt DEF At, Instruction
  <2>4. m \in {First(u), Second(u)}
    BY <1>1, <1>3, Forks
  <2> QED
    BY <2>2, <2>3, <2>4 DEF Within
<1> QED
  BY <1>2, <1>3, OneWithin

\* What the adders and the philosophers take locks for, for any number of
\* threads and rounds.
THEOREM SectionsAreExclusive == SyncSpec => []SectionsExclude
<1> DEFINE Inv == QueueInv /\ AdderInv
<1>1. SyncInit => Inv
  BY QueueInit, AdderInit
<1>2. Inv /\ [\E t \in Here : SyncStep(t)]_syncVars => Inv'
  <2>1. ASSUME Inv, NEW t, SyncStep(t)
        PROVE  AdderInv'
    BY <2>1, AdderStep
  <2>2. ASSUME Inv, UNCHANGED syncVars
        PROVE  AdderInv'
    BY <2>2 DEF AdderInv, Added, syncVars, Here
  <2> QED
    BY <2>1, <2>2, QueueStep
<1>3. Inv => SectionsExclude
  BY AddersAdd, PhilosophersEatApart DEF SectionsExclude
<1> QED
  BY <1>1, <1>2, <1>3, PTL DEF SyncSpec

-----------------------------------------------------------------------------
(* The barrier                                                             *)

\* Only who makes the call that a thread waits for wakes it.
LEMMA WhoWakes ==
    ASSUME QueueInv, NEW t, SyncStep(t), NEW u, u \in blocked, u \notin blocked'
    PROVE  \/ \E m \in Mutexes : IsIn(u, "lock", m)
           \/ \E c \in 0..1 : Calls(t, "signal", c) /\ IsIn(u, "wait", c)
           \/ \E s \in 0..2 : Calls(t, "up", s) /\ IsIn(u, "down", s)
<1>1. Effect(t)
  BY StepEffect DEF QueueInv
<1>2. /\ \A m \in Mutexes : mutex_queue[m] \in Seq(Here)
      /\ \A c \in 0..1 : condvar_queue[c] \in Seq(Here)
  BY DEF QueueInv, SyncType
<1>3. ASSUME NEW m \in Mutexes, NEW more, Release(m, more)
      PROVE  IsIn(u, "lock", m)
  <2>1. mutex_queue[m] # <<>> /\ u = Head(mutex_queue[m])
    BY <1>3 DEF Release
  <2>2. u \in Range(mutex_queue[m])
    BY <1>2, <2>1, TailFacts
  <2> QED
    BY <2>2 DEF QueueInv, Waiting
<1>4. ASSUME NEW c \in 0..1, Wake(c)
      PROVE  IsIn(u, "wait", c)
  <2>1. condvar_queue[c] # <<>> /\ u = Head(condvar_queue[c])
    BY <1>4 DEF Wake
  <2>2. u \in Range(condvar_queue[c])
    BY <1>2, <2>1, TailFacts
  <2> QED
    BY <2>2 DEF QueueInv, Waiting
<1>5. ASSUME NEW s \in 0..2, GiveToken(s)
      PROVE  IsIn(u, "down", s)
  <2>1. count[s] < 0 /\ u = Head(sem_queue[s])
    BY <1>5 DEF GiveToken
  <2>2. u \in Range(sem_queue[s])
    BY <2>1, SomebodyWaits, TailFacts DEF QueueInv
  <2> QED
    BY <2>2 DEF QueueInv, Waiting
<1>6. \A m, s : ~Acquire(m, t) /\ ~TakeToken(s, t)
  BY DEF Acquire, TakeToken
<1> QED
  BY <1>1, <1>3, <1>4, <1>5, <1>6 DEF Effect

\* The count of barrier b, and the threads that it counts.
Counter(b) == IF b = 0 THEN "AB" ELSE "BC"
Arrived(b) == {t \in Here : ip[t] > 9 * b + 3}

\* Who has counted itself since it read the count, reads what it has written;
\* and nobody goes on from the wait, or round it, until all are counted.
BarrierInv ==
    program = "barrier" =>
        \A b \in {0, 1} :
            /\ mem[Counter(b)] = Cardinality(Arrived(b))
            /\ \A t \in Here :
                  /\ ip[t] \in {9 * b + 3, 9 * b + 5} =>
                        t \notin blocked /\ reg[t] = mem[Counter(b)]
                  /\ ip[t] > 9 * b + 7 \/ (ip[t] = 9 * b + 7 /\ t \notin blocked)
                        => Arrived(b) = Here

LEMMA BarrierHere ==
    ASSUME QueueInv, program = "barrier", NEW b
    PROVE  /\ Here = DOMAIN code["barrier"]
           /\ IsFiniteSet(Here) /\ Cardinality(Here) = BARRIER_THREADS
           /\ BARRIER_THREADS \in Nat
           /\ IsFiniteSet(Arrived(b))
           /\ Cardinality(Arrived(b)) = BARRIER_THREADS => Arrived(b) = Here
<1>1. /\ Here = DOMAIN code["barrier"] /\ Here = 0..(BARRIER_THREADS - 1)
      /\ BARRIER_THREADS \in Nat
  BY Codes, SyncAssumption DEF QueueInv, SyncType, Here
<1>2. IsFiniteSet(Here) /\ Cardinality(Here) = BARRIER_THREADS
  BY <1>1, FS_Interval
<1>3. Arrived(b) \subseteq Here
  BY DEF Arrived
<1> QED
  BY <1>1, <1>2, <1>3, FS_Subset

\* The steps of a thread at a barrier.
LEMMA BarrierMoves ==
    ASSUME QueueInv, program = "barrier", NEW t, SyncStep(t)
    PROVE  \E b \in {0, 1}, r \in 1..9, j \in Nat :
              /\ ip[t] = 9 * b + r /\ ip' = [ip EXCEPT ![t] = j]
              /\ j = IF r = 5 /\ reg[t] = BARRIER_THREADS THEN 9 * b + 8
                     ELSE 9 * b + r + 1
              /\ r \in {2, 4} => /\ reg' = [reg EXCEPT ![t] = mem[Counter(b)]]
                                 /\ UNCHANGED <<mem, blocked>>
              /\ r = 3 => /\ mem' = [mem EXCEPT ![Counter(b)] = reg[t] + 1]
                          /\ UNCHANGED <<reg, blocked>>
              /\ r \notin {2, 3, 4} => UNCHANGED <<reg, mem>>
              /\ r = 6 => t \in blocked'
              /\ \A c : Calls(t, "signal", c) => c = b /\ r = 8
              /\ \A s : ~Calls(t, "up", s)
<1> DEFINE k == ip[t]
           y == Instruction(t)
<1>1. /\ t \in Here /\ k \in 1..Len(code["barrier"][t]) /\ t \notin blocked
      /\ t \in DOMAIN code["barrier"] /\ y = code["barrier"][t][k]
  BY StepFacts DEF QueueInv, SyncType, Here, Instruction
<1> HIDE DEF y
<1>2. PICK b \in {0, 1}, r \in 1..9 :
          /\ k = 9 * b + r
          /\ r \in {1, 7} => y[1] = "spin_lock" /\ y[2] = b
          /\ r \in {2, 4} => y[1] = "load" /\ y[2] = Counter(b)
          /\ r = 3 => y[1] = "inc" /\ y[2] = Counter(b)
          /\ r = 5 => /\ y[1] = "jump_if" /\ y[2] = BARRIER_THREADS
                     /\ y[3] = 9 * b + 8
          /\ r = 6 => y[1] = "wait" /\ y[2] = b /\ y[3] = b
          /\ r = 8 => y[1] = "signal" /\ y[2] = b
          /\ r = 9 => y[1] = "unlock" /\ y[2] = b
  BY SMTT(30), <1>1, BarrierAt DEF Counter
<1> DEFINE j == IF r = 5 /\ reg[t] = BARRIER_THREADS THEN 9 * b + 8
                ELSE 9 * b + r + 1
<1>3. j \in Nat
  BY <1>2
<1>4. ip' = [ip EXCEPT ![t] = j]
  <2>1. /\ y[1] = "jump_if" =>
              ip' = [ip EXCEPT ![t] = IF reg[t] = y[2] THEN y[3] ELSE k + 1]
        /\ y[1] \notin {"jump", "jump_if"} => ip' = [ip EXCEPT ![t] = k + 1]
    BY StepData DEF y
  <2> HIDE DEF k
  <2>2. CASE r = 5
    BY <1>2, <2>1, <2>2
  <2>3. CASE r # 5
    <3>1. y[1] \notin {"jump", "jump_if"} /\ k + 1 = j
      BY <1>2, <2>3
    <3> QED
      BY <2>1, <3>1
  <2> QED
    BY <2>2, <2>3
<1>5. /\ r \in {2, 4} => /\ reg' = [reg EXCEPT ![t] = mem[Counter(b)]]
                         /\ UNCHANGED <<mem, blocked>>
      /\ r = 3 => /\ mem' = [mem EXCEPT ![Counter(b)] = reg[t] + 1]
                  /\ UNCHANGED <<reg, blocked>>
      /\ r \notin {2, 3, 4} => UNCHANGED <<reg, mem>>
  <2>1. /\ y[1] = "load" => /\ reg' = [reg EXCEPT ![t] = mem[y[2]]]
                            /\ UNCHANGED <<mem, blocked>>
        /\ y[1] = "inc" => /\ mem' = [mem EXCEPT ![y[2]] = reg[t] + 1]
                           /\ UNCHANGED <<reg, blocked>>
        /\ y[1] \in {"spin_lock", "jump_if", "wait", "signal", "unlock"} =>
              UNCHANGED <<reg, mem>>
    BY StepData DEF y
  <2> HIDE DEF k
  <2>2. /\ r = 2 \/ r = 4 => y[1] = "load" /\ y[2] = Counter(b)
        /\ r = 3 => y[1] = "inc" /\ y[2] = Counter(b)
        /\ r \notin {2, 3, 4} =>
              y[1] \in {"spin_lock", "jump_if", "wait", "signal", "unlock"}
    BY <1>2
  <2> QED
    BY <2>1, <2>2
<1>6. r = 6 => t \in blocked'
  <2> SUFFICES ASSUME r = 6 PROVE t \in blocked'
    OBVIOUS
  <2>1. y[1] = "wait"
    BY <1>2
  <2>2. Effect(t)
    BY StepEffect DEF QueueInv
  <2>3. PICK m \in Mutexes : Release(m, {t})
    BY <2>1, <2>2 DEF Effect, Calls, y
  <2>4. mutex_queue[m] # <<>> => Head(mutex_queue[m]) # t
    <3>1. mutex_queue[m] \in Seq(Here) /\ t \notin Range(mutex_queue[m])
      BY <1>1, Apart DEF QueueInv, SyncType
    <3> QED
      BY <3>1, TailFacts
  <2> QED
    BY <2>3, <2>4 DEF Release
<1>7. /\ \A c : Calls(t, "signal", c) => c = b /\ r = 8
      /\ \A s : ~Calls(t, "up", s)
  <2>1. y[1] = "signal" => r = 8
    BY <1>2
  <2>2. y[1] # "up"
    BY <1>2
  <2> QED
    BY <1>2, <2>1, <2>2 DEF Calls, y
<1> QED
  BY <1>2, <1>3, <1>4, <1>5, <1>6, <1>7

LEMMA BarrierInit == SyncInit => BarrierInv
<1> SUFFICES ASSUME SyncInit, program = "barrier", NEW b \in {0, 1}
             PROVE  /\ mem[Counter(b)] = Cardinality(Arrived(b))
                    /\ \A t \in Here : ip[t] = 1
  BY DEF BarrierInv
<1>1. /\ \A t \in Here : ip[t] = 1
      /\ mem[Counter(b)] = 0
  BY DEF SyncInit, Here, Variables, Counter
<1>2. Arrived(b) = {}
  BY <1>1 DEF Arrived
<1> QED
  BY <1>1, <1>2, FS_EmptySet

LEMMA BarrierStep ==
    ASSUME QueueInv, BarrierInv, NEW t, SyncStep(t)
    PROVE  BarrierInv'
<1>1. /\ t \in Here /\ t \notin blocked
      /\ program' = program /\ Here' = Here
      /\ ip \in [Here -> Nat \ {0}] /\ ip' \in [Here -> Nat \ {0}]
      /\ reg \in [Here -> Nat] /\ mem \in [Variables -> Nat]
      /\ 0 \in Mutexes /\ 1 \in Mutexes
  <2>1. 0 \in Mutexes /\ 1 \in Mutexes
    BY SyncAssumption DEF Mutexes
  <2> QED
    BY <2>1, StepFacts DEF QueueInv, SyncType, Here
<1> SUFFICES ASSUME program = "barrier", NEW b \in {0, 1}
             PROVE  /\ mem'[Counter(b)] = Cardinality(Arrived(b)')
                    /\ \A u \in Here :
                          /\ ip'[u] \in {9 * b + 3, 9 * b + 5} =>
                                u \notin blocked' /\ reg'[u] = mem'[Counter(b)]
                          /\ \/ ip'[u] > 9 * b + 7
                             \/ ip'[u] = 9 * b + 7 /\ u \notin blocked'
                             => Arrived(b)' = Here
  BY <1>1 DEF BarrierInv
<1>2. /\ mem[Counter(b)] = Cardinality(Arrived(b))
      /\ \A u \in Here :
            /\ ip[u] \in {9 * b + 3, 9 * b + 5} =>
                  u \notin blocked /\ reg[u] = mem[Counter(b)]
            /\ ip[u] > 9 * b + 7 \/ (ip[u] = 9 * b + 7 /\ u \notin blocked)
                  => Arrived(b) = Here
  BY DEF BarrierInv
<1>3. PICK d \in {0, 1}, r \in 1..9, j \in Nat :
          /\ ip[t] = 9 * d + r /\ ip' = [ip EXCEPT ![t] = j]
          /\ j = IF r = 5 /\ reg[t] = BARRIER_THREADS THEN 9 * d + 8
                 ELSE 9 * d + r + 1
          /\ r \in {2, 4} => /\ reg' = [reg EXCEPT ![t] = mem[Counter(d)]]
                             /\ UNCHANGED <<mem, blocked>>
          /\ r = 3 => /\ mem' = [mem EXCEPT ![Counter(d)] = reg[t] + 1]
                      /\ UNCHANGED <<reg, blocked>>
          /\ r \notin {2, 3, 4} => UNCHANGED <<reg, mem>>
          /\ r = 6 => t \in blocked'
          /\ \A c : Calls(t, "signal", c) => c = d /\ r = 8
          /\ \A s : ~Calls(t, "up", s)
  BY BarrierMoves
<1>4. ip'[t] = j /\ \A u \in Here : u # t => ip'[u] = ip[u]
  BY <1>1, <1>3
<1>5. blocked' \subseteq blocked \cup {t}
  BY BlocksItself DEF QueueInv
<1>6. Counter(0) # Counter(1) /\ \A c \in {0, 1} : Counter(c) \in Variables
  BY DEF Counter, Variables
<1> HIDE DEF Counter
\* Who is counted stays counted, and t is counted when it writes the count.
<1>7. /\ d = b /\ r = 3 => t \notin Arrived(b) /\ Arrived(b)' = Arrived(b) \cup {t}
      /\ ~(d = b /\ r = 3) => Arrived(b)' = Arrived(b)
  <2>1. Arrived(b)' = {u \in Here : ip'[u] > 9 * b + 3}
    BY <1>1 DEF Arrived
  <2>2. \A u \in Here : ip'[u] > 9 * b + 3 <=>
           ip[u] > 9 * b + 3 \/ (u = t /\ d = b /\ r = 3)
    <3>1. j > 9 * b + 3 <=> 9 * d + r > 9 * b + 3 \/ (d = b /\ r = 3)
      BY <1>3
    <3> QED
      BY <1>3, <1>4, <3>1
  <2>3. d = b /\ r = 3 => t \notin Arrived(b)
    BY <1>3 DEF Arrived
  <2> QED
    BY <1>1, <2>1, <2>2, <2>3 DEF Arrived
<1>8. /\ IsFiniteSet(Arrived(b))
      /\ Cardinality(Arrived(b)) = BARRIER_THREADS => Arrived(b) = Here
  BY BarrierHere
<1>9. Arrived(b) = Here => Arrived(b)' = Here
  BY <1>1, <1>7
\* The count.
<1>10. /\ d = b /\ r = 3 => mem'[Counter(b)] = mem[Counter(b)] + 1
       /\ ~(d = b /\ r = 3) => mem'[Counter(b)] = mem[Counter(b)]
  <2>1. CASE r = 3
    <3>1. d = b => reg[t] = mem[Counter(b)]
      BY <1>1, <1>2, <1>3, <2>1
    <3>2. d # b => Counter(d) # Counter(b)
      BY <1>6
    <3> QED
      BY <1>1, <1>3, <1>6, <2>1, <3>1, <3>2
  <2>2. CASE r # 3
    BY <1>3, <2>2
  <2> QED
    BY <2>1, <2>2
<1>11. mem'[Counter(b)] = Cardinality(Arrived(b)')
  BY <1>2, <1>7, <1>8, <1>10, FS_AddElement
\* Nobody else is between the lock and the unlock when t counts itself.
<1>12. ASSUME NEW u \in Here, ip'[u] \in {9 * b + 3, 9 * b + 5}
       PROVE  u \notin blocked' /\ reg'[u] = mem'[Counter(b)]
  <2>1. CASE u = t
    <3>1. d = b /\ r \in {2, 4}
      BY <1>3, <1>4, <1>12, <2>1
    <3>2. reg'[t] = mem[Counter(b)] /\ blocked' = blocked /\ mem' = mem
      BY <1>1, <1>3, <3>1
    <3> QED
      BY <1>1, <2>1, <3>2
  <2>2. CASE u # t
    <3>1. /\ ip[u] \in {9 * b + 3, 9 * b + 5} /\ u \notin blocked
          /\ reg[u] = mem[Counter(b)]
      BY <1>2, <1>4, <1>12, <2>2
    <3>2. u \notin blocked' /\ reg'[u] = reg[u]
      BY <1>1, <1>3, <1>5, <2>2, <3>1
    <3>3. ~(d = b /\ r = 3)
      <4>1. SUFFICES ASSUME d = b, r = 3 PROVE FALSE
        OBVIOUS
      <4>2. CASE b = 0
        <5>1. Within(program, t, 0, ip[t]) /\ Within(program, u, 0, ip[u])
          BY <1>3, <3>1, <4>1, <4>2 DEF Within
        <5> QED
          BY <1>1, <2>2, <3>1, <5>1, OneWithin
      <4>3. CASE b = 1
        <5>1. Within(program, t, 1, ip[t]) /\ Within(program, u, 1, ip[u])
          BY <1>3, <3>1, <4>1, <4>3 DEF Within
        <5> QED
          BY <1>1, <2>2, <3>1, <5>1, OneWithin
      <4> QED
        BY <4>2, <4>3
    <3> QED
      BY <1>10, <3>1, <3>2, <3>3
  <2> QED
    BY <2>1, <2>2
\* Who goes on is the last to come, or was woken by one that may go on.
<1>13. ASSUME NEW u \in Here,
              \/ ip'[u] > 9 * b + 7
              \/ ip'[u] = 9 * b + 7 /\ u \notin blocked'
       PROVE  Arrived(b)' = Here
  <2>1. CASE u = t
    <3>1. CASE ip[t] >= 9 * b + 7
      BY <1>1, <1>2, <1>3, <1>9, <3>1
    <3>2. CASE ~(ip[t] >= 9 * b + 7)
      <4>1. d = b /\ (r = 6 \/ (r = 5 /\ reg[t] = BARRIER_THREADS))
        BY <1>3, <1>4, <1>13, <2>1, <3>2
      <4>2. r # 6
        BY <1>3, <1>4, <1>13, <2>1, <4>1
      <4>3. reg[t] = BARRIER_THREADS /\ reg[t] = mem[Counter(b)]
        BY <1>1, <1>2, <1>3, <4>1, <4>2
      <4> QED
        BY <1>2, <1>8, <1>9, <4>3
    <3> QED
      BY <3>1, <3>2
  <2>2. CASE u # t
    <3>1. CASE ip[u] > 9 * b + 7 \/ (ip[u] = 9 * b + 7 /\ u \notin blocked)
      BY <1>2, <1>9, <3>1
    <3>2. CASE ip[u] = 9 * b + 7 /\ u \in blocked /\ u \notin blocked'
      <4>1. Prior(u)[1] = "wait" /\ Prior(u)[2] = b
        <5>1. u \in DOMAIN code["barrier"]
          BY BarrierHere
        <5>2. Prior(u) = code["barrier"][u][9 * b + 6]
          BY <3>2 DEF Prior
        <5>3. Prior(u) = Wait(b, b)
          BY <5>1, <5>2, BarrierCode
        <5> QED
          BY <5>3 DEF Wait
      <4>2. PICK c \in 0..1 : Calls(t, "signal", c) /\ IsIn(u, "wait", c)
        BY <1>3, <3>2, <4>1, WhoWakes DEF IsIn
      <4>3. d = b /\ r = 8
        BY <1>3, <4>1, <4>2 DEF IsIn
      <4> QED
        BY <1>1, <1>2, <1>3, <1>9, <4>3
    <3> QED
      BY <1>4, <1>13, <2>2, <3>1, <3>2
  <2> QED
    BY <2>1, <2>2
<1> QED
  BY <1>11, <1>12, <1>13

\* No thread leaves a barrier before all have come, for any number of threads.
THEOREM BarriersHold == SyncSpec => []BarrierHolds
<1> DEFINE Inv == QueueInv /\ BarrierInv
<1>1. SyncInit => Inv
  BY QueueInit, BarrierInit
<1>2. Inv /\ [\E t \in Here : SyncStep(t)]_syncVars => Inv'
  <2>1. ASSUME Inv, NEW t, SyncStep(t)
        PROVE  BarrierInv'
    BY <2>1, BarrierStep
  <2>2. ASSUME Inv, UNCHANGED syncVars
        PROVE  BarrierInv'
    BY <2>2 DEF BarrierInv, Arrived, syncVars, Here
  <2> QED
    BY <2>1, <2>2, QueueStep
<1>3. Inv => BarrierHolds
  <2> SUFFICES ASSUME Inv, program = "barrier", NEW t \in Here, NEW u \in Here,
                      NEW k \in {1, 2}, ip[t] > k * Len(block(0, "AB"))
               PROVE  ip[u] > (k - 1) * Len(block(0, "AB")) + 3
    BY DEF BarrierHolds
  <2>1. Len(block(0, "AB")) = 9
    BY DEF block
  <2> DEFINE b == k - 1
  <2>2. b \in {0, 1} /\ ip[t] \in Nat /\ ip[u] \in Nat
    BY DEF QueueInv, SyncType, Here
  <2>3. ip[t] > 9 * b + 7
    <3>1. ip[t] > k * 9
      BY <2>1
    <3> QED
      BY <2>2, <3>1
  <2>4. Arrived(b) = Here
    BY <2>2, <2>3 DEF BarrierInv
  <2>5. ip[u] > 9 * b + 3 /\ 9 * b = b * 9
    BY <2>2, <2>4 DEF Arrived
  <2> QED
    BY <2>1, <2>5
<1> QED
  BY <1>1, <1>2, <1>3, PTL DEF SyncSpec

-----------------------------------------------------------------------------
(* The programs in which second waits for first                            *)

Condsyncs == {"condsync_condvar", "condsync_sem"}

\* Second leaves its loop with what it has read, and A is set for ever.
CondsyncInv ==
    program \in Condsyncs =>
        /\ mem["A"] \in {0, 1}
        /\ reg[1] = 1 => mem["A"] = 1
        /\ ip[1] >= 7 => reg[1] = 1

\* Until first has given the token, second has not asked for it, or waits.
TokenInv ==
    program = "sync_sem" /\ ip[0] <= 2 =>
        IF ip[1] = 1 THEN count[0] = 0
        ELSE ip[1] = 2 /\ count[0] = -1 /\ 1 \in blocked

LEMMA SecondInit == SyncInit => CondsyncInv /\ TokenInv
<1> SUFFICES ASSUME SyncInit PROVE CondsyncInv /\ TokenInv
  OBVIOUS
<1>1. ASSUME program \in Condsyncs
      PROVE  mem["A"] = 0 /\ reg[1] = 0 /\ ip[1] = 1
  <2>1. 1 \in DOMAIN code[program]
    BY <1>1, CondsyncCode DEF Condsyncs
  <2> QED
    BY <2>1 DEF SyncInit, Variables
<1>2. ASSUME program = "sync_sem"
      PROVE  ip[1] = 1 /\ count[0] = 0
  <2>1. 1 \in DOMAIN code[program]
    BY <1>2, SyncSemCode
  <2>2. res_counts[program] = <<0>>
    BY <1>2 DEF res_counts, SyncTokens, Programs
  <2> QED
    BY <2>1, <2>2 DEF SyncInit
<1> QED
  BY <1>1, <1>2 DEF CondsyncInv, TokenInv

LEMMA CondsyncStep ==
    ASSUME QueueInv, CondsyncInv, NEW t, SyncStep(t)
    PROVE  CondsyncInv'
<1> DEFINE k == ip[t]
           y == Instruction(t)
<1>1. /\ t \in Here /\ k \in 1..Len(code[program][t]) /\ k \in Nat
      /\ program' = program /\ t \in DOMAIN code[program]
      /\ y = code[program][t][k]
      /\ ip \in [Here -> Nat \ {0}] /\ Here = DOMAIN code[program]
      /\ reg \in [Here -> Nat] /\ mem \in [Variables -> Nat]
  BY StepFacts DEF QueueInv, SyncType, Here, Instruction
<1> SUFFICES ASSUME program \in Condsyncs
             PROVE  /\ mem'["A"] \in {0, 1}
                    /\ reg'[1] = 1 => mem'["A"] = 1
                    /\ ip'[1] >= 7 => reg'[1] = 1
  BY <1>1 DEF CondsyncInv
<1>2. /\ y[1] = "load" => /\ reg' = [reg EXCEPT ![t] = mem[y[2]]]
                          /\ UNCHANGED mem
      /\ y[1] = "set" => /\ mem' = [mem EXCEPT ![y[2]] = y[3]]
                         /\ UNCHANGED reg
      /\ y[1] \notin {"load", "set", "inc", "add", "put", "get"} =>
            UNCHANGED <<reg, mem>>
      /\ y[1] = "jump" => ip' = [ip EXCEPT ![t] = y[2]]
      /\ y[1] = "jump_if" =>
            ip' = [ip EXCEPT ![t] = IF reg[t] = y[2] THEN y[3] ELSE k + 1]
      /\ y[1] \notin {"jump", "jump_if"} => ip' = [ip EXCEPT ![t] = k + 1]
  BY StepData
<1> HIDE DEF y
<1>3. /\ t \in {0, 1} /\ k \in 1..7 /\ (t = 0 => k <= 4)
      /\ k = 1 => y[1] = "lock"
      /\ t = 0 => /\ k = 2 => y[1] = "set" /\ y[2] = "A" /\ y[3] = 1
                  /\ k = 3 => y[1] \in {"up", "signal"}
                  /\ k = 4 => y[1] = "unlock"
      /\ t = 1 => /\ k = 2 => y[1] = "load" /\ y[2] = "A"
                  /\ k = 3 => y[1] = "jump_if" /\ y[2] = 1 /\ y[3] = 7
                  /\ k = 4 => y[1] \in {"unlock", "wait"}
                  /\ k = 5 => y[1] \in {"down", "lock"}
                  /\ k = 6 => y[1] = "jump" /\ y[2] \in {1, 2}
                  /\ k = 7 => y[1] = "unlock"
  <2>1. program \in {"condsync_condvar", "condsync_sem"}
    BY DEF Condsyncs
  <2> HIDE DEF k
  <2>2. CondsyncShape(t, k, y)
    BY <1>1, <2>1, CondsyncShaped
  <2> QED
    BY <2>2 DEF CondsyncShape
<1>4. /\ mem["A"] \in {0, 1} /\ (reg[1] = 1 => mem["A"] = 1)
      /\ ip[1] >= 7 => reg[1] = 1
      /\ 1 \in Here
  BY <1>1, CondsyncCode DEF CondsyncInv, Condsyncs
<1>5. CASE t = 0
  <2>1. ip'[1] = ip[1] /\ reg' = reg
    <3>1. y[1] \in {"lock", "set", "up", "signal", "unlock"}
      BY <1>3, <1>5
    <3> QED
      BY SMTT(30), <1>1, <1>2, <1>4, <1>5, <3>1
  <2>2. mem'["A"] = 1 \/ mem'["A"] = mem["A"]
    <3>1. CASE k = 2
      BY <1>1, <1>2, <1>3, <1>5, <3>1 DEF Variables
    <3>2. CASE k # 2
      BY <1>2, <1>3, <1>5, <3>2
    <3> QED
      BY <3>1, <3>2
  <2> QED
    BY <1>4, <2>1, <2>2
<1>6. CASE t = 1
  <2>1. mem' = mem
    BY <1>2, <1>3, <1>6
  <2>2. CASE k = 2
    BY <1>1, <1>2, <1>3, <1>4, <1>6, <2>1, <2>2
  <2>3. CASE k = 3
    BY <1>1, <1>2, <1>3, <1>4, <1>6, <2>1, <2>3
  <2>4. CASE k = 6
    BY <1>1, <1>2, <1>3, <1>4, <1>6, <2>1, <2>4
  <2>5. CASE k \in {1, 4, 5, 7}
    BY SMTT(30), <1>1, <1>2, <1>3, <1>4, <1>6, <2>1, <2>5
  <2> QED
    BY <1>3, <2>2, <2>3, <2>4, <2>5
<1> QED
  BY <1>3, <1>5, <1>6

LEMMA TokenStep ==
    ASSUME QueueInv, TokenInv, NEW t, SyncStep(t)
    PROVE  TokenInv'
<1> DEFINE k == ip[t]
           y == Instruction(t)
<1>1. /\ t \in Here /\ k \in 1..Len(code[program][t]) /\ k \in Nat
      /\ program' = program /\ t \in DOMAIN code[program] /\ t \notin blocked
      /\ y = code[program][t][k]
      /\ ip \in [Here -> Nat \ {0}] /\ Here = DOMAIN code[program]
      /\ count \in [0..2 -> Int]
  BY StepFacts DEF QueueInv, SyncType, Here, Instruction
<1> SUFFICES ASSUME program = "sync_sem", ip'[0] <= 2
             PROVE  IF ip'[1] = 1 THEN count'[0] = 0
                    ELSE ip'[1] = 2 /\ count'[0] = -1 /\ 1 \in blocked'
  BY <1>1 DEF TokenInv
<1>2. /\ y[1] = "work" => UNCHANGED <<blocked, objects>>
      /\ y[1] \notin {"jump", "jump_if"} => ip' = [ip EXCEPT ![t] = k + 1]
  BY StepData
<1>3. y[1] = "down" /\ y[2] = 0 => TakeToken(0, t)
  BY StepEffect DEF Effect, Calls, QueueInv
<1> HIDE DEF y
<1>4. /\ t \in {0, 1} /\ k \in {1, 2} /\ Here = {0, 1}
      /\ t = 0 /\ k = 1 => y[1] = "work"
      /\ t = 0 /\ k = 2 => y[1] = "up" /\ y[2] = 0
      /\ t = 1 /\ k = 1 => y[1] = "down" /\ y[2] = 0
      /\ t = 1 /\ k = 2 => y[1] = "work"
  <2> HIDE DEF k
  <2> QED
    BY SMTT(30), <1>1, SyncSemAt, SyncSemCode
<1>5. ip' = [ip EXCEPT ![t] = k + 1]
  BY <1>2, <1>4
<1>6. ip[0] <= 2 /\ ip[0] \in Nat
  BY <1>1, <1>4, <1>5
<1>7. IF ip[1] = 1 THEN count[0] = 0
      ELSE ip[1] = 2 /\ count[0] = -1 /\ 1 \in blocked
  BY <1>6 DEF TokenInv
<1>8. CASE t = 0
  <2>1. k = 1
    BY <1>1, <1>4, <1>5, <1>8
  <2>2. UNCHANGED <<blocked, count>> /\ ip'[1] = ip[1]
    BY <1>1, <1>2, <1>4, <1>5, <1>8, <2>1 DEF objects
  <2> QED
    BY <1>7, <2>2
<1>9. CASE t = 1
  <2>1. k = 1 /\ count[0] = 0
    BY <1>1, <1>4, <1>7, <1>9
  <2>2. TakeToken(0, t)
    BY <1>3, <1>4, <1>9, <2>1
  <2>3. count'[0] = -1 /\ t \in blocked'
    BY <1>1, <2>1, <2>2 DEF TakeToken
  <2>4. ip'[1] = 2
    BY <1>1, <1>5, <1>9, <2>1
  <2> QED
    BY <1>9, <2>3, <2>4
<1> QED
  BY <1>4, <1>8, <1>9

\* Second works only after first, in all three programs.
THEOREM SecondIsAfterFirst == SyncSpec => []SecondAfterFirst
<1> DEFINE Inv == QueueInv /\ CondsyncInv /\ TokenInv
<1>1. SyncInit => Inv
  BY QueueInit, SecondInit
<1>2. Inv /\ [\E t \in Here : SyncStep(t)]_syncVars => Inv'
  <2>1. ASSUME Inv, NEW t, SyncStep(t)
        PROVE  CondsyncInv' /\ TokenInv'
    BY <2>1, CondsyncStep, TokenStep
  <2>2. ASSUME Inv, UNCHANGED syncVars
        PROVE  CondsyncInv' /\ TokenInv'
    BY <2>2 DEF CondsyncInv, TokenInv, syncVars
  <2> QED
    BY <2>1, <2>2, QueueStep
<1>3. Inv => SecondAfterFirst
  <2> SUFFICES ASSUME Inv PROVE SecondAfterFirst
    OBVIOUS
  <2>1. ASSUME program \in Condsyncs, Ended(1)
        PROVE  mem["A"] = 1
    <3>1. Len(code[program][1]) = 7 /\ 1 \in DOMAIN code[program]
      BY <2>1, CondsyncCode DEF Condsyncs
    <3>2. ip[1] \in Nat
      BY <3>1 DEF QueueInv, SyncType
    <3> QED
      BY <2>1, <3>1, <3>2 DEF CondsyncInv, Ended
  <2>2. ASSUME program = "sync_sem", At(1, "work")
        PROVE  Ended(0)
    <3>1. /\ Len(code[program][0]) = 2 /\ Len(code[program][1]) = 2
          /\ code[program][1][1][1] = "down"
          /\ 0 \in DOMAIN code[program] /\ 1 \in DOMAIN code[program]
      BY <2>2, SyncSemCode DEF Down
    <3>2. ip[1] \in Nat /\ ip[0] \in Nat
      BY <3>1 DEF QueueInv, SyncType
    <3>3. ip[1] # 1 /\ 1 \notin blocked
      BY <2>2, <3>1 DEF At, Instruction
    <3> QED
      BY <2>2, <3>1, <3>2, <3>3 DEF TokenInv, Ended
  <2> QED
    BY <2>1, <2>2 DEF SecondAfterFirst, Condsyncs
<1> QED
  BY <1>1, <1>2, <1>3, PTL DEF SyncSpec

-----------------------------------------------------------------------------
(* The producers and the consumer                                          *)

PlaceOf(t) == Place(ip[t], 7)
Queued(t, s) == t \in Range(sem_queue[s])

\* A thread that has the token of SEM_MUTEX.
Holds(t) == PlaceOf(t) \in 3..6 /\ ~Queued(t, 0)

\* SEM_MUTEX is a lock, and who waits for a semaphore is behind its down.
HolderInv ==
    /\ count[0] <= 1
    /\ \A t \in Here : Holds(t) => count[0] <= 0
    /\ \A t, u \in Here : Holds(t) /\ Holds(u) => t = u
    /\ \A t \in Here :
          /\ Queued(t, 0) => PlaceOf(t) = 3
          /\ Queued(t, 1) => PlaceOf(t) = 2 /\ t < PRODUCER_COUNT
          /\ Queued(t, 2) => PlaceOf(t) = 2 /\ t = PRODUCER_COUNT

\* The producers that have asked for a place and not used it, and the ones that
\* have put an element and not told of it; the consumer likewise.
Claims == {t \in Here : t < PRODUCER_COUNT /\ PlaceOf(t) \in 2..4}
Offers == {t \in Here : t < PRODUCER_COUNT /\ PlaceOf(t) \in 5..7}
Asks == IF PlaceOf(PRODUCER_COUNT) \in 2..4 THEN 1 ELSE 0
Frees == IF PlaceOf(PRODUCER_COUNT) \in 5..7 THEN 1 ELSE 0

\* The elements in the buffer.
Held == Len(puts) - Len(output)

\* Where the tokens of SEM_EMPTY and of SEM_AVAIL are.
CountInv ==
    /\ count[1] = BUFFER_SIZE - Held - Cardinality(Claims) - Frees
    /\ count[2] = Held - Cardinality(Offers) - Asks

\* FRONT and TAIL, when the one who is about to move it has.
Onward(x) == IF x + 1 = BUFFER_SIZE THEN 0 ELSE x + 1
Slot(x) == IF x >= BUFFER_SIZE THEN x - BUFFER_SIZE ELSE x
Begin == IF PlaceOf(PRODUCER_COUNT) = 5 THEN Onward(mem["FRONT"])
         ELSE mem["FRONT"]
End == IF \E t \in Here : t < PRODUCER_COUNT /\ PlaceOf(t) = 5
       THEN Onward(mem["TAIL"]) ELSE mem["TAIL"]

\* The buffer has, from the front, the elements that were put and not printed.
BufferInv ==
    /\ BUFFER \in [0..(BUFFER_SIZE - 1) -> Nat]
    /\ puts \in Seq(Nat) /\ output \in Seq(Nat)
    /\ mem["FRONT"] \in 0..(BUFFER_SIZE - 1)
    /\ mem["TAIL"] \in 0..(BUFFER_SIZE - 1)
    /\ \A t \in Here : PlaceOf(t) \in {4, 5} =>
          reg[t] = IF t < PRODUCER_COUNT THEN mem["TAIL"] ELSE mem["FRONT"]
    /\ Held \in 0..BUFFER_SIZE
    /\ End = Slot(Begin + Held)
    /\ \A d \in 0..(Held - 1) : BUFFER[Slot(Begin + d)] = puts[Len(output) + 1 + d]
    /\ \A k \in 1..Len(output) : output[k] = puts[k]

MpscInv ==
    IF program = "mpsc" THEN HolderInv /\ CountInv /\ BufferInv
    ELSE puts = <<>> /\ output = <<>>

LEMMA TakeFacts ==
    ASSUME QueueInv, NEW t \in Here, NEW s \in 0..2, TakeToken(s, t)
    PROVE  /\ \A x \in 0..2 : count'[x] = IF x = s THEN count[x] - 1
                                          ELSE count[x]
           /\ \A u : \A x \in 0..2 :
                 Queued(u, x)' <=>
                    Queued(u, x) \/ (u = t /\ x = s /\ count[s] <= 0)
<1>1. /\ count \in [0..2 -> Int] /\ sem_queue \in [0..2 -> Seq(Here)]
      /\ sem_queue[s] \in Seq(Here)
  BY DEF QueueInv, SyncType
<1>2. \A x \in 0..2 : count'[x] = IF x = s THEN count[x] - 1 ELSE count[x]
  BY <1>1 DEF TakeToken
<1>3. Range(Append(sem_queue[s], t)) = Range(sem_queue[s]) \cup {t}
  BY <1>1, AppendFacts
<1>4. CASE count[s] <= 0
  <2>1. \A x \in 0..2 : sem_queue'[x] = IF x = s THEN Append(sem_queue[s], t)
                                        ELSE sem_queue[x]
    BY <1>1, <1>4 DEF TakeToken
  <2> QED
    BY <1>2, <1>3, <1>4, <2>1 DEF Queued
<1>5. CASE ~(count[s] <= 0)
  BY <1>2, <1>5 DEF TakeToken, Queued
<1> QED
  BY <1>4, <1>5

LEMMA GiveFacts ==
    ASSUME QueueInv, NEW s \in 0..2, GiveToken(s)
    PROVE  /\ \A x \in 0..2 : count'[x] = IF x = s THEN count[x] + 1
                                          ELSE count[x]
           /\ \E h : \A u : \A x \in 0..2 :
                 Queued(u, x)' <=>
                    Queued(u, x) /\ ~(u = h /\ x = s /\ count[s] < 0)
<1>1. /\ count \in [0..2 -> Int] /\ sem_queue \in [0..2 -> Seq(Here)]
  BY DEF QueueInv, SyncType
<1>2. \A x \in 0..2 : count'[x] = IF x = s THEN count[x] + 1 ELSE count[x]
  BY <1>1 DEF GiveToken
<1>3. CASE count[s] < 0
  <2> DEFINE q == sem_queue[s]
  <2>1. Range(q) = Range(Tail(q)) \cup {Head(q)} /\ Head(q) \notin Range(Tail(q))
    <3>1. q \in Seq(Here) /\ q # <<>>
      BY <1>3, SomebodyWaits DEF QueueInv
    <3>2. IsInjective(q)
      BY DEF QueueInv, Waiting
    <3> HIDE DEF q
    <3> QED
      BY <3>1, <3>2, TailFacts
  <2>2. \A x \in 0..2 : sem_queue'[x] = IF x = s THEN Tail(q) ELSE sem_queue[x]
    BY <1>1, <1>3 DEF GiveToken
  <2>3. \A u : \A x \in 0..2 :
           Queued(u, x)' <=> Queued(u, x) /\ ~(u = Head(q) /\ x = s)
    <3> SUFFICES ASSUME NEW u, NEW x \in 0..2
                 PROVE  Queued(u, x)' <=> Queued(u, x) /\ ~(u = Head(q) /\ x = s)
      OBVIOUS
    <3>1. CASE x = s
      BY <2>1, <2>2, <3>1 DEF Queued
    <3>2. CASE x # s
      BY <2>2, <3>2 DEF Queued
    <3> QED
      BY <3>1, <3>2
  <2> QED
    BY <1>2, <1>3, <2>3
<1>4. CASE ~(count[s] < 0)
  BY <1>2, <1>4 DEF GiveToken, Queued
<1> QED
  BY <1>3, <1>4

LEMMA MpscHere ==
    ASSUME QueueInv, program = "mpsc"
    PROVE  /\ PRODUCER_COUNT \in Nat /\ Here = 0..PRODUCER_COUNT
           /\ PRODUCER_COUNT \in Here /\ IsFiniteSet(Here)
           /\ \A t \in Here : t \in Nat /\ (~(t < PRODUCER_COUNT) => t = PRODUCER_COUNT)
           /\ BUFFER_SIZE \in Nat \ {0}
<1>1. /\ PRODUCER_COUNT \in Nat /\ Here = 0..PRODUCER_COUNT
      /\ BUFFER_SIZE \in Nat \ {0}
  BY Codes, SyncAssumption DEF QueueInv, SyncType, Here
<1>2. IsFiniteSet(Here)
  BY <1>1, FS_Interval
<1> QED
  BY <1>1, <1>2

\* The steps of a producer, and of the consumer.
LEMMA MpscMoves ==
    ASSUME QueueInv, program = "mpsc", NEW t, SyncStep(t)
    PROVE  LET a == PlaceOf(t)
               produces == t < PRODUCER_COUNT
               x == IF produces THEN "TAIL" ELSE "FRONT"
           IN  /\ a \in 1..7
               /\ PlaceOf(t)' = IF a = 7 THEN 1 ELSE a + 1
               /\ \A u \in Here : u # t => PlaceOf(u)' = PlaceOf(u)
               /\ a = 1 => TakeToken(IF produces THEN 1 ELSE 2, t)
               /\ a = 2 => TakeToken(0, t)
               /\ a = 6 => GiveToken(0)
               /\ a = 7 => GiveToken(IF produces THEN 2 ELSE 1)
               /\ a \in 3..5 => UNCHANGED <<count, sem_queue>>
               /\ a \notin 3..5 => UNCHANGED <<reg, mem, BUFFER, puts, output>>
               /\ a = 3 => /\ reg' = [reg EXCEPT ![t] = mem[x]]
                           /\ UNCHANGED <<mem, BUFFER, puts, output>>
               /\ a = 4 => /\ UNCHANGED <<reg, mem>>
                           /\ IF produces
                              THEN /\ BUFFER' = [BUFFER EXCEPT ![reg[t]] = t]
                                   /\ puts' = Append(puts, t)
                                   /\ UNCHANGED output
                              ELSE /\ output' = Append(output, BUFFER[reg[t]])
                                   /\ UNCHANGED <<BUFFER, puts>>
               /\ a = 5 => /\ mem' = [mem EXCEPT ![x] = (reg[t] + 1) % BUFFER_SIZE]
                           /\ UNCHANGED <<reg, BUFFER, puts, output>>
<1> DEFINE a == PlaceOf(t)
           k == ip[t]
           y == Instruction(t)
           produces == t < PRODUCER_COUNT
           x == IF produces THEN "TAIL" ELSE "FRONT"
<1>1. /\ t \in Here /\ k \in 1..Len(code["mpsc"][t])
      /\ t \in DOMAIN code["mpsc"] /\ y = code["mpsc"][t][k]
      /\ ip \in [Here -> Nat \ {0}]
  BY StepFacts DEF QueueInv, SyncType, Here, Instruction
<1>2. /\ a \in 1..7
      /\ Place(k + 1, 7) = IF a = 7 THEN 1 ELSE a + 1
      /\ a = 1 => y[1] = "down" /\ y[2] = IF produces THEN 1 ELSE 2
      /\ a = 2 => y[1] = "down" /\ y[2] = 0
      /\ a = 3 => y[1] = "load" /\ y[2] = x
      /\ a = 4 => IF produces THEN y[1] = "put" /\ y[2] = t ELSE y[1] = "get"
      /\ a = 5 => y[1] = "add" /\ y[2] = x /\ y[3] = BUFFER_SIZE
      /\ a = 6 => y[1] = "up" /\ y[2] = 0
      /\ a = 7 => y[1] = "up" /\ y[2] = IF produces THEN 2 ELSE 1
  <2> HIDE DEF y, k
  <2>1. a = Place(k, 7)
    BY DEF PlaceOf, k
  <2>2. /\ a \in 1..7
        /\ Place(k + 1, 7) = IF a = 7 THEN 1 ELSE a + 1
        /\ a = 2 => y[1] = "down" /\ y[2] = 0
        /\ a = 6 => y[1] = "up" /\ y[2] = 0
    <3> HIDE DEF a
    <3> QED  BY <1>1, <2>1, MpscAt DEF SEM_MUTEX
  <2>3. CASE produces
    <3>1. /\ a = 1 => y[1] = "down" /\ y[2] = 1
          /\ a = 3 => y[1] = "load" /\ y[2] = "TAIL"
          /\ a = 4 => y[1] = "put" /\ y[2] = t
          /\ a = 5 => y[1] = "add" /\ y[2] = "TAIL" /\ y[3] = BUFFER_SIZE
          /\ a = 7 => y[1] = "up" /\ y[2] = 2
      <4> HIDE DEF a
      <4> QED  BY SMTT(30), <1>1, <2>1, <2>3, MpscAt DEF SEM_EMPTY, SEM_AVAIL
    <3> HIDE DEF a, produces
    <3> QED  BY <2>2, <2>3, <3>1
  <2>4. CASE ~produces
    <3>1. /\ a = 1 => y[1] = "down" /\ y[2] = 2
          /\ a = 3 => y[1] = "load" /\ y[2] = "FRONT"
          /\ a = 4 => y[1] = "get"
          /\ a = 5 => y[1] = "add" /\ y[2] = "FRONT" /\ y[3] = BUFFER_SIZE
          /\ a = 7 => y[1] = "up" /\ y[2] = 1
      <4> HIDE DEF a
      <4> QED  BY <1>1, <2>1, <2>4, MpscAt DEF SEM_EMPTY, SEM_AVAIL
    <3> HIDE DEF a, produces
    <3> QED  BY <2>2, <2>4, <3>1
  <2> QED
    BY <2>3, <2>4
<1>3. /\ y[1] \notin {"jump", "jump_if"} => ip' = [ip EXCEPT ![t] = k + 1]
      /\ y[1] = "load" => /\ reg' = [reg EXCEPT ![t] = mem[y[2]]]
                          /\ UNCHANGED <<mem, BUFFER, puts, output>>
      /\ y[1] = "add" => /\ mem' = [mem EXCEPT ![y[2]] = (reg[t] + 1) % y[3]]
                         /\ UNCHANGED <<reg, BUFFER, puts, output>>
      /\ y[1] = "put" => /\ BUFFER' = [BUFFER EXCEPT ![reg[t]] = y[2]]
                         /\ puts' = Append(puts, y[2])
                         /\ UNCHANGED <<reg, mem, output>>
      /\ y[1] = "get" => /\ output' = Append(output, BUFFER[reg[t]])
                         /\ UNCHANGED <<reg, mem, BUFFER, puts>>
      /\ y[1] \in {"up", "down"} => UNCHANGED <<reg, mem, BUFFER, puts, output>>
      /\ y[1] \in {"load", "add", "put", "get"} => UNCHANGED <<count, sem_queue>>
  BY StepData DEF objects
<1>4. \A s : /\ y[1] = "down" /\ y[2] = s => TakeToken(s, t)
             /\ y[1] = "up" /\ y[2] = s => GiveToken(s)
  BY StepEffect DEF Effect, Calls, QueueInv
<1> HIDE DEF y, a, x
<1>5. y[1] \notin {"jump", "jump_if"}
  BY <1>2
<1>6. /\ PlaceOf(t)' = IF a = 7 THEN 1 ELSE a + 1
      /\ \A u \in Here : u # t => PlaceOf(u)' = PlaceOf(u)
  <2>1. ip'[t] = k + 1 /\ \A u \in Here : u # t => ip'[u] = ip[u]
    BY <1>1, <1>3, <1>5
  <2> QED
    BY <1>2, <2>1 DEF PlaceOf
<1>7. CASE a \in {1, 2, 6, 7}
  <2>1. UNCHANGED <<reg, mem, BUFFER, puts, output>>
    BY <1>2, <1>3, <1>7
  <2>2. /\ a = 1 => TakeToken(IF produces THEN 1 ELSE 2, t)
        /\ a = 2 => TakeToken(0, t)
        /\ a = 6 => GiveToken(0)
        /\ a = 7 => GiveToken(IF produces THEN 2 ELSE 1)
    BY <1>2, <1>4, <1>7
  <2> QED
    BY <1>2, <1>6, <1>7, <2>1, <2>2 DEF a
<1>8. CASE a = 3
  BY <1>2, <1>3, <1>6, <1>8 DEF a, x
<1>9. CASE a = 4
  BY <1>2, <1>3, <1>6, <1>9 DEF a
<1>10. CASE a = 5
  BY <1>2, <1>3, <1>6, <1>10 DEF a, x
<1> QED
  BY <1>2, <1>7, <1>8, <1>9, <1>10

LEMMA HolderStep ==
    ASSUME QueueInv, program = "mpsc", HolderInv, NEW t, SyncStep(t)
    PROVE  HolderInv'
<1> DEFINE a == PlaceOf(t)
           produces == t < PRODUCER_COUNT
<1>1. /\ a \in 1..7
      /\ PlaceOf(t)' = IF a = 7 THEN 1 ELSE a + 1
      /\ \A u \in Here : u # t => PlaceOf(u)' = PlaceOf(u)
      /\ a = 1 => TakeToken(IF produces THEN 1 ELSE 2, t)
      /\ a = 2 => TakeToken(0, t)
      /\ a = 6 => GiveToken(0)
      /\ a = 7 => GiveToken(IF produces THEN 2 ELSE 1)
      /\ a \in 3..5 => UNCHANGED <<count, sem_queue>>
  BY MpscMoves
<1>2. /\ t \in Here /\ Here' = Here /\ count \in [0..2 -> Int]
      /\ produces \/ t = PRODUCER_COUNT
  BY StepFacts, MpscHere DEF QueueInv, SyncType
<1>3. \A s \in 0..2 : ~Queued(t, s)
  <2>1. t \notin blocked
    BY StepFacts DEF QueueInv
  <2> QED
    BY <2>1, Apart DEF QueueInv, Queued
<1>4. /\ count[0] <= 1 /\ count[0] \in Int
      /\ \A u \in Here : Holds(u) => count[0] <= 0
      /\ \A u, v \in Here : Holds(u) /\ Holds(v) => u = v
      /\ \A u \in Here :
            /\ Queued(u, 0) => PlaceOf(u) = 3
            /\ Queued(u, 1) => PlaceOf(u) = 2 /\ u < PRODUCER_COUNT
            /\ Queued(u, 2) => PlaceOf(u) = 2 /\ u = PRODUCER_COUNT
  BY <1>2 DEF HolderInv
<1>5. \A u \in Here :
         /\ Holds(u) <=> PlaceOf(u) \in 3..6 /\ ~Queued(u, 0)
         /\ Holds(u)' <=> PlaceOf(u)' \in 3..6 /\ ~Queued(u, 0)'
  BY DEF Holds
<1> HIDE DEF a
\* The queues.
<1>6. ASSUME NEW u \in Here
      PROVE  /\ Queued(u, 0)' => PlaceOf(u)' = 3
             /\ Queued(u, 1)' => PlaceOf(u)' = 2 /\ u < PRODUCER_COUNT
             /\ Queued(u, 2)' => PlaceOf(u)' = 2 /\ u = PRODUCER_COUNT
  <2>1. CASE a = 1
    <3> DEFINE s == IF produces THEN 1 ELSE 2
    <3>1. \A x \in 0..2 : Queued(u, x)' => Queued(u, x) \/ (u = t /\ x = s)
      BY <1>1, <1>2, <2>1, TakeFacts
    <3> QED
      BY <1>1, <1>2, <1>3, <1>4, <2>1, <3>1
  <2>2. CASE a = 2
    <3>1. \A x \in 0..2 : Queued(u, x)' => Queued(u, x) \/ (u = t /\ x = 0)
      BY <1>1, <1>2, <2>2, TakeFacts
    <3> QED
      BY <1>1, <1>3, <1>4, <2>2, <3>1
  <2>3. CASE a \in 3..5
    <3>1. \A x \in 0..2 : Queued(u, x)' => Queued(u, x)
      BY <1>1, <2>3 DEF Queued
    <3> QED
      BY <1>1, <1>3, <1>4, <3>1
  <2>4. CASE a \in {6, 7}
    <3>1. \A x \in 0..2 : Queued(u, x)' => Queued(u, x)
      BY <1>1, <2>4, GiveFacts
    <3> QED
      BY <1>1, <1>3, <1>4, <3>1
  <2> QED
    BY <1>1, <2>1, <2>2, <2>3, <2>4
\* The token of SEM_MUTEX.
<1> DEFINE Token == /\ count[0] <= 1
                    /\ \A u \in Here : Holds(u) => count[0] <= 0
                    /\ \A u, v \in Here : Holds(u) /\ Holds(v) => u = v
<1>7. CASE a \in {1, 7}
  <2>1. count'[0] = count[0] /\ \A u : Queued(u, 0)' <=> Queued(u, 0)
    <3>1. CASE a = 1
      BY <1>1, <1>2, <3>1, TakeFacts
    <3>2. CASE a = 7
      BY <1>1, <1>2, <3>2, GiveFacts
    <3> QED
      BY <1>7, <3>1, <3>2
  <2>2. \A u \in Here : Holds(u)' => Holds(u)
    BY <1>1, <1>5, <1>7, <2>1
  <2>3. Token'
    BY <1>2, <1>4, <2>1, <2>2
  <2> QED
    BY <1>2, <1>6, <2>3 DEF HolderInv
<1>8. CASE a = 2
  <2>1. /\ count'[0] = count[0] - 1
        /\ \A u : Queued(u, 0)' <=> Queued(u, 0) \/ (u = t /\ count[0] <= 0)
    BY <1>1, <1>2, <1>8, TakeFacts
  <2>2. \A u \in Here : Holds(u)' => Holds(u) \/ (u = t /\ count[0] = 1)
    BY <1>1, <1>4, <1>5, <1>8, <2>1
  <2>3. Token'
    BY <1>2, <1>4, <2>1, <2>2
  <2> QED
    BY <1>2, <1>6, <2>3 DEF HolderInv
<1>9. CASE a \in 3..5
  <2>1. count' = count /\ \A u : Queued(u, 0)' <=> Queued(u, 0)
    BY <1>1, <1>9 DEF Queued
  <2>2. \A u \in Here : Holds(u)' => Holds(u)
    BY <1>1, <1>3, <1>5, <1>9, <2>1 DEF a
  <2>3. Token'
    BY <1>2, <1>4, <2>1, <2>2
  <2> QED
    BY <1>2, <1>6, <2>3 DEF HolderInv
<1>10. CASE a = 6
  <2>1. PICK h : \A u : Queued(u, 0)' <=>
                           Queued(u, 0) /\ ~(u = h /\ count[0] < 0)
    BY <1>1, <1>10, GiveFacts
  <2>2. count'[0] = count[0] + 1
    BY <1>1, <1>10, GiveFacts
  <2>3. Holds(t) /\ ~Holds(t)'
    BY <1>1, <1>2, <1>3, <1>5, <1>10 DEF a
  <2>4. \A u \in Here : Holds(u)' => u = h /\ count[0] < 0
    <3> SUFFICES ASSUME NEW u \in Here, Holds(u)', ~(u = h /\ count[0] < 0)
                 PROVE  FALSE
      OBVIOUS
    <3>1. u # t
      BY <2>3
    <3>2. Holds(u)
      BY <1>1, <1>5, <2>1, <3>1
    <3> QED
      BY <1>2, <1>4, <2>3, <3>1, <3>2
  <2>5. Token'
    BY <1>2, <1>4, <2>2, <2>3, <2>4
  <2> QED
    BY <1>2, <1>6, <2>5 DEF HolderInv
<1> QED
  BY <1>1, <1>7, <1>8, <1>9, <1>10

\* Producers come to ask for a place, to use it, and to tell of the element.
LEMMA ClaimsStep ==
    ASSUME QueueInv, program = "mpsc", NEW t, SyncStep(t)
    PROVE  LET a == PlaceOf(t)
               produces == t < PRODUCER_COUNT
           IN  /\ Claims' = IF produces /\ a = 1 THEN Claims \cup {t}
                            ELSE IF produces /\ a = 4 THEN Claims \ {t}
                            ELSE Claims
               /\ Offers' = IF produces /\ a = 4 THEN Offers \cup {t}
                            ELSE IF produces /\ a = 7 THEN Offers \ {t}
                            ELSE Offers
               /\ produces => /\ a \in 2..4 <=> t \in Claims
                              /\ a \in 5..7 <=> t \in Offers
               /\ Asks' = IF ~produces /\ a = 1 THEN 1
                          ELSE IF ~produces /\ a = 4 THEN 0 ELSE Asks
               /\ Frees' = IF ~produces /\ a = 4 THEN 1
                           ELSE IF ~produces /\ a = 7 THEN 0 ELSE Frees
               /\ ~produces => Asks = IF a \in 2..4 THEN 1 ELSE 0
               /\ ~produces => Frees = IF a \in 5..7 THEN 1 ELSE 0
<1> DEFINE a == PlaceOf(t)
           produces == t < PRODUCER_COUNT
<1>1. /\ a \in 1..7
      /\ PlaceOf(t)' = IF a = 7 THEN 1 ELSE a + 1
      /\ \A u \in Here : u # t => PlaceOf(u)' = PlaceOf(u)
  BY MpscMoves
<1>2. /\ t \in Here /\ Here' = Here /\ PRODUCER_COUNT \in Here
      /\ ~produces <=> t = PRODUCER_COUNT
  BY StepFacts, MpscHere DEF QueueInv
<1> HIDE DEF a, produces
<1>3. /\ Claims = {u \in Here : u < PRODUCER_COUNT /\ PlaceOf(u) \in 2..4}
      /\ Claims' = {u \in Here : u < PRODUCER_COUNT /\ PlaceOf(u)' \in 2..4}
      /\ Offers = {u \in Here : u < PRODUCER_COUNT /\ PlaceOf(u) \in 5..7}
      /\ Offers' = {u \in Here : u < PRODUCER_COUNT /\ PlaceOf(u)' \in 5..7}
  BY <1>2 DEF Claims, Offers
<1>4. produces => /\ a \in 2..4 <=> t \in Claims
                  /\ a \in 5..7 <=> t \in Offers
  BY <1>2, <1>3 DEF a, produces
<1>5. \A u \in Here : u # t => /\ u \in Claims' <=> u \in Claims
                               /\ u \in Offers' <=> u \in Offers
  BY <1>1, <1>3
<1>6. /\ t \in Claims' <=> produces /\ a \in 1..3
      /\ t \in Offers' <=> produces /\ a \in 4..6
      /\ t \in Claims <=> produces /\ a \in 2..4
      /\ t \in Offers <=> produces /\ a \in 5..7
  BY <1>1, <1>2, <1>3 DEF a, produces
<1>7. Claims' = IF produces /\ a = 1 THEN Claims \cup {t}
                ELSE IF produces /\ a = 4 THEN Claims \ {t}
                ELSE Claims
  <2>1. Claims \subseteq Here /\ Claims' \subseteq Here
    BY <1>3
  <2> QED
    BY <1>1, <1>2, <1>5, <1>6, <2>1
<1>8. Offers' = IF produces /\ a = 4 THEN Offers \cup {t}
                ELSE IF produces /\ a = 7 THEN Offers \ {t}
                ELSE Offers
  <2>1. Offers \subseteq Here /\ Offers' \subseteq Here
    BY <1>3
  <2> QED
    BY <1>1, <1>2, <1>5, <1>6, <2>1
<1>9. CASE produces
  <2>1. PlaceOf(PRODUCER_COUNT)' = PlaceOf(PRODUCER_COUNT)
    BY <1>1, <1>2, <1>9
  <2>2. Asks' = Asks /\ Frees' = Frees
    BY <2>1 DEF Asks, Frees
  <2> QED
    BY <1>4, <1>7, <1>8, <1>9, <2>2 DEF a, produces
<1>10. CASE ~produces
  <2>1. /\ Asks = IF a \in 2..4 THEN 1 ELSE 0
        /\ Frees = IF a \in 5..7 THEN 1 ELSE 0
    BY <1>2, <1>10 DEF Asks, Frees, a
  <2>2. /\ Asks' = IF a \in 1..3 THEN 1 ELSE 0
        /\ Frees' = IF a \in 4..6 THEN 1 ELSE 0
    BY <1>1, <1>2, <1>10 DEF Asks, Frees
  <2> QED
    BY <1>1, <1>7, <1>8, <1>10, <2>1, <2>2 DEF a, produces
<1> QED
  BY <1>9, <1>10

LEMMA ClaimsFinite ==
    ASSUME QueueInv, program = "mpsc"
    PROVE  /\ IsFiniteSet(Claims) /\ Cardinality(Claims) \in Nat
           /\ IsFiniteSet(Offers) /\ Cardinality(Offers) \in Nat
<1>1. Claims \subseteq Here /\ Offers \subseteq Here
  BY DEF Claims, Offers
<1> QED
  BY <1>1, MpscHere, FS_Subset, FS_CardinalityType

LEMMA CountStep ==
    ASSUME QueueInv, program = "mpsc", CountInv, BufferInv, NEW t, SyncStep(t)
    PROVE  CountInv'
<1> DEFINE a == PlaceOf(t)
           produces == t < PRODUCER_COUNT
           c == Cardinality(Claims)
           o == Cardinality(Offers)
<1>1. /\ a \in 1..7
      /\ a = 1 => TakeToken(IF produces THEN 1 ELSE 2, t)
      /\ a = 2 => TakeToken(0, t)
      /\ a = 6 => GiveToken(0)
      /\ a = 7 => GiveToken(IF produces THEN 2 ELSE 1)
      /\ a \in 3..5 => UNCHANGED count
      /\ a # 4 => UNCHANGED <<puts, output>>
      /\ a = 4 => IF produces THEN puts' = Append(puts, t) /\ UNCHANGED output
                  ELSE /\ output' = Append(output, BUFFER[reg[t]])
                       /\ UNCHANGED puts
  BY MpscMoves
<1>2. /\ t \in Here /\ count \in [0..2 -> Int] /\ BUFFER_SIZE \in Nat
  BY StepFacts, MpscHere DEF QueueInv, SyncType
<1>3. /\ Len(puts) \in Nat /\ Len(output) \in Nat
      /\ \A e : Len(Append(puts, e)) = Len(puts) + 1
      /\ \A e : Len(Append(output, e)) = Len(output) + 1
  <2>1. puts \in Seq(Nat) /\ output \in Seq(Nat)
    BY DEF BufferInv
  <2> QED
    BY <2>1, LenProperties
<1>4. /\ IsFiniteSet(Claims) /\ c \in Nat /\ IsFiniteSet(Offers) /\ o \in Nat
  BY ClaimsFinite
<1>5. /\ Claims' = IF produces /\ a = 1 THEN Claims \cup {t}
                   ELSE IF produces /\ a = 4 THEN Claims \ {t}
                   ELSE Claims
      /\ Offers' = IF produces /\ a = 4 THEN Offers \cup {t}
                   ELSE IF produces /\ a = 7 THEN Offers \ {t}
                   ELSE Offers
      /\ produces => /\ a \in 2..4 <=> t \in Claims
                     /\ a \in 5..7 <=> t \in Offers
      /\ Asks' = IF ~produces /\ a = 1 THEN 1
                 ELSE IF ~produces /\ a = 4 THEN 0 ELSE Asks
      /\ Frees' = IF ~produces /\ a = 4 THEN 1
                  ELSE IF ~produces /\ a = 7 THEN 0 ELSE Frees
      /\ ~produces => Asks = IF a \in 2..4 THEN 1 ELSE 0
      /\ ~produces => Frees = IF a \in 5..7 THEN 1 ELSE 0
  BY ClaimsStep
<1>6. Asks \in {0, 1} /\ Frees \in {0, 1}
  BY DEF Asks, Frees
<1> HIDE DEF a, produces
<1>7. c' = IF produces /\ a = 1 THEN c + 1
           ELSE IF produces /\ a = 4 THEN c - 1 ELSE c
  <2>1. CASE produces /\ a = 1
    <3>1. t \notin Claims /\ Claims' = Claims \cup {t}
      BY <1>5, <2>1
    <3> QED
      BY <1>4, <2>1, <3>1, FS_AddElement
  <2>2. CASE produces /\ a = 4
    <3>1. t \in Claims /\ Claims' = Claims \ {t}
      BY <1>5, <2>2
    <3>2. Cardinality(Claims \ {t}) = c - 1
      BY <1>4, <3>1, FS_RemoveElement
    <3> QED
      BY <2>2, <3>1, <3>2
  <2>3. CASE ~(produces /\ a \in {1, 4})
    BY <1>5, <2>3
  <2> QED
    BY <1>1, <2>1, <2>2, <2>3
<1>8. o' = IF produces /\ a = 4 THEN o + 1
           ELSE IF produces /\ a = 7 THEN o - 1 ELSE o
  <2>1. CASE produces /\ a = 4
    <3>1. t \notin Offers /\ Offers' = Offers \cup {t}
      BY <1>5, <2>1
    <3> QED
      BY <1>4, <2>1, <3>1, FS_AddElement
  <2>2. CASE produces /\ a = 7
    <3>1. t \in Offers /\ Offers' = Offers \ {t}
      BY <1>5, <2>2
    <3>2. Cardinality(Offers \ {t}) = o - 1
      BY <1>4, <3>1, FS_RemoveElement
    <3> QED
      BY <2>2, <3>1, <3>2
  <2>3. CASE ~(produces /\ a \in {4, 7})
    BY <1>5, <2>3
  <2> QED
    BY <1>1, <2>1, <2>2, <2>3
<1>9. Held' = IF a # 4 THEN Held ELSE IF produces THEN Held + 1 ELSE Held - 1
  BY <1>1, <1>3 DEF Held
<1>10. /\ count'[1] = IF produces /\ a = 1 THEN count[1] - 1
                      ELSE IF ~produces /\ a = 7 THEN count[1] + 1 ELSE count[1]
       /\ count'[2] = IF ~produces /\ a = 1 THEN count[2] - 1
                      ELSE IF produces /\ a = 7 THEN count[2] + 1 ELSE count[2]
  <2>1. CASE a \in {1, 2}
    BY <1>1, <1>2, <2>1, TakeFacts
  <2>2. CASE a \in {6, 7}
    BY <1>1, <2>2, GiveFacts
  <2>3. CASE a \in 3..5
    BY <1>1, <2>3
  <2> QED
    BY <1>1, <2>1, <2>2, <2>3
<1>11. Held \in Int
  BY <1>3 DEF Held
<1>12. /\ count[1] = BUFFER_SIZE - Held - c - Frees
       /\ count[2] = Held - o - Asks
  BY DEF CountInv
<1> HIDE DEF c, o
<1>13. /\ count'[1] = BUFFER_SIZE - Held' - c' - Frees'
       /\ count'[2] = Held' - o' - Asks'
  <2>1. CASE produces
    BY <1>1, <1>2, <1>4, <1>5, <1>6, <1>7, <1>8, <1>9, <1>10, <1>11, <1>12, <2>1
  <2>2. CASE ~produces
    BY <1>1, <1>2, <1>4, <1>5, <1>6, <1>7, <1>8, <1>9, <1>10, <1>11, <1>12, <2>2
  <2> QED
    BY <2>1, <2>2
<1> QED
  BY <1>13 DEF CountInv, c, o

\* Who puts has room, and who gets has an element.
LEMMA Room ==
    ASSUME QueueInv, program = "mpsc", HolderInv, CountInv, BufferInv,
           NEW t \in Here \ blocked, PlaceOf(t) = 4
    PROVE  /\ t < PRODUCER_COUNT => Held < BUFFER_SIZE
           /\ ~(t < PRODUCER_COUNT) => Held > 0
<1>1. /\ \A s \in 0..2 : /\ ~Queued(t, s) /\ sem_queue[s] \in Seq(Here)
                         /\ IsInjective(sem_queue[s])
                         /\ Len(sem_queue[s]) =
                               IF count[s] < 0 THEN 0 - count[s] ELSE 0
                         /\ count[s] \in Int
  BY Apart DEF QueueInv, SyncType, Waiting, Queued
<1>2. /\ BUFFER_SIZE \in Nat /\ PRODUCER_COUNT \in Nat
      /\ \A u \in Here : ~(u < PRODUCER_COUNT) => u = PRODUCER_COUNT
  BY MpscHere
<1>3. /\ IsFiniteSet(Claims) /\ Cardinality(Claims) \in Nat
      /\ Cardinality(Offers) \in Nat
  BY ClaimsFinite
<1>4. Held \in Int /\ Asks \in {0, 1} /\ Frees \in {0, 1}
  BY DEF BufferInv, Asks, Frees
<1>5. ASSUME t < PRODUCER_COUNT
      PROVE  Held < BUFFER_SIZE
  <2> DEFINE q == sem_queue[1]
             n == Len(q)
  <2>1. n \in Nat /\ q \in [1..n -> Here]
    BY <1>1, LenProperties
  <2>2. \A k \in 1..n : q[k] \in Claims \ {t}
    <3> SUFFICES ASSUME NEW k \in 1..n
                 PROVE  q[k] \in Claims \ {t}
      OBVIOUS
    <3>1. q[k] \in Here /\ Queued(q[k], 1)
      BY <2>1 DEF Queued, Range
    <3>2. PlaceOf(q[k]) = 2 /\ q[k] < PRODUCER_COUNT
      BY <3>1 DEF HolderInv
    <3> QED
      BY <3>1, <3>2 DEF Claims
  <2>3. q \in Injection(1..n, Claims \ {t})
    <3>1. q \in [1..n -> Claims \ {t}]
      BY <2>1, <2>2
    <3> QED
      BY <1>1, <2>1, <3>1 DEF Injection, IsInjective
  <2>4. t \in Claims
    BY <1>5 DEF Claims
  <2>5. IsFiniteSet(Claims \ {t})
        /\ Cardinality(Claims \ {t}) = Cardinality(Claims) - 1
    BY <1>3, <2>4, FS_RemoveElement
  <2> HIDE DEF q, n
  <2>6. Cardinality(1..n) <= Cardinality(Claims \ {t})
    BY <2>3, <2>5, FS_Injection
  <2>7. Cardinality(1..n) = n
    <3>1. Cardinality(1..n) = IF 1 > n THEN 0 ELSE n - 1 + 1
      BY <2>1, FS_Interval
    <3> QED
      BY <2>1, <3>1
  <2>8. n = IF count[1] < 0 THEN 0 - count[1] ELSE 0
    BY <1>1 DEF q, n
  <2>9. count[1] = BUFFER_SIZE - Held - Cardinality(Claims) - Frees
    BY DEF CountInv
  <2> QED
    BY SMTT(30), <1>1, <1>2, <1>3, <1>4, <2>1, <2>5, <2>6, <2>7, <2>8, <2>9
<1>6. ASSUME ~(t < PRODUCER_COUNT)
      PROVE  Held > 0
  <2>1. t = PRODUCER_COUNT
    BY <1>2, <1>6
  <2>2. count[2] >= 0
    <3> SUFFICES ASSUME count[2] < 0 PROVE FALSE
      BY <1>1
    <3>1. sem_queue[2] # <<>> /\ sem_queue[2] \in Seq(Here)
      BY SomebodyWaits DEF QueueInv
    <3>2. Head(sem_queue[2]) \in Here /\ Queued(Head(sem_queue[2]), 2)
      BY <3>1, TailFacts DEF Queued
    <3>3. Head(sem_queue[2]) = t
      BY <2>1, <3>2 DEF HolderInv
    <3> QED
      BY <1>1, <3>2, <3>3
  <2>3. Asks = 1
    BY <2>1 DEF Asks
  <2>4. count[2] = Held - Cardinality(Offers) - Asks
    BY DEF CountInv
  <2> QED
    BY <1>3, <1>4, <2>2, <2>3, <2>4
<1> QED
  BY <1>5, <1>6

\* The places of the buffer go round.
LEMMA Cells ==
    ASSUME BUFFER_SIZE \in Nat \ {0}, NEW f \in 0..(BUFFER_SIZE - 1),
           NEW n \in 0..BUFFER_SIZE
    PROVE  /\ (f + 1) % BUFFER_SIZE = Onward(f)
           /\ Onward(f) \in 0..(BUFFER_SIZE - 1)
           /\ Slot(f + n) \in 0..(BUFFER_SIZE - 1)
           /\ Slot(f + 0) = f
           /\ n < BUFFER_SIZE => /\ Onward(Slot(f + n)) = Slot(f + (n + 1))
                                 /\ Slot(Onward(f) + n) = Slot(f + (n + 1))
           /\ \A d \in 0..(n - 1) : Slot(f + d) \in 0..(BUFFER_SIZE - 1)
           /\ n < BUFFER_SIZE =>
                 \A d \in 0..(n - 1) : Slot(f + d) # Slot(f + n)
<1>1. (f + 1) % BUFFER_SIZE = Onward(f)
  BY DEF Onward
<1>2. /\ Onward(f) \in 0..(BUFFER_SIZE - 1)
      /\ Slot(f + n) \in 0..(BUFFER_SIZE - 1)
      /\ Slot(f + 0) = f
      /\ n < BUFFER_SIZE => /\ Onward(Slot(f + n)) = Slot(f + (n + 1))
                            /\ Slot(Onward(f) + n) = Slot(f + (n + 1))
      /\ \A d \in 0..(n - 1) : Slot(f + d) \in 0..(BUFFER_SIZE - 1)
      /\ n < BUFFER_SIZE =>
            \A d \in 0..(n - 1) : Slot(f + d) # Slot(f + n)
  BY DEF Onward, Slot
<1> QED
  BY <1>1, <1>2

\* Only who holds the token is at the buffer.
LEMMA AtBuffer ==
    ASSUME QueueInv, program = "mpsc", HolderInv, NEW t \in Here \ blocked,
           PlaceOf(t) \in 3..6
    PROVE  \A u \in Here : u # t => PlaceOf(u) \notin {4, 5}
<1>1. \A s \in 0..2 : ~Queued(t, s)
  BY Apart DEF QueueInv, Queued
<1>2. Holds(t)
  BY <1>1 DEF Holds
<1>3. \A u \in Here : PlaceOf(u) \in {4, 5} => Holds(u)
  BY DEF HolderInv, Holds
<1> QED
  BY <1>2, <1>3 DEF HolderInv

LEMMA BufferStep ==
    ASSUME QueueInv, program = "mpsc", HolderInv, CountInv, BufferInv,
           NEW t, SyncStep(t)
    PROVE  BufferInv'
<1> DEFINE a == PlaceOf(t)
           produces == t < PRODUCER_COUNT
           x == IF produces THEN "TAIL" ELSE "FRONT"
           B == BUFFER_SIZE
           f == mem["FRONT"]
           e == mem["TAIL"]
<1>1. /\ a \in 1..7
      /\ PlaceOf(t)' = IF a = 7 THEN 1 ELSE a + 1
      /\ \A u \in Here : u # t => PlaceOf(u)' = PlaceOf(u)
      /\ a \notin 3..5 => UNCHANGED <<reg, mem, BUFFER, puts, output>>
      /\ a = 3 => /\ reg' = [reg EXCEPT ![t] = mem[x]]
                  /\ UNCHANGED <<mem, BUFFER, puts, output>>
      /\ a = 4 => /\ UNCHANGED <<reg, mem>>
                  /\ IF produces
                     THEN /\ BUFFER' = [BUFFER EXCEPT ![reg[t]] = t]
                          /\ puts' = Append(puts, t)
                          /\ UNCHANGED output
                     ELSE /\ output' = Append(output, BUFFER[reg[t]])
                          /\ UNCHANGED <<BUFFER, puts>>
      /\ a = 5 => /\ mem' = [mem EXCEPT ![x] = (reg[t] + 1) % BUFFER_SIZE]
                  /\ UNCHANGED <<reg, BUFFER, puts, output>>
  BY MpscMoves
<1>2. /\ t \in Here /\ Here' = Here /\ t \notin blocked
      /\ reg \in [Here -> Nat] /\ mem \in [Variables -> Nat]
      /\ PRODUCER_COUNT \in Here /\ PRODUCER_COUNT \in Nat
      /\ B \in Nat \ {0} /\ t \in Nat /\ (~produces <=> t = PRODUCER_COUNT)
      /\ \A u \in Here : u \in Nat /\ (~(u < PRODUCER_COUNT) <=> u = PRODUCER_COUNT)
  <2>1. t \in Here /\ Here' = Here /\ t \notin blocked
    BY StepFacts DEF QueueInv
  <2>2. reg \in [Here -> Nat] /\ mem \in [Variables -> Nat]
    BY DEF QueueInv, SyncType, Here
  <2> QED
    BY <2>1, <2>2, MpscHere
<1>3. /\ BUFFER \in [0..(B - 1) -> Nat] /\ puts \in Seq(Nat)
      /\ output \in Seq(Nat)
      /\ f \in 0..(B - 1) /\ e \in 0..(B - 1)
      /\ \A u \in Here : PlaceOf(u) \in {4, 5} =>
            reg[u] = IF u < PRODUCER_COUNT THEN e ELSE f
      /\ Held \in 0..B /\ Held = Len(puts) - Len(output)
      /\ End = Slot(Begin + Held)
      /\ \A d \in 0..(Held - 1) :
            BUFFER[Slot(Begin + d)] = puts[Len(output) + 1 + d]
      /\ \A k \in 1..Len(output) : output[k] = puts[k]
  BY DEF BufferInv, Held
<1>4. a \in 3..5 => \A u \in Here : u # t => PlaceOf(u) \notin {4, 5}
  BY <1>2, AtBuffer
<1>5. Len(puts) \in Nat /\ Len(output) \in Nat
  BY <1>3, LenProperties
<1> DEFINE Putting == \E u \in Here : u < PRODUCER_COUNT /\ PlaceOf(u) = 5
           Getting == PlaceOf(PRODUCER_COUNT) = 5
<1>6. /\ Begin = (IF Getting THEN Onward(f) ELSE f)
      /\ Begin' = (IF Getting' THEN Onward(f') ELSE f')
      /\ End = (IF Putting THEN Onward(e) ELSE e)
      /\ End' = (IF Putting' THEN Onward(e') ELSE e')
  BY DEF Begin, End, Onward
<1>7. /\ a # 5 => (Putting' <=> Putting \/ (produces /\ a = 4))
      /\ a # 5 => (Getting' <=> Getting \/ (~produces /\ a = 4))
      /\ a \in 3..4 => ~Putting /\ ~Getting
      /\ a = 5 => /\ Putting <=> produces
                  /\ Getting <=> ~produces
                  /\ ~Putting' /\ ~Getting'
  <2>1. /\ PlaceOf(t) = a
        /\ PlaceOf(t)' = 5 <=> a = 4
        /\ \A u \in Here : u # t => PlaceOf(u)' = PlaceOf(u)
        /\ a \in 3..5 => \A u \in Here : u # t => PlaceOf(u) # 5
    BY <1>1, <1>4
  <2>2. Putting' <=> \E u \in Here : u < PRODUCER_COUNT /\ PlaceOf(u)' = 5
    BY <1>2
  <2> HIDE DEF a
  <2>3. /\ a # 5 => (Putting' <=> Putting \/ (produces /\ a = 4))
        /\ a \in 3..4 => ~Putting
        /\ a = 5 => (Putting <=> produces) /\ ~Putting'
    BY <1>2, <2>1, <2>2
  <2>4. /\ a # 5 => (Getting' <=> Getting \/ (~produces /\ a = 4))
        /\ a \in 3..4 => ~Getting
        /\ a = 5 => (Getting <=> ~produces) /\ ~Getting'
    BY <1>2, <2>1
  <2> QED
    BY <2>3, <2>4
<1>8. BufferInv' <=>
         /\ BUFFER' \in [0..(B - 1) -> Nat] /\ puts' \in Seq(Nat)
         /\ output' \in Seq(Nat)
         /\ f' \in 0..(B - 1) /\ e' \in 0..(B - 1)
         /\ \A u \in Here : PlaceOf(u)' \in {4, 5} =>
               reg'[u] = IF u < PRODUCER_COUNT THEN e' ELSE f'
         /\ Held' \in 0..B
         /\ End' = Slot(Begin' + Held')
         /\ \A d \in 0..(Held' - 1) :
               BUFFER'[Slot(Begin' + d)] = puts'[Len(output') + 1 + d]
         /\ \A k \in 1..Len(output') : output'[k] = puts'[k]
  BY <1>2 DEF BufferInv, Slot
<1>9. Held' = Len(puts') - Len(output')
  BY DEF Held
<1> HIDE DEF a, produces, Putting, Getting, x, f, e
\* A step that leaves the buffer alone.
<1>10. ASSUME UNCHANGED <<BUFFER, puts, output>>, Begin' = Begin, End' = End,
              f' \in 0..(B - 1), e' \in 0..(B - 1),
              \A u \in Here : PlaceOf(u)' \in {4, 5} =>
                 reg'[u] = IF u < PRODUCER_COUNT THEN e' ELSE f'
       PROVE  BufferInv'
  <2>1. Held' = Held
    BY <1>3, <1>9, <1>10
  <2> QED
    BY <1>3, <1>8, <1>10, <2>1
<1>11. CASE a \notin 3..5
  <2>1. UNCHANGED <<reg, mem, BUFFER, puts, output>> /\ f' = f /\ e' = e
    BY <1>1, <1>11 DEF f, e
  <2>2. Begin' = Begin /\ End' = End
    BY <1>1, <1>6, <1>7, <1>11, <2>1
  <2>3. \A u \in Here : PlaceOf(u)' \in {4, 5} => PlaceOf(u) \in {4, 5}
    BY <1>1, <1>11 DEF a
  <2> QED
    BY <1>3, <1>10, <2>1, <2>2, <2>3
<1>12. CASE a = 3
  <2>1. /\ UNCHANGED <<mem, BUFFER, puts, output>> /\ f' = f /\ e' = e
        /\ reg'[t] = IF produces THEN e ELSE f
    BY <1>1, <1>2, <1>12 DEF f, e, x
  <2>2. Begin' = Begin /\ End' = End
    BY <1>6, <1>7, <1>12, <2>1
  <2>3. \A u \in Here : PlaceOf(u)' \in {4, 5} => u = t
    BY <1>1, <1>4, <1>12
  <2> QED
    BY <1>3, <1>10, <2>1, <2>2, <2>3 DEF produces
<1>13. CASE a = 5
  <2>1. reg[t] = (IF produces THEN e ELSE f) /\ UNCHANGED <<BUFFER, puts, output>>
    BY <1>1, <1>2, <1>3, <1>13 DEF a, produces
  <2>2. (reg[t] + 1) % B = Onward(IF produces THEN e ELSE f)
        /\ Onward(IF produces THEN e ELSE f) \in 0..(B - 1)
    BY <1>2, <1>3, <2>1, Cells
  <2>3. /\ e' = IF produces THEN Onward(e) ELSE e
        /\ f' = IF produces THEN f ELSE Onward(f)
    BY <1>1, <1>2, <1>13, <2>2 DEF e, f, x, Variables
  <2>4. Begin' = Begin /\ End' = End
    BY <1>6, <1>7, <1>13, <2>3
  <2>5. \A u \in Here : PlaceOf(u)' \notin {4, 5}
    BY <1>1, <1>4, <1>13
  <2> QED
    BY <1>3, <1>10, <2>1, <2>2, <2>3, <2>4, <2>5
<1>14. a = 4 => /\ f' = f /\ e' = e /\ Begin = f /\ End = e
                /\ reg[t] = IF produces THEN e ELSE f
                /\ \A u \in Here : PlaceOf(u)' \in {4, 5} =>
                      reg'[u] = IF u < PRODUCER_COUNT THEN e' ELSE f'
                /\ End' = IF produces THEN Onward(e) ELSE e
                /\ Begin' = IF produces THEN f ELSE Onward(f)
  <2>1. SUFFICES ASSUME a = 4
                 PROVE  /\ f' = f /\ e' = e /\ Begin = f /\ End = e
                        /\ reg[t] = IF produces THEN e ELSE f
                        /\ \A u \in Here : PlaceOf(u)' \in {4, 5} =>
                              reg'[u] = IF u < PRODUCER_COUNT THEN e' ELSE f'
                        /\ End' = IF produces THEN Onward(e) ELSE e
                        /\ Begin' = IF produces THEN f ELSE Onward(f)
    OBVIOUS
  <2>2. f' = f /\ e' = e /\ reg' = reg
    BY <1>1, <2>1 DEF f, e
  <2>3. /\ Begin = f /\ End = e
        /\ End' = IF produces THEN Onward(e) ELSE e
        /\ Begin' = IF produces THEN f ELSE Onward(f)
    BY <1>6, <1>7, <2>1, <2>2
  <2>4. reg[t] = IF produces THEN e ELSE f
    BY <1>2, <1>3, <2>1 DEF a, produces
  <2>5. \A u \in Here : PlaceOf(u)' \in {4, 5} => u = t
    BY <1>1, <1>4, <2>1
  <2>6. \A u \in Here : PlaceOf(u)' \in {4, 5} =>
           reg'[u] = IF u < PRODUCER_COUNT THEN e' ELSE f'
    BY <2>2, <2>4, <2>5 DEF produces
  <2> QED
    BY <2>2, <2>3, <2>4, <2>6
<1>15. a = 4 => (produces => Held < B) /\ (~produces => Held > 0)
  BY <1>2, Room DEF a, produces
<1>16. CASE a = 4 /\ produces
  <2>1. /\ BUFFER' = [BUFFER EXCEPT ![e] = t] /\ puts' = Append(puts, t)
        /\ output' = output
    BY <1>1, <1>14, <1>16
  <2>2. /\ puts' \in Seq(Nat) /\ Len(puts') = Len(puts) + 1
        /\ \A k \in 1..Len(puts) : puts'[k] = puts[k]
        /\ puts'[Len(puts) + 1] = t
    BY <1>2, <1>3, <2>1, AppendProperties
  <2>3. Held' = Held + 1 /\ Held' \in 0..B /\ Held \in 0..(B - 1)
    BY SMTT(30), <1>2, <1>3, <1>5, <1>9, <1>15, <1>16, <2>1, <2>2
  <2>4. /\ e = Slot(f + Held) /\ Onward(e) = Slot(f + (Held + 1))
        /\ \A d \in 0..(Held - 1) : /\ Slot(f + d) \in 0..(B - 1)
                                    /\ Slot(f + d) # e
    <3>1. e = Slot(f + Held)
      BY <1>3, <1>14, <1>16
    <3>2. /\ Onward(Slot(f + Held)) = Slot(f + (Held + 1))
          /\ \A d \in 0..(Held - 1) : Slot(f + d) \in 0..(B - 1)
          /\ \A d \in 0..(Held - 1) : Slot(f + d) # Slot(f + Held)
      <4>1. f \in 0..(B - 1) /\ Held \in 0..B /\ Held < B
        BY <1>3, <1>15, <1>16
      <4> HIDE DEF B
      <4> QED
        BY <1>2, <4>1, Cells DEF B
    <3> QED
      BY <3>1, <3>2
  <2>5. ASSUME NEW d \in 0..(Held' - 1)
        PROVE  BUFFER'[Slot(f + d)] = puts'[Len(output') + 1 + d]
    <3>1. CASE d = Held
      <4>1. Len(output') + 1 + d = Len(puts) + 1
        BY <1>3, <1>5, <2>1, <3>1
      <4> QED
        BY <1>3, <2>1, <2>2, <2>4, <3>1, <4>1
    <3>2. CASE d # Held
      <4>1. d \in 0..(Held - 1) /\ Len(output) + 1 + d \in 1..Len(puts)
        BY <1>3, <1>5, <2>3, <3>2
      <4>2. BUFFER'[Slot(f + d)] = BUFFER[Slot(f + d)]
        BY <1>3, <2>1, <2>4, <4>1
      <4> QED
        BY <1>3, <1>14, <1>16, <2>1, <2>2, <4>1, <4>2
    <3> QED
      BY <3>1, <3>2
  <2>6. \A k \in 1..Len(output') : output'[k] = puts'[k]
    BY <1>3, <1>5, <2>1, <2>2
  <2>7. BUFFER' \in [0..(B - 1) -> Nat]
    BY <1>2, <1>3, <2>1
  <2>8. End' = Slot(Begin' + Held') /\ Begin' = f
    BY <1>14, <1>16, <2>3, <2>4
  <2>9. f' \in 0..(B - 1) /\ e' \in 0..(B - 1) /\ output' \in Seq(Nat)
    BY <1>3, <1>14, <1>16, <2>1
  <2> QED
    BY <1>8, <1>14, <1>16, <2>2, <2>3, <2>5, <2>6, <2>7, <2>8, <2>9
<1>17. CASE a = 4 /\ ~produces
  <2>1. /\ output' = Append(output, BUFFER[f])
        /\ UNCHANGED <<BUFFER, puts>>
    BY <1>1, <1>14, <1>17
  <2>2. /\ output' \in Seq(Nat) /\ Len(output') = Len(output) + 1
        /\ \A k \in 1..Len(output) : output'[k] = output[k]
        /\ output'[Len(output) + 1] = BUFFER[f]
    BY SMTT(30), <1>3, <2>1, AppendProperties
  <2>3. Held' = Held - 1 /\ Held' \in 0..(B - 1) /\ Held \in 1..B
    BY <1>2, <1>3, <1>5, <1>9, <1>15, <1>17, <2>1, <2>2
  <2>4. Slot(f + 0) = f
    BY <1>2, <1>3, Cells
  <2>5. ASSUME NEW d \in 0..(B - 1)
        PROVE  Slot(Onward(f) + d) = Slot(f + (d + 1))
    BY <1>2, <1>3, Cells
  <2>6. End' = Slot(Begin' + Held')
    BY <1>3, <1>14, <1>17, <2>3, <2>5
  <2>7. ASSUME NEW d \in 0..(Held' - 1)
        PROVE  BUFFER'[Slot(Begin' + d)] = puts'[Len(output') + 1 + d]
    <3>1. d \in 0..(B - 1) /\ d + 1 \in 0..(Held - 1)
      BY <1>2, <2>3
    <3>2. BUFFER[Slot(f + (d + 1))] = puts[Len(output) + 1 + (d + 1)]
      BY <1>3, <1>14, <1>17, <3>1
    <3>3. Len(output) + 1 + (d + 1) = Len(output') + 1 + d
      BY <1>5, <2>2
    <3> QED
      BY <1>14, <1>17, <2>1, <2>5, <3>1, <3>2, <3>3
  <2>8. BUFFER[f] = puts[Len(output) + 1]
    <3>1. 0 \in 0..(Held - 1)
      BY <2>3
    <3>2. BUFFER[Slot(f + 0)] = puts[Len(output) + 1 + 0]
      BY <1>3, <1>14, <1>17, <3>1
    <3> QED
      BY <1>5, <2>4, <3>2
  <2>9. \A k \in 1..Len(output') : output'[k] = puts'[k]
    <3> SUFFICES ASSUME NEW k \in 1..Len(output')
                 PROVE  output'[k] = puts'[k]
      OBVIOUS
    <3>1. CASE k = Len(output) + 1
      BY <2>1, <2>2, <2>8, <3>1
    <3>2. CASE k # Len(output) + 1
      <4>1. k \in 1..Len(output)
        BY <1>5, <2>2, <3>2
      <4> QED
        BY <1>3, <2>1, <2>2, <4>1
    <3> QED
      BY <3>1, <3>2
  <2>10. /\ f' \in 0..(B - 1) /\ e' \in 0..(B - 1)
         /\ BUFFER' \in [0..(B - 1) -> Nat] /\ puts' \in Seq(Nat)
    BY <1>3, <1>14, <1>17, <2>1
  <2>11. Held' \in 0..B
    BY <1>2, <2>3
  <2> QED
    BY <1>8, <1>14, <1>17, <2>2, <2>6, <2>7, <2>9, <2>10, <2>11
<1> QED
  BY <1>1, <1>11, <1>12, <1>13, <1>16, <1>17

LEMMA MpscInit == SyncInit => MpscInv
<1> SUFFICES ASSUME SyncInit, program = "mpsc"
             PROVE  HolderInv /\ CountInv /\ BufferInv
  BY DEF MpscInv, SyncInit
<1>1. QueueInv
  BY QueueInit
<1>2. BUFFER_SIZE \in Nat \ {0} /\ PRODUCER_COUNT \in Here
  BY <1>1, MpscHere
<1>3. /\ \A t \in Here : PlaceOf(t) = 1
      /\ \A t : \A s \in 0..2 : ~Queued(t, s)
  <2>1. \A t \in Here : ip[t] = 1
    BY DEF SyncInit, Here
  <2>2. Place(1, 7) = 1
    BY PlaceFacts
  <2> QED
    BY <2>1, <2>2 DEF SyncInit, PlaceOf, Queued, Range
<1>4. count[0] = 1 /\ count[1] = BUFFER_SIZE /\ count[2] = 0
  <2>1. res_counts[program] = <<1, BUFFER_SIZE, 0>>
    BY DEF res_counts, Programs
  <2> QED
    BY <2>1 DEF SyncInit
<1>5. HolderInv
  BY <1>3, <1>4 DEF HolderInv, Holds
<1>6. /\ puts = <<>> /\ output = <<>> /\ mem["FRONT"] = 0 /\ mem["TAIL"] = 0
      /\ BUFFER = [k \in 0..(BUFFER_SIZE - 1) |-> 0]
  BY DEF SyncInit, Variables
<1>7. Held = 0
  BY <1>6 DEF Held
<1>8. CountInv
  <2>1. Claims = {} /\ Offers = {}
    BY <1>3 DEF Claims, Offers
  <2>2. Cardinality({}) = 0
    BY FS_EmptySet
  <2>3. Asks = 0 /\ Frees = 0
    BY <1>2, <1>3 DEF Asks, Frees
  <2> QED
    BY <1>2, <1>4, <1>7, <2>1, <2>2, <2>3 DEF CountInv
<1>9. BufferInv
  <2>1. Begin = 0 /\ End = 0
    BY <1>2, <1>3, <1>6 DEF Begin, End
  <2>2. Slot(0 + 0) = 0
    BY <1>2 DEF Slot
  <2>3. <<>> \in Seq(Nat) /\ Len(<<>>) = 0
    OBVIOUS
  <2> QED
    BY <1>2, <1>3, <1>6, <1>7, <2>1, <2>2, <2>3 DEF BufferInv
<1> QED
  BY <1>5, <1>8, <1>9

LEMMA MpscStep ==
    ASSUME QueueInv, MpscInv, NEW t, SyncStep(t)
    PROVE  MpscInv'
<1>1. /\ program' = program /\ WellMade(program, Instruction(t), ip[t])
  BY StepFacts DEF QueueInv
<1>2. CASE program = "mpsc"
  BY <1>1, <1>2, HolderStep, CountStep, BufferStep DEF MpscInv
<1>3. CASE program # "mpsc"
  <2>1. Instruction(t)[1] \notin {"put", "get"}
    BY <1>1, <1>3 DEF WellMade
  <2>2. UNCHANGED <<puts, output>>
    BY <2>1, StepData
  <2> QED
    BY <1>1, <1>3, <2>2 DEF MpscInv
<1> QED
  BY <1>2, <1>3

\* The consumer prints what was put, in that order and each element once, and
\* the buffer is never overrun, for any number of producers and places.
THEOREM QueuesAreFifo == SyncSpec => []QueueIsFifo
<1> DEFINE Inv == QueueInv /\ MpscInv
<1>1. SyncInit => Inv
  BY QueueInit, MpscInit
<1>2. Inv /\ [\E t \in Here : SyncStep(t)]_syncVars => Inv'
  <2>1. ASSUME Inv, NEW t, SyncStep(t)
        PROVE  MpscInv'
    BY <2>1, MpscStep
  <2>2. ASSUME Inv, UNCHANGED syncVars
        PROVE  MpscInv'
    <3>1. /\ program' = program /\ puts' = puts /\ output' = output
      BY <2>2 DEF syncVars
    <3>2. CASE program = "mpsc"
      <4>1. HolderInv'
        BY <2>2, <3>2
        DEF MpscInv, HolderInv, Holds, Queued, PlaceOf, Here, syncVars
      <4>2. CountInv'
        BY <2>2, <3>2
        DEF MpscInv, CountInv, Held, Claims, Offers, Asks, Frees, PlaceOf,
            Here, syncVars
      <4>3. BufferInv'
        BY <2>2, <3>2
        DEF MpscInv, BufferInv, Held, Begin, End, Slot, Onward, PlaceOf, Here,
            syncVars
      <4> QED
        BY <3>1, <3>2, <4>1, <4>2, <4>3 DEF MpscInv
    <3>3. CASE program # "mpsc"
      BY <2>2, <3>1, <3>3 DEF MpscInv
    <3> QED
      BY <3>2, <3>3
  <2> QED
    BY <2>1, <2>2, QueueStep
<1>3. Inv => QueueIsFifo
  <2> SUFFICES ASSUME Inv PROVE QueueIsFifo
    OBVIOUS
  <2>1. /\ puts \in Seq(Nat) /\ output \in Seq(Nat)
        /\ Len(puts) - Len(output) \in 0..BUFFER_SIZE /\ BUFFER_SIZE \in Nat
        /\ \A k \in 1..Len(output) : output[k] = puts[k]
    <3>1. CASE program = "mpsc"
      BY <3>1, SyncAssumption DEF MpscInv, BufferInv, Held
    <3>2. CASE program # "mpsc"
      BY <3>2, SyncAssumption DEF MpscInv
    <3> QED
      BY <3>1, <3>2
  <2>2. Len(puts) \in Nat /\ Len(output) \in Nat
    BY <2>1, LenProperties
  <2>3. SubSeq(output, 1, Len(output)) = SubSeq(puts, 1, Len(output))
    <3>1. /\ SubSeq(output, 1, Len(output)) =
                [k \in 1..Len(output) |-> output[k]]
          /\ SubSeq(puts, 1, Len(output)) = [k \in 1..Len(output) |-> puts[k]]
      BY <2>2 DEF SubSeq
    <3> QED
      BY <2>1, <3>1
  <2> QED
    BY <2>1, <2>2, <2>3 DEF QueueIsFifo, IsPrefix
<1> QED
  BY <1>1, <1>2, <1>3, PTL DEF SyncSpec

-----------------------------------------------------------------------------
(* The shell                                                               *)

\* The ends of the pipes of a line, by the order in which they are made, and
\* the files of a table that has those from a to b, `in` and `dst` at 0 and 1,
\* and `file` at fd (nowhere if this is Got).
PipeEnds(line) == 2 * (Len(line) - 1)
PipeEnd(e) == IF e % 2 = 1 THEN ReadEnd((e + 1) \div 2) ELSE WriteEnd(e \div 2)
PipeFds(n) == [e \in 1..n |-> e + 2]
AtIndex(h, in, dst, a, b, fd, file) ==
    IF h = 1 THEN in ELSE IF h = 2 THEN dst ELSE IF h = 3 THEN Stdout
    ELSE IF h = fd + 1 THEN file
    ELSE IF h \in (a + 3)..(b + 3) THEN PipeEnd(h - 3) ELSE None
TableIs(table, in, dst, a, b, fd, file) ==
    /\ table \in Seq(AnyFile \cup {None})
    /\ Len(table) >= b + 3 /\ Len(table) > fd
    /\ \A h \in 1..Len(table) : table[h] = AtIndex(h, in, dst, a, b, fd, file)

\* Every file that a table refers to is open.
OsInv(o) ==
    /\ DOMAIN o = {"fd_table", "open", "files", "pipes", "screen"}
    /\ o.fd_table \in [{0} \cup Children -> Seq(AnyFile \cup {None})]
    /\ o.open \in [1..MaxOpen -> AnyInode \cup {None}]
    /\ \A k \in 1..MaxOpen : OSInode(k) \in Entries(o) => o.open[k] # None

\* Input and output after the redirections, and in the end.
OpensFor(o, file, name) ==
    \E k \in 1..MaxOpen : /\ file = OSInode(k) /\ o.open[k] # None
                          /\ o.open[k].name = name /\ o.open[k].readable
OpensTo(o, file, name) ==
    \E k \in 1..MaxOpen : /\ file = OSInode(k) /\ o.open[k] # None
                          /\ o.open[k].name = name /\ o.open[k].writable
InputAt(o, file, cmd) ==
    IF cmd.input = None THEN file = Stdin ELSE OpensFor(o, file, cmd.input)
OutputAt(o, file, cmd) ==
    IF cmd.output = None THEN file = Stdout ELSE OpensTo(o, file, cmd.output)
InputOf(o, file, line, c) ==
    IF c > 1 THEN file = ReadEnd(c - 1) ELSE InputAt(o, file, line[c])
OutputOf(o, file, line, c) ==
    IF c < Len(line) THEN file = WriteEnd(c) ELSE OutputAt(o, file, line[c])

\* What is left to do at each stage of Setup, from the last.
ClosesFrom(e, n) == [h \in 1..(n + 1 - e) |-> <<"close", e + h + 1>>]
CallsOut2(line, c) ==
    <<<<"dup", 2 * c + 2, 1>>>> \o ClosesFrom(1, PipeEnds(line))
CallsOut(line, c) ==
    IF c < Len(line) THEN <<<<"close", 1>>>> \o CallsOut2(line, c)
    ELSE ClosesFrom(1, PipeEnds(line))
CallsIn2(line, c) == <<<<"dup", 2 * c - 1, 0>>>> \o CallsOut(line, c)
CallsIn(line, c) ==
    IF c > 1 THEN <<<<"close", 0>>>> \o CallsIn2(line, c) ELSE CallsOut(line, c)
Redirect4(rest) == <<<<"close", Got>>>> \o rest
Redirect3(fd, rest) == <<<<"dup", Got, fd>>>> \o Redirect4(rest)
Redirect2(fd, rest) == <<<<"close", fd>>>> \o Redirect3(fd, rest)
Redirect1(name, flags, fd, rest) ==
    IF name = None THEN rest
    ELSE <<<<"open", name, flags>>>> \o Redirect2(fd, rest)
CallsTo(line, c) ==
    Redirect1(line[c].output, {"CREATE", "WRONLY"}, 1, CallsIn(line, c))
CallsFrom(line, c) == Redirect1(line[c].input, {}, 0, CallsTo(line, c))

\* The table at each stage, while all ends are open.
HasAll(o, line, c, in, dst, fd, file) ==
    TableIs(o.fd_table[c], in, dst, 1, PipeEnds(line), fd, file)
StageFrom(o, ch, line, c) ==
    /\ ch.calls = CallsFrom(line, c)
    /\ HasAll(o, line, c, Stdin, Stdout, Got, None)
Input(o, ch, line, c, file) ==
    /\ line[c].input # None /\ ch.fd = PipeEnds(line) + 3
    /\ OpensFor(o, file, line[c].input)
StageFrom2(o, ch, line, c) ==
    \E file \in AnyFile :
        /\ Input(o, ch, line, c, file) /\ ch.calls = Redirect2(0, CallsTo(line, c))
        /\ HasAll(o, line, c, Stdin, Stdout, ch.fd, file)
StageFrom3(o, ch, line, c) ==
    \E file \in AnyFile :
        /\ Input(o, ch, line, c, file) /\ ch.calls = Redirect3(0, CallsTo(line, c))
        /\ HasAll(o, line, c, None, Stdout, ch.fd, file)
StageFrom4(o, ch, line, c) ==
    \E file \in AnyFile :
        /\ Input(o, ch, line, c, file) /\ ch.calls = Redirect4(CallsTo(line, c))
        /\ HasAll(o, line, c, file, Stdout, ch.fd, file)
StageTo(o, ch, line, c) ==
    \E in \in AnyFile :
        /\ ch.calls = CallsTo(line, c) /\ InputAt(o, in, line[c])
        /\ HasAll(o, line, c, in, Stdout, Got, None)
Output(o, ch, line, c, in, file) ==
    /\ line[c].output # None /\ ch.fd = PipeEnds(line) + 3
    /\ OpensTo(o, file, line[c].output) /\ InputAt(o, in, line[c])
StageTo2(o, ch, line, c) ==
    \E in, file \in AnyFile :
        /\ Output(o, ch, line, c, in, file) /\ ch.calls = Redirect2(1, CallsIn(line, c))
        /\ HasAll(o, line, c, in, Stdout, ch.fd, file)
StageTo3(o, ch, line, c) ==
    \E in, file \in AnyFile :
        /\ Output(o, ch, line, c, in, file) /\ ch.calls = Redirect3(1, CallsIn(line, c))
        /\ HasAll(o, line, c, in, None, ch.fd, file)
StageTo4(o, ch, line, c) ==
    \E in, file \in AnyFile :
        /\ Output(o, ch, line, c, in, file) /\ ch.calls = Redirect4(CallsIn(line, c))
        /\ HasAll(o, line, c, in, file, ch.fd, file)
StageIn(o, ch, line, c) ==
    \E in, dst \in AnyFile :
        /\ ch.calls = CallsIn(line, c)
        /\ InputAt(o, in, line[c]) /\ OutputAt(o, dst, line[c])
        /\ HasAll(o, line, c, in, dst, Got, None)
StageIn2(o, ch, line, c) ==
    \E dst \in AnyFile :
        /\ ch.calls = CallsIn2(line, c) /\ c > 1 /\ OutputAt(o, dst, line[c])
        /\ HasAll(o, line, c, None, dst, Got, None)
StageOut(o, ch, line, c) ==
    \E in, dst \in AnyFile :
        /\ ch.calls = CallsOut(line, c)
        /\ InputOf(o, in, line, c) /\ OutputAt(o, dst, line[c])
        /\ HasAll(o, line, c, in, dst, Got, None)
StageOut2(o, ch, line, c) ==
    \E in \in AnyFile :
        /\ ch.calls = CallsOut2(line, c) /\ c < Len(line)
        /\ InputOf(o, in, line, c)
        /\ HasAll(o, line, c, in, None, Got, None)
StageClose(o, ch, line, c) ==
    \E in, dst \in AnyFile, a \in 1..(PipeEnds(line) + 1) :
        /\ ch.calls = ClosesFrom(a, PipeEnds(line))
        /\ InputOf(o, in, line, c) /\ OutputOf(o, dst, line, c)
        /\ TableIs(o.fd_table[c], in, dst, a, PipeEnds(line), Got, None)

SetsUp(o, ch, line, c) ==
    /\ ch.app = line[c].app /\ ch.arg = line[c].arg
    /\ \/ StageFrom(o, ch, line, c) \/ StageFrom2(o, ch, line, c)
       \/ StageFrom3(o, ch, line, c) \/ StageFrom4(o, ch, line, c)
       \/ StageTo(o, ch, line, c) \/ StageTo2(o, ch, line, c)
       \/ StageTo3(o, ch, line, c) \/ StageTo4(o, ch, line, c)
       \/ StageIn(o, ch, line, c) \/ StageIn2(o, ch, line, c)
       \/ StageOut(o, ch, line, c) \/ StageOut2(o, ch, line, c)
       \/ StageClose(o, ch, line, c)

\* A program runs, with one more file at fd.
RunsAt(o, line, c, fd, file) ==
    \E in, dst \in AnyFile :
        /\ InputOf(o, in, line, c) /\ OutputOf(o, dst, line, c)
        /\ TableIs(o.fd_table[c], in, dst, 1, 0, fd, file)
RunsApp(o, ch, line, c) ==
    IF ch.app = "cat"
    THEN ch.fd = 3 /\ \E k \in 1..MaxOpen : RunsAt(o, line, c, 3, OSInode(k))
    ELSE ch.fd = 0 /\ RunsAt(o, line, c, Got, None)

Outputs == {Stdout} \cup {OSInode(k) : k \in 1..MaxOpen}
           \cup {WriteEnd(k) : k \in 1..MaxPipes}

GoodLine(line) == line \in Lines /\ ValidLine(line)
ChildInv(o, ch, line, c) ==
    /\ DOMAIN ch = DOMAIN NoChild
    /\ ch.status \in {"none", "setup", "open", "read", "print", "exit", "zombie"}
    /\ ch.status \in {"none", "zombie"} => o.fd_table[c] = <<>>
    /\ ch.status # "none" => GoodLine(line) /\ c <= Len(line)
    /\ ch.status = "setup" => SetsUp(o, ch, line, c)
    /\ ch.status = "open" =>
          /\ ch.app = "cat" /\ ch.arg \in FileNames
          /\ RunsAt(o, line, c, Got, None)
    /\ ch.status = "read" => ch.app \in Apps
    /\ ch.status \in {"read", "print"} =>
          IF ch.app \in Apps THEN RunsApp(o, ch, line, c)
          ELSE 2 \in DOMAIN o.fd_table[c] /\ o.fd_table[c][2] \in Outputs

\* The shell's own table, and which children there are.
None_(ch, cs) == \A c \in cs : ch[c].status = "none"
HoldsEnds(o, a, b) == TableIs(o.fd_table[0], Stdin, Stdout, a, b, Got, None)
PromptInv(o, s, ch) ==
    LET n == Len(s.line)
        all == PipeEnds(s.line)
    IN  /\ DOMAIN s = {"at", "line", "pipes_fd", "k"}
        /\ s.at \in {"prompt", "pipe", "fork", "close", "wait"}
        /\ s.at # "prompt" => GoodLine(s.line)
        /\ s.at = "prompt" => HoldsEnds(o, 1, 0) /\ None_(ch, Children)
        /\ s.at = "pipe" =>
              /\ s.k \in 1..n
              /\ s.pipes_fd = PipeFds(2 * (s.k - 1))
              /\ HoldsEnds(o, 1, 2 * (s.k - 1)) /\ None_(ch, Children)
        /\ s.at = "fork" =>
              /\ s.k \in 2..n /\ s.pipes_fd = PipeFds(all)
              /\ HoldsEnds(o, 1, all) /\ None_(ch, {c \in Children : c >= s.k})
        /\ s.at = "close" =>
              /\ s.k \in 1..(all + 1) /\ s.pipes_fd = PipeFds(all)
              /\ HoldsEnds(o, s.k, all)
        /\ s.at = "wait" =>
              /\ s.k \in 2..n
              /\ HoldsEnds(o, 1, 0) /\ None_(ch, {c \in Children : c < s.k})

ShellIInv ==
    /\ OsInv(os)
    /\ DOMAIN child = Children
    /\ \A c \in Children : ChildInv(os, child[c], sh.line, c)
    /\ PromptInv(os, sh, child)

\* alloc_fd finds the first index that is free, or the one after the last.
LEMMA AllocIs ==
    ASSUME NEW table \in Seq(AnyFile \cup {None}), NEW k \in 1..(Len(table) + 1),
           \A j \in 1..(k - 1) : table[j] # None,
           k <= Len(table) => table[k] = None
    PROVE  alloc_fd(table) = k - 1
<1>1. Len(table) \in Nat /\ DOMAIN table = 1..Len(table)
  BY LenProperties
<1>2. CASE k <= Len(table)
  <2> DEFINE S == {j \in DOMAIN table : table[j] = None}
  <2>1. k \in S /\ \A j \in S : k <= j
    BY <1>1, <1>2
  <2>2. S \subseteq Int
    BY <1>1
  <2> HIDE DEF S
  <2>3. Min(S) = k
    <3>1. Min(S) \in S /\ \A j \in S : Min(S) <= j
      BY <2>1 DEF Min
    <3>2. Min(S) <= k /\ k <= Min(S) /\ Min(S) \in Int
      BY <2>1, <2>2, <3>1
    <3> QED
      BY <1>1, <3>2
  <2>4. alloc_fd(table) = Min(S) - 1
    BY <2>1 DEF alloc_fd, S
  <2> QED
    BY <2>3, <2>4
<1>3. CASE k = Len(table) + 1
  BY <1>1, <1>3 DEF alloc_fd
<1> QED
  BY <1>1, <1>2, <1>3

\* PutFile at the first free index, in terms of indices.
LEMMA PutIs ==
    ASSUME NEW table \in Seq(AnyFile \cup {None}), NEW fd \in 0..Len(table),
           NEW file \in AnyFile
    PROVE  /\ PutFile(table, fd, file) \in Seq(AnyFile \cup {None})
           /\ Len(PutFile(table, fd, file))
                 = IF fd < Len(table) THEN Len(table) ELSE Len(table) + 1
           /\ \A h \in 1..Len(PutFile(table, fd, file)) :
                 PutFile(table, fd, file)[h] = IF h = fd + 1 THEN file ELSE table[h]
<1>1. Len(table) \in Nat /\ DOMAIN table = 1..Len(table)
  BY LenProperties
<1>2. CASE fd < Len(table)
  BY <1>1, <1>2 DEF PutFile
<1>3. CASE ~(fd < Len(table))
  <2>1. PutFile(table, fd, file) = Append(table, file)
    BY <1>3 DEF PutFile
  <2> QED
    BY <1>1, <1>3, <2>1, AppendProperties
<1> QED
  BY <1>2, <1>3

\* The ends of MaxPipes pipes are files.
LEMMA EndsAreFiles ==
    ASSUME NEW e \in 1..(2 * MaxPipes)
    PROVE  PipeEnd(e) \in AnyFile /\ PipeEnd(e) # None
<1>1. MaxPipes \in Nat /\ None \notin AnyFile
  BY OpenFilesAssumption
<1>2. CASE e % 2 = 1
  <2>1. (e + 1) \div 2 \in 1..MaxPipes
    BY <1>1, <1>2
  <2> QED
    BY <1>1, <1>2, <2>1 DEF PipeEnd, AnyFile
<1>3. CASE e % 2 # 1
  <2>1. e \div 2 \in 1..MaxPipes
    BY <1>1, <1>3
  <2> QED
    BY <1>1, <1>3, <2>1 DEF PipeEnd, AnyFile
<1> QED
  BY <1>2, <1>3

\* Install puts a file at 0 or 1 if this is the first that is free.
LEMMA TableFills0 ==
    ASSUME NEW table, NEW dst, NEW a \in Nat \ {0}, NEW b \in Nat,
           NEW fd \in Int, NEW file, NEW new \in AnyFile, fd = Got \/ fd >= 3,
           TableIs(table, None, dst, a, b, fd, file)
    PROVE  /\ alloc_fd(table) = 0
           /\ TableIs(PutFile(table, 0, new), new, dst, a, b, fd, file)
<1>1. /\ table \in Seq(AnyFile \cup {None}) /\ Len(table) \in Nat
      /\ Len(table) >= b + 3 /\ Len(table) > fd
      /\ \A h \in 1..Len(table) : table[h] = AtIndex(h, None, dst, a, b, fd, file)
  BY LenProperties DEF TableIs
<1>2. table[1] = None
  BY <1>1 DEF AtIndex
<1>3. alloc_fd(table) = 1 - 1
  BY <1>1, <1>2, AllocIs
<1> QED
  BY <1>1, <1>3, PutIs DEF TableIs, AtIndex, Got

\* The same at 1, of a table with an input and no output.
LEMMA TableFills1 ==
    ASSUME NEW table, NEW in, NEW a \in Nat \ {0}, NEW b \in Nat,
           NEW fd \in Int, NEW file, NEW new \in AnyFile, fd = Got \/ fd >= 3,
           in # None, TableIs(table, in, None, a, b, fd, file)
    PROVE  /\ alloc_fd(table) = 1
           /\ TableIs(PutFile(table, 1, new), in, new, a, b, fd, file)
<1>1. /\ table \in Seq(AnyFile \cup {None}) /\ Len(table) \in Nat
      /\ Len(table) >= b + 3 /\ Len(table) > fd
      /\ \A h \in 1..Len(table) : table[h] = AtIndex(h, in, None, a, b, fd, file)
  BY LenProperties DEF TableIs
<1>2. table[1] # None /\ table[2] = None
  BY <1>1 DEF AtIndex
<1>3. alloc_fd(table) = 2 - 1
  BY <1>1, <1>2, AllocIs
<1> QED
  BY <1>1, <1>3, PutIs DEF TableIs, AtIndex, Got

\* Otherwise it puts it behind the ends.
LEMMA TableGrows ==
    ASSUME NEW table, NEW in, NEW dst, NEW b \in 0..(2 * MaxPipes),
           NEW new \in AnyFile, in # None, dst # None,
           TableIs(table, in, dst, 1, b, Got, None)
    PROVE  /\ alloc_fd(table) = b + 3
           /\ TableIs(PutFile(table, b + 3, new), in, dst, 1, b, b + 3, new)
           /\ new = PipeEnd(b + 1) =>
                 TableIs(PutFile(table, b + 3, new), in, dst, 1, b + 1, Got, None)
<1>1. /\ table \in Seq(AnyFile \cup {None}) /\ Len(table) \in Nat /\ b \in Nat
      /\ Len(table) >= b + 3
      /\ \A h \in 1..Len(table) : table[h] = AtIndex(h, in, dst, 1, b, Got, None)
  BY LenProperties, OpenFilesAssumption DEF TableIs
<1>2. None \notin AnyFile /\ Stdout \in AnyFile
  BY OpenFilesAssumption DEF AnyFile
<1>3. \A h \in 1..(b + 3) : table[h] # None
  <2> SUFFICES ASSUME NEW h \in 1..(b + 3) PROVE table[h] # None
    OBVIOUS
  <2>1. table[h] = AtIndex(h, in, dst, 1, b, Got, None)
    BY <1>1
  <2>2. CASE h > 3
    <3>1. table[h] = PipeEnd(h - 3)
      BY <1>1, <2>1, <2>2 DEF AtIndex, Got
    <3>2. h - 3 \in 1..(2 * MaxPipes)
      BY <2>2, OpenFilesAssumption
    <3> QED
      BY <3>1, <3>2, EndsAreFiles
  <2>3. CASE h <= 3
    BY <1>2, <2>1, <2>3 DEF AtIndex
  <2> QED
    BY <1>1, <2>2, <2>3
<1>4. Len(table) >= b + 4 => table[b + 4] = None
  BY <1>1 DEF AtIndex, Got
<1>5. alloc_fd(table) = (b + 4) - 1
  BY <1>1, <1>3, <1>4, AllocIs
<1> DEFINE put == PutFile(table, b + 3, new)
<1>6. /\ put \in Seq(AnyFile \cup {None}) /\ Len(put) \in Nat
      /\ Len(put) >= b + 4
      /\ \A h \in 1..Len(put) : put[h] = IF h = b + 4 THEN new ELSE table[h]
      /\ \A h \in 1..Len(put) : h # b + 4 => h \in 1..Len(table)
  BY <1>1, PutIs, LenProperties
<1> HIDE DEF put
<1>7. TableIs(put, in, dst, 1, b, b + 3, new)
  <2> SUFFICES ASSUME NEW h \in 1..Len(put)
               PROVE  put[h] = AtIndex(h, in, dst, 1, b, b + 3, new)
    BY <1>1, <1>6 DEF TableIs
  <2> QED
    BY <1>1, <1>6 DEF AtIndex, Got
<1>8. ASSUME new = PipeEnd(b + 1)
      PROVE  TableIs(put, in, dst, 1, b + 1, Got, None)
  <2> SUFFICES ASSUME NEW h \in 1..Len(put)
               PROVE  put[h] = AtIndex(h, in, dst, 1, b + 1, Got, None)
    BY <1>1, <1>6 DEF TableIs, Got
  <2> QED
    BY <1>1, <1>6, <1>8 DEF AtIndex, Got
<1> QED
  BY <1>1, <1>5, <1>7, <1>8 DEF put

\* close frees 0, 1, the one that was opened last, or the next end.
LEMMA TableFrees ==
    ASSUME NEW table, NEW in, NEW dst, NEW a \in Nat \ {0}, NEW b \in Nat,
           NEW fd \in Int, NEW file, fd = Got \/ fd >= 3,
           TableIs(table, in, dst, a, b, fd, file)
    PROVE  /\ TableIs([table EXCEPT ![1] = None], None, dst, a, b, fd, file)
           /\ TableIs([table EXCEPT ![2] = None], in, None, a, b, fd, file)
           /\ fd = b + 3 =>
                 TableIs([table EXCEPT ![b + 4] = None], in, dst, a, b, Got, None)
           /\ a <= b /\ fd = Got =>
                 TableIs([table EXCEPT ![a + 3] = None], in, dst, a + 1, b, Got,
                         None)
           /\ a > b /\ fd = Got =>
                 TableIs(table, in, dst, 1, 0, Got, None)
<1>1. /\ table \in Seq(AnyFile \cup {None}) /\ Len(table) \in Nat
      /\ DOMAIN table = 1..Len(table)
      /\ Len(table) >= b + 3 /\ Len(table) > fd
      /\ \A h \in 1..Len(table) : table[h] = AtIndex(h, in, dst, a, b, fd, file)
  BY LenProperties DEF TableIs
<1>2. ASSUME NEW k \in 1..Len(table)
      PROVE  /\ [table EXCEPT ![k] = None] \in Seq(AnyFile \cup {None})
             /\ Len([table EXCEPT ![k] = None]) = Len(table)
             /\ \A h \in 1..Len(table) : [table EXCEPT ![k] = None][h]
                   = IF h = k THEN None ELSE table[h]
  BY <1>1
<1>3. TableIs([table EXCEPT ![1] = None], None, dst, a, b, fd, file)
  BY <1>1, <1>2 DEF TableIs, AtIndex, Got
<1>4. TableIs([table EXCEPT ![2] = None], in, None, a, b, fd, file)
  BY <1>1, <1>2 DEF TableIs, AtIndex, Got
<1>5. ASSUME fd = b + 3
      PROVE  TableIs([table EXCEPT ![b + 4] = None], in, dst, a, b, Got, None)
  BY <1>1, <1>2, <1>5 DEF TableIs, AtIndex, Got
<1>6. ASSUME a <= b, fd = Got
      PROVE  TableIs([table EXCEPT ![a + 3] = None], in, dst, a + 1, b, Got, None)
  BY <1>1, <1>2, <1>6 DEF TableIs, AtIndex, Got
<1>7. ASSUME a > b, fd = Got
      PROVE  TableIs(table, in, dst, 1, 0, Got, None)
  BY <1>1, <1>7 DEF TableIs, AtIndex, Got
<1> QED
  BY <1>3, <1>4, <1>5, <1>6, <1>7

-----------------------------------------------------------------------------
(* What the calls do to tables and OSInodes.                               *)

Procs == {0} \cup Children

\* No call changes the OSInode that an entry refers to.
KeepsOpen(o, r) ==
    \A k \in 1..MaxOpen :
        OSInode(k) \in Entries(o) /\ OSInode(k) \in Entries(r) =>
            /\ r.open[k] # None
            /\ r.open[k].name = o.open[k].name
            /\ r.open[k].readable = o.open[k].readable
            /\ r.open[k].writable = o.open[k].writable

\* A file is an entry of the tables if one of them refers to it.
LEMMA EntriesAre ==
    ASSUME NEW o, OsInv(o), NEW x
    PROVE  x \in Entries(o) <=>
               \E p \in Procs : \E h \in 1..Len(o.fd_table[p]) :
                   x = o.fd_table[p][h]
<1>1. DOMAIN o.fd_table = Procs
  BY DEF OsInv, Procs
<1>2. \A p \in Procs : DOMAIN o.fd_table[p] = 1..Len(o.fd_table[p])
  BY LenProperties DEF OsInv, Procs
<1> QED
  BY <1>1, <1>2 DEF Entries, ToSet

\* A table gets another value, whose files were known or are `new`.
LEMMA EntriesOfUpdate ==
    ASSUME NEW o, OsInv(o), NEW p \in Procs,
           NEW table \in Seq(AnyFile \cup {None}), NEW r,
           NEW new \in AnyFile \cup {None},
           r.fd_table = [o.fd_table EXCEPT ![p] = table],
           \A h \in 1..Len(table) :
               table[h] = None \/ table[h] = new \/ table[h] \in Entries(o)
    PROVE  /\ r.fd_table \in [Procs -> Seq(AnyFile \cup {None})]
           /\ Entries(r) \subseteq Entries(o) \cup {None, new}
<1>1. r.fd_table \in [Procs -> Seq(AnyFile \cup {None})]
  BY DEF OsInv, Procs
<1>2. ASSUME NEW x \in Entries(r)
      PROVE  x \in Entries(o) \cup {None, new}
  <2>1. PICK q \in Procs : x \in ToSet(r.fd_table[q])
    BY <1>1 DEF Entries
  <2>2. PICK h \in 1..Len(r.fd_table[q]) : x = r.fd_table[q][h]
    <3>1. DOMAIN r.fd_table[q] = 1..Len(r.fd_table[q])
      BY <1>1, LenProperties
    <3> QED
      BY <2>1, <3>1 DEF ToSet
  <2>3. CASE q = p
    <3>1. r.fd_table[q] = table
      BY <2>3 DEF OsInv, Procs
    <3> QED
      BY <2>2, <3>1
  <2>4. CASE q # p
    <3>1. r.fd_table[q] = o.fd_table[q]
      BY <2>4 DEF OsInv, Procs
    <3> QED
      BY <2>2, <3>1, EntriesAre
  <2> QED
    BY <2>3, <2>4
<1> QED
  BY <1>1, <1>2

\* An OSInode is dropped only when no entry refers to it.
LEMMA DroppedKeeps ==
    ASSUME NEW o, OsInv(o), NEW p \in Procs,
           NEW table \in Seq(AnyFile \cup {None}),
           \A h \in 1..Len(table) : table[h] = None \/ table[h] \in Entries(o)
    PROVE  LET r == Dropped([o EXCEPT !.fd_table[p] = table])
           IN  /\ OsInv(r) /\ KeepsOpen(o, r)
               /\ r.fd_table = [o.fd_table EXCEPT ![p] = table]
               /\ r.files = o.files /\ r.pipes = o.pipes /\ r.screen = o.screen
<1> DEFINE u == [o EXCEPT !.fd_table[p] = table]
           r == Dropped(u)
<1>1. /\ DOMAIN u = DOMAIN o
      /\ u.fd_table = [o.fd_table EXCEPT ![p] = table] /\ u.open = o.open
      /\ u.files = o.files /\ u.pipes = o.pipes /\ u.screen = o.screen
  BY DEF OsInv
<1> HIDE DEF u
<1>2. /\ u.fd_table \in [Procs -> Seq(AnyFile \cup {None})]
      /\ Entries(u) \subseteq Entries(o) \cup {None, None}
  <2>1. None \in AnyFile \cup {None}
    OBVIOUS
  <2> QED
    BY <1>1, <2>1, EntriesOfUpdate
<1>3. /\ DOMAIN r = DOMAIN o /\ r.fd_table = u.fd_table
      /\ r.open = [k \in 1..MaxOpen |->
                     IF OSInode(k) \in Entries(u) THEN o.open[k] ELSE None]
      /\ r.files = o.files /\ r.pipes = o.pipes /\ r.screen = o.screen
  BY <1>1 DEF Dropped, OsInv
<1>4. Entries(r) = Entries(u)
  BY <1>3 DEF Entries
<1> HIDE DEF r
<1>5. \A k \in 1..MaxOpen : OSInode(k) # None
  BY OpenFilesAssumption DEF AnyFile
<1>6. \A k \in 1..MaxOpen : OSInode(k) \in Entries(u) =>
          r.open[k] = o.open[k] /\ o.open[k] # None
  BY <1>2, <1>3, <1>5 DEF OsInv
<1>7. OsInv(r)
  <2>1. r.open \in [1..MaxOpen -> AnyInode \cup {None}]
    BY <1>3 DEF OsInv
  <2> QED
    BY <1>2, <1>3, <1>4, <1>6, <2>1 DEF OsInv, Procs
<1>8. KeepsOpen(o, r)
  BY <1>4, <1>6 DEF KeepsOpen
<1> QED
  BY <1>1, <1>3, <1>7, <1>8 DEF r, u

Freed(table, k) == [table EXCEPT ![k] = None]

\* sys_close empties one entry, and closes no file that an entry refers to.
LEMMA CloseKeeps ==
    ASSUME NEW o, OsInv(o), NEW p \in Procs, NEW fd \in Nat,
           NEW k \in 1..Len(o.fd_table[p]), k = fd + 1, o.fd_table[p][k] # None
    PROVE  LET r == sys_close(o, p, fd)
           IN  /\ OsInv(r) /\ KeepsOpen(o, r)
               /\ r.fd_table = [o.fd_table EXCEPT ![p] = Freed(o.fd_table[p], k)]
               /\ r.files = o.files /\ r.pipes = o.pipes /\ r.screen = o.screen
<1> DEFINE t == o.fd_table[p]
           table == [t EXCEPT ![fd + 1] = None]
<1>1. t \in Seq(AnyFile \cup {None}) /\ DOMAIN t = 1..Len(t)
  BY LenProperties DEF OsInv, Procs
<1>2. /\ table \in Seq(AnyFile \cup {None}) /\ Len(table) = Len(t)
      /\ \A h \in 1..Len(table) : table[h] = None \/ table[h] = t[h]
  BY <1>1
<1>3. \A h \in 1..Len(table) : table[h] = None \/ table[h] \in Entries(o)
  BY <1>2, EntriesAre
<1>4. FileAt(o, p, fd) # None
  BY <1>1 DEF FileAt
<1>5. sys_close(o, p, fd) = Dropped([o EXCEPT !.fd_table[p] = table])
  <2>1. [o EXCEPT !.fd_table[p][fd + 1] = None] = [o EXCEPT !.fd_table[p] = table]
    BY DEF OsInv
  <2> QED
    BY <1>4, <2>1 DEF sys_close
<1> HIDE DEF table
<1>6. LET r == Dropped([o EXCEPT !.fd_table[p] = table])
      IN  /\ OsInv(r) /\ KeepsOpen(o, r)
          /\ r.fd_table = [o.fd_table EXCEPT ![p] = table]
          /\ r.files = o.files /\ r.pipes = o.pipes /\ r.screen = o.screen
  BY <1>2, <1>3, DroppedKeeps
<1>7. table = Freed(t, k)
  BY DEF table, Freed
<1> QED
  BY <1>5, <1>6, <1>7

\* A process that exits gives up its whole table, and closes no file that the
\* table of another one refers to.
LEMMA ExitKeeps ==
    ASSUME NEW o, OsInv(o), NEW p \in Procs
    PROVE  LET r == drop_fds(o, p)
           IN  /\ OsInv(r) /\ KeepsOpen(o, r)
               /\ r.fd_table = [o.fd_table EXCEPT ![p] = <<>>]
               /\ r.files = o.files /\ r.pipes = o.pipes /\ r.screen = o.screen
<1> DEFINE t == <<>>
<1>1. t \in Seq(AnyFile \cup {None}) /\ \A h \in 1..Len(t) : t[h] = None
  OBVIOUS
<1> HIDE DEF t
<1>2. LET r == Dropped([o EXCEPT !.fd_table[p] = t])
      IN  /\ OsInv(r) /\ KeepsOpen(o, r)
          /\ r.fd_table = [o.fd_table EXCEPT ![p] = t]
          /\ r.files = o.files /\ r.pipes = o.pipes /\ r.screen = o.screen
  BY <1>1, DroppedKeeps
<1> QED
  BY <1>2 DEF drop_fds, t

\* A file is put at fd, the first free descriptor; o has its OSInode if it is
\* one.
LEMMA InstallKeeps ==
    ASSUME NEW o, OsInv(o), NEW p \in Procs, NEW fd \in Nat,
           fd <= Len(o.fd_table[p]), alloc_fd(o.fd_table[p]) = fd,
           NEW file \in AnyFile,
           \A k \in 1..MaxOpen : file = OSInode(k) => o.open[k] # None
    PROVE  LET r == Install(o, p, file)
           IN  /\ OsInv(r)
               /\ r.fd_table = [o.fd_table EXCEPT ![p] =
                                   PutFile(o.fd_table[p], fd, file)]
               /\ r.open = o.open /\ Entries(r) \subseteq Entries(o) \cup {None, file}
               /\ r.files = o.files /\ r.pipes = o.pipes /\ r.screen = o.screen
<1> DEFINE t == o.fd_table[p]
           table == PutFile(t, fd, file)
           r == Install(o, p, file)
<1>1. t \in Seq(AnyFile \cup {None}) /\ Len(t) \in Nat
  BY LenProperties DEF OsInv, Procs
<1>2. /\ DOMAIN r = DOMAIN o
      /\ r.fd_table = [o.fd_table EXCEPT ![p] = table] /\ r.open = o.open
      /\ r.files = o.files /\ r.pipes = o.pipes /\ r.screen = o.screen
  BY DEF OsInv, Install
<1>3. /\ table \in Seq(AnyFile \cup {None})
      /\ \A h \in 1..Len(table) : table[h] = file \/ (h \in 1..Len(t) /\ table[h] = t[h])
  BY <1>1, PutIs
<1> HIDE DEF table, r
<1>4. /\ \A h \in 1..Len(table) :
            table[h] = None \/ table[h] = file \/ table[h] \in Entries(o)
      /\ file \in AnyFile \cup {None}
  BY <1>3, EntriesAre
<1>5. /\ r.fd_table \in [Procs -> Seq(AnyFile \cup {None})]
      /\ Entries(r) \subseteq Entries(o) \cup {None, file}
  <2>1. r.fd_table = [o.fd_table EXCEPT ![p] = table]
    BY <1>2
  <2>2. table \in Seq(AnyFile \cup {None})
    BY <1>3
  <2>3. \A x \in AnyFile \cup {None} :
           (\A h \in 1..Len(table) :
               table[h] = None \/ table[h] = x \/ table[h] \in Entries(o))
           => /\ r.fd_table \in [Procs -> Seq(AnyFile \cup {None})]
              /\ Entries(r) \subseteq Entries(o) \cup {None, x}
    BY <2>1, <2>2, EntriesOfUpdate
  <2> QED
    BY <1>4, <2>3
<1>6. \A k \in 1..MaxOpen : OSInode(k) # None
  BY OpenFilesAssumption DEF AnyFile
<1>7. OsInv(r)
  BY <1>2, <1>5, <1>6 DEF OsInv, Procs
<1> QED
  BY <1>2, <1>5, <1>7 DEF r, table

\* What keeps the OSInodes as they are keeps those that are referred to.
LEMMA SameOpen ==
    ASSUME NEW o, NEW r, OsInv(o), r.open = o.open
    PROVE  KeepsOpen(o, r)
  BY DEF OsInv, KeepsOpen

\* sys_dup puts the file into the first free entry, and opens and closes none.
LEMMA DupKeeps ==
    ASSUME NEW o, OsInv(o), NEW p \in Procs, NEW from \in Nat, NEW fd \in Nat,
           NEW k \in 1..Len(o.fd_table[p]), k = from + 1, o.fd_table[p][k] # None,
           fd <= Len(o.fd_table[p]), alloc_fd(o.fd_table[p]) = fd
    PROVE  LET r == sys_dup(o, p, from)
               file == o.fd_table[p][k]
           IN  /\ OsInv(r) /\ KeepsOpen(o, r) /\ file \in AnyFile
               /\ r.fd_table = [o.fd_table EXCEPT ![p] =
                                   PutFile(o.fd_table[p], fd, file)]
               /\ r.open = o.open
               /\ r.files = o.files /\ r.pipes = o.pipes /\ r.screen = o.screen
<1> DEFINE file == o.fd_table[p][k]
<1>1. /\ o.fd_table[p] \in Seq(AnyFile \cup {None})
      /\ DOMAIN o.fd_table[p] = 1..Len(o.fd_table[p])
  BY LenProperties DEF OsInv, Procs
<1>2. FileAt(o, p, from) = file /\ file \in AnyFile
  BY <1>1 DEF FileAt
<1>3. file \in Entries(o)
  BY EntriesAre
<1>4. \A j \in 1..MaxOpen : file = OSInode(j) => o.open[j] # None
  BY <1>3 DEF OsInv
<1>5. sys_dup(o, p, from) = Install(o, p, file)
  BY <1>2 DEF sys_dup
<1> HIDE DEF file
<1>6. LET r == Install(o, p, file)
      IN  /\ OsInv(r)
          /\ r.fd_table = [o.fd_table EXCEPT ![p] =
                              PutFile(o.fd_table[p], fd, file)]
          /\ r.open = o.open
          /\ r.files = o.files /\ r.pipes = o.pipes /\ r.screen = o.screen
  BY <1>2, <1>4, InstallKeeps
<1>7. KeepsOpen(o, Install(o, p, file))
  BY <1>6, SameOpen
<1> QED
  BY <1>2, <1>5, <1>6, <1>7 DEF file

\* open_file makes a new OSInode.
LEMMA OpenKeeps ==
    ASSUME NEW o, OsInv(o), NEW p \in Procs, NEW fd \in Nat,
           fd <= Len(o.fd_table[p]), alloc_fd(o.fd_table[p]) = fd,
           NEW name \in FileNames, NEW flags,
           CanOpen(o, name, flags), CanPlace(o)
    PROVE  LET r == sys_open(o, p, name, flags)
           IN  /\ OsInv(r) /\ KeepsOpen(o, r)
               /\ \E k \in 1..MaxOpen :
                     /\ r.fd_table = [o.fd_table EXCEPT ![p] =
                                         PutFile(o.fd_table[p], fd, OSInode(k))]
                     /\ r.open[k] # None /\ r.open[k].name = name
                     /\ r.open[k].readable = readable(flags)
                     /\ r.open[k].writable = writable(flags)
<1> DEFINE S == {j \in DOMAIN o.open : o.open[j] = None}
           k == Min(S)
           inode == [name |-> name, readable |-> readable(flags),
                     writable |-> writable(flags), offset |-> 0]
           u == [o EXCEPT !.files[name] = IF flags \cap {"CREATE", "TRUNC"} # {}
                                          THEN <<>> ELSE @,
                          !.open[k] = inode]
           r == Install(u, p, OSInode(k))
<1>1. k \in 1..MaxOpen /\ o.open[k] = None
  <2>1. S \subseteq Nat /\ S # {} /\ S \subseteq 1..MaxOpen
    BY OpenFilesAssumption DEF CanPlace, OsInv
  <2>2. PICK x \in S : \A y \in S : x <= y
    BY <2>1, LeastNatural
  <2>3. k \in S
    BY <2>2 DEF Min
  <2> QED
    BY <2>1, <2>3
<1>2. sys_open(o, p, name, flags) = r
  BY DEF sys_open
<1> HIDE DEF k
<1>3. inode \in AnyInode /\ inode # None
  <2>1. inode \in AnyInode
    BY DEF AnyInode, readable, writable
  <2> QED
    BY <2>1, OpenFilesAssumption
<1>4. /\ inode.name = name /\ inode.readable = readable(flags)
      /\ inode.writable = writable(flags)
  OBVIOUS
<1> HIDE DEF inode
<1>5. /\ DOMAIN u = DOMAIN o /\ u.fd_table = o.fd_table
      /\ u.open = [o.open EXCEPT ![k] = inode]
  BY DEF OsInv
<1> HIDE DEF u
<1>6. Entries(u) = Entries(o)
  BY <1>5 DEF Entries
<1>7. OSInode(k) \notin Entries(o)
  BY <1>1 DEF OsInv
<1>8. OsInv(u) /\ u.open[k] = inode
  BY <1>1, <1>3, <1>5, <1>6 DEF OsInv
<1>9. OSInode(k) \in AnyFile
  BY <1>1 DEF AnyFile
<1>10. \A j \in 1..MaxOpen : OSInode(k) = OSInode(j) => u.open[j] # None
  BY <1>3, <1>8 DEF OSInode
<1> DEFINE f == OSInode(k)
<1> HIDE DEF f
<1>a. /\ fd <= Len(u.fd_table[p]) /\ alloc_fd(u.fd_table[p]) = fd
      /\ f \in AnyFile /\ \A j \in 1..MaxOpen : f = OSInode(j) => u.open[j] # None
  BY <1>5, <1>9, <1>10 DEF f
<1>11. /\ OsInv(r)
       /\ r.fd_table = [u.fd_table EXCEPT ![p] =
                          PutFile(u.fd_table[p], fd, OSInode(k))]
       /\ r.open = u.open
  <2>1. LET v == Install(u, p, f)
        IN  /\ OsInv(v)
            /\ v.fd_table = [u.fd_table EXCEPT ![p] =
                               PutFile(u.fd_table[p], fd, f)]
            /\ v.open = u.open
    BY <1>8, <1>a, InstallKeeps
  <2> QED
    BY <2>1 DEF f
<1>12. KeepsOpen(o, r)
  BY <1>1, <1>5, <1>7, <1>11 DEF KeepsOpen, OsInv
<1> HIDE DEF r
<1>13. /\ r.fd_table = [o.fd_table EXCEPT ![p] =
                          PutFile(o.fd_table[p], fd, OSInode(k))]
       /\ r.open[k] = inode
  BY <1>5, <1>8, <1>11
<1> QED
  BY <1>1, <1>2, <1>3, <1>4, <1>11, <1>12, <1>13

\* The two ends of a new pipe are behind the others.
LEMMA PipeKeeps ==
    ASSUME NEW o, OsInv(o), NEW k \in 1..MaxPipes, NEW b \in Nat,
           b = 2 * (k - 1), HoldsEnds(o, 1, b)
    PROVE  LET r == sys_pipe(o, 0, k)
           IN  /\ OsInv(r) /\ KeepsOpen(o, r)
               /\ alloc_fd(o.fd_table[0]) = b + 3
               /\ alloc_fd(PutFile(o.fd_table[0], b + 3, ReadEnd(k))) = b + 4
               /\ \A p \in Children : r.fd_table[p] = o.fd_table[p]
               /\ HoldsEnds(r, 1, b + 2)
               /\ r.files = o.files /\ r.screen = o.screen
<1> DEFINE t == o.fd_table[0]
           u == [o EXCEPT !.pipes[k] = <<>>]
           v == Install(u, 0, ReadEnd(k))
           r == Install(v, 0, WriteEnd(k))
<1>1. /\ b \in 0..(2 * MaxPipes) /\ b + 1 \in 0..(2 * MaxPipes)
      /\ ReadEnd(k) = PipeEnd(b + 1) /\ WriteEnd(k) = PipeEnd(b + 2)
  BY OpenFilesAssumption DEF PipeEnd
<1>2. /\ Stdin \in AnyFile /\ Stdout \in AnyFile /\ None \notin AnyFile
      /\ ReadEnd(k) \in AnyFile /\ WriteEnd(k) \in AnyFile
      /\ \A j \in 1..MaxOpen : ReadEnd(k) # OSInode(j) /\ WriteEnd(k) # OSInode(j)
  BY OpenFilesAssumption DEF AnyFile, ReadEnd, WriteEnd, OSInode
<1>3. 0 \in Procs /\ 0 \notin Children
  BY DEF Procs, Children
<1>4. TableIs(t, Stdin, Stdout, 1, b, Got, None)
  BY DEF HoldsEnds
<1>5. /\ DOMAIN u = DOMAIN o /\ u.fd_table = o.fd_table /\ u.open = o.open
      /\ u.files = o.files /\ u.screen = o.screen
  BY DEF OsInv
<1> HIDE DEF u
<1>6. OsInv(u)
  BY <1>5 DEF OsInv, Entries
<1> DEFINE t1 == PutFile(t, b + 3, ReadEnd(k))
           t2 == PutFile(t1, b + 4, WriteEnd(k))
<1>7. /\ alloc_fd(t) = b + 3
      /\ TableIs(t1, Stdin, Stdout, 1, b + 1, Got, None)
  <2>1. Got \in Int
    BY DEF Got
  <2> QED
    BY <1>1, <1>2, <1>4, <2>1, TableGrows
<1>8. b + 3 <= Len(t) /\ b + 3 \in Nat
  BY <1>4 DEF TableIs
<1>9. /\ OsInv(v) /\ v.fd_table = [o.fd_table EXCEPT ![0] = t1]
      /\ v.open = o.open /\ v.files = o.files /\ v.screen = o.screen
  BY <1>2, <1>3, <1>5, <1>6, <1>7, <1>8, InstallKeeps
<1>10. v.fd_table[0] = t1 /\ \A p \in Children : v.fd_table[p] = o.fd_table[p]
  BY <1>3, <1>9 DEF OsInv, Procs
<1> HIDE DEF v, t1
<1>11. /\ alloc_fd(t1) = b + 4
       /\ TableIs(t2, Stdin, Stdout, 1, b + 2, Got, None)
  <2> DEFINE d == b + 1
  <2>1. /\ Got \in Int /\ d + 3 = b + 4 /\ d + 1 = b + 2 /\ d \in 0..(2 * MaxPipes)
        /\ TableIs(t1, Stdin, Stdout, 1, d, Got, None)
        /\ WriteEnd(k) = PipeEnd(d + 1)
    BY <1>1, <1>7 DEF Got
  <2> HIDE DEF d
  <2>2. /\ alloc_fd(t1) = d + 3
        /\ TableIs(PutFile(t1, d + 3, WriteEnd(k)), Stdin, Stdout, 1, d + 1, Got,
                   None)
    BY <1>2, <2>1, TableGrows
  <2> QED
    BY <2>1, <2>2
<1>12. b + 4 <= Len(t1) /\ b + 4 \in Nat
  BY <1>7 DEF TableIs
<1>13. /\ OsInv(r) /\ r.fd_table = [v.fd_table EXCEPT ![0] = t2]
       /\ r.open = v.open /\ r.files = v.files /\ r.screen = v.screen
  <2> DEFINE d == b + 4
             w == WriteEnd(k)
  <2>1. /\ d \in Nat /\ d <= Len(v.fd_table[0]) /\ alloc_fd(v.fd_table[0]) = d
        /\ w \in AnyFile /\ OsInv(v)
        /\ \A j \in 1..MaxOpen : w = OSInode(j) => v.open[j] # None
    BY <1>2, <1>9, <1>10, <1>11, <1>12
  <2> HIDE DEF d, w
  <2>2. LET x == Install(v, 0, w)
        IN  /\ OsInv(x)
            /\ x.fd_table = [v.fd_table EXCEPT ![0] = PutFile(v.fd_table[0], d, w)]
            /\ x.open = v.open /\ x.files = v.files /\ x.screen = v.screen
    BY <1>3, <2>1, InstallKeeps
  <2> QED
    BY <1>10, <2>2 DEF d, w
<1>14. r.fd_table[0] = t2 /\ \A p \in Children : r.fd_table[p] = o.fd_table[p]
  BY <1>3, <1>9, <1>10, <1>13 DEF OsInv, Procs
<1>15. sys_pipe(o, 0, k) = r
  BY DEF sys_pipe, u, v
<1> HIDE DEF r, t2
<1>16. KeepsOpen(o, r)
  BY <1>9, <1>13, SameOpen
<1> QED
  BY <1>7, <1>9, <1>11, <1>13, <1>14, <1>15, <1>16 DEF HoldsEnds, t1

\* fork copies the table of the shell.
LEMMA ForkKeeps ==
    ASSUME NEW o, OsInv(o), NEW c \in Children
    PROVE  LET r == fork_fds(o, 0, c)
           IN  /\ OsInv(r) /\ KeepsOpen(o, r)
               /\ r.fd_table = [o.fd_table EXCEPT ![c] = o.fd_table[0]]
               /\ r.files = o.files /\ r.pipes = o.pipes /\ r.screen = o.screen
<1> DEFINE t == o.fd_table[0]
           r == fork_fds(o, 0, c)
<1>1. /\ DOMAIN r = DOMAIN o /\ r.fd_table = [o.fd_table EXCEPT ![c] = t]
      /\ r.open = o.open
      /\ r.files = o.files /\ r.pipes = o.pipes /\ r.screen = o.screen
  BY DEF OsInv, fork_fds
<1>2. 0 \in Procs /\ c \in Procs
  BY DEF Procs
<1>3. t \in Seq(AnyFile \cup {None})
  BY DEF OsInv
<1>4. \A h \in 1..Len(t) : t[h] \in Entries(o)
  BY <1>2, EntriesAre
<1> HIDE DEF r
<1>5. None \in AnyFile \cup {None}
  OBVIOUS
<1>6. /\ r.fd_table \in [Procs -> Seq(AnyFile \cup {None})]
      /\ Entries(r) \subseteq Entries(o) \cup {None, None}
  <2>1. r.fd_table = [o.fd_table EXCEPT ![c] = t]
    BY <1>1
  <2> HIDE DEF t
  <2> QED
    BY <1>2, <1>3, <1>4, <1>5, <2>1, EntriesOfUpdate
<1>7. \A k \in 1..MaxOpen : OSInode(k) # None
  BY OpenFilesAssumption DEF AnyFile
<1>8. OsInv(r)
  BY <1>1, <1>6, <1>7 DEF OsInv, Procs
<1>9. KeepsOpen(o, r)
  BY <1>1, SameOpen
<1> QED
  BY <1>1, <1>8, <1>9 DEF r

\* read and write move the offset of an OSInode, and write changes a file.
LEMMA OffsetKeeps ==
    ASSUME NEW o, OsInv(o), NEW r, DOMAIN r = DOMAIN o, r.fd_table = o.fd_table,
           \/ r.open = o.open
           \/ \E k \in 1..MaxOpen : /\ o.open[k] # None
                                    /\ r.open = [o.open EXCEPT ![k].offset = @ + 1]
    PROVE  OsInv(r) /\ KeepsOpen(o, r)
<1>1. Entries(r) = Entries(o)
  BY DEF Entries
<1>2. CASE r.open = o.open
  BY <1>1, <1>2 DEF OsInv, KeepsOpen
<1>3. ASSUME NEW k \in 1..MaxOpen, o.open[k] # None,
             r.open = [o.open EXCEPT ![k].offset = @ + 1]
      PROVE  OsInv(r) /\ KeepsOpen(o, r)
  <2> DEFINE h == o.open[k]
             j == [h EXCEPT !.offset = @ + 1]
  <2>1. h \in AnyInode
    BY <1>3 DEF OsInv
  <2>2. /\ j \in AnyInode /\ j.name = h.name /\ j.readable = h.readable
        /\ j.writable = h.writable
    BY <2>1 DEF AnyInode
  <2>3. j # None
    BY <2>2, OpenFilesAssumption
  <2>4. r.open = [o.open EXCEPT ![k] = j]
    BY <1>3 DEF OsInv
  <2> HIDE DEF j
  <2>5. OsInv(r)
    BY <1>1, <2>2, <2>3, <2>4 DEF OsInv
  <2>6. KeepsOpen(o, r)
    BY <2>2, <2>3, <2>4 DEF OsInv, KeepsOpen
  <2> QED
    BY <2>5, <2>6
<1> QED
  BY <1>2, <1>3

\* A file that a table had and has is what it was.
SameFile(o, r, f) ==
    /\ \A name : OpensFor(o, f, name) => OpensFor(r, f, name)
    /\ \A name : OpensTo(o, f, name) => OpensTo(r, f, name)
    /\ \A cmd : InputAt(o, f, cmd) => InputAt(r, f, cmd)
    /\ \A cmd : OutputAt(o, f, cmd) => OutputAt(r, f, cmd)
    /\ \A line, c : InputOf(o, f, line, c) => InputOf(r, f, line, c)
    /\ \A line, c : OutputOf(o, f, line, c) => OutputOf(r, f, line, c)

\* A file that an entry refers to before and after a call is the same one.
LEMMA FilesKept ==
    ASSUME NEW o, NEW r, KeepsOpen(o, r), NEW f, f \in Entries(o), f \in Entries(r)
    PROVE  SameFile(o, r, f)
<1>1. ASSUME NEW name, OpensFor(o, f, name)
      PROVE  OpensFor(r, f, name)
  BY <1>1 DEF OpensFor, KeepsOpen
<1>2. ASSUME NEW name, OpensTo(o, f, name)
      PROVE  OpensTo(r, f, name)
  BY <1>2 DEF OpensTo, KeepsOpen
<1>3. \A cmd : InputAt(o, f, cmd) => InputAt(r, f, cmd)
  BY <1>1 DEF InputAt
<1>4. \A cmd : OutputAt(o, f, cmd) => OutputAt(r, f, cmd)
  BY <1>2 DEF OutputAt
<1>5. \A line, c : InputOf(o, f, line, c) => InputOf(r, f, line, c)
  BY <1>3 DEF InputOf
<1>6. \A line, c : OutputOf(o, f, line, c) => OutputOf(r, f, line, c)
  BY <1>4 DEF OutputOf
<1> QED
  BY <1>1, <1>2, <1>3, <1>4, <1>5, <1>6 DEF SameFile

\* The files of a table are entries.
LEMMA TableEntries ==
    ASSUME NEW o, OsInv(o), NEW p \in Procs, NEW in, NEW dst, NEW a \in Nat \ {0},
           NEW b \in Nat, NEW fd \in Int, NEW file,
           TableIs(o.fd_table[p], in, dst, a, b, fd, file)
    PROVE  /\ in \in Entries(o) /\ dst \in Entries(o)
           /\ fd >= 3 => file \in Entries(o)
<1> DEFINE t == o.fd_table[p]
<1>1. /\ Len(t) \in Nat /\ Len(t) >= 3 /\ Len(t) > fd
      /\ \A h \in 1..Len(t) : t[h] = AtIndex(h, in, dst, a, b, fd, file)
  BY LenProperties DEF TableIs
<1>2. t[1] = in /\ t[2] = dst /\ (fd >= 3 => t[fd + 1] = file)
  BY <1>1 DEF AtIndex
<1> QED
  BY <1>1, <1>2, EntriesAre

\* A call of p changes its table to this, and no other one.
Makes(o, r, p, in, dst, a, b, fd, file) ==
    /\ OsInv(r) /\ KeepsOpen(o, r)
    /\ \A q \in Procs \ {p} : r.fd_table[q] = o.fd_table[q]
    /\ TableIs(r.fd_table[p], in, dst, a, b, fd, file)

\* What closing 0, 1, the file of a redirection or the first end that is left
\* makes of a table.
LEMMA CloseMakes ==
    ASSUME NEW o, OsInv(o), NEW p \in Procs, NEW in, NEW dst, NEW a \in Nat \ {0},
           NEW b \in 0..(2 * MaxPipes), NEW fd \in {Got, b + 3}, NEW file,
           TableIs(o.fd_table[p], in, dst, a, b, fd, file)
    PROVE  /\ in # None =>
                 Makes(o, sys_close(o, p, 0), p, None, dst, a, b, fd, file)
           /\ dst # None =>
                 Makes(o, sys_close(o, p, 1), p, in, None, a, b, fd, file)
           /\ fd = b + 3 /\ file # None =>
                 Makes(o, sys_close(o, p, b + 3), p, in, dst, a, b, Got, None)
           /\ a <= b /\ fd = Got =>
                 Makes(o, sys_close(o, p, a + 2), p, in, dst, a + 1, b, Got, None)
<1> DEFINE t == o.fd_table[p]
<1>0. b \in Nat /\ fd \in Int /\ (fd = Got \/ fd >= 3) /\ 2 * MaxPipes \in Nat
  BY OpenFilesAssumption DEF Got
<1>1. /\ Len(t) \in Nat /\ Len(t) >= b + 3 /\ Len(t) > fd
      /\ \A h \in 1..Len(t) : t[h] = AtIndex(h, in, dst, a, b, fd, file)
  BY LenProperties DEF TableIs
<1>2. ASSUME NEW h \in 1..Len(t), t[h] # None, NEW in2, NEW out2, NEW a2, NEW fd2,
             NEW file2, TableIs([t EXCEPT ![h] = None], in2, out2, a2, b, fd2, file2)
      PROVE  Makes(o, sys_close(o, p, h - 1), p, in2, out2, a2, b, fd2, file2)
  <2> DEFINE d == h - 1
             r == sys_close(o, p, d)
  <2>1. d \in Nat /\ h = d + 1 /\ t[h] # None
    BY <1>1, <1>2
  <2> HIDE DEF d
  <2>2. /\ OsInv(r) /\ KeepsOpen(o, r)
        /\ r.fd_table = [o.fd_table EXCEPT ![p] = Freed(t, h)]
    BY <2>1, CloseKeeps
  <2> HIDE DEF r
  <2>3. /\ r.fd_table[p] = [t EXCEPT ![h] = None]
        /\ \A q \in Procs \ {p} : r.fd_table[q] = o.fd_table[q]
    BY <2>1, <2>2 DEF OsInv, Procs, Freed
  <2>4. Makes(o, r, p, in2, out2, a2, b, fd2, file2)
    BY <1>2, <2>2, <2>3 DEF Makes
  <2> QED
    BY <2>4 DEF r, d
<1>3. ASSUME in # None
      PROVE  Makes(o, sys_close(o, p, 0), p, None, dst, a, b, fd, file)
  <2>1. t[1] # None /\ 1 \in 1..Len(t)
    BY <1>0, <1>1, <1>3 DEF AtIndex
  <2>2. TableIs([t EXCEPT ![1] = None], None, dst, a, b, fd, file)
    BY <1>0, TableFrees
  <2>3. Makes(o, sys_close(o, p, 1 - 1), p, None, dst, a, b, fd, file)
    BY <1>2, <2>1, <2>2
  <2> QED
    BY <2>3
<1>4. ASSUME dst # None
      PROVE  Makes(o, sys_close(o, p, 1), p, in, None, a, b, fd, file)
  <2>1. t[2] # None /\ 2 \in 1..Len(t)
    BY <1>0, <1>1, <1>4 DEF AtIndex
  <2>2. TableIs([t EXCEPT ![2] = None], in, None, a, b, fd, file)
    BY <1>0, TableFrees
  <2>3. Makes(o, sys_close(o, p, 2 - 1), p, in, None, a, b, fd, file)
    BY <1>2, <2>1, <2>2
  <2> QED
    BY <2>3
<1>5. ASSUME fd = b + 3, file # None
      PROVE  Makes(o, sys_close(o, p, b + 3), p, in, dst, a, b, Got, None)
  <2>1. t[b + 4] # None /\ b + 4 \in 1..Len(t)
    BY <1>0, <1>1, <1>5 DEF AtIndex
  <2>2. TableIs([t EXCEPT ![b + 4] = None], in, dst, a, b, Got, None)
    BY <1>0, <1>5, TableFrees
  <2>3. Makes(o, sys_close(o, p, (b + 4) - 1), p, in, dst, a, b, Got, None)
    BY <1>2, <2>1, <2>2
  <2>4. (b + 4) - 1 = b + 3
    BY <1>0
  <2> QED
    BY <2>3, <2>4
<1>6. ASSUME a <= b, fd = Got
      PROVE  Makes(o, sys_close(o, p, a + 2), p, in, dst, a + 1, b, Got, None)
  <2>1. a \in 1..(2 * MaxPipes)
    BY <1>0, <1>6
  <2>2. t[a + 3] = PipeEnd(a) /\ a + 3 \in 1..Len(t)
    BY <1>0, <1>1, <1>6 DEF AtIndex, Got
  <2>3. PipeEnd(a) # None
    BY <2>1, EndsAreFiles
  <2>4. TableIs([t EXCEPT ![a + 3] = None], in, dst, a + 1, b, Got, None)
    BY <1>0, <1>6, TableFrees
  <2>5. Makes(o, sys_close(o, p, (a + 3) - 1), p, in, dst, a + 1, b, Got, None)
    BY <1>2, <2>2, <2>3, <2>4
  <2>6. (a + 3) - 1 = a + 2
    BY <2>1
  <2> QED
    BY <2>5, <2>6
<1> QED
  BY <1>3, <1>4, <1>5, <1>6

\* dup of a file to 0 or 1, whichever is the first that is free.
LEMMA DupMakes0 ==
    ASSUME NEW o, OsInv(o), NEW p \in Procs, NEW dst, NEW b \in 0..(2 * MaxPipes),
           NEW fd \in {Got, b + 3}, NEW file,
           TableIs(o.fd_table[p], None, dst, 1, b, fd, file),
           NEW x \in Nat, NEW f \in AnyFile, FileAt(o, p, x) = f
    PROVE  /\ alloc_fd(o.fd_table[p]) = 0
           /\ Makes(o, sys_dup(o, p, x), p, f, dst, 1, b, fd, file)
<1> DEFINE t == o.fd_table[p]
           r == sys_dup(o, p, x)
           k == x + 1
<1>0. b \in Nat /\ fd \in Int /\ (fd = Got \/ fd >= 3) /\ 1 \in Nat \ {0}
  BY OpenFilesAssumption DEF Got
<1>1. /\ t \in Seq(AnyFile \cup {None}) /\ Len(t) \in Nat /\ Len(t) >= 3
      /\ DOMAIN t = 1..Len(t)
  BY <1>0, LenProperties DEF TableIs
<1>2. k \in 1..Len(t) /\ t[k] = f /\ f # None /\ k = x + 1
  BY <1>1, OpenFilesAssumption DEF FileAt
<1> HIDE DEF k
<1>3. /\ alloc_fd(t) = 0
      /\ TableIs(PutFile(t, 0, f), f, dst, 1, b, fd, file)
  BY <1>0, TableFills0
<1> DEFINE d == 0
<1>4. d \in Nat /\ d <= Len(t) /\ alloc_fd(t) = d /\ d = 0
  BY <1>1, <1>3
<1> HIDE DEF d
<1>5. /\ OsInv(r) /\ KeepsOpen(o, r)
      /\ r.fd_table = [o.fd_table EXCEPT ![p] = PutFile(t, d, f)]
  BY <1>2, <1>4, DupKeeps
<1> HIDE DEF r
<1>6. /\ r.fd_table[p] = PutFile(t, d, f)
      /\ \A q \in Procs \ {p} : r.fd_table[q] = o.fd_table[q]
  BY <1>5 DEF OsInv, Procs
<1>7. Makes(o, r, p, f, dst, 1, b, fd, file)
  BY <1>3, <1>4, <1>5, <1>6 DEF Makes
<1> QED
  BY <1>3, <1>7 DEF r

\* After 1 was closed, dup puts the file there.
LEMMA DupMakes1 ==
    ASSUME NEW o, OsInv(o), NEW p \in Procs, NEW in, in # None, NEW b \in 0..(2 * MaxPipes),
           NEW fd \in {Got, b + 3}, NEW file,
           TableIs(o.fd_table[p], in, None, 1, b, fd, file),
           NEW x \in Nat, NEW f \in AnyFile, FileAt(o, p, x) = f
    PROVE  /\ alloc_fd(o.fd_table[p]) = 1
           /\ Makes(o, sys_dup(o, p, x), p, in, f, 1, b, fd, file)
<1> DEFINE t == o.fd_table[p]
           r == sys_dup(o, p, x)
           k == x + 1
<1>0. b \in Nat /\ fd \in Int /\ (fd = Got \/ fd >= 3) /\ 1 \in Nat \ {0}
  BY OpenFilesAssumption DEF Got
<1>1. /\ t \in Seq(AnyFile \cup {None}) /\ Len(t) \in Nat /\ Len(t) >= 3
      /\ DOMAIN t = 1..Len(t)
  BY <1>0, LenProperties DEF TableIs
<1>2. k \in 1..Len(t) /\ t[k] = f /\ f # None /\ k = x + 1
  BY <1>1, OpenFilesAssumption DEF FileAt
<1> HIDE DEF k
<1>3. /\ alloc_fd(t) = 1
      /\ TableIs(PutFile(t, 1, f), in, f, 1, b, fd, file)
  BY <1>0, TableFills1
<1> DEFINE d == 1
<1>4. d \in Nat /\ d <= Len(t) /\ alloc_fd(t) = d /\ d = 1
  BY <1>1, <1>3
<1> HIDE DEF d
<1>5. /\ OsInv(r) /\ KeepsOpen(o, r)
      /\ r.fd_table = [o.fd_table EXCEPT ![p] = PutFile(t, d, f)]
  BY <1>2, <1>4, DupKeeps
<1> HIDE DEF r
<1>6. /\ r.fd_table[p] = PutFile(t, d, f)
      /\ \A q \in Procs \ {p} : r.fd_table[q] = o.fd_table[q]
  BY <1>5 DEF OsInv, Procs
<1>7. Makes(o, r, p, in, f, 1, b, fd, file)
  BY <1>3, <1>4, <1>5, <1>6 DEF Makes
<1> QED
  BY <1>3, <1>7 DEF r

\* open puts the new file behind all the others.
Opened(o, r, p, in, dst, b, fd, name, flags) ==
    \E k \in 1..MaxOpen :
        /\ Makes(o, r, p, in, dst, 1, b, fd, OSInode(k))
        /\ r.open[k] # None /\ r.open[k].name = name
        /\ r.open[k].readable = readable(flags)
        /\ r.open[k].writable = writable(flags)

\* open puts the file of a redirection after the ends of all pipes.
LEMMA OpenMakes ==
    ASSUME NEW o, OsInv(o), NEW p \in Procs, NEW in, NEW dst,
           NEW b \in 0..(2 * MaxPipes), in # None, dst # None,
           TableIs(o.fd_table[p], in, dst, 1, b, Got, None),
           NEW name \in FileNames, NEW flags, CanOpen(o, name, flags), CanPlace(o)
    PROVE  /\ alloc_fd(o.fd_table[p]) = b + 3
           /\ Opened(o, sys_open(o, p, name, flags), p, in, dst, b, b + 3, name, flags)
<1> DEFINE t == o.fd_table[p]
           r == sys_open(o, p, name, flags)
           d == b + 3
<1>0. b \in Nat /\ Got \in Int /\ d \in Nat
  BY OpenFilesAssumption DEF Got
<1>1. t \in Seq(AnyFile \cup {None}) /\ Len(t) \in Nat /\ d <= Len(t)
  BY <1>0, LenProperties DEF TableIs
<1>2. \A f \in AnyFile : /\ alloc_fd(t) = b + 3
                         /\ TableIs(PutFile(t, b + 3, f), in, dst, 1, b, b + 3, f)
  BY TableGrows
<1>3. alloc_fd(t) = d
  <2>1. Stdin \in AnyFile
    BY DEF AnyFile
  <2> QED
    BY <1>2, <2>1
<1> HIDE DEF d
<1>4. PICK k \in 1..MaxOpen :
          /\ OsInv(r) /\ KeepsOpen(o, r)
          /\ r.fd_table = [o.fd_table EXCEPT ![p] = PutFile(t, d, OSInode(k))]
          /\ r.open[k] # None /\ r.open[k].name = name
          /\ r.open[k].readable = readable(flags)
          /\ r.open[k].writable = writable(flags)
  <2>1. /\ d \in Nat /\ d <= Len(t) /\ alloc_fd(t) = d
    BY <1>0, <1>1, <1>3
  <2>2. /\ OsInv(r) /\ KeepsOpen(o, r)
        /\ \E k \in 1..MaxOpen :
              /\ r.fd_table = [o.fd_table EXCEPT ![p] = PutFile(t, d, OSInode(k))]
              /\ r.open[k] # None /\ r.open[k].name = name
              /\ r.open[k].readable = readable(flags)
              /\ r.open[k].writable = writable(flags)
    BY <2>1, OpenKeeps
  <2> QED
    BY <2>2
<1> HIDE DEF r
<1>5. /\ r.fd_table[p] = PutFile(t, d, OSInode(k))
      /\ \A q \in Procs \ {p} : r.fd_table[q] = o.fd_table[q]
  BY <1>4 DEF OsInv, Procs
<1>6. TableIs(r.fd_table[p], in, dst, 1, b, b + 3, OSInode(k))
  <2>1. OSInode(k) \in AnyFile
    BY DEF AnyFile
  <2> QED
    BY <1>2, <1>5, <2>1 DEF d
<1>7. Makes(o, r, p, in, dst, 1, b, b + 3, OSInode(k))
  BY <1>4, <1>5, <1>6 DEF Makes
<1>8. Opened(o, r, p, in, dst, b, b + 3, name, flags)
  BY <1>4, <1>7 DEF Opened
<1> QED
  BY <1>3, <1>8 DEF r, d

-----------------------------------------------------------------------------
(* The calls of a child from fork to exec.                                 *)

AnyCall == {<<"close", fd>> : fd \in Int} \cup {<<"dup", fd, to>> : fd, to \in Int}
           \cup {<<"open", name, flags>> :
                    name \in FileNames, flags \in SUBSET {"CREATE", "WRONLY"}}

\* A line that the shell runs has no more commands than there are children, and
\* redirects the input of its first and the output of its last only.
LEMMA LineFacts ==
    ASSUME NEW line, GoodLine(line)
    PROVE  /\ Len(line) \in 1..(MaxPipes + 1) /\ Len(line) \in Nat
           /\ PipeEnds(line) \in 0..(2 * MaxPipes) /\ PipeEnds(line) \in Nat
           /\ \A c \in 1..Len(line) :
                 /\ c \in Children
                 /\ line[c].input \in FileNames \cup {None}
                 /\ line[c].output \in FileNames \cup {None}
                 /\ line[c].app = "cat" => line[c].arg \in FileNames
                 /\ c > 1 => line[c].input = None
                 /\ c < Len(line) => line[c].output = None
<1> DEFINE Command == [app : STRING, arg : FileNames \cup {None},
                       input : FileNames \cup {None},
                       output : FileNames \cup {None}]
<1>1. /\ line \in Seq(Command) /\ Len(line) \in 1..(MaxPipes + 1)
      /\ MaxPipes \in Nat /\ ValidLine(line)
      /\ \A k \in DOMAIN line : line[k].app = "cat" => line[k].arg # None
  BY ShellAssumption, OpenFilesAssumption DEF GoodLine
<1>2. Len(line) \in Nat /\ DOMAIN line = 1..Len(line)
  BY <1>1, LenProperties
<1>3. \A c \in 1..Len(line) : line[c] \in Command
  BY <1>1, ElementOfSeq
<1>4. ASSUME NEW c \in 1..Len(line)
      PROVE  /\ c > 1 => line[c].input = None
             /\ c < Len(line) => line[c].output = None
  <2>1. CASE Len(line) = 1
    BY <1>2, <2>1
  <2>2. CASE Len(line) # 1
    BY <1>1, <1>2, <2>2 DEF ValidLine
  <2> QED
    BY <2>1, <2>2
<1>5. PipeEnds(line) \in 0..(2 * MaxPipes) /\ PipeEnds(line) \in Nat
  BY <1>1, <1>2 DEF PipeEnds
<1>6. \A c \in 1..Len(line) : c \in Children
  BY <1>1, <1>2 DEF Children
<1>7. \A c \in 1..Len(line) :
          /\ line[c].input \in FileNames \cup {None}
          /\ line[c].output \in FileNames \cup {None}
          /\ line[c].app = "cat" => line[c].arg \in FileNames
  BY <1>1, <1>2, <1>3
<1> QED
  BY <1>1, <1>2, <1>4, <1>5, <1>6, <1>7

\* The first and the rest of a sequence with x before s.
LEMMA ConsFacts ==
    ASSUME NEW S, NEW x \in S, NEW s \in Seq(S)
    PROVE  /\ <<x>> \o s \in Seq(S) /\ <<x>> \o s # <<>>
           /\ Head(<<x>> \o s) = x /\ Tail(<<x>> \o s) = s
<1>1. /\ <<x>> \in Seq(S) /\ Len(<<x>>) = 1 /\ Len(s) \in Nat /\ <<x>>[1] = x
  BY LenProperties
<1> DEFINE t == <<x>> \o s
<1>2. /\ t \in Seq(S) /\ Len(t) = Len(s) + 1 /\ t[1] = x
      /\ \A h \in 1..Len(s) : t[h + 1] = s[h]
  BY <1>1, ConcatProperties
<1> HIDE DEF t
<1>3. t # <<>> /\ Head(t) = x
  BY <1>1, <1>2
<1>4. /\ Tail(t) \in Seq(S) /\ Len(Tail(t)) = Len(s)
      /\ \A h \in 1..Len(s) : Tail(t)[h] = s[h]
  BY <1>1, <1>2, <1>3, HeadTailProperties
<1>5. Tail(t) = s
  BY <1>4, SeqEqual
<1> QED
  BY <1>2, <1>3, <1>5 DEF t

\* Two elements before s are one before the other before s.
LEMMA ConsTwo ==
    ASSUME NEW S, NEW x \in S, NEW y \in S, NEW s \in Seq(S)
    PROVE  <<x, y>> \o s = <<x>> \o (<<y>> \o s)
<1>1. <<x>> \in Seq(S) /\ <<y>> \in Seq(S)
  OBVIOUS
<1>2. <<x, y>> = <<x>> \o <<y>>
  <2>1. Len(<<x>>) = 1 /\ Len(<<y>>) = 1 /\ <<x>>[1] = x /\ <<y>>[1] = y
    OBVIOUS
  <2> DEFINE p == <<x>>
             q == <<y>>
             t == <<x, y>>
  <2>2. t \in Seq(S) /\ Len(t) = 2 /\ t[1] = x /\ t[2] = y
    OBVIOUS
  <2> HIDE DEF p, q, t
  <2>3. p \o q \in Seq(S) /\ Len(p \o q) = 2
    BY <1>1, <2>1, ConcatProperties DEF p, q
  <2>4. (p \o q)[1] = x /\ (p \o q)[2] = y
    BY <1>1, <2>1, ConcatProperties DEF p, q
  <2>5. \A h \in 1..Len(t) : t[h] = (p \o q)[h]
    <3>1. \A h \in 1..2 : h = 1 \/ h = 2
      OBVIOUS
    <3> QED
      BY <2>2, <2>4, <3>1
  <2>6. t = p \o q
    BY <2>2, <2>3, <2>5, SeqEqual
  <2> QED
    BY <2>6 DEF t, p, q
<1> DEFINE p == <<x>>
           q == <<y>>
<1> HIDE DEF p, q
<1>3. (p \o q) \o s = p \o (q \o s)
  BY <1>1, ConcatAssociative DEF p, q
<1> QED
  BY <1>2, <1>3 DEF p, q

\* A child closes the ends in the order in which they were made, and then is done.
LEMMA ClosesFacts ==
    ASSUME NEW n \in Nat, NEW a \in 1..(n + 1)
    PROVE  /\ ClosesFrom(a, n) \in Seq(AnyCall)
           /\ ClosesFrom(a, n) # <<>> => a <= n
           /\ a <= n => /\ ClosesFrom(a, n) # <<>>
                        /\ Head(ClosesFrom(a, n)) = <<"close", a + 2>>
                        /\ Tail(ClosesFrom(a, n)) = ClosesFrom(a + 1, n)
           /\ a = n + 1 => ClosesFrom(a, n) = <<>>
<1> DEFINE t == ClosesFrom(a, n)
           m == n + 1 - a
<1>0. m \in Nat
  OBVIOUS
<1>1. t = [h \in 1..m |-> <<"close", a + h + 1>>]
  BY DEF ClosesFrom
<1>2. \A h \in 1..m : t[h] = <<"close", a + h + 1>> /\ t[h] \in AnyCall
  <2> SUFFICES ASSUME NEW h \in 1..m
               PROVE  t[h] = <<"close", a + h + 1>> /\ t[h] \in AnyCall
    OBVIOUS
  <2>1. a + h + 1 \in Int
    OBVIOUS
  <2>2. t[h] = <<"close", a + h + 1>>
    BY <1>1
  <2> QED
    BY <2>1, <2>2 DEF AnyCall
<1> HIDE DEF t, m
<1>3. t \in Seq(AnyCall) /\ Len(t) = m
  <2>1. t \in [1..m -> AnyCall]
    BY <1>1, <1>2
  <2> QED
    BY <1>0, <2>1, IsSequence
<1>4. t # <<>> => a <= n
  BY <1>3, EmptySeq DEF m
<1>5. a = n + 1 => t = <<>>
  BY <1>3, EmptySeq DEF m
<1>6. ASSUME a <= n
      PROVE  /\ t # <<>> /\ Head(t) = <<"close", a + 2>>
             /\ Tail(t) = ClosesFrom(a + 1, n)
  <2>0. 1 \in 1..m /\ a + 1 + 1 = a + 2 /\ n + 1 - (a + 1) = m - 1 /\ m - 1 \in Nat
    BY <1>6 DEF m
  <2>1. t # <<>> /\ Head(t) = t[1]
    BY <1>3, <2>0
  <2>2. t[1] = <<"close", a + 1 + 1>>
    BY <1>2, <2>0
  <2>3. /\ Tail(t) \in Seq(AnyCall) /\ Len(Tail(t)) = m - 1
        /\ \A h \in 1..(m - 1) : Tail(t)[h] = t[h + 1]
    BY <1>3, <2>1, HeadTailProperties
  <2> DEFINE u == ClosesFrom(a + 1, n)
  <2>4. u = [h \in 1..(m - 1) |-> <<"close", a + 1 + h + 1>>]
    BY <2>0 DEF ClosesFrom
  <2> HIDE DEF u
  <2>5. \A h \in 1..(m - 1) : t[h + 1] = u[h]
    <3> SUFFICES ASSUME NEW h \in 1..(m - 1)
                 PROVE  t[h + 1] = u[h]
      OBVIOUS
    <3>1. h + 1 \in 1..m /\ a + (h + 1) + 1 = a + 1 + h + 1
      BY <1>0, <2>0
    <3>2. t[h + 1] = <<"close", a + (h + 1) + 1>>
      BY <1>2, <3>1
    <3>3. u[h] = <<"close", a + 1 + h + 1>>
      BY <2>4
    <3> QED
      BY <3>1, <3>2, <3>3
  <2>6. u \in Seq(AnyCall) /\ Len(u) = m - 1
    <3>1. \A h \in 1..(m - 1) : u[h] \in AnyCall
      <4> SUFFICES ASSUME NEW h \in 1..(m - 1) PROVE u[h] \in AnyCall
        OBVIOUS
      <4>1. h + 1 \in 1..m
        BY <1>0, <2>0
      <4> QED
        BY <1>2, <2>5, <4>1
    <3>2. u \in [1..(m - 1) -> AnyCall]
      BY <2>4, <3>1
    <3> QED
      BY <2>0, <3>2, IsSequence
  <2>7. Tail(t) = u
    BY <2>3, <2>5, <2>6, SeqEqual
  <2> QED
    BY <2>0, <2>1, <2>2, <2>7 DEF u
<1> QED
  BY <1>3, <1>4, <1>5, <1>6 DEF t

\* What is left to do at each stage is a sequence of calls.
LEMMA CallsTyped ==
    ASSUME NEW line, GoodLine(line), NEW c \in 1..Len(line)
    PROVE  /\ ClosesFrom(1, PipeEnds(line)) \in Seq(AnyCall)
           /\ CallsOut2(line, c) \in Seq(AnyCall) /\ CallsOut(line, c) \in Seq(AnyCall)
           /\ CallsIn2(line, c) \in Seq(AnyCall) /\ CallsIn(line, c) \in Seq(AnyCall)
           /\ \A s \in Seq(AnyCall), fd \in Int :
                 /\ Redirect4(s) \in Seq(AnyCall)
                 /\ Redirect3(fd, s) \in Seq(AnyCall)
                 /\ Redirect2(fd, s) \in Seq(AnyCall)
           /\ CallsTo(line, c) \in Seq(AnyCall) /\ CallsFrom(line, c) \in Seq(AnyCall)
<1>1. /\ PipeEnds(line) \in Nat /\ c \in Int /\ 2 * c + 2 \in Int /\ 2 * c - 1 \in Int
      /\ 0 \in Int /\ 1 \in Int /\ Got \in Int
  BY LineFacts DEF Got
<1>2. /\ \A fd \in Int : <<"close", fd>> \in AnyCall
      /\ \A fd, to \in Int : <<"dup", fd, to>> \in AnyCall
      /\ \A name \in FileNames, flags \in SUBSET {"CREATE", "WRONLY"} :
             <<"open", name, flags>> \in AnyCall
  BY DEF AnyCall
<1>3. ClosesFrom(1, PipeEnds(line)) \in Seq(AnyCall)
  BY <1>1, ClosesFacts
<1>4. CallsOut2(line, c) \in Seq(AnyCall)
  BY <1>1, <1>2, <1>3, ConsFacts DEF CallsOut2
<1>5. CallsOut(line, c) \in Seq(AnyCall)
  BY <1>1, <1>2, <1>3, <1>4, ConsFacts DEF CallsOut
<1>6. CallsIn2(line, c) \in Seq(AnyCall)
  BY <1>1, <1>2, <1>5, ConsFacts DEF CallsIn2
<1>7. CallsIn(line, c) \in Seq(AnyCall)
  BY <1>1, <1>2, <1>5, <1>6, ConsFacts DEF CallsIn
<1>8. ASSUME NEW s \in Seq(AnyCall), NEW fd \in Int
      PROVE  /\ Redirect4(s) \in Seq(AnyCall)
             /\ Redirect3(fd, s) \in Seq(AnyCall)
             /\ Redirect2(fd, s) \in Seq(AnyCall)
  <2>1. Redirect4(s) \in Seq(AnyCall)
    BY <1>1, <1>2, ConsFacts DEF Redirect4
  <2>2. Redirect3(fd, s) \in Seq(AnyCall)
    BY <1>1, <1>2, <2>1, ConsFacts DEF Redirect3
  <2>3. Redirect2(fd, s) \in Seq(AnyCall)
    BY <1>1, <1>2, <2>2, ConsFacts DEF Redirect2
  <2> QED
    BY <2>1, <2>2, <2>3
<1>9. CallsTo(line, c) \in Seq(AnyCall)
  <2>1. CASE line[c].output = None
    BY <1>7, <2>1 DEF CallsTo, Redirect1
  <2>2. CASE line[c].output # None
    <3>1. <<"open", line[c].output, {"CREATE", "WRONLY"}>> \in AnyCall
      BY <1>2, <2>2, LineFacts
    <3>2. Redirect2(1, CallsIn(line, c)) \in Seq(AnyCall)
      BY <1>1, <1>7, <1>8
    <3> QED
      BY <2>2, <3>1, <3>2, ConsFacts DEF CallsTo, Redirect1
  <2> QED
    BY <2>1, <2>2
<1>10. CallsFrom(line, c) \in Seq(AnyCall)
  <2>1. CASE line[c].input = None
    BY <1>9, <2>1 DEF CallsFrom, Redirect1
  <2>2. CASE line[c].input # None
    <3>1. <<"open", line[c].input, {}>> \in AnyCall
      BY <1>2, <2>2, LineFacts
    <3>2. Redirect2(0, CallsTo(line, c)) \in Seq(AnyCall)
      BY <1>1, <1>9, <1>8
    <3> QED
      BY <2>2, <3>1, <3>2, ConsFacts DEF CallsFrom, Redirect1
  <2> QED
    BY <2>1, <2>2
<1> QED
  BY <1>3, <1>4, <1>5, <1>6, <1>7, <1>8, <1>9, <1>10

\* Setup, stage by stage.
LEMMA SetupIs ==
    ASSUME NEW line, GoodLine(line), NEW c \in 1..Len(line)
    PROVE  Setup(line[c], c, Len(line), PipeFds(PipeEnds(line))) = CallsFrom(line, c)
<1> DEFINE cmd == line[c]
           n == Len(line)
           all == PipeEnds(line)
           ends == PipeFds(all)
           r0 == Redirect(cmd.input, {}, 0)
           r1 == Redirect(cmd.output, {"CREATE", "WRONLY"}, 1)
           p0 == IF c > 1 THEN <<<<"close", 0>>, <<"dup", ends[2 * c - 3], 0>>>>
                 ELSE <<>>
           p1 == IF c < n THEN <<<<"close", 1>>, <<"dup", ends[2 * c], 1>>>>
                 ELSE <<>>
           cl == [e \in DOMAIN ends |-> <<"close", ends[e]>>]
<1>1. /\ all \in Nat /\ all = 2 * (n - 1) /\ n \in Nat /\ c \in Int
      /\ 2 * c + 2 \in Int /\ 2 * c - 1 \in Int
      /\ 0 \in Int /\ 1 \in Int /\ Got \in Int
      /\ cmd.input \in FileNames \cup {None} /\ cmd.output \in FileNames \cup {None}
  BY LineFacts DEF Got, PipeEnds
<1>2. /\ \A fd \in Int : <<"close", fd>> \in AnyCall
      /\ \A fd, to \in Int : <<"dup", fd, to>> \in AnyCall
      /\ \A name \in FileNames, flags \in SUBSET {"CREATE", "WRONLY"} :
             <<"open", name, flags>> \in AnyCall
  BY DEF AnyCall
<1>3. cl = ClosesFrom(1, all)
  <2>1. all + 1 - 1 = all /\ DOMAIN ends = 1..all
    BY <1>1 DEF PipeFds
  <2>2. \A e \in 1..all : ends[e] = 1 + e + 1
    BY <1>1 DEF PipeFds
  <2> QED
    BY <2>1, <2>2 DEF ClosesFrom
<1>4. c > 1 => ends[2 * c - 3] = 2 * c - 1
  BY <1>1 DEF PipeFds
<1>5. c < n => ends[2 * c] = 2 * c + 2
  BY <1>1 DEF PipeFds
<1>6. Setup(cmd, c, n, ends) = (((r0 \o r1) \o p0) \o p1) \o cl
  BY DEF Setup
<1> HIDE DEF ends, cl
<1>7. ASSUME NEW name \in FileNames \cup {None}, NEW flags \in SUBSET {"CREATE", "WRONLY"},
             NEW fd \in Int, NEW s \in Seq(AnyCall)
      PROVE  /\ Redirect(name, flags, fd) \in Seq(AnyCall)
             /\ Redirect(name, flags, fd) \o s = Redirect1(name, flags, fd, s)
  <2>1. CASE name = None
    BY <2>1, ConcatEmptySeq, EmptySeq DEF Redirect, Redirect1
  <2>2. CASE name # None
    <3> DEFINE x == <<"open", name, flags>>
               y == <<"close", fd>>
               z == <<"dup", Got, fd>>
               w == <<"close", Got>>
    <3>1. x \in AnyCall /\ y \in AnyCall /\ z \in AnyCall /\ w \in AnyCall
      BY <1>1, <1>2, <2>2
    <3>2. /\ Redirect(name, flags, fd) = <<x, y, z, w>>
          /\ Redirect1(name, flags, fd, s)
                = <<x>> \o (<<y>> \o (<<z>> \o (<<w>> \o s)))
      BY <2>2 DEF Redirect, Redirect1, Redirect2, Redirect3, Redirect4
    <3> HIDE DEF x, y, z, w
    <3>3. <<x, y, z, w>> \in Seq(AnyCall)
      BY <3>1
    <3>4. <<x, y, z, w>> \o s = <<x>> \o (<<y>> \o (<<z>> \o (<<w>> \o s)))
      <4> DEFINE p == <<x, y>>
                 q == <<z, w>>
      <4>1. p \in Seq(AnyCall) /\ q \in Seq(AnyCall)
        BY <3>1
      <4>2. <<x, y, z, w>> = p \o q
        OBVIOUS
      <4> HIDE DEF p, q
      <4>3. q \o s \in Seq(AnyCall)
        BY <4>1, ConcatProperties
      <4>4. (p \o q) \o s = p \o (q \o s)
        BY <4>1, ConcatAssociative
      <4>5. q \o s = <<z>> \o (<<w>> \o s)
        BY <3>1, ConsTwo DEF q
      <4>6. p \o (q \o s) = <<x>> \o (<<y>> \o (q \o s))
        BY <3>1, <4>3, ConsTwo DEF p
      <4> QED
        BY <4>2, <4>4, <4>5, <4>6
    <3> QED
      BY <3>2, <3>3, <3>4
  <2> QED
    BY <2>1, <2>2
<1>8. r0 \in Seq(AnyCall) /\ r1 \in Seq(AnyCall)
  <2>1. {} \in SUBSET {"CREATE", "WRONLY"} /\ <<>> \in Seq(AnyCall)
        /\ {"CREATE", "WRONLY"} \in SUBSET {"CREATE", "WRONLY"}
    OBVIOUS
  <2> QED
    BY <1>1, <1>7, <2>1
<1>9. p1 \in Seq(AnyCall) /\ p1 \o cl = CallsOut(line, c)
  <2>0. cl \in Seq(AnyCall)
    BY <1>3, CallsTyped
  <2>1. CASE c < n
    <3> DEFINE x == <<"close", 1>>
               y == <<"dup", 2 * c + 2, 1>>
    <3>1. x \in AnyCall /\ y \in AnyCall
      BY <1>1, <1>2
    <3>2. p1 = <<x, y>> /\ CallsOut(line, c) = <<x>> \o (<<y>> \o cl)
      BY <1>3, <1>5, <2>1 DEF CallsOut, CallsOut2
    <3> HIDE DEF x, y, p1
    <3>3. <<x, y>> \in Seq(AnyCall)
      BY <3>1
    <3> QED
      BY <2>0, <3>1, <3>2, <3>3, ConsTwo
  <2>2. CASE ~(c < n)
    BY <1>3, <2>0, <2>2, ConcatEmptySeq, EmptySeq DEF CallsOut
  <2> QED
    BY <2>1, <2>2
<1> HIDE DEF p1
<1>10. p0 \in Seq(AnyCall) /\ p0 \o CallsOut(line, c) = CallsIn(line, c)
  <2> DEFINE s == CallsOut(line, c)
  <2>0. s \in Seq(AnyCall)
    BY CallsTyped
  <2>1. CASE c > 1
    <3> DEFINE x == <<"close", 0>>
               y == <<"dup", 2 * c - 1, 0>>
    <3>1. x \in AnyCall /\ y \in AnyCall
      BY <1>1, <1>2
    <3>2. p0 = <<x, y>> /\ CallsIn(line, c) = <<x>> \o (<<y>> \o s)
      BY <1>4, <2>1 DEF CallsIn, CallsIn2
    <3> HIDE DEF x, y, p0, s
    <3>3. <<x, y>> \in Seq(AnyCall)
      BY <3>1
    <3>4. p0 \in Seq(AnyCall) /\ p0 \o s = CallsIn(line, c)
      BY <2>0, <3>1, <3>2, <3>3, ConsTwo
    <3> QED
      BY <3>4 DEF s
  <2>2. CASE ~(c > 1)
    BY <2>0, <2>2, ConcatEmptySeq, EmptySeq DEF CallsIn
  <2> QED
    BY <2>1, <2>2
<1> HIDE DEF p0
<1>11. /\ r1 \o CallsIn(line, c) = CallsTo(line, c)
       /\ r0 \o CallsTo(line, c) = CallsFrom(line, c)
  <2>1. {} \in SUBSET {"CREATE", "WRONLY"}
        /\ {"CREATE", "WRONLY"} \in SUBSET {"CREATE", "WRONLY"}
    OBVIOUS
  <2>2. CallsIn(line, c) \in Seq(AnyCall) /\ CallsTo(line, c) \in Seq(AnyCall)
    BY CallsTyped
  <2>3. r1 \o CallsIn(line, c) = CallsTo(line, c)
    BY <1>1, <1>7, <2>1, <2>2 DEF CallsTo
  <2>4. r0 \o CallsTo(line, c) = CallsFrom(line, c)
    BY <1>1, <1>7, <2>1, <2>2 DEF CallsFrom
  <2> QED
    BY <2>3, <2>4
<1> HIDE DEF r0, r1
<1>12. cl \in Seq(AnyCall)
  BY <1>3, CallsTyped
<1> DEFINE u0 == r0 \o r1
           u1 == u0 \o p0
           s1 == CallsOut(line, c)
           s0 == CallsIn(line, c)
<1>13. u0 \in Seq(AnyCall) /\ s0 \in Seq(AnyCall) /\ s1 \in Seq(AnyCall)
  BY <1>8, CallsTyped, ConcatProperties
<1> HIDE DEF u0, s0, s1
<1>14. u1 \in Seq(AnyCall)
  BY <1>10, <1>13, ConcatProperties
<1> HIDE DEF u1
<1>15. (u1 \o p1) \o cl = u1 \o (p1 \o cl)
  <2>1. p1 \in Seq(AnyCall)
    BY <1>9
  <2> QED
    BY <1>12, <1>14, <2>1, ConcatAssociative
<1>16. u1 \o s1 = u0 \o (p0 \o s1)
  <2>1. p0 \in Seq(AnyCall)
    BY <1>10
  <2> QED
    BY <1>13, <2>1, ConcatAssociative DEF u1
<1>17. u0 \o s0 = r0 \o (r1 \o s0)
  BY <1>8, <1>13, ConcatAssociative DEF u0
<1> QED
  BY <1>6, <1>9, <1>10, <1>11, <1>15, <1>16, <1>17 DEF ends, u0, u1, s0, s1

\* A child keeps its stage when another process makes a call.
LEMMA TableKept ==
    ASSUME NEW o, NEW r, OsInv(o), OsInv(r), KeepsOpen(o, r), NEW p \in Procs,
           r.fd_table[p] = o.fd_table[p], NEW in, NEW dst, NEW a \in Nat \ {0},
           NEW b \in Nat, NEW fd \in Int, NEW file,
           TableIs(o.fd_table[p], in, dst, a, b, fd, file)
    PROVE  /\ TableIs(r.fd_table[p], in, dst, a, b, fd, file)
           /\ SameFile(o, r, in) /\ SameFile(o, r, dst)
           /\ fd >= 3 => SameFile(o, r, file)
<1>1. TableIs(r.fd_table[p], in, dst, a, b, fd, file)
  OBVIOUS
<1>2. /\ in \in Entries(o) /\ dst \in Entries(o)
      /\ fd >= 3 => file \in Entries(o)
  BY TableEntries
<1>3. /\ in \in Entries(r) /\ dst \in Entries(r)
      /\ fd >= 3 => file \in Entries(r)
  BY <1>1, TableEntries
<1> QED
  BY <1>1, <1>2, <1>3, FilesKept

\* A call of another process leaves a child at its stage.
LEMMA StageKept ==
    ASSUME NEW o, NEW r, OsInv(o), OsInv(r), KeepsOpen(o, r), NEW c \in Children,
           r.fd_table[c] = o.fd_table[c], NEW line, GoodLine(line), NEW ch,
           SetsUp(o, ch, line, c)
    PROVE  SetsUp(r, ch, line, c)
<1> DEFINE all == PipeEnds(line)
           fd == all + 3
<1>1. /\ all \in Nat /\ c \in Procs /\ Got \in Int /\ fd \in Int /\ fd >= 3
      /\ 1 \in Nat \ {0}
  BY LineFacts DEF Procs, Got
<1>2. ASSUME NEW in, NEW dst, NEW file, NEW d \in {Got, fd},
             HasAll(o, line, c, in, dst, d, file)
      PROVE  /\ HasAll(r, line, c, in, dst, d, file)
             /\ SameFile(o, r, in) /\ SameFile(o, r, dst)
             /\ d = fd => SameFile(o, r, file)
  <2> HIDE DEF all
  <2>1. d \in Int /\ TableIs(o.fd_table[c], in, dst, 1, all, d, file)
    BY <1>1, <1>2 DEF HasAll, all
  <2>2. /\ TableIs(r.fd_table[c], in, dst, 1, all, d, file)
        /\ SameFile(o, r, in) /\ SameFile(o, r, dst)
        /\ d >= 3 => SameFile(o, r, file)
    BY <1>1, <2>1, TableKept
  <2> QED
    BY <1>1, <2>2 DEF HasAll, all
<1> HIDE DEF all, fd
<1>fd. fd = PipeEnds(line) + 3
  BY DEF fd, all
<1>3. CASE StageFrom(o, ch, line, c)
  BY <1>2, <1>3 DEF SetsUp, StageFrom
<1>4. CASE StageFrom2(o, ch, line, c)
  <2>1. StageFrom2(r, ch, line, c)
    BY <1>2, <1>4, <1>fd DEF StageFrom2, Input, SameFile
  <2> QED
    BY <2>1 DEF SetsUp
<1>5. CASE StageFrom3(o, ch, line, c)
  <2>1. StageFrom3(r, ch, line, c)
    BY <1>2, <1>5, <1>fd DEF StageFrom3, Input, SameFile
  <2> QED
    BY <2>1 DEF SetsUp
<1>6. CASE StageFrom4(o, ch, line, c)
  <2>1. StageFrom4(r, ch, line, c)
    BY <1>2, <1>6, <1>fd DEF StageFrom4, Input, SameFile
  <2> QED
    BY <2>1 DEF SetsUp
<1>7. CASE StageTo(o, ch, line, c)
  <2>1. StageTo(r, ch, line, c)
    BY <1>2, <1>7 DEF StageTo, SameFile
  <2> QED
    BY <2>1 DEF SetsUp
<1>8. CASE StageTo2(o, ch, line, c)
  <2>1. StageTo2(r, ch, line, c)
    BY <1>2, <1>8, <1>fd DEF StageTo2, Output, SameFile
  <2> QED
    BY <2>1 DEF SetsUp
<1>9. CASE StageTo3(o, ch, line, c)
  <2>1. StageTo3(r, ch, line, c)
    BY <1>2, <1>9, <1>fd DEF StageTo3, Output, SameFile
  <2> QED
    BY <2>1 DEF SetsUp
<1>10. CASE StageTo4(o, ch, line, c)
  <2>1. StageTo4(r, ch, line, c)
    BY <1>2, <1>10, <1>fd DEF StageTo4, Output, SameFile
  <2> QED
    BY <2>1 DEF SetsUp
<1>11. CASE StageIn(o, ch, line, c)
  <2>1. StageIn(r, ch, line, c)
    BY <1>2, <1>11 DEF StageIn, SameFile
  <2> QED
    BY <2>1 DEF SetsUp
<1>12. CASE StageIn2(o, ch, line, c)
  <2>1. StageIn2(r, ch, line, c)
    BY <1>2, <1>12 DEF StageIn2, SameFile
  <2> QED
    BY <2>1 DEF SetsUp
<1>13. CASE StageOut(o, ch, line, c)
  <2>1. StageOut(r, ch, line, c)
    BY <1>2, <1>13 DEF StageOut, SameFile
  <2> QED
    BY <2>1 DEF SetsUp
<1>14. CASE StageOut2(o, ch, line, c)
  <2>1. StageOut2(r, ch, line, c)
    BY <1>2, <1>14 DEF StageOut2, SameFile
  <2> QED
    BY <2>1 DEF SetsUp
<1>15. CASE StageClose(o, ch, line, c)
  <2>1. PICK in \in AnyFile, dst \in AnyFile, a \in 1..(PipeEnds(line) + 1) :
           /\ ch.calls = ClosesFrom(a, PipeEnds(line))
           /\ InputOf(o, in, line, c) /\ OutputOf(o, dst, line, c)
           /\ TableIs(o.fd_table[c], in, dst, a, PipeEnds(line), Got, None)
    BY <1>15 DEF StageClose
  <2>2. a \in Nat \ {0} /\ all = PipeEnds(line)
    BY <1>1 DEF all
  <2>3. /\ TableIs(r.fd_table[c], in, dst, a, all, Got, None)
        /\ SameFile(o, r, in) /\ SameFile(o, r, dst)
    BY <1>1, <2>1, <2>2, TableKept
  <2>4. StageClose(r, ch, line, c)
    BY <2>1, <2>2, <2>3 DEF StageClose, SameFile
  <2> QED
    BY <2>4 DEF SetsUp
<1> QED
  BY <1>3, <1>4, <1>5, <1>6, <1>7, <1>8, <1>9, <1>10, <1>11, <1>12, <1>13, <1>14,
     <1>15 DEF SetsUp

\* It leaves a program its input and its output,
LEMMA RunKept ==
    ASSUME NEW o, NEW r, OsInv(o), OsInv(r), KeepsOpen(o, r), NEW c \in Children,
           r.fd_table[c] = o.fd_table[c], NEW line, NEW fd \in Int, NEW file,
           RunsAt(o, line, c, fd, file)
    PROVE  RunsAt(r, line, c, fd, file)
<1>1. PICK in \in AnyFile, dst \in AnyFile :
         /\ InputOf(o, in, line, c) /\ OutputOf(o, dst, line, c)
         /\ TableIs(o.fd_table[c], in, dst, 1, 0, fd, file)
  BY DEF RunsAt
<1>2. /\ TableIs(r.fd_table[c], in, dst, 1, 0, fd, file)
      /\ SameFile(o, r, in) /\ SameFile(o, r, dst)
  <2>1. c \in Procs /\ 1 \in Nat \ {0} /\ 0 \in Nat
    BY DEF Procs
  <2> QED
    BY <1>1, <2>1, TableKept
<1> QED
  BY <1>1, <1>2 DEF RunsAt, SameFile

\* and so the whole invariant of the child.
LEMMA ChildKept ==
    ASSUME NEW o, NEW r, OsInv(o), OsInv(r), KeepsOpen(o, r), NEW c \in Children,
           r.fd_table[c] = o.fd_table[c], NEW line, NEW ch, ChildInv(o, ch, line, c)
    PROVE  ChildInv(r, ch, line, c)
<1>1. ch.status = "setup" => SetsUp(r, ch, line, c)
  <2> SUFFICES ASSUME ch.status = "setup" PROVE SetsUp(r, ch, line, c)
    OBVIOUS
  <2>1. GoodLine(line) /\ SetsUp(o, ch, line, c)
    BY DEF ChildInv
  <2> QED
    BY <2>1, StageKept
<1>2. Got \in Int /\ 3 \in Int
  BY DEF Got
<1>3. RunsAt(o, line, c, Got, None) => RunsAt(r, line, c, Got, None)
  BY <1>2, RunKept
<1>4. \A k \in 1..MaxOpen : RunsAt(o, line, c, 3, OSInode(k))
                              => RunsAt(r, line, c, 3, OSInode(k))
  BY <1>2, RunKept
<1>5. RunsApp(o, ch, line, c) => RunsApp(r, ch, line, c)
  BY <1>3, <1>4 DEF RunsApp
<1> QED
  BY <1>1, <1>3, <1>5 DEF ChildInv

-----------------------------------------------------------------------------
(* A call of a child.                                                      *)

\* setup_call, of the state of one child.
Stays(ch, ch2, calls, fd) ==
    /\ DOMAIN ch2 = DOMAIN ch /\ ch2.status = ch.status
    /\ ch2.app = ch.app /\ ch2.arg = ch.arg
    /\ ch2.calls = calls /\ ch2.fd = fd
Fails(ch, ch2) ==
    DOMAIN ch2 = DOMAIN ch /\ ch2.status = "print" /\ ch2.app = "error"
FdOf(ch, fd) == IF fd = Got THEN ch.fd ELSE fd
OpenCall(o, ch, r, ch2, c, name, flags) ==
    /\ CanPlace(o)
    /\ r = sys_open(o, c, name, flags)
    /\ IF CanOpen(o, name, flags)
       THEN Stays(ch, ch2, Tail(ch.calls), alloc_fd(o.fd_table[c]))
       ELSE Fails(ch, ch2)
CloseCall(o, ch, r, ch2, c, fd) ==
    /\ r = sys_close(o, c, FdOf(ch, fd))
    /\ Stays(ch, ch2, Tail(ch.calls), ch.fd)
DupCall(o, ch, r, ch2, c, fd, to) ==
    /\ r = sys_dup(o, c, FdOf(ch, fd))
    /\ IF alloc_fd(o.fd_table[c]) = to
       THEN Stays(ch, ch2, Tail(ch.calls), ch.fd) ELSE Fails(ch, ch2)
CallStep(o, ch, r, ch2, c, call) ==
    \/ call[1] = "open" /\ OpenCall(o, ch, r, ch2, c, call[2], call[3])
    \/ call[1] = "close" /\ CloseCall(o, ch, r, ch2, c, call[2])
    \/ call[1] = "dup" /\ DupCall(o, ch, r, ch2, c, call[2], call[3])

\* What a step of setup_call does, by the name of the call.
LEMMA CallIs ==
    ASSUME NEW o, NEW ch, NEW r, NEW ch2, NEW c, NEW call,
           CallStep(o, ch, r, ch2, c, call)
    PROVE  /\ \A name, flags : call = <<"open", name, flags>> =>
                 OpenCall(o, ch, r, ch2, c, name, flags)
           /\ \A fd : call = <<"close", fd>> => CloseCall(o, ch, r, ch2, c, fd)
           /\ \A fd, to : call = <<"dup", fd, to>> =>
                 DupCall(o, ch, r, ch2, c, fd, to)
<1>1. ASSUME NEW name, NEW flags, call = <<"open", name, flags>>
      PROVE  OpenCall(o, ch, r, ch2, c, name, flags)
  <2>1. call[1] = "open" /\ call[2] = name /\ call[3] = flags
    BY <1>1
  <2> QED
    BY <2>1 DEF CallStep
<1>2. ASSUME NEW fd, call = <<"close", fd>>
      PROVE  CloseCall(o, ch, r, ch2, c, fd)
  <2>1. call[1] = "close" /\ call[2] = fd
    BY <1>2
  <2> QED
    BY <2>1 DEF CallStep
<1>3. ASSUME NEW fd, NEW to, call = <<"dup", fd, to>>
      PROVE  DupCall(o, ch, r, ch2, c, fd, to)
  <2>1. call[1] = "dup" /\ call[2] = fd /\ call[3] = to
    BY <1>3
  <2> QED
    BY <2>1 DEF CallStep
<1> QED
  BY <1>1, <1>2, <1>3

\* What is left to do begins with the call of its stage.
LEMMA StageHeads ==
    ASSUME NEW line, GoodLine(line), NEW c \in 1..Len(line)
    PROVE  /\ Head(CallsOut2(line, c)) = <<"dup", 2 * c + 2, 1>>
           /\ Tail(CallsOut2(line, c)) = ClosesFrom(1, PipeEnds(line))
           /\ c < Len(line) => /\ Head(CallsOut(line, c)) = <<"close", 1>>
                               /\ Tail(CallsOut(line, c)) = CallsOut2(line, c)
           /\ Head(CallsIn2(line, c)) = <<"dup", 2 * c - 1, 0>>
           /\ Tail(CallsIn2(line, c)) = CallsOut(line, c)
           /\ c > 1 => /\ Head(CallsIn(line, c)) = <<"close", 0>>
                       /\ Tail(CallsIn(line, c)) = CallsIn2(line, c)
           /\ \A s \in Seq(AnyCall), fd \in Int :
                 /\ Head(Redirect4(s)) = <<"close", Got>> /\ Tail(Redirect4(s)) = s
                 /\ Head(Redirect3(fd, s)) = <<"dup", Got, fd>>
                 /\ Tail(Redirect3(fd, s)) = Redirect4(s)
                 /\ Head(Redirect2(fd, s)) = <<"close", fd>>
                 /\ Tail(Redirect2(fd, s)) = Redirect3(fd, s)
           /\ line[c].output # None =>
                 /\ Head(CallsTo(line, c))
                       = <<"open", line[c].output, {"CREATE", "WRONLY"}>>
                 /\ Tail(CallsTo(line, c)) = Redirect2(1, CallsIn(line, c))
           /\ line[c].input # None =>
                 /\ Head(CallsFrom(line, c)) = <<"open", line[c].input, {}>>
                 /\ Tail(CallsFrom(line, c)) = Redirect2(0, CallsTo(line, c))
<1>1. /\ PipeEnds(line) \in Nat /\ c \in Int /\ 2 * c + 2 \in Int /\ 2 * c - 1 \in Int
      /\ 0 \in Int /\ 1 \in Int /\ Got \in Int
      /\ line[c].input \in FileNames \cup {None}
      /\ line[c].output \in FileNames \cup {None}
  BY LineFacts DEF Got
<1>2. /\ \A fd \in Int : <<"close", fd>> \in AnyCall
      /\ \A fd, to \in Int : <<"dup", fd, to>> \in AnyCall
      /\ \A name \in FileNames, flags \in SUBSET {"CREATE", "WRONLY"} :
             <<"open", name, flags>> \in AnyCall
  BY DEF AnyCall
<1>3. \A x \in AnyCall, s \in Seq(AnyCall) :
          Head(<<x>> \o s) = x /\ Tail(<<x>> \o s) = s
  BY ConsFacts
<1>4. /\ Head(CallsOut2(line, c)) = <<"dup", 2 * c + 2, 1>>
      /\ Tail(CallsOut2(line, c)) = ClosesFrom(1, PipeEnds(line))
  BY <1>1, <1>2, <1>3, CallsTyped DEF CallsOut2
<1>5. c < Len(line) => /\ Head(CallsOut(line, c)) = <<"close", 1>>
                       /\ Tail(CallsOut(line, c)) = CallsOut2(line, c)
  BY <1>1, <1>2, <1>3, CallsTyped DEF CallsOut
<1>6. /\ Head(CallsIn2(line, c)) = <<"dup", 2 * c - 1, 0>>
      /\ Tail(CallsIn2(line, c)) = CallsOut(line, c)
  BY <1>1, <1>2, <1>3, CallsTyped DEF CallsIn2
<1>7. c > 1 => /\ Head(CallsIn(line, c)) = <<"close", 0>>
               /\ Tail(CallsIn(line, c)) = CallsIn2(line, c)
  BY <1>1, <1>2, <1>3, CallsTyped DEF CallsIn
<1>8. ASSUME NEW s \in Seq(AnyCall), NEW fd \in Int
      PROVE  /\ Head(Redirect4(s)) = <<"close", Got>> /\ Tail(Redirect4(s)) = s
             /\ Head(Redirect3(fd, s)) = <<"dup", Got, fd>>
             /\ Tail(Redirect3(fd, s)) = Redirect4(s)
             /\ Head(Redirect2(fd, s)) = <<"close", fd>>
             /\ Tail(Redirect2(fd, s)) = Redirect3(fd, s)
  <2>1. Redirect4(s) \in Seq(AnyCall) /\ Redirect3(fd, s) \in Seq(AnyCall)
    BY CallsTyped
  <2>2. Head(Redirect4(s)) = <<"close", Got>> /\ Tail(Redirect4(s)) = s
    BY <1>1, <1>2, <1>3 DEF Redirect4
  <2>3. /\ Head(Redirect3(fd, s)) = <<"dup", Got, fd>>
        /\ Tail(Redirect3(fd, s)) = Redirect4(s)
    BY <1>1, <1>2, <1>3, <2>1 DEF Redirect3
  <2>4. /\ Head(Redirect2(fd, s)) = <<"close", fd>>
        /\ Tail(Redirect2(fd, s)) = Redirect3(fd, s)
    BY <1>1, <1>2, <1>3, <2>1 DEF Redirect2
  <2> QED
    BY <2>2, <2>3, <2>4
<1>9. CallsIn(line, c) \in Seq(AnyCall) /\ CallsTo(line, c) \in Seq(AnyCall)
  BY CallsTyped
<1>10. /\ Redirect2(1, CallsIn(line, c)) \in Seq(AnyCall)
       /\ Redirect2(0, CallsTo(line, c)) \in Seq(AnyCall)
  BY <1>1, <1>9, CallsTyped
<1>11. line[c].output # None =>
          /\ Head(CallsTo(line, c))
                = <<"open", line[c].output, {"CREATE", "WRONLY"}>>
          /\ Tail(CallsTo(line, c)) = Redirect2(1, CallsIn(line, c))
  BY <1>1, <1>2, <1>3, <1>10 DEF CallsTo, Redirect1
<1>12. line[c].input # None =>
          /\ Head(CallsFrom(line, c)) = <<"open", line[c].input, {}>>
          /\ Tail(CallsFrom(line, c)) = Redirect2(0, CallsTo(line, c))
  BY <1>1, <1>2, <1>3, <1>10 DEF CallsFrom, Redirect1
<1> QED
  BY <1>4, <1>5, <1>6, <1>7, <1>8, <1>11, <1>12

\* The calls of a redirection, one after the other.
LEMMA RedirectHeads ==
    ASSUME NEW line, GoodLine(line), NEW c \in 1..Len(line), NEW s \in Seq(AnyCall),
           NEW fd \in Int
    PROVE  /\ Head(Redirect4(s)) = <<"close", Got>> /\ Tail(Redirect4(s)) = s
           /\ Head(Redirect3(fd, s)) = <<"dup", Got, fd>>
           /\ Tail(Redirect3(fd, s)) = Redirect4(s)
           /\ Head(Redirect2(fd, s)) = <<"close", fd>>
           /\ Tail(Redirect2(fd, s)) = Redirect3(fd, s)
  BY StageHeads

\* The files that are in a table before and after a call are the same.
LEMMA FilesAfter ==
    ASSUME NEW o, NEW r, OsInv(o), NEW p \in Procs,
           NEW in, NEW dst, NEW a \in Nat \ {0}, NEW b \in Nat, NEW fd \in Int, NEW file,
           TableIs(o.fd_table[p], in, dst, a, b, fd, file),
           NEW in2, NEW out2, NEW a2 \in Nat \ {0}, NEW fd2 \in Int, NEW file2,
           Makes(o, r, p, in2, out2, a2, b, fd2, file2)
    PROVE  \A f : /\ f \in {in, dst} \/ (fd >= 3 /\ f = file)
                  /\ f \in {in2, out2} \/ (fd2 >= 3 /\ f = file2)
                  => SameFile(o, r, f)
<1>1. OsInv(r) /\ KeepsOpen(o, r) /\ TableIs(r.fd_table[p], in2, out2, a2, b, fd2, file2)
  BY DEF Makes
<1>2. /\ in \in Entries(o) /\ dst \in Entries(o)
      /\ fd >= 3 => file \in Entries(o)
  BY TableEntries
<1>3. /\ in2 \in Entries(r) /\ out2 \in Entries(r)
      /\ fd2 >= 3 => file2 \in Entries(r)
  BY <1>1, TableEntries
<1> QED
  BY <1>1, <1>2, <1>3, FilesKept

\* A stage without calls is the next one.
LEMMA NextStage ==
    ASSUME NEW o, NEW ch, NEW line, GoodLine(line), NEW c \in 1..Len(line)
    PROVE  /\ StageFrom(o, ch, line, c) /\ line[c].input = None
                 => StageTo(o, ch, line, c)
           /\ StageTo(o, ch, line, c) /\ line[c].output = None
                 => StageIn(o, ch, line, c)
           /\ StageIn(o, ch, line, c) /\ ~(c > 1) => StageOut(o, ch, line, c)
           /\ StageOut(o, ch, line, c) /\ ~(c < Len(line))
                 => StageClose(o, ch, line, c)
<1>1. Stdin \in AnyFile /\ Stdout \in AnyFile
  BY DEF AnyFile
<1>2. StageFrom(o, ch, line, c) /\ line[c].input = None => StageTo(o, ch, line, c)
  BY <1>1 DEF StageFrom, StageTo, CallsFrom, Redirect1, InputAt
<1>3. StageTo(o, ch, line, c) /\ line[c].output = None => StageIn(o, ch, line, c)
  BY <1>1 DEF StageTo, StageIn, CallsTo, Redirect1, OutputAt
<1>4. StageIn(o, ch, line, c) /\ ~(c > 1) => StageOut(o, ch, line, c)
  BY DEF StageIn, StageOut, CallsIn, InputOf
<1>5. 1 \in 1..(PipeEnds(line) + 1)
  BY LineFacts
<1>6. StageOut(o, ch, line, c) /\ ~(c < Len(line)) => StageClose(o, ch, line, c)
  BY <1>5 DEF StageOut, StageClose, CallsOut, OutputOf, HasAll
<1> QED
  BY <1>2, <1>3, <1>4, <1>6

\* What a call may do: the child is at the next stage, or it fails and its
\* message goes to where its output is.
StepsTo(o, ch, r, ch2, line, c) ==
    /\ OsInv(r) /\ KeepsOpen(o, r)
    /\ \A q \in Procs \ {c} : r.fd_table[q] = o.fd_table[q]
    /\ DOMAIN ch2 = DOMAIN ch
    /\ \/ ch2.status = ch.status /\ SetsUp(r, ch2, line, c)
       \/ /\ Fails(ch, ch2)
          /\ 2 \in DOMAIN r.fd_table[c] /\ r.fd_table[c][2] \in Outputs

\* Numbers and files that every stage needs.
LEMMA StageFacts ==
    ASSUME NEW line, GoodLine(line), NEW c \in 1..Len(line)
    PROVE  /\ PipeEnds(line) \in 0..(2 * MaxPipes) /\ PipeEnds(line) \in Nat
           /\ PipeEnds(line) + 3 \in Nat /\ PipeEnds(line) + 3 \in Int
           /\ PipeEnds(line) + 3 >= 3 /\ PipeEnds(line) + 3 # Got
           /\ PipeEnds(line) + 3 \in {Got, PipeEnds(line) + 3}
           /\ Got \in {Got, PipeEnds(line) + 3} /\ Got \in Int /\ ~(Got >= 3)
           /\ c \in Procs /\ c \in Children /\ 1 \in Nat \ {0}
           /\ None \notin AnyFile /\ Stdin \in AnyFile /\ Stdout \in AnyFile
           /\ \A k \in 1..MaxOpen : OSInode(k) \in AnyFile
  BY LineFacts, OpenFilesAssumption DEF Procs, Got, AnyFile

\* open of the input, which fails if there is no such file.
LEMMA OpenInput ==
    ASSUME NEW o, OsInv(o), NEW line, GoodLine(line), NEW c \in 1..Len(line), NEW ch,
           NEW r, NEW ch2, CallStep(o, ch, r, ch2, c, Head(ch.calls)),
           ch.app = line[c].app, ch.arg = line[c].arg,
           StageFrom(o, ch, line, c), line[c].input # None
    PROVE  StepsTo(o, ch, r, ch2, line, c)
<1> DEFINE all == PipeEnds(line)
           name == line[c].input
<1>1. /\ all \in 0..(2 * MaxPipes) /\ all \in Nat /\ c \in Procs /\ 1 \in Nat \ {0}
      /\ None \notin AnyFile /\ Stdin \in AnyFile /\ Stdout \in AnyFile
      /\ \A k \in 1..MaxOpen : OSInode(k) \in AnyFile
  BY StageFacts
<1>2. name \in FileNames
  BY LineFacts
<1>3. /\ Head(ch.calls) = <<"open", name, {}>>
      /\ Tail(ch.calls) = Redirect2(0, CallsTo(line, c))
      /\ TableIs(o.fd_table[c], Stdin, Stdout, 1, all, Got, None)
  BY StageHeads DEF StageFrom, HasAll
<1> HIDE DEF all, name
<1>4. OpenCall(o, ch, r, ch2, c, name, {})
  BY <1>3, CallIs
<1>5. CASE CanOpen(o, name, {})
  <2>1. /\ CanPlace(o) /\ r = sys_open(o, c, name, {})
        /\ Stays(ch, ch2, Tail(ch.calls), alloc_fd(o.fd_table[c]))
    BY <1>4, <1>5 DEF OpenCall
  <2>2. /\ alloc_fd(o.fd_table[c]) = all + 3
        /\ \E k \in 1..MaxOpen :
              /\ Makes(o, r, c, Stdin, Stdout, 1, all, all + 3, OSInode(k))
              /\ r.open[k] # None /\ r.open[k].name = name
              /\ r.open[k].readable = readable({})
    <3> DEFINE in == Stdin
               dst == Stdout
               flags == {}
    <3>1. /\ in # None /\ dst # None /\ CanPlace(o) /\ CanOpen(o, name, flags)
          /\ r = sys_open(o, c, name, flags)
          /\ TableIs(o.fd_table[c], in, dst, 1, all, Got, None)
      BY <1>1, <1>3, <1>5, <2>1
    <3> HIDE DEF in, dst, flags
    <3>2. /\ alloc_fd(o.fd_table[c]) = all + 3
          /\ Opened(o, r, c, in, dst, all, all + 3, name, flags)
      BY <1>1, <1>2, <3>1, OpenMakes
    <3> QED
      BY <3>2 DEF in, dst, flags, Opened
  <2>3. PICK k \in 1..MaxOpen :
              /\ Makes(o, r, c, Stdin, Stdout, 1, all, all + 3, OSInode(k))
              /\ r.open[k] # None /\ r.open[k].name = name
              /\ r.open[k].readable = readable({})
    BY <2>2
  <2>4. OpensFor(r, OSInode(k), name)
    BY <2>3 DEF OpensFor, readable
  <2>5. ch2.fd = all + 3 /\ ch2.calls = Redirect2(0, CallsTo(line, c))
    BY <1>3, <2>1, <2>2 DEF Stays
  <2>6. TableIs(r.fd_table[c], Stdin, Stdout, 1, all, ch2.fd, OSInode(k))
    BY <2>3, <2>5 DEF Makes
  <2>7. StageFrom2(r, ch2, line, c)
    BY <1>1, <2>4, <2>5, <2>6 DEF StageFrom2, Input, HasAll, all, name
  <2>8. SetsUp(r, ch2, line, c)
    BY <2>1, <2>7 DEF SetsUp, Stays
  <2> QED
    BY <2>1, <2>3, <2>8 DEF StepsTo, Makes, Stays
<1>6. CASE ~CanOpen(o, name, {})
  <2>1. r = o /\ Fails(ch, ch2)
    BY <1>4, <1>6 DEF OpenCall, sys_open
  <2>2. 2 \in DOMAIN o.fd_table[c] /\ o.fd_table[c][2] = Stdout
    BY <1>1, <1>3, LenProperties DEF TableIs, AtIndex
  <2>3. KeepsOpen(o, o)
    BY SameOpen
  <2> QED
    BY <2>1, <2>2, <2>3 DEF StepsTo, Fails, Outputs
<1> QED
  BY <1>5, <1>6

\* It becomes descriptor 0.
LEMMA MoveInput ==
    ASSUME NEW o, OsInv(o), NEW line, GoodLine(line), NEW c \in 1..Len(line), NEW ch,
           NEW r, NEW ch2, CallStep(o, ch, r, ch2, c, Head(ch.calls)),
           ch.app = line[c].app, ch.arg = line[c].arg,
           StageFrom2(o, ch, line, c) \/ StageFrom3(o, ch, line, c)
               \/ StageFrom4(o, ch, line, c)
    PROVE  StepsTo(o, ch, r, ch2, line, c)
<1> DEFINE all == PipeEnds(line)
           fd == all + 3
           rest == CallsTo(line, c)
<1>1. /\ all \in 0..(2 * MaxPipes) /\ all \in Nat /\ c \in Procs /\ 1 \in Nat \ {0}
      /\ None \notin AnyFile /\ Stdin \in AnyFile /\ Stdout \in AnyFile
      /\ fd \in {Got, all + 3} /\ fd \in Nat /\ fd \in Int /\ fd >= 3 /\ fd # Got
      /\ Got \in Int /\ fd = all + 3 /\ Got # 0 /\ Got # 1
      /\ Stdin # None /\ Stdout # None
  BY StageFacts DEF Got
<1>2. /\ Head(Redirect4(rest)) = <<"close", Got>> /\ Tail(Redirect4(rest)) = rest
      /\ Head(Redirect3(0, rest)) = <<"dup", Got, 0>>
      /\ Tail(Redirect3(0, rest)) = Redirect4(rest)
      /\ Head(Redirect2(0, rest)) = <<"close", 0>>
      /\ Tail(Redirect2(0, rest)) = Redirect3(0, rest)
  <2> DEFINE d == 0
  <2>1. d \in Int /\ rest \in Seq(AnyCall)
    BY CallsTyped
  <2> HIDE DEF d, rest
  <2>2. /\ Head(Redirect4(rest)) = <<"close", Got>> /\ Tail(Redirect4(rest)) = rest
        /\ Head(Redirect3(d, rest)) = <<"dup", Got, d>>
        /\ Tail(Redirect3(d, rest)) = Redirect4(rest)
        /\ Head(Redirect2(d, rest)) = <<"close", d>>
        /\ Tail(Redirect2(d, rest)) = Redirect3(d, rest)
    BY <2>1, RedirectHeads
  <2> QED
    BY <2>2 DEF d
<1> HIDE DEF all, fd, rest
<1>3. CASE StageFrom2(o, ch, line, c)
  <2>1. PICK file \in AnyFile :
           /\ Input(o, ch, line, c, file) /\ ch.calls = Redirect2(0, rest)
           /\ TableIs(o.fd_table[c], Stdin, Stdout, 1, all, fd, file) /\ ch.fd = fd
    BY <1>3 DEF StageFrom2, Input, HasAll, all, rest, fd
  <2>2. CloseCall(o, ch, r, ch2, c, 0)
    BY <1>2, <2>1, CallIs
  <2>3. r = sys_close(o, c, 0) /\ Stays(ch, ch2, Redirect3(0, rest), fd)
    BY <1>1, <1>2, <2>1, <2>2 DEF CloseCall, FdOf
  <2>4. Makes(o, r, c, None, Stdout, 1, all, fd, file)
    BY <1>1, <2>1, <2>3, CloseMakes
  <2>5. SameFile(o, r, file)
    BY <1>1, <2>1, <2>4, FilesAfter
  <2>6. StageFrom3(r, ch2, line, c)
    BY <2>1, <2>3, <2>4, <2>5
       DEF StageFrom3, Input, HasAll, SameFile, Makes, Stays, all, rest, fd
  <2>7. SetsUp(r, ch2, line, c)
    BY <2>3, <2>6 DEF SetsUp, Stays
  <2> QED
    BY <2>3, <2>4, <2>7 DEF StepsTo, Makes, Stays
<1>4. CASE StageFrom3(o, ch, line, c)
  <2>1. PICK file \in AnyFile :
           /\ Input(o, ch, line, c, file) /\ ch.calls = Redirect3(0, rest)
           /\ TableIs(o.fd_table[c], None, Stdout, 1, all, fd, file) /\ ch.fd = fd
    BY <1>4 DEF StageFrom3, Input, HasAll, all, rest, fd
  <2>2. DupCall(o, ch, r, ch2, c, Got, 0)
    BY <1>2, <2>1, CallIs
  <2>3. r = sys_dup(o, c, fd)
    BY <2>1, <2>2 DEF DupCall, FdOf
  <2>4. FileAt(o, c, fd) = file
    <3> DEFINE t == o.fd_table[c]
    <3>1. /\ DOMAIN t = 1..Len(t) /\ Len(t) \in Nat /\ Len(t) > fd
          /\ \A h \in 1..Len(t) : t[h] = AtIndex(h, None, Stdout, 1, all, fd, file)
      BY <2>1, LenProperties DEF TableIs
    <3> HIDE DEF t
    <3>2. fd + 1 \in 1..Len(t)
      BY <1>1, <3>1
    <3>3. t[fd + 1] = AtIndex(fd + 1, None, Stdout, 1, all, fd, file)
      BY <3>1, <3>2
    <3>4. AtIndex(fd + 1, None, Stdout, 1, all, fd, file) = file
      BY <1>1 DEF AtIndex
    <3> QED
      BY <3>1, <3>2, <3>3, <3>4 DEF FileAt, t
  <2>6. alloc_fd(o.fd_table[c]) = 0 /\ Makes(o, r, c, file, Stdout, 1, all, fd, file)
    BY <1>1, <2>1, <2>3, <2>4, DupMakes0
  <2>7. Stays(ch, ch2, Redirect4(rest), fd)
    BY <1>2, <2>1, <2>2, <2>6 DEF DupCall
  <2>8. SameFile(o, r, file)
    BY <1>1, <2>1, <2>6, FilesAfter
  <2>9. StageFrom4(r, ch2, line, c)
    BY <2>1, <2>6, <2>7, <2>8
       DEF StageFrom4, Input, HasAll, SameFile, Makes, Stays, all, rest, fd
  <2>10. SetsUp(r, ch2, line, c)
    BY <2>7, <2>9 DEF SetsUp, Stays
  <2> QED
    BY <2>6, <2>7, <2>10 DEF StepsTo, Makes, Stays
<1>5. CASE StageFrom4(o, ch, line, c)
  <2>1. PICK file \in AnyFile :
           /\ Input(o, ch, line, c, file) /\ ch.calls = Redirect4(rest)
           /\ TableIs(o.fd_table[c], file, Stdout, 1, all, fd, file) /\ ch.fd = fd
    BY <1>5 DEF StageFrom4, Input, HasAll, all, rest, fd
  <2>2. CloseCall(o, ch, r, ch2, c, Got)
    BY <1>2, <2>1, CallIs
  <2>3. r = sys_close(o, c, fd) /\ Stays(ch, ch2, rest, fd)
    BY <1>2, <2>1, <2>2 DEF CloseCall, FdOf
  <2>4. Makes(o, r, c, file, Stdout, 1, all, Got, None)
    BY <1>1, <2>1, <2>3, CloseMakes
  <2>5. SameFile(o, r, file)
    BY <1>1, <2>1, <2>4, FilesAfter
  <2>6. InputAt(r, file, line[c])
    BY <2>1, <2>5 DEF Input, SameFile, InputAt
  <2>7. StageTo(r, ch2, line, c)
    BY <2>3, <2>4, <2>6 DEF StageTo, HasAll, Makes, Stays, all, rest
  <2>8. SetsUp(r, ch2, line, c)
    BY <2>3, <2>7 DEF SetsUp, Stays
  <2> QED
    BY <2>3, <2>4, <2>8 DEF StepsTo, Makes, Stays
<1> QED
  BY <1>3, <1>4, <1>5

\* open of the output, which creates the file if there is none.
LEMMA OpenOutput ==
    ASSUME NEW o, OsInv(o), NEW line, GoodLine(line), NEW c \in 1..Len(line), NEW ch,
           NEW r, NEW ch2, CallStep(o, ch, r, ch2, c, Head(ch.calls)),
           ch.app = line[c].app, ch.arg = line[c].arg,
           StageTo(o, ch, line, c), line[c].output # None
    PROVE  StepsTo(o, ch, r, ch2, line, c)
<1> DEFINE name == line[c].output
           flags == {"CREATE", "WRONLY"}
<1> DEFINE all == PipeEnds(line)
           fd == all + 3
           rest == CallsIn(line, c)
<1>1. /\ all \in 0..(2 * MaxPipes) /\ all \in Nat /\ c \in Procs /\ 1 \in Nat \ {0}
      /\ None \notin AnyFile /\ Stdout \in AnyFile /\ Stdout # None
      /\ fd \in {Got, all + 3} /\ fd \in Nat /\ fd \in Int /\ fd >= 3 /\ fd # Got
      /\ Got \in Int /\ fd = all + 3 /\ Got # 0 /\ Got # 1
      /\ \A k \in 1..MaxOpen : OSInode(k) \in AnyFile
  BY StageFacts DEF Got
<1>2. name \in FileNames
  BY LineFacts
<1>3. /\ Head(CallsTo(line, c)) = <<"open", name, flags>>
      /\ Tail(CallsTo(line, c)) = Redirect2(1, rest)
  BY StageHeads
<1> HIDE DEF all, name, fd, rest
<1>4. PICK in \in AnyFile :
         /\ ch.calls = CallsTo(line, c) /\ InputAt(o, in, line[c])
         /\ TableIs(o.fd_table[c], in, Stdout, 1, all, Got, None)
  BY DEF StageTo, HasAll, all
<1>5. CanOpen(o, name, flags) /\ writable(flags)
  BY DEF CanOpen, writable
<1> HIDE DEF flags
<1>6. OpenCall(o, ch, r, ch2, c, name, flags)
  BY <1>3, <1>4, CallIs
<1>7. /\ CanPlace(o) /\ r = sys_open(o, c, name, flags)
      /\ Stays(ch, ch2, Tail(ch.calls), alloc_fd(o.fd_table[c]))
  BY <1>5, <1>6 DEF OpenCall
<1>8. /\ alloc_fd(o.fd_table[c]) = all + 3
      /\ Opened(o, r, c, in, Stdout, all, all + 3, name, flags)
  <2> DEFINE dst == Stdout
  <2>1. dst # None /\ in # None /\ TableIs(o.fd_table[c], in, dst, 1, all, Got, None)
    BY <1>1, <1>4
  <2> HIDE DEF dst
  <2>2. /\ alloc_fd(o.fd_table[c]) = all + 3
        /\ Opened(o, r, c, in, dst, all, all + 3, name, flags)
    BY <1>1, <1>2, <1>5, <1>7, <2>1, OpenMakes
  <2> QED
    BY <2>2 DEF dst
<1>9. PICK k \in 1..MaxOpen :
         /\ Makes(o, r, c, in, Stdout, 1, all, fd, OSInode(k))
         /\ r.open[k] # None /\ r.open[k].name = name
         /\ r.open[k].writable = writable(flags)
  BY <1>8 DEF Opened, fd
<1>10. OpensTo(r, OSInode(k), name)
  BY <1>5, <1>9 DEF OpensTo
<1>11. ch2.fd = fd /\ ch2.calls = Redirect2(1, rest)
  BY <1>3, <1>4, <1>7, <1>8 DEF Stays, fd
<1>12. SameFile(o, r, in)
  BY <1>1, <1>4, <1>9, FilesAfter
<1>13. TableIs(r.fd_table[c], in, Stdout, 1, all, ch2.fd, OSInode(k))
  BY <1>9, <1>11 DEF Makes
<1>14. Output(r, ch2, line, c, in, OSInode(k))
  BY <1>4, <1>10, <1>11, <1>12 DEF Output, SameFile, fd, all, name
<1>15. StageTo2(r, ch2, line, c)
  BY <1>1, <1>11, <1>13, <1>14 DEF StageTo2, HasAll, all, rest
<1>16. SetsUp(r, ch2, line, c)
  BY <1>7, <1>15 DEF SetsUp, Stays
<1> QED
  BY <1>7, <1>9, <1>16 DEF StepsTo, Makes, Stays

\* It becomes descriptor 1.
LEMMA MoveOutput ==
    ASSUME NEW o, OsInv(o), NEW line, GoodLine(line), NEW c \in 1..Len(line), NEW ch,
           NEW r, NEW ch2, CallStep(o, ch, r, ch2, c, Head(ch.calls)),
           ch.app = line[c].app, ch.arg = line[c].arg,
           StageTo2(o, ch, line, c) \/ StageTo3(o, ch, line, c)
               \/ StageTo4(o, ch, line, c)
    PROVE  StepsTo(o, ch, r, ch2, line, c)
<1> DEFINE all == PipeEnds(line)
           fd == all + 3
           rest == CallsIn(line, c)
<1>1. /\ all \in 0..(2 * MaxPipes) /\ all \in Nat /\ c \in Procs /\ 1 \in Nat \ {0}
      /\ None \notin AnyFile /\ Stdout \in AnyFile /\ Stdout # None
      /\ fd \in {Got, all + 3} /\ fd \in Nat /\ fd \in Int /\ fd >= 3 /\ fd # Got
      /\ Got \in Int /\ fd = all + 3 /\ Got # 0 /\ Got # 1
      /\ \A k \in 1..MaxOpen : OSInode(k) \in AnyFile
  BY StageFacts DEF Got
<1>2. /\ Head(Redirect4(rest)) = <<"close", Got>> /\ Tail(Redirect4(rest)) = rest
      /\ Head(Redirect3(1, rest)) = <<"dup", Got, 1>>
      /\ Tail(Redirect3(1, rest)) = Redirect4(rest)
      /\ Head(Redirect2(1, rest)) = <<"close", 1>>
      /\ Tail(Redirect2(1, rest)) = Redirect3(1, rest)
  <2> DEFINE d == 1
  <2>1. d \in Int /\ rest \in Seq(AnyCall)
    BY CallsTyped
  <2> HIDE DEF d, rest
  <2>2. /\ Head(Redirect4(rest)) = <<"close", Got>> /\ Tail(Redirect4(rest)) = rest
        /\ Head(Redirect3(d, rest)) = <<"dup", Got, d>>
        /\ Tail(Redirect3(d, rest)) = Redirect4(rest)
        /\ Head(Redirect2(d, rest)) = <<"close", d>>
        /\ Tail(Redirect2(d, rest)) = Redirect3(d, rest)
    BY <2>1, RedirectHeads
  <2> QED
    BY <2>2 DEF d
<1> HIDE DEF all, fd, rest
<1>3. CASE StageTo2(o, ch, line, c)
  <2>1. PICK in \in AnyFile, file \in AnyFile :
           /\ Output(o, ch, line, c, in, file) /\ ch.calls = Redirect2(1, rest)
           /\ TableIs(o.fd_table[c], in, Stdout, 1, all, fd, file) /\ ch.fd = fd
    BY <1>3 DEF StageTo2, Output, HasAll, all, rest, fd
  <2>2. CloseCall(o, ch, r, ch2, c, 1)
    BY <1>2, <2>1, CallIs
  <2>3. r = sys_close(o, c, 1) /\ Stays(ch, ch2, Redirect3(1, rest), fd)
    BY <1>1, <1>2, <2>1, <2>2 DEF CloseCall, FdOf
  <2>4. Makes(o, r, c, in, None, 1, all, fd, file)
    BY <1>1, <2>1, <2>3, CloseMakes
  <2>5. SameFile(o, r, file) /\ SameFile(o, r, in)
    BY <1>1, <2>1, <2>4, FilesAfter
  <2>6. StageTo3(r, ch2, line, c)
    BY <2>1, <2>3, <2>4, <2>5
       DEF StageTo3, Output, HasAll, SameFile, Makes, Stays, all, rest, fd
  <2>7. SetsUp(r, ch2, line, c)
    BY <2>3, <2>6 DEF SetsUp, Stays
  <2> QED
    BY <2>3, <2>4, <2>7 DEF StepsTo, Makes, Stays
<1>4. CASE StageTo3(o, ch, line, c)
  <2>1. PICK in \in AnyFile, file \in AnyFile :
           /\ Output(o, ch, line, c, in, file) /\ ch.calls = Redirect3(1, rest)
           /\ TableIs(o.fd_table[c], in, None, 1, all, fd, file) /\ ch.fd = fd
    BY <1>4 DEF StageTo3, Output, HasAll, all, rest, fd
  <2>2. DupCall(o, ch, r, ch2, c, Got, 1)
    BY <1>2, <2>1, CallIs
  <2>3. r = sys_dup(o, c, fd)
    BY <2>1, <2>2 DEF DupCall, FdOf
  <2>4. FileAt(o, c, fd) = file
    BY <1>1, <2>1, LenProperties DEF TableIs, AtIndex, FileAt
  <2>5. alloc_fd(o.fd_table[c]) = 1 /\ Makes(o, r, c, in, file, 1, all, fd, file)
    BY <1>1, <2>1, <2>3, <2>4, DupMakes1
  <2>6. Stays(ch, ch2, Redirect4(rest), fd)
    BY <1>2, <2>1, <2>2, <2>5 DEF DupCall
  <2>7. SameFile(o, r, file) /\ SameFile(o, r, in)
    BY <1>1, <2>1, <2>5, FilesAfter
  <2>8. StageTo4(r, ch2, line, c)
    BY <2>1, <2>5, <2>6, <2>7
       DEF StageTo4, Output, HasAll, SameFile, Makes, Stays, all, rest, fd
  <2>9. SetsUp(r, ch2, line, c)
    BY <2>6, <2>8 DEF SetsUp, Stays
  <2> QED
    BY <2>5, <2>6, <2>9 DEF StepsTo, Makes, Stays
<1>5. CASE StageTo4(o, ch, line, c)
  <2>1. PICK in \in AnyFile, file \in AnyFile :
           /\ Output(o, ch, line, c, in, file) /\ ch.calls = Redirect4(rest)
           /\ TableIs(o.fd_table[c], in, file, 1, all, fd, file) /\ ch.fd = fd
    BY <1>5 DEF StageTo4, Output, HasAll, all, rest, fd
  <2>2. CloseCall(o, ch, r, ch2, c, Got)
    BY <1>2, <2>1, CallIs
  <2>3. r = sys_close(o, c, fd) /\ Stays(ch, ch2, rest, fd)
    BY <1>2, <2>1, <2>2 DEF CloseCall, FdOf
  <2>4. Makes(o, r, c, in, file, 1, all, Got, None)
    BY <1>1, <2>1, <2>3, CloseMakes
  <2>5. SameFile(o, r, file) /\ SameFile(o, r, in)
    BY <1>1, <2>1, <2>4, FilesAfter
  <2>6. InputAt(r, in, line[c]) /\ OutputAt(r, file, line[c])
    BY <2>1, <2>5 DEF Output, SameFile, OutputAt
  <2>7. StageIn(r, ch2, line, c)
    BY <2>3, <2>4, <2>6 DEF StageIn, HasAll, Makes, Stays, all, rest
  <2>8. SetsUp(r, ch2, line, c)
    BY <2>3, <2>7 DEF SetsUp, Stays
  <2> QED
    BY <2>3, <2>4, <2>8 DEF StepsTo, Makes, Stays
<1> QED
  BY <1>3, <1>4, <1>5

\* The pipe before it becomes descriptor 0.
LEMMA WireInput ==
    ASSUME NEW o, OsInv(o), NEW line, GoodLine(line), NEW c \in 1..Len(line), NEW ch,
           NEW r, NEW ch2, CallStep(o, ch, r, ch2, c, Head(ch.calls)),
           ch.app = line[c].app, ch.arg = line[c].arg,
           StageIn(o, ch, line, c) \/ StageIn2(o, ch, line, c), c > 1
    PROVE  StepsTo(o, ch, r, ch2, line, c)
<1> DEFINE all == PipeEnds(line)
<1>1. /\ all \in 0..(2 * MaxPipes) /\ all \in Nat /\ c \in Procs /\ 1 \in Nat \ {0}
      /\ None \notin AnyFile /\ c \in Nat
      /\ Got \in Int /\ Got \in {Got, all + 3} /\ Got # 0 /\ Got # 1 /\ Got < 0
  BY StageFacts DEF Got
<1>2. /\ Head(CallsIn(line, c)) = <<"close", 0>>
      /\ Tail(CallsIn(line, c)) = CallsIn2(line, c)
      /\ Head(CallsIn2(line, c)) = <<"dup", 2 * c - 1, 0>>
      /\ Tail(CallsIn2(line, c)) = CallsOut(line, c)
  BY StageHeads
<1> DEFINE end == ReadEnd(c - 1)
           x == 2 * c - 1
<1>3. /\ end \in AnyFile /\ PipeEnd(2 * c - 3) = end
      /\ 2 * c - 3 \in 1..all /\ x \in Nat /\ x # Got /\ x + 1 = (2 * c - 3) + 3
  <2>1. Len(line) \in 1..(MaxPipes + 1) /\ MaxPipes \in Nat /\ c <= Len(line)
    BY LineFacts, OpenFilesAssumption
  <2>2. all = 2 * (Len(line) - 1)
    BY DEF PipeEnds
  <2> HIDE DEF all
  <2>3. /\ 2 * c - 3 \in 1..all /\ x \in Nat /\ x # Got /\ x + 1 = (2 * c - 3) + 3
        /\ c - 1 \in 1..MaxPipes /\ (2 * c - 3) % 2 = 1
        /\ ((2 * c - 3) + 1) \div 2 = c - 1
    BY <1>1, <2>1, <2>2
  <2> QED
    BY <2>3 DEF AnyFile, PipeEnd
<1> HIDE DEF all, end
<1>4. CASE StageIn(o, ch, line, c)
  <2>1. PICK in \in AnyFile, dst \in AnyFile :
           /\ ch.calls = CallsIn(line, c) /\ OutputAt(o, dst, line[c])
           /\ TableIs(o.fd_table[c], in, dst, 1, all, Got, None)
    BY <1>4 DEF StageIn, HasAll, all
  <2>2. CloseCall(o, ch, r, ch2, c, 0)
    BY <1>2, <2>1, CallIs
  <2>3. r = sys_close(o, c, 0) /\ Stays(ch, ch2, CallsIn2(line, c), ch.fd)
    BY <1>1, <1>2, <2>1, <2>2 DEF CloseCall, FdOf
  <2>4. Makes(o, r, c, None, dst, 1, all, Got, None)
    BY <1>1, <2>1, <2>3, CloseMakes
  <2>5. SameFile(o, r, dst)
    BY <1>1, <2>1, <2>4, FilesAfter
  <2>6. StageIn2(r, ch2, line, c)
    BY <2>1, <2>3, <2>4, <2>5
       DEF StageIn2, HasAll, SameFile, Makes, Stays, all
  <2>7. SetsUp(r, ch2, line, c)
    BY <2>3, <2>6 DEF SetsUp, Stays
  <2> QED
    BY <2>3, <2>4, <2>7 DEF StepsTo, Makes, Stays
<1>5. CASE StageIn2(o, ch, line, c)
  <2>1. PICK dst \in AnyFile :
           /\ ch.calls = CallsIn2(line, c) /\ OutputAt(o, dst, line[c])
           /\ TableIs(o.fd_table[c], None, dst, 1, all, Got, None)
    BY <1>5 DEF StageIn2, HasAll, all
  <2>2. DupCall(o, ch, r, ch2, c, x, 0)
    BY <1>2, <2>1, CallIs
  <2>3. r = sys_dup(o, c, x)
    BY <1>3, <2>2 DEF DupCall, FdOf
  <2>4. FileAt(o, c, x) = end
    <3>1. /\ x + 1 \in 1..Len(o.fd_table[c]) /\ DOMAIN o.fd_table[c] = 1..Len(o.fd_table[c])
          /\ o.fd_table[c][x + 1] = AtIndex(x + 1, None, dst, 1, all, Got, None)
      BY <1>1, <1>3, <2>1, LenProperties DEF TableIs
    <3>2. AtIndex(x + 1, None, dst, 1, all, Got, None) = PipeEnd(2 * c - 3)
      BY <1>1, <1>3 DEF AtIndex, Got
    <3> QED
      BY <1>3, <3>1, <3>2 DEF FileAt
  <2> HIDE DEF x
  <2>5. alloc_fd(o.fd_table[c]) = 0 /\ Makes(o, r, c, end, dst, 1, all, Got, None)
    BY <1>1, <1>3, <2>1, <2>3, <2>4, DupMakes0
  <2>6. Stays(ch, ch2, CallsOut(line, c), ch.fd)
    BY <1>2, <2>1, <2>2, <2>5 DEF DupCall
  <2>7. SameFile(o, r, dst)
    BY <1>1, <2>1, <2>5, FilesAfter
  <2>8. InputOf(r, end, line, c)
    BY DEF InputOf, end
  <2>9. StageOut(r, ch2, line, c)
    BY <1>3, <2>1, <2>5, <2>6, <2>7, <2>8
       DEF StageOut, HasAll, SameFile, Makes, Stays, all
  <2>10. SetsUp(r, ch2, line, c)
    BY <2>6, <2>9 DEF SetsUp, Stays
  <2> QED
    BY <2>5, <2>6, <2>10 DEF StepsTo, Makes, Stays
<1> QED
  BY <1>4, <1>5

\* The pipe after it becomes descriptor 1.
LEMMA WireOutput ==
    ASSUME NEW o, OsInv(o), NEW line, GoodLine(line), NEW c \in 1..Len(line), NEW ch,
           NEW r, NEW ch2, CallStep(o, ch, r, ch2, c, Head(ch.calls)),
           ch.app = line[c].app, ch.arg = line[c].arg,
           StageOut(o, ch, line, c) \/ StageOut2(o, ch, line, c), c < Len(line)
    PROVE  StepsTo(o, ch, r, ch2, line, c)
<1> DEFINE all == PipeEnds(line)
<1>1. /\ all \in 0..(2 * MaxPipes) /\ all \in Nat /\ c \in Procs /\ 1 \in Nat \ {0}
      /\ None \notin AnyFile /\ c \in Nat
      /\ Got \in Int /\ Got \in {Got, all + 3} /\ Got # 0 /\ Got # 1 /\ Got < 0
  BY StageFacts DEF Got
<1>2. /\ Head(CallsOut(line, c)) = <<"close", 1>>
      /\ Tail(CallsOut(line, c)) = CallsOut2(line, c)
      /\ Head(CallsOut2(line, c)) = <<"dup", 2 * c + 2, 1>>
      /\ Tail(CallsOut2(line, c)) = ClosesFrom(1, all)
  BY StageHeads
<1> DEFINE end == WriteEnd(c)
           x == 2 * c + 2
<1>3. /\ end \in AnyFile /\ PipeEnd(2 * c) = end
      /\ 2 * c \in 1..all /\ x \in Nat /\ x # Got /\ x + 1 = 2 * c + 3
  <2>1. Len(line) \in 1..(MaxPipes + 1) /\ MaxPipes \in Nat /\ c < Len(line)
    BY LineFacts, OpenFilesAssumption
  <2>2. all = 2 * (Len(line) - 1)
    BY DEF PipeEnds
  <2> HIDE DEF all
  <2>3. /\ 2 * c \in 1..all /\ x \in Nat /\ x # Got /\ x + 1 = 2 * c + 3
        /\ c \in 1..MaxPipes /\ (2 * c) % 2 = 0 /\ (2 * c) \div 2 = c
    BY <1>1, <2>1, <2>2
  <2> QED
    BY <2>3 DEF AnyFile, PipeEnd
<1> HIDE DEF all, end
<1>4. CASE StageOut(o, ch, line, c)
  <2>1. PICK in \in AnyFile, dst \in AnyFile :
           /\ ch.calls = CallsOut(line, c) /\ InputOf(o, in, line, c)
           /\ TableIs(o.fd_table[c], in, dst, 1, all, Got, None)
    BY <1>4 DEF StageOut, HasAll, all
  <2>2. CloseCall(o, ch, r, ch2, c, 1)
    BY <1>2, <2>1, CallIs
  <2>3. r = sys_close(o, c, 1) /\ Stays(ch, ch2, CallsOut2(line, c), ch.fd)
    BY <1>1, <1>2, <2>1, <2>2 DEF CloseCall, FdOf
  <2>4. Makes(o, r, c, in, None, 1, all, Got, None)
    BY <1>1, <2>1, <2>3, CloseMakes
  <2>5. SameFile(o, r, in)
    BY <1>1, <2>1, <2>4, FilesAfter
  <2>6. StageOut2(r, ch2, line, c)
    BY <2>1, <2>3, <2>4, <2>5
       DEF StageOut2, HasAll, SameFile, Makes, Stays, all
  <2>7. SetsUp(r, ch2, line, c)
    BY <2>3, <2>6 DEF SetsUp, Stays
  <2> QED
    BY <2>3, <2>4, <2>7 DEF StepsTo, Makes, Stays
<1>5. CASE StageOut2(o, ch, line, c)
  <2>1. PICK in \in AnyFile :
           /\ ch.calls = CallsOut2(line, c) /\ InputOf(o, in, line, c)
           /\ TableIs(o.fd_table[c], in, None, 1, all, Got, None)
    BY <1>5 DEF StageOut2, HasAll, all
  <2>2. DupCall(o, ch, r, ch2, c, x, 1)
    BY <1>2, <2>1, CallIs
  <2>3. r = sys_dup(o, c, x)
    BY <1>3, <2>2 DEF DupCall, FdOf
  <2>4. FileAt(o, c, x) = end
    <3>1. /\ x + 1 \in 1..Len(o.fd_table[c]) /\ DOMAIN o.fd_table[c] = 1..Len(o.fd_table[c])
          /\ o.fd_table[c][x + 1] = AtIndex(x + 1, in, None, 1, all, Got, None)
      <4> DEFINE t == o.fd_table[c]
      <4>1. /\ DOMAIN t = 1..Len(t) /\ Len(t) \in Nat /\ Len(t) >= all + 3
            /\ \A h \in 1..Len(t) : t[h] = AtIndex(h, in, None, 1, all, Got, None)
        BY <1>1, <2>1, LenProperties DEF TableIs
      <4> HIDE DEF t
      <4>2. x + 1 \in Nat \ {0} /\ x + 1 <= all + 3
        BY <1>1, <1>3
      <4>3. x + 1 \in 1..Len(t)
        BY <1>1, <4>1, <4>2
      <4> QED
        BY <4>1, <4>3 DEF t
    <3>2. AtIndex(x + 1, in, None, 1, all, Got, None) = PipeEnd(2 * c)
      BY <1>1, <1>3 DEF AtIndex, Got
    <3> QED
      BY <1>3, <3>1, <3>2 DEF FileAt
  <2> HIDE DEF x
  <2>5. alloc_fd(o.fd_table[c]) = 1 /\ Makes(o, r, c, in, end, 1, all, Got, None)
    BY <1>1, <1>3, <2>1, <2>3, <2>4, DupMakes1
  <2>6. Stays(ch, ch2, ClosesFrom(1, all), ch.fd)
    BY <1>2, <2>1, <2>2, <2>5 DEF DupCall
  <2>7. SameFile(o, r, in)
    BY <1>1, <2>1, <2>5, FilesAfter
  <2>8. OutputOf(r, end, line, c) /\ InputOf(r, in, line, c)
    BY <2>1, <2>7 DEF OutputOf, end, SameFile
  <2>9. 1 \in 1..(all + 1)
    BY <1>1
  <2>10. ch2.calls = ClosesFrom(1, all) /\ TableIs(r.fd_table[c], in, end, 1, all, Got, None)
    BY <2>5, <2>6 DEF Makes, Stays
  <2>11. StageClose(r, ch2, line, c)
    BY <1>3, <2>8, <2>9, <2>10 DEF StageClose, all
  <2>12. SetsUp(r, ch2, line, c)
    BY <2>6, <2>11 DEF SetsUp, Stays
  <2> QED
    BY <2>5, <2>6, <2>12 DEF StepsTo, Makes, Stays
<1> QED
  BY <1>4, <1>5

\* The ends of all pipes are closed, one after the other.
LEMMA CloseNext ==
    ASSUME NEW o, OsInv(o), NEW line, GoodLine(line), NEW c \in 1..Len(line), NEW ch,
           NEW r, NEW ch2, CallStep(o, ch, r, ch2, c, Head(ch.calls)),
           ch.app = line[c].app, ch.arg = line[c].arg,
           StageClose(o, ch, line, c), ch.calls # <<>>
    PROVE  StepsTo(o, ch, r, ch2, line, c)
<1> DEFINE all == PipeEnds(line)
<1>1. /\ all \in 0..(2 * MaxPipes) /\ all \in Nat /\ c \in Procs /\ 1 \in Nat \ {0}
      /\ None \notin AnyFile /\ c \in Nat
      /\ Got \in Int /\ Got \in {Got, all + 3} /\ Got # 0 /\ Got # 1 /\ Got < 0
  BY StageFacts DEF Got
<1>2. PICK in \in AnyFile, dst \in AnyFile, a \in 1..(all + 1) :
         /\ ch.calls = ClosesFrom(a, all)
         /\ InputOf(o, in, line, c) /\ OutputOf(o, dst, line, c)
         /\ TableIs(o.fd_table[c], in, dst, a, all, Got, None)
  BY DEF StageClose
<1> HIDE DEF all
<1>3. /\ a <= all /\ Head(ch.calls) = <<"close", a + 2>>
      /\ Tail(ch.calls) = ClosesFrom(a + 1, all)
  BY <1>1, <1>2, ClosesFacts
<1> DEFINE d == a + 2
           a2 == a + 1
<1>4. /\ d # Got /\ a \in Nat \ {0} /\ a2 \in Nat \ {0} /\ a2 \in 1..(all + 1)
  BY <1>1, <1>3
<1>5. CloseCall(o, ch, r, ch2, c, d)
  BY <1>3, CallIs
<1>6. r = sys_close(o, c, d) /\ Stays(ch, ch2, ClosesFrom(a + 1, all), ch.fd)
  <2> HIDE DEF d
  <2> QED
    BY <1>3, <1>4, <1>5 DEF CloseCall, FdOf
<1>7. Makes(o, r, c, in, dst, a + 1, all, Got, None)
  BY <1>1, <1>2, <1>3, <1>4, <1>6, CloseMakes
<1>8. Makes(o, r, c, in, dst, a2, all, Got, None) /\ Stays(ch, ch2, ClosesFrom(a2, all), ch.fd)
  BY <1>6, <1>7
<1> HIDE DEF a2
<1>9. SameFile(o, r, in) /\ SameFile(o, r, dst)
  BY <1>1, <1>2, <1>4, <1>8, FilesAfter
<1>10. InputOf(r, in, line, c) /\ OutputOf(r, dst, line, c)
  BY <1>2, <1>9 DEF SameFile
<1>11. StageClose(r, ch2, line, c)
  <2>1. ch2.calls = ClosesFrom(a2, all) /\ TableIs(r.fd_table[c], in, dst, a2, all, Got, None)
    BY <1>8 DEF Makes, Stays
  <2> QED
    BY <1>2, <1>4, <1>10, <2>1 DEF StageClose, all
<1>12. SetsUp(r, ch2, line, c)
  BY <1>8, <1>11 DEF SetsUp, Stays
<1> QED
  BY <1>8, <1>12 DEF StepsTo, Makes, Stays

\* Each call of a child leads from its stage to the next one, or fails.
LEMMA SetupStep ==
    ASSUME NEW o, OsInv(o), NEW line, GoodLine(line), NEW c \in 1..Len(line), NEW ch,
           NEW r, NEW ch2, CallStep(o, ch, r, ch2, c, Head(ch.calls)),
           SetsUp(o, ch, line, c), ch.calls # <<>>
    PROVE  StepsTo(o, ch, r, ch2, line, c)
<1>1. ch.app = line[c].app /\ ch.arg = line[c].arg
  BY DEF SetsUp
<1>2. StageClose(o, ch, line, c) => StepsTo(o, ch, r, ch2, line, c)
  BY <1>1, CloseNext
<1>3. StageOut(o, ch, line, c) => StepsTo(o, ch, r, ch2, line, c)
  BY <1>1, <1>2, NextStage, WireOutput
<1>4. StageOut2(o, ch, line, c) => StepsTo(o, ch, r, ch2, line, c)
  <2>1. StageOut2(o, ch, line, c) => c < Len(line)
    BY DEF StageOut2
  <2> QED
    BY <1>1, <2>1, WireOutput
<1>5. StageIn(o, ch, line, c) => StepsTo(o, ch, r, ch2, line, c)
  BY <1>1, <1>3, NextStage, WireInput
<1>6. StageIn2(o, ch, line, c) => StepsTo(o, ch, r, ch2, line, c)
  <2>1. StageIn2(o, ch, line, c) => c > 1
    BY DEF StageIn2
  <2> QED
    BY <1>1, <2>1, WireInput
<1>7. StageTo(o, ch, line, c) => StepsTo(o, ch, r, ch2, line, c)
  BY <1>1, <1>5, NextStage, OpenOutput
<1>8. StageTo2(o, ch, line, c) \/ StageTo3(o, ch, line, c) \/ StageTo4(o, ch, line, c)
          => StepsTo(o, ch, r, ch2, line, c)
  BY <1>1, MoveOutput
<1>9. StageFrom(o, ch, line, c) => StepsTo(o, ch, r, ch2, line, c)
  BY <1>1, <1>7, NextStage, OpenInput
<1>10. StageFrom2(o, ch, line, c) \/ StageFrom3(o, ch, line, c)
          \/ StageFrom4(o, ch, line, c) => StepsTo(o, ch, r, ch2, line, c)
  BY <1>1, MoveInput
<1> QED
  BY <1>2, <1>3, <1>4, <1>5, <1>6, <1>7, <1>8, <1>9, <1>10 DEF SetsUp

\* Only the last stage has no calls, after the last end has been closed.
LEMMA CallsLeft ==
    ASSUME NEW line, GoodLine(line), NEW c \in 1..Len(line)
    PROVE  /\ CallsOut2(line, c) # <<>> /\ CallsIn2(line, c) # <<>>
           /\ c < Len(line) => CallsOut(line, c) # <<>>
           /\ c > 1 => CallsIn(line, c) # <<>>
           /\ \A s \in Seq(AnyCall) : Redirect4(s) # <<>>
           /\ \A s \in Seq(AnyCall), fd \in Int : Redirect3(fd, s) # <<>>
           /\ \A s \in Seq(AnyCall), fd \in Int : Redirect2(fd, s) # <<>>
           /\ line[c].output # None => CallsTo(line, c) # <<>>
           /\ line[c].input # None => CallsFrom(line, c) # <<>>
<1>1. /\ PipeEnds(line) \in Nat /\ c \in Int /\ 2 * c + 2 \in Int /\ 2 * c - 1 \in Int
      /\ 0 \in Int /\ 1 \in Int /\ Got \in Int
      /\ line[c].input \in FileNames \cup {None}
      /\ line[c].output \in FileNames \cup {None}
  BY LineFacts DEF Got
<1>2. /\ \A fd \in Int : <<"close", fd>> \in AnyCall
      /\ \A fd, to \in Int : <<"dup", fd, to>> \in AnyCall
      /\ \A name \in FileNames, flags \in SUBSET {"CREATE", "WRONLY"} :
             <<"open", name, flags>> \in AnyCall
  BY DEF AnyCall
<1>3. \A x \in AnyCall, s \in Seq(AnyCall) : <<x>> \o s # <<>>
  BY ConsFacts
<1>4. CallsOut2(line, c) # <<>>
  BY <1>1, <1>2, <1>3, CallsTyped DEF CallsOut2
<1>5. c < Len(line) => CallsOut(line, c) # <<>>
  BY <1>1, <1>2, <1>3, CallsTyped DEF CallsOut
<1>6. CallsIn2(line, c) # <<>>
  BY <1>1, <1>2, <1>3, CallsTyped DEF CallsIn2
<1>7. c > 1 => CallsIn(line, c) # <<>>
  BY <1>1, <1>2, <1>3, CallsTyped DEF CallsIn
<1>8. ASSUME NEW s \in Seq(AnyCall), NEW fd \in Int
      PROVE  Redirect4(s) # <<>> /\ Redirect3(fd, s) # <<>> /\ Redirect2(fd, s) # <<>>
  <2>1. Redirect4(s) \in Seq(AnyCall) /\ Redirect3(fd, s) \in Seq(AnyCall)
    BY CallsTyped
  <2>2. Redirect4(s) # <<>>
    BY <1>1, <1>2, <1>3 DEF Redirect4
  <2>3. Redirect3(fd, s) # <<>>
    BY <1>1, <1>2, <1>3, <2>1 DEF Redirect3
  <2>4. Redirect2(fd, s) # <<>>
    BY <1>1, <1>2, <1>3, <2>1 DEF Redirect2
  <2> QED
    BY <2>2, <2>3, <2>4
<1>9. CallsIn(line, c) \in Seq(AnyCall) /\ CallsTo(line, c) \in Seq(AnyCall)
  BY CallsTyped
<1>10. /\ Redirect2(1, CallsIn(line, c)) \in Seq(AnyCall)
       /\ Redirect2(0, CallsTo(line, c)) \in Seq(AnyCall)
  BY <1>1, <1>9, CallsTyped
<1>11. line[c].output # None => CallsTo(line, c) # <<>>
  BY <1>1, <1>2, <1>3, <1>10 DEF CallsTo, Redirect1
<1>12. line[c].input # None => CallsFrom(line, c) # <<>>
  BY <1>1, <1>2, <1>3, <1>10 DEF CallsFrom, Redirect1
<1>13. \A s \in Seq(AnyCall) : Redirect4(s) # <<>>
  BY <1>1, <1>8
<1> QED
  BY <1>4, <1>5, <1>6, <1>7, <1>8, <1>11, <1>12, <1>13

\* A child without calls left has the input and the output of its place, and no
\* other end of a pipe.
LEMMA SetupEnds ==
    ASSUME NEW o, OsInv(o), NEW line, GoodLine(line), NEW c \in 1..Len(line), NEW ch,
           SetsUp(o, ch, line, c), ch.calls = <<>>
    PROVE  RunsAt(o, line, c, Got, None)
<1>1. /\ CallsIn(line, c) \in Seq(AnyCall) /\ CallsTo(line, c) \in Seq(AnyCall)
      /\ 0 \in Int /\ 1 \in Int
  BY CallsTyped
<1>2. /\ ~StageFrom2(o, ch, line, c) /\ ~StageFrom3(o, ch, line, c)
      /\ ~StageFrom4(o, ch, line, c)
  BY <1>1, CallsLeft DEF StageFrom2, StageFrom3, StageFrom4
<1>3. /\ ~StageTo2(o, ch, line, c) /\ ~StageTo3(o, ch, line, c)
      /\ ~StageTo4(o, ch, line, c)
  BY <1>1, CallsLeft DEF StageTo2, StageTo3, StageTo4
<1>4. ~StageIn2(o, ch, line, c) /\ ~StageOut2(o, ch, line, c)
  BY CallsLeft DEF StageIn2, StageOut2
<1>5. StageOut(o, ch, line, c) => StageClose(o, ch, line, c)
  BY CallsLeft, NextStage DEF StageOut
<1>6. StageIn(o, ch, line, c) => StageClose(o, ch, line, c)
  BY <1>5, CallsLeft, NextStage DEF StageIn
<1>7. StageTo(o, ch, line, c) => StageClose(o, ch, line, c)
  BY <1>6, CallsLeft, NextStage DEF StageTo
<1>8. StageFrom(o, ch, line, c) => StageClose(o, ch, line, c)
  BY <1>7, CallsLeft, NextStage DEF StageFrom
<1>9. StageClose(o, ch, line, c)
  BY <1>2, <1>3, <1>4, <1>5, <1>6, <1>7, <1>8 DEF SetsUp
<1> DEFINE all == PipeEnds(line)
<1>10. PICK in \in AnyFile, dst \in AnyFile, a \in 1..(all + 1) :
          /\ ch.calls = ClosesFrom(a, all)
          /\ InputOf(o, in, line, c) /\ OutputOf(o, dst, line, c)
          /\ TableIs(o.fd_table[c], in, dst, a, all, Got, None)
  BY <1>9 DEF StageClose
<1>11. all \in Nat /\ a \in Nat \ {0} /\ Got \in Int
  BY LineFacts DEF Got
<1> HIDE DEF all
<1>12. a > all
  <2>1. ClosesFrom(a, all) = <<>>
    BY <1>10
  <2>2. a <= all => ClosesFrom(a, all) # <<>>
    BY <1>11, ClosesFacts
  <2> QED
    BY <1>11, <2>1, <2>2
<1>13. TableIs(o.fd_table[c], in, dst, 1, 0, Got, None)
  BY <1>10, <1>11, <1>12, TableFrees
<1> QED
  BY <1>10, <1>13 DEF RunsAt

-----------------------------------------------------------------------------
(* The steps of a child.                                                   *)

\* A step of a child leaves the others, and the shell, as they were.
LEMMA ChildSteps ==
    ASSUME ShellIInv, NEW c \in Children, OsInv(os'), KeepsOpen(os, os'),
           \A q \in Procs \ {c} : os'.fd_table[q] = os.fd_table[q],
           DOMAIN child' = Children, \A q \in Children \ {c} : child'[q] = child[q],
           sh' = sh, ChildInv(os', child'[c], sh.line, c),
           child[c].status # "none", child'[c].status # "none"
    PROVE  ShellIInv'
<1>1. OsInv(os) /\ PromptInv(os, sh, child)
  BY DEF ShellIInv
<1>2. ASSUME NEW q \in Children
      PROVE  ChildInv(os', child'[q], sh.line, q)
  <2>1. CASE q = c
    BY <2>1
  <2>2. CASE q # c
    <3>1. ChildInv(os, child[q], sh.line, q)
      BY DEF ShellIInv
    <3>2. os'.fd_table[q] = os.fd_table[q] /\ child'[q] = child[q]
      BY <2>2 DEF Procs
    <3> DEFINE o == os
               r == os'
    <3>3. /\ OsInv(o) /\ OsInv(r) /\ KeepsOpen(o, r) /\ r.fd_table[q] = o.fd_table[q]
          /\ ChildInv(o, child[q], sh.line, q)
      BY <1>1, <3>1, <3>2
    <3> HIDE DEF o, r
    <3>4. ChildInv(r, child[q], sh.line, q)
      BY <3>3, ChildKept
    <3> QED
      BY <3>2, <3>4 DEF r
  <2> QED
    BY <2>1, <2>2
<1>3. \A a, b : HoldsEnds(os, a, b) => HoldsEnds(os', a, b)
  <2>1. os'.fd_table[0] = os.fd_table[0]
    BY DEF Procs, Children
  <2> QED
    BY <2>1 DEF HoldsEnds
<1>4. \A cs \in SUBSET Children : None_(child, cs) => None_(child', cs)
  BY DEF None_
<1>5. PromptInv(os', sh, child')
  BY <1>1, <1>3, <1>4 DEF PromptInv
<1> QED
  BY <1>2, <1>5 DEF ShellIInv

\* A call of a child before exec keeps the invariant.
LEMMA SetupCallKeeps ==
    ASSUME ShellIInv, NEW c \in Children, setup_call(c)
    PROVE  ShellIInv'
<1> DEFINE o == os
           r == os'
           ch == child[c]
           ch2 == child'[c]
           line == sh.line
           call == Head(ch.calls)
<1>1. /\ ch.status = "setup" /\ ch.calls # <<>> /\ sh' = sh
      /\ OsInv(o) /\ ChildInv(o, ch, line, c) /\ DOMAIN child = Children
  BY DEF setup_call, ShellIInv
<1>2. /\ DOMAIN ch = DOMAIN NoChild /\ GoodLine(line) /\ c <= Len(line)
      /\ SetsUp(o, ch, line, c)
  BY <1>1 DEF ChildInv
<1>3. c \in 1..Len(line)
  BY <1>2, LineFacts DEF Children
<1>4. /\ DOMAIN child' = Children
      /\ \A q \in Children \ {c} : child'[q] = child[q]
  BY <1>1 DEF setup_call, Fail, NextCall
<1>5. CallStep(o, ch, r, ch2, c, call)
  <2>1. CASE call[1] = "open" /\ CanPlace(o) /\ r = sys_open(o, c, call[2], call[3])
             /\ IF CanOpen(o, call[2], call[3])
                THEN child' = [child EXCEPT ![c].calls = Tail(@),
                                            ![c].fd = alloc_fd(o.fd_table[c])]
                ELSE Fail(c)
    <3>1. CanOpen(o, call[2], call[3]) =>
              Stays(ch, ch2, Tail(ch.calls), alloc_fd(o.fd_table[c]))
      <4> DEFINE new == alloc_fd(o.fd_table[c])
                 rest == Tail(ch.calls)
                 called == [ch EXCEPT !.calls = rest]
      <4>1. SUFFICES ASSUME CanOpen(o, call[2], call[3])
                     PROVE  Stays(ch, ch2, rest, new)
        OBVIOUS
      <4>2. child' = [child EXCEPT ![c].calls = rest, ![c].fd = new]
        BY <2>1, <4>1
      <4> HIDE DEF new, rest
      <4>3. ch2 = [called EXCEPT !.fd = new]
        BY <1>1, <4>2
      <4> QED
        BY <1>2, <4>3 DEF Stays, NoChild
    <3>2. ~CanOpen(o, call[2], call[3]) => Fails(ch, ch2)
      BY <1>1, <1>2, <2>1 DEF Fails, Fail, NoChild
    <3> QED
      BY <2>1, <3>1, <3>2 DEF CallStep, OpenCall
  <2>2. CASE call[1] = "close" /\ r = sys_close(o, c, Fd(c, call[2])) /\ NextCall(c)
    <3>1. Stays(ch, ch2, Tail(ch.calls), ch.fd)
      BY <1>1, <1>2, <2>2 DEF Stays, NextCall, NoChild
    <3> QED
      BY <2>2, <3>1 DEF CallStep, CloseCall, Fd, FdOf
  <2>3. CASE call[1] = "dup" /\ r = sys_dup(o, c, Fd(c, call[2]))
             /\ IF alloc_fd(o.fd_table[c]) = call[3] THEN NextCall(c) ELSE Fail(c)
    <3>1. alloc_fd(o.fd_table[c]) = call[3] => Stays(ch, ch2, Tail(ch.calls), ch.fd)
      BY <1>1, <1>2, <2>3 DEF Stays, NextCall, NoChild
    <3>2. alloc_fd(o.fd_table[c]) # call[3] => Fails(ch, ch2)
      BY <1>1, <1>2, <2>3 DEF Fails, Fail, NoChild
    <3> QED
      BY <2>3, <3>1, <3>2 DEF CallStep, DupCall, Fd, FdOf
  <2> QED
    BY <2>1, <2>2, <2>3 DEF setup_call
<1>6. StepsTo(o, ch, r, ch2, line, c)
  <2> HIDE DEF o, r, ch, ch2, line, call
  <2>1. CallStep(o, ch, r, ch2, c, Head(ch.calls))
    BY <1>5 DEF call
  <2> QED
    BY <1>1, <1>2, <1>3, <2>1, SetupStep
<1>7. /\ OsInv(r) /\ KeepsOpen(o, r) /\ DOMAIN ch2 = DOMAIN NoChild
      /\ \A q \in Procs \ {c} : r.fd_table[q] = o.fd_table[q]
      /\ \/ ch2.status = "setup" /\ SetsUp(r, ch2, line, c)
         \/ /\ Fails(ch, ch2)
            /\ 2 \in DOMAIN r.fd_table[c] /\ r.fd_table[c][2] \in Outputs
  BY <1>1, <1>2, <1>6 DEF StepsTo
<1> HIDE DEF o, r, ch, ch2, line
<1>8. ChildInv(r, ch2, line, c) /\ ch2.status # "none" /\ ch.status # "none"
  <2>1. CASE ch2.status = "setup" /\ SetsUp(r, ch2, line, c)
    BY <1>1, <1>2, <1>7, <2>1 DEF ChildInv
  <2>2. CASE Fails(ch, ch2) /\ 2 \in DOMAIN r.fd_table[c] /\ r.fd_table[c][2] \in Outputs
    BY <1>1, <1>2, <1>7, <2>2 DEF ChildInv, Fails, Apps
  <2> QED
    BY <1>7, <2>1, <2>2
<1> QED
  BY <1>1, <1>4, <1>7, <1>8, ChildSteps DEF o, r, ch, ch2, line

\* Where a program writes.
LEMMA OutputIs ==
    ASSUME NEW o, NEW line, GoodLine(line), NEW c \in 1..Len(line), NEW fd \in Int, NEW file,
           RunsAt(o, line, c, fd, file)
    PROVE  2 \in DOMAIN o.fd_table[c] /\ o.fd_table[c][2] \in Outputs
<1>1. PICK in \in AnyFile, dst \in AnyFile :
         /\ InputOf(o, in, line, c) /\ OutputOf(o, dst, line, c)
         /\ TableIs(o.fd_table[c], in, dst, 1, 0, fd, file)
  BY DEF RunsAt
<1>2. 2 \in DOMAIN o.fd_table[c] /\ o.fd_table[c][2] = dst
  BY <1>1, LenProperties DEF TableIs, AtIndex
<1>3. CASE c < Len(line)
  <2>1. c \in 1..MaxPipes /\ dst = WriteEnd(c)
    BY <1>1, <1>3, LineFacts, OpenFilesAssumption DEF OutputOf
  <2> QED
    BY <1>2, <2>1 DEF Outputs
<1>4. CASE ~(c < Len(line))
  <2>1. dst = Stdout \/ \E k \in 1..MaxOpen : dst = OSInode(k)
    BY <1>1, <1>4 DEF OutputOf, OutputAt, OpensTo
  <2> QED
    BY <1>2, <2>1 DEF Outputs
<1> QED
  BY <1>3, <1>4

\* So does exec.
LEMMA ExecKeeps ==
    ASSUME ShellIInv, NEW c \in Children, shell_exec(c)
    PROVE  ShellIInv'
<1> DEFINE o == os
           ch == child[c]
           ch2 == child'[c]
           line == sh.line
<1>1. /\ ch.status = "setup" /\ ch.calls = <<>> /\ sh' = sh /\ os' = os
      /\ OsInv(o) /\ ChildInv(o, ch, line, c) /\ DOMAIN child = Children
  BY DEF shell_exec, ShellIInv
<1>2. /\ DOMAIN ch = DOMAIN NoChild /\ GoodLine(line) /\ c <= Len(line)
      /\ SetsUp(o, ch, line, c)
  BY <1>1 DEF ChildInv
<1>3. c \in 1..Len(line)
  BY <1>2, LineFacts DEF Children
<1>4. /\ DOMAIN child' = Children
      /\ \A q \in Children \ {c} : child'[q] = child[q]
  BY <1>1 DEF shell_exec, Fail
<1>5. RunsAt(o, line, c, Got, None) /\ ch.app = line[c].app /\ ch.arg = line[c].arg
  <2>1. ch.app = line[c].app /\ ch.arg = line[c].arg
    BY <1>2 DEF SetsUp
  <2> HIDE DEF o, ch, line
  <2> QED
    BY <1>1, <1>2, <1>3, <2>1, SetupEnds
<1>6. /\ DOMAIN ch2 = DOMAIN NoChild
      /\ IF ch.app \in Apps
         THEN /\ ch2.status = IF ch.app = "cat" THEN "open" ELSE "read"
              /\ ch2.app = ch.app /\ ch2.arg = ch.arg /\ ch2.fd = 0
         ELSE Fails(ch, ch2)
  BY <1>1, <1>2 DEF shell_exec, Fail, Fails, NoChild
<1>7. 2 \in DOMAIN o.fd_table[c] /\ o.fd_table[c][2] \in Outputs
  <2>1. Got \in Int
    BY DEF Got
  <2> HIDE DEF o, line
  <2> QED
    BY <1>2, <1>3, <1>5, <2>1, OutputIs
<1>8. ch.app = "cat" => ch.arg \in FileNames
  BY <1>2, <1>3, <1>5, LineFacts
<1> HIDE DEF o, ch, ch2, line
<1>9. ChildInv(o, ch2, line, c) /\ ch2.status # "none" /\ ch.status # "none"
  <2>1. CASE ch.app = "cat"
    BY <1>1, <1>2, <1>5, <1>6, <1>8, <2>1 DEF ChildInv, Apps
  <2>2. CASE ch.app # "cat" /\ ch.app \in Apps
    <3>1. RunsApp(o, ch2, line, c)
      BY <1>5, <1>6, <2>2 DEF RunsApp
    <3> QED
      BY <1>1, <1>2, <1>6, <2>2, <3>1 DEF ChildInv
  <2>3. CASE ch.app \notin Apps
    BY <1>1, <1>2, <1>6, <1>7, <2>3 DEF ChildInv, Fails, Apps
  <2> QED
    BY <2>1, <2>2, <2>3
<1>10. KeepsOpen(o, o)
  BY <1>1, SameOpen
<1> QED
  BY <1>1, <1>4, <1>9, <1>10, ChildSteps DEF o, ch, ch2, line

\* So does cat when it opens its argument.
LEMMA CatOpenKeeps ==
    ASSUME ShellIInv, NEW c \in Children, cat_open(c)
    PROVE  ShellIInv'
<1> DEFINE o == os
           r == os'
           ch == child[c]
           ch2 == child'[c]
           line == sh.line
           name == ch.arg
           flags == {}
<1>1. /\ ch.status = "open" /\ sh' = sh /\ CanPlace(o)
      /\ OsInv(o) /\ ChildInv(o, ch, line, c) /\ DOMAIN child = Children
      /\ r = sys_open(o, c, name, flags)
  BY DEF cat_open, ShellIInv
<1>2. /\ DOMAIN ch = DOMAIN NoChild /\ GoodLine(line) /\ c <= Len(line)
      /\ ch.app = "cat" /\ name \in FileNames /\ RunsAt(o, line, c, Got, None)
  BY <1>1 DEF ChildInv
<1>3. c \in 1..Len(line) /\ c \in Procs
  BY <1>2, LineFacts DEF Children, Procs
<1>4. /\ DOMAIN child' = Children
      /\ \A q \in Children \ {c} : child'[q] = child[q]
  BY <1>1 DEF cat_open, Fail
<1>5. /\ DOMAIN ch2 = DOMAIN NoChild
      /\ IF CanOpen(o, name, flags)
         THEN /\ ch2.status = "read" /\ ch2.app = ch.app
              /\ ch2.fd = alloc_fd(o.fd_table[c])
         ELSE Fails(ch, ch2)
  BY <1>1, <1>2 DEF cat_open, Fail, Fails, NoChild
<1> HIDE DEF o, r, ch, ch2, line, name, flags
<1>6. PICK in \in AnyFile, dst \in AnyFile :
         /\ InputOf(o, in, line, c) /\ OutputOf(o, dst, line, c)
         /\ TableIs(o.fd_table[c], in, dst, 1, 0, Got, None)
  BY <1>2 DEF RunsAt
<1>7. CASE CanOpen(o, name, flags)
  <2> DEFINE b == 0
  <2>1. /\ b \in 0..(2 * MaxPipes) /\ b \in Nat /\ in # None /\ dst # None
        /\ TableIs(o.fd_table[c], in, dst, 1, b, Got, None)
    BY <1>6, OpenFilesAssumption
  <2> HIDE DEF b
  <2>2. /\ alloc_fd(o.fd_table[c]) = b + 3
        /\ Opened(o, r, c, in, dst, b, b + 3, name, flags)
    BY <1>1, <1>2, <1>3, <1>7, <2>1, OpenMakes
  <2> DEFINE fd == b + 3
  <2>3. fd = 3 /\ fd \in Int /\ fd >= 3 /\ Got \in Int /\ 1 \in Nat \ {0}
    BY DEF b, Got
  <2>4. PICK k \in 1..MaxOpen : Makes(o, r, c, in, dst, 1, b, fd, OSInode(k))
    BY <2>2 DEF Opened
  <2> HIDE DEF fd
  <2>5. SameFile(o, r, in) /\ SameFile(o, r, dst)
    BY <1>1, <1>3, <2>1, <2>3, <2>4, FilesAfter
  <2>6. /\ OsInv(r) /\ KeepsOpen(o, r)
        /\ \A q \in Procs \ {c} : r.fd_table[q] = o.fd_table[q]
        /\ TableIs(r.fd_table[c], in, dst, 1, 0, 3, OSInode(k))
    BY <2>3, <2>4 DEF Makes, b
  <2>7. RunsAt(r, line, c, 3, OSInode(k))
    BY <1>6, <2>5, <2>6 DEF RunsAt, SameFile
  <2>8. ch2.fd = 3
    BY <1>5, <1>7, <2>2, <2>3 DEF fd
  <2>9. RunsApp(r, ch2, line, c)
    BY <1>2, <1>5, <1>7, <2>7, <2>8 DEF RunsApp
  <2>10. ChildInv(r, ch2, line, c) /\ ch2.status # "none" /\ ch.status # "none"
    BY <1>1, <1>2, <1>5, <1>7, <2>9 DEF ChildInv, Apps
  <2> QED
    BY <1>1, <1>4, <2>6, <2>10, ChildSteps DEF o, r, ch, ch2, line
<1>8. CASE ~CanOpen(o, name, flags)
  <2>1. r = o
    BY <1>1, <1>8 DEF sys_open
  <2>2. 2 \in DOMAIN o.fd_table[c] /\ o.fd_table[c][2] \in Outputs
    <3>1. Got \in Int
      BY DEF Got
    <3> QED
      BY <1>2, <1>3, <3>1, OutputIs
  <2>3. ChildInv(r, ch2, line, c) /\ ch2.status # "none" /\ ch.status # "none"
    BY <1>1, <1>2, <1>5, <1>8, <2>1, <2>2 DEF ChildInv, Fails, Apps
  <2>4. KeepsOpen(o, o)
    BY <1>1, SameOpen
  <2>5. OsInv(r) /\ KeepsOpen(o, r) /\ \A q \in Procs \ {c} : r.fd_table[q] = o.fd_table[q]
    BY <1>1, <2>1, <2>4
  <2> QED
    BY <1>1, <1>4, <2>3, <2>5, ChildSteps DEF o, r, ch, ch2, line
<1> QED
  BY <1>7, <1>8

\* A read or a write of a file that is open changes no table.
LEMMA IoKeeps ==
    ASSUME NEW o, OsInv(o), NEW file \in AnyFile, file \in Entries(o), NEW r,
           \/ r = sys_read(o, file)
           \/ file \in Outputs /\ \E byte : r = sys_write(o, file, byte)
    PROVE  OsInv(r) /\ KeepsOpen(o, r) /\ r.fd_table = o.fd_table
<1>1. ASSUME file[1] = "inode"
      PROVE  \E k \in 1..MaxOpen : file = OSInode(k) /\ file[2] = k /\ o.open[k] # None
  <2>1. PICK k \in 1..MaxOpen : file = OSInode(k)
    BY <1>1 DEF AnyFile, Stdin, Stdout, ReadEnd, WriteEnd
  <2>2. file[2] = k /\ o.open[k] # None
    BY <2>1 DEF OSInode, OsInv
  <2> QED
    BY <2>1, <2>2
<1>2. CASE r = sys_read(o, file)
  <2>1. CASE file[1] = "inode"
    <3>1. PICK k \in 1..MaxOpen : file[2] = k /\ o.open[k] # None
      BY <1>1, <2>1
    <3>2. r = [o EXCEPT !.open[k].offset = @ + 1]
      BY <1>2, <2>1, <3>1 DEF sys_read
    <3>3. /\ DOMAIN r = DOMAIN o /\ r.fd_table = o.fd_table
          /\ r.open = [o.open EXCEPT ![k].offset = @ + 1]
      BY <3>2 DEF OsInv
    <3> QED
      BY <3>1, <3>3, OffsetKeeps
  <2>2. CASE file[1] # "inode"
    <3>1. r = [o EXCEPT !.pipes[file[2]] = Tail(@)]
      BY <1>2, <2>2 DEF sys_read
    <3>2. DOMAIN r = DOMAIN o /\ r.fd_table = o.fd_table /\ r.open = o.open
      BY <3>1 DEF OsInv
    <3> QED
      BY <3>2, OffsetKeeps
  <2> QED
    BY <2>1, <2>2
<1>3. ASSUME file \in Outputs, NEW byte, r = sys_write(o, file, byte)
      PROVE  OsInv(r) /\ KeepsOpen(o, r) /\ r.fd_table = o.fd_table
  <2>1. CASE file[1] = "inode"
    <3>1. PICK k \in 1..MaxOpen : file[2] = k /\ o.open[k] # None
      BY <1>1, <2>1
    <3> DEFINE text == WriteAt(o.files[o.open[k].name], o.open[k].offset, byte)
    <3>2. r = [o EXCEPT !.files[o.open[k].name] = text, !.open[k].offset = @ + 1]
      BY <1>3, <2>1, <3>1 DEF sys_write
    <3> HIDE DEF text
    <3>3. /\ DOMAIN r = DOMAIN o /\ r.fd_table = o.fd_table
          /\ r.open = [o.open EXCEPT ![k].offset = @ + 1]
      BY <3>2 DEF OsInv
    <3> QED
      BY <3>1, <3>3, OffsetKeeps
  <2>2. CASE file[1] = "stdout"
    <3>1. r = [o EXCEPT !.screen = Append(@, byte)]
      BY <1>3, <2>2 DEF sys_write
    <3>2. DOMAIN r = DOMAIN o /\ r.fd_table = o.fd_table /\ r.open = o.open
      BY <3>1 DEF OsInv
    <3> QED
      BY <3>2, OffsetKeeps
  <2>3. CASE file[1] = "write_end"
    <3>1. r = [o EXCEPT !.pipes[file[2]] = Append(@, byte)]
      BY <1>3, <2>3 DEF sys_write
    <3>2. DOMAIN r = DOMAIN o /\ r.fd_table = o.fd_table /\ r.open = o.open
      BY <3>1 DEF OsInv
    <3> QED
      BY <3>2, OffsetKeeps
  <2>4. file[1] \in {"inode", "stdout", "write_end"}
    BY <1>3 DEF Outputs, Stdout, OSInode, WriteEnd
  <2> QED
    BY <2>1, <2>2, <2>3, <2>4
<1> QED
  BY <1>2, <1>3

\* What a program reads is at its descriptor.
LEMMA InputIs ==
    ASSUME NEW o, OsInv(o), NEW ch, NEW line, NEW c \in Children, ch.app \in Apps,
           RunsApp(o, ch, line, c)
    PROVE  FileAt(o, c, ch.fd) \in AnyFile /\ FileAt(o, c, ch.fd) \in Entries(o)
<1> DEFINE t == o.fd_table[c]
<1>1. t \in Seq(AnyFile \cup {None}) /\ DOMAIN t = 1..Len(t) /\ Len(t) \in Nat
  BY LenProperties DEF OsInv
<1>2. CASE ch.app = "cat"
  <2>1. PICK k \in 1..MaxOpen : RunsAt(o, line, c, 3, OSInode(k))
    BY <1>2 DEF RunsApp
  <2>2. ch.fd = 3
    BY <1>2 DEF RunsApp
  <2>3. 4 \in 1..Len(t) /\ t[4] = OSInode(k)
    BY <1>1, <2>1 DEF RunsAt, TableIs, AtIndex
  <2>4. FileAt(o, c, ch.fd) = OSInode(k)
    BY <1>1, <2>2, <2>3 DEF FileAt
  <2>5. OSInode(k) \in AnyFile
    BY DEF AnyFile
  <2>6. OSInode(k) \in Entries(o)
    BY <2>3, EntriesAre DEF Procs
  <2> QED
    BY <2>4, <2>5, <2>6
<1>3. CASE ch.app # "cat"
  <2>1. RunsAt(o, line, c, Got, None) /\ ch.fd = 0
    BY <1>3 DEF RunsApp
  <2>2. PICK in \in AnyFile : 1 \in 1..Len(t) /\ t[1] = in
    BY <1>1, <2>1 DEF RunsAt, TableIs, AtIndex
  <2>3. FileAt(o, c, ch.fd) = in
    BY <1>1, <2>1, <2>2 DEF FileAt
  <2>4. in \in Entries(o)
    BY <2>2, EntriesAre DEF Procs
  <2> QED
    BY <2>3, <2>4
<1> QED
  BY <1>2, <1>3

\* A program keeps what it runs with while others make calls.
LEMMA RunsAppKept ==
    ASSUME NEW o, NEW r, OsInv(o), OsInv(r), KeepsOpen(o, r), NEW c \in Children,
           r.fd_table[c] = o.fd_table[c], NEW line, NEW ch, NEW ch2,
           RunsApp(o, ch, line, c), ch2.app = ch.app, ch2.fd = ch.fd
    PROVE  RunsApp(r, ch2, line, c)
<1>1. Got \in Int /\ 3 \in Int
  BY DEF Got
<1>2. RunsAt(o, line, c, Got, None) => RunsAt(r, line, c, Got, None)
  BY <1>1, RunKept
<1>3. \A k \in 1..MaxOpen : RunsAt(o, line, c, 3, OSInode(k))
                              => RunsAt(r, line, c, 3, OSInode(k))
  BY <1>1, RunKept
<1> QED
  BY <1>2, <1>3 DEF RunsApp

\* A program that reads keeps the invariant.
LEMMA ReadKeeps ==
    ASSUME ShellIInv, NEW c \in Children, app_read(c)
    PROVE  ShellIInv'
<1> DEFINE o == os
           r == os'
           ch == child[c]
           ch2 == child'[c]
           line == sh.line
           file == FileAt(o, c, ch.fd)
<1>1. /\ ch.status = "read" /\ sh' = sh
      /\ OsInv(o) /\ ChildInv(o, ch, line, c) /\ DOMAIN child = Children
      /\ r = o \/ r = sys_read(o, file)
  BY DEF app_read, ShellIInv
<1>2. /\ DOMAIN ch = DOMAIN NoChild /\ GoodLine(line) /\ c <= Len(line)
      /\ ch.app \in Apps /\ RunsApp(o, ch, line, c)
  BY <1>1 DEF ChildInv
<1>3. /\ DOMAIN child' = Children
      /\ \A q \in Children \ {c} : child'[q] = child[q]
  BY <1>1 DEF app_read
<1>4. /\ DOMAIN ch2 = DOMAIN NoChild /\ ch2.app = ch.app /\ ch2.fd = ch.fd
      /\ ch2.status \in {"read", "print", "exit"}
  BY <1>1, <1>2 DEF app_read, NoChild
<1> HIDE DEF r, ch, ch2, line, o
<1>5. file \in AnyFile /\ file \in Entries(o)
  BY <1>1, <1>2, InputIs
<1> HIDE DEF file
<1>6. OsInv(r) /\ KeepsOpen(o, r) /\ r.fd_table = o.fd_table
  <2>1. CASE r = o
    BY <1>1, <2>1, SameOpen
  <2>2. CASE r = sys_read(o, file)
    BY <1>1, <1>5, <2>2, IoKeeps
  <2> QED
    BY <1>1, <2>1, <2>2
<1>7. RunsApp(r, ch2, line, c)
  BY <1>1, <1>2, <1>4, <1>6, RunsAppKept
<1>8. ChildInv(r, ch2, line, c) /\ ch2.status # "none" /\ ch.status # "none"
  BY <1>1, <1>2, <1>4, <1>7 DEF ChildInv
<1> QED
  BY <1>1, <1>3, <1>6, <1>8, ChildSteps DEF o, r, ch, ch2, line

\* A program that prints does,
LEMMA PrintKeeps ==
    ASSUME ShellIInv, NEW c \in Children, app_print(c)
    PROVE  ShellIInv'
<1> DEFINE o == os
           r == os'
           ch == child[c]
           ch2 == child'[c]
           line == sh.line
           file == FileAt(o, c, 1)
<1>1. /\ ch.status = "print" /\ sh' = sh
      /\ OsInv(o) /\ ChildInv(o, ch, line, c) /\ DOMAIN child = Children
      /\ r = sys_write(o, file, ch.byte)
  BY DEF app_print, ShellIInv
<1>2. /\ DOMAIN ch = DOMAIN NoChild /\ GoodLine(line) /\ c <= Len(line)
      /\ IF ch.app \in Apps THEN RunsApp(o, ch, line, c)
         ELSE 2 \in DOMAIN o.fd_table[c] /\ o.fd_table[c][2] \in Outputs
  BY <1>1 DEF ChildInv
<1>3. /\ DOMAIN child' = Children
      /\ \A q \in Children \ {c} : child'[q] = child[q]
  BY <1>1 DEF app_print
<1>4. /\ DOMAIN ch2 = DOMAIN NoChild /\ ch2.app = ch.app /\ ch2.fd = ch.fd
      /\ ch2.status = IF ch.app = "cat" THEN "read" ELSE "exit"
  BY <1>1, <1>2 DEF app_print, NoChild
<1> HIDE DEF r, ch, ch2, line, o
<1>5. c \in 1..Len(line)
  BY <1>2, LineFacts DEF Children
<1>6. 2 \in DOMAIN o.fd_table[c] /\ o.fd_table[c][2] \in Outputs
  <2>1. CASE ch.app \in Apps
    <3>1. \E fd \in Int : \E f : RunsAt(o, line, c, fd, f)
      BY <1>2, <2>1 DEF RunsApp, Got
    <3> QED
      BY <1>2, <1>5, <3>1, OutputIs
  <2> QED
    BY <1>2, <2>1
<1>7. file \in AnyFile /\ file \in Entries(o) /\ file \in Outputs
  <2>1. file = o.fd_table[c][2]
    BY <1>6 DEF FileAt
  <2>2. Outputs \subseteq AnyFile
    BY DEF Outputs, AnyFile
  <2>3. o.fd_table[c][2] \in Entries(o)
    <3>1. DOMAIN o.fd_table[c] = 1..Len(o.fd_table[c])
      BY <1>1, LenProperties DEF OsInv
    <3> QED
      BY <1>1, <1>6, <3>1, EntriesAre DEF Procs
  <2> QED
    BY <1>6, <2>1, <2>2, <2>3
<1> HIDE DEF file
<1>8. OsInv(r) /\ KeepsOpen(o, r) /\ r.fd_table = o.fd_table
  BY <1>1, <1>7, IoKeeps
<1>9. ch.app \in Apps => RunsApp(r, ch2, line, c)
  BY <1>1, <1>2, <1>4, <1>8, RunsAppKept
<1>10. ChildInv(r, ch2, line, c) /\ ch2.status # "none" /\ ch.status # "none"
  BY <1>1, <1>2, <1>4, <1>9 DEF ChildInv, Apps
<1> QED
  BY <1>1, <1>3, <1>8, <1>10, ChildSteps DEF o, r, ch, ch2, line

\* and one that exits.
LEMMA ExitsKeep ==
    ASSUME ShellIInv, NEW c \in Children, app_exit(c)
    PROVE  ShellIInv'
<1> DEFINE o == os
           r == os'
           ch == child[c]
           ch2 == child'[c]
           line == sh.line
<1>1. /\ ch.status = "exit" /\ sh' = sh
      /\ OsInv(o) /\ ChildInv(o, ch, line, c) /\ DOMAIN child = Children
      /\ r = drop_fds(o, c)
  BY DEF app_exit, ShellIInv
<1>2. GoodLine(line) /\ c <= Len(line)
  BY <1>1 DEF ChildInv
<1>3. /\ DOMAIN child' = Children
      /\ \A q \in Children \ {c} : child'[q] = child[q]
      /\ DOMAIN ch2 = DOMAIN NoChild /\ ch2.status = "zombie"
  BY <1>1 DEF app_exit, NoChild
<1> HIDE DEF r, ch, ch2, line, o
<1>4. c \in Procs
  BY DEF Procs
<1>5. OsInv(r) /\ KeepsOpen(o, r) /\ r.fd_table = [o.fd_table EXCEPT ![c] = <<>>]
  BY <1>1, <1>4, ExitKeeps
<1>6. /\ r.fd_table[c] = <<>>
      /\ \A q \in Procs \ {c} : r.fd_table[q] = o.fd_table[q]
  BY <1>1, <1>4, <1>5 DEF OsInv, Procs
<1>7. ChildInv(r, ch2, line, c) /\ ch2.status # "none" /\ ch.status # "none"
  BY <1>1, <1>2, <1>3, <1>6 DEF ChildInv
<1> QED
  BY <1>1, <1>3, <1>5, <1>6, <1>7, ChildSteps DEF o, r, ch, ch2, line

-----------------------------------------------------------------------------
(* The steps of the shell.                                                 *)

\* A step of the shell that forks no child leaves the children as they were.
LEMMA ShellSteps ==
    ASSUME ShellIInv, OsInv(os'), KeepsOpen(os, os'),
           \A q \in Children : os'.fd_table[q] = os.fd_table[q],
           child' = child, sh'.line = sh.line, PromptInv(os', sh', child')
    PROVE  ShellIInv'
<1>1. OsInv(os) /\ DOMAIN child' = Children
  BY DEF ShellIInv
<1>2. ASSUME NEW q \in Children
      PROVE  ChildInv(os', child'[q], sh'.line, q)
  <2> DEFINE o == os
             r == os'
  <2>1. /\ OsInv(o) /\ OsInv(r) /\ KeepsOpen(o, r) /\ r.fd_table[q] = o.fd_table[q]
        /\ ChildInv(o, child[q], sh.line, q)
    BY <1>1 DEF ShellIInv
  <2> HIDE DEF o, r
  <2>2. ChildInv(r, child[q], sh.line, q)
    BY <2>1, ChildKept
  <2> QED
    BY <2>2 DEF r
<1> QED
  BY <1>1, <1>2 DEF ShellIInv

\* At the prompt there are no children, so the line may change.
LEMMA NewLine ==
    ASSUME ShellIInv, sh.at = "prompt", NEW text, os' = [os EXCEPT !.screen = text],
           child' = child, PromptInv(os, sh', child)
    PROVE  ShellIInv'
<1>1. /\ OsInv(os) /\ DOMAIN child = Children /\ None_(child, Children)
      /\ \A q \in Children : ChildInv(os, child[q], sh.line, q)
  BY DEF ShellIInv, PromptInv
<1>2. /\ DOMAIN os' = DOMAIN os /\ os'.fd_table = os.fd_table /\ os'.open = os.open
  BY <1>1 DEF OsInv
<1>3. OsInv(os')
  <2> DEFINE o == os
             r == os'
  <2>1. OsInv(o) /\ DOMAIN r = DOMAIN o /\ r.fd_table = o.fd_table /\ r.open = o.open
    BY <1>1, <1>2
  <2> HIDE DEF o, r
  <2>2. OsInv(r)
    BY <2>1, OffsetKeeps
  <2> QED
    BY <2>2 DEF r
<1>4. ASSUME NEW q \in Children
      PROVE  ChildInv(os', child'[q], sh'.line, q)
  <2>1. child[q].status = "none" /\ ChildInv(os, child[q], sh.line, q)
    BY <1>1 DEF None_
  <2> QED
    BY <1>2, <2>1 DEF ChildInv
<1>5. PromptInv(os', sh', child')
  BY <1>2 DEF PromptInv, HoldsEnds
<1> QED
  BY <1>1, <1>3, <1>4, <1>5 DEF ShellIInv

\* The shell keeps the invariant when it reads a line,
LEMMA ReadLineKeeps ==
    ASSUME ShellIInv, NEW line \in Lines, read_line(line)
    PROVE  ShellIInv'
<1>1. /\ sh.at = "prompt" /\ GoodLine(line) /\ child' = child
      /\ sh' = [at |-> "pipe", line |-> line, pipes_fd |-> <<>>, k |-> 1]
      /\ os' = [os EXCEPT !.screen = <<>>]
  BY DEF read_line, GoodLine
<1>2. HoldsEnds(os, 1, 0) /\ None_(child, Children)
  BY <1>1 DEF ShellIInv, PromptInv
<1>3. PipeFds(0) = <<>>
  <2>1. PipeFds(0) \in [1..0 -> Nat] /\ 0 \in Nat
    BY DEF PipeFds
  <2>2. PipeFds(0) \in Seq(Nat) /\ Len(PipeFds(0)) = 0
    BY <2>1, IsSequence
  <2> QED
    BY <2>2, EmptySeq
<1>4. 1 \in 1..Len(line) /\ 2 * (1 - 1) = 0
  BY <1>1, LineFacts
<1>5. PromptInv(os, sh', child)
  BY <1>1, <1>2, <1>3, <1>4 DEF PromptInv
<1> QED
  BY <1>1, <1>5, NewLine

\* refuses one,
LEMMA RefuseKeeps ==
    ASSUME ShellIInv, NEW line \in Lines, refuse_line(line)
    PROVE  ShellIInv'
<1>1. /\ sh.at = "prompt" /\ child' = child /\ sh' = [sh EXCEPT !.line = line]
      /\ os' = [os EXCEPT !.screen = <<Error>>]
      /\ PromptInv(os, sh, child)
  BY DEF refuse_line, ShellIInv
<1>2. /\ HoldsEnds(os, 1, 0) /\ None_(child, Children)
      /\ DOMAIN sh = {"at", "line", "pipes_fd", "k"}
  BY <1>1 DEF PromptInv
<1>3. DOMAIN sh' = {"at", "line", "pipes_fd", "k"} /\ sh'.at = "prompt"
  BY <1>1, <1>2
<1>4. PromptInv(os, sh', child)
  BY <1>2, <1>3 DEF PromptInv
<1> QED
  BY <1>1, <1>4, NewLine

\* makes the next pipe,
LEMMA PipeStep ==
    ASSUME ShellIInv, shell_pipe
    PROVE  ShellIInv'
<1> DEFINE o == os
           r == os'
           k == sh.k
           b == 2 * (k - 1)
           line == sh.line
<1>1. /\ sh.at = "pipe" /\ k < Len(line) /\ r = sys_pipe(o, 0, k) /\ child' = child
      /\ OsInv(o) /\ PromptInv(o, sh, child)
  BY DEF shell_pipe, ShellIInv
<1>2. /\ GoodLine(line) /\ k \in 1..Len(line) /\ sh.pipes_fd = PipeFds(b)
      /\ HoldsEnds(o, 1, b) /\ None_(child, Children)
      /\ DOMAIN sh = {"at", "line", "pipes_fd", "k"}
  BY <1>1 DEF PromptInv
<1>3. k \in 1..MaxPipes /\ b \in Nat /\ b = 2 * (k - 1) /\ b + 2 = 2 * ((k + 1) - 1)
      /\ k + 1 \in 1..Len(line) /\ k \in Nat
  BY <1>1, <1>2, LineFacts, OpenFilesAssumption
<1> DEFINE fd == alloc_fd(o.fd_table[0])
           end == alloc_fd(PutFile(o.fd_table[0], fd, ReadEnd(k)))
<1>4. sh' = [sh EXCEPT !.k = @ + 1, !.pipes_fd = @ \o <<fd, end>>]
  BY DEF shell_pipe
<1> HIDE DEF o, r, k, b, line
<1>5. /\ OsInv(r) /\ KeepsOpen(o, r) /\ fd = b + 3
      /\ alloc_fd(PutFile(o.fd_table[0], b + 3, ReadEnd(k))) = b + 4
      /\ \A p \in Children : r.fd_table[p] = o.fd_table[p]
      /\ HoldsEnds(r, 1, b + 2)
  BY <1>1, <1>2, <1>3, PipeKeeps
<1>6. end = b + 4
  BY <1>5
<1> HIDE DEF fd, end
<1>7. PipeFds(b) \o <<fd, end>> = PipeFds(b + 2)
  <2> DEFINE two == <<fd, end>>
             s == PipeFds(b)
             t == PipeFds(b + 2)
  <2>1. s \in [1..b -> Nat] /\ t \in [1..(b + 2) -> Nat] /\ b + 2 \in Nat
    BY <1>3 DEF PipeFds
  <2>2. s \in Seq(Nat) /\ Len(s) = b /\ t \in Seq(Nat) /\ Len(t) = b + 2
    BY <1>3, <2>1, IsSequence
  <2>3. two \in Seq(Nat) /\ Len(two) = 2 /\ two[1] = b + 3 /\ two[2] = b + 4
    <3>1. two = <<b + 3, b + 4>>
      BY <1>5, <1>6
    <3>2. b + 3 \in Nat /\ b + 4 \in Nat
      BY <1>3
    <3> HIDE DEF two
    <3> QED
      BY <3>1, <3>2
  <2>4. /\ \A e \in 1..b : s[e] = e + 2
        /\ \A e \in 1..(b + 2) : t[e] = e + 2
    BY DEF PipeFds
  <2> HIDE DEF two, s, t
  <2>5. /\ s \o two \in Seq(Nat) /\ Len(s \o two) = b + 2
        /\ \A e \in 1..(b + 2) : (s \o two)[e] = IF e <= b THEN s[e] ELSE two[e - b]
    <3> DEFINE n == Len(s)
               m == Len(two)
    <3>1. /\ s \o two \in Seq(Nat) /\ Len(s \o two) = n + m
          /\ \A e \in 1..(n + m) : (s \o two)[e] = IF e <= n THEN s[e] ELSE two[e - n]
      BY <2>2, <2>3, ConcatProperties
    <3>2. n = b /\ m = 2
      BY <2>2, <2>3
    <3> HIDE DEF n, m
    <3> QED
      BY <3>1, <3>2
  <2>6. \A e \in 1..(b + 2) : (s \o two)[e] = t[e]
    <3> SUFFICES ASSUME NEW e \in 1..(b + 2) PROVE (s \o two)[e] = t[e]
      OBVIOUS
    <3>1. CASE e <= b
      <4>1. e \in 1..b
        BY <1>3, <3>1
      <4> QED
        BY <2>4, <2>5, <3>1, <4>1
    <3>2. CASE e = b + 1
      <4>1. e - b = 1 /\ ~(e <= b) /\ e + 2 = b + 3
        BY <1>3, <3>2
      <4> QED
        BY <2>3, <2>4, <2>5, <4>1
    <3>3. CASE e = b + 2
      <4>1. e - b = 2 /\ ~(e <= b) /\ e + 2 = b + 4
        BY <1>3, <3>3
      <4> QED
        BY <2>3, <2>4, <2>5, <4>1
    <3>4. e <= b \/ e = b + 1 \/ e = b + 2
      BY <1>3
    <3> QED
      BY <3>1, <3>2, <3>3, <3>4
  <2>7. s \o two = t
    BY <2>2, <2>5, <2>6, SeqEqual
  <2> QED
    BY <2>7 DEF s, t, two
<1>8. /\ DOMAIN sh' = {"at", "line", "pipes_fd", "k"} /\ sh'.at = "pipe"
      /\ sh'.line = line /\ sh'.k = k + 1 /\ sh'.pipes_fd = PipeFds(b + 2)
  BY <1>1, <1>2, <1>4, <1>7 DEF line, k
<1>9. PromptInv(r, sh', child)
  BY <1>2, <1>3, <1>5, <1>8 DEF PromptInv
<1> QED
  BY <1>1, <1>5, <1>8, <1>9, ShellSteps DEF o, r, line

\* closes the next end,
LEMMA CloseStep ==
    ASSUME ShellIInv, close_ends
    PROVE  ShellIInv'
<1> DEFINE o == os
           r == os'
           k == sh.k
           line == sh.line
           all == PipeEnds(line)
<1>1. /\ sh.at = "close" /\ k <= Len(sh.pipes_fd) /\ r = sys_close(o, 0, sh.pipes_fd[k])
      /\ sh' = [sh EXCEPT !.k = @ + 1] /\ child' = child
      /\ OsInv(o) /\ PromptInv(o, sh, child)
  BY DEF close_ends, ShellIInv
<1>2. /\ GoodLine(line) /\ k \in 1..(all + 1) /\ sh.pipes_fd = PipeFds(all)
      /\ HoldsEnds(o, k, all)
      /\ DOMAIN sh = {"at", "line", "pipes_fd", "k"}
  BY <1>1 DEF PromptInv
<1>3. all \in 0..(2 * MaxPipes) /\ all \in Nat
  BY <1>2, LineFacts
<1> HIDE DEF o, r, k, all, line
<1>4. Len(PipeFds(all)) = all
  <2>1. PipeFds(all) \in [1..all -> Nat]
    BY <1>3 DEF PipeFds
  <2> QED
    BY <1>3, <2>1, IsSequence
<1>5. k \in 1..all /\ k <= all /\ k \in Nat \ {0} /\ k + 1 \in 1..(all + 1)
  BY <1>1, <1>2, <1>3, <1>4
<1>6. sh.pipes_fd[k] = k + 2
  BY <1>2, <1>5 DEF PipeFds
<1> DEFINE z == 0
           in == Stdin
           dst == Stdout
<1>7. /\ z \in Procs /\ TableIs(o.fd_table[z], in, dst, k, all, Got, None)
      /\ r = sys_close(o, z, k + 2) /\ Got \in {Got, all + 3}
  BY <1>1, <1>2, <1>6 DEF HoldsEnds, Procs
<1> HIDE DEF z, in, dst
<1>8. Makes(o, r, z, in, dst, k + 1, all, Got, None)
  BY <1>1, <1>3, <1>5, <1>7, CloseMakes
<1>9. /\ OsInv(r) /\ KeepsOpen(o, r) /\ HoldsEnds(r, k + 1, all)
      /\ \A p \in Children : r.fd_table[p] = o.fd_table[p]
  BY <1>8 DEF Makes, HoldsEnds, z, in, dst, Procs, Children
<1>10. /\ DOMAIN sh' = {"at", "line", "pipes_fd", "k"} /\ sh'.at = "close"
       /\ sh'.line = line /\ sh'.k = k + 1 /\ sh'.pipes_fd = PipeFds(all)
  BY <1>1, <1>2 DEF line, k
<1>11. PromptInv(r, sh', child)
  BY <1>2, <1>5, <1>9, <1>10 DEF PromptInv, all
<1> QED
  BY <1>1, <1>9, <1>10, <1>11, ShellSteps DEF o, r, line

\* A place without a child has the status none.
LEMMA NoChildIs ==
    NoChild.status = "none"
  BY DEF NoChild

\* It keeps it when it forks the next child, whose table is then that of the
\* first stage,
LEMMA ForkStep ==
    ASSUME ShellIInv, shell_fork
    PROVE  ShellIInv'
<1> DEFINE o == os
           r == os'
           k == IF sh.at = "pipe" THEN 1 ELSE sh.k
           line == sh.line
           all == PipeEnds(line)
           new == [NoChild EXCEPT !.status = "setup", !.app = line[k].app,
                                  !.arg = line[k].arg,
                                  !.calls = Setup(line[k], k, Len(line), sh.pipes_fd)]
<1>1. /\ sh.at = "pipe" => sh.k = Len(line)
      /\ sh.at \in {"pipe", "fork"} /\ k <= Len(line) /\ r = fork_fds(o, 0, k)
      /\ child' = [child EXCEPT ![k] = new]
      /\ sh' = IF k < Len(line) THEN [sh EXCEPT !.at = "fork", !.k = k + 1]
               ELSE [sh EXCEPT !.at = "close", !.k = 1]
      /\ OsInv(o) /\ PromptInv(o, sh, child) /\ DOMAIN child = Children
  BY DEF shell_fork, ShellIInv
<1>2. /\ GoodLine(line) /\ DOMAIN sh = {"at", "line", "pipes_fd", "k"}
  BY <1>1 DEF PromptInv
<1>3. Len(line) \in Nat /\ Len(line) >= 1 /\ all \in Nat /\ all = 2 * (Len(line) - 1)
  BY <1>2, LineFacts DEF PipeEnds
<1>4. /\ k \in 1..Len(line) /\ sh.pipes_fd = PipeFds(all) /\ HoldsEnds(o, 1, all)
      /\ None_(child, {c \in Children : c >= k})
  <2>1. CASE sh.at = "pipe"
    <3>1. /\ sh.pipes_fd = PipeFds(2 * (sh.k - 1)) /\ HoldsEnds(o, 1, 2 * (sh.k - 1))
          /\ None_(child, Children)
      BY <1>1, <2>1 DEF PromptInv
    <3>2. sh.pipes_fd = PipeFds(all) /\ HoldsEnds(o, 1, all)
      BY <1>1, <1>3, <2>1, <3>1
    <3> QED
      BY <1>1, <1>3, <2>1, <3>1, <3>2 DEF None_
  <2>2. CASE sh.at = "fork"
    <3>1. /\ sh.k \in 2..Len(line) /\ sh.pipes_fd = PipeFds(all)
          /\ HoldsEnds(o, 1, all) /\ None_(child, {c \in Children : c >= sh.k})
      BY <1>1, <2>2 DEF PromptInv
    <3>2. k = sh.k /\ sh.k \in 1..Len(line)
      BY <1>3, <2>2, <3>1
    <3> HIDE DEF k
    <3>3. None_(child, {c \in Children : c >= k})
      BY <3>1, <3>2
    <3> QED
      BY <3>1, <3>2, <3>3
  <2> QED
    BY <1>1, <2>1, <2>2
<1>5. k \in Children /\ k \in Nat
  BY <1>2, <1>4, LineFacts
<1>6. /\ DOMAIN new = DOMAIN NoChild /\ new.status = "setup" /\ new.app = line[k].app
      /\ new.arg = line[k].arg
      /\ new.calls = Setup(line[k], k, Len(line), PipeFds(all))
  BY <1>4 DEF NoChild
<1>7. /\ DOMAIN child' = Children /\ child'[k] = new
      /\ \A q \in Children \ {k} : child'[q] = child[q]
  BY <1>1, <1>5
<1> HIDE DEF o, r, k, line, new
<1>8. new.calls = CallsFrom(line, k)
  BY <1>2, <1>4, <1>6, SetupIs DEF all
<1> HIDE DEF all
<1>9. /\ OsInv(r) /\ KeepsOpen(o, r)
      /\ r.fd_table = [o.fd_table EXCEPT ![k] = o.fd_table[0]]
  BY <1>1, <1>5, ForkKeeps
<1>10. /\ r.fd_table[k] = o.fd_table[0]
       /\ \A q \in Procs \ {k} : r.fd_table[q] = o.fd_table[q]
  BY <1>1, <1>5, <1>9 DEF OsInv, Procs
<1>11. r.fd_table[0] = o.fd_table[0]
  BY <1>5, <1>10 DEF Procs, Children
<1>12. ChildInv(r, new, line, k)
  <2>1. StageFrom(r, new, line, k)
    BY <1>4, <1>8, <1>10 DEF StageFrom, HasAll, HoldsEnds, all
  <2>2. SetsUp(r, new, line, k)
    BY <1>6, <2>1 DEF SetsUp
  <2> QED
    BY <1>1, <1>2, <1>6, <2>2 DEF ChildInv
<1>13. ASSUME NEW q \in Children
       PROVE  ChildInv(r, child'[q], line, q)
  <2>1. CASE q = k
    BY <1>7, <1>12, <2>1
  <2>2. CASE q # k
    <3>1. ChildInv(o, child[q], line, q)
      BY DEF ShellIInv, o, line
    <3>2. r.fd_table[q] = o.fd_table[q] /\ child'[q] = child[q]
      BY <1>7, <1>10, <2>2 DEF Procs
    <3>3. ChildInv(r, child[q], line, q)
      BY <1>1, <1>9, <3>1, <3>2, ChildKept
    <3> QED
      BY <3>2, <3>3
  <2> QED
    BY <2>1, <2>2
<1>14. HoldsEnds(r, 1, all)
  BY <1>4, <1>11 DEF HoldsEnds
<1>15. PromptInv(r, sh', child') /\ sh'.line = line
  <2>1. CASE k < Len(line)
    <3>1. /\ DOMAIN sh' = {"at", "line", "pipes_fd", "k"} /\ sh'.at = "fork"
          /\ sh'.line = line /\ sh'.k = k + 1 /\ sh'.pipes_fd = PipeFds(all)
      BY <1>1, <1>2, <1>4, <2>1 DEF line
    <3>2. k + 1 \in 2..Len(line)
      BY <1>3, <1>4, <2>1
    <3>3. None_(child', {c \in Children : c >= k + 1})
      <4> SUFFICES ASSUME NEW c \in Children, c >= k + 1
                   PROVE  child'[c].status = "none"
        BY DEF None_
      <4>1. c # k /\ c >= k
        BY <1>5 DEF Children
      <4> QED
        BY <1>4, <1>7, <4>1 DEF None_
    <3> QED
      BY <1>2, <1>14, <3>1, <3>2, <3>3 DEF PromptInv, all
  <2>2. CASE ~(k < Len(line))
    <3>1. /\ DOMAIN sh' = {"at", "line", "pipes_fd", "k"} /\ sh'.at = "close"
          /\ sh'.line = line /\ sh'.k = 1 /\ sh'.pipes_fd = PipeFds(all)
      BY <1>1, <1>2, <1>4, <2>2 DEF line
    <3>2. 1 \in 1..(all + 1)
      BY <1>3
    <3> QED
      BY <1>2, <1>14, <3>1, <3>2 DEF PromptInv, all
  <2> QED
    BY <2>1, <2>2
<1> QED
  BY <1>7, <1>9, <1>13, <1>15 DEF ShellIInv, r

\* and when it waits for one.
LEMMA WaitStep ==
    ASSUME ShellIInv, wait_children
    PROVE  ShellIInv'
<1> DEFINE k == IF sh.at = "close" THEN 1 ELSE sh.k
           line == sh.line
           all == PipeEnds(line)
           o == os
<1>1. /\ \/ sh.at = "wait"
         \/ sh.at = "close" /\ sh.k > Len(sh.pipes_fd)
      /\ child[k].status = "zombie" /\ child' = [child EXCEPT ![k] = NoChild]
      /\ sh' = IF k < Len(line) THEN [sh EXCEPT !.at = "wait", !.k = k + 1]
               ELSE [sh EXCEPT !.at = "prompt", !.k = 0]
      /\ os' = o /\ OsInv(o) /\ PromptInv(o, sh, child) /\ DOMAIN child = Children
  <2>1. OsInv(o) /\ PromptInv(o, sh, child) /\ DOMAIN child = Children
    BY DEF ShellIInv
  <2>2. /\ \/ sh.at = "wait"
           \/ sh.at = "close" /\ sh.k > Len(sh.pipes_fd)
        /\ os' = o
    BY DEF wait_children
  <2>3. /\ child[k].status = "zombie" /\ child' = [child EXCEPT ![k] = NoChild]
        /\ sh' = IF k < Len(line) THEN [sh EXCEPT !.at = "wait", !.k = k + 1]
                 ELSE [sh EXCEPT !.at = "prompt", !.k = 0]
    <3>1. \E j \in {k} :
             /\ child[j].status = "zombie" /\ child' = [child EXCEPT ![j] = NoChild]
             /\ sh' = IF j < Len(line) THEN [sh EXCEPT !.at = "wait", !.k = j + 1]
                      ELSE [sh EXCEPT !.at = "prompt", !.k = 0]
      BY DEF wait_children
    <3> HIDE DEF k
    <3> QED
      BY <3>1
  <2> QED
    BY <2>1, <2>2, <2>3
<1>2. GoodLine(line) /\ DOMAIN sh = {"at", "line", "pipes_fd", "k"}
  BY <1>1 DEF PromptInv
<1>3. Len(line) \in Nat /\ Len(line) >= 1 /\ all \in Nat
  BY <1>2, LineFacts
<1> HIDE DEF o, all
<1>4. /\ k \in 1..Len(line) /\ HoldsEnds(o, 1, 0)
      /\ None_(child, {c \in Children : c < k})
  <2>1. CASE sh.at = "wait"
    <3>1. /\ sh.k \in 2..Len(line)
          /\ HoldsEnds(o, 1, 0) /\ None_(child, {c \in Children : c < sh.k})
      BY <1>1, <2>1 DEF PromptInv
    <3>2. k = sh.k
      BY <2>1
    <3> QED
      BY <1>3, <3>1, <3>2
  <2>2. CASE sh.at = "close"
    <3>1. /\ sh.k \in 1..(all + 1) /\ sh.pipes_fd = PipeFds(all)
          /\ HoldsEnds(o, sh.k, all)
      BY <1>1, <2>2 DEF PromptInv, all
    <3>2. PipeFds(all) \in [1..all -> Nat]
      BY <1>3 DEF PipeFds
    <3>3. Len(PipeFds(all)) = all
      BY <1>3, <3>2, IsSequence
    <3> DEFINE a == sh.k
               in == Stdin
               dst == Stdout
               t == o.fd_table[0]
    <3>4. a \in Nat \ {0} /\ a > all /\ Got \in Int
      BY <1>1, <1>3, <2>2, <3>1, <3>3 DEF Got
    <3>5. TableIs(t, in, dst, a, all, Got, None)
      BY <3>1 DEF HoldsEnds
    <3> HIDE DEF a, in, dst, t
    <3>6. TableIs(t, in, dst, 1, 0, Got, None)
      BY <1>3, <3>4, <3>5, TableFrees
    <3>7. HoldsEnds(o, 1, 0)
      BY <3>6 DEF HoldsEnds, t, in, dst
    <3>8. None_(child, {c \in Children : c < k})
      BY <2>2 DEF None_, Children
    <3> QED
      BY <1>3, <2>2, <3>7, <3>8
  <2> QED
    BY <1>1, <2>1, <2>2
<1>5. k \in Children /\ k \in Nat
  BY <1>2, <1>4, LineFacts
<1>6. /\ DOMAIN child' = Children /\ child'[k] = NoChild
      /\ \A q \in Children \ {k} : child'[q] = child[q]
  BY <1>1, <1>5
<1>7. ASSUME NEW q \in Children
      PROVE  ChildInv(o, child'[q], line, q)
  <2>1. ChildInv(o, child[q], line, q)
    BY DEF ShellIInv, o
  <2>2. CASE q = k
    <3>1. o.fd_table[q] = <<>>
      BY <1>1, <2>1, <2>2 DEF ChildInv
    <3> QED
      BY <1>6, <2>2, <3>1, NoChildIs DEF ChildInv
  <2>3. CASE q # k
    BY <1>6, <2>1, <2>3
  <2> QED
    BY <2>2, <2>3
<1>8. None_(child', {c \in Children : c < k + 1})
  <2> SUFFICES ASSUME NEW c \in Children, c < k + 1
               PROVE  child'[c].status = "none"
    BY DEF None_
  <2>1. CASE c = k
    BY <1>6, <2>1, NoChildIs
  <2>2. CASE c # k
    <3>1. c < k
      BY <1>5, <2>2 DEF Children
    <3> QED
      BY <1>4, <1>6, <2>2, <3>1 DEF None_
  <2> QED
    BY <2>1, <2>2
<1> HIDE DEF k, line
<1>9. PromptInv(o, sh', child') /\ sh'.line = line
  <2>1. CASE k < Len(line)
    <3>1. /\ DOMAIN sh' = {"at", "line", "pipes_fd", "k"} /\ sh'.at = "wait"
          /\ sh'.line = line /\ sh'.k = k + 1
      BY <1>1, <1>2, <2>1 DEF line
    <3>2. k + 1 \in 2..Len(line)
      BY <1>3, <1>4, <2>1
    <3> QED
      BY <1>2, <1>4, <1>8, <3>1, <3>2 DEF PromptInv
  <2>2. CASE ~(k < Len(line))
    <3>1. /\ DOMAIN sh' = {"at", "line", "pipes_fd", "k"} /\ sh'.at = "prompt"
          /\ sh'.line = line
      BY <1>1, <1>2, <2>2 DEF line
    <3>2. None_(child', Children)
      <4> SUFFICES ASSUME NEW c \in Children, child'[c].status # "none"
                   PROVE  FALSE
        BY DEF None_
      <4>1. c <= Len(line)
        BY <1>7 DEF ChildInv
      <4>2. c < k + 1
        BY <1>3, <1>4, <2>2, <4>1 DEF Children
      <4> QED
        BY <1>8, <4>2 DEF None_
    <3> QED
      BY <1>4, <3>1, <3>2 DEF PromptInv
  <2> QED
    BY <2>1, <2>2
<1> QED
  BY <1>1, <1>6, <1>7, <1>9 DEF ShellIInv, o

-----------------------------------------------------------------------------
(* The invariant, and what it shows.                                       *)

\* The invariant holds at the first prompt.
LEMMA ShellStarts ==
    ASSUME ShellInit
    PROVE  ShellIInv
<1>1. /\ os = [fd_table |-> [p \in {0} \cup Children |->
                                IF p = 0 THEN NewTable ELSE <<>>],
               open |-> [k \in 1..MaxOpen |-> None],
               files |-> InitFiles,
               pipes |-> [k \in 1..MaxPipes |-> <<>>],
               screen |-> <<>>]
      /\ sh = [at |-> "prompt", line |-> <<>>, pipes_fd |-> <<>>, k |-> 0]
      /\ child = [c \in Children |-> NoChild]
  BY DEF ShellInit
<1>2. /\ DOMAIN os = {"fd_table", "open", "files", "pipes", "screen"}
      /\ os.fd_table = [p \in {0} \cup Children |-> IF p = 0 THEN NewTable ELSE <<>>]
      /\ os.open = [k \in 1..MaxOpen |-> None]
  BY <1>1
<1>3. Stdin \in AnyFile /\ Stdout \in AnyFile /\ 0 \notin Children
  BY DEF AnyFile, Children
<1>4. /\ NewTable \in Seq(AnyFile \cup {None}) /\ Len(NewTable) = 3
      /\ NewTable[1] = Stdin /\ NewTable[2] = Stdout /\ NewTable[3] = Stdout
  BY <1>3 DEF NewTable
<1>5. os.fd_table[0] = NewTable /\ \A c \in Children : os.fd_table[c] = <<>>
  BY <1>2, <1>3
<1>6. <<>> \in Seq(AnyFile \cup {None})
  OBVIOUS
<1>7. os.fd_table \in [{0} \cup Children -> Seq(AnyFile \cup {None})]
  BY <1>2, <1>4, <1>6
<1>8. \A k \in 1..MaxOpen : OSInode(k) \notin Entries(os)
  <2> SUFFICES ASSUME NEW k \in 1..MaxOpen, NEW p \in {0} \cup Children,
                      OSInode(k) \in ToSet(os.fd_table[p])
               PROVE  FALSE
    BY <1>7 DEF Entries
  <2>1. DOMAIN os.fd_table[p] = 1..Len(os.fd_table[p])
    BY <1>7, LenProperties
  <2>2. PICK h \in 1..Len(os.fd_table[p]) : OSInode(k) = os.fd_table[p][h]
    BY <2>1 DEF ToSet
  <2>3. OSInode(k) # Stdin /\ OSInode(k) # Stdout
    BY DEF OSInode, Stdin, Stdout
  <2>4. CASE p = 0
    <3>1. h \in 1..3 /\ OSInode(k) = NewTable[h]
      BY <1>4, <1>5, <2>2, <2>4
    <3> QED
      BY <1>4, <2>3, <3>1
  <2>5. CASE p # 0
    <3>1. os.fd_table[p] = <<>>
      BY <1>5, <2>5
    <3> QED
      BY <2>2, <3>1
  <2> QED
    BY <2>4, <2>5
<1>9. OsInv(os)
  BY <1>2, <1>7, <1>8 DEF OsInv
<1>10. \A c \in Children : child[c] = NoChild
  BY <1>1
<1>11. \A c \in Children : ChildInv(os, child[c], sh.line, c)
  BY <1>5, <1>10, NoChildIs DEF ChildInv
<1>12. HoldsEnds(os, 1, 0)
  <2> DEFINE t == NewTable
  <2>1. /\ t \in Seq(AnyFile \cup {None}) /\ Len(t) = 3
        /\ t[1] = Stdin /\ t[2] = Stdout /\ t[3] = Stdout
    BY <1>4
  <2> HIDE DEF t
  <2>2. TableIs(t, Stdin, Stdout, 1, 0, Got, None)
    BY <2>1 DEF TableIs, AtIndex, Got
  <2> QED
    BY <1>5, <2>2 DEF HoldsEnds, t
<1>13. sh.at = "prompt" /\ DOMAIN sh = {"at", "line", "pipes_fd", "k"}
  BY <1>1
<1>14. None_(child, Children)
  BY <1>10, NoChildIs DEF None_
<1>15. PromptInv(os, sh, child)
  BY <1>12, <1>13, <1>14 DEF PromptInv
<1> QED
  BY <1>1, <1>9, <1>11, <1>15 DEF ShellIInv

\* What a program that runs at c has, in terms of descriptors.
LEMMA RunsWired ==
    ASSUME NEW o, OsInv(o), NEW line, GoodLine(line), NEW c \in Children, c <= Len(line),
           NEW fd \in Int, fd = Got \/ fd = 3, NEW file, RunsAt(o, line, c, fd, file)
    PROVE  LET cmd == line[c]
               in == FileAt(o, c, 0)
               dst == FileAt(o, c, 1)
           IN  /\ in = IF c > 1 THEN ReadEnd(c - 1)
                       ELSE IF cmd.input = None THEN Stdin ELSE in
               /\ cmd.input # None =>
                     /\ in[1] = "inode" /\ o.open[in[2]].name = cmd.input
                     /\ o.open[in[2]].readable
               /\ dst = IF c < Len(line) THEN WriteEnd(c)
                        ELSE IF cmd.output = None THEN Stdout ELSE dst
               /\ cmd.output # None =>
                     /\ dst[1] = "inode" /\ o.open[dst[2]].name = cmd.output
                     /\ o.open[dst[2]].writable
               /\ \A d \in 3..Len(o.fd_table[c]) :
                     FileAt(o, c, d) # None => fd = 3 /\ d = 3
<1> DEFINE t == o.fd_table[c]
           cmd == line[c]
<1>1. c \in 1..Len(line)
  BY LineFacts DEF Children
<1>2. PICK in \in AnyFile, dst \in AnyFile :
         /\ InputOf(o, in, line, c) /\ OutputOf(o, dst, line, c)
         /\ TableIs(t, in, dst, 1, 0, fd, file)
  BY DEF RunsAt
<1>3. /\ Len(t) \in Nat /\ Len(t) >= 3 /\ DOMAIN t = 1..Len(t)
      /\ \A h \in 1..Len(t) : t[h] = AtIndex(h, in, dst, 1, 0, fd, file)
  BY <1>2, LenProperties DEF TableIs
<1>4. FileAt(o, c, 0) = in /\ FileAt(o, c, 1) = dst
  BY <1>3 DEF FileAt, AtIndex
<1>5. /\ c > 1 => cmd.input = None
      /\ c < Len(line) => cmd.output = None
  BY <1>1, LineFacts
<1>6. in = IF c > 1 THEN ReadEnd(c - 1) ELSE IF cmd.input = None THEN Stdin ELSE in
  BY <1>2 DEF InputOf, InputAt
<1>7. dst = IF c < Len(line) THEN WriteEnd(c)
            ELSE IF cmd.output = None THEN Stdout ELSE dst
  BY <1>2 DEF OutputOf, OutputAt
<1>8. ASSUME cmd.input # None
      PROVE  /\ in[1] = "inode" /\ o.open[in[2]].name = cmd.input
             /\ o.open[in[2]].readable
  <2>1. OpensFor(o, in, cmd.input)
    BY <1>2, <1>5, <1>8 DEF InputOf, InputAt
  <2>2. PICK k \in 1..MaxOpen : /\ in = OSInode(k) /\ o.open[k].name = cmd.input
                                /\ o.open[k].readable
    BY <2>1 DEF OpensFor
  <2>3. in[1] = "inode" /\ in[2] = k
    BY <2>2 DEF OSInode
  <2> QED
    BY <2>2, <2>3
<1>9. ASSUME cmd.output # None
      PROVE  /\ dst[1] = "inode" /\ o.open[dst[2]].name = cmd.output
             /\ o.open[dst[2]].writable
  <2>1. OpensTo(o, dst, cmd.output)
    BY <1>2, <1>5, <1>9 DEF OutputOf, OutputAt
  <2>2. PICK k \in 1..MaxOpen : /\ dst = OSInode(k) /\ o.open[k].name = cmd.output
                                /\ o.open[k].writable
    BY <2>1 DEF OpensTo
  <2>3. dst[1] = "inode" /\ dst[2] = k
    BY <2>2 DEF OSInode
  <2> QED
    BY <2>2, <2>3
<1>10. ASSUME NEW d \in 3..Len(t), FileAt(o, c, d) # None
       PROVE  fd = 3 /\ d = 3
  <2>1. d + 1 \in 1..Len(t)
    BY <1>3, <1>10 DEF FileAt
  <2>2. FileAt(o, c, d) = AtIndex(d + 1, in, dst, 1, 0, fd, file)
    BY <1>3, <2>1 DEF FileAt
  <2> QED
    BY <1>3, <1>10, <2>2 DEF AtIndex, Got
<1> QED
  BY <1>4, <1>6, <1>7, <1>8, <1>9, <1>10

\* The invariant implies what ShellWiring says.
LEMMA WiringHolds ==
    ASSUME ShellIInv
    PROVE  ShellWiring
<1>1. ASSUME NEW c \in Children, child[c].status \in {"open", "read", "print"},
             child[c].app \in Apps
      PROVE  LET cmd == sh.line[c]
                 in == FileAt(os, c, 0)
                 dst == FileAt(os, c, 1)
             IN  /\ in = IF c > 1 THEN ReadEnd(c - 1)
                         ELSE IF cmd.input = None THEN Stdin ELSE in
                 /\ cmd.input # None =>
                       /\ in[1] = "inode"
                       /\ os.open[in[2]].name = cmd.input
                       /\ os.open[in[2]].readable
                 /\ dst = IF c < Len(sh.line) THEN WriteEnd(c)
                          ELSE IF cmd.output = None THEN Stdout ELSE dst
                 /\ cmd.output # None =>
                       /\ dst[1] = "inode"
                       /\ os.open[dst[2]].name = cmd.output
                       /\ os.open[dst[2]].writable
                 /\ \A fd \in 3..Len(os.fd_table[c]) :
                       FileAt(os, c, fd) # None =>
                           child[c].app = "cat" /\ fd = child[c].fd
  <2> DEFINE o == os
             line == sh.line
             ch == child[c]
  <2>1. OsInv(o) /\ ChildInv(o, ch, line, c)
    BY DEF ShellIInv
  <2>2. GoodLine(line) /\ c <= Len(line)
    BY <1>1, <2>1 DEF ChildInv
  <2>3. \E fd \in Int : \E file :
           /\ fd = Got \/ fd = 3
           /\ RunsAt(o, line, c, fd, file)
           /\ fd = 3 => ch.app = "cat" /\ ch.fd = 3
    <3>1. Got \in Int /\ Got # 3
      BY DEF Got
    <3>2. CASE ch.status = "open"
      BY <2>1, <3>1, <3>2 DEF ChildInv
    <3>3. CASE ch.status \in {"read", "print"}
      <4>1. RunsApp(o, ch, line, c)
        BY <1>1, <2>1, <3>3 DEF ChildInv
      <4>2. CASE ch.app = "cat"
        BY <4>1, <4>2 DEF RunsApp
      <4>3. CASE ch.app # "cat"
        BY <3>1, <4>1, <4>3 DEF RunsApp
      <4> QED
        BY <4>2, <4>3
    <3> QED
      BY <1>1, <3>2, <3>3
  <2>4. PICK fd \in Int : \E file :
           /\ fd = Got \/ fd = 3
           /\ RunsAt(o, line, c, fd, file)
           /\ fd = 3 => ch.app = "cat" /\ ch.fd = 3
    BY <2>3
  <2>5. PICK file :
           /\ fd = Got \/ fd = 3
           /\ RunsAt(o, line, c, fd, file)
           /\ fd = 3 => ch.app = "cat" /\ ch.fd = 3
    BY <2>4
  <2> HIDE DEF o, line, ch
  <2> DEFINE cmd == line[c]
             in == FileAt(o, c, 0)
             dst == FileAt(o, c, 1)
  <2>6. /\ in = IF c > 1 THEN ReadEnd(c - 1)
                ELSE IF cmd.input = None THEN Stdin ELSE in
        /\ cmd.input # None =>
              /\ in[1] = "inode" /\ o.open[in[2]].name = cmd.input
              /\ o.open[in[2]].readable
        /\ dst = IF c < Len(line) THEN WriteEnd(c)
                 ELSE IF cmd.output = None THEN Stdout ELSE dst
        /\ cmd.output # None =>
              /\ dst[1] = "inode" /\ o.open[dst[2]].name = cmd.output
              /\ o.open[dst[2]].writable
        /\ \A d \in 3..Len(o.fd_table[c]) :
              FileAt(o, c, d) # None => fd = 3 /\ d = 3
    BY <2>1, <2>2, <2>5, RunsWired
  <2>7. \A d \in 3..Len(o.fd_table[c]) :
           FileAt(o, c, d) # None => ch.app = "cat" /\ d = ch.fd
    BY <2>5, <2>6
  <2> QED
    BY <2>6, <2>7 DEF o, line, ch
<1>2. ASSUME sh.at = "prompt"
      PROVE  {file \in Entries(os) : file # None} = {Stdin, Stdout}
  <2> DEFINE t == os.fd_table[0]
  <2>1. /\ HoldsEnds(os, 1, 0) /\ None_(child, Children) /\ OsInv(os)
        /\ \A c \in Children : ChildInv(os, child[c], sh.line, c)
    BY <1>2 DEF ShellIInv, PromptInv
  <2>2. \A c \in Children : os.fd_table[c] = <<>>
    BY <2>1 DEF None_, ChildInv
  <2>3. /\ Len(t) \in Nat /\ Len(t) >= 3
        /\ \A h \in 1..Len(t) : t[h] = AtIndex(h, Stdin, Stdout, 1, 0, Got, None)
    BY <2>1, LenProperties DEF HoldsEnds, TableIs
  <2>4. /\ t[1] = Stdin /\ t[2] = Stdout
        /\ \A h \in 1..Len(t) : t[h] \in {Stdin, Stdout, None}
    BY <2>3 DEF AtIndex, Got
  <2>5. Stdin # None /\ Stdout # None
    BY OpenFilesAssumption DEF AnyFile
  <2>6. Stdin \in Entries(os) /\ Stdout \in Entries(os)
    <3>1. 0 \in Procs /\ 1 \in 1..Len(t) /\ 2 \in 1..Len(t)
      BY <2>3 DEF Procs
    <3> QED
      BY <2>1, <2>4, <3>1, EntriesAre
  <2>7. ASSUME NEW x \in Entries(os)
        PROVE  x \in {Stdin, Stdout, None}
    <3> DEFINE o == os
    <3>1. OsInv(o) /\ x \in Entries(o)
      BY <2>1, <2>7
    <3> HIDE DEF o
    <3>2. PICK p \in Procs : \E h \in 1..Len(o.fd_table[p]) : x = o.fd_table[p][h]
      BY <3>1, EntriesAre
    <3>3. PICK h \in 1..Len(o.fd_table[p]) : x = o.fd_table[p][h]
      BY <3>2
    <3>4. CASE p = 0
      BY <2>4, <3>3, <3>4 DEF o
    <3>5. CASE p # 0
      <4>1. o.fd_table[p] = <<>>
        BY <2>2, <3>5 DEF Procs, o
      <4> QED
        BY <3>3, <4>1
    <3> QED
      BY <3>4, <3>5
  <2> QED
    BY <2>5, <2>6, <2>7
<1> QED
  BY <1>1, <1>2 DEF ShellWiring

\* The inductive invariant: where every process is in its setup is what its table
\* says.
THEOREM ShellInductive == ShellSpec => []ShellIInv
<1>1. ShellInit => ShellIInv
  BY ShellStarts
<1>2. ShellIInv /\ [\/ \E p \in {0} \cup Children : ShellStep(p)
                    \/ \E line \in Lines : read_line(line) \/ refuse_line(line)
                   ]_shellVars => ShellIInv'
  <2> SUFFICES ASSUME ShellIInv,
                      [\/ \E p \in {0} \cup Children : ShellStep(p)
                       \/ \E line \in Lines : read_line(line) \/ refuse_line(line)
                      ]_shellVars
               PROVE  ShellIInv'
    OBVIOUS
  <2>1. ASSUME NEW p \in {0} \cup Children, ShellStep(p)
        PROVE  ShellIInv'
    <3>1. CASE p = 0
      <4>1. shell_pipe \/ shell_fork \/ close_ends \/ wait_children
        BY <2>1, <3>1 DEF ShellStep
      <4> QED
        BY <4>1, PipeStep, ForkStep, CloseStep, WaitStep
    <3>2. CASE p # 0
      <4>1. p \in Children
        BY <3>2
      <4>2. setup_call(p) \/ shell_exec(p) \/ cat_open(p) \/ app_read(p)
              \/ app_print(p) \/ app_exit(p)
        BY <2>1, <3>2 DEF ShellStep
      <4> QED
        BY <4>1, <4>2, SetupCallKeeps, ExecKeeps, CatOpenKeeps, ReadKeeps, PrintKeeps,
           ExitsKeep
    <3> QED
      BY <3>1, <3>2
  <2>2. ASSUME NEW line \in Lines, read_line(line) \/ refuse_line(line)
        PROVE  ShellIInv'
    BY <2>2, ReadLineKeeps, RefuseKeeps
  <2>3. CASE UNCHANGED shellVars
    BY <2>3 DEF shellVars, ShellIInv
  <2> QED
    BY <2>1, <2>2, <2>3
<1> QED
  BY <1>1, <1>2, PTL DEF ShellSpec

\* For every set of lines and every number of files and pipes: a program that runs
\* has the input and the output of its place in the line and no other end of a
\* pipe, and the shell has none at the prompt.
THEOREM ShellIsWired == ShellSpec => []ShellWiring
<1>1. ShellIInv => ShellWiring
  BY WiringHolds
<1> QED
  BY <1>1, ShellInductive, PTL
=============================================================================
