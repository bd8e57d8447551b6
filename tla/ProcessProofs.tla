--------------------------- MODULE ProcessProofs ---------------------------
(***************************************************************************)
(* Proofs about processes and threads: whatever the number of processes    *)
(* and threads and whatever the programs call, the processes are a tree    *)
(* under INITPROC and the allocators agree with what exists.               *)
(***************************************************************************)
EXTENDS Process, QueueLemmas, FiniteSetTheorems

-----------------------------------------------------------------------------
(* RecycleAllocator: an id that alloc returns was not given out, and       *)
(* dealloc takes back just the one, for every sound allocator.             *)

\* A new allocator is sound and has given out nothing.
THEOREM NewIsSound == Sound(new) /\ Given(new) = {}
  BY DEF Sound, new, Allocators, Given, Range, IsInjective

\* alloc returns an id that was not given out, and keeps the allocator sound: two
\* processes, or two threads of one, never get the same id.
THEOREM AllocIsFresh ==
    ASSUME NEW a, Sound(a)
    PROVE  /\ Sound(alloc(a))
           /\ allocated(a) \in Nat \ Given(a)
           /\ Given(alloc(a)) = Given(a) \cup {allocated(a)}
<1>1. a.current \in Nat /\ a.recycled \in Seq(Nat) /\ a \in Allocators
  BY DEF Sound, Allocators
<1>2. CASE a.recycled # <<>>
  <2>1. /\ Front(a.recycled) \in Seq(Nat)
        /\ Last(a.recycled) \in Range(a.recycled)
        /\ Range(Front(a.recycled)) = Range(a.recycled) \ {Last(a.recycled)}
        /\ IsInjective(Front(a.recycled))
    BY <1>1, <1>2, FrontFacts DEF Sound
  <2>2. allocated(a) = Last(a.recycled)
    BY <1>2 DEF allocated
  <2>3. /\ alloc(a) \in Allocators
        /\ alloc(a).current = a.current
        /\ alloc(a).recycled = Front(a.recycled)
    BY <1>1, <1>2, <2>1 DEF alloc, Allocators
  <2> QED  BY <1>1, <2>1, <2>2, <2>3 DEF Sound, Given
<1>3. CASE a.recycled = <<>>
  <2>1. allocated(a) = a.current /\ Range(a.recycled) = {}
    BY <1>3 DEF allocated, Range
  <2>2. /\ alloc(a) \in Allocators
        /\ alloc(a).current = a.current + 1
        /\ alloc(a).recycled = <<>>
    BY <1>1, <1>3 DEF alloc, Allocators
  <2>3. IsInjective(<<>>) /\ Range(<<>>) = {}
    BY DEF IsInjective, Range
  <2> QED  BY <1>1, <2>1, <2>2, <2>3 DEF Sound, Given
<1> QED  BY <1>2, <1>3

\* dealloc of an id that is given out, as its assertions demand, takes back that id
\* and no other.
THEOREM DeallocIsExact ==
    ASSUME NEW a, Sound(a), NEW id \in Given(a)
    PROVE  Sound(dealloc(a, id)) /\ Given(dealloc(a, id)) = Given(a) \ {id}
<1>1. a.current \in Nat /\ a.recycled \in Seq(Nat) /\ a \in Allocators
  BY DEF Sound, Allocators
<1>2. id \in Nat /\ id \in 0..(a.current - 1) /\ id \notin Range(a.recycled)
  BY <1>1 DEF Given
<1>3. /\ Append(a.recycled, id) \in Seq(Nat)
      /\ Range(Append(a.recycled, id)) = Range(a.recycled) \cup {id}
      /\ IsInjective(Append(a.recycled, id))
  BY <1>1, <1>2, AppendFacts DEF Sound
<1>4. /\ dealloc(a, id) \in Allocators
      /\ dealloc(a, id).current = a.current
      /\ dealloc(a, id).recycled = Append(a.recycled, id)
  BY <1>1, <1>3 DEF dealloc, Allocators
<1> QED  BY <1>1, <1>2, <1>3, <1>4 DEF Sound, Given

\* alloc returns a recycled id, or else the next one.
LEMMA AllocIsNext ==
    ASSUME NEW a, Sound(a)
    PROVE  /\ a \in Allocators /\ a.current \in Nat
           /\ allocated(a) \in Nat
           /\ allocated(a) <= a.current
           /\ alloc(a).current = IF allocated(a) < a.current
                                 THEN a.current ELSE a.current + 1
<1>1. /\ a.current \in Nat /\ a.recycled \in Seq(Nat) /\ a \in Allocators
      /\ Range(a.recycled) \subseteq 0..(a.current - 1)
  BY DEF Sound, Allocators
<1>2. CASE a.recycled # <<>>
  <2>1. allocated(a) \in 0..(a.current - 1)
    BY <1>1, <1>2, FrontFacts DEF Sound, allocated
  <2>2. alloc(a).current = a.current
    BY <1>1, <1>2 DEF alloc, Allocators
  <2> QED  BY <1>1, <2>1, <2>2
<1>3. CASE a.recycled = <<>>
  <2>1. allocated(a) = a.current /\ alloc(a).current = a.current + 1
    BY <1>1, <1>3 DEF alloc, allocated, Allocators
  <2> QED  BY <1>1, <2>1
<1> QED  BY <1>2, <1>3

-----------------------------------------------------------------------------
(* Processes                                                               *)

\* `parent` and `children` are the same relation, from its two sides, between
\* the processes that exist; a process without a PCB is in neither.
TreeExact ==
    /\ INITPROC \in pcbs \ is_zombie
    /\ is_zombie \subseteq pcbs
    /\ \A c \in pcbs \ {INITPROC} : parent[c] \in pcbs \ is_zombie
    /\ \A c \in Pids : c \notin pcbs \ {INITPROC} => parent[c] = None
    /\ \A p \in Pids :
          /\ IsInjective(children[p])
          /\ Range(children[p]) = {c \in pcbs \ {INITPROC} : parent[c] = p}

\* A kernel stack has an Arc of the process only while its thread is in a call,
\* or after the process has left it there; a dropped PCB had none.
StacksExact ==
    /\ \A p \in pcbs \ is_zombie : stack_refs[p] \subseteq in_kernel[p]
    /\ \A p \in Pids \ pcbs : stack_refs[p] = {}
    /\ "abandon" \notin Calls => \A p \in is_zombie : stack_refs[p] = {}

\* Each assertion fails only for the programs that its comment allows for.
PanicCause ==
    \/ panicked = None
    \/ panicked = "fork" /\ "fork_joined" \in Calls
    \/ panicked = "waittid" /\ "waittid_any" \in Calls
    \/ panicked = "waitpid" /\ "abandon" \in Calls

\* The inductive invariant.
ProcessIInv ==
    /\ TypeOK
    /\ TreeExact
    /\ AllDescendFromInit
    /\ PidsExact
    /\ TidsExact
    /\ StacksExact
    /\ PanicCause

-----------------------------------------------------------------------------
(* The slots of `tasks`, for any process                                   *)

Slots == Codes \cup {None, "Live"}
Lives(s) == {i \in Tids : i < Len(s) /\ s[i + 1] = "Live"}

\* What TidsExact says of the slots and the allocator of a process.
TidsOf(s, a) ==
    /\ Sound(a)
    /\ Given(a) = Lives(s)
    /\ Len(s) = a.current
    /\ s[1] = "Live"

\* Each slot has a thread, a code or nothing.
LEMMA SlotFacts ==
    /\ "Live" \notin Codes /\ None \notin Codes /\ None # "Live"
    /\ 0 \in Tids /\ Tids \subseteq Nat /\ Pids \subseteq Nat /\ INITPROC \in Pids
    /\ None \notin Pids
  BY ProcessAssumption DEF Tids, Pids, INITPROC

\* Writing slot i.
LEMMA PutFacts ==
    ASSUME NEW s \in Seq(Slots), NEW i \in Tids, i < Len(s), NEW v \in Slots
    PROVE  /\ [s EXCEPT ![i + 1] = v] \in Seq(Slots)
           /\ Len([s EXCEPT ![i + 1] = v]) = Len(s)
           /\ \A k \in 1..Len(s) :
                 [s EXCEPT ![i + 1] = v][k] = IF k = i + 1 THEN v ELSE s[k]
           /\ v = "Live" => Lives([s EXCEPT ![i + 1] = v]) = Lives(s) \cup {i}
           /\ v # "Live" => Lives([s EXCEPT ![i + 1] = v]) = Lives(s) \ {i}
<1> DEFINE r == [s EXCEPT ![i + 1] = v]
<1>1. i \in Nat /\ Len(s) \in Nat /\ i + 1 \in 1..Len(s)
  BY SlotFacts, LenProperties
<1>2. /\ r \in Seq(Slots) /\ Len(r) = Len(s)
      /\ \A k \in 1..Len(s) : r[k] = IF k = i + 1 THEN v ELSE s[k]
  BY <1>1, ExceptSeq
<1> HIDE DEF r
<1>3. ASSUME NEW j \in Tids
      PROVE  j \in Lives(r)
                <=> j \in IF v = "Live" THEN Lives(s) \cup {i} ELSE Lives(s) \ {i}
  <2>1. j \in Nat
    BY SlotFacts
  <2>2. CASE j = i
    BY <1>1, <1>2, <2>2 DEF Lives
  <2>3. CASE j # i /\ j < Len(s)
    <3>1. j + 1 \in 1..Len(s) /\ j + 1 # i + 1
      BY <1>1, <2>1, <2>3
    <3> QED  BY <1>2, <2>3, <3>1 DEF Lives
  <2>4. CASE j # i /\ ~(j < Len(s))
    BY <1>2, <2>4 DEF Lives
  <2> QED  BY <2>2, <2>3, <2>4
<1>4. Lives(r) \subseteq Tids /\ Lives(s) \subseteq Tids
  BY DEF Lives
<1>5. Lives(r) = IF v = "Live" THEN Lives(s) \cup {i} ELSE Lives(s) \ {i}
  BY <1>3, <1>4
<1> QED  BY <1>2, <1>5 DEF r

\* sys_thread_create makes room for tid.
LEMMA PadFacts ==
    ASSUME NEW s \in Seq(Slots), NEW tid \in Nat, tid <= Len(s)
    PROVE  LET pad == s \o [k \in 1..(tid + 1 - Len(s)) |-> None]
           IN  /\ pad \in Seq(Slots)
               /\ Len(pad) = IF tid < Len(s) THEN Len(s) ELSE Len(s) + 1
               /\ \A k \in 1..Len(s) : pad[k] = s[k]
               /\ tid < Len(pad)
               /\ tid = Len(s) => pad[tid + 1] = None
<1> DEFINE n == tid + 1 - Len(s)
           m == IF tid < Len(s) THEN 0 ELSE 1
           t == [k \in 1..n |-> None]
           pad == s \o t
<1>1. Len(s) \in Nat /\ m \in Nat
  BY LenProperties
<1>2. 1..n = 1..m
  BY <1>1
<1>3. t \in [1..m -> Slots] /\ \A k \in 1..m : t[k] = None
  BY <1>2 DEF Slots
<1> HIDE DEF n, m, t
<1>4. t \in Seq(Slots) /\ Len(t) = m
  <2>1. t \in Seq(Slots)
    BY <1>1, <1>3
  <2>2. DOMAIN t = 1..m
    BY <1>3
  <2>3. DOMAIN t = 1..Len(t) /\ Len(t) \in Nat
    BY <2>1, LenProperties
  <2> QED  BY <1>1, <2>1, <2>2, <2>3
<1>5. /\ pad \in Seq(Slots) /\ Len(pad) = Len(s) + m
      /\ \A k \in 1..(Len(s) + m) :
            pad[k] = IF k <= Len(s) THEN s[k] ELSE t[k - Len(s)]
  BY <1>4, ConcatProperties
<1>6. tid = Len(s) => pad[tid + 1] = None
  <2> SUFFICES ASSUME tid = Len(s) PROVE pad[tid + 1] = None
    OBVIOUS
  <2>1. m = 1 /\ tid + 1 \in 1..(Len(s) + m) /\ (tid + 1) - Len(s) = 1
    BY <1>1 DEF m
  <2> QED  BY <1>1, <1>3, <1>5, <2>1
<1>7. \A k \in 1..Len(s) : pad[k] = s[k]
  BY <1>1, <1>5
<1>8. tid < Len(pad) /\ Len(pad) = IF tid < Len(s) THEN Len(s) ELSE Len(s) + 1
  BY <1>1, <1>5 DEF m
<1> QED  BY <1>5, <1>6, <1>7, <1>8 DEF t, n

\* The first thread of a process.
LEMMA NewTids ==
    <<"Live">> \in Seq(Slots) /\ TidsOf(<<"Live">>, alloc(new))
<1> DEFINE s == <<"Live">>
<1>1. s \in Seq(Slots) /\ Len(s) = 1 /\ s[1] = "Live"
  BY DEF Slots
<1>2. /\ Sound(new) /\ Given(new) = {}
      /\ allocated(new) = 0 /\ new.current = 0
  BY NewIsSound DEF new, allocated
<1>3. /\ Sound(alloc(new)) /\ Given(alloc(new)) = {0}
      /\ alloc(new).current = 1
  BY <1>2, AllocIsFresh, AllocIsNext
<1> HIDE DEF s
<1>4. Lives(s) = {0}
  <2>1. ASSUME NEW i \in Tids, i < 1 PROVE i = 0
    BY <2>1, SlotFacts
  <2>2. s[0 + 1] = "Live" /\ 0 < Len(s)
    BY <1>1
  <2>3. 0 \in Lives(s) /\ \A i \in Lives(s) : i \in Tids /\ i < 1
    BY <1>1, <2>2, SlotFacts DEF Lives
  <2> QED  BY <2>1, <2>3
<1> QED  BY <1>1, <1>3, <1>4 DEF TidsOf, s

\* A new thread has a slot of its own.
LEMMA CreateTids ==
    ASSUME NEW s \in Seq(Slots), NEW a, TidsOf(s, a), Lives(s) # {},
           allocated(a) \in Tids
    PROVE  LET tid == allocated(a)
               padded == s \o [k \in 1..(tid + 1 - Len(s)) |-> None]
               r == [padded EXCEPT ![tid + 1] = "Live"]
           IN  r \in Seq(Slots) /\ TidsOf(r, alloc(a))
<1> DEFINE tid == allocated(a)
           padded == s \o [k \in 1..(tid + 1 - Len(s)) |-> None]
           r == [padded EXCEPT ![tid + 1] = "Live"]
<1>1. Sound(a) /\ Given(a) = Lives(s) /\ Len(s) = a.current /\ s[1] = "Live"
  BY DEF TidsOf
<1>2. /\ tid \in Nat /\ tid <= Len(s) /\ Len(s) \in Nat
      /\ alloc(a).current = IF tid < Len(s) THEN Len(s) ELSE Len(s) + 1
      /\ Sound(alloc(a)) /\ Given(alloc(a)) = Lives(s) \cup {tid}
  BY <1>1, AllocIsNext, AllocIsFresh
<1>3. Len(s) >= 1
  <2>1. PICK i \in Tids : i < Len(s)
    BY DEF Lives
  <2> QED  BY <1>2, <2>1, SlotFacts
<1> HIDE DEF tid
<1>4. /\ padded \in Seq(Slots)
      /\ Len(padded) = IF tid < Len(s) THEN Len(s) ELSE Len(s) + 1
      /\ \A k \in 1..Len(s) : padded[k] = s[k]
      /\ tid < Len(padded)
      /\ tid = Len(s) => padded[tid + 1] = None
  BY <1>2, PadFacts
<1> HIDE DEF padded
<1>5. Lives(padded) = Lives(s)
  <2>1. ASSUME NEW j \in Tids PROVE j \in Lives(padded) <=> j \in Lives(s)
    <3>1. j \in Nat
      BY SlotFacts
    <3>2. CASE j < Len(s)
      <4>1. padded[j + 1] = s[j + 1] /\ j < Len(padded)
        BY <1>2, <1>4, <3>1, <3>2
      <4> QED  BY <3>2, <4>1 DEF Lives
    <3>3. CASE ~(j < Len(s))
      <4>1. j \notin Lives(s)
        BY <3>3 DEF Lives
      <4>2. j < Len(padded) => j = tid /\ tid = Len(s)
        BY <1>2, <1>4, <3>1, <3>3
      <4> QED  BY <1>4, <4>1, <4>2, SlotFacts DEF Lives
    <3> QED  BY <3>2, <3>3
  <2> QED  BY <2>1 DEF Lives
<1>6. "Live" \in Slots /\ tid \in Tids
  BY DEF Slots, tid
<1>7. /\ r \in Seq(Slots) /\ Len(r) = Len(padded)
      /\ \A k \in 1..Len(padded) : r[k] = IF k = tid + 1 THEN "Live" ELSE padded[k]
      /\ Lives(r) = Lives(s) \cup {tid}
  BY <1>4, <1>5, <1>6, PutFacts
<1> HIDE DEF r
<1>8. r[1] = "Live"
  <2>1. 1 \in 1..Len(padded) /\ 1 \in 1..Len(s)
    BY <1>2, <1>3, <1>4
  <2> QED  BY <1>1, <1>4, <1>7, <2>1
<1>9. TidsOf(r, alloc(a))
  BY <1>2, <1>4, <1>7, <1>8 DEF TidsOf
<1> QED  BY <1>7, <1>9 DEF r, padded, tid

\* A thread that exits leaves its code in its slot, and its tid.
LEMMA ExitTids ==
    ASSUME NEW s \in Seq(Slots), NEW a, TidsOf(s, a),
           NEW i \in Lives(s), i # 0, NEW code \in Codes
    PROVE  /\ [s EXCEPT ![i + 1] = code] \in Seq(Slots)
           /\ dealloc(a, i) \in Allocators
           /\ TidsOf([s EXCEPT ![i + 1] = code], dealloc(a, i))
<1> DEFINE r == [s EXCEPT ![i + 1] = code]
<1>1. Sound(a) /\ Given(a) = Lives(s) /\ Len(s) = a.current /\ s[1] = "Live"
  BY DEF TidsOf
<1>2. i \in Tids /\ i \in Nat /\ i < Len(s) /\ Len(s) \in Nat
  BY SlotFacts, LenProperties DEF Lives
<1>3. code \in Slots /\ code # "Live"
  BY SlotFacts DEF Slots
<1>4. /\ r \in Seq(Slots) /\ Len(r) = Len(s)
      /\ \A k \in 1..Len(s) : r[k] = IF k = i + 1 THEN code ELSE s[k]
      /\ Lives(r) = Lives(s) \ {i}
  BY <1>2, <1>3, PutFacts
<1> HIDE DEF r
<1>5. Sound(dealloc(a, i)) /\ Given(dealloc(a, i)) = Lives(s) \ {i}
  BY <1>1, DeallocIsExact
<1>6. dealloc(a, i) \in Allocators /\ dealloc(a, i).current = a.current
  BY <1>1, <1>5 DEF dealloc, Allocators, Sound
<1>7. r[1] = "Live"
  <2>1. 1 \in 1..Len(s) /\ 1 # i + 1
    BY <1>2
  <2> QED  BY <1>1, <1>4, <2>1
<1> QED  BY <1>1, <1>4, <1>5, <1>6, <1>7 DEF TidsOf, r

\* waittid takes a code out of its slot.
LEMMA WaitTids ==
    ASSUME NEW s \in Seq(Slots), NEW a, TidsOf(s, a),
           NEW tid \in Tids, tid < Len(s), s[tid + 1] \in Codes
    PROVE  /\ [s EXCEPT ![tid + 1] = None] \in Seq(Slots)
           /\ TidsOf([s EXCEPT ![tid + 1] = None], a)
<1> DEFINE r == [s EXCEPT ![tid + 1] = None]
<1>1. Sound(a) /\ Given(a) = Lives(s) /\ Len(s) = a.current /\ s[1] = "Live"
  BY DEF TidsOf
<1>2. tid \in Nat /\ Len(s) \in Nat
  BY SlotFacts, LenProperties
<1>3. None \in Slots /\ None # "Live"
  BY SlotFacts DEF Slots
<1>4. /\ r \in Seq(Slots) /\ Len(r) = Len(s)
      /\ \A k \in 1..Len(s) : r[k] = IF k = tid + 1 THEN None ELSE s[k]
      /\ Lives(r) = Lives(s) \ {tid}
  BY <1>3, PutFacts
<1> HIDE DEF r
<1>5. tid \notin Lives(s)
  BY SlotFacts DEF Lives
<1>6. r[1] = "Live"
  <2>1. tid # 0
    <3>1. 0 + 1 = 1
      OBVIOUS
    <3> QED  BY <1>1, <3>1, SlotFacts
  <2>2. 1 \in 1..Len(s) /\ 1 # tid + 1
    BY <1>2, <2>1
  <2> QED  BY <1>1, <1>4, <2>2
<1>7. Lives(r) = Lives(s)
  BY <1>3, <1>4, <1>5
<1> QED  BY <1>1, <1>4, <1>6, <1>7 DEF TidsOf, r

-----------------------------------------------------------------------------
(* The steps of threads, which leave the tree as it is                     *)

\* A running process has exact tids.
LEMMA RunningFacts ==
    ASSUME ProcessIInv, NEW p \in pcbs \ is_zombie
    PROVE  /\ p \in Pids
           /\ tasks[p] \in Seq(Slots)
           /\ task_res_allocator[p] \in Allocators
           /\ LiveTids(p) = Lives(tasks[p])
           /\ TidsOf(tasks[p], task_res_allocator[p])
  BY DEF ProcessIInv, TypeOK, TidsExact, TidsOf, LiveTids, Lives, Slots

LEMMA FoldTids ==
    ASSUME \A p \in pcbs' \ is_zombie' : TidsOf(tasks'[p], task_res_allocator'[p])
    PROVE  TidsExact'
  BY DEF TidsExact, TidsOf, LiveTids, Lives

\* What is left to show of a step that does not change the tree.
LEMMA ThreadStep ==
    ASSUME ProcessIInv, UNCHANGED treeVars,
           tasks' \in [Pids -> Seq(Slots)],
           task_res_allocator' \in [Pids -> Allocators],
           in_kernel' \in [Pids -> SUBSET Tids],
           stack_refs' \in [Pids -> SUBSET Tids],
           panicked' \in {None, "fork", "exit", "waitpid", "waittid"},
           TidsExact', StacksExact', PanicCause'
    PROVE  ProcessIInv'
<1>1. TypeOK'
  BY DEF ProcessIInv, TypeOK, treeVars, Slots
<1>2. TreeExact' /\ AllDescendFromInit' /\ PidsExact'
  BY DEF ProcessIInv, treeVars, TreeExact, AllDescendFromInit, PidsExact
<1> QED  BY <1>1, <1>2 DEF ProcessIInv

\* A failed assertion stops the machine where it is.
LEMMA PanicStep ==
    ASSUME ProcessIInv, NEW where \in {"fork", "exit", "waitpid", "waittid"},
           panic(where),
           \/ where = "fork" /\ "fork_joined" \in Calls
           \/ where = "waittid" /\ "waittid_any" \in Calls
           \/ where = "waitpid" /\ "abandon" \in Calls
    PROVE  ProcessIInv'
<1>1. panicked' = where /\ UNCHANGED <<treeVars, threadVars>>
  BY DEF panic
<1>2. PanicCause' /\ panicked' \in {None, "fork", "exit", "waitpid", "waittid"}
  BY <1>1 DEF PanicCause
<1>3. TidsExact' /\ StacksExact'
  BY <1>1 DEF ProcessIInv, TidsExact, StacksExact, LiveTids, treeVars, threadVars
<1>4. /\ tasks' \in [Pids -> Seq(Slots)]
      /\ task_res_allocator' \in [Pids -> Allocators]
      /\ in_kernel' \in [Pids -> SUBSET Tids]
      /\ stack_refs' \in [Pids -> SUBSET Tids]
  BY <1>1 DEF ProcessIInv, TypeOK, threadVars, Slots
<1> QED  BY <1>1, <1>2, <1>3, <1>4, ThreadStep

\* A step that changes the slots and the allocator of one running process.
LEMMA TasksStep ==
    ASSUME ProcessIInv, UNCHANGED <<treeVars, in_kernel, stack_refs, panicked>>,
           NEW p \in pcbs \ is_zombie, NEW s \in Seq(Slots), NEW a, TidsOf(s, a),
           tasks' = [tasks EXCEPT ![p] = s],
           task_res_allocator' = [task_res_allocator EXCEPT ![p] = a]
    PROVE  ProcessIInv'
<1>1. a \in Allocators /\ p \in Pids
  BY RunningFacts DEF TidsOf, Sound
<1>2. tasks \in [Pids -> Seq(Slots)] /\ task_res_allocator \in [Pids -> Allocators]
  BY DEF ProcessIInv, TypeOK, Slots
<1>3. /\ tasks' \in [Pids -> Seq(Slots)]
      /\ task_res_allocator' \in [Pids -> Allocators]
  BY <1>1, <1>2
<1>4. TidsExact'
  <2>1. ASSUME NEW q \in pcbs \ is_zombie
        PROVE  TidsOf(tasks'[q], task_res_allocator'[q])
    <3>1. CASE q = p
      BY <1>1, <1>2, <3>1
    <3>2. CASE q # p
      BY <1>1, <1>2, <3>2, RunningFacts
    <3> QED  BY <3>1, <3>2
  <2> QED  BY <2>1, FoldTids DEF treeVars
<1>5. StacksExact' /\ PanicCause'
  BY DEF ProcessIInv, StacksExact, PanicCause, treeVars
<1>6. /\ in_kernel' \in [Pids -> SUBSET Tids]
      /\ stack_refs' \in [Pids -> SUBSET Tids]
      /\ panicked' \in {None, "fork", "exit", "waitpid", "waittid"}
  BY DEF ProcessIInv, TypeOK
<1> QED  BY <1>3, <1>4, <1>5, <1>6, ThreadStep

LEMMA CreateKeeps ==
    ASSUME ProcessIInv, NEW p \in Pids, NEW i \in Tids, sys_thread_create(p, i)
    PROVE  ProcessIInv'
<1> DEFINE a == task_res_allocator[p]
           tid == allocated(a)
           padded == tasks[p] \o [k \in 1..(tid + 1 - Len(tasks[p])) |-> None]
           r == [padded EXCEPT ![tid + 1] = "Live"]
<1>1. /\ p \in pcbs \ is_zombie /\ i \in LiveTids(p) /\ tid \in Tids
      /\ task_res_allocator' = [task_res_allocator EXCEPT ![p] = alloc(a)]
      /\ tasks' = [tasks EXCEPT ![p] = r]
      /\ UNCHANGED <<treeVars, in_kernel, stack_refs, panicked>>
  BY DEF sys_thread_create, Syscall
<1>2. r \in Seq(Slots) /\ TidsOf(r, alloc(a))
  BY <1>1, RunningFacts, CreateTids
<1> HIDE DEF r, a
<1> QED  BY <1>1, <1>2, TasksStep

LEMMA ExitThreadKeeps ==
    ASSUME ProcessIInv, NEW p \in Pids, NEW i \in Tids, NEW code \in Codes,
           exit_thread(p, i, code)
    PROVE  ProcessIInv'
<1> DEFINE a == dealloc(task_res_allocator[p], i)
           r == [tasks[p] EXCEPT ![i + 1] = code]
<1>1. /\ p \in pcbs \ is_zombie /\ i \in LiveTids(p) /\ i # 0
      /\ task_res_allocator' = [task_res_allocator EXCEPT ![p] = a]
      /\ tasks' = [tasks EXCEPT ![p] = r]
      /\ UNCHANGED <<treeVars, in_kernel, stack_refs, panicked>>
  BY DEF exit_thread, Syscall
<1>2. r \in Seq(Slots) /\ TidsOf(r, a)
  BY <1>1, RunningFacts, ExitTids
<1> HIDE DEF r, a
<1> QED  BY <1>1, <1>2, TasksStep

LEMMA WaittidKeeps ==
    ASSUME ProcessIInv, NEW p \in Pids, NEW i \in Tids, NEW tid \in Tids,
           sys_waittid(p, i, tid)
    PROVE  ProcessIInv'
<1>1. p \in pcbs \ is_zombie /\ i \in LiveTids(p)
  BY DEF sys_waittid, Syscall
<1>2. /\ tasks[p] \in Seq(Slots) /\ TidsOf(tasks[p], task_res_allocator[p])
      /\ LiveTids(p) = Lives(tasks[p])
      /\ Len(tasks[p]) \in Nat /\ tid \in Nat /\ i < Len(tasks[p])
  BY <1>1, RunningFacts, LenProperties, SlotFacts DEF Lives
<1>3. CASE tid # i /\ tid >= Len(tasks[p])
  <2>1. panic("waittid") /\ "waittid_any" \in Calls
    BY <1>2, <1>3 DEF sys_waittid
  <2> QED  BY <2>1, PanicStep
<1>4. CASE ~(tid # i /\ tid >= Len(tasks[p]))
  <2>1. /\ tid < Len(tasks[p])
        /\ UNCHANGED <<treeVars, task_res_allocator, in_kernel, stack_refs, panicked>>
        /\ tasks' = IF tid # i /\ tasks[p][tid + 1] \in Codes
                    THEN [tasks EXCEPT ![p][tid + 1] = None] ELSE tasks
    BY <1>2, <1>4 DEF sys_waittid
  <2>2. /\ tasks \in [Pids -> Seq(Slots)]
        /\ task_res_allocator \in [Pids -> Allocators]
    BY DEF ProcessIInv, TypeOK, Slots
  <2>3. task_res_allocator' = [task_res_allocator EXCEPT ![p] = task_res_allocator[p]]
    BY <2>1, <2>2
  <2>4. CASE tid # i /\ tasks[p][tid + 1] \in Codes
    <3> DEFINE r == [tasks[p] EXCEPT ![tid + 1] = None]
    <3>1. tasks' = [tasks EXCEPT ![p] = r]
      BY <2>1, <2>2, <2>4
    <3>2. r \in Seq(Slots) /\ TidsOf(r, task_res_allocator[p])
      BY <1>2, <2>1, <2>4, WaitTids
    <3> HIDE DEF r
    <3> QED  BY <1>1, <2>1, <2>3, <3>1, <3>2, TasksStep
  <2>5. CASE ~(tid # i /\ tasks[p][tid + 1] \in Codes)
    <3>1. tasks' = [tasks EXCEPT ![p] = tasks[p]]
      BY <2>1, <2>2, <2>5
    <3> QED  BY <1>1, <1>2, <2>1, <2>3, <3>1, TasksStep
  <2> QED  BY <2>4, <2>5
<1> QED  BY <1>3, <1>4

\* A thread goes into a call, or comes back.
LEMMA KernelStep ==
    ASSUME ProcessIInv, UNCHANGED <<treeVars, tasks, task_res_allocator, panicked>>,
           NEW p \in pcbs \ is_zombie, NEW K \in SUBSET Tids, NEW R \in SUBSET Tids,
           R \subseteq K,
           in_kernel' = [in_kernel EXCEPT ![p] = K],
           stack_refs' = [stack_refs EXCEPT ![p] = R]
    PROVE  ProcessIInv'
<1>1. /\ in_kernel \in [Pids -> SUBSET Tids] /\ stack_refs \in [Pids -> SUBSET Tids]
      /\ tasks' \in [Pids -> Seq(Slots)]
      /\ task_res_allocator' \in [Pids -> Allocators]
      /\ panicked' \in {None, "fork", "exit", "waitpid", "waittid"}
      /\ p \in Pids /\ pcbs \subseteq Pids /\ is_zombie \subseteq pcbs
  BY RunningFacts DEF ProcessIInv, TypeOK, TreeExact, Slots
<1>2. in_kernel' \in [Pids -> SUBSET Tids] /\ stack_refs' \in [Pids -> SUBSET Tids]
  BY <1>1
<1>3. TidsExact' /\ PanicCause'
  BY DEF ProcessIInv, TidsExact, LiveTids, PanicCause, treeVars
<1>4. StacksExact'
  <2>1. UNCHANGED <<pcbs, is_zombie>>
    BY DEF treeVars
  <2>2. \A q \in Pids : q # p => in_kernel'[q] = in_kernel[q] /\ stack_refs'[q] = stack_refs[q]
    BY <1>1
  <2>3. in_kernel'[p] = K /\ stack_refs'[p] = R
    BY <1>1
  <2> QED  BY <1>1, <2>1, <2>2, <2>3 DEF ProcessIInv, StacksExact
<1> QED  BY <1>1, <1>2, <1>3, <1>4, ThreadStep

LEMMA DownKeeps ==
    ASSUME ProcessIInv, NEW p \in Pids, NEW i \in Tids, sys_semaphore_down(p, i)
    PROVE  ProcessIInv'
<1>1. /\ p \in pcbs \ is_zombie
      /\ in_kernel' = [in_kernel EXCEPT ![p] = in_kernel[p] \cup {i}]
      /\ stack_refs' = [stack_refs EXCEPT ![p] = stack_refs[p] \cup {i}]
      /\ UNCHANGED <<treeVars, tasks, task_res_allocator, panicked>>
  BY DEF sys_semaphore_down, Syscall
<1>2. /\ in_kernel[p] \cup {i} \in SUBSET Tids /\ stack_refs[p] \cup {i} \in SUBSET Tids
      /\ stack_refs[p] \cup {i} \subseteq in_kernel[p] \cup {i}
  BY <1>1 DEF ProcessIInv, TypeOK, StacksExact
<1> QED  BY <1>1, <1>2, KernelStep

LEMMA LockKeeps ==
    ASSUME ProcessIInv, NEW p \in Pids, NEW i \in Tids, sys_mutex_lock(p, i)
    PROVE  ProcessIInv'
<1>1. /\ p \in pcbs \ is_zombie
      /\ in_kernel' = [in_kernel EXCEPT ![p] = in_kernel[p] \cup {i}]
      /\ UNCHANGED <<treeVars, tasks, task_res_allocator, stack_refs, panicked>>
  BY DEF sys_mutex_lock, Syscall
<1>2. /\ in_kernel[p] \cup {i} \in SUBSET Tids /\ stack_refs[p] \in SUBSET Tids
      /\ stack_refs[p] \subseteq in_kernel[p] \cup {i}
      /\ stack_refs \in [Pids -> SUBSET Tids]
  BY <1>1 DEF ProcessIInv, TypeOK, StacksExact
<1>3. stack_refs' = [stack_refs EXCEPT ![p] = stack_refs[p]]
  BY <1>1, <1>2
<1> QED  BY <1>1, <1>2, <1>3, KernelStep

LEMMA ReturnKeeps ==
    ASSUME ProcessIInv, NEW p \in Pids, NEW i \in Tids, return_to_user(p, i)
    PROVE  ProcessIInv'
<1>1. /\ p \in pcbs \ is_zombie
      /\ in_kernel' = [in_kernel EXCEPT ![p] = in_kernel[p] \ {i}]
      /\ stack_refs' = [stack_refs EXCEPT ![p] = stack_refs[p] \ {i}]
      /\ UNCHANGED <<treeVars, tasks, task_res_allocator, panicked>>
  BY DEF return_to_user
<1>2. /\ in_kernel[p] \ {i} \in SUBSET Tids /\ stack_refs[p] \ {i} \in SUBSET Tids
      /\ stack_refs[p] \ {i} \subseteq in_kernel[p] \ {i}
  BY <1>1 DEF ProcessIInv, TypeOK, StacksExact
<1> QED  BY <1>1, <1>2, KernelStep

-----------------------------------------------------------------------------
(* The steps that change the tree                                          *)

\* The invariant, as facts about the processes.
LEMMA TreeFacts ==
    ASSUME ProcessIInv
    PROVE  /\ pcbs \subseteq Pids /\ is_zombie \subseteq pcbs
           /\ INITPROC \in pcbs /\ INITPROC \notin is_zombie /\ INITPROC \in Pids
           /\ parent \in [Pids -> Pids \cup {None}]
           /\ children \in [Pids -> Seq(Pids)]
           /\ \A c \in pcbs : c # INITPROC => parent[c] \in pcbs \ is_zombie
           /\ \A c \in Pids : c \notin pcbs \/ c = INITPROC => parent[c] = None
           /\ \A p \in Pids : /\ IsInjective(children[p])
                              /\ Range(children[p]) \subseteq pcbs \ {INITPROC}
                              /\ \A c \in pcbs : c # INITPROC =>
                                    (c \in Range(children[p]) <=> parent[c] = p)
           /\ PID2PCB = pcbs \ is_zombie
           /\ Sound(PID_ALLOCATOR) /\ pcbs = Given(PID_ALLOCATOR)
  BY SlotFacts DEF ProcessIInv, TypeOK, TreeExact, PidsExact

\* What is left to show of a step that changes it.
LEMMA TreeStep ==
    ASSUME ProcessIInv, TreeExact', AllDescendFromInit', PidsExact', TidsExact',
           StacksExact', UNCHANGED panicked,
           pcbs' \subseteq Pids,
           parent' \in [Pids -> Pids \cup {None}],
           children' \in [Pids -> Seq(Pids)],
           exit_code' \in [Pids -> Codes],
           tasks' \in [Pids -> Seq(Slots)],
           task_res_allocator' \in [Pids -> Allocators],
           in_kernel' \in [Pids -> SUBSET Tids],
           stack_refs' \in [Pids -> SUBSET Tids]
    PROVE  ProcessIInv'
<1>1. PanicCause' /\ panicked' \in {None, "fork", "exit", "waitpid", "waittid"}
  BY DEF ProcessIInv, PanicCause, TypeOK
<1>2. is_zombie' \subseteq Pids /\ PID2PCB' \subseteq Pids /\ PID_ALLOCATOR' \in Allocators
  BY DEF TreeExact, PidsExact, Sound
<1> QED  BY <1>1, <1>2 DEF ProcessIInv, TypeOK, Slots

LEMMA ForkKeepsTree ==
    ASSUME ProcessIInv, NEW p \in pcbs \ is_zombie, NEW c \in Pids \ pcbs,
           pcbs' = pcbs \cup {c},
           parent' = [parent EXCEPT ![c] = p],
           children' = [children EXCEPT ![p] = Append(@, c), ![c] = <<>>],
           UNCHANGED is_zombie
    PROVE  /\ TreeExact' /\ AllDescendFromInit'
           /\ parent' \in [Pids -> Pids \cup {None}]
           /\ children' \in [Pids -> Seq(Pids)]
<1>1. p \in Pids /\ p # c /\ c # INITPROC
  BY TreeFacts
<1>2. /\ parent' \in [Pids -> Pids \cup {None}]
      /\ parent'[c] = p
      /\ \A x \in Pids : x # c => parent'[x] = parent[x]
  BY <1>1, TreeFacts
<1>3. /\ Append(children[p], c) \in Seq(Pids)
      /\ Range(Append(children[p], c)) = Range(children[p]) \cup {c}
      /\ IsInjective(Append(children[p], c))
  BY <1>1, TreeFacts, AppendFacts
<1>4. Range(<<>>) = {} /\ IsInjective(<<>>) /\ <<>> \in Seq(Pids)
  BY DEF Range, IsInjective
<1>5. /\ children' \in [Pids -> Seq(Pids)]
      /\ children'[c] = <<>>
      /\ children'[p] = Append(children[p], c)
      /\ \A q \in Pids : q # c /\ q # p => children'[q] = children[q]
  <2> DEFINE A == Append(children[p], c)
  <2>1. children' = [children EXCEPT ![p] = A, ![c] = <<>>]
    OBVIOUS
  <2>2. children \in [Pids -> Seq(Pids)] /\ c \in Pids
    BY TreeFacts
  <2>3. A \in Seq(Pids)
    BY <1>3
  <2> HIDE DEF A
  <2>4. /\ children' \in [Pids -> Seq(Pids)]
        /\ children'[c] = <<>>
        /\ children'[p] = A
        /\ \A q \in Pids : q # c /\ q # p => children'[q] = children[q]
    BY <1>1, <1>4, <2>1, <2>2, <2>3
  <2> QED  BY <2>4 DEF A
<1>6. ASSUME NEW q \in Pids
      PROVE  /\ IsInjective(children'[q])
             /\ Range(children'[q]) = {x \in pcbs' \ {INITPROC} : parent'[x] = q}
  <2>1. Range(children[q]) = {x \in pcbs \ {INITPROC} : parent[x] = q}
    BY DEF ProcessIInv, TreeExact
  <2>2. \A x \in pcbs : x # c /\ x \in Pids /\ parent'[x] = parent[x]
    BY <1>2, TreeFacts
  <2>3. CASE q = c
    <3>1. \A x \in pcbs' \ {INITPROC} : parent'[x] # c
      BY <1>1, <1>2, <2>2, TreeFacts
    <3> QED  BY <1>4, <1>5, <2>3, <3>1
  <2>4. CASE q = p
    <3>1. {x \in pcbs' \ {INITPROC} : parent'[x] = q} = Range(children[p]) \cup {c}
      BY <1>1, <1>2, <2>1, <2>2, <2>4
    <3> QED  BY <1>3, <1>5, <2>4, <3>1
  <2>5. CASE q # c /\ q # p
    BY <1>2, <1>5, <2>1, <2>2, <2>5, TreeFacts
  <2> QED  BY <2>3, <2>4, <2>5
<1>7. \A x \in pcbs' \ {INITPROC} : parent'[x] \in pcbs' \ is_zombie'
  BY <1>2, TreeFacts
<1>8. \A x \in Pids : x \notin pcbs' \ {INITPROC} => parent'[x] = None
  BY <1>1, <1>2, TreeFacts
<1>9. TreeExact'
  <2>1. INITPROC \in pcbs' \ is_zombie' /\ is_zombie' \subseteq pcbs'
    BY TreeFacts
  <2> QED  BY <1>6, <1>7, <1>8, <2>1 DEF TreeExact, INITPROC, Pids
<1>10. AllDescendFromInit'
  <2>1. SUFFICES ASSUME NEW S \in SUBSET (pcbs' \ {INITPROC}), S # {}
                 PROVE  \E x \in S : parent'[x] \notin S
    BY DEF AllDescendFromInit, INITPROC
  <2>2. CASE S \ {c} = {}
    <3>1. c \in S /\ p \notin S
      BY <1>1, <2>1, <2>2
    <3> QED  BY <1>2, <3>1
  <2>3. CASE S \ {c} # {}
    <3>1. PICK x \in S \ {c} : parent[x] \notin S \ {c}
      BY <2>1, <2>3 DEF ProcessIInv, AllDescendFromInit
    <3>2. x \in pcbs /\ x # INITPROC /\ parent[x] \in pcbs /\ parent[x] # c
      BY <2>1, <3>1, TreeFacts
    <3> QED  BY <1>2, <3>1, <3>2, TreeFacts
  <2> QED  BY <2>2, <2>3
<1> QED  BY <1>2, <1>5, <1>9, <1>10

\* A process may take the pid that the allocator gives it.
LEMMA ForkKeeps ==
    ASSUME ProcessIInv, NEW p \in pcbs \ is_zombie, fork(p, allocated(PID_ALLOCATOR))
    PROVE  ProcessIInv' /\ allocated(PID_ALLOCATOR) \in Pids \ pcbs
<1> DEFINE c == allocated(PID_ALLOCATOR)
<1>1. /\ Sound(alloc(PID_ALLOCATOR))
      /\ c \notin pcbs
      /\ Given(alloc(PID_ALLOCATOR)) = pcbs \cup {c}
  BY TreeFacts, AllocIsFresh
<1>2. /\ c \in Pids
      /\ pcbs' = pcbs \cup {c}
      /\ PID_ALLOCATOR' = alloc(PID_ALLOCATOR)
      /\ PID2PCB' = PID2PCB \cup {c}
      /\ parent' = [parent EXCEPT ![c] = p]
      /\ children' = [children EXCEPT ![p] = Append(@, c), ![c] = <<>>]
      /\ exit_code' = [exit_code EXCEPT ![c] = Zero]
      /\ tasks' = [tasks EXCEPT ![c] = <<"Live">>]
      /\ task_res_allocator' = [task_res_allocator EXCEPT ![c] = alloc(new)]
      /\ UNCHANGED <<is_zombie, in_kernel, stack_refs, panicked>>
  BY DEF fork
<1> HIDE DEF c
<1>3. /\ TreeExact' /\ AllDescendFromInit'
      /\ parent' \in [Pids -> Pids \cup {None}]
      /\ children' \in [Pids -> Seq(Pids)]
  BY <1>1, <1>2, ForkKeepsTree
<1>4. PidsExact'
  BY <1>1, <1>2, TreeFacts DEF PidsExact
<1>5. /\ <<"Live">> \in Seq(Slots) /\ TidsOf(<<"Live">>, alloc(new))
      /\ alloc(new) \in Allocators
  BY NewTids DEF TidsOf, Sound
<1>6. /\ tasks \in [Pids -> Seq(Slots)] /\ task_res_allocator \in [Pids -> Allocators]
      /\ exit_code \in [Pids -> Codes]
  BY DEF ProcessIInv, TypeOK, Slots
<1>7. /\ tasks' \in [Pids -> Seq(Slots)] /\ task_res_allocator' \in [Pids -> Allocators]
      /\ exit_code' \in [Pids -> Codes]
  BY <1>2, <1>5, <1>6, ProcessAssumption
<1>8. TidsExact'
  <2>1. ASSUME NEW q \in pcbs' \ is_zombie'
        PROVE  TidsOf(tasks'[q], task_res_allocator'[q])
    <3>1. CASE q = c
      BY <1>2, <1>5, <1>6, <3>1
    <3>2. CASE q # c
      BY <1>2, <1>6, <3>2, RunningFacts
    <3> QED  BY <3>1, <3>2
  <2> QED  BY <2>1, FoldTids
<1>9. StacksExact'
  BY <1>1, <1>2, TreeFacts DEF ProcessIInv, StacksExact
<1>10. pcbs' \subseteq Pids /\ in_kernel' \in [Pids -> SUBSET Tids]
       /\ stack_refs' \in [Pids -> SUBSET Tids] /\ UNCHANGED panicked
  BY <1>2, TreeFacts DEF ProcessIInv, TypeOK
<1>11. ProcessIInv'
  BY <1>3, <1>4, <1>7, <1>8, <1>9, <1>10, TreeStep
<1> QED  BY <1>1, <1>2, <1>11 DEF c

LEMMA SysForkKeeps ==
    ASSUME ProcessIInv, NEW p \in Pids, NEW i \in Tids, sys_fork(p, i)
    PROVE  ProcessIInv'
<1>1. p \in pcbs \ is_zombie /\ i \in LiveTids(p)
  BY DEF sys_fork, Syscall
<1>2. CASE Len(tasks[p]) # 1
  <2>1. panic("fork") /\ (Len(tasks[p]) > 1 => "fork_joined" \in Calls)
    BY <1>2 DEF sys_fork
  <2>2. Len(tasks[p]) \in Nat /\ i \in Nat /\ i < Len(tasks[p])
    BY <1>1, RunningFacts, LenProperties, SlotFacts DEF Lives
  <2>3. Len(tasks[p]) > 1
    <3>1. \A n, m \in Nat : m < n /\ n # 1 => n > 1
      OBVIOUS
    <3> QED  BY <1>2, <2>2, <3>1
  <2> QED  BY <2>1, <2>3, PanicStep
<1>3. CASE Len(tasks[p]) = 1
  <2>1. fork(p, allocated(PID_ALLOCATOR))
    BY <1>3 DEF sys_fork
  <2> QED  BY <1>1, <2>1, ForkKeeps
<1> QED  BY <1>2, <1>3

LEMMA ExitKeepsTree ==
    ASSUME ProcessIInv, NEW p \in pcbs \ is_zombie, p # INITPROC,
           leave_tree(p), is_zombie' = is_zombie \cup {p}, UNCHANGED pcbs
    PROVE  /\ TreeExact' /\ AllDescendFromInit'
           /\ parent' \in [Pids -> Pids \cup {None}]
           /\ children' \in [Pids -> Seq(Pids)]
<1>1. p \in Pids /\ INITPROC \in Pids
  BY TreeFacts
<1>2. /\ parent' \in [Pids -> Pids \cup {None}]
      /\ \A x \in Pids : parent'[x] = IF x \in Range(children[p])
                                      THEN INITPROC ELSE parent[x]
  BY <1>1, TreeFacts DEF leave_tree
<1>3. \A x \in pcbs : x # INITPROC =>
         parent'[x] = IF parent[x] = p THEN INITPROC ELSE parent[x]
  BY <1>1, <1>2, TreeFacts
<1> DEFINE A == children[INITPROC] \o children[p]
<1>4. Range(children[INITPROC]) \cap Range(children[p]) = {}
  BY <1>1, TreeFacts
<1>5. /\ A \in Seq(Pids)
      /\ Range(A) = Range(children[INITPROC]) \cup Range(children[p])
      /\ IsInjective(A)
  <2>1. /\ children[INITPROC] \in Seq(Pids) /\ children[p] \in Seq(Pids)
        /\ IsInjective(children[INITPROC]) /\ IsInjective(children[p])
    BY <1>1, TreeFacts
  <2> QED  BY <1>4, <2>1, ConcatFacts
<1>6. Range(<<>>) = {} /\ IsInjective(<<>>) /\ <<>> \in Seq(Pids)
  BY DEF Range, IsInjective
<1>7. children' = [children EXCEPT ![INITPROC] = A, ![p] = <<>>]
  BY DEF leave_tree
<1> HIDE DEF A
<1>8. /\ children' \in [Pids -> Seq(Pids)]
      /\ children'[p] = <<>>
      /\ children'[INITPROC] = A
      /\ \A q \in Pids : q # p /\ q # INITPROC => children'[q] = children[q]
  <2>1. children \in [Pids -> Seq(Pids)]
    BY TreeFacts
  <2> QED  BY <1>1, <1>5, <1>6, <1>7, <2>1
<1>9. ASSUME NEW q \in Pids
      PROVE  /\ IsInjective(children'[q])
             /\ Range(children'[q]) = {x \in pcbs \ {INITPROC} : parent'[x] = q}
  <2>1. \A r \in Pids :
           Range(children[r]) = {x \in pcbs \ {INITPROC} : parent[x] = r}
    BY DEF ProcessIInv, TreeExact
  <2>2. CASE q = p
    <3>1. \A x \in pcbs \ {INITPROC} : parent'[x] # p
      BY <1>3
    <3> QED  BY <1>6, <1>8, <2>2, <3>1
  <2>3. CASE q = INITPROC
    <3>1. {x \in pcbs \ {INITPROC} : parent'[x] = q}
            = Range(children[INITPROC]) \cup Range(children[p])
      BY <1>1, <1>3, <2>1, <2>3
    <3> QED  BY <1>5, <1>8, <2>3, <3>1
  <2>4. CASE q # p /\ q # INITPROC
    <3>1. {x \in pcbs \ {INITPROC} : parent'[x] = q} = Range(children[q])
      BY <1>3, <2>1, <2>4
    <3> QED  BY <1>8, <2>4, <3>1, TreeFacts
  <2> QED  BY <2>2, <2>3, <2>4
<1>10. ASSUME NEW x \in pcbs \ {INITPROC} PROVE parent'[x] \in pcbs \ is_zombie'
  <2>1. CASE parent[x] = p
    BY <1>3, <2>1, TreeFacts
  <2>2. CASE parent[x] # p
    BY <1>3, <2>2, TreeFacts
  <2> QED  BY <2>1, <2>2
<1>11. \A x \in Pids : x \notin pcbs \ {INITPROC} => parent'[x] = None
  BY <1>1, <1>2, TreeFacts
<1>12. TreeExact'
  <2>1. INITPROC \in pcbs \ is_zombie' /\ is_zombie' \subseteq pcbs
    BY TreeFacts
  <2> QED  BY <1>9, <1>10, <1>11, <2>1 DEF TreeExact, INITPROC, Pids
<1>13. AllDescendFromInit'
  <2>1. SUFFICES ASSUME NEW S \in SUBSET (pcbs \ {INITPROC}), S # {}
                 PROVE  \E x \in S : parent'[x] \notin S
    BY DEF AllDescendFromInit, INITPROC
  <2>2. PICK x \in S : parent[x] \notin S
    BY <2>1 DEF ProcessIInv, AllDescendFromInit
  <2> QED  BY <1>3, <2>1, <2>2
<1> QED  BY <1>2, <1>8, <1>12, <1>13

\* The threads of a process are finitely many.
LEMMA TidsFinite == IsFiniteSet(Tids) /\ \A S \in SUBSET Tids : Cardinality(S) \in Nat
<1>1. IsFiniteSet(Tids)
  <2>1. 0 \in Int /\ MaxTids - 1 \in Int
    BY ProcessAssumption
  <2> QED  BY <2>1, FS_Interval, Zenon DEF Tids
<1> QED  BY <1>1, FS_Subset, FS_CardinalityType

LEMMA ExitProcessKeeps ==
    ASSUME ProcessIInv, NEW p \in Pids, NEW code \in Codes, exit_process(p, code)
    PROVE  /\ ProcessIInv'
           /\ p \in pcbs \ is_zombie /\ p # INITPROC
           /\ leave_tree(p) /\ is_zombie' = is_zombie \cup {p}
           /\ exit_code' = [exit_code EXCEPT ![p] = code]
           /\ UNCHANGED pcbs
<1>1. /\ p \in pcbs \ is_zombie /\ p # INITPROC
      /\ in_kernel[p] \cap stack_refs[p] = {} \/ "abandon" \in Calls
  BY DEF exit_process, Syscall
<1>2. p \in PID2PCB
  BY <1>1, TreeFacts
<1>3. /\ leave_tree(p)
      /\ is_zombie' = is_zombie \cup {p}
      /\ exit_code' = [exit_code EXCEPT ![p] = code]
      /\ tasks' = [tasks EXCEPT ![p] = <<code>>]
      /\ in_kernel' = [in_kernel EXCEPT ![p] = {}]
      /\ UNCHANGED <<pcbs, PID_ALLOCATOR, stack_refs, panicked>>
  BY <1>2 DEF exit_process
<1>4. PICK s \in [1..Cardinality(LiveTids(p)) -> LiveTids(p)] :
         task_res_allocator' = [task_res_allocator EXCEPT ![p].recycled = @ \o s]
  BY <1>2 DEF exit_process
<1>5. /\ TreeExact' /\ AllDescendFromInit'
      /\ parent' \in [Pids -> Pids \cup {None}]
      /\ children' \in [Pids -> Seq(Pids)]
  BY <1>1, <1>3, ExitKeepsTree
<1>6. PidsExact'
  BY <1>3, TreeFacts DEF PidsExact, leave_tree
<1>7. /\ tasks \in [Pids -> Seq(Slots)] /\ task_res_allocator \in [Pids -> Allocators]
      /\ exit_code \in [Pids -> Codes] /\ in_kernel \in [Pids -> SUBSET Tids]
      /\ stack_refs \in [Pids -> SUBSET Tids]
  BY DEF ProcessIInv, TypeOK, Slots
<1>8. task_res_allocator' \in [Pids -> Allocators]
  <2> DEFINE a == task_res_allocator[p]
             r == a.recycled \o s
             b == [current |-> a.current, recycled |-> r]
  <2>1. LiveTids(p) \subseteq Tids /\ Tids \subseteq Nat
    BY SlotFacts DEF LiveTids
  <2>2. Cardinality(LiveTids(p)) \in Nat
    BY <2>1, TidsFinite
  <2>3. s \in Seq(Nat)
    <3>1. \A n \in Nat : [1..n -> Nat] \subseteq Seq(Nat)
      OBVIOUS
    <3>2. s \in [1..Cardinality(LiveTids(p)) -> Nat]
      BY <2>1
    <3> QED  BY <2>2, <3>1, <3>2
  <2>4. a.current \in Nat /\ a.recycled \in Seq(Nat) /\ a \in Allocators
    BY <1>7 DEF Allocators
  <2>5. r \in Seq(Nat)
    BY <2>3, <2>4, ConcatProperties
  <2>6. task_res_allocator' = [task_res_allocator EXCEPT ![p] = b]
    <3>1. task_res_allocator' =
             [task_res_allocator EXCEPT ![p] = [a EXCEPT !.recycled = r]]
      BY <1>4, <1>7
    <3>2. \A t : [a EXCEPT !.recycled = t] = [current |-> a.current, recycled |-> t]
      BY <2>4 DEF Allocators
    <3> QED  BY <3>1, <3>2
  <2>7. b \in Allocators
    BY <2>4, <2>5 DEF Allocators
  <2> QED  BY <1>7, <2>6, <2>7
<1>9. /\ tasks' \in [Pids -> Seq(Slots)] /\ exit_code' \in [Pids -> Codes]
      /\ in_kernel' \in [Pids -> SUBSET Tids] /\ stack_refs' \in [Pids -> SUBSET Tids]
  <2>1. <<code>> \in Seq(Slots)
    BY DEF Slots
  <2> QED  BY <1>3, <1>7, <2>1
<1>10. TidsExact'
  <2>1. ASSUME NEW q \in pcbs' \ is_zombie'
        PROVE  TidsOf(tasks'[q], task_res_allocator'[q])
    <3>1. q # p /\ q \in pcbs \ is_zombie
      BY <1>3
    <3>2. tasks'[q] = tasks[q] /\ task_res_allocator'[q] = task_res_allocator[q]
      BY <1>3, <1>4, <1>7, <3>1, RunningFacts
    <3> QED  BY <3>1, <3>2, RunningFacts
  <2> QED  BY <2>1, FoldTids
<1>11. StacksExact'
  <2>1. "abandon" \notin Calls => stack_refs[p] = {}
    BY <1>1 DEF ProcessIInv, StacksExact
  <2>2. \A q \in Pids : q # p => in_kernel'[q] = in_kernel[q]
    BY <1>3, <1>7
  <2> QED  BY <1>1, <1>3, <2>1, <2>2, TreeFacts DEF ProcessIInv, StacksExact
<1>12. ProcessIInv'
  BY <1>3, <1>5, <1>6, <1>8, <1>9, <1>10, <1>11, TreeFacts, TreeStep
<1> QED  BY <1>1, <1>3, <1>12

LEMMA ReapKeepsTree ==
    ASSUME ProcessIInv, NEW p \in pcbs \ is_zombie, NEW k \in DOMAIN children[p],
           children[p][k] \in is_zombie,
           pcbs' = pcbs \ {children[p][k]},
           is_zombie' = is_zombie \ {children[p][k]},
           parent' = [parent EXCEPT ![children[p][k]] = None],
           children' = [children EXCEPT ![p] = RemoveAt(@, k)]
    PROVE  /\ TreeExact' /\ AllDescendFromInit'
           /\ parent' \in [Pids -> Pids \cup {None}]
           /\ children' \in [Pids -> Seq(Pids)]
<1> DEFINE c == children[p][k]
           A == RemoveAt(children[p], k)
<1>1. p \in Pids /\ children[p] \in Seq(Pids) /\ k \in 1..Len(children[p])
  BY TreeFacts, LenProperties
<1>2. c \in Range(children[p])
  BY DEF Range
<1>3. c \in pcbs /\ c \in Pids /\ c # INITPROC /\ c \in is_zombie /\ p # c /\ parent[c] = p
  BY <1>1, <1>2, TreeFacts
<1>4. /\ A \in Seq(Pids) /\ IsInjective(A)
      /\ Range(A) = Range(children[p]) \ {c}
  <2>1. IsInjective(children[p])
    BY <1>1, TreeFacts
  <2>2. A \in Seq(Pids)
    BY <1>1, RemoveAtFacts
  <2>3. IsInjective(A) /\ Range(A) = Range(children[p]) \ {c}
    BY <1>1, <2>1, RemoveAtElements
  <2> QED  BY <2>2, <2>3
<1> HIDE DEF c, A
<1>5. /\ pcbs' = pcbs \ {c} /\ is_zombie' = is_zombie \ {c}
      /\ parent' = [parent EXCEPT ![c] = None]
      /\ children' = [children EXCEPT ![p] = A]
  BY DEF c, A
<1>6. /\ parent' \in [Pids -> Pids \cup {None}]
      /\ parent'[c] = None
      /\ \A x \in Pids : x # c => parent'[x] = parent[x]
  BY <1>3, <1>5, TreeFacts
<1>7. /\ children' \in [Pids -> Seq(Pids)]
      /\ children'[p] = A
      /\ \A q \in Pids : q # p => children'[q] = children[q]
  BY <1>1, <1>4, <1>5, TreeFacts
<1>8. ASSUME NEW q \in Pids
      PROVE  /\ IsInjective(children'[q])
             /\ Range(children'[q]) = {x \in pcbs' \ {INITPROC} : parent'[x] = q}
  <2>1. Range(children[q]) = {x \in pcbs \ {INITPROC} : parent[x] = q}
    BY DEF ProcessIInv, TreeExact
  <2>2. \A x \in pcbs' : x \in Pids /\ x # c /\ parent'[x] = parent[x]
    BY <1>5, <1>6, TreeFacts
  <2>3. {x \in pcbs' \ {INITPROC} : parent'[x] = q} = Range(children[q]) \ {c}
    BY <1>5, <2>1, <2>2
  <2>4. CASE q = p
    BY <1>4, <1>7, <2>3, <2>4
  <2>5. CASE q # p
    <3>1. c \notin Range(children[q])
      BY <1>3, <2>1, <2>5
    <3> QED  BY <1>7, <2>3, <2>5, <3>1, TreeFacts
  <2> QED  BY <2>4, <2>5
<1>9. ASSUME NEW x \in pcbs' \ {INITPROC} PROVE parent'[x] \in pcbs' \ is_zombie'
  <2>1. x \in pcbs /\ x \in Pids /\ x # c /\ parent'[x] = parent[x]
    BY <1>5, <1>6, TreeFacts
  <2>2. parent[x] \in pcbs \ is_zombie
    BY <2>1, TreeFacts
  <2> QED  BY <1>3, <1>5, <2>1, <2>2
<1>10. \A x \in Pids : x \notin pcbs' \ {INITPROC} => parent'[x] = None
  BY <1>5, <1>6, TreeFacts
<1>11. TreeExact'
  <2>1. INITPROC \in pcbs' \ is_zombie' /\ is_zombie' \subseteq pcbs'
    BY <1>3, <1>5, TreeFacts
  <2> QED  BY <1>8, <1>9, <1>10, <2>1 DEF TreeExact, INITPROC, Pids
<1>12. AllDescendFromInit'
  <2>1. SUFFICES ASSUME NEW S \in SUBSET (pcbs' \ {INITPROC}), S # {}
                 PROVE  \E x \in S : parent'[x] \notin S
    BY DEF AllDescendFromInit, INITPROC
  <2>2. PICK x \in S : parent[x] \notin S
    BY <1>5, <2>1 DEF ProcessIInv, AllDescendFromInit
  <2>3. x \in Pids /\ x # c
    BY <1>5, <2>1, <2>2, TreeFacts
  <2> QED  BY <1>6, <2>2, <2>3
<1> QED  BY <1>6, <1>7, <1>11, <1>12

\* waitpid takes out a zombie that nobody refers to, or fails its assertion.
LEMMA ReapKeeps ==
    ASSUME ProcessIInv, NEW p \in pcbs \ is_zombie, NEW k \in DOMAIN children[p],
           children[p][k] \in is_zombie, reap(p, k)
    PROVE  ProcessIInv'
<1> DEFINE c == children[p][k]
<1>1. c \in is_zombie /\ c \in pcbs /\ c \in Pids /\ c \notin PID2PCB
  BY TreeFacts
<1>2. stack_refs \in [Pids -> SUBSET Tids]
  BY DEF ProcessIInv, TypeOK
<1>3. /\ Cardinality(stack_refs[c]) \in Nat /\ IsFiniteSet(stack_refs[c])
      /\ strong_count(c) = 1 + Cardinality(stack_refs[c])
  <2>1. stack_refs[c] \in SUBSET Tids
    BY <1>1, <1>2
  <2>2. Cardinality(stack_refs[c]) \in Nat /\ IsFiniteSet(stack_refs[c])
    BY <2>1, TidsFinite, FS_Subset
  <2> HIDE DEF c
  <2> QED  BY <1>1, <2>2 DEF strong_count
<1>4. strong_count(c) = 1 <=> stack_refs[c] = {}
  <2>1. Cardinality(stack_refs[c]) = 0 <=> stack_refs[c] = {}
    BY <1>3, FS_EmptySet
  <2> HIDE DEF c
  <2> QED  BY <1>3, <2>1
<1>5. CASE strong_count(c) # 1
  <2>1. panic("waitpid")
    BY <1>5 DEF reap
  <2>2. "abandon" \in Calls
    BY <1>1, <1>4, <1>5 DEF ProcessIInv, StacksExact
  <2> QED  BY <2>1, <2>2, PanicStep
<1>6. CASE strong_count(c) = 1
  <2>1. /\ children' = [children EXCEPT ![p] = RemoveAt(@, k)]
        /\ pcbs' = pcbs \ {c}
        /\ is_zombie' = is_zombie \ {c}
        /\ parent' = [parent EXCEPT ![c] = None]
        /\ exit_code' = [exit_code EXCEPT ![c] = Zero]
        /\ tasks' = [tasks EXCEPT ![c] = <<>>]
        /\ task_res_allocator' = [task_res_allocator EXCEPT ![c] = new]
        /\ PID_ALLOCATOR' = dealloc(PID_ALLOCATOR, c)
        /\ UNCHANGED <<PID2PCB, in_kernel, stack_refs, panicked>>
    BY <1>6 DEF reap, drop_pcb
  <2>2. /\ TreeExact' /\ AllDescendFromInit'
        /\ parent' \in [Pids -> Pids \cup {None}]
        /\ children' \in [Pids -> Seq(Pids)]
    BY <1>1, <2>1, ReapKeepsTree
  <2> HIDE DEF c
  <2>3. PidsExact'
    <3>1. /\ Sound(dealloc(PID_ALLOCATOR, c))
          /\ Given(dealloc(PID_ALLOCATOR, c)) = pcbs \ {c}
      BY <1>1, TreeFacts, DeallocIsExact
    <3> QED  BY <1>1, <2>1, <3>1, TreeFacts DEF PidsExact
  <2>4. /\ tasks \in [Pids -> Seq(Slots)] /\ task_res_allocator \in [Pids -> Allocators]
        /\ exit_code \in [Pids -> Codes] /\ in_kernel \in [Pids -> SUBSET Tids]
    BY DEF ProcessIInv, TypeOK, Slots
  <2>5. /\ tasks' \in [Pids -> Seq(Slots)] /\ task_res_allocator' \in [Pids -> Allocators]
        /\ exit_code' \in [Pids -> Codes]
    <3>1. new \in Allocators /\ <<>> \in Seq(Slots)
      BY NewIsSound DEF Sound
    <3> QED  BY <2>1, <2>4, <3>1, ProcessAssumption
  <2>6. TidsExact'
    <3>1. ASSUME NEW q \in pcbs' \ is_zombie'
          PROVE  TidsOf(tasks'[q], task_res_allocator'[q])
      <4>1. q # c /\ q \in pcbs \ is_zombie
        BY <2>1, <3>1
      <4>2. tasks'[q] = tasks[q] /\ task_res_allocator'[q] = task_res_allocator[q]
        BY <2>1, <2>4, <4>1, RunningFacts
      <4> QED  BY <4>1, <4>2, RunningFacts
    <3> QED  BY <3>1, FoldTids
  <2>7. StacksExact'
    BY <1>1, <1>4, <1>6, <2>1, TreeFacts DEF ProcessIInv, StacksExact
  <2> QED  BY <1>2, <2>1, <2>2, <2>3, <2>4, <2>5, <2>6, <2>7, TreeFacts, TreeStep
<1> QED  BY <1>5, <1>6

LEMMA WaitpidKeeps ==
    ASSUME ProcessIInv, NEW p \in Pids, NEW i \in Tids, NEW pid, sys_waitpid(p, i, pid)
    PROVE  ProcessIInv'
<1>1. p \in pcbs \ is_zombie
  BY DEF sys_waitpid, Syscall
<1>2. PICK k \in DOMAIN children[p] : first_zombie(p, pid, k) /\ reap(p, k)
  BY DEF sys_waitpid
<1>3. children[p][k] \in is_zombie
  BY <1>2 DEF first_zombie, ZombieChildren
<1> QED  BY <1>1, <1>2, <1>3, ReapKeeps

-----------------------------------------------------------------------------
(* The invariant                                                           *)

LEMMA ProcessInitially == Init => ProcessIInv
<1> SUFFICES ASSUME Init PROVE ProcessIInv
  OBVIOUS
<1>1. /\ pcbs = {INITPROC} /\ PID_ALLOCATOR = alloc(new) /\ PID2PCB = {INITPROC}
      /\ parent = [p \in Pids |-> None] /\ children = [p \in Pids |-> <<>>]
      /\ is_zombie = {} /\ exit_code = [p \in Pids |-> Zero]
      /\ tasks = [p \in Pids |-> IF p = INITPROC THEN <<"Live">> ELSE <<>>]
      /\ task_res_allocator =
            [p \in Pids |-> IF p = INITPROC THEN alloc(new) ELSE new]
      /\ in_kernel = [p \in Pids |-> {}] /\ stack_refs = [p \in Pids |-> {}]
      /\ panicked = None
  BY DEF Init
<1>2. /\ Sound(new) /\ Given(new) = {} /\ new \in Allocators
      /\ allocated(new) = 0 /\ INITPROC = 0 /\ INITPROC \in Pids
  BY NewIsSound, SlotFacts DEF new, allocated, INITPROC, Sound
<1>3. Sound(alloc(new)) /\ Given(alloc(new)) = {INITPROC} /\ alloc(new) \in Allocators
  BY <1>2, AllocIsFresh DEF Sound
<1>4. <<>> \in Seq(Pids) /\ <<>> \in Seq(Slots) /\ Range(<<>>) = {} /\ IsInjective(<<>>)
  BY DEF Range, IsInjective
<1>5. /\ <<"Live">> \in Seq(Slots) /\ TidsOf(<<"Live">>, alloc(new))
  BY NewTids
<1>6. TypeOK
  <2>1. /\ tasks \in [Pids -> Seq(Slots)] /\ task_res_allocator \in [Pids -> Allocators]
        /\ exit_code \in [Pids -> Codes] /\ children \in [Pids -> Seq(Pids)]
    BY <1>1, <1>2, <1>3, <1>4, <1>5, ProcessAssumption
  <2> QED  BY <1>1, <1>2, <1>3, <2>1 DEF TypeOK, Slots
<1>7. TreeExact
  BY <1>1, <1>2, <1>4 DEF TreeExact
<1>8. AllDescendFromInit
  BY <1>1 DEF AllDescendFromInit
<1>9. PidsExact
  BY <1>1, <1>3 DEF PidsExact
<1>10. TidsExact
  <2>1. \A p \in pcbs \ is_zombie : TidsOf(tasks[p], task_res_allocator[p])
    BY <1>1, <1>2, <1>5
  <2> QED  BY <2>1 DEF TidsExact, TidsOf, LiveTids, Lives
<1>11. StacksExact /\ PanicCause
  BY <1>1, <1>2 DEF StacksExact, PanicCause
<1> QED  BY <1>6, <1>7, <1>8, <1>9, <1>10, <1>11 DEF ProcessIInv

\* One step of a process keeps the invariant.
LEMMA ProcessStep == ProcessIInv /\ [Next]_vars => ProcessIInv'
<1> SUFFICES ASSUME ProcessIInv, [Next]_vars PROVE ProcessIInv'
  OBVIOUS
<1>1. ASSUME NEW p \in Pids, NEW i \in Tids, sys_thread_create(p, i)
      PROVE  ProcessIInv'
  BY <1>1, CreateKeeps
<1>2. ASSUME NEW p \in Pids, NEW i \in Tids, NEW tid \in Tids, sys_waittid(p, i, tid)
      PROVE  ProcessIInv'
  BY <1>2, WaittidKeeps
<1>3. ASSUME NEW p \in Pids, NEW i \in Tids, sys_semaphore_down(p, i)
      PROVE  ProcessIInv'
  BY <1>3, DownKeeps
<1>4. ASSUME NEW p \in Pids, NEW i \in Tids, sys_mutex_lock(p, i)
      PROVE  ProcessIInv'
  BY <1>4, LockKeeps
<1>5. ASSUME NEW p \in Pids, NEW i \in Tids, return_to_user(p, i)
      PROVE  ProcessIInv'
  BY <1>5, ReturnKeeps
<1>6. ASSUME NEW p \in Pids, NEW i \in Tids, sys_fork(p, i)
      PROVE  ProcessIInv'
  BY <1>6, SysForkKeeps
<1>7. ASSUME NEW p \in Pids, NEW i \in Tids, NEW code \in Codes, exit_thread(p, i, code)
      PROVE  ProcessIInv'
  BY <1>7, ExitThreadKeeps
<1>8. ASSUME NEW p \in Pids, NEW i \in Tids, NEW pid \in Pids \cup {AnyPid},
             sys_waitpid(p, i, pid)
      PROVE  ProcessIInv'
  BY <1>8, WaitpidKeeps
<1>9. ASSUME NEW p \in Pids, NEW code \in Codes, exit_process(p, code)
      PROVE  ProcessIInv'
  BY <1>9, ExitProcessKeeps
<1>10. CASE UNCHANGED vars
  <2>1. UNCHANGED <<treeVars, threadVars, panicked>>
    BY <1>10 DEF vars, treeVars, threadVars
  <2>2. TidsExact' /\ StacksExact' /\ PanicCause'
    BY <2>1 DEF ProcessIInv, TidsExact, LiveTids, StacksExact, PanicCause,
                treeVars, threadVars
  <2>3. /\ tasks' \in [Pids -> Seq(Slots)]
        /\ task_res_allocator' \in [Pids -> Allocators]
        /\ in_kernel' \in [Pids -> SUBSET Tids]
        /\ stack_refs' \in [Pids -> SUBSET Tids]
        /\ panicked' \in {None, "fork", "exit", "waitpid", "waittid"}
    BY <2>1 DEF ProcessIInv, TypeOK, threadVars, Slots
  <2> QED  BY <2>1, <2>2, <2>3, ThreadStep
<1> QED  BY <1>1, <1>2, <1>3, <1>4, <1>5, <1>6, <1>7, <1>8, <1>9, <1>10 DEF Next

\* The inductive invariant holds.
THEOREM ProcessInvariant == Spec => []ProcessIInv
  BY ProcessInitially, ProcessStep, PTL DEF Spec

-----------------------------------------------------------------------------
(* The properties of the runs                                              *)

\* No process has more children than there are pids.
LEMMA ChildrenFit ==
    ASSUME ProcessIInv, NEW p \in Pids
    PROVE  Len(children[p]) \in Nat /\ Len(children[p]) <= MaxPids
<1> DEFINE n == Len(children[p])
<1>1. children[p] \in Seq(Pids) /\ IsInjective(children[p])
  BY TreeFacts
<1>2. n \in Nat /\ DOMAIN children[p] = 1..n /\ \A k \in 1..n : children[p][k] \in Pids
  BY <1>1, LenProperties, ElementOfSeq
<1>3. /\ IsFiniteSet(1..n) /\ Cardinality(1..n) = n
      /\ IsFiniteSet(Pids) /\ Cardinality(Pids) = MaxPids
  <2>1. \A a, b \in Int : /\ IsFiniteSet(a..b)
                          /\ Cardinality(a..b) = IF a > b THEN 0 ELSE b - a + 1
    BY FS_Interval, Zenon
  <2>2. n \in Int /\ 1 \in Int /\ 0 \in Int /\ MaxPids - 1 \in Int /\ MaxPids \in Nat \ {0}
    BY <1>2, ProcessAssumption
  <2> HIDE DEF n
  <2>3. IsFiniteSet(1..n) /\ Cardinality(1..n) = IF 1 > n THEN 0 ELSE n - 1 + 1
    BY <2>1, <2>2, Zenon
  <2>4. /\ IsFiniteSet(Pids)
        /\ Cardinality(Pids) = IF 0 > MaxPids - 1 THEN 0 ELSE (MaxPids - 1) - 0 + 1
    BY <2>1, <2>2, Zenon DEF Pids
  <2>5. n \in Nat
    BY <1>2 DEF n
  <2> QED  BY <2>2, <2>3, <2>4, <2>5
<1>4. ASSUME ~(n <= MaxPids) PROVE FALSE
  <2> DEFINE S == 1..n
             f == [k \in S |-> children[p][k]]
  <2>1. f \in [S -> Pids] /\ \A k \in S : f[k] = children[p][k]
    BY <1>2
  <2>2. Cardinality(Pids) < Cardinality(S)
    BY <1>2, <1>3, <1>4, ProcessAssumption
  <2> HIDE DEF f, S
  <2>3. PICK x \in S, y \in S : x # y /\ f[x] = f[y]
    BY <1>3, <2>1, <2>2, FS_PigeonHole DEF S
  <2> QED  BY <1>1, <1>2, <2>1, <2>3 DEF IsInjective, S
<1> QED  BY <1>2, <1>4

\* A process is once in the children of its parent, and in no others.
LEMMA OneOwner ==
    ASSUME ProcessIInv, NEW c \in pcbs \ {INITPROC}
    PROVE  /\ Cardinality(Owners(c)) = 1
           /\ \E o \in Owners(c) : o[1] = parent[c]
<1> DEFINE p == parent[c]
<1>1. p \in pcbs /\ p \in Pids /\ c \in Range(children[p])
  BY TreeFacts
<1>2. /\ Len(children[p]) \in Nat /\ Len(children[p]) <= MaxPids
      /\ DOMAIN children[p] = 1..Len(children[p]) /\ MaxPids \in Nat
  <2>1. children[p] \in Seq(Pids)
    BY <1>1, TreeFacts
  <2>2. DOMAIN children[p] = 1..Len(children[p])
    BY <2>1, LenProperties
  <2> QED  BY <1>1, <2>2, ChildrenFit, ProcessAssumption
<1>3. PICK k \in 1..Len(children[p]) : children[p][k] = c
  BY <1>1, <1>2 DEF Range
<1>4. k \in 1..MaxPids
  BY <1>2
<1>5. <<p, k>> \in Owners(c)
  BY <1>1, <1>2, <1>3, <1>4 DEF Owners
<1>6. ASSUME NEW o \in Owners(c) PROVE o = <<p, k>>
  <2>1. PICK q \in pcbs, j \in 1..MaxPids :
           o = <<q, j>> /\ j \in DOMAIN children[q] /\ children[q][j] = c
    BY DEF Owners
  <2>2. c \in Range(children[q]) /\ q \in Pids
    BY <2>1, TreeFacts DEF Range
  <2>3. q = p
    BY <2>2, TreeFacts
  <2>4. j = k
    BY <1>1, <1>2, <1>3, <2>1, <2>3, TreeFacts DEF IsInjective
  <2> QED  BY <2>1, <2>3, <2>4
<1>7. Owners(c) = {<<p, k>>}
  BY <1>5, <1>6
<1> QED  BY <1>5, <1>7, FS_Singleton

\* fork, exit, thread_create, waitpid and waittid, in any order and by any number
\* of processes and threads, keep the tree of processes under INITPROC and the
\* allocators of pids and tids exact.
THEOREM ProcessesAreATree == Spec => []ProcessInv
<1>1. ProcessIInv => ProcessInv
  <2> SUFFICES ASSUME ProcessIInv PROVE ProcessInv
    OBVIOUS
  <2>1. ProcessTree
    <3>1. \A c \in pcbs \ {INITPROC} : /\ Cardinality(Owners(c)) = 1
                                       /\ \E o \in Owners(c) : o[1] = parent[c]
      BY OneOwner
    <3> QED  BY <3>1, TreeFacts DEF ProcessTree
  <2> QED  BY <2>1 DEF ProcessInv, ProcessIInv
<1> QED  BY <1>1, ProcessInvariant, PTL

\* With programs that fork before they create threads, wait only for tids they were
\* given and join the threads that are in a call which keeps the process, no
\* assertion of fork, exit, waitpid or waittid fails.
THEOREM ProcessesNeverPanic ==
    ASSUME Calls \cap {"fork_joined", "waittid_any", "abandon"} = {}
    PROVE  Spec => []NoPanic
<1>1. ProcessIInv => NoPanic
  BY DEF ProcessIInv, PanicCause, NoPanic
<1> QED  BY <1>1, ProcessInvariant, PTL

-----------------------------------------------------------------------------
(* fork, exit and waitpid keep their contract                              *)

\* What the contract calls the status of a process, for any state of the tree.
StatusOf(P, Z, code) ==
    [p \in Pids |-> IF p \notin P THEN "Free"
                    ELSE IF p \in Z THEN code[p] ELSE "Running"]

LEMMA ForkSpawns ==
    ASSUME ProcessIInv, NEW p \in pcbs \ is_zombie, fork(p, allocated(PID_ALLOCATOR))
    PROVE  \E c \in Pids : Contract!Spawn(p, c)
<1> DEFINE st == StatusOf(pcbs, is_zombie, exit_code)
<1>1. PICK c \in Pids \ pcbs : c = allocated(PID_ALLOCATOR)
  BY ForkKeeps
<1>2. p \in Pids /\ c \notin is_zombie
  BY TreeFacts
<1>3. /\ pcbs' = pcbs \cup {c} /\ UNCHANGED is_zombie
      /\ exit_code' = [exit_code EXCEPT ![c] = Zero]
      /\ parent' = [parent EXCEPT ![c] = p]
  BY <1>1 DEF fork
<1>4. exit_code \in [Pids -> Codes]
  BY DEF ProcessIInv, TypeOK
<1>5. st[p] = "Running" /\ st[c] = "Free"
  BY <1>2 DEF StatusOf
<1>6. \A q \in Pids : q # c => exit_code'[q] = exit_code[q]
  BY <1>3, <1>4
<1>7. StatusOf(pcbs', is_zombie', exit_code') = [st EXCEPT ![c] = "Running"]
  BY <1>2, <1>3, <1>6 DEF StatusOf
<1>8. Contract!Spawn(p, c)
  BY <1>3, <1>5, <1>7 DEF Contract!Spawn, StatusOf
<1> QED  BY <1>8

LEMMA ExitTerminates ==
    ASSUME ProcessIInv, NEW p \in Pids, NEW code \in Codes, exit_process(p, code)
    PROVE  Contract!Terminate(p, code)
<1> DEFINE st == StatusOf(pcbs, is_zombie, exit_code)
<1>1. /\ p \in pcbs \ is_zombie /\ p # INITPROC
      /\ leave_tree(p) /\ is_zombie' = is_zombie \cup {p}
      /\ exit_code' = [exit_code EXCEPT ![p] = code]
      /\ UNCHANGED pcbs
  BY ExitProcessKeeps
<1>2. exit_code \in [Pids -> Codes]
  BY DEF ProcessIInv, TypeOK
<1>3. st[p] = "Running"
  BY <1>1 DEF StatusOf
<1>4. StatusOf(pcbs', is_zombie', exit_code') = [st EXCEPT ![p] = code]
  <2>1. exit_code'[p] = code /\ \A q \in Pids : q # p => exit_code'[q] = exit_code[q]
    BY <1>1, <1>2
  <2> QED  BY <1>1, <2>1 DEF StatusOf
<1>5. parent' = [x \in Pids |-> IF parent[x] = p THEN INITPROC ELSE parent[x]]
  <2>1. ASSUME NEW x \in Pids PROVE x \in Range(children[p]) <=> parent[x] = p
    <3>1. CASE x \in pcbs /\ x # INITPROC
      BY <3>1, TreeFacts
    <3>2. CASE ~(x \in pcbs /\ x # INITPROC)
      <4>1. parent[x] = None /\ x \notin Range(children[p])
        BY <3>2, TreeFacts
      <4> QED  BY <4>1, SlotFacts
    <3> QED  BY <3>1, <3>2
  <2> QED  BY <1>1, <2>1 DEF leave_tree
<1> QED  BY <1>1, <1>3, <1>4, <1>5 DEF Contract!Terminate, StatusOf

\* A step that leaves the tree as it is, a failed assertion too, is none of the contract.
LEMMA TreeStutters ==
    ASSUME UNCHANGED treeVars
    PROVE  UNCHANGED Contract!contractVars
<1>1. UNCHANGED <<pcbs, is_zombie, exit_code, parent>>
  BY DEF treeVars
<1> QED  BY <1>1 DEF Contract!contractVars

LEMMA WaitpidReaps ==
    ASSUME ProcessIInv, NEW p \in Pids, NEW i \in Tids, NEW pid, sys_waitpid(p, i, pid)
    PROVE  \/ UNCHANGED Contract!contractVars
           \/ \E c \in Pids : Contract!Reap(p, c)
<1> DEFINE st == StatusOf(pcbs, is_zombie, exit_code)
<1>1. p \in pcbs \ is_zombie
  BY DEF sys_waitpid, Syscall
<1>2. PICK k \in DOMAIN children[p] : first_zombie(p, pid, k) /\ reap(p, k)
  BY DEF sys_waitpid
<1>3. children[p][k] \in is_zombie /\ children[p][k] \in Pids
  BY <1>2, TreeFacts DEF first_zombie, ZombieChildren
<1>4. PICK c \in Pids : c = children[p][k]
  BY <1>3
<1>5. c \in is_zombie /\ c \in Range(children[p])
  BY <1>3, <1>4 DEF Range
<1>6. c \in pcbs /\ c \in Pids /\ parent[c] = p /\ c # p
  BY <1>1, <1>5, TreeFacts
<1>7. CASE strong_count(c) # 1
  <2>1. UNCHANGED treeVars
    BY <1>2, <1>4, <1>7 DEF reap, panic
  <2> QED  BY <2>1, TreeStutters
<1>8. CASE strong_count(c) = 1
  <2>1. /\ pcbs' = pcbs \ {c} /\ is_zombie' = is_zombie \ {c}
        /\ parent' = [parent EXCEPT ![c] = None]
        /\ exit_code' = [exit_code EXCEPT ![c] = Zero]
    BY <1>2, <1>4, <1>8 DEF reap, drop_pcb
  <2>2. exit_code \in [Pids -> Codes]
    BY DEF ProcessIInv, TypeOK
  <2>3. st[p] = "Running" /\ st[c] \in Codes
    BY <1>1, <1>5, <1>6, <2>2 DEF StatusOf
  <2>4. StatusOf(pcbs', is_zombie', exit_code') = [st EXCEPT ![c] = "Free"]
    <3>1. \A q \in Pids : q # c => exit_code'[q] = exit_code[q]
      BY <2>1, <2>2
    <3> QED  BY <1>5, <1>6, <2>1, <3>1 DEF StatusOf
  <2>5. Contract!Reap(p, c)
    BY <1>6, <2>1, <2>3, <2>4 DEF Contract!Reap, StatusOf
  <2> QED  BY <2>5
<1> QED  BY <1>7, <1>8

\* A process terminates once, keeps its code and its pid until its owner reaps it,
\* and has an owner that runs: processes implement the contract of fork, exit and
\* waitpid, whatever their programs call.
THEOREM ProcessesKeepContract == Spec => ImplementsContract
<1>1. Init => Contract!Init
  <2> SUFFICES ASSUME Init PROVE Contract!Init
    OBVIOUS
  <2>1. pcbs = {INITPROC} /\ is_zombie = {} /\ parent = [p \in Pids |-> None]
    BY DEF Init
  <2> QED  BY <2>1 DEF Contract!Init
<1>2. ProcessIInv /\ [Next]_vars => [Contract!Next]_Contract!contractVars
  <2> SUFFICES ASSUME ProcessIInv, [Next]_vars
               PROVE  Contract!Next \/ UNCHANGED Contract!contractVars
    OBVIOUS
  <2>1. ASSUME NEW p \in Pids, NEW i \in Tids,
               \/ sys_thread_create(p, i)
               \/ \E tid \in Tids : sys_waittid(p, i, tid)
               \/ sys_semaphore_down(p, i)
               \/ sys_mutex_lock(p, i)
               \/ return_to_user(p, i)
               \/ \E code \in Codes : exit_thread(p, i, code)
        PROVE  UNCHANGED Contract!contractVars
    <3>1. UNCHANGED treeVars
      BY <2>1 DEF sys_thread_create, sys_waittid, panic, sys_semaphore_down,
                  sys_mutex_lock, return_to_user, exit_thread
    <3> QED  BY <3>1, TreeStutters
  <2>2. ASSUME NEW p \in Pids, NEW i \in Tids, sys_fork(p, i)
        PROVE  Contract!Next \/ UNCHANGED Contract!contractVars
    <3>1. p \in pcbs \ is_zombie
      BY <2>2 DEF sys_fork, Syscall
    <3>2. CASE fork(p, allocated(PID_ALLOCATOR))
      BY <3>1, <3>2, ForkSpawns DEF Contract!Next
    <3>3. CASE panic("fork")
      BY <3>3, TreeStutters DEF panic
    <3> QED  BY <2>2, <3>2, <3>3 DEF sys_fork
  <2>3. ASSUME NEW p \in Pids, NEW i \in Tids, NEW pid \in Pids \cup {AnyPid},
               sys_waitpid(p, i, pid)
        PROVE  Contract!Next \/ UNCHANGED Contract!contractVars
    BY <2>3, WaitpidReaps DEF Contract!Next
  <2>4. ASSUME NEW p \in Pids, NEW code \in Codes, exit_process(p, code)
        PROVE  Contract!Next
    BY <2>4, ExitTerminates DEF Contract!Next
  <2>5. CASE UNCHANGED vars
    BY <2>5, TreeStutters DEF vars, treeVars
  <2> QED  BY <2>1, <2>2, <2>3, <2>4, <2>5 DEF Next
<1> QED  BY <1>1, <1>2, ProcessInvariant, PTL DEF Spec, ImplementsContract, Contract!Spec
=============================================================================
