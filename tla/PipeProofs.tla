----------------------------- MODULE PipeProofs -----------------------------
(***************************************************************************)
(* Proofs about Pipe, for any processes, tasks, bytes and size of the ring *)
(* buffer.  PipeInv is inductive; with it every step of a pipe is a step   *)
(* of the byte channel, or leaves the channel alone.                       *)
(***************************************************************************)
EXTENDS Pipe, SequenceTheorems, TLAPS

\* Only the running task is inside the loop of a read or a write.
InLoop == \A t \in Tasks : pc[t] \in {"get", "put"} => cpu = t

\* The inductive invariant.
PipeInv == TypeOK /\ RingConsistent /\ InLoop
-----------------------------------------------------------------------------
(* The ring buffer.                                                        *)

\* `next` goes around without division.
LEMMA NextSlot ==
    ASSUME NEW i \in Slots
    PROVE  next(i) = IF i = RING_BUFFER_SIZE - 1 THEN 0 ELSE i + 1
  BY PipeAssumption DEF Slots, next

\* What the invariant says of the ring buffer.
RingOK ==
    /\ RING_BUFFER_SIZE \in Nat \ {0}
    /\ head \in 0..(RING_BUFFER_SIZE - 1)
    /\ tail \in 0..(RING_BUFFER_SIZE - 1)
    /\ status \in {"Full", "Empty", "Normal"}
    /\ status = "Normal" <=> head # tail

LEMMA RingIsOK == ASSUME TypeOK, RingConsistent PROVE RingOK
  BY PipeAssumption DEF TypeOK, RingConsistent, Slots, RingOK

\* What available_read and available_write count.
CountsOK ==
    /\ available_read \in 0..RING_BUFFER_SIZE
    /\ available_write \in 0..RING_BUFFER_SIZE
    /\ available_write = RING_BUFFER_SIZE - available_read
    /\ available_read = 0 <=> status = "Empty"
    /\ available_write = 0 <=> status = "Full"

LEMMA Available == RingOK => CountsOK
<1> SUFFICES ASSUME RingOK PROVE CountsOK
  OBVIOUS
<1> USE DEF CountsOK, RingOK, available_read, available_write
<1>1. CASE status = "Empty"  BY <1>1
<1>2. CASE status = "Full"   BY <1>2
<1>3. CASE status = "Normal" BY <1>3
<1> QED  BY <1>1, <1>2, <1>3

\* write_byte fills one slot.
LEMMA WriteByteCounts ==
    ASSUME RingOK, NEW b, available_write > 0, write_byte(b)
    PROVE  /\ RingOK'
           /\ available_read' = available_read + 1
           /\ available_write' = available_write - 1
<1>1. tail' = IF tail = RING_BUFFER_SIZE - 1 THEN 0 ELSE tail + 1
  BY NextSlot DEF RingOK, Slots, write_byte
<1>2. head' = head /\ status' = IF tail' = head THEN "Full" ELSE "Normal"
  BY DEF write_byte
<1>3. RingOK'
  BY <1>1, <1>2 DEF RingOK
<1>4. status # "Full"
  BY Available DEF CountsOK
<1>5. available_read' = available_read + 1
  <2>1. CASE status = "Empty"   BY <1>1, <1>2, <2>1 DEF RingOK, available_read
  <2>2. CASE status = "Normal"  BY <1>1, <1>2, <2>2 DEF RingOK, available_read
  <2> QED  BY <1>4, <2>1, <2>2 DEF RingOK
<1>6. CountsOK /\ CountsOK'
  BY <1>3, Available, PTL
<1> QED  BY <1>3, <1>5, <1>6 DEF CountsOK, RingOK

\* read_byte frees one slot.
LEMMA ReadByteCounts ==
    ASSUME RingOK, available_read > 0, read_byte
    PROVE  /\ RingOK'
           /\ available_read' = available_read - 1
<1>1. head' = IF head = RING_BUFFER_SIZE - 1 THEN 0 ELSE head + 1
  BY NextSlot DEF RingOK, Slots, read_byte
<1>2. tail' = tail /\ status' = IF head' = tail THEN "Empty" ELSE "Normal"
  BY DEF read_byte
<1>3. RingOK'
  BY <1>1, <1>2 DEF RingOK
<1>4. status # "Empty"
  BY Available DEF CountsOK
<1>5. available_read' = available_read - 1
  <2>1. CASE status = "Full"    BY <1>1, <1>2, <2>1 DEF RingOK, available_read
  <2>2. CASE status = "Normal"  BY <1>1, <1>2, <2>2 DEF RingOK, available_read
  <2> QED  BY <1>4, <2>1, <2>2 DEF RingOK
<1> QED  BY <1>3, <1>5

\* A step that leaves the ring buffer alone leaves its counts and contents alone.
LEMMA RingFrame ==
    ASSUME UNCHANGED ringVars
    PROVE  /\ available_read' = available_read
           /\ available_write' = available_write
           /\ Contents' = Contents
  BY DEF ringVars, available_read, available_write, Contents
-----------------------------------------------------------------------------
(* The inductive invariant.                                                *)

\* The loop counter of the running task, and who may have one.
LoopOK ==
    /\ loop \in 0..RING_BUFFER_SIZE
    /\ loop > 0 => cpu # None
    /\ \A t \in Tasks :
          /\ pc[t] \in {"get", "put"} => cpu = t
          /\ pc[t] = "put" => loop <= available_write
          /\ pc[t] = "get" => loop <= available_read
          /\ cpu = t /\ pc[t] \notin {"get", "put"} => loop = 0

\* The variables that are neither of the ring buffer nor of the loop.
RestOK ==
    /\ arr \in [Slots -> Bytes]
    /\ read_fds \in [Procs -> 0..MaxFds]
    /\ write_fds \in [Procs -> 0..MaxFds]
    /\ pc \in [Tasks -> PCs]
    /\ buf \in [Tasks -> Seq(Bytes)]
    /\ want \in [Tasks -> Nat]
    /\ cpu \in Tasks \cup {None}
    /\ eof \in BOOLEAN

\* The invariant, in the parts in which the steps disturb it.
LEMMA InvParts == PipeInv <=> RingOK /\ LoopOK /\ RestOK
<1>1. PipeInv => RingOK
  BY RingIsOK DEF PipeInv
<1>2. PipeInv => LoopOK
  BY SMTT(30), PipeAssumption DEF PipeInv, TypeOK, RingConsistent, InLoop, LoopOK
<1>3. PipeInv => RestOK
  BY DEF PipeInv, TypeOK, RestOK
<1>4. RingOK /\ LoopOK /\ RestOK => TypeOK
  BY DEF RingOK, LoopOK, RestOK, TypeOK, Slots
<1>5. RingOK /\ LoopOK /\ RestOK => RingConsistent
  BY DEF RingOK, LoopOK, RestOK, RingConsistent
<1>6. LoopOK => InLoop
  BY DEF LoopOK, InLoop
<1> QED  BY <1>1, <1>2, <1>3, <1>4, <1>5, <1>6 DEF PipeInv

LEMMA InitInv == Init => PipeInv
<1>1. Init => RingOK
  BY PipeAssumption DEF Init, make_pipe, RingOK
<1>2. Init => LoopOK
  BY PipeAssumption DEF Init, LoopOK
<1>3. Init => RestOK
  <2> SUFFICES ASSUME Init PROVE RestOK
    OBVIOUS
  <2>1. arr \in [Slots -> Bytes] /\ cpu \in Tasks \cup {None} /\ eof \in BOOLEAN
    BY DEF Init, make_pipe
  <2>2. read_fds \in [Procs -> 0..MaxFds] /\ write_fds \in [Procs -> 0..MaxFds]
    BY PipeAssumption DEF Init, sys_pipe
  <2>3. pc \in [Tasks -> PCs] /\ buf \in [Tasks -> Seq(Bytes)] /\ want \in [Tasks -> Nat]
    BY DEF Init, PCs
  <2> QED  BY <2>1, <2>2, <2>3 DEF RestOK
<1> QED  BY <1>1, <1>2, <1>3, InvParts

\* A step of the running task t that takes it to l.
LEMMA LoopStep ==
    ASSUME LoopOK, RestOK, NEW t \in Tasks, NEW l \in PCs,
           pc' = [pc EXCEPT ![t] = l], cpu \in {t, None}, cpu' \in {t, None},
           loop' \in 0..RING_BUFFER_SIZE,
           l \in {"get", "put"} => cpu' = t,
           l \notin {"get", "put"} => loop' = 0,
           l = "put" => loop' <= available_write',
           l = "get" => loop' <= available_read'
    PROVE  LoopOK' /\ pc' \in [Tasks -> PCs] /\ cpu' \in Tasks \cup {None}
<1>1. pc' \in [Tasks -> PCs] /\ cpu' \in Tasks \cup {None}
  BY DEF RestOK
<1>2. \A u \in Tasks : pc'[u] = IF u = t THEN l ELSE pc[u]
  BY DEF RestOK
<1>3. \A u \in Tasks : u # t => pc[u] \notin {"get", "put"}
  BY PipeAssumption DEF LoopOK
<1>4. loop' > 0 => cpu' # None
  BY PipeAssumption
<1>5. \A u \in Tasks : /\ pc'[u] \in {"get", "put"} => cpu' = u
                       /\ cpu' = u /\ pc'[u] \notin {"get", "put"} => loop' = 0
                       /\ pc'[u] = "put" => loop' <= available_write'
                       /\ pc'[u] = "get" => loop' <= available_read'
  BY <1>2, <1>3, PipeAssumption
<1> QED  BY <1>1, <1>4, <1>5 DEF LoopOK

\* A step of a task in the kernel that leaves the ring buffer alone.
LEMMA QuietKernelStep ==
    ASSUME PipeInv, NEW t \in Tasks,
           \/ write_suspend(t) \/ write_loop(t) \/ write_nothing(t) \/ write_again(t)
           \/ read_eof(t) \/ read_suspend(t) \/ read_loop(t) \/ read_nothing(t)
           \/ read_again(t) \/ run_task(t)
    PROVE  PipeInv'
<1> SUFFICES RingOK' /\ LoopOK' /\ RestOK'
  BY InvParts, PTL
<1> USE DEF At, return, fdVars
<1>1. /\ UNCHANGED ringVars /\ UNCHANGED fdVars /\ UNCHANGED buf
      /\ want' \in {want, [want EXCEPT ![t] = 0]}
      /\ eof' \in {eof, TRUE}
  BY DEF write_suspend, write_loop, write_nothing, write_again, read_eof, read_suspend,
         read_loop, read_nothing, read_again, run_task
<1>2. RingOK /\ LoopOK /\ RestOK /\ CountsOK
  BY InvParts, Available
<1>3. RingOK'
  BY <1>1, <1>2 DEF RingOK, ringVars
<1>4. available_read' = available_read /\ available_write' = available_write
  BY <1>1, RingFrame
<1>5. LoopOK' /\ pc' \in [Tasks -> PCs] /\ cpu' \in Tasks \cup {None}
  <2> DEFINE l == pc'[t]
  <2>1. pc \in [Tasks -> PCs] /\ loop \in 0..RING_BUFFER_SIZE
    BY <1>2 DEF RestOK, LoopOK
  <2>2. l \in PCs /\ pc' = [pc EXCEPT ![t] = l]
    BY <2>1 DEF PCs, write_suspend, write_loop, write_nothing, write_again, read_eof,
                read_suspend, read_loop, read_nothing, read_again, run_task
  <2>3. cpu \in {t, None} /\ cpu' \in {t, None} /\ (l \in {"get", "put"} => cpu' = t)
    BY <2>1 DEF write_suspend, write_loop, write_nothing, write_again, read_eof,
                read_suspend, read_loop, read_nothing, read_again, run_task
  <2>4. loop' \in {0, loop, available_read, available_write}
    BY DEF write_suspend, write_loop, write_nothing, write_again, read_eof, read_suspend,
           read_loop, read_nothing, read_again, run_task
  <2>5. loop' \in 0..RING_BUFFER_SIZE
    BY <1>2, <2>1, <2>4, PipeAssumption DEF CountsOK
  <2>6. /\ l = "put" => loop' = available_write
        /\ l = "get" => loop' = available_read
    BY <2>1 DEF write_suspend, write_loop, write_nothing, write_again, read_eof,
                read_suspend, read_loop, read_nothing, read_again, run_task
  <2>7. l \notin {"get", "put"} => loop' = 0
    BY <1>2, <2>1, PipeAssumption
       DEF LoopOK, write_suspend, write_loop, write_nothing, write_again,
           read_eof, read_suspend, read_loop, read_nothing, read_again, run_task
  <2>8. /\ l = "put" => loop' <= available_write'
        /\ l = "get" => loop' <= available_read'
    BY <1>2, <1>4, <2>6, PipeAssumption DEF CountsOK
  <2> QED  BY <1>2, <2>2, <2>3, <2>5, <2>7, <2>8, LoopStep
<1>6. want' \in [Tasks -> Nat]
  BY <1>1, <1>2 DEF RestOK
<1>7. eof' \in BOOLEAN
  BY <1>1, <1>2, Zenon DEF RestOK
<1>8. RestOK'
  BY <1>1, <1>2, <1>5, <1>6, <1>7 DEF RestOK, ringVars
<1> QED  BY <1>3, <1>5, <1>8

LEMMA WriteTurnInv ==
    ASSUME PipeInv, NEW t \in Tasks, write_turn(t)
    PROVE  PipeInv'
<1> SUFFICES RingOK' /\ LoopOK' /\ RestOK'
  BY InvParts, PTL
<1> USE DEF At, return, fdVars
<1>1. RingOK /\ LoopOK /\ RestOK /\ CountsOK
  BY InvParts, Available
<1>2. Head(buf[t]) \in Bytes /\ Tail(buf[t]) \in Seq(Bytes)
  BY <1>1, HeadTailProperties DEF RestOK, write_turn
<1>3. available_write > 0 /\ loop <= available_write /\ loop \in 1..RING_BUFFER_SIZE
  BY <1>1, PipeAssumption DEF LoopOK, CountsOK, write_turn
<1>4. RingOK' /\ available_write' = available_write - 1
  BY <1>1, <1>3, WriteByteCounts DEF write_turn
<1>5. arr' \in [Slots -> Bytes] /\ buf' \in [Tasks -> Seq(Bytes)]
  BY <1>1, <1>2 DEF RestOK, RingOK, Slots, write_turn, write_byte
<1>6. LoopOK' /\ pc' \in [Tasks -> PCs] /\ cpu' \in Tasks \cup {None}
  <2>1. CASE Len(buf[t]) = 1
    BY <1>1, <2>1, LoopStep, PipeAssumption DEF PCs, write_turn
  <2>2. CASE Len(buf[t]) # 1
    <3>1. pc' = [pc EXCEPT ![t] = "put"]
      BY <1>1, <2>2 DEF RestOK, write_turn
    <3>2. loop' = loop - 1 /\ loop' <= available_write' /\ loop' \in 0..RING_BUFFER_SIZE
      BY <1>1, <1>3, <1>4, <2>2, PipeAssumption DEF CountsOK, write_turn
    <3> QED  BY <1>1, <2>2, <3>1, <3>2, LoopStep DEF PCs, write_turn
  <2> QED  BY <2>1, <2>2
<1>7. RestOK'
  BY <1>1, <1>5, <1>6 DEF RestOK, write_turn
<1> QED  BY <1>4, <1>6, <1>7

LEMMA ReadTurnInv ==
    ASSUME PipeInv, NEW t \in Tasks, read_turn(t)
    PROVE  PipeInv'
<1> SUFFICES RingOK' /\ LoopOK' /\ RestOK'
  BY InvParts, PTL
<1> USE DEF At, return, fdVars
<1>1. RingOK /\ LoopOK /\ RestOK /\ CountsOK
  BY InvParts, Available
<1>2. available_read > 0 /\ loop <= available_read /\ loop \in 1..RING_BUFFER_SIZE
  BY <1>1, PipeAssumption DEF LoopOK, CountsOK, read_turn
<1>3. RingOK' /\ available_read' = available_read - 1
  BY <1>1, <1>2, ReadByteCounts DEF read_turn
<1>4. arr' \in [Slots -> Bytes] /\ want' \in [Tasks -> Nat]
  BY <1>1 DEF RestOK, read_turn, read_byte
<1>5. LoopOK' /\ pc' \in [Tasks -> PCs] /\ cpu' \in Tasks \cup {None}
  <2>1. CASE want[t] = 1
    BY <1>1, <2>1, LoopStep, PipeAssumption DEF PCs, read_turn
  <2>2. CASE want[t] # 1
    <3>1. pc' = [pc EXCEPT ![t] = "get"]
      BY <1>1, <2>2 DEF RestOK, read_turn
    <3>2. loop' = loop - 1 /\ loop' <= available_read' /\ loop' \in 0..RING_BUFFER_SIZE
      BY <1>1, <1>2, <1>3, <2>2, PipeAssumption DEF CountsOK, read_turn
    <3> QED  BY <1>1, <2>2, <3>1, <3>2, LoopStep DEF PCs, read_turn
  <2> QED  BY <2>1, <2>2
<1>6. RestOK'
  BY <1>1, <1>4, <1>5 DEF RestOK, read_turn
<1> QED  BY <1>3, <1>5, <1>6

LEMMA UserStepInv ==
    ASSUME PipeInv, NEW t \in Tasks, UserStep(t)
    PROVE  PipeInv'
<1> SUFFICES RingOK' /\ LoopOK' /\ RestOK'
  BY InvParts, PTL
<1> USE DEF Syscall, fdVars
<1>1. RingOK /\ LoopOK /\ RestOK
  BY InvParts
<1>2. UNCHANGED ringVars /\ cpu = None /\ loop' = loop /\ eof' = eof
  BY DEF UserStep, sys_read, sys_write, close_write, close_read, dup_write, sys_fork,
         sys_thread_create, exit_current_and_run_next
<1>3. RingOK'
  BY <1>1, <1>2 DEF RingOK, ringVars
<1>4. loop = 0 /\ \A u \in Tasks : pc[u] \notin {"get", "put"}
  BY <1>1, <1>2, PipeAssumption DEF LoopOK
<1>5. ASSUME NEW n \in 0..MaxLen, sys_read(t, n)  PROVE LoopOK' /\ RestOK'
  <2>1. want' \in [Tasks -> Nat]
    BY <1>1, <1>5, PipeAssumption DEF RestOK, sys_read
  <2>2. LoopOK' /\ pc' \in [Tasks -> PCs] /\ cpu' \in Tasks \cup {None}
    <3>1. pc' = [pc EXCEPT ![t] = "read"] /\ cpu' = t /\ loop' = 0
      BY <1>2, <1>4, <1>5 DEF sys_read
    <3>2. 0 \in 0..RING_BUFFER_SIZE
      BY PipeAssumption
    <3> QED  BY <1>1, <1>2, <3>1, <3>2, LoopStep DEF PCs
  <2> QED  BY <1>1, <1>2, <1>5, <2>1, <2>2 DEF RestOK, ringVars, sys_read
<1>6. ASSUME NEW n \in 0..MaxLen, NEW bytes \in [1..n -> Bytes], sys_write(t, bytes)
      PROVE  LoopOK' /\ RestOK'
  <2>1. bytes \in Seq(Bytes)
    BY <1>6, PipeAssumption
  <2>2. LoopOK' /\ pc' \in [Tasks -> PCs] /\ cpu' \in Tasks \cup {None}
    <3>1. pc' = [pc EXCEPT ![t] = "write"] /\ cpu' = t /\ loop' = 0
      BY <1>2, <1>4, <1>6 DEF sys_write
    <3>2. 0 \in 0..RING_BUFFER_SIZE
      BY PipeAssumption
    <3> QED  BY <1>1, <1>2, <3>1, <3>2, LoopStep DEF PCs
  <2> QED  BY <1>1, <1>2, <1>6, <2>1, <2>2 DEF RestOK, ringVars, sys_write
<1>7. ASSUME \/ close_write(t) \/ close_read(t) \/ dup_write(t)
             \/ \E q \in Procs : sys_fork(t, q)
             \/ \E u \in Tasks : sys_thread_create(t, u)
             \/ exit_current_and_run_next(t)
      PROVE  LoopOK' /\ RestOK'
  <2>1. UNCHANGED <<buf, want, cpu, eof>>
    BY <1>7 DEF close_write, close_read, dup_write, sys_fork, sys_thread_create,
                exit_current_and_run_next
  <2>2. read_fds' \in [Procs -> 0..MaxFds] /\ write_fds' \in [Procs -> 0..MaxFds]
    <3>0. ASSUME NEW f \in [Procs -> 0..MaxFds], NEW p \in Procs, NEW k \in 0..MaxFds
          PROVE  [f EXCEPT ![p] = k] \in [Procs -> 0..MaxFds]
      OBVIOUS
    <3> DEFINE p == Process[t]
    <3>a. p \in Procs /\ read_fds[p] \in 0..MaxFds /\ write_fds[p] \in 0..MaxFds
      BY <1>1, PipeAssumption DEF RestOK
    <3>b. /\ read_fds \in [Procs -> 0..MaxFds] /\ write_fds \in [Procs -> 0..MaxFds]
          /\ MaxFds \in Nat
      BY <1>1, PipeAssumption DEF RestOK
    <3> HIDE DEF p
    <3>1. CASE close_write(t)
      <4>1. write_fds[p] > 0 /\ write_fds' = [write_fds EXCEPT ![p] = write_fds[p] - 1]
        BY <3>1 DEF p, close_write
      <4>2. write_fds[p] - 1 \in 0..MaxFds
        BY <3>a, <3>b, <4>1
      <4> QED  BY <3>0, <3>a, <3>b, <3>1, <4>1, <4>2 DEF close_write
    <3>2. CASE close_read(t)
      <4>1. read_fds[p] > 0 /\ read_fds' = [read_fds EXCEPT ![p] = read_fds[p] - 1]
        BY <3>2 DEF p, close_read
      <4>2. read_fds[p] - 1 \in 0..MaxFds
        BY <3>a, <3>b, <4>1
      <4> QED  BY <3>0, <3>a, <3>b, <3>2, <4>1, <4>2 DEF close_read
    <3>3. CASE dup_write(t)
      <4>1. write_fds[p] < MaxFds /\ write_fds' = [write_fds EXCEPT ![p] = write_fds[p] + 1]
        BY <3>3, <3>b DEF p, dup_write
      <4>2. write_fds[p] + 1 \in 0..MaxFds
        BY <3>a, <3>b, <4>1
      <4> QED  BY <3>0, <3>a, <3>b, <3>3, <4>1, <4>2 DEF dup_write
    <3>4. ASSUME NEW q \in Procs, sys_fork(t, q)
          PROVE  read_fds' \in [Procs -> 0..MaxFds] /\ write_fds' \in [Procs -> 0..MaxFds]
      BY <1>1, <3>0, <3>4, PipeAssumption DEF RestOK, sys_fork
    <3>5. ASSUME NEW u \in Tasks, sys_thread_create(t, u)
          PROVE  read_fds' \in [Procs -> 0..MaxFds] /\ write_fds' \in [Procs -> 0..MaxFds]
      BY <1>1, <3>5 DEF RestOK, sys_thread_create
    <3>6. CASE exit_current_and_run_next(t)
      <4>1. \/ UNCHANGED fdVars
            \/ /\ read_fds' = [read_fds EXCEPT ![p] = 0]
               /\ write_fds' = [write_fds EXCEPT ![p] = 0]
        BY <3>6 DEF p, exit_current_and_run_next
      <4>2. 0 \in 0..MaxFds
        BY <3>b
      <4> QED  BY <3>0, <3>a, <3>b, <4>1, <4>2
    <3> QED  BY <1>7, <3>1, <3>2, <3>3, <3>4, <3>5, <3>6
  <2>3. pc' \in [Tasks -> PCs] /\ \A u \in Tasks : pc'[u] \notin {"get", "put"}
    <3>1. CASE pc' = pc
      BY <1>1, <1>4, <3>1 DEF RestOK
    <3>2. ASSUME NEW u \in Tasks, NEW l \in {"user", "dead"}, pc' = [pc EXCEPT ![u] = l]
          PROVE  pc' \in [Tasks -> PCs] /\ \A v \in Tasks : pc'[v] \notin {"get", "put"}
      BY <1>1, <1>4, <3>2 DEF RestOK, PCs
    <3>3. CASE pc' = [u \in Tasks |->
                        IF Process[u] = Process[t]
                        THEN IF pc[u] = "write" THEN "lost" ELSE "dead"
                        ELSE pc[u]]
      BY <1>1, <1>4, <3>3 DEF RestOK, PCs
    <3> QED  BY <1>7, <3>1, <3>2, <3>3, PipeAssumption
                DEF close_write, close_read, dup_write, sys_fork, sys_thread_create,
                    exit_current_and_run_next
  <2>4. RestOK'
    BY <1>1, <1>2, <2>1, <2>2, <2>3 DEF RestOK, ringVars
  <2>5. LoopOK'
    BY <1>1, <1>2, <1>4, <2>1, <2>3, PipeAssumption DEF LoopOK
  <2> QED  BY <2>4, <2>5
<1>8. LoopOK' /\ RestOK'
  BY <1>5, <1>6, <1>7 DEF UserStep
<1> QED  BY <1>3, <1>8

LEMMA NextInv == PipeInv /\ [Next]_vars => PipeInv'
<1> SUFFICES ASSUME PipeInv, [Next]_vars PROVE PipeInv'
  OBVIOUS
<1>1. CASE UNCHANGED vars
  BY <1>1, RingFrame
     DEF vars, ringVars, PipeInv, TypeOK, RingConsistent, InLoop
<1>2. ASSUME NEW t \in Tasks, run_task(t) \/ KernelStep(t) PROVE PipeInv'
  BY <1>2, QuietKernelStep, WriteTurnInv, ReadTurnInv DEF KernelStep
<1>3. ASSUME NEW t \in Tasks, UserStep(t) PROVE PipeInv'
  BY <1>3, UserStepInv
<1> QED  BY <1>1, <1>2, <1>3 DEF Next

\* Every variable keeps its type, for every ring buffer and every set of tasks.
THEOREM TypeCorrect == Spec => []TypeOK
<1>1. PipeInv => TypeOK
  BY DEF PipeInv
<1> QED  BY <1>1, InitInv, NextInv, PTL DEF Spec

\* `status` tells a full buffer from an empty one and the loops of read and write
\* never take more turns than there are bytes or free slots, whatever the size of
\* the ring buffer.
THEOREM RingAlwaysConsistent == Spec => []RingConsistent
<1>1. PipeInv => RingConsistent
  BY DEF PipeInv
<1> QED  BY <1>1, InitInv, NextInv, PTL DEF Spec
-----------------------------------------------------------------------------
(* The pipe is a byte channel.                                             *)

\* Where the k-th oldest byte is.
LEMMA SlotOf ==
    ASSUME RingOK, NEW k \in 1..RING_BUFFER_SIZE
    PROVE  /\ (head + k - 1) % RING_BUFFER_SIZE \in Slots
           /\ (head + k - 1) % RING_BUFFER_SIZE =
                 IF head + k - 1 < RING_BUFFER_SIZE THEN head + k - 1
                 ELSE head + k - 1 - RING_BUFFER_SIZE
  BY DEF RingOK, Slots

\* The contents are a sequence of bytes.
ContentsOK ==
    /\ Contents \in Seq(Bytes)
    /\ Len(Contents) = available_read
    /\ \A k \in 1..available_read :
          Contents[k] = arr[(head + k - 1) % RING_BUFFER_SIZE]

LEMMA ContentsAreBytes == RingOK /\ RestOK => ContentsOK
<1> SUFFICES ASSUME RingOK, RestOK PROVE ContentsOK
  OBVIOUS
<1>1. available_read \in 0..RING_BUFFER_SIZE /\ RING_BUFFER_SIZE \in Nat
  BY Available DEF CountsOK, RingOK
<1>2. \A k \in 1..available_read : arr[(head + k - 1) % RING_BUFFER_SIZE] \in Bytes
  BY <1>1, SlotOf DEF RestOK
<1>3. Contents \in [1..available_read -> Bytes]
  BY <1>2 DEF Contents
<1>4. Contents \in Seq(Bytes) /\ Len(Contents) = available_read
  BY <1>1, <1>3
<1> QED  BY <1>4 DEF ContentsOK, Contents

\* The oldest byte leaves.
LEMMA ReadByteContents ==
    ASSUME RingOK, RestOK, RingOK', RestOK', available_read > 0, read_byte
    PROVE  Contents # <<>> /\ Contents' = Tail(Contents)
<1>1. ContentsOK /\ ContentsOK' /\ CountsOK
  BY ContentsAreBytes, Available, PTL
<1>2. available_read' = available_read - 1 /\ arr' = arr
  BY ReadByteCounts DEF read_byte
<1>3. Contents # <<>>
  BY <1>1 DEF ContentsOK
<1>4. /\ Tail(Contents) \in Seq(Bytes)
      /\ Len(Tail(Contents)) = Len(Contents) - 1
      /\ \A k \in 1..Len(Tail(Contents)) : Tail(Contents)[k] = Contents[k + 1]
  BY <1>1, <1>3, HeadTailProperties DEF ContentsOK
<1>5. ASSUME NEW k \in 1..Len(Contents') PROVE Contents'[k] = Tail(Contents)[k]
  <2>1. k \in 1..(available_read - 1) /\ k + 1 \in 1..available_read
    BY <1>1, <1>2 DEF ContentsOK, CountsOK
  <2>2. (head' + k - 1) % RING_BUFFER_SIZE = (head + (k + 1) - 1) % RING_BUFFER_SIZE
    <3>1. head' = IF head = RING_BUFFER_SIZE - 1 THEN 0 ELSE head + 1
      BY NextSlot DEF RingOK, Slots, read_byte
    <3>2. k \in 1..RING_BUFFER_SIZE /\ k + 1 \in 1..RING_BUFFER_SIZE
      BY <1>1, <2>1 DEF CountsOK, RingOK
    <3> QED  BY <3>1, <3>2, SlotOf DEF RingOK
  <2>3. Contents'[k] = arr[(head' + k - 1) % RING_BUFFER_SIZE]
    BY <1>1, <1>2, <2>1 DEF ContentsOK
  <2>4. Tail(Contents)[k] = arr[(head + (k + 1) - 1) % RING_BUFFER_SIZE]
    BY <1>1, <1>4, <2>1 DEF ContentsOK, CountsOK
  <2> QED  BY <2>2, <2>3, <2>4
<1>6. Contents' \in Seq(Bytes) /\ Len(Contents') = Len(Tail(Contents))
  BY <1>1, <1>2, <1>4 DEF ContentsOK
<1>7. Contents' = Tail(Contents)
  BY <1>4, <1>5, <1>6, SeqEqual
<1> QED  BY <1>3, <1>7

\* A byte goes in behind the others.
LEMMA WriteByteContents ==
    ASSUME RingOK, RestOK, RingOK', RestOK', NEW b \in Bytes, available_write > 0,
           write_byte(b)
    PROVE  Len(Contents) < RING_BUFFER_SIZE /\ Contents' = Append(Contents, b)
<1>1. ContentsOK /\ ContentsOK' /\ CountsOK
  BY ContentsAreBytes, Available, PTL
<1>2. available_read' = available_read + 1 /\ head' = head /\ arr' = [arr EXCEPT ![tail] = b]
  BY WriteByteCounts DEF write_byte
<1>3. available_read < RING_BUFFER_SIZE
  BY <1>1 DEF CountsOK, RingOK
<1>4. /\ Append(Contents, b) \in Seq(Bytes)
      /\ Len(Append(Contents, b)) = Len(Contents) + 1
      /\ \A k \in 1..Len(Contents) : Append(Contents, b)[k] = Contents[k]
      /\ Append(Contents, b)[Len(Contents) + 1] = b
  BY <1>1, AppendProperties DEF ContentsOK
<1>5. (head + (available_read + 1) - 1) % RING_BUFFER_SIZE = tail
  <2>1. available_read + 1 \in 1..RING_BUFFER_SIZE
    BY <1>1, <1>3 DEF CountsOK, RingOK
  <2>2. status # "Full"
    BY <1>1 DEF CountsOK
  <2>3. CASE status = "Empty"
    BY <2>1, <2>3, SlotOf DEF RingOK, available_read
  <2>4. CASE status = "Normal"
    BY <2>1, <2>4, SlotOf DEF RingOK, available_read
  <2> QED  BY <2>2, <2>3, <2>4 DEF RingOK
<1>6. ASSUME NEW k \in 1..available_read
      PROVE  /\ (head + k - 1) % RING_BUFFER_SIZE \in Slots
             /\ (head + k - 1) % RING_BUFFER_SIZE # tail
  <2>1. k \in 1..RING_BUFFER_SIZE /\ available_read + 1 \in 1..RING_BUFFER_SIZE
    BY <1>1, <1>3 DEF CountsOK, RingOK
  <2>2. (head + k - 1) % RING_BUFFER_SIZE \in Slots
    BY <2>1, SlotOf
  <2>3. (head + k - 1) % RING_BUFFER_SIZE
           # (head + (available_read + 1) - 1) % RING_BUFFER_SIZE
    BY <1>1, <2>1, SlotOf DEF RingOK, CountsOK
  <2> QED  BY <1>5, <2>2, <2>3
<1>7. ASSUME NEW k \in 1..Len(Contents') PROVE Contents'[k] = Append(Contents, b)[k]
  <2>1. k \in 1..(available_read + 1)
    BY <1>1, <1>2 DEF ContentsOK
  <2>2. Contents'[k] = [arr EXCEPT ![tail] = b][(head + k - 1) % RING_BUFFER_SIZE]
    BY <1>1, <1>2, <2>1 DEF ContentsOK
  <2>3. CASE k = available_read + 1
    BY <1>1, <1>4, <1>5, <2>2, <2>3 DEF ContentsOK, RestOK, RingOK, Slots
  <2>4. CASE k \in 1..available_read
    <3>1. Contents'[k] = arr[(head + k - 1) % RING_BUFFER_SIZE]
      BY <1>6, <2>2, <2>4 DEF RestOK
    <3> QED  BY <1>1, <1>4, <2>4, <3>1 DEF ContentsOK
  <2> QED
    <3>1. available_read \in Nat
      BY <1>1 DEF CountsOK, RingOK
    <3>2. k = available_read + 1 \/ k \in 1..available_read
      BY <2>1, <3>1
    <3> QED  BY <2>3, <2>4, <3>2
<1>8. Contents' \in Seq(Bytes) /\ Len(Contents') = Len(Append(Contents, b))
  BY <1>1, <1>2, <1>4 DEF ContentsOK
<1>9. Contents' = Append(Contents, b)
  BY <1>4, <1>7, <1>8, SeqEqual
<1> QED  BY <1>1, <1>3, <1>9 DEF ContentsOK

\* A step that neither moves a byte nor announces end of file closes the channel,
\* or leaves it alone, if it does not open a write end again.
LEMMA QuietStep ==
    ASSUME Contents' = Contents, eof' = eof,
           all_write_ends_closed => all_write_ends_closed'
    PROVE  [Channel!Next]_(Channel!channelVars)
<1>1. CASE all_write_ends_closed <=> all_write_ends_closed'
  <2>1. (~all_write_ends_closed)' = (~all_write_ends_closed)
    BY <1>1
  <2> QED  BY <2>1 DEF Channel!channelVars
<1>2. CASE ~all_write_ends_closed /\ all_write_ends_closed'
  <2>1. Channel!Close
    BY <1>2 DEF Channel!Close
  <2> QED  BY <2>1 DEF Channel!Next
<1> QED  BY <1>1, <1>2

\* No step opens a write end again.
LEMMA ClosedForGood ==
    ASSUME PipeInv, all_write_ends_closed, NEW t \in Tasks,
           run_task(t) \/ KernelStep(t) \/ UserStep(t)
    PROVE  all_write_ends_closed'
<1> USE DEF At, Syscall, return, fdVars
<1>1. /\ pc \in [Tasks -> PCs] /\ write_fds \in [Procs -> 0..MaxFds]
      /\ Process[t] \in Procs
      /\ write_fds[Process[t]] = 0
      /\ pc[t] \notin {"write", "put", "lost"}
  BY PipeAssumption DEF PipeInv, TypeOK, all_write_ends_closed
<1>2. \A p \in Procs : write_fds'[p] = 0
  <2>1. CASE run_task(t) \/ KernelStep(t)
    BY <2>1 DEF all_write_ends_closed, run_task, KernelStep, write_suspend, write_loop,
       write_turn, write_nothing, write_again, read_eof, read_suspend, read_loop,
       read_turn, read_nothing, read_again
  <2>2. CASE UserStep(t)
    BY <1>1, <2>2 DEF all_write_ends_closed, UserStep, sys_read, sys_write, close_write,
       close_read, dup_write, sys_fork, sys_thread_create, exit_current_and_run_next
  <2> QED  BY <2>1, <2>2
<1>3. \A u \in Tasks : pc'[u] \notin {"write", "put", "lost"}
  <2>1. CASE run_task(t) \/ KernelStep(t)
    BY <1>1, <2>1 DEF all_write_ends_closed, run_task, KernelStep, write_suspend,
       write_loop, write_turn, write_nothing, write_again, read_eof, read_suspend,
       read_loop, read_turn, read_nothing, read_again
  <2>2. CASE UserStep(t)
    BY <1>1, <2>2 DEF all_write_ends_closed, UserStep, sys_read, sys_write, close_write,
       close_read, dup_write, sys_fork, sys_thread_create, exit_current_and_run_next
  <2> QED  BY <2>1, <2>2
<1> QED  BY <1>2, <1>3 DEF all_write_ends_closed

\* Every step of the pipe is a step of the channel or leaves it alone.
LEMMA ChannelStep == PipeInv /\ PipeInv' /\ [Next]_vars => [Channel!Next]_(Channel!channelVars)
<1> SUFFICES ASSUME PipeInv, PipeInv', [Next]_vars
             PROVE  [Channel!Next]_(Channel!channelVars)
  OBVIOUS
<1>1. RingOK /\ LoopOK /\ RestOK /\ RingOK' /\ RestOK' /\ CountsOK
  BY InvParts, Available, PTL
<1>2. CASE UNCHANGED vars
  <2>1. Contents' = Contents
    BY <1>2, RingFrame DEF vars, ringVars
  <2> QED  BY <1>2, <2>1, QuietStep DEF vars, all_write_ends_closed
<1>3. ASSUME NEW t \in Tasks, run_task(t) \/ KernelStep(t) \/ UserStep(t)
      PROVE  [Channel!Next]_(Channel!channelVars)
  <2>0. all_write_ends_closed => all_write_ends_closed'
    BY <1>3, ClosedForGood
  <2>1. CASE read_turn(t)
    <3>1. available_read > 0 /\ read_byte /\ eof' = eof
      BY <1>1, <2>1 DEF LoopOK, CountsOK, RingOK, read_turn, At
    <3>2. Contents # <<>> /\ Contents' = Tail(Contents)
      BY <1>1, <3>1, ReadByteContents
    <3>3. all_write_ends_closed' => all_write_ends_closed
      BY <1>1, <2>1 DEF all_write_ends_closed, RestOK, read_turn, At, return, fdVars
    <3>4. (~all_write_ends_closed)' = (~all_write_ends_closed)
      BY <2>0, <3>3
    <3>5. Channel!Get
      BY <3>1, <3>2, <3>4 DEF Channel!Get
    <3> QED  BY <3>5 DEF Channel!Next
  <2>2. CASE write_turn(t)
    <3> DEFINE b == Head(buf[t])
    <3>1. b \in Bytes
      BY <1>1, <2>2, HeadTailProperties DEF RestOK, write_turn
    <3>2. available_write > 0 /\ write_byte(b) /\ eof' = eof
      BY <1>1, <2>2 DEF LoopOK, CountsOK, RingOK, write_turn, At
    <3>3. Len(Contents) < RING_BUFFER_SIZE /\ Contents' = Append(Contents, b)
      BY <1>1, <3>1, <3>2, WriteByteContents
    <3>4. ~all_write_ends_closed
      BY <2>2 DEF all_write_ends_closed, write_turn, At
    <3> HIDE DEF b
    <3>5. CASE all_write_ends_closed'
      <4>1. Channel!PutAndClose(b)
        BY <3>2, <3>3, <3>4, <3>5 DEF Channel!PutAndClose
      <4> QED  BY <3>1, <4>1 DEF Channel!Next
    <3>6. CASE ~all_write_ends_closed'
      <4>1. (~all_write_ends_closed)' = (~all_write_ends_closed)
        BY <3>4, <3>6
      <4>2. Channel!Put(b)
        BY <3>2, <3>3, <3>4, <4>1 DEF Channel!Put
      <4> QED  BY <3>1, <4>2 DEF Channel!Next
    <3> QED  BY <3>5, <3>6
  <2>3. CASE read_eof(t)
    <3>1. Contents' = Contents
      BY <2>3, RingFrame DEF read_eof
    <3>2. Contents = <<>>
      BY <1>1, <2>3, ContentsAreBytes DEF ContentsOK, read_eof
    <3>3. all_write_ends_closed /\ eof' = TRUE
      BY <2>3 DEF read_eof
    <3>4. (~all_write_ends_closed)' = (~all_write_ends_closed)
      BY <2>0, <3>3
    <3>5. Channel!EndOfFile
      BY <3>1, <3>2, <3>3, <3>4 DEF Channel!EndOfFile
    <3> QED  BY <3>5 DEF Channel!Next
  <2>4. CASE UNCHANGED ringVars /\ eof' = eof
    BY <2>0, <2>4, RingFrame, QuietStep
  <2>5. CASE UserStep(t)
    BY <2>4, <2>5 DEF UserStep, sys_read, sys_write, close_write, close_read, dup_write,
       sys_fork, sys_thread_create, exit_current_and_run_next
  <2>6. CASE run_task(t)
    BY <2>4, <2>6 DEF run_task
  <2>7. CASE KernelStep(t)
    BY <2>1, <2>2, <2>3, <2>4, <2>7
       DEF KernelStep, write_suspend, write_loop, write_nothing, write_again,
           read_suspend, read_loop, read_nothing, read_again
  <2> QED  BY <1>3, <2>5, <2>6, <2>7
<1> QED  BY <1>2, <1>3 DEF Next

LEMMA ChannelInit == Init => Channel!Init
<1> SUFFICES ASSUME Init PROVE Channel!Init
  OBVIOUS
<1>1. Contents = <<>>
  BY InitInv, InvParts, ContentsAreBytes, Available
     DEF ContentsOK, CountsOK, Init, make_pipe
<1>2. ~all_write_ends_closed
  BY PipeAssumption DEF Init, sys_pipe, all_write_ends_closed
<1>3. eof = FALSE
  BY DEF Init
<1> QED  BY <1>1, <1>2, <1>3 DEF Channel!Init

\* A pipe of any size, between any processes, is a byte channel: bytes come out once
\* and in order, and end of file is told only when nothing can come any more.
THEOREM PipeIsChannel == Spec => ImplementsChannel
  BY ChannelInit, ChannelStep, InitInv, NextInv, PTL DEF Spec, ImplementsChannel, Channel!Spec
=============================================================================
