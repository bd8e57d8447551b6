-------------------------------- MODULE Pipe --------------------------------
(***************************************************************************)
(* A pipe (os/src/fs/pipe.rs) and the descriptors that keep its ends open  *)
(* (os/src/syscall/fs.rs, fork and exit).                                  *)
(*                                                                         *)
(* A read or write call moves bytes until it is done or the ring buffer    *)
(* stops it; then it suspends and tries again when it next runs.  Nobody   *)
(* else runs in between: `cpu` is the task that is inside such a stretch.  *)
(* pc[t] is                                                                *)
(*   new          not created yet;                                         *)
(*   user         in user mode;                                            *)
(*   read, write  at the head of the loop of Pipe::read or Pipe::write,    *)
(*                running or suspended;                                    *)
(*   get, put     in the `for` of that loop;                               *)
(*   dead         exited;                                                  *)
(*   lost         inside Pipe::write when its process exited: it never     *)
(*                runs again, nor drops the Arc of the file it has cloned. *)
(***************************************************************************)
EXTENDS Integers, Sequences

CONSTANTS Procs, Creator,      \* Creator has called sys_pipe
          Tasks,
          Main,                \* [Procs -> Tasks]
          Process,             \* [Tasks -> Procs]
          RING_BUFFER_SIZE,
          Bytes,
          Calls,               \* what the programs do: guards their actions
          MaxLen,              \* bound: length of a read or write
          MaxFds,              \* bound: descriptors of a process for one end
          None

CallNames == {"read", "write", "close", "dup", "fork", "create", "exit"}

ASSUME PipeAssumption ==
    /\ Creator \in Procs
    /\ Process \in [Tasks -> Procs]
    /\ Main \in [Procs -> Tasks]
    /\ \A p \in Procs : Process[Main[p]] = p
    /\ None \notin Tasks
    /\ RING_BUFFER_SIZE \in Nat \ {0}
    /\ MaxLen \in Nat
    /\ MaxFds \in Nat \ {0}
    /\ Calls \subseteq CallNames

VARIABLES arr, head, tail, status,   \* PipeRingBuffer
          read_fds, write_fds,       \* descriptors in the fd_table of a process
          pc,
          buf,      \* what a write has yet to write
          want,     \* how much a read has yet to read
          cpu,
          loop,     \* turns left of the `for` of cpu
          eof       \* history: a read has returned at end of file

ringVars == <<arr, head, tail, status>>
fdVars == <<read_fds, write_fds>>
vars == <<arr, head, tail, status, read_fds, write_fds, pc, buf, want, cpu,
          loop, eof>>

Slots == 0..(RING_BUFFER_SIZE - 1)
PCs == {"new", "user", "read", "get", "write", "put", "dead", "lost"}

\* Every variable has its type.
TypeOK ==
    /\ arr \in [Slots -> Bytes]
    /\ head \in Slots
    /\ tail \in Slots
    /\ status \in {"Full", "Empty", "Normal"}
    /\ read_fds \in [Procs -> 0..MaxFds]
    /\ write_fds \in [Procs -> 0..MaxFds]
    /\ pc \in [Tasks -> PCs]
    /\ buf \in [Tasks -> Seq(Bytes)]
    /\ want \in [Tasks -> Nat]
    /\ cpu \in Tasks \cup {None}
    /\ loop \in 0..RING_BUFFER_SIZE
    /\ eof \in BOOLEAN

\* An empty ring buffer; what its array holds does not matter.
make_pipe ==
    /\ arr \in [Slots -> Bytes] /\ \A i, j \in Slots : arr[i] = arr[j]
    /\ head = 0
    /\ tail = 0
    /\ status = "Empty"

\* Creator has one descriptor of either end.
sys_pipe ==
    /\ read_fds = [p \in Procs |-> IF p = Creator THEN 1 ELSE 0]
    /\ write_fds = [p \in Procs |-> IF p = Creator THEN 1 ELSE 0]

\* The state in which sys_pipe of Creator returns.
Init ==
    /\ make_pipe
    /\ sys_pipe
    /\ pc = [t \in Tasks |-> IF t = Main[Creator] THEN "user" ELSE "new"]
    /\ buf = [t \in Tasks |-> <<>>]
    /\ want = [t \in Tasks |-> 0]
    /\ cpu = None
    /\ loop = 0
    /\ eof = FALSE
-----------------------------------------------------------------------------
(* PipeRingBuffer.                                                         *)

next(i) == (i + 1) % RING_BUFFER_SIZE

\* Mutant: Full is never set.
write_byte_unfilled(b) ==
    /\ arr' = [arr EXCEPT ![tail] = b]
    /\ tail' = next(tail)
    /\ status' = "Normal"
    /\ UNCHANGED head

write_byte(b) ==
    /\ arr' = [arr EXCEPT ![tail] = b]
    /\ tail' = next(tail)
    /\ status' = IF tail' = head THEN "Full" ELSE "Normal"
    /\ UNCHANGED head

\* Mutant: Empty is never set.
read_byte_unemptied ==
    /\ head' = next(head)
    /\ status' = IF head' = tail THEN status ELSE "Normal"
    /\ UNCHANGED <<arr, tail>>

read_byte ==
    /\ head' = next(head)
    /\ status' = IF head' = tail THEN "Empty" ELSE "Normal"
    /\ UNCHANGED <<arr, tail>>

available_read ==
    IF status = "Empty" THEN 0
    ELSE IF tail > head THEN tail - head
    ELSE tail + RING_BUFFER_SIZE - head

available_write ==
    IF status = "Full" THEN 0 ELSE RING_BUFFER_SIZE - available_read

\* The weak pointer to the write end cannot be upgraded: no descriptor and no
\* call, not even one of a process that has exited, has an Arc of it.
all_write_ends_closed ==
    /\ \A p \in Procs : write_fds[p] = 0
    /\ \A t \in Tasks : pc[t] \notin {"write", "put", "lost"}
-----------------------------------------------------------------------------
(* Pipe::read and Pipe::write.                                             *)

Syscall(t, call) == cpu = None /\ pc[t] = "user" /\ call \in Calls
At(t, l) == cpu = t /\ pc[t] = l

\* The call returns.
return(t) ==
    /\ pc' = [pc EXCEPT ![t] = "user"]
    /\ cpu' = None
    /\ loop' = 0

sys_write(t, bytes) ==
    /\ Syscall(t, "write")
    /\ write_fds[Process[t]] > 0
    /\ pc' = [pc EXCEPT ![t] = "write"]
    /\ buf' = [buf EXCEPT ![t] = bytes]
    /\ cpu' = t
    /\ UNCHANGED <<ringVars, fdVars, want, loop, eof>>

\* The scheduler comes back to a task that has suspended in the loop.
run_task(t) ==
    /\ cpu = None
    /\ pc[t] \in {"read", "write"}
    /\ cpu' = t
    /\ UNCHANGED <<ringVars, fdVars, pc, buf, want, loop, eof>>

write_suspend(t) ==
    /\ At(t, "write")
    /\ available_write = 0
    /\ cpu' = None
    /\ UNCHANGED <<ringVars, fdVars, pc, buf, want, loop, eof>>

write_loop(t) ==
    /\ At(t, "write")
    /\ available_write > 0
    /\ loop' = available_write
    /\ pc' = [pc EXCEPT ![t] = "put"]
    /\ UNCHANGED <<ringVars, fdVars, buf, want, cpu, eof>>

\* A turn of the `for`: one byte, and a return after the last one.
write_turn(t) ==
    /\ At(t, "put")
    /\ loop > 0
    /\ buf[t] # <<>>
    /\ write_byte(Head(buf[t]))
    /\ buf' = [buf EXCEPT ![t] = Tail(@)]
    /\ IF Len(buf[t]) = 1
       THEN return(t)
       ELSE loop' = loop - 1 /\ UNCHANGED <<pc, cpu>>
    /\ UNCHANGED <<fdVars, want, eof>>

\* The iterator of an empty buffer has no next(): only a write of zero bytes.
write_nothing(t) ==
    /\ At(t, "put")
    /\ buf[t] = <<>>
    /\ return(t)
    /\ UNCHANGED <<ringVars, fdVars, buf, want, eof>>

write_again(t) ==
    /\ At(t, "put")
    /\ loop = 0
    /\ pc' = [pc EXCEPT ![t] = "write"]
    /\ UNCHANGED <<ringVars, fdVars, buf, want, cpu, loop, eof>>

sys_read(t, n) ==
    /\ Syscall(t, "read")
    /\ read_fds[Process[t]] > 0
    /\ pc' = [pc EXCEPT ![t] = "read"]
    /\ want' = [want EXCEPT ![t] = n]
    /\ cpu' = t
    /\ UNCHANGED <<ringVars, fdVars, buf, loop, eof>>

\* Mutant: the reader does not look for closed write ends.
read_eof_never(t) == FALSE

\* Mutant: a full ring buffer is taken for an empty one.
read_eof_by_index(t) ==
    /\ At(t, "read")
    /\ head = tail
    /\ all_write_ends_closed
    /\ eof' = TRUE
    /\ want' = [want EXCEPT ![t] = 0]
    /\ return(t)
    /\ UNCHANGED <<ringVars, fdVars, buf>>

\* End of file: the read returns what it has got so far.
read_eof(t) ==
    /\ At(t, "read")
    /\ available_read = 0
    /\ all_write_ends_closed
    /\ eof' = TRUE
    /\ want' = [want EXCEPT ![t] = 0]
    /\ return(t)
    /\ UNCHANGED <<ringVars, fdVars, buf>>

read_suspend(t) ==
    /\ At(t, "read")
    /\ available_read = 0
    /\ ~all_write_ends_closed
    /\ cpu' = None
    /\ UNCHANGED <<ringVars, fdVars, pc, buf, want, loop, eof>>

read_loop(t) ==
    /\ At(t, "read")
    /\ available_read > 0
    /\ loop' = available_read
    /\ pc' = [pc EXCEPT ![t] = "get"]
    /\ UNCHANGED <<ringVars, fdVars, buf, want, cpu, eof>>

read_turn(t) ==
    /\ At(t, "get")
    /\ loop > 0
    /\ want[t] > 0
    /\ read_byte
    /\ want' = [want EXCEPT ![t] = @ - 1]
    /\ IF want[t] = 1
       THEN return(t)
       ELSE loop' = loop - 1 /\ UNCHANGED <<pc, cpu>>
    /\ UNCHANGED <<fdVars, buf, eof>>

read_nothing(t) ==
    /\ At(t, "get")
    /\ want[t] = 0
    /\ return(t)
    /\ UNCHANGED <<ringVars, fdVars, buf, want, eof>>

read_again(t) ==
    /\ At(t, "get")
    /\ loop = 0
    /\ want[t] > 0
    /\ pc' = [pc EXCEPT ![t] = "read"]
    /\ UNCHANGED <<ringVars, fdVars, buf, want, cpu, loop, eof>>
-----------------------------------------------------------------------------
(* Descriptors.                                                            *)

close_write(t) ==
    /\ Syscall(t, "close")
    /\ write_fds[Process[t]] > 0
    /\ write_fds' = [write_fds EXCEPT ![Process[t]] = @ - 1]
    /\ UNCHANGED <<ringVars, read_fds, pc, buf, want, cpu, loop, eof>>

close_read(t) ==
    /\ Syscall(t, "close")
    /\ read_fds[Process[t]] > 0
    /\ read_fds' = [read_fds EXCEPT ![Process[t]] = @ - 1]
    /\ UNCHANGED <<ringVars, write_fds, pc, buf, want, cpu, loop, eof>>

dup_write(t) ==
    /\ Syscall(t, "dup")
    /\ write_fds[Process[t]] \in 1..(MaxFds - 1)
    /\ write_fds' = [write_fds EXCEPT ![Process[t]] = @ + 1]
    /\ UNCHANGED <<ringVars, read_fds, pc, buf, want, cpu, loop, eof>>

\* fork copies the fd_table; it asserts that the process has had one thread.
sys_fork(t, q) ==
    /\ Syscall(t, "fork")
    /\ \A u \in Tasks : Process[u] = Process[t] => u = t \/ pc[u] = "new"
    /\ pc[Main[q]] = "new"
    /\ read_fds' = [read_fds EXCEPT ![q] = read_fds[Process[t]]]
    /\ write_fds' = [write_fds EXCEPT ![q] = write_fds[Process[t]]]
    /\ pc' = [pc EXCEPT ![Main[q]] = "user"]
    /\ UNCHANGED <<ringVars, buf, want, cpu, loop, eof>>

sys_thread_create(t, u) ==
    /\ Syscall(t, "create")
    /\ Process[u] = Process[t]
    /\ pc[u] = "new"
    /\ pc' = [pc EXCEPT ![u] = "user"]
    /\ UNCHANGED <<ringVars, fdVars, buf, want, cpu, loop, eof>>

\* The exit of the main thread clears the fd_table; the other threads of the
\* process stop where they are.
exit_current_and_run_next(t) ==
    LET p == Process[t]
        stopped(u) == IF pc[u] = "write" THEN "lost" ELSE "dead"
    IN  /\ Syscall(t, "exit")
        /\ IF t = Main[p]
           THEN /\ pc' = [u \in Tasks |-> IF Process[u] = p THEN stopped(u) ELSE pc[u]]
                /\ read_fds' = [read_fds EXCEPT ![p] = 0]
                /\ write_fds' = [write_fds EXCEPT ![p] = 0]
           ELSE /\ pc' = [pc EXCEPT ![t] = "dead"]
                /\ UNCHANGED fdVars
        /\ UNCHANGED <<ringVars, buf, want, cpu, loop, eof>>
-----------------------------------------------------------------------------
KernelStep(t) ==
    \/ write_suspend(t)
    \/ write_loop(t)
    \/ write_turn(t)
    \/ write_nothing(t)
    \/ write_again(t)
    \/ read_eof(t)
    \/ read_suspend(t)
    \/ read_loop(t)
    \/ read_turn(t)
    \/ read_nothing(t)
    \/ read_again(t)

UserStep(t) ==
    \/ \E n \in 0..MaxLen : \/ sys_read(t, n)
                            \/ \E bytes \in [1..n -> Bytes] : sys_write(t, bytes)
    \/ close_write(t)
    \/ close_read(t)
    \/ dup_write(t)
    \/ \E q \in Procs : sys_fork(t, q)
    \/ \E u \in Tasks : sys_thread_create(t, u)
    \/ exit_current_and_run_next(t)

Next == \E t \in Tasks : run_task(t) \/ KernelStep(t) \/ UserStep(t)

Spec == Init /\ [][Next]_vars
-----------------------------------------------------------------------------
(* Properties.                                                             *)

\* `status` tells a full buffer from an empty one, and the `for` of a call takes
\* no more turns than there are bytes, or free slots: so no byte is overwritten
\* before it was read, and none is read twice.
RingConsistent ==
    /\ status = "Normal" <=> head # tail
    /\ loop > 0 => cpu # None
    /\ cpu # None =>
          /\ pc[cpu] = "put" => loop <= available_write
          /\ pc[cpu] = "get" => loop <= available_read
          /\ pc[cpu] \notin {"get", "put"} => loop = 0

\* The bytes in the ring buffer, oldest first.
Contents ==
    [k \in 1..available_read |-> arr[(head + k - 1) % RING_BUFFER_SIZE]]

Channel == INSTANCE ByteChannel WITH
    chan <- Contents,
    open <- ~all_write_ends_closed,
    Size <- RING_BUFFER_SIZE

\* The pipe is a byte channel: every byte is read once and in order, whatever the
\* sizes of the calls and wherever they suspend; and a reader is told end of file
\* only when the last write end has gone for good and everything has been read.
ImplementsChannel == Channel!Spec

\* A task in the kernel goes on, and the scheduler comes back to one that has
\* suspended, FIFO among the tasks that are ready.
KernelFairness ==
    \A t \in Tasks : WF_vars(KernelStep(t)) /\ SF_vars(run_task(t))

FairSpec == Spec /\ KernelFairness

\* A reader that is waiting when the last write end goes returns, with what was
\* left in the pipe or with nothing.
ReadersSeeEof ==
    \A t \in Tasks :
        (pc[t] \in {"read", "get"} /\ all_write_ends_closed) ~> pc[t] \in {"user", "dead"}

\* A write of any length completes, in as many rounds as the ring buffer makes it
\* take, if others go on taking bytes.  It must be the only writer in the end:
\* the writers of a full pipe do not queue, and one that always runs right after
\* the reader keeps the others out.
WritesComplete ==
    \A t \in Tasks :
        LET bytesTaken == \E u \in Tasks : pc[u] = "get" /\ want[u] > 0
            onlyWriter == \A u \in Tasks \ {t} : pc[u] \notin {"write", "put"}
        IN  ([]<>bytesTaken /\ <>[]onlyWriter) =>
                (pc[t] \in {"write", "put"} ~> pc[t] \in {"user", "dead", "lost"})
=============================================================================
