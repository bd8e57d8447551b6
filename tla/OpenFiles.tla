----------------------------- MODULE OpenFiles -----------------------------
(***************************************************************************)
(* Descriptor tables and open files (os/src/syscall/fs.rs, fs/inode.rs,    *)
(* fs/stdio.rs, alloc_fd of task/process.rs), as operators on the state    *)
(* os of the kernel:                                                       *)
(*                                                                         *)
(*   os.fd_table[p]   the table of process p, file descriptor fd at fd + 1 *)
(*   os.open[k]       the OSInodes: [name, readable, writable, offset]     *)
(*   os.files[name]   the contents of the files, None if there is none     *)
(*   os.pipes[k]      the bytes in a pipe                                  *)
(*   os.screen        what was printed                                     *)
(*                                                                         *)
(* An entry of a table is a pair of a kind of file and a number; entries   *)
(* that dup and fork copy are the same file.  Here a pipe is a queue: what *)
(* its ring buffer does is in the module Pipe.                             *)
(***************************************************************************)
EXTENDS Integers, SequencesExt, FiniteSetsExt

CONSTANTS FileNames, MaxOpen, MaxPipes, PIPE_SIZE, None

Stdin == <<"stdin", 0>>
Stdout == <<"stdout", 0>>
OSInode(k) == <<"inode", k>>
ReadEnd(k) == <<"read_end", k>>
WriteEnd(k) == <<"write_end", k>>

\* What an entry of a table may refer to, and an OSInode.
AnyFile == {Stdin, Stdout} \cup {OSInode(k) : k \in 1..MaxOpen}
           \cup {ReadEnd(k) : k \in 1..MaxPipes}
           \cup {WriteEnd(k) : k \in 1..MaxPipes}
AnyInode == [name : FileNames, readable : BOOLEAN, writable : BOOLEAN,
             offset : Nat]

ASSUME OpenFilesAssumption ==
    /\ {MaxOpen, MaxPipes} \subseteq Nat
    /\ None \notin AnyFile /\ None \notin AnyInode /\ None \notin FileNames

Entries(os) == UNION {ToSet(os.fd_table[p]) : p \in DOMAIN os.fd_table}

NewTable == <<Stdin, Stdout, Stdout>>

\* The file at a descriptor, None if there is none.
FileAt(os, p, fd) ==
    IF fd + 1 \in DOMAIN os.fd_table[p] THEN os.fd_table[p][fd + 1] ELSE None

\* The lowest descriptor that is free, or one behind the last.
alloc_fd(table) ==
    IF \E k \in DOMAIN table : table[k] = None
    THEN Min({k \in DOMAIN table : table[k] = None}) - 1
    ELSE Len(table)

PutFile(table, fd, file) ==
    IF fd < Len(table) THEN [table EXCEPT ![fd + 1] = file]
    ELSE Append(table, file)

\* An OSInode lives as long as an entry refers to it.
Dropped(os) ==
    [os EXCEPT !.open = [k \in DOMAIN @ |->
        IF OSInode(k) \in Entries(os) THEN @[k] ELSE None]]

Install(os, p, file) ==
    [os EXCEPT !.fd_table[p] = PutFile(@, alloc_fd(@), file)]

sys_close(os, p, fd) ==
    IF FileAt(os, p, fd) = None THEN os
    ELSE Dropped([os EXCEPT !.fd_table[p][fd + 1] = None])

sys_dup(os, p, fd) ==
    IF FileAt(os, p, fd) = None THEN os
    ELSE Install(os, p, FileAt(os, p, fd))

\* make_pipe, and its two ends in the table.
sys_pipe(os, p, k) ==
    Install(Install([os EXCEPT !.pipes[k] = <<>>], p, ReadEnd(k)),
            p, WriteEnd(k))

\* OpenFlags::read_write: CREATE alone would be for reading and writing.
readable(flags) == flags = {} \/ "WRONLY" \notin flags
writable(flags) == flags # {}

\* open_file and sys_open: CREATE and TRUNC clear a file that exists.  There
\* are at most MaxOpen OSInodes.
CanOpen(os, name, flags) == "CREATE" \in flags \/ os.files[name] # None
CanPlace(os) == \E k \in DOMAIN os.open : os.open[k] = None
sys_open(os, p, name, flags) ==
    IF ~CanOpen(os, name, flags) THEN os
    ELSE LET k == Min({j \in DOMAIN os.open : os.open[j] = None})
         IN  Install([os EXCEPT
                 !.files[name] = IF flags \cap {"CREATE", "TRUNC"} # {}
                                 THEN <<>> ELSE @,
                 !.open[k] = [name |-> name, readable |-> readable(flags),
                              writable |-> writable(flags), offset |-> 0]],
                 p, OSInode(k))

\* The whole table goes when a process exits, and fork copies it.
drop_fds(os, p) == Dropped([os EXCEPT !.fd_table[p] = <<>>])
fork_fds(os, p, child) == [os EXCEPT !.fd_table[child] = os.fd_table[p]]

\* What a read of one byte finds: the byte, None at the end of the file, or
\* nothing yet.  Pipe::read waits while there are write ends.
ReadFrom(os, file) ==
    IF file[1] = "inode"
    THEN LET o == os.open[file[2]]
             text == os.files[o.name]
         IN  {IF o.offset < Len(text) THEN text[o.offset + 1] ELSE None}
    ELSE IF os.pipes[file[2]] # <<>> THEN {Head(os.pipes[file[2]])}
    ELSE IF WriteEnd(file[2]) \in Entries(os) THEN {}
    ELSE {None}

\* The state after the read of a byte.
sys_read(os, file) ==
    IF file[1] = "inode" THEN [os EXCEPT !.open[file[2]].offset = @ + 1]
    ELSE [os EXCEPT !.pipes[file[2]] = Tail(@)]

\* Pipe::write waits while the pipe is full.
CanWrite(os, file) ==
    file[1] = "write_end" => Len(os.pipes[file[2]]) < PIPE_SIZE

\* A mutant that always writes at the beginning.
WriteAt_start(text, offset, byte) ==
    IF text = <<>> THEN <<byte>> ELSE [text EXCEPT ![1] = byte]

\* The program never seeks, so a write is at most at the end.
WriteAt(text, offset, byte) ==
    IF offset < Len(text) THEN [text EXCEPT ![offset + 1] = byte]
    ELSE Append(text, byte)

sys_write(os, file, byte) ==
    CASE file[1] = "stdout" -> [os EXCEPT !.screen = Append(@, byte)]
      [] file[1] = "write_end" -> [os EXCEPT !.pipes[file[2]] = Append(@, byte)]
      [] file[1] = "inode" ->
            [os EXCEPT !.files[os.open[file[2]].name] =
                           WriteAt(@, os.open[file[2]].offset, byte),
                       !.open[file[2]].offset = @ + 1]
=============================================================================
