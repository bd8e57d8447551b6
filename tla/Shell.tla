------------------------------- MODULE Shell -------------------------------
(***************************************************************************)
(* The shell (user/src/bin/user_shell.rs): it makes the pipes of a line,   *)
(* forks a process for each command, which wires its input and output and  *)
(* executes a program, closes its own ends and waits.  A system call is a  *)
(* step.  Two programs are run: cat (cat.rs) and count_lines               *)
(* (count_lines.rs).                                                       *)
(*                                                                         *)
(* A line is a sequence of commands [app, arg, input, output].  A byte     *)
(* stands for a line of text; an error message is one, too.  Programs read *)
(* and write one at a time.                                                *)
(***************************************************************************)
EXTENDS OpenFiles

CONSTANTS Lines, InitFiles

\* The keyboard is not modelled: the first command of a line does not read it.
\* cat has its argument.
ASSUME ShellAssumption ==
    \A line \in Lines :
        /\ line \in Seq([app : STRING, arg : FileNames \cup {None},
                         input : FileNames \cup {None},
                         output : FileNames \cup {None}])
        /\ Len(line) \in 1..(MaxPipes + 1)
        /\ line[1].app = "count_lines" => line[1].input # None
        /\ \A k \in DOMAIN line : line[k].app = "cat" => line[k].arg # None

VARIABLES os,
          sh,        \* the shell: where it is, its line, pipes_fd, a counter
          child,     \* the processes it has forked
          expected   \* history: what the line should leave on the screen and
                     \* in its output file

shellVars == <<os, sh, child, expected>>

Children == 1..(MaxPipes + 1)
Apps == {"cat", "count_lines"}         \* the others are not found
Error == 99                            \* an error message

NoChild == [status |-> "none", calls |-> <<>>, fd |-> 0, app |-> "", arg |-> "",
            count |-> 0, byte |-> 0]

ShellInit ==
    /\ os = [fd_table |-> [p \in {0} \cup Children |->
                              IF p = 0 THEN NewTable ELSE <<>>],
             open |-> [k \in 1..MaxOpen |-> None],
             files |-> InitFiles,
             pipes |-> [k \in 1..MaxPipes |-> <<>>],
             screen |-> <<>>]
    /\ sh = [at |-> "prompt", line |-> <<>>, pipes_fd |-> <<>>, k |-> 0]
    /\ child = [c \in Children |-> NoChild]
    /\ expected = <<>>

-----------------------------------------------------------------------------
(* What a line means                                                       *)

\* What a command prints for its input: a count is of line ends, and one more
\* if there was anything at all.
Printed(cmd, input) ==
    CASE cmd.app = "cat" -> IF os.files[cmd.arg] = None THEN <<Error>>
                            ELSE os.files[cmd.arg]
      [] cmd.app = "count_lines" ->
            <<IF input = <<>> THEN 0 ELSE Len(input) + 1>>
      [] OTHER -> <<Error>>

Missing(cmd) == cmd.input # None /\ os.files[cmd.input] = None

\* A command whose input is missing says so on the screen and ends; only the
\* first may have an input, and only the last an output.
Meaning(line) ==
    LET first == line[1]
        from == IF first.input = None \/ Missing(first) THEN <<>>
                ELSE os.files[first.input]
        rest == IF Missing(first) THEN Tail(line) ELSE line
        final == FoldLeft(LAMBDA text, cmd : Printed(cmd, text), from, rest)
        error == IF Missing(first) THEN <<Error>> ELSE <<>>
    IN  IF Last(line).output = None
        THEN [screen |-> error \o (IF rest = <<>> THEN <<>> ELSE final),
              output |-> None, text |-> None]
        ELSE [screen |-> error, output |-> Last(line).output,
              text |-> IF rest = <<>> THEN os.files[Last(line).output]
                       ELSE final]

-----------------------------------------------------------------------------
(* The shell                                                               *)

ValidLine(line) ==
    \/ Len(line) = 1
    \/ \A k \in DOMAIN line : /\ k > 1 => line[k].input = None
                              /\ k < Len(line) => line[k].output = None

\* A line is refused if an input or an output in it is bound twice.
refuse_line(line) ==
    /\ sh.at = "prompt"
    /\ ~ValidLine(line)
    /\ sh' = [sh EXCEPT !.line = line]
    /\ os' = [os EXCEPT !.screen = <<Error>>]
    /\ expected' = [screen |-> <<Error>>, output |-> None, text |-> None]
    /\ UNCHANGED child

read_line(line) ==
    /\ sh.at = "prompt"
    /\ ValidLine(line)
    /\ sh' = [at |-> "pipe", line |-> line, pipes_fd |-> <<>>, k |-> 1]
    /\ os' = [os EXCEPT !.screen = <<>>]
    /\ expected' = Meaning(line)
    /\ UNCHANGED child

shell_pipe ==
    /\ sh.at = "pipe"
    /\ sh.k < Len(sh.line)
    /\ os' = sys_pipe(os, 0, sh.k)
    /\ \E fd \in {alloc_fd(os.fd_table[0])} :
          \* the read end is at fd when the write end is allocated
          sh' = [sh EXCEPT !.k = @ + 1,
                    !.pipes_fd = @ \o <<fd, alloc_fd(PutFile(os.fd_table[0],
                                                 fd, ReadEnd(sh.k)))>>]
    /\ UNCHANGED <<child, expected>>

\* What the child does from fork to exec; `ends` are the pipes_fd.
Got == -1                              \* the descriptor it has just opened
Redirect(name, flags, fd) ==
    IF name = None THEN <<>>
    ELSE <<<<"open", name, flags>>, <<"close", fd>>, <<"dup", Got, fd>>,
           <<"close", Got>>>>

\* A mutant that leaves the pipes open.
Setup_open(cmd, k, n, ends) ==
    Redirect(cmd.input, {}, 0) \o
    Redirect(cmd.output, {"CREATE", "WRONLY"}, 1) \o
    (IF k > 1 THEN <<<<"close", 0>>, <<"dup", ends[2 * k - 3], 0>>>>
     ELSE <<>>) \o
    (IF k < n THEN <<<<"close", 1>>, <<"dup", ends[2 * k], 1>>>>
     ELSE <<>>)

Setup(cmd, k, n, ends) ==
    Redirect(cmd.input, {}, 0) \o
    Redirect(cmd.output, {"CREATE", "WRONLY"}, 1) \o
    (IF k > 1 THEN <<<<"close", 0>>, <<"dup", ends[2 * k - 3], 0>>>>
     ELSE <<>>) \o
    (IF k < n THEN <<<<"close", 1>>, <<"dup", ends[2 * k], 1>>>>
     ELSE <<>>) \o
    [e \in DOMAIN ends |-> <<"close", ends[e]>>]

shell_fork ==
    /\ sh.at \in {"pipe", "fork"}
    /\ sh.at = "pipe" => sh.k = Len(sh.line)
    /\ \E k \in {IF sh.at = "pipe" THEN 1 ELSE sh.k} :
          /\ k <= Len(sh.line)
          /\ os' = fork_fds(os, 0, k)
          /\ child' = [child EXCEPT ![k] =
                [NoChild EXCEPT !.status = "setup",
                                !.app = sh.line[k].app,
                                !.arg = sh.line[k].arg,
                                !.calls = Setup(sh.line[k], k, Len(sh.line),
                                                sh.pipes_fd)]]
          /\ sh' = IF k < Len(sh.line)
                   THEN [sh EXCEPT !.at = "fork", !.k = k + 1]
                   ELSE [sh EXCEPT !.at = "close", !.k = 1]
    /\ UNCHANGED expected

close_ends ==
    /\ sh.at = "close"
    /\ sh.k <= Len(sh.pipes_fd)
    /\ os' = sys_close(os, 0, sh.pipes_fd[sh.k])
    /\ sh' = [sh EXCEPT !.k = @ + 1]
    /\ UNCHANGED <<child, expected>>

\* waitpid for each child in turn.
wait_children ==
    /\ sh.at = "wait" \/ (sh.at = "close" /\ sh.k > Len(sh.pipes_fd))
    /\ \E k \in {IF sh.at = "close" THEN 1 ELSE sh.k} :
          /\ child[k].status = "zombie"
          /\ child' = [child EXCEPT ![k] = NoChild]
          /\ sh' = IF k < Len(sh.line)
                   THEN [sh EXCEPT !.at = "wait", !.k = k + 1]
                   ELSE [sh EXCEPT !.at = "prompt", !.k = 0]
    /\ UNCHANGED <<os, expected>>

-----------------------------------------------------------------------------
(* A child                                                                 *)

\* The child ends with an error message, wherever its output is now.
Fail(c) ==
    child' = [child EXCEPT ![c].status = "print", ![c].byte = Error,
                           ![c].app = "error", ![c].calls = <<>>]

Fd(c, fd) == IF fd = Got THEN child[c].fd ELSE fd
NextCall(c) == child' = [child EXCEPT ![c].calls = Tail(@)]

setup_call(c) ==
    /\ child[c].status = "setup"
    /\ child[c].calls # <<>>
    /\ \E call \in {Head(child[c].calls)} :
          \/ /\ call[1] = "open"
             /\ CanPlace(os)
             /\ os' = sys_open(os, c, call[2], call[3])
             /\ IF CanOpen(os, call[2], call[3])
                THEN child' = [child EXCEPT
                                   ![c].calls = Tail(@),
                                   ![c].fd = alloc_fd(os.fd_table[c])]
                ELSE Fail(c)
          \/ /\ call[1] = "close"
             /\ os' = sys_close(os, c, Fd(c, call[2]))
             /\ NextCall(c)
          \* dup asserts what it returns
          \/ /\ call[1] = "dup"
             /\ os' = sys_dup(os, c, Fd(c, call[2]))
             /\ IF alloc_fd(os.fd_table[c]) = call[3] THEN NextCall(c) ELSE Fail(c)
    /\ UNCHANGED <<sh, expected>>

shell_exec(c) ==
    /\ child[c].status = "setup"
    /\ child[c].calls = <<>>
    /\ IF child[c].app \in Apps
       THEN child' = [child EXCEPT ![c].status =
                         IF child[c].app = "cat" THEN "open" ELSE "read",
                         ![c].fd = 0]
       ELSE Fail(c)
    /\ UNCHANGED <<os, sh, expected>>

cat_open(c) ==
    /\ child[c].status = "open"
    /\ CanPlace(os)
    /\ os' = sys_open(os, c, child[c].arg, {})
    /\ IF CanOpen(os, child[c].arg, {})
       THEN child' = [child EXCEPT ![c].status = "read",
                                   ![c].fd = alloc_fd(os.fd_table[c])]
       ELSE Fail(c)
    /\ UNCHANGED <<sh, expected>>

\* cat prints what it reads, and count_lines prints at the end.
app_read(c) ==
    /\ child[c].status = "read"
    /\ \E file \in {FileAt(os, c, child[c].fd)} :
       \E byte \in ReadFrom(os, file) :
          \/ /\ byte # None
             /\ os' = sys_read(os, file)
             /\ child' = IF child[c].app = "cat"
                         THEN [child EXCEPT ![c].status = "print",
                                            ![c].byte = byte]
                         ELSE [child EXCEPT ![c].count = @ + 1]
          \/ /\ byte = None
             /\ UNCHANGED os
             /\ child' = IF child[c].app = "cat"
                         THEN [child EXCEPT ![c].status = "exit"]
                         ELSE [child EXCEPT ![c].status = "print",
                                  ![c].byte = IF child[c].count = 0 THEN 0
                                              ELSE child[c].count + 1]
    /\ UNCHANGED <<sh, expected>>

app_print(c) ==
    /\ child[c].status = "print"
    /\ \E file \in {FileAt(os, c, 1)} :
          /\ CanWrite(os, file)
          /\ os' = sys_write(os, file, child[c].byte)
    /\ child' = [child EXCEPT ![c].byte = 0,
                              ![c].status = IF child[c].app = "cat" THEN "read"
                                            ELSE "exit"]
    /\ UNCHANGED <<sh, expected>>

app_exit(c) ==
    /\ child[c].status = "exit"
    /\ os' = drop_fds(os, c)
    /\ child' = [child EXCEPT ![c] = [NoChild EXCEPT !.status = "zombie"]]
    /\ UNCHANGED <<sh, expected>>

\* Process 0 is the shell; it may be given another line.
ShellStep(p) ==
    IF p = 0
    THEN shell_pipe \/ shell_fork \/ close_ends \/ wait_children
    ELSE setup_call(p) \/ shell_exec(p) \/ cat_open(p) \/ app_read(p)
         \/ app_print(p) \/ app_exit(p)

ShellSpec ==
    ShellInit /\ [][\/ \E p \in {0} \cup Children : ShellStep(p)
                    \/ \E line \in Lines : read_line(line) \/ refuse_line(line)
                   ]_shellVars

-----------------------------------------------------------------------------
(* Properties                                                              *)

\* When a program runs, its input and output are those of its place in the
\* line, and it has no other end of a pipe: otherwise the next one would never
\* see the end of its input.  At the prompt the shell has none either.
ShellWiring ==
    /\ \A c \in Children : child[c].status \in {"open", "read", "print"} /\
                           child[c].app \in Apps =>
          LET cmd == sh.line[c]
              in == FileAt(os, c, 0)
              out == FileAt(os, c, 1)
          IN  /\ in = IF c > 1 THEN ReadEnd(c - 1)
                      ELSE IF cmd.input = None THEN Stdin ELSE in
              /\ cmd.input # None =>
                    /\ in[1] = "inode"
                    /\ os.open[in[2]].name = cmd.input
                    /\ os.open[in[2]].readable
              /\ out = IF c < Len(sh.line) THEN WriteEnd(c)
                       ELSE IF cmd.output = None THEN Stdout ELSE out
              /\ cmd.output # None =>
                    /\ out[1] = "inode"
                    /\ os.open[out[2]].name = cmd.output
                    /\ os.open[out[2]].writable
              /\ \A fd \in 3..Len(os.fd_table[c]) :
                    FileAt(os, c, fd) # None =>
                        child[c].app = "cat" /\ fd = child[c].fd
    /\ sh.at = "prompt" =>
          {file \in Entries(os) : file # None} = {Stdin, Stdout}

\* When a line is done, the screen and its output file have what the line means,
\* whatever the order in which the processes ran.  (Lines has none that reads
\* the file it writes.)
LineIsExact ==
    sh.at = "prompt" /\ sh.line # <<>> =>
        /\ os.screen = expected.screen
        /\ expected.output # None =>
              os.files[expected.output] = expected.text
=============================================================================
