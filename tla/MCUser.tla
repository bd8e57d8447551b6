------------------------------- MODULE MCUser -------------------------------
(***************************************************************************)
(* The user programs, for TLC: a behaviour is one of a program.  The       *)
(* variables of the others stay as they are.                               *)
(***************************************************************************)
EXTENDS Peterson, Eisenberg, SyncPrograms, Coroutines, Shell

VARIABLE running

vars == <<petersonVars, eisenbergVars, syncVars, coroutineVars, shellVars,
          running>>

Init ==
    /\ running \in {"peterson", "eisenberg", "sync", "runtime", "executor",
                    "shell"}
    /\ PetersonInit
    /\ EisenbergInit
    /\ SyncInit
    /\ running # "sync" => program = "sync_sem"
    /\ CoroutineInit
    /\ ShellInit

\* A step of a thread, of a process, or of the one thread of coroutines.
Step(p) ==
    /\ \/ /\ running = "peterson"
          /\ p \in Threads
          /\ PetersonStep(p)
          /\ UNCHANGED <<eisenbergVars, syncVars, coroutineVars, shellVars>>
       \/ /\ running = "eisenberg"
          /\ p \in Ids
          /\ EisenbergStep(p)
          /\ UNCHANGED <<petersonVars, syncVars, coroutineVars, shellVars>>
       \/ /\ running = "sync"
          /\ SyncStep(p)
          /\ UNCHANGED <<petersonVars, eisenbergVars, coroutineVars, shellVars>>
       \/ /\ running = "runtime"
          /\ p = 0
          /\ RuntimeStep
          /\ UNCHANGED <<petersonVars, eisenbergVars, syncVars, executorVars,
                         shellVars>>
       \/ /\ running = "executor"
          /\ p = 0
          /\ ExecutorStep
          /\ UNCHANGED <<petersonVars, eisenbergVars, syncVars, runtimeVars,
                         shellVars>>
       \/ /\ running = "shell"
          /\ p \in {0} \cup Children
          /\ ShellStep(p)
          /\ UNCHANGED <<petersonVars, eisenbergVars, syncVars, coroutineVars>>
    /\ UNCHANGED running

\* A line is typed, or it is not.
Type ==
    /\ running = "shell"
    /\ \E line \in Lines : read_line(line) \/ refuse_line(line)
    /\ UNCHANGED <<petersonVars, eisenbergVars, syncVars, coroutineVars,
                   running>>

Processors == 0..4
Next == (\E p \in Processors : Step(p)) \/ Type

\* The scheduler is round robin and the timer takes the processor away.
Spec == Init /\ [][Next]_vars /\ \A p \in Processors : WF_vars(Step(p))

-----------------------------------------------------------------------------
Command(app, arg) == [app |-> app, arg |-> arg, input |-> None,
                      output |-> None]
Cat(name) == Command("cat", name)
Count == Command("count_lines", None)
From(command, name) == [command EXCEPT !.input = name]
To(command, name) == [command EXCEPT !.output = name]

\* There is a file "a", and the lines write "b".  What a command writes to one
\* that does not read is no more than the pipe holds: it would wait for ever.
MCLines == {
    <<Cat("a")>>,
    <<To(Cat("a"), "b")>>,
    <<Cat("a"), To(Count, "b")>>,
    <<To(From(Count, "a"), "b")>>,
    <<From(Count, "b"), Count, Count>>,
    <<Cat("b"), Count, Count>>,
    <<Command("unknown", None), Count>>,
    <<From(Count, "a"), Command("unknown", None), Count>>,
    <<To(Cat("a"), "b"), Count>>}
MCFiles == [name \in FileNames |-> IF name = "a" THEN <<11, 12>> ELSE None]
MCYields == <<4, 8, 12, 16>>

AtRest ==
    /\ running = "peterson" => PetersonDone
    /\ running = "eisenberg" => EisenbergDone
    /\ running = "sync" => SyncDone
    /\ running = "runtime" => finished
    /\ running = "executor" => tasks = <<>>
    /\ running = "shell" => sh.at = "prompt"

\* Every program comes to its end, and the shell back to its prompt: no thread
\* waits for another that waits for it, no wakeup is lost, and no reader waits
\* for the end of an input that a process keeps open.  (A line in which a command
\* writes more than a pipe holds to one that does not read is not in Lines.)
AllFinish == []<>AtRest
=============================================================================
