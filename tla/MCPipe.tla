------------------------------- MODULE MCPipe -------------------------------
(***************************************************************************)
(* Instances of Pipe for TLC: process A made the pipe and may create a     *)
(* second thread; B is the child that A may fork.                          *)
(***************************************************************************)
EXTENDS Pipe

MCProcs == {"A", "B"}
MCMain == [p \in MCProcs |-> IF p = "A" THEN "a" ELSE "b"]

TwoTasks == {"a", "b"}
ThreeTasks == {"a", "a2", "b"}
MCProcess == [t \in Tasks |-> IF t = "b" THEN "B" ELSE "A"]
=============================================================================
