-------------------------- MODULE ProcessContract --------------------------
(***************************************************************************)
(* What fork, exit and waitpid promise: a process runs, terminates with a  *)
(* code and keeps the code and its pid until its owner has reaped it.  The *)
(* owner is the parent, or INITPROC from the moment the parent terminates; *)
(* so there is always a running process to reap it.                        *)
(***************************************************************************)
CONSTANTS Pids, Codes, INITPROC, None

VARIABLES status,   \* "Free", "Running", or the code it terminated with
          owner     \* who may reap it

contractVars == <<status, owner>>

Init ==
    /\ status = [p \in Pids |-> IF p = INITPROC THEN "Running" ELSE "Free"]
    /\ owner = [p \in Pids |-> None]

Spawn(q, p) ==
    /\ status[q] = "Running"
    /\ status[p] = "Free"
    /\ status' = [status EXCEPT ![p] = "Running"]
    /\ owner' = [owner EXCEPT ![p] = q]

Terminate(p, c) ==
    /\ p # INITPROC
    /\ status[p] = "Running"
    /\ status' = [status EXCEPT ![p] = c]
    /\ owner' = [x \in Pids |-> IF owner[x] = p THEN INITPROC ELSE owner[x]]

Reap(q, p) ==
    /\ status[q] = "Running"
    /\ owner[p] = q
    /\ status[p] \in Codes
    /\ status' = [status EXCEPT ![p] = "Free"]
    /\ owner' = [owner EXCEPT ![p] = None]

Next ==
    \/ \E p, q \in Pids : Spawn(q, p) \/ Reap(q, p)
    \/ \E p \in Pids, c \in Codes : Terminate(p, c)

Spec == Init /\ [][Next]_contractVars
=============================================================================
