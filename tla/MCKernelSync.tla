---------------------------- MODULE MCKernelSync ----------------------------
(***************************************************************************)
(* TLC instances of KernelSync: constants that a .cfg cannot write.        *)
(***************************************************************************)
EXTENDS KernelSync

\* Every semaphore starts with one token, or with none.
OneEach == [s \in Semaphores |-> 1]
NoneEach == [s \in Semaphores |-> 0]

\* The threads other than the main one do the same.
Others == Permutations(Threads \ {Main})
=============================================================================
