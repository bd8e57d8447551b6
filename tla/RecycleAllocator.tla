-------------------------- MODULE RecycleAllocator --------------------------
(***************************************************************************)
(* RecycleAllocator of os/src/task/id.rs: the allocator of pids, of kernel *)
(* stacks and, one for each process, of tids.  An allocator is a record,   *)
(* and every operation returns the allocator it leaves.                    *)
(***************************************************************************)
EXTENDS Integers, SequencesExt

\* `current`, and the stack `recycled`, which is pushed and popped at its end.
Allocators == [current : Nat, recycled : Seq(Nat)]

new == [current |-> 0, recycled |-> <<>>]

\* The id that alloc returns, and what it leaves.
allocated(a) == IF a.recycled # <<>> THEN Last(a.recycled) ELSE a.current
alloc(a) ==
    IF a.recycled # <<>>
    THEN [a EXCEPT !.recycled = Front(@)]
    ELSE [a EXCEPT !.current = @ + 1]

\* dealloc asserts that the id is given out (see Given).
dealloc(a, id) == [a EXCEPT !.recycled = Append(@, id)]

\* The ids that are given out.
Given(a) == 0..(a.current - 1) \ Range(a.recycled)

\* No id is recycled twice, or before it was given out.
Sound(a) ==
    /\ a \in Allocators
    /\ Range(a.recycled) \subseteq 0..(a.current - 1)
    /\ IsInjective(a.recycled)
=============================================================================
