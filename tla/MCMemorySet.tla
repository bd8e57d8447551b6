----------------------------- MODULE MCMemorySet -----------------------------
(* MemorySet with two programs: one of a page, and one of two segments, the *)
(* second of them longer than its data.                                     *)
EXTENDS MemorySet

Small == <<[start |-> 1, end |-> 2, data |-> <<11>>]>>
Large == <<[start |-> 1, end |-> 3, data |-> <<21>>],
           [start |-> 3, end |-> 4, data |-> <<23>>]>>
MCPrograms == {Small, Large}
MCWrites == {1, 3}
=============================================================================
