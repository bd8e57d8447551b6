------------------------------ MODULE PageTable ------------------------------
(***************************************************************************)
(* Physical frames and page tables (os/src/mm: frame_allocator.rs,         *)
(* page_table.rs, address.rs), as operators.                               *)
(*                                                                         *)
(* A machine m is the frame allocator and the memory: m.mem[ppn] are the   *)
(* words of a page, and a page table is in such pages like anything else.  *)
(* A word of a table is a page table entry, ppn * 4 + flags.  A page has   *)
(* FANOUT words, and tables have LEVELS levels (512 and 3 in the code).    *)
(* Addresses of pages are page numbers.                                    *)
(***************************************************************************)
EXTENDS Integers, SequencesExt

CONSTANTS FANOUT, LEVELS,
          ekernel,          \* the kernel has the pages below
          MEMORY_END,
          None

ASSUME PageTableAssumption ==
    /\ {FANOUT, LEVELS, ekernel, MEMORY_END} \subseteq Nat \ {0}
    /\ ekernel < MEMORY_END /\ MEMORY_END < FANOUT ^ LEVELS

Pages == 0..(FANOUT ^ LEVELS - 1)
Words == 0..(FANOUT - 1)

\* PTEFlags, without those that are never looked at: R, W, X, G, A and D.
V == 1
U == 2

PTE(ppn, flags) == ppn * 4 + flags
ppn_of(pte) == pte \div 4
is_valid(pte) == pte % 2 = 1
is_user(pte) == (pte \div 2) % 2 = 1

\* The index of each level, the root's first.
indexes(vpn) ==
    [i \in 1..LEVELS |-> (vpn \div FANOUT ^ (LEVELS - i)) % FANOUT]

-----------------------------------------------------------------------------
(* StackFrameAllocator                                                     *)

init_frame_allocator ==
    [current |-> ekernel, recycled |-> <<>>, frame |-> 0,
     mem |-> [p \in 0..(MEMORY_END - 1) |-> [w \in Words |-> 0]],
     enough |-> TRUE,       \* no unwrap of an alloc without frames
     sound |-> TRUE]        \* no assertion has failed

Frames == ekernel..(MEMORY_END - 1)

\* A mutant that does not clear the page.
frame_alloc_dirty(m) ==
    IF m.recycled # <<>>
    THEN [m EXCEPT !.frame = Last(m.recycled), !.recycled = Front(@)]
    ELSE IF m.current = MEMORY_END THEN [m EXCEPT !.enough = FALSE]
    ELSE [m EXCEPT !.frame = m.current, !.current = @ + 1]

\* The frame is m.frame; FrameTracker::new clears it.
frame_alloc(m) ==
    IF m.recycled # <<>>
    THEN [m EXCEPT !.frame = Last(m.recycled),
                   !.recycled = Front(@),
                   !.mem[Last(m.recycled)] = [w \in Words |-> 0]]
    ELSE IF m.current = MEMORY_END THEN [m EXCEPT !.enough = FALSE]
    ELSE [m EXCEPT !.frame = m.current,
                   !.current = @ + 1,
                   !.mem[m.current] = [w \in Words |-> 0]]

\* The FrameTrackers of `frames` are dropped, in this order.
frame_dealloc(m, frames) ==
    [m EXCEPT !.recycled = @ \o frames,
              !.sound = /\ @
                        /\ IsInjective(m.recycled \o frames)
                        /\ \A i \in DOMAIN frames : frames[i] < m.current]

-----------------------------------------------------------------------------
(* PageTable: `s` is an address space with the root_ppn and the frames     *)

\* One level down: w has the machine, the frames of the page table, and the
\* table at this level.  `fresh` is the machine with a frame for a new one.
AddTable(w, idx, fresh) ==
    [m |-> [fresh EXCEPT !.mem[w.table][idx] = PTE(fresh.frame, V)],
     frames |-> Append(w.frames, fresh.frame),
     table |-> fresh.frame]
Descend(w, idx) ==
    IF is_valid(w.m.mem[w.table][idx])
    THEN [w EXCEPT !.table = ppn_of(w.m.mem[w.table][idx])]
    ELSE AddTable(w, idx, frame_alloc(w.m))

\* The table that has the entry of vpn; tables that are missing are made.
find_pte_create(m, s, vpn) ==
    FoldLeft(Descend, [m |-> m, frames |-> s.frames, table |-> s.root_ppn],
             Front(indexes(vpn)))

\* map asserts that the entry is not valid yet.  x is [m, s].
SetEntry(x, w, idx, pte) ==
    [m |-> [w.m EXCEPT !.mem[w.table][idx] = pte,
                       !.sound = @ /\ ~is_valid(w.m.mem[w.table][idx])],
     s |-> [x.s EXCEPT !.frames = w.frames]]
map(x, vpn, ppn, flags) ==
    SetEntry(x, find_pte_create(x.m, x.s, vpn), Last(indexes(vpn)),
             PTE(ppn, flags + V))

\* The table that has the entry of vpn, None if there is none.
find_pte(mem, root_ppn, vpn) ==
    FoldLeft(LAMBDA table, idx :
                 IF table = None \/ ~is_valid(mem[table][idx]) THEN None
                 ELSE ppn_of(mem[table][idx]),
             root_ppn, Front(indexes(vpn)))

\* The entry itself, valid or not.
Entry(mem, table, vpn) ==
    IF table = None THEN None ELSE mem[table][Last(indexes(vpn))]
translate(mem, root_ppn, vpn) ==
    Entry(mem, find_pte(mem, root_ppn, vpn), vpn)

\* What the processor does with an address: None is a page fault.
Valid(pte) == IF pte = None THEN None ELSE IF is_valid(pte) THEN pte ELSE None
Mapped(mem, root_ppn, vpn) == Valid(translate(mem, root_ppn, vpn))

\* unmap asserts that the entry is valid.
ClearEntry(x, table, idx) ==
    [x EXCEPT !.m.mem[table][idx] = 0,
              !.m.sound = @ /\ is_valid(x.m.mem[table][idx])]
unmap(x, vpn) ==
    ClearEntry(x, find_pte(x.m.mem, x.s.root_ppn, vpn), Last(indexes(vpn)))

-----------------------------------------------------------------------------
(* translated_byte_buffer and UserBuffer.  Bytes are words here; a slice   *)
(* is [ppn, from, to], without its last.                                   *)

\* A mutant that forgets that the slice may end with the page.
slice_open(ppn, start, end_va) ==
    [ppn |-> ppn, from |-> start % FANOUT, to |-> end_va % FANOUT]

slice(ppn, start, end_va) ==
    [ppn |-> ppn, from |-> start % FANOUT,
     to |-> IF end_va % FANOUT = 0 THEN FANOUT ELSE end_va % FANOUT]

translated_byte_buffer(mem, root_ppn, ptr, len) ==
    LET end == ptr + len
        first == ptr \div FANOUT
    IN  IF len = 0 THEN <<>> ELSE
        [i \in 1..((end + FANOUT - 1) \div FANOUT - first) |->
            LET vpn == first + i - 1
                next == (vpn + 1) * FANOUT
                start == IF i = 1 THEN ptr ELSE vpn * FANOUT
            IN  slice(ppn_of(translate(mem, root_ppn, vpn)), start,
                      IF next < end THEN next ELSE end)]

\* The places that UserBufferIterator goes over: from (0, 0), to the next
\* buffer when the index is at its last.
iterate(buffers) ==
    FlattenSeq([i \in DOMAIN buffers |->
        [j \in 1..(buffers[i].to - buffers[i].from) |->
            <<buffers[i].ppn, buffers[i].from + j - 1>>]])
=============================================================================
