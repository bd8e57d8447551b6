------------------------------ MODULE DiskInode ------------------------------
(***************************************************************************)
(* DiskInode of easy-fs/src/layout.rs: where the blocks of a file are, how *)
(* a file grows, is cleared, read and written.  Operators on                *)
(*   an inode  [type_, size, direct, indirect1, indirect2] and              *)
(*   `blocks`, the contents of the data blocks by block id.                 *)
(*                                                                         *)
(* Sizes and offsets are counted in units of four bytes, the size of an    *)
(* entry of an indirect block, so that a block has as many units as        *)
(* entries.  Block 0 is the superblock, and 0 in an inode is no block.     *)
(***************************************************************************)
EXTENDS Integers, SequencesExt

CONSTANTS BLOCK_SZ, INODE_DIRECT_COUNT

ASSUME LayoutAssumption ==
    /\ BLOCK_SZ \in Nat \ {0}
    /\ INODE_DIRECT_COUNT \in Nat \ {0}

INODE_INDIRECT1_COUNT == BLOCK_SZ
INODE_INDIRECT2_COUNT == INODE_INDIRECT1_COUNT * INODE_INDIRECT1_COUNT
DIRECT_BOUND == INODE_DIRECT_COUNT
INDIRECT1_BOUND == DIRECT_BOUND + INODE_INDIRECT1_COUNT
INDIRECT2_BOUND == INDIRECT1_BOUND + INODE_INDIRECT2_COUNT

Lesser(a, b) == IF a < b THEN a ELSE b
Greater(a, b) == IF a < b THEN b ELSE a

\* The indexes of a `while` or `for` from a up to b, in order.
Loop(a, b) == [i \in 1..Greater(b - a, 0) |-> a + i - 1]

ZeroBlock == [u \in 0..(BLOCK_SZ - 1) |-> 0]

initialize(type) ==
    [type_ |-> type, size |-> 0,
     direct |-> [i \in 0..(INODE_DIRECT_COUNT - 1) |-> 0],
     indirect1 |-> 0, indirect2 |-> 0]

data_blocks(size) == (size + BLOCK_SZ - 1) \div BLOCK_SZ

\* A mutant that rounds up once too often.
total_blocks_over(size) ==
    LET data == data_blocks(size)
    IN  data
        + (IF data > INODE_DIRECT_COUNT THEN 1 ELSE 0)
        + (IF data > INDIRECT1_BOUND
           THEN 1 + (data - INDIRECT1_BOUND + INODE_INDIRECT1_COUNT)
                       \div INODE_INDIRECT1_COUNT
           ELSE 0)

\* Data and index blocks of a file of that size.
total_blocks(size) ==
    LET data == data_blocks(size)
    IN  data
        + (IF data > INODE_DIRECT_COUNT THEN 1 ELSE 0)
        + (IF data > INDIRECT1_BOUND
           THEN 1 + (data - INDIRECT1_BOUND + INODE_INDIRECT1_COUNT - 1)
                       \div INODE_INDIRECT1_COUNT
           ELSE 0)

blocks_num_needed(inode, new_size) ==
    total_blocks(new_size) - total_blocks(inode.size)

\* A mutant that finds one block behind indirect1.
get_block_id_first(inode, blocks, inner_id) ==
    IF inner_id < INODE_DIRECT_COUNT
    THEN inode.direct[inner_id]
    ELSE blocks[inode.indirect1][0]

\* The block that holds the data block `inner_id` of a file.
get_block_id(inode, blocks, inner_id) ==
    LET last == inner_id - INDIRECT1_BOUND
    IN  IF inner_id < INODE_DIRECT_COUNT
        THEN inode.direct[inner_id]
        ELSE IF inner_id < INDIRECT1_BOUND
        THEN blocks[inode.indirect1][inner_id - INODE_DIRECT_COUNT]
        ELSE blocks[blocks[inode.indirect2][last \div INODE_INDIRECT1_COUNT]]
                [last % INODE_INDIRECT1_COUNT]

-----------------------------------------------------------------------------
(* increase_size: `new_blocks` is consumed from its head by the places     *)
(* that are filled, in the order of the code.  A place is                  *)
(*   <<"direct", i>>, <<"indirect1">>, <<"indirect2">>,                     *)
(*   <<"entry1", i>>      an entry of the block indirect1                  *)
(*   <<"entry2", a>>      an entry of the block indirect2                  *)
(*   <<"entry3", a, b>>   an entry of the block that entry2 a points to    *)

DirectPlaces(current, total) ==
    [i \in DOMAIN Loop(current, Lesser(total, INODE_DIRECT_COUNT)) |->
        <<"direct", current + i - 1>>]

\* `current` and `total` are counted from the first block of indirect1.
Indirect1Places(current, total) ==
    (IF current = 0 THEN << <<"indirect1">> >> ELSE <<>>)
    \o [i \in DOMAIN Loop(current, Lesser(total, INODE_INDIRECT1_COUNT)) |->
          <<"entry1", current + i - 1>>]

\* The entries from `current` up to `total`, as (a, b) from (a0, b0) to
\* (a1, b1), with a new block of entries whenever b is 0.
Indirect2Places(current, total) ==
    FlattenSeq([i \in DOMAIN Loop(current, total) |->
        LET a == (current + i - 1) \div INODE_INDIRECT1_COUNT
            b == (current + i - 1) % INODE_INDIRECT1_COUNT
        IN  (IF b = 0 THEN << <<"entry2", a>> >> ELSE <<>>)
            \o << <<"entry3", a, b>> >>])

\* When the file ends in indirect1 the code still goes on to the entries of
\* indirect2, then block 0, with the two counters not reduced.
PlacesFilled(current, total) ==
    LET current1 == Greater(current, INODE_DIRECT_COUNT) - INODE_DIRECT_COUNT
        total1 == total - INODE_DIRECT_COUNT
        current2 == Greater(current1, Lesser(total1, INODE_INDIRECT1_COUNT))
        goes_on == total1 > INODE_INDIRECT1_COUNT
        base == IF goes_on THEN INODE_INDIRECT1_COUNT ELSE 0
    IN  DirectPlaces(current, total)
        \o (IF total <= INODE_DIRECT_COUNT THEN <<>>
            ELSE Indirect1Places(current1, total1)
                 \o (IF goes_on /\ current2 = INODE_INDIRECT1_COUNT
                     THEN << <<"indirect2">> >> ELSE <<>>)
                 \o Indirect2Places(current2 - base, total1 - base))

\* The inode and the blocks when the places are filled: Filled is what a place
\* holds then, `old` if it is not one of those filled.
increase_size(inode, blocks, new_size, new_blocks) ==
    LET places == PlacesFilled(data_blocks(inode.size), data_blocks(new_size))
        Filled(place, old) ==
            IF place \in ToSet(places)
            THEN new_blocks[CHOOSE i \in DOMAIN places : places[i] = place]
            ELSE old
        indirect1 == Filled(<<"indirect1">>, inode.indirect1)
        indirect2 == Filled(<<"indirect2">>, inode.indirect2)
        row(a) == Filled(<<"entry2", a>>, blocks[indirect2][a])
        \* The places filled that are entry u of block b.
        fills(b, u) ==
            {i \in DOMAIN places :
                \/ places[i] = <<"entry1", u>> /\ b = indirect1
                \/ places[i] = <<"entry2", u>> /\ b = indirect2
                \/ \E a \in 0..(BLOCK_SZ - 1) :
                      places[i] = <<"entry3", a, u>> /\ b = row(a)}
        entry(b, u) == IF fills(b, u) = {} THEN blocks[b][u]
                       ELSE new_blocks[CHOOSE i \in fills(b, u) : TRUE]
    IN  [inode |-> [inode EXCEPT
                       !.size = new_size,
                       !.direct = [i \in DOMAIN @ |->
                                      Filled(<<"direct", i>>, @[i])],
                       !.indirect1 = indirect1,
                       !.indirect2 = indirect2],
         blocks |-> IF places = <<>> THEN blocks
                    ELSE [b \in DOMAIN blocks |->
                            [u \in DOMAIN blocks[b] |-> entry(b, u)]]]

-----------------------------------------------------------------------------
(* clear_size: the blocks that a file gives back, in the order of the code *)

cleared_blocks(inode, blocks) ==
    LET total == data_blocks(inode.size)
        total1 == total - INODE_DIRECT_COUNT
        total2 == total1 - INODE_INDIRECT1_COUNT
        direct == [i \in 1..Lesser(INODE_DIRECT_COUNT, total) |->
                      inode.direct[i - 1]]
        level1 == <<inode.indirect1>>
                  \o [i \in 1..Lesser(total1, INODE_INDIRECT1_COUNT) |->
                        blocks[inode.indirect1][i - 1]]
        entries == blocks[inode.indirect2]
        level2 == <<inode.indirect2>>
                  \o FlattenSeq([i \in 1..total2 |->
                        LET a == (i - 1) \div INODE_INDIRECT1_COUNT
                            b == (i - 1) % INODE_INDIRECT1_COUNT
                        IN  (IF b = 0 THEN <<entries[a]>> ELSE <<>>)
                            \o <<blocks[entries[a]][b]>>])
    IN  IF total <= INODE_DIRECT_COUNT THEN direct
        ELSE IF total1 <= INODE_INDIRECT1_COUNT THEN direct \o level1
        ELSE direct \o level1 \o level2

-----------------------------------------------------------------------------
(* read_at and write_at go block by block over the part of the file that   *)
(* exists: a chunk is what the loop moves from or to one block.            *)

\* A mutant that reads on to the end of the block.
Chunks_unclipped(offset, end) ==
    [i \in DOMAIN Loop(offset \div BLOCK_SZ, (end - 1) \div BLOCK_SZ + 1) |->
        LET start_block == offset \div BLOCK_SZ + i - 1
        IN  [inner_id |-> start_block,
             start |-> Greater(offset, start_block * BLOCK_SZ),
             end |-> (start_block + 1) * BLOCK_SZ]]

Chunks(offset, end) ==
    [i \in DOMAIN Loop(offset \div BLOCK_SZ, (end - 1) \div BLOCK_SZ + 1) |->
        LET start_block == offset \div BLOCK_SZ + i - 1
        IN  [inner_id |-> start_block,
             start |-> Greater(offset, start_block * BLOCK_SZ),
             end |-> Lesser((start_block + 1) * BLOCK_SZ, end)]]

\* What read_at puts into a buffer of `len`.
read_at(inode, blocks, offset, len) ==
    LET end == Lesser(offset + len, inode.size)
        piece(c) ==
            LET data == blocks[get_block_id(inode, blocks, c.inner_id)]
            IN  [i \in 1..(c.end - c.start) |->
                    data[(c.start % BLOCK_SZ) + i - 1]]
    IN  IF offset >= end THEN <<>>
        ELSE FlattenSeq([i \in DOMAIN Chunks(offset, end) |->
                            piece(Chunks(offset, end)[i])])

\* The blocks after write_at of `buf`.
write_at(inode, blocks, offset, buf) ==
    LET end == Lesser(offset + Len(buf), inode.size)
        chunks == Chunks(offset, end)
        target == [i \in DOMAIN chunks |->
                      get_block_id(inode, blocks, chunks[i].inner_id)]
        put(data, c) ==
            LET first == c.start % BLOCK_SZ
            IN  [u \in DOMAIN data |->
                    IF u \in first..(first + c.end - c.start - 1)
                    THEN buf[c.start - offset + u - first + 1]
                    ELSE data[u]]
    IN  IF offset >= end THEN blocks
        ELSE [b \in DOMAIN blocks |->
                IF b \in ToSet(target)
                THEN put(blocks[b],
                         chunks[CHOOSE i \in DOMAIN chunks : target[i] = b])
                ELSE blocks[b]]
=============================================================================
