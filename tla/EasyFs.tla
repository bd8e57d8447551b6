------------------------------- MODULE EasyFs -------------------------------
(***************************************************************************)
(* easy-fs above the block cache: the layout of a disk and its bitmaps     *)
(* (efs.rs, bitmap.rs) and the directory and files in it (vfs.rs), on the  *)
(* inodes of module DiskInode.                                             *)
(*                                                                         *)
(* Every operation holds the lock of EasyFileSystem from its start until   *)
(* block_cache_sync_all has returned, so an operation is one step; what a  *)
(* crash inside one leaves is a question to module BlockCache.  A panic    *)
(* stops the machine.                                                      *)
(***************************************************************************)
EXTENDS DiskInode, FiniteSetsExt

CONSTANTS Names,               \* file names: positive, a unit each
          BLOCK_BITS,          \* bits of a bitmap block
          INODES_PER_BLOCK,    \* BLOCK_SZ / size_of::<DiskInode>
          TotalBlocks,         \* sizes of the disks to try
          inode_bitmap_blocks,
          Writes,              \* <<offset, length>> that programs write
          None

ASSUME EasyFsAssumption ==
    /\ Names \subseteq Nat \ {0}
    /\ {BLOCK_BITS, INODES_PER_BLOCK, inode_bitmap_blocks} \subseteq Nat \ {0}
    /\ Writes \subseteq Nat \X (Nat \ {0})
    /\ None \notin Nat
    /\ \A total \in TotalBlocks :
          /\ total \in Nat
          /\ total > inode_bitmap_blocks
                       + (inode_bitmap_blocks * BLOCK_BITS + INODES_PER_BLOCK - 1)
                            \div INODES_PER_BLOCK

EFS_MAGIC == 9999
DIRENT_SZ == 2       \* a DirEntry: the name and the inode number

VARIABLES super,     \* the SuperBlock
          efs,       \* EasyFileSystem, as it was created or opened
          fs,        \* the rest of the disk, seen through the block cache
          panicked,
          files      \* history: the contents that each file should have

vars == <<super, efs, fs, panicked, files>>

\* Units that a program writes; they tell file, write and place apart.
Buffer(n, w) == [i \in 1..w[2] |-> 1000 * n + 100 * w[2] + w[1] + i]

\* A file after `buf` is written at `offset`: what it skips over is zero.
Written(file, offset, buf) ==
    [i \in 1..Greater(offset + Len(buf), Len(file)) |->
        CASE i \in (offset + 1)..(offset + Len(buf)) -> buf[i - offset]
          [] i <= Lesser(offset, Len(file))
                \/ i > offset + Len(buf) -> file[i]
          [] OTHER -> 0]

-----------------------------------------------------------------------------
(* The layout                                                              *)

maximum(bitmap_blocks) == bitmap_blocks * BLOCK_BITS

\* Bitmap blocks for `n` blocks, which they and the data area share.
bitmap_blocks_for(n) == (n + BLOCK_BITS) \div (BLOCK_BITS + 1)

\* SuperBlock::initialize with what create computes.
SuperBlock(total) ==
    LET inode_area_blocks ==
            (maximum(inode_bitmap_blocks) + INODES_PER_BLOCK - 1)
                \div INODES_PER_BLOCK
        data_total_blocks ==
            total - 1 - (inode_bitmap_blocks + inode_area_blocks)
        data_bitmap_blocks == bitmap_blocks_for(data_total_blocks)
    IN  [total_blocks |-> total,
         inode_bitmap_blocks |-> inode_bitmap_blocks,
         inode_area_blocks |-> inode_area_blocks,
         data_bitmap_blocks |-> data_bitmap_blocks,
         data_area_blocks |-> data_total_blocks - data_bitmap_blocks]

\* EasyFileSystem as create and open make it.
Mount(s) ==
    LET inode_total_blocks == s.inode_bitmap_blocks + s.inode_area_blocks
    IN  [inode_bitmap |-> [start_block_id |-> 1,
                           blocks |-> s.inode_bitmap_blocks],
         data_bitmap |-> [start_block_id |-> 1 + inode_total_blocks,
                          blocks |-> s.data_bitmap_blocks],
         inode_area_start_block |-> 1 + s.inode_bitmap_blocks,
         data_area_start_block |->
            1 + inode_total_blocks + s.data_bitmap_blocks]

get_disk_inode_pos(e, inode_id) ==
    <<e.inode_area_start_block + inode_id \div INODES_PER_BLOCK,
      inode_id % INODES_PER_BLOCK>>

\* Bitmap::alloc: the first bit that is clear, None if there is none.
alloc(bits, bitmap) ==
    LET free == (0..(maximum(bitmap.blocks) - 1)) \ bits
    IN  IF free = {} THEN None ELSE Min(free)

SuperBlockUnits == [u \in 0..(BLOCK_SZ - 1) |-> EFS_MAGIC]

\* EasyFileSystem::create clears the disk, and makes inode 0 the root.
create_efs ==
    /\ \E total \in TotalBlocks : super = SuperBlock(total)
    /\ efs = Mount(super)
    /\ fs = [inode_bitmap |-> {0},
             data_bitmap |-> {},
             inodes |-> [i \in 0..(maximum(efs.inode_bitmap.blocks) - 1) |->
                            initialize(IF i = 0 THEN "Directory" ELSE "File")],
             blocks |-> [b \in {0} \cup efs.data_area_start_block
                                         ..(super.total_blocks - 1) |->
                            IF b = 0 THEN SuperBlockUnits ELSE ZeroBlock]]
    /\ panicked = FALSE
    /\ files = [n \in Names |-> None]

Init == create_efs

\* The machine starts again: EasyFileSystem::open checks the superblock and
\* takes the layout from it.
open ==
    /\ ~panicked
    /\ fs.blocks[0] = SuperBlockUnits
    /\ efs' = Mount(super)
    /\ UNCHANGED <<super, fs, panicked, files>>

-----------------------------------------------------------------------------
(* The inode                                                               *)

\* alloc_data, n times: the lowest clear bits become block ids.
alloc_data(f, n) ==
    LET free == (0..(maximum(efs.data_bitmap.blocks) - 1)) \ f.data_bitmap
        lowest(i) == CHOOSE b \in free :
                        Cardinality({c \in free : c < b}) = i - 1
    IN  [i \in 1..Lesser(n, Cardinality(free)) |->
            lowest(i) + efs.data_area_start_block]

\* increase_size can be done: every alloc_data finds a bit, none of the bits is
\* for a block behind the end of the device, and the places are not used up.
CanGrow(f, i, new_size) ==
    LET n == blocks_num_needed(f.inodes[i], new_size)
    IN  new_size >= f.inodes[i].size =>
            /\ Len(alloc_data(f, n)) = n
            /\ \A b \in ToSet(alloc_data(f, n)) : b \in DOMAIN f.blocks
            /\ data_blocks(new_size) <= INDIRECT2_BOUND

\* Inode::increase_size of inode i.
Grow(f, i, new_size) ==
    LET inode == f.inodes[i]
        v == alloc_data(f, blocks_num_needed(inode, new_size))
        g == increase_size(inode, f.blocks, new_size, v)
    IN  IF new_size < inode.size THEN f
        ELSE [f EXCEPT !.data_bitmap =
                            @ \cup {b - efs.data_area_start_block :
                                        b \in ToSet(v)},
                       !.inodes[i] = g.inode,
                       !.blocks = g.blocks]

\* increase_size and DiskInode::write_at of the same inode.
Put(f, i, offset, buf) ==
    LET g == Grow(f, i, offset + Len(buf))
    IN  [g EXCEPT !.blocks = write_at(g.inodes[i], @, offset, buf)]

dirents(f) == f.inodes[0].size \div DIRENT_SZ
dirent(f, i) == read_at(f.inodes[0], f.blocks, DIRENT_SZ * i, DIRENT_SZ)

\* The inode of the first entry with that name, None if there is none.
find_inode_id(f, name) ==
    LET hits == {i \in 0..(dirents(f) - 1) : dirent(f, i)[1] = name}
    IN  IF hits = {} THEN None ELSE dirent(f, Min(hits))[2]

-----------------------------------------------------------------------------
(* The operations of Inode                                                 *)

\* A file is in the directory from here on; a name that is there is left
\* alone.
create(name) ==
    LET i == alloc(fs.inode_bitmap, efs.inode_bitmap)
        f == [fs EXCEPT !.inode_bitmap = @ \cup {i},
                        !.inodes[i] = initialize("File")]
        offset == dirents(fs) * DIRENT_SZ
    IN  /\ ~panicked
        /\ find_inode_id(fs, name) = None
        /\ i # None
        /\ CanGrow(f, 0, offset + DIRENT_SZ)
        /\ fs' = Put(f, 0, offset, <<name, i>>)
        /\ files' = [files EXCEPT ![name] = <<>>]
        /\ UNCHANGED <<super, efs, panicked>>

write(name, w) ==
    LET i == find_inode_id(fs, name)
    IN  /\ ~panicked
        /\ i # None
        /\ CanGrow(fs, i, w[1] + w[2])
        /\ fs' = Put(fs, i, w[1], Buffer(name, w))
        /\ files' = [files EXCEPT
                        ![name] = Written(@, w[1], Buffer(name, w))]
        /\ UNCHANGED <<super, efs, panicked>>

\* A mutant whose dealloc_data leaves what is in the blocks.
clear_dirty(name) ==
    LET i == find_inode_id(fs, name)
        v == ToSet(cleared_blocks(fs.inodes[i], fs.blocks))
    IN  /\ ~panicked
        /\ i # None
        /\ fs' = [fs EXCEPT
                    !.inodes[i] = initialize(@.type_),
                    !.data_bitmap =
                        @ \ {b - efs.data_area_start_block : b \in v}]
        /\ files' = [files EXCEPT ![name] = <<>>]
        /\ UNCHANGED <<super, efs, panicked>>

\* clear gives all blocks back, and dealloc_data fills them with zero.
clear(name) ==
    LET i == find_inode_id(fs, name)
        v == ToSet(cleared_blocks(fs.inodes[i], fs.blocks))
    IN  /\ ~panicked
        /\ i # None
        /\ fs' = [fs EXCEPT
                    !.inodes[i] = initialize(@.type_),
                    !.data_bitmap =
                        @ \ {b - efs.data_area_start_block : b \in v},
                    !.blocks = [b \in DOMAIN @ |->
                                    IF b \in v THEN ZeroBlock ELSE @[b]]]
        /\ files' = [files EXCEPT ![name] = <<>>]
        /\ UNCHANGED <<super, efs, panicked>>

\* alloc().unwrap() of a full bitmap, or a block behind the device.
panic_create(name) ==
    LET i == alloc(fs.inode_bitmap, efs.inode_bitmap)
    IN  /\ ~panicked
        /\ find_inode_id(fs, name) = None
        /\ \/ i = None
           \/ ~CanGrow(fs, 0, (dirents(fs) + 1) * DIRENT_SZ)
        /\ panicked' = TRUE
        /\ UNCHANGED <<super, efs, fs, files>>

panic_write(name, w) ==
    LET i == find_inode_id(fs, name)
    IN  /\ ~panicked
        /\ i # None
        /\ ~CanGrow(fs, i, w[1] + w[2])
        /\ panicked' = TRUE
        /\ UNCHANGED <<super, efs, fs, files>>

Next ==
    \/ open
    \/ \E name \in Names :
          \/ create(name)
          \/ panic_create(name)
          \/ clear(name)
          \/ \E w \in Writes :
                \/ write(name, w)
                \/ panic_write(name, w)

Spec == Init /\ [][Next]_vars

-----------------------------------------------------------------------------
(* Properties                                                              *)

Allocated == fs.inode_bitmap
Owned(i) == cleared_blocks(fs.inodes[i], fs.blocks)

\* Every variable has its type.
TypeOK ==
    /\ efs.data_area_start_block \in Nat
    /\ fs.inode_bitmap \subseteq DOMAIN fs.inodes
    /\ fs.data_bitmap \subseteq 0..(maximum(efs.data_bitmap.blocks) - 1)
    /\ \A b \in DOMAIN fs.blocks :
          fs.blocks[b] \in [0..(BLOCK_SZ - 1) -> Nat]
    /\ panicked \in BOOLEAN

\* The areas of the disk follow each other and fill it, each inode has a
\* place of its own in the inode area, and each data block has a bit, after
\* every create and open.
LayoutSound ==
    LET inodes == DOMAIN fs.inodes
        data == efs.data_bitmap
    IN  /\ \A i, j \in inodes :
              get_disk_inode_pos(efs, i) = get_disk_inode_pos(efs, j) => i = j
        /\ \A i \in inodes :
              get_disk_inode_pos(efs, i)[1] < data.start_block_id
        /\ data.start_block_id + data.blocks = efs.data_area_start_block
        /\ super.data_area_blocks <= maximum(data.blocks)
        /\ efs.data_area_start_block + super.data_area_blocks
              = super.total_blocks

\* Every block that is marked in the data bitmap belongs to exactly one
\* inode, in exactly one place, and every block of an inode is marked and on
\* the device; the number is the one that clear asserts.
BlocksOwnedOnce ==
    /\ \A i \in Allocated :
          /\ IsInjective(Owned(i))
          /\ Len(Owned(i)) = total_blocks(fs.inodes[i].size)
    /\ \A i, j \in Allocated :
          i # j => ToSet(Owned(i)) \cap ToSet(Owned(j)) = {}
    /\ UNION {ToSet(Owned(i)) : i \in Allocated}
          = {b + efs.data_area_start_block : b \in fs.data_bitmap}
    /\ \A b \in fs.data_bitmap :
          b + efs.data_area_start_block \in DOMAIN fs.blocks

\* No operation writes into the superblock, which is where the code looks for
\* the double-indirect block of a file that has none.
SuperBlockIntact == fs.blocks[0] = SuperBlockUnits

\* A block that no file owns is zero, and so is the rest of a file's last
\* block: what a file skips over when it grows reads as zero.
FreeIsZero ==
    /\ \A b \in DOMAIN fs.blocks \ {0} :
          b - efs.data_area_start_block \notin fs.data_bitmap =>
              fs.blocks[b] = ZeroBlock
    /\ \A i \in Allocated :
          LET inode == fs.inodes[i]
              last == data_blocks(inode.size) - 1
          IN  \A u \in 0..(BLOCK_SZ - 1) :
                  last >= 0 /\ last * BLOCK_SZ + u >= inode.size =>
                      fs.blocks[get_block_id(inode, fs.blocks, last)][u] = 0

\* Each name is in the directory once, and each allocated inode but the root
\* has one entry: no file is lost, and no two names share one.
DirectoryExact ==
    /\ {dirent(fs, i)[2] : i \in 0..(dirents(fs) - 1)} = Allocated \ {0}
    /\ \A i, j \in 0..(dirents(fs) - 1) :
          i # j => /\ dirent(fs, i)[1] # dirent(fs, j)[1]
                   /\ dirent(fs, i)[2] # dirent(fs, j)[2]

\* What every create, open, find, write and clear keeps of the disk as a whole:
\* its layout, the superblock, zeros in what is free, and the directory.
FsInv ==
    /\ TypeOK
    /\ LayoutSound
    /\ SuperBlockIntact
    /\ FreeIsZero
    /\ DirectoryExact

\* A read of any part of a file is that part of the whole, whatever block
\* boundaries it crosses, and ends at the end of the file.
ReadsExact ==
    \A i \in Allocated :
        LET inode == fs.inodes[i]
            all == read_at(inode, fs.blocks, 0, inode.size)
        IN  /\ Len(all) = inode.size
            /\ \A offset \in 0..inode.size, len \in 0..inode.size + 1 :
                  read_at(inode, fs.blocks, offset, len)
                    = SubSeq(all, offset + 1,
                             Lesser(offset + len, inode.size))

\* Every file reads as what was written to it, with zeros where nothing was,
\* and a name that was never created is not found: no operation on one file
\* changes another, whatever blocks they took and gave back.
FilesExact ==
    \A name \in Names :
        LET i == find_inode_id(fs, name)
        IN  IF i = None THEN files[name] = None
            ELSE read_at(fs.inodes[i], fs.blocks, 0, fs.inodes[i].size)
                    = files[name]
=============================================================================
