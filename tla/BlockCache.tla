----------------------------- MODULE BlockCache -----------------------------
(***************************************************************************)
(* The block cache (easy-fs/src/block_cache.rs) between the file system    *)
(* and a block device.                                                     *)
(*                                                                         *)
(* The file system runs one operation at a time, under the lock of         *)
(* EasyFileSystem.  An operation takes caches one inside the other: an     *)
(* inode, in its closure an indirect block, and in that closure another    *)
(* block; `held` are the Arcs it has, outermost first, each with its       *)
(* Mutex locked.  It ends with block_cache_sync_all, when it holds none.   *)
(***************************************************************************)
EXTENDS Integers, SequencesExt

CONSTANTS Blocks,
          Contents,           \* what a block may hold
          BLOCK_CACHE_SIZE,
          MaxHeld,            \* bound: caches that an operation nests
          None

ASSUME CacheAssumption ==
    /\ BLOCK_CACHE_SIZE \in Nat \ {0}
    /\ MaxHeld \in 1..BLOCK_CACHE_SIZE
    /\ None \notin Nat

VARIABLES disk,       \* the blocks of the device
          queue,      \* BLOCK_CACHE_MANAGER.queue
          held,
          syncing,    \* block_cache_sync_all: entries visited so far, or None
          synced      \* history: nothing modified since it last returned

vars == <<disk, queue, held, syncing, synced>>

Cache == [block_id : Blocks, cache : Contents, modified : BOOLEAN]
Cached == {queue[i].block_id : i \in DOMAIN queue}
IndexOf(b) == CHOOSE i \in DOMAIN queue : queue[i].block_id = b

\* What a read of block b returns, which loads it if it is not cached.
View == [b \in Blocks |->
            IF b \in Cached THEN queue[IndexOf(b)].cache ELSE disk[b]]

\* Every variable has its type.
TypeOK ==
    /\ disk \in [Blocks -> Contents]
    /\ queue \in Seq(Cache)
    /\ held \in Seq(Blocks)
    /\ syncing \in 0..BLOCK_CACHE_SIZE \cup {None}
    /\ synced \in BOOLEAN

Init ==
    /\ disk \in [Blocks -> Contents]
    /\ queue = <<>>
    /\ held = <<>>
    /\ syncing = None
    /\ synced = TRUE

Running == syncing = None

-----------------------------------------------------------------------------
(* BlockCache: load, write back, and the two ways to use a block           *)

new(b) == [block_id |-> b, cache |-> disk[b], modified |-> FALSE]

\* The device after sync of a cache, or its drop.
sync(c) ==
    IF c.modified THEN [disk EXCEPT ![c.block_id] = c.cache] ELSE disk

\* A mutant that does not mark the block.
modify_unmarked(b, c) ==
    /\ Running
    /\ b \in ToSet(held)
    /\ queue' = [queue EXCEPT ![IndexOf(b)].cache = c]
    /\ synced' = FALSE
    /\ UNCHANGED <<disk, held, syncing>>

\* modify marks the block, whether or not the closure changes it.
modify(b, c) ==
    /\ Running
    /\ b \in ToSet(held)
    /\ queue' = [queue EXCEPT ![IndexOf(b)].cache = c,
                              ![IndexOf(b)].modified = TRUE]
    /\ synced' = FALSE
    /\ UNCHANGED <<disk, held, syncing>>

-----------------------------------------------------------------------------
(* BlockCacheManager::get_block_cache                                      *)

\* A mutant that does not look at strong_count.
Unused_any == DOMAIN queue

\* Entries that only the queue refers to: strong_count is 1.
Unused == {i \in DOMAIN queue : queue[i].block_id \notin ToSet(held)}

Take(b) ==
    /\ Running
    /\ Len(held) < MaxHeld
    /\ b \notin ToSet(held)       \* it would wait for itself

get_hit(b) ==
    /\ Take(b)
    /\ b \in Cached
    /\ held' = Append(held, b)
    /\ UNCHANGED <<disk, queue, syncing, synced>>

\* A mutant that evicts one entry too late.
get_load_late(b) ==
    /\ Take(b)
    /\ b \notin Cached
    /\ Len(queue) <= BLOCK_CACHE_SIZE
    /\ queue' = Append(queue, new(b))
    /\ held' = Append(held, b)
    /\ UNCHANGED <<disk, syncing, synced>>

get_load(b) ==
    /\ Take(b)
    /\ b \notin Cached
    /\ Len(queue) < BLOCK_CACHE_SIZE
    /\ queue' = Append(queue, new(b))
    /\ held' = Append(held, b)
    /\ UNCHANGED <<disk, syncing, synced>>

\* The first entry that nobody uses is dropped, which writes it back.
get_evict(b) ==
    /\ Take(b)
    /\ b \notin Cached
    /\ Len(queue) = BLOCK_CACHE_SIZE
    /\ Unused # {}
    /\ LET victim == CHOOSE i \in Unused : \A j \in Unused : i <= j
       IN  /\ disk' = sync(queue[victim])
           /\ queue' = Append(RemoveAt(queue, victim), new(b))
    /\ held' = Append(held, b)
    /\ UNCHANGED <<syncing, synced>>

\* The innermost closure returns, and its Arc is dropped.
release ==
    /\ Running
    /\ held # <<>>
    /\ held' = Front(held)
    /\ UNCHANGED <<disk, queue, syncing, synced>>

-----------------------------------------------------------------------------
(* block_cache_sync_all writes the entries in the order of the queue       *)

sync_all ==
    /\ Running
    /\ held = <<>>
    /\ syncing' = 0
    /\ UNCHANGED <<disk, queue, held, synced>>

sync_next ==
    /\ syncing # None
    /\ syncing < Len(queue)
    /\ syncing' = syncing + 1
    /\ disk' = sync(queue[syncing + 1])
    /\ queue' = [queue EXCEPT ![syncing + 1].modified = FALSE]
    /\ UNCHANGED <<held, synced>>

sync_return ==
    /\ syncing # None
    /\ syncing = Len(queue)
    /\ syncing' = None
    /\ synced' = TRUE
    /\ UNCHANGED <<disk, queue, held>>

\* The machine stops at any point and starts again with an empty cache.
crash ==
    /\ queue' = <<>>
    /\ held' = <<>>
    /\ syncing' = None
    /\ synced' = TRUE
    /\ UNCHANGED disk

Next ==
    \/ \E b \in Blocks :
          \/ \E c \in Contents : modify(b, c)
          \/ get_hit(b)
          \/ get_load(b)
          \/ get_evict(b)
    \/ release
    \/ sync_all
    \/ sync_next
    \/ sync_return
    \/ crash

Spec == Init /\ [][Next]_vars

-----------------------------------------------------------------------------
(* Properties                                                              *)

\* get_block_cache never gives two copies of a block, and what an operation
\* holds stays in the queue: no eviction takes a block that is in use.
OneCopy ==
    /\ \A i, j \in DOMAIN queue :
          queue[i].block_id = queue[j].block_id => i = j
    /\ ToSet(held) \subseteq Cached

\* "Run out of BlockCache!" is never reached: an operation that nests at most
\* MaxHeld <= BLOCK_CACHE_SIZE caches always finds an entry to evict.
NeverRunsOut ==
    /\ Len(queue) <= BLOCK_CACHE_SIZE
    /\ Len(queue) = BLOCK_CACHE_SIZE /\ Len(held) < MaxHeld => Unused # {}

\* When block_cache_sync_all has returned, the device has everything: a crash
\* between two operations of the file system loses nothing.
SyncedIsDurable == synced => disk = View

\* What get_block_cache, evictions and write-backs keep: one entry for a block,
\* none evicted while in use, and a device that is up to date after sync_all.
CacheInv ==
    /\ TypeOK
    /\ OneCopy
    /\ SyncedIsDurable

\* Through loads, evictions and write-backs a block reads as it was last
\* written, and a crash falls back to what was written back, block by block.
DiskSpec == INSTANCE Disk WITH content <- View, durable <- disk
ImplementsDisk == DiskSpec!Spec
=============================================================================
