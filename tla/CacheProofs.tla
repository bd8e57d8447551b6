---------------------------- MODULE CacheProofs ----------------------------
(***************************************************************************)
(* Proofs about the block cache: for every number of blocks and entries,   *)
(* it keeps one copy of a block, never runs out of entries, and is a disk  *)
(* of which a crash leaves what was written back.                          *)
(***************************************************************************)
EXTENDS BlockCache, QueueLemmas, FiniteSetTheorems

\* A block that is not marked is as it is on the device.
CleanIsDurable ==
    \A k \in DOMAIN queue :
        ~queue[k].modified => queue[k].cache = disk[queue[k].block_id]

\* With nothing modified since the last sync, every entry is.
SyncedIsClean ==
    synced => \A k \in DOMAIN queue : queue[k].cache = disk[queue[k].block_id]

\* block_cache_sync_all has visited the first entries; none of them is modified
\* while it runs, as no closure does.
SyncProgress ==
    syncing # None => /\ held = <<>>
                      /\ syncing <= Len(queue)
                      /\ \A k \in 1..syncing : ~queue[k].modified

\* The queue never has more entries than it may.
QueueFits == Len(queue) <= BLOCK_CACHE_SIZE

\* The inductive invariant.
CacheIInv ==
    /\ TypeOK
    /\ OneCopy
    /\ CleanIsDurable
    /\ SyncedIsClean
    /\ SyncProgress
    /\ QueueFits

-----------------------------------------------------------------------------
(* What a read of a block returns, for any queue q and any device d        *)

Distinct(q) == \A j, k \in DOMAIN q : q[j].block_id = q[k].block_id => j = k
BlocksOf(q) == {q[k].block_id : k \in DOMAIN q}
EntryOf(q, b) == CHOOSE k \in DOMAIN q : q[k].block_id = b
Reads(q, d) ==
    [b \in Blocks |-> IF b \in BlocksOf(q) THEN q[EntryOf(q, b)].cache ELSE d[b]]

LEMMA ViewReads ==
    View = Reads(queue, disk) /\ Cached = BlocksOf(queue)
  BY DEF View, Reads, Cached, BlocksOf, IndexOf, EntryOf

\* The entries of a queue.
LEMMA EntryFacts ==
    ASSUME NEW q \in Seq(Cache)
    PROVE  /\ Len(q) \in Nat
           /\ DOMAIN q = 1..Len(q)
           /\ \A k \in 1..Len(q) :
                 /\ q[k] \in Cache
                 /\ q[k].block_id \in Blocks
                 /\ q[k].cache \in Contents
                 /\ q[k].modified \in BOOLEAN
                 /\ q[k].block_id \in BlocksOf(q)
<1>1. /\ Len(q) \in Nat
      /\ DOMAIN q = 1..Len(q)
      /\ \A k \in 1..Len(q) : q[k] \in Cache
  BY LenProperties, ElementOfSeq
<1> QED  BY <1>1 DEF Cache, BlocksOf

\* A block reads as its entry, or as the device if it has none.
LEMMA ReadFacts ==
    ASSUME NEW q \in Seq(Cache), NEW d \in [Blocks -> Contents], Distinct(q)
    PROVE  /\ Reads(q, d) \in [Blocks -> Contents]
           /\ \A k \in 1..Len(q) : Reads(q, d)[q[k].block_id] = q[k].cache
           /\ \A b \in Blocks \ BlocksOf(q) : Reads(q, d)[b] = d[b]
<1>1. ASSUME NEW b \in BlocksOf(q)
      PROVE  EntryOf(q, b) \in DOMAIN q /\ q[EntryOf(q, b)].block_id = b
  BY DEF BlocksOf, EntryOf
<1>2. ASSUME NEW k \in 1..Len(q)
      PROVE  EntryOf(q, q[k].block_id) = k
  BY <1>1, EntryFacts DEF Distinct
<1>3. \A k \in 1..Len(q) : Reads(q, d)[q[k].block_id] = q[k].cache
  BY <1>2, EntryFacts DEF Reads
<1>4. ASSUME NEW b \in Blocks
      PROVE  /\ b \in BlocksOf(q) => q[EntryOf(q, b)].cache \in Contents
             /\ d[b] \in Contents
  BY <1>1, EntryFacts
<1> QED  BY <1>3, <1>4 DEF Reads

\* Two queues and devices read the same if they do so at each block.
LEMMA SameReads ==
    ASSUME NEW q \in Seq(Cache), NEW d \in [Blocks -> Contents], Distinct(q),
           NEW f \in [Blocks -> Contents],
           \A k \in 1..Len(q) : q[k].cache = f[q[k].block_id],
           \A b \in Blocks \ BlocksOf(q) : d[b] = f[b]
    PROVE  Reads(q, d) = f
<1>1. ASSUME NEW b \in Blocks PROVE Reads(q, d)[b] = f[b]
  <2>1. CASE b \in BlocksOf(q)
    <3>1. PICK k \in 1..Len(q) : b = q[k].block_id
      BY <2>1, EntryFacts DEF BlocksOf
    <3> QED  BY <3>1, ReadFacts
  <2>2. CASE b \notin BlocksOf(q)
    BY <2>2, ReadFacts
  <2> QED  BY <2>1, <2>2
<1> QED  BY <1>1, ReadFacts

-----------------------------------------------------------------------------
(* What the operations do to a queue                                       *)

\* The entry that get_block_cache adds for a block that is not cached.
LEMMA NewFacts ==
    ASSUME TypeOK, NEW b \in Blocks
    PROVE  /\ new(b) \in Cache
           /\ new(b).block_id = b
           /\ new(b).cache = disk[b]
           /\ new(b).modified = FALSE
  BY DEF TypeOK, new, Cache

\* Adding an entry for another block.
LEMMA PushFacts ==
    ASSUME NEW q \in Seq(Cache), Distinct(q),
           NEW e \in Cache, e.block_id \notin BlocksOf(q)
    PROVE  /\ Append(q, e) \in Seq(Cache)
           /\ Len(Append(q, e)) = Len(q) + 1
           /\ \A k \in 1..Len(q) : Append(q, e)[k] = q[k]
           /\ Append(q, e)[Len(q) + 1] = e
           /\ DOMAIN Append(q, e) = 1..(Len(q) + 1)
           /\ Distinct(Append(q, e))
           /\ BlocksOf(Append(q, e)) = BlocksOf(q) \cup {e.block_id}
<1> DEFINE r == Append(q, e)
<1>1. /\ r \in Seq(Cache)
      /\ Len(r) = Len(q) + 1
      /\ \A k \in 1..Len(q) : r[k] = q[k]
      /\ r[Len(q) + 1] = e
  BY AppendProperties
<1>2. DOMAIN r = 1..(Len(q) + 1) /\ DOMAIN q = 1..Len(q) /\ Len(q) \in Nat
  BY <1>1, LenProperties
<1> HIDE DEF r
<1>3. \A k \in 1..Len(q) : q[k].block_id # e.block_id
  BY EntryFacts
<1>4. \A k \in 1..(Len(q) + 1) : k \in 1..Len(q) \/ k = Len(q) + 1
  BY <1>2
<1>5. Distinct(r)
  BY <1>1, <1>2, <1>3, <1>4 DEF Distinct
<1>6. BlocksOf(r) = BlocksOf(q) \cup {e.block_id}
  <2>1. BlocksOf(r) \subseteq BlocksOf(q) \cup {e.block_id}
    BY <1>1, <1>2, <1>4 DEF BlocksOf
  <2>2. BlocksOf(q) \subseteq BlocksOf(r)
    BY <1>1, <1>2 DEF BlocksOf
  <2>3. e.block_id \in BlocksOf(r)
    <3>1. Len(q) + 1 \in DOMAIN r
      BY <1>2
    <3> QED  BY <1>1, <3>1 DEF BlocksOf
  <2> QED  BY <2>1, <2>2, <2>3
<1> QED  BY <1>1, <1>2, <1>5, <1>6 DEF r

\* Taking out entry v.
LEMMA DropFacts ==
    ASSUME NEW q \in Seq(Cache), Distinct(q), NEW v \in 1..Len(q)
    PROVE  /\ RemoveAt(q, v) \in Seq(Cache)
           /\ Len(RemoveAt(q, v)) = Len(q) - 1
           /\ \A k \in 1..(Len(q) - 1) :
                 \E j \in 1..Len(q) : j # v /\ RemoveAt(q, v)[k] = q[j]
           /\ Distinct(RemoveAt(q, v))
           /\ BlocksOf(RemoveAt(q, v)) = BlocksOf(q) \ {q[v].block_id}
<1> DEFINE r == RemoveAt(q, v)
<1>1. /\ r \in Seq(Cache) /\ Len(r) = Len(q) - 1
      /\ \A k \in 1..(Len(q) - 1) : r[k] = IF k < v THEN q[k] ELSE q[k + 1]
  BY RemoveAtFacts
<1>2. /\ \A k \in 1..(Len(q) - 1) : \E j \in 1..Len(q) : j # v /\ r[k] = q[j]
      /\ \A j \in 1..Len(q) : j # v => \E k \in 1..(Len(q) - 1) : r[k] = q[j]
  BY RemoveAtElements
<1>3. DOMAIN r = 1..(Len(q) - 1) /\ DOMAIN q = 1..Len(q) /\ Len(q) \in Nat
  BY <1>1, LenProperties
<1> HIDE DEF r
<1>4. Distinct(r)
  <2>1. SUFFICES ASSUME NEW j \in DOMAIN r, NEW k \in DOMAIN r,
                        r[j].block_id = r[k].block_id
                 PROVE  j = k
    BY DEF Distinct
  <2> DEFINE at(x) == IF x < v THEN x ELSE x + 1
  <2>2. at(j) \in DOMAIN q /\ at(k) \in DOMAIN q
    BY <1>3
  <2>3. r[j] = q[at(j)] /\ r[k] = q[at(k)]
    BY <1>1, <1>3
  <2>4. at(j) = at(k)
    BY <2>1, <2>2, <2>3 DEF Distinct
  <2> QED  BY <1>3, <2>4
<1>5. BlocksOf(r) = BlocksOf(q) \ {q[v].block_id}
  <2>1. ASSUME NEW b \in BlocksOf(r) PROVE b \in BlocksOf(q) \ {q[v].block_id}
    <3>1. PICK k \in 1..(Len(q) - 1) : b = r[k].block_id
      BY <1>3 DEF BlocksOf
    <3>2. PICK j \in 1..Len(q) : j # v /\ r[k] = q[j]
      BY <1>2
    <3> QED  BY <1>3, <3>1, <3>2 DEF BlocksOf, Distinct
  <2>2. ASSUME NEW b \in BlocksOf(q), b # q[v].block_id PROVE b \in BlocksOf(r)
    <3>1. PICK j \in 1..Len(q) : b = q[j].block_id
      BY <1>3 DEF BlocksOf
    <3>2. PICK k \in 1..(Len(q) - 1) : r[k] = q[j]
      BY <1>2, <2>2, <3>1
    <3> QED  BY <1>3, <3>1, <3>2 DEF BlocksOf
  <2> QED  BY <2>1, <2>2
<1> QED  BY <1>1, <1>2, <1>4, <1>5 DEF r

\* Changing an entry, but not its block.
LEMMA ChangeFacts ==
    ASSUME NEW q \in Seq(Cache), Distinct(q), NEW v \in 1..Len(q),
           NEW e \in Cache, e.block_id = q[v].block_id
    PROVE  /\ [q EXCEPT ![v] = e] \in Seq(Cache)
           /\ Len([q EXCEPT ![v] = e]) = Len(q)
           /\ \A k \in 1..Len(q) :
                 [q EXCEPT ![v] = e][k] = IF k = v THEN e ELSE q[k]
           /\ Distinct([q EXCEPT ![v] = e])
           /\ BlocksOf([q EXCEPT ![v] = e]) = BlocksOf(q)
<1> DEFINE r == [q EXCEPT ![v] = e]
<1>1. /\ r \in Seq(Cache) /\ Len(r) = Len(q)
      /\ \A k \in 1..Len(q) : r[k] = IF k = v THEN e ELSE q[k]
  BY ExceptSeq
<1>2. DOMAIN r = 1..Len(q) /\ DOMAIN q = 1..Len(q)
  BY <1>1, LenProperties
<1> HIDE DEF r
<1>3. \A k \in 1..Len(q) : r[k].block_id = q[k].block_id
  BY <1>1
<1>4. Distinct(r) /\ BlocksOf(r) = BlocksOf(q)
  BY <1>2, <1>3 DEF Distinct, BlocksOf
<1> QED  BY <1>1, <1>4 DEF r

\* The device after the write-back of entry v.
LEMMA SyncFacts ==
    ASSUME TypeOK, CleanIsDurable, NEW v \in 1..Len(queue)
    PROVE  /\ sync(queue[v]) \in [Blocks -> Contents]
           /\ sync(queue[v])[queue[v].block_id] = queue[v].cache
           /\ \A b \in Blocks :
                 b # queue[v].block_id => sync(queue[v])[b] = disk[b]
<1>1. queue \in Seq(Cache) /\ disk \in [Blocks -> Contents]
  BY DEF TypeOK
<1>2. /\ DOMAIN queue = 1..Len(queue)
      /\ queue[v].block_id \in Blocks
      /\ queue[v].cache \in Contents
  BY <1>1, EntryFacts
<1> QED  BY <1>1, <1>2 DEF sync, CleanIsDurable

-----------------------------------------------------------------------------
(* The invariant                                                           *)

\* The invariant, as facts about the queue and the device.
LEMMA Unfold ==
    ASSUME CacheIInv
    PROVE  /\ queue \in Seq(Cache) /\ disk \in [Blocks -> Contents]
           /\ held \in Seq(Blocks)
           /\ Len(queue) \in Nat /\ DOMAIN queue = 1..Len(queue)
           /\ Distinct(queue) /\ ToSet(held) \subseteq BlocksOf(queue)
           /\ \A k \in 1..Len(queue) :
                 ~queue[k].modified => queue[k].cache = disk[queue[k].block_id]
           /\ synced => \A k \in 1..Len(queue) :
                 queue[k].cache = disk[queue[k].block_id]
           /\ TypeOK /\ CleanIsDurable
<1>1. TypeOK /\ OneCopy /\ CleanIsDurable /\ SyncedIsClean
  BY DEF CacheIInv
<1>2. queue \in Seq(Cache)
  BY <1>1 DEF TypeOK
<1>3. Len(queue) \in Nat /\ DOMAIN queue = 1..Len(queue)
  BY <1>2, EntryFacts
<1> QED  BY <1>1, <1>2, <1>3, ViewReads
         DEF TypeOK, OneCopy, Distinct, CleanIsDurable, SyncedIsClean

\* The other way round, after a step.
LEMMA CacheFold ==
    ASSUME queue' \in Seq(Cache), disk' \in [Blocks -> Contents],
           held' \in Seq(Blocks), synced' \in BOOLEAN,
           syncing' \in 0..BLOCK_CACHE_SIZE \cup {None},
           Distinct(queue'), ToSet(held') \subseteq BlocksOf(queue'),
           \A k \in 1..Len(queue') :
              /\ ~queue'[k].modified =>
                    queue'[k].cache = disk'[queue'[k].block_id]
              /\ synced' => queue'[k].cache = disk'[queue'[k].block_id],
           SyncProgress', Len(queue') <= BLOCK_CACHE_SIZE
    PROVE  CacheIInv'
<1>1. DOMAIN queue' = 1..Len(queue')
  BY LenProperties
<1> QED  BY <1>1 DEF CacheIInv, TypeOK, OneCopy, CleanIsDurable, SyncedIsClean,
                    QueueFits, Distinct, BlocksOf, Cached

LEMMA CacheInitially == Init => CacheIInv
<1> SUFFICES ASSUME Init PROVE CacheIInv
  OBVIOUS
<1>1. queue = <<>> /\ held = <<>> /\ Len(queue) = 0 /\ DOMAIN queue = {}
  BY DEF Init
<1>2. ToSet(held) = {}
  BY <1>1 DEF ToSet
<1> QED  BY <1>1, <1>2, CacheAssumption
         DEF Init, CacheIInv, TypeOK, OneCopy, CleanIsDurable, SyncedIsClean,
             SyncProgress, QueueFits

\* modify changes the contents of an entry and marks it.
LEMMA MarkFacts ==
    ASSUME NEW x \in Cache, NEW c \in Contents
    PROVE  [x EXCEPT !.cache = c, !.modified = TRUE]
             = [block_id |-> x.block_id, cache |-> c, modified |-> TRUE]
<1>1. PICK b \in Blocks, a \in Contents, m \in BOOLEAN :
         x = [block_id |-> b, cache |-> a, modified |-> m]
  BY DEF Cache
<1>2. [x EXCEPT !.cache = c] = [block_id |-> b, cache |-> c, modified |-> m]
  BY <1>1
<1>3. \A t : [[block_id |-> b, cache |-> c, modified |-> m] EXCEPT !.modified = t]
               = [block_id |-> b, cache |-> c, modified |-> t]
  OBVIOUS
<1>4. x.block_id = b
  BY <1>1
<1> QED  BY <1>2, <1>3, <1>4

LEMMA ModifyKeeps ==
    ASSUME CacheIInv, NEW b \in Blocks, NEW c \in Contents, modify(b, c)
    PROVE  /\ CacheIInv'
           /\ b \in BlocksOf(queue)
           /\ queue' = [queue EXCEPT ![EntryOf(queue, b)] =
                 [block_id |-> b, cache |-> c, modified |-> TRUE]]
<1> DEFINE v == IndexOf(b)
           e == [block_id |-> b, cache |-> c, modified |-> TRUE]
<1>1. b \in BlocksOf(queue)
  BY Unfold DEF modify
<1>2. v \in 1..Len(queue) /\ queue[v].block_id = b /\ v = EntryOf(queue, b)
  BY <1>1, Unfold DEF IndexOf, EntryOf, BlocksOf
<1>3. queue' = [queue EXCEPT ![v] = e]
  <2>1. queue[v] \in Cache
    BY <1>2, Unfold, EntryFacts
  <2>2. [queue[v] EXCEPT !.cache = c, !.modified = TRUE] = e
    BY <1>2, <2>1, MarkFacts
  <2>3. queue' = [queue EXCEPT ![v] =
                     [queue[v] EXCEPT !.cache = c, !.modified = TRUE]]
    <3>1. queue' = [[queue EXCEPT ![v] = [queue[v] EXCEPT !.cache = c]]
                       EXCEPT ![v].modified = TRUE]
      BY DEF modify
    <3> QED  BY <3>1, <1>2, Unfold
  <2> QED  BY <2>2, <2>3
<1>4. e \in Cache /\ e.block_id = queue[v].block_id
  BY <1>2 DEF Cache
<1> HIDE DEF v, e
<1>5. /\ queue' \in Seq(Cache) /\ Len(queue') = Len(queue)
      /\ \A k \in 1..Len(queue) : queue'[k] = IF k = v THEN e ELSE queue[k]
      /\ Distinct(queue') /\ BlocksOf(queue') = BlocksOf(queue)
  BY <1>2, <1>3, <1>4, Unfold, ChangeFacts
<1>6. CacheIInv'
  <2>1. UNCHANGED <<disk, held, syncing>> /\ synced' = FALSE /\ syncing = None
    BY DEF modify, Running
  <2>2. SyncProgress'
    BY <2>1 DEF SyncProgress
  <2>3. Len(queue') <= BLOCK_CACHE_SIZE /\ syncing' \in 0..BLOCK_CACHE_SIZE \cup {None}
    BY <1>5, <2>1 DEF CacheIInv, QueueFits
  <2>4. \A k \in 1..Len(queue') : ~queue'[k].modified =>
            queue'[k].cache = disk'[queue'[k].block_id]
    BY <1>5, <2>1, Unfold DEF e
  <2> QED  BY <1>5, <2>1, <2>2, <2>3, <2>4, Unfold, CacheFold
<1> QED  BY <1>1, <1>2, <1>3, <1>6 DEF e

\* What an operation holds once it has taken block b.
LEMMA HoldFacts ==
    ASSUME CacheIInv, NEW b \in Blocks, Take(b), held' = Append(held, b)
    PROVE  /\ held' \in Seq(Blocks)
           /\ ToSet(held') = ToSet(held) \cup {b}
           /\ UNCHANGED syncing => SyncProgress'
<1>1. held' \in Seq(Blocks) /\ Range(held') = Range(held) \cup {b}
  BY Unfold, AppendFacts
<1>2. ToSet(held') = Range(held') /\ ToSet(held) = Range(held)
  BY DEF ToSet, Range
<1>3. UNCHANGED syncing => SyncProgress'
  BY DEF Take, Running, SyncProgress
<1> QED  BY <1>1, <1>2, <1>3

LEMMA HitKeeps ==
    ASSUME CacheIInv, NEW b \in Blocks, get_hit(b)
    PROVE  CacheIInv'
<1>1. /\ held' \in Seq(Blocks) /\ ToSet(held') = ToSet(held) \cup {b}
      /\ SyncProgress'
  BY HoldFacts DEF get_hit
<1>2. UNCHANGED <<disk, queue, syncing, synced>> /\ b \in BlocksOf(queue)
  BY ViewReads DEF get_hit
<1>3. /\ Len(queue') <= BLOCK_CACHE_SIZE /\ synced' \in BOOLEAN
      /\ syncing' \in 0..BLOCK_CACHE_SIZE \cup {None}
  BY <1>2 DEF CacheIInv, QueueFits, TypeOK
<1> QED  BY <1>1, <1>2, <1>3, Unfold, CacheFold

LEMMA LoadKeeps ==
    ASSUME CacheIInv, NEW b \in Blocks, get_load(b)
    PROVE  CacheIInv'
<1> DEFINE e == new(b)
<1>1. /\ held' \in Seq(Blocks) /\ ToSet(held') = ToSet(held) \cup {b}
      /\ SyncProgress'
  BY HoldFacts DEF get_load
<1>2. /\ UNCHANGED <<disk, syncing, synced>> /\ queue' = Append(queue, e)
      /\ Len(queue) < BLOCK_CACHE_SIZE
      /\ b \notin BlocksOf(queue)
  BY ViewReads DEF get_load
<1>3. e \in Cache /\ e.block_id = b /\ e.cache = disk[b]
  BY NewFacts, Unfold
<1> HIDE DEF e
<1>4. /\ queue' \in Seq(Cache) /\ Len(queue') = Len(queue) + 1
      /\ \A k \in 1..Len(queue) : queue'[k] = queue[k]
      /\ queue'[Len(queue) + 1] = e
      /\ Distinct(queue')
      /\ BlocksOf(queue') = BlocksOf(queue) \cup {b}
  BY <1>2, <1>3, Unfold, PushFacts
<1>5. /\ Len(queue') <= BLOCK_CACHE_SIZE /\ synced' \in BOOLEAN
      /\ syncing' \in 0..BLOCK_CACHE_SIZE \cup {None}
  BY <1>2, <1>4, Unfold, CacheAssumption DEF TypeOK
<1>6. ASSUME NEW k \in 1..Len(queue')
      PROVE  /\ ~queue'[k].modified =>
                    queue'[k].cache = disk'[queue'[k].block_id]
             /\ synced' => queue'[k].cache = disk'[queue'[k].block_id]
  <2>1. CASE k \in 1..Len(queue)
    BY <1>2, <1>4, <2>1, Unfold
  <2>2. CASE k = Len(queue) + 1
    BY <1>2, <1>3, <1>4, <2>2
  <2> QED  BY <1>4, <2>1, <2>2, Unfold
<1> QED  BY <1>1, <1>2, <1>4, <1>5, <1>6, Unfold, CacheFold

\* The entry that an eviction takes, and the queue and the device it leaves.
LEMMA EvictFacts ==
    ASSUME CacheIInv, NEW b \in Blocks, get_evict(b)
    PROVE  \E v \in 1..Len(queue) :
              /\ queue[v].block_id \notin ToSet(held)
              /\ disk' = sync(queue[v])
              /\ queue' \in Seq(Cache) /\ Len(queue') = Len(queue)
              /\ \A k \in 1..Len(queue') :
                    \/ \E j \in 1..Len(queue) : j # v /\ queue'[k] = queue[j]
                    \/ queue'[k] = new(b)
              /\ Distinct(queue')
              /\ BlocksOf(queue')
                    = (BlocksOf(queue) \ {queue[v].block_id}) \cup {b}
<1> DEFINE v == CHOOSE i \in Unused : \A j \in Unused : i <= j
           q == RemoveAt(queue, v)
           e == new(b)
<1>1. /\ disk' = sync(queue[v]) /\ queue' = Append(q, e)
      /\ Unused # {} /\ b \notin BlocksOf(queue)
  BY ViewReads DEF get_evict
<1>2. \E i \in Unused : \A j \in Unused : i <= j
  <2>1. Unused \subseteq Nat /\ Unused # {}
    BY SMTT(30), <1>1, Unfold DEF Unused
  <2> QED  BY <2>1, LeastNatural
<1>3. v \in Unused
  BY <1>2
<1>4. v \in 1..Len(queue) /\ queue[v].block_id \notin ToSet(held)
  BY <1>3, Unfold DEF Unused
<1> HIDE DEF v
<1>5. /\ q \in Seq(Cache) /\ Len(q) = Len(queue) - 1
      /\ \A k \in 1..(Len(queue) - 1) :
            \E j \in 1..Len(queue) : j # v /\ q[k] = queue[j]
      /\ Distinct(q)
      /\ BlocksOf(q) = BlocksOf(queue) \ {queue[v].block_id}
  BY <1>4, Unfold, DropFacts
<1>6. e \in Cache /\ e.block_id = b
  BY NewFacts, Unfold
<1> HIDE DEF q, e
<1>7. /\ queue' \in Seq(Cache) /\ Len(queue') = Len(q) + 1
      /\ \A k \in 1..Len(q) : queue'[k] = q[k]
      /\ queue'[Len(q) + 1] = e
      /\ Distinct(queue')
      /\ BlocksOf(queue') = BlocksOf(q) \cup {b}
  BY <1>1, <1>5, <1>6, PushFacts
<1>8. Len(queue') = Len(queue) /\ Len(queue) \in Nat
  BY <1>5, <1>7, Unfold
<1>9. ASSUME NEW k \in 1..Len(queue')
      PROVE  \/ \E j \in 1..Len(queue) : j # v /\ queue'[k] = queue[j]
             \/ queue'[k] = e
  <2>1. CASE k \in 1..(Len(queue) - 1)
    BY <1>5, <1>7, <2>1
  <2>2. CASE k = Len(queue)
    BY <1>5, <1>7, <1>8, <2>2
  <2> QED  BY <1>8, <2>1, <2>2
<1> QED  BY <1>1, <1>4, <1>5, <1>7, <1>8, <1>9 DEF e

LEMMA EvictKeeps ==
    ASSUME CacheIInv, NEW b \in Blocks, get_evict(b)
    PROVE  CacheIInv'
<1>1. /\ held' \in Seq(Blocks) /\ ToSet(held') = ToSet(held) \cup {b}
      /\ SyncProgress'
  BY HoldFacts DEF get_evict
<1>2. UNCHANGED <<syncing, synced>> /\ b \notin BlocksOf(queue)
  BY ViewReads DEF get_evict
<1>3. PICK v \in 1..Len(queue) :
              /\ queue[v].block_id \notin ToSet(held)
              /\ disk' = sync(queue[v])
              /\ queue' \in Seq(Cache) /\ Len(queue') = Len(queue)
              /\ \A k \in 1..Len(queue') :
                    \/ \E j \in 1..Len(queue) : j # v /\ queue'[k] = queue[j]
                    \/ queue'[k] = new(b)
              /\ Distinct(queue')
              /\ BlocksOf(queue')
                    = (BlocksOf(queue) \ {queue[v].block_id}) \cup {b}
  BY EvictFacts
<1>4. /\ disk' \in [Blocks -> Contents]
      /\ \A x \in Blocks : x # queue[v].block_id => disk'[x] = disk[x]
  BY <1>3, SyncFacts, Unfold
<1>5. /\ Len(queue') <= BLOCK_CACHE_SIZE /\ synced' \in BOOLEAN
      /\ syncing' \in 0..BLOCK_CACHE_SIZE \cup {None}
  BY <1>2, <1>3 DEF CacheIInv, QueueFits, TypeOK
<1>6. ASSUME NEW k \in 1..Len(queue')
      PROVE  /\ ~queue'[k].modified =>
                    queue'[k].cache = disk'[queue'[k].block_id]
             /\ synced' => queue'[k].cache = disk'[queue'[k].block_id]
  <2>1. CASE \E j \in 1..Len(queue) : j # v /\ queue'[k] = queue[j]
    <3>1. PICK j \in 1..Len(queue) : j # v /\ queue'[k] = queue[j]
      BY <2>1
    <3>2. queue[j].block_id # queue[v].block_id /\ queue[j].block_id \in Blocks
      BY <3>1, Unfold, EntryFacts DEF Distinct
    <3> QED  BY <1>2, <1>4, <3>1, <3>2, Unfold
  <2>2. CASE queue'[k] = new(b)
    <3>1. queue'[k].block_id = b /\ queue'[k].cache = disk[b]
      BY <2>2, NewFacts, Unfold
    <3>2. b # queue[v].block_id
      BY <1>2, Unfold, EntryFacts
    <3> QED  BY <1>4, <3>1, <3>2
  <2> QED  BY <1>3, <2>1, <2>2
<1>7. ToSet(held') \subseteq BlocksOf(queue')
  BY <1>1, <1>3, Unfold
<1> QED  BY <1>1, <1>3, <1>4, <1>5, <1>6, <1>7, CacheFold

LEMMA ReleaseKeeps ==
    ASSUME CacheIInv, release
    PROVE  CacheIInv'
<1>1. /\ held # <<>> /\ held' = Front(held)
      /\ UNCHANGED <<disk, queue, syncing, synced>> /\ syncing = None
  BY DEF release, Running
<1>2. Len(held) \in Nat \ {0} /\ held \in Seq(Blocks) /\ DOMAIN held = 1..Len(held)
  BY <1>1, Unfold, EmptySeq, LenProperties
<1>3. /\ held' \in Seq(Blocks)
      /\ Len(held') = Len(held) - 1
      /\ \A i \in 1..(Len(held) - 1) : held'[i] = held[i]
  BY <1>1, <1>2 DEF Front
<1>4. DOMAIN held' = 1..(Len(held) - 1)
  BY <1>3, LenProperties
<1>5. ToSet(held') \subseteq ToSet(held)
  BY <1>2, <1>3, <1>4 DEF ToSet
<1>6. /\ Len(queue') <= BLOCK_CACHE_SIZE /\ synced' \in BOOLEAN
      /\ syncing' \in 0..BLOCK_CACHE_SIZE \cup {None}
  BY <1>1 DEF CacheIInv, QueueFits, TypeOK
<1>7. SyncProgress'
  BY <1>1 DEF SyncProgress
<1> QED  BY <1>1, <1>3, <1>5, <1>6, <1>7, Unfold, CacheFold

LEMMA SyncAllKeeps ==
    ASSUME CacheIInv, sync_all
    PROVE  CacheIInv'
<1>1. UNCHANGED <<disk, queue, held, synced>> /\ syncing' = 0 /\ held = <<>>
  BY DEF sync_all
<1>2. /\ Len(queue') <= BLOCK_CACHE_SIZE /\ synced' \in BOOLEAN
      /\ syncing' \in 0..BLOCK_CACHE_SIZE \cup {None}
  BY <1>1, CacheAssumption DEF CacheIInv, QueueFits, TypeOK
<1>3. SyncProgress'
  BY <1>1, Unfold DEF SyncProgress
<1> QED  BY <1>1, <1>2, <1>3, Unfold, CacheFold

\* sync takes the mark of an entry away.
LEMMA UnmarkFacts ==
    ASSUME NEW x \in Cache
    PROVE  [x EXCEPT !.modified = FALSE]
             = [block_id |-> x.block_id, cache |-> x.cache, modified |-> FALSE]
<1>1. PICK b \in Blocks, a \in Contents, m \in BOOLEAN :
         x = [block_id |-> b, cache |-> a, modified |-> m]
  BY DEF Cache
<1>2. \A t : [[block_id |-> b, cache |-> a, modified |-> m] EXCEPT !.modified = t]
               = [block_id |-> b, cache |-> a, modified |-> t]
  OBVIOUS
<1>3. x.block_id = b /\ x.cache = a
  BY <1>1
<1> QED  BY <1>1, <1>2, <1>3

\* The entry that block_cache_sync_all visits, and the queue it leaves.
LEMMA VisitFacts ==
    ASSUME CacheIInv, sync_next
    PROVE  /\ syncing \in Nat /\ syncing + 1 \in 1..Len(queue)
           /\ held = <<>>
           /\ disk' = sync(queue[syncing + 1])
           /\ queue' \in Seq(Cache) /\ Len(queue') = Len(queue)
           /\ \A k \in 1..Len(queue) :
                 /\ queue'[k].block_id = queue[k].block_id
                 /\ queue'[k].cache = queue[k].cache
                 /\ queue'[k].modified = (queue[k].modified /\ k # syncing + 1)
           /\ Distinct(queue')
           /\ BlocksOf(queue') = BlocksOf(queue)
<1> DEFINE v == syncing + 1
           e == [block_id |-> queue[v].block_id, cache |-> queue[v].cache,
                 modified |-> FALSE]
<1>1. syncing \in Nat /\ v \in 1..Len(queue) /\ held = <<>>
  BY Unfold DEF sync_next, CacheIInv, TypeOK, SyncProgress
<1>2. queue' = [queue EXCEPT ![v] = [queue[v] EXCEPT !.modified = FALSE]]
  BY <1>1, Unfold DEF sync_next
<1>3. queue[v] \in Cache
  BY <1>1, Unfold, EntryFacts
<1>4. queue' = [queue EXCEPT ![v] = e]
  BY <1>2, <1>3, UnmarkFacts
<1>5. e \in Cache /\ e.block_id = queue[v].block_id
  BY <1>1, Unfold, EntryFacts DEF Cache
<1>6. e.cache = queue[v].cache /\ e.modified = FALSE
  OBVIOUS
<1> HIDE DEF v, e
<1>7. /\ queue' \in Seq(Cache) /\ Len(queue') = Len(queue)
      /\ \A k \in 1..Len(queue) : queue'[k] = IF k = v THEN e ELSE queue[k]
      /\ Distinct(queue') /\ BlocksOf(queue') = BlocksOf(queue)
  BY <1>1, <1>4, <1>5, Unfold, ChangeFacts
<1>8. ASSUME NEW k \in 1..Len(queue)
      PROVE  /\ queue'[k].block_id = queue[k].block_id
             /\ queue'[k].cache = queue[k].cache
             /\ queue'[k].modified = (queue[k].modified /\ k # v)
  <2>1. CASE k = v
    BY <1>5, <1>6, <1>7, <2>1
  <2>2. CASE k # v
    <3>1. queue'[k] = queue[k] /\ queue[k].modified \in BOOLEAN
      BY <1>7, <2>2, Unfold, EntryFacts
    <3> QED  BY <2>2, <3>1
  <2> QED  BY <2>1, <2>2
<1> QED  BY <1>1, <1>7, <1>8 DEF sync_next, v

LEMMA SyncNextKeeps ==
    ASSUME CacheIInv, sync_next
    PROVE  CacheIInv'
<1> DEFINE v == syncing + 1
<1>1. /\ syncing \in Nat /\ v \in 1..Len(queue) /\ held = <<>>
      /\ disk' = sync(queue[v])
      /\ queue' \in Seq(Cache) /\ Len(queue') = Len(queue)
      /\ \A k \in 1..Len(queue) :
            /\ queue'[k].block_id = queue[k].block_id
            /\ queue'[k].cache = queue[k].cache
            /\ queue'[k].modified = (queue[k].modified /\ k # v)
      /\ Distinct(queue') /\ BlocksOf(queue') = BlocksOf(queue)
  BY VisitFacts
<1>2. /\ disk' \in [Blocks -> Contents]
      /\ disk'[queue[v].block_id] = queue[v].cache
      /\ \A x \in Blocks : x # queue[v].block_id => disk'[x] = disk[x]
  BY <1>1, SyncFacts, Unfold
<1>3. UNCHANGED <<held, synced>> /\ syncing' = v
  BY DEF sync_next
<1>4. SyncProgress'
  <2>1. syncing # None /\ \A k \in 1..syncing : ~queue[k].modified
    BY DEF sync_next, CacheIInv, SyncProgress
  <2>2. Len(queue) \in Nat
    BY Unfold
  <2>3. ASSUME NEW k \in 1..v PROVE ~queue'[k].modified
    <3>1. k \in 1..Len(queue) /\ (k \in 1..syncing \/ k = v)
      BY <1>1, <2>2
    <3> QED  BY <1>1, <2>1, <3>1
  <2>4. v <= Len(queue')
    BY <1>1, <2>2
  <2> QED  BY <1>1, <1>3, <2>3, <2>4 DEF SyncProgress
<1>5. /\ Len(queue') <= BLOCK_CACHE_SIZE /\ synced' \in BOOLEAN
      /\ syncing' \in 0..BLOCK_CACHE_SIZE \cup {None}
  <2>1. Len(queue) <= BLOCK_CACHE_SIZE /\ synced \in BOOLEAN /\ Len(queue) \in Nat
    BY Unfold DEF CacheIInv, QueueFits, TypeOK
  <2> QED  BY <1>1, <1>3, <2>1, CacheAssumption
<1>6. ASSUME NEW k \in 1..Len(queue')
      PROVE  /\ ~queue'[k].modified =>
                    queue'[k].cache = disk'[queue'[k].block_id]
             /\ synced' => queue'[k].cache = disk'[queue'[k].block_id]
  <2>1. k \in 1..Len(queue)
    BY <1>1
  <2>2. CASE k = v
    BY <1>1, <1>2, <2>2
  <2>3. CASE k # v
    <3>1. queue[k].block_id # queue[v].block_id /\ queue[k].block_id \in Blocks
      BY <1>1, <2>1, <2>3, Unfold, EntryFacts DEF Distinct
    <3> HIDE DEF v
    <3>2. queue'[k].block_id = queue[k].block_id /\ queue'[k].cache = queue[k].cache
      BY <1>1, <2>1
    <3>3. queue'[k].modified = queue[k].modified
      <4>1. queue[k].modified \in BOOLEAN
        BY <2>1, Unfold, EntryFacts
      <4> QED  BY <1>1, <2>1, <2>3, <4>1
    <3>4. disk'[queue'[k].block_id] = disk[queue[k].block_id]
      BY <1>2, <3>1, <3>2
    <3> QED  BY <1>3, <2>1, <3>2, <3>3, <3>4, Unfold
  <2> QED  BY <2>2, <2>3
<1>7. held' \in Seq(Blocks) /\ ToSet(held') \subseteq BlocksOf(queue')
  BY <1>1, <1>3, Unfold
<1> QED  BY <1>1, <1>2, <1>4, <1>5, <1>6, <1>7, CacheFold

LEMMA SyncReturnKeeps ==
    ASSUME CacheIInv, sync_return
    PROVE  CacheIInv'
<1>1. UNCHANGED <<disk, queue, held>> /\ syncing' = None /\ synced' = TRUE
  BY DEF sync_return
<1>2. \A k \in 1..Len(queue) : ~queue[k].modified
  BY DEF sync_return, CacheIInv, SyncProgress
<1>3. SyncProgress' /\ Len(queue') <= BLOCK_CACHE_SIZE
  BY <1>1 DEF SyncProgress, CacheIInv, QueueFits
<1> QED  BY <1>1, <1>2, <1>3, Unfold, CacheFold

LEMMA CrashKeeps ==
    ASSUME CacheIInv, crash
    PROVE  CacheIInv'
<1>1. /\ queue' = <<>> /\ held' = <<>> /\ syncing' = None /\ synced' = TRUE
      /\ disk' = disk
  BY DEF crash
<1>2. /\ Len(queue') = 0 /\ DOMAIN queue' = {} /\ ToSet(held') = {}
      /\ queue' \in Seq(Cache) /\ held' \in Seq(Blocks)
  BY <1>1 DEF ToSet
<1>3. SyncProgress' /\ Distinct(queue') /\ Len(queue') <= BLOCK_CACHE_SIZE
  BY <1>1, <1>2, CacheAssumption DEF SyncProgress, Distinct
<1> QED  BY <1>1, <1>2, <1>3, Unfold, CacheFold

\* One step of the cache keeps the invariant.
LEMMA CacheStep == CacheIInv /\ [Next]_vars => CacheIInv'
<1> SUFFICES ASSUME CacheIInv, [Next]_vars PROVE CacheIInv'
  OBVIOUS
<1>1. ASSUME NEW b \in Blocks, NEW c \in Contents, modify(b, c) PROVE CacheIInv'
  BY <1>1, ModifyKeeps
<1>2. ASSUME NEW b \in Blocks, get_hit(b) PROVE CacheIInv'
  BY <1>2, HitKeeps
<1>3. ASSUME NEW b \in Blocks, get_load(b) PROVE CacheIInv'
  BY <1>3, LoadKeeps
<1>4. ASSUME NEW b \in Blocks, get_evict(b) PROVE CacheIInv'
  BY <1>4, EvictKeeps
<1>5. CASE release
  BY <1>5, ReleaseKeeps
<1>6. CASE sync_all
  BY <1>6, SyncAllKeeps
<1>7. CASE sync_next
  BY <1>7, SyncNextKeeps
<1>8. CASE sync_return
  BY <1>8, SyncReturnKeeps
<1>9. CASE crash
  BY <1>9, CrashKeeps
<1>10. CASE UNCHANGED vars
  BY <1>10 DEF vars, CacheIInv, TypeOK, OneCopy, CleanIsDurable, SyncedIsClean,
               SyncProgress, QueueFits, Cached
<1> QED  BY <1>1, <1>2, <1>3, <1>4, <1>5, <1>6, <1>7, <1>8, <1>9, <1>10 DEF Next

\* The inductive invariant holds.
THEOREM CacheInvariant == Spec => []CacheIInv
  BY CacheInitially, CacheStep, PTL DEF Spec

-----------------------------------------------------------------------------
(* The properties of the runs                                              *)

\* With every entry as on the device, so is what is read.
LEMMA CleanReads ==
    ASSUME CacheIInv, \A k \in 1..Len(queue) : queue[k].cache = disk[queue[k].block_id]
    PROVE  View = disk
<1>1. Reads(queue, disk) = disk
  BY Unfold, SameReads
<1> QED  BY <1>1, ViewReads

\* get_block_cache gives one entry for a block, no eviction takes one in use,
\* and once block_cache_sync_all has returned the device has everything, for
\* any size of the cache and any number of caches that an operation nests.
THEOREM CacheIsSound == Spec => []CacheInv
<1>1. CacheIInv => CacheInv
  <2> SUFFICES ASSUME CacheIInv PROVE CacheInv
    OBVIOUS
  <2>1. SyncedIsDurable
    <3>1. ASSUME synced PROVE View = disk
      BY <3>1, Unfold, CleanReads
    <3> QED  BY <3>1 DEF SyncedIsDurable
  <2> QED  BY <2>1 DEF CacheInv, CacheIInv
<1> QED  BY <1>1, CacheInvariant, PTL

\* More entries than blocks held leave one that is not held.
LEMMA SomeUnused ==
    ASSUME CacheIInv, Len(held) < Len(queue)
    PROVE  Unused # {}
<1>1. /\ Len(queue) \in Nat /\ DOMAIN queue = 1..Len(queue)
      /\ held \in Seq(Blocks) /\ Distinct(queue)
  BY Unfold
<1>2. Len(held) \in Nat /\ DOMAIN held = 1..Len(held)
  BY <1>1, LenProperties
<1> SUFFICES ASSUME Unused = {} PROVE FALSE
  OBVIOUS
<1> DEFINE S == 1..Len(queue)
           T == 1..Len(held)
           f == [k \in S |-> CHOOSE i \in T : held[i] = queue[k].block_id]
<1>3. ASSUME NEW k \in S PROVE f[k] \in T /\ held[f[k]] = queue[k].block_id
  <2>1. queue[k].block_id \in ToSet(held)
    BY <1>1 DEF Unused
  <2>2. \E i \in T : held[i] = queue[k].block_id
    BY <1>2, <2>1 DEF ToSet
  <2> QED  BY <2>2
<1>4. /\ IsFiniteSet(S) /\ Cardinality(S) = Len(queue)
      /\ IsFiniteSet(T) /\ Cardinality(T) = Len(held)
  <2>1. \A n \in Nat : IsFiniteSet(1..n) /\ Cardinality(1..n) = n
    <3>1. SUFFICES ASSUME NEW n \in Nat
                   PROVE  IsFiniteSet(1..n) /\ Cardinality(1..n) = n
      OBVIOUS
    <3>2. 1 \in Int /\ n \in Int
      OBVIOUS
    <3>3. /\ IsFiniteSet(1..n)
          /\ Cardinality(1..n) = IF 1 > n THEN 0 ELSE n - 1 + 1
      BY <3>2, FS_Interval, Zenon
    <3> QED  BY <3>3
  <2> QED  BY <1>1, <1>2, <2>1
<1>5. f \in [S -> T]
  BY <1>3
<1> HIDE DEF f, S, T
<1>6. PICK x \in S, y \in S : x # y /\ f[x] = f[y]
  BY <1>4, <1>5, FS_PigeonHole
<1>7. queue[x].block_id = queue[y].block_id
  BY <1>3, <1>6
<1> QED  BY <1>1, <1>6, <1>7 DEF Distinct, S

\* "Run out of BlockCache!" is never reached.
THEOREM CacheNeverRunsOut == Spec => []NeverRunsOut
<1>1. CacheIInv => NeverRunsOut
  <2> SUFFICES ASSUME CacheIInv PROVE NeverRunsOut
    OBVIOUS
  <2>1. Len(queue) <= BLOCK_CACHE_SIZE
    BY DEF CacheIInv, QueueFits
  <2>2. ASSUME Len(queue) = BLOCK_CACHE_SIZE, Len(held) < MaxHeld
        PROVE  Unused # {}
    <3>1. Len(held) \in Nat
      BY Unfold, LenProperties
    <3>2. Len(held) < Len(queue)
      BY <2>2, <3>1, CacheAssumption
    <3> QED  BY <3>2, SomeUnused
  <2> QED  BY <2>1, <2>2 DEF NeverRunsOut
<1> QED  BY <1>1, CacheInvariant, PTL

-----------------------------------------------------------------------------
(* The cache is a disk                                                     *)

\* What is read after a step.
LEMMA ViewReadsNext == View' = Reads(queue', disk')
  BY DEF View, Reads, Cached, BlocksOf, IndexOf, EntryOf

\* What is read, with the facts of the invariant about it.
LEMMA ViewFacts ==
    ASSUME CacheIInv
    PROVE  /\ View \in [Blocks -> Contents]
           /\ \A k \in 1..Len(queue) : View[queue[k].block_id] = queue[k].cache
           /\ \A b \in Blocks \ BlocksOf(queue) : View[b] = disk[b]
  BY Unfold, ReadFacts, ViewReads

LEMMA ModifyWrites ==
    ASSUME CacheIInv, NEW b \in Blocks, NEW c \in Contents, modify(b, c)
    PROVE  DiskSpec!Write(b, c)
<1> DEFINE v == EntryOf(queue, b)
           e == [block_id |-> b, cache |-> c, modified |-> TRUE]
           f == [View EXCEPT ![b] = c]
<1>1. b \in BlocksOf(queue) /\ queue' = [queue EXCEPT ![v] = e]
  BY ModifyKeeps
<1>2. v \in 1..Len(queue) /\ queue[v].block_id = b
  BY <1>1, Unfold DEF EntryOf, BlocksOf
<1>3. e \in Cache /\ e.block_id = b /\ e.cache = c
  BY DEF Cache
<1>4. f \in [Blocks -> Contents] /\ f[b] = c /\ \A x \in Blocks : x # b => f[x] = View[x]
  BY ViewFacts
<1>5. UNCHANGED disk /\ synced' = FALSE
  BY DEF modify
<1> HIDE DEF v, e, f
<1>6. /\ queue' \in Seq(Cache) /\ Len(queue') = Len(queue)
      /\ \A k \in 1..Len(queue) : queue'[k] = IF k = v THEN e ELSE queue[k]
      /\ Distinct(queue') /\ BlocksOf(queue') = BlocksOf(queue)
  BY <1>1, <1>2, <1>3, Unfold, ChangeFacts
<1>7. ASSUME NEW k \in 1..Len(queue') PROVE queue'[k].cache = f[queue'[k].block_id]
  <2>1. k \in 1..Len(queue)
    BY <1>6
  <2>2. CASE k = v
    BY <1>3, <1>4, <1>6, <2>1, <2>2
  <2>3. CASE k # v
    <3>1. queue[k].block_id \in Blocks /\ queue[k].block_id # b
      BY <1>2, <2>1, <2>3, Unfold, EntryFacts DEF Distinct
    <3> QED  BY <1>4, <1>6, <2>1, <2>3, <3>1, ViewFacts
  <2> QED  BY <2>2, <2>3
<1>8. \A x \in Blocks \ BlocksOf(queue') : disk'[x] = f[x]
  BY <1>1, <1>4, <1>5, <1>6, ViewFacts
<1>9. Reads(queue', disk') = f
  BY <1>4, <1>5, <1>6, <1>7, <1>8, Unfold, SameReads
<1> QED  BY <1>5, <1>9, ViewReadsNext DEF DiskSpec!Write, f

\* A read is as before if each entry and each block without one is.
LEMMA SameView ==
    ASSUME CacheIInv, CacheIInv',
           \A k \in 1..Len(queue') : queue'[k].cache = View[queue'[k].block_id],
           \A b \in Blocks \ BlocksOf(queue') : disk'[b] = View[b]
    PROVE  View' = View
<1>1. queue' \in Seq(Cache) /\ disk' \in [Blocks -> Contents] /\ Distinct(queue')
  BY DEF CacheIInv, TypeOK, OneCopy, Distinct
<1>2. Reads(queue', disk') = View
  BY <1>1, ViewFacts, SameReads
<1> QED  BY <1>2, ViewReadsNext

LEMMA LoadReads ==
    ASSUME CacheIInv, NEW b \in Blocks, get_load(b)
    PROVE  View' = View
<1> DEFINE e == new(b)
<1>1. CacheIInv'
  BY LoadKeeps
<1>2. queue' = Append(queue, e) /\ disk' = disk /\ b \notin BlocksOf(queue)
  BY ViewReads DEF get_load
<1>3. e \in Cache /\ e.block_id = b /\ e.cache = disk[b]
  BY NewFacts, Unfold
<1> HIDE DEF e
<1>4. /\ Len(queue') = Len(queue) + 1
      /\ \A k \in 1..Len(queue) : queue'[k] = queue[k]
      /\ queue'[Len(queue) + 1] = e
      /\ BlocksOf(queue') = BlocksOf(queue) \cup {b}
  BY <1>2, <1>3, Unfold, PushFacts
<1>5. ASSUME NEW k \in 1..Len(queue') PROVE queue'[k].cache = View[queue'[k].block_id]
  <2>1. CASE k \in 1..Len(queue)
    BY <1>4, <2>1, ViewFacts
  <2>2. CASE k = Len(queue) + 1
    BY <1>2, <1>3, <1>4, <2>2, ViewFacts
  <2> QED  BY <1>4, <2>1, <2>2, Unfold
<1>6. \A x \in Blocks \ BlocksOf(queue') : disk'[x] = View[x]
  BY <1>2, <1>4, ViewFacts
<1> QED  BY <1>1, <1>5, <1>6, SameView

LEMMA EvictWritesBack ==
    ASSUME CacheIInv, NEW b \in Blocks, get_evict(b)
    PROVE  \E x \in Blocks : DiskSpec!WriteBack(x)
<1>1. CacheIInv' /\ UNCHANGED synced /\ b \notin BlocksOf(queue)
  BY EvictKeeps, ViewReads DEF get_evict
<1>2. PICK v \in 1..Len(queue) :
              /\ queue[v].block_id \notin ToSet(held)
              /\ disk' = sync(queue[v])
              /\ queue' \in Seq(Cache) /\ Len(queue') = Len(queue)
              /\ \A k \in 1..Len(queue') :
                    \/ \E j \in 1..Len(queue) : j # v /\ queue'[k] = queue[j]
                    \/ queue'[k] = new(b)
              /\ Distinct(queue')
              /\ BlocksOf(queue')
                    = (BlocksOf(queue) \ {queue[v].block_id}) \cup {b}
  BY EvictFacts
<1> DEFINE x == queue[v].block_id
<1>3. x \in Blocks /\ x \in BlocksOf(queue) /\ View[x] = queue[v].cache
  BY Unfold, EntryFacts, ViewFacts
<1>4. /\ disk' \in [Blocks -> Contents]
      /\ disk'[x] = View[x]
      /\ \A y \in Blocks : y # x => disk'[y] = disk[y]
  BY <1>2, <1>3, SyncFacts, Unfold
<1>5. disk' = [disk EXCEPT ![x] = View[x]]
  BY <1>4, Unfold
<1>6. ASSUME NEW k \in 1..Len(queue') PROVE queue'[k].cache = View[queue'[k].block_id]
  <2>1. CASE \E j \in 1..Len(queue) : j # v /\ queue'[k] = queue[j]
    BY <2>1, ViewFacts
  <2>2. CASE queue'[k] = new(b)
    <3>1. queue'[k].block_id = b /\ queue'[k].cache = disk[b]
      BY <2>2, NewFacts, Unfold
    <3> QED  BY <1>1, <3>1, ViewFacts
  <2> QED  BY <1>2, <2>1, <2>2
<1>7. ASSUME NEW y \in Blocks \ BlocksOf(queue') PROVE disk'[y] = View[y]
  <2>1. CASE y = x
    BY <1>4, <2>1
  <2>2. CASE y # x
    BY <1>2, <1>4, <2>2, ViewFacts
  <2> QED  BY <2>1, <2>2
<1>8. View' = View
  BY <1>1, <1>6, <1>7, SameView
<1> QED  BY <1>1, <1>3, <1>5, <1>8 DEF DiskSpec!WriteBack

LEMMA SyncNextWritesBack ==
    ASSUME CacheIInv, sync_next
    PROVE  \E x \in Blocks : DiskSpec!WriteBack(x)
<1> DEFINE v == syncing + 1
           x == queue[v].block_id
<1>1. /\ v \in 1..Len(queue) /\ disk' = sync(queue[v])
      /\ Len(queue') = Len(queue)
      /\ \A k \in 1..Len(queue) :
            /\ queue'[k].block_id = queue[k].block_id
            /\ queue'[k].cache = queue[k].cache
      /\ BlocksOf(queue') = BlocksOf(queue)
  BY VisitFacts
<1> HIDE DEF v
<1>2. x \in Blocks /\ x \in BlocksOf(queue) /\ View[x] = queue[v].cache
  BY <1>1, Unfold, EntryFacts, ViewFacts
<1>3. /\ disk' \in [Blocks -> Contents]
      /\ disk'[x] = View[x]
      /\ \A y \in Blocks : y # x => disk'[y] = disk[y]
  BY <1>1, <1>2, SyncFacts, Unfold
<1>4. disk' = [disk EXCEPT ![x] = View[x]]
  BY <1>3, Unfold
<1>5. \A k \in 1..Len(queue') : queue'[k].cache = View[queue'[k].block_id]
  BY <1>1, ViewFacts
<1>6. \A y \in Blocks \ BlocksOf(queue') : disk'[y] = View[y]
  BY <1>1, <1>2, <1>3, ViewFacts
<1>7. View' = View /\ UNCHANGED synced
  BY <1>5, <1>6, SyncNextKeeps, SameView DEF sync_next
<1> QED  BY <1>2, <1>4, <1>7 DEF DiskSpec!WriteBack

\* Once the last entry is visited, the device has everything.
LEMMA SyncReturnSyncs ==
    ASSUME CacheIInv, sync_return
    PROVE  DiskSpec!Sync
<1>1. UNCHANGED <<disk, queue>> /\ synced' = TRUE
  BY DEF sync_return
<1>2. \A k \in 1..Len(queue) : ~queue[k].modified
  BY DEF sync_return, CacheIInv, SyncProgress
<1>3. View = disk
  BY <1>2, Unfold, CleanReads
<1>4. View' = View
  BY <1>1, ViewReads, ViewReadsNext
<1> QED  BY <1>1, <1>3, <1>4 DEF DiskSpec!Sync

LEMMA CrashCrashes ==
    ASSUME CacheIInv, crash
    PROVE  DiskSpec!Crash
<1>1. queue' = <<>> /\ disk' = disk /\ synced' = TRUE /\ CacheIInv'
  BY CrashKeeps DEF crash
<1>2. BlocksOf(queue') = {}
  BY <1>1 DEF BlocksOf
<1>3. Reads(queue', disk') = [b \in Blocks |-> disk[b]]
  BY <1>1, <1>2 DEF Reads
<1>4. [b \in Blocks |-> disk[b]] = disk
  BY Unfold
<1> QED  BY <1>1, <1>3, <1>4, ViewReadsNext DEF DiskSpec!Crash

LEMMA ReadsStutter ==
    ASSUME UNCHANGED <<disk, queue, synced>>
    PROVE  UNCHANGED DiskSpec!vars
<1>1. View' = View
  BY ViewReads, ViewReadsNext
<1> QED  BY <1>1 DEF DiskSpec!vars

\* Through loads, evictions and write-backs a block reads as it was last
\* written, and a crash, at any point, leaves of each block what was written
\* back: the cache implements a disk.
THEOREM CacheIsDisk == Spec => ImplementsDisk
<1>1. Init => DiskSpec!Init
  <2> SUFFICES ASSUME Init PROVE DiskSpec!Init
    OBVIOUS
  <2>1. CacheIInv /\ DOMAIN queue = {} /\ Len(queue) = 0 /\ synced = TRUE
    BY CacheInitially DEF Init
  <2>2. View = disk
    BY <2>1, CleanReads
  <2> QED  BY <2>1, <2>2, Unfold DEF DiskSpec!Init
<1>2. CacheIInv /\ [Next]_vars => [DiskSpec!Next]_DiskSpec!vars
  <2> SUFFICES ASSUME CacheIInv, [Next]_vars
               PROVE  DiskSpec!Next \/ UNCHANGED DiskSpec!vars
    OBVIOUS
  <2>1. ASSUME NEW b \in Blocks, NEW c \in Contents, modify(b, c)
        PROVE  DiskSpec!Next
    BY <2>1, ModifyWrites DEF DiskSpec!Next
  <2>2. ASSUME NEW b \in Blocks, get_hit(b) PROVE UNCHANGED DiskSpec!vars
    BY <2>2, ReadsStutter DEF get_hit
  <2>3. ASSUME NEW b \in Blocks, get_load(b) PROVE UNCHANGED DiskSpec!vars
    BY <2>3, LoadReads DEF get_load, DiskSpec!vars
  <2>4. ASSUME NEW b \in Blocks, get_evict(b) PROVE DiskSpec!Next
    BY <2>4, EvictWritesBack DEF DiskSpec!Next
  <2>5. CASE release
    BY <2>5, ReadsStutter DEF release
  <2>6. CASE sync_all
    BY <2>6, ReadsStutter DEF sync_all
  <2>7. CASE sync_next
    BY <2>7, SyncNextWritesBack DEF DiskSpec!Next
  <2>8. CASE sync_return
    BY <2>8, SyncReturnSyncs DEF DiskSpec!Next
  <2>9. CASE crash
    BY <2>9, CrashCrashes DEF DiskSpec!Next
  <2>10. CASE UNCHANGED vars
    BY <2>10, ReadsStutter DEF vars
  <2> QED  BY <2>1, <2>2, <2>3, <2>4, <2>5, <2>6, <2>7, <2>8, <2>9, <2>10 DEF Next
<1> QED  BY <1>1, <1>2, CacheInvariant, PTL DEF Spec, ImplementsDisk, DiskSpec!Spec
=============================================================================
