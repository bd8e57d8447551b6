---------------------------- MODULE MemoryProofs ----------------------------
(***************************************************************************)
(* Proofs about physical frames: whatever the size of memory, of pages, of *)
(* page tables and of stacks, and whatever the programs, every frame that  *)
(* is given out has one owner.                                             *)
(*                                                                         *)
(* The argument follows the loops of the code.  Holds(x, O) says of a      *)
(* machine and the space that is being changed that the frames of the      *)
(* space, and those in O, are the ones that are given out, each once; it   *)
(* is kept by every operation of a page table and of an area, whatever the *)
(* page tables contain.                                                    *)
(***************************************************************************)
EXTENDS MemorySet, QueueLemmas

AreaSet == [start : Int, end : Int, map_type : {"Identical", "Framed"},
            map_perm : Nat, data_frames : Seq(Nat)]
SpaceSet == [root_ppn : Nat, frames : Seq(Nat), areas : Seq(AreaSet)]

\* A machine, whatever is in its memory.
IsMachine(a) ==
    /\ a = [current |-> a.current, recycled |-> a.recycled,
            frame |-> a.frame, mem |-> a.mem, enough |-> a.enough,
            sound |-> a.sound]
    /\ a.current \in ekernel..MEMORY_END
    /\ a.recycled \in Seq(Nat)
    /\ a.frame \in Nat
    /\ a.enough \in BOOLEAN

\* The frames in H are given out, unless there were not enough.
Gave(a, H) ==
    a.enough =>
        /\ IsInjective(a.recycled)
        /\ Range(a.recycled) \subseteq ekernel..(a.current - 1)
        /\ H = (ekernel..(a.current - 1)) \ Range(a.recycled)

\* Those of `fs`, each once, and those of O.
Holding(a, fs, O) ==
    /\ IsMachine(a)
    /\ fs \in Seq(Nat)
    /\ Gave(a, Range(fs) \cup O)
    /\ a.enough => IsInjective(fs) /\ Range(fs) \cap O = {}

-----------------------------------------------------------------------------
(* The allocator                                                           *)

\* alloc gives a frame that nobody has.
LEMMA AllocFacts ==
    ASSUME NEW a, NEW H, IsMachine(a), Gave(a, H)
    PROVE  LET f == frame_alloc(a)
           IN  /\ IsMachine(f)
               /\ f.enough => a.enough /\ f.frame \notin H
               /\ Gave(f, H \cup {f.frame})
<1> DEFINE f == frame_alloc(a)
<1> SUFFICES /\ IsMachine(f)
             /\ f.enough => a.enough /\ f.frame \notin H
             /\ Gave(f, H \cup {f.frame})
  OBVIOUS
<1>0. /\ ekernel \in Nat /\ MEMORY_END \in Nat /\ a.current \in Int
      /\ ekernel <= a.current /\ a.current <= MEMORY_END
  BY PageTableAssumption DEF IsMachine
<1>1. CASE a.recycled # <<>>
  <2>1. /\ f.current = a.current /\ f.recycled = Front(a.recycled)
        /\ f.frame = Last(a.recycled) /\ f.enough = a.enough
        /\ f = [current |-> f.current, recycled |-> f.recycled,
                frame |-> f.frame, mem |-> f.mem, enough |-> f.enough,
                sound |-> f.sound]
    BY <1>1 DEF IsMachine, frame_alloc
  <2>2. Front(a.recycled) \in Seq(Nat) /\ Last(a.recycled) \in Nat
    BY <1>1, FrontTyped DEF IsMachine
  <2>3. IsMachine(f)
    BY <2>1, <2>2 DEF IsMachine
  <2>4. ASSUME a.enough
        PROVE  f.frame \notin H /\ Gave(f, H \cup {f.frame})
    <3>1. /\ Last(a.recycled) \in Range(a.recycled)
          /\ Range(Front(a.recycled)) = Range(a.recycled) \ {Last(a.recycled)}
          /\ IsInjective(Front(a.recycled))
      BY <1>1, <2>4, FrontFacts DEF IsMachine, Gave
    <3> HIDE DEF f
    <3> QED  BY <2>1, <2>4, <3>1 DEF Gave
  <2> HIDE DEF f
  <2> QED  BY <2>1, <2>3, <2>4 DEF Gave
<1>2. CASE a.recycled = <<>> /\ a.current = MEMORY_END
  <2>1. /\ f.current = a.current /\ f.recycled = a.recycled
        /\ f.frame = a.frame /\ f.enough = FALSE
        /\ f = [current |-> f.current, recycled |-> f.recycled,
                frame |-> f.frame, mem |-> f.mem, enough |-> f.enough,
                sound |-> f.sound]
    BY <1>2 DEF IsMachine, frame_alloc
  <2> HIDE DEF f
  <2> QED  BY <2>1 DEF IsMachine, Gave
<1>3. CASE a.recycled = <<>> /\ a.current # MEMORY_END
  <2>1. /\ f.current = a.current + 1 /\ f.recycled = a.recycled
        /\ f.frame = a.current /\ f.enough = a.enough
        /\ f = [current |-> f.current, recycled |-> f.recycled,
                frame |-> f.frame, mem |-> f.mem, enough |-> f.enough,
                sound |-> f.sound]
    BY <1>3 DEF IsMachine, frame_alloc
  <2>2. f.current \in ekernel..MEMORY_END /\ f.frame \in Nat
    BY <1>0, <1>3, <2>1
  <2> HIDE DEF f
  <2>3. IsMachine(f)
    BY <2>1, <2>2 DEF IsMachine
  <2>4. ASSUME a.enough
        PROVE  f.frame \notin H /\ Gave(f, H \cup {f.frame})
    <3>1. Range(a.recycled) = {}
      BY <1>3 DEF Range
    <3>2. H = ekernel..(a.current - 1)
      BY <2>4, <3>1 DEF Gave
    <3>3. ekernel..(f.current - 1) = H \cup {f.frame} /\ f.frame \notin H
      BY <1>0, <2>1, <3>2
    <3> QED  BY <2>1, <2>4, <3>1, <3>3 DEF Gave
  <2> QED  BY <2>1, <2>3, <2>4 DEF Gave
<1> QED  BY <1>1, <1>2, <1>3

\* A frame for the one who holds `fs`.
LEMMA AllocToHolder ==
    ASSUME NEW a, NEW fs, NEW O, Holding(a, fs, O)
    PROVE  /\ Holding(frame_alloc(a), Append(fs, frame_alloc(a).frame), O)
           /\ frame_alloc(a).enough => a.enough
<1> DEFINE f == frame_alloc(a)
<1>1. /\ IsMachine(f)
      /\ f.enough => a.enough /\ f.frame \notin Range(fs) \cup O
      /\ Gave(f, (Range(fs) \cup O) \cup {f.frame})
  BY AllocFacts DEF Holding
<1>2. f.frame \in Nat /\ fs \in Seq(Nat)
  BY <1>1 DEF IsMachine, Holding
<1> HIDE DEF f
<1>3. /\ Append(fs, f.frame) \in Seq(Nat)
      /\ Range(Append(fs, f.frame)) = Range(fs) \cup {f.frame}
      /\ IsInjective(fs) /\ f.frame \notin Range(fs)
            => IsInjective(Append(fs, f.frame))
  BY <1>2, AppendFacts
<1>4. (Range(fs) \cup O) \cup {f.frame} = (Range(fs) \cup {f.frame}) \cup O
  OBVIOUS
<1>5. Gave(f, Range(Append(fs, f.frame)) \cup O)
  BY <1>1, <1>3, <1>4
<1>6. f.enough => /\ IsInjective(Append(fs, f.frame))
                  /\ Range(Append(fs, f.frame)) \cap O = {}
  BY <1>1, <1>3 DEF Holding
<1>7. Holding(f, Append(fs, f.frame), O)
  BY <1>1, <1>3, <1>5, <1>6 DEF Holding
<1> QED  BY <1>1, <1>7 DEF f

\* A frame for another one.
LEMMA AllocToOther ==
    ASSUME NEW a, NEW fs, NEW O, Holding(a, fs, O)
    PROVE  LET f == frame_alloc(a)
           IN  /\ Holding(f, fs, O \cup {f.frame})
               /\ f.enough => a.enough /\ f.frame \notin Range(fs) \cup O
               /\ f.frame \in Nat
<1> DEFINE f == frame_alloc(a)
<1>1. /\ IsMachine(f)
      /\ f.enough => a.enough /\ f.frame \notin Range(fs) \cup O
      /\ Gave(f, (Range(fs) \cup O) \cup {f.frame})
  BY AllocFacts DEF Holding
<1> HIDE DEF f
<1>2. (Range(fs) \cup O) \cup {f.frame} = Range(fs) \cup (O \cup {f.frame})
  OBVIOUS
<1>3. Holding(f, fs, O \cup {f.frame})
  BY <1>1, <1>2 DEF Holding
<1> QED  BY <1>1, <1>3 DEF f, IsMachine

\* dealloc takes back the frames that its caller had.
LEMMA DeallocFacts ==
    ASSUME NEW a, NEW H, IsMachine(a), Gave(a, H), NEW fs \in Seq(Nat),
           a.enough => IsInjective(fs) /\ Range(fs) \subseteq H
    PROVE  LET d == frame_dealloc(a, fs)
           IN  /\ IsMachine(d)
               /\ d.enough = a.enough
               /\ Gave(d, H \ Range(fs))
<1> DEFINE r == a.recycled \o fs
           b == /\ a.sound
                /\ IsInjective(a.recycled \o fs)
                /\ \A i \in DOMAIN fs : fs[i] < a.current
           d == [a EXCEPT !.recycled = r, !.sound = b]
<1>0. frame_dealloc(a, fs) = d
  BY DEF frame_dealloc
<1> SUFFICES IsMachine(d) /\ d.enough = a.enough /\ Gave(d, H \ Range(fs))
  BY <1>0
<1> HIDE DEF b, r
<1>a. d = [current |-> a.current, recycled |-> r, frame |-> a.frame,
           mem |-> a.mem, enough |-> a.enough, sound |-> b]
  <2> DEFINE u == [current |-> a.current, recycled |-> r, frame |-> a.frame,
                   mem |-> a.mem, enough |-> a.enough, sound |-> a.sound]
  <2>1. [a EXCEPT !.recycled = r] = u
    BY DEF IsMachine
  <2>2. d = [u EXCEPT !.sound = b]
    BY <2>1
  <2> QED  BY <2>2
<1> HIDE DEF d
<1>1. /\ d.current = a.current /\ d.recycled = a.recycled \o fs
      /\ d.frame = a.frame /\ d.enough = a.enough
      /\ d = [current |-> d.current, recycled |-> d.recycled,
              frame |-> d.frame, mem |-> d.mem, enough |-> d.enough,
              sound |-> d.sound]
  BY <1>a DEF r
<1>2. /\ a.recycled \o fs \in Seq(Nat)
      /\ Range(a.recycled \o fs) = Range(a.recycled) \cup Range(fs)
      /\ IsInjective(a.recycled) /\ IsInjective(fs)
            /\ Range(a.recycled) \cap Range(fs) = {}
            => IsInjective(a.recycled \o fs)
  BY ConcatFacts DEF IsMachine
<1> HIDE DEF d
<1>3. IsMachine(d)
  BY <1>1, <1>2 DEF IsMachine
<1>4. ASSUME a.enough PROVE Gave(d, H \ Range(fs))
  <2>1. Range(a.recycled) \cap Range(fs) = {}
    BY <1>4 DEF Gave
  <2>2. IsInjective(d.recycled)
    BY <1>1, <1>2, <1>4, <2>1 DEF Gave
  <2> QED  BY <1>1, <1>2, <1>4, <2>2 DEF Gave
<1> QED  BY <1>1, <1>3, <1>4 DEF Gave

\* Steps that change nothing of a machine but its memory.
SameFrames(d, a) ==
    /\ IsMachine(d)
    /\ d.current = a.current
    /\ d.recycled = a.recycled
    /\ d.frame = a.frame
    /\ d.enough = a.enough

\* Such a step keeps the ledger.
LEMMA SameHolding ==
    ASSUME NEW a, NEW d, NEW fs, NEW O, Holding(a, fs, O), SameFrames(d, a)
    PROVE  Holding(d, fs, O)
  BY DEF Holding, SameFrames, Gave

\* A store to memory, and an assertion.
LEMMA StoreFacts ==
    ASSUME NEW a, IsMachine(a), NEW z, NEW b
    PROVE  /\ SameFrames([a EXCEPT !.mem = z], a)
           /\ SameFrames([a EXCEPT !.mem = z, !.sound = b], a)
<1> DEFINE u == [current |-> a.current, recycled |-> a.recycled,
                 frame |-> a.frame, mem |-> z, enough |-> a.enough,
                 sound |-> a.sound]
           v == [current |-> a.current, recycled |-> a.recycled,
                 frame |-> a.frame, mem |-> z, enough |-> a.enough,
                 sound |-> b]
<1>1. [a EXCEPT !.mem = z] = u
  BY DEF IsMachine
<1>2. [u EXCEPT !.sound = b] = v
  OBVIOUS
<1>3. [a EXCEPT !.mem = z, !.sound = b] = v
  BY <1>1, <1>2
<1>4. SameFrames(u, a)
  BY DEF SameFrames, IsMachine
<1>5. SameFrames(v, a)
  BY DEF SameFrames, IsMachine
<1> QED  BY <1>1, <1>3, <1>4, <1>5

\* A step to the next step.
LEMMA SameTransitive ==
    ASSUME NEW a, NEW b, NEW c, SameFrames(b, a), SameFrames(c, b)
    PROVE  SameFrames(c, a)
  BY DEF SameFrames

-----------------------------------------------------------------------------
(* Page tables                                                             *)

\* The levels of a page table above the last.
LEMMA FrontIndexes ==
    ASSUME NEW vpn
    PROVE  DOMAIN Front(indexes(vpn)) = 1..(LEVELS - 1) /\ LEVELS - 1 \in Nat
<1> DEFINE e(i) == (vpn \div FANOUT ^ (LEVELS - i)) % FANOUT
           s == [i \in 1..LEVELS |-> e(i)]
           S == {e(i) : i \in 1..LEVELS}
<1>1. LEVELS \in Nat /\ LEVELS # 0
  BY PageTableAssumption
<1>2. indexes(vpn) = s
  BY DEF indexes
<1> HIDE DEF e
<1>3. s \in Seq(S) /\ Len(s) = LEVELS
  <2>1. \A i \in 1..LEVELS : e(i) \in S
    OBVIOUS
  <2> HIDE DEF S
  <2> QED  BY <1>1, <2>1, IsASeq
<1> HIDE DEF s, S
<1>4. DOMAIN SubSeq(s, 1, LEVELS - 1) = 1..(LEVELS - 1)
  BY <1>1, <1>3
<1> QED  BY <1>1, <1>2, <1>3, <1>4 DEF Front

\* The walk down the levels, for the frames of the other owners and whether
\* there were enough at the start.
WalkInv(p, w) ==
    /\ w = [m |-> w.m, frames |-> w.frames, table |-> w.table]
    /\ Holding(w.m, w.frames, p.others)
    /\ w.m.enough => p.enough

Walks == INSTANCE QueueLemmas
    WITH FoldOp <- LAMBDA p, w, idx : Descend(w, idx), FoldInv <- WalkInv

\* One level: the frame of a new table belongs to the page table.
LEMMA DescendKeeps ==
    ASSUME NEW p, NEW w, WalkInv(p, w), NEW idx
    PROVE  WalkInv(p, Descend(w, idx))
<1>1. CASE is_valid(w.m.mem[w.table][idx])
  <2> DEFINE v == Descend(w, idx)
  <2>1. v = [w EXCEPT !.table = ppn_of(w.m.mem[w.table][idx])]
    BY <1>1 DEF Descend
  <2>2. /\ v.m = w.m /\ v.frames = w.frames
        /\ v = [m |-> v.m, frames |-> v.frames, table |-> v.table]
    BY <2>1 DEF WalkInv
  <2> HIDE DEF v
  <2> QED  BY <2>2 DEF WalkInv, v
<1>2. CASE ~is_valid(w.m.mem[w.table][idx])
  <2> DEFINE v == Descend(w, idx)
             f == frame_alloc(w.m)
             z == [f.mem EXCEPT ![w.table][idx] = PTE(f.frame, V)]
  <2>1. v = AddTable(w, idx, f)
    BY <1>2 DEF Descend
  <2>2. /\ Holding(f, Append(w.frames, f.frame), p.others)
        /\ f.enough => w.m.enough
    BY AllocToHolder DEF WalkInv
  <2> HIDE DEF f
  <2>3. /\ v.m = [f EXCEPT !.mem = z] /\ v.frames = Append(w.frames, f.frame)
        /\ v = [m |-> v.m, frames |-> v.frames, table |-> v.table]
    <3>1. [f EXCEPT !.mem[w.table][idx] = PTE(f.frame, V)] = [f EXCEPT !.mem = z]
      OBVIOUS
    <3> HIDE DEF z
    <3> QED  BY <2>1, <3>1 DEF AddTable
  <2> HIDE DEF v, z
  <2>4. SameFrames(v.m, f)
    BY <2>2, <2>3, StoreFacts DEF Holding
  <2>5. Holding(v.m, v.frames, p.others)
    BY <2>2, <2>3, <2>4, SameHolding
  <2>6. v.m.enough => p.enough
    BY <2>2, <2>4 DEF SameFrames, WalkInv
  <2> QED  BY <2>3, <2>5, <2>6 DEF WalkInv, v
<1> QED  BY <1>1, <1>2

\* find_pte_create gives the frames of new tables to the page table.
LEMMA FindFacts ==
    ASSUME NEW a, NEW s, NEW O, NEW vpn, Holding(a, s.frames, O)
    PROVE  LET w == find_pte_create(a, s, vpn)
           IN  Holding(w.m, w.frames, O) /\ (w.m.enough => a.enough)
<1> DEFINE p == [others |-> O, enough |-> a.enough]
           base == [m |-> a, frames |-> s.frames, table |-> s.root_ppn]
           seq == Front(indexes(vpn))
           n == LEVELS - 1
<1>1. n \in Nat /\ DOMAIN seq = 1..n
  BY FrontIndexes
<1>2. WalkInv(p, base)
  BY DEF WalkInv
<1>3. \A i \in 1..n : \A w : WalkInv(p, w) => WalkInv(p, Descend(w, seq[i]))
  BY DescendKeeps
<1>4. find_pte_create(a, s, vpn) = Walks!Fold(p, base, seq)
  BY DEF find_pte_create, Walks!Fold, Walks!FoldLeft, Walks!MapThenFoldSet,
         Walks!Max, FoldLeft, MapThenFoldSet, Max
<1> HIDE DEF p, base, seq, n
<1>5. WalkInv(p, Walks!Fold(p, base, seq))
  BY <1>1, <1>2, <1>3, Walks!FoldKeeps
<1> QED  BY <1>4, <1>5 DEF WalkInv, p

-----------------------------------------------------------------------------
(* Address spaces                                                          *)

\* The frames that areas have.
AreaOwned(areas) ==
    {f \in Nat : \E i \in DOMAIN areas : f \in Range(areas[i].data_frames)}

\* Each of them once.
AreasClean(areas) ==
    \A i \in DOMAIN areas :
        /\ IsInjective(areas[i].data_frames)
        /\ \A j \in DOMAIN areas :
              i # j => Range(areas[i].data_frames)
                          \cap Range(areas[j].data_frames) = {}

\* The frames of the space of x, and those in O, are given out, each once.
Holds(x, O) ==
    /\ x = [m |-> x.m, s |-> x.s]
    /\ x.s \in SpaceSet
    /\ Holding(x.m, x.s.frames, AreaOwned(x.s.areas) \cup O)
    /\ x.m.enough => /\ AreasClean(x.s.areas)
                     /\ AreaOwned(x.s.areas) \cap O = {}

\* A step that changes only memory.
LEMMA SameHolds ==
    ASSUME NEW x, NEW y, NEW O, Holds(x, O), y = [m |-> y.m, s |-> y.s],
           y.s = x.s, SameFrames(y.m, x.m)
    PROVE  Holds(y, O)
<1>1. Holding(y.m, y.s.frames, AreaOwned(y.s.areas) \cup O)
  BY SameHolding DEF Holds
<1> QED  BY <1>1 DEF Holds, SameFrames

\* map: new tables are frames of the space.
LEMMA MapFacts ==
    ASSUME NEW x, NEW O, Holds(x, O), NEW vpn, NEW ppn, NEW flags
    PROVE  LET y == map(x, vpn, ppn, flags)
           IN  /\ Holds(y, O)
               /\ y.s.areas = x.s.areas
               /\ y.m.enough => x.m.enough
<1> DEFINE w == find_pte_create(x.m, x.s, vpn)
           idx == Last(indexes(vpn))
           pte == PTE(ppn, flags + V)
           z == [w.m.mem EXCEPT ![w.table][idx] = pte]
           b == w.m.sound /\ ~is_valid(w.m.mem[w.table][idx])
           y == map(x, vpn, ppn, flags)
           P == AreaOwned(x.s.areas) \cup O
<1> SUFFICES Holds(y, O) /\ y.s.areas = x.s.areas /\ (y.m.enough => x.m.enough)
  OBVIOUS
<1>1. Holding(w.m, w.frames, P) /\ (w.m.enough => x.m.enough)
  BY FindFacts DEF Holds
<1> HIDE DEF w, idx, pte
<1>2. y = [m |-> [w.m EXCEPT !.mem = z, !.sound = b],
           s |-> [x.s EXCEPT !.frames = w.frames]]
  <2>1. [w.m EXCEPT !.mem[w.table][idx] = pte] = [w.m EXCEPT !.mem = z]
    OBVIOUS
  <2> HIDE DEF z
  <2>2. y = SetEntry(x, w, idx, pte)
    BY DEF map, w, idx, pte
  <2> QED  BY <2>1, <2>2 DEF SetEntry
<1> HIDE DEF z, b, y
<1>3. SameFrames(y.m, w.m)
  <2>1. y.m = [w.m EXCEPT !.mem = z, !.sound = b]
    BY <1>2
  <2>2. IsMachine(w.m)
    BY <1>1 DEF Holding
  <2>3. SameFrames([w.m EXCEPT !.mem = z, !.sound = b], w.m)
    BY ONLY <2>2, StoreFacts
  <2> QED  BY <2>1, <2>3
<1>4. /\ y = [m |-> y.m, s |-> y.s] /\ y.s \in SpaceSet
      /\ y.s.frames = w.frames /\ y.s.areas = x.s.areas
  <2>1. w.frames \in Seq(Nat)
    BY <1>1 DEF Holding
  <2>2. y.s = [x.s EXCEPT !.frames = w.frames] /\ y = [m |-> y.m, s |-> y.s]
    BY <1>2
  <2> QED  BY <2>1, <2>2 DEF Holds, SpaceSet
<1>5. Holding(y.m, y.s.frames, AreaOwned(y.s.areas) \cup O)
  BY <1>1, <1>3, <1>4, SameHolding
<1>6. y.m.enough => x.m.enough
  BY <1>1, <1>3 DEF SameFrames
<1> QED  BY <1>4, <1>5, <1>6 DEF Holds

\* The pages of an area are numbered from one.
LEMMA RangeDomain ==
    ASSUME NEW k \in Int
    PROVE  \E n \in Nat : 1..k = 1..n
<1>1. CASE k \in Nat
  BY <1>1
<1>2. CASE k \notin Nat
  <2>1. 1..k = 1..0
    BY <1>2
  <2> QED  BY <2>1
<1> QED  BY <1>1, <1>2

\* The loop of MapArea::map, for the area and the others.
MapInv(p, y) ==
    /\ y = [x |-> y.x, data_frames |-> y.data_frames]
    /\ Holds(y.x, p.others \cup Range(y.data_frames))
    /\ y.x.s.areas = p.areas
    /\ y.data_frames \in Seq(Nat)
    /\ y.x.m.enough => /\ p.enough
                       /\ IsInjective(y.data_frames)
                       /\ Range(y.data_frames) \cap p.others = {}

Maps == INSTANCE QueueLemmas
    WITH FoldOp <- LAMBDA p, y, vpn : map_one(y, vpn, p.area),
         FoldInv <- MapInv

\* One page: a frame for it, and the frames of new tables.
LEMMA MapOneKeeps ==
    ASSUME NEW p, NEW y, MapInv(p, y), NEW vpn
    PROVE  MapInv(p, map_one(y, vpn, p.area))
<1> DEFINE r == map_one(y, vpn, p.area)
           Q == p.others \cup Range(y.data_frames)
<1>1. CASE p.area.map_type = "Identical"
  <2> DEFINE g == map(y.x, vpn, vpn, p.area.map_perm)
  <2>1. Holds(g, Q) /\ g.s.areas = y.x.s.areas /\ (g.m.enough => y.x.m.enough)
    BY MapFacts DEF MapInv
  <2>2. r = [y EXCEPT !.x = g]
    BY <1>1 DEF map_one
  <2> HIDE DEF g, r
  <2>3. /\ r = [x |-> r.x, data_frames |-> r.data_frames]
        /\ r.x = g /\ r.data_frames = y.data_frames
    BY <2>2 DEF MapInv
  <2> QED  BY <2>1, <2>3 DEF MapInv, r
<1>2. CASE p.area.map_type # "Identical"
  <2> DEFINE f == frame_alloc(y.x.m)
             u == [y.x EXCEPT !.m = f]
             g == map(u, vpn, f.frame, p.area.map_perm)
             P == AreaOwned(y.x.s.areas) \cup Q
  <2>1. r = [x |-> g, data_frames |-> Append(y.data_frames, f.frame)]
    BY <1>2 DEF map_one, MapFrame
  <2>2. /\ Holding(f, y.x.s.frames, P \cup {f.frame})
        /\ f.enough => y.x.m.enough /\ f.frame \notin Range(y.x.s.frames) \cup P
        /\ f.frame \in Nat
    BY AllocToOther DEF MapInv, Holds
  <2> HIDE DEF f
  <2>3. u = [m |-> f, s |-> y.x.s]
    BY DEF MapInv, Holds
  <2>4. /\ Append(y.data_frames, f.frame) \in Seq(Nat)
        /\ Range(Append(y.data_frames, f.frame))
              = Range(y.data_frames) \cup {f.frame}
        /\ IsInjective(y.data_frames) /\ f.frame \notin Range(y.data_frames)
              => IsInjective(Append(y.data_frames, f.frame))
    BY <2>2, AppendFacts DEF MapInv
  <2> DEFINE Q2 == p.others \cup Range(Append(y.data_frames, f.frame))
  <2>5. AreaOwned(y.x.s.areas) \cup Q2 = P \cup {f.frame}
    BY <2>4
  <2>6. Holds(u, Q2)
    <3>1. u.m = f /\ u.s = y.x.s /\ u = [m |-> u.m, s |-> u.s]
      BY <2>3
    <3> HIDE DEF u
    <3>2. Holding(u.m, u.s.frames, AreaOwned(u.s.areas) \cup Q2)
      BY <2>2, <2>5, <3>1
    <3>3. u.m.enough => AreasClean(u.s.areas) /\ AreaOwned(u.s.areas) \cap Q = {}
      BY <2>2, <3>1 DEF MapInv, Holds
    <3>4. u.m.enough => f.frame \notin AreaOwned(u.s.areas)
      BY <2>2, <3>1
    <3>5. u.m.enough => AreaOwned(u.s.areas) \cap Q2 = {}
      BY <2>4, <3>3, <3>4
    <3> HIDE DEF Q2
    <3> QED  BY <3>1, <3>2, <3>3, <3>5 DEF MapInv, Holds
  <2> HIDE DEF u
  <2>7. Holds(g, Q2) /\ g.s.areas = u.s.areas /\ (g.m.enough => u.m.enough)
    BY <2>6, MapFacts
  <2> HIDE DEF g, r
  <2>8. /\ r = [x |-> r.x, data_frames |-> r.data_frames]
        /\ r.x = g /\ r.data_frames = Append(y.data_frames, f.frame)
    BY <2>1
  <2>9. g.m.enough => y.x.m.enough /\ f.frame \notin P
    BY <2>2, <2>3, <2>7
  <2>10. g.m.enough => /\ p.enough
                       /\ IsInjective(Append(y.data_frames, f.frame))
                       /\ Range(Append(y.data_frames, f.frame))
                             \cap p.others = {}
    BY <2>4, <2>9 DEF MapInv
  <2>11. g.s.areas = p.areas
    BY <2>3, <2>7 DEF MapInv
  <2> QED  BY <2>4, <2>7, <2>8, <2>10, <2>11 DEF MapInv, r
<1> QED  BY <1>1, <1>2

\* MapArea::map: the frames of the area, and those of new tables.
LEMMA MapAreaFacts ==
    ASSUME NEW x, NEW O, Holds(x, O), NEW area \in AreaSet
    PROVE  LET y == map_area(x, area)
           IN  /\ Holds(y.x, O \cup Range(y.data_frames))
               /\ y.x.s.areas = x.s.areas
               /\ y.data_frames \in Seq(Nat)
               /\ y.x.m.enough => /\ x.m.enough
                                  /\ IsInjective(y.data_frames)
                                  /\ Range(y.data_frames) \cap O = {}
<1> DEFINE p == [others |-> O, areas |-> x.s.areas, enough |-> x.m.enough,
                 area |-> area]
           base == [x |-> x, data_frames |-> <<>>]
           seq == VPNRange(area.start, area.end)
<1>1. area.end - area.start \in Int
  BY DEF AreaSet
<1>2. PICK n \in Nat : 1..(area.end - area.start) = 1..n
  BY <1>1, RangeDomain
<1>3. DOMAIN seq = 1..n
  BY <1>2 DEF VPNRange
<1>4. MapInv(p, base)
  <2>1. Range(<<>>) = {} /\ <<>> \in Seq(Nat) /\ IsInjective(<<>>)
    BY DEF Range, IsInjective
  <2>2. O \cup Range(<<>>) = O
    BY <2>1
  <2> QED  BY <2>1, <2>2 DEF MapInv
<1>5. \A i \in 1..n : \A y :
         MapInv(p, y) => MapInv(p, map_one(y, seq[i], p.area))
  BY MapOneKeeps
<1>6. map_area(x, area) = Maps!Fold(p, base, seq)
  <2>1. p.area = area
    OBVIOUS
  <2> HIDE DEF p
  <2> QED  BY <2>1 DEF map_area, Maps!Fold, Maps!FoldLeft,
             Maps!MapThenFoldSet, Maps!Max, FoldLeft, MapThenFoldSet, Max
<1> HIDE DEF p, base, seq
<1>7. MapInv(p, Maps!Fold(p, base, seq))
  BY <1>3, <1>4, <1>5, Maps!FoldKeeps
<1> QED  BY <1>6, <1>7 DEF MapInv, p

\* Loops that only write to memory.
KeepInv(p, y) ==
    /\ y = [m |-> y.m, s |-> y.s]
    /\ y.s = p.x.s
    /\ SameFrames(y.m, p.x.m)

CopyOne(p, y, i) ==
    [y EXCEPT !.m.mem[ppn_of(translate(y.m.mem, y.s.root_ppn,
                                       p.start + i - 1))][0] = p.data[i]]

Copies == INSTANCE QueueLemmas WITH FoldOp <- CopyOne, FoldInv <- KeepInv
Unmaps == INSTANCE QueueLemmas
    WITH FoldOp <- LAMBDA p, y, vpn : unmap(y, vpn), FoldInv <- KeepInv

\* copy_data writes to memory only.
LEMMA CopyFacts ==
    ASSUME NEW x, x = [m |-> x.m, s |-> x.s], IsMachine(x.m),
           NEW area, NEW data, NEW n \in Nat, DOMAIN data = 1..n
    PROVE  LET y == copy_data(x, area, data)
           IN  /\ y = [m |-> y.m, s |-> y.s]
               /\ y.s = x.s
               /\ SameFrames(y.m, x.m)
<1> DEFINE p == [x |-> x, start |-> area.start, data |-> data]
           seq == [i \in DOMAIN data |-> i]
<1>1. DOMAIN seq = 1..n
  OBVIOUS
<1>2. KeepInv(p, x)
  BY DEF KeepInv, SameFrames
<1>3. ASSUME NEW y, KeepInv(p, y), NEW i PROVE KeepInv(p, CopyOne(p, y, i))
  <2> DEFINE r == CopyOne(p, y, i)
             t == ppn_of(translate(y.m.mem, y.s.root_ppn, p.start + i - 1))
             z == [y.m.mem EXCEPT ![t][0] = p.data[i]]
  <2>1. r = [y EXCEPT !.m = [y.m EXCEPT !.mem = z]]
    BY DEF CopyOne
  <2> HIDE DEF z, p, t
  <2>2. /\ r = [m |-> r.m, s |-> r.s] /\ r.s = y.s
        /\ r.m = [y.m EXCEPT !.mem = z]
    BY <1>3, <2>1 DEF KeepInv
  <2> HIDE DEF r
  <2>3. SameFrames(r.m, y.m)
    <3>1. IsMachine(y.m)
      BY <1>3 DEF KeepInv, SameFrames
    <3>2. SameFrames([y.m EXCEPT !.mem = z], y.m)
      BY ONLY ZenonT(60), <3>1, StoreFacts
    <3> QED  BY <2>2, <3>2
  <2> QED  BY <1>3, <2>2, <2>3, SameTransitive DEF KeepInv, r
<1>4. copy_data(x, area, data) = Copies!Fold(p, x, seq)
  BY DEF copy_data, CopyOne, Copies!Fold, Copies!FoldLeft,
         Copies!MapThenFoldSet, Copies!Max, FoldLeftDomain, FoldLeft,
         MapThenFoldSet, Max
<1> HIDE DEF p, seq
<1>5. KeepInv(p, Copies!Fold(p, x, seq))
  BY <1>1, <1>2, <1>3, Copies!FoldKeeps
<1> QED  BY <1>4, <1>5 DEF KeepInv, p

\* unmap writes to memory only.
LEMMA UnmappedFacts ==
    ASSUME NEW x, x = [m |-> x.m, s |-> x.s], IsMachine(x.m),
           NEW area \in AreaSet
    PROVE  SameFrames(Unmapped(x, area).m, x.m)
<1> DEFINE p == [x |-> x]
           seq == VPNRange(area.start, area.end)
<1>1. area.end - area.start \in Int
  BY DEF AreaSet
<1>2. PICK n \in Nat : 1..(area.end - area.start) = 1..n
  BY <1>1, RangeDomain
<1>3. DOMAIN seq = 1..n
  BY <1>2 DEF VPNRange
<1>4. KeepInv(p, x)
  BY DEF KeepInv, SameFrames
<1>5. ASSUME NEW y, KeepInv(p, y), NEW vpn PROVE KeepInv(p, unmap(y, vpn))
  <2> DEFINE r == unmap(y, vpn)
             table == find_pte(y.m.mem, y.s.root_ppn, vpn)
             idx == Last(indexes(vpn))
             z == [y.m.mem EXCEPT ![table][idx] = 0]
             b == y.m.sound /\ is_valid(y.m.mem[table][idx])
  <2>1. r = ClearEntry(y, table, idx)
    BY DEF unmap
  <2> HIDE DEF table, idx, p, r
  <2>2. [y.m EXCEPT !.mem[table][idx] = 0] = [y.m EXCEPT !.mem = z]
    OBVIOUS
  <2> DEFINE u == [y.m EXCEPT !.mem = z]
             v == [u EXCEPT !.sound = b]
  <2>3. SameFrames(u, y.m)
    BY ZenonT(60), <1>5, StoreFacts DEF KeepInv, SameFrames
  <2>4. SameFrames(v, y.m)
    <3>1. IsMachine(y.m)
      BY <1>5 DEF KeepInv, SameFrames
    <3> HIDE DEF z, b
    <3> QED  BY ONLY <3>1, StoreFacts
  <2>5. r = [m |-> v, s |-> y.s]
    <3>1. u.sound = y.m.sound
      <4> HIDE DEF z
      <4> QED  BY <1>5 DEF KeepInv, SameFrames, IsMachine
    <3>2. y = [m |-> y.m, s |-> y.s]
      BY <1>5 DEF KeepInv
    <3>3. [y EXCEPT !.m.mem[table][idx] = 0] = [m |-> u, s |-> y.s]
      BY <3>2
    <3>4. r = [[m |-> u, s |-> y.s] EXCEPT !.m.sound =
                   @ /\ is_valid(y.m.mem[table][idx])]
      BY ZenonT(60), <2>1, <3>3 DEF ClearEntry
    <3> HIDE DEF u
    <3> QED  BY <3>1, <3>4
  <2> HIDE DEF v
  <2>6. SameFrames(r.m, y.m) /\ r.s = y.s /\ r = [m |-> r.m, s |-> r.s]
    BY <2>4, <2>5
  <2> QED  BY <1>5, <2>6, SameTransitive DEF KeepInv, r
<1>6. Unmapped(x, area) = Unmaps!Fold(p, x, seq)
  BY DEF Unmapped, Unmaps!Fold, Unmaps!FoldLeft, Unmaps!MapThenFoldSet,
         Unmaps!Max, FoldLeft, MapThenFoldSet, Max
<1> HIDE DEF p, seq
<1>7. KeepInv(p, Unmaps!Fold(p, x, seq))
  BY <1>3, <1>4, <1>5, Unmaps!FoldKeeps
<1> QED  BY <1>6, <1>7 DEF KeepInv, p

\* AreaOwned and AreasClean of areas with one more.
LEMMA AddedArea ==
    ASSUME NEW areas \in Seq(AreaSet), NEW area \in AreaSet
    PROVE  LET all == Append(areas, area)
           IN  /\ all \in Seq(AreaSet)
               /\ AreaOwned(all) = AreaOwned(areas) \cup Range(area.data_frames)
               /\ AreasClean(areas) /\ IsInjective(area.data_frames)
                     /\ AreaOwned(areas) \cap Range(area.data_frames) = {}
                     => AreasClean(all)
<1> DEFINE all == Append(areas, area)
           n == Len(areas)
<1>1. /\ all \in Seq(AreaSet) /\ Len(all) = n + 1 /\ n \in Nat
      /\ \A i \in 1..n : all[i] = areas[i]
      /\ all[n + 1] = area
  BY AppendProperties, LenProperties
<1>2. DOMAIN all = 1..(n + 1) /\ DOMAIN areas = 1..n
  BY <1>1, LenProperties
<1> HIDE DEF all, n
<1>3. /\ \A i \in 1..(n + 1) : i \in 1..n \/ i = n + 1
      /\ n + 1 \notin 1..n
      /\ \A i \in 1..n : i \in 1..(n + 1)
      /\ n + 1 \in 1..(n + 1)
  BY <1>1
<1>4. \A f \in Range(area.data_frames) : f \in Nat
  <2>1. area.data_frames \in Seq(Nat)
    BY DEF AreaSet
  <2> QED  BY <2>1, LenProperties DEF Range
<1>5. AreaOwned(all) = AreaOwned(areas) \cup Range(area.data_frames)
  BY <1>1, <1>2, <1>3, <1>4 DEF AreaOwned
<1>6. ASSUME AreasClean(areas), IsInjective(area.data_frames),
             AreaOwned(areas) \cap Range(area.data_frames) = {}
      PROVE  AreasClean(all)
  <2>1. \A i \in 1..n : Range(areas[i].data_frames)
                           \cap Range(area.data_frames) = {}
    BY <1>2, <1>4, <1>6 DEF AreaOwned
  <2>2. \A i \in 1..(n + 1) : IsInjective(all[i].data_frames)
    BY <1>1, <1>2, <1>3, <1>6 DEF AreasClean
  <2>3. ASSUME NEW i \in 1..(n + 1), NEW j \in 1..(n + 1), i # j
        PROVE  Range(all[i].data_frames) \cap Range(all[j].data_frames) = {}
    <3>1. CASE i \in 1..n /\ j \in 1..n
      BY <1>1, <1>2, <1>6, <2>3, <3>1 DEF AreasClean
    <3>2. CASE i \in 1..n /\ j = n + 1
      BY <1>1, <2>1, <3>2
    <3>3. CASE i = n + 1 /\ j \in 1..n
      BY <1>1, <2>1, <3>3
    <3> QED  BY <1>3, <2>3, <3>1, <3>2, <3>3
  <2> QED  BY <1>2, <2>2, <2>3 DEF AreasClean
<1> QED  BY <1>1, <1>5, <1>6 DEF all

\* push: the space has the frames of the new area.
LEMMA PushFacts ==
    ASSUME NEW x, NEW O, Holds(x, O), NEW area \in AreaSet,
           NEW data, NEW n \in Nat, DOMAIN data = 1..n
    PROVE  LET y == push(x, area, data)
           IN  Holds(y, O) /\ (y.m.enough => x.m.enough)
<1> DEFINE u == map_area(x, area)
           c == copy_data(u.x, area, data)
           a == [area EXCEPT !.data_frames = u.data_frames]
           y == push(x, area, data)
           D == Range(u.data_frames)
<1> SUFFICES Holds(y, O) /\ (y.m.enough => x.m.enough)
  OBVIOUS
<1>1. /\ Holds(u.x, O \cup D)
      /\ u.x.s.areas = x.s.areas
      /\ u.data_frames \in Seq(Nat)
      /\ u.x.m.enough => x.m.enough /\ IsInjective(u.data_frames) /\ D \cap O = {}
  BY MapAreaFacts
<1>2. y = [c EXCEPT !.s.areas = Append(@, a)]
  BY DEF push, PushMapped, AddArea
<1> HIDE DEF u
<1>3. c = [m |-> c.m, s |-> c.s] /\ c.s = u.x.s /\ SameFrames(c.m, u.x.m)
  <2>1. u.x = [m |-> u.x.m, s |-> u.x.s] /\ IsMachine(u.x.m)
    BY <1>1 DEF Holds, Holding
  <2> QED  BY <2>1, CopyFacts
<1> HIDE DEF c
<1>4. Holds(c, O \cup D)
  BY <1>1, <1>3, SameHolds
<1>5. a \in AreaSet /\ a.data_frames = u.data_frames
  BY <1>1 DEF AreaSet
<1> HIDE DEF a
<1> DEFINE all == Append(c.s.areas, a)
<1>6. c.s \in SpaceSet /\ c.s.areas \in Seq(AreaSet)
  BY <1>4 DEF Holds, SpaceSet
<1>7. /\ all \in Seq(AreaSet)
      /\ AreaOwned(all) = AreaOwned(c.s.areas) \cup Range(a.data_frames)
      /\ AreasClean(c.s.areas) /\ IsInjective(a.data_frames)
            /\ AreaOwned(c.s.areas) \cap Range(a.data_frames) = {}
            => AreasClean(all)
  BY <1>5, <1>6, AddedArea
<1> HIDE DEF all
<1>8. y = [m |-> c.m, s |-> [c.s EXCEPT !.areas = all]]
  BY <1>2, <1>3 DEF all
<1>9. /\ y = [m |-> y.m, s |-> y.s] /\ y.m = c.m
      /\ y.s \in SpaceSet /\ y.s.areas = all /\ y.s.frames = c.s.frames
  <2> DEFINE v == [c.s EXCEPT !.areas = all]
  <2>1. all \in Seq(AreaSet)
    BY <1>7
  <2>2. v \in SpaceSet /\ v.areas = all /\ v.frames = c.s.frames
    BY <1>6, <2>1 DEF SpaceSet
  <2> HIDE DEF v
  <2>3. y = [m |-> c.m, s |-> v]
    BY <1>8 DEF v
  <2> QED  BY <2>2, <2>3
<1> HIDE DEF y
<1>10. AreaOwned(all) \cup O = AreaOwned(c.s.areas) \cup (O \cup D)
  BY <1>5, <1>7
<1>11. Holding(y.m, y.s.frames, AreaOwned(y.s.areas) \cup O)
  BY <1>4, <1>9, <1>10 DEF Holds
<1>12. c.m.enough = u.x.m.enough
  BY <1>3 DEF SameFrames
<1>13. ASSUME y.m.enough
       PROVE  /\ x.m.enough
              /\ AreasClean(y.s.areas) /\ AreaOwned(y.s.areas) \cap O = {}
  <2>1. /\ x.m.enough /\ IsInjective(u.data_frames) /\ D \cap O = {}
        /\ AreasClean(c.s.areas) /\ AreaOwned(c.s.areas) \cap (O \cup D) = {}
    BY <1>1, <1>4, <1>9, <1>12, <1>13 DEF Holds
  <2> HIDE DEF D
  <2>2. D = Range(a.data_frames)
    BY <1>5 DEF D
  <2> QED  BY <1>5, <1>7, <1>9, <2>1, <2>2
<1> QED  BY <1>9, <1>11, <1>13 DEF Holds

\* insert_framed_area.
LEMMA InsertFacts ==
    ASSUME NEW x, NEW O, Holds(x, O), NEW start \in Int, NEW end \in Int,
           NEW permission \in Nat
    PROVE  LET y == insert_framed_area(x, start, end, permission)
           IN  Holds(y, O) /\ (y.m.enough => x.m.enough)
<1> DEFINE area == MapArea(start, end, "Framed", permission)
<1>1. area \in AreaSet
  BY DEF MapArea, AreaSet
<1>2. DOMAIN <<>> = 1..0 /\ 0 \in Nat
  OBVIOUS
<1> HIDE DEF area
<1>3. LET y == push(x, area, <<>>)
      IN  Holds(y, O) /\ (y.m.enough => x.m.enough)
  BY <1>1, <1>2, PushFacts
<1> QED  BY <1>3 DEF insert_framed_area, area

\* new_bare and the trampoline.
LEMMA BareFacts ==
    ASSUME NEW a, NEW H, IsMachine(a), Gave(a, H)
    PROVE  LET y == new_bare(a)
           IN  Holds(y, H) /\ (y.m.enough => a.enough)
<1> DEFINE f == frame_alloc(a)
           b == Bare(f)
<1>1. /\ IsMachine(f)
      /\ f.enough => a.enough /\ f.frame \notin H
      /\ Gave(f, H \cup {f.frame})
  BY AllocFacts
<1>2. f.frame \in Nat
  BY <1>1 DEF IsMachine
<1>3. new_bare(a) = map(b, TRAMPOLINE, 0, 0)
  BY DEF new_bare
<1> HIDE DEF f
<1>4. /\ b = [m |-> b.m, s |-> b.s] /\ b.m = f
      /\ b.s \in SpaceSet /\ b.s.frames = <<f.frame>> /\ b.s.areas = <<>>
  BY <1>2 DEF Bare, SpaceSet
<1>5. AreaOwned(<<>>) = {} /\ AreasClean(<<>>)
  BY DEF AreaOwned, AreasClean
<1>6. /\ <<f.frame>> \in Seq(Nat) /\ Range(<<f.frame>>) = {f.frame}
      /\ IsInjective(<<f.frame>>)
  BY <1>2 DEF Range, IsInjective
<1> HIDE DEF b
<1>7. Holds(b, H)
  <2>1. Range(b.s.frames) \cup (AreaOwned(b.s.areas) \cup H)
          = H \cup {f.frame}
    BY <1>4, <1>5, <1>6
  <2>2. b.m.enough => Range(b.s.frames) \cap (AreaOwned(b.s.areas) \cup H) = {}
    BY <1>1, <1>4, <1>5, <1>6
  <2>3. Holding(b.m, b.s.frames, AreaOwned(b.s.areas) \cup H)
    BY <1>1, <1>4, <1>6, <2>1, <2>2 DEF Holding
  <2> QED  BY <1>4, <1>5, <2>3 DEF Holds
<1>8. LET y == map(b, TRAMPOLINE, 0, 0)
      IN  Holds(y, H) /\ (y.m.enough => b.m.enough)
  BY <1>7, MapFacts
<1> QED  BY <1>1, <1>3, <1>4, <1>8

\* from_elf, segment by segment.
GrowInv(p, x) == Holds(x, p.others) /\ (x.m.enough => p.enough)

LoadOne(p, x, ph) == push(x, MapArea(ph.start, ph.end, "Framed", U), ph.data)

Loads == INSTANCE QueueLemmas WITH FoldOp <- LoadOne, FoldInv <- GrowInv

\* from_elf: the space of a new program.
LEMMA ElfFacts ==
    ASSUME NEW a, NEW H, IsMachine(a), Gave(a, H), NEW program \in Programs
    PROVE  LET y == from_elf(a, program)
           IN  Holds(y, H) /\ (y.m.enough => a.enough)
<1> DEFINE p == [others |-> H, enough |-> a.enough]
           base == new_bare(a)
           n == Len(program)
           Segments == [start : Nat, end : Nat, data : Seq(Nat)]
<1>1. program \in Seq(Segments)
  BY MemorySetAssumption
<1>2. /\ n \in Nat /\ DOMAIN program = 1..n
      /\ \A i \in 1..n : program[i] \in Segments
  BY <1>1, LenProperties
<1>3. GrowInv(p, base)
  BY BareFacts DEF GrowInv
<1>4. ASSUME NEW x, GrowInv(p, x), NEW i \in 1..n
      PROVE  GrowInv(p, LoadOne(p, x, program[i]))
  <2> DEFINE ph == program[i]
             area == MapArea(ph.start, ph.end, "Framed", U)
             y == push(x, area, ph.data)
  <2>1. ph \in Segments
    BY <1>2
  <2> HIDE DEF ph
  <2>2. area \in AreaSet
    BY <2>1 DEF AreaSet, MapArea, U
  <2>3. Len(ph.data) \in Nat /\ DOMAIN ph.data = 1..Len(ph.data)
    BY <2>1, LenProperties
  <2>4. Holds(x, H)
    BY <1>4 DEF GrowInv
  <2> HIDE DEF area
  <2>5. Holds(y, H) /\ (y.m.enough => x.m.enough)
    BY <2>2, <2>3, <2>4, PushFacts
  <2>6. LoadOne(p, x, program[i]) = y
    BY DEF LoadOne, ph, area
  <2> HIDE DEF y
  <2> QED  BY <1>4, <2>5, <2>6 DEF GrowInv
<1>5. from_elf(a, program) = Loads!Fold(p, base, program)
  BY DEF from_elf, LoadOne, Loads!Fold, Loads!FoldLeft,
         Loads!MapThenFoldSet, Loads!Max, FoldLeft, MapThenFoldSet, Max
<1> HIDE DEF p, base, n
<1>6. GrowInv(p, Loads!Fold(p, base, program))
  BY <1>2, <1>3, <1>4, Loads!FoldKeeps
<1> QED  BY <1>5, <1>6 DEF GrowInv, p

\* from_existed_user, area by area.
CloneOne(p, x, area) ==
    push(x, [area EXCEPT !.data_frames = <<>>],
         [i \in 1..(area.end - area.start) |->
             FirstWord(x.m.mem, p.space, area.start + i - 1)])

Clones == INSTANCE QueueLemmas WITH FoldOp <- CloneOne, FoldInv <- GrowInv

\* from_existed_user: the copy has frames of its own.
LEMMA CloneFacts ==
    ASSUME NEW a, NEW H, IsMachine(a), Gave(a, H), NEW space \in SpaceSet
    PROVE  LET y == from_existed_user(a, space)
           IN  Holds(y, H) /\ (y.m.enough => a.enough)
<1> DEFINE p == [others |-> H, enough |-> a.enough, space |-> space]
           base == new_bare(a)
           n == Len(space.areas)
<1>1. space.areas \in Seq(AreaSet)
  BY DEF SpaceSet
<1>2. /\ n \in Nat /\ DOMAIN space.areas = 1..n
      /\ \A i \in 1..n : space.areas[i] \in AreaSet
  BY <1>1, LenProperties
<1>3. GrowInv(p, base)
  BY BareFacts DEF GrowInv
<1>4. ASSUME NEW x, GrowInv(p, x), NEW i \in 1..n
      PROVE  GrowInv(p, CloneOne(p, x, space.areas[i]))
  <2> DEFINE old == space.areas[i]
             area == [old EXCEPT !.data_frames = <<>>]
             data == [j \in 1..(old.end - old.start) |->
                        FirstWord(x.m.mem, p.space, old.start + j - 1)]
             y == push(x, area, data)
  <2>1. old \in AreaSet
    BY <1>2
  <2> HIDE DEF old
  <2>2. area \in AreaSet
    <3>1. <<>> \in Seq(Nat)
      OBVIOUS
    <3> QED  BY <2>1, <3>1 DEF AreaSet
  <2>3. PICK k \in Nat : DOMAIN data = 1..k
    <3>1. old.end - old.start \in Int
      BY <2>1 DEF AreaSet
    <3>2. DOMAIN data = 1..(old.end - old.start)
      OBVIOUS
    <3> HIDE DEF data
    <3> QED  BY <3>1, <3>2, RangeDomain
  <2>4. Holds(x, H)
    BY <1>4 DEF GrowInv
  <2> HIDE DEF area, data
  <2>5. Holds(y, H) /\ (y.m.enough => x.m.enough)
    BY <2>2, <2>3, <2>4, PushFacts
  <2>6. CloneOne(p, x, space.areas[i]) = y
    BY DEF CloneOne, old, area, data
  <2> HIDE DEF y
  <2> QED  BY <1>4, <2>5, <2>6 DEF GrowInv
<1>5. from_existed_user(a, space) = Clones!Fold(p, base, space.areas)
  BY DEF from_existed_user, CloneOne, Clones!Fold, Clones!FoldLeft,
         Clones!MapThenFoldSet, Clones!Max, FoldLeft, MapThenFoldSet, Max
<1> HIDE DEF p, base, n
<1>6. GrowInv(p, Clones!Fold(p, base, space.areas))
  BY <1>2, <1>3, <1>4, Clones!FoldKeeps
<1> QED  BY <1>5, <1>6 DEF GrowInv, p

\* The kernel's space.
LEMMA KernelFacts == Holds(new_kernel, {})
<1> DEFINE a == init_frame_allocator
           b == new_bare(a)
           area1 == MapArea(0, ekernel, "Identical", 0)
           area2 == MapArea(ekernel, MEMORY_END, "Identical", 0)
           y == push(b, area1, <<>>)
<1>0. ekernel \in Nat /\ MEMORY_END \in Nat /\ ekernel <= MEMORY_END
  BY PageTableAssumption
<1>1. IsMachine(a)
  <2>1. /\ a.current = ekernel /\ a.recycled = <<>> /\ a.frame = 0
        /\ a.enough = TRUE
        /\ a = [current |-> a.current, recycled |-> a.recycled,
                frame |-> a.frame, mem |-> a.mem, enough |-> a.enough,
                sound |-> a.sound]
    BY DEF init_frame_allocator
  <2> HIDE DEF a
  <2>2. a.current \in ekernel..MEMORY_END /\ a.frame \in Nat
    BY <1>0, <2>1
  <2>3. <<>> \in Seq(Nat)
    OBVIOUS
  <2>4. a.recycled \in Seq(Nat)
    BY <2>1, <2>3
  <2>5. a.enough \in BOOLEAN
    BY <2>1
  <2> QED  BY <2>1, <2>2, <2>4, <2>5 DEF IsMachine
<1>2. Gave(a, {})
  <2>1. a.current = ekernel /\ a.recycled = <<>>
    BY DEF init_frame_allocator
  <2>2. ekernel..(ekernel - 1) = {}
    BY <1>0
  <2> HIDE DEF a
  <2> QED  BY <2>1, <2>2 DEF Gave, Range, IsInjective
<1>3. area1 \in AreaSet /\ area2 \in AreaSet
  BY <1>0 DEF MapArea, AreaSet
<1>4. DOMAIN <<>> = 1..0 /\ 0 \in Nat
  OBVIOUS
<1>5. new_kernel = push(y, area2, <<>>)
  BY DEF new_kernel
<1> HIDE DEF a, area1, area2
<1>6. Holds(b, {})
  BY <1>1, <1>2, BareFacts
<1>7. Holds(y, {})
  BY <1>3, <1>4, <1>6, PushFacts
<1> HIDE DEF y
<1>8. Holds(push(y, area2, <<>>), {})
  BY <1>3, <1>4, <1>7, PushFacts
<1> QED  BY <1>5, <1>8

\* Areas without one of them.
LEMMA RemovedArea ==
    ASSUME NEW areas \in Seq(AreaSet), NEW k \in 1..Len(areas),
           AreasClean(areas)
    PROVE  LET rest == RemoveAt(areas, k)
               D == Range(areas[k].data_frames)
           IN  /\ AreaOwned(rest) = AreaOwned(areas) \ D
               /\ D \subseteq AreaOwned(areas)
               /\ AreasClean(rest)
<1> DEFINE rest == RemoveAt(areas, k)
           D == Range(areas[k].data_frames)
           n == Len(areas)
           at(i) == IF i < k THEN i ELSE i + 1
<1>1. /\ rest \in Seq(AreaSet) /\ Len(rest) = n - 1
      /\ \A i \in 1..(n - 1) : rest[i] = IF i < k THEN areas[i] ELSE areas[i + 1]
  BY RemoveAtFacts
<1>2. n \in Nat /\ DOMAIN areas = 1..n /\ DOMAIN rest = 1..(n - 1)
  BY <1>1, LenProperties
<1> HIDE DEF rest, n
<1>3. \A i \in 1..(n - 1) : at(i) \in 1..n /\ at(i) # k /\ rest[i] = areas[at(i)]
  BY <1>1, <1>2
<1>4. \A i, j \in 1..(n - 1) : at(i) = at(j) => i = j
  BY <1>2
<1>5. \A j \in 1..n : j # k => \E i \in 1..(n - 1) : rest[i] = areas[j]
  <2> SUFFICES ASSUME NEW j \in 1..n, j # k
               PROVE  \E i \in 1..(n - 1) : rest[i] = areas[j]
    OBVIOUS
  <2>1. CASE j < k
    <3>1. j \in 1..(n - 1)
      BY <1>2, <2>1 DEF n
    <3> QED  BY <1>1, <2>1, <3>1
  <2>2. CASE j > k
    <3>1. j - 1 \in 1..(n - 1) /\ ~(j - 1 < k) /\ (j - 1) + 1 = j
      BY <1>2, <2>2
    <3> QED  BY <1>1, <3>1
  <2> QED  BY <1>2, <2>1, <2>2
<1> HIDE DEF at
<1>6. k \in 1..n
  BY DEF n
<1>7. \A f \in D : f \in Nat
  <2>1. areas[k] \in AreaSet
    BY <1>2, <1>6, LenProperties
  <2>2. areas[k].data_frames \in Seq(Nat)
    BY <2>1 DEF AreaSet
  <2> QED  BY <2>2, LenProperties DEF Range
<1>8. \A i \in 1..n : \A f \in Range(areas[i].data_frames) : f \in D => i = k
  BY <1>2, <1>6 DEF AreasClean
<1>9. AreaOwned(rest) = AreaOwned(areas) \ D
  <2>1. ASSUME NEW f \in AreaOwned(rest) PROVE f \in AreaOwned(areas) \ D
    <3>1. PICK i \in 1..(n - 1) : f \in Range(rest[i].data_frames)
      BY <1>2 DEF AreaOwned
    <3>2. /\ at(i) \in 1..n /\ at(i) # k
          /\ f \in Range(areas[at(i)].data_frames)
      BY <1>3, <3>1
    <3> HIDE DEF D
    <3> QED  BY <1>2, <1>8, <3>2 DEF AreaOwned
  <2>2. ASSUME NEW f \in AreaOwned(areas), f \notin D PROVE f \in AreaOwned(rest)
    <3>1. PICK j \in 1..n : f \in Range(areas[j].data_frames)
      BY <1>2 DEF AreaOwned
    <3>2. j # k
      BY <2>2, <3>1
    <3>3. PICK i \in 1..(n - 1) : rest[i] = areas[j]
      BY <1>5, <3>2
    <3> QED  BY <1>2, <3>1, <3>3 DEF AreaOwned
  <2> HIDE DEF D
  <2> QED  BY <2>1, <2>2
<1>10. D \subseteq AreaOwned(areas)
  BY <1>2, <1>6, <1>7 DEF AreaOwned
<1>11. AreasClean(rest)
  <2>1. ASSUME NEW i \in 1..(n - 1) PROVE IsInjective(rest[i].data_frames)
    BY <1>2, <1>3 DEF AreasClean
  <2>2. ASSUME NEW i \in 1..(n - 1), NEW j \in 1..(n - 1), i # j
        PROVE  Range(rest[i].data_frames) \cap Range(rest[j].data_frames) = {}
    <3>1. at(i) # at(j) /\ at(i) \in 1..n /\ at(j) \in 1..n
      BY <1>3, <1>4, <2>2
    <3> QED  BY <1>2, <1>3, <3>1 DEF AreasClean
  <2> QED  BY <1>2, <2>1, <2>2 DEF AreasClean
<1> QED  BY <1>9, <1>10, <1>11 DEF rest

\* An area is removed: its frames are given back.
LEMMA RemoveFacts ==
    ASSUME NEW x, NEW O, Holds(x, O), NEW k \in 1..Len(x.s.areas)
    PROVE  LET y == RemoveArea(x, k)
           IN  Holds(y, O) /\ y.m.enough = x.m.enough
<1> DEFINE areas == x.s.areas
           rest == RemoveAt(areas, k)
           fs == areas[k].data_frames
           D == Range(fs)
           u == Unmapped(x, areas[k]).m
           d == frame_dealloc(u, fs)
           v == [x.s EXCEPT !.areas = rest]
           y == RemoveArea(x, k)
           P == AreaOwned(areas) \cup O
           F == Range(x.s.frames)
<1> SUFFICES Holds(y, O) /\ y.m.enough = x.m.enough
  OBVIOUS
<1>1. /\ x = [m |-> x.m, s |-> x.s] /\ x.s \in SpaceSet /\ areas \in Seq(AreaSet)
      /\ IsMachine(x.m)
  BY DEF Holds, SpaceSet, Holding
<1>2. areas[k] \in AreaSet /\ fs \in Seq(Nat)
  <2>1. areas[k] \in AreaSet
    BY <1>1, LenProperties
  <2> QED  BY <2>1 DEF AreaSet
<1>3. SameFrames(u, x.m)
  BY <1>1, <1>2, UnmappedFacts
<1>4. y = [m |-> d, s |-> v]
  BY DEF RemoveArea
<1>5. rest \in Seq(AreaSet)
  BY <1>1, RemoveAtFacts
<1>6. x.m.enough => /\ AreaOwned(rest) = AreaOwned(areas) \ D
                    /\ D \subseteq AreaOwned(areas)
                    /\ AreasClean(rest)
  BY <1>1, RemovedArea DEF Holds
<1>7. /\ IsMachine(u) /\ Gave(u, F \cup P) /\ u.enough = x.m.enough
      /\ x.m.enough => IsInjective(fs) /\ F \cap P = {} /\ AreaOwned(areas) \cap O = {}
  <2>1. Holding(u, x.s.frames, P)
    BY <1>3, SameHolding DEF Holds
  <2>2. x.m.enough => IsInjective(fs)
    <3>1. k \in DOMAIN areas
      BY <1>1, LenProperties
    <3> QED  BY <3>1 DEF Holds, AreasClean
  <2>3. u.enough = x.m.enough
    BY <1>3 DEF SameFrames
  <2> HIDE DEF u
  <2> QED  BY <2>1, <2>2, <2>3 DEF Holding, Holds
<1>8. v \in SpaceSet /\ v.areas = rest /\ v.frames = x.s.frames
  <2> HIDE DEF rest
  <2> QED  BY <1>1, <1>5 DEF SpaceSet
<1> HIDE DEF rest, fs, u, v, areas
<1>9. /\ IsMachine(d) /\ d.enough = u.enough /\ Gave(d, (F \cup P) \ D)
  BY <1>2, <1>6, <1>7, DeallocFacts
<1> HIDE DEF d, y
<1>10. x.m.enough => (F \cup P) \ D = F \cup (AreaOwned(rest) \cup O)
  BY <1>6, <1>7
<1>11. Gave(d, F \cup (AreaOwned(rest) \cup O))
  BY <1>7, <1>9, <1>10 DEF Gave
<1>12. d.enough => /\ IsInjective(x.s.frames)
                   /\ F \cap (AreaOwned(rest) \cup O) = {}
                   /\ AreaOwned(rest) \cap O = {}
                   /\ AreasClean(rest)
  <2>1. x.m.enough => IsInjective(x.s.frames)
    BY DEF Holds, Holding
  <2> QED  BY <1>6, <1>7, <1>9, <2>1
<1>13. y.m = d /\ y.s = v /\ y = [m |-> y.m, s |-> y.s]
  BY <1>4
<1>14. Holding(d, x.s.frames, AreaOwned(rest) \cup O)
  <2>1. x.s.frames \in Seq(Nat)
    BY <1>1 DEF SpaceSet
  <2> QED  BY <1>9, <1>11, <1>12, <2>1 DEF Holding
<1> QED  BY <1>7, <1>8, <1>9, <1>12, <1>13, <1>14 DEF Holds

\* The first area that starts at a page, if there is one.
LEMMA RemoveWithStart ==
    ASSUME NEW x, NEW O, Holds(x, O), NEW start
    PROVE  LET y == remove_area_with_start_vpn(x, start)
           IN  Holds(y, O) /\ y.m.enough = x.m.enough
<1> DEFINE areas == x.s.areas
           I == {i \in 1..Len(areas) : areas[i].start = start}
           k == SelectInSeq(areas, LAMBDA a : a.start = start)
<1>1. Len(areas) \in Nat /\ DOMAIN areas = 1..Len(areas)
  <2>1. areas \in Seq(AreaSet)
    BY DEF Holds, SpaceSet
  <2> QED  BY <2>1, LenProperties
<1>2. CASE \E i \in DOMAIN areas : areas[i].start = start
  <2>1. I # {} /\ I \in SUBSET Nat
    BY <1>1, <1>2
  <2>2. k = Min(I)
    BY <2>1 DEF SelectInSeq
  <2>3. \E i \in I : \A j \in I : i <= j
    BY <2>1, LeastNatural
  <2>4. Min(I) \in I
    <3> HIDE DEF I
    <3> QED  BY <2>3 DEF Min
  <2>5. k \in 1..Len(x.s.areas)
    BY <2>2, <2>4
  <2>6. remove_area_with_start_vpn(x, start) = RemoveArea(x, k)
    BY <1>2 DEF remove_area_with_start_vpn
  <2> HIDE DEF k
  <2> QED  BY <2>5, <2>6, RemoveFacts
<1>3. CASE ~ \E i \in DOMAIN areas : areas[i].start = start
  BY <1>3 DEF remove_area_with_start_vpn
<1> QED  BY <1>2, <1>3

-----------------------------------------------------------------------------
(* The frames of all areas of a space                                      *)

Cats == INSTANCE QueueLemmas
    WITH FoldOp <- LAMBDA p, y, e : y \o e, FoldInv <- LAMBDA p, y : y \in Seq(Nat)

\* The frames that the first i sequences have.
Heads(seqs, i) == {f \in Nat : \E j \in 1..i : f \in Range(seqs[j])}

\* Sequences that have no frame in common, and none twice.
Apart(seqs, n) ==
    /\ \A i \in 1..n : seqs[i] \in Seq(Nat) /\ IsInjective(seqs[i])
    /\ \A i, j \in 1..n : i # j => Range(seqs[i]) \cap Range(seqs[j]) = {}

\* The values that flattening goes through have the frames so far, each once.
LEMMA CatFacts ==
    ASSUME NEW n \in Nat, NEW seqs, Apart(seqs, n),
           NEW h, Cats!IsRun(h, 0, <<>>, seqs, n), NEW i \in 0..n
    PROVE  /\ h[i] \in Seq(Nat)
           /\ Range(h[i]) = Heads(seqs, i)
           /\ IsInjective(h[i])
<1> DEFINE Ok(k) == /\ h[k] \in Seq(Nat)
                    /\ Range(h[k]) = Heads(seqs, k)
                    /\ IsInjective(h[k])
           Bad == {k \in Nat : k \in 0..n /\ ~Ok(k)}
<1>0. h[0] = <<>> /\ \A k \in 1..n : h[k] = h[k - 1] \o seqs[k]
  BY DEF Cats!IsRun
<1> SUFFICES ASSUME ~Ok(i) PROVE FALSE
  OBVIOUS
<1>1. PICK k \in Bad : \A j \in Bad : k <= j
  <2>1. Bad \in SUBSET Nat /\ i \in Bad
    OBVIOUS
  <2> HIDE DEF Bad
  <2> QED  BY <2>1, LeastNatural
<1>2. CASE k = 0
  <2>1. <<>> \in Seq(Nat) /\ Range(<<>>) = {} /\ IsInjective(<<>>)
    BY DEF Range, IsInjective
  <2>2. Heads(seqs, 0) = {}
    BY DEF Heads
  <2>3. Ok(0)
    BY <1>0, <2>1, <2>2
  <2> QED  BY <1>1, <1>2, <2>3
<1>3. CASE k # 0
  <2>1. k \in 1..n /\ k - 1 \in 0..n /\ k - 1 \in Nat /\ ~(k <= k - 1)
    BY <1>1, <1>3
  <2>2. Ok(k - 1)
    BY <1>1, <2>1
  <2>3. /\ h[k - 1] \o seqs[k] \in Seq(Nat)
        /\ Range(h[k - 1] \o seqs[k]) = Range(h[k - 1]) \cup Range(seqs[k])
        /\ IsInjective(h[k - 1]) /\ IsInjective(seqs[k])
              /\ Range(h[k - 1]) \cap Range(seqs[k]) = {}
              => IsInjective(h[k - 1] \o seqs[k])
    BY <2>1, <2>2, ConcatFacts DEF Apart
  <2>4. Range(h[k - 1]) \cap Range(seqs[k]) = {}
    <3>1. \A j \in 1..(k - 1) : j \in 1..n /\ j # k
      BY <2>1
    <3>2. Range(h[k - 1]) = Heads(seqs, k - 1)
      BY <2>2
    <3> QED  BY <2>1, <3>1, <3>2 DEF Heads, Apart
  <2>5. Heads(seqs, k) = Heads(seqs, k - 1) \cup Range(seqs[k])
    <3>1. \A f \in Range(seqs[k]) : f \in Nat
      <4>1. seqs[k] \in Seq(Nat)
        BY <2>1 DEF Apart
      <4> QED  BY <4>1, LenProperties DEF Range
    <3>2. 1..k = (1..(k - 1)) \cup {k}
      BY <2>1
    <3> QED  BY <3>1, <3>2 DEF Heads
  <2>6. Ok(k)
    BY <1>0, <2>1, <2>2, <2>3, <2>4, <2>5 DEF Apart
  <2> QED  BY <1>1, <2>6
<1> QED  BY <1>2, <1>3

\* FlattenSeq is the last of those values.
LEMMA FlattenIsRun ==
    ASSUME NEW n \in Nat, NEW seqs \in Seq(Seq(Nat)), Len(seqs) = n,
           NEW h, Cats!IsRun(h, 0, <<>>, seqs, n)
    PROVE  FlattenSeq(seqs) = h[n]
<1>0. h[0] = <<>> /\ \A k \in 1..n : h[k] = h[k - 1] \o seqs[k]
  BY DEF Cats!IsRun
<1>1. CASE n = 0
  <2>1. seqs = <<>>
    BY <1>1, EmptySeq
  <2> QED  BY <1>0, <1>1, <2>1 DEF FlattenSeq
<1>2. CASE n # 0
  <2> DEFINE Flat(f) == f = [i \in 1..Len(seqs) |->
                               IF i = 1 THEN seqs[i] ELSE f[i - 1] \o seqs[i]]
             g == [i \in 1..n |-> h[i]]
             f == CHOOSE e : Flat(e)
  <2>1. FlattenSeq(seqs) = f[Len(seqs)]
    BY <1>2 DEF FlattenSeq
  <2>2. h[1] = seqs[1]
    <3>1. 1 \in 1..n /\ seqs[1] \in Seq(Nat)
      BY <1>2, LenProperties
    <3>2. h[1] = h[1 - 1] \o seqs[1] /\ 1 - 1 = 0
      BY <1>0, <3>1
    <3>3. <<>> \o seqs[1] = seqs[1]
      BY <3>1
    <3> QED  BY <1>0, <3>2, <3>3
  <2>3. \A i \in 1..n : i # 1 => i - 1 \in 1..n
    OBVIOUS
  <2>4. \A i \in 1..n : g[i] = IF i = 1 THEN seqs[i] ELSE g[i - 1] \o seqs[i]
    BY <1>0, <2>2, <2>3
  <2>5. g = [i \in 1..n |-> g[i]]
    OBVIOUS
  <2>6. g[n] = h[n]
    BY <1>2
  <2> HIDE DEF g
  <2>7. Flat(g)
    BY <2>4, <2>5
  <2>8. Flat(f)
    <3> HIDE DEF Flat
    <3> QED  BY <2>7
  <2> HIDE DEF f
  <2>9. \A i \in 1..n : f[i] = IF i = 1 THEN seqs[i] ELSE f[i - 1] \o seqs[i]
    BY <2>8
  <2> HIDE DEF Flat
  <2> DEFINE Bad == {k \in Nat : k \in 1..n /\ f[k] # g[k]}
  <2>10. ASSUME Bad # {} PROVE FALSE
    <3>1. PICK k \in Bad : \A j \in Bad : k <= j
      <4>1. Bad \in SUBSET Nat
        OBVIOUS
      <4> QED  BY <2>10, <4>1, LeastNatural
    <3>2. k # 1
      BY <2>4, <2>9, <3>1
    <3>3. k - 1 \in 1..n /\ k - 1 \in Nat /\ ~(k <= k - 1)
      BY <3>2
    <3>4. f[k - 1] = g[k - 1]
      BY <3>1, <3>3
    <3> QED  BY ZenonT(60), <2>4, <2>9, <3>1, <3>2, <3>4
  <2>11. n \in 1..n
    BY <1>2
  <2> QED  BY <2>1, <2>6, <2>10, <2>11
<1> QED  BY <1>1, <1>2

\* The frames of the areas of a space, each once.
LEMMA AreaFramesFacts ==
    ASSUME NEW s \in SpaceSet, AreasClean(s.areas)
    PROVE  /\ AreaFrames(s) \in Seq(Nat)
           /\ Range(AreaFrames(s)) = AreaOwned(s.areas)
           /\ IsInjective(AreaFrames(s))
<1> DEFINE n == Len(s.areas)
           e(i) == s.areas[i].data_frames
           seqs == [i \in DOMAIN s.areas |-> e(i)]
<1>1. s.areas \in Seq(AreaSet)
  BY DEF SpaceSet
<1>2. n \in Nat /\ DOMAIN s.areas = 1..n /\ \A i \in 1..n : s.areas[i] \in AreaSet
  BY <1>1, LenProperties
<1>3. AreaFrames(s) = FlattenSeq(seqs)
  BY DEF AreaFrames
<1>4. \A i \in 1..n : e(i) \in Seq(Nat)
  BY <1>2 DEF AreaSet
<1>5. \A i \in 1..n : IsInjective(e(i))
  BY <1>2 DEF AreasClean
<1>6. \A i, j \in 1..n : i # j => Range(e(i)) \cap Range(e(j)) = {}
  BY <1>2 DEF AreasClean
<1>7. AreaOwned(s.areas) = {f \in Nat : \E i \in 1..n : f \in Range(e(i))}
  BY <1>2 DEF AreaOwned
<1>8. seqs = [i \in 1..n |-> e(i)]
  BY <1>2
<1> HIDE DEF n, e
<1>9. seqs \in Seq(Seq(Nat)) /\ Len(seqs) = n
  <2> DEFINE T == Seq(Nat)
  <2>1. \A i \in 1..n : e(i) \in T
    BY <1>4
  <2> HIDE DEF T
  <2>2. [i \in 1..n |-> e(i)] \in Seq(T) /\ Len([i \in 1..n |-> e(i)]) = n
    BY <1>2, <2>1, IsASeq
  <2> QED  BY <1>8, <2>2 DEF T
<1>10. \A i \in 1..n : seqs[i] = e(i)
  BY <1>8
<1> HIDE DEF seqs
<1>11. PICK h : Cats!IsRun(h, 0, <<>>, seqs, n)
  BY <1>2, Cats!RunExists
<1>12. FlattenSeq(seqs) = h[n]
  BY <1>2, <1>9, <1>11, FlattenIsRun
<1>13. n \in 0..n
  BY <1>2
<1>14. Apart(seqs, n)
  BY <1>4, <1>5, <1>6, <1>10 DEF Apart
<1>15. h[n] \in Seq(Nat) /\ Range(h[n]) = Heads(seqs, n) /\ IsInjective(h[n])
  BY <1>2, <1>11, <1>13, <1>14, CatFacts
<1>16. Heads(seqs, n) = AreaOwned(s.areas)
  BY <1>7, <1>10 DEF Heads
<1> QED  BY <1>3, <1>12, <1>15, <1>16

-----------------------------------------------------------------------------
(* Whole spaces                                                            *)

\* All frames of a space, each once.
Owned(s) == Range(s.frames) \cup AreaOwned(s.areas)
Clean(s) ==
    /\ IsInjective(s.frames)
    /\ AreasClean(s.areas)
    /\ Range(s.frames) \cap AreaOwned(s.areas) = {}

\* Holds in these terms.
LEMMA HoldsMeans ==
    ASSUME NEW a, NEW s \in SpaceSet, NEW O
    PROVE  Holds([m |-> a, s |-> s], O) <=>
               /\ IsMachine(a)
               /\ Gave(a, Owned(s) \cup O)
               /\ a.enough => Clean(s) /\ Owned(s) \cap O = {}
<1> DEFINE x == [m |-> a, s |-> s]
<1>1. x = [m |-> x.m, s |-> x.s] /\ x.m = a /\ x.s = s
  OBVIOUS
<1>2. s.frames \in Seq(Nat)
  BY DEF SpaceSet
<1>3. Range(s.frames) \cup (AreaOwned(s.areas) \cup O) = Owned(s) \cup O
  BY DEF Owned
<1> HIDE DEF x
<1>4. Holds(x, O) <=>
         /\ Holding(a, s.frames, AreaOwned(s.areas) \cup O)
         /\ a.enough => AreasClean(s.areas) /\ AreaOwned(s.areas) \cap O = {}
  BY <1>1 DEF Holds
<1>5. Holding(a, s.frames, AreaOwned(s.areas) \cup O) <=>
         /\ IsMachine(a)
         /\ Gave(a, Owned(s) \cup O)
         /\ a.enough => /\ IsInjective(s.frames)
                        /\ Range(s.frames) \cap (AreaOwned(s.areas) \cup O) = {}
  BY <1>2, <1>3 DEF Holding
<1>6. Holds(x, O) <=> /\ IsMachine(a)
                      /\ Gave(a, Owned(s) \cup O)
                      /\ a.enough => Clean(s) /\ Owned(s) \cap O = {}
  BY <1>4, <1>5 DEF Clean, Owned
<1> QED  BY <1>6 DEF x

\* The other way: of a machine and its space that are together.
LEMMA HoldsGives ==
    ASSUME NEW x, NEW O, Holds(x, O)
    PROVE  /\ x.s \in SpaceSet
           /\ IsMachine(x.m)
           /\ Gave(x.m, Owned(x.s) \cup O)
           /\ x.m.enough => Clean(x.s) /\ Owned(x.s) \cap O = {}
<1>1. x.s \in SpaceSet /\ x = [m |-> x.m, s |-> x.s]
  BY DEF Holds
<1>2. Holds([m |-> x.m, s |-> x.s], O)
  BY <1>1
<1> QED  BY <1>1, <1>2, HoldsMeans

\* A space is dropped: all its frames are given back.
LEMMA DropFacts ==
    ASSUME NEW a, IsMachine(a), NEW s \in SpaceSet, Clean(s), NEW O,
           Gave(a, Owned(s) \cup O), a.enough => Owned(s) \cap O = {}
    PROVE  LET d == drop_space(a, s)
           IN  IsMachine(d) /\ d.enough = a.enough /\ Gave(d, O)
<1> DEFINE g == AreaFrames(s)
           fs == s.frames \o g
           d == frame_dealloc(a, fs)
<1>1. g \in Seq(Nat) /\ Range(g) = AreaOwned(s.areas) /\ IsInjective(g)
  BY AreaFramesFacts DEF Clean
<1>2. s.frames \in Seq(Nat)
  BY DEF SpaceSet
<1>3. drop_space(a, s) = d
  BY DEF drop_space
<1> HIDE DEF g
<1>4. /\ fs \in Seq(Nat) /\ Range(fs) = Range(s.frames) \cup Range(g)
      /\ IsInjective(s.frames) /\ IsInjective(g) /\ Range(s.frames) \cap Range(g) = {}
            => IsInjective(fs)
  BY <1>1, <1>2, ConcatFacts
<1>5. Range(fs) = Owned(s) /\ IsInjective(fs)
  BY <1>1, <1>4 DEF Owned, Clean
<1> HIDE DEF fs
<1>6. /\ IsMachine(d) /\ d.enough = a.enough
      /\ Gave(d, (Owned(s) \cup O) \ Owned(s))
  BY SMTT(30), <1>4, <1>5, DeallocFacts
<1> HIDE DEF d
<1>7. Gave(d, O)
  BY <1>6 DEF Gave
<1> QED  BY <1>3, <1>6, <1>7

\* recycle_data_pages: the frames of the areas are given back.
LEMMA RecycleFacts ==
    ASSUME NEW x, NEW O, Holds(x, O), x.m.enough
    PROVE  LET y == recycle_data_pages(x)
           IN  Holds(y, O) /\ y.m.enough = x.m.enough
<1> DEFINE fs == AreaFrames(x.s)
           A == AreaOwned(x.s.areas)
           F == Range(x.s.frames)
           d == frame_dealloc(x.m, fs)
           v == [x.s EXCEPT !.areas = <<>>]
           y == recycle_data_pages(x)
<1> SUFFICES Holds(y, O) /\ y.m.enough = x.m.enough
  OBVIOUS
<1>1. /\ x.s \in SpaceSet /\ IsMachine(x.m) /\ Clean(x.s)
      /\ Gave(x.m, Owned(x.s) \cup O) /\ Owned(x.s) \cap O = {}
  BY HoldsGives
<1>2. fs \in Seq(Nat) /\ Range(fs) = A /\ IsInjective(fs)
  BY <1>1, AreaFramesFacts DEF Clean
<1>3. y = [m |-> d, s |-> v]
  BY DEF recycle_data_pages
<1> HIDE DEF fs
<1>4. IsMachine(d) /\ d.enough = x.m.enough /\ Gave(d, (Owned(x.s) \cup O) \ A)
  <2>1. Range(fs) \subseteq Owned(x.s) \cup O
    BY <1>2 DEF Owned
  <2> QED  BY <1>1, <1>2, <2>1, DeallocFacts
<1>5. v \in SpaceSet /\ v.areas = <<>> /\ v.frames = x.s.frames
  <2>1. <<>> \in Seq(AreaSet)
    OBVIOUS
  <2> QED  BY <1>1, <2>1 DEF SpaceSet
<1>6. AreaOwned(<<>>) = {} /\ AreasClean(<<>>)
  BY DEF AreaOwned, AreasClean
<1> HIDE DEF d, v, y
<1>7. Owned(v) = F /\ Clean(v)
  BY <1>1, <1>5, <1>6 DEF Owned, Clean
<1>8. (Owned(x.s) \cup O) \ A = Owned(v) \cup O /\ Owned(v) \cap O = {}
  BY <1>1, <1>7 DEF Owned, Clean
<1>9. Gave(d, Owned(v) \cup O)
  BY <1>4, <1>8
<1>10. Holds([m |-> d, s |-> v], O)
  BY <1>4, <1>5, <1>7, <1>8, <1>9, HoldsMeans
<1>11. y.m = d
  BY <1>3
<1> QED  BY <1>3, <1>4, <1>10, <1>11

-----------------------------------------------------------------------------
(* Kernel stacks and the resources of threads                              *)

\* The numbers that stacks are placed by.
LEMMA Positions ==
    /\ TRAMPOLINE \in Int /\ TRAP_CONTEXT_BASE \in Int
    /\ USER_STACK_SIZE \in Nat /\ KERNEL_STACK_SIZE \in Nat
    /\ MaxTid \in Nat
    /\ U \in Nat
<1>1. FANOUT \in Nat \ {0} /\ LEVELS \in Nat
  BY PageTableAssumption
<1>2. FANOUT ^ LEVELS \in Int
  BY <1>1
<1>3. /\ USER_STACK_SIZE \in Nat /\ KERNEL_STACK_SIZE \in Nat
      /\ MaxTid \in Nat
  BY MemorySetAssumption
<1> QED  BY <1>2, <1>3 DEF TRAMPOLINE, TRAP_CONTEXT_BASE, U

LEMMA KstackPosition ==
    ASSUME NEW id \in Nat
    PROVE  /\ kernel_stack_position(id).bottom \in Int
           /\ kernel_stack_position(id).top \in Int
<1> DEFINE k == id * (KERNEL_STACK_SIZE + 1)
<1>1. k \in Int
  BY Positions
<1>2. kernel_stack_position(id)
        = [bottom |-> (TRAMPOLINE - k) - KERNEL_STACK_SIZE,
           top |-> TRAMPOLINE - k]
  BY DEF kernel_stack_position
<1> HIDE DEF k
<1> QED  BY <1>1, <1>2, Positions

\* Allocators of ids.
LEMMA IdFacts ==
    ASSUME NEW a \in Ids!Allocators
    PROVE  /\ Ids!allocated(a) \in Nat
           /\ Ids!alloc(a) \in Ids!Allocators
           /\ \A id \in Nat : Ids!dealloc(a, id) \in Ids!Allocators
<1>1. a.recycled \in Seq(Nat) /\ a.current \in Nat
  BY DEF Ids!Allocators
<1>2. Ids!allocated(a) \in Nat
  BY <1>1, FrontTyped DEF Ids!allocated, Ids!Last, Last
<1>3. Ids!alloc(a) \in Ids!Allocators
  <2>1. CASE a.recycled # <<>>
    <3> DEFINE r == Front(a.recycled)
    <3>1. r \in Seq(Nat)
      BY <1>1, <2>1, FrontTyped
    <3>2. Ids!alloc(a) = [a EXCEPT !.recycled = r]
      BY <2>1 DEF Ids!alloc, Ids!Front, Front
    <3> HIDE DEF r
    <3> QED  BY <3>1, <3>2 DEF Ids!Allocators
  <2>2. CASE a.recycled = <<>>
    <3>1. Ids!alloc(a) = [a EXCEPT !.current = a.current + 1]
      BY <2>2 DEF Ids!alloc
    <3>2. a.current + 1 \in Nat
      BY <1>1
    <3> QED  BY <3>1, <3>2 DEF Ids!Allocators
  <2> QED  BY <2>1, <2>2
<1>4. ASSUME NEW id \in Nat PROVE Ids!dealloc(a, id) \in Ids!Allocators
  <2> DEFINE r == Append(a.recycled, id)
  <2>1. r \in Seq(Nat)
    BY <1>1
  <2>2. Ids!dealloc(a, id) = [a EXCEPT !.recycled = r]
    BY DEF Ids!dealloc
  <2> HIDE DEF r
  <2> QED  BY <2>1, <2>2 DEF Ids!Allocators
<1> QED  BY <1>2, <1>3, <1>4

\* The kernel's part of a machine.
KernelHolds(w, O) ==
    /\ w = [m |-> w.m, kernel |-> w.kernel, kstacks |-> w.kstacks]
    /\ Holds([m |-> w.m, s |-> w.kernel], O)
    /\ w.kstacks \in Ids!Allocators

\* kstack_alloc: a stack is an area of the kernel's space.
LEMMA KstackAllocFacts ==
    ASSUME NEW w, NEW O, KernelHolds(w, O)
    PROVE  LET v == kstack_alloc(w)
           IN  KernelHolds(v, O) /\ (v.m.enough => w.m.enough)
<1> DEFINE id == Ids!allocated(w.kstacks)
           pos == kernel_stack_position(id)
           x == [m |-> w.m, s |-> w.kernel]
           y == insert_framed_area(x, pos.bottom, pos.top, 0)
           ids == Ids!alloc(w.kstacks)
           v == kstack_alloc(w)
<1> SUFFICES KernelHolds(v, O) /\ (v.m.enough => w.m.enough)
  OBVIOUS
<1>1. id \in Nat /\ ids \in Ids!Allocators
  BY IdFacts DEF KernelHolds
<1>2. v = [m |-> y.m, kernel |-> y.s, kstacks |-> ids]
  BY DEF kstack_alloc, WithKernel
<1> HIDE DEF id, ids
<1>3. pos.bottom \in Int /\ pos.top \in Int /\ 0 \in Nat
  BY <1>1, KstackPosition
<1>4. Holds(x, O) /\ x.m = w.m
  BY DEF KernelHolds
<1> HIDE DEF pos, x
<1>5. Holds(y, O) /\ (y.m.enough => x.m.enough)
  BY <1>3, <1>4, InsertFacts
<1>6. y = [m |-> y.m, s |-> y.s]
  BY <1>5 DEF Holds
<1> HIDE DEF y, v
<1>7. /\ v = [m |-> v.m, kernel |-> v.kernel, kstacks |-> v.kstacks]
      /\ [m |-> v.m, s |-> v.kernel] = y /\ v.m = y.m /\ v.kstacks = ids
  BY <1>2, <1>6
<1> QED  BY <1>1, <1>4, <1>5, <1>7 DEF KernelHolds

\* The loop over kernel stacks that are dropped.
KdropInv(p, v) == KernelHolds(v, p.others) /\ v.m.enough = p.enough

KdropOne(p, v, id) ==
    WithKernel(remove_area_with_start_vpn([m |-> v.m, s |-> v.kernel],
                                          kernel_stack_position(id).bottom),
               Ids!dealloc(v.kstacks, id))

Kdrops == INSTANCE QueueLemmas WITH FoldOp <- KdropOne, FoldInv <- KdropInv

\* KernelStacks are dropped: the kernel gives back their frames.
LEMMA KstackDropFacts ==
    ASSUME NEW w, NEW O, KernelHolds(w, O), NEW ids \in Seq(Nat)
    PROVE  LET v == kstack_drop(w, ids)
           IN  KernelHolds(v, O) /\ v.m.enough = w.m.enough
<1> DEFINE p == [others |-> O, enough |-> w.m.enough]
           n == Len(ids)
<1>1. n \in Nat /\ DOMAIN ids = 1..n /\ \A i \in 1..n : ids[i] \in Nat
  BY LenProperties
<1>2. KdropInv(p, w)
  BY DEF KdropInv
<1>3. ASSUME NEW v, KdropInv(p, v), NEW id \in Nat
      PROVE  KdropInv(p, KdropOne(p, v, id))
  <2> DEFINE x == [m |-> v.m, s |-> v.kernel]
             y == remove_area_with_start_vpn(x, kernel_stack_position(id).bottom)
             k == Ids!dealloc(v.kstacks, id)
             r == KdropOne(p, v, id)
  <2>1. KernelHolds(v, O) /\ v.m.enough = w.m.enough
    BY <1>3 DEF KdropInv
  <2>2. k \in Ids!Allocators
    BY <1>3, <2>1, IdFacts DEF KernelHolds
  <2>3. Holds(x, O) /\ x.m = v.m
    BY <2>1 DEF KernelHolds
  <2>4. r = [m |-> y.m, kernel |-> y.s, kstacks |-> k]
    BY DEF KdropOne, WithKernel
  <2> HIDE DEF x, k
  <2>5. Holds(y, O) /\ y.m.enough = x.m.enough
    BY <2>3, RemoveWithStart
  <2>6. y = [m |-> y.m, s |-> y.s]
    BY <2>5 DEF Holds
  <2> HIDE DEF y, r
  <2>7. /\ r = [m |-> r.m, kernel |-> r.kernel, kstacks |-> r.kstacks]
        /\ [m |-> r.m, s |-> r.kernel] = y /\ r.m = y.m /\ r.kstacks = k
    BY <2>4, <2>6
  <2>8. KernelHolds(r, O) /\ r.m.enough = w.m.enough
    BY <2>1, <2>2, <2>3, <2>5, <2>7 DEF KernelHolds
  <2> QED  BY <2>8 DEF KdropInv, r
<1>4. \A i \in 1..n : \A v : KdropInv(p, v) => KdropInv(p, KdropOne(p, v, ids[i]))
  BY <1>1, <1>3
<1>5. kstack_drop(w, ids) = Kdrops!Fold(p, w, ids)
  BY DEF kstack_drop, KdropOne, Kdrops!Fold, Kdrops!FoldLeft,
         Kdrops!MapThenFoldSet, Kdrops!Max, FoldLeft, MapThenFoldSet, Max
<1> HIDE DEF p, n
<1>6. KdropInv(p, Kdrops!Fold(p, w, ids))
  BY <1>1, <1>2, <1>4, Kdrops!FoldKeeps
<1> QED  BY <1>5, <1>6 DEF KdropInv, p

\* alloc_user_res: a user stack and a page for the trap context.
LEMMA AllocResFacts ==
    ASSUME NEW x, NEW O, Holds(x, O), NEW base \in Int, NEW tid \in Int
    PROVE  LET y == alloc_user_res(x, base, tid)
           IN  Holds(y, O) /\ (y.m.enough => x.m.enough)
<1> DEFINE bottom == ustack_bottom_from_tid(base, tid)
           trap_cx == trap_cx_bottom_from_tid(tid)
           u == insert_framed_area(x, bottom, bottom + USER_STACK_SIZE, U)
           y == insert_framed_area(u, trap_cx, trap_cx + 1, 0)
<1>1. tid * (USER_STACK_SIZE + 1) \in Int
  BY Positions
<1>2. /\ bottom \in Int /\ bottom + USER_STACK_SIZE \in Int
      /\ trap_cx \in Int /\ trap_cx + 1 \in Int
      /\ U \in Nat /\ 0 \in Nat
  BY <1>1, Positions DEF ustack_bottom_from_tid, trap_cx_bottom_from_tid
<1>3. alloc_user_res(x, base, tid) = y
  BY DEF alloc_user_res
<1> HIDE DEF bottom, trap_cx
<1>4. Holds(u, O) /\ (u.m.enough => x.m.enough)
  BY <1>2, InsertFacts
<1> HIDE DEF u
<1>5. Holds(y, O) /\ (y.m.enough => u.m.enough)
  BY <1>2, <1>4, InsertFacts
<1> QED  BY <1>3, <1>4, <1>5

\* The loop over threads whose resources are given back.
ShrinkInv(p, y) == Holds(y, p.others) /\ y.m.enough = p.enough

ShrinkOne(p, y, tid) ==
    IF tid \in p.tids THEN DeallocOne(y, p.base, tid) ELSE y

Shrinks == INSTANCE QueueLemmas WITH FoldOp <- ShrinkOne, FoldInv <- ShrinkInv

\* dealloc_user_res: the frames of the stacks and trap contexts.
LEMMA DeallocResFacts ==
    ASSUME NEW x, NEW O, Holds(x, O), NEW base, NEW tids
    PROVE  LET y == dealloc_user_res(x, base, tids)
           IN  Holds(y, O) /\ y.m.enough = x.m.enough
<1> DEFINE p == [others |-> O, enough |-> x.m.enough, base |-> base,
                 tids |-> tids]
           n == MaxTid + 1
           seq == [i \in 1..n |-> i - 1]
<1>1. n \in Nat /\ DOMAIN seq = 1..n
  BY Positions
<1>2. ShrinkInv(p, x)
  BY DEF ShrinkInv
<1>3. ASSUME NEW y, ShrinkInv(p, y), NEW tid
      PROVE  ShrinkInv(p, ShrinkOne(p, y, tid))
  <2>1. CASE tid \in p.tids
    <3> DEFINE u == remove_area_with_start_vpn(
                        y, ustack_bottom_from_tid(p.base, tid))
               r == remove_area_with_start_vpn(u, trap_cx_bottom_from_tid(tid))
    <3>1. Holds(y, O) /\ y.m.enough = x.m.enough
      BY <1>3 DEF ShrinkInv
    <3>2. ShrinkOne(p, y, tid) = r
      BY <2>1 DEF ShrinkOne, DeallocOne
    <3>3. Holds(u, O) /\ u.m.enough = y.m.enough
      BY <3>1, RemoveWithStart
    <3> HIDE DEF u
    <3>4. Holds(r, O) /\ r.m.enough = u.m.enough
      BY <3>3, RemoveWithStart
    <3> HIDE DEF r
    <3> QED  BY <3>1, <3>2, <3>3, <3>4 DEF ShrinkInv
  <2>2. CASE tid \notin p.tids
    BY <1>3, <2>2 DEF ShrinkOne
  <2> QED  BY <2>1, <2>2
<1>4. dealloc_user_res(x, base, tids) = Shrinks!Fold(p, x, seq)
  BY DEF dealloc_user_res, ShrinkOne, Shrinks!Fold, Shrinks!FoldLeft,
         Shrinks!MapThenFoldSet, Shrinks!Max, FoldLeft, MapThenFoldSet, Max
<1> HIDE DEF p, n, seq
<1>5. ShrinkInv(p, Shrinks!Fold(p, x, seq))
  BY <1>1, <1>2, <1>3, Shrinks!FoldKeeps
<1> QED  BY <1>4, <1>5 DEF ShrinkInv, p

\* A trap context is written.
LEMMA TrapFacts ==
    ASSUME NEW a, IsMachine(a), NEW ppn, NEW kstack
    PROVE  SameFrames(init_trap_cx(a, ppn, kstack), a)
<1> DEFINE z == [a.mem EXCEPT ![ppn][0] = kernel_stack_position(kstack).top]
<1>1. init_trap_cx(a, ppn, kstack) = [a EXCEPT !.mem = z]
  BY DEF init_trap_cx
<1> HIDE DEF z
<1>2. SameFrames([a EXCEPT !.mem = z], a)
  BY StoreFacts
<1> QED  BY <1>1, <1>2

-----------------------------------------------------------------------------
(* The system                                                              *)

\* A control block, whatever its trap context and its tids are.
TaskOk(t) ==
    /\ t = [kstack |-> t.kstack, trap_cx_ppn |-> t.trap_cx_ppn,
            exited |-> t.exited]
    /\ t.kstack \in Nat

IsProcess(r) ==
    /\ r = [zombie |-> r.zombie, space |-> r.space, base |-> r.base,
            tids |-> r.tids, tasks |-> r.tasks, held |-> r.held]
    /\ r.space \in SpaceSet
    /\ r.base \in Int
    /\ r.tasks = [i \in DOMAIN r.tasks |-> r.tasks[i]]
    /\ \A i \in DOMAIN r.tasks : r.tasks[i] = None \/ TaskOk(r.tasks[i])
    /\ r.zombie => TaskOk(r.tasks[1])

\* The frames of the processes other than p.
Rest(ps, p) ==
    {f \in Nat : \E q \in DOMAIN ps \ {p} : f \in Owned(ps[q].space)}

\* What is kept: types, and that the frames that are given out are those of
\* the kernel and of the processes, each once.
Processes(ps) ==
    /\ ps = [p \in DOMAIN ps |-> ps[p]]
    /\ \A p \in DOMAIN ps : IsProcess(ps[p]) /\ Clean(ps[p].space)
    /\ \A p, q \in DOMAIN ps :
          p # q => Owned(ps[p].space) \cap Owned(ps[q].space) = {}
Ledger(a, k, ids, ps) ==
    /\ a.enough
    /\ Processes(ps)
    /\ KernelHolds([m |-> a, kernel |-> k, kstacks |-> ids],
                   {f \in Nat : \E q \in DOMAIN ps : f \in Owned(ps[q].space)})
FramesIInv == Ledger(m, kernel, kstacks, procs)

\* Frames are numbers.
LEMMA OwnedNat ==
    ASSUME NEW s \in SpaceSet
    PROVE  Owned(s) \subseteq Nat
<1>1. s.frames \in Seq(Nat)
  BY DEF SpaceSet
<1> QED  BY <1>1, LenProperties DEF Owned, AreaOwned, Range

\* All frames of processes, as those of p and the others.
LEMMA Split ==
    ASSUME NEW ps, Processes(ps), NEW p \in DOMAIN ps
    PROVE  /\ {f \in Nat : \E q \in DOMAIN ps : f \in Owned(ps[q].space)}
                = Owned(ps[p].space) \cup Rest(ps, p)
           /\ Owned(ps[p].space) \cap Rest(ps, p) = {}
<1>1. Owned(ps[p].space) \subseteq Nat
  BY OwnedNat DEF Processes, IsProcess
<1> QED  BY <1>1 DEF Rest, Processes

\* What the ledger says of the space of one process.
LEMMA OpenProcess ==
    ASSUME NEW a, NEW k, NEW ids, NEW ps, Ledger(a, k, ids, ps),
           NEW p \in DOMAIN ps
    PROVE  /\ Holds([m |-> a, s |-> ps[p].space], Owned(k) \cup Rest(ps, p))
           /\ k \in SpaceSet /\ Clean(k) /\ Owned(k) \cap Rest(ps, p) = {}
           /\ ids \in Ids!Allocators
           /\ IsProcess(ps[p]) /\ Clean(ps[p].space)
           /\ IsMachine(a) /\ a.enough
<1> DEFINE s == ps[p].space
           R == Rest(ps, p)
           P == {f \in Nat : \E q \in DOMAIN ps : f \in Owned(ps[q].space)}
           w == [m |-> a, kernel |-> k, kstacks |-> ids]
<1>1. w.m = a /\ w.kernel = k /\ w.kstacks = ids
  OBVIOUS
<1>2. KernelHolds(w, P) /\ a.enough /\ Processes(ps)
  BY DEF Ledger
<1> HIDE DEF w, P
<1>3. Holds([m |-> a, s |-> k], P) /\ ids \in Ids!Allocators
  BY <1>1, <1>2 DEF KernelHolds
<1>4. k \in SpaceSet
  <2>1. [m |-> a, s |-> k].s \in SpaceSet
    BY <1>3 DEF Holds
  <2> QED  BY <2>1
<1>5. IsMachine(a) /\ Gave(a, Owned(k) \cup P) /\ Clean(k) /\ Owned(k) \cap P = {}
  BY <1>2, <1>3, <1>4, HoldsMeans
<1>6. P = Owned(s) \cup R /\ Owned(s) \cap R = {}
  BY <1>2, Split DEF P
<1>7. IsProcess(ps[p]) /\ Clean(s) /\ s \in SpaceSet
  BY <1>2 DEF Processes, IsProcess
<1>8. Owned(k) \cup P = Owned(s) \cup (Owned(k) \cup R)
  BY <1>6
<1>9. Gave(a, Owned(s) \cup (Owned(k) \cup R))
  BY <1>5, <1>8
<1>10. Owned(s) \cap (Owned(k) \cup R) = {} /\ Owned(k) \cap R = {}
  BY <1>5, <1>6
<1> HIDE DEF s, R
<1>11. Holds([m |-> a, s |-> s], Owned(k) \cup R)
  BY <1>5, <1>7, <1>9, <1>10, HoldsMeans
<1> QED  BY <1>2, <1>3, <1>4, <1>5, <1>7, <1>10, <1>11 DEF s, R

\* From the space of a process to that of the kernel.
LEMMA ToKernel ==
    ASSUME NEW x, NEW k \in SpaceSet, NEW R, Holds(x, Owned(k) \cup R),
           Clean(k), Owned(k) \cap R = {}, NEW ids \in Ids!Allocators
    PROVE  KernelHolds([m |-> x.m, kernel |-> k, kstacks |-> ids],
                       Owned(x.s) \cup R)
<1> DEFINE w == [m |-> x.m, kernel |-> k, kstacks |-> ids]
<1>1. /\ x.s \in SpaceSet /\ IsMachine(x.m)
      /\ Gave(x.m, Owned(x.s) \cup (Owned(k) \cup R))
      /\ x.m.enough => Owned(x.s) \cap (Owned(k) \cup R) = {}
  BY HoldsGives
<1>2. Owned(x.s) \cup (Owned(k) \cup R) = Owned(k) \cup (Owned(x.s) \cup R)
  OBVIOUS
<1>3. Gave(x.m, Owned(k) \cup (Owned(x.s) \cup R))
  BY <1>1, <1>2
<1>4. x.m.enough => Clean(k) /\ Owned(k) \cap (Owned(x.s) \cup R) = {}
  BY <1>1
<1>5. Holds([m |-> x.m, s |-> k], Owned(x.s) \cup R)
  BY <1>1, <1>3, <1>4, HoldsMeans
<1>6. /\ w = [m |-> w.m, kernel |-> w.kernel, kstacks |-> w.kstacks]
      /\ w.m = x.m /\ w.kernel = k /\ w.kstacks = ids
  OBVIOUS
<1> HIDE DEF w
<1>7. KernelHolds(w, Owned(x.s) \cup R)
  BY <1>5, <1>6 DEF KernelHolds
<1> QED  BY <1>7 DEF w

\* The ledger after a call that changes one process, or makes it.
LEMMA Settle ==
    ASSUME NEW ps, Processes(ps), NEW p, NEW qs,
           qs = [q \in DOMAIN qs |-> qs[q]], p \in DOMAIN qs,
           DOMAIN qs \ {p} = DOMAIN ps \ {p},
           \A q \in DOMAIN ps \ {p} : qs[q] = ps[q],
           IsProcess(qs[p]), Clean(qs[p].space),
           Owned(qs[p].space) \cap Rest(ps, p) = {},
           NEW w, KernelHolds(w, Owned(qs[p].space) \cup Rest(ps, p)),
           w.m.enough
    PROVE  Ledger(w.m, w.kernel, w.kstacks, qs)
<1>1. \A q \in DOMAIN ps \ {p} :
         /\ qs[q] = ps[q] /\ IsProcess(ps[q]) /\ Clean(ps[q].space)
         /\ Owned(ps[q].space) \subseteq Rest(ps, p)
  <2> SUFFICES ASSUME NEW q \in DOMAIN ps \ {p}
               PROVE  /\ IsProcess(ps[q]) /\ Clean(ps[q].space)
                      /\ Owned(ps[q].space) \subseteq Rest(ps, p)
    OBVIOUS
  <2>1. IsProcess(ps[q]) /\ Clean(ps[q].space)
    BY DEF Processes
  <2>2. Owned(ps[q].space) \subseteq Nat
    BY <2>1, OwnedNat DEF IsProcess
  <2> QED  BY <2>1, <2>2 DEF Rest
<1>2. \A q \in DOMAIN qs : q = p \/ q \in DOMAIN ps \ {p}
  OBVIOUS
<1>3. \A q \in DOMAIN qs : IsProcess(qs[q]) /\ Clean(qs[q].space)
  BY <1>1, <1>2
<1>4. ASSUME NEW q \in DOMAIN qs, NEW r \in DOMAIN qs, q # r
      PROVE  Owned(qs[q].space) \cap Owned(qs[r].space) = {}
  <2>1. CASE q = p
    <3>1. r \in DOMAIN ps \ {p}
      BY <1>2, <1>4, <2>1
    <3> QED  BY <1>1, <2>1, <3>1
  <2>2. CASE r = p
    <3>1. q \in DOMAIN ps \ {p}
      BY <1>2, <1>4, <2>2
    <3> QED  BY <1>1, <2>2, <3>1
  <2>3. CASE q # p /\ r # p
    <3>1. q \in DOMAIN ps \ {p} /\ r \in DOMAIN ps \ {p}
      BY <1>2, <2>3
    <3> QED  BY <1>1, <1>4, <3>1 DEF Processes
  <2> QED  BY <2>1, <2>2, <2>3
<1>5. Processes(qs)
  BY <1>3, <1>4 DEF Processes
<1>6. Rest(qs, p) = Rest(ps, p)
  BY <1>1 DEF Rest
<1>7. {f \in Nat : \E q \in DOMAIN qs : f \in Owned(qs[q].space)}
        = Owned(qs[p].space) \cup Rest(ps, p)
  BY <1>5, <1>6, Split
<1>8. [m |-> w.m, kernel |-> w.kernel, kstacks |-> w.kstacks] = w
  BY DEF KernelHolds
<1> QED  BY <1>5, <1>7, <1>8 DEF Ledger

\* A call that takes effect, or panics.
LEMMA OutcomeKeeps ==
    ASSUME NEW w, NEW ps, NEW us, Outcome(w, ps, us), FramesIInv,
           w.m.enough => Ledger(w.m, w.kernel, w.kstacks, ps)
    PROVE  FramesIInv'
<1>1. CASE w.m.enough
  <2>1. m' = w.m /\ kernel' = w.kernel /\ kstacks' = w.kstacks /\ procs' = ps
    BY <1>1 DEF Outcome
  <2> QED  BY <1>1, <2>1 DEF FramesIInv
<1>2. CASE ~w.m.enough
  <2>1. UNCHANGED <<m, kernel, kstacks, procs>>
    BY <1>2 DEF Outcome
  <2> QED  BY <2>1 DEF FramesIInv
<1> QED  BY <1>1, <1>2

\* A trap context is written when a call is done.
LEMMA WithTrapContext ==
    ASSUME NEW w, NEW O, KernelHolds(w, O), NEW ppn, NEW id
    PROVE  LET v == [w EXCEPT !.m = init_trap_cx(@, ppn, id)]
           IN  KernelHolds(v, O) /\ v.m.enough = w.m.enough
<1> DEFINE a == init_trap_cx(w.m, ppn, id)
           v == [w EXCEPT !.m = a]
           x == [m |-> w.m, s |-> w.kernel]
           y == [m |-> a, s |-> w.kernel]
<1>1. Holds(x, O) /\ w.kstacks \in Ids!Allocators
  BY DEF KernelHolds
<1>2. IsMachine(w.m)
  <2>1. IsMachine(x.m)
    BY <1>1 DEF Holds, Holding
  <2> QED  BY <2>1
<1>3. SameFrames(a, w.m)
  BY <1>2, TrapFacts
<1> HIDE DEF a
<1>4. v = [m |-> a, kernel |-> w.kernel, kstacks |-> w.kstacks]
  BY DEF KernelHolds
<1>5. Holds(y, O)
  <2>1. y = [m |-> y.m, s |-> y.s] /\ y.s = x.s /\ y.m = a /\ x.m = w.m
    OBVIOUS
  <2> HIDE DEF x, y
  <2> QED  BY <1>1, <1>3, <2>1, SameHolds
<1> HIDE DEF v
<1>6. /\ v = [m |-> v.m, kernel |-> v.kernel, kstacks |-> v.kstacks]
      /\ [m |-> v.m, s |-> v.kernel] = y /\ v.m = a /\ v.kstacks = w.kstacks
  BY <1>4
<1>7. KernelHolds(v, O) /\ v.m.enough = w.m.enough
  BY <1>1, <1>3, <1>5, <1>6 DEF KernelHolds, SameFrames
<1> QED  BY <1>7 DEF v, a

\* A new control block.
LEMMA NewProcess ==
    ASSUME NEW space \in SpaceSet, NEW base \in Int, NEW id \in Nat, NEW trap_cx
    PROVE  LET r == Process(space, base, Task(id, trap_cx))
           IN  IsProcess(r) /\ r.space = space
<1> DEFINE task == Task(id, trap_cx)
           r == Process(space, base, task)
<1>1. TaskOk(task)
  BY DEF Task, TaskOk
<1> HIDE DEF task
<1>2. /\ r = [zombie |-> r.zombie, space |-> r.space, base |-> r.base,
              tids |-> r.tids, tasks |-> r.tasks, held |-> r.held]
      /\ r.zombie = FALSE /\ r.space = space /\ r.base = base
      /\ r.tasks = <<task>>
  BY DEF Process
<1> HIDE DEF r
<1>3. /\ DOMAIN <<task>> = {1} /\ <<task>>[1] = task
      /\ <<task>> = [i \in DOMAIN <<task>> |-> <<task>>[i]]
  OBVIOUS
<1>4. IsProcess(r)
  BY <1>1, <1>2, <1>3 DEF IsProcess
<1> QED  BY <1>2, <1>4 DEF r, task

\* fork gives the child frames of its own.
LEMMA ForkKeeps ==
    ASSUME FramesIInv, NEW p, NEW child, fork(p, child)
    PROVE  FramesIInv'
<1>0. p \in DOMAIN procs /\ child \notin DOMAIN procs
  BY DEF fork, Runs, Live
<1>1. PICK x \in {from_existed_user(m, procs[p].space)},
           id \in {Ids!allocated(kstacks)} :
         \E trap_cx \in {trap_cx_ppn(x, 0)},
            w \in {kstack_alloc([m |-> x.m, kernel |-> kernel,
                                 kstacks |-> kstacks])} :
            Outcome([w EXCEPT !.m = init_trap_cx(@, trap_cx, id)],
                    [q \in DOMAIN procs \cup {child} |->
                        IF q = child
                        THEN Process(x.s, procs[p].base, Task(id, trap_cx))
                        ELSE procs[q]],
                    [user EXCEPT ![child] = user[p]])
  BY DEF fork
<1>2. PICK trap_cx \in {trap_cx_ppn(x, 0)},
           w \in {kstack_alloc([m |-> x.m, kernel |-> kernel,
                                kstacks |-> kstacks])} :
            Outcome([w EXCEPT !.m = init_trap_cx(@, trap_cx, id)],
                    [q \in DOMAIN procs \cup {child} |->
                        IF q = child
                        THEN Process(x.s, procs[p].base, Task(id, trap_cx))
                        ELSE procs[q]],
                    [user EXCEPT ![child] = user[p]])
  BY <1>1
<1> DEFINE new == Process(x.s, procs[p].base, Task(id, trap_cx))
           qs == [q \in DOMAIN procs \cup {child} |->
                     IF q = child THEN new ELSE procs[q]]
           v == [w EXCEPT !.m = init_trap_cx(@, trap_cx, id)]
           s == procs[p].space
           R == Rest(procs, child)
<1>3. /\ Holds([m |-> m, s |-> s], Owned(kernel) \cup Rest(procs, p))
      /\ kernel \in SpaceSet /\ Clean(kernel)
      /\ kstacks \in Ids!Allocators /\ IsProcess(procs[p])
      /\ IsMachine(m)
  BY <1>0, OpenProcess DEF FramesIInv
<1>4. Processes(procs)
  BY DEF FramesIInv, Ledger
<1>5. Gave(m, Owned(kernel) \cup R) /\ Owned(kernel) \cap R = {}
  <2> DEFINE P == {f \in Nat : \E q \in DOMAIN procs : f \in Owned(procs[q].space)}
             u == [m |-> m, kernel |-> kernel, kstacks |-> kstacks]
  <2>1. P = R
    BY <1>0 DEF Rest
  <2>2. KernelHolds(u, P) /\ m.enough
    BY DEF FramesIInv, Ledger
  <2>3. Holds([m |-> u.m, s |-> u.kernel], P)
    BY <2>2 DEF KernelHolds
  <2>4. Holds([m |-> m, s |-> kernel], P)
    BY <2>3
  <2> HIDE DEF P
  <2>5. Gave(m, Owned(kernel) \cup P) /\ Owned(kernel) \cap P = {}
    BY <1>3, <2>2, <2>4, HoldsMeans
  <2> QED  BY <2>1, <2>5
<1>6. Holds(x, Owned(kernel) \cup R)
  <2>1. s \in SpaceSet
    BY <1>3 DEF IsProcess
  <2> QED  BY <1>3, <1>5, <2>1, CloneFacts
<1>7. KernelHolds([m |-> x.m, kernel |-> kernel, kstacks |-> kstacks],
                  Owned(x.s) \cup R)
  BY <1>3, <1>5, <1>6, ToKernel
<1>8. KernelHolds(w, Owned(x.s) \cup R) /\ (w.m.enough => x.m.enough)
  <2> DEFINE u == [m |-> x.m, kernel |-> kernel, kstacks |-> kstacks]
  <2>1. w = kstack_alloc(u) /\ u.m = x.m
    OBVIOUS
  <2> HIDE DEF u
  <2> QED  BY <1>7, <2>1, KstackAllocFacts DEF u
<1>9. KernelHolds(v, Owned(x.s) \cup R) /\ v.m.enough = w.m.enough
  BY <1>8, WithTrapContext
<1>10. IsProcess(new) /\ new.space = x.s
  <2>1. x.s \in SpaceSet
    BY <1>6 DEF Holds
  <2>2. procs[p].base \in Int
    BY <1>3 DEF IsProcess
  <2>3. id \in Nat
    BY <1>3, IdFacts
  <2> QED  BY <2>1, <2>2, <2>3, NewProcess
<1> HIDE DEF new, v
<1>11. /\ DOMAIN qs = DOMAIN procs \cup {child} /\ qs[child] = new
       /\ \A q \in DOMAIN procs \ {child} : qs[q] = procs[q]
       /\ qs = [q \in DOMAIN qs |-> qs[q]]
  OBVIOUS
<1>12. Outcome(v, qs, [user EXCEPT ![child] = user[p]])
  BY <1>2 DEF v, new
<1> HIDE DEF qs
<1>13. ASSUME v.m.enough PROVE Ledger(v.m, v.kernel, v.kstacks, qs)
  <2>1. Clean(x.s) /\ Owned(x.s) \cap R = {}
    <3>1. x.m.enough
      BY <1>8, <1>9, <1>13
    <3>2. Clean(x.s) /\ Owned(x.s) \cap (Owned(kernel) \cup R) = {}
      BY <1>6, <3>1, HoldsGives
    <3> QED  BY <3>2
  <2>2. DOMAIN qs \ {child} = DOMAIN procs \ {child} /\ child \in DOMAIN qs
    BY <1>11
  <2>3. /\ IsProcess(qs[child]) /\ Clean(qs[child].space)
        /\ Owned(qs[child].space) \cap R = {}
        /\ KernelHolds(v, Owned(qs[child].space) \cup R)
    BY <1>9, <1>10, <1>11, <2>1
  <2> QED  BY <1>4, <1>11, <1>13, <2>2, <2>3, Settle
<1> QED  BY <1>12, <1>13, OutcomeKeeps

\* The end of a call that changes process p: x has its space.
LEMMA ChangeKeeps ==
    ASSUME FramesIInv, NEW p \in DOMAIN procs, NEW x,
           Holds(x, Owned(kernel) \cup Rest(procs, p)),
           NEW v, KernelHolds(v, Owned(x.s) \cup Rest(procs, p)),
           v.m.enough => x.m.enough,
           NEW r, IsProcess(r), r.space = x.s,
           NEW us, Outcome(v, [procs EXCEPT ![p] = r], us)
    PROVE  FramesIInv'
<1> DEFINE qs == [procs EXCEPT ![p] = r]
           R == Rest(procs, p)
<1>1. Processes(procs)
  BY DEF FramesIInv, Ledger
<1>2. procs = [q \in DOMAIN procs |-> procs[q]]
  BY <1>1 DEF Processes
<1>3. /\ DOMAIN qs = DOMAIN procs /\ qs[p] = r
      /\ \A q \in DOMAIN procs \ {p} : qs[q] = procs[q]
      /\ qs = [q \in DOMAIN qs |-> qs[q]]
  BY <1>2
<1> HIDE DEF qs
<1>4. ASSUME v.m.enough PROVE Ledger(v.m, v.kernel, v.kstacks, qs)
  <2>1. Clean(x.s) /\ Owned(x.s) \cap (Owned(kernel) \cup R) = {}
    BY <1>4, HoldsGives
  <2>2. Owned(x.s) \cap R = {}
    BY <2>1
  <2>3. DOMAIN qs \ {p} = DOMAIN procs \ {p} /\ p \in DOMAIN qs
    BY <1>3
  <2>4. /\ IsProcess(qs[p]) /\ Clean(qs[p].space)
        /\ Owned(qs[p].space) \cap R = {}
        /\ KernelHolds(v, Owned(qs[p].space) \cup R)
    BY <1>3, <2>1, <2>2
  <2> QED  BY <1>1, <1>3, <1>4, <2>3, <2>4, Settle
<1> QED  BY <1>4, OutcomeKeeps DEF qs

\* An entry that is changed twice.
LEMMA EditTwice ==
    ASSUME NEW f, f = [q \in DOMAIN f |-> f[q]], NEW p \in DOMAIN f,
           NEW a, NEW g, g = [f EXCEPT ![p] = a]
    PROVE  /\ g[p] = a
           /\ \A b : [g EXCEPT ![p] = b] = [f EXCEPT ![p] = b]
  OBVIOUS

\* Another space is dropped, while x has one.
LEMMA DropOther ==
    ASSUME NEW x, NEW s \in SpaceSet, NEW O, Holds(x, Owned(s) \cup O),
           Clean(s), Owned(s) \cap O = {}
    PROVE  LET y == [x EXCEPT !.m = drop_space(@, s)]
           IN  Holds(y, O) /\ y.m.enough = x.m.enough
<1> DEFINE d == drop_space(x.m, s)
           y == [x EXCEPT !.m = d]
           H == Owned(x.s) \cup O
<1>1. /\ x.s \in SpaceSet /\ IsMachine(x.m)
      /\ Gave(x.m, Owned(x.s) \cup (Owned(s) \cup O))
      /\ x.m.enough => Clean(x.s) /\ Owned(x.s) \cap (Owned(s) \cup O) = {}
  BY HoldsGives
<1>2. Owned(x.s) \cup (Owned(s) \cup O) = Owned(s) \cup H
  OBVIOUS
<1>3. Gave(x.m, Owned(s) \cup H) /\ (x.m.enough => Owned(s) \cap H = {})
  BY <1>1, <1>2
<1> HIDE DEF H
<1>4. IsMachine(d) /\ d.enough = x.m.enough /\ Gave(d, H)
  BY <1>1, <1>3, DropFacts
<1> HIDE DEF d
<1>5. y = [m |-> d, s |-> x.s] /\ y.m = d
  BY DEF Holds
<1>6. d.enough => Clean(x.s) /\ Owned(x.s) \cap O = {}
  BY <1>1, <1>4
<1>7. Holds([m |-> d, s |-> x.s], O)
  BY <1>1, <1>4, <1>6, HoldsMeans DEF H
<1>8. Holds(y, O) /\ y.m.enough = x.m.enough
  BY <1>4, <1>5, <1>7
<1> QED  BY <1>8 DEF d

\* exec: the frames of the old space are given back, all of them.
LEMMA ExecKeeps ==
    ASSUME FramesIInv, NEW p, NEW program \in Programs, exec(p, program)
    PROVE  FramesIInv'
<1>0. p \in DOMAIN procs /\ procs[p].tasks[1] # None /\ 1 \in DOMAIN procs[p].tasks
  BY DEF exec, Runs, Live, Exists
<1>1. PICK new \in {from_elf(m, program)},
           base \in {user_stack_base(program)} :
       \E x \in {alloc_user_res(
                     [new EXCEPT !.m = drop_space(@, procs[p].space)],
                     base, 0)} :
       \E task \in {NewTask(procs[p].tasks[1], trap_cx_ppn(x, 0))} :
          Outcome([m |-> init_trap_cx(x.m, task.trap_cx_ppn, task.kstack),
                   kernel |-> kernel, kstacks |-> kstacks],
                  [procs EXCEPT ![p].space = x.s,
                                ![p].base = base,
                                ![p].tasks = <<task>>],
                  [user EXCEPT ![p] = Loaded(program)])
  BY DEF exec
<1>2. PICK x \in {alloc_user_res(
                     [new EXCEPT !.m = drop_space(@, procs[p].space)],
                     base, 0)} :
       \E task \in {NewTask(procs[p].tasks[1], trap_cx_ppn(x, 0))} :
          Outcome([m |-> init_trap_cx(x.m, task.trap_cx_ppn, task.kstack),
                   kernel |-> kernel, kstacks |-> kstacks],
                  [procs EXCEPT ![p].space = x.s,
                                ![p].base = base,
                                ![p].tasks = <<task>>],
                  [user EXCEPT ![p] = Loaded(program)])
  BY <1>1
<1>3. PICK task \in {NewTask(procs[p].tasks[1], trap_cx_ppn(x, 0))} :
          Outcome([m |-> init_trap_cx(x.m, task.trap_cx_ppn, task.kstack),
                   kernel |-> kernel, kstacks |-> kstacks],
                  [procs EXCEPT ![p].space = x.s,
                                ![p].base = base,
                                ![p].tasks = <<task>>],
                  [user EXCEPT ![p] = Loaded(program)])
  BY <1>2
<1> DEFINE s == procs[p].space
           R == Rest(procs, p)
           O == Owned(kernel) \cup R
           w == [m |-> x.m, kernel |-> kernel, kstacks |-> kstacks]
           v == [w EXCEPT !.m = init_trap_cx(@, task.trap_cx_ppn, task.kstack)]
           y == [new EXCEPT !.m = drop_space(@, s)]
           r == [zombie |-> procs[p].zombie, space |-> x.s, base |-> base,
                 tids |-> procs[p].tids, tasks |-> <<task>>,
                 held |-> procs[p].held]
           us == [user EXCEPT ![p] = Loaded(program)]
<1>4. /\ Holds([m |-> m, s |-> s], O)
      /\ kernel \in SpaceSet /\ Clean(kernel) /\ Owned(kernel) \cap R = {}
      /\ kstacks \in Ids!Allocators /\ IsProcess(procs[p]) /\ Clean(s)
      /\ IsMachine(m) /\ m.enough
  BY <1>0, OpenProcess DEF FramesIInv
<1>5. s \in SpaceSet /\ TaskOk(procs[p].tasks[1])
  BY <1>0, <1>4 DEF IsProcess
<1>6. Gave(m, Owned(s) \cup O) /\ Owned(s) \cap O = {}
  <2> HIDE DEF s, O
  <2> QED  BY <1>4, <1>5, HoldsMeans
<1>7. Holds(new, Owned(s) \cup O)
  BY <1>4, <1>6, ElfFacts
<1>8. base \in Int
  <2> DEFINE Segments == [start : Nat, end : Nat, data : Seq(Nat)]
  <2>1. program \in Seq(Segments) /\ program # <<>>
    BY MemorySetAssumption
  <2>2. Last(program) \in Segments
    <3> HIDE DEF Segments
    <3> QED  BY <2>1, FrontTyped
  <2> QED  BY <2>2 DEF user_stack_base
<1>9. Holds(y, O)
  <2> HIDE DEF s, O
  <2> QED  BY <1>4, <1>5, <1>6, <1>7, DropOther
<1>10. Holds(x, O)
  <2>1. x = alloc_user_res(y, base, 0) /\ 0 \in Int
    OBVIOUS
  <2> HIDE DEF y, O
  <2> QED  BY <1>8, <1>9, <2>1, AllocResFacts
<1>11. KernelHolds(w, Owned(x.s) \cup R) /\ w.m = x.m
  BY <1>4, <1>10, ToKernel
<1> HIDE DEF w
<1>12. KernelHolds(v, Owned(x.s) \cup R) /\ v.m.enough = x.m.enough
  BY <1>11, WithTrapContext
<1>13. v = [m |-> init_trap_cx(x.m, task.trap_cx_ppn, task.kstack),
            kernel |-> kernel, kstacks |-> kstacks]
  BY DEF w
<1>14. TaskOk(task)
  BY <1>5 DEF NewTask, Task, TaskOk
<1>15. x.s \in SpaceSet
  BY <1>10 DEF Holds
<1>16. IsProcess(r) /\ r.space = x.s
  <2>1. /\ DOMAIN <<task>> = {1} /\ <<task>>[1] = task
        /\ <<task>> = [i \in DOMAIN <<task>> |-> <<task>>[i]]
    OBVIOUS
  <2> QED  BY <1>5, <1>8, <1>14, <1>15, <2>1 DEF IsProcess
<1>17. [procs EXCEPT ![p].space = x.s, ![p].base = base, ![p].tasks = <<task>>]
         = [procs EXCEPT ![p] = r]
  <2> DEFINE o == procs[p]
             r1 == [zombie |-> o.zombie, space |-> x.s, base |-> o.base,
                    tids |-> o.tids, tasks |-> o.tasks, held |-> o.held]
             r2 == [zombie |-> o.zombie, space |-> x.s, base |-> base,
                    tids |-> o.tids, tasks |-> o.tasks, held |-> o.held]
             f == [procs EXCEPT ![p].space = x.s]
             g == [f EXCEPT ![p].base = base]
             h == [g EXCEPT ![p].tasks = <<task>>]
  <2>1. procs = [q \in DOMAIN procs |-> procs[q]]
    BY DEF FramesIInv, Ledger, Processes
  <2>2. o = [zombie |-> o.zombie, space |-> o.space, base |-> o.base,
             tids |-> o.tids, tasks |-> o.tasks, held |-> o.held]
    BY <1>4 DEF IsProcess
  <2> HIDE DEF o
  <2>3. [o EXCEPT !.space = x.s] = r1
    BY <2>2
  <2>4. [r1 EXCEPT !.base = base] = r2
    OBVIOUS
  <2>5. [r2 EXCEPT !.tasks = <<task>>] = r
    BY DEF o
  <2> HIDE DEF r1, r2, r
  <2>6. f = [procs EXCEPT ![p] = r1]
    BY <2>3 DEF o
  <2> HIDE DEF f
  <2>7. g = [procs EXCEPT ![p] = r2]
    <3>1. f[p] = r1 /\ \A b : [f EXCEPT ![p] = b] = [procs EXCEPT ![p] = b]
      BY <1>0, <2>1, <2>6, EditTwice
    <3> QED  BY <2>4, <3>1
  <2> HIDE DEF g
  <2>8. h = [procs EXCEPT ![p] = r]
    <3>1. g[p] = r2 /\ \A b : [g EXCEPT ![p] = b] = [procs EXCEPT ![p] = b]
      BY <1>0, <2>1, <2>7, EditTwice
    <3> QED  BY <2>5, <3>1
  <2> QED  BY <2>8 DEF h, g, f
<1> HIDE DEF r, v
<1>18. Outcome(v, [procs EXCEPT ![p] = r], us)
  BY <1>3, <1>13, <1>17
<1> QED  BY <1>0, <1>10, <1>12, <1>16, <1>18, ChangeKeeps

\* A control block is marked.
LEMMA ExitedTask ==
    ASSUME NEW t, TaskOk(t), NEW b
    PROVE  TaskOk([t EXCEPT !.exited = b])
<1>1. [t EXCEPT !.exited = b]
         = [kstack |-> t.kstack, trap_cx_ppn |-> t.trap_cx_ppn, exited |-> b]
  BY SMTT(30) DEF TaskOk
<1> QED  BY <1>1 DEF TaskOk

\* thread_create: a stack and a trap context of the process, and a kernel
\* stack; the one of a thread that had this tid may be dropped.
LEMMA ThreadCreateKeeps ==
    ASSUME FramesIInv, NEW p, thread_create(p)
    PROVE  FramesIInv'
<1> DEFINE After(tid, id, x, trap_cx, v) ==
               Outcome([v EXCEPT !.m = init_trap_cx(@, trap_cx, id)],
                  [procs EXCEPT
                      ![p].space = x.s,
                      ![p].tids = Ids!alloc(@),
                      ![p].tasks = PutTask(@, tid, Task(id, trap_cx))],
                  [user EXCEPT ![p] =
                      [a \in UserPages(x.s) |->
                          IF a \in DOMAIN @ THEN @[a] ELSE 0]])
<1>0. p \in DOMAIN procs /\ ~procs[p].zombie
  BY SMTT(30) DEF thread_create, Live
<1>1. PICK tid \in {Ids!allocated(procs[p].tids)} \cap Tids,
           id \in {Ids!allocated(kstacks)} :
       \E x \in {alloc_user_res([m |-> m, s |-> procs[p].space],
                                procs[p].base, tid)} :
       \E trap_cx \in {trap_cx_ppn(x, tid)},
          w \in {kstack_alloc([m |-> x.m, kernel |-> kernel,
                               kstacks |-> kstacks])} :
       \E v \in {kstack_drop(w, IF Exists(p, tid)
                                THEN <<procs[p].tasks[tid + 1].kstack>>
                                ELSE <<>>)} : After(tid, id, x, trap_cx, v)
  BY ZenonT(60) DEF thread_create
<1> HIDE DEF After
<1>2. PICK x \in {alloc_user_res([m |-> m, s |-> procs[p].space],
                                procs[p].base, tid)} :
       \E trap_cx \in {trap_cx_ppn(x, tid)},
          w \in {kstack_alloc([m |-> x.m, kernel |-> kernel,
                               kstacks |-> kstacks])} :
       \E v \in {kstack_drop(w, IF Exists(p, tid)
                                THEN <<procs[p].tasks[tid + 1].kstack>>
                                ELSE <<>>)} : After(tid, id, x, trap_cx, v)
  BY SMTT(30), <1>1
<1>3. PICK trap_cx \in {trap_cx_ppn(x, tid)},
           w \in {kstack_alloc([m |-> x.m, kernel |-> kernel,
                                kstacks |-> kstacks])} :
       \E v \in {kstack_drop(w, IF Exists(p, tid)
                                THEN <<procs[p].tasks[tid + 1].kstack>>
                                ELSE <<>>)} : After(tid, id, x, trap_cx, v)
  BY SMTT(30), <1>2
<1>4. PICK v \in {kstack_drop(w, IF Exists(p, tid)
                                THEN <<procs[p].tasks[tid + 1].kstack>>
                                ELSE <<>>)} : After(tid, id, x, trap_cx, v)
  BY <1>3
<1> DEFINE o == procs[p]
           s == o.space
           R == Rest(procs, p)
           O == Owned(kernel) \cup R
           ids == IF Exists(p, tid) THEN <<procs[p].tasks[tid + 1].kstack>>
                  ELSE <<>>
           e == [v EXCEPT !.m = init_trap_cx(@, trap_cx, id)]
           task == Task(id, trap_cx)
           tasks == PutTask(o.tasks, tid, task)
           r == [zombie |-> o.zombie, space |-> x.s, base |-> o.base,
                 tids |-> Ids!alloc(o.tids), tasks |-> tasks, held |-> o.held]
           us == [user EXCEPT ![p] = [a \in UserPages(x.s) |->
                          IF a \in DOMAIN @ THEN @[a] ELSE 0]]
<1>5. /\ Holds([m |-> m, s |-> s], O)
      /\ kernel \in SpaceSet /\ Clean(kernel) /\ Owned(kernel) \cap R = {}
      /\ kstacks \in Ids!Allocators /\ IsProcess(o)
  BY <1>0, OpenProcess DEF FramesIInv
<1>6. tid \in Int /\ o.base \in Int /\ id \in Nat
  BY <1>5, IdFacts, Positions DEF IsProcess, Tids
<1>7. Holds(x, O)
  <2> DEFINE y == [m |-> m, s |-> s]
  <2>1. x = alloc_user_res(y, o.base, tid)
    BY SMTT(30)
  <2> HIDE DEF y, O, o
  <2> QED  BY <1>5, <1>6, <2>1, AllocResFacts DEF y
<1>8. KernelHolds(w, Owned(x.s) \cup R) /\ (w.m.enough => x.m.enough)
  <2> DEFINE u == [m |-> x.m, kernel |-> kernel, kstacks |-> kstacks]
  <2>1. w = kstack_alloc(u) /\ u.m = x.m
    OBVIOUS
  <2>2. KernelHolds(u, Owned(x.s) \cup R)
    BY <1>5, <1>7, ToKernel
  <2> HIDE DEF u
  <2> QED  BY <2>1, <2>2, KstackAllocFacts
<1>9. ids \in Seq(Nat)
  <2>1. CASE Exists(p, tid)
    <3>1. TaskOk(o.tasks[tid + 1])
      BY SMTT(30), <1>5, <2>1 DEF Exists, IsProcess
    <3>2. o.tasks[tid + 1].kstack \in Nat
      BY <3>1 DEF TaskOk
    <3> QED  BY SMTT(30), <2>1, <3>2
  <2>2. CASE ~Exists(p, tid)
    BY SMTT(30), <2>2
  <2> QED  BY SMTT(30), <2>1, <2>2
<1>10. KernelHolds(v, Owned(x.s) \cup R) /\ v.m.enough = w.m.enough
  <2>1. v = kstack_drop(w, ids)
    BY SMTT(30)
  <2> HIDE DEF ids, R
  <2> QED  BY <1>8, <1>9, <2>1, KstackDropFacts
<1>11. KernelHolds(e, Owned(x.s) \cup R) /\ e.m.enough = v.m.enough
  <2> DEFINE Q == Owned(x.s) \cup R
  <2> HIDE DEF Q
  <2>1. KernelHolds(v, Q)
    BY SMTT(30), <1>10 DEF Q
  <2>2. KernelHolds(e, Q) /\ e.m.enough = v.m.enough
    BY ONLY ZenonT(60), <2>1, WithTrapContext
  <2> QED  BY ZenonT(60), <2>2 DEF Q
<1>12. TaskOk(task)
  BY <1>6 DEF Task, TaskOk
<1>13. /\ tasks = [i \in DOMAIN tasks |-> tasks[i]]
       /\ \A i \in DOMAIN tasks : tasks[i] = None \/ TaskOk(tasks[i])
  <2> HIDE DEF task
  <2>1. \A i \in DOMAIN o.tasks : o.tasks[i] = None \/ TaskOk(o.tasks[i])
    BY SMTT(30), <1>5 DEF IsProcess
  <2> QED  BY <1>12, <2>1 DEF PutTask
<1>14. x.s \in SpaceSet
  BY <1>7 DEF Holds
<1>15. IsProcess(r) /\ r.space = x.s
  <2> HIDE DEF tasks
  <2> QED  BY <1>0, <1>5, <1>13, <1>14 DEF IsProcess
<1>16. [procs EXCEPT ![p].space = x.s, ![p].tids = Ids!alloc(@),
                     ![p].tasks = PutTask(@, tid, task)]
         = [procs EXCEPT ![p] = r]
  <2> HIDE DEF task
  <2> DEFINE r1 == [zombie |-> o.zombie, space |-> x.s, base |-> o.base,
                    tids |-> o.tids, tasks |-> o.tasks, held |-> o.held]
             r2 == [zombie |-> o.zombie, space |-> x.s, base |-> o.base,
                    tids |-> Ids!alloc(o.tids), tasks |-> o.tasks,
                    held |-> o.held]
             f == [procs EXCEPT ![p].space = x.s]
             g == [f EXCEPT ![p].tids = Ids!alloc(procs[p].tids)]
             h == [g EXCEPT ![p].tasks = PutTask(procs[p].tasks, tid, task)]
  <2>1. procs = [q \in DOMAIN procs |-> procs[q]]
    BY DEF FramesIInv, Ledger, Processes
  <2>2. o = [zombie |-> o.zombie, space |-> o.space, base |-> o.base,
             tids |-> o.tids, tasks |-> o.tasks, held |-> o.held]
    BY <1>5 DEF IsProcess
  <2> HIDE DEF o
  <2>3. [o EXCEPT !.space = x.s] = r1
    BY <2>2
  <2>4. [r1 EXCEPT !.tids = Ids!alloc(o.tids)] = r2
    OBVIOUS
  <2>5. [r2 EXCEPT !.tasks = PutTask(o.tasks, tid, task)] = r
    OBVIOUS
  <2> HIDE DEF r1, r2, r
  <2>6. f = [procs EXCEPT ![p] = r1]
    BY <2>3 DEF o
  <2> HIDE DEF f
  <2>7. g = [procs EXCEPT ![p] = r2]
    <3>1. f[p] = r1 /\ \A b : [f EXCEPT ![p] = b] = [procs EXCEPT ![p] = b]
      BY <1>0, <2>1, <2>6, EditTwice
    <3> QED  BY <2>4, <3>1 DEF o
  <2> HIDE DEF g
  <2>8. h = [procs EXCEPT ![p] = r]
    <3>1. g[p] = r2 /\ \A b : [g EXCEPT ![p] = b] = [procs EXCEPT ![p] = b]
      BY <1>0, <2>1, <2>7, EditTwice
    <3> QED  BY <2>5, <3>1 DEF o
  <2> QED  BY <2>8 DEF h, g, f
<1>17. e.m.enough => x.m.enough
  BY ZenonT(60), <1>8, <1>10, <1>11
<1> HIDE DEF r, e
<1>18. Outcome(e, [procs EXCEPT ![p] = r], us)
  BY ZenonT(60), <1>4, <1>16 DEF e, After
<1> QED  BY <1>0, <1>7, <1>11, <1>15, <1>17, <1>18, ChangeKeeps

\* exit of a thread: its stack and its trap context are given back.
LEMMA ThreadExitKeeps ==
    ASSUME FramesIInv, NEW p, NEW tid \in Tids, thread_exit(p, tid)
    PROVE  FramesIInv'
<1> DEFINE i == tid + 1
           us(x) == [user EXCEPT ![p] = [a \in UserPages(x.s) |-> @[a]]]
<1>0. /\ p \in DOMAIN procs /\ ~procs[p].zombie
      /\ i \in DOMAIN procs[p].tasks /\ procs[p].tasks[i] # None
  BY SMTT(30) DEF thread_exit, Runs, Live, Exists
<1>1. PICK x \in {dealloc_user_res([m |-> m, s |-> procs[p].space],
                                  procs[p].base, {tid})} :
          Outcome([m |-> x.m, kernel |-> kernel, kstacks |-> kstacks],
                  [procs EXCEPT ![p].space = x.s,
                                ![p].tids = Ids!dealloc(@, tid),
                                ![p].tasks[i].exited = TRUE],
                  us(x))
  BY DEF thread_exit
<1> DEFINE o == procs[p]
           s == o.space
           R == Rest(procs, p)
           O == Owned(kernel) \cup R
           w == [m |-> x.m, kernel |-> kernel, kstacks |-> kstacks]
           task == [o.tasks[i] EXCEPT !.exited = TRUE]
           tasks == [o.tasks EXCEPT ![i] = task]
           r == [zombie |-> o.zombie, space |-> x.s, base |-> o.base,
                 tids |-> Ids!dealloc(o.tids, tid), tasks |-> tasks,
                 held |-> o.held]
<1> HIDE DEF i, us
<1>2. /\ Holds([m |-> m, s |-> s], O)
      /\ kernel \in SpaceSet /\ Clean(kernel) /\ Owned(kernel) \cap R = {}
      /\ kstacks \in Ids!Allocators /\ IsProcess(o)
  BY <1>0, OpenProcess DEF FramesIInv
<1>3. Holds(x, O)
  <2> DEFINE y == [m |-> m, s |-> s]
  <2>1. x = dealloc_user_res(y, o.base, {tid})
    OBVIOUS
  <2> HIDE DEF y, O, o
  <2> QED  BY <1>2, <2>1, DeallocResFacts DEF y
<1>4. KernelHolds(w, Owned(x.s) \cup R) /\ w.m = x.m
  BY <1>2, <1>3, ToKernel
<1>5. TaskOk(task)
  <2>1. TaskOk(o.tasks[i])
    BY <1>0, <1>2 DEF IsProcess
  <2> QED  BY <2>1, ExitedTask
<1>6. /\ tasks = [j \in DOMAIN tasks |-> tasks[j]]
      /\ \A j \in DOMAIN tasks : tasks[j] = None \/ TaskOk(tasks[j])
  <2> HIDE DEF task
  <2>1. /\ o.tasks = [j \in DOMAIN o.tasks |-> o.tasks[j]]
        /\ \A j \in DOMAIN o.tasks : o.tasks[j] = None \/ TaskOk(o.tasks[j])
    BY SMTT(30), <1>2 DEF IsProcess
  <2> QED  BY <1>0, <1>5, <2>1
<1>7. x.s \in SpaceSet
  BY <1>3 DEF Holds
<1>8. IsProcess(r) /\ r.space = x.s
  <2> HIDE DEF tasks
  <2> QED  BY <1>0, <1>2, <1>6, <1>7 DEF IsProcess
<1>9. [procs EXCEPT ![p].space = x.s, ![p].tids = Ids!dealloc(@, tid),
                    ![p].tasks[i].exited = TRUE]
         = [procs EXCEPT ![p] = r]
  <2> DEFINE r1 == [zombie |-> o.zombie, space |-> x.s, base |-> o.base,
                    tids |-> o.tids, tasks |-> o.tasks, held |-> o.held]
             r2 == [zombie |-> o.zombie, space |-> x.s, base |-> o.base,
                    tids |-> Ids!dealloc(o.tids, tid), tasks |-> o.tasks,
                    held |-> o.held]
             f == [procs EXCEPT ![p].space = x.s]
             g == [f EXCEPT ![p].tids = Ids!dealloc(procs[p].tids, tid)]
             h == [g EXCEPT ![p].tasks[i].exited = TRUE]
  <2>1. procs = [q \in DOMAIN procs |-> procs[q]]
    BY DEF FramesIInv, Ledger, Processes
  <2>2. o = [zombie |-> o.zombie, space |-> o.space, base |-> o.base,
             tids |-> o.tids, tasks |-> o.tasks, held |-> o.held]
    BY <1>2 DEF IsProcess
  <2> HIDE DEF o
  <2>3. [o EXCEPT !.space = x.s] = r1
    BY <2>2
  <2>4. [r1 EXCEPT !.tids = Ids!dealloc(o.tids, tid)] = r2
    OBVIOUS
  <2>5. [r2 EXCEPT !.tasks[i].exited = TRUE] = r
    <3>1. r2.tasks = o.tasks
      OBVIOUS
    <3> HIDE DEF tasks
    <3>2. [r2 EXCEPT !.tasks = tasks] = r
      BY SMTT(30)
    <3> HIDE DEF r2, r
    <3> QED  BY <3>1, <3>2 DEF tasks
  <2> HIDE DEF r1, r2, r
  <2>6. f = [procs EXCEPT ![p] = r1]
    BY <2>3 DEF o
  <2> HIDE DEF f
  <2>7. g = [procs EXCEPT ![p] = r2]
    <3>1. f[p] = r1 /\ \A b : [f EXCEPT ![p] = b] = [procs EXCEPT ![p] = b]
      BY <1>0, <2>1, <2>6, EditTwice
    <3> QED  BY <2>4, <3>1 DEF o
  <2> HIDE DEF g
  <2>8. h = [procs EXCEPT ![p] = r]
    <3>1. g[p] = r2 /\ \A b : [g EXCEPT ![p] = b] = [procs EXCEPT ![p] = b]
      BY <1>0, <2>1, <2>7, EditTwice
    <3> QED  BY <2>5, <3>1
  <2> QED  BY <2>8 DEF h, g, f
<1> HIDE DEF r, w
<1>10. Outcome(w, [procs EXCEPT ![p] = r], us(x))
  BY <1>1, <1>9 DEF w
<1> QED  BY <1>0, <1>3, <1>4, <1>8, <1>10, ChangeKeeps

\* waittid: the kernel stack of the thread is dropped.
LEMMA WaittidKeeps ==
    ASSUME FramesIInv, NEW p, NEW tid \in Tids, waittid(p, tid)
    PROVE  FramesIInv'
<1> DEFINE i == tid + 1
<1>0. /\ p \in DOMAIN procs /\ ~procs[p].zombie
      /\ i \in DOMAIN procs[p].tasks /\ procs[p].tasks[i] # None
  BY DEF waittid, Live, Exists
<1>1. PICK w \in {kstack_drop([m |-> m, kernel |-> kernel,
                               kstacks |-> kstacks],
                              <<procs[p].tasks[i].kstack>>)} :
          Outcome(w, [procs EXCEPT ![p].tasks[i] = None], user)
  BY DEF waittid
<1> DEFINE o == procs[p]
           s == o.space
           R == Rest(procs, p)
           O == Owned(kernel) \cup R
           x == [m |-> m, s |-> s]
           u == [m |-> m, kernel |-> kernel, kstacks |-> kstacks]
           ids == <<o.tasks[i].kstack>>
           tasks == [o.tasks EXCEPT ![i] = None]
           r == [zombie |-> o.zombie, space |-> x.s, base |-> o.base,
                 tids |-> o.tids, tasks |-> tasks, held |-> o.held]
<1> HIDE DEF i
<1>2. /\ Holds(x, O)
      /\ kernel \in SpaceSet /\ Clean(kernel) /\ Owned(kernel) \cap R = {}
      /\ kstacks \in Ids!Allocators /\ IsProcess(o) /\ m.enough
  BY <1>0, OpenProcess DEF FramesIInv
<1>3. ids \in Seq(Nat)
  <2>1. TaskOk(o.tasks[i])
    BY <1>0, <1>2 DEF IsProcess
  <2>2. o.tasks[i].kstack \in Nat
    BY <2>1 DEF TaskOk
  <2> QED  BY <2>2
<1>4. x.m = m /\ x.s = s /\ w = kstack_drop(u, ids)
  OBVIOUS
<1>5. KernelHolds(u, Owned(x.s) \cup R)
  <2> HIDE DEF x
  <2>1. KernelHolds([m |-> x.m, kernel |-> kernel, kstacks |-> kstacks],
                    Owned(x.s) \cup R)
    BY <1>2, ToKernel
  <2> QED  BY <1>4, <2>1
<1> HIDE DEF x, u, ids
<1>6. KernelHolds(w, Owned(x.s) \cup R)
  BY <1>3, <1>4, <1>5, KstackDropFacts
<1>7. IsProcess(r) /\ r.space = x.s
  <2>1. /\ o.tasks = [j \in DOMAIN o.tasks |-> o.tasks[j]]
        /\ \A j \in DOMAIN o.tasks : o.tasks[j] = None \/ TaskOk(o.tasks[j])
    BY <1>2 DEF IsProcess
  <2>2. /\ tasks = [j \in DOMAIN tasks |-> tasks[j]]
        /\ \A j \in DOMAIN tasks : tasks[j] = None \/ TaskOk(tasks[j])
    BY <1>0, <2>1
  <2> HIDE DEF tasks
  <2> QED  BY <1>0, <1>2, <1>4, <2>2 DEF IsProcess
<1>8. [procs EXCEPT ![p].tasks[i] = None] = [procs EXCEPT ![p] = r]
  <2>1. o = [zombie |-> o.zombie, space |-> o.space, base |-> o.base,
             tids |-> o.tids, tasks |-> o.tasks, held |-> o.held]
    BY <1>2 DEF IsProcess
  <2> HIDE DEF tasks, o
  <2>2. [o EXCEPT !.tasks = tasks] = r
    BY <1>4, <2>1
  <2> HIDE DEF r
  <2> QED  BY <2>2 DEF o, tasks
<1> HIDE DEF r
<1>9. Outcome(w, [procs EXCEPT ![p] = r], user)
  BY <1>1, <1>8
<1> QED  BY <1>0, <1>2, <1>4, <1>6, <1>7, <1>9, ChangeKeeps

\* The ids of kernel stacks are numbers.
LEMMA KstacksTyped ==
    ASSUME NEW p, NEW tids,
           \A t \in tids : TaskOk(procs[p].tasks[t + 1])
    PROVE  KstacksDown(p, tids) \in Seq(Nat)
<1> DEFINE of(tid) == IF tid \in tids THEN <<procs[p].tasks[tid + 1].kstack>>
                      ELSE <<>>
           e(i) == of(MaxTid + 1 - i)
           n == MaxTid
           seqs == [i \in 1..n |-> e(i)]
<1>1. \A tid : of(tid) \in Seq(Nat)
  <2> TAKE tid
  <2>1. CASE tid \in tids
    <3>1. procs[p].tasks[tid + 1].kstack \in Nat
      BY <2>1 DEF TaskOk
    <3> QED  BY <2>1, <3>1
  <2>2. CASE tid \notin tids
    BY <2>2
  <2> QED  BY <2>1, <2>2
<1>2. n \in Nat /\ n \in 0..n
  BY Positions
<1>3. KstacksDown(p, tids) = FlattenSeq(seqs)
  BY DEF KstacksDown
<1> HIDE DEF of
<1>4. \A i \in 1..n : e(i) \in Seq(Nat)
  BY <1>1
<1> HIDE DEF e, n
<1>5. seqs \in Seq(Seq(Nat)) /\ Len(seqs) = n
  <2> DEFINE T == Seq(Nat)
  <2>1. \A i \in 1..n : e(i) \in T
    BY <1>4
  <2> HIDE DEF T
  <2>2. [i \in 1..n |-> e(i)] \in Seq(T) /\ Len([i \in 1..n |-> e(i)]) = n
    BY <1>2, <2>1, IsASeq
  <2> QED  BY <2>2 DEF T
<1>6. \A i \in 1..n : seqs[i] \in Seq(Nat)
  BY <1>4
<1> HIDE DEF seqs
<1>7. PICK h : Cats!IsRun(h, 0, <<>>, seqs, n)
  BY <1>2, Cats!RunExists
<1>8. FlattenSeq(seqs) = h[n]
  BY <1>2, <1>5, <1>7, FlattenIsRun
<1>9. \A i \in 1..n : \A y : y \in Seq(Nat) => y \o seqs[i] \in Seq(Nat)
  BY <1>6, ConcatFacts
<1>10. <<>> \in Seq(Nat)
  OBVIOUS
<1>11. \A i \in 0..n : h[i] \in Seq(Nat)
  BY <1>2, <1>7, <1>9, <1>10, Cats!EachKeeps
<1> QED  BY <1>2, <1>3, <1>8, <1>11

\* exit: the resources of all threads and the data pages are given back, and
\* the kernel stacks of the threads that are dropped.
LEMMA ExitKeeps ==
    ASSUME FramesIInv, NEW p, NEW blocked \in SUBSET Tids, NEW held,
           exit(p, blocked, held)
    PROVE  FramesIInv'
<1> DEFINE o == procs[p]
           s == o.space
           R == Rest(procs, p)
           O == Owned(kernel) \cup R
           tids == {t \in Tids : Runs(p, t)}
           gone == {t \in Tids \ blocked : t # 0 /\ Exists(p, t)}
           ids == KstacksDown(p, gone)
           yes == TRUE
           After(x, w) ==
               Outcome(w,
                  [procs EXCEPT ![p].zombie = yes,
                                ![p].space = x.s,
                                ![p].tasks = <<[@[1] EXCEPT !.exited = TRUE]>>,
                                ![p].held = held],
                  [user EXCEPT ![p] = None])
<1>0. /\ p \in DOMAIN procs
      /\ 1 \in DOMAIN o.tasks /\ o.tasks[1] # None
  BY SMTT(30) DEF exit, Runs, Live, Exists
<1>1. PICK x \in {recycle_data_pages(
                     dealloc_user_res([m |-> m, s |-> s], o.base, tids))} :
       \E w \in {kstack_drop([m |-> x.m, kernel |-> kernel,
                              kstacks |-> kstacks], ids)} : After(x, w)
  BY DEF exit
<1> HIDE DEF After
<1>2. PICK w \in {kstack_drop([m |-> x.m, kernel |-> kernel,
                               kstacks |-> kstacks], ids)} : After(x, w)
  BY <1>1
<1> DEFINE task == [o.tasks[1] EXCEPT !.exited = TRUE]
           r == [zombie |-> yes, space |-> x.s, base |-> o.base,
                 tids |-> o.tids, tasks |-> <<task>>, held |-> held]
<1>3. /\ Holds([m |-> m, s |-> s], O)
      /\ kernel \in SpaceSet /\ Clean(kernel) /\ Owned(kernel) \cap R = {}
      /\ kstacks \in Ids!Allocators /\ IsProcess(o) /\ m.enough
  BY <1>0, OpenProcess DEF FramesIInv
<1>4. \A t : Exists(p, t) => TaskOk(o.tasks[t + 1])
  BY <1>3 DEF Exists, IsProcess
<1>5. ids \in Seq(Nat)
  <2>1. \A t \in gone : TaskOk(procs[p].tasks[t + 1])
    BY <1>4
  <2> HIDE DEF gone
  <2> QED  BY <2>1, KstacksTyped
<1> HIDE DEF ids, tids, yes
<1>6. Holds(x, O)
  <2> DEFINE z == [m |-> m, s |-> s]
             y == dealloc_user_res(z, o.base, tids)
  <2>1. x = recycle_data_pages(y) /\ z.m = m
    OBVIOUS
  <2> HIDE DEF O, o, z
  <2>2. Holds(z, O)
    BY <1>3 DEF z
  <2>3. Holds(y, O) /\ y.m.enough = z.m.enough
    BY <2>2, DeallocResFacts
  <2>4. y.m.enough
    BY <1>3, <2>1, <2>3
  <2> HIDE DEF y
  <2> QED  BY <2>1, <2>3, <2>4, RecycleFacts
<1>7. KernelHolds(w, Owned(x.s) \cup R) /\ (w.m.enough => x.m.enough)
  <2> DEFINE u == [m |-> x.m, kernel |-> kernel, kstacks |-> kstacks]
  <2>1. w = kstack_drop(u, ids) /\ u.m = x.m
    OBVIOUS
  <2>2. KernelHolds(u, Owned(x.s) \cup R)
    BY <1>3, <1>6, ToKernel
  <2> HIDE DEF u
  <2> QED  BY <1>5, <2>1, <2>2, KstackDropFacts
<1>8. TaskOk(task)
  <2>1. TaskOk(o.tasks[1])
    BY SMTT(30), <1>0, <1>3 DEF IsProcess
  <2> QED  BY <2>1, ExitedTask
<1>9. x.s \in SpaceSet
  BY <1>6 DEF Holds
<1>10. IsProcess(r) /\ r.space = x.s
  <2> HIDE DEF task
  <2>1. /\ DOMAIN <<task>> = {1} /\ <<task>>[1] = task
        /\ <<task>> = [i \in DOMAIN <<task>> |-> <<task>>[i]]
    OBVIOUS
  <2> QED  BY <1>3, <1>8, <1>9, <2>1 DEF IsProcess
<1>11. [procs EXCEPT ![p].zombie = yes, ![p].space = x.s,
                     ![p].tasks = <<[@[1] EXCEPT !.exited = TRUE]>>,
                     ![p].held = held]
         = [procs EXCEPT ![p] = r]
  <2> HIDE DEF task
  <2> DEFINE r0 == [zombie |-> yes, space |-> o.space, base |-> o.base,
                    tids |-> o.tids, tasks |-> o.tasks, held |-> o.held]
             r1 == [zombie |-> yes, space |-> x.s, base |-> o.base,
                    tids |-> o.tids, tasks |-> o.tasks, held |-> o.held]
             r2 == [zombie |-> yes, space |-> x.s, base |-> o.base,
                    tids |-> o.tids, tasks |-> <<task>>, held |-> o.held]
             f == [procs EXCEPT ![p].zombie = yes]
             g == [f EXCEPT ![p].space = x.s]
             h == [g EXCEPT ![p].tasks = <<task>>]
             k == [h EXCEPT ![p].held = held]
  <2>1. procs = [q \in DOMAIN procs |-> procs[q]]
    BY DEF FramesIInv, Ledger, Processes
  <2>2. o = [zombie |-> o.zombie, space |-> o.space, base |-> o.base,
             tids |-> o.tids, tasks |-> o.tasks, held |-> o.held]
    BY <1>3 DEF IsProcess
  <2> HIDE DEF o
  <2>3. [o EXCEPT !.zombie = yes] = r0
    BY <2>2
  <2>4. [r0 EXCEPT !.space = x.s] = r1
    OBVIOUS
  <2>5. [r1 EXCEPT !.tasks = <<task>>] = r2
    OBVIOUS
  <2>6. [r2 EXCEPT !.held = held] = r
    OBVIOUS
  <2> HIDE DEF r0, r1, r2, r
  <2>7. f = [procs EXCEPT ![p] = r0]
    BY <2>3 DEF o
  <2> HIDE DEF f
  <2>8. g = [procs EXCEPT ![p] = r1]
    <3>1. f[p] = r0 /\ \A b : [f EXCEPT ![p] = b] = [procs EXCEPT ![p] = b]
      BY <1>0, <2>1, <2>7, EditTwice
    <3> QED  BY <2>4, <3>1
  <2> HIDE DEF g
  <2>9. h = [procs EXCEPT ![p] = r2]
    <3>1. g[p] = r1 /\ \A b : [g EXCEPT ![p] = b] = [procs EXCEPT ![p] = b]
      BY <1>0, <2>1, <2>8, EditTwice
    <3> QED  BY <2>5, <3>1
  <2> HIDE DEF h
  <2>10. k = [procs EXCEPT ![p] = r]
    <3>1. h[p] = r2 /\ \A b : [h EXCEPT ![p] = b] = [procs EXCEPT ![p] = b]
      BY <1>0, <2>1, <2>9, EditTwice
    <3> QED  BY <2>6, <3>1
  <2> QED  BY <2>10 DEF k, h, g, f, task, o
<1> HIDE DEF r
<1>12. Outcome(w, [procs EXCEPT ![p] = r], [user EXCEPT ![p] = None])
  BY <1>2, <1>11 DEF After
<1> QED  BY <1>0, <1>6, <1>7, <1>10, <1>12, ChangeKeeps

\* reap: the page table of the zombie and the kernel stack of its main thread
\* are given back.
LEMMA ReapKeeps ==
    ASSUME FramesIInv, NEW p, reap(p)
    PROVE  FramesIInv'
<1> DEFINE o == procs[p]
           s == o.space
           R == Rest(procs, p)
           d == drop_space(m, s)
           u == [m |-> d, kernel |-> kernel, kstacks |-> kstacks]
           ids == <<o.tasks[1].kstack>>
           qs == [q \in DOMAIN procs \ {p} |-> procs[q]]
<1>0. p \in DOMAIN procs /\ o.zombie
  BY DEF reap
<1>1. PICK w \in {kstack_drop(u, ids)} : Outcome(w, qs, user)
  BY DEF reap
<1>2. /\ Holds([m |-> m, s |-> s], Owned(kernel) \cup R)
      /\ kernel \in SpaceSet /\ Clean(kernel) /\ Owned(kernel) \cap R = {}
      /\ kstacks \in Ids!Allocators /\ IsProcess(o) /\ Clean(s)
      /\ IsMachine(m) /\ m.enough
  BY <1>0, OpenProcess DEF FramesIInv
<1>3. s \in SpaceSet /\ ids \in Seq(Nat)
  <2>1. s \in SpaceSet /\ TaskOk(o.tasks[1])
    BY <1>0, <1>2 DEF IsProcess
  <2>2. o.tasks[1].kstack \in Nat
    BY <2>1 DEF TaskOk
  <2> QED  BY <2>1, <2>2
<1>4. IsMachine(d) /\ d.enough = m.enough /\ Gave(d, Owned(kernel) \cup R)
  <2> HIDE DEF s, R
  <2>1. Gave(m, Owned(s) \cup (Owned(kernel) \cup R))
        /\ Owned(s) \cap (Owned(kernel) \cup R) = {}
    BY <1>2, <1>3, HoldsMeans
  <2> QED  BY <1>2, <1>3, <2>1, DropFacts
<1> HIDE DEF d, ids, R
<1>5. Holds([m |-> d, s |-> kernel], R)
  BY <1>2, <1>4, HoldsMeans
<1>6. KernelHolds(u, R) /\ u.m = d
  <2>1. /\ u = [m |-> u.m, kernel |-> u.kernel, kstacks |-> u.kstacks]
        /\ u.m = d /\ u.kernel = kernel /\ u.kstacks = kstacks
    OBVIOUS
  <2> HIDE DEF u
  <2> QED  BY <1>2, <1>5, <2>1 DEF KernelHolds
<1> HIDE DEF u
<1>7. KernelHolds(w, R) /\ w.m.enough
  BY <1>2, <1>3, <1>4, <1>6, KstackDropFacts
<1>8. /\ DOMAIN qs = DOMAIN procs \ {p}
      /\ \A q \in DOMAIN qs : qs[q] = procs[q]
      /\ qs = [q \in DOMAIN qs |-> qs[q]]
  OBVIOUS
<1>9. Processes(procs)
  BY DEF FramesIInv, Ledger
<1> HIDE DEF qs
<1>10. Processes(qs)
  BY <1>8, <1>9 DEF Processes
<1>11. {f \in Nat : \E q \in DOMAIN qs : f \in Owned(qs[q].space)} = R
  BY <1>8 DEF Rest, R
<1>12. [m |-> w.m, kernel |-> w.kernel, kstacks |-> w.kstacks] = w
  BY <1>7 DEF KernelHolds
<1>13. Ledger(w.m, w.kernel, w.kstacks, qs)
  BY <1>7, <1>10, <1>11, <1>12 DEF Ledger
<1> QED  BY <1>1, <1>13, OutcomeKeeps

\* A waitpid that fails its assertion leaves everything as it is.
LEMMA PanicKeeps ==
    ASSUME FramesIInv, NEW p, reap_panics(p)
    PROVE  FramesIInv'
<1>1. UNCHANGED <<m, kernel, kstacks, procs>>
  BY DEF reap_panics
<1> QED  BY <1>1 DEF FramesIInv

\* A store changes no frame's owner.
LEMMA StoreKeeps ==
    ASSUME FramesIInv, NEW p, NEW vpn, NEW word, store(p, vpn, word)
    PROVE  FramesIInv'
<1>1. PICK pte : m' = [m EXCEPT !.mem[ppn_of(pte)][0] = word]
  BY DEF store
<1>2. kernel' = kernel /\ kstacks' = kstacks /\ procs' = procs
  BY DEF store
<1> DEFINE P == {f \in Nat : \E q \in DOMAIN procs : f \in Owned(procs[q].space)}
           w == [m |-> m, kernel |-> kernel, kstacks |-> kstacks]
           v == [m |-> m', kernel |-> kernel, kstacks |-> kstacks]
           x == [m |-> m, s |-> kernel]
           y == [m |-> m', s |-> kernel]
           z == [m.mem EXCEPT ![ppn_of(pte)][0] = word]
<1>3. m.enough /\ Processes(procs) /\ KernelHolds(w, P)
  BY DEF FramesIInv, Ledger
<1>4. /\ w.m = m /\ w.kernel = kernel /\ w.kstacks = kstacks
      /\ v = [m |-> v.m, kernel |-> v.kernel, kstacks |-> v.kstacks]
      /\ v.m = m' /\ v.kernel = kernel /\ v.kstacks = kstacks
      /\ y = [m |-> y.m, s |-> y.s] /\ y.s = x.s /\ y.m = m' /\ x.m = m
  OBVIOUS
<1>5. m' = [m EXCEPT !.mem = z]
  BY <1>1
<1> HIDE DEF P, w, v, z
<1>6. Holds(x, P) /\ kstacks \in Ids!Allocators
  BY <1>3, <1>4 DEF KernelHolds
<1>7. SameFrames(m', m)
  <2>1. IsMachine(m)
    BY <1>4, <1>6 DEF Holds, Holding
  <2> QED  BY <1>5, <2>1, StoreFacts
<1>8. Holds(y, P)
  <2> HIDE DEF x, y
  <2> QED  BY <1>4, <1>6, <1>7, SameHolds
<1>9. KernelHolds(v, P)
  BY <1>4, <1>6, <1>8 DEF KernelHolds
<1>10. m'.enough
  BY <1>3, <1>7 DEF SameFrames
<1>11. Ledger(m', kernel, kstacks, procs)
  BY <1>3, <1>9, <1>10 DEF Ledger, P, v
<1> QED  BY SMTT(30), <1>2, <1>11 DEF FramesIInv

\* The boot: the kernel, and initproc.
LEMMA InitKeeps ==
    ASSUME Init
    PROVE  FramesIInv
<1> DEFINE Start(k, base, x, w, trap_cx) ==
               /\ w.m.enough
               /\ m = init_trap_cx(w.m, trap_cx, 0)
               /\ kernel = w.kernel
               /\ kstacks = w.kstacks
               /\ procs = [p \in {0} |-> Process(x.s, base, Task(0, trap_cx))]
<1>1. PICK k \in {new_kernel}, base \in {user_stack_base(InitProgram)} :
       \E x \in {alloc_user_res(from_elf(k.m, InitProgram), base, 0)} :
       \E w \in {kstack_alloc([m |-> x.m, kernel |-> k.s,
                               kstacks |-> Ids!new])},
          trap_cx \in {trap_cx_ppn(x, 0)} : Start(k, base, x, w, trap_cx)
  BY DEF Init
<1> HIDE DEF Start
<1>2. PICK x \in {alloc_user_res(from_elf(k.m, InitProgram), base, 0)} :
       \E w \in {kstack_alloc([m |-> x.m, kernel |-> k.s,
                               kstacks |-> Ids!new])},
          trap_cx \in {trap_cx_ppn(x, 0)} : Start(k, base, x, w, trap_cx)
  BY <1>1
<1>3. PICK w \in {kstack_alloc([m |-> x.m, kernel |-> k.s,
                                kstacks |-> Ids!new])},
           trap_cx \in {trap_cx_ppn(x, 0)} : Start(k, base, x, w, trap_cx)
  BY <1>2
<1> DEFINE H == Owned(k.s)
           e == from_elf(k.m, InitProgram)
           u == [m |-> x.m, kernel |-> k.s, kstacks |-> Ids!new]
           v == [w EXCEPT !.m = init_trap_cx(@, trap_cx, 0)]
           new == Process(x.s, base, Task(0, trap_cx))
           ps == [q \in {} |-> 0]
           qs == [q \in {0} |-> new]
<1>4. Holds(k, {})
  BY KernelFacts
<1>5. /\ k.s \in SpaceSet /\ IsMachine(k.m) /\ Gave(k.m, H \cup {})
      /\ k.m.enough => Clean(k.s)
  BY <1>4, HoldsGives
<1>6. Holds(e, H \cup {}) /\ (e.m.enough => k.m.enough)
  <2>1. InitProgram \in Programs
    BY MemorySetAssumption
  <2> HIDE DEF H
  <2> QED  BY <1>5, <2>1, ElfFacts
<1>7. base \in Int
  <2> DEFINE Segments == [start : Nat, end : Nat, data : Seq(Nat)]
  <2>1. InitProgram \in Seq(Segments) /\ InitProgram # <<>>
    BY MemorySetAssumption
  <2>2. Last(InitProgram) \in Segments
    <3> HIDE DEF Segments
    <3> QED  BY <2>1, FrontTyped
  <2> QED  BY <2>2 DEF user_stack_base
<1>8. Holds(x, H \cup {}) /\ (x.m.enough => e.m.enough)
  <2>1. x = alloc_user_res(e, base, 0) /\ 0 \in Int
    OBVIOUS
  <2> HIDE DEF e, H
  <2> QED  BY <1>6, <1>7, <2>1, AllocResFacts
<1>9. Ids!new \in Ids!Allocators
  BY DEF Ids!new, Ids!Allocators
<1>10. w = kstack_alloc(u) /\ u.m = x.m /\ u.kernel = k.s /\ u.kstacks = Ids!new
       /\ u = [m |-> u.m, kernel |-> u.kernel, kstacks |-> u.kstacks]
  OBVIOUS
<1>11. x.m.enough => Clean(k.s)
  BY <1>5, <1>6, <1>8
<1>12. KernelHolds(u, Owned(x.s) \cup {})
  <2>1. /\ x.s \in SpaceSet /\ IsMachine(x.m)
        /\ Gave(x.m, Owned(x.s) \cup (H \cup {}))
        /\ x.m.enough => Owned(x.s) \cap (H \cup {}) = {}
    <3> HIDE DEF H
    <3> QED  BY <1>8, HoldsGives
  <2>2. Owned(x.s) \cup (H \cup {}) = H \cup (Owned(x.s) \cup {})
    OBVIOUS
  <2>3. Gave(x.m, H \cup (Owned(x.s) \cup {}))
    BY <2>1, <2>2
  <2>4. x.m.enough => Clean(k.s) /\ H \cap (Owned(x.s) \cup {}) = {}
    BY <1>11, <2>1
  <2>5. Holds([m |-> x.m, s |-> k.s], Owned(x.s) \cup {})
    BY <1>5, <2>1, <2>3, <2>4, HoldsMeans
  <2> HIDE DEF u
  <2> QED  BY <1>9, <1>10, <2>5 DEF KernelHolds
<1> HIDE DEF u
<1>13. KernelHolds(w, Owned(x.s) \cup {}) /\ (w.m.enough => x.m.enough)
  BY <1>10, <1>12, KstackAllocFacts
<1>14. KernelHolds(v, Owned(x.s) \cup {}) /\ v.m.enough = w.m.enough
  <2> DEFINE Q == Owned(x.s) \cup {}
  <2> HIDE DEF Q
  <2>1. KernelHolds(w, Q)
    BY <1>13 DEF Q
  <2>2. KernelHolds(v, Q) /\ v.m.enough = w.m.enough
    BY ONLY <2>1, WithTrapContext
  <2> QED  BY <2>2 DEF Q
<1>15. /\ w.m.enough /\ v.m = m /\ v.kernel = kernel /\ v.kstacks = kstacks
       /\ procs = qs
  <2>1. v = [m |-> init_trap_cx(w.m, trap_cx, 0), kernel |-> w.kernel,
             kstacks |-> w.kstacks]
    BY <1>13 DEF KernelHolds
  <2> HIDE DEF v
  <2> QED  BY <1>3, <2>1 DEF Start
<1>16. Clean(x.s)
  BY <1>8, <1>13, <1>15, HoldsGives
<1>17. IsProcess(new) /\ new.space = x.s
  <2>1. x.s \in SpaceSet /\ 0 \in Nat
    BY <1>8 DEF Holds
  <2> QED  BY <1>7, <2>1, NewProcess
<1> HIDE DEF new, v
<1>18. Processes(ps) /\ Rest(ps, 0) = {} /\ DOMAIN ps = {}
  BY DEF Processes, Rest
<1>19. /\ DOMAIN qs = {0} /\ qs[0] = new /\ qs = [q \in DOMAIN qs |-> qs[q]]
  OBVIOUS
<1> HIDE DEF ps, qs
<1>20. /\ 0 \in DOMAIN qs /\ DOMAIN qs \ {0} = DOMAIN ps \ {0}
       /\ \A q \in DOMAIN ps \ {0} : qs[q] = ps[q]
       /\ IsProcess(qs[0]) /\ Clean(qs[0].space)
       /\ Owned(qs[0].space) \cap Rest(ps, 0) = {}
       /\ KernelHolds(v, Owned(qs[0].space) \cup Rest(ps, 0))
  BY <1>14, <1>16, <1>17, <1>18, <1>19
<1>21. Ledger(v.m, v.kernel, v.kstacks, qs)
  BY <1>14, <1>15, <1>18, <1>19, <1>20, Settle
<1> QED  BY <1>15, <1>21 DEF FramesIInv

\* Every step keeps the ledger.
LEMMA StepKeeps ==
    ASSUME FramesIInv, [Next]_vars
    PROVE  FramesIInv'
<1>1. CASE UNCHANGED vars
  BY <1>1 DEF vars, FramesIInv
<1>2. CASE Next
  <2>1. PICK p \in Pids :
           \/ \E child \in Pids : fork(p, child)
           \/ \E program \in Programs : exec(p, program)
           \/ thread_create(p)
           \/ \E tid \in Tids : thread_exit(p, tid) \/ waittid(p, tid)
           \/ \E blocked \in SUBSET Tids, held \in BOOLEAN :
                 exit(p, blocked, held)
           \/ reap(p)
           \/ reap_panics(p)
           \/ \E vpn \in Writes : store(p, vpn, 100 + p)
    BY <1>2 DEF Next
  <2>2. ASSUME NEW child, fork(p, child) PROVE FramesIInv'
    BY <2>2, ForkKeeps
  <2>3. ASSUME NEW program \in Programs, exec(p, program) PROVE FramesIInv'
    BY <2>3, ExecKeeps
  <2>4. ASSUME thread_create(p) PROVE FramesIInv'
    BY <2>4, ThreadCreateKeeps
  <2>5. ASSUME NEW tid \in Tids, thread_exit(p, tid) PROVE FramesIInv'
    BY <2>5, ThreadExitKeeps
  <2>6. ASSUME NEW tid \in Tids, waittid(p, tid) PROVE FramesIInv'
    BY <2>6, WaittidKeeps
  <2>7. ASSUME NEW blocked \in SUBSET Tids, NEW held, exit(p, blocked, held)
        PROVE  FramesIInv'
    BY <2>7, ExitKeeps
  <2>8. ASSUME reap(p) PROVE FramesIInv'
    BY <2>8, ReapKeeps
  <2>9. ASSUME NEW vpn, NEW word, store(p, vpn, word) PROVE FramesIInv'
    BY <2>9, StoreKeeps
  <2>10. ASSUME reap_panics(p) PROVE FramesIInv'
    BY <2>10, PanicKeeps
  <2> QED  BY <2>1, <2>2, <2>3, <2>4, <2>5, <2>6, <2>7, <2>8, <2>9, <2>10
<1> QED  BY <1>1, <1>2

\* The sequence of all frames of a space, as drop_space gives them back.
LEMMA OwnedSeq ==
    ASSUME NEW s \in SpaceSet, Clean(s)
    PROVE  LET fs == s.frames \o AreaFrames(s)
           IN  IsInjective(fs) /\ ToSet(fs) = Owned(s)
<1> DEFINE g == AreaFrames(s)
           fs == s.frames \o g
<1>1. g \in Seq(Nat) /\ Range(g) = AreaOwned(s.areas) /\ IsInjective(g)
  BY AreaFramesFacts DEF Clean
<1>2. s.frames \in Seq(Nat)
  BY DEF SpaceSet
<1> HIDE DEF g
<1>3. /\ fs \in Seq(Nat) /\ Range(fs) = Range(s.frames) \cup Range(g)
      /\ IsInjective(s.frames) /\ IsInjective(g) /\ Range(s.frames) \cap Range(g) = {}
            => IsInjective(fs)
  BY <1>1, <1>2, ConcatFacts
<1>4. ToSet(fs) = Range(fs)
  BY DEF ToSet, Range
<1>5. IsInjective(fs) /\ ToSet(fs) = Owned(s)
  BY <1>1, <1>3, <1>4 DEF Owned, Clean
<1> QED  BY <1>5 DEF g

\* What the ledger says of all spaces.
LEMMA LedgerMeans ==
    ASSUME FramesIInv
    PROVE  FramesOwnedOnce
<1> DEFINE owned(s) == s.frames \o AreaFrames(s)
           P == {f \in Nat : \E q \in DOMAIN procs : f \in Owned(procs[q].space)}
           w == [m |-> m, kernel |-> kernel, kstacks |-> kstacks]
           x == [m |-> m, s |-> kernel]
<1>1. m.enough /\ Processes(procs) /\ KernelHolds(w, P)
  BY DEF FramesIInv, Ledger
<1>2. w.m = m /\ w.kernel = kernel /\ x.s = kernel /\ x.m = m
  OBVIOUS
<1> HIDE DEF w, P
<1>3. Holds(x, P)
  BY <1>1, <1>2 DEF KernelHolds
<1> HIDE DEF x
<1>4. /\ kernel \in SpaceSet /\ Clean(kernel) /\ Owned(kernel) \cap P = {}
      /\ Gave(m, Owned(kernel) \cup P)
  BY <1>1, <1>2, <1>3, HoldsGives
<1>5. \A p \in DOMAIN procs : procs[p].space \in SpaceSet /\ Clean(procs[p].space)
  BY <1>1 DEF Processes, IsProcess
<1>6. \A s \in Spaces : s \in SpaceSet /\ Clean(s)
  BY <1>4, <1>5 DEF Spaces
<1>7. \A s \in Spaces : IsInjective(owned(s)) /\ ToSet(owned(s)) = Owned(s)
  BY <1>6, OwnedSeq
<1> HIDE DEF owned
<1>8. kernel \in Spaces /\ \A p \in DOMAIN procs : procs[p].space \in Spaces
  BY DEF Spaces
<1>9. \A p \in DOMAIN procs : Owned(procs[p].space) \subseteq P
  <2> TAKE p \in DOMAIN procs
  <2>1. Owned(procs[p].space) \subseteq Nat
    BY <1>5, OwnedNat
  <2> QED  BY <2>1 DEF P
<1>10. ASSUME NEW p \in DOMAIN procs
       PROVE  /\ ToSet(owned(procs[p].space)) \cap ToSet(owned(kernel)) = {}
              /\ \A q \in DOMAIN procs : p # q =>
                    ToSet(owned(procs[p].space)) \cap ToSet(owned(procs[q].space)) = {}
  <2>1. Owned(procs[p].space) \cap Owned(kernel) = {}
    BY <1>4, <1>9
  <2>2. \A q \in DOMAIN procs : p # q =>
            Owned(procs[p].space) \cap Owned(procs[q].space) = {}
    BY <1>1 DEF Processes
  <2> QED  BY <1>7, <1>8, <2>1, <2>2
<1>11. UNION {ToSet(owned(s)) : s \in Spaces} = Given
  <2>1. UNION {ToSet(owned(s)) : s \in Spaces} = UNION {Owned(s) : s \in Spaces}
    BY <1>7
  <2>2. UNION {Owned(s) : s \in Spaces} = Owned(kernel) \cup P
    <3>1. ASSUME NEW f \in UNION {Owned(s) : s \in Spaces}
          PROVE  f \in Owned(kernel) \cup P
      BY <1>9 DEF Spaces
    <3>2. Owned(kernel) \subseteq UNION {Owned(s) : s \in Spaces}
      BY <1>8
    <3>3. ASSUME NEW f \in P PROVE f \in UNION {Owned(s) : s \in Spaces}
      BY <1>8 DEF P
    <3> QED  BY <3>1, <3>2, <3>3
  <2>3. Owned(kernel) \cup P = Given
    BY <1>1, <1>4 DEF Gave, Given, ToSet, Range
  <2> QED  BY <2>1, <2>2, <2>3
<1> QED  BY <1>7, <1>10, <1>11 DEF FramesOwnedOnce, owned

-----------------------------------------------------------------------------
(* Theorems                                                                *)

\* The ledger is kept by the boot, fork, exec, the thread calls, exit, waits
\* and stores: kernel, processes and the allocator agree on every frame.
THEOREM FramesInductive == Spec => []FramesIInv
<1>1. Init => FramesIInv
  BY InitKeeps
<1>2. FramesIInv /\ [Next]_vars => FramesIInv'
  BY StepKeeps
<1> QED  BY <1>1, <1>2, PTL DEF Spec

\* Every frame that the allocator has given out belongs to one page table or
\* to one area, of the kernel or of one process: none is shared, none is
\* freed while it is in use, and none is given out that nothing owns.  What
\* becomes of a kernel stack whose thread never runs again it does not say:
\* the kernel owns it, for ever if the thread was blocked at exit.
THEOREM FramesAreOwnedOnce == Spec => []FramesOwnedOnce
<1>1. FramesIInv => FramesOwnedOnce
  BY LedgerMeans
<1> QED  BY <1>1, FramesInductive, PTL
=============================================================================
