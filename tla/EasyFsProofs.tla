---------------------------- MODULE EasyFsProofs ----------------------------
(***************************************************************************)
(* Proofs about module EasyFs, for every size of disk, block and inode.    *)
(*                                                                         *)
(* The places of a file (its direct pointers, its index blocks and their   *)
(* entries) are numbered in the order in which increase_size fills them.   *)
(* In these numbers increase_size, clear_size, read_at and write_at are    *)
(* all about segments: a file of some size has the places below            *)
(* PlacesOf(..), grows by the next ones and gives all of them back.        *)
(*                                                                         *)
(* The inductive invariant FsIInv says of the disk (Core) that no block is *)
(* in two places, that the marked blocks are those in the places, and that *)
(* what is not in use is zero; of the root (Directory) that its entries    *)
(* name the allocated inodes once; and of the files (FilesOf) that each    *)
(* has the contents of the history.                                        *)
(***************************************************************************)
EXTENDS EasyFs, QueueLemmas, FiniteSetTheorems, TLAPS

(* Arithmetic                                                              *)

\* The place of n in a sequence that starts with a.
LEMMA PlaceInSequence ==
    ASSUME NEW a \in Int, NEW i \in Int, NEW n \in Int
    PROVE  a + i - 1 = n <=> i = n - a + 1
  OBVIOUS

\* Division by a positive number: quotient and remainder.
LEMMA DivMod ==
    ASSUME NEW n \in Nat, NEW B \in Nat \ {0}
    PROVE  /\ n \div B \in Nat
           /\ n % B \in 0..(B - 1)
           /\ n = (n \div B) * B + (n % B)
<1>1. n \div B \in Nat
  OBVIOUS
<1>2. n % B \in 0..(B - 1)
  OBVIOUS
<1>3. n = B * (n \div B) + (n % B)
  OBVIOUS
<1> QED  BY <1>1, <1>2, <1>3

\* Products with a fixed factor, in the steps and the order of the other.
LEMMA Times ==
    ASSUME NEW a \in Nat, NEW b \in Nat, NEW B \in Nat
    PROVE  /\ a * B \in Nat
           /\ (a + 1) * B = a * B + B
           /\ a <= b => a * B <= b * B
           /\ a < b => a * B + B <= b * B
<1>1. a * B \in Nat /\ (a + 1) * B = a * B + B
  OBVIOUS
<1>2. a <= b => a * B <= b * B
  OBVIOUS
<1>3. a < b => (a + 1) * B <= b * B
  OBVIOUS
<1> QED  BY <1>1, <1>2, <1>3

\* A number is written as quotient and remainder in one way.
LEMMA DivModUnique ==
    ASSUME NEW B \in Nat \ {0}, NEW a \in Nat, NEW c \in 0..(B - 1)
    PROVE  (a * B + c) \div B = a /\ (a * B + c) % B = c
<1> DEFINE n == a * B + c
           q == n \div B
           r == n % B
<1>1. n \in Nat
  BY Times
<1>2. q \in Nat /\ r \in 0..(B - 1) /\ n = q * B + r
  BY <1>1, DivMod
<1> HIDE DEF q, r
<1>3. a < q => a * B + B <= q * B
  BY <1>2, Times
<1>4. q < a => q * B + B <= a * B
  BY <1>2, Times
<1>5. a * B \in Nat /\ q * B \in Nat
  BY <1>2, Times
<1>6. q = a
  BY <1>2, <1>3, <1>4, <1>5
<1>7. r = c
  BY <1>2, <1>6, <1>5
<1> QED  BY <1>6, <1>7 DEF q, r

-----------------------------------------------------------------------------
(* Segments: the elements x to y - 1 of a numbering F, as a sequence.      *)

\* Values of a numbering.
Values(F) == {F[n] : n \in Nat}

Segment(F, x, y) == [i \in 1..(y - x) |-> F[x + i - 1]]

\* The length, the domain and the elements of a segment.
LEMMA SegmentFacts ==
    ASSUME NEW F, NEW x \in Nat, NEW y \in Nat, x <= y
    PROVE  /\ Segment(F, x, y) \in Seq(Values(F))
           /\ Len(Segment(F, x, y)) = y - x
           /\ DOMAIN Segment(F, x, y) = 1..(y - x)
           /\ \A i \in 1..(y - x) : Segment(F, x, y)[i] = F[x + i - 1]
<1> DEFINE s == Segment(F, x, y)
           n == y - x
<1>1. n \in Nat /\ s = [i \in 1..n |-> F[x + i - 1]]
  BY DEF Segment
<1>2. \A i \in 1..n : F[x + i - 1] \in Values(F)
  BY DEF Values
<1> HIDE DEF n
<1>3. s \in Seq(Values(F)) /\ Len(s) = n
  BY <1>1, <1>2, IsASeq
<1> QED  BY <1>1, <1>3 DEF n

\* Two segments that meet are one.
LEMMA SegmentConcat ==
    ASSUME NEW F, NEW x \in Nat, NEW y \in Nat, NEW z \in Nat, x <= y, y <= z
    PROVE  Segment(F, x, y) \o Segment(F, y, z) = Segment(F, x, z)
<1> DEFINE S == Values(F)
           s == Segment(F, x, y)
           t == Segment(F, y, z)
           r == Segment(F, x, z)
<1>1. /\ s \in Seq(S) /\ Len(s) = y - x
      /\ \A i \in 1..(y - x) : s[i] = F[x + i - 1]
  BY SMTT(30), SegmentFacts
<1>2. /\ t \in Seq(S) /\ Len(t) = z - y
      /\ \A i \in 1..(z - y) : t[i] = F[y + i - 1]
  BY ZenonT(60), SegmentFacts
<1>3. /\ r \in Seq(S) /\ Len(r) = z - x
      /\ \A i \in 1..(z - x) : r[i] = F[x + i - 1]
  <2>1. x <= z
    OBVIOUS
  <2> QED  BY SMTT(30), <2>1, SegmentFacts
<1> HIDE DEF S, s, t, r
<1>4. /\ s \o t \in Seq(S) /\ Len(s \o t) = Len(s) + Len(t)
      /\ \A i \in 1..(Len(s) + Len(t)) :
            (s \o t)[i] = IF i <= Len(s) THEN s[i] ELSE t[i - Len(s)]
  BY <1>1, <1>2, ConcatProperties
<1>5. Len(s \o t) = Len(r)
  BY <1>1, <1>2, <1>3, <1>4
<1>6. ASSUME NEW i \in 1..Len(r) PROVE (s \o t)[i] = r[i]
  <2>1. CASE i <= Len(s)
    BY <1>1, <1>2, <1>3, <1>4, <1>6, <2>1
  <2>2. CASE ~(i <= Len(s))
    <3>1. i - Len(s) \in 1..(z - y) /\ y + (i - Len(s)) - 1 = x + i - 1
      BY <1>1, <1>3, <2>2
    <3> QED  BY SMTT(30), <1>1, <1>2, <1>3, <1>4, <1>6, <2>2, <3>1
  <2> QED  BY <2>1, <2>2
<1> QED  BY <1>3, <1>4, <1>5, <1>6, SeqEqual DEF s, t, r

\* Bounds that go up step by step go up.
LEMMA StepsUp ==
    ASSUME NEW N \in Nat, NEW at \in [0..N -> Nat],
           \A i \in 1..N : at[i - 1] <= at[i],
           NEW i \in 0..N
    PROVE  at[0] <= at[i]
<1> DEFINE Bad == {k \in Nat : k <= N /\ ~(at[0] <= at[k])}
<1> SUFFICES ASSUME ~(at[0] <= at[i]) PROVE FALSE
  OBVIOUS
<1>1. i \in Bad
  OBVIOUS
<1>2. PICK k \in Bad : \A j \in Bad : k <= j
  <2> HIDE DEF Bad
  <2>1. Bad \in SUBSET Nat
    BY DEF Bad
  <2> QED  BY <1>1, <2>1, LeastNatural
<1>3. k # 0 /\ k \in Nat /\ k <= N /\ ~(at[0] <= at[k])
  BY <1>2
<1>4. k - 1 \notin Bad
  BY <1>2, <1>3
<1>5. k - 1 \in Nat /\ k - 1 <= N /\ k \in 1..N
  BY <1>3
<1>6. at[0] <= at[k - 1] /\ at[k - 1] <= at[k]
  BY <1>4, <1>5
<1>7. at[0] \in Nat /\ at[k - 1] \in Nat /\ at[k] \in Nat
  BY <1>5
<1> QED  BY <1>3, <1>6, <1>7

\* Segments that follow each other flatten to one.
LEMMA FlattenSegments ==
    ASSUME NEW F, NEW N \in Nat, NEW at \in [0..N -> Nat],
           \A i \in 1..N : at[i - 1] <= at[i],
           NEW seqs, seqs = [i \in 1..N |-> Segment(F, at[i - 1], at[i])]
    PROVE  FlattenSeq(seqs) = Segment(F, at[0], at[N])
<1> DEFINE S == Values(F)
<1>0. \A i \in 1..N : /\ at[i - 1] \in Nat /\ at[i] \in Nat /\ at[0] \in Nat
                      /\ i - 1 \in 0..N /\ i \in 0..N
  OBVIOUS
<1>1. seqs \in Seq(Seq(S)) /\ Len(seqs) = N
  <2>1. \A i \in 1..N : Segment(F, at[i - 1], at[i]) \in Seq(S)
    <3> SUFFICES ASSUME NEW i \in 1..N
                 PROVE  Segment(F, at[i - 1], at[i]) \in Seq(S)
      OBVIOUS
    <3> QED  BY <1>0, SegmentFacts
  <2> HIDE DEF S
  <2>2. \A i \in 1..N : seqs[i] \in Seq(S)
    BY <2>1
  <2>3. seqs = [i \in 1..N |-> seqs[i]]
    OBVIOUS
  <2> DEFINE e(i) == seqs[i]
             T == Seq(S)
  <2>4. \A i \in 1..N : e(i) \in T
    BY <2>2
  <2> HIDE DEF e, T
  <2>5. [i \in 1..N |-> e(i)] \in Seq(T) /\ Len([i \in 1..N |-> e(i)]) = N
    BY <2>4, IsASeq
  <2> QED  BY <2>3, <2>5 DEF e, T
<1>2. CASE N = 0
  <2>1. seqs = <<>>
    BY <1>1, <1>2, EmptySeq
  <2>2. Segment(F, at[0], at[N]) = <<>>
    <3>1. /\ Len(Segment(F, at[0], at[0])) = 0
          /\ Segment(F, at[0], at[0]) \in Seq(S)
      <4>1. at[0] \in Nat /\ at[0] <= at[0]
        BY <1>2
      <4> QED  BY <4>1, SegmentFacts
    <3> QED  BY <1>2, <3>1, EmptySeq
  <2> QED  BY <1>1, <1>2, <2>1, <2>2 DEF FlattenSeq
<1>3. CASE N > 0
  <2> DEFINE Flat(f) == f = [i \in 1..Len(seqs) |->
                               IF i = 1 THEN seqs[i] ELSE f[i - 1] \o seqs[i]]
             g == [i \in 1..N |-> Segment(F, at[0], at[i])]
             f == CHOOSE h : Flat(h)
  <2>1. FlattenSeq(seqs) = f[Len(seqs)]
    <3>1. seqs # <<>>
      <4>1. Len(<<>>) = 0
        BY EmptySeq
      <4> QED  BY <1>1, <1>3, <4>1
    <3> QED  BY <3>1 DEF FlattenSeq
  <2>2. \A i \in 0..N : at[0] <= at[i]
    BY StepsUp
  <2>3. ASSUME NEW i \in 1..N, i # 1
        PROVE  g[i - 1] \o seqs[i] = g[i]
    <3>1. i - 1 \in 0..N /\ i \in 0..N /\ i - 1 \in 1..N
      BY <2>3
    <3>2. at[0] <= at[i - 1] /\ at[i - 1] <= at[i]
      BY <2>2, <3>1
    <3>3. Segment(F, at[0], at[i - 1]) \o Segment(F, at[i - 1], at[i])
            = Segment(F, at[0], at[i])
      BY <1>0, <3>2, SegmentConcat
    <3> QED  BY <3>1, <3>3
  <2>4. g[1] = seqs[1]
    BY <1>3
  <2>5. \A i \in 1..N : g[i] = IF i = 1 THEN seqs[i] ELSE g[i - 1] \o seqs[i]
    BY <2>3, <2>4
  <2>6. g = [i \in 1..N |-> g[i]]
    OBVIOUS
  <2> HIDE DEF g
  <2>7. Flat(g)
    BY ZenonT(60), <1>1, <2>5, <2>6
  <2>8. Flat(f)
    <3> HIDE DEF Flat
    <3> QED  BY <2>7
  <2> HIDE DEF f
  <2>9. \A i \in 1..N : f[i] = IF i = 1 THEN seqs[i] ELSE f[i - 1] \o seqs[i]
    BY <1>1, <2>8
  <2>10. ASSUME NEW i \in 1..N PROVE f[i] = g[i]
    <3> DEFINE Bad == {k \in Nat : k \in 1..N /\ f[k] # g[k]}
    <3> SUFFICES ASSUME f[i] # g[i] PROVE FALSE
      OBVIOUS
    <3>1. i \in Bad
      OBVIOUS
    <3>2. PICK k \in Bad : \A j \in Bad : k <= j
      <4> HIDE DEF Bad
      <4>1. Bad \in SUBSET Nat
        BY DEF Bad
      <4> QED  BY <3>1, <4>1, LeastNatural
    <3>3. k \in 1..N /\ f[k] # g[k]
      BY <3>2
    <3>4. k # 1
      BY <2>5, <2>9, <3>3
    <3>5. k - 1 \in 1..N /\ ~(k <= k - 1)
      BY <3>3, <3>4
    <3>6. f[k - 1] = g[k - 1]
      BY <3>2, <3>5
    <3> QED  BY <2>5, <2>9, <3>3, <3>4, <3>6
  <2> QED  BY <1>1, <1>3, <2>1, <2>10 DEF g
<1> QED  BY <1>2, <1>3

(* The places of a file, in the order in which they are filled.            *)

\* The place of the first entry of indirect2, and of its entry a.
Row0 == INODE_DIRECT_COUNT + BLOCK_SZ + 2
Row(a) == Row0 + a * (BLOCK_SZ + 1)

\* Quotient and remainder of a place behind indirect2.
RowOf(n) == (n - Row0) \div (BLOCK_SZ + 1)
CellOf(n) == (n - Row0) % (BLOCK_SZ + 1)

\* The place with number n.
Place(n) ==
    IF n < INODE_DIRECT_COUNT THEN <<"direct", n>>
    ELSE IF n = INODE_DIRECT_COUNT THEN <<"indirect1">>
    ELSE IF n < Row0 - 1 THEN <<"entry1", n - INODE_DIRECT_COUNT - 1>>
    ELSE IF n = Row0 - 1 THEN <<"indirect2">>
    ELSE IF CellOf(n) = 0 THEN <<"entry2", RowOf(n)>>
    ELSE <<"entry3", RowOf(n), CellOf(n) - 1>>

Places == [n \in Nat |-> Place(n)]

\* The block id in a place.
Index(inode, blocks, n) ==
    IF n < INODE_DIRECT_COUNT THEN inode.direct[n]
    ELSE IF n = INODE_DIRECT_COUNT THEN inode.indirect1
    ELSE IF n < Row0 - 1
         THEN blocks[inode.indirect1][n - INODE_DIRECT_COUNT - 1]
    ELSE IF n = Row0 - 1 THEN inode.indirect2
    ELSE IF CellOf(n) = 0 THEN blocks[inode.indirect2][RowOf(n)]
    ELSE blocks[blocks[inode.indirect2][RowOf(n)]][CellOf(n) - 1]

\* The block ids as a numbering.
Indexes(inode, blocks) == [n \in Nat |-> Index(inode, blocks, n)]

\* Place n is entry u of the block in place h.
Entry(n, h, u) ==
    \/ /\ h = INODE_DIRECT_COUNT /\ u \in 0..(BLOCK_SZ - 1)
       /\ n = INODE_DIRECT_COUNT + 1 + u
    \/ h = Row0 - 1 /\ u \in Nat /\ n = Row(u)
    \/ \E a \in Nat : /\ h = Row(a) /\ u \in 0..(BLOCK_SZ - 1)
                      /\ n = Row(a) + 1 + u

\* Places of blocks of entries.
IndexPlace(h) ==
    h = INODE_DIRECT_COUNT \/ h = Row0 - 1 \/ \E a \in Nat : h = Row(a)

\* The place of data block d, and the places of d data blocks.
DataPlace(d) ==
    LET k == d - INODE_DIRECT_COUNT - BLOCK_SZ
    IN  IF d < INODE_DIRECT_COUNT THEN d
        ELSE IF k < 0 THEN d + 1
        ELSE Row(k \div BLOCK_SZ) + 1 + (k % BLOCK_SZ)

\* The number of places that d data blocks need.
PlacesOf(d) == IF d = 0 THEN 0 ELSE DataPlace(d - 1) + 1

\* The layout constants are positive.
LEMMA Sizes ==
    /\ BLOCK_SZ \in Nat /\ BLOCK_SZ > 0
    /\ INODE_DIRECT_COUNT \in Nat /\ INODE_DIRECT_COUNT > 0
    /\ Row0 \in Nat /\ Row0 = INODE_DIRECT_COUNT + BLOCK_SZ + 2
  BY LayoutAssumption DEF Row0

\* The rows are BLOCK_SZ + 1 places apart.
LEMMA RowFacts ==
    ASSUME NEW a \in Nat, NEW b \in Nat
    PROVE  /\ Row(a) \in Nat /\ Row(a) >= Row0
           /\ Row(0) = Row0
           /\ Row(a + 1) = Row(a) + BLOCK_SZ + 1
           /\ a <= b => Row(a) <= Row(b)
           /\ a < b => Row(a) + BLOCK_SZ + 1 <= Row(b)
           /\ Row(a) = Row(b) => a = b
<1> DEFINE W == BLOCK_SZ + 1
<1>1. W \in Nat /\ Row0 \in Nat /\ W > 0
  BY Sizes
<1>2. W = BLOCK_SZ + 1
  OBVIOUS
<1> HIDE DEF W
<1>3. /\ a * W \in Nat /\ b * W \in Nat /\ (a + 1) * W = a * W + W
      /\ a <= b => a * W <= b * W
      /\ a < b => a * W + W <= b * W
      /\ b < a => b * W + W <= a * W
      /\ 0 * W = 0
  BY <1>1, Times
<1>4. \A c \in Nat : Row(c) = Row0 + c * W
  BY DEF Row, W
<1>5. /\ Row(a) = Row0 + a * W /\ Row(b) = Row0 + b * W /\ Row(0) = Row0 + 0 * W
      /\ Row(a + 1) = Row0 + (a + 1) * W
  BY <1>4
<1>6. Row(a) \in Nat /\ Row(a) >= Row0 /\ Row(0) = Row0
  BY <1>1, <1>3, <1>5
<1>7. Row(a + 1) = Row(a) + BLOCK_SZ + 1
  BY <1>1, <1>2, <1>3, <1>5, Sizes
<1>8. a < b => Row(a) + BLOCK_SZ + 1 <= Row(b)
  BY <1>1, <1>2, <1>3, <1>5, Sizes
<1>9. a <= b => Row(a) <= Row(b)
  BY <1>1, <1>2, <1>3, <1>5, Sizes
<1>10. Row(a) = Row(b) => a = b
  BY <1>1, <1>2, <1>3, <1>5, Sizes
<1> QED  BY <1>6, <1>7, <1>8, <1>9, <1>10

\* A place in row a is read as row and cell.
LEMMA RowCell ==
    ASSUME NEW a \in Nat, NEW c \in 0..BLOCK_SZ
    PROVE  RowOf(Row(a) + c) = a /\ CellOf(Row(a) + c) = c
<1> DEFINE W == BLOCK_SZ + 1
<1>1. W \in Nat \ {0} /\ c \in 0..(W - 1)
  BY Sizes
<1>2. (Row(a) + c) - Row0 = a * W + c
  <2>1. a * W \in Nat
    BY <1>1, Times
  <2> HIDE DEF W
  <2>2. Row(a) = Row0 + a * W
    BY DEF Row, W
  <2> QED  BY <2>1, <2>2, Sizes
<1>3. (a * W + c) \div W = a /\ (a * W + c) % W = c
  <2> HIDE DEF W
  <2> QED  BY <1>1, DivModUnique
<1>4. /\ RowOf(Row(a) + c) = ((Row(a) + c) - Row0) \div W
      /\ CellOf(Row(a) + c) = ((Row(a) + c) - Row0) % W
  BY DEF RowOf, CellOf
<1> HIDE DEF W
<1> QED  BY <1>2, <1>3, <1>4

\* Every place is of one of six kinds.
LEMMA PlaceKinds ==
    ASSUME NEW n \in Nat
    PROVE  \/ n < INODE_DIRECT_COUNT
           \/ n = INODE_DIRECT_COUNT
           \/ \E u \in 0..(BLOCK_SZ - 1) : n = INODE_DIRECT_COUNT + 1 + u
           \/ n = Row0 - 1
           \/ \E a \in Nat : n = Row(a)
           \/ \E a \in Nat, u \in 0..(BLOCK_SZ - 1) : n = Row(a) + 1 + u
<1>1. CASE n < Row0
  <2>1. ASSUME n > INODE_DIRECT_COUNT, n < Row0 - 1
        PROVE  /\ n - INODE_DIRECT_COUNT - 1 \in 0..(BLOCK_SZ - 1)
               /\ n = INODE_DIRECT_COUNT + 1 + (n - INODE_DIRECT_COUNT - 1)
    BY <2>1, Sizes
  <2>2. \/ n < INODE_DIRECT_COUNT \/ n = INODE_DIRECT_COUNT \/ n = Row0 - 1
        \/ n > INODE_DIRECT_COUNT /\ n < Row0 - 1
    BY <1>1, Sizes
  <2> QED  BY <2>1, <2>2
<1>2. CASE n >= Row0
  <2> DEFINE W == BLOCK_SZ + 1
             a == (n - Row0) \div W
             c == (n - Row0) % W
  <2>1. W \in Nat \ {0} /\ n - Row0 \in Nat
    BY <1>2, Sizes
  <2>2. a \in Nat /\ c \in 0..(W - 1) /\ n - Row0 = a * W + c
    <3> HIDE DEF W
    <3> QED  BY <2>1, DivMod
  <2>3. Row(a) = Row0 + a * W /\ a * W \in Nat
    BY <2>1, <2>2, Times DEF Row
  <2> HIDE DEF a, c
  <2>4. n = Row(a) + c
    BY <2>1, <2>2, <2>3, Sizes
  <2>5. CASE c = 0
    BY <2>2, <2>3, <2>4, <2>5, Sizes
  <2>6. CASE c # 0
    <3>1. c - 1 \in 0..(BLOCK_SZ - 1) /\ n = Row(a) + 1 + (c - 1)
      BY <2>2, <2>3, <2>4, <2>6, Sizes
    <3> QED  BY <2>2, <3>1
  <2> QED  BY <2>5, <2>6
<1> QED  BY <1>1, <1>2, Sizes

\* The place that each number stands for.
LEMMA PlaceValues ==
    /\ \A n \in Nat : n < INODE_DIRECT_COUNT => Place(n) = <<"direct", n>>
    /\ Place(INODE_DIRECT_COUNT) = <<"indirect1">>
    /\ \A u \in 0..(BLOCK_SZ - 1) :
          Place(INODE_DIRECT_COUNT + 1 + u) = <<"entry1", u>>
    /\ Place(Row0 - 1) = <<"indirect2">>
    /\ \A a \in Nat : Place(Row(a)) = <<"entry2", a>>
    /\ \A a \in Nat, u \in 0..(BLOCK_SZ - 1) :
          Place(Row(a) + 1 + u) = <<"entry3", a, u>>
<1>1. \A n \in Nat : n < INODE_DIRECT_COUNT => Place(n) = <<"direct", n>>
  BY Sizes DEF Place
<1>2. Place(INODE_DIRECT_COUNT) = <<"indirect1">>
  BY Sizes DEF Place
<1>3. ASSUME NEW u \in 0..(BLOCK_SZ - 1)
      PROVE  Place(INODE_DIRECT_COUNT + 1 + u) = <<"entry1", u>>
  <2> DEFINE n == INODE_DIRECT_COUNT + 1 + u
  <2>1. /\ ~(n < INODE_DIRECT_COUNT) /\ n # INODE_DIRECT_COUNT /\ n < Row0 - 1
        /\ n - INODE_DIRECT_COUNT - 1 = u
    BY Sizes
  <2> HIDE DEF n
  <2>2. Place(n) = <<"entry1", u>>
    BY <2>1 DEF Place
  <2> QED  BY <2>2 DEF n
<1>4. Place(Row0 - 1) = <<"indirect2">>
  BY Sizes DEF Place
<1>5. ASSUME NEW a \in Nat PROVE Place(Row(a)) = <<"entry2", a>>
  <2> DEFINE n == Row(a)
  <2>1. Row(a) \in Nat /\ Row(a) >= Row0
    BY RowFacts
  <2>2. /\ ~(n < INODE_DIRECT_COUNT) /\ n # INODE_DIRECT_COUNT
        /\ ~(n < Row0 - 1) /\ n # Row0 - 1
    BY <2>1, Sizes
  <2>3. RowOf(n) = a /\ CellOf(n) = 0
    <3>1. RowOf(Row(a) + 0) = a /\ CellOf(Row(a) + 0) = 0 /\ Row(a) + 0 = Row(a)
      BY <2>1, Sizes, RowCell
    <3> QED  BY <3>1
  <2> HIDE DEF n
  <2>4. Place(n) = <<"entry2", a>>
    BY <2>2, <2>3 DEF Place
  <2> QED  BY <2>4 DEF n
<1>6. ASSUME NEW a \in Nat, NEW u \in 0..(BLOCK_SZ - 1)
      PROVE  Place(Row(a) + 1 + u) = <<"entry3", a, u>>
  <2> DEFINE n == Row(a) + 1 + u
  <2>1. Row(a) \in Nat /\ Row(a) >= Row0
    BY RowFacts
  <2>2. /\ ~(n < INODE_DIRECT_COUNT) /\ n # INODE_DIRECT_COUNT
        /\ ~(n < Row0 - 1) /\ n # Row0 - 1
    BY <2>1, Sizes
  <2>3. RowOf(n) = a /\ CellOf(n) = 1 + u
    <3>1. 1 + u \in 0..BLOCK_SZ /\ n = Row(a) + (1 + u)
      BY <2>1, Sizes
    <3> QED  BY <3>1, RowCell
  <2>4. 1 + u # 0 /\ (1 + u) - 1 = u
    BY Sizes
  <2> HIDE DEF n
  <2>5. Place(n) = <<"entry3", a, u>>
    BY <2>2, <2>3, <2>4 DEF Place
  <2> QED  BY <2>5 DEF n
<1> QED  BY <1>1, <1>2, <1>3, <1>4, <1>5, <1>6

\* The block id in each kind of place, as the code reads it.
LEMMA IndexValues ==
    ASSUME NEW inode, NEW blocks
    PROVE  /\ \A n \in Nat : n < INODE_DIRECT_COUNT =>
                Index(inode, blocks, n) = inode.direct[n]
           /\ Index(inode, blocks, INODE_DIRECT_COUNT) = inode.indirect1
           /\ \A u \in 0..(BLOCK_SZ - 1) :
                Index(inode, blocks, INODE_DIRECT_COUNT + 1 + u)
                   = blocks[inode.indirect1][u]
           /\ Index(inode, blocks, Row0 - 1) = inode.indirect2
           /\ \A a \in Nat : Index(inode, blocks, Row(a))
                                = blocks[inode.indirect2][a]
           /\ \A a \in Nat, u \in 0..(BLOCK_SZ - 1) :
                Index(inode, blocks, Row(a) + 1 + u)
                   = blocks[blocks[inode.indirect2][a]][u]
<1>1. \A n \in Nat : n < INODE_DIRECT_COUNT =>
         Index(inode, blocks, n) = inode.direct[n]
  BY Sizes DEF Index
<1>2. Index(inode, blocks, INODE_DIRECT_COUNT) = inode.indirect1
  BY Sizes DEF Index
<1>3. ASSUME NEW u \in 0..(BLOCK_SZ - 1)
      PROVE  Index(inode, blocks, INODE_DIRECT_COUNT + 1 + u)
                = blocks[inode.indirect1][u]
  <2> DEFINE n == INODE_DIRECT_COUNT + 1 + u
  <2>1. /\ ~(n < INODE_DIRECT_COUNT) /\ n # INODE_DIRECT_COUNT /\ n < Row0 - 1
        /\ n - INODE_DIRECT_COUNT - 1 = u
    BY Sizes
  <2> HIDE DEF n
  <2>2. Index(inode, blocks, n) = blocks[inode.indirect1][u]
    BY <2>1 DEF Index
  <2> QED  BY <2>2 DEF n
<1>4. Index(inode, blocks, Row0 - 1) = inode.indirect2
  BY Sizes DEF Index
<1>5. ASSUME NEW a \in Nat
      PROVE  Index(inode, blocks, Row(a)) = blocks[inode.indirect2][a]
  <2> DEFINE n == Row(a)
  <2>1. Row(a) \in Nat /\ Row(a) >= Row0
    BY RowFacts
  <2>2. /\ ~(n < INODE_DIRECT_COUNT) /\ n # INODE_DIRECT_COUNT
        /\ ~(n < Row0 - 1) /\ n # Row0 - 1
    BY <2>1, Sizes
  <2>3. RowOf(n) = a /\ CellOf(n) = 0
    <3>1. RowOf(Row(a) + 0) = a /\ CellOf(Row(a) + 0) = 0 /\ Row(a) + 0 = Row(a)
      BY <2>1, Sizes, RowCell
    <3> QED  BY <3>1
  <2> HIDE DEF n
  <2>4. Index(inode, blocks, n) = blocks[inode.indirect2][a]
    BY <2>2, <2>3 DEF Index
  <2> QED  BY <2>4 DEF n
<1>6. ASSUME NEW a \in Nat, NEW u \in 0..(BLOCK_SZ - 1)
      PROVE  Index(inode, blocks, Row(a) + 1 + u)
                = blocks[blocks[inode.indirect2][a]][u]
  <2> DEFINE n == Row(a) + 1 + u
  <2>1. Row(a) \in Nat /\ Row(a) >= Row0
    BY RowFacts
  <2>2. /\ ~(n < INODE_DIRECT_COUNT) /\ n # INODE_DIRECT_COUNT
        /\ ~(n < Row0 - 1) /\ n # Row0 - 1
    BY <2>1, Sizes
  <2>3. RowOf(n) = a /\ CellOf(n) = 1 + u
    <3>1. 1 + u \in 0..BLOCK_SZ /\ n = Row(a) + (1 + u)
      BY <2>1, Sizes
    <3> QED  BY <3>1, RowCell
  <2>4. 1 + u # 0 /\ (1 + u) - 1 = u
    BY Sizes
  <2> HIDE DEF n
  <2>5. Index(inode, blocks, n) = blocks[blocks[inode.indirect2][a]][u]
    BY <2>2, <2>3, <2>4 DEF Index
  <2> QED  BY <2>5 DEF n
<1> QED  BY <1>1, <1>2, <1>3, <1>4, <1>5, <1>6

\* The number of a place: no two places are the same.
Number(place) ==
    CASE place[1] = "direct" -> place[2]
      [] place[1] = "indirect1" -> INODE_DIRECT_COUNT
      [] place[1] = "entry1" -> INODE_DIRECT_COUNT + 1 + place[2]
      [] place[1] = "indirect2" -> Row0 - 1
      [] place[1] = "entry2" -> Row(place[2])
      [] place[1] = "entry3" -> Row(place[2]) + 1 + place[3]

\* The number of each kind of place.
LEMMA NumberValues ==
    /\ \A n : Number(<<"direct", n>>) = n
    /\ Number(<<"indirect1">>) = INODE_DIRECT_COUNT
    /\ \A u : Number(<<"entry1", u>>) = INODE_DIRECT_COUNT + 1 + u
    /\ Number(<<"indirect2">>) = Row0 - 1
    /\ \A a : Number(<<"entry2", a>>) = Row(a)
    /\ \A a, u : Number(<<"entry3", a, u>>) = Row(a) + 1 + u
  BY DEF Number

\* Place and Number are inverse: no place is filled under two numbers.
LEMMA PlaceNumber ==
    ASSUME NEW n \in Nat PROVE Number(Place(n)) = n
<1>1. CASE n < INODE_DIRECT_COUNT
  BY <1>1, PlaceValues, NumberValues
<1>2. CASE n = INODE_DIRECT_COUNT
  BY <1>2, PlaceValues, NumberValues
<1>3. CASE \E u \in 0..(BLOCK_SZ - 1) : n = INODE_DIRECT_COUNT + 1 + u
  BY <1>3, PlaceValues, NumberValues
<1>4. CASE n = Row0 - 1
  BY <1>4, PlaceValues, NumberValues
<1>5. CASE \E a \in Nat : n = Row(a)
  BY <1>5, PlaceValues, NumberValues
<1>6. CASE \E a \in Nat, u \in 0..(BLOCK_SZ - 1) : n = Row(a) + 1 + u
  BY <1>6, PlaceValues, NumberValues
<1> QED  BY <1>1, <1>2, <1>3, <1>4, <1>5, <1>6, PlaceKinds

\* A row and a cell are determined by their sum.
LEMMA RowsNotCells ==
    ASSUME NEW a \in Nat, NEW b \in Nat, NEW c \in 0..BLOCK_SZ, NEW e \in 0..BLOCK_SZ,
           Row(a) + c = Row(b) + e
    PROVE  a = b /\ c = e
<1>1. /\ RowOf(Row(a) + c) = a /\ CellOf(Row(a) + c) = c
      /\ RowOf(Row(b) + e) = b /\ CellOf(Row(b) + e) = e
  BY RowCell
<1> QED  BY <1>1

\* The block of entries that a place is in comes before the place.
LEMMA EntryFacts ==
    ASSUME NEW n, NEW h, NEW u, Entry(n, h, u)
    PROVE  /\ n \in Nat /\ h \in Nat /\ h < n /\ u \in Nat
           /\ IndexPlace(h)
           /\ n > INODE_DIRECT_COUNT
           /\ n # Row0 - 1
<1>1. CASE /\ h = INODE_DIRECT_COUNT /\ u \in 0..(BLOCK_SZ - 1)
           /\ n = INODE_DIRECT_COUNT + 1 + u
  BY <1>1, Sizes DEF IndexPlace
<1>2. CASE h = Row0 - 1 /\ u \in Nat /\ n = Row(u)
  <2>1. Row(u) \in Nat /\ Row(u) >= Row0
    BY <1>2, RowFacts
  <2> QED  BY <1>2, <2>1, Sizes DEF IndexPlace
<1>3. ASSUME NEW a \in Nat, h = Row(a), u \in 0..(BLOCK_SZ - 1),
             n = Row(a) + 1 + u
      PROVE  /\ n \in Nat /\ h \in Nat /\ h < n /\ u \in Nat
             /\ IndexPlace(h)
             /\ n > INODE_DIRECT_COUNT
             /\ n # Row0 - 1
  <2>1. Row(a) \in Nat /\ Row(a) >= Row0
    BY RowFacts
  <2>2. IndexPlace(h)
    BY <1>3 DEF IndexPlace
  <2> QED  BY <1>3, <2>1, <2>2, Sizes
<1> QED  BY <1>1, <1>2, <1>3 DEF Entry

\* An entry is in one place only.
LEMMA EntryUnique ==
    ASSUME NEW n, NEW m, NEW h, NEW u, Entry(n, h, u), Entry(m, h, u)
    PROVE  n = m
<1>1. \A a \in Nat : Row(a) \in Nat /\ Row(a) >= Row0
  BY RowFacts
<1>2. \A a, b \in Nat : Row(a) = Row(b) => a = b
  BY RowFacts
<1>3. CASE h = INODE_DIRECT_COUNT
  <2>1. h # Row0 - 1 /\ \A a \in Nat : h # Row(a)
    BY <1>1, <1>3, Sizes
  <2> QED  BY <2>1 DEF Entry
<1>4. CASE h = Row0 - 1
  <2>1. h # INODE_DIRECT_COUNT /\ \A a \in Nat : h # Row(a)
    BY <1>1, <1>4, Sizes
  <2> QED  BY <2>1 DEF Entry
<1>5. CASE h # INODE_DIRECT_COUNT /\ h # Row0 - 1
  <2>1. PICK a \in Nat : h = Row(a) /\ n = Row(a) + 1 + u
    BY <1>5 DEF Entry
  <2>2. PICK b \in Nat : h = Row(b) /\ m = Row(b) + 1 + u
    BY <1>5 DEF Entry
  <2> QED  BY <1>2, <2>1, <2>2
<1> QED  BY <1>3, <1>4, <1>5

\* Unit u of block b.
At(blocks, b, u) == blocks[b][u]

\* What is in an entry is in the block of its holder.
LEMMA EntryIndex ==
    ASSUME NEW inode, NEW blocks, NEW n, NEW h, NEW u, Entry(n, h, u)
    PROVE  Index(inode, blocks, n) = At(blocks, Index(inode, blocks, h), u)
<1> SUFFICES Index(inode, blocks, n) = blocks[Index(inode, blocks, h)][u]
  BY DEF At
<1>1. CASE /\ h = INODE_DIRECT_COUNT /\ u \in 0..(BLOCK_SZ - 1)
           /\ n = INODE_DIRECT_COUNT + 1 + u
  BY <1>1, IndexValues
<1>2. CASE h = Row0 - 1 /\ u \in Nat /\ n = Row(u)
  BY <1>2, IndexValues
<1>3. ASSUME NEW a \in Nat, h = Row(a), u \in 0..(BLOCK_SZ - 1),
             n = Row(a) + 1 + u
      PROVE  Index(inode, blocks, n) = blocks[Index(inode, blocks, h)][u]
  <2>1. Index(inode, blocks, Row(a)) = blocks[inode.indirect2][a]
    BY ZenonT(60), IndexValues
  <2>2. Index(inode, blocks, Row(a) + 1 + u)
          = blocks[blocks[inode.indirect2][a]][u]
    BY <1>3, IndexValues
  <2> QED  BY <1>3, <2>1, <2>2
<1> QED  BY <1>1, <1>2, <1>3 DEF Entry

\* A place is in the inode itself, or an entry.
LEMMA InInodeOrEntry ==
    ASSUME NEW n \in Nat
    PROVE  \/ n < INODE_DIRECT_COUNT \/ n = INODE_DIRECT_COUNT \/ n = Row0 - 1
           \/ \E h, u \in Nat : Entry(n, h, u)
<1>1. CASE \E u \in 0..(BLOCK_SZ - 1) : n = INODE_DIRECT_COUNT + 1 + u
  BY <1>1, Sizes DEF Entry
<1>2. CASE \E a \in Nat : n = Row(a)
  <2>1. PICK a \in Nat : n = Row(a)
    BY <1>2
  <2>2. Row0 - 1 \in Nat /\ Entry(n, Row0 - 1, a)
    BY <2>1, Sizes DEF Entry
  <2> QED  BY <2>2
<1>3. CASE \E a \in Nat, u \in 0..(BLOCK_SZ - 1) : n = Row(a) + 1 + u
  <2>1. PICK a \in Nat, u \in 0..(BLOCK_SZ - 1) : n = Row(a) + 1 + u
    BY <1>3
  <2>2. Row(a) \in Nat /\ u \in Nat
    BY RowFacts
  <2>3. Entry(n, Row(a), u)
    BY <2>1 DEF Entry
  <2> QED  BY <2>2, <2>3
<1> QED  BY <1>1, <1>2, <1>3, PlaceKinds

-----------------------------------------------------------------------------
(* The places of the data blocks                                           *)

\* Quotients go up with the number.
LEMMA DivUp ==
    ASSUME NEW B \in Nat \ {0}, NEW n \in Nat, NEW m \in Nat, n <= m
    PROVE  n \div B <= m \div B
<1> DEFINE p == n \div B
           q == m \div B
           r == n % B
           s == m % B
<1>1. /\ p \in Nat /\ r \in 0..(B - 1) /\ n = p * B + r
      /\ q \in Nat /\ s \in 0..(B - 1) /\ m = q * B + s
  BY DivMod
<1> HIDE DEF p, q, r, s
<1>2. p * B \in Nat /\ q * B \in Nat /\ (q < p => q * B + B <= p * B)
  BY <1>1, Times
<1>3. p <= q
  BY <1>1, <1>2
<1> QED  BY <1>3 DEF p, q

\* The place of a data block behind indirect2, as row and cell.
LEMMA DataPlaceFar ==
    ASSUME NEW d \in Nat, d >= INODE_DIRECT_COUNT + BLOCK_SZ
    PROVE  LET k == d - INODE_DIRECT_COUNT - BLOCK_SZ
               a == k \div BLOCK_SZ
               u == k % BLOCK_SZ
           IN  /\ k \in Nat /\ a \in Nat /\ u \in 0..(BLOCK_SZ - 1)
               /\ k = a * BLOCK_SZ + u
               /\ DataPlace(d) = Row(a) + 1 + u
               /\ DataPlace(d) = d + 3 + a
<1> DEFINE k == d - INODE_DIRECT_COUNT - BLOCK_SZ
           a == k \div BLOCK_SZ
           u == k % BLOCK_SZ
<1>1. k \in Nat /\ d = k + INODE_DIRECT_COUNT + BLOCK_SZ
  BY Sizes
<1>2. ~(d < INODE_DIRECT_COUNT) /\ ~(k < 0)
  BY Sizes
<1>3. DataPlace(d) = Row(a) + 1 + u
  BY <1>2 DEF DataPlace
<1> HIDE DEF k
<1>4. a \in Nat /\ u \in 0..(BLOCK_SZ - 1) /\ k = a * BLOCK_SZ + u
  BY <1>1, Sizes, DivMod
<1> HIDE DEF a, u
<1>5. Row(a) = Row0 + (a * BLOCK_SZ + a) /\ a * BLOCK_SZ \in Nat
  BY <1>4, Sizes DEF Row
<1>6. DataPlace(d) = d + 3 + a
  BY <1>1, <1>3, <1>4, <1>5, Sizes
<1> QED  BY <1>1, <1>3, <1>4, <1>6 DEF k, a, u

\* The place of a data block in the inode or behind indirect1.
LEMMA DataPlaceNear ==
    ASSUME NEW d \in Nat, d < INODE_DIRECT_COUNT + BLOCK_SZ
    PROVE  DataPlace(d) = IF d < INODE_DIRECT_COUNT THEN d ELSE d + 1
<1>1. (d - INODE_DIRECT_COUNT) - BLOCK_SZ < 0
  BY Sizes
<1> QED  BY <1>1, Sizes DEF DataPlace

\* A data block has a place.
LEMMA DataPlaceNat ==
    ASSUME NEW d \in Nat
    PROVE  DataPlace(d) \in Nat /\ d <= DataPlace(d)
<1>1. CASE d < INODE_DIRECT_COUNT + BLOCK_SZ
  BY <1>1, DataPlaceNear
<1>2. CASE d >= INODE_DIRECT_COUNT + BLOCK_SZ
  <2> DEFINE k == d - INODE_DIRECT_COUNT - BLOCK_SZ
             a == k \div BLOCK_SZ
  <2>1. a \in Nat /\ DataPlace(d) = d + 3 + a
    BY <1>2, DataPlaceFar
  <2> HIDE DEF a
  <2> QED  BY <2>1
<1> QED  BY <1>1, <1>2, Sizes

\* A later data block has a later place.
LEMMA DataPlaceUp ==
    ASSUME NEW d \in Nat, NEW e \in Nat, d < e
    PROVE  DataPlace(d) < DataPlace(e)
<1> DEFINE bound == INODE_DIRECT_COUNT + BLOCK_SZ
           q(x) == (x - INODE_DIRECT_COUNT - BLOCK_SZ) \div BLOCK_SZ
<1>1. \A x \in Nat : x >= bound => q(x) \in Nat /\ DataPlace(x) = x + 3 + q(x)
  BY DataPlaceFar
<1>2. \A x \in Nat : x < bound => DataPlace(x) = x \/ DataPlace(x) = x + 1
  BY DataPlaceNear
<1>3. CASE e < bound
  BY <1>3, DataPlaceNear, Sizes
<1>4. CASE d < bound /\ e >= bound
  <2> HIDE DEF q
  <2> QED  BY <1>1, <1>2, <1>4, Sizes
<1>5. CASE d >= bound
  <2>1. q(d) <= q(e)
    <3>1. /\ d - INODE_DIRECT_COUNT - BLOCK_SZ \in Nat
          /\ e - INODE_DIRECT_COUNT - BLOCK_SZ \in Nat
          /\ d - INODE_DIRECT_COUNT - BLOCK_SZ <= e - INODE_DIRECT_COUNT - BLOCK_SZ
      BY <1>5, Sizes
    <3> QED  BY <3>1, DivUp, Sizes
  <2> HIDE DEF q
  <2> QED  BY <1>1, <1>5, <2>1, Sizes
<1> QED  BY <1>3, <1>4, <1>5, Sizes

\* A data block is not in the place of a block of entries.
LEMMA DataPlaceNotIndex ==
    ASSUME NEW d \in Nat PROVE ~IndexPlace(DataPlace(d))
<1>1. \A a \in Nat : Row(a) \in Nat /\ Row(a) >= Row0
  BY RowFacts
<1>2. CASE d < INODE_DIRECT_COUNT + BLOCK_SZ
  <2>1. DataPlace(d) = IF d < INODE_DIRECT_COUNT THEN d ELSE d + 1
    BY <1>2, DataPlaceNear
  <2> QED  BY <1>1, <1>2, <2>1, Sizes DEF IndexPlace
<1>3. CASE d >= INODE_DIRECT_COUNT + BLOCK_SZ
  <2> DEFINE k == d - INODE_DIRECT_COUNT - BLOCK_SZ
             a == k \div BLOCK_SZ
             u == k % BLOCK_SZ
  <2>1. a \in Nat /\ u \in 0..(BLOCK_SZ - 1) /\ DataPlace(d) = Row(a) + 1 + u
    BY <1>3, DataPlaceFar
  <2> HIDE DEF a, u
  <2>2. DataPlace(d) > Row0
    BY <1>1, <2>1, Sizes
  <2>3. ASSUME NEW b \in Nat, DataPlace(d) = Row(b) PROVE FALSE
    <3>1. Row(a) + (1 + u) = Row(b) + 0 /\ 1 + u \in 0..BLOCK_SZ /\ 0 \in 0..BLOCK_SZ
      BY <1>1, <2>1, <2>3, Sizes
    <3>2. 1 + u = 0
      BY <2>1, <3>1, RowsNotCells
    <3> QED  BY <2>1, <3>2, Sizes
  <2> QED  BY <2>2, <2>3, Sizes DEF IndexPlace
<1> QED  BY <1>2, <1>3, Sizes

\* get_block_id looks into the place of the data block.
LEMMA GetBlockId ==
    ASSUME NEW inode, NEW blocks, NEW d \in Nat
    PROVE  get_block_id(inode, blocks, d) = Index(inode, blocks, DataPlace(d))
<1> USE DEF INODE_INDIRECT1_COUNT, INDIRECT1_BOUND, DIRECT_BOUND
<1>1. CASE d < INODE_DIRECT_COUNT
  <2>1. DataPlace(d) = d
    BY <1>1, DataPlaceNear, Sizes
  <2>2. Index(inode, blocks, d) = inode.direct[d]
    BY ZenonT(60), <1>1, IndexValues
  <2> QED  BY <1>1, <2>1, <2>2 DEF get_block_id
<1>2. CASE ~(d < INODE_DIRECT_COUNT) /\ d < INODE_DIRECT_COUNT + BLOCK_SZ
  <2> DEFINE u == d - INODE_DIRECT_COUNT
  <2>1. u \in 0..(BLOCK_SZ - 1) /\ d + 1 = INODE_DIRECT_COUNT + 1 + u
    BY <1>2, Sizes
  <2>2. DataPlace(d) = d + 1
    BY <1>2, DataPlaceNear
  <2>3. get_block_id(inode, blocks, d) = blocks[inode.indirect1][u]
    BY <1>2 DEF get_block_id
  <2> HIDE DEF u
  <2>4. Index(inode, blocks, INODE_DIRECT_COUNT + 1 + u)
          = blocks[inode.indirect1][u]
    BY <2>1, IndexValues
  <2> QED  BY <2>1, <2>2, <2>3, <2>4
<1>3. CASE d >= INODE_DIRECT_COUNT + BLOCK_SZ
  <2> DEFINE k == d - INODE_DIRECT_COUNT - BLOCK_SZ
             a == k \div BLOCK_SZ
             u == k % BLOCK_SZ
  <2>1. a \in Nat /\ u \in 0..(BLOCK_SZ - 1) /\ DataPlace(d) = Row(a) + 1 + u
    BY <1>3, DataPlaceFar
  <2>2. k = d - (INODE_DIRECT_COUNT + BLOCK_SZ)
    BY Sizes
  <2>3. /\ ~(d < INODE_DIRECT_COUNT) /\ ~(d < INODE_DIRECT_COUNT + BLOCK_SZ)
    BY <1>3, Sizes
  <2> HIDE DEF k
  <2>4. get_block_id(inode, blocks, d) = blocks[blocks[inode.indirect2][a]][u]
    BY <2>2, <2>3 DEF get_block_id
  <2> HIDE DEF a, u
  <2>5. Index(inode, blocks, Row(a) + 1 + u)
          = blocks[blocks[inode.indirect2][a]][u]
    BY <2>1, IndexValues
  <2> QED  BY <2>1, <2>4, <2>5
<1> QED  BY <1>1, <1>2, <1>3, Sizes

\* The places of d data blocks come first, and end with the last data block.
LEMMA PlacesOfFacts ==
    ASSUME NEW d \in Nat, NEW e \in Nat
    PROVE  /\ PlacesOf(d) \in Nat
           /\ d <= e => PlacesOf(d) <= PlacesOf(e)
           /\ d < e => DataPlace(d) < PlacesOf(e)
           /\ d >= e => DataPlace(d) >= PlacesOf(e)
<1>1. \A x \in Nat : DataPlace(x) \in Nat
  BY DataPlaceNat
<1>2. \A x, y \in Nat : x < y => DataPlace(x) < DataPlace(y)
  BY DataPlaceUp
<1>3. \A x \in Nat : x # 0 => x - 1 \in Nat /\ PlacesOf(x) = DataPlace(x - 1) + 1
  BY DEF PlacesOf
<1>4. PlacesOf(0) = 0
  BY DEF PlacesOf
<1>5. PlacesOf(d) \in Nat /\ PlacesOf(e) \in Nat
  BY <1>1, <1>3, <1>4
<1>6. ASSUME d < e PROVE DataPlace(d) < PlacesOf(e)
  <2>1. e # 0 /\ (d = e - 1 \/ d < e - 1)
    BY <1>6
  <2>2. DataPlace(d) <= DataPlace(e - 1)
    BY <1>1, <1>2, <1>3, <2>1
  <2> QED  BY <1>1, <1>3, <2>1, <2>2
<1>7. ASSUME d >= e PROVE DataPlace(d) >= PlacesOf(e)
  <2>1. CASE e = 0
    BY <1>1, <1>4, <2>1
  <2>2. CASE e # 0
    <3>1. e - 1 \in Nat /\ e - 1 < d
      BY <1>7, <2>2
    <3>2. DataPlace(e - 1) < DataPlace(d)
      BY <1>2, <3>1
    <3> QED  BY <1>1, <1>3, <2>2, <3>1, <3>2
  <2> QED  BY <2>1, <2>2
<1>8. ASSUME d <= e PROVE PlacesOf(d) <= PlacesOf(e)
  <2>1. CASE d = 0
    BY <1>4, <1>5, <2>1
  <2>2. CASE d = e
    BY <1>5, <2>2
  <2>3. CASE d # 0 /\ d < e
    <3>1. d - 1 \in Nat /\ e - 1 \in Nat /\ d - 1 < e - 1 /\ e # 0
      BY <2>3
    <3>2. DataPlace(d - 1) < DataPlace(e - 1)
      BY <1>2, <3>1
    <3> QED  BY <1>1, <1>3, <2>3, <3>1, <3>2
  <2> QED  BY <1>8, <2>1, <2>2, <2>3
<1> QED  BY <1>5, <1>6, <1>7, <1>8

\* Places behind indirect2 that k blocks fill.
FarPlaces(k) ==
    IF k = 0 THEN Row0
    ELSE PlacesOf(INODE_DIRECT_COUNT + BLOCK_SZ + k)

\* Where the places of k data blocks behind indirect2 end.
LEMMA FarPlacesFacts ==
    ASSUME NEW k \in Nat
    PROVE  LET a == k \div BLOCK_SZ
               b == k % BLOCK_SZ
           IN  /\ a \in Nat /\ b \in 0..(BLOCK_SZ - 1)
               /\ FarPlaces(k) = IF b = 0 THEN Row(a) ELSE Row(a) + 1 + b
               /\ FarPlaces(k + 1) = Row(a) + 2 + b
<1> DEFINE bound == INODE_DIRECT_COUNT + BLOCK_SZ
<1>1. ASSUME NEW m \in Nat
      PROVE  /\ m \div BLOCK_SZ \in Nat /\ m % BLOCK_SZ \in 0..(BLOCK_SZ - 1)
             /\ m = (m \div BLOCK_SZ) * BLOCK_SZ + (m % BLOCK_SZ)
             /\ FarPlaces(m + 1) = Row(m \div BLOCK_SZ) + 2 + (m % BLOCK_SZ)
  <2>1. bound + (m + 1) # 0 /\ (bound + (m + 1)) - 1 = bound + m /\ m + 1 # 0
        /\ bound + m \in Nat /\ bound + m >= bound
    BY Sizes
  <2>2. FarPlaces(m + 1) = DataPlace(bound + m) + 1
    <3>1. FarPlaces(m + 1) = PlacesOf(bound + (m + 1))
      BY <2>1 DEF FarPlaces
    <3> HIDE DEF bound
    <3> QED  BY <2>1, <3>1 DEF PlacesOf
  <2>3. ((bound + m) - INODE_DIRECT_COUNT) - BLOCK_SZ = m
    BY Sizes
  <2> DEFINE d == bound + m
             x == d - INODE_DIRECT_COUNT - BLOCK_SZ
             a == m \div BLOCK_SZ
             b == m % BLOCK_SZ
  <2>4. /\ x \div BLOCK_SZ \in Nat /\ x % BLOCK_SZ \in 0..(BLOCK_SZ - 1)
        /\ x = (x \div BLOCK_SZ) * BLOCK_SZ + (x % BLOCK_SZ)
        /\ DataPlace(d) = Row(x \div BLOCK_SZ) + 1 + (x % BLOCK_SZ)
    <3> HIDE DEF d
    <3>1. d \in Nat /\ d >= INODE_DIRECT_COUNT + BLOCK_SZ
      BY <2>1 DEF d
    <3> QED  BY <3>1, DataPlaceFar
  <2>5. x = m
    BY Sizes
  <2> HIDE DEF d, x
  <2>6. /\ a \in Nat /\ b \in 0..(BLOCK_SZ - 1) /\ m = a * BLOCK_SZ + b
        /\ DataPlace(d) = Row(a) + 1 + b
    BY <2>4, <2>5
  <2>7. Row(a) \in Nat
    BY <2>6, RowFacts
  <2>8. FarPlaces(m + 1) = Row(a) + 1 + b + 1
    BY <2>2, <2>6 DEF d
  <2> HIDE DEF a, b
  <2>9. FarPlaces(m + 1) = Row(a) + 2 + b
    BY <2>6, <2>7, <2>8, Sizes
  <2> QED  BY <2>6, <2>9 DEF a, b
<1> DEFINE a == k \div BLOCK_SZ
           b == k % BLOCK_SZ
<1>2. /\ a \in Nat /\ b \in 0..(BLOCK_SZ - 1) /\ k = a * BLOCK_SZ + b
      /\ FarPlaces(k + 1) = Row(a) + 2 + b
  BY <1>1
<1> HIDE DEF a, b
<1>3. ASSUME k = 0 PROVE FarPlaces(k) = IF b = 0 THEN Row(a) ELSE Row(a) + 1 + b
  <2>1. a = 0 /\ b = 0
    <3>1. a * BLOCK_SZ = 0 /\ b = 0
      BY <1>2, <1>3, Sizes, Times
    <3>2. a # 0 => a * BLOCK_SZ >= BLOCK_SZ
      BY <1>2, Sizes
    <3> QED  BY <1>2, <3>1, <3>2, Sizes
  <2> QED  BY <1>3, <2>1, RowFacts DEF FarPlaces
<1>4. ASSUME k # 0, b # 0 PROVE FarPlaces(k) = Row(a) + 1 + b
  <2>1. k - 1 \in Nat /\ k - 1 = a * BLOCK_SZ + (b - 1) /\ b - 1 \in 0..(BLOCK_SZ - 1)
        /\ (k - 1) + 1 = k
    BY <1>2, <1>4, Sizes, Times
  <2>2. (k - 1) \div BLOCK_SZ = a /\ (k - 1) % BLOCK_SZ = b - 1
    <3> DEFINE c == b - 1
    <3>1. c \in 0..(BLOCK_SZ - 1) /\ k - 1 = a * BLOCK_SZ + c
      BY <2>1
    <3> HIDE DEF c
    <3>2. (a * BLOCK_SZ + c) \div BLOCK_SZ = a /\ (a * BLOCK_SZ + c) % BLOCK_SZ = c
      BY SMTT(30), <1>2, <3>1, Sizes, DivModUnique
    <3> QED  BY <3>1, <3>2 DEF c
  <2>3. FarPlaces(k) = Row(a) + 2 + (b - 1)
    BY <1>1, <2>1, <2>2
  <2>4. Row(a) \in Nat
    BY <1>2, RowFacts
  <2> QED  BY <1>2, <2>3, <2>4, Sizes
<1>5. ASSUME k # 0, b = 0 PROVE FarPlaces(k) = Row(a)
  <2>1. a # 0
    BY <1>2, <1>5, Sizes
  <2>2. a - 1 \in Nat /\ (a - 1) + 1 = a
    BY <1>2, <2>1
  <2>3. ((a - 1) + 1) * BLOCK_SZ = (a - 1) * BLOCK_SZ + BLOCK_SZ /\ (a - 1) * BLOCK_SZ \in Nat
    BY <2>2, Sizes, Times
  <2>4. k = (a - 1) * BLOCK_SZ + BLOCK_SZ
    BY <1>2, <1>5, <2>2, <2>3, Sizes
  <2>5. k - 1 \in Nat /\ k - 1 = (a - 1) * BLOCK_SZ + (BLOCK_SZ - 1)
        /\ BLOCK_SZ - 1 \in 0..(BLOCK_SZ - 1) /\ (k - 1) + 1 = k
    BY <2>3, <2>4, <1>5, Sizes
  <2>6. (k - 1) \div BLOCK_SZ = a - 1 /\ (k - 1) % BLOCK_SZ = BLOCK_SZ - 1
    <3> DEFINE c == BLOCK_SZ - 1
               p == a - 1
    <3>1. c \in 0..(BLOCK_SZ - 1) /\ k - 1 = p * BLOCK_SZ + c /\ p \in Nat
      BY <2>2, <2>5
    <3> HIDE DEF c, p
    <3>2. (p * BLOCK_SZ + c) \div BLOCK_SZ = p /\ (p * BLOCK_SZ + c) % BLOCK_SZ = c
      BY <3>1, Sizes, DivModUnique
    <3> QED  BY <3>1, <3>2 DEF c, p
  <2>7. FarPlaces(k) = Row(a - 1) + 2 + (BLOCK_SZ - 1)
    BY <1>1, <2>5, <2>6
  <2>8. Row((a - 1) + 1) = Row(a - 1) + BLOCK_SZ + 1 /\ Row(a - 1) \in Nat
    BY <2>2, RowFacts
  <2> QED  BY <2>2, <2>7, <2>8, Sizes
<1> QED  BY <1>2, <1>3, <1>4, <1>5 DEF a, b

\* The loop over the entries of the rows takes them in the order of places.
LEMMA RowsFlatten ==
    ASSUME NEW F, NEW c \in Nat, NEW t \in Nat, c <= t, NEW seqs,
           seqs = [i \in 1..(t - c) |->
                     LET a == (c + i - 1) \div BLOCK_SZ
                         b == (c + i - 1) % BLOCK_SZ
                     IN  (IF b = 0 THEN <<F[Row(a)]>> ELSE <<>>)
                         \o <<F[Row(a) + 1 + b]>>]
    PROVE  FlattenSeq(seqs) = Segment(F, FarPlaces(c), FarPlaces(t))
<1> DEFINE at == [i \in 0..(t - c) |-> FarPlaces(c + i)]
           N == t - c
<1>0. N \in Nat
  OBVIOUS
<1>1. \A k \in Nat : FarPlaces(k) \in Nat
  <2>1. ASSUME NEW k \in Nat PROVE FarPlaces(k) \in Nat
    <3>1. INODE_DIRECT_COUNT + BLOCK_SZ + k \in Nat
      BY Sizes
    <3> QED  BY <3>1, PlacesOfFacts, Sizes DEF FarPlaces
  <2> QED  BY <2>1
<1>2. at \in [0..N -> Nat]
  BY <1>1
<1>3. ASSUME NEW i \in 1..N
      PROVE  /\ at[i - 1] <= at[i]
             /\ seqs[i] = Segment(F, at[i - 1], at[i])
  <2> DEFINE k == c + i - 1
             a == k \div BLOCK_SZ
             b == k % BLOCK_SZ
  <2>1. k \in Nat /\ i - 1 \in 0..N /\ i \in 0..N /\ c + (i - 1) = k /\ c + i = k + 1
    BY <1>0
  <2>2. at[i - 1] = FarPlaces(k) /\ at[i] = FarPlaces(k + 1)
    BY <2>1
  <2>3. seqs[i] = (IF b = 0 THEN <<F[Row(a)]>> ELSE <<>>) \o <<F[Row(a) + 1 + b]>>
    OBVIOUS
  <2> HIDE DEF k, at
  <2>4. /\ a \in Nat /\ b \in 0..(BLOCK_SZ - 1)
        /\ FarPlaces(k) = IF b = 0 THEN Row(a) ELSE Row(a) + 1 + b
        /\ FarPlaces(k + 1) = Row(a) + 2 + b
    BY <2>1, FarPlacesFacts
  <2> HIDE DEF a, b
  <2>5. Row(a) \in Nat
    BY <2>4, RowFacts
  <2> DEFINE x == Row(a)
  <2>6. ASSUME NEW y \in Nat PROVE Segment(F, y, y + 1) = <<F[y]>>
    <3>1. (y + 1) - y = 1 /\ 1..1 = {1} /\ y + 1 - 1 = y
      OBVIOUS
    <3>2. Segment(F, y, y + 1) = [j \in 1..1 |-> F[y + j - 1]]
      BY <3>1 DEF Segment
    <3>3. \A j \in 1..1 : F[y + j - 1] = F[y]
      OBVIOUS
    <3> QED  BY <3>2, <3>3
  <2>7. CASE b # 0
    <3>1. FarPlaces(k) = x + 1 + b /\ FarPlaces(k + 1) = (x + 1 + b) + 1 /\ x + 1 + b \in Nat
      BY <2>4, <2>5, <2>7, Sizes
    <3>2. seqs[i] = <<F[x + 1 + b]>>
      <4>1. seqs[i] = <<>> \o <<F[x + 1 + b]>>
        BY <2>3, <2>7
      <4>2. <<F[x + 1 + b]>> \in Seq({F[x + 1 + b]})
        OBVIOUS
      <4> QED  BY <4>1, <4>2, ConcatEmptySeq
    <3>3. Segment(F, x + 1 + b, (x + 1 + b) + 1) = <<F[x + 1 + b]>>
      BY <2>6, <3>1
    <3>4. FarPlaces(k) <= FarPlaces(k + 1)
      BY <3>1
    <3>5. seqs[i] = Segment(F, FarPlaces(k), FarPlaces(k + 1))
      BY <3>1, <3>2, <3>3
    <3> QED  BY <2>2, <3>4, <3>5
  <2>8. CASE b = 0
    <3>1. FarPlaces(k) = x /\ FarPlaces(k + 1) = (x + 1) + 1 /\ x + 1 \in Nat /\ x + 1 + b = x + 1
      BY <2>4, <2>5, <2>8
    <3>2. seqs[i] = <<F[x]>> \o <<F[x + 1]>>
      BY <2>3, <2>8, <3>1
    <3>3. Segment(F, x, x + 1) = <<F[x]>> /\ Segment(F, x + 1, (x + 1) + 1) = <<F[x + 1]>>
      BY <2>5, <2>6, <3>1
    <3>4. Segment(F, x, x + 1) \o Segment(F, x + 1, (x + 1) + 1)
             = Segment(F, x, (x + 1) + 1)
      <4>1. x \in Nat /\ (x + 1) + 1 \in Nat /\ x <= x + 1 /\ x + 1 <= (x + 1) + 1
        BY <2>5
      <4> QED  BY ZenonT(60), <3>1, <4>1, SegmentConcat
    <3>5. FarPlaces(k) <= FarPlaces(k + 1)
      BY <2>5, <3>1
    <3>6. seqs[i] = Segment(F, FarPlaces(k), FarPlaces(k + 1))
      BY <3>1, <3>2, <3>3, <3>4
    <3> QED  BY <2>2, <3>5, <3>6
  <2> QED  BY <2>7, <2>8
<1>4. seqs = [i \in 1..N |-> Segment(F, at[i - 1], at[i])]
  <2>1. DOMAIN seqs = 1..N /\ seqs = [i \in DOMAIN seqs |-> seqs[i]]
    OBVIOUS
  <2> HIDE DEF at, N
  <2> QED  BY <1>3, <2>1
<1>5. at[0] = FarPlaces(c) /\ at[N] = FarPlaces(t)
  BY <1>0
<1> HIDE DEF at, N
<1>6. \A i \in 1..N : at[i - 1] <= at[i]
  BY <1>3
<1>7. FlattenSeq(seqs) = Segment(F, at[0], at[N])
  BY <1>0, <1>2, <1>4, <1>6, FlattenSegments
<1> QED  BY <1>5, <1>7

\* The number of places that d data blocks need, by level.
LEMMA PlacesOfValues ==
    ASSUME NEW d \in Nat
    PROVE  /\ d <= INODE_DIRECT_COUNT => PlacesOf(d) = d
           /\ d > INODE_DIRECT_COUNT /\ d <= INODE_DIRECT_COUNT + BLOCK_SZ =>
                 PlacesOf(d) = d + 1
           /\ d > INODE_DIRECT_COUNT + BLOCK_SZ =>
                 /\ d - INODE_DIRECT_COUNT - BLOCK_SZ \in Nat \ {0}
                 /\ PlacesOf(d) = FarPlaces(d - INODE_DIRECT_COUNT - BLOCK_SZ)
<1>1. CASE d = 0
  BY <1>1, Sizes DEF PlacesOf
<1>2. ASSUME d # 0, d <= INODE_DIRECT_COUNT + BLOCK_SZ
      PROVE  PlacesOf(d) = IF d <= INODE_DIRECT_COUNT THEN d ELSE d + 1
  <2>1. d - 1 \in Nat /\ d - 1 < INODE_DIRECT_COUNT + BLOCK_SZ
    BY <1>2, Sizes
  <2>2. DataPlace(d - 1) = IF d - 1 < INODE_DIRECT_COUNT THEN d - 1 ELSE (d - 1) + 1
    BY <2>1, DataPlaceNear
  <2>3. PlacesOf(d) = DataPlace(d - 1) + 1
    BY <1>2 DEF PlacesOf
  <2> QED  BY <2>1, <2>2, <2>3, Sizes
<1>3. ASSUME d > INODE_DIRECT_COUNT + BLOCK_SZ
      PROVE  /\ d - INODE_DIRECT_COUNT - BLOCK_SZ \in Nat \ {0}
             /\ PlacesOf(d) = FarPlaces(d - INODE_DIRECT_COUNT - BLOCK_SZ)
  <2> DEFINE k == d - INODE_DIRECT_COUNT - BLOCK_SZ
  <2>1. k \in Nat \ {0} /\ d = INODE_DIRECT_COUNT + BLOCK_SZ + k
    BY <1>3, Sizes
  <2> HIDE DEF k
  <2>2. PlacesOf(d) = FarPlaces(k)
    BY <2>1 DEF FarPlaces
  <2> QED  BY <2>1, <2>2 DEF k
<1> QED  BY <1>1, <1>2, <1>3, Sizes

\* data_blocks is the least number of blocks that the size fits into.
LEMMA DataBlocks ==
    ASSUME NEW size \in Nat
    PROVE  /\ data_blocks(size) \in Nat
           /\ size <= data_blocks(size) * BLOCK_SZ
           /\ data_blocks(size) * BLOCK_SZ < size + BLOCK_SZ
           /\ data_blocks(size) * BLOCK_SZ \in Nat
<1> DEFINE n == size + BLOCK_SZ - 1
           q == n \div BLOCK_SZ
           r == n % BLOCK_SZ
<1>1. n \in Nat /\ size + BLOCK_SZ = n + 1
  BY Sizes
<1>2. data_blocks(size) = q
  BY DEF data_blocks
<1> HIDE DEF n
<1>3. q \in Nat /\ r \in 0..(BLOCK_SZ - 1) /\ n = q * BLOCK_SZ + r
  BY <1>1, Sizes, DivMod
<1> HIDE DEF q, r
<1>4. q * BLOCK_SZ \in Nat
  BY <1>3, Sizes, Times
<1> QED  BY <1>1, <1>2, <1>3, <1>4, Sizes

\* A larger file has no fewer data blocks.
LEMMA DataBlocksUp ==
    ASSUME NEW x \in Nat, NEW y \in Nat, x <= y
    PROVE  data_blocks(x) <= data_blocks(y)
<1>1. x + BLOCK_SZ - 1 \in Nat /\ y + BLOCK_SZ - 1 \in Nat
      /\ x + BLOCK_SZ - 1 <= y + BLOCK_SZ - 1 /\ BLOCK_SZ \in Nat \ {0}
  BY Sizes
<1> QED  BY <1>1, DivUp DEF data_blocks

\* total_blocks counts the places of a file of that size.
LEMMA TotalBlocksPlaces ==
    ASSUME NEW size \in Nat
    PROVE  total_blocks(size) = PlacesOf(data_blocks(size))
<1> DEFINE d == data_blocks(size)
           bound == INODE_DIRECT_COUNT + BLOCK_SZ
<1>1. d \in Nat
  BY DataBlocks
<1> HIDE DEF d
<1>2. total_blocks(size)
        = (d + (IF d > INODE_DIRECT_COUNT THEN 1 ELSE 0))
          + (IF d > bound
             THEN 1 + (((d - bound) + BLOCK_SZ) - 1) \div BLOCK_SZ
             ELSE 0)
  <2>1. (((d - bound) + BLOCK_SZ) - 1) = d - bound + BLOCK_SZ - 1
    BY <1>1, Sizes
  <2> QED  BY <2>1 DEF total_blocks, d, INDIRECT1_BOUND, INODE_INDIRECT1_COUNT, DIRECT_BOUND
<1>3. CASE d <= bound
  <2>1. PlacesOf(d) = IF d <= INODE_DIRECT_COUNT THEN d ELSE d + 1
    BY <1>1, <1>3, PlacesOfValues, Sizes
  <2>2. total_blocks(size) = PlacesOf(d)
    BY <1>1, <1>2, <1>3, <2>1, Sizes
  <2> QED  BY <2>2 DEF d
<1>4. CASE d > bound
  <2> DEFINE e == d - 1
             k == e - INODE_DIRECT_COUNT - BLOCK_SZ
             a == k \div BLOCK_SZ
             u == k % BLOCK_SZ
  <2>1. e \in Nat /\ e >= INODE_DIRECT_COUNT + BLOCK_SZ
    BY <1>1, <1>4, Sizes
  <2>2. PlacesOf(d) = DataPlace(e) + 1
    BY <1>4, Sizes DEF PlacesOf
  <2>3. ((d - bound) + BLOCK_SZ) - 1 = k + BLOCK_SZ
    BY <1>1, Sizes
  <2>4. e = d - 1
    OBVIOUS
  <2> HIDE DEF e
  <2>5. /\ k \in Nat /\ a \in Nat /\ u \in 0..(BLOCK_SZ - 1)
        /\ k = a * BLOCK_SZ + u
        /\ DataPlace(e) = e + 3 + a
    BY <2>1, DataPlaceFar
  <2> HIDE DEF k, a, u
  <2>6. k + BLOCK_SZ = (a + 1) * BLOCK_SZ + u /\ a + 1 \in Nat
    BY <2>5, Sizes, Times
  <2>7. ((a + 1) * BLOCK_SZ + u) \div BLOCK_SZ = a + 1
    <3> DEFINE p == a + 1
    <3>1. p \in Nat
      BY <2>6
    <3> HIDE DEF p
    <3>2. (p * BLOCK_SZ + u) \div BLOCK_SZ = p
      BY <2>5, <3>1, Sizes, DivModUnique
    <3> QED  BY <3>2 DEF p
  <2>8. (((d - bound) + BLOCK_SZ) - 1) \div BLOCK_SZ = a + 1
    BY <2>3, <2>6, <2>7
  <2>9. total_blocks(size) = (d + 1) + (1 + (a + 1))
    <3>1. d > INODE_DIRECT_COUNT
      BY <1>1, <1>4, Sizes
    <3> HIDE DEF bound
    <3> QED  BY <1>2, <1>4, <2>8, <3>1
  <2> QED  BY <1>1, <2>2, <2>4, <2>5, <2>9 DEF d
<1> QED  BY <1>1, <1>3, <1>4, Sizes DEF d

\* Rows of a file within the bound are entries of one block.
LEMMA RowsBounded ==
    ASSUME NEW d \in Nat, d <= INDIRECT2_BOUND, NEW a \in Nat, Row(a) < PlacesOf(d)
    PROVE  a \in 0..(BLOCK_SZ - 1)
<1>1. INDIRECT2_BOUND = INODE_DIRECT_COUNT + BLOCK_SZ + BLOCK_SZ * BLOCK_SZ
  BY DEF INDIRECT2_BOUND, INDIRECT1_BOUND, INODE_INDIRECT2_COUNT,
         INODE_INDIRECT1_COUNT, DIRECT_BOUND
<1> DEFINE sq == BLOCK_SZ * BLOCK_SZ
<1>2. sq \in Nat \ {0}
  BY Sizes
<1>3. FarPlaces(sq) = Row(BLOCK_SZ)
  <2>1. sq = BLOCK_SZ * BLOCK_SZ + 0 /\ 0 \in 0..(BLOCK_SZ - 1)
    BY <1>2, Sizes
  <2>2. (BLOCK_SZ * BLOCK_SZ + 0) \div BLOCK_SZ = BLOCK_SZ /\ (BLOCK_SZ * BLOCK_SZ + 0) % BLOCK_SZ = 0
    BY <2>1, Sizes, DivModUnique
  <2> HIDE DEF sq
  <2>3. sq \div BLOCK_SZ = BLOCK_SZ /\ sq % BLOCK_SZ = 0
    BY <2>1, <2>2
  <2> QED  BY <1>2, <2>3, FarPlacesFacts
<1> DEFINE top == INODE_DIRECT_COUNT + BLOCK_SZ + sq
<1>4. top \in Nat /\ d <= top /\ PlacesOf(top) = FarPlaces(sq)
  <2>1. d <= top
    BY <1>1
  <2> HIDE DEF sq
  <2> QED  BY <1>2, <2>1, Sizes DEF FarPlaces
<1> HIDE DEF sq, top
<1>5. PlacesOf(d) <= Row(BLOCK_SZ) /\ PlacesOf(d) \in Nat
  BY <1>3, <1>4, PlacesOfFacts
<1>6. Row(a) \in Nat /\ Row(BLOCK_SZ) \in Nat /\ (BLOCK_SZ <= a => Row(BLOCK_SZ) <= Row(a))
  BY Sizes, RowFacts
<1> QED  BY <1>5, <1>6, Sizes

-----------------------------------------------------------------------------
(* The loops of increase_size and clear_size go over the places in order.  *)

\* The number of turns of a loop.
LEMMA LoopDomain ==
    ASSUME NEW x \in Int, NEW y \in Int
    PROVE  DOMAIN Loop(x, y) = 1..Greater(y - x, 0)
  BY DEF Loop

\* A segment from x to x is empty.
LEMMA SegmentEmpty ==
    ASSUME NEW F, NEW x \in Nat, NEW y \in Nat, x = y
    PROVE  Segment(F, x, y) = <<>>
<1>1. x <= y /\ y - x = 0
  OBVIOUS
<1>2. Segment(F, x, y) \in Seq(Values(F)) /\ Len(Segment(F, x, y)) = y - x
  BY <1>1, SegmentFacts
<1> QED  BY <1>1, <1>2, EmptySeq

\* A segment of one element.
LEMMA SegmentOne ==
    ASSUME NEW F, NEW x \in Nat, NEW y \in Nat, y = x + 1
    PROVE  Segment(F, x, y) = <<F[x]>>
<1>1. Segment(F, x, y) = [j \in 1..1 |-> F[x + j - 1]]
  BY DEF Segment
<1>2. \A j \in 1..1 : F[x + j - 1] = F[x]
  OBVIOUS
<1> QED  BY <1>1, <1>2

\* The loop of increase_size over direct fills places in order.
LEMMA DirectPlacesSegment ==
    ASSUME NEW c \in Nat, NEW t \in Nat, NEW x \in Nat, NEW y \in Nat,
           x <= y, y - x = Greater(Lesser(t, INODE_DIRECT_COUNT) - c, 0),
           x < y => x = c
    PROVE  DirectPlaces(c, t) = Segment(Places, x, y)
<1> DEFINE m == Lesser(t, INODE_DIRECT_COUNT)
           s == DirectPlaces(c, t)
<1>1. m \in Nat /\ m <= INODE_DIRECT_COUNT
  BY Sizes DEF Lesser
<1>2. DOMAIN Loop(c, m) = 1..(y - x)
  BY <1>1, LoopDomain
<1>3. s = [i \in 1..(y - x) |-> <<"direct", c + i - 1>>]
  BY <1>2 DEF DirectPlaces
<1>4. ASSUME NEW i \in 1..(y - x) PROVE s[i] = Places[x + i - 1]
  <2>1. x = c /\ x + i - 1 \in Nat
    BY <1>4
  <2>2. y - x = m - c
    BY <1>1, <1>4 DEF Greater
  <2>3. x + i - 1 < INODE_DIRECT_COUNT
    <3> HIDE DEF m
    <3> QED  BY <1>1, <2>1, <2>2, Sizes
  <2>4. Place(x + i - 1) = <<"direct", x + i - 1>>
    BY <2>1, <2>3, PlaceValues
  <2> QED  BY <1>3, <2>1, <2>4 DEF Places
<1>5. s = [i \in 1..(y - x) |-> s[i]]
  BY <1>3
<1> HIDE DEF s
<1>6. s = [i \in 1..(y - x) |-> Places[x + i - 1]]
  BY <1>4, <1>5
<1> QED  BY <1>6 DEF s, Segment

\* So does the loop over the entries of indirect1.
LEMMA Entry1PlacesSegment ==
    ASSUME NEW c \in Nat, NEW t \in Nat, NEW x \in Nat, NEW y \in Nat,
           x <= y, y - x = Greater(Lesser(t, BLOCK_SZ) - c, 0),
           x < y => x = INODE_DIRECT_COUNT + 1 + c
    PROVE  [i \in DOMAIN Loop(c, Lesser(t, BLOCK_SZ)) |-> <<"entry1", c + i - 1>>]
              = Segment(Places, x, y)
<1> DEFINE m == Lesser(t, BLOCK_SZ)
           s == [i \in DOMAIN Loop(c, m) |-> <<"entry1", c + i - 1>>]
<1>1. m \in Nat /\ m <= BLOCK_SZ
  BY Sizes DEF Lesser
<1>2. DOMAIN Loop(c, m) = 1..(y - x)
  BY <1>1, LoopDomain
<1>3. s = [i \in 1..(y - x) |-> <<"entry1", c + i - 1>>]
  BY <1>2
<1>4. ASSUME NEW i \in 1..(y - x) PROVE s[i] = Places[x + i - 1]
  <2> DEFINE u == c + i - 1
  <2>1. x + i - 1 = INODE_DIRECT_COUNT + 1 + u /\ x + i - 1 \in Nat
    BY <1>4, Sizes
  <2>2. y - x = m - c
    BY <1>1, <1>4 DEF Greater
  <2>3. u \in 0..(BLOCK_SZ - 1)
    BY <1>1, <2>2, Sizes
  <2>4. s[i] = <<"entry1", u>>
    BY <1>3
  <2> HIDE DEF u
  <2>5. Place(INODE_DIRECT_COUNT + 1 + u) = <<"entry1", u>>
    BY <2>3, PlaceValues
  <2> QED  BY <2>1, <2>4, <2>5 DEF Places
<1>5. s = [i \in 1..(y - x) |-> s[i]]
  BY <1>3
<1> HIDE DEF s
<1>6. s = [i \in 1..(y - x) |-> Places[x + i - 1]]
  BY <1>4, <1>5
<1> QED  BY <1>6 DEF s, Segment

\* So does the double loop over the entries behind indirect2.
LEMMA Indirect2PlacesSegment ==
    ASSUME NEW c \in Nat, NEW t \in Nat, c <= t
    PROVE  Indirect2Places(c, t) = Segment(Places, FarPlaces(c), FarPlaces(t))
<1> DEFINE seqs == [i \in 1..(t - c) |->
                     LET a == (c + i - 1) \div BLOCK_SZ
                         b == (c + i - 1) % BLOCK_SZ
                     IN  (IF b = 0 THEN <<Places[Row(a)]>> ELSE <<>>)
                         \o <<Places[Row(a) + 1 + b]>>]
           loop == [i \in 1..(t - c) |->
                     LET a == (c + i - 1) \div BLOCK_SZ
                         b == (c + i - 1) % BLOCK_SZ
                     IN  (IF b = 0 THEN << <<"entry2", a>> >> ELSE <<>>)
                         \o << <<"entry3", a, b>> >>]
<1>1. Indirect2Places(c, t) = FlattenSeq(loop)
  <2>1. DOMAIN Loop(c, t) = 1..(t - c)
    BY LoopDomain DEF Greater
  <2> QED  BY <2>1 DEF Indirect2Places, INODE_INDIRECT1_COUNT
<1>2. ASSUME NEW i \in 1..(t - c) PROVE loop[i] = seqs[i]
  <2> DEFINE k == c + i - 1
             a == k \div BLOCK_SZ
             b == k % BLOCK_SZ
  <2>1. k \in Nat
    OBVIOUS
  <2>2. /\ loop[i] = (IF b = 0 THEN << <<"entry2", a>> >> ELSE <<>>)
                       \o << <<"entry3", a, b>> >>
        /\ seqs[i] = (IF b = 0 THEN <<Places[Row(a)]>> ELSE <<>>)
                       \o <<Places[Row(a) + 1 + b]>>
    OBVIOUS
  <2> HIDE DEF k, loop, seqs
  <2>3. a \in Nat /\ b \in 0..(BLOCK_SZ - 1)
    BY <2>1, Sizes, DivMod
  <2> HIDE DEF a, b
  <2>4. Row(a) \in Nat /\ Row(a) + 1 + b \in Nat
    BY <2>3, RowFacts
  <2>5. Places[Row(a)] = <<"entry2", a>> /\ Places[Row(a) + 1 + b] = <<"entry3", a, b>>
    BY <2>3, <2>4, PlaceValues DEF Places
  <2> QED  BY <2>2, <2>5
<1>3. loop = seqs
  <2>1. loop = [i \in 1..(t - c) |-> loop[i]] /\ seqs = [i \in 1..(t - c) |-> seqs[i]]
    OBVIOUS
  <2> HIDE DEF loop, seqs
  <2> QED  BY <1>2, <2>1
<1>4. FlattenSeq(seqs) = Segment(Places, FarPlaces(c), FarPlaces(t))
  BY RowsFlatten
<1> HIDE DEF loop, seqs
<1> QED  BY <1>1, <1>3, <1>4

\* increase_size fills the places from the first that the file does not have
\* to the last that it needs, in order.
LEMMA PlacesFilledSegment ==
    ASSUME NEW c \in Nat, NEW t \in Nat, c <= t
    PROVE  PlacesFilled(c, t) = Segment(Places, PlacesOf(c), PlacesOf(t))
<1> DEFINE c1 == Greater(c, INODE_DIRECT_COUNT) - INODE_DIRECT_COUNT
           t1 == t - INODE_DIRECT_COUNT
           c2 == Greater(c1, Lesser(t1, BLOCK_SZ))
           on == t1 > BLOCK_SZ
           base == IF on THEN BLOCK_SZ ELSE 0
           head == IF c1 = 0 THEN << <<"indirect1">> >> ELSE <<>>
           ones == [i \in DOMAIN Loop(c1, Lesser(t1, BLOCK_SZ)) |->
                      <<"entry1", c1 + i - 1>>]
           two == IF on /\ c2 = BLOCK_SZ THEN << <<"indirect2">> >> ELSE <<>>
           far == Indirect2Places(c2 - base, t1 - base)
           p0 == PlacesOf(c)
           p5 == PlacesOf(t)
<1>1. PlacesFilled(c, t)
        = DirectPlaces(c, t)
          \o (IF t <= INODE_DIRECT_COUNT THEN <<>>
              ELSE (((head \o ones) \o two) \o far))
  BY DEF PlacesFilled, Indirect1Places, INODE_INDIRECT1_COUNT
<1>2. p0 \in Nat /\ p5 \in Nat /\ p0 <= p5
  BY PlacesOfFacts
<1>3. CASE t <= INODE_DIRECT_COUNT
  <2>1. p0 = c /\ p5 = t
    BY <1>3, PlacesOfValues, Sizes
  <2>2. t - c = Greater(Lesser(t, INODE_DIRECT_COUNT) - c, 0)
    BY <1>3, Sizes DEF Greater, Lesser
  <2>3. DirectPlaces(c, t) = Segment(Places, c, t)
    BY <2>2, DirectPlacesSegment
  <2>4. Segment(Places, c, t) \in Seq(Values(Places))
    BY SegmentFacts
  <2>5. Segment(Places, c, t) \o <<>> = Segment(Places, c, t)
    BY <2>4, ConcatEmptySeq
  <2> QED  BY <1>1, <1>3, <2>1, <2>3, <2>5
<1>4. CASE t > INODE_DIRECT_COUNT
  <2> DEFINE p1 == IF p0 < INODE_DIRECT_COUNT THEN INODE_DIRECT_COUNT ELSE p0
             p2 == IF p1 = INODE_DIRECT_COUNT THEN p1 + 1 ELSE p1
             end1 == INODE_DIRECT_COUNT + 1 + Lesser(t1, BLOCK_SZ)
             p3 == IF p2 < end1 THEN end1 ELSE p2
             p4 == IF on /\ p3 = Row0 - 1 THEN Row0 ELSE p3
  <2>1. /\ c <= INODE_DIRECT_COUNT => p0 = c
        /\ c > INODE_DIRECT_COUNT /\ c <= INODE_DIRECT_COUNT + BLOCK_SZ => p0 = c + 1
        /\ c > INODE_DIRECT_COUNT + BLOCK_SZ => p0 >= c + 3
        /\ t <= INODE_DIRECT_COUNT + BLOCK_SZ => p5 = t + 1
        /\ t > INODE_DIRECT_COUNT + BLOCK_SZ => p5 >= t + 3
    <3>1. ASSUME NEW d \in Nat, d > INODE_DIRECT_COUNT + BLOCK_SZ
          PROVE  PlacesOf(d) >= d + 3
      <4> DEFINE e == d - 1
                 k == e - INODE_DIRECT_COUNT - BLOCK_SZ
                 a == k \div BLOCK_SZ
      <4>1. e \in Nat /\ e >= INODE_DIRECT_COUNT + BLOCK_SZ /\ d = e + 1 /\ d # 0
        BY <3>1, Sizes
      <4>2. PlacesOf(d) = DataPlace(e) + 1
        BY <4>1 DEF PlacesOf
      <4> HIDE DEF e
      <4>3. a \in Nat /\ DataPlace(e) = e + 3 + a
        BY <4>1, DataPlaceFar
      <4> HIDE DEF a
      <4> QED  BY <4>1, <4>2, <4>3
    <3> QED  BY <1>4, <3>1, PlacesOfValues
  <2>2. c1 \in Nat /\ t1 \in Nat /\ c1 <= t1 /\ t1 > 0
        /\ c1 = (IF c <= INODE_DIRECT_COUNT THEN 0 ELSE c - INODE_DIRECT_COUNT)
    BY <1>4, Sizes DEF Greater
  <2>3. t1 = t - INODE_DIRECT_COUNT
    OBVIOUS
  <2>4. p0 \in Nat /\ p5 \in Nat /\ p0 <= p5
    BY <1>2
  <2> HIDE DEF p0, p5, c1, t1
  <2>5. /\ p1 \in Nat /\ p2 \in Nat /\ p3 \in Nat /\ p4 \in Nat
        /\ p0 <= p1 /\ p1 <= p2 /\ p2 <= p3 /\ p3 <= p4
    BY <2>2, <2>4, Sizes DEF Lesser
  <2>6. DirectPlaces(c, t) = Segment(Places, p0, p1)
    <3>1. p1 - p0 = Greater(Lesser(t, INODE_DIRECT_COUNT) - c, 0) /\ (p0 < p1 => p0 = c)
      BY <1>4, <2>1, <2>4, Sizes DEF Greater, Lesser
    <3> HIDE DEF p1
    <3> QED  BY <2>4, <2>5, <3>1, DirectPlacesSegment
  <2>7. head = Segment(Places, p1, p2)
    <3>1. CASE p1 = INODE_DIRECT_COUNT
      <4>1. c1 = 0 /\ p2 = p1 + 1
        BY <2>1, <2>2, <2>4, <3>1, Sizes
      <4>2. Places[p1] = <<"indirect1">>
        BY <3>1, PlaceValues, Sizes DEF Places
      <4> HIDE DEF p1, p2
      <4>3. Segment(Places, p1, p2) = <<Places[p1]>>
        BY <2>5, <4>1, SegmentOne
      <4> QED  BY <4>1, <4>2, <4>3
    <3>2. CASE p1 # INODE_DIRECT_COUNT
      <4>1. c1 # 0 /\ p2 = p1
        BY <2>1, <2>2, <2>4, <3>2, Sizes
      <4> HIDE DEF p1, p2
      <4>3. Segment(Places, p1, p2) = <<>>
        BY <2>5, <4>1, SegmentEmpty
      <4> QED  BY <4>1, <4>3
    <3> QED  BY <3>1, <3>2
  <2>8. ones = Segment(Places, p2, p3)
    <3>1. p3 - p2 = Greater(Lesser(t1, BLOCK_SZ) - c1, 0)
          /\ (p2 < p3 => p2 = INODE_DIRECT_COUNT + 1 + c1)
      BY <1>4, <2>1, <2>2, <2>3, <2>4, Sizes DEF Greater, Lesser
    <3> HIDE DEF p2, p3
    <3> QED  BY SMTT(30), <2>2, <2>5, <3>1, Entry1PlacesSegment
  <2>9. two = Segment(Places, p3, p4)
    <3>1. on => (c2 = BLOCK_SZ <=> p3 = Row0 - 1)
      BY <1>4, <2>1, <2>2, <2>3, <2>4, Sizes DEF Greater, Lesser
    <3>2. CASE on /\ p3 = Row0 - 1
      <4>1. p4 = p3 + 1
        BY <3>2, Sizes
      <4>2. Places[p3] = <<"indirect2">>
        BY <2>5, <3>2, PlaceValues, Sizes DEF Places
      <4> HIDE DEF p3, p4
      <4>3. Segment(Places, p3, p4) = <<Places[p3]>>
        BY <2>5, <4>1, SegmentOne
      <4> QED  BY <3>1, <3>2, <4>2, <4>3
    <3>3. CASE ~(on /\ p3 = Row0 - 1)
      <4>1. p4 = p3
        BY <3>3
      <4> HIDE DEF p3, p4
      <4>3. Segment(Places, p3, p4) = <<>>
        BY <2>5, <4>1, SegmentEmpty
      <4> QED  BY <3>1, <3>3, <4>3
    <3> QED  BY <3>2, <3>3
  <2>10. far = Segment(Places, p4, p5) /\ p4 <= p5
    <3>1. CASE ~on
      <4>1. c2 - base = t1 /\ t1 - base = t1
        BY <2>2, <3>1, Sizes DEF Greater, Lesser
      <4>2. p4 = p5
        BY <1>4, <2>1, <2>2, <2>3, <2>4, <3>1, Sizes DEF Lesser
      <4>3. far = Segment(Places, FarPlaces(t1), FarPlaces(t1))
        BY <2>2, <4>1, Indirect2PlacesSegment
      <4>4. FarPlaces(t1) \in Nat
        BY <2>2, PlacesOfFacts, Sizes DEF FarPlaces
      <4>5. far = <<>>
        <5> HIDE DEF far
        <5> QED  BY <4>3, <4>4, SegmentEmpty
      <4> HIDE DEF p4, far
      <4>6. Segment(Places, p4, p5) = <<>>
        BY <2>4, <2>5, <4>2, SegmentEmpty
      <4> QED  BY <2>4, <4>2, <4>5, <4>6
    <3>2. CASE on
      <4> DEFINE x == c2 - base
                 y == t1 - base
      <4>1. x \in Nat /\ y \in Nat /\ x <= y /\ y # 0
            /\ x = (IF c <= INODE_DIRECT_COUNT + BLOCK_SZ THEN 0
                   ELSE c - INODE_DIRECT_COUNT - BLOCK_SZ)
            /\ y = t - INODE_DIRECT_COUNT - BLOCK_SZ
        BY <2>2, <2>3, <3>2, Sizes DEF Greater, Lesser
      <4>2. far = Segment(Places, FarPlaces(x), FarPlaces(y))
        <5> HIDE DEF x, y
        <5>1. Indirect2Places(x, y) = Segment(Places, FarPlaces(x), FarPlaces(y))
          BY <4>1, Indirect2PlacesSegment
        <5> QED  BY <5>1 DEF x, y
      <4>3. p5 = FarPlaces(y)
        BY <2>2, <2>3, <3>2, <4>1, PlacesOfValues, Sizes DEF p5
      <4>4. p4 = FarPlaces(x)
        <5>1. CASE c <= INODE_DIRECT_COUNT + BLOCK_SZ
          <6>1. p4 = Row0
            BY <2>1, <2>2, <2>3, <2>4, <3>2, <5>1, Sizes DEF Lesser
          <6> QED  BY <4>1, <5>1, <6>1 DEF FarPlaces
        <5>2. CASE c > INODE_DIRECT_COUNT + BLOCK_SZ
          <6>1. p4 = p0
            BY <2>1, <2>2, <2>3, <2>4, <3>2, <5>2, Sizes DEF Lesser
          <6>2. x = c - INODE_DIRECT_COUNT - BLOCK_SZ
            BY <4>1, <5>2, Sizes
          <6> HIDE DEF p4, x
          <6>3. p0 = FarPlaces(x)
            BY <5>2, <6>2, PlacesOfValues DEF p0
          <6> QED  BY <6>1, <6>3
        <5> QED  BY <5>1, <5>2, Sizes
      <4>5. p4 <= p5
        BY <2>1, <2>2, <2>3, <2>4, <3>2, Sizes DEF Lesser
      <4> HIDE DEF p4, far, x, y
      <4> QED  BY <4>2, <4>3, <4>4, <4>5
    <3> QED  BY <3>1, <3>2
  <2> HIDE DEF p1, p2, p3, p4, head, ones, two, far
  <2>16. p1 <= p3 /\ p1 <= p4 /\ p1 <= p5
    BY <2>4, <2>5, <2>10
  <2>11. head \o ones = Segment(Places, p1, p3)
    BY ZenonT(60), <2>5, <2>7, <2>8, SegmentConcat
  <2>12. (head \o ones) \o two = Segment(Places, p1, p4)
    <3>1. Segment(Places, p1, p3) \o Segment(Places, p3, p4) = Segment(Places, p1, p4)
      BY ZenonT(60), <2>5, <2>16, SegmentConcat
    <3> QED  BY <2>9, <2>11, <3>1
  <2>13. ((head \o ones) \o two) \o far = Segment(Places, p1, p5)
    <3>1. Segment(Places, p1, p4) \o Segment(Places, p4, p5) = Segment(Places, p1, p5)
      BY ZenonT(60), <2>4, <2>5, <2>10, <2>16, SegmentConcat
    <3> QED  BY <2>10, <2>12, <3>1
  <2>14. DirectPlaces(c, t) \o (((head \o ones) \o two) \o far) = Segment(Places, p0, p5)
    <3>1. Segment(Places, p0, p1) \o Segment(Places, p1, p5) = Segment(Places, p0, p5)
      BY ZenonT(60), <2>4, <2>5, <2>16, SegmentConcat
    <3> QED  BY <2>6, <2>13, <3>1
  <2>15. PlacesFilled(c, t) = DirectPlaces(c, t) \o (((head \o ones) \o two) \o far)
    BY SMTT(30), <1>1, <1>4, Sizes
  <2> QED  BY <2>14, <2>15 DEF p0, p5
<1> QED  BY <1>3, <1>4, Sizes

\* clear_size gives the blocks of all places back, in order.
LEMMA ClearedSegment ==
    ASSUME NEW inode, NEW blocks, inode.size \in Nat
    PROVE  cleared_blocks(inode, blocks)
             = Segment(Indexes(inode, blocks), 0, PlacesOf(data_blocks(inode.size)))
<1> DEFINE F == Indexes(inode, blocks)
           t == data_blocks(inode.size)
           t1 == t - INODE_DIRECT_COUNT
           t2 == t1 - BLOCK_SZ
           direct == [i \in 1..Lesser(INODE_DIRECT_COUNT, t) |->
                         inode.direct[i - 1]]
           ones == [i \in 1..Lesser(t1, BLOCK_SZ) |-> blocks[inode.indirect1][i - 1]]
           level1 == <<inode.indirect1>> \o ones
           entries == blocks[inode.indirect2]
           loop == [i \in 1..t2 |->
                        LET a == (i - 1) \div BLOCK_SZ
                            b == (i - 1) % BLOCK_SZ
                        IN  (IF b = 0 THEN <<entries[a]>> ELSE <<>>)
                            \o <<blocks[entries[a]][b]>>]
           level2 == <<inode.indirect2>> \o FlattenSeq(loop)
<1>1. cleared_blocks(inode, blocks)
        = IF t <= INODE_DIRECT_COUNT THEN direct
          ELSE IF t1 <= BLOCK_SZ THEN direct \o level1
          ELSE (direct \o level1) \o level2
  BY DEF cleared_blocks, INODE_INDIRECT1_COUNT
<1>2. t \in Nat
  BY DataBlocks
<1>3. \A n \in Nat : F[n] = Index(inode, blocks, n)
  BY DEF Indexes
<1>4. t1 = t - INODE_DIRECT_COUNT /\ t2 = t1 - BLOCK_SZ
  OBVIOUS
<1> HIDE DEF F, t, t1, t2
<1>5. direct = Segment(F, 0, Lesser(INODE_DIRECT_COUNT, t))
  <2> DEFINE m == Lesser(INODE_DIRECT_COUNT, t)
  <2>1. m \in Nat /\ m <= INODE_DIRECT_COUNT
    BY <1>2, Sizes DEF Lesser
  <2>2. direct = [i \in 1..m |-> inode.direct[i - 1]]
    OBVIOUS
  <2> HIDE DEF m
  <2>3. ASSUME NEW i \in 1..m PROVE inode.direct[i - 1] = F[0 + i - 1]
    <3> DEFINE u == i - 1
    <3>1. u \in Nat /\ u < INODE_DIRECT_COUNT /\ 0 + i - 1 = u
      BY <2>1, Sizes
    <3> HIDE DEF u
    <3>2. Index(inode, blocks, u) = inode.direct[u]
      <4>1. \A n \in Nat : n < INODE_DIRECT_COUNT =>
               Index(inode, blocks, n) = inode.direct[n]
        BY ZenonT(60), IndexValues
      <4> QED  BY <3>1, <4>1
    <3> QED  BY <1>3, <3>1, <3>2 DEF u
  <2>4. m - 0 = m
    BY <2>1
  <2> QED  BY <2>2, <2>3, <2>4 DEF Segment, m
<1>6. CASE t <= INODE_DIRECT_COUNT
  <2>1. PlacesOf(t) = t /\ Lesser(INODE_DIRECT_COUNT, t) = t
    BY <1>2, <1>6, PlacesOfValues, Sizes DEF Lesser
  <2> QED  BY <1>1, <1>5, <1>6, <2>1 DEF F, t
<1>7. CASE t > INODE_DIRECT_COUNT
  <2> DEFINE m == Lesser(t1, BLOCK_SZ)
             x == INODE_DIRECT_COUNT
  <2>1. m \in Nat /\ m <= BLOCK_SZ /\ Lesser(INODE_DIRECT_COUNT, t) = x
        /\ ~(t <= INODE_DIRECT_COUNT) /\ t1 \in Nat
    BY <1>2, <1>4, <1>7, Sizes DEF Lesser
  <2>2. ones = [i \in 1..m |-> blocks[inode.indirect1][i - 1]]
    OBVIOUS
  <2>3. m = IF t1 < BLOCK_SZ THEN t1 ELSE BLOCK_SZ
    BY DEF Lesser
  <2>4. x \in Nat /\ x = INODE_DIRECT_COUNT
    BY Sizes
  <2> HIDE DEF m, x
  <2>5. <<inode.indirect1>> = Segment(F, x, x + 1)
    <3>1. F[x] = inode.indirect1
      <4>1. Index(inode, blocks, INODE_DIRECT_COUNT) = inode.indirect1
        BY IndexValues
      <4> QED  BY <1>3, <2>4, <4>1
    <3>2. Segment(F, x, x + 1) = <<F[x]>>
      BY <2>4, SegmentOne
    <3> QED  BY <3>1, <3>2
  <2>6. ones = Segment(F, x + 1, (x + 1) + m)
    <3>1. ASSUME NEW i \in 1..m
          PROVE  blocks[inode.indirect1][i - 1] = F[(x + 1) + i - 1]
      <4> DEFINE u == i - 1
      <4>1. u \in 0..(BLOCK_SZ - 1) /\ (x + 1) + i - 1 = INODE_DIRECT_COUNT + 1 + u
            /\ INODE_DIRECT_COUNT + 1 + u \in Nat
        BY <2>1, <2>4, Sizes
      <4> HIDE DEF u
      <4>2. Index(inode, blocks, INODE_DIRECT_COUNT + 1 + u) = blocks[inode.indirect1][u]
        BY ZenonT(60), <4>1, IndexValues
      <4> QED  BY <1>3, <4>1, <4>2 DEF u
    <3>2. ((x + 1) + m) - (x + 1) = m
      BY <2>1, <2>4
    <3> QED  BY <2>2, <3>1, <3>2 DEF Segment
  <2>7. direct \o level1 = Segment(F, 0, (x + 1) + m)
    <3>1. x + 1 \in Nat /\ (x + 1) + m \in Nat /\ x <= x + 1 /\ x + 1 <= (x + 1) + m
          /\ 0 <= x /\ x <= (x + 1) + m
      BY <2>1, <2>4
    <3>2. direct = Segment(F, 0, x)
      BY <1>5, <2>1
    <3> DEFINE y == x + 1
               z == (x + 1) + m
    <3>5. y \in Nat /\ z \in Nat /\ x <= y /\ y <= z /\ x <= z /\ 0 <= x /\ 0 \in Nat
      BY <3>1
    <3> HIDE DEF direct, ones, y, z
    <3>3. level1 = Segment(F, x, z)
      <4>1. Segment(F, x, y) \o Segment(F, y, z) = Segment(F, x, z)
        BY ZenonT(60), <2>4, <3>5, SegmentConcat
      <4> QED  BY <2>5, <2>6, <4>1 DEF y, z
    <3> HIDE DEF level1
    <3>4. Segment(F, 0, x) \o Segment(F, x, z) = Segment(F, 0, z)
      BY ZenonT(60), <2>4, <3>5, SegmentConcat
    <3> QED  BY <3>2, <3>3, <3>4 DEF z
  <2> HIDE DEF direct, level1
  <2>8. CASE t1 <= BLOCK_SZ
    <3>1. PlacesOf(t) = (x + 1) + m
      BY <1>2, <1>4, <1>7, <2>1, <2>3, <2>4, <2>8, PlacesOfValues, Sizes
    <3> QED  BY <1>1, <2>1, <2>7, <2>8, <3>1 DEF F, t
  <2>9. CASE t1 > BLOCK_SZ
    <3> DEFINE y == (x + 1) + m
    <3>1. y = Row0 - 1 /\ y \in Nat /\ y + 1 = Row0 /\ t2 \in Nat \ {0}
      BY <1>4, <2>1, <2>3, <2>4, <2>9, Sizes
    <3> HIDE DEF y
    <3>2. <<inode.indirect2>> = Segment(F, y, y + 1)
      <4>1. F[y] = inode.indirect2
        <5>1. Index(inode, blocks, Row0 - 1) = inode.indirect2
          BY IndexValues
        <5> QED  BY <1>3, <3>1, <5>1
      <4>2. Segment(F, y, y + 1) = <<F[y]>>
        BY <3>1, SegmentOne
      <4> QED  BY <4>1, <4>2
    <3>3. FlattenSeq(loop) = Segment(F, FarPlaces(0), FarPlaces(t2))
      <4> DEFINE seqs == [i \in 1..(t2 - 0) |->
                     LET a == (0 + i - 1) \div BLOCK_SZ
                         b == (0 + i - 1) % BLOCK_SZ
                     IN  (IF b = 0 THEN <<F[Row(a)]>> ELSE <<>>)
                         \o <<F[Row(a) + 1 + b]>>]
      <4>1. ASSUME NEW i \in 1..t2 PROVE loop[i] = seqs[i]
        <5> DEFINE k == i - 1
                   a == k \div BLOCK_SZ
                   b == k % BLOCK_SZ
        <5>1. k \in Nat /\ 0 + i - 1 = k /\ t2 - 0 = t2
          BY SMTT(30), <3>1
        <5>2. /\ loop[i] = (IF b = 0 THEN <<entries[a]>> ELSE <<>>)
                            \o <<blocks[entries[a]][b]>>
              /\ seqs[i] = (IF b = 0 THEN <<F[Row(a)]>> ELSE <<>>)
                            \o <<F[Row(a) + 1 + b]>>
          BY <5>1
        <5> HIDE DEF k, loop, seqs
        <5>3. a \in Nat /\ b \in 0..(BLOCK_SZ - 1)
          <6>1. k \in Nat /\ BLOCK_SZ \in Nat \ {0}
            BY <5>1, Sizes
          <6> QED  BY <6>1, DivMod
        <5> HIDE DEF a, b
        <5>4. Row(a) \in Nat /\ Row(a) + 1 + b \in Nat
          BY <5>3, RowFacts
        <5>5. F[Row(a)] = entries[a] /\ F[Row(a) + 1 + b] = blocks[entries[a]][b]
          <6>1. /\ Index(inode, blocks, Row(a)) = blocks[inode.indirect2][a]
                /\ Index(inode, blocks, Row(a) + 1 + b)
                     = blocks[blocks[inode.indirect2][a]][b]
            BY <5>3, IndexValues
          <6> QED  BY <1>3, <5>4, <6>1
        <5> HIDE DEF entries
        <5> QED  BY <5>2, <5>5
      <4>2. loop = seqs
        <5>1. t2 - 0 = t2
          BY SMTT(30), <3>1
        <5>2. loop = [i \in 1..t2 |-> loop[i]] /\ seqs = [i \in 1..t2 |-> seqs[i]]
          BY <5>1
        <5> HIDE DEF loop, seqs
        <5> QED  BY <4>1, <5>2
      <4> DEFINE zero == 0
      <4>3. FlattenSeq(seqs) = Segment(F, FarPlaces(0), FarPlaces(t2))
        <5>1. zero \in Nat /\ t2 \in Nat /\ zero <= t2
          BY <3>1
        <5>2. seqs = [i \in 1..(t2 - zero) |->
                     LET a == (zero + i - 1) \div BLOCK_SZ
                         b == (zero + i - 1) % BLOCK_SZ
                     IN  (IF b = 0 THEN <<F[Row(a)]>> ELSE <<>>)
                         \o <<F[Row(a) + 1 + b]>>]
          OBVIOUS
        <5> HIDE DEF zero, seqs
        <5>3. FlattenSeq(seqs) = Segment(F, FarPlaces(zero), FarPlaces(t2))
          BY ZenonT(60), <5>1, <5>2, RowsFlatten
        <5> QED  BY <5>3 DEF zero
      <4> HIDE DEF loop, seqs
      <4> QED  BY <4>2, <4>3
    <3>4. FarPlaces(0) = y + 1 /\ FarPlaces(t2) = PlacesOf(t) /\ FarPlaces(t2) \in Nat
      <4>1. FarPlaces(0) = y + 1
        BY <3>1 DEF FarPlaces
      <4>2. t > INODE_DIRECT_COUNT + BLOCK_SZ /\ t2 = t - INODE_DIRECT_COUNT - BLOCK_SZ
        BY <1>2, <1>4, <2>9, Sizes
      <4>3. FarPlaces(t2) = PlacesOf(t)
        BY <1>2, <4>2, PlacesOfValues
      <4> QED  BY <1>2, <4>1, <4>3, PlacesOfFacts
    <3>5. y + 1 <= PlacesOf(t)
      <4>1. INODE_DIRECT_COUNT + BLOCK_SZ < t /\ INODE_DIRECT_COUNT + BLOCK_SZ \in Nat
        BY <1>2, <1>4, <2>9, Sizes
      <4>2. DataPlace(INODE_DIRECT_COUNT + BLOCK_SZ) < PlacesOf(t)
        BY <1>2, <4>1, PlacesOfFacts
      <4>3. DataPlace(INODE_DIRECT_COUNT + BLOCK_SZ) >= Row0
        <5> DEFINE d == INODE_DIRECT_COUNT + BLOCK_SZ
                   k == d - INODE_DIRECT_COUNT - BLOCK_SZ
                   a == k \div BLOCK_SZ
        <5>1. d \in Nat /\ d >= INODE_DIRECT_COUNT + BLOCK_SZ
          BY Sizes
        <5> HIDE DEF d
        <5>2. a \in Nat /\ DataPlace(d) = d + 3 + a
          BY <5>1, DataPlaceFar
        <5> HIDE DEF a
        <5>3. DataPlace(d) >= d + 3 /\ DataPlace(d) \in Nat
          BY <5>1, <5>2
        <5>4. d = INODE_DIRECT_COUNT + BLOCK_SZ
          BY DEF d
        <5> QED  BY <5>1, <5>3, <5>4, Sizes
      <4>4. PlacesOf(t) \in Nat /\ DataPlace(INODE_DIRECT_COUNT + BLOCK_SZ) \in Nat
        BY <1>2, <4>1, PlacesOfFacts, DataPlaceNat
      <4> QED  BY <3>1, <4>2, <4>3, <4>4, Sizes
    <3> HIDE DEF loop
    <3>6. level2 = Segment(F, y, PlacesOf(t))
      <4> DEFINE z == y + 1
      <4>1. y \in Nat /\ z \in Nat /\ y <= z /\ PlacesOf(t) \in Nat /\ z <= PlacesOf(t)
        BY <3>1, <3>4, <3>5
      <4> HIDE DEF z
      <4>2. Segment(F, y, z) \o Segment(F, z, PlacesOf(t)) = Segment(F, y, PlacesOf(t))
        BY <4>1, SegmentConcat
      <4> QED  BY <3>2, <3>3, <3>4, <4>2 DEF z
    <3> HIDE DEF level2
    <3>7. (direct \o level1) \o level2 = Segment(F, 0, PlacesOf(t))
      <4>1. 0 <= y /\ y <= PlacesOf(t) /\ PlacesOf(t) \in Nat /\ 0 \in Nat
        BY <3>1, <3>4, <3>5
      <4>2. direct \o level1 = Segment(F, 0, y)
        BY <2>7 DEF y
      <4>3. Segment(F, 0, y) \o Segment(F, y, PlacesOf(t)) = Segment(F, 0, PlacesOf(t))
        BY ZenonT(60), <3>1, <4>1, SegmentConcat
      <4> QED  BY <3>6, <4>2, <4>3
    <3>8. ~(t1 <= BLOCK_SZ)
      BY <2>1, <2>9, Sizes
    <3> QED  BY <1>1, <2>1, <3>7, <3>8 DEF F, t
  <2> QED  BY <2>1, <2>8, <2>9, Sizes
<1> QED  BY <1>2, <1>6, <1>7, Sizes

\* Unit p of a file.
Unit(inode, blocks, p) ==
    blocks[Index(inode, blocks, DataPlace(p \div BLOCK_SZ))][p % BLOCK_SZ]

\* The units as a numbering.
Units(inode, blocks) == [p \in Nat |-> Unit(inode, blocks, p)]

\* The block that a unit is in, and where in it.
LEMMA InBlock ==
    ASSUME NEW d \in Nat, NEW n \in Nat, d * BLOCK_SZ <= n, n < d * BLOCK_SZ + BLOCK_SZ
    PROVE  n \div BLOCK_SZ = d /\ n % BLOCK_SZ = n - d * BLOCK_SZ
<1> DEFINE c == n - d * BLOCK_SZ
<1>1. d * BLOCK_SZ \in Nat
  BY Sizes, Times
<1>2. c \in 0..(BLOCK_SZ - 1) /\ n = d * BLOCK_SZ + c
  BY <1>1, Sizes
<1> HIDE DEF c
<1>3. (d * BLOCK_SZ + c) \div BLOCK_SZ = d /\ (d * BLOCK_SZ + c) % BLOCK_SZ = c
  BY <1>2, Sizes, DivModUnique
<1> QED  BY <1>2, <1>3 DEF c

\* Block and remainder of a unit.
LEMMA BlockOf ==
    ASSUME NEW n \in Nat
    PROVE  /\ n \div BLOCK_SZ \in Nat /\ n % BLOCK_SZ \in 0..(BLOCK_SZ - 1)
           /\ (n \div BLOCK_SZ) * BLOCK_SZ \in Nat
           /\ n = (n \div BLOCK_SZ) * BLOCK_SZ + (n % BLOCK_SZ)
<1>1. BLOCK_SZ \in Nat \ {0}
  BY Sizes
<1>2. /\ n \div BLOCK_SZ \in Nat /\ n % BLOCK_SZ \in 0..(BLOCK_SZ - 1)
      /\ n = (n \div BLOCK_SZ) * BLOCK_SZ + (n % BLOCK_SZ)
  BY <1>1, DivMod
<1> QED  BY <1>1, <1>2, Times

\* The chunks of a read or a write: each within one block, from where the one
\* before ends.
LEMMA ChunkFacts ==
    ASSUME NEW offset \in Nat, NEW end \in Nat, offset < end
    PROVE  LET s == offset \div BLOCK_SZ
               N == (end - 1) \div BLOCK_SZ + 1 - s
           IN  /\ s \in Nat /\ N \in Nat \ {0}
               /\ DOMAIN Chunks(offset, end) = 1..N
               /\ \A i \in 1..N :
                     LET c == Chunks(offset, end)[i]
                         d == s + i - 1
                     IN  /\ d \in Nat /\ c.inner_id = d
                         /\ d * BLOCK_SZ \in Nat
                         /\ c.start = IF i = 1 THEN offset ELSE d * BLOCK_SZ
                         /\ c.end = IF i = N THEN end
                                    ELSE d * BLOCK_SZ + BLOCK_SZ
                         /\ d * BLOCK_SZ <= c.start /\ c.start < c.end
                         /\ c.end <= d * BLOCK_SZ + BLOCK_SZ
                         /\ offset <= c.start /\ c.end <= end
<1> DEFINE s == offset \div BLOCK_SZ
           l == (end - 1) \div BLOCK_SZ
           N == l + 1 - s
<1>1. /\ s \in Nat /\ s * BLOCK_SZ \in Nat /\ s * BLOCK_SZ <= offset
      /\ offset < s * BLOCK_SZ + BLOCK_SZ
  <2>1. /\ s \in Nat /\ s * BLOCK_SZ \in Nat /\ offset % BLOCK_SZ \in 0..(BLOCK_SZ - 1)
        /\ offset = s * BLOCK_SZ + (offset % BLOCK_SZ)
    BY BlockOf
  <2> HIDE DEF s
  <2> QED  BY <2>1, Sizes
<1>2. /\ l \in Nat /\ l * BLOCK_SZ \in Nat /\ l * BLOCK_SZ <= end - 1
      /\ end - 1 < l * BLOCK_SZ + BLOCK_SZ
  <2> DEFINE e == end - 1
  <2>0. e \in Nat
    OBVIOUS
  <2> HIDE DEF e
  <2>1. /\ e \div BLOCK_SZ \in Nat /\ (e \div BLOCK_SZ) * BLOCK_SZ \in Nat
        /\ e % BLOCK_SZ \in 0..(BLOCK_SZ - 1)
        /\ e = (e \div BLOCK_SZ) * BLOCK_SZ + (e % BLOCK_SZ)
    BY <2>0, BlockOf
  <2>2. /\ (e \div BLOCK_SZ) * BLOCK_SZ <= e
        /\ e < (e \div BLOCK_SZ) * BLOCK_SZ + BLOCK_SZ
    <3> DEFINE x == (e \div BLOCK_SZ) * BLOCK_SZ
    <3> HIDE DEF x
    <3> QED  BY <2>0, <2>1, Sizes DEF x
  <2> QED  BY <2>1, <2>2 DEF e
<1>3. s <= l
  <2>1. offset <= end - 1 /\ end - 1 \in Nat
    OBVIOUS
  <2> QED  BY <2>1, DivUp, Sizes
<1>4. DOMAIN Chunks(offset, end) = 1..N
  <2>1. DOMAIN Loop(s, l + 1) = 1..Greater((l + 1) - s, 0)
    BY DEF Loop
  <2> HIDE DEF s, l
  <2>2. Greater((l + 1) - s, 0) = N
    BY <1>1, <1>2, <1>3 DEF Greater
  <2> QED  BY <2>1, <2>2 DEF Chunks, s, l
<1>5. \A i \in 1..N : LET d == s + i - 1 IN
         Chunks(offset, end)[i] = [inner_id |-> d,
                                   start |-> Greater(offset, d * BLOCK_SZ),
                                   end |-> Lesser((d + 1) * BLOCK_SZ, end)]
  BY <1>4 DEF Chunks
<1> HIDE DEF s, l
<1>6. N \in Nat \ {0}
  BY <1>1, <1>2, <1>3
<1>7. ASSUME NEW i \in 1..N
      PROVE  LET c == Chunks(offset, end)[i]
                 d == s + i - 1
             IN  /\ d \in Nat /\ c.inner_id = d
                 /\ d * BLOCK_SZ \in Nat
                 /\ c.start = IF i = 1 THEN offset ELSE d * BLOCK_SZ
                 /\ c.end = IF i = N THEN end
                            ELSE d * BLOCK_SZ + BLOCK_SZ
                 /\ d * BLOCK_SZ <= c.start /\ c.start < c.end
                 /\ c.end <= d * BLOCK_SZ + BLOCK_SZ
                 /\ offset <= c.start /\ c.end <= end
  <2> DEFINE c == Chunks(offset, end)[i]
             d == s + i - 1
             x == d * BLOCK_SZ
  <2>1. /\ c.inner_id = d /\ c.start = Greater(offset, x)
        /\ c.end = Lesser((d + 1) * BLOCK_SZ, end)
    <3>1. c = [inner_id |-> d, start |-> Greater(offset, x),
               end |-> Lesser((d + 1) * BLOCK_SZ, end)]
      BY <1>5
    <3> HIDE DEF c, d, x
    <3> QED  BY <3>1
  <2> HIDE DEF c
  <2>2. /\ d \in Nat /\ s <= d /\ d <= l /\ (i = 1 <=> s = d) /\ (i = N <=> d = l)
    BY <1>1, <1>2, <1>6
  <2> HIDE DEF d, N
  <2>3. /\ x \in Nat /\ (d + 1) * BLOCK_SZ = x + BLOCK_SZ
        /\ d < l => x + BLOCK_SZ <= l * BLOCK_SZ
        /\ s < d => s * BLOCK_SZ + BLOCK_SZ <= x
        /\ s = d => x = s * BLOCK_SZ
        /\ d = l => x = l * BLOCK_SZ
    <3>1. s < d => s * BLOCK_SZ + BLOCK_SZ <= d * BLOCK_SZ
      BY <1>1, <2>2, Sizes, Times
    <3>2. d < l => d * BLOCK_SZ + BLOCK_SZ <= l * BLOCK_SZ
      BY <1>2, <2>2, Sizes, Times
    <3> QED  BY <2>2, <3>1, <3>2, Sizes, Times
  <2> DEFINE sx == s * BLOCK_SZ
             lx == l * BLOCK_SZ
  <2>6. /\ x \in Nat /\ sx \in Nat /\ lx \in Nat
        /\ d < l => x + BLOCK_SZ <= lx
        /\ s < d => sx + BLOCK_SZ <= x
        /\ s = d => x = sx
        /\ d = l => x = lx
        /\ sx <= offset /\ offset < sx + BLOCK_SZ
        /\ lx <= end - 1 /\ end - 1 < lx + BLOCK_SZ
    BY <1>1, <1>2, <2>3
  <2> HIDE DEF x, sx, lx
  <2>4. c.start = IF s = d THEN offset ELSE x
    BY <1>1, <2>1, <2>2, <2>6, Sizes DEF Greater
  <2>5. c.end = IF d = l THEN end ELSE x + BLOCK_SZ
    BY <1>2, <2>1, <2>2, <2>3, <2>6, Sizes DEF Lesser
  <2>7. /\ x <= c.start /\ c.start < c.end /\ c.end <= x + BLOCK_SZ
        /\ offset <= c.start /\ c.end <= end
    BY <1>1, <1>2, <2>2, <2>4, <2>5, <2>6, Sizes
  <2> QED  BY <2>1, <2>2, <2>4, <2>5, <2>6, <2>7 DEF c, d, x
<1> QED  BY <1>1, <1>4, <1>6, <1>7 DEF s, l

\* read_at of any part of a file gives the units of that part.
LEMMA ReadAt ==
    ASSUME NEW inode, NEW blocks, inode.size \in Nat, NEW offset \in Nat, NEW len \in Nat
    PROVE  LET end == Lesser(offset + len, inode.size)
           IN  read_at(inode, blocks, offset, len)
                 = IF offset >= end THEN <<>>
                   ELSE Segment(Units(inode, blocks), offset, end)
<1> DEFINE end == Lesser(offset + len, inode.size)
           F == Units(inode, blocks)
           ch == Chunks(offset, end)
           piece(c) ==
               LET data == blocks[get_block_id(inode, blocks, c.inner_id)]
               IN  [i \in 1..(c.end - c.start) |->
                       data[(c.start % BLOCK_SZ) + i - 1]]
           seqs == [i \in DOMAIN ch |-> piece(ch[i])]
<1>1. end \in Nat
  BY DEF Lesser
<1>2. read_at(inode, blocks, offset, len)
        = IF offset >= end THEN <<>> ELSE FlattenSeq(seqs)
  BY DEF read_at
<1>3. \A p \in Nat : F[p] = Unit(inode, blocks, p)
  BY DEF Units
<1> HIDE DEF end, F
<1>4. SUFFICES ASSUME offset < end
               PROVE  FlattenSeq(seqs) = Segment(F, offset, end)
  BY <1>1, <1>2 DEF end, F
<1> DEFINE s == offset \div BLOCK_SZ
           N == (end - 1) \div BLOCK_SZ + 1 - s
           at == [i \in 0..N |-> IF i = 0 THEN offset ELSE ch[i].end]
<1>5. /\ s \in Nat /\ N \in Nat \ {0} /\ DOMAIN ch = 1..N
      /\ \A i \in 1..N :
            LET c == ch[i]
                d == s + i - 1
            IN  /\ d \in Nat /\ c.inner_id = d
                /\ d * BLOCK_SZ \in Nat
                /\ c.start = IF i = 1 THEN offset ELSE d * BLOCK_SZ
                /\ c.end = IF i = N THEN end
                           ELSE d * BLOCK_SZ + BLOCK_SZ
                /\ d * BLOCK_SZ <= c.start /\ c.start < c.end
                /\ c.end <= d * BLOCK_SZ + BLOCK_SZ
                /\ offset <= c.start /\ c.end <= end
  BY <1>1, <1>4, ChunkFacts
<1> HIDE DEF s, N, ch
<1>6. ASSUME NEW i \in 1..N
      PROVE  /\ i - 1 \in 0..N /\ i \in 0..N /\ at[i] = ch[i].end
             /\ at[i - 1] = ch[i].start
             /\ at[i] \in Nat /\ at[i - 1] \in Nat
             /\ at[i - 1] <= at[i]
  <2> DEFINE d == s + i - 1
  <2>1. /\ d \in Nat /\ d * BLOCK_SZ \in Nat
        /\ ch[i].start = IF i = 1 THEN offset ELSE d * BLOCK_SZ
        /\ ch[i].end = IF i = N THEN end ELSE d * BLOCK_SZ + BLOCK_SZ
        /\ ch[i].start < ch[i].end
    BY <1>5
  <2>2. i - 1 \in 0..N /\ i \in 0..N /\ i # 0
    BY <1>5
  <2>3. at[i] = ch[i].end
    BY <2>2
  <2>4. at[i - 1] = ch[i].start
    <3>1. CASE i = 1
      BY <2>1, <2>2, <3>1
    <3>2. CASE i # 1
      <4> DEFINE j == i - 1
                 e == s + j - 1
      <4>1. j \in 1..N /\ j # N /\ j # 0 /\ j \in 0..N
        BY <1>5, <3>2
      <4>2. e \in Nat /\ ch[j].end = e * BLOCK_SZ + BLOCK_SZ
        BY <1>5, <4>1
      <4>3. d = e + 1
        BY <1>5, <4>1
      <4>4. at[j] = ch[j].end
        BY <4>1
      <4> HIDE DEF j, e, d, at
      <4>5. d * BLOCK_SZ = e * BLOCK_SZ + BLOCK_SZ
        BY <4>2, <4>3, Sizes, Times
      <4> QED  BY <2>1, <3>2, <4>2, <4>4, <4>5 DEF j
    <3> QED  BY <3>1, <3>2
  <2> HIDE DEF d, at
  <2>5. ch[i].end \in Nat /\ ch[i].start \in Nat
    BY <1>1, <2>1, Sizes
  <2> QED  BY <2>1, <2>2, <2>3, <2>4, <2>5
<1>7. at \in [0..N -> Nat] /\ at[0] = offset /\ at[N] = end
  <2>1. \A i \in 0..N : at[i] \in Nat
    <3> SUFFICES ASSUME NEW i \in 0..N PROVE at[i] \in Nat
      OBVIOUS
    <3>1. CASE i = 0
      BY <3>1
    <3>2. CASE i # 0
      <4>1. i \in 1..N
        BY <1>5, <3>2
      <4> QED  BY <1>6, <4>1
    <3> QED  BY <3>1, <3>2
  <2>2. N \in 1..N /\ 0 \in 0..N /\ N \in 0..N
    BY <1>5
  <2>3. at[N] = end
    BY <1>5, <1>6, <2>2
  <2> QED  BY <2>1, <2>2, <2>3
<1>8. ASSUME NEW i \in 1..N
      PROVE  piece(ch[i]) = Segment(F, at[i - 1], at[i])
  <2> DEFINE d == s + i - 1
             x == ch[i].start
             y == ch[i].end
             dx == d * BLOCK_SZ
             data == blocks[get_block_id(inode, blocks, d)]
  <2>1. /\ d \in Nat /\ dx \in Nat /\ dx <= x /\ x < y /\ y <= dx + BLOCK_SZ
        /\ ch[i].inner_id = d
    BY <1>5
  <2>2. at[i - 1] = x /\ at[i] = y /\ x \in Nat /\ y \in Nat
    BY <1>6
  <2>3. piece(ch[i]) = [j \in 1..(y - x) |-> data[(x % BLOCK_SZ) + j - 1]]
    BY <2>1
  <2> HIDE DEF d, x, y, at
  <2>4. ASSUME NEW j \in 1..(y - x)
        PROVE  data[(x % BLOCK_SZ) + j - 1] = F[x + j - 1]
    <3> DEFINE p == x + j - 1
    <3>1. p \in Nat /\ dx <= p /\ p < dx + BLOCK_SZ /\ x < dx + BLOCK_SZ
      BY <2>1, <2>2, Sizes
    <3>2. p \div BLOCK_SZ = d /\ p % BLOCK_SZ = p - dx
      <4> HIDE DEF p
      <4> QED  BY <2>1, <3>1, InBlock
    <3>3. x % BLOCK_SZ = x - dx
      BY <2>1, <2>2, <3>1, InBlock
    <3> HIDE DEF dx
    <3>4. (x % BLOCK_SZ) + j - 1 = p % BLOCK_SZ
      BY <2>1, <2>2, <3>2, <3>3
    <3>5. F[p] = blocks[Index(inode, blocks, DataPlace(d))][p % BLOCK_SZ]
      <4> HIDE DEF p
      <4> QED  BY <1>3, <3>1, <3>2 DEF Unit
    <3>6. get_block_id(inode, blocks, d) = Index(inode, blocks, DataPlace(d))
      BY <2>1, GetBlockId
    <3> QED  BY <3>4, <3>5, <3>6
  <2> HIDE DEF data, piece
  <2>5. piece(ch[i]) = Segment(F, x, y)
    BY <2>3, <2>4 DEF Segment
  <2> QED  BY <2>2, <2>5
<1>9. seqs = [i \in 1..N |-> Segment(F, at[i - 1], at[i])]
  <2> HIDE DEF at, piece
  <2> QED  BY <1>5, <1>8
<1> HIDE DEF at, seqs
<1>10. \A i \in 1..N : at[i - 1] <= at[i]
  BY <1>6
<1>11. FlattenSeq(seqs) = Segment(F, at[0], at[N])
  <2>1. N \in Nat
    BY <1>5
  <2> QED  BY <1>7, <1>9, <1>10, <2>1, FlattenSegments
<1> QED  BY <1>7, <1>11

\* A unit of a file is in one of its data blocks.
LEMMA UnitInFile ==
    ASSUME NEW p \in Nat, NEW size \in Nat, p < size
    PROVE  p \div BLOCK_SZ \in Nat /\ p \div BLOCK_SZ < data_blocks(size)
<1> DEFINE d == p \div BLOCK_SZ
           t == data_blocks(size)
<1>1. d \in Nat /\ d * BLOCK_SZ \in Nat /\ d * BLOCK_SZ <= p
  <2>1. d \in Nat /\ d * BLOCK_SZ \in Nat /\ p % BLOCK_SZ \in 0..(BLOCK_SZ - 1)
        /\ p = d * BLOCK_SZ + (p % BLOCK_SZ)
    BY BlockOf
  <2> HIDE DEF d
  <2> QED  BY <2>1, Sizes
<1>2. t \in Nat /\ t * BLOCK_SZ \in Nat /\ size <= t * BLOCK_SZ
  BY DataBlocks
<1> HIDE DEF d, t
<1>3. t <= d => t * BLOCK_SZ <= d * BLOCK_SZ
  BY <1>1, <1>2, Sizes, Times
<1>4. d < t
  BY <1>1, <1>2, <1>3
<1> QED  BY <1>1, <1>4 DEF d, t

\* Block d of a file, and the units of it that are written.
DataBlock(inode, blocks, d) == Index(inode, blocks, DataPlace(d))

\* No two places hold the same block.
BlocksApart(inode, blocks) ==
    \A d, e \in 0..(data_blocks(inode.size) - 1) :
        DataBlock(inode, blocks, d) = DataBlock(inode, blocks, e) => d = e

\* Every block is a block of units.
BlocksTyped(blocks) ==
    blocks \in [DOMAIN blocks -> [0..(BLOCK_SZ - 1) -> Nat]]

\* Unit p of the file is written, and is unit u of block b.
Goes(inode, blocks, offset, buf, p, b, u) ==
    /\ p \in offset..(offset + Len(buf) - 1)
    /\ b = DataBlock(inode, blocks, p \div BLOCK_SZ)
    /\ u = p % BLOCK_SZ

\* The blocks `after` hold the buffer, and are the same in all other units.
Holding(inode, blocks, offset, buf, after) ==
    /\ after = [b \in DOMAIN blocks |-> after[b]]
    /\ \A b \in DOMAIN blocks :
          after[b] = [u \in 0..(BLOCK_SZ - 1) |-> after[b][u]]
    /\ \A b \in DOMAIN blocks : \A u \in 0..(BLOCK_SZ - 1) :
          \/ /\ after[b][u] = blocks[b][u]
             /\ \A p : ~Goes(inode, blocks, offset, buf, p, b, u)
          \/ \E p : /\ Goes(inode, blocks, offset, buf, p, b, u)
                    /\ after[b][u] = buf[p - offset + 1]

\* write_at puts each unit of the buffer into its place in the file, and
\* changes nothing else.
LEMMA WriteAt ==
    ASSUME NEW inode, NEW blocks, inode.size \in Nat, NEW offset \in Nat, NEW buf,
           Len(buf) \in Nat, offset + Len(buf) <= inode.size, Len(buf) > 0,
           BlocksApart(inode, blocks), BlocksTyped(blocks)
    PROVE  Holding(inode, blocks, offset, buf, write_at(inode, blocks, offset, buf))
<1> DEFINE end == Lesser(offset + Len(buf), inode.size)
           ch == Chunks(offset, end)
           target == [i \in DOMAIN ch |->
                        get_block_id(inode, blocks, ch[i].inner_id)]
           put(data, c) ==
              LET first == c.start % BLOCK_SZ
              IN  [u \in DOMAIN data |->
                    IF u \in first..(first + c.end - c.start - 1)
                    THEN buf[c.start - offset + u - first + 1]
                    ELSE data[u]]
           after == write_at(inode, blocks, offset, buf)
           t == data_blocks(inode.size)
<1>0. end = offset + Len(buf)
  BY DEF Lesser
<1>1. end \in Nat /\ offset < end /\ end <= inode.size
  BY SMTT(30), <1>0
<1>3. after = [b \in DOMAIN blocks |->
                IF b \in ToSet(target)
                THEN put(blocks[b], ch[CHOOSE i \in DOMAIN ch : target[i] = b])
                ELSE blocks[b]]
  <2>1. ~(offset >= end)
    BY <1>1
  <2> QED  BY ZenonT(60), <2>1 DEF write_at
<1> HIDE DEF after, end
<1> DEFINE s == offset \div BLOCK_SZ
           N == (end - 1) \div BLOCK_SZ + 1 - s
<1>4. /\ s \in Nat /\ N \in Nat \ {0} /\ DOMAIN ch = 1..N
      /\ \A i \in 1..N :
            LET c == ch[i]
                d == s + i - 1
            IN  /\ d \in Nat /\ c.inner_id = d
                /\ d * BLOCK_SZ \in Nat
                /\ c.start = IF i = 1 THEN offset ELSE d * BLOCK_SZ
                /\ c.end = IF i = N THEN end
                           ELSE d * BLOCK_SZ + BLOCK_SZ
                /\ d * BLOCK_SZ <= c.start /\ c.start < c.end
                /\ c.end <= d * BLOCK_SZ + BLOCK_SZ
                /\ offset <= c.start /\ c.end <= end
  BY <1>1, ChunkFacts
<1>5. N = ((end - 1) \div BLOCK_SZ + 1) - s
  <2>1. s \in Nat
    BY <1>4
  <2>2. (end - 1) \div BLOCK_SZ \in Nat
    BY <1>1, Sizes
  <2> HIDE DEF s
  <2> QED  BY <2>1, <2>2
<1> HIDE DEF s, N, ch
<1>6. ASSUME NEW i \in 1..N
      PROVE  /\ s + i - 1 \in Nat /\ s + i - 1 < t
             /\ target[i] = DataBlock(inode, blocks, s + i - 1)
  <2> DEFINE d == s + i - 1
             x == ch[i].start
  <2>1. /\ d \in Nat /\ d * BLOCK_SZ \in Nat /\ ch[i].inner_id = d
        /\ x = IF i = 1 THEN offset ELSE d * BLOCK_SZ
        /\ d * BLOCK_SZ <= x /\ x < ch[i].end /\ ch[i].end <= d * BLOCK_SZ + BLOCK_SZ
        /\ ch[i].end <= end
        /\ ch[i].end = IF i = N THEN end ELSE d * BLOCK_SZ + BLOCK_SZ
    BY <1>4
  <2>2. target[i] = get_block_id(inode, blocks, d)
    BY <1>4, <2>1
  <2> HIDE DEF d, target
  <2>3. x \in Nat /\ x < inode.size /\ x < d * BLOCK_SZ + BLOCK_SZ
    <3> DEFINE y == ch[i].end
               z == d * BLOCK_SZ
    <3>1. /\ z \in Nat /\ x \in {offset, z} /\ x < y /\ y <= z + BLOCK_SZ /\ y <= end
          /\ y \in {end, z + BLOCK_SZ}
      <4> HIDE DEF x
      <4> QED  BY <2>1
    <3> HIDE DEF x, y, z
    <3>2. x \in Nat /\ x < inode.size /\ x < z + BLOCK_SZ
      BY <1>1, <3>1, Sizes
    <3> QED  BY <3>2 DEF z
  <2> HIDE DEF x
  <2>4. x \div BLOCK_SZ = d
    BY <2>1, <2>3, InBlock
  <2>5. d < t
    BY <2>3, <2>4, UnitInFile
  <2>6. target[i] = DataBlock(inode, blocks, d)
    BY <2>1, <2>2, GetBlockId DEF DataBlock
  <2> QED  BY <2>1, <2>5, <2>6 DEF d
<1>7. ASSUME NEW i \in 1..N, NEW j \in 1..N, target[i] = target[j]
      PROVE  i = j
  <2> DEFINE d == s + i - 1
             e == s + j - 1
  <2>1. /\ d \in Nat /\ d < t /\ target[i] = DataBlock(inode, blocks, d)
        /\ e \in Nat /\ e < t /\ target[j] = DataBlock(inode, blocks, e)
    BY <1>6
  <2> HIDE DEF d, e, target, t
  <2>2. d = e
    <3>1. t \in Nat
      BY DataBlocks DEF t
    <3>2. d \in 0..(t - 1) /\ e \in 0..(t - 1)
      BY <2>1, <3>1
    <3> QED  BY <1>7, <2>1, <3>2 DEF t, BlocksApart
  <2> QED  BY <1>4, <2>2 DEF d, e
<1>8. DOMAIN target = 1..N
  BY <1>4
<1> HIDE DEF target, put
<1>9. ASSUME NEW b \in DOMAIN blocks, NEW i \in 1..N, target[i] = b
      PROVE  after[b] = put(blocks[b], ch[i])
  <2>1. b \in ToSet(target)
    BY <1>8, <1>9 DEF ToSet
  <2>2. (CHOOSE j \in DOMAIN ch : target[j] = b) = i
    BY <1>4, <1>7, <1>9
  <2> QED  BY <1>3, <2>1, <2>2
<1>10. ASSUME NEW b \in DOMAIN blocks, \A i \in 1..N : target[i] # b
       PROVE  after[b] = blocks[b]
  <2>1. b \notin ToSet(target)
    BY <1>8, <1>10 DEF ToSet
  <2> QED  BY <1>3, <2>1
\* Where unit u of chunk i comes from.
<1>11. ASSUME NEW i \in 1..N, NEW u \in 0..(BLOCK_SZ - 1), NEW b \in DOMAIN blocks
       PROVE  LET p == (s + i - 1) * BLOCK_SZ + u
              IN  /\ p \in Nat /\ p \div BLOCK_SZ = s + i - 1 /\ p % BLOCK_SZ = u
                  /\ p \in offset..(end - 1) <=>
                       p >= ch[i].start /\ p < ch[i].end
                  /\ put(blocks[b], ch[i])[u]
                       = IF p \in offset..(end - 1) THEN buf[p - offset + 1]
                         ELSE blocks[b][u]
  <2> DEFINE d == s + i - 1
             dx == d * BLOCK_SZ
             p == dx + u
             x == ch[i].start
             y == ch[i].end
             first == x % BLOCK_SZ
  <2>1. /\ d \in Nat /\ dx \in Nat
        /\ x = IF i = 1 THEN offset ELSE dx
        /\ y = IF i = N THEN end ELSE dx + BLOCK_SZ
        /\ dx <= x /\ x < y /\ y <= dx + BLOCK_SZ
        /\ offset <= x /\ y <= end
    BY <1>4
  <2>2. put(blocks[b], ch[i])[u]
          = IF u \in first..(first + y - x - 1)
            THEN buf[x - offset + u - first + 1] ELSE blocks[b][u]
    BY DEF put, BlocksTyped
  <2> HIDE DEF d
  <2>3. p \in Nat /\ dx <= p /\ p < dx + BLOCK_SZ /\ p - dx = u
    <3> HIDE DEF dx
    <3> QED  BY <2>1, Sizes
  <2>4. p \div BLOCK_SZ = d /\ p % BLOCK_SZ = u
    <3>1. p \div BLOCK_SZ = d /\ p % BLOCK_SZ = p - d * BLOCK_SZ
      <4> HIDE DEF p
      <4> QED  BY <2>1, <2>3, InBlock
    <3> QED  BY <2>3, <3>1
  <2>5. x \in Nat /\ y \in Nat
    BY SMTT(30), <1>1, <2>1, Sizes
  <2>6. first = x - dx
    <3>1. x < dx + BLOCK_SZ
      <4> HIDE DEF dx, x, y
      <4> QED  BY <2>1, <2>5, Sizes
    <3> HIDE DEF x
    <3> QED  BY <2>1, <2>5, <3>1, InBlock
  <2> HIDE DEF x, y, first, dx
  <2>7. p \in offset..(end - 1) <=> p >= x /\ p < y
    <3>1. i = 1 \/ i # 1
      OBVIOUS
    <3>2. /\ p \in Nat /\ dx <= p /\ p < dx + BLOCK_SZ
          /\ (x = offset \/ x = dx) /\ (y = end \/ y = dx + BLOCK_SZ)
          /\ offset <= x /\ y <= end
      BY <2>1, <2>3
    <3> HIDE DEF p
    <3> QED  BY <1>1, <2>1, <2>5, <3>2, Sizes
  <2>8. u \in first..(first + y - x - 1) <=> p >= x /\ p < y
    BY SMTT(30), <2>1, <2>3, <2>5, <2>6
  <2>9. x - offset + u - first + 1 = p - offset + 1
    BY <2>1, <2>3, <2>5, <2>6
  <2> HIDE DEF p
  <2>10. put(blocks[b], ch[i])[u] = IF p \in offset..(end - 1) THEN buf[p - offset + 1]
                                    ELSE blocks[b][u]
    BY <2>2, <2>7, <2>8, <2>9
  <2> QED  BY <2>3, <2>4, <2>7, <2>10 DEF d, dx, p, x, y
\* The chunk of a unit.
<1>12. ASSUME NEW p \in offset..(end - 1)
       PROVE  \E i \in 1..N : s + i - 1 = p \div BLOCK_SZ
  <2> DEFINE d == p \div BLOCK_SZ
             l == (end - 1) \div BLOCK_SZ
  <2>0. p \in Nat /\ end - 1 \in Nat /\ offset <= p /\ p <= end - 1
    BY <1>1
  <2>1. d \in Nat /\ l \in Nat
    BY <2>0, BlockOf
  <2>2. s <= d /\ d <= l
    <3>1. BLOCK_SZ \in Nat \ {0}
      BY Sizes
    <3>2. s <= d
      BY <2>0, <3>1, DivUp DEF s
    <3>3. d <= l
      <4> DEFINE e == end - 1
      <4>1. e \in Nat /\ p <= e
        BY <2>0
      <4> HIDE DEF e
      <4>2. p \div BLOCK_SZ <= e \div BLOCK_SZ
        BY <2>0, <3>1, <4>1, DivUp
      <4> QED  BY <4>2 DEF e
    <3> QED  BY <3>2, <3>3
  <2> HIDE DEF d
  <2>3. N = (l + 1) - s
    BY <1>5
  <2> HIDE DEF l
  <2>4. (d - s) + 1 \in 1..N /\ s + ((d - s) + 1) - 1 = d
    BY <1>4, <2>1, <2>2, <2>3
  <2> QED  BY <2>4 DEF d
<1>13. ASSUME NEW b \in DOMAIN blocks, NEW u \in 0..(BLOCK_SZ - 1)
       PROVE  \/ /\ after[b][u] = blocks[b][u]
                 /\ \A p \in offset..(end - 1) :
                       ~(/\ b = DataBlock(inode, blocks, p \div BLOCK_SZ)
                         /\ u = p % BLOCK_SZ)
              \/ \E p \in offset..(end - 1) :
                    /\ b = DataBlock(inode, blocks, p \div BLOCK_SZ)
                    /\ u = p % BLOCK_SZ
                    /\ after[b][u] = buf[p - offset + 1]
  <2>1. CASE \A i \in 1..N : target[i] # b
    <3>1. after[b][u] = blocks[b][u]
      BY <1>10, <2>1
    <3>2. ASSUME NEW p \in offset..(end - 1), b = DataBlock(inode, blocks, p \div BLOCK_SZ)
          PROVE  FALSE
      <4>1. PICK i \in 1..N : s + i - 1 = p \div BLOCK_SZ
        BY <1>12
      <4>2. target[i] = DataBlock(inode, blocks, s + i - 1)
        BY <1>6
      <4> QED  BY <2>1, <3>2, <4>1, <4>2
    <3> QED  BY <3>1, <3>2
  <2>2. ASSUME NEW i \in 1..N, target[i] = b
        PROVE  \/ /\ after[b][u] = blocks[b][u]
                  /\ \A p \in offset..(end - 1) :
                        ~(/\ b = DataBlock(inode, blocks, p \div BLOCK_SZ)
                          /\ u = p % BLOCK_SZ)
               \/ \E p \in offset..(end - 1) :
                     /\ b = DataBlock(inode, blocks, p \div BLOCK_SZ)
                     /\ u = p % BLOCK_SZ
                     /\ after[b][u] = buf[p - offset + 1]
    <3> DEFINE q == (s + i - 1) * BLOCK_SZ + u
    <3>1. after[b] = put(blocks[b], ch[i])
      BY <1>9, <2>2
    <3>2. /\ q \in Nat /\ q \div BLOCK_SZ = s + i - 1 /\ q % BLOCK_SZ = u
          /\ put(blocks[b], ch[i])[u]
               = IF q \in offset..(end - 1) THEN buf[q - offset + 1] ELSE blocks[b][u]
      BY <1>11
    <3>3. b = DataBlock(inode, blocks, q \div BLOCK_SZ)
      BY <1>6, <2>2, <3>2
    <3>6. s + i - 1 \in Nat
      BY <1>6
    <3>7. q = (s + i - 1) * BLOCK_SZ + u
      OBVIOUS
    <3> HIDE DEF q
    <3>4. CASE q \in offset..(end - 1)
      BY <3>1, <3>2, <3>3, <3>4
    <3>5. CASE q \notin offset..(end - 1)
      <4>1. ASSUME NEW p \in offset..(end - 1),
                   b = DataBlock(inode, blocks, p \div BLOCK_SZ), u = p % BLOCK_SZ
            PROVE  FALSE
        <5>1. PICK j \in 1..N : s + j - 1 = p \div BLOCK_SZ
          BY <1>12
        <5>2. target[j] = DataBlock(inode, blocks, p \div BLOCK_SZ)
          BY <1>6, <5>1
        <5>3. i = j
          BY <1>7, <2>2, <4>1, <5>2
        <5>4. p \in Nat
          BY <1>1
        <5>5. p = (p \div BLOCK_SZ) * BLOCK_SZ + (p % BLOCK_SZ)
          BY <5>4, BlockOf
        <5>6. p = q
          BY <3>7, <4>1, <5>1, <5>3, <5>5
        <5> QED  BY <3>5, <5>6
      <4> QED  BY <3>1, <3>2, <3>5, <4>1
    <3> QED  BY <3>4, <3>5
  <2> QED  BY <2>1, <2>2
<1>14. after = [b \in DOMAIN blocks |-> [u \in 0..(BLOCK_SZ - 1) |-> after[b][u]]]
  <2>1. after = [b \in DOMAIN blocks |-> after[b]]
    BY <1>3
  <2>2. ASSUME NEW b \in DOMAIN blocks
        PROVE  after[b] = [u \in 0..(BLOCK_SZ - 1) |-> after[b][u]]
    <3>1. CASE \A i \in 1..N : target[i] # b
      BY <1>10, <3>1 DEF BlocksTyped
    <3>2. ASSUME NEW i \in 1..N, target[i] = b
          PROVE  after[b] = [u \in 0..(BLOCK_SZ - 1) |-> after[b][u]]
      <4>1. after[b] = put(blocks[b], ch[i])
        BY <1>9, <3>2
      <4>2. put(blocks[b], ch[i]) = [u \in 0..(BLOCK_SZ - 1) |-> put(blocks[b], ch[i])[u]]
        BY DEF put, BlocksTyped
      <4> QED  BY <4>1, <4>2
    <3> QED  BY <3>1, <3>2
  <2> QED  BY <2>1, <2>2
<1>15. after = [b \in DOMAIN blocks |-> after[b]]
  BY <1>3
<1>16. \A b \in DOMAIN blocks : after[b] = [u \in 0..(BLOCK_SZ - 1) |-> after[b][u]]
  BY <1>14
<1>17. ASSUME NEW b \in DOMAIN blocks, NEW u \in 0..(BLOCK_SZ - 1)
       PROVE  \/ /\ after[b][u] = blocks[b][u]
                 /\ \A p : ~Goes(inode, blocks, offset, buf, p, b, u)
              \/ \E p : /\ Goes(inode, blocks, offset, buf, p, b, u)
                        /\ after[b][u] = buf[p - offset + 1]
  BY SMTT(30), <1>0, <1>13 DEF Goes
<1> QED  BY <1>15, <1>16, <1>17 DEF Holding, after

\* The members of S below b.
Below(S, b) == {c \in S : c < b}

\* A finite set of numbers has an element with any number of others below it.
LEMMA LowestExists ==
    ASSUME NEW S \in SUBSET Nat, IsFiniteSet(S), NEW k \in Nat, k < Cardinality(S)
    PROVE  \E b \in S : Cardinality(Below(S, b)) = k
<1> DEFINE Bad == {j \in Nat : /\ j < Cardinality(S)
                               /\ \A b \in S : Cardinality(Below(S, b)) # j}
<1> SUFFICES ASSUME \A b \in S : Cardinality(Below(S, b)) # k PROVE FALSE
  OBVIOUS
<1>1. k \in Bad
  OBVIOUS
<1>2. PICK m \in Bad : \A j \in Bad : m <= j
  <2> HIDE DEF Bad
  <2>1. Bad \in SUBSET Nat
    BY DEF Bad
  <2> QED  BY <1>1, <2>1, LeastNatural
<1>3. /\ m \in Nat /\ m < Cardinality(S)
      /\ \A b \in S : Cardinality(Below(S, b)) # m
  BY <1>2
<1>4. Cardinality(S) \in Nat
  BY FS_CardinalityType
<1>5. CASE m = 0
  <2>1. S # {}
    BY <1>3, <1>5, FS_EmptySet
  <2>2. PICK b \in S : \A c \in S : b <= c
    BY <2>1, LeastNatural
  <2>3. Below(S, b) = {}
    <3>1. \A c \in S : c \in Nat /\ b \in Nat /\ ~(c < b)
      BY <2>2
    <3> QED  BY <3>1 DEF Below
  <2> QED  BY <1>3, <1>5, <2>3, FS_EmptySet
<1>6. CASE m # 0
  <2> DEFINE l == m - 1
  <2>1. l \in Nat /\ l < Cardinality(S) /\ ~(m <= l) /\ m = l + 1
    BY <1>3, <1>4, <1>6
  <2> HIDE DEF l
  <2>2. l \notin Bad
    BY <1>2, <2>1
  <2>3. PICK b \in S : Cardinality(Below(S, b)) = l
    BY <2>1, <2>2
  <2> DEFINE T == Below(S, b) \cup {b}
  <2>4. T \in SUBSET S /\ b \notin Below(S, b) /\ Below(S, b) \in SUBSET S
    BY DEF Below
  <2>5. IsFiniteSet(Below(S, b))
    BY <2>4, FS_Subset
  <2>6. IsFiniteSet(T) /\ Cardinality(T) = m
    BY <2>1, <2>3, <2>4, <2>5, FS_AddElement
  <2>7. S \ T # {}
    <3>1. S # T
      BY <1>3, <1>4, <2>6
    <3> QED  BY <2>4, <3>1
  <2>8. PICK n \in S \ T : \A c \in S \ T : n <= c
    <3> HIDE DEF T
    <3>1. S \ T \in SUBSET Nat
      OBVIOUS
    <3> QED  BY <2>7, <3>1, LeastNatural
  <2>9. Below(S, n) = T
    <3>1. n \in Nat /\ n \in S /\ n \notin T /\ b < n
      BY <2>8 DEF Below
    <3>2. ASSUME NEW c \in S PROVE c < n <=> c \in T
      <4>1. c \in T => c < n
        BY <3>1 DEF Below
      <4>2. c \notin T => n <= c
        BY <2>8
      <4> QED  BY <3>1, <4>1, <4>2
    <3> QED  BY <2>4, <3>2 DEF Below
  <2> QED  BY <1>3, <2>6, <2>8, <2>9
<1> QED  BY <1>5, <1>6

\* The bits of the data bitmap that are clear.
FreeBits(e, f) == (0..(maximum(e.data_bitmap.blocks) - 1)) \ f.data_bitmap

\* alloc_data finds bits that are clear, no two the same.
LEMMA AllocData ==
    ASSUME NEW f, NEW n \in Nat,
           maximum(efs.data_bitmap.blocks) \in Nat, efs.data_area_start_block \in Nat
    PROVE  LET v == alloc_data(f, n)
           IN  /\ v \in Seq(Nat)
               /\ \A i \in 1..Len(v) :
                     /\ v[i] - efs.data_area_start_block \in FreeBits(efs, f)
                     /\ v[i] >= efs.data_area_start_block
               /\ \A i, j \in 1..Len(v) : v[i] = v[j] => i = j
<1> DEFINE S == FreeBits(efs, f)
           st == efs.data_area_start_block
           lowest(i) == CHOOSE b \in S : Cardinality({c \in S : c < b}) = i - 1
           m == Lesser(n, Cardinality(S))
           v == alloc_data(f, n)
<1>1. v = [i \in 1..m |-> lowest(i) + st]
  BY DEF alloc_data, FreeBits
<1>2. S \in SUBSET Nat /\ IsFiniteSet(S)
  <2> DEFINE a == 0
             z == maximum(efs.data_bitmap.blocks) - 1
  <2>1. a \in Int /\ z \in Int
    OBVIOUS
  <2>2. S \in SUBSET (a..z) /\ a..z \subseteq Nat
    BY DEF FreeBits
  <2> HIDE DEF a, z
  <2>3. IsFiniteSet(a..z)
    BY <2>1, FS_Interval
  <2> HIDE DEF S
  <2> QED  BY <2>2, <2>3, FS_Subset
<1> HIDE DEF S
<1>3. Cardinality(S) \in Nat
  BY <1>2, FS_CardinalityType
<1>4. m \in Nat /\ m <= Cardinality(S)
  BY <1>3 DEF Lesser
<1> HIDE DEF m
<1>5. ASSUME NEW i \in 1..m
      PROVE  lowest(i) \in S /\ Cardinality(Below(S, lowest(i))) = i - 1
  <2>1. i - 1 \in Nat /\ i - 1 < Cardinality(S)
    BY <1>3, <1>4
  <2>2. \E b \in S : Cardinality({c \in S : c < b}) = i - 1
    BY <1>2, <2>1, LowestExists DEF Below
  <2> QED  BY <2>2 DEF Below
<1> HIDE DEF lowest
<1>12. \A i \in 1..m : lowest(i) \in S /\ Cardinality(Below(S, lowest(i))) = i - 1
  BY <1>5
<1>6. ASSUME NEW i \in 1..m, NEW j \in 1..m, lowest(i) = lowest(j) PROVE i = j
  <2>1. i - 1 = j - 1
    BY <1>6, <1>12
  <2> QED  BY <1>4, <2>1
<1>13. st \in Nat
  OBVIOUS
<1> HIDE DEF st
<1>7. \A i \in 1..m : lowest(i) \in Nat /\ lowest(i) + st \in Nat
  <2>1. \A b \in S : b \in Nat
    BY <1>2
  <2>2. \A i \in 1..m : lowest(i) \in S
    BY <1>12
  <2>3. \A i \in 1..m : lowest(i) \in Nat
    BY <2>1, <2>2
  <2> QED  BY <1>13, <2>3
<1>8. v \in Seq(Nat) /\ Len(v) = m
  <2> DEFINE e(i) == lowest(i) + st
  <2>1. \A i \in 1..m : e(i) \in Nat
    BY <1>7
  <2> HIDE DEF e
  <2>2. [i \in 1..m |-> e(i)] \in Seq(Nat) /\ Len([i \in 1..m |-> e(i)]) = m
    BY <1>4, <2>1, IsASeq
  <2> QED  BY <1>1, <2>2 DEF e
<1>9. \A i \in 1..m : v[i] = lowest(i) + st
  BY <1>1
<1> HIDE DEF v
<1>10. ASSUME NEW i \in 1..m PROVE v[i] - st \in S /\ v[i] >= st
  <2>1. v[i] - st = lowest(i)
    BY <1>7, <1>9, <1>13
  <2>2. v[i] >= st
    BY <1>7, <1>9, <1>13
  <2> QED  BY <1>12, <2>1, <2>2
<1>11. ASSUME NEW i \in 1..m, NEW j \in 1..m, v[i] = v[j] PROVE i = j
  <2>1. lowest(i) = lowest(j)
    BY <1>7, <1>9, <1>11, <1>13
  <2> QED  BY <1>6, <2>1
<1> QED  BY <1>8, <1>10, <1>11 DEF v, S, st

\* alloc takes a bit that is clear.
LEMMA AllocBit ==
    ASSUME NEW bits, NEW bitmap, maximum(bitmap.blocks) \in Nat,
           alloc(bits, bitmap) # None
    PROVE  alloc(bits, bitmap) \in (0..(maximum(bitmap.blocks) - 1)) \ bits
<1> DEFINE S == (0..(maximum(bitmap.blocks) - 1)) \ bits
<1>1. S # {} /\ alloc(bits, bitmap) = Min(S)
  BY DEF alloc
<1>2. S \in SUBSET Nat
  OBVIOUS
<1> HIDE DEF S
<1>3. \E i \in S : \A j \in S : i <= j
  BY <1>1, <1>2, LeastNatural
<1>4. Min(S) \in S
  BY <1>3 DEF Min
<1> QED  BY <1>1, <1>4 DEF S

\* The type of an inode.
DiskInodes ==
    [type_ : {"Directory", "File"}, size : Nat,
     direct : [0..(INODE_DIRECT_COUNT - 1) -> Nat],
     indirect1 : Nat, indirect2 : Nat]

\* The block that place n holds when a file with the places below `has` got
\* the blocks v.
Held(inode, blocks, has, v, n) ==
    IF n < has THEN Index(inode, blocks, n) ELSE v[n - has + 1]

HeldApart(inode, blocks, has, v, needs) ==
    \A m, n \in 0..(needs - 1) :
        Held(inode, blocks, has, v, m) = Held(inode, blocks, has, v, n) => m = n

HeldIn(inode, blocks, has, v, needs, S) ==
    \A n \in 0..(needs - 1) : Held(inode, blocks, has, v, n) \in S

\* increase_size puts the blocks it is given into the places that are missing,
\* in order, keeps the others, and changes no block but those of entries.
LEMMA IncreaseSize ==
    ASSUME NEW inode \in DiskInodes, NEW blocks, NEW new_size \in Nat, NEW v \in Seq(Nat),
           inode.size <= new_size,
           data_blocks(new_size) <= INDIRECT2_BOUND,
           BlocksTyped(blocks),
           NEW has, has = PlacesOf(data_blocks(inode.size)),
           NEW needs, needs = PlacesOf(data_blocks(new_size)),
           Len(v) = needs - has,
           HeldApart(inode, blocks, has, v, needs),
           HeldIn(inode, blocks, has, v, needs, DOMAIN blocks)
    PROVE  LET g == increase_size(inode, blocks, new_size, v)
           IN  /\ g.inode \in DiskInodes
               /\ g.inode.size = new_size /\ g.inode.type_ = inode.type_
               /\ g.blocks \in [DOMAIN blocks -> [0..(BLOCK_SZ - 1) -> Nat]]
               /\ \A n \in 0..(needs - 1) :
                     Index(g.inode, g.blocks, n) = Held(inode, blocks, has, v, n)
               /\ \A b \in DOMAIN blocks :
                     (\A h \in 0..(needs - 1) :
                         IndexPlace(h) => Held(inode, blocks, has, v, h) # b)
                     => g.blocks[b] = blocks[b]
<1> DEFINE places == PlacesFilled(data_blocks(inode.size), data_blocks(new_size))
           Filled(place, old) ==
              IF place \in ToSet(places)
              THEN v[CHOOSE i \in DOMAIN places : places[i] = place]
              ELSE old
           one == Filled(<<"indirect1">>, inode.indirect1)
           two == Filled(<<"indirect2">>, inode.indirect2)
           row(a) == Filled(<<"entry2", a>>, blocks[two][a])
           fills(b, u) ==
              {i \in DOMAIN places :
                \/ places[i] = <<"entry1", u>> /\ b = one
                \/ places[i] = <<"entry2", u>> /\ b = two
                \/ \E a \in 0..(BLOCK_SZ - 1) :
                      places[i] = <<"entry3", a, u>> /\ b = row(a)}
           entry(b, u) == IF fills(b, u) = {} THEN blocks[b][u]
                          ELSE v[CHOOSE i \in fills(b, u) : TRUE]
           g == increase_size(inode, blocks, new_size, v)
           H(n) == Held(inode, blocks, has, v, n)
<1>1. /\ g.inode = [inode EXCEPT
                       !.size = new_size,
                       !.direct = [i \in DOMAIN @ |->
                                      Filled(<<"direct", i>>, @[i])],
                       !.indirect1 = one,
                       !.indirect2 = two]
      /\ g.blocks = IF places = <<>> THEN blocks
                    ELSE [b \in DOMAIN blocks |->
                            [u \in DOMAIN blocks[b] |-> entry(b, u)]]
  BY ZenonT(60) DEF increase_size
<1>2. has \in Nat /\ needs \in Nat /\ has <= needs /\ inode.size \in Nat
  <2>1. inode.size \in Nat
    BY DEF DiskInodes
  <2>2. data_blocks(inode.size) \in Nat /\ data_blocks(new_size) \in Nat
        /\ data_blocks(inode.size) <= data_blocks(new_size)
    BY <2>1, DataBlocks, DataBlocksUp
  <2> QED  BY <2>1, <2>2, PlacesOfFacts
<1>3. /\ DOMAIN places = 1..(needs - has)
      /\ \A i \in 1..(needs - has) : has + i - 1 \in Nat /\ places[i] = Place(has + i - 1)
      /\ places = <<>> => has = needs
  <2>1. places = Segment(Places, has, needs)
    <3>1. data_blocks(inode.size) \in Nat /\ data_blocks(new_size) \in Nat
        /\ data_blocks(inode.size) <= data_blocks(new_size)
      BY <1>2, DataBlocks, DataBlocksUp
    <3> QED  BY <3>1, PlacesFilledSegment
  <2> HIDE DEF places
  <2>2. /\ DOMAIN Segment(Places, has, needs) = 1..(needs - has)
        /\ \A i \in 1..(needs - has) : Segment(Places, has, needs)[i] = Places[has + i - 1]
        /\ Len(Segment(Places, has, needs)) = needs - has
    <3>1. Len(Segment(Places, has, needs)) = needs - has
      BY <1>2, SegmentFacts
    <3> QED  BY <3>1 DEF Segment
  <2>3. \A i \in 1..(needs - has) : has + i - 1 \in Nat
    BY SMTT(30), <1>2
  <2>4. Len(<<>>) = 0
    BY EmptySeq
  <2>5. \A n \in Nat : Places[n] = Place(n)
    BY DEF Places
  <2>6. places = <<>> => needs - has = 0
    BY <2>1, <2>2, <2>4
  <2>7. places = <<>> => has = needs
    BY <1>2, <2>6
  <2>8. \A i \in 1..(needs - has) : places[i] = Place(has + i - 1)
    BY <2>1, <2>2, <2>3, <2>5
  <2> QED  BY <2>1, <2>2, <2>3, <2>7, <2>8
<1>4. \A i \in 1..(needs - has) : v[i] \in Nat
  <2>1. DOMAIN v = 1..Len(v) /\ v \in [1..Len(v) -> Nat]
    BY LenProperties
  <2> QED  BY <2>1
<1> HIDE DEF places, g
<1>5. ASSUME NEW n \in Nat, NEW old
      PROVE  Filled(Place(n), old)
               = IF n >= has /\ n < needs THEN v[n - has + 1] ELSE old
  <2>1. \A i \in 1..(needs - has) : places[i] = Place(n) <=> has + i - 1 = n
    <3> SUFFICES ASSUME NEW i \in 1..(needs - has)
                 PROVE  places[i] = Place(n) <=> has + i - 1 = n
      OBVIOUS
    <3> DEFINE m == has + i - 1
    <3>1. places[i] = Place(m) /\ m \in Nat
      BY <1>3
    <3> HIDE DEF m
    <3>2. Number(Place(m)) = m /\ Number(Place(n)) = n
      BY <3>1, PlaceNumber
    <3>3. places[i] = Place(n) <=> m = n
      BY <3>1, <3>2
    <3> QED  BY <3>3 DEF m
  <2>2. CASE n >= has /\ n < needs
    <3> DEFINE k == n - has + 1
    <3>1. k \in 1..(needs - has) /\ \A i \in 1..(needs - has) : has + i - 1 = n <=> i = k
      <4>1. k \in 1..(needs - has)
        BY SMTT(30), <1>2, <2>2
      <4>2. ASSUME NEW i \in 1..(needs - has) PROVE has + i - 1 = n <=> i = k
        <5>1. has \in Int /\ i \in Int /\ n \in Int
          BY <1>2
        <5> QED  BY <5>1, PlaceInSequence
      <4> QED  BY <4>1, <4>2
    <3> HIDE DEF k
    <3>2. places[k] = Place(n) /\ \A i \in DOMAIN places : places[i] = Place(n) => i = k
      BY <1>3, <2>1, <3>1
    <3>3. Place(n) \in ToSet(places)
      BY <1>3, <3>1, <3>2 DEF ToSet
    <3>4. (CHOOSE i \in DOMAIN places : places[i] = Place(n)) = k
      BY <1>3, <3>1, <3>2
    <3>5. Filled(Place(n), old) = v[k]
      BY <3>3, <3>4
    <3> HIDE DEF Filled
    <3> QED  BY <2>2, <3>5 DEF k
  <2>3. CASE ~(n >= has /\ n < needs)
    <3>1. \A i \in 1..(needs - has) : has + i - 1 # n
      BY SMTT(30), <1>2, <2>3
    <3>2. Place(n) \notin ToSet(places)
      BY <1>3, <2>1, <3>1 DEF ToSet
    <3> QED  BY <2>3, <3>2
  <2> QED  BY <2>2, <2>3
<1> HIDE DEF Filled
\* What is in the inode.
<1>6. ASSUME INODE_DIRECT_COUNT < needs PROVE one = H(INODE_DIRECT_COUNT)
  <2>1. Place(INODE_DIRECT_COUNT) = <<"indirect1">>
        /\ Index(inode, blocks, INODE_DIRECT_COUNT) = inode.indirect1
    BY PlaceValues, IndexValues
  <2> QED  BY <1>2, <1>5, <1>6, <2>1, Sizes DEF Held
<1>7. ASSUME Row0 - 1 < needs PROVE two = H(Row0 - 1)
  <2> DEFINE r == Row0 - 1
  <2>1. Place(r) = <<"indirect2">> /\ r \in Nat /\ r < needs
        /\ Index(inode, blocks, r) = inode.indirect2
    BY <1>7, PlaceValues, IndexValues, Sizes
  <2> HIDE DEF r
  <2>2. two = H(r)
    BY <1>2, <1>5, <2>1 DEF Held
  <2> QED  BY <2>2 DEF r
<1> HIDE DEF one
<1>8. ASSUME NEW a \in Nat, Row(a) < needs PROVE row(a) = H(Row(a))
  <2>1. Row(a) \in Nat /\ Row(a) >= Row0
    BY RowFacts
  <2>2. Place(Row(a)) = <<"entry2", a>>
        /\ Index(inode, blocks, Row(a)) = blocks[inode.indirect2][a]
    BY ZenonT(60), PlaceValues, IndexValues
  <2>3. row(a) = IF Row(a) >= has /\ Row(a) < needs THEN v[Row(a) - has + 1]
                 ELSE blocks[two][a]
    BY ZenonT(60), <1>5, <2>1, <2>2
  <2>4. CASE Row(a) >= has
    BY <1>2, <1>8, <2>1, <2>3, <2>4 DEF Held
  <2>5. CASE Row(a) < has
    <3>1. Row0 - 1 < has /\ Row0 - 1 < needs
      BY SMTT(30), <1>2, <2>1, <2>5, Sizes
    <3>2. two = inode.indirect2
      <4>1. Index(inode, blocks, Row0 - 1) = inode.indirect2
        BY IndexValues
      <4> QED  BY <1>7, <3>1, <4>1 DEF Held
    <3>3. row(a) = blocks[inode.indirect2][a]
      <4> HIDE DEF row, two
      <4> QED  BY <1>2, <2>1, <2>3, <2>5, <3>2
    <3> QED  BY <2>2, <2>5, <3>3 DEF Held
  <2> QED  BY <1>2, <2>1, <2>4, <2>5
<1> HIDE DEF two, row
\* The entries that are filled.
<1>9. ASSUME NEW b \in DOMAIN blocks, NEW u \in 0..(BLOCK_SZ - 1), NEW i
      PROVE  i \in fills(b, u) <=>
               /\ i \in 1..(needs - has)
               /\ \E h \in Nat : Entry(has + i - 1, h, u) /\ H(h) = b
  <2> DEFINE n == has + i - 1
  <2>1. SUFFICES ASSUME i \in 1..(needs - has)
                 PROVE  i \in fills(b, u) <=> \E h \in Nat : Entry(n, h, u) /\ H(h) = b
    BY <1>3
  <2>2. n \in Nat /\ n < needs /\ places[i] = Place(n)
    BY <1>2, <1>3, <2>1
  <2> HIDE DEF n, H
  <2>3. ASSUME i \in fills(b, u)
        PROVE  \E h \in Nat : Entry(n, h, u) /\ H(h) = b
    <3>1. CASE places[i] = <<"entry1", u>> /\ b = one
      <4>1. n = INODE_DIRECT_COUNT + 1 + u
        BY <2>2, <3>1, PlaceNumber, NumberValues
      <4>2. Entry(n, INODE_DIRECT_COUNT, u) /\ INODE_DIRECT_COUNT < needs
        BY <1>2, <2>2, <4>1, Sizes DEF Entry
      <4> QED  BY <1>6, <3>1, <4>2, Sizes
    <3>2. CASE places[i] = <<"entry2", u>> /\ b = two
      <4>1. n = Row(u)
        BY ZenonT(60), <2>2, <3>2, PlaceNumber, NumberValues
      <4>2. Entry(n, Row0 - 1, u) /\ Row0 - 1 < needs /\ Row0 - 1 \in Nat
        <5>1. Row(u) >= Row0 /\ Row(u) \in Nat
          BY RowFacts
        <5> QED  BY <1>2, <2>2, <4>1, <5>1, Sizes DEF Entry
      <4> QED  BY <1>7, <3>2, <4>2
    <3>3. ASSUME NEW a \in 0..(BLOCK_SZ - 1), places[i] = <<"entry3", a, u>>, b = row(a)
          PROVE  \E h \in Nat : Entry(n, h, u) /\ H(h) = b
      <4>1. n = Row(a) + 1 + u
        <5>1. Number(places[i]) = n
          BY <2>2, PlaceNumber
        <5>2. Number(<<"entry3", a, u>>) = Row(a) + 1 + u
          BY NumberValues
        <5> QED  BY <3>3, <5>1, <5>2
      <4>2. a \in Nat /\ Row(a) \in Nat
        BY RowFacts
      <4>3. Entry(n, Row(a), u) /\ Row(a) < needs
        BY SMTT(30), <1>2, <2>2, <4>1, <4>2, Sizes DEF Entry
      <4> QED  BY <1>8, <3>3, <4>2, <4>3
    <3> QED  BY <2>3, <3>1, <3>2, <3>3
  <2>4. ASSUME NEW h \in Nat, Entry(n, h, u), H(h) = b
        PROVE  i \in fills(b, u)
    <3>0. h < n /\ h < needs
      <4>1. h < n
        BY <2>4, EntryFacts
      <4> QED  BY <1>2, <2>2, <4>1
    <3>1. CASE h = INODE_DIRECT_COUNT /\ n = INODE_DIRECT_COUNT + 1 + u
      <4>1. places[i] = <<"entry1", u>>
        BY <2>2, <3>1, PlaceValues
      <4>2. b = one
        BY <1>6, <2>4, <3>0, <3>1
      <4> QED  BY <1>3, <2>1, <4>1, <4>2
    <3>2. CASE h = Row0 - 1 /\ n = Row(u)
      <4>1. places[i] = <<"entry2", u>>
        BY <2>2, <3>2, PlaceValues
      <4>2. b = two
        BY <1>7, <2>4, <3>0, <3>2
      <4> QED  BY <1>3, <2>1, <4>1, <4>2
    <3>3. ASSUME NEW a \in Nat, h = Row(a), n = Row(a) + 1 + u
          PROVE  i \in fills(b, u)
      <4>1. places[i] = <<"entry3", a, u>>
        BY <2>2, <3>3, PlaceValues
      <4>2. b = row(a)
        BY <1>8, <2>4, <3>0, <3>3
      <4>3. a \in 0..(BLOCK_SZ - 1)
        BY <3>0, <3>3, RowsBounded, DataBlocks
      <4> QED  BY <1>3, <2>1, <4>1, <4>2, <4>3
    <3> QED  BY <2>4, <3>1, <3>2, <3>3 DEF Entry
  <2> HIDE DEF fills
  <2> QED  BY <2>3, <2>4
<1> HIDE DEF fills
<1>10. \A m, n \in Nat : m < needs /\ n < needs /\ H(m) = H(n) => m = n
  <2> SUFFICES ASSUME NEW m \in Nat, NEW n \in Nat, m < needs, n < needs, H(m) = H(n)
               PROVE  m = n
    OBVIOUS
  <2>1. m \in 0..(needs - 1) /\ n \in 0..(needs - 1)
    BY <1>2
  <2> QED  BY <2>1 DEF HeldApart
<1>11. g.blocks = [b \in DOMAIN blocks |-> [u \in 0..(BLOCK_SZ - 1) |-> entry(b, u)]]
  <2>1. \A b \in DOMAIN blocks : DOMAIN blocks[b] = 0..(BLOCK_SZ - 1)
    BY DEF BlocksTyped
  <2>2. CASE places # <<>>
    <3> HIDE DEF entry
    <3> QED  BY <1>1, <2>1, <2>2
  <2>3. CASE places = <<>>
    <3>1. ASSUME NEW b \in DOMAIN blocks, NEW u \in 0..(BLOCK_SZ - 1)
          PROVE  entry(b, u) = blocks[b][u]
      <4>1. has = needs
        BY <1>3, <2>3
      <4>2. \A i : i \notin 1..(needs - has)
        BY <1>2, <4>1
      <4>3. fills(b, u) = {}
        BY <1>9, <4>2
      <4> QED  BY <4>3
    <3> HIDE DEF entry
    <3>2. g.blocks = blocks
      BY <1>1, <2>3
    <3> QED  BY <3>1, <3>2 DEF BlocksTyped
  <2> QED  BY <2>2, <2>3
<1>12. ASSUME NEW b \in DOMAIN blocks, NEW u \in 0..(BLOCK_SZ - 1)
       PROVE  entry(b, u) \in Nat
  <2>1. CASE fills(b, u) = {}
    BY <2>1 DEF BlocksTyped
  <2>2. CASE fills(b, u) # {}
    <3>1. PICK i \in fills(b, u) : i = CHOOSE j \in fills(b, u) : TRUE
      BY <2>2
    <3> QED  BY <1>4, <1>9, <2>2, <3>1
  <2> QED  BY <2>1, <2>2
<1>13. ASSUME NEW n, NEW h, NEW u, Entry(n, h, u), n < needs, u \in 0..(BLOCK_SZ - 1)
       PROVE  g.blocks[H(h)][u] = H(n)
  <2>1. n \in Nat /\ h \in Nat /\ h < n /\ h < needs
    <3>1. n \in Nat /\ h \in Nat /\ h < n
      BY <1>13, EntryFacts
    <3> QED  BY <1>2, <1>13, <3>1
  <2>2. H(h) \in DOMAIN blocks
    <3>1. h \in 0..(needs - 1)
      BY <1>2, <2>1
    <3> QED  BY <3>1 DEF HeldIn
  <2>3. g.blocks[H(h)][u] = entry(H(h), u)
    <3> HIDE DEF entry, H
    <3> QED  BY <1>11, <1>13, <2>2
  <2>4. ASSUME NEW i \in fills(H(h), u)
        PROVE  has + i - 1 = n /\ i \in 1..(needs - has)
    <3>1. i \in 1..(needs - has)
      BY <1>9, <1>13, <2>2
    <3> DEFINE m == has + i - 1
    <3>2. PICK k \in Nat : Entry(m, k, u) /\ H(k) = H(h)
      BY <1>9, <1>13, <2>2
    <3>3. m \in Nat /\ m < needs
      BY SMTT(30), <1>2, <3>1
    <3> HIDE DEF m
    <3>4. k < m
      BY <3>2, EntryFacts
    <3>5. k < needs
      BY <1>2, <3>3, <3>4
    <3>6. k = h
      <4> HIDE DEF H
      <4> QED  BY <1>10, <2>1, <3>2, <3>5
    <3>7. m = n
      BY <1>13, <3>2, <3>6, EntryUnique
    <3> QED  BY <3>1, <3>7 DEF m
  <2>5. CASE n < has
    <3>1. fills(H(h), u) = {}
      BY <1>2, <2>4, <2>5
    <3>2. entry(H(h), u) = blocks[H(h)][u]
      BY <3>1
    <3>3. H(h) = Index(inode, blocks, h) /\ H(n) = Index(inode, blocks, n)
      BY <1>2, <2>1, <2>5 DEF Held
    <3>4. Index(inode, blocks, n) = At(blocks, Index(inode, blocks, h), u)
      BY <1>13, EntryIndex
    <3> QED  BY <2>3, <3>2, <3>3, <3>4 DEF At
  <2>6. CASE n >= has
    <3> DEFINE k == n - has + 1
    <3>1. k \in 1..(needs - has) /\ has + k - 1 = n
      BY SMTT(30), <1>2, <1>13, <2>1, <2>6
    <3>2. k \in fills(H(h), u)
      BY <1>9, <1>13, <2>1, <2>2, <3>1
    <3>3. \A i \in fills(H(h), u) : i = k
      BY SMTT(30), <1>2, <2>1, <2>4
    <3>4. H(n) = v[k]
      BY <1>2, <2>1, <2>6 DEF Held
    <3> HIDE DEF k, H
    <3>5. entry(H(h), u) = v[k]
      <4>1. fills(H(h), u) # {} /\ (CHOOSE i \in fills(H(h), u) : TRUE) = k
        BY <3>2, <3>3
      <4> QED  BY <4>1
    <3> QED  BY <2>3, <3>4, <3>5
  <2> QED  BY <1>2, <2>1, <2>5, <2>6

<1>14. /\ g.inode \in DiskInodes
       /\ g.inode.size = new_size /\ g.inode.type_ = inode.type_
       /\ g.inode.direct = [i \in 0..(INODE_DIRECT_COUNT - 1) |->
                               Filled(<<"direct", i>>, inode.direct[i])]
       /\ g.inode.indirect1 = one /\ g.inode.indirect2 = two
  <2>1. \A i \in 0..(INODE_DIRECT_COUNT - 1) : Filled(<<"direct", i>>, inode.direct[i]) \in Nat
    <3> SUFFICES ASSUME NEW i \in 0..(INODE_DIRECT_COUNT - 1)
                 PROVE  Filled(<<"direct", i>>, inode.direct[i]) \in Nat
      OBVIOUS
    <3>1. Place(i) = <<"direct", i>> /\ i \in Nat
      BY PlaceValues, Sizes
    <3>2. inode.direct[i] \in Nat
      BY DEF DiskInodes
    <3>3. i >= has /\ i < needs => i - has + 1 \in 1..(needs - has)
      BY SMTT(30), <1>2, <3>1
    <3> QED  BY SMTT(30), <1>4, <1>5, <3>1, <3>2, <3>3
  <2>2. one \in Nat
    <3>1. Place(INODE_DIRECT_COUNT) = <<"indirect1">> /\ inode.indirect1 \in Nat
      BY PlaceValues DEF DiskInodes
    <3>2. INODE_DIRECT_COUNT >= has /\ INODE_DIRECT_COUNT < needs =>
             INODE_DIRECT_COUNT - has + 1 \in 1..(needs - has)
      BY SMTT(30), <1>2, Sizes
    <3> QED  BY <1>4, <1>5, <3>1, <3>2, Sizes DEF one
  <2>3. two \in Nat
    <3> DEFINE r == Row0 - 1
    <3>1. Place(r) = <<"indirect2">> /\ inode.indirect2 \in Nat /\ r \in Nat
      BY PlaceValues, Sizes DEF DiskInodes
    <3> HIDE DEF r
    <3>2. r >= has /\ r < needs => r - has + 1 \in 1..(needs - has)
      BY SMTT(30), <1>2, <3>1
    <3> QED  BY <1>4, <1>5, <3>1, <3>2 DEF two
  <2>4. inode.direct \in [0..(INODE_DIRECT_COUNT - 1) -> Nat]
    BY DEF DiskInodes
  <2> DEFINE dir == [i \in DOMAIN inode.direct |-> Filled(<<"direct", i>>, inode.direct[i])]
  <2>5. dir = [i \in 0..(INODE_DIRECT_COUNT - 1) |->
                               Filled(<<"direct", i>>, inode.direct[i])]
        /\ dir \in [0..(INODE_DIRECT_COUNT - 1) -> Nat]
    BY <2>1, <2>4
  <2>6. g.inode = [inode EXCEPT !.size = new_size, !.direct = dir,
                                !.indirect1 = one, !.indirect2 = two]
    BY <1>1
  <2> HIDE DEF dir
  <2> QED  BY <2>2, <2>3, <2>5, <2>6 DEF DiskInodes
<1>15. ASSUME NEW n \in Nat, n < needs, n < INODE_DIRECT_COUNT \/ n = INODE_DIRECT_COUNT \/ n = Row0 - 1
       PROVE  Index(g.inode, g.blocks, n) = H(n)
  <2>1. CASE n < INODE_DIRECT_COUNT
    <3>1. Index(g.inode, g.blocks, n) = g.inode.direct[n]
          /\ Index(inode, blocks, n) = inode.direct[n]
      BY ZenonT(60), <2>1, IndexValues
    <3>2. Place(n) = <<"direct", n>>
      BY <2>1, PlaceValues
    <3>3. n \in 0..(INODE_DIRECT_COUNT - 1)
      BY <2>1, Sizes
    <3>4. g.inode.direct[n] = Filled(<<"direct", n>>, inode.direct[n])
      BY <1>14, <3>3
    <3>5. Filled(<<"direct", n>>, inode.direct[n])
            = IF n >= has /\ n < needs THEN v[n - has + 1] ELSE inode.direct[n]
      BY <1>5, <3>2
    <3> QED  BY <1>2, <1>15, <3>1, <3>4, <3>5 DEF Held
  <2>2. CASE n = INODE_DIRECT_COUNT
    <3>1. Index(g.inode, g.blocks, INODE_DIRECT_COUNT) = g.inode.indirect1
      BY IndexValues
    <3> QED  BY <1>6, <1>14, <1>15, <2>2, <3>1
  <2>3. CASE n = Row0 - 1
    <3>1. Index(g.inode, g.blocks, Row0 - 1) = g.inode.indirect2
      BY IndexValues
    <3> QED  BY <1>7, <1>14, <1>15, <2>3, <3>1
  <2> QED  BY <1>15, <2>1, <2>2, <2>3
<1>16. ASSUME NEW n, NEW h, NEW u, Entry(n, h, u), n < needs, Index(g.inode, g.blocks, h) = H(h)
       PROVE  Index(g.inode, g.blocks, n) = H(n)
  <2>1. u \in 0..(BLOCK_SZ - 1)
    <3>1. CASE h = Row0 - 1 /\ u \in Nat /\ n = Row(u)
      BY <1>16, <3>1, RowsBounded, DataBlocks
    <3> QED  BY <1>16, <3>1 DEF Entry
  <2>2. Index(g.inode, g.blocks, n) = At(g.blocks, Index(g.inode, g.blocks, h), u)
    BY <1>16, EntryIndex
  <2> QED  BY <1>13, <1>16, <2>1, <2>2 DEF At
<1>17. ASSUME NEW n \in Nat, n < needs PROVE Index(g.inode, g.blocks, n) = H(n)
  <2>1. CASE n < INODE_DIRECT_COUNT \/ n = INODE_DIRECT_COUNT \/ n = Row0 - 1
    BY <1>15, <1>17, <2>1
  <2>2. CASE \E h, u \in Nat : Entry(n, h, u)
    <3>1. PICK h, u \in Nat : Entry(n, h, u)
      BY <2>2
    <3>2. h < n /\ h < needs /\ IndexPlace(h)
      <4>1. h < n /\ IndexPlace(h)
        BY <3>1, EntryFacts
      <4> QED  BY <1>2, <1>17, <4>1
    <3>3. Index(g.inode, g.blocks, h) = H(h)
      <4>1. CASE h = INODE_DIRECT_COUNT \/ h = Row0 - 1
        BY <1>15, <3>2, <4>1
      <4>2. CASE \E a \in Nat : h = Row(a)
        <5>1. PICK a \in Nat : h = Row(a)
          BY <4>2
        <5>2. Entry(h, Row0 - 1, a) /\ Row0 - 1 \in Nat
          BY <5>1, Sizes DEF Entry
        <5>3. Row0 - 1 < needs
          <6>1. Row0 - 1 < h
            BY <5>2, EntryFacts
          <6> QED  BY <1>2, <3>2, <5>2, <6>1
        <5>4. Index(g.inode, g.blocks, Row0 - 1) = H(Row0 - 1)
          BY <1>15, <5>2, <5>3
        <5> QED  BY <1>16, <3>2, <5>2, <5>4
      <4> QED  BY <3>2, <4>1, <4>2 DEF IndexPlace
    <3> QED  BY <1>16, <1>17, <3>1, <3>3
  <2> QED  BY <2>1, <2>2, InInodeOrEntry
<1>18. ASSUME NEW b \in DOMAIN blocks,
              \A h \in 0..(needs - 1) : IndexPlace(h) => H(h) # b
       PROVE  g.blocks[b] = blocks[b]
  <2>1. ASSUME NEW u \in 0..(BLOCK_SZ - 1) PROVE entry(b, u) = blocks[b][u]
    <3>1. ASSUME NEW i \in fills(b, u) PROVE FALSE
      <4> DEFINE m == has + i - 1
      <4>1. i \in 1..(needs - has)
        BY <1>9
      <4>2. PICK h \in Nat : Entry(m, h, u) /\ H(h) = b
        BY <1>9
      <4>3. m \in Nat /\ m < needs
        BY SMTT(30), <1>2, <4>1
      <4> HIDE DEF m
      <4>4. h < m /\ IndexPlace(h)
        BY <4>2, EntryFacts
      <4>5. h \in 0..(needs - 1)
        BY <1>2, <4>3, <4>4
      <4> QED  BY <1>18, <4>2, <4>4, <4>5
    <3>2. fills(b, u) = {}
      BY <3>1
    <3> QED  BY <3>2
  <2>2. g.blocks[b] = [u \in 0..(BLOCK_SZ - 1) |-> entry(b, u)]
    <3> HIDE DEF entry
    <3> QED  BY <1>11
  <2>3. blocks[b] = [u \in 0..(BLOCK_SZ - 1) |-> blocks[b][u]]
    BY DEF BlocksTyped
  <2> HIDE DEF entry
  <2> QED  BY <2>1, <2>2, <2>3
<1>19. g.blocks \in [DOMAIN blocks -> [0..(BLOCK_SZ - 1) -> Nat]]
  <2> HIDE DEF entry
  <2> QED  BY <1>11, <1>12
<1>20. \A n \in 0..(needs - 1) : n \in Nat /\ n < needs
  BY <1>2
<1> QED  BY SMTT(30), <1>14, <1>17, <1>18, <1>19, <1>20 DEF g

\* The blocks of entries of the places below T are the same in c and d.
IndexKept(inode, c, d, T) ==
    \A h \in Nat : h < T /\ IndexPlace(h) =>
        d[Index(inode, c, h)] = c[Index(inode, c, h)]

\* The block ids in the places below T depend on the blocks of entries
\* only.
LEMMA IndexSame ==
    ASSUME NEW inode, NEW c, NEW d, NEW T \in Nat, IndexKept(inode, c, d, T),
           NEW n \in Nat, n < T
    PROVE  Index(inode, d, n) = Index(inode, c, n)
<1>1. ASSUME NEW m \in Nat,
             m < INODE_DIRECT_COUNT \/ m = INODE_DIRECT_COUNT \/ m = Row0 - 1
      PROVE  Index(inode, d, m) = Index(inode, c, m)
  <2>1. /\ Index(inode, c, INODE_DIRECT_COUNT) = Index(inode, d, INODE_DIRECT_COUNT)
        /\ Index(inode, c, Row0 - 1) = Index(inode, d, Row0 - 1)
    <3>1. /\ Index(inode, c, INODE_DIRECT_COUNT) = inode.indirect1
          /\ Index(inode, c, Row0 - 1) = inode.indirect2
      BY IndexValues
    <3>2. /\ Index(inode, d, INODE_DIRECT_COUNT) = inode.indirect1
          /\ Index(inode, d, Row0 - 1) = inode.indirect2
      BY IndexValues
    <3> QED  BY <3>1, <3>2
  <2>2. m < INODE_DIRECT_COUNT => Index(inode, d, m) = Index(inode, c, m)
    <3>1. m < INODE_DIRECT_COUNT => Index(inode, d, m) = inode.direct[m]
      BY ZenonT(60), IndexValues
    <3>2. m < INODE_DIRECT_COUNT => Index(inode, c, m) = inode.direct[m]
      BY ZenonT(60), IndexValues
    <3> QED  BY <3>1, <3>2
  <2> QED  BY <1>1, <2>1, <2>2
<1>2. ASSUME NEW m \in Nat, m < T, NEW h, NEW u, Entry(m, h, u),
             Index(inode, d, h) = Index(inode, c, h)
      PROVE  Index(inode, d, m) = Index(inode, c, m)
  <2>1. h \in Nat /\ h < m /\ IndexPlace(h)
    BY <1>2, EntryFacts
  <2>2. Index(inode, d, m) = At(d, Index(inode, d, h), u)
    BY <1>2, EntryIndex
  <2>3. Index(inode, c, m) = At(c, Index(inode, c, h), u)
    BY <1>2, EntryIndex
  <2>4. h < T
    BY <1>2, <2>1
  <2>5. d[Index(inode, c, h)] = c[Index(inode, c, h)]
    BY <2>1, <2>4 DEF IndexKept
  <2> QED  BY <1>2, <2>2, <2>3, <2>5 DEF At
<1>3. CASE \E h, u \in Nat : Entry(n, h, u)
  <2>1. PICK h, u \in Nat : Entry(n, h, u)
    BY <1>3
  <2>2. h < n /\ h < T /\ IndexPlace(h)
    <3>1. h < n /\ IndexPlace(h)
      BY <2>1, EntryFacts
    <3> QED  BY <3>1
  <2>3. Index(inode, d, h) = Index(inode, c, h)
    <3>1. CASE h = INODE_DIRECT_COUNT \/ h = Row0 - 1
      BY <1>1, <3>1
    <3>2. CASE \E a \in Nat : h = Row(a)
      <4>1. PICK a \in Nat : h = Row(a)
        BY <3>2
      <4> DEFINE r == Row0 - 1
      <4>2. Entry(h, r, a) /\ r \in Nat /\ r = Row0 - 1
        BY <4>1, Sizes DEF Entry
      <4> HIDE DEF r
      <4>3. Index(inode, d, r) = Index(inode, c, r)
        BY <1>1, <4>2
      <4> QED  BY <1>2, <2>2, <4>2, <4>3
    <3> QED  BY <2>2, <3>1, <3>2 DEF IndexPlace
  <2> QED  BY <1>2, <2>1, <2>3
<1> QED  BY <1>1, <1>3, InInodeOrEntry

-----------------------------------------------------------------------------
(* The disk                                                                *)

\* The size of inode i.
SizeOf(f, i) == f.inodes[i].size
\* Number of places of inode i, block in its place n, and its unit p.
PlacesIn(f, i) == PlacesOf(data_blocks(SizeOf(f, i)))
BlockIn(f, i, n) == Index(f.inodes[i], f.blocks, n)
UnitIn(f, i, p) == Unit(f.inodes[i], f.blocks, p)

\* The numbers of the inodes, and the ids of the blocks modelled.
Inodes(e) == 0..(maximum(e.inode_bitmap.blocks) - 1)
BlockIds(e, s) == {0} \cup e.data_area_start_block..(s.total_blocks - 1)

\* The type of a disk with layout e and superblock s.
DiskTyped(e, s, f) ==
    /\ e.data_area_start_block \in Nat \ {0}
    /\ maximum(e.data_bitmap.blocks) \in Nat
    /\ maximum(e.inode_bitmap.blocks) \in Nat
    /\ s.total_blocks \in Nat
    /\ f \in [inode_bitmap : SUBSET Inodes(e),
              data_bitmap : SUBSET (0..(maximum(e.data_bitmap.blocks) - 1)),
              inodes : [Inodes(e) -> DiskInodes],
              blocks : [BlockIds(e, s) -> [0..(BLOCK_SZ - 1) -> Nat]]]

\* No file is longer than its places reach.
SizesBounded(f) ==
    \A i \in f.inode_bitmap : data_blocks(SizeOf(f, i)) <= INDIRECT2_BOUND

\* The blocks whose bit is set.
Marked(e, f) == {b + e.data_area_start_block : b \in f.data_bitmap}

\* Place n of inode i is in use.
Holds(f, i, n) == i \in f.inode_bitmap /\ n \in Nat /\ n < PlacesIn(f, i)

\* The blocks in the places of the files are marked, no two are the same, and
\* no other block is marked.
Ownership(e, f) ==
    /\ \A i, n : Holds(f, i, n) => BlockIn(f, i, n) \in Marked(e, f)
    /\ \A i, m, j, n : /\ Holds(f, i, m) /\ Holds(f, j, n)
                       /\ BlockIn(f, i, m) = BlockIn(f, j, n)
                       => i = j /\ m = n
    /\ \A b \in Marked(e, f) : \E i, n : Holds(f, i, n) /\ BlockIn(f, i, n) = b

\* A block that is not marked is zero.
FreeZero(e, f) ==
    \A b \in DOMAIN f.blocks \ {0} :
        b \notin Marked(e, f) => f.blocks[b] = ZeroBlock

\* Inode i has zeros between its end and the end of its last block.
TailZero(f, i) ==
    \A p \in Nat : SizeOf(f, i) <= p /\ p < data_blocks(SizeOf(f, i)) * BLOCK_SZ
                   => UnitIn(f, i, p) = 0

\* The invariant of the disk, without the directory.
Core(e, s, f) ==
    /\ DiskTyped(e, s, f)
    /\ SizesBounded(f)
    /\ Ownership(e, f)
    /\ Marked(e, f) \subseteq DOMAIN f.blocks
    /\ FreeZero(e, f)
    /\ \A i \in f.inode_bitmap : TailZero(f, i)
    /\ f.blocks[0] = SuperBlockUnits

\* Inode j and all its blocks are the same in f and h.
Kept(f, h, j) ==
    /\ h.inodes[j] = f.inodes[j]
    /\ \A n \in Nat : n < PlacesIn(f, j) =>
          h.blocks[BlockIn(f, j, n)] = f.blocks[BlockIn(f, j, n)]

\* A unit of a file is in one of its places.
LEMMA DataInPlaces ==
    ASSUME NEW size \in Nat, NEW p \in Nat, p < data_blocks(size) * BLOCK_SZ
    PROVE  /\ p \div BLOCK_SZ \in Nat /\ p \div BLOCK_SZ < data_blocks(size)
           /\ DataPlace(p \div BLOCK_SZ) \in Nat
           /\ DataPlace(p \div BLOCK_SZ) < PlacesOf(data_blocks(size))
<1> DEFINE d == p \div BLOCK_SZ
<1>1. d \in Nat /\ d * BLOCK_SZ \in Nat /\ d * BLOCK_SZ <= p
  BY BlockOf, Sizes
<1>2. data_blocks(size) \in Nat
  BY DataBlocks
<1> HIDE DEF d
<1>3. d < data_blocks(size)
  <2>1. data_blocks(size) <= d => data_blocks(size) * BLOCK_SZ <= d * BLOCK_SZ
    BY <1>1, <1>2, Times, Sizes
  <2> QED  BY <1>1, <1>2, <2>1, DataBlocks
<1>4. DataPlace(d) \in Nat /\ DataPlace(d) < PlacesOf(data_blocks(size))
  BY <1>1, <1>2, <1>3, DataPlaceNat, PlacesOfFacts
<1> QED  BY <1>1, <1>3, <1>4 DEF d

\* A file whose inode and blocks are the same reads the same.
LEMMA KeptFacts ==
    ASSUME NEW f, NEW h, NEW j, Kept(f, h, j), SizeOf(f, j) \in Nat
    PROVE  /\ SizeOf(h, j) = SizeOf(f, j)
           /\ PlacesIn(h, j) = PlacesIn(f, j)
           /\ \A n \in Nat : n < PlacesIn(f, j) => BlockIn(h, j, n) = BlockIn(f, j, n)
           /\ \A p \in Nat : p < data_blocks(SizeOf(f, j)) * BLOCK_SZ =>
                 UnitIn(h, j, p) = UnitIn(f, j, p)
<1>1. h.inodes[j] = f.inodes[j]
  BY DEF Kept
<1>2. SizeOf(h, j) = SizeOf(f, j) /\ PlacesIn(h, j) = PlacesIn(f, j)
  BY <1>1 DEF SizeOf, PlacesIn
<1>3. PlacesIn(f, j) \in Nat
  BY DataBlocks, PlacesOfFacts DEF PlacesIn
<1>4. IndexKept(f.inodes[j], f.blocks, h.blocks, PlacesIn(f, j))
  BY DEF Kept, IndexKept, BlockIn
<1>5. ASSUME NEW n \in Nat, n < PlacesIn(f, j)
      PROVE  BlockIn(h, j, n) = BlockIn(f, j, n)
  BY <1>1, <1>3, <1>4, <1>5, IndexSame DEF BlockIn
<1>6. ASSUME NEW p \in Nat, p < data_blocks(SizeOf(f, j)) * BLOCK_SZ
      PROVE  UnitIn(h, j, p) = UnitIn(f, j, p)
  <2> DEFINE n == DataPlace(p \div BLOCK_SZ)
  <2>1. n \in Nat /\ n < PlacesIn(f, j)
    BY <1>6, DataInPlaces DEF PlacesIn
  <2>2. /\ UnitIn(h, j, p) = h.blocks[BlockIn(h, j, n)][p % BLOCK_SZ]
        /\ UnitIn(f, j, p) = f.blocks[BlockIn(f, j, n)][p % BLOCK_SZ]
    BY DEF UnitIn, Unit, BlockIn
  <2> HIDE DEF n
  <2>3. h.blocks[BlockIn(f, j, n)] = f.blocks[BlockIn(f, j, n)]
    BY <2>1 DEF Kept
  <2> QED  BY <1>5, <2>1, <2>2, <2>3
<1> QED  BY <1>2, <1>5, <1>6

\* Block b is in a place of inode i.
OwnedBy(f, i, b) == \E n : Holds(f, i, n) /\ BlockIn(f, i, n) = b

\* Every other inode is the same in f and h.
OthersKept(f, h, i) ==
    \A j \in f.inode_bitmap \ {i} : Kept(f, h, j) /\ SizeOf(f, j) \in Nat

\* Inode i has blocks of its own in h, which it had or which were free, and
\* they and those of the others are marked.
Handed(e, f, h, i) ==
    /\ h.inode_bitmap = f.inode_bitmap \cup {i}
    /\ \A m, n : Holds(h, i, m) /\ Holds(h, i, n) /\ BlockIn(h, i, m) = BlockIn(h, i, n)
                 => m = n
    /\ \A b : OwnedBy(h, i, b) => OwnedBy(f, i, b) \/ b \notin Marked(e, f)
    /\ \A b : b \in Marked(e, h) <=>
                 OwnedBy(h, i, b) \/ (b \in Marked(e, f) /\ ~OwnedBy(f, i, b))

\* The other files hold the same blocks.
LEMMA OthersHold ==
    ASSUME NEW f, NEW h, NEW i, OthersKept(f, h, i),
           h.inode_bitmap = f.inode_bitmap \cup {i},
           NEW j, j # i, NEW n
    PROVE  /\ Holds(h, j, n) <=> Holds(f, j, n)
           /\ Holds(f, j, n) => BlockIn(h, j, n) = BlockIn(f, j, n)
<1>1. CASE j \in f.inode_bitmap
  <2>1. Kept(f, h, j) /\ SizeOf(f, j) \in Nat
    BY <1>1 DEF OthersKept
  <2>2. /\ PlacesIn(h, j) = PlacesIn(f, j)
        /\ \A k \in Nat : k < PlacesIn(f, j) => BlockIn(h, j, k) = BlockIn(f, j, k)
    BY <2>1, KeptFacts
  <2> QED  BY <1>1, <2>2 DEF Holds
<1>2. CASE j \notin f.inode_bitmap
  BY <1>2 DEF Holds
<1> QED  BY <1>1, <1>2

\* Ownership is kept when blocks are handed to, or back by, one inode.
LEMMA OwnStep ==
    ASSUME NEW e, NEW f, NEW h, NEW i, Ownership(e, f), OthersKept(f, h, i),
           Handed(e, f, h, i)
    PROVE  Ownership(e, h)
<1>1. \A j, n : j # i =>
        /\ Holds(h, j, n) <=> Holds(f, j, n)
        /\ Holds(f, j, n) => BlockIn(h, j, n) = BlockIn(f, j, n)
  <2>1. h.inode_bitmap = f.inode_bitmap \cup {i}
    BY DEF Handed
  <2> QED  BY <2>1, OthersHold
<1>2. ASSUME NEW j, NEW n, Holds(h, j, n)
      PROVE  BlockIn(h, j, n) \in Marked(e, h)
  <2>1. CASE j = i
    <3>1. OwnedBy(h, i, BlockIn(h, i, n))
      BY <1>2, <2>1 DEF OwnedBy
    <3> QED  BY <2>1, <3>1 DEF Handed
  <2>2. CASE j # i
    <3>1. Holds(f, j, n) /\ BlockIn(h, j, n) = BlockIn(f, j, n)
      BY <1>1, <1>2, <2>2
    <3>2. BlockIn(f, j, n) \in Marked(e, f)
      BY <3>1 DEF Ownership
    <3>3. ~OwnedBy(f, i, BlockIn(f, j, n))
      BY <2>2, <3>1 DEF Ownership, OwnedBy
    <3> QED  BY <3>1, <3>2, <3>3 DEF Handed
  <2> QED  BY <2>1, <2>2
<1>3. ASSUME NEW j, NEW n, NEW m, j # i, Holds(h, j, n), Holds(h, i, m)
      PROVE  BlockIn(h, j, n) # BlockIn(h, i, m)
  <2>1. Holds(f, j, n) /\ BlockIn(h, j, n) = BlockIn(f, j, n)
    BY <1>1, <1>3
  <2>2. BlockIn(f, j, n) \in Marked(e, f)
    BY <2>1 DEF Ownership
  <2>3. ~OwnedBy(f, i, BlockIn(f, j, n))
    BY <1>3, <2>1 DEF Ownership, OwnedBy
  <2>4. OwnedBy(h, i, BlockIn(h, i, m))
    BY <1>3 DEF OwnedBy
  <2> QED  BY <2>1, <2>2, <2>3, <2>4 DEF Handed
<1>4. ASSUME NEW j, NEW m, NEW k, NEW n, Holds(h, j, m), Holds(h, k, n),
             BlockIn(h, j, m) = BlockIn(h, k, n)
      PROVE  j = k /\ m = n
  <2>1. CASE j = i /\ k = i
    BY <1>4, <2>1 DEF Handed
  <2>2. CASE j = i /\ k # i
    BY <1>3, <1>4, <2>2
  <2>3. CASE j # i /\ k = i
    BY <1>3, <1>4, <2>3
  <2>4. CASE j # i /\ k # i
    <3>1. /\ Holds(f, j, m) /\ Holds(f, k, n)
          /\ BlockIn(f, j, m) = BlockIn(f, k, n)
      BY <1>1, <1>4, <2>4
    <3> QED  BY <3>1 DEF Ownership
  <2> QED  BY <2>1, <2>2, <2>3, <2>4
<1>5. ASSUME NEW b \in Marked(e, h)
      PROVE  \E j, n : Holds(h, j, n) /\ BlockIn(h, j, n) = b
  <2>1. CASE OwnedBy(h, i, b)
    BY <2>1 DEF OwnedBy
  <2>2. CASE b \in Marked(e, f) /\ ~OwnedBy(f, i, b)
    <3>1. PICK j, n : Holds(f, j, n) /\ BlockIn(f, j, n) = b
      BY <2>2 DEF Ownership
    <3>2. j # i
      BY <2>2, <3>1 DEF OwnedBy
    <3> QED  BY <1>1, <3>1, <3>2
  <2> QED  BY <2>1, <2>2 DEF Handed
<1> QED  BY <1>2, <1>4, <1>5 DEF Ownership

\* What the type of a disk says of its parts.
LEMMA DiskTypes ==
    ASSUME NEW e, NEW s, NEW f, DiskTyped(e, s, f)
    PROVE  /\ e.data_area_start_block \in Nat \ {0}
           /\ maximum(e.data_bitmap.blocks) \in Nat
           /\ DOMAIN f.inodes = Inodes(e)
           /\ f.inode_bitmap \subseteq Inodes(e)
           /\ f.data_bitmap \subseteq 0..(maximum(e.data_bitmap.blocks) - 1)
           /\ f.data_bitmap \subseteq Nat
           /\ \A i \in Inodes(e) :
                 f.inodes[i] \in DiskInodes /\ SizeOf(f, i) \in Nat /\ PlacesIn(f, i) \in Nat
           /\ DOMAIN f.blocks = BlockIds(e, s)
           /\ 0 \in DOMAIN f.blocks
           /\ \A b \in DOMAIN f.blocks : b \in Nat /\ (b # 0 => b >= e.data_area_start_block)
           /\ BlocksTyped(f.blocks)
<1>1. ASSUME NEW i \in Inodes(e)
      PROVE  f.inodes[i] \in DiskInodes /\ SizeOf(f, i) \in Nat /\ PlacesIn(f, i) \in Nat
  <2>1. f.inodes[i] \in DiskInodes
    BY DEF DiskTyped
  <2>2. SizeOf(f, i) \in Nat
    BY <2>1 DEF DiskInodes, SizeOf
  <2>3. PlacesIn(f, i) \in Nat
    BY <2>2, DataBlocks, PlacesOfFacts DEF PlacesIn
  <2> QED  BY <2>1, <2>2, <2>3
<1>2. DOMAIN f.blocks = BlockIds(e, s) /\ BlocksTyped(f.blocks)
  BY DEF DiskTyped, BlocksTyped
<1>3. \A b \in BlockIds(e, s) : b \in Nat /\ (b # 0 => b >= e.data_area_start_block)
  BY DEF DiskTyped, BlockIds
<1>4. 0 \in BlockIds(e, s)
  BY DEF BlockIds
<1>5. /\ e.data_area_start_block \in Nat \ {0}
      /\ maximum(e.data_bitmap.blocks) \in Nat
      /\ DOMAIN f.inodes = Inodes(e)
      /\ f.inode_bitmap \subseteq Inodes(e)
      /\ f.data_bitmap \subseteq 0..(maximum(e.data_bitmap.blocks) - 1)
  BY DEF DiskTyped
<1>6. f.data_bitmap \subseteq Nat
  BY <1>5
<1> QED  BY <1>1, <1>2, <1>3, <1>4, <1>5, <1>6

\* A block is marked when its bit is set.
LEMMA MarkedBit ==
    ASSUME NEW e, NEW s, NEW f, DiskTyped(e, s, f), NEW b \in Nat
    PROVE  b \in Marked(e, f) <=> b - e.data_area_start_block \in f.data_bitmap
<1> DEFINE st == e.data_area_start_block
<1>1. st \in Nat /\ \A c \in f.data_bitmap : c \in Nat
  BY DiskTypes
<1>2. b \in Marked(e, f) <=> \E c \in f.data_bitmap : b = c + st
  BY DEF Marked
<1> HIDE DEF st
<1>3. \A c \in f.data_bitmap : b = c + st <=> c = b - st
  BY <1>1
<1> QED  BY <1>2, <1>3 DEF st

\* Inode i of g has the places for new_size: those of f hold what they held,
\* the others blocks that were free, and only blocks of entries are changed.
Grown(e, f, g, i, new_size) ==
    LET has == PlacesIn(f, i)
        needs == PlacesOf(data_blocks(new_size))
    IN  /\ g.inode_bitmap = f.inode_bitmap
        /\ \A j \in DOMAIN f.inodes \ {i} : g.inodes[j] = f.inodes[j]
        /\ SizeOf(g, i) = new_size
        /\ \A n \in Nat : n < has => BlockIn(g, i, n) = BlockIn(f, i, n)
        /\ \A n \in Nat : has <= n /\ n < needs =>
              BlockIn(g, i, n) \in DOMAIN f.blocks \ Marked(e, f) /\ BlockIn(g, i, n) # 0
        /\ \A m, n \in Nat : m < needs /\ n < needs /\ BlockIn(g, i, m) = BlockIn(g, i, n)
                             => m = n
        /\ \A b : b \in Marked(e, g) <=>
              \/ b \in Marked(e, f)
              \/ \E n \in Nat : has <= n /\ n < needs /\ BlockIn(g, i, n) = b
        /\ \A b \in DOMAIN f.blocks :
              (\A h \in Nat : h < needs /\ IndexPlace(h) => BlockIn(g, i, h) # b)
              => g.blocks[b] = f.blocks[b]

\* The blocks that Grow takes fit the places that are missing.
LEMMA GrowTakes ==
    ASSUME NEW f, Core(efs, super, f), NEW i \in f.inode_bitmap, NEW new_size \in Nat,
           SizeOf(f, i) <= new_size, CanGrow(f, i, new_size),
           NEW has, has = PlacesIn(f, i),
           NEW needs, needs = PlacesOf(data_blocks(new_size)),
           NEW v, v = alloc_data(f, blocks_num_needed(f.inodes[i], new_size))
    PROVE  /\ has \in Nat /\ needs \in Nat /\ has <= needs
           /\ v \in Seq(Nat) /\ Len(v) = needs - has
           /\ \A k \in 1..(needs - has) :
                 /\ v[k] \in DOMAIN f.blocks \ Marked(efs, f) /\ v[k] # 0
                 /\ v[k] - efs.data_area_start_block \in 0..(maximum(efs.data_bitmap.blocks) - 1)
           /\ \A j, k \in 1..(needs - has) : v[j] = v[k] => j = k
           /\ data_blocks(new_size) <= INDIRECT2_BOUND
<1> DEFINE st == efs.data_area_start_block
           n == blocks_num_needed(f.inodes[i], new_size)
<1>0. DiskTyped(efs, super, f)
  BY DEF Core
<1>1. SizeOf(f, i) \in Nat /\ has \in Nat /\ i \in Inodes(efs)
  BY <1>0, DiskTypes
<1>2. needs \in Nat /\ has <= needs
  <2>1. data_blocks(SizeOf(f, i)) \in Nat /\ data_blocks(new_size) \in Nat
        /\ data_blocks(SizeOf(f, i)) <= data_blocks(new_size)
    BY <1>1, DataBlocks, DataBlocksUp
  <2> QED  BY <2>1, PlacesOfFacts DEF PlacesIn
<1>3. n = needs - has
  BY <1>1, TotalBlocksPlaces DEF blocks_num_needed, SizeOf, PlacesIn
<1>4. n \in Nat
  BY <1>1, <1>2, <1>3
<1>5. /\ Len(alloc_data(f, n)) = n
      /\ \A b \in ToSet(alloc_data(f, n)) : b \in DOMAIN f.blocks
      /\ data_blocks(new_size) <= INDIRECT2_BOUND
  BY <1>1 DEF CanGrow, SizeOf
<1>6. st \in Nat \ {0} /\ maximum(efs.data_bitmap.blocks) \in Nat
  BY <1>0, DiskTypes
<1> HIDE DEF n
<1>7. v = alloc_data(f, n)
  BY DEF n
<1>8. /\ alloc_data(f, n) \in Seq(Nat)
      /\ \A k \in 1..Len(alloc_data(f, n)) :
            /\ alloc_data(f, n)[k] - efs.data_area_start_block \in FreeBits(efs, f)
            /\ alloc_data(f, n)[k] >= efs.data_area_start_block
      /\ \A j, k \in 1..Len(alloc_data(f, n)) :
            alloc_data(f, n)[j] = alloc_data(f, n)[k] => j = k
  BY <1>4, <1>6, AllocData
<1>9. /\ v \in Seq(Nat) /\ Len(v) = n
      /\ \A k \in 1..n : v[k] - st \in FreeBits(efs, f) /\ v[k] >= st
      /\ \A j, k \in 1..n : v[j] = v[k] => j = k
      /\ \A b \in ToSet(v) : b \in DOMAIN f.blocks
  BY <1>5, <1>7, <1>8
<1>10. ASSUME NEW k \in 1..n
       PROVE  /\ v[k] \in DOMAIN f.blocks \ Marked(efs, f) /\ v[k] # 0
              /\ v[k] - st \in 0..(maximum(efs.data_bitmap.blocks) - 1)
  <2>1. v[k] - st \in FreeBits(efs, f) /\ v[k] >= st
    BY <1>9
  <2>2. DOMAIN v = 1..n
    BY <1>9, LenProperties
  <2>3. v[k] \in Nat
    BY <1>9, <2>2, ElementOfSeq
  <2>4. v[k] \in DOMAIN f.blocks
    BY <1>9, <2>2 DEF ToSet
  <2>5. v[k] \notin Marked(efs, f)
    BY <1>0, <2>1, <2>3, MarkedBit DEF FreeBits
  <2>6. v[k] # 0
    BY <1>6, <2>1, <2>3
  <2> QED  BY <2>1, <2>4, <2>5, <2>6 DEF FreeBits
<1> QED  BY <1>1, <1>2, <1>3, <1>5, <1>9, <1>10

\* Old and new blocks of a file that grows are all different and on the
\* device.
LEMMA GrowHeld ==
    ASSUME NEW f, Core(efs, super, f), NEW i \in f.inode_bitmap, NEW new_size \in Nat,
           SizeOf(f, i) <= new_size, CanGrow(f, i, new_size),
           NEW has, has = PlacesIn(f, i),
           NEW needs, needs = PlacesOf(data_blocks(new_size)),
           NEW v, v = alloc_data(f, blocks_num_needed(f.inodes[i], new_size))
    PROVE  /\ HeldApart(f.inodes[i], f.blocks, has, v, needs)
           /\ HeldIn(f.inodes[i], f.blocks, has, v, needs, DOMAIN f.blocks)
<1>0. /\ has \in Nat /\ needs \in Nat /\ has <= needs
      /\ v \in Seq(Nat) /\ Len(v) = needs - has
      /\ \A k \in 1..(needs - has) :
            /\ v[k] \in DOMAIN f.blocks \ Marked(efs, f) /\ v[k] # 0
            /\ v[k] - efs.data_area_start_block \in 0..(maximum(efs.data_bitmap.blocks) - 1)
      /\ \A j, k \in 1..(needs - has) : v[j] = v[k] => j = k
      /\ data_blocks(new_size) <= INDIRECT2_BOUND
  BY SMTT(30), GrowTakes
<1>1. /\ has \in Nat /\ needs \in Nat /\ has <= needs
      /\ \A k \in 1..(needs - has) : v[k] \in DOMAIN f.blocks \ Marked(efs, f)
      /\ \A j, k \in 1..(needs - has) : v[j] = v[k] => j = k
  BY <1>0
<1> DEFINE H(n) == Held(f.inodes[i], f.blocks, has, v, n)
<1>2. ASSUME NEW n \in 0..(needs - 1), n < has
      PROVE  H(n) = BlockIn(f, i, n) /\ Holds(f, i, n) /\ H(n) \in Marked(efs, f)
  <2>1. H(n) = BlockIn(f, i, n)
    BY <1>2 DEF Held, BlockIn
  <2>2. Holds(f, i, n)
    BY <1>1, <1>2 DEF Holds
  <2>3. BlockIn(f, i, n) \in Marked(efs, f)
    BY <2>2 DEF Core, Ownership
  <2> QED  BY <2>1, <2>2, <2>3
<1>3. ASSUME NEW n \in 0..(needs - 1), ~(n < has)
      PROVE  /\ n - has + 1 \in 1..(needs - has) /\ H(n) = v[n - has + 1]
             /\ H(n) \in DOMAIN f.blocks \ Marked(efs, f)
  <2> DEFINE k == n - has + 1
  <2>1. k \in 1..(needs - has)
    BY <1>1, <1>3
  <2>2. H(n) = v[k]
    BY <1>3 DEF Held
  <2> HIDE DEF k, H
  <2>3. H(n) \in DOMAIN f.blocks \ Marked(efs, f)
    BY <1>1, <2>1, <2>2
  <2> QED  BY <2>1, <2>2, <2>3 DEF k
<1> HIDE DEF H
<1>4. Marked(efs, f) \subseteq DOMAIN f.blocks
  BY DEF Core
<1>5. \A n \in 0..(needs - 1) : H(n) \in DOMAIN f.blocks
  BY <1>2, <1>3, <1>4
<1>6. ASSUME NEW m \in 0..(needs - 1), NEW n \in 0..(needs - 1), H(m) = H(n)
      PROVE  m = n
  <2>1. CASE m < has /\ n < has
    <3>1. Holds(f, i, m) /\ Holds(f, i, n) /\ BlockIn(f, i, m) = BlockIn(f, i, n)
      BY <1>2, <1>6, <2>1
    <3> QED  BY <3>1 DEF Core, Ownership
  <2>2. CASE ~(m < has) /\ ~(n < has)
    <3> DEFINE j == m - has + 1
               k == n - has + 1
    <3>1. j \in 1..(needs - has) /\ k \in 1..(needs - has) /\ v[j] = v[k]
      BY <1>3, <1>6, <2>2
    <3> HIDE DEF j, k
    <3>2. j = k
      BY <1>1, <3>1
    <3> QED  BY <1>1, <3>2 DEF j, k
  <2>3. CASE m < has /\ ~(n < has)
    BY <1>2, <1>3, <1>6, <2>3
  <2>4. CASE ~(m < has) /\ n < has
    BY <1>2, <1>3, <1>6, <2>4
  <2> QED  BY <2>1, <2>2, <2>3, <2>4
<1> QED  BY <1>5, <1>6 DEF HeldApart, HeldIn, H

\* Inode::increase_size gives the inode the places for its new size.
LEMMA GrowResult ==
    ASSUME NEW f, Core(efs, super, f), NEW i \in f.inode_bitmap, NEW new_size \in Nat,
           SizeOf(f, i) <= new_size, CanGrow(f, i, new_size)
    PROVE  /\ DiskTyped(efs, super, Grow(f, i, new_size))
           /\ Grown(efs, f, Grow(f, i, new_size), i, new_size)
           /\ data_blocks(new_size) <= INDIRECT2_BOUND
<1> DEFINE inode == f.inodes[i]
           v == alloc_data(f, blocks_num_needed(inode, new_size))
           w == increase_size(inode, f.blocks, new_size, v)
           g == Grow(f, i, new_size)
           has == PlacesIn(f, i)
           needs == PlacesOf(data_blocks(new_size))
           st == efs.data_area_start_block
           H(n) == Held(inode, f.blocks, has, v, n)
           bits == {b - efs.data_area_start_block : b \in ToSet(v)}
<1>0. DiskTyped(efs, super, f)
  BY DEF Core
<1>1. /\ SizeOf(f, i) \in Nat /\ has \in Nat /\ i \in Inodes(efs)
      /\ inode \in DiskInodes /\ BlocksTyped(f.blocks) /\ st \in Nat
      /\ DOMAIN f.inodes = Inodes(efs) /\ DOMAIN f.blocks = BlockIds(efs, super)
  BY <1>0, DiskTypes
<1>2. ~(new_size < inode.size) /\ inode.size <= new_size /\ has = PlacesOf(data_blocks(inode.size))
  BY <1>1 DEF SizeOf, PlacesIn
<1>3. g = [f EXCEPT !.data_bitmap = @ \cup bits, !.inodes[i] = w.inode, !.blocks = w.blocks]
  BY <1>2 DEF Grow
<1>4. /\ has \in Nat /\ needs \in Nat /\ has <= needs
      /\ v \in Seq(Nat) /\ Len(v) = needs - has
      /\ \A k \in 1..(needs - has) :
            /\ v[k] \in DOMAIN f.blocks \ Marked(efs, f) /\ v[k] # 0
            /\ v[k] - st \in 0..(maximum(efs.data_bitmap.blocks) - 1)
      /\ data_blocks(new_size) <= INDIRECT2_BOUND
  BY GrowTakes
<1>5. /\ HeldApart(inode, f.blocks, has, v, needs)
      /\ HeldIn(inode, f.blocks, has, v, needs, DOMAIN f.blocks)
  BY GrowHeld
<1>6. /\ w.inode \in DiskInodes
      /\ w.inode.size = new_size
      /\ w.blocks \in [DOMAIN f.blocks -> [0..(BLOCK_SZ - 1) -> Nat]]
      /\ \A n \in 0..(needs - 1) : Index(w.inode, w.blocks, n) = H(n)
      /\ \A b \in DOMAIN f.blocks :
            (\A h \in 0..(needs - 1) : IndexPlace(h) => H(h) # b)
            => w.blocks[b] = f.blocks[b]
  <2> HIDE DEF v, inode, needs, has
  <2>1. needs = PlacesOf(data_blocks(new_size))
    BY DEF needs
  <2> QED  BY SMTT(30), <1>1, <1>2, <1>4, <1>5, <2>1, IncreaseSize
<1> HIDE DEF w
<1>7. /\ g.inode_bitmap = f.inode_bitmap
      /\ g.data_bitmap = f.data_bitmap \cup bits
      /\ g.inodes = [f.inodes EXCEPT ![i] = w.inode]
      /\ g.blocks = w.blocks
  BY <1>0, <1>3 DEF DiskTyped
<1> HIDE DEF v, has, needs, inode
<1>8. DOMAIN v = 1..(needs - has)
  BY <1>4, LenProperties
<1>9. \A b : b \in bits <=> \E k \in 1..(needs - has) : b = v[k] - st
  BY <1>8 DEF ToSet
<1> HIDE DEF bits
<1>10. DiskTyped(efs, super, g)
  <2>1. bits \subseteq 0..(maximum(efs.data_bitmap.blocks) - 1)
    BY <1>4, <1>9
  <2>2. g.blocks \in [BlockIds(efs, super) -> [0..(BLOCK_SZ - 1) -> Nat]]
    BY <1>1, <1>6, <1>7
  <2>3. g.inodes \in [Inodes(efs) -> DiskInodes]
    BY <1>0, <1>6, <1>7 DEF DiskTyped
  <2>4. g = [inode_bitmap |-> g.inode_bitmap, data_bitmap |-> g.data_bitmap,
             inodes |-> g.inodes, blocks |-> g.blocks]
    BY <1>0, <1>3 DEF DiskTyped
  <2>5. /\ g.inode_bitmap \in SUBSET Inodes(efs)
        /\ g.data_bitmap \in SUBSET (0..(maximum(efs.data_bitmap.blocks) - 1))
    BY <1>0, <1>7, <2>1 DEF DiskTyped
  <2> HIDE DEF g
  <2> QED  BY <1>0, <2>2, <2>3, <2>4, <2>5 DEF DiskTyped
<1>11. /\ SizeOf(g, i) = new_size
       /\ \A j \in DOMAIN f.inodes \ {i} : g.inodes[j] = f.inodes[j]
       /\ g.inodes[i] = w.inode
  BY <1>0, <1>1, <1>6, <1>7 DEF SizeOf, DiskTyped
<1>12. \A n \in Nat : n < needs => BlockIn(g, i, n) = H(n)
  <2>1. \A n \in Nat : n < needs => n \in 0..(needs - 1)
    BY <1>4
  <2> QED  BY <1>6, <1>7, <1>11, <2>1 DEF BlockIn
<1>13. \A n \in Nat : n < has => BlockIn(g, i, n) = BlockIn(f, i, n)
  BY <1>4, <1>12 DEF Held, BlockIn, inode
<1> HIDE DEF g
<1>14. ASSUME NEW n \in Nat, has <= n, n < needs
       PROVE  n - has + 1 \in 1..(needs - has) /\ BlockIn(g, i, n) = v[n - has + 1]
  <2>1. n - has + 1 \in 1..(needs - has) /\ ~(n < has)
    BY <1>4, <1>14
  <2> QED  BY <1>12, <1>14, <2>1 DEF Held
<1>15. ASSUME NEW k \in 1..(needs - has)
       PROVE  \E n \in Nat : has <= n /\ n < needs /\ BlockIn(g, i, n) = v[k]
  <2> DEFINE n == k + has - 1
  <2>1. n \in Nat /\ has <= n /\ n < needs /\ n - has + 1 = k
    <3>1. has \in Nat /\ needs \in Nat /\ k \in Int /\ 1 <= k /\ k <= needs - has
      BY <1>4
    <3> QED  BY <3>1
  <2> HIDE DEF n
  <2>2. BlockIn(g, i, n) = v[k]
    BY <1>14, <2>1
  <2> QED  BY <2>1, <2>2
<1>16. \A n \in Nat : has <= n /\ n < needs =>
              BlockIn(g, i, n) \in DOMAIN f.blocks \ Marked(efs, f) /\ BlockIn(g, i, n) # 0
  <2> SUFFICES ASSUME NEW n \in Nat, has <= n, n < needs
               PROVE  BlockIn(g, i, n) \in DOMAIN f.blocks \ Marked(efs, f) /\ BlockIn(g, i, n) # 0
    OBVIOUS
  <2> DEFINE k == n - has + 1
  <2>1. k \in 1..(needs - has) /\ BlockIn(g, i, n) = v[k]
    BY <1>14
  <2> HIDE DEF k
  <2> QED  BY <1>4, <2>1
<1>17. \A m, n \in Nat : m < needs /\ n < needs /\ BlockIn(g, i, m) = BlockIn(g, i, n)
                             => m = n
  <2> SUFFICES ASSUME NEW m \in Nat, NEW n \in Nat, m < needs, n < needs,
                      BlockIn(g, i, m) = BlockIn(g, i, n)
               PROVE  m = n
    OBVIOUS
  <2>1. m \in 0..(needs - 1) /\ n \in 0..(needs - 1) /\ H(m) = H(n)
    BY <1>4, <1>12
  <2> QED  BY <1>5, <2>1 DEF HeldApart
<1>18. ASSUME NEW b
       PROVE  b \in Marked(efs, g) <=>
                \/ b \in Marked(efs, f)
                \/ \E n \in Nat : has <= n /\ n < needs /\ BlockIn(g, i, n) = b
  <2>1. b \in Marked(efs, g) <=>
          \/ b \in Marked(efs, f)
          \/ \E c \in bits : b = c + st
    BY <1>7 DEF Marked
  <2>2. \A k \in 1..(needs - has) : v[k] \in Nat /\ (v[k] - st) + st = v[k]
    <3>1. \A k \in 1..(needs - has) : v[k] \in Nat
      BY <1>4, <1>8, ElementOfSeq
    <3> QED  BY <1>1, <3>1
  <2>3. (\E c \in bits : b = c + st) <=> \E k \in 1..(needs - has) : b = v[k]
    BY <1>9, <2>2
  <2>4. (\E k \in 1..(needs - has) : b = v[k])
           => \E n \in Nat : has <= n /\ n < needs /\ BlockIn(g, i, n) = b
    BY <1>15
  <2>5. (\E n \in Nat : has <= n /\ n < needs /\ BlockIn(g, i, n) = b)
           => \E k \in 1..(needs - has) : b = v[k]
    BY <1>14
  <2> QED  BY <2>1, <2>3, <2>4, <2>5
<1>19. ASSUME NEW b \in DOMAIN f.blocks,
              \A h \in Nat : h < needs /\ IndexPlace(h) => BlockIn(g, i, h) # b
       PROVE  g.blocks[b] = f.blocks[b]
  <2>1. \A h \in 0..(needs - 1) : h \in Nat /\ h < needs
    BY <1>4
  <2>2. \A h \in 0..(needs - 1) : IndexPlace(h) => H(h) # b
    <3> HIDE DEF H
    <3> QED  BY <1>12, <1>19, <2>1
  <2>3. w.blocks[b] = f.blocks[b]
    BY <1>6, <2>2
  <2> QED  BY <1>7, <2>3
<1> HIDE DEF H
<1>20. Grown(efs, f, g, i, new_size)
  BY <1>7, <1>11, <1>13, <1>16, <1>17, <1>18, <1>19 DEF Grown, has, needs
<1> QED  BY <1>4, <1>10, <1>20 DEF g

\* No marked block is block 0.
LEMMA MarkedNotZero ==
    ASSUME NEW e, NEW s, NEW f, DiskTyped(e, s, f)
    PROVE  0 \notin Marked(e, f) /\ \A b \in Marked(e, f) : b \in Nat
<1>1. e.data_area_start_block \in Nat \ {0} /\ \A c \in f.data_bitmap : c \in Nat
  BY DiskTypes
<1>2. \A c \in f.data_bitmap : c + e.data_area_start_block \in Nat \ {0}
  BY <1>1
<1> QED  BY <1>2 DEF Marked

\* What a file that grows has: its old units, then zeros.
GrownUnits(f, g, i, new_size) ==
    \A p \in Nat : p < data_blocks(new_size) * BLOCK_SZ =>
        UnitIn(g, i, p) = IF p < SizeOf(f, i) THEN UnitIn(f, i, p) ELSE 0

\* A file that grows leaves the other files alone.
LEMMA GrowOthers ==
    ASSUME NEW e, NEW s, NEW f, NEW g, NEW i \in f.inode_bitmap, NEW new_size \in Nat,
           Core(e, s, f), Grown(e, f, g, i, new_size)
    PROVE  OthersKept(f, g, i)
<1> DEFINE has == PlacesIn(f, i)
           needs == PlacesOf(data_blocks(new_size))
<1>0. DiskTyped(e, s, f)
  BY DEF Core
<1>1. SUFFICES ASSUME NEW j \in f.inode_bitmap \ {i}
               PROVE  Kept(f, g, j) /\ SizeOf(f, j) \in Nat
  BY DEF OthersKept
<1>2. /\ SizeOf(f, j) \in Nat /\ j \in DOMAIN f.inodes
      /\ has \in Nat
  BY <1>0, DiskTypes
<1>3. g.inodes[j] = f.inodes[j]
  BY <1>2 DEF Grown
<1>4. ASSUME NEW n \in Nat, n < PlacesIn(f, j)
      PROVE  g.blocks[BlockIn(f, j, n)] = f.blocks[BlockIn(f, j, n)]
  <2>1. Holds(f, j, n)
    BY <1>4 DEF Holds
  <2>2. BlockIn(f, j, n) \in Marked(e, f) /\ BlockIn(f, j, n) \in DOMAIN f.blocks
    BY <2>1 DEF Core, Ownership
  <2>3. ASSUME NEW h \in Nat, h < needs
        PROVE  BlockIn(g, i, h) # BlockIn(f, j, n)
    <3>1. CASE h < has
      <4>1. Holds(f, i, h) /\ BlockIn(g, i, h) = BlockIn(f, i, h)
        BY <3>1 DEF Holds, Grown
      <4> QED  BY <2>1, <4>1 DEF Core, Ownership
    <3>2. CASE has <= h
      <4>1. BlockIn(g, i, h) \notin Marked(e, f)
        BY <2>3, <3>2 DEF Grown
      <4> QED  BY <2>2, <4>1
    <3> QED  BY <1>2, <3>1, <3>2
  <2> QED  BY <2>2, <2>3 DEF Grown
<1> QED  BY <1>2, <1>3, <1>4 DEF Kept

\* A file that grows keeps what it had, and the rest of it is zero.
LEMMA GrowUnits ==
    ASSUME NEW e, NEW s, NEW f, NEW g, NEW i \in f.inode_bitmap, NEW new_size \in Nat,
           Core(e, s, f), Grown(e, f, g, i, new_size), SizeOf(f, i) <= new_size
    PROVE  GrownUnits(f, g, i, new_size)
<1> DEFINE has == PlacesIn(f, i)
           needs == PlacesOf(data_blocks(new_size))
           size == SizeOf(f, i)
<1>0. DiskTyped(e, s, f)
  BY DEF Core
<1>1. size \in Nat /\ has \in Nat /\ i \in Inodes(e) /\ data_blocks(size) \in Nat
  BY <1>0, DiskTypes, DataBlocks
<1>2. SUFFICES ASSUME NEW p \in Nat, p < data_blocks(new_size) * BLOCK_SZ
               PROVE  UnitIn(g, i, p) = IF p < size THEN UnitIn(f, i, p) ELSE 0
  BY DEF GrownUnits
<1> DEFINE d == p \div BLOCK_SZ
           n == DataPlace(d)
           b == BlockIn(g, i, n)
           u == p % BLOCK_SZ
<1>3. d \in Nat /\ n \in Nat /\ n < needs
  BY <1>2, DataInPlaces
<1>4. u \in 0..(BLOCK_SZ - 1) /\ d * BLOCK_SZ \in Nat /\ p = d * BLOCK_SZ + u
  BY BlockOf
<1>5. UnitIn(g, i, p) = g.blocks[b][u] /\ UnitIn(f, i, p) = f.blocks[BlockIn(f, i, n)][u]
  BY DEF UnitIn, Unit, BlockIn
<1>6. ~IndexPlace(n)
  BY <1>3, DataPlaceNotIndex
<1>7. (d < data_blocks(size) => n < has) /\ (d >= data_blocks(size) => n >= has)
  BY <1>1, <1>3, PlacesOfFacts DEF PlacesIn
<1> HIDE DEF n, u, d, size
<1>8. b \in DOMAIN f.blocks
  <2>1. CASE n < has
    <3>1. b = BlockIn(f, i, n) /\ Holds(f, i, n)
      BY <1>3, <2>1 DEF Grown, Holds
    <3> QED  BY <3>1 DEF Core, Ownership
  <2>2. CASE has <= n
    BY <1>3, <2>2 DEF Grown
  <2> QED  BY <1>1, <1>3, <2>1, <2>2
<1>9. g.blocks[b] = f.blocks[b]
  <2>1. ASSUME NEW h \in Nat, h < needs, IndexPlace(h)
        PROVE  BlockIn(g, i, h) # b
    <3>1. h # n
      BY <1>6, <2>1
    <3> QED  BY <1>3, <2>1, <3>1 DEF Grown
  <2> HIDE DEF b
  <2> QED  BY <1>8, <2>1 DEF Grown
<1>10. CASE n < has
  <2>1. b = BlockIn(f, i, n)
    BY <1>3, <1>10 DEF Grown
  <2>2. UnitIn(g, i, p) = UnitIn(f, i, p)
    BY <1>5, <1>9, <2>1
  <2>3. d < data_blocks(size)
    BY <1>1, <1>3, <1>7, <1>10
  <2>4. p < data_blocks(size) * BLOCK_SZ
    <3>1. d * BLOCK_SZ + BLOCK_SZ <= data_blocks(size) * BLOCK_SZ
      BY <1>1, <1>3, <2>3, Times, Sizes
    <3>2. data_blocks(size) * BLOCK_SZ \in Nat
      BY <1>1, DataBlocks
    <3> QED  BY <1>4, <3>1, <3>2, Sizes
  <2>5. TailZero(f, i)
    BY DEF Core
  <2>6. size <= p => UnitIn(f, i, p) = 0
    BY <2>4, <2>5 DEF TailZero, size
  <2> QED  BY <1>1, <2>2, <2>6
<1>11. CASE has <= n
  <2>1. b \notin Marked(e, f) /\ b # 0
    BY <1>3, <1>11 DEF Grown
  <2>2. f.blocks[b] = ZeroBlock
    BY <1>8, <2>1 DEF Core, FreeZero
  <2>3. UnitIn(g, i, p) = 0
    BY <1>4, <1>5, <1>9, <2>2 DEF ZeroBlock
  <2>4. ~(p < size)
    <3>1. p < size => d < data_blocks(size)
      BY <1>1, UnitInFile DEF d
    <3> QED  BY <1>1, <1>3, <1>7, <1>11, <3>1
  <2> QED  BY <2>3, <2>4
<1> QED  BY <1>1, <1>3, <1>10, <1>11

\* increase_size keeps the invariant of the disk.
LEMMA GrowCore ==
    ASSUME NEW e, NEW s, NEW f, NEW g, NEW i \in f.inode_bitmap, NEW new_size \in Nat,
           Core(e, s, f), DiskTyped(e, s, g), Grown(e, f, g, i, new_size),
           SizeOf(f, i) <= new_size, data_blocks(new_size) <= INDIRECT2_BOUND
    PROVE  Core(e, s, g)
<1> DEFINE has == PlacesIn(f, i)
           needs == PlacesOf(data_blocks(new_size))
<1>0. DiskTyped(e, s, f)
  BY DEF Core
<1>1. /\ SizeOf(f, i) \in Nat /\ has \in Nat /\ i \in Inodes(e)
      /\ needs \in Nat /\ has <= needs
  <2>1. SizeOf(f, i) \in Nat /\ has \in Nat /\ i \in Inodes(e)
    BY <1>0, DiskTypes
  <2>2. data_blocks(SizeOf(f, i)) \in Nat /\ data_blocks(new_size) \in Nat
        /\ data_blocks(SizeOf(f, i)) <= data_blocks(new_size)
    BY <2>1, DataBlocks, DataBlocksUp
  <2> QED  BY <2>1, <2>2, PlacesOfFacts DEF PlacesIn
<1>2. OthersKept(f, g, i) /\ GrownUnits(f, g, i, new_size)
  BY GrowOthers, GrowUnits
<1>3. g.inode_bitmap = f.inode_bitmap /\ SizeOf(g, i) = new_size /\ PlacesIn(g, i) = needs
  BY DEF Grown, PlacesIn
<1>4. DOMAIN g.blocks = DOMAIN f.blocks
  BY <1>0, DiskTypes
<1>5. \A b : OwnedBy(g, i, b) <=> \E n \in Nat : n < needs /\ BlockIn(g, i, n) = b
  BY <1>3 DEF OwnedBy, Holds
<1>6. \A b : OwnedBy(f, i, b) <=> \E n \in Nat : n < has /\ BlockIn(f, i, n) = b
  BY DEF OwnedBy, Holds
<1>7. \A b : OwnedBy(f, i, b) => OwnedBy(g, i, b)
  <2>1. \A n \in Nat : n < has => n < needs /\ BlockIn(g, i, n) = BlockIn(f, i, n)
    BY <1>1 DEF Grown
  <2> HIDE DEF has, needs
  <2> QED  BY <1>5, <1>6, <2>1
<1>8. \A b : OwnedBy(g, i, b) <=>
         OwnedBy(f, i, b) \/ \E n \in Nat : has <= n /\ n < needs /\ BlockIn(g, i, n) = b
  <2>1. \A n \in Nat : n < has => BlockIn(g, i, n) = BlockIn(f, i, n)
    BY DEF Grown
  <2>2. \A n \in Nat : n < has \/ has <= n
    BY <1>1
  <2> HIDE DEF has, needs
  <2> QED  BY <1>5, <1>6, <1>7, <2>1, <2>2
<1>9. \A b : OwnedBy(f, i, b) => b \in Marked(e, f)
  BY DEF OwnedBy, Core, Ownership
<1>10. \A b : b \in Marked(e, g) <=>
              \/ b \in Marked(e, f)
              \/ \E n \in Nat : has <= n /\ n < needs /\ BlockIn(g, i, n) = b
  BY DEF Grown
<1>11. \A n \in Nat : has <= n /\ n < needs =>
              BlockIn(g, i, n) \in DOMAIN f.blocks \ Marked(e, f) /\ BlockIn(g, i, n) # 0
  BY DEF Grown
<1>12. Handed(e, f, g, i)
  <2>1. \A m, n : Holds(g, i, m) /\ Holds(g, i, n) /\ BlockIn(g, i, m) = BlockIn(g, i, n)
                  => m = n
    BY <1>3 DEF Grown, Holds
  <2> HIDE DEF has, needs
  <2>2. \A b : OwnedBy(g, i, b) => OwnedBy(f, i, b) \/ b \notin Marked(e, f)
    BY <1>8, <1>11
  <2>3. \A b : b \in Marked(e, g) <=>
                 OwnedBy(g, i, b) \/ (b \in Marked(e, f) /\ ~OwnedBy(f, i, b))
    BY <1>8, <1>9, <1>10
  <2> QED  BY <1>3, <2>1, <2>2, <2>3 DEF Handed
<1>13. Ownership(e, g)
  BY <1>2, <1>12, OwnStep DEF Core
<1>14. SizesBounded(g)
  <2> SUFFICES ASSUME NEW j \in f.inode_bitmap, j # i
               PROVE  data_blocks(SizeOf(g, j)) <= INDIRECT2_BOUND
    BY <1>3 DEF SizesBounded
  <2>1. SizeOf(g, j) = SizeOf(f, j)
    BY <1>2, KeptFacts DEF OthersKept
  <2> QED  BY <2>1 DEF Core, SizesBounded
<1>15. Marked(e, g) \subseteq DOMAIN g.blocks
  <2>1. Marked(e, f) \subseteq DOMAIN f.blocks
    BY DEF Core
  <2> HIDE DEF has, needs
  <2> QED  BY <1>4, <1>10, <1>11, <2>1
<1>16. ASSUME NEW b \in DOMAIN f.blocks, b \notin Marked(e, g)
       PROVE  g.blocks[b] = f.blocks[b] /\ b \notin Marked(e, f)
  <2>1. \A h \in Nat : h < needs => BlockIn(g, i, h) # b
    BY <1>3, <1>13, <1>16 DEF Ownership, Holds
  <2> QED  BY <1>10, <1>16, <2>1 DEF Grown
<1>17. FreeZero(e, g)
  <2>1. FreeZero(e, f)
    BY DEF Core
  <2> QED  BY <1>4, <1>16, <2>1 DEF FreeZero
<1>18. g.blocks[0] = SuperBlockUnits
  <2>1. 0 \notin Marked(e, g) /\ 0 \in DOMAIN f.blocks
    BY <1>0, MarkedNotZero, DiskTypes
  <2> QED  BY <1>16, <2>1 DEF Core
<1>19. ASSUME NEW j \in g.inode_bitmap PROVE TailZero(g, j)
  <2>1. CASE j = i
    <3>1. ASSUME NEW p \in Nat, new_size <= p, p < data_blocks(new_size) * BLOCK_SZ
          PROVE  UnitIn(g, i, p) = 0
      <4>1. ~(p < SizeOf(f, i))
        BY <1>1, <3>1
      <4> QED  BY <1>2, <3>1, <4>1 DEF GrownUnits
    <3> QED  BY <1>3, <2>1, <3>1 DEF TailZero
  <2>2. CASE j # i
    <3>1. Kept(f, g, j) /\ SizeOf(f, j) \in Nat /\ TailZero(f, j)
      BY <1>2, <1>3, <2>2 DEF OthersKept, Core
    <3>2. /\ SizeOf(g, j) = SizeOf(f, j)
          /\ \A p \in Nat : p < data_blocks(SizeOf(f, j)) * BLOCK_SZ =>
                UnitIn(g, j, p) = UnitIn(f, j, p)
      BY <3>1, KeptFacts
    <3> QED  BY <3>1, <3>2 DEF TailZero
  <2> QED  BY <2>1, <2>2
<1> QED  BY <1>13, <1>14, <1>15, <1>17, <1>18, <1>19 DEF Core

\* h is g with `buf` written at `offset` of inode i.
PutInto(g, i, offset, buf) ==
    [g EXCEPT !.blocks = write_at(g.inodes[i], g.blocks, offset, buf)]

\* Unit p of the file is one that `buf` is written over.
InBuffer(p, offset, buf) == p \in offset..(offset + Len(buf) - 1)

\* A block where no unit of the buffer goes.
Untouched(g, i, offset, buf, b) ==
    \A p, u : ~Goes(g.inodes[i], g.blocks, offset, buf, p, b, u)

WrittenUnits(g, h, i, offset, buf) ==
    \A p \in Nat : p < data_blocks(SizeOf(g, i)) * BLOCK_SZ =>
        UnitIn(h, i, p) = IF InBuffer(p, offset, buf) THEN buf[p - offset + 1]
                          ELSE UnitIn(g, i, p)

\* The data blocks of an inode are not the same.
LEMMA DataApart ==
    ASSUME NEW e, NEW s, NEW g, NEW i \in g.inode_bitmap, Core(e, s, g)
    PROVE  /\ BlocksApart(g.inodes[i], g.blocks)
           /\ \A d \in Nat : d < data_blocks(SizeOf(g, i)) =>
                 /\ Holds(g, i, DataPlace(d))
                 /\ DataBlock(g.inodes[i], g.blocks, d) = BlockIn(g, i, DataPlace(d))
<1>0. DiskTyped(e, s, g)
  BY DEF Core
<1>1. SizeOf(g, i) \in Nat
  BY <1>0, DiskTypes
<1>2. data_blocks(SizeOf(g, i)) \in Nat
  BY <1>1, DataBlocks
<1>3. ASSUME NEW d \in Nat, d < data_blocks(SizeOf(g, i))
      PROVE  /\ Holds(g, i, DataPlace(d))
             /\ DataBlock(g.inodes[i], g.blocks, d) = BlockIn(g, i, DataPlace(d))
  <2>1. DataPlace(d) \in Nat /\ DataPlace(d) < PlacesIn(g, i)
    BY <1>2, <1>3, DataPlaceNat, PlacesOfFacts DEF PlacesIn
  <2> QED  BY <2>1 DEF Holds, DataBlock, BlockIn
<1>4. ASSUME NEW c \in Nat, NEW d \in Nat, c < data_blocks(SizeOf(g, i)),
             d < data_blocks(SizeOf(g, i)),
             DataBlock(g.inodes[i], g.blocks, c) = DataBlock(g.inodes[i], g.blocks, d)
      PROVE  c = d
  <2>1. DataPlace(c) = DataPlace(d)
    BY <1>3, <1>4 DEF Core, Ownership
  <2>2. DataPlace(c) \in Nat /\ DataPlace(d) \in Nat
    BY DataPlaceNat
  <2>3. (c < d => DataPlace(c) < DataPlace(d)) /\ (d < c => DataPlace(d) < DataPlace(c))
    BY DataPlaceUp
  <2> QED  BY <2>1, <2>2, <2>3
<1>5. \A d \in 0..(data_blocks(SizeOf(g, i)) - 1) : d \in Nat /\ d < data_blocks(SizeOf(g, i))
  BY <1>2
<1>6. BlocksApart(g.inodes[i], g.blocks)
  BY <1>4, <1>5 DEF BlocksApart, SizeOf
<1> QED  BY <1>3, <1>6

\* write_at changes the blocks that the buffer goes to, and no other.
LEMMA WriteBlocks ==
    ASSUME NEW e, NEW s, NEW g, NEW i \in g.inode_bitmap, Core(e, s, g),
           NEW offset \in Nat, NEW buf \in Seq(Nat), Len(buf) > 0,
           offset + Len(buf) <= SizeOf(g, i),
           NEW h, h = PutInto(g, i, offset, buf)
    PROVE  /\ DiskTyped(e, s, h)
           /\ h.inode_bitmap = g.inode_bitmap /\ h.data_bitmap = g.data_bitmap
           /\ h.inodes = g.inodes /\ DOMAIN h.blocks = DOMAIN g.blocks
           /\ Holding(g.inodes[i], g.blocks, offset, buf, h.blocks)
           /\ \A b \in DOMAIN g.blocks :
                 Untouched(g, i, offset, buf, b) => h.blocks[b] = g.blocks[b]
<1> DEFINE inode == g.inodes[i]
           after == write_at(inode, g.blocks, offset, buf)
<1>0. DiskTyped(e, s, g)
  BY DEF Core
<1>1. /\ SizeOf(g, i) \in Nat /\ BlocksTyped(g.blocks) /\ Len(buf) \in Nat
      /\ DOMAIN g.blocks = BlockIds(e, s)
  BY <1>0, DiskTypes, LenProperties
<1>2. BlocksApart(inode, g.blocks)
  BY DataApart
<1>3. inode.size \in Nat /\ offset + Len(buf) <= inode.size
  BY <1>1 DEF SizeOf
<1>4. Holding(inode, g.blocks, offset, buf, after)
  <2> HIDE DEF inode
  <2> QED  BY <1>1, <1>2, <1>3, WriteAt
<1>5. h = [g EXCEPT !.blocks = after]
  BY DEF PutInto
<1> HIDE DEF after
<1>6. /\ h.inode_bitmap = g.inode_bitmap /\ h.data_bitmap = g.data_bitmap
      /\ h.inodes = g.inodes /\ h.blocks = after
  BY <1>0, <1>5 DEF DiskTyped
<1> HIDE DEF inode
<1>7. ASSUME NEW b \in DOMAIN g.blocks, NEW u \in 0..(BLOCK_SZ - 1)
      PROVE  after[b][u] \in Nat
  <2>1. CASE after[b][u] = g.blocks[b][u]
    BY <1>1, <2>1 DEF BlocksTyped
  <2>2. ASSUME NEW p, Goes(inode, g.blocks, offset, buf, p, b, u),
               after[b][u] = buf[p - offset + 1]
        PROVE  after[b][u] \in Nat
    <3> DEFINE k == p - offset + 1
    <3>1. p \in offset..(offset + Len(buf) - 1)
      BY <2>2 DEF Goes
    <3>2. k \in 1..Len(buf)
      BY <1>1, <3>1
    <3> HIDE DEF k
    <3>3. buf[k] \in Nat
      BY <3>2, ElementOfSeq
    <3> QED  BY <2>2, <3>3 DEF k
  <2> QED  BY <1>4, <2>1, <2>2 DEF Holding
<1>8. /\ DOMAIN after = DOMAIN g.blocks
      /\ \A b \in DOMAIN g.blocks :
            after[b] = [u \in 0..(BLOCK_SZ - 1) |-> after[b][u]]
  BY <1>4 DEF Holding
<1>9. \A b \in DOMAIN g.blocks : after[b] \in [0..(BLOCK_SZ - 1) -> Nat]
  BY <1>7, <1>8
<1>10. after = [b \in DOMAIN g.blocks |-> after[b]]
  BY <1>4 DEF Holding
<1>11. after \in [DOMAIN g.blocks -> [0..(BLOCK_SZ - 1) -> Nat]]
  BY <1>9, <1>10
<1>12. DiskTyped(e, s, h)
  BY <1>0, <1>1, <1>5, <1>11 DEF DiskTyped
<1>13. ASSUME NEW b \in DOMAIN g.blocks, Untouched(g, i, offset, buf, b)
       PROVE  after[b] = g.blocks[b]
  <2>1. \A u \in 0..(BLOCK_SZ - 1) : after[b][u] = g.blocks[b][u]
    BY <1>4, <1>13 DEF Untouched, Holding, inode
  <2>2. /\ after[b] = [u \in 0..(BLOCK_SZ - 1) |-> after[b][u]]
        /\ g.blocks[b] = [u \in 0..(BLOCK_SZ - 1) |-> g.blocks[b][u]]
    BY <1>1, <1>8 DEF BlocksTyped
  <2> DEFINE x == after[b]
             y == g.blocks[b]
  <2> HIDE DEF x, y
  <2>3. x = y
    BY <2>1, <2>2 DEF x, y
  <2> QED  BY <2>3 DEF x, y
<1> QED  BY <1>4, <1>6, <1>8, <1>12, <1>13 DEF inode

\* Unit p of inode i is in block b.
InFile(g, i, p, b) ==
    /\ p \in Nat /\ p < SizeOf(g, i)
    /\ p \div BLOCK_SZ \in Nat /\ p \div BLOCK_SZ < data_blocks(SizeOf(g, i))
    /\ b = BlockIn(g, i, DataPlace(p \div BLOCK_SZ))
    /\ Holds(g, i, DataPlace(p \div BLOCK_SZ))
    /\ ~IndexPlace(DataPlace(p \div BLOCK_SZ))

\* A unit of the buffer goes to a data block of the inode, and to no other.
LEMMA GoesTo ==
    ASSUME NEW e, NEW s, NEW g, NEW i \in g.inode_bitmap, Core(e, s, g),
           NEW offset \in Nat, NEW buf \in Seq(Nat), offset + Len(buf) <= SizeOf(g, i),
           NEW p, NEW b, NEW u, Goes(g.inodes[i], g.blocks, offset, buf, p, b, u)
    PROVE  InFile(g, i, p, b)
<1>0. DiskTyped(e, s, g)
  BY DEF Core
<1>1. SizeOf(g, i) \in Nat /\ Len(buf) \in Nat
  BY <1>0, DiskTypes, LenProperties
<1>2. p \in offset..(offset + Len(buf) - 1) /\ b = DataBlock(g.inodes[i], g.blocks, p \div BLOCK_SZ)
  BY DEF Goes
<1>3. p \in Nat /\ p < SizeOf(g, i)
  BY <1>1, <1>2
<1> DEFINE d == p \div BLOCK_SZ
<1>4. d \in Nat /\ d < data_blocks(SizeOf(g, i))
  BY <1>1, <1>3, UnitInFile
<1> HIDE DEF d
<1>5. Holds(g, i, DataPlace(d)) /\ DataBlock(g.inodes[i], g.blocks, d) = BlockIn(g, i, DataPlace(d))
  BY <1>4, DataApart
<1>6. ~IndexPlace(DataPlace(d))
  BY <1>4, DataPlaceNotIndex
<1> QED  BY <1>2, <1>3, <1>4, <1>5, <1>6 DEF InFile, d

\* write_at leaves the other files, and all block ids, alone.
LEMMA WriteOthers ==
    ASSUME NEW e, NEW s, NEW g, NEW i \in g.inode_bitmap, Core(e, s, g),
           NEW offset \in Nat, NEW buf \in Seq(Nat), Len(buf) > 0,
           offset + Len(buf) <= SizeOf(g, i),
           NEW h, h = PutInto(g, i, offset, buf)
    PROVE  /\ OthersKept(g, h, i)
           /\ SizeOf(h, i) = SizeOf(g, i)
           /\ \A n \in Nat : n < PlacesIn(g, i) => BlockIn(h, i, n) = BlockIn(g, i, n)
<1>0. DiskTyped(e, s, g)
  BY DEF Core
<1>1. /\ h.inodes = g.inodes
      /\ \A b \in DOMAIN g.blocks :
            Untouched(g, i, offset, buf, b) => h.blocks[b] = g.blocks[b]
  BY WriteBlocks
<1>2. \A j \in g.inode_bitmap : SizeOf(g, j) \in Nat /\ PlacesIn(g, j) \in Nat
  BY <1>0, DiskTypes
<1>3. ASSUME NEW j, NEW n, Holds(g, j, n),
             j # i \/ IndexPlace(n)
      PROVE  h.blocks[BlockIn(g, j, n)] = g.blocks[BlockIn(g, j, n)]
  <2>1. BlockIn(g, j, n) \in DOMAIN g.blocks
    BY <1>3 DEF Core, Ownership
  <2>2. ASSUME NEW p, NEW u,
               Goes(g.inodes[i], g.blocks, offset, buf, p, BlockIn(g, j, n), u)
        PROVE  FALSE
    <3> DEFINE m == DataPlace(p \div BLOCK_SZ)
    <3>1. /\ BlockIn(g, j, n) = BlockIn(g, i, m)
          /\ Holds(g, i, m) /\ ~IndexPlace(m)
      <4>1. InFile(g, i, p, BlockIn(g, j, n))
        BY <2>2, GoesTo
      <4> QED  BY <4>1 DEF InFile
    <3> HIDE DEF m
    <3>2. j = i /\ n = m
      BY <1>3, <3>1 DEF Core, Ownership
    <3> QED  BY <1>3, <3>1, <3>2
  <2> QED  BY <1>1, <2>1, <2>2 DEF Untouched
<1>4. OthersKept(g, h, i)
  <2> SUFFICES ASSUME NEW j \in g.inode_bitmap \ {i} PROVE Kept(g, h, j)
    BY <1>2 DEF OthersKept
  <2> QED  BY <1>1, <1>3 DEF Kept, Holds
<1>5. SizeOf(h, i) = SizeOf(g, i) /\ h.inodes[i] = g.inodes[i]
  BY <1>1 DEF SizeOf
<1>6. IndexKept(g.inodes[i], g.blocks, h.blocks, PlacesIn(g, i))
  BY <1>3 DEF IndexKept, BlockIn, Holds
<1>7. ASSUME NEW n \in Nat, n < PlacesIn(g, i) PROVE BlockIn(h, i, n) = BlockIn(g, i, n)
  BY <1>2, <1>5, <1>6, <1>7, IndexSame DEF BlockIn
<1> QED  BY <1>4, <1>5, <1>7

\* write_at puts the buffer where it belongs, and nothing else.
LEMMA WriteUnits ==
    ASSUME NEW e, NEW s, NEW g, NEW i \in g.inode_bitmap, Core(e, s, g),
           NEW offset \in Nat, NEW buf \in Seq(Nat), Len(buf) > 0,
           offset + Len(buf) <= SizeOf(g, i),
           NEW h, h = PutInto(g, i, offset, buf)
    PROVE  WrittenUnits(g, h, i, offset, buf)
<1>0. DiskTyped(e, s, g)
  BY DEF Core
<1>1. SUFFICES ASSUME NEW p \in Nat, p < data_blocks(SizeOf(g, i)) * BLOCK_SZ
               PROVE  UnitIn(h, i, p) = IF InBuffer(p, offset, buf) THEN buf[p - offset + 1]
                                        ELSE UnitIn(g, i, p)
  BY DEF WrittenUnits
<1> DEFINE d == p \div BLOCK_SZ
           u == p % BLOCK_SZ
           n == DataPlace(d)
           b == BlockIn(g, i, n)
<1>2. SizeOf(g, i) \in Nat
  BY <1>0, DiskTypes
<1>3. d \in Nat /\ d < data_blocks(SizeOf(g, i)) /\ n \in Nat /\ n < PlacesIn(g, i)
  BY <1>1, <1>2, DataInPlaces DEF PlacesIn
<1>4. /\ u \in 0..(BLOCK_SZ - 1) /\ d * BLOCK_SZ \in Nat /\ p = d * BLOCK_SZ + u
  BY BlockOf
<1>5. UnitIn(g, i, p) = g.blocks[b][u] /\ UnitIn(h, i, p) = h.blocks[BlockIn(h, i, n)][u]
  BY DEF UnitIn, Unit, BlockIn
<1>6. BlockIn(h, i, n) = b
  BY <1>3, WriteOthers
<1>7. Holds(g, i, n) /\ b \in DOMAIN g.blocks /\ b = DataBlock(g.inodes[i], g.blocks, d)
  <2>1. Holds(g, i, n)
    BY <1>3 DEF Holds
  <2>2. b \in DOMAIN g.blocks
    BY <2>1 DEF Core, Ownership
  <2> QED  BY <2>1, <2>2 DEF BlockIn, DataBlock
<1>8. Goes(g.inodes[i], g.blocks, offset, buf, p, b, u) <=> InBuffer(p, offset, buf)
  BY <1>7 DEF Goes, InBuffer
<1>9. ASSUME NEW q, Goes(g.inodes[i], g.blocks, offset, buf, q, b, u)
      PROVE  q = p
  <2> DEFINE c == q \div BLOCK_SZ
  <2>1. q \in Nat /\ c \in Nat /\ b = BlockIn(g, i, DataPlace(c)) /\ Holds(g, i, DataPlace(c))
    <3>1. InFile(g, i, q, b)
      <4> HIDE DEF b, u
      <4> QED  BY <1>9, GoesTo
    <3> QED  BY <3>1 DEF InFile
  <2>2. DataPlace(c) = n
    BY <1>7, <2>1 DEF Core, Ownership
  <2>3. u = q % BLOCK_SZ /\ q = c * BLOCK_SZ + (q % BLOCK_SZ)
    BY <1>9, <2>1, BlockOf DEF Goes
  <2> HIDE DEF c, d, u
  <2>4. c = d
    <3>1. (c < d => DataPlace(c) < DataPlace(d)) /\ (d < c => DataPlace(d) < DataPlace(c))
      BY <1>3, <2>1, DataPlaceUp
    <3>2. DataPlace(c) \in Nat /\ DataPlace(d) \in Nat
      BY <1>3, <2>1, DataPlaceNat
    <3> QED  BY <1>3, <2>1, <2>2, <3>1, <3>2
  <2> QED  BY <1>4, <2>3, <2>4
<1>10. \/ /\ h.blocks[b][u] = g.blocks[b][u]
          /\ \A q : ~Goes(g.inodes[i], g.blocks, offset, buf, q, b, u)
       \/ \E q : /\ Goes(g.inodes[i], g.blocks, offset, buf, q, b, u)
                 /\ h.blocks[b][u] = buf[q - offset + 1]
  <2>1. Holding(g.inodes[i], g.blocks, offset, buf, h.blocks)
    BY WriteBlocks
  <2> HIDE DEF b, u
  <2> QED  BY <1>4, <1>7, <2>1 DEF Holding
<1> HIDE DEF b, u, n
<1>11. CASE InBuffer(p, offset, buf)
  <2>1. PICK q : /\ Goes(g.inodes[i], g.blocks, offset, buf, q, b, u)
                 /\ h.blocks[b][u] = buf[q - offset + 1]
    BY <1>8, <1>10, <1>11
  <2>2. h.blocks[b][u] = buf[p - offset + 1]
    BY <1>9, <2>1
  <2> QED  BY <1>5, <1>6, <1>11, <2>2
<1>12. CASE ~InBuffer(p, offset, buf)
  <2>1. h.blocks[b][u] = g.blocks[b][u]
    BY <1>8, <1>9, <1>10, <1>12
  <2> QED  BY <1>5, <1>6, <1>12, <2>1
<1> QED  BY <1>11, <1>12

\* write_at keeps the invariant of the disk.
LEMMA WriteCore ==
    ASSUME NEW e, NEW s, NEW g, NEW i \in g.inode_bitmap, Core(e, s, g),
           NEW offset \in Nat, NEW buf \in Seq(Nat), Len(buf) > 0,
           offset + Len(buf) <= SizeOf(g, i),
           NEW h, h = PutInto(g, i, offset, buf)
    PROVE  Core(e, s, h)
<1>0. DiskTyped(e, s, g)
  BY DEF Core
<1>1. /\ DiskTyped(e, s, h)
      /\ h.inode_bitmap = g.inode_bitmap /\ h.data_bitmap = g.data_bitmap
      /\ h.inodes = g.inodes /\ DOMAIN h.blocks = DOMAIN g.blocks
      /\ \A b \in DOMAIN g.blocks :
            Untouched(g, i, offset, buf, b) => h.blocks[b] = g.blocks[b]
  BY WriteBlocks
<1>2. /\ OthersKept(g, h, i)
      /\ SizeOf(h, i) = SizeOf(g, i)
      /\ \A n \in Nat : n < PlacesIn(g, i) => BlockIn(h, i, n) = BlockIn(g, i, n)
  BY WriteOthers
<1>3. WrittenUnits(g, h, i, offset, buf)
  BY WriteUnits
<1>4. Marked(e, h) = Marked(e, g)
  BY <1>1 DEF Marked
<1>5. PlacesIn(h, i) = PlacesIn(g, i)
  BY <1>2 DEF PlacesIn
<1>6. \A n : /\ Holds(h, i, n) <=> Holds(g, i, n)
             /\ Holds(g, i, n) => BlockIn(h, i, n) = BlockIn(g, i, n)
  BY <1>1, <1>2, <1>5 DEF Holds
<1>7. \A b : OwnedBy(h, i, b) <=> OwnedBy(g, i, b)
  BY <1>6 DEF OwnedBy
<1>8. \A b : OwnedBy(g, i, b) => b \in Marked(e, g)
  BY DEF OwnedBy, Core, Ownership
<1>9. Handed(e, g, h, i)
  <2>1. \A m, n : Holds(h, i, m) /\ Holds(h, i, n) /\ BlockIn(h, i, m) = BlockIn(h, i, n)
                  => m = n
    BY <1>6 DEF Core, Ownership
  <2> QED  BY <1>1, <1>4, <1>7, <1>8, <2>1 DEF Handed
<1>10. Ownership(e, h)
  BY <1>2, <1>9, OwnStep DEF Core
<1>11. ASSUME NEW b \in DOMAIN g.blocks, b \notin Marked(e, g)
       PROVE  h.blocks[b] = g.blocks[b]
  <2>1. ASSUME NEW p, NEW u, Goes(g.inodes[i], g.blocks, offset, buf, p, b, u)
        PROVE  FALSE
    <3> DEFINE m == DataPlace(p \div BLOCK_SZ)
    <3>1. b = BlockIn(g, i, m) /\ Holds(g, i, m)
      <4>1. InFile(g, i, p, b)
        BY <2>1, GoesTo
      <4> QED  BY <4>1 DEF InFile
    <3> HIDE DEF m
    <3> QED  BY <1>8, <1>11, <3>1 DEF OwnedBy
  <2> QED  BY <1>1, <2>1 DEF Untouched
<1>12. FreeZero(e, h)
  BY <1>1, <1>4, <1>11 DEF FreeZero, Core
<1>13. h.blocks[0] = SuperBlockUnits
  <2>1. 0 \notin Marked(e, g) /\ 0 \in DOMAIN g.blocks
    BY <1>0, MarkedNotZero, DiskTypes
  <2> QED  BY <1>11, <2>1 DEF Core
<1>14. SizesBounded(h)
  BY <1>1 DEF SizesBounded, SizeOf, Core
<1>15. Marked(e, h) \subseteq DOMAIN h.blocks
  BY <1>1, <1>4 DEF Core
<1>16. ASSUME NEW j \in h.inode_bitmap PROVE TailZero(h, j)
  <2>0. SizeOf(g, j) \in Nat /\ TailZero(g, j)
    BY <1>0, <1>1, DiskTypes DEF Core
  <2>1. CASE j = i
    <3>1. ASSUME NEW p \in Nat, SizeOf(g, i) <= p,
                 p < data_blocks(SizeOf(g, i)) * BLOCK_SZ
          PROVE  UnitIn(h, i, p) = 0
      <4>1. ~InBuffer(p, offset, buf)
        <5>1. Len(buf) \in Nat
          BY LenProperties
        <5> QED  BY <2>0, <2>1, <3>1, <5>1 DEF InBuffer
      <4>2. UnitIn(g, i, p) = 0
        BY <2>0, <2>1, <3>1 DEF TailZero
      <4> QED  BY <1>3, <3>1, <4>1, <4>2 DEF WrittenUnits
    <3> QED  BY <1>2, <2>1, <3>1 DEF TailZero
  <2>2. CASE j # i
    <3>1. Kept(g, h, j)
      BY <1>1, <1>2, <2>2 DEF OthersKept
    <3>2. /\ SizeOf(h, j) = SizeOf(g, j)
          /\ \A p \in Nat : p < data_blocks(SizeOf(g, j)) * BLOCK_SZ =>
                UnitIn(h, j, p) = UnitIn(g, j, p)
      BY <2>0, <3>1, KeptFacts
    <3> QED  BY <2>0, <3>2 DEF TailZero
  <2> QED  BY <2>1, <2>2
<1> QED  BY <1>1, <1>10, <1>12, <1>13, <1>14, <1>15, <1>16 DEF Core

\* File j has the same units in f and h.
SameFile(f, h, j) ==
    /\ SizeOf(h, j) = SizeOf(f, j)
    /\ \A p \in Nat : p < SizeOf(f, j) => UnitIn(h, j, p) = UnitIn(f, j, p)

\* All files but i are the same.
OthersSame(f, h, i) == \A j \in f.inode_bitmap \ {i} : SameFile(f, h, j)

\* h is f with `buf` put at `offset` of file i, and zeros where it skips.
HasPut(f, h, i, offset, buf) ==
    /\ h.inode_bitmap = f.inode_bitmap
    /\ OthersSame(f, h, i)
    /\ SizeOf(h, i) = Greater(offset + Len(buf), SizeOf(f, i))
    /\ \A p \in Nat : p < SizeOf(h, i) =>
          UnitIn(h, i, p) = IF InBuffer(p, offset, buf) THEN buf[p - offset + 1]
                            ELSE IF p < SizeOf(f, i) THEN UnitIn(f, i, p) ELSE 0

\* A unit of a file is in its blocks.
LEMMA InLastBlock ==
    ASSUME NEW size \in Nat, NEW p \in Nat, p < size
    PROVE  p < data_blocks(size) * BLOCK_SZ
  BY DataBlocks

\* Files that are kept have the same units.
LEMMA KeptSame ==
    ASSUME NEW f, NEW h, NEW i, OthersKept(f, h, i)
    PROVE  OthersSame(f, h, i)
<1> SUFFICES ASSUME NEW j \in f.inode_bitmap \ {i} PROVE SameFile(f, h, j)
  BY DEF OthersSame
<1>1. Kept(f, h, j) /\ SizeOf(f, j) \in Nat
  BY DEF OthersKept
<1>2. /\ SizeOf(h, j) = SizeOf(f, j)
      /\ \A p \in Nat : p < data_blocks(SizeOf(f, j)) * BLOCK_SZ =>
            UnitIn(h, j, p) = UnitIn(f, j, p)
  BY <1>1, KeptFacts
<1> QED  BY <1>1, <1>2, InLastBlock DEF SameFile

\* Two steps that leave a file alone are one.
LEMMA SameTwice ==
    ASSUME NEW f, NEW g, NEW h, NEW i, g.inode_bitmap = f.inode_bitmap,
           OthersSame(f, g, i), OthersSame(g, h, i)
    PROVE  OthersSame(f, h, i)
  BY DEF OthersSame, SameFile

\* What Grow does to the files: new_size or the old one, whichever is greater.
LEMMA GrowFile ==
    ASSUME NEW f, Core(efs, super, f), NEW i \in f.inode_bitmap, NEW new_size \in Nat,
           CanGrow(f, i, new_size),
           NEW g, g = Grow(f, i, new_size)
    PROVE  /\ Core(efs, super, g)
           /\ g.inode_bitmap = f.inode_bitmap
           /\ OthersSame(f, g, i)
           /\ SizeOf(g, i) = Greater(new_size, SizeOf(f, i))
           /\ \A p \in Nat : p < SizeOf(g, i) =>
                 UnitIn(g, i, p) = IF p < SizeOf(f, i) THEN UnitIn(f, i, p) ELSE 0
<1>0. SizeOf(f, i) \in Nat
  BY DiskTypes DEF Core
<1>1. CASE new_size < SizeOf(f, i)
  <2>1. g = f
    BY <1>1 DEF Grow, SizeOf
  <2>2. OthersSame(f, f, i)
    BY DEF OthersSame, SameFile
  <2>3. SizeOf(f, i) = Greater(new_size, SizeOf(f, i))
    BY <1>1 DEF Greater
  <2> QED  BY <2>1, <2>2, <2>3
<1>2. CASE SizeOf(f, i) <= new_size
  <2>1. /\ DiskTyped(efs, super, g) /\ Grown(efs, f, g, i, new_size)
        /\ data_blocks(new_size) <= INDIRECT2_BOUND
    BY <1>2, GrowResult
  <2>2. Core(efs, super, g)
    BY <1>2, <2>1, GrowCore
  <2>3. OthersSame(f, g, i)
    BY <2>1, GrowOthers, KeptSame
  <2>4. GrownUnits(f, g, i, new_size)
    BY <1>2, <2>1, GrowUnits
  <2>5. g.inode_bitmap = f.inode_bitmap /\ SizeOf(g, i) = new_size
    BY <2>1 DEF Grown
  <2>6. new_size = Greater(new_size, SizeOf(f, i))
    BY <1>0, <1>2 DEF Greater
  <2>7. \A p \in Nat : p < new_size =>
           UnitIn(g, i, p) = IF p < SizeOf(f, i) THEN UnitIn(f, i, p) ELSE 0
    BY <2>4, InLastBlock DEF GrownUnits
  <2> QED  BY <2>2, <2>3, <2>5, <2>6, <2>7
<1> QED  BY <1>0, <1>1, <1>2

\* increase_size and write_at put the buffer into the file, and change no
\* other.
LEMMA PutFile ==
    ASSUME NEW f, Core(efs, super, f), NEW i \in f.inode_bitmap,
           NEW offset \in Nat, NEW buf \in Seq(Nat), Len(buf) > 0,
           CanGrow(f, i, offset + Len(buf))
    PROVE  /\ Core(efs, super, Put(f, i, offset, buf))
           /\ HasPut(f, Put(f, i, offset, buf), i, offset, buf)
<1> DEFINE new_size == offset + Len(buf)
           g == Grow(f, i, new_size)
           h == Put(f, i, offset, buf)
<1>0. SizeOf(f, i) \in Nat /\ new_size \in Nat /\ Len(buf) \in Nat
  BY DiskTypes, LenProperties DEF Core
<1>1. /\ Core(efs, super, g)
      /\ g.inode_bitmap = f.inode_bitmap
      /\ OthersSame(f, g, i)
      /\ SizeOf(g, i) = Greater(new_size, SizeOf(f, i))
      /\ \A p \in Nat : p < SizeOf(g, i) =>
            UnitIn(g, i, p) = IF p < SizeOf(f, i) THEN UnitIn(f, i, p) ELSE 0
  <2> HIDE DEF new_size
  <2>1. CanGrow(f, i, new_size)
    BY DEF new_size
  <2> QED  BY <1>0, <2>1, GrowFile
<1>2. h = PutInto(g, i, offset, buf)
  BY DEF Put, PutInto
<1> HIDE DEF g, h
<1>3. i \in g.inode_bitmap /\ offset + Len(buf) <= SizeOf(g, i) /\ SizeOf(g, i) \in Nat
  <2>1. offset + Len(buf) <= Greater(offset + Len(buf), SizeOf(f, i))
        /\ Greater(offset + Len(buf), SizeOf(f, i)) \in Nat
    BY <1>0 DEF Greater
  <2> QED  BY <1>1, <2>1
<1>4. Core(efs, super, h) /\ WrittenUnits(g, h, i, offset, buf)
  BY <1>1, <1>2, <1>3, WriteCore, WriteUnits
<1>5. OthersKept(g, h, i) /\ SizeOf(h, i) = SizeOf(g, i) /\ h.inode_bitmap = g.inode_bitmap
  BY <1>1, <1>2, <1>3, WriteOthers, WriteBlocks
<1>6. OthersSame(f, h, i)
  BY <1>1, <1>5, KeptSame, SameTwice
<1>7. ASSUME NEW p \in Nat, p < SizeOf(h, i)
      PROVE  UnitIn(h, i, p) = IF InBuffer(p, offset, buf) THEN buf[p - offset + 1]
                               ELSE IF p < SizeOf(f, i) THEN UnitIn(f, i, p) ELSE 0
  <2>1. p < data_blocks(SizeOf(g, i)) * BLOCK_SZ
    BY <1>3, <1>5, <1>7, InLastBlock
  <2>2. UnitIn(h, i, p) = IF InBuffer(p, offset, buf) THEN buf[p - offset + 1]
                          ELSE UnitIn(g, i, p)
    BY <1>4, <2>1 DEF WrittenUnits
  <2>3. UnitIn(g, i, p) = IF p < SizeOf(f, i) THEN UnitIn(f, i, p) ELSE 0
    BY <1>1, <1>5, <1>7
  <2> QED  BY <2>2, <2>3
<1>8. HasPut(f, h, i, offset, buf)
  BY <1>1, <1>5, <1>6, <1>7 DEF HasPut
<1> QED  BY <1>4, <1>8 DEF h

\* h has an empty inode i, and is otherwise f.
Emptied(f, h, i) ==
    /\ h.inode_bitmap = f.inode_bitmap \cup {i}
    /\ OthersSame(f, h, i)
    /\ SizeOf(h, i) = 0

\* An empty file has no places.
LEMMA NoPlaces ==
    data_blocks(0) = 0 /\ PlacesOf(data_blocks(0)) = 0 /\ 0 * BLOCK_SZ = 0
<1>1. data_blocks(0) \in Nat /\ data_blocks(0) * BLOCK_SZ < 0 + BLOCK_SZ
  BY DataBlocks
<1>2. data_blocks(0) >= 1 => 1 * BLOCK_SZ <= data_blocks(0) * BLOCK_SZ
  BY <1>1, Times, Sizes
<1>3. data_blocks(0) = 0
  BY <1>1, <1>2, Sizes
<1> QED  BY <1>3, Sizes DEF PlacesOf

\* DiskInode::initialize makes an empty inode.
LEMMA Initialized ==
    ASSUME NEW type \in {"Directory", "File"}
    PROVE  initialize(type) \in DiskInodes /\ initialize(type).size = 0
  BY Sizes DEF initialize, DiskInodes

\* Inode i of h is empty, its blocks are zero and no longer marked, and all
\* else is as in f.
MadeEmpty(e, f, h, i) ==
    /\ h.inode_bitmap = f.inode_bitmap \cup {i}
    /\ SizeOf(h, i) = 0
    /\ \A j \in f.inode_bitmap \ {i} : h.inodes[j] = f.inodes[j]
    /\ \A b \in DOMAIN f.blocks :
          h.blocks[b] = IF OwnedBy(f, i, b) THEN ZeroBlock ELSE f.blocks[b]
    /\ \A b : b \in Marked(e, h) <=> b \in Marked(e, f) /\ ~OwnedBy(f, i, b)

\* An inode is emptied and its blocks are free and zero: the disk is sound.
LEMMA EmptyCore ==
    ASSUME NEW e, NEW s, NEW f, NEW h, NEW i, Core(e, s, f), DiskTyped(e, s, h),
           MadeEmpty(e, f, h, i)
    PROVE  Core(e, s, h) /\ Emptied(f, h, i)
<1> USE DEF MadeEmpty
<1>0. DiskTyped(e, s, f) /\ DOMAIN h.blocks = DOMAIN f.blocks
  BY DiskTypes DEF Core
<1>1. PlacesIn(h, i) = 0
  BY NoPlaces DEF PlacesIn
<1>2. \A n : ~Holds(h, i, n)
  BY <1>1 DEF Holds
<1>3. \A b : ~OwnedBy(h, i, b)
  BY <1>2 DEF OwnedBy
<1>4. Handed(e, f, h, i)
  BY <1>2, <1>3 DEF Handed
<1>5. OthersKept(f, h, i)
  <2>1. SUFFICES ASSUME NEW j \in f.inode_bitmap \ {i}
                 PROVE  Kept(f, h, j) /\ SizeOf(f, j) \in Nat
    BY DEF OthersKept
  <2>2. SizeOf(f, j) \in Nat
    BY <1>0, DiskTypes
  <2>3. ASSUME NEW n \in Nat, n < PlacesIn(f, j)
        PROVE  h.blocks[BlockIn(f, j, n)] = f.blocks[BlockIn(f, j, n)]
    <3>1. Holds(f, j, n)
      BY <2>1, <2>3 DEF Holds
    <3>2. BlockIn(f, j, n) \in DOMAIN f.blocks /\ ~OwnedBy(f, i, BlockIn(f, j, n))
      BY <2>1, <3>1 DEF Core, Ownership, OwnedBy
    <3> QED  BY <3>2
  <2> QED  BY <2>1, <2>2, <2>3 DEF Kept
<1>6. Ownership(e, h)
  BY <1>4, <1>5, OwnStep DEF Core
<1>7. \A j \in f.inode_bitmap \ {i} :
         /\ SizeOf(h, j) = SizeOf(f, j)
         /\ \A p \in Nat : p < data_blocks(SizeOf(f, j)) * BLOCK_SZ =>
               UnitIn(h, j, p) = UnitIn(f, j, p)
  BY <1>5, KeptFacts DEF OthersKept
<1>8. SizesBounded(h)
  <2>1. data_blocks(SizeOf(h, i)) <= INDIRECT2_BOUND
    <3>1. INDIRECT2_BOUND \in Nat
      <4>1. BLOCK_SZ * BLOCK_SZ \in Nat
        BY Times, Sizes
      <4> QED  BY <4>1, Sizes DEF INDIRECT2_BOUND, INDIRECT1_BOUND, DIRECT_BOUND,
                     INODE_INDIRECT1_COUNT, INODE_INDIRECT2_COUNT
    <3> QED  BY <3>1, NoPlaces
  <2> QED  BY <1>7, <2>1 DEF SizesBounded, Core
<1>9. Marked(e, h) \subseteq DOMAIN h.blocks
  BY <1>0 DEF Core
<1>10. FreeZero(e, h)
  <2>1. SUFFICES ASSUME NEW b \in DOMAIN f.blocks \ {0}, b \notin Marked(e, h)
                 PROVE  h.blocks[b] = ZeroBlock
    BY <1>0 DEF FreeZero
  <2>2. b \notin Marked(e, f) \/ OwnedBy(f, i, b)
    BY <2>1
  <2> QED  BY <2>1, <2>2 DEF Core, FreeZero
<1>11. ASSUME NEW j \in h.inode_bitmap PROVE TailZero(h, j)
  <2>1. CASE j = i
    <3>1. \A p \in Nat : ~(p < data_blocks(SizeOf(h, i)) * BLOCK_SZ)
      BY NoPlaces
    <3> QED  BY <2>1, <3>1 DEF TailZero
  <2>2. CASE j # i
    BY <1>7, <1>11, <2>2 DEF TailZero, Core
  <2> QED  BY <2>1, <2>2
<1>12. h.blocks[0] = SuperBlockUnits
  <2>1. 0 \notin Marked(e, f) /\ 0 \in DOMAIN f.blocks
    BY <1>0, MarkedNotZero, DiskTypes
  <2>2. ~OwnedBy(f, i, 0)
    BY <2>1 DEF OwnedBy, Core, Ownership
  <2> QED  BY <2>1, <2>2 DEF Core
<1>13. Emptied(f, h, i)
  BY <1>5, KeptSame DEF Emptied
<1> QED  BY <1>6, <1>8, <1>9, <1>10, <1>11, <1>12, <1>13 DEF Core

\* What clear does to the disk.
Cleared(e, f, i) ==
    LET v == ToSet(cleared_blocks(f.inodes[i], f.blocks))
    IN  [f EXCEPT
           !.inodes[i] = initialize(@.type_),
           !.data_bitmap = @ \ {b - e.data_area_start_block : b \in v},
           !.blocks = [b \in DOMAIN @ |-> IF b \in v THEN ZeroBlock ELSE @[b]]]

\* clear_size gives back all blocks of the inode.
LEMMA ClearedOwned ==
    ASSUME NEW e, NEW s, NEW f, NEW i \in f.inode_bitmap, DiskTyped(e, s, f), NEW b
    PROVE  b \in ToSet(cleared_blocks(f.inodes[i], f.blocks)) <=> OwnedBy(f, i, b)
<1> DEFINE T == PlacesIn(f, i)
           F == Indexes(f.inodes[i], f.blocks)
<1>1. SizeOf(f, i) \in Nat /\ T \in Nat
  BY DiskTypes
<1>2. cleared_blocks(f.inodes[i], f.blocks) = Segment(F, 0, T)
  BY <1>1, ClearedSegment DEF SizeOf, PlacesIn
<1> HIDE DEF F, T
<1>3. DOMAIN Segment(F, 0, T) = 1..T /\ \A k \in 1..T : Segment(F, 0, T)[k] = F[k - 1]
  <2>1. T - 0 = T /\ \A k \in 1..T : 0 + k - 1 = k - 1
    BY <1>1
  <2> QED  BY <2>1 DEF Segment
<1>4. \A n \in Nat : F[n] = BlockIn(f, i, n)
  BY DEF F, Indexes, BlockIn
<1>5. b \in ToSet(Segment(F, 0, T)) <=> \E k \in 1..T : F[k - 1] = b
  BY <1>3 DEF ToSet
<1>6. (\E k \in 1..T : F[k - 1] = b) <=> \E n \in Nat : n < T /\ F[n] = b
  <2>1. ASSUME NEW k \in 1..T, F[k - 1] = b PROVE \E n \in Nat : n < T /\ F[n] = b
    <3>1. k - 1 \in Nat /\ k - 1 < T
      BY <1>1
    <3> QED  BY <2>1, <3>1
  <2>2. ASSUME NEW n \in Nat, n < T, F[n] = b PROVE \E k \in 1..T : F[k - 1] = b
    <3>1. n + 1 \in 1..T /\ (n + 1) - 1 = n
      BY <1>1, <2>2
    <3> QED  BY <2>2, <3>1
  <2> QED  BY <2>1, <2>2
<1>7. OwnedBy(f, i, b) <=> \E n \in Nat : n < T /\ F[n] = b
  BY <1>4 DEF OwnedBy, Holds, T
<1> QED  BY <1>2, <1>5, <1>6, <1>7

\* Inode::clear empties one file and keeps the invariant of the disk.
LEMMA ClearFile ==
    ASSUME NEW e, NEW s, NEW f, NEW i \in f.inode_bitmap, Core(e, s, f)
    PROVE  Core(e, s, Cleared(e, f, i)) /\ Emptied(f, Cleared(e, f, i), i)
<1> DEFINE v == ToSet(cleared_blocks(f.inodes[i], f.blocks))
           st == e.data_area_start_block
           bits == {b - e.data_area_start_block : b \in v}
           h == Cleared(e, f, i)
           new == initialize(f.inodes[i].type_)
           zeroed == [b \in DOMAIN f.blocks |-> IF b \in v THEN ZeroBlock ELSE f.blocks[b]]
<1>0. DiskTyped(e, s, f)
  BY DEF Core
<1>1. /\ f.inodes[i] \in DiskInodes /\ st \in Nat /\ BlocksTyped(f.blocks)
      /\ DOMAIN f.blocks = BlockIds(e, s) /\ i \in Inodes(e)
      /\ \A b \in f.data_bitmap : b \in Nat
  BY <1>0, DiskTypes
<1>2. new \in DiskInodes /\ new.size = 0
  <2>1. f.inodes[i].type_ \in {"Directory", "File"}
    BY <1>1 DEF DiskInodes
  <2> QED  BY <2>1, Initialized
<1>3. h = [f EXCEPT !.inodes[i] = new, !.data_bitmap = @ \ bits, !.blocks = zeroed]
  BY DEF Cleared
<1>4. \A b : b \in v <=> OwnedBy(f, i, b)
  BY <1>0, ClearedOwned
<1> HIDE DEF v, new, h
<1>5. zeroed \in [BlockIds(e, s) -> [0..(BLOCK_SZ - 1) -> Nat]]
  <2>1. ZeroBlock \in [0..(BLOCK_SZ - 1) -> Nat]
    BY DEF ZeroBlock
  <2> QED  BY <1>1, <2>1 DEF BlocksTyped
<1>6. \A b \in DOMAIN f.blocks : zeroed[b] = IF OwnedBy(f, i, b) THEN ZeroBlock ELSE f.blocks[b]
  BY <1>4
<1> HIDE DEF zeroed
<1>7. /\ h.inode_bitmap = f.inode_bitmap
      /\ h.data_bitmap = f.data_bitmap \ bits
      /\ h.inodes = [f.inodes EXCEPT ![i] = new]
      /\ h.blocks = zeroed
  BY <1>0, <1>3 DEF DiskTyped
<1>8. DiskTyped(e, s, h)
  <2>1. h.inodes \in [Inodes(e) -> DiskInodes]
    BY <1>0, <1>2, <1>7 DEF DiskTyped
  <2>2. h = [inode_bitmap |-> h.inode_bitmap, data_bitmap |-> h.data_bitmap,
             inodes |-> h.inodes, blocks |-> h.blocks]
    BY <1>0, <1>3 DEF DiskTyped
  <2>3. /\ h.inode_bitmap \in SUBSET Inodes(e)
        /\ h.data_bitmap \in SUBSET (0..(maximum(e.data_bitmap.blocks) - 1))
    BY <1>0, <1>7 DEF DiskTyped
  <2> QED  BY <1>0, <1>5, <1>7, <2>1, <2>2, <2>3 DEF DiskTyped
<1>9. /\ h.inodes[i] = new /\ SizeOf(h, i) = 0
      /\ \A j \in f.inode_bitmap \ {i} : h.inodes[j] = f.inodes[j]
  BY <1>0, <1>1, <1>2, <1>7 DEF SizeOf, DiskTyped
<1>10. ASSUME NEW b PROVE b \in Marked(e, h) <=> b \in Marked(e, f) /\ ~OwnedBy(f, i, b)
  <2>1. \A c \in v : c \in Nat
    BY <1>0, <1>4, MarkedNotZero DEF OwnedBy, Core, Ownership
  <2>2. \A c \in f.data_bitmap : c \in bits <=> c + st \in v
    <3>1. \A c \in f.data_bitmap : c + st \in v => (c + st) - st = c
      BY <1>1
    <3>2. \A x \in v : (x - st) + st = x
      BY <1>1, <2>1
    <3> QED  BY <3>1, <3>2
  <2>3. b \in Marked(e, h) <=> \E c \in f.data_bitmap : c \notin bits /\ b = c + st
    BY <1>7 DEF Marked
  <2>4. b \in Marked(e, f) <=> \E c \in f.data_bitmap : b = c + st
    BY DEF Marked
  <2> HIDE DEF bits
  <2> QED  BY <1>4, <2>2, <2>3, <2>4
<1>11. h.inode_bitmap = f.inode_bitmap \cup {i}
  BY <1>7
<1>12. Core(e, s, h) /\ Emptied(f, h, i)
  <2>1. MadeEmpty(e, f, h, i)
    BY <1>6, <1>7, <1>9, <1>10, <1>11 DEF MadeEmpty
  <2> QED  BY <1>8, <2>1, EmptyCore
<1> QED  BY <1>12 DEF h

\* An inode that was free is made empty.
LEMMA AddFile ==
    ASSUME NEW e, NEW s, NEW f, Core(e, s, f), NEW i \in Inodes(e) \ f.inode_bitmap,
           NEW h, h = [f EXCEPT !.inode_bitmap = @ \cup {i},
                                !.inodes[i] = initialize("File")]
    PROVE  Core(e, s, h) /\ Emptied(f, h, i)
<1>0. DiskTyped(e, s, f)
  BY DEF Core
<1> DEFINE new == initialize("File")
<1>1. new \in DiskInodes /\ new.size = 0
  BY Initialized
<1> HIDE DEF new
<1>2. /\ h.inode_bitmap = f.inode_bitmap \cup {i}
      /\ h.data_bitmap = f.data_bitmap
      /\ h.inodes = [f.inodes EXCEPT ![i] = new]
      /\ h.blocks = f.blocks
  BY <1>0 DEF DiskTyped, new
<1>3. DiskTyped(e, s, h)
  <2>1. h.inodes \in [Inodes(e) -> DiskInodes]
    BY <1>0, <1>1, <1>2 DEF DiskTyped
  <2>2. h = [inode_bitmap |-> h.inode_bitmap, data_bitmap |-> h.data_bitmap,
             inodes |-> h.inodes, blocks |-> h.blocks]
    BY <1>0 DEF DiskTyped
  <2>3. /\ h.inode_bitmap \in SUBSET Inodes(e)
        /\ h.data_bitmap \in SUBSET (0..(maximum(e.data_bitmap.blocks) - 1))
        /\ h.blocks \in [BlockIds(e, s) -> [0..(BLOCK_SZ - 1) -> Nat]]
    BY <1>0, <1>2 DEF DiskTyped
  <2> QED  BY <1>0, <2>1, <2>2, <2>3 DEF DiskTyped
<1>4. /\ SizeOf(h, i) = 0
      /\ \A j \in f.inode_bitmap \ {i} : h.inodes[j] = f.inodes[j]
  BY <1>0, <1>1, <1>2 DEF SizeOf, DiskTyped
<1>5. \A b : ~OwnedBy(f, i, b)
  BY DEF OwnedBy, Holds
<1>6. Marked(e, h) = Marked(e, f)
  BY <1>2 DEF Marked
<1>7. MadeEmpty(e, f, h, i)
  BY <1>2, <1>4, <1>5, <1>6 DEF MadeEmpty
<1> QED  BY <1>3, <1>7, EmptyCore

\* The units of a file are numbers.
LEMMA UnitNat ==
    ASSUME NEW e, NEW s, NEW f, Core(e, s, f), NEW i \in f.inode_bitmap,
           NEW p \in Nat, p < SizeOf(f, i)
    PROVE  UnitIn(f, i, p) \in Nat
<1> DEFINE n == DataPlace(p \div BLOCK_SZ)
<1>0. DiskTyped(e, s, f)
  BY DEF Core
<1>1. SizeOf(f, i) \in Nat /\ BlocksTyped(f.blocks)
  BY <1>0, DiskTypes
<1>2. p < data_blocks(SizeOf(f, i)) * BLOCK_SZ
  BY <1>1, InLastBlock
<1>3. n \in Nat /\ n < PlacesIn(f, i)
  BY <1>1, <1>2, DataInPlaces DEF PlacesIn
<1>4. UnitIn(f, i, p) = f.blocks[BlockIn(f, i, n)][p % BLOCK_SZ]
  BY DEF UnitIn, Unit, BlockIn
<1>5. p % BLOCK_SZ \in 0..(BLOCK_SZ - 1)
  BY BlockOf
<1> DEFINE u == p % BLOCK_SZ
<1> HIDE DEF n, u
<1>6. Holds(f, i, n)
  BY <1>3 DEF Holds
<1>7. BlockIn(f, i, n) \in DOMAIN f.blocks
  BY <1>6 DEF Core, Ownership
<1>8. u \in 0..(BLOCK_SZ - 1) /\ UnitIn(f, i, p) = f.blocks[BlockIn(f, i, n)][u]
  BY <1>4, <1>5 DEF u
<1> QED  BY <1>1, <1>7, <1>8 DEF BlocksTyped

-----------------------------------------------------------------------------
(* The directory                                                           *)

\* Entry k of the directory, its name and its inode.
IsEntry(f, k) == k \in Nat /\ k < dirents(f)
EntryName(f, k) == UnitIn(f, 0, 2 * k)
EntryInode(f, k) == UnitIn(f, 0, 2 * k + 1)

\* The root is a whole number of entries, with names and inodes of their own,
\* for all inodes but the root.
Directory(f) ==
    /\ 0 \in f.inode_bitmap
    /\ SizeOf(f, 0) = 2 * dirents(f)
    /\ \A j, k : IsEntry(f, j) /\ IsEntry(f, k) /\ j # k =>
          EntryName(f, j) # EntryName(f, k) /\ EntryInode(f, j) # EntryInode(f, k)
    /\ \A k : IsEntry(f, k) => EntryInode(f, k) \in f.inode_bitmap \ {0}
    /\ \A i \in f.inode_bitmap \ {0} : \E k : IsEntry(f, k) /\ EntryInode(f, k) = i

\* The number of entries of the directory.
LEMMA Dirents ==
    ASSUME NEW e, NEW s, NEW f, Core(e, s, f), 0 \in f.inode_bitmap
    PROVE  /\ SizeOf(f, 0) \in Nat /\ dirents(f) \in Nat
           /\ \A n \in Nat : SizeOf(f, 0) = 2 * n => dirents(f) = n
<1>1. SizeOf(f, 0) \in Nat
  BY DiskTypes DEF Core
<1>2. dirents(f) = SizeOf(f, 0) \div 2
  BY DEF dirents, DIRENT_SZ, SizeOf
<1>3. SizeOf(f, 0) \div 2 \in Nat /\ \A n \in Nat : SizeOf(f, 0) = 2 * n => SizeOf(f, 0) \div 2 = n
  BY <1>1
<1> QED  BY <1>1, <1>2, <1>3

\* An entry is read as its name and its inode.
LEMMA Dirent ==
    ASSUME NEW e, NEW s, NEW f, Core(e, s, f), Directory(f), NEW k, IsEntry(f, k)
    PROVE  /\ dirent(f, k)[1] = EntryName(f, k) /\ dirent(f, k)[2] = EntryInode(f, k)
           /\ EntryName(f, k) \in Nat /\ EntryInode(f, k) \in Nat
<1> DEFINE x == 2 * k
           y == x + 2
           F == Units(f.inodes[0], f.blocks)
<1>1. 0 \in f.inode_bitmap /\ SizeOf(f, 0) = 2 * dirents(f) /\ k \in Nat /\ k < dirents(f)
  BY DEF Directory, IsEntry
<1>2. SizeOf(f, 0) \in Nat /\ dirents(f) \in Nat
  BY <1>1, Dirents
<1>3. x \in Nat /\ y \in Nat /\ y <= SizeOf(f, 0) /\ x + 1 \in Nat
  BY <1>1, <1>2
<1>4. Lesser(x + 2, f.inodes[0].size) = y /\ f.inodes[0].size \in Nat
  BY <1>2, <1>3 DEF Lesser, SizeOf
<1>5. dirent(f, k) = read_at(f.inodes[0], f.blocks, x, 2)
  BY DEF dirent, DIRENT_SZ
<1> HIDE DEF x
<1>6. read_at(f.inodes[0], f.blocks, x, 2)
        = IF x >= Lesser(x + 2, f.inodes[0].size) THEN <<>>
          ELSE Segment(F, x, Lesser(x + 2, f.inodes[0].size))
  BY ZenonT(60), <1>3, <1>4, ReadAt
<1>7. ~(x >= y)
  BY <1>3
<1>8. dirent(f, k) = Segment(F, x, y)
  BY <1>4, <1>5, <1>6, <1>7
<1>9. /\ y - x = 2 /\ 1 \in 1..2 /\ 2 \in 1..2 /\ x + 1 - 1 = x /\ x + 2 - 1 = x + 1
  BY <1>3
<1> HIDE DEF y, F
<1>10. Segment(F, x, y)[1] = F[x] /\ Segment(F, x, y)[2] = F[x + 1]
  BY <1>9 DEF Segment
<1>11. F[x] = EntryName(f, k) /\ F[x + 1] = EntryInode(f, k)
  BY <1>3 DEF F, Units, EntryName, EntryInode, UnitIn, x
<1>12. EntryName(f, k) \in Nat /\ EntryInode(f, k) \in Nat
  <2>1. x < SizeOf(f, 0) /\ x + 1 < SizeOf(f, 0)
    BY <1>2, <1>3 DEF y
  <2>2. UnitIn(f, 0, x) \in Nat /\ UnitIn(f, 0, x + 1) \in Nat
    BY <1>1, <1>3, <2>1, UnitNat
  <2> QED  BY <2>2 DEF EntryName, EntryInode, x
<1> QED  BY <1>8, <1>10, <1>11, <1>12

\* find_inode_id finds the inode of the entry with that name.
LEMMA FindInode ==
    ASSUME NEW e, NEW s, NEW f, Core(e, s, f), Directory(f), NEW name
    PROVE  \/ /\ find_inode_id(f, name) = None
              /\ \A k : IsEntry(f, k) => EntryName(f, k) # name
           \/ /\ find_inode_id(f, name) # None
              /\ \E k : /\ IsEntry(f, k) /\ EntryName(f, k) = name
                        /\ find_inode_id(f, name) = EntryInode(f, k)
<1> DEFINE hits == {k \in 0..(dirents(f) - 1) : dirent(f, k)[1] = name}
<1>1. dirents(f) \in Nat
  BY Dirents DEF Directory
<1>2. \A k : k \in 0..(dirents(f) - 1) <=> IsEntry(f, k)
  BY <1>1 DEF IsEntry
<1>3. \A k : k \in hits <=> IsEntry(f, k) /\ EntryName(f, k) = name
  BY <1>2, Dirent
<1>4. find_inode_id(f, name) = IF hits = {} THEN None ELSE dirent(f, Min(hits))[2]
  BY DEF find_inode_id
<1>5. hits \in SUBSET Nat
  BY <1>1
<1> HIDE DEF hits
<1>6. CASE hits = {}
  BY <1>3, <1>4, <1>6
<1>7. CASE hits # {}
  <2>1. Min(hits) \in hits
    <3>1. \E m \in hits : \A n \in hits : m <= n
      BY <1>5, <1>7, LeastNatural
    <3> QED  BY <3>1 DEF Min
  <2>2. find_inode_id(f, name) = EntryInode(f, Min(hits)) /\ EntryInode(f, Min(hits)) \in Nat
    BY <1>3, <1>4, <1>7, <2>1, Dirent
  <2>3. find_inode_id(f, name) # None
    BY <2>2, EasyFsAssumption
  <2> QED  BY <1>3, <2>1, <2>2, <2>3
<1> QED  BY <1>6, <1>7

\* A directory that has the same units is the same.
LEMMA DirectorySame ==
    ASSUME NEW e, NEW s, NEW f, NEW h, Core(e, s, f), Core(e, s, h), Directory(f),
           SameFile(f, h, 0), h.inode_bitmap = f.inode_bitmap
    PROVE  /\ Directory(h)
           /\ \A k : IsEntry(h, k) <=> IsEntry(f, k)
           /\ \A k : IsEntry(f, k) => EntryName(h, k) = EntryName(f, k)
                                      /\ EntryInode(h, k) = EntryInode(f, k)
<1>1. SizeOf(h, 0) = SizeOf(f, 0) /\ 0 \in f.inode_bitmap /\ SizeOf(f, 0) = 2 * dirents(f)
  BY DEF SameFile, Directory
<1>2. dirents(f) \in Nat /\ dirents(h) = dirents(f)
  <2>1. dirents(f) \in Nat
    BY <1>1, Dirents
  <2> QED  BY <1>1, <2>1, Dirents
<1>3. \A k : IsEntry(h, k) <=> IsEntry(f, k)
  BY <1>2 DEF IsEntry
<1>4. ASSUME NEW k, IsEntry(f, k)
      PROVE  EntryName(h, k) = EntryName(f, k) /\ EntryInode(h, k) = EntryInode(f, k)
  <2> DEFINE x == 2 * k
             y == 2 * k + 1
  <2>1. x \in Nat /\ y \in Nat /\ x < SizeOf(f, 0) /\ y < SizeOf(f, 0)
    BY <1>1, <1>2, <1>4 DEF IsEntry
  <2> HIDE DEF x, y
  <2>2. UnitIn(h, 0, x) = UnitIn(f, 0, x) /\ UnitIn(h, 0, y) = UnitIn(f, 0, y)
    BY <2>1 DEF SameFile
  <2> QED  BY <2>2 DEF EntryName, EntryInode, x, y
<1>5. Directory(h)
  BY <1>1, <1>2, <1>3, <1>4 DEF Directory
<1> QED  BY <1>3, <1>4, <1>5

\* An entry put at the end of the directory, for an inode that was added.
LEMMA DirectoryAdd ==
    ASSUME NEW e, NEW s, NEW f, NEW g, NEW h, NEW i \in Nat, NEW name \in Nat,
           Core(e, s, f), Core(e, s, g), Core(e, s, h), Directory(f),
           i \notin f.inode_bitmap, Emptied(f, g, i),
           \A k : IsEntry(f, k) => EntryName(f, k) # name,
           NEW n, n = dirents(f), HasPut(g, h, 0, 2 * n, <<name, i>>)
    PROVE  /\ Directory(h)
           /\ n \in Nat
           /\ \A k : IsEntry(h, k) <=> IsEntry(f, k) \/ k = n
           /\ \A k : IsEntry(f, k) => k # n /\ EntryName(h, k) = EntryName(f, k)
                                      /\ EntryInode(h, k) = EntryInode(f, k)
           /\ EntryName(h, n) = name /\ EntryInode(h, n) = i
<1>1. 0 \in f.inode_bitmap /\ SizeOf(f, 0) = 2 * n /\ i # 0
  BY DEF Directory
<1>2. n \in Nat
  BY <1>1, Dirents
<1>3. /\ g.inode_bitmap = f.inode_bitmap \cup {i} /\ SameFile(f, g, 0)
  BY <1>1 DEF Emptied, OthersSame
<1>4. SizeOf(g, 0) = 2 * n
  BY <1>1, <1>3 DEF SameFile
<1> DEFINE buf == <<name, i>>
           x == 2 * n
<1>5. Len(buf) = 2 /\ buf[1] = name /\ buf[2] = i
  OBVIOUS
<1>6. /\ h.inode_bitmap = g.inode_bitmap
      /\ SizeOf(h, 0) = Greater(x + Len(buf), SizeOf(g, 0))
      /\ \A p \in Nat : p < SizeOf(h, 0) =>
            UnitIn(h, 0, p) = IF InBuffer(p, x, buf) THEN buf[p - x + 1]
                              ELSE IF p < SizeOf(g, 0) THEN UnitIn(g, 0, p) ELSE 0
  BY DEF HasPut
<1> HIDE DEF buf
<1>7. SizeOf(h, 0) = x + 2 /\ x + 2 = 2 * (n + 1) /\ x \in Nat
  BY <1>2, <1>4, <1>5, <1>6 DEF Greater
<1>8. h.inode_bitmap = f.inode_bitmap \cup {i} /\ 0 \in h.inode_bitmap
  BY <1>1, <1>3, <1>6
<1>9. dirents(h) = n + 1
  <2>1. n + 1 \in Nat /\ SizeOf(h, 0) = 2 * (n + 1)
    BY <1>2, <1>7
  <2> QED  BY <1>8, <2>1, Dirents
<1>10. /\ \A k : IsEntry(h, k) <=> IsEntry(f, k) \/ k = n
       /\ \A k : IsEntry(f, k) => k # n
  BY <1>2, <1>9 DEF IsEntry
<1>11. ASSUME NEW p \in Nat, p < x PROVE UnitIn(h, 0, p) = UnitIn(f, 0, p)
  <2>1. ~InBuffer(p, x, buf) /\ p < SizeOf(h, 0) /\ p < SizeOf(g, 0) /\ p < SizeOf(f, 0)
    BY <1>1, <1>2, <1>4, <1>5, <1>7, <1>11 DEF InBuffer
  <2>2. UnitIn(h, 0, p) = UnitIn(g, 0, p)
    BY <1>6, <2>1
  <2> QED  BY <1>3, <2>1, <2>2 DEF SameFile
<1>12. UnitIn(h, 0, x) = name /\ UnitIn(h, 0, x + 1) = i
  <2> HIDE DEF x
  <2>1. InBuffer(x, x, buf) /\ x < SizeOf(h, 0) /\ x - x + 1 = 1
    BY <1>5, <1>7 DEF InBuffer
  <2> DEFINE y == x + 1
  <2>2. InBuffer(y, x, buf) /\ y < SizeOf(h, 0) /\ y - x + 1 = 2 /\ y \in Nat
    BY <1>5, <1>7 DEF InBuffer
  <2> HIDE DEF y
  <2>3. UnitIn(h, 0, x) = name
    BY <1>5, <1>6, <1>7, <2>1
  <2>4. UnitIn(h, 0, y) = i
    BY <1>5, <1>6, <2>2
  <2> QED  BY <2>3, <2>4 DEF y
<1>13. EntryName(h, n) = name /\ EntryInode(h, n) = i
  BY <1>12 DEF EntryName, EntryInode
<1>14. ASSUME NEW k, IsEntry(f, k)
       PROVE  EntryName(h, k) = EntryName(f, k) /\ EntryInode(h, k) = EntryInode(f, k)
  <2> DEFINE a == 2 * k
             b == 2 * k + 1
  <2>1. a \in Nat /\ b \in Nat /\ a < x /\ b < x
    BY <1>2, <1>14 DEF IsEntry
  <2> HIDE DEF a, b, x
  <2>2. UnitIn(h, 0, a) = UnitIn(f, 0, a) /\ UnitIn(h, 0, b) = UnitIn(f, 0, b)
    BY <1>11, <2>1
  <2> QED  BY <2>2 DEF EntryName, EntryInode, a, b
<1>15. ASSUME NEW k, IsEntry(h, k) PROVE EntryInode(h, k) \in h.inode_bitmap \ {0}
  BY <1>1, <1>8, <1>10, <1>13, <1>14, <1>15 DEF Directory
<1>16. ASSUME NEW j, NEW k, IsEntry(h, j), IsEntry(h, k), j # k
       PROVE  EntryName(h, j) # EntryName(h, k) /\ EntryInode(h, j) # EntryInode(h, k)
  <2>1. CASE IsEntry(f, j) /\ IsEntry(f, k)
    BY <1>14, <1>16, <2>1 DEF Directory
  <2>2. ASSUME NEW m, IsEntry(f, m)
        PROVE  EntryName(h, m) # name /\ EntryInode(h, m) # i
    <3>1. EntryName(h, m) = EntryName(f, m) /\ EntryInode(h, m) = EntryInode(f, m)
      BY <1>14, <2>2
    <3>2. EntryInode(f, m) \in f.inode_bitmap
      BY <2>2 DEF Directory
    <3> QED  BY <2>2, <3>1, <3>2
  <2>3. CASE j = n \/ k = n
    BY <1>10, <1>13, <1>16, <2>2, <2>3
  <2> QED  BY <1>10, <1>16, <2>1, <2>3
<1>17. ASSUME NEW j \in h.inode_bitmap \ {0}
       PROVE  \E k : IsEntry(h, k) /\ EntryInode(h, k) = j
  <2>1. CASE j = i
    BY <1>10, <1>13, <2>1
  <2>2. CASE j # i
    <3>1. PICK k : IsEntry(f, k) /\ EntryInode(f, k) = j
      BY <1>8, <2>2 DEF Directory
    <3> QED  BY <1>10, <1>14, <3>1
  <2> QED  BY <2>1, <2>2
<1>18. SizeOf(h, 0) = 2 * dirents(h)
  BY <1>7, <1>9
<1>19. Directory(h)
  BY <1>8, <1>15, <1>16, <1>17, <1>18 DEF Directory
<1> QED  BY <1>2, <1>10, <1>13, <1>14, <1>19

-----------------------------------------------------------------------------
(* The contents of the files                                               *)

\* The contents of file i as a sequence.
Contents(f, i) == Segment(Units(f.inodes[i], f.blocks), 0, SizeOf(f, i))

\* The length and the units of the contents of a file.
LEMMA ContentsFacts ==
    ASSUME NEW f, NEW i, SizeOf(f, i) \in Nat
    PROVE  /\ Contents(f, i) = [k \in 1..SizeOf(f, i) |-> UnitIn(f, i, k - 1)]
           /\ Len(Contents(f, i)) = SizeOf(f, i)
<1> DEFINE F == Units(f.inodes[i], f.blocks)
           n == SizeOf(f, i)
<1>1. \A p \in Nat : F[p] = UnitIn(f, i, p)
  BY DEF Units, UnitIn
<1> HIDE DEF F, n
<1>2. n \in Nat
  BY DEF n
<1>3. n - 0 = n /\ \A k \in 1..n : 0 + k - 1 = k - 1 /\ k - 1 \in Nat
  BY <1>2
<1>4. Segment(F, 0, n) = [k \in 1..n |-> UnitIn(f, i, k - 1)]
  BY <1>1, <1>3 DEF Segment
<1>5. Len(Segment(F, 0, n)) = n
  <2>1. ASSUME NEW z \in Nat, z <= n PROVE Len(Segment(F, z, n)) = n - z
    BY <1>2, <2>1, SegmentFacts
  <2> QED  BY <1>2, <1>3, <2>1
<1> QED  BY <1>4, <1>5 DEF Contents, F, n

\* A file with the same units has the same contents.
LEMMA ContentsSame ==
    ASSUME NEW f, NEW h, NEW j, SizeOf(f, j) \in Nat, SameFile(f, h, j)
    PROVE  Contents(h, j) = Contents(f, j)
<1> DEFINE n == SizeOf(f, j)
<1>1. SizeOf(h, j) = n
  BY DEF SameFile
<1>2. /\ Contents(f, j) = [k \in 1..n |-> UnitIn(f, j, k - 1)]
      /\ Contents(h, j) = [k \in 1..n |-> UnitIn(h, j, k - 1)]
  BY <1>1, ContentsFacts
<1>3. \A k \in 1..n : k - 1 \in Nat /\ k - 1 < n
  OBVIOUS
<1>4. \A k \in 1..n : UnitIn(h, j, k - 1) = UnitIn(f, j, k - 1)
  BY <1>3 DEF SameFile
<1> QED  BY <1>2, <1>4

\* An empty file has no contents.
LEMMA ContentsEmpty ==
    ASSUME NEW f, NEW i, SizeOf(f, i) = 0
    PROVE  Contents(f, i) = <<>>
<1>1. Contents(f, i) = [k \in 1..0 |-> UnitIn(f, i, k - 1)]
  BY ContentsFacts
<1> QED  BY <1>1

\* Put does to the contents what Written says.
LEMMA ContentsWritten ==
    ASSUME NEW f, NEW h, NEW i, SizeOf(f, i) \in Nat, NEW offset \in Nat, NEW buf,
           Len(buf) \in Nat, HasPut(f, h, i, offset, buf)
    PROVE  Contents(h, i) = Written(Contents(f, i), offset, buf)
<1> DEFINE n == SizeOf(f, i)
           m == Greater(offset + Len(buf), n)
           file == Contents(f, i)
           New(k) == CASE k \in (offset + 1)..(offset + Len(buf)) -> buf[k - offset]
                       [] k <= Lesser(offset, Len(file)) \/ k > offset + Len(buf) -> file[k]
                       [] OTHER -> 0
<1>1. SizeOf(h, i) = m /\ m \in Nat
  BY DEF HasPut, Greater
<1>2. /\ Len(file) = n /\ file = [k \in 1..n |-> UnitIn(f, i, k - 1)]
      /\ Contents(h, i) = [k \in 1..m |-> UnitIn(h, i, k - 1)]
  BY <1>1, ContentsFacts
<1> HIDE DEF file
<1>3. Written(file, offset, buf) = [k \in 1..m |-> New(k)]
  BY <1>2 DEF Written
<1>4. ASSUME NEW k \in 1..m PROVE UnitIn(h, i, k - 1) = New(k)
  <2> DEFINE p == k - 1
  <2>1. p \in Nat /\ p < m /\ k = p + 1 /\ k - offset = p - offset + 1 /\ k \in Nat
    BY <1>1
  <2>2. UnitIn(h, i, p) = IF InBuffer(p, offset, buf) THEN buf[p - offset + 1]
                          ELSE IF p < n THEN UnitIn(f, i, p) ELSE 0
    <3> HIDE DEF p, m
    <3> QED  BY <1>1, <2>1 DEF HasPut
  <2>3. InBuffer(p, offset, buf) <=> k \in (offset + 1)..(offset + Len(buf))
    BY DEF InBuffer
  <2>4. CASE InBuffer(p, offset, buf)
    <3>0. k \in (offset + 1)..(offset + Len(buf))
          /\ ~(k <= Lesser(offset, Len(file)) \/ k > offset + Len(buf))
      BY <1>2, <2>1, <2>3, <2>4 DEF Lesser
    <3>1. New(k) = buf[k - offset]
      BY <3>0
    <3> HIDE DEF New
    <3> QED  BY <2>1, <2>2, <2>4, <3>1
  <2>5. CASE ~InBuffer(p, offset, buf) /\ p < n
    <3>1. k \in 1..n
      BY <2>1, <2>5
    <3>2. file[k] = UnitIn(f, i, p)
      BY <1>2, <3>1
    <3>3. k <= Lesser(offset, Len(file)) \/ k > offset + Len(buf)
      BY <1>2, <2>1, <2>3, <2>5, <3>1 DEF Lesser
    <3>4. New(k) = file[k]
      BY <2>3, <2>5, <3>3
    <3> HIDE DEF New
    <3> QED  BY <2>2, <2>5, <3>2, <3>4
  <2>6. CASE ~InBuffer(p, offset, buf) /\ ~(p < n)
    <3>1. ~(k <= Lesser(offset, Len(file)) \/ k > offset + Len(buf))
      <4>1. k > n /\ k \in Nat /\ k <= m
        BY <2>1, <2>6
      <4>2. ~(k <= Lesser(offset, n))
        BY <4>1 DEF Lesser
      <4>3. ~(k > offset + Len(buf))
        BY <4>1 DEF Greater
      <4> QED  BY <1>2, <4>2, <4>3
    <3>2. New(k) = 0
      BY <2>3, <2>6, <3>1
    <3> HIDE DEF New
    <3> QED  BY <2>2, <2>6, <3>2
  <2> QED  BY <2>4, <2>5, <2>6
<1> HIDE DEF New, m
<1> QED  BY <1>2, <1>3, <1>4 DEF file

\* The history c has the contents of each file, and None for the other names.
FilesOf(f, c) ==
    /\ c = [name \in Names |-> c[name]]
    /\ \A name \in Names :
          (\A k : IsEntry(f, k) => EntryName(f, k) # name) => c[name] = None
    /\ \A k : IsEntry(f, k) /\ EntryName(f, k) \in Names =>
          c[EntryName(f, k)] = Contents(f, EntryInode(f, k))

\* An entry is for an allocated inode, and not for the root.
LEMMA EntrySize ==
    ASSUME NEW e, NEW s, NEW f, Core(e, s, f), Directory(f), NEW k, IsEntry(f, k)
    PROVE  /\ EntryInode(f, k) \in f.inode_bitmap \ {0}
           /\ SizeOf(f, EntryInode(f, k)) \in Nat
<1>1. EntryInode(f, k) \in f.inode_bitmap \ {0}
  BY DEF Directory
<1> QED  BY <1>1, DiskTypes DEF Core

\* The file in entry m is changed, the others are not.
LEMMA FilesChange ==
    ASSUME NEW e, NEW s, NEW f, NEW h, Core(e, s, f), Core(e, s, h), Directory(f),
           h.inode_bitmap = f.inode_bitmap,
           NEW c, FilesOf(f, c), NEW m, IsEntry(f, m), EntryName(f, m) \in Names,
           OthersSame(f, h, EntryInode(f, m))
    PROVE  /\ Directory(h)
           /\ FilesOf(h, [c EXCEPT ![EntryName(f, m)] = Contents(h, EntryInode(f, m))])
<1> DEFINE i == EntryInode(f, m)
           name == EntryName(f, m)
           d == [c EXCEPT ![name] = Contents(h, i)]
<1>1. i \in f.inode_bitmap /\ i # 0 /\ 0 \in f.inode_bitmap
  BY EntrySize DEF Directory
<1>2. SameFile(f, h, 0)
  BY <1>1 DEF OthersSame
<1>3. /\ Directory(h)
      /\ \A k : IsEntry(h, k) <=> IsEntry(f, k)
      /\ \A k : IsEntry(f, k) => EntryName(h, k) = EntryName(f, k)
                                 /\ EntryInode(h, k) = EntryInode(f, k)
  BY <1>2, DirectorySame
<1>4. c = [n \in Names |-> c[n]]
  BY DEF FilesOf
<1>5. /\ d = [n \in Names |-> d[n]] /\ d[name] = Contents(h, i)
      /\ \A n \in Names : n # name => d[n] = c[n]
  BY <1>4
<1> HIDE DEF d
<1>6. ASSUME NEW n \in Names, \A k : IsEntry(h, k) => EntryName(h, k) # n
      PROVE  d[n] = None
  <2>1. \A k : IsEntry(f, k) => EntryName(f, k) # n
    BY <1>3, <1>6
  <2>2. n # name
    BY <2>1
  <2>3. c[n] = None
    BY <2>1 DEF FilesOf
  <2> QED  BY <1>5, <2>2, <2>3
<1>7. ASSUME NEW k, IsEntry(h, k), EntryName(h, k) \in Names
      PROVE  d[EntryName(h, k)] = Contents(h, EntryInode(h, k))
  <2>1. IsEntry(f, k) /\ EntryName(h, k) = EntryName(f, k) /\ EntryInode(h, k) = EntryInode(f, k)
    BY <1>3, <1>7
  <2>2. CASE k = m
    BY <1>5, <2>1, <2>2
  <2>3. CASE k # m
    <3>1. EntryName(f, k) # name /\ EntryInode(f, k) # i
      BY <2>1, <2>3 DEF Directory
    <3>2. EntryInode(f, k) \in f.inode_bitmap /\ SizeOf(f, EntryInode(f, k)) \in Nat
      BY <2>1, EntrySize
    <3>3. SameFile(f, h, EntryInode(f, k))
      BY <3>1, <3>2 DEF OthersSame
    <3>4. Contents(h, EntryInode(f, k)) = Contents(f, EntryInode(f, k))
      BY <3>2, <3>3, ContentsSame
    <3>5. c[EntryName(f, k)] = Contents(f, EntryInode(f, k))
      BY <1>7, <2>1 DEF FilesOf
    <3> HIDE DEF name, i
    <3> QED  BY <1>5, <1>7, <2>1, <3>1, <3>4, <3>5
  <2> QED  BY <2>2, <2>3
<1>8. FilesOf(h, d)
  BY <1>5, <1>6, <1>7 DEF FilesOf
<1> QED  BY <1>3, <1>8 DEF d

\* A file is added to the directory, the others are not changed.
LEMMA FilesAdd ==
    ASSUME NEW e, NEW s, NEW f, NEW g, NEW h, NEW i \in Nat, NEW name \in Names,
           Core(e, s, f), Core(e, s, g), Core(e, s, h), Directory(f),
           i \notin f.inode_bitmap, Emptied(f, g, i),
           \A k : IsEntry(f, k) => EntryName(f, k) # name,
           HasPut(g, h, 0, 2 * dirents(f), <<name, i>>),
           NEW c, FilesOf(f, c)
    PROVE  /\ Directory(h)
           /\ FilesOf(h, [c EXCEPT ![name] = <<>>])
<1> DEFINE n == dirents(f)
           d == [c EXCEPT ![name] = <<>>]
<1>1. name \in Nat
  BY EasyFsAssumption
<1>2. /\ Directory(h)
      /\ n \in Nat
      /\ \A k : IsEntry(h, k) <=> IsEntry(f, k) \/ k = n
      /\ \A k : IsEntry(f, k) => k # n /\ EntryName(h, k) = EntryName(f, k)
                                 /\ EntryInode(h, k) = EntryInode(f, k)
      /\ EntryName(h, n) = name /\ EntryInode(h, n) = i
  BY <1>1, DirectoryAdd
<1>3. /\ g.inode_bitmap = f.inode_bitmap \cup {i} /\ OthersSame(f, g, i) /\ SizeOf(g, i) = 0
  BY DEF Emptied
<1>4. OthersSame(g, h, 0) /\ 0 \in f.inode_bitmap
  BY DEF HasPut, Directory
<1> HIDE DEF n
<1>5. c = [x \in Names |-> c[x]]
  BY DEF FilesOf
<1>6. /\ d = [x \in Names |-> d[x]] /\ d[name] = <<>>
      /\ \A x \in Names : x # name => d[x] = c[x]
  BY <1>5
<1> HIDE DEF d
<1>7. Contents(h, i) = <<>>
  <2>1. SameFile(g, h, i)
    BY <1>3, <1>4 DEF OthersSame
  <2>2. SizeOf(h, i) = 0
    BY <1>3, <2>1 DEF SameFile
  <2> QED  BY <2>2, ContentsEmpty
<1>8. ASSUME NEW x \in Names, \A k : IsEntry(h, k) => EntryName(h, k) # x
      PROVE  d[x] = None
  <2>1. \A k : IsEntry(f, k) => EntryName(f, k) # x
    BY <1>2, <1>8
  <2>2. x # name
    BY <1>2, <1>8
  <2>3. c[x] = None
    BY <2>1 DEF FilesOf
  <2> QED  BY <1>6, <2>2, <2>3
<1>9. ASSUME NEW k, IsEntry(h, k), EntryName(h, k) \in Names
      PROVE  d[EntryName(h, k)] = Contents(h, EntryInode(h, k))
  <2>1. CASE k = n
    BY <1>2, <1>6, <1>7, <2>1
  <2>2. CASE k # n
    <3>1. IsEntry(f, k) /\ EntryName(h, k) = EntryName(f, k) /\ EntryInode(h, k) = EntryInode(f, k)
      BY <1>2, <1>9, <2>2
    <3>2. EntryName(f, k) # name
      BY <3>1
    <3>3. EntryInode(f, k) \in f.inode_bitmap \ {0} /\ SizeOf(f, EntryInode(f, k)) \in Nat
      BY <3>1, EntrySize
    <3> DEFINE j == EntryInode(f, k)
    <3> HIDE DEF j
    <3>4. j \in f.inode_bitmap /\ j # 0 /\ j # i /\ SizeOf(f, j) \in Nat
      BY <3>3 DEF j
    <3>5. SameFile(f, g, j) /\ SameFile(g, h, j)
      BY <1>3, <1>4, <3>4 DEF OthersSame
    <3>6. SizeOf(g, j) \in Nat
      BY <3>4, <3>5 DEF SameFile
    <3>7. Contents(h, j) = Contents(f, j)
      BY <3>4, <3>5, <3>6, ContentsSame
    <3>8. c[EntryName(f, k)] = Contents(f, EntryInode(f, k))
      BY <1>9, <3>1 DEF FilesOf
    <3> QED  BY <1>6, <1>9, <3>1, <3>2, <3>7, <3>8 DEF j
  <2> QED  BY <2>1, <2>2
<1>10. FilesOf(h, d)
  BY <1>6, <1>8, <1>9 DEF FilesOf
<1> QED  BY <1>2, <1>10 DEF d

\* What EasyFileSystem::create computes: the areas follow each other, fill
\* the disk, and the bitmaps are large enough for them.
LEMMA Layout ==
    ASSUME NEW total \in TotalBlocks, NEW s, s = SuperBlock(total), NEW e, e = Mount(s)
    PROVE  /\ s.total_blocks \in Nat
           /\ maximum(e.inode_bitmap.blocks) \in Nat \ {0}
           /\ maximum(e.data_bitmap.blocks) \in Nat
           /\ e.data_area_start_block \in Nat \ {0}
           /\ e.data_bitmap.start_block_id + e.data_bitmap.blocks = e.data_area_start_block
           /\ s.data_area_blocks <= maximum(e.data_bitmap.blocks)
           /\ e.data_area_start_block + s.data_area_blocks = s.total_blocks
           /\ \A i \in Inodes(e) :
                 get_disk_inode_pos(e, i)[1] < e.data_bitmap.start_block_id
<1> DEFINE I == inode_bitmap_blocks
           P == INODES_PER_BLOCK
           M == I * BLOCK_BITS
           A == (M + P - 1) \div P
           N == total - 1 - (I + A)
           C == BLOCK_BITS + 1
           D == (N + BLOCK_BITS) \div C
<1>1. /\ I \in Nat \ {0} /\ P \in Nat \ {0} /\ BLOCK_BITS \in Nat \ {0}
      /\ total \in Nat /\ total > I + A
  BY EasyFsAssumption
<1>2. M \in Nat \ {0}
  <2>1. 1 * BLOCK_BITS <= I * BLOCK_BITS /\ I * BLOCK_BITS \in Nat
    BY <1>1, Times
  <2> QED  BY <1>1, <2>1
<1> HIDE DEF M
<1>3. A \in Nat /\ A * P \in Nat /\ A * P >= M
  <2> DEFINE m == M + P - 1
  <2>1. m \in Nat
    BY <1>1, <1>2
  <2>2. m \div P \in Nat /\ m % P \in 0..(P - 1) /\ m = (m \div P) * P + (m % P)
        /\ (m \div P) * P \in Nat
    <3> HIDE DEF m
    <3>1. m \div P \in Nat /\ m % P \in 0..(P - 1) /\ m = (m \div P) * P + (m % P)
      BY <1>1, <2>1, DivMod
    <3> QED  BY <1>1, <3>1, Times
  <2>3. (m \div P) * P >= M
    <3> DEFINE q == (m \div P) * P
               r == m % P
    <3>1. q \in Nat /\ r \in 0..(P - 1) /\ M + P - 1 = q + r
      BY <2>2
    <3> HIDE DEF q, r
    <3>2. q >= M
      BY <1>1, <1>2, <3>1
    <3> QED  BY <3>2 DEF q
  <2> QED  BY <2>2, <2>3
<1> HIDE DEF A
<1>4. N \in Nat
  BY <1>1, <1>3
<1> HIDE DEF N
<1>5. D \in Nat /\ D * BLOCK_BITS \in Nat /\ N - D <= D * BLOCK_BITS
  <2> DEFINE m == N + BLOCK_BITS
  <2>1. m \in Nat /\ C \in Nat \ {0}
    BY <1>1, <1>4
  <2>2. m \div C \in Nat /\ m % C \in 0..(C - 1) /\ m = (m \div C) * C + (m % C)
    <3> HIDE DEF m, C
    <3> QED  BY <2>1, DivMod
  <2> DEFINE q == m \div C
             r == m % C
  <2>3. q \in Nat /\ r \in 0..BLOCK_BITS /\ N + BLOCK_BITS = q * C + r
    BY <1>1, <2>2
  <2>4. q * BLOCK_BITS \in Nat /\ q * C = q * BLOCK_BITS + q
    <3> HIDE DEF q
    <3> QED  BY <1>1, <2>3, Times
  <2>5. N - q <= q * BLOCK_BITS
    <3> DEFINE x == q * BLOCK_BITS
               y == q * C
    <3>1. x \in Nat /\ y = x + q /\ N + BLOCK_BITS = y + r
      BY <2>3, <2>4
    <3> HIDE DEF x, y, q, r
    <3>2. N - q <= x
      BY <1>1, <1>4, <2>3, <3>1
    <3> QED  BY <3>2 DEF x
  <2> QED  BY <2>3, <2>4, <2>5
<1> HIDE DEF D
<1>6. s = [total_blocks |-> total, inode_bitmap_blocks |-> I, inode_area_blocks |-> A,
           data_bitmap_blocks |-> D, data_area_blocks |-> N - D]
  BY DEF SuperBlock, maximum, bitmap_blocks_for, A, N, D, M
<1>7. /\ e.inode_bitmap.blocks = I
      /\ e.data_bitmap.start_block_id = 1 + (I + A)
      /\ e.data_bitmap.blocks = D
      /\ e.inode_area_start_block = 1 + I
      /\ e.data_area_start_block = 1 + (I + A) + D
  BY <1>6 DEF Mount
<1>8. /\ s.total_blocks = total /\ s.data_area_blocks = N - D
      /\ maximum(e.inode_bitmap.blocks) = M
      /\ maximum(e.data_bitmap.blocks) = D * BLOCK_BITS
  BY <1>6, <1>7 DEF maximum, M
<1>9. ASSUME NEW i \in Inodes(e)
      PROVE  get_disk_inode_pos(e, i)[1] < e.data_bitmap.start_block_id
  <2>1. i \in Nat /\ i < M
    BY <1>2, <1>8, <1>9 DEF Inodes
  <2> DEFINE q == i \div P
  <2>2. q \in Nat /\ q * P <= i /\ q * P \in Nat
    <3>1. q \in Nat /\ i % P \in 0..(P - 1) /\ i = q * P + (i % P)
      BY <1>1, <2>1, DivMod
    <3> DEFINE r == i % P
    <3> HIDE DEF q, r
    <3>2. q * P \in Nat
      BY <1>1, <3>1, Times
    <3>3. r \in 0..(P - 1) /\ i = q * P + r
      BY <3>1 DEF r, q
    <3> QED  BY <1>1, <3>1, <3>2, <3>3
  <2> HIDE DEF q
  <2>3. q < A
    <3>1. A <= q => A * P <= q * P
      BY <1>1, <1>3, <2>2, Times
    <3> QED  BY <1>2, <1>3, <2>1, <2>2, <3>1
  <2>4. get_disk_inode_pos(e, i)[1] = 1 + I + q
    BY <1>7 DEF get_disk_inode_pos, q
  <2> QED  BY <1>1, <1>3, <1>7, <2>2, <2>3, <2>4
<1>10. e.data_area_start_block + s.data_area_blocks = s.total_blocks
  <2>1. N = total - 1 - (I + A)
    BY DEF N
  <2> QED  BY <1>1, <1>3, <1>4, <1>5, <1>7, <1>8, <2>1
<1> QED  BY <1>1, <1>2, <1>3, <1>5, <1>7, <1>8, <1>9, <1>10

\* Each inode has its own place in the inode area.
LEMMA InodePlaces ==
    ASSUME NEW e, NEW i \in Nat, NEW j \in Nat, e.inode_area_start_block \in Nat,
           get_disk_inode_pos(e, i) = get_disk_inode_pos(e, j)
    PROVE  i = j
<1> DEFINE P == INODES_PER_BLOCK
<1>1. P \in Nat \ {0}
  BY EasyFsAssumption
<1>2. /\ i \div P \in Nat /\ i = (i \div P) * P + (i % P)
      /\ j \div P \in Nat /\ j = (j \div P) * P + (j % P)
  BY <1>1, DivMod
<1>3. /\ e.inode_area_start_block + i \div P = e.inode_area_start_block + j \div P
      /\ i % P = j % P
  BY DEF get_disk_inode_pos
<1>4. i \div P = j \div P
  <2> DEFINE a == i \div P
             b == j \div P
  <2>1. a \in Nat /\ b \in Nat /\ e.inode_area_start_block + a = e.inode_area_start_block + b
    BY <1>2, <1>3
  <2> HIDE DEF a, b
  <2>2. a = b
    BY <2>1
  <2> QED  BY <2>2 DEF a, b
<1> QED  BY <1>2, <1>3, <1>4

\* The inductive invariant of the file system.
FsIInv ==
    /\ \E total \in TotalBlocks : super = SuperBlock(total)
    /\ efs = Mount(super)
    /\ panicked \in BOOLEAN
    /\ Core(efs, super, fs)
    /\ Directory(fs)
    /\ FilesOf(fs, files)

\* create makes a disk of zeros, with no block marked and an empty root.
LEMMA FsInit == Init => FsIInv
<1> SUFFICES ASSUME Init PROVE FsIInv
  OBVIOUS
<1>0. PICK total \in TotalBlocks : super = SuperBlock(total)
  BY DEF Init, create_efs
<1>a. efs = Mount(super) /\ panicked = FALSE /\ files = [n \in Names |-> None]
  BY DEF Init, create_efs
<1>1. /\ super.total_blocks \in Nat
      /\ maximum(efs.inode_bitmap.blocks) \in Nat \ {0}
      /\ maximum(efs.data_bitmap.blocks) \in Nat
      /\ efs.data_area_start_block \in Nat \ {0}
  BY <1>0, <1>a, Layout
<1>2. 0 \in Inodes(efs)
  BY <1>1 DEF Inodes
<1> DEFINE kind(i) == IF i = 0 THEN "Directory" ELSE "File"
           ino == [i \in Inodes(efs) |-> initialize(kind(i))]
           blk == [b \in BlockIds(efs, super) |-> IF b = 0 THEN SuperBlockUnits ELSE ZeroBlock]
<1>3. fs = [inode_bitmap |-> {0}, data_bitmap |-> {}, inodes |-> ino, blocks |-> blk]
  BY DEF Init, create_efs, Inodes, BlockIds
<1>4. \A i \in Inodes(efs) : initialize(kind(i)) \in DiskInodes /\ initialize(kind(i)).size = 0
  <2>1. \A i : kind(i) \in {"Directory", "File"}
    OBVIOUS
  <2> QED  BY <2>1, Initialized
<1> HIDE DEF kind
<1>5. /\ ino \in [Inodes(efs) -> DiskInodes]
      /\ \A i \in Inodes(efs) : ino[i].size = 0
  BY <1>4
<1>6. /\ blk \in [BlockIds(efs, super) -> [0..(BLOCK_SZ - 1) -> Nat]]
      /\ blk[0] = SuperBlockUnits
      /\ \A b \in BlockIds(efs, super) \ {0} : blk[b] = ZeroBlock
      /\ DOMAIN blk = BlockIds(efs, super)
  <2>1. SuperBlockUnits \in [0..(BLOCK_SZ - 1) -> Nat] /\ ZeroBlock \in [0..(BLOCK_SZ - 1) -> Nat]
    BY DEF SuperBlockUnits, ZeroBlock, EFS_MAGIC
  <2>2. 0 \in BlockIds(efs, super)
    BY DEF BlockIds
  <2> QED  BY <2>1, <2>2
<1> HIDE DEF ino, blk
<1>7. /\ fs.inode_bitmap = {0} /\ fs.data_bitmap = {}
      /\ fs.inodes = ino /\ fs.blocks = blk
  BY <1>3
<1>8. SizeOf(fs, 0) = 0
  BY <1>2, <1>5, <1>7 DEF SizeOf
<1>9. PlacesIn(fs, 0) = 0
  BY <1>8, NoPlaces DEF PlacesIn
<1>10. \A i, n : ~Holds(fs, i, n)
  BY <1>7, <1>9 DEF Holds
<1>11. Marked(efs, fs) = {}
  BY <1>7 DEF Marked
<1>12. DiskTyped(efs, super, fs)
  <2>1. fs \in [inode_bitmap : SUBSET Inodes(efs),
              data_bitmap : SUBSET (0..(maximum(efs.data_bitmap.blocks) - 1)),
              inodes : [Inodes(efs) -> DiskInodes],
              blocks : [BlockIds(efs, super) -> [0..(BLOCK_SZ - 1) -> Nat]]]
    <3>1. {0} \in SUBSET Inodes(efs)
          /\ {} \in SUBSET (0..(maximum(efs.data_bitmap.blocks) - 1))
      BY <1>2
    <3> QED  BY <1>3, <1>5, <1>6, <3>1
  <2> QED  BY <1>1, <2>1 DEF DiskTyped
<1>13. SizesBounded(fs)
  <2>1. INDIRECT2_BOUND >= 0
    <3>1. BLOCK_SZ * BLOCK_SZ \in Nat
      BY Times, Sizes
    <3> QED
      BY <3>1, Sizes DEF INDIRECT2_BOUND, INDIRECT1_BOUND, DIRECT_BOUND,
                         INODE_INDIRECT1_COUNT, INODE_INDIRECT2_COUNT
  <2> QED  BY <1>7, <1>8, <2>1, NoPlaces DEF SizesBounded
<1>14. Ownership(efs, fs)
  BY <1>10, <1>11 DEF Ownership
<1>15. FreeZero(efs, fs)
  BY <1>6, <1>7 DEF FreeZero
<1>16. TailZero(fs, 0)
  BY <1>8, NoPlaces DEF TailZero
<1>17. Core(efs, super, fs)
  BY <1>6, <1>7, <1>11, <1>12, <1>13, <1>14, <1>15, <1>16 DEF Core
<1>18. dirents(fs) = 0
  BY <1>7, <1>8, <1>17, Dirents
<1>19. \A k : ~IsEntry(fs, k)
  BY <1>18 DEF IsEntry
<1>20. Directory(fs)
  BY <1>7, <1>8, <1>18, <1>19 DEF Directory
<1>21. FilesOf(fs, files)
  <2>1. \A n \in Names : files[n] = None
    BY <1>a
  <2>2. files = [n \in Names |-> files[n]]
    BY <1>a
  <2> QED  BY <1>19, <2>1, <2>2 DEF FilesOf
<1> QED  BY <1>0, <1>a, <1>17, <1>20, <1>21 DEF FsIInv

\* open mounts what create mounted.
LEMMA FsOpen == FsIInv /\ open => FsIInv'
<1> SUFFICES ASSUME FsIInv, open PROVE FsIInv'
  OBVIOUS
<1>1. super' = super /\ efs' = efs /\ fs' = fs /\ panicked' = panicked /\ files' = files
  BY DEF open, FsIInv
<1> QED  BY <1>1 DEF FsIInv

\* A panic leaves the disk as it is.
LEMMA FsPanic == FsIInv /\ panicked' = TRUE /\ UNCHANGED <<super, efs, fs, files>> => FsIInv'
  BY DEF FsIInv

\* create adds an inode and its entry.
LEMMA FsCreate ==
    ASSUME FsIInv, NEW name \in Names, create(name)
    PROVE  FsIInv'
<1> DEFINE i == alloc(fs.inode_bitmap, efs.inode_bitmap)
           g == [fs EXCEPT !.inode_bitmap = @ \cup {i}, !.inodes[i] = initialize("File")]
           offset == dirents(fs) * DIRENT_SZ
           buf == <<name, i>>
           h == Put(g, 0, offset, buf)
<1>1. /\ find_inode_id(fs, name) = None
      /\ i # None
      /\ CanGrow(g, 0, offset + DIRENT_SZ)
      /\ fs' = h
      /\ files' = [files EXCEPT ![name] = <<>>]
      /\ super' = super /\ efs' = efs /\ panicked' = panicked
  BY DEF create
<1>2. Core(efs, super, fs) /\ Directory(fs) /\ FilesOf(fs, files)
  BY DEF FsIInv
<1>3. i \in Inodes(efs) \ fs.inode_bitmap /\ i \in Nat /\ name \in Nat
  <2>1. maximum(efs.inode_bitmap.blocks) \in Nat
    BY <1>2 DEF Core, DiskTyped
  <2> HIDE DEF i
  <2>2. i \in Inodes(efs) \ fs.inode_bitmap
    BY <1>1, <2>1, AllocBit DEF Inodes, i
  <2> QED  BY <2>2, EasyFsAssumption DEF Inodes
<1> HIDE DEF i
<1>4. Core(efs, super, g) /\ Emptied(fs, g, i)
  BY <1>2, <1>3, AddFile
<1>5. /\ dirents(fs) \in Nat /\ offset \in Nat /\ offset = 2 * dirents(fs)
      /\ buf \in Seq(Nat) /\ Len(buf) = 2 /\ Len(buf) > 0
      /\ offset + DIRENT_SZ = offset + Len(buf)
  <2>1. dirents(fs) \in Nat
    BY <1>2, Dirents DEF Directory
  <2>2. buf \in Seq(Nat) /\ Len(buf) = 2
    BY <1>3
  <2> QED  BY <2>1, <2>2 DEF DIRENT_SZ
<1>6. 0 \in g.inode_bitmap
  BY <1>2, <1>4 DEF Emptied, Directory
<1>7. CanGrow(g, 0, offset + Len(buf))
  BY <1>1, <1>5
<1> HIDE DEF g, offset, buf
<1>8. Core(efs, super, h) /\ HasPut(g, h, 0, offset, buf)
  BY <1>4, <1>5, <1>6, <1>7, PutFile
<1> HIDE DEF h
<1>9. HasPut(g, h, 0, 2 * dirents(fs), <<name, i>>)
  BY <1>5, <1>8 DEF buf
<1>10. \A k : IsEntry(fs, k) => EntryName(fs, k) # name
  BY <1>1, <1>2, FindInode
<1>11. Directory(h) /\ FilesOf(h, [files EXCEPT ![name] = <<>>])
  BY <1>2, <1>3, <1>4, <1>8, <1>9, <1>10, FilesAdd
<1> QED  BY <1>1, <1>8, <1>11 DEF FsIInv

\* write changes the contents of one file as Written says.
LEMMA FsWrite ==
    ASSUME FsIInv, NEW name \in Names, NEW w \in Writes, write(name, w)
    PROVE  FsIInv'
<1> DEFINE i == find_inode_id(fs, name)
           x == w[1]
           buf == Buffer(name, w)
           h == Put(fs, i, x, buf)
<1>1. /\ i # None
      /\ CanGrow(fs, i, x + w[2])
      /\ fs' = h
      /\ files' = [files EXCEPT ![name] = Written(@, x, buf)]
      /\ super' = super /\ efs' = efs /\ panicked' = panicked
  BY DEF write
<1>2. Core(efs, super, fs) /\ Directory(fs) /\ FilesOf(fs, files)
  BY DEF FsIInv
<1>3. x \in Nat /\ buf \in Seq(Nat) /\ Len(buf) = w[2] /\ Len(buf) > 0
  <2>1. x \in Nat /\ w[2] \in Nat \ {0} /\ name \in Nat
    BY EasyFsAssumption
  <2>2. \A k \in 1..w[2] : 1000 * name + 100 * w[2] + x + k \in Nat
    BY <2>1
  <2>3. buf \in [1..w[2] -> Nat]
    BY <2>2 DEF Buffer
  <2> HIDE DEF buf
  <2> QED  BY <2>1, <2>3
<1> HIDE DEF buf, x
<1>4. PICK k : IsEntry(fs, k) /\ EntryName(fs, k) = name /\ i = EntryInode(fs, k)
  BY <1>1, <1>2, FindInode
<1>5. i \in fs.inode_bitmap /\ SizeOf(fs, i) \in Nat
  BY <1>2, <1>4, EntrySize
<1>6. CanGrow(fs, i, x + Len(buf))
  BY <1>1, <1>3
<1> HIDE DEF i
<1>7. Core(efs, super, h) /\ HasPut(fs, h, i, x, buf)
  BY <1>2, <1>3, <1>5, <1>6, PutFile
<1> HIDE DEF h
<1>8. /\ Directory(h)
      /\ FilesOf(h, [files EXCEPT ![name] = Contents(h, i)])
  <2>1. h.inode_bitmap = fs.inode_bitmap /\ OthersSame(fs, h, EntryInode(fs, k))
    BY <1>4, <1>7 DEF HasPut
  <2>2. /\ Directory(h)
        /\ FilesOf(h, [files EXCEPT ![EntryName(fs, k)] = Contents(h, EntryInode(fs, k))])
    BY <1>2, <1>4, <1>7, <2>1, FilesChange
  <2> QED  BY <1>4, <2>2
<1>9. Contents(h, i) = Written(files[name], x, buf)
  <2>1. files[name] = Contents(fs, i)
    BY <1>2, <1>4 DEF FilesOf
  <2>2. Len(buf) \in Nat
    BY <1>3
  <2> QED  BY <1>3, <1>5, <1>7, <2>1, <2>2, ContentsWritten
<1>10. FilesOf(h, files')
  <2>1. files' = [files EXCEPT ![name] = Written(files[name], x, buf)]
    BY <1>1
  <2> QED  BY <1>8, <1>9, <2>1
<1> QED  BY <1>1, <1>7, <1>8, <1>10 DEF FsIInv

\* clear empties one file.
LEMMA FsClear ==
    ASSUME FsIInv, NEW name \in Names, clear(name)
    PROVE  FsIInv'
<1> DEFINE i == find_inode_id(fs, name)
           h == Cleared(efs, fs, i)
<1>1. /\ i # None
      /\ fs' = h
      /\ files' = [files EXCEPT ![name] = <<>>]
      /\ super' = super /\ efs' = efs /\ panicked' = panicked
  BY DEF clear, Cleared
<1>2. Core(efs, super, fs) /\ Directory(fs) /\ FilesOf(fs, files)
  BY DEF FsIInv
<1>3. PICK k : IsEntry(fs, k) /\ EntryName(fs, k) = name /\ i = EntryInode(fs, k)
  BY <1>1, <1>2, FindInode
<1>4. i \in fs.inode_bitmap
  BY <1>2, <1>3, EntrySize
<1> HIDE DEF i
<1>5. Core(efs, super, h) /\ Emptied(fs, h, i)
  BY <1>2, <1>4, ClearFile
<1> HIDE DEF h
<1>6. Contents(h, i) = <<>>
  BY <1>5, ContentsEmpty DEF Emptied
<1>7. Directory(h) /\ FilesOf(h, [files EXCEPT ![name] = <<>>])
  <2>1. h.inode_bitmap = fs.inode_bitmap /\ OthersSame(fs, h, EntryInode(fs, k))
    BY <1>3, <1>4, <1>5 DEF Emptied
  <2>2. /\ Directory(h)
        /\ FilesOf(h, [files EXCEPT ![EntryName(fs, k)] = Contents(h, EntryInode(fs, k))])
    BY <1>2, <1>3, <1>5, <2>1, FilesChange
  <2> QED  BY <1>3, <1>6, <2>2
<1> QED  BY <1>1, <1>5, <1>7 DEF FsIInv

\* Every operation keeps the invariant.
LEMMA FsStep == FsIInv /\ [Next]_vars => FsIInv'
<1> SUFFICES ASSUME FsIInv, [Next]_vars PROVE FsIInv'
  OBVIOUS
<1>1. CASE open
  BY <1>1, FsOpen
<1>2. ASSUME NEW name \in Names, create(name) PROVE FsIInv'
  BY <1>2, FsCreate
<1>3. ASSUME NEW name \in Names, panic_create(name) PROVE FsIInv'
  BY <1>3, FsPanic DEF panic_create
<1>4. ASSUME NEW name \in Names, clear(name) PROVE FsIInv'
  BY <1>4, FsClear
<1>5. ASSUME NEW name \in Names, NEW w \in Writes, write(name, w) PROVE FsIInv'
  BY <1>5, FsWrite
<1>6. ASSUME NEW name \in Names, NEW w \in Writes, panic_write(name, w) PROVE FsIInv'
  BY <1>6, FsPanic DEF panic_write
<1>7. CASE UNCHANGED vars
  BY <1>7 DEF FsIInv, vars
<1> QED  BY <1>1, <1>2, <1>3, <1>4, <1>5, <1>6, <1>7 DEF Next

\* The inductive invariant holds in every state.
THEOREM FsInductive == Spec => []FsIInv
  BY FsInit, FsStep, PTL DEF Spec

\* The invariant gives the types,
LEMMA FsTypes == FsIInv => TypeOK
<1> SUFFICES ASSUME FsIInv PROVE TypeOK
  OBVIOUS
<1>1. DiskTyped(efs, super, fs) /\ panicked \in BOOLEAN
  BY DEF FsIInv, Core
<1>2. \A b \in DOMAIN fs.blocks : fs.blocks[b] \in [0..(BLOCK_SZ - 1) -> Nat]
  BY <1>1 DEF DiskTyped
<1> QED  BY <1>1, <1>2, DiskTypes DEF TypeOK

\* the layout,
LEMMA FsLayout == FsIInv => LayoutSound
<1> SUFFICES ASSUME FsIInv PROVE LayoutSound
  OBVIOUS
<1>1. PICK total \in TotalBlocks : super = SuperBlock(total)
  BY DEF FsIInv
<1>2. efs = Mount(super) /\ DiskTyped(efs, super, fs)
  BY DEF FsIInv, Core
<1>3. DOMAIN fs.inodes = Inodes(efs) /\ \A i \in Inodes(efs) : i \in Nat
  BY <1>2, DiskTypes DEF Inodes
<1>4. efs.inode_area_start_block \in Nat
  BY <1>1, <1>2, EasyFsAssumption DEF Mount, SuperBlock
<1>5. \A i, j \in Inodes(efs) :
         get_disk_inode_pos(efs, i) = get_disk_inode_pos(efs, j) => i = j
  BY <1>3, <1>4, InodePlaces
<1>6. /\ efs.data_bitmap.start_block_id + efs.data_bitmap.blocks = efs.data_area_start_block
      /\ super.data_area_blocks <= maximum(efs.data_bitmap.blocks)
      /\ efs.data_area_start_block + super.data_area_blocks = super.total_blocks
      /\ \A i \in Inodes(efs) :
            get_disk_inode_pos(efs, i)[1] < efs.data_bitmap.start_block_id
  BY <1>1, <1>2, Layout
<1> QED  BY <1>3, <1>5, <1>6 DEF LayoutSound

\* zeros in what is free,
LEMMA FsZero == FsIInv => FreeIsZero
<1> SUFFICES ASSUME FsIInv PROVE FreeIsZero
  OBVIOUS
<1>1. Core(efs, super, fs) /\ DiskTyped(efs, super, fs)
  BY DEF FsIInv, Core
<1>2. ASSUME NEW b \in DOMAIN fs.blocks \ {0},
             b - efs.data_area_start_block \notin fs.data_bitmap
      PROVE  fs.blocks[b] = ZeroBlock
  <2>1. b \in Nat
    BY <1>1, DiskTypes
  <2>2. b \notin Marked(efs, fs)
    BY <1>1, <1>2, <2>1, MarkedBit
  <2> QED  BY <1>1, <2>2 DEF Core, FreeZero
<1>3. ASSUME NEW i \in Allocated, NEW u \in 0..(BLOCK_SZ - 1),
             NEW last, last = data_blocks(fs.inodes[i].size) - 1,
             last >= 0, last * BLOCK_SZ + u >= fs.inodes[i].size
      PROVE  fs.blocks[get_block_id(fs.inodes[i], fs.blocks, last)][u] = 0
  <2> DEFINE size == SizeOf(fs, i)
             t == data_blocks(size)
             p == last * BLOCK_SZ + u
  <2>1. i \in fs.inode_bitmap /\ size \in Nat
    BY <1>1, DiskTypes DEF Allocated
  <2>2. t \in Nat /\ t * BLOCK_SZ \in Nat
    BY <2>1, DataBlocks
  <2>3. last \in Nat /\ t = last + 1
    BY <1>3, <2>2 DEF SizeOf
  <2>4. p \in Nat /\ p < t * BLOCK_SZ
    <3>1. last * BLOCK_SZ \in Nat /\ (last + 1) * BLOCK_SZ = last * BLOCK_SZ + BLOCK_SZ
      BY <2>3, Times, Sizes
    <3> QED  BY <2>3, <3>1, Sizes
  <2>5. p \div BLOCK_SZ = last /\ p % BLOCK_SZ = u
    BY <2>3, Sizes, DivModUnique
  <2>6. UnitIn(fs, i, p) = 0
    <3>1. size <= p
      BY <1>3, <2>1, <2>4 DEF SizeOf
    <3> HIDE DEF p
    <3> QED  BY <1>1, <2>1, <2>4, <3>1 DEF Core, TailZero
  <2> QED  BY <2>3, <2>5, <2>6, GetBlockId DEF UnitIn, Unit
<1> QED  BY <1>2, <1>3 DEF FreeIsZero

\* and the directory.
LEMMA FsDirectory == FsIInv => DirectoryExact
<1> SUFFICES ASSUME FsIInv PROVE DirectoryExact
  OBVIOUS
<1>1. Core(efs, super, fs) /\ Directory(fs)
  BY DEF FsIInv
<1>2. dirents(fs) \in Nat
  BY <1>1, Dirents DEF Directory
<1>3. \A k : k \in 0..(dirents(fs) - 1) <=> IsEntry(fs, k)
  BY <1>2 DEF IsEntry
<1>4. \A k : IsEntry(fs, k) =>
         dirent(fs, k)[1] = EntryName(fs, k) /\ dirent(fs, k)[2] = EntryInode(fs, k)
  BY <1>1, Dirent
<1>5. {dirent(fs, k)[2] : k \in 0..(dirents(fs) - 1)} = Allocated \ {0}
  BY <1>1, <1>3, <1>4 DEF Directory, Allocated
<1>6. \A j, k \in 0..(dirents(fs) - 1) :
         j # k => /\ dirent(fs, j)[1] # dirent(fs, k)[1]
                  /\ dirent(fs, j)[2] # dirent(fs, k)[2]
  BY <1>1, <1>3, <1>4 DEF Directory
<1> QED  BY <1>5, <1>6 DEF DirectoryExact

\* After any operations of any programs the disk as a whole is sound:
\* EasyFileSystem::create and open compute a layout whose areas follow each
\* other, the superblock is intact, what no file owns is zero, and the
\* directory has each name and each inode once.
THEOREM FsIsSound == Spec => []FsInv
<1>1. FsIInv => FsInv
  BY FsTypes, FsLayout, FsZero, FsDirectory DEF FsInv, SuperBlockIntact, FsIInv, Core
<1> QED  BY <1>1, FsInductive, PTL

\* clear_size gives back the blocks in the places of the inode, in order.
LEMMA OwnedSegment ==
    ASSUME Core(efs, super, fs), NEW i \in Allocated
    PROVE  /\ Len(Owned(i)) = PlacesIn(fs, i) /\ PlacesIn(fs, i) \in Nat
           /\ DOMAIN Owned(i) = 1..PlacesIn(fs, i)
           /\ \A k \in 1..PlacesIn(fs, i) : Owned(i)[k] = BlockIn(fs, i, k - 1)
<1> DEFINE T == PlacesIn(fs, i)
           F == Indexes(fs.inodes[i], fs.blocks)
<1>1. SizeOf(fs, i) \in Nat /\ T \in Nat
  BY DiskTypes DEF Core, Allocated
<1>2. Owned(i) = Segment(F, 0, T)
  BY <1>1, ClearedSegment DEF SizeOf, PlacesIn, Owned
<1>3. \A n \in Nat : F[n] = BlockIn(fs, i, n)
  BY DEF Indexes, BlockIn
<1> HIDE DEF F, T
<1>4. DOMAIN Segment(F, 0, T) = 1..T /\ \A k \in 1..T : Segment(F, 0, T)[k] = F[k - 1]
  <2>1. T - 0 = T /\ \A k \in 1..T : 0 + k - 1 = k - 1
    BY <1>1
  <2> QED  BY <2>1 DEF Segment
<1>5. Len(Segment(F, 0, T)) = T
  <2>1. \A z \in Nat : z <= T => Len(Segment(F, z, T)) = T - z
    BY <1>1, SegmentFacts
  <2> QED  BY <1>1, <2>1
<1>6. \A k \in 1..T : F[k - 1] = BlockIn(fs, i, k - 1)
  BY <1>1, <1>3
<1> QED  BY <1>1, <1>2, <1>4, <1>5, <1>6 DEF T

\* The invariant gives ownership in the terms of clear_size.
LEMMA FsOwned == FsIInv => BlocksOwnedOnce
<1> SUFFICES ASSUME FsIInv PROVE BlocksOwnedOnce
  OBVIOUS
<1>1. Core(efs, super, fs) /\ DiskTyped(efs, super, fs) /\ Ownership(efs, fs)
  BY DEF FsIInv, Core
<1>2. ASSUME NEW i \in Allocated
      PROVE  IsInjective(Owned(i)) /\ Len(Owned(i)) = total_blocks(fs.inodes[i].size)
  <2> DEFINE T == PlacesIn(fs, i)
  <2>1. /\ Len(Owned(i)) = T /\ T \in Nat /\ DOMAIN Owned(i) = 1..T
        /\ \A k \in 1..T : Owned(i)[k] = BlockIn(fs, i, k - 1)
    BY <1>1, OwnedSegment
  <2>2. SizeOf(fs, i) \in Nat
    BY <1>1, DiskTypes DEF Allocated
  <2>3. Len(Owned(i)) = total_blocks(fs.inodes[i].size)
    BY <2>1, <2>2, TotalBlocksPlaces DEF PlacesIn, SizeOf
  <2>4. ASSUME NEW j \in 1..T, NEW k \in 1..T, Owned(i)[j] = Owned(i)[k] PROVE j = k
    <3>1. Holds(fs, i, j - 1) /\ Holds(fs, i, k - 1)
      BY <2>1 DEF Holds, Allocated
    <3>2. j - 1 = k - 1
      BY <1>1, <2>1, <2>4, <3>1 DEF Ownership
    <3> QED  BY <2>1, <3>2
  <2> QED  BY <2>1, <2>3, <2>4 DEF IsInjective
<1>3. \A i \in Allocated : \A b : b \in ToSet(Owned(i)) <=> OwnedBy(fs, i, b)
  BY <1>1, ClearedOwned DEF Allocated, Owned
<1>4. \A i, j \in Allocated : i # j => ToSet(Owned(i)) \cap ToSet(Owned(j)) = {}
  <2>1. ASSUME NEW i \in Allocated, NEW j \in Allocated, i # j,
               NEW b \in ToSet(Owned(i)) \cap ToSet(Owned(j))
        PROVE  FALSE
    <3>1. OwnedBy(fs, i, b) /\ OwnedBy(fs, j, b)
      BY <1>3
    <3> QED  BY <1>1, <2>1, <3>1 DEF OwnedBy, Ownership
  <2> QED  BY <2>1
<1>5. UNION {ToSet(Owned(i)) : i \in Allocated} = Marked(efs, fs)
  <2>1. ASSUME NEW b PROVE (\E i \in Allocated : OwnedBy(fs, i, b)) <=> b \in Marked(efs, fs)
    BY <1>1 DEF Ownership, OwnedBy, Holds, Allocated
  <2> QED  BY <1>3, <2>1
<1>6. \A b \in fs.data_bitmap : b + efs.data_area_start_block \in DOMAIN fs.blocks
  BY <1>1 DEF Core, Marked
<1> QED  BY <1>2, <1>4, <1>5, <1>6 DEF BlocksOwnedOnce, Marked

\* alloc_data and dealloc_data keep account: every marked block belongs to
\* one place of one inode, every block of an inode is marked and on the
\* device, and clear gives back as many blocks as DiskInode::total_blocks
\* says, which is what its assertion compares.
THEOREM BlocksAreOwnedOnce == Spec => []BlocksOwnedOnce
  BY FsOwned, FsInductive, PTL

\* A read of a whole file is its contents.
LEMMA ReadWhole ==
    ASSUME NEW f, NEW i, SizeOf(f, i) \in Nat
    PROVE  read_at(f.inodes[i], f.blocks, 0, f.inodes[i].size) = Contents(f, i)
<1> DEFINE n == SizeOf(f, i)
           F == Units(f.inodes[i], f.blocks)
<1>1. f.inodes[i].size = n
  BY DEF SizeOf
<1>2. Lesser(0 + n, n) = n
  BY DEF Lesser
<1>3. read_at(f.inodes[i], f.blocks, 0, n) = IF 0 >= n THEN <<>> ELSE Segment(F, 0, n)
  <2>1. ASSUME NEW z \in Nat
        PROVE  read_at(f.inodes[i], f.blocks, z, n)
                 = IF z >= Lesser(z + n, n) THEN <<>> ELSE Segment(F, z, Lesser(z + n, n))
    BY ZenonT(60), <1>1, ReadAt
  <2> HIDE DEF F, n
  <2>2. 0 \in Nat
    OBVIOUS
  <2> QED  BY <1>2, <2>1, <2>2
<1>4. n = 0 => Contents(f, i) = <<>>
  BY ContentsEmpty
<1>5. Contents(f, i) = Segment(F, 0, n)
  BY DEF Contents
<1> HIDE DEF F, n
<1>6. n \in Nat
  BY DEF n
<1> QED  BY <1>1, <1>3, <1>4, <1>5, <1>6

\* The invariant gives what read_at returns.
LEMMA FsReads == FsIInv => ReadsExact
<1> SUFFICES ASSUME FsIInv, NEW i \in Allocated,
                    NEW all, all = read_at(fs.inodes[i], fs.blocks, 0, fs.inodes[i].size)
             PROVE  /\ Len(all) = fs.inodes[i].size
                    /\ \A offset \in 0..fs.inodes[i].size, len \in 0..fs.inodes[i].size + 1 :
                          read_at(fs.inodes[i], fs.blocks, offset, len)
                            = SubSeq(all, offset + 1, Lesser(offset + len, fs.inodes[i].size))
  BY DEF ReadsExact
<1> DEFINE n == SizeOf(fs, i)
           F == Units(fs.inodes[i], fs.blocks)
<1>1. n \in Nat /\ fs.inodes[i].size = n
  BY DiskTypes DEF FsIInv, Core, Allocated, SizeOf
<1>2. all = Contents(fs, i)
  BY <1>1, ReadWhole
<1>3. Len(all) = n /\ all = [k \in 1..n |-> UnitIn(fs, i, k - 1)]
  BY <1>1, <1>2, ContentsFacts
<1>4. \A p \in Nat : F[p] = UnitIn(fs, i, p)
  BY DEF Units, UnitIn
<1>5. ASSUME NEW offset \in 0..n, NEW len \in 0..n + 1
      PROVE  read_at(fs.inodes[i], fs.blocks, offset, len)
               = SubSeq(all, offset + 1, Lesser(offset + len, n))
  <2> DEFINE end == Lesser(offset + len, n)
  <2>0. offset \in Nat /\ len \in Nat
    BY <1>1
  <2>1. read_at(fs.inodes[i], fs.blocks, offset, len)
          = IF offset >= end THEN <<>> ELSE Segment(F, offset, end)
    BY ZenonT(60), <1>1, <2>0, ReadAt
  <2>2. end \in Nat /\ offset <= end /\ end <= n
    BY <1>1, <2>0 DEF Lesser
  <2> HIDE DEF F, n, end
  <2>3. SubSeq(all, offset + 1, end) = [k \in 1..(end - offset) |-> all[offset + k]]
    <3> DEFINE S == {all[k] : k \in 1..n}
               m == offset + 1
    <3>1. m \in Int /\ end \in Int /\ \A k \in m..end : all[k] \in S
      BY <1>1, <2>0, <2>2
    <3> DEFINE sub == SubSeq(all, m, end)
    <3>2. /\ sub \in Seq(S)
          /\ Len(sub) = IF m <= end THEN end - m + 1 ELSE 0
          /\ \A k \in 1..(end - m + 1) : sub[k] = all[m + k - 1]
      <4> HIDE DEF S, m
      <4> QED  BY <3>1, SubSeqProperties
    <3>3. Len(sub) = end - offset /\ 1..(end - m + 1) = 1..(end - offset)
      BY <2>0, <2>2, <3>2
    <3>4. \A k \in 1..(end - offset) : m + k - 1 = offset + k
      BY <2>0, <2>2
    <3>5. \A k \in 1..(end - offset) : sub[k] = all[offset + k]
      BY <3>2, <3>3, <3>4
    <3> HIDE DEF S, sub
    <3>6. sub = [k \in 1..(end - offset) |-> sub[k]]
      <4>1. sub \in [1..Len(sub) -> S]
        BY <3>2, LenProperties
      <4> QED  BY <3>3, <4>1
    <3>7. sub = [k \in 1..(end - offset) |-> all[offset + k]]
      BY <3>5, <3>6
    <3> QED  BY <3>7 DEF sub
  <2>4. \A k \in 1..(end - offset) : all[offset + k] = F[offset + k - 1]
    <3>1. ASSUME NEW k \in 1..(end - offset) PROVE all[offset + k] = F[offset + k - 1]
      <4>1. offset + k \in 1..n /\ (offset + k) - 1 \in Nat /\ offset + k - 1 = (offset + k) - 1
        BY <1>1, <2>0, <2>2
      <4> QED  BY <1>3, <1>4, <4>1
    <3> QED  BY <3>1
  <2>5. SubSeq(all, offset + 1, end) = Segment(F, offset, end)
    BY <2>3, <2>4 DEF Segment
  <2>6. offset >= end => Segment(F, offset, end) = <<>>
    <3>1. offset >= end => end - offset = 0
      BY <2>0, <2>2
    <3> QED  BY <3>1 DEF Segment
  <2> QED  BY <2>1, <2>5, <2>6 DEF end
<1> QED  BY <1>1, <1>3, <1>5

\* DiskInode::read_at of any part of a file is that part of the whole,
\* whatever block boundaries it crosses.
THEOREM ReadsAreExact == Spec => []ReadsExact
  BY FsReads, FsInductive, PTL

\* The invariant gives what a program reads of each file.
LEMMA FsFiles == FsIInv => FilesExact
<1> SUFFICES ASSUME FsIInv, NEW name \in Names, NEW i, i = find_inode_id(fs, name)
             PROVE  IF i = None THEN files[name] = None
                    ELSE read_at(fs.inodes[i], fs.blocks, 0, fs.inodes[i].size) = files[name]
  BY DEF FilesExact
<1>1. Core(efs, super, fs) /\ Directory(fs) /\ FilesOf(fs, files)
  BY DEF FsIInv
<1>2. CASE i = None
  <2>0. find_inode_id(fs, name) = None
    BY <1>2
  <2>1. \A k : IsEntry(fs, k) => EntryName(fs, k) # name
    BY <1>1, <2>0, FindInode
  <2> QED  BY <1>1, <1>2, <2>1 DEF FilesOf
<1>3. CASE i # None
  <2>1. PICK k : IsEntry(fs, k) /\ EntryName(fs, k) = name /\ i = EntryInode(fs, k)
    BY <1>1, <1>3, FindInode
  <2>2. SizeOf(fs, i) \in Nat
    BY <1>1, <2>1, EntrySize
  <2>3. files[name] = Contents(fs, i)
    BY <1>1, <2>1 DEF FilesOf
  <2> QED  BY <1>3, <2>2, <2>3, ReadWhole
<1> QED  BY <1>2, <1>3

\* Every file reads as what was written to it, through Inode::find,
\* write_at, clear and create of this and all other files.
THEOREM FilesAreExact == Spec => []FilesExact
  BY FsFiles, FsInductive, PTL
=============================================================================
