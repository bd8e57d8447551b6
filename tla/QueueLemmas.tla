---------------------------- MODULE QueueLemmas ----------------------------
(***************************************************************************)
(* What VecDeque::push_back, pop_front and remove do to the elements of a  *)
(* queue, for queues without repetition (the ready queue and the wait      *)
(* queues of the kernel), what pop does to those of a stack, and that a    *)
(* loop over a sequence keeps what each round of it keeps.                 *)
(***************************************************************************)
EXTENDS Integers, SequencesExt, SequenceTheorems, WellFoundedInduction, TLAPS

\* push_back adds one element and keeps the elements apart if it is new.
LEMMA AppendFacts ==
    ASSUME NEW S, NEW s \in Seq(S), NEW e \in S
    PROVE  /\ Append(s, e) \in Seq(S)
           /\ Range(Append(s, e)) = Range(s) \cup {e}
           /\ Len(Append(s, e)) = Len(s) + 1
           /\ IsInjective(s) /\ e \notin Range(s) => IsInjective(Append(s, e))
<1>1. /\ Append(s, e) \in Seq(S)
      /\ Len(Append(s, e)) = Len(s) + 1
      /\ \A i \in 1..Len(s) : Append(s, e)[i] = s[i]
      /\ Append(s, e)[Len(s) + 1] = e
  BY AppendProperties
<1>2. DOMAIN s = 1..Len(s) /\ DOMAIN Append(s, e) = 1..(Len(s) + 1)
  BY <1>1, LenProperties
<1>3. Len(s) \in Nat
  BY LenProperties
<1>4. Range(Append(s, e)) = Range(s) \cup {e}
  BY <1>1, <1>2, <1>3 DEF Range
<1>5. IsInjective(s) /\ e \notin Range(s) => IsInjective(Append(s, e))
  BY <1>1, <1>2, <1>3 DEF Range, IsInjective
<1> QED  BY <1>1, <1>4, <1>5

\* pop_front takes the first element out, and nothing else.
LEMMA TailFacts ==
    ASSUME NEW S, NEW s \in Seq(S), s # <<>>
    PROVE  /\ Head(s) \in S
           /\ Tail(s) \in Seq(S)
           /\ Len(Tail(s)) = Len(s) - 1
           /\ Len(s) \in Nat \ {0}
           /\ Range(s) = Range(Tail(s)) \cup {Head(s)}
           /\ IsInjective(s) => IsInjective(Tail(s)) /\ Head(s) \notin Range(Tail(s))
<1>1. /\ Head(s) \in S
      /\ Tail(s) \in Seq(S)
      /\ Len(Tail(s)) = Len(s) - 1
      /\ \A i \in 1..Len(Tail(s)) : Tail(s)[i] = s[i + 1]
  BY HeadTailProperties
<1>2. Head(s) = s[1]
  OBVIOUS
<1>3. Len(s) \in Nat \ {0}
  BY EmptySeq, LenProperties
<1>4. DOMAIN s = 1..Len(s) /\ DOMAIN Tail(s) = 1..(Len(s) - 1)
  BY <1>1, LenProperties
<1>5. Range(s) = Range(Tail(s)) \cup {Head(s)}
  <2>1. ASSUME NEW i \in 1..Len(s)
        PROVE  s[i] \in Range(Tail(s)) \cup {Head(s)}
    <3>1. CASE i = 1
      BY <3>1, <1>2
    <3>2. CASE i # 1
      <4>1. i - 1 \in 1..(Len(s) - 1) /\ Tail(s)[i - 1] = s[i]
        BY <3>2, <1>1, <1>3
      <4> QED  BY <4>1, <1>4 DEF Range
    <3> QED  BY <3>1, <3>2
  <2>2. ASSUME NEW i \in 1..(Len(s) - 1)
        PROVE  Tail(s)[i] \in Range(s)
    BY <1>1, <1>3, <1>4 DEF Range
  <2>3. Head(s) \in Range(s)
    BY <1>2, <1>3, <1>4 DEF Range
  <2> QED  BY <2>1, <2>2, <2>3, <1>4 DEF Range
<1>6. ASSUME IsInjective(s)
      PROVE  IsInjective(Tail(s)) /\ Head(s) \notin Range(Tail(s))
  BY <1>1, <1>2, <1>3, <1>4, <1>6 DEF Range, IsInjective
<1> QED  BY <1>1, <1>3, <1>5, <1>6

\* VecDeque::remove takes out the element at k; the others keep their order.
LEMMA RemoveAtFacts ==
    ASSUME NEW S, NEW s \in Seq(S), NEW k \in 1..Len(s)
    PROVE  /\ RemoveAt(s, k) \in Seq(S)
           /\ Len(RemoveAt(s, k)) = Len(s) - 1
           /\ \A i \in 1..(Len(s) - 1) :
                 RemoveAt(s, k)[i] = IF i < k THEN s[i] ELSE s[i + 1]
<1> DEFINE a == SubSeq(s, 1, k - 1)
           b == SubSeq(s, k + 1, Len(s))
           r == a \o b
<1>1. Len(s) \in Nat /\ k \in Nat /\ 1 <= k /\ k <= Len(s)
  BY LenProperties
<1>2. /\ a \in Seq(S) /\ Len(a) = k - 1
      /\ \A i \in 1..(k - 1) : a[i] = s[i]
  BY <1>1
<1>3. /\ b \in Seq(S) /\ Len(b) = Len(s) - k
      /\ \A i \in 1..(Len(s) - k) : b[i] = s[i + k]
  BY <1>1
<1> HIDE DEF a, b
<1>4. r \in Seq(S) /\ Len(r) = Len(a) + Len(b)
  BY <1>2, <1>3, ConcatProperties
<1>5. \A i \in 1..(Len(a) + Len(b)) :
         r[i] = IF i <= Len(a) THEN a[i] ELSE b[i - Len(a)]
  BY <1>2, <1>3, ConcatProperties
<1>6. Len(a) + Len(b) = Len(s) - 1
  BY <1>1, <1>2, <1>3
<1>7. ASSUME NEW i \in 1..(Len(s) - 1)
      PROVE  r[i] = IF i < k THEN s[i] ELSE s[i + 1]
  <2>1. r[i] = IF i <= Len(a) THEN a[i] ELSE b[i - Len(a)]
    BY <1>5, <1>6
  <2>2. CASE i < k
    <3>1. i \in 1..(k - 1) /\ i <= Len(a)
      BY <2>2, <1>1, <1>2
    <3> QED  BY <2>1, <3>1, <2>2, <1>2
  <2>3. CASE ~(i < k)
    <3>1. i - (k - 1) \in 1..(Len(s) - k) /\ ~(i <= Len(a))
      BY <2>3, <1>1, <1>2
    <3>2. b[i - (k - 1)] = s[i - (k - 1) + k] /\ i - (k - 1) + k = i + 1
      BY <3>1, <1>1, <1>3
    <3> QED  BY <2>1, <3>1, <3>2, <2>3, <1>2
  <2> QED  BY <2>2, <2>3
<1>8. RemoveAt(s, k) = r
  BY DEF RemoveAt, r, a, b
<1> HIDE DEF r
<1> QED  BY <1>4, <1>6, <1>7, <1>8

\* In terms of elements: no other one goes, and none comes.
LEMMA RemoveAtElements ==
    ASSUME NEW S, NEW s \in Seq(S), NEW k \in 1..Len(s)
    PROVE  /\ \A i \in 1..(Len(s) - 1) :
                 \E j \in 1..Len(s) : j # k /\ RemoveAt(s, k)[i] = s[j]
           /\ \A j \in 1..Len(s) :
                 j # k => \E i \in 1..(Len(s) - 1) : RemoveAt(s, k)[i] = s[j]
           /\ IsInjective(s) =>
                 /\ IsInjective(RemoveAt(s, k))
                 /\ Range(RemoveAt(s, k)) = Range(s) \ {s[k]}
<1> DEFINE r == RemoveAt(s, k)
<1>1. /\ r \in Seq(S) /\ Len(r) = Len(s) - 1
      /\ \A i \in 1..(Len(s) - 1) : r[i] = IF i < k THEN s[i] ELSE s[i + 1]
  BY RemoveAtFacts
<1>2. Len(s) \in Nat /\ k \in Nat /\ 1 <= k /\ k <= Len(s)
  BY LenProperties
<1>3. DOMAIN s = 1..Len(s) /\ DOMAIN r = 1..(Len(s) - 1)
  BY <1>1, LenProperties
<1> HIDE DEF r
<1>4. ASSUME NEW i \in 1..(Len(s) - 1)
      PROVE  \E j \in 1..Len(s) : j # k /\ r[i] = s[j]
  <2>1. CASE i < k
    BY <1>1, <1>2, <2>1
  <2>2. CASE ~(i < k)
    <3>1. i + 1 \in 1..Len(s) /\ i + 1 # k
      BY <1>2, <2>2
    <3> QED  BY <1>1, <2>2, <3>1
  <2> QED  BY <2>1, <2>2
<1>5. ASSUME NEW j \in 1..Len(s), j # k
      PROVE  \E i \in 1..(Len(s) - 1) : r[i] = s[j]
  <2>1. CASE j < k
    <3>1. j \in 1..(Len(s) - 1)
      BY <1>2, <2>1
    <3> QED  BY <1>1, <2>1, <3>1
  <2>2. CASE ~(j < k)
    <3>1. j - 1 \in 1..(Len(s) - 1) /\ ~(j - 1 < k) /\ (j - 1) + 1 = j
      BY <1>2, <1>5, <2>2
    <3>2. r[j - 1] = s[j]
      BY <1>1, <3>1
    <3> QED  BY <3>1, <3>2
  <2> QED  BY <2>1, <2>2
<1>6. ASSUME IsInjective(s)
      PROVE  IsInjective(r) /\ Range(r) = Range(s) \ {s[k]}
  <2>1. IsInjective(r)
    <3> DEFINE from(i) == IF i < k THEN i ELSE i + 1
    <3>1. \A i \in 1..(Len(s) - 1) : from(i) \in 1..Len(s) /\ r[i] = s[from(i)]
      BY <1>1, <1>2
    <3>2. \A i, j \in 1..(Len(s) - 1) : from(i) = from(j) => i = j
      BY <1>2
    <3> HIDE DEF from
    <3>3. \A i, j \in 1..Len(s) : s[i] = s[j] => i = j
      BY <1>3, <1>6 DEF IsInjective
    <3> QED  BY <1>3, <3>1, <3>2, <3>3 DEF IsInjective
  <2>2. \A j \in 1..Len(s) : j # k => s[j] # s[k]
    BY <1>3, <1>6 DEF IsInjective
  <2>3. ASSUME NEW x \in Range(r) PROVE x \in Range(s) \ {s[k]}
    <3>1. PICK i \in 1..(Len(s) - 1) : x = r[i]
      BY <1>3 DEF Range
    <3>2. PICK j \in 1..Len(s) : j # k /\ r[i] = s[j]
      BY <1>4
    <3> QED  BY <1>3, <2>2, <3>1, <3>2 DEF Range
  <2>4. ASSUME NEW x \in Range(s), x # s[k] PROVE x \in Range(r)
    <3>1. PICK j \in 1..Len(s) : x = s[j]
      BY <1>3 DEF Range
    <3>2. PICK i \in 1..(Len(s) - 1) : r[i] = s[j]
      BY <1>5, <2>4, <3>1
    <3> QED  BY <1>3, <3>1, <3>2 DEF Range
  <2> QED  BY <2>1, <2>3, <2>4
<1> QED  BY <1>4, <1>5, <1>6 DEF r

\* remove takes one element out of a queue without repetition, and nothing else.
LEMMA RemoveFirstFacts ==
    ASSUME NEW S, NEW s \in Seq(S), NEW e, IsInjective(s)
    PROVE  /\ RemoveFirst(s, e) \in Seq(S)
           /\ Range(RemoveFirst(s, e)) = Range(s) \ {e}
           /\ IsInjective(RemoveFirst(s, e))
<1>1. Len(s) \in Nat /\ DOMAIN s = 1..Len(s)
  BY LenProperties
<1>2. CASE ~ \E i \in 1..Len(s) : s[i] = e
  <2>1. RemoveFirst(s, e) = s
    BY <1>2 DEF RemoveFirst
  <2> QED  BY <2>1, <1>1, <1>2 DEF Range
<1>3. CASE \E i \in 1..Len(s) : s[i] = e
  <2>1. PICK k \in 1..Len(s) : s[k] = e
    BY <1>3
  <2>2. {i \in 1..Len(s) : s[i] = e} = {k}
    BY <2>1, <1>1 DEF IsInjective
  <2>3. Min({k}) = k
    BY <2>1, <1>1 DEF Min
  <2>4. SelectInSeq(s, LAMBDA v : v = e) = k
    BY <2>2, <2>3 DEF SelectInSeq
  <2>5. RemoveFirst(s, e) = RemoveAt(s, k)
    BY <1>3, <2>4 DEF RemoveFirst
  <2> QED  BY <2>1, <2>5, RemoveAtFacts, RemoveAtElements
<1> QED  BY <1>2, <1>3

\* append of one queue without repetition to another, with nothing in common.
LEMMA ConcatFacts ==
    ASSUME NEW S, NEW s \in Seq(S), NEW t \in Seq(S)
    PROVE  /\ s \o t \in Seq(S)
           /\ Range(s \o t) = Range(s) \cup Range(t)
           /\ IsInjective(s) /\ IsInjective(t) /\ Range(s) \cap Range(t) = {}
                 => IsInjective(s \o t)
<1> DEFINE r == s \o t
<1>1. /\ r \in Seq(S) /\ Len(r) = Len(s) + Len(t)
      /\ \A i \in 1..(Len(s) + Len(t)) :
            r[i] = IF i <= Len(s) THEN s[i] ELSE t[i - Len(s)]
  BY ConcatProperties
<1>2. /\ DOMAIN r = 1..(Len(s) + Len(t)) /\ DOMAIN s = 1..Len(s)
      /\ DOMAIN t = 1..Len(t) /\ Len(s) \in Nat /\ Len(t) \in Nat
  BY <1>1, LenProperties
<1> HIDE DEF r
<1>3. ASSUME NEW i \in DOMAIN r
      PROVE  \/ i \in DOMAIN s /\ r[i] = s[i]
             \/ i - Len(s) \in DOMAIN t /\ r[i] = t[i - Len(s)]
  BY <1>1, <1>2
<1>4. \A i \in DOMAIN s : i \in DOMAIN r /\ r[i] = s[i]
  BY <1>1, <1>2
<1>5. \A i \in DOMAIN t : i + Len(s) \in DOMAIN r /\ r[i + Len(s)] = t[i]
  <2> SUFFICES ASSUME NEW i \in DOMAIN t
               PROVE  i + Len(s) \in DOMAIN r /\ r[i + Len(s)] = t[i]
    OBVIOUS
  <2>1. /\ i + Len(s) \in 1..(Len(s) + Len(t)) /\ ~(i + Len(s) <= Len(s))
        /\ (i + Len(s)) - Len(s) = i
    BY <1>2
  <2> QED  BY <1>1, <1>2, <2>1
<1>6. Range(r) = Range(s) \cup Range(t)
  BY <1>3, <1>4, <1>5 DEF Range
<1>7. ASSUME IsInjective(s), IsInjective(t), Range(s) \cap Range(t) = {}
      PROVE  IsInjective(r)
  <2>1. SUFFICES ASSUME NEW i \in DOMAIN r, NEW j \in DOMAIN r, r[i] = r[j]
                 PROVE  i = j
    BY DEF IsInjective
  <2>2. \A a \in DOMAIN s, b \in DOMAIN t : s[a] # t[b]
    BY <1>7 DEF Range
  <2>3. CASE i \in DOMAIN s /\ r[i] = s[i]
    <3>1. j \in DOMAIN s /\ r[j] = s[j]
      BY <1>3, <2>1, <2>2, <2>3
    <3> QED  BY <1>7, <2>1, <2>3, <3>1 DEF IsInjective
  <2>4. CASE i - Len(s) \in DOMAIN t /\ r[i] = t[i - Len(s)]
    <3>1. j - Len(s) \in DOMAIN t /\ r[j] = t[j - Len(s)]
      BY <1>3, <2>1, <2>2, <2>4
    <3>2. i - Len(s) = j - Len(s)
      BY <1>7, <2>1, <2>4, <3>1 DEF IsInjective
    <3> QED  BY <1>2, <3>2
  <2> QED  BY <1>3, <2>3, <2>4
<1> QED  BY <1>1, <1>6, <1>7 DEF r

\* A set of naturals that is not empty has a least element.
LEMMA LeastNatural ==
    ASSUME NEW S \in SUBSET Nat, S # {}
    PROVE  \E i \in S : \A j \in S : i <= j
<1> DEFINE R == OpToRel(<, Nat)
<1>1. IsWellFoundedOn(R, Nat)
  BY NatLessThanWellFounded
<1>2. \A i, j \in Nat : i < j => <<i, j>> \in R
  BY DEF OpToRel
<1> HIDE DEF R
<1>3. PICK i \in S : \A j \in S : ~(<<j, i>> \in R)
  BY <1>1, WFMin
<1>4. \A j \in S : ~(j < i)
  BY <1>2, <1>3
<1> QED  BY <1>3, <1>4

\* pop_front and push_back of the same element.
LEMMA RotateFacts ==
    ASSUME NEW S, NEW s \in Seq(S), s # <<>>
    PROVE  LET r == Append(Tail(s), Head(s))
           IN  /\ r \in Seq(S) /\ Len(r) = Len(s)
               /\ \A k \in 1..(Len(s) - 1) : r[k] = s[k + 1]
               /\ r[Len(s)] = s[1]
               /\ Range(r) = Range(s)
               /\ IsInjective(s) => IsInjective(r)
<1> DEFINE t == Tail(s)
           e == Head(s)
           r == Append(t, e)
<1>1. /\ e \in S /\ t \in Seq(S) /\ Len(t) = Len(s) - 1 /\ Len(s) \in Nat \ {0}
      /\ Range(s) = Range(t) \cup {e}
      /\ IsInjective(s) => IsInjective(t) /\ e \notin Range(t)
  BY TailFacts
<1>2. e = s[1] /\ \A k \in 1..Len(t) : t[k] = s[k + 1]
  BY HeadTailProperties
<1> HIDE DEF t, e
<1>3. /\ r \in Seq(S) /\ Len(r) = Len(t) + 1
      /\ \A k \in 1..Len(t) : r[k] = t[k]
      /\ r[Len(t) + 1] = e
  BY <1>1, AppendProperties
<1>4. /\ Range(r) = Range(t) \cup {e}
      /\ IsInjective(t) /\ e \notin Range(t) => IsInjective(r)
  BY <1>1, AppendFacts
<1> HIDE DEF r
<1>5. Len(t) + 1 = Len(s)
  BY <1>1
<1> QED  BY <1>1, <1>2, <1>3, <1>4, <1>5 DEF r, t, e

\* Popping the last element of a stack.
LEMMA FrontFacts ==
    ASSUME NEW S, NEW s \in Seq(S), s # <<>>, IsInjective(s)
    PROVE  /\ Front(s) \in Seq(S)
           /\ Last(s) \in Range(s)
           /\ Range(Front(s)) = Range(s) \ {Last(s)}
           /\ IsInjective(Front(s))
<1> DEFINE n == Len(s)
<1>1. n \in Nat \ {0} /\ DOMAIN s = 1..n
  BY EmptySeq, LenProperties
<1>2. /\ Front(s) \in Seq(S)
      /\ DOMAIN Front(s) = 1..(n - 1)
      /\ \A i \in 1..(n - 1) : Front(s)[i] = s[i]
  BY <1>1 DEF Front
<1>3. Last(s) \in Range(s)
  BY <1>1 DEF Last, Range
<1>4. IsInjective(Front(s))
  BY <1>1, <1>2 DEF IsInjective
<1>5. \A i \in 1..(n - 1) : s[i] # s[n]
  BY <1>1 DEF IsInjective
<1>6. Range(Front(s)) = Range(s) \ {Last(s)}
  <2>1. ASSUME NEW x \in Range(Front(s)) PROVE x \in Range(s) \ {Last(s)}
    BY <1>1, <1>2, <1>5 DEF Range, Last
  <2>2. ASSUME NEW x \in Range(s), x # Last(s) PROVE x \in Range(Front(s))
    <3>1. PICK i \in 1..n : x = s[i]
      BY <1>1 DEF Range
    <3>2. i \in 1..(n - 1)
      BY <1>1, <2>2, <3>1 DEF Last
    <3> QED  BY <1>2, <3>1, <3>2 DEF Range
  <2> QED  BY <2>1, <2>2
<1> QED  BY <1>2, <1>3, <1>4, <1>6

\* The elements of a stack after a pop.
LEMMA FrontTyped ==
    ASSUME NEW S, NEW s \in Seq(S), s # <<>>
    PROVE  Front(s) \in Seq(S) /\ Last(s) \in S
<1>1. Len(s) \in Nat \ {0} /\ DOMAIN s = 1..Len(s)
  BY EmptySeq, LenProperties
<1> QED  BY <1>1 DEF Front, Last

-----------------------------------------------------------------------------
(* FoldLeft, for an operation and an invariant of it that the module that  *)
(* uses these lemmas gives with INSTANCE.  `par` is what both depend on.   *)

CONSTANTS FoldOp(_, _, _), FoldInv(_, _)

Fold(par, base, seq) == FoldLeft(LAMBDA y, e : FoldOp(par, y, e), base, seq)

\* The values that a fold goes through.
IsRun(h, par, base, seq, n) ==
    /\ h = [i \in 0..n |-> h[i]]
    /\ h[0] = base
    /\ \A i \in 1..n : h[i] = FoldOp(par, h[i - 1], seq[i])

\* A set of numbers up to n has a greatest one.
LEMMA MaxFacts ==
    ASSUME NEW n \in Nat, NEW s \in SUBSET (1..n), s # {}
    PROVE  Max(s) \in s /\ \A y \in s : y <= Max(s)
<1> DEFINE T == {k \in Nat : \E y \in s : k = n - y}
<1>1. T \in SUBSET Nat /\ T # {}
  <2>1. PICK y \in s : TRUE
    OBVIOUS
  <2>2. n - y \in Nat
    OBVIOUS
  <2> QED  BY <2>2
<1>2. PICK k \in T : \A j \in T : k <= j
  BY <1>1, LeastNatural
<1>3. PICK x \in s : k = n - x
  OBVIOUS
<1>4. \A y \in s : x >= y
  <2> SUFFICES ASSUME NEW y \in s PROVE x >= y
    OBVIOUS
  <2>1. n - y \in T
    OBVIOUS
  <2> QED  BY <1>2, <1>3, <2>1
<1>5. Max(s) \in s /\ \A y \in s : Max(s) >= y
  BY <1>4 DEF Max
<1>6. \A y \in s : y \in Int
  OBVIOUS
<1> QED  BY <1>5, <1>6

\* There are such values.
LEMMA RunExists ==
    ASSUME NEW par, NEW base, NEW seq, NEW n \in Nat
    PROVE  \E h : IsRun(h, par, base, seq, n)
<1> DEFINE Bad == {k \in Nat : ~ \E h : IsRun(h, par, base, seq, k)}
<1>1. ASSUME Bad # {} PROVE FALSE
  <2>1. PICK k \in Bad : \A j \in Bad : k <= j
    BY <1>1, LeastNatural
  <2>2. CASE k = 0
    <3> DEFINE h == [i \in 0..0 |-> base]
    <3>1. IsRun(h, par, base, seq, 0)
      BY DEF IsRun
    <3> QED  BY <2>2, <3>1
  <2>3. CASE k > 0
    <3>1. k - 1 \in Nat /\ ~(k <= k - 1)
      BY <2>3
    <3>2. PICK g : IsRun(g, par, base, seq, k - 1)
      BY <2>1, <3>1
    <3> DEFINE h == [i \in 0..k |-> IF i = k THEN FoldOp(par, g[k - 1], seq[k])
                                    ELSE g[i]]
    <3>3. /\ h[0] = g[0] /\ h[k] = FoldOp(par, g[k - 1], seq[k])
          /\ \A i \in 0..(k - 1) : h[i] = g[i]
      BY <2>3
    <3>4. h = [i \in 0..k |-> h[i]]
      OBVIOUS
    <3> HIDE DEF h
    <3>5. \A i \in 1..k : h[i] = FoldOp(par, h[i - 1], seq[i])
      <4> SUFFICES ASSUME NEW i \in 1..k
                   PROVE  h[i] = FoldOp(par, h[i - 1], seq[i])
        OBVIOUS
      <4>1. i - 1 \in 0..(k - 1) /\ h[i - 1] = g[i - 1]
        BY <3>3
      <4>2. CASE i = k
        BY <3>3, <4>1, <4>2
      <4>3. CASE i # k
        <5>1. i \in 1..(k - 1) /\ i \in 0..(k - 1)
          BY <4>3
        <5>2. g[i] = FoldOp(par, g[i - 1], seq[i])
          BY <3>2, <5>1 DEF IsRun
        <5> QED  BY <3>3, <4>1, <5>1, <5>2
      <4> QED  BY <4>2, <4>3
    <3>6. h[0] = base
      BY <3>2, <3>3 DEF IsRun
    <3>7. IsRun(h, par, base, seq, k)
      BY <3>4, <3>5, <3>6 DEF IsRun
    <3> QED  BY <3>7
  <2> QED  BY <2>2, <2>3
<1> QED  BY <1>1

\* An invariant of the operation holds of all of them.
LEMMA EachKeeps ==
    ASSUME NEW par, NEW base, NEW seq, NEW n \in Nat, NEW h,
           IsRun(h, par, base, seq, n), FoldInv(par, base),
           \A i \in 1..n : \A y :
               FoldInv(par, y) => FoldInv(par, FoldOp(par, y, seq[i]))
    PROVE  \A i \in 0..n : FoldInv(par, h[i])
<1> DEFINE Bad == {k \in 0..n : ~FoldInv(par, h[k])}
<1>1. ASSUME Bad # {} PROVE FALSE
  <2>1. PICK k \in Bad : \A j \in Bad : k <= j
    <3>1. Bad \in SUBSET Nat
      OBVIOUS
    <3> QED  BY <1>1, <3>1, LeastNatural
  <2>2. k # 0
    BY DEF IsRun
  <2>3. k \in 1..n /\ k - 1 \in 0..n /\ ~(k <= k - 1)
    BY <2>2
  <2>4. FoldInv(par, h[k - 1])
    BY <2>1, <2>3
  <2>5. h[k] = FoldOp(par, h[k - 1], seq[k])
    BY <2>3 DEF IsRun
  <2> QED  BY <2>3, <2>4, <2>5
<1> QED  BY <1>1

\* The function that FoldLeft is defined by, over the sets of indices.
IsIter(g, par, base, seq, n) ==
    g = [s \in SUBSET (1..n) |->
           IF s = {} THEN base
           ELSE FoldOp(par, g[s \ {Max(s)}], seq[Max(s)])]

\* There is such a function.
LEMMA IterExists ==
    ASSUME NEW par, NEW base, NEW seq, NEW n \in Nat
    PROVE  \E g : IsIter(g, par, base, seq, n)
<1> DEFINE Bad == {k \in Nat : ~ \E g : IsIter(g, par, base, seq, k)}
<1>1. ASSUME Bad # {} PROVE FALSE
  <2>1. PICK k \in Bad : \A j \in Bad : k <= j
    BY <1>1, LeastNatural
  <2>2. CASE k = 0
    <3> DEFINE g == [s \in SUBSET (1..0) |-> base]
    <3>1. \A s \in SUBSET (1..0) : s = {}
      OBVIOUS
    <3>2. g = [s \in SUBSET (1..0) |->
                 IF s = {} THEN base
                 ELSE FoldOp(par, g[s \ {Max(s)}], seq[Max(s)])]
      BY <3>1
    <3>3. IsIter(g, par, base, seq, 0)
      BY <3>2 DEF IsIter
    <3> QED  BY <2>2, <3>3
  <2>3. CASE k > 0
    <3>1. k - 1 \in Nat /\ ~(k <= k - 1)
      BY <2>3
    <3>2. PICK f : IsIter(f, par, base, seq, k - 1)
      BY <2>1, <3>1
    <3> DEFINE P == SUBSET (1..(k - 1))
               G == SUBSET (1..k)
               g == [s \in G |->
                       IF k \in s THEN FoldOp(par, f[s \ {k}], seq[k])
                       ELSE f[s]]
               Rec(s) == IF s = {} THEN base
                         ELSE FoldOp(par, g[s \ {Max(s)}], seq[Max(s)])
    <3>3. \A s \in P : s \in G /\ k \notin s
      <4> SUFFICES ASSUME NEW s \in P PROVE s \in G /\ k \notin s
        OBVIOUS
      <4>1. \A x \in s : x \in 1..(k - 1)
        OBVIOUS
      <4>2. \A x \in s : x \in 1..k /\ x # k
        BY <4>1
      <4> QED  BY <4>2
    <3>4. \A s \in P : g[s] = f[s]
      BY <3>3
    <3>5. \A s \in G : k \notin s => s \in P
      <4> SUFFICES ASSUME NEW s \in G, k \notin s PROVE s \in P
        OBVIOUS
      <4>1. \A x \in s : x \in 1..k /\ x # k
        OBVIOUS
      <4>2. \A x \in s : x \in 1..(k - 1)
        BY <4>1
      <4> QED  BY <4>2
    <3>6. ASSUME NEW s \in G PROVE g[s] = Rec(s)
      <4>1. CASE k \in s
        <5>1. Max(s) \in s /\ k <= Max(s)
          BY <4>1, MaxFacts
        <5>2. Max(s) = k
          <6>1. Max(s) \in 1..k
            BY <5>1
          <6> QED  BY <5>1, <6>1
        <5>3. s \ {k} \in G /\ k \notin s \ {k}
          OBVIOUS
        <5>4. g[s \ {k}] = f[s \ {k}]
          BY <3>4, <3>5, <5>3
        <5>5. g[s] = FoldOp(par, f[s \ {k}], seq[k])
          BY <4>1
        <5> HIDE DEF g, G, P
        <5> QED  BY <4>1, <5>2, <5>4, <5>5
      <4>2. CASE k \notin s
        <5>1. s \in P /\ g[s] = f[s]
          BY <3>4, <3>5, <4>2
        <5>2. f[s] = IF s = {} THEN base
                     ELSE FoldOp(par, f[s \ {Max(s)}], seq[Max(s)])
          BY <3>2, <5>1 DEF IsIter
        <5>3. s \ {Max(s)} \in P
          BY <5>1
        <5>4. g[s \ {Max(s)}] = f[s \ {Max(s)}]
          BY <3>4, <5>3
        <5> HIDE DEF g, G, P
        <5> QED  BY <5>1, <5>2, <5>4
      <4> QED  BY <4>1, <4>2
    <3>7. g = [s \in G |-> g[s]]
      OBVIOUS
    <3>8. g = [s \in G |-> Rec(s)]
      <4> HIDE DEF g, G, Rec
      <4> QED  BY <3>6, <3>7
    <3>9. IsIter(g, par, base, seq, k)
      <4> HIDE DEF g
      <4> QED  BY <3>8 DEF IsIter
    <3> QED  BY <3>9
  <2> QED  BY <2>2, <2>3
<1> QED  BY <1>1

\* FoldLeft is the last of the values.
LEMMA FoldIsRun ==
    ASSUME NEW par, NEW base, NEW seq, NEW n \in Nat, DOMAIN seq = 1..n,
           NEW h, IsRun(h, par, base, seq, n)
    PROVE  Fold(par, base, seq) = h[n]
<1> DEFINE Iter(g) == g = [s \in SUBSET (1..n) |->
                             IF s = {} THEN base
                             ELSE FoldOp(par, g[s \ {Max(s)}], seq[Max(s)])]
           it == CHOOSE g : Iter(g)
<1>1. Fold(par, base, seq) = it[1..n]
  BY DEF Fold, FoldLeft, MapThenFoldSet
<1>2. \E g : Iter(g)
  <2>1. PICK g : IsIter(g, par, base, seq, n)
    BY IterExists
  <2>2. Iter(g)
    BY <2>1 DEF IsIter
  <2> HIDE DEF Iter
  <2> QED  BY <2>2
<1>3. Iter(it)
  <2> HIDE DEF Iter
  <2> QED  BY <1>2
<1>4. \A s \in SUBSET (1..n) :
         it[s] = IF s = {} THEN base
                 ELSE FoldOp(par, it[s \ {Max(s)}], seq[Max(s)])
  <2> HIDE DEF it
  <2> QED  BY <1>3
<1> HIDE DEF it, Iter
<1> DEFINE Bad == {k \in 0..n : it[1..k] # h[k]}
<1>5. ASSUME Bad # {} PROVE FALSE
  <2>1. PICK k \in Bad : \A j \in Bad : k <= j
    <3>1. Bad \in SUBSET Nat
      OBVIOUS
    <3> QED  BY <1>5, <3>1, LeastNatural
  <2>2. CASE k = 0
    <3>1. 1..0 = {} /\ {} \in SUBSET (1..n)
      OBVIOUS
    <3>2. it[1..0] = base
      BY <1>4, <3>1
    <3> QED  BY <2>2, <3>2 DEF IsRun
  <2>3. CASE k # 0
    <3>1. k \in 1..n /\ k - 1 \in 0..n /\ ~(k <= k - 1)
      BY <2>3
    <3>2. it[1..(k - 1)] = h[k - 1]
      BY <2>1, <3>1
    <3>3. 1..k \in SUBSET (1..n) /\ k \in 1..k /\ 1..k # {}
      BY <3>1
    <3>4. Max(1..k) \in 1..k /\ k <= Max(1..k)
      BY <3>3, MaxFacts
    <3>5. Max(1..k) = k
      BY <3>1, <3>4
    <3>6. (1..k) \ {k} = 1..(k - 1)
      BY <3>1
    <3>7. it[1..k] = FoldOp(par, it[(1..k) \ {k}], seq[k])
      BY <1>4, <3>3, <3>5
    <3>8. h[k] = FoldOp(par, h[k - 1], seq[k])
      BY <3>1 DEF IsRun
    <3> QED  BY <3>2, <3>6, <3>7, <3>8
  <2> QED  BY <2>2, <2>3
<1> QED  BY <1>1, <1>5

\* An invariant of the operation holds of the result.
LEMMA FoldKeeps ==
    ASSUME NEW par, NEW base, NEW seq, NEW n \in Nat, DOMAIN seq = 1..n,
           FoldInv(par, base),
           \A i \in 1..n : \A y :
               FoldInv(par, y) => FoldInv(par, FoldOp(par, y, seq[i]))
    PROVE  FoldInv(par, Fold(par, base, seq))
<1>1. PICK h : IsRun(h, par, base, seq, n)
  BY RunExists
<1>2. Fold(par, base, seq) = h[n]
  BY <1>1, FoldIsRun
<1>3. \A i \in 0..n : FoldInv(par, h[i])
  BY <1>1, EachKeeps
<1> QED  BY <1>2, <1>3
=============================================================================
