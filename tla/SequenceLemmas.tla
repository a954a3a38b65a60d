--------------------------- MODULE SequenceLemmas ---------------------------
(***************************************************************************)
(* What the proofs about digests, rankings and aliases need of the         *)
(* operators on sequences: induction over 0 .. n, stated with a set        *)
(* instead of a predicate, that the recursive functions behind FoldLeft    *)
(* and FlattenSeq exist, and what a fold yields step by step.              *)
(***************************************************************************)
EXTENDS SequencesExt, FiniteSetTheorems, SequenceTheorems, WellFoundedInduction, TLAPS

Smaller == {p \in Nat \X Nat : p[1] < p[2]}

(* The order of the naturals, as a relation. *)
LEMMA SmallerWellFounded == IsWellFoundedOn(Smaller, Nat)
BY NatLessThanWellFounded DEF OpToRel, Smaller

(* A set of naturals that is not empty has a least element. *)
LEMMA LeastOf ==
    ASSUME NEW P \in SUBSET Nat, P # {}
    PROVE  \E m \in P : \A n \in P : m <= n
<1>1. PICK m \in P : \A n \in P : ~(<<n, m>> \in Smaller)
  BY SmallerWellFounded, WFMin
<1>2. \A n \in P : n < m => <<n, m>> \in Smaller
  BY DEF Smaller
<1>3. \A n \in P : n \in Nat /\ m \in Nat
  OBVIOUS
<1>4. ASSUME NEW n \in P PROVE m <= n
  <2>1. ~(n < m)
    BY <1>1, <1>2
  <2> QED
    BY <1>3, <2>1
<1> QED
  BY <1>4

(* Induction up to n, for the property of being in P. *)
LEMMA UpTo ==
    ASSUME NEW P, NEW n \in Nat, 0 \in P,
           \A i \in 0 .. n : i < n /\ i \in P => i + 1 \in P
    PROVE  \A i \in 0 .. n : i \in P
<1> DEFINE Bad == {i \in 0 .. n : i \notin P}
<1>1. SUFFICES ASSUME Bad # {} PROVE FALSE
  OBVIOUS
<1>2. Bad \in SUBSET Nat
  OBVIOUS
<1>3. PICK m \in Bad : \A i \in Bad : m <= i
  <2> HIDE DEF Bad
  <2> QED
    BY <1>1, <1>2, LeastOf
<1>4. m - 1 \in 0 .. n /\ m - 1 \in P /\ m - 1 < n
  BY <1>3
<1> QED
  BY <1>3, <1>4

(* f goes from base to f[n] in n steps. *)
Follows(f, base, step, n) ==
    /\ f[0] = base
    /\ \A i \in 1 .. n : f[i] = step[<<i, f[i - 1]>>]

(* A recursive function over 0 .. n whose values stay in V exists. *)
LEMMA Recursion ==
    ASSUME NEW V, NEW base \in V, NEW n \in Nat,
           NEW step \in [(1 .. n) \X V -> V]
    PROVE  \E f \in [0 .. n -> V] : Follows(f, base, step, n)
<1> DEFINE Good == {k \in 0 .. n : \E f \in [0 .. k -> V] : Follows(f, base, step, k)}
<1>1. 0 \in Good
  <2>1. [i \in 0 .. 0 |-> base] \in [0 .. 0 -> V]
    OBVIOUS
  <2>2. Follows([i \in 0 .. 0 |-> base], base, step, 0)
    BY DEF Follows
  <2> QED
    BY <2>1, <2>2
<1>2. ASSUME NEW k \in 0 .. n, k < n, k \in Good PROVE k + 1 \in Good
  <2>1. PICK f \in [0 .. k -> V] : Follows(f, base, step, k)
    BY <1>2
  <2> DEFINE g == [i \in 0 .. k + 1 |-> IF i = k + 1 THEN step[<<k + 1, f[k]>>] ELSE f[i]]
  <2>2. k + 1 \in 1 .. n /\ k \in 0 .. k /\ k + 1 # 0 /\ 0 \in 0 .. k
    BY <1>2
  <2>3. f[k] \in V
    BY <2>2
  <2>4. step[<<k + 1, f[k]>>] \in V
    BY <2>2, <2>3
  <2>5. g \in [0 .. k + 1 -> V]
    BY <2>4
  <2>6. g[k + 1] = step[<<k + 1, f[k]>>] /\ \A i \in 0 .. k : g[i] = f[i]
    BY <2>2
  <2> HIDE DEF g
  <2>7. ASSUME NEW i \in 1 .. k + 1 PROVE g[i] = step[<<i, g[i - 1]>>]
    <3>1. CASE i = k + 1
      <4>1. g[i - 1] = f[k]
        BY <2>2, <2>6, <3>1
      <4> QED
        BY <2>6, <3>1, <4>1
    <3>2. CASE i # k + 1
      <4>1. i \in 1 .. k /\ i \in 0 .. k /\ i - 1 \in 0 .. k
        BY <3>2
      <4>2. f[i] = step[<<i, f[i - 1]>>]
        BY <2>1, <4>1 DEF Follows
      <4> QED
        BY <2>6, <4>1, <4>2
    <3> QED
      BY <3>1, <3>2
  <2>8. Follows(g, base, step, k + 1)
    BY <2>1, <2>2, <2>6, <2>7 DEF Follows
  <2> QED
    BY <2>2, <2>5, <2>8
<1>3. \A k \in 0 .. n : k \in Good
  <2> HIDE DEF Good
  <2> QED
    BY <1>1, <1>2, UpTo
<1> QED
  BY <1>3

(* Max of a set of positions is the last of them. *)
LEMMA LargestUpTo ==
    ASSUME NEW n \in Nat
    PROVE  /\ \A S \in SUBSET (1 .. n) : n \in S => Max(S) = n
           /\ \A S \in SUBSET (1 .. n) : S # {} => Max(S) \in S
<1>1. ASSUME NEW S \in SUBSET (1 .. n), n \in S PROVE Max(S) = n
  <2>1. \A y \in S : n >= y
    OBVIOUS
  <2>2. \A m \in S : (\A y \in S : m >= y) => m = n
    BY <1>1
  <2> QED
    BY <1>1, <2>1, <2>2 DEF Max
<1>2. ASSUME NEW S \in SUBSET (1 .. n), S # {} PROVE Max(S) \in S
  <2> DEFINE Distances == {n - i : i \in S}
  <2>1. Distances \in SUBSET Nat /\ Distances # {}
    <3>1. \A i \in S : i \in 1 .. n /\ n - i \in Nat
      OBVIOUS
    <3>2. PICK i \in S : TRUE
      BY <1>2
    <3>3. n - i \in Distances
      OBVIOUS
    <3> QED
      BY <3>1, <3>3
  <2>2. PICK d \in Distances : \A e \in Distances : d <= e
    <3> HIDE DEF Distances
    <3> QED
      BY <2>1, LeastOf
  <2>3. PICK m \in S : d = n - m
    BY <2>2
  <2>4. \A y \in S : m >= y
    <3>1. ASSUME NEW y \in S PROVE m >= y
      <4>1. n - m <= n - y
        BY <2>2, <2>3
      <4> QED
        BY <4>1
    <3> QED
      BY <3>1
  <2> QED
    BY <2>3, <2>4 DEF Max
<1> QED
  BY <1>1, <1>2

(* The equation of FoldLeft over the positions 1 .. n. *)
Solves(fold, base, step, n) ==
    /\ fold[{}] = base
    /\ \A S \in SUBSET (1 .. n) :
          S # {} => fold[S] = step[<<Max(S), fold[S \ {Max(S)}]>>]

(* It has a solution. *)
LEMMA FoldSolution ==
    ASSUME NEW V, NEW base \in V, NEW n \in Nat,
           NEW step \in [(1 .. n) \X V -> V]
    PROVE  \E fold \in [SUBSET (1 .. n) -> V] :
              Solves(fold, base, step, n)
<1> DEFINE Is(k, f) == \A S \in SUBSET (1 .. k) :
                          f[S] = IF S = {} THEN base ELSE step[<<Max(S), f[S \ {Max(S)}]>>]
           Good == {k \in 0 .. n : \E f \in [SUBSET (1 .. k) -> V] : Is(k, f)}
<1>1. 0 \in Good
  <2>1. [S \in SUBSET (1 .. 0) |-> base] \in [SUBSET (1 .. 0) -> V]
    OBVIOUS
  <2>2. Is(0, [S \in SUBSET (1 .. 0) |-> base])
    <3>1. \A S \in SUBSET (1 .. 0) : S = {}
      OBVIOUS
    <3> QED
      BY <3>1
  <2> HIDE DEF Is
  <2> QED
    BY <2>1, <2>2
<1>2. ASSUME NEW k \in 0 .. n, k < n, k \in Good PROVE k + 1 \in Good
  <2>1. PICK f \in [SUBSET (1 .. k) -> V] : Is(k, f)
    BY <1>2
  <2> DEFINE g == [S \in SUBSET (1 .. k + 1) |->
                     IF k + 1 \in S THEN step[<<k + 1, f[S \ {k + 1}]>>] ELSE f[S]]
  <2>2. k + 1 \in 1 .. n /\ k \in Nat /\ k + 1 \in Nat
    BY <1>2
  <2>3. \A S \in SUBSET (1 .. k + 1) : /\ S \ {k + 1} \in SUBSET (1 .. k)
                                      /\ k + 1 \notin S => S \in SUBSET (1 .. k)
    BY <2>2
  <2>4. g \in [SUBSET (1 .. k + 1) -> V]
    <3>1. ASSUME NEW S \in SUBSET (1 .. k + 1)
          PROVE  (IF k + 1 \in S THEN step[<<k + 1, f[S \ {k + 1}]>>] ELSE f[S]) \in V
      <4>1. f[S \ {k + 1}] \in V
        BY <2>3
      <4>2. step[<<k + 1, f[S \ {k + 1}]>>] \in V
        BY <2>2, <4>1
      <4>3. k + 1 \notin S => f[S] \in V
        BY <2>3
      <4> QED
        BY <4>2, <4>3
    <3> QED
      BY <3>1
  <2>5. ASSUME NEW S \in SUBSET (1 .. k + 1)
        PROVE  g[S] = IF S = {} THEN base ELSE step[<<Max(S), g[S \ {Max(S)}]>>]
    <3>1. CASE k + 1 \in S
      <4>1. Max(S) = k + 1 /\ S # {}
        BY <2>2, <3>1, LargestUpTo
      <4>2. S \ {k + 1} \in SUBSET (1 .. k + 1) /\ k + 1 \notin S \ {k + 1}
        OBVIOUS
      <4>3. g[S \ {k + 1}] = f[S \ {k + 1}]
        BY <4>2
      <4>4. g[S] = step[<<k + 1, f[S \ {k + 1}]>>]
        BY <3>1
      <4> HIDE DEF g
      <4> QED
        BY <4>1, <4>3, <4>4
    <3>2. CASE k + 1 \notin S
      <4>1. S \in SUBSET (1 .. k) /\ g[S] = f[S]
        BY <2>3, <3>2
      <4>2. f[S] = IF S = {} THEN base ELSE step[<<Max(S), f[S \ {Max(S)}]>>]
        BY <2>1, <4>1
      <4>3. S # {} => /\ S \ {Max(S)} \in SUBSET (1 .. k + 1)
                     /\ k + 1 \notin S \ {Max(S)}
        BY <3>2
      <4>4. S # {} => g[S \ {Max(S)}] = f[S \ {Max(S)}]
        BY <4>3
      <4> HIDE DEF g
      <4> QED
        BY <4>1, <4>2, <4>4
    <3> QED
      BY <3>1, <3>2
  <2>6. Is(k + 1, g)
    <3> HIDE DEF g
    <3> QED
      BY <2>5
  <2> HIDE DEF Is, g
  <2> QED
    BY <2>2, <2>4, <2>6
<1>3. \A k \in 0 .. n : k \in Good
  <2> HIDE DEF Good
  <2> QED
    BY <1>1, <1>2, UpTo
<1>4. PICK f \in [SUBSET (1 .. n) -> V] : Is(n, f)
  <2>1. n \in Good
    <3> HIDE DEF Good
    <3> QED
      BY <1>3
  <2> QED
    BY <2>1
<1> QED
  BY <1>4 DEF Solves

(* A solution that need not be typed: the equation as far as its values    *)
(* are in V.                                                               *)
SolvesIn(V, fold, base, step, n) ==
    /\ fold = [S \in SUBSET (1 .. n) |-> fold[S]]
    /\ fold[{}] = base
    /\ \A S \in SUBSET (1 .. n) :
          S # {} /\ fold[S \ {Max(S)}] \in V
          => fold[S] = step[<<Max(S), fold[S \ {Max(S)}]>>]

Reaches(h, fold, base, step, n) == Follows(h, base, step, n) /\ fold[1 .. n] = h[n]

(* Any solution goes through the sequence from its first element on. *)
LEMMA FoldSteps ==
    ASSUME NEW V, NEW base \in V, NEW n \in Nat,
           NEW step \in [(1 .. n) \X V -> V],
           NEW fold, SolvesIn(V, fold, base, step, n)
    PROVE  \E h \in [0 .. n -> V] : Reaches(h, fold, base, step, n)
<1> DEFINE h == [i \in 0 .. n |-> fold[1 .. i]]
           Good == {i \in 0 .. n : h[i] \in V /\ (i > 0 => h[i] = step[<<i, h[i - 1]>>])}
<1>1. 0 \in Good /\ h[0] = base
  <2>1. 1 .. 0 = {} /\ 1 .. 0 \in SUBSET (1 .. n) /\ 0 \in 0 .. n
    OBVIOUS
  <2>2. fold[1 .. 0] = base
    BY <2>1 DEF SolvesIn
  <2>3. h[0] = base
    BY <2>1, <2>2
  <2> HIDE DEF h
  <2> QED
    BY <2>1, <2>3
<1>2. ASSUME NEW i \in 0 .. n, i < n, i \in Good PROVE i + 1 \in Good
  <2>1. /\ 1 .. i + 1 \in SUBSET (1 .. n) /\ i + 1 \in 1 .. i + 1 /\ i + 1 \in Nat
        /\ (1 .. i + 1) \ {i + 1} = 1 .. i
        /\ i + 1 \in 1 .. n /\ i + 1 \in 0 .. n /\ (i + 1) - 1 = i
    BY <1>2
  <2>2. Max(1 .. i + 1) = i + 1
    <3>1. 1 .. i + 1 \in SUBSET (1 .. i + 1)
      OBVIOUS
    <3> QED
      BY <2>1, <3>1, LargestUpTo
  <2>3. h[i] = fold[1 .. i] /\ h[i] \in V /\ h[i + 1] = fold[1 .. i + 1]
    BY <1>2, <2>1
  <2>4. 1 .. i + 1 # {}
    BY <2>1
  <2>5. h[i + 1] = step[<<i + 1, h[i]>>]
    <3> HIDE DEF h
    <3>1. (1 .. i + 1) \ {Max(1 .. i + 1)} = 1 .. i
      BY <2>1, <2>2
    <3>2. fold[1 .. i + 1] = step[<<Max(1 .. i + 1), fold[(1 .. i + 1) \ {Max(1 .. i + 1)}]>>]
      BY <2>1, <2>3, <2>4, <3>1 DEF SolvesIn
    <3> QED
      BY <2>2, <2>3, <3>1, <3>2
  <2>6. h[i + 1] \in V
    <3> HIDE DEF h
    <3> QED
      BY <2>1, <2>3, <2>5
  <2> HIDE DEF h
  <2> QED
    BY <2>1, <2>5, <2>6
<1>3. \A i \in 0 .. n : i \in Good
  <2> HIDE DEF Good
  <2> QED
    BY <1>1, <1>2, UpTo
<1>4. h \in [0 .. n -> V] /\ h[n] = fold[1 .. n] /\ h[0] = base
  <2>1. \A i \in 0 .. n : h[i] \in V
    BY <1>3
  <2>2. \A i \in 0 .. n : fold[1 .. i] \in V
    BY <2>1
  <2>3. h \in [0 .. n -> V] 
    BY <2>2
  <2>4. h[n] = fold[1 .. n]
    OBVIOUS
  <2> QED
    BY <1>1, <2>3, <2>4
<1>5. \A i \in 1 .. n : h[i] = step[<<i, h[i - 1]>>]
  <2> HIDE DEF h
  <2> QED
    BY <1>3
<1> HIDE DEF h
<1> QED
  BY <1>4, <1>5 DEF Follows, Reaches

(* The elements of a concatenation, counted from where each part begins. *)
LEMMA ConcatParts ==
    ASSUME NEW S, NEW a \in Seq(S), NEW b \in Seq(S),
           NEW m \in Nat, NEW n \in Nat, m = Len(a), n = Len(b)
    PROVE  /\ a \o b \in Seq(S) /\ Len(a \o b) = m + n
           /\ \A i \in 1 .. m : (a \o b)[i] = a[i]
           /\ \A i \in 1 .. n : (a \o b)[m + i] = b[i]
<1>1. /\ a \o b \in Seq(S) /\ Len(a \o b) = m + n
      /\ \A i \in 1 .. m + n : (a \o b)[i] = IF i <= m THEN a[i] ELSE b[i - m]
  BY ConcatProperties
<1>2. PICK c : c = a \o b
  OBVIOUS
<1>3. \A i \in 1 .. m : c[i] = a[i]
  BY <1>1, <1>2
<1>4. ASSUME NEW i \in 1 .. n PROVE c[m + i] = b[i]
  <2>1. m + i \in 1 .. m + n /\ ~(m + i <= m) /\ (m + i) - m = i
    OBVIOUS
  <2> QED
    BY <1>1, <1>2, <2>1
<1> QED
  BY <1>1, <1>2, <1>3, <1>4

(* The elements of a concatenation are those of its parts. *)
LEMMA ToSetConcat ==
    ASSUME NEW S, NEW a \in Seq(S), NEW b \in Seq(S)
    PROVE  ToSet(a \o b) = ToSet(a) \cup ToSet(b)
<1>1. PICK m, n \in Nat : m = Len(a) /\ n = Len(b)
  OBVIOUS
<1>2. PICK c \in Seq(S) : c = a \o b
  <2>1. a \o b \in Seq(S)
    OBVIOUS
  <2> QED
    BY <2>1
<1>3. /\ Len(c) = m + n /\ \A i \in 1 .. m : c[i] = a[i]
      /\ \A i \in 1 .. n : c[m + i] = b[i]
  BY <1>1, <1>2, ConcatParts
<1>4. ToSet(c) \subseteq ToSet(a) \cup ToSet(b)
  <2> SUFFICES ASSUME NEW i \in 1 .. m + n PROVE c[i] \in ToSet(a) \cup ToSet(b)
    BY <1>3 DEF ToSet
  <2>1. CASE i <= m
    BY <1>1, <1>3, <2>1 DEF ToSet
  <2>2. CASE ~(i <= m)
    <3>1. PICK j \in 1 .. n : i = m + j
      <4>1. i - m \in 1 .. n /\ i = m + (i - m)
        BY <2>2
      <4> QED
        BY <4>1
    <3> QED
      BY <1>1, <1>3, <3>1 DEF ToSet
  <2> QED
    BY <2>1, <2>2
<1>5. ToSet(a) \cup ToSet(b) \subseteq ToSet(c)
  <2>1. ASSUME NEW i \in 1 .. m PROVE a[i] \in ToSet(c)
    <3>1. i \in 1 .. Len(c) /\ c[i] = a[i]
      BY <1>3
    <3> QED
      BY <3>1 DEF ToSet
  <2>2. ASSUME NEW i \in 1 .. n PROVE b[i] \in ToSet(c)
    <3>1. m + i \in 1 .. Len(c) /\ c[m + i] = b[i]
      BY <1>3
    <3> QED
      BY <3>1 DEF ToSet
  <2> QED
    BY <1>1, <2>1, <2>2 DEF ToSet
<1> QED
  BY <1>2, <1>4, <1>5

(* A prefix that is one longer ends in one element more. *)
LEMMA PrefixGrows ==
    ASSUME NEW S, NEW p \in Seq(S), NEW m \in Nat, m + 1 <= Len(p)
    PROVE  /\ SubSeq(p, 1, m) \in Seq(S) /\ p[m + 1] \in S /\ <<p[m + 1]>> \in Seq(S)
           /\ SubSeq(p, 1, m + 1) = SubSeq(p, 1, m) \o <<p[m + 1]>>
<1>1. PICK n \in Nat : n = Len(p)
  OBVIOUS
<1>2. /\ \A i \in 1 .. m + 1 : p[i] \in S
      /\ \A i \in 1 .. m : p[i] \in S
  BY <1>1
<1>3. PICK x \in S : x = p[m + 1]
  BY <1>2
<1>4. /\ SubSeq(p, 1, m) \in Seq(S) /\ SubSeq(p, 1, m + 1) \in Seq(S)
      /\ Len(SubSeq(p, 1, m)) = m /\ Len(SubSeq(p, 1, m + 1)) = m + 1
      /\ \A i \in 1 .. m : SubSeq(p, 1, m)[i] = p[i]
      /\ \A i \in 1 .. m + 1 : SubSeq(p, 1, m + 1)[i] = p[i]
  BY <1>2, SubSeqProperties
<1>5. PICK a, q \in Seq(S) : a = SubSeq(p, 1, m) /\ q = SubSeq(p, 1, m + 1)
  BY <1>4
<1>6. /\ Len(a) = m /\ \A i \in 1 .. m : a[i] = p[i]
      /\ Len(q) = m + 1 /\ \A i \in 1 .. m + 1 : q[i] = p[i]
  BY <1>4, <1>5
<1>7. PICK b \in Seq(S) : b = <<x>>
  <2>1. <<x>> \in Seq(S)
    OBVIOUS
  <2> QED
    BY <2>1
<1>8. PICK k \in Nat : k = 1 /\ k = Len(b) /\ b[1] = x
  BY <1>7
<1>9. /\ a \o b \in Seq(S) /\ Len(a \o b) = m + k
      /\ \A i \in 1 .. m : (a \o b)[i] = a[i]
      /\ \A i \in 1 .. k : (a \o b)[m + i] = b[i]
  <2>1. a \in Seq(S) /\ b \in Seq(S) /\ m = Len(a) /\ k = Len(b)
    BY <1>6, <1>8
  <2> QED
    BY <2>1, ConcatParts
<1>10. PICK r \in Seq(S) : r = a \o b
  BY <1>9
<1>11. Len(r) = m + 1 /\ r[m + 1] = x /\ \A i \in 1 .. m : r[i] = p[i]
  BY <1>6, <1>8, <1>9, <1>10
<1>12. ASSUME NEW i \in 1 .. Len(q) PROVE q[i] = r[i]
  <2>1. i \in 1 .. m + 1 /\ (i \in 1 .. m \/ i = m + 1)
    BY <1>6
  <2>2. q[i] = p[i]
    BY <1>6, <2>1
  <2> QED
    BY <1>3, <1>11, <2>1, <2>2
<1>13. q = r
  BY <1>6, <1>11, <1>12, SeqEqual
<1> QED
  BY <1>3, <1>5, <1>7, <1>10, <1>13

(* FlattenSeq concatenates one sequence after the other. *)
LEMMA FlattenSteps ==
    ASSUME NEW S, NEW ss \in Seq(Seq(S))
    PROVE  \E h \in [0 .. Len(ss) -> Seq(S)] :
              /\ h[0] = <<>>
              /\ \A i \in 1 .. Len(ss) : h[i] = h[i - 1] \o ss[i]
              /\ FlattenSeq(ss) = h[Len(ss)]
<1> DEFINE n == Len(ss)
           V == Seq(S)
           step == [p \in (1 .. n) \X V |-> p[2] \o ss[p[1]]]
           Flat(g) == g = [i \in 1 .. n |-> IF i = 1 THEN ss[i] ELSE g[i - 1] \o ss[i]]
<1>1. /\ n \in Nat /\ <<>> \in V
      /\ \A i \in 1 .. n : ss[i] \in V
      /\ \A v, w \in V : v \o w \in V
      /\ \A v \in V : <<>> \o v = v
  BY ConcatEmptySeq
<1>2. step \in [(1 .. n) \X V -> V]
  <2> HIDE DEF n, V
  <2> QED
    BY <1>1
<1>3. \A i \in 1 .. n, v \in V : step[<<i, v>>] = v \o ss[i]
  <2> HIDE DEF n, V
  <2> QED
    OBVIOUS
<1> HIDE DEF n, V, step
<1>4. PICK f \in [0 .. n -> V] : Follows(f, <<>>, step, n)
  BY <1>1, <1>2, Recursion
<1>5. /\ f[0] = <<>>
      /\ \A i \in 1 .. n : f[i] = f[i - 1] \o ss[i]
  <2>1. f[0] = <<>> /\ \A i \in 1 .. n : f[i] = step[<<i, f[i - 1]>>]
    BY <1>4 DEF Follows
  <2>2. \A i \in 1 .. n : f[i - 1] \in V
    BY <1>1, <1>4
  <2> QED
    BY <1>3, <2>1, <2>2
<1>6. CASE n = 0
  <2>1. FlattenSeq(ss) = <<>>
    <3>1. ss = <<>>
      BY <1>6 DEF n
    <3> QED
      BY <3>1 DEF FlattenSeq
  <2> QED
    BY <1>5, <1>6, <2>1 DEF n, V
<1>7. CASE n # 0
  <2>1. Flat([i \in 1 .. n |-> f[i]])
    <3> DEFINE g == [i \in 1 .. n |-> f[i]]
    <3>1. ASSUME NEW i \in 1 .. n
          PROVE  g[i] = IF i = 1 THEN ss[i] ELSE g[i - 1] \o ss[i]
      <4>1. g[i] = f[i - 1] \o ss[i]
        BY <1>5
      <4>2. CASE i = 1
        <5>1. f[i - 1] = <<>>
          BY <1>5, <4>2
        <5> QED
          BY <1>1, <4>1, <4>2, <5>1
      <4>3. CASE i # 1
        <5>1. i - 1 \in 1 .. n
          BY <1>1, <4>3
        <5>2. g[i - 1] = f[i - 1]
          BY <5>1
        <5> QED
          BY <4>1, <4>3, <5>2
      <4> QED
        BY <4>2, <4>3
    <3>2. g = [i \in 1 .. n |-> g[i]]
      OBVIOUS
    <3> HIDE DEF g
    <3>3. Flat(g)
      BY <3>1, <3>2
    <3> QED
      BY <3>3 DEF g
  <2>2. PICK flat : Flat(flat) /\ FlattenSeq(ss) = flat[n]
    <3> DEFINE flat == CHOOSE g : Flat(g)
    <3>1. Flat(flat)
      <4> HIDE DEF Flat
      <4> QED
        BY <2>1
    <3>2. FlattenSeq(ss) = flat[n]
      BY <1>7 DEF FlattenSeq, n
    <3> QED
      BY <3>1, <3>2
  <2>3. \A i \in 1 .. n : flat[i] = IF i = 1 THEN ss[i] ELSE flat[i - 1] \o ss[i]
    BY <2>2
  <2> DEFINE Same == {i \in 0 .. n : i > 0 => flat[i] = f[i]}
  <2>4. 0 \in Same
    BY <1>1
  <2>5. ASSUME NEW i \in 0 .. n, i < n, i \in Same PROVE i + 1 \in Same
    <3>1. i + 1 \in 1 .. n /\ i + 1 \in 0 .. n /\ (i + 1) - 1 = i
      BY <1>1, <2>5
    <3>2. f[i + 1] = f[i] \o ss[i + 1]
      BY <1>5, <3>1
    <3>3. CASE i = 0
      <4>1. flat[i + 1] = ss[i + 1]
        BY <2>3, <3>1, <3>3
      <4>2. f[i + 1] = ss[i + 1]
        BY <1>1, <1>5, <3>1, <3>2, <3>3
      <4> QED
        BY <3>1, <4>1, <4>2
    <3>4. CASE i # 0
      <4>1. flat[i] = f[i]
        BY <2>5, <3>4
      <4>2. flat[i + 1] = flat[i] \o ss[i + 1]
        <5>1. i + 1 # 1
          BY <3>4
        <5>2. flat[i + 1] = flat[(i + 1) - 1] \o ss[i + 1]
          BY <2>3, <3>1, <5>1
        <5> QED
          BY <3>1, <5>2
      <4> QED
        BY <3>1, <3>2, <4>1, <4>2
    <3> QED
      BY <3>3, <3>4
  <2>6. \A i \in 0 .. n : i \in Same
    <3> HIDE DEF Same
    <3> QED
      BY <1>1, <2>4, <2>5, UpTo
  <2>7. FlattenSeq(ss) = f[n]
    <3>1. n \in 0 .. n /\ n > 0
      BY <1>1, <1>7
    <3> QED
      BY <2>2, <2>6, <3>1
  <2> QED
    BY <1>4, <1>5, <2>7 DEF n, V
<1> QED
  BY <1>6, <1>7

(* Flattened sequences over S make a sequence over S. *)
LEMMA FlattenType ==
    ASSUME NEW S, NEW ss \in Seq(Seq(S))
    PROVE  FlattenSeq(ss) \in Seq(S)
<1>1. PICK h \in [0 .. Len(ss) -> Seq(S)] : FlattenSeq(ss) = h[Len(ss)]
  BY FlattenSteps
<1>2. Len(ss) \in 0 .. Len(ss)
  BY LenProperties
<1> QED
  BY <1>1, <1>2

(* Every member is in the concatenation. *)
LEMMA FlattenMember ==
    ASSUME NEW S, NEW ss \in Seq(Seq(S)), NEW i \in 1 .. Len(ss)
    PROVE  ToSet(ss[i]) \subseteq ToSet(FlattenSeq(ss))
<1>1. PICK h \in [0 .. Len(ss) -> Seq(S)] :
         /\ \A j \in 1 .. Len(ss) : h[j] = h[j - 1] \o ss[j]
         /\ FlattenSeq(ss) = h[Len(ss)]
  BY FlattenSteps
<1>2. Len(ss) \in Nat /\ \A j \in 1 .. Len(ss) : ss[j] \in Seq(S)
  BY LenProperties
<1>3. \A v, w \in Seq(S) : ToSet(v \o w) = ToSet(v) \cup ToSet(w)
  <2>1. \A v : ToSet(v) = Range(v)
    BY DEF ToSet, Range
  <2>2. \A v, w \in Seq(S) : Range(v \o w) = Range(v) \cup Range(w)
    BY RangeConcatenation
  <2> QED
    BY <2>1, <2>2
<1> DEFINE Holds == {j \in 0 .. Len(ss) : j >= i => ToSet(ss[i]) \subseteq ToSet(h[j])}
<1>4. 0 \in Holds
  BY <1>2
<1>5. ASSUME NEW j \in 0 .. Len(ss), j < Len(ss), j \in Holds PROVE j + 1 \in Holds
  <2>1. j + 1 \in 1 .. Len(ss) /\ j + 1 \in 0 .. Len(ss) /\ (j + 1) - 1 = j
    BY <1>2, <1>5
  <2>2. h[j + 1] = h[j] \o ss[j + 1] /\ h[j] \in Seq(S)
    BY <1>1, <2>1
  <2>3. ToSet(h[j + 1]) = ToSet(h[j]) \cup ToSet(ss[j + 1])
    BY <1>2, <1>3, <2>1, <2>2
  <2>4. CASE j + 1 = i
    BY <2>1, <2>3, <2>4
  <2>5. CASE j + 1 # i
    <3>1. j + 1 >= i => ToSet(ss[i]) \subseteq ToSet(h[j])
      BY <1>2, <1>5, <2>1, <2>5
    <3> QED
      BY <2>1, <2>3, <3>1
  <2> QED
    BY <2>4, <2>5
<1>6. Len(ss) \in Holds
  <2>1. \A j \in 0 .. Len(ss) : j \in Holds
    <3> HIDE DEF Holds
    <3> QED
      BY <1>2, <1>4, <1>5, UpTo
  <2> HIDE DEF Holds
  <2> QED
    BY <1>2, <2>1
<1> QED
  BY <1>1, <1>2, <1>6

(* Flattening goes over concatenation. *)
LEMMA FlattenConcat ==
    ASSUME NEW S, NEW a \in Seq(Seq(S)), NEW b \in Seq(Seq(S))
    PROVE  FlattenSeq(a \o b) = FlattenSeq(a) \o FlattenSeq(b)
<1> DEFINE c == a \o b
<1>1. PICK f \in [0 .. Len(a) -> Seq(S)] :
         /\ f[0] = <<>>
         /\ \A i \in 1 .. Len(a) : f[i] = f[i - 1] \o a[i]
         /\ FlattenSeq(a) = f[Len(a)]
  BY FlattenSteps
<1>2. PICK g \in [0 .. Len(b) -> Seq(S)] :
         /\ g[0] = <<>>
         /\ \A i \in 1 .. Len(b) : g[i] = g[i - 1] \o b[i]
         /\ FlattenSeq(b) = g[Len(b)]
  BY FlattenSteps
<1>3. /\ c \in Seq(Seq(S)) /\ Len(c) = Len(a) + Len(b)
      /\ Len(a) \in Nat /\ Len(b) \in Nat
      /\ \A i \in 1 .. Len(a) : c[i] = a[i] /\ a[i] \in Seq(S)
      /\ \A i \in 1 .. Len(b) : c[Len(a) + i] = b[i] /\ b[i] \in Seq(S)
  <2>1. /\ c \in Seq(Seq(S)) /\ Len(c) = Len(a) + Len(b)
        /\ \A i \in 1 .. Len(a) + Len(b) : c[i] = IF i <= Len(a) THEN a[i] ELSE b[i - Len(a)]
    BY ConcatProperties
  <2>2. /\ Len(a) \in Nat /\ Len(b) \in Nat
        /\ \A i \in 1 .. Len(a) : a[i] \in Seq(S)
        /\ \A i \in 1 .. Len(b) : b[i] \in Seq(S)
    BY LenProperties
  <2> HIDE DEF c
  <2>3. ASSUME NEW i \in 1 .. Len(b) PROVE c[Len(a) + i] = b[i]
    <3>1. /\ Len(a) + i \in 1 .. Len(a) + Len(b) /\ ~(Len(a) + i <= Len(a))
          /\ (Len(a) + i) - Len(a) = i
      BY <2>2
    <3> QED
      BY <2>1, <3>1
  <2>4. ASSUME NEW i \in 1 .. Len(a) PROVE c[i] = a[i]
    BY <2>1, <2>2
  <2> QED
    BY <2>1, <2>2, <2>3, <2>4
<1> HIDE DEF c
<1>4. PICK h \in [0 .. Len(c) -> Seq(S)] :
         /\ h[0] = <<>>
         /\ \A i \in 1 .. Len(c) : h[i] = h[i - 1] \o c[i]
         /\ FlattenSeq(c) = h[Len(c)]
  BY <1>3, FlattenSteps
<1>5. PICK m, n \in Nat : m = Len(a) /\ n = Len(b) /\ Len(c) = m + n
  BY <1>3
<1>6. /\ \A i \in 1 .. m : c[i] = a[i]
      /\ \A i \in 1 .. n : c[m + i] = b[i] /\ b[i] \in Seq(S)
  BY <1>3, <1>5
<1>7. f[m] \in Seq(S) /\ \A i \in 0 .. n : g[i] \in Seq(S)
  <2>1. m \in 0 .. m
    OBVIOUS
  <2> QED
    BY <1>5, <2>1
<1> DEFINE First == {i \in 0 .. m : h[i] = f[i]}
           Rest == {i \in 0 .. n : h[m + i] = f[m] \o g[i]}
<1>8. h[m] = f[m]
  <2>1. 0 \in First
    BY <1>1, <1>4
  <2>2. ASSUME NEW i \in 0 .. m, i < m, i \in First PROVE i + 1 \in First
    <3>1. i + 1 \in 1 .. m /\ i + 1 \in 1 .. m + n /\ i + 1 \in 0 .. m /\ (i + 1) - 1 = i
      BY <2>2
    <3>2. h[i + 1] = h[i] \o c[i + 1] /\ f[i + 1] = f[i] \o a[i + 1]
      BY <1>1, <1>4, <1>5, <3>1
    <3> QED
      BY <1>6, <2>2, <3>1, <3>2
  <2>3. \A i \in 0 .. m : i \in First
    <3> HIDE DEF First
    <3> QED
      BY <2>1, <2>2, UpTo
  <2>4. m \in 0 .. m
    OBVIOUS
  <2> QED
    BY <2>3, <2>4
<1>9. h[m + n] = f[m] \o g[n]
  <2>1. 0 \in Rest
    <3>1. f[m] \o <<>> = f[m]
      BY <1>7, ConcatEmptySeq
    <3>2. m + 0 = m /\ 0 \in 0 .. n
      OBVIOUS
    <3> QED
      BY <1>2, <1>8, <3>1, <3>2
  <2>2. ASSUME NEW i \in 0 .. n, i < n, i \in Rest PROVE i + 1 \in Rest
    <3>1. /\ i + 1 \in 1 .. n /\ m + (i + 1) \in 1 .. m + n
          /\ i + 1 \in 0 .. n /\ (i + 1) - 1 = i /\ (m + (i + 1)) - 1 = m + i
      BY <2>2
    <3>2. h[m + (i + 1)] = h[m + i] \o c[m + (i + 1)] /\ g[i + 1] = g[i] \o b[i + 1]
      BY <1>2, <1>4, <1>5, <3>1
    <3>3. g[i] \in Seq(S) /\ b[i + 1] \in Seq(S) /\ c[m + (i + 1)] = b[i + 1]
      BY <1>6, <1>7, <3>1
    <3>4. (f[m] \o g[i]) \o b[i + 1] = f[m] \o (g[i] \o b[i + 1])
      <4>1. PICK u, v, w \in Seq(S) : u = f[m] /\ v = g[i] /\ w = b[i + 1]
        BY <1>7, <3>3
      <4>2. (u \o v) \o w = u \o (v \o w)
        BY ConcatAssociative
      <4> QED
        BY <4>1, <4>2
    <3>5. h[m + i] = f[m] \o g[i]
      BY <2>2
    <3> HIDE DEF Rest
    <3>6. h[m + (i + 1)] = f[m] \o g[i + 1]
      BY <3>2, <3>3, <3>4, <3>5
    <3> QED
      BY <3>1, <3>6 DEF Rest
  <2>3. \A i \in 0 .. n : i \in Rest
    <3> HIDE DEF Rest
    <3> QED
      BY <2>1, <2>2, UpTo
  <2>4. n \in 0 .. n
    OBVIOUS
  <2> QED
    BY <2>3, <2>4
<1> QED
  BY <1>1, <1>2, <1>4, <1>5, <1>9 DEF c

(* The elements of a sequence, by a name for its length. *)
LEMMA ElementsOf ==
    ASSUME NEW V, NEW s \in Seq(V), NEW n, n = Len(s)
    PROVE  n \in Nat /\ DOMAIN s = 1 .. n /\ \A i \in 1 .. n : s[i] \in V
OBVIOUS

(* A sequence has as many elements as its length when it repeats none. *)
LEMMA SequenceCount ==
    ASSUME NEW V, NEW s \in Seq(V), NEW n, n = Len(s)
    PROVE  /\ IsFiniteSet(ToSet(s)) /\ Cardinality(ToSet(s)) \in 0 .. n
           /\ Cardinality(ToSet(s)) = n <=> \A i, j \in 1 .. n : s[i] = s[j] => i = j
<1>1. n \in Nat /\ DOMAIN s = 1 .. n
  BY ElementsOf
<1>2. PICK f : f = [i \in 1 .. n |-> s[i]]
  OBVIOUS
<1>3. f \in Surjection(1 .. n, ToSet(s))
  BY <1>1, <1>2 DEF Surjection, ToSet
<1>4. IsFiniteSet(1 .. n) /\ Cardinality(1 .. n) = n
  <2>1. PICK c \in Nat : c = n
    BY <1>1
  <2>2. 1 \in Int /\ c \in Int /\ c - 1 + 1 = c /\ (1 > c => c = 0)
    OBVIOUS
  <2>3. IsFiniteSet(1 .. c) /\ Cardinality(1 .. c) = IF 1 > c THEN 0 ELSE c - 1 + 1
    BY <2>2, FS_Interval
  <2> QED
    BY <2>1, <2>2, <2>3
<1>5. /\ IsFiniteSet(ToSet(s)) /\ Cardinality(ToSet(s)) <= n
      /\ Cardinality(ToSet(s)) = n <=> f \in Injection(1 .. n, ToSet(s))
  BY <1>3, <1>4, FS_Surjection
<1>6. f \in Injection(1 .. n, ToSet(s)) <=> \A i, j \in 1 .. n : s[i] = s[j] => i = j
  BY <1>2, <1>3 DEF Surjection, Injection, IsInjective
<1>7. Cardinality(ToSet(s)) \in Nat
  BY <1>5, FS_CardinalityType
<1> QED
  BY <1>1, <1>5, <1>6, <1>7

(* The smaller and the larger of two numbers. *)
LEMMA OfTwo ==
    ASSUME NEW a \in Int, NEW b \in Int
    PROVE  /\ Min({a, b}) = IF a <= b THEN a ELSE b
           /\ Max({a, b}) = IF a >= b THEN a ELSE b
<1>1. PICK s : s = {a, b}
  OBVIOUS
<1>2. PICK low \in s : \A y \in s : low <= y
  <2>1. CASE a <= b
    BY <1>1, <2>1
  <2>2. CASE ~(a <= b)
    BY <1>1, <2>2
  <2> QED
    BY <2>1, <2>2
<1>3. PICK high \in s : \A y \in s : high >= y
  <2>1. CASE a >= b
    BY <1>1, <2>1
  <2>2. CASE ~(a >= b)
    BY <1>1, <2>2
  <2> QED
    BY <2>1, <2>2
<1>4. Min(s) \in s /\ \A y \in s : Min(s) <= y
  BY <1>2 DEF Min
<1>5. Max(s) \in s /\ \A y \in s : Max(s) >= y
  BY <1>3 DEF Max
<1>6. Min(s) = IF a <= b THEN a ELSE b
  BY <1>1, <1>4
<1>7. Max(s) = IF a >= b THEN a ELSE b
  BY <1>1, <1>5
<1> QED
  BY <1>1, <1>6, <1>7

(* The least of three numbers. *)
LEMMA OfThree ==
    ASSUME NEW a \in Int, NEW b \in Int, NEW c \in Int
    PROVE  LET low == IF b <= c THEN b ELSE c
           IN  Min({a, b, c}) = IF a <= low THEN a ELSE low
<1>1. PICK s : s = {a, b, c}
  OBVIOUS
<1>2. PICK low \in Int : low = IF b <= c THEN b ELSE c
  OBVIOUS
<1>3. PICK least \in Int : least = IF a <= low THEN a ELSE low
  BY <1>2
<1>4. least \in s /\ \A x \in s : least <= x
  BY <1>1, <1>2, <1>3
<1>5. Min(s) \in s /\ \A x \in s : Min(s) <= x
  BY <1>4 DEF Min
<1>6. Min(s) \in Int /\ Min(s) <= least /\ least <= Min(s)
  BY <1>1, <1>4, <1>5
<1>7. Min(s) = least
  BY <1>6
<1> QED
  BY <1>1, <1>2, <1>3, <1>7
=============================================================================
