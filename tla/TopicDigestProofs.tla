-------------------------- MODULE TopicDigestProofs --------------------------
(***************************************************************************)
(* Proofs about build_topic_digest for every text, limit and eviction:     *)
(* truncating the digest at every eviction loses nothing that truncating   *)
(* all topics at once would have kept.                                     *)
(***************************************************************************)
EXTENDS TopicDigest, SequenceLemmas

(* The characters of a sequence, counted topic by topic. *)
LEMMA CharactersSteps ==
    ASSUME NEW topics \in Seq(Topic)
    PROVE  \E h \in [0 .. Len(topics) -> Nat] :
              /\ h[0] = 0
              /\ \A i \in 1 .. Len(topics) :
                    h[i] = h[i - 1] + TopicLength[topics[i]] + SeparatorLength
              /\ Characters(topics) = h[Len(topics)]
<1> DEFINE n == Len(topics)
           step == [p \in (1 .. n) \X Nat |->
                      p[2] + TopicLength[topics[p[1]]] + SeparatorLength]
           Is(g) == g = [s \in SUBSET (DOMAIN topics) |->
                           IF s = {} THEN 0
                           ELSE g[s \ {Max(s)}] + TopicLength[topics[Max(s)]]
                                + SeparatorLength]
           fold == CHOOSE g : Is(g)
<1>1. Characters(topics) = fold[DOMAIN topics]
  BY DEF Characters, FoldLeft, MapThenFoldSet
<1>2. /\ n \in Nat /\ DOMAIN topics = 1 .. n /\ SeparatorLength \in Nat
      /\ \A i \in 1 .. n : TopicLength[topics[i]] \in Nat
  BY TopicAssumption DEF SeparatorLength
<1>3. /\ step \in [(1 .. n) \X Nat -> Nat]
      /\ \A i \in 1 .. n, v \in Nat :
            step[<<i, v>>] = v + TopicLength[topics[i]] + SeparatorLength
  <2> HIDE DEF n
  <2> QED
    BY <1>2
<1> HIDE DEF step, n
<1>4. PICK g \in [SUBSET (1 .. n) -> Nat] : Solves(g, 0, step, n)
  BY 0 \in Nat, <1>2, <1>3, FoldSolution
<1>5. \A s \in SUBSET (1 .. n) : s # {} => Max(s) \in 1 .. n
  BY <1>2, LargestUpTo
<1>6. Is(g)
  <2>1. ASSUME NEW s \in SUBSET (1 .. n), s # {}
        PROVE  g[s] = g[s \ {Max(s)}] + TopicLength[topics[Max(s)]] + SeparatorLength
    <3>1. Max(s) \in 1 .. n /\ g[s \ {Max(s)}] \in Nat
      BY <1>5, <2>1
    <3>2. g[s] = step[<<Max(s), g[s \ {Max(s)}]>>]
      BY <1>4, <2>1 DEF Solves
    <3> QED
      BY <1>3, <3>1, <3>2
  <2>2. g[{}] = 0
    BY <1>4 DEF Solves
  <2> QED
    BY <1>2, <2>1, <2>2
<1>7. Is(fold)
  <2> HIDE DEF Is
  <2> QED
    BY <1>6
<1> HIDE DEF fold
<1>8. SolvesIn(Nat, fold, 0, step, n)
  <2>1. \A s \in SUBSET (1 .. n) :
           fold[s] = IF s = {} THEN 0
                     ELSE fold[s \ {Max(s)}] + TopicLength[topics[Max(s)]] + SeparatorLength
    BY <1>2, <1>7
  <2>2. fold = [s \in SUBSET (1 .. n) |-> fold[s]]
    BY <1>2, <1>7
  <2> QED
    BY <1>3, <1>5, <2>1, <2>2 DEF SolvesIn
<1>9. PICK h \in [0 .. n -> Nat] : Reaches(h, fold, 0, step, n)
  BY 0 \in Nat, <1>2, <1>3, <1>8, FoldSteps
<1>10. \A i \in 1 .. n : h[i] = h[i - 1] + TopicLength[topics[i]] + SeparatorLength
  <2>1. \A i \in 1 .. n : h[i - 1] \in Nat /\ h[i] = step[<<i, h[i - 1]>>]
    BY <1>2, <1>9 DEF Follows, Reaches
  <2> QED
    BY <1>3, <2>1
<1> QED
  BY <1>1, <1>2, <1>9, <1>10 DEF n, Follows, Reaches

(* Topics put one after the other are as long as both together. *)
LEMMA CharactersConcat ==
    ASSUME NEW a \in Seq(Topic), NEW b \in Seq(Topic)
    PROVE  /\ Characters(a) \in Nat /\ Characters(b) \in Nat
           /\ Characters(a \o b) = Characters(a) + Characters(b)
<1>1. PICK m, n \in Nat : m = Len(a) /\ n = Len(b)
  OBVIOUS
<1>2. PICK c \in Seq(Topic) : c = a \o b
  <2>1. a \o b \in Seq(Topic)
    OBVIOUS
  <2> QED
    BY <2>1
<1>3. /\ Len(c) = m + n
      /\ \A i \in 1 .. m : c[i] = a[i]
      /\ \A i \in 1 .. n : c[m + i] = b[i]
  BY <1>1, <1>2
<1>4. \A i \in 1 .. m + n : TopicLength[c[i]] + SeparatorLength \in Nat
  BY <1>3, TopicAssumption DEF SeparatorLength
<1>5. PICK f \in [0 .. m -> Nat] :
         /\ f[0] = 0
         /\ \A i \in 1 .. m : f[i] = f[i - 1] + TopicLength[a[i]] + SeparatorLength
         /\ Characters(a) = f[m]
  BY <1>1, CharactersSteps
<1>6. PICK g \in [0 .. n -> Nat] :
         /\ g[0] = 0
         /\ \A i \in 1 .. n : g[i] = g[i - 1] + TopicLength[b[i]] + SeparatorLength
         /\ Characters(b) = g[n]
  BY <1>1, CharactersSteps
<1>7. PICK h \in [0 .. m + n -> Nat] :
         /\ h[0] = 0
         /\ \A i \in 1 .. m + n : h[i] = h[i - 1] + TopicLength[c[i]] + SeparatorLength
         /\ Characters(c) = h[m + n]
  BY <1>3, CharactersSteps
<1> DEFINE First == {i \in 0 .. m : h[i] = f[i]}
           Rest == {i \in 0 .. n : h[m + i] = f[m] + g[i]}
<1>8. h[m] = f[m]
  <2>1. 0 \in First
    BY <1>5, <1>7
  <2>2. ASSUME NEW i \in 0 .. m, i < m, i \in First PROVE i + 1 \in First
    <3>1. i + 1 \in 1 .. m /\ i + 1 \in 1 .. m + n /\ i + 1 \in 0 .. m /\ (i + 1) - 1 = i
      BY <2>2
    <3>2. /\ h[i + 1] = h[i] + TopicLength[c[i + 1]] + SeparatorLength
          /\ f[i + 1] = f[i] + TopicLength[a[i + 1]] + SeparatorLength
      BY <1>5, <1>7, <3>1
    <3> QED
      BY <1>3, <2>2, <3>1, <3>2
  <2>3. \A i \in 0 .. m : i \in First
    <3> HIDE DEF First
    <3> QED
      BY <2>1, <2>2, UpTo
  <2>4. m \in 0 .. m
    OBVIOUS
  <2> QED
    BY <2>3, <2>4
<1>9. h[m + n] = f[m] + g[n]
  <2>1. 0 \in Rest
    <3>1. m + 0 = m /\ 0 \in 0 .. n /\ m \in 0 .. m
      OBVIOUS
    <3>2. f[m] + 0 = f[m]
      BY <1>5, <3>1
    <3> QED
      BY <1>6, <1>8, <3>1, <3>2
  <2>2. ASSUME NEW i \in 0 .. n, i < n, i \in Rest PROVE i + 1 \in Rest
    <3>1. /\ i + 1 \in 1 .. n /\ m + (i + 1) \in 1 .. m + n
          /\ i + 1 \in 0 .. n /\ (i + 1) - 1 = i /\ (m + (i + 1)) - 1 = m + i
      BY <2>2
    <3>2. /\ h[m + (i + 1)] = h[m + i] + TopicLength[c[m + (i + 1)]] + SeparatorLength
          /\ g[i + 1] = g[i] + TopicLength[b[i + 1]] + SeparatorLength
      BY <1>6, <1>7, <3>1
    <3>3. c[m + (i + 1)] = b[i + 1]
      BY <1>3, <3>1
    <3>4. TopicLength[b[i + 1]] \in Nat /\ SeparatorLength \in Nat
      BY <1>1, <3>1, TopicAssumption DEF SeparatorLength
    <3>5. f[m] \in Nat /\ g[i] \in Nat
      BY <3>1
    <3>6. h[m + i] = f[m] + g[i]
      BY <2>2
    <3>7. h[m + (i + 1)] = f[m] + g[i + 1]
      <4>1. PICK x, y, l, d \in Nat : /\ x = f[m] /\ y = g[i]
                                     /\ l = TopicLength[b[i + 1]] /\ d = SeparatorLength
        BY <3>4, <3>5
      <4>2. h[m + (i + 1)] = (x + y) + l + d /\ g[i + 1] = y + l + d
        BY <3>2, <3>3, <3>6, <4>1
      <4>3. (x + y) + l + d = x + (y + l + d)
        OBVIOUS
      <4>4. f[m] + g[i + 1] = x + (y + l + d)
        BY <4>1, <4>2
      <4> QED
        BY <4>2, <4>3, <4>4
    <3> QED
      BY <3>1, <3>7
  <2>3. \A i \in 0 .. n : i \in Rest
    <3> HIDE DEF Rest
    <3> QED
      BY <2>1, <2>2, UpTo
  <2>4. n \in 0 .. n
    OBVIOUS
  <2> QED
    BY <2>3, <2>4
<1>10. f[m] \in Nat /\ g[n] \in Nat
  <2>1. m \in 0 .. m /\ n \in 0 .. n
    OBVIOUS
  <2> QED
    BY <2>1
<1> QED
  BY <1>2, <1>5, <1>6, <1>7, <1>9, <1>10

(* The characters of the joined text: a separator less, unless it is empty. *)
LEMMA JoinedLengthBounds ==
    ASSUME NEW a \in Seq(Topic)
    PROVE  /\ Characters(a) \in Nat /\ JoinedLength(a) \in Nat
           /\ a # <<>> => Characters(a) = JoinedLength(a) + SeparatorLength
           /\ a = <<>> => Characters(a) = 0 /\ JoinedLength(a) = 0
<1>1. PICK h \in [0 .. Len(a) -> Nat] :
         /\ h[0] = 0
         /\ \A i \in 1 .. Len(a) :
               h[i] = h[i - 1] + TopicLength[a[i]] + SeparatorLength
         /\ Characters(a) = h[Len(a)]
  BY CharactersSteps
<1>2. PICK n \in Nat : n = Len(a)
  OBVIOUS
<1>3. CASE a = <<>>
  BY <1>1, <1>2, <1>3 DEF JoinedLength
<1>4. CASE a # <<>>
  <2>1. n \in 1 .. n /\ n - 1 \in 0 .. n
    BY <1>2, <1>4
  <2>2. a[n] \in Topic
    BY <1>2, <2>1
  <2>3. TopicLength[a[n]] \in Nat /\ h[n - 1] \in Nat
    BY <1>1, <1>2, <2>1, <2>2, TopicAssumption
  <2>4. Characters(a) = h[n - 1] + TopicLength[a[n]] + SeparatorLength
    BY <1>1, <1>2, <2>1
  <2> QED
    BY <1>4, <2>3, <2>4 DEF JoinedLength, SeparatorLength
<1> QED
  BY <1>3, <1>4

(* A longer digest is not shorter in characters. *)
LEMMA JoinedLengthGrows ==
    ASSUME NEW a \in Seq(Topic), NEW b \in Seq(Topic)
    PROVE  /\ JoinedLength(a) \in Nat /\ JoinedLength(a \o b) \in Nat
           /\ JoinedLength(a) <= JoinedLength(a \o b)
<1>1. PICK c \in Seq(Topic) : c = a \o b
  <2>1. a \o b \in Seq(Topic)
    OBVIOUS
  <2> QED
    BY <2>1
<1>2. Characters(c) = Characters(a) + Characters(b) /\ Characters(b) \in Nat
  BY <1>1, CharactersConcat
<1>3. a # <<>> => c # <<>>
  BY <1>1, ConcatEqualIffEmpty
<1>4. /\ Characters(a) \in Nat /\ JoinedLength(a) \in Nat
      /\ a # <<>> => Characters(a) = JoinedLength(a) + SeparatorLength
      /\ a = <<>> => JoinedLength(a) = 0
  BY JoinedLengthBounds
<1>5. /\ Characters(c) \in Nat /\ JoinedLength(c) \in Nat
      /\ c # <<>> => Characters(c) = JoinedLength(c) + SeparatorLength
  BY JoinedLengthBounds
<1> QED
  BY <1>1, <1>2, <1>3, <1>4, <1>5 DEF SeparatorLength

(* What is left when k topics are dropped from the front. *)
Rest(topics, k) == SubSeq(topics, k + 1, Len(topics))

(* Its length and its elements. *)
LEMMA RestProperties ==
    ASSUME NEW t \in Seq(Topic), NEW k \in 0 .. Len(t)
    PROVE  /\ Rest(t, k) \in Seq(Topic)
           /\ Len(Rest(t, k)) = Len(t) - k
           /\ \A i \in 1 .. Len(t) - k : Rest(t, k)[i] = t[k + i]
<1>1. PICK n \in Nat : n = Len(t)
  OBVIOUS
<1>2. \A i \in (k + 1) .. n : t[i] \in Topic
  BY <1>1
<1>3. /\ SubSeq(t, k + 1, n) \in Seq(Topic)
      /\ Len(SubSeq(t, k + 1, n)) = IF k + 1 <= n THEN n - (k + 1) + 1 ELSE 0
      /\ \A i \in 1 .. n - (k + 1) + 1 : SubSeq(t, k + 1, n)[i] = t[(k + 1) + i - 1]
  BY <1>1, <1>2, SubSeqProperties
<1> QED
  BY <1>1, <1>3 DEF Rest

(* Topics dropped from the front of two are dropped from the first. *)
LEMMA RestOfConcat ==
    ASSUME NEW a \in Seq(Topic), NEW b \in Seq(Topic), NEW k \in 0 .. Len(a)
    PROVE  Rest(a \o b, k) = Rest(a, k) \o b
<1>1. PICK m, n \in Nat : m = Len(a) /\ n = Len(b)
  OBVIOUS
<1>2. PICK c \in Seq(Topic) : c = a \o b
  <2>1. a \o b \in Seq(Topic)
    OBVIOUS
  <2> QED
    BY <2>1
<1>3. /\ Len(c) = m + n
      /\ \A i \in 1 .. m : c[i] = a[i]
      /\ \A i \in 1 .. n : c[m + i] = b[i]
  BY <1>1, <1>2
<1>4. k \in 0 .. Len(c)
  BY <1>1, <1>3
<1>5. PICK r \in Seq(Topic) : r = Rest(a, k)
  BY RestProperties
<1>6. Len(r) = m - k /\ \A i \in 1 .. m - k : r[i] = a[k + i]
  BY <1>1, <1>5, RestProperties
<1>7. PICK s \in Seq(Topic) : s = Rest(c, k)
  BY <1>4, RestProperties
<1>8. Len(s) = m + n - k /\ \A i \in 1 .. m + n - k : s[i] = c[k + i]
  <2>1. /\ Len(s) = Len(c) - k
        /\ \A i \in 1 .. Len(c) - k : s[i] = c[k + i]
    BY <1>4, <1>7, RestProperties
  <2> QED
    BY <1>3, <2>1
<1>9. PICK u \in Seq(Topic) : u = r \o b
  <2>1. r \o b \in Seq(Topic)
    OBVIOUS
  <2> QED
    BY <2>1
<1>10. Len(u) = m - k + n /\ \A i \in 1 .. m - k + n : u[i] = IF i <= m - k THEN r[i] ELSE b[i - (m - k)]
  <2>1. /\ Len(u) = Len(r) + Len(b)
        /\ \A i \in 1 .. Len(r) + Len(b) : u[i] = IF i <= Len(r) THEN r[i] ELSE b[i - Len(r)]
    BY <1>9, ConcatProperties
  <2> QED
    BY <1>1, <1>6, <2>1
<1>11. ASSUME NEW i \in 1 .. Len(s) PROVE s[i] = u[i]
  <2>1. i \in 1 .. m + n - k /\ i \in 1 .. m - k + n
    BY <1>1, <1>8
  <2>2. CASE i <= m - k
    <3>1. i \in 1 .. m - k /\ k + i \in 1 .. m
      BY <1>1, <2>1, <2>2
    <3> QED
      BY <1>3, <1>6, <1>8, <1>10, <2>1, <3>1
  <2>3. CASE ~(i <= m - k)
    <3>1. i - (m - k) \in 1 .. n /\ m + (i - (m - k)) = k + i
      BY <1>1, <2>1, <2>3
    <3>2. c[k + i] = b[i - (m - k)]
      BY <1>3, <3>1
    <3> QED
      BY <1>8, <1>10, <2>1, <2>3, <3>2
  <2> QED
    BY <2>2, <2>3
<1>12. Len(s) = Len(u)
  BY <1>1, <1>8, <1>10
<1>13. s = u
  BY <1>11, <1>12, SeqEqual
<1> QED
  BY <1>2, <1>5, <1>7, <1>9, <1>13

(* Dropping k and then j is dropping k + j. *)
LEMMA RestOfRest ==
    ASSUME NEW t \in Seq(Topic), NEW k \in 0 .. Len(t), NEW j \in 0 .. Len(t) - k
    PROVE  Rest(Rest(t, k), j) = Rest(t, k + j)
<1>1. PICK n \in Nat : n = Len(t)
  OBVIOUS
<1>2. PICK r \in Seq(Topic) : r = Rest(t, k)
  BY RestProperties
<1>3. Len(r) = n - k /\ \A i \in 1 .. n - k : r[i] = t[k + i]
  BY <1>1, <1>2, RestProperties
<1>4. j \in 0 .. Len(r) /\ k + j \in 0 .. Len(t)
  BY <1>1, <1>3
<1>5. PICK u, v \in Seq(Topic) : u = Rest(r, j) /\ v = Rest(t, k + j)
  BY <1>4, RestProperties
<1>6. Len(u) = n - k - j /\ \A i \in 1 .. n - k - j : u[i] = r[j + i]
  BY <1>3, <1>4, <1>5, RestProperties
<1>7. Len(v) = n - (k + j) /\ \A i \in 1 .. n - (k + j) : v[i] = t[(k + j) + i]
  BY <1>1, <1>4, <1>5, RestProperties
<1>8. ASSUME NEW i \in 1 .. Len(u) PROVE u[i] = v[i]
  <2>1. /\ i \in 1 .. n - k - j /\ i \in 1 .. n - (k + j)
        /\ j + i \in 1 .. n - k /\ k + (j + i) = (k + j) + i
    BY <1>1, <1>6
  <2> QED
    BY <1>3, <1>6, <1>7, <2>1
<1>9. Len(u) = Len(v)
  BY <1>1, <1>6, <1>7
<1> QED
  BY <1>2, <1>5, <1>8, <1>9, SeqEqual

(* KeepRecent drops the least number of topics that makes the rest fit. *)
LEMMA KeepRecentLeast ==
    ASSUME NEW t \in Seq(Topic)
    PROVE  \E k \in 0 .. Len(t) :
              /\ KeepRecent(t) = Rest(t, k)
              /\ JoinedLength(Rest(t, k)) <= DigestLimit
              /\ \A j \in 0 .. Len(t) : JoinedLength(Rest(t, j)) <= DigestLimit => k <= j
<1> DEFINE fitting == {k \in 0 .. Len(t) : JoinedLength(Rest(t, k)) <= DigestLimit}
<1>1. PICK n \in Nat : n = Len(t)
  OBVIOUS
<1>2. n \in fitting
  <2>1. n \in 0 .. Len(t) /\ Len(Rest(t, n)) = 0 /\ Rest(t, n) \in Seq(Topic)
    BY <1>1, RestProperties
  <2>2. Rest(t, n) = <<>>
    BY <2>1, EmptySeq
  <2>3. JoinedLength(Rest(t, n)) = 0
    BY <2>2 DEF JoinedLength
  <2> QED
    BY <2>1, <2>3, TopicAssumption
<1>3. fitting \in SUBSET Nat
  BY <1>1
<1>4. PICK m \in fitting : \A j \in fitting : m <= j
  <2> HIDE DEF fitting
  <2> QED
    BY <1>2, <1>3, LeastOf
<1> DEFINE least == CHOOSE k \in fitting : \A j \in fitting : k <= j
<1>5. least \in fitting /\ \A j \in fitting : least <= j
  <2> HIDE DEF fitting
  <2> QED
    BY <1>4
<1>6. KeepRecent(t) = Rest(t, least)
  BY DEF KeepRecent, Rest
<1> HIDE DEF least
<1> QED
  BY <1>5, <1>6

(* KeepRecent drops the fewest topics that make the rest fit. *)
LEMMA KeepRecentOnly ==
    ASSUME NEW t \in Seq(Topic), NEW k \in 0 .. Len(t),
           JoinedLength(Rest(t, k)) <= DigestLimit,
           \A j \in 0 .. Len(t) : JoinedLength(Rest(t, j)) <= DigestLimit => k <= j
    PROVE  KeepRecent(t) = Rest(t, k)
<1>1. PICK l \in 0 .. Len(t) :
              /\ KeepRecent(t) = Rest(t, l)
              /\ JoinedLength(Rest(t, l)) <= DigestLimit
              /\ \A j \in 0 .. Len(t) : JoinedLength(Rest(t, j)) <= DigestLimit => l <= j
  BY KeepRecentLeast
<1>2. k <= l /\ l <= k
  BY <1>1
<1>3. k = l
  BY <1>2
<1> QED
  BY <1>1, <1>3

(* What fits is kept as it is. *)
LEMMA KeepRecentFits ==
    ASSUME NEW t \in Seq(Topic), JoinedLength(t) <= DigestLimit
    PROVE  KeepRecent(t) = t
<1>1. PICK n \in Nat : n = Len(t)
  OBVIOUS
<1>2. 0 \in 0 .. Len(t) /\ Rest(t, 0) = t
  BY <1>1, SubSeqFull DEF Rest
<1> QED
  BY <1>1, <1>2, KeepRecentOnly

(* No topics make an empty digest. *)
LEMMA KeepRecentNone == KeepRecent(<<>>) = <<>>
<1>1. <<>> \in Seq(Topic) /\ JoinedLength(<<>>) = 0 /\ 0 <= DigestLimit
  BY TopicAssumption DEF JoinedLength
<1> QED
  BY <1>1, KeepRecentFits

(* It yields topics, and no more of them. *)
LEMMA KeepRecentType ==
    ASSUME NEW t \in Seq(Topic)
    PROVE  /\ KeepRecent(t) \in Seq(Topic)
           /\ Characters(KeepRecent(t)) <= Characters(t)
<1>1. PICK k \in 0 .. Len(t) : KeepRecent(t) = Rest(t, k)
  BY KeepRecentLeast
<1>2. PICK n \in Nat : n = Len(t)
  OBVIOUS
<1>3. PICK a, b \in Seq(Topic) : a = SubSeq(t, 1, k) /\ b = Rest(t, k)
  <2>1. \A i \in 1 .. k : t[i] \in Topic
    BY <1>2
  <2>2. SubSeq(t, 1, k) \in Seq(Topic)
    BY <2>1, SubSeqProperties
  <2> QED
    BY <2>2, RestProperties
<1>4. a \o b = t
  <2>1. 1 \in 1 .. Len(t) + 1 /\ k \in (1 - 1) .. Len(t) /\ Len(t) \in k .. Len(t)
    BY <1>2
  <2>2. SubSeq(t, 1, k) \o SubSeq(t, k + 1, Len(t)) = SubSeq(t, 1, Len(t))
    BY <2>1, ConcatAdjacentSubSeq
  <2> QED
    BY <1>3, <2>2, SubSeqFull DEF Rest
<1>5. /\ Characters(a) \in Nat /\ Characters(b) \in Nat
      /\ Characters(a \o b) = Characters(a) + Characters(b)
  BY CharactersConcat
<1> QED
  BY <1>1, <1>3, <1>4, <1>5

(* Truncating the older part first makes no difference. *)
THEOREM KeepRecentAbsorbs ==
    ASSUME NEW a \in Seq(Topic), NEW b \in Seq(Topic)
    PROVE  KeepRecent(KeepRecent(a) \o b) = KeepRecent(a \o b)
<1>1. PICK m, n \in Nat : m = Len(a) /\ n = Len(b)
  OBVIOUS
<1>2. PICK c \in Seq(Topic) : c = a \o b /\ Len(c) = m + n
  <2>1. a \o b \in Seq(Topic) /\ Len(a \o b) = m + n
    BY <1>1
  <2> QED
    BY <2>1
<1>3. PICK k \in 0 .. Len(a) :
              /\ KeepRecent(a) = Rest(a, k)
              /\ \A j \in 0 .. Len(a) : JoinedLength(Rest(a, j)) <= DigestLimit => k <= j
  BY KeepRecentLeast
<1>4. PICK l \in 0 .. Len(c) :
              /\ KeepRecent(c) = Rest(c, l)
              /\ JoinedLength(Rest(c, l)) <= DigestLimit
              /\ \A j \in 0 .. Len(c) : JoinedLength(Rest(c, j)) <= DigestLimit => l <= j
  BY KeepRecentLeast
<1>5. k <= l
  <2>1. CASE l >= m
    BY <1>1, <1>2, <2>1
  <2>2. CASE l < m
    <3>1. l \in 0 .. Len(a)
      BY <1>1, <1>2, <2>2
    <3>2. Rest(c, l) = Rest(a, l) \o b /\ Rest(a, l) \in Seq(Topic)
      BY <1>2, <3>1, RestOfConcat, RestProperties
    <3>3. /\ JoinedLength(Rest(a, l)) \in Nat
          /\ JoinedLength(Rest(a, l) \o b) \in Nat
          /\ JoinedLength(Rest(a, l)) <= JoinedLength(Rest(a, l) \o b)
      BY <3>2, JoinedLengthGrows
    <3>4. JoinedLength(Rest(a, l)) <= DigestLimit
      BY <1>4, <3>2, <3>3, TopicAssumption
    <3> QED
      BY <1>3, <3>1, <3>4
  <2> QED
    BY <1>1, <1>2, <2>1, <2>2
<1>6. PICK d \in Seq(Topic) : d = KeepRecent(a) \o b /\ d = Rest(c, k) /\ Len(d) = m + n - k
  <2>1. k \in 0 .. Len(c)
    BY <1>1, <1>2
  <2>2. Rest(c, k) = Rest(a, k) \o b
    BY <1>2, RestOfConcat
  <2>3. Rest(c, k) \in Seq(Topic) /\ Len(Rest(c, k)) = m + n - k
    <3>1. Rest(c, k) \in Seq(Topic) /\ Len(Rest(c, k)) = Len(c) - k
      BY <2>1, RestProperties
    <3> QED
      BY <1>2, <3>1
  <2> QED
    BY <1>2, <1>3, <2>2, <2>3
<1>7. \A j \in 0 .. Len(d) : Rest(d, j) = Rest(c, k + j)
  <2>1. k \in 0 .. Len(c)
    BY <1>1, <1>2
  <2>2. ASSUME NEW j \in 0 .. Len(d) PROVE Rest(d, j) = Rest(c, k + j)
    <3>1. j \in 0 .. Len(c) - k
      BY <1>1, <1>2, <1>6
    <3> QED
      BY <1>6, <2>1, <3>1, RestOfRest
  <2> QED
    BY <2>2
<1>8. l - k \in 0 .. Len(d) /\ k + (l - k) = l
  BY <1>1, <1>2, <1>5, <1>6
<1>9. JoinedLength(Rest(d, l - k)) <= DigestLimit
  BY <1>4, <1>7, <1>8
<1>10. ASSUME NEW j \in 0 .. Len(d), JoinedLength(Rest(d, j)) <= DigestLimit
       PROVE  l - k <= j
  <2>1. k + j \in 0 .. Len(c)
    BY <1>1, <1>2, <1>6
  <2>2. JoinedLength(Rest(c, k + j)) <= DigestLimit
    BY <1>7, <1>10
  <2>3. l <= k + j
    BY <1>4, <2>1, <2>2
  <2> QED
    BY <2>3
<1>11. KeepRecent(d) = Rest(d, l - k)
  BY <1>8, <1>9, <1>10, KeepRecentOnly
<1> QED
  BY <1>2, <1>4, <1>6, <1>7, <1>8, <1>11

(* What each message contributes. *)
Contributions(ms) ==
    [i \in DOMAIN ms |-> IF ms[i].role = "user" THEN TopicsOf[ms[i].content] ELSE <<>>]

(* They are sequences of topics, one for each message. *)
LEMMA ContributionsType ==
    ASSUME NEW M, \A m \in M : m.content \in Content, NEW ms \in Seq(M)
    PROVE  /\ Contributions(ms) \in Seq(Seq(Topic))
           /\ Len(Contributions(ms)) = Len(ms)
           /\ \A i \in 1 .. Len(ms) :
                 Contributions(ms)[i] = IF ms[i].role = "user" THEN TopicsOf[ms[i].content]
                                        ELSE <<>>
<1>1. PICK n \in Nat : n = Len(ms) /\ DOMAIN ms = 1 .. n
  OBVIOUS
<1>2. \A i \in 1 .. n : ms[i] \in M
  BY <1>1
<1>3. <<>> \in Seq(Topic) /\ \A c \in Content : TopicsOf[c] \in Seq(Topic)
  BY TopicAssumption
<1>4. \A i \in 1 .. n : (IF ms[i].role = "user" THEN TopicsOf[ms[i].content] ELSE <<>>)
                          \in Seq(Topic)
  BY <1>2, <1>3
<1>5. Contributions(ms) \in [1 .. n -> Seq(Topic)]
  BY <1>1, <1>4 DEF Contributions
<1> QED
  BY <1>1, <1>5 DEF Contributions

(* The topics of messages are topics. *)
LEMMA TopicsInType ==
    ASSUME NEW M, \A m \in M : m.content \in Content, NEW ms \in Seq(M)
    PROVE  TopicsIn(ms) \in Seq(Topic)
<1>1. TopicsIn(ms) = FlattenSeq(Contributions(ms))
  BY DEF TopicsIn, Contributions
<1>2. Contributions(ms) \in Seq(Seq(Topic))
  BY ContributionsType
<1> QED
  BY <1>1, <1>2, FlattenType

(* No messages have no topics. *)
LEMMA TopicsInNone == TopicsIn(<<>>) = <<>>
<1>1. [i \in DOMAIN <<>> |-> IF <<>>[i].role = "user" THEN TopicsOf[<<>>[i].content] ELSE <<>>]
      = <<>>
  OBVIOUS
<1> QED
  BY <1>1 DEF TopicsIn, FlattenSeq

(* The topics of two batches are those of one, then those of the other. *)
LEMMA TopicsInConcat ==
    ASSUME NEW M, \A m \in M : m.content \in Content, NEW a \in Seq(M), NEW b \in Seq(M)
    PROVE  TopicsIn(a \o b) = TopicsIn(a) \o TopicsIn(b)
<1>1. PICK m, n \in Nat : m = Len(a) /\ n = Len(b)
  OBVIOUS
<1>2. PICK c \in Seq(M) : c = a \o b
  <2>1. a \o b \in Seq(M)
    OBVIOUS
  <2> QED
    BY <2>1
<1>3. /\ Len(c) = m + n
      /\ \A i \in 1 .. m : c[i] = a[i]
      /\ \A i \in 1 .. n : c[m + i] = b[i]
  BY <1>1, <1>2
<1>4. PICK f, g, h \in Seq(Seq(Topic)) :
         f = Contributions(a) /\ g = Contributions(b) /\ h = Contributions(c)
  BY ContributionsType
<1>5. /\ Len(f) = m
      /\ \A i \in 1 .. m :
            f[i] = IF a[i].role = "user" THEN TopicsOf[a[i].content] ELSE <<>>
  BY <1>1, <1>4, ContributionsType
<1>6. /\ Len(g) = n
      /\ \A i \in 1 .. n :
            g[i] = IF b[i].role = "user" THEN TopicsOf[b[i].content] ELSE <<>>
  BY <1>1, <1>4, ContributionsType
<1>7. /\ Len(h) = m + n
      /\ \A i \in 1 .. m + n :
            h[i] = IF c[i].role = "user" THEN TopicsOf[c[i].content] ELSE <<>>
  BY <1>3, <1>4, ContributionsType
<1>8. PICK u \in Seq(Seq(Topic)) :
         /\ u = f \o g /\ Len(u) = m + n
         /\ \A i \in 1 .. m : u[i] = f[i]
         /\ \A i \in 1 .. n : u[m + i] = g[i]
  <2>2. PICK T : T = Seq(Topic)
    OBVIOUS
  <2>3. f \in Seq(T) /\ g \in Seq(T) /\ m = Len(f) /\ n = Len(g)
    BY <1>5, <1>6, <2>2
  <2>1. /\ f \o g \in Seq(T) /\ Len(f \o g) = m + n
        /\ \A i \in 1 .. m : (f \o g)[i] = f[i]
        /\ \A i \in 1 .. n : (f \o g)[m + i] = g[i]
    BY <2>3, ConcatParts
  <2> QED
    BY <2>1, <2>2
<1>9. ASSUME NEW i \in 1 .. Len(h) PROVE h[i] = u[i]
  <2>1. i \in 1 .. m + n
    BY <1>7
  <2>2. CASE i <= m
    <3>1. i \in 1 .. m
      BY <2>1, <2>2
    <3> QED
      BY <1>3, <1>5, <1>7, <1>8, <2>1, <3>1
  <2>3. CASE ~(i <= m)
    <3>1. PICK j \in 1 .. n : i = m + j
      <4>1. i - m \in 1 .. n /\ i = m + (i - m)
        BY <2>1, <2>3
      <4> QED
        BY <4>1
    <3> QED
      BY <1>3, <1>6, <1>7, <1>8, <2>1, <3>1
  <2> QED
    BY <2>2, <2>3
<1>10. h = u
  <2>1. Len(h) = Len(u)
    BY <1>7, <1>8
  <2> QED
    BY <1>9, <2>1, SeqEqual
<1>11. FlattenSeq(f \o g) = FlattenSeq(f) \o FlattenSeq(g)
  BY FlattenConcat
<1> QED
  BY <1>2, <1>4, <1>8, <1>10, <1>11 DEF TopicsIn, Contributions

(* No user message is passed over. *)
LEMMA TopicsInMember ==
    ASSUME NEW M, \A m \in M : m.content \in Content, NEW ms \in Seq(M),
           NEW m \in ToSet(ms), m.role = "user"
    PROVE  ToSet(TopicsOf[m.content]) \subseteq ToSet(TopicsIn(ms))
<1>1. PICK i \in 1 .. Len(ms) : m = ms[i]
  BY DEF ToSet
<1>2. /\ Contributions(ms) \in Seq(Seq(Topic)) /\ Len(Contributions(ms)) = Len(ms)
      /\ Contributions(ms)[i] = TopicsOf[m.content]
  BY <1>1, ContributionsType
<1>3. ToSet(Contributions(ms)[i]) \subseteq ToSet(FlattenSeq(Contributions(ms)))
  BY <1>2, FlattenMember
<1> QED
  BY <1>2, <1>3 DEF TopicsIn, Contributions
=============================================================================
