--------------------------- MODULE RequestProofs ---------------------------
(***************************************************************************)
(* What stands between a caller and the data: the rate limiter, which      *)
(* decides whether a request is served, and the execution of its query,    *)
(* which decides what it is shown.                                         *)
(*                                                                         *)
(* RateLimiter: the sliding window never admits too many, and waiting      *)
(* helps, for every limit, window and clock resolution.  The bound is      *)
(* about admissions, the limiter only keeps the recent ones.  LimiterInv   *)
(* says how they relate: the bucket is a suffix of the admissions, and     *)
(* everything before it is over a window old.                              *)
(*                                                                         *)
(* QueryExecution: its invariants for any number of tables, companies,     *)
(* workers and connections, any row limit and any finite data.             *)
(***************************************************************************)
EXTENDS RateLimiter, QueryExecution, FiniteSetTheorems, WellFoundedInduction, TLAPS

BucketIsRecent(i) ==
    LET dropped == Len(admitted[i]) - Len(hits[i])
    IN  /\ dropped >= 0
        /\ Len(hits[i]) <= Limit
        /\ \A k \in 1 .. Len(hits[i]) : hits[i][k] = admitted[i][dropped + k]
        /\ \A k \in 1 .. Len(admitted[i]) : admitted[i][k] <= now
        /\ \A k \in 1 .. dropped : admitted[i][k] < now - WindowTicks

PromiseCovers(i) ==
    promise[i] # None =>
        /\ Len(hits[i]) > 0
        /\ hits[i][1] + WindowTicks < promise[i] + TicksPerSecond

LimiterInv ==
    /\ LimiterTypeOK
    /\ NeverOverLimit
    /\ \A i \in Identity : BucketIsRecent(i) /\ PromiseCovers(i)
-----------------------------------------------------------------------------
(* The order of the naturals as a relation, the form in which the library    *)
(* speaks of least elements.                                                *)
Below == {p \in Nat \X Nat : p[1] < p[2]}

(* It is well-founded. *)
LEMMA BelowWellFounded == IsWellFoundedOn(Below, Nat)
BY NatLessThanWellFounded DEF OpToRel, Below

(* The popleft loop stops: it removes some n admissions from the front, all *)
(* of them before the cutoff, and the next one, if any, is not.             *)
LEMMA UnexpiredIsSuffix ==
    ASSUME NEW bucket \in Seq(Nat), NEW cutoff \in Int
    PROVE  \E n \in 0 .. Len(bucket) :
              /\ Unexpired(bucket, cutoff) = SubSeq(bucket, n + 1, Len(bucket))
              /\ \A j \in 1 .. n : bucket[j] < cutoff
              /\ n < Len(bucket) => bucket[n + 1] >= cutoff
<1> DEFINE Stop == {k \in 0 .. Len(bucket) : k < Len(bucket) => bucket[k + 1] >= cutoff}
           Good(k) == /\ \A j \in 1 .. k : bucket[j] < cutoff
                      /\ k < Len(bucket) => bucket[k + 1] >= cutoff
<1>1. Len(bucket) \in Nat /\ \A j \in 1 .. Len(bucket) : bucket[j] \in Nat
  OBVIOUS
<1>2. Stop # {} /\ Stop \subseteq Nat
  <2>1. Len(bucket) \in Stop
    BY <1>1
  <2> QED BY <2>1, <1>1
<1>3. PICK n \in Stop : \A k \in Stop : ~(<<k, n>> \in Below)
  <2> HIDE DEF Stop
  <2> QED BY <1>2, BelowWellFounded, WFMin
<1>4. \A k \in Stop : n <= k
  <2>1. SUFFICES ASSUME NEW k \in Stop PROVE n <= k
    OBVIOUS
  <2>2. k \in Nat /\ n \in Nat
    BY <1>2, <1>3
  <2>3. k < n => <<k, n>> \in Below
    BY <2>2 DEF Below
  <2> QED BY <2>2, <2>3, <1>3
<1>5. Good(n)
  <2>1. n \in 0 .. Len(bucket) /\ (n < Len(bucket) => bucket[n + 1] >= cutoff)
    BY <1>3
  <2>2. SUFFICES ASSUME NEW j \in 1 .. n PROVE bucket[j] < cutoff
    BY <2>1
  <2>3. j - 1 \in 0 .. Len(bucket) /\ j - 1 < Len(bucket) /\ ~(n <= j - 1)
    BY <1>1, <2>1
  <2>4. j - 1 \notin Stop
    <3> HIDE DEF Stop
    <3> QED BY <1>4, <2>3
  <2>5. ~(bucket[(j - 1) + 1] >= cutoff)
    BY <2>3, <2>4
  <2>6. (j - 1) + 1 = j
    BY <2>1
  <2>7. ~(bucket[j] >= cutoff) /\ bucket[j] \in Nat
    BY <2>5, <2>6, <2>1, <1>1
  <2> QED BY <2>7
<1>6. \E k \in 0 .. Len(bucket) : Good(k)
  BY <1>3, <1>5
<1> DEFINE m == CHOOSE k \in 0 .. Len(bucket) : Good(k)
<1>7. m \in 0 .. Len(bucket) /\ Good(m)
  <2> HIDE DEF Good
  <2> QED BY <1>6
<1>8. Unexpired(bucket, cutoff) = SubSeq(bucket, m + 1, Len(bucket))
  BY DEF Unexpired
<1> HIDE DEF m
<1> QED BY <1>7, <1>8

(* A waiting time rounded down to whole seconds is short by less than one. *)
LEMMA RoundedDown ==
    ASSUME NEW x \in Int, NEW t \in Nat \ {0}
    PROVE  x \div t \in Int /\ (x \div t) * t + t > x
<1>1. x \div t \in Int /\ x % t \in 0 .. t - 1 /\ x = t * (x \div t) + (x % t)
  OBVIOUS
<1>2. (x \div t) * t = t * (x \div t) /\ t * (x \div t) \in Int
  BY <1>1
<1> QED BY <1>1, <1>2

(* A window has some length. *)
LEMMA WindowIsPositive == WindowTicks \in Nat \ {0}
BY LimiterAssumption DEF WindowTicks

(* Waiting for the seconds advertised reaches the time when the oldest    *)
(* admission leaves the window, up to the second that rounding cuts.       *)
LEMMA RetryAfterCovers ==
    ASSUME now \in Nat, NEW bucket \in Seq(Nat), Len(bucket) > 0
    PROVE  /\ now + RetryAfter(bucket) * TicksPerSecond \in Int
           /\ bucket[1] + WindowTicks
                < now + RetryAfter(bucket) * TicksPerSecond + TicksPerSecond
<1> DEFINE remaining == WindowTicks - (now - bucket[1])
           seconds == remaining \div TicksPerSecond
<1>1. remaining \in Int /\ TicksPerSecond \in Nat \ {0} /\ bucket[1] \in Nat
  BY WindowIsPositive, LimiterAssumption
<1>2. seconds \in Int /\ seconds * TicksPerSecond + TicksPerSecond > remaining
  <2> HIDE DEF remaining
  <2> QED BY <1>1, RoundedDown
<1>3. RetryAfter(bucket) = IF seconds < 1 THEN 1 ELSE seconds
  BY DEF RetryAfter
<1> HIDE DEF seconds
<1>4. /\ RetryAfter(bucket) * TicksPerSecond \in Int
      /\ RetryAfter(bucket) * TicksPerSecond + TicksPerSecond > remaining
  <2>1. CASE seconds < 1
    <3>1. seconds * TicksPerSecond <= 0
      BY <2>1, <1>1, <1>2
    <3> QED BY <2>1, <3>1, <1>1, <1>2, <1>3
  <2>2. CASE ~(seconds < 1)
    BY <2>2, <1>1, <1>2, <1>3
  <2> QED BY <2>1, <2>2
<1> QED BY <1>1, <1>4, WindowIsPositive
-----------------------------------------------------------------------------
(* The elements that stay when n are taken from the front. *)
LEMMA SuffixElements ==
    ASSUME NEW s \in Seq(Nat), NEW n \in 0 .. Len(s)
    PROVE  LET t == SubSeq(s, n + 1, Len(s))
           IN  /\ t \in Seq(Nat)
               /\ Len(t) = Len(s) - n
               /\ \A k \in 1 .. Len(t) : t[k] = s[n + k]
<1>1. Len(s) \in Nat /\ \A k \in 1 .. Len(s) : s[k] \in Nat
  OBVIOUS
<1>2. Len(SubSeq(s, n + 1, Len(s))) = Len(s) - n
  BY <1>1
<1>3. SubSeq(s, n + 1, Len(s)) \in Seq(Nat)
  BY <1>1
<1>4. \A k \in 1 .. Len(s) - n : SubSeq(s, n + 1, Len(s))[k] = s[n + k]
  <2>1. SUFFICES ASSUME NEW k \in 1 .. Len(s) - n
                 PROVE SubSeq(s, n + 1, Len(s))[k] = s[n + k]
    OBVIOUS
  <2>2. SubSeq(s, n + 1, Len(s))[k] = s[(n + 1) + k - 1]
    BY <1>1
  <2>3. (n + 1) + k - 1 = n + k
    BY <1>1
  <2> QED BY <2>2, <2>3
<1> QED BY <1>2, <1>3, <1>4

(* Pruning the bucket of an identity keeps it a recent suffix. *)
LEMMA PruneKeepsRecent ==
    ASSUME LimiterInv, NEW i \in Identity
    PROVE  LET bucket  == Unexpired(hits[i], now - WindowTicks)
               dropped == Len(admitted[i]) - Len(bucket)
           IN  /\ bucket \in Seq(Nat)
               /\ dropped \in 0 .. Len(admitted[i])
               /\ Len(bucket) <= Len(hits[i])
               /\ \A k \in 1 .. Len(bucket) : bucket[k] = admitted[i][dropped + k]
               /\ \A k \in 1 .. dropped : admitted[i][k] < now - WindowTicks
               /\ Len(hits[i]) > 0 /\ hits[i][1] < now - WindowTicks
                      => Len(bucket) < Len(hits[i])
<1> DEFINE h == hits[i]
           a == admitted[i]
           cutoff == now - WindowTicks
           d == Len(a) - Len(h)
<1>1. /\ h \in Seq(Nat) /\ a \in Seq(Nat) /\ cutoff \in Int
      /\ d \in Nat
      /\ \A k \in 1 .. Len(h) : h[k] = a[d + k]
      /\ \A k \in 1 .. d : a[k] < cutoff
  BY WindowIsPositive DEF LimiterInv, LimiterTypeOK, BucketIsRecent
<1> HIDE DEF h, a, cutoff
<1>2. PICK n \in 0 .. Len(h) :
         /\ Unexpired(h, cutoff) = SubSeq(h, n + 1, Len(h))
         /\ \A j \in 1 .. n : h[j] < cutoff
         /\ n < Len(h) => h[n + 1] >= cutoff
  BY <1>1, UnexpiredIsSuffix
<1> DEFINE b == SubSeq(h, n + 1, Len(h))
<1>3. /\ b \in Seq(Nat)
      /\ Len(b) = Len(h) - n
      /\ \A k \in 1 .. Len(b) : b[k] = h[n + k]
  BY <1>1, <1>2, SuffixElements
<1> HIDE DEF b
<1>4. Len(a) \in Nat /\ Len(h) \in Nat /\ n \in Nat /\ n <= Len(h)
  BY <1>1, <1>2
<1>5. \A k \in 1 .. Len(b) : b[k] = a[(Len(a) - Len(b)) + k]
  <2>1. SUFFICES ASSUME NEW k \in 1 .. Len(b) PROVE b[k] = a[(Len(a) - Len(b)) + k]
    OBVIOUS
  <2>2. n + k \in 1 .. Len(h) /\ d + (n + k) = (Len(a) - Len(b)) + k
    BY <1>3, <1>4
  <2>3. h[n + k] = a[d + (n + k)]
    BY <2>2, <1>1
  <2> QED BY <2>2, <2>3, <1>3
<1>6. \A k \in 1 .. Len(a) - Len(b) : a[k] < cutoff
  <2>1. SUFFICES ASSUME NEW k \in 1 .. Len(a) - Len(b) PROVE a[k] < cutoff
    OBVIOUS
  <2>2. CASE k <= d
    BY <2>2, <1>1, <1>4
  <2>3. CASE k > d
    <3>1. k - d \in 1 .. n /\ k - d \in 1 .. Len(h) /\ d + (k - d) = k
      BY <2>3, <1>3, <1>4, <1>1
    <3>2. h[k - d] = a[d + (k - d)] /\ h[k - d] < cutoff
      BY <3>1, <1>1, <1>2
    <3> QED BY <3>1, <3>2
  <2> QED BY <2>2, <2>3, <1>1, <1>4
<1>7. Len(h) > 0 /\ h[1] < cutoff => Len(b) < Len(h)
  <2>1. SUFFICES ASSUME Len(h) > 0, h[1] < cutoff, n = 0 PROVE FALSE
    BY <1>3, <1>4
  <2>2. h[1] >= cutoff
    BY <2>1, <1>2
  <2> QED BY <2>1, <2>2, <1>1
<1>8. Unexpired(hits[i], now - WindowTicks) = b
  BY <1>2 DEF h, cutoff, b
<1>9. Len(a) - Len(b) \in 0 .. Len(a) /\ Len(b) <= Len(h)
  BY <1>1, <1>3, <1>4
<1> QED BY <1>3, <1>5, <1>6, <1>7, <1>8, <1>9 DEF h, a, cutoff

(* The inductive invariant holds at the start, *)
LEMMA LimiterInitInv == LimiterInit => LimiterInv
BY LimiterAssumption DEF LimiterInit, LimiterInv, LimiterTypeOK, NeverOverLimit,
   BucketIsRecent, PromiseCovers, None

(* and when time passes. *)
LEMMA TickInv == LimiterInv /\ Tick => LimiterInv'
<1> SUFFICES ASSUME LimiterInv, Tick PROVE LimiterInv'
  OBVIOUS
<1>1. now' = now + 1 /\ now \in Nat /\ hits' = hits /\ admitted' = admitted /\ promise' = promise
  BY DEF Tick, LimiterInv, LimiterTypeOK
<1>2. LimiterTypeOK'
  BY <1>1 DEF LimiterInv, LimiterTypeOK
<1>3. NeverOverLimit'
  BY <1>1 DEF LimiterInv, NeverOverLimit, WindowTicks
<1>4. ASSUME NEW i \in Identity PROVE BucketIsRecent(i)' /\ PromiseCovers(i)'
  <2>1. BucketIsRecent(i) /\ PromiseCovers(i) /\ WindowTicks \in Nat
    BY WindowIsPositive DEF LimiterInv
  <2>2. admitted[i] \in Seq(Nat) /\ hits[i] \in Seq(Nat)
    BY DEF LimiterInv, LimiterTypeOK
  <2>3. /\ \A k \in 1 .. Len(admitted[i]) : admitted[i][k] \in Nat
        /\ \A k \in 1 .. Len(admitted[i]) - Len(hits[i]) : admitted[i][k] \in Nat
    BY <2>2
  <2>4. BucketIsRecent(i)'
    <3>1. /\ Len(admitted[i]) - Len(hits[i]) >= 0
          /\ Len(hits[i]) <= Limit
          /\ \A k \in 1 .. Len(hits[i]) :
                hits[i][k] = admitted[i][(Len(admitted[i]) - Len(hits[i])) + k]
      BY <2>1 DEF BucketIsRecent
    <3>2. \A k \in 1 .. Len(admitted[i]) : admitted[i][k] <= now + 1
      BY <1>1, <2>1, <2>3 DEF BucketIsRecent
    <3>3. \A k \in 1 .. Len(admitted[i]) - Len(hits[i]) :
             admitted[i][k] < (now + 1) - WindowTicks
      BY <1>1, <2>1, <2>3 DEF BucketIsRecent
    <3>4. WindowTicks' = WindowTicks
      BY DEF WindowTicks
    <3> QED BY <1>1, <3>1, <3>2, <3>3, <3>4 DEF BucketIsRecent
  <2>5. PromiseCovers(i)'
    BY <1>1, <2>1 DEF PromiseCovers, WindowTicks, None
  <2> QED BY <2>4, <2>5
<1> QED BY <1>2, <1>3, <1>4 DEF LimiterInv

(* An admission joins a bucket with fewer than Limit entries, so the        *)
(* admission Limit before it is among those dropped: over a window old.     *)
LEMMA AdmitInv == ASSUME LimiterInv, NEW i \in Identity, Admit(i) PROVE LimiterInv'
<1> DEFINE a == admitted[i]
           b == Unexpired(hits[i], now - WindowTicks)
           d == Len(a) - Len(b)
<1>1. /\ now \in Nat /\ hits \in [Identity -> Seq(Nat)]
      /\ admitted \in [Identity -> Seq(Nat)] /\ promise \in [Identity -> Int]
      /\ Limit \in Nat \ {0} /\ WindowTicks \in Nat \ {0}
  BY LimiterAssumption, WindowIsPositive DEF LimiterInv, LimiterTypeOK
<1>2. /\ b \in Seq(Nat) /\ d \in 0 .. Len(a)
      /\ \A k \in 1 .. Len(b) : b[k] = a[d + k]
      /\ \A k \in 1 .. d : a[k] < now - WindowTicks
  BY PruneKeepsRecent
<1>3. /\ Len(b) < Limit /\ now' = now
      /\ hits' = [hits EXCEPT ![i] = Append(b, now)]
      /\ admitted' = [admitted EXCEPT ![i] = Append(a, now)]
      /\ promise' = [promise EXCEPT ![i] = None]
  BY DEF Admit
<1> HIDE DEF a, b
<1>4. a \in Seq(Nat) /\ a = admitted[i]
  BY <1>1 DEF a
<1>5. WindowTicks' = WindowTicks
  BY DEF WindowTicks
<1>6. /\ hits' \in [Identity -> Seq(Nat)] /\ admitted' \in [Identity -> Seq(Nat)]
      /\ promise' \in [Identity -> Int]
      /\ hits'[i] = Append(b, now) /\ admitted'[i] = Append(a, now) /\ promise'[i] = None
      /\ \A j \in Identity \ {i} : /\ hits'[j] = hits[j] /\ admitted'[j] = admitted[j]
                                   /\ promise'[j] = promise[j]
  BY <1>1, <1>2, <1>3, <1>4 DEF None
<1>7. /\ Len(a) \in Nat /\ Len(b) \in Nat
      /\ Len(Append(a, now)) = Len(a) + 1 /\ Len(Append(b, now)) = Len(b) + 1
      /\ \A k \in 1 .. Len(a) : Append(a, now)[k] = a[k] /\ a[k] \in Nat
      /\ \A k \in 1 .. Len(b) : Append(b, now)[k] = b[k]
      /\ Append(a, now)[Len(a) + 1] = now /\ Append(b, now)[Len(b) + 1] = now
  BY <1>1, <1>2, <1>4
<1>8. LimiterTypeOK'
  BY <1>1, <1>3, <1>6 DEF LimiterTypeOK
<1>9. NeverOverLimit'
  <2>1. SUFFICES ASSUME NEW j \in Identity, NEW k \in 1 .. Len(admitted'[j]),
                        k + Limit <= Len(admitted'[j])
                 PROVE  admitted'[j][k + Limit] - admitted'[j][k] > WindowTicks
    BY <1>5 DEF NeverOverLimit
  <2>2. CASE j # i
    BY <2>1, <2>2, <1>6 DEF LimiterInv, NeverOverLimit
  <2>3. CASE j = i /\ k + Limit <= Len(a)
    <3>1. k \in 1 .. Len(a) /\ k + Limit \in 1 .. Len(a)
      BY <2>3, <2>1, <1>1, <1>6, <1>7
    <3>2. a[k + Limit] - a[k] > WindowTicks
      BY <3>1, <2>3, <1>4 DEF LimiterInv, NeverOverLimit
    <3> QED BY <3>1, <3>2, <2>3, <1>6, <1>7
  <2>4. CASE j = i /\ k + Limit = Len(a) + 1
    <3>1. k \in 1 .. d /\ k \in 1 .. Len(a)
      BY <2>4, <1>1, <1>2, <1>3, <1>7
    <3>2. a[k] < now - WindowTicks
      BY <3>1, <1>2
    <3>3. admitted'[j][k + Limit] = now /\ admitted'[j][k] = a[k] /\ a[k] \in Nat
      BY <3>1, <2>4, <1>6, <1>7
    <3> QED BY <3>2, <3>3, <1>1
  <2>5. k + Limit <= Len(a) \/ k + Limit = Len(a) + 1 \/ j # i
    <3>1. j = i => k + Limit <= Len(a) + 1
      BY <2>1, <1>6, <1>7
    <3>2. k + Limit \in Nat /\ Len(a) \in Nat
      BY <2>1, <1>1, <1>7
    <3> QED BY <3>1, <3>2
  <2> QED BY <2>2, <2>3, <2>4, <2>5
<1>10. ASSUME NEW j \in Identity PROVE BucketIsRecent(j)' /\ PromiseCovers(j)'
  <2>1. CASE j # i
    BY <2>1, <1>3, <1>5, <1>6 DEF LimiterInv, BucketIsRecent, PromiseCovers
  <2>2. CASE j = i
    <3>1. PromiseCovers(i)'
      BY <1>6 DEF PromiseCovers
    <3>2. (Len(a) + 1) - (Len(b) + 1) = d /\ d \in Nat /\ d <= Len(a)
      BY <1>2, <1>7
    <3>3. \A k \in 1 .. Len(b) + 1 : Append(b, now)[k] = Append(a, now)[d + k]
      <4>1. SUFFICES ASSUME NEW k \in 1 .. Len(b) + 1
                     PROVE Append(b, now)[k] = Append(a, now)[d + k]
        OBVIOUS
      <4>2. CASE k \in 1 .. Len(b)
        <5>1. d + k \in 1 .. Len(a)
          BY <4>2, <1>2, <1>7
        <5> QED BY <5>1, <4>2, <1>2, <1>7
      <4>3. CASE k = Len(b) + 1
        BY <4>3, <1>2, <1>7
      <4>4. Len(b) \in Nat /\ k \in 1 .. Len(b) + 1 => k \in 1 .. Len(b) \/ k = Len(b) + 1
        OBVIOUS
      <4> QED BY <4>1, <4>2, <4>3, <4>4, <1>7
    <3>4. \A k \in 1 .. Len(a) + 1 : Append(a, now)[k] <= now
      <4>1. \A k \in 1 .. Len(a) : a[k] <= now
        BY <1>4 DEF LimiterInv, BucketIsRecent
      <4>2. ASSUME NEW k \in 1 .. Len(a) + 1 PROVE Append(a, now)[k] <= now
        <5>1. CASE k \in 1 .. Len(a)
          BY <4>1, <5>1, <1>7
        <5>2. CASE k = Len(a) + 1
          BY <5>2, <1>1, <1>7
        <5>3. Len(a) \in Nat => k \in 1 .. Len(a) \/ k = Len(a) + 1
          OBVIOUS
        <5> QED BY <5>1, <5>2, <5>3, <1>7
      <4> QED BY <4>2
    <3>5. \A k \in 1 .. d : Append(a, now)[k] < now - WindowTicks
      BY <1>2, <1>7
    <3>6. Len(b) + 1 <= Limit
      BY <1>1, <1>3, <1>7
    <3>7. BucketIsRecent(i)'
      <4>1. /\ hits'[i] = Append(b, now) /\ Len(hits'[i]) = Len(b) + 1
            /\ admitted'[i] = Append(a, now) /\ Len(admitted'[i]) = Len(a) + 1
            /\ Len(admitted'[i]) - Len(hits'[i]) = d /\ now' = now
        BY <3>2, <1>3, <1>6, <1>7
      <4> HIDE DEF d
      <4>2. /\ Len(admitted'[i]) - Len(hits'[i]) >= 0 /\ Len(hits'[i]) <= Limit
        BY <4>1, <3>2, <3>6
      <4>3. \A k \in 1 .. Len(hits'[i]) :
               hits'[i][k] = admitted'[i][(Len(admitted'[i]) - Len(hits'[i])) + k]
        BY <4>1, <3>3
      <4>4. \A k \in 1 .. Len(admitted'[i]) : admitted'[i][k] <= now'
        BY <4>1, <3>4
      <4>5. \A k \in 1 .. Len(admitted'[i]) - Len(hits'[i]) :
               admitted'[i][k] < now' - WindowTicks'
        BY <4>1, <3>5, <1>5
      <4> QED BY <4>2, <4>3, <4>4, <4>5 DEF BucketIsRecent
    <3> QED BY <3>1, <3>7, <2>2
  <2> QED BY <2>1, <2>2
<1> QED BY <1>8, <1>9, <1>10 DEF LimiterInv

(* A rejection changes no admission; it prunes, and promises from the       *)
(* oldest entry that is left.                                               *)
LEMMA RejectInv == ASSUME LimiterInv, NEW i \in Identity, Reject(i) PROVE LimiterInv'
<1> DEFINE a == admitted[i]
           b == Unexpired(hits[i], now - WindowTicks)
           d == Len(a) - Len(b)
           p == now + RetryAfter(b) * TicksPerSecond
<1>1. /\ now \in Nat /\ hits \in [Identity -> Seq(Nat)]
      /\ admitted \in [Identity -> Seq(Nat)] /\ promise \in [Identity -> Int]
      /\ Limit \in Nat \ {0}
  BY LimiterAssumption DEF LimiterInv, LimiterTypeOK
<1>2. /\ b \in Seq(Nat) /\ d \in 0 .. Len(a) /\ Len(b) <= Len(hits[i])
      /\ \A k \in 1 .. Len(b) : b[k] = a[d + k]
      /\ \A k \in 1 .. d : a[k] < now - WindowTicks
  BY PruneKeepsRecent
<1>3. /\ Len(b) >= Limit /\ now' = now /\ admitted' = admitted
      /\ hits' = [hits EXCEPT ![i] = b] /\ promise' = [promise EXCEPT ![i] = p]
  BY DEF Reject
<1>4. p \in Int /\ b[1] + WindowTicks < p + TicksPerSecond /\ Len(b) > 0
  <2>1. Len(b) > 0
    BY <1>1, <1>2, <1>3
  <2> HIDE DEF b
  <2> QED BY <2>1, <1>1, <1>2, RetryAfterCovers
<1> HIDE DEF b, p
<1>5. WindowTicks' = WindowTicks
  BY DEF WindowTicks
<1>6. /\ hits' \in [Identity -> Seq(Nat)] /\ promise' \in [Identity -> Int]
      /\ hits'[i] = b /\ promise'[i] = p
      /\ \A j \in Identity \ {i} : hits'[j] = hits[j] /\ promise'[j] = promise[j]
  BY <1>1, <1>2, <1>3, <1>4
<1>7. LimiterTypeOK' /\ NeverOverLimit'
  BY <1>1, <1>3, <1>5, <1>6 DEF LimiterInv, LimiterTypeOK, NeverOverLimit
<1>8. ASSUME NEW j \in Identity PROVE BucketIsRecent(j)' /\ PromiseCovers(j)'
  <2>1. CASE j # i
    BY <2>1, <1>3, <1>5, <1>6 DEF LimiterInv, BucketIsRecent, PromiseCovers
  <2>2. CASE j = i
    <3>1. PromiseCovers(i)'
      BY <1>4, <1>5, <1>6 DEF PromiseCovers
    <3>2. Len(hits[i]) <= Limit /\ \A k \in 1 .. Len(a) : a[k] <= now
      BY DEF LimiterInv, BucketIsRecent
    <3>3. Len(b) <= Limit /\ d >= 0
      BY <3>2, <1>1, <1>2
    <3>4. BucketIsRecent(i)'
      BY <3>2, <3>3, <1>2, <1>3, <1>5, <1>6 DEF BucketIsRecent
    <3> QED BY <3>1, <3>4, <2>2
  <2> QED BY <2>1, <2>2
<1> QED BY <1>7, <1>8 DEF LimiterInv

(* The limiter keeps the inductive invariant: no window is over the limit, *)
(* the bucket of an identity ends its list of admissions, what precedes it *)
(* is over a window old, and promises of admission will be kept.           *)
THEOREM LimiterInvariant == LimiterSpec => []LimiterInv
<1>1. LimiterInv /\ [LimiterNext]_limiterVars => LimiterInv'
  <2> SUFFICES ASSUME LimiterInv, [LimiterNext]_limiterVars PROVE LimiterInv'
    OBVIOUS
  <2>1. CASE \E i \in Identity : Admit(i) \/ Reject(i)
    BY <2>1, AdmitInv, RejectInv
  <2>2. CASE Tick
    BY <2>2, TickInv
  <2>3. CASE UNCHANGED limiterVars
    BY <2>3 DEF limiterVars, LimiterInv, LimiterTypeOK, NeverOverLimit, BucketIsRecent,
       PromiseCovers, WindowTicks
  <2> QED BY <2>1, <2>2, <2>3 DEF LimiterNext
<1> QED BY <1>1, LimiterInitInv, PTL DEF LimiterSpec

(* The limit holds for every window of sixty seconds and every schedule. *)
THEOREM LimiterNeverOverLimit == LimiterSpec => []NeverOverLimit
<1>1. LimiterInv => NeverOverLimit
  BY DEF LimiterInv
<1> QED BY <1>1, LimiterInvariant, PTL

(* Whoever waits the advertised time, and one second for its rounding, is   *)
(* admitted, unless it has been told otherwise since.                       *)
THEOREM LimiterWaitingHelps == LimiterSpec => []WaitingHelps
<1>1. LimiterInv => WaitingHelps
  <2>1. SUFFICES ASSUME LimiterInv, NEW i \in Identity,
                        promise[i] # None, now >= promise[i] + TicksPerSecond
                 PROVE  Len(Unexpired(hits[i], now - WindowTicks)) < Limit
    BY DEF WaitingHelps
  <2>2. /\ now \in Nat /\ promise[i] \in Int /\ hits[i] \in Seq(Nat)
        /\ TicksPerSecond \in Nat /\ Limit \in Nat /\ WindowTicks \in Nat
    BY <2>1, LimiterAssumption, WindowIsPositive DEF LimiterInv, LimiterTypeOK
  <2>3. /\ Len(hits[i]) > 0 /\ hits[i][1] + WindowTicks < promise[i] + TicksPerSecond
        /\ Len(hits[i]) <= Limit
    BY <2>1 DEF LimiterInv, PromiseCovers, BucketIsRecent
  <2>4. hits[i][1] \in Nat
    BY <2>2, <2>3
  <2>5. hits[i][1] < now - WindowTicks
    BY <2>1, <2>2, <2>3, <2>4
  <2>6. /\ Len(Unexpired(hits[i], now - WindowTicks)) < Len(hits[i])
        /\ Unexpired(hits[i], now - WindowTicks) \in Seq(Nat)
    BY <2>1, <2>3, <2>5, PruneKeepsRecent
  <2> QED BY <2>2, <2>3, <2>6
<1> QED BY <1>1, LimiterInvariant, PTL
-----------------------------------------------------------------------------
(* The execution of a query. *)
Requests == [at : {"idle", "open", "scoped", "fetched"},
             conn : Connection \cup {Null}, company : Company \cup {Null},
             query : Query \cup {Null}, rows : SUBSET Data, known : Knowledge]
Results == [company : Company \cup {Null}, query : Query \cup {Null},
            rows : SUBSET Data, truncated : BOOLEAN, known : Knowledge]
Loans == [holder : Worker \cup {Null}, setting : Company \cup {Null}]
Scripts == [job : Jobs \cup {"none"}, table : Table \cup {Null}, next : 1 .. 5, todo : SUBSET Table]

(* The rows of its query that a request may see, whether the policies of   *)
(* all their tables are known, and how many it fetches if so.              *)
EntitledRows(r) == {d \in r.query.wanted : Entitled(d, r)}
AllKnown(r) == \A d \in r.query.wanted : r.known[d.table] # "unknown"
Fetches(r) ==
    Smaller(Smaller(Cardinality(EntitledRows(r)), RowLimit(r.query).limit), MaxRows + 1)

(* The setting is in place before the statement runs, and what it has      *)
(* fetched is what the request is entitled to, up to the limits.           *)
RequestInOrder(w) ==
    /\ request[w].at = "idle" => request[w] = NoRequest
    /\ request[w].at # "idle" => request[w].query \in Query
    /\ request[w].at = "scoped" => conn[request[w].conn].setting = request[w].company
    /\ request[w].at = "fetched" =>
          /\ request[w].rows \subseteq EntitledRows(request[w])
          /\ AllKnown(request[w]) => Cardinality(request[w].rows) = Fetches(request[w])

(* What the statements so far have made of the table that is being changed. *)
TableInOrder(p, job, next) ==
    \/ job = "enable" /\ next = 2 /\ p.enabled
    \/ job = "enable" /\ next = 3 /\ p.enabled /\ ~p.permissive
    \/ job = "enable" /\ next = 4 /\ p.enabled /\ p.permissive
    \/ job = "enable" /\ next = 5 /\ p.enabled /\ p.permissive /\ ~p.scope
    \/ job = "disable" /\ next = 2 /\ ~p.scope
    \/ job = "disable" /\ next = 3 /\ ~p.scope /\ ~p.permissive

Promised(job) == IF job = "enable" THEN FullPolicy ELSE NoPolicy

(* The table that a run of the script is at is as far as its statements.   *)
ScriptInOrder ==
    /\ script.job = "none" => script = NoScript
    /\ script.job # "none" =>
          /\ script.table = Null <=> script.next = 1
          /\ script.table # Null =>
                /\ script.table \in script.todo
                /\ TableInOrder(policy[script.table], script.job, script.next)

QueryInv ==
    /\ QueryTypeOK
    /\ ScriptInOrder
    /\ ProvisionedAfterRun
    /\ \A w \in Worker : RequestInOrder(w)
    /\ AnswersScoped
    /\ AnswersComplete
-----------------------------------------------------------------------------
(* The statements of the script, one by one. *)
LEMMA StatementFacts ==
    /\ StatementsOf("enable") = EnableStatements /\ Len(EnableStatements) = 5
    /\ StatementsOf("disable") = DisableStatements /\ Len(DisableStatements) = 3
    /\ EnableStatements[1] = "enable"
    /\ EnableStatements[2] = "drop_permissive"
    /\ EnableStatements[3] = "create_permissive"
    /\ EnableStatements[4] = "drop_scope"
    /\ EnableStatements[5] = "create_scope"
    /\ DisableStatements[1] = "drop_scope"
    /\ DisableStatements[2] = "drop_permissive"
    /\ DisableStatements[3] = "disable"
BY DEF StatementsOf, EnableStatements, DisableStatements

(* What a statement makes of the policies of a table, and what it leaves. *)
LEMMA AfterFacts ==
  ASSUME NEW p \in Policy, NEW s
  PROVE  /\ After(p, s) \in Policy
         /\ s = "enable" => After(p, s).enabled
         /\ s = "disable" => ~After(p, s).enabled
         /\ s \notin {"enable", "disable"} => After(p, s).enabled = p.enabled
         /\ s = "create_permissive" => After(p, s).permissive
         /\ s = "drop_permissive" => ~After(p, s).permissive
         /\ s \notin {"create_permissive", "drop_permissive"} => After(p, s).permissive = p.permissive
         /\ s = "create_scope" => After(p, s).scope
         /\ s = "drop_scope" => ~After(p, s).scope
         /\ s \notin {"create_scope", "drop_scope"} => After(p, s).scope = p.scope
<1>1. p.enabled \in BOOLEAN /\ p.permissive \in BOOLEAN /\ p.scope \in BOOLEAN
  BY DEF Policy
<1> QED
  BY <1>1 DEF After, Policy

(* Policies are equal when their parts are. *)
LEMMA PolicyByFields ==
  ASSUME NEW p \in Policy
  PROVE  /\ p.enabled /\ p.permissive /\ p.scope => p = FullPolicy
         /\ ~p.enabled /\ ~p.permissive /\ ~p.scope => p = NoPolicy
         /\ FullPolicy \in Policy /\ NoPolicy \in Policy
<1>1. p = [enabled |-> p.enabled, permissive |-> p.permissive, scope |-> p.scope]
      /\ p.enabled \in BOOLEAN /\ p.permissive \in BOOLEAN /\ p.scope \in BOOLEAN
  BY DEF Policy
<1> QED
  BY <1>1 DEF FullPolicy, NoPolicy, Policy

(* One statement takes the table it is about from one stage to the next,   *)
(* the last one to what the script promises.                               *)
LEMMA StatementKeepsOrder ==
  ASSUME NEW p \in Policy, NEW job \in Jobs, NEW next \in 1 .. Len(StatementsOf(job)),
         next = 1 \/ TableInOrder(p, job, next)
  PROVE  IF next = Len(StatementsOf(job))
         THEN After(p, StatementsOf(job)[next]) = Promised(job)
         ELSE TableInOrder(After(p, StatementsOf(job)[next]), job, next + 1)
<1> DEFINE done == After(p, StatementsOf(job)[next])
<1>1. done \in Policy
  BY AfterFacts
<1>2. CASE job = "enable"
  <2>1. next \in 1 .. 5 /\ Len(StatementsOf(job)) = 5
    BY <1>2, StatementFacts
  <2>2. CASE next = 1
    <3>1. StatementsOf(job)[next] = "enable"
      BY <1>2, <2>2, StatementFacts
    <3>2. done.enabled
      BY <1>2, <2>2, <3>1, AfterFacts DEF TableInOrder
    <3> QED
      BY <1>2, <2>1, <2>2, <3>2 DEF TableInOrder
  <2>3. CASE next = 2
    <3>1. StatementsOf(job)[next] = "drop_permissive"
      BY <1>2, <2>3, StatementFacts
    <3>2. done.enabled /\ ~done.permissive
      BY <1>2, <2>3, <3>1, AfterFacts DEF TableInOrder
    <3>3. TableInOrder(done, job, 3)
      BY <1>2, <3>2, Zenon DEF TableInOrder
    <3>4. next + 1 = 3 /\ next # Len(StatementsOf(job))
      BY <2>1, <2>3
    <3> QED
      BY <3>3, <3>4, Zenon
  <2>4. CASE next = 3
    <3>1. StatementsOf(job)[next] = "create_permissive"
      BY <1>2, <2>4, StatementFacts
    <3>2. done.enabled /\ done.permissive
      BY <1>2, <2>4, <3>1, AfterFacts DEF TableInOrder
    <3>3. TableInOrder(done, job, 4)
      BY <1>2, <3>2, Zenon DEF TableInOrder
    <3>4. next + 1 = 4 /\ next # Len(StatementsOf(job))
      BY <2>1, <2>4
    <3> QED
      BY <3>3, <3>4, Zenon
  <2>5. CASE next = 4
    <3>1. StatementsOf(job)[next] = "drop_scope"
      BY <1>2, <2>5, StatementFacts
    <3>2. done.enabled /\ done.permissive /\ ~done.scope
      BY <1>2, <2>5, <3>1, AfterFacts DEF TableInOrder
    <3>3. TableInOrder(done, job, 5)
      BY <1>2, <3>2, Zenon DEF TableInOrder
    <3>4. next + 1 = 5 /\ next # Len(StatementsOf(job))
      BY <2>1, <2>5
    <3> QED
      BY <3>3, <3>4, Zenon
  <2>6. CASE next = 5
    <3>1. StatementsOf(job)[next] = "create_scope"
      BY <1>2, <2>6, StatementFacts
    <3>2. done.enabled /\ done.permissive /\ done.scope
      BY <1>2, <2>6, <3>1, AfterFacts DEF TableInOrder
    <3>3. done = FullPolicy
      BY <1>1, <3>2, PolicyByFields
    <3> QED
      BY <1>2, <2>1, <2>6, <3>3 DEF Promised
  <2> QED
    BY <2>1, <2>2, <2>3, <2>4, <2>5, <2>6
<1>3. CASE job = "disable"
  <2>1. next \in 1 .. 3 /\ Len(StatementsOf(job)) = 3 /\ job # "enable"
    BY <1>3, StatementFacts
  <2>2. CASE next = 1
    <3>1. StatementsOf(job)[next] = "drop_scope"
      BY <1>3, <2>2, StatementFacts
    <3>2. ~done.scope
      BY <1>3, <2>2, <3>1, AfterFacts DEF TableInOrder
    <3> QED
      BY <1>3, <2>1, <2>2, <3>2 DEF TableInOrder
  <2>3. CASE next = 2
    <3>1. StatementsOf(job)[next] = "drop_permissive"
      BY <1>3, <2>3, StatementFacts
    <3>2. ~done.scope /\ ~done.permissive
      BY <1>3, <2>3, <3>1, AfterFacts DEF TableInOrder
    <3> QED
      BY <1>3, <2>1, <2>3, <3>2 DEF TableInOrder
  <2>4. CASE next = 3
    <3>1. StatementsOf(job)[next] = "disable"
      BY <1>3, <2>4, StatementFacts
    <3>2. ~done.enabled /\ ~done.permissive /\ ~done.scope
      BY <1>3, <2>4, <3>1, AfterFacts DEF TableInOrder
    <3>3. done = NoPolicy
      BY <1>1, <3>2, PolicyByFields
    <3> QED
      BY <1>3, <2>1, <2>4, <3>3 DEF Promised
  <2> QED
    BY <2>1, <2>2, <2>3, <2>4
<1> QED
  BY <1>2, <1>3 DEF Jobs
-----------------------------------------------------------------------------
(* The values things start from have their types. *)
LEMMA NullFacts ==
    /\ Null \notin Company /\ Null \notin Worker /\ Null \notin Connection /\ Null \notin Table
    /\ NoRequest \in Requests /\ NoRequest.at = "idle" /\ NoRequest.conn = Null
    /\ NoAnswer \in Results /\ NoAnswer.query = Null /\ NoAnswer.rows = {}
    /\ InPool \in Loans /\ InPool.holder = Null
    /\ NoScript \in Scripts /\ NoScript.job = "none" /\ NoScript.table = Null
    /\ NoScript.todo = {}
<1>1. NothingKnown \in Knowledge
  BY DEF NothingKnown, Knowledge
<1> QED
  BY <1>1, QueryAssumption DEF NoRequest, NoAnswer, InPool, NoScript, Requests, Results, Loans, Scripts

(* The type invariant, its records named. *)
LEMMA TypesInShort ==
  QueryTypeOK <=>
    /\ role \in {"erp_rag_ro", "owner"} /\ tables \subseteq Table
    /\ policy \in [Table -> Policy] /\ conn \in [Connection -> Loans]
    /\ request \in [Worker -> Requests] /\ answer \in [Worker -> Results]
    /\ script \in Scripts /\ script.todo \subseteq tables /\ provisioned \in Knowledge
    /\ \A w \in Worker : request[w].at # "idle" => request[w].conn \in Connection
    /\ \A c \in Connection, w \in Worker : conn[c].holder = w <=> request[w].conn = c
<1> DEFINE narrow == [job : Jobs \cup {"none"}, table : Table \cup {Null}, next : 1 .. 5,
                      todo : SUBSET tables]
<1>1. ASSUME tables \subseteq Table
      PROVE  script \in narrow <=> script \in Scripts /\ script.todo \subseteq tables
  BY <1>1 DEF Scripts
<1> QED
  BY <1>1 DEF QueryTypeOK, Requests, Results, Loans

(* A database without policies and a full pool. *)
LEMMA InitiallyOK == QueryInit => QueryInv
<1> SUFFICES ASSUME QueryInit PROVE QueryInv
  OBVIOUS
<1>1. \A w \in Worker : request[w] = NoRequest /\ answer[w] = NoAnswer
  BY DEF QueryInit
<1>2. \A c \in Connection : conn[c] = InPool
  BY DEF QueryInit
<1>3. \A t \in Table : policy[t] = NoPolicy /\ NoPolicy \in Policy
  BY DEF QueryInit, NoPolicy, Policy
<1>4. QueryTypeOK
  <2>1. policy \in [Table -> Policy] /\ conn \in [Connection -> Loans]
    BY <1>3, NullFacts DEF QueryInit
  <2>2. request \in [Worker -> Requests] /\ answer \in [Worker -> Results]
    BY NullFacts DEF QueryInit
  <2>3. script \in Scripts /\ provisioned \in Knowledge /\ script.todo \subseteq tables
        /\ role \in {"erp_rag_ro", "owner"} /\ tables \subseteq Table
    BY NullFacts DEF QueryInit, Jobs, Knowledge
  <2>4. \A w \in Worker : request[w].at = "idle"
    BY <1>1, NullFacts
  <2>5. \A c \in Connection, w \in Worker : conn[c].holder # w /\ request[w].conn # c
    BY <1>1, <1>2, NullFacts
  <2> QED
    BY <2>1, <2>2, <2>3, <2>4, <2>5, TypesInShort
<1>5. ScriptInOrder /\ ProvisionedAfterRun
  BY <1>3, NullFacts DEF QueryInit, ScriptInOrder, ProvisionedAfterRun
<1>6. \A w \in Worker : RequestInOrder(w)
  BY <1>1, NullFacts DEF RequestInOrder
<1>7. AnswersScoped /\ AnswersComplete
  BY <1>1, NullFacts DEF AnswersScoped, AnswersComplete
<1> QED
  BY <1>4, <1>5, <1>6, <1>7 DEF QueryInv

-----------------------------------------------------------------------------
(* Steps of the script and of migrations leave the statements of the       *)
(* service alone.                                                          *)
LEMMA ScriptLeavesRequests ==
  ASSUME QueryInv, UNCHANGED <<role, conn, request, answer>>
  PROVE  /\ \A w \in Worker : RequestInOrder(w)'
         /\ AnswersScoped' /\ AnswersComplete'
<1>1. \A w \in Worker : RequestInOrder(w)'
  BY DEF QueryInv, RequestInOrder, Fetches, EntitledRows, AllKnown, Entitled, RowLimit
<1>2. AnswersScoped' /\ AnswersComplete'
  BY DEF QueryInv, AnswersScoped, AnswersComplete, Entitled
<1> QED
  BY <1>1, <1>2

(* A run begins with the tables that exist. *)
LEMMA StartScriptPreserves ==
  ASSUME QueryInv, NEW job \in Jobs, StartScript(job)
  PROVE  QueryInv'
<1>1. UNCHANGED <<role, tables, policy, conn, request, answer, provisioned>>
  BY DEF StartScript
<1>2. CASE script' = NoScript
  <2>1. QueryTypeOK'
    BY <1>1, <1>2, NullFacts, TypesInShort DEF QueryInv, QueryTypeOK, Scripts
  <2>2. ScriptInOrder' /\ ProvisionedAfterRun'
    BY <1>1, <1>2, NullFacts DEF QueryInv, ScriptInOrder, ProvisionedAfterRun
  <2> QED
    BY <1>1, <2>1, <2>2, ScriptLeavesRequests DEF QueryInv
<1>3. CASE script' = [job |-> job, table |-> Null, next |-> 1, todo |-> tables]
  <2>1. script' \in Scripts /\ script'.job = job /\ script'.table = Null /\ script'.next = 1
        /\ script'.todo = tables
    BY <1>3, TypesInShort DEF QueryInv, Scripts
  <2>2. QueryTypeOK'
    BY <1>1, <1>3, <2>1, TypesInShort DEF QueryInv, QueryTypeOK
  <2>3. ScriptInOrder' /\ ProvisionedAfterRun'
    BY <1>1, <2>1, NullFacts DEF QueryInv, ScriptInOrder, ProvisionedAfterRun, Jobs
  <2> QED
    BY <1>1, <2>2, <2>3, ScriptLeavesRequests DEF QueryInv
<1> QED
  BY <1>2, <1>3 DEF StartScript

(* The policies stay half-way, and unknown. *)
LEMMA FailScriptPreserves ==
  ASSUME QueryInv, FailScript
  PROVE  QueryInv'
<1>1. UNCHANGED <<role, tables, policy, conn, request, answer, provisioned>> /\ script' = NoScript
  BY DEF FailScript
<1>2. QueryTypeOK'
  BY <1>1, NullFacts DEF QueryInv, QueryTypeOK, Scripts
<1>3. ScriptInOrder' /\ ProvisionedAfterRun'
  BY <1>1, NullFacts DEF QueryInv, ScriptInOrder, ProvisionedAfterRun
<1> QED
  BY <1>1, <1>2, <1>3, ScriptLeavesRequests DEF QueryInv

(* A new table has no policies, and no promise either. *)
LEMMA CreateTablePreserves ==
  ASSUME QueryInv, NEW t \in Table, CreateTable(t)
  PROVE  QueryInv'
<1>1. UNCHANGED <<role, policy, conn, request, answer, script, provisioned>>
      /\ tables' = tables \cup {t}
  BY DEF CreateTable
<1>2. tables' \subseteq Table /\ script.todo \subseteq tables'
  BY <1>1, TypesInShort DEF QueryInv
<1>3. QueryTypeOK'
  BY <1>1, <1>2 DEF QueryInv, QueryTypeOK
<1>4. ScriptInOrder' /\ ProvisionedAfterRun'
  BY <1>1 DEF QueryInv, ScriptInOrder, ProvisionedAfterRun
<1> QED
  BY <1>1, <1>3, <1>4, ScriptLeavesRequests DEF QueryInv

(* What a step of the script must keep of the types. *)
LEMMA ScriptTypes ==
  ASSUME QueryInv, UNCHANGED <<role, tables, conn, request, answer>>,
         policy' \in [Table -> Policy], provisioned' \in Knowledge,
         script' \in Scripts, script'.todo \subseteq tables
  PROVE  QueryTypeOK'
<1>1. script' \in [job : Jobs \cup {"none"}, table : Table \cup {Null}, next : 1 .. 5,
                   todo : SUBSET tables]
  BY DEF Scripts
<1> QED
  BY <1>1 DEF QueryInv, QueryTypeOK

(* The script is a statement further, or a table, or done. *)
LEMMA NextStatementPreserves ==
  ASSUME QueryInv, NEW t \in Table, NextStatement(t)
  PROVE  QueryInv'
<1> DEFINE job == script.job
           next == script.next
           last == Len(StatementsOf(job))
<1>1. UNCHANGED <<role, tables, conn, request, answer>>
  BY DEF NextStatement
<1>2. job \in Jobs /\ t \in script.todo /\ (next = 1 \/ t = script.table) /\ script \in Scripts
      /\ script.todo \subseteq tables /\ provisioned \in Knowledge
  BY TypesInShort DEF NextStatement, QueryInv, Scripts
<1>3. policy' = [policy EXCEPT ![t] = After(policy[t], StatementsOf(job)[next])]
      /\ policy \in [Table -> Policy]
      /\ provisioned' = [provisioned EXCEPT ![t] = IF next = last THEN job ELSE "unknown"]
  BY TypesInShort DEF NextStatement, QueryInv
<1>4. /\ script.table = Null <=> next = 1
      /\ next # 1 => TableInOrder(policy[t], job, next)
  BY <1>2 DEF QueryInv, ScriptInOrder, Jobs
<1>5. next \in 1 .. last
  <2>1. next \in 1 .. 5
    BY <1>2 DEF Scripts
  <2>2. CASE job = "enable"
    BY <2>1, <2>2, StatementFacts
  <2>3. CASE job = "disable" /\ next # 1
    BY <1>4, <2>3, StatementFacts DEF TableInOrder
  <2>4. CASE job = "disable" /\ next = 1
    BY <2>4, StatementFacts
  <2> QED
    BY <1>2, <2>2, <2>3, <2>4 DEF Jobs
<1>6. PICK done \in Policy : done = After(policy[t], StatementsOf(job)[next])
  BY <1>3, AfterFacts
<1>7. IF next = last THEN done = Promised(job) ELSE TableInOrder(done, job, next + 1)
  <2>1. policy[t] \in Policy
    BY <1>3
  <2> QED
    BY <1>2, <1>4, <1>5, <1>6, <2>1, StatementKeepsOrder
<1>8. policy' \in [Table -> Policy] /\ policy'[t] = done
      /\ \A u \in Table : u # t => policy'[u] = policy[u]
  BY <1>3, <1>6
<1>9. PICK n \in {3, 5} : n = last
  BY <1>2, StatementFacts DEF Jobs
<1>10. provisioned' \in Knowledge /\ provisioned'[t] = (IF next = last THEN job ELSE "unknown")
       /\ \A u \in Table : u # t => provisioned'[u] = provisioned[u]
  BY <1>2, <1>3 DEF Knowledge
<1>11. ProvisionedAfterRun'
  <2> SUFFICES ASSUME NEW u \in Table
               PROVE  /\ provisioned'[u] = "enable" => policy'[u] = FullPolicy
                      /\ provisioned'[u] = "disable" => policy'[u] = NoPolicy
    BY DEF ProvisionedAfterRun
  <2>1. CASE u # t
    BY <1>8, <1>10, <2>1 DEF QueryInv, ProvisionedAfterRun
  <2>2. CASE u = t
    BY <1>2, <1>7, <1>8, <1>10, <2>2 DEF Promised, Jobs
  <2> QED
    BY <2>1, <2>2
<1>12. CASE next # last
  <2>1. script' = [script EXCEPT !.table = t, !.next = next + 1]
    BY <1>12 DEF NextStatement
  <2>2. script' \in Scripts /\ script'.job = job /\ script'.table = t /\ script'.next = next + 1
        /\ script'.todo = script.todo
    <3>1. next + 1 \in 1 .. 5
      <4>1. next \in 1 .. n /\ next # n
        BY <1>5, <1>9, <1>12
      <4>2. CASE n = 3
        BY <4>1, <4>2
      <4>3. CASE n = 5
        BY <4>1, <4>3
      <4> QED
        BY <4>2, <4>3
    <3> QED
      BY <1>2, <2>1, <3>1 DEF Scripts
  <2>3. QueryTypeOK'
    BY <1>1, <1>2, <1>8, <1>10, <2>2, ScriptTypes
  <2>4. ScriptInOrder'
    <3>1. script'.table # Null /\ script'.next # 1
      <4>1. next \in 1 .. n
        BY <1>5, <1>9
      <4> QED
        BY <2>2, <4>1, NullFacts
    <3>2. TableInOrder(policy'[script'.table], script'.job, script'.next)
      BY <1>7, <1>8, <1>12, <2>2
    <3>3. script'.job # "none"
      BY <1>2, <2>2 DEF Jobs
    <3> QED
      BY <1>2, <2>2, <3>1, <3>2, <3>3 DEF ScriptInOrder
  <2> QED
    BY <1>1, <1>11, <2>3, <2>4, ScriptLeavesRequests DEF QueryInv
<1>13. CASE next = last
  <2>1. CASE script.todo = {t}
    <3>1. script' = NoScript
      BY <1>13, <2>1 DEF NextStatement
    <3>2. QueryTypeOK'
      BY <1>1, <1>8, <1>10, <3>1, NullFacts, ScriptTypes
    <3>3. ScriptInOrder'
      BY <3>1, NullFacts DEF ScriptInOrder
    <3> QED
      BY <1>1, <1>11, <3>2, <3>3, ScriptLeavesRequests DEF QueryInv
  <2>2. CASE script.todo # {t}
    <3>1. script' = [script EXCEPT !.table = Null, !.next = 1, !.todo = script.todo \ {t}]
      BY <1>13, <2>2 DEF NextStatement
    <3>2. script' \in Scripts /\ script'.job = job /\ script'.table = Null /\ script'.next = 1
          /\ script'.todo = script.todo \ {t}
      <4>1. script.todo \ {t} \in SUBSET Table /\ Null \in Table \cup {Null} /\ 1 \in 1 .. 5
        BY <1>2 DEF Scripts
      <4>2. script' \in Scripts
        BY <1>2, <3>1, <4>1 DEF Scripts
      <4>3. script'.job = job /\ script'.table = Null
        BY <1>2, <3>1 DEF Scripts
      <4>4. script'.next = 1 /\ script'.todo = script.todo \ {t}
        BY <1>2, <3>1 DEF Scripts
      <4> QED
        BY <4>2, <4>3, <4>4
    <3>3. QueryTypeOK'
      BY <1>1, <1>2, <1>8, <1>10, <3>2, ScriptTypes
    <3>4. ScriptInOrder'
      BY <1>2, <3>2 DEF ScriptInOrder, Jobs
    <3> QED
      BY <1>1, <1>11, <3>3, <3>4, ScriptLeavesRequests DEF QueryInv
  <2> QED
    BY <2>1, <2>2
<1> QED
  BY <1>12, <1>13
-----------------------------------------------------------------------------
(* A step of w changes its request and the connection it has, takes or     *)
(* gives back, on which nobody else can be.                                *)
LEMMA OthersUndisturbed ==
  ASSUME QueryInv, NEW w \in Worker, NEW r \in Requests, NEW c \in Connection, NEW loan \in Loans,
         request' = [request EXCEPT ![w] = r], conn' = [conn EXCEPT ![c] = loan],
         UNCHANGED <<role, tables, policy, script, provisioned>>, answer' \in [Worker -> Results],
         request[w].conn = c \/ (request[w].conn = Null /\ conn[c].holder = Null),
         (loan.holder = w /\ r.conn = c) \/ (loan.holder = Null /\ r.conn = Null /\ r.at = "idle")
  PROVE  /\ QueryTypeOK' /\ ScriptInOrder' /\ ProvisionedAfterRun'
         /\ request'[w] = r /\ conn'[c] = loan
         /\ \A v \in Worker \ {w} : RequestInOrder(v)'
<1>1. /\ request \in [Worker -> Requests] /\ conn \in [Connection -> Loans]
      /\ \A v \in Worker : request[v].at # "idle" => request[v].conn \in Connection
      /\ \A d \in Connection, v \in Worker : conn[d].holder = v <=> request[v].conn = d
  BY TypesInShort DEF QueryInv
<1>2. request'[w] = r /\ \A v \in Worker \ {w} : request'[v] = request[v]
  BY <1>1
<1>3. conn'[c] = loan /\ \A d \in Connection \ {c} : conn'[d] = conn[d]
  BY <1>1
<1>4. request' \in [Worker -> Requests] /\ conn' \in [Connection -> Loans]
  BY <1>1
<1>5. \A v \in Worker \ {w} : request[v].conn # c
  BY <1>1, NullFacts
<1>6. \A v \in Worker : request'[v].at # "idle" => request'[v].conn \in Connection
  BY <1>1, <1>2
<1>7. ASSUME NEW d \in Connection, NEW v \in Worker
      PROVE  conn'[d].holder = v <=> request'[v].conn = d
  <2>1. CASE v = w /\ d = c
    BY <1>2, <1>3, <2>1, NullFacts
  <2>2. CASE v = w /\ d # c
    BY <1>1, <1>2, <1>3, <2>2, NullFacts
  <2>3. CASE v # w /\ d = c
    BY <1>2, <1>3, <1>5, <2>3, NullFacts
  <2>4. CASE v # w /\ d # c
    BY <1>1, <1>2, <1>3, <2>4
  <2> QED
    BY <2>1, <2>2, <2>3, <2>4
<1>8. QueryTypeOK'
  <2>1. /\ role' \in {"erp_rag_ro", "owner"} /\ tables' \subseteq Table
        /\ policy' \in [Table -> Policy] /\ provisioned' \in Knowledge
        /\ script' \in [job : Jobs \cup {"none"}, table : Table \cup {Null}, next : 1 .. 5,
                         todo : SUBSET tables']
    BY DEF QueryInv, QueryTypeOK
  <2> QED
    BY <1>4, <1>6, <1>7, <2>1 DEF QueryTypeOK, Requests, Results, Loans
<1>9. ScriptInOrder' /\ ProvisionedAfterRun'
  BY DEF QueryInv, ScriptInOrder, ProvisionedAfterRun
<1>10. ASSUME NEW v \in Worker \ {w} PROVE RequestInOrder(v)'
  <2>1. request'[v] = request[v] /\ RequestInOrder(v)
    BY <1>2 DEF QueryInv
  <2>2. request[v].at = "scoped" => conn'[request[v].conn] = conn[request[v].conn]
    BY <1>1, <1>3, <1>5
  <2> QED
    BY <2>1, <2>2 DEF RequestInOrder, Fetches, EntitledRows, AllKnown, Entitled, RowLimit
<1> QED
  BY <1>2, <1>3, <1>8, <1>9, <1>10

(* Answers already given stay right. *)
LEMMA AnswersStay ==
  ASSUME QueryInv, role' = role, answer' = answer
  PROVE  AnswersScoped' /\ AnswersComplete' /\ answer' \in [Worker -> Results]
<1>1. AnswersScoped' /\ AnswersComplete'
  BY DEF QueryInv, AnswersScoped, AnswersComplete, Entitled
<1>2. answer' \in [Worker -> Results]
  BY TypesInShort DEF QueryInv
<1> QED
  BY <1>1, <1>2

(* A new answer of one worker leaves those of the others. *)
LEMMA OneAnswerReplaced ==
  ASSUME QueryInv, role' = role, NEW w \in Worker, NEW a \in Results,
         answer' = [answer EXCEPT ![w] = a], a.rows \subseteq EntitledRows(a) \/ a.rows = {},
         a.query # Null /\ AllKnown(a) /\ ~a.truncated =>
             a.rows = EntitledRows(a) \/ (a.query.limit # Null /\ Cardinality(a.rows) = a.query.limit)
  PROVE  AnswersScoped' /\ AnswersComplete'
<1>1. \A v \in Worker : answer'[v] = IF v = w THEN a ELSE answer[v]
  BY TypesInShort DEF QueryInv
<1>2. \A d, b : Entitled(d, b)' <=> Entitled(d, b)
  BY DEF Entitled
<1>3. AnswersScoped'
  <2> SUFFICES ASSUME NEW v \in Worker, NEW d \in answer'[v].rows
               PROVE  role' = "erp_rag_ro" /\ answer'[v].company # Null
                          /\ answer'[v].known[d.table] = "enable" => d.company = answer'[v].company
    BY DEF AnswersScoped, Entitled
  <2>1. PICK b : b = answer'[v]
    OBVIOUS
  <2>2. Entitled(d, b)
    BY <1>1, <2>1 DEF QueryInv, AnswersScoped, EntitledRows
  <2> QED
    BY <2>1, <2>2 DEF Entitled
<1>4. AnswersComplete'
  <2> SUFFICES ASSUME NEW v \in Worker, NEW b, b = answer'[v], b.query # Null, ~b.truncated,
                      \A d \in b.query.wanted : b.known[d.table] # "unknown"
               PROVE  \/ b.rows = {d \in b.query.wanted : Entitled(d, b)}
                      \/ b.query.limit # Null /\ Cardinality(b.rows) = b.query.limit
    BY DEF AnswersComplete, Entitled
  <2>1. CASE v = w
    BY <1>1, <2>1 DEF EntitledRows, AllKnown
  <2>2. CASE v # w
    BY <1>1, <2>2 DEF QueryInv, AnswersComplete
  <2> QED
    BY <2>1, <2>2
<1> QED
  BY <1>3, <1>4

(* A free connection is borrowed by no other worker. *)
LEMMA CheckoutPreserves ==
  ASSUME QueryInv, NEW w \in Worker, NEW c \in Connection, NEW company \in Company \cup {Null},
         NEW q \in Query, Checkout(w, c, company, q)
  PROVE  QueryInv'
<1> DEFINE r == [at |-> "open", conn |-> c, company |-> company, query |-> q, rows |-> {},
                 known |-> NothingKnown]
           loan == [conn[c] EXCEPT !.holder = w]
<1>1. r \in Requests /\ r.at = "open" /\ r.conn = c /\ r.query = q
  BY DEF Requests, Knowledge, NothingKnown
<1>2. conn \in [Connection -> Loans]
  BY TypesInShort DEF QueryInv
<1>3. loan \in Loans /\ loan.holder = w
  BY <1>2 DEF Loans
<1>4. request' = [request EXCEPT ![w] = r] /\ conn' = [conn EXCEPT ![c] = loan]
  BY DEF Checkout
<1>5. answer' = [answer EXCEPT ![w] = NoAnswer] /\ answer \in [Worker -> Results]
  BY TypesInShort DEF Checkout, QueryInv
<1>6. answer' \in [Worker -> Results]
  BY <1>5, NullFacts
<1>7. request[w].conn = Null /\ conn[c].holder = Null /\ UNCHANGED <<role, tables, policy, script, provisioned>>
  BY NullFacts DEF Checkout, QueryInv, RequestInOrder
<1> HIDE DEF r, loan
<1>8. /\ QueryTypeOK' /\ ScriptInOrder' /\ ProvisionedAfterRun' /\ request'[w] = r
      /\ \A v \in Worker \ {w} : RequestInOrder(v)'
  BY <1>1, <1>3, <1>4, <1>6, <1>7, OthersUndisturbed
<1>9. RequestInOrder(w)'
  BY <1>1, <1>8 DEF RequestInOrder
<1>10. AnswersScoped' /\ AnswersComplete'
  BY <1>5, <1>7, NullFacts, OneAnswerReplaced
<1> QED
  BY <1>8, <1>9, <1>10 DEF QueryInv

(* The setting is made in the connection of the statement. *)
LEMMA SetCompanyPreserves ==
  ASSUME QueryInv, NEW w \in Worker, SetCompany(w)
  PROVE  QueryInv'
<1>1. /\ request \in [Worker -> Requests] /\ conn \in [Connection -> Loans]
      /\ request[w].at = "open" /\ request[w].conn \in Connection
      /\ conn[request[w].conn].holder = w
  BY TypesInShort DEF QueryInv, SetCompany
<1>2. PICK c \in Connection : c = request[w].conn
  BY <1>1
<1>3. PICK r : r = [request[w] EXCEPT !.at = "scoped"]
  OBVIOUS
<1>4. PICK loan : loan = [conn[c] EXCEPT !.setting = request[w].company]
  OBVIOUS
<1>5. request' = [request EXCEPT ![w] = r] /\ conn' = [conn EXCEPT ![c] = loan]
  BY <1>2, <1>3, <1>4 DEF SetCompany
<1>6. /\ r \in Requests /\ r.at = "scoped" /\ r.conn = c /\ r.query = request[w].query
      /\ r.company = request[w].company /\ r.known = request[w].known /\ r.rows = request[w].rows
  BY <1>1, <1>2, <1>3 DEF Requests
<1>7. loan \in Loans /\ loan.holder = w /\ loan.setting = request[w].company
  BY <1>1, <1>2, <1>4 DEF Loans, Requests
<1>8. UNCHANGED <<role, tables, policy, script, provisioned>> /\ answer' = answer
  BY DEF SetCompany
<1>9. /\ QueryTypeOK' /\ ScriptInOrder' /\ ProvisionedAfterRun' /\ request'[w] = r /\ conn'[c] = loan
      /\ \A v \in Worker \ {w} : RequestInOrder(v)'
  <2>1. answer' \in [Worker -> Results]
    BY <1>8, AnswersStay
  <2>2. (loan.holder = w /\ r.conn = c) /\ request[w].conn = c
    BY <1>2, <1>6, <1>7
  <2>3. r \in Requests /\ loan \in Loans /\ UNCHANGED <<role, tables, policy, script, provisioned>>
    BY <1>6, <1>7, <1>8
  <2> QED
    BY <1>5, <2>1, <2>2, <2>3, OthersUndisturbed, Zenon
<1>10. RequestInOrder(w)'
  <2>1. RequestInOrder(w)
    BY DEF QueryInv
  <2>2. r.query \in Query
    BY <1>1, <1>6, <2>1 DEF RequestInOrder
  <2> QED
    BY <1>6, <1>7, <1>9, <2>2 DEF RequestInOrder
<1> QED
  BY <1>8, <1>9, <1>10, AnswersStay DEF QueryInv

(* The connection goes back whatever happened. *)
LEMMA FailQueryPreserves ==
  ASSUME QueryInv, NEW w \in Worker, FailQuery(w)
  PROVE  QueryInv'
<1>1. request[w].conn \in Connection /\ request' = [request EXCEPT ![w] = NoRequest]
      /\ conn' = [conn EXCEPT ![request[w].conn] = InPool]
      /\ UNCHANGED <<role, tables, policy, script, provisioned>> /\ answer' = answer
  BY TypesInShort DEF QueryInv, FailQuery
<1>2. /\ QueryTypeOK' /\ ScriptInOrder' /\ ProvisionedAfterRun' /\ request'[w] = NoRequest
      /\ \A v \in Worker \ {w} : RequestInOrder(v)'
  BY <1>1, NullFacts, AnswersStay, OthersUndisturbed
<1>3. RequestInOrder(w)'
  BY <1>2, NullFacts DEF RequestInOrder
<1> QED
  BY <1>1, <1>2, <1>3, AnswersStay DEF QueryInv
-----------------------------------------------------------------------------
(* What the assumptions say of a query. *)
LEMMA QueryFacts ==
  ASSUME NEW q \in Query
  PROVE  /\ q.wanted \subseteq Data /\ IsFiniteSet(q.wanted)
         /\ q.limit \in Nat \cup {Null} /\ Null \notin Nat /\ MaxRows \in Nat
<1>1. q \in [wanted : SUBSET Data, limit : Nat \cup {Null}, tail : Tails]
  BY QueryAssumption
<1>2. IsFiniteSet(Data) /\ q.wanted \in SUBSET Data
  BY <1>1, QueryAssumption
<1> QED
  BY <1>1, <1>2, FS_Subset, QueryAssumption

(* The rows a request is entitled to can be counted. *)
LEMMA EntitledIsFinite ==
  ASSUME NEW a, a.query \in Query
  PROVE  IsFiniteSet(EntitledRows(a)) /\ Cardinality(EntitledRows(a)) \in Nat
<1>1. EntitledRows(a) \in SUBSET a.query.wanted
  BY DEF EntitledRows
<1> QED
  BY <1>1, QueryFacts, FS_Subset, FS_CardinalityType

(* A statement sees no more than its request may see, and no less of a     *)
(* table whose policies are known.                                         *)
LEMMA VisibleIsEntitled ==
  ASSUME QueryTypeOK, ProvisionedAfterRun, NEW a, a.known = provisioned, NEW d \in Data
  PROVE  /\ Visible(d, a.company) => Entitled(d, a)
         /\ Entitled(d, a) /\ provisioned[d.table] # "unknown" => Visible(d, a.company)
<1>1. d.table \in Table /\ d.company \in Company
  BY QueryAssumption
<1>2. /\ provisioned[d.table] \in Jobs \cup {"unknown"} /\ role \in {"erp_rag_ro", "owner"}
      /\ provisioned[d.table] = "enable" => policy[d.table] = FullPolicy
      /\ provisioned[d.table] = "disable" => policy[d.table] = NoPolicy
  BY <1>1 DEF QueryTypeOK, ProvisionedAfterRun, Knowledge
<1>3. CASE provisioned[d.table] = "enable"
  <2>1. policy[d.table].enabled /\ policy[d.table].permissive /\ policy[d.table].scope
    BY <1>2, <1>3 DEF FullPolicy
  <2>2. Visible(d, a.company) <=> role = "owner" \/ a.company = Null \/ a.company = d.company
    BY <2>1 DEF Visible, InScope
  <2> QED
    BY <1>2, <1>3, <2>2 DEF Entitled
<1>4. CASE provisioned[d.table] = "disable"
  <2>1. ~policy[d.table].enabled
    BY <1>2, <1>4 DEF NoPolicy
  <2> QED
    BY <1>4, <2>1 DEF Visible, Entitled
<1>5. CASE provisioned[d.table] = "unknown"
  BY <1>5 DEF Entitled
<1> QED
  BY <1>2, <1>3, <1>4, <1>5 DEF Jobs

(* With the setting in place the statement fetches what it may. *)
LEMMA ExecutePreserves ==
  ASSUME QueryInv, NEW w \in Worker, Execute(w)
  PROVE  QueryInv'
<1>1. /\ request \in [Worker -> Requests] /\ conn \in [Connection -> Loans]
      /\ request[w].at = "scoped" /\ request[w].conn \in Connection
      /\ conn[request[w].conn].holder = w /\ request[w].query \in Query
      /\ conn[request[w].conn].setting = request[w].company
      /\ provisioned \in Knowledge
  BY TypesInShort DEF QueryInv, Execute, RequestInOrder
<1> DEFINE q == request[w].query
           visible == {d \in q.wanted : Visible(d, request[w].company)}
<1>2. PICK rows \in SUBSET visible :
         /\ Cardinality(rows) = Smaller(Smaller(Cardinality(visible), RowLimit(q).limit), MaxRows + 1)
         /\ request' = [request EXCEPT ![w] =
               [at |-> "fetched", conn |-> request[w].conn, company |-> request[w].company,
                query |-> q, rows |-> rows, known |-> provisioned]]
  BY <1>1 DEF Execute
<1>3. PICK r : r = [at |-> "fetched", conn |-> request[w].conn, company |-> request[w].company,
                    query |-> q, rows |-> rows, known |-> provisioned]
  OBVIOUS
<1>4. /\ r.at = "fetched" /\ r.conn = request[w].conn /\ r.company = request[w].company
      /\ r.query = q /\ r.rows = rows /\ r.known = provisioned
  BY <1>3
<1>5. r \in Requests
  <2>1. rows \in SUBSET Data
    BY <1>1, <1>2, QueryFacts
  <2> QED
    BY <1>1, <1>3, <2>1 DEF Requests
<1>6. PICK c \in Connection : c = request[w].conn
  BY <1>1
<1>7. request' = [request EXCEPT ![w] = r] /\ conn' = [conn EXCEPT ![c] = conn[c]]
  BY <1>1, <1>2, <1>3 DEF Execute
<1>8. UNCHANGED <<role, tables, policy, script, provisioned>> /\ answer' = answer
  BY DEF Execute
<1>9. /\ QueryTypeOK' /\ ScriptInOrder' /\ ProvisionedAfterRun' /\ request'[w] = r
      /\ \A v \in Worker \ {w} : RequestInOrder(v)'
  <2>1. answer' \in [Worker -> Results] /\ conn[c] \in Loans
    BY <1>1, <1>8, AnswersStay
  <2>2. request[w].conn = c /\ conn[c].holder = w /\ r.conn = c
    BY <1>1, <1>4, <1>6
  <2> QED
    BY <1>5, <1>7, <1>8, <2>1, <2>2, OthersUndisturbed, Zenon
<1>10. r.rows \subseteq EntitledRows(r) /\ (AllKnown(r) => Cardinality(r.rows) = Fetches(r))
  <2>1. \A d \in q.wanted : Visible(d, r.company) => Entitled(d, r)
    BY <1>1, <1>4, QueryFacts, VisibleIsEntitled DEF QueryInv
  <2>2. r.rows \subseteq EntitledRows(r)
    BY <1>2, <1>4, <2>1 DEF EntitledRows
  <2>3. AllKnown(r) => visible = EntitledRows(r)
    <3>1. AllKnown(r) => \A d \in q.wanted : Entitled(d, r) => Visible(d, r.company)
      BY <1>1, <1>4, QueryFacts, VisibleIsEntitled DEF QueryInv, AllKnown
    <3> QED
      BY <1>4, <2>1, <3>1 DEF EntitledRows
  <2> QED
    BY <1>2, <1>4, <2>2, <2>3 DEF Fetches
<1>11. RequestInOrder(w)'
  <2>1. EntitledRows(r)' = EntitledRows(r) /\ Fetches(r)' = Fetches(r)
    BY <1>8 DEF EntitledRows, Entitled, Fetches
  <2> QED
    BY <1>1, <1>4, <1>9, <1>10, <2>1 DEF RequestInOrder, AllKnown
<1> QED
  BY <1>8, <1>9, <1>11, AnswersStay DEF QueryInv

(* The arithmetic of the limits: rows that are neither cut nor held back   *)
(* by an applied limit are all there are, or as many as the query allows.  *)
LEMMA NothingHeldBack ==
  ASSUME NEW q \in Query, NEW n \in Nat, NEW f \in Nat, NEW g \in Nat,
         f = Smaller(Smaller(n, RowLimit(q).limit), MaxRows + 1), g = Smaller(f, MaxRows),
         ~(f > MaxRows), ~(RowLimit(q).applied /\ g = MaxRows)
  PROVE  g = n \/ (q.limit # Null /\ g = q.limit)
<1>1. q.limit \in Nat \cup {Null} /\ Null \notin Nat /\ MaxRows \in Nat
  BY QueryFacts
<1>2. CASE q.limit # Null /\ q.limit <= MaxRows
  <2>1. RowLimit(q).limit = q.limit /\ q.limit \in Nat
    BY <1>1, <1>2 DEF RowLimit
  <2> QED
    BY <1>1, <1>2, <2>1 DEF Smaller
<1>3. CASE ~(q.limit # Null /\ q.limit <= MaxRows)
  <2>1. RowLimit(q).limit = MaxRows /\ RowLimit(q).applied
    BY <1>3 DEF RowLimit
  <2>2. f = Smaller(Smaller(n, MaxRows), MaxRows + 1) /\ g # MaxRows
    BY <2>1
  <2> QED
    BY <1>1, <2>2 DEF Smaller
<1> QED
  BY <1>2, <1>3

(* Cutting the rows and marking the cut keeps the answer honest. *)
LEMMA FinishPreserves ==
  ASSUME QueryInv, NEW w \in Worker, Finish(w)
  PROVE  QueryInv'
<1> DEFINE r == request[w]
<1>1. /\ r \in Requests /\ r.at = "fetched" /\ r.conn \in Connection /\ r.query \in Query
      /\ answer \in [Worker -> Results]
      /\ r.rows \subseteq EntitledRows(r)
      /\ AllKnown(r) => Cardinality(r.rows) = Fetches(r)
  BY TypesInShort DEF QueryInv, Finish, RequestInOrder
<1>2. PICK rows \in SUBSET r.rows :
         /\ Cardinality(rows) = Smaller(Cardinality(r.rows), MaxRows)
         /\ answer' = [answer EXCEPT ![w] =
               [company |-> r.company, query |-> r.query, rows |-> rows,
                truncated |-> \/ Cardinality(r.rows) > MaxRows
                              \/ RowLimit(r.query).applied /\ Cardinality(rows) = MaxRows,
                known |-> r.known]]
  BY DEF Finish
<1>3. PICK a : a = [company |-> r.company, query |-> r.query, rows |-> rows,
                    truncated |-> \/ Cardinality(r.rows) > MaxRows
                                  \/ RowLimit(r.query).applied /\ Cardinality(rows) = MaxRows,
                    known |-> r.known]
  OBVIOUS
<1>4. /\ a.company = r.company /\ a.query = r.query /\ a.rows = rows /\ a.known = r.known
      /\ a.truncated = (\/ Cardinality(r.rows) > MaxRows
                        \/ RowLimit(r.query).applied /\ Cardinality(rows) = MaxRows)
  BY <1>3
<1>5. a \in Results
  <2>1. rows \in SUBSET Data /\ r.company \in Company \cup {Null} /\ r.known \in Knowledge
    BY <1>1, <1>2 DEF Requests
  <2>2. (\/ Cardinality(r.rows) > MaxRows
         \/ RowLimit(r.query).applied /\ Cardinality(rows) = MaxRows) \in BOOLEAN
    OBVIOUS
  <2> QED
    BY <1>1, <1>3, <2>1, <2>2 DEF Results
<1>6. answer' = [answer EXCEPT ![w] = a] /\ answer' \in [Worker -> Results]
  BY <1>1, <1>2, <1>3, <1>5
<1>7. request' = [request EXCEPT ![w] = NoRequest] /\ conn' = [conn EXCEPT ![r.conn] = InPool]
      /\ UNCHANGED <<role, tables, policy, script, provisioned>>
  BY DEF Finish
<1>8. /\ QueryTypeOK' /\ ScriptInOrder' /\ ProvisionedAfterRun' /\ request'[w] = NoRequest
      /\ \A v \in Worker \ {w} : RequestInOrder(v)'
  BY <1>1, <1>6, <1>7, NullFacts, OthersUndisturbed
<1>9. RequestInOrder(w)'
  BY <1>8, NullFacts DEF RequestInOrder
<1>11. EntitledRows(a) = EntitledRows(r) /\ (AllKnown(a) <=> AllKnown(r))
  BY <1>4 DEF EntitledRows, Entitled, AllKnown
<1>12. a.rows \subseteq EntitledRows(a)
  BY <1>1, <1>2, <1>4, <1>11
<1>13. ASSUME AllKnown(a), ~a.truncated
       PROVE  a.rows = EntitledRows(a) \/ (a.query.limit # Null /\ Cardinality(a.rows) = a.query.limit)
  <2>1. IsFiniteSet(EntitledRows(r)) /\ Cardinality(EntitledRows(r)) \in Nat
    BY <1>1, EntitledIsFinite
  <2>2. r.rows \in SUBSET EntitledRows(r) /\ rows \in SUBSET EntitledRows(r)
    BY <1>1, <1>2
  <2>3. Cardinality(r.rows) \in Nat /\ Cardinality(rows) \in Nat
    BY <2>1, <2>2, FS_Subset, FS_CardinalityType
  <2>4. /\ Cardinality(r.rows)
               = Smaller(Smaller(Cardinality(EntitledRows(r)), RowLimit(r.query).limit), MaxRows + 1)
        /\ ~(Cardinality(r.rows) > MaxRows)
        /\ ~(RowLimit(r.query).applied /\ Cardinality(rows) = MaxRows)
    BY <1>1, <1>4, <1>11, <1>13 DEF Fetches
  <2>5. \/ Cardinality(rows) = Cardinality(EntitledRows(r))
        \/ r.query.limit # Null /\ Cardinality(rows) = r.query.limit
    BY <1>1, <1>2, <2>1, <2>3, <2>4, NothingHeldBack
  <2>6. Cardinality(rows) = Cardinality(EntitledRows(r)) => rows = EntitledRows(r)
    BY <2>1, <2>2, FS_Subset
  <2> QED
    BY <1>4, <1>11, <2>5, <2>6
<1> HIDE DEF r
<1>14. AnswersScoped' /\ AnswersComplete'
  BY <1>5, <1>6, <1>7, <1>12, <1>13, OneAnswerReplaced
<1> QED
  BY <1>8, <1>9, <1>14 DEF QueryInv
-----------------------------------------------------------------------------
(* Every step of the service and of the script keeps the invariant: what   *)
(* execute_query and enable_company_rls rely on holds between any two of   *)
(* their statements.                                                       *)
THEOREM QueryInvariant == QuerySpec => []QueryInv
<1>1. QueryInv /\ [QueryNext]_queryVars => QueryInv'
  <2> SUFFICES ASSUME QueryInv, [QueryNext]_queryVars PROVE QueryInv'
    OBVIOUS
  <2>1. ASSUME NEW w \in Worker, NEW c \in Connection, NEW company \in Company \cup {Null},
               NEW q \in Query, Checkout(w, c, company, q)
        PROVE  QueryInv'
    BY <2>1, CheckoutPreserves
  <2>2. ASSUME NEW w \in Worker, SetCompany(w) PROVE QueryInv'
    BY <2>2, SetCompanyPreserves
  <2>3. ASSUME NEW w \in Worker, Execute(w) PROVE QueryInv'
    BY <2>3, ExecutePreserves
  <2>4. ASSUME NEW w \in Worker, Finish(w) PROVE QueryInv'
    BY <2>4, FinishPreserves
  <2>5. ASSUME NEW w \in Worker, FailQuery(w) PROVE QueryInv'
    BY <2>5, FailQueryPreserves
  <2>6. ASSUME NEW job \in Jobs, StartScript(job) PROVE QueryInv'
    BY <2>6, StartScriptPreserves
  <2>7. ASSUME NEW t \in Table, NextStatement(t) PROVE QueryInv'
    BY <2>7, NextStatementPreserves
  <2>8. CASE FailScript
    BY <2>8, FailScriptPreserves
  <2>9. ASSUME NEW t \in Table, CreateTable(t) PROVE QueryInv'
    BY <2>9, CreateTablePreserves
  <2>10. CASE UNCHANGED queryVars
    <3>1. QueryTypeOK' /\ ScriptInOrder' /\ ProvisionedAfterRun'
      BY <2>10 DEF QueryInv, queryVars, QueryTypeOK, ScriptInOrder, ProvisionedAfterRun
    <3> QED
      BY <2>10, <3>1, ScriptLeavesRequests DEF QueryInv, queryVars
  <2> QED
    BY <2>1, <2>2, <2>3, <2>4, <2>5, <2>6, <2>7, <2>8, <2>9, <2>10 DEF QueryNext
<1> QED
  BY <1>1, InitiallyOK, PTL DEF QuerySpec

(* Types, and that no two statements share a connection. *)
THEOREM QueryTypes == QuerySpec => []QueryTypeOK
<1>1. QueryInv => QueryTypeOK
  BY DEF QueryInv
<1> QED
  BY <1>1, QueryInvariant, PTL

(* The company scope: from the moment --enable has done a table until a    *)
(* run of the script comes to it again, a request that names a company is  *)
(* shown no row of another in it, for any number of companies, tables,     *)
(* workers and pooled connections, while other tables change and appear.   *)
THEOREM QueryAnswersScoped == QuerySpec => []AnswersScoped
<1>1. QueryInv => AnswersScoped
  BY DEF QueryInv
<1> QED
  BY <1>1, QueryInvariant, PTL

(* A result not marked as truncated is complete, whatever the row limit,   *)
(* the limit of the query and the order in which rows are fetched.         *)
THEOREM QueryAnswersComplete == QuerySpec => []AnswersComplete
<1>1. QueryInv => AnswersComplete
  BY DEF QueryInv
<1> QED
  BY <1>1, QueryInvariant, PTL

(* Every table that a run of enable_company_rls has done is as the run     *)
(* promises, after any number of runs that failed at any statement.        *)
THEOREM QueryProvisioned == QuerySpec => []ProvisionedAfterRun
<1>1. QueryInv => ProvisionedAfterRun
  BY DEF QueryInv
<1> QED
  BY <1>1, QueryInvariant, PTL

(* No statement of the script meets a policy it is about to create. *)
THEOREM QueryStatementsApply == QuerySpec => []StatementsApply
<1>1. QueryInv => StatementsApply
  <2> SUFFICES ASSUME QueryInv, script.table # Null
               PROVE  ~Refused(policy[script.table], StatementsOf(script.job)[script.next])
    BY DEF StatementsApply
  <2>1. script.job \in Jobs /\ TableInOrder(policy[script.table], script.job, script.next)
    BY NullFacts DEF QueryInv, ScriptInOrder, QueryTypeOK
  <2>2. CASE script.job = "enable"
    BY <2>1, <2>2, StatementFacts DEF TableInOrder, Refused
  <2>3. CASE script.job = "disable"
    BY <2>1, <2>3, StatementFacts DEF TableInOrder, Refused
  <2> QED
    BY <2>1, <2>2, <2>3 DEF Jobs
<1> QED
  BY <1>1, QueryInvariant, PTL
=============================================================================
