--------------------------- MODULE LogStore_proof ---------------------------
(***************************************************************************)
(* Proofs about the logs of a window: its log store, for logs, pages, lanes*)
(* and channels of every size; and the viewport that shows them, for views,*)
(* logs and histories of every length.                                     *)
(***************************************************************************)
EXTENDS MCLogs, FiniteSetTheorems, SequenceTheorems, WellFoundedInduction,
        TLAPS

-----------------------------------------------------------------------------
(* The greatest and the least of some numbers.                             *)

LEMMA MaxOfTwo ==
  ASSUME NEW a \in Int, NEW b \in Int
  PROVE  Max({a, b}) = IF a >= b THEN a ELSE b
<1> DEFINE m == IF a >= b THEN a ELSE b
<1>1. m \in {a, b} /\ \A y \in {a, b} : m >= y
  OBVIOUS
<1>2. \A x \in {a, b} : (\A y \in {a, b} : x >= y) => x = m
  OBVIOUS
<1> HIDE DEF m
<1>3. Max({a, b}) = m
  BY <1>1, <1>2 DEF Max
<1>4. QED
  BY <1>3 DEF m

LEMMA MinOfTwo ==
  ASSUME NEW a \in Int, NEW b \in Int
  PROVE  Min({a, b}) = IF a <= b THEN a ELSE b
<1> DEFINE m == IF a <= b THEN a ELSE b
<1>1. m \in {a, b} /\ \A y \in {a, b} : m <= y
  OBVIOUS
<1>2. \A x \in {a, b} : (\A y \in {a, b} : x <= y) => x = m
  OBVIOUS
<1> HIDE DEF m
<1>3. Min({a, b}) = m
  BY <1>1, <1>2 DEF Min
<1>4. QED
  BY <1>3 DEF m

LEMMA MaxIsIn ==
  ASSUME NEW n \in Nat, NEW S \in SUBSET (0..n), S # {}
  PROVE  Max(S) \in S
<1> DEFINE below == {k \in Nat : \A x \in S : x <= k}
<1>1. below \subseteq Nat /\ below # {}
  OBVIOUS
<1>2. PICK m \in below : \A k \in below : <<k, m>> \notin OpToRel(<, Nat)
  <2> HIDE DEF below
  <2>1. QED
    BY <1>1, NatLessThanWellFounded, WFMin
<1>3. \A k \in below : ~(k < m)
  BY <1>2 DEF OpToRel
<1>4. m \in S
  <2>1. ASSUME m \notin S PROVE FALSE
    <3>1. \A x \in S : x \in Int /\ 0 <= x /\ x <= m /\ x # m /\ m \in Int
      BY <2>1
    <3>2. \A x \in S : x <= m - 1
      BY <3>1
    <3>3. m - 1 \in Nat
      <4>1. PICK x \in S : TRUE
        OBVIOUS
      <4>2. QED
        BY <4>1, <3>1, <3>2
    <3>4. m - 1 \in below
      BY <3>2, <3>3
    <3>5. QED
      BY <3>1, <3>3, <3>4, <1>3
  <2>2. QED
    BY <2>1
<1>5. \A x \in S : m >= x
  BY <1>2
<1>6. Max(S) \in S
  BY <1>4, <1>5 DEF Max
<1>7. QED
  BY <1>6

-----------------------------------------------------------------------------
(* The rows found: increasing, and exactly those that match.               *)

Increasing(s) == \A i, j \in DOMAIN s : i < j => s[i] < s[j]

(* How many of the found there are up to one of them.                      *)
Rank(found, i) == Cardinality({j \in found : j <= i})

LEMMA Ranks ==
  ASSUME NEW found \in SUBSET Int, IsFiniteSet(found)
  PROVE  /\ Cardinality(found) \in Nat
         /\ \A i \in found : Rank(found, i) \in 1..Cardinality(found)
         /\ \A i, j \in found : i < j <=> Rank(found, i) < Rank(found, j)
         /\ \A k \in 1..Cardinality(found) : \E i \in found : Rank(found, i) = k
<1>0. \A i \in found : i \in Int
  OBVIOUS
<1>1. IsFiniteSet(found) /\ Cardinality(found) \in Nat
  BY FS_CardinalityType
<1>2. \A i : /\ IsFiniteSet({j \in found : j <= i})
             /\ Rank(found, i) \in Nat /\ Rank(found, i) <= Cardinality(found)
  <2> SUFFICES ASSUME NEW i
               PROVE  /\ IsFiniteSet({j \in found : j <= i})
                      /\ Rank(found, i) \in Nat
                      /\ Rank(found, i) <= Cardinality(found)
    OBVIOUS
  <2> DEFINE below == {j \in found : j <= i}
  <2>1. below \in SUBSET found /\ Rank(found, i) = Cardinality(below)
    BY DEF Rank
  <2> HIDE DEF below
  <2>2. IsFiniteSet(below) /\ Cardinality(below) <= Cardinality(found)
    BY <2>1, <1>1, FS_Subset
  <2>3. Cardinality(below) \in Nat
    BY <2>2, FS_CardinalityType
  <2>4. QED
    BY <2>1, <2>2, <2>3 DEF below
<1>3. \A i \in found : Rank(found, i) \in 1..Cardinality(found)
  <2> SUFFICES ASSUME NEW i \in found
               PROVE  Rank(found, i) # 0
    <3>1. \A i \in found : Rank(found, i) \in Nat
                           /\ Rank(found, i) <= Cardinality(found)
      BY <1>2
    <3>2. QED
      BY <3>1, <1>1
  <2>1. i \in {j \in found : j <= i}
    BY <1>0
  <2>2. IsFiniteSet({j \in found : j <= i})
    BY <1>2
  <2>3. Cardinality({j \in found : j <= i}) # 0
    BY <2>1, <2>2, FS_EmptySet
  <2>4. QED
    BY <2>3 DEF Rank
<1>4. ASSUME NEW i \in found, NEW k \in found, i < k
      PROVE  Rank(found, i) < Rank(found, k)
  <2> DEFINE small == {j \in found : j <= i}
             large == {j \in found : j <= k}
  <2>1. \A j \in small : j \in large
    BY <1>0, <1>4
  <2>2. k \notin small /\ k \in large
    BY <1>0, <1>4
  <2>3. /\ IsFiniteSet(large)
        /\ Rank(found, i) = Cardinality(small) /\ Rank(found, k) = Cardinality(large)
    BY <1>2 DEF Rank
  <2> HIDE DEF small, large
  <2>4. small \in SUBSET large
    BY <2>1
  <2>5. /\ Cardinality(small) <= Cardinality(large)
        /\ Cardinality(small) = Cardinality(large) => small = large
    BY <2>3, <2>4, FS_Subset
  <2>6. Rank(found, i) <= Rank(found, k) /\ Rank(found, i) # Rank(found, k)
    BY <2>2, <2>3, <2>5
  <2>7. Rank(found, i) \in Nat /\ Rank(found, k) \in Nat
    BY <1>2
  <2>8. QED
    BY <2>6, <2>7
<1>5. \A i, j \in found : i < j <=> Rank(found, i) < Rank(found, j)
  <2> SUFFICES ASSUME NEW i \in found, NEW j \in found
               PROVE  i < j <=> Rank(found, i) < Rank(found, j)
    OBVIOUS
  <2>1. i \in Int /\ j \in Int
    BY <1>0
  <2>2. Rank(found, i) \in Nat /\ Rank(found, j) \in Nat
    BY <1>2
  <2>3. (i < j => Rank(found, i) < Rank(found, j))
        /\ (j < i => Rank(found, j) < Rank(found, i))
    BY <1>4
  <2>4. CASE i = j
    BY <2>1, <2>2, <2>4
  <2>5. CASE i # j
    BY <2>1, <2>5, <2>2, <2>3
  <2>6. QED
    BY <2>4, <2>5
<1>6. \A k \in 1..Cardinality(found) : \E i \in found : Rank(found, i) = k
  <2> DEFINE f == [i \in found |-> Rank(found, i)]
             T == 1..Cardinality(found)
  <2>1. f \in [found -> T]
    BY <1>3
  <2>2. \A i, j \in found : f[i] = f[j] => i = j
    <3> SUFFICES ASSUME NEW i \in found, NEW j \in found, f[i] = f[j]
                 PROVE  i = j
      OBVIOUS
    <3>1. Rank(found, i) = Rank(found, j)
      OBVIOUS
    <3>2. Rank(found, i) \in Nat /\ i \in Int /\ j \in Int
      BY <1>0, <1>2
    <3>3. ~(i < j) /\ ~(j < i)
      BY <3>1, <3>2, <1>5
    <3>4. QED
      BY <3>2, <3>3
  <2>3. IsFiniteSet(T) /\ Cardinality(T) = Cardinality(found)
    BY <1>1, FS_Interval
  <2>4. \A k \in T : \E i \in found : f[i] = k
    <3> HIDE DEF f, T
    <3>1. f \in Injection(found, T)
      BY <2>1, <2>2 DEF Injection, IsInjective
    <3>2. f \in Surjection(found, T)
      BY <3>1, <2>3, <1>1, FS_Injection
    <3>3. QED
      BY <3>2 DEF Surjection
  <2>5. QED
    BY <2>4
<1>7. QED
  BY <1>1, <1>3, <1>5, <1>6

FoundIn(rows, query, from) ==
  {i \in from + 1..Len(rows) : rows[i] \in Matches(query)}

LEMMA HitsAre ==
  ASSUME NEW rows, Len(rows) \in Nat, NEW query, NEW from \in Nat
  PROVE  LET found == FoundIn(rows, query, from)
             hits  == Hits(rows, query, from)
         IN  /\ DOMAIN hits = 1..Len(hits)
             /\ hits \in Seq(Nat \ {0})
             /\ Len(hits) = Cardinality(found)
             /\ Increasing(hits)
             /\ \A i : i \in found <=> \E k \in DOMAIN hits : hits[k] = i
             /\ \A k \in DOMAIN hits : hits[k] \in found /\ Rank(found, hits[k]) = k
<1> DEFINE found == FoundIn(rows, query, from)
           hits  == Hits(rows, query, from)
<1>1. found \in SUBSET (1..Len(rows))
  BY DEF FoundIn
<1>2. hits = [n \in 1..Cardinality(found) |->
                CHOOSE i \in found : Rank(found, i) = n]
  BY DEF Hits, Rank, FoundIn
<1> HIDE DEF found, hits
<1>3. /\ IsFiniteSet(found) /\ Cardinality(found) \in Nat
      /\ \A i \in found : Rank(found, i) \in 1..Cardinality(found)
      /\ \A i, j \in found : i < j <=> Rank(found, i) < Rank(found, j)
      /\ \A k \in 1..Cardinality(found) : \E i \in found : Rank(found, i) = k
  <2>1. IsFiniteSet(1..Len(rows))
    BY FS_Interval
  <2>2. IsFiniteSet(found)
    BY <1>1, <2>1, FS_Subset
  <2>3. found \in SUBSET Int
    BY <1>1
  <2>4. QED
    BY <2>2, <2>3, Ranks
<1>4. DOMAIN hits = 1..Cardinality(found)
  BY <1>2
<1>0. \A i \in found : i \in Nat \ {0}
  BY <1>1
<1>5. \A k \in DOMAIN hits : hits[k] \in found /\ Rank(found, hits[k]) = k
  BY <1>2, <1>3
<1>6. hits \in Seq(Nat \ {0}) /\ Len(hits) = Cardinality(found)
  BY <1>0, <1>4, <1>5, <1>2, <1>3, IsASeq, LenProperties
<1>7. Increasing(hits)
  <2> SUFFICES ASSUME NEW i \in DOMAIN hits, NEW j \in DOMAIN hits, i < j
               PROVE  hits[i] < hits[j]
    BY DEF Increasing
  <2>1. hits[i] \in found /\ hits[j] \in found
    BY <1>5
  <2>2. Rank(found, hits[i]) < Rank(found, hits[j])
    BY <1>5
  <2>3. QED
    BY <2>1, <2>2, <1>3
<1>8. \A i : i \in found <=> \E k \in DOMAIN hits : hits[k] = i
  <2> SUFFICES ASSUME NEW i \in found
               PROVE  \E k \in DOMAIN hits : hits[k] = i
    BY <1>5
  <2>1. Rank(found, i) \in DOMAIN hits
    BY <1>3, <1>4
  <2>2. PICK k \in DOMAIN hits : k = Rank(found, i)
    BY <2>1
  <2>3. hits[k] \in found /\ Rank(found, hits[k]) = Rank(found, i)
    BY <2>2, <1>5
  <2>4. ~(hits[k] < i) /\ ~(i < hits[k])
    BY <2>3, <1>3, <1>4
  <2>5. hits[k] = i
    BY <2>3, <1>0, <2>4
  <2>6. QED
    BY <2>5
<1>9. DOMAIN hits = 1..Len(hits)
  BY <1>4, <1>6
<1>10. QED
  BY <1>5, <1>6, <1>7, <1>8, <1>9 DEF found, hits

(* They are the only such sequence.                                        *)
LEMMA HitsUnique ==
  ASSUME NEW rows, Len(rows) \in Nat, NEW query, NEW from \in Nat,
         NEW s \in Seq(Nat \ {0}), Increasing(s),
         \A i : i \in from + 1..Len(rows) /\ rows[i] \in Matches(query)
                  <=> \E k \in DOMAIN s : s[k] = i
  PROVE  s = Hits(rows, query, from)
<1> DEFINE found == FoundIn(rows, query, from)
           hits  == Hits(rows, query, from)
<1>1. /\ found \in SUBSET (1..Len(rows))
      /\ \A i : i \in found <=> \E k \in DOMAIN s : s[k] = i
  BY DEF FoundIn
<1>2. /\ hits \in Seq(Nat \ {0}) /\ Len(hits) = Cardinality(found)
      /\ \A k \in DOMAIN hits : hits[k] \in found /\ Rank(found, hits[k]) = k
  BY HitsAre
<1> HIDE DEF found, hits
<1>3. /\ DOMAIN s = 1..Len(s) /\ Len(s) \in Nat /\ \A k \in DOMAIN s : s[k] \in found
      /\ \A i, j \in DOMAIN s : s[i] \in Int /\ s[i] = s[j] => i = j
  <2>1. DOMAIN s = 1..Len(s) /\ Len(s) \in Nat /\ \A k \in DOMAIN s : s[k] \in Nat
    BY LenProperties, ElementOfSeq
  <2>2. \A i, j \in DOMAIN s : s[i] = s[j] => i = j
    <3> SUFFICES ASSUME NEW i \in DOMAIN s, NEW j \in DOMAIN s, s[i] = s[j]
                 PROVE  i = j
      OBVIOUS
    <3>1. ~(i < j) /\ ~(j < i)
      BY <2>1 DEF Increasing
    <3>2. QED
      BY <3>1, <2>1
  <2>3. QED
    BY <2>1, <2>2, <1>1
<1>4. \A n \in 0..Len(s) : Cardinality({s[k] : k \in 1..n}) = n
  <2> SUFFICES ASSUME NEW n \in 0..Len(s)
               PROVE  Cardinality({s[k] : k \in 1..n}) = n
    OBVIOUS
  <2> DEFINE f == [k \in 1..n |-> s[k]]
             T == {s[k] : k \in 1..n}
  <2>1. f \in [1..n -> T] /\ \A t \in T : \E k \in 1..n : f[k] = t
    OBVIOUS
  <2>2. \A i, j \in 1..n : f[i] = f[j] => i = j
    <3> SUFFICES ASSUME NEW i \in 1..n, NEW j \in 1..n, f[i] = f[j]
                 PROVE  i = j
      OBVIOUS
    <3>1. i \in DOMAIN s /\ j \in DOMAIN s
      BY <1>3
    <3>2. s[i] = s[j]
      OBVIOUS
    <3>3. QED
      BY <1>3, <3>1, <3>2
  <2>3. IsFiniteSet(1..n) /\ Cardinality(1..n) = n
    BY <1>3, FS_Interval
  <2> HIDE DEF f, T
  <2>4. f \in Bijection(1..n, T)
    BY <2>1, <2>2 DEF Bijection, Injection, Surjection, IsInjective
  <2>5. Cardinality(T) = n
    BY <2>3, <2>4, FS_Bijection DEF ExistsBijection
  <2>6. QED
    BY <2>5 DEF T
<1>5. Len(s) = Cardinality(found)
  <2>1. found = {s[k] : k \in 1..Len(s)}
    BY <1>1, <1>3
  <2>2. Len(s) \in 0..Len(s)
    BY <1>3
  <2>3. QED
    BY <2>1, <2>2, <1>4
<1>6. \A n \in DOMAIN s : Rank(found, s[n]) = n
  <2> SUFFICES ASSUME NEW n \in DOMAIN s
               PROVE  Rank(found, s[n]) = n
    OBVIOUS
  <2>1. \A k \in DOMAIN s : s[k] <= s[n] <=> k <= n
    <3> SUFFICES ASSUME NEW k \in DOMAIN s
                 PROVE  s[k] <= s[n] <=> k <= n
      OBVIOUS
    <3>1. s[k] \in Int /\ s[n] \in Int /\ k \in Int /\ n \in Int
      BY <1>3
    <3>2. (k < n => s[k] < s[n]) /\ (n < k => s[n] < s[k])
      BY DEF Increasing
    <3>3. QED
      BY <3>1, <3>2
  <2>2. \A i : i \in found /\ i <= s[n] <=> \E k \in 1..n : s[k] = i
    BY <2>1, <1>1, <1>3
  <2>3. {j \in found : j <= s[n]} = {s[k] : k \in 1..n}
    BY <2>2
  <2>4. n \in 0..Len(s)
    BY <1>3
  <2>5. QED
    BY <2>3, <2>4, <1>4 DEF Rank
<1>7. \A n \in 1..Len(s) : s[n] = hits[n]
  <2> SUFFICES ASSUME NEW n \in 1..Len(s)
               PROVE  s[n] = hits[n]
    OBVIOUS
  <2>1. n \in DOMAIN hits
    BY <1>2, <1>5, LenProperties
  <2>2. s[n] \in found /\ hits[n] \in found /\ Rank(found, s[n]) = Rank(found, hits[n])
    BY <2>1, <1>2, <1>3, <1>6
  <2>3. ~(s[n] < hits[n]) /\ ~(hits[n] < s[n])
    <3>1. \A i, j \in found : /\ i < j <=> Rank(found, i) < Rank(found, j)
                              /\ Rank(found, i) \in Int
      <4>1. PICK size : size = Len(rows) /\ size \in Nat
        OBVIOUS
      <4>2. found \in SUBSET (1..size)
        BY <4>1, <1>1
      <4>3. /\ Cardinality(found) \in Nat
            /\ \A i \in found : Rank(found, i) \in 1..Cardinality(found)
            /\ \A i, j \in found : i < j <=> Rank(found, i) < Rank(found, j)
        <5>1. IsFiniteSet(1..size)
          BY <4>1, FS_Interval
        <5>2. IsFiniteSet(found)
          BY <4>2, <5>1, FS_Subset
        <5>3. found \in SUBSET Int
          BY <4>1, <4>2
        <5>4. QED
          BY <5>2, <5>3, Ranks
      <4>4. QED
        BY <4>3
    <3>2. QED
      BY <3>1, <2>2
  <2>4. QED
    BY <2>2, <2>3, <1>1
<1>8. s = hits
  BY <1>2, <1>5, <1>7, SeqEqual
<1>9. QED
  BY <1>8 DEF hits

-----------------------------------------------------------------------------
(* Queues, and the rows that are kept.                                     *)

LEMMA Queued ==
  ASSUME NEW S, NEW s \in Seq(S), NEW e \in S
  PROVE  /\ Append(s, e) \in Seq(S)
         /\ Len(s) \in Nat /\ DOMAIN s = 1..Len(s)
         /\ \A i \in DOMAIN s : s[i] \in S
         /\ Len(Append(s, e)) = Len(s) + 1
         /\ DOMAIN Append(s, e) = 1..Len(s) + 1
         /\ \A i \in DOMAIN s : Append(s, e)[i] = s[i]
         /\ Append(s, e)[Len(s) + 1] = e
  OBVIOUS

LEMMA Dequeued ==
  ASSUME NEW S, NEW s \in Seq(S), s # <<>>
  PROVE  /\ Len(s) \in Nat /\ 1 <= Len(s) /\ DOMAIN s = 1..Len(s)
         /\ \A i \in DOMAIN s : s[i] \in S
         /\ Head(s) \in S /\ Head(s) = s[1]
         /\ Tail(s) \in Seq(S)
         /\ Len(Tail(s)) = Len(s) - 1
         /\ DOMAIN Tail(s) = 1..Len(s) - 1
         /\ \A i \in DOMAIN Tail(s) : i + 1 \in DOMAIN s /\ Tail(s)[i] = s[i + 1]
<1>1. Len(s) \in Nat /\ DOMAIN s = 1..Len(s) /\ 1 <= Len(s)
  OBVIOUS
<1>2. \A i \in DOMAIN s : s[i] \in S
  OBVIOUS
<1>3. Head(s) \in S /\ Head(s) = s[1] /\ Tail(s) \in Seq(S)
  BY HeadTailProperties
<1>4. /\ Len(Tail(s)) = Len(s) - 1
      /\ DOMAIN Tail(s) = 1..Len(s) - 1
      /\ \A i \in DOMAIN Tail(s) : i + 1 \in DOMAIN s /\ Tail(s)[i] = s[i + 1]
  OBVIOUS
<1>5. QED
  BY <1>1, <1>2, <1>3, <1>4

LEMMA Joined ==
  ASSUME NEW S, NEW s \in Seq(S), NEW t \in Seq(S)
  PROVE  /\ s \o t \in Seq(S)
         /\ Len(s) \in Nat /\ Len(t) \in Nat
         /\ Len(s \o t) = Len(s) + Len(t)
         /\ DOMAIN s = 1..Len(s) /\ DOMAIN t = 1..Len(t)
         /\ DOMAIN (s \o t) = 1..Len(s) + Len(t)
         /\ \A i \in DOMAIN s : (s \o t)[i] = s[i]
         /\ \A i \in DOMAIN t : (s \o t)[Len(s) + i] = t[i]
  OBVIOUS

(* No more than the limit, and each as it was.                             *)
LEMMA NewestFits ==
  ASSUME NEW rows, DOMAIN rows \subseteq Nat, IsFiniteSet(DOMAIN rows)
  PROVE  /\ DOMAIN Newest(rows) \subseteq DOMAIN rows
         /\ IsFiniteSet(DOMAIN Newest(rows))
         /\ Cardinality(DOMAIN Newest(rows)) <= LiveLimit
         /\ Newest(rows) = [i \in DOMAIN Newest(rows) |-> rows[i]]
<1> DEFINE above(i) == {j \in DOMAIN rows : j > i}
           kept == {i \in DOMAIN rows : Cardinality(above(i)) < LiveLimit}
<1>1. Newest(rows) = [i \in kept |-> rows[i]] /\ DOMAIN Newest(rows) = kept
  BY DEF Newest
<1>2. kept \subseteq DOMAIN rows /\ kept \subseteq Nat
  OBVIOUS
<1>3. IsFiniteSet(kept)
  <2> HIDE DEF kept
  <2>1. QED
    BY <1>2, FS_Subset
<1>4. Cardinality(kept) <= LiveLimit
  <2>1. CASE kept = {}
    <3> HIDE DEF kept
    <3>1. Cardinality(kept) = 0 /\ LiveLimit \in Nat
      BY <2>1, FS_EmptySet, LogStoreAssumption
    <3>2. QED
      BY <3>1
  <2>2. CASE kept # {}
    <3>1. PICK m \in kept : \A k \in kept : <<k, m>> \notin OpToRel(<, Nat)
      <4> HIDE DEF kept
      <4>1. QED
        BY <1>2, <2>2, NatLessThanWellFounded, WFMin
    <3>2. \A k \in kept : k = m \/ k > m
      <4> HIDE DEF kept
      <4>1. \A k \in kept : k \in Nat /\ m \in Nat /\ ~(k < m)
        BY <3>1, <1>2 DEF OpToRel
      <4>2. QED
        BY <4>1
    <3> DEFINE up == above(m)
    <3>3. kept \subseteq up \cup {m}
      BY <3>2
    <3>4. up \subseteq DOMAIN rows /\ Cardinality(up) < LiveLimit /\ m \notin up
      BY <1>2
    <3> HIDE DEF up, kept
    <3>5. IsFiniteSet(up) /\ Cardinality(up) \in Nat
      BY <3>4, FS_Subset, FS_CardinalityType
    <3>6. IsFiniteSet(up \cup {m}) /\ Cardinality(up \cup {m}) = Cardinality(up) + 1
      BY <3>4, <3>5, FS_AddElement
    <3>7. Cardinality(kept) <= Cardinality(up \cup {m}) /\ Cardinality(kept) \in Nat
      BY <3>3, <3>6, <1>3, FS_Subset, FS_CardinalityType
    <3>8. QED
      BY <3>4, <3>5, <3>6, <3>7, LogStoreAssumption
  <2>3. QED
    BY <2>1, <2>2
<1> HIDE DEF kept
<1>5. QED
  BY <1>1, <1>2, <1>3, <1>4

LEMMA WithOne ==
  ASSUME NEW rows, NEW i, NEW record
  PROVE  /\ DOMAIN With(rows, i, record) = DOMAIN rows \cup {i}
         /\ With(rows, i, record)[i] = record
         /\ \A j \in DOMAIN rows : j # i => With(rows, i, record)[j] = rows[j]
  BY DEF With

-----------------------------------------------------------------------------
(* The rows of the store.                                                  *)

StoreOK(s) == s \in Store /\ s.overlap <= Len(s.live)

LEMMA OverlapFits ==
  ASSUME NEW history \in Seq(Records), NEW live \in Seq(Records)
  PROVE  /\ Overlap(history, live) \in 0..Len(live)
         /\ Overlap(history, live) <= Len(history)
<1> DEFINE fits == {n \in 0..Len(live) :
                      n <= Len(history)
                      /\ SubSeq(history, Len(history) - n + 1, Len(history))
                           = SubSeq(live, 1, n)}
<1>1. Len(live) \in Nat /\ Len(history) \in Nat
  OBVIOUS
<1>2. fits \in SUBSET (0..Len(live)) /\ \A n \in fits : n <= Len(history)
  OBVIOUS
<1>3. 0 \in fits
  BY <1>1, SubSeqEmpty
<1>4. Overlap(history, live) = Max(fits)
  BY DEF Overlap
<1> HIDE DEF fits
<1>5. PICK n \in Nat : n = Len(live)
  BY <1>1
<1>6. fits \in SUBSET (0..n) /\ fits # {}
  BY <1>2, <1>3, <1>5
<1>7. Max(fits) \in fits
  BY <1>6, MaxIsIn
<1>8. QED
  BY <1>2, <1>4, <1>7

LEMMA LengthsAdd ==
  \A set : \A a, b \in Seq(set) : Len(a \o b) = Len(a) + Len(b)
OBVIOUS

LEMMA LiveFrom ==
  ASSUME NEW live \in Seq(Records), NEW n \in Nat, n <= Len(live)
  PROVE  /\ SubSeq(live, n + 1, Len(live)) \in Seq(Records)
         /\ Len(SubSeq(live, n + 1, Len(live))) = Len(live) - n
         /\ \A i \in 1..Len(live) - n :
              SubSeq(live, n + 1, Len(live))[i] = live[n + i]
<1>1. Len(live) \in Nat /\ DOMAIN live = 1..Len(live)
  OBVIOUS
<1>2. \A i \in n + 1..Len(live) : live[i] \in Records
  BY <1>1
<1>3. SubSeq(live, n + 1, Len(live)) \in Seq(Records)
  BY <1>1, <1>2, SubSeqProperties
<1>4. Len(SubSeq(live, n + 1, Len(live))) = Len(live) - n
  <2> DEFINE rest == SubSeq(live, n + 1, Len(live))
             size == Len(live)
  <2>1. Len(rest) = IF n + 1 <= size THEN size - (n + 1) + 1 ELSE 0
    BY <1>1, <1>2, SubSeqProperties
  <2>2. size \in Nat /\ n <= size
    BY <1>1
  <2> HIDE DEF rest, size
  <2>3. Len(rest) = size - n
    BY <2>1, <2>2
  <2>4. QED
    BY <2>3 DEF rest, size
<1>5. \A i \in 1..Len(live) - n : SubSeq(live, n + 1, Len(live))[i] = live[n + i]
  BY <1>1, <1>2, SubSeqProperties
<1>6. QED
  BY <1>3, <1>4, <1>5

LEMMA RowsTyped ==
  ASSUME NEW s, StoreOK(s)
  PROVE  /\ Rows(s) \in Seq(Records)
         /\ Len(Rows(s)) \in Nat
         /\ DOMAIN Rows(s) = 1..Len(Rows(s))
         /\ \A i \in 1..Len(Rows(s)) : Rows(s)[i] \in Records
<1>1. /\ s.live \in Seq(Records) /\ s.history \in Seq(Records)
      /\ s.overlap \in Nat /\ s.overlap <= Len(s.live)
  BY DEF StoreOK, Store
<1>2. SubSeq(s.live, s.overlap + 1, Len(s.live)) \in Seq(Records)
  BY <1>1, LiveFrom
<1>3. s.history \o SubSeq(s.live, s.overlap + 1, Len(s.live)) \in Seq(Records)
  BY <1>1, <1>2, Joined
<1>4. Rows(s) \in Seq(Records)
  BY <1>1, <1>3 DEF Rows
<1>5. QED
  BY <1>4

(* A rebase drops no row: what history and the live rows share is at most  *)
(* all of the history.                                                     *)
LEMMA RowsRebased ==
  ASSUME NEW s, StoreOK(s), ~s.rebased,
         NEW t, t = [s EXCEPT !.rebased = TRUE,
                              !.overlap = Overlap(s.history, s.live),
                              !.search = NoSearch]
  PROVE  Len(Rows(s)) <= Len(Rows(t))
<1>1. s.live \in Seq(Records) /\ s.history \in Seq(Records) /\ s \in Store
  BY DEF StoreOK, Store
<1>2. PICK live, history, n : /\ live = s.live /\ history = s.history
                              /\ n = Overlap(history, live)
  OBVIOUS
<1>3. /\ live \in Seq(Records) /\ history \in Seq(Records)
      /\ n \in 0..Len(live) /\ n <= Len(history)
  BY <1>1, <1>2, OverlapFits
<1>4. PICK rest : rest = SubSeq(live, n + 1, Len(live))
  OBVIOUS
<1>5. n \in Nat /\ n <= Len(live) /\ Len(live) \in Nat /\ Len(history) \in Nat
  BY <1>3
<1>6. rest \in Seq(Records) /\ Len(rest) = Len(live) - n
  BY <1>3, <1>4, <1>5, LiveFrom
<1>7. Len(history \o rest) = Len(history) + Len(rest)
  BY ONLY <1>3, <1>6, LengthsAdd
<1>8. t.rebased /\ t.history = history /\ t.live = live /\ t.overlap = n
  BY <1>1, <1>2 DEF Store
<1>9. Rows(s) = live /\ Rows(t) = history \o rest
  BY <1>2, <1>4, <1>8 DEF Rows
<1>10. QED
  BY <1>3, <1>5, <1>6, <1>7, <1>9

(* A row more, and a match more when a completed search finds it.          *)
LEMMA RowAppended ==
  ASSUME NEW s, StoreOK(s), NEW record \in Records,
         NEW t, t = Appended(s, record)
  PROVE  /\ StoreOK(t)
         /\ t.rebased = s.rebased /\ t.history = s.history
         /\ Rows(t) = Append(Rows(s), record)
         /\ Last(t.live) = record
         /\ IF s.search.complete /\ record \in Matches(s.search.query)
            THEN t.search = [s.search EXCEPT !.hits = Append(@, Len(Rows(s)) + 1)]
            ELSE t.search = s.search
<1> DEFINE longer == [s EXCEPT !.live = Append(@, record)]
<1>1. /\ s.live \in Seq(Records) /\ s.history \in Seq(Records)
      /\ s.overlap \in Nat /\ s.overlap <= Len(s.live) /\ s \in Store
  BY DEF StoreOK, Store
<1>2. /\ Append(s.live, record) \in Seq(Records)
      /\ Len(Append(s.live, record)) = Len(s.live) + 1
      /\ Len(s.live) \in Nat
      /\ DOMAIN s.live = 1..Len(s.live)
      /\ \A i \in DOMAIN s.live : Append(s.live, record)[i] = s.live[i]
      /\ Append(s.live, record)[Len(s.live) + 1] = record
  BY <1>1, Queued
<1>3. /\ longer \in Store
      /\ longer.live = Append(s.live, record) /\ longer.history = s.history
      /\ longer.rebased = s.rebased /\ longer.overlap = s.overlap
      /\ longer.search = s.search
  BY <1>1, <1>2 DEF Store
<1> HIDE DEF longer
<1>4. StoreOK(longer)
  BY <1>1, <1>2, <1>3 DEF StoreOK
<1>5. Rows(longer) = Append(Rows(s), record)
  <2>1. CASE ~s.rebased
    BY <2>1, <1>3 DEF Rows
  <2>2. CASE s.rebased
    <3> DEFINE old == SubSeq(s.live, s.overlap + 1, Len(s.live))
               new == SubSeq(longer.live, s.overlap + 1, Len(longer.live))
    <3>1. /\ old \in Seq(Records) /\ Len(old) = Len(s.live) - s.overlap
          /\ \A i \in 1..Len(s.live) - s.overlap : old[i] = s.live[s.overlap + i]
      BY <1>1, LiveFrom
    <3>2. longer.live \in Seq(Records) /\ s.overlap <= Len(longer.live)
      BY <1>1, <1>2, <1>3
    <3>3. /\ new \in Seq(Records) /\ Len(new) = Len(longer.live) - s.overlap
          /\ \A i \in 1..Len(longer.live) - s.overlap :
               new[i] = longer.live[s.overlap + i]
      BY <1>1, <3>2, LiveFrom
    <3> HIDE DEF old, new
    <3>4. new = Append(old, record)
      <4>1. Append(old, record) \in Seq(Records)
            /\ Len(Append(old, record)) = Len(old) + 1
        BY <3>1, Queued
      <4>2. \A i \in 1..Len(new) : new[i] = Append(old, record)[i]
        <5> SUFFICES ASSUME NEW i \in 1..Len(new)
                     PROVE  new[i] = Append(old, record)[i]
          OBVIOUS
        <5>1. new[i] = Append(s.live, record)[s.overlap + i]
          BY <3>3, <1>3
        <5>2. CASE i = Len(s.live) - s.overlap + 1
          BY <5>1, <5>2, <1>1, <1>2, <3>1, Queued
        <5>3. CASE i # Len(s.live) - s.overlap + 1
          <6>1. i \in 1..Len(s.live) - s.overlap
            BY <5>3, <3>3, <1>1, <1>2, <1>3
          <6>2. new[i] = s.live[s.overlap + i] /\ old[i] = s.live[s.overlap + i]
            BY <6>1, <5>1, <1>1, <1>2, <3>1
          <6>3. Append(old, record)[i] = old[i]
            BY <6>1, <3>1, Queued
          <6>4. QED
            BY <6>2, <6>3
        <5>4. QED
          BY <5>2, <5>3
      <4>3. Len(new) = Len(Append(old, record))
        BY <4>1, <3>1, <3>3, <1>1, <1>2, <1>3
      <4>4. QED
        BY <3>3, <4>1, <4>2, <4>3, SeqEqual
    <3>5. Rows(longer) = s.history \o new /\ Rows(s) = s.history \o old
      BY <2>2, <1>3 DEF Rows, old, new
    <3>6. s.history \o Append(old, record) = Append(s.history \o old, record)
      <4> DEFINE history == s.history
                 one     == <<record>>
      <4>1. history \in Seq(Records) /\ one \in Seq(Records)
        BY <1>1
      <4> HIDE DEF history, one
      <4>2. (history \o old) \o one = history \o (old \o one)
        BY <4>1, <3>1, ConcatAssociative
      <4>3. history \o old \in Seq(Records)
        BY <4>1, <3>1, Joined
      <4>4. /\ Append(old, record) = old \o one
            /\ Append(history \o old, record) = (history \o old) \o one
        BY <4>3, <3>1, AppendIsConcat DEF one
      <4>5. QED
        BY <4>2, <4>4 DEF history
    <3>7. QED
      BY <3>4, <3>5, <3>6
  <2>3. QED
    BY <2>1, <2>2
<1>6. Last(longer.live) = record
  BY <1>2, <1>3 DEF Last
<1>7. Len(Rows(longer)) = Len(Rows(s)) + 1 /\ Len(Rows(s)) \in Nat
  BY <1>5, RowsTyped, Queued
<1>8. CASE s.search.complete /\ record \in Matches(s.search.query)
  <2>1. t = [longer EXCEPT !.search.hits = Append(@, Len(Rows(longer)))]
    BY <1>8 DEF Appended, longer
  <2>2. s.search \in Search
    BY <1>1, <1>8 DEF Store, NoSearch
  <2>3. /\ t.search = [s.search EXCEPT !.hits = Append(@, Len(Rows(s)) + 1)]
        /\ t.search \in Search
    <3>1. t.search = [s.search EXCEPT !.hits = Append(@, Len(Rows(s)) + 1)]
      BY <2>1, <1>3, <1>7 DEF Store
    <3>2. Append(s.search.hits, Len(Rows(s)) + 1) \in Seq(Nat \ {0})
      BY <2>2, <1>7 DEF Search
    <3>3. QED
      BY <2>2, <3>1, <3>2 DEF Search
  <2>4. /\ t.live = longer.live /\ t.history = longer.history
        /\ t.rebased = longer.rebased /\ t.overlap = longer.overlap
        /\ t \in Store
    BY <2>1, <2>3, <1>3 DEF Store
  <2>5. Rows(t) = Rows(longer)
    BY <2>4 DEF Rows
  <2>6. QED
    BY <1>3, <1>4, <1>5, <1>6, <1>8, <2>3, <2>4, <2>5 DEF StoreOK
<1>9. CASE ~(s.search.complete /\ record \in Matches(s.search.query))
  BY <1>9, <1>3, <1>4, <1>5, <1>6 DEF Appended, longer
<1>10. QED
  BY <1>8, <1>9

-----------------------------------------------------------------------------
(* What is queued, sent and cached.                                        *)

SearchCommand == [kind: {"search"}, query: Queries, generation: Generations]
PageCommand   == [kind: {"page"}, key: Key]
CloseCommand  == [kind: {"close"}]
ControlCommand  == SearchCommand \cup PageCommand \cup CloseCommand
LiveCommand     == [kind: {"append"}, record: Records]
RecallCommand   == [kind: {"recall"}, record: Records]
CompleteCommand == [kind: {"complete"}]
BackfillCommand == RecallCommand \cup CompleteCommand
OneRow == {<<>>} \cup {<<row>> : row \in Nat \ {0}}
ScannedCommand  == [kind: {"scanned"}, generation: Generations, hits: OneRow]
EndCommand      == [kind: {"completed"}, generation: Generations, scanned: Nat]
ScanCommand     == ScannedCommand \cup EndCommand

LaneState == [control: Seq(ControlCommand), live: Seq(LiveCommand),
              backfill: Seq(BackfillCommand), scan: Seq(ScanCommand)]

Rebased   == [kind: {"rebased"}, total: Nat]
Page      == [kind: {"page"}, key: Key, total: Nat, rows: Seq(Records)]
Progress  == [kind: {"progress"}, generation: Generations, total: Nat,
              count: Nat]
Completed == [kind: {"completed"}, generation: Generations, count: Nat]
Result    == Rebased \cup Page \cup Progress \cup Completed

RowSets == {D \in SUBSET (Nat \ {0}) : IsFiniteSet(D) /\ Cardinality(D) <= LiveLimit}
Caches  == UNION {[D -> Records] : D \in RowSets}
Pages   == UNION {[D -> Seq(Records)] : D \in SUBSET Key}
Update  == [total: Nat, search: {<<>>} \cup (Generations \X Nat), rows: Caches]

OpenWindow == [open: {TRUE}, total: Nat, generation: Generations,
               query: Queries \cup {NoQuery}, filter: BOOLEAN, count: Nat,
               complete: BOOLEAN, due: BOOLEAN, pending: SUBSET Key,
               stale: SUBSET Key, pages: Pages, liveRows: Caches]

LEMMA OneRowIs ==
  ASSUME NEW hits \in OneRow
  PROVE  hits \in Seq(Nat \ {0})
<1>1. CASE hits = <<>>
  BY <1>1
<1>2. CASE hits # <<>>
  <2>1. PICK row \in Nat \ {0} : hits = <<row>>
    BY <1>2 DEF OneRow
  <2>2. QED
    BY <2>1
<1>3. QED
  BY <1>1, <1>2

LEMMA CacheIs ==
  ASSUME NEW rows
  PROVE  rows \in Caches <=> /\ DOMAIN rows \in RowSets
                             /\ rows = [i \in DOMAIN rows |-> rows[i]]
                             /\ \A i \in DOMAIN rows : rows[i] \in Records
  BY DEF Caches

LEMMA PagesAre ==
  ASSUME NEW pages
  PROVE  pages \in Pages <=> /\ DOMAIN pages \in SUBSET Key
                             /\ pages = [k \in DOMAIN pages |-> pages[k]]
                             /\ \A k \in DOMAIN pages : pages[k] \in Seq(Records)
  BY DEF Pages

LEMMA NoRowsFit == NoRows \in Caches /\ NoRows \in Pages /\ DOMAIN NoRows = {}
<1>1. DOMAIN NoRows = {} /\ NoRows = [i \in DOMAIN NoRows |-> NoRows[i]]
  BY DEF NoRows
<1>2. {} \in RowSets
  BY FS_EmptySet, LogStoreAssumption DEF RowSets
<1>3. NoRows \in Caches
  BY <1>1, <1>2, CacheIs
<1>4. NoRows \in Pages
  BY <1>1, PagesAre
<1>5. QED
  BY <1>1, <1>3, <1>4

LEMMA CacheLess ==
  ASSUME NEW rows \in Caches, NEW gone
  PROVE  [i \in DOMAIN rows \ gone |-> rows[i]] \in Caches
<1> DEFINE less == [i \in DOMAIN rows \ gone |-> rows[i]]
<1>1. /\ DOMAIN rows \in RowSets
      /\ \A i \in DOMAIN rows : rows[i] \in Records
  BY CacheIs
<1>2. DOMAIN less = DOMAIN rows \ gone
  OBVIOUS
<1>3. less = [i \in DOMAIN less |-> less[i]]
  OBVIOUS
<1>4. \A i \in DOMAIN less : less[i] \in Records
  BY <1>1
<1> HIDE DEF less
<1>5. DOMAIN less \in RowSets
  BY <1>2, <1>1, FS_Subset, FS_CardinalityType, LogStoreAssumption DEF RowSets
<1>6. less \in Caches
  BY <1>3, <1>4, <1>5, CacheIs
<1>7. QED
  BY <1>6 DEF less

(* The newest of some rows are a cache.                                    *)
LEMMA NewestCached ==
  ASSUME NEW rows, DOMAIN rows \subseteq Nat \ {0}, IsFiniteSet(DOMAIN rows),
         \A i \in DOMAIN rows : rows[i] \in Records
  PROVE  /\ Newest(rows) \in Caches
         /\ DOMAIN Newest(rows) \subseteq DOMAIN rows
         /\ \A i \in DOMAIN Newest(rows) : Newest(rows)[i] = rows[i]
<1> DEFINE new == Newest(rows)
<1>1. /\ DOMAIN new \subseteq DOMAIN rows /\ IsFiniteSet(DOMAIN new)
      /\ Cardinality(DOMAIN new) <= LiveLimit
      /\ new = [i \in DOMAIN new |-> rows[i]]
  BY NewestFits
<1> HIDE DEF new
<1>2. \A i \in DOMAIN new : new[i] = rows[i] /\ new[i] \in Records
  BY <1>1
<1>3. DOMAIN new \in RowSets
  BY <1>1 DEF RowSets
<1>4. new = [i \in DOMAIN new |-> new[i]]
  BY <1>1
<1>5. new \in Caches
  BY <1>2, <1>3, <1>4, CacheIs
<1>6. QED
  BY <1>1, <1>2, <1>5 DEF new

(* The fields of the window that its handlers change.                      *)
LEMMA ClearedIs ==
  ASSUME NEW w \in OpenWindow
  PROVE  /\ Cleared(w) \in OpenWindow
         /\ Cleared(w).pages = NoRows /\ Cleared(w).liveRows = NoRows
         /\ Cleared(w).pending = {} /\ Cleared(w).stale = {}
         /\ \A f \in {"open", "total", "generation", "query", "filter",
                      "count", "complete", "due"} : Cleared(w)[f] = w[f]
  BY NoRowsFit DEF Cleared, OpenWindow

LEMMA RestartedIs ==
  ASSUME NEW w \in OpenWindow,
         w.query # NoQuery => w.generation < MaxGenerations
  PROVE  /\ Restarted(w) \in OpenWindow
         /\ \A f \in {"open", "total", "query", "filter", "pending", "stale",
                      "pages", "liveRows"} : Restarted(w)[f] = w[f]
         /\ IF w.query = NoQuery THEN Restarted(w) = w
            ELSE /\ Restarted(w).generation = w.generation + 1
                 /\ Restarted(w).count = 0
                 /\ ~Restarted(w).complete
                 /\ Restarted(w).due
<1>1. w.generation \in Nat /\ MaxGenerations \in Nat
  BY LogStoreAssumption DEF OpenWindow, Generations
<1>2. w.query # NoQuery => w.generation + 1 \in Generations
  BY <1>1 DEF Generations
<1>3. QED
  BY <1>2 DEF Restarted, OpenWindow

LEMMA CountedIs ==
  ASSUME NEW w \in OpenWindow, NEW count \in Nat
  PROVE  /\ Counted(w, count) \in OpenWindow
         /\ Counted(w, count).count = count
         /\ \A f \in {"open", "total", "generation", "query", "filter",
                      "complete", "due", "pending", "pages", "liveRows"} :
              Counted(w, count)[f] = w[f]
<1>1. DOMAIN w.pages \subseteq Key
  BY PagesAre DEF OpenWindow
<1>2. PICK stale : /\ stale \in SUBSET Key
                   /\ Counted(w, count) = [w EXCEPT !.count = count, !.stale = stale]
  BY <1>1 DEF Counted, OpenWindow
<1>3. QED
  BY <1>2 DEF OpenWindow

LEMMA InsertedIs ==
  ASSUME NEW w \in OpenWindow, NEW key \in Key, NEW rows \in Seq(Records)
  PROVE  /\ Inserted(w, key, rows) \in OpenWindow
         /\ Inserted(w, key, rows).pages = With(w.pages, key, rows)
         /\ DOMAIN Inserted(w, key, rows).liveRows \subseteq DOMAIN w.liveRows
         /\ \A i \in DOMAIN Inserted(w, key, rows).liveRows :
              Inserted(w, key, rows).liveRows[i] = w.liveRows[i]
         /\ \A f \in {"open", "total", "generation", "query", "filter",
                      "count", "complete", "due"} :
              Inserted(w, key, rows)[f] = w[f]
<1> DEFINE live == IF key.filter THEN w.liveRows
                   ELSE [i \in DOMAIN w.liveRows \ (key.start + 1..key.start + Len(rows))
                           |-> w.liveRows[i]]
           pages == With(w.pages, key, rows)
<1>1. Inserted(w, key, rows) = [w EXCEPT !.pending = w.pending \ {key},
                                         !.stale = w.stale \ {key},
                                         !.pages = pages, !.liveRows = live]
  BY DEF Inserted, OpenWindow
<1>2. /\ live \in Caches /\ DOMAIN live \subseteq DOMAIN w.liveRows
      /\ \A i \in DOMAIN live : live[i] = w.liveRows[i]
  BY CacheLess DEF OpenWindow
<1>3. pages \in Pages
  <2>1. /\ DOMAIN w.pages \in SUBSET Key
        /\ \A k \in DOMAIN w.pages : w.pages[k] \in Seq(Records)
    BY PagesAre DEF OpenWindow
  <2>2. /\ DOMAIN pages = DOMAIN w.pages \cup {key}
        /\ pages[key] = rows
        /\ \A j \in DOMAIN w.pages : j # key => pages[j] = w.pages[j]
    BY DEF With
  <2>3. pages = [k \in DOMAIN pages |-> pages[k]]
    BY DEF With
  <2> HIDE DEF pages
  <2>4. QED
    BY <2>1, <2>2, <2>3, PagesAre
<1> HIDE DEF live, pages
<1>4. QED
  BY ZenonT(30), <1>1, <1>2, <1>3 DEF OpenWindow, pages

-----------------------------------------------------------------------------
(* The states.                                                             *)

Typed ==
  /\ lanes \in LaneState
  /\ streamed \in 0..LogSize
  /\ recalled \in 0..HistorySize + 1
  /\ store = NoStore \/ StoreOK(store)
  /\ scans \subseteq Scan
  /\ results \in Seq(Result)
  /\ update = NoUpdate \/ update \in Update
  /\ window = NoWindow \/ window \in OpenWindow
  /\ poll \in {"receiving", "taking", "drawing"}

Backfill == lanes.backfill
Control  == lanes.control
Scanning == lanes.scan

(* History is complete when it replaces the numbering: nothing comes after *)
(* the end of it.                                                          *)
Backfilled ==
  /\ store.open /\ store.rebased => recalled = HistorySize + 1 /\ Backfill = <<>>
  /\ \A i \in DOMAIN Backfill :
       Backfill[i].kind = "complete" => /\ i = Len(Backfill)
                                        /\ recalled = HistorySize + 1

(* The rows are renumbered once, and the window is told once.              *)
OneRebase ==
  /\ \A i, j \in DOMAIN results :
       results[i].kind = "rebased" /\ results[j].kind = "rebased" => i = j
  /\ ~CaughtUp => ~store.open \/ store.rebased

(* There is a generation left for the search that a rebase makes again.    *)
ToRebase == ~CaughtUp \/ (store.open /\ ~store.rebased)
Spare    == window.open /\ ToRebase /\ window.query # NoQuery
              => window.generation < MaxGenerations

(* Search generations grow: from the search of the store, its scans and    *)
(* what these have found, to the searches queued, to the window.           *)
Searches == {i \in DOMAIN Control : Control[i].kind = "search"}
Used     == (IF store.open THEN {store.search.generation} ELSE {})
              \cup {s.generation : s \in scans}
              \cup {Scanning[i].generation : i \in DOMAIN Scanning}

Bounded(w, g) == g <= w.generation /\ (w.due => g < w.generation)

GensOrdered ==
  /\ \A i, j \in Searches : i < j => Control[i].generation < Control[j].generation
  /\ \A g \in Used, i \in Searches : g < Control[i].generation
  /\ window.open => /\ \A g \in Used : Bounded(window, g)
                    /\ \A i \in Searches : Bounded(window, Control[i].generation)

-----------------------------------------------------------------------------
(* Each lane holds its own commands.                                       *)

LaneNames == {"control", "live", "backfill", "scan"}

LEMMA LanesNamed == Range(Lanes) = LaneNames
  BY DEF Range, Lanes, LaneNames

LEMMA ControlPut ==
  ASSUME Typed, NEW c \in ControlCommand, Puts("control", c)
  PROVE  /\ lanes' \in LaneState
         /\ lanes'.control = Append(lanes.control, c)
         /\ \A lane \in LaneNames \ {"control"} : lanes'[lane] = lanes[lane]
<1>1. Append(lanes.control, c) \in Seq(ControlCommand)
  BY DEF Typed, LaneState
<1>2. QED
  BY <1>1 DEF Puts, Typed, LaneState, LaneNames

LEMMA LivePut ==
  ASSUME Typed, NEW c \in LiveCommand, Puts("live", c)
  PROVE  /\ lanes' \in LaneState
         /\ lanes'.live = Append(lanes.live, c)
         /\ \A lane \in LaneNames \ {"live"} : lanes'[lane] = lanes[lane]
<1>1. Append(lanes.live, c) \in Seq(LiveCommand)
  BY DEF Typed, LaneState
<1>2. QED
  BY <1>1 DEF Puts, Typed, LaneState, LaneNames

LEMMA BackfillPut ==
  ASSUME Typed, NEW c \in BackfillCommand, Puts("backfill", c)
  PROVE  /\ lanes' \in LaneState
         /\ lanes'.backfill = Append(lanes.backfill, c)
         /\ \A lane \in LaneNames \ {"backfill"} : lanes'[lane] = lanes[lane]
<1>1. Append(lanes.backfill, c) \in Seq(BackfillCommand)
  BY DEF Typed, LaneState
<1>2. QED
  BY <1>1 DEF Puts, Typed, LaneState, LaneNames

LEMMA ScanPut ==
  ASSUME Typed, NEW c \in ScanCommand, Puts("scan", c)
  PROVE  /\ lanes' \in LaneState
         /\ lanes'.scan = Append(lanes.scan, c)
         /\ \A lane \in LaneNames \ {"scan"} : lanes'[lane] = lanes[lane]
<1>1. Append(lanes.scan, c) \in Seq(ScanCommand)
  BY DEF Typed, LaneState
<1>2. QED
  BY <1>1 DEF Puts, Typed, LaneState, LaneNames

LEMMA ControlTaken ==
  ASSUME Typed, NEW kind, Takes("control", kind)
  PROVE  /\ lanes.control # <<>> /\ lanes.control \in Seq(ControlCommand)
         /\ Head(lanes.control).kind = kind /\ Head(lanes.control) \in ControlCommand
         /\ lanes' \in LaneState /\ lanes'.control = Tail(lanes.control)
         /\ \A lane \in LaneNames \ {"control"} : lanes'[lane] = lanes[lane]
         /\ UNCHANGED <<streamed, recalled, window, poll>>
<1>1. lanes.control # <<>> /\ lanes.control \in Seq(ControlCommand)
  BY DEF Takes, Typed, LaneState
<1>2. Tail(lanes.control) \in Seq(ControlCommand) /\ Head(lanes.control) \in ControlCommand
  BY <1>1
<1>3. QED
  BY <1>1, <1>2 DEF Takes, Typed, LaneState, LaneNames

LEMMA LiveTaken ==
  ASSUME Typed, NEW kind, Takes("live", kind)
  PROVE  /\ lanes.live # <<>> /\ lanes.live \in Seq(LiveCommand)
         /\ Head(lanes.live).kind = kind /\ Head(lanes.live) \in LiveCommand
         /\ lanes' \in LaneState /\ lanes'.live = Tail(lanes.live)
         /\ \A lane \in LaneNames \ {"live"} : lanes'[lane] = lanes[lane]
         /\ UNCHANGED <<streamed, recalled, window, poll>>
<1>1. lanes.live # <<>> /\ lanes.live \in Seq(LiveCommand)
  BY DEF Takes, Typed, LaneState
<1>2. Tail(lanes.live) \in Seq(LiveCommand) /\ Head(lanes.live) \in LiveCommand
  BY <1>1
<1>3. QED
  BY <1>1, <1>2 DEF Takes, Typed, LaneState, LaneNames

LEMMA BackfillTaken ==
  ASSUME Typed, NEW kind, Takes("backfill", kind)
  PROVE  /\ lanes.backfill # <<>> /\ lanes.backfill \in Seq(BackfillCommand)
         /\ Head(lanes.backfill).kind = kind /\ Head(lanes.backfill) \in BackfillCommand
         /\ lanes' \in LaneState /\ lanes'.backfill = Tail(lanes.backfill)
         /\ \A lane \in LaneNames \ {"backfill"} : lanes'[lane] = lanes[lane]
         /\ UNCHANGED <<streamed, recalled, window, poll>>
<1>1. lanes.backfill # <<>> /\ lanes.backfill \in Seq(BackfillCommand)
  BY DEF Takes, Typed, LaneState
<1>2. /\ Tail(lanes.backfill) \in Seq(BackfillCommand)
      /\ Head(lanes.backfill) \in BackfillCommand
  BY <1>1
<1>3. QED
  BY <1>1, <1>2 DEF Takes, Typed, LaneState, LaneNames

LEMMA ScanTaken ==
  ASSUME Typed, NEW kind, Takes("scan", kind)
  PROVE  /\ lanes.scan # <<>> /\ lanes.scan \in Seq(ScanCommand)
         /\ Head(lanes.scan).kind = kind /\ Head(lanes.scan) \in ScanCommand
         /\ lanes' \in LaneState /\ lanes'.scan = Tail(lanes.scan)
         /\ \A lane \in LaneNames \ {"scan"} : lanes'[lane] = lanes[lane]
         /\ UNCHANGED <<streamed, recalled, window, poll>>
<1>1. lanes.scan # <<>> /\ lanes.scan \in Seq(ScanCommand)
  BY DEF Takes, Typed, LaneState
<1>2. Tail(lanes.scan) \in Seq(ScanCommand) /\ Head(lanes.scan) \in ScanCommand
  BY <1>1
<1>3. QED
  BY <1>1, <1>2 DEF Takes, Typed, LaneState, LaneNames

(* What is taken is what the action expects.                               *)
LEMMA Kinds ==
  /\ \A c \in ControlCommand : /\ c.kind = "search" => c \in SearchCommand
                               /\ c.kind = "page" => c \in PageCommand
  /\ \A c \in BackfillCommand : c.kind = "recall" => c \in RecallCommand
  /\ \A c \in ScanCommand : /\ c.kind = "scanned" => c \in ScannedCommand
                            /\ c.kind = "completed" => c \in EndCommand
                            /\ c.generation \in Generations
  /\ \A r \in Result : /\ r.kind = "rebased" => r \in Rebased
                       /\ r.kind = "page" => r \in Page
                       /\ r.kind = "progress" => r \in Progress
                       /\ r.kind = "completed" => r \in Completed
  BY DEF ControlCommand, SearchCommand, PageCommand, CloseCommand,
     BackfillCommand, RecallCommand, CompleteCommand,
     ScanCommand, ScannedCommand, EndCommand,
     Result, Rebased, Page, Progress, Completed

-----------------------------------------------------------------------------
(* The states are as they should be after every step.                      *)

LEMMA TypedInit == Init => Typed
<1> SUFFICES ASSUME Init PROVE Typed
  OBVIOUS
<1>1. /\ LogSize \in Nat /\ HistorySize \in Nat /\ MaxGenerations \in Nat
      /\ HistorySize <= LogSize
  BY LogStoreAssumption
<1>2. lanes \in LaneState
  <2>1. lanes = [lane \in LaneNames |-> <<>>]
    BY LanesNamed DEF Init
  <2>2. lanes = [control |-> <<>>, live |-> <<>>, backfill |-> <<>>, scan |-> <<>>]
    BY <2>1 DEF LaneNames
  <2>3. QED
    BY <2>2 DEF LaneState
<1>3. StoreOK(store)
  BY DEF Init, StoreOK, Store
<1>4. window \in OpenWindow
  BY <1>1, NoRowsFit DEF Init, OpenWindow, Generations
<1>5. scans \subseteq Scan /\ results \in Seq(Result)
  BY DEF Init
<1>6. streamed \in 0..LogSize /\ recalled \in 0..HistorySize + 1
  BY <1>1 DEF Init
<1>7. update = NoUpdate /\ poll = "receiving"
  BY DEF Init
<1>8. QED
  BY <1>2, <1>3, <1>4, <1>5, <1>6, <1>7 DEF Typed

LEMMA StreamTyped == Typed /\ StreamAppends => Typed'
<1> SUFFICES ASSUME Typed, StreamAppends PROVE Typed'
  OBVIOUS
<1>1. streamed' = streamed + 1 /\ streamed' \in 0..LogSize /\ streamed' \in Records
  BY LogStoreAssumption DEF StreamAppends, Typed, Records
<1>2. [kind |-> "append", record |-> streamed'] \in LiveCommand
  BY <1>1 DEF LiveCommand
<1>3. lanes' \in LaneState
  BY <1>2, LivePut DEF StreamAppends
<1>4. QED
  BY <1>1, <1>3 DEF StreamAppends, Typed

LEMMA HistoryTyped == Typed /\ HistoryAppends => Typed'
<1> SUFFICES ASSUME Typed, HistoryAppends PROVE Typed'
  OBVIOUS
<1>1. /\ recalled' = recalled + 1 /\ recalled' \in 0..HistorySize + 1
      /\ recalled < HistorySize => recalled' \in Records
  BY LogStoreAssumption DEF HistoryAppends, Typed, Records
<1> DEFINE command == IF recalled < HistorySize
                      THEN [kind |-> "recall", record |-> recalled']
                      ELSE [kind |-> "complete"]
<1>2. command \in BackfillCommand
  BY <1>1 DEF BackfillCommand, RecallCommand, CompleteCommand
<1>3. Puts("backfill", command)
  BY DEF HistoryAppends
<1> HIDE DEF command
<1>4. lanes' \in LaneState
  BY <1>2, <1>3, BackfillPut
<1>5. QED
  BY <1>1, <1>4 DEF HistoryAppends, Typed

(* The live update after an append.                                        *)
LEMMA PublishedTyped ==
  ASSUME update = NoUpdate \/ update \in Update,
         NEW s, StoreOK(s), s.live # <<>>, Rows(s) # <<>>,
         update' = [total  |-> Len(Rows(s)),
                    search |-> IF s.search.complete
                               THEN <<s.search.generation, Len(s.search.hits)>>
                               ELSE <<>>,
                    rows   |-> Newest(With(IF update = NoUpdate THEN NoRows
                                                                ELSE update.rows,
                                           Len(Rows(s)), Last(s.live)))]
  PROVE  /\ update' \in Update
         /\ update'.total = Len(Rows(s))
         /\ update'.search = IF s.search.complete
                             THEN <<s.search.generation, Len(s.search.hits)>>
                             ELSE <<>>
         /\ \A i \in DOMAIN update'.rows :
              \/ i = Len(Rows(s)) /\ update'.rows[i] = Last(s.live)
              \/ /\ update # NoUpdate /\ i \in DOMAIN update.rows
                 /\ update'.rows[i] = update.rows[i]
<1> DEFINE old == IF update = NoUpdate THEN NoRows ELSE update.rows
           n   == Len(Rows(s))
           all == With(old, n, Last(s.live))
<1>1. old \in Caches
  BY NoRowsFit DEF Update
<1>2. n \in Nat \ {0}
  BY RowsTyped
<1>3. Last(s.live) \in Records
  BY DEF StoreOK, Store, Last
<1>4. /\ DOMAIN all = DOMAIN old \cup {n} /\ all[n] = Last(s.live)
      /\ \A j \in DOMAIN old : j # n => all[j] = old[j]
  BY DEF With
<1>5. /\ DOMAIN old \subseteq Nat \ {0} /\ IsFiniteSet(DOMAIN old)
      /\ \A i \in DOMAIN old : old[i] \in Records
  BY <1>1, CacheIs DEF RowSets
<1> HIDE DEF old, all
<1>6. /\ DOMAIN all \subseteq Nat \ {0} /\ IsFiniteSet(DOMAIN all)
      /\ \A i \in DOMAIN all : all[i] \in Records
  BY <1>2, <1>3, <1>4, <1>5, FS_AddElement
<1>7. /\ Newest(all) \in Caches /\ DOMAIN Newest(all) \subseteq DOMAIN all
      /\ \A i \in DOMAIN Newest(all) : Newest(all)[i] = all[i]
  BY <1>6, NewestCached
<1> DEFINE search == IF s.search.complete
                     THEN <<s.search.generation, Len(s.search.hits)>> ELSE <<>>
<1>8. search \in {<<>>} \cup (Generations \X Nat)
  BY DEF StoreOK, Store, NoSearch, Search
<1> HIDE DEF search
<1>9. update' = [total |-> n, search |-> search, rows |-> Newest(all)]
  BY DEF search, all, old
<1>10. /\ update' \in Update /\ update'.total = n /\ update'.search = search
       /\ update'.rows = Newest(all)
  BY <1>2, <1>7, <1>8, <1>9 DEF Update
<1>11. \A i \in DOMAIN update'.rows :
         \/ i = n /\ update'.rows[i] = Last(s.live)
         \/ i \in DOMAIN old /\ update'.rows[i] = old[i]
  BY <1>4, <1>7, <1>10
<1>12. \A i \in DOMAIN old : update # NoUpdate /\ old[i] = update.rows[i]
                             /\ i \in DOMAIN update.rows
  BY NoRowsFit DEF old
<1>13. QED
  BY <1>10, <1>11, <1>12 DEF search

LEMMA AppendEffect ==
  ASSUME Typed, ExecuteAppend
  PROVE  /\ Typed'
         /\ UNCHANGED <<scans, results, streamed, recalled, window, poll>>
         /\ \A lane \in LaneNames \ {"live"} : lanes'[lane] = lanes[lane]
         /\ ~store.open => UNCHANGED <<store, update>>
         /\ store.open =>
              /\ \E record \in Records :
                   /\ store' = Appended(store, record)
                   /\ Rows(store') = Append(Rows(store), record)
                   /\ StoreOK(store) /\ StoreOK(store') /\ store'.open
              /\ update' \in Update /\ update'.total = Len(Rows(store'))
              /\ update'.search = IF store'.search.complete
                                  THEN <<store'.search.generation,
                                         Len(store'.search.hits)>>
                                  ELSE <<>>
              /\ \A i \in DOMAIN update'.rows :
                   \/ /\ i = Len(Rows(store'))
                      /\ update'.rows[i] = Rows(store')[i]
                   \/ /\ update # NoUpdate /\ i \in DOMAIN update.rows
                      /\ update'.rows[i] = update.rows[i]
<1>1. /\ Head(lanes.live) \in LiveCommand /\ lanes' \in LaneState
      /\ \A lane \in LaneNames \ {"live"} : lanes'[lane] = lanes[lane]
      /\ UNCHANGED <<streamed, recalled, window, poll>>
  BY LiveTaken DEF ExecuteAppend
<1>2. CASE ~store.open
  BY <1>2, <1>1 DEF ExecuteAppend, Unless, Typed
<1>3. CASE store.open
  <2>1. StoreOK(store)
    BY <1>3 DEF Typed, NoStore
  <2>2. PICK record \in Records : record = Head(lanes.live).record
    BY <1>1 DEF LiveCommand
  <2>3. /\ store' = Appended(store, record)
        /\ PublishLive(store') /\ UNCHANGED <<scans, results>>
    BY <1>3, <2>2 DEF ExecuteAppend, Unless
  <2>4. PICK s : s = store'
    OBVIOUS
  <2>5. /\ StoreOK(s) /\ Rows(s) = Append(Rows(store), record)
        /\ Last(s.live) = record
    BY <2>1, <2>3, <2>4, RowAppended
  <2>6. Rows(store) \in Seq(Records)
    BY <2>1, RowsTyped
  <2>7. /\ Rows(s) # <<>> /\ Len(Rows(s)) = Len(Rows(store)) + 1
        /\ Rows(s)[Len(Rows(s))] = record
    BY <2>5, <2>6, Queued
  <2>8. s.live # <<>>
    <3>1. store.live \in Seq(Records)
      BY <2>1 DEF StoreOK, Store
    <3>2. s.live = Append(store.live, record)
      BY <2>1, <2>3, <2>4 DEF Appended, StoreOK, Store
    <3>3. QED
      BY <3>1, <3>2
  <2>9. update = NoUpdate \/ update \in Update
    BY DEF Typed
  <2>10. update' = [total  |-> Len(Rows(s)),
                    search |-> IF s.search.complete
                               THEN <<s.search.generation, Len(s.search.hits)>>
                               ELSE <<>>,
                    rows   |-> Newest(With(IF update = NoUpdate THEN NoRows
                                                                ELSE update.rows,
                                           Len(Rows(s)), Last(s.live)))]
    BY <2>3, <2>4 DEF PublishLive
  <2>11. /\ update' \in Update /\ update'.total = Len(Rows(s))
         /\ update'.search = IF s.search.complete
                             THEN <<s.search.generation, Len(s.search.hits)>>
                             ELSE <<>>
         /\ \A i \in DOMAIN update'.rows :
              \/ i = Len(Rows(s)) /\ update'.rows[i] = Last(s.live)
              \/ /\ update # NoUpdate /\ i \in DOMAIN update.rows
                 /\ update'.rows[i] = update.rows[i]
    BY <2>5, <2>7, <2>8, <2>9, <2>10, PublishedTyped
  <2>12. s.open
    BY <2>5 DEF StoreOK, Store
  <2>13. Typed'
    BY <1>1, <2>3, <2>4, <2>5, <2>11 DEF Typed
  <2>14. \A i \in DOMAIN update'.rows :
           \/ i = Len(Rows(s)) /\ update'.rows[i] = Rows(s)[i]
           \/ /\ update # NoUpdate /\ i \in DOMAIN update.rows
              /\ update'.rows[i] = update.rows[i]
    BY <2>5, <2>7, <2>11
  <2>15. \E r \in Records : /\ s = Appended(store, r)
                            /\ Rows(s) = Append(Rows(store), r)
                            /\ StoreOK(store) /\ StoreOK(s) /\ s.open
    BY <2>1, <2>3, <2>4, <2>5, <2>12
  <2>16. QED
    BY <1>1, <1>3, <2>3, <2>4, <2>11, <2>13, <2>14, <2>15
<1>4. QED
  BY <1>2, <1>3

LEMMA RecallEffect ==
  ASSUME Typed, Backfilled, ExecuteRecall
  PROVE  /\ Typed'
         /\ UNCHANGED <<scans, results, streamed, recalled, window, poll>>
         /\ lanes'.backfill = Tail(lanes.backfill)
         /\ \A lane \in LaneNames \ {"backfill"} : lanes'[lane] = lanes[lane]
         /\ ~store.open => UNCHANGED <<store, update>>
         /\ store.open =>
              /\ StoreOK(store) /\ StoreOK(store') /\ store'.open
              /\ ~store.rebased /\ ~store'.rebased
              /\ Rows(store') = Rows(store) /\ store'.search = store.search
              /\ update' \in Update /\ update'.total = Len(Rows(store))
              /\ IF update = NoUpdate
                 THEN update'.search = <<>> /\ update'.rows = NoRows
                 ELSE /\ update'.search = update.search
                      /\ update'.rows = update.rows
<1>1. /\ Head(lanes.backfill) \in BackfillCommand /\ lanes' \in LaneState
      /\ Head(lanes.backfill).kind = "recall"
      /\ lanes.backfill # <<>> /\ lanes'.backfill = Tail(lanes.backfill)
      /\ \A lane \in LaneNames \ {"backfill"} : lanes'[lane] = lanes[lane]
      /\ UNCHANGED <<streamed, recalled, window, poll>>
  BY BackfillTaken DEF ExecuteRecall
<1>2. CASE ~store.open
  BY <1>2, <1>1 DEF ExecuteRecall, Unless, Typed
<1>3. CASE store.open
  <2>1. StoreOK(store) /\ ~store.rebased
    BY <1>1, <1>3 DEF Typed, NoStore, Backfilled, Backfill
  <2>2. PICK record \in Records : record = Head(lanes.backfill).record
    BY <1>1, Kinds DEF RecallCommand
  <2>3. /\ store' = [store EXCEPT !.history = Append(@, record)]
        /\ update' = IF update = NoUpdate
                     THEN [total |-> Len(Rows(store)), search |-> <<>>,
                           rows |-> NoRows]
                     ELSE [update EXCEPT !.total = Len(Rows(store))]
        /\ UNCHANGED <<scans, results>>
    BY <1>3, <2>2 DEF ExecuteRecall, Unless
  <2>4. /\ StoreOK(store') /\ store'.open /\ ~store'.rebased
        /\ store'.live = store.live /\ store'.search = store.search
    <3>1. PICK history \in Seq(Records) : history = Append(store.history, record)
      BY <2>1, Queued DEF StoreOK, Store
    <3>2. store' = [store EXCEPT !.history = history]
      BY <2>3, <3>1
    <3>3. QED
      BY <2>1, <3>2 DEF StoreOK, Store
  <2>5. Rows(store') = Rows(store)
    BY <2>1, <2>4 DEF Rows
  <2>6. Len(Rows(store)) \in Nat
    BY <2>1, RowsTyped
  <2>7. /\ update' \in Update /\ update'.total = Len(Rows(store))
        /\ IF update = NoUpdate
           THEN update'.search = <<>> /\ update'.rows = NoRows
           ELSE /\ update'.search = update.search
                /\ update'.rows = update.rows
    <3>1. CASE update = NoUpdate
      BY <3>1, <2>3, <2>6, NoRowsFit DEF Update
    <3>2. CASE update # NoUpdate
      BY <3>2, <2>3, <2>6 DEF Typed, Update
    <3>3. QED
      BY <3>1, <3>2
  <2>8. Typed'
    BY <1>1, <2>3, <2>4, <2>7 DEF Typed
  <2>9. QED
    BY <1>1, <1>3, <2>1, <2>3, <2>4, <2>5, <2>7, <2>8
<1>4. QED
  BY <1>2, <1>3

(* Another search in the same rows                                         *)
LEMMA SearchReplaced ==
  ASSUME NEW s, StoreOK(s), NEW search \in Search \cup {NoSearch},
         NEW t, t = [s EXCEPT !.search = search]
  PROVE  /\ StoreOK(t) /\ Rows(t) = Rows(s) /\ t.open /\ s.open
         /\ t.rebased = s.rebased /\ t.search = search
<1>1. /\ StoreOK(t) /\ t.open /\ s.open /\ t.search = search
      /\ t.rebased = s.rebased /\ t.live = s.live /\ t.history = s.history
      /\ t.overlap = s.overlap
  BY DEF StoreOK, Store
<1>2. QED
  BY <1>1 DEF Rows

LEMMA CompleteEffect ==
  ASSUME Typed, Backfilled, ExecuteComplete
  PROVE  /\ Typed'
         /\ UNCHANGED <<scans, streamed, recalled, window, poll>>
         /\ lanes.backfill # <<>> /\ lanes.backfill[1].kind = "complete"
         /\ lanes'.backfill = Tail(lanes.backfill)
         /\ \A lane \in LaneNames \ {"backfill"} : lanes'[lane] = lanes[lane]
         /\ \/ UNCHANGED <<store, results, update>>
            \/ /\ store.open /\ ~store.rebased /\ StoreOK(store')
               /\ store'.open /\ store'.rebased /\ store'.search = NoSearch
               /\ update' = NoUpdate
               /\ \E r \in Rebased : /\ r.total = Len(Rows(store'))
                                     /\ results' = Append(results, r)
<1>1. /\ lanes.backfill # <<>> /\ lanes.backfill \in Seq(BackfillCommand)
      /\ Head(lanes.backfill).kind = "complete" /\ lanes' \in LaneState
      /\ lanes'.backfill = Tail(lanes.backfill)
      /\ \A lane \in LaneNames \ {"backfill"} : lanes'[lane] = lanes[lane]
      /\ UNCHANGED <<streamed, recalled, window, poll>>
  BY BackfillTaken DEF ExecuteComplete
<1>2. lanes.backfill[1].kind = "complete"
  BY <1>1, Dequeued
<1>3. CASE UNCHANGED <<store, scans, results, update>>
  BY <1>1, <1>2, <1>3 DEF Typed
<1>4. CASE ~UNCHANGED <<store, scans, results, update>>
  <2>1. /\ store.open
        /\ store' = [store EXCEPT
                       !.rebased = TRUE,
                       !.overlap = Overlap(store.history, store.live),
                       !.search = NoSearch]
        /\ Forget
        /\ Answers([kind |-> "rebased", total |-> Len(Rows(store'))])
        /\ UNCHANGED scans
    BY <1>4 DEF ExecuteComplete, Unless
  <2>2. StoreOK(store) /\ ~store.rebased
    BY <1>1, <2>1 DEF Typed, NoStore, Backfilled, Backfill
  <2>3. Overlap(store.history, store.live) \in 0..Len(store.live)
    BY <2>2, OverlapFits DEF StoreOK, Store
  <2>4. Len(store.live) \in Nat
    BY <2>2 DEF StoreOK, Store
  <2>5. /\ StoreOK(store') /\ store'.open /\ store'.rebased
        /\ store'.search = NoSearch
    <3>1. PICK overlap \in 0..Len(store.live) : overlap = Overlap(store.history, store.live)
      BY <2>3
    <3>2. store' = [store EXCEPT !.rebased = TRUE, !.overlap = overlap,
                                 !.search = NoSearch]
      BY <2>1, <3>1
    <3>3. overlap \in Nat /\ overlap <= Len(store.live)
      BY <3>1, <2>4
    <3>4. QED
      BY <2>2, <3>2, <3>3 DEF StoreOK, Store
  <2> DEFINE r == [kind |-> "rebased", total |-> Len(Rows(store'))]
  <2>6. r \in Rebased /\ r.total = Len(Rows(store')) /\ results' = Append(results, r)
    BY <2>5, RowsTyped, <2>1 DEF Rebased, Answers
  <2> HIDE DEF r
  <2>7. results' \in Seq(Result)
    BY <2>6, Queued DEF Typed, Result
  <2>8. update' = NoUpdate
    BY <2>1 DEF Forget
  <2>9. Typed'
    BY <1>1, <2>1, <2>5, <2>7, <2>8 DEF Typed
  <2>10. \E x \in Rebased : x.total = Len(Rows(store')) /\ results' = Append(results, x)
    BY <2>6
  <2>11. QED
    BY <1>1, <1>2, <2>1, <2>2, <2>5, <2>8, <2>9, <2>10
<1>5. QED
  BY <1>3, <1>4

LEMMA CompleteKeeps ==
  ASSUME Typed, Backfilled, ExecuteComplete, store.open
  PROVE  store'.open /\ Len(Rows(store)) <= Len(Rows(store'))
<1>1. StoreOK(store) /\ Len(Rows(store)) \in Nat
  BY RowsTyped DEF Typed, NoStore
<1>2. CASE UNCHANGED <<store, results, update>>
  BY <1>1, <1>2
<1>3. CASE ~UNCHANGED <<store, results, update>>
  BY <1>3, CompleteEffect, <1>1, RowsRebased DEF ExecuteComplete, Unless
<1>4. QED
  BY <1>2, <1>3

LEMMA SearchEffect ==
  ASSUME Typed, ExecuteSearch
  PROVE  /\ Typed'
         /\ UNCHANGED <<results, update, streamed, recalled, window, poll>>
         /\ lanes.control # <<>> /\ lanes'.control = Tail(lanes.control)
         /\ \A lane \in LaneNames \ {"control"} : lanes'[lane] = lanes[lane]
         /\ ~store.open => UNCHANGED <<store, scans>>
         /\ store.open =>
              \E c \in SearchCommand :
                /\ c = Head(lanes.control)
                /\ StoreOK(store) /\ StoreOK(store') /\ store'.open
                /\ Rows(store') = Rows(store) /\ store'.rebased = store.rebased
                /\ store'.search = [generation |-> c.generation,
                                    query |-> c.query, hits |-> <<>>,
                                    complete |-> FALSE]
                /\ scans' = scans \cup {[generation |-> c.generation,
                                         query |-> c.query,
                                         rows |-> Rows(store), at |-> 0]}
<1>1. /\ Head(lanes.control) \in ControlCommand /\ lanes' \in LaneState
      /\ Head(lanes.control).kind = "search"
      /\ lanes.control # <<>> /\ lanes'.control = Tail(lanes.control)
      /\ \A lane \in LaneNames \ {"control"} : lanes'[lane] = lanes[lane]
      /\ UNCHANGED <<streamed, recalled, window, poll>>
  BY ControlTaken DEF ExecuteSearch
<1>2. CASE ~store.open
  BY <1>2, <1>1 DEF ExecuteSearch, Unless, Typed
<1>3. CASE store.open
  <2>1. StoreOK(store)
    BY <1>3 DEF Typed, NoStore
  <2>2. PICK c \in SearchCommand : c = Head(lanes.control)
    BY <1>1, Kinds
  <2> DEFINE search == [generation |-> c.generation, query |-> c.query,
                        hits |-> <<>>, complete |-> FALSE]
             scan == [generation |-> c.generation, query |-> c.query,
                      rows |-> Rows(store), at |-> 0]
  <2>3. /\ store' = [store EXCEPT !.search = search]
        /\ scans' = scans \cup {scan} /\ UNCHANGED <<results, update>>
    BY <1>3, <2>2 DEF ExecuteSearch, Unless
  <2>4. search \in Search
    BY <2>2 DEF SearchCommand, Search
  <2>5. scan \in Scan
    BY <2>1, RowsTyped, <2>2 DEF SearchCommand, Scan
  <2>6. /\ StoreOK(store') /\ Rows(store') = Rows(store) /\ store'.open
        /\ store'.rebased = store.rebased /\ store'.search = search
    <3> HIDE DEF search
    <3>1. QED
      BY <2>1, <2>3, <2>4, SearchReplaced
  <2>7. Typed'
    BY <1>1, <2>3, <2>5, <2>6 DEF Typed
  <2>8. QED
    BY <1>1, <1>3, <2>1, <2>2, <2>3, <2>6, <2>7
<1>4. QED
  BY <1>2, <1>3

(* What the search has found are rows.                                     *)
HitsFit ==
  store.open /\ store.search # NoSearch =>
    \A i \in DOMAIN store.search.hits :
      store.search.hits[i] \in 1..Len(Rows(store))

InRow(rows, i, record) == i \in 1..Len(rows) /\ record = rows[i]

(* A page holds rows of the store, in its place.                           *)
PageFits(s, k, page) ==
  IF ~k.filter
  THEN \A i \in DOMAIN page : InRow(Rows(s), k.start + i, page[i])
  ELSE /\ k.generation = s.search.generation =>
            \A i \in DOMAIN page :
              /\ k.start + i \in DOMAIN s.search.hits
              /\ InRow(Rows(s), s.search.hits[k.start + i], page[i])
       /\ k.generation > s.search.generation => page = <<>>

(* How many rows or matches a page is told there are.                      *)
PageTotal(s, k) == IF ~k.filter THEN Len(Rows(s))
                   ELSE IF s.search.generation = k.generation
                        THEN Len(s.search.hits) ELSE 0

LEMMA SearchIs ==
  ASSUME NEW s, StoreOK(s)
  PROVE  /\ s.search.generation \in Int
         /\ s.search # NoSearch => s.search \in Search
         /\ s.search = NoSearch => s.search.generation = -1
         /\ s.search.generation \in Nat => s.search \in Search
         /\ s.search.complete => s.search \in Search
  BY LogStoreAssumption DEF StoreOK, Store, Search, NoSearch, Generations

LEMMA PageRowsFit ==
  ASSUME Typed, HitsFit, store.open, NEW key \in Key, NEW rows,
         rows = PageRows(key, PageTotal(store, key))
  PROVE  /\ rows \in Seq(Records)
         /\ PageTotal(store, key) \in Nat
         /\ PageFits(store, key, rows)
<1> DEFINE total == PageTotal(store, key)
<1>1. StoreOK(store)
  BY DEF Typed, NoStore
<1>2. /\ key.start \in Nat /\ key.generation \in Nat /\ PageSize \in Nat
      /\ key.filter \in BOOLEAN
  BY LogStoreAssumption DEF Key, Generations
<1>3. Len(Rows(store)) \in Nat
  BY <1>1, RowsTyped
<1>4. key.generation = store.search.generation =>
        /\ store.search \in Search /\ store.search # NoSearch
        /\ Len(store.search.hits) \in Nat
        /\ DOMAIN store.search.hits = 1..Len(store.search.hits)
  BY <1>1, <1>2, SearchIs DEF Search
<1>5. total \in Nat
  BY <1>3, <1>4 DEF PageTotal
<1>6. PICK n \in Nat : /\ n = 0 \/ n <= total - key.start
                       /\ rows = [i \in 1..n |->
                            Rows(store)[IF key.filter
                                        THEN store.search.hits[key.start + i]
                                        ELSE key.start + i]]
  <2> DEFINE last == Min({key.start + PageSize, total})
             n == Max({last - key.start, 0})
  <2> HIDE DEF total
  <2>1. last \in Int /\ last <= total
    BY <1>2, <1>5, MinOfTwo
  <2> HIDE DEF last
  <2>2. n \in Nat /\ (n = 0 \/ n <= total - key.start)
    BY <2>1, <1>2, <1>5, MaxOfTwo
  <2>3. rows = [i \in 1..n |->
                  Rows(store)[IF key.filter THEN store.search.hits[key.start + i]
                                            ELSE key.start + i]]
    BY DEF PageRows, last, total
  <2> HIDE DEF n
  <2>4. QED
    BY <2>2, <2>3
<1>7. DOMAIN rows = 1..n /\ \A i \in 1..n : i <= total - key.start
  BY <1>5, <1>6, <1>2
<1> HIDE DEF total
<1>8. CASE ~key.filter
  <2>1. total = Len(Rows(store))
    BY <1>8 DEF PageTotal, total
  <2>2. \A i \in 1..n : key.start + i \in 1..Len(Rows(store))
                        /\ rows[i] = Rows(store)[key.start + i]
    BY <2>1, <1>2, <1>3, <1>6, <1>7, <1>8
  <2>3. \A i \in 1..n : rows[i] \in Records
    BY <2>2, <1>1, RowsTyped
  <2>4. rows \in Seq(Records)
    BY <2>3, <1>6, <1>7
  <2>5. PageFits(store, key, rows)
    BY <2>2, <1>7, <1>8 DEF PageFits, InRow
  <2>6. QED
    BY <2>4, <2>5, <1>5 DEF total
<1>9. CASE key.filter /\ key.generation = store.search.generation
  <2>1. total = Len(store.search.hits)
    BY <1>9 DEF PageTotal, total
  <2>2. \A i \in 1..n : key.start + i \in DOMAIN store.search.hits
                        /\ rows[i] = Rows(store)[store.search.hits[key.start + i]]
    BY <2>1, <1>2, <1>4, <1>6, <1>7, <1>9
  <2>3. \A i \in 1..n : store.search.hits[key.start + i] \in 1..Len(Rows(store))
    BY <2>2, <1>4, <1>9 DEF HitsFit
  <2>4. \A i \in 1..n : rows[i] \in Records
    BY <2>2, <2>3, <1>1, RowsTyped
  <2>5. rows \in Seq(Records)
    BY <2>4, <1>6, <1>7
  <2>6. PageFits(store, key, rows)
    BY <1>2, <1>9, <2>2, <2>3, <1>7 DEF PageFits, InRow
  <2>7. QED
    BY <2>5, <2>6, <1>5 DEF total
<1>10. CASE key.filter /\ key.generation # store.search.generation
  BY <1>10, <1>6, <1>2, <1>5 DEF PageTotal, total, PageFits
<1>11. QED
  BY <1>2, <1>8, <1>9, <1>10

LEMMA LoadPageEffect ==
  ASSUME Typed, HitsFit, ExecuteLoadPage
  PROVE  /\ Typed'
         /\ UNCHANGED <<store, scans, update, streamed, recalled, window, poll>>
         /\ lanes.control # <<>> /\ lanes'.control = Tail(lanes.control)
         /\ \A lane \in LaneNames \ {"control"} : lanes'[lane] = lanes[lane]
         /\ Head(lanes.control).kind = "page"
         /\ ~store.open => UNCHANGED results
         /\ store.open =>
              \E r \in Page : /\ results' = Append(results, r)
                              /\ PageFits(store, r.key, r.rows)
                              /\ r.key = Head(lanes.control).key
                              /\ r.total = PageTotal(store, r.key)
<1>1. /\ Head(lanes.control) \in ControlCommand /\ lanes' \in LaneState
      /\ Head(lanes.control).kind = "page"
      /\ lanes.control # <<>> /\ lanes'.control = Tail(lanes.control)
      /\ \A lane \in LaneNames \ {"control"} : lanes'[lane] = lanes[lane]
      /\ UNCHANGED <<streamed, recalled, window, poll>>
  BY ControlTaken DEF ExecuteLoadPage
<1>2. CASE ~store.open
  BY <1>2, <1>1 DEF ExecuteLoadPage, Unless, Typed
<1>3. CASE store.open
  <2>1. PICK key \in Key : key = Head(lanes.control).key
    BY <1>1, Kinds DEF PageCommand
  <2> DEFINE total == PageTotal(store, key)
             rows  == PageRows(key, total)
             r == [kind |-> "page", key |-> key, total |-> total, rows |-> rows]
  <2>2. results' = Append(results, r) /\ UNCHANGED <<store, scans, update>>
    BY <1>3, <2>1 DEF ExecuteLoadPage, Unless, Answers, PageTotal
  <2>3. rows \in Seq(Records) /\ total \in Nat /\ PageFits(store, key, rows)
    BY <1>3, <2>1, PageRowsFit
  <2> HIDE DEF rows, total
  <2>4. r \in Page /\ r.key = key /\ r.rows = rows /\ r.total = total
    BY <2>3, <2>1 DEF Page
  <2> HIDE DEF r
  <2>5. results' \in Seq(Result)
    BY <2>4, <2>2, Queued DEF Typed, Result
  <2>6. Typed'
    BY <1>1, <2>2, <2>5 DEF Typed
  <2>7. \E x \in Page : /\ results' = Append(results, x)
                        /\ PageFits(store, x.key, x.rows)
                        /\ x.key = Head(lanes.control).key
                        /\ x.total = PageTotal(store, x.key)
    BY <2>1, <2>2, <2>3, <2>4 DEF total
  <2>8. QED
    BY <1>1, <1>3, <2>2, <2>6, <2>7
<1>4. QED
  BY <1>2, <1>3

LEMMA CloseEffect ==
  ASSUME Typed, ExecuteClose
  PROVE  /\ Typed'
         /\ UNCHANGED <<scans, results, streamed, recalled, window, poll>>
         /\ lanes.control # <<>> /\ lanes'.control = Tail(lanes.control)
         /\ \A lane \in LaneNames \ {"control"} : lanes'[lane] = lanes[lane]
         /\ Head(lanes.control).kind = "close"
         /\ store' = NoStore /\ ~store'.open /\ update' = NoUpdate
<1>1. /\ lanes' \in LaneState /\ Head(lanes.control).kind = "close"
      /\ lanes.control # <<>> /\ lanes'.control = Tail(lanes.control)
      /\ \A lane \in LaneNames \ {"control"} : lanes'[lane] = lanes[lane]
      /\ UNCHANGED <<streamed, recalled, window, poll>>
  BY ControlTaken DEF ExecuteClose
<1>2. store' = NoStore /\ update' = NoUpdate /\ UNCHANGED <<scans, results>>
  BY DEF ExecuteClose
<1>3. Typed'
  BY <1>1, <1>2 DEF Typed
<1>4. QED
  BY <1>1, <1>2, <1>3 DEF NoStore

LEMMA ScannedEffect ==
  ASSUME Typed, ExecuteScanned
  PROVE  /\ Typed'
         /\ UNCHANGED <<scans, update, streamed, recalled, window, poll>>
         /\ lanes.scan # <<>> /\ lanes'.scan = Tail(lanes.scan)
         /\ \A lane \in LaneNames \ {"scan"} : lanes'[lane] = lanes[lane]
         /\ \E c \in ScannedCommand :
              /\ c = Head(lanes.scan)
              /\ \/ /\ ~store.open \/ store.search.generation # c.generation
                    /\ UNCHANGED <<store, results>>
                 \/ /\ store.open /\ store.search.generation = c.generation
                    /\ StoreOK(store) /\ StoreOK(store') /\ store'.open
                    /\ Rows(store') = Rows(store)
                    /\ store'.rebased = store.rebased
                    /\ store.search \in Search
                    /\ store'.search = [store.search EXCEPT !.hits = @ \o c.hits]
                    /\ \E r \in Progress :
                         /\ results' = Append(results, r)
                         /\ r.generation = c.generation
                         /\ r.total = Len(Rows(store))
                         /\ r.count = Len(store'.search.hits)
<1>1. /\ Head(lanes.scan) \in ScanCommand /\ lanes' \in LaneState
      /\ Head(lanes.scan).kind = "scanned"
      /\ lanes.scan # <<>> /\ lanes'.scan = Tail(lanes.scan)
      /\ \A lane \in LaneNames \ {"scan"} : lanes'[lane] = lanes[lane]
      /\ UNCHANGED <<streamed, recalled, window, poll>>
  BY ScanTaken DEF ExecuteScanned
<1>2. PICK c \in ScannedCommand : c = Head(lanes.scan)
  BY <1>1, Kinds
<1>3. CASE ~store.open \/ store.search.generation # c.generation
  BY <1>2, <1>3, <1>1 DEF ExecuteScanned, Unless, Typed
<1>4. CASE store.open /\ store.search.generation = c.generation
  <2>1. StoreOK(store)
    BY <1>4 DEF Typed, NoStore
  <2>2. c.generation \in Nat /\ c.hits \in Seq(Nat \ {0}) /\ c.generation \in Generations
    BY <1>2, LogStoreAssumption, OneRowIs DEF ScannedCommand, Generations
  <2>3. store.search \in Search
    BY <1>4, <2>1, <2>2, SearchIs
  <2> DEFINE search == [store.search EXCEPT !.hits = @ \o c.hits]
  <2>4. search \in Search /\ search.hits = store.search.hits \o c.hits
    BY <2>2, <2>3, Joined DEF Search
  <2>5. store' = [store EXCEPT !.search = search]
    BY <1>2, <1>4 DEF ExecuteScanned, Unless
  <2>6. UNCHANGED <<scans, update>>
    BY <1>2, <1>4 DEF ExecuteScanned, Unless
  <2> HIDE DEF search
  <2>7. /\ StoreOK(store') /\ Rows(store') = Rows(store) /\ store'.open
        /\ store'.rebased = store.rebased /\ store'.search = search
    BY <2>1, <2>4, <2>5, SearchReplaced
  <2> DEFINE r == [kind |-> "progress", generation |-> c.generation,
                   total |-> Len(Rows(store)), count |-> Len(store'.search.hits)]
  <2>8. results' = Append(results, r)
    BY <1>2, <1>4 DEF ExecuteScanned, Unless, Answers
  <2>9. r \in Progress
    BY <2>1, RowsTyped, <2>4, <2>7, <2>2 DEF Search, Progress
  <2>10. \E x \in Progress : /\ results' = Append(results, x)
                             /\ x.generation = c.generation
                             /\ x.total = Len(Rows(store))
                             /\ x.count = Len(store'.search.hits)
    BY <2>8, <2>9
  <2> HIDE DEF r
  <2>11. results' \in Seq(Result)
    BY <2>9, <2>8, Queued DEF Typed, Result
  <2>12. Typed'
    BY <1>1, <2>6, <2>7, <2>11 DEF Typed
  <2>13. store'.search = [store.search EXCEPT !.hits = @ \o c.hits]
    BY <2>7 DEF search
  <2>14. QED
    BY <1>1, <1>2, <1>4, <2>1, <2>3, <2>6, <2>7, <2>10, <2>12, <2>13
<1>5. QED
  BY <1>3, <1>4

LEMMA ScanCompletedEffect ==
  ASSUME Typed, ExecuteScanCompleted
  PROVE  /\ Typed'
         /\ UNCHANGED <<scans, update, streamed, recalled, window, poll>>
         /\ lanes.scan # <<>> /\ lanes'.scan = Tail(lanes.scan)
         /\ \A lane \in LaneNames \ {"scan"} : lanes'[lane] = lanes[lane]
         /\ \E c \in EndCommand :
              /\ c = Head(lanes.scan)
              /\ \/ /\ ~store.open \/ store.search.generation # c.generation
                    /\ UNCHANGED <<store, results>>
                 \/ /\ store.open /\ store.search.generation = c.generation
                    /\ StoreOK(store) /\ StoreOK(store') /\ store'.open
                    /\ Rows(store') = Rows(store)
                    /\ store'.rebased = store.rebased
                    /\ store.search \in Search
                    /\ store'.search =
                         [store.search EXCEPT
                            !.complete = TRUE,
                            !.hits = @ \o Hits(Rows(store), store.search.query,
                                               c.scanned)]
                    /\ \E r \in Completed :
                         /\ results' = Append(results, r)
                         /\ r.generation = c.generation
                         /\ r.count = Len(store'.search.hits)
<1>1. /\ Head(lanes.scan) \in ScanCommand /\ lanes' \in LaneState
      /\ Head(lanes.scan).kind = "completed"
      /\ lanes.scan # <<>> /\ lanes'.scan = Tail(lanes.scan)
      /\ \A lane \in LaneNames \ {"scan"} : lanes'[lane] = lanes[lane]
      /\ UNCHANGED <<streamed, recalled, window, poll>>
  BY ScanTaken DEF ExecuteScanCompleted
<1>2. PICK c \in EndCommand : c = Head(lanes.scan)
  BY <1>1, Kinds
<1>3. CASE ~store.open \/ store.search.generation # c.generation
  BY <1>2, <1>3, <1>1 DEF ExecuteScanCompleted, Unless, Typed
<1>4. CASE store.open /\ store.search.generation = c.generation
  <2>1. StoreOK(store)
    BY <1>4 DEF Typed, NoStore
  <2>2. c.generation \in Nat /\ c.scanned \in Nat /\ c.generation \in Generations
    BY <1>2, LogStoreAssumption DEF EndCommand, Generations
  <2>3. store.search \in Search
    BY <1>4, <2>1, <2>2, SearchIs
  <2> DEFINE late == Hits(Rows(store), store.search.query, c.scanned)
             search == [store.search EXCEPT !.complete = TRUE, !.hits = @ \o late]
  <2>4. late \in Seq(Nat \ {0})
    BY <2>1, RowsTyped, <2>2, HitsAre
  <2>5. store' = [store EXCEPT !.search = search]
    <3>1. store' = [store EXCEPT !.search.complete = TRUE,
                                 !.search.hits = @ \o late]
      BY <1>2, <1>4 DEF ExecuteScanCompleted, Unless, SearchedLate
    <3> HIDE DEF late
    <3>2. QED
      BY <3>1, <2>1, <2>3 DEF StoreOK, Store, Search
  <2>6. UNCHANGED <<scans, update>>
    BY <1>2, <1>4 DEF ExecuteScanCompleted, Unless
  <2> DEFINE r == [kind |-> "completed", generation |-> c.generation,
                   count |-> Len(store'.search.hits)]
  <2>7. results' = Append(results, r)
    BY <1>2, <1>4 DEF ExecuteScanCompleted, Unless, Answers
  <2> HIDE DEF late
  <2>8. search \in Search
    BY <2>4, <2>3, Joined DEF Search
  <2> HIDE DEF search
  <2>9. /\ StoreOK(store') /\ Rows(store') = Rows(store) /\ store'.open
        /\ store'.rebased = store.rebased /\ store'.search = search
    BY <2>1, <2>5, <2>8, SearchReplaced
  <2>10. r \in Completed
    BY <2>8, <2>9, <2>2 DEF Search, Completed
  <2>11. \E x \in Completed : /\ results' = Append(results, x)
                              /\ x.generation = c.generation
                              /\ x.count = Len(store'.search.hits)
    BY <2>7, <2>10
  <2> HIDE DEF r
  <2>12. results' \in Seq(Result)
    BY <2>10, <2>7, Queued DEF Typed, Result
  <2>13. Typed'
    BY <1>1, <2>6, <2>9, <2>12 DEF Typed
  <2>14. store'.search = [store.search EXCEPT !.complete = TRUE,
                            !.hits = @ \o Hits(Rows(store), store.search.query,
                                               c.scanned)]
    BY <2>9 DEF search, late
  <2>15. QED
    BY <1>1, <1>2, <1>4, <2>1, <2>3, <2>6, <2>9, <2>11, <2>13, <2>14
<1>5. QED
  BY <1>3, <1>4

(* A search thread puts what it found, or its end, into its lane.          *)
LEMMA ScanRowEffect ==
  ASSUME Typed, NEW s \in scans, ScanRow(s)
  PROVE  /\ Typed'
         /\ UNCHANGED <<streamed, recalled, store, results, update, window, poll>>
         /\ s \in Scan /\ s.at < Len(s.rows)
         /\ scans' = (scans \ {s}) \cup {[s EXCEPT !.at = @ + 1]}
         /\ [s EXCEPT !.at = @ + 1] \in Scan
         /\ \A lane \in LaneNames \ {"scan"} : lanes'[lane] = lanes[lane]
         /\ \E c \in ScannedCommand :
              /\ lanes'.scan = Append(lanes.scan, c)
              /\ c.generation = s.generation
              /\ c.hits = IF s.rows[s.at + 1] \in Matches(s.query)
                          THEN <<s.at + 1>> ELSE <<>>
<1>1. s \in Scan /\ s.at \in Nat /\ [s EXCEPT !.at = @ + 1] \in Scan
  BY DEF Typed, Scan
<1> DEFINE c == [kind |-> "scanned", generation |-> s.generation,
                 hits |-> IF s.rows[s.at + 1] \in Matches(s.query)
                          THEN <<s.at + 1>> ELSE <<>>]
<1>2. c \in ScannedCommand
  BY <1>1 DEF OneRow, Scan, ScannedCommand
<1>3. c \in ScanCommand /\ Puts("scan", c)
  BY <1>2 DEF ScanCommand, ScanRow
<1>4. \E x \in ScannedCommand :
        /\ Puts("scan", x) /\ x \in ScanCommand
        /\ x.generation = s.generation
        /\ x.hits = IF s.rows[s.at + 1] \in Matches(s.query)
                    THEN <<s.at + 1>> ELSE <<>>
  BY <1>2, <1>3
<1> HIDE DEF c
<1>5. /\ lanes' \in LaneState
      /\ \A lane \in LaneNames \ {"scan"} : lanes'[lane] = lanes[lane]
  BY <1>3, ScanPut
<1>6. \E x \in ScannedCommand :
        /\ lanes'.scan = Append(lanes.scan, x)
        /\ x.generation = s.generation
        /\ x.hits = IF s.rows[s.at + 1] \in Matches(s.query)
                    THEN <<s.at + 1>> ELSE <<>>
  BY <1>4, ScanPut
<1>7. /\ scans' = (scans \ {s}) \cup {[s EXCEPT !.at = @ + 1]}
      /\ s.at < Len(s.rows)
      /\ UNCHANGED <<streamed, recalled, store, results, update, window, poll>>
  BY DEF ScanRow
<1>8. Typed'
  BY <1>1, <1>5, <1>7 DEF Typed
<1>9. QED
  BY <1>1, <1>5, <1>6, <1>7, <1>8

LEMMA ScanEndsEffect ==
  ASSUME Typed, NEW s \in scans, ScanEnds(s)
  PROVE  /\ Typed'
         /\ UNCHANGED <<streamed, recalled, store, results, update, window, poll>>
         /\ s \in Scan /\ s.at = Len(s.rows)
         /\ scans' = scans \ {s}
         /\ \A lane \in LaneNames \ {"scan"} : lanes'[lane] = lanes[lane]
         /\ \E c \in EndCommand :
              /\ lanes'.scan = Append(lanes.scan, c)
              /\ c.generation = s.generation /\ c.scanned = s.at
<1>1. s \in Scan /\ s.at \in Nat
  BY DEF Typed, Scan
<1> DEFINE c == [kind |-> "completed", generation |-> s.generation,
                 scanned |-> s.at]
<1>2. /\ c \in EndCommand /\ c \in ScanCommand /\ Puts("scan", c)
      /\ c.generation = s.generation /\ c.scanned = s.at
  BY <1>1 DEF EndCommand, ScanCommand, ScanEnds, Scan
<1> HIDE DEF c
<1>3. /\ lanes' \in LaneState /\ lanes'.scan = Append(lanes.scan, c)
      /\ \A lane \in LaneNames \ {"scan"} : lanes'[lane] = lanes[lane]
  BY <1>2, ScanPut
<1>4. /\ scans' = scans \ {s} /\ s.at = Len(s.rows)
      /\ UNCHANGED <<streamed, recalled, store, results, update, window, poll>>
  BY DEF ScanEnds
<1>5. Typed'
  BY <1>3, <1>4 DEF Typed
<1>6. QED
  BY <1>1, <1>2, <1>3, <1>4, <1>5

LEMMA ScanCancelledTyped ==
  ASSUME Typed, NEW s \in scans, ScanCancelled(s)
  PROVE  Typed'
  BY DEF Typed, ScanCancelled

-----------------------------------------------------------------------------
(* What the window does with each result.                                  *)

LEMMA ReceivedEffect ==
  ASSUME Typed, NEW kind, Received(kind)
  PROVE  /\ UNCHANGED <<lanes, streamed, recalled, store, scans, update, poll>>
         /\ results # <<>> /\ Head(results) \in Result
         /\ Head(results).kind = kind
         /\ results' = Tail(results) /\ results' \in Seq(Result)
         /\ window = NoWindow \/ window \in OpenWindow
         /\ window.open => window \in OpenWindow
<1>1. results # <<>> /\ results \in Seq(Result)
  BY DEF Received, Typed
<1>2. Head(results) \in Result /\ Tail(results) \in Seq(Result)
  BY <1>1
<1>3. window.open => window \in OpenWindow
  BY DEF Typed, NoWindow
<1>4. QED
  BY <1>1, <1>2, <1>3 DEF Received, input, Typed

LEMMA RebasedEffect ==
  ASSUME Typed, Spare, ApplyRebased
  PROVE  /\ Typed'
         /\ UNCHANGED <<lanes, streamed, recalled, store, scans, update, poll>>
         /\ results # <<>> /\ results' = Tail(results)
         /\ Head(results) \in Rebased
         /\ ~window.open => window' = window
         /\ window.open =>
              /\ window \in OpenWindow /\ window' \in OpenWindow
              /\ window'.pages = NoRows /\ window'.liveRows = NoRows
              /\ window'.total = Head(results).total
              /\ window'.query = window.query
              /\ IF window.query = NoQuery
                 THEN /\ window'.generation = window.generation
                      /\ window'.due = window.due
                      /\ window'.complete = window.complete
                 ELSE /\ window'.generation = window.generation + 1
                      /\ window'.count = 0 /\ ~window'.complete /\ window'.due
<1>1. /\ UNCHANGED <<lanes, streamed, recalled, store, scans, update, poll>>
      /\ results # <<>> /\ Head(results) \in Result
      /\ Head(results).kind = "rebased"
      /\ results' = Tail(results) /\ results' \in Seq(Result)
      /\ window.open => window \in OpenWindow
  BY ReceivedEffect DEF ApplyRebased
<1>2. Head(results) \in Rebased /\ Head(results).total \in Nat
  BY <1>1, Kinds DEF Rebased
<1>3. CASE ~window.open
  BY <1>3, <1>1, <1>2 DEF ApplyRebased, Applies, Typed
<1>4. CASE window.open
  <2>1. window \in OpenWindow
    BY <1>1, <1>4
  <2> DEFINE told == [Cleared(window) EXCEPT !.total = Head(results).total]
  <2>2. window' = Restarted(told)
    BY <1>4 DEF ApplyRebased, Applies
  <2>3. /\ told \in OpenWindow /\ told.total = Head(results).total
        /\ told.pages = NoRows /\ told.liveRows = NoRows
        /\ \A f \in {"generation", "query", "due", "complete"} : told[f] = window[f]
    <3> DEFINE cleared == Cleared(window)
    <3>1. /\ cleared \in OpenWindow
          /\ cleared.pages = NoRows /\ cleared.liveRows = NoRows
          /\ \A f \in {"generation", "query", "due", "complete"} :
               cleared[f] = window[f]
      BY <2>1, ClearedIs
    <3> HIDE DEF cleared
    <3>2. told = [cleared EXCEPT !.total = Head(results).total]
      BY DEF cleared
    <3> HIDE DEF told
    <3>3. QED
      BY <3>1, <3>2, <1>2 DEF OpenWindow
  <2> HIDE DEF told
  <2>4. told.query # NoQuery => told.generation < MaxGenerations
    BY <1>1, Dequeued, <2>3, <1>4 DEF Typed, CaughtUp, Spare, ToRebase
  <2>5. /\ window' \in OpenWindow
        /\ \A f \in {"total", "query", "pages", "liveRows"} : window'[f] = told[f]
        /\ IF told.query = NoQuery THEN window' = told
           ELSE /\ window'.generation = told.generation + 1
                /\ window'.count = 0 /\ ~window'.complete /\ window'.due
    BY <2>2, <2>3, <2>4, RestartedIs
  <2>6. Typed'
    BY <1>1, <2>5 DEF Typed
  <2>7. /\ window'.pages = NoRows /\ window'.liveRows = NoRows
        /\ window'.total = Head(results).total
        /\ window'.query = window.query
    BY <2>3, <2>5
  <2>8. IF window.query = NoQuery
        THEN /\ window'.generation = window.generation
             /\ window'.due = window.due
             /\ window'.complete = window.complete
        ELSE /\ window'.generation = window.generation + 1
             /\ window'.count = 0 /\ ~window'.complete /\ window'.due
    BY <2>3, <2>5
  <2>9. QED
    BY <1>1, <1>2, <1>4, <2>1, <2>5, <2>6, <2>7, <2>8
<1>5. QED
  BY <1>3, <1>4

(* The number of matches of the search of the window                       *)
CountedFields == {"generation", "query", "filter", "due", "pages", "liveRows"}

LEMMA ProgressEffect ==
  ASSUME Typed, ApplyProgress
  PROVE  /\ Typed'
         /\ UNCHANGED <<lanes, streamed, recalled, store, scans, update, poll>>
         /\ results # <<>> /\ results' = Tail(results)
         /\ Head(results) \in Progress
         /\ ~window.open => window' = window
         /\ window.open =>
              /\ window \in OpenWindow /\ window' \in OpenWindow
              /\ \A f \in CountedFields : window'[f] = window[f]
              /\ IF window.generation # Head(results).generation
                 THEN window' = window
                 ELSE /\ window'.count = Head(results).count
                      /\ window'.total = Head(results).total
                      /\ ~window'.complete
<1>1. /\ UNCHANGED <<lanes, streamed, recalled, store, scans, update, poll>>
      /\ results # <<>> /\ Head(results) \in Result
      /\ Head(results).kind = "progress"
      /\ results' = Tail(results) /\ results' \in Seq(Result)
      /\ window.open => window \in OpenWindow
  BY ReceivedEffect DEF ApplyProgress
<1>2. PICK r \in Progress : r = Head(results)
  BY <1>1, Kinds
<1>3. r.count \in Nat /\ r.total \in Nat
  BY <1>2 DEF Progress
<1>4. CASE ~window.open \/ window.generation # r.generation
  BY <1>2, <1>4, <1>1 DEF ApplyProgress, Applies, Typed
<1>5. CASE window.open /\ window.generation = r.generation
  <2>1. window \in OpenWindow
    BY <1>1, <1>5
  <2>2. PICK counted : counted = Counted(window, r.count)
    OBVIOUS
  <2>3. /\ counted \in OpenWindow /\ counted.count = r.count
        /\ \A f \in CountedFields : counted[f] = window[f]
    BY <2>1, <2>2, <1>3, CountedIs DEF CountedFields
  <2>4. window' = [counted EXCEPT !.total = r.total, !.complete = FALSE]
    BY <1>2, <1>5, <2>2 DEF ApplyProgress, Applies
  <2>5. /\ window' \in OpenWindow /\ window'.count = r.count
        /\ window'.total = r.total /\ ~window'.complete
        /\ \A f \in CountedFields : window'[f] = counted[f]
    BY <2>3, <2>4, <1>3 DEF OpenWindow, CountedFields
  <2>6. Typed'
    BY <1>1, <2>5 DEF Typed
  <2>7. QED
    BY <1>1, <1>2, <1>5, <2>1, <2>3, <2>5, <2>6
<1>6. QED
  BY <1>4, <1>5

LEMMA CompletedEffect ==
  ASSUME Typed, ApplyCompleted
  PROVE  /\ Typed'
         /\ UNCHANGED <<lanes, streamed, recalled, store, scans, update, poll>>
         /\ results # <<>> /\ results' = Tail(results)
         /\ Head(results) \in Completed
         /\ ~window.open => window' = window
         /\ window.open =>
              /\ window \in OpenWindow /\ window' \in OpenWindow
              /\ \A f \in CountedFields : window'[f] = window[f]
              /\ window'.total = window.total
              /\ IF window.generation # Head(results).generation
                 THEN window' = window
                 ELSE /\ window'.count = Head(results).count
                      /\ window'.complete
<1>1. /\ UNCHANGED <<lanes, streamed, recalled, store, scans, update, poll>>
      /\ results # <<>> /\ Head(results) \in Result
      /\ Head(results).kind = "completed"
      /\ results' = Tail(results) /\ results' \in Seq(Result)
      /\ window.open => window \in OpenWindow
  BY ReceivedEffect DEF ApplyCompleted
<1>2. PICK r \in Completed : r = Head(results)
  BY <1>1, Kinds
<1>3. r.count \in Nat
  BY <1>2 DEF Completed
<1>4. CASE ~window.open \/ window.generation # r.generation
  BY <1>2, <1>4, <1>1 DEF ApplyCompleted, Applies, Typed
<1>5. CASE window.open /\ window.generation = r.generation
  <2>1. window \in OpenWindow
    BY <1>1, <1>5
  <2>2. PICK counted : counted = Counted(window, r.count)
    OBVIOUS
  <2>3. /\ counted \in OpenWindow /\ counted.count = r.count
        /\ counted.total = window.total
        /\ \A f \in CountedFields : counted[f] = window[f]
    BY <2>1, <2>2, <1>3, CountedIs DEF CountedFields
  <2>4. window' = [counted EXCEPT !.complete = TRUE]
    BY <1>2, <1>5, <2>2 DEF ApplyCompleted, Applies
  <2>5. /\ window' \in OpenWindow /\ window'.count = r.count
        /\ window'.total = counted.total /\ window'.complete
        /\ \A f \in CountedFields : window'[f] = counted[f]
    BY <2>3, <2>4, <1>3 DEF OpenWindow, CountedFields
  <2>6. Typed'
    BY <1>1, <2>5 DEF Typed
  <2>7. QED
    BY <1>1, <1>2, <1>5, <2>1, <2>3, <2>5, <2>6
<1>6. QED
  BY <1>4, <1>5

LEMMA PageEffect ==
  ASSUME Typed, ApplyPage
  PROVE  /\ Typed'
         /\ UNCHANGED <<lanes, streamed, recalled, store, scans, update, poll>>
         /\ results # <<>> /\ results' = Tail(results)
         /\ Head(results) \in Page
         /\ ~window.open => window' = window
         /\ window.open =>
              /\ window \in OpenWindow /\ window' \in OpenWindow
              /\ \A f \in {"generation", "query", "due", "complete"} :
                   window'[f] = window[f]
              /\ IF Head(results).key.generation # window.generation
                 THEN window' = window
                 ELSE LET r == Head(results)
                      IN  /\ window'.pages = With(window.pages, r.key, r.rows)
                          /\ DOMAIN window'.liveRows \subseteq DOMAIN window.liveRows
                          /\ \A i \in DOMAIN window'.liveRows :
                               window'.liveRows[i] = window.liveRows[i]
                          /\ IF r.key.filter
                             THEN /\ window'.total = window.total
                                  /\ window'.count = IF r.total < window.count
                                                     THEN window.count ELSE r.total
                             ELSE /\ window'.total = r.total
                                  /\ window'.count = window.count
<1>1. /\ UNCHANGED <<lanes, streamed, recalled, store, scans, update, poll>>
      /\ results # <<>> /\ Head(results) \in Result
      /\ Head(results).kind = "page"
      /\ results' = Tail(results) /\ results' \in Seq(Result)
      /\ window.open => window \in OpenWindow
  BY ReceivedEffect DEF ApplyPage
<1>2. PICK r \in Page : r = Head(results)
  BY <1>1, Kinds
<1>3. r.key \in Key /\ r.rows \in Seq(Records) /\ r.total \in Nat
  BY <1>2 DEF Page
<1>4. CASE ~window.open \/ r.key.generation # window.generation
  BY <1>2, <1>4, <1>1 DEF ApplyPage, Applies, Typed
<1>5. CASE window.open /\ r.key.generation = window.generation
  <2>1. window \in OpenWindow
    BY <1>1, <1>5
  <2>2. PICK loaded : loaded = Inserted(window, r.key, r.rows)
    OBVIOUS
  <2>3. /\ loaded \in OpenWindow
        /\ loaded.pages = With(window.pages, r.key, r.rows)
        /\ DOMAIN loaded.liveRows \subseteq DOMAIN window.liveRows
        /\ \A i \in DOMAIN loaded.liveRows : loaded.liveRows[i] = window.liveRows[i]
        /\ \A f \in {"open", "total", "generation", "query", "filter",
                     "count", "complete", "due"} : loaded[f] = window[f]
    BY <2>1, <2>2, <1>3, InsertedIs
  <2> DEFINE another == r.key.filter /\ r.total < window.count
  <2>4. window' = IF ~r.key.filter THEN [loaded EXCEPT !.total = r.total]
                  ELSE [loaded EXCEPT
                          !.count = IF another THEN @ ELSE r.total,
                          !.stale = IF another THEN @ \cup {r.key} ELSE @]
    BY <1>2, <1>5, <2>2 DEF ApplyPage, Applies
  <2>5. /\ window' \in OpenWindow
        /\ \A f \in {"generation", "query", "due", "complete", "pages", "liveRows"} :
             window'[f] = loaded[f]
        /\ IF r.key.filter
           THEN /\ window'.total = window.total
                /\ window'.count = IF r.total < window.count
                                   THEN window.count ELSE r.total
           ELSE /\ window'.total = r.total
                /\ window'.count = window.count
    <3>1. CASE ~r.key.filter
      BY <3>1, <2>3, <2>4, <1>3 DEF OpenWindow
    <3>2. CASE r.key.filter
      <4>1. PICK count, stale :
              /\ count = IF another THEN loaded.count ELSE r.total
              /\ stale = IF another THEN loaded.stale \cup {r.key} ELSE loaded.stale
        OBVIOUS
      <4>2. window' = [loaded EXCEPT !.count = count, !.stale = stale]
        BY <3>2, <4>1, <2>4
      <4>3. count \in Nat /\ stale \in SUBSET Key
        BY <4>1, <2>3, <1>3 DEF OpenWindow
      <4>4. count = IF r.total < window.count THEN window.count ELSE r.total
        BY <4>1, <3>2, <2>3
      <4> HIDE DEF another
      <4>5. QED
        BY <3>2, <4>2, <4>3, <4>4, <2>3 DEF OpenWindow
    <3>3. QED
      BY <3>1, <3>2
  <2> HIDE DEF another
  <2>6. Typed'
    BY <1>1, <2>5 DEF Typed
  <2>7. /\ window'.pages = With(window.pages, r.key, r.rows)
        /\ DOMAIN window'.liveRows \subseteq DOMAIN window.liveRows
        /\ \A i \in DOMAIN window'.liveRows : window'.liveRows[i] = window.liveRows[i]
        /\ \A f \in {"generation", "query", "due", "complete"} :
             window'[f] = window[f]
    BY <2>3, <2>5
  <2>8. QED
    BY <1>1, <1>2, <1>5, <2>1, <2>5, <2>6, <2>7
<1>6. QED
  BY <1>4, <1>5

(* The rows of the update over those that are there                        *)
LEMMA UpdateEffect ==
  ASSUME Typed, ApplyUpdate
  PROVE  /\ Typed'
         /\ UNCHANGED <<lanes, streamed, recalled, store, scans, results>>
         /\ update \in Update /\ update' = NoUpdate
         /\ results = results'
         /\ ~window.open => window' = window
         /\ window.open =>
              /\ window \in OpenWindow /\ window' \in OpenWindow
              /\ \A f \in {"generation", "query", "due", "complete", "pages"} :
                   window'[f] = window[f]
              /\ window'.total = update.total
              /\ window'.count = IF update.search # <<>>
                                    /\ update.search[1] = window.generation
                                 THEN update.search[2] ELSE window.count
              /\ \A i \in DOMAIN window'.liveRows :
                   \/ /\ i \in DOMAIN update.rows
                      /\ window'.liveRows[i] = update.rows[i]
                   \/ /\ i \in DOMAIN window.liveRows
                      /\ window'.liveRows[i] = window.liveRows[i]
<1>1. /\ UNCHANGED <<lanes, streamed, recalled, store, scans, results>>
      /\ update \in Update /\ update' = NoUpdate /\ poll' = "receiving"
      /\ window.open => window \in OpenWindow
  BY DEF ApplyUpdate, input, Typed, NoWindow
<1>2. CASE ~window.open
  BY <1>2, <1>1 DEF ApplyUpdate, Applies, Typed
<1>3. CASE window.open
  <2>1. window \in OpenWindow
    BY <1>1, <1>3
  <2>2. /\ update.total \in Nat /\ update.rows \in Caches
        /\ update.search # <<>> => update.search \in Generations \X Nat
    BY <1>1 DEF Update
  <2> DEFINE ours == update.search # <<>> /\ update.search[1] = window.generation
             counted == IF ours THEN Counted(window, update.search[2]) ELSE window
             all == [i \in DOMAIN window.liveRows \cup DOMAIN update.rows |->
                       IF i \in DOMAIN update.rows
                       THEN update.rows[i] ELSE window.liveRows[i]]
             live == IF window.filter /\ window.query # NoQuery
                     THEN window.liveRows ELSE Newest(all)
  <2>3. window' = [counted EXCEPT !.total = update.total, !.liveRows = live]
    BY <1>3 DEF ApplyUpdate, Applies
  <2>4. /\ counted \in OpenWindow
        /\ \A f \in {"generation", "query", "due", "complete", "pages"} :
             counted[f] = window[f]
        /\ counted.count = IF ours THEN update.search[2] ELSE window.count
    <3>1. CASE ours
      <4>1. PICK count \in Nat : count = update.search[2]
        BY <2>2, <3>1
      <4>2. counted = Counted(window, count)
        BY <3>1, <4>1
      <4> HIDE DEF counted, ours
      <4>3. QED
        BY <3>1, <4>1, <4>2, <2>1, CountedIs
    <3>2. CASE ~ours
      BY <3>2, <2>1
    <3>3. QED
      BY <3>1, <3>2
  <2>5. /\ live \in Caches
        /\ \A i \in DOMAIN live :
             \/ i \in DOMAIN update.rows /\ live[i] = update.rows[i]
             \/ i \in DOMAIN window.liveRows /\ live[i] = window.liveRows[i]
    <3>1. window.liveRows \in Caches
      BY <2>1 DEF OpenWindow
    <3>2. CASE window.filter /\ window.query # NoQuery
      BY <3>1, <3>2
    <3>3. CASE ~(window.filter /\ window.query # NoQuery)
      <4>1. /\ DOMAIN window.liveRows \subseteq Nat \ {0}
            /\ DOMAIN update.rows \subseteq Nat \ {0}
            /\ IsFiniteSet(DOMAIN window.liveRows) /\ IsFiniteSet(DOMAIN update.rows)
            /\ \A i \in DOMAIN window.liveRows : window.liveRows[i] \in Records
            /\ \A i \in DOMAIN update.rows : update.rows[i] \in Records
        BY <3>1, <2>2, CacheIs DEF RowSets
      <4>2. /\ DOMAIN all = DOMAIN window.liveRows \cup DOMAIN update.rows
            /\ \A i \in DOMAIN all : all[i] = IF i \in DOMAIN update.rows
                                              THEN update.rows[i]
                                              ELSE window.liveRows[i]
        OBVIOUS
      <4> HIDE DEF all
      <4>3. IsFiniteSet(DOMAIN window.liveRows \cup DOMAIN update.rows)
        BY <4>1, FS_Union
      <4>4. /\ DOMAIN all \subseteq Nat \ {0} /\ IsFiniteSet(DOMAIN all)
            /\ \A i \in DOMAIN all : all[i] \in Records
        BY <4>1, <4>2, <4>3
      <4>5. /\ Newest(all) \in Caches
            /\ DOMAIN Newest(all) \subseteq DOMAIN all
            /\ \A i \in DOMAIN Newest(all) : Newest(all)[i] = all[i]
        BY <4>4, NewestCached
      <4>6. live = Newest(all)
        BY <3>3
      <4> HIDE DEF live
      <4>7. QED
        BY <4>2, <4>5, <4>6
    <3>4. QED
      BY <3>2, <3>3
  <2> HIDE DEF counted, live, all, ours
  <2>6. /\ window' \in OpenWindow /\ window'.total = update.total
        /\ window'.liveRows = live /\ window'.count = counted.count
        /\ \A f \in {"generation", "query", "due", "complete", "pages"} :
             window'[f] = counted[f]
    BY <2>2, <2>3, <2>4, <2>5 DEF OpenWindow
  <2>7. Typed'
    BY <1>1, <2>6 DEF Typed
  <2>8. window'.count = IF update.search # <<>>
                           /\ update.search[1] = window.generation
                        THEN update.search[2] ELSE window.count
    BY <2>4, <2>6 DEF ours
  <2>9. \A f \in {"generation", "query", "due", "complete", "pages"} :
          window'[f] = window[f]
    BY <2>4, <2>6
  <2>10. QED
    BY <1>1, <1>3, <2>1, <2>5, <2>6, <2>7, <2>8, <2>9
<1>4. QED
  BY <1>2, <1>3

LEMMA FrameTyped ==
  Typed /\ (FindNoResult \/ Draw \/ NextFrame) =>
    /\ Typed'
    /\ UNCHANGED <<lanes, streamed, recalled, store, scans, results, update,
                   window>>
  BY DEF Typed, FindNoResult, Draw, NextFrame, input

-----------------------------------------------------------------------------
(* What happens while a frame is drawn.                                    *)

LEMMA DrawingEffect ==
  ASSUME Typed, Drawing
  PROVE  /\ UNCHANGED <<streamed, recalled, store, scans, results, update>>
         /\ poll' = "receiving" /\ window.open /\ window \in OpenWindow
  BY DEF Drawing, Typed, NoWindow

LEMMA RequestEffect ==
  ASSUME Typed, RequestPage
  PROVE  /\ Typed'
         /\ UNCHANGED <<streamed, recalled, store, scans, results, update>>
         /\ \A lane \in LaneNames \ {"control"} : lanes'[lane] = lanes[lane]
         /\ \E c \in PageCommand : lanes'.control = Append(lanes.control, c)
         /\ window.open /\ window \in OpenWindow /\ window' \in OpenWindow
         /\ \A f \in {"total", "generation", "query", "filter", "count",
                      "complete", "due", "pages", "liveRows"} :
              window'[f] = window[f]
<1>1. /\ UNCHANGED <<streamed, recalled, store, scans, results, update>>
      /\ poll' = "receiving" /\ window.open /\ window \in OpenWindow
  BY DrawingEffect DEF RequestPage
<1>2. PICK row \in 1..Shown(window) :
        /\ Puts("control", [kind |-> "page", key |-> KeyOf(window, row)])
        /\ window' = [window EXCEPT !.pending = @ \cup {KeyOf(window, row)}]
  BY DEF RequestPage
<1>3. KeyOf(window, row) \in Key
  BY <1>1, LogStoreAssumption DEF OpenWindow, Shown, KeyOf, Key
<1>4. PICK c \in PageCommand : c.key = KeyOf(window, row) /\ Puts("control", c)
  BY <1>2, <1>3 DEF PageCommand
<1>5. /\ lanes' \in LaneState /\ lanes'.control = Append(lanes.control, c)
      /\ \A lane \in LaneNames \ {"control"} : lanes'[lane] = lanes[lane]
  BY <1>4, ControlPut DEF ControlCommand
<1>6. /\ window' \in OpenWindow
      /\ \A f \in {"total", "generation", "query", "filter", "count",
                   "complete", "due", "pages", "liveRows"} :
           window'[f] = window[f]
  BY <1>1, <1>2, <1>3 DEF OpenWindow
<1>7. Typed'
  BY <1>1, <1>5, <1>6 DEF Typed
<1>8. QED
  BY <1>1, <1>5, <1>6, <1>7

LEMMA QueryEffect ==
  ASSUME Typed, ChangeQuery
  PROVE  /\ Typed'
         /\ UNCHANGED <<lanes, streamed, recalled, store, scans, results, update>>
         /\ window.open /\ window \in OpenWindow /\ window' \in OpenWindow
         /\ window'.pages = NoRows /\ window'.liveRows = NoRows
         /\ window'.total = window.total
         /\ window'.generation = window.generation + 1
         /\ window'.generation < MaxGenerations
         /\ window'.count = 0 /\ window'.due
         /\ window'.complete = (window'.query = NoQuery)
<1>1. /\ UNCHANGED <<lanes, streamed, recalled, store, scans, results, update>>
      /\ poll' = "receiving" /\ window.open /\ window \in OpenWindow
      /\ window.generation < MaxGenerations - 1
  BY DrawingEffect DEF ChangeQuery
<1>2. PICK q \in Queries \cup {NoQuery} :
        window' = [Cleared(window) EXCEPT
                     !.query = q, !.generation = @ + 1, !.count = 0,
                     !.complete = (q = NoQuery), !.due = TRUE]
  BY DEF ChangeQuery
<1>3. PICK cleared : cleared = Cleared(window)
  OBVIOUS
<1>4. /\ cleared \in OpenWindow
      /\ cleared.pages = NoRows /\ cleared.liveRows = NoRows
      /\ cleared.generation = window.generation /\ cleared.total = window.total
  BY <1>1, <1>3, ClearedIs
<1>5. /\ window.generation + 1 \in Generations
      /\ window.generation + 1 < MaxGenerations
  BY <1>1, LogStoreAssumption DEF OpenWindow, Generations
<1>6. PICK none \in BOOLEAN : none = (q = NoQuery)
  OBVIOUS
<1>7. window' = [cleared EXCEPT !.query = q, !.generation = window.generation + 1,
                                !.count = 0, !.complete = none, !.due = TRUE]
  BY <1>2, <1>3, <1>4, <1>6
<1>8. /\ window' \in OpenWindow /\ window'.pages = NoRows
      /\ window'.liveRows = NoRows /\ window'.total = window.total
      /\ window'.generation = window.generation + 1
      /\ window'.count = 0 /\ window'.due /\ window'.complete = none
      /\ window'.query = q
  BY <1>4, <1>5, <1>7 DEF OpenWindow
<1>9. Typed'
  BY <1>1, <1>8 DEF Typed
<1>10. QED
  BY <1>1, <1>5, <1>6, <1>8, <1>9

LEMMA ToggleEffect ==
  ASSUME Typed, ToggleFilter
  PROVE  /\ Typed'
         /\ UNCHANGED <<lanes, streamed, recalled, store, scans, results, update>>
         /\ window.open /\ window \in OpenWindow /\ window' \in OpenWindow
         /\ window'.pages = NoRows /\ window'.liveRows = NoRows
         /\ \A f \in {"total", "generation", "query", "count", "complete", "due"} :
              window'[f] = window[f]
<1>1. /\ UNCHANGED <<lanes, streamed, recalled, store, scans, results, update>>
      /\ poll' = "receiving" /\ window.open /\ window \in OpenWindow
  BY DrawingEffect DEF ToggleFilter
<1>2. PICK cleared : cleared = Cleared(window)
  OBVIOUS
<1>3. /\ cleared \in OpenWindow
      /\ cleared.pages = NoRows /\ cleared.liveRows = NoRows
      /\ \A f \in {"total", "generation", "query", "count", "complete", "due"} :
           cleared[f] = window[f]
  BY <1>1, <1>2, ClearedIs
<1>4. window' = [cleared EXCEPT !.filter = ~@]
  BY <1>2 DEF ToggleFilter
<1>5. /\ window' \in OpenWindow
      /\ window'.pages = NoRows /\ window'.liveRows = NoRows
      /\ \A f \in {"total", "generation", "query", "count", "complete", "due"} :
           window'[f] = cleared[f]
  BY <1>3, <1>4 DEF OpenWindow
<1>6. Typed'
  BY <1>1, <1>5 DEF Typed
<1>7. QED
  BY <1>1, <1>3, <1>5, <1>6

LEMMA SyncEffect ==
  ASSUME Typed, SyncSearch
  PROVE  /\ Typed'
         /\ UNCHANGED <<streamed, recalled, store, scans, results, update>>
         /\ \A lane \in LaneNames \ {"control"} : lanes'[lane] = lanes[lane]
         /\ window.open /\ window.due
         /\ window \in OpenWindow /\ window' \in OpenWindow
         /\ \A f \in {"total", "generation", "query", "count", "pages", "liveRows"} :
              window'[f] = window[f]
         /\ ~window'.due
         /\ window'.complete = (window.query = NoQuery)
         /\ IF window.query = NoQuery THEN lanes'.control = lanes.control
            ELSE \E c \in SearchCommand :
                   /\ lanes'.control = Append(lanes.control, c)
                   /\ c.query = window.query
                   /\ c.generation = window.generation
<1>1. /\ UNCHANGED <<streamed, recalled, store, scans, results, update>>
      /\ poll' = "receiving" /\ window.open /\ window \in OpenWindow
  BY DrawingEffect DEF SyncSearch
<1>2. CASE window.query = NoQuery
  <2>1. /\ window.due /\ window' = [window EXCEPT !.due = FALSE, !.complete = TRUE]
        /\ lanes' = lanes
    BY <1>2 DEF SyncSearch
  <2>2. /\ window' \in OpenWindow /\ ~window'.due /\ window'.complete
        /\ \A f \in {"total", "generation", "query", "count", "pages", "liveRows"} :
             window'[f] = window[f]
    BY <1>1, <2>1 DEF OpenWindow
  <2>3. Typed'
    BY <1>1, <2>1, <2>2 DEF Typed
  <2>4. window'.complete \in BOOLEAN
    BY <2>2 DEF OpenWindow
  <2>5. QED
    BY <1>1, <1>2, <2>1, <2>2, <2>3, <2>4
<1>3. CASE window.query # NoQuery
  <2>1. /\ window.due /\ window' = [window EXCEPT !.due = FALSE, !.complete = FALSE]
        /\ Puts("control", [kind |-> "search", query |-> window.query,
                            generation |-> window.generation])
    BY <1>3 DEF SyncSearch
  <2>2. /\ window' \in OpenWindow /\ ~window'.due /\ ~window'.complete
        /\ \A f \in {"total", "generation", "query", "count", "pages", "liveRows"} :
             window'[f] = window[f]
    BY <1>1, <2>1 DEF OpenWindow
  <2>3. PICK c \in SearchCommand : /\ Puts("control", c) /\ c.query = window.query
                                   /\ c.generation = window.generation
    BY <1>1, <1>3, <2>1 DEF SearchCommand, OpenWindow
  <2>4. /\ lanes' \in LaneState /\ lanes'.control = Append(lanes.control, c)
        /\ \A lane \in LaneNames \ {"control"} : lanes'[lane] = lanes[lane]
    BY <2>3, ControlPut DEF ControlCommand
  <2>5. Typed'
    BY <1>1, <2>2, <2>4 DEF Typed
  <2>6. window'.complete \in BOOLEAN
    BY <2>2 DEF OpenWindow
  <2>7. QED
    BY <1>1, <1>3, <2>1, <2>2, <2>3, <2>4, <2>5, <2>6
<1>4. QED
  BY <1>2, <1>3

LEMMA CloseWindowEffect ==
  ASSUME Typed, CloseWindow
  PROVE  /\ Typed'
         /\ UNCHANGED <<streamed, recalled, store, scans, results, update>>
         /\ \A lane \in LaneNames \ {"control"} : lanes'[lane] = lanes[lane]
         /\ window' = NoWindow /\ ~window'.open
         /\ \/ lanes'.control = lanes.control
            \/ \E c \in CloseCommand : lanes'.control = Append(lanes.control, c)
<1>1. /\ UNCHANGED <<streamed, recalled, store, scans, results, update>>
      /\ poll' = "receiving"
  BY DrawingEffect DEF CloseWindow
<1>2. window' = NoWindow /\ ~window'.open
  BY DEF CloseWindow, NoWindow
<1>3. CASE Room("control")
  <2>1. PICK c \in CloseCommand : Puts("control", c)
    BY <1>3 DEF CloseWindow, CloseCommand
  <2>2. /\ lanes' \in LaneState /\ lanes'.control = Append(lanes.control, c)
        /\ \A lane \in LaneNames \ {"control"} : lanes'[lane] = lanes[lane]
    BY <2>1, ControlPut DEF ControlCommand
  <2>3. Typed'
    BY <1>1, <1>2, <2>2 DEF Typed
  <2>4. QED
    BY <1>1, <1>2, <2>2, <2>3
<1>4. CASE ~Room("control")
  BY <1>4, <1>1, <1>2 DEF CloseWindow, Typed
<1>5. QED
  BY <1>3, <1>4

-----------------------------------------------------------------------------
(* The steps one by one, and the types, the end of the history and the     *)
(* rebase after each of them.                                              *)

LEMMA EachStep ==
  ASSUME [Next]_vars
  PROVE  \/ StreamAppends \/ HistoryAppends
         \/ ExecuteSearch \/ ExecuteLoadPage \/ ExecuteClose
         \/ ExecuteAppend \/ ExecuteRecall \/ ExecuteComplete
         \/ ExecuteScanned \/ ExecuteScanCompleted
         \/ \E s \in scans : ScanRow(s) \/ ScanEnds(s) \/ ScanCancelled(s)
         \/ ApplyRebased \/ ApplyProgress \/ ApplyCompleted \/ ApplyPage
         \/ FindNoResult \/ ApplyUpdate \/ Draw \/ NextFrame
         \/ SyncSearch
         \/ RequestPage \/ ChangeQuery \/ ToggleFilter \/ CloseWindow
         \/ UNCHANGED vars
  BY DEF Next, FeedStep, StoreStep, ControlStep, BackfillStep, ScannedStep,
     ScanStep, FrameStep, UserStep

LEMMA TypedNext ==
  ASSUME Typed, Backfilled, Spare, HitsFit, [Next]_vars
  PROVE  Typed'
<1>1. CASE StreamAppends
  BY <1>1, StreamTyped
<1>2. CASE HistoryAppends
  BY <1>2, HistoryTyped
<1>3. CASE ExecuteSearch
  BY <1>3, SearchEffect
<1>4. CASE ExecuteLoadPage
  BY <1>4, LoadPageEffect
<1>5. CASE ExecuteClose
  BY <1>5, CloseEffect
<1>6. CASE ExecuteAppend
  BY <1>6, AppendEffect
<1>7. CASE ExecuteRecall
  BY <1>7, RecallEffect
<1>8. CASE ExecuteComplete
  BY <1>8, CompleteEffect
<1>9. CASE ExecuteScanned
  BY <1>9, ScannedEffect
<1>10. CASE ExecuteScanCompleted
  BY <1>10, ScanCompletedEffect
<1>11. CASE \E s \in scans : ScanRow(s) \/ ScanEnds(s) \/ ScanCancelled(s)
  BY <1>11, ScanRowEffect, ScanEndsEffect, ScanCancelledTyped
<1>12. CASE ApplyRebased
  BY <1>12, RebasedEffect
<1>13. CASE ApplyProgress
  BY <1>13, ProgressEffect
<1>14. CASE ApplyCompleted
  BY <1>14, CompletedEffect
<1>15. CASE ApplyPage
  BY <1>15, PageEffect
<1>16. CASE FindNoResult \/ Draw \/ NextFrame
  BY <1>16, FrameTyped
<1>17. CASE ApplyUpdate
  BY <1>17, UpdateEffect
<1>18. CASE SyncSearch
  BY <1>18, SyncEffect
<1>19. CASE RequestPage
  BY <1>19, RequestEffect
<1>20. CASE ChangeQuery
  BY <1>20, QueryEffect
<1>21. CASE ToggleFilter
  BY <1>21, ToggleEffect
<1>22. CASE CloseWindow
  BY <1>22, CloseWindowEffect
<1>23. CASE UNCHANGED vars
  BY <1>23 DEF Typed, vars
<1>24. QED
  BY <1>1, <1>2, <1>3, <1>4, <1>5, <1>6, <1>7, <1>8, <1>9, <1>10, <1>11, <1>12,
     <1>13, <1>14, <1>15, <1>16, <1>17, <1>18, <1>19, <1>20, <1>21, <1>22, <1>23,
     EachStep

(* Only three steps touch the history, and one numbers the rows again.     *)
LEMMA NotBackfill ==
  ASSUME Typed, HitsFit, Spare, [Next]_vars,
         ~HistoryAppends, ~ExecuteRecall, ~ExecuteComplete
  PROVE  /\ recalled' = recalled /\ lanes'.backfill = lanes.backfill
         /\ store'.open => store.open /\ store'.rebased = store.rebased
<1> USE DEF LaneNames
<1>1. CASE StreamAppends
  BY <1>1 DEF StreamAppends, Puts, Typed, LaneState
<1>2. CASE ExecuteSearch
  BY <1>2, SearchEffect
<1>3. CASE ExecuteLoadPage
  BY <1>3, LoadPageEffect
<1>4. CASE ExecuteClose
  BY <1>4, CloseEffect
<1>5. CASE ExecuteAppend
  BY <1>5, AppendEffect, RowAppended
<1>6. CASE ExecuteScanned
  BY <1>6, ScannedEffect
<1>7. CASE ExecuteScanCompleted
  BY <1>7, ScanCompletedEffect
<1>8. CASE \E s \in scans : ScanRow(s) \/ ScanEnds(s) \/ ScanCancelled(s)
  <2>1. PICK s \in scans : ScanRow(s) \/ ScanEnds(s) \/ ScanCancelled(s)
    BY <1>8
  <2>2. CASE ScanRow(s)
    BY <2>2, ScanRowEffect
  <2>3. CASE ScanEnds(s)
    BY <2>3, ScanEndsEffect
  <2>4. CASE ScanCancelled(s)
    BY <2>4 DEF ScanCancelled
  <2>5. QED
    BY <2>1, <2>2, <2>3, <2>4
<1>9. CASE ApplyRebased
  BY <1>9, RebasedEffect
<1>10. CASE ApplyProgress
  BY <1>10, ProgressEffect
<1>11. CASE ApplyCompleted
  BY <1>11, CompletedEffect
<1>12. CASE ApplyPage
  BY <1>12, PageEffect
<1>13. CASE FindNoResult \/ Draw \/ NextFrame
  BY <1>13, FrameTyped
<1>14. CASE ApplyUpdate
  BY <1>14, UpdateEffect
<1>15. CASE SyncSearch
  BY <1>15, SyncEffect
<1>16. CASE RequestPage
  BY <1>16, RequestEffect
<1>17. CASE ChangeQuery
  BY <1>17, QueryEffect
<1>18. CASE ToggleFilter
  BY <1>18, ToggleEffect
<1>19. CASE CloseWindow
  BY <1>19, CloseWindowEffect
<1>20. CASE UNCHANGED vars
  BY <1>20 DEF vars
<1>21. QED
  BY <1>1, <1>2, <1>3, <1>4, <1>5, <1>6, <1>7, <1>8, <1>9, <1>10, <1>11, <1>12,
     <1>13, <1>14, <1>15, <1>16, <1>17, <1>18, <1>19, <1>20, EachStep

LEMMA BackfilledNext ==
  ASSUME Typed, Backfilled, Spare, HitsFit, [Next]_vars
  PROVE  Backfilled'
<1>1. CASE HistoryAppends
  <2> DEFINE command == IF recalled < HistorySize
                        THEN [kind |-> "recall", record |-> recalled']
                        ELSE [kind |-> "complete"]
  <2>1. /\ recalled <= HistorySize /\ recalled' = recalled + 1
        /\ UNCHANGED store /\ recalled \in Nat /\ HistorySize \in Nat
    BY <1>1, LogStoreAssumption DEF HistoryAppends, Typed
  <2>2. /\ Backfill \in Seq(BackfillCommand)
        /\ Backfill' = Append(Backfill, command)
    BY <1>1 DEF HistoryAppends, Puts, Typed, LaneState, Backfill
  <2>3. command.kind = "complete" => recalled' = HistorySize + 1
    BY <2>1
  <2> HIDE DEF command
  <2>4. /\ Len(Backfill) \in Nat /\ DOMAIN Backfill = 1..Len(Backfill)
        /\ Len(Backfill') = Len(Backfill) + 1
        /\ DOMAIN Backfill' = 1..Len(Backfill) + 1
        /\ \A i \in DOMAIN Backfill : Backfill'[i] = Backfill[i]
        /\ Backfill'[Len(Backfill) + 1] = command
    BY <2>2
  <2>5. ~(recalled = HistorySize + 1)
    BY <2>1
  <2>6. ~(store.open /\ store.rebased)
    BY <2>5 DEF Backfilled
  <2>7. \A i \in DOMAIN Backfill : Backfill[i].kind # "complete"
    BY <2>5 DEF Backfilled
  <2>8. \A i \in DOMAIN Backfill' :
          Backfill'[i].kind = "complete" => /\ i = Len(Backfill')
                                            /\ recalled' = HistorySize + 1
    BY <2>3, <2>4, <2>7
  <2>9. QED
    BY <2>1, <2>6, <2>8 DEF Backfilled
<1>2. CASE ExecuteRecall
  <2>1. /\ Backfill' = Tail(Backfill) /\ recalled' = recalled
        /\ ~(store'.open /\ store'.rebased) \/ store' = store
    BY <1>2, RecallEffect DEF Backfill
  <2>2. Backfill \in Seq(BackfillCommand) /\ Backfill # <<>>
    BY <1>2, BackfillTaken DEF Backfill, ExecuteRecall
  <2>3. /\ Len(Backfill') = Len(Backfill) - 1 /\ Len(Backfill) \in Nat
        /\ DOMAIN Backfill' = 1..Len(Backfill) - 1
        /\ \A i \in DOMAIN Backfill' : /\ i + 1 \in DOMAIN Backfill
                                       /\ Backfill'[i] = Backfill[i + 1]
    BY <2>1, <2>2, Dequeued
  <2>4. ~(store.open /\ store.rebased)
    BY <2>2 DEF Backfilled
  <2>5. \A i \in DOMAIN Backfill' :
          Backfill'[i].kind = "complete" => /\ i = Len(Backfill')
                                            /\ recalled' = HistorySize + 1
    BY <2>1, <2>3 DEF Backfilled
  <2>6. QED
    BY <2>1, <2>4, <2>5 DEF Backfilled
<1>3. CASE ExecuteComplete
  <2>1. /\ Backfill' = Tail(Backfill) /\ recalled' = recalled
        /\ Backfill # <<>> /\ Backfill[1].kind = "complete"
    BY <1>3, CompleteEffect DEF Backfill
  <2>2. Backfill \in Seq(BackfillCommand)
    BY DEF Backfill, Typed, LaneState
  <2>3. /\ Len(Backfill) \in Nat /\ 1 \in DOMAIN Backfill
        /\ Len(Backfill') = Len(Backfill) - 1 /\ Backfill' \in Seq(BackfillCommand)
    BY <2>1, <2>2, Dequeued
  <2>4. Len(Backfill) = 1 /\ recalled = HistorySize + 1
    BY <2>1, <2>3 DEF Backfilled
  <2>5. Backfill' = <<>>
    BY <2>3, <2>4, EmptySeq
  <2>6. \A i \in DOMAIN Backfill' : FALSE
    BY <2>5
  <2>7. QED
    BY <2>1, <2>4, <2>5, <2>6 DEF Backfilled
<1>4. CASE ~HistoryAppends /\ ~ExecuteRecall /\ ~ExecuteComplete
  <2>1. /\ recalled' = recalled /\ Backfill' = Backfill
        /\ store'.open => store.open /\ store'.rebased = store.rebased
    BY <1>4, NotBackfill DEF Backfill
  <2> HIDE DEF Backfill
  <2>2. QED
    BY <2>1 DEF Backfilled
<1>5. QED
  BY <1>1, <1>2, <1>3, <1>4

(* Only a completed history and the result that tells of it renumber.      *)
LEMMA StoreCalm ==
  ASSUME Typed, Backfilled, HitsFit, Spare, [Next]_vars, ~ExecuteComplete
  PROVE  store'.open => store.open /\ store'.rebased = store.rebased
<1>1. CASE HistoryAppends
  BY <1>1 DEF HistoryAppends
<1>2. CASE ExecuteRecall
  BY <1>2, RecallEffect DEF StoreOK, Store
<1>3. CASE ~HistoryAppends /\ ~ExecuteRecall
  BY <1>3, NotBackfill
<1>4. QED
  BY <1>1, <1>2, <1>3

LEMMA WindowCalm ==
  ASSUME Typed, Backfilled, HitsFit, [Next]_vars, ~ApplyRebased
  PROVE  window'.open =>
           /\ window.open
           /\ \/ window'.generation < MaxGenerations
              \/ /\ window'.query = window.query
                 /\ window'.generation = window.generation
<1>1. CASE StreamAppends
  BY <1>1 DEF StreamAppends
<1>2. CASE HistoryAppends
  BY <1>2 DEF HistoryAppends
<1>3. CASE ExecuteSearch
  BY <1>3, SearchEffect
<1>4. CASE ExecuteLoadPage
  BY <1>4, LoadPageEffect
<1>5. CASE ExecuteClose
  BY <1>5, CloseEffect
<1>6. CASE ExecuteAppend
  BY <1>6, AppendEffect
<1>7. CASE ExecuteRecall
  BY <1>7, RecallEffect
<1>8. CASE ExecuteComplete
  BY <1>8, CompleteEffect
<1>9. CASE ExecuteScanned
  BY <1>9, ScannedEffect
<1>10. CASE ExecuteScanCompleted
  BY <1>10, ScanCompletedEffect
<1>11. CASE \E s \in scans : ScanRow(s) \/ ScanEnds(s) \/ ScanCancelled(s)
  <2>1. PICK s \in scans : ScanRow(s) \/ ScanEnds(s) \/ ScanCancelled(s)
    BY <1>11
  <2>2. UNCHANGED <<streamed, recalled, store, results, update, window, poll>>
    BY <2>1 DEF ScanRow, ScanEnds, ScanCancelled
  <2>3. QED
    BY <2>2
<1>12. CASE ApplyProgress
  BY <1>12, ProgressEffect DEF CountedFields
<1>13. CASE ApplyCompleted
  BY <1>13, CompletedEffect DEF CountedFields
<1>14. CASE ApplyPage
  BY <1>14, PageEffect
<1>15. CASE FindNoResult \/ Draw \/ NextFrame
  BY <1>15, FrameTyped
<1>16. CASE ApplyUpdate
  BY <1>16, UpdateEffect
<1>17. CASE SyncSearch
  BY <1>17, SyncEffect
<1>18. CASE RequestPage
  BY <1>18, RequestEffect
<1>19. CASE ChangeQuery
  BY <1>19, QueryEffect
<1>20. CASE ToggleFilter
  BY <1>20, ToggleEffect
<1>21. CASE CloseWindow
  BY <1>21, CloseWindowEffect
<1>22. CASE UNCHANGED vars
  BY <1>22 DEF vars
<1>23. QED
  BY <1>1, <1>2, <1>3, <1>4, <1>5, <1>6, <1>7, <1>8, <1>9, <1>10, <1>11,
     <1>12, <1>13, <1>14, <1>15, <1>16, <1>17, <1>18, <1>19, <1>20, <1>21,
     <1>22, EachStep

LEMMA ResultsStep ==
  ASSUME Typed, Backfilled, HitsFit, [Next]_vars, ~ExecuteComplete, ~ApplyRebased
  PROVE  \/ results' = results
         \/ \E r \in Page \cup Progress \cup Completed : results' = Append(results, r)
         \/ /\ results # <<>> /\ results' = Tail(results)
            /\ Head(results).kind # "rebased"
<1>1. CASE StreamAppends
  BY <1>1 DEF StreamAppends
<1>2. CASE HistoryAppends
  BY <1>2 DEF HistoryAppends
<1>3. CASE ExecuteSearch
  BY <1>3, SearchEffect
<1>4. CASE ExecuteLoadPage
  BY <1>4, LoadPageEffect
<1>5. CASE ExecuteClose
  BY <1>5, CloseEffect
<1>6. CASE ExecuteAppend
  BY <1>6, AppendEffect
<1>7. CASE ExecuteRecall
  BY <1>7, RecallEffect
<1>8. CASE ExecuteScanned
  BY <1>8, ScannedEffect
<1>9. CASE ExecuteScanCompleted
  BY <1>9, ScanCompletedEffect
<1>10. CASE \E s \in scans : ScanRow(s) \/ ScanEnds(s) \/ ScanCancelled(s)
  <2>1. PICK s \in scans : ScanRow(s) \/ ScanEnds(s) \/ ScanCancelled(s)
    BY <1>10
  <2>2. UNCHANGED <<streamed, recalled, store, results, update, window, poll>>
    BY <2>1 DEF ScanRow, ScanEnds, ScanCancelled
  <2>3. QED
    BY <2>2
<1>11. CASE ApplyProgress
  BY <1>11, ProgressEffect DEF Progress
<1>12. CASE ApplyCompleted
  BY <1>12, CompletedEffect DEF Completed
<1>13. CASE ApplyPage
  BY <1>13, PageEffect DEF Page
<1>14. CASE FindNoResult \/ Draw \/ NextFrame
  BY <1>14, FrameTyped
<1>15. CASE ApplyUpdate
  BY <1>15, UpdateEffect
<1>16. CASE SyncSearch
  BY <1>16, SyncEffect
<1>17. CASE RequestPage
  BY <1>17, RequestEffect
<1>18. CASE ChangeQuery
  BY <1>18, QueryEffect
<1>19. CASE ToggleFilter
  BY <1>19, ToggleEffect
<1>20. CASE CloseWindow
  BY <1>20, CloseWindowEffect
<1>21. CASE UNCHANGED vars
  BY <1>21 DEF vars
<1>22. QED
  BY <1>1, <1>2, <1>3, <1>4, <1>5, <1>6, <1>7, <1>8, <1>9, <1>10, <1>11,
     <1>12, <1>13, <1>14, <1>15, <1>16, <1>17, <1>18, <1>19, <1>20, <1>21,
     EachStep

(* Who is told of a rebase                                                 *)
Once == \A i, j \in DOMAIN results :
          results[i].kind = "rebased" /\ results[j].kind = "rebased" => i = j

LEMMA OnceAppended ==
  ASSUME Typed, Once, NEW r \in Result, r.kind # "rebased",
         results' = Append(results, r)
  PROVE  Once' /\ (CaughtUp' <=> CaughtUp)
<1>1. results \in Seq(Result)
  BY DEF Typed
<1>2. /\ DOMAIN results = 1..Len(results) /\ Len(results) \in Nat
      /\ DOMAIN results' = 1..Len(results) + 1
      /\ \A i \in DOMAIN results : results'[i] = results[i]
      /\ results'[Len(results) + 1] = r
  BY <1>1, Queued
<1>3. \A i \in DOMAIN results' : results'[i].kind = "rebased" =>
        i \in DOMAIN results /\ results[i].kind = "rebased"
  BY <1>2
<1>4. DOMAIN results \subseteq DOMAIN results'
  BY <1>2
<1>5. Once'
  BY <1>3 DEF Once
<1>6. CaughtUp' <=> CaughtUp
  BY <1>2, <1>3, <1>4 DEF CaughtUp
<1>7. QED
  BY <1>5, <1>6

LEMMA OnceTaken ==
  ASSUME Typed, Once, results # <<>>, results' = Tail(results)
  PROVE  /\ Once'
         /\ Head(results).kind = "rebased" => CaughtUp' /\ ~CaughtUp
         /\ Head(results).kind # "rebased" => (CaughtUp' <=> CaughtUp)
<1>1. results \in Seq(Result)
  BY DEF Typed
<1>2. /\ DOMAIN results = 1..Len(results) /\ Len(results) \in Nat /\ 1 <= Len(results)
      /\ Head(results) = results[1]
      /\ DOMAIN results' = 1..Len(results) - 1
      /\ \A i \in DOMAIN results' : /\ i + 1 \in DOMAIN results
                                    /\ results'[i] = results[i + 1]
  BY <1>1, Dequeued
<1>3. 1 \in DOMAIN results
  BY <1>2
<1>4. \A i, j \in DOMAIN results' : i + 1 = j + 1 => i = j
  BY <1>2
<1>5. Once'
  BY <1>2, <1>4 DEF Once
<1>6. ASSUME Head(results).kind = "rebased"
      PROVE  CaughtUp' /\ ~CaughtUp
  <2>1. \A i \in DOMAIN results' : results'[i].kind # "rebased"
    <3> SUFFICES ASSUME NEW i \in DOMAIN results', results'[i].kind = "rebased"
                 PROVE  FALSE
      OBVIOUS
    <3>1. i + 1 = 1
      BY <1>2, <1>3, <1>6 DEF Once
    <3>2. QED
      BY <3>1, <1>2
  <2>2. QED
    BY <2>1, <1>2, <1>3, <1>6 DEF CaughtUp
<1>7. ASSUME Head(results).kind # "rebased"
      PROVE  CaughtUp' <=> CaughtUp
  <2>1. \A i \in DOMAIN results : results[i].kind = "rebased" =>
          i - 1 \in DOMAIN results' /\ results'[i - 1].kind = "rebased"
    <3> SUFFICES ASSUME NEW i \in DOMAIN results, results[i].kind = "rebased"
                 PROVE  i - 1 \in DOMAIN results' /\ results'[i - 1].kind = "rebased"
      OBVIOUS
    <3>1. i # 1 /\ i \in Int
      BY <1>2, <1>7
    <3>2. i - 1 \in DOMAIN results'
      BY <3>1, <1>2
    <3>3. (i - 1) + 1 = i
      BY <3>1
    <3>4. QED
      BY <3>2, <3>3, <1>2
  <2>2. QED
    BY <2>1, <1>2 DEF CaughtUp
<1>8. QED
  BY <1>5, <1>6, <1>7

LEMMA OneRebaseNext ==
  ASSUME Typed, Backfilled, OneRebase, Spare, HitsFit, [Next]_vars
  PROVE  OneRebase' /\ Spare'
<1> USE DEF OneRebase
<1>1. Once
  BY DEF Once
<1>2. CASE ~ExecuteComplete /\ ~ApplyRebased
  <2>1. store'.open => store.open /\ store'.rebased = store.rebased
    BY <1>2, StoreCalm
  <2>2. window'.open =>
          /\ window.open
          /\ \/ window'.generation < MaxGenerations
             \/ /\ window'.query = window.query
                /\ window'.generation = window.generation
    BY <1>2, WindowCalm
  <2>3. Once' /\ (CaughtUp' <=> CaughtUp)
    <3>1. CASE results' = results
      BY <3>1, <1>1 DEF Once, CaughtUp
    <3>2. CASE \E r \in Page \cup Progress \cup Completed : results' = Append(results, r)
      <4>1. PICK r \in Page \cup Progress \cup Completed : results' = Append(results, r)
        BY <3>2
      <4>2. r \in Result /\ r.kind # "rebased"
        BY DEF Result, Page, Progress, Completed
      <4>3. QED
        BY <4>1, <4>2, <1>1, OnceAppended
    <3>3. CASE /\ results # <<>> /\ results' = Tail(results)
               /\ Head(results).kind # "rebased"
      BY <3>3, <1>1, OnceTaken
    <3>4. QED
      BY <3>1, <3>2, <3>3, <1>2, ResultsStep
  <2>4. OneRebase'
    BY <2>1, <2>3 DEF Once
  <2>5. Spare'
    BY <2>1, <2>2, <2>3 DEF Spare, ToRebase
  <2>6. QED
    BY <2>4, <2>5
<1>3. CASE ApplyRebased
  BY <1>3, RebasedEffect, <1>1, OnceTaken DEF Rebased, Once, Spare, ToRebase
<1>4. CASE ExecuteComplete /\ UNCHANGED <<store, results>>
  BY <1>4, CompleteEffect DEF CaughtUp, Spare, ToRebase
<1>5. CASE ExecuteComplete /\ ~UNCHANGED <<store, results>>
  <2>1. PICK r \in Rebased :
          /\ results' = Append(results, r) /\ window' = window
          /\ store.open /\ ~store.rebased /\ store'.open /\ store'.rebased
    BY <1>5, CompleteEffect
  <2>2. CaughtUp
    BY <2>1
  <2>3. results \in Seq(Result) /\ r \in Result
    BY <2>1 DEF Typed, Result
  <2>4. /\ DOMAIN results = 1..Len(results) /\ Len(results) \in Nat
        /\ DOMAIN results' = 1..Len(results) + 1
        /\ \A i \in DOMAIN results : results'[i] = results[i]
    BY <2>1, <2>3, Queued
  <2>5. \A i \in DOMAIN results' : results'[i].kind = "rebased" => i = Len(results) + 1
    BY <2>2, <2>4 DEF CaughtUp
  <2>6. OneRebase'
    BY <2>1, <2>5
  <2>7. Spare'
    BY <2>1 DEF Spare, ToRebase
  <2>8. QED
    BY <2>6, <2>7
<1>6. QED
  BY <1>2, <1>3, <1>4, <1>5

-----------------------------------------------------------------------------
(* Generations in order.                                                   *)

LEMMA UsedIs ==
  \A g : g \in Used <=> \/ store.open /\ g = store.search.generation
                        \/ \E s \in scans : g = s.generation
                        \/ \E i \in DOMAIN Scanning : g = Scanning[i].generation
  BY DEF Used

LEMMA UsedTyped ==
  ASSUME Typed
  PROVE  /\ Used \subseteq Int
         /\ \A s \in scans : s.generation \in Nat
         /\ Scanning \in Seq(ScanCommand)
         /\ \A i \in DOMAIN Scanning : /\ Scanning[i] \in ScanCommand
                                       /\ Scanning[i].generation \in Nat
<1>1. store.open => store.search.generation \in Int
  BY SearchIs DEF Typed, NoStore
<1>2. \A s \in scans : s.generation \in Nat
  BY LogStoreAssumption DEF Typed, Scan, Generations
<1>3. Scanning \in Seq(ScanCommand)
  BY DEF Typed, LaneState, Scanning
<1>4. \A i \in DOMAIN Scanning : Scanning[i] \in ScanCommand
  BY <1>3
<1>5. \A i \in DOMAIN Scanning : Scanning[i].generation \in Nat
  BY <1>4, Kinds, LogStoreAssumption DEF Generations
<1>6. QED
  BY <1>1, <1>2, <1>3, <1>4, <1>5, UsedIs

LEMMA SearchesTyped ==
  ASSUME Typed
  PROVE  /\ Control \in Seq(ControlCommand)
         /\ \A i \in Searches : /\ i \in Nat /\ Control[i].generation \in Nat
                                /\ Control[i] \in SearchCommand
<1>1. Control \in Seq(ControlCommand)
  BY DEF Typed, LaneState, Control
<1>2. \A i \in DOMAIN Control : Control[i] \in ControlCommand /\ i \in Nat
  BY <1>1
<1>3. \A i \in Searches : Control[i] \in SearchCommand /\ i \in Nat
  BY <1>2, Kinds DEF Searches
<1>4. \A c \in SearchCommand : c.generation \in Nat
  BY LogStoreAssumption DEF SearchCommand, Generations
<1>5. QED
  BY <1>1, <1>3, <1>4

(* It stays so when no search is queued: d is 1 when one may be started.   *)
LEMMA GensKept ==
  ASSUME Typed, Typed', GensOrdered, NEW d \in {0, 1},
         \A i \in Searches' : i + d \in Searches /\ Control'[i] = Control[i + d],
         \A g \in Used' : \/ g = -1 \/ g \in Used
                          \/ \E i \in Searches : i <= d /\ g = Control[i].generation,
         window'.open =>
           /\ window.open
           /\ \/ window'.generation = window.generation /\ (window'.due => window.due)
              \/ window'.generation > window.generation
  PROVE  GensOrdered'
<1>1. \A i \in Searches' : i \in Nat /\ Control'[i].generation \in Nat
  <2>1. (\A i \in Searches : /\ i \in Nat /\ Control[i].generation \in Nat
                             /\ Control[i] \in SearchCommand)'
    BY SearchesTyped, PTL
  <2>2. QED
    BY <2>1
<1>2. \A i \in Searches : i \in Nat /\ Control[i].generation \in Nat
  BY SearchesTyped
<1>3. \A i, j \in Searches' :
        i < j => Control'[i].generation < Control'[j].generation
  <2> SUFFICES ASSUME NEW i \in Searches', NEW j \in Searches', i < j
               PROVE  Control'[i].generation < Control'[j].generation
    OBVIOUS
  <2>1. i + d \in Searches /\ j + d \in Searches /\ i + d < j + d
    BY <1>1
  <2>2. QED
    BY <2>1 DEF GensOrdered
<1>4. \A g \in Used', i \in Searches' : g < Control'[i].generation
  <2> SUFFICES ASSUME NEW g \in Used', NEW i \in Searches'
               PROVE  g < Control'[i].generation
    OBVIOUS
  <2>1. i + d \in Searches /\ Control'[i] = Control[i + d]
    OBVIOUS
  <2>2. CASE g = -1
    BY <2>2, <1>1
  <2>3. CASE g \in Used
    BY <2>1, <2>3 DEF GensOrdered
  <2>4. CASE \E j \in Searches : j <= d /\ g = Control[j].generation
    <3>1. PICK j \in Searches : j <= d /\ g = Control[j].generation
      BY <2>4
    <3>2. i \in Nat /\ i # 0
      <4>1. i \in DOMAIN Control' /\ Control' \in Seq(ControlCommand)
        BY DEF Searches, Typed, LaneState, Control
      <4>2. QED
        BY <4>1
    <3>3. j < i + d
      BY <3>1, <3>2, <1>2
    <3>4. QED
      BY <3>1, <3>3, <2>1 DEF GensOrdered
  <2>5. QED
    BY <2>2, <2>3, <2>4
<1>5. ASSUME window'.open
      PROVE  /\ \A g \in Used' : Bounded(window', g)
             /\ \A i \in Searches' : Bounded(window', Control'[i].generation)
  <2>1. window \in OpenWindow /\ window' \in OpenWindow
    BY <1>5 DEF Typed, NoWindow
  <2>2. window.generation \in Nat /\ window'.generation \in Nat
    BY <2>1, LogStoreAssumption DEF OpenWindow, Generations
  <2>3. \A g \in Int : Bounded(window, g) => Bounded(window', g)
    BY <1>5, <2>2 DEF Bounded
  <2>4. \A i \in Searches : Bounded(window', Control[i].generation)
    BY <1>2, <1>5, <2>3 DEF GensOrdered
  <2>5. \A g \in Used : Bounded(window', g)
    BY <1>5, <2>3, UsedTyped DEF GensOrdered
  <2>6. Bounded(window', -1)
    BY <2>2 DEF Bounded
  <2>7. QED
    BY <2>4, <2>5, <2>6
<1>6. QED
  BY <1>3, <1>4, <1>5 DEF GensOrdered

LEMMA UsedKept ==
  ASSUME store'.open => \/ store'.search.generation = -1
                        \/ /\ store.open
                           /\ store'.search.generation = store.search.generation,
         \A s \in scans' : s.generation \in Used,
         \A i \in DOMAIN Scanning' : Scanning'[i].generation \in Used
  PROVE  \A g \in Used' : g = -1 \/ g \in Used
<1>1. \A g \in Used' : \/ store'.open /\ g = store'.search.generation
                       \/ \E s \in scans' : g = s.generation
                       \/ \E i \in DOMAIN Scanning' : g = Scanning'[i].generation
  BY DEF Used
<1>2. QED
  BY <1>1, UsedIs

(* The control lane loses its first command, or gets another one.          *)
LEMMA ControlTaking ==
  ASSUME Typed, Control # <<>>, Control' = Tail(Control)
  PROVE  \A i \in Searches' : i + 1 \in Searches /\ Control'[i] = Control[i + 1]
<1>1. Control \in Seq(ControlCommand)
  BY SearchesTyped
<1>2. \A i \in DOMAIN Control' : i + 1 \in DOMAIN Control /\ Control'[i] = Control[i + 1]
  BY <1>1, Dequeued
<1>3. QED
  BY <1>2 DEF Searches

LEMMA ControlPutting ==
  ASSUME Typed, NEW c \in ControlCommand, c.kind # "search",
         Control' = Append(Control, c)
  PROVE  \A i \in Searches' : i + 0 \in Searches /\ Control'[i] = Control[i + 0]
<1>1. Control \in Seq(ControlCommand)
  BY SearchesTyped
<1>2. /\ DOMAIN Control = 1..Len(Control) /\ Len(Control) \in Nat
      /\ DOMAIN Control' = 1..Len(Control) + 1
      /\ \A i \in DOMAIN Control : Control'[i] = Control[i]
      /\ Control'[Len(Control) + 1] = c
  BY <1>1, Queued
<1>3. \A i \in Searches' : i \in DOMAIN Control /\ i + 0 = i
  BY <1>2 DEF Searches
<1>4. QED
  BY <1>2, <1>3 DEF Searches

LEMMA ControlKept ==
  ASSUME Typed, Control' = Control
  PROVE  \A i \in Searches' : i + 0 \in Searches /\ Control'[i] = Control[i + 0]
<1>1. \A i \in Searches : i + 0 = i
  BY SearchesTyped
<1>2. Searches' = Searches
  BY DEF Searches
<1>3. QED
  BY <1>1, <1>2

LEMMA WindowMovesOn ==
  ASSUME Typed, Spare, Backfilled, HitsFit, [Next]_vars, ~SyncSearch
  PROVE  window'.open =>
           /\ window.open
           /\ \/ window'.generation = window.generation /\ (window'.due => window.due)
              \/ window'.generation > window.generation
<1>0. window.open => /\ window.generation \in Nat
                     /\ window.generation + 1 > window.generation
  <2>1. window.open => window \in OpenWindow
    BY DEF Typed, NoWindow
  <2>2. window.open => window.generation \in Nat
    BY <2>1, LogStoreAssumption DEF OpenWindow, Generations
  <2>3. QED
    BY <2>2
<1>1. CASE StreamAppends
  BY <1>1 DEF StreamAppends
<1>2. CASE HistoryAppends
  BY <1>2 DEF HistoryAppends
<1>3. CASE ExecuteSearch
  BY <1>3, SearchEffect
<1>4. CASE ExecuteLoadPage
  BY <1>4, LoadPageEffect
<1>5. CASE ExecuteClose
  BY <1>5, CloseEffect
<1>6. CASE ExecuteAppend
  BY <1>6, AppendEffect
<1>7. CASE ExecuteRecall
  BY <1>7, RecallEffect
<1>8. CASE ExecuteComplete
  BY <1>8, CompleteEffect
<1>9. CASE ExecuteScanned
  BY <1>9, ScannedEffect
<1>10. CASE ExecuteScanCompleted
  BY <1>10, ScanCompletedEffect
<1>11. CASE \E s \in scans : ScanRow(s) \/ ScanEnds(s) \/ ScanCancelled(s)
  <2>1. PICK s \in scans : ScanRow(s) \/ ScanEnds(s) \/ ScanCancelled(s)
    BY <1>11
  <2>2. UNCHANGED <<streamed, recalled, store, results, update, window, poll>>
    BY <2>1 DEF ScanRow, ScanEnds, ScanCancelled
  <2>3. QED
    BY <2>2
<1>12. CASE ApplyRebased
  BY <1>12, RebasedEffect, <1>0
<1>13. CASE ApplyProgress
  BY <1>13, ProgressEffect DEF CountedFields
<1>14. CASE ApplyCompleted
  BY <1>14, CompletedEffect DEF CountedFields
<1>15. CASE ApplyPage
  BY <1>15, PageEffect
<1>16. CASE FindNoResult \/ Draw \/ NextFrame
  BY <1>16, FrameTyped
<1>17. CASE ApplyUpdate
  BY <1>17, UpdateEffect
<1>18. CASE RequestPage
  BY <1>18, RequestEffect
<1>19. CASE ChangeQuery
  BY <1>19, QueryEffect, <1>0
<1>20. CASE ToggleFilter
  BY <1>20, ToggleEffect
<1>21. CASE CloseWindow
  BY <1>21, CloseWindowEffect
<1>22. CASE UNCHANGED vars
  BY <1>22 DEF vars
<1>23. QED
  BY <1>1, <1>2, <1>3, <1>4, <1>5, <1>6, <1>7, <1>8, <1>9, <1>10, <1>11,
     <1>12, <1>13, <1>14, <1>15, <1>16, <1>17, <1>18, <1>19, <1>20, <1>21,
     <1>22, EachStep

LEMMA ControlSteps ==
  ASSUME Typed, Spare, Backfilled, HitsFit, [Next]_vars,
         ~SyncSearch
  PROVE  \/ Control' = Control
         \/ Control # <<>> /\ Control' = Tail(Control)
         \/ \E c \in PageCommand \cup CloseCommand : Control' = Append(Control, c)
<1> USE DEF Control, LaneNames
<1>1. CASE StreamAppends
  BY <1>1 DEF StreamAppends, Puts, Typed, LaneState, Control
<1>2. CASE HistoryAppends
  BY <1>2 DEF HistoryAppends, Puts, Typed, LaneState, Control
<1>3. CASE ExecuteSearch
  BY <1>3, SearchEffect
<1>4. CASE ExecuteLoadPage
  BY <1>4, LoadPageEffect
<1>5. CASE ExecuteClose
  BY <1>5, CloseEffect
<1>6. CASE ExecuteAppend
  BY <1>6, AppendEffect
<1>7. CASE ExecuteRecall
  BY <1>7, RecallEffect
<1>8. CASE ExecuteComplete
  BY <1>8, CompleteEffect
<1>9. CASE ExecuteScanned
  BY <1>9, ScannedEffect
<1>10. CASE ExecuteScanCompleted
  BY <1>10, ScanCompletedEffect
<1>11. CASE \E s \in scans : ScanRow(s) \/ ScanEnds(s) \/ ScanCancelled(s)
  <2>1. PICK s \in scans : ScanRow(s) \/ ScanEnds(s) \/ ScanCancelled(s)
    BY <1>11
  <2>2. CASE ScanRow(s)
    BY <2>2, ScanRowEffect
  <2>3. CASE ScanEnds(s)
    BY <2>3, ScanEndsEffect
  <2>4. CASE ScanCancelled(s)
    BY <2>4 DEF ScanCancelled
  <2>5. QED
    BY <2>1, <2>2, <2>3, <2>4
<1>12. CASE ApplyRebased
  BY <1>12, RebasedEffect
<1>13. CASE ApplyProgress
  BY <1>13, ProgressEffect
<1>14. CASE ApplyCompleted
  BY <1>14, CompletedEffect
<1>15. CASE ApplyPage
  BY <1>15, PageEffect
<1>16. CASE FindNoResult \/ Draw \/ NextFrame
  BY <1>16, FrameTyped
<1>17. CASE ApplyUpdate
  BY <1>17, UpdateEffect
<1>18. CASE RequestPage
  BY <1>18, RequestEffect
<1>19. CASE ChangeQuery
  BY <1>19, QueryEffect
<1>20. CASE ToggleFilter
  BY <1>20, ToggleEffect
<1>21. CASE CloseWindow
  BY <1>21, CloseWindowEffect
<1>22. CASE UNCHANGED vars
  BY <1>22 DEF vars
<1>23. QED
  BY <1>1, <1>2, <1>3, <1>4, <1>5, <1>6, <1>7, <1>8, <1>9, <1>10, <1>11,
     <1>12, <1>13, <1>14, <1>15, <1>16, <1>17, <1>18, <1>19, <1>20, <1>21,
     <1>22, EachStep

LEMMA ScanTaking ==
  ASSUME Typed, Scanning # <<>>, Scanning' = Tail(Scanning)
  PROVE  \A i \in DOMAIN Scanning' : /\ i + 1 \in DOMAIN Scanning
                                     /\ Scanning'[i] = Scanning[i + 1]
<1>1. Scanning \in Seq(ScanCommand)
  BY UsedTyped
<1>2. QED
  BY <1>1, Dequeued

LEMMA ScanPutting ==
  ASSUME Typed, NEW c \in ScanCommand, Scanning' = Append(Scanning, c)
  PROVE  \A i \in DOMAIN Scanning' : \/ Scanning'[i] = c
                                     \/ /\ i \in DOMAIN Scanning
                                        /\ Scanning'[i] = Scanning[i]
<1>1. Scanning \in Seq(ScanCommand)
  BY UsedTyped
<1>2. /\ DOMAIN Scanning = 1..Len(Scanning) /\ Len(Scanning) \in Nat
      /\ DOMAIN Scanning' = 1..Len(Scanning) + 1
      /\ \A i \in DOMAIN Scanning : Scanning'[i] = Scanning[i]
      /\ Scanning'[Len(Scanning) + 1] = c
  BY <1>1, Queued
<1>3. QED
  BY <1>2

LEMMA UsedSteps ==
  ASSUME Typed, Spare, Backfilled, HitsFit, [Next]_vars, ~ExecuteSearch
  PROVE  \A g \in Used' : g = -1 \/ g \in Used
<1> USE DEF Scanning, LaneNames
<1>0. /\ \A s \in scans : s.generation \in Used
      /\ \A i \in DOMAIN Scanning : Scanning[i].generation \in Used
  BY UsedIs
<1>1. CASE StreamAppends
  BY <1>1, <1>0, UsedKept DEF StreamAppends, Puts, Typed, LaneState, Scanning
<1>2. CASE HistoryAppends
  BY <1>2, <1>0, UsedKept DEF HistoryAppends, Puts, Typed, LaneState, Scanning
<1>3. CASE ExecuteLoadPage
  BY <1>3, LoadPageEffect, <1>0, UsedKept
<1>4. CASE ExecuteClose
  BY <1>4, CloseEffect, <1>0, UsedKept
<1>5. CASE ExecuteAppend
  <2>1. /\ scans' = scans /\ Scanning' = Scanning
        /\ ~store.open => store' = store
        /\ store.open => \E record \in Records : /\ store' = Appended(store, record)
                                                 /\ StoreOK(store)
    BY <1>5, AppendEffect
  <2>2. store.open => store'.search.generation = store.search.generation
    <3> SUFFICES ASSUME store.open
                 PROVE  store'.search.generation = store.search.generation
      OBVIOUS
    <3>1. PICK record \in Records : store' = Appended(store, record) /\ StoreOK(store)
      BY <2>1
    <3>2. IF store.search.complete /\ record \in Matches(store.search.query)
          THEN store'.search = [store.search EXCEPT
                                  !.hits = Append(@, Len(Rows(store)) + 1)]
          ELSE store'.search = store.search
      BY <3>1, RowAppended
    <3>3. store.search.complete => store.search \in Search
      BY <3>1, SearchIs
    <3>4. QED
      BY <3>2, <3>3 DEF Search
  <2>3. QED
    BY <2>1, <2>2, <1>0, UsedKept
<1>6. CASE ExecuteRecall
  BY <1>6, RecallEffect, <1>0, UsedKept
<1>7. CASE ExecuteComplete
  BY <1>7, CompleteEffect, <1>0, UsedKept DEF NoSearch
<1>8. CASE ExecuteScanned
  <2>1. Scanning # <<>> /\ Scanning' = Tail(Scanning) /\ scans' = scans
    BY <1>8, ScannedEffect
  <2>2. \/ store' = store
        \/ store.open /\ store'.search.generation = store.search.generation
    <3>1. PICK c \in ScannedCommand :
            \/ store' = store
            \/ /\ store.open /\ store.search \in Search
               /\ store'.search = [store.search EXCEPT !.hits = @ \o c.hits]
      BY <1>8, ScannedEffect
    <3>2. QED
      BY <3>1 DEF Search
  <2>3. QED
    BY <2>1, <2>2, <1>0, ScanTaking, UsedKept
<1>9. CASE ExecuteScanCompleted
  <2>1. Scanning # <<>> /\ Scanning' = Tail(Scanning) /\ scans' = scans
    BY <1>9, ScanCompletedEffect
  <2>2. \/ store' = store
        \/ store.open /\ store'.search.generation = store.search.generation
    <3>1. PICK c \in EndCommand :
            \/ store' = store
            \/ /\ store.open /\ store.search \in Search
               /\ store'.search =
                    [store.search EXCEPT
                       !.complete = TRUE,
                       !.hits = @ \o Hits(Rows(store), store.search.query,
                                          c.scanned)]
      BY <1>9, ScanCompletedEffect
    <3>2. QED
      BY <3>1 DEF Search
  <2>3. QED
    BY <2>1, <2>2, <1>0, ScanTaking, UsedKept
<1>10. CASE \E s \in scans : ScanRow(s) \/ ScanEnds(s) \/ ScanCancelled(s)
  <2>1. PICK s \in scans : ScanRow(s) \/ ScanEnds(s) \/ ScanCancelled(s)
    BY <1>10
  <2>2. CASE ScanRow(s)
    <3>1. PICK c \in ScannedCommand :
            /\ Scanning' = Append(Scanning, c) /\ c.generation = s.generation
      BY <2>2, ScanRowEffect
    <3>2. /\ scans' = (scans \ {s}) \cup {[s EXCEPT !.at = @ + 1]}
          /\ s \in Scan /\ store' = store
      BY <2>2, ScanRowEffect
    <3>3. [s EXCEPT !.at = @ + 1].generation = s.generation
      BY <3>2 DEF Scan
    <3>4. \A x \in scans' : x.generation \in Used
      BY <3>2, <3>3, <1>0
    <3>5. \A i \in DOMAIN Scanning' : Scanning'[i].generation \in Used
      BY <3>1, <1>0, ScanPutting DEF ScanCommand
    <3>6. QED
      BY <3>2, <3>4, <3>5, UsedKept
  <2>3. CASE ScanEnds(s)
    <3>1. PICK c \in EndCommand :
            /\ Scanning' = Append(Scanning, c) /\ c.generation = s.generation
      BY <2>3, ScanEndsEffect
    <3>2. scans' = scans \ {s} /\ store' = store
      BY <2>3, ScanEndsEffect
    <3>3. \A i \in DOMAIN Scanning' : Scanning'[i].generation \in Used
      BY <3>1, <1>0, ScanPutting DEF ScanCommand
    <3>4. QED
      BY <3>2, <3>3, <1>0, UsedKept
  <2>4. CASE ScanCancelled(s)
    BY <2>4, <1>0, UsedKept DEF ScanCancelled
  <2>5. QED
    BY <2>1, <2>2, <2>3, <2>4
<1>11. CASE ApplyRebased
  BY <1>11, RebasedEffect, <1>0, UsedKept
<1>12. CASE ApplyProgress
  BY <1>12, ProgressEffect, <1>0, UsedKept
<1>13. CASE ApplyCompleted
  BY <1>13, CompletedEffect, <1>0, UsedKept
<1>14. CASE ApplyPage
  BY <1>14, PageEffect, <1>0, UsedKept
<1>15. CASE FindNoResult \/ Draw \/ NextFrame
  BY <1>15, FrameTyped, <1>0, UsedKept
<1>16. CASE ApplyUpdate
  BY <1>16, UpdateEffect, <1>0, UsedKept
<1>17. CASE SyncSearch
  BY <1>17, SyncEffect, <1>0, UsedKept
<1>18. CASE RequestPage
  BY <1>18, RequestEffect, <1>0, UsedKept
<1>19. CASE ChangeQuery
  BY <1>19, QueryEffect, <1>0, UsedKept
<1>20. CASE ToggleFilter
  BY <1>20, ToggleEffect, <1>0, UsedKept
<1>21. CASE CloseWindow
  BY <1>21, CloseWindowEffect, <1>0, UsedKept
<1>22. CASE UNCHANGED vars
  BY <1>22, <1>0, UsedKept DEF vars
<1>23. QED
  BY <1>1, <1>2, <1>3, <1>4, <1>5, <1>6, <1>7, <1>8, <1>9, <1>10, <1>11,
     <1>12, <1>13, <1>14, <1>15, <1>16, <1>17, <1>18, <1>19, <1>20, <1>21,
     <1>22, EachStep

LEMMA GensOrderedNext ==
  ASSUME Typed, GensOrdered, Spare, Backfilled, HitsFit, [Next]_vars
  PROVE  GensOrdered'
<1>0. Typed'
  BY TypedNext
<1>1. CASE ~ExecuteSearch /\ ~SyncSearch
  <2>1. window'.open =>
           /\ window.open
           /\ \/ window'.generation = window.generation /\ (window'.due => window.due)
              \/ window'.generation > window.generation
    BY <1>1, WindowMovesOn
  <2>2. \A g \in Used' : g = -1 \/ g \in Used
    BY <1>1, UsedSteps
  <2>3. CASE Control' = Control
    BY <2>3, ControlKept, <1>0, <2>1, <2>2, GensKept
  <2>4. CASE Control # <<>> /\ Control' = Tail(Control)
    BY <2>4, ControlTaking, <1>0, <2>1, <2>2, GensKept
  <2>5. CASE \E c \in PageCommand \cup CloseCommand : Control' = Append(Control, c)
    <3>1. PICK c \in PageCommand \cup CloseCommand : Control' = Append(Control, c)
      BY <2>5
    <3>2. c \in ControlCommand /\ c.kind # "search"
      BY DEF ControlCommand, PageCommand, CloseCommand
    <3>3. \A i \in Searches' : i + 0 \in Searches /\ Control'[i] = Control[i + 0]
      BY <3>1, <3>2, ControlPutting
    <3>4. QED
      BY <1>0, <2>1, <2>2, <3>3, GensKept
  <2>6. QED
    BY <1>1, <2>3, <2>4, <2>5, ControlSteps
<1>2. CASE ExecuteSearch
  <2>1. /\ Control # <<>> /\ Control' = Tail(Control) /\ window' = window
        /\ Scanning' = Scanning
    BY <1>2, SearchEffect DEF Control, Scanning, LaneNames
  <2>2. \A i \in Searches' : i + 1 \in Searches /\ Control'[i] = Control[i + 1]
    BY <2>1, ControlTaking
  <2>3. 1 \in Searches
    BY <1>2, ControlTaken, <2>1, Dequeued DEF ExecuteSearch, Control, Searches
  <2>4. \A g \in Used' : \/ g = -1 \/ g \in Used
                         \/ \E i \in Searches : i <= 1 /\ g = Control[i].generation
    <3>1. CASE ~store.open
      BY <1>2, <3>1, SearchEffect, <2>1 DEF Used
    <3>2. CASE store.open
      <4>1. PICK c \in SearchCommand :
              /\ c = Head(Control)
              /\ store'.search = [generation |-> c.generation,
                                  query |-> c.query, hits |-> <<>>,
                                  complete |-> FALSE]
              /\ scans' = scans \cup {[generation |-> c.generation,
                                       query |-> c.query,
                                       rows |-> Rows(store), at |-> 0]}
        BY <1>2, <3>2, SearchEffect DEF Control
      <4>2. Control[1].generation = c.generation
        BY <4>1, <2>1, SearchesTyped, Dequeued
      <4>3. \A g \in Used' : \/ g = c.generation
                             \/ \E s \in scans : g = s.generation
                             \/ \E i \in DOMAIN Scanning : g = Scanning[i].generation
        BY <4>1, <2>1 DEF Used
      <4>4. QED
        BY <4>2, <4>3, <2>3, UsedIs
    <3>3. QED
      BY <3>1, <3>2
  <2>5. QED
    BY <1>0, <2>1, <2>2, <2>4, GensKept
<1>3. CASE SyncSearch
  <2>1. /\ UNCHANGED <<store, scans>> /\ Scanning' = Scanning
        /\ window.open /\ window.due /\ ~window'.due
        /\ window'.generation = window.generation
        /\ IF window.query = NoQuery THEN Control' = Control
           ELSE \E c \in SearchCommand : /\ Control' = Append(Control, c)
                                         /\ c.generation = window.generation
    BY <1>3, SyncEffect DEF Control, Scanning, LaneNames
  <2>2. \A g \in Used' : g = -1 \/ g \in Used
    BY <2>1 DEF Used
  <2>3. CASE window.query = NoQuery
    BY <2>1, <2>3, ControlKept, <1>0, <2>2, GensKept
  <2>4. CASE window.query # NoQuery
    <3>1. PICK c \in SearchCommand : /\ Control' = Append(Control, c)
                                     /\ c.generation = window.generation
      BY <2>1, <2>4
    <3>2. Control \in Seq(ControlCommand) /\ c \in ControlCommand
      BY SearchesTyped DEF ControlCommand
    <3>3. /\ DOMAIN Control = 1..Len(Control) /\ Len(Control) \in Nat
          /\ DOMAIN Control' = 1..Len(Control) + 1
          /\ \A i \in DOMAIN Control : Control'[i] = Control[i]
          /\ Control'[Len(Control) + 1] = c
      BY <3>1, <3>2, Queued
    <3>4. \A i \in Searches' : \/ i = Len(Control) + 1 /\ Control'[i] = c
                               \/ /\ i \in Searches /\ i \in 1..Len(Control)
                                  /\ Control'[i] = Control[i]
      BY <3>3 DEF Searches
    <3>5. \A i \in Searches : Control[i].generation < window.generation
      BY <2>1 DEF GensOrdered, Bounded
    <3>6. \A g \in Used' : g < window.generation
      BY <2>1 DEF GensOrdered, Bounded, Used
    <3>7. \A i, j \in Searches' : i < j => Control'[i].generation < Control'[j].generation
      <4> SUFFICES ASSUME NEW i \in Searches', NEW j \in Searches', i < j
                   PROVE  Control'[i].generation < Control'[j].generation
        OBVIOUS
      <4>1. i \in Searches /\ Control'[i] = Control[i]
        BY <3>3, <3>4 DEF Searches
      <4>2. CASE j = Len(Control) + 1
        BY <4>1, <4>2, <3>1, <3>3, <3>5
      <4>3. CASE j # Len(Control) + 1
        BY <4>1, <4>3, <3>4 DEF GensOrdered
      <4>4. QED
        BY <4>2, <4>3
    <3>8. \A g \in Used', i \in Searches' : g < Control'[i].generation
      <4>1. Used' = Used
        BY <2>1 DEF Used
      <4>2. QED
        BY <4>1, <3>1, <3>4, <3>6 DEF GensOrdered
    <3>9. \A g \in Int : g <= window.generation => Bounded(window', g)
      BY <2>1 DEF Bounded
    <3>10. window.generation \in Int
      <4>1. window \in OpenWindow
        BY <2>1 DEF Typed, NoWindow
      <4>2. QED
        BY <4>1, LogStoreAssumption DEF OpenWindow, Generations
    <3>11. \A g \in Used' : Bounded(window', g)
      <4>1. Used' \subseteq Int
        BY <2>1, UsedTyped DEF Used
      <4>2. QED
        BY <4>1, <3>6, <3>9, <3>10
    <3>12. \A i \in Searches' : Bounded(window', Control'[i].generation)
      BY <3>1, <3>4, <3>5, <3>9, <3>10, SearchesTyped
    <3>13. QED
      BY <3>7, <3>8, <3>11, <3>12 DEF GensOrdered
  <2>5. QED
    BY <2>3, <2>4
<1>4. QED
  BY <1>1, <1>2, <1>3

-----------------------------------------------------------------------------
(* The search index: the matches in the index of the search `se`, and those*)
(* that its scan has put into the lane, are those of the rows scanned.     *)

Finds(se, c, r) == /\ c.kind = "scanned" /\ c.generation = se.generation
                   /\ c.hits = <<r>>
Ends(se, c) == c.kind = "completed" /\ c.generation = se.generation

Found(se, lane, r) == \/ \E k \in DOMAIN se.hits : se.hits[k] = r
                      \/ \E i \in DOMAIN lane : Finds(se, lane[i], r)

ScannedTo(se, rows, lane, n) ==
  /\ n \in 0..Len(rows)
  /\ \A r : Found(se, lane, r) <=> r \in 1..n /\ rows[r] \in Matches(se.query)

(* One scan of the search, on a prefix of the rows.                        *)
OneScan(se, rows, threads, lane) ==
  \A s \in threads : s.generation = se.generation =>
    /\ s.query = se.query /\ ~se.complete
    /\ Len(s.rows) <= Len(rows) /\ s.at <= Len(s.rows)
    /\ \A i \in DOMAIN s.rows : s.rows[i] = rows[i]
    /\ ScannedTo(se, rows, lane, s.at)
    /\ \A t \in threads : t.generation = se.generation => t = s
    /\ \A i \in DOMAIN lane : ~Ends(se, lane[i])

(* Its end is the last it says.                                            *)
OneEnd(se, rows, lane) ==
  \A i \in DOMAIN lane : Ends(se, lane[i]) =>
    /\ ~se.complete
    /\ ScannedTo(se, rows, lane, lane[i].scanned)
    /\ \A j \in DOMAIN lane : lane[j].generation = se.generation => j <= i

(* A search is complete, or its scan runs, or its end is under way.        *)
Underway(se, rows, threads, lane) ==
  IF se.complete
  THEN /\ ScannedTo(se, rows, lane, Len(rows))
       /\ \A i \in DOMAIN lane : lane[i].generation # se.generation
  ELSE \/ \E s \in threads : s.generation = se.generation
       \/ \E i \in DOMAIN lane : Ends(se, lane[i])

InOrder(se, lane) ==
  /\ Increasing(se.hits)
  /\ \A i \in DOMAIN lane, r \in Nat : Finds(se, lane[i], r) =>
       /\ \A k \in DOMAIN se.hits : se.hits[k] < r
       /\ \A j \in DOMAIN lane, q \in Nat : j < i /\ Finds(se, lane[j], q) => q < r

Indexed(se, rows, threads, lane) ==
  /\ OneScan(se, rows, threads, lane)
  /\ OneEnd(se, rows, lane)
  /\ Underway(se, rows, threads, lane)
  /\ InOrder(se, lane)

Index == store.open /\ store.search # NoSearch =>
           Indexed(store.search, Rows(store), scans, Scanning)

(* What is found is a row.                                                 *)
LEMMA FoundFits ==
  ASSUME NEW se, NEW rows, NEW threads, NEW lane, Len(rows) \in Nat,
         Indexed(se, rows, threads, lane)
  PROVE  \A r : Found(se, lane, r) => r \in 1..Len(rows)
                                      /\ rows[r] \in Matches(se.query)
<1>1. \E n : ScannedTo(se, rows, lane, n)
  BY DEF Indexed, OneScan, OneEnd, Underway
<1>2. PICK n : ScannedTo(se, rows, lane, n)
  BY <1>1
<1>3. n \in 0..Len(rows)
  BY <1>2 DEF ScannedTo
<1>4. \A r : r \in 1..n => r \in 1..Len(rows)
  BY <1>3
<1>5. QED
  BY <1>2, <1>4 DEF ScannedTo

LEMMA IndexFits == Typed /\ Index => HitsFit
<1> SUFFICES ASSUME Typed, Index, store.open, store.search # NoSearch,
                    NEW i \in DOMAIN store.search.hits
             PROVE  store.search.hits[i] \in 1..Len(Rows(store))
  BY DEF HitsFit
<1>1. Indexed(store.search, Rows(store), scans, Scanning)
  BY DEF Index
<1>2. Len(Rows(store)) \in Nat
  BY RowsTyped DEF Typed, NoStore
<1>3. Found(store.search, Scanning, store.search.hits[i])
  BY DEF Found
<1>4. QED
  BY <1>1, <1>2, <1>3, FoundFits

(* A completed index is exact.                                             *)
LEMMA IndexExact ==
  ASSUME NEW se \in Search, NEW rows, NEW threads, NEW lane, Len(rows) \in Nat,
         Indexed(se, rows, threads, lane), se.complete
  PROVE  se.hits = Hits(rows, se.query, 0)
<1>1. se.hits \in Seq(Nat \ {0}) /\ Increasing(se.hits)
  BY DEF Search, Indexed, InOrder
<1>2. /\ \A r : Found(se, lane, r)
                 <=> r \in 1..Len(rows) /\ rows[r] \in Matches(se.query)
      /\ \A i \in DOMAIN lane : lane[i].generation # se.generation
  BY DEF Indexed, Underway, ScannedTo
<1>3. \A r : Found(se, lane, r) <=> \E k \in DOMAIN se.hits : se.hits[k] = r
  BY <1>2 DEF Found, Finds
<1>4. \A r : r \in 0 + 1..Len(rows) /\ rows[r] \in Matches(se.query)
             <=> \E k \in DOMAIN se.hits : se.hits[k] = r
  BY <1>2, <1>3
<1>5. QED
  BY <1>1, <1>4, HitsUnique

(* A search begins with nothing found, and nothing said of it yet.         *)
LEMMA IndexBegins ==
  ASSUME NEW se, NEW rows \in Seq(Records), NEW threads, NEW lane, NEW scan,
         se.hits = <<>>, ~se.complete,
         \A s \in threads : s.generation # se.generation,
         \A i \in DOMAIN lane : lane[i].generation # se.generation,
         scan.generation = se.generation, scan.query = se.query,
         scan.rows = rows, scan.at = 0
  PROVE  Indexed(se, rows, threads \cup {scan}, lane)
<1>1. Len(rows) \in Nat
  OBVIOUS
<1>2. DOMAIN se.hits = {}
  OBVIOUS
<1>3. \A r : ~Found(se, lane, r)
  BY <1>2 DEF Found, Finds
<1>4. ScannedTo(se, rows, lane, 0)
  BY <1>1, <1>3 DEF ScannedTo
<1>5. OneScan(se, rows, threads \cup {scan}, lane)
  BY <1>1, <1>4 DEF OneScan, Ends
<1>6. OneEnd(se, rows, lane)
  BY DEF OneEnd, Ends
<1>7. Underway(se, rows, threads \cup {scan}, lane)
  BY DEF Underway
<1>8. InOrder(se, lane)
  BY <1>2 DEF InOrder, Finds, Increasing
<1>9. QED
  BY <1>5, <1>6, <1>7, <1>8 DEF Indexed

(* A row is appended; a completed search looks at it at once.              *)
LEMMA IndexAppended ==
  ASSUME NEW se \in Search, NEW rows \in Seq(Records), NEW threads, NEW lane,
         \A s \in threads : s \in Scan, lane \in Seq(ScanCommand),
         Indexed(se, rows, threads, lane), NEW record \in Records,
         NEW new, new = IF se.complete /\ record \in Matches(se.query)
                        THEN [se EXCEPT !.hits = Append(@, Len(rows) + 1)]
                        ELSE se
  PROVE  Indexed(new, Append(rows, record), threads, lane)
<1>1. PICK more : more = Append(rows, record)
  OBVIOUS
<1>2. /\ Len(rows) \in Nat /\ Len(more) = Len(rows) + 1
      /\ DOMAIN rows = 1..Len(rows)
      /\ \A r \in 1..Len(rows) : more[r] = rows[r]
      /\ more[Len(rows) + 1] = record
  BY <1>1, Queued
<1>3. CASE ~(se.complete /\ record \in Matches(se.query))
  <2>1. new = se
    BY <1>3
  <2>2. \A n : ScannedTo(se, rows, lane, n) => ScannedTo(se, more, lane, n)
    <3> SUFFICES ASSUME NEW n, ScannedTo(se, rows, lane, n)
                 PROVE  ScannedTo(se, more, lane, n)
      OBVIOUS
    <3>1. n \in 0..Len(rows)
      BY DEF ScannedTo
    <3>2. n \in 0..Len(more) /\ \A r \in 1..n : more[r] = rows[r]
      BY <3>1, <1>2
    <3>3. QED
      BY <3>2 DEF ScannedTo
  <2>3. OneScan(se, more, threads, lane)
    <3> SUFFICES ASSUME NEW s \in threads, s.generation = se.generation
                 PROVE  /\ s.query = se.query /\ ~se.complete
                        /\ Len(s.rows) <= Len(more) /\ s.at <= Len(s.rows)
                        /\ \A i \in DOMAIN s.rows : s.rows[i] = more[i]
                        /\ ScannedTo(se, more, lane, s.at)
                        /\ \A t \in threads : t.generation = se.generation => t = s
                        /\ \A i \in DOMAIN lane : ~Ends(se, lane[i])
      BY DEF OneScan
    <3>1. /\ s.query = se.query /\ ~se.complete
          /\ Len(s.rows) <= Len(rows) /\ s.at <= Len(s.rows)
          /\ \A i \in DOMAIN s.rows : s.rows[i] = rows[i]
          /\ ScannedTo(se, rows, lane, s.at)
          /\ \A t \in threads : t.generation = se.generation => t = s
          /\ \A i \in DOMAIN lane : ~Ends(se, lane[i])
      BY DEF Indexed, OneScan
    <3>2. Len(s.rows) \in Nat /\ DOMAIN s.rows = 1..Len(s.rows)
      BY DEF Scan
    <3>3. \A i \in DOMAIN s.rows : s.rows[i] = more[i]
      BY <3>1, <3>2, <1>2
    <3>4. Len(s.rows) <= Len(more)
      BY <3>1, <3>2, <1>2
    <3>5. QED
      BY <3>1, <3>3, <3>4, <2>2
  <2>4. OneEnd(se, more, lane)
    BY <2>2 DEF Indexed, OneEnd
  <2>5. Underway(se, more, threads, lane)
    <3>1. CASE ~se.complete
      BY <3>1 DEF Indexed, Underway
    <3>2. CASE se.complete
      <4>1. /\ ScannedTo(se, rows, lane, Len(rows))
            /\ \A i \in DOMAIN lane : lane[i].generation # se.generation
        BY <3>2 DEF Indexed, Underway
      <4>2. ~(more[Len(rows) + 1] \in Matches(se.query))
        BY <3>2, <1>2, <1>3
      <4>3. \A r : r \in 1..Len(more) /\ more[r] \in Matches(se.query)
                   <=> r \in 1..Len(rows) /\ rows[r] \in Matches(se.query)
        <5> SUFFICES ASSUME NEW r
                     PROVE  r \in 1..Len(more) /\ more[r] \in Matches(se.query)
                            <=> r \in 1..Len(rows) /\ rows[r] \in Matches(se.query)
          OBVIOUS
        <5>1. r \in 1..Len(more) <=> r \in 1..Len(rows) \/ r = Len(rows) + 1
          BY <1>2
        <5>2. r \in 1..Len(rows) => r # Len(rows) + 1
          BY <1>2
        <5>3. QED
          BY <5>1, <5>2, <4>2, <1>2
      <4>4. Len(more) \in 0..Len(more)
        BY <1>2
      <4>5. ScannedTo(se, more, lane, Len(more))
        BY <4>1, <4>3, <4>4 DEF ScannedTo
      <4>6. QED
        BY <4>1, <4>5, <3>2 DEF Underway
    <3>3. QED
      BY <3>1, <3>2
  <2>6. Indexed(se, more, threads, lane)
    BY <2>3, <2>4, <2>5 DEF Indexed
  <2>7. QED
    BY <2>1, <2>6, <1>1
<1>4. CASE se.complete /\ record \in Matches(se.query)
  <2> DEFINE last == Len(rows) + 1
  <2>1. /\ new.hits = Append(se.hits, last) /\ new.complete
        /\ new.generation = se.generation /\ new.query = se.query
    BY <1>4 DEF Search
  <2>2. /\ ScannedTo(se, rows, lane, Len(rows))
        /\ \A i \in DOMAIN lane : lane[i].generation # se.generation
    BY <1>4 DEF Indexed, Underway
  <2>3. last \in Nat \ {0} /\ se.hits \in Seq(Nat \ {0})
    BY <1>2 DEF Search
  <2> HIDE DEF last
  <2>4. /\ DOMAIN se.hits = 1..Len(se.hits) /\ Len(se.hits) \in Nat
        /\ DOMAIN new.hits = 1..Len(se.hits) + 1
        /\ \A k \in DOMAIN se.hits : new.hits[k] = se.hits[k]
        /\ new.hits[Len(se.hits) + 1] = last
    BY <2>1, <2>3, Queued
  <2>5. \A k \in DOMAIN se.hits : se.hits[k] \in 1..Len(rows)
    <3> SUFFICES ASSUME NEW k \in DOMAIN se.hits
                 PROVE  se.hits[k] \in 1..Len(rows)
      OBVIOUS
    <3>1. Found(se, lane, se.hits[k])
      BY DEF Found
    <3>2. QED
      BY <3>1, <1>2, FoundFits
  <2>6. \A r : (\E k \in DOMAIN new.hits : new.hits[k] = r)
               <=> r = last \/ \E k \in DOMAIN se.hits : se.hits[k] = r
    BY <2>4
  <2>7. \A r : \A i \in DOMAIN lane : /\ ~Finds(se, lane[i], r)
                                      /\ ~Finds(new, lane[i], r)
    BY <2>1, <2>2 DEF Finds
  <2>8. \A r : Found(new, lane, r) <=> r = last \/ Found(se, lane, r)
    BY <2>6, <2>7 DEF Found
  <2>9. \A r : r \in 1..Len(more) /\ more[r] \in Matches(se.query)
               <=> \/ r \in 1..Len(rows) /\ rows[r] \in Matches(se.query)
                   \/ r = last
    <3> SUFFICES ASSUME NEW r
                 PROVE  r \in 1..Len(more) /\ more[r] \in Matches(se.query)
                        <=> \/ r \in 1..Len(rows) /\ rows[r] \in Matches(se.query)
                            \/ r = last
      OBVIOUS
    <3>1. r \in 1..Len(more) <=> r \in 1..Len(rows) \/ r = last
      BY <1>2 DEF last
    <3>2. r \in 1..Len(rows) => r # last
      BY <1>2 DEF last
    <3>3. more[last] \in Matches(se.query)
      BY <1>2, <1>4 DEF last
    <3>4. QED
      BY <3>1, <3>2, <3>3, <1>2
  <2>10. ScannedTo(new, more, lane, Len(more))
    <3>1. Len(more) \in 0..Len(more)
      BY <1>2
    <3>2. QED
      BY <3>1, <2>1, <2>2, <2>8, <2>9 DEF ScannedTo
  <2>11. OneScan(new, more, threads, lane)
    BY <1>4, <2>1 DEF Indexed, OneScan
  <2>12. OneEnd(new, more, lane)
    BY <2>1, <2>2 DEF OneEnd, Ends
  <2>13. Underway(new, more, threads, lane)
    BY <2>1, <2>2, <2>10 DEF Underway
  <2>14. Increasing(new.hits)
    <3> SUFFICES ASSUME NEW i \in DOMAIN new.hits, NEW j \in DOMAIN new.hits, i < j
                 PROVE  new.hits[i] < new.hits[j]
      BY DEF Increasing
    <3>1. i \in DOMAIN se.hits
      BY <2>4
    <3>2. CASE j \in DOMAIN se.hits
      BY <3>1, <3>2, <2>4 DEF Indexed, InOrder, Increasing
    <3>3. CASE j \notin DOMAIN se.hits
      <4>1. j = Len(se.hits) + 1
        BY <3>3, <2>4
      <4>2. new.hits[j] = last /\ new.hits[i] \in 1..Len(rows)
        BY <4>1, <3>1, <2>4, <2>5
      <4>3. QED
        BY <4>2, <1>2 DEF last
    <3>4. QED
      BY <3>2, <3>3
  <2>15. InOrder(new, lane)
    BY <2>7, <2>14 DEF InOrder
  <2>16. Indexed(new, more, threads, lane)
    BY <2>11, <2>12, <2>13, <2>15 DEF Indexed
  <2>17. QED
    BY <2>16, <1>1
<1>5. QED
  BY <1>3, <1>4

(* What is found in a lane that loses its first command, or gets one more. *)
LEMMA FoundTaking ==
  ASSUME NEW se, NEW lane \in Seq(ScanCommand), lane # <<>>
  PROVE  \A r : Found(se, lane, r) <=> \/ Finds(se, lane[1], r)
                                       \/ Found(se, Tail(lane), r)
<1>1. /\ 1 \in DOMAIN lane /\ DOMAIN lane = 1..Len(lane) /\ Len(lane) \in Nat
      /\ DOMAIN Tail(lane) = 1..Len(lane) - 1
      /\ \A i \in DOMAIN Tail(lane) : i + 1 \in DOMAIN lane /\ Tail(lane)[i] = lane[i + 1]
  BY Dequeued
<1>2. \A i \in DOMAIN lane : i = 1 \/ /\ i - 1 \in DOMAIN Tail(lane)
                                      /\ Tail(lane)[i - 1] = lane[i]
  BY <1>1
<1>3. \A r : (\E i \in DOMAIN lane : Finds(se, lane[i], r))
             <=> \/ Finds(se, lane[1], r)
                 \/ \E i \in DOMAIN Tail(lane) : Finds(se, Tail(lane)[i], r)
  BY <1>1, <1>2
<1>4. QED
  BY <1>3 DEF Found

LEMMA FoundPutting ==
  ASSUME NEW se, NEW lane \in Seq(ScanCommand), NEW c \in ScanCommand,
         NEW longer, longer = Append(lane, c)
  PROVE  \A r : Found(se, longer, r) <=> Found(se, lane, r) \/ Finds(se, c, r)
<1>1. /\ DOMAIN lane = 1..Len(lane) /\ Len(lane) \in Nat
      /\ DOMAIN longer = 1..Len(lane) + 1
      /\ \A i \in DOMAIN lane : longer[i] = lane[i]
      /\ longer[Len(lane) + 1] = c
  BY Queued
<1>2. \A i \in DOMAIN longer : i \in DOMAIN lane \/ i = Len(lane) + 1
  BY <1>1
<1>3. DOMAIN lane \subseteq DOMAIN longer /\ Len(lane) + 1 \in DOMAIN longer
  BY <1>1
<1>4. \A r : (\E i \in DOMAIN longer : Finds(se, longer[i], r))
             <=> \/ \E i \in DOMAIN lane : Finds(se, lane[i], r)
                 \/ Finds(se, c, r)
  BY <1>1, <1>2, <1>3
<1>5. QED
  BY <1>4 DEF Found

(* A command of another search is dropped.                                 *)
LEMMA IndexDropped ==
  ASSUME NEW se, NEW rows, NEW threads, NEW lane \in Seq(ScanCommand),
         lane # <<>>, lane[1].generation # se.generation,
         Indexed(se, rows, threads, lane)
  PROVE  Indexed(se, rows, threads, Tail(lane))
<1>1. PICK less : less = Tail(lane)
  OBVIOUS
<1>2. /\ DOMAIN lane = 1..Len(lane) /\ Len(lane) \in Nat /\ 1 <= Len(lane)
      /\ DOMAIN less = 1..Len(lane) - 1
      /\ \A i \in DOMAIN less : i + 1 \in DOMAIN lane /\ less[i] = lane[i + 1]
  BY <1>1, Dequeued
<1>3. \A i \in DOMAIN lane : i # 1 => /\ i - 1 \in DOMAIN less
                                      /\ less[i - 1] = lane[i]
  BY <1>2
<1>4. \A r : Found(se, less, r) <=> Found(se, lane, r)
  BY <1>1, FoundTaking DEF Finds
<1>5. \A n : ScannedTo(se, rows, less, n) <=> ScannedTo(se, rows, lane, n)
  BY <1>4 DEF ScannedTo
<1>6. OneScan(se, rows, threads, less)
  BY <1>2, <1>5 DEF Indexed, OneScan
<1>7. OneEnd(se, rows, less)
  <2> SUFFICES ASSUME NEW i \in DOMAIN less, Ends(se, less[i])
               PROVE  /\ ~se.complete
                      /\ ScannedTo(se, rows, less, less[i].scanned)
                      /\ \A j \in DOMAIN less :
                           less[j].generation = se.generation => j <= i
    BY DEF OneEnd
  <2>1. i + 1 \in DOMAIN lane /\ Ends(se, lane[i + 1])
    BY <1>2
  <2>2. /\ ~se.complete
        /\ ScannedTo(se, rows, lane, lane[i + 1].scanned)
        /\ \A j \in DOMAIN lane : lane[j].generation = se.generation => j <= i + 1
    BY <2>1 DEF Indexed, OneEnd
  <2>3. \A j \in DOMAIN less : less[j].generation = se.generation => j <= i
    <3> SUFFICES ASSUME NEW j \in DOMAIN less, less[j].generation = se.generation
                 PROVE  j <= i
      OBVIOUS
    <3>1. j + 1 <= i + 1 /\ i \in Int /\ j \in Int
      BY <1>2, <2>2
    <3>2. QED
      BY <3>1
  <2>4. QED
    BY <1>2, <1>5, <2>2, <2>3
<1>8. Underway(se, rows, threads, less)
  <2>1. CASE se.complete
    BY <2>1, <1>2, <1>5 DEF Indexed, Underway
  <2>2. CASE ~se.complete
    <3>1. ASSUME NEW i \in DOMAIN lane, Ends(se, lane[i])
          PROVE  \E j \in DOMAIN less : Ends(se, less[j])
      BY <3>1, <1>3 DEF Ends
    <3>2. QED
      BY <2>2, <3>1 DEF Indexed, Underway
  <2>3. QED
    BY <2>1, <2>2
<1>9. InOrder(se, less)
  <2>1. Increasing(se.hits)
    BY DEF Indexed, InOrder
  <2>2. ASSUME NEW i \in DOMAIN less, NEW r \in Nat, Finds(se, less[i], r)
        PROVE  /\ \A k \in DOMAIN se.hits : se.hits[k] < r
               /\ \A j \in DOMAIN less, q \in Nat : j < i /\ Finds(se, less[j], q) => q < r
    <3>1. i + 1 \in DOMAIN lane /\ Finds(se, lane[i + 1], r)
      BY <1>2, <2>2
    <3>2. /\ \A k \in DOMAIN se.hits : se.hits[k] < r
          /\ \A j \in DOMAIN lane, q \in Nat : j < i + 1 /\ Finds(se, lane[j], q) => q < r
      BY <3>1 DEF Indexed, InOrder
    <3>3. ASSUME NEW j \in DOMAIN less, NEW q \in Nat, j < i, Finds(se, less[j], q)
          PROVE  q < r
      BY <1>2, <3>3, <3>2
    <3>4. QED
      BY <3>2, <3>3
  <2>3. QED
    BY <2>1, <2>2 DEF InOrder
<1>10. QED
  BY <1>1, <1>6, <1>7, <1>8, <1>9 DEF Indexed

Holds(s, r) == \E k \in DOMAIN s : s[k] = r

(* Matches joined to earlier ones.                                          *)
LEMMA HitsJoined ==
  ASSUME NEW s \in Seq(Nat \ {0}), NEW t \in Seq(Nat \ {0}), NEW u, u = s \o t
  PROVE  /\ \A r : Holds(u, r) <=> Holds(s, r) \/ Holds(t, r)
         /\ (/\ Increasing(s) /\ Increasing(t)
             /\ \A i \in DOMAIN s, j \in DOMAIN t : s[i] < t[j]) => Increasing(u)
<1>1. /\ Len(s) \in Nat /\ DOMAIN s = 1..Len(s)
      /\ Len(t) \in Nat /\ DOMAIN t = 1..Len(t)
      /\ DOMAIN u = 1..Len(s) + Len(t)
      /\ \A i \in 1..Len(s) : u[i] = s[i]
      /\ \A i \in 1..Len(t) : u[Len(s) + i] = t[i]
  BY Joined
<1>2. \A k \in DOMAIN u : \/ k \in DOMAIN s /\ u[k] = s[k]
                          \/ k - Len(s) \in DOMAIN t /\ u[k] = t[k - Len(s)]
  <2> SUFFICES ASSUME NEW k \in DOMAIN u, k \notin DOMAIN s
               PROVE  k - Len(s) \in DOMAIN t /\ u[k] = t[k - Len(s)]
    BY <1>1
  <2>1. k - Len(s) \in 1..Len(t) /\ Len(s) + (k - Len(s)) = k
    BY <1>1
  <2>2. QED
    BY <2>1, <1>1
<1>3. /\ \A k \in DOMAIN s : k \in DOMAIN u /\ u[k] = s[k]
      /\ \A k \in DOMAIN t : Len(s) + k \in DOMAIN u /\ u[Len(s) + k] = t[k]
  BY <1>1
<1>4. \A r : (\E k \in DOMAIN u : u[k] = r)
             <=> \/ \E k \in DOMAIN s : s[k] = r
                 \/ \E k \in DOMAIN t : t[k] = r
  <2> SUFFICES ASSUME NEW r
               PROVE  (\E k \in DOMAIN u : u[k] = r)
                      <=> \/ \E k \in DOMAIN s : s[k] = r
                          \/ \E k \in DOMAIN t : t[k] = r
    OBVIOUS
  <2>1. ASSUME NEW k \in DOMAIN u, u[k] = r
        PROVE  \/ \E m \in DOMAIN s : s[m] = r
               \/ \E m \in DOMAIN t : t[m] = r
    <3>1. CASE k \in DOMAIN s /\ u[k] = s[k]
      BY <2>1, <3>1
    <3>2. CASE k - Len(s) \in DOMAIN t /\ u[k] = t[k - Len(s)]
      <4>1. PICK m : m = k - Len(s)
        OBVIOUS
      <4>2. m \in DOMAIN t /\ t[m] = r
        BY <2>1, <3>2, <4>1
      <4>3. QED
        BY <4>2
    <3>3. QED
      BY <3>1, <3>2, <1>2
  <2>2. ASSUME NEW k \in DOMAIN s, s[k] = r
        PROVE  \E m \in DOMAIN u : u[m] = r
    BY <2>2, <1>3
  <2>3. ASSUME NEW k \in DOMAIN t, t[k] = r
        PROVE  \E m \in DOMAIN u : u[m] = r
    BY <2>3, <1>3
  <2>4. QED
    BY <2>1, <2>2, <2>3
<1>5. ASSUME Increasing(s), Increasing(t),
             \A i \in DOMAIN s, j \in DOMAIN t : s[i] < t[j],
             NEW i \in DOMAIN u, NEW j \in DOMAIN u, i < j
      PROVE  u[i] < u[j]
  <2>1. CASE i \in DOMAIN s /\ j \in DOMAIN s
    BY <2>1, <1>3, <1>5 DEF Increasing
  <2>2. CASE i \in DOMAIN s /\ j \notin DOMAIN s
    BY <2>2, <1>2, <1>3, <1>5
  <2>3. CASE i \notin DOMAIN s
    BY <2>3, <1>1, <1>5, <1>2 DEF Increasing
  <2>4. QED
    BY <2>1, <2>2, <2>3
<1>6. QED
  BY <1>4, <1>5 DEF Holds, Increasing

(* What the scan says of a row.                                             *)
LEMMA OneFound ==
  ASSUME NEW hits \in OneRow
  PROVE  /\ hits \in Seq(Nat \ {0}) /\ Increasing(hits)
         /\ \A r : hits = <<r>> <=> Holds(hits, r)
<1>1. CASE hits = <<>>
  BY <1>1 DEF Increasing, Holds
<1>2. CASE hits # <<>>
  <2>1. PICK row \in Nat \ {0} : hits = <<row>>
    BY <1>2 DEF OneRow
  <2>2. hits \in Seq(Nat \ {0}) /\ DOMAIN hits = {1} /\ hits[1] = row
    BY <2>1
  <2>3. Increasing(hits)
    BY <2>2 DEF Increasing
  <2>4. \A r : hits = <<r>> => hits[1] = r
    OBVIOUS
  <2>5. QED
    BY <2>1, <2>2, <2>3, <2>4 DEF Holds
<1>3. QED
  BY <1>1, <1>2

(* A row found moves from the lane into the index.                         *)
LEMMA IndexScanned ==
  ASSUME NEW se \in Search, NEW rows, NEW threads, NEW lane \in Seq(ScanCommand),
         Len(rows) \in Nat,
         lane # <<>>, NEW c \in ScannedCommand, c = lane[1],
         c.generation = se.generation,
         Indexed(se, rows, threads, lane),
         NEW new, new = [se EXCEPT !.hits = @ \o c.hits]
  PROVE  Indexed(new, rows, threads, Tail(lane))
<1>1. PICK less : less = Tail(lane)
  OBVIOUS
<1>2. /\ DOMAIN lane = 1..Len(lane) /\ Len(lane) \in Nat /\ 1 <= Len(lane)
      /\ DOMAIN less = 1..Len(lane) - 1 /\ 1 \in DOMAIN lane
      /\ \A i \in DOMAIN less : i + 1 \in DOMAIN lane /\ less[i] = lane[i + 1]
  BY Dequeued, <1>1
<1>3. \A i \in DOMAIN lane : i # 1 => /\ i - 1 \in DOMAIN less
                                      /\ less[i - 1] = lane[i]
  BY <1>2
<1>4. /\ new.generation = se.generation /\ new.query = se.query
      /\ new.complete = se.complete /\ new.hits = se.hits \o c.hits
      /\ c.kind = "scanned"
  BY DEF Search, ScannedCommand
<1>5. /\ \A x, r : Finds(new, x, r) <=> Finds(se, x, r)
      /\ \A x : Ends(new, x) <=> Ends(se, x)
  BY <1>4 DEF Finds, Ends
<1>6. ~se.complete /\ ~Ends(se, c)
  BY <1>2, <1>4 DEF Indexed, Underway, Ends
<1>7. \A r : (\E k \in DOMAIN new.hits : new.hits[k] = r)
             <=> Finds(se, c, r) \/ \E k \in DOMAIN se.hits : se.hits[k] = r
  <2>1. se.hits \in Seq(Nat \ {0}) /\ c.hits \in OneRow
    BY DEF Search, ScannedCommand
  <2>2. c.hits \in Seq(Nat \ {0}) /\ \A r : c.hits = <<r>> <=> Holds(c.hits, r)
    BY <2>1, OneFound
  <2>3. \A r : Holds(new.hits, r) <=> Holds(se.hits, r) \/ Holds(c.hits, r)
    BY <2>1, <2>2, <1>4, HitsJoined
  <2>4. \A r : Finds(se, c, r) <=> c.hits = <<r>>
    BY <1>4 DEF Finds
  <2>5. QED
    BY <2>2, <2>3, <2>4 DEF Holds
<1>8. \A r : Found(new, less, r) <=> Found(se, lane, r)
  <2>1. \A r : Found(se, lane, r) <=> Finds(se, c, r) \/ Found(se, less, r)
    BY <1>1, FoundTaking
  <2>2. \A r : Found(new, less, r)
               <=> Finds(se, c, r) \/ Found(se, less, r)
    BY <1>5, <1>7 DEF Found
  <2>3. QED
    BY <2>1, <2>2
<1>9. \A n : ScannedTo(new, rows, less, n) <=> ScannedTo(se, rows, lane, n)
  BY <1>4, <1>8 DEF ScannedTo
<1>10. OneScan(new, rows, threads, less)
  BY <1>2, <1>4, <1>5, <1>9 DEF Indexed, OneScan
<1>11. OneEnd(new, rows, less)
  <2> SUFFICES ASSUME NEW i \in DOMAIN less, Ends(se, less[i])
               PROVE  /\ ~se.complete
                      /\ ScannedTo(se, rows, lane, less[i].scanned)
                      /\ \A j \in DOMAIN less :
                           less[j].generation = se.generation => j <= i
    BY <1>4, <1>5, <1>9 DEF OneEnd
  <2>1. i + 1 \in DOMAIN lane /\ Ends(se, lane[i + 1])
    BY <1>2
  <2>2. /\ ~se.complete
        /\ ScannedTo(se, rows, lane, lane[i + 1].scanned)
        /\ \A j \in DOMAIN lane : lane[j].generation = se.generation => j <= i + 1
    BY <2>1 DEF Indexed, OneEnd
  <2>3. \A j \in DOMAIN less : less[j].generation = se.generation => j <= i
    <3> SUFFICES ASSUME NEW j \in DOMAIN less, less[j].generation = se.generation
                 PROVE  j <= i
      OBVIOUS
    <3>1. j + 1 <= i + 1 /\ i \in Int /\ j \in Int
      BY <1>2, <2>2
    <3>2. QED
      BY <3>1
  <2>4. QED
    BY <1>2, <2>2, <2>3
<1>12. Underway(new, rows, threads, less)
  <2>1. ASSUME NEW i \in DOMAIN lane, Ends(se, lane[i])
        PROVE  \E j \in DOMAIN less : Ends(se, less[j])
    BY <2>1, <1>6, <1>3
  <2>2. QED
    BY <2>1, <1>4, <1>5, <1>6 DEF Indexed, Underway
<1>13. InOrder(new, less)
  <2>1. \A k \in DOMAIN se.hits : se.hits[k] \in Nat
    BY ElementOfSeq DEF Search
  <2>2. \A r \in Nat : Finds(se, c, r) =>
          /\ \A k \in DOMAIN se.hits : se.hits[k] < r
    BY <1>2 DEF Indexed, InOrder
  <2>3. ASSUME NEW i \in DOMAIN less, NEW r \in Nat, Finds(se, less[i], r)
        PROVE  /\ \A k \in DOMAIN new.hits : new.hits[k] < r
               /\ \A j \in DOMAIN less, q \in Nat : j < i /\ Finds(se, less[j], q) => q < r
    <3>1. i + 1 \in DOMAIN lane /\ Finds(se, lane[i + 1], r) /\ 1 < i + 1
      BY <1>2, <2>3
    <3>2. /\ \A k \in DOMAIN se.hits : se.hits[k] < r
          /\ \A j \in DOMAIN lane, q \in Nat : j < i + 1 /\ Finds(se, lane[j], q) => q < r
      BY <3>1 DEF Indexed, InOrder
    <3>3. ASSUME NEW j \in DOMAIN less, NEW q \in Nat, j < i, Finds(se, less[j], q)
          PROVE  q < r
      BY <1>2, <3>3, <3>2
    <3>4. ASSUME NEW k \in DOMAIN new.hits PROVE new.hits[k] < r
      <4>1. CASE Finds(se, c, new.hits[k])
        <5>1. new.hits[k] \in Nat
          <6>1. PICK row : row = new.hits[k]
            OBVIOUS
          <6>2. c.hits = <<row>> /\ c.hits \in OneRow
            BY <4>1, <6>1 DEF Finds, ScannedCommand
          <6>3. \E m \in DOMAIN c.hits : c.hits[m] = row
            BY <6>2, OneFound DEF Holds
          <6>4. c.hits \in Seq(Nat \ {0})
            BY <6>2, OneFound
          <6>5. row \in Nat \ {0}
            BY <6>3, <6>4, ElementOfSeq
          <6>6. QED
            BY <6>1, <6>5
        <5>2. QED
          BY <4>1, <5>1, <3>1, <3>2, <1>2
      <4>2. CASE \E m \in DOMAIN se.hits : se.hits[m] = new.hits[k]
        BY <4>2, <3>2
      <4>3. QED
        BY <4>1, <4>2, <1>7
    <3>5. QED
      BY <3>3, <3>4
  <2>4. Increasing(new.hits)
    <3>0. se.hits \in Seq(Nat \ {0}) /\ Increasing(se.hits)
      BY DEF Search, Indexed, InOrder
    <3>1. c.hits \in Seq(Nat \ {0}) /\ Increasing(c.hits)
      BY OneFound DEF ScannedCommand
    <3>2. \A i \in DOMAIN se.hits, j \in DOMAIN c.hits : se.hits[i] < c.hits[j]
      <4> SUFFICES ASSUME NEW i \in DOMAIN se.hits, NEW j \in DOMAIN c.hits
                   PROVE  se.hits[i] < c.hits[j]
        OBVIOUS
      <4>1. PICK r : r = c.hits[j]
        OBVIOUS
      <4>2. c.hits = <<r>>
        BY <4>1, OneFound DEF ScannedCommand, Holds
      <4>3. r \in Nat
        BY <4>1, <3>1, ElementOfSeq
      <4>4. Finds(se, c, r)
        BY <4>2, <1>4 DEF Finds
      <4>5. QED
        BY <4>1, <4>3, <4>4, <2>2
    <3>3. QED
      BY <3>0, <3>1, <3>2, <1>4, HitsJoined
  <2>5. QED
    BY <2>3, <2>4, <1>5 DEF InOrder
<1>14. QED
  BY <1>1, <1>10, <1>11, <1>12, <1>13 DEF Indexed

(* What follows is said of another search, or of none.                     *)
LEMMA IndexPutOther ==
  ASSUME NEW se, NEW rows, NEW threads, NEW lane \in Seq(ScanCommand),
         NEW c \in ScanCommand, c.generation # se.generation,
         NEW longer, longer = Append(lane, c),
         Indexed(se, rows, threads, lane)
  PROVE  Indexed(se, rows, threads, longer)
<1>1. /\ DOMAIN lane = 1..Len(lane) /\ Len(lane) \in Nat
      /\ DOMAIN longer = 1..Len(lane) + 1
      /\ \A i \in DOMAIN lane : longer[i] = lane[i]
      /\ longer[Len(lane) + 1] = c
  BY Queued
<1>2. /\ \A i \in DOMAIN lane : i \in DOMAIN longer /\ longer[i] = lane[i]
      /\ \A i \in DOMAIN longer :
           longer[i].generation = se.generation => i \in DOMAIN lane
  BY <1>1
<1>3. \A r : Found(se, longer, r) <=> Found(se, lane, r)
  BY FoundPutting DEF Finds
<1>4. \A n : ScannedTo(se, rows, longer, n) <=> ScannedTo(se, rows, lane, n)
  BY <1>3 DEF ScannedTo
<1>5. /\ \A i \in DOMAIN longer : Ends(se, longer[i]) => i \in DOMAIN lane
      /\ \A r : \A i \in DOMAIN longer : Finds(se, longer[i], r) => i \in DOMAIN lane
  BY <1>2 DEF Ends, Finds
<1>6. OneScan(se, rows, threads, longer)
  BY <1>2, <1>4, <1>5 DEF Indexed, OneScan
<1>7. OneEnd(se, rows, longer)
  BY <1>2, <1>4, <1>5 DEF Indexed, OneEnd
<1>8. Underway(se, rows, threads, longer)
  BY <1>2, <1>4 DEF Indexed, Underway
<1>9. InOrder(se, longer)
  BY <1>2, <1>5 DEF Indexed, InOrder
<1>10. QED
  BY <1>6, <1>7, <1>8, <1>9 DEF Indexed

LEMMA IndexThreads ==
  ASSUME NEW se, NEW rows, NEW threads, NEW others, NEW lane,
         \A s : s.generation = se.generation => (s \in threads <=> s \in others),
         Indexed(se, rows, threads, lane)
  PROVE  Indexed(se, rows, others, lane)
<1>1. OneScan(se, rows, others, lane)
  BY DEF Indexed, OneScan
<1>2. Underway(se, rows, others, lane)
  <2>1. CASE se.complete
    BY <2>1 DEF Indexed, Underway
  <2>2. CASE \E s \in threads : s.generation = se.generation
    BY <2>2 DEF Indexed, Underway
  <2>3. CASE ~se.complete /\ \E i \in DOMAIN lane : Ends(se, lane[i])
    BY <2>3 DEF Underway
  <2>4. QED
    BY <2>1, <2>2, <2>3 DEF Indexed, Underway
<1>3. QED
  BY <1>1, <1>2 DEF Indexed

(* The scan has looked at one more row.                                    *)
LEMMA IndexRow ==
  ASSUME NEW se \in Search, NEW rows, Len(rows) \in Nat,
         NEW threads, NEW lane \in Seq(ScanCommand),
         Indexed(se, rows, threads, lane),
         NEW s \in Scan, s \in threads, s.generation = se.generation,
         s.at < Len(s.rows),
         NEW t, t = [s EXCEPT !.at = @ + 1],
         NEW c \in ScannedCommand, c.generation = s.generation,
         c.hits = IF s.rows[s.at + 1] \in Matches(s.query)
                  THEN <<s.at + 1>> ELSE <<>>,
         NEW longer, longer = Append(lane, c)
  PROVE  Indexed(se, rows, (threads \ {s}) \cup {t}, longer)
<1>1. /\ s.query = se.query /\ ~se.complete
      /\ Len(s.rows) <= Len(rows) /\ s.at <= Len(s.rows)
      /\ \A i \in DOMAIN s.rows : s.rows[i] = rows[i]
      /\ ScannedTo(se, rows, lane, s.at)
      /\ \A x \in threads : x.generation = se.generation => x = s
      /\ \A i \in DOMAIN lane : ~Ends(se, lane[i])
  BY DEF Indexed, OneScan
<1>2. /\ Len(s.rows) \in Nat /\ DOMAIN s.rows = 1..Len(s.rows) /\ s.at \in Nat
      /\ t.generation = se.generation /\ t.query = se.query
      /\ t.rows = s.rows /\ t.at = s.at + 1
  BY <1>1 DEF Scan
<1>3. PICK row : row = s.at + 1
  OBVIOUS
<1>4. row \in DOMAIN s.rows /\ row \in 1..Len(rows) /\ row \in Nat \ {0}
  BY <1>1, <1>2, <1>3
<1>5. \A r : Finds(se, c, r) <=> r = row /\ rows[r] \in Matches(se.query)
  BY <1>1, <1>3, <1>4 DEF ScannedCommand, Finds
<1>6. c \in ScanCommand /\ ~Ends(se, c)
  BY DEF ScanCommand, ScannedCommand, Ends
<1>7. \A r : Found(se, longer, r) <=> Found(se, lane, r) \/ Finds(se, c, r)
  BY <1>6, FoundPutting
<1>8. ScannedTo(se, rows, longer, row)
  BY <1>2, <1>3, <1>4, <1>1, <1>5, <1>7 DEF ScannedTo
<1>9. /\ DOMAIN lane = 1..Len(lane) /\ Len(lane) \in Nat
      /\ DOMAIN longer = 1..Len(lane) + 1
      /\ \A i \in DOMAIN lane : longer[i] = lane[i]
      /\ longer[Len(lane) + 1] = c
  BY <1>6, Queued
<1>10. \A i \in DOMAIN longer : \/ i \in DOMAIN lane /\ longer[i] = lane[i]
                                \/ i = Len(lane) + 1 /\ longer[i] = c
  BY <1>9
<1>11. \A i \in DOMAIN longer : ~Ends(se, longer[i])
  BY <1>1, <1>6, <1>10
<1>12. \A x \in (threads \ {s}) \cup {t} : x.generation = se.generation => x = t
  BY <1>1
<1>13. OneScan(se, rows, (threads \ {s}) \cup {t}, longer)
  <2>1. t.at <= Len(t.rows)
    BY <1>2
  <2>2. ScannedTo(se, rows, longer, t.at)
    BY <1>2, <1>3, <1>8
  <2>3. /\ t.query = se.query /\ ~se.complete
        /\ Len(t.rows) <= Len(rows) /\ t.at <= Len(t.rows)
        /\ \A i \in DOMAIN t.rows : t.rows[i] = rows[i]
    BY <2>1, <1>1, <1>2
  <2>4. PICK others : others = (threads \ {s}) \cup {t}
    OBVIOUS
  <2>5. \A x \in others : x.generation = se.generation => x = t
    BY <2>4, <1>12
  <2>6. OneScan(se, rows, others, longer)
    BY <2>2, <2>3, <2>5, <1>11 DEF OneScan
  <2>7. QED
    BY <2>4, <2>6
<1>14. OneEnd(se, rows, longer)
  BY <1>11 DEF OneEnd
<1>15. Underway(se, rows, (threads \ {s}) \cup {t}, longer)
  BY <1>1, <1>2 DEF Underway
<1>16. InOrder(se, longer)
  <2>1. \A r : Found(se, lane, r) => r \in 1..s.at
    BY <1>1 DEF ScannedTo
  <2>2. Increasing(se.hits)
    BY DEF Indexed, InOrder
  <2>3. ASSUME NEW i \in DOMAIN longer, NEW r \in Nat, Finds(se, longer[i], r)
        PROVE  /\ \A k \in DOMAIN se.hits : se.hits[k] < r
               /\ \A j \in DOMAIN longer, q \in Nat :
                    j < i /\ Finds(se, longer[j], q) => q < r
    <3>1. CASE i \in DOMAIN lane /\ longer[i] = lane[i]
      BY <3>1, <1>9, <2>3 DEF Indexed, InOrder
    <3>2. CASE i = Len(lane) + 1 /\ longer[i] = c
      <4>1. r = row
        BY <2>3, <3>2, <1>5
      <4>2. \A q \in 1..s.at : q < r
        BY <4>1, <1>2, <1>3
      <4>3. \A k \in DOMAIN se.hits : se.hits[k] < r
        BY <2>1, <4>2 DEF Found
      <4>4. \A j \in DOMAIN longer : j < i => j \in DOMAIN lane /\ longer[j] = lane[j]
        BY <3>2, <1>9
      <4>5. \A j \in DOMAIN longer, q \in Nat : j < i /\ Finds(se, longer[j], q) => q < r
        BY <4>2, <4>4, <2>1 DEF Found
      <4>6. QED
        BY <4>3, <4>5
    <3>3. QED
      BY <3>1, <3>2, <1>10
  <2>4. QED
    BY <2>2, <2>3 DEF InOrder
<1>17. QED
  BY <1>13, <1>14, <1>15, <1>16 DEF Indexed

(* The scan has looked at its rows, and says so.                           *)
LEMMA IndexEnding ==
  ASSUME NEW se \in Search, NEW rows, Len(rows) \in Nat,
         NEW threads, NEW lane \in Seq(ScanCommand),
         Indexed(se, rows, threads, lane),
         NEW s \in Scan, s \in threads, s.generation = se.generation,
         NEW c \in EndCommand, c.generation = s.generation, c.scanned = s.at,
         NEW longer, longer = Append(lane, c)
  PROVE  Indexed(se, rows, threads \ {s}, longer)
<1>1. /\ ~se.complete /\ ScannedTo(se, rows, lane, s.at)
      /\ \A x \in threads : x.generation = se.generation => x = s
      /\ \A i \in DOMAIN lane : ~Ends(se, lane[i])
  BY DEF Indexed, OneScan
<1>2. c \in ScanCommand /\ Ends(se, c) /\ \A r : ~Finds(se, c, r)
  BY DEF ScanCommand, EndCommand, Ends, Finds
<1>3. /\ DOMAIN lane = 1..Len(lane) /\ Len(lane) \in Nat
      /\ DOMAIN longer = 1..Len(lane) + 1
      /\ \A i \in DOMAIN lane : longer[i] = lane[i]
      /\ longer[Len(lane) + 1] = c
  BY <1>2, Queued
<1>4. \A i \in DOMAIN longer : \/ i \in DOMAIN lane /\ longer[i] = lane[i]
                               \/ i = Len(lane) + 1 /\ longer[i] = c
  BY <1>3
<1>5. \A r : Found(se, longer, r) <=> Found(se, lane, r)
  BY <1>2, FoundPutting
<1>6. ScannedTo(se, rows, longer, s.at)
  BY <1>1, <1>5 DEF ScannedTo
<1>7. OneScan(se, rows, threads \ {s}, longer)
  BY <1>1 DEF OneScan
<1>8. OneEnd(se, rows, longer)
  BY <1>1, <1>4, <1>3, <1>6 DEF OneEnd
<1>9. Underway(se, rows, threads \ {s}, longer)
  BY <1>3, <1>1, <1>2 DEF Underway
<1>10. InOrder(se, longer)
  <2>1. Increasing(se.hits)
    BY DEF Indexed, InOrder
  <2>2. ASSUME NEW i \in DOMAIN longer, NEW r \in Nat, Finds(se, longer[i], r)
        PROVE  /\ \A k \in DOMAIN se.hits : se.hits[k] < r
               /\ \A j \in DOMAIN longer, q \in Nat :
                    j < i /\ Finds(se, longer[j], q) => q < r
    BY <2>2, <1>2, <1>4 DEF Indexed, InOrder
  <2>3. QED
    BY <2>1, <2>2 DEF InOrder
<1>11. QED
  BY <1>7, <1>8, <1>9, <1>10 DEF Indexed

(* The store searches the rows that came after those scanned.              *)
LEMMA IndexEnded ==
  ASSUME NEW se \in Search, NEW rows, Len(rows) \in Nat,
         NEW threads, NEW lane \in Seq(ScanCommand), lane # <<>>,
         NEW c \in EndCommand, c = lane[1], c.generation = se.generation,
         Indexed(se, rows, threads, lane),
         NEW new, new = [se EXCEPT !.complete = TRUE,
                                   !.hits = @ \o Hits(rows, se.query, c.scanned)]
  PROVE  Indexed(new, rows, threads, Tail(lane))
<1>1. PICK less, late : less = Tail(lane) /\ late = Hits(rows, se.query, c.scanned)
  OBVIOUS
<1>2. /\ DOMAIN lane = 1..Len(lane) /\ Len(lane) \in Nat /\ 1 <= Len(lane)
      /\ DOMAIN less = 1..Len(lane) - 1 /\ 1 \in DOMAIN lane
      /\ \A i \in DOMAIN less : i + 1 \in DOMAIN lane /\ less[i] = lane[i + 1]
  BY Dequeued, <1>1
<1>3. /\ new.generation = se.generation /\ new.query = se.query
      /\ new.complete /\ new.hits = se.hits \o late
  BY <1>1 DEF Search
<1>4. Ends(se, c) /\ \A r : ~Finds(se, c, r)
  BY DEF EndCommand, Ends, Finds
<1>5. /\ ScannedTo(se, rows, lane, c.scanned)
      /\ \A j \in DOMAIN lane : lane[j].generation = se.generation => j <= 1
  BY <1>2, <1>4 DEF Indexed, OneEnd
<1>6. \A i \in DOMAIN less : less[i].generation # se.generation
  BY <1>2, <1>5
<1>7. \A s \in threads : s.generation # se.generation
  BY <1>2, <1>4 DEF Indexed, OneScan
<1>8. c.scanned \in 0..Len(rows) /\ c.scanned \in Nat
  BY <1>5 DEF ScannedTo, EndCommand
<1>9. \A r : Holds(se.hits, r)
             <=> r \in 1..c.scanned /\ rows[r] \in Matches(se.query)
  <2>1. \A i \in DOMAIN lane : lane[i].generation = se.generation => lane[i] = c
    BY <1>2, <1>5
  <2>2. \A r : \A i \in DOMAIN lane : ~Finds(se, lane[i], r)
    BY <2>1, <1>4 DEF Finds
  <2>3. \A r : Found(se, lane, r) <=> Holds(se.hits, r)
    BY <2>2 DEF Found, Holds
  <2>4. QED
    BY <2>3, <1>5 DEF ScannedTo
<1>10. /\ late \in Seq(Nat \ {0}) /\ Increasing(late)
       /\ \A r : Holds(late, r) <=> r \in c.scanned + 1..Len(rows)
                                    /\ rows[r] \in Matches(se.query)
  <2>1. /\ late \in Seq(Nat \ {0}) /\ Increasing(late)
        /\ \A r : r \in FoundIn(rows, se.query, c.scanned)
                  <=> \E k \in DOMAIN late : late[k] = r
    BY <1>1, <1>8, HitsAre
  <2>2. QED
    BY <2>1 DEF FoundIn, Holds
<1>11. se.hits \in Seq(Nat \ {0}) /\ Increasing(se.hits)
  BY DEF Search, Indexed, InOrder
<1>12. \A i \in DOMAIN se.hits, j \in DOMAIN late : se.hits[i] < late[j]
  <2>1. \A i \in DOMAIN se.hits : se.hits[i] \in 1..c.scanned
    BY <1>9 DEF Holds
  <2>2. \A j \in DOMAIN late : late[j] \in c.scanned + 1..Len(rows)
    BY <1>10 DEF Holds
  <2>3. QED
    BY <2>1, <2>2, <1>8
<1>13. /\ \A r : Holds(new.hits, r) <=> Holds(se.hits, r) \/ Holds(late, r)
       /\ Increasing(new.hits)
  BY <1>3, <1>10, <1>11, <1>12, HitsJoined
<1>14. \A r : Holds(new.hits, r)
              <=> r \in 1..Len(rows) /\ rows[r] \in Matches(se.query)
  BY <1>8, <1>9, <1>10, <1>13
<1>15. \A r : \A i \in DOMAIN less : ~Finds(new, less[i], r) /\ ~Ends(new, less[i])
  BY <1>3, <1>6 DEF Finds, Ends
<1>16. ScannedTo(new, rows, less, Len(rows))
  <2>1. \A r : Found(new, less, r) <=> Holds(new.hits, r)
    BY <1>15 DEF Found, Holds
  <2>2. Len(rows) \in 0..Len(rows)
    OBVIOUS
  <2>3. QED
    BY <2>1, <2>2, <1>3, <1>14 DEF ScannedTo
<1>17. OneScan(new, rows, threads, less)
  BY <1>3, <1>7 DEF OneScan
<1>18. OneEnd(new, rows, less)
  BY <1>15 DEF OneEnd
<1>19. Underway(new, rows, threads, less)
  BY <1>3, <1>6, <1>16 DEF Underway
<1>20. InOrder(new, less)
  BY <1>13, <1>15 DEF InOrder
<1>21. QED
  BY <1>1, <1>17, <1>18, <1>19, <1>20 DEF Indexed

(* The store may lose its rows, but not others come to be.                 *)
LEMMA IndexCalm ==
  ASSUME Index, Scanning' = Scanning, scans' = scans,
         store'.open => /\ store.open /\ store'.search = store.search
                        /\ Rows(store') = Rows(store)
  PROVE  Index'
  BY DEF Index

LEMMA IndexSearch ==
  ASSUME Typed, GensOrdered, ExecuteSearch, Index
  PROVE  Index'
<1>1. Scanning' = Scanning /\ Control # <<>>
  BY SearchEffect DEF Scanning, Control, LaneNames
<1>2. CASE ~store.open
  BY <1>1, <1>2, SearchEffect, IndexCalm
<1>3. CASE store.open
  <2>1. PICK c \in SearchCommand :
          /\ c = Head(Control) /\ StoreOK(store)
          /\ Rows(store') = Rows(store)
          /\ store'.search = [generation |-> c.generation,
                              query |-> c.query, hits |-> <<>>,
                              complete |-> FALSE]
          /\ scans' = scans \cup {[generation |-> c.generation,
                                   query |-> c.query,
                                   rows |-> Rows(store), at |-> 0]}
    BY <1>3, SearchEffect DEF Control
  <2>2. /\ Control[1] = c /\ 1 \in Searches
    BY <1>1, SearchesTyped, Dequeued, ControlTaken, <2>1 DEF ExecuteSearch,
       Control, Searches
  <2>3. \A g \in Used : g < c.generation
    BY <2>2 DEF GensOrdered
  <2>4. c.generation \in Nat /\ ~(c.generation < c.generation)
    BY <2>2, SearchesTyped
  <2>5. /\ \A s \in scans : s.generation # c.generation
        /\ \A i \in DOMAIN Scanning : Scanning[i].generation # c.generation
    BY <2>3, <2>4, UsedIs
  <2>6. PICK se, scan :
          /\ se = [generation |-> c.generation, query |-> c.query, hits |-> <<>>,
                   complete |-> FALSE]
          /\ scan = [generation |-> c.generation, query |-> c.query,
                     rows |-> Rows(store), at |-> 0]
    OBVIOUS
  <2>7. /\ se.hits = <<>> /\ ~se.complete /\ se.generation = c.generation
        /\ scan.generation = se.generation /\ scan.query = se.query
        /\ scan.rows = Rows(store) /\ scan.at = 0
    BY <2>6
  <2>8. Rows(store) \in Seq(Records)
    BY <2>1, RowsTyped
  <2>9. Indexed(se, Rows(store), scans \cup {scan}, Scanning)
    BY <2>5, <2>7, <2>8, IndexBegins
  <2>10. store'.search = se /\ scans' = scans \cup {scan}
    BY <2>1, <2>6
  <2>11. QED
    BY <2>1, <2>9, <2>10, <1>1 DEF Index
<1>4. QED
  BY <1>2, <1>3

LEMMA IndexAppend ==
  ASSUME Typed, ExecuteAppend, Index
  PROVE  Index'
<1>1. Scanning' = Scanning /\ scans' = scans
  BY AppendEffect DEF Scanning, LaneNames
<1>2. CASE ~store.open
  BY <1>1, <1>2, AppendEffect, IndexCalm
<1>3. CASE store.open
  <2>1. PICK record \in Records : /\ store' = Appended(store, record)
                                  /\ Rows(store') = Append(Rows(store), record)
                                  /\ StoreOK(store)
    BY <1>3, AppendEffect
  <2>2. IF store.search.complete /\ record \in Matches(store.search.query)
        THEN store'.search = [store.search EXCEPT !.hits =
                                Append(@, Len(Rows(store)) + 1)]
        ELSE store'.search = store.search
    BY <2>1, RowAppended
  <2>3. CASE store.search = NoSearch
    BY <2>2, <2>3 DEF NoSearch, Index
  <2>4. CASE store.search # NoSearch
    <3>1. store.search \in Search /\ Rows(store) \in Seq(Records)
      BY <2>1, <2>4, SearchIs, RowsTyped
    <3>2. Indexed(store.search, Rows(store), scans, Scanning)
      BY <1>3, <2>4 DEF Index
    <3>3. PICK se, rows : se = store.search /\ rows = Rows(store)
      OBVIOUS
    <3>4. PICK new : new = IF se.complete /\ record \in Matches(se.query)
                           THEN [se EXCEPT !.hits = Append(@, Len(rows) + 1)]
                           ELSE se
      OBVIOUS
    <3>5. store'.search = new
      BY <2>2, <3>3, <3>4
    <3>6. \A s \in scans : s \in Scan
      BY DEF Typed
    <3>7. Scanning \in Seq(ScanCommand)
      BY UsedTyped
    <3>8. Indexed(new, Append(rows, record), scans, Scanning)
      BY <3>1, <3>2, <3>3, <3>4, <3>6, <3>7, IndexAppended
    <3>9. QED
      BY <1>1, <2>1, <3>3, <3>5, <3>8 DEF Index
  <2>5. QED
    BY <2>3, <2>4
<1>4. QED
  BY <1>2, <1>3

LEMMA IndexScan ==
  ASSUME Typed, ExecuteScanned \/ ExecuteScanCompleted, Index
  PROVE  Index'
<1>1. /\ scans' = scans /\ Scanning # <<>> /\ Scanning' = Tail(Scanning)
      /\ Scanning \in Seq(ScanCommand) /\ Head(Scanning) = Scanning[1]
  <2>1. scans' = scans /\ Scanning # <<>> /\ Scanning' = Tail(Scanning)
    BY ScannedEffect, ScanCompletedEffect DEF Scanning
  <2>2. QED
    BY <2>1, UsedTyped, Dequeued
<1>2. CASE /\ ~store.open \/ store.search.generation # Scanning[1].generation
           /\ UNCHANGED store
  <2>1. CASE ~(store.open /\ store.search # NoSearch)
    BY <1>2, <2>1 DEF Index
  <2>2. CASE store.open /\ store.search # NoSearch
    <3>1. Indexed(store.search, Rows(store), scans, Scanning)
      BY <2>2 DEF Index
    <3>2. PICK se, rows : se = store.search /\ rows = Rows(store)
      OBVIOUS
    <3>3. Scanning[1].generation # se.generation
      BY <1>2, <2>2, <3>2
    <3>4. Indexed(se, rows, scans, Tail(Scanning))
      BY <1>1, <3>1, <3>2, <3>3, IndexDropped
    <3>5. QED
      BY <1>1, <1>2, <3>2, <3>4 DEF Index
  <2>3. QED
    BY <2>1, <2>2
<1>3. CASE store.open /\ store.search.generation = Scanning[1].generation
  <2>1. Scanning[1].generation \in Nat /\ Scanning[1] \in ScanCommand
    BY <1>1, Dequeued, UsedTyped
  <2>2. StoreOK(store)
    BY <1>3 DEF Typed, NoStore
  <2>3. store.search \in Search /\ store.search # NoSearch
    BY <1>3, <2>1, <2>2, SearchIs
  <2>4. Rows(store) \in Seq(Records) /\ Len(Rows(store)) \in Nat
    BY <2>2, RowsTyped
  <2>5. Indexed(store.search, Rows(store), scans, Scanning)
    BY <1>3, <2>3 DEF Index
  <2>6. PICK se, rows, c : se = store.search /\ rows = Rows(store) /\ c = Scanning[1]
    OBVIOUS
  <2>7. CASE ExecuteScanned
    <3>1. /\ c \in ScannedCommand /\ Rows(store') = Rows(store)
          /\ store'.search = [store.search EXCEPT !.hits = @ \o c.hits]
      BY ZenonT(30), <1>1, <1>3, <2>6, <2>7, ScannedEffect DEF Scanning
    <3>2. PICK new : new = [se EXCEPT !.hits = @ \o c.hits]
      OBVIOUS
    <3>3. store'.search = new
      BY <2>6, <3>1, <3>2
    <3>4. Indexed(new, rows, scans, Tail(Scanning))
      BY <1>1, <1>3, <2>3, <2>4, <2>5, <2>6, <3>1, <3>2, IndexScanned
    <3>5. QED
      BY <1>1, <2>6, <3>1, <3>3, <3>4 DEF Index
  <2>8. CASE ExecuteScanCompleted
    <3>1. /\ c \in EndCommand /\ Rows(store') = Rows(store)
          /\ store'.search = [store.search EXCEPT
                                !.complete = TRUE,
                                !.hits = @ \o Hits(Rows(store), store.search.query,
                                                   c.scanned)]
      BY <1>1, <1>3, <2>6, <2>8, ScanCompletedEffect DEF Scanning
    <3>2. PICK new : new = [se EXCEPT !.complete = TRUE,
                                      !.hits = @ \o Hits(rows, se.query, c.scanned)]
      OBVIOUS
    <3>3. store'.search = new
      BY <2>6, <3>1, <3>2
    <3>4. Indexed(new, rows, scans, Tail(Scanning))
      BY <1>1, <1>3, <2>3, <2>4, <2>5, <2>6, <3>1, <3>2, IndexEnded
    <3>5. QED
      BY <1>1, <2>6, <3>1, <3>3, <3>4 DEF Index
  <2>9. QED
    BY <2>7, <2>8
<1>4. CASE ~store.open \/ store.search.generation # Scanning[1].generation
  BY <1>1, <1>4, ScannedEffect, ScanCompletedEffect, <1>2 DEF Scanning
<1>5. QED
  BY <1>3, <1>4

LEMMA IndexThread ==
  ASSUME Typed, NEW s \in scans, ScanRow(s) \/ ScanEnds(s) \/ ScanCancelled(s), Index
  PROVE  Index'
<1>1. UNCHANGED store /\ s \in Scan /\ Scanning \in Seq(ScanCommand)
  BY UsedTyped DEF ScanRow, ScanEnds, ScanCancelled, Typed
<1>2. CASE ~(store.open /\ store.search # NoSearch)
  BY <1>1, <1>2 DEF Index
<1>3. CASE store.open /\ store.search # NoSearch
  <2>1. PICK se, rows : se = store.search /\ rows = Rows(store)
    OBVIOUS
  <2>2. Indexed(se, rows, scans, Scanning)
    BY <1>3, <2>1 DEF Index
  <2>3. StoreOK(store)
    BY <1>3 DEF Typed, NoStore
  <2>4. se \in Search /\ Len(rows) \in Nat
    BY <1>3, <2>1, <2>3, SearchIs, RowsTyped
  <2>5. SUFFICES Indexed(se, rows, scans', Scanning')
    BY <1>1, <2>1 DEF Index
  <2>6. CASE ScanRow(s)
    <3>1. PICK c \in ScannedCommand :
            /\ Scanning' = Append(Scanning, c) /\ c.generation = s.generation
            /\ c.hits = IF s.rows[s.at + 1] \in Matches(s.query)
                        THEN <<s.at + 1>> ELSE <<>>
      BY <2>6, ScanRowEffect DEF Scanning
    <3>2. PICK t, longer : /\ t = [s EXCEPT !.at = @ + 1]
                           /\ longer = Append(Scanning, c)
      OBVIOUS
    <3>3. scans' = (scans \ {s}) \cup {t} /\ s.at < Len(s.rows)
      BY <2>6, <3>2, ScanRowEffect
    <3>4. CASE s.generation = se.generation
      BY <1>1, <2>2, <2>4, <3>1, <3>2, <3>3, <3>4, IndexRow
    <3>5. CASE s.generation # se.generation
      <4>1. t.generation # se.generation
        BY <1>1, <3>2, <3>5 DEF Scan
      <4>2. \A x : x.generation = se.generation => (x \in scans <=> x \in scans')
        BY <3>3, <3>5, <4>1
      <4>3. Indexed(se, rows, scans', Scanning)
        BY <2>2, <4>2, IndexThreads
      <4>4. c \in ScanCommand /\ c.generation # se.generation
        BY <3>1, <3>5 DEF ScanCommand
      <4>5. Indexed(se, rows, scans', longer)
        BY <1>1, <3>2, <4>3, <4>4, IndexPutOther
      <4>6. QED
        BY <3>1, <3>2, <4>5
    <3>6. QED
      BY <3>4, <3>5
  <2>7. CASE ScanEnds(s)
    <3>1. PICK c \in EndCommand : /\ Scanning' = Append(Scanning, c)
                                  /\ c.generation = s.generation /\ c.scanned = s.at
      BY <2>7, ScanEndsEffect DEF Scanning
    <3>2. PICK longer : longer = Append(Scanning, c)
      OBVIOUS
    <3>3. scans' = scans \ {s}
      BY <2>7, ScanEndsEffect
    <3>4. CASE s.generation = se.generation
      BY <1>1, <2>2, <2>4, <3>1, <3>2, <3>4, IndexEnding, <3>3
    <3>5. CASE s.generation # se.generation
      BY <3>3, <3>5, <2>2, IndexThreads, <3>1, <1>1, <3>2, IndexPutOther
         DEF ScanCommand
    <3>6. QED
      BY <3>4, <3>5
  <2>8. CASE ScanCancelled(s)
    BY <2>1, <2>8, <2>2, IndexThreads DEF ScanCancelled, Scanning
  <2>9. QED
    BY <2>6, <2>7, <2>8
<1>4. QED
  BY <1>2, <1>3

LEMMA IndexNext ==
  ASSUME Typed, GensOrdered, Spare, Backfilled, HitsFit, Index, [Next]_vars
  PROVE  Index'
<1> USE DEF Scanning, LaneNames
<1>1. CASE StreamAppends
  BY <1>1, IndexCalm DEF StreamAppends, Puts, Typed, LaneState
<1>2. CASE HistoryAppends
  BY <1>2, IndexCalm DEF HistoryAppends, Puts, Typed, LaneState
<1>3. CASE ExecuteSearch
  BY <1>3, IndexSearch
<1>4. CASE ExecuteLoadPage
  BY <1>4, LoadPageEffect, IndexCalm
<1>5. CASE ExecuteClose
  BY <1>5, CloseEffect DEF Index
<1>6. CASE ExecuteAppend
  BY <1>6, IndexAppend
<1>7. CASE ExecuteRecall
  BY <1>7, RecallEffect, IndexCalm
<1>8. CASE ExecuteComplete
  <2>1. scans' = scans /\ Scanning' = Scanning
    BY <1>8, CompleteEffect
  <2>2. CASE UNCHANGED store
    BY <2>1, <2>2, IndexCalm
  <2>3. CASE store'.search = NoSearch
    BY <2>3 DEF Index
  <2>4. QED
    BY <1>8, <2>2, <2>3, CompleteEffect
<1>9. CASE ExecuteScanned
  BY <1>9, IndexScan
<1>10. CASE ExecuteScanCompleted
  BY <1>10, IndexScan
<1>11. CASE \E s \in scans : ScanRow(s) \/ ScanEnds(s) \/ ScanCancelled(s)
  BY <1>11, IndexThread
<1>12. CASE ApplyRebased
  BY <1>12, RebasedEffect, IndexCalm
<1>13. CASE ApplyProgress
  BY <1>13, ProgressEffect, IndexCalm
<1>14. CASE ApplyCompleted
  BY <1>14, CompletedEffect, IndexCalm
<1>15. CASE ApplyPage
  BY <1>15, PageEffect, IndexCalm
<1>16. CASE FindNoResult \/ Draw \/ NextFrame
  BY <1>16, FrameTyped, IndexCalm
<1>17. CASE ApplyUpdate
  BY <1>17, UpdateEffect, IndexCalm
<1>18. CASE SyncSearch
  BY <1>18, SyncEffect, IndexCalm
<1>19. CASE RequestPage
  BY <1>19, RequestEffect, IndexCalm
<1>20. CASE ChangeQuery
  BY <1>20, QueryEffect, IndexCalm
<1>21. CASE ToggleFilter
  BY <1>21, ToggleEffect, IndexCalm
<1>22. CASE CloseWindow
  BY <1>22, CloseWindowEffect, IndexCalm
<1>23. CASE UNCHANGED vars
  BY <1>23, IndexCalm DEF vars
<1>24. QED
  BY <1>1, <1>2, <1>3, <1>4, <1>5, <1>6, <1>7, <1>8, <1>9, <1>10, <1>11,
     <1>12, <1>13, <1>14, <1>15, <1>16, <1>17, <1>18, <1>19, <1>20, <1>21,
     <1>22, <1>23, EachStep

-----------------------------------------------------------------------------
(* The lanes and the result channel keep within their limits.              *)

Fits == /\ \A lane \in LaneNames : Len(lanes[lane]) <= LaneLimit
        /\ Len(results) <= ResultLimit + 1

LEMMA LongerBy ==
  ASSUME NEW S, NEW s \in Seq(S), NEW c
  PROVE  Len(Append(s, c)) = Len(s) + 1 /\ Len(s) \in Nat
<1>1. s \in Seq(S \cup {c}) /\ c \in S \cup {c}
  BY SeqDef
<1>2. QED
  BY <1>1, Queued

LEMMA QueuesAre ==
  ASSUME Typed
  PROVE  /\ DOMAIN lanes = LaneNames
         /\ \A lane \in LaneNames : \E S : lanes[lane] \in Seq(S)
  BY DEF Typed, LaneState, LaneNames

LEMMA LanesStep ==
  ASSUME Typed, [Next]_vars
  PROVE  \/ lanes' = lanes
         \/ \E lane \in LaneNames : \E c : Room(lane) /\ Puts(lane, c)
         \/ \E lane \in LaneNames : /\ lanes[lane] # <<>>
                                    /\ lanes' = [lanes EXCEPT ![lane] = Tail(@)]
<1> USE DEF LaneNames
<1>1. CASE StreamAppends
  BY <1>1 DEF StreamAppends
<1>2. CASE HistoryAppends
  BY <1>2 DEF HistoryAppends
<1>3. CASE ExecuteSearch \/ ExecuteLoadPage \/ ExecuteClose
  BY <1>3 DEF ExecuteSearch, ExecuteLoadPage, ExecuteClose, Takes
<1>4. CASE ExecuteAppend \/ ExecuteRecall \/ ExecuteComplete
  BY <1>4 DEF ExecuteAppend, ExecuteRecall, ExecuteComplete, Takes
<1>5. CASE ExecuteScanned \/ ExecuteScanCompleted
  BY <1>5 DEF ExecuteScanned, ExecuteScanCompleted, Takes
<1>6. CASE \E s \in scans : ScanRow(s) \/ ScanEnds(s) \/ ScanCancelled(s)
  BY <1>6 DEF ScanRow, ScanEnds, ScanCancelled
<1>7. CASE \/ ApplyRebased \/ ApplyProgress \/ ApplyCompleted \/ ApplyPage
           \/ FindNoResult \/ ApplyUpdate \/ Draw \/ NextFrame
  BY <1>7 DEF ApplyRebased, ApplyProgress, ApplyCompleted, ApplyPage, Received,
     FindNoResult, ApplyUpdate, Draw, NextFrame, input
<1>8. CASE SyncSearch \/ ChangeQuery \/ ToggleFilter \/ CloseWindow
  BY <1>8 DEF SyncSearch, ChangeQuery, ToggleFilter, CloseWindow
<1>9. CASE RequestPage
  BY <1>9 DEF RequestPage
<1>10. CASE UNCHANGED vars
  BY <1>10 DEF vars
<1>11. QED
  BY <1>1, <1>2, <1>3, <1>4, <1>5, <1>6, <1>7, <1>8, <1>9, <1>10, EachStep

LEMMA ChannelStep ==
  ASSUME Typed, [Next]_vars
  PROVE  \/ results' = results
         \/ \E r : ~Waiting /\ Answers(r)
         \/ results # <<>> /\ results' = Tail(results)
<1>1. CASE StreamAppends \/ HistoryAppends
  BY <1>1 DEF StreamAppends, HistoryAppends
<1>2. CASE ExecuteSearch \/ ExecuteClose
  BY <1>2 DEF ExecuteSearch, ExecuteClose, Unless
<1>3. CASE ExecuteLoadPage
  BY <1>3 DEF ExecuteLoadPage, Takes, Unless
<1>4. CASE ExecuteAppend \/ ExecuteRecall
  BY <1>4 DEF ExecuteAppend, ExecuteRecall, Unless
<1>5. CASE ExecuteComplete
  BY <1>5 DEF ExecuteComplete, Takes, Unless
<1>6. CASE ExecuteScanned \/ ExecuteScanCompleted
  BY <1>6 DEF ExecuteScanned, ExecuteScanCompleted, Takes, Unless
<1>7. CASE \E s \in scans : ScanRow(s) \/ ScanEnds(s) \/ ScanCancelled(s)
  BY <1>7 DEF ScanRow, ScanEnds, ScanCancelled
<1>8. CASE ApplyRebased \/ ApplyProgress \/ ApplyCompleted \/ ApplyPage
  BY <1>8 DEF ApplyRebased, ApplyProgress, ApplyCompleted, ApplyPage, Received
<1>9. CASE FindNoResult \/ ApplyUpdate \/ Draw \/ NextFrame
  BY <1>9 DEF FindNoResult, ApplyUpdate, Draw, NextFrame
<1>10. CASE SyncSearch \/ RequestPage \/ ChangeQuery \/ ToggleFilter \/ CloseWindow
  BY <1>10 DEF SyncSearch, RequestPage, ChangeQuery, ToggleFilter, CloseWindow,
     Drawing
<1>11. CASE UNCHANGED vars
  BY <1>11 DEF vars
<1>12. QED
  BY <1>1, <1>2, <1>3, <1>4, <1>5, <1>6, <1>7, <1>8, <1>9, <1>10, <1>11, EachStep

LEMMA FitsNext ==
  ASSUME Typed, Fits, [Next]_vars
  PROVE  Fits'
<1>1. LaneLimit \in Nat /\ ResultLimit \in Nat
  BY LogStoreAssumption
<1>2. ASSUME NEW lane \in LaneNames
      PROVE  Len(lanes'[lane]) <= LaneLimit
  <2>1. PICK S : lanes[lane] \in Seq(S)
    BY QueuesAre
  <2>2. DOMAIN lanes = LaneNames /\ Len(lanes[lane]) <= LaneLimit
    BY QueuesAre DEF Fits
  <2>3. CASE lanes' = lanes
    BY <2>2, <2>3
  <2>4. ASSUME NEW other \in LaneNames, NEW c, Room(other), Puts(other, c)
        PROVE  Len(lanes'[lane]) <= LaneLimit
    <3>1. CASE other = lane
      BY <2>2, <2>4, <3>1, <2>1, LongerBy, <1>1 DEF Puts, Room
    <3>2. CASE other # lane
      BY <2>2, <2>4, <3>2 DEF Puts
    <3>3. QED
      BY <3>1, <3>2
  <2>5. ASSUME NEW other \in LaneNames, lanes[other] # <<>>,
               lanes' = [lanes EXCEPT ![other] = Tail(@)]
        PROVE  Len(lanes'[lane]) <= LaneLimit
    <3>1. CASE other = lane
      BY <2>2, <2>5, <3>1, <2>1, Dequeued, <1>1
    <3>2. CASE other # lane
      BY <2>2, <2>5, <3>2
    <3>3. QED
      BY <3>1, <3>2
  <2>6. QED
    BY <2>3, <2>4, <2>5, LanesStep
<1>3. Len(results') <= ResultLimit + 1
  <2>1. results \in Seq(Result) /\ Len(results) \in Nat /\ Len(results) <= ResultLimit + 1
    BY DEF Typed, Fits
  <2>2. CASE results' = results
    BY <2>1, <2>2
  <2>3. ASSUME NEW r, ~Waiting, Answers(r)
        PROVE  Len(results') <= ResultLimit + 1
    BY <2>1, <2>3, LongerBy, <1>1 DEF Answers, Waiting
  <2>4. CASE results # <<>> /\ results' = Tail(results)
    BY <2>1, <2>4, Dequeued, <1>1
  <2>5. QED
    BY <2>2, <2>3, <2>4, ChannelStep
<1>4. QED
  BY <1>2, <1>3 DEF Fits

-----------------------------------------------------------------------------
(* The store alone: what it holds is as it should be, whatever the window  *)
(* has been told of it.                                                    *)

Sound == /\ Typed /\ Fits /\ Backfilled /\ OneRebase /\ Spare /\ GensOrdered
         /\ Index

LEMMA SoundInit == Init => Sound
<1> SUFFICES ASSUME Init PROVE Sound
  OBVIOUS
<1>1. Typed
  BY TypedInit
<1>2. /\ \A lane \in LaneNames : lanes[lane] = <<>>
      /\ results = <<>> /\ scans = {} /\ ~store.rebased /\ store.search = NoSearch
      /\ store.open /\ window.query = NoQuery /\ window.generation = 0
      /\ ~window.due
  BY LanesNamed DEF Init
<1>3. Control = <<>> /\ Backfill = <<>> /\ Scanning = <<>>
  BY <1>2 DEF Control, Backfill, Scanning, LaneNames
<1>4. Fits
  BY <1>2, LogStoreAssumption DEF Fits
<1>5. Backfilled /\ OneRebase /\ Spare
  BY <1>2, <1>3 DEF Backfilled, OneRebase, Spare, CaughtUp
<1>6. GensOrdered
  BY <1>3, <1>2 DEF Searches, Used, NoSearch, GensOrdered, Bounded
<1>7. Index
  BY <1>2 DEF Index
<1>8. QED
  BY <1>1, <1>4, <1>5, <1>6, <1>7 DEF Sound

LEMMA SoundNext == Sound /\ [Next]_vars => Sound'
<1> SUFFICES ASSUME Sound, [Next]_vars PROVE Sound'
  OBVIOUS
<1>1. HitsFit
  BY IndexFits DEF Sound
<1>2. Typed' /\ Fits' /\ Backfilled' /\ OneRebase' /\ Spare'
  BY <1>1, TypedNext, FitsNext, BackfilledNext, OneRebaseNext DEF Sound
<1>3. GensOrdered' /\ Index'
  BY <1>1, GensOrderedNext, IndexNext DEF Sound
<1>4. QED
  BY <1>2, <1>3 DEF Sound

LEMMA SoundAlways == Spec => []Sound
  BY SoundInit, SoundNext, PTL DEF Spec

LEMMA SoundTypes == Sound => TypeOK
<1> SUFFICES ASSUME Sound PROVE TypeOK
  OBVIOUS
<1>1. Typed /\ Fits
  BY DEF Sound
<1>2. /\ DOMAIN lanes = Range(Lanes)
      /\ \A lane \in DOMAIN lanes : Len(lanes[lane]) <= LaneLimit
  BY <1>1, QueuesAre, LanesNamed DEF Fits
<1>3. store = NoStore \/ store \in Store
  BY <1>1 DEF Typed, StoreOK
<1>4. update # NoUpdate => /\ update.total \in Nat
                           /\ Cardinality(DOMAIN update.rows) <= LiveLimit
  BY <1>1, CacheIs DEF Typed, Update, RowSets
<1>5. window # NoWindow =>
        /\ [f \in DOMAIN window \ {"pages", "liveRows"} |-> window[f]] \in Window
        /\ Cardinality(DOMAIN window.liveRows) <= LiveLimit
        /\ DOMAIN window.pages \subseteq Key
        /\ \A k \in DOMAIN window.pages : window.pages[k] \in Seq(Records)
  <2> SUFFICES ASSUME window \in OpenWindow
               PROVE  /\ [f \in DOMAIN window \ {"pages", "liveRows"} |-> window[f]]
                           \in Window
                      /\ Cardinality(DOMAIN window.liveRows) <= LiveLimit
                      /\ DOMAIN window.pages \subseteq Key
                      /\ \A k \in DOMAIN window.pages :
                           window.pages[k] \in Seq(Records)
    BY <1>1 DEF Typed
  <2>1. window.pages \in Pages /\ window.liveRows \in Caches
    BY DEF OpenWindow
  <2>2. /\ DOMAIN window.pages \subseteq Key
        /\ \A k \in DOMAIN window.pages : window.pages[k] \in Seq(Records)
    BY <2>1, PagesAre
  <2>3. Cardinality(DOMAIN window.liveRows) <= LiveLimit
    BY <2>1, CacheIs DEF RowSets
  <2>4. DOMAIN window \ {"pages", "liveRows"}
          = {"open", "total", "generation", "query", "filter", "count",
             "complete", "due", "pending", "stale"}
    BY DEF OpenWindow
  <2>5. [f \in DOMAIN window \ {"pages", "liveRows"} |-> window[f]]
          = [open |-> window.open, total |-> window.total,
             generation |-> window.generation, query |-> window.query,
             filter |-> window.filter, count |-> window.count,
             complete |-> window.complete, due |-> window.due,
             pending |-> window.pending, stale |-> window.stale]
    BY <2>4
  <2>6. [f \in DOMAIN window \ {"pages", "liveRows"} |-> window[f]] \in Window
    BY <2>5 DEF OpenWindow, Window
  <2>7. QED
    BY <2>2, <2>3, <2>6
<1>6. QED
  BY <1>1, <1>2, <1>3, <1>4, <1>5 DEF TypeOK, Typed, Fits

(* The state of the store, its threads, its queues and the window is always*)
(* of its type: a lane never holds more than its capacity, the result      *)
(* channel never more than one result that waits for room, and the rows    *)
(* cached are limited.                                                     *)
THEOREM StoreTyped == Spec => []TypeOK
  BY SoundAlways, SoundTypes, PTL

(* A completed search has exactly the matching rows of the store, in order:*)
(* those its thread scanned, those appended while it ran, and those since; *)
(* a rebase starts over, and neither a search replaced nor its scan, which *)
(* may still run, adds to it (log_store/scan.rs, log_store/storage).       *)
THEOREM IndexIsExact == Spec => []SearchIndexExact
<1>1. Sound => SearchIndexExact
  <2> SUFFICES ASSUME Sound, store.open, store.search.complete
               PROVE  store.search.hits = Hits(Rows(store), store.search.query, 0)
    BY DEF SearchIndexExact
  <2>1. StoreOK(store) /\ Index
    BY DEF Sound, Typed, NoStore
  <2>2. /\ store.search \in Search /\ store.search # NoSearch
        /\ Len(Rows(store)) \in Nat
    BY <2>1, SearchIs, RowsTyped DEF NoSearch
  <2>3. Indexed(store.search, Rows(store), scans, Scanning)
    BY <2>1, <2>2 DEF Index
  <2>4. QED
    BY <2>2, <2>3, IndexExact
<1>2. QED
  BY <1>1, SoundAlways, PTL

-----------------------------------------------------------------------------
(* What the window is told and has cached: the results after the last      *)
(* rebase are those of the numbering the store has now.                    *)

Newer(queue, i) == \A j \in DOMAIN queue : j > i => queue[j].kind # "rebased"
Recent(queue)   == {queue[i] : i \in {k \in DOMAIN queue : Newer(queue, k)}}

LEMMA RecentIs ==
  ASSUME NEW queue, NEW r
  PROVE  r \in Recent(queue) <=>
           \E i \in DOMAIN queue : r = queue[i] /\ Newer(queue, i)
  BY DEF Recent

LEMMA RecentTaken ==
  ASSUME NEW queue \in Seq(Result), queue # <<>>, NEW less, less = Tail(queue)
  PROVE  /\ Recent(less) \subseteq Recent(queue)
         /\ (\A j \in DOMAIN less : less[j].kind # "rebased")
              => Head(queue) \in Recent(queue)
<1>1. /\ DOMAIN queue = 1..Len(queue) /\ Len(queue) \in Nat /\ 1 <= Len(queue)
      /\ DOMAIN less = 1..Len(queue) - 1 /\ Head(queue) = queue[1]
      /\ \A i \in DOMAIN less : i + 1 \in DOMAIN queue /\ less[i] = queue[i + 1]
  BY Dequeued
<1>2. \A j \in DOMAIN queue : j > 1 => j - 1 \in DOMAIN less /\ less[j - 1] = queue[j]
  BY <1>1
<1>3. ASSUME NEW r \in Recent(less)
      PROVE  r \in Recent(queue)
  <2>1. PICK i \in DOMAIN less : r = less[i] /\ Newer(less, i)
    BY <1>3, RecentIs
  <2>2. i + 1 \in DOMAIN queue /\ r = queue[i + 1]
    BY <1>1, <2>1
  <2>3. ASSUME NEW j \in DOMAIN queue, j > i + 1
        PROVE  queue[j].kind # "rebased"
    <3>1. j > 1 /\ j - 1 > i
      BY <1>1, <2>3
    <3>2. QED
      BY <3>1, <1>2, <2>1 DEF Newer
  <2>4. QED
    BY <2>2, <2>3, RecentIs DEF Newer
<1>4. ASSUME \A j \in DOMAIN less : less[j].kind # "rebased"
      PROVE  Head(queue) \in Recent(queue)
  <2>1. 1 \in DOMAIN queue /\ Head(queue) = queue[1]
    BY <1>1
  <2>2. \A j \in DOMAIN queue : j > 1 => queue[j].kind # "rebased"
    BY <1>2, <1>4
  <2>3. QED
    BY <2>1, <2>2, RecentIs DEF Newer
<1>5. QED
  BY <1>3, <1>4

LEMMA RecentMore ==
  ASSUME NEW queue \in Seq(Result), NEW r \in Result,
         NEW longer, longer = Append(queue, r)
  PROVE  /\ Recent(longer) \subseteq Recent(queue) \cup {r}
         /\ r.kind = "rebased" => Recent(longer) \subseteq {r}
<1>1. /\ DOMAIN queue = 1..Len(queue) /\ Len(queue) \in Nat
      /\ DOMAIN longer = 1..Len(queue) + 1
      /\ \A i \in DOMAIN queue : longer[i] = queue[i]
      /\ longer[Len(queue) + 1] = r
  BY Queued
<1>2. ASSUME NEW x \in Recent(longer), x # r
      PROVE  x \in Recent(queue) /\ r.kind # "rebased"
  <2>1. PICK i \in DOMAIN longer : x = longer[i] /\ Newer(longer, i)
    BY RecentIs
  <2>2. /\ i \in DOMAIN queue /\ x = queue[i]
        /\ Len(queue) + 1 \in DOMAIN longer /\ Len(queue) + 1 > i
    BY <1>1, <1>2, <2>1
  <2>3. \A j \in DOMAIN queue : j \in DOMAIN longer /\ longer[j] = queue[j]
    BY <1>1
  <2>4. \A j \in DOMAIN queue : j > i => queue[j].kind # "rebased"
    BY <2>1, <2>3 DEF Newer
  <2>5. r.kind # "rebased"
    BY <1>1, <2>1, <2>2 DEF Newer
  <2>6. QED
    BY <2>2, <2>4, <2>5, RecentIs DEF Newer
<1>3. QED
  BY <1>2

(* When the store told the window of no rebase, everything is recent.      *)
LEMMA AllRecent ==
  ASSUME CaughtUp, NEW i \in DOMAIN results
  PROVE  results[i] \in Recent(results)
  BY RecentIs DEF CaughtUp, Newer

(* The store goes on: its rows and the matches of its search stay where    *)
(* they are, or it begins another search.                                  *)
Grows(s, t) ==
  /\ Len(Rows(s)) <= Len(Rows(t))
  /\ \A i \in 1..Len(Rows(s)) : Rows(t)[i] = Rows(s)[i]
  /\ \/ /\ t.search.generation = s.search.generation
        /\ t.search.generation \in Nat =>
             \A k \in DOMAIN s.search.hits : /\ k \in DOMAIN t.search.hits
                                             /\ t.search.hits[k] = s.search.hits[k]
     \/ t.search.generation > s.search.generation

LEMMA GrowsRow ==
  ASSUME NEW s, NEW t, StoreOK(s), StoreOK(t), Grows(s, t), NEW i, NEW record,
         InRow(Rows(s), i, record)
  PROVE  InRow(Rows(t), i, record)
<1>1. Len(Rows(s)) \in Nat /\ Len(Rows(t)) \in Nat
  BY RowsTyped
<1>2. i \in 1..Len(Rows(s)) /\ record = Rows(s)[i]
  BY DEF InRow
<1>3. i \in 1..Len(Rows(t)) /\ record = Rows(t)[i]
  BY <1>1, <1>2 DEF Grows
<1>4. QED
  BY <1>3 DEF InRow

LEMMA GrowsPage ==
  ASSUME NEW s, NEW t, StoreOK(s), StoreOK(t), Grows(s, t),
         NEW key \in Key, NEW page, PageFits(s, key, page)
  PROVE  PageFits(t, key, page)
<1>1. /\ s.search.generation \in Int /\ t.search.generation \in Int
      /\ key.generation \in Nat
  BY SearchIs, LogStoreAssumption DEF Key, Generations
<1>2. CASE ~key.filter
  BY <1>2, GrowsRow DEF PageFits
<1>3. CASE key.filter
  <2>1. ASSUME key.generation = t.search.generation, NEW i \in DOMAIN page
        PROVE  /\ key.start + i \in DOMAIN t.search.hits
               /\ InRow(Rows(t), t.search.hits[key.start + i], page[i])
    <3>1. CASE t.search.generation = s.search.generation
      BY <1>3, <2>1, <3>1, <1>1, GrowsRow DEF PageFits, Grows
    <3>2. CASE t.search.generation # s.search.generation
      BY <1>1, <2>1, <3>2, <1>3 DEF Grows, PageFits
    <3>3. QED
      BY <3>1, <3>2
  <2>2. ASSUME key.generation > t.search.generation
        PROVE  page = <<>>
    BY <1>1, <2>2, <1>3 DEF Grows, PageFits
  <2>3. QED
    BY <1>3, <2>1, <2>2 DEF PageFits
<1>4. QED
  BY <1>2, <1>3

LEMMA GrowsNot ==
  ASSUME NEW s, NEW t, StoreOK(s), t = s \/ (Rows(t) = Rows(s) /\ t.search = s.search)
  PROVE  Grows(s, t)
<1>1. Len(Rows(s)) \in Nat /\ Rows(t) = Rows(s) /\ t.search = s.search
  BY RowsTyped
<1>2. QED
  BY <1>1 DEF Grows

(* Matches added to those there are.                                       *)
LEMMA GrowsHits ==
  ASSUME NEW s, NEW t, StoreOK(s), s.search \in Search,
         NEW more \in Seq(Nat \ {0}), Rows(t) = Rows(s),
         t.search.generation = s.search.generation,
         t.search.hits = s.search.hits \o more
  PROVE  Grows(s, t)
<1>1. Len(Rows(s)) \in Nat
  BY RowsTyped
<1>2. PICK hits, longer : hits = s.search.hits /\ longer = hits \o more
  OBVIOUS
<1>3. hits \in Seq(Nat \ {0})
  BY <1>2 DEF Search
<1>4. \A k \in DOMAIN hits : k \in DOMAIN longer /\ longer[k] = hits[k]
  BY <1>2, <1>3, Joined
<1>5. t.search.hits = longer
  BY <1>2
<1>6. \A k \in DOMAIN s.search.hits : /\ k \in DOMAIN t.search.hits
                                      /\ t.search.hits[k] = s.search.hits[k]
  BY <1>2, <1>4, <1>5
<1>7. QED
  BY <1>1, <1>6 DEF Grows

LEMMA AppendGrows ==
  ASSUME Typed, ExecuteAppend, store.open
  PROVE  Grows(store, store')
<1>1. PICK record \in Records : /\ store' = Appended(store, record)
                                /\ Rows(store') = Append(Rows(store), record)
                                /\ StoreOK(store)
  BY AppendEffect
<1>2. IF store.search.complete /\ record \in Matches(store.search.query)
      THEN store'.search = [store.search EXCEPT !.hits =
                              Append(@, Len(Rows(store)) + 1)]
      ELSE store'.search = store.search
  BY <1>1, RowAppended
<1>3. PICK rows, more : rows = Rows(store) /\ more = Append(rows, record)
  OBVIOUS
<1>4. /\ rows \in Seq(Records) /\ Len(rows) \in Nat /\ DOMAIN rows = 1..Len(rows)
      /\ Len(more) = Len(rows) + 1
      /\ \A i \in 1..Len(rows) : more[i] = rows[i]
  BY <1>1, <1>3, RowsTyped, Queued
<1>5. Rows(store) = rows /\ Rows(store') = more /\ Len(rows) <= Len(more)
  BY <1>1, <1>3, <1>4
<1>6. CASE store'.search = store.search
  BY <1>4, <1>5, <1>6 DEF Grows
<1>7. CASE store'.search # store.search
  <2>1. store.search \in Search
    BY <1>1, <1>2, <1>7, SearchIs
  <2>2. PICK last : last = Len(rows) + 1
    OBVIOUS
  <2>3. /\ store'.search.generation = store.search.generation
        /\ store'.search.hits = Append(store.search.hits, last)
    BY <1>2, <1>5, <1>7, <2>1, <2>2 DEF Search
  <2>4. PICK hits, longer : hits = store.search.hits /\ longer = Append(hits, last)
    OBVIOUS
  <2>5. hits \in Seq(Nat \ {0}) /\ last \in Nat \ {0}
    BY <1>4, <2>1, <2>2, <2>4 DEF Search
  <2>6. \A k \in DOMAIN hits : k \in DOMAIN longer /\ longer[k] = hits[k]
    BY <2>4, <2>5, Queued
  <2>7. store'.search.hits = longer
    BY <2>3, <2>4
  <2>8. \A k \in DOMAIN store.search.hits :
          /\ k \in DOMAIN store'.search.hits
          /\ store'.search.hits[k] = store.search.hits[k]
    BY <2>4, <2>6, <2>7
  <2>9. QED
    BY <1>4, <1>5, <2>3, <2>8 DEF Grows
<1>8. QED
  BY <1>6, <1>7

LEMMA SearchGrows ==
  ASSUME Typed, GensOrdered, ExecuteSearch, store.open
  PROVE  Grows(store, store')
<1>1. PICK c \in SearchCommand :
        /\ c = Head(Control) /\ StoreOK(store) /\ Rows(store') = Rows(store)
        /\ store'.search = [generation |-> c.generation, query |-> c.query,
                            hits |-> <<>>, complete |-> FALSE]
  BY SearchEffect DEF Control
<1>2. Control # <<>> /\ Head(Control).kind = "search"
  BY ControlTaken DEF ExecuteSearch, Control
<1>3. Control[1] = c /\ 1 \in Searches
  BY <1>2, SearchesTyped, Dequeued, <1>1 DEF Searches
<1>4. store.search.generation \in Used
  BY UsedIs
<1>5. store.search.generation < c.generation
  BY <1>3, <1>4 DEF GensOrdered
<1>6. store.search.generation \in Int /\ c.generation \in Nat
  BY <1>1, <1>3, SearchIs, SearchesTyped
<1>7. store'.search.generation > store.search.generation
  BY <1>1, <1>5, <1>6
<1>8. Len(Rows(store)) \in Nat
  BY <1>1, RowsTyped
<1>9. QED
  BY <1>1, <1>7, <1>8 DEF Grows

LEMMA ScanGrows ==
  ASSUME Typed, Index, ExecuteScanned \/ ExecuteScanCompleted, store.open
  PROVE  Grows(store, store')
<1>1. StoreOK(store)
  BY DEF Typed, NoStore
<1>2. CASE store' = store
  BY <1>1, <1>2, GrowsNot
<1>3. CASE store' # store /\ ExecuteScanned
  <2>1. PICK c \in ScannedCommand :
          /\ Rows(store') = Rows(store) /\ store.search \in Search
          /\ store'.search = [store.search EXCEPT !.hits = @ \o c.hits]
    BY <1>3, ScannedEffect
  <2>2. c.hits \in Seq(Nat \ {0})
    BY OneFound DEF ScannedCommand
  <2>3. /\ store'.search.generation = store.search.generation
        /\ store'.search.hits = store.search.hits \o c.hits
    BY <2>1 DEF Search
  <2>4. QED
    BY <1>1, <2>1, <2>2, <2>3, GrowsHits
<1>4. CASE store' # store /\ ExecuteScanCompleted
  <2>1. PICK c \in EndCommand :
          /\ Rows(store') = Rows(store) /\ store.search \in Search
          /\ store'.search = [store.search EXCEPT
                                !.complete = TRUE,
                                !.hits = @ \o Hits(Rows(store), store.search.query,
                                                   c.scanned)]
    BY <1>4, ScanCompletedEffect
  <2>2. PICK late : late = Hits(Rows(store), store.search.query, c.scanned)
    OBVIOUS
  <2>3. late \in Seq(Nat \ {0})
    BY <1>1, <2>2, RowsTyped, HitsAre DEF EndCommand
  <2>4. /\ store'.search.generation = store.search.generation
        /\ store'.search.hits = store.search.hits \o late
    BY <2>1, <2>2 DEF Search
  <2>5. QED
    BY <1>1, <2>1, <2>3, <2>4, GrowsHits
<1>5. QED
  BY <1>2, <1>3, <1>4

LEMMA StoreGrows ==
  ASSUME Sound, [Next]_vars, ~ExecuteComplete, store'.open
  PROVE  store.open /\ StoreOK(store) /\ StoreOK(store') /\ Grows(store, store')
<1> SUFFICES store.open /\ Grows(store, store')
  BY SoundNext DEF Sound, Typed, NoStore
<1> USE DEF Sound
<1>0. HitsFit /\ (store' = store => store.open /\ Grows(store, store'))
  BY GrowsNot, IndexFits DEF Typed, NoStore
<1>1. CASE StreamAppends
  BY <1>1, <1>0 DEF StreamAppends
<1>2. CASE HistoryAppends
  BY <1>2, <1>0 DEF HistoryAppends
<1>3. CASE ExecuteSearch
  BY <1>0, <1>3, SearchEffect, SearchGrows
<1>4. CASE ExecuteLoadPage
  BY <1>4, LoadPageEffect, <1>0
<1>5. CASE ExecuteClose
  BY <1>5, CloseEffect
<1>6. CASE ExecuteAppend
  BY <1>0, <1>6, AppendEffect, AppendGrows
<1>7. CASE ExecuteRecall
  BY <1>0, <1>7, RecallEffect, GrowsNot
<1>8. CASE ExecuteScanned
  BY <1>0, <1>8, ScannedEffect, ScanGrows
<1>9. CASE ExecuteScanCompleted
  BY <1>0, <1>9, ScanCompletedEffect, ScanGrows
<1>10. CASE \E s \in scans : ScanRow(s) \/ ScanEnds(s) \/ ScanCancelled(s)
  <2>1. PICK s \in scans : ScanRow(s) \/ ScanEnds(s) \/ ScanCancelled(s)
    BY <1>10
  <2>2. UNCHANGED <<streamed, recalled, store, results, update, window, poll>>
    BY <2>1 DEF ScanRow, ScanEnds, ScanCancelled
  <2>3. QED
    BY <2>2, <1>0
<1>11. CASE ApplyRebased
  BY <1>11, RebasedEffect, <1>0
<1>12. CASE ApplyProgress
  BY <1>12, ProgressEffect, <1>0
<1>13. CASE ApplyCompleted
  BY <1>13, CompletedEffect, <1>0
<1>14. CASE ApplyPage
  BY <1>14, PageEffect, <1>0
<1>15. CASE FindNoResult \/ Draw \/ NextFrame
  BY <1>15, FrameTyped, <1>0
<1>16. CASE ApplyUpdate
  BY <1>16, UpdateEffect, <1>0
<1>17. CASE SyncSearch
  BY <1>17, SyncEffect, <1>0
<1>18. CASE RequestPage
  BY <1>18, RequestEffect, <1>0
<1>19. CASE ChangeQuery
  BY <1>19, QueryEffect, <1>0
<1>20. CASE ToggleFilter
  BY <1>20, ToggleEffect, <1>0
<1>21. CASE CloseWindow
  BY <1>21, CloseWindowEffect, <1>0
<1>22. CASE UNCHANGED vars
  BY <1>22, <1>0 DEF vars
<1>23. QED
  BY <1>1, <1>2, <1>3, <1>4, <1>5, <1>6, <1>7, <1>8, <1>9, <1>10, <1>11,
     <1>12, <1>13, <1>14, <1>15, <1>16, <1>17, <1>18, <1>19, <1>20, <1>21,
     <1>22, EachStep

PagesUnderWay ==
  store.open => \A r \in Recent(results) :
                  r.kind = "page" => PageFits(store, r.key, r.rows)
PagesShown ==
  store.open /\ window.open /\ CaughtUp =>
    \A k \in DOMAIN window.pages : PageFits(store, k, window.pages[k])
LiveShown ==
  store.open /\ window.open /\ CaughtUp =>
    \A i \in DOMAIN window.liveRows : InRow(Rows(store), i, window.liveRows[i])
UpdateFits ==
  update # NoUpdate =>
    /\ store.open
    /\ \A i \in DOMAIN update.rows : InRow(Rows(store), i, update.rows[i])

(* Only the rebase that the window applies leaves it caught up.            *)
LEMMA CaughtUpStep ==
  ASSUME Sound, [Next]_vars, ~ApplyRebased, CaughtUp'
  PROVE  CaughtUp /\ (ExecuteComplete => UNCHANGED <<store, results, update>>)
<1>1. Once /\ HitsFit
  BY IndexFits DEF Sound, Once, OneRebase
<1>2. CASE ~ExecuteComplete
  <2>1. CASE results' = results
    BY <2>1, <1>2 DEF CaughtUp
  <2>2. CASE \E r \in Page \cup Progress \cup Completed : results' = Append(results, r)
    <3>1. PICK r \in Page \cup Progress \cup Completed : results' = Append(results, r)
      BY <2>2
    <3>2. r \in Result /\ r.kind # "rebased"
      BY DEF Result, Page, Progress, Completed
    <3>3. QED
      BY <3>1, <3>2, <1>1, <1>2, OnceAppended DEF Sound
  <2>3. CASE /\ results # <<>> /\ results' = Tail(results)
             /\ Head(results).kind # "rebased"
    BY <2>3, <1>1, <1>2, OnceTaken DEF Sound
  <2>4. QED
    BY <2>1, <2>2, <2>3, <1>1, <1>2, ResultsStep DEF Sound
<1>3. CASE ExecuteComplete
  <2>1. CASE UNCHANGED <<store, results, update>>
    BY <2>1 DEF CaughtUp
  <2>2. CASE \E r \in Rebased : results' = Append(results, r)
    <3>1. PICK r \in Rebased : results' = Append(results, r)
      BY <2>2
    <3>2. results \in Seq(Result) /\ r \in Result /\ r.kind = "rebased"
      BY DEF Sound, Typed, Result, Rebased
    <3>3. Len(results) + 1 \in DOMAIN results' /\ results'[Len(results) + 1] = r
      BY <3>1, <3>2, Queued
    <3>4. QED
      BY <3>2, <3>3 DEF CaughtUp
  <2>3. QED
    BY <2>1, <2>2, <1>3, CompleteEffect DEF Sound
<1>4. QED
  BY <1>2, <1>3

(* What is new among the results is no page, or one read just now.         *)
LEMMA RecentStep ==
  ASSUME Sound, [Next]_vars, ~ExecuteComplete
  PROVE  \A r \in Recent(results') :
           \/ r \in Recent(results)
           \/ r \in Progress \cup Completed
           \/ store.open /\ r.kind = "page" /\ PageFits(store, r.key, r.rows)
<1> USE DEF Sound
<1>0. /\ results \in Seq(Result) /\ HitsFit
      /\ results # <<>> => Recent(Tail(results)) \subseteq Recent(results)
      /\ \A x \in Result : Recent(Append(results, x)) \subseteq Recent(results) \cup {x}
      /\ Page \subseteq Result /\ Progress \subseteq Result /\ Completed \subseteq Result
      /\ \A x \in Page : x.kind = "page"
  BY IndexFits, RecentTaken, RecentMore DEF Typed, Result, Page
<1>1. CASE StreamAppends
  BY <1>1, <1>0 DEF StreamAppends
<1>2. CASE HistoryAppends
  BY <1>2, <1>0 DEF HistoryAppends
<1>3. CASE ExecuteSearch
  BY <1>3, SearchEffect, <1>0
<1>4. CASE ExecuteLoadPage
  <2>1. CASE UNCHANGED results
    BY <2>1
  <2>2. CASE ~UNCHANGED results
    <3>1. PICK x \in Page : store.open /\ results' = Append(results, x)
                            /\ PageFits(store, x.key, x.rows)
      BY <1>0, <1>4, <2>2, LoadPageEffect
    <3>2. QED
      BY <1>0, <3>1
  <2>3. QED
    BY <2>1, <2>2
<1>5. CASE ExecuteClose
  BY <1>5, CloseEffect, <1>0
<1>6. CASE ExecuteAppend
  BY <1>6, AppendEffect, <1>0
<1>7. CASE ExecuteRecall
  BY <1>7, RecallEffect, <1>0
<1>8. CASE ExecuteScanned
  <2>1. CASE UNCHANGED results
    BY <2>1
  <2>2. CASE ~UNCHANGED results
    <3>1. PICK x \in Progress : results' = Append(results, x)
      BY <1>8, <2>2, ScannedEffect
    <3>2. QED
      BY <1>0, <3>1
  <2>3. QED
    BY <2>1, <2>2
<1>9. CASE ExecuteScanCompleted
  <2>1. CASE UNCHANGED results
    BY <2>1
  <2>2. CASE ~UNCHANGED results
    <3>1. PICK x \in Completed : results' = Append(results, x)
      BY <1>9, <2>2, ScanCompletedEffect
    <3>2. QED
      BY <1>0, <3>1
  <2>3. QED
    BY <2>1, <2>2
<1>10. CASE \E s \in scans : ScanRow(s) \/ ScanEnds(s) \/ ScanCancelled(s)
  <2>1. PICK s \in scans : ScanRow(s) \/ ScanEnds(s) \/ ScanCancelled(s)
    BY <1>10
  <2>2. UNCHANGED <<streamed, recalled, store, results, update, window, poll>>
    BY <2>1 DEF ScanRow, ScanEnds, ScanCancelled
  <2>3. QED
    BY <2>2, <1>0
<1>11. CASE ApplyRebased
  BY <1>11, RebasedEffect, <1>0
<1>12. CASE ApplyProgress
  BY <1>12, ProgressEffect, <1>0
<1>13. CASE ApplyCompleted
  BY <1>13, CompletedEffect, <1>0
<1>14. CASE ApplyPage
  BY <1>14, PageEffect, <1>0
<1>15. CASE FindNoResult \/ Draw \/ NextFrame
  BY <1>15, FrameTyped, <1>0
<1>16. CASE ApplyUpdate
  BY <1>16, UpdateEffect, <1>0
<1>17. CASE SyncSearch
  BY <1>17, SyncEffect, <1>0
<1>18. CASE RequestPage
  BY <1>18, RequestEffect, <1>0
<1>19. CASE ChangeQuery
  BY <1>19, QueryEffect, <1>0
<1>20. CASE ToggleFilter
  BY <1>20, ToggleEffect, <1>0
<1>21. CASE CloseWindow
  BY <1>21, CloseWindowEffect, <1>0
<1>22. CASE UNCHANGED vars
  BY <1>22, <1>0 DEF vars
<1>23. QED
  BY <1>1, <1>2, <1>3, <1>4, <1>5, <1>6, <1>7, <1>8, <1>9, <1>10, <1>11,
     <1>12, <1>13, <1>14, <1>15, <1>16, <1>17, <1>18, <1>19, <1>20, <1>21,
     <1>22, EachStep

(* What the window has cached it keeps, unless it drops it.                *)
LEMMA WindowKept ==
  ASSUME Sound, [Next]_vars, window'.open,
         ~ApplyRebased, ~ApplyPage, ~ApplyUpdate
  PROVE  /\ window.open
         /\ \A k \in DOMAIN window'.pages : /\ k \in DOMAIN window.pages
                                            /\ window'.pages[k] = window.pages[k]
         /\ \A i \in DOMAIN window'.liveRows :
              i \in DOMAIN window.liveRows /\ window'.liveRows[i] = window.liveRows[i]
<1> USE DEF Sound
<1>0. HitsFit /\ DOMAIN NoRows = {}
  BY IndexFits, NoRowsFit
<1>1. CASE StreamAppends
  BY <1>1, <1>0 DEF StreamAppends
<1>2. CASE HistoryAppends
  BY <1>2, <1>0 DEF HistoryAppends
<1>3. CASE ExecuteSearch
  BY <1>3, SearchEffect, <1>0
<1>4. CASE ExecuteLoadPage
  BY <1>4, LoadPageEffect, <1>0
<1>5. CASE ExecuteClose
  BY <1>5, CloseEffect, <1>0
<1>6. CASE ExecuteAppend
  BY <1>6, AppendEffect, <1>0
<1>7. CASE ExecuteRecall
  BY <1>7, RecallEffect, <1>0
<1>8. CASE ExecuteComplete
  BY <1>8, CompleteEffect, <1>0
<1>9. CASE ExecuteScanned
  BY <1>9, ScannedEffect, <1>0
<1>10. CASE ExecuteScanCompleted
  BY <1>10, ScanCompletedEffect, <1>0
<1>11. CASE \E s \in scans : ScanRow(s) \/ ScanEnds(s) \/ ScanCancelled(s)
  <2>1. PICK s \in scans : ScanRow(s) \/ ScanEnds(s) \/ ScanCancelled(s)
    BY <1>11
  <2>2. UNCHANGED <<streamed, recalled, store, results, update, window, poll>>
    BY <2>1 DEF ScanRow, ScanEnds, ScanCancelled
  <2>3. QED
    BY <2>2, <1>0
<1>12. CASE ApplyProgress
  BY <1>12, ProgressEffect DEF CountedFields
<1>13. CASE ApplyCompleted
  BY <1>13, CompletedEffect DEF CountedFields
<1>14. CASE FindNoResult \/ Draw \/ NextFrame
  BY <1>14, FrameTyped, <1>0
<1>15. CASE SyncSearch
  BY <1>15, SyncEffect, <1>0
<1>16. CASE RequestPage
  BY <1>16, RequestEffect, <1>0
<1>17. CASE ChangeQuery
  BY <1>0, <1>17, QueryEffect
<1>18. CASE ToggleFilter
  BY <1>0, <1>18, ToggleEffect
<1>19. CASE CloseWindow
  BY <1>19, CloseWindowEffect, <1>0
<1>20. CASE UNCHANGED vars
  BY <1>20, <1>0 DEF vars
<1>21. QED
  BY <1>1, <1>2, <1>3, <1>4, <1>5, <1>6, <1>7, <1>8, <1>9, <1>10, <1>11,
     <1>12, <1>13, <1>14, <1>15, <1>16, <1>17, <1>18, <1>19, <1>20, EachStep

Told == PagesUnderWay /\ PagesShown /\ LiveShown /\ UpdateFits

LEMMA RecentTyped ==
  ASSUME NEW queue \in Seq(Result)
  PROVE  Recent(queue) \subseteq Result
<1>1. ASSUME NEW r \in Recent(queue)
      PROVE  r \in Result
  <2>1. PICK i \in DOMAIN queue : r = queue[i]
    BY RecentIs
  <2>2. QED
    BY <2>1, ElementOfSeq
<1>2. QED
  BY <1>1

LEMMA PagesUnderWayNext ==
  ASSUME Sound, Told, [Next]_vars
  PROVE  PagesUnderWay'
<1> USE DEF Sound
<1> SUFFICES ASSUME store'.open, NEW r \in Recent(results'), r.kind = "page"
             PROVE  PageFits(store', r.key, r.rows)
  BY DEF PagesUnderWay
<1>1. results \in Seq(Result) /\ results' \in Seq(Result)
  BY SoundNext DEF Typed
<1>2. r \in Page /\ r.key \in Key
  BY <1>1, RecentTyped, Kinds DEF Page
<1>3. CASE ~ExecuteComplete
  BY <1>3, StoreGrows, RecentStep, <1>2, GrowsPage DEF Progress, Completed,
     Told, PagesUnderWay
<1>4. CASE ExecuteComplete /\ UNCHANGED <<store, results>>
  BY <1>4 DEF Told, PagesUnderWay
<1>5. CASE ExecuteComplete /\ ~UNCHANGED <<store, results>>
  <2>1. PICK x \in Rebased : results' = Append(results, x)
    BY <1>5, CompleteEffect
  <2>2. x \in Result /\ x.kind = "rebased"
    BY DEF Rebased, Result
  <2>3. r = x
    BY <1>1, <2>1, <2>2, RecentMore
  <2>4. QED
    BY <2>2, <2>3
<1>6. QED
  BY <1>3, <1>4, <1>5

(* What the window has cached is still right of the store of a step later. *)
LEMMA StillRight ==
  ASSUME Sound, Told, [Next]_vars, ~ApplyRebased, store'.open, CaughtUp'
  PROVE  /\ CaughtUp /\ store.open
         /\ \A k \in Key : \A page : PageFits(store, k, page)
                                       => PageFits(store', k, page)
         /\ \A i, record : InRow(Rows(store), i, record)
                             => InRow(Rows(store'), i, record)
<1>1. CaughtUp /\ (ExecuteComplete => UNCHANGED <<store, results, update>>)
  BY CaughtUpStep
<1>2. CASE store' = store
  BY <1>1, <1>2
<1>3. CASE store' # store
  BY <1>1, <1>3, StoreGrows, GrowsPage, GrowsRow
<1>4. QED
  BY <1>2, <1>3

LEMMA PagesShownNext ==
  ASSUME Sound, Told, [Next]_vars
  PROVE  PagesShown'
<1> USE DEF Sound
<1> SUFFICES ASSUME store'.open, window'.open, CaughtUp',
                    NEW k \in DOMAIN window'.pages
             PROVE  PageFits(store', k, window'.pages[k])
  BY DEF PagesShown
<1>1. CASE ApplyRebased
  BY <1>1, RebasedEffect, NoRowsFit
<1>2. CASE ~ApplyRebased
  <2>0. k \in Key
    <3>1. window' \in OpenWindow
      BY SoundNext DEF Typed, NoWindow
    <3>2. QED
      BY <3>1, PagesAre DEF OpenWindow
  <2>1. /\ CaughtUp /\ store.open
        /\ \A page : PageFits(store, k, page) => PageFits(store', k, page)
    BY <1>2, <2>0, StillRight
  <2>2. SUFFICES PageFits(store, k, window'.pages[k])
    BY <2>1
  <2>3. ASSUME window.open, k \in DOMAIN window.pages,
               window'.pages[k] = window.pages[k]
        PROVE  PageFits(store, k, window'.pages[k])
    BY <2>1, <2>3 DEF Told, PagesShown
  <2>4. CASE ApplyPage
    <3>1. /\ results # <<>> /\ results' = Tail(results) /\ Head(results) \in Page
          /\ window.open
          /\ \/ window' = window
             \/ window'.pages = With(window.pages, Head(results).key,
                                     Head(results).rows)
      BY <2>4, PageEffect
    <3>2. Head(results) \in Recent(results)
      BY <3>1, RecentTaken DEF Typed, CaughtUp
    <3>3. PageFits(store, Head(results).key, Head(results).rows)
      BY <2>1, <3>1, <3>2 DEF Told, PagesUnderWay, Page
    <3>4. CASE window' = window
      BY <3>1, <3>4, <2>3
    <3>5. CASE window'.pages = With(window.pages, Head(results).key,
                                    Head(results).rows)
      BY <3>5, <3>1, <3>3, <2>3 DEF With
    <3>6. QED
      BY <3>1, <3>4, <3>5
  <2>5. CASE ApplyUpdate
    BY <2>5, <2>3, UpdateEffect
  <2>6. CASE ~ApplyPage /\ ~ApplyUpdate
    BY <1>2, <2>6, <2>3, WindowKept
  <2>7. QED
    BY <2>4, <2>5, <2>6
<1>3. QED
  BY <1>1, <1>2

LEMMA LiveShownNext ==
  ASSUME Sound, Told, [Next]_vars
  PROVE  LiveShown'
<1> USE DEF Sound
<1> SUFFICES ASSUME store'.open, window'.open, CaughtUp',
                    NEW i \in DOMAIN window'.liveRows
             PROVE  InRow(Rows(store'), i, window'.liveRows[i])
  BY DEF LiveShown
<1>1. CASE ApplyRebased
  BY <1>1, RebasedEffect, NoRowsFit
<1>2. CASE ~ApplyRebased
  <2>1. /\ CaughtUp /\ store.open
        /\ \A record : InRow(Rows(store), i, record)
                         => InRow(Rows(store'), i, record)
    BY <1>2, StillRight
  <2>2. SUFFICES InRow(Rows(store), i, window'.liveRows[i])
    BY <2>1
  <2>3. ASSUME window.open, i \in DOMAIN window.liveRows,
               window'.liveRows[i] = window.liveRows[i]
        PROVE  InRow(Rows(store), i, window'.liveRows[i])
    BY <2>1, <2>3 DEF Told, LiveShown
  <2>4. CASE ApplyPage
    BY <2>4, <2>3, PageEffect
  <2>5. CASE ApplyUpdate
    BY <2>5, UpdateEffect, <2>3 DEF ApplyUpdate, Told, UpdateFits
  <2>6. CASE ~ApplyPage /\ ~ApplyUpdate
    BY <1>2, <2>6, <2>3, WindowKept
  <2>7. QED
    BY <2>4, <2>5, <2>6
<1>3. QED
  BY <1>1, <1>2

(* Who changes the pending update                                          *)
LEMMA UpdateStays ==
  ASSUME Sound, [Next]_vars, ~ExecuteAppend, ~ExecuteRecall, ~ExecuteComplete,
         ~ExecuteClose, ~ApplyUpdate
  PROVE  update' = update /\ (store.open => store'.open)
<1> USE DEF Sound
<1>0. HitsFit
  BY IndexFits
<1>1. CASE StreamAppends
  BY <1>1 DEF StreamAppends
<1>2. CASE HistoryAppends
  BY <1>2 DEF HistoryAppends
<1>3. CASE ExecuteSearch
  BY <1>3, SearchEffect
<1>4. CASE ExecuteLoadPage
  BY <1>0, <1>4, LoadPageEffect
<1>5. CASE ExecuteScanned
  BY <1>5, ScannedEffect
<1>6. CASE ExecuteScanCompleted
  BY <1>6, ScanCompletedEffect
<1>7. CASE \E s \in scans : ScanRow(s) \/ ScanEnds(s) \/ ScanCancelled(s)
  <2>1. PICK s \in scans : ScanRow(s) \/ ScanEnds(s) \/ ScanCancelled(s)
    BY <1>7
  <2>2. UNCHANGED <<streamed, recalled, store, results, update, window, poll>>
    BY <2>1 DEF ScanRow, ScanEnds, ScanCancelled
  <2>3. QED
    BY <2>2
<1>8. CASE ApplyRebased
  BY <1>8, RebasedEffect
<1>9. CASE ApplyProgress
  BY <1>9, ProgressEffect
<1>10. CASE ApplyCompleted
  BY <1>10, CompletedEffect
<1>11. CASE ApplyPage
  BY <1>11, PageEffect
<1>12. CASE FindNoResult \/ Draw \/ NextFrame
  BY <1>12, FrameTyped
<1>13. CASE SyncSearch
  BY <1>13, SyncEffect
<1>14. CASE RequestPage
  BY <1>14, RequestEffect
<1>15. CASE ChangeQuery
  BY <1>15, QueryEffect
<1>16. CASE ToggleFilter
  BY <1>16, ToggleEffect
<1>17. CASE CloseWindow
  BY <1>17, CloseWindowEffect
<1>18. CASE UNCHANGED vars
  BY <1>18 DEF vars
<1>19. QED
  BY <1>1, <1>2, <1>3, <1>4, <1>5, <1>6, <1>7, <1>8, <1>9, <1>10, <1>11,
     <1>12, <1>13, <1>14, <1>15, <1>16, <1>17, <1>18, EachStep

LEMMA UpdateFitsNext ==
  ASSUME Sound, Told, [Next]_vars
  PROVE  UpdateFits'
<1> USE DEF Sound
<1> SUFFICES ASSUME update' # NoUpdate
             PROVE  /\ store'.open
                    /\ \A i \in DOMAIN update'.rows :
                         InRow(Rows(store'), i, update'.rows[i])
  BY DEF UpdateFits
<1>0. ASSUME store.open, store'.open, ~ExecuteComplete, NEW i, NEW record,
             InRow(Rows(store), i, record)
      PROVE  InRow(Rows(store'), i, record)
  BY <1>0, StoreGrows, GrowsRow
<1>1. CASE ExecuteAppend
  <2>1. CASE ~store.open
    BY <1>1, <2>1, AppendEffect DEF Told, UpdateFits
  <2>2. CASE store.open
    <3>1. /\ store'.open
          /\ \A i \in DOMAIN update'.rows :
               \/ i = Len(Rows(store')) /\ update'.rows[i] = Rows(store')[i]
               \/ /\ update # NoUpdate /\ i \in DOMAIN update.rows
                  /\ update'.rows[i] = update.rows[i]
      BY <1>1, <2>2, AppendEffect
    <3>2. Len(Rows(store')) \in 1..Len(Rows(store'))
      <4>1. PICK record \in Records : /\ Rows(store') = Append(Rows(store), record)
                                      /\ StoreOK(store)
        BY <1>1, <2>2, AppendEffect
      <4>2. Rows(store) \in Seq(Records)
        BY <4>1, RowsTyped
      <4>3. Len(Rows(store')) = Len(Rows(store)) + 1 /\ Len(Rows(store)) \in Nat
        BY <4>1, <4>2, LongerBy
      <4>4. QED
        BY <4>3
    <3>3. StoreOK(store) /\ StoreOK(store') /\ Grows(store, store')
      BY <1>1, <2>2, AppendEffect, AppendGrows
    <3>4. ASSUME NEW i \in DOMAIN update'.rows
          PROVE  InRow(Rows(store'), i, update'.rows[i])
      <4>1. CASE i = Len(Rows(store')) /\ update'.rows[i] = Rows(store')[i]
        BY <4>1, <3>2 DEF InRow
      <4>2. CASE /\ update # NoUpdate /\ i \in DOMAIN update.rows
                 /\ update'.rows[i] = update.rows[i]
        BY <4>2, <3>3, GrowsRow DEF Told, UpdateFits
      <4>3. QED
        BY <4>1, <4>2, <3>1
    <3>5. QED
      BY <3>1, <3>4
  <2>3. QED
    BY <2>1, <2>2
<1>2. CASE ExecuteRecall
  <2>1. CASE ~store.open
    BY <1>2, <2>1, RecallEffect DEF Told, UpdateFits
  <2>2. CASE store.open
    BY <1>2, <2>2, RecallEffect, NoRowsFit DEF Told, UpdateFits
  <2>3. QED
    BY <2>1, <2>2
<1>3. CASE ExecuteComplete
  BY <1>3, CompleteEffect DEF Told, UpdateFits
<1>4. CASE ExecuteClose \/ ApplyUpdate
  BY <1>4, CloseEffect, UpdateEffect
<1>5. CASE ~(ExecuteAppend \/ ExecuteRecall \/ ExecuteComplete \/ ExecuteClose
             \/ ApplyUpdate)
  BY <1>5, UpdateStays, <1>0 DEF Told, UpdateFits
<1>6. QED
  BY <1>1, <1>2, <1>3, <1>4, <1>5

LEMMA ToldInit == Init => Told
<1> SUFFICES ASSUME Init PROVE Told
  OBVIOUS
<1>1. /\ DOMAIN window.pages = {} /\ DOMAIN window.liveRows = {}
      /\ update = NoUpdate /\ results = <<>>
  BY NoRowsFit DEF Init
<1>2. Recent(results) = {}
  BY <1>1, RecentIs
<1>3. QED
  BY <1>1, <1>2 DEF Told, PagesUnderWay, PagesShown, LiveShown, UpdateFits

LEMMA ToldAlways == Spec => [](Sound /\ Told)
<1>1. Sound /\ Told /\ [Next]_vars => Told'
  BY PagesUnderWayNext, PagesShownNext, LiveShownNext, UpdateFitsNext DEF Told
<1>2. QED
  BY <1>1, SoundInit, SoundNext, ToldInit, PTL DEF Spec

(* What the window shows of the store is the store's: as long as no rebase *)
(* is still to be applied, each cached live row and each row of a cached   *)
(* page is that row of the store, or the match of the store's search the   *)
(* page stands for.  Neither a page asked for before the rebase, nor the   *)
(* live update that was pending, nor a page of a search replaced gets in   *)
(* (runner.rs:108-110, log_state.rs).                                      *)
THEOREM RowsAreOfThisSpace == Spec => []RowsOfThisSpace
<1>1. Told => RowsOfThisSpace
  <2> SUFFICES ASSUME Told PROVE RowsOfThisSpace
    OBVIOUS
  <2>1. ~store.open => update = NoUpdate
    BY DEF Told, UpdateFits
  <2>2. ASSUME store.open, window.open, CaughtUp, NEW i \in DOMAIN window.liveRows
        PROVE  window.liveRows[i] = Rows(store)[i]
    BY <2>2 DEF Told, LiveShown, InRow
  <2>3. ASSUME store.open, window.open, CaughtUp, NEW k \in DOMAIN window.pages
        PROVE  IF k.filter
               THEN k.generation = store.search.generation =>
                      \A i \in DOMAIN window.pages[k] :
                        window.pages[k][i]
                          = Rows(store)[store.search.hits[k.start + i]]
               ELSE \A i \in DOMAIN window.pages[k] :
                      window.pages[k][i] = Rows(store)[k.start + i]
    BY <2>3 DEF Told, PagesShown, PageFits, InRow
  <2>4. QED
    BY <2>1, <2>2, <2>3 DEF RowsOfThisSpace
<1>2. QED
  BY <1>1, ToldAlways, PTL

-----------------------------------------------------------------------------
(* What the window counts, and the search it waits for.                    *)

(* n matches of a search of generation g: as many as the store has found,  *)
(* or of a search it replaced.                                             *)
Has(s, g, n) == \/ g < s.search.generation
                \/ n = 0
                \/ g = s.search.generation /\ n \in DOMAIN s.search.hits

Numbered(r) == \/ r.kind \in {"rebased", "progress"}
               \/ r.kind = "page" /\ ~r.key.filter

(* What a result says of the rows and of the matches of a store.           *)
TotalIn(s, r) == Numbered(r) => r.total <= Len(Rows(s))
CountIn(s, r) ==
  /\ r.kind = "page" => (r.key.filter => Has(s, r.key.generation, r.total))
  /\ r.kind \in {"progress", "completed"} => Has(s, r.generation, r.count)

LEMMA GrowsHas ==
  ASSUME NEW s, NEW t, StoreOK(s), StoreOK(t), Grows(s, t),
         NEW g \in Nat, NEW n, Has(s, g, n)
  PROVE  Has(t, g, n)
<1>1. s.search.generation \in Int /\ t.search.generation \in Int
  BY SearchIs
<1>2. CASE g < s.search.generation
  BY <1>1, <1>2 DEF Grows, Has
<1>3. CASE n = 0
  BY <1>3 DEF Has
<1>4. CASE g = s.search.generation /\ n \in DOMAIN s.search.hits
  BY <1>1, <1>4 DEF Grows, Has
<1>5. QED
  BY <1>2, <1>3, <1>4 DEF Has

LEMMA GrowsCount ==
  ASSUME NEW s, NEW t, StoreOK(s), StoreOK(t), Grows(s, t),
         NEW r \in Result, CountIn(s, r)
  PROVE  CountIn(t, r)
<1>1. ASSUME r.kind = "page", r.key.filter
      PROVE  Has(t, r.key.generation, r.total)
  BY <1>1, Kinds, LogStoreAssumption, GrowsHas DEF Page, Key, Generations,
     CountIn
<1>2. ASSUME r.kind \in {"progress", "completed"}
      PROVE  Has(t, r.generation, r.count)
  BY <1>2, Kinds, LogStoreAssumption, GrowsHas DEF Progress, Completed,
     Generations, CountIn
<1>3. QED
  BY <1>1, <1>2 DEF CountIn

LEMMA HitsCounted ==
  ASSUME NEW s, s.search \in Search
  PROVE  Has(s, s.search.generation, Len(s.search.hits))
<1>1. PICK hits : hits = s.search.hits
  OBVIOUS
<1>2. hits \in Seq(Nat \ {0})
  BY <1>1 DEF Search
<1>3. Len(hits) = 0 \/ Len(hits) \in DOMAIN hits
  BY <1>2
<1>4. QED
  BY <1>1, <1>3 DEF Has

(* A result that is sent is true of the store that sends it; and a search  *)
(* that has completed makes no progress.                                   *)
LEMMA PageSent ==
  ASSUME Sound, ExecuteLoadPage, ~UNCHANGED results
  PROVE  \E r \in Result :
           /\ results' = Append(results, r) /\ store.open /\ store'.open
           /\ TotalIn(store', r) /\ CountIn(store', r)
           /\ r.kind # "progress" /\ r.kind # "rebased"
<1> USE DEF Sound
<1>1. PICK r \in Page : /\ results' = Append(results, r) /\ store.open
                        /\ r.total = PageTotal(store, r.key)
  BY IndexFits, LoadPageEffect
<1>2. store' = store /\ StoreOK(store)
  BY <1>1, IndexFits, LoadPageEffect DEF Typed, NoStore
<1>3. r \in Result /\ r.kind = "page" /\ r.key \in Key
  BY DEF Page, Result
<1>4. TotalIn(store, r)
  BY <1>2, RowsTyped, <1>1, <1>3 DEF TotalIn, Numbered, PageTotal
<1>5. CountIn(store, r)
  <2> SUFFICES ASSUME r.key.filter
               PROVE  Has(store, r.key.generation, r.total)
    BY <1>3 DEF CountIn
  <2>1. CASE store.search.generation = r.key.generation
    BY <1>3, LogStoreAssumption, <1>2, <2>1, SearchIs, <1>1, HitsCounted
       DEF Key, Generations, PageTotal
  <2>2. CASE store.search.generation # r.key.generation
    BY <1>1, <2>2 DEF PageTotal, Has
  <2>3. QED
    BY <2>1, <2>2
<1>6. QED
  BY <1>1, <1>2, <1>3, <1>4, <1>5

LEMMA ProgressSent ==
  ASSUME Sound, ExecuteScanned, ~UNCHANGED results
  PROVE  \E r \in Result :
           /\ results' = Append(results, r) /\ store.open /\ store'.open
           /\ TotalIn(store', r) /\ CountIn(store', r)
           /\ r.kind = "progress" /\ ~store.search.complete
<1> USE DEF Sound
<1>1. PICK c \in ScannedCommand :
        /\ lanes.scan # <<>> /\ c = Head(lanes.scan)
        /\ store.open /\ store.search.generation = c.generation
        /\ StoreOK(store') /\ store'.open
        /\ Rows(store') = Rows(store) /\ store.search \in Search
        /\ store'.search = [store.search EXCEPT !.hits = @ \o c.hits]
        /\ \E r \in Progress : /\ results' = Append(results, r)
                               /\ r.generation = c.generation
                               /\ r.total = Len(Rows(store))
                               /\ r.count = Len(store'.search.hits)
  BY ScannedEffect
<1>2. PICK r \in Progress : /\ results' = Append(results, r)
                            /\ r.generation = c.generation
                            /\ r.total = Len(Rows(store))
                            /\ r.count = Len(store'.search.hits)
  BY <1>1
<1>3. r \in Result /\ r.kind = "progress"
  BY DEF Progress, Result
<1>4. TotalIn(store', r)
  BY <1>1, RowsTyped, <1>2 DEF TotalIn
<1>5. store'.search.generation = c.generation /\ c.generation \in Nat
  BY <1>1, LogStoreAssumption DEF Search, Generations
<1>6. store'.search \in Search
  BY <1>1, <1>5, SearchIs
<1>7. CountIn(store', r)
  BY <1>2, <1>3, <1>5, <1>6, HitsCounted DEF CountIn
<1>8. ~store.search.complete
  BY <1>1, <1>5, Dequeued DEF Index, NoSearch, Typed, LaneState, Scanning,
     Indexed, Underway
<1>9. QED
  BY <1>1, <1>2, <1>3, <1>4, <1>7, <1>8

LEMMA CompletedSent ==
  ASSUME Sound, ExecuteScanCompleted, ~UNCHANGED results
  PROVE  \E r \in Result :
           /\ results' = Append(results, r) /\ store.open /\ store'.open
           /\ TotalIn(store', r) /\ CountIn(store', r)
           /\ r.kind = "completed" /\ r.generation = store.search.generation
           /\ store.search \in Search
           /\ store'.search.generation = store.search.generation
           /\ store'.search.query = store.search.query
<1> USE DEF Sound
<1>1. PICK c \in EndCommand :
        /\ store.open /\ store.search.generation = c.generation
        /\ StoreOK(store') /\ store'.open /\ store.search \in Search
        /\ store'.search = [store.search EXCEPT
                              !.complete = TRUE,
                              !.hits = @ \o Hits(Rows(store), store.search.query,
                                                 c.scanned)]
        /\ \E r \in Completed : /\ results' = Append(results, r)
                                /\ r.generation = c.generation
                                /\ r.count = Len(store'.search.hits)
  BY ScanCompletedEffect
<1>2. PICK r \in Completed : /\ results' = Append(results, r)
                             /\ r.generation = c.generation
                             /\ r.count = Len(store'.search.hits)
  BY <1>1
<1>3. r \in Result /\ r.kind = "completed"
  BY DEF Completed, Result
<1>4. PICK late : late = Hits(Rows(store), store.search.query, c.scanned)
  OBVIOUS
<1>5. store'.search = [store.search EXCEPT !.complete = TRUE, !.hits = @ \o late]
  BY <1>1, <1>4
<1>6. /\ store'.search.generation = c.generation /\ c.generation \in Nat
      /\ store'.search.query = store.search.query
  BY <1>1, <1>5, LogStoreAssumption DEF Search, Generations
<1>7. store'.search \in Search
  BY <1>1, <1>6, SearchIs
<1>8. TotalIn(store', r)
  BY <1>3 DEF TotalIn, Numbered
<1>9. CountIn(store', r)
  BY <1>2, <1>3, <1>6, <1>7, HitsCounted DEF CountIn
<1>10. QED
  BY <1>1, <1>2, <1>3, <1>6, <1>8, <1>9

LEMMA RebasedSent ==
  ASSUME Sound, ExecuteComplete, ~UNCHANGED <<store, results, update>>
  PROVE  \E r \in Result :
           /\ results' = Append(results, r) /\ store.open /\ store'.open
           /\ TotalIn(store', r) /\ CountIn(store', r)
           /\ r.kind = "rebased"
<1> USE DEF Sound
<1>1. /\ store.open /\ StoreOK(store') /\ store'.open
      /\ \E r \in Rebased : /\ r.total = Len(Rows(store'))
                            /\ results' = Append(results, r)
  BY CompleteEffect
<1>2. PICK r \in Rebased : /\ r.total = Len(Rows(store'))
                           /\ results' = Append(results, r)
  BY <1>1
<1>3. r \in Result /\ r.kind = "rebased"
  BY DEF Rebased, Result
<1>4. Len(Rows(store')) \in Nat
  BY <1>1, RowsTyped
<1>5. TotalIn(store', r) /\ CountIn(store', r)
  BY <1>2, <1>3, <1>4 DEF TotalIn, CountIn
<1>6. QED
  BY <1>1, <1>2, <1>3, <1>5

LEMMA Sent ==
  ASSUME Sound, [Next]_vars
  PROVE  \/ results' = results
         \/ /\ results # <<>> /\ results' = Tail(results)
            /\ ApplyRebased \/ ApplyProgress \/ ApplyCompleted \/ ApplyPage
         \/ \E r \in Result :
              /\ results' = Append(results, r) /\ store.open /\ store'.open
              /\ TotalIn(store', r) /\ CountIn(store', r)
              /\ r.kind = "progress" => ~store.search.complete
              /\ r.kind = "rebased" => ExecuteComplete
<1> USE DEF Sound
<1>0. HitsFit
  BY IndexFits
<1>1. CASE StreamAppends
  BY <1>1 DEF StreamAppends
<1>2. CASE HistoryAppends
  BY <1>2 DEF HistoryAppends
<1>3. CASE ExecuteSearch
  BY <1>3, SearchEffect
<1>4. CASE ExecuteLoadPage
  <2>1. CASE UNCHANGED results
    BY <2>1
  <2>2. CASE ~UNCHANGED results
    BY <1>4, <2>2, PageSent
  <2>3. QED
    BY <2>1, <2>2
<1>5. CASE ExecuteClose
  BY <1>5, CloseEffect
<1>6. CASE ExecuteAppend
  BY <1>6, AppendEffect
<1>7. CASE ExecuteRecall
  BY <1>7, RecallEffect
<1>8. CASE ExecuteComplete
  <2>1. CASE UNCHANGED <<store, results, update>>
    BY <2>1
  <2>2. CASE ~UNCHANGED <<store, results, update>>
    BY <1>8, <2>2, RebasedSent
  <2>3. QED
    BY <2>1, <2>2
<1>9. CASE ExecuteScanned
  <2>1. CASE UNCHANGED results
    BY <2>1
  <2>2. CASE ~UNCHANGED results
    BY <1>9, <2>2, ProgressSent
  <2>3. QED
    BY <2>1, <2>2
<1>10. CASE ExecuteScanCompleted
  <2>1. CASE UNCHANGED results
    BY <2>1
  <2>2. CASE ~UNCHANGED results
    BY <1>10, <2>2, CompletedSent
  <2>3. QED
    BY <2>1, <2>2
<1>11. CASE \E s \in scans : ScanRow(s) \/ ScanEnds(s) \/ ScanCancelled(s)
  <2>1. PICK s \in scans : ScanRow(s) \/ ScanEnds(s) \/ ScanCancelled(s)
    BY <1>11
  <2>2. UNCHANGED <<streamed, recalled, store, results, update, window, poll>>
    BY <2>1 DEF ScanRow, ScanEnds, ScanCancelled
  <2>3. QED
    BY <2>2
<1>12. CASE ApplyRebased
  BY <1>12, RebasedEffect
<1>13. CASE ApplyProgress
  BY <1>13, ProgressEffect
<1>14. CASE ApplyCompleted
  BY <1>14, CompletedEffect
<1>15. CASE ApplyPage
  BY <1>15, PageEffect
<1>16. CASE FindNoResult \/ Draw \/ NextFrame
  BY <1>16, FrameTyped
<1>17. CASE ApplyUpdate
  BY <1>17, UpdateEffect
<1>18. CASE SyncSearch
  BY <1>18, SyncEffect
<1>19. CASE RequestPage
  BY <1>19, RequestEffect
<1>20. CASE ChangeQuery
  BY <1>20, QueryEffect
<1>21. CASE ToggleFilter
  BY <1>21, ToggleEffect
<1>22. CASE CloseWindow
  BY <1>22, CloseWindowEffect
<1>23. CASE UNCHANGED vars
  BY <1>23 DEF vars
<1>24. QED
  BY <1>1, <1>2, <1>3, <1>4, <1>5, <1>6, <1>7, <1>8, <1>9, <1>10, <1>11,
     <1>12, <1>13, <1>14, <1>15, <1>16, <1>17, <1>18, <1>19, <1>20, <1>21,
     <1>22, <1>23, EachStep

LEMMA StoreStays ==
  ASSUME Sound, [Next]_vars, ~ExecuteClose, store.open
  PROVE  store'.open
<1> USE DEF Sound
<1>1. CASE ExecuteAppend
  BY <1>1, AppendEffect
<1>2. CASE ExecuteRecall
  BY <1>2, RecallEffect
<1>3. CASE ExecuteComplete
  BY <1>3, CompleteKeeps
<1>4. CASE ApplyUpdate
  BY <1>4, UpdateEffect
<1>5. CASE ~(ExecuteAppend \/ ExecuteRecall \/ ExecuteComplete \/ ApplyUpdate)
  BY <1>5, UpdateStays
<1>6. QED
  BY <1>1, <1>2, <1>3, <1>4, <1>5

(* The store loses no row.                                                 *)
LEMMA RowsStay ==
  ASSUME Sound, [Next]_vars, store'.open
  PROVE  /\ store.open /\ StoreOK(store) /\ StoreOK(store')
         /\ Len(Rows(store)) \in Nat /\ Len(Rows(store')) \in Nat
         /\ Len(Rows(store)) <= Len(Rows(store'))
<1> USE DEF Sound
<1>1. store.open /\ StoreOK(store) /\ StoreOK(store')
  <2>1. store.open
    <3>1. CASE ExecuteComplete
      BY <3>1, CompleteEffect
    <3>2. CASE ~ExecuteComplete
      BY <3>2, StoreGrows
    <3>3. QED
      BY <3>1, <3>2
  <2>2. QED
    BY <2>1, SoundNext DEF Typed, NoStore
<1>2. Len(Rows(store)) <= Len(Rows(store'))
  <2>1. CASE ExecuteComplete
    BY <1>1, <2>1, CompleteKeeps
  <2>2. CASE ~ExecuteComplete
    BY <2>2, StoreGrows DEF Grows
  <2>3. QED
    BY <2>1, <2>2
<1>3. QED
  BY <1>1, <1>2, RowsTyped

LEMMA WindowStays ==
  ASSUME Sound, [Next]_vars, window'.open
  PROVE  window.open
<1> USE DEF Sound
<1>1. CASE ApplyRebased
  BY <1>1, RebasedEffect
<1>2. CASE ApplyPage
  BY <1>2, PageEffect
<1>3. CASE ApplyUpdate
  BY <1>3, UpdateEffect
<1>4. CASE ~(ApplyRebased \/ ApplyPage \/ ApplyUpdate)
  BY <1>4, WindowKept
<1>5. QED
  BY <1>1, <1>2, <1>3, <1>4

(* What the window knows of its search changes with results and its user.  *)
LEMMA WindowSame ==
  ASSUME Sound, [Next]_vars, window'.open,
         ~ApplyRebased, ~ApplyProgress, ~ApplyCompleted, ~ApplyPage,
         ~ApplyUpdate, ~ChangeQuery
  PROVE  /\ \A f \in {"total", "generation", "query", "count"} :
              window'[f] = window[f]
         /\ ~SyncSearch => /\ window'.complete = window.complete
                           /\ window'.due = window.due
<1> USE DEF Sound
<1>0. HitsFit
  BY IndexFits
<1>1. CASE StreamAppends
  BY <1>1 DEF StreamAppends
<1>2. CASE HistoryAppends
  BY <1>2 DEF HistoryAppends
<1>3. CASE ExecuteSearch
  BY <1>3, SearchEffect
<1>4. CASE ExecuteLoadPage
  BY <1>4, <1>0, LoadPageEffect
<1>5. CASE ExecuteClose
  BY <1>5, CloseEffect
<1>6. CASE ExecuteAppend
  BY <1>6, AppendEffect
<1>7. CASE ExecuteRecall
  BY <1>7, RecallEffect
<1>8. CASE ExecuteComplete
  BY <1>8, CompleteEffect
<1>9. CASE ExecuteScanned
  BY <1>9, ScannedEffect
<1>10. CASE ExecuteScanCompleted
  BY <1>10, ScanCompletedEffect
<1>11. CASE \E s \in scans : ScanRow(s) \/ ScanEnds(s) \/ ScanCancelled(s)
  <2>1. PICK s \in scans : ScanRow(s) \/ ScanEnds(s) \/ ScanCancelled(s)
    BY <1>11
  <2>2. UNCHANGED <<streamed, recalled, store, results, update, window, poll>>
    BY <2>1 DEF ScanRow, ScanEnds, ScanCancelled
  <2>3. QED
    BY <2>2
<1>12. CASE FindNoResult \/ Draw \/ NextFrame
  BY <1>12, FrameTyped
<1>13. CASE SyncSearch
  BY <1>13, SyncEffect
<1>14. CASE RequestPage
  BY <1>14, RequestEffect
<1>15. CASE ToggleFilter
  BY <1>15, ToggleEffect
<1>16. CASE CloseWindow
  BY <1>16, CloseWindowEffect DEF NoWindow
<1>17. CASE UNCHANGED vars
  BY <1>17 DEF vars
<1>18. QED
  BY <1>1, <1>2, <1>3, <1>4, <1>5, <1>6, <1>7, <1>8, <1>9, <1>10, <1>11,
     <1>12, <1>13, <1>14, <1>15, <1>16, <1>17, EachStep

(* What the window asks the store for is in the control lane.              *)
LEMMA ControlQueue ==
  ASSUME Sound, [Next]_vars
  PROVE  \/ lanes'.control = Control
         \/ /\ Control # <<>> /\ lanes'.control = Tail(Control)
            /\ ExecuteSearch \/ ExecuteLoadPage \/ ExecuteClose
         \/ \E c \in ControlCommand : /\ lanes'.control = Append(Control, c)
                                      /\ c.kind = "close" => ~window'.open
<1> USE DEF Sound, Control
<1>0. /\ HitsFit /\ "control" \in LaneNames
      /\ \A c \in PageCommand \cup SearchCommand :
           c \in ControlCommand /\ c.kind # "close"
      /\ CloseCommand \subseteq ControlCommand
  BY IndexFits DEF LaneNames, ControlCommand, PageCommand, SearchCommand
<1>1. CASE StreamAppends
  BY <1>1 DEF StreamAppends, Puts, Typed, LaneState
<1>2. CASE HistoryAppends
  BY <1>2 DEF HistoryAppends, Puts, Typed, LaneState
<1>3. CASE ExecuteSearch
  BY <1>3, SearchEffect
<1>4. CASE ExecuteLoadPage
  BY <1>4, <1>0, LoadPageEffect
<1>5. CASE ExecuteClose
  BY <1>5, CloseEffect
<1>6. CASE ExecuteAppend
  BY <1>6, AppendEffect DEF LaneNames
<1>7. CASE ExecuteRecall
  BY <1>7, RecallEffect DEF LaneNames
<1>8. CASE ExecuteComplete
  BY <1>8, CompleteEffect DEF LaneNames
<1>9. CASE ExecuteScanned
  BY <1>9, ScannedEffect DEF LaneNames
<1>10. CASE ExecuteScanCompleted
  BY <1>10, ScanCompletedEffect DEF LaneNames
<1>11. CASE \E s \in scans : ScanRow(s) \/ ScanEnds(s) \/ ScanCancelled(s)
  <2>1. PICK s \in scans : ScanRow(s) \/ ScanEnds(s) \/ ScanCancelled(s)
    BY <1>11
  <2>2. CASE ScanRow(s)
    BY <2>1, <2>2, <1>0, ScanRowEffect DEF LaneNames
  <2>3. CASE ScanEnds(s)
    BY <2>1, <2>3, <1>0, ScanEndsEffect DEF LaneNames
  <2>4. CASE ScanCancelled(s)
    BY <2>4 DEF ScanCancelled
  <2>5. QED
    BY <2>1, <2>2, <2>3, <2>4
<1>12. CASE ApplyRebased
  BY <1>12, RebasedEffect
<1>13. CASE ApplyProgress
  BY <1>13, ProgressEffect
<1>14. CASE ApplyCompleted
  BY <1>14, CompletedEffect
<1>15. CASE ApplyPage
  BY <1>15, PageEffect
<1>16. CASE FindNoResult \/ Draw \/ NextFrame
  BY <1>16, FrameTyped
<1>17. CASE ApplyUpdate
  BY <1>17, UpdateEffect
<1>18. CASE SyncSearch
  BY <1>18, <1>0, SyncEffect
<1>19. CASE RequestPage
  BY <1>19, <1>0, RequestEffect
<1>20. CASE ChangeQuery
  BY <1>20, QueryEffect
<1>21. CASE ToggleFilter
  BY <1>21, ToggleEffect
<1>22. CASE CloseWindow
  BY <1>22, <1>0, CloseWindowEffect
<1>23. CASE UNCHANGED vars
  BY <1>23 DEF vars
<1>24. QED
  BY <1>1, <1>2, <1>3, <1>4, <1>5, <1>6, <1>7, <1>8, <1>9, <1>10, <1>11,
     <1>12, <1>13, <1>14, <1>15, <1>16, <1>17, <1>18, <1>19, <1>20, <1>21,
     <1>22, <1>23, EachStep

(* The window closes before its store.                                     *)
HasStore == window.open => /\ store.open
                           /\ \A i \in DOMAIN Control : Control[i].kind # "close"

LEMMA HasStoreNext ==
  ASSUME Sound, HasStore, [Next]_vars
  PROVE  HasStore'
<1> USE DEF Sound
<1> SUFFICES ASSUME window'.open
             PROVE  /\ store'.open
                    /\ \A i \in DOMAIN lanes'.control :
                         lanes'.control[i].kind # "close"
  BY DEF HasStore, Control
<1>1. window.open
  BY WindowStays
<1>2. store.open /\ \A i \in DOMAIN Control : Control[i].kind # "close"
  BY <1>1 DEF HasStore
<1>3. Control \in Seq(ControlCommand)
  BY SearchesTyped
<1>4. Control # <<>> => 1 \in DOMAIN Control /\ Head(Control) = Control[1]
  BY <1>3, Dequeued
<1>5. ~ExecuteClose
  BY <1>2, <1>4, CloseEffect DEF Control
<1>6. store'.open
  BY <1>2, <1>5, StoreStays
<1>7. \A i \in DOMAIN lanes'.control : lanes'.control[i].kind # "close"
  <2>1. CASE lanes'.control = Control
    BY <1>2, <2>1
  <2>2. CASE Control # <<>> /\ lanes'.control = Tail(Control)
    BY <1>2, <1>3, <2>2, Dequeued
  <2>3. CASE \E c \in ControlCommand : /\ lanes'.control = Append(Control, c)
                                       /\ c.kind = "close" => ~window'.open
    <3>1. PICK c \in ControlCommand : /\ lanes'.control = Append(Control, c)
                                      /\ c.kind # "close"
      BY <2>3
    <3>2. PICK queue, more : queue = Control /\ more = Append(queue, c)
      OBVIOUS
    <3>3. /\ DOMAIN queue = 1..Len(queue) /\ Len(queue) \in Nat
          /\ DOMAIN more = 1..Len(queue) + 1 /\ more[Len(queue) + 1] = c
          /\ \A i \in DOMAIN queue : more[i] = queue[i]
      BY <1>3, <3>2, Queued
    <3>4. \A i \in DOMAIN more : i \in DOMAIN queue \/ more[i] = c
      BY <3>3
    <3>5. QED
      BY <1>2, <3>1, <3>2, <3>3, <3>4
  <2>4. QED
    BY <2>1, <2>2, <2>3, ControlQueue
<1>8. QED
  BY <1>6, <1>7

(* Nobody counts rows the store does not have.                             *)
WindowTotal  == store.open /\ window.open => window.total <= Len(Rows(store))
UpdateTotal  == store.open /\ update # NoUpdate => update.total <= Len(Rows(store))
ResultTotals == store.open => \A i \in DOMAIN results : TotalIn(store, results[i])
Totals       == WindowTotal /\ UpdateTotal /\ ResultTotals

LEMMA TotalStays ==
  ASSUME Sound, [Next]_vars, store'.open, NEW r \in Result, TotalIn(store, r)
  PROVE  TotalIn(store', r)
<1>1. /\ Len(Rows(store)) \in Nat /\ Len(Rows(store')) \in Nat
      /\ Len(Rows(store)) <= Len(Rows(store'))
  BY RowsStay
<1>2. Numbered(r) => r.total \in Nat
  BY Kinds DEF Numbered, Rebased, Progress, Page
<1>3. QED
  BY <1>1, <1>2 DEF TotalIn

LEMMA ResultTotalsNext ==
  ASSUME Sound, Totals, [Next]_vars
  PROVE  ResultTotals'
<1> USE DEF Sound
<1> SUFFICES ASSUME store'.open, NEW i \in DOMAIN results'
             PROVE  TotalIn(store', results'[i])
  BY DEF ResultTotals
<1>1. store.open
  BY RowsStay
<1>2. results \in Seq(Result)
  BY DEF Typed
<1>3. \A j \in DOMAIN results : TotalIn(store', results[j])
  <2> TAKE j \in DOMAIN results
  <2>1. results[j] \in Result
    BY <1>2, ElementOfSeq
  <2>2. TotalIn(store, results[j])
    BY <1>1 DEF Totals, ResultTotals
  <2>3. QED
    BY <2>1, <2>2, TotalStays
<1>4. CASE results' = results
  BY <1>3, <1>4
<1>5. CASE results # <<>> /\ results' = Tail(results)
  BY <1>2, <1>3, <1>5, Dequeued
<1>6. CASE \E r \in Result : results' = Append(results, r) /\ TotalIn(store', r)
  <2>1. PICK r \in Result : results' = Append(results, r) /\ TotalIn(store', r)
    BY <1>6
  <2>2. /\ DOMAIN results = 1..Len(results) /\ Len(results) \in Nat
        /\ DOMAIN results' = 1..Len(results) + 1
        /\ results'[Len(results) + 1] = r
        /\ \A j \in DOMAIN results : results'[j] = results[j]
    BY <1>2, <2>1, Queued
  <2>3. CASE i \in DOMAIN results
    BY <1>3, <2>2, <2>3
  <2>4. CASE i \notin DOMAIN results
    BY <2>2, <2>4, <2>1
  <2>5. QED
    BY <2>3, <2>4
<1>7. QED
  BY <1>4, <1>5, <1>6, Sent

LEMMA UpdateTotalNext ==
  ASSUME Sound, Totals, [Next]_vars
  PROVE  UpdateTotal'
<1> USE DEF Sound
<1> SUFFICES ASSUME store'.open, update' # NoUpdate
             PROVE  update'.total <= Len(Rows(store'))
  BY DEF UpdateTotal
<1>1. /\ store.open /\ Len(Rows(store)) \in Nat /\ Len(Rows(store')) \in Nat
      /\ Len(Rows(store)) <= Len(Rows(store'))
  BY RowsStay
<1>2. CASE update' = update
  BY <1>2, <1>1 DEF Typed, Update, Totals, UpdateTotal
<1>3. CASE ExecuteAppend
  BY <1>1, <1>3, AppendEffect
<1>4. CASE ExecuteRecall
  BY <1>1, <1>4, RecallEffect
<1>5. CASE ExecuteComplete
  BY <1>2, <1>5, CompleteEffect
<1>6. CASE ExecuteClose \/ ApplyUpdate
  BY <1>6, CloseEffect, UpdateEffect
<1>7. CASE ~(ExecuteAppend \/ ExecuteRecall \/ ExecuteComplete \/ ExecuteClose
             \/ ApplyUpdate)
  BY <1>2, <1>7, UpdateStays
<1>8. QED
  BY <1>3, <1>4, <1>5, <1>6, <1>7

LEMMA WindowTotalNext ==
  ASSUME Sound, Totals, [Next]_vars
  PROVE  WindowTotal'
<1> USE DEF Sound
<1> SUFFICES ASSUME store'.open, window'.open
             PROVE  window'.total <= Len(Rows(store'))
  BY DEF WindowTotal
<1>1. /\ store.open /\ Len(Rows(store)) \in Nat /\ Len(Rows(store')) \in Nat
      /\ Len(Rows(store)) <= Len(Rows(store'))
  BY RowsStay
<1>2. window.open
  BY WindowStays
<1>3. window'.total \in Nat
  <2>1. window' \in OpenWindow
    BY SoundNext DEF Typed, NoWindow
  <2>2. QED
    BY <2>1 DEF OpenWindow
<1>4. SUFFICES window'.total <= Len(Rows(store))
  BY <1>1, <1>3
<1>5. window.total <= Len(Rows(store))
  BY <1>1, <1>2 DEF Totals, WindowTotal
<1>6. ASSUME results # <<>>, Numbered(Head(results))
      PROVE  Head(results).total <= Len(Rows(store))
  BY <1>6, Dequeued, <1>1 DEF Typed, Totals, ResultTotals, TotalIn
<1>7. CASE ApplyRebased
  BY <1>2, <1>6, <1>7, RebasedEffect DEF Numbered, Rebased
<1>8. CASE ApplyProgress
  BY <1>2, <1>5, <1>6, <1>8, ProgressEffect DEF Numbered, Progress
<1>9. CASE ApplyCompleted
  BY <1>2, <1>5, <1>9, CompletedEffect
<1>10. CASE ApplyPage
  BY <1>2, <1>5, <1>6, <1>10, PageEffect DEF Numbered, Page
<1>11. CASE ApplyUpdate
  BY <1>2, <1>11, UpdateEffect, <1>1 DEF ApplyUpdate, Totals, UpdateTotal
<1>12. CASE ChangeQuery
  BY <1>5, <1>12, QueryEffect
<1>13. CASE ~(ApplyRebased \/ ApplyProgress \/ ApplyCompleted \/ ApplyPage
              \/ ApplyUpdate \/ ChangeQuery)
  BY <1>13, WindowSame, <1>5
<1>14. QED
  BY <1>7, <1>8, <1>9, <1>10, <1>11, <1>12, <1>13

(* Nor matches of its search the store has not found.                      *)
ResultsHave == store.open => \A r \in Recent(results) : CountIn(store, r)
UpdateHas   == store.open /\ update # NoUpdate =>
                 (update.search # <<>> =>
                    Has(store, update.search[1], update.search[2]))
WindowHas   == store.open /\ window.open /\ CaughtUp /\ window.query # NoQuery =>
                 Has(store, window.generation, window.count)
Counts      == ResultsHave /\ UpdateHas /\ WindowHas

LEMMA ResultsHaveNext ==
  ASSUME Sound, Counts, [Next]_vars
  PROVE  ResultsHave'
<1> USE DEF Sound
<1> SUFFICES ASSUME store'.open, NEW r \in Recent(results')
             PROVE  CountIn(store', r)
  BY DEF ResultsHave
<1>1. store.open /\ StoreOK(store) /\ StoreOK(store')
  BY RowsStay
<1>2. results \in Seq(Result)
  BY DEF Typed
<1>3. CASE ExecuteComplete
  <2>1. CASE UNCHANGED <<store, results, update>>
    BY <1>1, <2>1 DEF Counts, ResultsHave
  <2>2. CASE ~UNCHANGED <<store, results, update>>
    <3>1. PICK x \in Result : /\ results' = Append(results, x)
                              /\ CountIn(store', x) /\ x.kind = "rebased"
      BY <1>3, <2>2, RebasedSent
    <3>2. r = x
      BY <1>2, <3>1, RecentMore
    <3>3. QED
      BY <3>1, <3>2
  <2>3. QED
    BY <2>1, <2>2
<1>4. CASE ~ExecuteComplete
  <2>1. ASSUME r \in Recent(results)
        PROVE  CountIn(store', r)
    BY <1>4, StoreGrows, <1>2, <2>1, RecentTyped, <1>1, GrowsCount DEF Counts,
       ResultsHave
  <2>2. CASE results' = results
    BY <2>1, <2>2
  <2>3. CASE results # <<>> /\ results' = Tail(results)
    BY <1>2, <2>1, <2>3, RecentTaken
  <2>4. CASE \E x \in Result : results' = Append(results, x) /\ CountIn(store', x)
    <3>1. PICK x \in Result : results' = Append(results, x) /\ CountIn(store', x)
      BY <2>4
    <3>2. r \in Recent(results) \/ r = x
      BY <1>2, <3>1, RecentMore
    <3>3. QED
      BY <2>1, <3>1, <3>2
  <2>5. QED
    BY <2>2, <2>3, <2>4, Sent
<1>5. QED
  BY <1>3, <1>4

LEMMA UpdateHasNext ==
  ASSUME Sound, Counts, [Next]_vars
  PROVE  UpdateHas'
<1> USE DEF Sound
<1> SUFFICES ASSUME store'.open, update' # NoUpdate, update'.search # <<>>
             PROVE  Has(store', update'.search[1], update'.search[2])
  BY DEF UpdateHas
<1>1. store.open /\ StoreOK(store) /\ StoreOK(store')
  BY RowsStay
<1>2. CASE update # NoUpdate /\ update'.search = update.search /\ ~ExecuteComplete
  BY <1>1, <1>2, LogStoreAssumption, StoreGrows, GrowsHas DEF Counts, UpdateHas,
     Typed, Update, Generations
<1>3. CASE ExecuteAppend
  BY <1>1, <1>3, AppendEffect, SearchIs, HitsCounted
<1>4. CASE ExecuteRecall
  BY <1>1, <1>4, RecallEffect, <1>2 DEF ExecuteRecall, ExecuteComplete, Takes
<1>5. CASE ExecuteComplete
  BY <1>5, CompleteEffect DEF Counts, UpdateHas
<1>6. CASE ExecuteClose \/ ApplyUpdate
  BY <1>6, CloseEffect, UpdateEffect
<1>7. CASE ~(ExecuteAppend \/ ExecuteRecall \/ ExecuteComplete \/ ExecuteClose
             \/ ApplyUpdate)
  BY <1>2, <1>7, UpdateStays
<1>8. QED
  BY <1>3, <1>4, <1>5, <1>6, <1>7

LEMMA WindowHasNext ==
  ASSUME Sound, Counts, [Next]_vars
  PROVE  WindowHas'
<1> USE DEF Sound
<1> SUFFICES ASSUME store'.open, window'.open, CaughtUp', window'.query # NoQuery
             PROVE  Has(store', window'.generation, window'.count)
  BY DEF WindowHas
<1>1. store.open /\ StoreOK(store) /\ StoreOK(store') /\ window.open
  BY RowsStay, WindowStays
<1>2. CASE ApplyRebased
  BY <1>1, <1>2, RebasedEffect DEF Has
<1>3. CASE ~ApplyRebased
  <2>1. CaughtUp /\ (ExecuteComplete => UNCHANGED <<store, results, update>>)
    BY <1>3, CaughtUpStep
  <2>2. window'.generation \in Nat
    <3>1. window' \in OpenWindow
      BY SoundNext DEF Typed, NoWindow
    <3>2. QED
      BY <3>1, LogStoreAssumption DEF OpenWindow, Generations
  <2>3. SUFFICES Has(store, window'.generation, window'.count)
    <3>1. CASE ExecuteComplete
      BY <2>1, <2>3, <3>1
    <3>2. CASE ~ExecuteComplete
      BY <1>1, <2>2, <2>3, <3>2, StoreGrows, GrowsHas
    <3>3. QED
      BY <3>1, <3>2
  <2>4. ASSUME window'.generation = window.generation, window'.count = window.count,
               window'.query = window.query
        PROVE  Has(store, window'.generation, window'.count)
    BY <1>1, <2>1, <2>4 DEF Counts, WindowHas
  <2>5. ASSUME results # <<>>
        PROVE  CountIn(store, Head(results))
    BY <2>5, Dequeued, <2>1, AllRecent, <1>1 DEF Typed, Counts, ResultsHave
  <2>6. CASE ApplyProgress
    BY <1>1, <2>6, ProgressEffect, <2>5, <2>4 DEF CountedFields, Progress,
       CountIn
  <2>7. CASE ApplyCompleted
    BY <1>1, <2>7, CompletedEffect, <2>5, <2>4 DEF CountedFields, Completed,
       CountIn
  <2>8. CASE ApplyPage
    BY <1>1, <2>8, PageEffect, <2>5, <2>4 DEF Page, CountIn
  <2>9. CASE ApplyUpdate
    BY <1>1, <2>9, UpdateEffect, <2>4 DEF ApplyUpdate, Counts, UpdateHas
  <2>10. CASE ChangeQuery
    BY <2>10, QueryEffect DEF Has
  <2>11. CASE ~(ApplyProgress \/ ApplyCompleted \/ ApplyPage \/ ApplyUpdate
                \/ ChangeQuery)
    BY <1>3, <2>11, WindowSame, <2>4
  <2>12. QED
    BY <2>6, <2>7, <2>8, <2>9, <2>10, <2>11
<1>4. QED
  BY <1>2, <1>3

-----------------------------------------------------------------------------
(* The search the window waits for.                                        *)

Tells(kind, g, r) == r.kind = kind /\ r.generation = g

(* The window knows that search g is complete, or the channel will say so  *)
(* and not take it back.                                                   *)
LastWord(queue, g, done) ==
  \/ done /\ \A j \in DOMAIN queue : ~Tells("progress", g, queue[j])
  \/ \E i \in DOMAIN queue :
       /\ Tells("completed", g, queue[i])
       /\ \A j \in DOMAIN queue : j > i => ~Tells("progress", g, queue[j])

LEMMA LastWordSent ==
  ASSUME NEW queue \in Seq(Result), NEW r \in Result, NEW g, NEW done,
         LastWord(queue, g, done), ~Tells("progress", g, r),
         NEW longer, longer = Append(queue, r)
  PROVE  LastWord(longer, g, done)
<1>1. /\ DOMAIN queue = 1..Len(queue) /\ Len(queue) \in Nat
      /\ DOMAIN longer = 1..Len(queue) + 1
      /\ longer[Len(queue) + 1] = r
      /\ \A j \in DOMAIN queue : longer[j] = queue[j]
  BY Queued
<1>2. \A j \in DOMAIN longer : \/ j \in DOMAIN queue /\ longer[j] = queue[j]
                               \/ longer[j] = r
  BY <1>1
<1>3. \A i \in DOMAIN queue : i \in DOMAIN longer /\ longer[i] = queue[i]
  BY <1>1
<1>4. CASE done /\ \A j \in DOMAIN queue : ~Tells("progress", g, queue[j])
  BY <1>2, <1>4 DEF LastWord
<1>5. CASE \E i \in DOMAIN queue :
             /\ Tells("completed", g, queue[i])
             /\ \A j \in DOMAIN queue : j > i => ~Tells("progress", g, queue[j])
  BY <1>2, <1>3, <1>5 DEF LastWord
<1>6. QED
  BY <1>4, <1>5 DEF LastWord

LEMMA LastWordEnds ==
  ASSUME NEW queue \in Seq(Result), NEW r \in Result, NEW g, NEW done,
         Tells("completed", g, r), NEW longer, longer = Append(queue, r)
  PROVE  LastWord(longer, g, done)
<1>1. /\ Len(queue) \in Nat /\ DOMAIN longer = 1..Len(queue) + 1
      /\ longer[Len(queue) + 1] = r
  BY Queued
<1>2. PICK i \in DOMAIN longer : i = Len(queue) + 1
  BY <1>1
<1>3. longer[i] = r /\ \A j \in DOMAIN longer : ~(j > i)
  BY <1>1, <1>2
<1>4. QED
  BY <1>3 DEF LastWord

LEMMA LastWordTaken ==
  ASSUME NEW queue \in Seq(Result), queue # <<>>, NEW g, NEW done, NEW known,
         LastWord(queue, g, done),
         Tells("completed", g, Head(queue)) => known,
         ~Tells("progress", g, Head(queue)) /\ done => known,
         NEW less, less = Tail(queue)
  PROVE  LastWord(less, g, known)
<1>1. /\ DOMAIN queue = 1..Len(queue) /\ Len(queue) \in Nat
      /\ DOMAIN less = 1..Len(queue) - 1
      /\ 1 \in DOMAIN queue /\ Head(queue) = queue[1]
      /\ \A j \in DOMAIN less : j + 1 \in DOMAIN queue /\ less[j] = queue[j + 1]
  BY Dequeued
<1>2. CASE done /\ \A j \in DOMAIN queue : ~Tells("progress", g, queue[j])
  BY <1>1, <1>2 DEF LastWord
<1>3. CASE \E i \in DOMAIN queue :
             /\ Tells("completed", g, queue[i])
             /\ \A j \in DOMAIN queue : j > i => ~Tells("progress", g, queue[j])
  <2>1. PICK i \in DOMAIN queue :
          /\ Tells("completed", g, queue[i])
          /\ \A j \in DOMAIN queue : j > i => ~Tells("progress", g, queue[j])
    BY <1>3
  <2>2. CASE i = 1
    BY <1>1, <2>1, <2>2 DEF LastWord
  <2>3. CASE i # 1
    <3>1. i - 1 \in DOMAIN less /\ less[i - 1] = queue[i]
      BY <1>1, <2>3
    <3>2. \A j \in DOMAIN less : j > i - 1 => j + 1 > i
      BY <1>1
    <3>3. \A j \in DOMAIN less : j > i - 1 => ~Tells("progress", g, less[j])
      BY <1>1, <2>1, <3>2
    <3>4. QED
      BY <2>1, <3>1, <3>3 DEF LastWord
  <2>4. QED
    BY <2>2, <2>3
<1>4. QED
  BY <1>2, <1>3 DEF LastWord

Asked ==
  \E i \in Searches : /\ Control[i].generation = window.generation
                      /\ Control[i].query = window.query
Answered ==
  /\ store.search.generation = window.generation
  /\ store.search.query = window.query
  /\ store.search.complete =>
       LastWord(results, store.search.generation, window.complete)
Searched ==
  store.open /\ window.open /\ CaughtUp /\ window.query # NoQuery /\ ~window.due
    => Asked \/ Answered

(* A search is the same one until another is made or history comes in.     *)
LEMMA SearchKept ==
  ASSUME Sound, [Next]_vars, store'.open, store.search \in Search,
         ~ExecuteComplete, ~ExecuteSearch
  PROVE  /\ store'.search.generation = store.search.generation
         /\ store'.search.query = store.search.query
         /\ \/ store'.search.complete = store.search.complete
            \/ ExecuteScanCompleted /\ ~UNCHANGED results
<1> USE DEF Sound
<1>0. HitsFit /\ store.open /\ StoreOK(store)
  BY IndexFits, RowsStay
<1>1. CASE StreamAppends
  BY <1>1 DEF StreamAppends
<1>2. CASE HistoryAppends
  BY <1>2 DEF HistoryAppends
<1>3. CASE ExecuteLoadPage
  BY <1>3, <1>0, LoadPageEffect
<1>4. CASE ExecuteClose
  BY <1>4, CloseEffect
<1>5. CASE ExecuteAppend
  <2>1. PICK record \in Records : store' = Appended(store, record)
    BY <1>0, <1>5, AppendEffect
  <2>2. IF store.search.complete /\ record \in Matches(store.search.query)
        THEN store'.search = [store.search EXCEPT !.hits =
                                Append(@, Len(Rows(store)) + 1)]
        ELSE store'.search = store.search
    BY <1>0, <2>1, RowAppended
  <2>3. QED
    BY <2>2 DEF Search
<1>6. CASE ExecuteRecall
  BY <1>6, <1>0, RecallEffect
<1>7. CASE ExecuteScanned
  <2>1. CASE UNCHANGED store
    BY <2>1
  <2>2. CASE ~UNCHANGED store
    <3>1. PICK c \in ScannedCommand :
            store'.search = [store.search EXCEPT !.hits = @ \o c.hits]
      BY <1>7, <2>2, ScannedEffect
    <3>2. QED
      BY <3>1 DEF Search
  <2>3. QED
    BY <2>1, <2>2
<1>8. CASE ExecuteScanCompleted
  <2>1. CASE UNCHANGED store
    BY <2>1
  <2>2. CASE ~UNCHANGED store /\ ~UNCHANGED results
    BY <1>8, <2>2, CompletedSent
  <2>3. CASE ~UNCHANGED store /\ UNCHANGED results
    <3>1. PICK r \in Completed : results' = Append(results, r)
      BY <1>8, <2>3, ScanCompletedEffect
    <3>2. results \in Seq(Result) /\ r \in Result
      BY DEF Typed, Result
    <3>3. Len(results') = Len(results) + 1 /\ Len(results) \in Nat
      BY <3>1, <3>2, Queued
    <3>4. QED
      BY <2>3, <3>3
  <2>4. QED
    BY <2>1, <2>2, <2>3
<1>9. CASE \E s \in scans : ScanRow(s) \/ ScanEnds(s) \/ ScanCancelled(s)
  <2>1. PICK s \in scans : ScanRow(s) \/ ScanEnds(s) \/ ScanCancelled(s)
    BY <1>9
  <2>2. UNCHANGED <<streamed, recalled, store, results, update, window, poll>>
    BY <2>1 DEF ScanRow, ScanEnds, ScanCancelled
  <2>3. QED
    BY <2>2
<1>10. CASE ApplyRebased
  BY <1>10, RebasedEffect
<1>11. CASE ApplyProgress
  BY <1>11, ProgressEffect
<1>12. CASE ApplyCompleted
  BY <1>12, CompletedEffect
<1>13. CASE ApplyPage
  BY <1>13, PageEffect
<1>14. CASE FindNoResult \/ Draw \/ NextFrame
  BY <1>14, FrameTyped
<1>15. CASE ApplyUpdate
  BY <1>15, UpdateEffect
<1>16. CASE SyncSearch
  BY <1>16, SyncEffect
<1>17. CASE RequestPage
  BY <1>17, RequestEffect
<1>18. CASE ChangeQuery
  BY <1>18, QueryEffect
<1>19. CASE ToggleFilter
  BY <1>19, ToggleEffect
<1>20. CASE CloseWindow
  BY <1>20, CloseWindowEffect
<1>21. CASE UNCHANGED vars
  BY <1>21 DEF vars
<1>22. QED
  BY <1>1, <1>2, <1>3, <1>4, <1>5, <1>6, <1>7, <1>8, <1>9, <1>10, <1>11,
     <1>12, <1>13, <1>14, <1>15, <1>16, <1>17, <1>18, <1>19, <1>20, <1>21,
     EachStep

LEMMA AskedStays ==
  ASSUME Sound, Asked, [Next]_vars, ~ExecuteSearch, ~ExecuteClose,
         window'.generation = window.generation, window'.query = window.query
  PROVE  Asked'
<1> USE DEF Sound
<1>1. PICK i \in Searches : /\ Control[i].generation = window.generation
                            /\ Control[i].query = window.query
  BY DEF Asked
<1>2. Control \in Seq(ControlCommand) /\ i \in DOMAIN Control
      /\ Control[i].kind = "search"
  BY SearchesTyped DEF Searches
<1>3. SUFFICES \E j \in DOMAIN lanes'.control : lanes'.control[j] = Control[i]
  BY <1>1, <1>2, <1>3 DEF Asked, Searches, Control
<1>4. CASE lanes'.control = Control
  BY <1>2, <1>4
<1>5. CASE Control # <<>> /\ lanes'.control = Tail(Control) /\ ExecuteLoadPage
  <2>1. Head(Control).kind = "page"
    BY <1>5, IndexFits, LoadPageEffect DEF Control
  <2>2. PICK queue, less : queue = Control /\ less = Tail(queue)
    OBVIOUS
  <2>3. /\ DOMAIN queue = 1..Len(queue) /\ Len(queue) \in Nat
        /\ DOMAIN less = 1..Len(queue) - 1 /\ Head(queue) = queue[1]
        /\ \A j \in DOMAIN less : less[j] = queue[j + 1]
    BY <1>2, <1>5, <2>2, Dequeued
  <2>4. i # 1
    BY <1>2, <2>1, <2>2, <2>3
  <2>5. i - 1 \in DOMAIN less /\ less[i - 1] = queue[i]
    BY <1>2, <2>2, <2>3, <2>4
  <2>6. QED
    BY <1>5, <2>2, <2>5
<1>6. CASE \E c \in ControlCommand : lanes'.control = Append(Control, c)
  <2>1. PICK c \in ControlCommand : lanes'.control = Append(Control, c)
    BY <1>6
  <2>2. PICK queue, more : queue = Control /\ more = Append(queue, c)
    OBVIOUS
  <2>3. /\ DOMAIN queue = 1..Len(queue) /\ Len(queue) \in Nat
        /\ DOMAIN more = 1..Len(queue) + 1
        /\ \A j \in DOMAIN queue : more[j] = queue[j]
    BY <1>2, <2>2, Queued
  <2>4. i \in DOMAIN more /\ more[i] = queue[i]
    BY <1>2, <2>2, <2>3
  <2>5. QED
    BY <2>1, <2>2, <2>4
<1>7. QED
  BY <1>4, <1>5, <1>6, ControlQueue

(* The store is told of each search once, the newest last.                 *)
LEMMA SearchedBySearch ==
  ASSUME Sound, ExecuteSearch, store.open, window.open, Asked \/ Answered
  PROVE  Asked' \/ Answered'
<1> USE DEF Sound
<1>1. PICK c \in SearchCommand :
        /\ c = Head(Control)
        /\ store'.search = [generation |-> c.generation, query |-> c.query,
                            hits |-> <<>>, complete |-> FALSE]
  BY SearchEffect DEF Control
<1>2. /\ Control # <<>> /\ Head(Control).kind = "search"
      /\ lanes'.control = Tail(Control) /\ UNCHANGED <<results, window>>
  BY ControlTaken, SearchEffect DEF ExecuteSearch, Control
<1>3. Control \in Seq(ControlCommand)
  BY SearchesTyped
<1>4. Control[1] = c /\ 1 \in Searches
  BY <1>2, <1>3, Dequeued, <1>1 DEF Searches
<1>5. CASE Asked
  <2>1. PICK i \in Searches : /\ Control[i].generation = window.generation
                              /\ Control[i].query = window.query
    BY <1>5 DEF Asked
  <2>2. CASE i = 1
    BY <1>1, <1>2, <1>4, <2>1, <2>2 DEF Answered
  <2>3. CASE i # 1
    <3>1. PICK queue, less : queue = Control /\ less = Tail(queue)
      OBVIOUS
    <3>2. /\ DOMAIN queue = 1..Len(queue) /\ Len(queue) \in Nat
          /\ DOMAIN less = 1..Len(queue) - 1
          /\ \A j \in DOMAIN less : less[j] = queue[j + 1]
      BY <1>2, <1>3, <3>1, Dequeued
    <3>3. i \in DOMAIN queue /\ queue[i].kind = "search"
      BY <3>1 DEF Searches
    <3>4. i - 1 \in DOMAIN less /\ less[i - 1] = queue[i]
      BY <2>3, <3>2, <3>3
    <3>5. QED
      BY <1>2, <2>1, <3>1, <3>3, <3>4 DEF Asked, Searches, Control
  <2>4. QED
    BY <2>2, <2>3
<1>6. CASE Answered
  <2>1. store.search.generation < c.generation
    BY <1>4, UsedIs DEF GensOrdered
  <2>2. c.generation <= window.generation
    BY <1>4 DEF GensOrdered, Bounded
  <2>3. window.generation \in Nat /\ c.generation \in Nat
    <3>1. window \in OpenWindow
      BY DEF Typed, NoWindow
    <3>2. QED
      BY <1>1, <3>1, LogStoreAssumption DEF OpenWindow, SearchCommand, Generations
  <2>4. QED
    BY <1>6, <2>1, <2>2, <2>3 DEF Answered
<1>7. QED
  BY <1>5, <1>6

LEMMA SearchedNext ==
  ASSUME Sound, Searched, [Next]_vars
  PROVE  Searched'
<1> USE DEF Sound
<1> SUFFICES ASSUME store'.open, window'.open, CaughtUp',
                    window'.query # NoQuery, ~window'.due
             PROVE  Asked' \/ Answered'
  BY DEF Searched
<1>1. store.open /\ StoreOK(store) /\ StoreOK(store') /\ window.open
  BY RowsStay, WindowStays
<1>2. ~ApplyRebased
  <2>1. SUFFICES ASSUME ApplyRebased PROVE FALSE
    OBVIOUS
  <2>2. window'.query = window.query /\ (window.query # NoQuery => window'.due)
    BY <1>1, <2>1, RebasedEffect
  <2>3. QED
    BY <2>2
<1>3. ~ChangeQuery /\ ~ExecuteClose
  BY QueryEffect, CloseEffect
<1>4. CaughtUp /\ (ExecuteComplete => UNCHANGED <<store, results, update>>)
  BY <1>2, CaughtUpStep
<1>5. CASE SyncSearch
  <2>1. /\ window'["generation"] = window["generation"]
        /\ window'["query"] = window["query"]
    BY <1>5, SyncEffect
  <2>2. PICK c \in SearchCommand : /\ lanes'.control = Append(Control, c)
                                   /\ c.query = window.query
                                   /\ c.generation = window.generation
    BY <1>5, <2>1, SyncEffect DEF Control
  <2>3. Control \in Seq(ControlCommand) /\ c \in ControlCommand /\ c.kind = "search"
    BY SearchesTyped DEF ControlCommand, SearchCommand
  <2>4. PICK queue, more : queue = Control /\ more = Append(queue, c)
    OBVIOUS
  <2>5. /\ Len(queue) \in Nat /\ DOMAIN more = 1..Len(queue) + 1
        /\ more[Len(queue) + 1] = c
    BY <2>3, <2>4, Queued
  <2>6. PICK i \in DOMAIN more : more[i] = c
    BY <2>5
  <2>7. QED
    BY <2>1, <2>2, <2>3, <2>4, <2>6 DEF Asked, Searches, Control
<1>6. CASE ~SyncSearch
  <2>1. /\ window'.generation = window.generation /\ window'.query = window.query
        /\ window'.due = window.due
        /\ ~ApplyProgress /\ ~ApplyCompleted => window'.complete = window.complete
    <3>1. CASE ApplyProgress
      BY <1>1, <3>1, ProgressEffect DEF CountedFields
    <3>2. CASE ApplyCompleted
      BY <1>1, <3>2, CompletedEffect DEF CountedFields
    <3>3. CASE ApplyPage \/ ApplyUpdate
      BY <1>1, <3>3, PageEffect, UpdateEffect
    <3>4. CASE ~(ApplyProgress \/ ApplyCompleted \/ ApplyPage \/ ApplyUpdate)
      BY <1>2, <1>3, <1>6, <3>4, WindowSame
    <3>5. QED
      BY <3>1, <3>2, <3>3, <3>4
  <2>2. Asked \/ Answered
    BY <1>1, <1>4, <2>1 DEF Searched
  <2>3. CASE ExecuteSearch
    BY <1>1, <2>2, <2>3, SearchedBySearch
  <2>4. CASE ~ExecuteSearch /\ Asked
    BY <1>3, <2>1, <2>4, AskedStays
  <2>5. CASE ~ExecuteSearch /\ Answered
    <3> SUFFICES Answered'
      OBVIOUS
    <3>1. store.search \in Search /\ store.search.generation = window.generation
      <4>1. window \in OpenWindow
        BY <1>1 DEF Typed, NoWindow
      <4>2. store.search.generation = window.generation
        BY <2>5 DEF Answered
      <4>3. store.search.generation \in Nat
        BY <4>1, <4>2, LogStoreAssumption DEF OpenWindow, Generations
      <4>4. QED
        BY <1>1, <4>2, <4>3, SearchIs
    <3>2. /\ store'.search.generation = store.search.generation
          /\ store'.search.query = store.search.query
          /\ \/ store'.search.complete = store.search.complete
             \/ ExecuteScanCompleted /\ ~UNCHANGED results
      <4>1. CASE ExecuteComplete
        BY <1>4, <4>1
      <4>2. CASE ~ExecuteComplete
        BY <2>5, <3>1, <4>2, SearchKept
      <4>3. QED
        BY <4>1, <4>2
    <3>3. results \in Seq(Result)
      BY DEF Typed
    <3>4. PICK g : g = store.search.generation
      OBVIOUS
    <3>5. SUFFICES ASSUME store'.search.complete
                   PROVE  LastWord(results', g, window'.complete)
      BY <2>1, <2>5, <3>2, <3>4, <3>5 DEF Answered
    <3>6. CASE ExecuteScanCompleted /\ ~UNCHANGED results
      <4>1. PICK r \in Result : /\ results' = Append(results, r)
                                /\ r.kind = "completed" /\ r.generation = g
        BY <3>4, <3>6, CompletedSent
      <4>2. QED
        BY <3>3, <4>1, LastWordEnds DEF Tells
    <3>7. CASE store'.search.complete = store.search.complete
      <4>1. store.search.complete /\ LastWord(results, g, window.complete)
        BY <2>5, <3>4, <3>5, <3>7 DEF Answered
      <4>2. CASE ApplyProgress
        BY <1>1, <3>1, <3>4, <4>2, ProgressEffect, <3>3, <4>1, LastWordTaken
           DEF Progress, Tells
      <4>3. CASE ApplyCompleted
        BY <1>1, <3>1, <3>4, <4>3, CompletedEffect, <3>3, <4>1, LastWordTaken
           DEF Completed, Tells
      <4>4. CASE ApplyPage
        BY <1>1, <4>4, PageEffect, <3>3, <4>1, LastWordTaken DEF Page, Tells
      <4>5. CASE ~(ApplyProgress \/ ApplyCompleted \/ ApplyPage)
        <5>1. window'.complete = window.complete
          BY <2>1, <4>5
        <5>2. CASE results' = results
          BY <4>1, <5>1, <5>2
        <5>3. CASE \E r \in Result : results' = Append(results, r)
                                     /\ r.kind # "progress"
          BY <3>3, <4>1, <5>1, <5>3, LastWordSent DEF Tells
        <5>4. QED
          BY <1>2, <4>1, <4>5, <5>2, <5>3, Sent
      <4>6. QED
        BY <4>2, <4>3, <4>4, <4>5
    <3>8. QED
      BY <3>2, <3>6, <3>7
  <2>6. QED
    BY <2>2, <2>3, <2>4, <2>5
<1>7. QED
  BY <1>5, <1>6

Known == HasStore /\ Totals /\ Counts /\ Searched

LEMMA KnownInit == Init => Known
<1> SUFFICES ASSUME Init PROVE Known
  OBVIOUS
<1>1. /\ window.query = NoQuery /\ window.total = 0 /\ store.open
      /\ update = NoUpdate /\ results = <<>> /\ lanes.control = <<>>
  BY DEF Init, Lanes, Range
<1>2. Len(Rows(store)) \in Nat
  BY <1>1, SoundInit, RowsTyped DEF Sound, Typed, NoStore
<1>3. Recent(results) = {}
  BY <1>1, RecentIs
<1>4. HasStore
  BY <1>1 DEF HasStore, Control
<1>5. Totals
  BY <1>1, <1>2 DEF Totals, WindowTotal, UpdateTotal, ResultTotals
<1>6. Counts
  BY <1>1, <1>3 DEF Counts, ResultsHave, UpdateHas, WindowHas
<1>7. Searched
  BY <1>1 DEF Searched
<1>8. QED
  BY <1>4, <1>5, <1>6, <1>7 DEF Known

LEMMA KnownAlways == Spec => [](Sound /\ Known)
<1>1. Sound /\ Known /\ [Next]_vars => Known'
  <2> SUFFICES ASSUME Sound, Known, [Next]_vars PROVE Known'
    OBVIOUS
  <2>1. HasStore'
    BY HasStoreNext DEF Known
  <2>2. Totals'
    BY WindowTotalNext, UpdateTotalNext, ResultTotalsNext DEF Known, Totals
  <2>3. Counts'
    BY ResultsHaveNext, UpdateHasNext, WindowHasNext DEF Known, Counts
  <2>4. Searched'
    BY SearchedNext DEF Known
  <2>5. QED
    BY <2>1, <2>2, <2>3, <2>4 DEF Known
<1>2. QED
  BY <1>1, SoundInit, SoundNext, KnownInit, PTL DEF Spec

LEMMA KnownAtRest == Sound /\ Known => SearchedAtRest
<1> SUFFICES ASSUME Sound, Known PROVE SearchedAtRest
  OBVIOUS
<1> USE DEF Sound
<1>1. ASSUME window.open
      PROVE  store.open /\ StoreOK(store) /\ window.generation \in Nat
  <2>1. store.open /\ StoreOK(store)
    BY <1>1 DEF Known, HasStore, Typed, NoStore
  <2>2. window \in OpenWindow
    BY <1>1 DEF Typed, NoWindow
  <2>3. QED
    BY <2>1, <2>2, LogStoreAssumption DEF OpenWindow, Generations
<1>2. ASSUME AtRest, window.query # NoQuery
      PROVE  /\ window.complete /\ store.search.complete
             /\ store.search.generation = window.generation
             /\ store.search.query = window.query
  <2>1. /\ Control = <<>> /\ Scanning = <<>> /\ scans = {} /\ results = <<>>
        /\ window.open /\ ~window.due
    BY QueuesAre, <1>2 DEF AtRest, Control, Scanning, LaneNames
  <2>2. CaughtUp /\ ~Asked
    BY <2>1 DEF CaughtUp, Asked, Searches
  <2>3. Answered
    BY <1>1, <1>2, <2>1, <2>2 DEF Known, Searched
  <2>4. store.search \in Search /\ store.search # NoSearch
    BY <1>1, <2>1, <2>3, SearchIs DEF Answered
  <2>5. Indexed(store.search, Rows(store), scans, Scanning)
    BY <1>1, <2>1, <2>4 DEF Index
  <2>6. store.search.complete
    BY <2>1, <2>5 DEF Indexed, Underway
  <2>7. window.complete
    BY <2>1, <2>3, <2>6 DEF Answered, LastWord
  <2>8. QED
    BY <2>3, <2>6, <2>7 DEF Answered
<1>3. ASSUME store.open, window.open
      PROVE  /\ window.total <= Len(Rows(store))
             /\ window.query # NoQuery /\ window.count > 0 =>
                  \/ ~CaughtUp
                  \/ store.search.generation = window.generation
                     /\ window.count <= Len(store.search.hits)
  <2>1. window.total <= Len(Rows(store))
    BY <1>3 DEF Known, Totals, WindowTotal
  <2>2. ASSUME window.query # NoQuery, window.count > 0, CaughtUp
        PROVE  /\ store.search.generation = window.generation
               /\ window.count <= Len(store.search.hits)
    <3>1. Has(store, window.generation, window.count)
      BY <1>3, <2>2 DEF Known, Counts, WindowHas
    <3>2. store.search.generation <= window.generation
      BY <1>3, UsedIs DEF GensOrdered, Bounded
    <3>3. store.search.generation \in Int /\ window.generation \in Nat
      BY <1>1, <1>3, SearchIs
    <3>4. store.search.generation = window.generation
          /\ window.count \in DOMAIN store.search.hits
      BY <2>2, <3>1, <3>2, <3>3 DEF Has
    <3>5. store.search \in Search
      BY <1>1, <1>3, <3>3, <3>4, SearchIs
    <3>6. PICK hits : hits = store.search.hits
      OBVIOUS
    <3>7. hits \in Seq(Nat \ {0})
      BY <3>5, <3>6 DEF Search
    <3>8. window.count <= Len(hits)
      BY <3>4, <3>6, <3>7
    <3>9. QED
      BY <3>4, <3>6, <3>8
  <2>3. QED
    BY <2>1, <2>2
<1>4. QED
  BY <1>2, <1>3 DEF SearchedAtRest

(* A search finds what there is, and is made again when it has to be: the  *)
(* index is exact (IndexIsExact); when nothing is under way the search the *)
(* window shows is the store's and has completed, however history, scans   *)
(* and the user's typing overlapped; and the window never counts rows or   *)
(* matches the store does not have (log_state.rs, log_store/scan.rs).      *)
THEOREM SearchIsExact == Spec => []SearchExact
<1>1. SearchIndexExact /\ SearchedAtRest => SearchExact
  BY DEF SearchExact
<1>2. QED
  BY <1>1, IndexIsExact, KnownAlways, KnownAtRest, PTL

-----------------------------------------------------------------------------
(* The viewport.  It counts as everyone does.                              *)

LEMMA ViewCounts == \A S : View!Cardinality(S) = Cardinality(S)
BY DEF Cardinality, View!Cardinality

LEMMA Sizes ==
  /\ Height \in Nat \ {0} /\ MaxLines \in Nat \ {0} /\ Shift \in Nat
  /\ Matching \subseteq (-Shift)..(MaxLines - 1)
  /\ Budgets \subseteq [clicks: Nat, keys: Nat, wheels: Nat]
BY ViewAssumption DEF View!LogTailAssumption

(* The log that is shown: its rows and what the search has counted.        *)
LogShaped(l) ==
  /\ l \in [total: Nat, rebased: BOOLEAN, query: BOOLEAN, filter: BOOLEAN,
            count: Nat]
  /\ View!Offset(l) <= l.total /\ l.total <= MaxLines + View!Offset(l)

LogFits(l) ==
  /\ LogShaped(l)
  /\ l.count <= View!Cardinality(View!Hits(l))
  /\ ~l.query => l.count = 0

Before(found, i) == Cardinality({j \in found : j < i})

(* Of some numbers, there is one with so many before it.                   *)
LEMMA SomeHit ==
  ASSUME NEW found \in SUBSET Int, IsFiniteSet(found),
         NEW m \in Nat, m < Cardinality(found)
  PROVE  \E i \in found : Before(found, i) = m
<1>1. /\ Cardinality(found) \in Nat
      /\ \A k \in 1..Cardinality(found) : \E i \in found : Rank(found, i) = k
  BY Ranks
<1>2. m + 1 \in 1..Cardinality(found)
  BY <1>1
<1>3. PICK i \in found : Rank(found, i) = m + 1
  BY <1>1, <1>2
<1> DEFINE small == {j \in found : j < i}
           large == {j \in found : j <= i}
<1>4. small = large \ {i}
  <2>1. \A j \in found : j < i <=> (j <= i /\ j # i)
    OBVIOUS
  <2>2. QED
    BY <2>1, Zenon
<1>5. i \in large /\ large \in SUBSET found
  OBVIOUS
<1>6. Cardinality(large) = m + 1 /\ Before(found, i) = Cardinality(small)
  BY <1>3 DEF Rank, Before
<1> HIDE DEF small, large
<1>7. IsFiniteSet(large)
  BY <1>5, FS_Subset
<1>8. Cardinality(small) = Cardinality(large) - 1
  BY <1>4, <1>5, <1>7, FS_RemoveElement
<1>9. QED
  BY <1>6, <1>8

LEMMA OffsetIs ==
  ASSUME NEW l, l.rebased \in BOOLEAN
  PROVE  View!Offset(l) \in {0, Shift} /\ View!Offset(l) \in Nat
BY Sizes DEF View!Offset

LEMMA RecordsAre ==
  ASSUME NEW l, LogShaped(l)
  PROVE  /\ View!Records(l) = (-View!Offset(l))..(l.total - View!Offset(l) - 1)
         /\ \A r \in View!Records(l) :
              /\ r \in Int /\ r + View!Offset(l) \in 0..l.total - 1
              /\ r \in (-Shift)..(MaxLines - 1)
<1>1. /\ l.total \in Nat /\ l.rebased \in BOOLEAN /\ Shift \in Nat
      /\ MaxLines \in Nat
      /\ View!Offset(l) <= l.total /\ l.total <= MaxLines + View!Offset(l)
  BY Sizes DEF LogShaped
<1>2. View!Records(l) = (-View!Offset(l))..(l.total - View!Offset(l) - 1)
  BY <1>1 DEF View!Records, View!Offset
<1>3. View!Offset(l) \in {0, Shift}
  BY <1>1, OffsetIs
<1>4. QED
  BY <1>1, <1>2, <1>3

LEMMA HitsAreRecords ==
  ASSUME NEW l, LogShaped(l)
  PROVE  /\ View!Hits(l) \subseteq View!Records(l)
         /\ View!Hits(l) \in SUBSET Int /\ IsFiniteSet(View!Hits(l))
         /\ Cardinality(View!Hits(l)) \in 0..l.total
<1> DEFINE hits == View!Hits(l)
           a == -View!Offset(l)
           n == l.total - View!Offset(l) - 1
<1>1. hits \subseteq View!Records(l) /\ View!Records(l) = a..n
  BY RecordsAre DEF View!Hits
<1>2. /\ l.total \in Nat /\ l.rebased \in BOOLEAN /\ View!Offset(l) <= l.total
  BY DEF LogShaped
<1>3. View!Offset(l) \in Nat
  BY <1>2, OffsetIs
<1>4. a \in Int /\ n \in Int
  BY <1>2, <1>3
<1> HIDE DEF hits
<1>5. hits \in SUBSET (a..n) /\ hits \in SUBSET Int
  BY <1>1, <1>4
<1>6. /\ IsFiniteSet(a..n) /\ Cardinality(a..n) = l.total
  <2>1. /\ IsFiniteSet(a..n)
        /\ Cardinality(a..n) = IF a > n THEN 0 ELSE n - a + 1
    BY <1>4, FS_Interval
  <2>2. (IF a > n THEN 0 ELSE n - a + 1) = l.total
    BY <1>2, <1>3
  <2>3. QED
    BY <2>1, <2>2
<1>7. /\ IsFiniteSet(hits) /\ Cardinality(hits) \in Nat
      /\ Cardinality(hits) <= l.total
  BY <1>5, <1>6, FS_Subset, FS_CardinalityType
<1>8. QED
  BY <1>1, <1>2, <1>5, <1>7 DEF hits

(* The match number m is the one with m matches before it.                 *)
LEMMA MatchesFit ==
  ASSUME NEW l, LogFits(l)
  PROVE  /\ l.count \in 0..Cardinality(View!Hits(l))
         /\ \A m \in Nat : m < Cardinality(View!Hits(l)) =>
              /\ View!HitAt(l, m) \in View!Hits(l)
              /\ Before(View!Hits(l), View!HitAt(l, m)) = m
<1> DEFINE hits == View!Hits(l)
<1>1. /\ hits \in SUBSET Int /\ IsFiniteSet(hits)
      /\ Cardinality(hits) \in 0..l.total /\ l.total \in Nat
      /\ l.count \in Nat /\ l.count <= Cardinality(hits)
  BY HitsAreRecords, ViewCounts DEF LogFits, LogShaped
<1> HIDE DEF hits
<1>2. \A m \in Nat : m < Cardinality(hits) =>
        \E i \in hits : Before(hits, i) = m
  BY <1>1, SomeHit
<1>3. ASSUME NEW m \in Nat, m < Cardinality(hits)
      PROVE  /\ View!HitAt(l, m) \in hits
             /\ Before(hits, View!HitAt(l, m)) = m
  <2>1. PICK i \in hits : Before(hits, i) = m
    BY <1>2, <1>3
  <2>2. \A r : Cardinality({s \in hits : s < r}) = Before(hits, r)
    BY DEF Before
  <2>3. View!HitAt(l, m) = CHOOSE r \in hits : Before(hits, r) = m
    BY <2>2, ViewCounts DEF View!HitAt, hits
  <2>4. QED
    BY <2>1, <2>3
<1>4. QED
  BY <1>1, <1>3 DEF hits

LEMMA DisplayedIs ==
  ASSUME NEW l, LogFits(l)
  PROVE  /\ View!Displayed(l) \in 0..l.total
         /\ View!Bottom(l) \in 0..l.total
         /\ l.total \in 0..MaxLines + Shift
<1>1. /\ l.total \in Nat /\ l.rebased \in BOOLEAN /\ l.count \in 0..l.total
      /\ l.total <= MaxLines + View!Offset(l)
  BY MatchesFit, HitsAreRecords DEF LogFits, LogShaped
<1>2. View!Offset(l) \in {0, Shift} /\ Height \in Nat /\ Shift \in Nat
      /\ MaxLines \in Nat
  BY <1>1, OffsetIs, Sizes
<1>3. View!Displayed(l) \in 0..l.total
  BY <1>1 DEF View!Displayed
<1>4. QED
  BY <1>1, <1>2, <1>3 DEF View!Bottom, View!Most

(* The record in a row has that row, whatever is filtered.                 *)
LEMMA RowOfRecord ==
  ASSUME NEW l, LogFits(l), NEW row \in Nat
  PROVE  /\ View!RecordAt(l, row) \in View!Records(l) \cup {View!Nothing}
         /\ View!RecordAt(l, row) # View!Nothing =>
              View!RowOf(l, View!RecordAt(l, row)) = row
<1>0. /\ l.total \in Nat /\ l.rebased \in BOOLEAN /\ l.count \in Nat
      /\ l.filter \in BOOLEAN /\ l.query \in BOOLEAN
  BY DEF LogFits, LogShaped
<1>1. View!Offset(l) \in Nat
  BY <1>0, OffsetIs
<1>2. CASE row >= View!Displayed(l)
  BY <1>2 DEF View!RecordAt
<1>3. CASE ~(row >= View!Displayed(l)) /\ View!Filtered(l)
  BY <1>3, MatchesFit, HitsAreRecords, <1>0, ViewCounts DEF View!Displayed,
     LogFits, View!RecordAt, View!RowOf, Before
<1>4. CASE ~(row >= View!Displayed(l)) /\ ~View!Filtered(l)
  BY <1>4, <1>0, <1>1, RecordsAre DEF View!RecordAt, View!Displayed, LogFits,
     View!RowOf
<1>5. QED
  BY <1>2, <1>3, <1>4

(* Rows that arrive leave the others where they are.                       *)
LEMMA RowsAppended ==
  ASSUME NEW l, LogShaped(l), NEW k, LogShaped(k),
         k.total \in {l.total, l.total + 1},
         k.rebased = l.rebased, k.query = l.query, k.filter = l.filter
  PROVE  /\ View!Records(l) \subseteq View!Records(k)
         /\ View!Hits(l) \subseteq View!Hits(k)
         /\ \A r \in View!Records(l) : View!RowOf(k, r) = View!RowOf(l, r)
<1>1. View!Offset(k) = View!Offset(l) /\ (View!Filtered(k) <=> View!Filtered(l))
  BY DEF View!Offset, View!Filtered
<1>2. /\ View!Records(l) = (-View!Offset(l))..(l.total - View!Offset(l) - 1)
      /\ View!Records(k) = (-View!Offset(l))..(k.total - View!Offset(l) - 1)
  BY <1>1, RecordsAre
<1>3. l.total \in Nat /\ View!Offset(l) \in Nat
  BY OffsetIs DEF LogShaped
<1>4. View!Records(l) \subseteq View!Records(k)
  BY <1>2, <1>3
<1>5. View!Hits(l) \subseteq View!Hits(k)
  BY <1>4 DEF View!Hits
<1>6. ASSUME NEW r \in View!Records(l)
      PROVE  View!RowOf(k, r) = View!RowOf(l, r)
  <2>1. \A s \in View!Records(k) : s < r => s \in View!Records(l)
    BY <1>2, <1>3
  <2>2. {s \in View!Hits(k) : s < r} = {s \in View!Hits(l) : s < r}
    BY <1>4, <2>1 DEF View!Hits
  <2>3. QED
    BY <1>1, <2>2 DEF View!RowOf
<1>7. QED
  BY <1>4, <1>5, <1>6

(* Of more matches, so many have been counted.                             *)
LEMMA CountFits ==
  ASSUME NEW l, LogFits(l), NEW k, LogShaped(k), k.count = l.count,
         ~k.query => k.count = 0, View!Hits(l) \subseteq View!Hits(k)
  PROVE  LogFits(k)
<1>1. /\ l.count \in Nat /\ l.count <= Cardinality(View!Hits(l))
      /\ IsFiniteSet(View!Hits(l)) /\ IsFiniteSet(View!Hits(k))
  BY ViewCounts, HitsAreRecords DEF LogFits, LogShaped
<1>2. /\ Cardinality(View!Hits(l)) <= Cardinality(View!Hits(k))
      /\ Cardinality(View!Hits(k)) \in Nat /\ Cardinality(View!Hits(l)) \in Nat
  BY <1>1, FS_Subset, FS_CardinalityType
<1>3. QED
  BY <1>1, <1>2, ViewCounts DEF LogFits

(* What holds of the viewport at all times: its types, ...                 *)
ViewTyped ==
  /\ budget \in [clicks: Nat, keys: Nat, wheels: Nat]
  /\ LogFits(log)
  /\ nav \in [target: View!Rows, delta: {View!None, Shift}, row: View!Rows,
              match: View!Rows, asked: View!Rows]
  /\ nav.asked # View!None => log.query /\ nav.asked < log.count
  /\ caret \in [row: View!Rows, ensure: BOOLEAN, focus: BOOLEAN]
  /\ tail \in [following: BOOLEAN, requested: BOOLEAN, wasAtBottom: BOOLEAN,
               prev: [maximum: View!Rows, offset: View!Rows],
               rejoin: View!Rows]
  /\ view \in [top: 0..MaxLines + Shift, visible: 0..MaxLines + Shift,
               stuck: BOOLEAN]
  /\ seen \in View!Records(log) \cup {View!Nothing} /\ moved \in BOOLEAN

(* ... what the lock to the bottom rests on, ...                           *)
Locked ==
  /\ tail.requested => tail.following
  /\ tail.following /\ ~tail.requested => view.stuck /\ ~caret.ensure
  /\ tail.prev # View!NoFrame => tail.prev.offset = view.top

(* ... and where the record is that the last frame had at the top: nobody  *)
(* has moved it but the history, which says by how much.                   *)
InPlace ==
  /\ caret.ensure => moved
  /\ ~moved /\ nav.target # View!None => log.rebased /\ nav.delta = Shift
  /\ ~moved /\ seen # View!Nothing =>
       View!RowOf(log, seen) =
         IF nav.target = View!None THEN view.top ELSE view.top + Shift

ViewInv == ViewTyped /\ Locked /\ InPlace

LEMMA SpendTyped ==
  ASSUME budget \in [clicks: Nat, keys: Nat, wheels: Nat],
         NEW what \in {"clicks", "keys", "wheels"}, View!Spend(what)
  PROVE  budget' \in [clicks: Nat, keys: Nat, wheels: Nat]
<1>1. budget[what] \in Nat /\ budget[what] > 0
  BY DEF View!Spend
<1>2. PICK n : n = budget[what] - 1
  OBVIOUS
<1>3. n \in Nat /\ budget' = [budget EXCEPT ![what] = n]
  BY <1>1, <1>2 DEF View!Spend
<1>4. QED
  BY <1>3

LEMMA RowsHave ==
  /\ View!None \in View!Rows /\ View!None = -1
  /\ \A row \in 0..MaxLines + Shift : row \in View!Rows /\ row # View!None
  /\ Shift \in View!Rows /\ Shift # View!None
BY Sizes DEF View!Rows, View!None

LEMMA ViewInitial == View!Init => ViewInv
<1> SUFFICES ASSUME View!Init PROVE ViewInv
  OBVIOUS
<1>0. MaxLines \in Nat /\ Shift \in Nat
  BY Sizes
<1>1. /\ log = [total |-> 0, rebased |-> FALSE, query |-> FALSE,
                filter |-> FALSE, count |-> 0]
      /\ View!Offset(log) = 0
  BY DEF View!Init, View!Offset
<1>2. LogShaped(log)
  BY <1>0, <1>1 DEF LogShaped
<1>3. LogFits(log)
  BY <1>2, HitsAreRecords, <1>1, ViewCounts DEF LogFits
<1>4. ViewTyped
  <2>1. budget \in [clicks: Nat, keys: Nat, wheels: Nat]
    BY Sizes DEF View!Init
  <2>2. /\ nav \in [target: View!Rows, delta: {View!None, Shift},
                    row: View!Rows, match: View!Rows, asked: View!Rows]
        /\ nav.asked = View!None
        /\ caret \in [row: View!Rows, ensure: BOOLEAN, focus: BOOLEAN]
        /\ tail \in [following: BOOLEAN, requested: BOOLEAN,
                     wasAtBottom: BOOLEAN,
                     prev: [maximum: View!Rows, offset: View!Rows],
                     rejoin: View!Rows]
    BY RowsHave DEF View!Init, View!NoJump, View!NoFrame
  <2>3. /\ view \in [top: 0..MaxLines + Shift, visible: 0..MaxLines + Shift,
                     stuck: BOOLEAN]
        /\ seen = View!Nothing /\ moved \in BOOLEAN
    <3>1. 0 \in 0..MaxLines + Shift
      BY <1>0
    <3>2. QED
      BY <3>1 DEF View!Init
  <2>4. QED
    BY <1>3, <2>1, <2>2, <2>3 DEF ViewTyped
<1>5. Locked
  BY DEF Locked, View!Init
<1>6. InPlace
  BY DEF InPlace, View!Init, View!NoJump
<1>7. QED
  BY <1>4, <1>5, <1>6 DEF ViewInv

-----------------------------------------------------------------------------
(* What the store reports.                                                 *)

(* Of a log with another row, or one more match counted, all that was read *)
(* of the former log holds.                                                *)
LEMMA LogGrows ==
  ASSUME ViewInv, LogFits(log'), log'.total \in {log.total, log.total + 1},
         log'.rebased = log.rebased, log'.query = log.query,
         log'.filter = log.filter, log'.count >= log.count,
         UNCHANGED <<budget, nav, caret, tail, view, seen, moved>>
  PROVE  ViewInv'
<1>1. PICK k : k = log'
  OBVIOUS
<1>2. /\ View!Records(log) \subseteq View!Records(k)
      /\ \A r \in View!Records(log) : View!RowOf(k, r) = View!RowOf(log, r)
  BY <1>1, RowsAppended DEF ViewInv, ViewTyped, LogFits
<1>3. /\ log.count \in Nat /\ log'.count \in Nat
      /\ nav.asked # View!None => nav.asked \in Nat
  BY Sizes DEF ViewInv, ViewTyped, LogFits, LogShaped, View!Rows, View!None
<1>4. nav.asked # View!None => log'.query /\ nav.asked < log'.count
  BY <1>3 DEF ViewInv, ViewTyped
<1>5. View!Records(log) \subseteq View!Records(log)'
      /\ \A r \in View!Records(log) : View!RowOf(log, r)' = View!RowOf(log, r)
  BY <1>1, <1>2
<1>6. ViewTyped'
  BY <1>5, <1>4 DEF ViewInv, ViewTyped
<1>7. Locked'
  BY DEF ViewInv, Locked
<1>8. InPlace'
  BY <1>5 DEF ViewInv, ViewTyped, InPlace
<1>9. QED
  BY <1>6, <1>7, <1>8 DEF ViewInv

LEMMA UpdatedKeeps == ViewInv /\ View!Updated => ViewInv'
<1> SUFFICES ASSUME ViewInv, View!Updated PROVE ViewInv'
  OBVIOUS
<1>1. /\ LogFits(log) /\ LogShaped(log)
      /\ log.total \in Nat /\ log.rebased \in BOOLEAN
  BY DEF ViewInv, ViewTyped, LogFits, LogShaped
<1>2. PICK n : n = log.total + 1
  OBVIOUS
<1>3. /\ log' = [log EXCEPT !.total = n]
      /\ log.total - View!Offset(log) < MaxLines
      /\ UNCHANGED <<budget, nav, caret, tail, view, seen, moved>>
  BY <1>2 DEF View!Updated
<1>4. PICK k : k = log'
  OBVIOUS
<1>5. /\ k.total = log.total + 1 /\ k.rebased = log.rebased
      /\ k.query = log.query /\ k.filter = log.filter /\ k.count = log.count
      /\ k \in [total: Nat, rebased: BOOLEAN, query: BOOLEAN, filter: BOOLEAN,
                count: Nat]
  BY <1>1, <1>2, <1>3, <1>4 DEF LogShaped
<1>6. LogShaped(k)
  BY <1>1, <1>5, OffsetIs, Sizes, <1>3 DEF View!Offset, LogShaped
<1>7. LogFits(k)
  BY <1>1, <1>5, <1>6, RowsAppended, CountFits DEF LogFits
<1>8. LogFits(log') /\ log'.count >= log.count
  BY <1>1, <1>4, <1>5, <1>7 DEF LogShaped
<1>9. QED
  BY <1>3, <1>4, <1>5, <1>8, LogGrows

LEMMA CountedKeeps == ViewInv /\ View!Counted => ViewInv'
<1> SUFFICES ASSUME ViewInv, View!Counted PROVE ViewInv'
  OBVIOUS
<1>1. LogFits(log) /\ LogShaped(log) /\ log.count \in Nat
  BY DEF ViewInv, ViewTyped, LogFits, LogShaped
<1>2. PICK n : n = log.count + 1
  OBVIOUS
<1>3. /\ log' = [log EXCEPT !.count = n] /\ log.query
      /\ log.count < View!Cardinality(View!Hits(log))
      /\ UNCHANGED <<budget, nav, caret, tail, view, seen, moved>>
  BY <1>2 DEF View!Counted
<1>4. PICK k : k = log'
  OBVIOUS
<1>5. /\ k.total = log.total /\ k.rebased = log.rebased
      /\ k.query = log.query /\ k.filter = log.filter /\ k.count = log.count + 1
      /\ k \in [total: Nat, rebased: BOOLEAN, query: BOOLEAN, filter: BOOLEAN,
                count: Nat]
  <2>1. n \in Nat
    BY <1>1, <1>2
  <2>2. QED
    BY <1>1, <1>2, <1>3, <1>4, <2>1 DEF LogShaped
<1>6. LogShaped(k)
  BY <1>5, <1>1 DEF View!Offset, LogShaped
<1>7. LogFits(k)
  BY <1>5, <1>1, HitsAreRecords, <1>3, ViewCounts, <1>6 DEF View!Hits,
     View!Records, LogShaped, LogFits
<1>8. LogFits(log') /\ log'.count >= log.count
  BY <1>1, <1>4, <1>5, <1>7
<1>9. QED
  BY <1>3, <1>4, <1>5, <1>8, LogGrows

(* The history goes before the rows, which keep their places by moving on. *)
LEMMA RebasedKeeps == ViewInv /\ View!Rebased => ViewInv'
<1> SUFFICES ASSUME ViewInv, View!Rebased PROVE ViewInv'
  OBVIOUS
<1>1. /\ LogFits(log) /\ LogShaped(log) /\ log.total \in Nat
      /\ log.query \in BOOLEAN /\ log.filter \in BOOLEAN
      /\ view.visible \in 0..MaxLines + Shift
      /\ MaxLines \in Nat /\ Shift \in Nat
      /\ nav.asked # View!None => log.query
  BY Sizes DEF ViewInv, ViewTyped, LogFits, LogShaped
<1>2. PICK more \in 0..1 :
        /\ log.total + more <= MaxLines
        /\ LET total == log.total + more + Shift
               row   == Shift + view.visible IN
             /\ log' = [log EXCEPT !.total = total, !.rebased = TRUE,
                          !.count = IF log.query THEN 0 ELSE log.count]
             /\ nav' = [nav EXCEPT
                  !.target = View!Least(row, View!Most(total - 1, 0)),
                  !.delta = View!Most(row - view.visible, 0),
                  !.asked = IF log.query THEN View!None ELSE nav.asked]
  BY DEF View!Rebased, View!RebaseDisplayRow
<1> DEFINE total == log.total + more + Shift
           target == View!Least(Shift + view.visible, View!Most(total - 1, 0))
           delta == View!Most((Shift + view.visible) - view.visible, 0)
           count == IF log.query THEN 0 ELSE log.count
           asked == IF log.query THEN View!None ELSE nav.asked
<1>3. /\ log' = [log EXCEPT !.total = total, !.rebased = TRUE, !.count = count]
      /\ nav' = [nav EXCEPT !.target = target, !.delta = delta, !.asked = asked]
  BY <1>2
<1>4. /\ total = log.total + more + Shift
      /\ target = View!Least(Shift + view.visible, View!Most(total - 1, 0))
      /\ delta = View!Most((Shift + view.visible) - view.visible, 0)
      /\ count = IF log.query THEN 0 ELSE log.count
      /\ asked = IF log.query THEN View!None ELSE nav.asked
  OBVIOUS
<1> HIDE DEF total, target, delta, count, asked
<1>5. /\ ~log.rebased /\ View!Offset(log) = 0
      /\ caret' = [caret EXCEPT !.row = View!None, !.ensure = FALSE]
      /\ moved' = (moved \/ View!Filtered(log))
      /\ UNCHANGED <<budget, tail, view, seen>>
  BY DEF View!Rebased, View!Offset, View!Unselected
<1>6. /\ total \in Nat /\ total <= MaxLines + Shift /\ Shift <= total
      /\ log.total + Shift <= total
      /\ target \in 0..MaxLines + Shift /\ delta = Shift
  BY <1>1, <1>2, <1>4 DEF View!Least, View!Most
<1>7. count = 0 /\ asked = View!None
  BY <1>1, <1>4 DEF LogFits
<1>8. PICK k : k = log'
  OBVIOUS
<1>9. /\ k \in [total: Nat, rebased: BOOLEAN, query: BOOLEAN, filter: BOOLEAN,
                count: Nat]
      /\ k.total = total /\ k.rebased /\ k.count = 0
      /\ k.query = log.query /\ k.filter = log.filter
  BY <1>1, <1>3, <1>7, <1>8, <1>6 DEF LogShaped
<1>10. LogShaped(k) /\ View!Offset(k) = Shift
  BY <1>9, <1>6 DEF View!Offset, LogShaped
<1>11. LogFits(k)
  BY <1>9, <1>10, HitsAreRecords, <1>6, ViewCounts DEF LogFits
<1>12. View!Records(log) \subseteq View!Records(k)
  BY <1>1, <1>5, <1>9, <1>10, RecordsAre, <1>6
<1>13. ViewTyped'
  BY <1>6, RowsHave, <1>3, <1>7, <1>5, <1>1, <1>8, <1>11, <1>12 DEF ViewInv,
     ViewTyped, View!Filtered
<1>14. Locked'
  BY <1>5 DEF ViewInv, ViewTyped, Locked
<1>15. InPlace'
  <2>1. /\ nav'.target = target /\ nav'.delta = Shift /\ log'.rebased
        /\ target # View!None /\ ~caret'.ensure
    BY <1>3, <1>5, <1>6, <1>8, <1>9, RowsHave DEF ViewInv, ViewTyped
  <2>2. ASSUME ~moved', seen # View!Nothing
        PROVE  View!RowOf(log, seen)' = view.top + Shift
    <3>1. ~moved /\ ~View!Filtered(log) /\ ~View!Filtered(k)
      BY <1>5, <1>9, <2>2 DEF View!Filtered
    <3>2. seen \in Int
      BY <1>1, <2>2, RecordsAre DEF ViewInv, ViewTyped
    <3>3. View!RowOf(log, seen) = seen /\ View!RowOf(k, seen) = seen + Shift
      BY <1>5, <1>10, <3>1, <3>2 DEF View!RowOf
    <3>4. nav.target = View!None
      BY <1>5, <3>1 DEF ViewInv, InPlace
    <3>5. View!RowOf(log, seen) = view.top
      BY <2>2, <3>1, <3>4 DEF ViewInv, InPlace
    <3>6. View!RowOf(log, seen)' = View!RowOf(k, seen)
      BY <1>5, <1>8
    <3>7. QED
      BY <3>3, <3>5, <3>6
  <2>3. QED
    BY <1>5, <2>1, <2>2 DEF InPlace
<1>16. QED
  BY <1>13, <1>14, <1>15 DEF ViewInv

LEMMA MovedInPlace == moved' = TRUE => InPlace'
BY DEF InPlace

(* Where the lock is given up, or nothing of it changes.                   *)
LEMMA StillLocked ==
  ASSUME ViewInv, view' = view,
         \/ tail' = View!Released
         \/ tail' = tail /\ (caret.ensure \/ ~caret'.ensure)
  PROVE  Locked'
<1>1. tail \in [following: BOOLEAN, requested: BOOLEAN, wasAtBottom: BOOLEAN,
                prev: [maximum: View!Rows, offset: View!Rows],
                rejoin: View!Rows]
  BY DEF ViewInv, ViewTyped
<1>2. CASE tail' = View!Released
  BY <1>1, <1>2 DEF View!Released, ViewInv, Locked
<1>3. CASE tail' = tail /\ (caret.ensure \/ ~caret'.ensure)
  BY <1>3 DEF ViewInv, Locked
<1>4. QED
  BY <1>2, <1>3

LEMMA ReleasedTyped ==
  ASSUME ViewInv
  PROVE  View!Released \in
           [following: BOOLEAN, requested: BOOLEAN, wasAtBottom: BOOLEAN,
            prev: [maximum: View!Rows, offset: View!Rows], rejoin: View!Rows]
BY RowsHave DEF ViewInv, ViewTyped, View!Released

LEMMA ResolvedKeeps == ViewInv /\ View!Resolved => ViewInv'
<1> SUFFICES ASSUME ViewInv, View!Resolved PROVE ViewInv'
  OBVIOUS
<1>1. /\ nav.asked # View!None /\ moved' = TRUE
      /\ UNCHANGED <<budget, log, caret, tail, view, seen>>
  BY DEF View!Resolved
<1>2. /\ nav \in [target: View!Rows, delta: {View!None, Shift},
                  row: View!Rows, match: View!Rows, asked: View!Rows]
      /\ LogFits(log) /\ LogShaped(log)
      /\ nav.asked \in Nat /\ nav.asked < log.count
  BY <1>1, Sizes DEF ViewInv, ViewTyped, LogFits, View!Rows, View!None
<1>3. PICK row : row = IF log.filter THEN nav.asked
                       ELSE View!LineOf(log, nav.asked)
  OBVIOUS
<1>4. row \in View!Rows
  <2>1. CASE log.filter
    BY <1>2, <1>3, <2>1
  <2>2. CASE ~log.filter
    <3>1. /\ log.count \in 0..Cardinality(View!Hits(log))
          /\ Cardinality(View!Hits(log)) \in 0..log.total
          /\ log.total \in 0..MaxLines + Shift
      BY <1>2, MatchesFit, HitsAreRecords, DisplayedIs
    <3>2. nav.asked < Cardinality(View!Hits(log))
      BY <1>2, <3>1
    <3>3. View!HitAt(log, nav.asked) \in View!Records(log)
      BY <1>2, <3>2, MatchesFit, HitsAreRecords
    <3>4. View!HitAt(log, nav.asked) + View!Offset(log) \in 0..log.total - 1
      BY <1>2, <3>3, RecordsAre
    <3>5. row = View!HitAt(log, nav.asked) + View!Offset(log)
      BY <1>3, <2>2 DEF View!LineOf
    <3>6. MaxLines \in Nat /\ Shift \in Nat
      BY Sizes
    <3>7. row \in 0..MaxLines + Shift
      BY <3>1, <3>4, <3>5, <3>6
    <3>8. QED
      BY <3>7, RowsHave
  <2>3. QED
    BY <2>1, <2>2
<1>5. \/ nav' = [nav EXCEPT !.asked = View!None]
      \/ nav' = [nav EXCEPT !.asked = View!None, !.row = row, !.target = row]
  BY <1>3 DEF View!Resolved
<1>6. /\ nav' \in [target: View!Rows, delta: {View!None, Shift},
                   row: View!Rows, match: View!Rows, asked: View!Rows]
      /\ nav'.asked = View!None
  BY <1>2, <1>4, <1>5, RowsHave
<1>7. ViewTyped'
  BY <1>1, <1>6 DEF ViewInv, ViewTyped
<1>8. Locked'
  BY <1>1, StillLocked DEF ViewInv, ViewTyped
<1>9. QED
  BY <1>1, <1>7, <1>8, MovedInPlace DEF ViewInv

-----------------------------------------------------------------------------
(* What the user does.                                                     *)

LEMMA Remainder ==
  ASSUME NEW a \in Nat, NEW b \in Nat, b > 0
  PROVE  a % b \in 0..b - 1
OBVIOUS

LEMMA NextLineKeeps ==
  ASSUME ViewInv, NEW forward \in BOOLEAN, View!NextLine(forward)
  PROVE  ViewInv'
<1>1. PICK count, row :
        /\ count = View!Displayed(log)
        /\ row = IF nav.row = View!None
                 THEN (IF forward THEN 0 ELSE count - 1)
                 ELSE (nav.row + (IF forward THEN 1 ELSE count - 1)) % count
  BY Zenon
<1>2. /\ count > 0 /\ View!Spend("clicks")
      /\ nav' = [nav EXCEPT !.row = row, !.target = row]
      /\ tail' = View!Released /\ moved' = TRUE
      /\ UNCHANGED <<log, caret, view, seen>>
  BY <1>1, Zenon DEF View!NextLine
<1>3. /\ nav \in [target: View!Rows, delta: {View!None, Shift},
                  row: View!Rows, match: View!Rows, asked: View!Rows]
      /\ LogFits(log) /\ MaxLines \in Nat /\ Shift \in Nat
  BY Sizes DEF ViewInv, ViewTyped
<1>4. count \in 0..MaxLines + Shift
  BY <1>3, DisplayedIs, <1>1
<1>5. row \in View!Rows
  <2>1. CASE nav.row = View!None
    BY <1>1, <1>2, <1>3, <1>4, <2>1, RowsHave
  <2>2. CASE nav.row # View!None
    <3>1. PICK far : far = nav.row + (IF forward THEN 1 ELSE count - 1)
      OBVIOUS
    <3>2. nav.row \in Nat
      BY <1>3, <2>2 DEF View!Rows, View!None
    <3>3. far \in Nat /\ count \in Nat
      BY <1>2, <1>4, <3>1, <3>2
    <3>4. row = far % count
      BY <1>1, <2>2, <3>1
    <3>5. row \in 0..count - 1
      BY <1>2, <3>3, <3>4, Remainder
    <3>6. row \in 0..MaxLines + Shift
      BY <1>3, <1>4, <3>5
    <3>7. QED
      BY <3>6, RowsHave
  <2>3. QED
    BY <2>1, <2>2
<1>6. /\ nav' \in [target: View!Rows, delta: {View!None, Shift},
                   row: View!Rows, match: View!Rows, asked: View!Rows]
      /\ nav'.asked = nav.asked
  BY <1>2, <1>3, <1>5
<1>7. budget' \in [clicks: Nat, keys: Nat, wheels: Nat]
  BY <1>2, SpendTyped DEF ViewInv, ViewTyped
<1>8. ViewTyped'
  BY <1>2, <1>6, <1>7, ReleasedTyped DEF ViewInv, ViewTyped
<1>9. QED
  BY <1>2, <1>8, StillLocked, MovedInPlace DEF ViewInv

LEMMA NextMatchKeeps ==
  ASSUME ViewInv, NEW forward \in BOOLEAN, View!NextMatch(forward)
  PROVE  ViewInv'
<1>1. PICK from, match :
        /\ from = IF nav.match # View!None THEN nav.match
                  ELSE IF forward THEN log.count - 1 ELSE 0
        /\ match = (from + (IF forward THEN 1 ELSE log.count - 1)) % log.count
  BY Zenon
<1>2. /\ log.count > 0 /\ View!Spend("clicks")
      /\ nav' = [nav EXCEPT !.match = match, !.asked = match]
      /\ tail' = View!Released /\ moved' = TRUE
      /\ UNCHANGED <<log, caret, view, seen>>
  BY <1>1, Zenon DEF View!NextMatch
<1>3. /\ nav \in [target: View!Rows, delta: {View!None, Shift},
                  row: View!Rows, match: View!Rows, asked: View!Rows]
      /\ LogFits(log) /\ LogShaped(log) /\ MaxLines \in Nat /\ Shift \in Nat
      /\ log.count \in Nat
  BY Sizes DEF ViewInv, ViewTyped, LogFits, LogShaped
<1>4. from \in Nat
  BY <1>1, <1>2, <1>3 DEF View!Rows, View!None
<1>5. match \in 0..log.count - 1
  <2>1. PICK far : far = from + (IF forward THEN 1 ELSE log.count - 1)
    OBVIOUS
  <2>2. far \in Nat /\ match = far % log.count
    BY <1>1, <1>2, <1>3, <1>4, <2>1
  <2>3. QED
    BY <1>2, <1>3, <2>2, Remainder
<1>6. match \in 0..MaxLines + Shift
  BY <1>3, MatchesFit, HitsAreRecords, DisplayedIs, <1>5
<1>7. /\ nav' \in [target: View!Rows, delta: {View!None, Shift},
                   row: View!Rows, match: View!Rows, asked: View!Rows]
      /\ nav'.asked = match
  BY <1>2, <1>3, <1>6, RowsHave
<1>8. log.query /\ match < log.count
  BY <1>2, <1>3, <1>5 DEF LogFits
<1>9. budget' \in [clicks: Nat, keys: Nat, wheels: Nat]
  BY <1>2, SpendTyped DEF ViewInv, ViewTyped
<1>10. ViewTyped'
  BY <1>2, <1>7, <1>8, <1>9, ReleasedTyped DEF ViewInv, ViewTyped
<1>11. QED
  BY <1>2, <1>10, StillLocked, MovedInPlace DEF ViewInv

LEMMA ToggleFilterKeeps == ViewInv /\ View!ToggleFilter => ViewInv'
<1> SUFFICES ASSUME ViewInv, View!ToggleFilter PROVE ViewInv'
  OBVIOUS
<1>1. /\ View!Spend("clicks") /\ moved' = TRUE
      /\ nav' = [nav EXCEPT !.row = View!None, !.target = View!None]
      /\ caret' = [caret EXCEPT !.row = View!None, !.ensure = FALSE]
      /\ UNCHANGED <<tail, view, seen>>
  BY DEF View!ToggleFilter, View!Unselected
<1>2. PICK filter, k : /\ filter = ~log.filter
                       /\ k = [log EXCEPT !.filter = filter]
  OBVIOUS
<1>3. log' = k
  BY <1>2 DEF View!ToggleFilter
<1>4. LogFits(log) /\ LogShaped(log)
  BY DEF ViewInv, ViewTyped, LogFits
<1>5. /\ k \in [total: Nat, rebased: BOOLEAN, query: BOOLEAN, filter: BOOLEAN,
                count: Nat]
      /\ k.total = log.total /\ k.rebased = log.rebased /\ k.query = log.query
      /\ k.count = log.count
  BY <1>2, <1>4 DEF LogShaped
<1>6. View!Records(k) = View!Records(log) /\ View!Hits(k) = View!Hits(log)
      /\ View!Offset(k) = View!Offset(log)
  BY <1>5 DEF View!Records, View!Hits, View!Offset
<1>7. LogFits(k)
  BY <1>4, <1>5, <1>6 DEF LogFits, LogShaped
<1>8. /\ LogFits(log)' /\ View!Records(log)' = View!Records(log)
      /\ log'.query = log.query /\ log'.count = log.count
  BY <1>3, <1>5, <1>6, <1>7
<1>9. budget' \in [clicks: Nat, keys: Nat, wheels: Nat]
  BY <1>1, SpendTyped DEF ViewInv, ViewTyped
<1>10. ViewTyped'
  BY <1>1, <1>8, <1>9, RowsHave DEF ViewInv, ViewTyped
<1>11. ~caret'.ensure
  BY <1>1 DEF ViewInv, ViewTyped
<1>12. QED
  BY <1>1, <1>10, <1>11, StillLocked, MovedInPlace DEF ViewInv

LEMMA EditQueryKeeps == ViewInv /\ View!EditQuery => ViewInv'
<1> SUFFICES ASSUME ViewInv, View!EditQuery PROVE ViewInv'
  OBVIOUS
<1>1. /\ View!Spend("clicks") /\ moved' = TRUE
      /\ nav' = [nav EXCEPT !.row = View!None, !.match = View!None,
                            !.target = View!None, !.asked = View!None]
      /\ caret' = [caret EXCEPT !.row = View!None, !.ensure = FALSE]
      /\ UNCHANGED <<tail, view, seen>>
  BY DEF View!EditQuery, View!Unselected
<1>2. PICK query \in BOOLEAN : log' = [log EXCEPT !.query = query, !.count = 0]
  BY DEF View!EditQuery
<1>3. PICK k : k = log'
  OBVIOUS
<1>4. LogFits(log) /\ LogShaped(log)
  BY DEF ViewInv, ViewTyped, LogFits
<1>5. /\ k \in [total: Nat, rebased: BOOLEAN, query: BOOLEAN, filter: BOOLEAN,
                count: Nat]
      /\ k.total = log.total /\ k.rebased = log.rebased /\ k.count = 0
  BY <1>2, <1>3, <1>4 DEF LogShaped
<1>6. View!Records(k) = View!Records(log) /\ View!Offset(k) = View!Offset(log)
  BY <1>5 DEF View!Records, View!Offset
<1>7. LogShaped(k)
  BY <1>4, <1>5, <1>6 DEF LogShaped
<1>8. LogFits(k)
  BY <1>5, <1>7, HitsAreRecords, ViewCounts DEF LogFits
<1>9. LogFits(log)' /\ View!Records(log)' = View!Records(log)
  BY <1>3, <1>6, <1>8
<1>10. budget' \in [clicks: Nat, keys: Nat, wheels: Nat]
  BY <1>1, SpendTyped DEF ViewInv, ViewTyped
<1>11. ViewTyped'
  BY <1>1, <1>9, <1>10, RowsHave DEF ViewInv, ViewTyped
<1>12. ~caret'.ensure
  BY <1>1 DEF ViewInv, ViewTyped
<1>13. QED
  BY <1>1, <1>11, <1>12, StillLocked, MovedInPlace DEF ViewInv

LEMMA ToggleTailKeeps == ViewInv /\ View!ToggleTail => ViewInv'
<1> SUFFICES ASSUME ViewInv, View!ToggleTail PROVE ViewInv'
  OBVIOUS
<1>1. /\ View!Spend("clicks") /\ moved' = TRUE
      /\ UNCHANGED <<log, caret, view, seen>>
  BY DEF View!ToggleTail
<1>2. /\ tail \in [following: BOOLEAN, requested: BOOLEAN,
                   wasAtBottom: BOOLEAN,
                   prev: [maximum: View!Rows, offset: View!Rows],
                   rejoin: View!Rows]
      /\ nav \in [target: View!Rows, delta: {View!None, Shift},
                  row: View!Rows, match: View!Rows, asked: View!Rows]
  BY DEF ViewInv, ViewTyped
<1>3. PICK locks, rejoin : /\ locks = ~tail.following
                           /\ rejoin = IF tail.following THEN tail.rejoin
                                       ELSE View!None
  OBVIOUS
<1>4. tail' = [tail EXCEPT !.following = locks, !.requested = locks,
                           !.rejoin = rejoin]
  BY <1>2, <1>3 DEF View!ToggleTail
<1>5. /\ tail' \in [following: BOOLEAN, requested: BOOLEAN,
                    wasAtBottom: BOOLEAN,
                    prev: [maximum: View!Rows, offset: View!Rows],
                    rejoin: View!Rows]
      /\ tail'.following = tail'.requested /\ tail'.prev = tail.prev
  BY <1>2, <1>3, RowsHave, <1>4
<1>6. /\ nav' \in [target: View!Rows, delta: {View!None, Shift},
                   row: View!Rows, match: View!Rows, asked: View!Rows]
      /\ nav'.asked = nav.asked
  BY <1>2, RowsHave DEF View!ToggleTail
<1>7. budget' \in [clicks: Nat, keys: Nat, wheels: Nat]
  BY <1>1, SpendTyped DEF ViewInv, ViewTyped
<1>8. ViewTyped'
  BY <1>1, <1>5, <1>6, <1>7 DEF ViewInv, ViewTyped
<1>9. Locked'
  BY <1>1, <1>5 DEF ViewInv, Locked
<1>10. QED
  BY <1>1, <1>8, <1>9, MovedInPlace DEF ViewInv

LEMMA ClickRowKeeps ==
  ASSUME ViewInv, NEW row \in View!Rows, View!ClickRow(row)
  PROVE  ViewInv'
<1>1. /\ View!Spend("keys") /\ tail' = View!Released
      /\ caret' = [row |-> row, ensure |-> FALSE, focus |-> TRUE]
      /\ UNCHANGED <<log, nav, view, seen, moved>>
  BY DEF View!ClickRow
<1>2. budget' \in [clicks: Nat, keys: Nat, wheels: Nat]
  BY <1>1, SpendTyped DEF ViewInv, ViewTyped
<1>3. ViewTyped'
  BY <1>1, <1>2, ReleasedTyped DEF ViewInv, ViewTyped
<1>4. InPlace'
  BY <1>1 DEF ViewInv, InPlace
<1>5. QED
  BY <1>1, <1>3, <1>4, StillLocked DEF ViewInv

LEMMA MoveCaretKeeps ==
  ASSUME ViewInv, NEW row \in View!Rows, View!MoveCaret(row)
  PROVE  ViewInv'
<1>1. /\ View!Spend("keys") /\ tail' = View!Released /\ moved' = TRUE
      /\ caret' = [row |-> row, ensure |-> TRUE, focus |-> TRUE]
      /\ UNCHANGED <<log, nav, view, seen>>
  BY DEF View!MoveCaret
<1>2. budget' \in [clicks: Nat, keys: Nat, wheels: Nat]
  BY <1>1, SpendTyped DEF ViewInv, ViewTyped
<1>3. ViewTyped'
  BY <1>1, <1>2, ReleasedTyped DEF ViewInv, ViewTyped
<1>4. QED
  BY <1>1, <1>3, StillLocked, MovedInPlace DEF ViewInv

LEMMA LoseFocusKeeps == ViewInv /\ View!LoseFocus => ViewInv'
<1> SUFFICES ASSUME ViewInv, View!LoseFocus PROVE ViewInv'
  OBVIOUS
<1>1. /\ View!Spend("keys") /\ caret' = [caret EXCEPT !.focus = FALSE]
      /\ UNCHANGED <<log, nav, tail, view, seen, moved>>
  BY DEF View!LoseFocus
<1>2. /\ caret' \in [row: View!Rows, ensure: BOOLEAN, focus: BOOLEAN]
      /\ caret'.ensure = caret.ensure
  BY <1>1 DEF ViewInv, ViewTyped
<1>3. budget' \in [clicks: Nat, keys: Nat, wheels: Nat]
  BY <1>1, SpendTyped DEF ViewInv, ViewTyped
<1>4. ViewTyped'
  BY <1>1, <1>2, <1>3 DEF ViewInv, ViewTyped
<1>5. InPlace'
  BY <1>1, <1>2 DEF ViewInv, InPlace
<1>6. Locked'
  BY <1>1, <1>2 DEF ViewInv, Locked
<1>7. QED
  BY <1>4, <1>5, <1>6 DEF ViewInv

-----------------------------------------------------------------------------
(* A frame.                                                                *)

LEMMA RequestedIs ==
  ASSUME ViewInv
  PROVE  View!Requested \in Int
<1>1. /\ nav.target \in Int /\ nav.delta \in Int /\ caret.row \in Int
      /\ view.top \in Int /\ Height \in Int
  BY Sizes DEF ViewInv, ViewTyped, View!Rows, View!None
<1>2. View!Displayed(log) \in Int
  BY DisplayedIs DEF ViewInv, ViewTyped
<1>3. View!CaretOffset \in Int
  BY <1>1 DEF View!CaretOffset
<1>4. View!Most(View!Displayed(log) - 1, 0) \in Int
  BY <1>2 DEF View!Most
<1>5. View!None \in Int /\ view.top + nav.delta \in Int
  BY <1>1 DEF View!None
<1>6. QED
  BY <1>1, <1>3, <1>4, <1>5, Zenon DEF View!Requested

LEMMA ScrolledIs ==
  ASSUME ViewInv, NEW wheel \in Int
  PROVE  /\ View!Bottom(log) \in 0..MaxLines + Shift
         /\ View!Scrolled(wheel) \in 0..View!Bottom(log)
<1>1. View!Bottom(log) \in 0..log.total /\ log.total \in 0..MaxLines + Shift
  BY DisplayedIs DEF ViewInv, ViewTyped
<1>2. View!Requested \in Int /\ view.top \in Int
  BY RequestedIs DEF ViewInv, ViewTyped
<1>3. PICK base : base = IF View!Requested = View!None THEN view.top
                         ELSE View!Requested
  OBVIOUS
<1>4. base \in Int
  BY <1>2, <1>3
<1>5. \/ View!Scrolled(wheel) = View!Bottom(log)
      \/ View!Scrolled(wheel) =
           View!Most(0, View!Least(View!Bottom(log), wheel + base))
  BY <1>3 DEF View!Scrolled
<1>6. View!Bottom(log) \in Nat /\ View!Bottom(log) \in 0..MaxLines + Shift
  BY <1>1, Sizes
<1>7. View!Most(0, View!Least(View!Bottom(log), wheel + base))
        \in 0..View!Bottom(log)
  BY <1>4, <1>6 DEF View!Most, View!Least
<1>8. QED
  BY <1>5, <1>6, <1>7

(* observe_scroll: the lock ends where the view is not at the bottom, and  *)
(* nobody asked for that; it begins where the view goes down.              *)
LEMMA ObservedIs ==
  ASSUME NEW t \in [following: BOOLEAN, requested: BOOLEAN,
                    wasAtBottom: BOOLEAN,
                    prev: [maximum: View!Rows, offset: View!Rows],
                    rejoin: View!Rows],
         t.requested => t.following,
         NEW maximum \in View!Rows, NEW offset \in View!Rows,
         NEW attach \in BOOLEAN
  PROVE  LET o == View!Observed(t, maximum, offset, attach)
         IN  /\ o \in [following: BOOLEAN, requested: BOOLEAN,
                       wasAtBottom: BOOLEAN,
                       prev: [maximum: View!Rows, offset: View!Rows],
                       rejoin: View!Rows]
             /\ o.prev.offset = offset
             /\ o.requested => o.following
             /\ o.following /\ ~o.requested => offset >= maximum
             /\ t.following /\ (t.requested \/ offset >= maximum) =>
                  o.following
             /\ ~t.following /\ ~(/\ attach /\ t.prev # View!NoFrame
                                  /\ offset > t.prev.offset) =>
                  ~o.following
<1> DEFINE atBottom == offset >= maximum
           down     == attach /\ t.prev # View!NoFrame /\ offset > t.prev.offset
           detaches == t.following /\ ~atBottom /\ ~t.requested
           rejoin   == IF ~attach THEN View!None
                       ELSE IF /\ ~t.following \/ detaches
                               /\ t.prev # View!NoFrame /\ maximum > t.prev.maximum
                               /\ t.rejoin = View!None
                       THEN t.prev.maximum ELSE t.rejoin
           reached  == rejoin # View!None /\ offset >= rejoin
           kept     == [t EXCEPT !.following = t.following /\ ~detaches,
                                 !.rejoin = rejoin]
           joins    == down /\ (reached \/ (atBottom /\ ~t.wasAtBottom))
           joined   == IF joins THEN View!Joined(kept, atBottom) ELSE kept
           prev     == [maximum |-> maximum, offset |-> offset]
           o        == View!Observed(t, maximum, offset, attach)
<1>1. o = [joined EXCEPT !.requested = joined.requested /\ ~atBottom,
                         !.wasAtBottom = atBottom, !.prev = prev]
  BY DEF View!Observed
<1>2. /\ atBottom \in BOOLEAN /\ down \in BOOLEAN /\ detaches \in BOOLEAN
      /\ joins \in BOOLEAN /\ (joins => down)
      /\ detaches = (t.following /\ ~atBottom /\ ~t.requested)
      /\ atBottom = (offset >= maximum)
      /\ down = (attach /\ t.prev # View!NoFrame /\ offset > t.prev.offset)
  OBVIOUS
<1>3. rejoin \in View!Rows /\ prev \in [maximum: View!Rows, offset: View!Rows]
      /\ prev.offset = offset
  BY RowsHave
<1>4. joined = IF joins THEN View!Joined(kept, atBottom) ELSE kept
  OBVIOUS
<1>5. PICK f : f = (t.following /\ ~detaches)
  OBVIOUS
<1>6. kept = [t EXCEPT !.following = f, !.rejoin = rejoin] /\ f \in BOOLEAN
  BY <1>2, <1>5
<1> HIDE DEF atBottom, down, detaches, rejoin, joins, kept, joined, prev, o
<1>7. CASE joins
  <2>1. PICK r : r = ~atBottom
    OBVIOUS
  <2>2. joined = [kept EXCEPT !.following = TRUE, !.requested = r,
                              !.rejoin = View!None]
    BY <1>4, <1>7, <2>1 DEF View!Joined
  <2>3. /\ joined \in [following: BOOLEAN, requested: BOOLEAN,
                       wasAtBottom: BOOLEAN,
                       prev: [maximum: View!Rows, offset: View!Rows],
                       rejoin: View!Rows]
        /\ joined.following /\ joined.requested = r
    BY <1>3, <1>6, <2>1, <2>2, <1>2, RowsHave
  <2>4. PICK q : q = (joined.requested /\ ~atBottom)
    OBVIOUS
  <2>5. o = [joined EXCEPT !.requested = q, !.wasAtBottom = atBottom,
                           !.prev = prev]
    BY <1>1, <2>4
  <2>6. q \in BOOLEAN
    BY <1>2, <2>3, <2>4
  <2>7. /\ o \in [following: BOOLEAN, requested: BOOLEAN,
                  wasAtBottom: BOOLEAN,
                  prev: [maximum: View!Rows, offset: View!Rows],
                  rejoin: View!Rows]
        /\ o.following /\ o.requested = q /\ o.prev = prev
    BY <1>2, <1>3, <2>3, <2>5, <2>6
  <2>8. QED
    BY <1>2, <1>3, <1>7, <2>1, <2>3, <2>4, <2>7 DEF o
<1>8. CASE ~joins
  <2>1. joined = [t EXCEPT !.following = f, !.rejoin = rejoin]
    BY <1>4, <1>6, <1>8
  <2>2. /\ joined \in [following: BOOLEAN, requested: BOOLEAN,
                       wasAtBottom: BOOLEAN,
                       prev: [maximum: View!Rows, offset: View!Rows],
                       rejoin: View!Rows]
        /\ joined.following = f /\ joined.requested = t.requested
    BY <1>3, <1>6, <2>1
  <2>3. PICK q : q = (joined.requested /\ ~atBottom)
    OBVIOUS
  <2>4. o = [joined EXCEPT !.requested = q, !.wasAtBottom = atBottom,
                           !.prev = prev]
    BY <1>1, <2>3
  <2>5. q \in BOOLEAN
    BY <1>2, <2>2, <2>3
  <2>6. /\ o \in [following: BOOLEAN, requested: BOOLEAN,
                  wasAtBottom: BOOLEAN,
                  prev: [maximum: View!Rows, offset: View!Rows],
                  rejoin: View!Rows]
        /\ o.following = f /\ o.requested = q /\ o.prev = prev
    BY <1>2, <1>3, <2>2, <2>4, <2>5
  <2>7. QED
    BY <1>2, <1>3, <1>5, <1>6, <1>8, <2>2, <2>3, <2>6 DEF o
<1>9. QED
  BY <1>7, <1>8

LEMMA FrameKeeps ==
  ASSUME ViewInv, NEW wheel \in Int, View!Frame(wheel)
  PROVE  ViewInv'
<1> DEFINE top == View!Scrolled(wheel)
           bottom == View!Bottom(log)
<1>1. /\ view' = [top |-> top, visible |-> view.top, stuck |-> top = bottom]
      /\ tail' = View!Observed(tail, bottom, top, View!Requested = View!None)
      /\ seen' = View!RecordAt(log, top)
      /\ moved' = (nav'.target # View!None \/ wheel \notin (1 - Height)..(Height - 1))
      /\ caret' = [caret EXCEPT !.ensure = FALSE] /\ log' = log
      /\ budget' = budget \/ View!Spend("wheels")
  BY DEF View!Frame
<1>2. PICK target, delta :
        /\ target = IF nav.target # View!None /\ View!IsVisible(nav.target, top)
                    THEN View!None ELSE nav.target
        /\ delta = IF nav.target = View!None THEN nav.delta ELSE View!None
  BY Zenon
<1>3. nav' = [nav EXCEPT !.target = target, !.delta = delta]
  BY <1>2 DEF View!Frame
<1>4. /\ bottom \in 0..MaxLines + Shift /\ top \in 0..bottom
      /\ MaxLines \in Nat /\ Shift \in Nat
  BY ScrolledIs, Sizes
<1>5. /\ top \in 0..MaxLines + Shift /\ top \in Nat
      /\ top \in View!Rows /\ bottom \in View!Rows
  BY <1>4, RowsHave
<1> HIDE DEF top, bottom
<1>6. LogFits(log) /\ LogFits(log)'
  BY <1>1 DEF ViewInv, ViewTyped
<1>7. /\ seen' \in View!Records(log) \cup {View!Nothing}
      /\ seen' # View!Nothing => View!RowOf(log, seen') = top
  BY <1>1, <1>5, <1>6, RowOfRecord
<1>8. /\ nav' \in [target: View!Rows, delta: {View!None, Shift},
                   row: View!Rows, match: View!Rows, asked: View!Rows]
      /\ nav'.asked = nav.asked
  BY <1>2, RowsHave, <1>3 DEF ViewInv, ViewTyped
<1>9. /\ caret' \in [row: View!Rows, ensure: BOOLEAN, focus: BOOLEAN]
      /\ ~caret'.ensure
  BY <1>1 DEF ViewInv, ViewTyped
<1>10. /\ view' \in [top: 0..MaxLines + Shift, visible: 0..MaxLines + Shift,
                     stuck: BOOLEAN]
       /\ view'.top = top /\ (view'.stuck <=> top = bottom)
  BY <1>1, <1>5 DEF ViewInv, ViewTyped
<1>11. budget' \in [clicks: Nat, keys: Nat, wheels: Nat]
  BY <1>1, SpendTyped DEF ViewInv, ViewTyped
<1>12. PICK attach \in BOOLEAN : attach = (View!Requested = View!None)
  OBVIOUS
<1>13. tail' = View!Observed(tail, bottom, top, attach)
  BY <1>1, <1>12
<1>14. /\ tail' \in [following: BOOLEAN, requested: BOOLEAN,
                     wasAtBottom: BOOLEAN,
                     prev: [maximum: View!Rows, offset: View!Rows],
                     rejoin: View!Rows]
       /\ tail'.prev.offset = top
       /\ tail'.requested => tail'.following
       /\ tail'.following /\ ~tail'.requested => top >= bottom
  <2>1. /\ tail \in [following: BOOLEAN, requested: BOOLEAN,
                     wasAtBottom: BOOLEAN,
                     prev: [maximum: View!Rows, offset: View!Rows],
                     rejoin: View!Rows]
        /\ tail.requested => tail.following
    BY DEF ViewInv, ViewTyped, Locked
  <2>2. QED
    BY ONLY <1>5, <1>13, <2>1, ObservedIs
<1>15. ViewTyped'
  BY <1>1, <1>7, <1>8, <1>6, <1>9, <1>10, <1>11, <1>14 DEF ViewInv, ViewTyped
<1>16. Locked'
  BY <1>4, <1>9, <1>10, <1>14 DEF Locked
<1>17. InPlace'
  BY <1>1, <1>7, <1>10, <1>9 DEF InPlace
<1>18. QED
  BY <1>15, <1>16, <1>17 DEF ViewInv

LEMMA ViewInvNext == ViewInv /\ [View!Next]_View!vars => ViewInv'
<1> SUFFICES ASSUME ViewInv, [View!Next]_View!vars PROVE ViewInv'
  OBVIOUS
<1>1. CASE UNCHANGED View!vars
  BY <1>1 DEF View!vars, ViewInv, ViewTyped, Locked, InPlace
<1>2. CASE View!Answer
  BY <1>2, UpdatedKeeps, CountedKeeps, RebasedKeeps, ResolvedKeeps
     DEF View!Answer
<1>3. CASE View!Frame(0)
  BY <1>3, FrameKeeps
<1>4. CASE View!Click
  <2>1. CASE \E forward \in BOOLEAN :
               View!NextLine(forward) \/ View!NextMatch(forward)
    BY <2>1, NextLineKeeps, NextMatchKeeps
  <2>2. CASE View!ToggleFilter \/ View!EditQuery \/ View!ToggleTail
             \/ View!LoseFocus
    BY <2>2, ToggleFilterKeeps, EditQueryKeeps, ToggleTailKeeps, LoseFocusKeeps
  <2>3. CASE \E row \in View!Rows : View!ClickRow(row) \/ View!MoveCaret(row)
    BY <2>3, ClickRowKeeps, MoveCaretKeeps
  <2>4. CASE \E wheel \in View!Wheels : View!Frame(wheel)
    BY Sizes, <2>4, FrameKeeps DEF View!Wheels
  <2>5. QED
    BY <1>4, <2>1, <2>2, <2>3, <2>4 DEF View!Click
<1>5. QED
  BY <1>1, <1>2, <1>3, <1>4 DEF View!Next

LEMMA ViewInvGives == ViewInv => View!TypeOK
<1> SUFFICES ASSUME ViewInv PROVE View!TypeOK
  OBVIOUS
<1>1. /\ MaxLines \in Nat /\ Shift \in Nat
      /\ \A n \in 0..MaxLines + Shift : n \in View!Rows /\ n # View!None
      /\ View!None \in View!Rows /\ Shift \in View!Rows
  BY Sizes, RowsHave
<1>2. /\ log \in [total: View!Rows, rebased: BOOLEAN, query: BOOLEAN,
                  filter: BOOLEAN, count: View!Rows]
      /\ log.count <= View!Cardinality(View!Hits(log)) /\ log.total # View!None
  BY MatchesFit, HitsAreRecords, DisplayedIs, <1>1 DEF ViewInv, ViewTyped,
     LogFits, LogShaped
<1>3. /\ nav \in [target: View!Rows, delta: View!Rows, row: View!Rows,
                  match: View!Rows, asked: View!Rows]
      /\ view \in [top: View!Rows, visible: View!Rows, stuck: BOOLEAN]
  BY <1>1 DEF ViewInv, ViewTyped
<1>4. seen \in View!Nothing..MaxLines
  BY RecordsAre, <1>1 DEF ViewInv, ViewTyped, LogFits, View!Nothing
<1>5. QED
  BY <1>2, <1>3, <1>4 DEF ViewInv, ViewTyped, View!TypeOK

LEMMA ViewInvAlways == View!Spec => []ViewInv
<1>1. QED
  BY ViewInitial, ViewInvNext, PTL DEF View!Spec

(* A frame without the user begins where the record is that the last one   *)
(* had at its top.                                                         *)
LEMMA FrameInPlace ==
  ASSUME ViewInv, View!Frame(0), ~tail.following, ~moved, seen # View!Nothing
  PROVE  view'.top = View!Least(View!RowOf(log, seen), View!Bottom(log))
<1>1. view'.top = View!Scrolled(0)
  BY DEF View!Frame
<1>2. ~tail.requested /\ ~caret.ensure
  BY DEF ViewInv, Locked, InPlace
<1>3. /\ view.top \in Nat /\ Shift \in Nat /\ view.top + Shift \in Nat
      /\ view.top + Shift # View!None
  BY Sizes DEF ViewInv, ViewTyped, View!None
<1>4. View!Bottom(log) \in Nat
  BY ScrolledIs, Sizes
<1>5. PICK base : base = IF View!Requested = View!None THEN view.top
                         ELSE View!Requested
  OBVIOUS
<1>6. base = View!RowOf(log, seen) /\ base \in Nat
  <2>1. CASE nav.target = View!None
    BY <1>2, <2>1, <1>3, <1>5 DEF View!Requested, ViewInv, InPlace
  <2>2. CASE nav.target # View!None
    BY <2>2, RowsHave, <1>3, <1>5 DEF ViewInv, InPlace, View!Requested
  <2>3. QED
    BY <2>1, <2>2
<1>7. View!Scrolled(0) = View!Most(0, View!Least(View!Bottom(log), 0 + base))
  BY <1>5 DEF View!Scrolled
<1>8. QED
  BY <1>1, <1>4, <1>6, <1>7 DEF View!Most, View!Least

(* Neither does it change the lock.                                        *)
LEMMA FrameFollows ==
  ASSUME ViewInv, View!Frame(0), nav.target = View!None, ~caret.focus
  PROVE  tail'.following = tail.following
<1> DEFINE top == View!Scrolled(0)
           bottom == View!Bottom(log)
<1>1. tail' = View!Observed(tail, bottom, top, View!Requested = View!None)
  BY DEF View!Frame
<1>2. /\ bottom \in 0..MaxLines + Shift /\ top \in 0..bottom
      /\ MaxLines \in Nat /\ Shift \in Nat
  BY ScrolledIs, Sizes
<1>3. /\ top \in Nat /\ bottom \in Nat
      /\ top \in View!Rows /\ bottom \in View!Rows
  BY <1>2, RowsHave
<1>4. PICK attach \in BOOLEAN : attach = (View!Requested = View!None)
  OBVIOUS
<1>5. /\ tail \in [following: BOOLEAN, requested: BOOLEAN,
                   wasAtBottom: BOOLEAN,
                   prev: [maximum: View!Rows, offset: View!Rows],
                   rejoin: View!Rows]
      /\ tail.requested => tail.following
      /\ tail.prev # View!NoFrame => tail.prev.offset = view.top
      /\ view.top \in Nat
  BY Sizes DEF ViewInv, ViewTyped, Locked
<1>6. tail.following /\ ~tail.requested => top = bottom
  <2> SUFFICES ASSUME tail.following, ~tail.requested PROVE top = bottom
    OBVIOUS
  <2>1. view.stuck /\ ~caret.ensure
    BY DEF ViewInv, Locked
  <2>2. View!Requested = View!None
    BY <2>1 DEF View!Requested
  <2>3. QED
    BY <2>1, <2>2 DEF View!Scrolled
<1>7. ~tail.following /\ attach => top <= view.top
  <2> SUFFICES ASSUME ~tail.following, attach PROVE top <= view.top
    OBVIOUS
  <2>1. top = View!Most(0, View!Least(bottom, 0 + view.top))
    BY <1>4 DEF View!Scrolled
  <2> HIDE DEF top, bottom
  <2>2. QED
    BY <1>3, <1>5, <2>1 DEF View!Most, View!Least
<1> HIDE DEF top, bottom
<1>8. PICK o : o = View!Observed(tail, bottom, top, attach)
  OBVIOUS
<1>9. /\ o.following \in BOOLEAN
      /\ tail.following /\ (tail.requested \/ top >= bottom) => o.following
      /\ ~tail.following /\ ~(/\ attach /\ tail.prev # View!NoFrame
                              /\ top > tail.prev.offset) =>
           ~o.following
  BY ONLY <1>3, <1>5, <1>8, ObservedIs
<1>10. tail'.following = o.following
  BY <1>1, <1>4, <1>8
<1>11. CASE tail.following
  <2>1. tail.requested \/ top >= bottom
    BY <1>3, <1>6, <1>11
  <2>2. o.following = TRUE /\ tail.following = TRUE
    BY ONLY <1>5, <1>9, <1>11, <2>1
  <2>3. QED
    BY <1>10, <2>2
<1>12. CASE ~tail.following
  BY <1>3, <1>5, <1>7, <1>12, <1>9, <1>10
<1>13. QED
  BY <1>11, <1>12

-----------------------------------------------------------------------------
(* The logs of a window: store and viewport behave as they do alone.       *)

LEMMA LogsParts == LogsSpec => Spec /\ View!Spec
<1>1. LogsInit => Init /\ View!Init
  BY DEF LogsInit
<1>2. [LogsNext]_logsVars => [Next]_vars /\ [View!Next]_View!vars
  <2> SUFFICES ASSUME [LogsNext]_logsVars
               PROVE  [Next]_vars /\ [View!Next]_View!vars
    OBVIOUS
  <2>1. CASE UNCHANGED logsVars
    BY <2>1 DEF logsVars, viewVars, vars, View!vars
  <2>2. CASE StoreNext
    BY <2>2 DEF StoreNext, OfStore, viewVars, View!vars
  <2>3. CASE ViewNext
    BY <2>3 DEF ViewNext, OfView
  <2>4. QED
    BY <2>1, <2>2, <2>3 DEF LogsNext
<1>3. QED
  BY <1>1, <1>2, PTL DEF LogsSpec, Spec, View!Spec

(* Commands, rows, searches, pages and results are well formed, and so are *)
(* the rows, the selection and the lock of the viewport, for logs and      *)
(* views of every size.                                                    *)
THEOREM LogsTyped == LogsSpec => []TypesOK
<1>1. View!Spec => []View!TypeOK
  BY ViewInvAlways, ViewInvGives, PTL
<1>2. QED
  BY <1>1, LogsParts, StoreTyped, PTL DEF TypesOK

(* Rows that are read keep still: the record at the top of a view that is  *)
(* not locked to the bottom stays there while rows arrive and the history  *)
(* is put before them (ui/log_windows/viewer.rs).                          *)
THEOREM RowsStayInPlace == LogsSpec => StaysInPlace
<1>1. ViewInv /\ [View!Next]_View!vars =>
        [View!Frame(0) /\ ~tail.following /\ ~moved /\ seen # View!Nothing =>
           view'.top = View!Least(View!RowOf(log, seen), View!Bottom(log))]_View!vars
  BY FrameInPlace
<1>2. View!Spec => View!StaysInPlace
  BY <1>1, ViewInvAlways, PTL DEF View!Spec, View!StaysInPlace
<1>3. QED
  BY <1>2, LogsParts, PTL DEF StaysInPlace

(* The lock to the bottom is the user's: no frame by itself begins or ends *)
(* it (TailFollowState::observe_scroll).                                   *)
THEOREM LockFollowsUser == LogsSpec => FollowsUser
<1>1. ViewInv /\ [View!Next]_View!vars =>
        [View!Frame(0) /\ nav.target = View!None /\ ~caret.focus =>
           tail'.following = tail.following]_View!vars
  BY FrameFollows
<1>2. View!Spec => View!FollowsUser
  BY <1>1, ViewInvAlways, PTL DEF View!Spec, View!FollowsUser
<1>3. QED
  BY <1>2, LogsParts, PTL DEF FollowsUser

=============================================================================
