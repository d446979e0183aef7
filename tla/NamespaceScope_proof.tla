------------------------- MODULE NamespaceScope_proof -------------------------
(***************************************************************************)
(* Proofs about the namespace scope of a cluster: its types, and that what *)
(* is remembered is what is selected, whatever the user and the cluster do;*)
(* then that what is watched is what is shown, where the user waits for    *)
(* calm and the namespaces do not change.  First what the commands of a    *)
(* request are, as a sequence.                                             *)
(***************************************************************************)
EXTENDS NamespaceScope, FiniteSetTheorems, SequenceTheorems, TLAPS

-----------------------------------------------------------------------------
(* Sequences and finite sets.                                              *)

LEMMA AppendIs ==
  ASSUME NEW S, NEW seq \in Seq(S), NEW e \in S
  PROVE  /\ Append(seq, e) \in Seq(S)
         /\ Len(seq) \in Nat /\ DOMAIN seq = 1..Len(seq)
         /\ DOMAIN Append(seq, e) = 1..(Len(seq) + 1)
         /\ \A i \in 1..Len(seq) : Append(seq, e)[i] = seq[i]
         /\ Append(seq, e)[Len(seq) + 1] = e
  OBVIOUS

LEMMA TailIs ==
  ASSUME NEW S, NEW seq \in Seq(S), seq # <<>>
  PROVE  /\ Tail(seq) \in Seq(S)
         /\ Head(seq) = seq[1] /\ seq[1] \in S
         /\ Len(seq) \in Nat \ {0} /\ DOMAIN seq = 1..Len(seq)
         /\ DOMAIN Tail(seq) = 1..(Len(seq) - 1)
         /\ \A i \in 1..(Len(seq) - 1) : Tail(seq)[i] = seq[i + 1]
<1>1. Len(seq) \in Nat \ {0} /\ DOMAIN seq = 1..Len(seq)
  BY EmptySeq, LenProperties
<1>2. /\ Tail(seq) \in Seq(S)
      /\ Len(Tail(seq)) = Len(seq) - 1
      /\ \A i \in 1..Len(Tail(seq)) : Tail(seq)[i] = seq[i + 1]
  BY HeadTailProperties
<1>3. QED
  BY <1>1, <1>2

(* What remains is where it was, or one further.                           *)
Before(i, j) == IF j < i THEN j ELSE j + 1

LEMMA RemoveAtIs ==
  ASSUME NEW S, NEW seq \in Seq(S), NEW i \in DOMAIN seq
  PROVE  /\ RemoveAt(seq, i) \in Seq(S)
         /\ \A j \in DOMAIN RemoveAt(seq, i) :
              /\ Before(i, j) \in DOMAIN seq /\ Before(i, j) # i
              /\ RemoveAt(seq, i)[j] = seq[Before(i, j)]
         /\ \A n \in DOMAIN seq \ {i} :
              \E j \in DOMAIN RemoveAt(seq, i) : Before(i, j) = n
         /\ \A j, n \in DOMAIN RemoveAt(seq, i) :
              Before(i, j) = Before(i, n) => j = n
<1> DEFINE m == Len(seq)
           first == SubSeq(seq, 1, i - 1)
           rest == SubSeq(seq, i + 1, m)
<1>1. m \in Nat /\ DOMAIN seq = 1..m /\ i \in 1..m /\ \A j \in 1..m : seq[j] \in S
  BY LenProperties, ElementOfSeq
<1>2. /\ first \in Seq(S) /\ Len(first) = i - 1
      /\ \A j \in 1..(i - 1) : first[j] = seq[j]
  BY <1>1, SubSeqProperties
<1>3. /\ rest \in Seq(S) /\ Len(rest) = m - i
      /\ \A j \in 1..(m - i) : rest[j] = seq[i + j]
  BY <1>1, SubSeqProperties
<1>4. RemoveAt(seq, i) = first \o rest
  BY DEF RemoveAt
<1> HIDE DEF m, first, rest
<1>5. /\ first \o rest \in Seq(S) /\ Len(first \o rest) = m - 1
      /\ \A j \in 1..(m - 1) :
           (first \o rest)[j] = IF j <= i - 1 THEN first[j] ELSE rest[j - (i - 1)]
  <2>1. Len(first) + Len(rest) = m - 1 /\ i \in Nat
    BY <1>1, <1>2, <1>3
  <2>2. /\ first \o rest \in Seq(S)
        /\ Len(first \o rest) = Len(first) + Len(rest)
        /\ \A j \in 1..(Len(first) + Len(rest)) : (first \o rest)[j] =
             IF j <= Len(first) THEN first[j] ELSE rest[j - Len(first)]
    BY <1>2, <1>3, ConcatProperties
  <2>3. QED
    BY <1>2, <2>1, <2>2
<1>6. DOMAIN (first \o rest) = 1..(m - 1)
  BY <1>1, <1>5
<1>7. \A j \in 1..(m - 1) : (first \o rest)[j] = seq[Before(i, j)]
  <2> TAKE j \in 1..(m - 1)
  <2>1. i \in Nat /\ i >= 1 /\ i <= m /\ j \in Nat /\ j >= 1 /\ j <= m - 1
    BY <1>1
  <2>2. CASE j < i
    BY <1>1, <2>1, <2>2, <1>2, <1>5 DEF Before
  <2>3. CASE ~(j < i)
    <3>1. /\ j - (i - 1) \in 1..(m - i) /\ i + (j - (i - 1)) = j + 1
          /\ ~(j <= i - 1)
      BY <1>1, <2>1, <2>3
    <3>2. (first \o rest)[j] = rest[j - (i - 1)]
      BY <1>5, <3>1
    <3>3. rest[j - (i - 1)] = seq[j + 1]
      BY <1>3, <3>1
    <3>4. QED
      BY <2>3, <3>2, <3>3 DEF Before
  <2>4. QED
    BY <2>2, <2>3
<1>8. \A n \in (1..m) \ {i} : \E j \in 1..(m - 1) : Before(i, j) = n
  <2> TAKE n \in (1..m) \ {i}
  <2>1. CASE n < i
    BY <1>1, <2>1 DEF Before
  <2>2. CASE n > i
    BY <1>1, <2>2 DEF Before
  <2>3. QED
    BY <1>1, <2>1, <2>2
<1>9. \A j \in 1..(m - 1) : Before(i, j) \in 1..m /\ Before(i, j) # i
  BY <1>1 DEF Before
<1>10. \A j, n \in 1..(m - 1) : Before(i, j) = Before(i, n) => j = n
  BY <1>1 DEF Before
<1>11. QED
  BY <1>1, <1>4, <1>5, <1>6, <1>7, <1>8, <1>9, <1>10

(* The elements of a finite set as a sequence, each of them once.          *)
LEMMA SetToSeqIs ==
  ASSUME NEW S, IsFiniteSet(S)
  PROVE  /\ SetToSeq(S) \in Seq(S)
         /\ \A i \in DOMAIN SetToSeq(S) : SetToSeq(S)[i] \in S
         /\ \A x \in S : \E i \in DOMAIN SetToSeq(S) : SetToSeq(S)[i] = x
         /\ \A i, j \in DOMAIN SetToSeq(S) :
              SetToSeq(S)[i] = SetToSeq(S)[j] => i = j
<1> DEFINE n == Cardinality(S)
<1>1. n \in Nat /\ ExistsBijection(1..n, S)
  BY FS_CardinalityType
<1>2. PICK f : f \in [1..n -> S] /\ IsInjective(f)
  BY <1>1 DEF ExistsBijection, Bijection, Injection
<1>3. SetToSeq(S) \in [1..n -> S] /\ IsInjective(SetToSeq(S))
  BY <1>2 DEF SetToSeq
<1>4. SetToSeq(S) \in Injection(1..n, S)
  BY <1>3 DEF Injection
<1>5. Cardinality(1..n) = n
  BY <1>1, FS_Interval
<1>6. SetToSeq(S) \in Surjection(1..n, S)
  BY <1>4, <1>5, FS_Injection
<1>7. SetToSeq(S) \in Seq(S)
  BY <1>1, <1>3
<1>8. QED
  BY <1>3, <1>6, <1>7 DEF Surjection, IsInjective

LEMMA KeysFinite == IsFiniteSet(Keys)
  BY ScopeAssumption, FS_AddElement DEF Keys

(* Commands of one kind, one for each key of a set.                        *)
LEMMA EachIs ==
  ASSUME NEW kind \in {"start", "stop"}, NEW keys \in SUBSET Keys
  PROVE  LET each == SetToSeq([kind: {kind}, key: keys]) IN
         /\ each \in Seq(Command)
         /\ \A i \in DOMAIN each : each[i].kind = kind /\ each[i].key \in keys
         /\ \A k \in keys : \E i \in DOMAIN each : each[i].key = k
         /\ \A i, j \in DOMAIN each : each[i].key = each[j].key => i = j
<1> DEFINE S == [kind: {kind}, key: keys]
           f == [k \in keys |-> [kind |-> kind, key |-> k]]
<1>1. IsFiniteSet(keys)
  BY KeysFinite, FS_Subset
<1>2. f \in Surjection(keys, S)
  BY DEF Surjection
<1>3. IsFiniteSet(S)
  BY <1>1, <1>2, FS_Surjection
<1>4. S \subseteq Command
  BY DEF Command
<1>5. /\ \A c \in S : c.kind = kind /\ c.key \in keys
      /\ \A k \in keys : \E c \in S : c.key = k
      /\ \A c, d \in S : c.key = d.key => c = d
  <2>1. \A c \in S : c.kind = kind /\ c.key \in keys
    OBVIOUS
  <2>2. \A k \in keys : \E c \in S : c.key = k
    <3> TAKE k \in keys
    <3>1. [kind |-> kind, key |-> k] \in S /\ [kind |-> kind, key |-> k].key = k
      OBVIOUS
    <3>2. QED
      BY <3>1
  <2>3. \A c \in S : c = [kind |-> kind, key |-> c.key]
    OBVIOUS
  <2>4. \A c, d \in S : c.key = d.key => c = d
    BY <2>3
  <2>5. QED
    BY <2>1, <2>2, <2>4
<1> HIDE DEF S
<1>6. /\ SetToSeq(S) \in Seq(S)
      /\ \A i \in DOMAIN SetToSeq(S) : SetToSeq(S)[i] \in S
      /\ \A x \in S : \E i \in DOMAIN SetToSeq(S) : SetToSeq(S)[i] = x
      /\ \A i, j \in DOMAIN SetToSeq(S) :
           SetToSeq(S)[i] = SetToSeq(S)[j] => i = j
  BY <1>3, SetToSeqIs
<1>7. SetToSeq(S) \in Seq(Command)
  BY <1>4, <1>6, SeqMonotonic
<1> DEFINE each == SetToSeq(S)
<1>8. \A i, j \in DOMAIN each : each[i].key = each[j].key => i = j
  <2> TAKE i, j \in DOMAIN each
  <2>1. each[i] \in S /\ each[j] \in S
    BY <1>6
  <2>2. each[i].key = each[j].key => each[i] = each[j]
    BY <1>5, <2>1
  <2>3. QED
    BY <1>6, <2>2
<1>9. \A i \in DOMAIN each : each[i].kind = kind /\ each[i].key \in keys
  BY <1>5, <1>6
<1>10. \A k \in keys : \E i \in DOMAIN each : each[i].key = k
  BY <1>5, <1>6
<1> HIDE DEF each
<1>11. each \in Seq(Command)
  BY <1>7 DEF each
<1>12. QED
  BY <1>8, <1>9, <1>10, <1>11 DEF each, S
(* The commands to the pollers, one for each key that changes.             *)
LEMMA MetricsCommandsAre ==
  ASSUME NEW from \in SUBSET Keys, NEW to \in SUBSET Keys
  PROVE  LET new == MetricsCommands(from, to) IN
         /\ new \in Seq(Command)
         /\ \A i \in DOMAIN new :
              \/ new[i].kind = "stop" /\ new[i].key \in from \ to
              \/ new[i].kind = "start" /\ new[i].key \in to \ from
         /\ \A k \in from \ to :
              \E i \in DOMAIN new : new[i].kind = "stop" /\ new[i].key = k
         /\ \A k \in to \ from :
              \E i \in DOMAIN new : new[i].kind = "start" /\ new[i].key = k
         /\ \A i, j \in DOMAIN new : new[i].key = new[j].key => i = j
<1> DEFINE stops == SetToSeq([kind: {"stop"}, key: from \ to])
           begins == SetToSeq([kind: {"start"}, key: to \ from])
           new == stops \o begins
<1>1. MetricsCommands(from, to) = new
  BY DEF MetricsCommands
<1>2. /\ stops \in Seq(Command)
      /\ \A i \in DOMAIN stops : stops[i].kind = "stop" /\ stops[i].key \in from \ to
      /\ \A k \in from \ to : \E i \in DOMAIN stops : stops[i].key = k
      /\ \A i, j \in DOMAIN stops : stops[i].key = stops[j].key => i = j
  BY EachIs
<1>3. /\ begins \in Seq(Command)
      /\ \A i \in DOMAIN begins : begins[i].kind = "start" /\ begins[i].key \in to \ from
      /\ \A k \in to \ from : \E i \in DOMAIN begins : begins[i].key = k
      /\ \A i, j \in DOMAIN begins : begins[i].key = begins[j].key => i = j
  BY EachIs
<1> HIDE DEF stops, begins
<1>4. /\ Len(stops) \in Nat /\ DOMAIN stops = 1..Len(stops)
      /\ Len(begins) \in Nat /\ DOMAIN begins = 1..Len(begins)
  BY <1>2, <1>3, LenProperties
<1>5. /\ new \in Seq(Command)
      /\ DOMAIN new = 1..(Len(stops) + Len(begins))
      /\ \A i \in 1..(Len(stops) + Len(begins)) :
           new[i] = IF i <= Len(stops) THEN stops[i] ELSE begins[i - Len(stops)]
  BY <1>2, <1>3, ConcatProperties, LenProperties
<1> HIDE DEF new
<1>6. \A i \in DOMAIN new :
        \/ i \in DOMAIN stops /\ new[i] = stops[i]
        \/ i - Len(stops) \in DOMAIN begins /\ new[i] = begins[i - Len(stops)]
  BY <1>4, <1>5
<1>7. /\ \A i \in DOMAIN stops : i \in DOMAIN new /\ new[i] = stops[i]
      /\ \A i \in DOMAIN begins :
           Len(stops) + i \in DOMAIN new /\ new[Len(stops) + i] = begins[i]
  BY <1>4, <1>5
<1>8. \A i \in DOMAIN new :
        \/ new[i].kind = "stop" /\ new[i].key \in from \ to
        \/ new[i].kind = "start" /\ new[i].key \in to \ from
  BY <1>2, <1>3, <1>6
<1>9. \A k \in from \ to :
        \E i \in DOMAIN new : new[i].kind = "stop" /\ new[i].key = k
  BY <1>2, <1>7
<1>10. \A k \in to \ from :
         \E i \in DOMAIN new : new[i].kind = "start" /\ new[i].key = k
  BY <1>3, <1>7
<1>11. \A i, j \in DOMAIN new : new[i].key = new[j].key => i = j
  <2> SUFFICES ASSUME NEW i \in DOMAIN new, NEW j \in DOMAIN new,
                      new[i].key = new[j].key
               PROVE  i = j
    OBVIOUS
  <2>1. CASE i \in DOMAIN stops /\ new[i] = stops[i]
    BY <1>2, <2>1, <1>3, <1>6
  <2>2. CASE i - Len(stops) \in DOMAIN begins /\ new[i] = begins[i - Len(stops)]
    <3>1. new[j].key \in to \ from
      BY <1>3, <2>2
    <3>2. j - Len(stops) \in DOMAIN begins /\ new[j] = begins[j - Len(stops)]
      BY <1>2, <1>6, <3>1
    <3>3. i - Len(stops) = j - Len(stops)
      BY <1>3, <2>2, <3>2
    <3>4. QED
      BY <1>4, <1>5, <3>3
  <2>3. QED
    BY <1>6, <2>1, <2>2
<1>12. QED
  BY <1>1, <1>5, <1>8, <1>9, <1>10, <1>11

(* What a request appends: a reconcile of the missing sources, if it sends *)
(* one, and the commands to the pollers.                                   *)
New == DOMAIN commands' \ DOMAIN commands

Grown(r, missing, sends, found) ==
  /\ commands' \in Seq(Command)
  /\ \A i \in DOMAIN commands : i \in DOMAIN commands' /\ commands'[i] = commands[i]
  /\ \A i \in New :
       \/ /\ sends /\ commands'[i].kind = "reconcile" /\ commands'[i].resource = r
          /\ commands'[i].sources = {SourceOf(r, k, found) : k \in missing}
       \/ commands'[i].kind = "stop" /\ commands'[i].key \in metrics \ metrics'
       \/ commands'[i].kind = "start" /\ commands'[i].key \in metrics' \ metrics
  /\ sends => \E i \in New :
       /\ commands'[i].kind = "reconcile" /\ commands'[i].resource = r
       /\ commands'[i].sources = {SourceOf(r, k, found) : k \in missing}
  /\ \A k \in metrics \ metrics' :
       \E i \in New : commands'[i].kind = "stop" /\ commands'[i].key = k
  /\ \A k \in metrics' \ metrics :
       \E i \in New : commands'[i].kind = "start" /\ commands'[i].key = k
  /\ \A i, j \in New :
       \/ commands'[i].kind = "reconcile" /\ commands'[j].kind = "reconcile"
       \/ /\ commands'[i].kind # "reconcile" /\ commands'[j].kind # "reconcile"
          /\ commands'[i].key = commands'[j].key
       => i = j

(* Three sequences in a row.                                               *)
LEMMA RowIs ==
  ASSUME NEW S, NEW a \in Seq(S), NEW b \in Seq(S), NEW c \in Seq(S),
         NEW d, d = (a \o b) \o c
  PROVE  /\ d \in Seq(S)
         /\ Len(a) \in Nat /\ Len(b) \in Nat
         /\ DOMAIN a \subseteq DOMAIN d
         /\ \A i \in DOMAIN a : d[i] = a[i]
         /\ \A i \in DOMAIN b :
              Len(a) + i \in DOMAIN d \ DOMAIN a /\ d[Len(a) + i] = b[i]
         /\ \A i \in DOMAIN c :
              /\ Len(a) + Len(b) + i \in DOMAIN d \ DOMAIN a
              /\ d[Len(a) + Len(b) + i] = c[i]
         /\ \A i \in DOMAIN d \ DOMAIN a :
              \/ /\ i - Len(a) \in DOMAIN b
                 /\ d[i] = b[i - Len(a)]
              \/ /\ i - Len(a) - Len(b) \in DOMAIN c
                 /\ d[i] = c[i - Len(a) - Len(b)]
         /\ DOMAIN d \subseteq Int
<1> DEFINE e == a \o b
<1>1. /\ Len(a) \in Nat /\ DOMAIN a = 1..Len(a)
      /\ Len(b) \in Nat /\ DOMAIN b = 1..Len(b)
      /\ Len(c) \in Nat /\ DOMAIN c = 1..Len(c)
  BY LenProperties
<1>2. /\ e \in Seq(S) /\ Len(e) = Len(a) + Len(b)
      /\ \A i \in 1..(Len(a) + Len(b)) :
           e[i] = IF i <= Len(a) THEN a[i] ELSE b[i - Len(a)]
  BY ConcatProperties
<1>3. d = e \o c
  OBVIOUS
<1> HIDE DEF e
<1>4. /\ d \in Seq(S) /\ Len(d) = Len(e) + Len(c)
      /\ \A i \in 1..(Len(e) + Len(c)) :
           d[i] = IF i <= Len(e) THEN e[i] ELSE c[i - Len(e)]
  <2>1. e \in Seq(S)
    BY <1>2
  <2>2. /\ e \o c \in Seq(S) /\ Len(e \o c) = Len(e) + Len(c)
        /\ \A i \in 1..(Len(e) + Len(c)) :
             (e \o c)[i] = IF i <= Len(e) THEN e[i] ELSE c[i - Len(e)]
    BY <2>1, ConcatProperties
  <2>3. QED
    BY <1>3, <2>2
<1>5. DOMAIN d = 1..(Len(a) + Len(b) + Len(c))
  BY <1>2, <1>4, LenProperties
<1>6. \A i \in DOMAIN a : i \in DOMAIN d /\ d[i] = a[i]
  BY <1>1, <1>2, <1>4, <1>5
<1>7. \A i \in DOMAIN b :
        Len(a) + i \in DOMAIN d \ DOMAIN a /\ d[Len(a) + i] = b[i]
  <2> TAKE i \in DOMAIN b
  <2>1. /\ Len(a) + i \in 1..(Len(a) + Len(b))
        /\ Len(a) + i \in 1..(Len(e) + Len(c))
        /\ ~(Len(a) + i <= Len(a)) /\ (Len(a) + i) - Len(a) = i
        /\ Len(a) + i <= Len(e)
    BY <1>1, <1>2
  <2>2. d[Len(a) + i] = e[Len(a) + i]
    BY <1>4, <2>1
  <2>3. e[Len(a) + i] = b[i]
    BY <1>2, <2>1
  <2>4. QED
    BY <1>1, <1>2, <1>5, <2>1, <2>2, <2>3
<1>8. \A i \in DOMAIN c :
        /\ Len(a) + Len(b) + i \in DOMAIN d \ DOMAIN a
        /\ d[Len(a) + Len(b) + i] = c[i]
  <2> TAKE i \in DOMAIN c
  <2>1. /\ Len(a) + Len(b) + i \in 1..(Len(e) + Len(c))
        /\ ~(Len(a) + Len(b) + i <= Len(a))
        /\ ~(Len(a) + Len(b) + i <= Len(e))
        /\ (Len(a) + Len(b) + i) - Len(e) = i
    BY <1>1, <1>2
  <2>2. d[Len(a) + Len(b) + i] = c[i]
    BY <1>4, <2>1
  <2>3. QED
    BY <1>1, <1>2, <1>5, <2>1, <2>2
<1>9. \A i \in DOMAIN d \ DOMAIN a :
        \/ /\ i - Len(a) \in DOMAIN b
           /\ d[i] = b[i - Len(a)]
        \/ /\ i - Len(a) - Len(b) \in DOMAIN c
           /\ d[i] = c[i - Len(a) - Len(b)]
  <2> TAKE i \in DOMAIN d \ DOMAIN a
  <2>1. i \in Int /\ i > Len(a) /\ i <= Len(a) + Len(b) + Len(c)
    BY <1>1, <1>5
  <2>2. CASE i <= Len(e)
    BY <1>1, <1>2, <2>1, <2>2, <1>4
  <2>3. CASE ~(i <= Len(e))
    BY <1>1, <1>2, <2>1, <2>3, <1>4
  <2>4. QED
    BY <2>2, <2>3
<1>10. DOMAIN d \subseteq Int
  BY <1>1, <1>5
<1>11. QED
  BY <1>1, <1>4, <1>6, <1>7, <1>8, <1>9, <1>10

LEMMA GrownIs ==
  ASSUME NEW r, NEW missing \in SUBSET Keys,
         NEW found \in SUBSET Namespaces, NEW sends \in BOOLEAN,
         sends => r \in Resources,
         commands \in Seq(Command), metrics \in SUBSET Keys,
         metrics' \in SUBSET Keys,
         LET reconcile == [kind |-> "reconcile", resource |-> r,
                           sources |-> {SourceOf(r, k, found) : k \in missing}]
         IN  commands' = commands \o (IF sends THEN <<reconcile>> ELSE <<>>)
                                  \o MetricsCommands(metrics, metrics')
  PROVE  Grown(r, missing, sends, found)
<1> DEFINE reconcile == [kind |-> "reconcile", resource |-> r,
                         sources |-> {SourceOf(r, k, found) : k \in missing}]
           one == IF sends THEN <<reconcile>> ELSE <<>>
           more == MetricsCommands(metrics, metrics')
           new == commands'
<1>1. new = (commands \o one) \o more
  OBVIOUS
<1>2. (sends => reconcile \in Command) /\ reconcile.kind = "reconcile"
      /\ reconcile.resource = r
      /\ reconcile.sources = {SourceOf(r, k, found) : k \in missing}
  BY DEF SourceOf, Source, Keys, Command
<1>3. /\ more \in Seq(Command)
      /\ \A i \in DOMAIN more :
           \/ more[i].kind = "stop" /\ more[i].key \in metrics \ metrics'
           \/ more[i].kind = "start" /\ more[i].key \in metrics' \ metrics
      /\ \A k \in metrics \ metrics' :
           \E i \in DOMAIN more : more[i].kind = "stop" /\ more[i].key = k
      /\ \A k \in metrics' \ metrics :
           \E i \in DOMAIN more : more[i].kind = "start" /\ more[i].key = k
      /\ \A i, j \in DOMAIN more : more[i].key = more[j].key => i = j
  BY MetricsCommandsAre
<1> HIDE DEF more, reconcile
<1>4. /\ one \in Seq(Command)
      /\ \A i \in DOMAIN one : sends /\ i = 1 /\ one[i] = reconcile
      /\ sends => 1 \in DOMAIN one /\ one[1] = reconcile
  BY <1>2
<1> HIDE DEF one, new
<1> DEFINE n == Len(commands)
           m == Len(one)
<1>5. /\ new \in Seq(Command)
      /\ n \in Nat /\ m \in Nat
      /\ DOMAIN commands \subseteq DOMAIN new
      /\ \A i \in DOMAIN commands : new[i] = commands[i]
      /\ \A i \in DOMAIN one :
           n + i \in DOMAIN new \ DOMAIN commands /\ new[n + i] = one[i]
      /\ \A i \in DOMAIN more :
           /\ n + m + i \in DOMAIN new \ DOMAIN commands
           /\ new[n + m + i] = more[i]
      /\ \A i \in DOMAIN new \ DOMAIN commands :
           \/ /\ i - n \in DOMAIN one
              /\ new[i] = one[i - n]
           \/ /\ i - n - m \in DOMAIN more
              /\ new[i] = more[i - n - m]
      /\ DOMAIN new \subseteq Int
  <2>1. /\ more \in Seq(Command) /\ one \in Seq(Command)
        /\ commands \in Seq(Command)
    BY <1>3, <1>4
  <2>2. /\ new \in Seq(Command) /\ n \in Nat /\ m \in Nat
        /\ DOMAIN commands \subseteq DOMAIN new
        /\ \A i \in DOMAIN commands : new[i] = commands[i]
        /\ DOMAIN new \subseteq Int
    BY <1>1, <2>1, RowIs
  <2>3. \A i \in DOMAIN one :
          n + i \in DOMAIN new \ DOMAIN commands /\ new[n + i] = one[i]
    BY <1>1, <2>1, RowIs
  <2>4. \A i \in DOMAIN more :
          /\ n + m + i \in DOMAIN new \ DOMAIN commands
          /\ new[n + m + i] = more[i]
    BY <1>1, <2>1, RowIs
  <2>5. \A i \in DOMAIN new \ DOMAIN commands :
          \/ /\ i - n \in DOMAIN one
             /\ new[i] = one[i - n]
          \/ /\ i - n - m \in DOMAIN more
             /\ new[i] = more[i - n - m]
    BY <1>1, <2>1, RowIs
  <2>6. QED
    BY <2>2, <2>3, <2>4, <2>5
<1> DEFINE Fresh == DOMAIN new \ DOMAIN commands
<1> HIDE DEF n, m
<1>6. \A i \in Fresh :
        \/ sends /\ i - n = 1 /\ new[i] = reconcile
        \/ new[i].kind = "stop" /\ new[i].key \in metrics \ metrics'
        \/ new[i].kind = "start" /\ new[i].key \in metrics' \ metrics
  <2> TAKE i \in Fresh
  <2>1. CASE i - n \in DOMAIN one /\ new[i] = one[i - n]
    BY <1>4, <2>1
  <2>2. CASE i - n - m \in DOMAIN more /\ new[i] = more[i - n - m]
    <3> DEFINE j == i - n - m
    <3>1. j \in DOMAIN more /\ new[i] = more[j]
      BY <2>2
    <3> HIDE DEF j
    <3>2. \/ more[j].kind = "stop" /\ more[j].key \in metrics \ metrics'
          \/ more[j].kind = "start" /\ more[j].key \in metrics' \ metrics
      BY <1>3, <3>1
    <3>3. QED
      BY <3>1, <3>2
  <2>3. QED
    BY <1>5, <2>1, <2>2
<1>7. sends => \E i \in Fresh : new[i] = reconcile
  BY <1>4, <1>5
<1>8. /\ \A k \in metrics \ metrics' :
           \E i \in Fresh : new[i].kind = "stop" /\ new[i].key = k
      /\ \A k \in metrics' \ metrics :
           \E i \in Fresh : new[i].kind = "start" /\ new[i].key = k
  <2>1. \A j \in DOMAIN more : \E i \in Fresh : new[i] = more[j]
    BY <1>5
  <2>2. ASSUME NEW k \in metrics \ metrics'
        PROVE  \E i \in Fresh : new[i].kind = "stop" /\ new[i].key = k
    <3>1. PICK j \in DOMAIN more : more[j].kind = "stop" /\ more[j].key = k
      BY <1>3
    <3>2. QED
      BY <2>1, <3>1
  <2>3. ASSUME NEW k \in metrics' \ metrics
        PROVE  \E i \in Fresh : new[i].kind = "start" /\ new[i].key = k
    <3>1. PICK j \in DOMAIN more : more[j].kind = "start" /\ more[j].key = k
      BY <1>3
    <3>2. QED
      BY <2>1, <3>1
  <2>4. QED
    BY <2>2, <2>3
<1>9. \A i, j \in Fresh :
        /\ new[i].kind # "reconcile" /\ new[j].kind # "reconcile"
        /\ new[i].key = new[j].key
        => i = j
  <2> SUFFICES ASSUME NEW i \in Fresh, NEW j \in Fresh,
                      new[i].kind # "reconcile", new[j].kind # "reconcile",
                      new[i].key = new[j].key
               PROVE  i = j
    OBVIOUS
  <2>1. /\ i - n - m \in DOMAIN more /\ new[i] = more[i - n - m]
        /\ j - n - m \in DOMAIN more /\ new[j] = more[j - n - m]
    BY <1>2, <1>4, <1>5
  <2>2. i - n - m = j - n - m
    BY <1>3, <2>1
  <2>3. i \in Int /\ j \in Int
    BY <1>5
  <2>4. QED
    BY <1>5, <2>2, <2>3
<1>10. \A i, j \in Fresh :
         new[i].kind = "reconcile" /\ new[j].kind = "reconcile" => i = j
  <2> SUFFICES ASSUME NEW i \in Fresh, NEW j \in Fresh,
                      new[i].kind = "reconcile", new[j].kind = "reconcile"
               PROVE  i = j
    OBVIOUS
  <2>1. i - n = 1 /\ j - n = 1
    BY <1>6
  <2>2. i \in Int /\ j \in Int
    BY <1>5
  <2>3. QED
    BY <1>5, <2>1, <2>2
<1>11. Fresh = New
  BY DEF New, new
<1> HIDE DEF Fresh
<1> DEFINE Is1(c) == /\ c.kind = "reconcile" /\ c.resource = r
                     /\ c.sources = {SourceOf(r, k, found) : k \in missing}
<1>12. Is1(reconcile)
  BY <1>2
<1> HIDE DEF Is1
<1>13. \A i \in Fresh :
         \/ sends /\ Is1(new[i])
         \/ new[i].kind = "stop" /\ new[i].key \in metrics \ metrics'
         \/ new[i].kind = "start" /\ new[i].key \in metrics' \ metrics
  BY <1>6, <1>12
<1>14. sends => \E i \in Fresh : Is1(new[i])
  BY <1>7, <1>12
<1>15. \A i, j \in Fresh :
         \/ new[i].kind = "reconcile" /\ new[j].kind = "reconcile"
         \/ /\ new[i].kind # "reconcile" /\ new[j].kind # "reconcile"
            /\ new[i].key = new[j].key
         => i = j
  BY <1>9, <1>10
<1>16. \A i \in DOMAIN commands : i \in DOMAIN new /\ new[i] = commands[i]
  BY <1>5
<1>17. new \in Seq(Command)
  BY <1>5
<1>18. QED
  BY ZenonT(30), <1>8, <1>11, <1>13, <1>14, <1>15, <1>16, <1>17 DEF Grown, new, Is1
-----------------------------------------------------------------------------
(* What a request for the resource shown does.                             *)

Same(r, found, chosen, act) ==
  /\ KeysOf(r, act) = Desired(r, found, chosen)
  /\ active' = act /\ UNCHANGED <<synced, errors, orphans>>
  /\ Grown(r, {}, FALSE, found)

Changed(r, found, chosen, act, missing) ==
  LET had == KeysOf(r, act) # {} IN
  /\ KeysOf(r, act) # Desired(r, found, chosen)
  /\ missing = IF AllSelected(r, found, chosen) THEN Desired(r, found, chosen)
               ELSE Desired(r, found, chosen) \ KeysOf(r, Kept(r, had, synced))
  /\ active' = Others(r, act) \cup Under(r, missing)
  /\ synced' = Kept(r, had, synced) /\ errors' = Kept(r, had, errors)
  /\ orphans' = Kept(r, had, orphans)
  /\ Grown(r, missing, had \/ missing # {}, found)

LEMMA DesiredIs ==
  ASSUME NEW r \in Resources, NEW found \in SUBSET Namespaces,
         NEW chosen \in SUBSET Namespaces
  PROVE  Desired(r, found, chosen) \in SUBSET Keys
  BY DEF Desired, Keys

LEMMA RequestIs ==
  ASSUME TypeOK, NEW r \in Resources, NEW found \in SUBSET Namespaces,
         NEW chosen \in SUBSET Namespaces, NEW act \in SUBSET WatchKey,
         metricsApi' \subseteq {Pods, Nodes},
         Request(r, found, chosen, act)
  PROVE  /\ metrics' = DesiredMetrics(r, chosen) /\ metrics' \subseteq Keys
         /\ \/ Same(r, found, chosen, act)
            \/ \E missing \in SUBSET Keys : Changed(r, found, chosen, act, missing)
<1> DEFINE desired == Desired(r, found, chosen)
           current == KeysOf(r, act)
           had == current # {}
           missing == IF AllSelected(r, found, chosen) THEN desired
                      ELSE desired \ KeysOf(r, Kept(r, had, synced))
           sources == {SourceOf(r, k, found) : k \in missing}
           reconcile == [kind |-> "reconcile", resource |-> r,
                         sources |-> sources]
           more == MetricsCommands(metrics, metrics')
<1>1. metrics' = DesiredMetrics(r, chosen)
  BY DEF Request
<1>2. metrics' \in SUBSET Keys
  BY <1>1 DEF DesiredMetrics, Keys
<1>3. missing \in SUBSET Keys
  BY DesiredIs
<1>4. commands \in Seq(Command) /\ metrics \in SUBSET Keys
  BY DEF TypeOK
<1>5. CASE current = desired
  BY <1>1, <1>5, <1>4, ConcatEmptySeq, <1>2, GrownIs DEF Request, Same
<1>6. CASE current # desired
  <2> DEFINE sends == had \/ missing # {}
  <2>1. /\ active' = Others(r, act) \cup Under(r, missing)
        /\ synced' = Kept(r, had, synced) /\ errors' = Kept(r, had, errors)
        /\ orphans' = Kept(r, had, orphans)
        /\ commands' = commands \o (IF Sends(had, missing) THEN <<reconcile>> ELSE <<>>)
                                \o MetricsCommands(metrics, DesiredMetrics(r, chosen))
    BY <1>6 DEF Request
  <2>2. Sends(had, missing) = sends /\ sends \in BOOLEAN
    BY DEF Sends
  <2> HIDE DEF sends, missing, had
  <2>3. commands' = (commands \o (IF sends THEN <<reconcile>> ELSE <<>>)) \o more
    BY <1>1, <2>1, <2>2
  <2>4. Grown(r, missing, sends, found)
    BY <1>2, <1>3, <1>4, <2>2, <2>3, GrownIs
  <2>5. Changed(r, found, chosen, act, missing)
    BY <1>6, <2>1, <2>4 DEF Changed, missing, had, sends
  <2>6. QED
    BY <1>1, <1>2, <1>3, <2>5
<1>7. QED
  BY <1>5, <1>6
-----------------------------------------------------------------------------
(* Types.                                                                  *)

LEMMA CachesAre ==
  ASSUME TypeOK, NEW r \in Resources, NEW had \in BOOLEAN
  PROVE  /\ Kept(r, had, synced) \subseteq WatchKey
         /\ Kept(r, had, errors) \subseteq WatchKey
         /\ Kept(r, had, orphans) \subseteq Kept(r, had, synced)
  BY DEF TypeOK, Kept, Others

LEMMA RequestTypes ==
  ASSUME TypeOK, NEW r \in Resources, NEW found \in SUBSET Namespaces,
         NEW chosen \in SUBSET Namespaces, NEW act \in SUBSET WatchKey,
         metricsApi' \subseteq {Pods, Nodes},
         Request(r, found, chosen, act)
  PROVE  /\ active' \subseteq WatchKey /\ synced' \subseteq WatchKey
         /\ errors' \subseteq WatchKey /\ orphans' \subseteq synced'
         /\ metrics' \subseteq Keys /\ commands' \in Seq(Command)
<1>1. metrics' \subseteq Keys
  BY RequestIs
<1>2. CASE Same(r, found, chosen, act)
  BY <1>1, <1>2 DEF Same, Grown, TypeOK
<1>3. ASSUME NEW missing \in SUBSET Keys, Changed(r, found, chosen, act, missing)
      PROVE  /\ active' \subseteq WatchKey /\ synced' \subseteq WatchKey
             /\ errors' \subseteq WatchKey /\ orphans' \subseteq synced'
             /\ commands' \in Seq(Command)
  <2> DEFINE had == KeysOf(r, act) # {}
  <2>1. /\ active' = Others(r, act) \cup Under(r, missing)
        /\ synced' = Kept(r, had, synced) /\ errors' = Kept(r, had, errors)
        /\ orphans' = Kept(r, had, orphans) /\ commands' \in Seq(Command)
    BY <1>3 DEF Changed, Grown
  <2>2. had \in BOOLEAN
    OBVIOUS
  <2> HIDE DEF had
  <2>3. active' \subseteq WatchKey
    BY <2>1 DEF Others, Under, WatchKey
  <2>4. QED
    BY <2>1, <2>2, <2>3, CachesAre
<1>4. QED
  BY <1>1, <1>2, <1>3, RequestIs

LEMMA RequestIfSelectedTypes ==
  ASSUME TypeOK, NEW r \in Resources \cup {NoResource},
         NEW found \in SUBSET Namespaces, NEW chosen \in SUBSET Namespaces,
         NEW act \in SUBSET WatchKey, metricsApi' \subseteq {Pods, Nodes},
         RequestIfSelected(r, found, chosen, act)
  PROVE  /\ active' \subseteq WatchKey /\ synced' \subseteq WatchKey
         /\ errors' \subseteq WatchKey /\ orphans' \subseteq synced'
         /\ metrics' \subseteq Keys /\ commands' \in Seq(Command)
<1>1. CASE r = NoResource
  BY <1>1 DEF RequestIfSelected, TypeOK, cache
<1>2. CASE r # NoResource
  BY <1>2, RequestTypes DEF RequestIfSelected
<1>3. QED
  BY <1>1, <1>2

LEMMA UsesTypes ==
  ASSUME TypeOK, NEW bound \in {"clicks", "events", "failures"}, Uses(bound)
  PROVE  /\ left' \in [offers: SUBSET Resources, calm: BOOLEAN, inOrder: BOOLEAN,
                       clicks: Nat, events: Nat, failures: Nat]
         /\ left'.calm = left.calm /\ left'.offers = left.offers
         /\ bound # "events" => left'.events = left.events
         /\ left.events = 0 => bound # "events"
<1> DEFINE Bounds == [offers: SUBSET Resources, calm: BOOLEAN, inOrder: BOOLEAN,
                      clicks: Nat, events: Nat, failures: Nat]
<1>1. left \in Bounds
  BY DEF TypeOK
<1>2. CASE bound = "clicks"
  BY <1>2, <1>1 DEF Uses
<1>3. CASE bound = "events"
  BY <1>3, <1>1 DEF Uses
<1>4. CASE bound = "failures"
  BY <1>4, <1>1 DEF Uses
<1>5. QED
  BY <1>2, <1>3, <1>4

(* The kind of a command, of a result, says which fields it has.           *)
LEMMA CommandIs ==
  ASSUME NEW c \in Command
  PROVE  /\ c.kind \in {"reconcile", "start", "stop"}
         /\ c.kind = "reconcile" => c.resource \in Resources
                                     /\ c.sources \subseteq Source
         /\ c.kind # "reconcile" => c.key \in Keys
  BY DEF Command

LEMMA ResultIs ==
  ASSUME NEW e \in Result
  PROVE  /\ e.kind \in {"replaced", "started", "failed", "nsAdded", "nsDeleted",
                        "nsReplaced", "apis", "noMetrics"}
         /\ e.kind \in {"replaced", "started", "failed"} =>
              e.resource \in Resources /\ e.key \in Keys
         /\ e.kind \in {"nsAdded", "nsDeleted"} => e.namespace \in Namespaces
         /\ e.kind = "nsReplaced" => e.namespaces \subseteq Namespaces
         /\ e.kind = "apis" => e.restored \in Resources \cup {NoResource}
         /\ e.kind = "noMetrics" => e.resource \in {Pods, Nodes}
  BY DEF Result

LEMMA HeadIs ==
  ASSUME TypeOK, NEW kind, Received(kind)
  PROVE  /\ Head(results) \in Result /\ results' \in Seq(Result)
         /\ Head(results).kind = kind
         /\ kind \in {"replaced", "started", "failed"} => Received1 \in WatchKey
  <1>1. Head(results) \in Result /\ results' \in Seq(Result)
    BY TailIs DEF TypeOK, Received
  <1>2. QED
    BY <1>1, ResultIs DEF Received, Received1, WatchKey

LEMMA UserTypes ==
  ASSUME TypeOK, UserStep
  PROVE  TypeOK'
<1>1. /\ UNCHANGED <<loading, discovered, metricsApi, results, known,
                     generation, starts, watchers, polling>>
      /\ Uses("clicks")
  BY DEF UserStep, ToggleNamespace, ReplaceSelectedNamespaces,
         SelectAllNamespaces, ClearSelectedNamespaces, SelectApiResource,
         RetrySelectedLoad, UserActs, worker, watch
<1>2. /\ discovered \in SUBSET Namespaces /\ selected \in SUBSET Namespaces
      /\ active \in SUBSET WatchKey /\ left.offers \subseteq Resources
      /\ metricsApi' \subseteq {Pods, Nodes}
  BY <1>1 DEF TypeOK
<1> DEFINE Asked == /\ active' \subseteq WatchKey /\ synced' \subseteq WatchKey
                    /\ errors' \subseteq WatchKey /\ orphans' \subseteq synced'
                    /\ metrics' \subseteq Keys /\ commands' \in Seq(Command)
                    /\ selected' \subseteq Namespaces
                    /\ remembered' \subseteq Namespaces
                    /\ resource' \in Resources \cup {NoResource}
<1>3. ASSUME NEW chosen \in SUBSET Namespaces, ChangeSelection(chosen)
      PROVE  Asked
  BY <1>3, <1>2, RequestIfSelectedTypes DEF ChangeSelection, TypeOK
<1>4. ASSUME NEW r \in Resources, SelectResource(r)
      PROVE  Asked
  BY <1>4, <1>2, RequestTypes DEF SelectResource, TypeOK
<1>5. Asked
  <2>1. CASE ToggleNamespace
    <3>1. PICK n \in discovered :
            ChangeSelection(IF n \in selected THEN selected \ {n}
                                              ELSE selected \cup {n})
      BY <2>1 DEF ToggleNamespace
    <3>2. (IF n \in selected THEN selected \ {n} ELSE selected \cup {n})
             \in SUBSET Namespaces
      BY <1>2
    <3>3. QED
      BY <1>3, <3>1, <3>2
  <2>2. CASE ReplaceSelectedNamespaces
    <3>1. PICK n \in discovered : ChangeSelection({n})
      BY <2>2 DEF ReplaceSelectedNamespaces
    <3>2. {n} \in SUBSET Namespaces
      BY <1>2
    <3>3. QED
      BY <1>3, <3>1, <3>2
  <2>3. CASE SelectAllNamespaces
    BY <1>2, <1>3, <2>3 DEF SelectAllNamespaces
  <2>4. CASE ClearSelectedNamespaces
    BY <1>3, <2>4 DEF ClearSelectedNamespaces
  <2>5. CASE SelectApiResource
    BY <1>2, <1>4, <2>5 DEF SelectApiResource
  <2>6. CASE RetrySelectedLoad
    BY <2>6, <1>2, RequestTypes DEF RetrySelectedLoad, ErrorShown, Shown, TypeOK
  <2>7. QED
    BY <2>1, <2>2, <2>3, <2>4, <2>5, <2>6 DEF UserStep
<1>6. QED
  BY <1>1, <1>5, UsesTypes DEF TypeOK

(* The requests that namespaces, once they changed, call for.              *)
LEMMA NamespacesTypes ==
  ASSUME TypeOK, NEW found \in SUBSET Namespaces, NEW chosen \in SUBSET Namespaces,
         UNCHANGED metricsApi, NamespacesChanged(found, chosen)
  PROVE  /\ active' \subseteq WatchKey /\ synced' \subseteq WatchKey
         /\ errors' \subseteq WatchKey /\ orphans' \subseteq synced'
         /\ metrics' \subseteq Keys /\ commands' \in Seq(Command)
<1> DEFINE act == IF resource \in Namespaced THEN active \ {<<resource, Whole>>}
                                              ELSE active
<1>1. /\ act \in SUBSET WatchKey /\ metricsApi' \subseteq {Pods, Nodes}
      /\ resource \in Resources \cup {NoResource}
  BY DEF TypeOK
<1>2. RequestIfSelected(resource, found, chosen, act)
  BY DEF NamespacesChanged
<1> HIDE DEF act
<1>3. QED
  BY <1>1, <1>2, RequestIfSelectedTypes

LEMMA ApplyTypes ==
  ASSUME TypeOK, ApplyStep
  PROVE  TypeOK'
<1>1. UNCHANGED <<known, generation, starts, watchers, polling, left>>
  BY DEF ApplyStep, ApplyReplaced, ApplyStarted, ApplyFailed,
         ApplyNamespaceAdded, ApplyNamespaceDeleted, ApplyNamespacesReplaced,
         ApplyApisLoaded, ApplyMetricsUnavailable, Received, worker, watch
<1>2. CASE ApplyReplaced
  BY <1>2, HeadIs, <1>1 DEF ApplyReplaced, TypeOK, scope
<1>3. CASE ApplyStarted
  BY <1>3, HeadIs, <1>1 DEF ApplyStarted, TypeOK, scope
<1>4. CASE ApplyFailed
  <2> DEFINE r == Head(results).resource
             all == Head(results).key = Whole /\ r \in Namespaced
             failed == IF all THEN Under(r, selected) ELSE {Received1}
  <2>1. Received1 \in WatchKey /\ results' \in Seq(Result) /\ r \in Resources
    BY <1>4, HeadIs, ResultIs DEF ApplyFailed
  <2>2. failed \subseteq WatchKey
    BY <2>1 DEF Under, WatchKey, Keys, TypeOK
  <2>3. /\ active' = active \ {Received1} /\ synced' = synced \ failed
        /\ errors' = errors \cup failed
        /\ orphans' = (orphans \cup (IF all THEN {k \in synced : k[1] = r}
                                            ELSE {})) \ failed
        /\ UNCHANGED <<loading, discovered, selected, remembered, resource,
                       metrics, metricsApi, commands>>
    BY <1>4 DEF ApplyFailed, scope
  <2> HIDE DEF r, all, failed
  <2>4. orphans' \subseteq synced'
    BY <2>3 DEF TypeOK
  <2>5. QED
    BY <1>1, <2>1, <2>2, <2>3, <2>4 DEF TypeOK
<1>5. CASE ApplyNamespaceAdded
  <2>1. Head(results).namespace \in Namespaces /\ results' \in Seq(Result)
    BY <1>5, HeadIs, ResultIs DEF ApplyNamespaceAdded
  <2>2. /\ discovered' = discovered \cup {Head(results).namespace}
        /\ UNCHANGED <<loading, selected, remembered, resource, metricsApi>>
        /\ NamespacesChanged(discovered', selected)
    BY <1>5 DEF ApplyNamespaceAdded
  <2>3. discovered' \in SUBSET Namespaces /\ selected \in SUBSET Namespaces
    BY <2>1, <2>2 DEF TypeOK
  <2>4. QED
    BY <1>1, <2>1, <2>2, <2>3, NamespacesTypes DEF TypeOK
<1>6. CASE ApplyNamespaceDeleted
  <2>1. results' \in Seq(Result)
    BY <1>6, HeadIs DEF ApplyNamespaceDeleted
  <2>2. PICK n : /\ discovered' = discovered \ {n} /\ selected' = selected \ {n}
                 /\ remembered' = remembered \ {n}
    BY <1>6 DEF ApplyNamespaceDeleted
  <2>3. /\ UNCHANGED <<loading, resource, metricsApi>>
        /\ NamespacesChanged(discovered', selected')
    BY <1>6 DEF ApplyNamespaceDeleted
  <2>4. discovered' \in SUBSET Namespaces /\ selected' \in SUBSET Namespaces
    BY <2>2 DEF TypeOK
  <2>5. QED
    BY <1>1, <2>1, <2>2, <2>3, <2>4, NamespacesTypes DEF TypeOK
<1>7. CASE ApplyNamespacesReplaced
  <2>1. results' \in Seq(Result) /\ Head(results).namespaces \subseteq Namespaces
    BY <1>7, HeadIs, ResultIs DEF ApplyNamespacesReplaced
  <2>2. /\ discovered' = Head(results).namespaces
        /\ loading' = loading \ {"namespaces"}
        /\ remembered' = remembered \cap discovered' /\ selected' = remembered'
        /\ UNCHANGED <<resource, metricsApi>>
        /\ NamespacesChanged(discovered', selected')
    BY <1>7 DEF ApplyNamespacesReplaced
  <2>3. discovered' \in SUBSET Namespaces /\ selected' \in SUBSET Namespaces
    BY <2>1, <2>2 DEF TypeOK
  <2>4. QED
    BY <1>1, <2>1, <2>2, <2>3, NamespacesTypes DEF TypeOK
<1>8. CASE ApplyApisLoaded
  <2> DEFINE r == Head(results).restored
  <2>1. /\ results' \in Seq(Result)
        /\ r \in Resources \cup {NoResource}
    BY <1>8, HeadIs, ResultIs DEF ApplyApisLoaded
  <2>2. /\ loading' = loading \ {"apis"} /\ UNCHANGED discovered
        /\ metricsApi' \subseteq {Pods, Nodes}
        /\ IF r = NoResource
           THEN UNCHANGED <<resource, selected, remembered, cache, metrics, commands>>
           ELSE SelectResource(r)
    BY <1>8 DEF ApplyApisLoaded
  <2> HIDE DEF r
  <2>3. CASE r = NoResource
    BY <1>1, <2>1, <2>2, <2>3 DEF TypeOK, cache
  <2>4. CASE r # NoResource
    BY <2>1, <2>2, <2>4, RequestTypes, <1>1 DEF SelectResource, TypeOK
  <2>5. QED
    BY <2>3, <2>4
<1>9. CASE ApplyMetricsUnavailable
  <2> DEFINE r == Head(results).resource
             kept == {k \in metrics : PolledBy(k) # r}
  <2>1. results' \in Seq(Result)
    BY <1>9, HeadIs DEF ApplyMetricsUnavailable
  <2>2. /\ IF r \in metricsApi
           THEN /\ metricsApi' = metricsApi \ {r} /\ metrics' = kept
                /\ commands' = commands \o MetricsCommands(metrics, kept)
           ELSE UNCHANGED <<metricsApi, metrics, commands>>
        /\ UNCHANGED <<scope, cache>>
    BY <1>9 DEF ApplyMetricsUnavailable
  <2>3. kept \in SUBSET Keys /\ metrics \in SUBSET Keys
    BY DEF TypeOK
  <2> HIDE DEF r, kept
  <2>4. MetricsCommands(metrics, kept) \in Seq(Command)
    BY <2>3, MetricsCommandsAre
  <2>5. commands' \in Seq(Command) /\ metrics' \subseteq Keys
        /\ metricsApi' \subseteq {Pods, Nodes}
    <3>1. commands \o MetricsCommands(metrics, kept) \in Seq(Command)
      BY <2>4, ConcatProperties DEF TypeOK
    <3>2. QED
      BY <2>2, <2>3, <3>1 DEF TypeOK
  <2>6. QED
    BY <1>1, <2>1, <2>2, <2>5 DEF TypeOK, scope, cache
<1>10. QED
  BY <1>2, <1>3, <1>4, <1>5, <1>6, <1>7, <1>8, <1>9 DEF ApplyStep

(* What the steps of starts, watchers and pollers report.                  *)
LEMMA ReportTypes ==
  ASSUME TypeOK, NEW kind \in {"started", "failed"}, NEW w \in starts \cup watchers,
         Report(kind, w)
  PROVE  results' \in Seq(Result)
<1>1. w.resource \in Resources /\ w.source.key \in Keys
  BY DEF TypeOK, Start, Watcher, Source
<1>2. [kind |-> kind, resource |-> w.resource, key |-> w.source.key] \in Result
  BY <1>1 DEF Result
<1>3. QED
  BY <1>2, AppendIs DEF Report, TypeOK

LEMMA CommandTypes ==
  ASSUME TypeOK, NEW i \in DOMAIN commands,
         ExecuteReconcile(i) \/ ExecuteMetrics(i)
  PROVE  TypeOK'
<1>1. /\ commands' \in Seq(Command) /\ commands[i] \in Command
      /\ UNCHANGED <<ui, results, known, left>>
  BY RemoveAtIs, ElementOfSeq, LenProperties DEF ExecuteReconcile,
     ExecuteMetrics, Takes, TypeOK, watch
<1>2. CASE ExecuteReconcile(i)
  <2> DEFINE r == commands[i].resource
             new == [resource: {r}, source: commands[i].sources,
                     generation: {generation[r] + 1}, pc: {"queued"}]
  <2>1. /\ generation' = [generation EXCEPT ![r] = @ + 1]
        /\ watchers' \subseteq watchers /\ starts' = starts \cup new
        /\ UNCHANGED polling
    BY <1>2 DEF ExecuteReconcile
  <2>2. r \in Resources /\ commands[i].sources \subseteq Source
    BY <1>1, <1>2, CommandIs DEF ExecuteReconcile
  <2>3. generation[r] + 1 \in Nat /\ generation' \in [Resources -> Nat]
    BY <2>1, <2>2 DEF TypeOK
  <2>4. new \subseteq Start
    BY <2>2, <2>3 DEF Start
  <2> HIDE DEF new
  <2>5. QED
    BY <1>1, <2>1, <2>3, <2>4 DEF TypeOK, ui, scope, cache
<1>3. CASE ExecuteMetrics(i)
  BY <1>1, <1>3, CommandIs DEF ExecuteMetrics, TypeOK, ui, scope, cache, watch
<1>4. QED
  BY <1>2, <1>3

LEMMA StartTypes ==
  ASSUME TypeOK, NEW s \in starts,
         \/ CheckStart(s) \/ SpawnWatcher(s) \/ InstallWatch(s)
         \/ AnnounceWatch(s) \/ StartFails(s)
  PROVE  TypeOK'
<1>1. UNCHANGED <<ui, commands, known, generation, polling>>
  BY DEF CheckStart, SpawnWatcher, InstallWatch, AnnounceWatch, StartFails
<1>2. s \in Start
  BY DEF TypeOK
<1>3. WatcherOf(s) \in Watcher
  BY <1>2 DEF WatcherOf, Start, Watcher, Source
<1>4. starts' \subseteq Start
  <2>1. ASSUME NEW pc \in {"checked", "spawned", "announcing"}, Moves(s, pc)
        PROVE  starts' \subseteq Start
    BY <1>2, <2>1 DEF Start, Moves, TypeOK
  <2>2. \/ starts' = starts \ {s}
        \/ \E pc \in {"checked", "spawned", "announcing"} : Moves(s, pc)
    BY DEF CheckStart, SpawnWatcher, InstallWatch, AnnounceWatch, StartFails
  <2>3. QED
    BY <2>1, <2>2 DEF TypeOK
<1>5. watchers' \subseteq Watcher
  BY <1>3 DEF CheckStart, SpawnWatcher, InstallWatch, AnnounceWatch, StartFails,
              TypeOK
<1>6. results' \in Seq(Result)
  BY ReportTypes DEF CheckStart, SpawnWatcher, InstallWatch, AnnounceWatch,
     StartFails, TypeOK
<1>7. left' \in [offers: SUBSET Resources, calm: BOOLEAN, inOrder: BOOLEAN,
                clicks: Nat, events: Nat, failures: Nat]
  BY UsesTypes DEF CheckStart, SpawnWatcher, InstallWatch, AnnounceWatch,
     StartFails, TypeOK
<1>8. QED
  BY <1>1, <1>4, <1>5, <1>6, <1>7 DEF TypeOK, ui, scope, cache

LEMMA WatcherTypes ==
  ASSUME TypeOK, NEW w \in watchers, SendReplaced(w) \/ WatcherFails(w)
  PROVE  TypeOK'
<1>1. UNCHANGED <<ui, commands, known, generation, starts, polling>>
  BY DEF SendReplaced, WatcherFails
<1>2. w \in Watcher
  BY DEF TypeOK
<1>3. CASE SendReplaced(w)
  <2>1. PICK k \in w.unsent :
          /\ watchers' = (watchers \ {w}) \cup {[w EXCEPT !.unsent = @ \ {k}]}
          /\ results' = Append(results, [kind |-> "replaced",
                                         resource |-> w.resource, key |-> k])
          /\ UNCHANGED left
    BY <1>3 DEF SendReplaced
  <2>2. w.resource \in Resources /\ k \in Keys
    BY <1>2, <2>1 DEF Watcher
  <2>3. [w EXCEPT !.unsent = @ \ {k}] \in Watcher
    BY <1>2 DEF Watcher
  <2>4. [kind |-> "replaced", resource |-> w.resource, key |-> k] \in Result
    BY <2>2 DEF Result
  <2>5. results' \in Seq(Result)
    BY <2>1, <2>4, AppendIs DEF TypeOK
  <2>6. QED
    BY <1>1, <2>1, <2>3, <2>5 DEF TypeOK, ui, scope, cache
<1>4. CASE WatcherFails(w)
  BY <1>4, ReportTypes, <1>1, UsesTypes DEF WatcherFails, TypeOK, ui, scope,
     cache
<1>5. QED
  BY <1>3, <1>4

LEMMA PollerTypes ==
  ASSUME TypeOK, NEW k \in polling, PollerEnds(k)
  PROVE  TypeOK'
<1>1. [kind |-> "noMetrics", resource |-> PolledBy(k)] \in Result
  BY DEF Result, PolledBy
<1>2. results' \in Seq(Result)
  BY <1>1, AppendIs DEF PollerEnds, TypeOK
<1>3. /\ polling' = polling \ {k} /\ Uses("failures")
      /\ UNCHANGED <<ui, commands, watch>>
  BY DEF PollerEnds
<1>4. QED
  BY <1>2, <1>3, UsesTypes DEF TypeOK, ui, scope, cache, watch

LEMMA NamespaceEventTypes ==
  ASSUME TypeOK, NamespaceEvent
  PROVE  TypeOK'
<1>1. known' \subseteq Namespaces /\ results' \in Seq(Result)
  <2>1. CASE \E n \in Namespaces :
               /\ known' = known \cup {n}
               /\ results' = Append(results, [kind |-> "nsAdded", namespace |-> n])
    BY <2>1, AppendIs DEF Result, TypeOK
  <2>2. CASE \E n \in known :
               /\ known' = known \ {n}
               /\ results' = Append(results, [kind |-> "nsDeleted", namespace |-> n])
    BY <2>2, AppendIs DEF Result, TypeOK
  <2>3. CASE \E listed \in SUBSET Namespaces :
               /\ known' = listed
               /\ results' = Append(results, [kind |-> "nsReplaced",
                                              namespaces |-> listed])
    BY <2>3, AppendIs DEF Result, TypeOK
  <2>4. QED
    BY <2>1, <2>2, <2>3 DEF NamespaceEvent
<1>2. Uses("events") /\ UNCHANGED <<ui, commands, generation, starts, watchers, polling>>
  BY DEF NamespaceEvent
<1>3. QED
  BY <1>1, <1>2, UsesTypes DEF TypeOK, ui, scope, cache

(* The types of the namespace scope are those declared: what a click, a    *)
(* result or a step of the worker assigns is of the type of its variable   *)
(* (ui/state/namespaces.rs, ui/state/runtime.rs, worker/).                 *)
THEOREM ScopeTypeCorrect == Spec => []TypeOK
<1>1. Init => TypeOK
  <2> SUFFICES ASSUME Init PROVE TypeOK
    OBVIOUS
  <2>1. results \in Seq(Result)
    <3> DEFINE first == [kind |-> "nsReplaced", namespaces |-> known]
               second(r) == [kind |-> "apis", restored |-> r]
    <3>1. PICK r \in left.offers \cup {NoResource} :
            results \in {<<first, second(r)>>, <<second(r), first>>}
      BY DEF Init
    <3>2. r \in Resources \cup {NoResource} /\ known \in SUBSET Namespaces
      BY ScopeAssumption DEF Init
    <3>3. first \in Result /\ second(r) \in Result
      BY <3>2 DEF Result
    <3> HIDE DEF first, second
    <3>4. /\ <<first, second(r)>> \in Seq(Result)
          /\ <<second(r), first>> \in Seq(Result)
      BY <3>3
    <3>5. QED
      BY <3>1, <3>4
  <2>2. left \in Scenarios
    BY DEF Init
  <2>3. QED
    BY <2>1, <2>2, ScopeAssumption DEF Init, TypeOK
<1>2. TypeOK /\ [Next]_vars => TypeOK'
  <2> SUFFICES ASSUME TypeOK, [Next]_vars PROVE TypeOK'
    OBVIOUS
  <2>1. CASE CommandStep
    BY <2>1, CommandTypes DEF CommandStep
  <2>2. CASE StartStep
    BY <2>2, StartTypes DEF StartStep
  <2>3. CASE ListStep
    BY <2>3, WatcherTypes DEF ListStep
  <2>4. CASE Failure
    BY <2>4, StartTypes, WatcherTypes, PollerTypes DEF Failure
  <2>5. CASE UNCHANGED vars
    BY <2>5 DEF TypeOK, vars, ui, scope, cache, worker, watch
  <2> QED
    BY <2>1, <2>2, <2>3, <2>4, <2>5, UserTypes, ApplyTypes, NamespaceEventTypes
       DEF Next
<1>3. QED
  BY <1>1, <1>2, PTL DEF Spec

-----------------------------------------------------------------------------
(* What is remembered.                                                     *)

(* A click comes after the namespaces are loaded, and a result of the      *)
(* namespace watch changes all three together.                             *)
LEMMA UserRemembers ==
  ASSUME RememberedIsSelected, UserStep
  PROVE  RememberedIsSelected'
<1>1. "namespaces" \notin loading /\ UNCHANGED <<loading, discovered>>
  BY DEF UserStep, ToggleNamespace, ReplaceSelectedNamespaces,
         SelectAllNamespaces, ClearSelectedNamespaces, SelectApiResource,
         RetrySelectedLoad, UserActs
<1>2. selected = remembered /\ selected \subseteq discovered
  BY <1>1 DEF RememberedIsSelected
<1>3. ASSUME NEW chosen \in SUBSET discovered, ChangeSelection(chosen)
      PROVE  RememberedIsSelected'
  BY <1>1, <1>3 DEF ChangeSelection, RememberedIsSelected
<1>4. CASE ToggleNamespace
  <2>1. PICK n \in discovered :
          ChangeSelection(IF n \in selected THEN selected \ {n}
                                            ELSE selected \cup {n})
    BY <1>4 DEF ToggleNamespace
  <2>2. (IF n \in selected THEN selected \ {n} ELSE selected \cup {n})
           \in SUBSET discovered
    BY <1>2
  <2>3. QED
    BY <1>3, <2>1, <2>2
<1>5. CASE ReplaceSelectedNamespaces
  <2>1. PICK n \in discovered : ChangeSelection({n})
    BY <1>5 DEF ReplaceSelectedNamespaces
  <2>2. {n} \in SUBSET discovered
    OBVIOUS
  <2>3. QED
    BY <1>3, <2>1, <2>2
<1>6. CASE SelectAllNamespaces
  BY <1>3, <1>6 DEF SelectAllNamespaces
<1>7. CASE ClearSelectedNamespaces
  BY <1>3, <1>7 DEF ClearSelectedNamespaces
<1>8. CASE SelectApiResource \/ RetrySelectedLoad
  BY <1>1, <1>8 DEF SelectApiResource, SelectResource, RetrySelectedLoad,
                    RememberedIsSelected
<1>9. QED
  BY <1>4, <1>5, <1>6, <1>7, <1>8 DEF UserStep

LEMMA ApplyRemembers ==
  ASSUME RememberedIsSelected, ApplyStep
  PROVE  RememberedIsSelected'
<1>1. CASE ApplyNamespaceAdded
  BY <1>1 DEF ApplyNamespaceAdded, RememberedIsSelected
<1>2. CASE ApplyNamespaceDeleted
  BY <1>2 DEF ApplyNamespaceDeleted, RememberedIsSelected
<1>3. CASE ApplyNamespacesReplaced
  BY <1>3 DEF ApplyNamespacesReplaced, RememberedIsSelected
<1>4. CASE ApplyApisLoaded
  BY <1>4 DEF ApplyApisLoaded, SelectResource, RememberedIsSelected
<1>5. CASE ApplyReplaced \/ ApplyStarted \/ ApplyFailed \/ ApplyMetricsUnavailable
  BY <1>5 DEF ApplyReplaced, ApplyStarted, ApplyFailed, ApplyMetricsUnavailable,
              RememberedIsSelected, scope
<1>6. QED
  BY <1>1, <1>2, <1>3, <1>4, <1>5 DEF ApplyStep

(* Once the namespaces are loaded, the selection persisted for the context *)
(* is the selection of the interface, and every namespace of it exists:    *)
(* the click that changes it, the restored selection and the deletion of a *)
(* namespace all write both (ui/state/namespaces.rs).                      *)
THEOREM SelectionRemembered == Spec => []RememberedIsSelected
<1>1. Init => RememberedIsSelected
  BY DEF Init, RememberedIsSelected
<1>2. RememberedIsSelected /\ [Next]_vars => RememberedIsSelected'
  <2> SUFFICES ASSUME RememberedIsSelected, [Next]_vars
               PROVE  RememberedIsSelected'
    OBVIOUS
  <2>1. CASE CommandStep \/ StartStep \/ ListStep \/ Failure \/ NamespaceEvent
             \/ UNCHANGED vars
    <3>1. UNCHANGED scope
      BY <2>1 DEF CommandStep, StartStep, ListStep, Failure, NamespaceEvent,
                  ExecuteReconcile, ExecuteMetrics, CheckStart, SpawnWatcher,
                  InstallWatch, AnnounceWatch, StartFails, SendReplaced,
                  WatcherFails, PollerEnds, vars, ui
    <3>2. QED
      BY <3>1 DEF scope, RememberedIsSelected
  <2>2. QED
    BY <2>1, UserRemembers, ApplyRemembers DEF Next
<1>3. QED
  BY <1>1, <1>2, PTL DEF Spec

-----------------------------------------------------------------------------
(* What is watched is what is shown, where the user waits for calm.        *)
(* A click finds nothing under way, so at most one reconcile is, and until *)
(* the next click every key that the user interface has active, or will    *)
(* have when the results on their way have arrived, has a start or a       *)
(* watcher, or all it covers is or will be shown as failed.  A key of the  *)
(* cache that has no active watch is an orphan.                            *)

(* What is under way.                                                      *)

Of(e, kind, r, key) == e.kind = kind /\ e.resource = r /\ e.key = key

Sent(j, kind, r, key) == Of(results[j], kind, r, key)

Asks(i, r) == commands[i].kind = "reconcile" /\ commands[i].resource = r

Pending(r) == \E i \in DOMAIN commands : Asks(i, r)

Cover(r, key) == SourceOf(r, key, discovered).covers

Wanted == Desired(resource, discovered, selected)

Is(s, r, key) == s.resource = r /\ s.source.key = key

Starting(r, key) == \E s \in starts : Is(s, r, key)

Attempted(r, key) ==
  \/ \E s \in starts : Is(s, r, key) /\ s.pc \in {"queued", "checked"}
  \/ \E w \in watchers : Is(w, r, key)

Told(kind, r, key) == \E j \in DOMAIN results : Sent(j, kind, r, key)

(* The key is active when the results have arrived, or the starts too.     *)
Held(r, key) ==
  \/ \E i \in DOMAIN results :
       /\ Sent(i, "started", r, key)
       /\ \A j \in DOMAIN results : j > i => ~Sent(j, "failed", r, key)
  \/ /\ <<r, key>> \in active
     /\ \A j \in DOMAIN results : ~Sent(j, "failed", r, key)

Lasting(r, key) == Starting(r, key) \/ Held(r, key)

(* A failure shows an error for the key k, with this selection.            *)
Hits(e, chosen, r, k) ==
  /\ e.kind = "failed" /\ e.resource = r
  /\ \/ e.key = Whole /\ r \in Namespaced /\ k \in chosen
     \/ ~(e.key = Whole /\ r \in Namespaced) /\ e.key = k

(* The key k shows an error when the results have arrived.                 *)
Failing(r, k) ==
  \/ /\ <<r, k>> \in errors
     /\ \A j \in DOMAIN results : ~Sent(j, "replaced", r, k)
  \/ \E i \in DOMAIN results :
       /\ Hits(results[i], selected, r, k)
       /\ \A j \in DOMAIN results : j > i => ~Sent(j, "replaced", r, k)

(* The key k is what a source asks for, starts or watches.                 *)
Asked(r, k) ==
  \E i \in DOMAIN commands :
    Asks(i, r) /\ \E src \in commands[i].sources : k \in src.covers

Served(r, k) ==
  /\ ~Pending(r)
  /\ \/ \E s \in starts : /\ s.resource = r /\ s.pc \in {"queued", "checked"}
                          /\ k \in s.source.covers
     \/ \E w \in watchers : w.resource = r /\ k \in w.source.covers

Orphaned(r, k) ==
  <<r, k>> \in orphans /\ \A j \in DOMAIN results : ~Sent(j, "replaced", r, k)

(* The key may become inactive, but not without a trace.                   *)
Tracked(r, key) ==
  \/ <<r, key>> \in active
  \/ Starting(r, key)
  \/ \E j \in DOMAIN results : \/ Sent(j, "started", r, key)
                               \/ Sent(j, "failed", r, key)

(* A key that is reported replaced by the result i is one that a key tracks*)
(* that is active then.                                                    *)
Followed(i, r, key) ==
  \/ Starting(r, key)
  \/ \E j \in DOMAIN results : /\ j > i
                               /\ \/ Sent(j, "started", r, key)
                                  \/ Sent(j, "failed", r, key)
  \/ \E j \in DOMAIN results :
       /\ j < i /\ Sent(j, "started", r, key)
       /\ \A n \in DOMAIN results :
            j < n /\ n < i => ~Sent(n, "failed", r, key)
  \/ /\ <<r, key>> \in active
     /\ \A n \in DOMAIN results : n < i => ~Sent(n, "failed", r, key)

-----------------------------------------------------------------------------
(* The inductive invariant of a behaviour that waits for calm.             *)

WorkerKinds == {"replaced", "started", "failed", "noMetrics"}

(* Nothing happens before the API resources are loaded; until the          *)
(* namespaces are, no resource that lives in namespaces is watched.        *)
Unasked ==
  /\ active = {} /\ commands = <<>> /\ starts = {} /\ watchers = {}

Startup ==
  /\ left.events = 0
  /\ "apis" \in loading =>
       /\ Unasked /\ resource = NoResource
       /\ synced = {} /\ errors = {} /\ orphans = {}
       /\ metrics = {} /\ polling = {}
       /\ \E r \in left.offers \cup {NoResource}, found \in SUBSET Namespaces :
            LET apis       == [kind |-> "apis", restored |-> r]
                namespaces == [kind |-> "nsReplaced", namespaces |-> found]
            IN  results \in IF "namespaces" \in loading
                            THEN {<<namespaces, apis>>, <<apis, namespaces>>}
                            ELSE {<<apis>>}
  /\ "namespaces" \in loading => discovered = {} /\ selected = {}
  /\ "apis" \notin loading /\ "namespaces" \in loading =>
       /\ results # <<>> /\ results[1].kind = "nsReplaced"
       /\ \A j \in DOMAIN results : j > 1 =>
            /\ results[j].kind \in WorkerKinds
            /\ results[j].kind # "noMetrics" =>
                 results[j].resource = resource /\ resource \notin Namespaced
       /\ synced = {} /\ errors = {} /\ orphans = {}
       /\ active = IF resource \in Resources \ Namespaced
                     THEN {<<resource, Whole>>} ELSE {}
       /\ \A s \in starts \cup watchers :
            s.resource = resource /\ resource \notin Namespaced
       /\ \A i \in DOMAIN commands :
            commands[i].kind = "reconcile" => resource \notin Namespaced
       /\ metrics = IF resource \notin metricsApi \ {Pods} THEN {} ELSE {Whole}
       /\ \A i \in DOMAIN commands :
            commands[i].kind # "reconcile" => commands[i].key = Whole
       /\ polling \subseteq {Whole}
  /\ loading = {} => \A j \in DOMAIN results : results[j].kind \in WorkerKinds

(* The sources are those of the namespaces discovered, and of the newest   *)
(* generation.                                                             *)
Sources ==
  /\ \A i \in DOMAIN commands : commands[i].kind = "reconcile" =>
       \A src \in commands[i].sources :
         src = SourceOf(commands[i].resource, src.key, discovered)
  /\ \A s \in starts \cup watchers :
       /\ s.source = SourceOf(s.resource, s.source.key, discovered)
       /\ s.generation = generation[s.resource]
  /\ \A w \in watchers : w.unsent \subseteq w.source.covers

(* A key is started once, and a start makes one watcher.                   *)
Unique ==
  /\ \A s, t \in starts : Is(s, t.resource, t.source.key) => s = t
  /\ \A w, v \in watchers : Is(w, v.resource, v.source.key) => w = v
  /\ \A s \in starts, w \in watchers :
       Is(s, w.resource, w.source.key) => s.pc \notin {"queued", "checked"}

(* A reconcile is alone, for the resource shown, and nothing of before the *)
(* click is under way but failures.                                        *)
OnePending ==
  /\ \A i, j \in DOMAIN commands :
       commands[i].kind = "reconcile" /\ commands[j].kind = "reconcile" => i = j
  /\ \A i \in DOMAIN commands : commands[i].kind = "reconcile" =>
       /\ resource # NoResource /\ commands[i].resource = resource
       /\ starts = {} /\ \A w \in watchers : w.unsent = {}
       /\ \A j \in DOMAIN results : results[j].kind \notin {"replaced", "started"}
       /\ \A key \in KeysOf(resource, active) :
            \E src \in commands[i].sources : src.key = key

(* What is under way, and what is active, is of the scope shown.           *)
InScope ==
  /\ \A s \in starts : s.resource = resource
  /\ \A w \in watchers : w.unsent # {} => w.resource = resource
  /\ resource # NoResource =>
       /\ KeysOf(resource, active) \subseteq Wanted
       /\ \A s \in starts : s.source.key \in Wanted
       /\ \A key \in Keys : Told("started", resource, key) => key \in Wanted
       /\ \A i \in DOMAIN commands : commands[i].kind = "reconcile" =>
            \A src \in commands[i].sources : src.key \in Wanted
       /\ ~Pending(resource) =>
            \A w \in watchers : w.resource = resource => w.source.key \in Wanted

(* The key of a watcher stays active.                                      *)
WatchersLast ==
  \A w \in watchers : Pending(w.resource) \/ Lasting(w.resource, w.source.key)

(* A key that stays active is started or watched, or fails.                *)
LastingServed ==
  \A r \in Resources, key \in Keys :
    ~Pending(r) /\ Lasting(r, key) =>
      Attempted(r, key) \/ \A k \in Cover(r, key) : Failing(r, k)

(* Each key shown is asked for or watched, or fails, or is an orphan.      *)
ScopeServed ==
  resource # NoResource =>
    \A k \in Needed(resource) :
      \/ Asked(resource, k) \/ Served(resource, k)
      \/ Failing(resource, k) \/ Orphaned(resource, k)

(* A key that is synchronized is of a watch that is active, or was and     *)
(* says so, or is an orphan; so is a key that is reported.                 *)
SyncedTracked ==
  \A r \in Resources, k \in Keys : <<r, k>> \in synced \ orphans =>
    \E key \in Keys : k \in Cover(r, key) /\ Tracked(r, key)

ReplacedTracked ==
  \A i \in DOMAIN results, r \in Resources, k \in Keys :
    Sent(i, "replaced", r, k) =>
      \E key \in Keys : k \in Cover(r, key) /\ Followed(i, r, key)

(* Where the metrics API is there, and no poller found otherwise, a key has*)
(* at most one command under way, and is polled after it as the interface  *)
(* believes.                                                               *)
Polls(i, kind, k) == commands[i].kind = kind /\ commands[i].key = k

Ended(k) ==
  \E j \in DOMAIN results :
    results[j].kind = "noMetrics" /\ results[j].resource = PolledBy(k)

For(i, k) == commands[i].kind # "reconcile" /\ commands[i].key = k

Polled(k) ==
  /\ \A i, j \in DOMAIN commands : For(i, k) /\ For(j, k) => i = j
  /\ k \in metrics <=>
       \/ \E i \in DOMAIN commands : Polls(i, "start", k)
       \/ /\ k \in polling
          /\ \A i \in DOMAIN commands : ~Polls(i, "stop", k)

Pollers ==
  /\ \A k \in metrics : PolledBy(k) \in metricsApi
  /\ \A k \in Keys : PolledBy(k) \in metricsApi /\ ~Ended(k) => Polled(k)

Watching ==
  /\ Sources /\ Unique /\ OnePending /\ InScope /\ WatchersLast
  /\ LastingServed /\ ScopeServed /\ SyncedTracked /\ ReplacedTracked

Calm == Startup /\ Watching /\ Pollers

CalmInv == TypeOK /\ (left.calm => Calm)

-----------------------------------------------------------------------------
(* How a result on its way, and one that arrives, change what will be.     *)

LEMMA Unreported ==
  ASSUME UNCHANGED <<results, active, errors, orphans, selected>>
  PROVE  /\ \A r \in Resources, key \in Keys : Held(r, key)' <=> Held(r, key)
         /\ \A r \in Resources, k \in Keys : Failing(r, k)' <=> Failing(r, k)
         /\ \A r \in Resources, k \in Keys : Orphaned(r, k)' <=> Orphaned(r, k)
         /\ \A r \in Resources, key \in Keys :
              (Starting(r, key) => Starting(r, key)') =>
                /\ Tracked(r, key) => Tracked(r, key)'
                /\ \A i \in DOMAIN results :
                     Followed(i, r, key) => Followed(i, r, key)'
         /\ \A kind, r, key : Told(kind, r, key)' <=> Told(kind, r, key)
<1>1. \A r \in Resources, key \in Keys : Held(r, key)' <=> Held(r, key)
  BY DEF Held, Sent, Of
<1>2. \A r \in Resources, k \in Keys : Failing(r, k)' <=> Failing(r, k)
  BY DEF Failing, Hits, Sent, Of
<1>3. \A r \in Resources, k \in Keys : Orphaned(r, k)' <=> Orphaned(r, k)
  BY DEF Orphaned, Sent, Of
<1>4. ASSUME NEW r \in Resources, NEW key \in Keys,
             Starting(r, key) => Starting(r, key)'
      PROVE  /\ Tracked(r, key) => Tracked(r, key)'
             /\ \A i \in DOMAIN results :
                  Followed(i, r, key) => Followed(i, r, key)'
  BY <1>4 DEF Tracked, Followed, Sent, Of
<1>5. \A kind, r, key : Told(kind, r, key)' <=> Told(kind, r, key)
  BY DEF Told, Sent, Of
<1>6. QED
  BY <1>1, <1>2, <1>3, <1>4, <1>5

LEMMA Reported ==
  ASSUME TypeOK, NEW e \in Result, results' = Append(results, e),
         UNCHANGED <<active, errors, orphans, selected>>
  PROVE  /\ \A r \in Resources, key \in Keys :
              Held(r, key)' <=> \/ Of(e, "started", r, key)
                                \/ Held(r, key) /\ ~Of(e, "failed", r, key)
         /\ \A r \in Resources, k \in Keys :
              Failing(r, k)' <=> \/ Hits(e, selected, r, k)
                                 \/ Failing(r, k) /\ ~Of(e, "replaced", r, k)
         /\ \A r \in Resources, k \in Keys :
              Orphaned(r, k)' <=> Orphaned(r, k) /\ ~Of(e, "replaced", r, k)
         /\ \A r \in Resources, key \in Keys :
              (Starting(r, key) => \/ Starting(r, key)'
                                   \/ Of(e, "started", r, key)
                                   \/ Of(e, "failed", r, key))
              => /\ Tracked(r, key) => Tracked(r, key)'
                 /\ \A i \in DOMAIN results :
                      Followed(i, r, key) => Followed(i, r, key)'
         /\ \E last \in DOMAIN results' :
              /\ DOMAIN results' = DOMAIN results \cup {last}
              /\ results'[last] = e
              /\ \A i \in DOMAIN results : results'[i] = results[i] /\ i < last
              /\ \A r \in Resources, key \in Keys :
                   Held(r, key) => Followed(last, r, key)'
         /\ \A kind, r, key :
              Told(kind, r, key)' <=> Told(kind, r, key) \/ Of(e, kind, r, key)
<1>1. PICK last \in DOMAIN results' :
        /\ DOMAIN results' = DOMAIN results \cup {last}
        /\ results'[last] = e
        /\ \A i \in DOMAIN results : results'[i] = results[i] /\ i < last /\ i \in Int
        /\ last \in Int
  <2> DEFINE z == Len(results) + 1
  <2>1. results \in Seq(Result)
    BY DEF TypeOK
  <2>2. /\ z \in DOMAIN results'
        /\ DOMAIN results' = DOMAIN results \cup {z}
        /\ results'[z] = e
        /\ \A i \in DOMAIN results : results'[i] = results[i] /\ i < z /\ i \in Int
        /\ z \in Int
    BY <2>1, AppendIs
  <2> HIDE DEF z
  <2>3. QED
    BY <2>2
<1>2. \A r \in Resources, key \in Keys :
        Held(r, key)' <=> \/ Of(e, "started", r, key)
                          \/ Held(r, key) /\ ~Of(e, "failed", r, key)
  BY <1>1 DEF Held, Sent, Of
<1>3. \A r \in Resources, k \in Keys :
        Failing(r, k)' <=> \/ Hits(e, selected, r, k)
                           \/ Failing(r, k) /\ ~Of(e, "replaced", r, k)
  BY <1>1 DEF Failing, Sent, Of, Hits
<1>4. \A r \in Resources, k \in Keys :
        Orphaned(r, k)' <=> Orphaned(r, k) /\ ~Of(e, "replaced", r, k)
  BY <1>1 DEF Orphaned, Sent, Of
<1>5. ASSUME NEW r \in Resources, NEW key \in Keys,
             Starting(r, key) => \/ Starting(r, key)'
                                 \/ Of(e, "started", r, key)
                                 \/ Of(e, "failed", r, key)
      PROVE  /\ Tracked(r, key) => Tracked(r, key)'
             /\ \A i \in DOMAIN results :
                  Followed(i, r, key) => Followed(i, r, key)'
  <2>1. Tracked(r, key) => Tracked(r, key)'
    BY <1>1, <1>5 DEF Tracked, Sent
  <2>2. ASSUME NEW i \in DOMAIN results, Followed(i, r, key)
        PROVE  Followed(i, r, key)'
    BY <1>1, <1>5, <2>2 DEF Followed, Sent
  <2>3. QED
    BY <2>1, <2>2
<1>6. ASSUME NEW r \in Resources, NEW key \in Keys, Held(r, key)
      PROVE  Followed(last, r, key)'
  <2>1. CASE <<r, key>> \in active /\ \A j \in DOMAIN results : ~Sent(j, "failed", r, key)
    BY <1>1, <2>1 DEF Followed, Sent
  <2>2. ASSUME NEW i \in DOMAIN results, Sent(i, "started", r, key),
               \A j \in DOMAIN results : j > i => ~Sent(j, "failed", r, key)
        PROVE  Followed(last, r, key)'
    <3>1. i \in DOMAIN results' /\ i < last /\ Sent(i, "started", r, key)'
      BY <1>1, <2>2 DEF Sent
    <3>2. \A n \in DOMAIN results' : i < n /\ n < last => ~Sent(n, "failed", r, key)'
      <4> TAKE n \in DOMAIN results'
      <4> HAVE i < n /\ n < last
      <4>1. n \in DOMAIN results /\ n > i
        BY <1>1
      <4>2. QED
        BY <1>1, <2>2, <4>1 DEF Sent
    <3>3. QED
      BY <3>1, <3>2 DEF Followed
  <2>3. QED
    BY <1>6, <2>1, <2>2 DEF Held
<1>7. \E z \in DOMAIN results' :
        /\ DOMAIN results' = DOMAIN results \cup {z}
        /\ results'[z] = e
        /\ \A i \in DOMAIN results : results'[i] = results[i] /\ i < z
        /\ \A r \in Resources, key \in Keys :
             Held(r, key) => Followed(z, r, key)'
  BY <1>1, <1>6
<1>8. \A kind, r, key :
        Told(kind, r, key)' <=> Told(kind, r, key) \/ Of(e, kind, r, key)
  BY <1>1 DEF Told, Sent
<1>9. QED
  BY <1>2, <1>3, <1>4, <1>5, <1>7, <1>8

(* The first result arrives.                                               *)
LEMMA Arrived ==
  ASSUME TypeOK, results # <<>>, results' = Tail(results), NEW e, e = results[1],
         \A r \in Resources, key \in Keys :
           <<r, key>> \in active' <=>
             \/ Of(e, "started", r, key)
             \/ <<r, key>> \in active /\ ~Of(e, "failed", r, key),
         \A r \in Resources, k \in Keys :
           <<r, k>> \in errors' <=>
             \/ Hits(e, selected, r, k)
             \/ <<r, k>> \in errors /\ ~Of(e, "replaced", r, k),
         \A r \in Resources, k \in Keys :
           <<r, k>> \in orphans /\ ~Of(e, "replaced", r, k) =>
             <<r, k>> \in orphans' \/ Hits(e, selected, r, k),
         \/ selected' = selected
         \/ \A i \in DOMAIN results :
              results[i].kind = "failed" => results[i].resource \notin Namespaced,
         UNCHANGED starts
  PROVE  /\ \A r \in Resources, key \in Keys : Held(r, key)' <=> Held(r, key)
         /\ \A r \in Resources, k \in Keys : Failing(r, k)' <=> Failing(r, k)
         /\ \A r \in Resources, k \in Keys :
              Orphaned(r, k) => Orphaned(r, k)' \/ Failing(r, k)'
         /\ \A r \in Resources, key \in Keys :
              /\ Tracked(r, key) /\ ~Of(e, "failed", r, key) => Tracked(r, key)'
              /\ Followed(1, r, key) /\ ~Of(e, "failed", r, key)
                   => Tracked(r, key)'
              /\ \A i \in DOMAIN results' :
                   Followed(i + 1, r, key) => Followed(i, r, key)'
         /\ \A i \in DOMAIN results' :
              i + 1 \in DOMAIN results /\ results'[i] = results[i + 1]
         /\ \A kind, r, key : Told(kind, r, key)' => Told(kind, r, key)
<1>1. /\ 1 \in DOMAIN results
      /\ \A i \in DOMAIN results : i \in Int /\ i >= 1
      /\ \A i \in DOMAIN results' :
           /\ i \in Int /\ i >= 1
           /\ i + 1 \in DOMAIN results /\ results'[i] = results[i + 1]
      /\ \A i \in DOMAIN results \ {1} :
           i - 1 \in DOMAIN results' /\ results'[i - 1] = results[i]
  BY TailIs DEF TypeOK
<1>2. \A r \in Resources, key \in Keys : Held(r, key)' <=> Held(r, key)
  <2> TAKE r \in Resources, key \in Keys
  <2>1. ASSUME Held(r, key) PROVE Held(r, key)'
    <3>1. CASE \A j \in DOMAIN results' : ~Sent(j, "failed", r, key)'
      <4>1. ASSUME NEW i \in DOMAIN results \ {1}, Sent(i, "started", r, key)
            PROVE  Held(r, key)'
        BY <1>1, <4>1, <3>1 DEF Sent, Held
      <4>2. CASE Of(e, "started", r, key)
        BY <3>1, <4>2 DEF Held
      <4>3. CASE <<r, key>> \in active /\ \A j \in DOMAIN results : ~Sent(j, "failed", r, key)
        BY <1>1, <4>3, <3>1 DEF Sent, Held
      <4>4. QED
        BY <2>1, <4>1, <4>2, <4>3 DEF Held, Sent
    <3>2. ASSUME NEW j \in DOMAIN results', Sent(j, "failed", r, key)'
          PROVE  Held(r, key)'
      <4>1. j + 1 \in DOMAIN results /\ Sent(j + 1, "failed", r, key) /\ j \in Int /\ j >= 1
        BY <1>1, <3>2 DEF Sent
      <4>2. PICK i \in DOMAIN results :
              /\ Sent(i, "started", r, key)
              /\ \A n \in DOMAIN results : n > i => ~Sent(n, "failed", r, key)
        BY <2>1, <4>1 DEF Held
      <4>3. i # 1 /\ i \in Int
        BY <1>1, <4>1, <4>2
      <4>4. i - 1 \in DOMAIN results' /\ Sent(i - 1, "started", r, key)'
        BY <1>1, <4>2, <4>3 DEF Sent
      <4>5. \A n \in DOMAIN results' : n > i - 1 => ~Sent(n, "failed", r, key)'
        <5> TAKE n \in DOMAIN results'
        <5> HAVE n > i - 1
        <5>1. n + 1 \in DOMAIN results /\ n + 1 > i
          BY <1>1, <4>3
        <5>2. QED
          BY <1>1, <4>2, <5>1 DEF Sent
      <4>6. QED
        BY <4>4, <4>5 DEF Held
    <3>3. QED
      BY <3>1, <3>2
  <2>2. ASSUME Held(r, key)' PROVE Held(r, key)
    <3>1. CASE \A j \in DOMAIN results' : ~Sent(j, "failed", r, key)'
      <4>1. \A n \in DOMAIN results : n > 1 => ~Sent(n, "failed", r, key)
        <5> TAKE n \in DOMAIN results
        <5> HAVE n > 1
        <5>1. n - 1 \in DOMAIN results' /\ results'[n - 1] = results[n]
          BY <1>1
        <5>2. QED
          BY <3>1, <5>1 DEF Sent
      <4>2. ASSUME NEW i \in DOMAIN results', Sent(i, "started", r, key)'
            PROVE  Held(r, key)
        BY <1>1, <4>2, <4>1 DEF Sent, Held
      <4>3. CASE Of(e, "started", r, key)
        BY <1>1, <4>3, <4>1 DEF Sent, Held
      <4>4. CASE <<r, key>> \in active /\ ~Of(e, "failed", r, key)
        <5>1. \A n \in DOMAIN results : ~Sent(n, "failed", r, key)
          <6> TAKE n \in DOMAIN results
          <6>1. CASE n = 1
            BY <4>4, <6>1 DEF Sent
          <6>2. CASE n # 1
            BY <1>1, <4>1, <6>2
          <6>3. QED
            BY <6>1, <6>2
        <5>2. QED
          BY <4>4, <5>1 DEF Held
      <4>5. QED
        BY <2>2, <4>2, <4>3, <4>4 DEF Held
    <3>2. ASSUME NEW j \in DOMAIN results', Sent(j, "failed", r, key)'
          PROVE  Held(r, key)
      <4>1. PICK i \in DOMAIN results' :
              /\ Sent(i, "started", r, key)'
              /\ \A n \in DOMAIN results' : n > i => ~Sent(n, "failed", r, key)'
        BY <2>2, <3>2 DEF Held
      <4>2. i \in Int /\ i + 1 \in DOMAIN results /\ Sent(i + 1, "started", r, key)
        BY <1>1, <4>1 DEF Sent
      <4>3. \A n \in DOMAIN results : n > i + 1 => ~Sent(n, "failed", r, key)
        <5> TAKE n \in DOMAIN results
        <5> HAVE n > i + 1
        <5>1. n - 1 \in DOMAIN results' /\ n - 1 > i /\ results'[n - 1] = results[n]
          BY <1>1, <4>2
        <5>2. QED
          BY <4>1, <5>1 DEF Sent
      <4>4. QED
        BY <4>2, <4>3 DEF Held
    <3>3. QED
      BY <3>1, <3>2
  <2>3. QED
    BY <2>1, <2>2
<1>3. \A r \in Resources, k \in Keys : Failing(r, k)' <=> Failing(r, k)
  <2> TAKE r \in Resources, k \in Keys
  <2>1. \A i \in DOMAIN results :
          Hits(results[i], selected, r, k) <=> Hits(results[i], selected', r, k)
    BY DEF Hits
  <2>2. ASSUME Failing(r, k) PROVE Failing(r, k)'
    <3>1. CASE \A j \in DOMAIN results' : ~Sent(j, "replaced", r, k)'
      <4>1. ASSUME NEW i \in DOMAIN results \ {1}, Hits(results[i], selected, r, k)
            PROVE  Failing(r, k)'
        BY <1>1, <2>1, <4>1, <3>1 DEF Failing
      <4>2. CASE Hits(e, selected, r, k)
        BY <3>1, <4>2 DEF Failing
      <4>3. CASE <<r, k>> \in errors /\ \A j \in DOMAIN results : ~Sent(j, "replaced", r, k)
        BY <1>1, <4>3, <3>1 DEF Sent, Failing
      <4>4. QED
        BY <2>2, <4>1, <4>2, <4>3 DEF Failing
    <3>2. ASSUME NEW j \in DOMAIN results', Sent(j, "replaced", r, k)'
          PROVE  Failing(r, k)'
      <4>1. j + 1 \in DOMAIN results /\ Sent(j + 1, "replaced", r, k) /\ j \in Int /\ j >= 1
        BY <1>1, <3>2 DEF Sent
      <4>2. PICK i \in DOMAIN results :
              /\ Hits(results[i], selected, r, k)
              /\ \A n \in DOMAIN results : n > i => ~Sent(n, "replaced", r, k)
        BY <2>2, <4>1 DEF Failing
      <4>3. i # 1 /\ i \in Int
        BY <1>1, <4>1, <4>2
      <4>4. i - 1 \in DOMAIN results' /\ Hits(results'[i - 1], selected', r, k)
        BY <1>1, <2>1, <4>2, <4>3
      <4>5. \A n \in DOMAIN results' : n > i - 1 => ~Sent(n, "replaced", r, k)'
        <5> TAKE n \in DOMAIN results'
        <5> HAVE n > i - 1
        <5>1. n + 1 \in DOMAIN results /\ n + 1 > i
          BY <1>1, <4>3
        <5>2. QED
          BY <1>1, <4>2, <5>1 DEF Sent
      <4>6. QED
        BY <4>4, <4>5 DEF Failing
    <3>3. QED
      BY <3>1, <3>2
  <2>3. ASSUME Failing(r, k)' PROVE Failing(r, k)
    <3>1. CASE \A j \in DOMAIN results' : ~Sent(j, "replaced", r, k)'
      <4>1. \A n \in DOMAIN results : n > 1 => ~Sent(n, "replaced", r, k)
        <5> TAKE n \in DOMAIN results
        <5> HAVE n > 1
        <5>1. n - 1 \in DOMAIN results' /\ results'[n - 1] = results[n]
          BY <1>1
        <5>2. QED
          BY <3>1, <5>1 DEF Sent
      <4>2. ASSUME NEW i \in DOMAIN results', Hits(results'[i], selected', r, k)
            PROVE  Failing(r, k)
        BY <1>1, <2>1, <4>2, <4>1 DEF Failing
      <4>3. CASE Hits(e, selected, r, k)
        BY <1>1, <4>1, <4>3 DEF Failing
      <4>4. CASE <<r, k>> \in errors /\ ~Of(e, "replaced", r, k)
        <5>1. \A n \in DOMAIN results : ~Sent(n, "replaced", r, k)
          <6> TAKE n \in DOMAIN results
          <6>1. CASE n = 1
            BY <4>4, <6>1 DEF Sent
          <6>2. CASE n # 1
            BY <1>1, <4>1, <6>2
          <6>3. QED
            BY <6>1, <6>2
        <5>2. QED
          BY <4>4, <5>1 DEF Failing
      <4>5. QED
        BY <2>3, <4>2, <4>3, <4>4 DEF Failing
    <3>2. ASSUME NEW j \in DOMAIN results', Sent(j, "replaced", r, k)'
          PROVE  Failing(r, k)
      <4>1. PICK i \in DOMAIN results' :
              /\ Hits(results'[i], selected', r, k)
              /\ \A n \in DOMAIN results' : n > i => ~Sent(n, "replaced", r, k)'
        BY <2>3, <3>2 DEF Failing
      <4>2. i \in Int /\ i + 1 \in DOMAIN results /\ Hits(results[i + 1], selected, r, k)
        BY <1>1, <2>1, <4>1
      <4>3. \A n \in DOMAIN results : n > i + 1 => ~Sent(n, "replaced", r, k)
        <5> TAKE n \in DOMAIN results
        <5> HAVE n > i + 1
        <5>0. i \in Int /\ i >= 1 /\ n \in Int /\ n # 1 /\ n - 1 > i
          BY <1>1
        <5>1. n - 1 \in DOMAIN results' /\ n - 1 > i /\ results'[n - 1] = results[n]
          BY <1>1, <5>0
        <5>2. QED
          BY <4>1, <5>1 DEF Sent
      <4>4. QED
        BY <4>2, <4>3 DEF Failing
    <3>3. QED
      BY <3>1, <3>2
  <2>4. QED
    BY <2>2, <2>3
<1>4. ASSUME NEW r \in Resources, NEW k \in Keys, Orphaned(r, k)
      PROVE  Orphaned(r, k)' \/ Failing(r, k)'
  <2>1. /\ <<r, k>> \in orphans
        /\ \A j \in DOMAIN results : ~Sent(j, "replaced", r, k)
    BY <1>4 DEF Orphaned
  <2>2. \A j \in DOMAIN results' : ~Sent(j, "replaced", r, k)'
    BY <1>1, <2>1 DEF Sent
  <2>3. ~Of(e, "replaced", r, k)
    BY <1>1, <2>1 DEF Sent
  <2>4. CASE <<r, k>> \in orphans'
    BY <2>2, <2>4 DEF Orphaned
  <2>5. CASE Hits(e, selected, r, k)
    BY <2>2, <2>5 DEF Failing
  <2>6. QED
    BY <2>1, <2>3, <2>4, <2>5
<1>5. ASSUME NEW r \in Resources, NEW key \in Keys
      PROVE  /\ Tracked(r, key) /\ ~Of(e, "failed", r, key) => Tracked(r, key)'
             /\ Followed(1, r, key) /\ ~Of(e, "failed", r, key) => Tracked(r, key)'
  <2>1. Starting(r, key)' <=> Starting(r, key)
    BY DEF Starting, Is
  <2>2. ASSUME NEW j \in DOMAIN results,
               Sent(j, "started", r, key) \/ Sent(j, "failed", r, key),
               ~Of(e, "failed", r, key)
        PROVE  Tracked(r, key)'
    <3>1. CASE j = 1
      BY <2>2, <3>1 DEF Tracked, Sent
    <3>2. CASE j # 1
      BY <1>1, <3>2, <2>2 DEF Tracked, Sent
    <3>3. QED
      BY <3>1, <3>2
  <2>3. ASSUME <<r, key>> \in active, ~Of(e, "failed", r, key)
        PROVE  Tracked(r, key)'
    BY <2>3 DEF Tracked
  <2>4. ASSUME Starting(r, key) PROVE Tracked(r, key)'
    BY <2>1, <2>4 DEF Tracked
  <2>5. QED
    BY <2>2, <2>3, <2>4 DEF Tracked, Followed
<1>6. ASSUME NEW r \in Resources, NEW key \in Keys, NEW i \in DOMAIN results',
             Followed(i + 1, r, key)
      PROVE  Followed(i, r, key)'
  <2>1. i \in Int /\ i >= 1 /\ i + 1 \in DOMAIN results
    BY <1>1
  <2>2. CASE Starting(r, key)
    BY <2>2 DEF Followed, Starting, Is
  <2>3. ASSUME NEW j \in DOMAIN results, j > i + 1,
               Sent(j, "started", r, key) \/ Sent(j, "failed", r, key)
        PROVE  Followed(i, r, key)'
    <3>1. j - 1 \in DOMAIN results' /\ results'[j - 1] = results[j] /\ j - 1 > i
      BY <1>1, <2>1, <2>3
    <3>2. QED
      BY <2>3, <3>1 DEF Followed, Sent
  <2>4. ASSUME NEW j \in DOMAIN results, j < i + 1, Sent(j, "started", r, key),
               \A n \in DOMAIN results :
                 j < n /\ n < i + 1 => ~Sent(n, "failed", r, key)
        PROVE  Followed(i, r, key)'
    <3>1. \A n \in DOMAIN results' : j - 1 < n /\ n < i => ~Sent(n, "failed", r, key)'
      <4> TAKE n \in DOMAIN results'
      <4> HAVE j - 1 < n /\ n < i
      <4>1. n + 1 \in DOMAIN results /\ j < n + 1 /\ n + 1 < i + 1
        BY <1>1, <2>1
      <4>2. QED
        BY <1>1, <2>4, <4>1 DEF Sent
    <3>2. CASE j = 1
      BY <2>4, <3>2, <1>1, <3>1 DEF Sent, Followed
    <3>3. CASE j # 1
      BY <1>1, <2>1, <2>4, <3>3, <3>1 DEF Sent, Followed
    <3>4. QED
      BY <3>2, <3>3
  <2>5. ASSUME <<r, key>> \in active,
               \A n \in DOMAIN results : n < i + 1 => ~Sent(n, "failed", r, key)
        PROVE  Followed(i, r, key)'
    <3>1. ~Of(e, "failed", r, key)
      BY <1>1, <2>1, <2>5 DEF Sent
    <3>2. \A n \in DOMAIN results' : n < i => ~Sent(n, "failed", r, key)'
      <4> TAKE n \in DOMAIN results'
      <4> HAVE n < i
      <4>1. n + 1 \in DOMAIN results /\ n + 1 < i + 1
        BY <1>1, <2>1
      <4>2. QED
        BY <1>1, <2>5, <4>1 DEF Sent
    <3>3. QED
      BY <2>5, <3>1, <3>2 DEF Followed
  <2>6. QED
    BY <1>6, <2>2, <2>3, <2>4, <2>5 DEF Followed
<1>7. \A i \in DOMAIN results' :
        i + 1 \in DOMAIN results /\ results'[i] = results[i + 1]
  BY <1>1
<1>8. \A kind, r, key : Told(kind, r, key)' => Told(kind, r, key)
  BY <1>1 DEF Told, Sent
<1>9. QED
  BY <1>2, <1>3, <1>4, <1>5, <1>6, <1>7, <1>8

-----------------------------------------------------------------------------
(* Facts that the steps of the worker share.                               *)

LEMMA Fixed ==
  ASSUME UNCHANGED <<discovered, selected, resource>>
  PROVE  /\ Wanted' = Wanted
         /\ \A r \in Resources, key \in Keys : Cover(r, key)' = Cover(r, key)
         /\ \A r \in Resources : Needed(r)' = Needed(r)
  BY DEF Wanted, Cover, Needed, Desired, AllSelected, SourceOf

LEMMA PartsAre ==
  ASSUME TypeOK
  PROVE  /\ \A s \in starts \cup watchers :
              s.resource \in Resources /\ s.source.key \in Keys
              /\ s.source.covers \subseteq Keys
         /\ \A w \in watchers : w.unsent \subseteq Keys
         /\ \A i \in DOMAIN commands :
              /\ commands[i] \in Command
              /\ commands[i].kind = "reconcile" =>
                   /\ commands[i].resource \in Resources
                   /\ \A src \in commands[i].sources :
                        src.key \in Keys /\ src.covers \subseteq Keys
         /\ \A i \in DOMAIN results : results[i] \in Result
         /\ resource # NoResource => resource \in Resources
         /\ selected \in SUBSET Namespaces /\ discovered \in SUBSET Namespaces
<1>1. \A s \in starts \cup watchers :
        s.resource \in Resources /\ s.source.key \in Keys
        /\ s.source.covers \subseteq Keys
  BY DEF TypeOK, Start, Watcher, Source
<1>2. \A w \in watchers : w.unsent \subseteq Keys
  BY DEF TypeOK, Watcher
<1>3. \A i \in DOMAIN commands : commands[i] \in Command
  BY ElementOfSeq, LenProperties DEF TypeOK
<1>4. \A i \in DOMAIN results : results[i] \in Result
  BY ElementOfSeq, LenProperties DEF TypeOK
<1>5. \A i \in DOMAIN commands : commands[i].kind = "reconcile" =>
        /\ commands[i].resource \in Resources
        /\ \A src \in commands[i].sources :
             src.key \in Keys /\ src.covers \subseteq Keys
  BY <1>3, CommandIs DEF Source
<1>6. QED
  BY <1>1, <1>2, <1>3, <1>4, <1>5 DEF TypeOK

(* The keys that are wanted do not overlap; a source that is wanted covers *)
(* what is needed, and all of it is selected.                              *)
LEMMA WantedIs ==
  ASSUME TypeOK, resource \in Resources
  PROVE  /\ Wanted \subseteq Keys
         /\ \A a, b \in Wanted, k \in Keys :
              k \in Cover(resource, a) /\ k \in Cover(resource, b) => a = b
         /\ \A a \in Wanted : Cover(resource, a) \subseteq Needed(resource)
         /\ \A k \in Needed(resource) : \E a \in Wanted : k \in Cover(resource, a)
         /\ Whole \in Wanted /\ resource \in Namespaced => selected = discovered
<1>1. selected \subseteq Namespaces /\ discovered \subseteq Namespaces
  BY DEF TypeOK
<1>2. CASE resource \notin Namespaced
  BY <1>2 DEF Wanted, Desired, AllSelected, Cover, SourceOf, Needed, Keys
<1>3. CASE resource \in Namespaced /\ AllSelected(resource, discovered, selected)
  BY <1>1, <1>3 DEF Wanted, Desired, AllSelected, Cover, SourceOf, Needed, Keys
<1>4. CASE resource \in Namespaced /\ ~AllSelected(resource, discovered, selected)
  BY <1>1, <1>4, ScopeAssumption DEF Wanted, Desired, Cover, SourceOf, Needed,
     Keys
<1>5. QED
  BY <1>2, <1>3, <1>4

LEMMA ReportIs ==
  ASSUME TypeOK, NEW kind \in {"started", "failed"}, NEW w \in starts \cup watchers,
         Report(kind, w)
  PROVE  \E e \in Result :
           /\ results' = Append(results, e)
           /\ e.kind = kind /\ e.resource = w.resource /\ e.key = w.source.key
<1>1. w.resource \in Resources /\ w.source.key \in Keys
  BY PartsAre
<1>2. [kind |-> kind, resource |-> w.resource, key |-> w.source.key] \in Result
  BY <1>1 DEF Result
<1>3. QED
  BY <1>2 DEF Report

(* What a source of the newest scope covers.                               *)
LEMMA CoversAre ==
  ASSUME Sources
  PROVE  \A s \in starts \cup watchers :
           s.source.covers = Cover(s.resource, s.source.key)
  BY DEF Sources, Cover, SourceOf

(* The failure of a source of the resource shown hits what is needed of it.*)
LEMMA FailureHits ==
  ASSUME Sources, NEW s \in starts \cup watchers, s.resource = resource,
         NEW e, e.kind = "failed", e.resource = s.resource, e.key = s.source.key,
         NEW k \in s.source.covers, k \in Needed(resource)
  PROVE  Hits(e, selected, resource, k)
<1>1. s.source.covers = IF e.key = Whole /\ resource \in Namespaced
                        THEN discovered ELSE {e.key}
  BY CoversAre DEF Cover, SourceOf
<1>2. CASE e.key = Whole /\ resource \in Namespaced
  BY <1>2 DEF Needed, Hits
<1>3. CASE ~(e.key = Whole /\ resource \in Namespaced)
  BY <1>1, <1>3 DEF Hits
<1>4. QED
  BY <1>2, <1>3
-----------------------------------------------------------------------------
(* The steps of the starts.                                                *)

LEMMA StartFailsWatching ==
  ASSUME TypeOK, Watching, NEW s \in starts, StartFails(s)
  PROVE  Watching'
<1>1. /\ s.pc = "checked" /\ starts' = starts \ {s} /\ Report("failed", s)
      /\ UNCHANGED <<watchers, commands, generation>> /\ UNCHANGED ui
  BY DEF StartFails
<1>2. UNCHANGED <<discovered, selected, resource, active, synced, errors, orphans>>
  BY <1>1 DEF ui, scope, cache
<1>3. PICK e \in Result :
        /\ results' = Append(results, e)
        /\ e.kind = "failed" /\ e.resource = s.resource /\ e.key = s.source.key
  BY <1>1, ReportIs
<1>4. /\ Sources /\ Unique /\ OnePending /\ InScope /\ WatchersLast
      /\ LastingServed /\ ScopeServed /\ SyncedTracked /\ ReplacedTracked
  BY DEF Watching
<1>5. \A i \in DOMAIN commands : commands[i].kind # "reconcile"
  BY <1>4 DEF OnePending
<1>6. s.resource = resource /\ resource \in Resources /\ resource # NoResource
  BY <1>4, PartsAre, ScopeAssumption DEF InScope
<1>7. /\ Wanted' = Wanted
      /\ \A r \in Resources, key \in Keys : Cover(r, key)' = Cover(r, key)
      /\ \A r \in Resources : Needed(r)' = Needed(r)
  BY <1>2, Fixed
<1>8. /\ \A r \in Resources, key \in Keys :
           Held(r, key)' <=> Held(r, key) /\ ~Of(e, "failed", r, key)
      /\ \A r \in Resources, k \in Keys :
           Failing(r, k)' <=> Hits(e, selected, r, k) \/ Failing(r, k)
      /\ \A r \in Resources, k \in Keys : Orphaned(r, k) => Orphaned(r, k)'
  BY <1>2, <1>3, Reported DEF Of
<1>9. \A r \in Resources, key \in Keys :
        Starting(r, key) => Starting(r, key)' \/ Of(e, "failed", r, key)
  BY <1>1, <1>3 DEF Starting, Is, Of
<1>10. \A r \in Resources : ~Pending(r) /\ ~Pending(r)'
  BY <1>1, <1>5 DEF Pending, Asks
<1>11. Sources'
  BY <1>1, <1>2, <1>4 DEF Sources, SourceOf
<1>12. Unique'
  BY <1>1, <1>4 DEF Unique, Is
<1>13. OnePending'
  BY <1>1, <1>5 DEF OnePending
<1>14. InScope'
  <2>1. \A key \in Keys : Told("started", resource, key)' => key \in Wanted
    BY <1>2, <1>3, <1>4, <1>6, Reported DEF InScope, Of
  <2>2. \A s1 \in starts' : s1.source.key \in Wanted
    BY <1>1, <1>4, <1>6 DEF InScope
  <2>3. \A i \in DOMAIN commands' : commands'[i].kind # "reconcile"
    BY <1>1, <1>5
  <2>4. KeysOf(resource, active)' \subseteq Wanted
    BY <1>2, <1>4, <1>6 DEF InScope, KeysOf
  <2>5. \A w \in watchers' : /\ w.unsent # {} => w.resource = resource
                             /\ w.resource = resource => w.source.key \in Wanted
    BY <1>1, <1>4, <1>6, <1>10 DEF InScope
  <2>6. \A s1 \in starts' : s1.resource = resource
    BY <1>1, <1>4 DEF InScope
  <2>7. QED
    BY <1>2, <1>7, <2>1, <2>2, <2>3, <2>4, <2>5, <2>6 DEF InScope
<1>15. WatchersLast'
  <2> SUFFICES ASSUME NEW w \in watchers'
               PROVE  Lasting(w.resource, w.source.key)'
    BY DEF WatchersLast
  <2>1. w \in watchers /\ w.resource \in Resources /\ w.source.key \in Keys
    BY <1>1, PartsAre
  <2>2. Lasting(w.resource, w.source.key)
    BY <1>4, <1>10, <2>1 DEF WatchersLast
  <2>3. CASE Of(e, "failed", w.resource, w.source.key)
    BY <1>3, <2>3, <1>1, <1>4, <2>1 DEF Is, Of, Unique
  <2>4. CASE ~Of(e, "failed", w.resource, w.source.key)
    BY <1>8, <1>9, <2>1, <2>2, <2>4 DEF Lasting
  <2>5. QED
    BY <2>3, <2>4
<1>16. LastingServed'
  <2> SUFFICES ASSUME NEW r \in Resources, NEW key \in Keys, Lasting(r, key)'
               PROVE  \/ Attempted(r, key)'
                      \/ \A k \in Cover(r, key)' : Failing(r, k)'
    BY DEF LastingServed
  <2>1. ~Of(e, "failed", r, key)
    <3> SUFFICES ASSUME Of(e, "failed", r, key) PROVE FALSE
      OBVIOUS
    <3>1. PICK s1 \in starts' : Is(s1, r, key)
      BY <1>8 DEF Lasting, Starting, Is
    <3>2. s1 \in starts /\ s1 # s /\ Is(s1, s.resource, s.source.key)
      BY <1>1, <1>3, <3>1 DEF Is, Of
    <3>3. QED
      BY <1>4, <3>2 DEF Unique
  <2>2. Lasting(r, key)
    BY <1>1, <1>8 DEF Lasting, Starting, Is
  <2>3. CASE Attempted(r, key)
    BY <1>1, <1>3, <2>1, <2>3 DEF Attempted, Is, Of
  <2>4. CASE \A k \in Cover(r, key) : Failing(r, k)
    <3>1. Cover(r, key) \subseteq Keys
      BY PartsAre DEF Cover, SourceOf, Keys
    <3>2. QED
      BY <1>7, <1>8, <2>4, <3>1
  <2>5. QED
    BY <1>4, <1>10, <2>2, <2>3, <2>4 DEF LastingServed
<1>17. ScopeServed'
  <2> SUFFICES ASSUME NEW k \in Needed(resource)
               PROVE  \/ Served(resource, k)' \/ Failing(resource, k)'
                      \/ Orphaned(resource, k)'
    BY <1>2, <1>6, <1>7 DEF ScopeServed
  <2>1. k \in Keys
    BY <1>6, PartsAre DEF Needed, Keys
  <2>2. \/ Served(resource, k) \/ Failing(resource, k) \/ Orphaned(resource, k)
    BY <1>4, <1>5, <1>6 DEF ScopeServed, Asked, Asks
  <2>3. CASE Failing(resource, k) \/ Orphaned(resource, k)
    BY <1>2, <1>6, <1>8, <2>1, <2>3
  <2>4. CASE k \in s.source.covers
    BY <1>3, <1>4, <1>6, <2>4, FailureHits, <1>2, <1>8, <2>1
  <2>5. CASE Served(resource, k) /\ k \notin s.source.covers
    BY <1>1, <1>2, <1>6, <1>10, <2>5 DEF Served
  <2>6. QED
    BY <2>2, <2>3, <2>4, <2>5
<1>18. \A r \in Resources, key \in Keys :
         /\ Tracked(r, key) => Tracked(r, key)'
         /\ \A i \in DOMAIN results : Followed(i, r, key) => Followed(i, r, key)'
  BY <1>2, <1>3, <1>9, Reported
<1>19. SyncedTracked'
  BY <1>2, <1>4, <1>7, <1>18 DEF SyncedTracked
<1>20. ReplacedTracked'
  <2> SUFFICES ASSUME NEW i \in DOMAIN results', NEW r \in Resources, NEW k \in Keys,
                      Sent(i, "replaced", r, k)'
               PROVE  \E key \in Keys : k \in Cover(r, key)' /\ Followed(i, r, key)'
    BY DEF ReplacedTracked
  <2>1. i \in DOMAIN results /\ Sent(i, "replaced", r, k)
    BY <1>2, <1>3, Reported DEF Sent, Of
  <2>2. QED
    BY <1>4, <1>7, <1>18, <2>1 DEF ReplacedTracked
<1>21. QED
  BY <1>11, <1>12, <1>13, <1>14, <1>15, <1>16, <1>17, <1>19, <1>20 DEF Watching

LEMMA AnnounceWatching ==
  ASSUME TypeOK, Watching, NEW s \in starts, AnnounceWatch(s)
  PROVE  Watching'
<1>1. /\ s.pc = "announcing" /\ starts' = starts \ {s} /\ Report("started", s)
      /\ UNCHANGED <<watchers, commands, generation>> /\ UNCHANGED ui
  BY DEF AnnounceWatch
<1>2. UNCHANGED <<discovered, selected, resource, active, synced, errors, orphans>>
  BY <1>1 DEF ui, scope, cache
<1>3. PICK e \in Result :
        /\ results' = Append(results, e)
        /\ e.kind = "started" /\ e.resource = s.resource /\ e.key = s.source.key
  BY <1>1, ReportIs
<1>4. /\ Sources /\ Unique /\ OnePending /\ InScope /\ WatchersLast
      /\ LastingServed /\ ScopeServed /\ SyncedTracked /\ ReplacedTracked
  BY DEF Watching
<1>5. \A i \in DOMAIN commands : commands[i].kind # "reconcile"
  BY <1>4 DEF OnePending
<1>6. s.resource = resource /\ resource \in Resources /\ resource # NoResource
  BY <1>4, PartsAre, ScopeAssumption DEF InScope
<1>7. /\ Wanted' = Wanted
      /\ \A r \in Resources, key \in Keys : Cover(r, key)' = Cover(r, key)
      /\ \A r \in Resources : Needed(r)' = Needed(r)
  BY <1>2, Fixed
<1>8. /\ \A r \in Resources, key \in Keys :
           Held(r, key)' <=> Held(r, key) \/ Of(e, "started", r, key)
      /\ \A r \in Resources, k \in Keys : Failing(r, k)' <=> Failing(r, k)
      /\ \A r \in Resources, k \in Keys : Orphaned(r, k)' <=> Orphaned(r, k)
  BY <1>2, <1>3, Reported DEF Of, Hits
<1>9. \A r \in Resources, key \in Keys :
        /\ Starting(r, key) => Starting(r, key)' \/ Of(e, "started", r, key)
        /\ Starting(r, key)' \/ Of(e, "started", r, key) => Starting(r, key)
  BY <1>1, <1>3 DEF Starting, Is, Of
<1>10. \A r \in Resources : ~Pending(r) /\ ~Pending(r)'
  BY <1>1, <1>5 DEF Pending, Asks
<1>11. Sources'
  BY <1>1, <1>2, <1>4 DEF Sources, SourceOf
<1>12. Unique'
  BY <1>1, <1>4 DEF Unique, Is
<1>13. OnePending'
  BY <1>1, <1>5 DEF OnePending
<1>14. InScope'
  <2>1. \A key \in Keys : Told("started", resource, key)' => key \in Wanted
    BY <1>2, <1>3, <1>4, <1>6, Reported DEF InScope, Of
  <2>2. \A s1 \in starts' : s1.source.key \in Wanted
    BY <1>1, <1>4, <1>6 DEF InScope
  <2>3. \A i \in DOMAIN commands' : commands'[i].kind # "reconcile"
    BY <1>1, <1>5
  <2>4. KeysOf(resource, active)' \subseteq Wanted
    BY <1>2, <1>4, <1>6 DEF InScope, KeysOf
  <2>5. \A w \in watchers' : /\ w.unsent # {} => w.resource = resource
                             /\ w.resource = resource => w.source.key \in Wanted
    BY <1>1, <1>4, <1>6, <1>10 DEF InScope
  <2>6. \A s1 \in starts' : s1.resource = resource
    BY <1>1, <1>4 DEF InScope
  <2>7. QED
    BY <1>2, <1>7, <2>1, <2>2, <2>3, <2>4, <2>5, <2>6 DEF InScope
<1>15. \A r \in Resources, key \in Keys : Lasting(r, key)' <=> Lasting(r, key)
  BY <1>8, <1>9 DEF Lasting
<1>16. WatchersLast'
  BY <1>1, <1>4, <1>10, <1>15, PartsAre DEF WatchersLast
<1>17. LastingServed'
  <2> SUFFICES ASSUME NEW r \in Resources, NEW key \in Keys, Lasting(r, key)'
               PROVE  \/ Attempted(r, key)'
                      \/ \A k \in Cover(r, key)' : Failing(r, k)'
    BY DEF LastingServed
  <2>1. CASE Attempted(r, key)
    BY <1>1, <2>1 DEF Attempted, Is
  <2>2. CASE \A k \in Cover(r, key) : Failing(r, k)
    <3>1. Cover(r, key) \subseteq Keys
      BY PartsAre DEF Cover, SourceOf, Keys
    <3>2. QED
      BY <1>7, <1>8, <2>2, <3>1
  <2>3. QED
    BY <1>4, <1>10, <1>15, <2>1, <2>2 DEF LastingServed
<1>18. ScopeServed'
  <2> SUFFICES ASSUME NEW k \in Needed(resource)
               PROVE  \/ Served(resource, k)' \/ Failing(resource, k)'
                      \/ Orphaned(resource, k)'
    BY <1>2, <1>6, <1>7 DEF ScopeServed
  <2>1. k \in Keys
    BY <1>6, PartsAre DEF Needed, Keys
  <2>2. \/ Served(resource, k) \/ Failing(resource, k) \/ Orphaned(resource, k)
    BY <1>4, <1>5, <1>6 DEF ScopeServed, Asked, Asks
  <2>3. CASE Failing(resource, k) \/ Orphaned(resource, k)
    BY <1>2, <1>6, <1>8, <2>1, <2>3
  <2>4. CASE Served(resource, k)
    BY <1>1, <1>2, <1>6, <1>10, <2>4 DEF Served
  <2>5. QED
    BY <2>2, <2>3, <2>4
<1>19. \A r \in Resources, key \in Keys :
         /\ Tracked(r, key) => Tracked(r, key)'
         /\ \A i \in DOMAIN results : Followed(i, r, key) => Followed(i, r, key)'
  BY <1>2, <1>3, <1>9, Reported
<1>20. SyncedTracked'
  BY <1>2, <1>4, <1>7, <1>19 DEF SyncedTracked
<1>21. ReplacedTracked'
  <2> SUFFICES ASSUME NEW i \in DOMAIN results', NEW r \in Resources, NEW k \in Keys,
                      Sent(i, "replaced", r, k)'
               PROVE  \E key \in Keys : k \in Cover(r, key)' /\ Followed(i, r, key)'
    BY DEF ReplacedTracked
  <2>1. i \in DOMAIN results /\ Sent(i, "replaced", r, k)
    BY <1>2, <1>3, Reported DEF Sent, Of
  <2>2. QED
    BY <1>4, <1>7, <1>19, <2>1 DEF ReplacedTracked
<1>22. QED
  BY <1>11, <1>12, <1>13, <1>14, <1>16, <1>17, <1>18, <1>20, <1>21 DEF Watching

(* A start moves on, and makes its watcher when it is spawned.             *)
LEMMA StartMovesWatching ==
  ASSUME TypeOK, Watching, NEW s \in starts,
         CheckStart(s) \/ SpawnWatcher(s) \/ InstallWatch(s)
  PROVE  Watching'
<1>1. UNCHANGED <<results, commands, generation>> /\ UNCHANGED ui
  BY DEF CheckStart, SpawnWatcher, InstallWatch
<1>2. UNCHANGED <<discovered, selected, resource, active, synced, errors, orphans>>
  BY <1>1 DEF ui, scope, cache
<1>3. /\ Sources /\ Unique /\ OnePending /\ InScope /\ WatchersLast
      /\ LastingServed /\ ScopeServed /\ SyncedTracked /\ ReplacedTracked
  BY DEF Watching
<1>4. IsCurrent(s)
  BY <1>3 DEF Sources, IsCurrent
<1>5. PICK t :
        /\ starts' = (starts \ {s}) \cup {t}
        /\ t.resource = s.resource /\ t.source = s.source
        /\ t.generation = s.generation
        /\ \/ /\ watchers' = watchers
              /\ s.pc = "queued" /\ t.pc = "checked"
           \/ /\ watchers' = watchers \cup {WatcherOf(s)}
              /\ s.pc = "checked" /\ t.pc = "spawned"
           \/ /\ watchers' = watchers
              /\ s.pc = "spawned" /\ t.pc = "announcing"
  <2>1. s \in Start
    BY DEF TypeOK
  <2>2. \A pc : LET t == [s EXCEPT !.pc = pc] IN
          /\ t.resource = s.resource /\ t.source = s.source
          /\ t.generation = s.generation /\ t.pc = pc
    BY <2>1 DEF Start
  <2>3. CASE CheckStart(s)
    BY <1>4, <2>2, <2>3 DEF CheckStart, Moves
  <2>4. CASE SpawnWatcher(s)
    BY <2>2, <2>4 DEF SpawnWatcher, Moves
  <2>5. CASE InstallWatch(s)
    BY ZenonT(30), <1>4, <2>2, <2>5 DEF InstallWatch, Moves
  <2>6. QED
    BY <2>3, <2>4, <2>5
<1>6. PICK v :
        /\ v.resource = s.resource /\ v.source = s.source
        /\ v.generation = s.generation /\ v.unsent = s.source.covers
        /\ \/ /\ watchers' = watchers
              /\ s.pc = "queued" /\ t.pc = "checked"
           \/ /\ watchers' = watchers \cup {v}
              /\ s.pc = "checked" /\ t.pc = "spawned"
           \/ /\ watchers' = watchers
              /\ s.pc = "spawned" /\ t.pc = "announcing"
  <2>1. LET v == WatcherOf(s) IN
          /\ v.resource = s.resource /\ v.source = s.source
          /\ v.generation = s.generation /\ v.unsent = s.source.covers
    BY DEF WatcherOf
  <2>2. QED
    BY <1>5, <2>1
<1>7. \A i \in DOMAIN commands : commands[i].kind # "reconcile"
  BY <1>3 DEF OnePending
<1>8. s.resource = resource /\ resource \in Resources /\ resource # NoResource
      /\ s.source.key \in Wanted
  BY <1>3, PartsAre, ScopeAssumption DEF InScope
<1>9. /\ Wanted' = Wanted
      /\ \A r \in Resources, key \in Keys : Cover(r, key)' = Cover(r, key)
      /\ \A r \in Resources : Needed(r)' = Needed(r)
  BY <1>2, Fixed
<1>10. \A r \in Resources, key \in Keys : Starting(r, key)' <=> Starting(r, key)
  BY <1>5 DEF Starting, Is
<1>11. /\ \A r \in Resources, key \in Keys : Held(r, key)' <=> Held(r, key)
       /\ \A r \in Resources, k \in Keys : Failing(r, k)' <=> Failing(r, k)
       /\ \A r \in Resources, k \in Keys : Orphaned(r, k)' <=> Orphaned(r, k)
       /\ \A r \in Resources, key \in Keys :
            /\ Tracked(r, key) => Tracked(r, key)'
            /\ \A i \in DOMAIN results : Followed(i, r, key) => Followed(i, r, key)'
       /\ \A kind, r, key : Told(kind, r, key)' <=> Told(kind, r, key)
  BY <1>1, <1>2, <1>10, Unreported
<1>12. \A r \in Resources : ~Pending(r) /\ ~Pending(r)'
  BY <1>1, <1>7 DEF Pending, Asks
<1>13. Sources'
  BY <1>5, <1>6, <1>1, <1>2, <1>3 DEF Sources, SourceOf
<1>14. Unique'
  <2>1. \A a, b \in starts' : Is(a, b.resource, b.source.key) => a = b
    BY <1>3, <1>5 DEF Unique, Is
  <2>2. \A a \in starts', w \in watchers' :
          Is(a, w.resource, w.source.key) => a.pc \notin {"queued", "checked"}
    <3> SUFFICES ASSUME NEW a \in starts', NEW w \in watchers',
                        Is(a, w.resource, w.source.key)
                 PROVE  a.pc \notin {"queued", "checked"}
      OBVIOUS
    <3>1. CASE w \in watchers
      <4>1. CASE a = t
        BY <1>5, <4>1, <1>3, <3>1, <1>6 DEF Is, Unique
      <4>2. CASE a # t
        BY <1>3, <1>5, <3>1, <4>2 DEF Unique
      <4>3. QED
        BY <4>1, <4>2
    <3>2. CASE w \notin watchers
      BY <1>6, <3>2, <1>3, <1>5 DEF Is, Unique
    <3>3. QED
      BY <3>1, <3>2
  <2>3. \A w, u \in watchers' : Is(w, u.resource, u.source.key) => w = u
    <3>1. ASSUME s.pc = "checked", NEW w \in watchers
          PROVE  ~Is(w, s.resource, s.source.key)
      BY <1>3, <3>1 DEF Unique, Is
    <3>2. QED
      BY <1>3, <1>6, <3>1 DEF Unique, Is
  <2>4. QED
    BY <2>1, <2>2, <2>3 DEF Unique
<1>15. OnePending'
  BY <1>1, <1>7 DEF OnePending
<1>16. InScope'
  <2>1. \A key \in Keys : Told("started", resource, key)' => key \in Wanted
    BY <1>2, <1>3, <1>8, <1>11 DEF InScope
  <2>2. \A s1 \in starts' : s1.source.key \in Wanted /\ s1.resource = resource
    BY <1>3, <1>5, <1>8 DEF InScope
  <2>3. \A i \in DOMAIN commands' : commands'[i].kind # "reconcile"
    BY <1>1, <1>7
  <2>4. KeysOf(resource, active)' \subseteq Wanted
    BY <1>2, <1>3, <1>8 DEF InScope, KeysOf
  <2>5. \A w \in watchers' : /\ w.unsent # {} => w.resource = resource
                             /\ w.resource = resource => w.source.key \in Wanted
    BY <1>3, <1>6, <1>8, <1>12 DEF InScope
  <2>6. QED
    BY <1>2, <1>9, <2>1, <2>2, <2>3, <2>4, <2>5 DEF InScope
<1>17. \A r \in Resources, key \in Keys : Lasting(r, key)' <=> Lasting(r, key)
  BY <1>10, <1>11 DEF Lasting
<1>18. WatchersLast'
  <2>1. s.resource \in Resources /\ s.source.key \in Keys
    BY PartsAre
  <2>2. Lasting(s.resource, s.source.key)
    BY DEF Lasting, Starting, Is
  <2>3. \A w \in watchers' :
          \/ w \in watchers
          \/ w.resource = s.resource /\ w.source.key = s.source.key
    BY <1>6
  <2> SUFFICES ASSUME NEW w \in watchers'
               PROVE  Lasting(w.resource, w.source.key)'
    BY DEF WatchersLast
  <2>4. CASE w \in watchers
    BY <1>3, <1>12, <1>17, <2>4, PartsAre DEF WatchersLast
  <2>5. CASE w.resource = s.resource /\ w.source.key = s.source.key
    BY <2>5, <1>17, <2>1, <2>2
  <2>6. QED
    BY <2>3, <2>4, <2>5
<1>19. \A r \in Resources, key \in Keys : Attempted(r, key) => Attempted(r, key)'
  <2> SUFFICES ASSUME NEW r \in Resources, NEW key \in Keys, Attempted(r, key)
               PROVE  Attempted(r, key)'
    OBVIOUS
  <2>1. CASE Is(s, r, key) /\ s.pc \in {"queued", "checked"}
    <3>1. CASE t.pc = "checked"
      BY <1>5, <2>1, <3>1 DEF Attempted, Is
    <3>2. CASE t.pc # "checked"
      BY <1>6, <2>1, <3>2 DEF Is, Attempted
    <3>3. QED
      BY <3>1, <3>2
  <2>2. CASE ~(Is(s, r, key) /\ s.pc \in {"queued", "checked"})
    BY <1>5, <1>6, <2>2 DEF Attempted
  <2>3. QED
    BY <2>1, <2>2
<1>20. LastingServed'
  <2> SUFFICES ASSUME NEW r \in Resources, NEW key \in Keys, Lasting(r, key)'
               PROVE  \/ Attempted(r, key)'
                      \/ \A k \in Cover(r, key)' : Failing(r, k)'
    BY DEF LastingServed
  <2>1. Cover(r, key) \subseteq Keys
    BY PartsAre DEF Cover, SourceOf, Keys
  <2>2. Attempted(r, key) \/ \A k \in Cover(r, key) : Failing(r, k)
    BY <1>3, <1>12, <1>17 DEF LastingServed
  <2>3. QED
    BY <1>9, <1>11, <1>19, <2>1, <2>2
<1>21. ScopeServed'
  <2> SUFFICES ASSUME NEW k \in Needed(resource)
               PROVE  \/ Served(resource, k)' \/ Failing(resource, k)'
                      \/ Orphaned(resource, k)'
    BY <1>2, <1>8, <1>9 DEF ScopeServed
  <2>1. k \in Keys
    BY <1>8, PartsAre DEF Needed, Keys
  <2>2. \/ Served(resource, k) \/ Failing(resource, k) \/ Orphaned(resource, k)
    BY <1>3, <1>7, <1>8 DEF ScopeServed, Asked, Asks
  <2>3. CASE Failing(resource, k) \/ Orphaned(resource, k)
    BY <1>2, <1>8, <1>11, <2>1, <2>3
  <2>4. CASE k \in s.source.covers /\ s.pc \in {"queued", "checked"}
    BY <1>2, <1>5, <1>6, <1>8, <1>12, <2>4 DEF Served
  <2>5. CASE Served(resource, k) /\ ~(k \in s.source.covers /\ s.pc \in {"queued", "checked"})
    BY <1>2, <1>5, <1>6, <1>8, <1>12, <2>5 DEF Served
  <2>6. QED
    BY <2>2, <2>3, <2>4, <2>5
<1>22. SyncedTracked'
  BY <1>2, <1>3, <1>9, <1>11 DEF SyncedTracked
<1>23. ReplacedTracked'
  <2> SUFFICES ASSUME NEW i \in DOMAIN results', NEW r \in Resources, NEW k \in Keys,
                      Sent(i, "replaced", r, k)'
               PROVE  \E key \in Keys : k \in Cover(r, key)' /\ Followed(i, r, key)'
    BY DEF ReplacedTracked
  <2>1. i \in DOMAIN results /\ Sent(i, "replaced", r, k)
    BY <1>1 DEF Sent, Of
  <2>2. QED
    BY <1>3, <1>9, <1>11, <2>1 DEF ReplacedTracked
<1>24. QED
  BY <1>13, <1>14, <1>15, <1>16, <1>18, <1>20, <1>21, <1>22, <1>23 DEF Watching

-----------------------------------------------------------------------------
(* The steps of the watchers.                                              *)

LEMMA WatcherFailsWatching ==
  ASSUME TypeOK, Watching, NEW v \in watchers, WatcherFails(v)
  PROVE  Watching'
<1>1. /\ watchers' = watchers \ {v} /\ Report("failed", v)
      /\ UNCHANGED <<starts, commands, generation>> /\ UNCHANGED ui
  BY DEF WatcherFails
<1>2. UNCHANGED <<discovered, selected, resource, active, synced, errors, orphans>>
  BY <1>1 DEF ui, scope, cache
<1>3. PICK e \in Result :
        /\ results' = Append(results, e)
        /\ e.kind = "failed" /\ e.resource = v.resource /\ e.key = v.source.key
  BY <1>1, ReportIs
<1>4. /\ Sources /\ Unique /\ OnePending /\ InScope /\ WatchersLast
      /\ LastingServed /\ ScopeServed /\ SyncedTracked /\ ReplacedTracked
  BY DEF Watching
<1>5. v.resource \in Resources /\ v.source.key \in Keys
  BY PartsAre
<1>6. /\ Wanted' = Wanted
      /\ \A r \in Resources, key \in Keys : Cover(r, key)' = Cover(r, key)
      /\ \A r \in Resources : Needed(r)' = Needed(r)
  BY <1>2, Fixed
<1>7. /\ \A r \in Resources, key \in Keys :
           Held(r, key)' <=> Held(r, key) /\ ~Of(e, "failed", r, key)
      /\ \A r \in Resources, k \in Keys :
           Failing(r, k)' <=> Hits(e, selected, r, k) \/ Failing(r, k)
      /\ \A r \in Resources, k \in Keys : Orphaned(r, k) => Orphaned(r, k)'
  BY <1>2, <1>3, Reported DEF Of
<1>8. \A r \in Resources, key \in Keys : Starting(r, key)' <=> Starting(r, key)
  BY <1>1 DEF Starting, Is
<1>9. \A r \in Resources : Pending(r)' <=> Pending(r)
  BY <1>1 DEF Pending, Asks
<1>10. Sources'
  BY <1>1, <1>2, <1>4 DEF Sources, SourceOf
<1>11. Unique'
  BY <1>1, <1>4 DEF Unique, Is
<1>12. OnePending'
  <2>1. \A i \in DOMAIN results' :
          \/ i \in DOMAIN results /\ results'[i] = results[i]
          \/ results'[i].kind = "failed"
    BY <1>2, <1>3, Reported
  <2>2. \A i \in DOMAIN commands : commands[i].kind = "reconcile" =>
          /\ resource # NoResource /\ commands[i].resource = resource
          /\ starts = {} /\ \A w \in watchers : w.unsent = {}
          /\ \A j \in DOMAIN results : results[j].kind \notin {"replaced", "started"}
          /\ \A key \in KeysOf(resource, active) :
               \E src \in commands[i].sources : src.key = key
    BY <1>4 DEF OnePending
  <2>3. KeysOf(resource, active)' = KeysOf(resource, active)
    BY <1>2 DEF KeysOf
  <2>4. \A i, j \in DOMAIN commands :
          commands[i].kind = "reconcile" /\ commands[j].kind = "reconcile" => i = j
    BY <1>4 DEF OnePending
  <2>5. \A i \in DOMAIN commands' : commands'[i].kind = "reconcile" =>
          \A j \in DOMAIN results' : results'[j].kind \notin {"replaced", "started"}
    BY <1>1, <2>1, <2>2
  <2>6. QED
    BY <1>1, <1>2, <2>2, <2>3, <2>4, <2>5 DEF OnePending
<1>13. InScope'
  <2>1. resource # NoResource =>
          \A key \in Keys : Told("started", resource, key)' => key \in Wanted
    BY <1>2, <1>3, <1>4, Reported DEF InScope, Of
  <2>2. KeysOf(resource, active)' = KeysOf(resource, active)
    BY <1>2 DEF KeysOf
  <2>3. \A w \in watchers' : w \in watchers
    BY <1>1
  <2>4. resource # NoResource =>
          /\ KeysOf(resource, active)' \subseteq Wanted
          /\ \A s \in starts' : s.source.key \in Wanted
          /\ \A i \in DOMAIN commands' : commands'[i].kind = "reconcile" =>
               \A src \in commands'[i].sources : src.key \in Wanted
          /\ ~Pending(resource) =>
               \A w \in watchers' : w.resource = resource => w.source.key \in Wanted
    BY <1>1, <1>4, <2>2, <2>3 DEF InScope
  <2>5. /\ \A s \in starts' : s.resource = resource
        /\ \A w \in watchers' : w.unsent # {} => w.resource = resource
    BY <1>1, <1>4, <2>3 DEF InScope
  <2>6. resource # NoResource => resource \in Resources
    BY PartsAre
  <2>7. QED
    BY <1>2, <1>6, <1>9, <2>1, <2>4, <2>5, <2>6 DEF InScope
<1>14. WatchersLast'
  <2> SUFFICES ASSUME NEW w \in watchers'
               PROVE  Pending(w.resource)' \/ Lasting(w.resource, w.source.key)'
    BY DEF WatchersLast
  <2>1. w \in watchers /\ w.resource \in Resources /\ w.source.key \in Keys
    BY <1>1, PartsAre
  <2>2. Pending(w.resource) \/ Lasting(w.resource, w.source.key)
    BY <1>4, <2>1 DEF WatchersLast
  <2>3. ~Of(e, "failed", w.resource, w.source.key)
    BY <1>1, <1>3, <1>4 DEF Unique, Is, Of
  <2>4. QED
    BY <1>7, <1>8, <1>9, <2>1, <2>2, <2>3 DEF Lasting
<1>15. LastingServed'
  <2> SUFFICES ASSUME NEW r \in Resources, NEW key \in Keys, ~Pending(r)',
                      Lasting(r, key)'
               PROVE  \/ Attempted(r, key)'
                      \/ \A k \in Cover(r, key)' : Failing(r, k)'
    BY DEF LastingServed
  <2>1. Cover(r, key) \subseteq Keys
    BY PartsAre DEF Cover, SourceOf, Keys
  <2>2. CASE Of(e, "failed", r, key)
    <3>1. PICK s \in starts : Is(s, r, key)
      BY <1>1, <1>7, <1>8, <2>2 DEF Lasting, Starting
    <3>2. r = resource /\ resource \in Resources /\ resource # NoResource
          /\ key \in Wanted /\ v.resource = resource /\ v.source.key = key
      BY <1>3, <1>4, <2>2, <3>1, PartsAre, ScopeAssumption DEF InScope, Is, Of
    <3>3. v.source.covers = Cover(r, key) /\ Cover(r, key) \subseteq Needed(resource)
      BY <1>4, <3>2, CoversAre, WantedIs
    <3>4. \A k \in Cover(r, key) : Hits(e, selected, r, k)
      BY <1>3, <1>4, <3>2, <3>3, FailureHits
    <3>5. QED
      BY <1>6, <1>7, <2>1, <3>4
  <2>3. CASE ~Of(e, "failed", r, key)
    BY <1>7, <1>8, <1>9, <1>1, <1>3, <2>3, <1>4, <1>6, <2>1 DEF Lasting,
       Attempted, Is, Of, LastingServed
  <2>4. QED
    BY <2>2, <2>3
<1>16. ScopeServed'
  <2> SUFFICES ASSUME resource # NoResource, resource \in Resources,
                      NEW k \in Needed(resource)
               PROVE  \/ Asked(resource, k)' \/ Served(resource, k)'
                      \/ Failing(resource, k)' \/ Orphaned(resource, k)'
    BY <1>2, <1>6, PartsAre DEF ScopeServed
  <2>1. k \in Keys
    BY PartsAre DEF Needed, Keys
  <2>2. \/ Asked(resource, k) \/ Served(resource, k)
        \/ Failing(resource, k) \/ Orphaned(resource, k)
    BY <1>4 DEF ScopeServed
  <2>3. CASE Failing(resource, k) \/ Orphaned(resource, k)
    BY <1>2, <1>7, <2>1, <2>3
  <2>4. CASE Asked(resource, k)
    BY <1>1, <1>2, <2>4 DEF Asked, Asks
  <2>5. CASE v.resource = resource /\ k \in v.source.covers
    BY <1>3, <1>4, <2>5, FailureHits, <1>2, <1>7, <2>1
  <2>6. CASE Served(resource, k) /\ ~(v.resource = resource /\ k \in v.source.covers)
    BY <1>1, <1>2, <1>9, <2>6 DEF Served
  <2>7. QED
    BY <2>2, <2>3, <2>4, <2>5, <2>6
<1>17. \A r \in Resources, key \in Keys :
         /\ Tracked(r, key) => Tracked(r, key)'
         /\ \A i \in DOMAIN results : Followed(i, r, key) => Followed(i, r, key)'
  BY <1>2, <1>3, <1>8, Reported
<1>18. SyncedTracked'
  BY <1>2, <1>4, <1>6, <1>17 DEF SyncedTracked
<1>19. ReplacedTracked'
  <2> SUFFICES ASSUME NEW i \in DOMAIN results', NEW r \in Resources, NEW k \in Keys,
                      Sent(i, "replaced", r, k)'
               PROVE  \E key \in Keys : k \in Cover(r, key)' /\ Followed(i, r, key)'
    BY DEF ReplacedTracked
  <2>1. i \in DOMAIN results /\ Sent(i, "replaced", r, k)
    BY <1>2, <1>3, Reported DEF Sent, Of
  <2>2. QED
    BY <1>4, <1>6, <1>17, <2>1 DEF ReplacedTracked
<1>20. QED
  BY <1>10, <1>11, <1>12, <1>13, <1>14, <1>15, <1>16, <1>18, <1>19 DEF Watching

LEMMA SendReplacedWatching ==
  ASSUME TypeOK, Watching, NEW v \in watchers, SendReplaced(v)
  PROVE  Watching'
<1>1. PICK k0 \in v.unsent :
        /\ watchers' = (watchers \ {v}) \cup {[v EXCEPT !.unsent = @ \ {k0}]}
        /\ results' = Append(results, [kind |-> "replaced",
                                       resource |-> v.resource, key |-> k0])
        /\ UNCHANGED ui /\ UNCHANGED <<commands, generation, starts>>
  BY DEF SendReplaced
<1>2. UNCHANGED <<discovered, selected, resource, active, synced, errors, orphans>>
  BY <1>1 DEF ui, scope, cache
<1>3. v.resource \in Resources /\ v.source.key \in Keys /\ k0 \in Keys
  BY PartsAre
<1>4. PICK e \in Result :
        /\ results' = Append(results, e)
        /\ e.kind = "replaced" /\ e.resource = v.resource /\ e.key = k0
  BY <1>3, <1>1 DEF Result
<1>5. PICK u : /\ watchers' = (watchers \ {v}) \cup {u}
               /\ u.resource = v.resource /\ u.source = v.source
               /\ u.generation = v.generation /\ u.unsent \subseteq v.unsent
  <2>1. v \in Watcher
    BY DEF TypeOK
  <2>2. LET u == [v EXCEPT !.unsent = @ \ {k0}] IN
          /\ u.resource = v.resource /\ u.source = v.source
          /\ u.generation = v.generation /\ u.unsent \subseteq v.unsent
    BY <2>1 DEF Watcher
  <2>3. QED
    BY <1>1, <2>2
<1>6. /\ Sources /\ Unique /\ OnePending /\ InScope /\ WatchersLast
      /\ LastingServed /\ ScopeServed /\ SyncedTracked /\ ReplacedTracked
  BY DEF Watching
<1>7. \A i \in DOMAIN commands : commands[i].kind # "reconcile"
  BY <1>6 DEF OnePending
<1>8. v.resource = resource /\ resource \in Resources /\ resource # NoResource
  BY <1>3, <1>6, ScopeAssumption DEF InScope
<1>9. \A r \in Resources : ~Pending(r) /\ ~Pending(r)'
  BY <1>1, <1>7 DEF Pending, Asks
<1>10. /\ v.source.key \in Wanted /\ v.source.covers = Cover(resource, v.source.key)
       /\ k0 \in Cover(resource, v.source.key)
  BY <1>6, <1>8, <1>9, CoversAre DEF InScope, Sources
<1>11. /\ Wanted' = Wanted
       /\ \A r \in Resources, key \in Keys : Cover(r, key)' = Cover(r, key)
       /\ \A r \in Resources : Needed(r)' = Needed(r)
  BY <1>2, Fixed
<1>12. /\ \A r \in Resources, key \in Keys : Held(r, key)' <=> Held(r, key)
       /\ \A r \in Resources, k \in Keys :
            Failing(r, k)' <=> Failing(r, k) /\ ~(r = resource /\ k = k0)
       /\ \A r \in Resources, k \in Keys :
            Orphaned(r, k)' <=> Orphaned(r, k) /\ ~(r = resource /\ k = k0)
  BY <1>2, <1>4, <1>8, Reported DEF Of, Hits
<1>13. \A r \in Resources, key \in Keys : Starting(r, key)' <=> Starting(r, key)
  BY <1>1 DEF Starting, Is
<1>14. Sources'
  <2>1. \A w \in watchers' :
          \E x \in watchers :
            /\ w.resource = x.resource /\ w.source = x.source
            /\ w.generation = x.generation /\ w.unsent \subseteq x.unsent
    BY <1>5
  <2>2. \A r, key : SourceOf(r, key, discovered)' = SourceOf(r, key, discovered)
    BY <1>2 DEF SourceOf
  <2>3. ASSUME NEW w \in watchers'
        PROVE  /\ w.source = SourceOf(w.resource, w.source.key, discovered)
               /\ w.generation = generation[w.resource]
               /\ w.unsent \subseteq w.source.covers
    <3>1. PICK x \in watchers :
            /\ w.resource = x.resource /\ w.source = x.source
            /\ w.generation = x.generation /\ w.unsent \subseteq x.unsent
      BY <2>1
    <3>2. /\ x.source = SourceOf(x.resource, x.source.key, discovered)
          /\ x.generation = generation[x.resource]
          /\ x.unsent \subseteq x.source.covers
      BY <1>6 DEF Sources
    <3>3. QED
      BY <3>1, <3>2
  <2>4. \A s \in starts :
          /\ s.source = SourceOf(s.resource, s.source.key, discovered)
          /\ s.generation = generation[s.resource]
    BY <1>6 DEF Sources
  <2>5. QED
    BY <1>1, <1>7, <2>2, <2>3, <2>4 DEF Sources
<1>15. Unique'
  BY <1>1, <1>5, <1>6 DEF Unique, Is
<1>16. OnePending'
  BY <1>1, <1>7 DEF OnePending
<1>17. InScope'
  <2>1. \A key \in Keys : Told("started", resource, key)' => key \in Wanted
    BY <1>2, <1>4, <1>6, <1>8, Reported DEF InScope, Of
  <2>2. \A s1 \in starts' : s1.source.key \in Wanted /\ s1.resource = resource
    BY <1>1, <1>6, <1>8 DEF InScope
  <2>3. \A i \in DOMAIN commands' : commands'[i].kind # "reconcile"
    BY <1>1, <1>7
  <2>4. KeysOf(resource, active)' \subseteq Wanted
    BY <1>2, <1>6, <1>8 DEF InScope, KeysOf
  <2>5. \A w \in watchers' : /\ w.unsent # {} => w.resource = resource
                             /\ w.resource = resource => w.source.key \in Wanted
    BY <1>5, <1>6, <1>8, <1>9 DEF InScope
  <2>6. QED
    BY <1>2, <1>11, <2>1, <2>2, <2>3, <2>4, <2>5 DEF InScope
<1>18. \A r \in Resources, key \in Keys : Lasting(r, key)' <=> Lasting(r, key)
  BY <1>12, <1>13 DEF Lasting
<1>19. WatchersLast'
  <2> SUFFICES ASSUME NEW w \in watchers'
               PROVE  Lasting(w.resource, w.source.key)'
    BY DEF WatchersLast
  <2>1. PICK x \in watchers : w.resource = x.resource /\ w.source = x.source
    BY <1>5
  <2>2. Lasting(x.resource, x.source.key) /\ x.resource \in Resources
        /\ x.source.key \in Keys
    BY <1>6, <1>9, PartsAre DEF WatchersLast
  <2>3. Lasting(w.resource, w.source.key)
    BY <2>1, <2>2
  <2>4. w.resource \in Resources /\ w.source.key \in Keys
    BY <2>1, <2>2
  <2>5. QED
    BY <1>18, <2>3, <2>4
<1>20. LastingServed'
  <2> SUFFICES ASSUME NEW r \in Resources, NEW key \in Keys, Lasting(r, key)'
               PROVE  \/ Attempted(r, key)'
                      \/ \A k \in Cover(r, key)' : Failing(r, k)'
    BY DEF LastingServed
  <2>1. Cover(r, key) \subseteq Keys
    BY PartsAre DEF Cover, SourceOf, Keys
  <2>2. Attempted(r, key) => Attempted(r, key)'
    BY <1>1, <1>5 DEF Attempted, Is
  <2>3. Lasting(r, key)
    BY <1>18
  <2>4. Attempted(r, key) \/ \A k \in Cover(r, key) : Failing(r, k)
    BY <1>6, <1>9, <2>3 DEF LastingServed
  <2>5. CASE r = resource /\ k0 \in Cover(r, key)
    <3>1. key \in Wanted
      <4>1. CASE Starting(r, key)
        BY <1>6, <1>8, <2>5, <4>1 DEF InScope, Starting, Is
      <4>2. CASE Held(r, key)
        BY <2>5, <4>2, <1>6, <1>8 DEF Held, Told, KeysOf, InScope
      <4>3. QED
        BY <2>3, <4>1, <4>2 DEF Lasting
    <3>2. key = v.source.key
      BY <1>3, <1>8, <1>10, <2>5, <3>1, WantedIs
    <3>3. Attempted(r, key)
      BY <1>8, <2>5, <3>2 DEF Attempted, Is
    <3>4. QED
      BY <2>2, <3>3
  <2>6. CASE ~(r = resource /\ k0 \in Cover(r, key))
    BY <1>11, <1>12, <2>1, <2>2, <2>4, <2>6
  <2>7. QED
    BY <2>5, <2>6
<1>21. ScopeServed'
  <2> SUFFICES ASSUME NEW k \in Needed(resource)
               PROVE  \/ Served(resource, k)' \/ Failing(resource, k)'
                      \/ Orphaned(resource, k)'
    BY <1>2, <1>8, <1>11 DEF ScopeServed
  <2>1. k \in Keys
    BY <1>8, PartsAre DEF Needed, Keys
  <2>2. \/ Served(resource, k) \/ Failing(resource, k) \/ Orphaned(resource, k)
    BY <1>6, <1>7, <1>8 DEF ScopeServed, Asked, Asks
  <2>3. Served(resource, k) \/ k = k0 => Served(resource, k)'
    BY <1>1, <1>2, <1>5, <1>8, <1>9, <1>10 DEF Served
  <2>4. CASE k # k0 /\ (Failing(resource, k) \/ Orphaned(resource, k))
    BY <1>2, <1>8, <1>12, <2>1, <2>4
  <2>5. QED
    BY <2>2, <2>3, <2>4
<1>22. \A r \in Resources, key \in Keys :
         /\ Tracked(r, key) => Tracked(r, key)'
         /\ \A i \in DOMAIN results : Followed(i, r, key) => Followed(i, r, key)'
  BY <1>2, <1>4, <1>13, Reported
<1>23. SyncedTracked'
  BY <1>2, <1>6, <1>11, <1>22 DEF SyncedTracked
<1>24. ReplacedTracked'
  <2> SUFFICES ASSUME NEW i \in DOMAIN results', NEW r \in Resources, NEW k \in Keys,
                      Sent(i, "replaced", r, k)'
               PROVE  \E key \in Keys : k \in Cover(r, key)' /\ Followed(i, r, key)'
    BY DEF ReplacedTracked
  <2>1. CASE i \in DOMAIN results /\ results'[i] = results[i]
    BY <2>1, <1>6, <1>11, <1>22 DEF Sent, Of, ReplacedTracked
  <2>2. CASE i \notin DOMAIN results
    <3>1. PICK last \in DOMAIN results' :
            /\ DOMAIN results' = DOMAIN results \cup {last}
            /\ results'[last] = e
            /\ \A r1 \in Resources, key \in Keys :
                 Held(r1, key) => Followed(last, r1, key)'
      BY <1>2, <1>4, Reported
    <3>2. i = last /\ r = resource /\ k = k0
      BY <1>4, <1>8, <2>2, <3>1 DEF Sent, Of
    <3>3. Lasting(resource, v.source.key)
      BY <1>6, <1>8, <1>9 DEF WatchersLast
    <3>4. CASE Held(resource, v.source.key)
      BY <3>2, <3>4, <1>3, <3>1, <1>10, <1>11
    <3>5. CASE Starting(resource, v.source.key)
      BY <3>2, <3>5, <1>3, <1>13, <1>10, <1>11 DEF Followed
    <3>6. QED
      BY <3>3, <3>4, <3>5 DEF Lasting
  <2>3. QED
    BY <1>2, <1>4, <2>1, <2>2, Reported
<1>25. QED
  BY <1>14, <1>15, <1>16, <1>17, <1>19, <1>20, <1>21, <1>23, <1>24 DEF Watching

-----------------------------------------------------------------------------
(* Steps that leave the starts and the watchers alone.                     *)

LEMMA SteadyWatching ==
  ASSUME TypeOK, Watching,
         UNCHANGED <<starts, watchers, generation, resource>>,
         Wanted' = Wanted, Needed(resource)' = Needed(resource),
         \A s \in starts \cup watchers, key \in Keys :
           SourceOf(s.resource, key, discovered') = SourceOf(s.resource, key, discovered),
         \A key \in Keys :
           SourceOf(resource, key, discovered') = SourceOf(resource, key, discovered),
         \A r \in Resources, key \in Keys :
           Lasting(r, key) => Cover(r, key)' = Cover(r, key),
         \A i \in DOMAIN commands : commands[i].kind = "reconcile" =>
           \E j \in DOMAIN commands' : commands'[j] = commands[i],
         \A j \in DOMAIN commands' : commands'[j].kind = "reconcile" =>
           \E i \in DOMAIN commands : commands[i] = commands'[j],
         \A i, j \in DOMAIN commands' :
           commands'[i].kind = "reconcile" /\ commands'[j].kind = "reconcile" => i = j,
         \A j \in DOMAIN results' :
           \/ results'[j].kind \notin {"replaced", "started"}
           \/ \E i \in DOMAIN results : results[i] = results'[j],
         \A r \in Resources, key \in Keys :
           /\ Held(r, key)' <=> Held(r, key)
           /\ Told("started", r, key)' => Told("started", r, key)
           /\ key \in KeysOf(r, active') =>
                key \in KeysOf(r, active) \/ Told("started", r, key),
         \A r \in Resources, k \in Keys :
           /\ Failing(r, k)' <=> Failing(r, k)
           /\ Orphaned(r, k) => Orphaned(r, k)' \/ Failing(r, k)',
         TypeOK', SyncedTracked', ReplacedTracked'
  PROVE  Watching'
<1>1. /\ Sources /\ Unique /\ OnePending /\ InScope /\ WatchersLast
      /\ LastingServed /\ ScopeServed
  BY DEF Watching
<1>2. \A r \in Resources : Pending(r)' <=> Pending(r)
  BY DEF Pending, Asks
<1>3. resource # NoResource => resource \in Resources
  BY PartsAre
<1>4. Sources'
  <2>1. ASSUME NEW i \in DOMAIN commands', commands'[i].kind = "reconcile",
               NEW src \in commands'[i].sources
        PROVE  src = SourceOf(commands'[i].resource, src.key, discovered')
    <3>1. PICK j \in DOMAIN commands : commands[j] = commands'[i]
      BY <2>1
    <3>2. /\ src = SourceOf(commands[j].resource, src.key, discovered)
          /\ commands[j].resource = resource
      BY <1>1, <2>1, <3>1 DEF Sources, OnePending
    <3>3. src.key \in Keys
      BY <2>1, <3>1, PartsAre
    <3>4. QED
      BY <3>1, <3>2, <3>3
  <2>2. \A s \in starts \cup watchers :
          /\ s.source = SourceOf(s.resource, s.source.key, discovered')
          /\ s.generation = generation[s.resource]
    BY <1>1, PartsAre DEF Sources
  <2>3. \A w \in watchers : w.unsent \subseteq w.source.covers
    BY <1>1 DEF Sources
  <2>4. QED
    BY <2>1, <2>2, <2>3 DEF Sources
<1>5. Unique'
  BY <1>1 DEF Unique, Is
<1>6. OnePending'
  <2> SUFFICES ASSUME NEW i \in DOMAIN commands', commands'[i].kind = "reconcile"
               PROVE  /\ resource # NoResource /\ commands'[i].resource = resource
                      /\ starts = {} /\ \A w \in watchers : w.unsent = {}
                      /\ \A j \in DOMAIN results' :
                           results'[j].kind \notin {"replaced", "started"}
                      /\ \A key \in KeysOf(resource, active') :
                           \E src \in commands'[i].sources : src.key = key
    BY DEF OnePending, KeysOf
  <2>1. PICK j \in DOMAIN commands : commands[j] = commands'[i]
    OBVIOUS
  <2>2. /\ resource # NoResource /\ commands[j].resource = resource
        /\ starts = {} /\ \A w \in watchers : w.unsent = {}
        /\ \A n \in DOMAIN results : results[n].kind \notin {"replaced", "started"}
        /\ \A key \in KeysOf(resource, active) :
             \E src \in commands[j].sources : src.key = key
    BY <1>1, <2>1 DEF OnePending
  <2>3. \A n \in DOMAIN results' : results'[n].kind \notin {"replaced", "started"}
    BY <2>2
  <2>4. \A key \in Keys : ~Told("started", resource, key)
    BY <2>2 DEF Told, Sent, Of
  <2>5. KeysOf(resource, active') \subseteq Keys
    BY DEF KeysOf, TypeOK, WatchKey
  <2>6. KeysOf(resource, active') \subseteq KeysOf(resource, active)
    BY <1>3, <2>2, <2>4, <2>5
  <2>7. QED
    BY <2>1, <2>2, <2>3, <2>6
<1>7. InScope'
  <2>1. /\ \A s \in starts : s.resource = resource
        /\ \A w \in watchers : w.unsent # {} => w.resource = resource
    BY <1>1 DEF InScope
  <2>2. CASE resource # NoResource
    <3>1. /\ KeysOf(resource, active) \subseteq Wanted
          /\ \A s \in starts : s.source.key \in Wanted
          /\ \A key \in Keys : Told("started", resource, key) => key \in Wanted
          /\ \A i \in DOMAIN commands : commands[i].kind = "reconcile" =>
               \A src \in commands[i].sources : src.key \in Wanted
          /\ ~Pending(resource) =>
               \A w \in watchers : w.resource = resource => w.source.key \in Wanted
      BY <1>1, <2>2 DEF InScope
    <3>2. KeysOf(resource, active') \subseteq Keys
      BY DEF KeysOf, TypeOK, WatchKey
    <3>3. KeysOf(resource, active') \subseteq Wanted
      BY <1>3, <2>2, <3>1, <3>2
    <3>4. \A i \in DOMAIN commands' : commands'[i].kind = "reconcile" =>
            \A src \in commands'[i].sources : src.key \in Wanted
      BY <3>1
    <3>5. Pending(resource)' <=> Pending(resource)
      BY <1>2, <1>3, <2>2
    <3>6. \A key \in Keys : Told("started", resource, key)' => key \in Wanted
      BY <1>3, <2>2, <3>1
    <3>7. KeysOf(resource, active)' = KeysOf(resource, active')
      BY DEF KeysOf
    <3>8. QED
      BY <2>1, <3>1, <3>3, <3>4, <3>5, <3>6, <3>7 DEF InScope
  <2>3. CASE resource = NoResource
    BY <2>1, <2>3 DEF InScope
  <2>4. QED
    BY <2>2, <2>3
<1>8. \A r \in Resources, key \in Keys :
        /\ Starting(r, key)' <=> Starting(r, key)
        /\ Lasting(r, key)' <=> Lasting(r, key)
        /\ Attempted(r, key)' <=> Attempted(r, key)
  BY DEF Lasting, Starting, Attempted, Is
<1>9. WatchersLast'
  <2> SUFFICES ASSUME NEW w \in watchers
               PROVE  Pending(w.resource)' \/ Lasting(w.resource, w.source.key)'
    BY DEF WatchersLast
  <2>1. w.resource \in Resources /\ w.source.key \in Keys
    BY PartsAre
  <2>2. Pending(w.resource) \/ Lasting(w.resource, w.source.key)
    BY <1>1 DEF WatchersLast
  <2>3. QED
    BY <1>2, <1>8, <2>1, <2>2
<1>10. LastingServed'
  <2> SUFFICES ASSUME NEW r \in Resources, NEW key \in Keys, ~Pending(r)',
                      Lasting(r, key)'
               PROVE  \/ Attempted(r, key)'
                      \/ \A k \in Cover(r, key)' : Failing(r, k)'
    BY DEF LastingServed
  <2>1. Cover(r, key) \subseteq Keys
    BY PartsAre DEF Cover, SourceOf, Keys
  <2>2. Lasting(r, key) /\ ~Pending(r)
    BY <1>2, <1>8
  <2>3. Attempted(r, key) \/ \A k \in Cover(r, key) : Failing(r, k)
    BY <1>1, <2>2 DEF LastingServed
  <2>4. Cover(r, key)' = Cover(r, key)
    BY <2>2
  <2>5. QED
    BY <1>8, <2>1, <2>3, <2>4
<1>11. ScopeServed'
  <2> SUFFICES ASSUME resource # NoResource, NEW k \in Needed(resource)
               PROVE  \/ Asked(resource, k)' \/ Served(resource, k)'
                      \/ Failing(resource, k)' \/ Orphaned(resource, k)'
    BY DEF ScopeServed
  <2>1. k \in Keys /\ resource \in Resources
    BY <1>3, PartsAre DEF Needed, Keys
  <2>2. \/ Asked(resource, k) \/ Served(resource, k)
        \/ Failing(resource, k) \/ Orphaned(resource, k)
    BY <1>1 DEF ScopeServed
  <2>3. CASE Failing(resource, k) \/ Orphaned(resource, k)
    BY <2>1, <2>3
  <2>4. CASE Asked(resource, k)
    BY <2>4 DEF Asked, Asks
  <2>5. CASE Served(resource, k)
    BY <1>2, <2>1, <2>5 DEF Served
  <2>6. QED
    BY <2>2, <2>3, <2>4, <2>5
<1>12. QED
  BY <1>4, <1>5, <1>6, <1>7, <1>9, <1>10, <1>11 DEF Watching

(* The reconciles under way are the same.                                  *)
SameReconciles ==
  /\ \A i \in DOMAIN commands : commands[i].kind = "reconcile" =>
       \E j \in DOMAIN commands' : commands'[j] = commands[i]
  /\ \A j \in DOMAIN commands' : commands'[j].kind = "reconcile" =>
       \E i \in DOMAIN commands : commands[i] = commands'[j]
  /\ \A i, j \in DOMAIN commands' :
       commands'[i].kind = "reconcile" /\ commands'[j].kind = "reconcile" => i = j

LEMMA RemovedIs ==
  ASSUME TypeOK, NEW i \in DOMAIN commands, commands' = RemoveAt(commands, i)
  PROVE  /\ \A j \in DOMAIN commands' :
              /\ Before(i, j) \in DOMAIN commands /\ Before(i, j) # i
              /\ commands'[j] = commands[Before(i, j)]
         /\ \A n \in DOMAIN commands \ {i} :
              \E j \in DOMAIN commands' : Before(i, j) = n
         /\ \A j, n \in DOMAIN commands' : Before(i, j) = Before(i, n) => j = n
<1>1. commands \in Seq(Command)
  BY DEF TypeOK
<1>2. QED
  BY <1>1, RemoveAtIs

LEMMA MetricsReconciles ==
  ASSUME TypeOK, OnePending,
         \/ \E i \in DOMAIN commands :
              commands[i].kind # "reconcile" /\ commands' = RemoveAt(commands, i)
         \/ \E r, found : Grown(r, {}, FALSE, found)
         \/ commands' = commands
  PROVE  SameReconciles
<1>1. ASSUME NEW i \in DOMAIN commands, commands[i].kind # "reconcile",
             commands' = RemoveAt(commands, i)
      PROVE  SameReconciles
  BY <1>1, RemovedIs DEF OnePending, SameReconciles
<1>2. ASSUME NEW r, NEW found, Grown(r, {}, FALSE, found)
      PROVE  SameReconciles
  BY <1>2 DEF Grown, New, SameReconciles, OnePending
<1>3. CASE commands' = commands
  BY <1>3 DEF SameReconciles, OnePending
<1>4. QED
  BY <1>1, <1>2, <1>3

(* A command to a poller runs, a poller ends.                              *)
LEMMA ExecuteMetricsWatching ==
  ASSUME TypeOK, TypeOK', Watching, NEW i \in DOMAIN commands, ExecuteMetrics(i)
  PROVE  Watching'
<1>1. /\ commands[i].kind # "reconcile" /\ commands' = RemoveAt(commands, i)
      /\ UNCHANGED ui /\ UNCHANGED watch /\ UNCHANGED results
  BY DEF ExecuteMetrics, Takes
<1>2. UNCHANGED <<discovered, selected, resource, active, synced, errors, orphans,
                  starts, watchers, generation, results>>
  BY <1>1 DEF ui, scope, cache, watch
<1>3. /\ Wanted' = Wanted
      /\ \A r \in Resources, key \in Keys : Cover(r, key)' = Cover(r, key)
      /\ Needed(resource)' = Needed(resource)
  BY <1>2, Fixed DEF Needed
<1>4. SameReconciles
  BY <1>1, MetricsReconciles DEF Watching
<1>5. \A r \in Resources, key \in Keys : Starting(r, key)' <=> Starting(r, key)
  BY <1>2 DEF Starting, Is
<1>6. /\ \A r \in Resources, key \in Keys : Held(r, key)' <=> Held(r, key)
      /\ \A r \in Resources, k \in Keys : Failing(r, k)' <=> Failing(r, k)
      /\ \A r \in Resources, k \in Keys : Orphaned(r, k)' <=> Orphaned(r, k)
      /\ \A r \in Resources, key \in Keys :
           /\ Tracked(r, key) => Tracked(r, key)'
           /\ \A j \in DOMAIN results : Followed(j, r, key) => Followed(j, r, key)'
      /\ \A kind, r, key : Told(kind, r, key)' <=> Told(kind, r, key)
  BY <1>2, <1>5, Unreported
<1>7. SyncedTracked'
  BY <1>2, <1>3, <1>6 DEF SyncedTracked, Watching
<1>8. ReplacedTracked'
  <2> SUFFICES ASSUME NEW j \in DOMAIN results, NEW r \in Resources, NEW k \in Keys,
                      Sent(j, "replaced", r, k)
               PROVE  \E key \in Keys : k \in Cover(r, key)' /\ Followed(j, r, key)'
    BY <1>2 DEF ReplacedTracked, Sent, Of
  <2>1. QED
    BY <1>3, <1>6 DEF ReplacedTracked, Watching
<1>9. QED
  BY <1>2, <1>3, <1>4, <1>6, <1>7, <1>8, SteadyWatching DEF SameReconciles

LEMMA PollerEndsWatching ==
  ASSUME TypeOK, TypeOK', Watching, NEW k0 \in polling, PollerEnds(k0)
  PROVE  Watching'
<1>1. UNCHANGED ui /\ UNCHANGED watch /\ UNCHANGED commands
  BY DEF PollerEnds
<1>2. UNCHANGED <<discovered, selected, resource, active, synced, errors, orphans,
                  starts, watchers, generation>>
  BY <1>1 DEF ui, scope, cache, watch
<1>3. /\ Wanted' = Wanted
      /\ \A r \in Resources, key \in Keys : Cover(r, key)' = Cover(r, key)
      /\ Needed(resource)' = Needed(resource)
  BY <1>2, Fixed DEF Needed
<1>4. SameReconciles
  BY <1>1, MetricsReconciles DEF Watching
<1>5. \A r \in Resources, key \in Keys : Starting(r, key)' <=> Starting(r, key)
  BY <1>2 DEF Starting, Is
<1>6. PICK e \in Result : results' = Append(results, e) /\ e.kind = "noMetrics"
  BY DEF Result, PolledBy, PollerEnds
<1>7. /\ \A r \in Resources, key \in Keys : Held(r, key)' <=> Held(r, key)
      /\ \A r \in Resources, k \in Keys : Failing(r, k)' <=> Failing(r, k)
      /\ \A r \in Resources, k \in Keys : Orphaned(r, k)' <=> Orphaned(r, k)
      /\ \A r \in Resources, key \in Keys :
           /\ Tracked(r, key) => Tracked(r, key)'
           /\ \A j \in DOMAIN results : Followed(j, r, key) => Followed(j, r, key)'
      /\ \A r, key : Told("started", r, key)' <=> Told("started", r, key)
  BY <1>2, <1>5, <1>6, Reported DEF Of, Hits
<1>8. \A j \in DOMAIN results' :
        \/ results'[j].kind = "noMetrics"
        \/ j \in DOMAIN results /\ results'[j] = results[j]
  BY <1>2, <1>6, Reported
<1>9. SyncedTracked'
  BY <1>2, <1>3, <1>7 DEF SyncedTracked, Watching
<1>10. ReplacedTracked'
  <2> SUFFICES ASSUME NEW j \in DOMAIN results', NEW r \in Resources, NEW k \in Keys,
                      Sent(j, "replaced", r, k)'
               PROVE  \E key \in Keys : k \in Cover(r, key)' /\ Followed(j, r, key)'
    BY DEF ReplacedTracked
  <2>1. j \in DOMAIN results /\ Sent(j, "replaced", r, k)
    BY <1>8 DEF Sent, Of
  <2>2. QED
    BY <1>3, <1>7, <2>1 DEF ReplacedTracked, Watching
<1>11. QED
  BY <1>1, <1>2, <1>3, <1>4, <1>7, <1>8, <1>9, <1>10, SteadyWatching
     DEF SameReconciles

-----------------------------------------------------------------------------
(* The worker executes the reconcile.                                      *)

LEMMA ExecuteReconcileWatching ==
  ASSUME TypeOK, Watching, NEW i \in DOMAIN commands, ExecuteReconcile(i)
  PROVE  Watching'
<1> DEFINE more == [resource: {resource}, source: commands[i].sources,
                    generation: {generation[resource] + 1}, pc: {"queued"}]
<1>1. /\ Sources /\ Unique /\ OnePending /\ InScope /\ WatchersLast
      /\ LastingServed /\ ScopeServed /\ SyncedTracked /\ ReplacedTracked
  BY DEF Watching
<1>2. /\ commands[i].kind = "reconcile" /\ commands' = RemoveAt(commands, i)
      /\ UNCHANGED ui /\ UNCHANGED results
  BY DEF ExecuteReconcile, Takes
<1>3. UNCHANGED <<discovered, selected, resource, active, synced, errors, orphans,
                  results>>
  BY <1>2 DEF ui, scope, cache
<1>4. /\ resource # NoResource /\ commands[i].resource = resource
      /\ starts = {} /\ \A w \in watchers : w.unsent = {}
      /\ \A j \in DOMAIN results : results[j].kind \notin {"replaced", "started"}
      /\ \A key \in KeysOf(resource, active) :
           \E src \in commands[i].sources : src.key = key
      /\ \A n \in DOMAIN commands : commands[n].kind = "reconcile" => n = i
  BY <1>1, <1>2 DEF OnePending
<1>5. resource \in Resources
  BY <1>4, PartsAre
<1>6. /\ starts' = more
      /\ watchers' = {w \in watchers : w.resource # resource}
      /\ generation' = [generation EXCEPT ![resource] = @ + 1]
  BY <1>4 DEF ExecuteReconcile, Installed
<1>7. /\ generation'[resource] = generation[resource] + 1
      /\ \A r \in Resources : r # resource => generation'[r] = generation[r]
  BY <1>5, <1>6 DEF TypeOK
<1>8. \A j \in DOMAIN commands' : commands'[j].kind # "reconcile"
  BY <1>2, <1>4, RemovedIs
<1>9. /\ \A r \in Resources : ~Pending(r)'
      /\ \A r \in Resources : Pending(r) <=> r = resource
  BY <1>2, <1>4, <1>8 DEF Pending, Asks
<1>10. /\ Wanted' = Wanted
       /\ \A r \in Resources, key \in Keys : Cover(r, key)' = Cover(r, key)
       /\ \A r \in Resources : Needed(r)' = Needed(r)
  BY <1>3, Fixed
<1>11. /\ \A s \in more : /\ s.resource = resource /\ s.pc = "queued"
                          /\ s.source \in commands[i].sources
                          /\ s.generation = generation[resource] + 1
       /\ \A src \in commands[i].sources :
            \E s \in more : s.resource = resource /\ s.source = src /\ s.pc = "queued"
       /\ \A s, t \in more : s.source = t.source => s = t
  <2>1. \A s \in more : /\ s.resource = resource /\ s.pc = "queued"
                        /\ s.source \in commands[i].sources
                        /\ s.generation = generation[resource] + 1
    OBVIOUS
  <2>2. ASSUME NEW src \in commands[i].sources
        PROVE  \E s \in more : s.resource = resource /\ s.source = src /\ s.pc = "queued"
    <3> DEFINE s == [resource |-> resource, source |-> src,
                     generation |-> generation[resource] + 1, pc |-> "queued"]
    <3>1. s \in more /\ s.resource = resource /\ s.source = src /\ s.pc = "queued"
      OBVIOUS
    <3> HIDE DEF s, more
    <3>2. QED
      BY <3>1
  <2>3. \A s \in more : s = [resource |-> resource, source |-> s.source,
                             generation |-> generation[resource] + 1, pc |-> "queued"]
    OBVIOUS
  <2>4. \A s, t \in more : s.source = t.source => s = t
    BY <2>3
  <2>5. QED
    BY <2>1, <2>2, <2>4
<1> HIDE DEF more
<1>12. \A src \in commands[i].sources :
         /\ src = SourceOf(resource, src.key, discovered)
         /\ src.key \in Wanted /\ src.key \in Keys
  BY <1>1, <1>2, <1>4, PartsAre DEF Sources, InScope
<1>13. Sources'
  BY <1>3, <1>6, <1>7, <1>11, <1>12, <1>1, PartsAre, <1>8 DEF Sources
<1>14. Unique'
  BY <1>6, <1>11, <1>12, <1>1 DEF Is, Unique
<1>15. OnePending'
  BY <1>8 DEF OnePending
<1>16. InScope'
  BY <1>6, <1>11, <1>12, <1>4, <1>3, <1>1, <1>8, <1>10 DEF Told, Sent, Of,
     InScope, KeysOf
<1>17. \A r \in Resources, key \in Keys : Starting(r, key) => Starting(r, key)'
  BY <1>4 DEF Starting
<1>18. /\ \A r \in Resources, key \in Keys : Held(r, key)' <=> Held(r, key)
       /\ \A r \in Resources, k \in Keys : Failing(r, k)' <=> Failing(r, k)
       /\ \A r \in Resources, k \in Keys : Orphaned(r, k)' <=> Orphaned(r, k)
       /\ \A r \in Resources, key \in Keys : Tracked(r, key) => Tracked(r, key)'
  BY <1>3, <1>17, Unreported
<1>19. WatchersLast'
  <2> SUFFICES ASSUME NEW w \in watchers'
               PROVE  Lasting(w.resource, w.source.key)'
    BY DEF WatchersLast
  <2>1. w \in watchers /\ w.resource # resource /\ w.resource \in Resources
        /\ w.source.key \in Keys
    BY <1>6, PartsAre
  <2>2. Held(w.resource, w.source.key)
    BY <1>1, <1>4, <1>9, <2>1 DEF WatchersLast, Lasting, Starting
  <2>3. QED
    BY <1>18, <2>1, <2>2 DEF Lasting
<1>20. LastingServed'
  <2> SUFFICES ASSUME NEW r \in Resources, NEW key \in Keys, Lasting(r, key)'
               PROVE  \/ Attempted(r, key)'
                      \/ \A k \in Cover(r, key)' : Failing(r, k)'
    BY DEF LastingServed
  <2>1. CASE r = resource
    <3>1. CASE Starting(r, key)'
      BY <1>6, <1>11, <3>1 DEF Starting, Attempted
    <3>2. CASE Held(r, key)'
      <4>1. key \in KeysOf(resource, active)
        BY <1>4, <1>18, <2>1, <3>2 DEF Held, Sent, Of, KeysOf
      <4>2. PICK src \in commands[i].sources : src.key = key
        BY <1>4, <4>1
      <4>3. \E s \in starts' : s.resource = resource /\ s.source = src /\ s.pc = "queued"
        BY <1>6, <1>11
      <4>4. QED
        BY <2>1, <4>2, <4>3 DEF Attempted, Is
    <3>3. QED
      BY <3>1, <3>2 DEF Lasting
  <2>2. CASE r # resource
    <3>1. ~Starting(r, key)'
      BY <1>6, <1>11, <2>2 DEF Starting, Is
    <3>2. Lasting(r, key) /\ ~Pending(r)
      BY <1>9, <1>18, <2>2, <3>1 DEF Lasting
    <3>3. Attempted(r, key) => Attempted(r, key)'
      BY <1>4, <1>6, <2>2 DEF Attempted, Is
    <3>4. Cover(r, key) \subseteq Keys
      BY PartsAre DEF Cover, SourceOf, Keys
    <3>5. Attempted(r, key) \/ \A k \in Cover(r, key) : Failing(r, k)
      BY <1>1, <3>2 DEF LastingServed
    <3>6. QED
      BY <1>10, <1>18, <3>3, <3>4, <3>5
  <2>3. QED
    BY <2>1, <2>2
<1>21. ScopeServed'
  <2> SUFFICES ASSUME NEW k \in Needed(resource)
               PROVE  \/ Served(resource, k)' \/ Failing(resource, k)'
                      \/ Orphaned(resource, k)'
    BY <1>3, <1>5, <1>10 DEF ScopeServed
  <2>1. k \in Keys
    BY <1>5, PartsAre DEF Needed, Keys
  <2>2. \/ Asked(resource, k) \/ Failing(resource, k) \/ Orphaned(resource, k)
    BY <1>1, <1>4, <1>5, <1>9 DEF ScopeServed, Served
  <2>3. CASE Failing(resource, k) \/ Orphaned(resource, k)
    BY <1>3, <1>5, <1>18, <2>1, <2>3
  <2>4. CASE Asked(resource, k)
    <3>1. PICK src \in commands[i].sources : k \in src.covers
      BY <1>4, <2>4 DEF Asked, Asks
    <3>2. \E s \in starts' : s.resource = resource /\ s.source = src /\ s.pc = "queued"
      BY <1>6, <1>11
    <3>3. QED
      BY <1>3, <1>5, <1>9, <3>1, <3>2 DEF Served
  <2>5. QED
    BY <2>2, <2>3, <2>4
<1>22. SyncedTracked'
  BY <1>1, <1>3, <1>10, <1>18 DEF SyncedTracked
<1>23. ReplacedTracked'
  BY <1>3, <1>4 DEF ReplacedTracked, Sent, Of
<1>24. QED
  BY <1>13, <1>14, <1>15, <1>16, <1>19, <1>20, <1>21, <1>22, <1>23 DEF Watching

-----------------------------------------------------------------------------
(* A result arrives.                                                       *)

LEMMA ArrivedWatching ==
  ASSUME TypeOK, TypeOK', Watching,
         results # <<>>, results' = Tail(results), NEW e, e = results[1],
         UNCHANGED <<discovered, selected, resource, starts, watchers, generation>>,
         SameReconciles,
         \A r \in Resources, key \in Keys :
           <<r, key>> \in active' <=>
             \/ Of(e, "started", r, key)
             \/ <<r, key>> \in active /\ ~Of(e, "failed", r, key),
         \A r \in Resources, k \in Keys :
           <<r, k>> \in errors' <=>
             \/ Hits(e, selected, r, k)
             \/ <<r, k>> \in errors /\ ~Of(e, "replaced", r, k),
         \A r \in Resources, k \in Keys :
           <<r, k>> \in orphans /\ ~Of(e, "replaced", r, k) =>
             <<r, k>> \in orphans' \/ Hits(e, selected, r, k),
         \A r \in Resources, k \in Keys :
           <<r, k>> \in synced' \ orphans' =>
             \/ Of(e, "replaced", r, k)
             \/ /\ <<r, k>> \in synced \ orphans
                /\ \A key \in Keys : k \in Cover(r, key) => ~Of(e, "failed", r, key)
  PROVE  Watching'
<1>1. /\ \A r \in Resources, key \in Keys : Held(r, key)' <=> Held(r, key)
      /\ \A r \in Resources, k \in Keys : Failing(r, k)' <=> Failing(r, k)
      /\ \A r \in Resources, k \in Keys :
           Orphaned(r, k) => Orphaned(r, k)' \/ Failing(r, k)'
      /\ \A r \in Resources, key \in Keys :
           /\ Tracked(r, key) /\ ~Of(e, "failed", r, key) => Tracked(r, key)'
           /\ Followed(1, r, key) /\ ~Of(e, "failed", r, key) => Tracked(r, key)'
           /\ \A i \in DOMAIN results' :
                Followed(i + 1, r, key) => Followed(i, r, key)'
      /\ \A i \in DOMAIN results' :
           i + 1 \in DOMAIN results /\ results'[i] = results[i + 1]
      /\ \A kind, r, key : Told(kind, r, key)' => Told(kind, r, key)
  BY Arrived
<1>2. /\ Wanted' = Wanted
      /\ \A r \in Resources, key \in Keys : Cover(r, key)' = Cover(r, key)
      /\ Needed(resource)' = Needed(resource)
  BY Fixed DEF Needed
<1>3. 1 \in DOMAIN results
  BY TailIs DEF TypeOK
<1>4. SyncedTracked'
  <2> SUFFICES ASSUME NEW r \in Resources, NEW k \in Keys,
                      <<r, k>> \in synced' \ orphans'
               PROVE  \E key \in Keys : k \in Cover(r, key)' /\ Tracked(r, key)'
    BY DEF SyncedTracked
  <2>1. CASE Of(e, "replaced", r, k)
    <3>1. Sent(1, "replaced", r, k)
      BY <2>1 DEF Sent
    <3>2. PICK key \in Keys : k \in Cover(r, key) /\ Followed(1, r, key)
      BY <1>3, <3>1 DEF Watching, ReplacedTracked
    <3>3. ~Of(e, "failed", r, key)
      BY <2>1 DEF Of
    <3>4. QED
      BY <1>1, <1>2, <3>2, <3>3
  <2>2. CASE /\ <<r, k>> \in synced \ orphans
             /\ \A key \in Keys : k \in Cover(r, key) => ~Of(e, "failed", r, key)
    BY <1>1, <1>2, <2>2 DEF Watching, SyncedTracked
  <2>3. QED
    BY <2>1, <2>2
<1>5. ReplacedTracked'
  <2> SUFFICES ASSUME NEW j \in DOMAIN results', NEW r \in Resources, NEW k \in Keys,
                      Sent(j, "replaced", r, k)'
               PROVE  \E key \in Keys : k \in Cover(r, key)' /\ Followed(j, r, key)'
    BY DEF ReplacedTracked
  <2>1. j + 1 \in DOMAIN results /\ Sent(j + 1, "replaced", r, k)
    BY <1>1 DEF Sent, Of
  <2>2. PICK key \in Keys : k \in Cover(r, key) /\ Followed(j + 1, r, key)
    BY <2>1 DEF Watching, ReplacedTracked
  <2>3. QED
    BY <1>1, <1>2, <2>2
<1>6. \A r \in Resources, key \in Keys :
        key \in KeysOf(r, active') => key \in KeysOf(r, active) \/ Told("started", r, key)
  <2> SUFFICES ASSUME NEW r \in Resources, NEW key \in Keys, <<r, key>> \in active'
               PROVE  <<r, key>> \in active \/ Told("started", r, key)
    BY DEF KeysOf, TypeOK, WatchKey
  <2>1. QED
    BY <1>3 DEF Told, Sent
<1>7. \A j \in DOMAIN results' :
        \/ results'[j].kind \notin {"replaced", "started"}
        \/ \E i \in DOMAIN results : results[i] = results'[j]
  BY <1>1
<1>8. QED
  BY <1>1, <1>2, <1>4, <1>5, <1>6, <1>7, SteadyWatching DEF SameReconciles

LEMMA FirstIs ==
  ASSUME TypeOK, NEW kind, Received(kind)
  PROVE  /\ results # <<>> /\ results' = Tail(results)
         /\ results[1] \in Result /\ results[1].kind = kind
         /\ Received1 = <<results[1].resource, results[1].key>>
         /\ kind \in {"replaced", "started", "failed"} =>
              results[1].resource \in Resources /\ results[1].key \in Keys
         /\ UNCHANGED <<starts, watchers, generation, known, polling, left>>
<1>1. results # <<>> /\ results' = Tail(results) /\ Head(results).kind = kind
      /\ UNCHANGED worker /\ UNCHANGED left
  BY DEF Received
<1>2. Head(results) = results[1] /\ results[1] \in Result
  BY <1>1, TailIs DEF TypeOK
<1>3. QED
  BY <1>1, <1>2, ResultIs DEF Received1, worker, watch

LEMMA ApplyReplacedWatching ==
  ASSUME TypeOK, TypeOK', Watching, ApplyReplaced
  PROVE  Watching'
<1>1. PICK e : e = results[1]
  OBVIOUS
<1>2. /\ results # <<>> /\ results' = Tail(results)
      /\ e.kind = "replaced" /\ e.resource \in Resources /\ e.key \in Keys
      /\ Received1 = <<e.resource, e.key>>
      /\ UNCHANGED <<starts, watchers, generation>>
  BY <1>1, FirstIs DEF ApplyReplaced
<1>3. /\ synced' = synced \cup {<<e.resource, e.key>>}
      /\ errors' = errors \ {<<e.resource, e.key>>}
      /\ orphans' = orphans \ {<<e.resource, e.key>>}
      /\ UNCHANGED <<active, discovered, selected, resource, commands>>
  BY <1>2 DEF ApplyReplaced, scope
<1>4. SameReconciles
  BY <1>3, MetricsReconciles DEF Watching
<1>5. \A r, k : /\ ~Of(e, "failed", r, k) /\ ~Of(e, "started", r, k)
                /\ ~Hits(e, selected, r, k)
                /\ Of(e, "replaced", r, k) <=> <<r, k>> = <<e.resource, e.key>>
  BY <1>2 DEF Of, Hits
<1>6. QED
  BY <1>1, <1>2, <1>3, <1>4, <1>5, ArrivedWatching

LEMMA ApplyStartedWatching ==
  ASSUME TypeOK, TypeOK', Watching, ApplyStarted
  PROVE  Watching'
<1>1. PICK e : e = results[1]
  OBVIOUS
<1>2. /\ results # <<>> /\ results' = Tail(results)
      /\ e.kind = "started" /\ e.resource \in Resources /\ e.key \in Keys
      /\ Received1 = <<e.resource, e.key>>
      /\ UNCHANGED <<starts, watchers, generation>>
  BY <1>1, FirstIs DEF ApplyStarted
<1>3. /\ active' = active \cup {<<e.resource, e.key>>}
      /\ UNCHANGED <<synced, errors, orphans, discovered, selected, resource, commands>>
  BY <1>2 DEF ApplyStarted, scope
<1>4. SameReconciles
  BY <1>3, MetricsReconciles DEF Watching
<1>5. \A r, k : /\ ~Of(e, "failed", r, k) /\ ~Of(e, "replaced", r, k)
                /\ ~Hits(e, selected, r, k)
                /\ Of(e, "started", r, k) <=> <<r, k>> = <<e.resource, e.key>>
  BY <1>2 DEF Of, Hits
<1>6. QED
  BY <1>1, <1>2, <1>3, <1>4, <1>5, ArrivedWatching

LEMMA ApplyFailedWatching ==
  ASSUME TypeOK, TypeOK', Watching, ApplyFailed
  PROVE  Watching'
<1>1. PICK e : e = results[1]
  OBVIOUS
<1>2. /\ results # <<>> /\ results' = Tail(results)
      /\ e.kind = "failed" /\ e.resource \in Resources /\ e.key \in Keys
      /\ Received1 = <<e.resource, e.key>>
      /\ UNCHANGED <<starts, watchers, generation>>
  BY <1>1, FirstIs DEF ApplyFailed
<1>3. Head(results) = e
  BY <1>1, <1>2, TailIs DEF TypeOK
<1> DEFINE all == e.key = Whole /\ e.resource \in Namespaced
           failed == IF all THEN Under(e.resource, selected)
                            ELSE {<<e.resource, e.key>>}
<1>4. /\ active' = active \ {<<e.resource, e.key>>}
      /\ synced' = synced \ failed /\ errors' = errors \cup failed
      /\ orphans' = (orphans \cup (IF all THEN {k \in synced : k[1] = e.resource}
                                         ELSE {})) \ failed
      /\ UNCHANGED <<discovered, selected, resource, commands>>
  BY <1>2, <1>3 DEF ApplyFailed, scope
<1>5. SameReconciles
  BY <1>4, MetricsReconciles DEF Watching
<1>6. \A r, k : /\ ~Of(e, "started", r, k) /\ ~Of(e, "replaced", r, k)
                /\ Of(e, "failed", r, k) <=> <<r, k>> = <<e.resource, e.key>>
                /\ Hits(e, selected, r, k) <=> <<r, k>> \in failed
  BY <1>2 DEF Of, Hits, Under
<1>7. ASSUME NEW r \in Resources, NEW k \in Keys, <<r, k>> \in synced' \ orphans',
             NEW key \in Keys, k \in Cover(r, key), Of(e, "failed", r, key)
      PROVE  FALSE
  <2>1. r = e.resource /\ key = e.key
    BY <1>7 DEF Of
  <2>2. CASE all
    BY <1>4, <1>7, <2>1, <2>2
  <2>3. CASE ~all
    BY <1>4, <1>7, <2>1, <2>3 DEF Cover, SourceOf
  <2>4. QED
    BY <2>2, <2>3
<1>8. \A r \in Resources, k \in Keys : <<r, k>> \in synced' \ orphans' =>
        <<r, k>> \in synced \ orphans
  BY <1>4
<1> HIDE DEF all
<1>9. \A r \in Resources, k \in Keys :
        <<r, k>> \in orphans => <<r, k>> \in orphans' \/ <<r, k>> \in failed
  BY <1>4
<1> HIDE DEF failed
<1>10. QED
  BY <1>1, <1>2, <1>4, <1>5, <1>6, <1>7, <1>8, <1>9, ArrivedWatching

LEMMA MetricsUnavailableGrows ==
  ASSUME TypeOK, ApplyMetricsUnavailable
  PROVE  /\ \/ commands' = commands
            \/ \E r, found : Grown(r, {}, FALSE, found)
         /\ metrics' \in SUBSET metrics
<1> DEFINE r0 == Head(results).resource
           kept == {k \in metrics : PolledBy(k) # r0}
<1>1. \/ UNCHANGED <<metricsApi, metrics, commands>>
      \/ /\ metricsApi' = metricsApi \ {r0} /\ metrics' = kept
         /\ commands' = commands \o MetricsCommands(metrics, kept)
  BY DEF ApplyMetricsUnavailable
<1>2. CASE UNCHANGED <<metricsApi, metrics, commands>>
  BY <1>2
<1>3. CASE /\ metricsApi' = metricsApi \ {r0} /\ metrics' = kept
           /\ commands' = commands \o MetricsCommands(metrics, kept)
  BY <1>3, ConcatEmptySeq, GrownIs DEF TypeOK
<1>4. QED
  BY <1>1, <1>2, <1>3

LEMMA ApplyMetricsUnavailableWatching ==
  ASSUME TypeOK, TypeOK', Watching, ApplyMetricsUnavailable
  PROVE  Watching'
<1>1. PICK e : e = results[1]
  OBVIOUS
<1>2. /\ results # <<>> /\ results' = Tail(results) /\ e.kind = "noMetrics"
      /\ UNCHANGED <<starts, watchers, generation>>
  BY <1>1, FirstIs DEF ApplyMetricsUnavailable
<1>3. UNCHANGED <<active, synced, errors, orphans, discovered, selected, resource>>
  BY DEF ApplyMetricsUnavailable, scope, cache
<1>4. SameReconciles
  BY MetricsUnavailableGrows, MetricsReconciles DEF Watching
<1>5. \A r, k : /\ ~Of(e, "failed", r, k) /\ ~Of(e, "replaced", r, k)
                /\ ~Of(e, "started", r, k) /\ ~Hits(e, selected, r, k)
  BY <1>2 DEF Of, Hits
<1>6. QED
  BY <1>1, <1>2, <1>3, <1>4, <1>5, ArrivedWatching

-----------------------------------------------------------------------------
(* The user interface asks, with nothing under way.                        *)

(* The sources that are active, with these namespaces, are watched or show *)
(* errors, and what is synchronized is of such a source or an orphan.      *)
Rest(found) ==
  /\ starts = {}
  /\ \A i \in DOMAIN commands : commands[i].kind # "reconcile"
  /\ \A w \in watchers :
       /\ w.unsent = {} /\ w.generation = generation[w.resource]
       /\ w.source = SourceOf(w.resource, w.source.key, found)
       /\ <<w.resource, w.source.key>> \in active
  /\ \A w, v \in watchers : Is(w, v.resource, v.source.key) => w = v
  /\ \A r \in Resources, key \in Keys : <<r, key>> \in active =>
       \/ \E w \in watchers : Is(w, r, key)
       \/ \A k \in SourceOf(r, key, found).covers : <<r, k>> \in errors
  /\ \A r \in Resources, k \in Keys : <<r, k>> \in synced \ orphans =>
       \E key \in Keys : <<r, key>> \in active /\ k \in SourceOf(r, key, found).covers

LEMMA DesiredCovers ==
  ASSUME NEW r \in Resources, NEW found \in SUBSET Namespaces,
         NEW chosen \in SUBSET Namespaces
  PROVE  /\ \A k \in IF r \in Namespaced THEN chosen ELSE {Whole} :
              \E a \in Desired(r, found, chosen) : k \in SourceOf(r, a, found).covers
         /\ ~AllSelected(r, found, chosen) => \A a \in Desired(r, found, chosen) :
              SourceOf(r, a, found).covers = {a}
<1>1. CASE r \notin Namespaced
  BY <1>1 DEF Desired, AllSelected, SourceOf
<1>2. CASE r \in Namespaced /\ AllSelected(r, found, chosen)
  BY <1>2 DEF Desired, AllSelected, SourceOf
<1>3. CASE r \in Namespaced /\ ~AllSelected(r, found, chosen)
  BY <1>3, ScopeAssumption DEF Desired, SourceOf
<1>4. QED
  BY <1>1, <1>2, <1>3

LEMMA KeysOfIs ==
  ASSUME NEW r, NEW keys
  PROVE  /\ \A key : <<r, key>> \in keys => key \in KeysOf(r, keys)
         /\ keys \subseteq WatchKey =>
              \A key \in KeysOf(r, keys) :
                /\ <<r, key>> \in keys /\ key \in Keys /\ r \in Resources
<1>1. ASSUME NEW key, <<r, key>> \in keys PROVE key \in KeysOf(r, keys)
  BY <1>1 DEF KeysOf
<1>2. keys \subseteq WatchKey =>
        \A key \in KeysOf(r, keys) :
          /\ <<r, key>> \in keys /\ key \in Keys /\ r \in Resources
  BY DEF KeysOf, WatchKey
<1>3. QED
  BY <1>1, <1>2

(* What is common to all that the user interface may ask.                  *)
LEMMA RestWatching ==
  ASSUME TypeOK, TypeOK', NEW r \in Resources \cup {NoResource},
         NEW found \in SUBSET Namespaces, NEW chosen \in SUBSET Namespaces,
         Rest(found), resource' = r, discovered' = found, selected' = chosen,
         UNCHANGED <<starts, watchers, generation>>,
         \A j \in DOMAIN results' :
           results'[j].kind \notin {"replaced", "started", "failed"}
  PROVE  /\ \A q \in Resources, key \in Keys :
              /\ Lasting(q, key)' <=> <<q, key>> \in active'
              /\ <<q, key>> \in active' => Tracked(q, key)'
              /\ <<q, key>> \in errors' => Failing(q, key)'
              /\ <<q, key>> \in orphans' => Orphaned(q, key)'
              /\ Cover(q, key)' = SourceOf(q, key, found).covers
         /\ Unique' /\ ReplacedTracked'
<1>1. \A q, key : \A j \in DOMAIN results' :
        /\ ~Sent(j, "started", q, key)' /\ ~Sent(j, "failed", q, key)'
        /\ ~Sent(j, "replaced", q, key)'
  BY DEF Sent, Of
<1>2. \A q \in Resources, key \in Keys :
        /\ Lasting(q, key)' <=> <<q, key>> \in active'
        /\ <<q, key>> \in active' => Tracked(q, key)'
        /\ <<q, key>> \in errors' => Failing(q, key)'
        /\ <<q, key>> \in orphans' => Orphaned(q, key)'
  <2>1. \A q \in Resources, key \in Keys : Held(q, key)' <=> <<q, key>> \in active'
    BY <1>1 DEF Held
  <2>2. \A q \in Resources, key \in Keys : ~Starting(q, key)'
    BY DEF Starting, Rest
  <2>3. \A q \in Resources, key \in Keys : Lasting(q, key)' <=> <<q, key>> \in active'
    BY <2>1, <2>2 DEF Lasting
  <2>4. \A q \in Resources, key \in Keys : <<q, key>> \in active' => Tracked(q, key)'
    BY DEF Tracked
  <2>5. \A q \in Resources, key \in Keys : <<q, key>> \in errors' => Failing(q, key)'
    BY <1>1 DEF Failing
  <2>6. \A q \in Resources, key \in Keys : <<q, key>> \in orphans' => Orphaned(q, key)'
    BY <1>1 DEF Orphaned
  <2>7. QED
    BY <2>3, <2>4, <2>5, <2>6
<1>3. \A q \in Resources, key \in Keys :
        Cover(q, key)' = SourceOf(q, key, found).covers
  BY DEF Cover, SourceOf
<1>4. Unique'
  BY DEF Unique, Rest, Is
<1>5. ReplacedTracked'
  BY DEF ReplacedTracked, Sent, Of
<1>6. QED
  BY <1>2, <1>3, <1>4, <1>5

(* It asks for nothing: nothing is shown, or what is wanted is active.     *)
LEMMA AskNothing ==
  ASSUME TypeOK, TypeOK', NEW r \in Resources \cup {NoResource},
         NEW found \in SUBSET Namespaces, NEW chosen \in SUBSET Namespaces,
         Rest(found), resource' = r, discovered' = found, selected' = chosen,
         UNCHANGED <<starts, watchers, generation, active, synced, errors, orphans>>,
         \A j \in DOMAIN results' :
           results'[j].kind \notin {"replaced", "started", "failed"},
         \A j \in DOMAIN commands' : commands'[j].kind # "reconcile",
         r # NoResource => KeysOf(r, active) = Desired(r, found, chosen)
  PROVE  Watching'
<1>1. /\ \A q \in Resources, key \in Keys :
           /\ Lasting(q, key)' <=> <<q, key>> \in active'
           /\ <<q, key>> \in active' => Tracked(q, key)'
           /\ <<q, key>> \in errors' => Failing(q, key)'
           /\ <<q, key>> \in orphans' => Orphaned(q, key)'
           /\ Cover(q, key)' = SourceOf(q, key, found).covers
      /\ Unique' /\ ReplacedTracked'
  BY RestWatching
<1>2. \A q : ~Pending(q)'
  BY DEF Pending, Asks
<1>3. \A w \in watchers : w.resource \in Resources /\ w.source.key \in Keys
  BY PartsAre
<1>4. \A q \in Resources, key \in Keys : SourceOf(q, key, found).covers \subseteq Keys
  BY DEF SourceOf, Keys
<1>5. /\ \A w \in watchers :
           /\ w.unsent = {} /\ w.generation = generation[w.resource]
           /\ w.source = SourceOf(w.resource, w.source.key, found)
           /\ <<w.resource, w.source.key>> \in active
      /\ \A q \in Resources, key \in Keys : <<q, key>> \in active =>
           \/ \E w \in watchers : Is(w, q, key)
           \/ \A k \in SourceOf(q, key, found).covers : <<q, k>> \in errors
      /\ starts = {}
  BY DEF Rest
<1>6. Sources'
  BY <1>5 DEF Sources
<1>7. OnePending'
  BY DEF OnePending
<1>8. InScope'
  <2>1. /\ \A w \in watchers' : w.unsent = {}
        /\ \A key \in Keys : ~Told("started", resource, key)'
    BY <1>5 DEF Told, Sent, Of
  <2>2. CASE r = NoResource
    BY <1>5, <2>1, <2>2 DEF InScope
  <2>3. CASE r # NoResource
    <3>1. KeysOf(resource, active)' = Desired(r, found, chosen)
      BY <2>3 DEF KeysOf
    <3>2. Wanted' = Desired(r, found, chosen)
      BY DEF Wanted, Desired, AllSelected
    <3>3. \A w \in watchers' : w.resource = r => w.source.key \in Desired(r, found, chosen)
      <4>1. \A key : <<r, key>> \in active => key \in KeysOf(r, active)
        BY KeysOfIs
      <4>2. KeysOf(r, active) = Desired(r, found, chosen)
        BY <2>3
      <4>3. QED
        BY <1>5, <4>1, <4>2
    <3>4. QED
      BY <1>5, <2>1, <3>1, <3>2, <3>3 DEF InScope
  <2>4. QED
    BY <2>2, <2>3
<1>9. WatchersLast'
  BY <1>1, <1>3, <1>5 DEF WatchersLast
<1>10. LastingServed'
  <2> SUFFICES ASSUME NEW q \in Resources, NEW key \in Keys, <<q, key>> \in active
               PROVE  \/ Attempted(q, key)'
                      \/ \A k \in SourceOf(q, key, found).covers : Failing(q, k)'
    BY <1>1 DEF LastingServed
  <2>1. CASE \E w \in watchers : Is(w, q, key)
    BY <2>1 DEF Attempted, Is
  <2>2. CASE \A k \in SourceOf(q, key, found).covers : <<q, k>> \in errors
    BY <1>1, <1>4, <2>2
  <2>3. QED
    BY <1>5, <2>1, <2>2
<1>11. ScopeServed'
  <2> SUFFICES ASSUME r # NoResource,
                      NEW k \in IF r \in Namespaced THEN chosen ELSE {Whole}
               PROVE  Served(r, k)' \/ Failing(r, k)'
    BY DEF ScopeServed, Needed, Served
  <2>1. PICK a \in Desired(r, found, chosen) : k \in SourceOf(r, a, found).covers
    <3>1. r \in Resources
      OBVIOUS
    <3>2. \A n \in IF r \in Namespaced THEN chosen ELSE {Whole} :
            \E a \in Desired(r, found, chosen) : n \in SourceOf(r, a, found).covers
      BY ZenonT(30), <3>1, DesiredCovers
    <3>3. QED
      BY <3>2
  <2>2. r \in Resources /\ a \in Keys /\ <<r, a>> \in active /\ k \in Keys
    <3>1. active \subseteq WatchKey /\ a \in KeysOf(r, active)
      BY <2>1 DEF TypeOK
    <3>2. <<r, a>> \in active /\ a \in Keys /\ r \in Resources
      BY <3>1, KeysOfIs
    <3>3. QED
      BY <1>4, <2>1, <3>2
  <2>3. CASE \E w \in watchers : Is(w, r, a)
    BY <1>2, <1>5, <2>1, <2>3 DEF Served, Is
  <2>4. CASE \A n \in SourceOf(r, a, found).covers : <<r, n>> \in errors
    BY <1>1, <2>1, <2>2, <2>4
  <2>5. QED
    BY <1>5, <2>2, <2>3, <2>4
<1>12. SyncedTracked'
  <2> SUFFICES ASSUME NEW q \in Resources, NEW k \in Keys, <<q, k>> \in synced \ orphans
               PROVE  \E key \in Keys : k \in Cover(q, key)' /\ Tracked(q, key)'
    BY DEF SyncedTracked
  <2>1. PICK key \in Keys : <<q, key>> \in active /\ k \in SourceOf(q, key, found).covers
    BY DEF Rest
  <2>2. QED
    BY <1>1, <2>1
<1>13. QED
  BY <1>1, <1>6, <1>7, <1>8, <1>9, <1>10, <1>11, <1>12 DEF Watching

(* It asks for another scope of the resource shown.                        *)
LEMMA AskChanged ==
  ASSUME TypeOK, TypeOK', NEW r \in Resources,
         NEW found \in SUBSET Namespaces, NEW chosen \in SUBSET Namespaces,
         NEW missing \in SUBSET Keys,
         Rest(found), resource' = r, discovered' = found, selected' = chosen,
         UNCHANGED <<starts, watchers, generation>>,
         \A j \in DOMAIN results' :
           results'[j].kind \notin {"replaced", "started", "failed"},
         Changed(r, found, chosen, active, missing)
  PROVE  Watching'
<1>1. /\ \A q \in Resources, key \in Keys :
           /\ Lasting(q, key)' <=> <<q, key>> \in active'
           /\ <<q, key>> \in active' => Tracked(q, key)'
           /\ <<q, key>> \in errors' => Failing(q, key)'
           /\ <<q, key>> \in orphans' => Orphaned(q, key)'
           /\ Cover(q, key)' = SourceOf(q, key, found).covers
      /\ Unique' /\ ReplacedTracked'
  BY RestWatching
<1>2. PICK had \in BOOLEAN : had <=> KeysOf(r, active) # {}
  OBVIOUS
<1>3. /\ active' = Others(r, active) \cup Under(r, missing)
      /\ synced' = Kept(r, had, synced) /\ errors' = Kept(r, had, errors)
      /\ orphans' = Kept(r, had, orphans)
      /\ missing = IF AllSelected(r, found, chosen) THEN Desired(r, found, chosen)
                   ELSE Desired(r, found, chosen) \ KeysOf(r, Kept(r, had, synced))
      /\ Grown(r, missing, had \/ missing # {}, found)
  BY <1>2 DEF Changed
<1>4. /\ starts = {}
      /\ \A w \in watchers :
           /\ w.unsent = {} /\ w.generation = generation[w.resource]
           /\ w.source = SourceOf(w.resource, w.source.key, found)
           /\ <<w.resource, w.source.key>> \in active
      /\ \A i \in DOMAIN commands : commands[i].kind # "reconcile"
  BY DEF Rest
<1>5. \A w \in watchers : w.resource \in Resources /\ w.source.key \in Keys
  BY PartsAre
<1>6. \A key : <<r, key>> \in active => had
  BY <1>2, KeysOfIs
(* Other resources keep what they have, and nothing of this one is kept.   *)
<1>7. \A q \in Resources, key \in Keys : q # r =>
        /\ <<q, key>> \in active' <=> <<q, key>> \in active
        /\ <<q, key>> \in errors => <<q, key>> \in errors'
        /\ <<q, key>> \in synced' \ orphans' => <<q, key>> \in synced \ orphans
  BY <1>3 DEF Others, Under, Kept
<1>8. KeysOf(r, active') = missing
  <2>1. active' \subseteq WatchKey
    BY DEF TypeOK
  <2>2. \A key : <<r, key>> \in active' <=> key \in missing
    BY <1>3 DEF Others, Under
  <2>3. QED
    BY <2>1, <2>2, KeysOfIs
<1>9. \A key \in Keys : <<r, key>> \in synced' \ orphans' => FALSE
  <2> SUFFICES ASSUME NEW key \in Keys, <<r, key>> \in synced', <<r, key>> \notin orphans'
               PROVE  FALSE
    OBVIOUS
  <2>1. ~had /\ <<r, key>> \in synced \ orphans
    BY <1>3 DEF Kept, Others
  <2>2. PICK a \in Keys : <<r, a>> \in active
    BY <2>1 DEF Rest
  <2>3. QED
    BY <1>6, <2>1, <2>2
<1>10. \A i \in DOMAIN commands' : commands'[i].kind = "reconcile" =>
         /\ had \/ missing # {}
         /\ i \in New /\ commands'[i].resource = r
         /\ commands'[i].sources = {SourceOf(r, k, found) : k \in missing}
  BY <1>3, <1>4 DEF Grown, New
<1>11. had \/ missing # {} => \E i \in DOMAIN commands' :
         /\ Asks(i, r)' /\ commands'[i].sources = {SourceOf(r, k, found) : k \in missing}
  BY <1>3 DEF Grown, New, Asks
<1>12. /\ \A q : q # r => ~Pending(q)'
       /\ Pending(r)' <=> had \/ missing # {}
  BY <1>10, <1>11 DEF Pending, Asks
<1>13. Sources'
  <2>1. ASSUME NEW i \in DOMAIN commands', commands'[i].kind = "reconcile",
               NEW src \in commands'[i].sources
        PROVE  src = SourceOf(commands'[i].resource, src.key, found)
    BY <1>10, <2>1 DEF SourceOf
  <2>2. QED
    BY <1>4, <2>1 DEF Sources
<1>14. OnePending'
  <2> SUFFICES ASSUME NEW i \in DOMAIN commands', commands'[i].kind = "reconcile"
               PROVE  /\ \A j \in DOMAIN commands' :
                           commands'[j].kind = "reconcile" => i = j
                      /\ r # NoResource /\ commands'[i].resource = r
                      /\ starts' = {} /\ \A w \in watchers' : w.unsent = {}
                      /\ \A j \in DOMAIN results' :
                           results'[j].kind \notin {"replaced", "started"}
                      /\ \A key \in KeysOf(r, active') :
                           \E src \in commands'[i].sources : src.key = key
    BY DEF OnePending, KeysOf
  <2>1. \A j \in DOMAIN commands' : commands'[j].kind = "reconcile" => i = j
    BY <1>3, <1>10 DEF Grown
  <2>2. r # NoResource /\ commands'[i].resource = r
    BY <1>10, ScopeAssumption
  <2>3. ASSUME NEW key \in missing
        PROVE  \E src \in commands'[i].sources : src.key = key
    <3>1. SourceOf(r, key, found) \in commands'[i].sources
      BY <1>10
    <3>2. SourceOf(r, key, found).key = key
      BY DEF SourceOf
    <3>3. QED
      BY <3>1, <3>2
  <2>4. QED
    BY <1>4, <1>8, <2>1, <2>2, <2>3
<1>15. InScope'
  <2>1. /\ \A w \in watchers' : w.unsent = {}
        /\ \A key \in Keys : ~Told("started", resource, key)'
    BY <1>4 DEF Told, Sent, Of
  <2>2. Wanted' = Desired(r, found, chosen) /\ missing \subseteq Desired(r, found, chosen)
    BY <1>3 DEF Wanted, Desired, AllSelected
  <2>3. KeysOf(resource, active)' \subseteq Wanted'
    BY <1>8, <2>2 DEF KeysOf
  <2>4. \A i \in DOMAIN commands' : commands'[i].kind = "reconcile" =>
          \A src \in commands'[i].sources : src.key \in Wanted'
    BY <1>10, <2>2 DEF SourceOf
  <2>5. ~Pending(r)' => \A w \in watchers' : w.resource # r
    BY <1>4, <1>6, <1>12
  <2>6. QED
    BY <1>4, <2>1, <2>3, <2>4, <2>5 DEF InScope
<1>16. WatchersLast'
  <2> SUFFICES ASSUME NEW w \in watchers
               PROVE  Pending(w.resource)' \/ Lasting(w.resource, w.source.key)'
    BY DEF WatchersLast
  <2>1. <<w.resource, w.source.key>> \in active
    BY <1>4
  <2>2. QED
    BY <1>1, <1>5, <1>6, <1>7, <1>12, <2>1
<1>17. LastingServed'
  <2> SUFFICES ASSUME NEW q \in Resources, NEW key \in Keys, ~Pending(q)',
                      <<q, key>> \in active'
               PROVE  \/ Attempted(q, key)'
                      \/ \A k \in SourceOf(q, key, found).covers : Failing(q, k)'
    BY <1>1 DEF LastingServed
  <2>1. q # r
    <3> SUFFICES ASSUME q = r PROVE FALSE
      OBVIOUS
    <3>1. missing = {}
      BY <1>12
    <3>2. key \in KeysOf(r, active')
      BY KeysOfIs
    <3>3. QED
      BY <1>8, <3>1, <3>2
  <2>2. <<q, key>> \in active
    BY <1>7, <2>1
  <2>3. CASE \E w \in watchers : Is(w, q, key)
    BY <2>3 DEF Attempted, Is
  <2>4. CASE \A k \in SourceOf(q, key, found).covers : <<q, k>> \in errors
    <3>1. SourceOf(q, key, found).covers \subseteq Keys
      BY DEF SourceOf, Keys
    <3>2. QED
      BY <1>1, <1>7, <2>1, <2>4, <3>1
  <2>5. QED
    BY <2>2, <2>3, <2>4 DEF Rest
<1>18. ScopeServed'
  <2> SUFFICES ASSUME NEW k \in IF r \in Namespaced THEN chosen ELSE {Whole}
               PROVE  Asked(r, k)' \/ Orphaned(r, k)'
    BY DEF ScopeServed, Needed
  <2>1. PICK a \in Desired(r, found, chosen) : k \in SourceOf(r, a, found).covers
    <3>1. \A n \in IF r \in Namespaced THEN chosen ELSE {Whole} :
            \E a \in Desired(r, found, chosen) : n \in SourceOf(r, a, found).covers
      BY ZenonT(30), DesiredCovers
    <3>2. QED
      BY <3>1
  <2>2. a \in Keys
    BY <2>1, DesiredIs
  <2>3. CASE a \in missing
    <3>1. PICK i \in DOMAIN commands' :
            /\ Asks(i, r)'
            /\ commands'[i].sources = {SourceOf(r, n, found) : n \in missing}
      BY <1>11, <2>3
    <3>2. QED
      BY <2>1, <2>3, <3>1 DEF Asked
  <2>4. CASE a \notin missing
    <3>1. ~AllSelected(r, found, chosen) /\ a \in KeysOf(r, Kept(r, had, synced))
      BY <1>3, <2>1, <2>4
    <3>2. SourceOf(r, a, found).covers = {a}
      <4>1. \A n \in Desired(r, found, chosen) : SourceOf(r, n, found).covers = {n}
        BY <3>1, DesiredCovers
      <4>2. QED
        BY <2>1, <4>1
    <3>3. a = k /\ <<r, k>> \in synced'
      BY <1>3, <3>1, KeysOfIs, <2>1, <3>2 DEF TypeOK
    <3>4. <<r, k>> \in orphans'
      BY <1>9, <2>2, <3>3
    <3>5. QED
      BY <1>1, <2>2, <3>3, <3>4
  <2>5. QED
    BY <2>3, <2>4
<1>19. SyncedTracked'
  <2> SUFFICES ASSUME NEW q \in Resources, NEW k \in Keys, <<q, k>> \in synced' \ orphans'
               PROVE  \E key \in Keys : k \in Cover(q, key)' /\ Tracked(q, key)'
    BY DEF SyncedTracked
  <2>1. q # r /\ <<q, k>> \in synced \ orphans
    BY <1>7, <1>9
  <2>2. PICK key \in Keys : <<q, key>> \in active /\ k \in SourceOf(q, key, found).covers
    BY <2>1 DEF Rest
  <2>3. QED
    BY <1>1, <1>7, <2>1, <2>2
<1>20. QED
  BY <1>1, <1>13, <1>14, <1>15, <1>16, <1>17, <1>18, <1>19 DEF Watching

LEMMA AskWatching ==
  ASSUME TypeOK, TypeOK', NEW r \in Resources \cup {NoResource},
         NEW found \in SUBSET Namespaces, NEW chosen \in SUBSET Namespaces,
         Rest(found), resource' = r, discovered' = found, selected' = chosen,
         UNCHANGED <<starts, watchers, generation>>,
         \A j \in DOMAIN results' :
           results'[j].kind \notin {"replaced", "started", "failed"},
         RequestIfSelected(r, found, chosen, active)
  PROVE  Watching'
<1>1. \A i \in DOMAIN commands : commands[i].kind # "reconcile"
  BY DEF Rest
<1>2. CASE r = NoResource
  BY <1>2, <1>1, AskNothing DEF RequestIfSelected, cache
<1>3. CASE r # NoResource
  <2>1. active \in SUBSET WatchKey /\ metricsApi' \subseteq {Pods, Nodes}
        /\ r \in Resources /\ Request(r, found, chosen, active)
    BY <1>3 DEF TypeOK, RequestIfSelected
  <2>2. \/ Same(r, found, chosen, active)
        \/ \E missing \in SUBSET Keys : Changed(r, found, chosen, active, missing)
    BY <2>1, RequestIs
  <2>3. CASE Same(r, found, chosen, active)
    BY <2>3, <1>1, AskNothing DEF Same, Grown, New
  <2>4. CASE \E missing \in SUBSET Keys : Changed(r, found, chosen, active, missing)
    BY <2>1, <2>4, AskChanged
  <2>5. QED
    BY <2>2, <2>3, <2>4
<1>4. QED
  BY <1>2, <1>3

(* With nothing under way, everything rests.                               *)
LEMMA QuietRests ==
  ASSUME TypeOK, Watching, Quiet
  PROVE  Rest(discovered)
<1>1. /\ starts = {} /\ \A w \in watchers : w.unsent = {}
      /\ DOMAIN commands = {} /\ DOMAIN results = {}
  BY DEF Quiet, Initializing
<1>2. /\ Sources /\ Unique /\ WatchersLast /\ LastingServed /\ SyncedTracked
  BY DEF Watching
<1>3. \A q : ~Pending(q)
  BY <1>1 DEF Pending
<1>4. \A q \in Resources, key \in Keys :
        /\ Lasting(q, key) <=> <<q, key>> \in active
        /\ Tracked(q, key) => <<q, key>> \in active
        /\ Failing(q, key) => <<q, key>> \in errors
        /\ Attempted(q, key) => \E w \in watchers : Is(w, q, key)
  BY <1>1 DEF Lasting, Starting, Held, Tracked, Failing, Attempted
<1>5. \A w \in watchers : w.resource \in Resources /\ w.source.key \in Keys
  BY PartsAre
<1>6. \A q \in Resources, key \in Keys :
        /\ Cover(q, key) = SourceOf(q, key, discovered).covers
        /\ Cover(q, key) \subseteq Keys
  BY PartsAre DEF Cover, SourceOf, Keys
<1>7. ASSUME NEW w \in watchers
      PROVE  /\ w.unsent = {} /\ w.generation = generation[w.resource]
             /\ w.source = SourceOf(w.resource, w.source.key, discovered)
             /\ <<w.resource, w.source.key>> \in active
  BY <1>2, <1>3, <1>1, <1>4, <1>5 DEF WatchersLast, Sources
<1>8. \A w, v \in watchers : Is(w, v.resource, v.source.key) => w = v
  BY <1>2 DEF Unique
<1>9. ASSUME NEW q \in Resources, NEW key \in Keys, <<q, key>> \in active
      PROVE  \/ \E w \in watchers : Is(w, q, key)
             \/ \A k \in SourceOf(q, key, discovered).covers : <<q, k>> \in errors
  BY <1>3, <1>4, <1>9, <1>2, <1>6 DEF LastingServed
<1>10. ASSUME NEW q \in Resources, NEW k \in Keys, <<q, k>> \in synced \ orphans
       PROVE  \E key \in Keys : /\ <<q, key>> \in active
                                /\ k \in SourceOf(q, key, discovered).covers
  BY <1>2, <1>4, <1>6, <1>10 DEF SyncedTracked
<1>11. QED
  BY <1>1, <1>7, <1>8, <1>9, <1>10 DEF Rest

LEMMA UserAsks ==
  ASSUME TypeOK, UserStep
  PROVE  /\ UserActs
         /\ resource' \in Resources \cup {NoResource} /\ selected' \in SUBSET Namespaces
         /\ RequestIfSelected(resource', discovered, selected', active)
<1>1. /\ discovered \subseteq Namespaces /\ selected \subseteq Namespaces
      /\ resource \in Resources \cup {NoResource} /\ left.offers \subseteq Resources
  BY DEF TypeOK
<1>2. ASSUME NEW chosen, ChangeSelection(chosen)
      PROVE  /\ selected' = chosen /\ resource' = resource
             /\ RequestIfSelected(resource', discovered, selected', active)
  BY <1>2 DEF ChangeSelection
<1>3. CASE ToggleNamespace
  <2>1. PICK n \in discovered :
          ChangeSelection(IF n \in selected THEN selected \ {n} ELSE selected \cup {n})
    BY <1>3 DEF ToggleNamespace
  <2>2. (IF n \in selected THEN selected \ {n} ELSE selected \cup {n})
          \in SUBSET Namespaces
    BY <1>1
  <2>3. QED
    BY <1>1, <1>2, <1>3, <2>1, <2>2 DEF ToggleNamespace
<1>4. CASE ReplaceSelectedNamespaces
  BY <1>1, <1>2, <1>4 DEF ReplaceSelectedNamespaces
<1>5. CASE SelectAllNamespaces
  BY <1>1, <1>2, <1>5 DEF SelectAllNamespaces
<1>6. CASE ClearSelectedNamespaces
  BY <1>1, <1>2, <1>6 DEF ClearSelectedNamespaces
<1>7. CASE SelectApiResource
  <2>1. PICK r \in left.offers : SelectResource(r)
    BY <1>7 DEF SelectApiResource
  <2>2. r \in Resources /\ r # NoResource
    BY <1>1, ScopeAssumption
  <2>3. resource' = r /\ selected' = selected /\ Request(r, discovered, selected, active)
    BY <2>1 DEF SelectResource
  <2>4. RequestIfSelected(resource', discovered, selected', active)
    BY <2>2, <2>3 DEF RequestIfSelected
  <2>5. QED
    BY <1>1, <1>7, <2>2, <2>3, <2>4 DEF SelectApiResource
<1>8. CASE RetrySelectedLoad
  BY <1>8, <1>1 DEF RetrySelectedLoad, ErrorShown, Shown, RequestIfSelected
<1>9. QED
  BY <1>3, <1>4, <1>5, <1>6, <1>7, <1>8 DEF UserStep

(* A click.                                                                *)
LEMMA UserWatching ==
  ASSUME TypeOK, TypeOK', Watching, left.calm, UserStep
  PROVE  Watching'
<1>1. PICK r \in Resources \cup {NoResource}, chosen \in SUBSET Namespaces :
        /\ resource' = r /\ selected' = chosen
        /\ RequestIfSelected(r, discovered, chosen, active)
  BY UserAsks
<1>2. UserActs
  BY UserAsks
<1>3. Quiet /\ UNCHANGED <<discovered, results, starts, watchers, generation>>
  BY <1>2 DEF UserActs, worker, watch
<1>4. Rest(discovered) /\ discovered \in SUBSET Namespaces
  BY <1>3, QuietRests DEF TypeOK
<1>5. DOMAIN results' = {}
  BY <1>3 DEF Quiet
<1>6. PICK found \in SUBSET Namespaces : found = discovered
  BY <1>4
<1>7. QED
  BY <1>1, <1>3, <1>4, <1>5, <1>6, AskWatching

-----------------------------------------------------------------------------
(* What discovery finds arrives.                                           *)

(* An answer of discovery comes only while it is awaited.                  *)
LEMMA Awaited ==
  ASSUME TypeOK, Startup, results # <<>>
  PROVE  /\ results[1].kind = "apis" => "apis" \in loading
         /\ results[1].kind = "nsReplaced" => "namespaces" \in loading
         /\ results[1].kind \notin {"nsAdded", "nsDeleted"}
         /\ results[1].kind \in WorkerKinds => loading = {}
<1>1. 1 \in DOMAIN results /\ loading \subseteq {"namespaces", "apis"}
  BY TailIs DEF TypeOK
<1>2. CASE "apis" \in loading
  BY <1>1, <1>2 DEF Startup, WorkerKinds
<1>3. CASE "apis" \notin loading /\ "namespaces" \in loading
  BY <1>3 DEF Startup, WorkerKinds
<1>4. CASE loading = {}
  BY <1>1, <1>4 DEF Startup, WorkerKinds
<1>5. QED
  BY <1>1, <1>2, <1>3, <1>4

LEMMA OneIs ==
  ASSUME NEW e
  PROVE  \A j \in DOMAIN <<e>> : <<e>>[j] = e
  OBVIOUS

(* What follows an answer while the API resources are awaited.             *)
LEMMA AwaitedNext ==
  ASSUME TypeOK, Startup, results # <<>>, results' = Tail(results),
         "apis" \in loading
  PROVE  /\ \A j \in DOMAIN results' : results'[j].kind \in {"apis", "nsReplaced"}
         /\ results[1].kind = "apis" =>
              IF "namespaces" \in loading
              THEN \E found \in SUBSET Namespaces :
                     results' = <<[kind |-> "nsReplaced", namespaces |-> found]>>
              ELSE results' = <<>>
         /\ results[1].kind = "nsReplaced" =>
              \E r \in left.offers \cup {NoResource} :
                results' = <<[kind |-> "apis", restored |-> r]>>
<1>1. PICK r \in left.offers \cup {NoResource} : \E found \in SUBSET Namespaces :
        results \in IF "namespaces" \in loading
          THEN {<<[kind |-> "nsReplaced", namespaces |-> found],
                  [kind |-> "apis", restored |-> r]>>,
                <<[kind |-> "apis", restored |-> r],
                  [kind |-> "nsReplaced", namespaces |-> found]>>}
          ELSE {<<[kind |-> "apis", restored |-> r]>>}
  BY DEF Startup
<1>2. PICK found \in SUBSET Namespaces :
        results \in IF "namespaces" \in loading
          THEN {<<[kind |-> "nsReplaced", namespaces |-> found],
                  [kind |-> "apis", restored |-> r]>>,
                <<[kind |-> "apis", restored |-> r],
                  [kind |-> "nsReplaced", namespaces |-> found]>>}
          ELSE {<<[kind |-> "apis", restored |-> r]>>}
  BY <1>1
<1>3. CASE results = <<[kind |-> "nsReplaced", namespaces |-> found],
                       [kind |-> "apis", restored |-> r]>>
  <2>1. PICK e : e = [kind |-> "apis", restored |-> r]
    OBVIOUS
  <2>2. results' = <<e>> /\ results[1].kind = "nsReplaced" /\ e.kind = "apis"
    BY <1>3, <2>1
  <2>3. \A j \in DOMAIN results' : results'[j].kind = "apis"
    BY <2>2, OneIs
  <2>4. QED
    BY <2>1, <2>2, <2>3
<1>4. CASE /\ "namespaces" \in loading
           /\ results = <<[kind |-> "apis", restored |-> r],
                          [kind |-> "nsReplaced", namespaces |-> found]>>
  <2>1. PICK e : e = [kind |-> "nsReplaced", namespaces |-> found]
    OBVIOUS
  <2>2. results' = <<e>> /\ results[1].kind = "apis" /\ e.kind = "nsReplaced"
    BY <1>4, <2>1
  <2>3. \A j \in DOMAIN results' : results'[j].kind = "nsReplaced"
    BY <2>2, OneIs
  <2>4. \E n \in SUBSET Namespaces :
          results' = <<[kind |-> "nsReplaced", namespaces |-> n]>>
    BY <2>1, <2>2
  <2>5. QED
    BY <1>4, <2>2, <2>3, <2>4
<1>5. CASE "namespaces" \notin loading /\ results = <<[kind |-> "apis", restored |-> r]>>
  BY <1>5
<1>6. QED
  BY <1>2, <1>3, <1>4, <1>5

LEMMA ApplyApisLoadedWatching ==
  ASSUME TypeOK, TypeOK', Startup, ApplyApisLoaded
  PROVE  Watching'
<1>1. /\ results # <<>> /\ results' = Tail(results) /\ results[1].kind = "apis"
      /\ results[1] \in Result
      /\ UNCHANGED <<starts, watchers, generation>>
  BY FirstIs DEF ApplyApisLoaded
<1>2. "apis" \in loading
  BY <1>1, Awaited
<1>3. /\ active = {} /\ synced = {} /\ errors = {} /\ orphans = {}
      /\ DOMAIN commands = {} /\ starts = {} /\ watchers = {} /\ resource = NoResource
  BY <1>2 DEF Startup, Unasked
<1>4. PICK found \in SUBSET Namespaces, chosen \in SUBSET Namespaces :
        found = discovered /\ chosen = selected
  BY DEF TypeOK
<1>5. PICK r \in Resources \cup {NoResource} : r = results[1].restored
  BY <1>1, ResultIs
<1>6. Rest(found)
  BY <1>3 DEF Rest
<1>7. discovered' = found /\ selected' = chosen
  BY <1>4 DEF ApplyApisLoaded, SelectResource
<1>8. results[1] = Head(results)
  BY <1>1, TailIs DEF TypeOK
<1>9. resource' = r /\ RequestIfSelected(r, found, chosen, active)
  BY <1>3, <1>4, <1>5, <1>8 DEF ApplyApisLoaded, SelectResource, RequestIfSelected
<1>10. \A j \in DOMAIN results' :
         results'[j].kind \notin {"replaced", "started", "failed"}
  BY <1>1, <1>2, AwaitedNext
<1>11. QED
  BY <1>1, <1>6, <1>7, <1>9, <1>10, AskWatching

LEMMA ApplyNamespacesReplacedWatching ==
  ASSUME TypeOK, TypeOK', Startup, Watching, ApplyNamespacesReplaced
  PROVE  Watching'
<1>1. /\ results # <<>> /\ results' = Tail(results) /\ results[1].kind = "nsReplaced"
      /\ results[1] \in Result /\ Head(results) = results[1]
      /\ UNCHANGED <<starts, watchers, generation>>
  BY FirstIs, TailIs DEF ApplyNamespacesReplaced, TypeOK
<1>2. "namespaces" \in loading
  BY <1>1, Awaited
<1>3. PICK found \in SUBSET Namespaces, chosen \in SUBSET Namespaces,
           r \in Resources \cup {NoResource} :
        found = results[1].namespaces /\ chosen = selected' /\ r = resource
  BY <1>1, ResultIs DEF TypeOK
<1>4. discovered' = found /\ selected' = chosen /\ resource' = r
  BY <1>1, <1>3 DEF ApplyNamespacesReplaced
<1>5. NamespacesChanged(found, chosen)
  BY <1>3, <1>4 DEF ApplyNamespacesReplaced
<1>6. /\ 1 \in DOMAIN results
      /\ \A j \in DOMAIN results' :
           j + 1 \in DOMAIN results /\ j + 1 > 1 /\ results'[j] = results[j + 1]
  BY <1>1, TailIs DEF TypeOK
<1>7. r \in Namespaced => r \in Resources
  BY ScopeAssumption
<1>8. ASSUME active = {} PROVE RequestIfSelected(r, found, chosen, active)
  BY <1>3, <1>5, <1>8 DEF NamespacesChanged
(* The API resources are not loaded yet, or nothing is watched.            *)
<1>9. CASE "apis" \in loading
  <2>1. /\ active = {} /\ synced = {} /\ errors = {} /\ orphans = {}
        /\ DOMAIN commands = {} /\ starts = {} /\ watchers = {}
    BY <1>9 DEF Startup, Unasked
  <2>2. Rest(found)
    BY <2>1 DEF Rest
  <2>3. \A j \in DOMAIN results' :
          results'[j].kind \notin {"replaced", "started", "failed"}
    BY <1>1, <1>9, AwaitedNext
  <2>4. QED
    BY <1>1, <1>4, <1>8, <2>1, <2>2, <2>3, AskWatching
<1>10. CASE "apis" \notin loading
  <2>1. /\ \A j \in DOMAIN results : j > 1 =>
             /\ results[j].kind \in WorkerKinds
             /\ results[j].kind # "noMetrics" =>
                  results[j].resource = resource /\ resource \notin Namespaced
        /\ synced = {} /\ errors = {} /\ orphans = {}
        /\ active = IF resource \in Resources \ Namespaced
                      THEN {<<resource, Whole>>} ELSE {}
        /\ \A s \in starts \cup watchers :
             s.resource = resource /\ resource \notin Namespaced
        /\ \A i \in DOMAIN commands :
             commands[i].kind = "reconcile" => resource \notin Namespaced
    BY <1>2, <1>10 DEF Startup
  <2>2. CASE r \notin Resources \ Namespaced
    <3>1. r = NoResource \/ r \in Namespaced
      BY <1>7, <2>2
    <3>2. active = {}
      BY <1>3, <2>1, <2>2
    <3>3. starts = {} /\ watchers = {}
      BY <1>3, <2>1, <3>1, PartsAre, ScopeAssumption
    <3>4. \A i \in DOMAIN commands : commands[i].kind # "reconcile"
      BY <1>3, <2>1, <3>1 DEF Watching, OnePending
    <3>5. \A j \in DOMAIN results : j > 1 =>
            results[j].kind \notin {"replaced", "started", "failed"}
      BY <1>3, <2>1, <3>1, PartsAre, ResultIs, ScopeAssumption
    <3>6. \A j \in DOMAIN results' :
            results'[j].kind \notin {"replaced", "started", "failed"}
      BY <1>6, <3>5
    <3>7. Rest(found)
      BY <2>1, <3>2, <3>3, <3>4 DEF Rest
    <3>8. QED
      BY <1>1, <1>4, <1>8, <3>2, <3>6, <3>7, AskWatching
  <2>3. CASE r \in Resources \ Namespaced
    <3>1. active = {<<r, Whole>>} /\ active \in SUBSET WatchKey
      BY <1>3, <2>1, <2>3 DEF TypeOK
    <3>2. Desired(r, found, chosen) = {Whole} /\ Wanted = {Whole} /\ Wanted' = {Whole}
          /\ Needed(resource) = {Whole} /\ Needed(resource)' = {Whole}
      BY <1>3, <1>4, <2>3 DEF Desired, AllSelected, Wanted, Needed
    <3>3. KeysOf(r, active) = {Whole}
      BY <3>1 DEF KeysOf
    <3>4. Request(r, found, chosen, active)
      BY <1>3, <1>5, <2>3, ScopeAssumption DEF NamespacesChanged, RequestIfSelected
    <3>5. metricsApi' \subseteq {Pods, Nodes} /\ r \in Resources
      BY <2>3 DEF TypeOK
    <3>6. Same(r, found, chosen, active)
      <4>1. \A missing : ~Changed(r, found, chosen, active, missing)
        BY <3>2, <3>3 DEF Changed
      <4>2. \/ Same(r, found, chosen, active)
            \/ \E missing \in SUBSET Keys : Changed(r, found, chosen, active, missing)
        BY <3>1, <3>4, <3>5, RequestIs
      <4>3. QED
        BY <4>1, <4>2
    <3>7. UNCHANGED <<active, synced, errors, orphans>> /\ Grown(r, {}, FALSE, found)
      BY <3>6 DEF Same
    <3>8. SameReconciles
      BY <3>7, MetricsReconciles DEF Watching
    <3>9. PICK e : e = results[1]
      OBVIOUS
    <3>10. \A q, k : /\ ~Of(e, "failed", q, k) /\ ~Of(e, "replaced", q, k)
                     /\ ~Of(e, "started", q, k) /\ ~Hits(e, selected, q, k)
      BY <1>1, <3>9 DEF Of, Hits
    <3>11. \A i \in DOMAIN results :
             results[i].kind = "failed" => results[i].resource \notin Namespaced
      <4>1. \A i \in DOMAIN results : i = 1 \/ i > 1
        BY <1>1, TailIs DEF TypeOK
      <4>2. ASSUME NEW i \in DOMAIN results, results[i].kind = "failed", i > 1
            PROVE  results[i].resource \notin Namespaced
        BY <2>1, <4>2
      <4>3. QED
        BY <1>1, <4>1, <4>2
    <3>12. /\ \A q \in Resources, key \in Keys : Held(q, key)' <=> Held(q, key)
           /\ \A q \in Resources, k \in Keys : Failing(q, k)' <=> Failing(q, k)
           /\ \A q \in Resources, k \in Keys :
                Orphaned(q, k) => Orphaned(q, k)' \/ Failing(q, k)'
           /\ \A q \in Resources, key \in Keys :
                /\ Tracked(q, key) /\ ~Of(e, "failed", q, key) => Tracked(q, key)'
                /\ Followed(1, q, key) /\ ~Of(e, "failed", q, key) => Tracked(q, key)'
                /\ \A i \in DOMAIN results' :
                     Followed(i + 1, q, key) => Followed(i, q, key)'
           /\ \A i \in DOMAIN results' :
                i + 1 \in DOMAIN results /\ results'[i] = results[i + 1]
           /\ \A kind, q, key : Told(kind, q, key)' => Told(kind, q, key)
      BY <1>1, <2>1, <3>7, <3>9, <3>10, <3>11, Arrived
    <3>13. \A key \in Keys :
             /\ SourceOf(r, key, found) = SourceOf(r, key, discovered)
             /\ Cover(r, key)' = Cover(r, key)
      BY <1>4, <2>3 DEF SourceOf, Cover
    <3>14. \A s \in starts \cup watchers, key \in Keys :
             SourceOf(s.resource, key, discovered') = SourceOf(s.resource, key, discovered)
      BY <1>3, <1>4, <2>1, <3>13
    <3>15. ASSUME NEW q \in Resources, NEW key \in Keys, Lasting(q, key)
           PROVE  Cover(q, key)' = Cover(q, key)
      <4>1. CASE Starting(q, key)
        BY <1>3, <2>1, <3>13, <4>1 DEF Starting, Is
      <4>2. CASE Told("started", q, key)
        <5>1. PICK j \in DOMAIN results : Sent(j, "started", q, key)
          BY <4>2 DEF Told
        <5>2. j > 1
          BY <1>1, <5>1, TailIs DEF Sent, Of, TypeOK
        <5>3. q = r
          BY <1>3, <2>1, <5>1, <5>2 DEF Sent, Of
        <5>4. QED
          BY <3>13, <5>3
      <4>3. CASE <<q, key>> \in active
        BY <3>1, <3>13, <4>3
      <4>4. QED
        BY <3>15, <4>1, <4>2, <4>3 DEF Lasting, Held, Told
    <3>16. SyncedTracked'
      BY <2>1, <3>7 DEF SyncedTracked
    <3>17. ReplacedTracked'
      <4> SUFFICES ASSUME NEW j \in DOMAIN results', NEW q \in Resources, NEW k \in Keys,
                          Sent(j, "replaced", q, k)'
                   PROVE  \E key \in Keys : k \in Cover(q, key)' /\ Followed(j, q, key)'
        BY DEF ReplacedTracked
      <4>1. j + 1 \in DOMAIN results /\ Sent(j + 1, "replaced", q, k) /\ j + 1 > 1
        BY <1>6 DEF Sent, Of
      <4>2. q = r
        BY <1>3, <2>1, <4>1 DEF Sent, Of
      <4>3. PICK key \in Keys : k \in Cover(q, key) /\ Followed(j + 1, q, key)
        BY <4>1 DEF Watching, ReplacedTracked
      <4>4. QED
        BY <3>12, <3>13, <4>2, <4>3
    <3>18. \A q \in Resources, key \in Keys :
             key \in KeysOf(q, active') => key \in KeysOf(q, active) \/ Told("started", q, key)
      BY <3>7
    <3>19. \A j \in DOMAIN results' :
             \/ results'[j].kind \notin {"replaced", "started"}
             \/ \E i \in DOMAIN results : results[i] = results'[j]
      BY <3>12
    <3>20. resource' = resource /\ \A key \in Keys :
             SourceOf(resource, key, discovered') = SourceOf(resource, key, discovered)
      BY <1>3, <1>4, <3>13
    <3>21. Needed(resource)' = Needed(resource) /\ Wanted' = Wanted
      BY <3>2
    <3>22. QED
      BY <1>1, <3>8, <3>12, <3>14, <3>15, <3>16, <3>17, <3>18, <3>19, <3>20,
         <3>21, SteadyWatching DEF SameReconciles
  <2>4. QED
    BY <2>2, <2>3
<1>11. QED
  BY <1>9, <1>10

-----------------------------------------------------------------------------
(* Every step keeps what is under way in order.                            *)

(* No event of the namespace watch is left, and no result tells of one.    *)
LEMMA NoNamespaceEvents ==
  ASSUME TypeOK, Startup
  PROVE  ~NamespaceEvent /\ ~ApplyNamespaceAdded /\ ~ApplyNamespaceDeleted
<1>1. left.events = 0
  BY DEF Startup
<1>2. ~NamespaceEvent
  BY <1>1 DEF NamespaceEvent, Uses
<1>3. ASSUME NEW kind \in {"nsAdded", "nsDeleted"}, Received(kind)
      PROVE  FALSE
  BY <1>3, FirstIs, Awaited
<1>4. QED
  BY <1>2, <1>3 DEF ApplyNamespaceAdded, ApplyNamespaceDeleted

LEMMA StepsWatching ==
  ASSUME TypeOK, TypeOK', left.calm, Startup, Watching, [Next]_vars
  PROVE  Watching'
<1>1. ~NamespaceEvent /\ ~ApplyNamespaceAdded /\ ~ApplyNamespaceDeleted
  BY NoNamespaceEvents
<1>2. CASE UserStep
  BY <1>2, UserWatching
<1>3. CASE ApplyStep
  BY <1>1, <1>3, ApplyReplacedWatching, ApplyStartedWatching, ApplyFailedWatching,
     ApplyNamespacesReplacedWatching, ApplyApisLoadedWatching,
     ApplyMetricsUnavailableWatching DEF ApplyStep
<1>4. CASE CommandStep
  BY <1>4, ExecuteReconcileWatching, ExecuteMetricsWatching DEF CommandStep
<1>5. CASE StartStep
  BY <1>5, StartMovesWatching, AnnounceWatching DEF StartStep
<1>6. CASE ListStep
  BY <1>6, SendReplacedWatching DEF ListStep
<1>7. CASE Failure
  BY <1>7, StartFailsWatching, WatcherFailsWatching, PollerEndsWatching DEF Failure
<1>8. CASE UNCHANGED vars
  <2>1. UNCHANGED <<discovered, selected, resource, active, synced, errors, orphans,
                    commands, results, generation, starts, watchers>>
    BY <1>8 DEF vars, ui, worker, scope, cache, watch
  <2>2. Sources' <=> Sources
    BY <2>1 DEF Sources, SourceOf
  <2>3. Unique' <=> Unique
    BY <2>1 DEF Unique, Is
  <2>4. \A r : Pending(r)' <=> Pending(r)
    BY <2>1 DEF Pending, Asks
  <2>5. Wanted' = Wanted
        /\ \A r, key : Cover(r, key)' = Cover(r, key) /\ Needed(r)' = Needed(r)
    BY <2>1 DEF Wanted, Desired, AllSelected, Cover, SourceOf, Needed
  <2>6. /\ \A r, key : /\ Starting(r, key)' <=> Starting(r, key)
                       /\ Held(r, key)' <=> Held(r, key)
                       /\ Attempted(r, key)' <=> Attempted(r, key)
        /\ \A kind, r, key : Told(kind, r, key)' <=> Told(kind, r, key)
    BY <2>1 DEF Starting, Held, Attempted, Told, Is, Sent, Of
  <2>7. \A r, k : /\ Failing(r, k)' <=> Failing(r, k)
                  /\ Orphaned(r, k)' <=> Orphaned(r, k)
                  /\ Asked(r, k)' <=> Asked(r, k)
    BY <2>1 DEF Failing, Orphaned, Asked, Asks, Hits, Sent, Of
  <2>8. OnePending' <=> OnePending
    BY <2>1 DEF OnePending, KeysOf
  <2>9. InScope' <=> InScope
    BY <2>1, <2>4, <2>5, <2>6 DEF InScope, KeysOf
  <2>10. \A r, key : Lasting(r, key)' <=> Lasting(r, key)
    BY <2>6 DEF Lasting
  <2>11. WatchersLast' <=> WatchersLast
    BY <2>1, <2>4, <2>10 DEF WatchersLast
  <2>12. LastingServed' <=> LastingServed
    BY <2>4, <2>5, <2>6, <2>7, <2>10 DEF LastingServed
  <2>13. \A r, k : Served(r, k)' <=> Served(r, k)
    BY <2>1, <2>4 DEF Served
  <2>14. ScopeServed' <=> ScopeServed
    BY <2>1, <2>5, <2>7, <2>13 DEF ScopeServed
  <2>15. \A r, key : Tracked(r, key)' <=> Tracked(r, key)
    BY <2>1, <2>6 DEF Tracked, Sent, Of
  <2>16. \A i, r, key : Followed(i, r, key)' <=> Followed(i, r, key)
    BY <2>1, <2>6 DEF Followed, Sent, Of
  <2>17. SyncedTracked' <=> SyncedTracked
    BY <2>1, <2>5, <2>15 DEF SyncedTracked
  <2>18. ReplacedTracked' <=> ReplacedTracked
    BY <2>1, <2>5, <2>16 DEF ReplacedTracked, Sent, Of
  <2>19. QED
    BY <2>2, <2>3, <2>8, <2>9, <2>11, <2>12, <2>14, <2>17, <2>18 DEF Watching
<1>9. QED
  BY <1>1, <1>2, <1>3, <1>4, <1>5, <1>6, <1>7, <1>8 DEF Next

-----------------------------------------------------------------------------
(* Every step keeps the order in which a connection starts.                *)

LEMMA BoundsLast ==
  ASSUME TypeOK, [Next]_vars
  PROVE  /\ left'.calm = left.calm /\ left'.offers = left.offers
         /\ left.events = 0 => left'.events = 0
<1>1. \/ UNCHANGED left
      \/ \E bound \in {"clicks", "events", "failures"} : Uses(bound)
  <2>1. CASE UserStep
    BY <2>1 DEF UserStep, ToggleNamespace, ReplaceSelectedNamespaces,
       SelectAllNamespaces, ClearSelectedNamespaces, SelectApiResource,
       RetrySelectedLoad, UserActs
  <2>2. CASE ApplyStep
    BY <2>2 DEF ApplyStep, ApplyReplaced, ApplyStarted, ApplyFailed,
       ApplyNamespaceAdded, ApplyNamespaceDeleted, ApplyNamespacesReplaced,
       ApplyApisLoaded, ApplyMetricsUnavailable, Received
  <2>3. CASE CommandStep \/ StartStep \/ ListStep
    BY <2>3 DEF CommandStep, StartStep, ListStep, ExecuteReconcile, ExecuteMetrics,
       CheckStart, SpawnWatcher, InstallWatch, AnnounceWatch, SendReplaced
  <2>4. CASE NamespaceEvent \/ Failure
    BY <2>4 DEF Failure, StartFails, WatcherFails, PollerEnds, NamespaceEvent
  <2> QED
    BY <2>1, <2>2, <2>3, <2>4 DEF Next, vars
<1>2. QED
  BY <1>1, UsesTypes

(* Once loading ended, or while only the namespaces are awaited, the worker*)
(* goes on.                                                                *)
LEMMA WorkerStartup ==
  ASSUME TypeOK, Startup, "apis" \notin loading, UNCHANGED ui, left'.events = 0,
         \/ results' = results
         \/ \E e \in Result :
              /\ results' = Append(results, e) /\ e.kind \in WorkerKinds
              /\ "namespaces" \in loading /\ e.kind # "noMetrics" =>
                   e.resource = resource /\ resource \notin Namespaced,
         "namespaces" \in loading =>
           /\ \A s \in starts' \cup watchers' :
                s.resource = resource /\ resource \notin Namespaced
           /\ polling' \subseteq {Whole},
         \A j \in DOMAIN commands' :
           \E i \in DOMAIN commands : commands'[j] = commands[i]
  PROVE  Startup'
<1>1. UNCHANGED <<loading, discovered, selected, resource, active, synced, errors,
                  orphans, metrics, metricsApi>>
  BY DEF ui, scope, cache
<1>2. /\ \A j \in DOMAIN results : j \in DOMAIN results' /\ results'[j] = results[j]
      /\ \A j \in DOMAIN results' \ DOMAIN results :
           /\ results'[j].kind \in WorkerKinds
           /\ "namespaces" \in loading /\ results'[j].kind # "noMetrics" =>
                results'[j].resource = resource /\ resource \notin Namespaced
      /\ results # <<>> => results' # <<>> /\ 1 \in DOMAIN results
  <2>1. results \in Seq(Result)
    BY DEF TypeOK
  <2>2. CASE results' = results
    BY <2>1, <2>2, TailIs
  <2>3. ASSUME NEW e \in Result, results' = Append(results, e), e.kind \in WorkerKinds,
               "namespaces" \in loading /\ e.kind # "noMetrics" =>
                 e.resource = resource /\ resource \notin Namespaced
        PROVE  /\ \A j \in DOMAIN results : j \in DOMAIN results' /\ results'[j] = results[j]
               /\ \A j \in DOMAIN results' \ DOMAIN results :
                    /\ results'[j].kind \in WorkerKinds
                    /\ "namespaces" \in loading /\ results'[j].kind # "noMetrics" =>
                         results'[j].resource = resource /\ resource \notin Namespaced
               /\ results # <<>> => results' # <<>> /\ 1 \in DOMAIN results
    <3>1. /\ DOMAIN results' = 1..(Len(results) + 1) /\ DOMAIN results = 1..Len(results)
          /\ Len(results) \in Nat
          /\ \A i \in 1..Len(results) : results'[i] = results[i]
          /\ results'[Len(results) + 1] = e
      BY <2>1, <2>3, AppendIs
    <3>2. \A j \in DOMAIN results' \ DOMAIN results : results'[j] = e
      BY <3>1
    <3>3. results # <<>> => 1 \in DOMAIN results
      BY <2>1, TailIs
    <3>4. results' # <<>>
      BY <3>1
    <3>5. \A j \in DOMAIN results : j \in DOMAIN results' /\ results'[j] = results[j]
      BY <3>1
    <3>6. \A j \in DOMAIN results' \ DOMAIN results :
           /\ results'[j].kind \in WorkerKinds
           /\ "namespaces" \in loading /\ results'[j].kind # "noMetrics" =>
                results'[j].resource = resource /\ resource \notin Namespaced
      BY <2>3, <3>2
    <3>7. QED
      BY <3>3, <3>4, <3>5, <3>6
  <2>4. QED
    BY <2>2, <2>3
<1>3. CASE "namespaces" \in loading
  BY <1>3, <1>2, <1>1 DEF Startup
<1>4. CASE loading = {}
  BY <1>2, <1>4, <1>1 DEF Startup
<1>5. QED
  BY <1>3, <1>4 DEF TypeOK

LEMMA WorkerStepsStartup ==
  ASSUME TypeOK, Startup, Watching, left'.events = 0,
         CommandStep \/ StartStep \/ ListStep \/ Failure
  PROVE  Startup'
<1>1. "apis" \notin loading
  <2> SUFFICES ASSUME "apis" \in loading PROVE FALSE
    OBVIOUS
  <2>1. starts = {} /\ watchers = {} /\ polling = {} /\ DOMAIN commands = {}
    BY DEF Startup, Unasked
  <2>2. QED
    BY <2>1 DEF CommandStep, StartStep, ListStep, Failure
<1> DEFINE InPhase(s) == s.resource = resource /\ resource \notin Namespaced
           Awaits == "namespaces" \in loading
           Tells == \/ results' = results
                    \/ \E e \in Result :
                         /\ results' = Append(results, e) /\ e.kind \in WorkerKinds
                         /\ Awaits /\ e.kind # "noMetrics" => InPhase(e)
<1>2. Awaits =>
        /\ \A s \in starts \cup watchers : InPhase(s)
        /\ polling \subseteq {Whole}
        /\ \A i \in DOMAIN commands :
             /\ commands[i].kind = "reconcile" => resource \notin Namespaced
             /\ commands[i].kind # "reconcile" => commands[i].key = Whole
  BY <1>1 DEF Startup
<1>3. SUFFICES /\ UNCHANGED ui /\ Tells
               /\ Awaits => \A s \in starts' \cup watchers' : InPhase(s)
               /\ Awaits => polling' \subseteq {Whole}
               /\ \A j \in DOMAIN commands' :
                    \E i \in DOMAIN commands : commands'[j] = commands[i]
  BY <1>1, WorkerStartup
<1>4. ASSUME NEW kind \in {"started", "failed"}, NEW s \in starts \cup watchers,
             Report(kind, s)
      PROVE  Tells
  <2>1. PICK e \in Result : /\ results' = Append(results, e) /\ e.kind = kind
                            /\ e.resource = s.resource
    BY <1>4, ReportIs
  <2>2. QED
    BY <1>2, <2>1 DEF WorkerKinds
<1>5. CASE CommandStep
  <2>1. PICK i \in DOMAIN commands : ExecuteReconcile(i) \/ ExecuteMetrics(i)
    BY <1>5 DEF CommandStep
  <2>2. UNCHANGED ui /\ UNCHANGED results /\ commands' = RemoveAt(commands, i)
    BY <2>1 DEF ExecuteReconcile, ExecuteMetrics, Takes
  <2>3. \A j \in DOMAIN commands' : \E n \in DOMAIN commands : commands'[j] = commands[n]
    BY <2>2, RemovedIs
  <2>4. CASE ExecuteReconcile(i)
    BY <2>4, <1>2, <2>2, <2>3 DEF ExecuteReconcile, Watching, OnePending
  <2>5. CASE ExecuteMetrics(i)
    BY <2>5, <1>2, <2>2, <2>3 DEF ExecuteMetrics, watch
  <2>6. QED
    BY <2>1, <2>4, <2>5
<1>6. CASE StartStep \/ \E s \in starts : StartFails(s)
  <2>1. PICK s \in starts : \/ CheckStart(s) \/ SpawnWatcher(s) \/ InstallWatch(s)
                            \/ AnnounceWatch(s) \/ StartFails(s)
    BY <1>6 DEF StartStep
  <2>2. UNCHANGED ui /\ UNCHANGED commands /\ UNCHANGED polling
    BY <2>1 DEF CheckStart, SpawnWatcher, InstallWatch, AnnounceWatch, StartFails
  <2>3. Tells
    BY <1>4, <2>1 DEF CheckStart, SpawnWatcher, InstallWatch, AnnounceWatch, StartFails
  <2>4. \A t \in starts' : t \in starts \/ t.resource = s.resource
    BY <2>1 DEF TypeOK, Start, CheckStart, SpawnWatcher, InstallWatch,
       AnnounceWatch, StartFails, Moves
  <2>5. \A w \in watchers' : w \in watchers \/ w.resource = s.resource
    <3>1. WatcherOf(s).resource = s.resource
      BY DEF WatcherOf
    <3>2. watchers' \subseteq watchers \cup {WatcherOf(s)}
      BY <2>1 DEF CheckStart, SpawnWatcher, InstallWatch, AnnounceWatch, StartFails
    <3>3. QED
      BY <3>1, <3>2
  <2>6. QED
    BY <1>2, <2>2, <2>3, <2>4, <2>5
<1>7. CASE ListStep
  <2>1. PICK w \in watchers : SendReplaced(w)
    BY <1>7 DEF ListStep
  <2>2. PICK k \in w.unsent :
          /\ watchers' = (watchers \ {w}) \cup {[w EXCEPT !.unsent = @ \ {k}]}
          /\ results' = Append(results, [kind |-> "replaced",
                                         resource |-> w.resource, key |-> k])
    BY <2>1 DEF SendReplaced
  <2>3. UNCHANGED ui /\ UNCHANGED <<commands, starts, polling>>
    BY <2>1 DEF SendReplaced
  <2>4. [w EXCEPT !.unsent = @ \ {k}].resource = w.resource
    BY DEF TypeOK, Watcher
  <2>5. Tells
    BY <2>2, PartsAre, <1>2 DEF Result, WorkerKinds
  <2>6. QED
    BY <1>2, <2>2, <2>3, <2>4, <2>5
<1>8. CASE \E w \in watchers : WatcherFails(w)
  <2>1. PICK w \in watchers : WatcherFails(w)
    BY <1>8
  <2>2. QED
    BY <1>2, <1>4, <2>1 DEF WatcherFails
<1>9. CASE \E k \in polling : PollerEnds(k)
  <2>1. PICK k \in polling : PollerEnds(k)
    BY <1>9
  <2>2. Tells
    BY <2>1 DEF Result, PolledBy, PollerEnds, WorkerKinds
  <2>3. UNCHANGED ui /\ UNCHANGED <<commands, starts, watchers>> /\ polling' \subseteq polling
    BY <2>1 DEF PollerEnds, watch
  <2>4. QED
    BY <1>2, <2>2, <2>3
<1>10. QED
  BY <1>5, <1>6, <1>7, <1>8, <1>9 DEF Failure

(* Once all is loaded, only the worker has something to tell.              *)
LEMMA LoadedStartup ==
  ASSUME TypeOK, loading' = {}, left'.events = 0,
         \A j \in DOMAIN results' : results'[j].kind \in WorkerKinds
  PROVE  Startup'
  BY DEF Startup

LEMMA UserStartup ==
  ASSUME TypeOK, Startup, left'.events = 0, UserStep
  PROVE  Startup'
<1>1. loading = {} /\ UNCHANGED <<loading, results>>
  BY UserAsks DEF UserActs
<1>2. \A j \in DOMAIN results : results[j].kind \in WorkerKinds
  BY <1>1 DEF Startup
<1>3. QED
  BY <1>1, <1>2, LoadedStartup

(* A result of the worker arrives.                                         *)
LEMMA WorkerResultStartup ==
  ASSUME TypeOK, Startup, left'.events = 0, UNCHANGED loading,
         NEW kind \in WorkerKinds, Received(kind)
  PROVE  Startup'
<1>1. results # <<>> /\ results' = Tail(results) /\ results[1].kind = kind
  BY FirstIs
<1>2. loading = {}
  BY <1>1, Awaited
<1>3. \A j \in DOMAIN results : results[j].kind \in WorkerKinds
  BY <1>2 DEF Startup
<1>4. results \in Seq(Result)
  BY DEF TypeOK
<1>5. \A j \in DOMAIN results' : j + 1 \in DOMAIN results /\ results'[j] = results[j + 1]
  BY <1>1, <1>4, TailIs
<1>6. QED
  BY <1>2, <1>3, <1>5, LoadedStartup

LEMMA ApplyNamespacesReplacedStartup ==
  ASSUME TypeOK, Startup, left'.events = 0, left'.offers = left.offers,
         ApplyNamespacesReplaced
  PROVE  Startup'
<1>1. /\ results # <<>> /\ results' = Tail(results) /\ results[1].kind = "nsReplaced"
      /\ UNCHANGED <<starts, watchers, polling>>
  BY FirstIs DEF ApplyNamespacesReplaced
<1>2. "namespaces" \in loading /\ loading' = loading \ {"namespaces"}
      /\ loading \subseteq {"namespaces", "apis"}
  BY <1>1, Awaited DEF ApplyNamespacesReplaced, TypeOK
<1>3. CASE "apis" \in loading
  <2>1. /\ Unasked /\ resource = NoResource
        /\ synced = {} /\ errors = {} /\ orphans = {}
        /\ metrics = {} /\ polling = {}
    BY <1>3 DEF Startup
  <2>2. PICK r \in left.offers \cup {NoResource} :
          results' = <<[kind |-> "apis", restored |-> r]>>
    BY <1>1, <1>3, AwaitedNext
  <2>3. resource \notin Namespaced /\ resource' = resource
    BY <2>1, ScopeAssumption DEF ApplyNamespacesReplaced
  <2>4. UNCHANGED <<active, synced, errors, orphans, metrics, commands>>
    BY <2>1, <2>3 DEF ApplyNamespacesReplaced, NamespacesChanged, RequestIfSelected, cache
  <2>5. loading' = {"apis"}
    BY <1>2, <1>3
  <2>6. Unasked'
    BY <1>1, <2>1, <2>4 DEF Unasked
  <2>7. \E q \in left'.offers \cup {NoResource}, found \in SUBSET Namespaces :
          results' \in {<<[kind |-> "apis", restored |-> q]>>}
    BY <2>2
  <2>8. QED
    BY <1>1, <2>1, <2>3, <2>4, <2>5, <2>6, <2>7 DEF Startup
<1>4. CASE "apis" \notin loading
  BY <1>2, <1>4, <1>1, TailIs, LoadedStartup DEF Startup, TypeOK
<1>5. QED
  BY <1>3, <1>4

(* The API resources are loaded before the namespaces: what they restore   *)
(* asks for a source only if it has no namespaces.                         *)
LEMMA FirstRequest ==
  ASSUME TypeOK, TypeOK', NEW r \in Resources, Request(r, {}, {}, {}),
         active = {}, synced = {}, errors = {}, orphans = {}, metrics = {},
         commands = <<>>
  PROVE  /\ synced' = {} /\ errors' = {} /\ orphans' = {}
         /\ active' = IF r \in Namespaced THEN {} ELSE {<<r, Whole>>}
         /\ metrics' = IF r \notin metricsApi' \ {Pods} THEN {} ELSE {Whole}
         /\ \A i \in DOMAIN commands' :
              /\ commands'[i].kind = "reconcile" => r \notin Namespaced
              /\ commands'[i].kind # "reconcile" => commands'[i].key = Whole
<1>1. PICK none : none = {}
  OBVIOUS
<1>2. /\ metrics' = DesiredMetrics(r, none) /\ metrics' \subseteq Keys
      /\ \/ Same(r, none, none, none)
         \/ \E missing \in SUBSET Keys : Changed(r, none, none, none, missing)
  BY <1>1, RequestIs DEF TypeOK
<1>3. metrics' = IF r \notin metricsApi' \ {Pods} THEN {} ELSE {Whole}
  BY <1>1, <1>2 DEF DesiredMetrics
<1>4. Desired(r, none, none) = IF r \in Namespaced THEN {} ELSE {Whole}
  BY <1>1 DEF Desired, AllSelected
<1>5. ~AllSelected(r, none, none)
  BY <1>1 DEF AllSelected
<1>6. KeysOf(r, none) = {}
  BY <1>1 DEF KeysOf
<1>7. DOMAIN commands = {}
  OBVIOUS
<1>8. CASE Same(r, none, none, none)
  BY <1>4, <1>6, <1>8, <1>1, <1>3, <1>7 DEF Same, Grown, New
<1>9. ASSUME NEW missing \in SUBSET Keys, Changed(r, none, none, none, missing)
      PROVE  /\ synced' = {} /\ errors' = {} /\ orphans' = {}
             /\ active' = IF r \in Namespaced THEN {} ELSE {<<r, Whole>>}
             /\ \A i \in DOMAIN commands' :
                  /\ commands'[i].kind = "reconcile" => r \notin Namespaced
                  /\ commands'[i].kind # "reconcile" => commands'[i].key = Whole
  <2>1. r \notin Namespaced /\ Desired(r, none, none) = {Whole}
    BY <1>4, <1>6, <1>9 DEF Changed
  <2>2. /\ missing = Desired(r, none, none) \ KeysOf(r, Kept(r, FALSE, synced))
        /\ active' = Others(r, none) \cup Under(r, missing)
        /\ synced' = synced /\ errors' = errors /\ orphans' = orphans
        /\ \E sends \in BOOLEAN : Grown(r, missing, sends, none)
    BY <1>5, <1>6, <1>9 DEF Changed, Kept
  <2>3. missing = {Whole}
    BY <2>1, <2>2 DEF Kept, KeysOf
  <2>4. active' = {<<r, Whole>>}
    <3>1. Others(r, none) = {}
      BY <1>1 DEF Others
    <3>2. {r} \X {Whole} = {<<r, Whole>>}
      OBVIOUS
    <3>3. Under(r, missing) = {<<r, Whole>>}
      BY <2>3, <3>2 DEF Under
    <3>4. QED
      BY <2>2, <3>1, <3>3
  <2>5. \A i \in DOMAIN commands' :
          commands'[i].kind # "reconcile" => commands'[i].key = Whole
    BY ZenonT(30), <1>3, <1>7, <2>2 DEF Grown, New
  <2>6. QED
    BY <2>1, <2>2, <2>4, <2>5
<1>10. QED
  BY <1>2, <1>3, <1>8, <1>9

LEMMA ApplyApisLoadedStartup ==
  ASSUME TypeOK, TypeOK', Startup, left'.events = 0, ApplyApisLoaded
  PROVE  Startup'
<1>1. /\ results # <<>> /\ results' = Tail(results) /\ results[1].kind = "apis"
      /\ results[1] \in Result /\ Head(results) = results[1]
      /\ UNCHANGED <<starts, watchers, polling, discovered>>
  BY FirstIs, TailIs DEF ApplyApisLoaded, TypeOK
<1>2. "apis" \in loading /\ loading' = loading \ {"apis"}
      /\ loading \subseteq {"namespaces", "apis"}
  BY <1>1, Awaited DEF ApplyApisLoaded, TypeOK
<1>3. CASE "namespaces" \notin loading
  BY <1>1, <1>2, <1>3, AwaitedNext, LoadedStartup
<1>4. CASE "namespaces" \in loading
  <2>1. /\ active = {} /\ commands = <<>> /\ starts = {} /\ watchers = {}
        /\ resource = NoResource /\ synced = {} /\ errors = {} /\ orphans = {}
        /\ metrics = {} /\ polling = {} /\ discovered = {} /\ selected = {}
    BY <1>2, <1>4 DEF Startup, Unasked
  <2>2. PICK e : e.kind = "nsReplaced" /\ results' = <<e>>
    <3>1. PICK found \in SUBSET Namespaces :
            results' = <<[kind |-> "nsReplaced", namespaces |-> found]>>
      BY <1>1, <1>2, <1>4, AwaitedNext
    <3>2. [kind |-> "nsReplaced", namespaces |-> found].kind = "nsReplaced"
      OBVIOUS
    <3>3. QED
      BY <3>1, <3>2
  <2>3. /\ results' # <<>> /\ results'[1].kind = "nsReplaced"
        /\ \A j \in DOMAIN results' : ~(j > 1)
    BY <2>2
  <2>4. selected' = {} /\ discovered' = {}
    BY <1>1, <2>1 DEF ApplyApisLoaded, SelectResource
  <2>5. metricsApi' \subseteq Resources /\ left.offers \subseteq Resources
    BY DEF ApplyApisLoaded, TypeOK
  <2>6. /\ synced' = {} /\ errors' = {} /\ orphans' = {}
        /\ active' = IF resource' \in Resources \ Namespaced
                       THEN {<<resource', Whole>>} ELSE {}
        /\ metrics' = IF resource' \notin metricsApi' \ {Pods} THEN {} ELSE {Whole}
        /\ \A i \in DOMAIN commands' :
             /\ commands'[i].kind = "reconcile" => resource' \notin Namespaced
             /\ commands'[i].kind # "reconcile" => commands'[i].key = Whole
    <3>1. CASE results[1].restored = NoResource
      BY <1>1, <3>1, <2>1, <2>5, ScopeAssumption DEF ApplyApisLoaded, cache
    <3>2. CASE results[1].restored # NoResource
      <4>1. PICK r \in Resources : r = results[1].restored
        BY <1>1, <3>2, ResultIs
      <4>2. resource' = r /\ Request(r, {}, {}, {})
        BY <1>1, <2>1, <3>2, <4>1 DEF ApplyApisLoaded, SelectResource
      <4>3. /\ synced' = {} /\ errors' = {} /\ orphans' = {}
            /\ active' = IF r \in Namespaced THEN {} ELSE {<<r, Whole>>}
            /\ metrics' = IF r \notin metricsApi' \ {Pods} THEN {} ELSE {Whole}
            /\ \A i \in DOMAIN commands' :
                 /\ commands'[i].kind = "reconcile" => r \notin Namespaced
                 /\ commands'[i].kind # "reconcile" => commands'[i].key = Whole
        BY <2>1, <4>2, FirstRequest
      <4>4. QED
        BY <4>1, <4>2, <4>3
    <3>3. QED
      BY <3>1, <3>2
  <2>7. loading' = {"namespaces"}
    BY <1>2, <1>4
  <2>8. starts' = {} /\ watchers' = {} /\ polling' = {}
    BY <1>1, <2>1
  <2>9. QED
    BY <2>3, <2>4, <2>6, <2>7, <2>8 DEF Startup
<1>5. QED
  BY <1>3, <1>4

LEMMA StepsStartup ==
  ASSUME TypeOK, TypeOK', Startup, Watching, [Next]_vars
  PROVE  Startup'
<1>1. left'.events = 0 /\ left'.offers = left.offers
  BY BoundsLast DEF Startup
<1>2. ~NamespaceEvent /\ ~ApplyNamespaceAdded /\ ~ApplyNamespaceDeleted
  BY NoNamespaceEvents
<1>3. CASE UserStep
  BY <1>1, <1>3, UserStartup
<1>4. CASE ApplyStep
  <2>1. CASE ApplyReplaced \/ ApplyStarted \/ ApplyFailed \/ ApplyMetricsUnavailable
    BY <2>1, <1>1, WorkerResultStartup DEF ApplyReplaced, ApplyStarted,
       ApplyFailed, ApplyMetricsUnavailable, scope, WorkerKinds
  <2>2. CASE ApplyNamespacesReplaced
    BY <1>1, <2>2, ApplyNamespacesReplacedStartup
  <2>3. CASE ApplyApisLoaded
    BY <1>1, <2>3, ApplyApisLoadedStartup
  <2>4. QED
    BY <1>2, <1>4, <2>1, <2>2, <2>3 DEF ApplyStep
<1>5. CASE CommandStep \/ StartStep \/ ListStep \/ Failure
  BY <1>1, <1>5, WorkerStepsStartup
<1>6. CASE UNCHANGED vars
  BY <1>6, <1>1 DEF vars, ui, worker, scope, cache, watch, Unasked, Startup
<1>7. QED
  BY <1>2, <1>3, <1>4, <1>5, <1>6 DEF Next

-----------------------------------------------------------------------------
(* Every step keeps the pollers as the interface believes them to be.      *)

LEMMA PollersKeep ==
  ASSUME TypeOK, Pollers, UNCHANGED <<metrics, metricsApi, polling>>,
         \A k \in Keys : Ended(k) => Ended(k)',
         \/ commands' = commands
         \/ \E i \in DOMAIN commands :
              commands[i].kind = "reconcile" /\ commands' = RemoveAt(commands, i)
  PROVE  Pollers'
<1>1. ASSUME NEW k \in Keys, Polled(k)
      PROVE  Polled(k)'
  <2>1. CASE commands' = commands
    BY <1>1, <2>1 DEF Polled, For, Polls
  <2>2. ASSUME NEW i \in DOMAIN commands, commands[i].kind = "reconcile",
               commands' = RemoveAt(commands, i)
        PROVE  Polled(k)'
    BY <2>2, RemovedIs, <1>1 DEF Polled, For, Polls
  <2>3. QED
    BY <2>1, <2>2
<1>2. QED
  BY <1>1 DEF Pollers

(* A command to a poller runs.                                             *)
LEMMA ExecuteMetricsPollers ==
  ASSUME TypeOK, Pollers, NEW i \in DOMAIN commands, ExecuteMetrics(i)
  PROVE  Pollers'
<1>1. /\ commands[i].kind \in {"start", "stop"} /\ commands' = RemoveAt(commands, i)
      /\ polling' = IF commands[i].kind = "start" THEN polling \cup {commands[i].key}
                                                  ELSE polling \ {commands[i].key}
      /\ UNCHANGED <<metrics, metricsApi, results>>
  BY DEF ExecuteMetrics, Takes, ui
<1>2. /\ \A j \in DOMAIN commands' :
           /\ Before(i, j) \in DOMAIN commands /\ Before(i, j) # i
           /\ commands'[j] = commands[Before(i, j)]
      /\ \A n \in DOMAIN commands \ {i} :
           \E j \in DOMAIN commands' : Before(i, j) = n
      /\ \A j, n \in DOMAIN commands' : Before(i, j) = Before(i, n) => j = n
  BY <1>1, RemovedIs
<1>3. ASSUME NEW k \in Keys, Polled(k)
      PROVE  Polled(k)'
  <2>1. \A j, n \in DOMAIN commands' : For(j, k)' /\ For(n, k)' => j = n
    BY <1>2, <1>3 DEF Polled, For
  <2>2. CASE commands[i].key = k
    BY <1>1, <1>3, <2>2, <1>2, <2>1 DEF Polled, For, Polls
  <2>3. CASE commands[i].key # k
    BY <1>2, <2>3, <1>1, <1>3, <2>1 DEF Polls, Polled
  <2>4. QED
    BY <2>2, <2>3
<1>4. \A k : Ended(k)' <=> Ended(k)
  BY <1>1 DEF Ended
<1>5. QED
  BY <1>1, <1>3, <1>4 DEF Pollers

(* A poller ends and says so.                                              *)
LEMMA PollerEndsPollers ==
  ASSUME TypeOK, Pollers, NEW k0 \in polling, PollerEnds(k0)
  PROVE  Pollers'
<1>1. /\ polling' = polling \ {k0} /\ UNCHANGED <<metrics, metricsApi, commands>>
      /\ results' = Append(results, [kind |-> "noMetrics", resource |-> PolledBy(k0)])
  BY DEF PollerEnds, ui
<1>2. [kind |-> "noMetrics", resource |-> PolledBy(k0)] \in Result
  BY DEF Result, PolledBy
<1>3. PICK e \in Result : e = [kind |-> "noMetrics", resource |-> PolledBy(k0)]
  BY <1>2
<1>4. results' = Append(results, e) /\ e.kind = "noMetrics" /\ e.resource = PolledBy(k0)
  BY <1>1, <1>3
<1>5. /\ DOMAIN results' = 1..(Len(results) + 1) /\ DOMAIN results = 1..Len(results)
      /\ Len(results) \in Nat
      /\ \A j \in 1..Len(results) : results'[j] = results[j]
      /\ results'[Len(results) + 1] = e
  BY <1>4, AppendIs DEF TypeOK
<1>6. /\ \A j \in DOMAIN results : j \in DOMAIN results' /\ results'[j] = results[j]
      /\ \E j \in DOMAIN results' : results'[j] = e
  BY <1>5
<1>7. ASSUME NEW k \in Keys, ~Ended(k)'
      PROVE  ~Ended(k) /\ k # k0
  BY <1>4, <1>6, <1>7 DEF Ended
<1>8. ASSUME NEW k \in Keys, k # k0, Polled(k)
      PROVE  Polled(k)'
  BY <1>1, <1>8 DEF Polled, For, Polls
<1>9. QED
  BY <1>1, <1>7, <1>8 DEF Pollers

(* The interface asks for pollers to start and to stop.                    *)
LEMMA AskPollers ==
  ASSUME TypeOK, NEW r, NEW missing, NEW sends, NEW found,
         Grown(r, missing, sends, found), UNCHANGED polling,
         \A k \in metrics' : PolledBy(k) \in metricsApi',
         \A k \in Keys : PolledBy(k) \in metricsApi' /\ ~Ended(k)' =>
           /\ Polled(k)
           /\ (k \in metrics \ metrics' \/ k \in metrics' \ metrics) =>
                \A i \in DOMAIN commands : ~For(i, k)
  PROVE  Pollers'
<1> SUFFICES ASSUME NEW k \in Keys, Polled(k),
                    (k \in metrics \ metrics' \/ k \in metrics' \ metrics) =>
                      \A i \in DOMAIN commands : ~For(i, k)
             PROVE  Polled(k)'
  BY DEF Pollers
<1>1. /\ \A i \in DOMAIN commands : i \in DOMAIN commands' /\ commands'[i] = commands[i]
      /\ \A i \in DOMAIN commands' \ DOMAIN commands :
           \/ commands'[i].kind = "reconcile"
           \/ commands'[i].kind = "stop" /\ commands'[i].key \in metrics \ metrics'
           \/ commands'[i].kind = "start" /\ commands'[i].key \in metrics' \ metrics
      /\ k \in metrics \ metrics' =>
           \E i \in DOMAIN commands' : commands'[i].kind = "stop" /\ commands'[i].key = k
      /\ k \in metrics' \ metrics =>
           \E i \in DOMAIN commands' : commands'[i].kind = "start" /\ commands'[i].key = k
      /\ \A i, j \in DOMAIN commands' \ DOMAIN commands :
           /\ commands'[i].kind # "reconcile" /\ commands'[j].kind # "reconcile"
           /\ commands'[i].key = commands'[j].key
           => i = j
  BY DEF Grown, New
<1>2. CASE k \in metrics \ metrics' \/ k \in metrics' \ metrics
  <2>1. \A i \in DOMAIN commands : ~For(i, k)
    BY <1>2
  <2>2. \A i \in DOMAIN commands' : For(i, k)' => i \notin DOMAIN commands
    BY <1>1, <2>1 DEF For
  <2>3. \A i, j \in DOMAIN commands' : For(i, k)' /\ For(j, k)' => i = j
    BY <1>1, <2>2 DEF For
  <2>4. \A i \in DOMAIN commands' :
          /\ Polls(i, "start", k)' => k \in metrics'
          /\ Polls(i, "stop", k)' => k \notin metrics'
    BY <1>1, <2>2 DEF For, Polls
  <2>5. k \in metrics' => \E i \in DOMAIN commands' : Polls(i, "start", k)'
    BY <1>1, <1>2 DEF Polls
  <2>6. k \notin metrics' => \E i \in DOMAIN commands' : Polls(i, "stop", k)'
    BY <1>1, <1>2 DEF Polls
  <2>7. QED
    BY <2>3, <2>4, <2>5, <2>6 DEF Polled
<1>3. CASE k \in metrics <=> k \in metrics'
  BY <1>1, <1>3 DEF For, Polled, Polls
<1>4. QED
  BY <1>2, <1>3

LEMMA DesiredMetricsIs ==
  ASSUME NEW r, NEW chosen \in SUBSET Namespaces, metricsApi' \subseteq {Pods, Nodes}
  PROVE  \A k \in DesiredMetrics(r, chosen) : PolledBy(k) \in metricsApi'
<1>1. CASE r \notin metricsApi'
  BY <1>1 DEF DesiredMetrics
<1>2. CASE r \in metricsApi' /\ r = Pods
  BY <1>2, ScopeAssumption DEF DesiredMetrics, PolledBy
<1>3. CASE r \in metricsApi' /\ r # Pods
  BY <1>3 DEF DesiredMetrics, PolledBy
<1>4. QED
  BY <1>1, <1>2, <1>3

LEMMA RequestGrows ==
  ASSUME TypeOK, TypeOK', NEW r \in Resources, NEW found \in SUBSET Namespaces,
         NEW chosen \in SUBSET Namespaces, NEW act \in SUBSET WatchKey,
         Request(r, found, chosen, act)
  PROVE  /\ metrics' = DesiredMetrics(r, chosen)
         /\ \A k \in metrics' : PolledBy(k) \in metricsApi'
         /\ \E missing \in SUBSET Keys, sends \in BOOLEAN :
              Grown(r, missing, sends, found)
<1>1. metricsApi' \subseteq {Pods, Nodes}
  BY DEF TypeOK
<1>2. /\ metrics' = DesiredMetrics(r, chosen)
      /\ \/ Same(r, found, chosen, act)
         \/ \E missing \in SUBSET Keys : Changed(r, found, chosen, act, missing)
  BY <1>1, RequestIs
<1>3. CASE Same(r, found, chosen, act)
  BY <1>3, <1>1, <1>2, DesiredMetricsIs DEF Same
<1>4. ASSUME NEW missing \in SUBSET Keys, Changed(r, found, chosen, act, missing)
      PROVE  \E sends \in BOOLEAN : Grown(r, missing, sends, found)
  BY <1>4 DEF Changed
<1>5. QED
  BY <1>1, <1>2, <1>3, <1>4, DesiredMetricsIs

LEMMA UserPollers ==
  ASSUME TypeOK, TypeOK', Pollers, left.calm, UserStep
  PROVE  Pollers'
<1>1. PICK r \in Resources \cup {NoResource}, chosen \in SUBSET Namespaces,
           found \in SUBSET Namespaces, act \in SUBSET WatchKey :
        /\ found = discovered /\ act = active
        /\ RequestIfSelected(r, found, chosen, act)
  BY UserAsks DEF TypeOK
<1>2. UserActs
  BY UserAsks
<1>3. Quiet /\ UNCHANGED <<metricsApi, results, polling>>
  BY <1>2 DEF UserActs, worker
<1>4. DOMAIN commands = {} /\ DOMAIN results = {}
  BY <1>3 DEF Quiet
<1>5. \A k : Ended(k)' <=> Ended(k)
  BY <1>3 DEF Ended
<1>6. CASE r = NoResource
  BY <1>1, <1>6, <1>3, <1>5, PollersKeep DEF RequestIfSelected
<1>7. CASE r # NoResource
  BY <1>1, <1>7, RequestGrows, <1>3, <1>5, <1>4, AskPollers
     DEF RequestIfSelected, Pollers
<1>8. QED
  BY <1>6, <1>7

LEMMA EndedLasts ==
  ASSUME TypeOK, results # <<>>, results' = Tail(results)
  PROVE  \A k \in Keys :
           Ended(k) /\ ~(/\ results[1].kind = "noMetrics"
                         /\ results[1].resource = PolledBy(k)) => Ended(k)'
<1>1. results \in Seq(Result)
  BY DEF TypeOK
<1>2. /\ DOMAIN results = 1..Len(results) /\ Len(results) \in Nat \ {0}
      /\ DOMAIN results' = 1..(Len(results) - 1)
      /\ \A j \in 1..(Len(results) - 1) : results'[j] = results[j + 1]
  BY <1>1, TailIs
<1>3. \A j \in DOMAIN results \ {1} :
        j - 1 \in DOMAIN results' /\ results'[j - 1] = results[j]
  BY <1>2
<1>4. QED
  BY <1>3 DEF Ended

LEMMA ApplyMetricsUnavailablePollers ==
  ASSUME TypeOK, TypeOK', Pollers, ApplyMetricsUnavailable
  PROVE  Pollers'
<1>1. /\ results # <<>> /\ results' = Tail(results) /\ results[1].kind = "noMetrics"
      /\ Head(results) = results[1] /\ UNCHANGED polling
  BY FirstIs, TailIs DEF ApplyMetricsUnavailable, TypeOK
<1>2. PICK r : r = results[1].resource
  OBVIOUS
<1>3. \A k \in Keys : Ended(k) /\ PolledBy(k) # r => Ended(k)'
  BY <1>1, <1>2, EndedLasts
<1>4. CASE r \in metricsApi
  <2>1. /\ metricsApi' = metricsApi \ {r}
        /\ metrics' = {k \in metrics : PolledBy(k) # r}
    BY <1>1, <1>2, <1>4 DEF ApplyMetricsUnavailable
  <2>2. \A k \in metrics' : PolledBy(k) \in metricsApi'
    BY <2>1 DEF Pollers
  <2>3. ASSUME NEW k \in Keys, PolledBy(k) \in metricsApi', ~Ended(k)'
        PROVE  /\ Polled(k) /\ k \notin metrics \ metrics' /\ k \notin metrics' \ metrics
    BY <1>3, <2>1, <2>3 DEF Pollers
  <2>4. CASE \E q, found : Grown(q, {}, FALSE, found)
    BY <1>1, <2>2, <2>3, <2>4, AskPollers
  <2>5. CASE commands' = commands
    <3>1. ASSUME NEW k \in Keys, PolledBy(k) \in metricsApi', ~Ended(k)'
          PROVE  Polled(k)'
      BY <2>3, <3>1, <1>1, <2>5 DEF Polled, For, Polls
    <3>2. QED
      BY <2>2, <3>1 DEF Pollers
  <2>6. QED
    BY <2>4, <2>5, MetricsUnavailableGrows
<1>5. CASE r \notin metricsApi
  <2>1. UNCHANGED <<metricsApi, metrics, commands>>
    BY <1>1, <1>2, <1>5 DEF ApplyMetricsUnavailable
  <2>2. ASSUME NEW k \in Keys, PolledBy(k) \in metricsApi', ~Ended(k)'
        PROVE  Polled(k)'
    BY <1>3, <1>5, <2>1, <2>2, <1>1 DEF Pollers, Polled, For, Polls
  <2>3. QED
    BY <2>1, <2>2 DEF Pollers
<1>6. QED
  BY <1>4, <1>5

LEMMA ApplyApisLoadedPollers ==
  ASSUME TypeOK, TypeOK', Startup, ApplyApisLoaded
  PROVE  Pollers'
<1>1. /\ results # <<>> /\ results[1].kind = "apis" /\ results[1] \in Result
      /\ Head(results) = results[1] /\ UNCHANGED polling
  BY FirstIs, TailIs DEF ApplyApisLoaded, TypeOK
<1>2. "apis" \in loading
  BY <1>1, Awaited
<1>3. /\ DOMAIN commands = {} /\ metrics = {} /\ polling = {}
  BY <1>2 DEF Startup, Unasked
<1>4. \A k : Polled(k) /\ \A i \in DOMAIN commands : ~For(i, k)
  BY <1>3 DEF Polled
<1>5. CASE results[1].restored = NoResource
  BY <1>1, <1>5, <1>3 DEF ApplyApisLoaded, Polled, Pollers
<1>6. CASE results[1].restored # NoResource
  <2>1. PICK r \in Resources, found \in SUBSET Namespaces, chosen \in SUBSET Namespaces,
             act \in SUBSET WatchKey :
          /\ r = results[1].restored /\ found = discovered /\ chosen = selected
          /\ act = active
    BY <1>1, <1>6, ResultIs DEF TypeOK
  <2>2. Request(r, found, chosen, act)
    BY <1>1, <1>6, <2>1 DEF ApplyApisLoaded, SelectResource
  <2>3. /\ \A k \in metrics' : PolledBy(k) \in metricsApi'
        /\ \E missing \in SUBSET Keys, sends \in BOOLEAN :
             Grown(r, missing, sends, found)
    BY <2>2, RequestGrows
  <2>4. QED
    BY <1>1, <1>4, <2>3, AskPollers
<1>7. QED
  BY <1>5, <1>6

LEMMA ApplyNamespacesReplacedPollers ==
  ASSUME TypeOK, TypeOK', Startup, Pollers, ApplyNamespacesReplaced
  PROVE  Pollers'
<1>1. /\ results # <<>> /\ results' = Tail(results) /\ results[1].kind = "nsReplaced"
      /\ results[1] \in Result /\ UNCHANGED <<polling, metricsApi>>
  BY FirstIs DEF ApplyNamespacesReplaced
<1>2. "namespaces" \in loading
  BY <1>1, Awaited
<1>3. \A k \in Keys : Ended(k) => Ended(k)'
  BY <1>1, EndedLasts
<1>4. PICK found \in SUBSET Namespaces, chosen \in SUBSET Namespaces,
           r \in Resources \cup {NoResource}, act \in SUBSET WatchKey :
        /\ r = resource /\ found = discovered' /\ chosen = selected'
        /\ act = IF r \in Namespaced THEN active \ {<<r, Whole>>} ELSE active
  BY DEF TypeOK
<1>5. RequestIfSelected(r, found, chosen, act)
  BY <1>4 DEF ApplyNamespacesReplaced, NamespacesChanged
<1>6. CASE r = NoResource
  BY <1>5, <1>6, <1>1, <1>3, PollersKeep DEF RequestIfSelected
<1>7. CASE r # NoResource
  <2>1. r \in Resources /\ Request(r, found, chosen, act)
    BY <1>5, <1>7 DEF RequestIfSelected
  <2>2. /\ metrics' = DesiredMetrics(r, chosen)
        /\ \A k \in metrics' : PolledBy(k) \in metricsApi'
        /\ \E missing \in SUBSET Keys, sends \in BOOLEAN :
             Grown(r, missing, sends, found)
    BY <2>1, RequestGrows
  <2>3. "apis" \notin loading
    BY <1>4, <1>7 DEF Startup
  <2>4. /\ metrics = IF r \notin metricsApi \ {Pods} THEN {} ELSE {Whole}
        /\ \A i \in DOMAIN commands :
             commands[i].kind # "reconcile" => commands[i].key = Whole
    BY <1>2, <1>4, <2>3 DEF Startup
  <2>5. metrics' # metrics => metrics = {} /\ metrics' = chosen
    <3>1. CASE r \notin metricsApi
      BY <1>1, <2>2, <2>4, <3>1 DEF DesiredMetrics
    <3>2. CASE r \in metricsApi /\ r = Pods
      BY <1>1, <2>2, <2>4, <3>2 DEF DesiredMetrics
    <3>3. CASE r \in metricsApi /\ r # Pods
      BY <1>1, <2>2, <2>4, <3>3 DEF DesiredMetrics
    <3>4. QED
      BY <3>1, <3>2, <3>3
  <2>6. \A k \in chosen, i \in DOMAIN commands : ~For(i, k)
    BY <2>4, ScopeAssumption DEF For
  <2>7. \A k \in Keys : PolledBy(k) \in metricsApi' /\ ~Ended(k)' => Polled(k)
    BY <1>1, <1>3 DEF Pollers
  <2>8. \A k : (k \in metrics \ metrics' \/ k \in metrics' \ metrics) => k \in chosen
    BY <2>5
  <2>9. QED
    BY <1>1, <2>2, <2>6, <2>7, <2>8, AskPollers
<1>8. QED
  BY <1>6, <1>7

(* The steps of the worker and of its results that have no part in it.     *)
LEMMA OthersPollers ==
  ASSUME TypeOK, Pollers,
         \/ ApplyReplaced \/ ApplyStarted \/ ApplyFailed \/ StartStep \/ ListStep
         \/ \E s \in starts : StartFails(s)
         \/ \E w \in watchers : WatcherFails(w)
         \/ \E i \in DOMAIN commands : ExecuteReconcile(i)
         \/ UNCHANGED vars
  PROVE  Pollers'
<1>1. CASE ApplyReplaced \/ ApplyStarted \/ ApplyFailed
  <2>1. UNCHANGED <<metrics, metricsApi, commands>>
    BY <1>1 DEF ApplyReplaced, ApplyStarted, ApplyFailed
  <2>2. PICK kind \in {"replaced", "started", "failed"} : Received(kind)
    BY <1>1 DEF ApplyReplaced, ApplyStarted, ApplyFailed
  <2>3. results # <<>> /\ results' = Tail(results) /\ results[1].kind = kind
        /\ UNCHANGED polling
    BY <2>2, FirstIs
  <2>4. \A k \in Keys : Ended(k) => Ended(k)'
    BY <2>3, EndedLasts
  <2>5. QED
    BY <2>1, <2>3, <2>4, PollersKeep
<1>2. CASE \/ StartStep \/ ListStep
           \/ \E s \in starts : StartFails(s)
           \/ \E w \in watchers : WatcherFails(w)
  <2>1. UNCHANGED <<metrics, metricsApi, polling, commands>>
    BY <1>2 DEF StartStep, ListStep, CheckStart, SpawnWatcher, InstallWatch,
       AnnounceWatch, StartFails, SendReplaced, WatcherFails, ui
  <2>2. UNCHANGED results \/ \E e : results' = Append(results, e)
    BY <1>2 DEF StartStep, ListStep, CheckStart, SpawnWatcher, InstallWatch,
       AnnounceWatch, StartFails, SendReplaced, WatcherFails, Report
  <2>3. \A j \in DOMAIN results : j \in DOMAIN results' /\ results'[j] = results[j]
    <3>1. results \in Seq(Result)
      BY DEF TypeOK
    <3>2. CASE UNCHANGED results
      BY <3>2
    <3>3. ASSUME NEW e, results' = Append(results, e)
          PROVE  \A j \in DOMAIN results : j \in DOMAIN results' /\ results'[j] = results[j]
      BY <3>1, <3>3
    <3>4. QED
      BY <2>2, <3>2, <3>3
  <2>4. \A k \in Keys : Ended(k) => Ended(k)'
    BY <2>3 DEF Ended
  <2>5. QED
    BY <2>1, <2>4, PollersKeep
<1>3. CASE \E i \in DOMAIN commands : ExecuteReconcile(i)
  <2>1. PICK i \in DOMAIN commands : ExecuteReconcile(i)
    BY <1>3
  <2>2. /\ commands[i].kind = "reconcile" /\ commands' = RemoveAt(commands, i)
        /\ UNCHANGED <<metrics, metricsApi, polling, results>>
    BY <2>1 DEF ExecuteReconcile, Takes, ui
  <2>3. \A k \in Keys : Ended(k) => Ended(k)'
    BY <2>2 DEF Ended
  <2>4. QED
    BY <2>2, <2>3, PollersKeep
<1>4. CASE UNCHANGED vars
  BY <1>4, PollersKeep DEF vars, ui, worker, Ended
<1>5. QED
  BY <1>1, <1>2, <1>3, <1>4

LEMMA StepsPollers ==
  ASSUME TypeOK, TypeOK', left.calm, Startup, Pollers, [Next]_vars
  PROVE  Pollers'
<1>1. ~NamespaceEvent /\ ~ApplyNamespaceAdded /\ ~ApplyNamespaceDeleted
  BY NoNamespaceEvents
<1>2. CASE UserStep
  BY <1>2, UserPollers
<1>3. CASE ApplyStep
  BY <1>1, <1>3, OthersPollers, ApplyNamespacesReplacedPollers, ApplyApisLoadedPollers,
     ApplyMetricsUnavailablePollers DEF ApplyStep
<1>4. CASE CommandStep
  BY <1>4, OthersPollers, ExecuteMetricsPollers DEF CommandStep
<1>5. CASE StartStep \/ ListStep \/ UNCHANGED vars
  BY <1>5, OthersPollers
<1>6. CASE Failure
  BY <1>6, OthersPollers, PollerEndsPollers DEF Failure
<1>7. QED
  BY <1>1, <1>2, <1>3, <1>4, <1>5, <1>6 DEF Next

-----------------------------------------------------------------------------
(* What holds at first.                                                    *)

LEMMA InitCalm ==
  ASSUME Init, left.events = 0
  PROVE  Calm
<1>1. /\ loading = {"namespaces", "apis"} /\ discovered = {} /\ selected = {}
      /\ resource = NoResource /\ active = {} /\ synced = {} /\ errors = {}
      /\ orphans = {} /\ metrics = {} /\ metricsApi = {} /\ commands = <<>>
      /\ starts = {} /\ watchers = {} /\ polling = {} /\ known \in SUBSET Namespaces
  BY DEF Init
<1>2. PICK r \in left.offers \cup {NoResource} :
        results \in {<<[kind |-> "nsReplaced", namespaces |-> known],
                       [kind |-> "apis", restored |-> r]>>,
                     <<[kind |-> "apis", restored |-> r],
                       [kind |-> "nsReplaced", namespaces |-> known]>>}
  BY DEF Init
<1>3. Startup
  BY <1>1, <1>2 DEF Startup, Unasked
<1>4. DOMAIN commands = {}
  BY <1>1
<1>5. Pollers
  BY <1>1, <1>4 DEF Pollers
<1>6. \A j \in DOMAIN results : results[j].kind \in {"nsReplaced", "apis"}
  BY <1>2
<1>7. \A q, key : \A j \in DOMAIN results :
        /\ ~Sent(j, "started", q, key) /\ ~Sent(j, "replaced", q, key)
        /\ ~Sent(j, "failed", q, key)
  BY <1>6 DEF Sent, Of
<1>8. \A q, key : ~Lasting(q, key)
  BY <1>1, <1>7 DEF Lasting, Starting, Held
<1>9. Sources /\ Unique /\ OnePending /\ WatchersLast
  BY <1>1, <1>4 DEF Sources, Unique, OnePending, WatchersLast
<1>10. InScope /\ LastingServed /\ ScopeServed /\ SyncedTracked
  BY <1>1, <1>8 DEF InScope, LastingServed, ScopeServed, SyncedTracked
<1>11. ReplacedTracked
  BY <1>7 DEF ReplacedTracked
<1>12. QED
  BY <1>3, <1>5, <1>9, <1>10, <1>11 DEF Calm, Watching

-----------------------------------------------------------------------------
(* The invariant, and what it says once everything settled.                *)

LEMMA StepsCalm ==
  ASSUME CalmInv, TypeOK', [Next]_vars
  PROVE  CalmInv'
<1>1. left'.calm = left.calm
  BY BoundsLast DEF CalmInv
<1>2. ASSUME left.calm PROVE Calm'
  BY <1>2, StepsStartup, StepsWatching, StepsPollers DEF CalmInv, Calm
<1>3. QED
  BY <1>1, <1>2 DEF CalmInv

LEMMA CalmWatches ==
  ASSUME TypeOK, Calm
  PROVE  WatchedBut(orphans) /\ NothingElseWatched /\ MetricsMatchSelection
<1> SUFFICES ASSUME Quiet
             PROVE  /\ resource # NoResource =>
                         /\ \A k \in Needed(resource) :
                              \/ <<resource, k>> \in orphans \cup errors
                              \/ k \in Covered(resource)
                         /\ Covered(resource) \subseteq Needed(resource)
                    /\ \A k \in polling : PolledBy(k) \in metricsApi => k \in metrics
                    /\ \A k \in metrics : k \in polling /\ PolledBy(k) \in metricsApi
  BY DEF WatchedBut, NothingElseWatched, MetricsMatchSelection, Shown, Under
<1>1. /\ starts = {} /\ DOMAIN commands = {} /\ DOMAIN results = {}
  BY DEF Quiet
<1>2. /\ Sources /\ InScope /\ ScopeServed /\ Pollers
  BY DEF Calm, Watching
<1>3. ASSUME resource # NoResource
      PROVE  /\ \A k \in Needed(resource) :
                  \/ <<resource, k>> \in orphans \cup errors
                  \/ k \in Covered(resource)
             /\ Covered(resource) \subseteq Needed(resource)
  <2>1. resource \in Resources
    BY <1>3, PartsAre
  <2>2. ASSUME NEW k \in Needed(resource)
        PROVE  <<resource, k>> \in orphans \cup errors \/ k \in Covered(resource)
    <3>1. \/ Asked(resource, k) \/ Served(resource, k)
          \/ Failing(resource, k) \/ Orphaned(resource, k)
      BY <1>2, <1>3 DEF ScopeServed
    <3>2. ~Asked(resource, k)
      BY <1>1 DEF Asked
    <3>3. CASE Failing(resource, k) \/ Orphaned(resource, k)
      BY <1>1, <3>3 DEF Failing, Orphaned
    <3>4. CASE Served(resource, k)
      <4>1. PICK w \in watchers : w.resource = resource /\ k \in w.source.covers
        BY <1>1, <3>4 DEF Served
      <4>2. QED
        BY <4>1 DEF Covered
    <3>5. QED
      BY <3>1, <3>2, <3>3, <3>4
  <2>3. ASSUME NEW k \in Covered(resource)
        PROVE  k \in Needed(resource)
    <3>1. PICK w \in watchers : w.resource = resource /\ k \in w.source.covers
      BY DEF Covered
    <3>2. ~Pending(resource)
      BY <1>1 DEF Pending
    <3>3. w.source.key \in Wanted
      BY <1>2, <1>3, <3>1, <3>2 DEF InScope
    <3>4. w.source.covers = Cover(resource, w.source.key)
      BY <1>2, <3>1, CoversAre
    <3>5. QED
      BY <2>1, <3>1, <3>3, <3>4, WantedIs
  <2>4. QED
    BY <2>2, <2>3
<1>4. ASSUME NEW k \in Keys, PolledBy(k) \in metricsApi
      PROVE  k \in metrics <=> k \in polling
  BY <1>1, <1>2, <1>4 DEF Ended, Pollers, Polled
<1>5. /\ \A k \in metrics : PolledBy(k) \in metricsApi
      /\ metrics \subseteq Keys /\ polling \subseteq Keys
  BY <1>2 DEF Pollers, TypeOK
<1>6. QED
  BY <1>3, <1>4, <1>5

(* The bounds of a behaviour in which the namespaces stay, if it is calm:  *)
(* with a namespace that appears or vanishes between clicks the watched    *)
(* scope is not the one shown.                                             *)
NamespacesStay == \A s \in Scenarios : s.calm => s.events = 0

(* Where the user waits for calm and the namespaces stay, every key shown  *)
(* is watched, shows an error or is an orphan, nothing else of the resource*)
(* shown is, and the pollers that run are those the selection calls for:   *)
(* request_selected_resource_watches against reconcile_resource_watches.   *)
THEOREM ScopeWatched ==
  ASSUME NamespacesStay
  PROVE  Spec => []WatchedExactly
<1>1. Init /\ TypeOK => CalmInv
  <2> SUFFICES ASSUME Init, TypeOK, left.calm PROVE Calm
    BY DEF CalmInv
  <2>1. left.events = 0
    BY DEF Init, NamespacesStay
  <2>2. QED
    BY <2>1, InitCalm
<1>2. CalmInv /\ TypeOK' /\ [Next]_vars => CalmInv'
  BY StepsCalm
<1>3. CalmInv => WatchedExactly
  BY CalmWatches DEF CalmInv, WatchedExactly
<1>4. Spec => []TypeOK
  BY ScopeTypeCorrect
<1>5. QED
  BY <1>1, <1>2, <1>3, <1>4, PTL DEF Spec

=============================================================================
