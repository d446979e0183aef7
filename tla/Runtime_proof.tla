----------------------------- MODULE Runtime_proof -----------------------------
(***************************************************************************)
(* Proofs about what the runtime thread of a cluster serves, as the run    *)
(* `runtime' puts it together: ClusterSession, for every set of contexts   *)
(* and every number of failures; and beside it LogWindows, for any number  *)
(* of windows and of store failures and every size of the channel.         *)
(*                                                                         *)
(* The argument about LogWindows: each id is started once, and nothing is  *)
(* sent for it before its start or after its stop is under way but further *)
(* stops; so the commands under way can be read as what is still to happen *)
(* to each stream, in which queue they wait does not matter, and neither   *)
(* does how many fit.                                                      *)
(***************************************************************************)
EXTENDS MCRuntime, FiniteSetTheorems, SequenceTheorems, TLAPS

-----------------------------------------------------------------------------
(* Counting in sequences: how often a sequence has an element of a set.    *)

Places(s, G) == {i \in DOMAIN s : s[i] \in G}
Count(s, G)  == Cardinality(Places(s, G))

LEMMA CountType ==
  ASSUME NEW T, NEW s \in Seq(T), NEW G
  PROVE  /\ IsFiniteSet(Places(s, G))
         /\ Count(s, G) \in Nat
<1>1. Places(s, G) \subseteq 1..Len(s)
  BY DEF Places
<1>2. IsFiniteSet(1..Len(s))
  BY FS_Interval
<1>3. IsFiniteSet(Places(s, G))
  BY <1>1, <1>2, FS_Subset
<1> QED BY <1>3, FS_CardinalityType DEF Count

LEMMA CountEmpty ==
  ASSUME NEW G
  PROVE  Count(<<>>, G) = 0
<1>1. Places(<<>>, G) = {}
  BY DEF Places
<1> QED BY <1>1, FS_EmptySet DEF Count

LEMMA CountAppend ==
  ASSUME NEW T, NEW s \in Seq(T), NEW x \in T, NEW G
  PROVE  Count(Append(s, x), G) = Count(s, G) + (IF x \in G THEN 1 ELSE 0)
<1> DEFINE last == Len(s) + 1
<1>1. IsFiniteSet(Places(s, G)) /\ Count(s, G) \in Nat
  BY CountType
<1>2. last \notin Places(s, G)
  BY DEF Places
<1>3. CASE x \in G
  <2>1. Places(Append(s, x), G) = Places(s, G) \cup {last}
    BY <1>3 DEF Places
  <2> QED BY <1>1, <1>2, <1>3, <2>1, FS_AddElement DEF Count
<1>4. CASE x \notin G
  <2>1. Places(Append(s, x), G) = Places(s, G)
    BY <1>4 DEF Places
  <2> QED BY <1>1, <1>4, <2>1 DEF Count
<1> QED BY <1>3, <1>4

LEMMA CountTail ==
  ASSUME NEW T, NEW s \in Seq(T), s # <<>>, NEW G
  PROVE  Count(s, G) = Count(Tail(s), G) + (IF Head(s) \in G THEN 1 ELSE 0)
<1> DEFINE later == Places(s, G) \ {1}
           shift == [i \in Places(Tail(s), G) |-> i + 1]
<1>1. Tail(s) \in Seq(T) /\ Head(s) = s[1] /\ Len(s) \in Nat \ {0}
      /\ Len(Tail(s)) = Len(s) - 1
  OBVIOUS
<1>2. \A i \in 1..Len(Tail(s)) : Tail(s)[i] = s[i + 1]
  OBVIOUS
<1>3. IsFiniteSet(Places(Tail(s), G)) /\ Count(Tail(s), G) \in Nat
  BY <1>1, CountType
<1>4. shift \in Bijection(Places(Tail(s), G), later)
  <2>1. ASSUME NEW i \in Places(Tail(s), G) PROVE i + 1 \in later
    BY <1>1, <1>2 DEF Places
  <2>2. ASSUME NEW j \in later PROVE j - 1 \in Places(Tail(s), G) /\ j = (j - 1) + 1
    BY <1>1, <1>2 DEF Places
  <2>3. \A i \in Places(Tail(s), G) : i \in Int
    BY DEF Places
  <2> QED BY <2>1, <2>2, <2>3 DEF Bijection, Injection, Surjection, IsInjective
<1>5. IsFiniteSet(later) /\ Cardinality(later) = Count(Tail(s), G)
  BY <1>3, <1>4, FS_Bijection DEF ExistsBijection, Count
<1>6. CASE Head(s) \in G
  <2>1. Places(s, G) = later \cup {1} /\ 1 \notin later
    BY <1>1, <1>6 DEF Places
  <2> QED BY <1>3, <1>5, <1>6, <2>1, FS_AddElement DEF Count
<1>7. CASE Head(s) \notin G
  <2>1. Places(s, G) = later
    BY <1>1, <1>7 DEF Places
  <2>2. Count(s, G) = Count(Tail(s), G)
    BY <1>5, <2>1 DEF Count
  <2> QED BY <1>3, <1>7, <2>2
<1> QED BY <1>6, <1>7

(* A count of zero is absence.                                             *)
LEMMA CountZero ==
  ASSUME NEW T, NEW s \in Seq(T), NEW G
  PROVE  Count(s, G) = 0 <=> \A i \in DOMAIN s : s[i] \notin G
<1>1. IsFiniteSet(Places(s, G))
  BY CountType
<1>2. Count(s, G) = 0 <=> Places(s, G) = {}
  BY <1>1, FS_EmptySet DEF Count
<1> QED BY <1>2 DEF Places

-----------------------------------------------------------------------------
(* The inductive invariant.                                                *)

Answers(k) == {r \in Result : r.kind \in {"created", "connectFailed"}
                              /\ r.cluster = k}
LoadKinds  == {"loaded", "loadFailed"}

Connected(k) == k \in DOMAIN clusters /\ clusters[k].connection = "connected"
Created(k)   == \E i \in DOMAIN results :
                  results[i].kind = "created" /\ results[i].cluster = k

(* The connection of k is registered: reported, or about to be.            *)
Registered(k) == phase[k] = "inserted" \/ Created(k) \/ Connected(k)

(* The clusters are listed once, by the first result.                      *)
ListedFirst ==
  \A i \in DOMAIN results :
    results[i].kind = "clusters" => i = 1 /\ DOMAIN clusters = {}

(* A cluster that is connected is not connected again, so it is opened at  *)
(* most once and everything that is known of it comes from that connection.*)
OpenedOnce ==
  \A k \in Contexts :
    /\ attempt[k] = (IF phase[k] = "opened" \/ Registered(k) THEN 1 ELSE 0)
    /\ k \in connections <=> Registered(k)

FromIt ==
  /\ \A f \in feeds : f.from = 1 /\ attempt[f.cluster] = 1
  /\ \A i \in DOMAIN results :
       results[i].kind \in LoadKinds =>
         results[i].from = 1 /\ attempt[results[i].cluster] = 1
  /\ \A k \in DOMAIN clusters : \A of \in {"namespaces", "apis"} :
       clusters[k][of].state # "loading" =>
         clusters[k][of].from = 1 /\ attempt[k] = 1

(* Commands are sent when there is, or will be, a connection, and run when *)
(* there is.                                                               *)
UsesAreLate ==
  \A k \in Contexts :
    /\ \A i \in DOMAIN channel[k] : channel[k][i] = "use" => attempt[k] = 1
    /\ inFlight[k] > 0 => k \in connections

SessionInv ==
  /\ TypeOK
  /\ ListedFirst
  /\ OneConnectAtATime
  /\ OpenedOnce
  /\ FromIt
  /\ UsesAreLate
  /\ NoCommandRefused

-----------------------------------------------------------------------------
(* Type correctness.                                                       *)

LEMMA NewClusterType ==
  /\ NewCluster \in Cluster /\ ResetCluster \in Cluster
  /\ NewCluster.connection = "disconnected"
  /\ ResetCluster.connection = "connecting"
  /\ \A of \in {"namespaces", "apis"} :
       NewCluster[of].state = "loading" /\ ResetCluster[of].state = "loading"
BY DEF NewCluster, ResetCluster, Cluster, Load, Unloaded

LEMMA SelectType ==
  ASSUME TypeOK, NEW listed, NEW k \in DOMAIN listed,
         DOMAIN listed \subseteq Contexts,
         \A j \in DOMAIN listed : listed[j] \in Cluster,
         Select(listed, k)
  PROVE  /\ DOMAIN clusters' = DOMAIN listed
         /\ \A j \in DOMAIN clusters' : clusters'[j] \in Cluster
         /\ selected' = k
         /\ channel' \in [Contexts -> Seq({"connect", "use"})]
<1>1. CASE Busy(listed[k])
  BY <1>1 DEF Select, TypeOK
<1>2. CASE ~Busy(listed[k])
  <2>1. clusters' = [listed EXCEPT ![k] = ResetCluster]
        /\ channel' = [channel EXCEPT ![k] = Append(@, "connect")]
    BY <1>2 DEF Select, Send
  <2> QED BY <2>1, NewClusterType DEF TypeOK, Select
<1> QED BY <1>1, <1>2

(* The result that is applied.                                             *)
LEMMA ReceivedType ==
  ASSUME TypeOK, NEW kind, Received(kind)
  PROVE  /\ Head(results) \in Result /\ Head(results).kind = kind
         /\ results # <<>> /\ results' = Tail(results)
         /\ results' \in Seq(Result)
         /\ UNCHANGED <<phase, inFlight, connections, feeds, attempt, refused,
                        failures>>
<1>1. results \in Seq(Result) /\ results # <<>>
  BY DEF Received, TypeOK
<1>2. Head(results) \in Result /\ Tail(results) \in Seq(Result)
  BY <1>1
<1> QED BY <1>1, <1>2 DEF Received, session

LEMMA InitTypeOK == Init => TypeOK
<1> SUFFICES ASSUME Init PROVE TypeOK
  OBVIOUS
<1>1. PICK contexts \in SUBSET Contexts, current \in Contexts \cup {NoContext} :
        results = <<[kind |-> "clusters", contexts |-> contexts,
                     current |-> current]>>
        /\ current \in contexts \cup {NoContext}
  BY DEF Init
<1>2. [kind |-> "clusters", contexts |-> contexts, current |-> current]
        \in Result
  BY <1>1 DEF Result
<1>3. results \in Seq(Result)
  BY <1>1, <1>2
<1> QED BY <1>3 DEF Init, TypeOK, Phase

LEMMA NextTypeOK == TypeOK /\ [Next]_vars => TypeOK'
<1> SUFFICES ASSUME TypeOK, [Next]_vars PROVE TypeOK'
  OBVIOUS
<1> USE DEF ui, runtime, session
<1>1. CASE UNCHANGED vars
  BY <1>1 DEF vars, TypeOK
<1>2. ASSUME NEW k \in Contexts, SelectCluster(k) PROVE TypeOK'
  <2>1. Select(clusters, k) /\ k \in DOMAIN clusters
    BY <1>2 DEF SelectCluster
  <2>2. /\ DOMAIN clusters' = DOMAIN clusters
        /\ \A j \in DOMAIN clusters' : clusters'[j] \in Cluster
        /\ selected' = k
        /\ channel' \in [Contexts -> Seq({"connect", "use"})]
    BY <2>1, SelectType DEF TypeOK
  <2> QED BY <1>2, <2>1, <2>2 DEF SelectCluster, TypeOK
<1>3. CASE RetrySelectedLoad
  <2>1. Select(clusters, selected) /\ selected \in DOMAIN clusters
    BY <1>3 DEF RetrySelectedLoad, ErrorShown
  <2>2. /\ DOMAIN clusters' = DOMAIN clusters
        /\ \A j \in DOMAIN clusters' : clusters'[j] \in Cluster
        /\ selected' = selected
        /\ channel' \in [Contexts -> Seq({"connect", "use"})]
    BY <2>1, SelectType DEF TypeOK
  <2> QED BY <1>3, <2>1, <2>2 DEF RetrySelectedLoad, TypeOK
<1>4. CASE ApplyClusters
  <2> DEFINE contexts == Head(results).contexts
             listed == [k \in contexts |-> NewCluster]
             preferred == Preferred(contexts, Head(results).current)
  <2>1. Head(results) \in Result /\ Head(results).kind = "clusters"
        /\ results' \in Seq(Result)
    BY <1>4, ReceivedType DEF ApplyClusters
  <2>2. contexts \subseteq Contexts /\ Head(results).current \in contexts \cup {NoContext}
    BY <2>1 DEF Result
  <2>3. \A j \in DOMAIN listed : listed[j] \in Cluster
    BY NewClusterType
  <2>4. CASE preferred \in contexts
    <3>1. Select(listed, preferred)
      BY <1>4, <2>4 DEF ApplyClusters
    <3>2. DOMAIN listed = contexts
      OBVIOUS
    <3>3. /\ DOMAIN clusters' = contexts
          /\ \A j \in DOMAIN clusters' : clusters'[j] \in Cluster
          /\ selected' = preferred
          /\ channel' \in [Contexts -> Seq({"connect", "use"})]
      BY <2>2, <2>3, <2>4, <3>1, <3>2, SelectType
    <3> QED BY <1>4, <2>1, <2>2, <2>4, <3>3 DEF ApplyClusters, Received, TypeOK
  <2>5. CASE preferred \notin contexts
    BY <1>4, <2>5, <2>1, <2>2, <2>3 DEF ApplyClusters, Received, TypeOK,
       Preferred
  <2> QED BY <2>4, <2>5
<1>5. CASE ApplyConnection
  <2>1. Head(results) \in Result /\ results' \in Seq(Result)
    BY <1>5, ReceivedType DEF ApplyConnection
  <2>2. PICK connection \in {"connected", "failed"} :
          clusters' = [clusters EXCEPT ![Head(results).cluster].connection = connection]
    BY <1>5 DEF ApplyConnection, Becomes
  <2>3. \A k \in DOMAIN clusters : [clusters[k] EXCEPT !.connection = connection] \in Cluster
    BY DEF TypeOK, Cluster
  <2>4. DOMAIN clusters' = DOMAIN clusters
        /\ \A k \in DOMAIN clusters' : clusters'[k] \in Cluster
    BY <2>2, <2>3 DEF TypeOK
  <2> QED BY <1>5, <2>1, <2>4 DEF ApplyConnection, Received, TypeOK
<1>6. CASE ApplyLoaded \/ ApplyLoadFailed
  <2>1. Head(results) \in Result /\ results' \in Seq(Result)
        /\ Head(results).kind \in {"loaded", "loadFailed"}
    BY <1>6, ReceivedType DEF ApplyLoaded, ApplyLoadFailed
  <2>2. Head(results).cluster \in Contexts /\ Head(results).from \in Nat
        /\ Head(results).of \in {"namespaces", "apis"}
    BY <2>1 DEF Result
  <2>3. PICK load \in Load :
          clusters' = [clusters EXCEPT ![Head(results).cluster][Head(results).of] = load]
    BY <1>6, <2>2 DEF ApplyLoaded, ApplyLoadFailed, Applied, Load
  <2>4. \A k \in DOMAIN clusters :
          [clusters[k] EXCEPT ![Head(results).of] = load] \in Cluster
    BY <2>2 DEF TypeOK, Cluster
  <2>5. DOMAIN clusters' = DOMAIN clusters
        /\ \A k \in DOMAIN clusters' : clusters'[k] \in Cluster
    BY <2>3, <2>4 DEF TypeOK
  <2>6. channel' \in [Contexts -> Seq({"connect", "use"})]
    <3>1. CASE channel' = channel
      BY <3>1 DEF TypeOK
    <3>2. CASE channel' = [channel EXCEPT ![Head(results).cluster] = Append(@, "use")]
      BY <2>2, <3>2 DEF TypeOK
    <3> QED BY <1>6, <3>1, <3>2 DEF ApplyLoaded, ApplyLoadFailed, Send
  <2> QED BY <1>6, <2>1, <2>5, <2>6
          DEF ApplyLoaded, ApplyLoadFailed, Received, TypeOK
<1>7. ASSUME NEW k \in Contexts, RuntimeStep(k) \/ CommandStep(k)
      PROVE  TypeOK'
  <2>1. CASE ReceiveConnect(k)
    BY <2>1 DEF ReceiveConnect, Takes, Enters, TypeOK, Phase
  <2>2. CASE StopCluster(k)
    BY <2>2 DEF StopCluster, Enters, TypeOK, Phase
  <2>3. CASE OpenConnection(k)
    <3>1. attempt' \in [Contexts -> Nat]
      BY <2>3 DEF OpenConnection, TypeOK
    <3>2. feeds' \subseteq Feed
      BY <2>3, <3>1 DEF OpenConnection, TypeOK, Feed
    <3> QED BY <2>3, <3>1, <3>2 DEF OpenConnection, Enters, TypeOK, Phase
  <2>4. CASE OpenFails(k)
    BY <2>4 DEF OpenFails, Fails, Enters, TypeOK, Phase
  <2>5. CASE InsertConnection(k)
    BY <2>5 DEF InsertConnection, Enters, TypeOK, Phase
  <2>6. CASE ReportConnection(k)
    BY <2>6 DEF ReportConnection, Outcome, TypeOK, Result, Enters, Phase
  <2>7. CASE ReceiveUse(k)
    BY SMTT(30), <2>7 DEF ReceiveUse, Takes, TypeOK
  <2>8. CASE RunUse(k)
    BY <2>8 DEF RunUse, TypeOK
  <2> QED BY <1>7, <2>1, <2>2, <2>3, <2>4, <2>5, <2>6, <2>7, <2>8
          DEF RuntimeStep, CommandStep
<1>8. ASSUME NEW f \in feeds, FeedLists(f) \/ FeedFails(f) PROVE TypeOK'
  <2>1. f \in Feed
    BY DEF TypeOK
  <2>2. About(f, "loaded") \in Result /\ About(f, "loadFailed") \in Result
    BY <2>1 DEF About, Feed, Result
  <2>3. [f EXCEPT !.listed = TRUE] \in Feed
    BY <2>1 DEF Feed
  <2>4. CASE FeedLists(f)
    <3>1. results' = Append(results, About(f, "loaded"))
          /\ feeds' \subseteq feeds \cup {[f EXCEPT !.listed = TRUE]}
      BY <2>4 DEF FeedLists, Report
    <3>2. results' \in Seq(Result)
      BY <2>2, <3>1 DEF TypeOK
    <3>3. feeds' \subseteq Feed
      BY <2>3, <3>1 DEF TypeOK
    <3> QED BY <2>4, <3>2, <3>3 DEF FeedLists, TypeOK
  <2>5. CASE FeedFails(f)
    BY <2>5, <2>2 DEF FeedFails, Report, Fails, TypeOK
  <2> QED BY <1>8, <2>4, <2>5
<1> QED BY <1>1, <1>2, <1>3, <1>4, <1>5, <1>6, <1>7, <1>8
        DEF Next, UserStep, ApplyStep, FeedStep

(* Every variable keeps its type.                                          *)
THEOREM SessionTypeCorrect == Spec => []TypeOK
BY InitTypeOK, NextTypeOK, PTL DEF Spec

-----------------------------------------------------------------------------
(* One connect at a time.                                                  *)

Queued(k)    == Count(channel[k], {"connect"})
Executing(k) == IF phase[k] = "receiving" THEN 0 ELSE 1
Answered(k)  == Count(results, Answers(k))

LEMMA OutstandingIs ==
  ASSUME TypeOK, NEW k \in Contexts
  PROVE  /\ Outstanding(k) = Queued(k) + Executing(k) + Answered(k)
         /\ Queued(k) \in Nat /\ Executing(k) \in {0, 1} /\ Answered(k) \in Nat
<1>1. {i \in DOMAIN channel[k] : channel[k][i] = "connect"}
        = Places(channel[k], {"connect"})
  BY DEF Places
<1>2. {i \in DOMAIN results : /\ results[i].kind \in {"created", "connectFailed"}
                              /\ results[i].cluster = k}
        = Places(results, Answers(k))
  BY DEF TypeOK, Places, Answers
<1>3. Queued(k) \in Nat /\ Answered(k) \in Nat
  BY CountType DEF Queued, Answered, TypeOK
<1> QED BY <1>1, <1>2, <1>3 DEF Outstanding, Queued, Executing, Answered, Count

(* The balance, in terms of the counts.                                    *)
Balanced ==
  \A k \in Contexts :
    Queued(k) + Executing(k) + Answered(k) = (IF Connecting(k) THEN 1 ELSE 0)

LEMMA BalancedIs == TypeOK => (OneConnectAtATime <=> Balanced)
BY OutstandingIs DEF OneConnectAtATime, Balanced

LEMMA SelectBalanced ==
  ASSUME TypeOK, NEW listed, NEW j \in DOMAIN listed,
         DOMAIN listed \subseteq Contexts,
         \A k \in Contexts : Queued(k) + Executing(k) + Answered(k)' =
           (IF k \in DOMAIN listed /\ listed[k].connection = "connecting"
            THEN 1 ELSE 0),
         \A k \in Contexts : Answered(k)' \in Nat,
         Select(listed, j), UNCHANGED phase
  PROVE  Balanced'
<1>1. \A k \in Contexts : Executing(k)' = Executing(k)
  BY DEF Executing
<1>2. CASE Busy(listed[j])
  BY <1>2, <1>1 DEF Select, Balanced, Connecting, Queued
<1>3. CASE ~Busy(listed[j])
  <2>1. clusters' = [listed EXCEPT ![j] = ResetCluster]
        /\ channel' = [channel EXCEPT ![j] = Append(@, "connect")]
    BY <1>3 DEF Select, Send
  <2>2. ASSUME NEW k \in Contexts
        PROVE  Queued(k)' + Executing(k)' + Answered(k)' =
                 (IF Connecting(k)' THEN 1 ELSE 0)
    <3>1. Queued(k) \in Nat /\ Executing(k) \in {0, 1}
      BY OutstandingIs
    <3>2. CASE k = j
      <4>1. Queued(k)' = Queued(k) + 1
        <5>1. channel'[k] = Append(channel[k], "connect")
          BY <2>1, <3>2 DEF TypeOK
        <5>2. channel[k] \in Seq({"connect", "use"})
          BY DEF TypeOK
        <5>3. Count(Append(channel[k], "connect"), {"connect"})
                = Count(channel[k], {"connect"})
                    + (IF "connect" \in {"connect"} THEN 1 ELSE 0)
          BY <5>2, CountAppend
        <5> QED BY <5>1, <5>3 DEF Queued
      <4>2. Connecting(k)'
        BY <2>1, <3>2, NewClusterType DEF Connecting
      <4>3. listed[k].connection # "connecting"
        BY <1>3, <3>2 DEF Busy
      <4> QED BY <1>1, <3>1, <4>1, <4>2, <4>3
    <3>3. CASE k # j
      BY <2>1, <3>3, <1>1 DEF Queued, TypeOK, Connecting
    <3> QED BY <3>2, <3>3
  <2> QED BY <2>2 DEF Balanced
<1> QED BY <1>2, <1>3

LEMMA BalanceKept ==
  ASSUME TypeOK, ListedFirst, Balanced, [Next]_vars PROVE Balanced'
<1>0. TypeOK' /\ \A k \in Contexts : /\ Queued(k) \in Nat /\ Queued(k)' \in Nat
                                   /\ Answered(k) \in Nat /\ Answered(k)' \in Nat
                                   /\ Executing(k) \in {0, 1}
  BY NextTypeOK, OutstandingIs, CountType DEF Queued, Answered, TypeOK
<1> USE DEF ui, runtime, session
<1>1. CASE UNCHANGED vars
  BY <1>1 DEF vars, Balanced, Queued, Executing, Answered, Connecting
<1>2. CASE UserStep
  <2>1. PICK k \in DOMAIN clusters :
          Select(clusters, k) /\ UNCHANGED <<phase, results>>
    BY <1>2 DEF UserStep, SelectCluster, RetrySelectedLoad, ErrorShown
  <2>2. \A j \in Contexts : Answered(j)' = Answered(j)
    BY <2>1 DEF Answered
  <2> QED BY <1>0, <2>1, <2>2, SelectBalanced DEF Balanced, Connecting, TypeOK
<1>3. CASE ApplyClusters
  <2> DEFINE contexts == Head(results).contexts
             listed == [k \in contexts |-> NewCluster]
  <2>1. Head(results) \in Result /\ Head(results).kind = "clusters"
        /\ results' = Tail(results) /\ results # <<>> /\ UNCHANGED phase
    BY <1>3, ReceivedType DEF ApplyClusters
  <2>2. DOMAIN clusters = {}
    BY <2>1 DEF TypeOK, ListedFirst
  <2>3. contexts \subseteq Contexts
    BY <2>1 DEF Result
  <2>4. \A k \in Contexts : Answered(k)' = Answered(k)
    <3>1. \A k \in Contexts : Head(results) \notin Answers(k)
      BY <2>1 DEF Answers
    <3> QED BY <1>0, <2>1, <3>1, CountTail DEF Answered, TypeOK
  <2>5. \A k \in Contexts : Queued(k) + Executing(k) + Answered(k)' =
          (IF k \in DOMAIN listed /\ listed[k].connection = "connecting"
           THEN 1 ELSE 0)
    BY <2>2, <2>4, NewClusterType DEF Balanced, Connecting
  <2>6. DOMAIN listed = contexts
    OBVIOUS
  <2>7. CASE Preferred(contexts, Head(results).current) \in contexts
    BY <1>3, <2>7, <1>0, <2>1, <2>3, <2>5, <2>6, SelectBalanced
       DEF ApplyClusters
  <2>8. CASE Preferred(contexts, Head(results).current) \notin contexts
    BY <1>3, <2>8, <2>1, <2>5 DEF ApplyClusters, Balanced, Queued, Executing,
       Connecting
  <2> QED BY <2>7, <2>8
<1>4. CASE ApplyConnection
  <2> DEFINE k == Head(results).cluster
  <2>1. Head(results) \in Result /\ Head(results).kind \in {"created", "connectFailed"}
        /\ results' = Tail(results) /\ results # <<>> /\ UNCHANGED phase
    BY <1>4, ReceivedType DEF ApplyConnection
  <2>2. k \in Contexts /\ \A j \in Contexts : Head(results) \in Answers(j) <=> j = k
    BY <2>1 DEF Result, Answers
  <2>3. \A j \in Contexts :
          Answered(j) = Answered(j)' + (IF j = k THEN 1 ELSE 0)
    BY <2>1, <2>2, CountTail DEF Answered, TypeOK
  <2>4. Connecting(k)
    BY <1>0, <2>2, <2>3 DEF Balanced
  <2>5. \A j \in Contexts : Connecting(j)' <=> Connecting(j) /\ j # k
    BY <1>4, <2>2, <2>4 DEF ApplyConnection, Becomes, Connecting, TypeOK, Cluster
  <2>6. \A j \in Contexts : Queued(j)' = Queued(j) /\ Executing(j)' = Executing(j)
    BY <1>4, <2>1 DEF ApplyConnection, Queued, Executing
  <2> QED BY <1>0, <2>2, <2>3, <2>4, <2>5, <2>6 DEF Balanced
<1>5. CASE ApplyLoaded \/ ApplyLoadFailed
  <2>1. Head(results) \in Result /\ Head(results).kind \in {"loaded", "loadFailed"}
        /\ results' = Tail(results) /\ results # <<>> /\ UNCHANGED phase
    BY <1>5, ReceivedType DEF ApplyLoaded, ApplyLoadFailed
  <2>2. /\ Head(results).cluster \in Contexts
        /\ Head(results).of \in {"namespaces", "apis"}
        /\ \A j \in Contexts : Head(results) \notin Answers(j)
    BY <2>1 DEF Result, Answers
  <2>3. \A j \in Contexts : Answered(j) = Answered(j)'
    BY <1>0, <2>1, <2>2, CountTail DEF Answered, TypeOK
  <2>4. \A j \in Contexts : Connecting(j)' <=> Connecting(j)
    <3>1. PICK load : clusters' =
            [clusters EXCEPT ![Head(results).cluster][Head(results).of] = load]
      BY <1>5 DEF ApplyLoaded, ApplyLoadFailed, Applied
    <3> QED BY <2>2, <3>1 DEF Connecting, TypeOK, Cluster
  <2>5. \A j \in Contexts : Queued(j)' = Queued(j)
    <3>1. CASE channel' = channel
      BY <3>1 DEF Queued
    <3>2. CASE channel' = [channel EXCEPT ![Head(results).cluster] = Append(@, "use")]
      <4>1. ASSUME NEW j \in Contexts PROVE Queued(j)' = Queued(j)
        <5>1. channel'[j] = channel[j] \/ channel'[j] = Append(channel[j], "use")
          BY <2>2, <3>2 DEF TypeOK
        <5>2. channel[j] \in Seq({"connect", "use"})
          BY DEF TypeOK
        <5>3. Count(Append(channel[j], "use"), {"connect"})
                = Count(channel[j], {"connect"})
                    + (IF "use" \in {"connect"} THEN 1 ELSE 0)
          BY <5>2, CountAppend
        <5>4. Count(channel[j], {"connect"}) \in Nat
          BY <5>2, CountType
        <5>5. Count(Append(channel[j], "use"), {"connect"})
                = Count(channel[j], {"connect"})
          BY <5>3, <5>4
        <5>6. Count(channel'[j], {"connect"}) = Count(channel[j], {"connect"})
          BY <5>1, <5>5
        <5> QED BY <5>6 DEF Queued
      <4> QED BY <4>1
    <3> QED BY <1>5, <3>1, <3>2 DEF ApplyLoaded, ApplyLoadFailed, Send
  <2> QED BY <2>1, <2>3, <2>4, <2>5 DEF Balanced, Executing
<1>6. ASSUME NEW k \in Contexts, RuntimeStep(k) \/ CommandStep(k)
      PROVE  Balanced'
  <2>0. \A j \in Contexts : Connecting(j)' <=> Connecting(j)
    BY <1>6 DEF RuntimeStep, CommandStep, ReceiveConnect, StopCluster,
         OpenConnection, OpenFails, InsertConnection, ReportConnection,
         ReceiveUse, RunUse, Connecting
  <2>1. ASSUME NEW command \in {"connect", "use"}, Takes(k, command)
        PROVE  \A j \in Contexts : Queued(j) = Queued(j)' +
                 (IF j = k /\ command = "connect" THEN 1 ELSE 0)
    <3>1. /\ channel[k] # <<>> /\ Head(channel[k]) = command
          /\ channel'[k] = Tail(channel[k])
          /\ \A j \in Contexts \ {k} : channel'[j] = channel[j]
      BY <2>1 DEF Takes, TypeOK
    <3>2. channel[k] \in Seq({"connect", "use"})
      BY DEF TypeOK
    <3>3. Queued(k) = Queued(k)' + (IF command \in {"connect"} THEN 1 ELSE 0)
      BY <3>1, <3>2, CountTail DEF Queued
    <3>4. \A j \in Contexts \ {k} : Queued(j) = Queued(j)'
      BY <3>1 DEF Queued
    <3> QED BY <1>0, <3>3, <3>4
  <2>2. CASE ReceiveConnect(k)
    <3>1. /\ Takes(k, "connect") /\ UNCHANGED results
          /\ phase[k] = "receiving" /\ phase'[k] = "draining"
          /\ \A j \in Contexts \ {k} : phase'[j] = phase[j]
      BY <2>2 DEF ReceiveConnect, Takes, Enters, TypeOK
    <3> QED BY <1>0, <2>0, <2>1, <3>1 DEF Balanced, Executing, Answered
  <2>3. CASE StopCluster(k) \/ OpenConnection(k) \/ OpenFails(k) \/ InsertConnection(k)
    <3>1. /\ UNCHANGED <<channel, results>>
          /\ phase[k] # "receiving" /\ phase'[k] # "receiving"
          /\ \A j \in Contexts \ {k} : phase'[j] = phase[j]
      BY <2>3 DEF StopCluster, OpenConnection, OpenFails, InsertConnection,
                  Enters, TypeOK
    <3> QED BY <2>0, <3>1 DEF Balanced, Executing, Answered, Queued
  <2>4. CASE ReportConnection(k)
    <3> DEFINE r == Outcome(k)[1]
    <3>1. /\ UNCHANGED channel /\ results' = Append(results, r)
          /\ phase[k] # "receiving" /\ phase'[k] = "receiving"
          /\ \A j \in Contexts \ {k} : phase'[j] = phase[j]
      BY <2>4 DEF ReportConnection, Outcome, Enters, TypeOK
    <3>2. r \in Result /\ \A j \in Contexts : r \in Answers(j) <=> j = k
      BY DEF Outcome, Result, Answers
    <3>3. \A j \in Contexts : Answered(j)' = Answered(j) + (IF j = k THEN 1 ELSE 0)
      BY <3>1, <3>2, CountAppend DEF Answered, TypeOK
    <3>4. \A j \in Contexts : Executing(j)' = Executing(j) - (IF j = k THEN 1 ELSE 0)
      BY <3>1 DEF Executing
    <3>5. \A j \in Contexts : Queued(j)' = Queued(j)
      BY <3>1 DEF Queued
    <3> QED BY <1>0, <2>0, <3>3, <3>4, <3>5 DEF Balanced
  <2>5. CASE ReceiveUse(k)
    BY <2>5, <1>0, <2>0, <2>1 DEF ReceiveUse, Balanced, Executing, Answered
  <2>6. CASE RunUse(k)
    BY <2>0, <2>6 DEF RunUse, Balanced, Executing, Answered, Queued
  <2> QED BY <1>6, <2>2, <2>3, <2>4, <2>5, <2>6 DEF RuntimeStep, CommandStep
<1>7. ASSUME NEW f \in feeds, FeedLists(f) \/ FeedFails(f) PROVE Balanced'
  <2>1. PICK kind \in {"loaded", "loadFailed"} :
          results' = Append(results, About(f, kind))
    BY <1>7 DEF FeedLists, FeedFails, Report
  <2>2. About(f, kind) \in Result
    BY DEF About, TypeOK, Feed, Result
  <2>3. \A j \in Contexts : About(f, kind) \notin Answers(j)
    BY DEF About, Answers
  <2>4. \A j \in Contexts : Answered(j)' = Answered(j)
    BY <1>0, <2>1, <2>2, <2>3, CountAppend DEF Answered, TypeOK
  <2>5. UNCHANGED <<clusters, channel, phase>>
    BY <1>7 DEF FeedLists, FeedFails
  <2> QED BY <2>4, <2>5 DEF Balanced, Queued, Executing, Connecting
<1> QED BY <1>1, <1>2, <1>3, <1>4, <1>5, <1>6, <1>7 DEF Next, ApplyStep, FeedStep
-----------------------------------------------------------------------------
(* The invariant is inductive.                                             *)

LEMMA TailPlaces ==
  ASSUME NEW T, NEW s \in Seq(T), s # <<>>
  PROVE  /\ 1 \in DOMAIN s /\ Head(s) = s[1]
         /\ \A i \in DOMAIN Tail(s) : /\ i + 1 \in DOMAIN s /\ i + 1 # 1
                                     /\ Tail(s)[i] = s[i + 1]
         /\ \A i \in DOMAIN s : i # 1 => /\ i - 1 \in DOMAIN Tail(s)
                                        /\ Tail(s)[i - 1] = s[i]
<1>1. Len(s) \in Nat \ {0} /\ Len(Tail(s)) = Len(s) - 1 /\ Tail(s) \in Seq(T)
  OBVIOUS
<1>2. \A i \in 1..Len(Tail(s)) : Tail(s)[i] = s[i + 1]
  OBVIOUS
<1>3. DOMAIN s = 1..Len(s) /\ DOMAIN Tail(s) = 1..Len(Tail(s)) /\ Head(s) = s[1]
  BY <1>1
<1>4. ASSUME NEW i \in DOMAIN s, i # 1
      PROVE  i - 1 \in DOMAIN Tail(s) /\ Tail(s)[i - 1] = s[i]
  BY <1>1, <1>3, <1>4, <1>2
<1>5. ASSUME NEW i \in DOMAIN Tail(s)
      PROVE  i + 1 \in DOMAIN s /\ i + 1 # 1 /\ Tail(s)[i] = s[i + 1]
  BY <1>1, <1>2, <1>3
<1> QED BY <1>1, <1>3, <1>4, <1>5

LEMMA AppendPlaces ==
  ASSUME NEW T, NEW s \in Seq(T), NEW x
  PROVE  /\ DOMAIN Append(s, x) = DOMAIN s \cup {Len(s) + 1}
         /\ Len(s) + 1 \notin DOMAIN s
         /\ Append(s, x)[Len(s) + 1] = x
         /\ \A i \in DOMAIN s : Append(s, x)[i] = s[i]
OBVIOUS

(* A cluster that is being connected is not connected and no answer about  *)
(* it is under way, and so on around.                                      *)
LEMMA Exclusive ==
  ASSUME TypeOK, Balanced, NEW k \in Contexts
  PROVE  /\ phase[k] # "receiving" => ~Connected(k) /\ ~Created(k) /\ Connecting(k)
         /\ Created(k) => phase[k] = "receiving" /\ Connecting(k)
         /\ ~Connecting(k) => phase[k] = "receiving" /\ ~Created(k)
<1>1. Queued(k) \in Nat /\ Executing(k) \in {0, 1} /\ Answered(k) \in Nat
  BY OutstandingIs
<1>2. Answered(k) = 0 => ~Created(k)
  <2>1. ASSUME Answered(k) = 0, Created(k) PROVE FALSE
    <3>1. PICK i \in DOMAIN results :
            results[i].kind = "created" /\ results[i].cluster = k
      BY <2>1 DEF Created
    <3>2. results[i] \in Answers(k)
      BY <3>1 DEF TypeOK, Answers
    <3> QED BY <2>1, <3>2, CountZero DEF Answered, TypeOK
  <2> QED BY <2>1
<1>3. Queued(k) + Executing(k) + Answered(k) = (IF Connecting(k) THEN 1 ELSE 0)
  BY DEF Balanced
<1>4. phase[k] # "receiving" => Executing(k) = 1
  BY DEF Executing
<1>5. Connecting(k) => ~Connected(k)
  BY DEF Connecting, Connected
<1>6. phase[k] # "receiving" => Answered(k) = 0 /\ Connecting(k)
  BY <1>1, <1>3, <1>4
<1>7. Answered(k) # 0 => Executing(k) = 0 /\ Connecting(k)
  BY <1>1, <1>3
<1>8. ~Connecting(k) => Executing(k) = 0 /\ Answered(k) = 0
  BY <1>1, <1>3
<1> QED BY <1>2, <1>4, <1>5, <1>6, <1>7, <1>8

LEMMA SessionInvInit == Init => SessionInv
<1> SUFFICES ASSUME Init PROVE SessionInv
  OBVIOUS
<1>1. TypeOK
  BY InitTypeOK
<1>2. PICK contexts, current :
        results = <<[kind |-> "clusters", contexts |-> contexts,
                     current |-> current]>>
  BY DEF Init
<1>3. DOMAIN results = {1} /\ results[1].kind = "clusters"
  BY <1>2
<1>4. /\ DOMAIN clusters = {} /\ feeds = {} /\ connections = {}
      /\ \A k \in Contexts : /\ channel[k] = <<>> /\ phase[k] = "receiving"
                            /\ inFlight[k] = 0 /\ attempt[k] = 0
  BY DEF Init
<1>5. Balanced
  <2>1. \A k \in Contexts : Answered(k) = 0
    BY <1>3, <1>1, CountZero DEF Answers, Answered, TypeOK
  <2>2. \A k \in Contexts : Queued(k) = 0
    BY <1>4, CountEmpty DEF Queued
  <2> QED BY <1>4, <2>1, <2>2 DEF Balanced, Executing, Connecting
<1>6. OneConnectAtATime
  BY <1>1, <1>5, BalancedIs
<1>7. ListedFirst
  BY <1>3, <1>4 DEF ListedFirst
<1>8. OpenedOnce
  BY <1>3, <1>4 DEF OpenedOnce, Registered, Created, Connected
<1>9. FromIt
  BY <1>3, <1>4 DEF FromIt, LoadKinds
<1>10. UsesAreLate
  BY <1>4 DEF UsesAreLate
<1>11. NoCommandRefused
  BY DEF Init, NoCommandRefused
<1> QED BY <1>1, <1>6, <1>7, <1>8, <1>9, <1>10, <1>11 DEF SessionInv
LEMMA ListedFirstKept ==
  ASSUME TypeOK, ListedFirst, [Next]_vars PROVE ListedFirst'
<1> USE DEF ui, runtime, session
<1>1. CASE UNCHANGED vars
  BY <1>1 DEF vars, ListedFirst
<1>2. CASE UserStep
  BY <1>2 DEF UserStep, SelectCluster, RetrySelectedLoad, ErrorShown,
     ListedFirst
<1>3. CASE ApplyStep
  <2>1. results' = Tail(results) /\ results # <<>> /\ results \in Seq(Result)
    BY <1>3, ReceivedType DEF TypeOK, ApplyStep, ApplyClusters, ApplyConnection,
                              ApplyLoaded, ApplyLoadFailed
  <2>2. \A i \in DOMAIN results' : results'[i].kind # "clusters"
    BY <2>1, TailPlaces DEF ListedFirst
  <2> QED BY <2>2 DEF ListedFirst
<1>4. ASSUME NEW r, results' = Append(results, r), r.kind # "clusters",
             UNCHANGED clusters
      PROVE  ListedFirst'
  BY <1>4, AppendPlaces DEF ListedFirst, TypeOK
<1>5. ASSUME NEW k \in Contexts, RuntimeStep(k) \/ CommandStep(k)
      PROVE  ListedFirst'
  <2>1. CASE ReportConnection(k)
    <3>1. results' = Append(results, Outcome(k)[1])
          /\ Outcome(k)[1].kind # "clusters" /\ UNCHANGED clusters
      BY <2>1 DEF ReportConnection, Outcome, TypeOK
    <3> QED BY <1>4, <3>1
  <2>2. CASE ~ReportConnection(k)
    <3>1. UNCHANGED <<clusters, results>>
      BY <1>5, <2>2 DEF RuntimeStep, CommandStep, ReceiveConnect, StopCluster,
           OpenConnection, OpenFails, InsertConnection, ReceiveUse, RunUse
    <3> QED BY <3>1 DEF ListedFirst
  <2> QED BY <2>1, <2>2
<1>6. ASSUME NEW f \in feeds, FeedLists(f) \/ FeedFails(f) PROVE ListedFirst'
  <2>1. PICK kind \in LoadKinds : results' = Append(results, About(f, kind))
    BY <1>6 DEF FeedLists, FeedFails, Report, LoadKinds
  <2>2. About(f, kind).kind # "clusters" /\ UNCHANGED clusters
    BY <1>6 DEF About, LoadKinds, FeedLists, FeedFails
  <2> QED BY <1>4, <2>1, <2>2
<1> QED BY <1>1, <1>2, <1>3, <1>5, <1>6 DEF Next, FeedStep

LEMMA SelectShows ==
  ASSUME NEW listed, NEW j \in DOMAIN listed, Select(listed, j),
         \A k \in DOMAIN listed : listed[k] \in Cluster
  PROVE  /\ DOMAIN clusters' = DOMAIN listed
         /\ \A k \in DOMAIN listed :
              /\ Connected(k)' <=> listed[k].connection = "connected"
              /\ \A of \in {"namespaces", "apis"} :
                   clusters'[k][of].state # "loading" =>
                     clusters'[k][of] = listed[k][of]
<1>1. CASE Busy(listed[j])
  BY <1>1 DEF Select, Connected
<1>2. CASE ~Busy(listed[j])
  BY <1>2, NewClusterType DEF Select, Connected, Busy
<1> QED BY <1>1, <1>2

LEMMA SelectUses ==
  ASSUME TypeOK, NEW listed, NEW j \in Contexts, Select(listed, j)
  PROVE  \A k \in Contexts : \A i \in DOMAIN channel'[k] :
           channel'[k][i] = "use" =>
             i \in DOMAIN channel[k] /\ channel[k][i] = "use"
<1>1. CASE channel' = channel
  BY <1>1
<1>2. CASE channel' = [channel EXCEPT ![j] = Append(@, "connect")]
  BY <1>2, AppendPlaces DEF TypeOK
<1> QED BY <1>1, <1>2 DEF Select, Send

(* What a step does to the parts of the invariant that the balance does not*)
(* have.                                                                   *)
Known == OpenedOnce /\ FromIt /\ UsesAreLate /\ NoCommandRefused

LEMMA UserKept ==
  ASSUME TypeOK, Balanced, Known, UserStep PROVE Known'
<1> USE DEF ui, runtime, session
<1>1. PICK j \in DOMAIN clusters :
        /\ Select(clusters, j)
        /\ UNCHANGED <<phase, inFlight, connections, feeds, attempt, results, refused>>
  BY DEF UserStep, SelectCluster, RetrySelectedLoad, ErrorShown
<1>2. \A k \in DOMAIN clusters : clusters[k] \in Cluster
  BY DEF TypeOK
<1>3. \A k \in Contexts : Connected(k)' <=> Connected(k)
  BY <1>1, <1>2, SelectShows DEF Connected
<1>4. \A k \in Contexts : Created(k)' <=> Created(k)
  BY <1>1 DEF Created
<1>5. OpenedOnce'
  BY <1>1, <1>3, <1>4 DEF Known, OpenedOnce, Registered
<1>6. FromIt'
  <2>1. ASSUME NEW k \in DOMAIN clusters', NEW of \in {"namespaces", "apis"},
               clusters'[k][of].state # "loading"
        PROVE  clusters'[k][of].from = 1 /\ attempt'[k] = 1
    BY <1>1, <1>2, <2>1, SelectShows DEF Known, FromIt
  <2> QED BY <1>1, <2>1 DEF Known, FromIt
<1>7. UsesAreLate'
  BY <1>1, SelectUses DEF Known, UsesAreLate, TypeOK
<1> QED BY <1>1, <1>5, <1>6, <1>7 DEF Known, NoCommandRefused

LEMMA TailCreated ==
  ASSUME TypeOK, results # <<>>, results' = Tail(results)
  PROVE  \A k \in Contexts : Created(k) <=>
           Created(k)' \/ (/\ Head(results).kind = "created"
                          /\ Head(results).cluster = k)
<1>1. results \in Seq(Result)
  BY DEF TypeOK
<1>2. ASSUME NEW k \in Contexts, Created(k)'
      PROVE  Created(k)
  <2>1. PICK i \in DOMAIN results' :
          results'[i].kind = "created" /\ results'[i].cluster = k
    BY <1>2 DEF Created
  <2>2. i + 1 \in DOMAIN results /\ results'[i] = results[i + 1]
    BY <1>1, TailPlaces
  <2> QED BY <2>1, <2>2 DEF Created
<1>3. ASSUME NEW k \in Contexts, Created(k),
             ~(Head(results).kind = "created" /\ Head(results).cluster = k)
      PROVE  Created(k)'
  <2>1. PICK i \in DOMAIN results :
          results[i].kind = "created" /\ results[i].cluster = k
    BY <1>3 DEF Created
  <2>2. i # 1
    BY <1>1, <1>3, <2>1, TailPlaces
  <2>3. i - 1 \in DOMAIN results' /\ results'[i - 1] = results[i]
    BY <1>1, <2>2, TailPlaces
  <2> QED BY <2>1, <2>3 DEF Created
<1>4. ASSUME NEW k \in Contexts, Head(results).kind = "created",
             Head(results).cluster = k
      PROVE  Created(k)
  BY <1>1, <1>4, TailPlaces DEF Created
<1> QED BY <1>2, <1>3, <1>4

LEMMA ClustersKept ==
  ASSUME TypeOK, ListedFirst, Balanced, Known, ApplyClusters PROVE Known'
<1> DEFINE contexts == Head(results).contexts
           listed == [k \in contexts |-> NewCluster]
<1>1. /\ Head(results) \in Result /\ Head(results).kind = "clusters"
      /\ results' = Tail(results) /\ results # <<>> /\ results \in Seq(Result)
      /\ UNCHANGED <<phase, inFlight, connections, feeds, attempt, refused>>
  BY ReceivedType DEF ApplyClusters, TypeOK
<1>2. DOMAIN clusters = {} /\ contexts \subseteq Contexts
  BY <1>1, TailPlaces DEF ListedFirst, Result
<1>3. \A k \in DOMAIN listed : listed[k] \in Cluster
  BY NewClusterType
<1>4. \A k \in Contexts : Created(k)' <=> Created(k)
  BY <1>1, TailCreated
<1>5. DOMAIN listed = contexts
  OBVIOUS
<1>6. /\ \A k \in Contexts : ~Connected(k)' /\ ~Connected(k)
      /\ \A k \in DOMAIN clusters' : \A of \in {"namespaces", "apis"} :
           clusters'[k][of].state = "loading"
      /\ \A k \in Contexts : \A i \in DOMAIN channel'[k] :
           channel'[k][i] = "use" => i \in DOMAIN channel[k] /\ channel[k][i] = "use"
  <2>1. CASE Preferred(contexts, Head(results).current) \in contexts
    BY <2>1, <1>3, <1>5, SelectShows, NewClusterType, <1>2, SelectUses
       DEF ApplyClusters, Connected
  <2>2. CASE Preferred(contexts, Head(results).current) \notin contexts
    BY <2>2, <1>2, NewClusterType DEF ApplyClusters, Connected
  <2> QED BY <2>1, <2>2
<1>7. OpenedOnce'
  BY <1>1, <1>4, <1>6 DEF Known, OpenedOnce, Registered
<1>8. FromIt'
  BY <1>1, <1>6, TailPlaces DEF Known, FromIt
<1>9. UsesAreLate'
  BY <1>1, <1>6 DEF Known, UsesAreLate
<1> QED BY <1>1, <1>7, <1>8, <1>9 DEF Known, NoCommandRefused

LEMMA ConnectionKept ==
  ASSUME TypeOK, Balanced, Balanced', TypeOK', Known, ApplyConnection PROVE Known'
<1>1. /\ Head(results) \in Result /\ Head(results).kind \in {"created", "connectFailed"}
      /\ results' = Tail(results) /\ results # <<>> /\ results \in Seq(Result)
      /\ UNCHANGED <<phase, inFlight, connections, feeds, attempt, refused, channel>>
  BY ReceivedType DEF ApplyConnection, TypeOK
<1>2. PICK k \in Contexts : k = Head(results).cluster
  BY <1>1 DEF Result
<1>3. PICK connection :
        /\ clusters' = [clusters EXCEPT ![k].connection = connection]
        /\ connection = IF Head(results).kind = "created" THEN "connected" ELSE "failed"
  BY <1>1, <1>2 DEF ApplyConnection, Becomes, Received
<1>4. Connecting(k) /\ phase[k] = "receiving" /\ Answered(k) = 1
  <2>1. Queued(k) \in Nat /\ Executing(k) \in {0, 1} /\ Answered(k) \in Nat
    BY <1>2, OutstandingIs
  <2>2. Answered(k) # 0
    BY <1>1, <1>2, TailPlaces, CountZero DEF Answers, Answered
  <2>3. Queued(k) + Executing(k) + Answered(k) = (IF Connecting(k) THEN 1 ELSE 0)
    BY <1>2 DEF Balanced
  <2> QED BY <2>1, <2>2, <2>3 DEF Executing
<1>5. \A j \in Contexts : Connected(j)' <=>
        Connected(j) \/ (j = k /\ Head(results).kind = "created")
  BY ZenonT(30), <1>2, <1>3, <1>4 DEF Connected, Connecting, TypeOK, Cluster
<1>6. ~Connecting(k)' /\ ~Connected(k)
  BY <1>3, <1>4 DEF Connecting, Connected, TypeOK, Cluster
<1>7. ~Created(k)'
  <2>0. results' \in Seq(Result) /\ Tail(results) \in Seq(Result)
    BY <1>1
  <2>1. Count(results', Answers(k)) = 0
    <3>1. Head(results) \in Answers(k)
      BY <1>1, <1>2 DEF Answers
    <3>2. Count(Tail(results), Answers(k)) \in Nat
      BY <2>0, CountType
    <3> QED BY <1>1, <1>4, <3>1, <3>2, CountTail DEF Answered
  <2>2. \A i \in DOMAIN results' : results'[i] \notin Answers(k)
    BY <2>0, <2>1, CountZero
  <2>3. \A i \in DOMAIN results' : results'[i] \in Result
    BY <2>0
  <2> QED BY <2>2, <2>3 DEF Created, Answers
<1>8. \A j \in Contexts : Created(j) <=>
        Created(j)' \/ (j = k /\ Head(results).kind = "created")
  BY <1>1, <1>2, TailCreated
<1>9. OpenedOnce'
  BY <1>1, <1>5, <1>8 DEF Known, OpenedOnce, Registered
<1>10. FromIt'
  <2>1. DOMAIN clusters' = DOMAIN clusters
        /\ \A j \in DOMAIN clusters : \A of \in {"namespaces", "apis"} :
             clusters'[j][of] = clusters[j][of]
    BY ZenonT(30), <1>3 DEF TypeOK, Cluster
  <2> QED BY <1>1, <2>1, TailPlaces DEF Known, FromIt
<1>11. UsesAreLate'
  BY <1>1 DEF Known, UsesAreLate
<1> QED BY <1>1, <1>9, <1>10, <1>11 DEF Known, NoCommandRefused
LEMMA LoadedKept ==
  ASSUME TypeOK, Balanced, Known, ApplyLoaded \/ ApplyLoadFailed PROVE Known'
<1>1. /\ Head(results) \in Result /\ Head(results).kind \in LoadKinds
      /\ results' = Tail(results) /\ results # <<>> /\ results \in Seq(Result)
      /\ UNCHANGED <<phase, inFlight, connections, feeds, attempt, refused>>
  BY ReceivedType DEF ApplyLoaded, ApplyLoadFailed, TypeOK, LoadKinds
<1>2. PICK k \in Contexts : k = Head(results).cluster
  BY <1>1 DEF Result, LoadKinds
<1>3. PICK of \in {"namespaces", "apis"} : of = Head(results).of
  BY <1>1 DEF Result, LoadKinds
<1>4. Head(results).from = 1 /\ attempt[k] = 1
  BY <1>1, <1>2, TailPlaces DEF Known, FromIt
<1>5. PICK state \in {"ready", "failed"} :
        clusters' = [clusters EXCEPT ![k][of] = [state |-> state, from |-> 1]]
  <2>1. CASE ApplyLoaded
    <3>1. clusters' = [clusters EXCEPT ![k][of] = [state |-> "ready", from |-> 1]]
      BY <1>2, <1>3, <1>4, <2>1 DEF ApplyLoaded, Applied
    <3> WITNESS "ready" \in {"ready", "failed"}
    <3> QED BY <3>1
  <2>2. CASE ApplyLoadFailed
    <3>1. clusters' = [clusters EXCEPT ![k][of] = [state |-> "failed", from |-> 1]]
      BY <1>2, <1>3, <1>4, <2>2 DEF ApplyLoadFailed, Applied
    <3> WITNESS "failed" \in {"ready", "failed"}
    <3> QED BY <3>1
  <2> QED BY <1>1, <2>1, <2>2
<1>6. \A j \in Contexts : Connected(j)' <=> Connected(j)
  BY <1>5 DEF Connected, TypeOK, Cluster
<1>7. \A j \in Contexts : Created(j)' <=> Created(j)
  BY <1>1, TailCreated DEF LoadKinds
<1>8. OpenedOnce'
  BY <1>1, <1>6, <1>7 DEF Known, OpenedOnce, Registered
<1>9. FromIt'
  BY <1>5, <1>1, <1>4, TailPlaces DEF TypeOK, Cluster, Known, FromIt
<1>10. UsesAreLate'
  <2>1. CASE channel' = channel
    BY <1>1, <2>1 DEF Known, UsesAreLate
  <2>2. CASE channel' = [channel EXCEPT ![k] = Append(@, "use")]
    <3>1. ASSUME NEW j \in Contexts, NEW i \in DOMAIN channel'[j],
                 channel'[j][i] = "use"
          PROVE  attempt[j] = 1
      <4>1. CASE j = k
        BY <1>4, <4>1
      <4>2. CASE j # k
        BY <2>2, <3>1, <4>2 DEF Known, UsesAreLate, TypeOK
      <4> QED BY <4>1, <4>2
    <3> QED BY <1>1, <3>1 DEF Known, UsesAreLate
  <2> QED BY <1>2, <2>1, <2>2 DEF ApplyLoaded, ApplyLoadFailed, Send
<1> QED BY <1>1, <1>8, <1>9, <1>10 DEF Known, NoCommandRefused

(* Steps of a runtime that leave the clusters alone.                       *)
LEMMA ReceiveKept ==
  ASSUME TypeOK, Balanced, Known, NEW k \in Contexts,
         ReceiveConnect(k) \/ ReceiveUse(k)
  PROVE  Known'
<1> USE DEF ui, runtime, session
<1>1. /\ channel[k] # <<>> /\ channel[k] \in Seq({"connect", "use"})
      /\ channel'[k] = Tail(channel[k]) /\ phase[k] = "receiving"
      /\ \A j \in Contexts \ {k} : channel'[j] = channel[j]
      /\ UNCHANGED <<clusters, connections, feeds, attempt, results, refused>>
  BY DEF ReceiveConnect, ReceiveUse, Takes, TypeOK
<1>2. /\ phase'[k] \in {"receiving", "draining"}
      /\ \A j \in Contexts \ {k} : phase'[j] = phase[j]
  BY <1>1 DEF ReceiveConnect, ReceiveUse, Enters, TypeOK
<1>3. OpenedOnce'
  BY <1>1, <1>2 DEF Known, OpenedOnce, Registered, Created, Connected
<1>4. FromIt'
  BY <1>1 DEF Known, FromIt
<1>5. UsesAreLate'
  <2>1. ASSUME NEW j \in Contexts, NEW i \in DOMAIN channel'[j],
               channel'[j][i] = "use"
        PROVE  attempt[j] = 1
    <3>1. CASE j = k
      <4>0. i \in DOMAIN Tail(channel[k]) /\ Tail(channel[k])[i] = "use"
        BY <1>1, <2>1, <3>1
      <4>1. i + 1 \in DOMAIN channel[k] /\ channel[k][i + 1] = "use"
        BY <1>1, <4>0, TailPlaces
      <4> QED BY <3>1, <4>1 DEF Known, UsesAreLate
    <3>2. CASE j # k
      BY <1>1, <2>1, <3>2 DEF Known, UsesAreLate
    <3> QED BY <3>1, <3>2
  <2>2. ASSUME NEW j \in Contexts, inFlight'[j] > 0 PROVE j \in connections
    <3>1. CASE inFlight'[j] = inFlight[j]
      BY <2>2, <3>1 DEF Known, UsesAreLate
    <3>2. CASE inFlight'[j] # inFlight[j]
      BY <3>2, <1>1, TailPlaces DEF ReceiveConnect, ReceiveUse, TypeOK, Takes,
         Known, UsesAreLate, OpenedOnce
    <3> QED BY <3>1, <3>2
  <2> QED BY <1>1, <2>1, <2>2 DEF UsesAreLate
<1> QED BY <1>1, <1>3, <1>4, <1>5 DEF Known, NoCommandRefused

LEMMA OpeningKept ==
  ASSUME TypeOK, Balanced, Known, NEW k \in Contexts,
         StopCluster(k) \/ OpenConnection(k) \/ OpenFails(k)
  PROVE  Known'
<1> USE DEF ui, runtime, session
<1>1. /\ phase[k] \in {"draining", "connecting"}
      /\ \A j \in Contexts \ {k} : phase'[j] = phase[j]
      /\ UNCHANGED <<clusters, channel, inFlight, results, refused>>
  BY DEF StopCluster, OpenConnection, OpenFails, Enters, TypeOK
<1>2. ~Registered(k) /\ attempt[k] = 0 /\ k \notin connections
  BY <1>1, Exclusive DEF Registered, Known, OpenedOnce
<1>3. /\ \A f \in feeds : f.cluster # k
      /\ \A i \in DOMAIN results :
           results[i].kind \in LoadKinds => results[i].cluster # k
      /\ \A of \in {"namespaces", "apis"} :
           k \in DOMAIN clusters => clusters[k][of].state = "loading"
      /\ \A i \in DOMAIN channel[k] : channel[k][i] # "use"
  BY <1>2 DEF Known, FromIt, UsesAreLate
<1>4. connections' = connections
  BY <1>2 DEF StopCluster, OpenConnection, OpenFails
<1>5. \A j \in Contexts : Registered(j)' <=> Registered(j)
  BY <1>1 DEF StopCluster, OpenConnection, OpenFails, Enters, TypeOK,
     Registered, Created, Connected
<1>6. CASE OpenConnection(k)
  <2>1. /\ phase'[k] = "opened" /\ attempt'[k] = 1
        /\ \A j \in Contexts \ {k} : attempt'[j] = attempt[j]
    BY <1>2, <1>6 DEF OpenConnection, Enters, TypeOK
  <2>2. \A f \in feeds' : f \in feeds \/ (f.cluster = k /\ f.from = 1)
    BY <1>6, <2>1 DEF OpenConnection
  <2>3. OpenedOnce'
    BY <1>1, <1>2, <1>4, <1>5, <2>1 DEF Known, OpenedOnce
  <2>4. \A f \in feeds : f.cluster \in Contexts
    BY DEF TypeOK, Feed
  <2>5. \A i \in DOMAIN results : results[i].kind \in LoadKinds =>
          results[i].cluster \in Contexts
    BY DEF TypeOK, Result, LoadKinds
  <2>6. FromIt'
    <3>1. \A f \in feeds' : f.from = 1 /\ attempt'[f.cluster] = 1
      BY <1>3, <2>1, <2>2, <2>4 DEF Known, FromIt
    <3>2. \A i \in DOMAIN results' :
            results'[i].kind \in LoadKinds =>
              results'[i].from = 1 /\ attempt'[results'[i].cluster] = 1
      BY <1>1, <1>3, <2>1, <2>5 DEF Known, FromIt
    <3>3. DOMAIN clusters \subseteq Contexts
      BY DEF TypeOK
    <3>4. \A j \in DOMAIN clusters' : \A of \in {"namespaces", "apis"} :
            clusters'[j][of].state # "loading" =>
              clusters'[j][of].from = 1 /\ attempt'[j] = 1
      BY <1>1, <1>3, <2>1, <3>3 DEF Known, FromIt
    <3> QED BY <3>1, <3>2, <3>4 DEF FromIt
  <2>7. UsesAreLate'
    BY <1>1, <1>4, <2>1 DEF Known, UsesAreLate
  <2> QED BY <1>1, <2>3, <2>6, <2>7 DEF Known, NoCommandRefused
<1>7. CASE StopCluster(k) \/ OpenFails(k)
  BY <1>7, <1>1, <1>2, <1>4, <1>5 DEF StopCluster, OpenFails, Enters, TypeOK,
     Known, OpenedOnce, FromIt, UsesAreLate, NoCommandRefused
<1> QED BY <1>6, <1>7

LEMMA InsertKept ==
  ASSUME TypeOK, Balanced, Known, NEW k \in Contexts,
         InsertConnection(k) \/ ReportConnection(k) \/ RunUse(k)
  PROVE  Known'
<1> USE DEF ui, runtime, session
<1>1. CASE InsertConnection(k)
  <2>1. /\ phase[k] = "opened" /\ phase'[k] = "inserted"
        /\ \A j \in Contexts \ {k} : phase'[j] = phase[j]
        /\ connections' = connections \cup {k}
        /\ UNCHANGED <<clusters, channel, inFlight, feeds, attempt, results, refused>>
    BY <1>1 DEF InsertConnection, Enters, TypeOK
  <2>2. OpenedOnce'
    BY <2>1 DEF Known, OpenedOnce, Registered, Created, Connected
  <2> QED BY <2>1, <2>2 DEF Known, FromIt, UsesAreLate, NoCommandRefused
<1>2. CASE ReportConnection(k)
  <2> DEFINE r == Outcome(k)[1]
  <2>1. /\ phase[k] \in {"inserted", "failed"} /\ phase'[k] = "receiving"
        /\ \A j \in Contexts \ {k} : phase'[j] = phase[j]
        /\ results' = Append(results, r) /\ results \in Seq(Result)
        /\ r.cluster = k /\ r.kind = IF phase[k] = "inserted" THEN "created"
                                     ELSE "connectFailed"
        /\ UNCHANGED <<clusters, channel, inFlight, feeds, attempt, connections, refused>>
    BY <1>2 DEF ReportConnection, Outcome, Enters, TypeOK
  <2>2. \A j \in Contexts : Created(j)' <=>
          Created(j) \/ (j = k /\ phase[k] = "inserted")
    BY <2>1, AppendPlaces DEF Created
  <2>3. OpenedOnce'
    BY <2>1, <2>2 DEF Known, OpenedOnce, Registered, Connected
  <2>4. FromIt'
    BY <2>1, AppendPlaces DEF Known, FromIt, LoadKinds
  <2> QED BY <2>1, <2>3, <2>4 DEF Known, UsesAreLate, NoCommandRefused
<1>3. CASE RunUse(k)
  <2>1. k \in connections /\ refused' = refused
    BY <1>3 DEF RunUse, Known, UsesAreLate
  <2>2. UNCHANGED <<clusters, channel, phase, feeds, attempt, results, connections>>
    BY <1>3 DEF RunUse
  <2>3. OpenedOnce' /\ FromIt'
    BY <2>2 DEF Known, OpenedOnce, FromIt, Registered, Created, Connected
  <2>4. \A j \in Contexts : inFlight'[j] > 0 => inFlight[j] > 0
    BY <1>3 DEF RunUse, TypeOK
  <2>5. UsesAreLate'
    BY <2>2, <2>4 DEF Known, UsesAreLate
  <2> QED BY <2>1, <2>3, <2>5 DEF Known, NoCommandRefused
<1> QED BY <1>1, <1>2, <1>3

LEMMA FeedKept ==
  ASSUME TypeOK, Known, NEW f \in feeds, FeedLists(f) \/ FeedFails(f)
  PROVE  Known'
<1> USE DEF ui, runtime, session
<1>1. PICK kind \in LoadKinds : results' = Append(results, About(f, kind))
  BY DEF FeedLists, FeedFails, Report, LoadKinds
<1>2. /\ UNCHANGED <<clusters, channel, phase, inFlight, attempt, connections, refused>>
      /\ results \in Seq(Result)
  BY DEF FeedLists, FeedFails, TypeOK
<1>3. \A g \in feeds' : \E h \in feeds : g.from = h.from /\ g.cluster = h.cluster
  BY DEF FeedLists, FeedFails, TypeOK, Feed
<1>4. f.from = 1 /\ attempt[f.cluster] = 1
  BY DEF Known, FromIt
<1>5. \A k \in Contexts : Created(k)' <=> Created(k)
  BY <1>1, <1>2, AppendPlaces DEF Created, About, LoadKinds
<1>6. OpenedOnce'
  BY <1>2, <1>5 DEF Known, OpenedOnce, Registered, Connected
<1>7. FromIt'
  BY <1>1, <1>2, <1>3, <1>4, AppendPlaces DEF Known, FromIt, About
<1> QED BY <1>2, <1>6, <1>7 DEF Known, UsesAreLate, NoCommandRefused

LEMMA SessionInvKept == SessionInv /\ [Next]_vars => SessionInv'
<1> SUFFICES ASSUME SessionInv, [Next]_vars PROVE SessionInv'
  OBVIOUS
<1>1. TypeOK /\ ListedFirst /\ Balanced /\ Known
  BY BalancedIs DEF SessionInv, Known
<1>2. TypeOK' /\ ListedFirst' /\ Balanced'
  BY <1>1, NextTypeOK, ListedFirstKept, BalanceKept
<1>3. OneConnectAtATime'
  <2>1. TypeOK' => (OneConnectAtATime' <=> Balanced')
    BY BalancedIs, PTL
  <2> QED BY <1>2, <2>1
<1>4. Known'
  <2>1. CASE UNCHANGED vars
    BY <1>1, <2>1 DEF vars, ui, runtime, session, Known, OpenedOnce, FromIt,
       UsesAreLate, NoCommandRefused, Registered, Created, Connected
  <2>2. CASE Next
    BY <1>1, <1>2, <2>2, UserKept, ClustersKept, ConnectionKept, LoadedKept,
       ReceiveKept, OpeningKept, InsertKept, FeedKept
       DEF Next, ApplyStep, RuntimeStep, CommandStep, FeedStep
  <2> QED BY <2>1, <2>2
<1> QED BY <1>2, <1>3, <1>4 DEF SessionInv, Known
-----------------------------------------------------------------------------
(* The theorems.                                                           *)

THEOREM SessionInvariant == Spec => []SessionInv
BY SessionInvInit, SessionInvKept, PTL DEF Spec

(* However the user clicks and answers arrive, a cluster has exactly one   *)
(* ConnectToCluster under way while it is shown as connecting, and none    *)
(* otherwise (select_cluster_inner).                                       *)
THEOREM OneConnect == Spec => []OneConnectAtATime
BY SessionInvariant, PTL DEF SessionInv

(* What is shown of a cluster is of the connection it has now, although no *)
(* result says which connection it comes from.                             *)
THEOREM CurrentShown == Spec => []ShownIsCurrent
<1>1. SessionInv => ShownIsCurrent
  <2> SUFFICES ASSUME SessionInv, NEW k \in DOMAIN clusters
               PROVE  /\ clusters[k].connection = "connected" => k \in connections
                      /\ \A load \in {clusters[k].namespaces, clusters[k].apis} :
                           load.state # "loading" => load.from = attempt[k]
    BY DEF ShownIsCurrent
  <2>1. k \in Contexts
    BY DEF SessionInv, TypeOK
  <2>2. clusters[k].connection = "connected" => k \in connections
    BY <2>1 DEF SessionInv, OpenedOnce, Registered, Connected
  <2>3. \A of \in {"namespaces", "apis"} :
          clusters[k][of].state # "loading" => clusters[k][of].from = attempt[k]
    BY DEF SessionInv, FromIt
  <2> QED BY <2>2, <2>3
<1> QED BY <1>1, SessionInvariant, PTL

(* No command that needs a connection runs without one, although discovery *)
(* starts before the connection is registered.                             *)
THEOREM NoneRefused == Spec => []NoCommandRefused
BY SessionInvariant, PTL DEF SessionInv

(* Why it holds: a runtime opens at most one connection to its cluster,    *)
(* since a cluster that is connected is never connected again.             *)
THEOREM ConnectedOnce == Spec => [](\A k \in Contexts : attempt[k] \in {0, 1})
<1>1. SessionInv => \A k \in Contexts : attempt[k] \in {0, 1}
  BY DEF SessionInv, OpenedOnce
<1> QED BY <1>1, SessionInvariant, PTL

-----------------------------------------------------------------------------
(* The commands under way are one sequence.                                *)

LEMMA HandedOn ==
  ASSUME NEW S, NEW a \in Seq(S), NEW b \in Seq(S), b # <<>>
  PROVE  /\ Append(a, Head(b)) \in Seq(S) /\ Tail(b) \in Seq(S)
         /\ Append(a, Head(b)) \o Tail(b) = a \o b
<1>1. /\ Head(b) = b[1] /\ Head(b) \in S /\ Tail(b) \in Seq(S)
      /\ Len(b) \in Nat \ {0} /\ Len(Tail(b)) = Len(b) - 1 /\ Len(a) \in Nat
      /\ \A i \in 1..Len(Tail(b)) : Tail(b)[i] = b[i + 1]
  BY HeadTailProperties, EmptySeq, LenProperties
<1> DEFINE s == Append(a, Head(b))
<1>2. /\ s \in Seq(S) /\ Len(s) = Len(a) + 1
      /\ \A i \in 1..Len(a) : s[i] = a[i]
      /\ s[Len(a) + 1] = b[1]
  BY <1>1, AppendProperties
<1> HIDE DEF s
<1>3. /\ s \o Tail(b) \in Seq(S)
      /\ Len(s \o Tail(b)) = Len(s) + Len(Tail(b))
      /\ \A i \in 1..(Len(s) + Len(Tail(b))) :
           (s \o Tail(b))[i] = IF i <= Len(s) THEN s[i] ELSE Tail(b)[i - Len(s)]
  BY <1>1, <1>2, ConcatProperties
<1>4. /\ a \o b \in Seq(S)
      /\ Len(a \o b) = Len(a) + Len(b)
      /\ \A i \in 1..(Len(a) + Len(b)) :
           (a \o b)[i] = IF i <= Len(a) THEN a[i] ELSE b[i - Len(a)]
  BY ConcatProperties
<1>5. \A i \in 1..Len(s \o Tail(b)) : (s \o Tail(b))[i] = (a \o b)[i]
  <2> SUFFICES ASSUME NEW i \in 1..(Len(a) + Len(b))
               PROVE  (s \o Tail(b))[i] = (a \o b)[i]
    BY SMTT(30), <1>1, <1>2, <1>3
  <2>1. CASE i <= Len(a)
    BY <2>1, <1>1, <1>2, <1>3, <1>4
  <2>2. CASE i = Len(a) + 1
    BY <2>2, <1>1, <1>2, <1>3, <1>4
  <2>3. CASE i > Len(a) + 1
    BY <2>3, <1>1, <1>2, <1>3, <1>4
  <2>4. i \in Int /\ Len(a) \in Int
    BY <1>1
  <2>5. i <= Len(a) \/ i = Len(a) + 1 \/ i > Len(a) + 1
    BY <2>4
  <2>6. QED
    BY <2>1, <2>2, <2>3, <2>5
<1>6. s \o Tail(b) = a \o b
  BY <1>1, <1>2, <1>3, <1>4, <1>5, SeqEqual
<1>7. QED
  BY <1>1, <1>2, <1>6 DEF s

LEMMA TailOfConcat ==
  ASSUME NEW S, NEW a \in Seq(S), NEW b \in Seq(S), a # <<>>
  PROVE  /\ a \o b # <<>> /\ Head(a \o b) = Head(a)
         /\ Tail(a) \o b = Tail(a \o b)
<1>1. /\ Head(a) = a[1] /\ Tail(a) \in Seq(S)
      /\ Len(a) \in Nat \ {0} /\ Len(Tail(a)) = Len(a) - 1 /\ Len(b) \in Nat
      /\ \A i \in 1..Len(Tail(a)) : Tail(a)[i] = a[i + 1]
  BY HeadTailProperties, EmptySeq, LenProperties
<1>2. /\ a \o b \in Seq(S)
      /\ Len(a \o b) = Len(a) + Len(b)
      /\ \A i \in 1..(Len(a) + Len(b)) :
           (a \o b)[i] = IF i <= Len(a) THEN a[i] ELSE b[i - Len(a)]
  BY ConcatProperties
<1>3. a \o b # <<>> /\ Head(a \o b) = (a \o b)[1] /\ (a \o b)[1] = a[1]
  BY <1>1, <1>2, EmptySeq
<1>4. /\ Tail(a \o b) \in Seq(S) /\ Len(Tail(a \o b)) = Len(a) + Len(b) - 1
      /\ \A i \in 1..Len(Tail(a \o b)) : Tail(a \o b)[i] = (a \o b)[i + 1]
  BY <1>2, <1>3, HeadTailProperties
<1>5. /\ Tail(a) \o b \in Seq(S)
      /\ Len(Tail(a) \o b) = Len(Tail(a)) + Len(b)
      /\ \A i \in 1..(Len(Tail(a)) + Len(b)) :
           (Tail(a) \o b)[i] = IF i <= Len(Tail(a)) THEN Tail(a)[i]
                               ELSE b[i - Len(Tail(a))]
  BY <1>1, ConcatProperties
<1>6. \A i \in 1..Len(Tail(a) \o b) : (Tail(a) \o b)[i] = Tail(a \o b)[i]
  <2> SUFFICES ASSUME NEW i \in 1..(Len(a) + Len(b) - 1)
               PROVE  (Tail(a) \o b)[i] = Tail(a \o b)[i]
    BY <1>1, <1>5
  <2>1. i + 1 \in 1..(Len(a) + Len(b)) /\ Tail(a \o b)[i] = (a \o b)[i + 1]
    BY <1>1, <1>4
  <2>2. CASE i <= Len(Tail(a))
    BY <2>1, <2>2, <1>1, <1>2, <1>5
  <2>3. CASE i > Len(Tail(a))
    BY <1>1, <2>1, <2>3, <1>2, <1>5
  <2>4. QED
    BY <2>2, <2>3, <1>1
<1>7. QED
  BY <1>1, <1>3, <1>4, <1>5, <1>6, SeqEqual

LEMMA TwoInARow ==
  ASSUME NEW S, NEW a \in S, NEW b \in S
  PROVE  <<a>> \o <<b>> = <<a, b>>
<1>1. /\ <<a>> \in Seq(S) /\ Len(<<a>>) = 1 /\ <<a>>[1] = a
      /\ <<b>> \in Seq(S) /\ Len(<<b>>) = 1 /\ <<b>>[1] = b
      /\ <<a, b>> \in Seq(S) /\ Len(<<a, b>>) = 2
      /\ <<a, b>>[1] = a /\ <<a, b>>[2] = b
  OBVIOUS
<1> DEFINE s == <<a>>
           t == <<b>>
           u == <<a, b>>
<1> HIDE DEF s, t, u
<1>2. /\ s \o t \in Seq(S) /\ Len(s \o t) = Len(s) + Len(t)
      /\ \A i \in 1..(Len(s) + Len(t)) :
           (s \o t)[i] = IF i <= Len(s) THEN s[i] ELSE t[i - Len(s)]
  BY <1>1, ConcatProperties DEF s, t
<1>3. Len(s) = 1 /\ Len(t) = 1 /\ s[1] = a /\ t[1] = b
      /\ u \in Seq(S) /\ Len(u) = 2 /\ u[1] = a /\ u[2] = b
  BY <1>1 DEF s, t, u
<1>4. \A i \in 1..2 : (s \o t)[i] = u[i]
  BY <1>3, <1>2
<1>5. s \o t = u
  BY <1>2, <1>3, <1>4, SeqEqual
<1>6. QED
  BY <1>5 DEF s, t, u

Paths == {pending, sent, queue} \subseteq Seq(Windows!Command)

LEMMA UnderWayIs ==
  ASSUME Paths
  PROVE  /\ Windows!UnderWay \in Seq(Windows!Command) /\ queue \o sent \in Seq(Windows!Command)
         /\ Windows!UnderWay = queue \o (sent \o pending)
<1>1. queue \in Seq(Windows!Command) /\ sent \in Seq(Windows!Command) /\ pending \in Seq(Windows!Command)
  BY DEF Paths
<1>2. /\ queue \o sent \in Seq(Windows!Command)
      /\ (queue \o sent) \o pending \in Seq(Windows!Command)
  BY <1>1, ConcatProperties
<1>3. (queue \o sent) \o pending = queue \o (sent \o pending)
  BY <1>1, ConcatAssociative
<1>4. QED
  BY <1>2, <1>3 DEF Windows!UnderWay

LEMMA FlushMoves ==
  ASSUME Paths, Windows!Flush, queue' = queue
  PROVE  Paths' /\ Windows!UnderWay' = Windows!UnderWay
<1>1. queue \in Seq(Windows!Command) /\ sent \in Seq(Windows!Command) /\ pending \in Seq(Windows!Command)
  BY DEF Paths
<1>2. /\ queue' \in Seq(Windows!Command) /\ sent' \in Seq(Windows!Command)
      /\ pending' \in Seq(Windows!Command)
      /\ sent' \o pending' = sent \o pending
  BY <1>1, HandedOn DEF Windows!Flush
<1>3. Paths'
  BY <1>1, <1>2 DEF Paths
<1>4. Windows!UnderWay' = queue' \o (sent' \o pending')
  <2>1. queue \in Seq(Windows!Command) /\ sent' \in Seq(Windows!Command) /\ pending' \in Seq(Windows!Command)
    BY <1>1, <1>2
  <2>2. (queue \o sent') \o pending' = queue \o (sent' \o pending')
    BY ONLY <2>1, ConcatAssociative
  <2>3. QED
    BY <2>2 DEF Windows!UnderWay
<1>5. QED
  BY <1>2, <1>3, <1>4, UnderWayIs

LEMMA RouteMoves ==
  ASSUME Paths, Windows!Route
  PROVE  Paths' /\ Windows!UnderWay' = Windows!UnderWay
<1>1. queue \in Seq(Windows!Command) /\ sent \in Seq(Windows!Command) /\ pending \in Seq(Windows!Command)
  BY DEF Paths
<1>2. /\ queue' \in Seq(Windows!Command) /\ sent' \in Seq(Windows!Command)
      /\ queue' \o sent' = queue \o sent
  BY <1>1, HandedOn DEF Windows!Route
<1>3. QED
  BY <1>1, <1>2 DEF Paths, Windows!UnderWay, Windows!Route

(* What is executed is the first of them.                                  *)
LEMMA ExecuteTakes ==
  ASSUME Paths, NEW w \in Windows!Ids, NEW kind, Windows!Executes(kind, w)
  PROVE  /\ Paths' /\ Windows!UnderWay # <<>> /\ Windows!UnderWay' = Tail(Windows!UnderWay)
         /\ Windows!UnderWay[1] = Windows!About(w, kind)
<1>1. queue \in Seq(Windows!Command) /\ sent \in Seq(Windows!Command) /\ pending \in Seq(Windows!Command)
  BY DEF Paths
<1>2. /\ queue # <<>> /\ queue' = Tail(queue) /\ Head(queue) = Windows!About(w, kind)
      /\ sent' = sent /\ pending' = pending
  BY DEF Windows!Executes, Windows!Takes
<1>3. sent \o pending \in Seq(Windows!Command) /\ queue' \in Seq(Windows!Command)
  BY <1>1, <1>2, ConcatProperties, HeadTailProperties
<1>4. Paths'
  BY <1>1, <1>2, <1>3 DEF Paths
<1>5. /\ Windows!UnderWay # <<>> /\ Head(Windows!UnderWay) = Head(queue)
      /\ Tail(queue) \o (sent \o pending) = Tail(Windows!UnderWay)
  <2>1. /\ queue \o (sent \o pending) # <<>>
        /\ Head(queue \o (sent \o pending)) = Head(queue)
        /\ Tail(queue) \o (sent \o pending) = Tail(queue \o (sent \o pending))
    BY <1>1, <1>2, <1>3, TailOfConcat
  <2>2. QED
    BY <2>1, UnderWayIs
<1>6. Windows!UnderWay' = queue' \o (sent' \o pending')
  <2>1. (queue' \o sent') \o pending' = queue' \o (sent' \o pending')
    BY SMTT(30), <1>1, <1>2, <1>3, ConcatAssociative
  <2>2. QED
    BY <2>1 DEF Windows!UnderWay
<1>7. Windows!UnderWay[1] = Head(Windows!UnderWay)
  OBVIOUS
<1>8. QED
  BY <1>2, <1>4, <1>5, <1>6, <1>7

(* What is sent is the last.                                               *)
LEMMA SendAppends ==
  ASSUME Paths, NEW s \in Seq(Windows!Command), Windows!Sends(s), UNCHANGED <<sent, queue>>
  PROVE  Paths' /\ Windows!UnderWay' = Windows!UnderWay \o s
<1>1. queue \in Seq(Windows!Command) /\ sent \in Seq(Windows!Command) /\ pending \in Seq(Windows!Command)
  BY DEF Paths
<1>2. pending' = pending \o s /\ pending' \in Seq(Windows!Command)
  BY <1>1, ConcatProperties DEF Windows!Sends
<1>3. queue \o sent \in Seq(Windows!Command)
  BY UnderWayIs
<1>4. (queue \o sent) \o (pending \o s) = ((queue \o sent) \o pending) \o s
  BY SMTT(30), <1>1, <1>3, ConcatAssociative
<1>5. QED
  BY <1>1, <1>2, <1>4 DEF Paths, Windows!UnderWay

-----------------------------------------------------------------------------
(* What is still to happen to the stream of each window.                   *)

KnownIds  == DOMAIN viewports
WayPlaces == DOMAIN Windows!UnderWay

Starts(i, w) == Windows!UnderWay[i].kind = "start" /\ Windows!UnderWay[i].window = w
Stops(i, w)  == Windows!UnderWay[i].kind = "stop" /\ Windows!UnderWay[i].window = w

Waits(w)   == \E i \in WayPlaces : Starts(i, w)
Stopped(w) == \E i \in WayPlaces : Stops(i, w)
Told(w)    == Windows!LastWords(w, reports \o report)

(* Everything is about a window there was.                                 *)
Named ==
  /\ \A i \in WayPlaces : Windows!UnderWay[i].window \in KnownIds
  /\ \A w : Told(w) => w \in KnownIds

(* What is sent for a window comes after its start, of which there is one. *)
StartsFirst ==
  \A i, j \in WayPlaces, w \in KnownIds :
    Starts(i, w) /\ (Starts(j, w) \/ Stops(j, w)) => i <= j

(* A stream that has not started does not run and has not ended; one that  *)
(* ended does not run.                                                     *)
Fresh == \A w \in KnownIds : Waits(w) => w \notin running /\ ~Told(w)
Over  == \A w \in KnownIds : Told(w) => w \notin running

(* A window that is closed, or not live, has its stream stopped.           *)
ClosedStops ==
  \A w \in KnownIds : Waits(w) \/ w \in running => Windows!Live(w) \/ Stopped(w)

LiveRuns ==
  \A w \in KnownIds : Windows!Live(w) => Waits(w) \/ w \in running \/ Told(w)

(* The window w took the place of v on the screen.                         *)
Successor(v, w) ==
  v \in KnownIds /\ w \in KnownIds /\ v < w /\ viewports[v] = viewports[w]

TakesOver ==
  \A v, w \in KnownIds : Successor(v, w) =>
    /\ v \notin DOMAIN windows
    /\ w \in running => v \notin running /\ ~Waits(v)
    /\ \A i \in WayPlaces :
         Starts(i, w) /\ (v \in running \/ Waits(v)) =>
           \E j \in WayPlaces : j < i /\ Stops(j, v)

Given == KnownIds \subseteq Windows!Ids /\ \A v \in KnownIds : viewports[v] <= v

LogInv ==
  /\ Windows!TypeOK /\ Named /\ StartsFirst /\ Fresh /\ Over
  /\ ClosedStops /\ LiveRuns /\ TakesOver /\ Given

-----------------------------------------------------------------------------
(* What a step does to the commands under way.                             *)

PathInv == Paths /\ Named /\ StartsFirst

LEMMA PathOfInv == LogInv => PathInv
<1>1. Windows!TypeOK => Paths
  BY DEF Windows!TypeOK, Paths
<1>2. QED
  BY <1>1 DEF LogInv, PathInv

LEMMA PlacesAre ==
  ASSUME Paths
  PROVE  /\ WayPlaces = 1..Len(Windows!UnderWay) /\ Len(Windows!UnderWay) \in Nat
         /\ \A i \in WayPlaces : Windows!UnderWay[i] \in Windows!Command
         /\ \A i \in WayPlaces : Windows!UnderWay[i].kind \in {"start", "stop"}
         /\ \A v, w : \A i \in WayPlaces :
              /\ Starts(i, v) /\ Starts(i, w) => v = w
              /\ ~(Starts(i, v) /\ Stops(i, w))
<1>1. Windows!UnderWay \in Seq(Windows!Command)
  BY UnderWayIs
<1>2. WayPlaces = 1..Len(Windows!UnderWay) /\ Len(Windows!UnderWay) \in Nat
  BY <1>1, LenProperties DEF WayPlaces
<1>3. \A i \in WayPlaces : Windows!UnderWay[i] \in Windows!Command
  BY <1>1, <1>2
<1>4. \A i \in WayPlaces : Windows!UnderWay[i].kind \in {"start", "stop"}
  BY <1>3 DEF Windows!Command
<1>5. QED
  BY <1>2, <1>3, <1>4 DEF Starts, Stops

(* The window named by an element of Seq(Command) is all of it but the     *)
(* kind: the properties of LogWindows in the terms of this module.         *)
LEMMA CommandsAre ==
  ASSUME Paths
  PROVE  /\ \A w : \A i \in WayPlaces : /\ Windows!UnderWay[i] = Windows!Start(w) <=> Starts(i, w)
                                        /\ Windows!UnderWay[i] = Windows!Stop(w) <=> Stops(i, w)
         /\ \A w : Windows!ToCome(w) <=> Waits(w)
         /\ \A w : Windows!StopUnderWay(w) <=> Stopped(w)
<1>1. \A w : \A c \in Windows!Command : /\ c = Windows!Start(w) <=> c.kind = "start" /\ c.window = w
                                        /\ c = Windows!Stop(w) <=> c.kind = "stop" /\ c.window = w
  BY DEF Windows!Command, Windows!Start, Windows!Stop
<1>2. \A w : \A i \in WayPlaces : /\ Windows!UnderWay[i] = Windows!Start(w) <=> Starts(i, w)
                                  /\ Windows!UnderWay[i] = Windows!Stop(w) <=> Stops(i, w)
  BY <1>1, PlacesAre DEF Starts, Stops
<1>3. \A w : Windows!ToCome(w) <=> Waits(w)
  BY <1>2 DEF Windows!ToCome, Waits, WayPlaces
<1>4. \A w : Windows!StopUnderWay(w) <=> Stopped(w)
  BY <1>2 DEF Windows!StopUnderWay, Stopped, WayPlaces
<1>5. QED
  BY <1>2, <1>3, <1>4

(* Commands that are sent come last.                                       *)
LEMMA Grown ==
  ASSUME Paths, NEW s \in Seq(Windows!Command), Windows!UnderWay' = Windows!UnderWay \o s
  PROVE  /\ WayPlaces \subseteq WayPlaces' /\ WayPlaces' \subseteq Int
         /\ \A i \in WayPlaces : Windows!UnderWay'[i] = Windows!UnderWay[i]
         /\ \A w : \A i \in WayPlaces : /\ Starts(i, w)' <=> Starts(i, w)
                                        /\ Stops(i, w)' <=> Stops(i, w)
         /\ \A i \in WayPlaces' \ WayPlaces :
              /\ \A j \in WayPlaces : j < i
              /\ i - Len(Windows!UnderWay) \in DOMAIN s
              /\ Windows!UnderWay'[i] = s[i - Len(Windows!UnderWay)]
         /\ \A k \in DOMAIN s : /\ Len(Windows!UnderWay) + k \in WayPlaces' \ WayPlaces
                                /\ Windows!UnderWay'[Len(Windows!UnderWay) + k] = s[k]
<1>1. /\ Windows!UnderWay \in Seq(Windows!Command) /\ Len(Windows!UnderWay) \in Nat
      /\ WayPlaces = 1..Len(Windows!UnderWay) /\ Len(s) \in Nat /\ DOMAIN s = 1..Len(s)
  BY UnderWayIs, PlacesAre, LenProperties
<1>2. /\ Windows!UnderWay' \in Seq(Windows!Command)
      /\ Len(Windows!UnderWay') = Len(Windows!UnderWay) + Len(s)
      /\ \A i \in 1..(Len(Windows!UnderWay) + Len(s)) :
           Windows!UnderWay'[i] = IF i <= Len(Windows!UnderWay) THEN Windows!UnderWay[i]
                          ELSE s[i - Len(Windows!UnderWay)]
  BY <1>1, ConcatProperties
<1>3. WayPlaces' = 1..(Len(Windows!UnderWay) + Len(s))
  BY <1>1, <1>2, LenProperties DEF WayPlaces
<1>4. \A i \in WayPlaces : i \in WayPlaces' /\ Windows!UnderWay'[i] = Windows!UnderWay[i]
  BY <1>1, <1>2, <1>3
<1>5. \A w : \A i \in WayPlaces : /\ Starts(i, w)' <=> Starts(i, w)
                                  /\ Stops(i, w)' <=> Stops(i, w)
  BY <1>4 DEF Starts, Stops
<1>6. \A i \in WayPlaces' \ WayPlaces :
        /\ \A j \in WayPlaces : j < i
        /\ i - Len(Windows!UnderWay) \in DOMAIN s
        /\ Windows!UnderWay'[i] = s[i - Len(Windows!UnderWay)]
  BY <1>1, <1>2, <1>3
<1>7. \A k \in DOMAIN s : /\ Len(Windows!UnderWay) + k \in WayPlaces' \ WayPlaces
                          /\ Windows!UnderWay'[Len(Windows!UnderWay) + k] = s[k]
  <2> SUFFICES ASSUME NEW k \in 1..Len(s)
               PROVE  /\ Len(Windows!UnderWay) + k \in WayPlaces' \ WayPlaces
                      /\ Windows!UnderWay'[Len(Windows!UnderWay) + k] = s[k]
    BY <1>1
  <2>1. Len(Windows!UnderWay) + k \in WayPlaces' \ WayPlaces /\ ~(Len(Windows!UnderWay) + k <= Len(Windows!UnderWay))
    BY <1>1, <1>3
  <2>2. (Len(Windows!UnderWay) + k) - Len(Windows!UnderWay) = k
    BY <1>1
  <2>3. QED
    BY <2>1, <2>2, <1>2, <1>3
<1>8. QED
  BY <1>3, <1>4, <1>5, <1>6, <1>7

(* One stop is sent.                                                       *)
LEMMA StopSent ==
  ASSUME PathInv, NEW x \in KnownIds \cap Windows!Ids, viewports' = viewports,
         Windows!Sends(<<Windows!Stop(x)>>), UNCHANGED <<sent, queue>>
  PROVE  /\ Paths' /\ StartsFirst'
         /\ WayPlaces \subseteq WayPlaces'
         /\ \A w : \A i \in WayPlaces : /\ Starts(i, w)' <=> Starts(i, w)
                                        /\ Stops(i, w)' <=> Stops(i, w)
         /\ \A w : \A i \in WayPlaces' \ WayPlaces : ~Starts(i, w)'
         /\ \A w : Waits(w)' <=> Waits(w)
         /\ \A w : Stopped(w)' <=> Stopped(w) \/ w = x
         /\ \A i \in WayPlaces' : Windows!UnderWay'[i].window \in KnownIds
<1>1. Windows!Stop(x) \in Windows!Command /\ Windows!Stop(x).kind = "stop" /\ Windows!Stop(x).window = x
  BY DEF Windows!Stop, Windows!Command
<1> DEFINE s == <<Windows!Stop(x)>>
<1>2. s \in Seq(Windows!Command) /\ DOMAIN s = {1} /\ s[1] = Windows!Stop(x)
  BY <1>1
<1>3. Paths' /\ Windows!UnderWay' = Windows!UnderWay \o s
  BY <1>2, SendAppends DEF PathInv
<1> HIDE DEF s
<1>4. /\ WayPlaces \subseteq WayPlaces' /\ WayPlaces' \subseteq Int
      /\ \A i \in WayPlaces : Windows!UnderWay'[i] = Windows!UnderWay[i]
      /\ \A w : \A i \in WayPlaces : /\ Starts(i, w)' <=> Starts(i, w)
                                     /\ Stops(i, w)' <=> Stops(i, w)
      /\ \A i \in WayPlaces' \ WayPlaces :
           (\A j \in WayPlaces : j < i) /\ Windows!UnderWay'[i] = Windows!Stop(x)
      /\ \E i \in WayPlaces' \ WayPlaces : Windows!UnderWay'[i] = Windows!Stop(x)
  <2>1. /\ WayPlaces \subseteq WayPlaces' /\ WayPlaces' \subseteq Int
        /\ \A i \in WayPlaces : Windows!UnderWay'[i] = Windows!UnderWay[i]
        /\ \A w : \A i \in WayPlaces : /\ Starts(i, w)' <=> Starts(i, w)
                                       /\ Stops(i, w)' <=> Stops(i, w)
        /\ \A i \in WayPlaces' \ WayPlaces :
             /\ \A j \in WayPlaces : j < i
             /\ i - Len(Windows!UnderWay) \in DOMAIN s
             /\ Windows!UnderWay'[i] = s[i - Len(Windows!UnderWay)]
        /\ \A k \in DOMAIN s : /\ Len(Windows!UnderWay) + k \in WayPlaces' \ WayPlaces
                               /\ Windows!UnderWay'[Len(Windows!UnderWay) + k] = s[k]
    BY <1>2, <1>3, Grown DEF PathInv
  <2>2. \A i \in WayPlaces' \ WayPlaces : Windows!UnderWay'[i] = Windows!Stop(x)
    BY <2>1, <1>2
  <2>3. \E i \in WayPlaces' \ WayPlaces : Windows!UnderWay'[i] = Windows!Stop(x)
    BY <2>1, <1>2
  <2>4. QED
    BY <2>1, <2>2, <2>3
<1>5. \A w : \A i \in WayPlaces' \ WayPlaces :
        ~Starts(i, w)' /\ (Stops(i, w)' <=> w = x)
  BY <1>1, <1>4 DEF Starts, Stops
<1>6. \A w : Waits(w)' <=> Waits(w)
  BY <1>4, <1>5 DEF Waits
<1>7. \A w : Stopped(w)' <=> Stopped(w) \/ w = x
  BY <1>4, <1>5 DEF Stopped
<1>8. StartsFirst'
  <2> SUFFICES ASSUME NEW i \in WayPlaces', NEW j \in WayPlaces', NEW w \in KnownIds,
                      Starts(i, w)', (Starts(j, w) \/ Stops(j, w))'
               PROVE  i <= j
    BY DEF StartsFirst, KnownIds
  <2>1. i \in WayPlaces
    BY <1>5
  <2>2. CASE j \in WayPlaces
    BY <2>1, <2>2, <1>4 DEF PathInv, StartsFirst
  <2>3. CASE j \notin WayPlaces
    <3>1. i < j
      BY <2>1, <2>3, <1>4
    <3>2. i \in Int /\ j \in Int
      BY <1>4
    <3>3. QED
      BY <3>1, <3>2
  <2>4. QED
    BY <2>2, <2>3
<1>9. \A i \in WayPlaces' : Windows!UnderWay'[i].window \in KnownIds
  BY <1>1, <1>4 DEF PathInv, Named
<1>10. QED
  BY <1>3, <1>4, <1>5, <1>6, <1>7, <1>8, <1>9

(* A start is sent for a window that did not exist, alone or behind a stop.*)
LEMMA StartSent ==
  ASSUME PathInv, NEW n \in Windows!Ids \ KnownIds, KnownIds' = KnownIds \cup {n},
         NEW stops \in {<<>>} \cup {<<Windows!Stop(x)>> : x \in KnownIds \cap Windows!Ids},
         Windows!Sends(stops \o <<Windows!Start(n)>>), UNCHANGED <<sent, queue>>
  PROVE  /\ Paths' /\ StartsFirst'
         /\ WayPlaces \subseteq WayPlaces'
         /\ \A w : \A i \in WayPlaces : /\ Starts(i, w)' <=> Starts(i, w)
                                        /\ Stops(i, w)' <=> Stops(i, w)
         /\ \A w : Waits(w)' <=> Waits(w) \/ w = n
         /\ \A w : Stopped(w)' <=> Stopped(w) \/ stops = <<Windows!Stop(w)>>
         /\ \A w : \A i \in WayPlaces' \ WayPlaces : Starts(i, w)' =>
              /\ w = n
              /\ \A v : Stopped(v)' => \E j \in WayPlaces' : j < i /\ Stops(j, v)'
         /\ \A i \in WayPlaces' : Windows!UnderWay'[i].window \in KnownIds'
<1>1. Windows!Start(n) \in Windows!Command /\ Windows!Start(n).kind = "start" /\ Windows!Start(n).window = n
  BY DEF Windows!Start, Windows!Command
<1>2. \A x \in KnownIds \cap Windows!Ids :
        Windows!Stop(x) \in Windows!Command /\ Windows!Stop(x).kind = "stop" /\ Windows!Stop(x).window = x
  BY DEF Windows!Stop, Windows!Command
<1> DEFINE s == stops \o <<Windows!Start(n)>>
<1>3. /\ s \in Seq(Windows!Command)
      /\ \/ stops = <<>> /\ DOMAIN s = {1} /\ s[1] = Windows!Start(n)
         \/ \E x \in KnownIds \cap Windows!Ids :
              /\ stops = <<Windows!Stop(x)>> /\ DOMAIN s = {1, 2}
              /\ s[1] = Windows!Stop(x) /\ s[2] = Windows!Start(n)
  <2>1. CASE stops = <<>>
    BY <2>1, <1>1
  <2>2. ASSUME NEW x \in KnownIds \cap Windows!Ids, stops = <<Windows!Stop(x)>>
        PROVE  /\ s \in Seq(Windows!Command)
               /\ stops = <<Windows!Stop(x)>> /\ DOMAIN s = {1, 2}
               /\ s[1] = Windows!Stop(x) /\ s[2] = Windows!Start(n)
    BY <2>2, <1>1, <1>2, TwoInARow
  <2>3. QED
    BY <2>1, <2>2
<1>4. Paths' /\ Windows!UnderWay' = Windows!UnderWay \o s
  BY <1>3, SendAppends DEF PathInv
<1> HIDE DEF s
<1>5. /\ WayPlaces \subseteq WayPlaces' /\ WayPlaces' \subseteq Int
      /\ \A i \in WayPlaces : Windows!UnderWay'[i] = Windows!UnderWay[i]
      /\ \A w : \A i \in WayPlaces : /\ Starts(i, w)' <=> Starts(i, w)
                                     /\ Stops(i, w)' <=> Stops(i, w)
      /\ \A i \in WayPlaces' \ WayPlaces :
           /\ \A j \in WayPlaces : j < i
           /\ i - Len(Windows!UnderWay) \in DOMAIN s
           /\ Windows!UnderWay'[i] = s[i - Len(Windows!UnderWay)]
      /\ \A k \in DOMAIN s : /\ Len(Windows!UnderWay) + k \in WayPlaces' \ WayPlaces
                             /\ Windows!UnderWay'[Len(Windows!UnderWay) + k] = s[k]
  BY <1>3, <1>4, Grown DEF PathInv
<1>6. Len(Windows!UnderWay) \in Nat
  BY PlacesAre DEF PathInv
(* The place of the start, which is the last.                              *)
<1>7. PICK p \in WayPlaces' \ WayPlaces :
        /\ Windows!UnderWay'[p] = Windows!Start(n)
        /\ \A i \in WayPlaces' : i # p => i < p /\ (i \notin WayPlaces =>
                \E x \in KnownIds \cap Windows!Ids :
                  stops = <<Windows!Stop(x)>> /\ Windows!UnderWay'[i] = Windows!Stop(x))
        /\ \A x \in KnownIds \cap Windows!Ids : stops = <<Windows!Stop(x)>> =>
             \E i \in WayPlaces' \ WayPlaces : Windows!UnderWay'[i] = Windows!Stop(x)
  <2>1. CASE stops = <<>> /\ DOMAIN s = {1} /\ s[1] = Windows!Start(n)
    BY <2>1, <1>5, <1>6
  <2>2. ASSUME NEW x \in KnownIds \cap Windows!Ids,
               stops = <<Windows!Stop(x)>> /\ DOMAIN s = {1, 2}
               /\ s[1] = Windows!Stop(x) /\ s[2] = Windows!Start(n)
        PROVE  \E p \in WayPlaces' \ WayPlaces :
                 /\ Windows!UnderWay'[p] = Windows!Start(n)
                 /\ \A i \in WayPlaces' : i # p => i < p /\ (i \notin WayPlaces =>
                         \E y \in KnownIds \cap Windows!Ids :
                           stops = <<Windows!Stop(y)>> /\ Windows!UnderWay'[i] = Windows!Stop(y))
                 /\ \A y \in KnownIds \cap Windows!Ids : stops = <<Windows!Stop(y)>> =>
                      \E i \in WayPlaces' \ WayPlaces : Windows!UnderWay'[i] = Windows!Stop(y)
    <3> DEFINE q == Len(Windows!UnderWay) + 1
               p == Len(Windows!UnderWay) + 2
    <3>1. /\ p \in WayPlaces' \ WayPlaces /\ Windows!UnderWay'[p] = Windows!Start(n)
          /\ q \in WayPlaces' \ WayPlaces /\ Windows!UnderWay'[q] = Windows!Stop(x)
      BY <2>2, <1>5
    <3>2. q \in Int /\ p \in Int /\ q < p
      BY <1>6
    <3>3. \A i \in WayPlaces' : i # p => i \in WayPlaces \/ i = q
      BY <2>2, <1>5, <1>6
    <3>4. \A i \in WayPlaces : i < p
      BY <3>1, <1>5
    <3>5. \A y \in KnownIds \cap Windows!Ids : stops = <<Windows!Stop(y)>> => y = x
      BY <2>2, <1>2
    <3> HIDE DEF p, q
    <3>6. \A i \in WayPlaces' : i # p => i < p /\ (i \notin WayPlaces =>
            stops = <<Windows!Stop(x)>> /\ Windows!UnderWay'[i] = Windows!Stop(x))
      BY <3>1, <3>2, <3>3, <3>4, <2>2
    <3>7. QED
      BY <3>1, <3>5, <3>6
  <2>3. QED
    BY <2>1, <2>2, <1>3
<1>8. \A w : \A i \in WayPlaces' \ WayPlaces : Starts(i, w)' <=> i = p /\ w = n
  BY <1>1, <1>2, <1>7 DEF Starts
<1>9. \A w : Waits(w)' <=> Waits(w) \/ w = n
  BY <1>5, <1>7, <1>8 DEF Waits
<1>10. \A w : \A i \in WayPlaces' : i \notin WayPlaces /\ Stops(i, w)' => stops = <<Windows!Stop(w)>>
  BY <1>1, <1>2, <1>7 DEF Stops
<1>11. \A w : stops = <<Windows!Stop(w)>> => Stopped(w)'
  <2> SUFFICES ASSUME NEW w, stops = <<Windows!Stop(w)>>
               PROVE  Stopped(w)'
    OBVIOUS
  <2>1. PICK x \in KnownIds \cap Windows!Ids : stops = <<Windows!Stop(x)>>
    OBVIOUS
  <2>2. Windows!Stop(w) = Windows!Stop(x)
    BY <2>1
  <2>3. w = x
    BY <2>2 DEF Windows!Stop
  <2>4. PICK i \in WayPlaces' \ WayPlaces : Windows!UnderWay'[i] = Windows!Stop(x)
    BY <2>1, <1>7
  <2>5. Stops(i, w)'
    BY <2>3, <2>4, <1>2 DEF Stops
  <2>6. QED
    BY <2>5 DEF Stopped
<1>12. \A w : Stopped(w)' <=> Stopped(w) \/ stops = <<Windows!Stop(w)>>
  BY <1>5, <1>10, <1>11 DEF Stopped
<1>13. \A v : Stopped(v)' => \E j \in WayPlaces' : j < p /\ Stops(j, v)'
  BY <1>1, <1>7 DEF Stops, Stopped
<1>14. StartsFirst'
  <2> SUFFICES ASSUME NEW i \in WayPlaces', NEW j \in WayPlaces', NEW w \in KnownIds',
                      Starts(i, w)', (Starts(j, w) \/ Stops(j, w))'
               PROVE  i <= j
    BY DEF StartsFirst
  <2>1. i \in Int /\ j \in Int /\ p \in Int
    BY <1>5
  <2>2. CASE i = p
    <3>1. w = n
      BY <2>2, <1>7, <1>8
    <3>2. j \notin WayPlaces
      <4>1. ASSUME j \in WayPlaces PROVE Windows!UnderWay'[j].window \in KnownIds
        BY <4>1, <1>5 DEF PathInv, Named
      <4>2. Windows!UnderWay'[j].window = n
        BY <3>1 DEF Starts, Stops
      <4>3. QED
        BY <4>1, <4>2
    <3>3. j = p
      <4>1. ASSUME NEW x \in KnownIds \cap Windows!Ids, Windows!UnderWay'[j] = Windows!Stop(x) PROVE FALSE
        BY <3>1, <4>1, <1>2 DEF Starts, Stops
      <4>2. QED
        BY <4>1, <3>2, <1>7
    <3>4. QED
      BY <2>1, <2>2, <3>3
  <2>3. CASE i \in WayPlaces
    <3>1. CASE j \in WayPlaces
      BY <2>3, <3>1, <1>5 DEF PathInv, Named, Starts, StartsFirst
    <3>2. CASE j \notin WayPlaces
      BY <2>1, <2>3, <3>2, <1>5
    <3>3. QED
      BY <3>1, <3>2
  <2>4. QED
    BY <2>2, <2>3, <1>8
<1>15. \A i \in WayPlaces' : Windows!UnderWay'[i].window \in KnownIds'
  BY <1>1, <1>2, <1>5, <1>7 DEF PathInv, Named
<1>16. QED
  BY <1>4, <1>5, <1>8, <1>9, <1>12, <1>13, <1>14, <1>15

(* The first is executed.                                                  *)
LEMMA Taken ==
  ASSUME PathInv, NEW w \in Windows!Ids, NEW kind, Windows!Executes(kind, w)
  PROVE  /\ Paths' /\ StartsFirst' /\ w \in KnownIds /\ KnownIds' = KnownIds
         /\ 1 \in WayPlaces /\ Windows!UnderWay[1] = Windows!About(w, kind)
         /\ \A i \in WayPlaces : i = 1 \/ (i > 1 /\ i - 1 \in WayPlaces')
         /\ \A v : \A i \in WayPlaces' : /\ i + 1 \in WayPlaces
                                         /\ Starts(i, v)' <=> Starts(i + 1, v)
                                         /\ Stops(i, v)' <=> Stops(i + 1, v)
         /\ kind = "start" => /\ \A v \in KnownIds : Waits(v)' <=> Waits(v) /\ v # w
                              /\ \A v : Stopped(v)' <=> Stopped(v)
                              /\ Waits(w) /\ Starts(1, w)
         /\ kind = "stop" => /\ \A v : Waits(v)' <=> Waits(v)
                             /\ \A v : Stopped(v) => Stopped(v)' \/ v = w
                             /\ ~Waits(w) /\ Stops(1, w)
         /\ \A i \in WayPlaces' : Windows!UnderWay'[i].window \in KnownIds
<1>1. /\ Paths' /\ Windows!UnderWay # <<>> /\ Windows!UnderWay' = Tail(Windows!UnderWay)
      /\ Windows!UnderWay[1] = Windows!About(w, kind) /\ viewports' = viewports
  BY ExecuteTakes DEF PathInv, Windows!Executes
<1>2. /\ Windows!UnderWay \in Seq(Windows!Command) /\ Len(Windows!UnderWay) \in Nat \ {0}
      /\ WayPlaces = 1..Len(Windows!UnderWay)
  BY <1>1, UnderWayIs, PlacesAre, EmptySeq DEF PathInv
<1>3. /\ Windows!UnderWay' \in Seq(Windows!Command) /\ Len(Windows!UnderWay') = Len(Windows!UnderWay) - 1
      /\ \A i \in 1..Len(Windows!UnderWay') : Windows!UnderWay'[i] = Windows!UnderWay[i + 1]
  BY <1>1, <1>2, HeadTailProperties
<1>4. WayPlaces' = 1..(Len(Windows!UnderWay) - 1)
  BY <1>3, LenProperties DEF WayPlaces
<1>5. /\ 1 \in WayPlaces
      /\ \A i \in WayPlaces : i = 1 \/ (i > 1 /\ i - 1 \in WayPlaces')
      /\ \A i \in WayPlaces' : i \in Int /\ i + 1 \in WayPlaces /\ (i + 1) - 1 = i
                           /\ i + 1 > 1 /\ Windows!UnderWay'[i] = Windows!UnderWay[i + 1]
  BY <1>2, <1>3, <1>4
<1>6. \A v : \A i \in WayPlaces' : /\ Starts(i, v)' <=> Starts(i + 1, v)
                                   /\ Stops(i, v)' <=> Stops(i + 1, v)
  BY <1>5 DEF Starts, Stops
<1>7. Windows!UnderWay[1].window = w /\ Windows!UnderWay[1].kind = kind /\ w \in KnownIds
  BY <1>1, <1>5 DEF Windows!About, PathInv, Named
<1>8. \A i \in WayPlaces : i \in Int
  BY <1>2
<1>9. \A v : /\ Waits(v) <=> Waits(v)' \/ Starts(1, v)
             /\ Stopped(v) <=> Stopped(v)' \/ Stops(1, v)
  <2> SUFFICES ASSUME NEW v
               PROVE  /\ Waits(v) <=> Waits(v)' \/ Starts(1, v)
                      /\ Stopped(v) <=> Stopped(v)' \/ Stops(1, v)
    OBVIOUS
  <2>1. \A i \in WayPlaces : i = 1 \/ \E j \in WayPlaces' : j + 1 = i
    BY <1>5, <1>8
  <2>2. Waits(v) <=> Waits(v)' \/ Starts(1, v)
    BY <2>1, <1>5, <1>6 DEF Waits
  <2>3. Stopped(v) <=> Stopped(v)' \/ Stops(1, v)
    BY <2>1, <1>5, <1>6 DEF Stopped
  <2>4. QED
    BY <2>2, <2>3
<1>10. \A v : /\ Starts(1, v) <=> kind = "start" /\ v = w
              /\ Stops(1, v) <=> kind = "stop" /\ v = w
  BY <1>7 DEF Starts, Stops
<1>11. ~Waits(w)'
  <2> SUFFICES ASSUME NEW i \in WayPlaces', Starts(i, w)'
               PROVE  FALSE
    BY DEF Waits
  <2>1. Starts(i + 1, w) /\ i + 1 \in WayPlaces /\ i + 1 > 1
    BY <1>5, <1>6
  <2>2. Starts(1, w) \/ Stops(1, w)
    BY <1>5, <1>7, PlacesAre DEF PathInv, Starts, Stops
  <2>3. i + 1 <= 1
    BY <2>1, <2>2, <1>5, <1>7 DEF PathInv, StartsFirst
  <2>4. QED
    BY <2>1, <2>3, <1>5
<1>12. StartsFirst'
  <2> SUFFICES ASSUME NEW i \in WayPlaces', NEW j \in WayPlaces', NEW v \in KnownIds,
                      Starts(i, v)', (Starts(j, v) \/ Stops(j, v))'
               PROVE  i <= j
    BY <1>1 DEF StartsFirst, KnownIds
  <2>1. /\ i + 1 \in WayPlaces /\ j + 1 \in WayPlaces
        /\ Starts(i + 1, v) /\ (Starts(j + 1, v) \/ Stops(j + 1, v))
    BY <1>5, <1>6
  <2>2. i + 1 <= j + 1
    BY <2>1 DEF PathInv, StartsFirst
  <2>3. QED
    BY <2>2, <1>5
<1>13. \A i \in WayPlaces' : Windows!UnderWay'[i].window \in KnownIds
  BY <1>5 DEF PathInv, Named
<1>14. kind = "start" => /\ \A v \in KnownIds : Waits(v)' <=> Waits(v) /\ v # w
                         /\ \A v : Stopped(v)' <=> Stopped(v)
                         /\ Waits(w) /\ Starts(1, w)
  BY <1>9, <1>10, <1>11
<1>15. kind = "stop" => /\ \A v : Waits(v)' <=> Waits(v)
                        /\ \A v : Stopped(v) => Stopped(v)' \/ v = w
                        /\ ~Waits(w) /\ Stops(1, w)
  BY <1>9, <1>10, <1>11
<1>16. KnownIds' = KnownIds
  BY <1>1 DEF KnownIds
<1>17. QED
  BY <1>1, <1>5, <1>6, <1>7, <1>12, <1>13, <1>14, <1>15, <1>16

-----------------------------------------------------------------------------
(* What a step does to the results under way.                              *)

Words == reports \o report
LastKinds == {"ended", "failed"}

WordsTyped == reports \in Seq(Windows!Result) /\ report \in {<<>>} \cup {<<r>> : r \in Windows!Result}

LEMMA WordsAre ==
  ASSUME WordsTyped
  PROVE  /\ report \in Seq(Windows!Result) /\ Words \in Seq(Windows!Result)
         /\ DOMAIN Words = 1..Len(Words) /\ Len(Words) \in Nat
         /\ \A i \in DOMAIN Words : Words[i] \in Windows!Result
         /\ \A w : Told(w) <=> \E i \in DOMAIN Words :
                                 Words[i].window = w /\ Words[i].kind \in LastKinds
<1>1. report \in Seq(Windows!Result)
  <2>1. report = <<>> \/ \E r \in Windows!Result : report = <<r>>
    BY DEF WordsTyped
  <2>2. ASSUME NEW r \in Windows!Result, report = <<r>>
        PROVE  report \in Seq(Windows!Result)
    BY <2>2
  <2>3. report = <<>> => report \in Seq(Windows!Result)
    OBVIOUS
  <2>4. QED
    BY <2>1, <2>2, <2>3
<1>2. Words \in Seq(Windows!Result)
  BY <1>1, ConcatProperties DEF WordsTyped, Words
<1>3. \A w : Told(w) <=> \E i \in DOMAIN Words :
               Words[i].window = w /\ Words[i].kind \in LastKinds
  BY DEF Told, Windows!LastWords, Words, LastKinds
<1>4. QED
  BY <1>1, <1>2, <1>3, LenProperties, ElementOfSeq

(* The first result is applied.                                            *)
LEMMA WordTaken ==
  ASSUME WordsTyped, NEW kind, Windows!Received(kind)
  PROVE  /\ WordsTyped' /\ Head(reports) \in Windows!Result /\ Head(reports).kind = kind
         /\ kind \in LastKinds => Told(Head(reports).window)
         /\ \A w : Told(w)' => Told(w)
         /\ \A w : Told(w) => Told(w)' \/ (w = Head(reports).window /\ kind \in LastKinds)
<1>1. /\ reports \in Seq(Windows!Result) /\ report \in Seq(Windows!Result) /\ reports # <<>>
      /\ reports' = Tail(reports) /\ report' = report /\ Head(reports).kind = kind
  BY WordsAre DEF WordsTyped, Windows!Received, Windows!worker
<1>2. Head(reports) \in Windows!Result /\ reports' \in Seq(Windows!Result)
  BY <1>1, HeadTailProperties
<1>3. WordsTyped'
  BY <1>1, <1>2 DEF WordsTyped
<1>4. /\ Words # <<>> /\ Head(Words) = Head(reports)
      /\ Tail(reports) \o report = Tail(Words)
  BY <1>1, TailOfConcat DEF Words
<1>5. Words' = Tail(Words)
  BY <1>1, <1>4 DEF Words
<1>6. /\ Words \in Seq(Windows!Result) /\ Len(Words) \in Nat \ {0}
      /\ DOMAIN Words = 1..Len(Words)
  BY <1>4, WordsAre, EmptySeq
<1>7. /\ Words' \in Seq(Windows!Result) /\ Len(Words') = Len(Words) - 1
      /\ \A i \in 1..Len(Words') : Words'[i] = Words[i + 1]
  BY <1>5, <1>6, <1>4, HeadTailProperties
<1>8. DOMAIN Words' = 1..(Len(Words) - 1) /\ Words[1] = Head(reports)
  BY <1>4, <1>7, LenProperties
<1>9. /\ \A i \in DOMAIN Words' : i + 1 \in DOMAIN Words /\ Words'[i] = Words[i + 1]
      /\ \A i \in DOMAIN Words : i = 1 \/ \E j \in DOMAIN Words' : i = j + 1
      /\ 1 \in DOMAIN Words
  <2>1. \A i \in DOMAIN Words : i = 1 \/ (i - 1 \in DOMAIN Words' /\ i = (i - 1) + 1)
    BY <1>6, <1>8
  <2>2. QED
    BY <2>1, <1>6, <1>7, <1>8
<1>10. \A w : Told(w)' <=> \E i \in DOMAIN Words' :
                Words'[i].window = w /\ Words'[i].kind \in LastKinds
  BY DEF Told, Windows!LastWords, Words, LastKinds
<1>11. \A w : Told(w)' => Told(w)
  BY <1>9, <1>10, WordsAre
<1>12. \A w : Told(w) => Told(w)' \/ (w = Head(reports).window /\ kind \in LastKinds)
  BY SMTT(30), <1>1, <1>8, <1>9, <1>10, WordsAre
<1>13. kind \in LastKinds => Told(Head(reports).window)
  BY <1>1, <1>8, <1>9, WordsAre
<1>14. QED
  BY <1>1, <1>2, <1>3, <1>11, <1>12, <1>13

LEMMA InEither ==
  ASSUME NEW s \in Seq(Windows!Result), NEW t \in Seq(Windows!Result), NEW w
  PROVE  Windows!LastWords(w, s \o t) <=>
           \/ \E i \in DOMAIN s : s[i].window = w /\ s[i].kind \in LastKinds
           \/ \E i \in DOMAIN t : t[i].window = w /\ t[i].kind \in LastKinds
<1> DEFINE u == s \o t
<1>1. /\ DOMAIN s = 1..Len(s) /\ Len(s) \in Nat
      /\ DOMAIN t = 1..Len(t) /\ Len(t) \in Nat
      /\ u \in Seq(Windows!Result) /\ Len(u) = Len(s) + Len(t)
      /\ \A i \in 1..(Len(s) + Len(t)) :
           u[i] = IF i <= Len(s) THEN s[i] ELSE t[i - Len(s)]
  BY ConcatProperties, LenProperties
<1>2. DOMAIN u = 1..(Len(s) + Len(t))
  BY <1>1, LenProperties
<1>3. Windows!LastWords(w, u) <=> \E i \in DOMAIN u : u[i].window = w /\ u[i].kind \in LastKinds
  BY DEF Windows!LastWords, LastKinds
<1> HIDE DEF u
<1>4. \A i \in DOMAIN s : i \in DOMAIN u /\ u[i] = s[i]
  BY <1>1, <1>2
<1>5. \A i \in DOMAIN t : Len(s) + i \in DOMAIN u /\ u[Len(s) + i] = t[i]
  <2> SUFFICES ASSUME NEW i \in 1..Len(t)
               PROVE  Len(s) + i \in DOMAIN u /\ u[Len(s) + i] = t[i]
    BY <1>1
  <2>1. Len(s) + i \in DOMAIN u /\ ~(Len(s) + i <= Len(s)) /\ (Len(s) + i) - Len(s) = i
    BY <1>1, <1>2
  <2>2. QED
    BY <2>1, <1>1, <1>2
<1>6. \A i \in DOMAIN u : (i \in DOMAIN s /\ u[i] = s[i])
                          \/ (i - Len(s) \in DOMAIN t /\ u[i] = t[i - Len(s)])
  BY <1>1, <1>2
<1>7. QED
  BY <1>3, <1>4, <1>5, <1>6 DEF u

(* A result is added: by the command executed, or by a stream.             *)
LEMMA WordAdded ==
  ASSUME WordsTyped, NEW r \in Windows!Result,
         \/ report = <<>> /\ report' = <<r>> /\ reports' = reports
         \/ report' = report /\ reports' = Append(reports, r)
  PROVE  /\ WordsTyped'
         /\ \A w : Told(w)' <=> Told(w) \/ (w = r.window /\ r.kind \in LastKinds)
<1>1. reports \in Seq(Windows!Result) /\ report \in Seq(Windows!Result)
  BY WordsAre DEF WordsTyped
<1>2. WordsTyped'
  BY SMTT(30), <1>1, AppendProperties DEF WordsTyped
<1>3. \A w : Told(w) <=> (\/ \E i \in DOMAIN reports :
                              reports[i].window = w /\ reports[i].kind \in LastKinds
                         \/ \E i \in DOMAIN report :
                              report[i].window = w /\ report[i].kind \in LastKinds)
  BY <1>1, InEither DEF Told
<1>4. \A w : Told(w)' <=> (\/ \E i \in DOMAIN reports' :
                               reports'[i].window = w /\ reports'[i].kind \in LastKinds
                          \/ \E i \in DOMAIN report' :
                               report'[i].window = w /\ report'[i].kind \in LastKinds)
  <2>1. reports' \in Seq(Windows!Result) /\ report' \in Seq(Windows!Result)
    <3>1. Append(reports, r) \in Seq(Windows!Result)
      BY <1>1, AppendProperties
    <3>2. <<r>> \in Seq(Windows!Result)
      OBVIOUS
    <3>3. QED
      BY <3>1, <3>2, <1>1
  <2>2. QED
    BY <2>1, InEither DEF Told
<1>5. CASE report = <<>> /\ report' = <<r>> /\ reports' = reports
  BY <1>5, <1>2, <1>3, <1>4
<1>6. CASE report' = report /\ reports' = Append(reports, r)
  BY <1>1, <1>6, AppendProperties, LenProperties, <1>2, <1>3, <1>4
<1>7. QED
  BY <1>5, <1>6

LEMMA WordsSame ==
  ASSUME WordsTyped,
         \/ UNCHANGED <<reports, report>>
         \/ Windows!SendReport
  PROVE  WordsTyped' /\ \A w : Told(w)' <=> Told(w)
<1>1. CASE UNCHANGED <<reports, report>>
  BY <1>1 DEF WordsTyped, Told, Windows!LastWords
<1>2. CASE Windows!SendReport
  BY <1>2, WordsAre, ConcatEmptySeq DEF Windows!SendReport, Words, WordsTyped,
     Told, Windows!LastWords
<1>3. QED
  BY <1>1, <1>2

-----------------------------------------------------------------------------
(* What keeps the invariant.                                               *)

LEMMA InvGives ==
  ASSUME LogInv
  PROVE  /\ Windows!TypeOK /\ WordsTyped /\ PathInv /\ Paths
         /\ KnownIds = 1..Len(viewports) /\ Len(viewports) \in Nat
         /\ KnownIds \subseteq Windows!Ids
         /\ DOMAIN windows \subseteq KnownIds /\ registered \subseteq KnownIds
         /\ running \subseteq KnownIds
<1>1. Windows!TypeOK
  BY DEF LogInv
<1>2. WordsTyped
  BY <1>1 DEF Windows!TypeOK, WordsTyped
<1>3. PathInv /\ Paths
  BY PathOfInv DEF PathInv
<1>4. KnownIds = 1..Len(viewports) /\ Len(viewports) \in Nat
  BY <1>1, LenProperties DEF Windows!TypeOK, KnownIds
<1>5. /\ DOMAIN windows \subseteq KnownIds /\ registered \subseteq KnownIds
      /\ running \subseteq KnownIds
  BY <1>1 DEF Windows!TypeOK, KnownIds
<1>6. KnownIds \subseteq Windows!Ids
  BY DEF LogInv, Given
<1>7. QED
  BY <1>1, <1>2, <1>3, <1>4, <1>5, <1>6

(* A step that starts nothing and opens nothing.                           *)
LEMMA Quieter ==
  ASSUME LogInv, Windows!TypeOK', StartsFirst', viewports' = viewports,
         DOMAIN windows' \subseteq DOMAIN windows, running' \subseteq running,
         WayPlaces \subseteq WayPlaces',
         \A w : \A i \in WayPlaces : /\ Starts(i, w)' <=> Starts(i, w)
                                     /\ Stops(i, w)' <=> Stops(i, w),
         \A w : \A i \in WayPlaces' \ WayPlaces : ~Starts(i, w)',
         \A i \in WayPlaces' : Windows!UnderWay'[i].window \in KnownIds,
         \A w : Told(w)' => /\ w \in KnownIds
                            /\ Told(w) \/ (w \notin running' /\ ~Waits(w)),
         \A w \in KnownIds : Windows!Live(w) => \/ Windows!Live(w)' \/ Stopped(w)'
                                                \/ w \notin running' /\ ~Waits(w),
         \A w \in KnownIds : Windows!Live(w)' => Waits(w) \/ w \in running' \/ Told(w)'
  PROVE  LogInv'
<1>1. KnownIds' = KnownIds
  BY DEF KnownIds
<1>2. \A w : Waits(w)' <=> Waits(w)
  BY DEF Waits
<1>3. \A w : Stopped(w) => Stopped(w)'
  BY DEF Stopped
<1>4. Named'
  BY <1>1 DEF Named
<1>5. Fresh'
  BY <1>1, <1>2 DEF LogInv, Fresh
<1>6. Over'
  BY <1>1, <1>2 DEF LogInv, Over
<1>7. ClosedStops'
  <2> SUFFICES ASSUME NEW w \in KnownIds, Waits(w) \/ w \in running'
               PROVE  Windows!Live(w)' \/ Stopped(w)'
    BY <1>1, <1>2 DEF ClosedStops
  <2>1. Windows!Live(w) \/ Stopped(w)
    BY DEF LogInv, ClosedStops
  <2>2. QED
    BY <2>1, <1>3
<1>8. LiveRuns'
  BY <1>1, <1>2 DEF LiveRuns
<1>9. TakesOver'
  <2> SUFFICES ASSUME NEW v \in KnownIds, NEW w \in KnownIds, Successor(v, w)'
               PROVE  /\ v \notin DOMAIN windows'
                      /\ w \in running' => v \notin running' /\ ~Waits(v)'
                      /\ \A i \in WayPlaces' :
                           Starts(i, w)' /\ (v \in running' \/ Waits(v)') =>
                             \E j \in WayPlaces' : j < i /\ Stops(j, v)'
    BY <1>1 DEF TakesOver
  <2>1. Successor(v, w)
    BY <1>1 DEF Successor
  <2>2. /\ v \notin DOMAIN windows
        /\ w \in running => v \notin running /\ ~Waits(v)
        /\ \A i \in WayPlaces :
             Starts(i, w) /\ (v \in running \/ Waits(v)) =>
               \E j \in WayPlaces : j < i /\ Stops(j, v)
    BY <2>1 DEF LogInv, TakesOver
  <2>3. ASSUME NEW i \in WayPlaces', Starts(i, w)', v \in running' \/ Waits(v)'
        PROVE  \E j \in WayPlaces' : j < i /\ Stops(j, v)'
    <3>1. i \in WayPlaces /\ Starts(i, w) /\ (v \in running \/ Waits(v))
      BY <2>3, <1>2
    <3>2. PICK j \in WayPlaces : j < i /\ Stops(j, v)
      BY <3>1, <2>2
    <3>3. QED
      BY <3>2
  <2>4. QED
    BY <2>2, <2>3, <1>2
<1>10. Given'
  BY <1>1 DEF LogInv, Given
<1>11. QED
  BY <1>4, <1>5, <1>6, <1>7, <1>8, <1>9, <1>10 DEF LogInv

(* A step that leaves the commands under way as they are.                  *)
LEMMA SameWay ==
  ASSUME LogInv, Windows!TypeOK', viewports' = viewports, Windows!UnderWay' = Windows!UnderWay,
         DOMAIN windows' = DOMAIN windows, running' \subseteq running,
         \A w : Told(w)' => /\ w \in KnownIds
                            /\ Told(w) \/ (w \notin running' /\ ~Waits(w)),
         \A w \in KnownIds : Windows!Live(w) => \/ Windows!Live(w)'
                                                \/ w \notin running' /\ ~Waits(w),
         \A w \in KnownIds : Windows!Live(w)' => Waits(w) \/ w \in running' \/ Told(w)'
  PROVE  LogInv'
<1>1. /\ WayPlaces' = WayPlaces /\ KnownIds' = KnownIds
      /\ \A w : \A i \in WayPlaces : /\ Starts(i, w)' <=> Starts(i, w)
                                     /\ Stops(i, w)' <=> Stops(i, w)
  BY DEF WayPlaces, KnownIds, Starts, Stops
<1>2. StartsFirst'
  BY <1>1 DEF LogInv, StartsFirst
<1>3. \A i \in WayPlaces' : Windows!UnderWay'[i].window \in KnownIds
  BY <1>1 DEF LogInv, Named
<1>4. QED
  BY <1>1, <1>2, <1>3, Quieter

(* What a window shows of its stream.                                      *)
LiveStatus == {"connecting", "following", "loading"}

LEMMA LiveUpdated ==
  ASSUME LogInv, NEW w, NEW shown, w \in DOMAIN windows => shown \in Windows!Window,
         windows' = [v \in DOMAIN windows |-> IF v = w THEN shown ELSE windows[v]]
  PROVE  /\ DOMAIN windows' = DOMAIN windows
         /\ \A v \in DOMAIN windows' : windows'[v] \in Windows!Window
         /\ \A v : v # w => (Windows!Live(v)' <=> Windows!Live(v))
         /\ Windows!Live(w)' <=> w \in DOMAIN windows /\ shown.status \in LiveStatus
<1>1. /\ DOMAIN windows' = DOMAIN windows
      /\ \A v \in DOMAIN windows : v # w => windows'[v] = windows[v]
      /\ w \in DOMAIN windows => windows'[w] = shown
  OBVIOUS
<1>2. \A v \in DOMAIN windows : windows[v] \in Windows!Window
  BY InvGives DEF Windows!TypeOK
<1>3. \A v \in DOMAIN windows' : windows'[v] \in Windows!Window
  BY <1>1, <1>2
<1>4. \A v : v # w => (Windows!Live(v)' <=> Windows!Live(v))
  BY <1>1 DEF Windows!Live
<1>5. Windows!Live(w)' <=> w \in DOMAIN windows /\ shown.status \in LiveStatus
  BY <1>1 DEF Windows!Live, LiveStatus
<1>6. QED
  BY <1>1, <1>3, <1>4, <1>5

-----------------------------------------------------------------------------
(* The user.                                                               *)

LEMMA WindowAdded ==
  ASSUME LogAssumption, LogInv, NEW n, n = Windows!NewId,
         NEW viewport \in Windows!Ids, viewport <= n,
         NEW instance \in {"current", "previous"}, NEW gone \in SUBSET DOMAIN windows,
         NEW stops \in {<<>>} \cup {<<Windows!Stop(x)>> : x \in KnownIds \cap Windows!Ids},
         Windows!Shown(viewport, instance, gone), Windows!Sends(stops \o <<Windows!Start(n)>>),
         UNCHANGED <<sent, queue, Windows!worker, reports, storeFailures, storesFailed>>,
         \A w \in gone : stops = <<Windows!Stop(w)>>,
         \A v \in KnownIds : viewports[v] = viewport =>
           /\ v \notin DOMAIN windows \ gone
           /\ v \in running \/ Waits(v) => Stopped(v) \/ stops = <<Windows!Stop(v)>>
  PROVE  LogInv'
<1>1. /\ n \in Windows!Ids \ KnownIds /\ \A v \in KnownIds : v < n
      /\ KnownIds' = KnownIds \cup {n} /\ viewports'[n] = viewport
      /\ \A v \in KnownIds : viewports'[v] = viewports[v]
      /\ viewports' \in Seq(Windows!Ids)
  BY InvGives, AppendProperties, LenProperties DEF Windows!TypeOK,
     Windows!NewId, Windows!Shown, Windows!Ids, Windows!LogAssumption, KnownIds
<1>2. /\ DOMAIN windows' = (DOMAIN windows \ gone) \cup {n}
      /\ windows'[n] = Windows!Opened(instance)
      /\ \A w \in DOMAIN windows \ gone : windows'[w] = windows[w]
  BY InvGives, <1>1 DEF Windows!Shown
<1>4. /\ Paths' /\ StartsFirst'
      /\ WayPlaces \subseteq WayPlaces'
      /\ \A w : \A i \in WayPlaces : /\ Starts(i, w)' <=> Starts(i, w)
                                     /\ Stops(i, w)' <=> Stops(i, w)
      /\ \A w : Waits(w)' <=> Waits(w) \/ w = n
      /\ \A w : Stopped(w)' <=> Stopped(w) \/ stops = <<Windows!Stop(w)>>
      /\ \A w : \A i \in WayPlaces' \ WayPlaces : Starts(i, w)' =>
           /\ w = n
           /\ \A v : Stopped(v)' => \E j \in WayPlaces' : j < i /\ Stops(j, v)'
      /\ \A i \in WayPlaces' : Windows!UnderWay'[i].window \in KnownIds'
  BY <1>1, InvGives, StartSent
<1>5. /\ running' = running /\ registered' = registered /\ report' = report
      /\ reports' = reports /\ storeFailures' = storeFailures /\ storesFailed' = storesFailed
      /\ sent' = sent
  BY DEF Windows!worker
<1>6. \A w : Told(w)' <=> Told(w)
  BY <1>5 DEF Told, Windows!LastWords
<1>7. /\ Windows!Live(n)'
      /\ \A w \in KnownIds : Windows!Live(w)' => Windows!Live(w)
      /\ \A w \in KnownIds : Windows!Live(w) => Windows!Live(w)' \/ Stopped(w)'
  BY <1>2, <1>1, <1>4 DEF Windows!Live, Windows!Opened
<1>8. n \notin running /\ ~Told(n) /\ \A v : Told(v) => v \in KnownIds
  BY <1>1, InvGives DEF LogInv, Named
<1>9. Windows!TypeOK'
  <2>1. Windows!TypeOK
    BY InvGives
  <2>2. KnownIds \subseteq KnownIds'
    BY <1>1
  <2>3. DOMAIN windows' \subseteq KnownIds'
    BY <1>1, <1>2, InvGives
  <2>4. \A w \in DOMAIN windows' : windows'[w] \in Windows!Window
    BY <1>2, <2>1 DEF Windows!TypeOK, Windows!Window, Windows!Opened
  <2>5. {pending, sent, queue}' \subseteq Seq(Windows!Command)
    BY <1>4 DEF Paths
  <2>6. /\ registered' \subseteq KnownIds' /\ storeFailures' \subseteq KnownIds'
    BY <1>5, <2>1, <2>2 DEF Windows!TypeOK, KnownIds
  <2>7. /\ Len(sent') <= ChannelLimit
        /\ report' \in {<<>>} \cup {<<r>> : r \in Windows!Result}
        /\ running' \subseteq registered'
        /\ reports' \in Seq(Windows!Result) /\ storesFailed' \in 0..MaxStoreFailures
    BY <1>5, <2>1 DEF Windows!TypeOK
  <2>8. QED
    BY <1>1, <2>3, <2>4, <2>5, <2>6, <2>7 DEF Windows!TypeOK, KnownIds
<1>10. Named'
  BY <1>1, <1>4, <1>6, <1>8 DEF Named
<1>11. Fresh'
  BY <1>1, <1>4, <1>5, <1>6, <1>8 DEF LogInv, Fresh
<1>12. Over'
  BY <1>1, <1>5, <1>6, <1>8 DEF LogInv, Over
<1>13. ClosedStops'
  <2> SUFFICES ASSUME NEW w \in KnownIds, Waits(w) \/ w \in running
               PROVE  Windows!Live(w)' \/ Stopped(w)'
    BY <1>1, <1>4, <1>5, <1>7 DEF ClosedStops
  <2>1. Windows!Live(w) \/ Stopped(w)
    BY DEF LogInv, ClosedStops
  <2>2. QED
    BY <2>1, <1>4, <1>7
<1>14. LiveRuns'
  <2> SUFFICES ASSUME NEW w \in KnownIds, Windows!Live(w)'
               PROVE  Waits(w) \/ w \in running \/ Told(w)
    BY <1>1, <1>4, <1>5, <1>6 DEF LiveRuns
  <2>1. QED
    BY <1>7 DEF LogInv, LiveRuns
<1>15. TakesOver'
  <2> SUFFICES ASSUME NEW v \in KnownIds', NEW w \in KnownIds', Successor(v, w)'
               PROVE  /\ v \notin DOMAIN windows'
                      /\ w \in running' => v \notin running' /\ ~Waits(v)'
                      /\ \A i \in WayPlaces' :
                           Starts(i, w)' /\ (v \in running' \/ Waits(v)') =>
                             \E j \in WayPlaces' : j < i /\ Stops(j, v)'
    BY DEF TakesOver
  <2>1. v < w /\ viewports'[v] = viewports'[w]
    BY DEF Successor
  <2>2. v \in KnownIds /\ v # n
    BY <1>1, InvGives, <2>1 DEF Windows!Ids
  <2>3. CASE w \in KnownIds
    <3>1. Successor(v, w)
      BY <2>1, <2>2, <2>3, <1>1 DEF Successor
    <3>2. /\ v \notin DOMAIN windows
          /\ w \in running => v \notin running /\ ~Waits(v)
          /\ \A i \in WayPlaces :
               Starts(i, w) /\ (v \in running \/ Waits(v)) =>
                 \E j \in WayPlaces : j < i /\ Stops(j, v)
      BY <2>2, <2>3, <3>1 DEF LogInv, TakesOver
    <3>3. ASSUME NEW i \in WayPlaces', Starts(i, w)', v \in running' \/ Waits(v)'
          PROVE  \E j \in WayPlaces' : j < i /\ Stops(j, v)'
      <4>1. i \in WayPlaces /\ Starts(i, w) /\ (v \in running \/ Waits(v))
        BY <3>3, <2>2, <2>3, <1>1, <1>4, <1>5
      <4>2. PICK j \in WayPlaces : j < i /\ Stops(j, v)
        BY <4>1, <3>2
      <4>3. QED
        BY <4>2, <1>4
    <3>4. v \notin DOMAIN windows'
      BY <3>2, <2>2, <1>2
    <3>5. w \in running' => v \notin running' /\ ~Waits(v)'
      BY <3>2, <2>2, <1>4, <1>5
    <3>6. QED
      BY <3>3, <3>4, <3>5
  <2>4. CASE w = n
    <3>1. viewports[v] = viewport
      BY <2>1, <2>2, <2>4, <1>1
    <3>2. /\ v \notin DOMAIN windows \ gone
          /\ v \in running \/ Waits(v) => Stopped(v) \/ stops = <<Windows!Stop(v)>>
      BY <2>2, <3>1
    <3>3. v \notin DOMAIN windows'
      BY <3>2, <2>2, <1>2
    <3>4. ASSUME NEW i \in WayPlaces', Starts(i, w)', v \in running' \/ Waits(v)'
          PROVE  \E j \in WayPlaces' : j < i /\ Stops(j, v)'
      <4>1. Stopped(v)'
        BY <3>2, <3>4, <2>2, <1>4, <1>5
      <4>2. i \notin WayPlaces
        <5>1. ASSUME i \in WayPlaces PROVE FALSE
          BY <5>1, <3>4, <2>4, <1>4, <1>1 DEF Starts, LogInv, Named
        <5>2. QED
          BY <5>1
      <4>3. QED
        BY <4>1, <4>2, <3>4, <1>4
    <3>5. QED
      BY <3>3, <3>4, <2>4, <1>5, <1>8
  <2>5. QED
    BY <2>3, <2>4, <1>1
<1>16. Given'
  BY <1>1, InvGives DEF LogInv, Given
<1>17. QED
  BY <1>4, <1>9, <1>10, <1>11, <1>12, <1>13, <1>14, <1>15, <1>16 DEF LogInv

LEMMA OpenKeeps ==
  ASSUME LogAssumption, LogInv, Windows!OpenLogWindow
  PROVE  LogInv'
<1>1. PICK n : n = Windows!NewId
  OBVIOUS
<1>2. KnownIds = 1..Len(viewports) /\ Len(viewports) \in Nat /\ n = Len(viewports) + 1
  BY <1>1, InvGives DEF Windows!NewId
<1>3. n \in Windows!Ids /\ n <= n
  BY <1>1, <1>2 DEF Windows!OpenLogWindow, Windows!Shown, Windows!Ids, Windows!LogAssumption
<1>4. Windows!Start(n) \in Windows!Command
  BY <1>3 DEF Windows!Start, Windows!Command
<1>5. PICK stops : stops = <<>> /\ Windows!Sends(stops \o <<Windows!Start(n)>>)
  <2>1. <<>> \o <<Windows!Start(n)>> = <<Windows!Start(n)>>
    BY <1>4, ConcatEmptySeq
  <2>2. QED
    BY <2>1, <1>1 DEF Windows!OpenLogWindow
<1>6. \A v \in KnownIds : viewports[v] # n
  BY <1>2, InvGives DEF Windows!TypeOK, LogInv, Given, Windows!Ids
<1>7. /\ Windows!Shown(n, "current", {})
      /\ UNCHANGED <<sent, queue, Windows!worker, reports, storeFailures, storesFailed>>
  BY <1>1 DEF Windows!OpenLogWindow
<1>8. /\ {} \in SUBSET DOMAIN windows /\ "current" \in {"current", "previous"}
      /\ stops \in {<<>>} \cup {<<Windows!Stop(x)>> : x \in KnownIds \cap Windows!Ids}
  BY <1>5
<1>9. /\ \A w \in {} : stops = <<Windows!Stop(w)>>
      /\ \A v \in KnownIds : viewports[v] = n =>
           /\ v \notin DOMAIN windows \ {}
           /\ v \in running \/ Waits(v) => Stopped(v) \/ stops = <<Windows!Stop(v)>>
  BY <1>6
<1>10. QED
  BY <1>1, <1>3, <1>5, <1>7, <1>8, <1>9, WindowAdded

LEMMA SwitchKeeps ==
  ASSUME LogAssumption, LogInv, NEW w \in DOMAIN windows, Windows!SwitchInstance(w)
  PROVE  LogInv'
<1>1. PICK n : n = Windows!NewId
  OBVIOUS
<1>2. /\ KnownIds = 1..Len(viewports) /\ Len(viewports) \in Nat
      /\ n = Len(viewports) + 1 /\ w \in KnownIds \cap Windows!Ids
  BY <1>1, InvGives DEF Windows!NewId
<1>3. n \in Windows!Ids
  BY <1>1, <1>2 DEF Windows!SwitchInstance, Windows!Shown, Windows!Ids, Windows!LogAssumption
<1>4. PICK viewport : viewport = viewports[w]
  OBVIOUS
<1>5. PICK stops : stops = <<Windows!Stop(w)>>
  OBVIOUS
<1>6. viewport \in Windows!Ids /\ viewport <= n
  <2>1. viewports \in Seq(Windows!Ids) /\ viewport \in Windows!Ids
    BY <1>2, <1>4, InvGives DEF Windows!TypeOK
  <2>2. viewport <= w
    BY <1>2, <1>4 DEF LogInv, Given
  <2>3. QED
    BY <2>1, <2>2, <1>2 DEF Windows!Ids
<1>7. Windows!Sends(stops \o <<Windows!Start(n)>>)
  <2>1. Windows!Stop(w) \in Windows!Command /\ Windows!Start(n) \in Windows!Command
    BY <1>2, <1>3 DEF Windows!Start, Windows!Stop, Windows!Command
  <2>2. stops \o <<Windows!Start(n)>> = <<Windows!Stop(w), Windows!Start(n)>>
    BY <2>1, <1>5, TwoInARow
  <2>3. QED
    BY <2>2, <1>1 DEF Windows!SwitchInstance, Windows!SwitchCommands
<1>8. PICK instance \in {"current", "previous"} : Windows!Shown(viewport, instance, {w})
  BY <1>4 DEF Windows!SwitchInstance
<1>9. UNCHANGED <<sent, queue, Windows!worker, reports, storeFailures, storesFailed>>
  BY DEF Windows!SwitchInstance
<1>10. ASSUME NEW v \in KnownIds, viewports[v] = viewport
       PROVE  /\ v \notin DOMAIN windows \ {w}
              /\ v \in running \/ Waits(v) => Stopped(v) \/ stops = <<Windows!Stop(v)>>
  <2>1. CASE v = w
    BY <2>1, <1>5
  <2>2. CASE v < w
    BY <2>2, <1>2, <1>4, <1>10 DEF Successor, LogInv, TakesOver, ClosedStops,
       Windows!Live
  <2>3. CASE w < v
    BY <2>3, <1>2, <1>4, <1>10 DEF Successor, LogInv, TakesOver
  <2>4. v = w \/ v < w \/ w < v
    BY <1>2
  <2>5. QED
    BY <2>1, <2>2, <2>3, <2>4
<1>11. \A v \in {w} : stops = <<Windows!Stop(v)>>
  BY <1>5
<1>12. stops \in {<<>>} \cup {<<Windows!Stop(x)>> : x \in KnownIds \cap Windows!Ids}
  BY <1>2, <1>5
<1>13. {w} \in SUBSET DOMAIN windows
  OBVIOUS
<1>14. QED
  BY <1>1, <1>6, <1>7, <1>8, <1>9, <1>10, <1>11, <1>12, <1>13, WindowAdded

LEMMA CloseKeeps ==
  ASSUME LogInv, NEW w \in DOMAIN windows, Windows!CloseLogWindow(w)
  PROVE  LogInv'
<1>1. /\ viewports' = viewports /\ running' = running /\ registered' = registered
      /\ report' = report /\ reports' = reports /\ sent' = sent
      /\ storeFailures' = storeFailures /\ storesFailed' = storesFailed
      /\ Windows!Sends(<<Windows!Stop(w)>>) /\ UNCHANGED <<sent, queue>>
      /\ windows' = [v \in DOMAIN windows \ {w} |-> windows[v]]
  BY DEF Windows!CloseLogWindow, Windows!worker
<1>2. w \in KnownIds \cap Windows!Ids
  BY InvGives
<1>3. /\ Paths' /\ StartsFirst'
      /\ WayPlaces \subseteq WayPlaces'
      /\ \A x : \A i \in WayPlaces : /\ Starts(i, x)' <=> Starts(i, x)
                                     /\ Stops(i, x)' <=> Stops(i, x)
      /\ \A x : \A i \in WayPlaces' \ WayPlaces : ~Starts(i, x)'
      /\ \A x : Stopped(x)' <=> Stopped(x) \/ x = w
      /\ \A i \in WayPlaces' : Windows!UnderWay'[i].window \in KnownIds
  BY <1>1, <1>2, InvGives, StopSent
<1>4. DOMAIN windows' \subseteq DOMAIN windows
  BY <1>1
<1>5. Windows!TypeOK'
  BY <1>1, <1>3, InvGives DEF Windows!TypeOK, Paths
<1>6. \A x : Told(x)' <=> Told(x)
  BY <1>1 DEF Told, Windows!LastWords
<1>7. /\ \A x : Windows!Live(x)' => Windows!Live(x)
      /\ \A x : Windows!Live(x) => Windows!Live(x)' \/ x = w
  BY <1>1 DEF Windows!Live
<1>8. \A x : Told(x)' => x \in KnownIds /\ Told(x)
  BY <1>6 DEF LogInv, Named
<1>9. \A x \in KnownIds : Windows!Live(x)' => Waits(x) \/ x \in running' \/ Told(x)'
  BY <1>1, <1>6, <1>7 DEF LogInv, LiveRuns
<1>10. \A x \in KnownIds : Windows!Live(x) => Windows!Live(x)' \/ Stopped(x)'
  BY <1>3, <1>7
<1>11. QED
  BY <1>1, <1>3, <1>4, <1>5, <1>8, <1>9, <1>10, Quieter

-----------------------------------------------------------------------------
(* Results applied by the user interface.                                  *)

LEMMA ReceivedKeeps ==
  ASSUME LogInv, NEW kind, Windows!Received(kind), NEW w, w = Head(reports).window,
         DOMAIN windows' = DOMAIN windows,
         \A v \in DOMAIN windows' : windows'[v] \in Windows!Window,
         \A v : v # w => (Windows!Live(v)' <=> Windows!Live(v)),
         kind \notin LastKinds => (Windows!Live(w)' <=> Windows!Live(w)),
         kind \in LastKinds => ~Windows!Live(w)'
  PROVE  LogInv'
<1>1. /\ viewports' = viewports /\ pending' = pending /\ sent' = sent
      /\ queue' = queue /\ running' = running /\ registered' = registered
      /\ report' = report /\ storeFailures' = storeFailures /\ storesFailed' = storesFailed
  BY DEF Windows!Received, Windows!path, Windows!worker
<1>2. Windows!UnderWay' = Windows!UnderWay
  BY <1>1 DEF Windows!UnderWay
<1>3. /\ WordsTyped'
      /\ kind \in LastKinds => Told(w)
      /\ \A v : Told(v)' => Told(v)
      /\ \A v : Told(v) => Told(v)' \/ (v = w /\ kind \in LastKinds)
  BY InvGives, WordTaken
<1>4. Windows!TypeOK'
  BY <1>1, <1>3, InvGives DEF Windows!TypeOK, WordsTyped
<1>5. \A v : Told(v)' => v \in KnownIds /\ Told(v)
  BY <1>3 DEF LogInv, Named
<1>6. kind \in LastKinds => w \notin running /\ ~Waits(w)
  BY <1>3 DEF LogInv, Named, Fresh, Over
<1>7. \A v \in KnownIds : Windows!Live(v) => Windows!Live(v)' \/ (v \notin running' /\ ~Waits(v))
  BY <1>1, <1>6
<1>8. \A v \in KnownIds : Windows!Live(v)' => Waits(v) \/ v \in running' \/ Told(v)'
  <2> SUFFICES ASSUME NEW v \in KnownIds, Windows!Live(v)'
               PROVE  Waits(v) \/ v \in running' \/ Told(v)'
    OBVIOUS
  <2>1. Windows!Live(v) /\ (v # w \/ kind \notin LastKinds)
    OBVIOUS
  <2>2. Waits(v) \/ v \in running \/ Told(v)
    BY <2>1 DEF LogInv, LiveRuns
  <2>3. QED
    BY <2>1, <2>2, <1>1, <1>3
<1>9. QED
  BY <1>1, <1>2, <1>4, <1>5, <1>7, <1>8, SameWay

LEMMA ApplyKeeps ==
  ASSUME LogInv, Windows!ApplyStarted \/ Windows!ApplyEnded \/ Windows!ApplyFailed
  PROVE  LogInv'
<1>1. PICK w : w = Head(reports).window
  OBVIOUS
<1>2. \A v \in DOMAIN windows : windows[v] \in Windows!Window
  BY InvGives DEF Windows!TypeOK
<1>3. \A x \in Windows!Window :
        /\ Windows!AfterStart(x) \in Windows!Window /\ Windows!AfterEnd(x) \in Windows!Window
        /\ Windows!AfterFailure(x) \in Windows!Window
        /\ Windows!AfterStart(x).status \in LiveStatus <=> x.status \in LiveStatus
        /\ Windows!AfterEnd(x).status \notin LiveStatus
        /\ Windows!AfterFailure(x).status \notin LiveStatus
  <2> SUFFICES ASSUME NEW x \in Windows!Window
               PROVE  /\ Windows!AfterStart(x) \in Windows!Window /\ Windows!AfterEnd(x) \in Windows!Window
                      /\ Windows!AfterFailure(x) \in Windows!Window
                      /\ Windows!AfterStart(x).status \in LiveStatus <=>
                           x.status \in LiveStatus
                      /\ Windows!AfterEnd(x).status \notin LiveStatus
                      /\ Windows!AfterFailure(x).status \notin LiveStatus
    OBVIOUS
  <2>1. /\ Windows!AfterEnd(x) \in Windows!Window /\ Windows!AfterFailure(x) \in Windows!Window
        /\ Windows!AfterEnd(x).status \notin LiveStatus
        /\ Windows!AfterFailure(x).status \notin LiveStatus
    BY DEF Windows!AfterEnd, Windows!AfterFailure, Windows!Window, LiveStatus
  <2>2. CASE x.status # "connecting"
    BY <2>2, <2>1 DEF Windows!AfterStart, Windows!Window
  <2>3. CASE x.status = "connecting" /\ x.instance = "current"
    BY <2>3, <2>1 DEF Windows!AfterStart, Windows!Window, LiveStatus
  <2>4. CASE x.status = "connecting" /\ x.instance = "previous"
    BY <2>4, <2>1 DEF Windows!AfterStart, Windows!Window, LiveStatus
  <2>5. QED
    BY <2>2, <2>3, <2>4 DEF Windows!Window
<1>4. Windows!Live(w) <=> w \in DOMAIN windows /\ windows[w].status \in LiveStatus
  BY DEF Windows!Live, LiveStatus
<1>5. CASE Windows!ApplyStarted
  <2>1. Windows!Received("started") /\ "started" \notin LastKinds
    BY <1>5 DEF Windows!ApplyStarted, LastKinds
  <2>2. PICK shown : shown = Windows!AfterStart(windows[w])
    OBVIOUS
  <2>3. windows' = [v \in DOMAIN windows |->
                      IF v = w THEN shown ELSE windows[v]]
    BY <1>1, <1>5, <2>2 DEF Windows!ApplyStarted, Windows!Update
  <2>4. /\ DOMAIN windows' = DOMAIN windows
        /\ \A v \in DOMAIN windows' : windows'[v] \in Windows!Window
        /\ \A v : v # w => (Windows!Live(v)' <=> Windows!Live(v))
        /\ Windows!Live(w)' <=> w \in DOMAIN windows /\ shown.status \in LiveStatus
    BY <2>2, <2>3, <1>2, <1>3, LiveUpdated
  <2>5. Windows!Live(w)' <=> Windows!Live(w)
    BY <2>2, <2>4, <1>2, <1>3, <1>4
  <2>6. QED
    BY <1>1, <2>1, <2>4, <2>5, ReceivedKeeps
<1>6. CASE Windows!ApplyEnded
  <2>1. Windows!Received("ended") /\ "ended" \in LastKinds
    BY <1>6 DEF Windows!ApplyEnded, LastKinds
  <2>2. PICK shown : shown = Windows!AfterEnd(windows[w])
    OBVIOUS
  <2>3. windows' = [v \in DOMAIN windows |->
                      IF v = w THEN shown ELSE windows[v]]
    BY <1>1, <1>6, <2>2 DEF Windows!ApplyEnded, Windows!Update
  <2>4. /\ DOMAIN windows' = DOMAIN windows
        /\ \A v \in DOMAIN windows' : windows'[v] \in Windows!Window
        /\ \A v : v # w => (Windows!Live(v)' <=> Windows!Live(v))
        /\ Windows!Live(w)' <=> w \in DOMAIN windows /\ shown.status \in LiveStatus
    BY <2>2, <2>3, <1>2, <1>3, LiveUpdated
  <2>5. ~Windows!Live(w)'
    BY <2>2, <2>4, <1>2, <1>3
  <2>6. QED
    BY <1>1, <2>1, <2>4, <2>5, ReceivedKeeps
<1>7. CASE Windows!ApplyFailed
  <2>1. Windows!Received("failed") /\ "failed" \in LastKinds
    BY <1>7 DEF Windows!ApplyFailed, LastKinds
  <2>2. PICK shown : shown = Windows!AfterFailure(windows[w])
    OBVIOUS
  <2>3. windows' = [v \in DOMAIN windows |->
                      IF v = w THEN shown ELSE windows[v]]
    BY <1>1, <1>7, <2>2 DEF Windows!ApplyFailed, Windows!Update
  <2>4. /\ DOMAIN windows' = DOMAIN windows
        /\ \A v \in DOMAIN windows' : windows'[v] \in Windows!Window
        /\ \A v : v # w => (Windows!Live(v)' <=> Windows!Live(v))
        /\ Windows!Live(w)' <=> w \in DOMAIN windows /\ shown.status \in LiveStatus
    BY <2>2, <2>3, <1>2, <1>3, LiveUpdated
  <2>5. ~Windows!Live(w)'
    BY <2>2, <2>4, <1>2, <1>3
  <2>6. QED
    BY <1>1, <2>1, <2>4, <2>5, ReceivedKeeps
<1>8. QED
  BY <1>5, <1>6, <1>7

LEMMA StoreFailureKeeps ==
  ASSUME LogInv, NEW w \in storeFailures, Windows!ApplyStoreFailure(w)
  PROVE  LogInv'
<1>1. /\ viewports' = viewports /\ running' = running /\ registered' = registered
      /\ report' = report /\ reports' = reports /\ sent' = sent
      /\ queue' = queue /\ storesFailed' = storesFailed
      /\ storeFailures' = storeFailures \ {w}
      /\ Windows!Sends(Windows!StopsFailed(w))
  BY DEF Windows!ApplyStoreFailure, Windows!worker
<1>2. PICK shown : shown = [windows[w] EXCEPT !.status = "failed"]
  OBVIOUS
<1>3. /\ DOMAIN windows' = DOMAIN windows
      /\ \A v \in DOMAIN windows' : windows'[v] \in Windows!Window
      /\ \A v : v # w => (Windows!Live(v)' <=> Windows!Live(v))
      /\ ~Windows!Live(w)'
  <2>1. windows' = [v \in DOMAIN windows |->
                      IF v = w THEN shown ELSE windows[v]]
    BY <1>2 DEF Windows!ApplyStoreFailure, Windows!Update
  <2>2. w \in DOMAIN windows => shown \in Windows!Window /\ shown.status \notin LiveStatus
    BY <1>2, InvGives DEF Windows!Window, Windows!TypeOK, LiveStatus
  <2>3. QED
    BY <2>1, <2>2, LiveUpdated
<1>4. \A x : Told(x)' <=> Told(x)
  BY <1>1 DEF Told, Windows!LastWords
<1>5. \A x : Told(x)' => x \in KnownIds /\ Told(x)
  BY <1>4 DEF LogInv, Named
<1>6. \A x \in KnownIds : Windows!Live(x)' => Waits(x) \/ x \in running' \/ Told(x)'
  BY <1>1, <1>3, <1>4 DEF LogInv, LiveRuns
<1>7. CASE w \in DOMAIN windows /\ windows[w].status # "failed"
  BY <1>1, <1>7, InvGives, StopSent, <1>3, <1>5, <1>6, Quieter
     DEF Windows!StopsFailed, Windows!TypeOK, Paths
<1>8. CASE ~(w \in DOMAIN windows /\ windows[w].status # "failed")
  <2>1. pending' = pending
    BY <1>1, <1>8, InvGives, ConcatEmptySeq DEF Windows!StopsFailed, Paths,
       Windows!Sends
  <2>2. Windows!UnderWay' = Windows!UnderWay
    BY <1>1, <2>1 DEF Windows!UnderWay
  <2>3. Windows!TypeOK'
    BY <1>1, <1>3, <2>1, InvGives DEF Windows!TypeOK
  <2>4. ~Windows!Live(w)
    BY <1>8 DEF Windows!Live
  <2>5. \A x \in KnownIds : Windows!Live(x) => Windows!Live(x)'
    BY <1>3, <2>4
  <2>6. QED
    BY <1>1, <1>3, <1>5, <1>6, <2>2, <2>3, <2>5, SameWay
<1>9. QED
  BY <1>7, <1>8

-----------------------------------------------------------------------------
(* The way of a command, and what the streams and the store say.           *)

LEMMA PassedOnKeeps ==
  ASSUME LogAssumption, LogInv, Windows!FlushPendingCommands \/ Windows!Route
  PROVE  LogInv'
<1>1. /\ viewports' = viewports /\ windows' = windows /\ running' = running
      /\ registered' = registered /\ report' = report /\ reports' = reports
      /\ storeFailures' = storeFailures /\ storesFailed' = storesFailed
  BY DEF Windows!FlushPendingCommands, Windows!Route, Windows!worker
<1>2. Paths' /\ Windows!UnderWay' = Windows!UnderWay
  BY InvGives, FlushMoves, RouteMoves DEF Windows!FlushPendingCommands
<1>3. Len(sent') <= ChannelLimit
  <2>1. sent \in Seq(Windows!Command) /\ Len(sent) <= ChannelLimit
    BY InvGives DEF Windows!TypeOK
  <2>2. CASE Windows!FlushPendingCommands
    BY <2>2, InvGives, HeadTailProperties, <2>1, AppendProperties, LenProperties
       DEF Windows!FlushPendingCommands, Windows!Flush, Windows!Fits, Paths,
       Windows!LogAssumption
  <2>3. CASE Windows!Route
    BY <2>1, <2>3, HeadTailProperties, LenProperties DEF Windows!Route,
       Windows!LogAssumption
  <2>4. QED
    BY <2>2, <2>3
<1>4. Windows!TypeOK'
  BY <1>1, <1>2, <1>3, InvGives DEF Windows!TypeOK, Paths
<1>5. \A w : (Told(w)' <=> Told(w)) /\ (Windows!Live(w)' <=> Windows!Live(w))
  BY <1>1 DEF Told, Windows!LastWords, Windows!Live
<1>6. \A w : Told(w)' => w \in KnownIds /\ Told(w)
  BY <1>5 DEF LogInv, Named
<1>7. \A w \in KnownIds : Windows!Live(w)' => Waits(w) \/ w \in running' \/ Told(w)'
  BY <1>1, <1>5 DEF LogInv, LiveRuns
<1>8. QED
  BY <1>1, <1>2, <1>4, <1>5, <1>6, <1>7, SameWay

LEMMA ReportKeeps ==
  ASSUME LogAssumption, LogInv,
         \/ Windows!SendReport
         \/ \E w \in DOMAIN windows \cup registered : Windows!StoreFails(w)
         \/ UNCHANGED Windows!vars
  PROVE  LogInv'
<1>1. /\ viewports' = viewports /\ windows' = windows /\ running' = running
      /\ registered' = registered /\ pending' = pending /\ sent' = sent
      /\ queue' = queue
  BY DEF Windows!SendReport, Windows!StoreFails, Windows!vars, Windows!path, Windows!worker
<1>2. Windows!SendReport \/ UNCHANGED <<reports, report>>
  BY DEF Windows!StoreFails, Windows!vars, Windows!worker
<1>3. WordsTyped' /\ \A w : Told(w)' <=> Told(w)
  BY <1>2, InvGives, WordsSame
<1>4. Windows!UnderWay' = Windows!UnderWay
  BY <1>1 DEF Windows!UnderWay
<1>5. storeFailures' \subseteq DOMAIN viewports' /\ storesFailed' \in 0..MaxStoreFailures
  <2>1. /\ storeFailures \subseteq KnownIds /\ storesFailed \in 0..MaxStoreFailures
        /\ DOMAIN windows \cup registered \subseteq KnownIds
    BY InvGives DEF Windows!TypeOK, KnownIds
  <2>2. CASE Windows!SendReport \/ UNCHANGED Windows!vars
    BY <1>1, <2>1, <2>2 DEF Windows!SendReport, Windows!vars, KnownIds
  <2>3. CASE \E w \in DOMAIN windows \cup registered : Windows!StoreFails(w)
    <3>1. PICK w \in DOMAIN windows \cup registered : Windows!StoreFails(w)
      BY <2>3
    <3>2. storesFailed' \in 0..MaxStoreFailures
      BY <2>1, <3>1 DEF Windows!StoreFails, Windows!LogAssumption
    <3>3. storeFailures' \subseteq KnownIds
      BY <2>1, <3>1 DEF Windows!StoreFails
    <3>4. QED
      BY <1>1, <3>2, <3>3 DEF KnownIds
  <2>4. QED
    BY <2>2, <2>3
<1>6. Windows!TypeOK'
  BY <1>1, <1>3, <1>5, InvGives DEF Windows!TypeOK, WordsTyped
<1>7. \A w : Windows!Live(w)' <=> Windows!Live(w)
  BY <1>1 DEF Windows!Live
<1>8. \A w : Told(w)' => w \in KnownIds /\ Told(w)
  BY <1>3 DEF LogInv, Named
<1>9. \A w \in KnownIds : Windows!Live(w)' => Waits(w) \/ w \in running' \/ Told(w)'
  BY <1>1, <1>3, <1>7 DEF LogInv, LiveRuns
<1>10. QED
  BY <1>1, <1>4, <1>6, <1>7, <1>8, <1>9, SameWay

LEMMA EndKeeps ==
  ASSUME LogInv, NEW w \in running, Windows!StreamEnds(w)
  PROVE  LogInv'
<1>1. /\ viewports' = viewports /\ windows' = windows
      /\ running' = running \ {w} /\ registered' = registered
      /\ pending' = pending /\ sent' = sent /\ queue' = queue
      /\ report' = report /\ storeFailures' = storeFailures /\ storesFailed' = storesFailed
  BY DEF Windows!StreamEnds, Windows!path
<1>2. w \in KnownIds /\ w \in Windows!Ids
  BY InvGives
<1>3. PICK r \in Windows!Result : /\ reports' = Append(reports, r)
                                  /\ r.window = w /\ r.kind \in LastKinds
  <2>1. PICK kind \in LastKinds : Windows!Tells(w, kind)
    BY DEF Windows!StreamEnds, Windows!LastWord, LastKinds
  <2>2. Windows!About(w, kind) \in Windows!Result /\ Windows!About(w, kind).window = w
        /\ Windows!About(w, kind).kind = kind
    BY <1>2 DEF Windows!About, Windows!Result, LastKinds
  <2>3. QED
    BY <2>1, <2>2 DEF Windows!Tells
<1>4. WordsTyped' /\ \A v : Told(v)' <=> Told(v) \/ v = w
  BY <1>1, <1>3, InvGives, WordAdded
<1>5. Windows!UnderWay' = Windows!UnderWay
  BY <1>1 DEF Windows!UnderWay
<1>6. running' \subseteq registered'
  BY <1>1, InvGives DEF Windows!TypeOK
<1>7. Windows!TypeOK'
  BY <1>1, <1>4, <1>6, InvGives DEF Windows!TypeOK, WordsTyped
<1>8. ~Waits(w)
  BY <1>2 DEF LogInv, Fresh
<1>9. \A v : Windows!Live(v)' <=> Windows!Live(v)
  BY <1>1 DEF Windows!Live
<1>10. \A v : Told(v)' => /\ v \in KnownIds
                          /\ Told(v) \/ (v \notin running' /\ ~Waits(v))
  BY <1>1, <1>2, <1>4, <1>8 DEF LogInv, Named
<1>11. \A v \in KnownIds : Windows!Live(v)' => Waits(v) \/ v \in running' \/ Told(v)'
  BY <1>1, <1>4, <1>9 DEF LogInv, LiveRuns
<1>12. QED
  BY <1>1, <1>5, <1>7, <1>9, <1>10, <1>11, SameWay

-----------------------------------------------------------------------------
(* The cluster runtime.                                                    *)

(* Nobody takes over from a stream that still has to be stopped.           *)
LEMMA TakesOverKept ==
  ASSUME LogInv, NEW w \in Windows!Ids, NEW kind, Windows!Executes(kind, w),
         \A v \in KnownIds : v \in running' \/ Waits(v)' =>
           (v \in running \/ Waits(v)) /\ ~Stops(1, v),
         \A v \in running' : v \in running \/ Starts(1, v)
  PROVE  TakesOver'
<1>1. /\ KnownIds' = KnownIds /\ 1 \in WayPlaces
      /\ \A i \in WayPlaces : i = 1 \/ (i > 1 /\ i - 1 \in WayPlaces')
      /\ \A v : \A i \in WayPlaces' : /\ i + 1 \in WayPlaces
                                      /\ Starts(i, v)' <=> Starts(i + 1, v)
                                      /\ Stops(i, v)' <=> Stops(i + 1, v)
  BY InvGives, Taken
<1>2. windows' = windows /\ viewports' = viewports
  BY DEF Windows!Executes
<1>3. \A i \in WayPlaces' \cup WayPlaces : i \in Int
  BY InvGives, PlacesAre, ExecuteTakes DEF WayPlaces, Paths
<1> SUFFICES ASSUME NEW v \in KnownIds, NEW x \in KnownIds, Successor(v, x)
             PROVE  /\ v \notin DOMAIN windows
                    /\ x \in running' => v \notin running' /\ ~Waits(v)'
                    /\ \A i \in WayPlaces' :
                         Starts(i, x)' /\ (v \in running' \/ Waits(v)') =>
                           \E j \in WayPlaces' : j < i /\ Stops(j, v)'
  BY <1>1, <1>2 DEF TakesOver, Successor
<1>4. /\ v \notin DOMAIN windows
      /\ x \in running => v \notin running /\ ~Waits(v)
      /\ \A i \in WayPlaces : Starts(i, x) /\ (v \in running \/ Waits(v)) =>
                             \E j \in WayPlaces : j < i /\ Stops(j, v)
  BY DEF LogInv, TakesOver
<1>5. x \in running' => v \notin running' /\ ~Waits(v)'
  <2>1. CASE x \in running
    BY <2>1, <1>4
  <2>2. CASE Starts(1, x)
    BY <1>1, <1>3, <2>2, <1>4
  <2>3. QED
    BY <2>1, <2>2
<1>6. ASSUME NEW i \in WayPlaces', Starts(i, x)', v \in running' \/ Waits(v)'
      PROVE  \E j \in WayPlaces' : j < i /\ Stops(j, v)'
  <2>1. /\ i + 1 \in WayPlaces /\ Starts(i + 1, x)
        /\ (v \in running \/ Waits(v)) /\ ~Stops(1, v)
    BY <1>1, <1>6
  <2>2. PICK j \in WayPlaces : j < i + 1 /\ Stops(j, v)
    BY <2>1, <1>4
  <2>3. j # 1
    BY <1>6, <2>2
  <2>4. j - 1 \in WayPlaces' /\ j - 1 < i /\ (j - 1) + 1 = j
    BY <2>2, <2>3, <1>1, <1>3
  <2>5. Stops(j - 1, v)'
    BY <2>2, <2>4, <1>1
  <2>6. QED
    BY <2>4, <2>5
<1>7. QED
  BY <1>4, <1>5, <1>6

LEMMA ServeKeeps ==
  ASSUME LogInv, NEW w \in Windows!Ids, NEW kind \in {"start", "stop"}, Windows!Executes(kind, w),
         NEW word \in {"started", "failed", "ended"}, Windows!Reports(w, word),
         running' \subseteq registered', registered' \subseteq KnownIds,
         \/ kind = "start" /\ word = "started" /\ running' = running \cup {w}
         \/ kind = "start" /\ word = "failed" /\ running' = running
         \/ kind = "stop" /\ word = "ended" /\ running' = running \ {w}
  PROVE  LogInv'
<1>1. /\ viewports' = viewports /\ windows' = windows /\ reports' = reports
      /\ sent' = sent /\ storeFailures' = storeFailures
      /\ storesFailed' = storesFailed /\ report = <<>>
  BY DEF Windows!Executes
<1>2. /\ Paths' /\ StartsFirst' /\ w \in KnownIds /\ KnownIds' = KnownIds
      /\ kind = "start" => /\ \A v \in KnownIds : Waits(v)' <=> Waits(v) /\ v # w
                           /\ \A v : Stopped(v)' <=> Stopped(v)
                           /\ Waits(w) /\ Starts(1, w)
      /\ kind = "stop" => /\ \A v : Waits(v)' <=> Waits(v)
                          /\ \A v : Stopped(v) => Stopped(v)' \/ v = w
                          /\ ~Waits(w) /\ Stops(1, w)
      /\ \A i \in WayPlaces' : Windows!UnderWay'[i].window \in KnownIds
  BY InvGives, Taken
<1>3. /\ WordsTyped'
      /\ \A v : Told(v)' <=> Told(v) \/ (v = w /\ word \in LastKinds)
  <2>1. PICK r \in Windows!Result : r = Windows!About(w, word) /\ r.window = w /\ r.kind = word
    <3>1. /\ Windows!About(w, word) \in Windows!Result
          /\ Windows!About(w, word).window = w /\ Windows!About(w, word).kind = word
      BY DEF Windows!About, Windows!Result
    <3>2. QED
      BY <3>1
  <2>2. report' = <<r>> /\ reports' = reports
    BY <2>1, <1>1 DEF Windows!Reports
  <2>3. /\ WordsTyped'
        /\ \A v : Told(v)' <=> Told(v) \/ (v = r.window /\ r.kind \in LastKinds)
    BY <2>2, <1>1, InvGives, WordAdded
  <2>4. QED
    BY <2>1, <2>3
<1>4. \A v : Windows!Live(v)' <=> Windows!Live(v)
  BY <1>1 DEF Windows!Live
<1>5. Windows!TypeOK'
  BY <1>1, InvGives, <1>2, <1>3 DEF Windows!TypeOK, KnownIds, WordsTyped, Paths
<1>6. Waits(w) => w \notin running /\ ~Told(w)
  BY <1>2 DEF LogInv, Fresh
<1>7. Named'
  BY <1>2, <1>3 DEF LogInv, Named
<1>8. \A v \in KnownIds : Waits(v)' => Waits(v) /\ v # w
  BY <1>2
<1>9. Fresh'
  BY <1>2, <1>3, <1>8 DEF LogInv, Fresh
<1>10. Over'
  BY <1>2, <1>3, <1>6 DEF LogInv, Over, LastKinds
<1>11. ClosedStops'
  <2> SUFFICES ASSUME NEW v \in KnownIds, Waits(v)' \/ v \in running'
               PROVE  Windows!Live(v)' \/ Stopped(v)'
    BY <1>2 DEF ClosedStops
  <2>1. Waits(v) \/ v \in running
    BY <1>2
  <2>2. Windows!Live(v) \/ Stopped(v)
    BY <2>1 DEF LogInv, ClosedStops
  <2>3. kind = "stop" => v # w
    BY <1>2
  <2>4. QED
    BY <2>2, <2>3, <1>2, <1>4
<1>12. LiveRuns'
  <2> SUFFICES ASSUME NEW v \in KnownIds, Windows!Live(v)'
               PROVE  Waits(v)' \/ v \in running' \/ Told(v)'
    BY <1>2 DEF LiveRuns
  <2>1. Waits(v) \/ v \in running \/ Told(v)
    BY <1>4 DEF LogInv, LiveRuns
  <2>2. v = w => w \in running' \/ Told(w)'
    BY <1>3 DEF LastKinds
  <2>3. QED
    BY <2>1, <2>2, <1>2, <1>3
<1>13. TakesOver'
  <2>1. /\ 1 \in WayPlaces
        /\ \A v : \A u : ~(Starts(1, v) /\ Stops(1, u))
        /\ \A v : \A u : Stops(1, v) /\ Stops(1, u) => v = u
    BY <1>2, InvGives, Taken, PlacesAre DEF Stops
  <2>2. \A v \in KnownIds : v \in running' \/ Waits(v)' =>
          (v \in running \/ Waits(v)) /\ ~Stops(1, v)
    BY <2>1, <1>2
  <2>3. \A v \in running' : v \in running \/ Starts(1, v)
    BY <1>2
  <2>4. QED
    BY <2>2, <2>3, TakesOverKept
<1>14. Given'
  BY <1>1, <1>2 DEF LogInv, Given
<1>15. QED
  BY <1>2, <1>5, <1>7, <1>9, <1>10, <1>11, <1>12, <1>13, <1>14 DEF LogInv

LEMMA CommandKeeps ==
  ASSUME LogInv, NEW w \in Windows!Ids,
         Windows!StartPodLogStream(w) \/ Windows!StartFails(w) \/ Windows!StopPodLogStream(w)
  PROVE  LogInv'
<1>1. /\ running \subseteq registered /\ registered \subseteq KnownIds
  BY InvGives DEF Windows!TypeOK
<1>2. CASE Windows!StartPodLogStream(w)
  BY <1>2, InvGives, Taken, <1>1, ServeKeeps DEF Windows!StartPodLogStream
<1>3. CASE Windows!StartFails(w)
  BY <1>3, <1>1, ServeKeeps DEF Windows!StartFails
<1>4. CASE Windows!StopPodLogStream(w)
  BY <1>4, <1>1, ServeKeeps DEF Windows!StopPodLogStream
<1>5. QED
  BY <1>2, <1>3, <1>4

-----------------------------------------------------------------------------
(* The theorems.                                                           *)

LEMMA LogInvInit ==
  ASSUME LogAssumption, Windows!Init
  PROVE  LogInv
<1>1. /\ KnownIds = {} /\ running = {} /\ registered = {} /\ DOMAIN windows = {}
      /\ storeFailures = {}
  BY DEF Windows!Init, KnownIds
<1>2. Windows!UnderWay = <<>> /\ reports \o report = <<>>
  BY ConcatEmptySeq, EmptySeq DEF Windows!Init, Windows!UnderWay
<1>3. WayPlaces = {}
  BY <1>2 DEF WayPlaces
<1>4. \A w : ~Told(w)
  BY <1>2 DEF Told, Windows!LastWords
<1>5. Windows!TypeOK
  BY <1>1 DEF Windows!Init, Windows!TypeOK, Windows!LogAssumption
<1>6. QED
  BY <1>1, <1>3, <1>4, <1>5
     DEF LogInv, Named, StartsFirst, Fresh, Over, ClosedStops, LiveRuns,
         TakesOver, Given

LEMMA LogInvNext ==
  ASSUME LogAssumption, LogInv, [Windows!Next]_Windows!vars
  PROVE  LogInv'
<1>1. CASE Windows!UserStep
  BY <1>1, OpenKeeps, CloseKeeps, SwitchKeeps DEF Windows!UserStep
<1>2. CASE Windows!ApplyStep
  BY <1>2, ApplyKeeps DEF Windows!ApplyStep
<1>3. CASE Windows!ApplyStoreStep
  BY <1>3, StoreFailureKeeps DEF Windows!ApplyStoreStep
<1>4. CASE Windows!FlushPendingCommands \/ Windows!Route
  BY <1>4, PassedOnKeeps
<1>5. CASE Windows!ServeStep
  BY <1>5, ReportKeeps, CommandKeeps DEF Windows!ServeStep
<1>6. CASE Windows!StreamStep
  BY <1>6, EndKeeps DEF Windows!StreamStep
<1>7. CASE Windows!StoreStep \/ UNCHANGED Windows!vars
  BY <1>7, ReportKeeps DEF Windows!StoreStep
<1>8. QED
  BY <1>1, <1>2, <1>3, <1>4, <1>5, <1>6, <1>7 DEF Windows!Next

(* The invariant on which the theorems rest holds in every reachable state.*)
THEOREM LogInvHolds ==
  ASSUME LogAssumption
  PROVE  Windows!Spec => []LogInv
<1>1. Windows!Init => LogInv
  BY LogInvInit
<1>2. LogInv /\ [Windows!Next]_Windows!vars => LogInv'
  BY LogInvNext
<1>3. QED
  BY <1>1, <1>2, PTL DEF Windows!Spec

(* Every window, command, stream and result is well formed, and the        *)
(* channel to the router never holds more than it may.                     *)
THEOREM LogWindowsTyped ==
  ASSUME LogAssumption
  PROVE  Windows!Spec => []Windows!TypeOK
<1>1. LogInv => Windows!TypeOK
  BY DEF LogInv
<1>2. QED
  BY <1>1, LogInvHolds, PTL

(* No follow stream is left behind (worker_runtime.rs:93-95): a stream     *)
(* that runs belongs to a window that shows it as live, or its stop is     *)
(* under way; a start under way is for an open window or has its stop      *)
(* behind it.                                                              *)
THEOREM NoStreamIsLeftBehind ==
  ASSUME LogAssumption
  PROVE  Windows!Spec => []Windows!NoStreamLeftBehind
<1>1. ASSUME LogInv PROVE Windows!NoStreamLeftBehind
  <2>1. \A w \in KnownIds : Waits(w) \/ w \in running => Windows!Live(w) \/ Stopped(w)
    BY <1>1 DEF LogInv, ClosedStops
  <2>2. \A w \in running : Windows!Live(w) \/ Windows!StopUnderWay(w)
    BY <2>1, <1>1, InvGives, CommandsAre
  <2>3. ASSUME NEW i \in WayPlaces, Windows!UnderWay[i].kind = "start"
        PROVE  \/ Windows!UnderWay[i].window \in DOMAIN windows
               \/ \E j \in WayPlaces : j > i /\ Windows!UnderWay[j] = Windows!Stop(Windows!UnderWay[i].window)
    <3>1. PICK w : w = Windows!UnderWay[i].window
      OBVIOUS
    <3>2. w \in KnownIds /\ Starts(i, w)
      BY <2>3, <3>1, <1>1 DEF LogInv, Named, Starts
    <3>3. CASE Windows!Live(w)
      BY <3>1, <3>3 DEF Windows!Live
    <3>4. CASE Stopped(w)
      <4>1. PICK j \in WayPlaces : Stops(j, w)
        BY <3>4 DEF Stopped
      <4>2. i <= j
        BY <4>1, <3>2, <1>1 DEF LogInv, StartsFirst
      <4>3. i # j /\ Windows!UnderWay[j] = Windows!Stop(w) /\ i \in Int /\ j \in Int
        BY <4>1, <3>2, <1>1, InvGives, PlacesAre, CommandsAre
      <4>4. QED
        BY <4>2, <4>3, <3>1
    <3>5. Windows!Live(w) \/ Stopped(w)
      BY <3>2, <2>1 DEF Waits
    <3>6. QED
      BY <3>3, <3>4, <3>5
  <2>4. QED
    BY <2>2, <2>3 DEF Windows!NoStreamLeftBehind, WayPlaces
<1>2. QED
  BY <1>1, LogInvHolds, PTL

(* A window that shows a live stream has one, or will have, or will hear   *)
(* of its end.                                                             *)
THEOREM LiveWindowsAreTrue ==
  ASSUME LogAssumption
  PROVE  Windows!Spec => []Windows!LiveIsTrue
<1>1. ASSUME LogInv PROVE Windows!LiveIsTrue
  BY <1>1, InvGives, CommandsAre DEF LogInv, LiveRuns, Windows!LiveIsTrue, Told
<1>2. QED
  BY <1>1, LogInvHolds, PTL

(* The streams of a native window, switched between current and previous   *)
(* logs any number of times, never run together.                           *)
THEOREM OneStreamRunsPerViewport ==
  ASSUME LogAssumption
  PROVE  Windows!Spec => []Windows!OneStreamPerViewport
<1>1. ASSUME LogInv PROVE Windows!OneStreamPerViewport
  <2> SUFFICES ASSUME NEW v \in running, NEW w \in running,
                      viewports[v] = viewports[w], v # w
               PROVE  FALSE
    BY DEF Windows!OneStreamPerViewport
  <2>1. v \in KnownIds /\ w \in KnownIds /\ v \in Int /\ w \in Int
    BY <1>1, InvGives
  <2>2. Successor(v, w) \/ Successor(w, v)
    BY <2>1 DEF Successor
  <2>3. QED
    BY <2>1, <2>2, <1>1 DEF LogInv, TakesOver
<1>2. QED
  BY <1>1, LogInvHolds, PTL

-----------------------------------------------------------------------------
(* The runtime: both parts behave as they do alone.                        *)

LEMMA RuntimeParts == RuntimeSpec => Spec /\ Windows!Spec
<1>1. RuntimeInit => Init /\ Windows!Init
  BY DEF RuntimeInit
<1>2. ASSUME [RuntimeNext]_runtimeVars
      PROVE  [Next]_vars /\ [Windows!Next]_Windows!vars
  <2>1. CASE SessionNext
    BY <2>1 DEF SessionNext, OfSession, windowsVars, Windows!vars, Windows!path,
                Windows!worker
  <2>2. CASE WindowsNext
    BY <2>2 DEF WindowsNext, OfWindows
  <2>3. CASE UNCHANGED runtimeVars
    BY <2>3 DEF runtimeVars, windowsVars, Windows!vars, Windows!path, Windows!worker
  <2>4. QED
    BY <1>2, <2>1, <2>2, <2>3 DEF RuntimeNext
<1>3. QED
  BY <1>1, <1>2, PTL DEF RuntimeSpec, Spec, Windows!Spec

(* Every cluster, command, window, stream and result is well formed, and   *)
(* the channel to the router never holds more than it may.                 *)
THEOREM RuntimeTyped == RuntimeSpec => []TypesOK
  BY RuntimeParts, SessionTypeCorrect, LogWindowsTyped, LogAssumption, PTL DEF TypesOK

(* No follow stream is left behind (worker_runtime.rs:93-95), and those of *)
(* one native window never run together.                                   *)
THEOREM StreamsHaveWindows == RuntimeSpec => []NoStreamLeftBehind
  BY RuntimeParts, NoStreamIsLeftBehind, OneStreamRunsPerViewport, LogAssumption, PTL
     DEF NoStreamLeftBehind

(* A window that shows a live stream has one, or will have, or will hear   *)
(* of its end.                                                             *)
THEOREM LiveWindowsHaveStreams == RuntimeSpec => []LiveIsTrue
  BY RuntimeParts, LiveWindowsAreTrue, LogAssumption, PTL DEF LiveIsTrue

=============================================================================
