----------------------------- MODULE Licenses_proof -----------------------------
(***************************************************************************)
(* Proofs about licenses: the seats the backend bills (SeatBilling), for   *)
(* any number of requests, deliveries and changes; the account of the      *)
(* licensing client (Licensing), for any number of operations and faults;  *)
(* and the updates (Updater), for any number of programs and releases.     *)
(***************************************************************************)
EXTENDS MCLicensing, FiniteSetTheorems, SequenceTheorems, WellFoundedInduction, TLAPS

-----------------------------------------------------------------------------
(* The least and the greatest of a set of numbers.                         *)

(* A finite set of numbers has a greatest: of those that have none, a      *)
(* smallest one (in the order of inclusion, which is well founded) would   *)
(* have one after all.                                                     *)
LEMMA GreatestExists ==
  ASSUME NEW S, IsFiniteSet(S), S # {}, S \subseteq Int
  PROVE  \E m \in S : \A n \in S : m >= n
<1> DEFINE Lacking == {U \in FiniteSubsetsOf(S) :
                         U # {} /\ ~ \E m \in U : \A n \in U : m >= n}
<1> SUFFICES ASSUME Lacking # {} PROVE FALSE
  BY DEF FiniteSubsetsOf
<1>1. PICK U \in Lacking : \A V \in Lacking : <<V, U>> \notin StrictSubsetOrdering(S)
  <2>1. Lacking \subseteq FiniteSubsetsOf(S)
    OBVIOUS
  <2> HIDE DEF Lacking
  <2> QED BY <2>1, FS_StrictSubsetOrderingWellFounded, WFMin
<1>2. U \subseteq S /\ IsFiniteSet(U) /\ U # {}
  BY DEF FiniteSubsetsOf
<1>3. PICK x \in U : TRUE
  BY <1>2
<1>4. IsFiniteSet(U \ {x})
  BY <1>2, FS_RemoveElement
<1>5. U \ {x} \in FiniteSubsetsOf(S) /\ <<U \ {x}, U>> \in StrictSubsetOrdering(S)
  BY <1>2, <1>3, <1>4 DEF FiniteSubsetsOf, StrictSubsetOrdering
<1>6. U \ {x} \notin Lacking
  BY <1>1, <1>5
<1>7. CASE U \ {x} = {}
  BY <1>2, <1>3, <1>7
<1>8. CASE U \ {x} # {}
  <2>1. PICK m \in U \ {x} : \A n \in U \ {x} : m >= n
    BY <1>5, <1>6, <1>8
  <2>2. m \in U /\ x \in U /\ m \in Int /\ x \in Int /\ U \subseteq Int
    BY <1>2, <1>3, <2>1
  <2>3. CASE m >= x
    BY <2>1, <2>2, <2>3
  <2>4. CASE ~(m >= x)
    BY <2>1, <2>2, <2>4
  <2> QED BY <2>3, <2>4
<1> QED BY <1>7, <1>8

LEMMA GreatestOf ==
  ASSUME NEW S, IsFiniteSet(S), S # {}, S \subseteq Int
  PROVE  Max(S) \in S /\ \A n \in S : Max(S) >= n
<1>1. \E m \in S : \A n \in S : m >= n
  BY GreatestExists
<1> QED BY <1>1 DEF Max

(* The least of one or two numbers.                                        *)
LEMMA LeastOf ==
  ASSUME NEW m \in Int, NEW S, S \subseteq Int,
         \A a, b \in S : a = b
  PROVE  /\ Min({m} \cup S) \in {m} \cup S
         /\ \A n \in {m} \cup S : Min({m} \cup S) <= n
<1>1. \E least \in {m} \cup S : \A n \in {m} \cup S : least <= n
  <2>1. CASE S = {}
    BY <2>1
  <2>2. CASE S # {}
    <3>1. PICK a \in S : TRUE
      BY <2>2
    <3>2. \A n \in {m} \cup S : n = m \/ n = a
      BY <3>1
    <3>3. a \in Int
      BY <3>1
    <3>4. CASE m <= a
      BY <3>1, <3>2, <3>3, <3>4
    <3>5. CASE ~(m <= a)
      BY <3>1, <3>2, <3>3, <3>5
    <3> QED BY <3>4, <3>5
  <2> QED BY <2>1, <2>2
<1> QED BY <1>1 DEF Min

(* The values of a function with a finite domain are finite.               *)
LEMMA FiniteValues ==
  ASSUME NEW D, IsFiniteSet(D), NEW f, DOMAIN f = D
  PROVE  IsFiniteSet({f[d] : d \in D})
<1> DEFINE g == [d \in D |-> f[d]]
           T == {f[d] : d \in D}
<1>1. g \in Surjection(D, T)
  BY DEF Surjection
<1> HIDE DEF g, T
<1>2. IsFiniteSet(T)
  BY <1>1, FS_Surjection
<1> QED BY <1>2 DEF T

-----------------------------------------------------------------------------
(* Types.                                                                  *)

LEMMA RevisionType ==
  ASSUME TypeOK PROVE NextRevision \in Nat
<1> DEFINE OfCalls == {calls[c].snap.revision : c \in Callers}
           OfWork  == {workers[w].snap.revision : w \in Workers}
           f == [c \in Callers |-> calls[c].snap.revision]
           g == [w \in Workers |-> workers[w].snap.revision]
           All == {sub.revision} \cup OfCalls \cup OfWork
<1>1. OfCalls \subseteq Nat /\ OfWork \subseteq Nat /\ sub.revision \in Nat
  BY DEF TypeOK, Call, Work, Snapshot
<1>2. IsFiniteSet(OfCalls)
  <2>1. DOMAIN f = Callers
    OBVIOUS
  <2>2. OfCalls = {f[c] : c \in Callers}
    OBVIOUS
  <2> HIDE DEF f, OfCalls
  <2> QED BY <2>1, <2>2, FiniteValues, BillingAssumption
<1>3. IsFiniteSet(OfWork)
  <2>1. DOMAIN g = Workers
    OBVIOUS
  <2>2. OfWork = {g[w] : w \in Workers}
    OBVIOUS
  <2> HIDE DEF g, OfWork
  <2> QED BY <2>1, <2>2, FiniteValues, BillingAssumption
<1>4. IsFiniteSet(All) /\ All # {} /\ All \subseteq Nat
  <2> HIDE DEF OfCalls, OfWork
  <2>1. IsFiniteSet({sub.revision})
    BY FS_Singleton
  <2>2. IsFiniteSet({sub.revision} \cup OfCalls)
    BY <1>2, <2>1, FS_Union
  <2> QED BY <1>1, <1>3, <2>2, FS_Union
<1>5. Max(All) \in Nat
  <2> HIDE DEF All
  <2>1. All \subseteq Int
    BY <1>4
  <2> QED BY <1>4, <2>1, GreatestOf
<1>6. NextRevision = 1 + Max(All)
  BY DEF NextRevision
<1> QED BY <1>5, <1>6

LEMMA SnapshotType ==
  ASSUME NEW s \in Subscription, NEW kind \in {Observation, MutationResponse},
         TypeOK
  PROVE  SnapshotOf(s, kind) \in Snapshot
BY DEF SnapshotOf, Snapshot, Subscription, TypeOK

LEMMA NothingType ==
  NoSnapshot \in Snapshot /\ NoCall \in Call /\ NoWork \in Work
BY BillingAssumption DEF NoSnapshot, NoCall, NoWork, Snapshot, Call, Work, OpIds,
     Versions, Quantities, Observation, MutationResponse, CallPcs, WorkPcs, Unlocked

LEMMA ProjectedType ==
  ASSUME TypeOK, NEW s \in Snapshot
  PROVE  Projected(s) \in Snapshot
BY DEF Projected, TypeOK

LEMMA ResolvedType ==
  ASSUME NEW op \in Operation, NEW s \in Snapshot, NEW start \in BOOLEAN
  PROVE  Resolved(op, s, start) \in Operation
BY DEF Resolved, Closed, Operation, Snapshot

(* What the parts of a step do to the types.                               *)
LEMMA CallTypes ==
  ASSUME TypeOK, NEW c \in Callers
  PROVE  /\ \A pc \in CallPcs : Moves(c, pc) => calls' \in [Callers -> Call]
         /\ \A pc \in CallPcs, s \in Snapshot :
              Keeps(c, pc, s) => calls' \in [Callers -> Call]
<1>1. calls[c] \in Call /\ calls \in [Callers -> Call] /\ NoCall \in Call
  BY NothingType DEF TypeOK
<1>2. \A pc \in CallPcs : [calls[c] EXCEPT !.pc = pc] \in Call
  BY <1>1 DEF Call
<1>3. \A pc \in CallPcs, s \in Snapshot :
        [[calls[c] EXCEPT !.pc = pc] EXCEPT !.snap = s] \in Call
  BY <1>1 DEF Call
<1>4. ASSUME NEW pc \in CallPcs, Moves(c, pc) PROVE calls' \in [Callers -> Call]
  BY <1>1, <1>2, <1>4 DEF Moves
<1>5. ASSUME NEW pc \in CallPcs, NEW s \in Snapshot, Keeps(c, pc, s)
      PROVE  calls' \in [Callers -> Call]
  BY <1>1, <1>3, <1>5 DEF Keeps
<1> QED BY <1>4, <1>5

LEMMA PreparedTypes ==
  ASSUME TypeOK, NEW c \in Callers, NEW o \in OpIds,
         calls' = [calls EXCEPT ![c].pc = "prepared", ![c].op = o]
  PROVE  calls' \in [Callers -> Call]
<1>1. calls[c] \in Call /\ calls \in [Callers -> Call]
  BY DEF TypeOK
<1>2. [[calls[c] EXCEPT !.pc = "prepared"] EXCEPT !.op = o] \in Call
  BY <1>1 DEF Call, CallPcs, Unlocked
<1> QED BY <1>1, <1>2

LEMMA SpendTypes ==
  ASSUME TypeOK, NEW f \in {"changes", "seats", "faults", "calls"}, Spend(f)
  PROVE  menu' \in Menu /\ menu'.targets = menu.targets /\ menu'.outside = menu.outside
<1>1. menu \in Menu /\ menu[f] > 0 /\ menu' = [menu EXCEPT ![f] = @ - 1]
  BY DEF TypeOK, Spend
<1>2. CASE f = "changes"
  BY <1>1, <1>2 DEF Menu
<1>3. CASE f = "seats"
  BY <1>1, <1>3 DEF Menu
<1>4. CASE f = "faults"
  BY <1>1, <1>4 DEF Menu
<1>5. CASE f = "calls"
  BY <1>1, <1>5 DEF Menu
<1> QED BY <1>2, <1>3, <1>4, <1>5

LEMMA ResolveTypes ==
  ASSUME TypeOK, NEW o \in DOMAIN ops, NEW s \in Snapshot, NEW start \in BOOLEAN,
         Resolve(o, s, start)
  PROVE  /\ ops' \in Seq(Operation) /\ Len(ops') = Len(ops)
         /\ DOMAIN ops' = DOMAIN ops
         /\ \A p \in DOMAIN ops : ops'[p].status = "pending" => ops[p].status = "pending"
<1>1. Resolved(ops[o], s, start) \in Operation
  BY ResolvedType DEF TypeOK
<1>2. ops' = [ops EXCEPT ![o] = Resolved(ops[o], s, start)]
  BY DEF Resolve
<1>3. Resolved(ops[o], s, start).status = "pending" => ops[o].status = "pending"
  BY DEF Resolved, Closed
<1> QED BY <1>1, <1>2, <1>3 DEF TypeOK

-----------------------------------------------------------------------------
(* Steps of a request.                                                     *)
LEMMA PrepareTypes ==
  ASSUME TypeOK, NEW c \in Callers, NEW target \in menu.targets, Prepare(c, target)
  PROVE  TypeOK'
<1> USE DEF Prepare, OfCall, provider
<1>1. menu' \in Menu
  BY SpendTypes
<1>2. target \in Quantities
  BY DEF TypeOK, Menu
<1>3. /\ calls' \in [Callers -> Call]
      /\ ops' \in Seq(Operation) /\ Len(ops') <= MaxOps
      /\ \A o, p \in DOMAIN ops' :
           ops'[o].status = "pending" /\ ops'[p].status = "pending" => o = p
  <2>1. ASSUME NEW o \in Pending,
               calls' = [calls EXCEPT ![c].pc = "prepared", ![c].op = o],
               UNCHANGED ops
        PROVE  <1>3!:
    <3>1. o \in OpIds
      BY BillingAssumption DEF Pending, TypeOK, OpIds
    <3>2. calls' \in [Callers -> Call]
      BY <2>1, <3>1, PreparedTypes
    <3> QED BY <2>1, <3>2 DEF TypeOK
  <2>2. ASSUME Pending = {}, Len(ops) < MaxOps,
               ops' = Append(ops, [previous |-> sub.quantity, target |-> target,
                                   status |-> "pending", outcome |-> "none",
                                   replay |-> NoReplay]),
               calls' = [calls EXCEPT ![c].pc = "prepared", ![c].op = Len(ops) + 1]
        PROVE  <1>3!:
    <3> DEFINE new == [previous |-> sub.quantity, target |-> target,
                       status |-> "pending", outcome |-> "none", replay |-> NoReplay]
    <3>1. new \in Operation
      BY <1>2 DEF Operation, TypeOK, Snapshot
    <3>2. Len(ops) \in Nat /\ Len(ops) + 1 \in OpIds
      BY <2>2, BillingAssumption DEF TypeOK, OpIds
    <3> HIDE DEF new
    <3>3. ops' \in Seq(Operation) /\ Len(ops') = Len(ops) + 1
      BY <2>2, <3>1 DEF new, TypeOK
    <3>4. ASSUME NEW p \in DOMAIN ops', ops'[p].status = "pending", p # Len(ops) + 1
          PROVE  FALSE
      <4>1. ops \in Seq(Operation) /\ ops' = Append(ops, new)
        BY <2>2 DEF new, TypeOK
      <4>2. p \in DOMAIN ops /\ ops'[p] = ops[p]
        BY <3>1, <3>4, <4>1
      <4> QED BY <2>2, <3>4, <4>2 DEF Pending
    <3>5. calls' \in [Callers -> Call]
      BY <2>2, <3>2, PreparedTypes
    <3> QED BY <2>2, <3>2, <3>3, <3>4, <3>5, BillingAssumption
  <2> QED BY <2>1, <2>2
<1> QED BY <1>1, <1>3 DEF TypeOK

(* A request that is under way is about an operation that was stored.      *)
Stored == \A c \in Callers : calls[c].pc # "idle" => calls[c].op \in DOMAIN ops

LEMMA FailsTypes ==
  ASSUME TypeOK, NEW c \in Callers, Fails(c)
  PROVE  calls' \in [Callers -> Call] /\ lock' \in Callers \cup {NoCaller}
BY CallTypes DEF Fails, TypeOK, CallPcs, Unlocked

LEMMA RolledBackTypes ==
  ASSUME TypeOK, NEW c \in Callers, RolledBack(c)
  PROVE  calls' \in [Callers -> Call] /\ lock' \in Callers \cup {NoCaller}
BY CallTypes, NothingType DEF RolledBack, TypeOK, CallPcs, Unlocked

LEMMA ProjectTypes ==
  ASSUME TypeOK, NEW s \in Snapshot, Project(s)
  PROVE  sub' \in Snapshot /\ changed' \subseteq {"outside", "tied", "replayed"}
BY DEF Project, Projected, TypeOK

LEMMA ExecutesTypes ==
  ASSUME TypeOK, NEW o \in DOMAIN ops, NEW state \in {"kept", "failed"},
         Executes(o), KeepsAnswer(o, state)
  PROVE  /\ stripe' \in Subscription /\ executed' \in [OpIds -> Nat]
         /\ keys' \in [OpIds -> Key]
<1>1. stripe \in Subscription /\ stripe.version < MaxVersion /\ MaxVersion \in Nat
  BY BillingAssumption DEF Executes, TypeOK
<1>2. ops[o] \in Operation
  BY DEF TypeOK
<1>3. stripe' \in Subscription
  <2>1. stripe.version + 1 \in Versions /\ ops[o].target \in Quantities
    BY <1>1, <1>2 DEF Operation, Subscription, Versions
  <2>2. [[stripe EXCEPT !.quantity = ops[o].target] EXCEPT !.version = @ + 1] \in Subscription
    BY <1>1, <2>1 DEF Subscription
  <2> QED BY <2>2 DEF Executes
<1>4. executed' \in [OpIds -> Nat]
  BY BillingAssumption DEF TypeOK, OpIds, Executes
<1>5. keys' \in [OpIds -> Key]
  BY <1>3 DEF TypeOK, Key, KeepsAnswer
<1> QED BY <1>3, <1>4, <1>5

LEMMA CommitsTypes ==
  ASSUME TypeOK, NEW c \in Callers, calls[c].op \in DOMAIN ops, Commits(c)
  PROVE  TypeOK'
<1> DEFINE s == calls[c].snap
<1>1. s \in Snapshot
  BY DEF TypeOK, Call
<1>2. Projected(s) \in Snapshot /\ Resolve(calls[c].op, Projected(s), FALSE)
  BY <1>1, ProjectedType DEF Commits
<1> HIDE DEF s
<1>3. /\ ops' \in Seq(Operation) /\ Len(ops') = Len(ops) /\ DOMAIN ops' = DOMAIN ops
      /\ \A p \in DOMAIN ops : ops'[p].status = "pending" => ops[p].status = "pending"
  BY <1>2, ResolveTypes
<1>4. sub' \in Snapshot /\ changed' \subseteq {"outside", "tied", "replayed"}
  BY <1>1, ProjectTypes DEF Commits, s
<1>5. calls' \in [Callers -> Call]
  BY CallTypes DEF Commits, CallPcs, Unlocked
<1> QED BY <1>3, <1>4, <1>5 DEF Commits, OfCall, provider, TypeOK

LEMMA CallStepTypes ==
  ASSUME TypeOK, Stored, NEW c \in Callers, CallStep(c) \/ CallFault(c)
  PROVE  TypeOK'
<1> USE DEF OfCall, provider
<1>1. CASE Observe(c)
  BY SnapshotType, <1>1, CallTypes DEF TypeOK, Observe, ReadAs, CallPcs,
     Unlocked, Locked
<1>2. CASE Reserve(c)
  <2>1. [calls[c].snap EXCEPT !.revision = NextRevision] \in Snapshot
    BY RevisionType DEF TypeOK, Call, Snapshot
  <2>2. calls' \in [Callers -> Call]
    BY <1>2, <2>1, CallTypes DEF Reserve, CallPcs, Unlocked, Locked
  <2> QED BY <1>2, <2>2 DEF Reserve, TypeOK
<1>3. CASE Authorize(c)
  <2> DEFINE o == calls[c].op
             s == calls[c].snap
             needed == StateOf(ops[o], s) = "previous"
  <2>1. s \in Snapshot /\ o \in DOMAIN ops /\ needed \in BOOLEAN
    BY <1>3 DEF Authorize, Stored, TypeOK, Call
  <2>2. Projected(s) \in Snapshot /\ Resolve(o, Projected(s), needed) /\ Project(s)
    BY <1>3, <2>1, ProjectedType DEF Authorize
  <2>3. Moves(c, "authorized") \/ Moves(c, "idle")
    BY <1>3 DEF Authorize
  <2> HIDE DEF o, s, needed
  <2>4. /\ ops' \in Seq(Operation) /\ Len(ops') = Len(ops) /\ DOMAIN ops' = DOMAIN ops
        /\ \A p \in DOMAIN ops : ops'[p].status = "pending" => ops[p].status = "pending"
    BY <2>1, <2>2, ResolveTypes
  <2>5. sub' \in Snapshot /\ changed' \subseteq {"outside", "tied", "replayed"}
    BY <2>1, <2>2, ProjectTypes
  <2>6. calls' \in [Callers -> Call]
    BY <2>3, CallTypes DEF CallPcs, Unlocked
  <2> QED BY <1>3, <2>4, <2>5, <2>6 DEF Authorize, TypeOK
<1>4. CASE Claim(c)
  <2>1. CASE lock' = c /\ Keeps(c, "locked", NoSnapshot) /\ UNCHANGED ops
    BY <2>1, CallTypes, NothingType, <1>4 DEF CallPcs, Locked, Claim, TypeOK
  <2>2. CASE Resolve(calls[c].op, sub, FALSE) /\ Moves(c, "idle") /\ UNCHANGED lock
    BY <2>2, CallTypes, <1>4, ResolveTypes DEF CallPcs, Unlocked, Claim, Stored,
       TypeOK
  <2> QED BY <1>4, <2>1, <2>2 DEF Claim
<1>5. CASE Recheck(c) \/ Commit(c)
  BY <1>5, CommitsTypes DEF Recheck, Commit, Stored
<1>6. CASE Post(c) \/ PostLost(c)
  <2> DEFINE o == calls[c].op
  <2>1. o \in DOMAIN ops /\ o \in OpIds /\ calls[c].snap \in Snapshot
    BY <1>6 DEF Post, PostLost, Stored, TypeOK, Call
  <2>2. CASE Post(c) /\ Kept(o)
    BY <2>1, SnapshotType, <2>2, CallTypes DEF TypeOK, Key, Post, CallPcs,
       Locked
  <2>3. CASE Post(c) /\ ~Kept(o)
    BY <2>3, <2>1, ExecutesTypes, SnapshotType, CallTypes DEF Post, CallPcs,
       Locked, TypeOK
  <2>4. CASE PostLost(c)
    <3>1. /\ stripe' \in Subscription /\ executed' \in [OpIds -> Nat]
          /\ keys' \in [OpIds -> Key]
      <4>1. ASSUME Executes(o),
                   \E state \in {"kept", "failed"} : KeepsAnswer(o, state)
            PROVE  <3>1!:
        BY <2>1, <4>1, ExecutesTypes
      <4>2. ASSUME UNCHANGED <<stripe, executed>>, KeepsAnswer(o, "failed")
            PROVE  <3>1!:
        BY <4>2 DEF TypeOK, Key, KeepsAnswer
      <4> QED BY <2>4, <4>1, <4>2 DEF PostLost
    <3>2. calls' \in [Callers -> Call] /\ lock' \in Callers \cup {NoCaller}
      BY <2>4, FailsTypes DEF PostLost
    <3>3. menu' \in Menu
      BY <2>4, SpendTypes DEF PostLost
    <3> QED BY <2>4, <3>1, <3>2, <3>3 DEF PostLost, TypeOK
  <2> QED BY <1>6, <2>2, <2>3, <2>4
<1>7. CASE PostFailsAgain(c)
  BY <1>7, FailsTypes DEF PostFailsAgain, TypeOK
<1>8. CASE Reject(c)
  <2> DEFINE o == calls[c].op
             op == ops[o]
             new == IF op.status = "pending" /\ StateOf(op, sub) = "previous"
                      THEN Closed(op, "failed", "rejected")
                      ELSE Resolved(op, sub, FALSE)
  <2>1. o \in DOMAIN ops /\ op \in Operation /\ sub \in Snapshot
    BY <1>8 DEF Reject, Stored, TypeOK
  <2>2. ops' = [ops EXCEPT ![o] = new]
    BY <1>8 DEF Reject
  <2>3. new \in Operation /\ (new.status = "pending" => op.status = "pending")
    <3>1. Resolved(op, sub, FALSE) \in Operation
      BY <2>1, ResolvedType
    <3>2. Resolved(op, sub, FALSE).status = "pending" => op.status = "pending"
      BY DEF Resolved
    <3>3. /\ Closed(op, "failed", "rejected") \in Operation
          /\ Closed(op, "failed", "rejected").status = "failed"
      BY <2>1 DEF Closed, Operation
    <3> QED BY <3>1, <3>2, <3>3
  <2>4. calls' \in [Callers -> Call]
    BY <1>8, CallTypes DEF Reject, CallPcs, Unlocked
  <2> HIDE DEF new
  <2>5. /\ ops' \in Seq(Operation) /\ Len(ops') = Len(ops) /\ DOMAIN ops' = DOMAIN ops
        /\ \A p \in DOMAIN ops : ops'[p].status = "pending" => ops[p].status = "pending"
    BY <2>1, <2>2, <2>3 DEF TypeOK
  <2> QED BY <1>8, <2>4, <2>5 DEF Reject, TypeOK
<1>9. CASE Rejects(c) \/ RejectsEnded(c)
  BY <1>9, SpendTypes, RolledBackTypes DEF Rejects, RejectsEnded, TypeOK,
     RolledBack
<1>10. CASE Abandon(c)
  BY <1>10, FailsTypes, SpendTypes DEF Abandon, TypeOK
<1> QED BY <1>1, <1>2, <1>3, <1>4, <1>5, <1>6, <1>7, <1>8, <1>9, <1>10
        DEF CallStep, CallFault

-----------------------------------------------------------------------------
(* Steps of a delivery, of others, and the whole.                          *)
LEMMA WorkStepTypes ==
  ASSUME TypeOK, NEW w \in Workers, WorkStep(w) \/ WorkFault(w)
  PROVE  TypeOK'
<1> USE DEF OfEvents, provider
<1>1. /\ workers[w] \in Work /\ workers \in [Workers -> Work] /\ NoWork \in Work
      /\ inbox \in [Versions -> Event] /\ workers[w].snap \in Snapshot
      /\ NoSnapshot \in Snapshot
  BY NothingType DEF TypeOK, Work
<1>2. /\ \A pc \in WorkPcs, s \in Snapshot :
           [[workers[w] EXCEPT !.pc = pc] EXCEPT !.snap = s] \in Work
      /\ \A pc \in WorkPcs, v \in Versions :
           [[workers[w] EXCEPT !.pc = pc] EXCEPT !.event = v] \in Work
  BY <1>1 DEF Work
<1>3. ASSUME NEW v \in Versions, Acquire(w, v) PROVE TypeOK'
  <2>1. workers' \in [Workers -> Work]
    BY <1>1, <1>2, <1>3 DEF Acquire, WorkPcs
  <2>2. inbox' \in [Versions -> Event]
    BY <1>1, <1>3 DEF Acquire, Event
  <2> QED
    BY <1>3, <2>1, <2>2 DEF Acquire, TypeOK
<1>4. CASE ResolveEvent(w)
  BY SnapshotType, <1>1, <1>2, <1>4 DEF TypeOK, ResolveEvent, WorkPcs
<1>5. CASE ReserveForEvent(w)
  <2>1. [workers[w].snap EXCEPT !.revision = NextRevision] \in Snapshot
    BY <1>1, RevisionType DEF Snapshot
  <2>2. workers' = [workers EXCEPT ![w] =
                      [[workers[w] EXCEPT !.pc = "observed"]
                         EXCEPT !.snap = [workers[w].snap EXCEPT !.revision = NextRevision]]]
    BY <1>1, <1>5 DEF ReserveForEvent, Work
  <2>3. workers' \in [Workers -> Work]
    BY <1>1, <1>2, <2>1, <2>2 DEF WorkPcs
  <2> QED BY <1>5, <2>3 DEF ReserveForEvent, TypeOK
<1>6. CASE ApplyEvent(w)
  BY <1>1, <1>6, ProjectTypes, <1>2 DEF ApplyEvent, WorkPcs, TypeOK
<1>7. CASE Complete(w) \/ Release(w)
  <2>1. PICK state \in {"pending", "processed"} : Settle(w, state)
    BY <1>7 DEF Complete, Release
  <2>2. workers[w].event \in Versions
    BY <1>1 DEF Work
  <2>3. [[[inbox[workers[w].event] EXCEPT !.state = state]
                       EXCEPT !.lease = NoCaller] EXCEPT !.expired = FALSE] \in Event
    BY <1>1, <2>2 DEF Event
  <2>4. inbox' \in [Versions -> Event] /\ workers' \in [Workers -> Work]
    BY <1>1, <2>1, <2>3 DEF Settle
  <2> QED BY <2>1, <2>4 DEF Settle, TypeOK
<1>8. CASE EventFails(w) \/ WorkerCrashes(w)
  BY <1>8, SpendTypes, <1>1, <1>2 DEF EventFails, WorkerCrashes, WorkPcs, TypeOK
<1> QED BY <1>3, <1>4, <1>5, <1>6, <1>7, <1>8 DEF WorkStep, WorkFault

LEMMA OthersTypes ==
  ASSUME TypeOK,
         \/ \E v \in Versions : Ingest(v) \/ LeaseExpires(v)
         \/ \E quantity \in menu.outside : ChangeOutside(quantity)
         \/ AssignSeat \/ UnassignSeat \/ Tick
  PROVE  TypeOK'
<1> USE DEF OfEvents, provider
<1>1. ASSUME NEW v \in Versions, Ingest(v) \/ LeaseExpires(v) PROVE TypeOK'
  <2>1. /\ [inbox[v] EXCEPT !.state = "pending"] \in Event
        /\ [inbox[v] EXCEPT !.expired = TRUE] \in Event
    BY DEF TypeOK, Event
  <2> QED BY <1>1, <2>1 DEF Ingest, LeaseExpires, TypeOK
<1>2. ASSUME NEW quantity \in menu.outside, ChangeOutside(quantity) PROVE TypeOK'
  <2>1. stripe \in Subscription /\ stripe.version < MaxVersion /\ quantity \in Nat
    BY <1>2 DEF ChangeOutside, TypeOK, Menu
  <2>2. stripe.version + 1 \in Versions
    BY <2>1, BillingAssumption DEF Subscription, Versions
  <2>3. CASE quantity = 0
    BY <2>1, <2>2, <1>2, <2>3, SpendTypes DEF Subscription, ChangeOutside,
       TypeOK
  <2>4. CASE quantity # 0
    BY <2>1, <2>2, <2>4, <1>2, SpendTypes DEF Subscription, Quantities,
       ChangeOutside, TypeOK
  <2> QED BY <2>3, <2>4
<1>3. CASE AssignSeat \/ UnassignSeat
  <2>1. menu' \in Menu
    BY <1>3, SpendTypes DEF AssignSeat, UnassignSeat, Seats
  <2>2. required' \in Nat
    BY <1>3 DEF AssignSeat, UnassignSeat, TypeOK
  <2>3. UNCHANGED <<now, provider, sub, ops, lock, calls, inbox, workers, changed>>
    BY <1>3 DEF AssignSeat, UnassignSeat, Seats
  <2> QED BY <2>1, <2>2, <2>3 DEF provider, TypeOK
<1>4. CASE Tick
  BY <1>4 DEF Tick, TypeOK
<1> QED BY <1>1, <1>2, <1>3, <1>4

(* A step of a request changes what is known of that one only, and not the *)
(* operation it is about.                                                  *)
LEMMA CallShape ==
  ASSUME TypeOK, NEW k \in Callers, CallStep(k) \/ CallFault(k)
  PROVE  /\ \A c \in Callers \ {k} : calls'[c] = calls[c]
         /\ calls'[k].pc # "idle" =>
              calls[k].pc # "idle" /\ calls'[k].op = calls[k].op
<1>1. calls \in [Callers -> Call] /\ calls[k] \in Call /\ NoCall.pc = "idle"
  BY DEF TypeOK, NoCall
<1>2. \A pc : Moves(k, pc) =>
        /\ \A c \in Callers \ {k} : calls'[c] = calls[c]
        /\ pc = "idle" => calls'[k] = NoCall
        /\ pc # "idle" => /\ calls'[k].pc = pc /\ calls'[k].op = calls[k].op
                          /\ calls'[k].snap = calls[k].snap
  BY <1>1 DEF Moves, Call
<1>3. \A pc, s : Keeps(k, pc, s) =>
        /\ \A c \in Callers \ {k} : calls'[c] = calls[c]
        /\ calls'[k].pc = pc /\ calls'[k].op = calls[k].op /\ calls'[k].snap = s
  BY <1>1 DEF Keeps, Call
<1>4. CASE Observe(k) \/ Reserve(k)
  BY <1>3, <1>4 DEF Observe, Reserve
<1>5. CASE Authorize(k) \/ Claim(k)
  BY <1>1, <1>2, <1>3, <1>5 DEF Authorize, Claim
<1>6. CASE Recheck(k) \/ Commit(k)
  BY <1>1, <1>2, <1>6 DEF Recheck, Commit, Commits
<1>7. CASE Post(k)
  BY <1>3, <1>7 DEF Post
<1>8. CASE PostFailsAgain(k) \/ PostLost(k) \/ Abandon(k) \/ Reject(k)
  BY <1>1, <1>2, <1>8 DEF PostFailsAgain, PostLost, Abandon, Reject, Fails
<1>9. CASE RejectsEnded(k) \/ Rejects(k)
  BY <1>3, <1>9 DEF RejectsEnded, Rejects, RolledBack
<1> QED BY <1>4, <1>5, <1>6, <1>7, <1>8, <1>9 DEF CallStep, CallFault

(* Operations are never removed, and what a request works on was found.    *)
LEMMA StoredKept ==
  ASSUME TypeOK, Stored, [Next]_vars PROVE Stored'
<1>1. CASE Next
  <2>1. DOMAIN ops \subseteq DOMAIN ops'
    <3>1. ASSUME NEW c \in Callers, NEW target \in menu.targets, Prepare(c, target)
          PROVE  DOMAIN ops \subseteq DOMAIN ops'
      BY <3>1 DEF Prepare, TypeOK
    <3>2. ASSUME NEW c \in Callers, CallStep(c) \/ CallFault(c)
          PROVE  DOMAIN ops \subseteq DOMAIN ops'
      BY <3>2 DEF CallStep, CallFault, Observe, Reserve, Authorize, Claim, Recheck,
           Commit, Commits, Post, PostFailsAgain, RejectsEnded, Reject, Abandon,
           Rejects, RolledBack, PostLost, Resolve, TypeOK
    <3>3. ASSUME NEW w \in Workers, WorkStep(w) \/ WorkFault(w)
          PROVE  ops' = ops
      BY <3>3 DEF WorkStep, WorkFault, OfEvents, Acquire, ResolveEvent,
           ReserveForEvent, ApplyEvent, Complete, Release, Settle, EventFails,
           WorkerCrashes
    <3> QED BY <1>1, <3>1, <3>2, <3>3 DEF Next, OfEvents, Ingest, LeaseExpires,
              ChangeOutside, AssignSeat, UnassignSeat, Seats, Tick
  <2>2. ASSUME NEW k \in Callers, NEW target \in menu.targets, Prepare(k, target)
        PROVE  Stored'
    <3>1. calls \in [Callers -> Call]
      BY DEF TypeOK
    <3>2. Len(ops) + 1 \in DOMAIN Append(ops, [previous |-> sub.quantity,
             target |-> target, status |-> "pending", outcome |-> "none",
             replay |-> NoReplay])
      BY DEF TypeOK
    <3>3. PICK o \in DOMAIN ops' : calls' = [calls EXCEPT ![k].pc = "prepared", ![k].op = o]
      BY <2>1, <2>2, <3>2 DEF Prepare, Pending
    <3> QED
      BY <2>1, <3>1, <3>3 DEF Stored, Call
  <2>3. ASSUME NEW k \in Callers, CallStep(k) \/ CallFault(k)
        PROVE  Stored'
    BY <2>1, <2>3, CallShape DEF Stored
  <2> QED BY <1>1, <2>1, <2>2, <2>3 DEF Next, Stored, WorkStep, WorkFault, OfEvents,
            Acquire, ResolveEvent, ReserveForEvent, ApplyEvent, Complete, Release,
            Settle, EventFails, WorkerCrashes, Ingest, LeaseExpires, ChangeOutside,
            AssignSeat, UnassignSeat, Seats, Tick
<1>2. CASE UNCHANGED vars
  BY <1>2 DEF vars, Stored
<1> QED BY <1>1, <1>2

-----------------------------------------------------------------------------
(* Each update is executed once.                                           *)

(* The account is claimed by the request that is in those steps.           *)
LockHeld == \A c \in Callers : calls[c].pc \in Locked <=> lock = c

(* A request that may change the subscription is about an operation whose  *)
(* time of replay has begun, and which is pending once the account is      *)
(* claimed: nobody else can close it then.                                 *)
Authorized ==
  \A c \in Callers :
    /\ calls[c].pc \in Locked \cup {"authorized"} => ops[calls[c].op].replay # NoReplay
    /\ calls[c].pc \in Locked => ops[calls[c].op].status = "pending"

(* Nothing is known from a later second.                                   *)
OfThePast ==
  /\ sub.at <= now
  /\ \A c \in Callers : calls[c].snap.at <= now
  /\ \A w \in Workers : workers[w].snap.at <= now
  /\ \A o \in DOMAIN ops : ops[o].replay <= now

(* A change follows its read within a second.                              *)
Prompt ==
  \A c \in Callers :
    calls[c].pc \in {"reread", "rechecked"} => now <= calls[c].snap.at + 1

(* A key is used after the time of replay of its operation began.          *)
KeysLate ==
  \A o \in OpIds :
    /\ keys[o].state = "unused" => executed[o] = 0
    /\ keys[o].state # "unused" =>
         /\ o \in DOMAIN ops /\ ops[o].replay # NoReplay
         /\ ops[o].replay <= keys[o].at

(* A decrease under way is never below the seats in use.                   *)
DecreaseCounts ==
  \A o \in Pending : ops[o].target < ops[o].previous => required <= ops[o].target

ChargeInv ==
  /\ TypeOK /\ Stored
  /\ LockHeld /\ Authorized /\ OfThePast /\ Prompt /\ KeysLate /\ DecreaseCounts

(* What resolving an operation may change of it.                           *)
LEMMA ResolvedShape ==
  ASSUME NEW op \in Operation, NEW s \in Snapshot, NEW start \in BOOLEAN,
         NEW r, r = Resolved(op, s, start)
  PROVE  /\ r.previous = op.previous /\ r.target = op.target
         /\ op.status # "pending" => r = op
         /\ \/ r.replay = op.replay
            \/ op.replay = NoReplay /\ r.replay = s.at
         /\ start /\ r.status = "pending" => r.replay # NoReplay
         /\ r.status = "pending" => r.outcome = op.outcome
         /\ op.status = "pending" /\ r.status # "pending" =>
              StateOf(op, s) \in {"target", "superseding"} /\ r.outcome # "rejected"
BY DEF Resolved, Closed, Operation, Snapshot, NoReplay

(* The operations after a step of a request: their quantities stay, their  *)
(* time of replay begins once, and a claimed account keeps others away.    *)
LEMMA OpsShape ==
  ASSUME ChargeInv, NEW k \in Callers, CallStep(k) \/ CallFault(k)
  PROVE  /\ DOMAIN ops' = DOMAIN ops
         /\ \A o \in DOMAIN ops :
              /\ ops'[o].previous = ops[o].previous /\ ops'[o].target = ops[o].target
              /\ ops'[o].status = "pending" => ops[o].status = "pending"
              /\ \/ ops'[o].replay = ops[o].replay
                 \/ ops[o].replay = NoReplay /\ ops'[o].replay \in 0..now
         /\ ops' # ops => lock \in {NoCaller, k} /\ calls'[k].pc \notin Locked
         /\ calls'[k].pc = "authorized" => ops'[calls[k].op].replay # NoReplay
<1> DEFINE Shape == /\ DOMAIN ops' = DOMAIN ops
                    /\ \A o \in DOMAIN ops :
                         /\ ops'[o].previous = ops[o].previous
                         /\ ops'[o].target = ops[o].target
                         /\ ops'[o].status = "pending" => ops[o].status = "pending"
                         /\ \/ ops'[o].replay = ops[o].replay
                            \/ ops[o].replay = NoReplay /\ ops'[o].replay \in 0..now
<1>1. /\ calls \in [Callers -> Call] /\ calls[k] \in Call /\ ops \in Seq(Operation)
      /\ calls[k].snap \in Snapshot /\ sub \in Snapshot /\ now \in Nat
      /\ calls[k].snap.at \in 0..now /\ sub.at \in 0..now
      /\ NoCall.pc = "idle" /\ "idle" \notin Locked /\ "authorized" \notin Locked
  BY DEF ChargeInv, TypeOK, OfThePast, Call, Snapshot, NoCall, Locked
<1>2. ASSUME NEW o \in DOMAIN ops, NEW s \in Snapshot, NEW start \in BOOLEAN,
             s.at \in 0..now, Resolve(o, s, start)
      PROVE  Shape /\ (start /\ ops'[o].status = "pending" => ops'[o].replay # NoReplay)
  <2>1. ops[o] \in Operation /\ ops' = [ops EXCEPT ![o] = Resolved(ops[o], s, start)]
    BY <1>1, <1>2 DEF Resolve
  <2> DEFINE r == Resolved(ops[o], s, start)
  <2>2. /\ r.previous = ops[o].previous /\ r.target = ops[o].target
        /\ ops[o].status # "pending" => r = ops[o]
        /\ r.replay = ops[o].replay \/ (ops[o].replay = NoReplay /\ r.replay = s.at)
        /\ start /\ r.status = "pending" => r.replay # NoReplay
    BY <1>2, <2>1, ResolvedShape
  <2> HIDE DEF r
  <2>3. ops' = [ops EXCEPT ![o] = r]
    BY <2>1 DEF r
  <2> QED BY <1>1, <1>2, <2>2, <2>3
<1>3. CASE ops' = ops /\ calls'[k].pc # "authorized"
  BY <1>3
<1>4. CASE Authorize(k)
  <2> DEFINE o == calls[k].op
             s == calls[k].snap
             needed == StateOf(ops[o], s) = "previous"
  <2>1. o \in DOMAIN ops /\ needed \in BOOLEAN
    BY <1>4 DEF Authorize, ChargeInv, Stored
  <2>2. Projected(s) \in Snapshot /\ Projected(s).at \in 0..now
    BY <1>1 DEF Projected
  <2>3. Resolve(o, Projected(s), needed)
    BY <1>4 DEF Authorize
  <2>4. \/ Moves(k, "idle")
        \/ Moves(k, "authorized") /\ needed /\ ops'[o].status = "pending"
    BY <1>4 DEF Authorize
  <2>5. lock = NoCaller /\ calls'[k].pc \in {"idle", "authorized"}
    BY <1>1, <1>4, <2>4 DEF Authorize, Unclaimed, Moves, Call
  <2> HIDE DEF o, s, needed
  <2>6. Shape /\ (needed /\ ops'[o].status = "pending" => ops'[o].replay # NoReplay)
    BY <1>2, <2>1, <2>2, <2>3
  <2>7. calls'[k].pc = "authorized" => needed /\ ops'[o].status = "pending"
    BY <1>1, <2>4 DEF Moves
  <2> QED BY <1>1, <2>5, <2>6, <2>7 DEF o
<1>5. CASE Claim(k)
  <2>1. CASE UNCHANGED ops /\ Keeps(k, "locked", NoSnapshot)
    BY <1>1, <1>3, <2>1 DEF Keeps
  <2>2. CASE Resolve(calls[k].op, sub, FALSE) /\ Moves(k, "idle")
    BY <1>5, <1>1, <2>2, <1>2 DEF Claim, ChargeInv, Stored, Unclaimed, Moves
  <2> QED BY <1>5, <2>1, <2>2 DEF Claim
<1>6. CASE Recheck(k) \/ Commit(k)
  <2> DEFINE s == calls[k].snap
  <2>1. /\ calls[k].op \in DOMAIN ops /\ calls[k].pc \in Locked
        /\ Resolve(calls[k].op, Projected(s), FALSE) /\ Moves(k, "idle")
    BY <1>6 DEF Recheck, Commit, Commits, ChargeInv, Stored, Locked
  <2>2. Projected(s) \in Snapshot /\ Projected(s).at \in 0..now
    BY <1>1 DEF Projected
  <2>3. lock = k /\ calls'[k].pc = "idle"
    BY <1>1, <2>1 DEF ChargeInv, LockHeld, Moves
  <2> HIDE DEF s
  <2>4. Shape
    BY <1>2, <2>1, <2>2
  <2> QED BY <1>1, <2>3, <2>4
<1>7. CASE Reject(k)
  <2> DEFINE o == calls[k].op
             op == ops[o]
             new == IF op.status = "pending" /\ StateOf(op, sub) = "previous"
                      THEN Closed(op, "failed", "rejected")
                      ELSE Resolved(op, sub, FALSE)
  <2>1. o \in DOMAIN ops /\ op \in Operation
    BY <1>1, <1>7 DEF Reject, ChargeInv, Stored
  <2>2. ops' = [ops EXCEPT ![o] = new] /\ lock = NoCaller
    BY <1>7 DEF Reject, Unclaimed
  <2>3. calls'[k].pc = "idle"
    BY <1>1, <1>7 DEF Reject, Moves
  <2>4. /\ new.previous = op.previous /\ new.target = op.target
        /\ new.status = "pending" => op.status = "pending"
        /\ new.replay = op.replay \/ (op.replay = NoReplay /\ new.replay = sub.at)
    <3>1. CASE op.status = "pending" /\ StateOf(op, sub) = "previous"
      BY <2>1, <3>1 DEF Closed, Operation
    <3>2. CASE ~(op.status = "pending" /\ StateOf(op, sub) = "previous")
      <4> DEFINE r == Resolved(op, sub, FALSE)
      <4> HIDE DEF op
      <4>1. /\ r.previous = op.previous /\ r.target = op.target
            /\ op.status # "pending" => r = op
            /\ r.replay = op.replay \/ (op.replay = NoReplay /\ r.replay = sub.at)
        BY <1>1, <2>1 DEF Resolved, Closed, Operation, NoReplay
      <4>2. new = r
        BY <3>2 DEF op
      <4> HIDE DEF r, new
      <4> QED BY <4>1, <4>2
    <3> QED BY <3>1, <3>2
  <2> HIDE DEF new
  <2>5. Shape
    BY <1>1, <2>1, <2>2, <2>4
  <2> QED BY <1>1, <2>2, <2>3, <2>5
<1>8. CASE ~(Authorize(k) \/ Claim(k) \/ Recheck(k) \/ Commit(k) \/ Reject(k))
  <2>1. ops' = ops
    BY <1>8 DEF CallStep, CallFault, Observe, Reserve, Post, PostFailsAgain,
         RejectsEnded, Abandon, Rejects, RolledBack, PostLost
  <2>2. calls'[k].pc # "authorized"
    <3> DEFINE kept == {"read", "reread", "observed", "rechecked", "answered",
                        "posted", "rejected"}
    <3>1. CASE Observe(k) \/ Reserve(k) \/ Post(k) \/ RejectsEnded(k) \/ Rejects(k)
      <4>1. calls'[k].pc \in kept
        <5>1. CASE Observe(k)
          BY <1>1, <5>1 DEF Observe, ReadAs, Keeps, Call
        <5>2. CASE Reserve(k)
          BY <1>1, <5>2 DEF Reserve, Keeps, Call
        <5>3. CASE Post(k)
          BY <1>1, <5>3 DEF Post, Keeps, Call
        <5>4. CASE RejectsEnded(k) \/ Rejects(k)
          BY <1>1, <5>4 DEF RejectsEnded, Rejects, RolledBack, Keeps, Call
        <5> QED BY <3>1, <5>1, <5>2, <5>3, <5>4
      <4> QED BY <4>1
    <3>2. CASE PostFailsAgain(k) \/ Abandon(k) \/ PostLost(k)
      BY <1>1, <3>2 DEF PostFailsAgain, Abandon, PostLost, Fails, Moves
    <3> QED BY <1>8, <3>1, <3>2 DEF CallStep, CallFault
  <2> QED BY <1>3, <2>1, <2>2
<1> QED BY <1>4, <1>5, <1>6, <1>7, <1>8

(* Where a request is, what it has read and who holds the account, after a *)
(* step of it.                                                             *)
LEMMA CallControl ==
  ASSUME ChargeInv, NEW k \in Callers, CallStep(k) \/ CallFault(k)
  PROVE  /\ calls'[k].pc \in Locked =>
              /\ lock' = k /\ ops' = ops
              /\ \/ calls[k].pc \in Locked
                 \/ /\ calls[k].pc = "authorized" /\ lock = NoCaller
                    /\ ops[calls[k].op].status = "pending"
         /\ calls'[k].pc \notin Locked => lock' = IF lock = k THEN NoCaller ELSE lock
         /\ calls'[k].snap.at \in 0..now
         /\ calls'[k].pc \in {"reread", "rechecked"} =>
              \/ calls'[k].snap.at = now
              \/ /\ calls[k].pc \in {"reread", "rechecked"}
                 /\ calls'[k].snap.at = calls[k].snap.at
         /\ sub'.at \in 0..now
         /\ UNCHANGED <<now, workers, required>>
<1>1. /\ calls \in [Callers -> Call] /\ calls[k] \in Call
      /\ calls[k].snap \in Snapshot /\ sub \in Snapshot /\ now \in Nat
      /\ calls[k].snap.at \in 0..now /\ sub.at \in 0..now
      /\ NoCall.pc = "idle" /\ NoCall.snap.at = 0 /\ NoSnapshot.at = 0
  BY DEF ChargeInv, TypeOK, OfThePast, Call, Snapshot, NoCall, NoSnapshot
<1>2. calls[k].pc \in Locked <=> lock = k
  BY DEF ChargeInv, LockHeld
<1>3. \A pc, s : Keeps(k, pc, s) => calls'[k].pc = pc /\ calls'[k].snap = s
  BY <1>1 DEF Keeps, Call
<1>4. \A pc : Moves(k, pc) =>
        /\ calls'[k].pc = pc
        /\ calls'[k].snap = IF pc = "idle" THEN NoSnapshot ELSE calls[k].snap
  BY <1>1 DEF Moves, Call, NoCall
<1>5. \A s, kind : SnapshotOf(s, kind).at = now
  BY DEF SnapshotOf
<1>6. Projected(calls[k].snap).at \in 0..now
  BY <1>1 DEF Projected
<1>7. UNCHANGED <<now, workers, required>>
  BY DEF CallStep, CallFault, Observe, Reserve, Authorize, Claim, Recheck, Commit,
     Commits, Reject, Post, PostFailsAgain, RejectsEnded, Abandon, Rejects,
     RolledBack, PostLost, OfCall
<1>8. CASE Observe(k)
  BY <1>1, <1>2, <1>3, <1>5, <1>7, <1>8 DEF Observe, ReadAs, Locked
<1>9. CASE Reserve(k)
  BY <1>1, <1>3, <1>9, <1>2, <1>7 DEF Snapshot, Reserve, Locked
<1>10. CASE Authorize(k)
  BY <1>1, <1>2, <1>4, <1>6, <1>7, <1>10 DEF Authorize, Project, Locked
<1>11. CASE Claim(k)
  <2>1. /\ calls[k].pc = "authorized" /\ lock = NoCaller /\ sub' = sub
    BY <1>11 DEF Claim, Unclaimed
  <2>2. CASE IsCurrent(k) /\ lock' = k /\ Keeps(k, "locked", NoSnapshot) /\ UNCHANGED ops
    BY <1>1, <1>3, <2>2, <1>7, <2>1 DEF IsCurrent, Locked
  <2>3. CASE Moves(k, "idle") /\ UNCHANGED lock
    BY <1>1, <1>4, <2>3, <1>2, <1>7, <2>1 DEF Locked
  <2> QED BY <1>11, <2>2, <2>3 DEF Claim
<1>12. CASE Recheck(k) \/ Commit(k)
  <2>1. /\ calls[k].pc \in {"rechecked", "answered"} /\ lock' = NoCaller
        /\ Moves(k, "idle") /\ Project(calls[k].snap)
    BY <1>12 DEF Recheck, Commit, Commits
  <2>2. calls'[k].pc = "idle" /\ calls'[k].snap.at = 0 /\ sub'.at \in 0..now
    BY <1>1, <1>4, <1>6, <2>1 DEF Project
  <2> QED BY <1>1, <1>2, <1>7, <2>1, <2>2 DEF Locked
<1>13. CASE Reject(k)
  BY <1>1, <1>2, <1>4, <1>7, <1>13 DEF Reject, Locked
<1>14. CASE Post(k)
  BY <1>1, <1>2, <1>3, <1>5, <1>7, <1>14 DEF Post, Locked
<1>15. CASE PostFailsAgain(k) \/ PostLost(k) \/ Abandon(k)
  BY <1>1, <1>2, <1>4, <1>7, <1>15 DEF PostFailsAgain, PostLost, Abandon, Fails, Locked
<1>16. CASE RejectsEnded(k) \/ Rejects(k)
  BY <1>1, <1>2, <1>3, <1>7, <1>16 DEF RejectsEnded, Rejects, RolledBack, Locked
<1> QED BY <1>8, <1>9, <1>10, <1>11, <1>12, <1>13, <1>14, <1>15, <1>16
        DEF CallStep, CallFault

(* An update is executed for a pending operation, by the request that has  *)
(* claimed the account, and only if its key was never used: had it been    *)
(* used, Stripe would know it for as long as the operation may be replayed.*)
LEMMA ExecutedFirst ==
  ASSUME ChargeInv, NEW k \in Callers, calls[k].pc = "rechecked", MayPost(k),
         ~Kept(calls[k].op)
  PROVE  /\ calls[k].op \in DOMAIN ops /\ ops[calls[k].op].status = "pending"
         /\ ops[calls[k].op].replay # NoReplay /\ ops[calls[k].op].replay <= now
         /\ keys[calls[k].op].state = "unused" /\ executed[calls[k].op] = 0
         /\ lock = k
<1> DEFINE o == calls[k].op
<1>1. /\ o \in DOMAIN ops /\ o \in OpIds /\ ops[o] \in Operation
      /\ calls[k].snap \in Snapshot /\ now \in Nat /\ keys[o] \in Key
  BY DEF ChargeInv, TypeOK, Stored, Call
<1>2. ops[o].status = "pending" /\ ops[o].replay # NoReplay /\ lock = k
  BY DEF ChargeInv, Authorized, LockHeld, Locked
<1>3. ops[o].replay <= now /\ now <= calls[k].snap.at + 1
  BY <1>1 DEF ChargeInv, OfThePast, Prompt
<1>4. calls[k].snap.at < ops[o].replay + Window
  BY DEF MayPost, ReplayEnds
<1>5. ASSUME keys[o].state # "unused" PROVE FALSE
  <2>1. ops[o].replay <= keys[o].at
    BY <1>1, <1>5 DEF ChargeInv, KeysLate
  <2>2. ~(now < keys[o].at + KeyLife)
    BY <1>5 DEF Kept
  <2>3. /\ ops[o].replay \in Nat /\ keys[o].at \in Nat /\ calls[k].snap.at \in Nat
        /\ Window \in Nat
    BY <1>1, <1>2, BillingAssumption DEF Operation, Key, Snapshot
  <2> HIDE DEF o
  <2> QED BY <1>1, <1>3, <1>4, <2>1, <2>2, <2>3 DEF KeyLife
<1>6. executed[o] = 0
  BY <1>1, <1>5 DEF ChargeInv, KeysLate
<1> QED BY <1>1, <1>2, <1>3, <1>5, <1>6

LEMMA CallCharge ==
  ASSUME ChargeInv, NEW k \in Callers, CallStep(k) \/ CallFault(k)
  PROVE  ChargeInv'
<1>1. TypeOK' /\ Stored'
  BY CallStepTypes, StoredKept DEF ChargeInv, Next
<1>2. /\ \A c \in Callers \ {k} : calls'[c] = calls[c]
      /\ calls'[k].pc # "idle" => calls[k].pc # "idle" /\ calls'[k].op = calls[k].op
  BY CallShape DEF ChargeInv
<1> DEFINE Control ==
             /\ calls'[k].pc \in Locked =>
                  /\ lock' = k /\ ops' = ops
                  /\ \/ calls[k].pc \in Locked
                     \/ /\ calls[k].pc = "authorized" /\ lock = NoCaller
                        /\ ops[calls[k].op].status = "pending"
             /\ calls'[k].pc \notin Locked => lock' = IF lock = k THEN NoCaller ELSE lock
<1>3. Control
  BY CallControl
<1>4. /\ calls'[k].snap.at \in 0..now
      /\ calls'[k].pc \in {"reread", "rechecked"} =>
           \/ calls'[k].snap.at = now
           \/ /\ calls[k].pc \in {"reread", "rechecked"}
              /\ calls'[k].snap.at = calls[k].snap.at
      /\ sub'.at \in 0..now /\ UNCHANGED <<now, workers, required>>
  BY CallControl
<1>5. /\ DOMAIN ops' = DOMAIN ops
      /\ \A o \in DOMAIN ops :
           /\ ops'[o].previous = ops[o].previous /\ ops'[o].target = ops[o].target
           /\ ops'[o].status = "pending" => ops[o].status = "pending"
           /\ \/ ops'[o].replay = ops[o].replay
              \/ ops[o].replay = NoReplay /\ ops'[o].replay \in 0..now
  BY OpsShape
<1>6. /\ ops' # ops => lock \in {NoCaller, k} /\ calls'[k].pc \notin Locked
      /\ calls'[k].pc = "authorized" => ops'[calls[k].op].replay # NoReplay
  BY OpsShape
<1>7. LockHeld'
  <2>1. ASSUME NEW c \in Callers PROVE calls'[c].pc \in Locked <=> lock' = c
    <3>1. LockHeld /\ NoCaller \notin Callers
      BY BillingAssumption DEF ChargeInv
    <3>2. CASE c = k
      BY <1>3, <3>1, <3>2 DEF LockHeld
    <3>3. CASE c # k
      BY <1>2, <3>3, <1>3, <3>1 DEF LockHeld
    <3> QED BY <3>2, <3>3
  <2> QED BY <2>1 DEF LockHeld
<1>8. Authorized'
  <2>1. ASSUME NEW c \in Callers, calls'[c].pc \in Locked \cup {"authorized"}
        PROVE  ops'[calls'[c].op].replay # NoReplay
    <3>1. "idle" \notin Locked \cup {"authorized"}
      BY DEF Locked
    <3>2. CASE c = k /\ calls'[k].pc = "authorized"
      BY <1>2, <1>6, <3>2
    <3>3. CASE c = k /\ calls'[k].pc \in Locked
      BY <1>2, <1>3, <3>1, <3>3 DEF ChargeInv, Authorized
    <3>4. CASE c # k
      BY <1>2, <2>1, <3>1, <3>4, <1>5 DEF ChargeInv, Stored, Authorized
    <3> QED BY <2>1, <3>2, <3>3, <3>4
  <2>2. ASSUME NEW c \in Callers, calls'[c].pc \in Locked
        PROVE  ops'[calls'[c].op].status = "pending"
    <3>1. "idle" \notin Locked
      BY DEF Locked
    <3>2. CASE c = k
      BY <1>2, <1>3, <2>2, <3>1, <3>2 DEF ChargeInv, Authorized
    <3>3. CASE c # k
      BY <1>2, <2>2, <3>3, <1>6, BillingAssumption DEF ChargeInv, LockHeld,
         Authorized
    <3> QED BY <3>2, <3>3
  <2> QED BY <2>1, <2>2 DEF Authorized
<1>9. OfThePast'
  <2>1. now \in Nat
    BY DEF ChargeInv, TypeOK
  <2>2. \A c \in Callers : calls'[c].snap.at <= now
    BY <1>2, <1>4, <2>1 DEF ChargeInv, OfThePast
  <2>3. \A o \in DOMAIN ops : ops'[o].replay <= now
    BY <1>5, <2>1 DEF ChargeInv, OfThePast
  <2> QED BY <1>4, <1>5, <2>1, <2>2, <2>3 DEF ChargeInv, OfThePast
<1>10. Prompt'
  <2>1. now \in Nat
    BY DEF ChargeInv, TypeOK
  <2>2. ASSUME NEW c \in Callers, calls'[c].pc \in {"reread", "rechecked"}
        PROVE  now <= calls'[c].snap.at + 1
    <3>1. CASE c = k
      BY <1>4, <2>1, <2>2, <3>1 DEF ChargeInv, Prompt
    <3>2. CASE c # k
      BY <1>2, <2>2, <3>2 DEF ChargeInv, Prompt
    <3> QED BY <3>1, <3>2
  <2> QED BY <1>4, <2>2 DEF Prompt
<1>11. KeysLate'
  <2>1. CASE UNCHANGED <<keys, executed>>
    BY <1>5, <2>1 DEF ChargeInv, KeysLate, OpIds, TypeOK
  <2>2. CASE ~UNCHANGED <<keys, executed>>
    <3> DEFINE o == calls[k].op
    <3>1. /\ calls[k].pc = "rechecked" /\ MayPost(k) /\ ~Kept(o) /\ ops' = ops
          /\ \E state \in {"kept", "failed"} : KeepsAnswer(o, state)
          /\ Executes(o) \/ UNCHANGED executed
      <4>1. Post(k) \/ PostLost(k)
        BY <2>2 DEF CallStep, CallFault, Observe, Reserve, Authorize, Claim, Recheck,
           Commit, Commits, Reject, PostFailsAgain, RejectsEnded, Abandon, Rejects,
           RolledBack, provider
      <4> QED BY <2>2, <4>1 DEF Post, PostLost, provider
    <3>2. /\ o \in DOMAIN ops /\ ops[o].replay # NoReplay /\ ops[o].replay <= now
      BY <3>1, ExecutedFirst
    <3>3. PICK state \in {"kept", "failed"} : KeepsAnswer(o, state)
      BY <3>1
    <3>4. /\ keys'[o].state = state /\ keys'[o].at = now
          /\ \A p \in OpIds : p # o => keys'[p] = keys[p]
      BY <3>2, BillingAssumption, <3>3 DEF ChargeInv, TypeOK, OpIds, KeepsAnswer
    <3>5. \A p \in OpIds : p # o => executed'[p] = executed[p]
      BY <3>1 DEF Executes, ChargeInv, TypeOK
    <3> HIDE DEF o
    <3>6. ASSUME NEW p \in OpIds
          PROVE  /\ keys'[p].state = "unused" => executed'[p] = 0
                 /\ keys'[p].state # "unused" =>
                      /\ p \in DOMAIN ops /\ ops[p].replay # NoReplay
                      /\ ops[p].replay <= keys'[p].at
      <4>1. CASE p = o
        BY <3>3, <3>4, <4>1, <3>2
      <4>2. CASE p # o
        BY <3>4, <3>5, <4>2 DEF ChargeInv, KeysLate
      <4> QED BY <4>1, <4>2
    <3> QED BY <3>1, <3>6 DEF KeysLate
  <2> QED BY <2>1, <2>2
<1>12. DecreaseCounts'
  BY <1>4, <1>5 DEF ChargeInv, DecreaseCounts, Pending
<1> QED BY <1>1, <1>7, <1>8, <1>9, <1>10, <1>11, <1>12 DEF ChargeInv

LEMMA PrepareCharge ==
  ASSUME ChargeInv, NEW k \in Callers, NEW target \in menu.targets, Prepare(k, target)
  PROVE  ChargeInv'
<1>1. TypeOK' /\ Stored'
  BY PrepareTypes, StoredKept DEF ChargeInv, Next
<1>2. /\ UNCHANGED <<now, workers, required, sub, lock, keys, executed>>
      /\ target >= required /\ lock = NoCaller
  BY DEF Prepare, OfCall, provider, Unclaimed
<1>3. /\ \A c \in Callers \ {k} : calls'[c] = calls[c]
      /\ calls'[k].pc = "prepared" /\ calls[k].pc = "idle"
      /\ calls'[k].snap = calls[k].snap
  BY DEF Prepare, ChargeInv, TypeOK, Call
<1>4. /\ DOMAIN ops \subseteq DOMAIN ops'
      /\ \A o \in DOMAIN ops : ops'[o] = ops[o]
      /\ \A o \in DOMAIN ops' \ DOMAIN ops :
           ops'[o].target = target /\ ops'[o].replay = NoReplay
  <2>1. CASE UNCHANGED ops
    BY <2>1
  <2>2. CASE ops' = Append(ops, [previous |-> sub.quantity, target |-> target,
                                 status |-> "pending", outcome |-> "none",
                                 replay |-> NoReplay])
    BY <2>2 DEF ChargeInv, TypeOK
  <2> QED BY <2>1, <2>2 DEF Prepare
<1>5. "prepared" \notin Locked \cup {"authorized"} /\ "idle" \notin Locked \cup {"authorized"}
  BY DEF Locked
<1>6. LockHeld'
  BY <1>2, <1>3, <1>5 DEF ChargeInv, LockHeld
<1>7. Authorized'
  <2>1. ASSUME NEW c \in Callers, calls'[c].pc \in Locked \cup {"authorized"}
        PROVE  calls'[c] = calls[c] /\ ops'[calls[c].op] = ops[calls[c].op]
    BY <1>3, <1>4, <1>5, <2>1 DEF ChargeInv, Stored
  <2> QED BY <2>1 DEF ChargeInv, Authorized
<1>8. OfThePast'
  BY <1>2, <1>3, <1>4 DEF ChargeInv, TypeOK, OfThePast, NoReplay
<1>9. Prompt'
  BY <1>2, <1>3 DEF ChargeInv, Prompt
<1>10. KeysLate'
  BY <1>2, <1>4 DEF ChargeInv, KeysLate
<1>11. DecreaseCounts'
  BY <1>4, <1>2 DEF Pending, ChargeInv, DecreaseCounts
<1> QED BY <1>1, <1>6, <1>7, <1>8, <1>9, <1>10, <1>11 DEF ChargeInv

LEMMA WorkCharge ==
  ASSUME ChargeInv, NEW w \in Workers, WorkStep(w) \/ WorkFault(w)
  PROVE  ChargeInv'
<1>1. TypeOK' /\ Stored'
  BY WorkStepTypes, StoredKept DEF ChargeInv, Next
<1>2. UNCHANGED <<now, calls, ops, lock, keys, executed, required>>
  BY DEF WorkStep, WorkFault, OfEvents, provider, Acquire, ResolveEvent,
     ReserveForEvent, ApplyEvent, Complete, Release, Settle, EventFails, WorkerCrashes
<1>3. /\ workers \in [Workers -> Work] /\ sub \in Snapshot /\ now \in Nat
      /\ workers[w].snap \in Snapshot /\ workers[w].snap.at <= now /\ sub.at <= now
  BY DEF ChargeInv, TypeOK, OfThePast, Work
<1>4. sub'.at <= now
  BY <1>3 DEF WorkStep, WorkFault, Acquire, ResolveEvent, ReserveForEvent, ApplyEvent,
     Complete, Release, Settle, EventFails, WorkerCrashes, Project, Projected
<1>5. \A v \in Workers : workers'[v].snap.at <= now
  <2>1. \A v \in Workers \ {w} : workers'[v] = workers[v]
    BY <1>3 DEF WorkStep, WorkFault, Acquire, ResolveEvent, ReserveForEvent, ApplyEvent,
       Complete, Release, Settle, EventFails, WorkerCrashes
  <2>2. workers'[w].snap.at <= now
    <3>1. [workers[w].snap EXCEPT !.revision = NextRevision].at = workers[w].snap.at
      BY <1>3 DEF Snapshot
    <3>2. NoSnapshot.at <= now /\ NoWork.snap.at <= now
      BY <1>3 DEF NoSnapshot, NoWork
    <3>3. SnapshotOf(stripe, Observation).at <= now
      BY <1>3 DEF SnapshotOf
    <3>4. CASE \E v \in Versions : Acquire(w, v)
      BY <1>3, <3>4 DEF Acquire, Work
    <3>5. CASE ResolveEvent(w)
      BY <1>3, <3>3, <3>5 DEF ResolveEvent, Work
    <3>6. CASE ReserveForEvent(w)
      BY <1>3, <3>1, <3>6 DEF ReserveForEvent, Work
    <3>7. CASE ApplyEvent(w) \/ EventFails(w)
      BY <1>3, <3>2, <3>7 DEF ApplyEvent, EventFails, Work
    <3>8. CASE Complete(w) \/ Release(w) \/ WorkerCrashes(w)
      BY <1>3, <3>2, <3>8 DEF Complete, Release, Settle, WorkerCrashes
    <3> QED BY <3>4, <3>5, <3>6, <3>7, <3>8 DEF WorkStep, WorkFault
  <2> QED BY <2>1, <2>2 DEF ChargeInv, OfThePast
<1> QED BY <1>1, <1>2, <1>4, <1>5 DEF ChargeInv, LockHeld, Authorized, OfThePast,
          Prompt, KeysLate, DecreaseCounts, Pending

(* Seats are assigned below what a pending decrease asks for.              *)
LEMMA CapacityBound ==
  ASSUME TypeOK
  PROVE  /\ Capacity \in Nat /\ Capacity <= sub.quantity
         /\ \A o \in Pending : ops[o].target < ops[o].previous => Capacity <= ops[o].target
<1> DEFINE Decreases == {p \in Pending : ops[p].previous > ops[p].target}
           Targets == {ops[o].target : o \in Decreases}
<1>1. sub.quantity \in Nat /\ Targets \subseteq Nat
  <2>1. \A o \in Pending : ops[o] \in Operation
    BY DEF TypeOK, Pending
  <2>2. \A o \in Pending : ops[o].target \in Nat
    BY <2>1 DEF Operation, Quantities
  <2>3. sub.quantity \in Nat
    BY DEF TypeOK, Snapshot, Quantities
  <2> QED BY <2>2, <2>3
<1>2. \A a, b \in Targets : a = b
  BY DEF TypeOK, Pending
<1>3. Capacity = Min({sub.quantity} \cup Targets)
  BY DEF Capacity
<1>4. \A o \in Pending : ops[o].target < ops[o].previous => ops[o].target \in Targets
  BY DEF TypeOK, Operation, Quantities, Pending
<1> HIDE DEF Targets
<1>5. /\ Capacity \in {sub.quantity} \cup Targets
      /\ \A n \in {sub.quantity} \cup Targets : Capacity <= n
  <2>1. sub.quantity \in Int /\ Targets \subseteq Int
    BY <1>1
  <2> QED BY <1>2, <1>3, <2>1, LeastOf
<1> QED BY <1>1, <1>4, <1>5

LEMMA OthersCharge ==
  ASSUME ChargeInv,
         \/ \E v \in Versions : Ingest(v) \/ LeaseExpires(v)
         \/ \E quantity \in menu.outside : ChangeOutside(quantity)
         \/ AssignSeat \/ UnassignSeat \/ Tick
  PROVE  ChargeInv'
<1>1. TypeOK' /\ Stored'
  BY OthersTypes, StoredKept DEF ChargeInv, Next
<1>2. CASE AssignSeat \/ UnassignSeat
  <2>1. UNCHANGED <<now, sub, workers, calls, ops, lock, keys, executed>>
    BY <1>2 DEF AssignSeat, UnassignSeat, Seats, provider
  <2>2. DecreaseCounts'
    <3>1. /\ required \in Nat /\ Capacity \in Nat
          /\ \A o \in Pending : ops[o].target \in Nat
          /\ \A o \in Pending :
               ops[o].target < ops[o].previous => Capacity <= ops[o].target
      <4>1. \A o \in Pending : ops[o] \in Operation
        BY DEF ChargeInv, TypeOK, Pending
      <4>2. \A o \in Pending : ops[o].target \in Nat
        BY <4>1 DEF Operation, Quantities
      <4> QED BY <4>2, CapacityBound DEF ChargeInv, TypeOK
    <3>2. required' <= required \/ required' <= Capacity
      BY <1>2, <3>1 DEF AssignSeat, UnassignSeat
    <3>3. required' \in Nat
      BY <1>1 DEF TypeOK
    <3> QED BY <2>1, <3>1, <3>2, <3>3 DEF ChargeInv, DecreaseCounts, Pending
  <2> QED BY <1>1, <2>1, <2>2 DEF ChargeInv, LockHeld, Authorized, OfThePast,
            Prompt, KeysLate
<1>3. CASE Tick
  <2>1. /\ now \in Nat /\ now' = now + 1
        /\ \A c \in Callers :
             calls[c].pc \in {"reread", "rechecked"} => now <= calls[c].snap.at
        /\ UNCHANGED <<sub, workers, calls, ops, lock, keys, executed, required>>
    BY <1>3 DEF Tick, ChargeInv, TypeOK, provider
  <2>2. /\ \A c \in Callers : calls[c].snap.at \in Nat
        /\ \A w \in Workers : workers[w].snap.at \in Nat
        /\ \A o \in DOMAIN ops : ops[o].replay \in Int
        /\ sub.at \in Nat
    <3>1. /\ \A c \in Callers : calls[c] \in Call
          /\ \A w \in Workers : workers[w] \in Work
          /\ \A o \in DOMAIN ops : ops[o] \in Operation
          /\ sub \in Snapshot
      BY DEF ChargeInv, TypeOK
    <3>2. \A c \in Callers : calls[c].snap.at \in Nat
      BY <3>1 DEF Call, Snapshot
    <3>3. \A w \in Workers : workers[w].snap.at \in Nat
      BY <3>1 DEF Work, Snapshot
    <3>4. \A o \in DOMAIN ops : ops[o].replay \in Int
      BY <3>1 DEF Operation, NoReplay
    <3> QED BY <3>1, <3>2, <3>3, <3>4 DEF Snapshot
  <2>3. OfThePast' /\ Prompt'
    BY <2>1, <2>2 DEF ChargeInv, OfThePast, Prompt
  <2> QED BY <1>1, <2>1, <2>3 DEF ChargeInv, LockHeld, Authorized, KeysLate,
            DecreaseCounts, Pending
<1>4. CASE \/ \E v \in Versions : Ingest(v) \/ LeaseExpires(v)
           \/ \E quantity \in menu.outside : ChangeOutside(quantity)
  <2>1. UNCHANGED <<now, sub, workers, calls, ops, lock, keys, executed, required>>
    BY <1>4 DEF Ingest, LeaseExpires, ChangeOutside, OfEvents, provider
  <2> QED BY <1>1, <2>1 DEF ChargeInv, LockHeld, Authorized, OfThePast, Prompt,
            KeysLate, DecreaseCounts, Pending
<1> QED BY <1>2, <1>3, <1>4

LEMMA ChargeStart ==
  Init => ChargeInv
<1> SUFFICES ASSUME Init PROVE ChargeInv
  OBVIOUS
<1>1. /\ MaxOps \in Nat \ {0} /\ MaxVersion \in Nat \ {0} /\ Menus \subseteq Menu
      /\ NoCaller \notin Callers /\ 1 \in Versions /\ 1 \in OpIds
  BY BillingAssumption DEF Versions, OpIds
<1>2. First \in Subscription /\ NoSnapshot \in Snapshot /\ NoCall \in Call /\ NoWork \in Work
  BY <1>1, NothingType DEF First, Subscription, Quantities
<1>3. sub \in Snapshot /\ sub.at = 0
  <2>1. sub = [quantity |-> 2, active |-> TRUE, version |-> 1, at |-> 0,
               revision |-> 1, kind |-> 0]
    BY DEF Init, SnapshotOf, First, Observation
  <2>2. 2 \in Quantities /\ 0 \in {Observation, MutationResponse}
    BY DEF Quantities, Observation
  <2> QED BY <1>1, <2>1, <2>2 DEF Snapshot
<1>4. /\ keys \in [OpIds -> Key] /\ inbox \in [Versions -> Event]
      /\ workers \in [Workers -> Work] /\ calls \in [Callers -> Call]
  BY <1>2 DEF Init, Key, Event
<1>5. ops \in Seq(Operation) /\ Len(ops) = 0 /\ DOMAIN ops = {}
  BY DEF Init
<1>6. TypeOK
  BY <1>1, <1>2, <1>3, <1>4, <1>5 DEF Init, TypeOK
<1>7. NoCall.pc = "idle" /\ NoCall.snap.at = 0 /\ NoWork.snap.at = 0 /\ now = 0
  BY DEF NoCall, NoWork, NoSnapshot, Init
<1>8. Stored /\ LockHeld /\ Authorized /\ Prompt
  BY <1>1, <1>7 DEF Init, Stored, LockHeld, Authorized, Prompt, Locked
<1>9. OfThePast /\ KeysLate /\ DecreaseCounts
  BY <1>3, <1>5, <1>7 DEF Init, OfThePast, KeysLate, DecreaseCounts, Pending
<1> QED BY <1>6, <1>8, <1>9 DEF ChargeInv

LEMMA ChargeKept ==
  ChargeInv /\ [Next]_vars => ChargeInv'
<1> SUFFICES ASSUME ChargeInv, [Next]_vars PROVE ChargeInv'
  OBVIOUS
<1>1. CASE Next
  BY <1>1, PrepareCharge, CallCharge, WorkCharge, OthersCharge DEF Next
<1>2. CASE UNCHANGED vars
  <2>1. TypeOK' /\ Stored'
    BY <1>2, StoredKept DEF vars, ChargeInv, TypeOK
  <2> QED BY <1>2, <2>1 DEF vars, ChargeInv, LockHeld, Authorized, OfThePast, Prompt,
            KeysLate, DecreaseCounts, Pending
<1> QED BY <1>1, <1>2

THEOREM ChargeInvariant == Spec => []ChargeInv
BY ChargeStart, ChargeKept, PTL DEF Spec

(* The variables of the backend, of Stripe and of its clock keep their     *)
(* types, and two operations are never pending together.                   *)
THEOREM BillingTypeCorrect == Spec => []TypeOK
<1>1. ChargeInv => TypeOK
  BY DEF ChargeInv
<1> QED BY <1>1, ChargeInvariant, PTL

(* Stripe executes the update of an operation at most once, while it is    *)
(* pending, and never below the seats in use: ChangeAsync.                 *)
THEOREM OneCharge == Spec => ChargedOnce
<1>1. ASSUME ChargeInv, [Next]_vars, NEW o \in OpIds, executed'[o] # executed[o]
      PROVE  /\ executed[o] = 0 /\ ops[o].status = "pending"
             /\ ops[o].target < ops[o].previous => required <= ops[o].target
  <2>1. PICK k \in Callers : Post(k) \/ PostLost(k)
    BY ZenonT(30), <1>1
    DEF Next, vars, provider, Prepare, CallStep, CallFault, Observe, Reserve,
       Authorize, Claim, Recheck, Commit, Commits, Reject, PostFailsAgain, RejectsEnded,
       Abandon, Rejects, RolledBack, WorkStep, WorkFault, OfEvents, Acquire, ResolveEvent,
       ReserveForEvent, ApplyEvent, Complete, Release, Settle, EventFails, WorkerCrashes,
       Ingest, LeaseExpires, ChangeOutside, AssignSeat, UnassignSeat, Seats, Tick
  <2>2. /\ calls[k].pc = "rechecked" /\ MayPost(k) /\ ~Kept(calls[k].op)
        /\ Executes(calls[k].op)
    BY <1>1, <2>1 DEF Post, PostLost, provider
  <2>3. o = calls[k].op
    BY <1>1, <2>2 DEF Executes, ChargeInv, TypeOK
  <2> QED BY <1>1, <2>2, <2>3, ExecutedFirst DEF ChargeInv, DecreaseCounts, Pending
<1>2. ChargeInv /\ [Next]_vars => [\A o \in OpIds : executed'[o] # executed[o] =>
       /\ executed[o] = 0
       /\ ops[o].status = "pending"
       /\ ops[o].target < ops[o].previous => required <= ops[o].target]_vars
  BY <1>1
<1> QED BY <1>2, ChargeInvariant, PTL DEF Spec, ChargedOnce

-----------------------------------------------------------------------------
(* Seats in use are paid for.                                              *)

Undisturbed == changed \cap {"outside", "tied"} = {} /\ ~RejectedBlindly

(* What was read at Stripe and is compared yet.                            *)
HoldsRead(c) == calls[c].pc \in {"read", "observed", "authorized", "reread",
                              "rechecked", "posted", "answered"}
EventHoldsRead(w) == workers[w].pc \in {"read", "observed"}
Reads == {sub} \cup {calls[c].snap : c \in {k \in Callers : HoldsRead(k)}}
               \cup {workers[w].snap : w \in {k \in Workers : EventHoldsRead(k)}}

(* Each was true, of the version it names, and the versions follow the     *)
(* seconds.                                                                *)
ReadsTrue ==
  /\ stripe.active
  /\ \A s \in Reads :
       /\ s.active /\ s.version <= stripe.version
       /\ s.version = stripe.version => s.quantity = stripe.quantity
  /\ \A s, t \in Reads : /\ s.version = t.version => s.quantity = t.quantity
                         /\ s.version < t.version => s.at <= t.at

(* The answer to an update is the last version, until it is projected.     *)
AnswersLast ==
  /\ \A c \in Callers :
       /\ calls[c].pc \in {"posted", "answered"} => calls[c].snap.version = stripe.version
       /\ HoldsRead(c) /\ calls[c].pc \notin {"posted", "answered"} =>
            calls[c].snap.kind = Observation
  /\ \A w \in Workers : EventHoldsRead(w) => workers[w].snap.kind = Observation
  /\ \A o \in Pending :
       keys[o].state = "kept" => executed[o] > 0 /\ keys[o].answer = stripe

(* The copy lags behind by the update of a pending operation at most.      *)
CopyLags ==
  /\ Pending = {} => sub.version = stripe.version
  /\ \A o \in DOMAIN ops : ops[o].previous # ops[o].target
  /\ \A o \in Pending :
       \/ /\ sub.version = stripe.version
          /\ sub.quantity = IF executed[o] = 0 THEN ops[o].previous ELSE ops[o].target
       \/ /\ executed[o] > 0
          /\ sub.version + 1 = stripe.version /\ sub.quantity = ops[o].previous
          /\ stripe.quantity = ops[o].target

Funded == required <= sub.quantity

PendingOpen == \A o \in Pending : ops[o].outcome = "none"

FundInv ==
  /\ PendingOpen
  /\ Undisturbed => ReadsTrue /\ AnswersLast /\ CopyLags /\ Funded

-----------------------------------------------------------------------------
(* Two snapshots of the same read; and a read of this moment.              *)
Same(s, t) == /\ s.version = t.version /\ s.quantity = t.quantity
              /\ (s.active <=> t.active) /\ s.at = t.at
Fresh(s) == /\ s.version = stripe'.version /\ s.quantity = stripe'.quantity
            /\ (s.active <=> stripe'.active) /\ s.at = now

LEMMA ReadsTyped ==
  ASSUME ChargeInv
  PROVE  /\ Reads \subseteq Snapshot
         /\ \A s \in Reads : /\ s.version \in Nat /\ s.quantity \in Nat
                             /\ s.at \in Nat /\ s.at <= now
         /\ stripe.version \in Nat /\ stripe.quantity \in Nat
         /\ now \in Nat /\ required \in Nat
<1>1. Reads \subseteq Snapshot
  BY DEF ChargeInv, TypeOK, Reads, Call, Work
<1>2. \A s \in Reads : s.at <= now
  BY DEF ChargeInv, OfThePast, Reads
<1>3. stripe \in Subscription /\ now \in Nat /\ required \in Nat
  BY DEF ChargeInv, TypeOK
<1>4. /\ Quantities \subseteq Nat /\ Versions \subseteq Nat
  BY BillingAssumption DEF Quantities, Versions
<1> QED BY <1>1, <1>2, <1>3, <1>4 DEF Snapshot, Subscription

(* What was read stays true when Stripe only goes on and each read is one  *)
(* of before or of this moment.                                            *)
LEMMA ReadsStep ==
  ASSUME ChargeInv, ReadsTrue, TypeOK',
         \/ stripe' = stripe
         \/ stripe'.active /\ stripe'.version > stripe.version,
         \A s \in Reads' : Fresh(s) \/ \E t \in Reads : Same(s, t)
  PROVE  ReadsTrue'
<1>1. /\ \A s \in Reads :
           /\ s.version \in Nat /\ s.at \in Nat /\ s.at <= now
           /\ s.active /\ s.version <= stripe.version
           /\ s.version = stripe.version => s.quantity = stripe.quantity
      /\ \A s, t \in Reads : /\ s.version = t.version => s.quantity = t.quantity
                             /\ s.version < t.version => s.at <= t.at
      /\ stripe.active /\ stripe.version \in Nat /\ now \in Nat
  BY ReadsTyped DEF ReadsTrue
<1>2. /\ stripe'.version \in Nat /\ stripe'.active
      /\ \/ stripe'.version > stripe.version
         \/ stripe'.version = stripe.version /\ stripe'.quantity = stripe.quantity
  BY BillingAssumption, <1>1 DEF TypeOK, Versions, Subscription
<1> DEFINE True(s) == /\ s.active /\ s.version <= stripe'.version
                      /\ s.version = stripe'.version => s.quantity = stripe'.quantity
           InOrder(s, u) == /\ s.version = u.version => s.quantity = u.quantity
                            /\ s.version < u.version => s.at <= u.at
<1>3. ASSUME NEW s \in Reads' PROVE True(s)
  <2>1. CASE Fresh(s)
    BY <1>2, <2>1 DEF Fresh
  <2>2. CASE \E t \in Reads : Same(s, t)
    <3>1. PICK t \in Reads : Same(s, t)
      BY <2>2
    <3>2. s.active
      BY <1>1, <3>1 DEF Same
    <3>3. t.version \in Nat /\ t.version <= stripe.version
      BY <1>1, <3>1
    <3>4. s.version <= stripe'.version
      BY <1>1, <1>2, <3>1, <3>3 DEF Same
    <3>5. ASSUME s.version = stripe'.version PROVE s.quantity = stripe'.quantity
      <4>1. stripe.version \in Nat /\ stripe'.version <= stripe.version
        BY <1>1, <3>1, <3>3, <3>5 DEF Same
      <4>2. stripe'.version = stripe.version /\ stripe'.quantity = stripe.quantity
        BY <1>2, <4>1
      <4>3. t.quantity = stripe.quantity
        BY <1>1, <3>1, <3>5, <4>2 DEF Same
      <4> QED BY <3>1, <4>2, <4>3 DEF Same
    <3> QED BY <3>2, <3>4, <3>5
  <2> HIDE DEF True
  <2> QED BY <2>1, <2>2
<1>4. ASSUME NEW s \in Reads', NEW u \in Reads' PROVE InOrder(s, u)
  <2>1. CASE Fresh(s) /\ Fresh(u)
    BY <1>2, <2>1 DEF Fresh
  <2>2. CASE Fresh(u) /\ \E t \in Reads : Same(s, t)
    <3>1. PICK t \in Reads : Same(s, t)
      BY <2>2
    <3> QED BY <1>1, <1>2, <2>2, <3>1 DEF Fresh, Same
  <2>3. CASE Fresh(s) /\ \E v \in Reads : Same(u, v)
    <3>1. PICK v \in Reads : Same(u, v)
      BY <2>3
    <3> QED BY <1>1, <1>2, <2>3, <3>1 DEF Fresh, Same
  <2>4. CASE (\E t \in Reads : Same(s, t)) /\ \E v \in Reads : Same(u, v)
    <3>1. PICK t \in Reads : Same(s, t)
      BY <2>4
    <3>2. PICK v \in Reads : Same(u, v)
      BY <2>4
    <3> QED BY <1>1, <3>1, <3>2 DEF Same
  <2> HIDE DEF InOrder
  <2> QED BY <2>1, <2>2, <2>3, <2>4
<1> QED BY <1>2, <1>3, <1>4 DEF ReadsTrue

(* The operations stay closed as they were, and what disturbs is not       *)
(* forgotten.                                                              *)
LEMMA OutcomeShape ==
  ASSUME ChargeInv, PendingOpen, [Next]_vars
  PROVE  /\ PendingOpen'
         /\ \A o \in DOMAIN ops :
              /\ o \in DOMAIN ops'
              /\ ops[o].status # "pending" => ops'[o] = ops[o]
<1> DEFINE Shape == /\ PendingOpen'
                    /\ \A o \in DOMAIN ops :
                         /\ o \in DOMAIN ops'
                         /\ ops[o].status # "pending" => ops'[o] = ops[o]
<1> SUFFICES Shape
  OBVIOUS
<1>1. ops \in Seq(Operation) /\ sub \in Snapshot
  BY DEF ChargeInv, TypeOK
<1>2. CASE UNCHANGED ops
  BY <1>2 DEF PendingOpen, Pending
<1>3. ASSUME NEW o \in DOMAIN ops, NEW new, ops' = [ops EXCEPT ![o] = new],
             ops[o].status # "pending" => new = ops[o],
             new.status = "pending" => new.outcome = ops[o].outcome
      PROVE  Shape
  <2>1. DOMAIN ops' = DOMAIN ops /\ ops'[o] = new
    BY <1>1, <1>3
  <2>2. \A p \in DOMAIN ops : p # o => ops'[p] = ops[p]
    BY <1>1, <1>3
  <2>3. ASSUME NEW p \in DOMAIN ops, ops'[p].status = "pending"
        PROVE  ops'[p].outcome = "none"
    BY <1>3, <2>1, <2>2, <2>3 DEF PendingOpen, Pending
  <2> QED BY <1>3, <2>1, <2>2, <2>3 DEF PendingOpen, Pending
<1>4. ASSUME NEW o \in DOMAIN ops, NEW s \in Snapshot, NEW start \in BOOLEAN,
             Resolve(o, s, start)
      PROVE  Shape
  <2>1. ops[o] \in Operation
    BY <1>1
  <2> DEFINE r == Resolved(ops[o], s, start)
  <2>2. /\ ops[o].status # "pending" => r = ops[o]
        /\ r.status = "pending" => r.outcome = ops[o].outcome
    BY <2>1, ResolvedShape
  <2>3. ops' = [ops EXCEPT ![o] = r]
    BY <1>4 DEF Resolve
  <2> HIDE DEF r, Shape
  <2> QED BY <1>3, <2>2, <2>3
<1>5. ASSUME NEW k \in Callers, NEW target \in menu.targets, Prepare(k, target)
      PROVE  Shape
  <2>1. CASE ops' = Append(ops, [previous |-> sub.quantity, target |-> target,
                                 status |-> "pending", outcome |-> "none",
                                 replay |-> NoReplay])
    BY <1>1, <2>1 DEF PendingOpen, Pending
  <2> QED BY <1>2, <1>5, <2>1 DEF Prepare
<1>6. ASSUME NEW k \in Callers, CallStep(k) \/ CallFault(k)
      PROVE  Shape
  <2>1. calls[k].snap \in Snapshot /\ Projected(calls[k].snap) \in Snapshot
    BY ProjectedType DEF ChargeInv, TypeOK, Call
  <2>2. calls[k].pc # "idle" => calls[k].op \in DOMAIN ops
    BY DEF ChargeInv, Stored
  <2> HIDE DEF Shape
  <2>3. CASE Authorize(k)
    <3> DEFINE needed == StateOf(ops[calls[k].op], calls[k].snap) = "previous"
    <3>1. needed \in BOOLEAN /\ Resolve(calls[k].op, Projected(calls[k].snap), needed)
      BY <2>3 DEF Authorize
    <3> HIDE DEF needed
    <3> QED BY <1>4, <2>1, <2>2, <2>3, <3>1 DEF Authorize
  <2>4. CASE Claim(k)
    BY <2>2, <2>4, <1>1, <1>2, <1>4 DEF Claim
  <2>5. CASE Recheck(k) \/ Commit(k)
    BY <1>4, <2>1, <2>2, <2>5 DEF Recheck, Commit, Commits
  <2>6. CASE Reject(k)
    <3> DEFINE o == calls[k].op
               op == ops[o]
               new == IF op.status = "pending" /\ StateOf(op, sub) = "previous"
                        THEN Closed(op, "failed", "rejected")
                        ELSE Resolved(op, sub, FALSE)
    <3>1. o \in DOMAIN ops /\ op \in Operation /\ ops' = [ops EXCEPT ![o] = new]
      BY <1>1, <2>2, <2>6 DEF Reject
    <3>2. /\ op.status # "pending" => new = op
          /\ new.status = "pending" => new.outcome = op.outcome
      BY <1>1, <3>1 DEF Resolved, Closed, Operation
    <3> HIDE DEF new
    <3> QED BY <1>3, <3>1, <3>2
  <2>7. CASE ~(Authorize(k) \/ Claim(k) \/ Recheck(k) \/ Commit(k) \/ Reject(k))
    <3>1. ops' = ops
      BY <1>6, <2>7 DEF CallStep, CallFault, Observe, Reserve, Post,
         PostFailsAgain, RejectsEnded, Abandon, Rejects, RolledBack, PostLost
    <3> QED BY <1>2, <3>1
  <2> QED BY <2>3, <2>4, <2>5, <2>6, <2>7
<1>7. ASSUME NEW w \in Workers, WorkStep(w) \/ WorkFault(w)
      PROVE  UNCHANGED ops
  BY <1>7 DEF WorkStep, WorkFault, OfEvents, Acquire, ResolveEvent, ReserveForEvent,
     ApplyEvent, Complete, Release, Settle, EventFails, WorkerCrashes
<1> HIDE DEF Shape
<1>8. CASE Next
  BY <1>2, <1>5, <1>6, <1>7, <1>8 DEF Next, OfEvents, Ingest, LeaseExpires,
     ChangeOutside, AssignSeat, UnassignSeat, Seats, Tick
<1>9. CASE UNCHANGED vars
  BY <1>2, <1>9 DEF vars
<1> QED BY <1>8, <1>9

LEMMA UndisturbedBefore ==
  ASSUME ChargeInv, PendingOpen, [Next]_vars, Undisturbed'
  PROVE  Undisturbed
<1>1. changed \subseteq changed'
  <2>1. ASSUME NEW c \in Callers, CallStep(c) \/ CallFault(c)
        PROVE  changed \subseteq changed'
    BY <2>1 DEF CallStep, CallFault, Observe, Reserve, Authorize, Claim, Recheck,
       Commit, Commits, Reject, Post, PostFailsAgain, RejectsEnded, Abandon, Rejects,
       RolledBack, PostLost, Project
  <2>2. ASSUME NEW w \in Workers, WorkStep(w) \/ WorkFault(w)
        PROVE  changed \subseteq changed'
    BY <2>2 DEF WorkStep, WorkFault, Acquire, ResolveEvent, ReserveForEvent, ApplyEvent,
       Complete, Release, Settle, EventFails, WorkerCrashes, Project
  <2> QED BY <2>1, <2>2 DEF Next, vars, Prepare, Ingest, LeaseExpires, ChangeOutside,
            AssignSeat, UnassignSeat, Seats, Tick
<1>2. ASSUME NEW o \in DOMAIN ops, executed[o] > 0 PROVE executed'[o] > 0
  <2>1. executed \in [OpIds -> Nat] /\ o \in OpIds
    BY BillingAssumption DEF ChargeInv, TypeOK, OpIds
  <2>2. executed' = executed \/ \E p : Executes(p)
    <3>1. ASSUME NEW c \in Callers, CallStep(c) \/ CallFault(c)
          PROVE  executed' = executed \/ \E p : Executes(p)
      BY <3>1 DEF CallStep, CallFault, Observe, Reserve, Authorize, Claim, Recheck,
         Commit, Commits, Reject, Post, PostFailsAgain, RejectsEnded, Abandon, Rejects,
         RolledBack, PostLost, provider
    <3>2. ASSUME NEW w \in Workers, WorkStep(w) \/ WorkFault(w)
          PROVE  executed' = executed
      BY <3>2 DEF WorkStep, WorkFault, Acquire, ResolveEvent, ReserveForEvent,
         ApplyEvent, Complete, Release, Settle, EventFails, WorkerCrashes, OfEvents,
         provider
    <3> QED BY <3>1, <3>2 DEF Next, vars, Prepare, Ingest, LeaseExpires, ChangeOutside,
              AssignSeat, UnassignSeat, Seats, Tick, OfEvents, provider
  <2>3. ASSUME NEW p, Executes(p) PROVE executed'[o] > 0
    <3>1. executed' = [executed EXCEPT ![p] = @ + 1]
      BY <2>3 DEF Executes
    <3>2. CASE p = o
      BY <1>2, <2>1, <3>1, <3>2
    <3>3. CASE p # o
      BY <1>2, <2>1, <3>1, <3>3
    <3> QED BY <3>2, <3>3
  <2> QED BY <1>2, <2>2, <2>3
<1>3. ASSUME RejectedBlindly PROVE RejectedBlindly'
  <2>1. PICK o \in DOMAIN ops : ops[o].outcome = "rejected" /\ executed[o] > 0
    BY <1>3 DEF RejectedBlindly
  <2>2. ops[o].status # "pending"
    BY <2>1 DEF PendingOpen, Pending
  <2> QED BY <1>2, <2>1, <2>2, OutcomeShape DEF RejectedBlindly
<1> QED BY <1>1, <1>3 DEF Undisturbed

-----------------------------------------------------------------------------
(* What a projection does to the copy.                                     *)

LEMMA Paid ==
  ASSUME ChargeInv, ReadsTrue, CopyLags, Funded
  PROVE  required <= stripe.quantity
<1>1. /\ sub.quantity \in Nat /\ stripe.quantity \in Nat /\ required \in Nat
      /\ sub \in Reads
  BY ReadsTyped DEF Reads
<1>2. CASE sub.version = stripe.version
  BY <1>1, <1>2 DEF ReadsTrue, Funded
<1>3. CASE sub.version # stripe.version
  <2>1. PICK o \in Pending : /\ sub.quantity = ops[o].previous
                            /\ stripe.quantity = ops[o].target
    BY <1>3 DEF CopyLags
  <2>2. CASE ops[o].target < ops[o].previous
    BY <2>1, <2>2 DEF ChargeInv, DecreaseCounts
  <2>3. CASE ~(ops[o].target < ops[o].previous)
    BY <1>1, <2>1, <2>3 DEF Funded
  <2> QED BY <2>2, <2>3
<1> QED BY <1>2, <1>3

(* A read that is applied is of the version of the copy, or of a later one.*)
LEMMA ProjectsForward ==
  ASSUME ChargeInv, ReadsTrue, Undisturbed', NEW s \in Reads, Project(s),
         s.kind = Observation \/ s.version = stripe.version
  PROVE  sub' = Projected(s) /\ sub' \in Reads /\ sub'.version >= sub.version
<1>1. /\ sub \in Reads /\ sub \in Snapshot /\ s \in Snapshot
      /\ sub.version \in Nat /\ s.version \in Nat /\ sub.at \in Nat /\ s.at \in Nat
      /\ stripe.version \in Nat /\ sub.version <= stripe.version
  BY ReadsTyped DEF Reads, ReadsTrue
<1>2. sub' = Projected(s) /\ sub' \in Reads
  BY <1>1 DEF Project, Projected
<1>3. ~OutOfOrder(s)
  BY DEF Project, Undisturbed
<1>4. CASE IsNewer(s)
  <2>1. ASSUME s.version < sub.version PROVE FALSE
    BY <1>1, <2>1, <1>4, <1>3 DEF ReadsTrue, IsNewer, OutOfOrder, Snapshot,
       Observation, MutationResponse
  <2> QED BY <1>1, <1>2, <1>4, <2>1 DEF Projected
<1>5. CASE ~IsNewer(s)
  BY <1>1, <1>2, <1>5 DEF Projected
<1> QED BY <1>2, <1>4, <1>5

(* The copy still lags by a pending update at most, and is paid for.       *)
LEMMA CopyForward ==
  ASSUME ChargeInv, ReadsTrue, CopyLags, Funded, NEW s \in Reads,
         s.version >= sub.version
  PROVE  /\ required <= s.quantity /\ s.active
         /\ Pending = {} => s.version = stripe.version
         /\ \A o \in Pending :
              \/ /\ s.version = stripe.version
                 /\ s.quantity = IF executed[o] = 0 THEN ops[o].previous ELSE ops[o].target
              \/ /\ executed[o] > 0
                 /\ s.version + 1 = stripe.version /\ s.quantity = ops[o].previous
                 /\ stripe.quantity = ops[o].target
<1>1. /\ sub \in Reads /\ s.version \in Nat /\ sub.version \in Nat
      /\ s.version <= stripe.version /\ stripe.version \in Nat /\ s.active
      /\ s.version = stripe.version => s.quantity = stripe.quantity
      /\ s.version = sub.version => s.quantity = sub.quantity
      /\ sub.version = stripe.version => sub.quantity = stripe.quantity
  BY ReadsTyped DEF Reads, ReadsTrue
<1>2. required <= s.quantity
  <2>1. CASE s.version = stripe.version
    BY <1>1, <2>1, Paid
  <2>2. CASE s.version # stripe.version
    <3>1. sub.version # stripe.version
      BY <1>1, <2>2
    <3>2. PICK o \in Pending : sub.version + 1 = stripe.version
      BY <3>1 DEF CopyLags
    <3>3. s.version = sub.version
      BY <1>1, <2>2, <3>2
    <3> QED BY <1>1, <3>3 DEF Funded
  <2> QED BY <2>1, <2>2
<1>3. ASSUME Pending = {} PROVE s.version = stripe.version
  BY <1>1, <1>3 DEF CopyLags
<1>4. ASSUME NEW o \in Pending
      PROVE  \/ /\ s.version = stripe.version
                /\ s.quantity = IF executed[o] = 0 THEN ops[o].previous ELSE ops[o].target
             \/ /\ executed[o] > 0
                /\ s.version + 1 = stripe.version /\ s.quantity = ops[o].previous
                /\ stripe.quantity = ops[o].target
  <2>0. executed[o] \in Nat
    BY BillingAssumption DEF ChargeInv, TypeOK, OpIds, Pending
  <2>1. CASE /\ sub.version = stripe.version
             /\ sub.quantity = IF executed[o] = 0 THEN ops[o].previous
                               ELSE ops[o].target
    BY <1>1, <2>1
  <2>2. CASE /\ executed[o] > 0
             /\ sub.version + 1 = stripe.version /\ sub.quantity = ops[o].previous
             /\ stripe.quantity = ops[o].target
    BY <1>1, <2>2, <2>0
  <2> QED BY <2>1, <2>2 DEF CopyLags
<1> QED BY <1>1, <1>2, <1>3, <1>4

-----------------------------------------------------------------------------
(* The steps.                                                              *)
Safe == ReadsTrue /\ AnswersLast /\ CopyLags /\ Funded

OtherCalls(k) == \A c \in Callers \ {k} : calls'[c] = calls[c]

LEMMA CallReads ==
  ASSUME ChargeInv, ReadsTrue, TypeOK', NEW k \in Callers, OtherCalls(k),
         UNCHANGED workers, sub' \in Reads,
         \/ stripe' = stripe
         \/ stripe'.active /\ stripe'.version > stripe.version,
         HoldsRead(k)' => \/ Fresh(calls'[k].snap)
                          \/ HoldsRead(k) /\ Same(calls'[k].snap, calls[k].snap)
  PROVE  ReadsTrue'
<1>1. ASSUME NEW s \in Reads' PROVE Fresh(s) \/ \E t \in Reads : Same(s, t)
  <2>1. CASE s = sub'
    BY <2>1 DEF Same
  <2>2. ASSUME NEW c \in Callers, HoldsRead(c)', s = calls'[c].snap
        PROVE  Fresh(s) \/ \E t \in Reads : Same(s, t)
    <3>1. CASE c # k
      BY <2>2, <3>1 DEF OtherCalls, HoldsRead, Reads, Same
    <3>2. CASE c = k
      BY <2>2, <3>2 DEF Reads
    <3> QED BY <3>1, <3>2
  <2>3. ASSUME NEW w \in Workers, EventHoldsRead(w)', s = workers'[w].snap
        PROVE  s \in Reads /\ Same(s, s)
    BY <2>3 DEF EventHoldsRead, Reads, Same
  <2> QED BY <2>1, <2>2, <2>3 DEF Reads
<1> QED BY <1>1, ReadsStep

(* The answers of a request, when none was given.                          *)
LEMMA CallAnswers ==
  ASSUME ChargeInv, AnswersLast, NEW k \in Callers, OtherCalls(k), UNCHANGED workers,
         stripe' = stripe, Pending' \subseteq Pending,
         \A o \in Pending' : keys'[o].state = "kept" =>
            keys'[o] = keys[o] /\ executed'[o] = executed[o],
         calls'[k].pc \in {"posted", "answered"} =>
           calls'[k].snap.version = stripe.version,
         HoldsRead(k)' /\ calls'[k].pc \notin {"posted", "answered"} =>
           calls'[k].snap.kind = Observation
  PROVE  AnswersLast'
<1>1. ASSUME NEW c \in Callers
      PROVE  /\ calls'[c].pc \in {"posted", "answered"} =>
                  calls'[c].snap.version = stripe'.version
             /\ HoldsRead(c)' /\ calls'[c].pc \notin {"posted", "answered"} =>
                  calls'[c].snap.kind = Observation
  <2>1. CASE c = k
    BY <2>1
  <2>2. CASE c # k
    BY <2>2 DEF OtherCalls, HoldsRead, AnswersLast
  <2> QED BY <2>1, <2>2
<1>2. \A w \in Workers : EventHoldsRead(w)' => workers'[w].snap.kind = Observation
  BY DEF EventHoldsRead, AnswersLast
<1>3. \A o \in Pending' :
        keys'[o].state = "kept" => executed'[o] > 0 /\ keys'[o].answer = stripe'
  BY DEF AnswersLast
<1> QED BY <1>1, <1>2, <1>3 DEF AnswersLast

(* What calls'[k] is, for the two ways to set it.                          *)
LEMMA CallAfter ==
  ASSUME ChargeInv, NEW k \in Callers
  PROVE  /\ \A pc : Moves(k, pc) =>
              /\ OtherCalls(k) /\ calls'[k].pc = pc
              /\ pc # "idle" => calls'[k].snap = calls[k].snap
         /\ \A pc, s : Keeps(k, pc, s) =>
              OtherCalls(k) /\ calls'[k].pc = pc /\ calls'[k].snap = s
<1>1. calls \in [Callers -> Call] /\ calls[k] \in Call
  BY DEF ChargeInv, TypeOK
<1>2. \A pc : Moves(k, pc) =>
        /\ OtherCalls(k) /\ calls'[k].pc = pc
        /\ pc # "idle" => calls'[k].snap = calls[k].snap
  BY <1>1 DEF Moves, OtherCalls, Call, NoCall
<1>3. \A pc, s : Keeps(k, pc, s) =>
        OtherCalls(k) /\ calls'[k].pc = pc /\ calls'[k].snap = s
  BY <1>1 DEF Keeps, OtherCalls, Call
<1> QED BY <1>2, <1>3

(* Steps that read, or give up.                                            *)
LEMMA ReadingSafe ==
  ASSUME ChargeInv, Safe, NEW k \in Callers,
         \/ Observe(k) \/ Reserve(k) \/ Abandon(k) \/ PostFailsAgain(k)
         \/ Rejects(k) \/ RejectsEnded(k)
  PROVE  Safe'
<1>1. UNCHANGED <<stripe, keys, executed, sub, ops, required, workers>>
  BY DEF Observe, Reserve, Abandon, PostFailsAgain, Rejects, RejectsEnded, RolledBack,
     provider, OfCall
<1>2. TypeOK'
  BY CallStepTypes DEF ChargeInv, CallStep, CallFault
<1>3. /\ OtherCalls(k)
      /\ HoldsRead(k)' => \/ Fresh(calls'[k].snap)
                          \/ HoldsRead(k) /\ Same(calls'[k].snap, calls[k].snap)
      /\ calls'[k].pc \in {"posted", "answered"} =>
           calls'[k].snap.version = stripe.version
      /\ HoldsRead(k)' /\ calls'[k].pc \notin {"posted", "answered"} =>
           calls'[k].snap.kind = Observation
  <2>1. CASE Observe(k)
    BY <2>1, CallAfter, <1>1 DEF Observe, ReadAs, Fresh, SnapshotOf
  <2>2. CASE Reserve(k)
    <3>1. /\ OtherCalls(k)
          /\ calls'[k].snap = [calls[k].snap EXCEPT !.revision = NextRevision]
          /\ \/ calls[k].pc = "read" /\ calls'[k].pc = "observed"
             \/ calls[k].pc = "reread" /\ calls'[k].pc = "rechecked"
             \/ calls[k].pc = "posted" /\ calls'[k].pc = "answered"
      BY <2>2, CallAfter DEF Reserve
    <3>2. calls[k].snap \in Snapshot
      BY DEF ChargeInv, TypeOK, Call
    <3>3. /\ Same(calls'[k].snap, calls[k].snap)
          /\ calls'[k].snap.kind = calls[k].snap.kind
      BY <3>1, <3>2 DEF Same, Snapshot
    <3> QED BY <3>1, <3>3 DEF Same, HoldsRead, Safe, AnswersLast
  <2>3. CASE Abandon(k) \/ PostFailsAgain(k)
    BY <2>3, CallAfter DEF Abandon, PostFailsAgain, Fails, HoldsRead
  <2>4. CASE Rejects(k) \/ RejectsEnded(k)
    BY <2>4, CallAfter DEF Rejects, RejectsEnded, RolledBack, HoldsRead
  <2> QED BY <2>1, <2>2, <2>3, <2>4
<1>4. ReadsTrue'
  BY <1>1, <1>2, <1>3, CallReads DEF Reads, Safe
<1>5. AnswersLast'
  BY <1>1, <1>3, CallAnswers DEF Pending, Safe
<1>6. CopyLags' /\ Funded'
  BY <1>1 DEF Safe, CopyLags, Funded, Pending
<1> QED BY <1>4, <1>5, <1>6 DEF Safe

(* Resolving an operation by the copy closes it only if the copy has what  *)
(* it asks for, and is the last version then.                              *)
LEMMA ResolvedSafe ==
  ASSUME ChargeInv, Safe, NEW o \in DOMAIN ops, NEW start \in BOOLEAN,
         sub' \in Reads, sub'.version >= sub.version, Resolve(o, sub', start),
         UNCHANGED <<stripe, executed, required>>
  PROVE  CopyLags' /\ Funded' /\ Pending' \subseteq Pending
<1>1. /\ required <= sub'.quantity /\ sub'.active
      /\ Pending = {} => sub'.version = stripe.version
      /\ \A p \in Pending :
           \/ /\ sub'.version = stripe.version
              /\ sub'.quantity = IF executed[p] = 0 THEN ops[p].previous ELSE ops[p].target
           \/ /\ executed[p] > 0
              /\ sub'.version + 1 = stripe.version /\ sub'.quantity = ops[p].previous
              /\ stripe.quantity = ops[p].target
  BY CopyForward DEF Safe
<1>2. /\ ops \in Seq(Operation) /\ ops[o] \in Operation /\ sub' \in Snapshot
      /\ \A p, q \in Pending : p = q
  BY ReadsTyped DEF ChargeInv, TypeOK, Pending
<1> DEFINE r == Resolved(ops[o], sub', start)
<1>3. /\ r.previous = ops[o].previous /\ r.target = ops[o].target
      /\ ops[o].status # "pending" => r = ops[o]
      /\ ops[o].status = "pending" /\ r.status # "pending" =>
           StateOf(ops[o], sub') \in {"target", "superseding"}
  BY <1>2, ResolvedShape
<1>4. ops' = [ops EXCEPT ![o] = r]
  BY DEF Resolve
<1> HIDE DEF r
<1>5. /\ DOMAIN ops' = DOMAIN ops /\ ops'[o] = r
      /\ \A p \in DOMAIN ops : p # o => ops'[p] = ops[p]
  BY <1>2, <1>4
<1>6. \A p \in DOMAIN ops' : /\ ops'[p].previous = ops[p].previous
                            /\ ops'[p].target = ops[p].target
  BY <1>3, <1>5
<1>7. Pending' \subseteq Pending
  BY <1>3, <1>5 DEF Pending
<1>8. Funded'
  BY <1>1 DEF Funded
<1>9. ASSUME Pending' = {} PROVE sub'.version = stripe.version
  <2>1. CASE Pending = {}
    BY <1>1, <2>1
  <2>2. CASE Pending # {}
    BY <1>5, <1>9, <2>2, <1>3, <1>1 DEF Pending, StateOf, Safe, CopyLags
  <2> QED BY <2>1, <2>2
<1>10. CopyLags'
  <2>1. \A p \in DOMAIN ops' : ops'[p].previous # ops'[p].target
    BY <1>5, <1>6 DEF Safe, CopyLags
  <2>2. ASSUME NEW p \in Pending'
        PROVE  \/ /\ sub'.version = stripe.version
                  /\ sub'.quantity = IF executed[p] = 0 THEN ops'[p].previous
                                     ELSE ops'[p].target
               \/ /\ executed[p] > 0 /\ sub'.version + 1 = stripe.version
                  /\ sub'.quantity = ops'[p].previous /\ stripe.quantity = ops'[p].target
    BY <1>7, <1>1, <1>6 DEF Pending
  <2> QED BY <1>9, <2>1, <2>2 DEF CopyLags
<1> QED BY <1>7, <1>8, <1>10

LEMMA AuthorizeSafe ==
  ASSUME ChargeInv, Safe, Undisturbed', NEW k \in Callers, Authorize(k)
  PROVE  Safe'
<1> DEFINE o == calls[k].op
           s == calls[k].snap
           needed == StateOf(ops[o], s) = "previous"
<1>1. /\ o \in DOMAIN ops /\ needed \in BOOLEAN /\ s \in Reads
      /\ s.kind = Observation /\ HoldsRead(k)
  BY DEF Authorize, ChargeInv, Stored, Reads, HoldsRead, Safe, AnswersLast
<1>2. Project(s) /\ Resolve(o, Projected(s), needed)
      /\ UNCHANGED <<stripe, keys, executed, required, workers>>
  BY DEF Authorize, provider, OfCall
<1>3. TypeOK'
  BY CallStepTypes DEF ChargeInv, CallStep
<1>4. /\ OtherCalls(k) /\ calls'[k].pc \in {"idle", "authorized"}
      /\ calls'[k].pc = "authorized" => calls'[k].snap = s
  BY CallAfter DEF Authorize
<1> HIDE DEF o, s, needed
<1>5. sub' = Projected(s) /\ sub' \in Reads /\ sub'.version >= sub.version
  BY <1>1, <1>2, ProjectsForward DEF Safe
<1>6. CopyLags' /\ Funded' /\ Pending' \subseteq Pending
  BY <1>1, <1>2, <1>5, ResolvedSafe
<1>7. HoldsRead(k)' => Same(calls'[k].snap, s) /\ calls'[k].snap = s
  BY <1>4 DEF HoldsRead, Same
<1>8. ReadsTrue'
  BY <1>1, <1>2, <1>3, <1>4, <1>5, <1>7, CallReads DEF Safe, s
<1>9. AnswersLast'
  BY <1>1, <1>2, <1>4, <1>6, <1>7, CallAnswers DEF Safe
<1> QED BY <1>6, <1>8, <1>9 DEF Safe

LEMMA CommitSafe ==
  ASSUME ChargeInv, Safe, Undisturbed', NEW k \in Callers, Recheck(k) \/ Commit(k)
  PROVE  Safe'
<1> DEFINE o == calls[k].op
           s == calls[k].snap
<1>1. /\ o \in DOMAIN ops /\ s \in Reads /\ HoldsRead(k)
      /\ s.kind = Observation \/ s.version = stripe.version
  BY DEF Recheck, Commit, ChargeInv, Stored, Reads, HoldsRead, Safe, AnswersLast
<1>2. Project(s) /\ Resolve(o, Projected(s), FALSE)
      /\ UNCHANGED <<stripe, keys, executed, required, workers>>
  BY DEF Recheck, Commit, Commits, provider, OfCall
<1>3. TypeOK'
  BY CallStepTypes DEF ChargeInv, CallStep
<1>4. OtherCalls(k) /\ ~HoldsRead(k)' /\ calls'[k].pc = "idle"
  <2>1. Moves(k, "idle")
    BY DEF Recheck, Commit, Commits
  <2>2. OtherCalls(k) /\ calls'[k].pc = "idle"
    BY <2>1, CallAfter
  <2> QED BY <2>2 DEF HoldsRead
<1> HIDE DEF o, s
<1>5. sub' = Projected(s) /\ sub' \in Reads /\ sub'.version >= sub.version
  BY <1>1, <1>2, ProjectsForward DEF Safe
<1>6. CopyLags' /\ Funded' /\ Pending' \subseteq Pending
  BY <1>1, <1>2, <1>5, ResolvedSafe
<1>7. ReadsTrue'
  BY <1>2, <1>3, <1>4, <1>5, CallReads DEF Safe
<1>8. AnswersLast'
  BY <1>2, <1>4, <1>6, CallAnswers DEF Safe
<1> QED BY <1>6, <1>7, <1>8 DEF Safe

LEMMA ClaimSafe ==
  ASSUME ChargeInv, Safe, NEW k \in Callers, Claim(k)
  PROVE  Safe'
<1>1. UNCHANGED <<stripe, keys, executed, required, workers, sub>>
  BY DEF Claim, provider, OfCall
<1>2. TypeOK'
  BY CallStepTypes DEF ChargeInv, CallStep
<1>3. OtherCalls(k) /\ calls'[k].pc \in {"locked", "idle"} /\ ~HoldsRead(k)'
  <2>1. Keeps(k, "locked", NoSnapshot) \/ Moves(k, "idle")
    BY DEF Claim
  <2>2. OtherCalls(k) /\ calls'[k].pc \in {"locked", "idle"}
    BY <2>1, CallAfter
  <2> QED BY <2>2 DEF HoldsRead
<1>4. sub' \in Reads /\ sub'.version >= sub.version /\ calls[k].op \in DOMAIN ops
  BY <1>1, ReadsTyped DEF Reads, Claim, ChargeInv, Stored
<1>5. CopyLags' /\ Funded' /\ Pending' \subseteq Pending
  <2>1. CASE UNCHANGED ops
    BY <1>1, <2>1 DEF Safe, CopyLags, Funded, Pending
  <2>2. CASE Resolve(calls[k].op, sub, FALSE)
    BY <1>1, <2>2, <1>4, ResolvedSafe
  <2> QED BY <2>1, <2>2 DEF Claim
<1>6. ReadsTrue'
  BY <1>1, <1>2, <1>3, <1>4, CallReads DEF Safe
<1>7. AnswersLast'
  BY <1>1, <1>3, <1>5, CallAnswers DEF Safe
<1> QED BY <1>5, <1>6, <1>7 DEF Safe

(* A rejection closes what was not executed: all else is RejectedBlindly.  *)
LEMMA RejectSafe ==
  ASSUME ChargeInv, Safe, Undisturbed', NEW k \in Callers, Reject(k)
  PROVE  Safe'
<1> DEFINE o == calls[k].op
           op == ops[o]
<1>1. UNCHANGED <<stripe, keys, executed, required, workers, sub>>
  BY DEF Reject, provider, OfCall
<1>2. TypeOK'
  BY CallStepTypes DEF ChargeInv, CallStep
<1>3. OtherCalls(k) /\ calls'[k].pc = "idle" /\ ~HoldsRead(k)'
  BY CallAfter DEF Reject, HoldsRead
<1>4. /\ sub' \in Reads /\ sub'.version >= sub.version
      /\ o \in DOMAIN ops /\ o \in OpIds /\ op \in Operation /\ ops \in Seq(Operation)
  BY <1>1, ReadsTyped, BillingAssumption
     DEF Reads, Reject, ChargeInv, Stored, TypeOK, OpIds
<1>5. CopyLags' /\ Funded' /\ Pending' \subseteq Pending
  <2>1. CASE ~(op.status = "pending" /\ StateOf(op, sub) = "previous")
    <3>1. Resolve(o, sub', FALSE)
      BY <1>1, <2>1 DEF Reject, Resolve
    <3> HIDE DEF o
    <3> QED BY <1>1, <1>4, <3>1, ResolvedSafe
  <2>2. CASE op.status = "pending" /\ StateOf(op, sub) = "previous"
    <3>1. ops' = [ops EXCEPT ![o] = Closed(op, "failed", "rejected")]
      BY <2>2 DEF Reject
    <3>2. /\ DOMAIN ops' = DOMAIN ops /\ ops'[o] = Closed(op, "failed", "rejected")
          /\ \A p \in DOMAIN ops : p # o => ops'[p] = ops[p]
      BY <1>4, <3>1
    <3>3. /\ ops'[o].status = "failed" /\ ops'[o].outcome = "rejected"
          /\ ops'[o].previous = op.previous /\ ops'[o].target = op.target
      BY <1>4, <3>2 DEF Closed, Operation
    <3>4. ~(executed[o] > 0)
      BY <1>1, <1>4, <3>2, <3>3 DEF Undisturbed, RejectedBlindly
    <3>5. o \in Pending /\ \A p \in Pending : p = o
      BY <1>4, <2>2 DEF Pending, ChargeInv, TypeOK
    <3>6. sub.version = stripe.version
      BY <3>4, <3>5 DEF Safe, CopyLags
    <3>7. Pending' = {}
      BY <3>2, <3>3, <3>5 DEF Pending
    <3>8. \A p \in DOMAIN ops' : ops'[p].previous # ops'[p].target
      BY <3>2, <3>3 DEF Safe, CopyLags
    <3> QED BY <1>1, <3>6, <3>7, <3>8 DEF Safe, CopyLags, Funded
  <2> QED BY <2>1, <2>2
<1>6. ReadsTrue'
  BY <1>1, <1>2, <1>3, <1>4, CallReads DEF Safe
<1>7. AnswersLast'
  BY <1>1, <1>3, <1>5, CallAnswers DEF Safe
<1> QED BY <1>5, <1>6, <1>7 DEF Safe

(* An update executed is the next version, and what its operation asks for;*)
(* nobody else has an answer then, for the account is claimed.             *)
LEMMA ExecutedSafe ==
  ASSUME ChargeInv, Safe, NEW k \in Callers, Post(k) \/ PostLost(k),
         ~Kept(calls[k].op), Executes(calls[k].op)
  PROVE  Safe'
<1> DEFINE o == calls[k].op
<1>1. /\ calls[k].pc = "rechecked" /\ MayPost(k)
      /\ UNCHANGED <<sub, ops, required, workers>>
      /\ \E state \in {"kept", "failed"} : KeepsAnswer(o, state)
  BY DEF Post, PostLost, OfCall, Executes
<1>2. /\ o \in DOMAIN ops /\ ops[o].status = "pending" /\ executed[o] = 0 /\ lock = k
  BY <1>1, ExecutedFirst
<1>3. /\ o \in OpIds /\ o \in Pending /\ \A p \in Pending : p = o
  BY <1>2, BillingAssumption DEF ChargeInv, TypeOK, OpIds, Pending
<1>4. TypeOK'
  BY CallStepTypes DEF ChargeInv, CallStep, CallFault
<1>5. /\ stripe'.version = stripe.version + 1 /\ stripe'.quantity = ops[o].target
      /\ stripe'.active /\ stripe.version \in Nat
  BY ReadsTyped DEF Executes, Safe, ReadsTrue, ChargeInv, TypeOK, Subscription
<1>6. executed'[o] > 0
  BY <1>2, <1>3 DEF Executes, ChargeInv, TypeOK
<1>7. keys'[o].answer = stripe'
  BY <1>1, <1>3 DEF KeepsAnswer, ChargeInv, TypeOK
<1>8. /\ OtherCalls(k)
      /\ HoldsRead(k)' => /\ Fresh(calls'[k].snap) /\ calls'[k].pc = "posted"
                          /\ calls'[k].snap.version = stripe'.version
  <2>1. CASE Post(k)
    BY <2>1, CallAfter DEF Post, Fresh, SnapshotOf
  <2>2. CASE PostLost(k)
    BY <2>2, CallAfter DEF PostLost, Fails, HoldsRead
  <2> QED BY <2>1, <2>2
<1> HIDE DEF o
<1>9. ReadsTrue'
  BY <1>1, <1>5, <1>4, <1>8, CallReads DEF Reads, Safe
<1>10. AnswersLast'
  <2>1. ASSUME NEW c \in Callers
        PROVE  /\ calls'[c].pc \in {"posted", "answered"} =>
                    calls'[c].snap.version = stripe'.version
               /\ HoldsRead(c)' /\ calls'[c].pc \notin {"posted", "answered"} =>
                    calls'[c].snap.kind = Observation
    <3>1. CASE c = k
      BY <1>8, <3>1 DEF HoldsRead
    <3>2. CASE c # k
      BY <1>2, <1>8, <3>2 DEF OtherCalls, ChargeInv, LockHeld, HoldsRead,
         Locked, Safe, AnswersLast
    <3> QED BY <3>1, <3>2
  <2>2. \A w \in Workers : EventHoldsRead(w)' => workers'[w].snap.kind = Observation
    BY <1>1 DEF EventHoldsRead, Safe, AnswersLast
  <2>3. \A p \in Pending' : executed'[p] > 0 /\ keys'[p].answer = stripe'
    BY <1>1, <1>3, <1>6, <1>7 DEF Pending
  <2> QED BY <2>1, <2>2, <2>3 DEF AnswersLast
<1>11. CopyLags' /\ Funded'
  BY <1>2, <1>3, <1>1, <1>5, <1>6 DEF Safe, CopyLags, Pending, Funded
<1> QED BY <1>9, <1>10, <1>11 DEF Safe

(* An answer given again is true still: its operation is pending, so       *)
(* nothing was executed since.                                             *)
LEMMA PostSafe ==
  ASSUME ChargeInv, Safe, NEW k \in Callers, Post(k) \/ PostLost(k)
  PROVE  Safe'
<1> DEFINE o == calls[k].op
<1>1. /\ calls[k].pc = "rechecked" /\ MayPost(k)
      /\ UNCHANGED <<sub, ops, required, workers>>
      /\ o \in DOMAIN ops /\ o \in OpIds /\ o \in Pending
      /\ \A p \in Pending : p = o
  <2>1. calls[k].pc = "rechecked" /\ MayPost(k) /\ UNCHANGED <<sub, ops, required, workers>>
    BY DEF Post, PostLost, OfCall
  <2>2. o \in DOMAIN ops /\ ops[o].status = "pending"
    BY <2>1 DEF ChargeInv, Stored, Authorized, Locked
  <2> QED BY <2>1, <2>2, BillingAssumption DEF ChargeInv, TypeOK, OpIds, Pending
<1>2. TypeOK'
  BY CallStepTypes DEF ChargeInv, CallStep, CallFault
<1>3. CASE Post(k) /\ Kept(o)
  <2>1. /\ keys[o].state = "kept" /\ UNCHANGED <<stripe, keys, executed>>
        /\ Keeps(k, "posted", SnapshotOf(keys[o].answer, MutationResponse))
    BY <1>3 DEF Post, provider
  <2>2. keys[o].answer = stripe
    BY <1>1, <2>1 DEF Safe, AnswersLast
  <2>3. /\ OtherCalls(k) /\ calls'[k].pc = "posted"
        /\ calls'[k].snap = SnapshotOf(stripe, MutationResponse)
    BY <2>1, <2>2, CallAfter
  <2>4. Fresh(calls'[k].snap) /\ calls'[k].snap.version = stripe.version
    BY <2>1, <2>3 DEF Fresh, SnapshotOf
  <2>5. ReadsTrue'
    BY <1>1, <1>2, <2>1, <2>3, <2>4, CallReads DEF Reads, Safe
  <2>6. AnswersLast'
    BY <1>1, <2>1, <2>3, <2>4, CallAnswers DEF Pending, Safe
  <2>7. CopyLags' /\ Funded'
    BY <1>1, <2>1 DEF Safe, CopyLags, Funded, Pending
  <2> QED BY <2>5, <2>6, <2>7 DEF Safe
<1>4. CASE PostLost(k) /\ UNCHANGED <<stripe, executed>> /\ KeepsAnswer(o, "failed")
  <2>1. OtherCalls(k) /\ calls'[k].pc = "idle" /\ ~HoldsRead(k)'
    BY <1>4, CallAfter DEF PostLost, Fails, HoldsRead
  <2>2. keys'[o].state = "failed"
    BY <1>1, <1>4 DEF KeepsAnswer, ChargeInv, TypeOK
  <2>3. Pending' = Pending
    BY <1>1 DEF Pending
  <2>4. ReadsTrue'
    BY <1>1, <1>2, <1>4, <2>1, CallReads DEF Reads, Safe
  <2>5. AnswersLast'
    BY <1>1, <1>4, <2>1, <2>2, <2>3, CallAnswers DEF Safe
  <2>6. CopyLags' /\ Funded'
    BY <1>1, <1>4, <2>3 DEF Safe, CopyLags, Funded, Pending
  <2> QED BY <2>4, <2>5, <2>6 DEF Safe
<1>5. CASE ~Kept(o) /\ Executes(o)
  BY <1>5, ExecutedSafe
<1> QED BY <1>3, <1>4, <1>5 DEF Post, PostLost

LEMMA PrepareSafe ==
  ASSUME ChargeInv, Safe, NEW k \in Callers, NEW target \in menu.targets,
         Prepare(k, target)
  PROVE  Safe'
<1>1. UNCHANGED <<stripe, keys, executed, sub, required, workers>>
  BY DEF Prepare, provider, OfCall
<1>2. TypeOK'
  BY PrepareTypes DEF ChargeInv
<1>3. OtherCalls(k) /\ calls'[k].pc = "prepared" /\ ~HoldsRead(k)'
  BY DEF Prepare, OtherCalls, ChargeInv, TypeOK, Call, HoldsRead
<1>4. ReadsTrue'
  BY <1>1, <1>2, <1>3, CallReads DEF Reads, Safe
<1>5. CASE UNCHANGED ops
  BY <1>5, <1>1, <1>3, CallAnswers, <1>4 DEF Pending, Safe, CopyLags, Funded
<1>6. CASE /\ Pending = {} /\ Len(ops) < MaxOps /\ target # sub.quantity
           /\ ops' = Append(ops, [previous |-> sub.quantity, target |-> target,
                                  status |-> "pending", outcome |-> "none",
                                  replay |-> NoReplay])
  <2> DEFINE n == Len(ops) + 1
  <2>1. /\ n \in OpIds /\ n \notin DOMAIN ops /\ DOMAIN ops' = DOMAIN ops \cup {n}
        /\ \A p \in DOMAIN ops : ops'[p] = ops[p]
        /\ ops'[n].previous = sub.quantity /\ ops'[n].target = target
    BY <1>6, BillingAssumption DEF ChargeInv, TypeOK, OpIds
  <2>2. keys[n].state = "unused" /\ executed[n] = 0
    BY <2>1 DEF ChargeInv, KeysLate
  <2> HIDE DEF n
  <2>3. Pending' \subseteq {n}
    BY <1>6, <2>1 DEF Pending
  <2>4. AnswersLast'
    <3>1. ASSUME NEW c \in Callers
          PROVE  /\ calls'[c].pc \in {"posted", "answered"} =>
                      calls'[c].snap.version = stripe'.version
                 /\ HoldsRead(c)' /\ calls'[c].pc \notin {"posted", "answered"} =>
                      calls'[c].snap.kind = Observation
      BY <1>1, <1>3 DEF OtherCalls, HoldsRead, Safe, AnswersLast
    <3>2. \A w \in Workers : EventHoldsRead(w)' => workers'[w].snap.kind = Observation
      BY <1>1 DEF EventHoldsRead, Safe, AnswersLast
    <3> QED BY <1>1, <2>2, <2>3, <3>1, <3>2 DEF AnswersLast
  <2>5. sub.version = stripe.version
    BY <1>6 DEF Safe, CopyLags
  <2>6. CopyLags'
    BY <1>6, <2>1, <1>1, <2>2, <2>3, <2>5 DEF Safe, CopyLags
  <2> QED BY <1>1, <1>4, <2>4, <2>6 DEF Safe, Funded
<1> QED BY <1>5, <1>6 DEF Prepare

(* A delivery reads, projects what it read, or gives up.                   *)
LEMMA WorkSafe ==
  ASSUME ChargeInv, Safe, Undisturbed', NEW w \in Workers, WorkStep(w) \/ WorkFault(w)
  PROVE  Safe'
<1>1. UNCHANGED <<stripe, keys, executed, ops, required, calls, now>>
  BY DEF WorkStep, WorkFault, OfEvents, provider, Acquire, ResolveEvent,
     ReserveForEvent, ApplyEvent, Complete, Release, Settle, EventFails, WorkerCrashes
<1>2. TypeOK'
  BY WorkStepTypes DEF ChargeInv
<1>3. workers \in [Workers -> Work] /\ workers[w] \in Work /\ workers[w].snap \in Snapshot
  BY DEF ChargeInv, TypeOK, Work
<1>4. /\ \A v \in Workers \ {w} : workers'[v] = workers[v]
      /\ EventHoldsRead(w)' => /\ workers'[w].snap.kind = Observation
                               /\ \/ Fresh(workers'[w].snap)
                                  \/ /\ EventHoldsRead(w)
                                     /\ Same(workers'[w].snap, workers[w].snap)
  <2>1. CASE \E v \in Versions : Acquire(w, v)
    BY <1>3, <2>1 DEF Acquire, EventHoldsRead, Work
  <2>2. CASE ResolveEvent(w)
    BY <1>1, <1>3, <2>2 DEF ResolveEvent, Work, Fresh, SnapshotOf
  <2>3. CASE ReserveForEvent(w)
    BY <1>3, <2>3 DEF ReserveForEvent, Work, Same, Snapshot, EventHoldsRead,
       Safe, AnswersLast
  <2>4. CASE ApplyEvent(w) \/ EventFails(w)
    BY <1>3, <2>4 DEF ApplyEvent, EventFails, EventHoldsRead, Work
  <2>5. CASE Complete(w) \/ Release(w) \/ WorkerCrashes(w)
    BY <1>3, <2>5 DEF Complete, Release, Settle, WorkerCrashes, EventHoldsRead, NoWork
  <2> QED BY <2>1, <2>2, <2>3, <2>4, <2>5 DEF WorkStep, WorkFault
<1>5. sub' \in Reads /\ sub'.version >= sub.version
  <2>1. CASE ApplyEvent(w)
    BY <2>1, ProjectsForward DEF ApplyEvent, EventHoldsRead, Reads, Safe,
       AnswersLast
  <2>2. CASE sub' = sub
    BY <2>2, ReadsTyped DEF Reads
  <2> QED BY <2>1, <2>2 DEF WorkStep, WorkFault, Acquire, ResolveEvent,
            ReserveForEvent, Complete, Release, Settle, EventFails, WorkerCrashes
<1>6. ReadsTrue'
  <2>1. ASSUME NEW s \in Reads' PROVE Fresh(s) \/ \E t \in Reads : Same(s, t)
    <3>1. CASE s = sub' \/ \E c \in Callers : HoldsRead(c)' /\ s = calls'[c].snap
      BY <1>1, <1>5, <3>1 DEF HoldsRead, Reads, Same
    <3>2. ASSUME NEW v \in Workers, EventHoldsRead(v)', s = workers'[v].snap
          PROVE  Fresh(s) \/ \E t \in Reads : Same(s, t)
      <4>1. EventHoldsRead(v) => workers[v].snap \in Reads
        BY DEF Reads
      <4>2. CASE v # w
        BY <1>4, <3>2, <4>2, <4>1 DEF EventHoldsRead, Same
      <4>3. CASE v = w
        BY <1>4, <3>2, <4>1, <4>3
      <4> QED BY <4>2, <4>3
    <3> QED BY <3>1, <3>2 DEF Reads
  <2> QED BY <1>1, <1>2, <2>1, ReadsStep DEF Safe
<1>7. AnswersLast'
  BY <1>4, <1>1 DEF EventHoldsRead, Safe, AnswersLast, HoldsRead, Pending
<1>8. CopyLags' /\ Funded'
  BY <1>5, CopyForward, <1>1 DEF Safe, CopyLags, Funded, Pending
<1> QED BY <1>6, <1>7, <1>8 DEF Safe

LEMMA OthersSafe ==
  ASSUME ChargeInv, Safe, Undisturbed',
         \/ \E v \in Versions : Ingest(v) \/ LeaseExpires(v)
         \/ \E quantity \in menu.outside : ChangeOutside(quantity)
         \/ AssignSeat \/ UnassignSeat \/ Tick
  PROVE  Safe'
<1>1. CASE \E quantity \in menu.outside : ChangeOutside(quantity)
  BY <1>1 DEF ChangeOutside, Undisturbed
<1>2. CASE \/ \E v \in Versions : Ingest(v) \/ LeaseExpires(v)
           \/ AssignSeat \/ UnassignSeat \/ Tick
  <2>1. UNCHANGED <<stripe, keys, executed, ops, sub, calls, workers>>
    BY <1>2 DEF Ingest, LeaseExpires, OfEvents, AssignSeat, UnassignSeat, Seats, Tick,
       provider
  <2>2. Funded'
    <3>1. CASE AssignSeat
      BY CapacityBound, <3>1, ReadsTyped, <2>1 DEF ChargeInv, TypeOK,
         AssignSeat, Reads, Funded
    <3>2. CASE UnassignSeat
      BY <3>2, ReadsTyped, <2>1 DEF UnassignSeat, Reads, Safe, Funded
    <3>3. CASE UNCHANGED required
      BY <2>1, <3>3 DEF Safe, Funded
    <3> QED BY <1>2, <3>1, <3>2, <3>3 DEF Ingest, LeaseExpires, OfEvents, Tick
  <2> QED BY <2>1, <2>2 DEF Safe, ReadsTrue, Reads, HoldsRead, EventHoldsRead,
            AnswersLast, CopyLags, Pending
<1> QED BY <1>1, <1>2

LEMMA FundStart ==
  Init => FundInv
<1> SUFFICES ASSUME Init PROVE FundInv
  OBVIOUS
<1>1. /\ sub.version = 1 /\ sub.quantity = 2 /\ sub.active /\ sub.at = 0
      /\ stripe.version = 1 /\ stripe.quantity = 2 /\ stripe.active
  BY DEF Init, SnapshotOf, First
<1>2. /\ \A c \in Callers : calls[c].pc = "idle"
      /\ \A w \in Workers : workers[w].pc = "idle"
      /\ DOMAIN ops = {} /\ required = 1
  BY DEF Init, NoCall, NoWork
<1>3. Reads = {sub} /\ Pending = {}
  BY <1>2 DEF Reads, HoldsRead, EventHoldsRead, Pending
<1>4. ReadsTrue
  BY <1>1, <1>3 DEF ReadsTrue
<1>5. AnswersLast
  BY <1>2, <1>3 DEF AnswersLast, HoldsRead, EventHoldsRead
<1>6. CopyLags /\ Funded /\ PendingOpen
  BY <1>1, <1>2, <1>3 DEF CopyLags, Funded, PendingOpen
<1> QED BY <1>4, <1>5, <1>6 DEF FundInv

LEMMA FundKept ==
  ChargeInv /\ FundInv /\ [Next]_vars => FundInv'
<1> SUFFICES ASSUME ChargeInv, FundInv, [Next]_vars PROVE FundInv'
  OBVIOUS
<1>1. PendingOpen'
  BY OutcomeShape DEF FundInv
<1>2. ASSUME Undisturbed' PROVE Safe'
  <2>1. Undisturbed /\ Safe
    BY <1>2, UndisturbedBefore DEF FundInv, Safe
  <2>2. CASE Next
    <3>1. ASSUME NEW c \in Callers, CallStep(c) \/ CallFault(c) PROVE Safe'
      BY <1>2, <2>1, <3>1, ReadingSafe, AuthorizeSafe, CommitSafe, ClaimSafe, RejectSafe,
         PostSafe DEF CallStep, CallFault
    <3> QED BY <1>2, <2>1, <2>2, <3>1, PrepareSafe, WorkSafe, OthersSafe DEF Next
  <2>3. CASE UNCHANGED vars
    BY <2>1, <2>3 DEF vars, Safe, ReadsTrue, Reads, HoldsRead, EventHoldsRead,
       AnswersLast, CopyLags, Pending, Funded
  <2> QED BY <2>2, <2>3
<1> QED BY <1>1, <1>2 DEF FundInv, Safe

(* No member uses a seat that is not paid for, however the changes of the  *)
(* quantity, their retries, the webhook events and the assignments of      *)
(* seats interleave and fail: unless somebody else changes the             *)
(* subscription, two reads of one second are misordered, or an operation   *)
(* Stripe had executed is closed as rejected.                              *)
THEOREM SeatsPaid == Spec => []SeatsFunded
<1>1. Init => ChargeInv /\ FundInv
  BY ChargeStart, FundStart
<1>2. (ChargeInv /\ FundInv) /\ [Next]_vars => (ChargeInv /\ FundInv)'
  BY ChargeKept, FundKept
<1>3. ChargeInv /\ FundInv => SeatsFunded
  BY Paid DEF FundInv, SeatsFunded, Undisturbed
<1> QED BY <1>1, <1>2, <1>3, PTL DEF Spec


-----------------------------------------------------------------------------
(* The licensing client.  Queues, and what is in them.                     *)

Elements(queue) == {queue[i] : i \in DOMAIN queue}

LEMMA JoinedIs ==
  ASSUME NEW S, NEW s \in Seq(S), NEW t \in Seq(S)
  PROVE  s \o t \in Seq(S) /\ Elements(s \o t) \subseteq Elements(s) \cup Elements(t)
<1>1. /\ s \o t \in Seq(S) /\ Len(s \o t) = Len(s) + Len(t)
      /\ \A i \in 1 .. Len(s) + Len(t) :
           (s \o t)[i] = IF i <= Len(s) THEN s[i] ELSE t[i - Len(s)]
  BY ConcatProperties
<1>2. /\ Len(s) \in Nat /\ Len(t) \in Nat
      /\ DOMAIN s = 1..Len(s) /\ DOMAIN t = 1..Len(t)
      /\ DOMAIN (s \o t) = 1..Len(s \o t)
  BY <1>1, LenProperties
<1>3. ASSUME NEW i \in DOMAIN (s \o t)
      PROVE  (s \o t)[i] \in Elements(s) \cup Elements(t)
  <2>1. i \in 1 .. Len(s) + Len(t)
    BY <1>1, <1>2
  <2>2. CASE i <= Len(s)
    BY <1>1, <1>2, <2>1, <2>2 DEF Elements
  <2>3. CASE ~(i <= Len(s))
    BY <1>2, <2>1, <2>3, <1>1 DEF Elements
  <2>4. QED
    BY <2>2, <2>3
<1>4. QED
  BY <1>1, <1>3 DEF Elements

LEMMA AppendedIs ==
  ASSUME NEW S, NEW s \in Seq(S), NEW x \in S
  PROVE  /\ Append(s, x) \in Seq(S) /\ Elements(Append(s, x)) \subseteq Elements(s) \cup {x}
         /\ Len(Append(s, x)) = Len(s) + 1 /\ Len(s) \in Nat
         /\ DOMAIN Append(s, x) = 1..(Len(s) + 1) /\ DOMAIN s = 1..Len(s)
         /\ \A i \in 1..Len(s) : Append(s, x)[i] = s[i]
         /\ Append(s, x)[Len(s) + 1] = x
<1>1. /\ Append(s, x) \in Seq(S)
      /\ Len(Append(s, x)) = Len(s) + 1 /\ Len(s) \in Nat
      /\ DOMAIN Append(s, x) = 1..(Len(s) + 1) /\ DOMAIN s = 1..Len(s)
      /\ \A i \in 1..Len(s) : Append(s, x)[i] = s[i]
      /\ Append(s, x)[Len(s) + 1] = x
  BY AppendProperties, LenProperties
<1>2. ASSUME NEW i \in DOMAIN Append(s, x)
      PROVE  Append(s, x)[i] \in Elements(s) \cup {x}
  BY <1>1 DEF Elements
<1>3. QED
  BY <1>1, <1>2 DEF Elements

LEMMA RestIs ==
  ASSUME NEW S, NEW s \in Seq(S), s # <<>>
  PROVE  /\ Tail(s) \in Seq(S) /\ Elements(Tail(s)) \subseteq Elements(s)
         /\ Head(s) \in S /\ Head(s) = s[1] /\ Head(s) \in Elements(s)
         /\ Len(s) \in Nat \ {0} /\ Len(Tail(s)) = Len(s) - 1
         /\ DOMAIN Tail(s) = 1..(Len(s) - 1) /\ DOMAIN s = 1..Len(s)
         /\ \A i \in 1..(Len(s) - 1) : Tail(s)[i] = s[i + 1]
         /\ Tail(s) = <<>> <=> Len(s) = 1
<1>1. /\ Tail(s) \in Seq(S) /\ Head(s) \in S /\ Len(Tail(s)) = Len(s) - 1
      /\ Len(s) \in Nat \ {0} /\ DOMAIN s = 1..Len(s)
      /\ DOMAIN Tail(s) = 1..(Len(s) - 1)
      /\ \A i \in 1..(Len(s) - 1) : Tail(s)[i] = s[i + 1]
  BY HeadTailProperties, LenProperties, EmptySeq
<1>2. Head(s) = s[1]
  BY <1>1
<1>3. Elements(Tail(s)) \subseteq Elements(s)
  <2>1. ASSUME NEW i \in DOMAIN Tail(s)
        PROVE  Tail(s)[i] \in Elements(s)
    BY <1>1 DEF Elements
  <2>2. QED
    BY <2>1 DEF Elements
<1>4. Tail(s) = <<>> <=> Len(s) = 1
  <2>1. Tail(s) # <<>> => Len(Tail(s)) # 0
    BY <1>1, EmptySeq
  <2>2. Tail(s) = <<>> => Len(Tail(s)) = 0
    BY EmptySeq
  <2>3. Len(Tail(s)) = 0 <=> Len(s) = 1
    BY <1>1
  <2>4. QED
    BY <2>1, <2>2, <2>3
<1>5. 1 \in DOMAIN s
  BY <1>1
<1>6. QED
  BY <1>1, <1>2, <1>3, <1>4, <1>5 DEF Elements

-----------------------------------------------------------------------------
(* What is true of the client in every state.                              *)

ClientCommands ==
  [kind : {"signIn", "refresh", "signOut"}, gen : Nat]
    \cup [kind : {"switch"}, gen : Nat, server : Servers]

EventKinds == {"checking", "awaiting", "licensed", "offline", "evaluation", "renewal",
               "signedOut", "signedOutForGood", "clear", "failed"}

ClientEvents == [kind : EventKinds, gen : Nat, lease : Client!Lease]

Settings ==
  [server : Servers, lease : Client!Lease, signedOut : BOOLEAN,
   session : Client!Token, retry : BOOLEAN, retryGen : Nat]

Attempts ==
  [step : {"idle", "refreshing", "authorizing", "approving", "entitling"},
   kind : {"none", "signIn", "refresh"}, gen : Nat, token : Client!Token,
   answer : {"none", "granted"}]

Shown ==
  /\ ui \in [server : Servers, lease : Client!Lease, signedOut : BOOLEAN,
             status : Client!Statuses, shown : Client!Lease, gen : Nat]
  /\ clock \in 0..MaxTime
  /\ commands \in Seq(ClientCommands)
  /\ events \in Seq(ClientEvents)

Held ==
  /\ worker \in Settings
  /\ attempt \in Attempts
  /\ attempt.step = "idle" => attempt = Client!Idle
  /\ Client!Granted => attempt.step \in {"refreshing", "approving"}
  /\ keychain \in [Servers -> Client!Token]
  /\ valid \subseteq Servers /\ gone \subseteq Servers /\ unfinished \in BOOLEAN

IsOut(c) == c.kind \in {"signOut", "switch"}

(* The commands lead to what is shown: the last of them is of the latest   *)
(* operation, and no refresh follows the end of a session.                 *)
Told ==
  /\ \A c \in DOMAIN commands :
       /\ commands[c].gen <= ui.gen
       /\ commands[c].gen = ui.gen <=> c = Len(commands)
       /\ c = Len(commands) => (IsOut(commands[c]) <=> ui.signedOut)
       /\ commands[c].kind = "refresh" /\ c = 1 => ~worker.signedOut
       /\ commands[c].kind = "refresh" /\ c # 1 => ~IsOut(commands[c - 1])
       /\ commands[c].kind = "switch" =>
            \/ commands[c].server = ui.server
            \/ \E d \in DOMAIN commands : d > c /\ commands[d].kind = "switch"
  /\ commands = <<>> => worker.signedOut = ui.signedOut
  /\ (\A c \in DOMAIN commands : commands[c].kind # "switch") =>
       worker.server = ui.server

(* An attempt for the generation gen is of an account that is signed in.   *)
Earlier(gen) ==
  gen <= ui.gen /\ (commands # <<>> => gen < ui.gen) /\ ~worker.signedOut

Under ==
  /\ attempt.step # "idle" => Earlier(attempt.gen)
  /\ worker.retry => Earlier(worker.retryGen)

Heard ==
  /\ \A e \in Elements(events) :
       /\ e.gen <= ui.gen
       /\ e.gen = ui.gen => (e.kind = "signedOutForGood" <=> ui.signedOut)
  /\ ui.signedOut =>
       ui.status = "signedOut" /\ ui.lease = Client!NoLease /\ ui.shown = Client!NoLease

TokenOf(s) ==
  IF s = Client!Here /\ worker.session # Client!NoToken THEN worker.session ELSE keychain[s]

Tokens ==
  /\ \A s \in valid \ gone : (s = Client!Here => ~Client!Granted) => TokenOf(s) = "current"
  /\ ~unfinished =>
       \A s \in Servers : s # Client!Here \/ worker.signedOut => keychain[s] = Client!NoToken

ClientInv == Shown /\ Held /\ Told /\ Under /\ Heard /\ Tokens

LEMMA LeasesAre ==
  /\ Client!NoLease \in Client!Lease /\ MaxTime \in Nat /\ Client!Lease \subseteq Nat
  /\ Client!NoLease = 0 /\ 1 \in Client!Lease
BY ClientAssumption DEF Client!LicensingAssumption, Client!NoLease, Client!Lease

LEMMA IdleIs ==
  /\ Client!Idle \in Attempts /\ Client!Idle.step = "idle" /\ Client!Idle.answer = "none"
  /\ Client!Idle.gen = 0 /\ Client!Idle.kind = "none" /\ Client!Idle.token = Client!NoToken
BY DEF Client!Idle, Attempts, Client!Token

LEMMA NothingIn ==
  ASSUME NEW S
  PROVE  <<>> \in Seq(S) /\ Elements(<<>>) = {} /\ DOMAIN <<>> = {} /\ Len(<<>>) = 0
<1>1. <<>> \in Seq(S) /\ Len(<<>>) = 0
  BY EmptySeq
<1>2. DOMAIN <<>> = 1..Len(<<>>)
  BY <1>1, LenProperties
<1>3. DOMAIN <<>> = {}
  BY <1>1, <1>2
<1>4. QED
  BY <1>1, <1>3 DEF Elements

(* The program as it is started: nothing is under way but a refresh of an  *)
(* account that is signed in.                                              *)
LEMMA StartedIs ==
  ASSUME NEW server \in Servers, NEW lease \in Client!Lease, NEW out \in BOOLEAN,
         clock \in 0..MaxTime, out => lease = Client!NoLease,
         ui' = Client!StartedUi(server, lease, out),
         worker' = Client!StartedWorker(server, lease, out),
         commands' = Client!StartedCommands(out), events' = <<>>, attempt' = Client!Idle,
         clock' = clock
  PROVE  /\ Shown' /\ Told' /\ Under' /\ Heard'
         /\ worker' \in Settings /\ attempt' \in Attempts
         /\ worker'.server = server /\ worker'.signedOut = out
         /\ worker'.session = Client!NoToken
         /\ attempt' = Client!Idle
<1>1. /\ ui' \in [server : Servers, lease : Client!Lease, signedOut : BOOLEAN,
                  status : Client!Statuses, shown : Client!Lease, gen : Nat]
      /\ ui'.server = server /\ ui'.signedOut = out
      /\ ui'.gen = (IF out THEN 0 ELSE 1)
      /\ out => ui'.status = "signedOut" /\ ui'.lease = Client!NoLease /\ ui'.shown = Client!NoLease
  BY LeasesAre DEF Client!StartedUi, Client!Statuses
<1>2. /\ worker' \in Settings /\ worker'.server = server /\ worker'.signedOut = out
      /\ worker'.session = Client!NoToken /\ worker'.retry = FALSE
  BY DEF Client!StartedWorker, Settings, Client!Token
<1>3. events' \in Seq(ClientEvents) /\ Elements(events') = {}
  BY NothingIn
<1>4. CASE out
  BY <1>4, NothingIn, <1>1, <1>3, <1>2, IdleIs DEF Client!StartedCommands,
     Shown, Told, Under, Heard
<1>5. CASE ~out
  <2>1. PICK c : c = [kind |-> "refresh", gen |-> 1]
    OBVIOUS
  <2>2. c \in ClientCommands /\ c.kind = "refresh" /\ c.gen = 1
    BY <2>1 DEF ClientCommands
  <2>3. commands' = <<c>>
    BY <1>5, <2>1 DEF Client!StartedCommands
  <2>4. /\ commands' \in Seq(ClientCommands) /\ Len(commands') = 1
        /\ commands'[1] = c /\ DOMAIN commands' = {1}
    BY <2>2, <2>3
  <2>5. Shown'
    BY <1>1, <1>3, <2>4 DEF Shown
  <2>6. Told'
    BY <1>1, <1>2, <1>5, <2>2, <2>4 DEF Told, IsOut
  <2>7. Under' /\ Heard'
    BY <1>1, <1>2, <1>3, <1>5, IdleIs DEF Under, Heard
  <2>8. QED
    BY <1>2, <2>5, <2>6, <2>7, IdleIs
<1>6. QED
  BY <1>4, <1>5

LEMMA ClientStart == Client!Init => ClientInv
<1> SUFFICES ASSUME Client!Init
             PROVE  ClientInv
  OBVIOUS
<1>1. PICK lease \in {Client!NoLease, 1} :
        /\ ui = Client!StartedUi(Hosted, lease, FALSE)
        /\ worker = Client!StartedWorker(Hosted, lease, FALSE)
        /\ valid = IF lease = Client!NoLease THEN {} ELSE {Hosted}
        /\ keychain = [s \in Servers |-> IF s \in valid THEN "current" ELSE Client!NoToken]
  BY DEF Client!Init
<1>2. /\ clock = 0 /\ commands = Client!StartedCommands(FALSE) /\ events = <<>>
      /\ attempt = Client!Idle /\ gone = {} /\ unfinished = FALSE
      /\ Hosted \in Servers /\ MaxTime \in Nat /\ lease \in Client!Lease
  BY <1>1, LeasesAre, ClientAssumption DEF Client!Init, Client!LicensingAssumption
<1>3. /\ ui \in [server : Servers, lease : Client!Lease, signedOut : BOOLEAN,
                 status : Client!Statuses, shown : Client!Lease, gen : Nat]
      /\ ui.server = Hosted /\ ui.signedOut = FALSE /\ ui.gen = 1
  BY <1>1, <1>2, LeasesAre DEF Client!StartedUi, Client!Statuses
<1>4. /\ worker \in Settings /\ worker.server = Hosted /\ worker.signedOut = FALSE
      /\ worker.session = Client!NoToken /\ worker.retry = FALSE
  BY <1>1, <1>2 DEF Client!StartedWorker, Settings, Client!Token
<1>5. events \in Seq(ClientEvents) /\ Elements(events) = {}
  BY <1>2, NothingIn
<1>6. PICK c : c = [kind |-> "refresh", gen |-> 1]
  OBVIOUS
<1>7. c \in ClientCommands /\ c.kind = "refresh" /\ c.gen = 1
  BY <1>6 DEF ClientCommands
<1>8. commands = <<c>>
  BY <1>2, <1>6 DEF Client!StartedCommands
<1>9. /\ commands \in Seq(ClientCommands) /\ Len(commands) = 1
      /\ commands[1] = c /\ DOMAIN commands = {1}
  BY <1>7, <1>8
<1>10. Shown
  <2>1. clock \in 0..MaxTime
    BY <1>2
  <2>2. QED
    BY <1>3, <1>5, <1>9, <2>1 DEF Shown
<1>11. Told
  <2>1. commands # <<>>
    BY <1>9, EmptySeq
  <2>2. \A i \in DOMAIN commands :
          /\ i = 1 /\ commands[i].gen = 1 /\ commands[i].kind = "refresh"
          /\ ~IsOut(commands[i])
    BY <1>7, <1>9 DEF IsOut
  <2>3. QED
    BY <1>3, <1>4, <1>9, <2>1, <2>2 DEF Told
<1>12. Under /\ Heard
  BY <1>2, <1>3, <1>4, <1>5, IdleIs DEF Under, Heard
<1>13. Held
  BY <1>1, <1>2, <1>4, IdleIs DEF Client!Token, Held, Client!Granted
<1>14. Tokens
  BY <1>1, <1>2, <1>4 DEF Tokens, TokenOf, Client!Here
<1>15. QED
  BY <1>10, <1>11, <1>12, <1>13, <1>14 DEF ClientInv

-----------------------------------------------------------------------------
(* Commands are sent ...                                                   *)

LEMMA SentKeeps ==
  ASSUME ClientInv, NEW c \in ClientCommands,
         commands' = Append(commands, c), c.gen = ui.gen + 1,
         ui' \in [server : Servers, lease : Client!Lease, signedOut : BOOLEAN,
                  status : Client!Statuses, shown : Client!Lease, gen : Nat],
         ui'.gen = ui.gen + 1, ui'.signedOut <=> IsOut(c),
         ui'.server = IF c.kind = "switch" THEN c.server ELSE ui.server,
         c.kind = "refresh" => ~ui.signedOut,
         ui'.signedOut =>
           ui'.status = "signedOut" /\ ui'.lease = Client!NoLease /\ ui'.shown = Client!NoLease,
         UNCHANGED <<clock, events, worker, attempt, keychain, valid, gone, unfinished>>
  PROVE  ClientInv'
<1> USE DEF ClientInv
<1> DEFINE n == Len(commands)
<1>1. /\ commands' \in Seq(ClientCommands)
      /\ n \in Nat /\ DOMAIN commands = 1..n /\ DOMAIN commands' = 1..(n + 1)
      /\ Len(commands') = n + 1
      /\ \A i \in 1..n : commands'[i] = commands[i]
      /\ commands'[n + 1] = c
      /\ \A i \in 1..n : commands[i] \in ClientCommands
  BY AppendedIs, ElementOfSeq DEF Shown
<1>2. commands = <<>> <=> n = 0
  BY <1>1, EmptySeq DEF Shown
<1> HIDE DEF n
<1>3. ui.gen \in Nat /\ worker.retryGen \in Nat /\ attempt.gen \in Nat
  BY DEF Shown, Held, Settings, Attempts
<1>4. Shown'
  BY <1>1 DEF Shown
<1>5. Held'
  BY DEF Held, Client!Granted
<1>6. Told'
  <2>1. \A i \in 1..n : commands[i].gen \in Nat
    BY <1>1 DEF ClientCommands
  <2>2. /\ \A i \in 1..n : i # n + 1 /\ commands'[i].gen <= ui.gen
        /\ n = 0 => worker.signedOut = ui.signedOut
        /\ n # 0 => (IsOut(commands[n]) <=> ui.signedOut) /\ n \in 1..n
    BY <1>1, <1>2 DEF Told, n
  <2>3. \A i \in 1..n :
          /\ commands'[i].gen <= ui'.gen /\ commands'[i].gen # ui'.gen
          /\ commands'[i].kind = "refresh" /\ i = 1 => ~worker'.signedOut
          /\ commands'[i].kind = "refresh" /\ i # 1 => ~IsOut(commands'[i - 1])
    <3> SUFFICES ASSUME NEW i \in 1..n
                 PROVE  /\ commands'[i].gen <= ui'.gen /\ commands'[i].gen # ui'.gen
                        /\ commands'[i].kind = "refresh" /\ i = 1 => ~worker'.signedOut
                        /\ commands'[i].kind = "refresh" /\ i # 1 =>
                             ~IsOut(commands'[i - 1])
      OBVIOUS
    <3>1. commands'[i].gen <= ui'.gen /\ commands'[i].gen # ui'.gen
      BY <1>1, <1>3, <2>1, <2>2
    <3>2. i # 1 => i - 1 \in 1..n
      BY <1>1
    <3>3. /\ commands[i].kind = "refresh" /\ i = 1 => ~worker.signedOut
          /\ commands[i].kind = "refresh" /\ i # 1 => ~IsOut(commands[i - 1])
      BY <1>1 DEF Told
    <3>4. QED
      BY <1>1, <3>1, <3>2, <3>3
  <2>4. \A i \in 1..n : commands'[i].kind = "switch" =>
          \/ commands'[i].server = ui'.server
          \/ \E d \in 1..(n + 1) : d > i /\ commands'[d].kind = "switch"
    <3> SUFFICES ASSUME NEW i \in 1..n, commands'[i].kind = "switch"
                 PROVE  \/ commands'[i].server = ui'.server
                        \/ \E d \in 1..(n + 1) : d > i /\ commands'[d].kind = "switch"
      OBVIOUS
    <3>1. CASE c.kind = "switch"
      BY <1>1, <3>1
    <3>2. CASE c.kind # "switch"
      BY <1>1, <3>2 DEF Told
    <3>3. QED
      BY <3>1, <3>2
  <2>5. /\ c.gen <= ui'.gen /\ c.gen = ui'.gen /\ IsOut(c) <=> ui'.signedOut
        /\ c.kind = "switch" => c.server = ui'.server
    BY <1>3
  <2>6. c.kind = "refresh" =>
          (n = 0 => ~worker'.signedOut) /\ (n # 0 => ~IsOut(commands'[n]))
    BY <1>1, <2>2
  <2>7. (\A i \in 1..(n + 1) : commands'[i].kind # "switch") =>
          worker'.server = ui'.server
    <3> SUFFICES ASSUME \A i \in 1..(n + 1) : commands'[i].kind # "switch"
                 PROVE  worker'.server = ui'.server
      OBVIOUS
    <3>1. n + 1 \in 1..(n + 1) /\ \A i \in 1..n : i \in 1..(n + 1)
      BY <1>1
    <3>2. c.kind # "switch" /\ \A i \in 1..n : commands[i].kind # "switch"
      BY <1>1, <3>1
    <3>3. worker.server = ui.server
      BY <1>1, <3>2 DEF Told
    <3>4. QED
      BY <3>2, <3>3
  <2>8. \A i \in 1..(n + 1) : i \in 1..n \/ i = n + 1
    BY <1>1
  <2>9. commands' # <<>> /\ (n + 1 = 1 <=> n = 0) /\ n + 1 - 1 = n
    BY <1>1, EmptySeq
  <2>10. ASSUME NEW i \in DOMAIN commands'
         PROVE  /\ commands'[i].gen <= ui'.gen
                /\ commands'[i].gen = ui'.gen <=> i = Len(commands')
                /\ i = Len(commands') => (IsOut(commands'[i]) <=> ui'.signedOut)
                /\ commands'[i].kind = "refresh" /\ i = 1 => ~worker'.signedOut
                /\ commands'[i].kind = "refresh" /\ i # 1 => ~IsOut(commands'[i - 1])
                /\ commands'[i].kind = "switch" =>
                     \/ commands'[i].server = ui'.server
                     \/ \E d \in DOMAIN commands' :
                          d > i /\ commands'[d].kind = "switch"
    <3>1. CASE i \in 1..n
      BY <1>1, <2>2, <2>3, <2>4, <3>1
    <3>2. CASE i = n + 1
      BY <1>1, <2>5, <2>6, <2>9, <3>2
    <3>3. QED
      BY <1>1, <2>8, <2>10, <3>1, <3>2
  <2>11. (\A i \in DOMAIN commands' : commands'[i].kind # "switch") =>
           worker'.server = ui'.server
    BY <1>1, <2>7
  <2>12. QED
    BY <2>9, <2>10, <2>11 DEF Told, IsOut
<1>7. Under'
  BY <1>3 DEF Under, Earlier
<1>8. Heard'
  <2>1. \A e \in Elements(events) : e.gen <= ui.gen /\ e.gen \in Nat
    <3>1. \A e \in Elements(events) : e \in ClientEvents
      BY LenProperties, ElementOfSeq DEF Elements, Shown
    <3>2. QED
      BY <3>1 DEF Heard, ClientEvents
  <2>2. \A e \in Elements(events) : e.gen <= ui'.gen /\ e.gen # ui'.gen
    BY <1>3, <2>1
  <2>3. Elements(events') = Elements(events)
    BY DEF Elements
  <2>4. QED
    BY <2>2, <2>3 DEF Heard
<1>9. Tokens'
  BY DEF Tokens, TokenOf, Client!Here, Client!Granted
<1>10. QED
  BY <1>4, <1>5, <1>6, <1>7, <1>8, <1>9

LEMMA UserKeeps == ClientInv /\ Client!User => ClientInv'
<1> SUFFICES ASSUME ClientInv, Client!User
             PROVE  ClientInv'
  OBVIOUS
<1>1. /\ ui \in [server : Servers, lease : Client!Lease, signedOut : BOOLEAN,
                 status : Client!Statuses, shown : Client!Lease, gen : Nat]
      /\ Client!NextGen = ui.gen + 1 /\ Client!NextGen \in Nat
      /\ ui.signedOut => ui.status = "signedOut"
  BY DEF ClientInv, Shown, Heard, Client!NextGen
<1> DEFINE Rest == UNCHANGED <<clock, events, worker, attempt, keychain, valid, gone,
                               unfinished>>
<1>2. CASE Client!SignIn
  <2>1. PICK c : c = [kind |-> "signIn", gen |-> Client!NextGen]
    OBVIOUS
  <2>2. /\ commands' = Append(commands, c)
        /\ ui' = [ui EXCEPT !.signedOut = FALSE, !.gen = Client!NextGen] /\ Rest
    BY <1>2, <2>1 DEF Client!SignIn, Client!Click, Client!Send
  <2>3. c \in ClientCommands /\ c.gen = Client!NextGen /\ ~IsOut(c) /\ c.kind = "signIn"
    BY <1>1, <2>1 DEF ClientCommands, IsOut
  <2>4. QED
    BY <1>1, <2>2, <2>3, SentKeeps
<1>3. CASE Client!Refresh
  <2>1. PICK c : c = [kind |-> "refresh", gen |-> Client!NextGen]
    OBVIOUS
  <2>2. /\ commands' = Append(commands, c)
        /\ ui' = [ui EXCEPT !.gen = Client!NextGen] /\ Rest
        /\ ui.status # "signedOut"
    BY <1>3, <2>1 DEF Client!Refresh, Client!Click, Client!Send
  <2>3. c \in ClientCommands /\ c.gen = Client!NextGen /\ ~IsOut(c) /\ c.kind = "refresh"
    BY <1>1, <2>1 DEF ClientCommands, IsOut
  <2>4. QED
    BY <1>1, <2>2, <2>3, SentKeeps
<1>4. Client!Cleared \in [server : Servers, lease : Client!Lease, signedOut : BOOLEAN,
                   status : Client!Statuses, shown : Client!Lease, gen : Nat]
      /\ Client!Cleared.gen = Client!NextGen /\ Client!Cleared.signedOut = TRUE
      /\ Client!Cleared.status = "signedOut" /\ Client!Cleared.lease = Client!NoLease
      /\ Client!Cleared.shown = Client!NoLease /\ Client!Cleared.server = ui.server
  BY <1>1, LeasesAre DEF Client!Cleared, Client!Statuses
<1>5. CASE Client!SignOut
  <2>1. PICK c : c = [kind |-> "signOut", gen |-> Client!NextGen]
    OBVIOUS
  <2>2. commands' = Append(commands, c) /\ ui' = Client!Cleared /\ Rest
    BY <1>5, <2>1 DEF Client!SignOut, Client!Click, Client!Send
  <2>3. c \in ClientCommands /\ c.gen = Client!NextGen /\ IsOut(c) /\ c.kind = "signOut"
    BY <1>1, <2>1 DEF ClientCommands, IsOut
  <2>4. QED
    BY <1>1, <1>4, <2>2, <2>3, SentKeeps
<1>6. ASSUME NEW s \in Servers, Client!SwitchServer(s)
      PROVE  ClientInv'
  <2>1. PICK c : c = [kind |-> "switch", gen |-> Client!NextGen, server |-> s]
    OBVIOUS
  <2>2. commands' = Append(commands, c) /\ ui' = [Client!Cleared EXCEPT !.server = s] /\ Rest
    BY <1>6, <2>1 DEF Client!SwitchServer, Client!Click
  <2>3. /\ c \in ClientCommands /\ c.gen = Client!NextGen /\ IsOut(c) /\ c.kind = "switch"
        /\ c.server = s
    BY <1>1, <2>1 DEF ClientCommands, IsOut
  <2>4. /\ ui' \in [server : Servers, lease : Client!Lease, signedOut : BOOLEAN,
                    status : Client!Statuses, shown : Client!Lease, gen : Nat]
        /\ ui'.gen = Client!NextGen /\ ui'.signedOut = TRUE
        /\ ui'.status = "signedOut" /\ ui'.lease = Client!NoLease
        /\ ui'.shown = Client!NoLease /\ ui'.server = s
    BY <1>4, <2>2
  <2>5. QED
    BY <1>1, <2>2, <2>3, <2>4, SentKeeps
<1>7. QED
  BY <1>2, <1>3, <1>5, <1>6 DEF Client!User

-----------------------------------------------------------------------------
(* ... and what is heard of them is shown.  The account and the server     *)
(* change by the user only.                                                *)

Uis == [server : Servers, lease : Client!Lease, signedOut : BOOLEAN,
        status : Client!Statuses, shown : Client!Lease, gen : Nat]

SameAccount(w) ==
  /\ w \in Uis /\ w.gen = ui.gen /\ w.server = ui.server
  /\ w.signedOut = ui.signedOut
  /\ ui.signedOut => w.status = "signedOut" /\ w.lease = Client!NoLease /\ w.shown = Client!NoLease

LEMMA EventShown ==
  ASSUME ui \in Uis, NEW e \in ClientEvents,
         e.kind = "signedOutForGood" <=> ui.signedOut
  PROVE  SameAccount(Client!AfterEvent(e))
<1>1. Client!NoLease \in Client!Lease /\ e.lease \in Client!Lease /\ e.kind \in EventKinds
  BY LeasesAre DEF ClientEvents
<1>2. CASE e.kind = "signedOutForGood"
  BY <1>2, <1>1 DEF Client!AfterEvent, SameAccount, Uis, Client!Forgets,
     Client!Shows, Client!Statuses
<1>3. CASE e.kind = "signedOut"
  BY <1>3, <1>1 DEF Client!AfterEvent, SameAccount, Uis, Client!Forgets,
     Client!Shows, Client!Statuses
<1>4. CASE e.kind = "licensed"
  BY <1>4, <1>1 DEF Client!AfterEvent, SameAccount, Uis, Client!Shows,
     Client!Statuses
<1>5. CASE e.kind \in {"evaluation", "renewal"}
  BY <1>5, <1>1 DEF Client!AfterEvent, SameAccount, Uis, Client!Forgets,
     Client!Shows, Client!Statuses
<1>6. CASE e.kind \in {"checking", "awaiting", "offline", "failed"}
  BY <1>6, <1>1 DEF Client!AfterEvent, SameAccount, Uis, Client!Shows,
     Client!Statuses
<1>7. CASE e.kind = "clear"
  BY <1>7, <1>1 DEF Client!AfterEvent, SameAccount, Uis, Client!Forgets
<1>8. QED
  BY <1>1, <1>2, <1>3, <1>4, <1>5, <1>6, <1>7 DEF EventKinds

LEMMA ExpiredShown ==
  ASSUME NEW w, SameAccount(w)
  PROVE  SameAccount(Client!Expired(w))
<1>1. CASE w.shown # Client!NoLease /\ clock >= w.shown
  BY <1>1, LeasesAre DEF Client!Expired, SameAccount, Uis, Client!Statuses
<1>2. CASE ~(w.shown # Client!NoLease /\ clock >= w.shown)
  BY <1>2 DEF Client!Expired
<1>3. QED
  BY <1>1, <1>2

LEMMA ShownKeeps ==
  ASSUME ClientInv, SameAccount(ui'), clock' \in 0..MaxTime,
         events' \in Seq(ClientEvents), Elements(events') \subseteq Elements(events),
         UNCHANGED <<commands, worker, attempt, keychain, valid, gone, unfinished>>
  PROVE  ClientInv'
<1> USE DEF ClientInv
<1>1. Shown' /\ Held'
  BY DEF Shown, Held, SameAccount, Uis, Client!Granted
<1>2. Told'
  BY DEF Told, IsOut, SameAccount
<1>3. Under'
  BY DEF Under, Earlier, SameAccount
<1>4. Heard'
  BY DEF Heard, SameAccount
<1>5. Tokens'
  BY DEF Tokens, TokenOf, Client!Here, Client!Granted
<1>6. QED
  BY <1>1, <1>2, <1>3, <1>4, <1>5

LEMMA PollKeeps == ClientInv /\ (Client!Poll \/ Client!Tick) => ClientInv'
<1> SUFFICES ASSUME ClientInv, Client!Poll \/ Client!Tick
             PROVE  ClientInv'
  OBVIOUS
<1>1. /\ ui \in Uis /\ clock \in 0..MaxTime /\ events \in Seq(ClientEvents)
      /\ MaxTime \in Nat
  BY LeasesAre DEF ClientInv, Shown, Uis
<1>2. SameAccount(ui)
  BY <1>1 DEF SameAccount, ClientInv, Heard
<1>3. CASE Client!Tick
  BY <1>1, <1>3, <1>2, ShownKeeps DEF Client!Tick
<1>4. CASE Client!Poll
  <2>1. UNCHANGED <<clock, commands, worker, attempt, keychain, valid, gone, unfinished>>
    BY <1>4 DEF Client!Poll
  <2>2. CASE events # <<>> /\ events' = Tail(events)
             /\ ui' = Client!Expired(IF Client!Concerns(Head(events))
                                THEN Client!AfterEvent(Head(events)) ELSE ui)
    <3>1. PICK e : e = Head(events)
      OBVIOUS
    <3>2. /\ events' \in Seq(ClientEvents) /\ Elements(events') \subseteq Elements(events)
          /\ e \in ClientEvents /\ e \in Elements(events)
      BY <1>1, <2>2, <3>1, RestIs
    <3>3. CASE Client!Concerns(e)
      BY <3>2, <3>3, <1>1, EventShown, ExpiredShown, <2>2, <3>1, <2>1,
         ShownKeeps DEF Client!Concerns, ClientInv, Heard
    <3>4. CASE ~Client!Concerns(e)
      BY <2>2, <3>1, <3>4, <1>2, ExpiredShown, <1>1, <2>1, <3>2, ShownKeeps
    <3>5. QED
      BY <3>3, <3>4
  <2>3. CASE events' = events /\ ui' = Client!Expired(ui)
    BY <1>2, <2>3, ExpiredShown, <1>1, <2>1, ShownKeeps
  <2>4. QED
    BY <1>4, <2>2, <2>3 DEF Client!Poll
<1>5. QED
  BY <1>3, <1>4

-----------------------------------------------------------------------------
(* The worker takes a command ...                                          *)

LEMMA HeadIs ==
  ASSUME ClientInv, commands # <<>>
  PROVE  /\ Client!Command \in ClientCommands /\ Client!Command = commands[1]
         /\ Client!Command.gen \in Nat /\ Client!Command.gen <= ui.gen
         /\ 1 \in DOMAIN commands
         /\ Len(commands) # 1 => Client!Command.gen < ui.gen
         /\ Len(commands) = 1 => (IsOut(Client!Command) <=> ui.signedOut)
         /\ Client!Command.kind = "refresh" => ~worker.signedOut
<1>1. /\ Client!Command \in ClientCommands /\ Client!Command = commands[1] /\ 1 \in DOMAIN commands
      /\ Client!Command.gen \in Nat
  BY RestIs DEF ClientInv, Shown, Client!Command, ClientCommands
<1>2. /\ Client!Command.gen <= ui.gen
      /\ Client!Command.gen = ui.gen <=> 1 = Len(commands)
      /\ 1 = Len(commands) => (IsOut(Client!Command) <=> ui.signedOut)
      /\ Client!Command.kind = "refresh" => ~worker.signedOut
  BY <1>1 DEF ClientInv, Told
<1>3. ui.gen \in Nat
  BY DEF ClientInv, Shown
<1>4. QED
  BY <1>1, <1>2, <1>3

LEMMA TakenKeeps ==
  ASSUME ClientInv, NEW c, c = Client!Command,
         commands # <<>>, commands' = Tail(commands), ui' = ui,
         worker'.signedOut = (CASE IsOut(c) -> TRUE
                                [] c.kind = "signIn" -> FALSE
                                [] c.kind = "refresh" -> worker.signedOut),
         worker'.server = IF c.kind = "switch" THEN c.server ELSE worker.server
  PROVE  /\ Told' /\ commands' \in Seq(ClientCommands)
         /\ ~IsOut(c) => \A gen \in Nat : Earlier(gen) => Earlier(gen)'
         /\ ~IsOut(c) => Earlier(c.gen)'
         /\ IsOut(c) /\ c.gen = ui.gen => ui.signedOut
<1> DEFINE n == Len(commands)
<1>1. /\ commands' \in Seq(ClientCommands) /\ n \in Nat \ {0} /\ Len(commands') = n - 1
      /\ DOMAIN commands' = 1..(n - 1) /\ DOMAIN commands = 1..n
      /\ \A i \in 1..(n - 1) : commands'[i] = commands[i + 1]
      /\ commands' = <<>> <=> n = 1
  BY RestIs DEF ClientInv, Shown
<1>2. /\ c \in ClientCommands /\ c = commands[1] /\ c.gen \in Nat /\ c.gen <= ui.gen
      /\ n # 1 => c.gen < ui.gen
      /\ n = 1 => (IsOut(c) <=> ui.signedOut)
      /\ c.kind = "refresh" => ~worker.signedOut
      /\ ui.gen \in Nat
  BY HeadIs DEF ClientInv, Shown
<1>3. /\ IsOut(c) => worker'.signedOut = TRUE
      /\ ~IsOut(c) => ~worker'.signedOut
      /\ c.kind \in {"signIn", "refresh", "signOut", "switch"}
  BY <1>2 DEF ClientCommands, IsOut
<1>4. worker'.server = IF c.kind = "switch" THEN c.server ELSE worker.server
  OBVIOUS
<1> HIDE DEF n
<1>5. ASSUME NEW i \in 1..(n - 1)
      PROVE  /\ i + 1 \in DOMAIN commands /\ i + 1 # 1 /\ i + 1 - 1 = i
             /\ commands'[i] = commands[i + 1]
             /\ commands'[i].gen <= ui'.gen
             /\ commands'[i].gen = ui'.gen <=> i = Len(commands')
             /\ i = Len(commands') => (IsOut(commands'[i]) <=> ui'.signedOut)
             /\ commands'[i].kind = "refresh" => ~IsOut(commands[i])
  BY <1>1 DEF ClientInv, Told, n, IsOut
<1>6. ASSUME NEW i \in 1..(n - 1)
      PROVE  /\ commands'[i].kind = "refresh" /\ i = 1 => ~worker'.signedOut
             /\ commands'[i].kind = "refresh" /\ i # 1 => ~IsOut(commands'[i - 1])
  <2>1. i # 1 => i - 1 \in 1..(n - 1) /\ i - 1 + 1 = i
    BY <1>1
  <2>2. i # 1 => commands'[i - 1] = commands[i]
    BY <1>1, <2>1
  <2>3. ASSUME commands'[i].kind = "refresh", i = 1
        PROVE  ~worker'.signedOut
    BY <1>2, <1>5, <2>3, <1>3
  <2>4. commands'[i].kind = "refresh" /\ i # 1 => ~IsOut(commands'[i - 1])
    BY <1>5, <2>2 DEF IsOut
  <2>5. QED
    BY <2>3, <2>4
<1>7. ASSUME NEW i \in 1..(n - 1), commands'[i].kind = "switch"
      PROVE  \/ commands'[i].server = ui'.server
             \/ \E d \in 1..(n - 1) : d > i /\ commands'[d].kind = "switch"
  <2>1. \/ commands[i + 1].server = ui.server
        \/ \E d \in 1..n : d > i + 1 /\ commands[d].kind = "switch"
    BY <1>1, <1>5, <1>7 DEF ClientInv, Told
  <2>2. CASE commands[i + 1].server = ui.server
    BY <1>5, <2>2
  <2>3. CASE \E d \in 1..n : d > i + 1 /\ commands[d].kind = "switch"
    <3>1. PICK d \in 1..n : d > i + 1 /\ commands[d].kind = "switch"
      BY <2>3
    <3>2. d - 1 \in 1..(n - 1) /\ d - 1 > i /\ d - 1 + 1 = d
      BY <1>1, <3>1
    <3>3. commands'[d - 1].kind = "switch"
      BY <1>1, <3>1, <3>2
    <3>4. QED
      BY <3>2, <3>3
  <2>4. QED
    BY <2>1, <2>2, <2>3
<1>8. ASSUME \A i \in 1..(n - 1) : commands'[i].kind # "switch"
      PROVE  worker'.server = ui'.server
  <2>1. \A d \in 1..n : d > 1 => commands[d].kind # "switch"
    <3> SUFFICES ASSUME NEW d \in 1..n, d > 1
                 PROVE  commands[d].kind # "switch"
      OBVIOUS
    <3>1. d - 1 \in 1..(n - 1) /\ d - 1 + 1 = d
      BY <1>1
    <3>2. QED
      BY <1>1, <1>8, <3>1
  <2>2. CASE c.kind = "switch"
    BY <1>1, <1>2, <2>1, <2>2, HeadIs, <1>4 DEF ClientInv, Told
  <2>3. CASE c.kind # "switch"
    BY <1>1, <1>2, <2>1, <2>3, <1>4 DEF ClientInv, Told
  <2>4. QED
    BY <2>2, <2>3
<1>9. commands' = <<>> => worker'.signedOut = ui'.signedOut
  <2>1. ui.signedOut \in BOOLEAN /\ worker.signedOut \in BOOLEAN
    BY DEF ClientInv, Shown, Held, Settings
  <2>2. n = 1 => worker'.signedOut = ui.signedOut
    <3>1. ASSUME n = 1, IsOut(c)
          PROVE  worker'.signedOut = ui.signedOut
      BY <1>2, <1>3, <2>1, <3>1
    <3>2. ASSUME n = 1, ~IsOut(c)
          PROVE  worker'.signedOut = ui.signedOut
      BY <1>3, <2>1, <3>2, <1>2 DEF IsOut
    <3>3. QED
      BY <3>1, <3>2
  <2>3. QED
    BY <1>1, <2>2
<1>10. Told'
  <2> SUFFICES ASSUME NEW k \in DOMAIN commands'
               PROVE  /\ commands'[k].gen <= ui'.gen
                      /\ commands'[k].gen = ui'.gen <=> k = Len(commands')
                      /\ k = Len(commands') => (IsOut(commands'[k]) <=> ui'.signedOut)
                      /\ commands'[k].kind = "refresh" /\ k = 1 => ~worker'.signedOut
                      /\ commands'[k].kind = "refresh" /\ k # 1 => ~IsOut(commands'[k - 1])
                      /\ commands'[k].kind = "switch" =>
                           \/ commands'[k].server = ui'.server
                           \/ \E d \in DOMAIN commands' :
                                d > k /\ commands'[d].kind = "switch"
    BY <1>1, <1>8, <1>9 DEF Told, IsOut
  <2> QED
    BY <1>1, <1>5, <1>6, <1>7 DEF IsOut
<1>11. ~IsOut(c) => \A gen \in Nat : Earlier(gen) => Earlier(gen)'
  BY <1>2, <1>3 DEF Earlier
<1>12. ~IsOut(c) => Earlier(c.gen)'
  <2> SUFFICES ASSUME ~IsOut(c)
               PROVE  /\ c.gen <= ui'.gen /\ (commands' # <<>> => c.gen < ui'.gen)
                      /\ ~worker'.signedOut
    BY DEF Earlier
  <2>1. QED
    BY <1>1, <1>2, <1>3
<1>13. QED
  BY <1>1, <1>2, <1>10, <1>11, <1>12

-----------------------------------------------------------------------------
(* ... and says what comes of it.                                          *)

(* What it says of an attempt for the generation gen.                      *)
Says(gen) ==
  /\ events' \in Seq(ClientEvents)
  /\ \A e \in Elements(events') :
       e \in Elements(events) \/ (e.gen = gen /\ e.kind # "signedOutForGood")

Answer(e, gen) == e \in ClientEvents /\ e.gen = gen /\ e.kind # "signedOutForGood"

LEMMA SaidIs ==
  ASSUME events \in Seq(ClientEvents), NEW gen \in Nat, NEW said \in Seq(ClientEvents),
         \A e \in Elements(said) : Answer(e, gen), events' = events \o said
  PROVE  Says(gen)
BY JoinedIs DEF Says, Answer

LEMMA AnswersAre ==
  ASSUME NEW gen \in Nat, NEW kind \in EventKinds \ {"signedOutForGood"}
  PROVE  /\ Answer(Client!Event(kind, gen), gen)
         /\ \A lease \in Client!Lease : Answer(Client!EventOf(kind, gen, lease), gen)
<1>1. Client!NoLease \in Client!Lease
  BY LeasesAre
<1>2. Answer(Client!Event(kind, gen), gen)
  BY <1>1 DEF Client!Event, Answer, ClientEvents, EventKinds
<1>3. \A lease \in Client!Lease : Answer(Client!EventOf(kind, gen, lease), gen)
  BY <1>1 DEF Client!Event, Client!EventOf, Answer, ClientEvents, EventKinds
<1>4. QED
  BY <1>2, <1>3

(* One thing said, or nothing.                                             *)
LEMMA OneSaid ==
  ASSUME NEW gen, NEW e, Answer(e, gen)
  PROVE  <<e>> \in Seq(ClientEvents) /\ \A x \in Elements(<<e>>) : Answer(x, gen)
<1>1. e \in ClientEvents
  BY DEF Answer
<1>2. <<e>> \in Seq(ClientEvents) /\ DOMAIN <<e>> = {1} /\ <<e>>[1] = e
  BY <1>1
<1>3. QED
  BY <1>2 DEF Elements

LEMMA FailureIs ==
  ASSUME NEW w \in Settings, NEW error \in {"none", "renewal", "other"},
         NEW gen \in Nat, clock \in 0..MaxTime
  PROVE  Client!Failure(w, error, gen) \in Seq(ClientEvents)
         /\ \A e \in Elements(Client!Failure(w, error, gen)) : Answer(e, gen)
<1>1. Client!Cached(w) \in Client!Lease
  BY LeasesAre DEF Client!Cached, Settings
<1>2. CASE error = "none"
  BY <1>2, NothingIn DEF Client!Failure
<1>3. CASE error # "none" /\ Client!Cached(w) # Client!NoLease
  BY <1>3, <1>1, AnswersAre, OneSaid DEF Client!Failure, EventKinds
<1>4. CASE error # "none" /\ Client!Cached(w) = Client!NoLease
  <2>1. PICK kind \in {"renewal", "failed"} :
          Client!Failure(w, error, gen) = <<Client!Event(kind, gen)>>
    BY <1>4 DEF Client!Failure
  <2>2. Answer(Client!Event(kind, gen), gen)
    BY AnswersAre DEF EventKinds
  <2>3. QED
    BY <2>1, <2>2, OneSaid
<1>5. QED
  BY <1>2, <1>3, <1>4

LEMMA CompletesIs ==
  ASSUME clock \in 0..MaxTime, events \in Seq(ClientEvents),
         NEW kind, NEW gen \in Nat, NEW w \in Settings,
         NEW error \in {"none", "renewal", "other"}, NEW said \in Seq(ClientEvents),
         \A e \in Elements(said) : Answer(e, gen),
         Client!Completes(kind, gen, w, error, said)
  PROVE  /\ attempt' = Client!Idle /\ Says(gen)
         /\ worker' \in Settings /\ worker'.server = w.server
         /\ worker'.signedOut = w.signedOut /\ worker'.session = w.session
         /\ worker'.retryGen = gen
<1>1. PICK failed : failed = Client!Failure(w, error, gen)
  OBVIOUS
<1>2. failed \in Seq(ClientEvents) /\ \A e \in Elements(failed) : Answer(e, gen)
  BY <1>1, FailureIs
<1>3. attempt' = Client!Idle /\ events' = events \o said \o failed
  BY <1>1 DEF Client!Completes
<1>4. Says(gen)
  <2>1. PICK heard : heard = events \o said
    OBVIOUS
  <2>2. heard \in Seq(ClientEvents) /\ Elements(heard) \subseteq Elements(events) \cup Elements(said)
    BY <2>1, JoinedIs
  <2>3. /\ heard \o failed \in Seq(ClientEvents)
        /\ Elements(heard \o failed) \subseteq Elements(heard) \cup Elements(failed)
    BY <1>2, <2>2, JoinedIs
  <2>4. QED
    BY <1>2, <1>3, <2>1, <2>2, <2>3 DEF Says, Answer
<1>5. PICK retry \in BOOLEAN : worker' = [w EXCEPT !.retry = retry, !.retryGen = gen]
  BY DEF Client!Retries, Client!Completes
<1>6. /\ worker' \in Settings /\ worker'.server = w.server
      /\ worker'.signedOut = w.signedOut /\ worker'.session = w.session
      /\ worker'.retryGen = gen
  BY <1>5 DEF Settings
<1>7. QED
  BY <1>3, <1>4, <1>6

(* Whatever is said of an operation that is not the last ends with it; of  *)
(* the last one, the account is signed in.                                 *)
LEMMA SaidKeeps ==
  ASSUME ClientInv, Told', ui' = ui, NEW gen \in Nat, Earlier(gen)',
         \A g \in Nat : Earlier(g) => Earlier(g)',
         Says(gen),
         attempt'.step # "idle" =>
           \/ attempt'.gen = gen
           \/ attempt.step # "idle" /\ attempt'.gen = attempt.gen,
         worker'.retry =>
           \/ worker'.retryGen = gen
           \/ worker.retry /\ worker'.retryGen = worker.retryGen
  PROVE  Under' /\ Heard'
<1>1. attempt.gen \in Nat /\ worker.retryGen \in Nat
  BY DEF ClientInv, Held, Attempts, Settings
<1>2. Under'
  BY <1>1 DEF ClientInv, Under
<1>3. gen <= ui.gen
  BY DEF Earlier
<1>4. gen = ui.gen => ~ui.signedOut
  <2> SUFFICES ASSUME gen = ui.gen
               PROVE  ~ui.signedOut
    OBVIOUS
  <2>1. ~(gen < ui.gen) /\ ui.gen \in Nat
    BY DEF ClientInv, Shown
  <2>2. commands' = <<>> /\ ~worker'.signedOut
    BY <2>1 DEF Earlier
  <2>3. worker'.signedOut = ui'.signedOut
    BY <2>2 DEF Told
  <2>4. QED
    BY <2>2, <2>3
<1>5. Heard'
  BY <1>3, <1>4 DEF ClientInv, Heard, Says
<1>6. QED
  BY <1>2, <1>5

(* Steps that take no command.                                             *)
LEMMA ToldStays ==
  ASSUME ClientInv, UNCHANGED <<ui, commands>>,
         worker'.server = worker.server, worker'.signedOut = worker.signedOut
  PROVE  Told' /\ \A g \in Nat : Earlier(g) <=> Earlier(g)'
<1>1. Told'
  BY DEF ClientInv, Told, IsOut
<1>2. \A g \in Nat : Earlier(g) <=> Earlier(g)'
  BY DEF Earlier
<1>3. QED
  BY <1>1, <1>2

LEMMA AttemptGoesOn ==
  ASSUME ClientInv, UNCHANGED <<ui, clock, commands>>, attempt.step # "idle",
         worker' \in Settings,
         worker'.server = worker.server, worker'.signedOut = worker.signedOut,
         Says(attempt.gen),
         attempt'.step # "idle" => attempt'.gen = attempt.gen,
         worker'.retry => \/ worker'.retryGen = attempt.gen
                          \/ worker.retry /\ worker'.retryGen = worker.retryGen,
         Held', Tokens'
  PROVE  ClientInv'
<1>1. Told' /\ \A g \in Nat : Earlier(g) <=> Earlier(g)'
  BY ToldStays
<1>2. PICK gen \in Nat : gen = attempt.gen
  BY DEF ClientInv, Held, Attempts
<1>3. Earlier(gen)'
  BY <1>1, <1>2 DEF ClientInv, Under
<1>4. Says(gen)
  BY <1>2
<1>5. Under' /\ Heard'
  BY <1>1, <1>2, <1>3, <1>4, SaidKeeps
<1>6. Shown'
  BY DEF ClientInv, Shown, Says
<1>7. QED
  BY <1>1, <1>5, <1>6 DEF ClientInv

LEMMA NothingSaid ==
  ASSUME ClientInv, events' = events, NEW gen
  PROVE  Says(gen)
BY DEF ClientInv, Shown, Says, Elements

-----------------------------------------------------------------------------
(* Tokens.                                                                 *)

(* A token of the server in use is given up.                               *)
LEMMA GivenUp ==
  ASSUME Held, Tokens, worker'.server = worker.server,
         worker'.signedOut = worker.signedOut, keychain' = keychain,
         valid' = valid, gone' = gone \cup {Client!Here},
         unfinished' = unfinished
  PROVE  Tokens'
BY DEF Tokens, TokenOf, Client!Here

(* It stays as it is.                                                      *)
LEMMA TokensStay ==
  ASSUME Held, Tokens, worker'.server = worker.server,
         worker'.signedOut = worker.signedOut, worker'.session = worker.session,
         UNCHANGED <<keychain, valid, gone, unfinished>>, ~Client!Granted
  PROVE  Tokens'
BY DEF Tokens, TokenOf, Client!Here

(* It is deleted, unless the keychain refuses to.                          *)
LEMMA DeletedKeeps ==
  ASSUME Held, Tokens, Client!Deletes, worker'.session = Client!NoToken, worker'.server \in Servers,
         worker'.signedOut = worker.signedOut \/ worker'.signedOut = TRUE,
         valid' \subseteq valid, gone' = gone \cup {Client!Here}
  PROVE  /\ Tokens' /\ keychain' \in [Servers -> Client!Token] /\ unfinished' \in BOOLEAN
         /\ valid' \subseteq Servers /\ gone' \subseteq Servers
<1>1. /\ keychain \in [Servers -> Client!Token] /\ Client!Here \in Servers /\ Client!NoToken \in Client!Token
      /\ valid \subseteq Servers /\ gone \subseteq Servers /\ unfinished \in BOOLEAN
  BY DEF Held, Settings, Client!Here, Client!Token
<1>2. \/ keychain' = [keychain EXCEPT ![Client!Here] = Client!NoToken] /\ unfinished' = unfinished
      \/ keychain' = keychain /\ unfinished' = TRUE
  BY DEF Client!Deletes
<1>3. /\ keychain' \in [Servers -> Client!Token] /\ unfinished' \in BOOLEAN
      /\ \A s \in Servers : s # Client!Here => keychain'[s] = keychain[s]
      /\ ~unfinished' => ~unfinished /\ keychain'[Client!Here] = Client!NoToken
  BY <1>1, <1>2
<1>4. \A s \in valid' \ gone' : s \in valid \ gone /\ s # Client!Here /\ s \in Servers
  BY <1>1
<1>5. \A s \in valid' \ gone' : keychain'[s] = "current"
  BY <1>3, <1>4 DEF Tokens, TokenOf
<1>6. \A s : TokenOf(s)' = keychain'[s]
  BY DEF TokenOf
<1>7. ~unfinished' => \A s \in Servers : keychain'[s] = Client!NoToken
               \/ (s = worker'.server /\ ~worker'.signedOut)
  BY <1>3 DEF Tokens
<1>8. ~unfinished' => \A s \in Servers :
        s # worker'.server \/ worker'.signedOut => keychain'[s] = Client!NoToken
  BY <1>7
<1>9. Tokens'
  BY <1>5, <1>6, <1>8 DEF Tokens, Client!Here
<1>10. QED
  BY <1>1, <1>3, <1>4, <1>9

-----------------------------------------------------------------------------
(* The worker's commands.                                                  *)

LEMMA EndSessionKeeps == ClientInv /\ Client!EndSession => ClientInv'
<1> SUFFICES ASSUME ClientInv, Client!EndSession
             PROVE  ClientInv'
  OBVIOUS
<1>0. PICK c : c = Client!Command
  OBVIOUS
<1>1. /\ commands # <<>> /\ commands' = Tail(commands) /\ IsOut(c)
      /\ attempt.step = "idle" /\ Client!Deletes /\ UNCHANGED <<ui, clock, attempt>>
      /\ valid' \subseteq valid /\ gone' = gone \cup {Client!Here}
      /\ events' = Append(events, Client!Event("signedOutForGood", c.gen))
  BY <1>0 DEF Client!EndSession, Client!Takes, IsOut
<1>2. /\ c \in ClientCommands /\ c.gen \in Nat /\ c.gen <= ui.gen
  BY <1>0, <1>1, HeadIs
<1>3. PICK server \in Servers :
        server = IF c.kind = "switch" THEN c.server ELSE worker.server
  BY <1>2 DEF ClientCommands, ClientInv, Held, Settings
<1>4. worker' = [worker EXCEPT !.server = server, !.lease = Client!NoLease,
                               !.signedOut = TRUE, !.session = Client!NoToken, !.retry = FALSE]
  BY <1>0, <1>1, <1>3 DEF Client!EndSession
<1>5. /\ worker' \in Settings /\ worker'.server = server /\ worker'.signedOut = TRUE
      /\ worker'.session = Client!NoToken /\ worker'.retry = FALSE
  BY <1>4, LeasesAre DEF ClientInv, Held, Settings, Client!Token
<1>6. /\ Told' /\ commands' \in Seq(ClientCommands)
      /\ c.gen = ui.gen => ui.signedOut
  BY <1>1, <1>5, <1>3, <1>0, TakenKeeps DEF IsOut
<1>7. Tokens' /\ keychain' \in [Servers -> Client!Token] /\ unfinished' \in BOOLEAN
      /\ valid' \subseteq Servers /\ gone' \subseteq Servers
  BY <1>1, <1>5, DeletedKeeps DEF ClientInv
<1>8. Held'
  BY <1>1, <1>5, <1>7 DEF ClientInv, Held, Client!Granted
<1>9. PICK e : e = Client!Event("signedOutForGood", c.gen)
  OBVIOUS
<1>10. e \in ClientEvents /\ e.gen = c.gen /\ e.kind = "signedOutForGood"
  BY <1>2, <1>9, LeasesAre DEF Client!Event, ClientEvents, EventKinds
<1>11. events' \in Seq(ClientEvents) /\ Elements(events') \subseteq Elements(events) \cup {e}
  BY <1>1, <1>9, <1>10, AppendedIs DEF ClientInv, Shown
<1>12. Shown'
  BY <1>1, <1>6, <1>11 DEF ClientInv, Shown
<1>13. Heard'
  BY <1>1, <1>2, <1>6, <1>10, <1>11 DEF ClientInv, Heard
<1>14. Under'
  BY <1>1, <1>5 DEF Under
<1>15. QED
  BY <1>6, <1>7, <1>8, <1>12, <1>13, <1>14 DEF ClientInv

(* A refresh begins, or ends without a credential.                         *)
LEMMA RefreshBegins ==
  ASSUME ClientInv, attempt.step = "idle", NEW gen \in Nat, NEW unreadable \in BOOLEAN,
         Client!BeginRefresh(gen, unreadable)
  PROVE  /\ Says(gen) /\ UNCHANGED <<ui, clock, keychain, valid, gone, unfinished>>
         /\ worker' \in Settings /\ worker'.server = worker.server
         /\ worker'.signedOut = worker.signedOut /\ worker'.session = worker.session
         /\ attempt' \in Attempts /\ attempt'.answer = "none"
         /\ attempt'.step = "idle" => attempt' = Client!Idle
         /\ attempt'.step # "idle" => attempt'.gen = gen
         /\ worker'.retry =>
              \/ worker'.retryGen = gen
              \/ worker.retry /\ worker'.retryGen = worker.retryGen
<1> DEFINE checking == Client!Event("checking", gen)
<1>1. /\ clock \in 0..MaxTime /\ events \in Seq(ClientEvents)
      /\ worker \in Settings /\ keychain \in [Servers -> Client!Token]
      /\ Client!Here \in Servers /\ Client!Credential \in Client!Token
  BY DEF ClientInv, Shown, Held, Client!Credential, Client!Here, Settings
<1>2. UNCHANGED <<ui, clock, keychain, valid, gone, unfinished>>
  BY DEF Client!BeginRefresh
<1>3. Answer(checking, gen)
  BY AnswersAre DEF EventKinds
<1>4. /\ <<checking>> \in Seq(ClientEvents)
      /\ \A e \in Elements(<<checking>>) : Answer(e, gen)
  BY <1>3, OneSaid
<1>5. ASSUME UNCHANGED worker, events' = events \o <<checking>>,
             attempt' = [step |-> "refreshing", kind |-> "refresh", gen |-> gen,
                         token |-> Client!Credential, answer |-> "none"]
      PROVE  /\ Says(gen) /\ attempt' \in Attempts /\ attempt'.answer = "none"
             /\ attempt'.step = "refreshing" /\ attempt'.gen = gen
  BY <1>1, <1>4, <1>5, SaidIs DEF Attempts
<1>6. ASSUME NEW error \in {"none", "renewal", "other"}, NEW said \in Seq(ClientEvents),
             \A e \in Elements(said) : Answer(e, gen),
             Client!Completes("refresh", gen, worker, error, said)
      PROVE  /\ Says(gen) /\ attempt' = Client!Idle
             /\ worker' \in Settings /\ worker'.server = worker.server
             /\ worker'.signedOut = worker.signedOut
             /\ worker'.session = worker.session /\ worker'.retryGen = gen
  BY <1>1, <1>6, CompletesIs
<1>7. PICK said : said = Append(<<checking>>, Client!Event("signedOut", gen))
  OBVIOUS
<1>8. said \in Seq(ClientEvents) /\ \A e \in Elements(said) : Answer(e, gen)
  <2>1. Answer(Client!Event("signedOut", gen), gen)
    BY AnswersAre DEF EventKinds
  <2>2. Client!Event("signedOut", gen) \in ClientEvents
    BY <2>1 DEF Answer
  <2>3. /\ said \in Seq(ClientEvents)
        /\ Elements(said) \subseteq Elements(<<checking>>) \cup {Client!Event("signedOut", gen)}
    BY <1>4, <1>7, <2>2, AppendedIs
  <2>4. QED
    BY <1>4, <2>1, <2>3
<1>9. \/ /\ UNCHANGED worker /\ events' = events \o <<checking>>
         /\ attempt' = [step |-> "refreshing", kind |-> "refresh", gen |-> gen,
                        token |-> Client!Credential, answer |-> "none"]
      \/ Client!Completes("refresh", gen, worker, "other", <<checking>>)
      \/ Client!Completes("refresh", gen, worker, "none", said)
  BY <1>7 DEF Client!BeginRefresh
<1> HIDE DEF checking
<1>10. CASE /\ UNCHANGED worker /\ events' = events \o <<checking>>
            /\ attempt' = [step |-> "refreshing", kind |-> "refresh", gen |-> gen,
                           token |-> Client!Credential, answer |-> "none"]
  BY <1>1, <1>2, <1>5, <1>10
<1>11. CASE Client!Completes("refresh", gen, worker, "other", <<checking>>)
  BY <1>2, <1>4, <1>6, <1>11, IdleIs
<1>12. CASE Client!Completes("refresh", gen, worker, "none", said)
  BY <1>2, <1>8, <1>6, <1>12, IdleIs
<1>13. QED
  BY <1>9, <1>10, <1>11, <1>12

LEMMA RefreshKeeps == ClientInv /\ (Client!ExecuteRefresh \/ Client!RetryTimer) => ClientInv'
<1> SUFFICES ASSUME ClientInv, Client!ExecuteRefresh \/ Client!RetryTimer
             PROVE  ClientInv'
  OBVIOUS
<1>1. ASSUME NEW gen \in Nat, NEW unreadable \in BOOLEAN, Client!BeginRefresh(gen, unreadable),
             attempt.step = "idle", Told', commands' \in Seq(ClientCommands),
             Earlier(gen)', \A g \in Nat : Earlier(g) => Earlier(g)'
      PROVE  ClientInv'
  <2>1. /\ Says(gen) /\ UNCHANGED <<ui, clock, keychain, valid, gone, unfinished>>
        /\ worker' \in Settings /\ worker'.server = worker.server
        /\ worker'.signedOut = worker.signedOut /\ worker'.session = worker.session
        /\ attempt' \in Attempts /\ attempt'.answer = "none"
        /\ attempt'.step = "idle" => attempt' = Client!Idle
        /\ attempt'.step # "idle" => attempt'.gen = gen
        /\ worker'.retry =>
             \/ worker'.retryGen = gen
             \/ worker.retry /\ worker'.retryGen = worker.retryGen
    BY <1>1, RefreshBegins
  <2>2. Under' /\ Heard'
    BY <1>1, <2>1, SaidKeeps
  <2>3. Shown'
    BY <1>1, <2>1 DEF ClientInv, Shown, Says
  <2>4. Held'
    BY <2>1 DEF ClientInv, Held, Client!Granted
  <2>5. ~Client!Granted
    BY <1>1, IdleIs DEF ClientInv, Held, Client!Granted
  <2>6. Tokens'
    BY <2>1, <2>5, TokensStay DEF ClientInv
  <2>7. QED
    BY <1>1, <2>2, <2>3, <2>4, <2>6 DEF ClientInv
<1>2. CASE Client!ExecuteRefresh
  <2>0. PICK c : c = Client!Command
    OBVIOUS
  <2>1. /\ commands # <<>> /\ commands' = Tail(commands) /\ c.kind = "refresh"
        /\ attempt.step = "idle"
        /\ \E unreadable \in BOOLEAN : Client!BeginRefresh(c.gen, unreadable)
    BY <1>2, <2>0 DEF Client!ExecuteRefresh, Client!Takes
  <2>2. PICK unreadable \in BOOLEAN : Client!BeginRefresh(c.gen, unreadable)
    BY <2>1
  <2>3. c.gen \in Nat /\ ~IsOut(c)
    BY <2>0, <2>1, HeadIs DEF IsOut
  <2>4. /\ ui' = ui /\ worker'.signedOut = worker.signedOut
        /\ worker'.server = worker.server
    BY <2>1, <2>2, <2>3, RefreshBegins
  <2>5. /\ Told' /\ commands' \in Seq(ClientCommands)
        /\ Earlier(c.gen)' /\ \A g \in Nat : Earlier(g) => Earlier(g)'
    BY <2>0, <2>1, <2>3, <2>4, TakenKeeps
  <2>6. QED
    BY <1>1, <2>1, <2>2, <2>3, <2>5
<1>3. CASE Client!RetryTimer
  <2>1. /\ attempt.step = "idle" /\ worker.retry /\ commands' = commands
        /\ \E unreadable \in BOOLEAN : Client!BeginRefresh(worker.retryGen, unreadable)
    BY <1>3 DEF Client!RetryTimer
  <2>2. PICK gen \in Nat : gen = worker.retryGen
    BY DEF ClientInv, Held, Settings
  <2>3. PICK unreadable \in BOOLEAN : Client!BeginRefresh(gen, unreadable)
    BY <2>1, <2>2
  <2>4. /\ ui' = ui /\ worker'.signedOut = worker.signedOut
        /\ worker'.server = worker.server
    BY <2>1, <2>3, RefreshBegins
  <2>5. Told' /\ \A g \in Nat : Earlier(g) <=> Earlier(g)'
    BY <2>1, <2>4, ToldStays
  <2>6. Earlier(gen) /\ commands' \in Seq(ClientCommands)
    BY <2>1, <2>2 DEF ClientInv, Under, Shown
  <2>7. QED
    BY <1>1, <2>1, <2>3, <2>5, <2>6
<1>4. QED
  BY <1>2, <1>3

LEMMA ExecuteSignInKeeps == ClientInv /\ Client!ExecuteSignIn => ClientInv'
<1> SUFFICES ASSUME ClientInv, Client!ExecuteSignIn
             PROVE  ClientInv'
  OBVIOUS
<1>0. PICK c : c = Client!Command
  OBVIOUS
<1>1. /\ commands # <<>> /\ commands' = Tail(commands) /\ c.kind = "signIn"
      /\ attempt.step = "idle"
      /\ worker' = [worker EXCEPT !.signedOut = FALSE]
      /\ attempt' = [step |-> "authorizing", kind |-> "signIn",
                     gen |-> c.gen, token |-> Client!NoToken, answer |-> "none"]
      /\ events' = Append(events, Client!Event("checking", c.gen))
      /\ UNCHANGED <<ui, clock, keychain, valid, gone, unfinished>>
  BY <1>0 DEF Client!ExecuteSignIn, Client!Takes
<1>2. c.gen \in Nat /\ ~IsOut(c)
  BY <1>0, <1>1, HeadIs DEF IsOut
<1>3. /\ worker' \in Settings /\ worker'.server = worker.server
      /\ worker'.signedOut = FALSE /\ worker'.session = worker.session
      /\ worker'.retry = worker.retry /\ worker'.retryGen = worker.retryGen
  BY <1>1 DEF ClientInv, Held, Settings
<1>4. /\ attempt' \in Attempts /\ attempt'.step = "authorizing"
      /\ attempt'.gen = c.gen /\ attempt'.answer = "none"
  BY <1>1, <1>2 DEF Attempts, Client!Token
<1>5. /\ Told' /\ commands' \in Seq(ClientCommands)
      /\ Earlier(c.gen)' /\ \A g \in Nat : Earlier(g) => Earlier(g)'
  BY <1>0, <1>1, <1>2, <1>3, TakenKeeps
<1>6. Says(c.gen)
  BY <1>2, AnswersAre, <1>1, AppendedIs DEF EventKinds, ClientInv, Shown,
     Answer, Says
<1>7. Under' /\ Heard'
  BY <1>1, <1>2, <1>3, <1>4, <1>5, <1>6, SaidKeeps
<1>8. Shown' /\ Held'
  BY <1>1, <1>3, <1>4, <1>5, <1>6 DEF ClientInv, Shown, Held, Says, Client!Granted
<1>9. ~Client!Granted
  BY <1>1, IdleIs DEF ClientInv, Held, Client!Granted
<1>10. Tokens'
  BY <1>1, <1>3, <1>9 DEF ClientInv, Tokens, TokenOf, Client!Here
<1>11. QED
  BY <1>5, <1>7, <1>8, <1>10 DEF ClientInv

-----------------------------------------------------------------------------
(* An attempt under way.                                                   *)

LEMMA EndsIs ==
  ASSUME ClientInv, attempt.step # "idle", UNCHANGED <<ui, clock, commands>>,
         NEW w \in Settings, w.server = worker.server,
         w.signedOut = worker.signedOut,
         NEW error \in {"none", "renewal", "other"}, NEW said \in Seq(ClientEvents),
         \A e \in Elements(said) : Answer(e, attempt.gen),
         Client!Ends(w, error, said)
  PROVE  /\ attempt' = Client!Idle /\ worker'.server = worker.server
         /\ worker'.signedOut = worker.signedOut /\ worker'.session = w.session
         /\ (/\ Tokens' /\ keychain' \in [Servers -> Client!Token]
             /\ unfinished' \in BOOLEAN
             /\ valid' \subseteq Servers /\ gone' \subseteq Servers) => ClientInv'
<1>1. PICK gen \in Nat : gen = attempt.gen
  BY DEF ClientInv, Held, Attempts
<1>2. PICK kind : kind = attempt.kind /\ Client!Completes(kind, gen, w, error, said)
  BY <1>1 DEF Client!Ends
<1>3. /\ clock \in 0..MaxTime /\ events \in Seq(ClientEvents)
      /\ \A e \in Elements(said) : Answer(e, gen)
  BY <1>1 DEF ClientInv, Shown
<1>4. /\ attempt' = Client!Idle /\ Says(gen)
      /\ worker' \in Settings /\ worker'.server = w.server
      /\ worker'.signedOut = w.signedOut /\ worker'.session = w.session
      /\ worker'.retryGen = gen
  <2>1. Client!Completes(kind, gen, w, error, said)
    BY <1>2
  <2>2. error \in {"none", "renewal", "other"} /\ said \in Seq(ClientEvents)
        /\ w \in Settings /\ gen \in Nat
    OBVIOUS
  <2>3. QED
    BY ONLY <1>3, <2>1, <2>2, CompletesIs
<1>5. ASSUME Tokens', keychain' \in [Servers -> Client!Token], unfinished' \in BOOLEAN,
             valid' \subseteq Servers, gone' \subseteq Servers
      PROVE  ClientInv'
  BY <1>4, <1>5, IdleIs, <1>1, AttemptGoesOn DEF Held, Client!Granted
<1>6. QED
  BY <1>4, <1>5

(* A command interrupts it.                                                *)
LEMMA InterruptKeeps == ClientInv /\ Client!Interrupt => ClientInv'
<1> SUFFICES ASSUME ClientInv, Client!Interrupt
             PROVE  ClientInv'
  OBVIOUS
<1>1. /\ attempt.step # "idle" /\ attempt' = Client!Idle
      /\ UNCHANGED <<ui, clock, commands, events, keychain, valid, unfinished>>
      /\ gone' = IF Client!Granted THEN gone \cup {Client!Here} ELSE gone
      /\ \/ worker' = worker
         \/ worker' = [worker EXCEPT !.retry = FALSE]
  BY DEF Client!Interrupt
<1>2. /\ worker' \in Settings /\ worker'.server = worker.server
      /\ worker'.signedOut = worker.signedOut /\ worker'.session = worker.session
      /\ worker'.retryGen = worker.retryGen
      /\ worker'.retry => worker.retry
  BY <1>1 DEF ClientInv, Held, Settings
<1>3. Tokens'
  <2>1. CASE Client!Granted
    BY <1>1, <1>2, <2>1, GivenUp DEF ClientInv
  <2>2. CASE ~Client!Granted
    BY <1>1, <1>2, <2>2, TokensStay DEF ClientInv
  <2>3. QED
    BY <2>1, <2>2
<1>4. Held'
  BY <1>1, <1>2, IdleIs DEF ClientInv, Held, Client!Here, Settings,
     Client!Granted
<1>5. Says(attempt.gen)
  BY <1>1, NothingSaid
<1>6. QED
  BY <1>1, <1>2, <1>3, <1>4, <1>5, IdleIs, AttemptGoesOn

(* The device authorization.                                               *)
LEMMA AuthorizationKeeps == ClientInv /\ Client!Authorization => ClientInv'
<1> SUFFICES ASSUME ClientInv, Client!Authorization
             PROVE  ClientInv'
  OBVIOUS
<1>1. /\ attempt.step = "authorizing"
      /\ UNCHANGED <<ui, clock, commands, keychain, valid, gone, unfinished>>
      /\ ~Client!Granted
  BY DEF Client!Authorization, Client!InAttempt, ClientInv, Held
<1>2. CASE /\ attempt' = [attempt EXCEPT !.step = "approving"]
           /\ events' = Append(events, Client!Event("awaiting", attempt.gen))
           /\ worker' = worker
  <2>1. /\ attempt' \in Attempts /\ attempt'.step = "approving"
        /\ attempt'.gen = attempt.gen /\ attempt'.answer = attempt.answer
        /\ attempt.gen \in Nat
    BY <1>2 DEF ClientInv, Held, Attempts
  <2>2. Held'
    BY <1>1, <1>2, <2>1 DEF ClientInv, Held, Client!Granted
  <2>3. Tokens'
    BY <1>1, <1>2, TokensStay DEF ClientInv
  <2>4. Says(attempt.gen)
    <3>1. PICK gen \in Nat : gen = attempt.gen
      BY <2>1
    <3>2. Answer(Client!Event("awaiting", gen), gen)
      BY AnswersAre DEF EventKinds
    <3>3. /\ events' \in Seq(ClientEvents)
          /\ Elements(events') \subseteq Elements(events) \cup {Client!Event("awaiting", gen)}
      BY <1>2, <3>1, <3>2, AppendedIs DEF ClientInv, Shown, Answer
    <3>4. QED
      BY <3>1, <3>2, <3>3 DEF Says, Answer
  <2>5. /\ worker' \in Settings /\ attempt.step # "idle"
        /\ worker'.server = worker.server
        /\ worker'.signedOut = worker.signedOut
        /\ worker'.retry = worker.retry /\ worker'.retryGen = worker.retryGen
    BY <1>1, <1>2 DEF ClientInv, Held
  <2>6. QED
    BY <1>1, <2>1, <2>2, <2>3, <2>4, <2>5, AttemptGoesOn
<1>3. CASE Client!Ends(worker, "other", <<>>)
  BY <1>1, <1>3, NothingIn, EndsIs, TokensStay DEF ClientInv, Held
<1>4. QED
  BY <1>2, <1>3 DEF Client!Authorization

(* The server grants a token, and the client keeps it.                     *)
LEMMA ServerGrantsKeeps == ClientInv /\ Client!ServerGrants => ClientInv'
<1> SUFFICES ASSUME ClientInv, Client!ServerGrants
             PROVE  ClientInv'
  OBVIOUS
<1>1. /\ attempt.step \in {"refreshing", "approving"}
      /\ UNCHANGED <<ui, clock, commands, events, unfinished>>
      /\ attempt' = [attempt EXCEPT !.answer = "granted", !.token = Client!Stale(@)]
      /\ keychain' = [keychain EXCEPT ![Client!Here] = Client!Stale(@)]
      /\ worker' = [worker EXCEPT !.session = Client!Stale(@)]
      /\ valid' = valid \cup {Client!Here} /\ gone' = gone \ {Client!Here}
  BY DEF Client!ServerGrants, Client!InAttempt
<1>2. \A token \in Client!Token : Client!Stale(token) \in Client!Token /\ (token = Client!NoToken => Client!Stale(token) = Client!NoToken)
  BY DEF Client!Stale, Client!Token, Client!NoToken
<1>3. /\ worker \in Settings /\ worker.session \in Client!Token /\ Client!Here \in Servers
      /\ keychain \in [Servers -> Client!Token] /\ keychain[Client!Here] \in Client!Token
      /\ attempt \in Attempts /\ attempt.token \in Client!Token
      /\ valid \subseteq Servers /\ gone \subseteq Servers
  BY DEF ClientInv, Held, Settings, Attempts, Client!Here
<1>4. PICK session \in Client!Token : session = Client!Stale(worker.session)
  BY <1>2, <1>3
<1>5. PICK token \in Client!Token : token = Client!Stale(attempt.token)
  BY <1>2, <1>3
<1>6. PICK kept \in Client!Token : kept = Client!Stale(keychain[Client!Here])
  BY <1>2, <1>3
<1>7. /\ worker' = [worker EXCEPT !.session = session]
      /\ attempt' = [attempt EXCEPT !.answer = "granted", !.token = token]
      /\ keychain' = [keychain EXCEPT ![Client!Here] = kept]
  BY <1>1, <1>4, <1>5, <1>6
<1>8. /\ worker' \in Settings /\ worker'.server = worker.server
      /\ worker'.signedOut = worker.signedOut
      /\ worker'.retry = worker.retry /\ worker'.retryGen = worker.retryGen
  BY <1>3, <1>7 DEF Settings
<1>9. /\ attempt' \in Attempts /\ attempt'.step = attempt.step
      /\ attempt'.gen = attempt.gen /\ attempt'.answer = "granted"
  BY <1>3, <1>7 DEF Attempts
<1>10. /\ keychain' \in [Servers -> Client!Token] /\ keychain'[Client!Here] = kept
       /\ \A s \in Servers : s # Client!Here => keychain'[s] = keychain[s]
  BY <1>3, <1>7
<1>11. Held'
  BY <1>1, <1>3, <1>8, <1>9, <1>10 DEF ClientInv, Held, Client!Granted
<1>12. Tokens'
  <2>1. \A s \in valid' \ gone' : s # Client!Here =>
          s \in valid \ gone /\ s \in Servers /\ keychain[s] = "current"
    BY <1>1, <1>3 DEF ClientInv, Tokens, TokenOf
  <2>2. \A s \in valid' \ gone' : s # Client!Here => TokenOf(s)' = "current"
    BY <1>8, <1>10, <2>1 DEF TokenOf, Client!Here
  <2>3. \A s \in valid' \ gone' : (s = Client!Here' => ~Client!Granted') => TokenOf(s)' = "current"
    BY <1>8, <1>9, <2>2 DEF Client!Granted, Client!Here
  <2>4. ASSUME ~unfinished', NEW s \in Servers, s # Client!Here \/ worker.signedOut
        PROVE  keychain'[s] = Client!NoToken
    BY <1>1, <2>4, <1>2, <1>3, <1>6, <1>10 DEF ClientInv, Tokens
  <2>5. QED
    BY <1>8, <2>3, <2>4 DEF Tokens, Client!Here
<1>13. Says(attempt.gen)
  BY <1>1, NothingSaid
<1>14. attempt.step # "idle"
  BY <1>1
<1>15. QED
  BY <1>1, <1>8, <1>9, <1>11, <1>12, <1>13, <1>14, AttemptGoesOn

LEMMA PersistKeeps == ClientInv /\ Client!Persist => ClientInv'
<1> SUFFICES ASSUME ClientInv, Client!Persist
             PROVE  ClientInv'
  OBVIOUS
<1>1. /\ attempt.step \in {"refreshing", "approving"} /\ attempt.step # "idle"
      /\ UNCHANGED <<ui, clock, commands, events, valid, gone, unfinished>>
      /\ attempt' = [attempt EXCEPT !.step = "entitling", !.token = Client!NoToken,
                                    !.answer = "none"]
  BY DEF Client!Persist, Client!InAttempt
<1>2. /\ worker \in Settings /\ Client!Here \in Servers /\ keychain \in [Servers -> Client!Token]
      /\ attempt \in Attempts /\ valid \subseteq Servers /\ gone \subseteq Servers
      /\ ~worker.signedOut
  BY <1>1 DEF ClientInv, Held, Settings, Client!Here, Under, Earlier
<1>3. PICK token \in Client!Token : token \in {Client!NoToken, "current"}
             /\ worker' = [worker EXCEPT !.session = token]
             /\ (token = Client!NoToken => keychain' = [keychain EXCEPT ![Client!Here] = "current"])
             /\ (token # Client!NoToken =>
                   keychain' \in {keychain, [keychain EXCEPT ![Client!Here] = Client!NoToken]})
  BY DEF Client!Persist, Client!Saved, Client!Token, Client!NoToken
<1>4. /\ worker' \in Settings /\ worker'.server = worker.server
      /\ worker'.signedOut = worker.signedOut /\ worker'.session = token
      /\ worker'.retry = worker.retry /\ worker'.retryGen = worker.retryGen
  BY <1>2, <1>3 DEF Settings
<1>5. /\ attempt' \in Attempts /\ attempt'.step = "entitling"
      /\ attempt'.gen = attempt.gen /\ attempt'.answer = "none"
  BY <1>1, <1>2 DEF Attempts, Client!Token
<1>6. /\ keychain' \in [Servers -> Client!Token]
      /\ \A s \in Servers : s # Client!Here => keychain'[s] = keychain[s]
      /\ token = Client!NoToken => keychain'[Client!Here] = "current"
  BY <1>2, <1>3 DEF Client!Token
<1>7. Held'
  BY <1>1, <1>2, <1>4, <1>5, <1>6 DEF ClientInv, Held, Client!Granted
<1>8. Tokens'
  <2>1. ASSUME NEW s \in valid' \ gone'
        PROVE  TokenOf(s)' = "current"
    <3>1. s \in valid \ gone /\ s \in Servers
      BY <1>1, <1>2
    <3>2. CASE s # Client!Here
      BY <3>1, <3>2, <1>4, <1>6 DEF ClientInv, Tokens, TokenOf, Client!Here
    <3>3. CASE s = Client!Here
      BY <1>3, <1>4, <1>6, <3>3 DEF TokenOf, Client!Here
    <3>4. QED
      BY <3>2, <3>3
  <2>2. ~unfinished' => \A s \in Servers : s # Client!Here \/ worker.signedOut => keychain'[s] = Client!NoToken
    BY <1>1, <1>2, <1>6 DEF ClientInv, Tokens
  <2>3. QED
    BY <1>4, <2>1, <2>2 DEF Tokens, Client!Here
<1>9. Says(attempt.gen)
  BY <1>1, NothingSaid
<1>10. QED
  BY <1>1, <1>4, <1>5, <1>7, <1>8, <1>9, AttemptGoesOn

LEMMA TokenStaysKeeps == ClientInv /\ Client!TokenStays => ClientInv'
<1> SUFFICES ASSUME ClientInv, Client!TokenStays
             PROVE  ClientInv'
  OBVIOUS
<1>1. /\ attempt.step = "refreshing" /\ attempt.step # "idle" /\ ~Client!Granted
      /\ UNCHANGED <<ui, clock, commands, events, worker, keychain, valid, gone, unfinished>>
      /\ attempt' = [attempt EXCEPT !.step = "entitling", !.token = Client!NoToken]
  BY DEF Client!TokenStays, Client!InAttempt
<1>2. attempt \in Attempts /\ worker \in Settings /\ Client!Here \in Servers
  BY DEF ClientInv, Held, Settings, Client!Here
<1>3. /\ attempt' \in Attempts /\ attempt'.step = "entitling"
      /\ attempt'.gen = attempt.gen /\ attempt'.answer = attempt.answer
  BY <1>1, <1>2 DEF Attempts, Client!Token
<1>4. Held'
  BY <1>1, <1>2, <1>3 DEF ClientInv, Held, Client!Granted
<1>5. Tokens'
  BY <1>1, TokensStay DEF ClientInv
<1>6. Says(attempt.gen)
  BY <1>1, NothingSaid
<1>7. QED
  BY <1>1, <1>2, <1>3, <1>4, <1>5, <1>6, AttemptGoesOn

-----------------------------------------------------------------------------
(* The ways in which it ends.                                              *)

LEMMA AnswerLostKeeps == ClientInv /\ Client!AnswerLost => ClientInv'
<1> SUFFICES ASSUME ClientInv, Client!AnswerLost
             PROVE  ClientInv'
  OBVIOUS
<1>1. /\ attempt.step # "idle"
      /\ UNCHANGED <<ui, clock, commands, keychain, valid, unfinished>>
      /\ gone' = gone \cup {Client!Here} /\ Client!Ends(worker, "other", <<>>)
  BY DEF Client!AnswerLost, Client!InAttempt
<1>2. worker \in Settings
  BY DEF ClientInv, Held
<1>3. /\ attempt' = Client!Idle /\ worker'.server = worker.server
      /\ worker'.signedOut = worker.signedOut /\ worker'.session = worker.session
      /\ (/\ Tokens' /\ keychain' \in [Servers -> Client!Token]
          /\ unfinished' \in BOOLEAN
          /\ valid' \subseteq Servers /\ gone' \subseteq Servers) => ClientInv'
  BY <1>1, <1>2, NothingIn, EndsIs
<1>4. Tokens'
  BY <1>1, <1>3, GivenUp DEF ClientInv
<1>5. QED
  BY <1>1, <1>3, <1>4 DEF ClientInv, Held, Client!Here, Settings

LEMMA AttemptFailsKeeps == ClientInv /\ Client!AttemptFails => ClientInv'
<1> SUFFICES ASSUME ClientInv, Client!AttemptFails
             PROVE  ClientInv'
  OBVIOUS
<1>1. /\ attempt.step # "idle" /\ ~Client!Granted
      /\ UNCHANGED <<ui, clock, commands, keychain, valid, gone, unfinished>>
  BY DEF Client!AttemptFails, Client!InAttempt
<1>2. PICK error \in {"none", "renewal", "other"} : Client!Ends(worker, error, <<>>)
  BY DEF Client!AttemptFails
<1>3. worker \in Settings
  BY DEF ClientInv, Held
<1>4. /\ attempt' = Client!Idle /\ worker'.server = worker.server
      /\ worker'.signedOut = worker.signedOut /\ worker'.session = worker.session
      /\ (/\ Tokens' /\ keychain' \in [Servers -> Client!Token]
          /\ unfinished' \in BOOLEAN
          /\ valid' \subseteq Servers /\ gone' \subseteq Servers) => ClientInv'
  BY <1>1, <1>2, <1>3, NothingIn, EndsIs
<1>5. Tokens'
  BY <1>1, <1>4, TokensStay DEF ClientInv
<1>6. QED
  BY <1>1, <1>4, <1>5 DEF ClientInv, Held

LEMMA EntitlementKeeps == ClientInv /\ (Client!LeaseIssued \/ Client!EntitlementFails) => ClientInv'
<1> SUFFICES ASSUME ClientInv, Client!LeaseIssued \/ Client!EntitlementFails
             PROVE  ClientInv'
  OBVIOUS
<1>1. /\ attempt.step = "entitling" /\ attempt.step # "idle" /\ ~Client!Granted
      /\ UNCHANGED <<ui, clock, commands, keychain, valid, gone, unfinished>>
  BY DEF Client!LeaseIssued, Client!EntitlementFails, Client!InAttempt, ClientInv, Held
<1>2. PICK gen \in Nat : gen = attempt.gen
  BY DEF ClientInv, Held, Attempts
<1>3. worker \in Settings /\ worker.signedOut = FALSE
  BY <1>1 DEF ClientInv, Held, Settings, Under, Earlier
<1>4. ASSUME NEW w \in Settings, w.server = worker.server,
             w.signedOut = worker.signedOut, w.session = worker.session,
             NEW error \in {"none", "renewal", "other"}, NEW said \in Seq(ClientEvents),
             \A e \in Elements(said) : Answer(e, gen), Client!Ends(w, error, said)
      PROVE  ClientInv'
  BY <1>2, <1>4, <1>1, EndsIs, TokensStay DEF ClientInv, Held
<1>5. CASE Client!LeaseIssued
  <2>1. PICK lease \in (clock + 1)..(MaxTime + 1) :
          Client!Ends([worker EXCEPT !.lease = lease, !.signedOut = FALSE], "none",
               <<Client!EventOf("licensed", attempt.gen, lease)>>)
    BY <1>5 DEF Client!LeaseIssued
  <2>2. lease \in Client!Lease
    BY LeasesAre DEF ClientInv, Shown, Client!Lease
  <2>3. PICK w : w = [worker EXCEPT !.lease = lease, !.signedOut = FALSE]
    OBVIOUS
  <2>4. /\ w \in Settings /\ w.server = worker.server
        /\ w.signedOut = worker.signedOut /\ w.session = worker.session
    BY <1>3, <2>2, <2>3 DEF Settings
  <2>5. PICK e : e = Client!EventOf("licensed", gen, lease)
    OBVIOUS
  <2>6. Answer(e, gen)
    BY <2>2, <2>5, AnswersAre DEF EventKinds
  <2>7. <<e>> \in Seq(ClientEvents) /\ \A x \in Elements(<<e>>) : Answer(x, gen)
    BY <2>6, OneSaid
  <2>8. Client!Ends(w, "none", <<e>>)
    BY <1>2, <2>1, <2>3, <2>5
  <2>9. QED
    BY <1>4, <2>4, <2>7, <2>8
<1>6. CASE Client!EntitlementFails
  <2>1. CASE \E error \in {"renewal", "other"} : Client!Ends(worker, error, <<>>)
    <3>1. PICK error \in {"none", "renewal", "other"} : Client!Ends(worker, error, <<>>)
      BY <2>1
    <3>2. QED
      BY <1>3, <1>4, <3>1, NothingIn
  <2>2. CASE Client!Ends([worker EXCEPT !.lease = Client!NoLease], "other", <<Client!Event("clear", attempt.gen)>>)
    <3>1. PICK w : w = [worker EXCEPT !.lease = Client!NoLease]
      OBVIOUS
    <3>2. /\ w \in Settings /\ w.server = worker.server
          /\ w.signedOut = worker.signedOut /\ w.session = worker.session
      BY <1>3, <3>1, LeasesAre DEF Settings
    <3>3. PICK e : e = Client!Event("clear", gen)
      OBVIOUS
    <3>4. Answer(e, gen)
      BY <3>3, AnswersAre DEF EventKinds
    <3>5. <<e>> \in Seq(ClientEvents) /\ \A x \in Elements(<<e>>) : Answer(x, gen)
      BY <3>4, OneSaid
    <3>6. Client!Ends(w, "other", <<e>>)
      BY <1>2, <2>2, <3>1, <3>3
    <3>7. QED
      BY <1>4, <3>2, <3>5, <3>6
  <2>3. QED
    BY <1>6, <2>1, <2>2 DEF Client!EntitlementFails
<1>7. QED
  BY <1>5, <1>6

LEMMA SessionOverKeeps ==
  ASSUME ClientInv, attempt.step # "idle", UNCHANGED <<ui, clock, commands>>,
         NEW kind \in {"evaluation", "signedOut"}, Client!SessionOver(kind)
  PROVE  ClientInv'
<1>1. /\ Client!Deletes /\ gone' = gone \cup {Client!Here} /\ valid' = valid
      /\ Client!Ends([worker EXCEPT !.session = Client!NoToken, !.lease = Client!NoLease], "none",
              <<Client!Event(kind, attempt.gen)>>)
  BY DEF Client!SessionOver
<1>2. PICK gen \in Nat : gen = attempt.gen
  BY DEF ClientInv, Held, Attempts
<1>3. PICK w : w = [worker EXCEPT !.session = Client!NoToken, !.lease = Client!NoLease]
  OBVIOUS
<1>4. /\ w \in Settings /\ w.server = worker.server
      /\ w.signedOut = worker.signedOut /\ w.session = Client!NoToken
  BY <1>3, LeasesAre DEF ClientInv, Held, Settings, Client!Token
<1>5. PICK e : e = Client!Event(kind, gen)
  OBVIOUS
<1>6. Answer(e, gen)
  BY <1>5, AnswersAre DEF EventKinds
<1>7. <<e>> \in Seq(ClientEvents) /\ \A x \in Elements(<<e>>) : Answer(x, attempt.gen)
  BY <1>2, <1>6, OneSaid
<1>8. Client!Ends(w, "none", <<e>>)
  BY <1>1, <1>2, <1>3, <1>5
<1>9. /\ attempt' = Client!Idle /\ worker'.server = worker.server
      /\ worker'.signedOut = worker.signedOut /\ worker'.session = w.session
      /\ (/\ Tokens' /\ keychain' \in [Servers -> Client!Token]
          /\ unfinished' \in BOOLEAN
          /\ valid' \subseteq Servers /\ gone' \subseteq Servers) => ClientInv'
  BY <1>4, <1>7, <1>8, EndsIs
<1>10. /\ worker'.session = Client!NoToken /\ worker'.server \in Servers
       /\ valid' \subseteq valid
  BY <1>1, <1>4, <1>9 DEF ClientInv, Held, Settings
<1>11. /\ Tokens' /\ keychain' \in [Servers -> Client!Token] /\ unfinished' \in BOOLEAN
       /\ valid' \subseteq Servers /\ gone' \subseteq Servers
  BY <1>1, <1>9, <1>10, DeletedKeeps DEF ClientInv
<1>12. QED
  BY <1>9, <1>11

LEMMA RefusedKeeps == ClientInv /\ (Client!RefreshRefused \/ Client!EntitlementRefused) => ClientInv'
<1> SUFFICES ASSUME ClientInv, Client!RefreshRefused \/ Client!EntitlementRefused
             PROVE  ClientInv'
  OBVIOUS
<1>1. attempt.step # "idle" /\ UNCHANGED <<ui, clock, commands>>
  BY DEF Client!RefreshRefused, Client!EntitlementRefused, Client!InAttempt
<1>2. Client!SessionOver("signedOut") \/ Client!SessionOver("evaluation")
  BY DEF Client!RefreshRefused, Client!EntitlementRefused
<1>3. QED
  BY <1>1, <1>2, SessionOverKeeps

(* The program is started again.                                           *)
LEMMA RestartKeeps == ClientInv /\ Client!Restart => ClientInv'
<1> SUFFICES ASSUME ClientInv, Client!Restart
             PROVE  ClientInv'
  OBVIOUS
<1>1. PICK server \in Servers, lease \in Client!Lease, out \in BOOLEAN :
        server = ui.server /\ lease = ui.lease /\ out = ui.signedOut
  BY DEF ClientInv, Shown
<1>2. /\ ui' = Client!StartedUi(server, lease, out)
      /\ worker' = Client!StartedWorker(server, lease, out)
      /\ commands' = Client!StartedCommands(out) /\ events' = <<>> /\ attempt' = Client!Idle
      /\ UNCHANGED <<clock, keychain, valid>>
      /\ gone' = IF Client!Granted \/ worker.session = "current" THEN gone \cup {Client!Here} ELSE gone
      /\ unfinished' = (unfinished \/ \E c \in DOMAIN commands : IsOut(commands[c]))
  BY <1>1 DEF Client!Restart, IsOut
<1>3. clock \in 0..MaxTime /\ (out => lease = Client!NoLease)
  BY <1>1 DEF ClientInv, Shown, Heard
<1>4. /\ Shown' /\ Told' /\ Under' /\ Heard'
      /\ worker' \in Settings /\ attempt' \in Attempts
      /\ worker'.server = server /\ worker'.signedOut = out
      /\ worker'.session = Client!NoToken /\ attempt' = Client!Idle
  BY <1>2, <1>3, StartedIs
<1>5. /\ Client!Here \in Servers /\ worker.session \in Client!Token
      /\ keychain \in [Servers -> Client!Token] /\ unfinished \in BOOLEAN
      /\ gone \subseteq Servers /\ valid \subseteq Servers
  BY DEF ClientInv, Held, Client!Here, Settings
<1>6. gone' \subseteq Servers /\ gone \subseteq gone' /\ unfinished' \in BOOLEAN
  BY <1>2, <1>5
<1>7. Held'
  BY <1>2, <1>4, <1>5, <1>6, IdleIs DEF Held, Client!Granted
<1>8. ASSUME NEW s \in valid' \ gone'
      PROVE  TokenOf(s)' = "current"
  BY <1>2, <1>6, <1>4 DEF ClientInv, Tokens, TokenOf
<1>9. ASSUME ~unfinished', NEW s \in Servers, s # server \/ out
      PROVE  keychain'[s] = Client!NoToken
  <2>1. /\ ~unfinished /\ \A c \in DOMAIN commands : ~IsOut(commands[c])
    BY <1>2, <1>9
  <2>2. worker.server = server
    BY <1>1, <2>1 DEF ClientInv, Told, IsOut
  <2>3. out => worker.signedOut
    <3>1. CASE commands = <<>>
      BY <1>1, <3>1 DEF ClientInv, Told
    <3>2. CASE commands # <<>>
      BY <3>2, RestIs, <2>1, <1>1 DEF ClientInv, Shown, Told
    <3>3. QED
      BY <3>1, <3>2
  <2>4. keychain[s] = Client!NoToken
    BY <1>9, <2>1, <2>2, <2>3 DEF ClientInv, Tokens, Client!Here
  <2>5. QED
    BY <1>2, <2>4
<1>10. Tokens'
  BY <1>4, <1>8, <1>9 DEF Tokens, Client!Here
<1>11. QED
  BY <1>4, <1>7, <1>10 DEF ClientInv

-----------------------------------------------------------------------------
LEMMA ClientSteps == ClientInv /\ [Client!Next]_Client!vars => ClientInv'
<1> SUFFICES ASSUME ClientInv, [Client!Next]_Client!vars
             PROVE  ClientInv'
  OBVIOUS
<1>1. CASE UNCHANGED Client!vars
  <2>1. UNCHANGED <<ui, clock, commands, events, worker, attempt, keychain, valid, gone,
                    unfinished>>
    BY <1>1 DEF Client!vars
  <2>2. Shown' /\ Held' /\ Told' /\ Under' /\ Heard' /\ Tokens'
    BY <2>1 DEF ClientInv, Shown, Held, Told, Under, Heard, Tokens, TokenOf, Client!Here,
                Client!Granted, Earlier
  <2>3. QED
    BY <2>2 DEF ClientInv
<1>2. CASE Client!Next
  <2>1. \/ Client!User \/ Client!Poll \/ Client!Tick \/ Client!EndSession \/ Client!ExecuteRefresh \/ Client!ExecuteSignIn
        \/ Client!Interrupt \/ Client!Authorization \/ Client!Persist \/ Client!RefreshRefused \/ Client!AttemptFails
        \/ Client!LeaseIssued \/ Client!EntitlementFails \/ Client!EntitlementRefused \/ Client!RetryTimer
        \/ Client!ServerGrants \/ Client!AnswerLost \/ Client!Restart \/ Client!TokenStays
    BY <1>2 DEF Client!Next, Client!WorkerStep
  <2>2. QED
    BY <2>1, UserKeeps, PollKeeps, EndSessionKeeps, RefreshKeeps, ExecuteSignInKeeps,
       InterruptKeeps, AuthorizationKeeps, PersistKeeps, RefusedKeeps, AttemptFailsKeeps,
       EntitlementKeeps, ServerGrantsKeeps, AnswerLostKeeps, RestartKeeps, TokenStaysKeeps
<1>3. QED
  BY <1>1, <1>2

LEMMA ClientIsTyped == ClientInv => Client!TypeOK
<1> SUFFICES ASSUME ClientInv
             PROVE  Client!TypeOK
  OBVIOUS
<1> USE DEF ClientInv
<1>1. /\ ui \in [server : Servers, lease : Client!Lease, signedOut : BOOLEAN,
                 status : Client!Statuses, shown : Client!Lease, gen : Nat]
      /\ clock \in 0..MaxTime
  BY DEF Shown
<1>2. \A c \in DOMAIN commands :
        commands[c] \in [kind : {"signIn", "refresh", "signOut"}, gen : Nat]
                          \cup [kind : {"switch"}, gen : Nat, server : Servers]
  BY DEF Shown, ClientCommands
<1>3. \A e \in DOMAIN events : events[e].lease \in Client!Lease /\ events[e].gen \in Nat
  <2>1. events \in Seq(ClientEvents)
    BY DEF Shown
  <2>2. \A e \in DOMAIN events : events[e] \in ClientEvents
    BY <2>1
  <2>3. \A e \in ClientEvents : e.lease \in Client!Lease /\ e.gen \in Nat
    BY DEF ClientEvents
  <2>4. QED
    BY <2>2, <2>3
<1>4. /\ worker.server \in Servers /\ worker.lease \in Client!Lease
      /\ worker.session \in Client!Token /\ worker.signedOut \in BOOLEAN
      /\ worker.retry \in BOOLEAN /\ worker.retryGen \in Nat
  BY DEF Held, Settings
<1>5. /\ attempt.step \in {"idle", "refreshing", "authorizing", "approving", "entitling"}
      /\ attempt.answer \in {"none", "granted"}
      /\ attempt.step = "idle" => attempt = Client!Idle
      /\ keychain \in [Servers -> Client!Token]
      /\ valid \subseteq Servers /\ gone \subseteq Servers /\ unfinished \in BOOLEAN
  BY DEF Held, Attempts
<1>6. QED
  BY <1>1, <1>2, <1>3, <1>4, <1>5 DEF Client!TypeOK

LEMMA ClientHolds == ClientInv => Client!SignedOutStays /\ Client!CredentialKept
<1> SUFFICES ASSUME ClientInv
             PROVE  Client!SignedOutStays /\ Client!CredentialKept
  OBVIOUS
<1>1. Client!AtRest => /\ ui.server = worker.server /\ ui.signedOut = worker.signedOut
  <2> SUFFICES ASSUME Client!AtRest
               PROVE  ui.server = worker.server /\ ui.signedOut = worker.signedOut
    OBVIOUS
  <2>1. commands = <<>> /\ DOMAIN commands = {}
    BY NothingIn DEF Client!AtRest
  <2>2. QED
    BY <2>1 DEF ClientInv, Told
<1>2. Client!SignedOutStays
  BY <1>1 DEF Client!SignedOutStays, ClientInv, Heard
<1>3. Client!CredentialKept
  BY IdleIs DEF Client!CredentialKept, ClientInv, Tokens, TokenOf, Client!Credential, Client!Granted, Client!Here
<1>4. QED
  BY <1>2, <1>3

-----------------------------------------------------------------------------
(* The updates: what is installed, staged and kept of the releases.        *)

(* The steps at which a program works on the update it has read, and those *)
(* at which it works on the release it has found.                          *)
Reading  == {"package", "unmark", "install", "count"}
Known    == {"staged?", "download", "store", "mark", "supersede"}
Unmixed  == odd \cap {"together", "by hand"} = {}
PendingSet == IF staged = NoFile THEN {} ELSE {staged.version}
HeldSet(p) == IF held[p] = NoFile THEN {} ELSE {held[p].version}

(* What a start has read of the state may be installed, and is of a release. *)
Sourced ==
  /\ installed \in 1 .. latest
  /\ staged # NoFile => staged.version <= latest
  /\ \A p \in Programs :
       /\ runs[p] \in 1 .. latest /\ wanted[p] <= latest
       /\ held[p] # NoFile => held[p].version <= latest
       /\ at[p] \in Reading => held[p] # NoFile /\ held[p].attempts < Updates!MAX_APPLY_ATTEMPTS
       /\ at[p] \in {"unmark", "install"} => bytes[p]

(* One program runs at a time, until two are started together.             *)
Single ==
  "together" \notin odd =>
    \A p, q \in Programs : at[p] # "off" /\ at[q] # "off" => p = q

(* What a program that starts may install is not older than what is there, *)
(* nor is what it stages, and what it has read is not newer than what is   *)
(* staged: with one program, and no hand, the version only rises.          *)
Forward ==
  Unmixed =>
    /\ staged # NoFile => installed <= staged.version
    /\ \A p \in Programs :
         /\ at[p] \in Reading => /\ installed <= held[p].version
                                 /\ staged # NoFile => held[p].version <= staged.version
         /\ at[p] \in Known => installed <= wanted[p]

SaysStaged(p) == \/ sent[p] # <<>> /\ Updates!Last(sent[p]).type = "Staged"
                 \/ shown[p].type = "Staged"
IsStaged(p) == staged # NoFile /\ staged.version = wanted[p] /\ wanted[p] \in DOMAIN packages

(* A program says that an update is staged at its end only, and before it  *)
(* does, the package and then the state are there.                         *)
Truthful ==
  /\ \A p \in Programs :
       /\ at[p] \notin {"off", "done"} => ~SaysStaged(p)
       /\ at[p] \in Updates!Starting \cup {"off", "install"} => sent[p] = <<>>
  /\ "together" \notin odd =>
       \A p \in Programs :
         /\ at[p] = "mark" => wanted[p] \in DOMAIN packages
         /\ at[p] = "supersede" => IsStaged(p)
         /\ at[p] = "done" /\ SaysStaged(p) => IsStaged(p)

(* No two programs, nothing failed or was cut short, and not on Windows.   *)
Calm == odd \subseteq {"by hand"} /\ ~budget.windows
Settled == \A p \in Programs : at[p] \notin {"clear package", "mark", "supersede"}

(* Which packages are there at each step: what the state names, what the   *)
(* program has read and what it has found.                                 *)
TidyAt(p) ==
  Calm =>
    /\ at[p] \in Reading \cup {"clear state", "store", "mark"} => held[p] = staged
    /\ at[p] = "clear package" => staged = NoFile /\ DOMAIN packages = HeldSet(p)
    /\ at[p] = "mark" => DOMAIN packages = PendingSet \cup {wanted[p]}
    /\ at[p] = "supersede" => /\ staged # NoFile /\ staged.version = wanted[p]
                              /\ DOMAIN packages = HeldSet(p) \cup {wanted[p]}
    /\ at[p] # "unmark"
TidyDisk == Calm /\ Settled => DOMAIN packages = PendingSet
Tidy == TidyDisk /\ \A p \in Programs : TidyAt(p)

UpdatesInv == Updates!TypeOK /\ Sourced /\ Single /\ Forward /\ Truthful /\ Tidy

USE DEF Updates!MAX_APPLY_ATTEMPTS

(* The types, in parts that few actions disturb.                           *)
States == [version : Updates!Versions, attempts : 0 .. Updates!MAX_APPLY_ATTEMPTS]
PlanType == budget \in Updates!Budgets
DiskType ==
  /\ latest \in Updates!Versions /\ installed \in Updates!Versions \cup {Broken}
  /\ staged \in {NoFile} \cup [version : Updates!Versions, attempts : 0 .. Updates!MAX_APPLY_ATTEMPTS]
  /\ odd \subseteq {"together", "fault", "cut", "by hand"}
PackagesType ==
  DOMAIN packages \subseteq Updates!Versions /\ \A v \in DOMAIN packages : packages[v] \in BOOLEAN
StepType ==
  /\ at \in [Programs -> Updates!Steps]
  /\ runs \in [Programs -> Updates!Versions \cup {Broken}] /\ wanted \in [Programs -> Updates!Versions]
HeldType ==
  /\ held \in [Programs -> {NoFile} \cup [version : Updates!Versions, attempts : 0 .. Updates!MAX_APPLY_ATTEMPTS]]
  /\ bytes \in [Programs -> BOOLEAN]
SaysType ==
  /\ listens \in [Programs -> BOOLEAN]
  /\ shown \in [Programs -> Updates!Statuses] /\ sent \in [Programs -> Seq(Updates!Statuses)]
UpdateTypes == PlanType /\ DiskType /\ PackagesType /\ StepType /\ HeldType /\ SaysType

LEMMA UpdateTypesAre == UpdateTypes <=> Updates!TypeOK
BY DEF UpdateTypes, Updates!TypeOK, PlanType, DiskType, PackagesType, StepType, HeldType,
   SaysType

LEMMA SpentLaunch ==
  ASSUME NEW b \in Updates!Budgets, b.launches > 0 PROVE [b EXCEPT !.launches = @ - 1] \in Updates!Budgets
<1>0. b.launches \in Nat
  BY DEF Updates!Budgets
<1>1. PICK n : n = b.launches - 1
  OBVIOUS
<1>2. n \in Nat
  BY <1>0, <1>1
<1> QED
  BY <1>1, <1>2 DEF Updates!Budgets

LEMMA SpentFault ==
  ASSUME NEW b \in Updates!Budgets, b.faults > 0 PROVE [b EXCEPT !.faults = @ - 1] \in Updates!Budgets
<1>0. b.faults \in Nat
  BY DEF Updates!Budgets
<1>1. PICK n : n = b.faults - 1
  OBVIOUS
<1>2. n \in Nat
  BY <1>0, <1>1
<1> QED
  BY <1>1, <1>2 DEF Updates!Budgets

LEMMA StatusIs ==
  ASSUME NEW type \in {"Checking", "Downloading", "Staged", "UpToDate", "Failed"}, NEW v \in 0 .. Releases
  PROVE  Updates!Status(type, v) \in Updates!Statuses
BY DEF Updates!Status, Updates!Statuses

LEMMA StatusesAre ==
  /\ \A p \in Programs : StepType => Updates!Status("Staged", wanted[p]) \in Updates!Statuses /\ Updates!Status("Downloading", wanted[p]) \in Updates!Statuses
  /\ Updates!Status("Checking", 0) \in Updates!Statuses /\ Updates!Status("UpToDate", 0) \in Updates!Statuses /\ Updates!Status("Failed", 0) \in Updates!Statuses
<1>1. 0 \in 0 .. Releases /\ Updates!Versions \subseteq 0 .. Releases
  BY UpdatesAssumption DEF Updates!UpdaterAssumption, Updates!Versions
<1> QED
  BY <1>1, StatusIs DEF StepType

LEMMA SentIs ==
  ASSUME SaysType, NEW p \in Programs, NEW s \in Updates!Statuses, Updates!Sends(p, s)
  PROVE  sent' \in [Programs -> Seq(Updates!Statuses)]
<1>1. PICK q : q = Append(sent[p], s)
  OBVIOUS
<1>2. q \in Seq(Updates!Statuses)
  BY <1>1 DEF SaysType
<1> QED
  BY <1>1, <1>2 DEF SaysType, Updates!Sends

LEMMA LastIs == ASSUME NEW s \in Seq(Updates!Statuses), s # <<>> PROVE Updates!Last(s) \in Updates!Statuses
BY DEF Updates!Last

(* Every action keeps the types.  What is counted as an attempt was read   *)
(* with fewer attempts than are made.                                      *)
LEMMA UpdateTypesKept == UpdateTypes /\ Sourced /\ [Updates!Next]_Updates!vars => UpdateTypes'
<1> SUFFICES ASSUME UpdateTypes, Sourced, [Updates!Next]_Updates!vars PROVE UpdateTypes'
  OBVIOUS
<1> USE UpdatesAssumption DEF Updates!UpdaterAssumption
<1>0. CASE UNCHANGED Updates!vars
  BY <1>0 DEF Updates!vars, PlanType, Updates!Budgets, UpdateTypes, DiskType, Updates!Versions,
     HeldType, Sourced, Reading, StepType, PackagesType, Updates!Steps, Updates!Starting,
     Updates!Updating, SaysType, Updates!Statuses, Updates!Status
<1>1. ASSUME NEW p \in Programs, Updates!Launch(p) PROVE UpdateTypes'
  <2>1. PlanType'
    BY <1>1, SpentLaunch DEF Updates!Launch, PlanType, UpdateTypes
  <2>2. DiskType'
    BY <1>1 DEF Updates!Launch, Updates!Goes, Updates!disk, DiskType, UpdateTypes,
       Updates!Versions, HeldType, Sourced, Reading, StepType, PackagesType
  <2>3. PackagesType'
    BY <1>1 DEF Updates!Launch, Updates!Goes, Updates!disk, PackagesType, UpdateTypes, StepType
  <2>4. StepType'
    BY <1>1 DEF Updates!Launch, Updates!Goes, Updates!disk, StepType, UpdateTypes,
       Updates!Steps, Updates!Starting, Updates!Updating, Updates!Versions, DiskType, Sourced
  <2>5. HeldType'
    BY <1>1 DEF Updates!Launch, Updates!Goes, Updates!disk, HeldType, UpdateTypes, DiskType,
       PackagesType, Updates!Versions
  <2>6. SaysType'
    BY <1>1, StatusesAre DEF Updates!Launch, SaysType, UpdateTypes
  <2> QED
    BY <2>1, <2>2, <2>3, <2>4, <2>5, <2>6 DEF UpdateTypes
<1>2. ASSUME NEW p \in Programs, Updates!ReadPending(p) PROVE UpdateTypes'
  <2>1. PlanType'
    BY <1>2 DEF Updates!ReadPending, Updates!Goes, Updates!Holds, Updates!disk, Updates!ui,
       PlanType, Updates!Budgets, UpdateTypes
  <2>2. DiskType'
    BY <1>2 DEF Updates!ReadPending, Updates!Goes, Updates!Holds, Updates!disk, Updates!ui,
       DiskType, UpdateTypes, Updates!Versions, HeldType, Sourced, Reading, StepType,
       PackagesType
  <2>3. PackagesType'
    BY <1>2 DEF Updates!ReadPending, Updates!Goes, Updates!Holds, Updates!disk, Updates!ui,
       PackagesType, UpdateTypes, StepType
  <2>4. StepType'
    BY <1>2 DEF Updates!ReadPending, Updates!Goes, Updates!Holds, Updates!disk, Updates!ui,
       StepType, UpdateTypes, Updates!Steps, Updates!Starting, Updates!Updating,
       Updates!Versions, DiskType, Sourced
  <2>5. HeldType'
    BY <1>2 DEF Updates!ReadPending, Updates!Goes, Updates!Holds, Updates!disk, Updates!ui,
       HeldType, UpdateTypes, DiskType, PackagesType, Updates!Versions
  <2>6. SaysType'
    BY <1>2 DEF Updates!ReadPending, Updates!Goes, Updates!Holds, Updates!disk, Updates!ui,
       SaysType, UpdateTypes, Updates!Statuses, Updates!Status, StepType, Updates!Versions
  <2> QED
    BY <2>1, <2>2, <2>3, <2>4, <2>5, <2>6 DEF UpdateTypes
<1>3. ASSUME NEW p \in Programs, Updates!ReadPackage(p) PROVE UpdateTypes'
  <2>1. PlanType'
    BY <1>3 DEF Updates!ReadPackage, Updates!Goes, Updates!disk, Updates!ui, PlanType,
       Updates!Budgets, UpdateTypes
  <2>2. DiskType'
    BY <1>3 DEF Updates!ReadPackage, Updates!Goes, Updates!disk, Updates!ui, DiskType,
       UpdateTypes, Updates!Versions, HeldType, Sourced, Reading, StepType, PackagesType
  <2>3. PackagesType'
    BY <1>3 DEF Updates!ReadPackage, Updates!Goes, Updates!disk, Updates!ui, PackagesType,
       UpdateTypes, StepType
  <2>4. StepType'
    BY <1>3 DEF Updates!ReadPackage, Updates!Goes, Updates!disk, Updates!ui, StepType,
       UpdateTypes, Updates!Steps, Updates!Starting, Updates!Updating, Updates!Versions,
       DiskType, Sourced
  <2>5. HeldType'
    BY <1>3 DEF Updates!ReadPackage, Updates!Goes, Updates!disk, Updates!ui, HeldType,
       UpdateTypes, DiskType, PackagesType, Updates!Versions
  <2>6. SaysType'
    BY <1>3 DEF Updates!ReadPackage, Updates!Goes, Updates!disk, Updates!ui, SaysType,
       UpdateTypes, Updates!Statuses, Updates!Status, StepType, Updates!Versions
  <2> QED
    BY <2>1, <2>2, <2>3, <2>4, <2>5, <2>6 DEF UpdateTypes
<1>4. ASSUME NEW p \in Programs, Updates!Unmark(p) PROVE UpdateTypes'
  <2>1. PlanType'
    BY <1>4 DEF Updates!Unmark, Updates!Goes, Updates!ui, PlanType, Updates!Budgets, UpdateTypes
  <2>2. DiskType'
    BY <1>4 DEF Updates!Unmark, Updates!Goes, Updates!ui, DiskType, UpdateTypes,
       Updates!Versions, HeldType, Sourced, Reading, StepType, PackagesType
  <2>3. PackagesType'
    BY <1>4 DEF Updates!Unmark, Updates!Goes, Updates!ui, PackagesType, UpdateTypes, StepType
  <2>4. StepType'
    BY <1>4 DEF Updates!Unmark, Updates!Goes, Updates!ui, StepType, UpdateTypes, Updates!Steps,
       Updates!Starting, Updates!Updating, Updates!Versions, DiskType, Sourced
  <2>5. HeldType'
    BY <1>4 DEF Updates!Unmark, Updates!Goes, Updates!ui, HeldType, UpdateTypes, DiskType,
       PackagesType, Updates!Versions
  <2>6. SaysType'
    BY <1>4 DEF Updates!Unmark, Updates!Goes, Updates!ui, SaysType, UpdateTypes,
       Updates!Statuses, Updates!Status, StepType, Updates!Versions
  <2> QED
    BY <2>1, <2>2, <2>3, <2>4, <2>5, <2>6 DEF UpdateTypes
<1>5. ASSUME NEW p \in Programs, Updates!Install(p) PROVE UpdateTypes'
  <2>1. PlanType'
    BY <1>5 DEF Updates!Install, Updates!Goes, Updates!ui, PlanType, Updates!Budgets,
       UpdateTypes
  <2>2. DiskType'
    BY <1>5 DEF Updates!Install, Updates!Goes, Updates!ui, DiskType, UpdateTypes,
       Updates!Versions, HeldType, Sourced, Reading, StepType, PackagesType
  <2>3. PackagesType'
    BY <1>5 DEF Updates!Install, Updates!Goes, Updates!ui, PackagesType, UpdateTypes, StepType
  <2>4. StepType'
    BY <1>5 DEF Updates!Install, Updates!Goes, Updates!ui, StepType, UpdateTypes, Updates!Steps,
       Updates!Starting, Updates!Updating, Updates!Versions, DiskType, Sourced
  <2>5. HeldType'
    BY <1>5 DEF Updates!Install, Updates!Goes, Updates!ui, HeldType, UpdateTypes, DiskType,
       PackagesType, Updates!Versions
  <2>6. SaysType'
    BY <1>5 DEF Updates!Install, Updates!Goes, Updates!ui, SaysType, UpdateTypes,
       Updates!Statuses, Updates!Status, StepType, Updates!Versions
  <2> QED
    BY <2>1, <2>2, <2>3, <2>4, <2>5, <2>6 DEF UpdateTypes
<1>6. ASSUME NEW p \in Programs, Updates!InstallFails(p) PROVE UpdateTypes'
  <2>1. PlanType'
    BY <1>6, SpentFault DEF Updates!InstallFails, PlanType, UpdateTypes
  <2>2. DiskType'
    BY <1>6 DEF Updates!InstallFails, Updates!Goes, Updates!disk, Updates!ui, DiskType,
       UpdateTypes, Updates!Versions, HeldType, Sourced, Reading, StepType, PackagesType
  <2>3. PackagesType'
    BY <1>6 DEF Updates!InstallFails, Updates!Goes, Updates!disk, Updates!ui, PackagesType,
       UpdateTypes, StepType
  <2>4. StepType'
    BY <1>6 DEF Updates!InstallFails, Updates!Goes, Updates!disk, Updates!ui, StepType,
       UpdateTypes, Updates!Steps, Updates!Starting, Updates!Updating, Updates!Versions,
       DiskType, Sourced
  <2>5. HeldType'
    BY <1>6 DEF Updates!InstallFails, Updates!Goes, Updates!disk, Updates!ui, HeldType,
       UpdateTypes, DiskType, PackagesType, Updates!Versions
  <2>6. SaysType'
    BY <1>6 DEF Updates!InstallFails, Updates!Goes, Updates!disk, Updates!ui, SaysType,
       UpdateTypes, Updates!Statuses, Updates!Status, StepType, Updates!Versions
  <2> QED
    BY <2>1, <2>2, <2>3, <2>4, <2>5, <2>6 DEF UpdateTypes
<1>7. ASSUME NEW p \in Programs, Updates!CountAttempt(p) PROVE UpdateTypes'
  <2>1. PlanType'
    BY <1>7 DEF Updates!CountAttempt, Updates!Goes, Updates!Pending, Updates!ui, PlanType,
       Updates!Budgets, UpdateTypes
  <2>2. DiskType'
    <3>1. /\ held[p] # NoFile /\ held[p].attempts < Updates!MAX_APPLY_ATTEMPTS
           /\ held[p] \in {NoFile} \cup States
      BY <1>7 DEF Updates!CountAttempt, Sourced, Reading, UpdateTypes, HeldType, States
    <3>2. PICK n : n = held[p].attempts + 1
      OBVIOUS
    <3>3. n \in 0 .. Updates!MAX_APPLY_ATTEMPTS /\ held[p].version \in Updates!Versions
      BY <3>1, <3>2 DEF States
    <3>4. staged' = [version |-> held[p].version, attempts |-> n]
      BY <1>7, <3>2 DEF Updates!CountAttempt, Updates!Pending
    <3> QED
      <4>1. staged' \in States
        BY ONLY <3>3, <3>4 DEF States
      <4> QED
        BY <1>7, <4>1 DEF Updates!CountAttempt, DiskType, UpdateTypes, States
  <2>3. PackagesType'
    BY <1>7 DEF Updates!CountAttempt, Updates!Goes, Updates!Pending, Updates!ui, PackagesType,
       UpdateTypes, StepType
  <2>4. StepType'
    BY <1>7 DEF Updates!CountAttempt, Updates!Goes, Updates!Pending, Updates!ui, StepType,
       UpdateTypes, Updates!Steps, Updates!Starting, Updates!Updating, Updates!Versions,
       DiskType, Sourced
  <2>5. HeldType'
    BY <1>7 DEF Updates!CountAttempt, Updates!Goes, Updates!Pending, Updates!ui, HeldType,
       UpdateTypes, DiskType, PackagesType, Updates!Versions
  <2>6. SaysType'
    BY <1>7 DEF Updates!CountAttempt, Updates!Goes, Updates!Pending, Updates!ui, SaysType,
       UpdateTypes, Updates!Statuses, Updates!Status, StepType, Updates!Versions
  <2> QED
    BY <2>1, <2>2, <2>3, <2>4, <2>5, <2>6 DEF UpdateTypes
<1>8. ASSUME NEW p \in Programs, Updates!ClearReads(p) PROVE UpdateTypes'
  <2>1. PlanType'
    BY <1>8 DEF Updates!ClearReads, Updates!Goes, Updates!Holds, Updates!disk, Updates!ui,
       PlanType, Updates!Budgets, UpdateTypes
  <2>2. DiskType'
    BY <1>8 DEF Updates!ClearReads, Updates!Goes, Updates!Holds, Updates!disk, Updates!ui,
       DiskType, UpdateTypes, Updates!Versions, HeldType, Sourced, Reading, StepType,
       PackagesType
  <2>3. PackagesType'
    BY <1>8 DEF Updates!ClearReads, Updates!Goes, Updates!Holds, Updates!disk, Updates!ui,
       PackagesType, UpdateTypes, StepType
  <2>4. StepType'
    BY <1>8 DEF Updates!ClearReads, Updates!Goes, Updates!Holds, Updates!disk, Updates!ui,
       StepType, UpdateTypes, Updates!Steps, Updates!Starting, Updates!Updating,
       Updates!Versions, DiskType, Sourced
  <2>5. HeldType'
    BY <1>8 DEF Updates!ClearReads, Updates!Goes, Updates!Holds, Updates!disk, Updates!ui,
       HeldType, UpdateTypes, DiskType, PackagesType, Updates!Versions
  <2>6. SaysType'
    BY <1>8 DEF Updates!ClearReads, Updates!Goes, Updates!Holds, Updates!disk, Updates!ui,
       SaysType, UpdateTypes, Updates!Statuses, Updates!Status, StepType, Updates!Versions
  <2> QED
    BY <2>1, <2>2, <2>3, <2>4, <2>5, <2>6 DEF UpdateTypes
<1>9. ASSUME NEW p \in Programs, Updates!ClearState(p) PROVE UpdateTypes'
  <2>1. PlanType'
    BY <1>9 DEF Updates!ClearState, Updates!Goes, Updates!ui, PlanType, Updates!Budgets,
       UpdateTypes
  <2>2. DiskType'
    BY <1>9 DEF Updates!ClearState, Updates!Goes, Updates!ui, DiskType, UpdateTypes,
       Updates!Versions, HeldType, Sourced, Reading, StepType, PackagesType
  <2>3. PackagesType'
    BY <1>9 DEF Updates!ClearState, Updates!Goes, Updates!ui, PackagesType, UpdateTypes,
       StepType
  <2>4. StepType'
    BY <1>9 DEF Updates!ClearState, Updates!Goes, Updates!ui, StepType, UpdateTypes,
       Updates!Steps, Updates!Starting, Updates!Updating, Updates!Versions, DiskType, Sourced
  <2>5. HeldType'
    BY <1>9 DEF Updates!ClearState, Updates!Goes, Updates!ui, HeldType, UpdateTypes, DiskType,
       PackagesType, Updates!Versions
  <2>6. SaysType'
    BY <1>9 DEF Updates!ClearState, Updates!Goes, Updates!ui, SaysType, UpdateTypes,
       Updates!Statuses, Updates!Status, StepType, Updates!Versions
  <2> QED
    BY <2>1, <2>2, <2>3, <2>4, <2>5, <2>6 DEF UpdateTypes
<1>10. ASSUME NEW p \in Programs, Updates!ClearPackage(p) PROVE UpdateTypes'
  <2>1. PlanType'
    BY <1>10 DEF Updates!ClearPackage, Updates!Goes, Updates!Without, Updates!ui, PlanType,
       Updates!Budgets, UpdateTypes
  <2>2. DiskType'
    BY <1>10 DEF Updates!ClearPackage, Updates!Goes, Updates!Without, Updates!ui, DiskType,
       UpdateTypes, Updates!Versions, HeldType, Sourced, Reading, StepType, PackagesType
  <2>3. PackagesType'
    BY <1>10 DEF Updates!ClearPackage, Updates!Goes, Updates!Without, Updates!ui, PackagesType,
       UpdateTypes, StepType
  <2>4. StepType'
    BY <1>10 DEF Updates!ClearPackage, Updates!Goes, Updates!Without, Updates!ui, StepType,
       UpdateTypes, Updates!Steps, Updates!Starting, Updates!Updating, Updates!Versions,
       DiskType, Sourced
  <2>5. HeldType'
    BY <1>10 DEF Updates!ClearPackage, Updates!Goes, Updates!Without, Updates!ui, HeldType,
       UpdateTypes, DiskType, PackagesType, Updates!Versions
  <2>6. SaysType'
    BY <1>10 DEF Updates!ClearPackage, Updates!Goes, Updates!Without, Updates!ui, SaysType,
       UpdateTypes, Updates!Statuses, Updates!Status, StepType, Updates!Versions
  <2> QED
    BY <2>1, <2>2, <2>3, <2>4, <2>5, <2>6 DEF UpdateTypes
<1>11. ASSUME NEW p \in Programs, Updates!Check(p) PROVE UpdateTypes'
  <2>1. PlanType'
    BY <1>11 DEF Updates!Check, Updates!Goes, Updates!Ends, Updates!Sends, Updates!Status,
       Updates!disk, Updates!ui, PlanType, Updates!Budgets, UpdateTypes
  <2>2. DiskType'
    BY <1>11 DEF Updates!Check, Updates!Goes, Updates!Ends, Updates!Sends, Updates!Status,
       Updates!disk, Updates!ui, DiskType, UpdateTypes, Updates!Versions, HeldType, Sourced,
       Reading, StepType, PackagesType
  <2>3. PackagesType'
    BY <1>11 DEF Updates!Check, Updates!Goes, Updates!Ends, Updates!Sends, Updates!Status,
       Updates!disk, Updates!ui, PackagesType, UpdateTypes, StepType
  <2>4. StepType'
    BY <1>11 DEF Updates!Check, Updates!Goes, Updates!Ends, Updates!Sends, Updates!Status,
       Updates!disk, Updates!ui, StepType, UpdateTypes, Updates!Steps, Updates!Starting,
       Updates!Updating, Updates!Versions, DiskType, Sourced
  <2>5. HeldType'
    BY <1>11 DEF Updates!Check, Updates!Goes, Updates!Ends, Updates!Sends, Updates!Status,
       Updates!disk, Updates!ui, HeldType, UpdateTypes, DiskType, PackagesType, Updates!Versions
  <2>6. SaysType'
    BY <1>11, StatusesAre, SentIs DEF Updates!Check, Updates!Ends, Updates!ui, SaysType,
       UpdateTypes
  <2> QED
    BY <2>1, <2>2, <2>3, <2>4, <2>5, <2>6 DEF UpdateTypes
<1>12. ASSUME NEW p \in Programs, Updates!HasStaged(p) PROVE UpdateTypes'
  <2>1. PlanType'
    BY <1>12 DEF Updates!HasStaged, Updates!Goes, Updates!Ends, Updates!Sends, Updates!Status,
       Updates!disk, Updates!ui, PlanType, Updates!Budgets, UpdateTypes
  <2>2. DiskType'
    BY <1>12 DEF Updates!HasStaged, Updates!Goes, Updates!Ends, Updates!Sends, Updates!Status,
       Updates!disk, Updates!ui, DiskType, UpdateTypes, Updates!Versions, HeldType, Sourced,
       Reading, StepType, PackagesType
  <2>3. PackagesType'
    BY <1>12 DEF Updates!HasStaged, Updates!Goes, Updates!Ends, Updates!Sends, Updates!Status,
       Updates!disk, Updates!ui, PackagesType, UpdateTypes, StepType
  <2>4. StepType'
    BY <1>12 DEF Updates!HasStaged, Updates!Goes, Updates!Ends, Updates!Sends, Updates!Status,
       Updates!disk, Updates!ui, StepType, UpdateTypes, Updates!Steps, Updates!Starting,
       Updates!Updating, Updates!Versions, DiskType, Sourced
  <2>5. HeldType'
    BY <1>12 DEF Updates!HasStaged, Updates!Goes, Updates!Ends, Updates!Sends, Updates!Status,
       Updates!disk, Updates!ui, HeldType, UpdateTypes, DiskType, PackagesType, Updates!Versions
  <2>6. SaysType'
    BY <1>12, StatusesAre, SentIs DEF Updates!HasStaged, Updates!Ends, Updates!ui, SaysType,
       UpdateTypes
  <2> QED
    BY <2>1, <2>2, <2>3, <2>4, <2>5, <2>6 DEF UpdateTypes
<1>13. ASSUME NEW p \in Programs, Updates!Download(p) PROVE UpdateTypes'
  <2>1. PlanType'
    BY <1>13 DEF Updates!Download, Updates!Goes, Updates!Holds, Updates!disk, Updates!ui,
       PlanType, Updates!Budgets, UpdateTypes
  <2>2. DiskType'
    BY <1>13 DEF Updates!Download, Updates!Goes, Updates!Holds, Updates!disk, Updates!ui,
       DiskType, UpdateTypes, Updates!Versions, HeldType, Sourced, Reading, StepType,
       PackagesType
  <2>3. PackagesType'
    BY <1>13 DEF Updates!Download, Updates!Goes, Updates!Holds, Updates!disk, Updates!ui,
       PackagesType, UpdateTypes, StepType
  <2>4. StepType'
    BY <1>13 DEF Updates!Download, Updates!Goes, Updates!Holds, Updates!disk, Updates!ui,
       StepType, UpdateTypes, Updates!Steps, Updates!Starting, Updates!Updating,
       Updates!Versions, DiskType, Sourced
  <2>5. HeldType'
    BY <1>13 DEF Updates!Download, Updates!Goes, Updates!Holds, Updates!disk, Updates!ui,
       HeldType, UpdateTypes, DiskType, PackagesType, Updates!Versions
  <2>6. SaysType'
    BY <1>13 DEF Updates!Download, Updates!Goes, Updates!Holds, Updates!disk, Updates!ui,
       SaysType, UpdateTypes, Updates!Statuses, Updates!Status, StepType, Updates!Versions
  <2> QED
    BY <2>1, <2>2, <2>3, <2>4, <2>5, <2>6 DEF UpdateTypes
<1>14. ASSUME NEW p \in Programs, Updates!StorePackage(p) PROVE UpdateTypes'
  <2>1. PlanType'
    BY <1>14 DEF Updates!StorePackage, Updates!Goes, Updates!With, Updates!Without, Updates!ui,
       PlanType, Updates!Budgets, UpdateTypes
  <2>2. DiskType'
    BY <1>14 DEF Updates!StorePackage, Updates!Goes, Updates!With, Updates!Without, Updates!ui,
       DiskType, UpdateTypes, Updates!Versions, HeldType, Sourced, Reading, StepType,
       PackagesType
  <2>3. PackagesType'
    <3>1. packages' = Updates!Without(wanted[p]) \/ packages' = Updates!With(wanted[p])
      BY <1>14 DEF Updates!StorePackage
    <3>2. wanted[p] \in Updates!Versions
      BY DEF UpdateTypes, StepType
    <3>3. CASE packages' = Updates!Without(wanted[p])
      BY <3>3 DEF Updates!Without, PackagesType, UpdateTypes
    <3>4. CASE packages' = Updates!With(wanted[p])
      BY <3>2, <3>4, Zenon DEF Updates!With, PackagesType, UpdateTypes
    <3> QED
      BY <3>1, <3>3, <3>4
  <2>4. StepType'
    BY <1>14 DEF Updates!StorePackage, Updates!Goes, Updates!With, Updates!Without, Updates!ui,
       StepType, UpdateTypes, Updates!Steps, Updates!Starting, Updates!Updating,
       Updates!Versions, DiskType, Sourced
  <2>5. HeldType'
    BY <1>14 DEF Updates!StorePackage, Updates!Goes, Updates!With, Updates!Without, Updates!ui,
       HeldType, UpdateTypes, DiskType, PackagesType, Updates!Versions
  <2>6. SaysType'
    BY <1>14 DEF Updates!StorePackage, Updates!Goes, Updates!With, Updates!Without, Updates!ui,
       SaysType, UpdateTypes, Updates!Statuses, Updates!Status, StepType, Updates!Versions
  <2> QED
    BY <2>1, <2>2, <2>3, <2>4, <2>5, <2>6 DEF UpdateTypes
<1>15. ASSUME NEW p \in Programs, Updates!Mark(p) PROVE UpdateTypes'
  <2>1. PlanType'
    BY <1>15 DEF Updates!Mark, Updates!Goes, Updates!Pending, Updates!ui, PlanType,
       Updates!Budgets, UpdateTypes
  <2>2. DiskType'
    <3>1. staged' = NoFile \/ staged' = [version |-> wanted[p], attempts |-> 0]
      BY <1>15 DEF Updates!Mark, Updates!Pending
    <3>2. wanted[p] \in Updates!Versions /\ 0 \in 0 .. Updates!MAX_APPLY_ATTEMPTS
      BY DEF UpdateTypes, StepType
    <3> QED
      <4>1. staged' = NoFile \/ staged' \in States
        BY ONLY <3>1, <3>2 DEF States
      <4> QED
        BY <1>15, <4>1 DEF Updates!Mark, DiskType, UpdateTypes, States
  <2>3. PackagesType'
    BY <1>15 DEF Updates!Mark, Updates!Goes, Updates!Pending, Updates!ui, PackagesType,
       UpdateTypes, StepType
  <2>4. StepType'
    BY <1>15 DEF Updates!Mark, Updates!Goes, Updates!Pending, Updates!ui, StepType, UpdateTypes,
       Updates!Steps, Updates!Starting, Updates!Updating, Updates!Versions, DiskType, Sourced
  <2>5. HeldType'
    BY <1>15 DEF Updates!Mark, Updates!Goes, Updates!Pending, Updates!ui, HeldType, UpdateTypes,
       DiskType, PackagesType, Updates!Versions
  <2>6. SaysType'
    BY <1>15 DEF Updates!Mark, Updates!Goes, Updates!Pending, Updates!ui, SaysType, UpdateTypes,
       Updates!Statuses, Updates!Status, StepType, Updates!Versions
  <2> QED
    BY <2>1, <2>2, <2>3, <2>4, <2>5, <2>6 DEF UpdateTypes
<1>16. ASSUME NEW p \in Programs, Updates!Supersede(p) PROVE UpdateTypes'
  <2>1. PlanType'
    BY <1>16 DEF Updates!Supersede, Updates!Goes, Updates!Ends, Updates!Sends, Updates!Status,
       Updates!Without, Updates!ui, PlanType, Updates!Budgets, UpdateTypes
  <2>2. DiskType'
    BY <1>16 DEF Updates!Supersede, Updates!Goes, Updates!Ends, Updates!Sends, Updates!Status,
       Updates!Without, Updates!ui, DiskType, UpdateTypes, Updates!Versions, HeldType, Sourced,
       Reading, StepType, PackagesType
  <2>3. PackagesType'
    BY <1>16 DEF Updates!Supersede, Updates!Goes, Updates!Ends, Updates!Sends, Updates!Status,
       Updates!Without, Updates!ui, PackagesType, UpdateTypes, StepType
  <2>4. StepType'
    BY <1>16 DEF Updates!Supersede, Updates!Goes, Updates!Ends, Updates!Sends, Updates!Status,
       Updates!Without, Updates!ui, StepType, UpdateTypes, Updates!Steps, Updates!Starting,
       Updates!Updating, Updates!Versions, DiskType, Sourced
  <2>5. HeldType'
    BY <1>16 DEF Updates!Supersede, Updates!Goes, Updates!Ends, Updates!Sends, Updates!Status,
       Updates!Without, Updates!ui, HeldType, UpdateTypes, DiskType, PackagesType,
       Updates!Versions
  <2>6. SaysType'
    BY <1>16, StatusesAre, SentIs DEF Updates!Supersede, Updates!Ends, Updates!ui, SaysType,
       UpdateTypes
  <2> QED
    BY <2>1, <2>2, <2>3, <2>4, <2>5, <2>6 DEF UpdateTypes
<1>17. ASSUME NEW p \in Programs, Updates!StepFails(p) PROVE UpdateTypes'
  <2>1. PlanType'
    BY <1>17, SpentFault DEF Updates!StepFails, PlanType, UpdateTypes
  <2>2. DiskType'
    BY <1>17 DEF Updates!StepFails, Updates!Goes, Updates!Ends, Updates!Sends, Updates!Status,
       Updates!disk, Updates!ui, Updates!Starting, Updates!Updating, DiskType, UpdateTypes,
       Updates!Versions, HeldType, Sourced, Reading, StepType, PackagesType
  <2>3. PackagesType'
    BY <1>17 DEF Updates!StepFails, Updates!Goes, Updates!Ends, Updates!Sends, Updates!Status,
       Updates!disk, Updates!ui, Updates!Starting, Updates!Updating, PackagesType, UpdateTypes,
       StepType
  <2>4. StepType'
    BY <1>17 DEF Updates!StepFails, Updates!Goes, Updates!Ends, Updates!Sends, Updates!Status,
       Updates!disk, Updates!ui, Updates!Starting, Updates!Updating, StepType, UpdateTypes,
       Updates!Steps, Updates!Versions, DiskType, Sourced
  <2>5. HeldType'
    BY <1>17 DEF Updates!StepFails, Updates!Goes, Updates!Ends, Updates!Sends, Updates!Status,
       Updates!disk, Updates!ui, Updates!Starting, Updates!Updating, HeldType, UpdateTypes,
       DiskType, PackagesType, Updates!Versions
  <2>6. SaysType'
    BY <1>17, StatusesAre, SentIs DEF Updates!StepFails, Updates!Ends, Updates!ui, SaysType,
       UpdateTypes
  <2> QED
    BY <2>1, <2>2, <2>3, <2>4, <2>5, <2>6 DEF UpdateTypes
<1>18. ASSUME NEW p \in Programs, Updates!Poll(p) PROVE UpdateTypes'
  <2>1. PlanType'
    BY <1>18 DEF Updates!Poll, Updates!disk, PlanType, Updates!Budgets, UpdateTypes
  <2>2. DiskType'
    BY <1>18 DEF Updates!Poll, Updates!disk, DiskType, UpdateTypes, Updates!Versions, HeldType,
       Sourced, Reading, StepType, PackagesType
  <2>3. PackagesType'
    BY <1>18 DEF Updates!Poll, Updates!disk, PackagesType, UpdateTypes, StepType
  <2>4. StepType'
    BY <1>18 DEF Updates!Poll, Updates!disk, StepType, UpdateTypes, Updates!Steps,
       Updates!Starting, Updates!Updating, Updates!Versions, DiskType, Sourced
  <2>5. HeldType'
    BY <1>18 DEF Updates!Poll, Updates!disk, HeldType, UpdateTypes, DiskType, PackagesType,
       Updates!Versions
  <2>6. SaysType'
    BY <1>18, LastIs DEF Updates!Poll, SaysType, UpdateTypes
  <2> QED
    BY <2>1, <2>2, <2>3, <2>4, <2>5, <2>6 DEF UpdateTypes
<1>19. ASSUME NEW p \in Programs, Updates!Quit(p) PROVE UpdateTypes'
  <2>1. PlanType'
    BY <1>19 DEF Updates!Quit, Updates!Goes, Updates!disk, PlanType, Updates!Budgets,
       UpdateTypes
  <2>2. DiskType'
    BY <1>19 DEF Updates!Quit, Updates!Goes, Updates!disk, DiskType, UpdateTypes,
       Updates!Versions, HeldType, Sourced, Reading, StepType, PackagesType
  <2>3. PackagesType'
    BY <1>19 DEF Updates!Quit, Updates!Goes, Updates!disk, PackagesType, UpdateTypes, StepType
  <2>4. StepType'
    BY <1>19 DEF Updates!Quit, Updates!Goes, Updates!disk, StepType, UpdateTypes, Updates!Steps,
       Updates!Starting, Updates!Updating, Updates!Versions, DiskType, Sourced
  <2>5. HeldType'
    BY <1>19 DEF Updates!Quit, Updates!Goes, Updates!disk, HeldType, UpdateTypes, DiskType,
       PackagesType, Updates!Versions
  <2>6. SaysType'
    BY <1>19 DEF Updates!Quit, SaysType, UpdateTypes
  <2> QED
    BY <2>1, <2>2, <2>3, <2>4, <2>5, <2>6 DEF UpdateTypes
<1>20. ASSUME Updates!Release PROVE UpdateTypes'
  <2>1. PlanType'
    BY <1>20 DEF Updates!Release, Updates!disk, Updates!ui, PlanType, Updates!Budgets,
       UpdateTypes
  <2>2. DiskType'
    <3>1. latest' \in Updates!Versions
      <4>1. latest \in Updates!Versions /\ latest < Releases /\ latest' = latest + 1
        BY <1>20 DEF Updates!Release, DiskType, UpdateTypes
      <4>2. Releases \in Nat
        BY UpdatesAssumption DEF Updates!UpdaterAssumption
      <4> QED
        BY ONLY <4>1, <4>2 DEF Updates!Versions
    <3> QED
      BY <1>20, <3>1 DEF Updates!Release, Updates!disk, DiskType, UpdateTypes
  <2>3. PackagesType'
    BY <1>20 DEF Updates!Release, Updates!disk, Updates!ui, PackagesType, UpdateTypes, StepType
  <2>4. StepType'
    BY <1>20 DEF Updates!Release, Updates!disk, Updates!ui, StepType, UpdateTypes,
       Updates!Steps, Updates!Starting, Updates!Updating, Updates!Versions, DiskType, Sourced
  <2>5. HeldType'
    BY <1>20 DEF Updates!Release, Updates!disk, Updates!ui, HeldType, UpdateTypes, DiskType,
       PackagesType, Updates!Versions
  <2>6. SaysType'
    BY <1>20 DEF Updates!Release, Updates!disk, Updates!ui, SaysType, UpdateTypes,
       Updates!Statuses, Updates!Status, StepType, Updates!Versions
  <2> QED
    BY <2>1, <2>2, <2>3, <2>4, <2>5, <2>6 DEF UpdateTypes
<1>21. ASSUME Updates!InstallByHand PROVE UpdateTypes'
  <2>1. PlanType'
    BY <1>21 DEF Updates!InstallByHand, Updates!ui, PlanType, Updates!Budgets, UpdateTypes
  <2>2. DiskType'
    BY <1>21 DEF Updates!InstallByHand, Updates!ui, DiskType, UpdateTypes, Updates!Versions,
       HeldType, Sourced, Reading, StepType, PackagesType
  <2>3. PackagesType'
    BY <1>21 DEF Updates!InstallByHand, Updates!ui, PackagesType, UpdateTypes, StepType
  <2>4. StepType'
    BY <1>21 DEF Updates!InstallByHand, Updates!ui, StepType, UpdateTypes, Updates!Steps,
       Updates!Starting, Updates!Updating, Updates!Versions, DiskType, Sourced
  <2>5. HeldType'
    BY <1>21 DEF Updates!InstallByHand, Updates!ui, HeldType, UpdateTypes, DiskType,
       PackagesType, Updates!Versions
  <2>6. SaysType'
    BY <1>21 DEF Updates!InstallByHand, Updates!ui, SaysType, UpdateTypes, Updates!Statuses,
       Updates!Status, StepType, Updates!Versions
  <2> QED
    BY <2>1, <2>2, <2>3, <2>4, <2>5, <2>6 DEF UpdateTypes
<1>22. ASSUME Updates!Damage PROVE UpdateTypes'
  <2>1. PlanType'
    BY <1>22 DEF Updates!Damage, Updates!ui, PlanType, Updates!Budgets, UpdateTypes
  <2>2. DiskType'
    BY <1>22 DEF Updates!Damage, Updates!ui, DiskType, UpdateTypes, Updates!Versions, HeldType,
       Sourced, Reading, StepType, PackagesType
  <2>3. PackagesType'
    BY <1>22 DEF Updates!Damage, Updates!ui, PackagesType, UpdateTypes, StepType
  <2>4. StepType'
    BY <1>22 DEF Updates!Damage, Updates!ui, StepType, UpdateTypes, Updates!Steps,
       Updates!Starting, Updates!Updating, Updates!Versions, DiskType, Sourced
  <2>5. HeldType'
    BY <1>22 DEF Updates!Damage, Updates!ui, HeldType, UpdateTypes, DiskType, PackagesType,
       Updates!Versions
  <2>6. SaysType'
    BY <1>22 DEF Updates!Damage, Updates!ui, SaysType, UpdateTypes, Updates!Statuses,
       Updates!Status, StepType, Updates!Versions
  <2> QED
    BY <2>1, <2>2, <2>3, <2>4, <2>5, <2>6 DEF UpdateTypes
<1> QED
  BY <1>0, <1>1, <1>2, <1>3, <1>4, <1>5, <1>6, <1>7, <1>8, <1>9, <1>10, <1>11, <1>12, <1>13,
     <1>14, <1>15, <1>16, <1>17, <1>18, <1>19, <1>20, <1>21, <1>22 DEF Updates!Next,
     Updates!Start, Updates!Thread

(* Versions and attempts are numbers.                                      *)
LEMMA UpdateNumbers ==
  ASSUME UpdateTypes
  PROVE  /\ latest \in Nat /\ latest >= 1 /\ (installed \in Updates!Versions => installed \in Nat)
         /\ staged # NoFile => staged.version \in Nat /\ staged.attempts \in Nat
         /\ \A q \in Programs : /\ wanted[q] \in Nat
                                /\ held[q] # NoFile => held[q].version \in Nat /\ held[q].attempts \in Nat
<1>1. Releases \in Nat
  BY UpdatesAssumption DEF Updates!UpdaterAssumption
<1>2. \A n \in Updates!Versions : n \in Nat /\ n >= 1
  BY <1>1 DEF Updates!Versions
<1>3. latest \in Nat /\ latest >= 1 /\ (installed \in Updates!Versions => installed \in Nat)
  BY <1>2 DEF UpdateTypes, DiskType
<1>4. staged # NoFile => staged.version \in Nat /\ staged.attempts \in Nat
  <2>1. staged # NoFile => staged \in States
    BY DEF UpdateTypes, DiskType, States
  <2> QED
    BY <1>2, <2>1 DEF States
<1>5. ASSUME NEW q \in Programs
      PROVE  /\ wanted[q] \in Nat
             /\ held[q] # NoFile => held[q].version \in Nat /\ held[q].attempts \in Nat
  BY <1>2 DEF UpdateTypes, StepType, HeldType
<1> QED
  BY <1>3, <1>4, <1>5


(* The invariants once more: what they say of the disk, and of one program.*)
SourcedDisk == installed \in 1 .. latest /\ (staged # NoFile => staged.version <= latest)
SourcedAt(q) ==
  /\ runs[q] \in 1 .. latest /\ wanted[q] <= latest
  /\ held[q] # NoFile => held[q].version <= latest
  /\ at[q] \in Reading => held[q] # NoFile /\ held[q].attempts < Updates!MAX_APPLY_ATTEMPTS
  /\ at[q] \in {"unmark", "install"} => bytes[q]
ForwardDisk == Unmixed /\ staged # NoFile => installed <= staged.version
ForwardAt(q) ==
  Unmixed =>
    /\ at[q] \in Reading => /\ installed <= held[q].version
                            /\ staged # NoFile => held[q].version <= staged.version
    /\ at[q] \in Known => installed <= wanted[q]


(* Every action keeps each of them.                                        *)
LEMMA SourcedKept == UpdateTypes /\ UpdateTypes' /\ Sourced /\ [Updates!Next]_Updates!vars => Sourced'
<1> SUFFICES ASSUME UpdateTypes, UpdateTypes', Sourced, [Updates!Next]_Updates!vars PROVE Sourced'
  OBVIOUS
<1>0. CASE UNCHANGED Updates!vars
  BY <1>0 DEF Updates!vars, SourcedDisk, Sourced, Reading, UpdateTypes, PlanType, DiskType,
     PackagesType, StepType, HeldType, Updates!Versions, SourcedAt
<1>1. ASSUME NEW p \in Programs, Updates!Launch(p) PROVE Sourced'
  <2>1. SourcedDisk'
    BY <1>1 DEF Updates!Launch, Updates!Goes, Updates!disk, SourcedDisk, Sourced, Reading,
       UpdateTypes, PlanType, DiskType, PackagesType, StepType, HeldType, Updates!Versions
  <2>2. ASSUME NEW q \in Programs PROVE SourcedAt(q)'
    BY <1>1 DEF Updates!Launch, Updates!Goes, Updates!disk, SourcedAt, Sourced, Reading,
       UpdateTypes, PlanType, DiskType, PackagesType, StepType, HeldType, Updates!Versions
  <2> QED
    BY <2>1, <2>2 DEF Sourced, SourcedDisk, SourcedAt
<1>2. ASSUME NEW p \in Programs, Updates!ReadPending(p) PROVE Sourced'
  <2>1. SourcedDisk'
    BY <1>2 DEF Updates!ReadPending, Updates!Goes, Updates!Holds, Updates!disk, Updates!ui,
       SourcedDisk, Sourced, Reading, UpdateTypes, PlanType, DiskType, PackagesType, StepType,
       HeldType, Updates!Versions
  <2>2. ASSUME NEW q \in Programs PROVE SourcedAt(q)'
    <3>1. CASE q # p
      BY <1>2, <3>1 DEF Updates!ReadPending, Updates!Goes, Updates!Holds, SourcedAt, Sourced,
         Reading, UpdateTypes, StepType, HeldType
    <3>2. CASE q = p
      <4>1. held'[p] = staged
        BY <1>2 DEF Updates!ReadPending, Updates!Holds, UpdateTypes, HeldType
      <4>2. at'[p] = IF staged = NoFile THEN "check" ELSE IF staged.attempts >= Updates!MAX_APPLY_ATTEMPTS THEN "clear" ELSE "package"
        BY <1>2 DEF Updates!ReadPending, Updates!Goes, UpdateTypes, StepType
      <4>3. staged # NoFile => staged.attempts \in Nat
        BY UpdateNumbers
      <4> QED
        BY <1>2, <3>2, <4>1, <4>2, <4>3 DEF Updates!ReadPending, Updates!disk, SourcedAt,
           Sourced, Reading
    <3> QED
      BY <3>1, <3>2
  <2> QED
    BY <2>1, <2>2 DEF Sourced, SourcedDisk, SourcedAt
<1>3. ASSUME NEW p \in Programs, Updates!ReadPackage(p) PROVE Sourced'
  <2>1. SourcedDisk'
    BY <1>3 DEF Updates!ReadPackage, Updates!Goes, Updates!disk, Updates!ui, SourcedDisk,
       Sourced, Reading, UpdateTypes, PlanType, DiskType, PackagesType, StepType, HeldType,
       Updates!Versions
  <2>2. ASSUME NEW q \in Programs PROVE SourcedAt(q)'
    <3>1. UNCHANGED <<latest, runs, held, wanted>> /\ at[p] = "package"
      BY <1>3 DEF Updates!ReadPackage, Updates!disk
    <3>2. CASE q # p
      <4>1. at'[q] = at[q] /\ bytes'[q] = bytes[q]
        BY <1>3, <3>2 DEF Updates!ReadPackage, Updates!Goes, UpdateTypes, StepType, HeldType
      <4> QED
        BY <3>1, <4>1 DEF Sourced, SourcedAt
    <3>3. CASE q = p
      <4>1. at'[p] \in {"unmark", "install"} => bytes'[p]
        BY <1>3 DEF Updates!ReadPackage, Updates!Goes, UpdateTypes, StepType, HeldType
      <4>2. held[p] # NoFile /\ held[p].attempts < Updates!MAX_APPLY_ATTEMPTS
        BY <3>1 DEF Sourced, Reading
      <4> QED
        BY <3>1, <3>3, <4>1, <4>2 DEF Sourced, SourcedAt
    <3> QED
      BY <3>2, <3>3
  <2> QED
    BY <2>1, <2>2 DEF Sourced, SourcedDisk, SourcedAt
<1>4. ASSUME NEW p \in Programs, Updates!Unmark(p) PROVE Sourced'
  <2>1. SourcedDisk'
    BY <1>4 DEF Updates!Unmark, Updates!Goes, Updates!ui, SourcedDisk, Sourced, Reading,
       UpdateTypes, PlanType, DiskType, PackagesType, StepType, HeldType, Updates!Versions
  <2>2. ASSUME NEW q \in Programs PROVE SourcedAt(q)'
    BY <1>4 DEF Updates!Unmark, Updates!Goes, Updates!ui, SourcedAt, Sourced, Reading,
       UpdateTypes, PlanType, DiskType, PackagesType, StepType, HeldType, Updates!Versions
  <2> QED
    BY <2>1, <2>2 DEF Sourced, SourcedDisk, SourcedAt
<1>5. ASSUME NEW p \in Programs, Updates!Install(p) PROVE Sourced'
  <2>1. SourcedDisk'
    BY <1>5, UpdateNumbers DEF Updates!Install, Sourced, Reading, UpdateTypes,
       HeldType, SourcedDisk, Updates!Versions
  <2>2. ASSUME NEW q \in Programs PROVE SourcedAt(q)'
    BY <1>5 DEF Updates!Install, Updates!Goes, Updates!ui, SourcedAt, Sourced, Reading,
       UpdateTypes, PlanType, DiskType, PackagesType, StepType, HeldType, Updates!Versions
  <2> QED
    BY <2>1, <2>2 DEF Sourced, SourcedDisk, SourcedAt
<1>6. ASSUME NEW p \in Programs, Updates!InstallFails(p) PROVE Sourced'
  <2>1. SourcedDisk'
    BY <1>6 DEF Updates!InstallFails, Updates!Goes, Updates!disk, Updates!ui, SourcedDisk,
       Sourced, Reading, UpdateTypes, PlanType, DiskType, PackagesType, StepType, HeldType,
       Updates!Versions
  <2>2. ASSUME NEW q \in Programs PROVE SourcedAt(q)'
    BY <1>6 DEF Updates!InstallFails, Updates!Goes, Updates!disk, Updates!ui, SourcedAt,
       Sourced, Reading, UpdateTypes, PlanType, DiskType, PackagesType, StepType, HeldType,
       Updates!Versions
  <2> QED
    BY <2>1, <2>2 DEF Sourced, SourcedDisk, SourcedAt
<1>7. ASSUME NEW p \in Programs, Updates!CountAttempt(p) PROVE Sourced'
  <2>1. SourcedDisk'
    BY <1>7 DEF Updates!CountAttempt, Updates!Goes, Updates!Pending, Updates!ui, SourcedDisk,
       Sourced, Reading, UpdateTypes, PlanType, DiskType, PackagesType, StepType, HeldType,
       Updates!Versions
  <2>2. ASSUME NEW q \in Programs PROVE SourcedAt(q)'
    BY <1>7 DEF Updates!CountAttempt, Updates!Goes, Updates!Pending, Updates!ui, SourcedAt,
       Sourced, Reading, UpdateTypes, PlanType, DiskType, PackagesType, StepType, HeldType,
       Updates!Versions
  <2> QED
    BY <2>1, <2>2 DEF Sourced, SourcedDisk, SourcedAt
<1>8. ASSUME NEW p \in Programs, Updates!ClearReads(p) PROVE Sourced'
  <2>1. SourcedDisk'
    BY <1>8 DEF Updates!ClearReads, Updates!Goes, Updates!Holds, Updates!disk, Updates!ui,
       SourcedDisk, Sourced, Reading, UpdateTypes, PlanType, DiskType, PackagesType, StepType,
       HeldType, Updates!Versions
  <2>2. ASSUME NEW q \in Programs PROVE SourcedAt(q)'
    BY <1>8 DEF Updates!ClearReads, Updates!Goes, Updates!Holds, Updates!disk, Updates!ui,
       SourcedAt, Sourced, Reading, UpdateTypes, PlanType, DiskType, PackagesType, StepType,
       HeldType, Updates!Versions
  <2> QED
    BY <2>1, <2>2 DEF Sourced, SourcedDisk, SourcedAt
<1>9. ASSUME NEW p \in Programs, Updates!ClearState(p) PROVE Sourced'
  <2>1. SourcedDisk'
    BY <1>9 DEF Updates!ClearState, Updates!Goes, Updates!ui, SourcedDisk, Sourced, Reading,
       UpdateTypes, PlanType, DiskType, PackagesType, StepType, HeldType, Updates!Versions
  <2>2. ASSUME NEW q \in Programs PROVE SourcedAt(q)'
    BY <1>9 DEF Updates!ClearState, Updates!Goes, Updates!ui, SourcedAt, Sourced, Reading,
       UpdateTypes, PlanType, DiskType, PackagesType, StepType, HeldType, Updates!Versions
  <2> QED
    BY <2>1, <2>2 DEF Sourced, SourcedDisk, SourcedAt
<1>10. ASSUME NEW p \in Programs, Updates!ClearPackage(p) PROVE Sourced'
  <2>1. SourcedDisk'
    BY <1>10 DEF Updates!ClearPackage, Updates!Goes, Updates!Without, Updates!ui, SourcedDisk,
       Sourced, Reading, UpdateTypes, PlanType, DiskType, PackagesType, StepType, HeldType,
       Updates!Versions
  <2>2. ASSUME NEW q \in Programs PROVE SourcedAt(q)'
    BY <1>10 DEF Updates!ClearPackage, Updates!Goes, Updates!Without, Updates!ui, SourcedAt,
       Sourced, Reading, UpdateTypes, PlanType, DiskType, PackagesType, StepType, HeldType,
       Updates!Versions
  <2> QED
    BY <2>1, <2>2 DEF Sourced, SourcedDisk, SourcedAt
<1>11. ASSUME NEW p \in Programs, Updates!Check(p) PROVE Sourced'
  <2>1. SourcedDisk'
    BY <1>11 DEF Updates!Check, Updates!Goes, Updates!Ends, Updates!Sends, Updates!Status,
       Updates!disk, Updates!ui, SourcedDisk, Sourced, Reading, UpdateTypes, PlanType, DiskType,
       PackagesType, StepType, HeldType, Updates!Versions
  <2>2. ASSUME NEW q \in Programs PROVE SourcedAt(q)'
    BY UpdateNumbers, <1>11 DEF Updates!Check, Updates!Ends, Updates!Goes,
       UpdateTypes, StepType, SourcedAt, Sourced, Reading
  <2> QED
    BY <2>1, <2>2 DEF Sourced, SourcedDisk, SourcedAt
<1>12. ASSUME NEW p \in Programs, Updates!HasStaged(p) PROVE Sourced'
  <2>1. SourcedDisk'
    BY <1>12 DEF Updates!HasStaged, Updates!Goes, Updates!Ends, Updates!Sends, Updates!Status,
       Updates!disk, Updates!ui, SourcedDisk, Sourced, Reading, UpdateTypes, PlanType, DiskType,
       PackagesType, StepType, HeldType, Updates!Versions
  <2>2. ASSUME NEW q \in Programs PROVE SourcedAt(q)'
    <3>1. UNCHANGED <<latest, runs, held, bytes, wanted>>
      BY <1>12 DEF Updates!HasStaged, Updates!disk
    <3>2. at'[q] = at[q] \/ at'[q] \in {"done", "download"}
      BY <1>12 DEF Updates!HasStaged, Updates!Goes, Updates!Ends, UpdateTypes, StepType
    <3> QED
      BY <3>1, <3>2 DEF Sourced, SourcedAt, Reading
  <2> QED
    BY <2>1, <2>2 DEF Sourced, SourcedDisk, SourcedAt
<1>13. ASSUME NEW p \in Programs, Updates!Download(p) PROVE Sourced'
  <2>1. SourcedDisk'
    BY <1>13 DEF Updates!Download, Updates!Goes, Updates!Holds, Updates!disk, Updates!ui,
       SourcedDisk, Sourced, Reading, UpdateTypes, PlanType, DiskType, PackagesType, StepType,
       HeldType, Updates!Versions
  <2>2. ASSUME NEW q \in Programs PROVE SourcedAt(q)'
    BY <1>13 DEF Updates!Download, Updates!Goes, Updates!Holds, Updates!disk, Updates!ui,
       SourcedAt, Sourced, Reading, UpdateTypes, PlanType, DiskType, PackagesType, StepType,
       HeldType, Updates!Versions
  <2> QED
    BY <2>1, <2>2 DEF Sourced, SourcedDisk, SourcedAt
<1>14. ASSUME NEW p \in Programs, Updates!StorePackage(p) PROVE Sourced'
  <2>1. SourcedDisk'
    BY <1>14 DEF Updates!StorePackage, Updates!Goes, Updates!With, Updates!Without, Updates!ui,
       SourcedDisk, Sourced, Reading, UpdateTypes, PlanType, DiskType, PackagesType, StepType,
       HeldType, Updates!Versions
  <2>2. ASSUME NEW q \in Programs PROVE SourcedAt(q)'
    BY <1>14 DEF Updates!StorePackage, Updates!Goes, Updates!With, Updates!Without, Updates!ui,
       SourcedAt, Sourced, Reading, UpdateTypes, PlanType, DiskType, PackagesType, StepType,
       HeldType, Updates!Versions
  <2> QED
    BY <2>1, <2>2 DEF Sourced, SourcedDisk, SourcedAt
<1>15. ASSUME NEW p \in Programs, Updates!Mark(p) PROVE Sourced'
  <2>1. SourcedDisk'
    BY <1>15 DEF Updates!Mark, Updates!Pending, Sourced, SourcedDisk, SourcedAt
  <2>2. ASSUME NEW q \in Programs PROVE SourcedAt(q)'
    BY <1>15 DEF Updates!Mark, Updates!Goes, Updates!Pending, Updates!ui, SourcedAt, Sourced,
       Reading, UpdateTypes, PlanType, DiskType, PackagesType, StepType, HeldType,
       Updates!Versions
  <2> QED
    BY <2>1, <2>2 DEF Sourced, SourcedDisk, SourcedAt
<1>16. ASSUME NEW p \in Programs, Updates!Supersede(p) PROVE Sourced'
  <2>1. SourcedDisk'
    BY <1>16 DEF Updates!Supersede, Updates!Goes, Updates!Ends, Updates!Sends, Updates!Status,
       Updates!Without, Updates!ui, SourcedDisk, Sourced, Reading, UpdateTypes, PlanType,
       DiskType, PackagesType, StepType, HeldType, Updates!Versions
  <2>2. ASSUME NEW q \in Programs PROVE SourcedAt(q)'
    BY <1>16 DEF Updates!Supersede, Updates!Goes, Updates!Ends, Updates!Sends, Updates!Status,
       Updates!Without, Updates!ui, SourcedAt, Sourced, Reading, UpdateTypes, PlanType,
       DiskType, PackagesType, StepType, HeldType, Updates!Versions
  <2> QED
    BY <2>1, <2>2 DEF Sourced, SourcedDisk, SourcedAt
<1>17. ASSUME NEW p \in Programs, Updates!StepFails(p) PROVE Sourced'
  <2>1. SourcedDisk'
    BY <1>17 DEF Updates!StepFails, Updates!Goes, Updates!Ends, Updates!Sends, Updates!Status,
       Updates!disk, Updates!ui, Updates!Starting, Updates!Updating, SourcedDisk, Sourced,
       Reading, UpdateTypes, PlanType, DiskType, PackagesType, StepType, HeldType,
       Updates!Versions
  <2>2. ASSUME NEW q \in Programs PROVE SourcedAt(q)'
    <3>1. UNCHANGED <<latest, runs, held, bytes, wanted>>
      BY <1>17 DEF Updates!StepFails, Updates!disk
    <3>2. at'[q] = at[q] \/ at'[q] \in {"check", "done"}
      BY <1>17 DEF Updates!StepFails, Updates!Goes, Updates!Ends, UpdateTypes, StepType
    <3> QED
      BY <3>1, <3>2 DEF Sourced, SourcedAt, Reading
  <2> QED
    BY <2>1, <2>2 DEF Sourced, SourcedDisk, SourcedAt
<1>18. ASSUME NEW p \in Programs, Updates!Poll(p) PROVE Sourced'
  <2>1. SourcedDisk'
    BY <1>18 DEF Updates!Poll, Updates!disk, SourcedDisk, Sourced, Reading, UpdateTypes,
       PlanType, DiskType, PackagesType, StepType, HeldType, Updates!Versions
  <2>2. ASSUME NEW q \in Programs PROVE SourcedAt(q)'
    BY <1>18 DEF Updates!Poll, Updates!disk, SourcedAt, Sourced, Reading, UpdateTypes, PlanType,
       DiskType, PackagesType, StepType, HeldType, Updates!Versions
  <2> QED
    BY <2>1, <2>2 DEF Sourced, SourcedDisk, SourcedAt
<1>19. ASSUME NEW p \in Programs, Updates!Quit(p) PROVE Sourced'
  <2>1. SourcedDisk'
    BY <1>19 DEF Updates!Quit, Updates!Goes, Updates!disk, SourcedDisk, Sourced, Reading,
       UpdateTypes, PlanType, DiskType, PackagesType, StepType, HeldType, Updates!Versions
  <2>2. ASSUME NEW q \in Programs PROVE SourcedAt(q)'
    BY <1>19 DEF Updates!Quit, Updates!Goes, Updates!disk, SourcedAt, Sourced, Reading,
       UpdateTypes, PlanType, DiskType, PackagesType, StepType, HeldType, Updates!Versions
  <2> QED
    BY <2>1, <2>2 DEF Sourced, SourcedDisk, SourcedAt
<1>20. ASSUME Updates!Release PROVE Sourced'
  <2>1. SourcedDisk'
    BY UpdateNumbers, <1>20 DEF Updates!Release, Updates!disk, SourcedDisk,
       Sourced
  <2>2. ASSUME NEW q \in Programs PROVE SourcedAt(q)'
    BY UpdateNumbers, <1>20 DEF Updates!Release, SourcedAt, Sourced
  <2> QED
    BY <2>1, <2>2 DEF Sourced, SourcedDisk, SourcedAt
<1>21. ASSUME Updates!InstallByHand PROVE Sourced'
  <2>1. SourcedDisk'
    <3>0. latest \in Nat /\ latest >= 1
      BY UpdateNumbers
    <3>1. staged' = staged /\ installed' = latest /\ latest' = latest
      BY <1>21 DEF Updates!InstallByHand
    <3> QED
      BY <3>0, <3>1 DEF SourcedDisk, Sourced
  <2>2. ASSUME NEW q \in Programs PROVE SourcedAt(q)'
    BY <1>21 DEF Updates!InstallByHand, Updates!ui, SourcedAt, Sourced, Reading, UpdateTypes,
       PlanType, DiskType, PackagesType, StepType, HeldType, Updates!Versions
  <2> QED
    BY <2>1, <2>2 DEF Sourced, SourcedDisk, SourcedAt
<1>22. ASSUME Updates!Damage PROVE Sourced'
  <2>1. SourcedDisk'
    BY <1>22 DEF Updates!Damage, Updates!ui, SourcedDisk, Sourced, Reading, UpdateTypes,
       PlanType, DiskType, PackagesType, StepType, HeldType, Updates!Versions
  <2>2. ASSUME NEW q \in Programs PROVE SourcedAt(q)'
    BY <1>22 DEF Updates!Damage, Updates!ui, SourcedAt, Sourced, Reading, UpdateTypes, PlanType,
       DiskType, PackagesType, StepType, HeldType, Updates!Versions
  <2> QED
    BY <2>1, <2>2 DEF Sourced, SourcedDisk, SourcedAt
<1> QED
  BY <1>0, <1>1, <1>2, <1>3, <1>4, <1>5, <1>6, <1>7, <1>8, <1>9, <1>10, <1>11, <1>12, <1>13,
     <1>14, <1>15, <1>16, <1>17, <1>18, <1>19, <1>20, <1>21, <1>22 DEF Updates!Next,
     Updates!Start, Updates!Thread

LEMMA SingleKept == UpdateTypes /\ Single /\ [Updates!Next]_Updates!vars => Single'
<1> SUFFICES ASSUME UpdateTypes, Single, [Updates!Next]_Updates!vars PROVE Single'
  OBVIOUS
<1>0. CASE UNCHANGED Updates!vars
  BY <1>0 DEF Updates!vars, Single, UpdateTypes, StepType, DiskType
<1>1. ASSUME NEW p \in Programs, Updates!Launch(p) PROVE Single'
  BY <1>1 DEF Updates!Launch, Updates!Goes, Updates!disk, Single, UpdateTypes, StepType,
     DiskType
<1>2. ASSUME NEW p \in Programs, Updates!ReadPending(p) PROVE Single'
  BY <1>2 DEF Updates!ReadPending, Updates!Goes, Updates!Holds, Updates!disk, Updates!ui,
     Single, UpdateTypes, StepType, DiskType
<1>3. ASSUME NEW p \in Programs, Updates!ReadPackage(p) PROVE Single'
  BY <1>3 DEF Updates!ReadPackage, Updates!Goes, Updates!disk, Updates!ui, Single, UpdateTypes,
     StepType, DiskType
<1>4. ASSUME NEW p \in Programs, Updates!Unmark(p) PROVE Single'
  BY <1>4 DEF Updates!Unmark, Updates!Goes, Updates!ui, Single, UpdateTypes, StepType, DiskType
<1>5. ASSUME NEW p \in Programs, Updates!Install(p) PROVE Single'
  BY <1>5 DEF Updates!Install, Updates!Goes, Updates!ui, Single, UpdateTypes, StepType, DiskType
<1>6. ASSUME NEW p \in Programs, Updates!InstallFails(p) PROVE Single'
  BY <1>6 DEF Updates!InstallFails, Updates!Goes, Updates!disk, Updates!ui, Single, UpdateTypes,
     StepType, DiskType
<1>7. ASSUME NEW p \in Programs, Updates!CountAttempt(p) PROVE Single'
  BY <1>7 DEF Updates!CountAttempt, Updates!Goes, Updates!Pending, Updates!ui, Single,
     UpdateTypes, StepType, DiskType
<1>8. ASSUME NEW p \in Programs, Updates!ClearReads(p) PROVE Single'
  BY <1>8 DEF Updates!ClearReads, Updates!Goes, Updates!Holds, Updates!disk, Updates!ui, Single,
     UpdateTypes, StepType, DiskType
<1>9. ASSUME NEW p \in Programs, Updates!ClearState(p) PROVE Single'
  BY <1>9 DEF Updates!ClearState, Updates!Goes, Updates!ui, Single, UpdateTypes, StepType,
     DiskType
<1>10. ASSUME NEW p \in Programs, Updates!ClearPackage(p) PROVE Single'
  BY <1>10 DEF Updates!ClearPackage, Updates!Goes, Updates!Without, Updates!ui, Single,
     UpdateTypes, StepType, DiskType
<1>11. ASSUME NEW p \in Programs, Updates!Check(p) PROVE Single'
  BY <1>11 DEF Updates!Check, Updates!Goes, Updates!Ends, Updates!Sends, Updates!Status,
     Updates!disk, Updates!ui, Single, UpdateTypes, StepType, DiskType
<1>12. ASSUME NEW p \in Programs, Updates!HasStaged(p) PROVE Single'
  BY <1>12 DEF Updates!HasStaged, Updates!Goes, Updates!Ends, Updates!Sends, Updates!Status,
     Updates!disk, Updates!ui, Single, UpdateTypes, StepType, DiskType
<1>13. ASSUME NEW p \in Programs, Updates!Download(p) PROVE Single'
  BY <1>13 DEF Updates!Download, Updates!Goes, Updates!Holds, Updates!disk, Updates!ui, Single,
     UpdateTypes, StepType, DiskType
<1>14. ASSUME NEW p \in Programs, Updates!StorePackage(p) PROVE Single'
  BY <1>14 DEF Updates!StorePackage, Updates!Goes, Updates!With, Updates!Without, Updates!ui,
     Single, UpdateTypes, StepType, DiskType
<1>15. ASSUME NEW p \in Programs, Updates!Mark(p) PROVE Single'
  BY <1>15 DEF Updates!Mark, Updates!Goes, Updates!Pending, Updates!ui, Single, UpdateTypes,
     StepType, DiskType
<1>16. ASSUME NEW p \in Programs, Updates!Supersede(p) PROVE Single'
  BY <1>16 DEF Updates!Supersede, Updates!Goes, Updates!Ends, Updates!Sends, Updates!Status,
     Updates!Without, Updates!ui, Single, UpdateTypes, StepType, DiskType
<1>17. ASSUME NEW p \in Programs, Updates!StepFails(p) PROVE Single'
  BY <1>17 DEF Updates!StepFails, Updates!Goes, Updates!Ends, Updates!Sends, Updates!Status,
     Updates!disk, Updates!ui, Updates!Starting, Updates!Updating, Single, UpdateTypes,
     StepType, DiskType
<1>18. ASSUME NEW p \in Programs, Updates!Poll(p) PROVE Single'
  BY <1>18 DEF Updates!Poll, Updates!disk, Single, UpdateTypes, StepType, DiskType
<1>19. ASSUME NEW p \in Programs, Updates!Quit(p) PROVE Single'
  BY <1>19 DEF Updates!Quit, Updates!Goes, Updates!disk, Single, UpdateTypes, StepType, DiskType
<1>20. ASSUME Updates!Release PROVE Single'
  BY <1>20 DEF Updates!Release, Updates!disk, Updates!ui, Single, UpdateTypes, StepType,
     DiskType
<1>21. ASSUME Updates!InstallByHand PROVE Single'
  BY <1>21 DEF Updates!InstallByHand, Updates!ui, Single, UpdateTypes, StepType, DiskType
<1>22. ASSUME Updates!Damage PROVE Single'
  BY <1>22 DEF Updates!Damage, Updates!ui, Single, UpdateTypes, StepType, DiskType
<1> QED
  BY <1>0, <1>1, <1>2, <1>3, <1>4, <1>5, <1>6, <1>7, <1>8, <1>9, <1>10, <1>11, <1>12, <1>13,
     <1>14, <1>15, <1>16, <1>17, <1>18, <1>19, <1>20, <1>21, <1>22 DEF Updates!Next,
     Updates!Start, Updates!Thread

LEMMA ForwardKept ==
  UpdateTypes /\ UpdateTypes' /\ Sourced /\ Single /\ Forward /\ [Updates!Next]_Updates!vars => Forward'
<1> SUFFICES ASSUME UpdateTypes, UpdateTypes', Sourced, Single, Forward, [Updates!Next]_Updates!vars
             PROVE Forward'
  OBVIOUS
<1>0. CASE UNCHANGED Updates!vars
  BY <1>0 DEF Updates!vars, ForwardDisk, Forward, Unmixed, Known, Single, Sourced, Reading,
     UpdateTypes, PlanType, DiskType, PackagesType, StepType, HeldType, Updates!Versions,
     ForwardAt
<1>1. ASSUME NEW p \in Programs, Updates!Launch(p) PROVE Forward'
  <2>1. ForwardDisk'
    BY <1>1 DEF Updates!Launch, Updates!Goes, Updates!disk, ForwardDisk, Forward, Unmixed,
       Known, Single, Sourced, Reading, UpdateTypes, PlanType, DiskType, PackagesType, StepType,
       HeldType, Updates!Versions
  <2>2. ASSUME NEW q \in Programs PROVE ForwardAt(q)'
    BY <1>1 DEF Updates!Launch, Updates!Goes, Updates!disk, ForwardAt, Forward, Unmixed, Known,
       Single, Sourced, Reading, UpdateTypes, PlanType, DiskType, PackagesType, StepType,
       HeldType, Updates!Versions
  <2> QED
    BY <2>1, <2>2 DEF Forward, ForwardDisk, ForwardAt, Unmixed
<1>2. ASSUME NEW p \in Programs, Updates!ReadPending(p) PROVE Forward'
  <2>1. ForwardDisk'
    BY <1>2 DEF Updates!ReadPending, Updates!Goes, Updates!Holds, Updates!disk, Updates!ui,
       ForwardDisk, Forward, Unmixed, Known, Single, Sourced, Reading, UpdateTypes, PlanType,
       DiskType, PackagesType, StepType, HeldType, Updates!Versions
  <2>2. ASSUME NEW q \in Programs PROVE ForwardAt(q)'
    <3>1. held' = [held EXCEPT ![p] = staged] /\ UNCHANGED <<staged, installed, odd, wanted>>
      BY <1>2 DEF Updates!ReadPending, Updates!Holds, Updates!disk
    <3>2. at'[q] = at[q] \/ (q = p /\ at'[q] \in {"check", "clear"}) \/ (q = p /\ staged # NoFile /\ at'[q] = "package")
      BY <1>2 DEF Updates!ReadPending, Updates!Goes, UpdateTypes, StepType
    <3>3. held'[q] = IF q = p THEN staged ELSE held[q]
      BY <3>1 DEF UpdateTypes, HeldType
    <3>4. staged # NoFile => staged.version <= staged.version
      BY UpdateNumbers
    <3>5. at[p] = "read"
      BY <1>2 DEF Updates!ReadPending
    <3> QED
      BY <3>1, <3>2, <3>3, <3>4, <3>5 DEF ForwardAt, Forward, Unmixed, Reading, Known
  <2> QED
    BY <2>1, <2>2 DEF Forward, ForwardDisk, ForwardAt, Unmixed
<1>3. ASSUME NEW p \in Programs, Updates!ReadPackage(p) PROVE Forward'
  <2>1. ForwardDisk'
    BY <1>3 DEF Updates!ReadPackage, Updates!Goes, Updates!disk, Updates!ui, ForwardDisk,
       Forward, Unmixed, Known, Single, Sourced, Reading, UpdateTypes, PlanType, DiskType,
       PackagesType, StepType, HeldType, Updates!Versions
  <2>2. ASSUME NEW q \in Programs PROVE ForwardAt(q)'
    <3>1. at'[q] = at[q] \/ (q = p /\ at[q] = "package" /\ at'[q] \in {"check", "clear", "unmark", "install"})
      BY <1>3 DEF Updates!ReadPackage, Updates!Goes, UpdateTypes, StepType
    <3> QED
      BY <1>3, <3>1 DEF Updates!ReadPackage, Updates!disk, ForwardAt, Forward, Unmixed, Reading,
         Known
  <2> QED
    BY <2>1, <2>2 DEF Forward, ForwardDisk, ForwardAt, Unmixed
<1>4. ASSUME NEW p \in Programs, Updates!Unmark(p) PROVE Forward'
  <2>1. ForwardDisk'
    BY <1>4 DEF Updates!Unmark, Updates!Goes, Updates!ui, ForwardDisk, Forward, Unmixed, Known,
       Single, Sourced, Reading, UpdateTypes, PlanType, DiskType, PackagesType, StepType,
       HeldType, Updates!Versions
  <2>2. ASSUME NEW q \in Programs PROVE ForwardAt(q)'
    BY <1>4 DEF Updates!Unmark, Updates!Goes, Updates!ui, ForwardAt, Forward, Unmixed, Known,
       Single, Sourced, Reading, UpdateTypes, PlanType, DiskType, PackagesType, StepType,
       HeldType, Updates!Versions
  <2> QED
    BY <2>1, <2>2 DEF Forward, ForwardDisk, ForwardAt, Unmixed
<1>5. ASSUME NEW p \in Programs, Updates!Install(p) PROVE Forward'
  <2>1. ForwardDisk'
    BY <1>5 DEF Updates!Install, Forward, Reading, Sourced, ForwardDisk, Unmixed
  <2>2. ASSUME NEW q \in Programs PROVE ForwardAt(q)'
    <3>1. Unmixed' => at'[q] \in {"off", "clear"}
      BY <1>5 DEF Updates!Install, Updates!Goes, Unmixed, Single, UpdateTypes, StepType
    <3> QED
      BY <3>1 DEF ForwardAt, Reading, Known
  <2> QED
    BY <2>1, <2>2 DEF Forward, ForwardDisk, ForwardAt, Unmixed
<1>6. ASSUME NEW p \in Programs, Updates!InstallFails(p) PROVE Forward'
  <2>1. ForwardDisk'
    BY <1>6 DEF Updates!InstallFails, Updates!Goes, Updates!disk, Updates!ui, ForwardDisk,
       Forward, Unmixed, Known, Single, Sourced, Reading, UpdateTypes, PlanType, DiskType,
       PackagesType, StepType, HeldType, Updates!Versions
  <2>2. ASSUME NEW q \in Programs PROVE ForwardAt(q)'
    BY <1>6 DEF Updates!InstallFails, Updates!Goes, Updates!disk, Updates!ui, ForwardAt,
       Forward, Unmixed, Known, Single, Sourced, Reading, UpdateTypes, PlanType, DiskType,
       PackagesType, StepType, HeldType, Updates!Versions
  <2> QED
    BY <2>1, <2>2 DEF Forward, ForwardDisk, ForwardAt, Unmixed
<1>7. ASSUME NEW p \in Programs, Updates!CountAttempt(p) PROVE Forward'
  <2>1. ForwardDisk'
    BY <1>7 DEF Updates!CountAttempt, Updates!Goes, Updates!Pending, Updates!ui, ForwardDisk,
       Forward, Unmixed, Known, Single, Sourced, Reading, UpdateTypes, PlanType, DiskType,
       PackagesType, StepType, HeldType, Updates!Versions
  <2>2. ASSUME NEW q \in Programs PROVE ForwardAt(q)'
    BY <1>7 DEF Updates!CountAttempt, Updates!Goes, Updates!Pending, Updates!ui, ForwardAt,
       Forward, Unmixed, Known, Single, Sourced, Reading, UpdateTypes, PlanType, DiskType,
       PackagesType, StepType, HeldType, Updates!Versions
  <2> QED
    BY <2>1, <2>2 DEF Forward, ForwardDisk, ForwardAt, Unmixed
<1>8. ASSUME NEW p \in Programs, Updates!ClearReads(p) PROVE Forward'
  <2>1. ForwardDisk'
    BY <1>8 DEF Updates!ClearReads, Updates!Goes, Updates!Holds, Updates!disk, Updates!ui,
       ForwardDisk, Forward, Unmixed, Known, Single, Sourced, Reading, UpdateTypes, PlanType,
       DiskType, PackagesType, StepType, HeldType, Updates!Versions
  <2>2. ASSUME NEW q \in Programs PROVE ForwardAt(q)'
    BY <1>8 DEF Updates!ClearReads, Updates!Goes, Updates!Holds, Updates!disk, Updates!ui,
       ForwardAt, Forward, Unmixed, Known, Single, Sourced, Reading, UpdateTypes, PlanType,
       DiskType, PackagesType, StepType, HeldType, Updates!Versions
  <2> QED
    BY <2>1, <2>2 DEF Forward, ForwardDisk, ForwardAt, Unmixed
<1>9. ASSUME NEW p \in Programs, Updates!ClearState(p) PROVE Forward'
  <2>1. ForwardDisk'
    BY <1>9 DEF Updates!ClearState, Updates!Goes, Updates!ui, ForwardDisk, Forward, Unmixed,
       Known, Single, Sourced, Reading, UpdateTypes, PlanType, DiskType, PackagesType, StepType,
       HeldType, Updates!Versions
  <2>2. ASSUME NEW q \in Programs PROVE ForwardAt(q)'
    BY <1>9 DEF Updates!ClearState, Updates!Goes, Updates!ui, ForwardAt, Forward, Unmixed,
       Known, Single, Sourced, Reading, UpdateTypes, PlanType, DiskType, PackagesType, StepType,
       HeldType, Updates!Versions
  <2> QED
    BY <2>1, <2>2 DEF Forward, ForwardDisk, ForwardAt, Unmixed
<1>10. ASSUME NEW p \in Programs, Updates!ClearPackage(p) PROVE Forward'
  <2>1. ForwardDisk'
    BY <1>10 DEF Updates!ClearPackage, Updates!Goes, Updates!Without, Updates!ui, ForwardDisk,
       Forward, Unmixed, Known, Single, Sourced, Reading, UpdateTypes, PlanType, DiskType,
       PackagesType, StepType, HeldType, Updates!Versions
  <2>2. ASSUME NEW q \in Programs PROVE ForwardAt(q)'
    BY <1>10 DEF Updates!ClearPackage, Updates!Goes, Updates!Without, Updates!ui, ForwardAt,
       Forward, Unmixed, Known, Single, Sourced, Reading, UpdateTypes, PlanType, DiskType,
       PackagesType, StepType, HeldType, Updates!Versions
  <2> QED
    BY <2>1, <2>2 DEF Forward, ForwardDisk, ForwardAt, Unmixed
<1>11. ASSUME NEW p \in Programs, Updates!Check(p) PROVE Forward'
  <2>1. ForwardDisk'
    BY <1>11 DEF Updates!Check, Updates!Goes, Updates!Ends, Updates!Sends, Updates!Status,
       Updates!disk, Updates!ui, ForwardDisk, Forward, Unmixed, Known, Single, Sourced, Reading,
       UpdateTypes, PlanType, DiskType, PackagesType, StepType, HeldType, Updates!Versions
  <2>2. ASSUME NEW q \in Programs PROVE ForwardAt(q)'
    <3>0. installed \in Nat /\ latest \in Nat /\ installed <= latest
      BY UpdateNumbers DEF Sourced
    <3>1. at'[q] = at[q] \/ at'[q] = "done" \/ (q = p /\ at'[q] = "staged?")
      BY <1>11 DEF Updates!Check, Updates!Ends, Updates!Goes, UpdateTypes, StepType
    <3>2. wanted'[q] = IF q = p THEN latest ELSE wanted[q]
      BY <1>11 DEF Updates!Check, UpdateTypes, StepType
    <3>3. at[p] = "check" /\ UNCHANGED <<staged, installed, held, odd>>
      BY <1>11 DEF Updates!Check, Updates!disk
    <3>4. at'[q] \in Reading => at[q] \in Reading
      BY <3>1 DEF Reading
    <3>5. Unmixed => (at'[q] \in Known => installed <= wanted'[q])
      BY <3>0, <3>1, <3>2 DEF Forward, Known
    <3> QED
      BY <3>3, <3>4, <3>5 DEF ForwardAt, Forward, Unmixed
  <2> QED
    BY <2>1, <2>2 DEF Forward, ForwardDisk, ForwardAt, Unmixed
<1>12. ASSUME NEW p \in Programs, Updates!HasStaged(p) PROVE Forward'
  <2>1. ForwardDisk'
    BY <1>12 DEF Updates!HasStaged, Updates!Goes, Updates!Ends, Updates!Sends, Updates!Status,
       Updates!disk, Updates!ui, ForwardDisk, Forward, Unmixed, Known, Single, Sourced, Reading,
       UpdateTypes, PlanType, DiskType, PackagesType, StepType, HeldType, Updates!Versions
  <2>2. ASSUME NEW q \in Programs PROVE ForwardAt(q)'
    <3>1. at'[q] = at[q] \/ at'[q] = "done" \/ (q = p /\ at[p] = "staged?" /\ at'[q] = "download")
      BY <1>12 DEF Updates!HasStaged, Updates!Ends, Updates!Goes, UpdateTypes, StepType
    <3>2. UNCHANGED <<staged, installed, held, odd, wanted>>
      BY <1>12 DEF Updates!HasStaged, Updates!disk
    <3>3. at'[q] \in Reading => at[q] \in Reading
      BY <3>1 DEF Reading
    <3>4. at'[q] \in Known => at[q] \in Known
      BY <3>1 DEF Known
    <3> QED
      BY <3>2, <3>3, <3>4 DEF ForwardAt, Forward, Unmixed
  <2> QED
    BY <2>1, <2>2 DEF Forward, ForwardDisk, ForwardAt, Unmixed
<1>13. ASSUME NEW p \in Programs, Updates!Download(p) PROVE Forward'
  <2>1. ForwardDisk'
    BY <1>13 DEF Updates!Download, Updates!Goes, Updates!Holds, Updates!disk, Updates!ui,
       ForwardDisk, Forward, Unmixed, Known, Single, Sourced, Reading, UpdateTypes, PlanType,
       DiskType, PackagesType, StepType, HeldType, Updates!Versions
  <2>2. ASSUME NEW q \in Programs PROVE ForwardAt(q)'
    BY <1>13 DEF Updates!Download, Updates!Goes, Updates!Holds, Updates!disk, Updates!ui,
       ForwardAt, Forward, Unmixed, Known, Single, Sourced, Reading, UpdateTypes, PlanType,
       DiskType, PackagesType, StepType, HeldType, Updates!Versions
  <2> QED
    BY <2>1, <2>2 DEF Forward, ForwardDisk, ForwardAt, Unmixed
<1>14. ASSUME NEW p \in Programs, Updates!StorePackage(p) PROVE Forward'
  <2>1. ForwardDisk'
    BY <1>14 DEF Updates!StorePackage, Updates!Goes, Updates!With, Updates!Without, Updates!ui,
       ForwardDisk, Forward, Unmixed, Known, Single, Sourced, Reading, UpdateTypes, PlanType,
       DiskType, PackagesType, StepType, HeldType, Updates!Versions
  <2>2. ASSUME NEW q \in Programs PROVE ForwardAt(q)'
    <3>1. UNCHANGED <<installed, staged, held, wanted, odd>>
      BY <1>14 DEF Updates!StorePackage
    <3>2. at'[q] = at[q] \/ (at[q] = "store" /\ at'[q] = "mark")
      BY <1>14 DEF Updates!StorePackage, Updates!Goes, UpdateTypes, StepType
    <3> QED
      BY <3>1, <3>2 DEF Forward, ForwardAt, Unmixed, Known, Reading
  <2> QED
    BY <2>1, <2>2 DEF Forward, ForwardDisk, ForwardAt, Unmixed
<1>15. ASSUME NEW p \in Programs, Updates!Mark(p) PROVE Forward'
  <2>1. ForwardDisk'
    <3>1. staged' = NoFile \/ staged' = [version |-> wanted[p], attempts |-> 0]
      BY <1>15 DEF Updates!Mark, Updates!Pending
    <3>2. Unmixed => installed <= wanted[p]
      BY <1>15 DEF Updates!Mark, Forward, Known
    <3>3. installed' = installed /\ odd' = odd
      BY <1>15 DEF Updates!Mark
    <3>4. CASE staged' = NoFile
      BY <3>4 DEF ForwardDisk
    <3>5. CASE staged' = [version |-> wanted[p], attempts |-> 0]
      BY <3>5, <3>2, <3>3 DEF ForwardDisk, Unmixed
    <3> QED
      BY <3>1, <3>4, <3>5
  <2>2. ASSUME NEW q \in Programs PROVE ForwardAt(q)'
    <3>1. UNCHANGED <<installed, wanted, odd>>
      BY <1>15 DEF Updates!Mark
    <3>2. Unmixed => at'[q] = "off" \/ (at[q] = "mark" /\ at'[q] \in {"mark", "supersede"})
      BY <1>15 DEF Updates!Mark, Updates!Goes, Unmixed, Single, UpdateTypes, StepType
    <3> QED
      BY <3>1, <3>2 DEF Forward, ForwardAt, Unmixed, Known, Reading
  <2> QED
    BY <2>1, <2>2 DEF Forward, ForwardDisk, ForwardAt, Unmixed
<1>16. ASSUME NEW p \in Programs, Updates!Supersede(p) PROVE Forward'
  <2>1. ForwardDisk'
    BY <1>16 DEF Updates!Supersede, Updates!Goes, Updates!Ends, Updates!Sends, Updates!Status,
       Updates!Without, Updates!ui, ForwardDisk, Forward, Unmixed, Known, Single, Sourced,
       Reading, UpdateTypes, PlanType, DiskType, PackagesType, StepType, HeldType,
       Updates!Versions
  <2>2. ASSUME NEW q \in Programs PROVE ForwardAt(q)'
    BY <1>16 DEF Updates!Supersede, Updates!Goes, Updates!Ends, Updates!Sends, Updates!Status,
       Updates!Without, Updates!ui, ForwardAt, Forward, Unmixed, Known, Single, Sourced,
       Reading, UpdateTypes, PlanType, DiskType, PackagesType, StepType, HeldType,
       Updates!Versions
  <2> QED
    BY <2>1, <2>2 DEF Forward, ForwardDisk, ForwardAt, Unmixed
<1>17. ASSUME NEW p \in Programs, Updates!StepFails(p) PROVE Forward'
  <2>1. ForwardDisk'
    BY <1>17 DEF Updates!StepFails, Updates!Goes, Updates!Ends, Updates!Sends, Updates!Status,
       Updates!disk, Updates!ui, Updates!Starting, Updates!Updating, ForwardDisk, Forward,
       Unmixed, Known, Single, Sourced, Reading, UpdateTypes, PlanType, DiskType, PackagesType,
       StepType, HeldType, Updates!Versions
  <2>2. ASSUME NEW q \in Programs PROVE ForwardAt(q)'
    <3>1. at'[q] = at[q] \/ at'[q] \in {"check", "done"}
      BY <1>17 DEF Updates!StepFails, Updates!Ends, Updates!Goes, UpdateTypes, StepType
    <3>2. Unmixed' => Unmixed
      BY <1>17 DEF Updates!StepFails, Unmixed
    <3> QED
      BY <1>17, <3>1, <3>2 DEF Updates!StepFails, Updates!disk, ForwardAt, Forward, Reading,
         Known
  <2> QED
    BY <2>1, <2>2 DEF Forward, ForwardDisk, ForwardAt, Unmixed
<1>18. ASSUME NEW p \in Programs, Updates!Poll(p) PROVE Forward'
  <2>1. ForwardDisk'
    BY <1>18 DEF Updates!Poll, Updates!disk, ForwardDisk, Forward, Unmixed, Known, Single,
       Sourced, Reading, UpdateTypes, PlanType, DiskType, PackagesType, StepType, HeldType,
       Updates!Versions
  <2>2. ASSUME NEW q \in Programs PROVE ForwardAt(q)'
    BY <1>18 DEF Updates!Poll, Updates!disk, ForwardAt, Forward, Unmixed, Known, Single,
       Sourced, Reading, UpdateTypes, PlanType, DiskType, PackagesType, StepType, HeldType,
       Updates!Versions
  <2> QED
    BY <2>1, <2>2 DEF Forward, ForwardDisk, ForwardAt, Unmixed
<1>19. ASSUME NEW p \in Programs, Updates!Quit(p) PROVE Forward'
  <2>1. ForwardDisk'
    BY <1>19 DEF Updates!Quit, Updates!Goes, Updates!disk, ForwardDisk, Forward, Unmixed, Known,
       Single, Sourced, Reading, UpdateTypes, PlanType, DiskType, PackagesType, StepType,
       HeldType, Updates!Versions
  <2>2. ASSUME NEW q \in Programs PROVE ForwardAt(q)'
    <3>1. UNCHANGED <<installed, staged, held, wanted>> /\ odd \subseteq odd'
      BY <1>19 DEF Updates!Quit, Updates!disk
    <3>2. at'[q] = at[q] \/ at'[q] = "off"
      BY <1>19 DEF Updates!Quit, Updates!Goes, UpdateTypes, StepType
    <3> QED
      BY <3>1, <3>2 DEF Forward, ForwardAt, Unmixed, Known, Reading
  <2> QED
    BY <2>1, <2>2 DEF Forward, ForwardDisk, ForwardAt, Unmixed
<1>20. ASSUME Updates!Release PROVE Forward'
  <2>1. ForwardDisk'
    BY <1>20 DEF Updates!Release, Updates!disk, Updates!ui, ForwardDisk, Forward, Unmixed,
       Known, Single, Sourced, Reading, UpdateTypes, PlanType, DiskType, PackagesType, StepType,
       HeldType, Updates!Versions
  <2>2. ASSUME NEW q \in Programs PROVE ForwardAt(q)'
    BY <1>20 DEF Updates!Release, Updates!disk, Updates!ui, ForwardAt, Forward, Unmixed, Known,
       Single, Sourced, Reading, UpdateTypes, PlanType, DiskType, PackagesType, StepType,
       HeldType, Updates!Versions
  <2> QED
    BY <2>1, <2>2 DEF Forward, ForwardDisk, ForwardAt, Unmixed
<1>21. ASSUME Updates!InstallByHand PROVE Forward'
  <2>1. ForwardDisk'
    BY <1>21 DEF Updates!InstallByHand, Updates!ui, ForwardDisk, Forward, Unmixed, Known,
       Single, Sourced, Reading, UpdateTypes, PlanType, DiskType, PackagesType, StepType,
       HeldType, Updates!Versions
  <2>2. ASSUME NEW q \in Programs PROVE ForwardAt(q)'
    BY <1>21 DEF Updates!InstallByHand, Updates!ui, ForwardAt, Forward, Unmixed, Known, Single,
       Sourced, Reading, UpdateTypes, PlanType, DiskType, PackagesType, StepType, HeldType,
       Updates!Versions
  <2> QED
    BY <2>1, <2>2 DEF Forward, ForwardDisk, ForwardAt, Unmixed
<1>22. ASSUME Updates!Damage PROVE Forward'
  <2>1. ForwardDisk'
    BY <1>22 DEF Updates!Damage, Updates!ui, ForwardDisk, Forward, Unmixed, Known, Single,
       Sourced, Reading, UpdateTypes, PlanType, DiskType, PackagesType, StepType, HeldType,
       Updates!Versions
  <2>2. ASSUME NEW q \in Programs PROVE ForwardAt(q)'
    BY <1>22 DEF Updates!Damage, Updates!ui, ForwardAt, Forward, Unmixed, Known, Single,
       Sourced, Reading, UpdateTypes, PlanType, DiskType, PackagesType, StepType, HeldType,
       Updates!Versions
  <2> QED
    BY <2>1, <2>2 DEF Forward, ForwardDisk, ForwardAt, Unmixed
<1> QED
  BY <1>0, <1>1, <1>2, <1>3, <1>4, <1>5, <1>6, <1>7, <1>8, <1>9, <1>10, <1>11, <1>12, <1>13,
     <1>14, <1>15, <1>16, <1>17, <1>18, <1>19, <1>20, <1>21, <1>22 DEF Updates!Next,
     Updates!Start, Updates!Thread

TruthfulAt(p) ==
  /\ at[p] \notin {"off", "done"} => ~SaysStaged(p)
  /\ at[p] \in Updates!Starting \cup {"off", "install"} => sent[p] = <<>>
StagedAt(p) ==
  "together" \notin odd =>
    /\ at[p] = "mark" => wanted[p] \in DOMAIN packages
    /\ at[p] = "supersede" => IsStaged(p)
    /\ at[p] = "done" /\ SaysStaged(p) => IsStaged(p)

LEMMA NoUpdateIsNone ==
  ASSUME NEW v \in Updates!Versions, NEW n \in 0 .. Updates!MAX_APPLY_ATTEMPTS
  PROVE  [version |-> v, attempts |-> n] # NoFile
BY UpdatesAssumption DEF Updates!UpdaterAssumption

LEMMA SentOther ==
  ASSUME SaysType, NEW p \in Programs, NEW s, Updates!Sends(p, s), NEW q \in Programs, q # p
  PROVE  sent'[q] = sent[q]
BY DEF Updates!Sends, SaysType

(* What a window hears last is what was said, or what it heard before.     *)
LEMMA SentLast ==
  ASSUME SaysType, NEW p \in Programs, NEW s \in Updates!Statuses, Updates!Sends(p, s), NEW q \in Programs
  PROVE  \/ sent'[q] = sent[q]
         \/ q = p /\ sent'[q] # <<>> /\ Updates!Last(sent'[q]) = s
<1>1. PICK c : c = Append(sent[p], s)
  OBVIOUS
<1>2. c \in Seq(Updates!Statuses) /\ c # <<>> /\ c[Len(c)] = s
  BY <1>1 DEF SaysType
<1>3. Updates!Last(c) = s
  BY <1>2 DEF Updates!Last
<1> QED
  BY <1>1, <1>2, <1>3 DEF Updates!Sends, SaysType

LEMMA TruthfulKept == UpdateTypes /\ Single /\ Truthful /\ [Updates!Next]_Updates!vars => Truthful'
<1> SUFFICES ASSUME UpdateTypes, Single, Truthful, [Updates!Next]_Updates!vars PROVE Truthful'
  OBVIOUS
<1>0. CASE UNCHANGED Updates!vars
  BY <1>0 DEF Updates!vars, Truthful, TruthfulAt, SaysStaged, Updates!Status, Updates!Starting,
     UpdateTypes, StepType, HeldType, SaysType, DiskType, PackagesType, StagedAt, IsStaged,
     Single
<1>1. ASSUME NEW p \in Programs, Updates!Launch(p) PROVE Truthful'
  <2>1. ASSUME NEW q \in Programs PROVE TruthfulAt(q)'
    BY <1>1 DEF Updates!Launch, Updates!Goes, Updates!disk, Truthful, TruthfulAt, SaysStaged,
       Updates!Status, Updates!Starting, UpdateTypes, StepType, HeldType, SaysType, DiskType,
       PackagesType
  <2>2. ASSUME NEW q \in Programs PROVE StagedAt(q)'
    BY <1>1 DEF Updates!Launch, Updates!Goes, Updates!disk, Truthful, StagedAt, TruthfulAt,
       SaysStaged, Updates!Status, IsStaged, Single, UpdateTypes, StepType, HeldType, SaysType,
       DiskType, PackagesType
  <2> QED
    BY <2>1, <2>2 DEF Truthful, TruthfulAt, StagedAt
<1>2. ASSUME NEW p \in Programs, Updates!ReadPending(p) PROVE Truthful'
  <2>1. ASSUME NEW q \in Programs PROVE TruthfulAt(q)'
    BY <1>2 DEF Updates!ReadPending, Updates!Goes, Updates!Holds, Updates!disk, Updates!ui,
       Truthful, TruthfulAt, SaysStaged, Updates!Status, Updates!Starting, UpdateTypes,
       StepType, HeldType, SaysType, DiskType, PackagesType
  <2>2. ASSUME NEW q \in Programs PROVE StagedAt(q)'
    BY <1>2 DEF Updates!ReadPending, Updates!Goes, Updates!Holds, Updates!disk, Updates!ui,
       Truthful, StagedAt, TruthfulAt, SaysStaged, Updates!Status, IsStaged, Single,
       UpdateTypes, StepType, HeldType, SaysType, DiskType, PackagesType
  <2> QED
    BY <2>1, <2>2 DEF Truthful, TruthfulAt, StagedAt
<1>3. ASSUME NEW p \in Programs, Updates!ReadPackage(p) PROVE Truthful'
  <2>1. ASSUME NEW q \in Programs PROVE TruthfulAt(q)'
    BY <1>3 DEF Updates!ReadPackage, Updates!Goes, Updates!disk, Updates!ui, Truthful,
       TruthfulAt, SaysStaged, Updates!Status, Updates!Starting, UpdateTypes, StepType,
       HeldType, SaysType, DiskType, PackagesType
  <2>2. ASSUME NEW q \in Programs PROVE StagedAt(q)'
    <3>1. UNCHANGED <<packages, staged, sent, shown, wanted, odd>>
      BY <1>3 DEF Updates!ReadPackage, Updates!disk, Updates!ui
    <3>2. at'[q] = at[q] \/ at'[q] \in {"check", "clear", "unmark", "install"}
      BY <1>3 DEF Updates!ReadPackage, Updates!Goes, UpdateTypes, StepType
    <3> QED
      BY <3>1, <3>2 DEF Truthful, StagedAt, SaysStaged, IsStaged
  <2> QED
    BY <2>1, <2>2 DEF Truthful, TruthfulAt, StagedAt
<1>4. ASSUME NEW p \in Programs, Updates!Unmark(p) PROVE Truthful'
  <2>1. ASSUME NEW q \in Programs PROVE TruthfulAt(q)'
    BY <1>4 DEF Updates!Unmark, Updates!Goes, Updates!ui, Truthful, TruthfulAt, SaysStaged,
       Updates!Status, Updates!Starting, UpdateTypes, StepType, HeldType, SaysType, DiskType,
       PackagesType
  <2>2. ASSUME NEW q \in Programs PROVE StagedAt(q)'
    BY <1>4 DEF Updates!Unmark, Updates!Goes, Updates!ui, Truthful, StagedAt, TruthfulAt,
       SaysStaged, Updates!Status, IsStaged, Single, UpdateTypes, StepType, HeldType, SaysType,
       DiskType, PackagesType
  <2> QED
    BY <2>1, <2>2 DEF Truthful, TruthfulAt, StagedAt
<1>5. ASSUME NEW p \in Programs, Updates!Install(p) PROVE Truthful'
  <2>1. ASSUME NEW q \in Programs PROVE TruthfulAt(q)'
    BY <1>5 DEF Updates!Install, Updates!Goes, Updates!ui, Truthful, TruthfulAt, SaysStaged,
       Updates!Status, Updates!Starting, UpdateTypes, StepType, HeldType, SaysType, DiskType,
       PackagesType
  <2>2. ASSUME NEW q \in Programs PROVE StagedAt(q)'
    BY <1>5 DEF Updates!Install, Updates!Goes, Updates!ui, Truthful, StagedAt, TruthfulAt,
       SaysStaged, Updates!Status, IsStaged, Single, UpdateTypes, StepType, HeldType, SaysType,
       DiskType, PackagesType
  <2> QED
    BY <2>1, <2>2 DEF Truthful, TruthfulAt, StagedAt
<1>6. ASSUME NEW p \in Programs, Updates!InstallFails(p) PROVE Truthful'
  <2>1. ASSUME NEW q \in Programs PROVE TruthfulAt(q)'
    BY <1>6 DEF Updates!InstallFails, Updates!Goes, Updates!disk, Updates!ui, Truthful,
       TruthfulAt, SaysStaged, Updates!Status, Updates!Starting, UpdateTypes, StepType,
       HeldType, SaysType, DiskType, PackagesType
  <2>2. ASSUME NEW q \in Programs PROVE StagedAt(q)'
    BY <1>6 DEF Updates!InstallFails, Updates!Goes, Updates!disk, Updates!ui, Truthful,
       StagedAt, TruthfulAt, SaysStaged, Updates!Status, IsStaged, Single, UpdateTypes,
       StepType, HeldType, SaysType, DiskType, PackagesType
  <2> QED
    BY <2>1, <2>2 DEF Truthful, TruthfulAt, StagedAt
<1>7. ASSUME NEW p \in Programs, Updates!CountAttempt(p) PROVE Truthful'
  <2>1. ASSUME NEW q \in Programs PROVE TruthfulAt(q)'
    BY <1>7 DEF Updates!CountAttempt, Updates!Goes, Updates!Pending, Updates!ui, Truthful,
       TruthfulAt, SaysStaged, Updates!Status, Updates!Starting, UpdateTypes, StepType,
       HeldType, SaysType, DiskType, PackagesType
  <2>2. ASSUME NEW q \in Programs PROVE StagedAt(q)'
    BY <1>7 DEF Updates!CountAttempt, Updates!Goes, Updates!Pending, Updates!ui, Truthful,
       StagedAt, TruthfulAt, SaysStaged, Updates!Status, IsStaged, Single, UpdateTypes,
       StepType, HeldType, SaysType, DiskType, PackagesType
  <2> QED
    BY <2>1, <2>2 DEF Truthful, TruthfulAt, StagedAt
<1>8. ASSUME NEW p \in Programs, Updates!ClearReads(p) PROVE Truthful'
  <2>1. ASSUME NEW q \in Programs PROVE TruthfulAt(q)'
    BY <1>8 DEF Updates!ClearReads, Updates!Goes, Updates!Holds, Updates!disk, Updates!ui,
       Truthful, TruthfulAt, SaysStaged, Updates!Status, Updates!Starting, UpdateTypes,
       StepType, HeldType, SaysType, DiskType, PackagesType
  <2>2. ASSUME NEW q \in Programs PROVE StagedAt(q)'
    BY <1>8 DEF Updates!ClearReads, Updates!Goes, Updates!Holds, Updates!disk, Updates!ui,
       Truthful, StagedAt, TruthfulAt, SaysStaged, Updates!Status, IsStaged, Single,
       UpdateTypes, StepType, HeldType, SaysType, DiskType, PackagesType
  <2> QED
    BY <2>1, <2>2 DEF Truthful, TruthfulAt, StagedAt
<1>9. ASSUME NEW p \in Programs, Updates!ClearState(p) PROVE Truthful'
  <2>1. ASSUME NEW q \in Programs PROVE TruthfulAt(q)'
    BY <1>9 DEF Updates!ClearState, Updates!Goes, Updates!ui, Truthful, TruthfulAt, SaysStaged,
       Updates!Status, Updates!Starting, UpdateTypes, StepType, HeldType, SaysType, DiskType,
       PackagesType
  <2>2. ASSUME NEW q \in Programs PROVE StagedAt(q)'
    BY <1>9 DEF Updates!ClearState, Updates!Goes, Updates!ui, Truthful, StagedAt, TruthfulAt,
       SaysStaged, Updates!Status, IsStaged, Single, UpdateTypes, StepType, HeldType, SaysType,
       DiskType, PackagesType
  <2> QED
    BY <2>1, <2>2 DEF Truthful, TruthfulAt, StagedAt
<1>10. ASSUME NEW p \in Programs, Updates!ClearPackage(p) PROVE Truthful'
  <2>1. ASSUME NEW q \in Programs PROVE TruthfulAt(q)'
    BY <1>10 DEF Updates!ClearPackage, Updates!Goes, Updates!Without, Updates!ui, Truthful,
       TruthfulAt, SaysStaged, Updates!Status, Updates!Starting, UpdateTypes, StepType,
       HeldType, SaysType, DiskType, PackagesType
  <2>2. ASSUME NEW q \in Programs PROVE StagedAt(q)'
    BY <1>10 DEF Updates!ClearPackage, Updates!Goes, Updates!Without, Updates!ui, Truthful,
       StagedAt, TruthfulAt, SaysStaged, Updates!Status, IsStaged, Single, UpdateTypes,
       StepType, HeldType, SaysType, DiskType, PackagesType
  <2> QED
    BY <2>1, <2>2 DEF Truthful, TruthfulAt, StagedAt
<1>11. ASSUME NEW p \in Programs, Updates!Check(p) PROVE Truthful'
  <2>1. ASSUME NEW q \in Programs PROVE TruthfulAt(q)'
    BY <1>11 DEF Updates!Check, Updates!Goes, Updates!Ends, Updates!Sends, Updates!Status,
       Updates!disk, Updates!ui, Truthful, TruthfulAt, SaysStaged, Updates!Starting,
       UpdateTypes, StepType, HeldType, SaysType, DiskType, PackagesType
  <2>2. ASSUME NEW q \in Programs PROVE StagedAt(q)'
    <3>1. CASE q # p
      BY <1>11, <3>1 DEF Updates!Check, Updates!Goes, Updates!Ends, Updates!disk, Truthful,
         StagedAt, Single, UpdateTypes, StepType
    <3>2. CASE q = p
      <4>1. at'[q] = "staged?" \/ (at'[q] = "done" /\ Updates!Sends(p, Updates!Status("UpToDate", 0)))
        BY <1>11, <3>2 DEF Updates!Check, Updates!Goes, Updates!Ends, UpdateTypes, StepType
      <4>2. at[q] = "check" /\ shown' = shown
        BY <1>11, <3>2 DEF Updates!Check, Updates!ui
      <4>3. ~SaysStaged(q)
        BY <4>2 DEF Truthful, TruthfulAt, StagedAt
      <4>4. at'[q] = "done" => sent'[q] = sent[q] \/ Updates!Last(sent'[q]) = Updates!Status("UpToDate", 0)
        BY <4>1, StatusesAre, SentLast DEF UpdateTypes
      <4>5. ~(at'[q] = "done" /\ SaysStaged(q)')
        BY <4>2, <4>3, <4>4 DEF SaysStaged, Updates!Status
      <4> QED
        BY <4>1, <4>5 DEF StagedAt
    <3> QED
      BY <3>1, <3>2
  <2> QED
    BY <2>1, <2>2 DEF Truthful, TruthfulAt, StagedAt
<1>12. ASSUME NEW p \in Programs, Updates!HasStaged(p) PROVE Truthful'
  <2>1. ASSUME NEW q \in Programs PROVE TruthfulAt(q)'
    <3>1. CASE q # p
      BY <1>12, <3>1, SentOther DEF Updates!HasStaged, Updates!Goes, Updates!Ends, Updates!ui,
         Truthful, TruthfulAt, SaysStaged, Updates!Starting, UpdateTypes, StepType
    <3>2. CASE q = p
      <4>1. at'[q] = "done" \/ (at'[q] = "download" /\ Updates!Sends(p, Updates!Status("Downloading", wanted[p])))
        BY <1>12, <3>2 DEF Updates!HasStaged, Updates!Goes, Updates!Ends, UpdateTypes, StepType
      <4>2. at[q] = "staged?" /\ shown' = shown
        BY <1>12, <3>2 DEF Updates!HasStaged, Updates!ui
      <4>3. ~SaysStaged(q)
        BY <4>2 DEF Truthful, TruthfulAt, StagedAt
      <4>4. at'[q] = "download" => sent'[q] = sent[q] \/ Updates!Last(sent'[q]) = Updates!Status("Downloading", wanted[p])
        BY <4>1, StatusesAre, SentLast DEF UpdateTypes
      <4>5. at'[q] = "download" => ~SaysStaged(q)'
        BY <4>2, <4>3, <4>4 DEF SaysStaged, Updates!Status
      <4> QED
        BY <4>1, <4>5 DEF TruthfulAt, Updates!Starting
    <3> QED
      BY <3>1, <3>2
  <2>2. ASSUME NEW q \in Programs PROVE StagedAt(q)'
    <3>1. CASE q # p
      BY <1>12, <3>1 DEF Updates!HasStaged, Updates!Goes, Updates!Ends, Updates!disk, Truthful,
         StagedAt, Single, UpdateTypes, StepType
    <3>2. CASE q = p
      BY <1>12, <3>2 DEF Updates!HasStaged, Updates!Goes, Updates!Ends,
         IsStaged, UpdateTypes, StepType, Updates!disk, StagedAt
    <3> QED
      BY <3>1, <3>2
  <2> QED
    BY <2>1, <2>2 DEF Truthful, TruthfulAt, StagedAt
<1>13. ASSUME NEW p \in Programs, Updates!Download(p) PROVE Truthful'
  <2>1. ASSUME NEW q \in Programs PROVE TruthfulAt(q)'
    BY <1>13 DEF Updates!Download, Updates!Goes, Updates!Holds, Updates!disk, Updates!ui,
       Truthful, TruthfulAt, SaysStaged, Updates!Status, Updates!Starting, UpdateTypes,
       StepType, HeldType, SaysType, DiskType, PackagesType
  <2>2. ASSUME NEW q \in Programs PROVE StagedAt(q)'
    BY <1>13 DEF Updates!Download, Updates!Goes, Updates!Holds, Updates!disk, Updates!ui,
       Truthful, StagedAt, TruthfulAt, SaysStaged, Updates!Status, IsStaged, Single,
       UpdateTypes, StepType, HeldType, SaysType, DiskType, PackagesType
  <2> QED
    BY <2>1, <2>2 DEF Truthful, TruthfulAt, StagedAt
<1>14. ASSUME NEW p \in Programs, Updates!StorePackage(p) PROVE Truthful'
  <2>1. ASSUME NEW q \in Programs PROVE TruthfulAt(q)'
    BY <1>14 DEF Updates!StorePackage, Updates!Goes, Updates!With, Updates!Without, Updates!ui,
       Truthful, TruthfulAt, SaysStaged, Updates!Status, Updates!Starting, UpdateTypes,
       StepType, HeldType, SaysType, DiskType, PackagesType
  <2>2. ASSUME NEW q \in Programs PROVE StagedAt(q)'
    <3>1. CASE q # p
      BY <1>14, <3>1 DEF Updates!StorePackage, Updates!Goes, Truthful, StagedAt, Single,
         UpdateTypes, StepType
    <3>2. CASE q = p
      BY <1>14, <3>2 DEF Updates!StorePackage, Updates!Goes, UpdateTypes,
         StepType, Updates!With, StagedAt
    <3> QED
      BY <3>1, <3>2
  <2> QED
    BY <2>1, <2>2 DEF Truthful, TruthfulAt, StagedAt
<1>15. ASSUME NEW p \in Programs, Updates!Mark(p) PROVE Truthful'
  <2>1. ASSUME NEW q \in Programs PROVE TruthfulAt(q)'
    BY <1>15 DEF Updates!Mark, Updates!Goes, Updates!Pending, Updates!ui, Truthful, TruthfulAt,
       SaysStaged, Updates!Status, Updates!Starting, UpdateTypes, StepType, HeldType, SaysType,
       DiskType, PackagesType
  <2>2. ASSUME NEW q \in Programs PROVE StagedAt(q)'
    <3>1. CASE q # p
      BY <1>15, <3>1 DEF Updates!Mark, Updates!Goes, Truthful, StagedAt, Single, UpdateTypes,
         StepType
    <3>2. CASE q = p
      BY <1>15, <3>2, NoUpdateIsNone DEF Updates!Mark, Updates!Goes,
         Updates!Pending, UpdateTypes, StepType, StagedAt, IsStaged, Truthful
    <3> QED
      BY <3>1, <3>2
  <2> QED
    BY <2>1, <2>2 DEF Truthful, TruthfulAt, StagedAt
<1>16. ASSUME NEW p \in Programs, Updates!Supersede(p) PROVE Truthful'
  <2>1. ASSUME NEW q \in Programs PROVE TruthfulAt(q)'
    BY <1>16 DEF Updates!Supersede, Updates!Goes, Updates!Ends, Updates!Sends, Updates!Status,
       Updates!Without, Updates!ui, Truthful, TruthfulAt, SaysStaged, Updates!Starting,
       UpdateTypes, StepType, HeldType, SaysType, DiskType, PackagesType
  <2>2. ASSUME NEW q \in Programs PROVE StagedAt(q)'
    BY <1>16 DEF Updates!Supersede, Updates!Goes, Updates!Ends, Updates!Sends, Updates!Status,
       Updates!Without, Updates!ui, Truthful, StagedAt, TruthfulAt, SaysStaged, IsStaged,
       Single, UpdateTypes, StepType, HeldType, SaysType, DiskType, PackagesType
  <2> QED
    BY <2>1, <2>2 DEF Truthful, TruthfulAt, StagedAt
<1>17. ASSUME NEW p \in Programs, Updates!StepFails(p) PROVE Truthful'
  <2>1. ASSUME NEW q \in Programs PROVE TruthfulAt(q)'
    <3>1. \/ at'[q] = at[q] /\ sent'[q] = sent[q]
          \/ at[q] \in Updates!Starting /\ at'[q] = "check" /\ sent'[q] = sent[q]
          \/ at'[q] = "done"
      BY <1>17 DEF Updates!StepFails, Updates!Goes, Updates!Ends, Updates!Sends, UpdateTypes,
         StepType, SaysType
    <3>2. shown' = shown
      BY <1>17 DEF Updates!StepFails, Updates!ui
    <3> QED
      BY <3>1, <3>2 DEF Truthful, TruthfulAt, SaysStaged, Updates!Starting
  <2>2. ASSUME NEW q \in Programs PROVE StagedAt(q)'
    <3>1. CASE q # p
      BY <1>17, <3>1 DEF Updates!StepFails, Updates!Goes, Updates!Ends, Updates!Starting,
         Updates!Updating, Updates!disk, Truthful, StagedAt, Single, UpdateTypes, StepType
    <3>2. CASE q = p
      <4>1. \/ at'[q] = "check"
            \/ at[q] \in Updates!Updating /\ at'[q] = "done" /\ Updates!Sends(p, Updates!Status("Failed", 0))
            \/ at[q] = "supersede" /\ at'[q] = "done"
        BY <1>17, <3>2 DEF Updates!StepFails, Updates!Goes, Updates!Ends, Updates!Starting,
           Updates!Updating, UpdateTypes, StepType
      <4>2. shown' = shown /\ (IsStaged(q)' <=> IsStaged(q)) /\ ("together" \notin odd' => "together" \notin odd)
        BY <1>17 DEF Updates!StepFails, Updates!disk, Updates!ui, IsStaged
      <4>3. at[q] \in Updates!Updating => ~SaysStaged(q)
        BY DEF Truthful, Updates!Updating
      <4>4. at[q] \in Updates!Updating /\ at'[q] = "done" => sent'[q] = sent[q] \/ Updates!Last(sent'[q]) = Updates!Status("Failed", 0)
        BY <4>1, StatusesAre, SentLast DEF UpdateTypes, Updates!Updating
      <4>5. at[q] \in Updates!Updating /\ at'[q] = "done" => ~SaysStaged(q)'
        BY <4>2, <4>3, <4>4 DEF SaysStaged, Updates!Status
      <4> QED
        BY <4>1, <4>2, <4>5 DEF StagedAt, Truthful, Updates!Updating
    <3> QED
      BY <3>1, <3>2
  <2> QED
    BY <2>1, <2>2 DEF Truthful, TruthfulAt, StagedAt
<1>18. ASSUME NEW p \in Programs, Updates!Poll(p) PROVE Truthful'
  <2>1. ASSUME NEW q \in Programs PROVE TruthfulAt(q)'
    BY <1>18 DEF Updates!Poll, Updates!disk, Truthful, TruthfulAt, SaysStaged, Updates!Status,
       Updates!Starting, UpdateTypes, StepType, HeldType, SaysType, DiskType, PackagesType
  <2>2. ASSUME NEW q \in Programs PROVE StagedAt(q)'
    BY <1>18 DEF Updates!Poll, Updates!disk, Truthful, StagedAt, TruthfulAt, SaysStaged,
       Updates!Status, IsStaged, Single, UpdateTypes, StepType, HeldType, SaysType, DiskType,
       PackagesType
  <2> QED
    BY <2>1, <2>2 DEF Truthful, TruthfulAt, StagedAt
<1>19. ASSUME NEW p \in Programs, Updates!Quit(p) PROVE Truthful'
  <2>1. ASSUME NEW q \in Programs PROVE TruthfulAt(q)'
    BY <1>19 DEF Updates!Quit, Updates!Goes, Updates!disk, Truthful, TruthfulAt, SaysStaged,
       Updates!Status, Updates!Starting, UpdateTypes, StepType, HeldType, SaysType, DiskType,
       PackagesType
  <2>2. ASSUME NEW q \in Programs PROVE StagedAt(q)'
    BY <1>19 DEF Updates!Quit, Updates!Goes, Updates!disk, Truthful, StagedAt, TruthfulAt,
       SaysStaged, Updates!Status, IsStaged, Single, UpdateTypes, StepType, HeldType, SaysType,
       DiskType, PackagesType
  <2> QED
    BY <2>1, <2>2 DEF Truthful, TruthfulAt, StagedAt
<1>20. ASSUME Updates!Release PROVE Truthful'
  <2>1. ASSUME NEW q \in Programs PROVE TruthfulAt(q)'
    BY <1>20 DEF Updates!Release, Updates!disk, Updates!ui, Truthful, TruthfulAt, SaysStaged,
       Updates!Status, Updates!Starting, UpdateTypes, StepType, HeldType, SaysType, DiskType,
       PackagesType
  <2>2. ASSUME NEW q \in Programs PROVE StagedAt(q)'
    BY <1>20 DEF Updates!Release, Updates!disk, Updates!ui, Truthful, StagedAt, TruthfulAt,
       SaysStaged, Updates!Status, IsStaged, Single, UpdateTypes, StepType, HeldType, SaysType,
       DiskType, PackagesType
  <2> QED
    BY <2>1, <2>2 DEF Truthful, TruthfulAt, StagedAt
<1>21. ASSUME Updates!InstallByHand PROVE Truthful'
  <2>1. ASSUME NEW q \in Programs PROVE TruthfulAt(q)'
    BY <1>21 DEF Updates!InstallByHand, Updates!ui, Truthful, TruthfulAt, SaysStaged,
       Updates!Status, Updates!Starting, UpdateTypes, StepType, HeldType, SaysType, DiskType,
       PackagesType
  <2>2. ASSUME NEW q \in Programs PROVE StagedAt(q)'
    BY <1>21 DEF Updates!InstallByHand, Updates!ui, Truthful, StagedAt, TruthfulAt, SaysStaged,
       Updates!Status, IsStaged, Single, UpdateTypes, StepType, HeldType, SaysType, DiskType,
       PackagesType
  <2> QED
    BY <2>1, <2>2 DEF Truthful, TruthfulAt, StagedAt
<1>22. ASSUME Updates!Damage PROVE Truthful'
  <2>1. ASSUME NEW q \in Programs PROVE TruthfulAt(q)'
    BY <1>22 DEF Updates!Damage, Updates!ui, Truthful, TruthfulAt, SaysStaged, Updates!Status,
       Updates!Starting, UpdateTypes, StepType, HeldType, SaysType, DiskType, PackagesType
  <2>2. ASSUME NEW q \in Programs PROVE StagedAt(q)'
    BY <1>22 DEF Updates!Damage, Updates!ui, Truthful, StagedAt, TruthfulAt, SaysStaged,
       Updates!Status, IsStaged, Single, UpdateTypes, StepType, HeldType, SaysType, DiskType,
       PackagesType
  <2> QED
    BY <2>1, <2>2 DEF Truthful, TruthfulAt, StagedAt
<1> QED
  BY <1>0, <1>1, <1>2, <1>3, <1>4, <1>5, <1>6, <1>7, <1>8, <1>9, <1>10, <1>11, <1>12, <1>13,
     <1>14, <1>15, <1>16, <1>17, <1>18, <1>19, <1>20, <1>21, <1>22 DEF Updates!Next,
     Updates!Start, Updates!Thread

(* At the other steps nothing is claimed; and a program that moves is alone. *)
LEMMA OutsideIsTidy ==
  ASSUME NEW q \in Programs,
         Calm' => at'[q] \in {"off", "read", "check", "clear", "staged?", "download", "done"}
  PROVE  TidyAt(q)'
BY DEF TidyAt, Reading

LEMMA OthersAreOff ==
  ASSUME Single, Calm' => Calm, NEW p \in Programs, at[p] # "off",
         NEW q \in Programs, q # p, \A r \in Programs \ {p} : at'[r] = at[r]
  PROVE  TidyAt(q)'
<1>1. Calm' => at'[q] = "off"
  BY DEF Single, Calm
<1> QED
  BY <1>1, OutsideIsTidy

LEMMA TidyKept ==
  UpdateTypes /\ UpdateTypes' /\ Sourced /\ Single /\ Tidy /\ [Updates!Next]_Updates!vars => Tidy'
<1> SUFFICES ASSUME UpdateTypes, UpdateTypes', Sourced, Single, Tidy, [Updates!Next]_Updates!vars PROVE Tidy'
  OBVIOUS
<1>0. CASE UNCHANGED Updates!vars
  BY <1>0 DEF Updates!vars, Tidy, TidyDisk, TidyAt, Calm, Settled, Single, PendingSet, HeldSet,
     Reading, UpdateTypes, PlanType, Updates!Budgets, StepType, HeldType
<1>1. ASSUME NEW p \in Programs, Updates!Launch(p) PROVE Tidy'
  <2>1. TidyDisk'
    BY <1>1 DEF Updates!Launch, Updates!Goes, Updates!disk, Tidy, TidyDisk, TidyAt, Calm,
       Settled, Single, PendingSet, HeldSet, Reading, UpdateTypes, PlanType, Updates!Budgets,
       StepType, HeldType
  <2>2. ASSUME NEW q \in Programs PROVE TidyAt(q)'
    <3>1. Calm' => at'[q] \in {"off", "read"}
      BY <1>1 DEF Updates!Launch, Updates!Goes, Calm, UpdateTypes, StepType
    <3> QED
      BY <3>1, OutsideIsTidy
  <2> QED
    BY <2>1, <2>2 DEF Tidy
<1>2. ASSUME NEW p \in Programs, Updates!ReadPending(p) PROVE Tidy'
  <2>1. TidyDisk'
    <3>1. Settled' => Settled
      BY <1>2 DEF Updates!ReadPending, Updates!Goes, Updates!Holds, Updates!disk, Updates!ui,
         Settled, UpdateTypes, StepType
    <3>2. packages' = packages /\ staged' = staged /\ (Calm' => Calm)
      BY <1>2 DEF Updates!ReadPending, Updates!Goes, Updates!Holds, Updates!disk, Updates!ui,
         Calm
    <3> QED
      BY <3>1, <3>2 DEF Tidy, TidyDisk, PendingSet
  <2>2. ASSUME NEW q \in Programs PROVE TidyAt(q)'
    <3>1. CASE q # p
      BY <1>2, <3>1 DEF Updates!ReadPending, Updates!Goes, Updates!Holds, Updates!disk,
         Updates!ui, Calm, TidyAt, Single, Reading, UpdateTypes, StepType
    <3>2. CASE q = p
      <4>1. at'[q] \in {"check", "clear", "package", "store"}
        BY <1>2, <3>2 DEF Updates!ReadPending, Updates!Goes, Updates!Holds, Updates!disk,
           Updates!ui, UpdateTypes, StepType
      <4>2. held'[q] = staged /\ staged' = staged
        BY <1>2, <3>2 DEF Updates!ReadPending, Updates!Goes, Updates!Holds, Updates!disk,
           Updates!ui, UpdateTypes, HeldType
      <4> QED
        BY <4>1, <4>2 DEF TidyAt, Reading
    <3> QED
      BY <3>1, <3>2
  <2> QED
    BY <2>1, <2>2 DEF Tidy
<1>3. ASSUME NEW p \in Programs, Updates!ReadPackage(p) PROVE Tidy'
  <2>1. TidyDisk'
    <3>1. Settled' => Settled
      BY <1>3 DEF Updates!ReadPackage, Updates!Goes, Updates!disk, Updates!ui, Settled,
         UpdateTypes, StepType
    <3>2. packages' = packages /\ staged' = staged /\ (Calm' => Calm)
      BY <1>3 DEF Updates!ReadPackage, Updates!Goes, Updates!disk, Updates!ui, Calm
    <3> QED
      BY <3>1, <3>2 DEF Tidy, TidyDisk, PendingSet
  <2>2. ASSUME NEW q \in Programs PROVE TidyAt(q)'
    <3>1. CASE q # p
      BY <1>3, <3>1 DEF Updates!ReadPackage, Updates!Goes, Updates!disk, Updates!ui, Calm,
         TidyAt, Single, Reading, UpdateTypes, StepType
    <3>2. CASE q = p
      BY <1>3, <3>2 DEF Updates!ReadPackage, Updates!Goes, UpdateTypes,
         StepType, Updates!disk, Tidy, TidyAt, Calm, Reading
    <3> QED
      BY <3>1, <3>2
  <2> QED
    BY <2>1, <2>2 DEF Tidy
<1>4. ASSUME NEW p \in Programs, Updates!Unmark(p) PROVE Tidy'
  <2>1. TidyDisk'
    BY <1>4 DEF Updates!Unmark, Updates!Goes, Updates!ui, Tidy, TidyDisk, TidyAt, Calm, Settled,
       Single, PendingSet, HeldSet, Reading, UpdateTypes, PlanType, Updates!Budgets, StepType,
       HeldType
  <2>2. ASSUME NEW q \in Programs PROVE TidyAt(q)'
    BY <1>4 DEF Updates!Unmark, Updates!Goes, Updates!ui, Tidy, TidyDisk, TidyAt, Calm, Settled,
       Single, PendingSet, HeldSet, Reading, UpdateTypes, PlanType, Updates!Budgets, StepType,
       HeldType
  <2> QED
    BY <2>1, <2>2 DEF Tidy
<1>5. ASSUME NEW p \in Programs, Updates!Install(p) PROVE Tidy'
  <2>1. TidyDisk'
    <3>1. Settled' => Settled
      BY <1>5 DEF Updates!Install, Updates!Goes, Updates!ui, Settled, UpdateTypes, StepType
    <3>2. packages' = packages /\ staged' = staged /\ (Calm' => Calm)
      BY <1>5 DEF Updates!Install, Updates!Goes, Updates!ui, Updates!disk, Calm
    <3> QED
      BY <3>1, <3>2 DEF Tidy, TidyDisk, PendingSet
  <2>2. ASSUME NEW q \in Programs PROVE TidyAt(q)'
    <3>1. at[p] # "off" /\ (Calm' => Calm) /\ \A r \in Programs \ {p} : at'[r] = at[r]
      BY <1>5 DEF Updates!Install, Updates!Goes, Calm, UpdateTypes, StepType
    <3>2. CASE q # p
      BY <3>1, <3>2, OthersAreOff
    <3>3. CASE q = p
      <4>1. Calm' => at'[p] = "clear"
        BY <1>5 DEF Updates!Install, Updates!Goes, Calm, UpdateTypes, StepType
      <4> QED
        BY <3>3, <4>1, OutsideIsTidy
    <3> QED
      BY <3>2, <3>3
  <2> QED
    BY <2>1, <2>2 DEF Tidy
<1>6. ASSUME NEW p \in Programs, Updates!InstallFails(p) PROVE Tidy'
  <2>1. TidyDisk'
    <3>1. at[p] = "install" /\ \A r \in Programs \ {p} : at'[r] = at[r]
      BY <1>6 DEF Updates!InstallFails, Updates!Goes, UpdateTypes, StepType
    <3>2. UNCHANGED <<packages, staged>> /\ (Calm' => Calm)
      BY <1>6 DEF Updates!InstallFails, Updates!disk, Calm, UpdateTypes, PlanType, Updates!Budgets
    <3> QED
      BY <3>1, <3>2 DEF Tidy, TidyDisk, Settled, PendingSet
  <2>2. ASSUME NEW q \in Programs PROVE TidyAt(q)'
    <3>1. at[p] # "off" /\ (Calm' => Calm) /\ \A r \in Programs \ {p} : at'[r] = at[r]
      BY <1>6 DEF Updates!InstallFails, Updates!Goes, Updates!disk, PlanType, Updates!Budgets, Calm, UpdateTypes, StepType
    <3>2. CASE q # p
      BY <3>1, <3>2, OthersAreOff
    <3>3. CASE q = p
      <4>1. Calm' => at[p] = "install" /\ at'[p] = "count"
        BY <1>6, <3>1 DEF Updates!InstallFails, Updates!Goes, Calm, UpdateTypes, PlanType,
           Updates!Budgets, StepType
      <4>2. UNCHANGED <<staged, held>>
        BY <1>6 DEF Updates!InstallFails, Updates!disk
      <4> QED
        BY <3>1, <3>3, <4>1, <4>2 DEF Tidy, TidyAt, Reading
    <3> QED
      BY <3>2, <3>3
  <2> QED
    BY <2>1, <2>2 DEF Tidy
<1>7. ASSUME NEW p \in Programs, Updates!CountAttempt(p) PROVE Tidy'
  <2>1. TidyDisk'
    <3>1. Settled' => Settled
      BY <1>7 DEF Updates!CountAttempt, Updates!Goes, Updates!Pending, Updates!ui, Settled,
         UpdateTypes, StepType
    <3>2. packages' = packages /\ (Calm' => Calm) /\ held[p] # NoFile /\ (Calm => held[p] = staged)
      BY <1>7 DEF Updates!CountAttempt, Calm, Tidy, TidyAt, Sourced, Reading
    <3>3. staged'.version = held[p].version /\ staged' # NoFile
      BY <1>7, NoUpdateIsNone DEF Updates!CountAttempt, Sourced, Reading,
         UpdateTypes, HeldType, Updates!Pending
    <3> QED
      BY <3>1, <3>2, <3>3 DEF Tidy, TidyDisk, PendingSet
  <2>2. ASSUME NEW q \in Programs PROVE TidyAt(q)'
    <3>1. at[p] # "off" /\ (Calm' => Calm) /\ \A r \in Programs \ {p} : at'[r] = at[r]
      BY <1>7 DEF Updates!CountAttempt, Updates!Goes, Calm, UpdateTypes, StepType
    <3>2. CASE q # p
      BY <3>1, <3>2, OthersAreOff
    <3>3. CASE q = p
      <4>1. Calm' => at'[p] = "check"
        BY <1>7 DEF Updates!CountAttempt, Updates!Goes, Calm, UpdateTypes, StepType
      <4> QED
        BY <3>3, <4>1, OutsideIsTidy
    <3> QED
      BY <3>2, <3>3
  <2> QED
    BY <2>1, <2>2 DEF Tidy
<1>8. ASSUME NEW p \in Programs, Updates!ClearReads(p) PROVE Tidy'
  <2>1. TidyDisk'
    <3>1. Settled' => Settled
      BY <1>8 DEF Updates!ClearReads, Updates!Goes, Updates!Holds, Updates!disk, Updates!ui,
         Settled, UpdateTypes, StepType
    <3>2. packages' = packages /\ staged' = staged /\ (Calm' => Calm)
      BY <1>8 DEF Updates!ClearReads, Updates!Goes, Updates!Holds, Updates!disk, Updates!ui,
         Calm
    <3> QED
      BY <3>1, <3>2 DEF Tidy, TidyDisk, PendingSet
  <2>2. ASSUME NEW q \in Programs PROVE TidyAt(q)'
    BY <1>8 DEF Updates!ClearReads, Updates!Goes, Updates!Holds, Updates!disk, Updates!ui, Tidy,
       TidyDisk, TidyAt, Calm, Settled, Single, PendingSet, HeldSet, Reading, UpdateTypes,
       PlanType, Updates!Budgets, StepType, HeldType
  <2> QED
    BY <2>1, <2>2 DEF Tidy
<1>9. ASSUME NEW p \in Programs, Updates!ClearState(p) PROVE Tidy'
  <2>1. TidyDisk'
    <3>1. at'[p] = "clear package"
      BY <1>9 DEF Updates!ClearState, Updates!Goes, UpdateTypes, StepType
    <3> QED
      BY <3>1 DEF TidyDisk, Settled
  <2>2. ASSUME NEW q \in Programs PROVE TidyAt(q)'
    <3>1. at[p] # "off" /\ (Calm' => Calm) /\ \A r \in Programs \ {p} : at'[r] = at[r]
      BY <1>9 DEF Updates!ClearState, Updates!Goes, Calm, UpdateTypes, StepType
    <3>2. CASE q # p
      BY <3>1, <3>2, OthersAreOff
    <3>3. CASE q = p
      <4>1. /\ at[p] = "clear state" /\ at'[p] = "clear package"
            /\ UNCHANGED <<held, packages>> /\ staged' = NoFile
        BY <1>9 DEF Updates!ClearState, Updates!Goes, UpdateTypes, StepType
      <4>2. Calm => Settled
        BY <4>1 DEF Calm, Settled, Single
      <4>3. Calm => held[p] = staged /\ DOMAIN packages = PendingSet
        BY <4>1, <4>2 DEF Tidy, TidyAt, TidyDisk
      <4>4. Calm => DOMAIN packages = HeldSet(p)
        BY <4>3 DEF PendingSet, HeldSet
      <4>5. HeldSet(p)' = HeldSet(p)
        BY <4>1 DEF HeldSet
      <4> QED
        BY <3>1, <3>3, <4>1, <4>4, <4>5 DEF TidyAt, Reading
    <3> QED
      BY <3>2, <3>3
  <2> QED
    BY <2>1, <2>2 DEF Tidy
<1>10. ASSUME NEW p \in Programs, Updates!ClearPackage(p) PROVE Tidy'
  <2>1. TidyDisk'
    BY <1>10 DEF Updates!ClearPackage, Calm, Updates!ui, Tidy, TidyAt,
       Updates!Without, HeldSet, TidyDisk, PendingSet
  <2>2. ASSUME NEW q \in Programs PROVE TidyAt(q)'
    <3>1. at[p] # "off" /\ (Calm' => Calm) /\ \A r \in Programs \ {p} : at'[r] = at[r]
      BY <1>10 DEF Updates!ClearPackage, Updates!Goes, Calm, UpdateTypes, StepType
    <3>2. CASE q # p
      BY <3>1, <3>2, OthersAreOff
    <3>3. CASE q = p
      <4>1. Calm' => at'[p] = "check"
        BY <1>10 DEF Updates!ClearPackage, Updates!Goes, Calm, UpdateTypes, StepType
      <4> QED
        BY <3>3, <4>1, OutsideIsTidy
    <3> QED
      BY <3>2, <3>3
  <2> QED
    BY <2>1, <2>2 DEF Tidy
<1>11. ASSUME NEW p \in Programs, Updates!Check(p) PROVE Tidy'
  <2>1. TidyDisk'
    <3>1. at[p] = "check" /\ \A r \in Programs \ {p} : at'[r] = at[r]
      BY <1>11 DEF Updates!Check, Updates!Goes, Updates!Ends, Updates!Sends, UpdateTypes, StepType
    <3>2. UNCHANGED <<packages, staged>> /\ (Calm' => Calm)
      BY <1>11 DEF Updates!Check, Updates!disk, Calm
    <3> QED
      BY <3>1, <3>2 DEF Tidy, TidyDisk, Settled, PendingSet
  <2>2. ASSUME NEW q \in Programs PROVE TidyAt(q)'
    <3>1. at'[q] = at[q] \/ at'[q] \in {"done", "staged?", "download"}
      BY <1>11 DEF Updates!Check, Updates!Goes, Updates!Ends, Updates!Sends, Updates!Status,
         Updates!disk, Updates!ui, UpdateTypes, StepType
    <3>2. UNCHANGED <<budget, odd, packages, staged, held>> /\ (at'[q] = at[q] => at[q] \in {"staged?", "check"} \/ wanted'[q] = wanted[q])
      BY <1>11 DEF Updates!Check, Updates!Goes, Updates!Ends, Updates!Sends, Updates!Status,
         Updates!disk, Updates!ui, UpdateTypes, StepType
    <3>3. Calm' => Calm
      BY <3>2 DEF Calm
    <3> QED
      BY <3>1, <3>2, <3>3 DEF Tidy, TidyAt, Reading, HeldSet, PendingSet
  <2> QED
    BY <2>1, <2>2 DEF Tidy
<1>12. ASSUME NEW p \in Programs, Updates!HasStaged(p) PROVE Tidy'
  <2>1. TidyDisk'
    <3>1. at[p] = "staged?" /\ \A r \in Programs \ {p} : at'[r] = at[r]
      BY <1>12 DEF Updates!HasStaged, Updates!Goes, Updates!Ends, Updates!Sends, UpdateTypes, StepType
    <3>2. UNCHANGED <<packages, staged>> /\ (Calm' => Calm)
      BY <1>12 DEF Updates!HasStaged, Updates!disk, Calm
    <3> QED
      BY <3>1, <3>2 DEF Tidy, TidyDisk, Settled, PendingSet
  <2>2. ASSUME NEW q \in Programs PROVE TidyAt(q)'
    <3>1. at'[q] = at[q] \/ at'[q] \in {"done", "staged?", "download"}
      BY <1>12 DEF Updates!HasStaged, Updates!Goes, Updates!Ends, Updates!Sends, Updates!Status,
         Updates!disk, Updates!ui, UpdateTypes, StepType
    <3>2. UNCHANGED <<budget, odd, packages, staged, held>> /\ (at'[q] = at[q] => at[q] \in {"staged?", "check"} \/ wanted'[q] = wanted[q])
      BY <1>12 DEF Updates!HasStaged, Updates!Goes, Updates!Ends, Updates!Sends, Updates!Status,
         Updates!disk, Updates!ui, UpdateTypes, StepType
    <3>3. Calm' => Calm
      BY <3>2 DEF Calm
    <3> QED
      BY <3>1, <3>2, <3>3 DEF Tidy, TidyAt, Reading, HeldSet, PendingSet
  <2> QED
    BY <2>1, <2>2 DEF Tidy
<1>13. ASSUME NEW p \in Programs, Updates!Download(p) PROVE Tidy'
  <2>1. TidyDisk'
    <3>1. at[p] = "download" /\ \A r \in Programs \ {p} : at'[r] = at[r]
      BY <1>13 DEF Updates!Download, Updates!Goes, Updates!Holds, UpdateTypes, StepType
    <3>2. UNCHANGED <<packages, staged>> /\ (Calm' => Calm)
      BY <1>13 DEF Updates!Download, Updates!disk, Calm
    <3> QED
      BY <3>1, <3>2 DEF Tidy, TidyDisk, Settled, PendingSet
  <2>2. ASSUME NEW q \in Programs PROVE TidyAt(q)'
    <3>1. CASE q # p
      BY <1>13, <3>1 DEF Updates!Download, Updates!Goes, Updates!Holds, Updates!disk,
         Updates!ui, Calm, TidyAt, Single, Reading, UpdateTypes, StepType
    <3>2. CASE q = p
      <4>1. at'[q] \in {"check", "clear", "package", "store"}
        BY <1>13, <3>2 DEF Updates!Download, Updates!Goes, Updates!Holds, Updates!disk,
           Updates!ui, UpdateTypes, StepType
      <4>2. held'[q] = staged /\ staged' = staged
        BY <1>13, <3>2 DEF Updates!Download, Updates!Goes, Updates!Holds, Updates!disk,
           Updates!ui, UpdateTypes, HeldType
      <4> QED
        BY <4>1, <4>2 DEF TidyAt, Reading
    <3> QED
      BY <3>1, <3>2
  <2> QED
    BY <2>1, <2>2 DEF Tidy
<1>14. ASSUME NEW p \in Programs, Updates!StorePackage(p) PROVE Tidy'
  <2>1. TidyDisk'
    BY <1>14 DEF Updates!StorePackage, Updates!Goes, Updates!With, Updates!Without, Updates!ui,
       Tidy, TidyDisk, TidyAt, Calm, Settled, Single, PendingSet, HeldSet, Reading, UpdateTypes,
       PlanType, Updates!Budgets, StepType, HeldType
  <2>2. ASSUME NEW q \in Programs PROVE TidyAt(q)'
    <3>1. CASE q # p
      BY <1>14, <3>1 DEF Updates!StorePackage, Updates!Goes, Updates!With, Updates!Without,
         Updates!ui, Calm, TidyAt, Single, Reading, UpdateTypes, StepType
    <3>2. CASE q = p
      <4>1. at[q] = "store" /\ UNCHANGED <<staged, wanted, odd, held, budget>>
        BY <1>14, <3>2 DEF Updates!StorePackage, Updates!ui
      <4>2. Calm' => Calm /\ at'[q] = "mark" /\ packages' = Updates!With(wanted[q])
        BY <1>14, <3>2, <4>1 DEF Updates!StorePackage, Updates!Goes, Calm, UpdateTypes, StepType
      <4>3. Calm => held[q] = staged /\ DOMAIN packages = PendingSet
        BY <1>14, <3>2, <4>1 DEF Tidy, TidyAt, TidyDisk, Reading, Calm, Settled, Single,
           UpdateTypes, StepType
      <4>4. DOMAIN Updates!With(wanted[q]) = DOMAIN packages \cup {wanted[q]}
        BY DEF Updates!With
      <4>5. Calm' => DOMAIN packages' = PendingSet' \cup {wanted[q]}
        BY <4>1, <4>2, <4>3, <4>4 DEF PendingSet
      <4> QED
        BY <4>1, <4>2, <4>3, <4>5 DEF TidyAt, Reading
    <3> QED
      BY <3>1, <3>2
  <2> QED
    BY <2>1, <2>2 DEF Tidy
<1>15. ASSUME NEW p \in Programs, Updates!Mark(p) PROVE Tidy'
  <2>1. TidyDisk'
    <3>1. Calm' => at'[p] = "supersede"
      BY <1>15 DEF Updates!Mark, Updates!Goes, Calm, UpdateTypes, StepType
    <3> QED
      BY <3>1 DEF TidyDisk, Settled
  <2>2. ASSUME NEW q \in Programs PROVE TidyAt(q)'
    <3>1. CASE q # p
      BY <1>15, <3>1 DEF Updates!Mark, Updates!Goes, Updates!Pending, Updates!ui, Calm, TidyAt,
         Single, Reading, UpdateTypes, StepType
    <3>2. CASE q = p
      <4>1. at[q] = "mark" /\ UNCHANGED <<packages, wanted, odd, held, budget>>
        BY <1>15, <3>2 DEF Updates!Mark
      <4>2. Calm' => Calm /\ at'[q] = "supersede" /\ staged' = Updates!Pending(wanted[p], 0)
        BY <1>15, <3>2, <4>1 DEF Updates!Mark, Updates!Goes, Calm, UpdateTypes, StepType
      <4>3. Calm' => staged'.version = wanted[p] /\ staged' # NoFile
        BY <4>2, NoUpdateIsNone DEF Updates!Pending, UpdateTypes, StepType
      <4>4. Calm => held[q] = staged /\ DOMAIN packages = PendingSet \cup {wanted[q]}
        BY <4>1 DEF Tidy, TidyAt, Reading
      <4>5. Calm' => DOMAIN packages = HeldSet(q)' \cup {wanted[q]}
        BY <4>1, <4>2, <4>4 DEF PendingSet, HeldSet
      <4>6. Calm' => at'[q] = "supersede"
        BY <4>2
      <4> QED
        BY <3>2, <4>1, <4>3, <4>5, <4>6 DEF TidyAt, Reading
    <3> QED
      BY <3>1, <3>2
  <2> QED
    BY <2>1, <2>2 DEF Tidy
<1>16. ASSUME NEW p \in Programs, Updates!Supersede(p) PROVE Tidy'
  <2>1. TidyDisk'
    BY <1>16 DEF Updates!Supersede, Calm, Updates!ui, Tidy, TidyAt,
       Updates!Without, HeldSet, TidyDisk, PendingSet
  <2>2. ASSUME NEW q \in Programs PROVE TidyAt(q)'
    <3>1. at[p] # "off" /\ (Calm' => Calm) /\ \A r \in Programs \ {p} : at'[r] = at[r]
      BY <1>16 DEF Updates!Supersede, Updates!Goes, Updates!Ends, Updates!Sends, Calm, UpdateTypes, StepType
    <3>2. CASE q # p
      BY <3>1, <3>2, OthersAreOff
    <3>3. CASE q = p
      <4>1. Calm' => at'[p] = "done"
        BY <1>16 DEF Updates!Supersede, Updates!Goes, Updates!Ends, Updates!Sends, Calm, UpdateTypes, StepType
      <4> QED
        BY <3>3, <4>1, OutsideIsTidy
    <3> QED
      BY <3>2, <3>3
  <2> QED
    BY <2>1, <2>2 DEF Tidy
<1>17. ASSUME NEW p \in Programs, Updates!StepFails(p) PROVE Tidy'
  <2>1. TidyDisk'
    BY <1>17 DEF Updates!StepFails, Calm, TidyDisk
  <2>2. ASSUME NEW q \in Programs PROVE TidyAt(q)'
    <3>1. ~Calm'
      BY <1>17 DEF Updates!StepFails, Calm
    <3> QED
      BY <3>1 DEF TidyAt
  <2> QED
    BY <2>1, <2>2 DEF Tidy
<1>18. ASSUME NEW p \in Programs, Updates!Poll(p) PROVE Tidy'
  <2>1. TidyDisk'
    BY <1>18 DEF Updates!Poll, Updates!disk, Tidy, TidyDisk, TidyAt, Calm, Settled, Single,
       PendingSet, HeldSet, Reading, UpdateTypes, PlanType, Updates!Budgets, StepType, HeldType
  <2>2. ASSUME NEW q \in Programs PROVE TidyAt(q)'
    BY <1>18 DEF Updates!Poll, Updates!disk, Tidy, TidyDisk, TidyAt, Calm, Settled, Single,
       PendingSet, HeldSet, Reading, UpdateTypes, PlanType, Updates!Budgets, StepType, HeldType
  <2> QED
    BY <2>1, <2>2 DEF Tidy
<1>19. ASSUME NEW p \in Programs, Updates!Quit(p) PROVE Tidy'
  <2>1. TidyDisk'
    BY <1>19 DEF Updates!Quit, Updates!Goes, Updates!disk, Tidy, TidyDisk, TidyAt, Calm,
       Settled, Single, PendingSet, HeldSet, Reading, UpdateTypes, PlanType, Updates!Budgets,
       StepType, HeldType
  <2>2. ASSUME NEW q \in Programs PROVE TidyAt(q)'
    BY <1>19 DEF Updates!Quit, Updates!Goes, Updates!disk, Tidy, TidyDisk, TidyAt, Calm,
       Settled, Single, PendingSet, HeldSet, Reading, UpdateTypes, PlanType, Updates!Budgets,
       StepType, HeldType
  <2> QED
    BY <2>1, <2>2 DEF Tidy
<1>20. ASSUME Updates!Release PROVE Tidy'
  <2>1. TidyDisk'
    BY <1>20 DEF Updates!Release, Updates!disk, Updates!ui, Tidy, TidyDisk, TidyAt, Calm,
       Settled, Single, PendingSet, HeldSet, Reading, UpdateTypes, PlanType, Updates!Budgets,
       StepType, HeldType
  <2>2. ASSUME NEW q \in Programs PROVE TidyAt(q)'
    BY <1>20 DEF Updates!Release, Updates!disk, Updates!ui, Tidy, TidyDisk, TidyAt, Calm,
       Settled, Single, PendingSet, HeldSet, Reading, UpdateTypes, PlanType, Updates!Budgets,
       StepType, HeldType
  <2> QED
    BY <2>1, <2>2 DEF Tidy
<1>21. ASSUME Updates!InstallByHand PROVE Tidy'
  <2>1. TidyDisk'
    BY <1>21 DEF Updates!InstallByHand, Updates!ui, Tidy, TidyDisk, TidyAt, Calm, Settled,
       Single, PendingSet, HeldSet, Reading, UpdateTypes, PlanType, Updates!Budgets, StepType,
       HeldType
  <2>2. ASSUME NEW q \in Programs PROVE TidyAt(q)'
    BY <1>21 DEF Updates!InstallByHand, Updates!ui, Tidy, TidyDisk, TidyAt, Calm, Settled,
       Single, PendingSet, HeldSet, Reading, UpdateTypes, PlanType, Updates!Budgets, StepType,
       HeldType
  <2> QED
    BY <2>1, <2>2 DEF Tidy
<1>22. ASSUME Updates!Damage PROVE Tidy'
  <2>1. TidyDisk'
    BY <1>22 DEF Updates!Damage, Updates!ui, Tidy, TidyDisk, TidyAt, Calm, Settled, Single,
       PendingSet, HeldSet, Reading, UpdateTypes, PlanType, Updates!Budgets, StepType, HeldType
  <2>2. ASSUME NEW q \in Programs PROVE TidyAt(q)'
    BY <1>22 DEF Updates!Damage, Updates!ui, Tidy, TidyDisk, TidyAt, Calm, Settled, Single,
       PendingSet, HeldSet, Reading, UpdateTypes, PlanType, Updates!Budgets, StepType, HeldType
  <2> QED
    BY <2>1, <2>2 DEF Tidy
<1> QED
  BY <1>0, <1>1, <1>2, <1>3, <1>4, <1>5, <1>6, <1>7, <1>8, <1>9, <1>10, <1>11, <1>12, <1>13,
     <1>14, <1>15, <1>16, <1>17, <1>18, <1>19, <1>20, <1>21, <1>22 DEF Updates!Next,
     Updates!Start, Updates!Thread

(* So all hold in every behaviour, and the version never goes back.        *)
LEMMA UpdatesStart == Updates!Init => UpdatesInv
<1> SUFFICES ASSUME Updates!Init PROVE UpdatesInv
  OBVIOUS
<1>1. UpdateTypes
  <2>1. 1 \in Updates!Versions /\ Updates!Status("Checking", 0) \in Updates!Statuses
    BY UpdatesAssumption, StatusesAre DEF Updates!UpdaterAssumption, Updates!Versions,
       Updates!Status, Updates!Statuses
  <2>2. PlanType
    BY UpdatesAssumption DEF Updates!Init, PlanType, Updates!UpdaterAssumption
  <2>3. DiskType /\ PackagesType
    BY <2>1 DEF Updates!Init, DiskType, PackagesType
  <2>4. StepType /\ HeldType
    BY <2>1 DEF Updates!Init, StepType, HeldType, Updates!Steps
  <2>5. SaysType
    BY <2>1 DEF Updates!Init, SaysType
  <2> QED
    BY <2>2, <2>3, <2>4, <2>5 DEF UpdateTypes
<1>2. Sourced /\ Single /\ Forward
  BY DEF Updates!Init, Sourced, Single, Forward, Reading, Known
<1>3. Truthful
  BY DEF Updates!Init, Truthful, SaysStaged, Updates!Starting, Updates!Status
<1>4. Tidy
  BY DEF Updates!Init, Tidy, TidyDisk, TidyAt, PendingSet, HeldSet, Reading
<1> QED
  BY <1>1, <1>2, <1>3, <1>4, UpdateTypesAre DEF UpdatesInv

LEMMA UpdatesStep ==
  UpdatesInv /\ [Updates!Next]_Updates!vars => UpdatesInv' /\ [installed' < installed => odd \cap {"together", "by hand"} # {}]_Updates!vars
<1> SUFFICES ASSUME UpdatesInv, [Updates!Next]_Updates!vars
             PROVE  UpdatesInv' /\ [installed' < installed => odd \cap {"together", "by hand"} # {}]_Updates!vars
  OBVIOUS
<1>1. UpdateTypes /\ Sourced /\ Single /\ Forward /\ Truthful /\ Tidy
  BY UpdateTypesAre DEF UpdatesInv
<1>2. UpdateTypes'
  BY <1>1, UpdateTypesKept
<1>3. Sourced' /\ Single' /\ Forward' /\ Truthful' /\ Tidy'
  BY <1>1, <1>2, SourcedKept, SingleKept, ForwardKept, TruthfulKept, TidyKept
<1>4. Updates!TypeOK'
  BY <1>2, UpdateTypesAre DEF UpdateTypes, Updates!TypeOK, PlanType, DiskType, PackagesType,
     StepType, HeldType, SaysType
<1>5. UpdatesInv'
  BY <1>3, <1>4 DEF UpdatesInv
<1>6. [installed' < installed => odd \cap {"together", "by hand"} # {}]_Updates!vars
  <2>0. installed \in Nat /\ latest \in Nat /\ installed <= latest
    BY <1>1, UpdateNumbers DEF Sourced
  <2>1. CASE installed' = installed
    <3>1. ~ installed' < installed
      BY ONLY <2>0, <2>1
    <3> QED
      BY <3>1
  <2>2. ASSUME NEW p \in Programs, Updates!Install(p)
        PROVE  installed' < installed => odd \cap {"together", "by hand"} # {}
    <3>1. bytes[p] /\ installed' = held[p].version /\ held[p] # NoFile
      BY <1>1, <2>2 DEF Updates!Install, Sourced, Reading
    <3>2. Unmixed => installed <= held[p].version
      BY <1>1, <2>2 DEF Updates!Install, Forward, Reading
    <3>3. installed \in Nat /\ held[p].version \in Nat
      BY <1>1, <3>1, UpdateNumbers DEF Sourced
    <3> QED
      <4>1. Unmixed => ~ installed' < installed
        BY ONLY <3>1, <3>2, <3>3
      <4> QED
        BY <4>1, Zenon DEF Unmixed
  <2>3. ASSUME Updates!InstallByHand PROVE ~ installed' < installed
    <3>1. installed' = latest
      BY <2>3 DEF Updates!InstallByHand
    <3> QED
      BY ONLY <2>0, <3>1
  <2> QED
    BY <2>1, <2>2, <2>3 DEF Updates!Next, Updates!Start, Updates!Thread, Updates!vars,
       Updates!Check, Updates!ClearPackage, Updates!ClearReads, Updates!ClearState,
       Updates!CountAttempt, Updates!Damage, Updates!Download, Updates!Ends, Updates!Goes,
       Updates!HasStaged, Updates!Holds, Updates!InstallFails, Updates!Launch, Updates!Mark,
       Updates!Poll, Updates!Quit, Updates!ReadPackage, Updates!ReadPending, Updates!Release,
       Updates!StepFails, Updates!StorePackage, Updates!Supersede, Updates!Unmark, Updates!disk,
       Updates!ui
<1> QED
  BY <1>5, <1>6

LEMMA UpdatesHold == UpdatesInv => Updates!InstalledIsReleased /\ Updates!StagedIsThere /\ Updates!NothingLeft
<1> SUFFICES ASSUME UpdatesInv
             PROVE Updates!InstalledIsReleased /\ Updates!StagedIsThere /\ Updates!NothingLeft
  OBVIOUS
<1>1. Updates!InstalledIsReleased
  BY DEF UpdatesInv, Sourced, Updates!InstalledIsReleased
<1>2. Updates!StagedIsThere
  BY DEF UpdatesInv, Truthful, Updates!StagedIsThere, SaysStaged, IsStaged
<1>3. Updates!NothingLeft
  BY DEF UpdatesInv, Tidy, TidyDisk, Calm, Settled, PendingSet, Updates!NothingLeft
<1> QED
  BY <1>1, <1>2, <1>3

-----------------------------------------------------------------------------
(* A behaviour of the three is one of each.                                *)

LEMMA ClientNextIs ==
  [ClientNext]_licensesVars => [Client!Next]_Client!vars /\ [Next]_vars /\ [Updates!Next]_Updates!vars
BY DEF ClientNext, OfClient, licensesVars, clientVars, updatesVars, Client!vars, vars, Updates!vars

LEMMA SeatsNextIs ==
  [SeatsNext]_licensesVars => [Client!Next]_Client!vars /\ [Next]_vars /\ [Updates!Next]_Updates!vars
BY DEF SeatsNext, OfSeats, licensesVars, clientVars, updatesVars, Client!vars, vars, Updates!vars

LEMMA UpdatesNextIs ==
  [UpdatesNext]_licensesVars => [Client!Next]_Client!vars /\ [Next]_vars /\ [Updates!Next]_Updates!vars
BY DEF UpdatesNext, OfUpdates, licensesVars, clientVars, updatesVars, Client!vars, vars, Updates!vars

LEMMA LicensesParts ==
  LicensesSpec => /\ Spec
                  /\ Client!Init /\ [][Client!Next]_Client!vars
                  /\ Updates!Init /\ [][Updates!Next]_Updates!vars
<1>1. LicensesInit => Init /\ Client!Init /\ Updates!Init
  BY DEF LicensesInit
<1>2. [LicensesNext]_licensesVars => [Client!Next]_Client!vars /\ [Next]_vars /\ [Updates!Next]_Updates!vars
  BY ClientNextIs, SeatsNextIs, UpdatesNextIs DEF LicensesNext
<1>3. QED
  BY <1>1, <1>2, PTL DEF LicensesSpec, Spec

LEMMA ClientInvHolds == LicensesSpec => []ClientInv
BY LicensesParts, ClientStart, ClientSteps, PTL

LEMMA UpdatesInvHolds == LicensesSpec => []UpdatesInv
BY LicensesParts, UpdatesStart, UpdatesStep, PTL

(* Every variable of the three parts keeps its type.                       *)
THEOREM LicensesTyped == LicensesSpec => []TypesOK
<1>1. LicensesSpec => []TypeOK
  BY LicensesParts, BillingTypeCorrect, PTL
<1>2. ClientInv /\ TypeOK /\ UpdatesInv => TypesOK
  BY ClientIsTyped DEF TypesOK, UpdatesInv
<1>3. QED
  BY <1>1, <1>2, ClientInvHolds, UpdatesInvHolds, PTL

(* Whoever signed out stays signed out, whatever answer was under way, and *)
(* the client never loses the one token the server still accepts, nor      *)
(* leaves one behind: run_worker and the service of licensing.rs.          *)
THEOREM AccountIsKept == LicensesSpec => []AccountKept
<1>1. ClientInv => AccountKept
  BY ClientHolds DEF AccountKept
<1>2. QED
  BY <1>1, ClientInvHolds, PTL

(* However many programs run and whatever fails: what is installed is what *)
(* was released, an update that is said to be staged is, no package is left*)
(* that no start looks at, and no update takes back a version, but one of  *)
(* another program or one the user was faster than: updater.rs and its     *)
(* implementation.                                                         *)
THEOREM UpdatesAreSafe == LicensesSpec => UpdatesSafe
<1>1. LicensesSpec => Updates!NeverBack
  BY LicensesParts, UpdatesStart, UpdatesStep, PTL DEF Updates!NeverBack
<1>2. QED
  BY <1>1, UpdatesInvHolds, UpdatesHold, PTL DEF UpdatesSafe, Updates!UpdatesSafe

=============================================================================
