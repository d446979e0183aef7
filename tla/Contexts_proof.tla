----------------------------- MODULE Contexts_proof -----------------------------
(***************************************************************************)
(* Proofs about Contexts, for every set of clusters, accounts and edits.   *)
(* ContextsAssumption is a hypothesis of each lemma, so that a module that *)
(* instantiates this one can use them (ResourceWatches_proof).             *)
(***************************************************************************)
EXTENDS Contexts, TLAPS

-----------------------------------------------------------------------------
(* Contexts: what holds of the constants.                                  *)

LEMMA ContextsAre ==
  ASSUME ContextsAssumption PROVE
  /\ Home \in Contexts /\ Home \notin Clusters /\ Clusters \subseteq Contexts
  /\ Absent \notin Clusters /\ Absent \notin Looks /\ Plain \in Looks
  /\ Of("aws") \subseteq Clusters
  /\ \A p \in Managed : Of(p) \subseteq Clusters /\ Of(p) \cap Of("aws") = {}
  /\ \A a : OwnedBy(a) \subseteq Of("aws")
BY DEF ContextsAssumption, Contexts, Of, OwnedBy, Managed

LEMMA NothingIs ==
  ASSUME ContextsAssumption PROVE
  Nothing \in Files /\ Nothing[Home] = Absent
BY ContextsAre DEF Nothing, Files

LEMMA FileAdded ==
  ASSUME ContextsAssumption, NEW f \in Files, NEW c \in Clusters
  PROVE  /\ Added(f, c) \in Files
         /\ Configured(Added(f, c)) = Configured(f) \cup {c}
         /\ \A d \in Contexts : f[d] # Absent => Added(f, c)[d] = f[d]
BY ContextsAre DEF Added, With, Configured, Files

LEMMA FileSaved ==
  ASSUME ContextsAssumption, NEW f \in Files, NEW c \in Contexts, NEW look \in Looks
  PROVE  /\ With(f, c, look) \in Files /\ With(f, c, look)[c] = look
         /\ \A d \in Contexts : d # c => With(f, c, look)[d] = f[d]
         /\ f[c] # Absent => Configured(With(f, c, look)) = Configured(f)
BY ContextsAre DEF With, Configured, Files

-----------------------------------------------------------------------------
(* Commands and answers.                                                   *)

ScanOf   == [profile: Profiles, account: Accounts]
ImportOf == [cluster: Clusters, request: Nat, profile: Profiles \cup {NoProfile},
             account: Accounts \cup {NoProfile}]
SaveOf   == [context: Contexts, look: Looks]
AnyOf    == {<<>>} \cup ScanOf \cup ImportOf \cup SaveOf

Task ==
  [op: Nat, of: AnyOf, pc: {"start", "locked", "read", "merged"}, read: Files,
   kind: {"accounts", "discover", "scan", "import", "save", "reload"}]
Answered ==
  [kind: {"accounts", "discovered", "scanned", "scanFailed", "imported",
          "eksFailed", "failed", "saved", "saveFailed", "clusters"},
   op: Nat, of: AnyOf, known: SUBSET Clusters,
   found: (SUBSET Clusters) \cup (SUBSET (Profiles \X Accounts)),
   state: {<<>>} \cup Found \cup [Managed -> Found], read: Files]

ScanKinds   == {"scan", "scanned", "scanFailed"}
ImportKinds == {"import", "imported", "eksFailed", "failed"}
SaveKinds   == {"save", "saved", "saveFailed"}

(* What is under way: commands, and answers by then.                       *)
Answers == {results[i] : i \in DOMAIN results}
Things  == tasks \cup Answers

Fits(x) ==
  /\ x.kind \in ScanKinds => x.of \in ScanOf
  /\ x.kind \in ImportKinds \ {"failed"} => x.of \in ImportOf
  /\ x.kind \in SaveKinds => x.of \in SaveOf

Runs(t) ==
  /\ t \in Task /\ Fits(t)
  /\ t.pc = "read" => t.kind \in {"discover", "scan", "save"}
  /\ t.pc \in {"locked", "merged"} => t.kind \in {"import", "save"}

Tells(r) ==
  /\ r \in Answered /\ Fits(r)
  /\ r.kind = "accounts" =>
       r.found \subseteq Profiles \X Accounts /\ r.state \in Found
  /\ r.kind \in {"discovered", "scanned"} =>
       r.found \subseteq Clusters /\ r.known = r.found \cap Configured(r.read)
  /\ r.kind = "discovered" => r.state \in [Managed -> Found]
  /\ r.kind = "scanned" => r.state \in Found

(* Each has a number of its own.                                           *)
Numbered ==
  /\ ops \in Nat /\ results \in Seq(Answered)
  /\ \A t \in tasks : Runs(t)
  /\ \A r \in Answers : Tells(r)
  /\ \A x \in Things : x.op \in 1..ops
  /\ \A x, y \in Things : x.op = y.op => x = y
  /\ \A t \in tasks : t \notin Answers
  /\ \A i, j \in DOMAIN results : results[i].op = results[j].op => i = j

(* TypeOK, but for what Numbered has; n commands were sent.                *)
Plan == [clicks: Nat, saves: Nat, faults: Nat, edits: Nat, logins: Nat,
         shown: BOOLEAN]
ManagedState(n) ==
  [loading: BOOLEAN, importing: Clusters \cup {Absent}, error: BOOLEAN,
   found: SUBSET Clusters, known: SUBSET Clusters, state: [Managed -> Found],
   op: 0..n, blind: BOOLEAN]
AwsState(n) ==
  [request: 0..n, listing: BOOLEAN, profiles: SUBSET (Profiles \X Accounts),
   listed: Found, account: Accounts \cup {NoProfile},
   profile: Profiles \cup {NoProfile}, scanning: BOOLEAN,
   found: SUBSET Clusters, known: SUBSET Clusters, state: Found,
   blind: BOOLEAN, importError: BOOLEAN]
Save(n)   == [op: 0..n, look: Looks, result: {"none", "pending", "ok", "failed"}]
Editor(n) == [context: Contexts, op: 0..n, open: BOOLEAN, error: BOOLEAN]

Typed ==
  /\ plan \in Plan /\ identity \in [Profiles -> Accounts]
  /\ file \in Files /\ truth \in Files /\ rail \in Files
  /\ managed \in ManagedState(ops) /\ aws \in AwsState(ops)
  /\ saves \in [Contexts -> Save(ops)] /\ editor \in Editor(ops)
  /\ crossed \subseteq {"written", "edited", "login", "reload"}

Writes(t) == \/ t.pc \in {"locked", "merged"}
             \/ t.kind = "save" /\ t.pc = "read"

(* One command writes, and what it writes is an edit of the file as it is. *)
Locking ==
  /\ lock \in 0..ops /\ (lock # 0 => \E t \in tasks : t.op = lock)
  /\ \A t \in tasks : Writes(t) <=> t.op = lock
  /\ "written" \in crossed => "edited" \in crossed
  /\ "written" \notin crossed =>
       /\ file = truth
       /\ \A t \in tasks : t.pc = "merged" => t.read = Edit(t, file)

(* One cluster is added at a time, and no other of an account is looked for*)
(* meanwhile.                                                              *)
Importing ==
  /\ "reload" \notin crossed =>
       \A x, y \in Things :
         x.kind \in ImportKinds /\ y.kind \in ImportKinds =>
           x.of \in ImportOf /\ x.of.cluster = managed.importing /\ x = y
  /\ aws.scanning => managed.importing \notin Of("aws")

(* What regions and providers answered.                                    *)
Scanning ==
  /\ \A x \in Things : x.kind \in ScanKinds /\ x.op = aws.request =>
                         aws.account = x.of.account
  /\ \A x \in Things : x.kind = "scanned" => x.found \subseteq Of("aws")
  /\ aws.found \subseteq Of("aws")
  /\ "login" \notin crossed =>
       /\ \A x \in Things :
            /\ x.kind = "scan" /\ x.pc = "read" =>
                 identity[x.of.profile] = x.of.account
            /\ x.kind = "scanned" =>
                 /\ x.found \subseteq OwnedBy(x.of.account)
                 /\ x.state = "ok" => x.found = OwnedBy(x.of.account)
       /\ aws.found \subseteq OwnedBy(aws.account)
       /\ aws.profile # NoProfile /\ ~aws.scanning /\ aws.state = "ok" =>
            aws.found = OwnedBy(aws.account)

Complete ==
  /\ managed.found \cap Of("aws") = {}
  /\ \A p \in Managed : managed.op # 0 /\ managed.state[p] = "ok" =>
                          Of(p) \subseteq managed.found
  /\ \A x \in Things : x.kind = "discovered" =>
       /\ x.found \cap Of("aws") = {}
       /\ \A p \in Managed : x.state[p] = "ok" => Of(p) \subseteq x.found

Calm       == crossed \cap {"edited", "reload"} = {}
Blind(x)   == x.read[Home] = Absent
InAws(f)   == Configured(f) \cap Of("aws")
HasRead(x) == \/ x.kind = "scanned"
              \/ x.kind = "scan" /\ x.pc = "read"
Pending    == \E x \in Things : x.kind \in {"imported", "reload"}

(* The clusters of an account known to be in the file are, and all of them *)
(* unless the list of contexts is on its way.  A scan sees the file as it  *)
(* is until its answer is applied.                                         *)
ScanFresh ==
  Calm =>
    /\ \A x \in Things :
         HasRead(x) \/ x.kind = "clusters" =>
           Configured(x.read) \subseteq Configured(file)
    /\ aws.scanning =>
         \A x \in Things : HasRead(x) =>
             x.op # aws.request \/ Blind(x) \/ InAws(x.read) = InAws(file)
    /\ aws.known \subseteq aws.found \cap Configured(file)
    /\ \/ aws.blind \/ aws.known = aws.found \cap Configured(file)
       \/ Pending
       \/ \E x \in Things : x.kind = "clusters" /\ InAws(x.read) = InAws(file)

(* So are those of the other providers: the answer shown, or the one that  *)
(* is going to be, knows the file as it is; one that does not is followed. *)
Finds(x) == x.kind \in {"discover", "discovered"}
Good(x)  == \/ x.kind = "discover" /\ x.pc = "start"
            \/ Blind(x) \/ Configured(x.read) = Configured(file)
GoodAfter(op) == \E x \in Things : Finds(x) /\ x.op > op /\ Good(x)

DiscoveryFresh ==
  Calm =>
    \/ Pending \/ \E x \in Things : x.kind = "clusters"
    \/ /\ \/ managed.blind \/ managed.known = managed.found \cap Configured(file)
          \/ GoodAfter(managed.op)
       /\ \A x \in Things : Finds(x) /\ x.op >= managed.op =>
                              Good(x) \/ GoodAfter(x.op)

(* Of a context one look is saved at a time.                               *)
SavesPending ==
  /\ \A x \in Things : x.kind \in SaveKinds =>
       /\ saves[x.of.context].op = x.op
       /\ saves[x.of.context].result = "pending"
       /\ rail[x.of.context] # Absent
  /\ editor.open => rail[editor.context] # Absent

(* The rail shows the file, or what is missing is on its way.              *)
RailShown ==
  Calm =>
    /\ \A c \in Contexts : rail[c] # Absent =>
         /\ file[c] # Absent
         /\ \/ rail[c] = file[c]
            \/ \E x \in Things : x.kind = "saved" /\ x.of.context = c
    /\ \A x \in Things : x.kind = "saved" => x.of.look = file[x.of.context]
    /\ \A c \in Contexts : rail[c] = Absent =>
         /\ \A x \in Things : x.kind = "clusters" => x.read[c] \in {Absent, file[c]}
         /\ \/ file[c] = Absent \/ Pending
            \/ \E x \in Things : x.kind = "clusters" /\ x.read[c] # Absent

ContextsInv ==
  /\ Typed /\ Numbered /\ Locking /\ Importing /\ Scanning /\ Complete
  /\ ScanFresh /\ DiscoveryFresh /\ SavesPending /\ RailShown

LEMMA ContextsInvGives ==
  ASSUME ContextsAssumption PROVE
  ContextsInv => TypeOK /\ EditsKept /\ ResultsExact /\ OfferedIsMissing
<1> SUFFICES ASSUME ContextsInv
             PROVE  TypeOK /\ EditsKept /\ ResultsExact /\ OfferedIsMissing
  OBVIOUS
<1>0. TypeOK
  BY DEF ContextsInv, Typed, Plan, ManagedState, AwsState, Save, Editor, Numbered,
         Locking, Runs, Task, Things, TypeOK
<1>1. EditsKept /\ ResultsExact
  BY DEF ContextsInv, Locking, Scanning, Complete, EditsKept, ResultsExact
<1>2. ASSUME AtRest PROVE Calm /\ Things = {}
  BY <1>2 DEF AtRest, Calm, Things, Answers
<1>3. ASSUME AtRest
      PROVE  /\ managed.blind \/ managed.known = managed.found \cap Configured(file)
             /\ aws.blind \/ aws.known = aws.found \cap Configured(file)
  BY <1>2, <1>3 DEF ContextsInv, ScanFresh, DiscoveryFresh, Pending, GoodAfter
<1>4. ASSUME AtRest, NEW c \in Contexts PROVE rail[c] = file[c]
  BY <1>2, <1>4 DEF ContextsInv, RailShown, Pending
<1>5. QED
  BY <1>0, <1>1, <1>3, <1>4 DEF OfferedIsMissing

-----------------------------------------------------------------------------
(* What steps do to what is under way: some of it leaves, some comes.      *)

Changes(out, in) == Things' = (Things \ out) \cup in
Same(kinds) == \A x \in Things \cup Things' :
                 x.kind \in kinds => x \in Things /\ x \in Things'

New(N) ==
  /\ ops' \in Nat /\ ops' >= ops
  /\ \A n \in N : Runs(n) /\ n.pc = "start" /\ n.op \in (ops + 1)..ops'
  /\ \A n, m \in N : n.op = m.op => n = m

LEMMA CommandIs ==
  ASSUME ContextsAssumption, NEW op \in Nat, NEW of \in AnyOf,
         NEW kind \in {"accounts", "discover", "scan", "import", "save", "reload"}
  PROVE  /\ Command(op, kind, of) \in Task
         /\ Command(op, kind, of).op = op /\ Command(op, kind, of).kind = kind
         /\ Command(op, kind, of).of = of /\ Command(op, kind, of).pc = "start"
BY NothingIs DEF Command, Task

LEMMA CommandsSent ==
  ASSUME ContextsAssumption, Numbered, NEW N, New(N), tasks' = tasks \cup N, UNCHANGED results
  PROVE  Numbered' /\ Changes({}, N) /\ Answers' = Answers
<1>1. Answers' = Answers /\ Things' = Things \cup N
  BY DEF Answers, Things
<1>2. \A x \in Things' : x.op \in 1..ops'
  BY <1>1 DEF Numbered, New
<1>3. \A x, y \in Things' : x.op = y.op => x = y
  BY <1>1 DEF Numbered, New
<1>4. \A t \in tasks' : t \notin Answers'
  BY <1>1 DEF Numbered, New, Things
<1>5. QED
  BY <1>1, <1>2, <1>3, <1>4 DEF Numbered, New, Changes

LEMMA CommandMoves ==
  ASSUME ContextsAssumption, Numbered, NEW t \in tasks, NEW u, Runs(u), u.op = t.op, UNCHANGED ops,
         tasks' = (tasks \ {t}) \cup {u}, UNCHANGED results
  PROVE  Numbered' /\ Changes({t}, {u}) /\ Answers' = Answers
<1>1. Answers' = Answers /\ Things' = (Things \ {t}) \cup {u} /\ t \in Things
  BY DEF Answers, Things, Numbered
<1>2. \A x, y \in Things' : x.op = y.op => x = y
  BY <1>1 DEF Numbered
<1>3. \A s \in tasks' : s \notin Answers'
  BY <1>1 DEF Numbered, Things
<1>4. QED
  BY <1>1, <1>2, <1>3 DEF Numbered, Changes

LEMMA CommandAnswers ==
  ASSUME ContextsAssumption, Numbered, NEW t \in tasks, NEW r, Tells(r), r.op = t.op, UNCHANGED ops,
         Finish(t, r)
  PROVE  /\ Numbered' /\ Changes({t}, {r}) /\ Answers' = Answers \cup {r}
         /\ tasks' = tasks \ {t}
<1>1. r \in Answered /\ results \in Seq(Answered) /\ results' = Append(results, r)
      /\ tasks' = tasks \ {t}
  BY DEF Finish, Tells, Numbered
<1>2. /\ results' \in Seq(Answered) /\ Len(results) \in Nat
      /\ DOMAIN results = 1..Len(results)
      /\ DOMAIN results' = 1..(Len(results) + 1)
      /\ \A i \in DOMAIN results : results'[i] = results[i]
      /\ results'[Len(results) + 1] = r
  BY <1>1
<1>3. Answers' = Answers \cup {r}
  BY <1>2 DEF Answers
<1>4. Things' = (Things \ {t}) \cup {r} /\ t \in Things
  BY <1>1, <1>3 DEF Things, Numbered
<1>5. \A i, j \in DOMAIN results' : results'[i].op = results'[j].op => i = j
  BY <1>2, <1>4 DEF Answers, Things, Numbered
<1>6. \A x, y \in Things' : x.op = y.op => x = y
  BY <1>4 DEF Numbered
<1>7. \A s \in tasks' : s \notin Answers'
  BY <1>1, <1>3, <1>4 DEF Numbered, Things
<1>8. QED
  BY <1>1, <1>2, <1>3, <1>4, <1>5, <1>6, <1>7 DEF Numbered, Changes

LEMMA AnswerApplies ==
  ASSUME ContextsAssumption, Numbered, NEW kinds, Applies(kinds), NEW N, New(N), tasks' = tasks \cup N
  PROVE  /\ Numbered' /\ Changes({Result}, N) /\ Result \in Answers
         /\ Tells(Result) /\ Result.kind \in kinds /\ Result \in Things
         /\ Result \notin Things'
<1>1. results \in Seq(Answered) /\ results # <<>> /\ results' = Tail(results)
      /\ Result = results[1] /\ Result.kind \in kinds
  BY DEF Applies, Result, Numbered
<1>2. /\ results' \in Seq(Answered) /\ Len(results) \in Nat /\ Len(results) >= 1
      /\ DOMAIN results = 1..Len(results)
      /\ DOMAIN results' = 1..(Len(results) - 1)
      /\ \A i \in DOMAIN results' : results'[i] = results[i + 1]
  BY <1>1
<1>3. Answers' = Answers \ {Result} /\ Result \in Answers
  <2>1. \A i \in DOMAIN results' : results'[i] \in Answers /\ results'[i] # Result
    BY <1>1, <1>2 DEF Answers, Numbered
  <2>2. \A i \in DOMAIN results : i # 1 => /\ i - 1 \in DOMAIN results'
                                           /\ results[i] = results'[i - 1]
    BY <1>2
  <2>3. \A x : x \in Answers => x = Result \/ x \in Answers'
    BY <1>1, <2>2 DEF Answers
  <2>4. \A x : x \in Answers' => x \in Answers \ {Result}
    BY <2>1 DEF Answers
  <2>5. Result \in Answers
    BY <1>1, <1>2 DEF Answers
  <2>6. QED
    BY <2>3, <2>4, <2>5
<1>4. Result \in Things /\ Things' = (Things \ {Result}) \cup N
  BY <1>3 DEF Things, Numbered
<1>5. \A i, j \in DOMAIN results' : results'[i].op = results'[j].op => i = j
  BY <1>2 DEF Numbered
<1>6. \A x \in Things' : x.op \in 1..ops' /\ x # Result
  BY <1>4 DEF Numbered, New
<1>7. \A x, y \in Things' : x.op = y.op => x = y
  BY <1>4 DEF Numbered, New
<1>8. \A s \in tasks' : s \notin Answers'
  BY <1>3, <1>4 DEF Numbered, New, Things
<1>9. QED
  BY <1>1, <1>2, <1>3, <1>4, <1>5, <1>6, <1>7, <1>8 DEF Numbered, New, Changes

-----------------------------------------------------------------------------
(* What a step does not disturb.                                           *)

LEMMA SameIs ==
  ASSUME ContextsAssumption, NEW out, NEW in, Changes(out, in), NEW kinds,
         \A x \in out \cup in : x.kind \notin kinds
  PROVE  Same(kinds)
BY DEF Same, Changes

ScanFreshKinds == {"scan", "scanned", "clusters", "imported", "reload"}
FindKinds      == {"discover", "discovered", "clusters", "imported", "reload"}
RailKinds      == {"saved", "clusters", "imported", "reload"}

LEMMA CalmWas ==
  ASSUME ContextsAssumption PROVE
  crossed \subseteq crossed' /\ Calm' => Calm
BY DEF Calm

LEMMA ImportingKept ==
  ASSUME ContextsAssumption, Importing, Same(ImportKinds), crossed \subseteq crossed',
         managed'.importing = managed.importing, aws'.scanning => aws.scanning
  PROVE  Importing'
BY DEF Importing, Same

LEMMA ScanningKept ==
  ASSUME ContextsAssumption, Scanning, Same(ScanKinds), crossed \subseteq crossed',
         aws'.request = aws.request, aws'.account = aws.account,
         aws'.found = aws.found, aws'.profile = aws.profile,
         aws'.scanning = aws.scanning, aws'.state = aws.state, identity' = identity
  PROVE  Scanning'
BY DEF Scanning, Same, ScanKinds

LEMMA CompleteKept ==
  ASSUME ContextsAssumption, Complete, Same({"discovered"}), managed'.op = managed.op,
         managed'.found = managed.found, managed'.state = managed.state
  PROVE  Complete'
BY DEF Complete, Same

LEMMA ScanFreshKept ==
  ASSUME ContextsAssumption, ScanFresh, Same(ScanFreshKinds), crossed \subseteq crossed', file' = file,
         aws'.request = aws.request, aws'.scanning = aws.scanning,
         aws'.found = aws.found, aws'.known = aws.known, aws'.blind = aws.blind
  PROVE  ScanFresh'
BY CalmWas DEF ScanFresh, Same, ScanFreshKinds, HasRead, Blind, Pending

LEMMA DiscoveryFreshKept ==
  ASSUME ContextsAssumption, DiscoveryFresh, Same(FindKinds), crossed \subseteq crossed', file' = file,
         managed'.op = managed.op, managed'.found = managed.found,
         managed'.known = managed.known, managed'.blind = managed.blind
  PROVE  DiscoveryFresh'
BY CalmWas
   DEF DiscoveryFresh, Same, FindKinds, Finds, Good, GoodAfter, Blind, Pending

LEMMA SavesPendingKept ==
  ASSUME ContextsAssumption, SavesPending, Same(SaveKinds), UNCHANGED <<saves, rail, editor>>
  PROVE  SavesPending'
BY DEF SavesPending, Same

LEMMA RailShownKept ==
  ASSUME ContextsAssumption, RailShown, Same(RailKinds), crossed \subseteq crossed',
         UNCHANGED <<file, rail>>
  PROVE  RailShown'
BY CalmWas DEF RailShown, Same, RailKinds, Pending

(* The lock, when commands come, one goes on, and one ends.                *)
LEMMA LockingSent ==
  ASSUME ContextsAssumption, Numbered, Locking, NEW N, New(N), tasks' = tasks \cup N,
         UNCHANGED <<lock, file, truth, crossed>>
  PROVE  Locking'
<1>1. \A n \in N : ~Writes(n) /\ n.pc # "merged" /\ n.op # lock
  BY DEF New, Runs, Writes, Numbered, Locking
<1>2. QED
  BY <1>1 DEF Locking, New, Numbered

LEMMA LockingMoves ==
  ASSUME ContextsAssumption, Numbered, Locking, NEW t \in tasks, NEW u, u.op = t.op,
         Writes(u) <=> Writes(t), u.pc = "merged" => u.read = Edit(u, file),
         tasks' = (tasks \ {t}) \cup {u},
         UNCHANGED <<ops, lock, file, truth, crossed>>
  PROVE  Locking'
BY DEF Locking

LEMMA LockingEnds ==
  ASSUME ContextsAssumption, Numbered, Locking, NEW t \in tasks, ~Writes(t), tasks' = tasks \ {t},
         UNCHANGED <<ops, lock, file, truth>>, crossed \subseteq crossed',
         crossed' \subseteq crossed \cup {"reload"}
  PROVE  Locking'
BY DEF Locking

LEMMA LockingReleased ==
  ASSUME ContextsAssumption, Numbered, Locking, NEW t \in tasks, Writes(t), tasks' = tasks \ {t},
         Release, UNCHANGED <<ops, crossed>>,
         "written" \notin crossed => file' = truth'
  PROVE  Locking'
<1>1. \A s \in tasks' : ~Writes(s) /\ s.op # 0 /\ s.pc # "merged"
  BY DEF Locking, Numbered, Things, Writes
<1>2. lock' = 0 /\ ops \in Nat
  BY DEF Release, Numbered
<1>3. QED
  BY <1>1, <1>2 DEF Locking

-----------------------------------------------------------------------------
(* What the user does.                                                     *)

LEMMA SpendIs ==
  ASSUME ContextsAssumption, plan \in Plan, NEW what \in {"clicks", "saves", "faults", "edits", "logins"},
         Spend(what)
  PROVE  plan' \in Plan
<1>1. PICK n : n = plan[what] - 1
  OBVIOUS
<1>2. n \in Nat /\ plan' = [plan EXCEPT ![what] = n]
  BY <1>1 DEF Spend, Plan
<1>3. QED
  BY <1>2 DEF Plan

MaySend(kind, of) ==
  \/ kind = "scan" /\ of \in ScanOf
  \/ kind = "import" /\ of \in ImportOf
  \/ kind = "save" /\ of \in SaveOf
  \/ kind \in {"discover", "reload"} /\ of = <<>>

LEMMA SendIs ==
  ASSUME ContextsAssumption, Numbered, NEW kind, NEW of, NEW n,
         n = Command(ops + 1, kind, of), MaySend(kind, of), Send(kind, of)
  PROVE  New({n}) /\ tasks' = tasks \cup {n} /\ ops' = ops + 1
<1>1. n \in Task /\ n.kind = kind /\ n.of = of /\ n.op = ops + 1 /\ n.pc = "start"
  BY CommandIs DEF Numbered, MaySend, AnyOf
<1>2. tasks' = tasks \cup {n} /\ ops' = ops + 1 /\ ops \in Nat
  BY DEF Send, Numbered
<1>3. New({n})
  BY <1>1, <1>2 DEF New, Runs, Fits, ScanKinds, ImportKinds, SaveKinds, MaySend
<1>4. QED
  BY <1>1, <1>2, <1>3

LEMMA StillTyped ==
  ASSUME ContextsAssumption, Typed, ops \in Nat, NEW n \in Nat, n >= ops
  PROVE  /\ managed \in ManagedState(n) /\ aws \in AwsState(n)
         /\ saves \in [Contexts -> Save(n)]
         /\ editor \in Editor(n) /\ NoEditor \in Editor(n)
<1>1. 0..ops \subseteq 0..n /\ 0 \in 0..n
  OBVIOUS
<1>2. managed \in ManagedState(n) /\ aws \in AwsState(n)
  BY <1>1 DEF Typed, ManagedState, AwsState
<1>3. Save(ops) \subseteq Save(n) /\ NoEditor \in Editor(n)
  BY <1>1, ContextsAre DEF Save, Editor, NoEditor
<1>4. editor \in Editor(n)
  BY <1>1 DEF Typed, Editor
<1>5. QED
  BY <1>2, <1>3, <1>4 DEF Typed

LEMMA RefreshKeeps ==
  ASSUME ContextsAssumption, ContextsInv, Refresh, Spend("clicks"), editor' \in {editor, NoEditor}
  PROVE  ContextsInv'
<1>1. /\ ops \in Nat /\ ops' = ops + 2
      /\ tasks' = tasks \cup {Command(ops + 1, "accounts", <<>>),
                              Command(ops + 2, "discover", <<>>)}
      /\ UNCHANGED <<results, rail, saves, file, truth, identity, lock, crossed>>
  BY DEF ContextsInv, Numbered, Refresh, World
<1>2. PICK a, d :
      /\ a \in Task /\ a.kind = "accounts" /\ a.op = ops + 1 /\ a.pc = "start"
      /\ d \in Task /\ d.kind = "discover" /\ d.op = ops + 2 /\ d.pc = "start"
      /\ tasks' = tasks \cup {a, d}
  <2>1. <<>> \in AnyOf /\ ops + 1 \in Nat /\ ops + 2 \in Nat
    BY <1>1 DEF AnyOf
  <2>2. Command(ops + 1, "accounts", <<>>) \in Task
    BY <2>1, CommandIs
  <2>3. Command(ops + 2, "discover", <<>>) \in Task
    BY <2>1, CommandIs
  <2>4. QED
    BY <1>1, <2>2, <2>3 DEF Command
<1>3. New({a, d})
  BY <1>1, <1>2 DEF New, Runs, Fits, ScanKinds, ImportKinds, SaveKinds
<1>4. Numbered' /\ Changes({}, {a, d})
  BY <1>1, <1>2, <1>3, CommandsSent DEF ContextsInv
<1>5. /\ Same(ImportKinds) /\ Same(ScanKinds) /\ Same({"discovered"})
      /\ Same(ScanFreshKinds) /\ Same(SaveKinds) /\ Same(RailKinds)
  BY <1>2, <1>4, SameIs
     DEF ImportKinds, ScanKinds, ScanFreshKinds, SaveKinds, RailKinds
<1>6. /\ aws'.request = ops + 1 /\ ~aws'.scanning /\ aws'.found = {} /\ aws'.known = {}
      /\ aws'.account = NoProfile /\ aws'.profile = NoProfile
      /\ managed' = [managed EXCEPT !.loading = TRUE, !.error = FALSE]
  BY DEF ContextsInv, Typed, AwsState, Refresh, Cleared
<1>7. /\ managed'.importing = managed.importing /\ managed'.op = managed.op
      /\ managed'.found = managed.found /\ managed'.known = managed.known
      /\ managed'.state = managed.state /\ managed'.blind = managed.blind
  BY <1>6 DEF ContextsInv, Typed, ManagedState
<1>8. Typed'
  <2>1. plan' \in Plan
    BY SpendIs DEF ContextsInv, Typed
  <2>2. /\ managed \in ManagedState(ops') /\ aws \in AwsState(ops')
        /\ editor' \in Editor(ops') /\ saves' \in [Contexts -> Save(ops')]
        /\ ops + 1 \in 0..ops'
    BY <1>1, StillTyped DEF ContextsInv
  <2>3. aws' \in AwsState(ops')
    BY <2>2 DEF AwsState, Refresh, Cleared, Found
  <2>4. managed' \in ManagedState(ops')
    BY <1>6, <2>2 DEF ManagedState
  <2>5. QED
    BY <1>1, <2>1, <2>2, <2>3, <2>4 DEF ContextsInv, Typed
<1>9. Locking' /\ Importing' /\ Complete'
  BY <1>1, <1>2, <1>3, <1>5, <1>6, <1>7, LockingSent, ImportingKept, CompleteKept
     DEF ContextsInv
<1>10. Scanning'
  BY <1>1, <1>5, <1>6 DEF Same, ContextsInv, Numbered, Scanning, ScanKinds
<1>11. ScanFresh'
  BY <1>1, <1>5, <1>6 DEF ContextsInv, ScanFresh, Same, ScanFreshKinds, HasRead, Calm
<1>12. DiscoveryFresh'
  <2>1. \A x \in Things' : x \in Things \/ x = a \/ x = d
    BY <1>4 DEF Changes
  <2>2. d \in Things' /\ Things \subseteq Things' /\ Finds(d) /\ Good(d)'
    BY <1>2, <1>4 DEF Changes, Finds, Good
  <2>3. \A x \in Things : Good(x) => Good(x)'
    BY <1>1 DEF Good, Blind
  <2>4. \A x \in Things : x.op < d.op
    BY <1>1, <1>2 DEF ContextsInv, Numbered
  <2>5. managed.op < d.op
    BY <1>1, <1>2 DEF ContextsInv, Typed, ManagedState
  <2>6. QED
    BY <1>1, <1>2, <1>7, <2>1, <2>2, <2>4, <2>5
       DEF ContextsInv, DiscoveryFresh, Finds, GoodAfter, Calm
<1>13. SavesPending'
  BY <1>1, <1>5 DEF ContextsInv, SavesPending, Same, NoEditor
<1>14. RailShown'
  BY <1>1, <1>5, RailShownKept DEF ContextsInv
<1>15. QED
  BY <1>4, <1>8, <1>9, <1>10, <1>11, <1>12, <1>13, <1>14 DEF ContextsInv

LEMMA ScanKeeps ==
  ASSUME ContextsAssumption, ContextsInv, NEW p \in Profiles, NEW a \in Accounts, Scan(p, a)
  PROVE  ContextsInv'
<1> DEFINE of == [profile |-> p, account |-> a]
<1>1. /\ of \in ScanOf /\ of \in AnyOf /\ of.profile = p /\ of.account = a
      /\ Send("scan", of) /\ ops \in Nat /\ Numbered
      /\ UNCHANGED <<results, rail, saves, editor, file, truth, identity, lock, crossed>>
  BY DEF Scan, World, ScanOf, AnyOf, ContextsInv, Numbered
<1> HIDE DEF of
<1>2. PICK n : n = Command(ops + 1, "scan", of)
  OBVIOUS
<1>2n. /\ New({n}) /\ tasks' = tasks \cup {n} /\ ops' = ops + 1
       /\ n.kind = "scan" /\ n.of = of /\ n.op = ops + 1 /\ n.pc = "start"
  BY <1>1, <1>2, SendIs DEF MaySend, Command
<1>3. Numbered' /\ Changes({}, {n})
  BY <1>1, <1>2n, CommandsSent
<1>4. /\ Same(ImportKinds) /\ Same(FindKinds) /\ Same(SaveKinds) /\ Same(RailKinds)
      /\ Same({"discovered"}) /\ Same(ScanFreshKinds \ {"scan"})
  BY <1>2n, <1>3, SameIs
     DEF ImportKinds, FindKinds, ScanFreshKinds, SaveKinds, RailKinds
<1>5. /\ aws'.request = ops + 1 /\ aws'.found = {} /\ aws'.known = {}
      /\ aws'.account = a /\ aws'.profile = p /\ aws'.scanning
      /\ ~aws.scanning /\ managed.importing = Absent
      /\ managed' = [managed EXCEPT !.error = FALSE]
  BY DEF ContextsInv, Typed, AwsState, Scan, Cleared, MayScan
<1>6. /\ managed'.importing = managed.importing /\ managed'.op = managed.op
      /\ managed'.found = managed.found /\ managed'.known = managed.known
      /\ managed'.state = managed.state /\ managed'.blind = managed.blind
  BY <1>5 DEF ContextsInv, Typed, ManagedState
<1>7. Typed'
  <2>1. plan' \in Plan
    BY SpendIs DEF ContextsInv, Typed, Scan
  <2>2. /\ managed \in ManagedState(ops') /\ aws \in AwsState(ops')
        /\ editor \in Editor(ops') /\ saves \in [Contexts -> Save(ops')]
        /\ ops + 1 \in 0..ops'
    BY <1>1, <1>2n, StillTyped DEF ContextsInv
  <2>3. aws' \in AwsState(ops')
    BY <2>2 DEF AwsState, Scan, Cleared, Found
  <2>4. managed' \in ManagedState(ops')
    BY <1>5, <2>2 DEF ManagedState
  <2>5. QED
    BY <1>1, <2>1, <2>2, <2>3, <2>4 DEF ContextsInv, Typed
<1>8. Locking' /\ Complete' /\ DiscoveryFresh' /\ SavesPending' /\ RailShown'
  BY <1>1, <1>2n, <1>4, <1>6, LockingSent, CompleteKept, DiscoveryFreshKept,
     SavesPendingKept, RailShownKept DEF ContextsInv
<1>9. Importing'
  BY <1>1, <1>4, <1>5, <1>6, ContextsAre DEF ContextsInv, Importing, Same, Of
<1>10. Scanning'
  BY <1>1, <1>3, <1>5, <1>2n DEF Changes, Numbered, ContextsInv, Scanning,
     ScanKinds
<1>11. ScanFresh'
  BY <1>1, <1>2n, <1>3, <1>5 DEF Changes, Numbered, HasRead, ContextsInv,
     ScanFresh, Calm
<1>12. QED
  BY <1>3, <1>7, <1>8, <1>9, <1>10, <1>11 DEF ContextsInv

LEMMA ImportKeeps ==
  ASSUME ContextsAssumption, ContextsInv, NEW c \in Clusters, Import(c)
  PROVE  ContextsInv'
<1>1. PICK im :
        im = [cluster |-> c, request |-> aws.request, profile |-> aws.profile,
              account |-> aws.account]
  OBVIOUS
<1>2. /\ im \in ImportOf /\ im \in AnyOf /\ im.cluster = c /\ Numbered /\ ops \in Nat
      /\ Send("import", im)
      /\ UNCHANGED <<results, rail, saves, editor, file, truth, identity, lock, crossed>>
  BY <1>1 DEF Import, World, ImportOf, AnyOf, ContextsInv, Numbered, Typed, AwsState
<1>3. PICK n : n = Command(ops + 1, "import", im)
  OBVIOUS
<1>3n. /\ New({n}) /\ tasks' = tasks \cup {n} /\ ops' = ops + 1
       /\ n.kind = "import" /\ n.of = im /\ n.op = ops + 1 /\ n.pc = "start"
  BY <1>2, <1>3, SendIs DEF MaySend, Command
<1>4. Numbered' /\ Changes({}, {n})
  BY <1>2, <1>3n, CommandsSent
<1>5. /\ Same(ScanKinds) /\ Same(FindKinds) /\ Same(SaveKinds) /\ Same(RailKinds)
      /\ Same({"discovered"}) /\ Same(ScanFreshKinds)
  BY <1>3n, <1>4, SameIs
     DEF ScanKinds, FindKinds, ScanFreshKinds, SaveKinds, RailKinds
<1>6. /\ aws'.request = aws.request /\ aws'.found = aws.found
      /\ aws'.known = aws.known /\ aws'.account = aws.account
      /\ aws'.profile = aws.profile /\ aws'.scanning = aws.scanning
      /\ aws'.state = aws.state /\ aws'.blind = aws.blind
      /\ \A k : aws \in AwsState(k) => aws' \in AwsState(k)
  BY DEF ContextsInv, Typed, AwsState, Import
<1>7. /\ managed'.importing = c /\ managed'.op = managed.op
      /\ managed'.found = managed.found /\ managed'.known = managed.known
      /\ managed'.state = managed.state /\ managed'.blind = managed.blind
      /\ managed.importing = Absent
      /\ \A k : managed \in ManagedState(k) => managed' \in ManagedState(k)
  BY DEF ContextsInv, Typed, ManagedState, Import, MayImport
<1>8. Typed'
  <2>1. plan' \in Plan
    BY SpendIs DEF ContextsInv, Typed, Import
  <2>2. QED
    BY <1>2, <1>3n, <1>6, <1>7, <2>1, StillTyped DEF ContextsInv, Typed
<1>9. /\ Locking' /\ Scanning' /\ Complete' /\ ScanFresh' /\ DiscoveryFresh'
      /\ SavesPending' /\ RailShown'
  BY <1>2, <1>3n, <1>5, <1>6, <1>7, LockingSent, ScanningKept, CompleteKept,
     ScanFreshKept, DiscoveryFreshKept, SavesPendingKept, RailShownKept
     DEF ContextsInv
<1>10. Importing'
  BY <1>7, ContextsAre, <1>2, <1>3n, <1>4, <1>6 DEF ContextsInv, Importing,
     ImportOf, Import, MayImport, EksRows, ManagedRows, Complete, Changes
<1>11. QED
  BY <1>4, <1>8, <1>9, <1>10 DEF ContextsInv

(* A step that changes nothing but the editor.                             *)
LEMMA EditorKeeps ==
  ASSUME ContextsAssumption, ContextsInv, editor' \in Editor(ops),
         editor'.open => rail[editor'.context] # Absent,
         UNCHANGED <<plan, World, tasks, ops, managed, aws, rail, saves>>
  PROVE  ContextsInv'
<1>1. Things' = Things
  BY DEF Things, Answers, World
<1>2. \A kinds : Same(kinds)
  BY <1>1 DEF Same
<1>3. /\ Typed' /\ Locking' /\ Importing' /\ Scanning' /\ Complete' /\ ScanFresh'
      /\ DiscoveryFresh' /\ RailShown'
  BY <1>2, ImportingKept, ScanningKept, CompleteKept, ScanFreshKept,
     DiscoveryFreshKept, RailShownKept DEF ContextsInv, World, Typed, Locking
<1>4. Numbered' /\ SavesPending'
  BY <1>1 DEF ContextsInv, World, Numbered, Answers, SavesPending
<1>5. QED
  BY <1>3, <1>4 DEF ContextsInv

LEMMA EditorsKeep ==
  ASSUME ContextsAssumption, ContextsInv, CloseEditor \/ SaveSettles \/ \E c \in Contexts : OpenEditor(c)
  PROVE  ContextsInv'
<1>1. editor \in Editor(ops) /\ ops \in Nat /\ saves \in [Contexts -> Save(ops)]
      /\ NoEditor \in Editor(ops) /\ ~NoEditor.open
      /\ (editor.open => rail[editor.context] # Absent)
  BY ContextsAre DEF ContextsInv, Typed, Numbered, SavesPending, NoEditor,
     Editor
<1>2. CASE CloseEditor
  BY <1>1, <1>2, EditorKeeps DEF CloseEditor
<1>3. CASE SaveSettles
  <2>1. [editor EXCEPT !.op = 0, !.error = TRUE] \in Editor(ops)
        /\ [editor EXCEPT !.op = 0, !.error = TRUE].context = editor.context
    <3>1. PICK e : e = [editor EXCEPT !.op = 0, !.error = TRUE]
      OBVIOUS
    <3>2. e = [context |-> editor.context, op |-> 0, open |-> editor.open,
               error |-> TRUE]
      BY <1>1, <3>1 DEF Editor
    <3>3. e \in Editor(ops) /\ e.context = editor.context
      BY <1>1, <3>2 DEF Editor
    <3>4. QED
      BY ONLY <3>1, <3>3
  <2>2. /\ editor' \in Editor(ops)
        /\ editor'.open => rail[editor'.context] # Absent
    BY <1>1, <1>3, <2>1 DEF SaveSettles
  <2>3. QED
    BY <1>3, <2>2, EditorKeeps DEF SaveSettles
<1>4. CASE \E c \in Contexts : OpenEditor(c)
  <2> SUFFICES ASSUME NEW c \in Contexts, OpenEditor(c) PROVE ContextsInv'
    BY <1>4
  <2>1. editor' \in Editor(ops) /\ rail[editor'.context] # Absent
    BY <1>1 DEF OpenEditor, Editor, Save
  <2>2. QED
    BY <2>1, EditorKeeps DEF OpenEditor
<1>5. QED
  BY <1>2, <1>3, <1>4

LEMMA SaveLookKeeps ==
  ASSUME ContextsAssumption, ContextsInv, NEW look \in Looks, SaveLook(look)
  PROVE  ContextsInv'
<1>1. PICK c, of : c = editor.context /\ of = [context |-> c, look |-> look]
  OBVIOUS
<1>2. /\ c \in Contexts /\ of \in SaveOf /\ of \in AnyOf /\ of.context = c
      /\ Numbered /\ ops \in Nat /\ Send("save", of) /\ ops' = ops + 1
      /\ UNCHANGED <<results, rail, managed, aws, file, truth, identity, lock, crossed>>
  BY <1>1 DEF SaveLook, World, SaveOf, AnyOf, ContextsInv, Numbered, Typed, Editor, Send
<1>3. PICK n : n = Command(ops + 1, "save", of)
  OBVIOUS
<1>3n. /\ New({n}) /\ tasks' = tasks \cup {n}
       /\ n.kind = "save" /\ n.of = of /\ n.op = ops + 1 /\ n.pc = "start"
  BY <1>2, <1>3, SendIs DEF MaySend, Command
<1>4. Numbered' /\ Changes({}, {n})
  BY <1>2, <1>3n, CommandsSent
<1>5. /\ Same(ImportKinds) /\ Same(ScanKinds) /\ Same(FindKinds) /\ Same(RailKinds)
      /\ Same({"discovered"}) /\ Same(ScanFreshKinds)
  BY <1>3n, <1>4, SameIs
     DEF ImportKinds, ScanKinds, FindKinds, ScanFreshKinds, RailKinds
<1>6. /\ saves \in [Contexts -> Save(ops')] /\ editor \in Editor(ops')
      /\ ops + 1 \in 0..ops' /\ managed \in ManagedState(ops')
      /\ aws \in AwsState(ops')
  BY <1>2, StillTyped DEF ContextsInv
<1>7. /\ saves' = [saves EXCEPT ![c] =
                     [op |-> ops + 1, look |-> look, result |-> "pending"]]
      /\ editor' = [editor EXCEPT !.op = ops + 1, !.error = FALSE]
      /\ editor.open /\ saves[c].result # "pending"
  BY <1>1 DEF SaveLook, Saving
<1>8. Typed'
  <2>1. plan' \in Plan
    BY SpendIs DEF ContextsInv, Typed, SaveLook
  <2>2. saves' \in [Contexts -> Save(ops')] /\ editor' \in Editor(ops')
    BY <1>2, <1>6, <1>7 DEF Save, Editor
  <2>3. QED
    BY <1>2, <1>6, <2>1, <2>2 DEF ContextsInv, Typed
<1>9. /\ Locking' /\ Importing' /\ Scanning' /\ Complete' /\ ScanFresh'
      /\ DiscoveryFresh' /\ RailShown'
  BY <1>2, <1>3n, <1>5, LockingSent, ImportingKept, ScanningKept, CompleteKept,
     ScanFreshKept, DiscoveryFreshKept, RailShownKept
     DEF ContextsInv
<1>10. SavesPending'
  <2>1. \A x \in Things : x.kind \in SaveKinds =>
          x.of \in SaveOf /\ x.of.context # c
    BY <1>7 DEF ContextsInv, SavesPending, Numbered, Things, Runs, Tells, Fits
  <2>2. \A d \in Contexts : d # c => saves'[d] = saves[d]
    BY <1>6, <1>7
  <2>3. saves'[c].op = n.op /\ saves'[c].result = "pending"
    BY <1>2, <1>3n, <1>6, <1>7
  <2>4. editor'.context = c /\ rail'[c] # Absent
    BY <1>1, <1>2, <1>6, <1>7 DEF ContextsInv, SavesPending, Editor
  <2>5. QED
    BY <1>2, <1>3n, <1>4, <2>1, <2>2, <2>3, <2>4
       DEF ContextsInv, SavesPending, Changes, SaveOf
<1>11. QED
  BY <1>4, <1>8, <1>9, <1>10 DEF ContextsInv

-----------------------------------------------------------------------------
(* What the worker does.                                                   *)

LEMMA TaskIs ==
  ASSUME ContextsAssumption, ContextsInv, NEW t \in tasks
  PROVE  /\ t \in Things /\ t \in Task /\ Runs(t) /\ Numbered /\ ops \in Nat
         /\ t.op \in 1..ops
BY DEF ContextsInv, Numbered, Things, Runs

MayMove(t, pc) ==
  \/ pc = "read" /\ t.kind \in {"discover", "scan", "save"}
  \/ pc \in {"locked", "merged"} /\ t.kind \in {"import", "save"}

Moved(u, t, pc, read) ==
  /\ Runs(u) /\ u.op = t.op /\ u.kind = t.kind /\ u.of = t.of
  /\ u.pc = pc /\ u.read = read /\ tasks' = (tasks \ {t}) \cup {u}
  /\ Changes({t}, {u})

LEMMA Steps ==
  ASSUME ContextsAssumption, ContextsInv, NEW t \in tasks, NEW pc, MayMove(t, pc), NEW read \in Files,
         Moves(t, pc, read), UNCHANGED ops
  PROVE  Numbered' /\ t \in Things /\ \E u : Moved(u, t, pc, read)
<1>1. PICK u : u = [t EXCEPT !.pc = pc, !.read = read]
  OBVIOUS
<1>2. u = [op |-> t.op, kind |-> t.kind, of |-> t.of, pc |-> pc, read |-> read]
  BY <1>1, TaskIs DEF Task
<1>3. u \in Task /\ u.op = t.op /\ u.kind = t.kind /\ u.of = t.of /\ u.pc = pc
      /\ u.read = read
  BY <1>2, TaskIs DEF Task, MayMove
<1>4. Runs(u)
  BY <1>3, TaskIs DEF Runs, Fits, MayMove
<1>5. tasks' = (tasks \ {t}) \cup {u} /\ UNCHANGED results
  BY <1>1 DEF Moves
<1>6. Numbered' /\ Changes({t}, {u})
  BY <1>3, <1>4, <1>5, TaskIs, CommandMoves
<1>7. QED
  BY <1>3, <1>4, <1>5, <1>6, TaskIs DEF Moved

LEMMA AnswerIs ==
  ASSUME ContextsAssumption, NEW t \in Task, NEW r,
         NEW kind \in {"scanFailed", "imported", "eksFailed", "failed", "saved",
                       "saveFailed", "clusters", "accounts", "discovered",
                       "scanned"},
         r = Answer(t, kind)
  PROVE  /\ r \in Answered /\ r.kind = kind /\ r.op = t.op /\ r.of = t.of
         /\ r.read = t.read
<1>1. r = [kind |-> kind, op |-> t.op, of |-> t.of, known |-> {}, found |-> {},
           state |-> <<>>, read |-> t.read]
  BY DEF Answer
<1>2. {} \in SUBSET Clusters /\ <<>> \in {<<>>}
  OBVIOUS
<1>3. QED
  BY <1>1, <1>2 DEF Task, Answered

LEMMA AsideTyped ==
  ASSUME ContextsAssumption, ContextsInv, Aside, plan' \in Plan, file' \in Files, truth' \in Files,
         identity' \in [Profiles -> Accounts],
         crossed' \subseteq {"written", "edited", "login", "reload"}
  PROVE  Typed'
BY DEF ContextsInv, Typed, Aside, ui

LEMMA AsideKeeps ==
  ASSUME ContextsAssumption, ContextsInv, Aside, crossed \subseteq crossed'
  PROVE  /\ Same(ImportKinds) => Importing'
         /\ Same(ScanKinds) /\ identity' = identity => Scanning'
         /\ Same({"discovered"}) => Complete'
         /\ Same(ScanFreshKinds) /\ file' = file => ScanFresh'
         /\ Same(FindKinds) /\ file' = file => DiscoveryFresh'
         /\ Same(SaveKinds) => SavesPending'
         /\ Same(RailKinds) /\ file' = file => RailShown'
BY ImportingKept, ScanningKept, CompleteKept, ScanFreshKept, DiscoveryFreshKept,
   SavesPendingKept, RailShownKept DEF ContextsInv, Aside, ui

LEMMA HoldsIs ==
  ASSUME ContextsAssumption, ContextsInv, NEW fault \in BOOLEAN, Holds(fault)
  PROVE  plan' \in Plan
BY SpendIs DEF ContextsInv, Typed, Holds

Outer == <<file, truth, identity, lock, crossed>>

LEMMA ScanFailsKeeps ==
  ASSUME ContextsAssumption, ContextsInv, NEW t \in tasks, t.kind = "scan",
         Finish(t, Answer(t, "scanFailed")), plan' \in Plan, UNCHANGED Outer, Aside
  PROVE  ContextsInv'
<1>1. PICK r : r = Answer(t, "scanFailed")
  OBVIOUS
<1>2. r \in Answered /\ r.op = t.op /\ r.of = t.of
  BY <1>1, TaskIs, AnswerIs
<1>3. r.kind = "scanFailed"
  BY <1>1 DEF Answer
<1>4. Tells(r)
  BY <1>2, <1>3, TaskIs DEF Tells, Runs, Fits, ScanKinds, ImportKinds, SaveKinds
<1>5. Numbered' /\ Changes({t}, {r}) /\ tasks' = tasks \ {t}
  BY <1>1, <1>2, <1>4, TaskIs, CommandAnswers DEF Aside
<1>6. /\ Same(ImportKinds) /\ Same({"discovered"}) /\ Same(FindKinds)
      /\ Same(SaveKinds) /\ Same(RailKinds)
  BY <1>3, <1>5, SameIs DEF ImportKinds, FindKinds, SaveKinds, RailKinds
<1>7. /\ Typed' /\ Importing' /\ Complete' /\ DiscoveryFresh' /\ SavesPending'
      /\ RailShown'
  BY <1>6, AsideTyped, AsideKeeps DEF ContextsInv, Typed, Outer
<1>8. Locking'
  BY <1>5, TaskIs, LockingEnds DEF ContextsInv, Aside, Outer, Runs, Writes
<1>9. Scanning'
  BY <1>3, TaskIs, <1>2, <1>5 DEF ContextsInv, Scanning, ScanKinds, Changes,
     Aside, ui, Outer
<1>10. ScanFresh'
  BY <1>3, <1>5
     DEF ContextsInv, ScanFresh, Changes, Aside, ui, Outer, HasRead, Calm, Pending, Blind
<1>11. QED
  BY <1>5, <1>7, <1>8, <1>9, <1>10 DEF ContextsInv

LEMMA ReadReferencesKeeps ==
  ASSUME ContextsAssumption, ContextsInv, NEW t \in tasks, ReadReferences(t)
  PROVE  ContextsInv'
<1>1. PICK unreadable \in BOOLEAN :
        /\ Holds(unreadable)
        /\ IF t.kind = "scan" /\ identity[t.of.profile] # t.of.account
             THEN Finish(t, Answer(t, "scanFailed"))
             ELSE Moves(t, "read", IF unreadable THEN Nothing ELSE file)
  BY DEF ReadReferences
<1>2. /\ plan' \in Plan /\ UNCHANGED Outer /\ Aside
      /\ t.pc = "start" /\ t.kind \in {"discover", "scan"}
  BY <1>1, HoldsIs DEF ReadReferences, Outer
<1>3. CASE t.kind = "scan" /\ identity[t.of.profile] # t.of.account
  BY <1>1, <1>2, <1>3, ScanFailsKeeps
<1>4. CASE ~(t.kind = "scan" /\ identity[t.of.profile] # t.of.account)
  <2>1. PICK read : read = IF unreadable THEN Nothing ELSE file
    OBVIOUS
  <2>2. /\ read \in Files
        /\ read = file \/ read[Home] = Absent
        /\ Configured(read) \subseteq Configured(file)
    BY <2>1, NothingIs DEF ContextsInv, Typed, Configured, Nothing, Contexts
  <2>3. PICK u : Moved(u, t, "read", read) /\ Numbered' /\ t \in Things
    BY <1>1, <1>2, <1>4, <2>1, <2>2, Steps DEF Aside, MayMove
  <2>4. Same(ImportKinds) /\ Same({"discovered"}) /\ Same(SaveKinds) /\ Same(RailKinds)
    BY <1>2, <2>3, SameIs DEF Moved, ImportKinds, SaveKinds, RailKinds
  <2>5. Typed' /\ Importing' /\ Complete' /\ SavesPending' /\ RailShown'
    BY <1>2, <2>4, AsideTyped, AsideKeeps DEF ContextsInv, Typed, Outer
  <2>6. Locking'
    BY <1>2, <2>3, TaskIs, LockingMoves DEF Moved, ContextsInv, Aside, Outer, Writes
  <2>7. Scanning'
    BY TaskIs, <1>4, <2>3, <1>2 DEF ContextsInv, Scanning, ScanKinds, Moved,
       Changes, Aside, ui, Outer
  <2>8. ScanFresh'
    <3>1. Configured(u.read) \subseteq Configured(file)
          /\ (Blind(u) \/ InAws(u.read) = InAws(file))
      BY <2>2, <2>3 DEF Moved, Blind
    <3>2. QED
      BY <1>2, <2>3, <3>1
         DEF Moved, ContextsInv, ScanFresh, Changes, Aside, ui, Outer, HasRead, Calm, Pending,
             Blind
  <2>9. DiscoveryFresh'
    <3>1. Good(u)' /\ (Finds(u) <=> Finds(t))
      BY <1>2, <2>2, <2>3 DEF Moved, Good, Blind, Outer, Finds
    <3>2. \A x : Good(x)' <=> Good(x)
      BY <1>2 DEF Good, Blind, Outer
    <3>3. \A op : GoodAfter(op) => GoodAfter(op)'
      BY <2>3, <3>1, <3>2 DEF Moved, GoodAfter, Changes, Finds
    <3>4. \A x \in Things' : Finds(x) /\ x.op >= managed.op =>
                               Good(x)' \/ x \in Things
      BY <2>3, <3>1 DEF Moved, Changes
    <3>5. QED
      BY <1>2, <2>3, <3>2, <3>3, <3>4
         DEF Moved, ContextsInv, DiscoveryFresh, Changes, Aside, ui, Outer, Calm, Pending
  <2>10. QED
    BY <2>3, <2>5, <2>6, <2>7, <2>8, <2>9 DEF ContextsInv
<1>5. QED
  BY <1>3, <1>4

LEMMA DiscoverKeeps ==
  ASSUME ContextsAssumption, ContextsInv, NEW t \in tasks, Discover(t)
  PROVE  ContextsInv'
<1>1. PICK all, failing :
      /\ all = Of("azure") \cup Of("tailscale") /\ failing \in SUBSET Places(all)
      /\ Holds(failing # {})
      /\ Finish(t, [Answer(t, "discovered") EXCEPT
           !.found = Reached(all, failing),
           !.known = Reached(all, failing) \cap Configured(t.read),
           !.state = [p \in Managed |-> StateOf(Places(Of(p)), failing)]])
  BY DEF Discover
<1>2. PICK found, state, a, r :
      /\ found = Reached(all, failing)
      /\ state = [p \in Managed |-> StateOf(Places(Of(p)), failing)]
      /\ a = Answer(t, "discovered")
      /\ r = [a EXCEPT !.found = found, !.known = found \cap Configured(t.read),
                      !.state = state]
  OBVIOUS
<1>3. Finish(t, r)
  BY ONLY <1>1, <1>2
<1>4. /\ plan' \in Plan /\ UNCHANGED Outer /\ Aside /\ t.kind = "discover"
      /\ t.pc = "read"
  <2>1. PICK f \in BOOLEAN : f = (failing # {})
    OBVIOUS
  <2>2. QED
    BY <1>1, <2>1, HoldsIs DEF Discover, Outer
<1>5. /\ found \subseteq Clusters /\ found \cap Of("aws") = {}
      /\ state \in [Managed -> Found]
      /\ \A p \in Managed : state[p] = "ok" => Of(p) \subseteq found
  <2>1. found \subseteq all /\ all \subseteq Clusters /\ all \cap Of("aws") = {}
    BY <1>1, <1>2, ContextsAre DEF Reached, Of, Managed
  <2>2. state \in [Managed -> Found]
    BY <1>2 DEF StateOf, Found
  <2>3. ASSUME NEW p \in Managed, state[p] = "ok" PROVE Of(p) \subseteq found
    BY <1>2, <2>3, <1>1 DEF StateOf, Managed, Places, Reached
  <2>4. QED
    BY <2>1, <2>2, <2>3
<1>6. /\ r \in Answered /\ r.op = t.op /\ r.kind = "discovered" /\ r.found = found
      /\ r.known = found \cap Configured(t.read) /\ r.state = state /\ r.read = t.read
  <2>1. a \in Answered /\ a.op = t.op /\ a.read = t.read
    BY <1>2, TaskIs, AnswerIs
  <2>2. a.kind = "discovered"
    BY <1>2 DEF Answer
  <2>3. found \cap Configured(t.read) \subseteq Clusters
    BY <1>5
  <2>4. QED
    BY ONLY <1>2, <1>5, <2>1, <2>2, <2>3 DEF Answered
<1>7. Tells(r)
  BY <1>5, <1>6, TaskIs DEF Tells, Fits, ScanKinds, ImportKinds, SaveKinds
<1>8. Numbered' /\ Changes({t}, {r}) /\ tasks' = tasks \ {t} /\ t \in Things
  BY <1>3, <1>4, <1>6, <1>7, TaskIs, CommandAnswers DEF Aside
<1>9. /\ Same(ImportKinds) /\ Same(ScanKinds) /\ Same(SaveKinds) /\ Same(RailKinds)
      /\ Same(ScanFreshKinds)
  BY <1>4, <1>6, <1>8, SameIs DEF ImportKinds, ScanKinds, SaveKinds, RailKinds, ScanFreshKinds
<1>10. /\ Typed' /\ Importing' /\ Scanning' /\ ScanFresh' /\ SavesPending'
       /\ RailShown'
  BY <1>4, <1>9, AsideTyped, AsideKeeps DEF ContextsInv, Typed, Outer
<1>11. Locking'
  BY <1>4, <1>8, TaskIs, LockingEnds DEF ContextsInv, Aside, Outer, Runs, Writes
<1>12. Complete'
  BY <1>4, <1>5, <1>6, <1>8 DEF ContextsInv, Complete, Changes, Aside, ui
<1>13. DiscoveryFresh'
  <2>1. (Good(t) => Good(r)') /\ Finds(r) /\ Finds(t)
    BY <1>4, <1>6 DEF Good, Blind, Outer, Finds
  <2>2. \A x : Good(x)' <=> Good(x)
    BY <1>4 DEF Good, Blind, Outer
  <2>3. \A op : GoodAfter(op) => GoodAfter(op)'
    BY <1>6, <1>8, <2>1, <2>2 DEF GoodAfter, Changes
  <2>4. QED
    BY <1>4, <1>6, <1>8, <2>1, <2>2, <2>3
       DEF ContextsInv, DiscoveryFresh, Changes, Aside, ui, Outer, Calm, Pending
<1>14. QED
  BY <1>8, <1>10, <1>11, <1>12, <1>13 DEF ContextsInv

LEMMA ListAccountsKeeps ==
  ASSUME ContextsAssumption, ContextsInv, NEW t \in tasks, ListAccounts(t)
  PROVE  ContextsInv'
<1>1. PICK failing \in SUBSET Profiles :
      /\ Holds(failing # {})
      /\ Finish(t, [Answer(t, "accounts") EXCEPT
           !.found = Listed(Profiles \ failing), !.state = StateOf(Profiles, failing)])
  BY DEF ListAccounts
<1>2. PICK found, state, a, r :
      /\ found = Listed(Profiles \ failing) /\ state = StateOf(Profiles, failing)
      /\ a = Answer(t, "accounts")
      /\ r = [a EXCEPT !.found = found, !.state = state]
  OBVIOUS
<1>3. Finish(t, r)
  BY ONLY <1>1, <1>2
<1>4. plan' \in Plan /\ UNCHANGED Outer /\ Aside /\ t.kind = "accounts"
  <2>1. PICK f \in BOOLEAN : f = (failing # {})
    OBVIOUS
  <2>2. QED
    BY <1>1, <2>1, HoldsIs DEF ListAccounts, Outer
<1>5. found \subseteq Profiles \X Accounts /\ state \in Found
  BY <1>2 DEF Listed, StateOf, Found, ContextsInv, Typed
<1>6. /\ r \in Answered /\ r.op = t.op /\ r.kind = "accounts"
      /\ r.found = found /\ r.state = state
  <2>1. a \in Answered /\ a.op = t.op
    BY <1>2, TaskIs, AnswerIs
  <2>2. a.kind = "accounts"
    BY <1>2 DEF Answer
  <2>3. /\ found \in (SUBSET Clusters) \cup (SUBSET (Profiles \X Accounts))
        /\ state \in {<<>>} \cup Found \cup [Managed -> Found]
    BY <1>5
  <2>4. QED
    BY ONLY <1>2, <2>1, <2>2, <2>3 DEF Answered
<1>7. Tells(r)
  BY <1>5, <1>6, TaskIs DEF Tells, Fits, ScanKinds, ImportKinds, SaveKinds
<1>8. Numbered' /\ Changes({t}, {r}) /\ tasks' = tasks \ {t}
  BY <1>3, <1>4, <1>6, <1>7, TaskIs, CommandAnswers DEF Aside
<1>9. /\ Same(ImportKinds) /\ Same(ScanKinds) /\ Same(SaveKinds) /\ Same(RailKinds)
      /\ Same({"discovered"}) /\ Same(FindKinds) /\ Same(ScanFreshKinds)
  BY <1>4, <1>6, <1>8, SameIs
     DEF ImportKinds, ScanKinds, SaveKinds, RailKinds, FindKinds, ScanFreshKinds
<1>10. /\ Typed' /\ Importing' /\ Scanning' /\ Complete' /\ ScanFresh'
       /\ DiscoveryFresh' /\ SavesPending' /\ RailShown'
  BY <1>4, <1>9, AsideTyped, AsideKeeps DEF ContextsInv, Typed, Outer
<1>11. Locking'
  BY <1>4, <1>8, TaskIs, LockingEnds DEF ContextsInv, Aside, Outer, Runs, Writes
<1>12. QED
  BY <1>8, <1>10, <1>11 DEF ContextsInv

LEMMA ListEksKeeps ==
  ASSUME ContextsAssumption, ContextsInv, NEW t \in tasks, ListEks(t)
  PROVE  ContextsInv'
<1>1. PICK mine, failing :
      /\ mine = OwnedBy(identity[t.of.profile])
      /\ Holds(failing # {})
      /\ IF StateOf(Places(Of("aws")), failing) = "failed"
           THEN Finish(t, Answer(t, "scanFailed"))
           ELSE Finish(t, [Answer(t, "scanned") EXCEPT
                  !.found = Reached(mine, failing),
                  !.known = Reached(mine, failing) \cap Configured(t.read),
                  !.state = StateOf(Places(Of("aws")), failing)])
  BY DEF ListEks
<1>2. /\ plan' \in Plan /\ UNCHANGED Outer /\ Aside /\ t.kind = "scan"
      /\ t.pc = "read"
  <2>1. PICK f \in BOOLEAN : f = (failing # {})
    OBVIOUS
  <2>2. QED
    BY <1>1, <2>1, HoldsIs DEF ListEks, Outer
<1>3. CASE StateOf(Places(Of("aws")), failing) = "failed"
  BY <1>1, <1>2, <1>3, ScanFailsKeeps
<1>4. CASE StateOf(Places(Of("aws")), failing) # "failed"
  <2>1. PICK found, state, a, r :
        /\ found = Reached(mine, failing) /\ state = StateOf(Places(Of("aws")), failing)
        /\ a = Answer(t, "scanned")
        /\ r = [a EXCEPT !.found = found, !.known = found \cap Configured(t.read),
                        !.state = state]
    OBVIOUS
  <2>2. Finish(t, r)
    BY ONLY <1>1, <1>4, <2>1
  <2>3. /\ found \subseteq Clusters /\ found \subseteq Of("aws") /\ state \in Found
        /\ found \subseteq mine /\ (state = "ok" => found = mine)
    <3>1. found \subseteq mine /\ mine \subseteq Of("aws") /\ Of("aws") \subseteq Clusters
      BY <1>1, <2>1, ContextsAre DEF Reached
    <3>2. state \in Found
      BY <2>1 DEF StateOf, Found
    <3>3. ASSUME state = "ok" PROVE mine \subseteq found
      BY <2>1, <3>3, <3>1 DEF StateOf, Places, Reached
    <3>4. QED
      BY <3>1, <3>2, <3>3
  <2>4. /\ r \in Answered /\ r.op = t.op /\ r.of = t.of /\ r.kind = "scanned"
        /\ r.found = found /\ r.known = found \cap Configured(t.read)
        /\ r.state = state /\ r.read = t.read
    <3>1. a \in Answered /\ a.op = t.op /\ a.of = t.of /\ a.read = t.read
      BY <2>1, TaskIs, AnswerIs
    <3>2. a.kind = "scanned"
      BY <2>1 DEF Answer
    <3>3. found \cap Configured(t.read) \subseteq Clusters
      BY <2>3
    <3>4. QED
      BY ONLY <2>1, <2>3, <3>1, <3>2, <3>3 DEF Answered
  <2>5. Tells(r)
    BY <1>2, <2>3, <2>4, TaskIs DEF Tells, Runs, Fits, ScanKinds, ImportKinds, SaveKinds
  <2>6. Numbered' /\ Changes({t}, {r}) /\ tasks' = tasks \ {t} /\ t \in Things
    BY <1>2, <2>2, <2>4, <2>5, TaskIs, CommandAnswers DEF Aside
  <2>7. /\ Same(ImportKinds) /\ Same(SaveKinds) /\ Same(RailKinds)
        /\ Same({"discovered"}) /\ Same(FindKinds)
    BY <1>2, <2>4, <2>6, SameIs DEF ImportKinds, SaveKinds, RailKinds, FindKinds
  <2>8. /\ Typed' /\ Importing' /\ Complete' /\ DiscoveryFresh' /\ SavesPending'
        /\ RailShown'
    BY <1>2, <2>7, AsideTyped, AsideKeeps DEF ContextsInv, Typed, Outer
  <2>9. Locking'
    BY <1>2, <2>6, TaskIs, LockingEnds DEF ContextsInv, Aside, Outer, Runs, Writes
  <2>10. Scanning'
    BY <1>1, <1>2, <2>4, <2>6, <2>3 DEF ContextsInv, Scanning, ScanKinds,
       Changes, Aside, ui, Outer
  <2>11. ScanFresh'
    BY <1>2, <2>4, <2>6
       DEF ContextsInv, ScanFresh, Changes, Aside, ui, Outer, HasRead, Calm, Pending, Blind
  <2>12. QED
    BY <2>6, <2>8, <2>9, <2>10, <2>11 DEF ContextsInv
<1>5. QED
  BY <1>3, <1>4

LEMMA ReloadKeeps ==
  ASSUME ContextsAssumption, ContextsInv, NEW t \in tasks, Reload(t)
  PROVE  ContextsInv'
<1>1. PICK a, r :
      /\ a = Answer(t, "clusters")
      /\ r = [a EXCEPT !.read = file]
  OBVIOUS
<1>2. CASE Finish(t, [Answer(t, "clusters") EXCEPT !.read = file])
           /\ UNCHANGED <<plan, crossed>>
  <2>1. UNCHANGED <<plan, Outer>> /\ Aside /\ t.kind = "reload" /\ Finish(t, r)
    BY <1>1, <1>2 DEF Reload, Outer
  <2>2. r \in Answered /\ r.op = t.op /\ r.kind = "clusters" /\ r.read = file
    <3>1. a \in Answered /\ a.op = t.op /\ file \in Files
      BY <1>1, TaskIs, AnswerIs DEF ContextsInv, Typed
    <3>2. a.kind = "clusters"
      BY <1>1 DEF Answer
    <3>3. QED
      BY ONLY <1>1, <3>1, <3>2 DEF Answered
  <2>3. Tells(r)
    BY <2>2 DEF Tells, Fits, ScanKinds, ImportKinds, SaveKinds
  <2>4. Numbered' /\ Changes({t}, {r}) /\ tasks' = tasks \ {t}
    BY <2>1, <2>2, <2>3, TaskIs, CommandAnswers DEF Aside
  <2>5. /\ Same(ImportKinds) /\ Same(ScanKinds) /\ Same(SaveKinds)
        /\ Same({"discovered"})
    BY <2>1, <2>2, <2>4, SameIs DEF ImportKinds, ScanKinds, SaveKinds
  <2>6. Typed' /\ Importing' /\ Scanning' /\ Complete' /\ SavesPending'
    BY <2>1, <2>5, AsideTyped, AsideKeeps DEF ContextsInv, Typed, Outer
  <2>7. Locking'
    BY <2>1, <2>4, TaskIs, LockingEnds DEF ContextsInv, Aside, Outer, Runs, Writes
  <2>8. ScanFresh'
    BY <2>1, <2>2, <2>4
       DEF ContextsInv, ScanFresh, Changes, Aside, ui, Outer, HasRead, Calm, Blind
  <2>9. DiscoveryFresh'
    BY <2>2, <2>4 DEF DiscoveryFresh, Changes
  <2>10. RailShown'
    BY <2>1, <2>2, <2>4
       DEF ContextsInv, RailShown, Changes, Aside, ui, Outer, Calm
  <2>11. QED
    BY <2>4, <2>6, <2>7, <2>8, <2>9, <2>10 DEF ContextsInv
<1>3. CASE /\ Spend("faults") /\ Finish(t, Answer(t, "failed"))
           /\ crossed' = crossed \cup {"reload"}
  <2>1. PICK f : f = Answer(t, "failed")
    OBVIOUS
  <2>2. /\ UNCHANGED <<file, truth, identity, lock>> /\ Aside /\ t.kind = "reload"
        /\ Finish(t, f) /\ plan' \in Plan
    BY <1>3, <2>1, SpendIs DEF Reload, ContextsInv, Typed
  <2>3. f \in Answered /\ f.op = t.op
    BY <2>1, TaskIs, AnswerIs
  <2>4. f.kind = "failed"
    BY <2>1 DEF Answer
  <2>5. Numbered' /\ Changes({t}, {f}) /\ tasks' = tasks \ {t}
    BY <2>3, <2>4, <2>2, TaskIs, CommandAnswers DEF Tells, Fits, ScanKinds,
       ImportKinds, SaveKinds, Aside
  <2>6. Same(ScanKinds) /\ Same(SaveKinds) /\ Same({"discovered"})
    BY <2>2, <2>4, <2>5, SameIs DEF ScanKinds, SaveKinds
  <2>7. Typed' /\ Scanning' /\ Complete' /\ SavesPending'
    BY <1>3, <2>2, <2>6, AsideTyped, AsideKeeps DEF ContextsInv, Typed
  <2>8. Locking'
    BY <1>3, <2>2, <2>5, TaskIs, LockingEnds DEF ContextsInv, Aside, Runs, Writes
  <2>9. Importing'
    BY <1>3, <2>2 DEF ContextsInv, Importing, Aside, ui
  <2>10. ScanFresh' /\ DiscoveryFresh' /\ RailShown'
    BY <1>3 DEF ScanFresh, DiscoveryFresh, RailShown, Calm
  <2>11. QED
    BY <2>5, <2>7, <2>8, <2>9, <2>10 DEF ContextsInv
<1>4. QED
  BY <1>2, <1>3 DEF Reload

-----------------------------------------------------------------------------
(* The commands that write the file.                                       *)

Editing == {"import", "save"}

LEMMA EditIs ==
  ASSUME ContextsAssumption, NEW t \in Task, Fits(t), t.kind \in Editing, NEW f \in Files
  PROVE  Edit(t, f) \in Files
BY ContextsAre, FileAdded, FileSaved
   DEF Edit, Fits, Editing, ScanKinds, ImportKinds, SaveKinds, ImportOf, SaveOf, Contexts

(* One of them goes on, and nobody sees it.                                *)
LEMMA EditingKeeps ==
  ASSUME ContextsAssumption, ContextsInv, NEW t \in tasks, t.kind \in Editing, NEW pc, MayMove(t, pc),
         NEW read \in Files, Moves(t, pc, read),
         plan' = plan, UNCHANGED <<file, truth, identity, crossed>>, Aside,
         \/ lock = 0 /\ lock' = t.op /\ pc = "locked"
         \/ lock = t.op /\ lock' = t.op /\ (pc # "read" => pc = "merged")
              /\ (pc = "merged" => read = Edit(t, file))
  PROVE  ContextsInv'
<1>1. PICK u : Moved(u, t, pc, read) /\ Numbered' /\ t \in Things
  BY Steps DEF Aside
<1>2. /\ Same({"discovered"}) /\ Same(ScanKinds) /\ Same(ScanFreshKinds)
      /\ Same(FindKinds) /\ Same(RailKinds)
  BY <1>1, SameIs
     DEF Moved, Editing, ScanKinds, ScanFreshKinds, FindKinds, RailKinds
<1>3. /\ Typed' /\ Scanning' /\ Complete' /\ ScanFresh' /\ DiscoveryFresh'
      /\ RailShown'
  BY <1>2, AsideTyped, AsideKeeps DEF ContextsInv, Typed
<1>4. Locking'
  <2>1. \A s \in tasks \ {t} : s.op # t.op /\ s.op # 0
    BY DEF ContextsInv, Numbered, Things
  <2>2. Writes(u) /\ (u.pc = "merged" => u.read = Edit(u, file)) /\ u \in tasks'
        /\ u.op = t.op /\ lock' = t.op
    BY <1>1 DEF Moved, Writes, Edit, MayMove, Editing
  <2>3. tasks' = (tasks \ {t}) \cup {u} /\ ops' = ops /\ t.op \in 0..ops
    BY <1>1, TaskIs DEF Moved, Aside
  <2>4. \A s \in tasks \ {t} : Writes(s) <=> s.op = lock'
    BY <2>1, <2>2 DEF ContextsInv, Locking
  <2>5. QED
    BY <2>1, <2>2, <2>3, <2>4 DEF ContextsInv, Locking
<1>5. Importing' /\ SavesPending'
  BY <1>1 DEF Moved, ContextsInv, Importing, SavesPending, Changes, Aside, ui
<1>6. QED
  BY <1>1, <1>3, <1>4, <1>5 DEF ContextsInv

LEMMA LockKeeps ==
  ASSUME ContextsAssumption, ContextsInv, NEW t \in tasks, Lock(t)
  PROVE  ContextsInv'
<1>1. t.kind \in Editing /\ Moves(t, "locked", t.read) /\ t.read \in Files
      /\ MayMove(t, "locked") /\ lock = 0 /\ lock' = t.op
  BY TaskIs DEF Lock, Free, Task, MayMove, Editing
<1>2. plan' = plan /\ UNCHANGED <<file, truth, identity, crossed>> /\ Aside
  BY DEF Lock
<1>3. QED
  BY <1>1, <1>2, EditingKeeps

(* One of them ends without having written.                                *)
LEMMA FailsKeeps ==
  ASSUME ContextsAssumption, ContextsInv, NEW t \in tasks, t.kind \in Editing, Writes(t), Fails(t),
         plan' \in Plan, UNCHANGED <<identity, crossed>>, Aside
  PROVE  ContextsInv'
<1>1. PICK kind, r :
      /\ kind \in {"saveFailed", "eksFailed", "failed"} /\ r = Answer(t, kind) /\ Finish(t, r)
      /\ kind = "saveFailed" <=> t.kind = "save"
  BY DEF Fails, Editing
<1>2. r \in Answered /\ r.op = t.op /\ r.of = t.of /\ r.kind = kind
  BY <1>1, TaskIs, AnswerIs
<1>3. Tells(r)
  BY <1>1, <1>2, TaskIs DEF Tells, Runs, Fits, ScanKinds, ImportKinds, SaveKinds, Editing
<1>4. Numbered' /\ Changes({t}, {r}) /\ tasks' = tasks \ {t} /\ t \in Things
  BY <1>1, <1>2, <1>3, TaskIs, CommandAnswers DEF Aside
<1>5. /\ Same({"discovered"}) /\ Same(ScanKinds) /\ Same(ScanFreshKinds)
      /\ Same(FindKinds) /\ Same(RailKinds)
  BY <1>1, <1>2, <1>4, SameIs DEF Editing, ScanKinds, ScanFreshKinds, FindKinds, RailKinds
<1>6. /\ Typed' /\ Scanning' /\ Complete' /\ ScanFresh' /\ DiscoveryFresh'
      /\ RailShown'
  BY <1>5, AsideTyped, AsideKeeps DEF ContextsInv, Typed, Fails
<1>7. Locking'
  BY <1>4, LockingReleased DEF ContextsInv, Locking, Aside, Fails
<1>8. Importing' /\ SavesPending'
  BY <1>1, <1>2, <1>4 DEF ImportKinds, SaveKinds, Editing, ContextsInv,
     Importing, SavesPending, Changes, Aside, ui
<1>9. QED
  BY <1>4, <1>6, <1>7, <1>8 DEF ContextsInv

(* A cluster has been added.                                               *)
LEMMA AddedKeeps ==
  ASSUME ContextsAssumption, ContextsInv, NEW t \in tasks, t.kind = "import", Writes(t),
         Finish(t, Answer(t, "imported")), Release, plan' = plan,
         file' \in Files, truth' = Edit(t, truth),
         "written" \notin crossed => file' = Edit(t, file),
         UNCHANGED <<identity, crossed>>, Aside
  PROVE  ContextsInv'
<1>1. PICK r, c : r = Answer(t, "imported") /\ c = t.of.cluster
  OBVIOUS
<1>2. r \in Answered /\ r.op = t.op /\ r.of = t.of
  BY <1>1, TaskIs, AnswerIs
<1>3. r.kind = "imported" /\ t.of \in ImportOf /\ c \in Clusters
  BY <1>1, TaskIs DEF Answer, Runs, Fits, ImportKinds, ImportOf
<1>4. Tells(r)
  BY <1>2, <1>3 DEF Tells, Fits, ScanKinds, ImportKinds, SaveKinds
<1>5. Numbered' /\ Changes({t}, {r}) /\ tasks' = tasks \ {t} /\ t \in Things
  BY <1>1, <1>2, <1>4, TaskIs, CommandAnswers DEF Aside
<1>6. Same({"discovered"}) /\ Same(ScanKinds) /\ Same(SaveKinds)
  BY <1>3, <1>5, SameIs DEF ScanKinds, SaveKinds
<1>7. truth' \in Files
  BY TaskIs, EditIs DEF Runs, Editing, ContextsInv, Typed
<1>8. Typed' /\ Scanning' /\ Complete' /\ SavesPending'
  BY <1>6, <1>7, AsideTyped, AsideKeeps DEF ContextsInv, Typed
<1>9. Locking'
  BY <1>5, LockingReleased DEF ContextsInv, Locking, Aside
<1>10. Importing'
  BY <1>2, <1>3, <1>5 DEF ContextsInv, Importing, Changes, Aside, ui, ImportKinds
<1>11. Pending'
  BY <1>3, <1>5 DEF Pending, Changes
<1>12. DiscoveryFresh'
  BY <1>11 DEF DiscoveryFresh
<1>13. ASSUME Calm'
       PROVE  /\ Calm /\ "reload" \notin crossed /\ file \in Files
              /\ Configured(file') = Configured(file) \cup {c}
              /\ \A d \in Contexts : file[d] # Absent => file'[d] = file[d]
  BY <1>13, <1>1, <1>3, FileAdded DEF Calm, ContextsInv, Locking, Typed, Edit
<1>14. ScanFresh'
  <2> SUFFICES ASSUME Calm' PROVE ScanFresh'
    BY DEF ScanFresh
  <2>1. aws.scanning => InAws(file') = InAws(file)
    BY <1>1, <1>5, <1>13 DEF ContextsInv, Importing, ImportKinds, InAws
  <2>2. QED
    BY <1>3, <1>5, <1>11, <1>13, <2>1
       DEF ContextsInv, ScanFresh, Changes, Aside, ui, HasRead, Blind
<1>15. RailShown'
  <2> SUFFICES ASSUME Calm' PROVE RailShown'
    BY DEF RailShown
  <2>1. \A x \in Things' : x.kind \in {"saved", "clusters"} => x \in Things
    BY <1>3, <1>5 DEF Changes
  <2>2. \A x \in Things : x.kind = "saved" => x \in Things'
    BY <1>5 DEF Changes
  <2>3. \A x \in Things : x.kind = "saved" =>
          x.of.context \in Contexts /\ x.of.look \in Looks
    BY DEF ContextsInv, Numbered, Things, Runs, Tells, Fits, SaveKinds, SaveOf
  <2>4. QED
    BY <1>11, <1>13, <2>1, <2>2, <2>3, ContextsAre
       DEF ContextsInv, RailShown, Aside, ui
<1>16. QED
  BY <1>5, <1>8, <1>9, <1>10, <1>12, <1>14, <1>15 DEF ContextsInv

(* A look has been saved.                                                  *)
LEMMA SavedKeeps ==
  ASSUME ContextsAssumption, ContextsInv, NEW t \in tasks, t.kind = "save", Writes(t),
         Finish(t, Answer(t, "saved")), Release, plan' = plan,
         file' \in Files, truth' = Edit(t, truth),
         "written" \notin crossed => file' = Edit(t, file),
         UNCHANGED <<identity, crossed>>, Aside
  PROVE  ContextsInv'
<1>1. PICK r, c, look : r = Answer(t, "saved") /\ c = t.of.context /\ look = t.of.look
  OBVIOUS
<1>2. r \in Answered /\ r.op = t.op /\ r.of = t.of
  BY <1>1, TaskIs, AnswerIs
<1>3. r.kind = "saved" /\ t.of \in SaveOf /\ c \in Contexts /\ look \in Looks
  BY <1>1, TaskIs DEF Answer, Runs, Fits, SaveKinds, SaveOf
<1>4. Tells(r)
  BY <1>2, <1>3 DEF Tells, Fits, ScanKinds, ImportKinds, SaveKinds
<1>5. Numbered' /\ Changes({t}, {r}) /\ tasks' = tasks \ {t} /\ t \in Things
  BY <1>1, <1>2, <1>4, TaskIs, CommandAnswers DEF Aside
<1>6. Same({"discovered"}) /\ Same(ScanKinds) /\ Same(ImportKinds)
      /\ Same(ScanFreshKinds) /\ Same(FindKinds)
  BY <1>3, <1>5, SameIs DEF ScanKinds, ImportKinds, ScanFreshKinds, FindKinds
<1>7. truth' \in Files
  BY TaskIs, EditIs DEF Runs, Editing, ContextsInv, Typed
<1>8. Typed' /\ Importing' /\ Scanning' /\ Complete'
  BY <1>6, <1>7, AsideTyped, AsideKeeps DEF ContextsInv, Typed
<1>9. Locking'
  BY <1>5, LockingReleased DEF ContextsInv, Locking, Aside
<1>10. SavesPending'
  BY <1>2, <1>3, <1>5 DEF ContextsInv, SavesPending, Changes, Aside, ui, SaveKinds
<1>11. rail[c] # Absent /\ \A x \in Things : x.kind = "saved" => x.of.context # c
  BY <1>1, <1>5 DEF ContextsInv, SavesPending, SaveKinds, Numbered
<1>12. ASSUME Calm'
       PROVE  /\ Calm /\ file \in Files /\ Configured(file') = Configured(file)
              /\ file'[c] = look
              /\ \A d \in Contexts : d # c => file'[d] = file[d]
  <2>1. Calm /\ "written" \notin crossed /\ file \in Files
    BY <1>12 DEF Calm, ContextsInv, Locking, Typed
  <2>2. file' = With(file, c, look) /\ file[c] # Absent
    BY <1>1, <1>3, <1>11, <2>1 DEF Edit, ContextsInv, RailShown
  <2>3. QED
    BY <1>3, <2>1, <2>2, FileSaved
<1>13. ScanFresh'
  <2> SUFFICES ASSUME Calm' PROVE ScanFresh'
    BY DEF ScanFresh
  <2>1. InAws(file') = InAws(file) /\ Configured(file') = Configured(file) /\ Calm
    BY <1>12 DEF InAws
  <2>2. \A x : HasRead(x) \/ x.kind \in {"clusters", "imported", "reload"} =>
                 (x \in Things' <=> x \in Things)
    BY <1>6 DEF Same, ScanFreshKinds, HasRead
  <2>3. QED
    BY <2>1, <2>2 DEF ContextsInv, ScanFresh, Aside, ui, HasRead, Blind, Pending
<1>14. DiscoveryFresh'
  <2> SUFFICES ASSUME Calm' PROVE DiscoveryFresh'
    BY DEF DiscoveryFresh
  <2>1. Configured(file') = Configured(file) /\ Calm
    BY <1>12
  <2>2. \A x : Finds(x) \/ x.kind \in {"clusters", "imported", "reload"} =>
                 (x \in Things' <=> x \in Things)
    BY <1>6 DEF Same, FindKinds, Finds
  <2>3. \A x : Good(x)' <=> Good(x)
    BY <2>1 DEF Good, Blind
  <2>4. \A op : GoodAfter(op)' <=> GoodAfter(op)
    BY <2>2, <2>3 DEF GoodAfter, Finds
  <2>5. QED
    BY <2>1, <2>2, <2>3, <2>4
       DEF ContextsInv, DiscoveryFresh, Aside, ui, Finds, Pending
<1>15. RailShown'
  <2> SUFFICES ASSUME Calm' PROVE RailShown'
    BY DEF RailShown
  <2>1. \A x \in Things' : x \in Things \/ x = r
    BY <1>5 DEF Changes
  <2>2. \A x \in Things : x.kind # "save" => x \in Things'
    BY <1>5 DEF Changes
  <2>3. r \in Things' /\ r.of.context = c /\ r.of.look = look
    BY <1>1, <1>2, <1>5 DEF Changes
  <2>4. look # Absent
    BY <1>3, ContextsAre
  <2>5. \A x \in Things : x.kind = "saved" => x.of.context \in Contexts
    BY DEF ContextsInv, Numbered, Things, Runs, Tells, Fits, SaveKinds, SaveOf
  <2>6. QED
    BY <1>3, <1>11, <1>12, <2>1, <2>2, <2>3, <2>4, <2>5
       DEF ContextsInv, RailShown, Aside, ui, Pending
<1>16. QED
  BY <1>5, <1>8, <1>9, <1>10, <1>13, <1>14, <1>15 DEF ContextsInv

LEMMA WritersKeep ==
  ASSUME ContextsAssumption, ContextsInv, NEW t \in tasks,
         \/ ImportByTool(t) \/ MergeEks(t) \/ ReadForSave(t) \/ CompareForSave(t)
         \/ Write(t)
  PROVE  ContextsInv'
<1>1. /\ Writes(t) /\ t.kind \in Editing /\ UNCHANGED <<identity, crossed>> /\ Aside
      /\ lock = t.op /\ lock # 0 /\ t.read \in Files /\ file \in Files
  BY TaskIs
     DEF ImportByTool, MergeEks, ReadForSave, CompareForSave, Write, Writes, Editing,
         Runs, Task, ContextsInv, Locking, Typed
<1>2. \A f \in Files : Edit(t, f) \in Files
  BY <1>1, TaskIs, EditIs DEF Runs
<1>3. ASSUME Fails(t), plan' = plan \/ Spend("faults") PROVE ContextsInv'
  BY <1>3, SpendIs, <1>1, FailsKeeps DEF ContextsInv, Typed
<1>4. ASSUME Moves(t, "merged", Edit(t, file)), UNCHANGED <<plan, file, truth, lock>>
      PROVE  ContextsInv'
  <2>1. PICK read : read = Edit(t, file)
    OBVIOUS
  <2>2. MayMove(t, "merged") /\ Moves(t, "merged", read) /\ read \in Files
        /\ lock' = t.op
    BY <1>1, <1>2, <1>4, <2>1 DEF MayMove, Editing
  <2>3. plan' = plan /\ UNCHANGED <<file, truth, identity, crossed>>
    BY <1>1, <1>4
  <2>4. QED
    BY <1>1, <2>1, <2>2, <2>3, EditingKeeps
<1>5. CASE ImportByTool(t)
  <2>1. CASE file' = Edit(t, file) /\ truth' = Edit(t, truth)
             /\ Finish(t, Answer(t, "imported")) /\ Release /\ UNCHANGED plan
    BY <1>1, <1>2, <1>5, <2>1, AddedKeeps DEF ImportByTool
  <2>2. QED
    BY <1>3, <1>5, <2>1 DEF ImportByTool
<1>6. CASE MergeEks(t)
  BY <1>3, <1>4, <1>6 DEF MergeEks
<1>7. CASE ReadForSave(t)
  <2>1. CASE Moves(t, "read", file) /\ UNCHANGED <<file, truth, lock>>
    BY <1>1, <1>7, <2>1, EditingKeeps DEF MayMove, ReadForSave
  <2>2. QED
    BY <1>3, <1>7, <2>1 DEF ReadForSave
<1>8. CASE CompareForSave(t)
  BY <1>3, <1>4, <1>8 DEF CompareForSave
<1>9. CASE Write(t)
  <2>1. CASE /\ file' = t.read /\ truth' = Edit(t, truth) /\ Release
             /\ Finish(t, Answer(t, IF t.kind = "save" THEN "saved" ELSE "imported"))
             /\ UNCHANGED plan
    <3>1. file' \in Files /\ ("written" \notin crossed => file' = Edit(t, file))
      BY <1>1, <1>9, <2>1 DEF Write, ContextsInv, Locking
    <3>2. CASE t.kind = "save"
      BY <1>1, <2>1, <3>1, <3>2, SavedKeeps
    <3>3. CASE t.kind = "import"
      BY <1>1, <2>1, <3>1, <3>3, AddedKeeps
    <3>4. QED
      BY <1>1, <3>2, <3>3 DEF Editing
  <2>2. QED
    BY <1>3, <1>9, <2>1 DEF Write
<1>10. QED
  BY <1>5, <1>6, <1>7, <1>8, <1>9

-----------------------------------------------------------------------------
(* What others do.                                                         *)

LEMMA EditOutsideKeeps ==
  ASSUME ContextsAssumption, ContextsInv, NEW c \in Contexts, NEW look \in {Plain, Absent},
         EditOutside(c, look)
  PROVE  ContextsInv'
<1>1. /\ file' = With(file, c, look) /\ truth' = With(truth, c, look)
      /\ crossed' = crossed \cup {"edited"} \cup
           (IF \E t \in tasks : t.pc = "merged" THEN {"written"} ELSE {})
      /\ UNCHANGED <<identity, lock, tasks, results, ops, ui>>
      /\ plan' \in Plan /\ file \in Files /\ truth \in Files
  BY SpendIs DEF EditOutside, ContextsInv, Typed
<1>2. With(file, c, look) \in Files /\ With(truth, c, look) \in Files
  BY <1>1, ContextsAre DEF With, Files
<1>3. Things' = Things /\ Answers' = Answers
  BY <1>1 DEF Things, Answers
<1>4. \A kinds : Same(kinds)
  BY <1>3 DEF Same
<1>5. Numbered'
  BY <1>1, <1>3 DEF ContextsInv, Numbered
<1>6. Typed' /\ Importing' /\ Scanning' /\ Complete' /\ SavesPending'
  BY <1>1, <1>2, <1>4, AsideTyped, AsideKeeps DEF ContextsInv, Typed, Aside
<1>7. Locking'
  BY <1>1 DEF ContextsInv, Locking
<1>8. ScanFresh' /\ DiscoveryFresh' /\ RailShown'
  BY <1>1 DEF ScanFresh, DiscoveryFresh, RailShown, Calm
<1>9. QED
  BY <1>5, <1>6, <1>7, <1>8 DEF ContextsInv

LEMMA SignInKeeps ==
  ASSUME ContextsAssumption, ContextsInv, NEW p \in Profiles, NEW a \in Accounts, SignIn(p, a)
  PROVE  ContextsInv'
<1>1. /\ identity' = [identity EXCEPT ![p] = a]
      /\ crossed' = crossed \cup
           (IF \E t \in tasks : t.kind = "scan" /\ t.pc = "read" THEN {"login"} ELSE {})
      /\ UNCHANGED <<file, truth, lock, tasks, results, ops, ui>>
      /\ plan' \in Plan
  BY SpendIs DEF SignIn, ContextsInv, Typed
<1>2. Things' = Things /\ Answers' = Answers /\ Aside
  BY <1>1 DEF Things, Answers, Aside
<1>3. \A kinds : Same(kinds)
  BY <1>2 DEF Same
<1>4. Numbered'
  BY <1>1, <1>2 DEF ContextsInv, Numbered
<1>5. Typed'
  BY <1>1, <1>2, AsideTyped DEF ContextsInv, Typed
<1>6. /\ Importing' /\ Complete' /\ ScanFresh' /\ DiscoveryFresh' /\ SavesPending'
      /\ RailShown'
  BY <1>1, <1>2, <1>3, AsideKeeps
<1>7. Locking'
  BY <1>1 DEF ContextsInv, Locking
<1>8. Scanning'
  BY <1>1, <1>2 DEF ContextsInv, Numbered, Tells, Answered, Scanning, Aside, ui,
     Things
<1>9. QED
  BY <1>4, <1>5, <1>6, <1>7, <1>8 DEF ContextsInv

-----------------------------------------------------------------------------
(* Results applied.                                                        *)

LEMMA Taken ==
  ASSUME ContextsAssumption, ContextsInv, NEW kinds, Applies(kinds), UNCHANGED <<tasks, ops>>,
         NEW r, r = Result
  PROVE  /\ Numbered' /\ Changes({r}, {}) /\ r \in Things /\ r.kind \in kinds
         /\ Tells(r) /\ r \in Answered /\ r.op \in 1..ops /\ Locking'
         /\ UNCHANGED <<plan, file, truth, identity, lock, crossed>> /\ ops \in Nat
<1>1. New({}) /\ tasks' = tasks \cup {} /\ ops \in Nat
  BY DEF New, ContextsInv, Numbered
<1>2. Numbered' /\ Changes({r}, {}) /\ r \in Things /\ Tells(r) /\ r.kind \in kinds
  BY <1>1, AnswerApplies DEF ContextsInv
<1>3. UNCHANGED <<plan, file, truth, identity, lock, crossed>>
  BY DEF Applies
<1>4. r \in Answered /\ r.op \in 1..ops
  BY <1>2 DEF Tells, ContextsInv, Numbered
<1>5. Locking'
  BY <1>1, <1>3 DEF ContextsInv, Locking
<1>6. QED
  BY <1>1, <1>2, <1>3, <1>4, <1>5

LEMMA TakenAndSent ==
  ASSUME ContextsAssumption, ContextsInv, NEW kinds, Applies(kinds), NEW n, New({n}),
         tasks' = tasks \cup {n}, NEW r, r = Result
  PROVE  /\ Numbered' /\ Changes({r}, {n}) /\ r \in Things /\ r.kind \in kinds
         /\ Tells(r) /\ r \in Answered /\ r.op \in 1..ops /\ Locking'
         /\ UNCHANGED <<plan, file, truth, identity, lock, crossed>> /\ ops \in Nat
<1>1. ops \in Nat
  BY DEF ContextsInv, Numbered
<1>2. Numbered' /\ Changes({r}, {n}) /\ r \in Things /\ Tells(r) /\ r.kind \in kinds
  BY <1>1, AnswerApplies DEF ContextsInv
<1>3. UNCHANGED <<plan, file, truth, identity, lock, crossed>>
  BY DEF Applies
<1>4. r \in Answered /\ r.op \in 1..ops
  BY <1>2 DEF Tells, ContextsInv, Numbered
<1>5. Locking'
  BY <1>1, <1>3, LockingSent DEF ContextsInv
<1>6. QED
  BY <1>1, <1>2, <1>3, <1>4, <1>5

LEMMA ApplyDiscoveredKeeps ==
  ASSUME ContextsAssumption, ContextsInv, ApplyDiscovered
  PROVE  ContextsInv'
<1>1. PICK r, op : r = Result /\ op = IF managed.op > r.op THEN managed.op ELSE r.op
  OBVIOUS
<1>2. UNCHANGED <<tasks, ops, aws, rail, saves, editor>>
  BY DEF ApplyDiscovered
<1>3. /\ Numbered' /\ Changes({r}, {}) /\ r \in Things /\ r.kind = "discovered"
      /\ Tells(r) /\ r \in Answered /\ r.op \in 1..ops /\ Locking'
      /\ UNCHANGED <<plan, file, truth, identity, lock, crossed>> /\ ops \in Nat
  BY <1>1, <1>2, Taken DEF ApplyDiscovered
<1>4. managed' = [managed EXCEPT
        !.loading = FALSE, !.error = FALSE, !.found = r.found, !.known = r.known,
        !.state = r.state, !.op = op, !.blind = managed.op > r.op \/ Blind(r)]
  BY <1>1 DEF ApplyDiscovered, Blind, ContextsInv, Typed, ManagedState
<1>5. /\ managed'.op = op /\ managed'.found = r.found /\ managed'.known = r.known
      /\ managed'.state = r.state /\ managed'.importing = managed.importing
      /\ managed'.blind <=> managed.op > r.op \/ Blind(r)
  BY <1>4 DEF ContextsInv, Typed, ManagedState
<1>6. managed.op \in Nat /\ r.op \in Nat /\ op \in 0..ops /\ op >= managed.op /\ op >= r.op
  BY <1>1, <1>3 DEF ContextsInv, Typed, ManagedState
<1>7. Typed'
  BY <1>3, <1>4, <1>6, <1>2 DEF Tells, Answered, ContextsInv, Typed,
     ManagedState
<1>8. /\ Same(ImportKinds) /\ Same(ScanKinds) /\ Same(ScanFreshKinds)
      /\ Same(SaveKinds) /\ Same(RailKinds)
  BY <1>3, SameIs DEF ImportKinds, ScanKinds, ScanFreshKinds, SaveKinds, RailKinds
<1>9. Importing' /\ Scanning' /\ ScanFresh' /\ SavesPending' /\ RailShown'
  BY <1>2, <1>3, <1>5, <1>8, ImportingKept, ScanningKept, ScanFreshKept,
     SavesPendingKept, RailShownKept DEF ContextsInv
<1>10. Complete'
  BY <1>3, <1>5 DEF ContextsInv, Complete, Changes
<1>11. DiscoveryFresh'
  <2>1. \A x : Good(x)' <=> Good(x)
    BY <1>3 DEF Good, Blind
  <2>2. \A k \in Nat : k >= r.op /\ GoodAfter(k) => GoodAfter(k)'
    <3>1. ASSUME NEW k \in Nat, k >= r.op, GoodAfter(k) PROVE GoodAfter(k)'
      <4>1. PICK x \in Things : Finds(x) /\ x.op > k /\ Good(x)
        BY <3>1 DEF GoodAfter
      <4>2. x.op # r.op
        BY <1>6, <3>1, <4>1 DEF ContextsInv, Numbered
      <4>3. x \in Things'
        BY <1>3, <4>1, <4>2 DEF Changes
      <4>4. QED
        BY <2>1, <4>1, <4>3 DEF GoodAfter
    <3>2. QED
      BY <3>1
  <2> SUFFICES ASSUME Calm', ~(Pending \/ \E x \in Things : x.kind = "clusters")'
               PROVE  /\ managed'.blind \/ managed'.known = managed'.found \cap Configured(file)
                         \/ GoodAfter(op)'
                      /\ \A x \in Things' : Finds(x) /\ x.op >= op =>
                                             Good(x) \/ GoodAfter(x.op)'
    BY <1>3, <1>5, <2>1 DEF DiscoveryFresh
  <2>3. Calm /\ ~(Pending \/ \E x \in Things : x.kind = "clusters")
    BY <1>3 DEF Calm, Pending, Changes
  <2>4. \A x \in Things : Finds(x) /\ x.op >= managed.op => Good(x) \/ GoodAfter(x.op)
    BY <2>3 DEF ContextsInv, DiscoveryFresh
  <2>5. \A x \in Things : x.op \in Nat
    BY DEF ContextsInv, Numbered
  <2>6. CASE managed.op > r.op
    <3>1. op = managed.op /\ managed'.blind
      BY <1>1, <1>5, <2>6
    <3>2. ASSUME NEW x \in Things', Finds(x), x.op >= op PROVE Good(x) \/ GoodAfter(x.op)'
      BY <1>3, <1>6, <2>5, <3>1, <3>2, <2>2, <2>4 DEF Changes
    <3>3. QED
      BY <3>1, <3>2
  <2>7. CASE ~(managed.op > r.op)
    <3>1. op = r.op /\ r.op >= managed.op
      BY <1>1, <1>6, <2>7
    <3>2. Good(r) \/ GoodAfter(r.op)
      BY <1>3, <2>4, <3>1 DEF Finds
    <3>3. Good(r) => Blind(r) \/ r.known = r.found \cap Configured(file)
      BY <1>3 DEF Good, Tells
    <3>4. GoodAfter(r.op) => GoodAfter(r.op)'
      BY <1>6, <2>2
    <3>5. ASSUME NEW x \in Things', Finds(x), x.op >= op PROVE Good(x) \/ GoodAfter(x.op)'
      BY <1>3, <1>6, <2>5, <3>1, <3>5, <2>2, <2>4 DEF Changes
    <3>6. QED
      BY <1>5, <3>1, <3>2, <3>3, <3>4, <3>5
  <2>8. QED
    BY <2>6, <2>7
<1>12. QED
  BY <1>3, <1>7, <1>9, <1>10, <1>11 DEF ContextsInv

LEMMA ApplyAccountsKeeps ==
  ASSUME ContextsAssumption, ContextsInv, ApplyAccounts
  PROVE  ContextsInv'
<1>1. PICK r : r = Result
  OBVIOUS
<1>2. UNCHANGED <<tasks, ops, managed, rail, saves, editor>>
  BY DEF ApplyAccounts
<1>3. /\ Numbered' /\ Changes({r}, {}) /\ r \in Things /\ r.kind = "accounts"
      /\ Tells(r) /\ Locking'
      /\ UNCHANGED <<plan, file, truth, identity, lock, crossed>> /\ ops \in Nat
  BY <1>1, <1>2, Taken DEF ApplyAccounts
<1>4. /\ aws'.request = aws.request /\ aws'.found = aws.found
      /\ aws'.known = aws.known /\ aws'.account = aws.account
      /\ aws'.profile = aws.profile /\ aws'.scanning = aws.scanning
      /\ aws'.state = aws.state /\ aws'.blind = aws.blind
      /\ aws' \in AwsState(ops)
  BY <1>1, <1>3 DEF ApplyAccounts, ContextsInv, Typed, AwsState, Tells
<1>5. /\ Same(ImportKinds) /\ Same(ScanKinds) /\ Same(ScanFreshKinds)
      /\ Same({"discovered"}) /\ Same(FindKinds) /\ Same(SaveKinds) /\ Same(RailKinds)
  BY <1>3, SameIs
     DEF ImportKinds, ScanKinds, ScanFreshKinds, FindKinds, SaveKinds, RailKinds
<1>6. Typed'
  BY <1>2, <1>3, <1>4 DEF ContextsInv, Typed
<1>7. /\ Importing' /\ Scanning' /\ Complete' /\ ScanFresh' /\ DiscoveryFresh'
      /\ SavesPending' /\ RailShown'
  BY <1>2, <1>3, <1>4, <1>5, ImportingKept, ScanningKept, CompleteKept, ScanFreshKept,
     DiscoveryFreshKept, SavesPendingKept, RailShownKept DEF ContextsInv
<1>8. QED
  BY <1>3, <1>6, <1>7 DEF ContextsInv

LEMMA ApplyScannedKeeps ==
  ASSUME ContextsAssumption, ContextsInv, ApplyScanned
  PROVE  ContextsInv'
<1>1. PICK r : r = Result
  OBVIOUS
<1>2. UNCHANGED <<tasks, ops, managed, rail, saves, editor>>
  BY DEF ApplyScanned
<1>3. /\ Numbered' /\ Changes({r}, {}) /\ r \in Things
      /\ r.kind \in {"scanned", "scanFailed"} /\ Tells(r) /\ r \in Answered /\ Locking'
      /\ UNCHANGED <<plan, file, truth, identity, lock, crossed>> /\ ops \in Nat
  BY <1>1, <1>2, Taken DEF ApplyScanned
<1>4. /\ Same(ImportKinds) /\ Same({"discovered"}) /\ Same(FindKinds)
      /\ Same(SaveKinds) /\ Same(RailKinds)
  BY <1>3, SameIs DEF ImportKinds, FindKinds, SaveKinds, RailKinds
<1>5. /\ aws'.request = aws.request /\ aws'.account = aws.account
      /\ aws'.profile = aws.profile /\ (aws'.scanning => aws.scanning)
      /\ aws' \in AwsState(ops)
  <2>1. r.kind = "scanned" => /\ r.found \subseteq Clusters /\ r.known \subseteq Clusters
                              /\ r.state \in Found
    BY <1>3 DEF Tells, Answered
  <2>2. "failed" \in Found
    BY DEF Found
  <2>3. aws \in AwsState(ops)
    BY DEF ContextsInv, Typed
  <2>4. CASE aws' = aws
    BY <2>3, <2>4
  <2>5. CASE aws' = [aws EXCEPT !.scanning = FALSE, !.state = "failed"]
    BY <2>2, <2>3, <2>5 DEF AwsState
  <2>6. CASE /\ r.kind = "scanned"
             /\ aws' = [aws EXCEPT !.scanning = FALSE, !.found = r.found,
                                    !.known = r.known, !.state = r.state,
                                    !.blind = r.read[Home] = Absent]
    BY <2>1, <2>3, <2>6 DEF AwsState
  <2>7. QED
    BY <1>1, <1>3, <2>4, <2>5, <2>6 DEF ApplyScanned
<1>6. Typed'
  BY <1>2, <1>3, <1>5 DEF ContextsInv, Typed
<1>7. /\ Importing' /\ Complete' /\ DiscoveryFresh' /\ SavesPending' /\ RailShown'
  BY <1>2, <1>3, <1>4, <1>5, ImportingKept, CompleteKept, DiscoveryFreshKept,
     SavesPendingKept, RailShownKept DEF ContextsInv
<1>8. Things' \subseteq Things /\ \A x \in Things : x.kind \in {"clusters", "imported", "reload"} =>
                                                    x \in Things'
  BY <1>3 DEF Changes
<1>9. CASE aws' = aws
  BY <1>3, <1>8, <1>9, <1>6, <1>7 DEF ContextsInv, Scanning, ScanFresh, HasRead,
     Calm, Pending, Blind
<1>10. CASE r.kind = "scanFailed" /\ aws' = [aws EXCEPT !.scanning = FALSE, !.state = "failed"]
  BY <1>10, <1>3, <1>5, <1>8, <1>6, <1>7 DEF ContextsInv, Typed, AwsState,
     Scanning, ScanFresh, HasRead, Calm, Pending, Blind
<1>11. CASE /\ r.kind = "scanned" /\ aws.scanning /\ r.op = aws.request
            /\ aws' = [aws EXCEPT !.scanning = FALSE, !.found = r.found,
                         !.known = r.known, !.state = r.state, !.blind = Blind(r)]
  <2>1. /\ aws'.found = r.found /\ aws'.known = r.known /\ (aws'.blind <=> Blind(r))
        /\ ~aws'.scanning /\ aws'.state = r.state
    BY <1>11 DEF ContextsInv, Typed, AwsState
  <2>2. aws.account = r.of.account /\ r.found \subseteq Of("aws")
        /\ r.known = r.found \cap Configured(r.read)
    BY <1>3, <1>11 DEF ContextsInv, Scanning, ScanKinds, Tells
  <2>3. Scanning'
    BY <1>3, <1>5, <1>8, <1>11, <2>1, <2>2 DEF ContextsInv, Scanning
  <2>4. ScanFresh'
    <3> SUFFICES ASSUME Calm' PROVE ScanFresh'
      BY DEF ScanFresh
    <3>1. /\ Configured(r.read) \subseteq Configured(file)
          /\ Blind(r) \/ InAws(r.read) = InAws(file)
      BY <1>3, <1>11 DEF ContextsInv, ScanFresh, HasRead, Calm
    <3>2. /\ r.known \subseteq r.found \cap Configured(file)
          /\ Blind(r) \/ r.known = r.found \cap Configured(file)
      BY <2>2, <3>1 DEF InAws
    <3>3. \A x \in Things' : HasRead(x) \/ x.kind = "clusters" =>
            Configured(x.read) \subseteq Configured(file)
      BY <1>3, <1>8 DEF ContextsInv, ScanFresh, HasRead, Calm
    <3>4. QED
      BY <1>3, <2>1, <3>2, <3>3 DEF ScanFresh, HasRead
  <2>5. QED
    BY <1>3, <1>6, <1>7, <2>3, <2>4 DEF ContextsInv
<1>12. QED
  BY <1>1, <1>3, <1>9, <1>10, <1>11 DEF ApplyScanned, IsCurrent, Blind

LEMMA ApplyImportedKeeps ==
  ASSUME ContextsAssumption, ContextsInv, ApplyImported
  PROVE  ContextsInv'
<1>1. PICK r, n : r = Result /\ n = Command(ops + 1, "reload", <<>>)
  OBVIOUS
<1>2. UNCHANGED <<aws, rail, saves, editor>> /\ n.kind = "reload"
      /\ MaySend("reload", <<>>) /\ Send("reload", <<>>)
  BY <1>1 DEF ApplyImported, Command, MaySend
<1>3. /\ Numbered' /\ Changes({r}, {n}) /\ r \in Things /\ r.kind = "imported"
      /\ Locking' /\ ops \in Nat /\ ops' = ops + 1
      /\ UNCHANGED <<plan, file, truth, identity, lock, crossed>>
  <2>1. PICK kinds : kinds = {"imported"} /\ Applies(kinds)
    BY DEF ApplyImported
  <2>2. New({n}) /\ tasks' = tasks \cup {n} /\ ops' = ops + 1
    BY <1>1, <1>2, SendIs DEF ContextsInv
  <2>3. n.op = ops + 1 /\ n.pc = "start"
    BY <1>1 DEF Command
  <2>4. r = Result
    BY <1>1
  <2>5. /\ Numbered' /\ Changes({r}, {n}) /\ r \in Things /\ r.kind \in kinds
        /\ Tells(r) /\ r \in Answered /\ Locking' /\ ops \in Nat
        /\ UNCHANGED <<plan, file, truth, identity, lock, crossed>>
    BY <2>1, <2>2, <2>4, TakenAndSent
  <2>6. QED
    BY <2>1, <2>2, <2>3, <2>5
<1>4. /\ managed'.importing = Absent /\ managed'.op = managed.op
      /\ managed'.found = managed.found /\ managed'.state = managed.state
      /\ \A k : managed \in ManagedState(k) => managed' \in ManagedState(k)
  BY DEF ApplyImported, ContextsInv, Typed, ManagedState
<1>5. Same({"discovered"}) /\ Same(ScanKinds) /\ Same(SaveKinds)
  BY <1>2, <1>3, SameIs DEF ScanKinds, SaveKinds
<1>6. Typed'
  BY <1>2, <1>3, <1>4, StillTyped DEF ContextsInv, Typed
<1>7. Scanning' /\ Complete' /\ SavesPending'
  BY <1>2, <1>3, <1>4, <1>5, ScanningKept, CompleteKept, SavesPendingKept
     DEF ContextsInv
<1>8. Importing'
  BY <1>3, ContextsAre, <1>2, <1>4 DEF ContextsInv, Importing, ImportKinds,
     Changes
<1>9. Pending'
  BY <1>2, <1>3 DEF Pending, Changes
<1>10. \A x \in Things' : x \in Things \/ x.kind = "reload"
  BY <1>2, <1>3 DEF Changes
<1>11. ScanFresh' /\ DiscoveryFresh'
  BY <1>2, <1>3, <1>9, <1>10
     DEF ContextsInv, ScanFresh, DiscoveryFresh, HasRead, Calm, Blind
<1>12. RailShown'
  BY <1>3, <1>2, <1>9, <1>10 DEF Changes, ContextsInv, RailShown, Calm
<1>13. QED
  BY <1>3, <1>6, <1>7, <1>8, <1>11, <1>12 DEF ContextsInv

LEMMA ApplyClustersKeeps ==
  ASSUME ContextsAssumption, ContextsInv, ApplyClusters
  PROVE  ContextsInv'
<1>1. PICK r, n, known :
        r = Result /\ n = Command(ops + 1, "discover", <<>>) /\ known = Known(r.read)
  OBVIOUS
<1>2. UNCHANGED <<managed, saves, editor>> /\ n.kind = "discover"
      /\ MaySend("discover", <<>>) /\ Send("discover", <<>>)
      /\ rail' = [c \in Contexts |-> IF rail[c] = Absent THEN r.read[c] ELSE rail[c]]
      /\ aws' = [aws EXCEPT !.known = known]
  BY <1>1 DEF ApplyClusters, Command, MaySend
<1>3. /\ Numbered' /\ Changes({r}, {n}) /\ r \in Things /\ r.kind = "clusters"
      /\ r \in Answered /\ Locking' /\ ops \in Nat /\ ops' = ops + 1
      /\ UNCHANGED <<plan, file, truth, identity, lock, crossed>>
      /\ n.op = ops + 1 /\ n.pc = "start"
  <2>1. PICK kinds : kinds = {"clusters"} /\ Applies(kinds)
    BY DEF ApplyClusters
  <2>2. New({n}) /\ tasks' = tasks \cup {n} /\ ops' = ops + 1
    BY <1>1, <1>2, SendIs DEF ContextsInv
  <2>3. n.op = ops + 1 /\ n.pc = "start"
    BY <1>1 DEF Command
  <2>4. r = Result
    BY <1>1
  <2>5. /\ Numbered' /\ Changes({r}, {n}) /\ r \in Things /\ r.kind \in kinds
        /\ Tells(r) /\ r \in Answered /\ Locking' /\ ops \in Nat
        /\ UNCHANGED <<plan, file, truth, identity, lock, crossed>>
    BY <2>1, <2>2, <2>4, TakenAndSent
  <2>6. QED
    BY <2>1, <2>2, <2>3, <2>5
<1>4. /\ aws'.request = aws.request /\ aws'.found = aws.found /\ aws'.known = known
      /\ aws'.account = aws.account /\ aws'.profile = aws.profile
      /\ aws'.scanning = aws.scanning /\ aws'.state = aws.state
      /\ aws'.blind = aws.blind
  BY <1>2 DEF ContextsInv, Typed, AwsState
<1>5. known = aws.known \cup (aws.found \cap Configured(r.read))
  BY <1>1 DEF Known
<1>6. Same(ImportKinds) /\ Same({"discovered"}) /\ Same(ScanKinds) /\ Same(SaveKinds)
  BY <1>2, <1>3, SameIs DEF ImportKinds, ScanKinds, SaveKinds
<1>7. Typed'
  <2>1. aws \in AwsState(ops') /\ managed \in ManagedState(ops')
        /\ editor \in Editor(ops') /\ saves \in [Contexts -> Save(ops')]
    BY <1>3, StillTyped DEF ContextsInv
  <2>2. known \subseteq Clusters
    BY <1>5 DEF ContextsInv, Typed, AwsState
  <2>3. aws' \in AwsState(ops')
    BY <1>2, <2>1, <2>2 DEF AwsState
  <2>4. rail' \in Files
    BY <1>3, <1>2 DEF Answered, ContextsInv, Typed, Files
  <2>5. QED
    BY <1>2, <1>3, <2>1, <2>3, <2>4 DEF ContextsInv, Typed
<1>8. Importing' /\ Scanning' /\ Complete'
  BY <1>2, <1>3, <1>4, <1>6, ImportingKept, ScanningKept, CompleteKept DEF ContextsInv
<1>9. \A c \in Contexts : rail[c] # Absent => rail'[c] = rail[c]
  BY <1>2
<1>10. SavesPending'
  <2>1. \A x \in Things : x.kind \in SaveKinds => x.of.context \in Contexts
    BY DEF ContextsInv, Numbered, Things, Runs, Tells, Fits, SaveKinds, SaveOf
  <2>2. editor.context \in Contexts
    BY DEF ContextsInv, Typed, Editor
  <2>3. QED
    BY <1>2, <1>6, <1>9, <2>1, <2>2 DEF ContextsInv, SavesPending, Same
<1>11. /\ \A x \in Things : x # r => x \in Things'
       /\ \A x \in Things' : x = n \/ (x \in Things /\ x # r)
       /\ n \in Things'
  BY <1>2, <1>3 DEF Changes
<1>12. ScanFresh'
  <2> SUFFICES ASSUME Calm' PROVE ScanFresh'
    BY DEF ScanFresh
  <2>1. Calm /\ file' = file
    BY <1>3 DEF Calm
  <2>2. /\ Configured(r.read) \subseteq Configured(file)
        /\ aws.known \subseteq aws.found \cap Configured(file)
        /\ aws.found \subseteq Of("aws")
    BY <1>3, <2>1 DEF ContextsInv, ScanFresh, Scanning
  <2>3. /\ known \subseteq aws.found \cap Configured(file)
        /\ aws.known = aws.found \cap Configured(file) => known = aws.found \cap Configured(file)
    BY <1>5, <2>2
  <2>4. InAws(r.read) = InAws(file) => known = aws.found \cap Configured(file)
    BY <1>5, <2>2, <2>3 DEF InAws
  <2>5. Pending => Pending'
    BY <1>3, <1>11 DEF Pending
  <2>6. (\E x \in Things : x.kind = "clusters" /\ InAws(x.read) = InAws(file)) =>
          \/ InAws(r.read) = InAws(file)
          \/ \E x \in Things' : x.kind = "clusters" /\ InAws(x.read) = InAws(file)
    BY <1>11
  <2>7. \/ aws.blind \/ known = aws.found \cap Configured(file) \/ Pending'
        \/ \E x \in Things' : x.kind = "clusters" /\ InAws(x.read) = InAws(file)
    BY <2>1, <2>3, <2>4, <2>5, <2>6 DEF ContextsInv, ScanFresh
  <2>8. \A x \in Things' : HasRead(x) \/ x.kind = "clusters" => x \in Things
    BY <1>2, <1>11 DEF HasRead
  <2>9. QED
    BY <1>4, <2>1, <2>3, <2>7, <2>8 DEF ContextsInv, ScanFresh, HasRead, Blind
<1>13. DiscoveryFresh'
  BY <1>2, <1>3, <1>11 DEF Good, Finds, ContextsInv, Numbered, Typed,
     ManagedState, DiscoveryFresh, GoodAfter
<1>14. RailShown'
  <2> SUFFICES ASSUME Calm' PROVE RailShown'
    BY DEF RailShown
  <2>1. Calm /\ file' = file
    BY <1>3 DEF Calm
  <2>2. \A c \in Contexts : rail[c] = Absent => rail'[c] = r.read[c]
          /\ r.read[c] \in {Absent, file[c]}
    BY <1>2, <1>3, <2>1 DEF ContextsInv, RailShown
  <2>3. Pending => Pending'
    BY <1>3, <1>11 DEF Pending
  <2>4. \A x : x.kind = "saved" => (x \in Things' <=> x \in Things)
    BY <1>2, <1>3, <1>11
  <2>5. ASSUME NEW c \in Contexts, rail'[c] # Absent
        PROVE  /\ file[c] # Absent
               /\ \/ rail'[c] = file[c]
                  \/ \E x \in Things' : x.kind = "saved" /\ x.of.context = c
    <3>1. CASE rail[c] = Absent
      BY <2>2, <2>5, <3>1
    <3>2. CASE rail[c] # Absent
      BY <1>9, <2>1, <2>4, <3>2 DEF ContextsInv, RailShown
    <3>3. QED
      BY <3>1, <3>2
  <2>6. ASSUME NEW c \in Contexts, rail'[c] = Absent
        PROVE  /\ \A x \in Things' : x.kind = "clusters" => x.read[c] \in {Absent, file[c]}
               /\ \/ file[c] = Absent \/ Pending'
                  \/ \E x \in Things' : x.kind = "clusters" /\ x.read[c] # Absent
    BY <1>9, <2>2, <2>6, <1>2, <1>11, <2>1, <2>3 DEF ContextsInv, RailShown
  <2>7. \A x \in Things' : x.kind = "saved" => x.of.look = file[x.of.context]
    BY <2>1, <2>4 DEF ContextsInv, RailShown
  <2>8. QED
    BY <2>1, <2>5, <2>6, <2>7 DEF RailShown
<1>15. QED
  BY <1>3, <1>7, <1>8, <1>10, <1>12, <1>13, <1>14 DEF ContextsInv

LEMMA ApplyFailuresKeep ==
  ASSUME ContextsAssumption, ContextsInv, ApplyFailed \/ ApplyEksFailed
  PROVE  ContextsInv'
<1>1. PICK r : r = Result
  OBVIOUS
<1>2. UNCHANGED <<tasks, ops, rail, saves, editor>>
  BY DEF ApplyFailed, ApplyEksFailed
<1>3. /\ Numbered' /\ Changes({r}, {}) /\ r \in Things
      /\ r.kind \in {"failed", "eksFailed"} /\ Locking'
      /\ UNCHANGED <<plan, file, truth, identity, lock, crossed>> /\ ops \in Nat
  <2>1. CASE ApplyFailed
    BY <1>1, <1>2, <2>1, Taken DEF ApplyFailed
  <2>2. CASE ApplyEksFailed
    BY <1>1, <1>2, <2>2, Taken DEF ApplyEksFailed
  <2>3. QED
    BY <2>1, <2>2
<1>4. /\ managed' \in ManagedState(ops) /\ managed'.op = managed.op
      /\ managed'.found = managed.found /\ managed'.known = managed.known
      /\ managed'.state = managed.state /\ managed'.blind = managed.blind
      /\ managed'.importing \in {Absent, managed.importing}
  BY DEF ApplyFailed, AfterFailure, ApplyEksFailed, ContextsInv, Typed, ManagedState
<1>5. /\ aws'.request = aws.request /\ aws'.found = aws.found
      /\ aws'.known = aws.known /\ aws'.account = aws.account
      /\ aws'.profile = aws.profile /\ aws'.scanning = aws.scanning
      /\ aws'.state = aws.state /\ aws'.blind = aws.blind
      /\ aws' \in AwsState(ops)
  <2>1. aws' \in {aws, [aws EXCEPT !.importError = TRUE]}
    BY DEF ApplyFailed, ApplyEksFailed
  <2> QED
    BY <2>1 DEF ContextsInv, Typed, AwsState
<1>6. /\ Same(ScanKinds) /\ Same(ScanFreshKinds) /\ Same({"discovered"})
      /\ Same(FindKinds) /\ Same(SaveKinds) /\ Same(RailKinds)
  BY <1>3, SameIs DEF ScanKinds, ScanFreshKinds, FindKinds, SaveKinds, RailKinds
<1>7. Typed'
  BY <1>2, <1>3, <1>4, <1>5 DEF ContextsInv, Typed
<1>8. /\ Scanning' /\ Complete' /\ ScanFresh' /\ DiscoveryFresh' /\ SavesPending'
      /\ RailShown'
  BY <1>2, <1>3, <1>4, <1>5, <1>6, ScanningKept, CompleteKept, ScanFreshKept,
     DiscoveryFreshKept, SavesPendingKept, RailShownKept DEF ContextsInv
<1>9. Importing'
  BY <1>3, ContextsAre, <1>4, <1>5 DEF ContextsInv, Importing, ImportKinds,
     Changes
<1>10. QED
  BY <1>3, <1>7, <1>8, <1>9 DEF ContextsInv

LEMMA ApplySavedKeeps ==
  ASSUME ContextsAssumption, ContextsInv, ApplySaved
  PROVE  ContextsInv'
<1>1. PICK r, c, ok : r = Result /\ c = r.of.context /\ ok = (r.kind = "saved")
  OBVIOUS
<1>2. UNCHANGED <<tasks, ops, managed, aws, editor>>
  BY DEF ApplySaved
<1>3. /\ Numbered' /\ Changes({r}, {}) /\ r \in Things
      /\ r.kind \in {"saved", "saveFailed"} /\ Tells(r) /\ Locking'
      /\ UNCHANGED <<plan, file, truth, identity, lock, crossed>> /\ ops \in Nat
  BY <1>1, <1>2, Taken DEF ApplySaved
<1>4. /\ r.of \in SaveOf /\ c \in Contexts /\ r.of.look \in Looks
      /\ saves[c].op = r.op /\ rail[c] # Absent
  BY <1>1, <1>3
     DEF Tells, Fits, SaveKinds, SaveOf, ContextsInv, SavesPending
<1>5. /\ saves' = [saves EXCEPT ![c].result = IF r.kind = "saved" THEN "ok" ELSE "failed"]
      /\ rail' = IF r.kind = "saved" THEN [rail EXCEPT ![c] = r.of.look] ELSE rail
  BY <1>1, <1>4 DEF ApplySaved
<1>6. /\ Same(ImportKinds) /\ Same({"discovered"}) /\ Same(ScanKinds)
      /\ Same(ScanFreshKinds) /\ Same(FindKinds)
  BY <1>3, SameIs DEF ImportKinds, ScanKinds, ScanFreshKinds, FindKinds
<1>7. saves' \in [Contexts -> Save(ops)] /\ rail' \in Files /\ rail \in Files
      /\ \A d \in Contexts : d # c => saves'[d] = saves[d]
  BY <1>4, <1>5 DEF ContextsInv, Typed, Save, Files
<1>8. Typed'
  BY <1>2, <1>3, <1>7 DEF ContextsInv, Typed
<1>9. Importing' /\ Scanning' /\ Complete' /\ ScanFresh' /\ DiscoveryFresh'
  BY <1>2, <1>3, <1>6, ImportingKept, ScanningKept, CompleteKept, ScanFreshKept,
     DiscoveryFreshKept DEF ContextsInv
<1>10. /\ \A d \in Contexts : d # c => rail'[d] = rail[d]
       /\ rail'[c] # Absent
       /\ r.kind = "saved" => rail'[c] = r.of.look
       /\ r.kind # "saved" => rail' = rail
  BY <1>4, <1>5, <1>7, ContextsAre DEF Files
<1>11. /\ \A x \in Things' : x \in Things /\ x # r
       /\ \A x \in Things : x # r => x \in Things'
  BY <1>3 DEF Changes
<1>12. \A x \in Things' : x.kind \in SaveKinds => x.of.context \in Contexts /\ x.of.context # c
  BY <1>3, <1>4, <1>11 DEF ContextsInv, SavesPending, Numbered, Things, Runs,
     Tells, Fits, SaveKinds, SaveOf
<1>13. SavesPending'
  BY <1>2, <1>4, <1>7, <1>10, <1>11, <1>12 DEF ContextsInv, Typed, Editor,
     SavesPending
<1>14. RailShown'
  <2> SUFFICES ASSUME Calm' PROVE RailShown'
    BY DEF RailShown
  <2>1. Calm /\ file' = file /\ (r.kind = "saved" => r.of.look = file[c])
    BY <1>1, <1>3 DEF Calm, ContextsInv, RailShown
  <2>2. \A x : x.kind \in {"clusters", "imported", "reload"} =>
                 (x \in Things' <=> x \in Things)
    BY <1>3, <1>11
  <2>3. file[c] # Absent
    BY <1>4, <2>1 DEF ContextsInv, RailShown
  <2>4. ASSUME NEW d \in Contexts, rail'[d] # Absent
        PROVE  /\ file[d] # Absent
               /\ \/ rail'[d] = file[d]
                  \/ \E x \in Things' : x.kind = "saved" /\ x.of.context = d
    <3>1. CASE d = c /\ r.kind = "saved"
      BY <1>10, <2>1, <2>3, <3>1
    <3>2. CASE ~(d = c /\ r.kind = "saved")
      BY <1>10, <2>4, <3>2, <1>1, <1>11, <2>1 DEF ContextsInv, RailShown
    <3>3. QED
      BY <3>1, <3>2
  <2>5. \A d \in Contexts : rail'[d] = Absent => rail[d] = Absent
    BY <1>10
  <2>6. QED
    BY <1>11, <2>1, <2>2, <2>4, <2>5 DEF ContextsInv, RailShown, Pending
<1>15. QED
  BY <1>3, <1>8, <1>9, <1>13, <1>14 DEF ContextsInv

-----------------------------------------------------------------------------
(* The invariant.                                                          *)

LEMMA ContextsInvInit ==
  ASSUME ContextsAssumption PROVE
  Init => ContextsInv
<1> SUFFICES ASSUME Init PROVE ContextsInv
  OBVIOUS
<1>1. Things = {} /\ Answers = {} /\ tasks = {} /\ results = <<>> /\ ops \in Nat
  BY DEF Init, Things, Answers
<1>2. file \in Files /\ file = truth /\ rail = file /\ Configured(file) = {}
  BY ContextsAre DEF Init, Files, Configured, Contexts
<1>3. InitialManaged \in ManagedState(ops) /\ InitialAws \in AwsState(ops)
  BY <1>1 DEF InitialManaged, InitialAws, ManagedState, AwsState, Found
<1>4. /\ managed \in ManagedState(ops) /\ managed.known = {}
      /\ managed.found \cap Of("aws") = {} /\ managed.importing = Absent
      /\ \A p \in Managed : managed.op # 0 => Of(p) \subseteq managed.found
  <2>1. CASE plan.shown
    <3>1. ops = 2 /\ managed = [InitialManaged EXCEPT
                                  !.found = Of("azure") \cup Of("tailscale"), !.op = 2]
      BY <2>1 DEF Init
    <3>2. Of("azure") \cup Of("tailscale") \subseteq Clusters
          /\ (Of("azure") \cup Of("tailscale")) \cap Of("aws") = {}
      BY ContextsAre DEF Managed
    <3>3. managed.found = Of("azure") \cup Of("tailscale") /\ managed.known = {}
          /\ managed.importing = Absent
      BY <3>1 DEF InitialManaged
    <3>4. managed \in ManagedState(ops)
      <4>1. 2 \in 0..ops
        BY <3>1
      <4>2. QED
        BY <1>3, <3>1, <3>2, <4>1 DEF ManagedState
    <3>5. QED
      BY <3>2, <3>3, <3>4 DEF Managed
  <2>2. CASE ~plan.shown
    <3>1. managed = InitialManaged
      BY <2>2 DEF Init
    <3>2. managed.known = {} /\ managed.found = {} /\ managed.importing = Absent
          /\ managed.op = 0
      BY <3>1 DEF InitialManaged
    <3>3. QED
      BY <1>3, <3>1, <3>2
  <2>3. QED
    BY <2>1, <2>2
<1>5. /\ aws \in AwsState(ops) /\ aws.found = {} /\ aws.known = {} /\ ~aws.scanning
      /\ aws.profile = NoProfile
  <2>1. CASE plan.shown
    <3>1. ops = 2 /\ aws = [InitialAws EXCEPT !.request = 1, !.listed = "ok",
                                              !.profiles = Listed(Profiles)]
      BY <2>1 DEF Init
    <3>2. Listed(Profiles) \subseteq Profiles \X Accounts
      BY DEF Init, Listed
    <3>3. aws \in AwsState(ops)
      <4>1. 1 \in 0..ops /\ "ok" \in Found
        BY <3>1 DEF Found
      <4>2. QED
        BY <1>3, <3>1, <3>2, <4>1 DEF AwsState
    <3>4. aws.found = {} /\ aws.known = {} /\ ~aws.scanning /\ aws.profile = NoProfile
      BY <3>1 DEF InitialAws
    <3>5. QED
      BY <3>3, <3>4
  <2>2. CASE ~plan.shown
    <3>1. aws = InitialAws
      BY <2>2 DEF Init
    <3>2. aws.found = {} /\ aws.known = {} /\ ~aws.scanning /\ aws.profile = NoProfile
      BY <3>1 DEF InitialAws
    <3>3. QED
      BY <1>3, <3>1, <3>2
  <2>3. QED
    BY <2>1, <2>2
<1>6. Typed
  BY <1>1, ContextsAre, <1>2, <1>4, <1>5 DEF Save, Editor, NoSave, NoEditor,
     Init, ContextsAssumption, Plan, Typed
<1>7. Numbered /\ Locking /\ Importing /\ Scanning /\ Complete
  BY <1>1, <1>2, <1>4, <1>5 DEF Init, Numbered, Locking, Importing, Scanning, Complete
<1>8. ScanFresh /\ DiscoveryFresh /\ SavesPending /\ RailShown
  BY <1>1, <1>2, <1>4, <1>5
     DEF Init, ScanFresh, DiscoveryFresh, SavesPending, RailShown, NoEditor
<1>9. QED
  BY <1>6, <1>7, <1>8 DEF ContextsInv

LEMMA ContextsInvNext ==
  ASSUME ContextsAssumption PROVE
  ContextsInv /\ [Next]_vars => ContextsInv'
<1> SUFFICES ASSUME ContextsInv, [Next]_vars PROVE ContextsInv'
  OBVIOUS
<1>1. CASE Click
  <2>1. CASE OpenDiscovery \/ RefreshAgain
    BY <2>1, RefreshKeeps DEF OpenDiscovery, RefreshAgain
  <2>2. QED
    BY <1>1, <2>1, EditorsKeep, ScanKeeps, ImportKeeps, SaveLookKeeps DEF Click
<1>2. CASE Work
  BY <1>2, ReadReferencesKeeps, DiscoverKeeps, ListAccountsKeeps, ListEksKeeps,
     LockKeeps, WritersKeep, ReloadKeeps DEF Work
<1>3. CASE Frame
  BY <1>3, ApplyDiscoveredKeeps, ApplyAccountsKeeps, ApplyScannedKeeps,
     ApplyImportedKeeps, ApplyClustersKeeps, ApplyFailuresKeep, ApplySavedKeeps,
     EditorsKeep DEF Frame
<1>4. CASE Outside
  BY <1>4, EditOutsideKeeps, SignInKeeps DEF Outside
<1>5. CASE UNCHANGED vars
  BY <1>5, EditorKeeps DEF vars, ui, World, ContextsInv, Typed, SavesPending
<1>6. QED
  BY <1>1, <1>2, <1>3, <1>4, <1>5 DEF Next, SystemStep

(* No edit of the file is lost, an answer says what the file and the       *)
(* accounts were, and a cluster offered to be added is not in the file.    *)
THEOREM ContextsSafe ==
  ASSUME ContextsAssumption
  PROVE  Spec => [](TypeOK /\ EditsKept /\ ResultsExact /\ OfferedIsMissing)
<1>1. Spec => []ContextsInv
  BY ContextsInvInit, ContextsInvNext, PTL DEF Spec
<1>2. QED
  BY <1>1, ContextsInvGives, PTL

=============================================================================
