----------------------------- MODULE Workspace_proof -----------------------------
(***************************************************************************)
(* Proofs about the workspace of a cluster as the run `workspace' puts it  *)
(* together: what the user does to the objects in the table (Mutations).   *)
(* The namespace scope has a module of its own, NamespaceScope_proof.      *)
(***************************************************************************)
EXTENDS MCWorkspace, FiniteSetTheorems, SequenceTheorems, TLAPS

(* The instance counts as this module does.                                *)

LEMMA SameCount ==
  /\ \A S : Changes!IsFiniteSet(S) <=> IsFiniteSet(S)
  /\ \A S : Changes!Cardinality(S) = Cardinality(S)
  <1>1. ASSUME NEW S PROVE Changes!IsFiniteSet(S) <=> IsFiniteSet(S)
    BY DEF Changes!IsFiniteSet, IsFiniteSet
  <1>2. ASSUME NEW S PROVE Changes!Cardinality(S) = Cardinality(S)
    BY DEF Changes!Cardinality, Cardinality
  <1> QED
    BY <1>1, <1>2

LEMMA NamesCounted ==
  IsFiniteSet(Names) /\ Names = 1..Cardinality(Names) /\ Cardinality(Names) <= MaxUid
  BY ChangesAssumption, SameCount DEF Changes!MutationsAssumption

USE ChangesAssumption DEF Changes!MutationsAssumption

(* Things to count are finite.                                             *)

LEMMA TargetsFinite ==
  /\ IsFiniteSet(Changes!Targets)
  /\ \A S \in SUBSET Changes!Targets : Cardinality(S) \in Nat
  <1> DEFINE Pairs == Names \X Changes!Uids
             f == [x \in Changes!Targets |-> <<x.name, x.uid>>]
  <1>1. IsFiniteSet(Changes!Uids)
    BY FS_Interval DEF Changes!Uids
  <1>2. IsFiniteSet(Pairs)
    BY <1>1, FS_Product, NamesCounted
  <1>3. f \in Injection(Changes!Targets, Pairs)
    BY DEF Injection, IsInjective, Changes!Targets
  <1>5. IsFiniteSet(Changes!Targets)
    <2> HIDE DEF Pairs, f
    <2> QED
      BY <1>2, <1>3, FS_Injection
  <1>6. ASSUME NEW S \in SUBSET Changes!Targets PROVE Cardinality(S) \in Nat
    BY <1>5, <1>6, FS_Subset, FS_CardinalityType
  <1> QED
    BY <1>5, <1>6

LEMMA Added ==
  ASSUME NEW S, NEW s \in Seq(S), NEW e \in S
  PROVE  /\ Append(s, e) \in Seq(S)
         /\ Len(s) \in Nat /\ DOMAIN s = 1..Len(s)
         /\ Len(Append(s, e)) = Len(s) + 1
         /\ DOMAIN Append(s, e) = 1..(Len(s) + 1)
         /\ \A i \in 1..Len(s) : Append(s, e)[i] = s[i]
         /\ Append(s, e)[Len(s) + 1] = e
  OBVIOUS

-----------------------------------------------------------------------------
(* What an object, a row, a request and an answer are.                     *)

Rooted(object) == object.uid = Changes!NoUid => object = Changes!Absent

ObjectsSound ==
  \A n \in Names : /\ Rooted(objects[n]) /\ Rooted(rows[n])
                   /\ objects[n].version <= writes

WritesCounted == "force" \notin menu.kinds => writes = 0

OfAsked(op, kind) == op \in DOMAIN asked /\ asked[op].kind = kind

RequestsKnown ==
  /\ \A t \in tasks : OfAsked(t.op, t.kind)
  /\ \A a \in answers : OfAsked(a.op, a.kind)
  /\ \A op \in DOMAIN asked : asked[op].targets # {}
  /\ \A x \in touched : x.op \in DOMAIN asked

Basics == Changes!TypeOK /\ ObjectsSound /\ WritesCounted /\ RequestsKnown

-----------------------------------------------------------------------------
(* What a write to the cluster leaves.                                     *)

LEMMA AbsentIs ==
  /\ Changes!Absent \in Changes!Objects
  /\ Changes!Absent.uid = Changes!NoUid /\ Changes!Absent.version = 0 /\ Changes!Absent.deleting = FALSE
  BY DEF Changes!Absent, Changes!Objects, Changes!Uids, Changes!NoUid

LEMMA ObjectFields ==
  ASSUME NEW object \in Changes!Objects, NEW v \in Nat
  PROVE  /\ object.uid \in Changes!Uids \cup {Changes!NoUid} /\ object.deleting \in BOOLEAN
         /\ object.held \in BOOLEAN /\ object.version \in Nat
         /\ [object EXCEPT !.version = v] \in Changes!Objects
         /\ [object EXCEPT !.version = v].uid = object.uid
         /\ [object EXCEPT !.version = v].deleting = object.deleting
         /\ [object EXCEPT !.version = v].version = v
         /\ [object EXCEPT !.deleting = TRUE] \in Changes!Objects
         /\ [object EXCEPT !.deleting = TRUE].uid = object.uid
         /\ [object EXCEPT !.deleting = TRUE].deleting = TRUE
  BY DEF Changes!Objects

LEMMA SameVersion ==
  ASSUME NEW object \in Changes!Objects, object.version = 0
  PROVE  [object EXCEPT !.version = 0] = object
  BY DEF Changes!Objects

LEMMA WriteEffect ==
  ASSUME Basics, NEW n \in Names, NEW object \in Changes!Objects, Rooted(object),
         Changes!Writes(n, object), menu' = menu
  PROVE  /\ writes' \in Nat /\ writes' >= writes /\ objects' \in [Names -> Changes!Objects]
         /\ WritesCounted'
         /\ \A m \in Names : m # n => objects'[m] = objects[m]
         /\ \A m \in Names : /\ objects'[m].uid = Changes!NoUid => objects'[m] = Changes!Absent
                             /\ objects'[m].version <= writes'
         /\ "force" \in menu.kinds => writes' = writes + 1
         /\ \/ objects'[n] = Changes!Absent
            \/ /\ objects'[n].version = writes'
               /\ objects'[n].uid = object.uid /\ objects'[n].deleting = object.deleting
  <1>1. /\ writes \in Nat /\ objects \in [Names -> Changes!Objects]
        /\ \A m \in Names : /\ objects[m].uid = Changes!NoUid => objects[m] = Changes!Absent
                            /\ objects[m].version <= writes
    BY DEF Basics, Changes!TypeOK, ObjectsSound, Rooted
  <1>5. \A m \in Names : objects[m].version \in Nat
    BY <1>1, ObjectFields
  <1>2. /\ writes' \in Nat /\ writes' >= writes
        /\ "force" \in menu.kinds => writes' = writes + 1
        /\ WritesCounted'
    BY <1>1 DEF Changes!Writes, Basics, WritesCounted
  <1>3. PICK put :
          /\ put = (IF object = Changes!Absent THEN Changes!Absent
                        ELSE [object EXCEPT !.version = writes'])
          /\ objects' = [objects EXCEPT ![n] = put]
    BY DEF Changes!Writes
  <1>4. /\ put \in Changes!Objects
        /\ put.uid = Changes!NoUid => put = Changes!Absent
        /\ put.version <= writes'
        /\ \/ put = Changes!Absent
           \/ /\ put.version = writes' /\ put.uid = object.uid
              /\ put.deleting = object.deleting
    <2>1. CASE object = Changes!Absent
      BY <1>2, <1>3, <2>1, AbsentIs
    <2>2. CASE object # Changes!Absent
      BY <1>3, <2>2, <1>2 DEF Rooted, Changes!Objects
    <2> QED
      BY <2>1, <2>2
  <1>6. \A m \in Names : objects'[m] = IF m = n THEN put ELSE objects[m]
    BY <1>1, <1>3
  <1>7. objects' \in [Names -> Changes!Objects]
    BY <1>1, <1>3, <1>4
  <1> QED
    BY <1>1, <1>2, <1>4, <1>5, <1>6, <1>7

-----------------------------------------------------------------------------
(* What the steps do.                                                      *)

Answered(t) ==
  /\ tasks' = tasks \ {t}
  /\ \E ok \in BOOLEAN :
       answers' = answers \cup {[op |-> t.op, kind |-> t.kind, name |-> t.name,
                                 bulk |-> t.bulk, ok |-> ok]}

Rereads(t) ==
  LET object == objects[t.name] IN
  /\ t.kind = "force" /\ t.read = 0
  /\ object.uid = t.uid /\ object.deleting
  /\ tasks' = (tasks \ {t}) \cup {[t EXCEPT !.read = object.version]}
  /\ UNCHANGED <<Changes!server, answers>>

Overwrites(n) == \E object \in Changes!Objects : Rooted(object) /\ Changes!Writes(n, object)

Touching(t) ==
  /\ objects[t.name] # Changes!Absent
  /\ t.kind = "bulk" => t.uid = Changes!NoUid \/ objects[t.name].uid = t.uid
  /\ t.kind = "force" => t.read # 0 /\ objects[t.name].version = t.read
  /\ Changes!Touches(t) /\ Overwrites(t.name)
  /\ UNCHANGED <<menu, created>>

Serving(t) ==
  \/ Changes!DeleteObject(t) \/ Changes!CheckFinalizers(t) \/ Changes!RemoveFinalizers(t)
  \/ Changes!PatchObject(t) \/ Changes!ReadObject(t) \/ Changes!RequestFails(t)

LEMMA TaskFields ==
  ASSUME Basics, NEW t \in tasks
  PROVE  /\ t.op \in Changes!Ops /\ t.op \in DOMAIN asked /\ asked[t.op].kind = t.kind
         /\ t.kind \in Changes!AllKinds /\ t.name \in Names /\ t.uid \in Changes!Uids \cup {Changes!NoUid}
         /\ t.bulk \in Nat /\ t.read \in Nat
         /\ t \in Changes!Tasks /\ objects[t.name] \in Changes!Objects /\ Rooted(objects[t.name])
  <1>1. t \in Changes!Tasks /\ objects \in [Names -> Changes!Objects]
    BY DEF Basics, Changes!TypeOK
  <1>2. t.name \in Names
    BY <1>1 DEF Changes!Tasks
  <1> QED
    BY <1>1, <1>2 DEF Changes!Tasks, Basics, RequestsKnown, OfAsked, ObjectsSound

LEMMA ServingEffect ==
  ASSUME Basics, NEW t \in tasks, Serving(t)
  PROVE  /\ UNCHANGED <<Changes!ui, events>> /\ faults' \in Nat
         /\ Answered(t) \/ Rereads(t)
         /\ UNCHANGED Changes!server \/ (Answered(t) /\ Touching(t))
  <1> USE DEF Changes!Works, Changes!Served, Changes!Refused, Changes!Answer, Answered
  <1>0. /\ objects[t.name] \in Changes!Objects /\ Rooted(objects[t.name])
        /\ faults \in Nat /\ faults + 1 \in Nat
    BY TaskFields DEF Basics, Changes!TypeOK
  <1>1. CASE Changes!DeleteObject(t)
    <2>1. CASE ~Changes!Matches(t)
      BY <1>1, <1>0, <2>1 DEF Changes!DeleteObject
    <2>2. CASE Changes!Matches(t)
      <3>1. PICK object : /\ object = IF objects[t.name].held
                                  THEN [objects[t.name] EXCEPT !.deleting = TRUE]
                                  ELSE Changes!Absent
                          /\ Changes!Writes(t.name, object)
        BY <1>1, <2>2 DEF Changes!DeleteObject
      <3>2. object \in Changes!Objects /\ Rooted(object)
        <4>1. CASE objects[t.name].held
          BY <3>1, <4>1, <1>0, <2>2 DEF Changes!Objects, Changes!Matches, Rooted
        <4>2. CASE ~objects[t.name].held
          BY <3>1, <4>2, AbsentIs DEF Rooted
        <4> QED
          BY <4>1, <4>2
      <3>3. Touching(t)
        BY <1>1, <2>2, <3>1, <3>2 DEF Changes!DeleteObject, Changes!Matches, Touching, Overwrites
      <3>4. UNCHANGED <<Changes!ui, events>> /\ Answered(t) /\ faults' \in Nat
        BY <1>1, <1>0, <2>2 DEF Changes!DeleteObject
      <3> QED
        BY <3>3, <3>4
    <2> QED
      BY <2>1, <2>2
  <1>2. CASE Changes!CheckFinalizers(t)
    BY <1>2, <1>0 DEF Changes!CheckFinalizers, Rereads
  <1>3. CASE Changes!RemoveFinalizers(t)
    <2>1. CASE objects[t.name].version = t.read
      BY <1>3, <2>1, AbsentIs, <1>0 DEF Changes!RemoveFinalizers, Overwrites,
         Rooted, Touching
    <2>2. CASE objects[t.name].version # t.read
      BY <1>3, <1>0, <2>2 DEF Changes!RemoveFinalizers
    <2> QED
      BY <2>1, <2>2
  <1>4. CASE Changes!PatchObject(t)
    BY <1>4, <1>0 DEF Changes!PatchObject, Touching, Overwrites
  <1>5. CASE Changes!ReadObject(t)
    BY <1>5, <1>0 DEF Changes!ReadObject
  <1>6. CASE Changes!RequestFails(t)
    BY <1>6, <1>0 DEF Changes!RequestFails
  <1> QED
    BY <1>1, <1>2, <1>3, <1>4, <1>5, <1>6 DEF Serving

Told(kind, x) == IF kind \in {"bulk", "force"} THEN x.uid ELSE Changes!NoUid

Asking(kind, targets, bulk) ==
  /\ Changes!Op <= MaxAsked
  /\ asked' = Append(asked, [kind |-> kind, targets |-> targets])
  /\ tasks' = tasks \cup {Changes!Task(Changes!Op, kind, x, Told(kind, x), bulk) : x \in targets}

Selecting ==
  /\ selection' \subseteq Changes!Uids
  /\ UNCHANGED <<dialogs, progress, bulkId, runs, tasks, asked>>

Opening(kind, targets) ==
  /\ kind \in Changes!AllKinds /\ targets \in SUBSET Changes!Targets
  /\ kind = "force" => "force" \in menu.kinds
  /\ kind = "bulk" => /\ progress = Changes!NoProgress
                      /\ targets \subseteq {Changes!Row(n) : n \in Names}
  /\ kind # "bulk" => \E x \in Changes!Targets : targets = {x}
  /\ dialogs' = [dialogs EXCEPT ![kind] = targets]
  /\ UNCHANGED <<selection, progress, bulkId, runs, tasks, asked>>

Cancelling(kind) ==
  /\ dialogs' = [dialogs EXCEPT ![kind] = Changes!NoDialog]
  /\ UNCHANGED <<selection, progress, bulkId, runs, tasks, asked>>

Fetching(x) ==
  /\ x \in Changes!Targets
  /\ Asking("fetch", {x}, 0)
  /\ UNCHANGED <<selection, dialogs, progress, bulkId, runs>>

Singles == {"delete", "restart", "scale", "run", "force"}

Confirming(kind) ==
  /\ kind \in Singles
  /\ dialogs[kind] # Changes!NoDialog
  /\ Asking(kind, dialogs[kind], 0)
  /\ dialogs' = [dialogs EXCEPT ![kind] = Changes!NoDialog]
  /\ runs' = IF kind = "run" THEN runs \cup {Changes!Op} ELSE runs
  /\ UNCHANGED <<selection, progress, bulkId>>

StartingBulk ==
  /\ dialogs["bulk"] # Changes!NoDialog
  /\ Asking("bulk", dialogs["bulk"], bulkId + 1)
  /\ dialogs' = [dialogs EXCEPT !["bulk"] = Changes!NoDialog]
  /\ bulkId' = bulkId + 1
  /\ progress' = [id |-> bulkId + 1, remaining |-> dialogs["bulk"],
                  failures |-> {}, count |-> Cardinality(dialogs["bulk"])]
  /\ UNCHANGED <<selection, runs>>

LEMMA RowIsTarget ==
  ASSUME Basics, NEW n \in Changes!Listed
  PROVE  Changes!Row(n) \in Changes!Targets /\ rows[n].uid \in Changes!Uids /\ n \in Names
  <1>1. n \in Names /\ rows[n] # Changes!Absent /\ rows \in [Names -> Changes!Objects]
    BY DEF Changes!Listed, Basics, Changes!TypeOK
  <1>2. rows[n].uid \in Changes!Uids
    BY <1>1 DEF Basics, ObjectsSound, Rooted, Changes!Objects
  <1> QED
    BY <1>1, <1>2 DEF Changes!Row, Changes!Targets

LEMMA UserEffect ==
  ASSUME Basics, Changes!User
  PROVE  /\ UNCHANGED <<Changes!server, rows, answers, history, events, faults>>
         /\ \/ Selecting \/ StartingBulk
            \/ \E kind, targets : Opening(kind, targets)
            \/ \E kind \in Changes!AllKinds : Cancelling(kind) \/ Confirming(kind)
            \/ \E x : Fetching(x)
  <1> USE DEF Changes!Clicks, Changes!Confirms, Changes!Asks, Asking
  <1>0. selection \subseteq Changes!Uids
    BY DEF Basics, Changes!TypeOK
  <1>1. ASSUME NEW n \in Names, Changes!ToggleRow(n)
        PROVE  Selecting /\ UNCHANGED <<Changes!server, rows, answers, history, events, faults>>
    BY <1>0, <1>1, RowIsTarget DEF Changes!ToggleRow, Selecting
  <1>2. ASSUME Changes!ClearSelection
        PROVE  Selecting /\ UNCHANGED <<Changes!server, rows, answers, history, events, faults>>
    BY <1>2 DEF Changes!ClearSelection, Selecting
  <1>3. ASSUME NEW n \in Names,
               Changes!RequestDelete(n) \/ Changes!RequestForce(n) \/ Changes!RequestRestart(n) \/ Changes!RequestRun(n)
        PROVE  /\ \E kind, targets : Opening(kind, targets)
               /\ UNCHANGED <<Changes!server, rows, answers, history, events, faults>>
    <2>1. PICK kind \in {"delete", "force", "restart", "run"} :
            /\ kind \in menu.kinds /\ n \in Changes!Listed /\ Changes!Opens(kind, {Changes!Row(n)})
      BY <1>3 DEF Changes!RequestDelete, Changes!RequestForce, Changes!RequestRestart, Changes!RequestRun
    <2>2. Changes!Row(n) \in Changes!Targets
      BY <2>1, RowIsTarget
    <2>3. kind \in Changes!AllKinds /\ kind # "bulk"
      BY <2>1 DEF Changes!AllKinds
    <2>4. Opening(kind, {Changes!Row(n)})
      BY <2>1, <2>2, <2>3 DEF Changes!Opens, Opening
    <2> QED
      BY <2>1, <2>4 DEF Changes!Opens
  <1>4. ASSUME Changes!DeleteSelected
        PROVE  /\ \E kind, targets : Opening(kind, targets)
               /\ UNCHANGED <<Changes!server, rows, answers, history, events, faults>>
    <2>1. PICK targets : /\ targets = {Changes!Row(n) : n \in {m \in Changes!Listed : rows[m].uid \in selection}}
                         /\ progress = Changes!NoProgress /\ Changes!Opens("bulk", targets)
      BY <1>4 DEF Changes!DeleteSelected
    <2>2. targets \in SUBSET Changes!Targets /\ targets \subseteq {Changes!Row(n) : n \in Names}
      BY <2>1, RowIsTarget
    <2>3. Opening("bulk", targets)
      BY <2>1, <2>2 DEF Changes!Opens, Opening, Changes!AllKinds
    <2> QED
      BY <2>1, <2>3 DEF Changes!Opens
  <1>5. ASSUME NEW n \in Names, Changes!RequestScale(n)
        PROVE  /\ \E x : Fetching(x)
               /\ UNCHANGED <<Changes!server, rows, answers, history, events, faults>>
    BY <1>5, RowIsTarget DEF Changes!RequestScale, Fetching, Told, Changes!NoUidOf
  <1>6. ASSUME NEW kind \in Changes!AllKinds, Changes!Cancel(kind)
        PROVE  Cancelling(kind) /\ UNCHANGED <<Changes!server, rows, answers, history, events, faults>>
    BY <1>6 DEF Changes!Cancel, Cancelling
  <1>7. ASSUME NEW kind \in Changes!AllKinds, Changes!ConfirmByName(kind)
        PROVE  Confirming(kind) /\ UNCHANGED <<Changes!server, rows, answers, history, events, faults>>
    BY <1>7 DEF Changes!ConfirmByName, Confirming, Singles, Told, Changes!NoUidOf
  <1>8. ASSUME Changes!ConfirmRun
        PROVE  Confirming("run") /\ UNCHANGED <<Changes!server, rows, answers, history, events, faults>>
    BY <1>8 DEF Changes!ConfirmRun, Confirming, Singles, Told, Changes!NoUidOf
  <1>9. ASSUME Changes!ConfirmForce
        PROVE  Confirming("force") /\ UNCHANGED <<Changes!server, rows, answers, history, events, faults>>
    BY <1>9 DEF Changes!ConfirmForce, Confirming, Singles, Told, Changes!UidOf
  <1>10. ASSUME Changes!ConfirmBulk
         PROVE  StartingBulk /\ UNCHANGED <<Changes!server, rows, answers, history, events, faults>>
    BY <1>10, SameCount DEF Changes!ConfirmBulk, StartingBulk, Told, Changes!UidOf
  <1>11. "run" \in Changes!AllKinds /\ "force" \in Changes!AllKinds
    BY DEF Changes!AllKinds
  <1> QED
    BY <1>1, <1>2, <1>3, <1>4, <1>5, <1>6, <1>7, <1>8, <1>9, <1>10, <1>11 DEF Changes!User

Entered(a) ==
  \E ok \in BOOLEAN, failed \in Nat :
    history' = Append(history, [op |-> a.op, ok |-> ok, failed |-> failed])

Redialed(a) ==
  \/ UNCHANGED dialogs
  \/ \E kind \in Changes!AllKinds : dialogs' = [dialogs EXCEPT ![kind] = Changes!NoDialog]
  \/ /\ a.kind = "fetch"
     /\ dialogs' = [dialogs EXCEPT !["scale"] = asked[a.op].targets]

(* The answer to a request about one object is applied.                    *)
Applying(a) ==
  /\ a.kind # "bulk"
  /\ answers' = answers \ {a}
  /\ \/ Entered(a)
     \/ UNCHANGED history /\ a.kind = "fetch"
     \/ UNCHANGED history /\ a.kind = "run" /\ a.op \notin runs
  /\ Redialed(a)
  /\ runs' = IF a.kind = "run" THEN runs \ {a.op} ELSE runs
  /\ UNCHANGED <<selection, progress>>

(* The answer about one target of a bulk delete: the delete goes on, or    *)
(* it was the last.                                                        *)
SettlingOne(a, target) ==
  /\ target \in progress.remaining /\ target.name = a.name /\ progress.id = a.bulk
  /\ selection' \subseteq selection
  /\ \E failures \in {progress.failures, progress.failures \cup {target}} :
       LET remaining == progress.remaining \ {target} IN
       IF remaining = {} THEN Entered(a) /\ progress' = Changes!NoProgress
       ELSE /\ progress' = [progress EXCEPT !.remaining = remaining,
                                            !.failures = failures]
            /\ UNCHANGED history

Settling(a) ==
  /\ a.kind = "bulk"
  /\ answers' = answers \ {a}
  /\ IF \E target \in progress.remaining :
          progress.id = a.bulk /\ target.name = a.name
       THEN \E target : SettlingOne(a, target)
       ELSE UNCHANGED <<selection, progress, history>>
  /\ Redialed(a)
  /\ UNCHANGED runs

Shows(a) ==
  \/ Changes!ApplySingle(a) \/ Changes!ApplyRestart(a) \/ Changes!ApplyRun(a)
  \/ Changes!ApplyScaleFetched(a) \/ Changes!ApplyBulk(a)

LEMMA AnswerFields ==
  ASSUME Basics, NEW a \in answers
  PROVE  /\ a.op \in Changes!Ops /\ a.op \in DOMAIN asked /\ asked[a.op].kind = a.kind
         /\ a.kind \in Changes!AllKinds /\ a.name \in Names /\ a.bulk \in Nat
         /\ a.ok \in BOOLEAN
  BY DEF Basics, Changes!TypeOK, Changes!Answers, RequestsKnown, OfAsked

LEMMA ProgressFields ==
  ASSUME Basics
  PROVE  /\ progress.id \in Nat /\ progress.remaining \in SUBSET Changes!Targets
         /\ progress.failures \in SUBSET Changes!Targets /\ progress.count \in Nat
         /\ \A r, f \in SUBSET Changes!Targets :
              LET next == [progress EXCEPT !.remaining = r, !.failures = f] IN
              /\ next \in [id: Nat, remaining: SUBSET Changes!Targets,
                           failures: SUBSET Changes!Targets, count: Nat]
              /\ next.id = progress.id /\ next.remaining = r /\ next.failures = f
  BY DEF Basics, Changes!TypeOK

LEMMA ProgressSets ==
  ASSUME Basics, NEW target \in progress.remaining
  PROVE  /\ progress.remaining \ {target} \in SUBSET Changes!Targets
         /\ progress.failures \in SUBSET Changes!Targets
         /\ progress.failures \cup {target} \in SUBSET Changes!Targets
<1>1. /\ progress.remaining \in SUBSET Changes!Targets
      /\ progress.failures \in SUBSET Changes!Targets
  BY ProgressFields
<1>2. target \in Changes!Targets
  BY ONLY <1>1, target \in progress.remaining
<1> QED
  BY ONLY <1>1, <1>2

LEMMA FrameEffect ==
  ASSUME Basics, NEW a \in answers, Shows(a)
  PROVE  /\ UNCHANGED <<Changes!server, rows, bulkId, tasks, asked, events, faults>>
         /\ Applying(a) \/ Settling(a)
  <1> USE DEF Changes!Applies
  <1>0. a.kind \in Changes!AllKinds /\ a.ok \in BOOLEAN
    BY AnswerFields
  <1>1. ASSUME Changes!Reports(a) PROVE Entered(a)
    BY <1>0, <1>1 DEF Changes!Reports, Changes!Record, Entered
  <1>2. ASSUME NEW kind \in Changes!AllKinds, Changes!Closes(a, kind) PROVE Redialed(a)
    BY <1>2 DEF Changes!Closes, Redialed
  <1>3. CASE Changes!ApplySingle(a)
    BY <1>0, <1>1, <1>2, <1>3 DEF Changes!ApplySingle, Applying
  <1>4. CASE Changes!ApplyRestart(a)
    BY <1>1, <1>4 DEF Changes!ApplyRestart, Applying, Redialed
  <1>5. CASE Changes!ApplyRun(a)
    BY <1>1, <1>5 DEF Changes!ApplyRun, Applying, Redialed
  <1>6. CASE Changes!ApplyScaleFetched(a)
    BY <1>1, <1>6 DEF Changes!ApplyScaleFetched, Applying, Redialed
  <1>7. CASE Changes!ApplyBulk(a)
    <2>0. Redialed(a)
      BY <1>2, <1>7 DEF Changes!ApplyBulk, Changes!AllKinds
    <2>1. CASE \E target \in progress.remaining :
                 progress.id = a.bulk /\ target.name = a.name
      <3>1. PICK target \in progress.remaining :
              LET next == Changes!Settled(a, target) IN
                /\ target.name = a.name
                /\ selection' = IF a.ok THEN selection \ {target.uid}
                                ELSE selection
                /\ IF next.remaining = {}
                     THEN /\ Changes!Record(a.op, next.failures = {},
                                    Cardinality(next.failures))
                          /\ progress' = Changes!NoProgress
                     ELSE progress' = next /\ UNCHANGED history
        BY <1>7, <2>1, SameCount DEF Changes!ApplyBulk
      <3>2. PICK failures \in SUBSET Changes!Targets :
              /\ failures = IF a.ok THEN progress.failures
                            ELSE progress.failures \cup {target}
              /\ failures \in {progress.failures, progress.failures \cup {target}}
        <4>0. target \in progress.remaining
          BY <3>1
        <4>1. /\ progress.failures \in SUBSET Changes!Targets
              /\ progress.failures \cup {target} \in SUBSET Changes!Targets
          BY <4>0, ProgressSets
        <4> QED
          BY ONLY <4>1
      <3>3. PICK remaining \in SUBSET Changes!Targets : remaining = progress.remaining \ {target}
        BY <3>1, ProgressSets
      <3>4. Changes!Settled(a, target) = [progress EXCEPT !.remaining = remaining,
                                                  !.failures = failures]
        BY <3>2, <3>3, ProgressFields DEF Changes!Settled, Basics, Changes!TypeOK
      <3>5. /\ Changes!Settled(a, target).remaining = remaining
            /\ Changes!Settled(a, target).failures = failures
        BY <3>2, <3>3, <3>4, ProgressFields
      <3>6. Cardinality(failures) \in Nat
        BY <3>2, TargetsFinite
      <3>7. IF remaining = {} THEN Entered(a) /\ progress' = Changes!NoProgress
            ELSE progress' = Changes!Settled(a, target) /\ UNCHANGED history
        BY <3>1, <3>5, <3>6 DEF Changes!Record, Entered
      <3>8. progress.id = a.bulk
        BY <2>1
      <3>9. SettlingOne(a, target)
        BY <3>1, <3>2, <3>3, <3>4, <3>7, <3>8 DEF SettlingOne
      <3> QED
        BY <1>7, <2>0, <2>1, <3>9 DEF Changes!ApplyBulk, Settling
    <2>2. CASE ~\E target \in progress.remaining :
                  progress.id = a.bulk /\ target.name = a.name
      BY <1>7, <2>0, <2>2 DEF Changes!ApplyBulk, Settling
    <2> QED
      BY <2>1, <2>2
  <1> QED
    BY <1>3, <1>4, <1>5, <1>6, <1>7 DEF Shows

(* Others write an object, or a row is brought up to date.                 *)
Elsewhere ==
  /\ UNCHANGED <<Changes!ui, tasks, answers, touched, menu, faults>>
  /\ created' \in 0..MaxUid /\ events' \in Nat
  /\ \E n \in Names : Overwrites(n)

Refreshing(n) ==
  /\ rows' = [rows EXCEPT ![n] = [objects[n] EXCEPT !.version = 0]]
  /\ UNCHANGED <<Changes!server, selection, dialogs, progress, bulkId, runs, tasks,
                 answers, history, asked, events, faults>>

LEMMA ClusterEffect ==
  ASSUME Basics, Changes!Cluster
  PROVE  Elsewhere \/ \E n \in Names : Refreshing(n)
  <1>0. /\ objects \in [Names -> Changes!Objects] /\ \A n \in Names : Rooted(objects[n])
        /\ created \in 0..MaxUid /\ events \in Nat
    BY DEF Basics, Changes!TypeOK, ObjectsSound
  <1>1. ASSUME NEW n \in Names, Changes!Create(n) PROVE Elsewhere
    <2>1. PICK held \in BOOLEAN : Changes!Writes(n, [Changes!Absent EXCEPT !.uid = created + 1, !.held = held])
      BY <1>1 DEF Changes!Create, Changes!Finalizers
    <2>2. created < MaxUid
      BY <1>1 DEF Changes!Create
    <2>3. PICK object : object = [Changes!Absent EXCEPT !.uid = created + 1, !.held = held]
      OBVIOUS
    <2>4. object \in Changes!Objects /\ object.uid # Changes!NoUid
      <3>1. object = [uid |-> created + 1, deleting |-> FALSE, held |-> held, version |-> 0]
        BY <2>3 DEF Changes!Absent
      <3>2. held \in BOOLEAN /\ created + 1 \in Changes!Uids /\ created + 1 # Changes!NoUid
        BY <1>0, <2>1, <2>2 DEF Changes!Uids, Changes!NoUid
      <3> QED
        BY <3>1, <3>2 DEF Changes!Objects
    <2>5. Overwrites(n)
      BY <2>1, <2>3, <2>4 DEF Overwrites, Rooted
    <2> QED
      BY <1>0, <1>1, <2>2, <2>5 DEF Changes!Create, Changes!Others, Elsewhere
  <1>2. ASSUME NEW n \in Names, Changes!OthersDelete(n) PROVE Elsewhere
    <2>1. PICK object :
            /\ object = IF objects[n].held /\ ~objects[n].deleting
                          THEN [objects[n] EXCEPT !.deleting = TRUE] ELSE Changes!Absent
            /\ Changes!Writes(n, object)
      BY <1>2 DEF Changes!OthersDelete
    <2>2. objects[n] \in Changes!Objects /\ objects[n].uid # Changes!NoUid
      BY <1>0, <1>2 DEF Changes!OthersDelete, Rooted
    <2>3. object \in Changes!Objects /\ Rooted(object)
      <3>1. CASE object = Changes!Absent
        BY <3>1, AbsentIs DEF Rooted
      <3>2. CASE object = [objects[n] EXCEPT !.deleting = TRUE]
        BY <2>2, <3>2 DEF Changes!Objects, Rooted
      <3> QED
        BY <2>1, <3>1, <3>2
    <2>4. Overwrites(n)
      BY <2>1, <2>3 DEF Overwrites
    <2> QED
      BY <1>0, <1>2, <2>4 DEF Changes!OthersDelete, Changes!Others, Elsewhere
  <1>3. ASSUME NEW n \in Names, Changes!OthersUpdate(n) PROVE Elsewhere
    BY <1>0, <1>3 DEF Changes!OthersUpdate, Overwrites, Changes!Others,
       Elsewhere
  <1>4. ASSUME NEW n \in Names, Changes!WatchReports(n) PROVE Refreshing(n)
    BY <1>4 DEF Changes!WatchReports, Refreshing
  <1> QED
    BY <1>1, <1>2, <1>3, <1>4 DEF Changes!Cluster

Clicked ==
  /\ UNCHANGED <<Changes!server, rows, answers, history, events, faults>>
  /\ \/ Selecting \/ StartingBulk
     \/ \E kind, targets : Opening(kind, targets)
     \/ \E kind \in Changes!AllKinds : Cancelling(kind) \/ Confirming(kind)
     \/ \E x : Fetching(x)

Worked ==
  \E t \in tasks :
    /\ UNCHANGED <<Changes!ui, events>> /\ faults' \in Nat
    /\ Answered(t) \/ Rereads(t)
    /\ UNCHANGED Changes!server \/ (Answered(t) /\ Touching(t))

Framed ==
  /\ UNCHANGED <<Changes!server, rows, bulkId, tasks, asked, events, faults>>
  /\ \E a \in answers : Applying(a) \/ Settling(a)

LEMMA StepKinds ==
  ASSUME Basics, [Changes!Next]_Changes!vars
  PROVE  \/ Clicked \/ Worked \/ Framed
         \/ Elsewhere \/ (\E n \in Names : Refreshing(n)) \/ UNCHANGED Changes!vars
  <1>1. CASE Changes!User
    BY <1>1, UserEffect DEF Clicked
  <1>2. CASE Changes!WorkerStep
    BY <1>2, ServingEffect DEF Changes!WorkerStep, Serving, Worked
  <1>3. CASE Changes!Frame
    BY <1>3, FrameEffect DEF Changes!Frame, Shows, Framed
  <1>4. CASE Changes!Cluster
    BY <1>4, ClusterEffect
  <1> QED
    BY <1>1, <1>2, <1>3, <1>4 DEF Changes!Next

-----------------------------------------------------------------------------
(* Types.                                                                  *)

(* A request: it is known from now on, and each of its targets has a task. *)
LEMMA AskingEffect ==
  ASSUME Basics, NEW kind \in Changes!AllKinds, NEW targets \in SUBSET Changes!Targets,
         targets # {}, NEW bulk \in Nat, Asking(kind, targets, bulk)
  PROVE  /\ Changes!Op \in Changes!Ops /\ Changes!Op \notin DOMAIN asked
         /\ asked' \in Seq([kind: Changes!AllKinds, targets: SUBSET Changes!Targets])
         /\ Len(asked') <= MaxAsked
         /\ DOMAIN asked' = DOMAIN asked \cup {Changes!Op}
         /\ \A op \in DOMAIN asked : asked'[op] = asked[op]
         /\ asked'[Changes!Op].kind = kind /\ asked'[Changes!Op].targets = targets
         /\ tasks \subseteq tasks' /\ tasks' \subseteq Changes!Tasks
         /\ \A t \in tasks' \ tasks : \E x \in targets : t = Changes!Task(Changes!Op, kind, x, Told(kind, x), bulk)
         /\ \A x \in targets : Changes!Task(Changes!Op, kind, x, Told(kind, x), bulk) \in tasks'
  <1>1. /\ asked \in Seq([kind: Changes!AllKinds, targets: SUBSET Changes!Targets])
        /\ tasks \subseteq Changes!Tasks
    BY DEF Basics, Changes!TypeOK
  <1>2. Changes!Op = Len(asked) + 1 /\ Changes!Op <= MaxAsked
    BY DEF Asking, Changes!Op
  <1>3. PICK e \in [kind: Changes!AllKinds, targets: SUBSET Changes!Targets] :
          e = [kind |-> kind, targets |-> targets]
    OBVIOUS
  <1>4. asked' = Append(asked, e)
    BY <1>3 DEF Asking
  <1>5. /\ asked' \in Seq([kind: Changes!AllKinds, targets: SUBSET Changes!Targets])
        /\ Len(asked) \in Nat /\ DOMAIN asked = 1..Len(asked)
        /\ Len(asked') = Len(asked) + 1
        /\ DOMAIN asked' = 1..(Len(asked) + 1)
        /\ \A i \in 1..Len(asked) : asked'[i] = asked[i]
        /\ asked'[Len(asked) + 1] = e
    BY <1>1, <1>4, Added
  <1>6. Changes!Op \in Changes!Ops /\ Changes!Op \notin DOMAIN asked /\ DOMAIN asked' = DOMAIN asked \cup {Changes!Op}
    BY <1>2, <1>5 DEF Changes!Ops
  <1>7. ASSUME NEW x \in targets
        PROVE  Changes!Task(Changes!Op, kind, x, Told(kind, x), bulk) \in Changes!Tasks
    BY <1>6 DEF Changes!Task, Told, Changes!Tasks, Changes!Targets
  <1> QED
    BY <1>1, <1>2, <1>3, <1>5, <1>6, <1>7 DEF Asking

(* The requests the interface makes.                                       *)
AsksNow ==
  \E kind \in Changes!AllKinds, targets \in SUBSET Changes!Targets, bulk \in Nat :
    targets # {} /\ Asking(kind, targets, bulk)

LEMMA ClickedAsks ==
  ASSUME Basics, Clicked
  PROVE  UNCHANGED <<tasks, asked>> \/ AsksNow
  <1>0. dialogs \in [Changes!AllKinds -> SUBSET Changes!Targets] /\ bulkId + 1 \in Nat
    BY DEF Basics, Changes!TypeOK
  <1>1. ASSUME StartingBulk PROVE AsksNow
    BY <1>0, <1>1 DEF StartingBulk, AsksNow, Changes!AllKinds, Changes!NoDialog
  <1>2. ASSUME NEW kind \in Changes!AllKinds, Confirming(kind) PROVE AsksNow
    BY <1>0, <1>2 DEF Confirming, AsksNow, Changes!NoDialog
  <1>3. ASSUME NEW x, Fetching(x) PROVE AsksNow
    BY <1>3 DEF Fetching, AsksNow, Changes!AllKinds
  <1> QED
    BY <1>1, <1>2, <1>3 DEF Clicked, Selecting, Opening, Cancelling

RequestTypes ==
  /\ asked \in Seq([kind: Changes!AllKinds, targets: SUBSET Changes!Targets]) /\ Len(asked) <= MaxAsked
  /\ tasks \subseteq Changes!Tasks /\ answers \subseteq Changes!Answers

RequestsStay ==
  /\ RequestTypes' /\ DOMAIN asked \subseteq DOMAIN asked'
  /\ \A op \in DOMAIN asked : asked'[op] = asked[op]
  /\ \A t \in tasks' : OfAsked(t.op, t.kind)'
  /\ \A a \in answers' : OfAsked(a.op, a.kind)'
  /\ \A op \in DOMAIN asked' : asked'[op].targets # {}

LEMMA RequestsKept ==
  ASSUME Basics, [Changes!Next]_Changes!vars
  PROVE  RequestsStay
  <1>0. /\ RequestTypes
        /\ \A t \in tasks : OfAsked(t.op, t.kind)
        /\ \A a \in answers : OfAsked(a.op, a.kind)
        /\ \A op \in DOMAIN asked : asked[op].targets # {}
    BY DEF Basics, Changes!TypeOK, RequestTypes, RequestsKnown
  <1>1. ASSUME UNCHANGED asked, tasks' \subseteq Changes!Tasks, answers' \subseteq Changes!Answers,
               \A t \in tasks' : OfAsked(t.op, t.kind),
               \A a \in answers' : OfAsked(a.op, a.kind)
        PROVE  RequestsStay
    BY <1>0, <1>1 DEF RequestTypes, OfAsked, RequestsStay
  <1>2. CASE Clicked
    <2>1. CASE UNCHANGED <<tasks, asked>>
      BY <1>0, <1>1, <1>2, <2>1 DEF Clicked, RequestTypes
    <2>2. CASE AsksNow
      <3>1. PICK kind \in Changes!AllKinds, targets \in SUBSET Changes!Targets, bulk \in Nat :
              targets # {} /\ Asking(kind, targets, bulk)
        BY <2>2 DEF AsksNow
      <3>2. /\ Changes!Op \in Changes!Ops /\ Changes!Op \notin DOMAIN asked
            /\ asked' \in Seq([kind: Changes!AllKinds, targets: SUBSET Changes!Targets])
            /\ Len(asked') <= MaxAsked
            /\ DOMAIN asked' = DOMAIN asked \cup {Changes!Op}
            /\ \A op \in DOMAIN asked : asked'[op] = asked[op]
            /\ asked'[Changes!Op].kind = kind /\ asked'[Changes!Op].targets = targets
            /\ tasks \subseteq tasks' /\ tasks' \subseteq Changes!Tasks
            /\ \A t \in tasks' \ tasks : \E x \in targets :
                 t = Changes!Task(Changes!Op, kind, x, Told(kind, x), bulk)
        BY <3>1, AskingEffect
      <3>3. ASSUME NEW t \in tasks' PROVE OfAsked(t.op, t.kind)'
        <4>1. CASE t \in tasks
          BY <1>0, <3>2, <4>1 DEF OfAsked
        <4>2. CASE t \notin tasks
          BY <3>2, <4>2 DEF Changes!Task, OfAsked
        <4> QED
          BY <4>1, <4>2
      <3>4. ASSUME NEW a \in answers' PROVE OfAsked(a.op, a.kind)' /\ a \in Changes!Answers
        BY <1>0, <1>2, <3>2 DEF Clicked, OfAsked, RequestTypes
      <3> QED
        BY <1>0, <3>1, <3>2, <3>3, <3>4 DEF RequestsStay, RequestTypes
    <2> QED
      BY <1>2, <2>1, <2>2, ClickedAsks
  <1>3. CASE Worked
    <2>1. PICK t \in tasks : UNCHANGED Changes!ui /\ (Answered(t) \/ Rereads(t))
      BY <1>3 DEF Worked
    <2>2. CASE Answered(t)
      <3>1. PICK ok \in BOOLEAN :
              answers' = answers \cup {[op |-> t.op, kind |-> t.kind, name |-> t.name,
                                        bulk |-> t.bulk, ok |-> ok]}
        BY <2>2 DEF Answered
      <3>2. PICK a : a = [op |-> t.op, kind |-> t.kind, name |-> t.name,
                          bulk |-> t.bulk, ok |-> ok]
        OBVIOUS
      <3>3. a \in Changes!Answers /\ OfAsked(a.op, a.kind)
        BY <1>0, <3>2, TaskFields DEF Changes!Answers
      <3>4. answers' = answers \cup {a} /\ tasks' = tasks \ {t} /\ UNCHANGED asked
        BY <2>1, <2>2, <3>1, <3>2 DEF Answered, Changes!ui
      <3> QED
        BY <1>0, <1>1, <3>3, <3>4 DEF RequestTypes
    <2>3. CASE Rereads(t)
      <3>1. PICK u : u = [t EXCEPT !.read = objects[t.name].version]
        OBVIOUS
      <3>2. objects[t.name].version \in Nat
        BY TaskFields, ObjectFields
      <3>3. u \in Changes!Tasks /\ u.op = t.op /\ u.kind = t.kind
        BY <3>1, <3>2, TaskFields DEF Changes!Tasks
      <3>4. tasks' = (tasks \ {t}) \cup {u} /\ UNCHANGED <<answers, asked>>
        BY <2>1, <2>3, <3>1 DEF Rereads, Changes!ui
      <3> QED
        BY <1>0, <1>1, <3>3, <3>4 DEF RequestTypes
    <2> QED
      BY <2>1, <2>2, <2>3
  <1>4. CASE Framed
    BY <1>4, <1>0, <1>1 DEF Framed, Applying, Settling, RequestTypes
  <1>5. CASE Elsewhere
    BY <1>0, <1>1, <1>5 DEF Elsewhere, RequestTypes, Changes!ui
  <1>6. CASE \E n \in Names : Refreshing(n)
    BY <1>0, <1>1, <1>6 DEF Refreshing, RequestTypes
  <1>7. CASE UNCHANGED Changes!vars
    BY <1>0, <1>1, <1>7 DEF Changes!vars, RequestTypes
  <1> QED
    BY <1>2, <1>3, <1>4, <1>5, <1>6, <1>7, StepKinds

ServerTypes ==
  /\ menu \in Menus /\ objects \in [Names -> Changes!Objects]
  /\ created \in 0..MaxUid /\ writes \in Nat
  /\ touched \subseteq [op: Changes!Ops, uid: Changes!Uids, deleting: BOOLEAN]

LEMMA OverwriteEffect ==
  ASSUME Basics, NEW n \in Names, Overwrites(n), menu' = menu
  PROVE  /\ writes' \in Nat /\ writes' >= writes /\ objects' \in [Names -> Changes!Objects]
         /\ WritesCounted'
         /\ \A m \in Names : m # n => objects'[m] = objects[m]
         /\ \A m \in Names : Rooted(objects'[m]) /\ objects'[m].version <= writes'
         /\ "force" \in menu.kinds => writes' = writes + 1
         /\ objects'[n] = Changes!Absent \/ objects'[n].version = writes'
  BY WriteEffect DEF Overwrites, Rooted

LEMMA TouchEffect ==
  ASSUME Basics, NEW t \in tasks, Touching(t)
  PROVE  \E x \in [op: Changes!Ops, uid: Changes!Uids, deleting: BOOLEAN] :
           /\ touched' = touched \cup {x}
           /\ x = [op |-> t.op, uid |-> objects[t.name].uid,
                   deleting |-> objects[t.name].deleting]
           /\ x.op = t.op /\ x.uid = objects[t.name].uid
           /\ x.deleting = objects[t.name].deleting
  <1>1. PICK x : x = [op |-> t.op, uid |-> objects[t.name].uid,
                      deleting |-> objects[t.name].deleting]
    OBVIOUS
  <1>2. /\ t.op \in Changes!Ops /\ objects[t.name] \in Changes!Objects
        /\ objects[t.name].uid # Changes!NoUid
    BY TaskFields DEF Touching, Rooted
  <1>3. x \in [op: Changes!Ops, uid: Changes!Uids, deleting: BOOLEAN]
    BY <1>1, <1>2 DEF Changes!Objects
  <1> QED
    BY <1>1, <1>3 DEF Touching, Changes!Touches

ServerSound ==
  /\ ServerTypes /\ WritesCounted
  /\ \A n \in Names : Rooted(objects[n]) /\ objects[n].version <= writes
  /\ \A x \in touched : x.op \in DOMAIN asked

LEMMA ServerKept ==
  ASSUME Basics, [Changes!Next]_Changes!vars
  PROVE  ServerSound' /\ menu' = menu
  <1>0. ServerSound
    BY DEF Basics, Changes!TypeOK, ServerSound, ServerTypes, ObjectsSound, RequestsKnown
  <1>1. DOMAIN asked \subseteq DOMAIN asked'
    BY RequestsKept DEF RequestsStay
  <1>2. ASSUME UNCHANGED Changes!server PROVE ServerSound' /\ menu' = menu
    BY <1>0, <1>1, <1>2 DEF Changes!server, ServerSound, ServerTypes, WritesCounted, Rooted
  <1>3. CASE Clicked
    BY <1>2, <1>3 DEF Clicked
  <1>4. CASE Worked
    <2>1. PICK t \in tasks : UNCHANGED Changes!server \/ Touching(t)
      BY <1>4 DEF Worked
    <2>2. CASE Touching(t)
      <3>1. PICK x \in [op: Changes!Ops, uid: Changes!Uids, deleting: BOOLEAN] :
              touched' = touched \cup {x} /\ x.op = t.op
        BY <2>2, TouchEffect
      <3>2. t.name \in Names /\ t.op \in DOMAIN asked
        BY TaskFields
      <3>3. Overwrites(t.name) /\ menu' = menu /\ created' = created
        BY <2>2 DEF Touching
      <3> QED
        BY <1>0, <1>1, <3>1, <3>2, <3>3, OverwriteEffect
        DEF ServerSound, ServerTypes, Rooted
    <2> QED
      BY <1>2, <2>1, <2>2
  <1>5. CASE Framed
    BY <1>2, <1>5 DEF Framed
  <1>6. CASE Elsewhere
    <2>1. PICK n \in Names : Overwrites(n)
      BY <1>6 DEF Elsewhere
    <2>2. menu' = menu /\ created' \in 0..MaxUid /\ touched' = touched
      BY <1>6 DEF Elsewhere
    <2> QED
      BY <1>0, <1>1, <2>1, <2>2, OverwriteEffect DEF ServerSound, ServerTypes, Rooted
  <1>7. CASE \E n \in Names : Refreshing(n)
    BY <1>2, <1>7 DEF Refreshing
  <1>8. CASE UNCHANGED Changes!vars
    BY <1>2, <1>8 DEF Changes!vars, Changes!server
  <1> QED
    BY <1>3, <1>4, <1>5, <1>6, <1>7, <1>8, StepKinds

Entry == [op: Changes!Ops, ok: BOOLEAN, failed: Nat]

ShownTypes ==
  /\ rows \in [Names -> Changes!Objects] /\ selection \subseteq Changes!Uids
  /\ dialogs \in [Changes!AllKinds -> SUBSET Changes!Targets]
  /\ progress \in [id: Nat, remaining: SUBSET Changes!Targets,
                   failures: SUBSET Changes!Targets, count: Nat]
  /\ bulkId \in Nat /\ runs \subseteq Changes!Ops
  /\ history \in Seq(Entry)
  /\ events \in Nat /\ faults \in Nat
  /\ \A n \in Names : Rooted(rows[n])

LEMMA EnteredEffect ==
  ASSUME Basics, NEW a \in answers, Entered(a)
  PROVE  /\ history' \in Seq(Entry)
         /\ DOMAIN history' = DOMAIN history \cup {Len(history) + 1}
         /\ Len(history) + 1 \notin DOMAIN history
         /\ \A i \in DOMAIN history : history'[i] = history[i]
         /\ history'[Len(history) + 1].op = a.op
  <1>1. PICK ok \in BOOLEAN, failed \in Nat :
          history' = Append(history, [op |-> a.op, ok |-> ok, failed |-> failed])
    BY DEF Entered
  <1>2. PICK e \in Entry : e = [op |-> a.op, ok |-> ok, failed |-> failed]
    BY AnswerFields DEF Entry
  <1>3. history \in Seq(Entry) /\ e.op = a.op
    BY <1>2 DEF Basics, Changes!TypeOK, Entry
  <1> QED
    BY <1>1, <1>2, <1>3, Added

LEMMA ElementOf ==
  ASSUME NEW S, NEW s \in Seq(S), NEW i \in DOMAIN s
  PROVE  s[i] \in S
  OBVIOUS

LEMMA RedialedEffect ==
  ASSUME Basics, NEW a \in answers, Redialed(a)
  PROVE  dialogs' \in [Changes!AllKinds -> SUBSET Changes!Targets]
  <1>1. dialogs \in [Changes!AllKinds -> SUBSET Changes!Targets]
    BY DEF Basics, Changes!TypeOK
  <1>2. asked[a.op].targets \in SUBSET Changes!Targets
    <2>1. asked \in Seq([kind: Changes!AllKinds, targets: SUBSET Changes!Targets]) /\ a.op \in DOMAIN asked
      BY AnswerFields DEF Basics, Changes!TypeOK
    <2>2. asked[a.op] \in [kind: Changes!AllKinds, targets: SUBSET Changes!Targets]
      BY <2>1, ElementOf
    <2> QED
      BY <2>2
  <1> QED
    BY <1>1, <1>2 DEF Redialed, Changes!NoDialog

LEMMA ShownKept ==
  ASSUME Basics, [Changes!Next]_Changes!vars
  PROVE  ShownTypes'
  <1>0. ShownTypes
    BY DEF Basics, Changes!TypeOK, ShownTypes, ObjectsSound, Entry
  <1> USE DEF ShownTypes
  <1>1. CASE Clicked
    <2>0. UNCHANGED <<rows, history, events, faults>>
      BY <1>1 DEF Clicked
    <2>1. CASE Selecting
      BY <1>0, <2>0, <2>1 DEF Selecting, Rooted
    <2>2. CASE StartingBulk
      BY <1>0, TargetsFinite, <2>2, <2>0 DEF Changes!AllKinds, StartingBulk,
         Changes!NoDialog, Rooted
    <2>3. ASSUME NEW kind, NEW targets, Opening(kind, targets) PROVE ShownTypes'
      BY <1>0, <2>0, <2>3 DEF Opening, Rooted
    <2>4. ASSUME NEW kind \in Changes!AllKinds, Cancelling(kind) PROVE ShownTypes'
      BY <1>0, <2>0, <2>4 DEF Cancelling, Rooted, Changes!NoDialog
    <2>5. ASSUME NEW kind \in Changes!AllKinds, Confirming(kind) PROVE ShownTypes'
      BY <1>0, <2>5, AskingEffect, <2>0 DEF Confirming, Changes!NoDialog, Rooted
    <2>6. ASSUME NEW x, Fetching(x) PROVE ShownTypes'
      BY <1>0, <2>0, <2>6 DEF Fetching, Rooted
    <2> QED
      BY <1>1, <2>1, <2>2, <2>3, <2>4, <2>5, <2>6 DEF Clicked
  <1>2. CASE Worked
    BY <1>0, <1>2 DEF Worked, Changes!ui, Rooted
  <1>3. CASE Framed
    <2>0. UNCHANGED <<rows, bulkId, events, faults>>
      BY <1>3 DEF Framed
    <2>1. PICK a \in answers : Applying(a) \/ Settling(a)
      BY <1>3 DEF Framed
    <2>2. dialogs' \in [Changes!AllKinds -> SUBSET Changes!Targets]
      BY <2>1, RedialedEffect DEF Applying, Settling
    <2>3. history' \in Seq(Entry)
      BY <1>0, <2>1, EnteredEffect DEF Applying, Settling, SettlingOne
    <2>4. CASE Applying(a)
      BY <1>0, <2>0, <2>2, <2>3, <2>4 DEF Applying, Rooted
    <2>5. CASE Settling(a)
      <3>1. progress' \in [id: Nat, remaining: SUBSET Changes!Targets,
                           failures: SUBSET Changes!Targets, count: Nat]
        <4>1. CASE UNCHANGED progress
          BY <1>0, <4>1
        <4>2. ASSUME NEW target, SettlingOne(a, target)
              PROVE  progress' \in [id: Nat, remaining: SUBSET Changes!Targets,
                                    failures: SUBSET Changes!Targets, count: Nat]
          <5>1. Changes!NoProgress \in [id: Nat, remaining: SUBSET Changes!Targets,
                                failures: SUBSET Changes!Targets, count: Nat]
            BY DEF Changes!NoProgress
          <5>2. PICK failures \in SUBSET Changes!Targets, remaining \in SUBSET Changes!Targets :
                  \/ progress' = Changes!NoProgress
                  \/ progress' = [progress EXCEPT !.remaining = remaining,
                                                  !.failures = failures]
            <6>1. /\ progress.remaining \ {target} \in SUBSET Changes!Targets
                  /\ progress.failures \in SUBSET Changes!Targets
                  /\ progress.failures \cup {target} \in SUBSET Changes!Targets
              <7>1. target \in progress.remaining
                BY <4>2 DEF SettlingOne
              <7> QED
                BY <7>1, ProgressSets
            <6> QED
              BY <4>2, <6>1 DEF SettlingOne
          <5>3. [progress EXCEPT !.remaining = remaining, !.failures = failures]
                \in [id: Nat, remaining: SUBSET Changes!Targets,
                     failures: SUBSET Changes!Targets, count: Nat]
            BY ProgressFields
          <5> QED
            BY ONLY <5>1, <5>2, <5>3
        <4> QED
          BY <2>5, <4>1, <4>2 DEF Settling
      <3>2. selection' \subseteq selection
        BY <2>5 DEF Settling, SettlingOne
      <3> QED
        BY <1>0, <2>0, <2>2, <2>3, <2>5, <3>1, <3>2 DEF Settling, Rooted
    <2> QED
      BY <2>1, <2>4, <2>5
  <1>4. CASE Elsewhere
    BY <1>0, <1>4 DEF Elsewhere, Changes!ui, Rooted
  <1>5. ASSUME NEW n \in Names, Refreshing(n) PROVE ShownTypes'
    <2>1. PICK row : row = [objects[n] EXCEPT !.version = 0]
      OBVIOUS
    <2>2. objects[n] \in Changes!Objects /\ Rooted(objects[n])
      BY DEF Basics, Changes!TypeOK, ObjectsSound
    <2>3. row \in Changes!Objects /\ Rooted(row)
      <3>1. row \in Changes!Objects /\ row.uid = objects[n].uid
        BY <2>1, <2>2 DEF Changes!Objects
      <3>2. CASE objects[n] = Changes!Absent
        BY <2>1, <3>2, AbsentIs, SameVersion DEF Rooted
      <3>3. CASE objects[n] # Changes!Absent
        BY <2>2, <3>1, <3>3 DEF Rooted
      <3> QED
        BY <3>1, <3>2, <3>3
    <2>4. rows' = [rows EXCEPT ![n] = row]
      BY <1>5, <2>1 DEF Refreshing
    <2> QED
      BY <1>0, <1>5, <2>3, <2>4 DEF Refreshing, Rooted
  <1>6. CASE UNCHANGED Changes!vars
    BY <1>0, <1>6 DEF Changes!vars, Rooted
  <1> QED
    BY <1>1, <1>2, <1>3, <1>4, <1>5, <1>6, StepKinds

LEMMA BasicsKept ==
  ASSUME Basics, [Changes!Next]_Changes!vars
  PROVE  Basics'
  <1>1. ServerSound' /\ ShownTypes' /\ RequestsStay
    BY ServerKept, ShownKept, RequestsKept
  <1>2. Changes!TypeOK'
    BY <1>1 DEF ServerSound, ServerTypes, ShownTypes, RequestsStay, RequestTypes, Changes!TypeOK,
                Entry
  <1> QED
    BY <1>1, <1>2 DEF Basics, ServerSound, ShownTypes, ObjectsSound, RequestsKnown,
                      RequestsStay

LEMMA BasicsStart == Changes!Init => Basics
  <1> SUFFICES ASSUME Changes!Init PROVE Basics
    OBVIOUS
  <1>0. \A n \in Names : n \in Changes!Uids /\ n # Changes!NoUid
    BY FS_CardinalityType, NamesCounted DEF Changes!Uids, Changes!NoUid
  <1>1. PICK held \in [Names -> BOOLEAN] :
          objects = [n \in Names |-> [Changes!Absent EXCEPT !.uid = n, !.held = held[n]]]
    <2>1. Changes!Finalizers \subseteq BOOLEAN
      BY DEF Changes!Finalizers
    <2> QED
      BY <2>1 DEF Changes!Init
  <1>2. ASSUME NEW n \in Names
        PROVE  objects[n] \in Changes!Objects /\ objects[n].uid # Changes!NoUid /\ objects[n].version = 0
    BY <1>1, <1>0 DEF Changes!Absent, Changes!Objects
  <1>3. objects \in [Names -> Changes!Objects]
    BY <1>1, <1>2
  <1>4. created \in 0..MaxUid
    <2>1. created = Cardinality(Names) /\ Cardinality(Names) \in Nat
      BY FS_CardinalityType, NamesCounted, SameCount DEF Changes!Init
    <2>2. MaxUid \in Nat /\ Cardinality(Names) <= MaxUid
      BY NamesCounted
    <2> QED
      BY <2>1, <2>2
  <1>5. /\ asked \in Seq([kind: Changes!AllKinds, targets: SUBSET Changes!Targets])
        /\ Len(asked) <= MaxAsked /\ DOMAIN asked = {}
        /\ history \in Seq([op: Changes!Ops, ok: BOOLEAN, failed: Nat])
    <2>1. asked = <<>> /\ history = <<>> /\ MaxAsked \in Nat
      BY DEF Changes!Init
    <2> QED
      BY <2>1
  <1>6. Changes!TypeOK
    BY <1>3, <1>4, <1>5 DEF Changes!Init, Changes!TypeOK, Changes!NoProgress, Changes!NoDialog
  <1>7. rows = objects /\ writes = 0 /\ tasks = {} /\ answers = {} /\ touched = {}
    BY DEF Changes!Init
  <1>8. ObjectsSound /\ WritesCounted
    BY <1>2, <1>7 DEF ObjectsSound, Rooted, WritesCounted
  <1>9. RequestsKnown
    BY <1>5, <1>7 DEF RequestsKnown
  <1> QED
    BY <1>6, <1>8, <1>9 DEF Basics

-----------------------------------------------------------------------------
(* Only what was confirmed is touched.                                     *)

ReadSound(t) ==
  t.read # 0 =>
    /\ t.kind = "force" /\ t.read <= writes
    /\ objects[t.name].version = t.read =>
         objects[t.name].uid = t.uid /\ objects[t.name].deleting

NamesItsTarget(t) ==
  t.kind \in {"bulk", "force"} =>
    \E target \in asked[t.op].targets : target.uid = t.uid

ForceOffered ==
  /\ dialogs["force"] # Changes!NoDialog => "force" \in menu.kinds
  /\ \A t \in tasks : t.kind = "force" => "force" \in menu.kinds

ConfirmedOf(x) ==
  asked[x.op].kind \in {"bulk", "force"} =>
    /\ \E target \in asked[x.op].targets : target.uid = x.uid
    /\ asked[x.op].kind = "force" => x.deleting

LEMMA ForceStays ==
  ASSUME Basics, ForceOffered, [Changes!Next]_Changes!vars
  PROVE  ForceOffered'
  <1>0. menu' = menu
    BY ServerKept
  <1>1. ASSUME UNCHANGED tasks, dialogs'["force"] \in {Changes!NoDialog, dialogs["force"]}
        PROVE  ForceOffered'
    BY <1>0, <1>1 DEF ForceOffered
  <1>2. dialogs \in [Changes!AllKinds -> SUBSET Changes!Targets] /\ "force" \in Changes!AllKinds
    BY DEF Basics, Changes!TypeOK, Changes!AllKinds
  <1>3. CASE Clicked
    <2>1. ASSUME NEW kind \in Changes!AllKinds, NEW targets \in SUBSET Changes!Targets, NEW bulk \in Nat,
                 targets # {}, Asking(kind, targets, bulk),
                 dialogs'["force"] \in {Changes!NoDialog, dialogs["force"]},
                 kind = "force" => dialogs["force"] # Changes!NoDialog
          PROVE  ForceOffered'
      <3>1. ASSUME NEW t \in tasks', t.kind = "force" PROVE "force" \in menu.kinds
        <4>1. CASE t \in tasks
          BY <3>1, <4>1 DEF ForceOffered
        <4>2. CASE t \notin tasks
          <5>1. PICK x \in targets : t = Changes!Task(Changes!Op, kind, x, Told(kind, x), bulk)
            BY <2>1, <4>2, AskingEffect
          <5>2. kind = "force"
            BY <3>1, <5>1 DEF Changes!Task
          <5> QED
            BY <2>1, <5>2 DEF ForceOffered
        <4> QED
          BY <4>1, <4>2
      <3> QED
        BY <1>0, <2>1, <3>1 DEF ForceOffered
    <2>2. CASE StartingBulk
      BY <1>2, <2>2, <2>1 DEF StartingBulk, Changes!NoDialog, Changes!AllKinds,
         Basics, Changes!TypeOK
    <2>3. ASSUME NEW kind \in Changes!AllKinds, Confirming(kind) PROVE ForceOffered'
      BY <1>2, <2>3, <2>1 DEF Confirming, Changes!NoDialog
    <2>4. ASSUME NEW x, Fetching(x) PROVE ForceOffered'
      BY <2>1, <2>4 DEF Fetching, Changes!AllKinds
    <2>5. ASSUME NEW kind, NEW targets, Opening(kind, targets) PROVE ForceOffered'
      BY <1>0, <1>2, <2>5 DEF Opening, ForceOffered
    <2>6. ASSUME NEW kind \in Changes!AllKinds, Cancelling(kind) PROVE ForceOffered'
      BY <1>1, <1>2, <2>6 DEF Cancelling
    <2>7. CASE Selecting
      BY <1>1, <2>7 DEF Selecting
    <2> QED
      BY <1>3, <2>2, <2>3, <2>4, <2>5, <2>6, <2>7 DEF Clicked
  <1>4. CASE Worked
    <2>1. PICK t \in tasks : UNCHANGED Changes!ui /\ (Answered(t) \/ Rereads(t))
      BY <1>4 DEF Worked
    <2>2. ASSUME NEW u \in tasks', u.kind = "force" PROVE \E v \in tasks : v.kind = "force"
      <3>1. CASE Answered(t)
        BY <2>2, <3>1 DEF Answered
      <3>2. CASE Rereads(t)
        BY <2>2, <3>2 DEF Rereads
      <3> QED
        BY <2>1, <3>1, <3>2
    <2> QED
      BY <1>0, <2>1, <2>2 DEF ForceOffered, Changes!ui
  <1>5. CASE Framed
    <2>1. PICK a \in answers : Redialed(a)
      BY <1>5 DEF Framed, Applying, Settling
    <2>2. dialogs'["force"] \in {Changes!NoDialog, dialogs["force"]}
      BY <1>2, <2>1 DEF Redialed
    <2> QED
      BY <1>1, <1>5, <2>2 DEF Framed
  <1>6. CASE Elsewhere
    BY <1>1, <1>6 DEF Elsewhere, Changes!ui
  <1>7. CASE \E n \in Names : Refreshing(n)
    BY <1>1, <1>7 DEF Refreshing
  <1>8. CASE UNCHANGED Changes!vars
    BY <1>1, <1>8 DEF Changes!vars
  <1> QED
    BY <1>3, <1>4, <1>5, <1>6, <1>7, <1>8, StepKinds

(* What is asked about an object by its uid names it.                      *)
LEMMA TargetsNamed ==
  ASSUME Basics, \A t \in tasks : NamesItsTarget(t), [Changes!Next]_Changes!vars
  PROVE  \A t \in tasks' : NamesItsTarget(t)'
  <1>0. /\ DOMAIN asked \subseteq DOMAIN asked'
        /\ \A op \in DOMAIN asked : asked'[op] = asked[op]
    BY RequestsKept DEF RequestsStay
  <1>1. ASSUME NEW t \in tasks, NEW u, u.op = t.op, u.kind = t.kind, u.uid = t.uid
        PROVE  NamesItsTarget(u)'
    BY <1>0, <1>1, TaskFields DEF NamesItsTarget
  <1>2. ASSUME NEW kind \in Changes!AllKinds, NEW targets \in SUBSET Changes!Targets, NEW bulk \in Nat,
               targets # {}, Asking(kind, targets, bulk), NEW t \in tasks'
        PROVE  NamesItsTarget(t)'
    <2>1. CASE t \in tasks
      BY <1>1, <2>1
    <2>2. CASE t \notin tasks
      <3>1. PICK x \in targets : t = Changes!Task(Changes!Op, kind, x, Told(kind, x), bulk)
        BY <1>2, <2>2, AskingEffect
      <3>2. t.op = Changes!Op /\ t.kind = kind /\ t.uid = Told(kind, x)
        BY <3>1 DEF Changes!Task
      <3>3. asked'[Changes!Op].targets = targets
        BY <1>2, AskingEffect
      <3> QED
        BY <3>2, <3>3 DEF NamesItsTarget, Told
    <2> QED
      BY <2>1, <2>2
  <1>3. CASE Clicked
    <2>1. CASE UNCHANGED <<tasks, asked>>
      BY <1>1, <2>1
    <2>2. CASE AsksNow
      BY <1>2, <2>2 DEF AsksNow
    <2> QED
      BY <1>3, <2>1, <2>2, ClickedAsks
  <1>4. CASE Worked
    <2>1. PICK t \in tasks : Answered(t) \/ Rereads(t)
      BY <1>4 DEF Worked
    <2>2. CASE Answered(t)
      BY <1>1, <2>2 DEF Answered
    <2>3. CASE Rereads(t)
      <3>1. PICK u : u = [t EXCEPT !.read = objects[t.name].version]
        OBVIOUS
      <3>2. u.op = t.op /\ u.kind = t.kind /\ u.uid = t.uid
        BY <3>1, TaskFields DEF Changes!Tasks
      <3>3. tasks' = (tasks \ {t}) \cup {u}
        BY <2>3, <3>1 DEF Rereads
      <3> QED
        BY <1>1, <3>2, <3>3
    <2> QED
      BY <2>1, <2>2, <2>3
  <1>5. CASE Framed
    BY <1>1, <1>5 DEF Framed
  <1>6. CASE Elsewhere
    BY <1>1, <1>6 DEF Elsewhere
  <1>7. CASE \E n \in Names : Refreshing(n)
    BY <1>1, <1>7 DEF Refreshing
  <1>8. CASE UNCHANGED Changes!vars
    BY <1>1, <1>8 DEF Changes!vars
  <1> QED
    BY <1>3, <1>4, <1>5, <1>6, <1>7, <1>8, StepKinds

(* A version that was read is still of the object that was checked, or of  *)
(* none: each write gives a new one.                                       *)
LEMMA ReadsSound ==
  ASSUME Basics, ForceOffered, \A t \in tasks : ReadSound(t), [Changes!Next]_Changes!vars
  PROVE  \A t \in tasks' : ReadSound(t)'
  <1>0. /\ \A n \in Names : objects[n] \in Changes!Objects
        /\ \A n \in Names : objects[n].version <= writes /\ objects[n].version \in Nat
        /\ writes \in Nat
    BY ObjectFields DEF Basics, Changes!TypeOK, ObjectsSound
  <1>1. ASSUME UNCHANGED <<objects, writes>>, NEW t \in tasks
        PROVE  ReadSound(t)'
    BY <1>1 DEF ReadSound
  <1>2. ASSUME NEW n \in Names, Overwrites(n), menu' = menu, NEW t \in tasks
        PROVE  ReadSound(t)'
    <2>1. CASE t.read = 0
      BY <2>1 DEF ReadSound
    <2>2. CASE t.read # 0
      BY <2>2, TaskFields, <1>2, OverwriteEffect, <1>0, AbsentIs DEF ReadSound,
         ForceOffered
    <2> QED
      BY <2>1, <2>2
  <1>3. CASE Clicked
    <2>1. UNCHANGED <<objects, writes>>
      BY <1>3 DEF Clicked, Changes!server
    <2>2. CASE UNCHANGED <<tasks, asked>>
      BY <1>1, <2>1, <2>2
    <2>3. CASE AsksNow
      <3>1. ASSUME NEW t \in tasks', t \notin tasks PROVE t.read = 0
        <4>1. PICK kind \in Changes!AllKinds, targets \in SUBSET Changes!Targets, bulk \in Nat :
                targets # {} /\ Asking(kind, targets, bulk)
          BY <2>3 DEF AsksNow
        <4>2. PICK x \in targets : t = Changes!Task(Changes!Op, kind, x, Told(kind, x), bulk)
          BY <3>1, <4>1, AskingEffect
        <4> QED
          BY <4>2 DEF Changes!Task
      <3> QED
        BY <1>1, <2>1, <3>1 DEF ReadSound
    <2> QED
      BY <1>3, <2>2, <2>3, ClickedAsks
  <1>4. CASE Worked
    <2>1. PICK t \in tasks : /\ Answered(t) \/ Rereads(t)
                             /\ UNCHANGED Changes!server \/ Touching(t)
      BY <1>4 DEF Worked
    <2>2. CASE Answered(t)
      <3>1. CASE UNCHANGED Changes!server
        BY <1>1, <2>2, <3>1 DEF Answered, Changes!server
      <3>2. CASE Touching(t)
        BY <1>2, <2>2, <3>2, TaskFields DEF Answered, Touching
      <3> QED
        BY <2>1, <3>1, <3>2
    <2>3. CASE Rereads(t)
      <3>1. PICK u : u = [t EXCEPT !.read = objects[t.name].version]
        OBVIOUS
      <3>2. u.read = objects[t.name].version /\ u.kind = t.kind /\ u.uid = t.uid /\ u.name = t.name
        BY <3>1, TaskFields DEF Changes!Tasks
      <3>3. /\ tasks' = (tasks \ {t}) \cup {u} /\ UNCHANGED <<objects, writes>>
            /\ t.kind = "force" /\ objects[t.name].uid = t.uid /\ objects[t.name].deleting
        BY <2>3, <3>1 DEF Rereads, Changes!server
      <3>4. ReadSound(u)'
        BY <1>0, <3>2, <3>3, TaskFields DEF ReadSound
      <3> QED
        BY <1>1, <3>3, <3>4
    <2> QED
      BY <2>1, <2>2, <2>3
  <1>5. CASE Framed
    BY <1>1, <1>5 DEF Framed, Changes!server
  <1>6. CASE Elsewhere
    BY <1>2, <1>6 DEF Elsewhere
  <1>7. CASE \E n \in Names : Refreshing(n)
    BY <1>1, <1>7 DEF Refreshing, Changes!server
  <1>8. CASE UNCHANGED Changes!vars
    BY <1>1, <1>8 DEF Changes!vars, Changes!server
  <1> QED
    BY <1>3, <1>4, <1>5, <1>6, <1>7, <1>8, StepKinds

Confirmed ==
  /\ ForceOffered
  /\ \A t \in tasks : NamesItsTarget(t) /\ ReadSound(t)
  /\ \A x \in touched : ConfirmedOf(x)

LEMMA ConfirmedKept ==
  ASSUME Basics, Confirmed, [Changes!Next]_Changes!vars
  PROVE  Confirmed'
  <1>0. /\ DOMAIN asked \subseteq DOMAIN asked'
        /\ \A op \in DOMAIN asked : asked'[op] = asked[op]
    BY RequestsKept DEF RequestsStay
  <1>1. \A x \in touched : x.op \in DOMAIN asked /\ ConfirmedOf(x)
    BY DEF Basics, RequestsKnown, Confirmed
  <1>2. ASSUME NEW t \in tasks, Touching(t)
        PROVE  \A x \in touched' : ConfirmedOf(x)'
    <2>1. PICK x \in [op: Changes!Ops, uid: Changes!Uids, deleting: BOOLEAN] :
            /\ touched' = touched \cup {x} /\ x.op = t.op
            /\ x.uid = objects[t.name].uid /\ x.deleting = objects[t.name].deleting
      BY <1>2, TouchEffect
    <2>2. t.op \in DOMAIN asked /\ asked[t.op].kind = t.kind
      BY TaskFields
    <2>3. NamesItsTarget(t) /\ ReadSound(t)
      BY DEF Confirmed
    <2>4. ASSUME t.kind = "bulk"
          PROVE  \E target \in asked[t.op].targets : target.uid = x.uid
      <3>1. PICK target \in asked[t.op].targets : target.uid = t.uid
        BY <2>3, <2>4 DEF NamesItsTarget
      <3>2. asked[t.op] \in [kind: Changes!AllKinds, targets: SUBSET Changes!Targets]
        BY <2>2, ElementOf DEF Basics, Changes!TypeOK
      <3>3. t.uid # Changes!NoUid
        BY <3>1, <3>2 DEF Changes!Targets, Changes!Uids, Changes!NoUid
      <3> QED
        BY <1>2, <2>1, <2>4, <3>1, <3>3 DEF Touching
    <2>5. ASSUME t.kind = "force"
          PROVE  /\ \E target \in asked[t.op].targets : target.uid = x.uid
                 /\ x.deleting
      BY <1>2, <2>1, <2>3, <2>5 DEF Touching, NamesItsTarget, ReadSound
    <2>6. ConfirmedOf(x)'
      BY <1>0, <2>1, <2>2, <2>4, <2>5 DEF ConfirmedOf
    <2> QED
      BY <1>0, <1>1, <2>1, <2>6 DEF ConfirmedOf
  <1>3. touched' = touched \/ \E t \in tasks : Touching(t)
    <2> USE DEF Changes!server
    <2>1. CASE Clicked
      BY <2>1 DEF Clicked
    <2>2. CASE Worked
      BY <2>2 DEF Worked
    <2>3. CASE Framed
      BY <2>3 DEF Framed
    <2>4. CASE Elsewhere
      BY <2>4 DEF Elsewhere
    <2>5. CASE \E n \in Names : Refreshing(n)
      BY <2>5 DEF Refreshing
    <2>6. CASE UNCHANGED Changes!vars
      BY <2>6 DEF Changes!vars
    <2> QED
      BY <2>1, <2>2, <2>3, <2>4, <2>5, <2>6, StepKinds
  <1>4. \A x \in touched' : ConfirmedOf(x)'
    BY <1>0, <1>1, <1>2, <1>3 DEF ConfirmedOf
  <1> QED
    BY <1>4, ForceStays, TargetsNamed, ReadsSound DEF Confirmed

-----------------------------------------------------------------------------
(* Each request is reported once.                                          *)

AsksOne ==
  /\ \A kind \in Changes!AllKinds \ {"bulk"} : \A x, y \in dialogs[kind] : x = y
  /\ \A op \in DOMAIN asked : asked[op].kind # "bulk" =>
       \A x, y \in asked[op].targets : x = y

Apart ==
  /\ \A t, u \in tasks : t.op = u.op /\ t.kind # "bulk" => t = u
  /\ \A a, b \in answers : a.op = b.op /\ a.kind # "bulk" => a = b
  /\ \A t \in tasks : \A a \in answers : t.op = a.op => t.kind = "bulk"

Once(op) == \E i \in DOMAIN history : Changes!Entries(op) = {i}

ReportedAsDue(op) ==
  IF Changes!UnderWay(op) THEN Changes!Entries(op) = {}
  ELSE Once(op) \/ (asked[op].kind = "fetch" /\ Changes!Entries(op) = {})

Reported ==
  /\ \A i \in DOMAIN history : history[i].op \in DOMAIN asked
  /\ \A op \in DOMAIN asked : ReportedAsDue(op)
  /\ \A t \in tasks : t.kind = "run" => t.op \in runs
  /\ \A a \in answers : a.kind = "run" => a.op \in runs

(* A bulk delete under way: what remains of it is what has a task or an    *)
(* answer, each target by its name.                                        *)
Distinct(targets) == \A x, y \in targets : x.name = y.name => x = y

PartOf(u, op) ==
  u.kind = "bulk" => /\ u.op = op /\ u.bulk = progress.id
                     /\ \E x \in progress.remaining : x.name = u.name

HasPart(x) ==
  \/ \E t \in tasks : t.kind = "bulk" /\ t.name = x.name
  \/ \E a \in answers : a.kind = "bulk" /\ a.name = x.name

PartsApart ==
  /\ \A t, u \in tasks : t.kind = "bulk" /\ u.kind = "bulk" /\ t.name = u.name => t = u
  /\ \A a, b \in answers : a.kind = "bulk" /\ b.kind = "bulk" /\ a.name = b.name => a = b
  /\ \A t \in tasks : \A a \in answers : t.kind = "bulk" /\ a.kind = "bulk" => t.name # a.name

OneBulk ==
  \E op : (\A t \in tasks : PartOf(t, op)) /\ (\A a \in answers : PartOf(a, op))

BulkMatches ==
  /\ dialogs["bulk"] # Changes!NoDialog => progress = Changes!NoProgress
  /\ Distinct(dialogs["bulk"]) /\ Distinct(progress.remaining)
  /\ progress # Changes!NoProgress => progress.remaining # {}
  /\ OneBulk /\ PartsApart
  /\ \A x \in progress.remaining : HasPart(x)

LEMMA EntriesAre ==
  ASSUME NEW op
  PROVE  /\ UNCHANGED history => Changes!Entries(op)' = Changes!Entries(op)
         /\ \A i \in Changes!Entries(op) : i \in DOMAIN history /\ history[i].op = op
         /\ Changes!Entries(op) = {} => \A i \in DOMAIN history : history[i].op # op
  BY DEF Changes!Entries

LEMMA EntriesGrow ==
  ASSUME Basics, NEW a \in answers, Entered(a), NEW op
  PROVE  Changes!Entries(op)' = IF op = a.op THEN Changes!Entries(op) \cup {Len(history) + 1}
                        ELSE Changes!Entries(op)
  BY EnteredEffect DEF Changes!Entries

(* Dialogs and requests about one object are about one.                    *)
LEMMA AsksOneKept ==
  ASSUME Basics, AsksOne, [Changes!Next]_Changes!vars
  PROVE  AsksOne'
  <1>0. /\ dialogs \in [Changes!AllKinds -> SUBSET Changes!Targets]
        /\ "bulk" \in Changes!AllKinds /\ "scale" \in Changes!AllKinds /\ "fetch" # "bulk"
    BY DEF Basics, Changes!TypeOK, Changes!AllKinds
  <1>1. ASSUME UNCHANGED asked, NEW d \in [Changes!AllKinds -> SUBSET Changes!Targets], dialogs' = d,
               \A kind \in Changes!AllKinds \ {"bulk"} : \A x, y \in d[kind] : x = y
        PROVE  AsksOne'
    BY <1>1 DEF AsksOne
  <1>2. ASSUME UNCHANGED <<asked, dialogs>> PROVE AsksOne'
    BY <1>2 DEF AsksOne
  <1>3. ASSUME NEW kind \in Changes!AllKinds, NEW targets \in SUBSET Changes!Targets, NEW bulk \in Nat,
               targets # {}, Asking(kind, targets, bulk),
               kind # "bulk" => \A x, y \in targets : x = y
        PROVE  \A op \in DOMAIN asked' : asked'[op].kind # "bulk" =>
                 \A x, y \in asked'[op].targets : x = y
    <2>1. /\ DOMAIN asked' = DOMAIN asked \cup {Changes!Op}
          /\ \A op \in DOMAIN asked : asked'[op] = asked[op]
          /\ asked'[Changes!Op].kind = kind /\ asked'[Changes!Op].targets = targets
      BY <1>3, AskingEffect
    <2> QED
      BY <1>3, <2>1 DEF AsksOne
  <1>4. ASSUME NEW kind \in Changes!AllKinds, dialogs' = [dialogs EXCEPT ![kind] = Changes!NoDialog]
        PROVE  \A k \in Changes!AllKinds \ {"bulk"} : \A x, y \in dialogs'[k] : x = y
    BY <1>0, <1>4 DEF AsksOne, Changes!NoDialog
  <1>5. CASE Clicked
    <2>1. CASE StartingBulk
      BY <1>0, <2>1, <1>3, <1>4 DEF StartingBulk, Changes!NoDialog, Basics,
         Changes!TypeOK, AsksOne
    <2>2. ASSUME NEW kind \in Changes!AllKinds, Confirming(kind) PROVE AsksOne'
      BY <1>0, <2>2, <1>3, <1>4 DEF Confirming, Singles, Changes!NoDialog,
         AsksOne
    <2>3. ASSUME NEW x, Fetching(x) PROVE AsksOne'
      <3>1. \A op \in DOMAIN asked' : asked'[op].kind # "bulk" =>
              \A z, y \in asked'[op].targets : z = y
        BY <1>3, <2>3 DEF Fetching, Changes!AllKinds
      <3> QED
        BY <2>3, <3>1 DEF Fetching, AsksOne
    <2>4. ASSUME NEW kind, NEW targets, Opening(kind, targets) PROVE AsksOne'
      BY <2>4, <1>0 DEF Opening, AsksOne
    <2>5. ASSUME NEW kind \in Changes!AllKinds, Cancelling(kind) PROVE AsksOne'
      BY <1>4, <2>5 DEF Cancelling, AsksOne
    <2>6. CASE Selecting
      BY <1>2, <2>6 DEF Selecting
    <2> QED
      BY <1>5, <2>1, <2>2, <2>3, <2>4, <2>5, <2>6 DEF Clicked
  <1>6. CASE Worked
    BY <1>2, <1>6 DEF Worked, Changes!ui
  <1>7. CASE Framed
    <2>1. PICK a \in answers : Redialed(a)
      BY <1>7 DEF Framed, Applying, Settling
    <2>2. asked' = asked
      BY <1>7 DEF Framed
    <2>3. a.kind = "fetch" => \A x, y \in asked[a.op].targets : x = y
      BY <1>0, AnswerFields DEF AsksOne
    <2>4. \A k \in Changes!AllKinds \ {"bulk"} : \A x, y \in dialogs'[k] : x = y
      BY <1>0, <1>4, <2>1, <2>3 DEF Redialed, AsksOne
    <2> QED
      BY <2>2, <2>4 DEF AsksOne
  <1>8. CASE Elsewhere
    BY <1>2, <1>8 DEF Elsewhere, Changes!ui
  <1>9. CASE \E n \in Names : Refreshing(n)
    BY <1>2, <1>9 DEF Refreshing
  <1>10. CASE UNCHANGED Changes!vars
    BY <1>2, <1>10 DEF Changes!vars
  <1> QED
    BY <1>5, <1>6, <1>7, <1>8, <1>9, <1>10, StepKinds

(* A request of the user: its number is new.                               *)
LEMMA AskedApart ==
  ASSUME Basics, Apart, NEW kind \in Changes!AllKinds, NEW targets \in SUBSET Changes!Targets,
         targets # {}, NEW bulk \in Nat, Asking(kind, targets, bulk),
         UNCHANGED answers, kind # "bulk" => \A x, y \in targets : x = y
  PROVE  Apart'
  <1>1. \A t \in tasks' \ tasks : t.op = Changes!Op /\ t.kind = kind
    <2>1. ASSUME NEW t \in tasks' \ tasks PROVE t.op = Changes!Op /\ t.kind = kind
      <3>1. PICK x \in targets : t = Changes!Task(Changes!Op, kind, x, Told(kind, x), bulk)
        BY AskingEffect
      <3> QED
        BY <3>1 DEF Changes!Task
    <2> QED
      BY <2>1
  <1>2. ASSUME kind # "bulk", NEW t \in tasks' \ tasks, NEW u \in tasks' \ tasks
        PROVE  t = u
    <2>1. PICK x \in targets : t = Changes!Task(Changes!Op, kind, x, Told(kind, x), bulk)
      BY AskingEffect
    <2>2. PICK y \in targets : u = Changes!Task(Changes!Op, kind, y, Told(kind, y), bulk)
      BY AskingEffect
    <2> QED
      BY <1>2, <2>1, <2>2
  <1>3. /\ Changes!Op \notin DOMAIN asked
        /\ \A t \in tasks : t.op \in DOMAIN asked
        /\ \A a \in answers : a.op \in DOMAIN asked
    BY AskingEffect, TaskFields, AnswerFields
  <1> QED
    BY <1>1, <1>2, <1>3 DEF Apart

LEMMA AskedReported ==
  ASSUME Basics, Reported, NEW kind \in Changes!AllKinds, NEW targets \in SUBSET Changes!Targets,
         targets # {}, NEW bulk \in Nat, Asking(kind, targets, bulk),
         UNCHANGED <<answers, history>>,
         runs' = IF kind = "run" THEN runs \cup {Changes!Op} ELSE runs
  PROVE  Reported'
  <1>1. /\ DOMAIN asked' = DOMAIN asked \cup {Changes!Op} /\ Changes!Op \notin DOMAIN asked
        /\ \A op \in DOMAIN asked : asked'[op] = asked[op]
        /\ tasks \subseteq tasks'
    BY AskingEffect
  <1>2. \A t \in tasks' \ tasks : t.op = Changes!Op /\ t.kind = kind
    <2>1. ASSUME NEW t \in tasks' \ tasks PROVE t.op = Changes!Op /\ t.kind = kind
      <3>1. PICK x \in targets : t = Changes!Task(Changes!Op, kind, x, Told(kind, x), bulk)
        BY AskingEffect
      <3> QED
        BY <3>1 DEF Changes!Task
    <2> QED
      BY <2>1
  <1>3. ASSUME NEW op \in DOMAIN asked PROVE ReportedAsDue(op)'
    BY <1>1, <1>2, EntriesAre DEF Changes!UnderWay, Once, Reported,
       ReportedAsDue
  <1>0. PICK o : o = Changes!Op
    OBVIOUS
  <1>4. ReportedAsDue(o)'
    <2>1. PICK x \in targets : TRUE
      OBVIOUS
    <2>2. PICK t : t = Changes!Task(Changes!Op, kind, x, Told(kind, x), bulk)
      OBVIOUS
    <2>3. t \in tasks' /\ t.op = Changes!Op
      BY <2>2, AskingEffect DEF Changes!Task
    <2>4. \A i \in DOMAIN history : history[i].op # o
      BY <1>0, <1>1 DEF Reported
    <2>5. \E u \in tasks' : u.op = o
      BY <1>0, <2>3
    <2> QED
      BY <2>4, <2>5 DEF ReportedAsDue, Changes!UnderWay, Changes!Entries
  <1>5. \A i \in DOMAIN history' : history'[i].op \in DOMAIN asked'
    BY <1>1 DEF Reported
  <1>6. /\ \A t \in tasks' : t.kind = "run" => t.op \in runs'
        /\ \A a \in answers' : a.kind = "run" => a.op \in runs'
    BY <1>2 DEF Reported
  <1>7. ASSUME NEW op \in DOMAIN asked' PROVE ReportedAsDue(op)'
    <2>1. CASE op \in DOMAIN asked
      BY <1>3, <2>1
    <2>2. CASE op \notin DOMAIN asked
      BY <1>0, <1>1, <1>4, <2>2
    <2> QED
      BY <2>1, <2>2
  <1> QED
    BY <1>5, <1>6, <1>7 DEF Reported

Outcomes == AsksOne /\ Apart /\ Reported /\ BulkMatches

LEMMA SameRequests ==
  ASSUME Apart, Reported, UNCHANGED <<tasks, answers, asked, history, runs>>
  PROVE  Apart' /\ Reported'
  <1>1. Apart'
    BY DEF Apart
  <1>2. \A op : (Changes!UnderWay(op)' <=> Changes!UnderWay(op)) /\ Changes!Entries(op)' = Changes!Entries(op)
    BY DEF Changes!UnderWay, Changes!Entries
  <1>3. \A op : ReportedAsDue(op)' <=> ReportedAsDue(op)
    BY <1>2 DEF ReportedAsDue, Once
  <1> QED
    BY <1>1, <1>3 DEF Reported

LEMMA SameBulk ==
  ASSUME BulkMatches, UNCHANGED <<progress, answers>>,
         \A t : t.kind = "bulk" => (t \in tasks' <=> t \in tasks),
         dialogs'["bulk"] \in {Changes!NoDialog, dialogs["bulk"]}
  PROVE  BulkMatches'
  <1>1. PICK op : (\A t \in tasks : PartOf(t, op)) /\ (\A a \in answers : PartOf(a, op))
    BY DEF BulkMatches, OneBulk
  <1>2. (\A t \in tasks' : PartOf(t, op)') /\ (\A a \in answers' : PartOf(a, op)')
    BY <1>1 DEF PartOf
  <1>3. PartsApart'
    BY DEF BulkMatches, PartsApart
  <1>4. \A x \in progress'.remaining : HasPart(x)'
    BY DEF BulkMatches, HasPart
  <1>5. /\ dialogs'["bulk"] # Changes!NoDialog => progress' = Changes!NoProgress
        /\ Distinct(dialogs'["bulk"]) /\ Distinct(progress'.remaining)
        /\ progress' # Changes!NoProgress => progress'.remaining # {}
    BY DEF BulkMatches, Distinct, Changes!NoDialog
  <1> QED
    BY <1>2, <1>3, <1>4, <1>5 DEF BulkMatches, OneBulk, Distinct

LEMMA RowsDistinct ==
  ASSUME NEW targets, targets \subseteq {Changes!Row(n) : n \in Names}
  PROVE  Distinct(targets)
  BY DEF Distinct, Changes!Row

LEMMA AskedTasks ==
  ASSUME Basics, NEW kind \in Changes!AllKinds, NEW targets \in SUBSET Changes!Targets,
         targets # {}, NEW bulk \in Nat, Asking(kind, targets, bulk), kind # "bulk"
  PROVE  \A t : t.kind = "bulk" => (t \in tasks' <=> t \in tasks)
  <1>1. ASSUME NEW t \in tasks' \ tasks PROVE t.kind = kind
    <2>1. PICK x \in targets : t = Changes!Task(Changes!Op, kind, x, Told(kind, x), bulk)
      BY AskingEffect
    <2> QED
      BY <2>1 DEF Changes!Task
  <1>2. tasks \subseteq tasks'
    BY AskingEffect
  <1> QED
    BY <1>1, <1>2

LEMMA BulkStarts ==
  ASSUME Basics, BulkMatches, StartingBulk, UNCHANGED answers
  PROVE  BulkMatches'
  <1>0. /\ dialogs \in [Changes!AllKinds -> SUBSET Changes!Targets] /\ "bulk" \in Changes!AllKinds
        /\ bulkId + 1 \in Nat
    BY DEF Basics, Changes!TypeOK, Changes!AllKinds
  <1>1. PICK targets \in SUBSET Changes!Targets : targets = dialogs["bulk"]
    BY <1>0
  <1>2. targets # {} /\ Distinct(targets) /\ progress = Changes!NoProgress
    BY <1>1 DEF StartingBulk, BulkMatches, Changes!NoDialog
  <1>3. Asking("bulk", targets, bulkId + 1)
    BY <1>1 DEF StartingBulk
  <1>4. /\ tasks \subseteq tasks'
        /\ \A t \in tasks' \ tasks : \E x \in targets :
             t = Changes!Task(Changes!Op, "bulk", x, Told("bulk", x), bulkId + 1)
        /\ \A x \in targets : Changes!Task(Changes!Op, "bulk", x, Told("bulk", x), bulkId + 1) \in tasks'
    BY <1>0, <1>2, <1>3, AskingEffect
  <1>5. /\ progress'.id = bulkId + 1 /\ progress'.remaining = targets
        /\ dialogs'["bulk"] = Changes!NoDialog
    BY <1>0, <1>1 DEF StartingBulk
  <1>6. PICK o : o = Changes!Op
    OBVIOUS
  <1>7. /\ \A t \in tasks : t.kind # "bulk"
        /\ \A a \in answers : a.kind # "bulk"
    BY <1>2 DEF BulkMatches, OneBulk, PartOf, Changes!NoProgress
  <1>8. ASSUME NEW t \in tasks', t.kind = "bulk"
        PROVE  \E x \in targets : t = Changes!Task(o, "bulk", x, Told("bulk", x), bulkId + 1)
    BY <1>4, <1>6, <1>7, <1>8
  <1>9. ASSUME NEW t \in tasks' PROVE PartOf(t, o)'
    <2>1. CASE t.kind = "bulk"
      <3>1. PICK x \in targets : t = Changes!Task(o, "bulk", x, Told("bulk", x), bulkId + 1)
        BY <1>8, <2>1
      <3>2. t.op = o /\ t.bulk = bulkId + 1 /\ t.name = x.name
        BY <3>1 DEF Changes!Task
      <3> QED
        BY <1>5, <3>2 DEF PartOf
    <2> QED
      BY <2>1 DEF PartOf
  <1>10. OneBulk'
    BY <1>7, <1>9 DEF OneBulk, PartOf
  <1>11. ASSUME NEW t \in tasks', NEW u \in tasks', t.kind = "bulk", u.kind = "bulk",
                t.name = u.name
         PROVE  t = u
    <2>1. PICK x \in targets : t = Changes!Task(o, "bulk", x, Told("bulk", x), bulkId + 1)
      BY <1>8, <1>11
    <2>2. PICK y \in targets : u = Changes!Task(o, "bulk", y, Told("bulk", y), bulkId + 1)
      BY <1>8, <1>11
    <2>3. x.name = y.name
      BY <1>11, <2>1, <2>2 DEF Changes!Task
    <2> QED
      BY <1>2, <2>1, <2>2, <2>3 DEF Distinct
  <1>12. PartsApart'
    BY <1>7, <1>11 DEF PartsApart
  <1>13. ASSUME NEW x \in targets PROVE HasPart(x)'
    <2>1. PICK t : t = Changes!Task(o, "bulk", x, Told("bulk", x), bulkId + 1)
      OBVIOUS
    <2>2. t \in tasks'
      BY <1>4, <1>6, <2>1
    <2>3. t.kind = "bulk" /\ t.name = x.name
      BY <2>1 DEF Changes!Task
    <2> QED
      BY <2>2, <2>3 DEF HasPart
  <1> QED
    BY <1>2, <1>5, <1>10, <1>12, <1>13 DEF BulkMatches, Distinct, Changes!NoDialog

LEMMA ClickedOutcomes ==
  ASSUME Basics, Outcomes, Clicked
  PROVE  Apart' /\ Reported' /\ BulkMatches'
  <1>0. /\ dialogs \in [Changes!AllKinds -> SUBSET Changes!Targets] /\ "bulk" \in Changes!AllKinds
        /\ Apart /\ Reported /\ BulkMatches /\ UNCHANGED <<answers, history>>
    BY DEF Basics, Changes!TypeOK, Changes!AllKinds, Outcomes, Clicked
  <1>1. CASE StartingBulk
    BY <1>0, <1>1, AskedApart, AskedReported, BulkStarts DEF StartingBulk,
       Changes!NoDialog, Basics, Changes!TypeOK
  <1>2. ASSUME NEW kind \in Changes!AllKinds, Confirming(kind)
        PROVE  Apart' /\ Reported' /\ BulkMatches'
    BY <1>0, <1>2, AskedApart, AskedReported, AskedTasks, SameBulk
       DEF Confirming, Singles, Changes!NoDialog, Outcomes, AsksOne
  <1>3. ASSUME NEW x, Fetching(x)
        PROVE  Apart' /\ Reported' /\ BulkMatches'
    BY <1>3, <1>0, AskedApart, AskedReported, AskedTasks, SameBulk DEF Fetching,
       Changes!AllKinds
  <1>4. ASSUME NEW kind, NEW targets, Opening(kind, targets)
        PROVE  Apart' /\ Reported' /\ BulkMatches'
    <2>1. Apart' /\ Reported'
      BY <1>0, <1>4, SameRequests DEF Opening
    <2>2. CASE kind # "bulk"
      BY <1>0, <1>4, <2>2, <2>1, SameBulk DEF Opening
    <2>3. CASE kind = "bulk"
      BY <1>0, <1>4, <2>3, RowsDistinct, <2>1 DEF Opening, PartOf, BulkMatches,
         OneBulk, PartsApart, HasPart, Distinct
    <2> QED
      BY <2>2, <2>3
  <1>5. ASSUME NEW kind \in Changes!AllKinds, Cancelling(kind)
        PROVE  Apart' /\ Reported' /\ BulkMatches'
    BY <1>0, <1>5, SameRequests, SameBulk DEF Cancelling
  <1>6. CASE Selecting
    BY <1>0, <1>6, SameRequests, SameBulk DEF Selecting
  <1> QED
    BY <1>1, <1>2, <1>3, <1>4, <1>5, <1>6 DEF Clicked

(* The worker goes on with a request, or answers it.                       *)
LEMMA RereadOutcomes ==
  ASSUME Basics, Outcomes, NEW t \in tasks, Rereads(t), UNCHANGED Changes!ui
  PROVE  Apart' /\ Reported' /\ BulkMatches'
  <1>1. PICK u : u = [t EXCEPT !.read = objects[t.name].version]
    OBVIOUS
  <1>2. u.op = t.op /\ u.kind = t.kind /\ t.kind = "force"
    BY <1>1, TaskFields DEF Changes!Tasks, Rereads
  <1>3. /\ tasks' = (tasks \ {t}) \cup {u}
        /\ UNCHANGED <<answers, asked, history, runs, progress, dialogs>>
    BY <1>1 DEF Rereads, Changes!ui
  <1>4. Apart'
    BY <1>2, <1>3 DEF Outcomes, Apart
  <1>5. \A op : (Changes!UnderWay(op)' <=> Changes!UnderWay(op)) /\ Changes!Entries(op)' = Changes!Entries(op)
    BY <1>2, <1>3 DEF Changes!UnderWay, Changes!Entries
  <1>6. \A op : ReportedAsDue(op)' <=> ReportedAsDue(op)
    BY <1>3, <1>5 DEF ReportedAsDue, Once
  <1>7. Reported'
    BY <1>2, <1>3, <1>6 DEF Outcomes, Reported
  <1>8. BulkMatches'
    BY <1>2, <1>3, SameBulk DEF Outcomes
  <1> QED
    BY <1>4, <1>7, <1>8

LEMMA AnsweredOutcomes ==
  ASSUME Basics, Outcomes, NEW t \in tasks, Answered(t), UNCHANGED Changes!ui
  PROVE  Apart' /\ Reported' /\ BulkMatches'
  <1>1. PICK ok \in BOOLEAN :
          answers' = answers \cup {[op |-> t.op, kind |-> t.kind, name |-> t.name,
                                    bulk |-> t.bulk, ok |-> ok]}
    BY DEF Answered
  <1>2. PICK a : a = [op |-> t.op, kind |-> t.kind, name |-> t.name,
                      bulk |-> t.bulk, ok |-> ok]
    OBVIOUS
  <1>3. a.op = t.op /\ a.kind = t.kind /\ a.name = t.name /\ a.bulk = t.bulk
    BY <1>2
  <1>4. /\ tasks' = tasks \ {t} /\ answers' = answers \cup {a}
        /\ UNCHANGED <<asked, history, runs, progress, dialogs>>
    BY <1>1, <1>2 DEF Answered, Changes!ui
  <1>5. /\ \A u \in tasks : u.op = t.op => u.kind = t.kind
        /\ \A b \in answers : b.op = t.op => b.kind = t.kind
    BY TaskFields, AnswerFields
  <1>6. Apart'
    BY <1>3, <1>4, <1>5 DEF Outcomes, Apart
  <1>7. \A op : (Changes!UnderWay(op)' <=> Changes!UnderWay(op)) /\ Changes!Entries(op)' = Changes!Entries(op)
    BY <1>3, <1>4 DEF Changes!UnderWay, Changes!Entries
  <1>8. \A op : ReportedAsDue(op)' <=> ReportedAsDue(op)
    BY <1>4, <1>7 DEF ReportedAsDue, Once
  <1>9. Reported'
    BY <1>3, <1>4, <1>8 DEF Outcomes, Reported
  <1>10. PICK op : (\A u \in tasks : PartOf(u, op)) /\ (\A b \in answers : PartOf(b, op))
    BY DEF Outcomes, BulkMatches, OneBulk
  <1>11. OneBulk'
    <2>1. (\A u \in tasks' : PartOf(u, op)') /\ (\A b \in answers' : PartOf(b, op)')
      BY <1>3, <1>4, <1>10 DEF PartOf
    <2> QED
      BY <2>1 DEF OneBulk
  <1>12. PartsApart'
    BY <1>3, <1>4 DEF Outcomes, BulkMatches, PartsApart
  <1>13. \A x \in progress'.remaining : HasPart(x)'
    BY <1>3, <1>4 DEF Outcomes, BulkMatches, HasPart
  <1>14. BulkMatches'
    BY <1>4, <1>11, <1>12, <1>13 DEF Outcomes, BulkMatches, Distinct
  <1> QED
    BY <1>6, <1>9, <1>14

(* An answer is applied.                                                   *)
LEMMA FramedApart ==
  ASSUME Apart, answers' \subseteq answers, UNCHANGED tasks
  PROVE  Apart'
  BY DEF Apart

LEMMA OthersReported ==
  ASSUME Basics, Reported, NEW a \in answers, answers' = answers \ {a},
         UNCHANGED <<tasks, asked>>, Entered(a) \/ UNCHANGED history,
         NEW op \in DOMAIN asked, op # a.op
  PROVE  ReportedAsDue(op)'
  <1>1. Changes!UnderWay(op)' <=> Changes!UnderWay(op)
    BY DEF Changes!UnderWay
  <1>2. Changes!Entries(op)' = Changes!Entries(op)
    BY EntriesAre, EntriesGrow
  <1>3. Once(op) => Once(op)'
    BY <1>2, EnteredEffect DEF Once
  <1>4. ReportedAsDue(op)
    BY DEF Reported
  <1> QED
    BY <1>1, <1>2, <1>3, <1>4 DEF ReportedAsDue

LEMMA HistoryKnown ==
  ASSUME Basics, Reported, NEW a \in answers, UNCHANGED asked,
         Entered(a) \/ UNCHANGED history
  PROVE  \A i \in DOMAIN history' : history'[i].op \in DOMAIN asked'
  <1>1. CASE UNCHANGED history
    BY <1>1 DEF Reported
  <1>2. CASE Entered(a)
    BY <1>2, EnteredEffect, AnswerFields DEF Reported
  <1> QED
    BY <1>1, <1>2

(* The last answer to a request.                                           *)
LEMMA EndsReported ==
  ASSUME Basics, Reported, NEW a \in answers, answers' = answers \ {a},
         UNCHANGED <<tasks, asked>>,
         \A t \in tasks : t.op # a.op, \A b \in answers : b.op = a.op => b = a,
         Entered(a) \/ (UNCHANGED history /\ a.kind = "fetch"), NEW op, op = a.op
  PROVE  ReportedAsDue(op)'
  <1>0. op \in DOMAIN asked
    BY AnswerFields
  <1>1. ~Changes!UnderWay(op)'
    BY <1>0 DEF Changes!UnderWay
  <1>2. Changes!UnderWay(op) /\ ReportedAsDue(op)
    BY <1>0 DEF Changes!UnderWay, Reported
  <1>3. Changes!Entries(op) = {}
    BY <1>2 DEF ReportedAsDue
  <1>4. CASE Entered(a)
    BY <1>0, <1>3, <1>4, EntriesGrow, EnteredEffect, <1>1 DEF Once,
       ReportedAsDue
  <1>5. CASE UNCHANGED history /\ a.kind = "fetch"
    BY <1>0, <1>3, <1>5, EntriesAre, AnswerFields, <1>1 DEF ReportedAsDue
  <1> QED
    BY <1>4, <1>5

LEMMA AppliedOutcomes ==
  ASSUME Basics, Outcomes, NEW a \in answers, Applying(a), UNCHANGED <<tasks, asked>>
  PROVE  Apart' /\ Reported' /\ BulkMatches'
  <1>0. /\ answers' = answers \ {a} /\ a.kind # "bulk" /\ Redialed(a)
        /\ UNCHANGED <<progress, selection>>
        /\ runs' = IF a.kind = "run" THEN runs \ {a.op} ELSE runs
    BY DEF Applying
  <1>1. Apart'
    BY <1>0, FramedApart DEF Outcomes
  <1>2. /\ \A t \in tasks : t.op # a.op
        /\ \A b \in answers : b.op = a.op => b = a
    BY TaskFields, AnswerFields, <1>0 DEF Outcomes, Apart
  <1>3. Entered(a) \/ (UNCHANGED history /\ a.kind = "fetch")
    BY DEF Applying, Outcomes, Reported
  <1>4. \A op \in DOMAIN asked : ReportedAsDue(op)'
    <2>1. ASSUME NEW op \in DOMAIN asked, op = a.op PROVE ReportedAsDue(op)'
      BY <1>0, <1>2, <1>3, <2>1, EndsReported DEF Outcomes
    <2>2. ASSUME NEW op \in DOMAIN asked, op # a.op PROVE ReportedAsDue(op)'
      BY <1>0, <1>3, <2>2, OthersReported DEF Outcomes
    <2> QED
      BY <2>1, <2>2
  <1>5. /\ \A t \in tasks' : t.kind = "run" => t.op \in runs'
        /\ \A b \in answers' : b.kind = "run" => b.op \in runs'
    BY <1>0, <1>2 DEF Outcomes, Reported
  <1>6. Reported'
    BY <1>3, <1>4, <1>5, HistoryKnown DEF Outcomes, Reported
  <1>7. /\ dialogs'["bulk"] \in {Changes!NoDialog, dialogs["bulk"]}
    BY <1>0 DEF Redialed, Basics, Changes!TypeOK, Changes!AllKinds
  <1>8. PICK op : (\A u \in tasks : PartOf(u, op)) /\ (\A b \in answers : PartOf(b, op))
    BY DEF Outcomes, BulkMatches, OneBulk
  <1>9. OneBulk'
    BY <1>0, <1>8 DEF PartOf, OneBulk
  <1>10. PartsApart' /\ \A x \in progress'.remaining : HasPart(x)'
    BY <1>0 DEF Outcomes, BulkMatches, PartsApart, HasPart
  <1>11. BulkMatches'
    BY <1>0, <1>7, <1>9, <1>10 DEF Outcomes, BulkMatches, Distinct, Changes!NoDialog
  <1> QED
    BY <1>1, <1>6, <1>11

LEMMA SettledOutcomes ==
  ASSUME Basics, Outcomes, NEW a \in answers, Settling(a), UNCHANGED <<tasks, asked>>
  PROVE  Apart' /\ Reported' /\ BulkMatches'
  <1>0. /\ answers' = answers \ {a} /\ a.kind = "bulk" /\ Redialed(a)
        /\ UNCHANGED runs
    BY DEF Settling
  <1>1. Apart'
    BY <1>0, FramedApart DEF Outcomes
  <1>2. PICK op : (\A u \in tasks : PartOf(u, op)) /\ (\A b \in answers : PartOf(b, op))
    BY DEF Outcomes, BulkMatches, OneBulk
  <1>3. /\ a.op = op /\ a.bulk = progress.id
        /\ \E x \in progress.remaining : x.name = a.name
    BY <1>0, <1>2 DEF PartOf
  <1>4. PICK target : SettlingOne(a, target)
    BY <1>3 DEF Settling
  <1>5. target \in progress.remaining /\ target.name = a.name
    BY <1>4 DEF SettlingOne
  <1>6. PICK remaining \in SUBSET Changes!Targets : remaining = progress.remaining \ {target}
    BY ProgressFields
  <1>7. dialogs'["bulk"] \in {Changes!NoDialog, dialogs["bulk"]}
    BY <1>0 DEF Redialed, Basics, Changes!TypeOK, Changes!AllKinds
  <1>8. dialogs["bulk"] = Changes!NoDialog
    BY <1>5 DEF Outcomes, BulkMatches, Changes!NoProgress
  <1>9. \A x \in remaining : x.name # a.name
    BY <1>5, <1>6 DEF Outcomes, BulkMatches, Distinct
  <1>10. \A x \in remaining : HasPart(x)'
    BY <1>0, <1>6, <1>9 DEF Outcomes, BulkMatches, HasPart
  <1>11. /\ \A t \in tasks : t.kind = "bulk" => \E x \in remaining : x.name = t.name
         /\ \A b \in answers' : b.kind = "bulk" => \E x \in remaining : x.name = b.name
    <2>1. ASSUME NEW t \in tasks, t.kind = "bulk"
          PROVE  \E x \in remaining : x.name = t.name
      <3>1. PICK x \in progress.remaining : x.name = t.name
        BY <1>2, <2>1 DEF PartOf
      <3>2. t.name # a.name
        BY <1>0, <2>1 DEF Outcomes, BulkMatches, PartsApart
      <3> QED
        BY <1>5, <1>6, <3>1, <3>2
    <2>2. ASSUME NEW b \in answers', b.kind = "bulk"
          PROVE  \E x \in remaining : x.name = b.name
      <3>1. PICK x \in progress.remaining : x.name = b.name
        BY <1>0, <1>2, <2>2 DEF PartOf
      <3>2. b.name # a.name
        BY <1>0, <2>2 DEF Outcomes, BulkMatches, PartsApart
      <3> QED
        BY <1>5, <1>6, <3>1, <3>2
    <2> QED
      BY <2>1, <2>2
  <1>12. PartsApart'
    BY <1>0 DEF Outcomes, BulkMatches, PartsApart
  <1>13. /\ \A t \in tasks' : t.kind = "run" => t.op \in runs'
         /\ \A b \in answers' : b.kind = "run" => b.op \in runs'
    BY <1>0 DEF Outcomes, Reported
  <1>14. CASE remaining = {}
    <2>1. Entered(a) /\ progress' = Changes!NoProgress
      BY <1>4, <1>6, <1>14 DEF SettlingOne
    <2>2. /\ \A t \in tasks : t.kind # "bulk"
          /\ \A b \in answers' : b.kind # "bulk"
      BY <1>11, <1>14
    <2>3. /\ \A t \in tasks : t.op # a.op
          /\ \A b \in answers : b.op = a.op => b = a
      BY <1>0, TaskFields, AnswerFields, <2>2
    <2>4. \A o \in DOMAIN asked : ReportedAsDue(o)'
      <3>1. ASSUME NEW o \in DOMAIN asked, o = a.op PROVE ReportedAsDue(o)'
        BY <1>0, <2>1, <2>3, <3>1, EndsReported DEF Outcomes
      <3>2. ASSUME NEW o \in DOMAIN asked, o # a.op PROVE ReportedAsDue(o)'
        BY <1>0, <2>1, <3>2, OthersReported DEF Outcomes
      <3> QED
        BY <3>1, <3>2
    <2>5. Reported'
      BY <1>13, <2>1, <2>4, HistoryKnown DEF Outcomes, Reported
    <2>6. OneBulk' /\ progress'.remaining = {}
      BY <2>1, <2>2 DEF OneBulk, PartOf, Changes!NoProgress
    <2>7. BulkMatches'
      BY <1>7, <1>8, <1>12, <2>1, <2>6 DEF BulkMatches, Distinct, Changes!NoDialog
    <2> QED
      BY <1>1, <2>5, <2>7
  <1>15. CASE remaining # {}
    <2>1. /\ UNCHANGED history
          /\ progress'.id = progress.id /\ progress'.remaining = remaining
      <3>1. PICK failures \in {progress.failures, progress.failures \cup {target}} :
              /\ progress' = [progress EXCEPT !.remaining = remaining,
                                              !.failures = failures]
              /\ UNCHANGED history
        BY <1>4, <1>6, <1>15 DEF SettlingOne
      <3> QED
        BY <3>1, ProgressFields DEF Basics, Changes!TypeOK
    <2>2. PICK x \in remaining : HasPart(x)'
      BY <1>10, <1>15
    <2>3. Changes!UnderWay(op)'
      BY <1>0, <1>2, <2>2 DEF HasPart, Changes!UnderWay, PartOf
    <2>4. \A o \in DOMAIN asked : ReportedAsDue(o)'
      <3>1. op \in DOMAIN asked /\ Changes!UnderWay(op) /\ ReportedAsDue(op)
        BY <1>3, AnswerFields DEF Outcomes, Reported, Changes!UnderWay
      <3>2. Changes!Entries(op)' = {}
        BY <2>1, <3>1, EntriesAre DEF ReportedAsDue
      <3>3. ReportedAsDue(op)'
        BY <2>3, <3>2 DEF ReportedAsDue
      <3>4. ASSUME NEW o \in DOMAIN asked, o # op PROVE ReportedAsDue(o)'
        BY <1>0, <1>3, <2>1, <3>4, OthersReported DEF Outcomes
      <3> QED
        BY <3>3, <3>4
    <2>5. Reported'
      BY <1>13, <2>1, <2>4, HistoryKnown DEF Outcomes, Reported
    <2>6. (\A t \in tasks' : PartOf(t, op)') /\ (\A b \in answers' : PartOf(b, op)')
      BY <1>0, <1>2, <1>11, <2>1 DEF PartOf
    <2>7. OneBulk'
      BY <2>6 DEF OneBulk
    <2>8. Distinct(remaining)
      BY <1>6 DEF Outcomes, BulkMatches, Distinct
    <2>9. BulkMatches'
      BY <1>7, <1>8, <1>10, <1>12, <1>15, <2>1, <2>7, <2>8 DEF BulkMatches, Distinct, Changes!NoDialog
    <2> QED
      BY <1>1, <2>5, <2>9
  <1> QED
    BY <1>14, <1>15

LEMMA OutcomesKept ==
  ASSUME Basics, Outcomes, [Changes!Next]_Changes!vars
  PROVE  Outcomes'
  <1>0. AsksOne'
    BY AsksOneKept DEF Outcomes
  <1>1. ASSUME UNCHANGED <<tasks, answers, asked, history, runs, progress, dialogs>>
        PROVE  Apart' /\ Reported' /\ BulkMatches'
    BY <1>1, SameRequests, SameBulk DEF Outcomes
  <1>2. CASE Clicked
    BY <1>0, <1>2, ClickedOutcomes DEF Outcomes
  <1>3. CASE Worked
    BY <1>0, <1>3, RereadOutcomes, AnsweredOutcomes DEF Worked, Outcomes
  <1>4. CASE Framed
    BY <1>0, <1>4, AppliedOutcomes, SettledOutcomes DEF Framed, Outcomes
  <1>5. CASE Elsewhere
    BY <1>0, <1>1, <1>5 DEF Elsewhere, Changes!ui, Outcomes
  <1>6. CASE \E n \in Names : Refreshing(n)
    BY <1>0, <1>1, <1>6 DEF Refreshing, Outcomes
  <1>7. CASE UNCHANGED Changes!vars
    BY <1>0, <1>1, <1>7 DEF Changes!vars, Outcomes
  <1> QED
    BY <1>2, <1>3, <1>4, <1>5, <1>6, <1>7, StepKinds

MutationsInv == Basics /\ Confirmed /\ Outcomes

LEMMA MutationsStart == Changes!Init => MutationsInv
  <1> SUFFICES ASSUME Changes!Init PROVE MutationsInv
    OBVIOUS
  <1>1. /\ asked = <<>> /\ history = <<>> /\ tasks = {} /\ answers = {}
        /\ touched = {} /\ progress = Changes!NoProgress
        /\ \A kind \in Changes!AllKinds : dialogs[kind] = {}
        /\ dialogs["force"] = {} /\ dialogs["bulk"] = {}
    BY DEF Changes!Init, Changes!NoDialog, Changes!AllKinds
  <1>2. DOMAIN asked = {} /\ DOMAIN history = {} /\ progress.remaining = {}
    BY <1>1 DEF Changes!NoProgress
  <1>3. Confirmed
    BY <1>1 DEF Confirmed, ForceOffered, Changes!NoDialog
  <1>4. AsksOne /\ Apart /\ Reported
    BY <1>1, <1>2 DEF AsksOne, Apart, Reported
  <1>5. BulkMatches
    BY <1>1, <1>2 DEF BulkMatches, Distinct, OneBulk, PartsApart, Changes!NoDialog
  <1> QED
    BY <1>3, <1>4, <1>5, BasicsStart DEF MutationsInv, Outcomes

LEMMA MutationsStep == MutationsInv /\ [Changes!Next]_Changes!vars => MutationsInv'
  BY BasicsKept, ConfirmedKept, OutcomesKept DEF MutationsInv

LEMMA MutationsHolds ==
  ASSUME MutationsInv
  PROVE  Changes!TypeOK /\ Changes!OnlyConfirmedTouched /\ Changes!OutcomesExact
  <1>1. Changes!OnlyConfirmedTouched
    BY DEF MutationsInv, Confirmed, ConfirmedOf, Changes!OnlyConfirmedTouched
  <1>2. ASSUME NEW op \in DOMAIN asked
        PROVE  IF asked[op].kind = "fetch" THEN Cardinality(Changes!Entries(op)) <= 1
               ELSE Cardinality(Changes!Entries(op)) = IF Changes!UnderWay(op) THEN 0 ELSE 1
    <2>1. ReportedAsDue(op)
      BY DEF MutationsInv, Outcomes, Reported
    <2>2. Cardinality({}) = 0 /\ \A i : Cardinality({i}) = 1
      BY FS_EmptySet, FS_Singleton
    <2>3. /\ Changes!Entries(op) = {} => Cardinality(Changes!Entries(op)) = 0
          /\ Once(op) => Cardinality(Changes!Entries(op)) = 1
      BY <2>2 DEF Once
    <2> QED
      BY <2>1, <2>3 DEF ReportedAsDue
  <1>3. ASSUME progress = Changes!NoProgress, NEW op \in DOMAIN asked, asked[op].kind = "bulk"
        PROVE  ~Changes!UnderWay(op)
    BY <1>3, TaskFields, AnswerFields DEF Changes!NoProgress, MutationsInv,
       Outcomes, BulkMatches, OneBulk, PartOf, Changes!UnderWay
  <1>4. ASSUME progress # Changes!NoProgress
        PROVE  \E op \in DOMAIN asked : asked[op].kind = "bulk" /\ Changes!UnderWay(op)
    <2>1. PICK x \in progress.remaining : HasPart(x)
      BY <1>4 DEF MutationsInv, Outcomes, BulkMatches
    <2>2. CASE \E t \in tasks : t.kind = "bulk" /\ t.name = x.name
      BY <2>2, TaskFields DEF Changes!UnderWay, MutationsInv
    <2>3. CASE \E a \in answers : a.kind = "bulk" /\ a.name = x.name
      BY <2>3, AnswerFields DEF Changes!UnderWay, MutationsInv
    <2> QED
      BY <2>1, <2>2, <2>3 DEF HasPart
  <1>5. Changes!OutcomesExact
    BY <1>2, <1>3, <1>4, SameCount DEF Changes!OutcomesExact
  <1> QED
    BY <1>1, <1>5 DEF MutationsInv, Basics

-----------------------------------------------------------------------------
(* The workspace: a part that does not run keeps its state.                *)

LEMMA ChangesStart == WorkspaceInit => MutationsInv
  BY MutationsStart DEF WorkspaceInit

LEMMA ChangesStep == MutationsInv /\ [WorkspaceNext]_workspaceVars => MutationsInv'
  <1> SUFFICES ASSUME MutationsInv, [WorkspaceNext]_workspaceVars
               PROVE  [Changes!Next]_Changes!vars
    BY MutationsStep
  <1>1. CASE ChangesNext
    BY <1>1 DEF ChangesNext, OfChanges
  <1>2. CASE UNCHANGED changesVars
    BY <1>2 DEF changesVars, Changes!vars
  <1> QED
    BY <1>1, <1>2 DEF WorkspaceNext, ScopeNext, StreamNext, OfScope, OfStream,
                      workspaceVars

LEMMA ChangesInvariant == WorkspaceSpec => []MutationsInv
  BY ChangesStart, ChangesStep, PTL DEF WorkspaceSpec

(* Whatever requests, failures, lost answers and changes by others come in *)
(* which order, what a request of a deletion or of a forced removal has    *)
(* changed is what the user saw in the dialog that asked for it, under the *)
(* name and the uid it showed (resource_mutations.rs).                     *)
THEOREM OnlyTheConfirmed == WorkspaceSpec => []OnlyConfirmedTouched
  <1>1. MutationsInv => OnlyConfirmedTouched
    BY MutationsHolds DEF OnlyConfirmedTouched
  <1> QED
    BY ChangesInvariant, <1>1, PTL

(* Every request is under way or has its one entry in the history of       *)
(* operations, and the progress dialog of a bulk delete is open exactly    *)
(* while one is under way (notifications.rs).                              *)
THEOREM OutcomesReported == WorkspaceSpec => []OutcomesExact
  <1>1. MutationsInv => OutcomesExact
    BY MutationsHolds DEF OutcomesExact
  <1> QED
    BY ChangesInvariant, <1>1, PTL

=============================================================================
