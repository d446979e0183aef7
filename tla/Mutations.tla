------------------------------- MODULE Mutations -------------------------------
(***************************************************************************)
(* Changes of a cluster's objects that the user asks for in the workspace: *)
(* the confirmation dialogs (ui/dialogs), the commands they send, the      *)
(* worker's requests (cluster_connection_manager/resource_mutations.rs)    *)
(* and the notifications about their outcomes (ui/state/notifications.rs). *)
(*                                                                         *)
(* The objects change while a dialog is open and while a request is under  *)
(* way, and a name may come to mean another object.  The delay of a        *)
(* destructive dialog and the name typed into it only restrict when it can *)
(* be confirmed; a dialog here can be confirmed at any time.               *)
(***************************************************************************)
EXTENDS Integers, Sequences, FiniteSets

CONSTANTS
  Names,     \* names of objects of the selected API resource, numbered 1..n
  Menus,     \* what the user asks for in one behaviour, and the bound on
             \* the changes by others in it
  MaxUid,    \* bound: objects that ever exist
  MaxAsked,  \* bound: requests the user makes
  MaxFaults  \* bound: requests that fail, or whose answer is lost

AllKinds == {"delete", "bulk", "force", "restart", "run", "fetch", "scale"}

MutationsAssumption ==
  /\ IsFiniteSet(Names) /\ Names = 1..Cardinality(Names)
  /\ Cardinality(Names) <= MaxUid
  /\ Menus \subseteq [kinds: SUBSET AllKinds, events: Nat]
  /\ {MaxUid, MaxAsked, MaxFaults} \subseteq Nat

VARIABLES
  menu,      \* the choice of Menus
  objects,   \* name -> object in the cluster
  created,   \* how many objects were created
  writes,    \* resource versions given out by the API server
  rows,      \* name -> row of the resource cache
  selection, \* resource_selections: uids
  dialogs,   \* kind -> what its confirmation is about (pending_*)
  progress,  \* bulk_delete_progress
  bulkId,    \* next_bulk_delete_id
  runs,      \* cron_job_runs_in_flight
  tasks,     \* commands the worker executes
  answers,   \* their results, not applied yet
  history,   \* operation_history
  asked,     \* history: the requests made, in order
  touched,   \* history: which objects requests have changed
  events, faults

vars == <<menu, objects, created, writes, rows, selection, dialogs, progress, bulkId,
          runs, tasks, answers, history, asked, touched, events, faults>>

ui     == <<rows, selection, dialogs, progress, bulkId, runs, history, asked>>
server == <<menu, objects, created, writes, touched>>

-----------------------------------------------------------------------------
Uids       == 1..MaxUid
NoUid      == 0
Absent     == [uid |-> NoUid, deleting |-> FALSE, held |-> FALSE, version |-> 0]
NoDialog   == {}
NoProgress == [id |-> 0, remaining |-> {}, failures |-> {}, count |-> 0]
Targets    == [name: Names, uid: Uids]
Ops        == 1..MaxAsked

(* held: the object has finalizers.                                        *)
Objects == [uid: Uids \cup {NoUid}, deleting: BOOLEAN, held: BOOLEAN,
            version: Nat]

Tasks   == [op: Ops, kind: AllKinds, name: Names, uid: Uids \cup {NoUid},
            bulk: Nat, read: Nat]
Answers == [op: Ops, kind: AllKinds, name: Names, bulk: Nat, ok: BOOLEAN]

TypeOK ==
  /\ menu \in Menus
  /\ objects \in [Names -> Objects]
  /\ created \in 0..MaxUid /\ writes \in Nat
  /\ rows \in [Names -> Objects]
  /\ selection \subseteq Uids
  /\ dialogs \in [AllKinds -> SUBSET Targets]
  /\ progress \in [id: Nat, remaining: SUBSET Targets,
                   failures: SUBSET Targets, count: Nat]
  /\ bulkId \in Nat
  /\ runs \subseteq Ops
  /\ tasks \subseteq Tasks
  /\ answers \subseteq Answers
  /\ history \in Seq([op: Ops, ok: BOOLEAN, failed: Nat])
  /\ asked \in Seq([kind: AllKinds, targets: SUBSET Targets])
  /\ Len(asked) <= MaxAsked
  /\ touched \subseteq [op: Ops, uid: Uids, deleting: BOOLEAN]
  /\ events \in Nat /\ faults \in Nat

(* Objects with finalizers are there where a forced delete is offered.     *)
Finalizers == IF "force" \in menu.kinds THEN BOOLEAN ELSE {FALSE}

Init ==
  /\ menu \in Menus
  /\ \E held \in [Names -> Finalizers] :
       objects = [n \in Names |-> [Absent EXCEPT !.uid = n, !.held = held[n]]]
  /\ created = Cardinality(Names) /\ writes = 0
  /\ rows = objects
  /\ selection = {}
  /\ dialogs = [k \in AllKinds |-> NoDialog]
  /\ progress = NoProgress /\ bulkId = 0
  /\ runs = {} /\ tasks = {} /\ answers = {}
  /\ history = <<>> /\ asked = <<>> /\ touched = {}
  /\ events = 0 /\ faults = 0

-----------------------------------------------------------------------------
(* The table, and the dialogs.  A dialog is modal: nothing else is clicked *)
(* while one is open.                                                      *)

Clicks ==
  /\ \A k \in AllKinds : dialogs[k] = NoDialog
  /\ UNCHANGED <<server, rows, progress, bulkId, runs, answers, history, events,
                 faults>>

Row(n) == [name |-> n, uid |-> rows[n].uid]
Listed == {n \in Names : rows[n] # Absent}

ToggleRow(n) ==
  /\ Clicks
  /\ "bulk" \in menu.kinds
  /\ n \in Listed
  /\ selection' = IF rows[n].uid \in selection THEN selection \ {rows[n].uid}
                  ELSE selection \cup {rows[n].uid}
  /\ UNCHANGED <<dialogs, tasks, asked>>

ClearSelection ==
  /\ Clicks
  /\ selection # {}
  /\ selection' = {}
  /\ UNCHANGED <<dialogs, tasks, asked>>

Opens(kind, targets) ==
  /\ Clicks
  /\ dialogs' = [dialogs EXCEPT ![kind] = targets]
  /\ UNCHANGED <<selection, tasks, asked>>

(* The toolbar is disabled during a bulk delete, the inspector is not.     *)
RequestDelete(n)  == "delete" \in menu.kinds /\ n \in Listed /\ Opens("delete", {Row(n)})
RequestForce(n)   == /\ "force" \in menu.kinds /\ n \in Listed
                     /\ rows[n].deleting /\ rows[n].held
                     /\ Opens("force", {Row(n)})
RequestRestart(n) == "restart" \in menu.kinds /\ n \in Listed /\ Opens("restart", {Row(n)})
RequestRun(n)     == "run" \in menu.kinds /\ n \in Listed /\ Opens("run", {Row(n)})

DeleteSelected ==
  LET targets == {Row(n) : n \in {m \in Listed : rows[m].uid \in selection}} IN
    /\ progress = NoProgress
    /\ targets # {}
    /\ Opens("bulk", targets)

Task(op, kind, target, uid, bulk) ==
  [op |-> op, kind |-> kind, name |-> target.name, uid |-> uid, bulk |-> bulk,
   read |-> 0]

Op == Len(asked) + 1

Asks(kind, targets, uid(_), bulk) ==
  /\ Op <= MaxAsked
  /\ asked' = Append(asked, [kind |-> kind, targets |-> targets])
  /\ tasks' = tasks \cup {Task(Op, kind, t, uid(t), bulk) : t \in targets}

NoUidOf(t) == NoUid
UidOf(t)   == t.uid

(* GetResourceScale; its answer opens the dialog.                          *)
RequestScale(n) ==
  /\ "scale" \in menu.kinds
  /\ Clicks
  /\ n \in Listed
  /\ Asks("fetch", {Row(n)}, NoUidOf, 0)
  /\ UNCHANGED <<selection, dialogs>>

Cancel(kind) ==
  /\ dialogs[kind] # NoDialog
  /\ dialogs' = [dialogs EXCEPT ![kind] = NoDialog]
  /\ UNCHANGED <<server, rows, selection, progress, bulkId, runs, tasks, answers,
                 history, asked, events, faults>>

Confirms(kind) ==
  /\ dialogs[kind] # NoDialog
  /\ dialogs' = [dialogs EXCEPT ![kind] = NoDialog]
  /\ UNCHANGED <<server, rows, selection, answers, history, events, faults>>

(* Delete, restart and scale name the object only.                         *)
ConfirmByName(kind) ==
  /\ kind \in {"delete", "restart", "scale"}
  /\ Confirms(kind)
  /\ Asks(kind, dialogs[kind], NoUidOf, 0)
  /\ UNCHANGED <<progress, bulkId, runs>>

ConfirmRun ==
  /\ Confirms("run")
  /\ Asks("run", dialogs["run"], NoUidOf, 0)
  /\ runs' = runs \cup {Op}
  /\ UNCHANGED <<progress, bulkId>>

ConfirmForce ==
  /\ Confirms("force")
  /\ Asks("force", dialogs["force"], UidOf, 0)
  /\ UNCHANGED <<progress, bulkId, runs>>

ConfirmBulk ==
  /\ Confirms("bulk")
  /\ bulkId' = bulkId + 1
  /\ Asks("bulk", dialogs["bulk"], UidOf, bulkId')
  /\ progress' = [id |-> bulkId', remaining |-> dialogs["bulk"],
                  failures |-> {}, count |-> Cardinality(dialogs["bulk"])]
  /\ UNCHANGED runs

-----------------------------------------------------------------------------
(* The worker's requests and the API server (external).                    *)

Works(t) ==
  /\ t \in tasks
  /\ UNCHANGED <<menu, ui, created, events>>

Answer(t, ok) ==
  /\ tasks' = tasks \ {t}
  /\ answers' = answers \cup {[op |-> t.op, kind |-> t.kind, name |-> t.name,
                               bulk |-> t.bulk, ok |-> ok]}

Touches(t) ==
  touched' = touched \cup {[op |-> t.op, uid |-> objects[t.name].uid,
                            deleting |-> objects[t.name].deleting]}

(* The versions are counted where a forced delete, which alone looks at    *)
(* them, is among what the user asks for.                                  *)
Writes(n, object) ==
  /\ writes' = IF "force" \in menu.kinds THEN writes + 1 ELSE 0
  /\ objects' = [objects EXCEPT ![n] =
                   IF object = Absent THEN Absent
                   ELSE [object EXCEPT !.version = writes']]

(* A request that was served, or whose answer was lost on the way.         *)
Served(t) ==
  \/ Answer(t, TRUE) /\ UNCHANGED faults
  \/ Answer(t, FALSE) /\ faults < MaxFaults /\ faults' = faults + 1

Refused(t) == Answer(t, FALSE) /\ UNCHANGED <<server, faults>>

RequestFails(t) ==
  /\ Works(t)
  /\ faults < MaxFaults /\ faults' = faults + 1
  /\ Answer(t, FALSE)
  /\ UNCHANGED server

(* Mutant: the delete of a selected object names the object only.          *)
MatchesMutant(t) == objects[t.name] # Absent

(* The UID precondition, given for each object of a bulk delete.           *)
Matches(t) == /\ objects[t.name] # Absent
              /\ t.uid = NoUid \/ objects[t.name].uid = t.uid

DeleteObject(t) ==
  /\ Works(t)
  /\ t.kind \in {"delete", "bulk"}
  /\ IF Matches(t)
       THEN /\ Touches(t)
            /\ Writes(t.name, IF objects[t.name].held
                                THEN [objects[t.name] EXCEPT !.deleting = TRUE]
                                ELSE Absent)
            /\ Served(t)
       ELSE Refused(t)

(* force_delete_resource reads the object first and checks it ...          *)
CheckFinalizers(t) ==
  /\ Works(t)
  /\ t.kind = "force" /\ t.read = 0
  /\ LET object == objects[t.name] IN
       IF object # Absent /\ object.uid = t.uid /\ object.deleting /\ object.held
         THEN /\ tasks' = (tasks \ {t}) \cup {[t EXCEPT !.read = object.version]}
              /\ UNCHANGED <<server, answers, faults>>
         ELSE Refused(t)

(* ... then removes the finalizers of that version: the last obstacle.     *)
RemoveFinalizers(t) ==
  /\ Works(t)
  /\ t.kind = "force" /\ t.read # 0
  /\ IF objects[t.name].version = t.read
       THEN Touches(t) /\ Writes(t.name, Absent) /\ Served(t)
       ELSE Refused(t)

(* restart_deployment, update_resource_scale, and what only reads the      *)
(* object: run_cron_job, get_resource_scale.                               *)
PatchObject(t) ==
  /\ Works(t)
  /\ t.kind \in {"restart", "scale"}
  /\ IF objects[t.name] # Absent
       THEN Touches(t) /\ Writes(t.name, objects[t.name]) /\ Served(t)
       ELSE Refused(t)

ReadObject(t) ==
  /\ Works(t)
  /\ t.kind \in {"run", "fetch"}
  /\ UNCHANGED server
  /\ IF objects[t.name] # Absent THEN Served(t)
     ELSE Answer(t, FALSE) /\ UNCHANGED faults

-----------------------------------------------------------------------------
(* The results, applied by the interface.                                  *)

Applies(a) ==
  /\ a \in answers
  /\ answers' = answers \ {a}
  /\ UNCHANGED <<server, rows, bulkId, tasks, asked, events, faults>>

(* record_operation_outcome                                                *)
Record(op, ok, failed) ==
  history' = Append(history, [op |-> op, ok |-> ok, failed |-> failed])

Reports(a) == Record(a.op, a.ok, IF a.ok THEN 0 ELSE 1)

(* A success closes the dialog of its kind, whatever it is about by now.   *)
Closes(a, kind) ==
  dialogs' = IF a.ok THEN [dialogs EXCEPT ![kind] = NoDialog] ELSE dialogs

(* ResourceDeleteCompleted and -Failed of the row menu, Force..., Scale... *)
ApplySingle(a) ==
  /\ Applies(a)
  /\ a.kind \in {"delete", "force", "scale"}
  /\ Reports(a)
  /\ Closes(a, a.kind)
  /\ UNCHANGED <<selection, progress, runs>>

ApplyRestart(a) ==
  /\ Applies(a)
  /\ a.kind = "restart"
  /\ Reports(a)
  /\ UNCHANGED <<selection, dialogs, progress, runs>>

ApplyRun(a) ==
  /\ Applies(a)
  /\ a.kind = "run"
  /\ runs' = runs \ {a.op}
  /\ IF a.op \in runs THEN Reports(a) ELSE UNCHANGED history
  /\ UNCHANGED <<selection, dialogs, progress>>

(* A fetched scale opens the dialog, in place of one that is open.         *)
ApplyScaleFetched(a) ==
  /\ Applies(a)
  /\ a.kind = "fetch"
  /\ IF a.ok
       THEN /\ dialogs' = [dialogs EXCEPT !["scale"] = asked[a.op].targets]
            /\ UNCHANGED history
       ELSE Reports(a) /\ UNCHANGED dialogs
  /\ UNCHANGED <<selection, progress, runs>>

(* Mutant: an object that could not be deleted is not taken off the list.  *)
SettledMutant(a, target) ==
  IF a.ok THEN [progress EXCEPT !.remaining = @ \ {target}]
  ELSE [progress EXCEPT !.failures = @ \cup {target}]

(* settle_bulk_delete_target                                               *)
Settled(a, target) ==
  [progress EXCEPT !.remaining = @ \ {target},
                   !.failures = IF a.ok THEN @ ELSE @ \cup {target}]

ApplyBulk(a) ==
  /\ Applies(a)
  /\ a.kind = "bulk"
  /\ IF \E target \in progress.remaining :
          progress.id = a.bulk /\ target.name = a.name
       THEN \E target \in progress.remaining :
              LET next == Settled(a, target) IN
                /\ target.name = a.name
                /\ selection' = IF a.ok THEN selection \ {target.uid}
                                ELSE selection
                /\ IF next.remaining = {}
                     THEN /\ Record(a.op, next.failures = {},
                                    Cardinality(next.failures))
                          /\ progress' = NoProgress
                     ELSE progress' = next /\ UNCHANGED history
       ELSE UNCHANGED <<selection, progress, history>>
  /\ Closes(a, "delete")
  /\ UNCHANGED runs

-----------------------------------------------------------------------------
(* Others change the cluster, and the watch reports it row by row.         *)

Others ==
  /\ events < menu.events /\ events' = events + 1
  /\ UNCHANGED <<menu, ui, tasks, answers, touched, faults>>

Create(n) ==
  /\ Others
  /\ objects[n] = Absent /\ created < MaxUid
  /\ created' = created + 1
  /\ \E held \in Finalizers :
       Writes(n, [Absent EXCEPT !.uid = created + 1, !.held = held])

OthersDelete(n) ==
  /\ Others
  /\ objects[n] # Absent
  /\ Writes(n, IF objects[n].held /\ ~objects[n].deleting
                 THEN [objects[n] EXCEPT !.deleting = TRUE] ELSE Absent)
  /\ UNCHANGED created

OthersUpdate(n) ==
  /\ Others
  /\ objects[n] # Absent
  /\ "force" \in menu.kinds
  /\ Writes(n, objects[n])
  /\ UNCHANGED created

(* KubernetesResourceAdded and -Deleted: the selection keeps its uids.     *)
WatchReports(n) ==
  /\ rows[n] # [objects[n] EXCEPT !.version = 0]
  /\ rows' = [rows EXCEPT ![n] = [objects[n] EXCEPT !.version = 0]]
  /\ UNCHANGED <<server, selection, dialogs, progress, bulkId, runs, tasks,
                 answers, history, asked, events, faults>>

-----------------------------------------------------------------------------
User ==
  \/ \E n \in Names : \/ ToggleRow(n) \/ RequestDelete(n) \/ RequestForce(n)
                      \/ RequestRestart(n) \/ RequestRun(n) \/ RequestScale(n)
  \/ ClearSelection \/ DeleteSelected
  \/ \E k \in AllKinds : Cancel(k) \/ ConfirmByName(k)
  \/ ConfirmRun \/ ConfirmForce \/ ConfirmBulk

WorkerStep ==
  \E t \in tasks : \/ DeleteObject(t) \/ CheckFinalizers(t)
                   \/ RemoveFinalizers(t) \/ PatchObject(t) \/ ReadObject(t)
                   \/ RequestFails(t)

Frame ==
  \E a \in answers : \/ ApplySingle(a) \/ ApplyRestart(a) \/ ApplyRun(a)
                     \/ ApplyScaleFetched(a) \/ ApplyBulk(a)

Cluster ==
  \E n \in Names : Create(n) \/ OthersDelete(n) \/ OthersUpdate(n) \/ WatchReports(n)

Next == User \/ WorkerStep \/ Frame \/ Cluster

Spec == Init /\ [][Next]_vars

(* Requests are answered, and the interface applies the results: one of    *)
(* them while one can.                                                     *)
SystemStep == WorkerStep \/ Frame

FairSpec == Spec /\ WF_vars(SystemStep)

-----------------------------------------------------------------------------
(* A bulk delete deletes objects its dialog listed, and a forced one takes *)
(* the finalizers from the object its dialog was about, while that is being*)
(* deleted: never from one that has got the name since, nor from an object *)
(* that changed after it was checked.  A delete from the menu of a row, a  *)
(* restart and a scale go by the name and promise no such thing.           *)
OnlyConfirmedTouched ==
  \A t \in touched :
    asked[t.op].kind \in {"bulk", "force"} =>
      /\ \E target \in asked[t.op].targets : target.uid = t.uid
      /\ asked[t.op].kind = "force" => t.deleting

(* Each request that is not under way any more was reported exactly once   *)
(* (a fetched scale by its dialog), and none before all of it was answered;*)
(* a bulk delete is on display while, and only while, it is under way.     *)
UnderWay(op) == (\E t \in tasks : t.op = op) \/ (\E a \in answers : a.op = op)

Entries(op) == {i \in DOMAIN history : history[i].op = op}

OutcomesExact ==
  /\ \A op \in DOMAIN asked :
       IF asked[op].kind = "fetch" THEN Cardinality(Entries(op)) <= 1
       ELSE Cardinality(Entries(op)) = IF UnderWay(op) THEN 0 ELSE 1
  /\ progress = NoProgress <=>
       ~\E op \in DOMAIN asked : asked[op].kind = "bulk" /\ UnderWay(op)

(* A bulk delete under way disables the actions of the table.              *)
Waits == progress # NoProgress

=============================================================================
