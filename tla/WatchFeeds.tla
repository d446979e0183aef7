------------------------------ MODULE WatchFeeds ------------------------------
(***************************************************************************)
(* From the API server to the screen: what the tasks that watch make of    *)
(* the events of their streams, and what is shown of it.  Six feeds: the   *)
(* rows of a table (watcher_scopes, watcher_types); in an inspector the    *)
(* resources a workload manages and the pods of a node (managed_watches),  *)
(* the events about the object and the object itself (resource_details);   *)
(* and the releases of Helm (watcher_orchestration).  They share nothing,  *)
(* so a behaviour is of one of them.                                       *)
(*                                                                         *)
(* Which watches run is not this module's: ResourceWatches, Inspectors.    *)
(* A stream is one of kube: it lists, reports every change after that, and *)
(* ends for these tasks at its first error.                                *)
(***************************************************************************)
EXTENDS PodSpecs

CONSTANTS
  Objects,       \* UIDs, numbers; an object never comes back under its own
  None,          \* no row, no owner
  Unborn, Gone,  \* not yet created; deleted
  Plans          \* feeds and what happens to the objects

Root == 0        \* the workload, node or object an inspector is of

(* A plan has the `kinds` and `homes` of the objects, the `forms` each can *)
(* take, and the `data` the ConfigMap may have; for a table its `watcher`, *)
(* and its `scope`: "one" namespace, "all" of some, or the "cluster".      *)
Feeds == {"table", "tree", "node", "events", "object", "helm"}

VARIABLES
  plan,
  left,     \* bounds: changes, faults, and times the scope is chosen again
  world,    \* the objects of the API server
  config,   \* and the data of the ConfigMap a pod refers to
  stream,   \* of each kind watched: its phase, and events not yet taken
  task,     \* what the task that reads it keeps
  updates,  \* from the tasks of one inspector to the one that combines them
  results,  \* to the user interface
  view,     \* what it shows, by namespace or for the inspector
  seen      \* what the properties except, and what never changed

vars == <<plan, left, world, config, stream, task, updates, results, view, seen>>

-----------------------------------------------------------------------------
(* The API server and the streams of kube.                                 *)

NoRows == [o \in Objects |-> None]
Alive(o) == world[o] \notin {Unborn, Gone}

(* managed_resource_types.                                                 *)
ManagedTypes ==
  CASE plan.root = "Deployment" -> {"ReplicaSet", "Pod"}
    [] plan.root = "CronJob"    -> {"Job", "Pod"}
    [] OTHER                    -> {"Pod"}

Kinds == CASE plan.feed = "tree" -> ManagedTypes
           [] plan.feed = "helm" -> {"Secret", "ConfigMap"}
           [] OTHER              -> {"Pod"}

(* What a stream asks for: a namespace, or the pods bound to the node.     *)
Selects(kind, o, form) ==
  /\ form \notin {Unborn, Gone}
  /\ plan.kinds[o] = kind
  /\ plan.feed = "table" /\ plan.scope = "one" => plan.homes[o] \in plan.namespaces
  /\ plan.feed = "node" => form.bound

Event(type, o, form) == [type |-> type, object |-> o, form |-> form]
Mark(type) == Event(type, Root, None)

Listing(kind) ==
  LET found == SetToSeq({o \in Objects : Selects(kind, o, world[o])})
  IN  <<Mark("Init")>>
        \o [i \in DOMAIN found |-> Event("InitApply", found[i], world[found[i]])]
        \o <<Mark("InitDone")>>

(* The watchers refuse a scope that is not that of the resource; one of a  *)
(* custom resource asks the API server which it is.                        *)
Refused ==
  CASE plan.feed # "table"           -> FALSE
    [] plan.watcher = "namespaced"   -> plan.scope = "cluster"
    [] plan.watcher = "cluster"      -> plan.scope = "one"
    [] plan.watcher = "dynamic"      ->
         IF plan.discovered = "namespaced" THEN plan.scope = "cluster"
         ELSE plan.scope = "one"

Send(sent)   == results' = results \o sent
Result(type) == [type |-> type]

Refuses ==
  /\ stream["Pod"].phase = "new" /\ Refused
  /\ stream' = [stream EXCEPT !["Pod"].phase = "broken"]
  /\ task' = [task EXCEPT !["Pod"].alive = FALSE]
  /\ Send(<<Result("Failed")>>)
  /\ UNCHANGED <<plan, left, world, config, updates, view, seen>>

Opens(kind) ==
  /\ stream[kind].phase = "new" /\ ~Refused
  /\ stream' = [stream EXCEPT ![kind] = [phase |-> "open", queue |-> Listing(kind)]]
  /\ UNCHANGED <<plan, left, world, config, task, updates, results, view, seen>>

Spend(what) == left[what] > 0 /\ left' = [left EXCEPT ![what] = @ - 1]

(* The list or the watch fails, or the API cannot be made for the object.  *)
Breaks(kind) ==
  /\ stream[kind].phase \in {"new", "open"}
  /\ Spend("faults")
  /\ stream' = [stream EXCEPT ![kind] =
                  [phase |-> "broken", queue |-> Append(@.queue, Mark("Err"))]]
  /\ UNCHANGED <<plan, world, config, task, updates, results, view, seen>>

(* Others create, change and delete objects.  A pod stays where it was     *)
(* bound, and what has ended does not run again; only one object has the   *)
(* name an inspector watches.                                              *)
Reports(kind, o, form) ==
  IF Selects(kind, o, form) THEN <<Event("Apply", o, form)>>
  ELSE IF Selects(kind, o, world[o]) THEN <<Event("Delete", o, world[o])>>
  ELSE <<>>

MayBecome(o, form) ==
  /\ world[o] # Gone /\ world[o] # form
  /\ form = Gone => Alive(o)
  /\ plan.feed = "node" /\ Alive(o) /\ form # Gone =>
       /\ world[o].bound => form.bound
       /\ world[o].ended => form.ended
  /\ plan.feed = "object" /\ form # Gone => \A p \in Objects \ {o} : ~Alive(p)

(* Objects of which the inspector still believes the last controller.      *)
Released(o, form) ==
  IF plan.feed = "tree" /\ form \notin {Gone, Unborn}
  THEN IF form.owner = None THEN seen.released \cup {o} ELSE seen.released \ {o}
  ELSE seen.released

Write(o, form) ==
  /\ MayBecome(o, form)
  /\ Spend("changes")
  /\ world' = [world EXCEPT ![o] = form]
  /\ stream' = [k \in Kinds |->
                  IF stream[k].phase = "open"
                  THEN [stream[k] EXCEPT !.queue = @ \o Reports(k, o, form)]
                  ELSE stream[k]]
  /\ seen' = [seen EXCEPT !.touched = @ \cup {o}, !.released = Released(o, form)]
  /\ UNCHANGED <<plan, config, task, updates, results, view>>

WriteConfig(data) ==
  /\ plan.feed = "object" /\ data # config
  /\ Spend("changes")
  /\ config' = data
  /\ seen' = [seen EXCEPT !.aged = TRUE]
  /\ UNCHANGED <<plan, world, stream, task, updates, results, view>>

-----------------------------------------------------------------------------
(* The tasks.  `held` are the rows a task keeps; `listed` says that its    *)
(* first list is complete, for the task of an inspector's object that the  *)
(* list had it.                                                            *)

Fresh == [alive |-> TRUE, held |-> NoRows, listed |-> FALSE]

(* The task of a kind takes the event e, the next of its stream.           *)
Takes(kind, e) ==
  /\ task[kind].alive
  /\ stream' = [stream EXCEPT ![kind].queue = Tail(@)]

IsRow(e) == e.type \in {"Apply", "InitApply"}

(* What of an object the tasks can use: the controller among its owners,   *)
(* the node a pod is scheduled to, the release a record encodes.           *)
HasController(form) == form.owner # None
Scheduled(form)     == form.bound
Decodes(form)       == form.decodes

(* What is kept after an event, when every object of the stream is.        *)
Kept(rows, e) ==
  CASE e.type = "Init"   -> NoRows
    [] IsRow(e)          -> [rows EXCEPT ![e.object] = e.form]
    [] e.type = "Delete" -> [rows EXCEPT ![e.object] = None]
    [] OTHER             -> rows

(* ResourceWatchScope: where a row is shown; rows of other namespaces are  *)
(* dropped.                                                                *)
Keys == IF plan.feed = "table" /\ plan.scope # "cluster" THEN plan.namespaces
        ELSE {"whole"}

EventKeys(o) ==
  IF plan.scope = "all" THEN {plan.homes[o]} \cap plan.namespaces ELSE Keys

Replacements(rows) ==
  LET keys == SetToSeq(Keys)
      at(key) == [o \in Objects |-> IF key \in EventKeys(o) THEN rows[o] ELSE None]
  IN  [i \in DOMAIN keys |-> [type |-> "Replaced", key |-> keys[i], rows |-> at(keys[i])]]

Keyed(type, e) ==
  LET keys == SetToSeq(EventKeys(e.object))
  IN  [i \in DOMAIN keys |->
        [type |-> type, key |-> keys[i], object |-> e.object, form |-> e.form]]

(* run_resource_watch: rows are kept while the list comes in, and then     *)
(* replace those shown; changes are passed on one by one.                  *)
TableStep(e) ==
  /\ plan.feed = "table"
  /\ Takes("Pod", e)
  /\ task' = [task EXCEPT !["Pod"] =
       [alive  |-> e.type # "Err",
        held   |-> CASE e.type = "InitApply" -> [@.held EXCEPT ![e.object] = e.form]
                     [] e.type \in {"Init", "InitDone"} -> NoRows
                     [] OTHER -> @.held,
        listed |-> @.listed \/ e.type = "InitDone"]]
  /\ Send(CASE e.type = "Err"      -> <<Result("Failed")>>
            [] e.type = "Apply"    -> Keyed("Added", e)
            [] e.type = "Delete"   -> Keyed("Deleted", e)
            [] e.type = "InitDone" -> Replacements(task["Pod"].held)
            [] OTHER -> <<>>)
  /\ UNCHANGED updates

(* watch_managed_type: only what has a controller becomes a row; a row     *)
(* that loses it stays.  Every event is an update.                         *)
TreeStep(kind, e) ==
  /\ plan.feed = "tree"
  /\ Takes(kind, e)
  /\ task' = [task EXCEPT ![kind] =
       [@ EXCEPT !.alive = e.type # "Err",
                 !.held = IF IsRow(e) /\ ~HasController(e.form) THEN @ ELSE Kept(@, e)]]
  /\ updates' = Append(updates, [kind |-> kind, failed |-> e.type = "Err",
                                 rows |-> task'[kind].held])
  /\ UNCHANGED results

(* is_managed_workload_child.                                              *)
Children == {<<"Deployment", "ReplicaSet">>, <<"CronJob", "Job">>}
              \cup ({"ReplicaSet", "StatefulSet", "DaemonSet", "ReplicationController",
                     "Job"} \X {"Pod"})

(* belongs_to_workload_tree: no child has children whose children have any.*)
Belongs(rows, o) ==
  LET of(p, kind) == <<kind, plan.kinds[p]>> \in Children
      top(p) == rows[p] # None /\ rows[p].owner = Root /\ of(p, plan.root)
  IN  /\ rows[o] # None
      /\ IF rows[o].owner = Root THEN of(o, plan.root)
         ELSE \E p \in Objects : p = rows[o].owner /\ top(p) /\ of(o, plan.kinds[p])

(* The loop of watch_managed_resources: the last rows of each kind, of     *)
(* which those that belong to the workload are sent.                       *)
Combine ==
  /\ plan.feed = "tree" /\ updates # <<>>
  /\ updates' = Tail(updates)
  /\ LET u   == Head(updates)
         all == [o \in Objects |-> IF plan.kinds[o] = u.kind THEN u.rows[o]
                                   ELSE task["all"].held[o]]
         ours == [o \in Objects |-> IF Belongs(all, o) THEN all[o] ELSE None]
     IN  IF u.failed
         THEN Send(<<Result("Failed")>>) /\ UNCHANGED task
         ELSE /\ task' = [task EXCEPT !["all"].held = all]
              /\ Send(<<[type |-> "Managed", rows |-> ours, totals |-> None]>>)
  /\ UNCHANGED <<plan, left, world, config, stream, view, seen>>

(* watch_pods_on_node, NodePodWatchState: totals once all pods are listed. *)
NodeStep(e) ==
  /\ plan.feed = "node"
  /\ Takes("Pod", e)
  /\ LET rows   == IF IsRow(e) /\ ~Scheduled(e.form) THEN [task["Pod"].held EXCEPT ![e.object] = None]
                   ELSE Kept(task["Pod"].held, e)
         listed == \/ e.type = "InitDone"
                   \/ task["Pod"].listed /\ e.type # "Init"
         pods   == {[uid |-> o, form |-> rows[o]] : o \in {p \in Objects : rows[p] # None}}
     IN  /\ task' = [task EXCEPT !["Pod"] =
                       [alive |-> e.type # "Err", held |-> rows, listed |-> listed]]
         /\ updates' = updates
         /\ Send(IF e.type = "Err" THEN <<Result("Failed")>>
                 ELSE <<[type |-> "Managed", rows |-> rows,
                         totals |-> IF listed THEN PodTotals(pods) ELSE None]>>)

(* watch_detail_events.                                                    *)
EventsStep(e) ==
  /\ plan.feed = "events"
  /\ Takes("Pod", e)
  /\ task' = [task EXCEPT !["Pod"] =
                [@ EXCEPT !.alive = e.type # "Err", !.held = Kept(@, e)]]
  /\ Send(IF e.type = "Err" THEN <<Result("Failed")>>
          ELSE <<[type |-> "Events", rows |-> task'["Pod"].held]>>)
  /\ UNCHANGED updates

(* watch_detail_object: the object is found by its name, so another of     *)
(* that name is as good; its environment is read with the data there is.   *)
ObjectStep(e) ==
  /\ plan.feed = "object"
  /\ Takes("Pod", e)
  /\ task' = [task EXCEPT !["Pod"] =
       [@ EXCEPT !.alive  = e.type # "Err",
                 !.listed = e.type = "InitApply" \/ (@ /\ e.type # "Init")]]
  /\ Send(CASE e.type = "Err" -> <<Result("Failed")>>
            [] IsRow(e) -> <<[type |-> "Updated", rows |-> Kept(NoRows, e),
                              environment |-> Environment(e.form.vars, config)]>>
            [] e.type = "Delete" \/ (e.type = "InitDone" /\ ~task["Pod"].listed) ->
                 <<Result("Vanished")>>
            [] OTHER -> <<>>)
  /\ UNCHANGED updates

(* merged_helm_releases: of one revision in both stores the Secret is taken. *)
Merged(secrets, maps) ==
  [o \in Objects |->
     IF /\ maps[o] # None
        /\ \A s \in Objects : secrets[s] = None \/ secrets[s].release # maps[o].release
     THEN maps[o] ELSE secrets[o]]

(* watch_helm_releases: the records of two stores, sent when both have     *)
(* been listed, where a store that fails counts as listed; what cannot be  *)
(* decoded is no record.  (That `initialized` is taken without a change is *)
(* excluded by InitDone being one.)                                        *)
HelmStep(kind, e) ==
  /\ plan.feed = "helm"
  /\ Takes(kind, e)
  /\ LET other == CHOOSE k \in Kinds : k # kind
         reads == IsRow(e) /\ Decodes(e.form)
         held  == IF IsRow(e) /\ ~reads THEN [task[kind].held EXCEPT ![e.object] = None]
                  ELSE Kept(task[kind].held, e)
         changed == \/ reads \/ e.type \in {"InitDone", "Err"}
                    \/ e.type # "Init" /\ held # task[kind].held
         both  == /\ task[kind].listed \/ e.type \in {"InitDone", "Err"}
                  /\ task[other].listed
         all   == [k \in Kinds |-> IF k = kind THEN held ELSE task[k].held]
     IN  /\ task' = [task EXCEPT ![kind] =
                       [alive |-> e.type # "Err", held |-> held,
                        listed |-> @.listed \/ e.type \in {"InitDone", "Err"}]]
         /\ Send((IF e.type = "Err" THEN <<[type |-> "BackendFailed", backend |-> kind]>>
                  ELSE <<>>)
                 \o (IF changed /\ both
                     THEN <<[type |-> "Releases",
                             rows |-> Merged(all["Secret"], all["ConfigMap"])]>>
                     ELSE <<>>))
  /\ UNCHANGED updates

TaskTakes(kind) ==
  /\ stream[kind].queue # <<>>
  /\ LET e == Head(stream[kind].queue)
     IN  /\ \/ kind = "Pod" /\ (TableStep(e) \/ NodeStep(e) \/ EventsStep(e) \/ ObjectStep(e))
            \/ TreeStep(kind, e)
            \/ HelmStep(kind, e)
         /\ seen' = IF plan.feed = "object" /\ IsRow(e) THEN [seen EXCEPT !.aged = FALSE]
                    ELSE seen
  /\ UNCHANGED <<plan, left, world, config, view>>

-----------------------------------------------------------------------------
(* What the user interface makes of the results.                           *)

Blank == [rows |-> NoRows, synced |-> FALSE, errors |-> {}, totals |-> None,
          environment |-> {}, here |-> TRUE]

(* The state of a table, of an inspector, or of the releases of a          *)
(* namespace (of which backend_errors are never taken back).               *)
Drawn(v, r) ==
  CASE r.type = "Replaced"      -> [v EXCEPT !.rows = r.rows, !.synced = TRUE, !.errors = {}]
    [] r.type \in {"Added", "Deleted"} ->
         [v EXCEPT !.rows[r.object] = IF r.type = "Added" THEN r.form ELSE None]
    [] r.type = "Failed"        -> [v EXCEPT !.synced = FALSE, !.errors = {"Pod"}, !.totals = None]
    [] r.type = "Managed"       -> [v EXCEPT !.rows = r.rows, !.totals = r.totals, !.errors = {}]
    [] r.type = "Events"        -> [v EXCEPT !.rows = r.rows, !.errors = {}]
    [] r.type = "Updated"       -> [v EXCEPT !.rows = r.rows, !.errors = {},
                                             !.environment = r.environment]
    [] r.type = "Vanished"      -> [v EXCEPT !.here = FALSE]
    [] r.type = "Releases"      -> [v EXCEPT !.rows = r.rows, !.synced = TRUE]
    [] r.type = "BackendFailed" -> [v EXCEPT !.synced = TRUE, !.errors = @ \cup {r.backend}]

(* A result is for one key or for all; an inspector that was closed takes  *)
(* none.                                                                   *)
Apply ==
  /\ results # <<>>
  /\ results' = Tail(results)
  /\ LET r  == Head(results)
         at == IF r.type \in {"Replaced", "Added", "Deleted"} THEN {r.key} ELSE Keys
     IN  /\ view' = [k \in Keys |-> IF k \in at /\ view[k].here THEN Drawn(view[k], r)
                                    ELSE view[k]]
         /\ seen' = [seen EXCEPT !.masked = @ \/ (r.type = "Managed" /\ view["whole"].errors # {})]
  /\ UNCHANGED <<plan, left, world, config, stream, task, updates>>

(* The rows of the releases page: show_helm_releases_workspace.            *)
Newest(rows) ==
  {rows[o].release : o \in {o \in Objects :
     /\ rows[o] # None
     /\ \A p \in Objects : rows[p] # None /\ rows[p].release[1] = rows[o].release[1] =>
          rows[p].release[2] <= rows[o].release[2]}}

(* The namespace is deselected and selected again: a new watch, and the    *)
(* releases and errors of the last one are still shown.                    *)
WatchAgain ==
  /\ plan.feed = "helm"
  /\ Spend("moves")
  /\ stream' = [k \in Kinds |-> [phase |-> "new", queue |-> <<>>]]
  /\ task' = [k \in DOMAIN task |-> Fresh]
  /\ seen' = [seen EXCEPT !.outdated = @ \cup {k \in Kinds : stream[k].phase = "broken"}]
  /\ UNCHANGED <<plan, world, config, updates, results, view>>

Init ==
  /\ plan \in Plans
  /\ left = plan.left
  /\ world = plan.world /\ config = plan.config
  /\ stream = [k \in Kinds |-> [phase |-> "new", queue |-> <<>>]]
  /\ task = [k \in Kinds \cup {"all"} |-> Fresh]
  /\ updates = <<>> /\ results = <<>>
  /\ view = [k \in Keys |-> Blank]
  /\ seen = [released |-> {}, masked |-> FALSE, aged |-> FALSE, outdated |-> {},
             touched |-> {}]

Change ==
  \/ \E o \in Objects : \E form \in plan.forms[o] \cup {Gone} : Write(o, form)
  \/ \E data \in plan.data : WriteConfig(data)
  \/ \E k \in Kinds : Breaks(k)
  \/ WatchAgain

Step ==
  \/ \E k \in Kinds : Opens(k) \/ TaskTakes(k)
  \/ plan.feed = "table" /\ Refuses
  \/ Combine
  \/ Apply

Next == Change \/ Step

Spec == Init /\ [][Next]_vars

-----------------------------------------------------------------------------
TypeOK ==
  /\ plan \in Plans
  /\ left \in [changes : Nat, faults : Nat, moves : Nat]
  /\ \A o \in Objects : world[o] \in plan.forms[o] \cup {Unborn, Gone}
  /\ config \in plan.data
  /\ DOMAIN stream = Kinds
  /\ \A k \in Kinds : stream[k].phase \in {"new", "open", "broken"}
  /\ \A k \in Kinds : ~task[k].alive => stream[k] = [phase |-> "broken", queue |-> <<>>]
  /\ \A k \in DOMAIN task : \A o \in Objects : task[k].held[o] \in plan.forms[o] \cup {None}
  /\ DOMAIN view = Keys
  /\ \A k \in Keys : /\ view[k].errors \subseteq Kinds
                     /\ \A o \in Objects : view[k].rows[o] \in plan.forms[o] \cup {None}

Resting == /\ updates = <<>> /\ results = <<>>
           /\ \A k \in Kinds : stream[k].phase # "new" /\ stream[k].queue = <<>>

Broken == {k \in Kinds : stream[k].phase = "broken"}
Here(o) == IF Alive(o) THEN world[o] ELSE None
Panel   == view["whole"]

(* What the reader should see of the API server, feed by feed.             *)
TableTrue(os) ==
  \A key \in Keys : \A o \in os :
    view[key].rows[o] = IF key \in {plan.homes[o], "whole"} THEN Here(o) ELSE None

Controlled(o) == Alive(o) /\ world[o].owner # None
TreeTrue ==
  \A o \in Objects \ seen.released :
    LET by == world[o].owner
    IN  IF ~Controlled(o) THEN Panel.rows[o] = None
        ELSE IF by = Root THEN Panel.rows[o] = world[o]
        ELSE IF by \in seen.released THEN TRUE
        ELSE Panel.rows[o] = IF /\ by \in Objects /\ by # Root
                                /\ Alive(by) /\ world[by].owner = Root
                             THEN world[o] ELSE None

(* The requests and limits on the node are what the scheduler reserves.    *)
TotalsTrue ==
  LET pods == {o \in Objects : Panel.rows[o] # None /\ ~Panel.rows[o].ended}
      all(of) == {Reserved(Panel.rows[o].spec, of) : o \in pods}
      total(of) ==
        IF Unknown \in all(of) THEN Unknown
        ELSE LET n == FoldSet(LAMBDA o, sum : sum + Reserved(Panel.rows[o].spec, of), 0, pods)
             IN  IF n > Top THEN Unknown ELSE n
  IN  Panel.totals # None =>
        /\ Panel.totals.requests = total("requests")
        /\ Panel.totals.limits = total("limits")
        /\ Panel.totals.count = Cardinality(pods)

NodeTrue(os) == \A o \in os : Panel.rows[o] = IF Alive(o) /\ world[o].bound THEN world[o]
                                            ELSE None

(* A value shown is the one the container has, unless it is made of what   *)
(* only the node knows, or the data was changed after the pod.             *)
EnvironmentTrue(o) ==
  LET given == Given(world[o].vars, config)
  IN  seen.aged \/
        /\ \A s \in Panel.environment : s.known =>
             s.name \in DOMAIN given /\ given[s.name] \in {s.text, Opaque}
        /\ \A name \in DOMAIN given : \E s \in Panel.environment : s.name = name

ObjectTrue ==
  IF ~Panel.here THEN world[1] = Gone
  ELSE \E o \in Objects : /\ Alive(o) /\ EnvironmentTrue(o)
                          /\ Panel.rows = [NoRows EXCEPT ![o] = world[o]]

Store(kind) == [o \in Objects |-> IF Alive(o) /\ plan.kinds[o] = kind /\ world[o].decodes
                                  THEN world[o] ELSE None]
HelmTrue ==
  /\ Newest(Panel.rows) = {r \in {world[o].release : o \in {o \in Objects : Alive(o) /\ world[o].decodes}} :
       \A o \in Objects : Alive(o) /\ world[o].decodes /\ world[o].release[1] = r[1]
                            => world[o].release[2] <= r[2]}
  /\ \A o \in Objects : Store("Secret")[o] # None => Panel.rows[o] = world[o]

(* When nothing is under way and no watch has failed, what is shown is     *)
(* what the cluster has.                                                   *)
ShownIsTrue ==
  Resting /\ Broken = {} =>
    CASE plan.feed = "table"  -> TableTrue(Objects)
      [] plan.feed = "tree"   -> TreeTrue
      [] plan.feed = "node"   -> NodeTrue(Objects) /\ Panel.totals # None
      [] plan.feed = "events" -> \A o \in Objects : Panel.rows[o] = Here(o)
      [] plan.feed = "object" -> ObjectTrue
      [] plan.feed = "helm"   -> HelmTrue

(* Nothing is called complete before it is: of an object that nobody has   *)
(* touched since, the table, the totals and the releases know.             *)
NothingMissing ==
  LET still == Objects \ seen.touched
  IN  CASE plan.feed = "table" -> (\A k \in Keys : view[k].synced) => TableTrue(still)
        [] plan.feed = "node"  -> TotalsTrue /\ (Panel.totals # None => NodeTrue(still))
        [] plan.feed = "helm"  -> Panel.synced /\ Panel.errors = {} =>
             \A o \in still : Alive(o) /\ world[o].decodes =>
               \E p \in Objects : Panel.rows[p] # None /\ Panel.rows[p].release = world[o].release
        [] OTHER -> TRUE

(* A watch that failed is told of, and nothing else is told.               *)
FailuresTold ==
  Resting =>
    \A k \in Keys :
      /\ Broken # {} /\ view[k].here /\ ~seen.masked => view[k].errors # {}
      /\ plan.feed = "helm" => Broken \subseteq view[k].errors
      /\ view[k].errors # {} => Broken \cup seen.outdated # {}

ShownIsWatched == ShownIsTrue /\ NothingMissing /\ FailuresTold

=============================================================================
