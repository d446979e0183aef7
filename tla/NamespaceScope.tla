---------------------------- MODULE NamespaceScope ----------------------------
(***************************************************************************)
(* The namespace scope of one connected cluster: what its user interface   *)
(* selects and believes is being watched (ui/state/namespaces.rs and the   *)
(* worker results of ui/state/*_results.rs), composed with what the worker *)
(* then really watches.  The two talk over two channels, commands one way  *)
(* and results the other, and only the user interface decides what to ask  *)
(* for: it never learns which of its commands took effect.                 *)
(*                                                                         *)
(* The worker is the promise of ResourceWatches (module WatchScope): a     *)
(* reconcile replaces all sources of its resource, starts that were        *)
(* superseded do not install, and a start may report at any time.          *)
(***************************************************************************)
EXTENDS Integers, Sequences, SequencesExt, FiniteSets

CONSTANTS
  Namespaces,          \* names a namespace of the cluster can have
  Resources,           \* API resources a cluster may have
  Namespaced,          \* those whose objects live in namespaces
  Pods, Nodes,         \* the two with a metrics poller of their own
  Whole,               \* the watch key of a source without a namespace
  NoResource,          \* no API resource is selected
  Scenarios            \* bounds, one of which a behavior starts with: API
                       \* resources the navigator offers, clicks,
                       \* events of the namespace watch, and failures; with
                       \* calm, clicks and namespace events wait for calm, and
                       \* with inOrder commands run in the order of arrival

ASSUME ScopeAssumption ==
  /\ IsFiniteSet(Namespaces)
  /\ Namespaced \subseteq Resources
  /\ Whole \notin Namespaces
  /\ NoResource \notin Resources
  /\ Scenarios \subseteq [offers: SUBSET Resources, calm: BOOLEAN,
                           inOrder: BOOLEAN, clicks: Nat, events: Nat, failures: Nat]

VARIABLES
  loading,     \* UI: the loads still awaited, of "namespaces" and "apis"
  discovered,  \* UI: namespaces
  selected,    \* UI: selected_namespaces
  remembered,  \* UI: the persisted selection of this context
  resource,    \* UI: selected_api_resource
  active,      \* UI: active_watchers
  synced,      \* UI: keys of resource_cache with is_synced
  errors,      \* UI: keys of resource_cache with an error
  metrics,     \* UI: active_pod_metrics, and Whole for node_metrics_active
  metricsApi,  \* UI: resources whose metrics API is available
  commands,    \* commands on their way to, or spawned by, the worker
  results,     \* the result channel
  known,       \* worker: the namespaces the namespace watch last reported
  generation,  \* worker: generation of each resource
  starts,      \* worker: start_reconciled_resource_watch tasks
  watchers,    \* worker: running watcher tasks
  polling,     \* worker: running metrics pollers
  left,        \* what is left of the scenario's bounds
  orphans      \* history: keys that stayed synced when their watch failed,
               \* because they were not selected at that moment

scope   == <<loading, discovered, selected, remembered, resource>>
cache   == <<active, synced, errors, orphans>>
ui      == <<scope, cache, metrics, metricsApi>>
watch   == <<known, generation, starts, watchers>>
worker  == <<watch, polling>>
vars    == <<ui, commands, results, worker, left>>

-----------------------------------------------------------------------------
Keys     == Namespaces \cup {Whole}
WatchKey == Resources \X Keys

(* A source of a reconcile: the key it reports under, the keys it fills.   *)
Source == [key: Keys, covers: SUBSET Keys]
Start  == [resource: Resources, source: Source, generation: Nat,
           pc: {"queued", "checked", "spawned", "announcing"}]
Watcher == [resource: Resources, source: Source, generation: Nat,
            unsent: SUBSET Keys]

Command == [kind: {"reconcile"}, resource: Resources, sources: SUBSET Source]
             \cup [kind: {"start", "stop"}, key: Keys]
Result  == [kind: {"replaced", "started", "failed"},
            resource: Resources, key: Keys]
             \cup [kind: {"nsAdded", "nsDeleted"}, namespace: Namespaces]
             \cup [kind: {"nsReplaced"}, namespaces: SUBSET Namespaces]
             \cup [kind: {"apis"}, restored: Resources \cup {NoResource}]
             \cup [kind: {"noMetrics"}, resource: {Pods, Nodes}]

TypeOK ==
  /\ loading \subseteq {"namespaces", "apis"}
  /\ discovered \subseteq Namespaces
  /\ selected \subseteq Namespaces
  /\ remembered \subseteq Namespaces
  /\ resource \in Resources \cup {NoResource}
  /\ active \subseteq WatchKey
  /\ synced \subseteq WatchKey
  /\ errors \subseteq WatchKey
  /\ orphans \subseteq synced
  /\ metrics \subseteq Keys
  /\ metricsApi \subseteq {Pods, Nodes}
  /\ commands \in Seq(Command)
  /\ results \in Seq(Result)
  /\ known \subseteq Namespaces
  /\ generation \in [Resources -> Nat]
  /\ starts \subseteq Start
  /\ watchers \subseteq Watcher
  /\ polling \subseteq Keys
  /\ left \in [offers: SUBSET Resources, calm: BOOLEAN,
               inOrder: BOOLEAN, clicks: Nat, events: Nat, failures: Nat]

(* A connection was just made: its discovery results are on their way.     *)
Init ==
  /\ loading = {"namespaces", "apis"}
  /\ discovered = {}
  /\ selected = {}
  /\ remembered \in SUBSET Namespaces
  /\ resource = NoResource
  /\ active = {}
  /\ synced = {}
  /\ errors = {}
  /\ orphans = {}
  /\ metrics = {}
  /\ metricsApi = {}
  /\ commands = <<>>
  /\ known \in SUBSET Namespaces
  /\ left \in Scenarios
  /\ \E restored \in left.offers \cup {NoResource} :
       LET namespaces == [kind |-> "nsReplaced", namespaces |-> known]
           apis       == [kind |-> "apis", restored |-> restored]
       IN  results \in {<<namespaces, apis>>, <<apis, namespaces>>}
  /\ generation = [r \in Resources |-> 0]
  /\ starts = {}
  /\ watchers = {}
  /\ polling = {}

-----------------------------------------------------------------------------
(* What the user interface asks for.                                       *)

AllSelected(r, found, chosen) ==
  r \in Namespaced /\ found # {} /\ chosen = found

(* desired in request_selected_resource_watches                            *)
Desired(r, found, chosen) ==
  IF r \notin Namespaced \/ AllSelected(r, found, chosen) THEN {Whole}
                                                           ELSE chosen

(* Mutant: the namespaces of an all-namespaces source are not captured.    *)
SourceOfMutant(r, key, found) == [key |-> key, covers |-> {key}]

SourceOf(r, key, found) ==
  [key |-> key,
   covers |-> IF key = Whole /\ r \in Namespaced THEN found ELSE {key}]

Others(r, keys) == {k \in keys : k[1] # r}
KeysOf(r, keys) == {k[2] : k \in {w \in keys : w[1] = r}}
(* Mutant: the two parts of a watch key swapped.                           *)
UnderMutant(r, keys) == keys \X {r}

Under(r, keys)  == {r} \X keys

(* Mutant: the old scope stays in the cache.                               *)
KeptMutant(r, had, keys) == keys

(* A scope that had sources is dropped from the cache; then the reconcile  *)
(* is sent even with no source, to stop them.                              *)
Kept(r, had, keys) == IF had THEN Others(r, keys) ELSE keys
Sends(had, missing) == had \/ missing # {}

PolledBy(k) == IF k = Whole THEN Nodes ELSE Pods

DesiredMetrics(r, chosen) ==
  IF r \notin metricsApi' THEN {} ELSE IF r = Pods THEN chosen ELSE {Whole}

(* reconcile_pod_metrics, reconcile_node_metrics                           *)
MetricsCommands(from, to) ==
  LET Each(kind, keys) == SetToSeq([kind: {kind}, key: keys])
  IN  Each("stop", from \ to) \o Each("start", to \ from)

(* request_selected_resource_watches: `act` and the cache it starts from   *)
(* are those the caller left.                                              *)
Request(r, found, chosen, act) ==
  LET desired  == Desired(r, found, chosen)
      current  == KeysOf(r, act)
      had      == current # {}
      missing  == IF AllSelected(r, found, chosen) THEN desired
                  ELSE desired \ KeysOf(r, Kept(r, had, synced))
      wanted   == DesiredMetrics(r, chosen)
      reconcile == [kind |-> "reconcile", resource |-> r,
                    sources |-> {SourceOf(r, k, found) : k \in missing}]
  IN  /\ metrics' = wanted
      /\ IF current = desired
         THEN /\ active' = act
              /\ UNCHANGED <<synced, errors, orphans>>
              /\ commands' = commands \o MetricsCommands(metrics, wanted)
         ELSE /\ active' = Others(r, act) \cup Under(r, missing)
              /\ synced' = Kept(r, had, synced)
              /\ errors' = Kept(r, had, errors)
              /\ orphans' = Kept(r, had, orphans)
              /\ commands' = commands
                   \o (IF Sends(had, missing) THEN <<reconcile>> ELSE <<>>)
                   \o MetricsCommands(metrics, wanted)

RequestIfSelected(r, found, chosen, act) ==
  IF r = NoResource THEN UNCHANGED <<cache, metrics, commands>>
                    ELSE Request(r, found, chosen, act)

(* reconcile_after_namespace_change                                        *)
NamespacesChanged(found, chosen) ==
  RequestIfSelected(resource, found, chosen,
    IF resource \in Namespaced THEN active \ {<<resource, Whole>>} ELSE active)

-----------------------------------------------------------------------------
(* The user.                                                               *)

Initializing == \E w \in watchers : w.unsent # {}
Quiet == commands = <<>> /\ results = <<>> /\ starts = {} /\ ~Initializing

Uses(bound) ==
  /\ left[bound] > 0
  /\ left' = [left EXCEPT ![bound] = @ - 1]

UserActs ==
  /\ loading = {}
  /\ left.calm => Quiet
  /\ Uses("clicks")
  /\ UNCHANGED <<loading, discovered, metricsApi, results, worker>>

(* Mutant: the new selection is not persisted.                             *)
ChangeSelectionMutant(chosen) ==
  /\ selected' = chosen
  /\ UNCHANGED <<remembered, resource>>
  /\ RequestIfSelected(resource, discovered, chosen, active)

ChangeSelection(chosen) ==
  /\ selected' = chosen
  /\ remembered' = chosen
  /\ UNCHANGED resource
  /\ RequestIfSelected(resource, discovered, chosen, active)

ToggleNamespace ==
  /\ UserActs
  /\ \E n \in discovered :
       ChangeSelection(IF n \in selected THEN selected \ {n}
                                         ELSE selected \cup {n})

ReplaceSelectedNamespaces ==
  /\ UserActs
  /\ \E n \in discovered : ChangeSelection({n})

SelectAllNamespaces      == UserActs /\ ChangeSelection(discovered)
ClearSelectedNamespaces  == UserActs /\ ChangeSelection({})

(* select_api_resource: the watches of the resource left stay active.      *)
SelectResource(r) ==
  /\ resource' = r
  /\ UNCHANGED <<selected, remembered>>
  /\ Request(r, discovered, selected, active)

SelectApiResource == UserActs /\ \E r \in left.offers : SelectResource(r)

(* What the workspace shows: selected_watch_error and, without an error,   *)
(* selected_watches_are_loading.                                           *)
Needed(r) == IF r \in Namespaced THEN selected ELSE {Whole}
Shown     == IF resource = NoResource THEN {}
                                      ELSE Under(resource, Needed(resource))
ErrorShown == Shown \cap errors # {}

(* retry_selected_load, from the error of a connected workspace.           *)
RetrySelectedLoad ==
  /\ UserActs
  /\ ErrorShown
  /\ UNCHANGED <<selected, remembered, resource>>
  /\ Request(resource, discovered, selected, active)

-----------------------------------------------------------------------------
(* The user interface applies the next result.                             *)

Received(kind) ==
  /\ results # <<>>
  /\ Head(results).kind = kind
  /\ results' = Tail(results)
  /\ UNCHANGED <<worker, left>>

Received1 == <<Head(results).resource, Head(results).key>>

(* KubernetesResourcesReplaced                                             *)
ApplyReplaced ==
  /\ Received("replaced")
  /\ synced' = synced \cup {Received1}
  /\ errors' = errors \ {Received1}
  /\ orphans' = orphans \ {Received1}
  /\ UNCHANGED <<scope, active, metrics, metricsApi, commands>>

(* KubernetesResourceWatchStarted                                          *)
ApplyStarted ==
  /\ Received("started")
  /\ active' = active \cup {Received1}
  /\ UNCHANGED <<scope, synced, errors, orphans, metrics, metricsApi, commands>>

(* resource_watch_failed: the failure of an all-namespaces watch is shown  *)
(* in every namespace selected now.                                        *)
ApplyFailed ==
  /\ Received("failed")
  /\ LET r == Head(results).resource
         all == Head(results).key = Whole /\ r \in Namespaced
         failed == IF all THEN Under(r, selected) ELSE {Received1}
     IN  /\ active' = active \ {Received1}
         /\ synced' = synced \ failed
         /\ errors' = errors \cup failed
         /\ orphans' = (orphans \cup (IF all THEN {k \in synced : k[1] = r}
                                             ELSE {})) \ failed
  /\ UNCHANGED <<scope, metrics, metricsApi, commands>>

(* KubernetesNamespacesAdded, sent for a changed namespace too             *)
ApplyNamespaceAdded ==
  /\ Received("nsAdded")
  /\ discovered' = discovered \cup {Head(results).namespace}
  /\ UNCHANGED <<loading, selected, remembered, resource, metricsApi>>
  /\ NamespacesChanged(discovered', selected)

(* KubernetesNamespacesDeleted                                             *)
ApplyNamespaceDeleted ==
  /\ Received("nsDeleted")
  /\ LET n == Head(results).namespace
     IN  /\ discovered' = discovered \ {n}
         /\ selected' = selected \ {n}
         /\ remembered' = remembered \ {n}
  /\ UNCHANGED <<loading, resource, metricsApi>>
  /\ NamespacesChanged(discovered', selected')

(* KubernetesNamespacesReplaced and restore_selected_namespaces            *)
ApplyNamespacesReplaced ==
  /\ Received("nsReplaced")
  /\ discovered' = Head(results).namespaces
  /\ loading' = loading \ {"namespaces"}
  /\ remembered' = remembered \cap discovered'
  /\ selected' = remembered'
  /\ UNCHANGED <<resource, metricsApi>>
  /\ NamespacesChanged(discovered', selected')

(* KubernetesApisLoaded, and the resource it restores                      *)
ApplyApisLoaded ==
  /\ Received("apis")
  /\ loading' = loading \ {"apis"}
  /\ metricsApi' \in SUBSET ({Pods, Nodes} \cap left.offers)
  /\ IF Head(results).restored = NoResource
     THEN UNCHANGED <<resource, selected, remembered, cache, metrics, commands>>
     ELSE SelectResource(Head(results).restored)
  /\ UNCHANGED discovered

(* PodMetricsApiUnavailable, NodeMetricsApiUnavailable                     *)
ApplyMetricsUnavailable ==
  /\ Received("noMetrics")
  /\ LET r    == Head(results).resource
         kept == {k \in metrics : PolledBy(k) # r}
     IN  IF r \in metricsApi
         THEN /\ metricsApi' = metricsApi \ {r}
              /\ metrics' = kept
              /\ commands' = commands \o MetricsCommands(metrics, kept)
         ELSE UNCHANGED <<metricsApi, metrics, commands>>
  /\ UNCHANGED <<scope, cache>>

-----------------------------------------------------------------------------
(* The worker.                                                             *)

Report(kind, w) ==
  results' = Append(results, [kind |-> kind, resource |-> w.resource,
                              key |-> w.source.key])

(* The command at position i runs: spawned commands run in any order.      *)
Takes(i) ==
  /\ i = 1 \/ ~left.inOrder
  /\ commands' = RemoveAt(commands, i)

Installed(w) ==
  ~\E s \in starts : /\ s.pc = "spawned"
                     /\ s.resource = w.resource
                     /\ s.source = w.source
                     /\ s.generation = w.generation

(* ReconcileResourceWatches: what is installed is aborted, what is not yet *)
(* installed will find itself superseded.                                  *)
ExecuteReconcile(i) ==
  /\ commands[i].kind = "reconcile"
  /\ Takes(i)
  /\ LET r == commands[i].resource
     IN  /\ generation' = [generation EXCEPT ![r] = @ + 1]
         /\ watchers' = {w \in watchers : w.resource # r \/ ~Installed(w)}
         /\ starts' = starts \cup
              [resource: {r}, source: commands[i].sources,
               generation: {generation[r] + 1}, pc: {"queued"}]
  /\ UNCHANGED <<ui, results, known, polling, left>>

(* StartPodMetricsWatch, StartNodeMetricsWatch and their stops             *)
ExecuteMetrics(i) ==
  /\ commands[i].kind \in {"start", "stop"}
  /\ Takes(i)
  /\ polling' = IF commands[i].kind = "start" THEN polling \cup {commands[i].key}
                                              ELSE polling \ {commands[i].key}
  /\ UNCHANGED <<ui, results, watch, left>>

IsCurrent(s) == s.generation = generation[s.resource]
Moves(s, pc) == starts' = (starts \ {s}) \cup {[s EXCEPT !.pc = pc]}
WatcherOf(s) == [resource |-> s.resource, source |-> s.source,
                 generation |-> s.generation, unsent |-> s.source.covers]

(* The last generation check before the watcher is made.                   *)
CheckStart(s) ==
  /\ s.pc = "queued"
  /\ IF IsCurrent(s) THEN Moves(s, "checked") ELSE starts' = starts \ {s}
  /\ UNCHANGED <<ui, commands, results, known, generation, watchers, polling,
                 left>>

SpawnWatcher(s) ==
  /\ s.pc = "checked"
  /\ Moves(s, "spawned")
  /\ watchers' = watchers \cup {WatcherOf(s)}
  /\ UNCHANGED <<ui, commands, results, known, generation, polling, left>>

StartFails(s) ==
  /\ s.pc = "checked"
  /\ Uses("failures")
  /\ starts' = starts \ {s}
  /\ Report("failed", s)
  /\ UNCHANGED <<ui, commands, known, generation, watchers, polling>>

InstallWatch(s) ==
  /\ s.pc = "spawned"
  /\ IF IsCurrent(s)
     THEN /\ Moves(s, "announcing")
          /\ UNCHANGED watchers
     ELSE /\ starts' = starts \ {s}
          /\ watchers' = {w \in watchers : [w EXCEPT !.unsent = {}]
                                             # [WatcherOf(s) EXCEPT !.unsent = {}]}
  /\ UNCHANGED <<ui, commands, results, known, generation, polling, left>>

(* The result of an installed start is sent without another check.         *)
AnnounceWatch(s) ==
  /\ s.pc = "announcing"
  /\ starts' = starts \ {s}
  /\ Report("started", s)
  /\ UNCHANGED <<ui, commands, known, generation, watchers, polling, left>>

(* send_initial_replacements, one message at a time                        *)
SendReplaced(w) ==
  \E k \in w.unsent :
    /\ watchers' = (watchers \ {w}) \cup {[w EXCEPT !.unsent = @ \ {k}]}
    /\ results' = Append(results, [kind |-> "replaced",
                                   resource |-> w.resource, key |-> k])
    /\ UNCHANGED <<ui, commands, known, generation, starts, polling, left>>

WatcherFails(w) ==
  /\ Uses("failures")
  /\ watchers' = watchers \ {w}
  /\ Report("failed", w)
  /\ UNCHANGED <<ui, commands, known, generation, starts, polling>>

(* A poller that finds no metrics API reports it and ends.                 *)
PollerEnds(k) ==
  /\ Uses("failures")
  /\ polling' = polling \ {k}
  /\ results' = Append(results, [kind |-> "noMetrics",
                                 resource |-> PolledBy(k)])
  /\ UNCHANGED <<ui, commands, watch>>

(* watch_namespaces: an object applied, an object deleted, a new list      *)
NamespaceEvent ==
  /\ left.calm => Quiet
  /\ Uses("events")
  /\ \/ \E n \in Namespaces :
          /\ known' = known \cup {n}
          /\ results' = Append(results, [kind |-> "nsAdded", namespace |-> n])
     \/ \E n \in known :
          /\ known' = known \ {n}
          /\ results' = Append(results, [kind |-> "nsDeleted", namespace |-> n])
     \/ \E listed \in SUBSET Namespaces :
          /\ known' = listed
          /\ results' = Append(results, [kind |-> "nsReplaced",
                                         namespaces |-> listed])
  /\ UNCHANGED <<ui, commands, generation, starts, watchers, polling>>

-----------------------------------------------------------------------------
UserStep ==
  \/ ToggleNamespace \/ ReplaceSelectedNamespaces \/ SelectAllNamespaces
  \/ ClearSelectedNamespaces \/ SelectApiResource \/ RetrySelectedLoad
ApplyStep ==
  \/ ApplyReplaced \/ ApplyStarted \/ ApplyFailed \/ ApplyNamespaceAdded
  \/ ApplyNamespaceDeleted \/ ApplyNamespacesReplaced \/ ApplyApisLoaded
  \/ ApplyMetricsUnavailable
CommandStep == \E i \in DOMAIN commands : ExecuteReconcile(i) \/ ExecuteMetrics(i)
StartStep   == \E s \in starts : \/ CheckStart(s) \/ SpawnWatcher(s)
                                 \/ InstallWatch(s) \/ AnnounceWatch(s)
ListStep    == \E w \in watchers : SendReplaced(w)
Failure     == \/ \E s \in starts : StartFails(s)
               \/ \E w \in watchers : WatcherFails(w)
               \/ \E k \in polling : PollerEnds(k)

Next == \/ UserStep \/ ApplyStep \/ CommandStep \/ StartStep \/ ListStep
        \/ Failure \/ NamespaceEvent

Spec == Init /\ [][Next]_vars

(* Frames drain results, spawned tasks run, and the API server answers     *)
(* initial lists: it is enough that one of them goes on while one can.     *)
(* Nobody has to click or to fail.                                         *)
SystemStep == ApplyStep \/ CommandStep \/ StartStep \/ ListStep

FairSpec == Spec /\ WF_vars(SystemStep)

-----------------------------------------------------------------------------
(* Properties.                                                             *)

Covered(r) == UNION {w.source.covers : w \in {v \in watchers : v.resource = r}}

(* The scope shown is watched: once everything settled, every key of the   *)
(* selected resource is covered by a running watcher or shows an error,    *)
(* except for the keys given.                                              *)
WatchedBut(keys) ==
  Quiet => Shown \subseteq keys \cup errors
             \cup (IF resource = NoResource THEN {}
                   ELSE Under(resource, Covered(resource)))

SelectionIsWatched == WatchedBut({})

(* ... and nothing outside that scope keeps a watch of the selected        *)
(* resource open.                                                          *)
NothingElseWatched ==
  Quiet /\ resource # NoResource =>
    Covered(resource) \subseteq Needed(resource)

(* The metrics pollers that run are those the selection calls for.  (Where *)
(* the metrics API is gone a poller that was started late ends by itself.) *)
MetricsMatchSelection ==
  Quiet => {k \in polling : PolledBy(k) \in metricsApi} = metrics

(* Where the interface waits for calm, what is watched and polled after a  *)
(* click settled is exactly the scope it shows, in whatever order the      *)
(* worker ran the commands, and although it never says what took effect.   *)
(* The exception are orphans: the failure of an all-namespaces watch marks *)
(* the namespaces selected at that moment only.  If the user had gone to   *)
(* another resource and changed the selection meanwhile, the other         *)
(* namespaces stay synchronized, and to come back to them asks for nothing.*)
WatchedExactly ==
  left.calm =>
    WatchedBut(orphans) /\ NothingElseWatched /\ MetricsMatchSelection

(* What is persisted for the context is what is selected, and a namespace  *)
(* that is gone is never left selected.                                    *)
RememberedIsSelected ==
  "namespaces" \notin loading =>
    selected = remembered /\ selected \subseteq discovered

(* When clicks that waited for calm stop, loading ends: every key shown is *)
(* synchronized or shows an error.                                         *)
SelectionLoads == <>[](left.calm => Shown \subseteq synced \cup errors)

=============================================================================
