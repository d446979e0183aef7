---------------------------- MODULE ClusterSession ----------------------------
(***************************************************************************)
(* How the contexts of the kubeconfig become connected clusters: what the  *)
(* user interface knows of each connection and of its two discovery loads  *)
(* (ui/state/cluster_operations.rs, cluster_results.rs), the runtime       *)
(* thread of each cluster that executes ConnectToCluster                   *)
(* (worker/cluster_commands.rs), and the two tasks a connection owns, its  *)
(* namespace watch and its API discovery.                                  *)
(*                                                                         *)
(* A result names its cluster and not the connection it comes from.  The   *)
(* model numbers the connections (`attempt`) to state that the data of one *)
(* is never taken for that of another; the program has no such number.     *)
(***************************************************************************)
EXTENDS Integers, Sequences, SequencesExt, FiniteSets

CONSTANTS
  Contexts,     \* context names a kubeconfig can hold
  NoContext,    \* no context is selected, current or remembered
  MaxFailures   \* bound: connections and discovery loads that fail

ASSUME SessionAssumption ==
  /\ NoContext \notin Contexts
  /\ MaxFailures \in Nat

VARIABLES
  clusters,     \* UI: the clusters listed, by context
  selected,     \* UI: selected_cluster
  remembered,   \* UI: last_selected_context, persisted
  channel,      \* per cluster, the commands sent to its runtime
  phase,        \* per cluster, what its runtime thread is doing
  inFlight,     \* per cluster, how many spawned commands run
  connections,  \* worker: clusters with an open ClusterConnection
  feeds,        \* worker: discovery tasks of the open connections
  results,      \* the result channel
  attempt,      \* history: connections opened so far, per cluster
  refused,      \* history: clusters that refused a command, not connected
  failures      \* how much of MaxFailures was used

ui      == <<clusters, selected, remembered>>
runtime == <<channel, phase, inFlight>>
session == <<connections, feeds, attempt>>
vars    == <<ui, runtime, session, results, refused, failures>>

-----------------------------------------------------------------------------
Load    == [state: {"loading", "ready", "failed"}, from: Nat]
Cluster == [connection: {"disconnected", "connecting", "connected", "failed"},
            namespaces: Load, apis: Load]
Feed    == [cluster: Contexts, of: {"namespaces", "apis"}, from: Nat,
            listed: BOOLEAN]
Result  == {r \in [kind: {"clusters"}, contexts: SUBSET Contexts,
                   current: Contexts \cup {NoContext}] :
              r.current \in r.contexts \cup {NoContext}}
             \cup [kind: {"created", "connectFailed"}, cluster: Contexts]
             \cup [kind: {"loaded", "loadFailed"}, cluster: Contexts,
                   of: {"namespaces", "apis"}, from: Nat]
Phase   == {"receiving", "draining", "connecting", "opened", "inserted",
            "failed"}

TypeOK ==
  /\ DOMAIN clusters \subseteq Contexts
  /\ \A k \in DOMAIN clusters : clusters[k] \in Cluster
  /\ selected \in DOMAIN clusters \cup {NoContext}
  /\ remembered \in Contexts \cup {NoContext}
  /\ channel \in [Contexts -> Seq({"connect", "use"})]
  /\ phase \in [Contexts -> Phase]
  /\ inFlight \in [Contexts -> Nat]
  /\ connections \subseteq Contexts
  /\ feeds \subseteq Feed
  /\ results \in Seq(Result)
  /\ attempt \in [Contexts -> Nat]
  /\ refused \subseteq Contexts
  /\ failures \in Nat

Unloaded == [state |-> "loading", from |-> 0]

(* ClusterState::new and ClusterState::reset_for_connection                *)
NewCluster   == [connection |-> "disconnected",
                 namespaces |-> Unloaded, apis |-> Unloaded]
ResetCluster == [NewCluster EXCEPT !.connection = "connecting"]

(* The worker was started: the result of its LoadClusters is on its way.   *)
Init ==
  /\ clusters = [k \in {} |-> NewCluster]
  /\ selected = NoContext
  /\ remembered \in Contexts \cup {NoContext}
  /\ channel = [k \in Contexts |-> <<>>]
  /\ phase = [k \in Contexts |-> "receiving"]
  /\ inFlight = [k \in Contexts |-> 0]
  /\ connections = {}
  /\ feeds = {}
  /\ \E contexts \in SUBSET Contexts :
       \E current \in contexts \cup {NoContext} :
         results = <<[kind |-> "clusters", contexts |-> contexts,
                      current |-> current]>>
  /\ attempt = [k \in Contexts |-> 0]
  /\ refused = {}
  /\ failures = 0

-----------------------------------------------------------------------------
(* Commands of the user interface.                                         *)

Send(k, command) == channel' = [channel EXCEPT ![k] = Append(@, command)]

(* Mutants: a cluster that is connecting, or connected, is connected again.*)
BusyMutantConnecting(c) == c.connection = "connected"
BusyMutantConnected(c)  == c.connection = "connecting"

Busy(c) == c.connection \in {"connecting", "connected"}

(* select_cluster_inner, for the clusters listed                           *)
Select(listed, k) ==
  /\ selected' = k
  /\ IF Busy(listed[k])
     THEN clusters' = listed /\ UNCHANGED channel
     ELSE clusters' = [listed EXCEPT ![k] = ResetCluster] /\ Send(k, "connect")

(* A click on the cluster rail.                                            *)
SelectCluster(k) ==
  /\ k \in DOMAIN clusters
  /\ remembered' = k
  /\ Select(clusters, k)
  /\ UNCHANGED <<phase, inFlight, session, results, refused, failures>>

Loads(c) == {c.namespaces.state, c.apis.state}

(* What the workspace shows with a Retry button ...                        *)
ErrorShown(k) ==
  /\ k \in DOMAIN clusters
  /\ \/ clusters[k].connection = "failed"
     \/ clusters[k].connection = "connected" /\ "failed" \in Loads(clusters[k])

(* ... and retry_selected_load behind that button.                         *)
RetrySelectedLoad ==
  /\ ErrorShown(selected)
  /\ Select(clusters, selected)
  /\ UNCHANGED <<remembered, phase, inFlight, session, results, refused,
                 failures>>

-----------------------------------------------------------------------------
(* Results applied by the user interface.                                  *)

Received(kind) ==
  /\ results # <<>>
  /\ Head(results).kind = kind
  /\ results' = Tail(results)
  /\ UNCHANGED <<phase, inFlight, session, refused, failures>>

Preferred(contexts, current) ==
  IF remembered \in contexts THEN remembered ELSE current

(* apply_kubernetes_clusters                                               *)
ApplyClusters ==
  /\ Received("clusters")
  /\ LET listed    == [k \in Head(results).contexts |-> NewCluster]
         preferred == Preferred(Head(results).contexts, Head(results).current)
     IN  IF preferred \in Head(results).contexts
         THEN Select(listed, preferred)
         ELSE /\ clusters' = listed
              /\ selected' = preferred
              /\ UNCHANGED channel
  /\ UNCHANGED remembered

Becomes(k, connection) ==
  clusters' = [clusters EXCEPT ![k].connection = connection]

(* KubernetesClusterConnectionCreated, ClusterConnectionFailed             *)
ApplyConnection ==
  /\ \/ Received("created")       /\ Becomes(Head(results).cluster, "connected")
     \/ Received("connectFailed") /\ Becomes(Head(results).cluster, "failed")
  /\ UNCHANGED <<selected, remembered, channel>>

Applied(state) ==
  clusters' = [clusters EXCEPT ![Head(results).cluster][Head(results).of] =
                 [state |-> state, from |-> Head(results).from]]

(* KubernetesNamespacesReplaced, KubernetesApisLoaded: the latter restores *)
(* the resource last selected, if any, whose watches the worker is then    *)
(* asked for; the former asks for them when that resource came first.      *)
ApplyLoaded ==
  /\ Received("loaded")
  /\ Applied("ready")
  /\ \/ UNCHANGED channel
     \/ Send(Head(results).cluster, "use")
  /\ UNCHANGED <<selected, remembered>>

(* KubernetesNamespacesLoadFailed, KubernetesApisLoadFailed                *)
ApplyLoadFailed ==
  /\ Received("loadFailed")
  /\ Applied("failed")
  /\ UNCHANGED <<selected, remembered, channel>>

-----------------------------------------------------------------------------
(* The runtime of cluster k: ClusterWorkerRuntime::run.                    *)

(* Mutant: the loop goes on receiving while a ConnectToCluster executes.   *)
TakesMutant(k, command) ==
  /\ channel[k] # <<>>
  /\ Head(channel[k]) = command
  /\ channel' = [channel EXCEPT ![k] = Tail(@)]

Takes(k, command) ==
  /\ phase[k] = "receiving"
  /\ channel[k] # <<>>
  /\ Head(channel[k]) = command
  /\ channel' = [channel EXCEPT ![k] = Tail(@)]

Enters(k, p) == phase' = [phase EXCEPT ![k] = p]
Report(result) == results' = Append(results, result)
Fails == failures < MaxFailures /\ failures' = failures + 1

(* ConnectToCluster serializes_session_lifecycle                           *)
ReceiveConnect(k) ==
  /\ Takes(k, "connect")
  /\ Enters(k, "draining")
  /\ UNCHANGED <<ui, inFlight, session, results, refused, failures>>

(* drain_commands, then stop_cluster: dropping the connection aborts its   *)
(* discovery tasks.                                                        *)
StopCluster(k) ==
  /\ phase[k] = "draining"
  /\ inFlight[k] = 0
  /\ Enters(k, "connecting")
  /\ connections' = connections \ {k}
  /\ feeds' = {f \in feeds : f.cluster # k}
  /\ UNCHANGED <<ui, channel, inFlight, attempt, results, refused, failures>>

(* ClusterConnection::new spawns the discovery tasks before it returns.    *)
OpenConnection(k) ==
  /\ phase[k] = "connecting"
  /\ Enters(k, "opened")
  /\ attempt' = [attempt EXCEPT ![k] = @ + 1]
  /\ feeds' = feeds \cup [cluster: {k}, of: {"namespaces", "apis"},
                          from: {attempt'[k]}, listed: {FALSE}]
  /\ UNCHANGED <<ui, channel, inFlight, connections, results, refused,
                 failures>>

OpenFails(k) ==
  /\ phase[k] = "connecting"
  /\ Enters(k, "failed")
  /\ Fails
  /\ UNCHANGED <<ui, channel, inFlight, session, results, refused>>

InsertConnection(k) ==
  /\ phase[k] = "opened"
  /\ Enters(k, "inserted")
  /\ connections' = connections \cup {k}
  /\ UNCHANGED <<ui, channel, inFlight, feeds, attempt, results, refused,
                 failures>>

(* Mutant: only a connection that was made is reported.                    *)
OutcomeMutant(k) ==
  IF phase[k] = "inserted" THEN <<[kind |-> "created", cluster |-> k]>> ELSE <<>>

(* dispatch_command sends the result of the command.                       *)
Outcome(k) ==
  <<[kind |-> IF phase[k] = "inserted" THEN "created" ELSE "connectFailed",
     cluster |-> k]>>

ReportConnection(k) ==
  /\ phase[k] \in {"inserted", "failed"}
  /\ Enters(k, "receiving")
  /\ results' = results \o Outcome(k)
  /\ UNCHANGED <<ui, channel, inFlight, session, refused, failures>>

(* Any other command is spawned.                                           *)
ReceiveUse(k) ==
  /\ Takes(k, "use")
  /\ inFlight' = [inFlight EXCEPT ![k] = @ + 1]
  /\ UNCHANGED <<ui, phase, session, results, refused, failures>>

(* It starts with client_for_cluster, which fails without a connection.    *)
RunUse(k) ==
  /\ inFlight[k] > 0
  /\ inFlight' = [inFlight EXCEPT ![k] = @ - 1]
  /\ refused' = IF k \in connections THEN refused ELSE refused \cup {k}
  /\ UNCHANGED <<ui, channel, phase, session, results, failures>>

-----------------------------------------------------------------------------
(* The discovery tasks: watch_namespaces and load_api_resources.           *)

About(f, kind) == [kind |-> kind, cluster |-> f.cluster, of |-> f.of,
                   from |-> f.from]

(* The initial list.  The namespace watch goes on, its later events belong *)
(* to NamespaceScope; API discovery is over.                               *)
FeedLists(f) ==
  /\ ~f.listed
  /\ Report(About(f, "loaded"))
  /\ feeds' = (feeds \ {f})
       \cup (IF f.of = "apis" THEN {} ELSE {[f EXCEPT !.listed = TRUE]})
  /\ UNCHANGED <<ui, runtime, connections, attempt, refused, failures>>

(* The first error ends the task, for the namespace watch at any time.     *)
FeedFails(f) ==
  /\ Fails
  /\ Report(About(f, "loadFailed"))
  /\ feeds' = feeds \ {f}
  /\ UNCHANGED <<ui, runtime, connections, attempt, refused>>

-----------------------------------------------------------------------------
UserStep    == (\E k \in Contexts : SelectCluster(k)) \/ RetrySelectedLoad
ApplyStep   == ApplyClusters \/ ApplyConnection \/ ApplyLoaded \/ ApplyLoadFailed
RuntimeStep(k) ==
  \/ ReceiveConnect(k) \/ StopCluster(k) \/ OpenConnection(k) \/ OpenFails(k)
  \/ InsertConnection(k) \/ ReportConnection(k) \/ ReceiveUse(k)
CommandStep(k) == RunUse(k)
FeedStep    == \E f \in feeds : FeedLists(f) \/ FeedFails(f)
FeedAnswers == \E f \in feeds : ~f.listed /\ (FeedLists(f) \/ FeedFails(f))

Next ==
  \/ UserStep
  \/ ApplyStep
  \/ \E k \in Contexts : RuntimeStep(k) \/ CommandStep(k)
  \/ FeedStep

Spec == Init /\ [][Next]_vars

(* Frames apply results, every runtime thread and its tasks keep running,  *)
(* and the API server answers or refuses each initial list.                *)
FairSpec ==
  /\ Spec
  /\ WF_vars(ApplyStep)
  /\ \A k \in Contexts : WF_vars(RuntimeStep(k)) /\ WF_vars(CommandStep(k))
  /\ WF_vars(FeedAnswers)

(* A user who presses Retry as long as there is such a button.             *)
PatientSpec == FairSpec /\ WF_vars(RetrySelectedLoad)

-----------------------------------------------------------------------------
(* Properties.                                                             *)

(* Connects of cluster k that are queued, executing, or reported but not   *)
(* yet applied.                                                            *)
Outstanding(k) ==
  Cardinality({i \in DOMAIN channel[k] : channel[k][i] = "connect"})
    + (IF phase[k] = "receiving" THEN 0 ELSE 1)
    + Cardinality({i \in DOMAIN results :
                     /\ results[i].kind \in {"created", "connectFailed"}
                     /\ results[i].cluster = k})

Connecting(k) == k \in DOMAIN clusters /\ clusters[k].connection = "connecting"

(* However the user clicks, a cluster has one ConnectToCluster under way   *)
(* while it is shown as connecting and none otherwise: no connection is    *)
(* torn down by a second one nobody asked for, and "connecting" always has *)
(* an answer to wait for.                                                  *)
OneConnectAtATime ==
  \A k \in Contexts : Outstanding(k) = (IF Connecting(k) THEN 1 ELSE 0)

(* A cluster shown as connected is connected in the worker, and what is    *)
(* shown of it was discovered by that connection and by no earlier one,    *)
(* although results do not say which connection they come from.            *)
ShownIsCurrent ==
  \A k \in DOMAIN clusters :
    LET c == clusters[k]
    IN  /\ c.connection = "connected" => k \in connections
        /\ \A load \in {c.namespaces, c.apis} :
             load.state # "loading" => load.from = attempt[k]

(* Discovery starts before the connection is registered, so its results    *)
(* can make the user interface ask for watches early: those commands still *)
(* never run before the connection is there.                               *)
NoCommandRefused == refused = {}

Loading(k) ==
  /\ k \in DOMAIN clusters
  /\ \/ clusters[k].connection = "connecting"
     \/ clusters[k].connection = "connected" /\ "loading" \in Loads(clusters[k])

(* Connecting, and then loading cluster data, ends: with the workspace or  *)
(* with an error, also when other clusters are selected meanwhile.         *)
LoadingEnds == \A k \in Contexts : []<>~Loading(k)

(* An error shown with a Retry button goes away when what caused it is     *)
(* over and the user presses the button.                                   *)
RetryRecovers ==
  \A k \in Contexts : ErrorShown(k) /\ selected = k ~>
                        ~ErrorShown(k) \/ selected # k

=============================================================================
