--------------------------- MODULE ResourceWatches ---------------------------
(***************************************************************************)
(* The worker side of the resource watches of one cluster: the command     *)
(* loop of its runtime thread (worker/worker_runtime.rs), the execution of *)
(* ReconcileResourceWatches and of the start tasks it spawns               *)
(* (worker/watch_commands.rs), and the registry that decides which watch   *)
(* may be installed (worker/worker_state.rs).                              *)
(*                                                                         *)
(* Every `await` on a lock, a semaphore or the network is a point where    *)
(* other tasks of the multi-threaded runtime run, so the code between two  *)
(* such points is one action.  An aborted task is gone at once: the model  *)
(* does not keep the bounded join of abort_task.                           *)
(***************************************************************************)
EXTENDS Integers, Sequences, FiniteSets

CONSTANTS
  Apis,           \* the API resources that can be watched
  Scopes,         \* the namespaces (or the whole cluster) a watch can cover
  SlotLimit,      \* permits of the initialization semaphore, 16 in the code
  MaxReconciles,  \* bound: ReconcileResourceWatches commands ever sent
  MaxConnects,    \* bound: ConnectToCluster commands ever sent
  MaxLoads        \* bound: LoadClusters commands ever sent

ASSUME ConstantsAssumption ==
  /\ SlotLimit \in Nat \ {0}
  /\ MaxReconciles \in Nat
  /\ MaxConnects \in Nat
  /\ MaxLoads \in Nat

VARIABLES
  queue,         \* messages in the channel of the cluster runtime
  runtime,       \* what the thread of the cluster runtime is doing
  serving,       \* the lifecycle message it is doing it for
  loading,       \* the router is executing LoadClusters
  inFlight,      \* spawned commands drain_commands would wait for
  starts,        \* start_reconciled_resource_watch tasks
  tasks,         \* running watcher tasks
  uninitialized, \* those still holding their `initialized` sender
  holders,       \* permits taken from an initialization semaphore
  pool,          \* the current semaphore: every removal makes a new one
  connected,     \* the cluster has an entry in `connections`
  session,       \* ResourceWatchRegistry.sessions, 0 when absent
  generations,   \* ResourceWatchRegistry.generations, 0 when absent
  watches,       \* ResourceWatchRegistry.watches
  sent,          \* how many commands of each kind were sent
  latest,        \* history: last reconcile received in this session
  owner,         \* history: the reconcile that made the current generation
  failed         \* history: the jobs whose start reported a failure

registry == <<session, generations, watches>>
dispatch == <<queue, runtime, serving, loading, inFlight, sent, latest>>
work     == <<tasks, uninitialized, holders>>
vars == <<queue, runtime, serving, loading, inFlight, starts, tasks,
          uninitialized, holders, pool, connected, session, generations,
          watches, sent, latest, owner, failed>>

-----------------------------------------------------------------------------
(* A command is known by the position `seq` in which it was sent; a job is *)
(* one source of one command.                                              *)

Seqs    == 1..MaxReconciles
Command == [api: Apis, sources: SUBSET Scopes, seq: Seqs]
Message == [kind: {"reconcile"}, command: Command]
             \cup [kind: {"connect", "shutdown"}]
Job     == [api: Apis, scope: Scopes, seq: Seqs]

StartPc == {"spawned", "current", "connected", "waiting", "acquired",
            "starting", "started"}
Start   == [job: Job, generation: Nat, session: Nat, pool: Nat, pc: StartPc]
Running == [command: Command, generation: Nat]
Watch   == [job: Job, generation: Nat, session: Nat]
Holder  == [job: Job, pool: Nat, by: {"start", "release"}]

NoOwner == [seq |-> 0, sources |-> {}]

RuntimeState == {"down", "receiving", "draining", "disconnecting",
                 "invalidating", "removingSlots", "connecting", "stopped"}

TypeOK ==
  /\ queue \in Seq(Message)
  /\ runtime \in RuntimeState
  /\ serving \in {"none", "connect", "shutdown"}
  /\ loading \in BOOLEAN
  /\ inFlight \subseteq Running
  /\ starts \subseteq Start
  /\ tasks \subseteq Job
  /\ uninitialized \subseteq tasks
  /\ holders \subseteq Holder
  /\ pool \in Nat
  /\ connected \in BOOLEAN
  /\ session \in Nat
  /\ generations \in [Apis -> Nat]
  /\ watches \subseteq Watch
  /\ sent \in [{"reconcile", "connect", "load"} -> Nat]
  /\ latest \in [Apis -> Nat]
  /\ owner \in [Apis -> [seq: Nat, sources: SUBSET Scopes]]
  /\ failed \subseteq Job

Init ==
  /\ queue = <<>>
  /\ runtime = "down"
  /\ serving = "none"
  /\ loading = FALSE
  /\ inFlight = {}
  /\ starts = {}
  /\ tasks = {}
  /\ uninitialized = {}
  /\ holders = {}
  /\ pool = 0
  /\ connected = FALSE
  /\ session = 0
  /\ generations = [a \in Apis |-> 0]
  /\ watches = {}
  /\ sent = [k \in {"reconcile", "connect", "load"} |-> 0]
  /\ latest = [a \in Apis |-> 0]
  /\ owner = [a \in Apis |-> NoOwner]
  /\ failed = {}

-----------------------------------------------------------------------------
(* Helpers of the registry.                                                *)

(* Mutants: only the generation, or only the session, is compared.         *)
IsCurrentMutantGeneration(s) == s.generation = generations[s.job.api]
IsCurrentMutantSession(s)    == s.session = session

(* resource_watch_generation_is_current *)
IsCurrent(s) ==
  /\ s.session = session
  /\ s.generation = generations[s.job.api]

JobsOf(entries) == {e.job : e \in entries}

(* Mutants: an aborted task keeps its sender; a watcher is not aborted.    *)
AbortMutantSender(jobs) == tasks' = tasks \ jobs /\ UNCHANGED uninitialized
AbortMutantNone(jobs)   == UNCHANGED <<tasks, uninitialized>>

(* abort_task for a set of watchers: each drops its `initialized` sender.  *)
Abort(jobs) ==
  /\ tasks' = tasks \ jobs
  /\ uninitialized' = uninitialized \ jobs

(* The start task returns; the permit it holds, if any, is dropped.        *)
Permit(s, by) == [job |-> s.job, pool |-> s.pool, by |-> by]
DropPermit(s) == holders' = holders \ {Permit(s, "start")}

FreePermit(p) == Cardinality({h \in holders : h.pool = p}) < SlotLimit

Becomes(s, pc) == starts' = (starts \ {s}) \cup {[s EXCEPT !.pc = pc]}
Returns(s)     == starts' = starts \ {s}
Reports(s)     == failed' = failed \cup {s.job}

-----------------------------------------------------------------------------
(* The router: WorkerRuntime::run and shutdown_cluster_runtimes.           *)

(* A command for this cluster starts its runtime when there is none and    *)
(* goes to its channel.  register_cluster_runtime keeps an old session.    *)
RouteToCluster(message) ==
  /\ ~loading
  /\ queue' = Append(queue, message)
  /\ IF runtime = "down"
     THEN /\ runtime' = "receiving"
          /\ session' = IF session = 0 THEN 1 ELSE session
     ELSE UNCHANGED <<runtime, session>>
  /\ UNCHANGED <<serving, loading, inFlight, starts, work, pool, connected,
                 generations, watches, latest, owner, failed>>

SendReconcile ==
  /\ sent["reconcile"] < MaxReconciles
  /\ sent' = [sent EXCEPT !["reconcile"] = @ + 1]
  /\ \E a \in Apis, sources \in SUBSET Scopes :
       RouteToCluster([kind |-> "reconcile",
                       command |-> [api |-> a, sources |-> sources,
                                    seq |-> sent["reconcile"] + 1]])

SendConnect ==
  /\ sent["connect"] < MaxConnects
  /\ sent' = [sent EXCEPT !["connect"] = @ + 1]
  /\ RouteToCluster([kind |-> "connect"])

(* LoadClusters first shuts every cluster runtime down and joins it.       *)
LoadClusters ==
  /\ ~loading
  /\ sent["load"] < MaxLoads
  /\ sent' = [sent EXCEPT !["load"] = @ + 1]
  /\ loading' = TRUE
  /\ queue' = IF runtime = "down" THEN queue
                                  ELSE Append(queue, [kind |-> "shutdown"])
  /\ UNCHANGED <<runtime, serving, inFlight, starts, work, pool, connected,
                 registry, latest, owner, failed>>

(* The thread returned: dropping its tokio runtime ends every task on it.  *)
JoinRuntime ==
  /\ runtime = "stopped"
  /\ runtime' = "down"
  /\ serving' = "none"
  /\ starts' = {}
  /\ tasks' = {}
  /\ uninitialized' = {}
  /\ holders' = {}
  /\ UNCHANGED <<queue, loading, inFlight, pool, connected, registry, sent,
                 latest, owner, failed>>

(* ... and then its own stop_all_clusters invalidates the session again.   *)
StopAllClusters ==
  /\ loading
  /\ runtime = "down"
  /\ loading' = FALSE
  /\ connected' = FALSE
  /\ session' = IF session = 0 THEN 0 ELSE session + 1
  /\ generations' = [a \in Apis |-> 0]
  /\ owner' = [a \in Apis |-> NoOwner]
  /\ latest' = [a \in Apis |-> 0]
  /\ Abort(JobsOf(watches))
  /\ watches' = {}
  /\ pool' = pool + 1
  /\ UNCHANGED <<queue, runtime, serving, inFlight, starts, holders, sent,
                 failed>>

-----------------------------------------------------------------------------
(* The cluster runtime: ClusterWorkerRuntime::run.                         *)

(* An ordinary command is spawned; it has not run yet (generation 0).      *)
ReceiveReconcile ==
  /\ runtime = "receiving"
  /\ queue # <<>>
  /\ Head(queue).kind = "reconcile"
  /\ queue' = Tail(queue)
  /\ LET command == Head(queue).command
     IN  /\ inFlight' = inFlight \cup {[command |-> command, generation |-> 0]}
         /\ latest' = [latest EXCEPT ![command.api] = command.seq]
  /\ UNCHANGED <<runtime, serving, loading, starts, work, pool, connected,
                 registry, sent, owner, failed>>

(* A lifecycle message makes the loop wait for the commands in flight.     *)
ReceiveLifecycle ==
  /\ runtime = "receiving"
  /\ queue # <<>>
  /\ Head(queue).kind \in {"connect", "shutdown"}
  /\ queue' = Tail(queue)
  /\ runtime' = "draining"
  /\ serving' = Head(queue).kind
  /\ UNCHANGED <<loading, inFlight, starts, work, pool, connected, registry,
                 sent, latest, owner, failed>>

DrainCommands ==
  /\ runtime = "draining"
  /\ inFlight = {}
  /\ runtime' = "disconnecting"
  /\ UNCHANGED <<queue, serving, loading, inFlight, starts, work, pool,
                 connected, registry, sent, latest, owner, failed>>

(* stop_cluster, lock by lock: the connection ...                          *)
Disconnect ==
  /\ runtime = "disconnecting"
  /\ runtime' = "invalidating"
  /\ connected' = FALSE
  /\ UNCHANGED <<queue, serving, loading, inFlight, starts, work, pool,
                 registry, sent, latest, owner, failed>>

(* ... the watches (invalidate_cluster_resource_watches) ...               *)
InvalidateWatches ==
  /\ runtime = "invalidating"
  /\ runtime' = "removingSlots"
  /\ session' = session + 1
  /\ generations' = [a \in Apis |-> 0]
  /\ owner' = [a \in Apis |-> NoOwner]
  /\ latest' = [a \in Apis |-> 0]
  /\ Abort(JobsOf(watches))
  /\ watches' = {}
  /\ UNCHANGED <<queue, serving, loading, inFlight, starts, holders, pool,
                 connected, sent, failed>>

(* ... and the semaphore.  The next start finds a new one.                 *)
RemoveSlots ==
  /\ runtime = "removingSlots"
  /\ runtime' = IF serving = "connect" THEN "connecting" ELSE "stopped"
  /\ pool' = pool + 1
  /\ UNCHANGED <<queue, serving, loading, inFlight, starts, work, connected,
                 registry, sent, latest, owner, failed>>

(* ConnectToCluster: start_cluster_connection succeeds or fails.           *)
FinishConnect ==
  /\ runtime = "connecting"
  /\ runtime' = "receiving"
  /\ serving' = "none"
  /\ connected' \in BOOLEAN
  /\ UNCHANGED <<queue, loading, inFlight, starts, work, pool, registry, sent,
                 latest, owner, failed>>

-----------------------------------------------------------------------------
(* ReconcileResourceWatches::execute.                                      *)

(* replace_resource_watch_sources                                          *)
ReplaceSources(c) ==
  /\ c.generation = 0
  /\ LET a        == c.command.api
         replaced == {w \in watches : w.job.api = a}
     IN  /\ generations' = [generations EXCEPT ![a] = @ + 1]
         /\ owner' = [owner EXCEPT ![a] = [seq |-> c.command.seq,
                                           sources |-> c.command.sources]]
         /\ watches' = watches \ replaced
         /\ Abort(JobsOf(replaced))
         /\ inFlight' = (inFlight \ {c})
              \cup {[c EXCEPT !.generation = generations[a] + 1]}
  /\ UNCHANGED <<queue, runtime, serving, loading, starts, holders, pool,
                 connected, session, sent, latest, failed>>

(* resource_watch_session, read after the registry lock was released, and  *)
(* one start task per source; the command itself is then done.             *)
SpawnStarts(c) ==
  /\ c.generation # 0
  /\ starts' = starts \cup
       {[job |-> [api |-> c.command.api, scope |-> s, seq |-> c.command.seq],
         generation |-> c.generation, session |-> session,
         pool |-> 0, pc |-> "spawned"] : s \in c.command.sources}
  /\ inFlight' = inFlight \ {c}
  /\ UNCHANGED <<queue, runtime, serving, loading, work, pool, connected,
                 registry, sent, latest, owner, failed>>

-----------------------------------------------------------------------------
(* start_reconciled_resource_watch.                                        *)

FirstCheck(s) ==
  /\ s.pc = "spawned"
  /\ IF IsCurrent(s) THEN Becomes(s, "current") ELSE Returns(s)
  /\ UNCHANGED <<dispatch, work, pool, connected, registry, owner, failed>>

(* client_for_cluster *)
FindClient(s) ==
  /\ s.pc = "current"
  /\ IF connected THEN Becomes(s, "connected") /\ UNCHANGED failed
                  ELSE Returns(s) /\ Reports(s)
  /\ UNCHANGED <<dispatch, work, pool, connected, registry, owner>>

(* watch_initialization_slot: the semaphore of the moment, then acquire it *)
FindSlots(s) ==
  /\ s.pc = "connected"
  /\ starts' = (starts \ {s}) \cup {[s EXCEPT !.pc = "waiting", !.pool = pool]}
  /\ UNCHANGED <<dispatch, work, pool, connected, registry, owner, failed>>

AcquireSlot(s) ==
  /\ s.pc = "waiting"
  /\ FreePermit(s.pool)
  /\ holders' = holders \cup {Permit(s, "start")}
  /\ Becomes(s, "acquired")
  /\ UNCHANGED <<dispatch, tasks, uninitialized, pool, connected, registry,
                 owner, failed>>

SecondCheck(s) ==
  /\ s.pc = "acquired"
  /\ IF IsCurrent(s) THEN Becomes(s, "starting") /\ UNCHANGED holders
                     ELSE Returns(s) /\ DropPermit(s)
  /\ UNCHANGED <<dispatch, tasks, uninitialized, pool, connected, registry,
                 owner, failed>>

(* start_resource_watcher or start_all_namespaces_resource_watcher; the    *)
(* permit of a started watcher goes to a task that waits for it to be      *)
(* initialized.                                                            *)
StartWatcher(s) ==
  /\ s.pc = "starting"
  /\ \/ /\ Becomes(s, "started")
        /\ tasks' = tasks \cup {s.job}
        /\ uninitialized' = uninitialized \cup {s.job}
        /\ holders' = (holders \ {Permit(s, "start")})
                        \cup {Permit(s, "release")}
        /\ UNCHANGED failed
     \/ /\ Returns(s)
        /\ DropPermit(s)
        /\ Reports(s)
        /\ UNCHANGED <<tasks, uninitialized>>
  /\ UNCHANGED <<dispatch, pool, connected, registry, owner>>

(* install_resource_watch_if_current: the session and the generation are   *)
(* compared, and the watch inserted, under one lock.                       *)
InstallWatch(s) ==
  /\ s.pc = "started"
  /\ Returns(s)
  /\ IF IsCurrent(s)
     THEN LET replaced == {w \in watches : /\ w.job.api = s.job.api
                                           /\ w.job.scope = s.job.scope}
          IN  /\ watches' = (watches \ replaced)
                   \cup {[job |-> s.job, generation |-> s.generation,
                          session |-> s.session]}
              /\ Abort(JobsOf(replaced))
     ELSE /\ Abort({s.job})
          /\ UNCHANGED watches
  /\ UNCHANGED <<dispatch, holders, pool, connected, session, generations,
                 owner, failed>>

-----------------------------------------------------------------------------
(* Watcher tasks: run_resource_watch.                                      *)

(* InitDone: the `initialized` sender is dropped.                          *)
WatcherInitialized(j) ==
  /\ j \in uninitialized
  /\ uninitialized' = uninitialized \ {j}
  /\ UNCHANGED <<dispatch, starts, tasks, holders, pool, connected, registry,
                 owner, failed>>

(* An error or the end of the stream ends the task; its entry in the       *)
(* registry stays.                                                         *)
WatcherEnds(j) ==
  /\ j \in tasks
  /\ Abort({j})
  /\ UNCHANGED <<dispatch, starts, holders, pool, connected, registry, owner,
                 failed>>

(* The task that keeps the permit until the sender is gone.                *)
ReleaseSlot(h) ==
  /\ h.by = "release"
  /\ h.job \notin uninitialized
  /\ holders' = holders \ {h}
  /\ UNCHANGED <<dispatch, starts, tasks, uninitialized, pool, connected,
                 registry, owner, failed>>

-----------------------------------------------------------------------------
RouterStep == SendReconcile \/ SendConnect \/ LoadClusters
LoadStep   == JoinRuntime \/ StopAllClusters
RuntimeStep == \/ ReceiveReconcile \/ ReceiveLifecycle \/ DrainCommands
               \/ Disconnect \/ InvalidateWatches \/ RemoveSlots
               \/ FinishConnect
CommandStep == \E c \in inFlight : ReplaceSources(c) \/ SpawnStarts(c)
StartStep(s) == \/ FirstCheck(s) \/ FindClient(s) \/ FindSlots(s)
                \/ AcquireSlot(s) \/ SecondCheck(s) \/ StartWatcher(s)
                \/ InstallWatch(s)
SlotStep    == \E h \in holders : ReleaseSlot(h)
WatcherStep == \E j \in tasks : WatcherInitialized(j) \/ WatcherEnds(j)

Next ==
  \/ RouterStep
  \/ LoadStep
  \/ RuntimeStep
  \/ CommandStep
  \/ \E s \in starts : StartStep(s)
  \/ SlotStep
  \/ WatcherStep

Spec == Init /\ [][Next]_vars

(* The threads and the tokio scheduler keep running what can run.          *)
SchedulerFairness ==
  /\ WF_vars(LoadStep)
  /\ WF_vars(RuntimeStep)
  /\ WF_vars(CommandStep)
  /\ WF_vars(\E s \in starts : StartStep(s))
  /\ WF_vars(SlotStep)

(* The API server answers or refuses every initial list; ReconnectCompletes*)
(* does without.                                                           *)
ServerFairness == WF_vars(WatcherStep)

FairSpec == Spec /\ SchedulerFairness

-----------------------------------------------------------------------------
(* Properties.                                                             *)

(* A watch in the registry belongs to the reconcile that made the current  *)
(* generation in the current session and to one of its sources: neither a  *)
(* start queued before a scope change nor one left from before a reconnect *)
(* ever installs its watch (worker_state.rs: install_resource_watch_...).  *)
InstalledWatchesCurrent ==
  \A w \in watches :
    /\ w.session = session
    /\ w.generation = generations[w.job.api]
    /\ w.job.seq = owner[w.job.api].seq
    /\ w.job.scope \in owner[w.job.api].sources

(* No watcher runs unowned: it is in the registry, where the next reconcile*)
(* or stop_cluster aborts it, or its start is about to install or abort it.*)
NoOrphanWatcher ==
  \A j \in tasks :
    \/ j \in JobsOf(watches)
    \/ \E s \in starts : s.job = j /\ s.pc = "started"

(* ConnectToCluster waits for the commands in flight but not for their     *)
(* start tasks: a reconnect completes even when the API server never       *)
(* answers the initial lists that hold the permits.                        *)
ReconnectCompletes ==
  (runtime = "draining") ~> (runtime \in {"receiving", "down"})

Settled(a) ==
  {j.scope : j \in {k \in JobsOf(watches) \cup failed :
                      k.api = a /\ k.seq = owner[a].seq}}
    = owner[a].sources

(* When commands stop arriving and the API server answers, every source of *)
(* the reconcile that owns a resource ends up installed or reported as     *)
(* failed: no start is left in the semaphore queue, whatever was           *)
(* superseded before it.                                                   *)
ScopeSettles == ServerFairness => <>[](\A a \in Apis : Settled(a))

(* command_types.rs:51-53 says a namespace-scope change immediately        *)
(* supersedes the previous scope: once the loop has no command in flight,  *)
(* the reconcile received last owns its resource.                          *)
LatestReconcileOwns ==
  inFlight = {} => \A a \in Apis : owner[a].seq = latest[a]

(* The registry implements WatchScope: the scope of a resource is that of  *)
(* its owner, and what is active is what the registry holds.               *)
Promise == INSTANCE WatchScope WITH
  Seqs   <- Seqs,
  scope  <- owner,
  active <- [a \in Apis |->
               {<<w.job.scope, w.job.seq>> : w \in {v \in watches : v.job.api = a}}]

(* Whatever the interleaving of commands, starts and reconnects, a resource*)
(* is only ever watched under the scope of the reconcile in effect, and a  *)
(* replaced scope is dropped whole.                                        *)
ImplementsPromise == Promise!Spec

=============================================================================
