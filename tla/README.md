# Styrhous: a TLA+ verification project

Styrhous is a desktop program for exploring Kubernetes clusters. Its interesting
part is not what it draws but how it keeps up: the user clicks through clusters,
namespaces, resources and log windows while connections, watches and streams
start, fail and end on other threads. This directory holds TLA+ models of that
part, TLC runs that check them, and TLAPS proofs. Paths below are relative to
`src/crates/styrhous/src/` unless they start with `crates/` or `licensing/`.

## 1. The system

    egui frame (ui.rs)                     router thread             one thread + tokio
      UiState, clicks  --send_command-->   WorkerRuntime::run   -->  runtime per cluster
      pending_commands    (bounded, 64)    (worker_runtime.rs)       ClusterWorkerRuntime::run
          ^                                                             |  WorkerState (shared)
          |            WorkerResults (applied in order, every frame)    v
          +----------------------------------------------------- commands, watchers, pollers,
          |                                                       discovery, log streams
          +--- LogStoreResult -------- log store thread <-------- log records

* **User interface** (`ui.rs`, `ui/state/`). One thread. Each frame applies all
  results received, then sends the commands they and the clicks caused. It never
  waits: a command that does not fit in the channel stays in `pending_commands`.
* **Router** (`worker/worker_runtime.rs`). Reads the bounded channel and hands a
  command with a cluster key to the runtime of its cluster, which it starts when
  there is none. `LoadClusters` shuts every cluster runtime down first.
* **Cluster runtime**. One thread with a multi-threaded tokio runtime. A command
  is executed in one of three ways: *session life cycle* (connect: the commands in
  flight are awaited first), *in order* (log streams), or *spawned* (all others,
  which therefore run concurrently and in any order).
* **Worker state** (`worker/worker_state.rs`). Connections, the registry of
  resource watches with its session and generations, one initialization semaphore
  per cluster, and registries of detail watches, metrics pollers and log streams.
* **Connection manager** (`cluster_connection_manager/`). Opens a connection,
  which owns a namespace watch and an API discovery task; runs resource, detail
  and metrics watches and sends what they see as results.
* **Log store** (`log_store/`). A thread that keeps log records in files, serves
  pages, searches and copies, fed through four bounded lanes.
* **Licensing** (`licensing.rs`). A thread that signs in, refreshes a lease and
  reports its state; the server is a separate C# program.
* **Updater** (`updater/`). Installs what an earlier run staged, before the window opens;
  then a thread looks for the next version and stages it in files all programs share.

### Components, their state and operations

| component | state | operations | what makes it correct |
|---|---|---|---|
| worker watches | `sessions`, `generations`, `watches`, semaphores, start tasks | reconcile, start, install, disconnect, shutdown | what is installed belongs to the scope and session in effect; nothing runs unowned; permits come back |
| namespace scope (UI) | `selected_namespaces`, `active_watchers`, `resource_cache`, `active_pod_metrics` | select, toggle, restore, retry, namespace events | the scope shown is what is watched, or an error is shown |
| cluster sessions | `ClusterConnectionState`, two load states per cluster, worker connections, discovery tasks | select, connect, discover, fail, retry | one connect at a time; nothing stale shown; loading ends |
| log windows | `log_windows`, `pending_commands`, `log_streams` | open, close, switch instance, store failure | no stream without a window, no window without its stream's outcome |
| log contents | history spools, resume cursors, ordering buffer | backfill, follow, reconnect, merge | each record once, in order |
| log store and viewport | lanes, row space, search generation; scroll position, lock to the bottom | append, rebase, search, page, close; scroll, jump, navigate | pages and matches refer to the row space shown; what is read stays in place |
| inspectors | blade stack, history entries, detail watches | open, navigate, back, close | one watch per entry in history |
| data and YAML editors | server, draft and pending values; revisions | edit, save, watch update, validate, apply | no edit lost, nothing overwritten unseen, no stale answer applied |
| mutations | dialogs, targets that remain, failures, history of notifications | delete, bulk and force delete, restart, run, scale | only what was confirmed is touched; each outcome told once |
| contexts | kubeconfig, discovery requests, editor of a context | discover, add, rename, save, reload | offers are true; no edit of the file undoes another |
| tables | prepared rows and their key, columns, settings blade | prepare, sort, search, show, move and add columns | rows shown are today's; columns are the user's |
| licensing client | status, generation, refresh token, lease | sign in, refresh, sign out, poll | late answers ignored; no credential lost |
| licensing backend | operations, idempotency keys, copy of the Stripe subscription, webhook leases, seats assigned | change quantity, retry, process events, assign | one charge per request; seats used are seats paid; the copy settles |
| feeds | streams of kube, rows a task keeps, rows shown | list, apply, delete, list again, fail | what is shown is what the cluster has; nothing called complete before it is |
| usage in inspectors | samples of a window, last answer, API known to be missing | poll, record, prune, draw | the history is of the samples heard; the chart draws each at its time |
| updater | state file, packages, installed version; status shown | install, check, download, stage, discard | no version goes back; what is said to be staged is there |
| others | | | schemas and handlers, terminal launcher, widgets |

### Hard behaviours

Commands of one cluster run concurrently, so their order is lost; results carry
a cluster key but neither a connection nor a generation; starts of watches cross
five awaits, at each of which their scope can be superseded; a semaphore limits
initialization and is replaced at a reconnect; watchers fail, end and are aborted
at any time; the bounded channel delays commands; streams may end before their
start is reported; editors receive watch reports and answers to saves from
different tasks; the token of a license rotates under an operation that can be
interrupted; the backend asks Stripe in several requests and hears from it by
webhooks in any order. `PROJECT.json` lists each hazard at its line with the property
that covers it, or why none does.

## 2. The plan

Done, in this order: `ResourceWatches` with the abstract `WatchScope`; `NamespaceScope`;
`ClusterSession`; `LogWindows`; `LogStore`; `Inspectors`, `DataEditor`, `YamlEditor`;
`PodLogs`; `Mutations`; `Licensing`; `SeatBilling`; `Contexts`; `LogTail`; `TableView`;
then the proofs of `ResourceWatches`, `ClusterSession`, `SeatBilling`, `DataEditor`,
`NamespaceScope`, `LogWindows`, `LogStore`, `Mutations`, `Inspectors`, `YamlEditor` and
`Licensing`; then `PodSpecs`, `WatchFeeds`, `DetailMetrics` and `Updater`, and the proofs of
the last and of `LogTail` (section 6).

What is left: the proofs named at the end of section 6. No module uses RECURSIVE, so every
module can be proved about.

## 3. The modules

One module per component, an `MC...` suite that puts components of one side of the
program side by side for a TLC run, and `..._proof` modules for the components or suites
proved about.

| module | models | composed in |
|---|---|---|
| `ResourceWatches`, `WatchScope` | worker side of the watches of a cluster; what it promises | `MCWorker` |
| `Contexts` | kubeconfig, discovery and import of clusters | `MCWorker` |
| `TableView` | prepared rows and columns of a table | `MCWorker` |
| `PodSpecs` | what pods reserve of a node; the environment of a container | `WatchFeeds` |
| `WatchFeeds` | from the streams of kube to the rows shown: tables, inspectors, Helm | `MCFeeds`, `MCWorker` |
| `DetailMetrics` | usage of pods and nodes in inspectors | `MCFeeds`, `MCWorker` |
| `NamespaceScope` | user interface side of the watches, with the promise of the worker | `MCNamespaceScope`, `MCWorkspace` |
| `Mutations` | deletes, restarts, runs, scaling and their dialogs | `MCWorkspace` |
| `PodLogs` | history and follow streams of a log | `MCWorkspace` |
| `ClusterSession` | connecting and discovering | `MCRuntime` |
| `LogWindows` | windows, streams and the ways their commands take | `MCRuntime` |
| `LogStore` | lanes, rows, search, what the window keeps of them | `MCLogStore`, `MCLogs` |
| `LogTail` | the viewport of a log window | `MCLogs` |
| `Inspectors` | blade history and detail watches | `MCBlades` |
| `DataEditor`, `YamlEditor` | the two editors | `MCBlades` |
| `Licensing` | the licensing client | `MCLicensing` |
| `SeatBilling` | seats, operations and webhooks of the licensing backend | `MCLicensing` |
| `Updater` | staging and installing of updates by several programs | `MCLicensing` |

A suite is a disjoint sum: a variable `part` chooses at the start which component runs.
The components of a suite share no state in the program either (the suites say
why), so nothing is lost by not interleaving them, and a property of the suite is one
of a part.

### ResourceWatches (worker side of the watches of one cluster)

State: the cluster runtime's channel (`queue`), what its thread does (`runtime`,
`serving`), the commands it spawned (`inFlight`), the start tasks with the point
they reached (`starts`), watcher tasks and which of them still hold their
`initialized` sender, semaphores and their permits (`pool`, `holders`), and the
registry (`session`, `generations`, `watches`). Four history variables name
reconciles so that properties can speak of them: `sent`, `latest`, `owner`,
`failed`; no guard reads `latest`, `owner` or `failed`, and `sent` is only the bound.

Actions follow the code between two awaits. `start_reconciled_resource_watch` is
`FirstCheck`, `FindClient`, `FindSlots`, `AcquireSlot`, `SecondCheck`,
`StartWatcher`, `InstallWatch`; `ReconcileResourceWatches::execute` is
`ReplaceSources` (one hold of the registry lock) and `SpawnStarts`, which reads the
session in a second hold; `stop_cluster` is `Disconnect`, `InvalidateWatches`,
`RemoveSlots`, one per lock. Any sequence of commands may be sent, as worker tests
and the exit path do; the user interface sends fewer (`ClusterSession`).
Abstraction: an aborted task is gone at once (the code joins it with a
time limit); the rows a watcher sends are left out.

`WatchScope` is what the registry promises: per resource at most one scope, the one of
the reconcile that took effect last; only sources of it become active; a replacement
or a new session starts with none. `ImplementsPromise` maps `owner` to its scope
and the registry's entries to what is active.

### NamespaceScope (user interface side, one connected cluster)

State: discovered, selected and remembered namespaces, the resource, what is
believed active, synced and in error, metrics pollers, commands and results under
way, and of the worker only generations, starts, watchers and pollers. `Request` is
`request_selected_resource_watches` with both metrics reconciliations, and every
handler that calls it in the code contains it here. `Shown` and `ErrorShown` are what
the workspace computes. A watch of all namespaces carries the set it was created
with, as in the code. The variable `left` is the scenario: how many clicks, namespace
events and failures are left, whether users wait for quiet between clicks (`calm`),
and whether commands run in order. `orphans` is history: the keys that stay synced
when an all-namespaces watch fails while another resource is shown (section 7).

### ClusterSession (user interface and worker, all clusters)

State: per cluster the connection and two loads as shown; the runtime's channel
and phase; connections and discovery tasks in the worker; the result channel. The
number of a connection (`attempt`, and `from` in results) is history: the program
has no such number, and `ShownIsCurrent` says it does not need one. Commands other
than connect are one kind, `use`, which needs a client. The user interface sends
LoadClusters once, at its start.

### LogWindows, PodLogs (log streams)

`LogWindows`: windows with instance and status; three queues (`pending_commands`, the
bounded channel, the cluster runtime's channel); the result of the command just
executed, not yet sent; streams registered and running; store failures not yet
applied. `SwitchInstance` gives the same native window (`viewports`) a new id.

`PodLogs`: per source the records written so far (server), the history response, the
follow connection with its resume cursor and replay filter, the live prefix with its
capacity, and the rows appended. Timestamps repeat, so that a reconnect has to drop
exactly the records of the last timestamp that were shown. A record written after the
history was answered and before the follow stream opened is in neither; `NothingMissed`
excepts those records, by position, and those unread when the stream broke. `ShownOnce`
excepts more: all records of a source (`raced`) whose follow stream opened behind the end
of its history, or broke before the history was complete.

### LogStore, LogTail (one log window)

`LogStore`: four lanes, how far the live stream and the history request came, the
store (live and history records, rebase, search index), search threads, the
result channel, the coalesced update, and the window (pages, live rows, pending
and stale pages, counts, query). A record is its position in the log of the pod,
so that `RowsOfThisSpace` can say which record a row must show. Appends, scans
and history go one record at a time (the code sends batches). A command is executed in
one step; the thread that waits for room in the result channel is one result more
than the channel holds. `try_next_result` is two reads (`FindNoResult`, then
`ApplyUpdate` or `Draw`), because the store runs in between. In a frame the user
does one thing or nothing.

`LogTail`: scroll position in rows, lock to the bottom, target of a jump, the pending
shift of a rebase, caret row and active match, with a log that grows at both ends.
`StaysInPlace`: what is read stays in view unless the user scrolled or navigated.
`FollowsUser`: the lock to the bottom changes only by the user, or by the rebase the
property names.

### Inspectors, DataEditor, YamlEditor (blades)

`Inspectors`: the stack with its history and its closing animation, one detail watch
per entry, spawned starts and stops in any order, results of watches by id.
`SelectClusterAgain` clears blades without a stop, as the code does (`forgotten`); a stop
that overtakes its start leaves a watch (`overtaken`): `InspectorsOwned` allows
those two and no other.

`DataEditor`: object and version in the cluster, reports of the watch under way,
what the inspector shows (`detail`), the editor (server, draft and pending values and
their versions), and a save that is fetched, compared and replaced in steps. `misled`
is history: the editor took a report or answer that was not the newest for the newest
(section 7). `YamlEditor`: text, what was validated, revision, schema load, tasks
under way with the revision they carry, the object others change.

### Mutations, TableView, Contexts

`Mutations`: objects with uids, the rows shown and the selection, open dialogs, tasks
of the worker with the request they are at, answers under way, notifications.
`TableView`: the cache of prepared rows and the revisions it is keyed by, sort, search,
columns saved and columns in the settings blade. `Contexts`: the file, what discovery
found and for which request, commands that read and write the file in steps, and
`truth`, the file as it would be had no edit been lost.

### WatchFeeds, PodSpecs, DetailMetrics

`WatchFeeds`: six feeds, each with the objects of the API server (`world`), a stream of
kube for each kind it watches (a list, then the changes, until the first error), what the
task that reads it keeps, the results under way and the rows shown. A behaviour is of one
feed. The task of a table passes rows to the keys of its scope; that of a workload puts rows of
several streams together and keeps those that belong to the tree; that of a node adds up
what its pods reserve once all are listed; that of an object reads the environment of a pod
with the ConfigMap there is; that of Helm merges the records of two stores. `seen`
is history: what the properties except by name, and the objects nobody touched.
`PodSpecs` has the two computations with a reference definition each: `PodTotals` against
what the scheduler of Kubernetes reserves (`Reserved`), with sums that overflow, and
`Environment` against what the kubelet gives a container (`Given`).

`DetailMetrics`: each inspector polls for its object, answers are under way while it is closed
or the API turns out to be missing, samples are recorded in their order, pruned and drawn.
`heard` and `asked` are history: the samples applied, and the last answer of each poller.

### Licensing, SeatBilling, Updater

`Licensing`: status and generation in the interface, commands and events, the attempt
under way, keychain and what the server accepts; every operation can be dropped by
the next command where it stands, and the program can stop and start again.

`SeatBilling`: members and seats, one organization's operations, calls of users and
workers that process events, each at its step between two requests to Stripe or
transactions; Stripe's subscription with its idempotency keys; the copy (`sub`)
with response time and revision. Transactions claim the billing account first
(`TryClaimBillingAccountAsync`), so each is one step. The clock is coarse: `Window` stands for
the 23 hours in which a request is sent again, and `KeyLife = Window + 1` for the day that
Stripe remembers its key.
`changed` is history and names what others did: a change from outside, two reads of
one second (`tied`), an answer Stripe repeated (`replayed`). `SeatsFunded` excepts
the first two and `RejectedBlindly`.

`Updater`: the state file, the packages and the installed version, and per program its
step. Steps follow the file operations of `updater/implementation.rs` one by one; a program
may fail at any step that can, or end at any step. `odd` is history: what happened that a run
of one program, without failures, does not have.

## 4. The runs

| run | module | parts | what it asks |
|---|---|---|---|
| `watches` | `MCWorker` | ResourceWatches, Contexts, TableView, WatchFeeds, DetailMetrics | registry, refinement of `WatchScope`, edits of the kubeconfig, offers, rows and columns, what feeds show, settling |
| `workspace` | `MCWorkspace` | NamespaceScope, Mutations, PodLogs | what is watched, remembered, touched, told and shown; loading ends |
| `runtime` | `MCRuntime` | ClusterSession, LogWindows | one connect, nothing stale, streams and windows agree; connecting ends |
| `logs` | `MCLogs` | LogStore, LogTail | search index, row space, viewport; searches and jumps end |
| `licenses` | `MCLicensing` | SeatBilling, Licensing, Updater | charges, seats, token and sign-out; the copy settles; versions and staged updates |
| `blades` | `MCBlades` | Inspectors, DataEditor, YamlEditor | watches of inspectors, saves and applies; waiting ends |
| `reconcile_order`, `new_namespace`, `retry_load`, `log_rows`, `data_keys`, `reads_in_order` | | | violated: section 7 |

Every property has a mutant in its module: a changed definition that the property
must refuse. Mutants are named `...Mutant...` and stand before the definition they
change; nothing uses them otherwise.

**Bounds.**

* `watches`: two resources, one scope, one permit, two reconciles, two connects, one
  LoadClusters. One permit is less than 16, so that starts do queue; two reconciles are
  one superseding another, and two connects put a start of the first session next to one
  with the same generation in the second. For the safety part the proofs cover all
  values. `Contexts` has one cluster per provider and one of another account, and plans
  that combine two of clicks, saves, edits by others, sign-ins and faults (`MCPlans`):
  two commands at once, or one with an edit between any two of its steps. `TableView`: three objects, two
  with one name, and plans of up to four changes. `WatchFeeds`: three objects, and scenes of
  up to three changes, a failing stream and a second selection, chosen so that an object can
  change its owner, node, store or revision while lists are under way. `DetailMetrics`: two inspectors, a window
  of two polls, so that samples leave it, and clocks before, at and ahead of the program's.
* `workspace`: two namespaces distinguish none, one and all; a namespaced resource
  and a cluster resource, both with metrics. Scenario `Settled`: four clicks that go
  to a scope, away and back, each waiting for quiet, with one failure at any start,
  watcher or poller (fewer clicks do not reach an orphan). `Busy`: two clicks and two
  namespace events in every order with the initial lists. `Mutations`: two names,
  three uids, two requests, one fault. `PodLogs`: two sources, three records, one drop.
* `runtime`: two clusters, because clusters share the selection and the result
  channel; one failure; the user's clicks are unbounded, `Busy` keeps the channels
  finite. Two window ids (two windows, or one switched), a channel of one command so that it is
  full after one, two store failures.
* `logs`: lanes and result channel of one entry, so that each is full at once; two
  records, of which one also comes with the history, a page of two rows, one live
  row kept; one change of the query and one restart by the rebase. `LogTail`: a
  viewport of two rows, four lines, and two to three actions of the user (`MCBudgets`).
  `log_rows` alone has six records and the code's proportion of live rows to page size.
* `licenses`: two callers, one worker, two operations, four versions of the
  subscription, a window of two and a memory of three units; the menus say which
  disturbances are combined. The client: two clicks and a fault, or a click, a timer and a fault.
  `Updater`: two programs, three versions, up to three starts and two faults, with and without Windows.
* `blades`: a history of two visible entries and depth three; two keys with two and
  three values, two edits, saves and writes of others, one fault; the YAML editor four
  events.

Deadlock is not checked: bounded users stop, and the system then rightly rests.

## 5. Fairness

Each suite states the fairness of its parts for its own next-state relation.

* `ResourceWatches`: weak fairness of the router's load, the runtime thread,
  spawned commands, start tasks and permit releases: threads and tokio's
  scheduler run what is ready. A semaphore of tokio is fair; weak fairness of
  all starts together is less than that. Watchers get fairness (`ServerFairness`: the
  API server answers or refuses a list) only as a premise of `ScopeSettles`;
  `ReconnectCompletes` holds without it.
* `NamespaceScope`: one system step is taken while one can: results are applied
  (frames are drawn, and each result requests a repaint), commands, starts and initial
  lists go on. No fairness of the user or of failures.
* `ClusterSession`: results, each runtime thread and spawned command, and the
  first list of each discovery task, which the API server answers or refuses (the client
  has timeouts). `PatientSpec` adds a user who presses Retry, for `retry_load` only.
* `LogWindows`: frames (results, store results, flushing), router and cluster runtime.
  Nothing of streams, the API server or the user.
* `LogStore`: search threads and frames run, and the store thread gets through
  its lanes: strong fairness of each lower lane, because a window that asks for
  a page in every frame only delays them. A live stream faster than the disk would starve
  the scan lane by design of `next_store_command`; here the log ends. A deadline that
  stays set is eventually handled (strong fairness of `SyncSearch`): it is looked at in
  every frame, and retried while the lane is full.
* `LogTail`, `Inspectors`, `DataEditor`, `YamlEditor`, `Mutations`, `Contexts`,
  `PodLogs`, `Licensing`: frames poll what arrived, and the worker (or store) goes on with a
  task that can; requests are answered or fail, because the clients have timeouts. The end of
  the closing animation and the first list of a detail watch are fair too.
* `WatchFeeds`, `DetailMetrics`, `Updater`: none; what is checked of them is safety, stated
  for the moments when nothing is under way, and for all others what must not be said too early.
* `SeatBilling`: webhooks arrive and a lease that ran out expires; the worker and the
  calls go on. Stripe promises delivery with retries; `menu.events = FALSE` drops
  it, and the liveness property then claims nothing.

## 6. The proofs

Every theorem holds for all values of the constants that satisfy the module's named
assumption (bounds are natural numbers, semaphores and windows positive, sets of
names finite where something is counted). `tlapm` checks more than twenty thousand
obligations; nothing is assumed beyond the standard theorem modules.

### ResourceWatches_proof

* `TypeCorrect`: `TypeOK` is invariant.
* `WatchesAlwaysCurrent`: `InstalledWatchesCurrent`. It is not inductive: whether
  an installed watch is current depends on the start that installed it
  having carried a session and a generation that were given to its own reconcile.
  `IInv` adds that for starts, for commands in flight between their
  two steps, that no start or command is ahead of the registry, and that equal
  session and generation imply the owner. The delicate case is a command that read
  its generation before a disconnect and its session after it:
  the drain is what excludes it, and `IInv` says so.
* `NoWatcherOrphaned`: `NoOrphanWatcher`, inductive together with types.
* `RegistryImplementsPromise`: each step of `ResourceWatches` is one of
  `WatchScope` or a stutter under the mapping.
* `WorkerKeepsWatches`: the worker of the suite `MCWorker` takes only steps of
  `ResourceWatches` on the variables of the watches, so all of the above holds of it.
* `ContextsAreTrue` (`ContextsTrue`): the module instantiates `Contexts_proof` as the
  suite instantiates `Contexts`; `SameContexts` proves that the definitions of the two
  instances agree, and the lemmas of the one are then those of the other.

### Contexts_proof

`ContextsSafe`: `EditsKept`, `ResultsExact` and `OfferedIsMissing`, for any clusters, accounts,
profiles, clicks and faults. None is inductive: each depends on commands and answers under
way that were made from an older file. `ContextsInv` says of them:

* `Numbered`: each has a number of its own, so an answer belongs to one request;
* `Locking`: one command at a time is past the lock, and what it is about to write is its
  edit of the file as it is now; with that, `EditsKept` follows;
* `Importing`: one cluster is added at a time, and no AWS scan starts meanwhile;
* `Scanning`, `Complete`: what regions and providers answered is of the account asked, and
  whole if it says so;
* `ScanFresh`, `DiscoveryFresh`: what is shown as in the file is, or an answer under way
  knows the file as it is now and is applied after all that do not (`GoodAfter`);
* `SavesPending`, `RailShown`: each look under way is the one its editor waits for.

The hypothesis that no cluster is called like the absence of one (`Absent`) is part of
`ContextsAssumption`; it is a hypothesis of every lemma, so that they can be instantiated.

### Runtime_proof: ClusterSession

`SessionInv` is the types and:

* `OneConnectAtATime`, as a balance: connects queued, executing and answered are one if the
  cluster is shown connecting, and none otherwise. It counts in three places at once, so
  the module first proves how `Count` of a sequence changes by `Append` and `Tail`;
* `ListedFirst`: the clusters are listed by the first result, when nothing is
  shown, so no listing resets a cluster that is connecting;
* `OpenedOnce`: a cluster opened, reported or shown connected has `attempt = 1`, all
  others 0. This is why results need no number of their connection: a connected cluster is
  never connected again (`ConnectedOnce`), and everything shown, fed or loaded
  is of connection one (`FromIt`);
* `UsesAreLate`: commands that need a client are sent when the connection is
  open, and received when it is registered.

From it follow `OneConnect`, `CurrentShown` (`ShownIsCurrent`), `NoneRefused`
(`NoCommandRefused`) and `SessionTypeCorrect`. The same argument says what would break if
Retry were made to reconnect naively (`retry_load`): `OpenedOnce` is the first to fall.

### NamespaceScope_proof

`ScopeTypeCorrect`, and `SelectionRemembered` (`RememberedIsSelected`): what is stored is
what is selected and exists, in every order of lists, events and clicks.

`ScopeWatched` is the theorem this project is about: where the user waits for quiet
between clicks, what is watched and polled when all is quiet is what is shown, or an
error is shown. The invariant `Calm` has three parts.

* `Startup`: before the API resources are loaded nothing is asked for; until the
  namespaces are, only a resource without namespaces is watched. Here clicks are
  impossible, since results are under way, and the two lists arrive in either order.
* `Watching`: a click finds nothing under way, so at most one reconcile is
  (`OnePending`), and the starts and watchers of a resource are of the newest
  (`Sources`, `Unique`, `InScope`). What the interface believes and what the worker has
  differ by the results on their way, so each belief is stated as it will be when they have
  arrived: a key that lasts (has a start, or is active and stays so) has a start or watcher,
  or all it covers is or will be shown as failed (`LastingServed`, `WatchersLast`); each key of
  the scope shown is served, asked for, failing, or an orphan (`ScopeServed`); a key of the
  cache without an active watch is an orphan (`SyncedTracked`, `ReplacedTracked`).
* `Pollers`: at most one metrics command is under way per key, and a key is polled after
  it as the interface believes.

Hypothesis `NamespacesStay`: in calm scenarios no namespace comes or goes. It is not there
to help the prover: with namespace events the code violates the property, which
`new_namespace` shows. The run `workspace` satisfies it. The exception for orphans is
in the property, with the reason (section 7); a `calm` user is in the property too,
because without it two more defects of the code violate it.

### Editors_proof

The three parts of `MCBlades`. `EditorInv` is about the data editor: an object of the version the editor has read has the values the editor
was filled with; a save that was checked against that version names only keys the
user changed; a conflict on display is about the data reported last; an answer that arrives
after the report of its own save finds no edits or that conflict. Results:
`SavesKeepOthers` (`SavesOverwriteNothing`, an action property), `FollowsCluster`
(`EditorFollows`), `EditorTypeCorrect`.

`YamlInv` is about the YAML editor. What was read of the object, by a task or as the base of
the editor, is older than the object or is it still (`Snapshots`); so an apply that has
read the version it replaces has read the object its editor was filled with
(`AboutToReplace`). The window has at most one fetch and one apply, and what it shows of them
is true (`Window`). An answer to a validation that carries the revision of the
window is of its text (`Validations`; the answers of before the schema are the exception
`early`), so a text shown as valid is the one that was checked. `Room` bounds versions by the
events left. Result: `DocumentIsKept` (`DocumentKept`).

`BladesInv` is about the inspectors. `Tracked` says for each id given out: if it is in the
history it has its start queued or spawned, or its watch registered, and no stop
under way; and what runs, or will, without being in the history has a stop under
way, or was overtaken by one, or was forgotten with its cluster. Navigation turns the
history by a few ids at a time (`Turns`), so that one lemma serves all clicks and results.
Results: `InspectorsHaveWatches` (`InspectorsOwned`), `EditorsTyped` (`TypesOK`).

### Licenses_proof

The three parts of `MCLicensing`; first the backend.

`ChargeInv` gives `OneCharge` (`ChargedOnce`). A request that is executed holds the claim
of the account (`LockHeld`) and an authorization made under it (`Authorized`,
`Prompt`), so two calls never send one operation at once; it is sent again only inside
the replay window, which ends before Stripe forgets the key (`KeysLate`), so an unkept key
is one that was never used.

`FundInv` gives `SeatsPaid` (`SeatsFunded`), as long as nobody else changes the
subscription and no two reads of one second crossed. A read is true of the version it names, and versions go up with seconds
(`ReadsTrue`); the answer to an update is the last version until it is projected
(`AnswersLast`); so the copy differs from Stripe by at most the one pending update
(`CopyLags`), and since assignment respects both the copy and the pending target, the
seats assigned are within what the subscription has (`Funded`). Closing an operation
needs the copy to show its target. `BillingTypeCorrect` is the typing part.

`ClientInv` is about the licensing client, and gives `AccountIsKept` (`AccountKept`).
`Told` reads the queue of commands: only the last is of the generation shown, it is a sign-out
exactly if the user is shown signed out, and no refresh follows the end of a session.
`Under`: an attempt, or a retry that waits, is of an earlier command and of an account signed in, so
a sign-out in the queue is always behind it; `Heard`: an event of the generation shown is
of what is shown, so no late answer signs anybody in. `Tokens`: the token the server
accepts is in the session or the keychain of its server, except between the
server's rotation and the answer; who signed out has left none.

`UpdatesInv` is about the updates, and gives `UpdatesAreSafe` (`UpdatesSafe`). All versions
held, wanted, staged and installed were released, and only a program that has verified its
package is about to install (`Sourced`). Without a second program and without a hand, what
has been read is at least what is installed, and what is staged at least what was read
(`Forward`; `Single` says that there is one program): so versions go up. A program says that an
update is staged only at its end, and when it is there (`Truthful`). Which packages are in the
cache at each step (`Tidy`) gives that none is left behind when a run went normally.
`LicensesTyped` is the typing of all three.

### Workspace_proof

`MutationsInv` is about deletes and their dialogs. `Basics`: objects, uids that are never
used again, requests known by their number. `Confirmed`: a bulk or force delete under
way carries the uid of one of the targets its dialog was opened with, and what it has
read of an object is of that uid; so what ends is what was confirmed: `OnlyTheConfirmed`
(`OnlyConfirmedTouched`). `Outcomes`: each request is under way and not in the history of
operations, or in it once (`Reported`); what remains of the bulk delete on display is what
has a task or an answer, each target by its name (`BulkMatches`), so the last answer is the
one that closes it: `OutcomesReported` (`OutcomesExact`).

### Runtime_proof: LogWindows and the suite

The log windows, and the theorems of the suite.

No store failure, channel size or number of windows matters, because of how the proof reads
the three queues: `UnderWay` is their concatenation, handing a command on leaves it
as it is (`FlushMoves`, `RouteMoves`), what is executed is its first element and what is
sent its last. Each window id is started once and never used again, so `LogInv` can say:

* `StartsFirst`: everything under way about a window comes after its start; `Fresh`, `Over`: a
  stream that waits for its start neither runs nor has ended, and one that ended does not run;
* `ClosedStops`: a stream that runs or waits for its start has a live window or a stop under
  way. With `StartsFirst` that stop is behind the start: `NoStreamIsLeftBehind`;
* `LiveRuns`: a live window has a start, a stream or its last word under way:
  `LiveWindowsAreTrue`. An end or a failure taken from the channel is of a stream that is
  neither running nor waiting (`Over`, `Fresh`), so the window it closes loses nothing;
* `TakesOver`: of two ids of one native window the older is closed, and when the newer one's
  start is reached, the older stream was stopped before it: `OneStreamRunsPerViewport`.

The typing theorem `LogWindowsTyped` includes the capacity of the channel.

The theorems about a suite (`RuntimeTyped`, `StreamsHaveWindows`, `EditorsTyped`, `LicensesTyped`
and the others that name the suite's specification) follow from those of its parts: each
step of a suite is one of a part and leaves the others alone, so the suite's specification
implies that of each part.

### LogStore_proof

Three invariants of the store and its window, one of the viewport. `Sound` is about the store. Besides types and capacities (`Typed`, `Fits`):
the end of the history is last in its lane and a rebase comes after it (`Backfilled`); the
result of a rebase is in the channel once (`OneRebase`), and a generation is left for the
search it restarts (`Spare`); the searches in the lane have increasing generations, above
any a thread or a scan message has and at most the one of the window (`GensOrdered`).
Its last part, `Index`, is about the search of the store:

* `OneScan`, `OneEnd`: of its generation there is at most one thread or one end message,
  the thread reads the rows the store had, and nothing of it comes behind the end;
* `Underway`: until it is complete, there is that thread or that message;
* `InOrder` with `ScannedTo`: its hits and those of the messages in the lane are,
  one after the other, the matches up to the row the thread is at. At the end message
  the rows appended meanwhile are added, and `HitsUnique` says there is only one increasing
  sequence of the matching rows: `IndexIsExact`. Later appends go on with it one by one
  (`IndexAppend`), a rebase forgets the search.

`Told` is about what the window has of it. The store only grows between two rebases
(`Grows`: a row keeps its record, a hit its place), so what was true of a row when it was sent
stays true (`GrowsPage`, `GrowsHits`) as long as nothing renumbers the rows. A
rebase puts its result behind all results sent before; `Recent` are the
results behind the last rebased one. Pages among those are of the rows as they are
now (`PagesUnderWay`); so are, when no rebase is under way, the pages and live rows of
the window (`PagesShown`, `LiveShown`) and the coalesced update, which overtakes the channel
but is forgotten at the rebase and taken only after the channel was found empty
(`UpdateFits`; the reason for the two reads of a poll). A filtered page is of the search
of its generation, and a search of a generation is started once. This gives
`RowsAreOfThisSpace`; `StoreTyped` is the typing part.

`Known` is about counts and the search the window waits for. `Totals`, `Counts`: every
number under way or shown is at most what the store has, or is of a search it replaced (a
rebase drops no row, `RowsRebased`). `HasStore`: the store is closed after its window.
`Searched`: the search of the window is asked for in the control lane (`Asked`), or it is the
one of the store, and if that is complete, the window knows or the channel says so without
progress after it (`LastWord`). At rest only the last is left, and `Underway`
makes it complete: `SearchIsExact`.

`ViewInv` is about `LogTail`, which shares no variable with the store in `MCLogs`.
`ViewTyped` has the types; what it has to know of the rows is that hits of a finite log can
be counted, and that a hit by each number below the count exists (`HitsCounted`, `SomeHit`,
from `Ranks`: the place of a hit among the hits). `Locked` is what the lock to the bottom
rests on: who asked for it has it, who has it without having asked is stuck at the end and has no
caret to bring into view, and the frame before began where the view begins. It gives
`LockFollowsUser`: no row that arrives takes the lock away or gives it. `InPlace` says
where the record is that the last frame had at its top, as long as the user has not moved:
where the view begins, or `Shift` rows further down while the jump is pending that
makes up for the history. That each step of the store's reports keeps it is
`RowsStayInPlace`. `LogsParts` carries both results, and the types, to the suite.

Each of these invariants was first checked by TLC on the instance of its run (`Calm` on
2.3 million states, `EditorInv` on 700 thousand, `ChargeInv` on 480 thousand, `FundInv` with
three operations on 770 thousand, `LogInv` on 2.5 million; the others on the instance of
their run).

### What stays with TLC

Liveness (`WaitingEnds` in every suite) and anything with ENABLED is beyond the prover. So
is induction over data with an operator as parameter; where a well-founded argument was
needed (a greatest index), the set form of `WFMin` did. Safety of the other modules is
checked and not proved yet: `PodLogs`, `TableView`, `WatchFeeds`
with `PodSpecs`, and `DetailMetrics`. What `PodSpecs` computes are folds over sequences, which
induction would be needed for.

## 7. Where the code departs from what it says

Checked by violation runs:

* **reconcile_order** (`worker/worker_runtime.rs:101`). Reconcile commands are
  spawned, so an older one may execute last and own the resource, although
  `worker/command_types.rs:51-53` says a scope change immediately supersedes
  the previous scope.
* **new_namespace** (`ui/state/namespaces.rs:171-201, 234-237`). With all
  namespaces selected, a new namespace makes the next click replace the
  all-namespaces watch by one for the missing namespaces; the others are shown as
  synced and are watched by nobody.
* **retry_load** (`ui/state/namespaces.rs:114-124`). Retry on a connected cluster
  whose namespaces or APIs failed to load does nothing, ever; nor does a click on the
  rail. Were it made to reconnect naively, results of the earlier connection could be
  applied to the new one.
* **log_rows** (`ui/log_windows/search.rs:65`). A page cached while it was the last
  and not full is never asked for again. Its later rows are live rows only, of which the
  newest 512 are kept; after that many more they stay placeholders.
* **data_keys** (`ui/resource_detail/summaries.rs:150`). The inspector draws the keys of
  the watched object and expects each in the draft. Another client that adds a key while an
  edit is unsaved makes the next frame panic.
* **reads_in_order** (`StripeCommercialSubscriptionProvider.cs:289`). The revision
  that orders reads of one second is reserved after the answer, so the older of two
  can replace the newer until the next event.

Met while modelling and proving, described in the hazards, and excepted in a property by a
name of its own:

* An all-namespaces watch that fails while another resource is shown marks only the
  namespaces selected at that moment as failed (`ui/state/runtime.rs:75-84`); the others
  stay synced, and to come back to them requests nothing (`ui/state/namespaces.rs:190-201`).
  They are the `orphans` of `NamespaceScope`. The proof of `WatchedExactly` found this:
  the invariant was not inductive, and four clicks are the shortest way to it.
* A late `Started` of a deselected scope makes its next selection load forever
  (`ui/state/resource_results.rs:140`); a late `Replaced` leaves rows that nobody updates
  (`:66`); a `Failed` before its `Started` leaves an active key, and Retry sends nothing.
  After a namespace event the all-namespaces watch keeps its old filter, and clearing
  the selection does not stop it (`ui/state/namespaces.rs:87, 231`). Metrics pollers started
  and stopped in quick succession can be left running (`worker/watch_commands.rs:200-289`).
  `WatchedExactly` speaks of users who wait (`calm`).
* A stop of a detail watch that overtakes its start leaves it running
  (`cluster_connection_manager/detail_watches.rs:19-20`), and so does choosing a cluster
  again (`ui/state/cluster_operations.rs:26-35`).
* A report that takes back what a conflict or a save is about, or a conflict settled with
  "Keep my edits" during a save, leaves the data editor with a conflict about data that is
  gone (`ui/state/resource_data.rs:64-68`; `misled`).
* The YAML revision starts again when the schema loads, so an answer for an earlier text can
  pass for one about the current text (`ui/yaml_editor.rs:134`; `early`). Text typed while
  applying is replaced by the applied document.
* History and follow of a log are requested at once; a record written between the two
  responses is in neither (`worker/pod_logs.rs:809`), and one written while they cross can
  be in both (`raced`).
* A license operation that is interrupted after the server rotated the token loses the
  token (`licensing.rs:693`). Quitting before a queued sign-out leaves the
  credential in the keychain.
* A rejection of a later request closes an operation that Stripe had executed without
  answering (`RejectedBlindly`); an increase may be posted below the seats in use
  when somebody else lowered the quantity.
* The import of an EKS cluster writes the kubeconfig without another look at it
  (`cluster_connection_manager/discovery/aws.rs:432`), and other programs can write between
  comparison and rename.

* An object of a workload that its controller releases stays in the list of managed
  resources (`cluster_connection_manager/managed_watches.rs:214`; `released`). Rows of
  one stream clear the error of another that failed (`ui/state/detail_results.rs:170`;
  `masked`). An inspector watches its object by name, so it follows one created anew, while
  events and managed resources are of the old uid.
* The errors of a Helm store are never taken back, and the releases of a namespace stay
  cached when it is deselected (`ui/state/details.rs:72`; `outdated`). A store that fails
  counts as listed, so releases of the other alone are shown as complete, with the error.
* The environment of a container is read with the ConfigMaps and Secrets of that moment and
  not again until the pod changes (`aged`).
* Samples of a server whose clock is ahead stay in the window and are drawn at the edge of the
  chart (`skew`).
* Of updates: two programs that run at once, or a newer version installed by hand, can be
  followed by the installation of an older one that was staged; two programs can leave a state without
  its package, which the next download repairs. A program that ends between removing the
  state and the package leaves the package, and on Windows an installed package always stays
  (`updater/implementation.rs:81-89`). `odd` names all these.

Read in the code, outside of what the runs check: a result sent between the two reads of a
poll is applied after a newer update and takes the line count back (`log_store.rs:442-449`). A
rebase while a filter is active leaves a jump target in unfiltered rows, which may never
be visible. A filtered page that reports more matches than counted does not mark the last partial
page stale (`ui/log_state.rs:655`). A window closed while its control lane is full leaves its
store open until the program ends (`log_store.rs:406`). A single delete has no UID
precondition. A managed discovery answer names no request, so an old one can show. A new
custom column stands before the fixed columns in the table and last in the blade, and the
next drag moves it. The first status of an update (`Downloading`) makes the window stop to
listen, so the last one is never shown (`updater.rs:107-121`). The program that installed
an update goes on as the version it was, so it stages the same update, which the next start
installs again. A program that ends while it installs has not counted the attempt; after the
second failed one the window says that the next start will install, which discards.

## 8. What is not modelled

Contents: cells, schemas, YAML and log text; they are transformations
without state of their own. The terminal launcher, schemas, resource handlers and detail
views, and widgets. Of Helm, the contents of a release and its blade. Of the updater, the
download and the check of signatures, which are one step each. Of the log store: copying, the caret
within a line, storage failures (what follows from one is in `LogWindows`), the page cache
limit, and the wake-up of the thread. Of the licensing backend: checkout, trials, invitations,
sessions, devices and signing, and the retry of a transaction that met another
(`PostgresBillingOperationMutation.cs:53-96`), which has changed nothing. Of the updater, a
state file that does not parse: it is replaced by renaming, so only others write one; it is
removed and read as none (`updater/implementation.rs:195`), as one with a package path that is not
valid. Of `NamespaceScope`, Helm releases (`ui/state/namespaces.rs:146, 233`), which
`WatchFeeds` has. Of `TableView`, the actions column. A change at Stripe is assumed to be readable within the second
after it is made; the lease of a webhook may expire at any time.
