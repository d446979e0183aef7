------------------------------- MODULE MCWorker -------------------------------
(***************************************************************************)
(* The commands of the worker for TLC: the resource watches of one cluster *)
(* (ResourceWatches), and the contexts of the kubeconfig (Contexts); what  *)
(* the tasks of watches make of their streams (WatchFeeds) and of the      *)
(* Metrics API (DetailMetrics); and the table that shows what watches      *)
(* report (TableView).  They share no state: each behaviour is one of a    *)
(* single part, chosen at the start.                                       *)
(***************************************************************************)
EXTENDS ResourceWatches, TLC

CONSTANTS Home, Looks, Plain, Profiles, Current, Accounts,
          Aks, Device, OwnEks, OtherEks, Own, Other,
          n1, n2, Whole, Objects, NoQuery, Custom,
          Unset, Unknown, NoConfig, Opaque, Nil, Unborn, Gone

VARIABLES
  part,
  plan, file, truth, identity, lock, commands, results, ops, managed, aws,
  rail, saves, editor, crossed,
  left, scope, cache, metrics, search, prefs, table, blade,
  feed, feedLeft, world, config, stream, feedTask, updates, feedResults,
  feedView, seen,
  usage, now, polled, usageResults, entries, available, heard, asked, usageLeft

(* One cluster of each provider, and one of an account that is not the     *)
(* user's, in another region.                                              *)
MCClouds ==
  LET cloud(provider, place, account) ==
        [provider |-> provider, place |-> place, account |-> account]
  IN  Aks      :> cloud("azure", "subscription", "none")
   @@ Device   :> cloud("tailscale", "tailnet", "none")
   @@ OwnEks   :> cloud("aws", "region1", Own)
   @@ OtherEks :> cloud("aws", "region2", Other)

Plan == [clicks |-> 0, saves |-> 0, faults |-> 0, edits |-> 0, logins |-> 0,
         shown |-> TRUE]

(* The discovery opened; the buttons of what it shows, with a fault, a sign*)
(* in or an edit by others; and a context that is saved twice, or while    *)
(* another is added.                                                       *)
MCPlans ==
  {[Plan EXCEPT !.clicks = 1, !.faults = 1, !.shown = FALSE],
   [Plan EXCEPT !.clicks = 2, !.faults = 1],
   [Plan EXCEPT !.clicks = 2, !.logins = 1],
   [Plan EXCEPT !.clicks = 2, !.edits = 1],
   [Plan EXCEPT !.clicks = 1, !.saves = 1, !.faults = 1],
   [Plan EXCEPT !.saves = 2, !.edits = 1]}

Kubeconfig == INSTANCE Contexts WITH
                Clouds <- MCClouds, Plans <- MCPlans, tasks <- commands

(* Two pods with one name and label in different namespaces, and a third; a*)
(* query that finds both names, the later first, and one that is no        *)
(* expression.                                                             *)
MCHomeOf  == [o \in Objects |-> IF o = 3 THEN n2 ELSE n1]
MCNameOf  == [o \in Objects |-> IF o = 1 THEN 2 ELSE 1]
MCLabelOf == [o \in Objects |-> o - 1]
MCQueries == {[regex |-> FALSE, valid |-> TRUE, finds |-> <<2, 1>>],
              [regex |-> TRUE, valid |-> FALSE, finds |-> <<>>]}

Quiet == [results |-> 0, metrics |-> 0, scopes |-> 0, searches |-> 0,
          sorts |-> 0, edits |-> 0]

(* Rows sorted by numbers that change, watched again, and searched; columns*)
(* that come and go, are added, and are sorted by.                         *)
MCTables ==
  {[Quiet EXCEPT !.results = 2, !.metrics = 1, !.sorts = 1],
   [Quiet EXCEPT !.results = 3, !.scopes = 2],
   [Quiet EXCEPT !.results = 2, !.searches = 1, !.sorts = 1],
   [Quiet EXCEPT !.scopes = 1, !.edits = 3],
   [Quiet EXCEPT !.sorts = 1, !.edits = 3],
   [Quiet EXCEPT !.scopes = 2, !.edits = 2]}

Shown == INSTANCE TableView WITH
           Namespaces <- {n1, n2}, HomeOf <- MCHomeOf, NameOf <- MCNameOf,
           LabelOf <- MCLabelOf, Queries <- MCQueries, Plans <- MCTables

(* The objects that are watched, and what happens to them.                 *)
Scenes == INSTANCE MCFeeds WITH Top <- 9, None <- Nil
MCScenes == Scenes!Scenes
MCQuiet  == Scenes!EventFeeds

Feeds == INSTANCE WatchFeeds WITH
           Top <- 9, None <- Nil, Plans <- MCScenes,
           plan <- feed, left <- feedLeft, task <- feedTask,
           results <- feedResults, view <- feedView

(* One and two containers, and a sample that does not say what one uses;   *)
(* with a clock of the server that is behind, right, or ahead.             *)
MCUses == {("a" :> 1), ("a" :> 1) @@ ("b" :> 2), ("a" :> Nil)}
MCUsages ==
  LET of(kinds, skew, polls, horizon, faults) ==
        [kinds |-> kinds, skew |-> skew, polls |-> polls, horizon |-> horizon,
         faults |-> faults]
  IN  {of(<<"Pod">>, 0, 3, 3, 0), of(<<"Pod">>, -1, 3, 2, 0), of(<<"Pod">>, 1, 2, 2, 0),
       of(<<"Node">>, 0, 2, 2, 1), of(<<"Pod", "Pod">>, 0, 2, 1, 1),
       of(<<"Pod", "Node">>, 0, 2, 1, 1)}

Usages == INSTANCE DetailMetrics WITH
            None <- Nil, Uses <- MCUses, Window <- 1, Plans <- MCUsages,
            plan <- usage, left <- usageLeft, results <- usageResults

ASSUME FeedsAssumption == Feeds!SpecsAssumption /\ Usages!MetricsAssumption
ASSUME TableAssumption == Shown!TableAssumption
ASSUME ContextsAssumption == Kubeconfig!ContextsAssumption

contextVars == <<plan, file, truth, identity, lock, commands, results, ops,
                 managed, aws, rail, saves, editor, crossed>>
tableVars == <<left, scope, cache, metrics, search, prefs, table, blade>>
feedVars == <<feed, feedLeft, world, config, stream, feedTask, updates, feedResults,
              feedView, seen>>
usageVars == <<usage, now, polled, usageResults, entries, available, heard, asked,
               usageLeft>>
screenVars == <<tableVars, feedVars, usageVars>>
workerVars == <<part, vars, contextVars, screenVars>>

OfWatches(A)  == part = "watches" /\ A /\ UNCHANGED <<part, contextVars, screenVars>>
OfContexts(A) == part = "contexts" /\ A /\ UNCHANGED <<part, vars, screenVars>>
OfTable(A) ==
  part = "table" /\ A /\ UNCHANGED <<part, vars, contextVars, feedVars, usageVars>>
OfFeeds(A) ==
  part = "feeds" /\ A /\ UNCHANGED <<part, vars, contextVars, tableVars, usageVars>>
OfUsages(A) ==
  part = "usages" /\ A /\ UNCHANGED <<part, vars, contextVars, tableVars, feedVars>>

(* A part that does not run stays in one of its initial states.            *)
WorkerInit ==
  /\ part \in {"watches", "contexts", "table", "feeds", "usages"}
  /\ feed \in IF part = "feeds" THEN MCScenes ELSE MCQuiet
  /\ usage \in IF part = "usages" THEN MCUsages ELSE {u \in MCUsages : u.skew = 1}
  /\ Init /\ Kubeconfig!Init /\ Shown!Init /\ Feeds!Init /\ Usages!Init
  /\ part # "contexts" => plan.saves = 2 /\ identity = [p \in Profiles |-> Own]
  /\ part # "table" => left.searches = 1 /\ scope.selected = {}

WatchesNext  == OfWatches(Next)
ContextsNext == OfContexts(Kubeconfig!Next)
TableNext    == OfTable(Shown!Next)
FeedsNext    == OfFeeds(Feeds!Next)
UsagesNext   == OfUsages(Usages!Next)
WorkerNext   == WatchesNext \/ ContextsNext \/ TableNext \/ FeedsNext \/ UsagesNext

WorkerSpec == WorkerInit /\ [][WorkerNext]_workerVars

(* The fairness of both: SchedulerFairness, Contexts!FairSpec.             *)
FairWorker ==
  /\ WorkerSpec
  /\ WF_workerVars(OfWatches(LoadStep))
  /\ WF_workerVars(OfWatches(RuntimeStep) \/ OfContexts(Kubeconfig!SystemStep))
  /\ WF_workerVars(OfWatches(CommandStep))
  /\ WF_workerVars(OfWatches(\E s \in starts : StartStep(s)))
  /\ WF_workerVars(OfWatches(SlotStep))

-----------------------------------------------------------------------------
(* No edit of the kubeconfig undoes another, and what the discovery shows  *)
(* and offers is true: the clusters of the account or provider, and to be  *)
(* added those the file does not have; Contexts.                           *)
ContextsTrue ==
  part = "contexts" => /\ Kubeconfig!EditsKept /\ Kubeconfig!TypeOK
                       /\ Kubeconfig!ResultsExact /\ Kubeconfig!OfferedIsMissing

(* The rows shown are those there are now, and columns are the user's:     *)
(* TableView.                                                              *)
TablesTrue ==
  []Shown!TypeOK /\ []Shown!PreparedIsFresh /\ []Shown!SortedByColumn
    /\ Shown!ColumnsKept

(* What the tasks of watches and of metrics read is what is shown: the     *)
(* objects of the cluster, nothing taken for complete before it is, every  *)
(* failure; and every sample where it belongs; WatchFeeds, DetailMetrics.  *)
ShownIsWatched ==
  /\ part = "feeds" => /\ Feeds!TypeOK /\ Feeds!ShownIsTrue
                       /\ Feeds!NothingMissing /\ Feeds!FailuresTold
  /\ part = "usages" => Usages!TypeOK /\ Usages!UsageTrue

(* A reconnect completes and every source of a reconcile is settled; the   *)
(* commands that discover, add and save contexts end: ResourceWatches,     *)
(* Contexts.                                                               *)
WaitingEnds == ReconnectCompletes /\ ScopeSettles /\ Kubeconfig!WaitingEnds

=============================================================================
