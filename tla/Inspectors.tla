------------------------------ MODULE Inspectors ------------------------------
(***************************************************************************)
(* The blades above the workspace and the worker's watches behind those    *)
(* that inspect a resource: the navigator of components/blade, the         *)
(* coordinator ui/global_blade.rs, the operations of ui/state that open,   *)
(* replace and discard blades, and the commands StartResourceDetailWatch   *)
(* and StopResourceDetailWatch, which the runtime of the cluster spawns    *)
(* side by side.                                                           *)
(*                                                                         *)
(* One cluster, connected: a history never holds the inspectors of two,    *)
(* and a connection that stands is not opened again.  Opening a blade and  *)
(* moving to another are animations; only the closing one is a state here, *)
(* because the blades stay until it ends.                                  *)
(***************************************************************************)
EXTENDS Integers, Sequences, FiniteSets

CONSTANTS
  Resources,       \* resources to inspect
  VisibleHistory,  \* HISTORY_SCALES.len(): how far back a click reaches
  MaxDetails,      \* bound: inspectors opened
  MaxDepth,        \* bound: blades in the history
  MaxEvents        \* bound: deletions and failures the watches report

InspectorAssumption ==
  /\ VisibleHistory \in Nat \ {0}
  /\ {MaxDetails, MaxDepth, MaxEvents} \subseteq Nat

VARIABLES
  blades,    \* back stack, current blade and forward stack, oldest first
  at,        \* where the current blade is; 0 when no blade is open
  closing,   \* BladeTransition::Closing
  panel,     \* resource_detail_panel of the cluster
  nextId,    \* next_detail_generation of the cluster
  commands,  \* worker: commands that run or are about to
  running,   \* worker: the watches that run
  registry,  \* worker: detail_watches
  listing,   \* worker: watches that have not reported their object yet
  results,   \* the channel to the user interface
  used,      \* how much of MaxEvents was used
  overtaken, \* history: watches whose stop found nothing to stop
  forgotten  \* history: watches nobody was told to stop

ui     == <<blades, at, closing, panel, nextId>>
worker == <<commands, running, registry>>
vars   == <<ui, worker, listing, results, used, overtaken, forgotten>>

-----------------------------------------------------------------------------
Ids     == 1..MaxDetails
Detail  == [kind: {"detail"}, id: Ids, of: Resources,
            shows: {"spinner", "object", "error"}]
Columns == [kind: {"columns"}, id: Ids]
Other   == [kind |-> "other", id |-> 0]
Command == [kind: {"start", "stop"}, id: Ids, step: {"queued", "spawned"}]
Result  == [kind: {"updated", "deleted", "failed"}, id: Ids]

TypeOK ==
  /\ \A n \in DOMAIN blades : blades[n] \in Detail \cup Columns \cup {Other}
  /\ at \in 0..Len(blades)
  /\ at = 0 <=> blades = <<>>
  /\ closing \in BOOLEAN /\ panel \in BOOLEAN
  /\ nextId \in 0..MaxDetails
  /\ commands \subseteq Command
  /\ running \subseteq Ids
  /\ registry \subseteq running
  /\ listing \subseteq Ids
  /\ \A r \in DOMAIN results : results[r] \in Result
  /\ used \in 0..MaxEvents
  /\ overtaken \subseteq Ids /\ forgotten \subseteq Ids

Blades(some) == {some[n] : n \in DOMAIN some}
DetailsOf(some) == {b.id : b \in {c \in Blades(some) : c.kind = "detail"}}

Init ==
  /\ blades = <<>> /\ at = 0 /\ closing = FALSE
  /\ panel = FALSE /\ nextId = 0
  /\ commands = {} /\ running = {} /\ registry = {} /\ listing = {}
  /\ results = <<>> /\ used = 0
  /\ overtaken = {} /\ forgotten = {}

-----------------------------------------------------------------------------
(* The commands the user interface sends.                                  *)

Start(id)  == [kind |-> "start", id |-> id, step |-> "queued"]
Stops(some) == {[kind |-> "stop", id |-> id, step |-> "queued"] :
                  id \in DetailsOf(some)}

Sends(some) ==
  /\ commands' = commands \cup some
  /\ UNCHANGED <<running, registry, listing, results, used, overtaken>>
Keeps == UNCHANGED forgotten

(* BladeNavigator::new, as the only blade.                                 *)
Root(blade) == blades' = <<blade>> /\ at' = 1 /\ closing' = FALSE
Closed      == blades' = <<>> /\ at' = 0 /\ closing' = FALSE

(* Mutant: the current blade counts as one behind it.                      *)
BackMutant == SubSeq(blades, 1, at)

Back == SubSeq(blades, 1, at - 1)

(* Mutant: the watches of the history ahead are left running.              *)
DiscardedMutant == <<>>

Discarded == SubSeq(blades, at + 1, Len(blades))

(* BladeNavigator::push, which discards the forward stack.                 *)
Push(blade) ==
  /\ at < MaxDepth
  /\ blades' = Append(SubSeq(blades, 1, at), blade)
  /\ at' = at + 1
  /\ closing' = FALSE

Foreground == at > 0 /\ ~closing
Current    == blades[at]

NewDetail(res) ==
  [kind |-> "detail", id |-> nextId + 1, of |-> res, shows |-> "spinner"]

-----------------------------------------------------------------------------
(* What the user does.                                                     *)

(* open_resource_detail: from the table, or a Helm release.                *)
OpenDetail(res) ==
  /\ nextId < MaxDetails
  /\ nextId' = nextId + 1
  /\ Root(NewDetail(res))
  /\ panel' = TRUE
  /\ Sends(Stops(blades) \cup {Start(nextId + 1)})
  /\ Keeps

(* navigate_resource_detail_in_navigator: from an inspector to another     *)
(* resource.  Without a panel only the number is used up.                  *)
Navigate(res) ==
  /\ Foreground
  /\ Current.kind = "detail"
  /\ nextId < MaxDetails
  /\ nextId' = nextId + 1
  /\ UNCHANGED panel
  /\ IF panel
       THEN /\ Push(NewDetail(res))
            /\ Sends(Stops(Discarded) \cup {Start(nextId + 1)})
       ELSE /\ UNCHANGED <<blades, at, closing>>
            /\ Sends({})
  /\ Keeps

(* replace_global_blade with settings, notifications or a Helm release.    *)
OpenOther ==
  /\ Root(Other)
  /\ panel' = FALSE
  /\ Sends(Stops(blades))
  /\ UNCHANGED nextId
  /\ Keeps

(* The column settings of an inspector's table, and the settings a blade of*)
(* another kind leads to.                                                  *)
PushSettings ==
  /\ Foreground
  /\ \/ Current.kind = "detail" /\ Push([kind |-> "columns", id |-> Current.id])
     \/ Current.kind = "other" /\ Push(Other)
  /\ Sends(Stops(Discarded))
  /\ UNCHANGED <<panel, nextId>>
  /\ Keeps

MoveTo(place) ==
  /\ at' = place
  /\ UNCHANGED <<blades, closing, panel, nextId, worker, listing, results,
                 used, overtaken, forgotten>>

(* The header's buttons, the mouse's, and a click on an earlier blade.     *)
GoBack(steps) == Foreground /\ steps < at /\ MoveTo(at - steps)
GoForward     == Foreground /\ at < Len(blades) /\ MoveTo(at + 1)

BeginClose ==
  /\ Foreground
  /\ closing' = TRUE
  /\ UNCHANGED <<blades, at, panel, nextId, worker, listing, results, used,
                 overtaken, forgotten>>

(* close_finished of GlobalBladeCoordinator::show.                         *)
CloseFinished ==
  /\ closing
  /\ Closed
  /\ panel' = (panel /\ DetailsOf(blades) = {})
  /\ Sends(Stops(blades))
  /\ UNCHANGED nextId
  /\ Keeps

(* select_api_resource                                                     *)
SelectApiResource ==
  /\ panel
  /\ panel' = FALSE
  /\ Closed
  /\ Sends(Stops(blades))
  /\ UNCHANGED nextId
  /\ Keeps

(* close_all_resource_details, for a click on another cluster of the rail. *)
SelectOtherCluster ==
  /\ panel' = FALSE
  /\ IF DetailsOf(blades) # {}
       THEN Closed /\ Sends(Stops(blades))
       ELSE UNCHANGED <<blades, at, closing>> /\ Sends({})
  /\ UNCHANGED nextId
  /\ Keeps

(* select_cluster of the cluster already selected, and connected: the      *)
(* blades are dropped and no ConnectToCluster follows.                     *)
SelectClusterAgain ==
  /\ panel
  /\ Closed
  /\ Sends({})
  /\ forgotten' = forgotten \cup DetailsOf(blades)
  /\ UNCHANGED <<panel, nextId>>

-----------------------------------------------------------------------------
(* The worker.  A start spawns the watch and registers it later: the lock  *)
(* of the registry is awaited in between.                                  *)

SpawnWatch ==
  \E c \in commands :
    /\ c.kind = "start" /\ c.step = "queued"
    /\ commands' = (commands \ {c}) \cup {[c EXCEPT !.step = "spawned"]}
    /\ running' = running \cup {c.id}
    /\ listing' = listing \cup {c.id}
    /\ UNCHANGED <<ui, registry, results, used, overtaken, forgotten>>

RegisterWatch ==
  \E c \in commands :
    /\ c.kind = "start" /\ c.step = "spawned"
    /\ commands' = commands \ {c}
    /\ registry' = registry \cup {c.id}
    /\ UNCHANGED <<ui, running, listing, results, used, overtaken, forgotten>>

StopWatch ==
  \E c \in commands :
    /\ c.kind = "stop"
    /\ commands' = commands \ {c}
    /\ IF c.id \in registry
         THEN /\ running' = running \ {c.id}
              /\ registry' = registry \ {c.id}
              /\ listing' = listing \ {c.id}
              /\ UNCHANGED overtaken
         ELSE /\ overtaken' = overtaken \cup {c.id}
              /\ UNCHANGED <<running, registry, listing>>
    /\ UNCHANGED <<ui, results, used, forgotten>>

Reports(kind, id) == results' = Append(results, [kind |-> kind, id |-> id])

(* watch_detail_object reports the object it finds first, or that there is *)
(* none; then its changes, until an error ends it.                         *)
ListObject(id) ==
  /\ id \in listing
  /\ listing' = listing \ {id}
  /\ \/ Reports("updated", id) /\ UNCHANGED used
     \/ /\ used < MaxEvents /\ used' = used + 1
        /\ \E kind \in {"deleted", "failed"} : Reports(kind, id)
  /\ UNCHANGED <<ui, worker, overtaken, forgotten>>

DeleteObject(id) ==
  /\ id \in running \ listing
  /\ used < MaxEvents /\ used' = used + 1
  /\ \E kind \in {"deleted", "failed"} : Reports(kind, id)
  /\ UNCHANGED <<ui, worker, listing, overtaken, forgotten>>

-----------------------------------------------------------------------------
(* The user interface applies the results.                                 *)

Receives(kind) ==
  /\ results # <<>>
  /\ Head(results).kind = kind
  /\ results' = Tail(results)

(* Mutant: only the blade in the foreground takes results.                 *)
ShownMutant(shows, id) ==
  [n \in DOMAIN blades |->
     IF n = at /\ blades[n].kind = "detail" /\ blades[n].id = id
       THEN [blades[n] EXCEPT !.shows = shows] ELSE blades[n]]

(* resource_detail_entry_mut                                               *)
Shown(shows, id) ==
  [n \in DOMAIN blades |->
     IF blades[n].kind = "detail" /\ blades[n].id = id
       THEN [blades[n] EXCEPT !.shows = shows] ELSE blades[n]]

(* ResourceDetailUpdated, ResourceDetailWatchFailed                        *)
Apply(kind, shows) ==
  /\ Receives(kind)
  /\ blades' = Shown(shows, Head(results).id)
  /\ UNCHANGED <<at, closing, panel, nextId, worker, listing, used, overtaken,
                 forgotten>>

(* The inspector id, and the settings it owns.                             *)
Of(id, blade) == blade.id = id

Without(id, some) ==
  LET kept == {n \in DOMAIN some : ~Of(id, some[n])} IN
  [k \in 1..Cardinality(kept) |->
     some[CHOOSE n \in kept : Cardinality({m \in kept : m <= n}) = k]]

(* ResourceDetailDeleted                                                   *)
ApplyDeleted ==
  /\ Receives("deleted")
  /\ LET id == Head(results).id IN
       IF at > 0 /\ Of(id, Current)
         THEN /\ Closed
              /\ panel' = FALSE
              /\ commands' = commands \cup Stops(blades)
         ELSE /\ blades' = Without(id, blades)
              /\ at' = IF at = 0 THEN 0 ELSE Len(Without(id, Back)) + 1
              /\ commands' = IF at = 0 THEN commands ELSE commands \cup
                   {[kind |-> "stop", id |-> id, step |-> "queued"]}
              /\ UNCHANGED <<closing, panel>>
  /\ UNCHANGED <<nextId, running, registry, listing, used, overtaken,
                 forgotten>>

(* The first inspector of the resource: entries() begins at the current    *)
(* blade.                                                                  *)
FirstOf(res) ==
  LET ours == {n \in DOMAIN blades :
                 blades[n].kind = "detail" /\ blades[n].of = res}
  IN  CHOOSE n \in ours : at \in ours => n = at

(* KubernetesResourceDeleted, from the watch of the table.                 *)
TableDeleted(res) ==
  /\ used < MaxEvents /\ used' = used + 1
  /\ \E n \in DOMAIN blades : blades[n].kind = "detail" /\ blades[n].of = res
  /\ Of(blades[FirstOf(res)].id, Current)
  /\ Closed
  /\ panel' = FALSE
  /\ commands' = commands \cup Stops(blades)
  /\ UNCHANGED <<nextId, running, registry, listing, results, overtaken,
                 forgotten>>

-----------------------------------------------------------------------------
User ==
  \/ \E res \in Resources : OpenDetail(res) \/ Navigate(res)
  \/ OpenOther \/ PushSettings \/ GoForward \/ BeginClose
  \/ \E steps \in 1..VisibleHistory : GoBack(steps)
  \/ SelectApiResource \/ SelectOtherCluster \/ SelectClusterAgain

WorkerStep == SpawnWatch \/ RegisterWatch \/ StopWatch

ApplyResult ==
  \/ Apply("updated", "object") \/ Apply("failed", "error") \/ ApplyDeleted

Next ==
  \/ User \/ CloseFinished \/ WorkerStep \/ ApplyResult
  \/ \E id \in Ids : ListObject(id) \/ DeleteObject(id)
  \/ \E res \in Resources : TableDeleted(res)

Spec == Init /\ [][Next]_vars

(* The runtime executes what it spawned, a watch answers, the interface    *)
(* applies results and draws its animation to the end.                     *)
Fairness ==
  /\ WF_vars(WorkerStep) /\ WF_vars(ApplyResult) /\ WF_vars(CloseFinished)
  /\ \A id \in Ids : WF_vars(ListObject(id))

FairSpec == Spec /\ Fairness

-----------------------------------------------------------------------------
AtRest == commands = {}

(* When the runtime has executed every command, each inspector of the      *)
(* history, shown or not, has its watch; and no watch runs without its     *)
(* inspector but those whose stop came before the start had registered     *)
(* them, and those of SelectClusterAgain.                                  *)
InspectorsOwned ==
  AtRest => /\ DetailsOf(blades) \subseteq registry
            /\ running \subseteq DetailsOf(blades) \cup overtaken \cup forgotten

(* Column settings are never left without the inspector that opened them,  *)
(* and an inspector is never in the history of a cluster that believes     *)
(* none is open, which would close the blade of another without stopping.  *)
HistoryConsistent ==
  /\ \A b \in Blades(blades) : b.kind = "columns" => b.id \in DetailsOf(blades)
  /\ DetailsOf(blades) # {} => panel

(* An inspector that has neither its object nor a reason why it has none.  *)
Spins(id) ==
  \E b \in Blades(blades) :
    b.kind = "detail" /\ b.id = id /\ b.shows = "spinner"

=============================================================================
