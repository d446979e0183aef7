------------------------------ MODULE MCWorkspace ------------------------------
(***************************************************************************)
(* The workspace of a cluster for TLC: what is watched of the selected     *)
(* namespaces (NamespaceScope), what the user does to the objects in the   *)
(* table (Mutations), and the log streams of its pods (PodLogs).  They     *)
(* share no state that either writes; each behaviour is one of a single    *)
(* part, chosen at the start.                                              *)
(***************************************************************************)
EXTENDS MCNamespaceScope

CONSTANTS
  Names, Menus, MaxUid, MaxAsked, MaxFaults,
  app, sidecar, LogTargets, Rank, LiveCapacity, Streams

VARIABLES
  part,
  menu, objects, created, writes, rows, selection, dialogs, progress, bulkId,
  runs, tasks, answers, history, asked, touched, events, faults,
  stream, instance, written, finished, backfills, live, accepted, captured,
  raced, pending, backfill, shown, merged, reconnects, outcome, drops

Changes == INSTANCE Mutations
Stream  == INSTANCE PodLogs WITH Targets <- LogTargets,
                                history <- backfills, rows <- shown

ASSUME ChangesAssumption == Changes!MutationsAssumption
ASSUME StreamAssumption  == Stream!PodLogsAssumption

(* One kind of change while others change the objects, or two kinds.       *)
Alone == {[kinds |-> {k}, events |-> 2] :
            k \in {"bulk", "run", "restart", "delete", "force", "scale"}}
Both  == [kinds |-> {"delete", "bulk"}, events |-> 0]
AloneOrBoth == Alone \cup {Both}

(* One source whose connections fail, with and without records to begin    *)
(* with, and two whose records are put in one order.                       *)
MCStreams ==
  {[sources |-> {app}, old |-> 1, records |-> 3, drops |-> 1],
   [sources |-> {app}, old |-> 0, records |-> 2, drops |-> 1],
   [sources |-> {app, sidecar}, old |-> 0, records |-> 1, drops |-> 0]}

MCRank == [s \in LogTargets |-> IF s = app THEN 1 ELSE 2]

changesVars == <<menu, objects, created, writes, rows, selection, dialogs,
                 progress, bulkId, runs, tasks, answers, history, asked,
                 touched, events, faults>>
streamVars == <<stream, instance, written, finished, backfills, live, accepted,
                captured, raced, pending, backfill, shown, merged, reconnects,
                outcome, drops>>
workspaceVars == <<part, vars, changesVars, streamVars>>

OfScope(A)   == part = "scope" /\ A /\ UNCHANGED <<part, changesVars, streamVars>>
OfChanges(A) == part = "changes" /\ A /\ UNCHANGED <<part, vars, streamVars>>
OfStream(A)  == part = "stream" /\ A /\ UNCHANGED <<part, vars, changesVars>>

(* A part that does not run stays in one of its initial states.            *)
WorkspaceInit ==
  /\ part \in {"scope", "changes", "stream"}
  /\ Init /\ Changes!Init /\ Stream!Init
  /\ part # "changes" => menu = Both
  /\ part # "scope" => /\ left = Busy /\ remembered = {} /\ known = {}
                       /\ results[1].kind = "nsReplaced"
  /\ part # "stream" => stream.old = 1 /\ instance = "previous"

ScopeNext   == OfScope(Next)
ChangesNext == OfChanges(Changes!Next)
StreamNext  == OfStream(Stream!Next)
WorkspaceNext == ScopeNext \/ ChangesNext \/ StreamNext

WorkspaceSpec == WorkspaceInit /\ [][WorkspaceNext]_workspaceVars

(* The fairness of the parts: NamespaceScope!FairSpec, Mutations!FairSpec, *)
(* PodLogs!FairSpec.                                                       *)
FairWorkspace ==
  /\ WorkspaceSpec
  /\ WF_workspaceVars(OfScope(SystemStep) \/ OfChanges(Changes!SystemStep)
                      \/ OfStream(Stream!StreamStep))

-----------------------------------------------------------------------------
(* The types of the parts.                                                 *)
TypesOK == CASE part = "scope"   -> TypeOK
             [] part = "changes" -> Changes!TypeOK
             [] OTHER            -> Stream!TypeOK

(* Only what was confirmed is deleted or stripped: Mutations.              *)
OnlyConfirmedTouched == part = "changes" => Changes!OnlyConfirmedTouched

(* Every request is reported once: Mutations.                              *)
OutcomesExact == part = "changes" => Changes!OutcomesExact

(* A record shows, and shows once: PodLogs.                                *)
LinesExact == part = "stream" => Stream!ShownOnce /\ Stream!NothingMissed

(* Loading ends where clicks wait for calm, a bulk delete ends, a stream   *)
(* ends: NamespaceScope!SelectionLoads, Mutations!Waits, PodLogs!StreamEnds*)
WaitingEnds ==
  /\ <>[](left.calm => Shown \subseteq synced \cup errors)
  /\ []<>~Changes!Waits
  /\ Stream!StreamEnds

=============================================================================
