------------------------------- MODULE TableView -------------------------------
(***************************************************************************)
(* The table of a resource: its rows, which are prepared once and kept     *)
(* until what they were made of changes (ui/workspace/resource_data and    *)
(* ui/resource_table_cache.rs), and its columns, which are saved for all   *)
(* clusters and arranged in a blade of their own (ui/table_preferences.rs, *)
(* ui/resource_table_settings.rs).                                         *)
(*                                                                         *)
(* The resource is pods.  A number stands for an object, in the order of   *)
(* the uids, which is that of the namespaces.  Results of a watch come in  *)
(* any order, late ones too: NamespaceScope has when they come.  The       *)
(* columns are those the code treats differently, without the one of       *)
(* actions, which is age's neighbour; widths are left out.                 *)
(***************************************************************************)
EXTENDS Integers, Sequences, SequencesExt

CONSTANTS
  Namespaces, Whole,
  Objects,   \* numbers
  HomeOf,    \* the namespace of each
  NameOf,    \* its name, as a number
  LabelOf,   \* what the user's columns have of it, 0 for nothing
  Queries,   \* what may be searched for, beside nothing
  NoQuery,
  Custom,    \* metadata columns the user may add
  Plans      \* bounds: what may happen how often

Plan == [results: Nat, metrics: Nat, scopes: Nat, searches: Nat, sorts: Nat,
         edits: Nat]

(* A query finds some names, best first; a regular expression has no order *)
(* and may be none.                                                        *)
Query == [regex: BOOLEAN, valid: BOOLEAN, finds: Seq(Nat)]

TableAssumption ==
  /\ Objects \subseteq Nat
  /\ HomeOf \in [Objects -> Namespaces] /\ {NameOf, LabelOf} \subseteq [Objects -> Nat]
  /\ \A q \in Queries : q \in Query /\ (q.regex \/ q.valid)
  /\ NoQuery \notin Queries /\ Whole \notin Namespaces
  /\ Plans \subseteq Plan

VARIABLES
  left,      \* of the plan
  scope,     \* selected_namespaces and active_watchers
  cache,     \* resource_cache of pods, by namespace
  metrics,   \* pod_metrics by namespace, pod_metrics_api_available
  search,    \* resource_searches of pods
  prefs,     \* columns, custom_columns and sort of the table
  table,     \* resource_table_cache
  blade      \* ResourceTableSettingsTarget, when it is open

vars == <<left, scope, cache, metrics, search, prefs, table, blade>>

Spend(what) == left[what] > 0 /\ left' = [left EXCEPT ![what] = @ - 1]

-----------------------------------------------------------------------------
(* What the rows are made of.                                              *)

NoSort == [column |-> "none", up |-> TRUE]
Sorts  == [column: {"name", "cpu"} \cup Custom, up: BOOLEAN]

In(n)       == {o \in Objects : HomeOf[o] = n}
EmptyWatch  == [objects |-> {}, revision |-> 0]
NoMetrics(n) == [usage |-> [o \in In(n) |-> 0], error |-> FALSE, revision |-> 0]

Unavailable == 50    \* the text, behind every number
Absent      == 100   \* SortValue::Empty, last in both directions

(* resource_column_sort_value, resolved_resource_cell, compare_sort_values *)
SortValue(sort, o) ==
  LET m     == metrics.of[HomeOf[o]]
      value == CASE sort.column = "name" -> NameOf[o]
                 [] sort.column = "cpu" ->
                      IF ~metrics.available \/ m.error THEN Unavailable
                      ELSE IF m.usage[o] = 0 THEN Absent ELSE m.usage[o]
                 [] sort.column \in Custom ->
                      IF LabelOf[o] = 0 THEN Absent ELSE LabelOf[o]
                 [] OTHER -> 0
  IN IF sort.up \/ value = Absent THEN value ELSE -value

Score(q, o) == IF q = NoQuery THEN 0
               ELSE IF q.regex THEN 0
               ELSE CHOOSE i \in DOMAIN q.finds : q.finds[i] = NameOf[o]

Found(q) == IF q = NoQuery THEN Objects
            ELSE IF ~q.valid THEN {}
            ELSE {o \in Objects : NameOf[o] \in ToSet(q.finds)}

Cached == UNION {cache[n].objects : n \in scope.selected}

(* build_prepared_resource_table: value, score, name and uid decide.       *)
Rank(o) == <<SortValue(prefs.sort, o), Score(search, o), NameOf[o], o>>
Before(a, b) ==
  \E i \in 1..4 : /\ Rank(a)[i] < Rank(b)[i]
                  /\ \A j \in 1..(i - 1) : Rank(a)[j] = Rank(b)[j]

Built ==
  [rows   |-> SetToSortSeq(Cached \cap Found(search), Before),
   hidden |-> IF search # NoQuery /\ ~search.valid THEN 0
              ELSE Cardinality(Cached \ Found(search))]

MetricsKey ==
  IF prefs.sort.column # "cpu" THEN <<>>
  ELSE <<[n \in scope.selected |-> metrics.of[n].revision], metrics.available>>

(* ResourceTableCacheKey                                                   *)
Key == [revisions |-> [n \in scope.selected |-> cache[n].revision],
        metrics |-> MetricsKey, search |-> search, sort |-> prefs.sort]

Nothing == [key |-> <<>>, built |-> <<>>]

-----------------------------------------------------------------------------
(* What the columns are made of.                                           *)

NoBlade == [open |-> FALSE, columns |-> <<>>, draft |-> "none", fresh |-> {}]
Ids(columns) == {columns[i].id : i \in DOMAIN columns}
Column(id, visible) == [id |-> id, visible |-> visible]

(* resource_table_configuration: the columns of the table on display.      *)
Definitions ==
  LET wide == Cardinality(scope.selected) > 1 IN
  <<"name">> \o (IF wide THEN <<"namespace">> ELSE <<>>) \o <<"cpu">>
    \o <<"node">> \o prefs.custom \o <<"age">>

(* Mutant: a new column is shown at once, and so are those hidden.         *)
WithMutant(columns, id) ==
  Append([i \in DOMAIN columns |-> Column(columns[i].id, TRUE)], Column(id, TRUE))

(* layout_mut, for one definition that the layout does not have: one of the*)
(* user's goes before the first of three that is there.                    *)
With(columns, id) ==
  LET there == SelectSeq(<<"node", "age", "actions">>,
                         LAMBDA fixed : fixed \in Ids(columns))
  IN IF id \in Custom /\ there # <<>>
       THEN InsertAt(columns,
                     CHOOSE i \in DOMAIN columns : columns[i].id = there[1],
                     Column(id, TRUE))
       ELSE Append(columns, Column(id, TRUE))

Completed(columns, definitions) ==
  FoldLeft(LAMBDA all, id : IF id \in Ids(all) THEN all ELSE With(all, id),
           columns, definitions)

VisibleOf(columns, definitions) ==
  {i \in DOMAIN columns : columns[i].visible /\ columns[i].id \in definitions}

(* set_visible: the last column of the blade that is visible stays so.     *)
SetVisible(columns, definitions, id, visible) ==
  IF ~visible /\ Cardinality(VisibleOf(columns, definitions)) = 1
    THEN columns
    ELSE [i \in DOMAIN columns |->
           IF columns[i].id = id THEN Column(id, visible) ELSE columns[i]]

(* The end of show_target: the blade's columns are written, and read back. *)
Written(columns, shown) ==
  FoldLeft(LAMBDA all, c : SetVisible(all, Ids(shown), c.id, c.visible),
           Completed(columns, [i \in DOMAIN shown |-> shown[i].id]), shown)
ReadBack(columns, shown) ==
  [i \in DOMAIN shown |->
     (CHOOSE c \in ToSet(columns) : c.id = shown[i].id)]

(* set_order                                                               *)
Ordered(columns, shown) ==
  LET Of(id) == CHOOSE c \in ToSet(columns) : c.id = id IN
  [i \in DOMAIN shown |-> Of(shown[i].id)]
    \o SelectSeq(columns, LAMBDA c : c.id \notin Ids(shown))

-----------------------------------------------------------------------------
TypeOK ==
  /\ left \in Plan
  /\ scope.selected \subseteq Namespaces
  /\ scope.active \subseteq Namespaces \cup {Whole}
  /\ \A n \in Namespaces : cache[n].objects \subseteq In(n) /\ cache[n].revision \in Nat
  /\ \A n \in Namespaces : metrics.of[n].usage \in [In(n) -> 0..2]
  /\ search \in Queries \cup {NoQuery} /\ prefs.sort \in Sorts \cup {NoSort}
  /\ IsInjective([i \in DOMAIN prefs.columns |-> prefs.columns[i].id])
  /\ IsInjective(prefs.custom) /\ ToSet(prefs.custom) \subseteq Custom
  /\ blade.open \in BOOLEAN
  /\ blade.draft \in {"none", "new"} \cup Custom

(* A cluster whose namespaces are there, and a table nobody arranged.      *)
Init ==
  /\ left \in Plans
  /\ \E some \in SUBSET Namespaces : scope = [selected |-> some, active |-> {}]
  /\ cache = [n \in Namespaces |-> EmptyWatch]
  /\ metrics = [of |-> [n \in Namespaces |-> NoMetrics(n)], available |-> TRUE]
  /\ search = NoQuery
  /\ prefs = [columns |-> <<>>, custom |-> <<>>, sort |-> NoSort]
  /\ table = Nothing /\ blade = NoBlade

-----------------------------------------------------------------------------
(* A frame: the columns are completed, the rows prepared if they have to   *)
(* be, and the settings written.                                           *)

Draw ==
  LET columns == Completed(prefs.columns, Definitions)
      written == IF blade.open THEN Written(columns, blade.columns) ELSE columns
  IN /\ prefs' = [prefs EXCEPT !.columns = written]
     /\ table' = IF table.key = Key THEN table ELSE [key |-> Key, built |-> Built]
     /\ blade' = [blade EXCEPT !.columns = ReadBack(written, @)]
     /\ UNCHANGED <<left, scope, cache, metrics, search>>

-----------------------------------------------------------------------------
(* Results of the watches.                                                 *)

Started(k) ==
  /\ k \notin scope.active /\ Spend("results")
  /\ scope' = [scope EXCEPT !.active = @ \cup {k}]
  /\ UNCHANGED <<cache, metrics, search, prefs, table, blade>>

(* KubernetesResourcesReplaced, and KubernetesResourceAdded and Deleted.   *)
ObjectsChange(n, objects) ==
  /\ Spend("results")
  /\ cache' = [cache EXCEPT ![n] = [objects |-> objects, revision |-> @.revision + 1]]
  /\ UNCHANGED <<scope, metrics, search, prefs, table, blade>>

Measured(n) == n \in scope.selected /\ metrics.available /\ Spend("metrics")

PodMetricsUpdated(n, usage) ==
  /\ Measured(n)
  /\ metrics' = [metrics EXCEPT !.of[n] =
       [usage |-> usage, error |-> FALSE, revision |-> @.revision + 1]]
  /\ UNCHANGED <<scope, cache, search, prefs, table, blade>>

PodMetricsFailed(n) ==
  /\ Measured(n)
  /\ metrics' = [metrics EXCEPT !.of[n].error = TRUE, !.of[n].revision = @ + 1]
  /\ UNCHANGED <<scope, cache, search, prefs, table, blade>>

PodMetricsApiUnavailable ==
  /\ metrics.available /\ Spend("metrics")
  /\ metrics' = [of |-> [n \in Namespaces |-> NoMetrics(n)], available |-> FALSE]
  /\ UNCHANGED <<scope, cache, search, prefs, table, blade>>

-----------------------------------------------------------------------------
(* What the user does to the rows.                                         *)

Desired(some) == IF some = Namespaces THEN {Whole} ELSE some

Forgotten(t) == Nothing

(* Another selection of namespaces, with what request_selected_resource_-  *)
(* watches does to the cache.                                              *)
SelectNamespaces(some) ==
  /\ some # scope.selected /\ Spend("scopes")
  /\ LET moves == scope.active # Desired(some) IN
       /\ scope' = [selected |-> some,
                    active |-> IF moves THEN {} ELSE scope.active]
       /\ IF moves /\ scope.active # {}
            THEN /\ cache' = [n \in Namespaces |-> EmptyWatch]
                 /\ table' = Forgotten(table)
            ELSE UNCHANGED <<cache, table>>
  /\ UNCHANGED <<metrics, search, prefs, blade>>

EditSearch(q) ==
  /\ q # search /\ Spend("searches")
  /\ search' = q
  /\ UNCHANGED <<scope, cache, metrics, prefs, table, blade>>

(* From the menu of a header, which only a column on display has.          *)
Sort(s) ==
  /\ s.column \in Ids(prefs.columns) /\ Spend("sorts")
  /\ prefs' = [prefs EXCEPT !.sort = s]
  /\ UNCHANGED <<scope, cache, metrics, search, table, blade>>

-----------------------------------------------------------------------------
(* What the user does to the columns.                                      *)

(* target_with_options, replace_global_blade                               *)
OpenSettings ==
  /\ table # Nothing /\ ~blade.open /\ Spend("edits")
  /\ LET columns == Completed(prefs.columns, Definitions) IN
       /\ prefs' = [prefs EXCEPT !.columns = columns]
       /\ blade' = [open |-> TRUE, draft |-> "none", fresh |-> {},
            columns |-> SelectSeq(columns,
                          LAMBDA c : c.id \in ToSet(Definitions))]
  /\ UNCHANGED <<scope, cache, metrics, search, table>>

CloseSettings ==
  /\ blade.open /\ blade' = NoBlade
  /\ UNCHANGED <<left, scope, cache, metrics, search, prefs, table>>

(* What show_target does with the columns of the blade after a click.      *)
Settle(shown, columns, custom, sort) ==
  LET written == Written(columns, shown) IN
    /\ prefs' = [columns |-> written, custom |-> custom, sort |-> sort]
    /\ blade' = [blade EXCEPT !.columns = ReadBack(written, shown)]
    /\ UNCHANGED <<scope, cache, metrics, search, table>>

Toggle(id) ==
  /\ blade.open /\ id \in Ids(blade.columns) /\ Spend("edits")
  /\ Settle([i \in DOMAIN blade.columns |->
               LET c == blade.columns[i] IN
                 IF c.id = id THEN Column(id, ~c.visible) ELSE c],
            prefs.columns, prefs.custom, prefs.sort)

(* move_item of the reorderable table, then set_order.                     *)
Drag(id, to) ==
  /\ blade.open /\ Spend("edits")
  /\ id \in Ids(blade.columns) /\ blade.columns[to].id # id
  /\ LET rest  == SelectSeq(blade.columns, LAMBDA c : c.id # id)
         moved == InsertAt(rest, to,
                    CHOOSE c \in ToSet(blade.columns) : c.id = id)
         written == Written(prefs.columns, moved)
     IN /\ prefs' = [prefs EXCEPT !.columns = Ordered(written, moved)]
        /\ blade' = [blade EXCEPT !.columns = ReadBack(written, moved)]
  /\ UNCHANGED <<scope, cache, metrics, search, table>>

(* The form opens for a new column, or for one of the user's, of which     *)
(* only the label can be changed; it stays open when that is gone.         *)
OpenForm(draft) ==
  /\ blade.open /\ Spend("edits")
  /\ blade.draft = "none" /\ draft \in {"new"} \cup Ids(blade.columns)
  /\ blade' = [blade EXCEPT !.draft = draft]
  /\ UNCHANGED <<scope, cache, metrics, search, prefs, table>>

SaveLabel ==
  /\ blade.draft \in ToSet(prefs.custom)
  /\ blade' = [blade EXCEPT !.draft = "none"]
  /\ UNCHANGED <<left, scope, cache, metrics, search, prefs, table>>

AddColumn(id) ==
  /\ blade.draft = "new" /\ id \in Custom \ ToSet(prefs.custom)
  /\ LET shown   == Append(blade.columns, Column(id, TRUE))
         written == Written(prefs.columns, shown)
     IN /\ prefs' = [prefs EXCEPT !.columns = written, !.custom = Append(@, id)]
        /\ blade' = [blade EXCEPT !.columns = ReadBack(written, shown),
                                  !.draft = "none", !.fresh = @ \cup {id}]
  /\ UNCHANGED <<left, scope, cache, metrics, search, table>>

SortWithout(id) == IF prefs.sort.column = id THEN NoSort ELSE prefs.sort

(* remove_custom_column                                                    *)
RemoveColumn(id) ==
  /\ blade.open /\ id \in ToSet(prefs.custom) /\ id \in Ids(blade.columns)
  /\ Spend("edits")
  /\ LET Kept(columns) == SelectSeq(columns, LAMBDA c : c.id # id) IN
       Settle(Kept(blade.columns), Kept(prefs.columns),
              SelectSeq(prefs.custom, LAMBDA c : c # id), SortWithout(id))

-----------------------------------------------------------------------------
Result ==
  \/ \E k \in Namespaces \cup {Whole} : Started(k)
  \/ \E n \in Namespaces :
       \/ \E objects \in SUBSET In(n) : ObjectsChange(n, objects)
       \/ \E usage \in [In(n) -> 0..2] : PodMetricsUpdated(n, usage)
       \/ PodMetricsFailed(n)
  \/ PodMetricsApiUnavailable

Click ==
  \/ \E some \in SUBSET Namespaces : SelectNamespaces(some)
  \/ \E q \in Queries \cup {NoQuery} : EditSearch(q)
  \/ \E s \in Sorts : Sort(s)
  \/ OpenSettings \/ CloseSettings \/ SaveLabel
  \/ \E id \in Ids(blade.columns) :
       Toggle(id) \/ RemoveColumn(id) \/ \E to \in DOMAIN blade.columns : Drag(id, to)
  \/ \E draft \in Custom \cup {"new"} : OpenForm(draft)
  \/ \E id \in Custom : AddColumn(id)

Next == Draw \/ Result \/ Click
Spec == Init /\ [][Next]_vars

-----------------------------------------------------------------------------
(* The rows that a frame would show are those the cluster, the search and  *)
(* the sorting give now: what was prepared is used again only while nothing*)
(* it was made of has changed, although revisions start again with a watch.*)
PreparedIsFresh == table.key = Key => table.built = Built

Position(columns, id) == CHOOSE i \in DOMAIN columns : columns[i].id = id
IsVisible(columns, id) == columns[Position(columns, id)].visible
Both == Ids(prefs.columns) \cap Ids(prefs'.columns)

ChangesPlace(a, b) ==
  /\ Position(prefs.columns, a) < Position(prefs.columns, b)
  /\ Position(prefs'.columns, a) > Position(prefs'.columns, b)

(* Columns are the user's: one is hidden or shown by a click on its box and*)
(* moved by a drag, and not by columns that come and go with the number of *)
(* namespaces or by a blade that was opened before.  A drag moves those too*)
(* that the blade does not list, or lists last because they are new.       *)
ColumnsKept ==
  [][/\ \A id \in Both :
          \/ IsVisible(prefs.columns, id) = IsVisible(prefs'.columns, id)
          \/ Toggle(id)
     /\ \A a, b \in Both :
          \/ ~ChangesPlace(a, b)
          \/ {a, b} \cap (Ids(blade.columns) \ blade.fresh) # {a, b}
          \/ \E to \in DOMAIN blade.columns : Drag(a, to) \/ Drag(b, to)]_vars

(* The table is sorted by a column that exists.                            *)
SortedByColumn == prefs.sort = NoSort \/ prefs.sort.column \in Ids(prefs.columns)

=============================================================================
