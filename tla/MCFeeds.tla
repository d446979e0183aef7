-------------------------------- MODULE MCFeeds --------------------------------
(***************************************************************************)
(* What happens to the objects that WatchFeeds has watched, for TLC: for   *)
(* each feed a few objects, the forms each may take, and a few changes and *)
(* faults, chosen so that what the feed has to tell apart is there.        *)
(***************************************************************************)
EXTENDS PodSpecs

CONSTANTS Objects, None, Unborn, Gone

Pods == <<"Pod", "Pod", "Pod">>

Budget(changes, faults, moves) == [changes |-> changes, faults |-> faults, moves |-> moves]
Changes(n) == Budget(n, 0, 0)

(* Of a plan each feed uses what it needs.                                 *)
Watching(feed, kinds, forms, world, budget) ==
  [feed |-> feed, kinds |-> kinds, forms |-> [o \in Objects |-> forms[o]],
   world |-> world, left |-> budget, homes |-> <<"a", "b", "c">>,
   root |-> "Pod", data |-> {NoConfig}, config |-> NoConfig, watcher |-> "namespaced",
   scope |-> "all", discovered |-> "namespaced", namespaces |-> {"a", "b"}]

Same(forms) == <<forms, forms, forms>>
V(n) == [version |-> n]

(* Every watcher with every scope; objects in two of the namespaces, and in*)
(* one that is not selected.                                               *)
Table == Watching("table", Pods, Same({V(1), V(2)}), <<V(1), V(1), Unborn>>, Budget(2, 1, 0))
Tables ==
  {Table,
   [Table EXCEPT !.scope = "one", !.namespaces = {"b"}],
   [Table EXCEPT !.watcher = "cluster", !.scope = "cluster", !.discovered = "cluster"]}
    \cup {[Table EXCEPT !.watcher = watcher, !.scope = scope, !.discovered = discovered,
                        !.left.changes = 1, !.namespaces = {"a"}] :
            watcher \in {"namespaced", "cluster", "dynamic"}, scope \in {"one", "cluster"},
            discovered \in {"namespaced", "cluster"}}

(* A set of a deployment and its pod, which may change their owners; a job *)
(* and one of somebody else, with a pod; and pods without a level between. *)
Of(owner, n) == [owner |-> owner, version |-> n]
Rollout(budget) ==
  [Watching("tree", <<"ReplicaSet", "Pod", "Pod">>,
            <<{Of(0, 1), Of(None, 1)}, {Of(1, 1), Of(9, 1), Of(None, 1)}, {}>>,
            <<Of(0, 1), Of(9, 1), Unborn>>, budget) EXCEPT !.root = "Deployment"]
Jobs ==
  [Watching("tree", <<"Job", "Job", "Pod">>,
            <<{Of(0, 1)}, {Of(9, 1)}, {Of(1, 1), Of(2, 1)}>>,
            <<Unborn, Of(9, 1), Of(2, 1)>>, Changes(1)) EXCEPT !.root = "CronJob"]
Set(budget) ==
  [Watching("tree", Pods, Same({Of(0, 1), Of(0, 2), Of(9, 1)}),
            <<Of(0, 1), Of(9, 1), Unborn>>, budget) EXCEPT !.root = "StatefulSet"]
Trees ==
  {Rollout(Budget(0, 1, 0)), Rollout(Changes(2)), Jobs, Set(Budget(1, 1, 0)), Set(Changes(2))}

(* Pods with sidecars before and after what needs most; one that is bound  *)
(* later, asks for too much together with the others, and limits what the  *)
(* others do not; and one that cannot be read.                             *)
Proper(requests, limits)  == Container(requests, limits, FALSE)
Sidecar(requests, limits) == Container(requests, limits, TRUE)
WithSidecars ==
  [apps |-> <<Proper(2, Unset)>>, overhead |-> Unset,
   inits |-> <<Sidecar(1, 1), Proper(3, 2), Sidecar(1, 2)>>]
Heavy ==
  [apps |-> <<Proper(1, 2), Proper(Unset, 3)>>, overhead |-> 1, inits |-> <<Proper(3, 9)>>]
Unread == [apps |-> <<Proper(Unknown, 1)>>, overhead |-> Unset, inits |-> <<>>]
OnNode(spec, bound, ended) == [spec |-> spec, bound |-> bound, ended |-> ended]
Bound(spec) == {OnNode(spec, TRUE, ended) : ended \in BOOLEAN}
Nodes ==
  {Watching("node", Pods,
            <<Bound(WithSidecars), Bound(Heavy) \cup {OnNode(Heavy, FALSE, FALSE)},
              Bound(Unread)>>,
            <<OnNode(WithSidecars, TRUE, FALSE), OnNode(Heavy, FALSE, FALSE), Unborn>>,
            Budget(2, 1, 0))}

EventFeeds ==
  {Watching("events", Pods, Same({V(1), V(2)}), <<V(1), Unborn, Unborn>>, Budget(2, 1, 0))}

(* Variables that refer to ones before and after, of a key that is imported*)
(* and redefined; and to what only the node knows.                         *)
Word(x) == [ref |-> FALSE, text |-> x]
Ref(x)   == [ref |-> TRUE, text |-> x]
Literal(name, text) == Variable(name, "literal", text, "")
Imports ==
  <<Variable("env", "import", <<>>, ""), Literal("A", <<Word("1")>>),
    Variable("B", "key", <<>>, "K"), Literal("C", <<Ref("A"), Ref("B"), Ref("D")>>),
    Literal("D", <<Ref("C")>>), Literal("A", <<Ref("A"), Word("2")>>)>>
OfNode ==
  <<Literal("A", <<Word("1")>>), Variable("A", "opaque", <<>>, ""), Literal("B", <<Ref("A")>>),
    Variable("F", "field", <<Ref("A")>>, ""), Literal("C", <<Ref("F")>>)>>
Data == {NoConfig, ("K" :> <<Word("c")>>) @@ ("A" :> <<Ref("A")>>)}
ObjectFeeds ==
  {[Watching("object", Pods, Same({[vars |-> Imports], [vars |-> OfNode]}),
             <<first, Unborn, Unborn>>, Budget(3, 1, 0))
      EXCEPT !.data = Data, !.config = config] :
     config \in Data, first \in {[vars |-> Imports], Gone}}

(* One revision in both stores, a newer one, and one of another release; a *)
(* secret that may not decode.                                             *)
Record(name, revision, decodes) == [release |-> <<name, revision>>, decodes |-> decodes]
Releases(third, budget) ==
  Watching("helm", <<"Secret", "ConfigMap", "ConfigMap">>,
           <<{Record("r", 1, TRUE), Record("r", 1, FALSE)}, {Record("r", 1, TRUE)},
             {Record("r", 2, TRUE), Record("s", 1, TRUE)}>>,
           <<Record("r", 1, TRUE), Record("r", 1, TRUE), third>>, budget)
Helms ==
  {Releases(Unborn, Budget(1, 1, 0)), Releases(Record("r", 2, TRUE), Budget(0, 1, 1)),
   Releases(Unborn, Changes(2))}

Scenes == Tables \cup Trees \cup Nodes \cup EventFeeds \cup ObjectFeeds \cup Helms

=============================================================================
