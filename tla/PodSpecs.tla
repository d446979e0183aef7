------------------------------- MODULE PodSpecs -------------------------------
(***************************************************************************)
(* What an inspector works out of the specification of a pod: what the     *)
(* pods of a node ask for together (managed_watches.rs), and the           *)
(* environment of a container (resource_details.rs).  Beside each stands   *)
(* what Kubernetes does, to be compared with.                              *)
(*                                                                         *)
(* One quantity stands for CPU and memory, which are treated alike.  A     *)
(* text is a sequence of parts, of which some are references $(NAME);      *)
(* escapes and the prefixes of imports are left out.                       *)
(***************************************************************************)
EXTENDS Naturals, Sequences, SequencesExt

CONSTANTS
  Top,      \* the largest quantity, i64::MAX
  Unset,    \* a container says nothing of a quantity
  Unknown,  \* a quantity that cannot be read, or is larger than Top
  NoConfig, \* a ConfigMap or Secret that is not there, or cannot be read
  Opaque    \* a value that only the node can tell

SpecsAssumption == Top \in Nat /\ {Unset, Unknown} \cap Nat = {}

(* What a container asks for; an init container that restarts is a sidecar. *)
Container(requests, limits, restarts) ==
  [requests |-> requests, limits |-> limits, restarts |-> restarts]

-----------------------------------------------------------------------------
(* Requests and limits of the pods of a node.                              *)

Read(quantity) == IF quantity = Unset THEN 0 ELSE quantity

Sum(a, b) ==
  IF Unknown \in {a, b} THEN Unknown
  ELSE IF a + b > Top THEN Unknown ELSE a + b

Larger(a, b) ==
  IF Unknown \in {a, b} THEN Unknown ELSE IF a < b THEN b ELSE a

(* The init containers in their order: the sidecars started so far, and    *)
(* the most that was ever needed.                                          *)
Starting(spec, of) ==
  FoldLeft(LAMBDA so, c :
             LET with == Sum(so.sidecars, Read(c[of]))
             IN  [sidecars |-> IF c.restarts THEN with ELSE so.sidecars,
                  peak     |-> Larger(so.peak, with)],
           [sidecars |-> 0, peak |-> 0], spec.inits)

(* Mutant: the init containers that end count for nothing.                 *)
PodNeedsMutant(spec, of) ==
  LET apps == FoldLeft(LAMBDA sum, c : Sum(sum, Read(c[of])), 0, spec.apps)
  IN  Sum(Sum(apps, Starting(spec, of).sidecars), Read(spec.overhead))

PodNeeds(spec, of) ==
  LET start == Starting(spec, of)
      apps  == FoldLeft(LAMBDA sum, c : Sum(sum, Read(c[of])), 0, spec.apps)
  IN  Sum(Larger(Sum(apps, start.sidecars), start.peak), Read(spec.overhead))

Unlimited(spec) == \E c \in ToSet(spec.apps \o spec.inits) : c.limits = Unset

(* total_node_pod_resources: pods that have ended count for nothing.       *)
PodTotals(pods) ==
  LET live == {p \in pods : ~p.form.ended}
      total(of) == FoldSet(LAMBDA p, sum : Sum(sum, PodNeeds(p.form.spec, of)), 0, live)
  IN  [requests |-> total("requests"), limits |-> total("limits"),
       count |-> Cardinality(live),
       unlimited |-> Cardinality({p \in live : Unlimited(p.form.spec)})]

(* Containers that run together: an init container with the sidecars       *)
(* before it, and in the end all sidecars with the containers proper.      *)
Together(spec) ==
  LET sidecars(n) == SelectSeq(SubSeq(spec.inits, 1, n), LAMBDA c : c.restarts)
  IN  {sidecars(n - 1) \o <<spec.inits[n]>> : n \in DOMAIN spec.inits}
        \cup {spec.apps \o sidecars(Len(spec.inits))}

(* What the scheduler reserves for the pod: the most that any of these     *)
(* need, and the overhead.                                                 *)
Reserved(spec, of) ==
  LET all == Together(spec)
      total(cs) == FoldLeft(LAMBDA sum, c : sum + Read(c[of]), 0, cs)
      most == CHOOSE n \in {total(cs) : cs \in all} : \A cs \in all : total(cs) <= n
  IN  IF \/ Read(spec.overhead) = Unknown
         \/ \E cs \in all : \E c \in ToSet(cs) : c[of] = Unknown
      THEN Unknown
      ELSE IF most + Read(spec.overhead) > Top THEN Unknown
      ELSE most + Read(spec.overhead)

-----------------------------------------------------------------------------
(* The environment of a container.                                         *)

(* A variable of the specification: a literal, a field of the pod, a key   *)
(* of a ConfigMap or Secret, all of its keys, or what only the node knows. *)
(* `env_from` comes first.                                                 *)
Variable(name, source, text, from) ==
  [name |-> name, source |-> source, text |-> text, from |-> from]

Shows(name, source, known, text) ==
  [name |-> name, source |-> source, known |-> known, text |-> text]

(* resolve_environment_variable, with the data that was fetched.           *)
Resolve(v, data) ==
  CASE v.source \in {"literal", "field"} -> <<Shows(v.name, v.source, TRUE, v.text)>>
    [] v.source = "opaque" -> <<Shows(v.name, "opaque", FALSE, <<>>)>>
    [] v.source = "key" ->
         IF data # NoConfig /\ v.from \in DOMAIN data
         THEN <<Shows(v.name, "key", TRUE, data[v.from])>>
         ELSE <<Shows(v.name, "key", FALSE, <<>>)>>
    [] v.source = "import" ->
         IF data = NoConfig THEN <<Shows("import", "import", FALSE, <<>>)>>
         ELSE LET keys == SetToSeq(DOMAIN data)
              IN  [i \in DOMAIN keys |-> Shows(keys[i], "key", TRUE, data[keys[i]])]

Expand(text, values) ==
  FlattenSeq([i \in DOMAIN text |->
    IF text[i].ref /\ text[i].text \in DOMAIN values
    THEN values[text[i].text] ELSE <<text[i]>>])

(* expand_environment_variable_references: in order, with the values of    *)
(* the variables before.                                                   *)
ExpandAll(vs) ==
  FoldLeft(LAMBDA so, v :
             LET w == IF v.source = "literal"
                      THEN [v EXCEPT !.text = Expand(@, so.values)] ELSE v
             IN  [out |-> Append(so.out, w),
                  values |-> IF w.known THEN (w.name :> w.text) @@ so.values
                             ELSE so.values],
           [out |-> <<>>, values |-> <<>>], vs).out

(* retain_effective_environment_variables: the last of each name.          *)
Retain(vs) == {vs[i] : i \in {i \in DOMAIN vs : \A j \in DOMAIN vs :
                                j > i => vs[j].name # vs[i].name}}

Environment(vs, data) ==
  Retain(ExpandAll(FlattenSeq([i \in DOMAIN vs |-> Resolve(vs[i], data)])))

(* What the kubelet gives the container: each variable that is there, with *)
(* the values that those before it have by then; the last of a name counts.*)
Given(vs, data) ==
  LET all  == FlattenSeq([i \in DOMAIN vs |-> Resolve(vs[i], data)])
      sets == {i \in DOMAIN all : all[i].known \/ all[i].source = "opaque"}
      last(name, n) == {i \in sets : /\ i < n /\ all[i].name = name
                                     /\ \A j \in sets : i < j /\ j < n => all[j].name # name}
      text[i \in DOMAIN all] ==
        IF all[i].source = "opaque" THEN Opaque
        ELSE IF all[i].source # "literal" THEN all[i].text
        ELSE LET part(p) == IF ~p.ref THEN <<p>>
                            ELSE IF last(p.text, i) = {} THEN <<p>>
                            ELSE text[CHOOSE j \in last(p.text, i) : TRUE]
                 parts == [k \in DOMAIN all[i].text |-> part(all[i].text[k])]
             IN  IF Opaque \in ToSet(parts) THEN Opaque ELSE FlattenSeq(parts)
  IN  [name \in {all[i].name : i \in sets} |->
         text[CHOOSE i \in last(name, Len(all) + 1) : TRUE]]

=============================================================================
