----------------------------- MODULE DetailMetrics -----------------------------
(***************************************************************************)
(* Resource usage in the inspectors of one cluster: each inspector of a pod*)
(* or a node polls the Metrics API for its object (detail_watches.rs), the *)
(* answers are kept as a history of samples (state/blades.rs), and the     *)
(* history is drawn as a chart (resource_detail/usage.rs, charts.rs).      *)
(*                                                                         *)
(* Time is counted in polls.  A sample is a time and what each container   *)
(* uses, one quantity for CPU and memory; a node is one container.  Which  *)
(* inspectors are open is Inspectors' business: here each is opened and    *)
(* closed once.                                                            *)
(***************************************************************************)
EXTENDS Naturals, Integers, Sequences, SequencesExt, FiniteSets

CONSTANTS
  None,    \* no usage, no sample
  Uses,    \* what the containers of an object may use, None if it is not said
  Window,  \* POD_USAGE_HISTORY_WINDOW, in polls
  Plans    \* the bounds of a behaviour, and what it has: the kinds of its
           \* inspectors in order, how far the clock of the server is ahead

Kinds == {"Pod", "Node"}

MetricsAssumption ==
  /\ Window \in Nat
  /\ \A p \in Plans :
       /\ p.kinds \in Seq(Kinds) /\ p.skew \in Int
       /\ p.polls \in Nat /\ p.horizon \in Nat /\ p.faults \in Nat

VARIABLES
  plan,
  now,        \* the clock of the program
  polled,     \* when each poller last asked; no entry, no poller
  results,    \* answers under way
  entries,    \* the inspectors that are open
  available,  \* pod_metrics_api_available, node_metrics_api_available
  heard,      \* history: samples applied to an inspector, and when last
  asked,      \* history: the last answer to each poller
  left        \* of the bounds: polls, faults

vars == <<plan, now, polled, results, entries, available, heard, asked, left>>

Inspectors == DOMAIN plan.kinds
KindOf(i)  == plan.kinds[i]
Open       == DOMAIN entries

Sample(time, uses) == [time |-> time, uses |-> uses]

-----------------------------------------------------------------------------
(* The pollers of the worker.                                              *)

(* watch_pod_detail_metrics and watch_node_detail_metrics start with the   *)
(* inspector; where the API was not found before, they end at once.        *)
OpenInspector(i) ==
  /\ i \notin Open /\ heard[i].at = None
  /\ LET there == available[KindOf(i)]
     IN  /\ entries' = [j \in Open \cup {i} |-> IF j # i THEN entries[j] ELSE
              [usage |-> None, history |-> <<>>, missing |-> FALSE, error |-> FALSE,
               unavailable |-> ~there]]
         /\ polled' = [j \in DOMAIN polled \cup (IF there THEN {i} ELSE {}) |->
                         IF j = i THEN now - 1 ELSE polled[j]]
  /\ heard' = [heard EXCEPT ![i].at = now]
  /\ UNCHANGED <<plan, now, results, available, asked, left>>

CloseInspector(i) ==
  /\ i \in Open
  /\ entries' = [j \in Open \ {i} |-> entries[j]]
  /\ polled' = [j \in DOMAIN polled \ {i} |-> polled[j]]
  /\ UNCHANGED <<plan, now, results, available, heard, asked, left>>

(* A poller asks once per interval, whatever it missed.                    *)
Answered(i, answer) ==
  /\ i \in DOMAIN polled /\ polled[i] < now /\ left.polls > 0
  /\ results' = Append(results, [answer EXCEPT !.to = i])
  /\ asked' = [asked EXCEPT ![i] = answer]
  /\ polled' = IF answer.type = "ApiUnavailable"
               THEN [j \in DOMAIN polled \ {i} |-> polled[j]]
               ELSE [polled EXCEPT ![i] = now]
  /\ left' = [polls |-> left.polls - 1,
              faults |-> left.faults - (IF answer.type = "ApiUnavailable" THEN 1 ELSE 0)]
  /\ UNCHANGED <<plan, now, entries, available, heard>>

Answer(type, usage) == [to |-> None, type |-> type, usage |-> usage]

(* get_pod_metrics, get_node_metrics: the server has a sample of now or of *)
(* a little before, by its own clock.                                      *)
PollSample(i) ==
  \E time \in {now + plan.skew, now + plan.skew - 1}, uses \in Uses :
    Answered(i, IF \E c \in DOMAIN uses : uses[c] = None
                THEN Answer("Failed", None)
                ELSE Answer("Updated", Sample(time, uses)))

(* No sample of the object is an answer of its own, is_metric_sample_missing.*)
PollMissing(i) == Answered(i, Answer("Missing", None))

(* So is that there is no such API, is_metrics_api_not_found.              *)
PollFailing(i) ==
  \/ Answered(i, Answer("Failed", None))
  \/ left.faults > 0 /\ Answered(i, Answer("ApiUnavailable", None))

-----------------------------------------------------------------------------
(* The user interface.                                                     *)

Pruned(history, at) == SelectSeq(history, LAMBDA s : s.time >= at - Window)

(* One sample of each time, the last that came, in the order of times.     *)
Recorded(history, s) ==
  IF \E n \in DOMAIN history : history[n].time = s.time
  THEN [n \in DOMAIN history |-> IF history[n].time = s.time THEN s ELSE history[n]]
  ELSE SelectSeq(history, LAMBDA t : t.time < s.time)
         \o <<s>> \o SelectSeq(history, LAMBDA t : t.time > s.time)

(* record_pod_usage and record_node_usage.                                 *)
Updated(e, s) ==
  [e EXCEPT !.usage = s, !.missing = FALSE, !.error = FALSE,
            !.history = Pruned(Recorded(@, s), now)]

Failed(e)  == [e EXCEPT !.history = Pruned(@, now), !.error = TRUE]

(* Only the state of a pod notes that it is missing.                       *)
Missing(e, kind) ==
  [e EXCEPT !.history = Pruned(@, now), !.usage = None, !.error = FALSE,
            !.missing = kind = "Pod"]

(* PodMetricsApiUnavailable, NodeMetricsApiUnavailable: every inspector of *)
(* the kind says so from then on; a second such answer changes nothing.    *)
Marked(kind) ==
  [j \in Open |-> [entries[j] EXCEPT !.unavailable = @ \/ KindOf(j) = kind]]

Heard(r) ==
  IF r.type = "Updated"
  THEN [heard EXCEPT ![r.to] = [at |-> now, samples |-> {s \in @.samples : s.time # r.usage.time}
                                                           \cup {r.usage}]]
  ELSE [heard EXCEPT ![r.to].at = now]

Apply ==
  /\ results # <<>>
  /\ results' = Tail(results)
  /\ LET r    == Head(results)
         kind == KindOf(r.to)
         put(e) == [entries EXCEPT ![r.to] = e]
     IN  IF r.type = "ApiUnavailable"
         THEN /\ available' = [available EXCEPT ![kind] = FALSE]
              /\ entries' = IF available[kind] THEN Marked(kind) ELSE entries
              /\ UNCHANGED heard
         ELSE /\ entries' = IF r.to \notin Open THEN entries
                            ELSE LET e == entries[r.to]
                                 IN  put(CASE r.type = "Updated" -> Updated(e, r.usage)
                                           [] r.type = "Failed"  -> Failed(e)
                                           [] r.type = "Missing" -> Missing(e, kind))
              /\ heard' = IF r.to \in Open THEN Heard(r) ELSE heard
              /\ UNCHANGED available
  /\ UNCHANGED <<plan, now, polled, asked, left>>

-----------------------------------------------------------------------------
(* What is drawn.                                                          *)

(* displayed_usage_values: nothing where the API is missing, and a line    *)
(* instead of a value where the last answer was an error.                  *)
Value(e) == IF e.unavailable \/ e.error THEN None ELSE e.usage

(* The samples of a chart: of the object, or of one of its containers.     *)
Samples(e, container) ==
  IF container = None THEN e.history
  ELSE SelectSeq(e.history, LAMBDA s : container \in DOMAIN s.uses)

(* usage_chart: the axis ends at the newest sample, and a sample before    *)
(* its start is drawn at its start; one sample alone is not drawn.         *)
Points(samples) ==
  LET newest == samples[Len(samples)].time
      from(s) == s.time - (newest - Window)
  IN  IF Len(samples) < 2 THEN <<>>
      ELSE [n \in DOMAIN samples |-> IF from(samples[n]) < 0 THEN 0 ELSE from(samples[n])]

-----------------------------------------------------------------------------
Tick ==
  /\ now < plan.horizon
  /\ now' = now + 1
  /\ UNCHANGED <<plan, polled, results, entries, available, heard, asked, left>>

Init ==
  /\ plan \in Plans
  /\ now = 0
  /\ left = [polls |-> plan.polls, faults |-> plan.faults]
  /\ polled = <<>> /\ results = <<>> /\ entries = <<>>
  /\ available = [k \in Kinds |-> TRUE]
  /\ heard = [i \in Inspectors |-> [at |-> None, samples |-> {}]]
  /\ asked = [i \in Inspectors |-> None]

Next ==
  \/ \E i \in Inspectors : OpenInspector(i) \/ CloseInspector(i)
  \/ \E i \in Inspectors : PollSample(i) \/ PollMissing(i) \/ PollFailing(i)
  \/ Apply
  \/ Tick

Spec == Init /\ [][Next]_vars

-----------------------------------------------------------------------------
TypeOK ==
  /\ plan \in Plans /\ now \in 0 .. plan.horizon
  /\ left.polls \in 0 .. plan.polls /\ left.faults \in 0 .. plan.faults
  /\ DOMAIN polled \subseteq Open /\ Open \subseteq Inspectors
  /\ \A i \in DOMAIN polled : polled[i] \in -1 .. now
  /\ available \in [Kinds -> BOOLEAN]
  /\ \A n \in DOMAIN results : results[n].to \in Inspectors
  /\ \A i \in Open : entries[i].missing \in BOOLEAN /\ entries[i].error \in BOOLEAN

(* The history is of the samples heard within the window before the last   *)
(* answer, each once and in the order of their times.                      *)
HistoryExact ==
  \A i \in Open :
    LET history == entries[i].history
    IN  /\ ToSet(history) = {s \in heard[i].samples : s.time >= heard[i].at - Window}
        /\ \A m, n \in DOMAIN history : m < n => history[m].time < history[n].time

(* Unless the server's clock is ahead, every sample is drawn at its time.  *)
ChartTrue ==
  \A i \in Open, c \in {None} \cup UNION {DOMAIN u : u \in Uses} :
    LET samples == Samples(entries[i], c)
        points  == Points(samples)
    IN  plan.skew <= 0 /\ ~entries[i].unavailable =>
          \A m, n \in DOMAIN points : points[n] - points[m] = samples[n].time - samples[m].time

(* Once one inspector found the API missing, all of its kind say so.       *)
UnavailableTold ==
  \A i \in Open : ~available[KindOf(i)] => entries[i].unavailable /\ Value(entries[i]) = None

(* What is shown is the last answer, when it has arrived.                  *)
AnswersShown ==
  \A i \in Open :
    LET e == entries[i]
    IN  asked[i] # None /\ (\A n \in DOMAIN results : results[n].to # i) =>
          CASE asked[i].type = "Updated" -> ~e.unavailable => Value(e) = asked[i].usage
            [] asked[i].type = "Missing" -> Value(e) = None /\ ~e.error
            [] asked[i].type = "Failed"  -> Value(e) = None /\ e.error
            [] asked[i].type = "ApiUnavailable" -> e.unavailable

UsageTrue == HistoryExact /\ ChartTrue /\ UnavailableTold /\ AnswersShown

=============================================================================
