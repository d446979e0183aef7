-------------------------------- MODULE PodLogs --------------------------------
(***************************************************************************)
(* What one pod log stream writes into the log store: worker/pod_logs.rs.  *)
(* Every source (a container) is read twice at the same time: its history, *)
(* from the first record to the end the server had when it answered, and   *)
(* its follow stream, which starts at the end and is opened again when it  *)
(* breaks.  What both deliver has to become one log.                       *)
(*                                                                         *)
(* One source writes its timestamps in order, possibly the same one        *)
(* several times; records with the same timestamp differ in their text,    *)
(* for which nth stands (the container runtime; timestamps are in          *)
(* nanoseconds).                                                           *)
(* A batch is one record: batches of up to 64 only delay.  Failures of the *)
(* store are in LogWindows, and the stream's abort with them.              *)
(***************************************************************************)
EXTENDS Integers, Sequences, SequencesExt, FiniteSets, FiniteSetsExt

CONSTANTS
  Targets,       \* containers
  Rank,          \* the order of their labels, to break ties of timestamps
  LiveCapacity,  \* MAX_PENDING_LIVE_ROWS, 4096 in the code
  Streams        \* the streams tried: their sources, the records each
                 \* has written before, and as bounds the records each
                 \* has in the end and the connections that fail

PodLogsAssumption ==
  /\ Rank \in [Targets -> Nat]
  /\ \A s, t \in Targets : Rank[s] = Rank[t] => s = t
  /\ LiveCapacity \in Nat \ {0}
  /\ Streams \subseteq [sources: SUBSET Targets \ {{}}, old: 0..1,
                         records: Nat, drops: Nat]

VARIABLES
  stream,     \* which of Streams this is
  instance,   \* PodLogInstance of the window
  written,    \* server: the records of each source
  finished,   \* server: sources whose container will write no more
  history,    \* the backfill request of each source
  live,       \* the follower of each source
  accepted,   \* records the follower took, in order
  captured,   \* how many of them its live_prefix holds
  raced,      \* ghost: sources whose history and follow stream crossed
  pending,    \* LogTimelineAppender.live: rows waiting for the ordering window
  backfill,   \* store: rows appended as history
  rows,       \* store: rows appended live
  merged,     \* finish_backfill has run
  reconnects, \* UI: source_reconnects of the window
  outcome,    \* what the stream reported at its end
  drops       \* how many of the stream's drops were used

server == <<stream, instance, written, finished>>
store  == <<pending, backfill, rows, merged>>
vars   == <<server, history, live, accepted, captured, raced, store,
            reconnects, outcome, drops>>

-----------------------------------------------------------------------------
Sources == stream.sources

Record == [source: Sources, at: Nat, nth: Nat]
NoFilter == [boundary |-> -1, remaining |-> <<>>]
Filter == [boundary: Nat, remaining: Seq(Record)] \cup {NoFilter}
HistoryState ==
  [phase: {"opening", "reading", "complete"}, read: Nat, least: Nat,
   failed: BOOLEAN]
LiveState ==
  [phase: {"opening", "reading", "checking", "sleeping", "over"},
   first: BOOLEAN, next: Nat, opened: Nat, filter: Filter, failed: BOOLEAN]

TypeOK ==
  /\ stream \in Streams
  /\ instance \in {"current", "previous"}
  /\ {written, accepted} \subseteq [Sources -> Seq(Record)]
  /\ finished \subseteq Sources
  /\ history \in [Sources -> HistoryState]
  /\ live \in [Sources -> LiveState]
  /\ \A s \in Sources : history[s].read <= Len(written[s])
                        /\ captured[s] <= Len(accepted[s])
  /\ {pending, backfill, rows} \subseteq Seq(Record)
  /\ Len(pending) <= LiveCapacity
  /\ merged \in BOOLEAN
  /\ raced \subseteq Sources /\ reconnects \subseteq Sources
  /\ outcome \in {"running", "ended", "failed"}
  /\ drops \in 0..stream.drops

(* Streams may start before the container writes, or after.  The log of a  *)
(* container that is gone (PodLogInstance::Previous) does not grow while   *)
(* it is read; see Write.                                                  *)
Init ==
  /\ stream \in Streams
  /\ instance \in {"current", "previous"}
  /\ written = [s \in Sources |->
       IF stream.old = 0 THEN <<>> ELSE <<[source |-> s, at |-> 0, nth |-> 0]>>]
  /\ finished = {}
  /\ history = [s \in Sources |-> [phase |-> "opening", read |-> 0,
                                   least |-> 0, failed |-> FALSE]]
  /\ live = [s \in Sources |->
              [phase |-> IF instance = "previous" THEN "over" ELSE "opening",
               first |-> TRUE, next |-> 0, opened |-> Len(written[s]),
               filter |-> NoFilter, failed |-> FALSE]]
  /\ accepted = [s \in Sources |-> <<>>]
  /\ captured = [s \in Sources |-> 0]
  /\ raced = {}
  /\ pending = <<>> /\ backfill = <<>> /\ rows = <<>>
  /\ merged = FALSE
  /\ reconnects = {}
  /\ outcome = "running"
  /\ drops = 0

Occurrences(records, r) == Cardinality({i \in DOMAIN records : records[i] = r})
Spool(s)  == SubSeq(written[s], 1, history[s].read)
Prefix(s) == SubSeq(accepted[s], 1, captured[s])

(* A request fails or a connection breaks.                                 *)
Drop == drops < stream.drops /\ drops' = drops + 1

-----------------------------------------------------------------------------
(* The server: a container writes, and stops writing.                      *)

Now == Max({0} \cup {r.at : r \in UNION {Range(written[s]) : s \in Sources}})

Write(s) ==
  /\ s \notin finished
  /\ instance = "previous" => history[s].phase = "opening"
  /\ Len(written[s]) < stream.records
  /\ \E at \in {Now, Now + 1} :
       written' = [written EXCEPT ![s] =
                     Append(@, [source |-> s, at |-> at,
                                nth |-> Cardinality({i \in DOMAIN @ :
                                                       @[i].at = at})])]
  /\ UNCHANGED <<stream, instance, finished, history, live, accepted, captured,
                 raced, store, reconnects, outcome, drops>>

Finish(s) ==
  /\ s \notin finished
  /\ finished' = finished \cup {s}
  /\ UNCHANGED <<stream, instance, written, history, live, accepted, captured, raced,
                 store, reconnects, outcome, drops>>

-----------------------------------------------------------------------------
(* The order of records.                                                   *)

Precedes(q, r) ==
  \/ q.at < r.at
  \/ q.at = r.at /\ Rank[q.source] < Rank[r.source]

(* The records by their places: each comes after those that precede it and *)
(* those before it in records that it does not precede.                    *)
Sorted(records, Before(_, _)) ==
  LET Place(i) == Cardinality({j \in DOMAIN records : Before(j, i)}) IN
  [k \in DOMAIN records |->
     records[CHOOSE i \in DOMAIN records : Place(i) = k - 1]]

(* sort_by, which is stable.                                               *)
Chronological(records) ==
  Sorted(records, LAMBDA j, i : \/ Precedes(records[j], records[i])
                                \/ /\ ~Precedes(records[i], records[j])
                                   /\ j < i)

(* The merge of spools, whose heads compete: by timestamp and source, and  *)
(* those of one spool as they stand in it.                                 *)
MergedSpools(spools) ==
  LET records == UNION {Range(spool) : spool \in spools}
      Before(q, r) == \/ Precedes(q, r)
                      \/ q.source = r.source /\ q.at = r.at /\ q.nth < r.nth
  IN [k \in 1..Cardinality(records) |->
        CHOOSE r \in records :
          Cardinality({q \in records : Before(q, r)}) = k - 1]

(* Mutant: what live has delivered as well is not taken off.               *)
OverlapMutant(spool, prefix) == 0

(* The longest end of the history the live records begin with.             *)
Overlap(spool, prefix) ==
  Max({0} \cup {n \in 1..Min({Len(spool), Len(prefix)}) :
                  SubSeq(spool, Len(spool) - n + 1, Len(spool))
                    = SubSeq(prefix, 1, n)})

Trimmed(spool, prefix) ==
  SubSeq(spool, 1, Len(spool) - Overlap(spool, prefix))

-----------------------------------------------------------------------------
(* The backfill of a source.                                               *)

(* The follower has not delivered all records this history holds, and what *)
(* it delivers from now on will not be captured.                           *)
Behind(s) ==
  \/ /\ live[s].phase = "reading" \/ accepted[s] # <<>>
     /\ live[s].next < history[s].read
  \/ live[s].phase = "opening" /\ ~live[s].first

(* complete_source_backfill; the last source of all merges the spools.     *)
HistoryCompletes(s, failed) ==
  /\ history' = [history EXCEPT ![s].phase = "complete", ![s].failed = failed]
  /\ raced' = IF Behind(s) THEN raced \cup {s} ELSE raced
  /\ IF \A t \in Sources \ {s} : history[t].phase = "complete"
       THEN /\ merged' = TRUE
            /\ backfill' = MergedSpools(
                 {Trimmed(Spool(t), Prefix(t)) : t \in Sources})
       ELSE UNCHANGED <<merged, backfill>>
  /\ UNCHANGED <<server, live, accepted, captured, pending, rows, reconnects,
                 outcome>>

OpenHistory(s) ==
  /\ history[s].phase = "opening"
  /\ history' = [history EXCEPT ![s].phase = "reading",
                                ![s].least = Len(written[s])]
  /\ UNCHANGED <<server, live, accepted, captured, raced, store, reconnects,
                 outcome, drops>>

ReadHistory(s) ==
  /\ history[s].phase = "reading"
  /\ history[s].read < Len(written[s])
  /\ history' = [history EXCEPT ![s].read = @ + 1]
  /\ UNCHANGED <<server, live, accepted, captured, raced, store, reconnects,
                 outcome, drops>>

(* The response holds at least what was written when it was asked for.     *)
EndHistory(s) ==
  /\ history[s].phase = "reading"
  /\ history[s].read >= history[s].least
  /\ HistoryCompletes(s, FALSE)
  /\ UNCHANGED drops

FailHistory(s) ==
  /\ history[s].phase # "complete"
  /\ Drop
  /\ HistoryCompletes(s, TRUE)

-----------------------------------------------------------------------------
(* The follower of a source.                                               *)

(* ResumeCursor: the newest timestamp observed and the records with it.    *)
Cursor(records) ==
  IF records = <<>> THEN NoFilter
  ELSE LET newest == Max({r.at : r \in Range(records)}) IN
       [boundary |-> newest,
        remaining |-> SelectSeq(records, LAMBDA r : r.at = newest)]

(* The records of the history missing among the delivered, so that each    *)
(* counts as often as the one of the two that has it more often.           *)
Merged(delivered, others) ==
  LET lacking == SelectSeq([i \in DOMAIN others |-> i],
                   LAMBDA i : Occurrences(SubSeq(others, 1, i), others[i])
                                > Occurrences(delivered, others[i]))
  IN delivered \o [k \in DOMAIN lacking |-> others[lacking[k]]]

ResumeFilter(s) ==
  LET follow == Cursor(accepted[s])
      past   == Cursor(Spool(s))
  IN CASE follow.boundary > past.boundary -> follow
       [] follow.boundary < past.boundary -> past
       [] OTHER -> [follow EXCEPT
                      !.remaining = Merged(@, past.remaining)]

Accepts(filter, r) ==
  /\ r.at >= filter.boundary
  /\ ~(r.at = filter.boundary /\ r \in Range(filter.remaining))

AfterReplay(filter, r) ==
  IF r.at = filter.boundary /\ r \in Range(filter.remaining)
    THEN [filter EXCEPT !.remaining =
            RemoveAt(@, CHOOSE i \in DOMAIN @ : @[i] = r)]
    ELSE filter

(* The first request wants what is written from now on; a later one all    *)
(* since a second before the boundary, or before the follower was created. *)
StartsAt(s) ==
  LET f == live[s] IN
  IF f.first THEN {Len(written[s])}
  ELSE IF f.filter = NoFilter THEN 0..f.opened
  ELSE 0..Cardinality({i \in DOMAIN written[s] :
                         written[s][i].at < f.filter.boundary})

OpenFollow(s) ==
  /\ live[s].phase = "opening"
  /\ \E n \in StartsAt(s) :
       live' = [live EXCEPT ![s].phase = "reading", ![s].next = n,
                            ![s].first = FALSE,
                            ![s].opened = IF live[s].first THEN n ELSE @]
  /\ reconnects' = reconnects \ {s}
  /\ UNCHANGED <<server, history, accepted, captured, raced, store, outcome,
                 drops>>

FollowFails(s) ==
  /\ live' = [live EXCEPT ![s].phase = "over", ![s].failed = TRUE]
  /\ reconnects' = reconnects \ {s}

(* retryable_log_open_error, or another error.                             *)
FailFollow(s) ==
  /\ live[s].phase = "opening"
  /\ Drop
  /\ \/ /\ live' = [live EXCEPT ![s].phase = "checking", ![s].first = FALSE]
        /\ UNCHANGED reconnects
     \/ FollowFails(s)
  /\ UNCHANGED <<server, history, accepted, captured, raced, store, outcome>>

(* The row is observed, captured and left to the ordering window, once     *)
(* there is room for it.                                                   *)
Deliver(s, r) ==
  /\ Len(pending) < LiveCapacity
  /\ accepted' = [accepted EXCEPT ![s] = Append(@, r)]
  /\ captured' = IF history[s].phase = "complete" THEN captured
                 ELSE [captured EXCEPT ![s] = @ + 1]
  /\ pending' = Append(pending, r)

(* append_stream: one line.                                                *)
ReadLine(s) ==
  LET f == live[s]
      r == written[s][f.next + 1]
  IN /\ f.phase = "reading"
     /\ f.next < Len(written[s])
     /\ IF Accepts(f.filter, r)
          THEN Deliver(s, r)
          ELSE UNCHANGED <<accepted, captured, pending>>
     /\ live' = [live EXCEPT ![s].next = @ + 1,
                             ![s].filter = AfterReplay(@, r)]
     /\ UNCHANGED <<server, history, raced, backfill, rows, merged,
                    reconnects, outcome, drops>>

(* The stream of a finished container closes; any other may break.         *)
CloseFollow(s) ==
  /\ live[s].phase = "reading"
  /\ \/ s \in finished /\ live[s].next = Len(written[s]) /\ UNCHANGED drops
     \/ Drop
  /\ live' = [live EXCEPT ![s].phase = "checking"]
  /\ UNCHANGED <<server, history, accepted, captured, raced, store,
                 reconnects, outcome>>

(* The Pod is asked whether its container may write more.  An answer that  *)
(* fails and may be retried counts as yes.                                 *)
CheckPod(s) ==
  /\ live[s].phase = "checking"
  /\ \/ /\ s \in finished
        /\ live' = [live EXCEPT ![s].phase = "over"]
        /\ reconnects' = reconnects \ {s}
        /\ UNCHANGED drops
     \/ /\ IF s \in finished THEN Drop ELSE UNCHANGED drops
        /\ live' = [live EXCEPT ![s].phase = "sleeping"]
        /\ reconnects' = reconnects \cup {s}
     \/ FollowFails(s) /\ Drop
  /\ UNCHANGED <<server, history, accepted, captured, raced, store, outcome>>

(* After the backoff: the next request, with the filter of this moment.    *)
Resume(s) ==
  /\ live[s].phase = "sleeping"
  /\ live' = [live EXCEPT ![s].phase = "opening",
                          ![s].filter = ResumeFilter(s)]
  /\ raced' = IF history[s].phase # "complete" /\ accepted[s] # <<>>
                THEN raced \cup {s} ELSE raced
  /\ UNCHANGED <<server, history, accepted, captured, store, reconnects,
                 outcome, drops>>

-----------------------------------------------------------------------------
(* The loop of the stream.                                                 *)

(* flush_live: the batches older than the ordering window.                 *)
FlushLive ==
  /\ outcome = "running"
  /\ \E n \in 1..Len(pending) :
       /\ rows' = rows \o Chronological(SubSeq(pending, 1, n))
       /\ pending' = SubSeq(pending, n + 1, Len(pending))
  /\ UNCHANGED <<server, history, live, accepted, captured, raced, backfill,
                 merged, reconnects, outcome, drops>>

TargetFailed(s) ==
  /\ history[s].failed
  /\ instance = "current" => live[s].failed

EndStream ==
  /\ outcome = "running"
  /\ \A s \in Sources : live[s].phase = "over" /\ history[s].phase = "complete"
  /\ rows' = rows \o Chronological(pending)
  /\ pending' = <<>>
  /\ outcome' = IF \A s \in Sources : TargetFailed(s) THEN "failed" ELSE "ended"
  /\ reconnects' = {}
  /\ UNCHANGED <<server, history, live, accepted, captured, raced, backfill,
                 merged, drops>>

-----------------------------------------------------------------------------
HistoryStep(s) ==
  s \in Sources /\ (OpenHistory(s) \/ ReadHistory(s) \/ EndHistory(s))

FollowStep(s) ==
  /\ s \in Sources
  /\ \/ OpenFollow(s) \/ ReadLine(s) \/ CheckPod(s) \/ Resume(s)
     \/ s \in finished /\ CloseFollow(s)

Next ==
  \/ \E s \in Sources :
       \/ Write(s) \/ Finish(s)
       \/ OpenHistory(s) \/ ReadHistory(s) \/ EndHistory(s) \/ FailHistory(s)
       \/ OpenFollow(s) \/ FailFollow(s) \/ ReadLine(s) \/ CloseFollow(s)
       \/ CheckPod(s) \/ Resume(s)
  \/ FlushLive \/ EndStream

Spec == Init /\ [][Next]_vars

(* The server answers and the tasks of the stream run: it is enough that   *)
(* some task goes on as long as one can.                                   *)
StreamStep ==
  \/ \E s \in Sources : HistoryStep(s) \/ FollowStep(s)
  \/ FlushLive \/ EndStream

FairSpec == Spec /\ WF_vars(StreamStep)

-----------------------------------------------------------------------------
(* Properties.                                                             *)

OfSource(records, s) == SelectSeq(records, LAMBDA r : r.source = s)
Shown == backfill \o rows \o pending

(* However often its follow stream breaks and is opened again with an      *)
(* overlap of a second, a follower takes no record twice, also among       *)
(* records with one timestamp, and its rows keep the order of the source   *)
(* (pod_logs.rs:508-514, 531-555).                                         *)
FollowedOnce(s) ==
  /\ OfSource(rows \o pending, s) = accepted[s]
  /\ \A r \in Range(accepted[s]) :
       Occurrences(accepted[s], r) <= Occurrences(written[s], r)

(* A record shows once: each follower takes its records once and in order, *)
(* and one that history and follow stream both deliver shows once, unless  *)
(* the two crossed: the follower was behind what the history holds when    *)
(* that was complete, or was opened again before (pod_logs.rs:253).        *)
ShownOnce ==
  /\ \A s \in Sources : FollowedOnce(s)
  /\ merged => \A s \in Sources \ raced : \A r \in Range(written[s]) :
                 Occurrences(Shown, r) <= Occurrences(written[s], r)

(* A stream that ended shows every record of a source none of whose        *)
(* requests failed for good, but for those written after the history was   *)
(* answered and before the follow stream was opened (pod_logs.rs:809), and *)
(* those not read when it broke and the container had finished meanwhile.  *)
NothingMissed ==
  outcome # "running" =>
    \A s \in Sources :
      \A i \in DOMAIN written[s] :
        \/ written[s][i] \in Range(Shown)
        \/ history[s].failed \/ live[s].failed
        \/ instance = "current" /\ history[s].read < i /\ i <= live[s].opened
        \/ instance = "current" /\ live[s].next < i

(* When every container has finished, the stream ends and says so: neither *)
(* a source that reconnects nor the bounded ordering buffer keeps it.      *)
StreamEnds == []<>(finished = Sources => outcome # "running")

=============================================================================
