------------------------------ MODULE LogWindows ------------------------------
(***************************************************************************)
(* The pod log windows of one connected cluster and the log streams the    *)
(* worker runs for them: ui/log_windows.rs and ui/state/openings.rs on one *)
(* side, worker/log_commands.rs and worker/pod_logs.rs on the other.  A    *)
(* command crosses three queues: the pending commands of the user          *)
(* interface, which never waits for the worker; the bounded channel to the *)
(* router; and the channel of the cluster runtime, which executes these    *)
(* commands one at a time, in order (dispatch_in_order).                   *)
(*                                                                         *)
(* A stream is known by the id of the window it was started for.  What it  *)
(* writes into the log store is left out, but for the failures the store   *)
(* reports.  An aborted stream is gone at once: the bounded join of        *)
(* abort_task is not modelled.                                             *)
(***************************************************************************)
EXTENDS Integers, Sequences, SequencesExt, FiniteSets

CONSTANTS
  ChannelLimit,      \* capacity of the channel to the router, 64 in the code
  MaxWindows,        \* bound: window ids ever given out
  MaxStoreFailures   \* bound: failures reported by the log store

LogAssumption ==
  /\ ChannelLimit \in Nat \ {0}
  /\ MaxWindows \in Nat
  /\ MaxStoreFailures \in Nat

VARIABLES
  viewports,     \* UI: the native window each id was given out for
  windows,       \* UI: log_windows, by id
  pending,       \* UI: commands not yet accepted by the channel
  channel,       \* commands in the bounded channel to the router
  queue,         \* commands in the channel of the cluster runtime
  report,        \* the result of the command just executed, if any
  registered,    \* worker: keys of log_streams
  running,       \* worker: those whose task still runs
  results,       \* the result channel
  storeFailures, \* windows whose log store reported a failure
  failures       \* how much of MaxStoreFailures was used

path   == <<pending, channel, queue>>
worker == <<report, registered, running>>
vars   == <<viewports, windows, path, worker, results, storeFailures,
            failures>>

-----------------------------------------------------------------------------
Ids     == 1..MaxWindows
Window  == [instance: {"current", "previous"},
            status: {"connecting", "following", "loading", "finished",
                     "failed"}]
Command == [kind: {"start", "stop"}, window: Ids]
Result  == [kind: {"started", "ended", "failed"}, window: Ids]

TypeOK ==
  /\ viewports \in Seq(Ids)
  /\ DOMAIN windows \subseteq DOMAIN viewports
  /\ \A w \in DOMAIN windows : windows[w] \in Window
  /\ {pending, channel, queue} \subseteq Seq(Command)
  /\ Len(channel) <= ChannelLimit
  /\ report \in {<<>>} \cup {<<r>> : r \in Result}
  /\ running \subseteq registered
  /\ registered \subseteq DOMAIN viewports
  /\ results \in Seq(Result)
  /\ storeFailures \subseteq DOMAIN viewports
  /\ failures \in 0..MaxStoreFailures

Init ==
  /\ viewports = <<>>
  /\ windows = [w \in {} |-> 0]
  /\ pending = <<>>
  /\ channel = <<>>
  /\ queue = <<>>
  /\ report = <<>>
  /\ registered = {}
  /\ running = {}
  /\ results = <<>>
  /\ storeFailures = {}
  /\ failures = 0

Start(w) == [kind |-> "start", window |-> w]
Stop(w)  == [kind |-> "stop", window |-> w]
About(w, kind) == [kind |-> kind, window |-> w]

-----------------------------------------------------------------------------
(* The user.                                                               *)

(* PodLogWindowState::new                                                  *)
Opened(instance) ==
  [instance |-> instance, status |-> "connecting"]

(* next_log_window_id + 1                                                  *)
NewId == Len(viewports) + 1

(* One more id, for the native window `viewport`, instead of those in gone.*)
Shown(viewport, instance, gone) ==
  /\ NewId <= MaxWindows
  /\ viewports' = Append(viewports, viewport)
  /\ windows' = [w \in (DOMAIN windows \ gone) \cup {NewId} |->
                   IF w = NewId THEN Opened(instance) ELSE windows[w]]

Sends(commands) == pending' = pending \o commands

OpenLogWindow ==
  /\ Shown(NewId, "current", {})
  /\ Sends(<<Start(NewId)>>)
  /\ UNCHANGED <<channel, queue, worker, results, storeFailures, failures>>

(* show, for a window with close_requested                                 *)
CloseLogWindow(w) ==
  /\ windows' = [v \in DOMAIN windows \ {w} |-> windows[v]]
  /\ Sends(<<Stop(w)>>)
  /\ UNCHANGED <<viewports, channel, queue, worker, results, storeFailures,
                 failures>>

SwitchCommands(old, new) == <<Stop(old), Start(new)>>

(* switch_log_window_instance: the same native window under a new id, so   *)
(* that late results of the old stream miss it.                            *)
SwitchInstance(w) ==
  /\ Shown(viewports[w],
           IF windows[w].instance = "current" THEN "previous" ELSE "current",
           {w})
  /\ Sends(SwitchCommands(w, NewId))
  /\ UNCHANGED <<channel, queue, worker, results, storeFailures, failures>>

-----------------------------------------------------------------------------
(* Results applied by the user interface.                                  *)

Received(kind) ==
  /\ results # <<>>
  /\ Head(results).kind = kind
  /\ results' = Tail(results)
  /\ UNCHANGED <<viewports, path, worker, storeFailures, failures>>

(* A result for a window that is gone changes nothing.                     *)
Update(w, window(_)) ==
  windows' = [v \in DOMAIN windows |->
                IF v = w THEN window(windows[v]) ELSE windows[v]]

(* Mutant: the result of the start overwrites what the stream reported.    *)
AfterStartMutant(window) ==
  [window EXCEPT !.status =
     IF window.instance = "current" THEN "following" ELSE "loading"]

(* The stream may report before the command that spawned it does.          *)
AfterStart(window) ==
  IF window.status # "connecting" THEN window
  ELSE [window EXCEPT !.status =
          IF window.instance = "current" THEN "following" ELSE "loading"]

AfterEnd(window) ==
  IF window.status = "failed" THEN window
  ELSE [window EXCEPT !.status = "finished"]

AfterFailure(window) ==
  [window EXCEPT !.status = "failed"]

ApplyStarted == Received("started") /\ Update(Head(results).window, AfterStart)
ApplyEnded   == Received("ended")   /\ Update(Head(results).window, AfterEnd)
ApplyFailed  == Received("failed")  /\ Update(Head(results).window, AfterFailure)

StopsFailed(w) ==
  IF w \in DOMAIN windows /\ windows[w].status # "failed" THEN <<Stop(w)>>
                                                          ELSE <<>>

(* LogStoreResult::Failed, in MyEguiApp::logic                             *)
ApplyStoreFailure(w) ==
  /\ w \in storeFailures
  /\ storeFailures' = storeFailures \ {w}
  /\ Sends(StopsFailed(w))
  /\ LET Failed(window) == [window EXCEPT !.status = "failed"]
     IN  Update(w, Failed)
  /\ UNCHANGED <<viewports, channel, queue, worker, results, failures>>

-----------------------------------------------------------------------------
(* The way of a command.                                                   *)

(* Mutant: the capacity is off by one.                                     *)
FitsMutant == Len(channel) <= ChannelLimit

Fits == Len(channel) < ChannelLimit

(* flush_pending_commands: try_send, and push_front when it is full.       *)
Flush ==
  /\ pending # <<>>
  /\ Fits
  /\ pending' = Tail(pending)
  /\ channel' = Append(channel, Head(pending))

FlushPendingCommands ==
  /\ Flush
  /\ UNCHANGED <<viewports, windows, queue, worker, results, storeFailures,
                 failures>>

(* WorkerRuntime::run hands it to the cluster runtime.                     *)
Route ==
  /\ channel # <<>>
  /\ channel' = Tail(channel)
  /\ queue' = Append(queue, Head(channel))
  /\ UNCHANGED <<viewports, windows, pending, worker, results, storeFailures,
                 failures>>

-----------------------------------------------------------------------------
(* The cluster runtime.                                                    *)

(* Mutant: commands are spawned, and run in any order.                     *)
TakesMutant(kind, w) ==
  \E i \in DOMAIN queue :
    /\ queue[i] = About(w, kind)
    /\ queue' = RemoveAt(queue, i)

Takes(kind, w) ==
  /\ queue # <<>>
  /\ Head(queue) = About(w, kind)
  /\ queue' = Tail(queue)

Executes(kind, w) ==
  /\ report = <<>>
  /\ Takes(kind, w)
  /\ UNCHANGED <<viewports, windows, pending, channel, results, storeFailures,
                 failures>>

Reports(w, kind) == report' = <<About(w, kind)>>

(* StartPodLogStream: the stream runs before its start is reported.        *)
StartPodLogStream(w) ==
  /\ Executes("start", w)
  /\ registered' = registered \cup {w}
  /\ running' = running \cup {w}
  /\ Reports(w, "started")

(* clients_for_log_stream finds no connection.                             *)
StartFails(w) ==
  /\ Executes("start", w)
  /\ Reports(w, "failed")
  /\ UNCHANGED <<registered, running>>

(* It also ends a stream that is already over, or never was.               *)
StopPodLogStream(w) ==
  /\ Executes("stop", w)
  /\ registered' = registered \ {w}
  /\ running' = running \ {w}
  /\ Reports(w, "ended")

(* dispatch_command sends the result before the loop goes on.              *)
SendReport ==
  /\ report # <<>>
  /\ report' = <<>>
  /\ results' = results \o report
  /\ UNCHANGED <<viewports, windows, path, registered, running,
                 storeFailures, failures>>

-----------------------------------------------------------------------------
(* The stream of window w: pod_logs::stream and LiveLogFollower::follow.   *)

Tells(w, kind) == results' = Append(results, About(w, kind))

LastWord(w) == Tells(w, "ended") \/ Tells(w, "failed")

(* Its key stays in the registry until its window stops it.                *)
StreamEnds(w) ==
  /\ w \in running
  /\ running' = running \ {w}
  /\ LastWord(w)
  /\ UNCHANGED <<viewports, windows, path, report, registered, storeFailures,
                 failures>>

(* The log store cannot write or read what the stream gave it.             *)
StoreFails(w) ==
  /\ w \notin storeFailures
  /\ failures < MaxStoreFailures
  /\ failures' = failures + 1
  /\ storeFailures' = storeFailures \cup {w}
  /\ UNCHANGED <<viewports, windows, path, worker, results>>

-----------------------------------------------------------------------------
UserStep   == OpenLogWindow \/ \E w \in DOMAIN windows :
                                  CloseLogWindow(w) \/ SwitchInstance(w)
ApplyStep  == ApplyStarted \/ ApplyEnded \/ ApplyFailed
ApplyStoreStep == \E w \in storeFailures : ApplyStoreFailure(w)
ServeStep  == \/ SendReport
              \/ \E w \in Ids : StartPodLogStream(w) \/ StartFails(w)
                                  \/ StopPodLogStream(w)
StreamStep == \E w \in running : StreamEnds(w)
StoreStep  == \E w \in DOMAIN windows \cup registered : StoreFails(w)

Next == \/ UserStep \/ ApplyStep \/ ApplyStoreStep \/ FlushPendingCommands \/ Route
        \/ ServeStep \/ StreamStep \/ StoreStep

Spec == Init /\ [][Next]_vars

(* Frames are drawn, and the router and the cluster runtime keep running;  *)
(* nothing is assumed of the user, the streams and the API server.         *)
FairSpec ==
  /\ Spec
  /\ WF_vars(ApplyStep)
  /\ WF_vars(ApplyStoreStep)
  /\ WF_vars(FlushPendingCommands)
  /\ WF_vars(Route)
  /\ WF_vars(ServeStep)

-----------------------------------------------------------------------------
(* Properties.                                                             *)

(* The commands under way, in the order in which they will execute.        *)
UnderWay == queue \o channel \o pending

StopUnderWay(w) == \E i \in DOMAIN UnderWay : UnderWay[i] = Stop(w)
ToCome(w)       == \E i \in DOMAIN UnderWay : UnderWay[i] = Start(w)

Live(w) == w \in DOMAIN windows
             /\ windows[w].status \in {"connecting", "following", "loading"}

LastWords(w, s) == \E i \in DOMAIN s : s[i].window = w
                                         /\ s[i].kind \in {"ended", "failed"}

(* However windows are opened, switched and closed while commands wait in  *)
(* three queues, a stream that runs belongs to a window that shows it as   *)
(* live, or its stop is under way; and a start under way is for an open    *)
(* window or has its stop behind it: no follow stream is left behind       *)
(* (worker_runtime.rs:93-95).                                              *)
NoStreamLeftBehind ==
  /\ \A w \in running : Live(w) \/ StopUnderWay(w)
  /\ \A i \in DOMAIN UnderWay :
       UnderWay[i].kind = "start" =>
         \/ UnderWay[i].window \in DOMAIN windows
         \/ \E j \in DOMAIN UnderWay :
              j > i /\ UnderWay[j] = Stop(UnderWay[i].window)

(* A window that shows a live stream has one, or will have, or will hear   *)
(* of its end: none says "Following" about a stream that is over.          *)
LiveIsTrue ==
  \A w \in DOMAIN windows :
    Live(w) => \/ ToCome(w)
               \/ w \in running
               \/ LastWords(w, results \o report)

(* Switching between current and previous logs gives the native window a   *)
(* new stream; the two never run, and fill their stores, together.         *)
OneStreamPerViewport ==
  \A v, w \in running : viewports[v] = viewports[w] => v = w

Connecting(w) == w \in DOMAIN windows /\ windows[w].status = "connecting"
Abandoned(w)  == w \in running /\ w \notin DOMAIN windows

(* Whatever the channel is full of, an opened window learns what became of *)
(* its stream, and the stream of a closed window ends.                     *)
Settled(w)    == ~Connecting(w) /\ ~Abandoned(w)
WindowsSettle == \A w \in Ids : []<>Settled(w)

=============================================================================
