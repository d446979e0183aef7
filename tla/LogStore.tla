------------------------------- MODULE LogStore -------------------------------
(***************************************************************************)
(* The log store of one log window and what the window keeps of it: the    *)
(* store thread with its four lanes (log_store.rs, log_store/runner.rs),   *)
(* its rows, search index and background scans (log_store/storage,         *)
(* log_store/scan.rs), and the pages, live rows and search state of the    *)
(* window (ui/log_state.rs, ui/log_windows/search.rs).                     *)
(*                                                                         *)
(* A record is its position in the log of the pod: the live stream begins  *)
(* at some record and goes on from there, the history request returns the  *)
(* records up to some other.  Rows are counted from 1, page starts from 0. *)
(* Copying, resolving a match, the caret, the page cache limit, storage    *)
(* failures and invalid expressions are left out; so are the limit of 1024 *)
(* rows on the overlap, and the wake-up of the store thread, which is taken*)
(* to notice every command.                                                *)
(***************************************************************************)
EXTENDS Integers, Sequences, SequencesExt, FiniteSets, FiniteSetsExt

CONSTANTS
  LogSize,         \* bound: records the log ever has
  HistorySize,     \* records the history request returns
  Queries,         \* what the user may search for
  NoQuery,         \* the empty query
  Matches(_),      \* the records a query matches
  PageSize,        \* LOG_PAGE_SIZE, 256 in the code
  LiveLimit,       \* live rows kept, 2 * LOG_PAGE_SIZE in the code
  LaneLimit,       \* capacity of a lane
  ResultLimit,     \* capacity of the result channel
  MaxGenerations   \* bound: search generations of the window

ASSUME LogStoreAssumption ==
  /\ {LogSize, HistorySize, MaxGenerations} \subseteq Nat
  /\ HistorySize <= LogSize
  /\ NoQuery \notin Queries
  /\ \A q \in Queries : Matches(q) \subseteq 1..LogSize
  /\ {PageSize, LiveLimit, LaneLimit, ResultLimit} \subseteq Nat \ {0}

VARIABLES
  lanes,     \* the commands queued in each lane
  streamed,  \* last record the live stream has appended
  recalled,  \* history records appended; HistorySize + 1 when completed
  store,     \* the LogStore, or NoStore
  scans,     \* the search threads
  results,   \* the result channel
  update,    \* the coalesced live update of the window, or NoUpdate
  window,    \* the window, or NoWindow
  poll       \* UI: where try_next_result, or the frame, is

input == <<lanes, streamed, recalled>>
vars  == <<lanes, streamed, recalled, store, scans, results, update, window,
           poll>>

-----------------------------------------------------------------------------
Records     == 1..LogSize
Generations == 0..MaxGenerations
Key    == [generation: Generations, filter: BOOLEAN, start: Nat]
Lanes  == <<"control", "live", "backfill", "scan">>   \* by priority
Search == [generation: Generations, query: Queries, hits: Seq(Nat \ {0}),
           complete: BOOLEAN]
Scan   == [generation: Generations, query: Queries, rows: Seq(Records),
           at: Nat]

NoStore  == [open |-> FALSE]
NoSearch == [generation |-> -1, complete |-> FALSE]
NoUpdate == [total |-> -1]
NoWindow == [open |-> FALSE]
NoRows   == [k \in {} |-> 0]

Store  == [open: {TRUE}, live: Seq(Records), history: Seq(Records),
           rebased: BOOLEAN, overlap: Nat, search: Search \cup {NoSearch}]
Window == [open: {TRUE}, total: Nat, generation: Generations,
           query: Queries \cup {NoQuery},
           filter: BOOLEAN, count: Nat, complete: BOOLEAN, due: BOOLEAN,
           pending: SUBSET Key, stale: SUBSET Key]

TypeOK ==
  /\ DOMAIN lanes = Range(Lanes)
  /\ \A lane \in DOMAIN lanes : Len(lanes[lane]) <= LaneLimit
  /\ streamed \in 0..LogSize
  /\ recalled \in 0..HistorySize + 1
  /\ store = NoStore \/ store \in Store
  /\ scans \subseteq Scan
  /\ Len(results) <= ResultLimit + 1
  /\ update # NoUpdate => /\ update.total \in Nat
                          /\ Cardinality(DOMAIN update.rows) <= LiveLimit
  /\ window # NoWindow =>
       /\ [f \in DOMAIN window \ {"pages", "liveRows"} |-> window[f]] \in Window
       /\ Cardinality(DOMAIN window.liveRows) <= LiveLimit
       /\ DOMAIN window.pages \subseteq Key
       /\ \A k \in DOMAIN window.pages : window.pages[k] \in Seq(Records)
  /\ poll \in {"receiving", "taking", "drawing"}

Init ==
  /\ lanes = [lane \in Range(Lanes) |-> <<>>]
  /\ streamed \in 0..HistorySize
  /\ recalled = 0
  /\ store = [open |-> TRUE, live |-> <<>>, history |-> <<>>,
              rebased |-> FALSE, overlap |-> 0, search |-> NoSearch]
  /\ scans = {}
  /\ results = <<>>
  /\ update = NoUpdate
  /\ window = [open |-> TRUE, total |-> 0, generation |-> 0, query |-> NoQuery,
               filter |-> FALSE, count |-> 0, complete |-> TRUE, due |-> FALSE,
               pending |-> {}, stale |-> {}, pages |-> NoRows,
               liveRows |-> NoRows]
  /\ poll = "receiving"

-----------------------------------------------------------------------------
(* The lanes.                                                              *)

Room(lane) == Len(lanes[lane]) < LaneLimit
Puts(lane, command) == lanes' = [lanes EXCEPT ![lane] = Append(@, command)]

(* LogStoreAppender::append: the stream waits for room in the live lane.   *)
StreamAppends ==
  /\ streamed < LogSize
  /\ Room("live")
  /\ streamed' = streamed + 1
  /\ Puts("live", [kind |-> "append", record |-> streamed'])
  /\ UNCHANGED <<recalled, store, scans, results, update, window, poll>>

(* append_backfill for each record, complete_backfill after the last       *)
HistoryAppends ==
  /\ recalled <= HistorySize
  /\ Room("backfill")
  /\ recalled' = recalled + 1
  /\ Puts("backfill", IF recalled < HistorySize
                      THEN [kind |-> "recall", record |-> recalled']
                      ELSE [kind |-> "complete"])
  /\ UNCHANGED <<streamed, store, scans, results, update, window, poll>>

(* send_result: the thread waits for room in the result channel; what it   *)
(* waits to send is the last of results.                                   *)
Waiting == Len(results) > ResultLimit
Answers(result) == results' = Append(results, result)

(* next_store_command: what the window asks for overtakes appends, history *)
(* comes after the live stream, and scans are last.                        *)
Takes(lane, kind) ==
  /\ lanes[lane] # <<>>
  /\ Head(lanes[lane]).kind = kind
  /\ ~Waiting
  /\ \A i, j \in 1..4 : Lanes[j] = lane /\ i < j => lanes[Lanes[i]] = <<>>
  /\ lanes' = [lanes EXCEPT ![lane] = Tail(@)]
  /\ UNCHANGED <<streamed, recalled, window, poll>>

-----------------------------------------------------------------------------
(* The rows and the search index of the store: log_store/storage.          *)

(* LogicalReader: history, then the live records it does not have.         *)
Rows(s) == IF s.rebased
           THEN s.history \o SubSeq(s.live, s.overlap + 1, Len(s.live))
           ELSE s.live

(* find_backfill_overlap                                                   *)
Overlap(history, live) ==
  Max({n \in 0..Len(live) :
         n <= Len(history)
         /\ SubSeq(history, Len(history) - n + 1, Len(history))
              = SubSeq(live, 1, n)})

(* The matches after the row `from`, in order.                             *)
Hits(rows, query, from) ==
  LET found == {i \in from + 1..Len(rows) : rows[i] \in Matches(query)}
  IN  [n \in 1..Cardinality(found) |->
         CHOOSE i \in found : Cardinality({j \in found : j <= i}) = n]

(* Mutant: the rows kept are not limited.                                  *)
NewestMutant(rows) == rows

Newest(rows) ==
  LET kept == {i \in DOMAIN rows :
                 Cardinality({j \in DOMAIN rows : j > i}) < LiveLimit}
  IN  [i \in kept |-> rows[i]]

With(rows, i, record) ==
  [j \in DOMAIN rows \cup {i} |-> IF j = i THEN record ELSE rows[j]]

-----------------------------------------------------------------------------
(* The store thread: run_store.  A closed window has no store any more, and*)
(* its commands do nothing.                                                *)

Unless(done) == IF store.open THEN done
                ELSE UNCHANGED <<store, scans, results, update>>

(* publish_live: one entry, which later appends extend.                    *)
PublishLive(s) ==
  update' = [total  |-> Len(Rows(s)),
             search |-> IF s.search.complete
                        THEN <<s.search.generation, Len(s.search.hits)>>
                        ELSE <<>>,
             rows   |-> Newest(With(IF update = NoUpdate THEN NoRows
                                                         ELSE update.rows,
                                    Len(Rows(s)), Last(s.live)))]

(* LogStore::append: a completed search goes on with each new row.         *)
Appended(s, record) ==
  LET longer == [s EXCEPT !.live = Append(@, record)]
  IN  IF s.search.complete /\ record \in Matches(s.search.query)
      THEN [longer EXCEPT !.search.hits = Append(@, Len(Rows(longer)))]
      ELSE longer

ExecuteAppend ==
  /\ Takes("live", "append")
  /\ Unless(/\ store' = Appended(store, Head(lanes["live"]).record)
            /\ PublishLive(store')
            /\ UNCHANGED <<scans, results>>)

(* publish_backfill tells how far it came; the rows are the same.          *)
ExecuteRecall ==
  /\ Takes("backfill", "recall")
  /\ Unless(/\ store' = [store EXCEPT !.history =
                           Append(@, Head(lanes["backfill"]).record)]
            /\ update' = IF update = NoUpdate
                         THEN [total |-> Len(Rows(store)), search |-> <<>>,
                               rows |-> NoRows]
                         ELSE [update EXCEPT !.total = Len(Rows(store))]
            /\ UNCHANGED <<scans, results>>)

(* Mutant: the pending live update survives the rebase.                    *)
ForgetMutant == UNCHANGED update

Forget == update' = NoUpdate

(* complete_backfill: new rows, and no search any more                     *)
ExecuteComplete ==
  /\ Takes("backfill", "complete")
  /\ Unless(IF store.history = <<>>
            THEN UNCHANGED <<store, scans, results, update>>
            ELSE /\ store' = [store EXCEPT
                                !.rebased = TRUE,
                                !.overlap = Overlap(store.history, store.live),
                                !.search = NoSearch]
                 /\ Forget
                 /\ Answers([kind |-> "rebased", total |-> Len(Rows(store'))])
                 /\ UNCHANGED scans)

(* start_search, with a thread that reads the rows of the moment           *)
ExecuteSearch ==
  /\ Takes("control", "search")
  /\ LET c == Head(lanes["control"])
     IN  Unless(/\ store' = [store EXCEPT !.search =
                               [generation |-> c.generation,
                                query |-> c.query, hits |-> <<>>,
                                complete |-> FALSE]]
                /\ scans' = scans \cup {[generation |-> c.generation,
                                         query |-> c.query,
                                         rows |-> Rows(store), at |-> 0]}
                /\ UNCHANGED <<results, update>>)

(* LogStore::page: a filtered page of another generation has no rows.      *)
PageRows(key, total) ==
  LET last == Min({key.start + PageSize, total})
  IN  [i \in 1..Max({last - key.start, 0}) |->
         Rows(store)[IF key.filter THEN store.search.hits[key.start + i]
                                   ELSE key.start + i]]

ExecuteLoadPage ==
  /\ Takes("control", "page")
  /\ LET key   == Head(lanes["control"]).key
         total == IF ~key.filter THEN Len(Rows(store))
                  ELSE IF store.search.generation = key.generation
                       THEN Len(store.search.hits) ELSE 0
     IN  Unless(/\ Answers([kind |-> "page", key |-> key, total |-> total,
                            rows |-> PageRows(key, total)])
                /\ UNCHANGED <<store, scans, update>>)

ExecuteClose ==
  /\ Takes("control", "close")
  /\ store' = NoStore
  /\ update' = NoUpdate
  /\ UNCHANGED <<scans, results>>

(* ScanMatches, ScanProgress; those of a search replaced are dropped.      *)
ExecuteScanned ==
  /\ Takes("scan", "scanned")
  /\ LET c == Head(lanes["scan"])
     IN  Unless(IF store.search.generation # c.generation
                THEN UNCHANGED <<store, scans, results, update>>
                ELSE /\ store' = [store EXCEPT !.search.hits = @ \o c.hits]
                     /\ Answers([kind |-> "progress",
                                 generation |-> c.generation,
                                 total |-> Len(Rows(store)),
                                 count |-> Len(store'.search.hits)])
                     /\ UNCHANGED <<scans, update>>)

(* Mutant: the rows appended while the scan ran are not searched.          *)
SearchedLateMutant(s, scanned) == <<>>

(* finish_search: the rows appended while the scan ran                     *)
SearchedLate(s, scanned) == Hits(Rows(s), s.search.query, scanned)

ExecuteScanCompleted ==
  /\ Takes("scan", "completed")
  /\ LET c == Head(lanes["scan"])
     IN  Unless(IF store.search.generation # c.generation
                THEN UNCHANGED <<store, scans, results, update>>
                ELSE /\ store' = [store EXCEPT
                                    !.search.complete = TRUE,
                                    !.search.hits = @ \o SearchedLate(store, c.scanned)]
                     /\ Answers([kind |-> "completed",
                                 generation |-> c.generation,
                                 count |-> Len(store'.search.hits)])
                     /\ UNCHANGED <<scans, update>>)

-----------------------------------------------------------------------------
(* A search thread: scan_records, with a message for each row.             *)

ScanRow(s) ==
  /\ s.at < Len(s.rows)
  /\ Room("scan")
  /\ scans' = (scans \ {s}) \cup {[s EXCEPT !.at = @ + 1]}
  /\ Puts("scan", [kind |-> "scanned", generation |-> s.generation,
                   hits |-> IF s.rows[s.at + 1] \in Matches(s.query)
                            THEN <<s.at + 1>> ELSE <<>>])
  /\ UNCHANGED <<streamed, recalled, store, results, update, window, poll>>

ScanEnds(s) ==
  /\ s.at = Len(s.rows)
  /\ Room("scan")
  /\ scans' = scans \ {s}
  /\ Puts("scan", [kind |-> "completed", generation |-> s.generation,
                   scanned |-> s.at])
  /\ UNCHANGED <<streamed, recalled, store, results, update, window, poll>>

(* It sees its cancellation flag, or not yet.                              *)
ScanCancelled(s) ==
  /\ store.open
  /\ store.search.generation # s.generation
  /\ scans' = scans \ {s}
  /\ UNCHANGED <<lanes, streamed, recalled, store, results, update, window,
                 poll>>

-----------------------------------------------------------------------------
(* The window applies results: try_next_result, apply_store_result.        *)

Received(kind) ==
  /\ poll = "receiving"
  /\ results # <<>>
  /\ Head(results).kind = kind
  /\ results' = Tail(results)
  /\ UNCHANGED <<input, store, scans, update, poll>>

Applies(changed) == window' = IF window.open THEN changed ELSE window

(* clear_pages                                                             *)
Cleared(w) == [w EXCEPT !.pages = NoRows, !.liveRows = NoRows,
                        !.pending = {}, !.stale = {}]

KeyOf(w, row) == [generation |-> w.generation,
                  filter |-> w.filter /\ w.query # NoQuery,
                  start |-> ((row - 1) \div PageSize) * PageSize]

(* update_search_match_count: the last page of matches was a partial one.  *)
Counted(w, count) ==
  LET key == [generation |-> w.generation, filter |-> TRUE,
              start |-> (w.count \div PageSize) * PageSize]
  IN  [w EXCEPT !.count = count,
                !.stale = @ \cup {k \in DOMAIN w.pages :
                                    /\ k = key
                                    /\ count > w.count
                                    /\ (w.count = 0 \/ w.count % PageSize # 0)}]

Restarted(w) ==
  IF w.query = NoQuery THEN w
  ELSE [w EXCEPT !.generation = @ + 1, !.count = 0, !.complete = FALSE,
                 !.due = TRUE]

ApplyRebased ==
  /\ Received("rebased")
  /\ Applies(Restarted([Cleared(window) EXCEPT !.total = Head(results).total]))

ApplyProgress ==
  /\ Received("progress")
  /\ LET r == Head(results)
     IN  Applies(IF window.generation # r.generation THEN window
                 ELSE [Counted(window, r.count) EXCEPT
                         !.total = r.total, !.complete = FALSE])

ApplyCompleted ==
  /\ Received("completed")
  /\ LET r == Head(results)
     IN  Applies(IF window.generation # r.generation THEN window
                 ELSE [Counted(window, r.count) EXCEPT !.complete = TRUE])

(* insert_page: its rows replace live rows.                                *)
Inserted(w, key, rows) ==
  [w EXCEPT
     !.pending = @ \ {key},
     !.stale = @ \ {key},
     !.pages = With(@, key, rows),
     !.liveRows = IF key.filter THEN @
                  ELSE [i \in DOMAIN @ \ (key.start + 1..key.start + Len(rows))
                          |-> w.liveRows[i]]]

ApplyPage ==
  /\ Received("page")
  /\ LET r       == Head(results)
         loaded  == Inserted(window, r.key, r.rows)
         another == r.key.filter /\ r.total < window.count
     IN  Applies(
           IF r.key.generation # window.generation THEN window
           ELSE IF ~r.key.filter THEN [loaded EXCEPT !.total = r.total]
           ELSE [loaded EXCEPT
                   !.count = IF another THEN @ ELSE r.total,
                   !.stale = IF another THEN @ \cup {r.key} ELSE @])

(* The result channel is empty; the pending update is looked at next.      *)
FindNoResult ==
  /\ poll = "receiving"
  /\ results = <<>>
  /\ poll' = "taking"
  /\ UNCHANGED <<input, store, scans, results, update, window>>

Shown(w) == IF w.filter /\ w.query # NoQuery THEN w.count ELSE w.total

(* LiveUpdates::take_next                                                  *)
ApplyUpdate ==
  /\ poll = "taking"
  /\ update # NoUpdate
  /\ update' = NoUpdate
  /\ poll' = "receiving"
  /\ LET counted == IF update.search # <<>>
                         /\ update.search[1] = window.generation
                    THEN Counted(window, update.search[2]) ELSE window
         live    == IF window.filter /\ window.query # NoQuery
                    THEN window.liveRows
                    ELSE Newest([i \in DOMAIN window.liveRows
                                        \cup DOMAIN update.rows |->
                                   IF i \in DOMAIN update.rows
                                   THEN update.rows[i] ELSE window.liveRows[i]])
     IN  Applies([counted EXCEPT !.total = update.total, !.liveRows = live])
  /\ UNCHANGED <<input, store, scans, results>>

(* Nothing is left to apply, and the frame is drawn.                       *)
Draw ==
  /\ poll = "taking"
  /\ update = NoUpdate
  /\ poll' = "drawing"
  /\ UNCHANGED <<input, store, scans, results, update, window>>

(* A frame in which nothing happens                                        *)
NextFrame ==
  /\ poll = "drawing"
  /\ poll' = "receiving"
  /\ UNCHANGED <<input, store, scans, results, update, window>>

-----------------------------------------------------------------------------
(* What happens while a frame is drawn, one thing in a frame.              *)

Drawing ==
  /\ poll = "drawing"
  /\ poll' = "receiving"
  /\ window.open
  /\ UNCHANGED <<streamed, recalled, store, scans, results, update>>

(* request_page_for_display_row: any row may be scrolled into view.        *)
RequestPage ==
  /\ Drawing
  /\ Room("control")
  /\ \E row \in 1..Shown(window) :
       LET key == KeyOf(window, row)
       IN  /\ key \in DOMAIN window.pages => key \in window.stale
           /\ key \notin window.pending
           /\ Puts("control", [kind |-> "page", key |-> key])
           /\ window' = [window EXCEPT !.pending = @ \cup {key}]

(* show_log_search_controls: another query; it is sent a little later.     *)
ChangeQuery ==
  /\ Drawing
  /\ window.generation < MaxGenerations - 1
  /\ \E q \in (Queries \cup {NoQuery}) \ {window.query} :
       window' = [Cleared(window) EXCEPT
                    !.query = q, !.generation = @ + 1, !.count = 0,
                    !.complete = (q = NoQuery), !.due = TRUE]
  /\ UNCHANGED lanes

ToggleFilter ==
  /\ Drawing
  /\ window' = [Cleared(window) EXCEPT !.filter = ~@]
  /\ UNCHANGED lanes

(* Mutant: a search that finds the lane full is not sent again.            *)
SyncSearchMutant ==
  /\ Drawing
  /\ window.due
  /\ IF Room("control") /\ window.query # NoQuery
     THEN Puts("control", [kind |-> "search", query |-> window.query,
                           generation |-> window.generation])
     ELSE UNCHANGED lanes
  /\ window' = [window EXCEPT !.due = FALSE,
                              !.complete = (window.query = NoQuery)]

(* sync_search, once its deadline has passed; again, if the lane is full   *)
SyncSearch ==
  /\ Drawing
  /\ window.due
  /\ IF window.query = NoQuery
     THEN /\ window' = [window EXCEPT !.due = FALSE, !.complete = TRUE]
          /\ UNCHANGED lanes
     ELSE /\ Room("control")
          /\ Puts("control", [kind |-> "search", query |-> window.query,
                              generation |-> window.generation])
          /\ window' = [window EXCEPT !.due = FALSE, !.complete = FALSE]

(* LogStoreService::close gives up when the lane is full.                  *)
CloseWindow ==
  /\ Drawing
  /\ window' = NoWindow
  /\ IF Room("control") THEN Puts("control", [kind |-> "close"])
                        ELSE UNCHANGED lanes

-----------------------------------------------------------------------------
FeedStep  == StreamAppends \/ HistoryAppends
ControlStep  == ExecuteSearch \/ ExecuteLoadPage \/ ExecuteClose
BackfillStep == ExecuteRecall \/ ExecuteComplete
ScannedStep  == ExecuteScanned \/ ExecuteScanCompleted
StoreStep == ControlStep \/ ExecuteAppend \/ BackfillStep \/ ScannedStep
ScanStep  == \E s \in scans : ScanRow(s) \/ ScanEnds(s) \/ ScanCancelled(s)
FrameStep == \/ ApplyRebased \/ ApplyProgress \/ ApplyCompleted \/ ApplyPage
             \/ FindNoResult \/ ApplyUpdate \/ Draw \/ NextFrame
UserStep  == RequestPage \/ ChangeQuery \/ ToggleFilter \/ CloseWindow

Next == FeedStep \/ StoreStep \/ ScanStep \/ FrameStep \/ SyncSearch \/ UserStep

Spec == Init /\ [][Next]_vars

(* The store thread gets through its lanes: the window does not keep it so *)
(* busy that a lower one never has its turn.  Search threads run, frames   *)
(* are drawn, and a deadline that is set passes.  Nothing is assumed of    *)
(* the streams and the user.                                               *)
FairSpec ==
  /\ Spec
  /\ WF_vars(ControlStep)
  /\ SF_vars(ExecuteAppend)
  /\ SF_vars(BackfillStep)
  /\ SF_vars(ScannedStep)
  /\ WF_vars(ScanStep)
  /\ WF_vars(FrameStep \/ SyncSearch \/ UserStep)
  /\ SF_vars(SyncSearch)

-----------------------------------------------------------------------------
(* Properties.                                                             *)

(* A completed search has found every matching row of the store, each      *)
(* once and in order: those scanned, those appended during the scan, and   *)
(* those appended since, also when a rebase came in between.               *)
SearchIndexExact ==
  store.open /\ store.search.complete =>
    store.search.hits = Hits(Rows(store), store.search.query, 0)

CaughtUp == ~\E i \in DOMAIN results : results[i].kind = "rebased"

(* What the window has cached are rows of the store as it is numbered now, *)
(* never of the numbering before the rebase or of another search           *)
(* (runner.rs:108-110); and a store that a close, overtaking the appends   *)
(* before it, removed, has no live update for the next one.                *)
RowsOfThisSpace ==
  /\ ~store.open => update = NoUpdate
  /\ store.open /\ window.open /\ CaughtUp =>
       /\ \A i \in DOMAIN window.liveRows :
            window.liveRows[i] = Rows(store)[i]
       /\ \A k \in DOMAIN window.pages :
            k.generation = window.generation =>
              LET page == window.pages[k]
              IN  IF k.filter
                  THEN k.generation = store.search.generation =>
                         \A i \in DOMAIN page :
                           page[i] = Rows(store)[store.search.hits[k.start + i]]
                  ELSE \A i \in DOMAIN page : page[i] = Rows(store)[k.start + i]

AtRest ==
  /\ \A lane \in DOMAIN lanes : lanes[lane] = <<>>
  /\ scans = {}
  /\ results = <<>>
  /\ update = NoUpdate
  /\ window.open /\ ~window.due

(* When nothing is under way and the window has a query, the search of the *)
(* window is the search of the store and has completed, also when history  *)
(* came in between; and the window never counts rows or matches the store  *)
(* does not have.                                                          *)
SearchedAtRest ==
  /\ AtRest /\ window.query # NoQuery =>
       /\ window.complete
       /\ store.search.complete
       /\ store.search.generation = window.generation
       /\ store.search.query = window.query
  /\ store.open /\ window.open =>
       /\ window.total <= Len(Rows(store))
       /\ window.query # NoQuery /\ window.count > 0 =>
            \/ ~CaughtUp
            \/ store.search.generation = window.generation
               /\ window.count <= Len(store.search.hits)

(* Both: a search finds what there is, and is made again when it has to be.*)
SearchExact == SearchIndexExact /\ SearchedAtRest

(* Each row the window counts is cached, or will be loaded when it is      *)
(* scrolled into view: a loading placeholder is replaced by the page       *)
(* requested (ui/log_windows/viewer.rs:499-502).                           *)
RowsReachable ==
  AtRest =>
    \A row \in 1..Shown(window) :
      LET key == KeyOf(window, row)
      IN  \/ key \notin DOMAIN window.pages
          \/ key \in window.stale
          \/ row - key.start <= Len(window.pages[key])
          \/ ~key.filter /\ row \in DOMAIN window.liveRows

(* A search ends, or another one takes its place; the last one ends.       *)
SearchEnds == []<>(window.open => window.complete)

=============================================================================
