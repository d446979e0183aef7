-------------------------------- MODULE LogTail --------------------------------
(***************************************************************************)
(* The viewport of a log window: it follows the newest row while it is     *)
(* locked to the bottom, and otherwise keeps still while rows arrive, the  *)
(* history is put before them and searches count their matches             *)
(* (ui/log_windows/viewer.rs and navigation.rs, TailFollowState and        *)
(* apply_store_result of ui/log_state.rs).                                 *)
(*                                                                         *)
(* A row is one unit high, so the tolerance of TailFollowState is nothing. *)
(* Record n is the row n of the live log; the history has negative ones.   *)
(* Pages are always at hand (LogStore has them), and a window shows rows   *)
(* from its first frame.                                                   *)
(***************************************************************************)
EXTENDS Integers, FiniteSets

CONSTANTS
  Height,    \* rows of the viewport
  Shift,     \* rows of history before the first live one
  Matching,  \* the records the query finds
  MaxLines,  \* bound: rows of the live log
  Budgets    \* bounds: clicks, keys, turns of the wheel

LogTailAssumption ==
  /\ {Height, MaxLines} \subseteq Nat \ {0} /\ Shift \in Nat
  /\ Matching \subseteq (-Shift)..(MaxLines - 1)
  /\ Budgets \subseteq [clicks: Nat, keys: Nat, wheels: Nat]

VARIABLES
  budget,  \* what is left
  log,     \* total_lines, rebased, query, filter_matches, match_count
  nav,     \* scroll_to_display_row, rebase_scroll_row_delta, the active row
           \* and match, the match that is being resolved
  caret,   \* its row, ensure_caret_visible, whether it has the focus
  tail,    \* TailFollowState
  view,    \* first row, visible_top_display_row, scroll_stuck_to_end
  seen,    \* history: the record at the top of the last frame
  moved    \* history: somebody asked for other rows since then

vars == <<budget, log, nav, caret, tail, view, seen, moved>>

-----------------------------------------------------------------------------
None    == -1
Rows    == -1..(MaxLines + Shift)
Nothing == -MaxLines - Shift - 1   \* the record of an empty viewport

Least(a, b)  == IF a < b THEN a ELSE b
Most(a, b)   == IF a > b THEN a ELSE b
Records(l)   == IF l.rebased THEN (-Shift)..(l.total - Shift - 1)
                ELSE 0..(l.total - 1)
Filtered(l)  == l.filter /\ l.query
Hits(l)      == {r \in Records(l) : r \in Matching}
Displayed(l) == IF Filtered(l) THEN l.count ELSE l.total
Bottom(l)    == Most(Displayed(l) - Height, 0)

Offset(l)    == IF l.rebased THEN Shift ELSE 0

(* The match number m, the row it has in the whole log, the record in a row*)
HitAt(l, m) == CHOOSE r \in Hits(l) :
                 Cardinality({s \in Hits(l) : s < r}) = m
LineOf(l, m) == HitAt(l, m) + Offset(l)
RecordAt(l, row) ==
  IF row >= Displayed(l) THEN Nothing
  ELSE IF Filtered(l) THEN HitAt(l, row) ELSE row - Offset(l)
RowOf(l, record) ==
  IF Filtered(l) THEN Cardinality({r \in Hits(l) : r < record})
  ELSE record + Offset(l)

NoFrame == [maximum |-> None, offset |-> None]
NoJump  == [target |-> None, delta |-> None, row |-> None, match |-> None,
            asked |-> None]

TypeOK ==
  /\ budget \in [clicks: Nat, keys: Nat, wheels: Nat]
  /\ log \in [total: Rows, rebased: BOOLEAN, query: BOOLEAN, filter: BOOLEAN,
              count: Rows]
  /\ log.count <= Cardinality(Hits(log)) /\ log.total # None
  /\ nav \in [target: Rows, delta: Rows, row: Rows, match: Rows, asked: Rows]
  /\ caret \in [row: Rows, ensure: BOOLEAN, focus: BOOLEAN]
  /\ tail \in [following: BOOLEAN, requested: BOOLEAN, wasAtBottom: BOOLEAN,
               prev: [maximum: Rows, offset: Rows], rejoin: Rows]
  /\ view \in [top: Rows, visible: Rows, stuck: BOOLEAN]
  /\ seen \in Nothing..MaxLines /\ moved \in BOOLEAN

Init ==
  /\ budget \in Budgets
  /\ log = [total |-> 0, rebased |-> FALSE, query |-> FALSE, filter |-> FALSE,
            count |-> 0]
  /\ nav = NoJump /\ caret = [row |-> None, ensure |-> FALSE, focus |-> FALSE]
  /\ tail = [following |-> TRUE, requested |-> TRUE, wasAtBottom |-> TRUE,
             prev |-> NoFrame, rejoin |-> None]
  /\ view = [top |-> 0, visible |-> 0, stuck |-> FALSE]
  /\ seen = Nothing /\ moved = FALSE

Spend(what) == budget[what] > 0 /\ budget' = [budget EXCEPT ![what] = @ - 1]

-----------------------------------------------------------------------------
(* Results of the store.                                                   *)

(* Updated: rows of the live log, of which the search counts some later    *)
(* (SearchProgress, SearchCompleted).                                      *)
Updated ==
  /\ log.total - Offset(log) < MaxLines
  /\ log' = [log EXCEPT !.total = @ + 1]
  /\ UNCHANGED <<budget, nav, caret, tail, view, seen, moved>>

Counted ==
  /\ log.query /\ log.count < Cardinality(Hits(log))
  /\ log' = [log EXCEPT !.count = @ + 1]
  /\ UNCHANGED <<budget, nav, caret, tail, view, seen, moved>>

(* clear_pages                                                             *)
Unselected == [caret EXCEPT !.row = None, !.ensure = FALSE]

(* Mutant: the rows stay where they are.                                   *)
RebaseDisplayRowMutant(row) == row

(* rebase_display_row                                                      *)
RebaseDisplayRow(row) == Shift + row

(* Rebased: the history is there, maybe with rows nobody has told of yet.  *)
(* A filtered view is not kept in place.                                   *)
Rebased ==
  /\ ~log.rebased
  /\ \E more \in 0..1 :
       /\ log.total + more <= MaxLines
       /\ LET total == log.total + more + Shift
              row   == RebaseDisplayRow(view.visible) IN
            /\ log' = [log EXCEPT !.total = total, !.rebased = TRUE,
                                  !.count = IF log.query THEN 0 ELSE @]
            /\ nav' = [nav EXCEPT !.target = Least(row, Most(total - 1, 0)),
                                  !.delta = Most(row - view.visible, 0),
                                  !.asked = IF log.query THEN None ELSE @]
  /\ caret' = Unselected /\ moved' = (moved \/ Filtered(log))
  /\ UNCHANGED <<budget, tail, view, seen>>

(* MatchResolved: late answers are of another search or match.             *)
Resolved ==
  /\ nav.asked # None
  /\ nav' = IF nav.asked # nav.match THEN [nav EXCEPT !.asked = None]
            ELSE LET row == IF log.filter THEN nav.asked
                            ELSE LineOf(log, nav.asked)
                 IN [nav EXCEPT !.asked = None, !.row = row, !.target = row]
  /\ moved' = TRUE
  /\ UNCHANGED <<budget, log, caret, tail, view, seen>>

-----------------------------------------------------------------------------
(* What the user does.                                                     *)

Released == [tail EXCEPT !.following = FALSE, !.requested = FALSE,
                         !.rejoin = None]

(* advance_log_line, advance_log_match: around the ends.                   *)
NextLine(forward) ==
  /\ Displayed(log) > 0 /\ Spend("clicks")
  /\ LET count == Displayed(log)
         row == IF nav.row = None THEN (IF forward THEN 0 ELSE count - 1)
                ELSE (nav.row + (IF forward THEN 1 ELSE count - 1)) % count
     IN nav' = [nav EXCEPT !.row = row, !.target = row]
  /\ tail' = Released /\ moved' = TRUE
  /\ UNCHANGED <<log, caret, view, seen>>

NextMatch(forward) ==
  /\ log.count > 0 /\ Spend("clicks")
  /\ LET from == IF nav.match # None THEN nav.match
                 ELSE IF forward THEN log.count - 1 ELSE 0
         match == (from + (IF forward THEN 1 ELSE log.count - 1)) % log.count
     IN nav' = [nav EXCEPT !.match = match, !.asked = match]
  /\ tail' = Released /\ moved' = TRUE
  /\ UNCHANGED <<log, caret, view, seen>>

ToggleFilter ==
  /\ Spend("clicks")
  /\ log' = [log EXCEPT !.filter = ~@]
  /\ nav' = [nav EXCEPT !.row = None, !.target = None]
  /\ caret' = Unselected /\ moved' = TRUE
  /\ UNCHANGED <<tail, view, seen>>

(* Another query, or none: the search starts again.                        *)
EditQuery ==
  /\ Spend("clicks")
  /\ \E query \in BOOLEAN : log' = [log EXCEPT !.query = query, !.count = 0]
  /\ nav' = [nav EXCEPT !.row = None, !.match = None, !.target = None,
                        !.asked = None]
  /\ caret' = Unselected /\ moved' = TRUE
  /\ UNCHANGED <<tail, view, seen>>

(* TailFollowState::toggle                                                 *)
ToggleTail ==
  /\ Spend("clicks")
  /\ tail' = [tail EXCEPT !.following = ~@, !.requested = ~tail.following,
                          !.rejoin = IF tail.following THEN @ ELSE None]
  /\ nav' = IF tail.following THEN nav
            ELSE [nav EXCEPT !.target = None, !.delta = None]
  /\ moved' = TRUE
  /\ UNCHANGED <<log, caret, view, seen>>

(* A click on a row, or a key that moves the caret to another one.         *)
ClickRow(row) ==
  /\ tail.prev # NoFrame
  /\ row \in view.top..Least(view.top + Height, Displayed(log)) - 1
  /\ Spend("keys")
  /\ caret' = [row |-> row, ensure |-> FALSE, focus |-> TRUE]
  /\ tail' = Released
  /\ UNCHANGED <<log, nav, view, seen, moved>>

MoveCaret(row) ==
  /\ caret.focus /\ caret.row # None /\ row \in 0..(Displayed(log) - 1)
  /\ Spend("keys")
  /\ caret' = [row |-> row, ensure |-> TRUE, focus |-> TRUE]
  /\ tail' = Released /\ moved' = TRUE
  /\ UNCHANGED <<log, nav, view, seen>>

LoseFocus ==
  /\ caret.focus /\ Spend("keys")
  /\ caret' = [caret EXCEPT !.focus = FALSE]
  /\ UNCHANGED <<log, nav, tail, view, seen, moved>>

-----------------------------------------------------------------------------
(* A frame.                                                                *)

(* caret_vertical_offset                                                   *)
CaretOffset ==
  IF caret.row < view.top THEN caret.row
  ELSE IF caret.row + 1 > view.top + Height THEN caret.row + 1 - Height
  ELSE view.top

(* The row at which the viewport shall begin, or None.                     *)
Requested ==
  IF nav.target # None
    THEN IF nav.delta # None THEN view.top + nav.delta ELSE nav.target
  ELSE IF tail.requested THEN Most(Displayed(log) - 1, 0)
  ELSE IF caret.ensure /\ caret.row # None /\ CaretOffset # view.top
    THEN CaretOffset
  ELSE None

(* egui: the viewport ends within the rows, and stays at their end if it   *)
(* was there.                                                              *)
Scrolled(wheel) ==
  IF tail.following /\ Requested = None /\ ~caret.focus /\ view.stuck
       /\ wheel = 0
    THEN Bottom(log)
  ELSE Most(0, Least(Bottom(log), wheel + (IF Requested = None THEN view.top
                                           ELSE Requested)))

(* Mutant: who comes back to the former tail is not brought to the new one.*)
JoinedMutant(t, atBottom) ==
  [t EXCEPT !.following = TRUE, !.requested = FALSE, !.rejoin = None]

Joined(t, atBottom) ==
  [t EXCEPT !.following = TRUE, !.requested = ~atBottom, !.rejoin = None]

(* observe_scroll                                                          *)
Observed(t, maximum, offset, attach) ==
  LET atBottom == offset >= maximum
      down     == attach /\ t.prev # NoFrame /\ offset > t.prev.offset
      detaches == t.following /\ ~atBottom /\ ~t.requested
      rejoin   == IF ~attach THEN None
                  ELSE IF /\ ~t.following \/ detaches
                          /\ t.prev # NoFrame /\ maximum > t.prev.maximum
                          /\ t.rejoin = None
                  THEN t.prev.maximum ELSE t.rejoin
      reached  == rejoin # None /\ offset >= rejoin
      kept     == [t EXCEPT !.following = @ /\ ~detaches, !.rejoin = rejoin]
      joined   == IF down /\ (reached \/ (atBottom /\ ~t.wasAtBottom))
                  THEN Joined(kept, atBottom) ELSE kept
  IN [joined EXCEPT !.requested = @ /\ ~atBottom, !.wasAtBottom = atBottom,
                    !.prev = [maximum |-> maximum, offset |-> offset]]

(* display_row_is_visible                                                  *)
IsVisible(row, top) == row + 1 > top /\ row < top + Height

Frame(wheel) ==
  LET top == Scrolled(wheel) IN
  /\ IF wheel = 0 THEN UNCHANGED budget ELSE Spend("wheels")
  /\ view' = [top |-> top, visible |-> view.top, stuck |-> top = Bottom(log)]
  /\ nav' = [nav EXCEPT
       !.target = IF @ # None /\ IsVisible(@, top) THEN None ELSE @,
       !.delta = IF nav.target = None THEN @ ELSE None]
  /\ caret' = [caret EXCEPT !.ensure = FALSE]
  /\ tail' = Observed(tail, Bottom(log), top, Requested = None)
  /\ seen' = RecordAt(log, top)
  /\ moved' = (nav'.target # None \/ wheel \notin (1 - Height)..(Height - 1))
  /\ UNCHANGED log

Wheels == {-Height, -1, 1, Height}

Click == \/ \E forward \in BOOLEAN : NextLine(forward) \/ NextMatch(forward)
         \/ ToggleFilter \/ EditQuery \/ ToggleTail \/ LoseFocus
         \/ \E row \in Rows : ClickRow(row) \/ MoveCaret(row)
         \/ \E wheel \in Wheels : Frame(wheel)
Answer == Updated \/ Counted \/ Rebased \/ Resolved
Next   == Click \/ Answer \/ Frame(0)

Spec     == Init /\ [][Next]_vars
FairSpec == Spec /\ WF_vars(Frame(0)) /\ WF_vars(Answer)

-----------------------------------------------------------------------------
(* Rows that are read keep still: nothing but the user moves the record at *)
(* the top of an unlocked view, where there are rows to fill it.  Excepted *)
(* are a filtered view when the history arrives, which starts again, and a *)
(* turn of the wheel by a whole view in the frame before that.             *)
StaysInPlace ==
  [][Frame(0) /\ ~tail.following /\ ~moved /\ seen # Nothing =>
       view'.top = Least(RowOf(log, seen), Bottom(log))]_vars

(* The lock to the bottom is the user's: a frame without a wheel neither   *)
(* ends it nor begins it, except that a row to be shown ends it, and the   *)
(* caret, which has the keyboard, may.                                     *)
FollowsUser ==
  [][Frame(0) /\ nav.target = None /\ ~caret.focus =>
       tail'.following = tail.following]_vars

(* A row that is to be shown is shown, or there is no such row.            *)
TargetsShown == []<>(nav.target = None \/ nav.target >= Displayed(log))

=============================================================================
