--------------------------------- MODULE MCLogs ---------------------------------
(***************************************************************************)
(* The logs of a window for TLC: its store (LogStore) and the viewport that*)
(* shows them (LogTail).  Each behaviour is one of a single part, chosen at*)
(* the start: the viewport has its pages at hand.                          *)
(***************************************************************************)
EXTENDS MCLogStore

CONSTANTS
  Height, Shift, Matching, MaxLines, Budgets

VARIABLES
  part,
  budget, log, nav, caret, tail, view, seen, moved

View == INSTANCE LogTail

ASSUME ViewAssumption == View!LogTailAssumption

(* History and live rows that the query finds, and some that it does not;  *)
(* and what the user does while rows arrive.                               *)
MCMatching == {-2, 0, 1, 3}
MCBudgets ==
  {[clicks |-> 2, keys |-> 0, wheels |-> 0],
   [clicks |-> 1, keys |-> 1, wheels |-> 0],
   [clicks |-> 1, keys |-> 0, wheels |-> 1],
   [clicks |-> 0, keys |-> 1, wheels |-> 2]}

viewVars == <<budget, log, nav, caret, tail, view, seen, moved>>
logsVars == <<part, vars, viewVars>>

OfStore(A) == part = "store" /\ A /\ UNCHANGED <<part, viewVars>>
OfView(A)  == part = "view" /\ A /\ UNCHANGED <<part, vars>>

(* A part that does not run stays in one of its initial states.            *)
LogsInit ==
  /\ part \in {"store", "view"}
  /\ Init /\ View!Init
  /\ part # "store" => streamed = 0
  /\ part # "view" => budget.wheels = 2

StoreNext == OfStore(Next)
ViewNext  == OfView(View!Next)
LogsNext  == StoreNext \/ ViewNext

LogsSpec == LogsInit /\ [][LogsNext]_logsVars

(* The fairness of both: LogStore!FairSpec, LogTail!FairSpec.              *)
FairLogs ==
  /\ LogsSpec
  /\ WF_logsVars(OfStore(ControlStep))
  /\ SF_logsVars(OfStore(ExecuteAppend))
  /\ SF_logsVars(OfStore(BackfillStep))
  /\ SF_logsVars(OfStore(ScannedStep))
  /\ WF_logsVars(OfStore(ScanStep) \/ OfView(View!Answer))
  /\ WF_logsVars(OfStore(FrameStep \/ SyncSearch \/ UserStep)
                 \/ OfView(View!Frame(0)))
  /\ SF_logsVars(OfStore(SyncSearch))

-----------------------------------------------------------------------------
(* The types of the viewport too: LogTail.                                 *)
TypesOK == TypeOK /\ View!TypeOK

(* What is read stays where it is: LogTail.                                *)
StaysInPlace == View!StaysInPlace

(* The lock to the bottom is the user's: LogTail.                          *)
FollowsUser == View!FollowsUser

(* A search ends, and a row to be shown is: LogStore, LogTail.             *)
WaitingEnds == SearchEnds /\ View!TargetsShown

=============================================================================
