------------------------------- MODULE MCRuntime -------------------------------
(***************************************************************************)
(* What the runtime thread of a cluster serves beside resource watches,    *)
(* for TLC: the session of the cluster (ClusterSession) and the log streams*)
(* of the windows (LogWindows).  Each behaviour is one of a single part,   *)
(* chosen at the start: a stream that is started without a connection      *)
(* fails, which LogWindows has for any start.                              *)
(***************************************************************************)
EXTENDS ClusterSession

CONSTANTS ChannelLimit, MaxWindows, MaxStoreFailures

VARIABLES
  part,
  viewports, windows, pending, sent, queue, report, registered, running,
  reports, storeFailures, storesFailed

Windows == INSTANCE LogWindows WITH
             channel <- sent, results <- reports, failures <- storesFailed

ASSUME LogAssumption == Windows!LogAssumption

windowsVars == <<viewports, windows, pending, sent, queue, report, registered,
                 running, reports, storeFailures, storesFailed>>
runtimeVars == <<part, vars, windowsVars>>

OfSession(A) == part = "session" /\ A /\ UNCHANGED <<part, windowsVars>>
OfWindows(A) == part = "windows" /\ A /\ UNCHANGED <<part, vars>>

(* Beside the windows, a program without clusters.                         *)
RuntimeInit ==
  /\ part \in {"session", "windows"}
  /\ Init /\ Windows!Init
  /\ part = "windows" => remembered = NoContext /\ results[1].contexts = {}

SessionNext == OfSession(Next)
WindowsNext == OfWindows(Windows!Next)
RuntimeNext == SessionNext \/ WindowsNext

RuntimeSpec == RuntimeInit /\ [][RuntimeNext]_runtimeVars

(* The fairness of both: ClusterSession!FairSpec, LogWindows!FairSpec.     *)
FairRuntime ==
  /\ RuntimeSpec
  /\ WF_runtimeVars(OfSession(ApplyStep) \/ OfWindows(Windows!ApplyStep))
  /\ WF_runtimeVars(OfSession(FeedAnswers) \/ OfWindows(Windows!ServeStep))
  /\ WF_runtimeVars(OfWindows(Windows!ApplyStoreStep))
  /\ WF_runtimeVars(OfWindows(Windows!FlushPendingCommands))
  /\ WF_runtimeVars(OfWindows(Windows!Route))
  /\ \A k \in Contexts :
       /\ WF_runtimeVars(OfSession(RuntimeStep(k)))
       /\ WF_runtimeVars(OfSession(CommandStep(k)))

-----------------------------------------------------------------------------
(* The types of both parts.                                                *)
TypesOK == TypeOK /\ Windows!TypeOK

(* A stream belongs to a window, and a native window has one: LogWindows.  *)
NoStreamLeftBehind ==
  Windows!NoStreamLeftBehind /\ Windows!OneStreamPerViewport

(* A window that shows a live stream has one: LogWindows.                  *)
LiveIsTrue == Windows!LiveIsTrue

(* Connecting and loading end; a window learns what became of its stream,  *)
(* and the stream of a closed window ends: ClusterSession, LogWindows.     *)
WaitingEnds == LoadingEnds /\ Windows!WindowsSettle

=============================================================================
