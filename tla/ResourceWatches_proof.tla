------------------------ MODULE ResourceWatches_proof ------------------------
(***************************************************************************)
(* Proofs about ResourceWatches, for every set of resources and scopes and *)
(* every bound; and about the worker of the suite MCWorker, of which it is *)
(* a part, with what Contexts_proof shows of the kubeconfig commands.      *)
(***************************************************************************)
EXTENDS MCWorker, TLAPS

-----------------------------------------------------------------------------
(* Type correctness.                                                       *)

LEMMA NoOwnerType ==
  [a \in Apis |-> NoOwner] \in [Apis -> [seq: Nat, sources: SUBSET Scopes]]
<1>1. NoOwner \in [seq: Nat, sources: SUBSET Scopes]
  BY DEF NoOwner
<1> QED BY <1>1

LEMMA InitTypeOK == Init => TypeOK
<1> SUFFICES ASSUME Init PROVE TypeOK
  OBVIOUS
<1>1. owner \in [Apis -> [seq: Nat, sources: SUBSET Scopes]]
  BY NoOwnerType DEF Init
<1>2. queue \in Seq(Message) /\ runtime \in RuntimeState
  BY DEF Init, RuntimeState
<1> QED BY <1>1, <1>2 DEF Init, TypeOK

(* Putting a start at another place in its code keeps it a start.          *)
LEMMA StartStaysStart ==
  ASSUME NEW s \in Start, NEW pc \in StartPc, NEW p \in Nat
  PROVE  /\ [s EXCEPT !.pc = pc] \in Start
         /\ [s EXCEPT !.pc = pc, !.pool = p] \in Start
         /\ s.job \in Job
         /\ \A by \in {"start", "release"} : Permit(s, by) \in Holder
BY DEF Start, Holder, Permit

(* Routing a command leaves a well-typed runtime and session.              *)
LEMMA RouteType ==
  ASSUME TypeOK, NEW message, RouteToCluster(message)
  PROVE  runtime' \in RuntimeState /\ session' \in Nat
<1>1. CASE runtime = "down"
  <2>1. runtime' \in RuntimeState
    BY <1>1 DEF RouteToCluster, RuntimeState
  <2>2. session' = IF session = 0 THEN 1 ELSE session
    BY <1>1 DEF RouteToCluster
  <2> QED BY <2>1, <2>2 DEF TypeOK
<1>2. CASE runtime # "down"
  BY <1>2 DEF RouteToCluster, TypeOK
<1> QED BY <1>1, <1>2

(* The type invariant is inductive.                                        *)
LEMMA NextTypeOK == TypeOK /\ [Next]_vars => TypeOK'
<1> SUFFICES ASSUME TypeOK, [Next]_vars PROVE TypeOK'
  OBVIOUS
<1> USE ConstantsAssumption
<1>1. CASE UNCHANGED vars
  BY <1>1 DEF vars, TypeOK
<1>2. CASE SendReconcile
  <2>1. PICK a \in Apis, sources \in SUBSET Scopes :
          RouteToCluster([kind |-> "reconcile",
                          command |-> [api |-> a, sources |-> sources,
                                       seq |-> sent["reconcile"] + 1]])
    BY <1>2 DEF SendReconcile
  <2>2. sent["reconcile"] + 1 \in Seqs
    BY <1>2 DEF SendReconcile, Seqs, TypeOK
  <2>3. [kind |-> "reconcile", command |-> [api |-> a, sources |-> sources,
                                seq |-> sent["reconcile"] + 1]] \in Message
    BY <2>2 DEF Message, Command
  <2>4. queue' \in Seq(Message)
    BY <2>1, <2>3 DEF RouteToCluster, TypeOK
  <2>5. sent' \in [{"reconcile", "connect", "load"} -> Nat]
    BY <1>2 DEF SendReconcile, TypeOK
  <2>6. runtime' \in RuntimeState /\ session' \in Nat
    BY <2>1, RouteType
  <2> QED BY <2>1, <2>4, <2>5, <2>6 DEF RouteToCluster, TypeOK, work
<1>3. CASE SendConnect
  <2>1. [kind |-> "connect"] \in Message
    BY DEF Message
  <2>2. queue' \in Seq(Message)
    <3>1. queue' = Append(queue, [kind |-> "connect"])
      BY <1>3 DEF SendConnect, RouteToCluster
    <3> QED BY <2>1, <3>1 DEF TypeOK
  <2>3. runtime' \in RuntimeState /\ session' \in Nat
    BY <1>3, RouteType DEF SendConnect
  <2> QED BY <1>3, <2>2, <2>3 DEF SendConnect, RouteToCluster, TypeOK, work
<1>4. CASE LoadClusters
  <2>1. [kind |-> "shutdown"] \in Message
    BY DEF Message
  <2>2. queue' \in Seq(Message)
    <3>1. CASE queue' = queue
      BY <3>1 DEF TypeOK
    <3>2. CASE queue' = Append(queue, [kind |-> "shutdown"])
      BY <2>1, <3>2 DEF TypeOK
    <3> QED BY <1>4, <3>1, <3>2 DEF LoadClusters
  <2> QED BY <1>4, <2>2 DEF LoadClusters, TypeOK, work, registry
<1>5. CASE LoadStep
  <2>1. CASE JoinRuntime
    BY <2>1 DEF JoinRuntime, TypeOK, registry, RuntimeState
  <2>2. CASE StopAllClusters
    <3>1. owner' \in [Apis -> [seq: Nat, sources: SUBSET Scopes]]
      BY <2>2, NoOwnerType DEF StopAllClusters
    <3>2. session' \in Nat /\ pool' \in Nat
      BY <2>2 DEF StopAllClusters, TypeOK
    <3> QED BY <2>2, <3>1, <3>2 DEF StopAllClusters, TypeOK, Abort
  <2> QED BY <1>5, <2>1, <2>2 DEF LoadStep
<1>6. CASE RuntimeStep
  <2>1. CASE ReceiveReconcile
    <3>1. Head(queue) \in Message /\ Tail(queue) \in Seq(Message)
      BY <2>1 DEF ReceiveReconcile, TypeOK
    <3>2. Head(queue).command \in Command
      BY <2>1, <3>1 DEF ReceiveReconcile, Message
    <3>3. [command |-> Head(queue).command, generation |-> 0] \in Running
      BY <3>2 DEF Running
    <3>4. latest' \in [Apis -> Nat]
      BY <2>1, <3>2 DEF ReceiveReconcile, TypeOK, Command, Seqs
    <3> QED BY <2>1, <3>1, <3>3, <3>4 DEF ReceiveReconcile, TypeOK, work, registry
  <2>2. CASE ReceiveLifecycle
    BY <2>2 DEF ReceiveLifecycle, TypeOK, RuntimeState, work, registry
  <2>3. CASE DrainCommands
    BY <2>3 DEF DrainCommands, TypeOK, RuntimeState, work, registry
  <2>4. CASE Disconnect
    BY <2>4 DEF Disconnect, TypeOK, RuntimeState, work, registry
  <2>5. CASE InvalidateWatches
    <3>1. owner' \in [Apis -> [seq: Nat, sources: SUBSET Scopes]]
      BY <2>5, NoOwnerType DEF InvalidateWatches
    <3>2. session' \in Nat
      BY <2>5 DEF InvalidateWatches, TypeOK
    <3>3. runtime' \in RuntimeState
      BY <2>5 DEF InvalidateWatches, RuntimeState
    <3> QED BY <2>5, <3>1, <3>2, <3>3 DEF InvalidateWatches, TypeOK, Abort
  <2>6. CASE RemoveSlots
    <3>1. runtime' \in RuntimeState
      BY <2>6 DEF RemoveSlots, RuntimeState
    <3>2. pool' \in Nat
      BY <2>6 DEF RemoveSlots, TypeOK
    <3> QED BY <2>6, <3>1, <3>2 DEF RemoveSlots, TypeOK, work, registry
  <2>7. CASE FinishConnect
    BY <2>7 DEF FinishConnect, TypeOK, RuntimeState, work, registry
  <2> QED BY <1>6, <2>1, <2>2, <2>3, <2>4, <2>5, <2>6, <2>7 DEF RuntimeStep
<1>7. CASE CommandStep
  <2>1. PICK c \in inFlight : ReplaceSources(c) \/ SpawnStarts(c)
    BY <1>7 DEF CommandStep
  <2>2. /\ c \in Running /\ c.command \in Command
        /\ c.command.api \in Apis /\ c.command.sources \in SUBSET Scopes
        /\ c.command.seq \in Seqs /\ c.generation \in Nat
    BY <2>1 DEF TypeOK, Running, Command
  <2>3. CASE ReplaceSources(c)
    <3>1. generations[c.command.api] + 1 \in Nat
      BY <2>2 DEF TypeOK
    <3>2. [c EXCEPT !.generation = generations[c.command.api] + 1] \in Running
      BY <2>2, <3>1 DEF Running
    <3>3. inFlight' \subseteq Running
      BY <2>3, <3>2 DEF ReplaceSources, TypeOK
    <3>4. owner' \in [Apis -> [seq: Nat, sources: SUBSET Scopes]]
      BY SMTT(30), <2>2, <2>3 DEF ReplaceSources, TypeOK, Seqs
    <3> QED BY <2>2, <2>3, <3>1, <3>3, <3>4 DEF ReplaceSources, TypeOK, Abort
  <2>4. CASE SpawnStarts(c)
    <3>1. ASSUME NEW t \in c.command.sources
          PROVE  [job |-> [api |-> c.command.api, scope |-> t,
                           seq |-> c.command.seq],
                  generation |-> c.generation, session |-> session,
                  pool |-> 0, pc |-> "spawned"] \in Start
      BY <2>2 DEF Start, Job, StartPc, TypeOK
    <3>2. starts' \subseteq Start
      BY <2>4, <3>1 DEF SpawnStarts, TypeOK
    <3> QED BY <2>4, <3>2 DEF SpawnStarts, TypeOK, work, registry
  <2> QED BY <2>1, <2>3, <2>4
<1>8. CASE \E s \in starts : StartStep(s)
  <2>1. PICK s \in starts : StartStep(s)
    BY <1>8
  <2>2. s \in Start
    BY DEF TypeOK
  <2>3. \A pc \in StartPc, p \in Nat :
             /\ [s EXCEPT !.pc = pc] \in Start
             /\ [s EXCEPT !.pc = pc, !.pool = p] \in Start
             /\ s.job \in Job
             /\ \A by \in {"start", "release"} : Permit(s, by) \in Holder
    BY <2>2, StartStaysStart
  <2> HIDE DEF Start, Job, Holder, Permit
  <2>4. CASE FirstCheck(s)
    BY <2>3, <2>4 DEF FirstCheck, Becomes, Returns, StartPc, TypeOK, dispatch,
                      work, registry
  <2>5. CASE FindClient(s)
    BY <2>3, <2>5 DEF FindClient, Becomes, Returns, Reports, StartPc, TypeOK,
                      dispatch, work, registry
  <2>6. CASE FindSlots(s)
    BY <2>3, <2>6 DEF FindSlots, StartPc, TypeOK, dispatch, work, registry
  <2>7. CASE AcquireSlot(s)
    BY <2>3, <2>7 DEF AcquireSlot, Becomes, StartPc, TypeOK, dispatch, registry
  <2>8. CASE SecondCheck(s)
    BY <2>3, <2>8 DEF SecondCheck, Becomes, Returns, DropPermit, StartPc, TypeOK,
                      dispatch, registry
  <2>9. CASE StartWatcher(s)
    BY <2>3, <2>9 DEF StartWatcher, Becomes, Returns, Reports, DropPermit,
                      StartPc, TypeOK, dispatch, registry
  <2>10. CASE InstallWatch(s)
    <3>1. [job |-> s.job, generation |-> s.generation, session |-> s.session]
             \in Watch
      BY <2>2 DEF Start, Watch
    <3> QED BY <2>10, <3>1 DEF InstallWatch, Returns, Abort, TypeOK, dispatch
  <2> QED BY <2>1, <2>4, <2>5, <2>6, <2>7, <2>8, <2>9, <2>10 DEF StartStep
<1>9. CASE SlotStep
  BY <1>9 DEF SlotStep, ReleaseSlot, TypeOK, dispatch, registry
<1>10. CASE WatcherStep
  BY <1>10 DEF WatcherStep, WatcherInitialized, WatcherEnds, Abort, TypeOK,
               dispatch, registry
<1> QED BY <1>1, <1>2, <1>3, <1>4, <1>5, <1>6, <1>7, <1>8, <1>9, <1>10
        DEF Next, RouterStep

(* Every reachable state of the worker is well typed.                      *)
THEOREM TypeCorrect == Spec => []TypeOK
<1>1. Init => TypeOK
  BY InitTypeOK
<1>2. TypeOK /\ [Next]_vars => TypeOK'
  BY NextTypeOK
<1> QED BY <1>1, <1>2, PTL DEF Spec

-----------------------------------------------------------------------------
(* The inductive invariant.  The registry compares numbers; what makes the *)
(* numbers mean what they should is that within a session a generation is  *)
(* never used twice, and that no command runs while a session ends.        *)

(* A start of the current session never runs ahead of the registry, and if *)
(* it carries the current generation its command is the owner.             *)
StartsFollowOwner ==
  \A s \in starts :
    /\ s.session <= session
    /\ s.session = session =>
         /\ s.generation <= generations[s.job.api]
         /\ s.generation = generations[s.job.api] =>
              /\ s.job.seq = owner[s.job.api].seq
              /\ s.job.scope \in owner[s.job.api].sources

(* The same for a command between taking its generation and spawning.      *)
CommandsFollowOwner ==
  \A c \in inFlight :
    c.generation # 0 =>
      /\ c.generation <= generations[c.command.api]
      /\ c.generation = generations[c.command.api] =>
           /\ c.command.seq = owner[c.command.api].seq
           /\ c.command.sources = owner[c.command.api].sources

(* No command is in flight once the loop has drained, no start survives    *)
(* its runtime, and a session exists before anything refers to it.         *)
SessionsAreSerial ==
  /\ runtime \notin {"receiving", "draining"} => inFlight = {}
  /\ runtime = "down" => starts = {}
  /\ session = 0 => runtime = "down" /\ watches = {}

IInv ==
  /\ TypeOK
  /\ InstalledWatchesCurrent
  /\ StartsFollowOwner
  /\ CommandsFollowOwner
  /\ SessionsAreSerial

LEMMA InitIInv == Init => IInv
<1> SUFFICES ASSUME Init PROVE IInv
  OBVIOUS
<1>1. TypeOK
  BY InitTypeOK
<1> QED BY <1>1 DEF Init, IInv, InstalledWatchesCurrent, StartsFollowOwner,
                    CommandsFollowOwner, SessionsAreSerial

(* The parts of the invariant other than the type, for a step that leaves  *)
(* alone everything they mention.                                          *)
LEMMA UnchangedIInv ==
  ASSUME IInv, UNCHANGED <<registry, owner, starts, inFlight, runtime>>
  PROVE  /\ InstalledWatchesCurrent' /\ StartsFollowOwner'
         /\ CommandsFollowOwner' /\ SessionsAreSerial'
BY DEF IInv, registry, InstalledWatchesCurrent, StartsFollowOwner,
       CommandsFollowOwner, SessionsAreSerial

(* The components of commands, starts and watches have their types.        *)
LEMMA Components ==
  ASSUME TypeOK
  PROVE  /\ session \in Nat
         /\ \A a \in Apis : generations[a] \in Nat
         /\ \A s \in starts : /\ s.job.api \in Apis /\ s.job.scope \in Scopes
                              /\ s.job.seq \in Seqs /\ s.generation \in Nat
                              /\ s.session \in Nat /\ s.job \in Job
         /\ \A w \in watches : /\ w.job.api \in Apis /\ w.job.scope \in Scopes
                               /\ w.job.seq \in Seqs /\ w.generation \in Nat
                               /\ w.session \in Nat
         /\ \A c \in inFlight : /\ c.command.api \in Apis
                                /\ c.command.seq \in Seqs
                                /\ c.command.sources \in SUBSET Scopes
                                /\ c.generation \in Nat
<1>1. session \in Nat /\ \A a \in Apis : generations[a] \in Nat
  BY DEF TypeOK
<1>2. ASSUME NEW s \in starts
      PROVE  /\ s.job.api \in Apis /\ s.job.scope \in Scopes
             /\ s.job.seq \in Seqs /\ s.generation \in Nat
             /\ s.session \in Nat /\ s.job \in Job
  <2>1. s \in Start
    BY DEF TypeOK
  <2> QED BY <2>1 DEF Start, Job
<1>3. ASSUME NEW w \in watches
      PROVE  /\ w.job.api \in Apis /\ w.job.scope \in Scopes
             /\ w.job.seq \in Seqs /\ w.generation \in Nat
             /\ w.session \in Nat
  <2>1. w \in Watch
    BY DEF TypeOK
  <2> QED BY <2>1 DEF Watch, Job
<1>4. ASSUME NEW c \in inFlight
      PROVE  /\ c.command.api \in Apis /\ c.command.seq \in Seqs
             /\ c.command.sources \in SUBSET Scopes /\ c.generation \in Nat
  <2>1. c \in Running
    BY DEF TypeOK
  <2> QED BY <2>1 DEF Running, Command
<1> QED BY <1>1, <1>2, <1>3, <1>4

(* A start that moves to another place in its code, or returns, keeps the  *)
(* numbers it was spawned with.                                            *)
LEMMA StartMoves ==
  ASSUME IInv, NEW s \in starts, NEW t, t.job = s.job,
         t.generation = s.generation, t.session = s.session,
         starts' \subseteq starts \cup {t},
         UNCHANGED <<registry, owner, inFlight, runtime>>
  PROVE  /\ InstalledWatchesCurrent' /\ StartsFollowOwner'
         /\ CommandsFollowOwner' /\ SessionsAreSerial'
<1>1. StartsFollowOwner'
  BY DEF IInv, registry, StartsFollowOwner
<1>2. runtime # "down"
  BY DEF IInv, SessionsAreSerial
<1> QED BY <1>1, <1>2 DEF IInv, registry, InstalledWatchesCurrent,
                          CommandsFollowOwner, SessionsAreSerial

(* A new session starts empty, and every start is of an older one.         *)
LEMMA SessionEnds ==
  ASSUME IInv, inFlight = {}, session' = session + 1 \/ starts = {},
         watches' = {}, starts' = starts, inFlight' = inFlight,
         session' \in Nat
  PROVE  /\ InstalledWatchesCurrent' /\ StartsFollowOwner'
         /\ CommandsFollowOwner'
<1>1. ASSUME NEW s \in starts PROVE s.session < session'
  BY Components DEF IInv, StartsFollowOwner
<1>2. StartsFollowOwner'
  BY <1>1, Components DEF IInv, StartsFollowOwner
<1> QED BY <1>2 DEF InstalledWatchesCurrent, CommandsFollowOwner

(* Every step preserves the invariant.                                     *)
LEMMA NextIInv == IInv /\ [Next]_vars => IInv'
<1> SUFFICES ASSUME IInv, [Next]_vars
             PROVE  /\ InstalledWatchesCurrent' /\ StartsFollowOwner'
                    /\ CommandsFollowOwner' /\ SessionsAreSerial'
  BY NextTypeOK DEF IInv
<1>0. TypeOK /\ TypeOK'
  BY NextTypeOK DEF IInv
<1>1. CASE UNCHANGED vars
  BY <1>1, UnchangedIInv DEF vars, registry
<1>2. CASE SendReconcile \/ SendConnect
  <2>1. PICK message : RouteToCluster(message)
    BY <1>2 DEF SendReconcile, SendConnect
  <2>2. CASE runtime = "down"
    <3>1. starts = {} /\ inFlight = {} /\ session' # 0
      BY <1>0, <2>1, <2>2 DEF IInv, SessionsAreSerial, RouteToCluster, TypeOK
    <3>2. session = 0 => watches = {}
      BY DEF IInv, SessionsAreSerial
    <3>3. InstalledWatchesCurrent'
      BY <2>1, <2>2, <3>2 DEF IInv, RouteToCluster, InstalledWatchesCurrent
    <3> QED BY <2>1, <2>2, <3>1, <3>3 DEF RouteToCluster, StartsFollowOwner,
                 CommandsFollowOwner, SessionsAreSerial
  <2>3. CASE runtime # "down"
    BY <2>1, <2>3, UnchangedIInv DEF RouteToCluster, registry
  <2> QED BY <2>2, <2>3
<1>3. CASE LoadClusters
  BY <1>3, UnchangedIInv DEF LoadClusters
<1>4. CASE JoinRuntime
  <2>1. inFlight = {} /\ session # 0
    BY <1>4 DEF IInv, SessionsAreSerial, JoinRuntime
  <2> QED BY <1>4, <2>1 DEF IInv, JoinRuntime, registry, InstalledWatchesCurrent,
               StartsFollowOwner, CommandsFollowOwner, SessionsAreSerial
<1>5. CASE StopAllClusters
  <2>1. inFlight = {} /\ starts = {}
    BY <1>5 DEF IInv, SessionsAreSerial, StopAllClusters
  <2>2. /\ watches' = {} /\ starts' = starts /\ inFlight' = inFlight
        /\ runtime' = "down" /\ session' \in Nat
    BY <1>0, <1>5 DEF StopAllClusters, TypeOK
  <2> QED BY <2>1, <2>2, SessionEnds DEF SessionsAreSerial
<1>6. CASE ReceiveReconcile
  <2>1. runtime = "receiving" /\ runtime' = runtime /\ starts' = starts
    BY <1>6 DEF ReceiveReconcile
  <2>2. UNCHANGED <<registry, owner>>
    BY <1>6 DEF ReceiveReconcile
  <2>3. inFlight' = inFlight \cup
                     {[command |-> Head(queue).command, generation |-> 0]}
    BY <1>6 DEF ReceiveReconcile
  <2>4. CommandsFollowOwner'
    BY <2>2, <2>3 DEF IInv, CommandsFollowOwner, registry
  <2> QED BY <2>1, <2>2, <2>4 DEF IInv, InstalledWatchesCurrent,
               StartsFollowOwner, SessionsAreSerial, registry
<1>7. CASE ReceiveLifecycle
  BY <1>7 DEF IInv, ReceiveLifecycle, registry, InstalledWatchesCurrent,
              StartsFollowOwner, CommandsFollowOwner, SessionsAreSerial
<1>8. CASE DrainCommands \/ Disconnect \/ FinishConnect
  <2>1. UNCHANGED <<registry, owner, starts, inFlight>>
    BY <1>8 DEF DrainCommands, Disconnect, FinishConnect
  <2>2. inFlight = {} /\ runtime # "down" /\ runtime' # "down"
    BY <1>8 DEF IInv, SessionsAreSerial, DrainCommands, Disconnect, FinishConnect
  <2> QED BY <2>1, <2>2 DEF IInv, registry, InstalledWatchesCurrent,
               StartsFollowOwner, CommandsFollowOwner, SessionsAreSerial
<1>9. CASE InvalidateWatches
  <2>1. inFlight = {}
    BY <1>9 DEF IInv, SessionsAreSerial, InvalidateWatches
  <2>2. /\ session' = session + 1 /\ watches' = {} /\ starts' = starts
        /\ inFlight' = inFlight /\ runtime' # "down" /\ session' \in Nat
    BY <1>0, <1>9 DEF InvalidateWatches, TypeOK
  <2>3. session' # 0
    BY <1>0, <2>2 DEF TypeOK
  <2> QED BY <2>1, <2>2, <2>3, SessionEnds DEF SessionsAreSerial
<1>10. CASE RemoveSlots
  <2>1. inFlight = {} /\ runtime' # "down"
    BY <1>10 DEF IInv, SessionsAreSerial, RemoveSlots
  <2>2. session # 0
    BY <1>10 DEF IInv, SessionsAreSerial, RemoveSlots
  <2> QED BY <1>10, <2>1, <2>2 DEF IInv, RemoveSlots, registry,
               InstalledWatchesCurrent, StartsFollowOwner, CommandsFollowOwner,
               SessionsAreSerial
<1>11. ASSUME NEW c \in inFlight, ReplaceSources(c)
       PROVE  /\ InstalledWatchesCurrent' /\ StartsFollowOwner'
              /\ CommandsFollowOwner' /\ SessionsAreSerial'
  <2> DEFINE a == c.command.api
             t == [c EXCEPT !.generation = generations[a] + 1]
  <2>1. a \in Apis /\ generations[a] \in Nat
    BY <1>0, Components
  <2>2. /\ generations' = [generations EXCEPT ![a] = @ + 1]
        /\ owner' = [owner EXCEPT ![a] = [seq |-> c.command.seq,
                                          sources |-> c.command.sources]]
        /\ watches' = watches \ {w \in watches : w.job.api = a}
        /\ inFlight' = (inFlight \ {c}) \cup {t}
        /\ UNCHANGED <<session, starts, runtime>>
    BY <1>11 DEF ReplaceSources
  <2>3. /\ generations'[a] = generations[a] + 1
        /\ owner'[a].seq = c.command.seq
        /\ owner'[a].sources = c.command.sources
        /\ \A b \in Apis \ {a} : /\ generations'[b] = generations[b]
                                 /\ owner'[b] = owner[b]
    BY <1>0, <2>1, <2>2 DEF TypeOK
  <2>4. InstalledWatchesCurrent'
    BY <1>0, <2>2, <2>3, Components DEF IInv, InstalledWatchesCurrent
  <2>5. StartsFollowOwner'
    <3> SUFFICES ASSUME NEW s \in starts', s.session = session'
                 PROVE  /\ s.generation <= generations'[s.job.api]
                        /\ s.generation = generations'[s.job.api] =>
                             /\ s.job.seq = owner'[s.job.api].seq
                             /\ s.job.scope \in owner'[s.job.api].sources
      BY <2>2 DEF IInv, StartsFollowOwner
    <3>1. s \in starts /\ s.job.api \in Apis /\ s.generation \in Nat
      BY <1>0, <2>2, Components
    <3>2. /\ s.generation <= generations[s.job.api]
          /\ s.generation = generations[s.job.api] =>
                /\ s.job.seq = owner[s.job.api].seq
                /\ s.job.scope \in owner[s.job.api].sources
      BY <2>2, <3>1 DEF IInv, StartsFollowOwner
    <3>3. CASE s.job.api = a
      BY <2>1, <2>3, <3>1, <3>2, <3>3
    <3>4. CASE s.job.api # a
      BY <2>3, <3>1, <3>2, <3>4
    <3> QED BY <3>3, <3>4
  <2>6. CommandsFollowOwner'
    <3> SUFFICES ASSUME NEW d \in inFlight', d.generation # 0
                 PROVE  /\ d.generation <= generations'[d.command.api]
                        /\ d.generation = generations'[d.command.api] =>
                             /\ d.command.seq = owner'[d.command.api].seq
                             /\ d.command.sources = owner'[d.command.api].sources
      BY DEF CommandsFollowOwner
    <3>1. CASE d = t
      <4>1. c \in Running
        BY <1>0 DEF TypeOK
      <4>2. d.command = c.command /\ d.generation = generations[a] + 1
        BY <3>1, <4>1 DEF Running
      <4> QED BY <2>1, <2>3, <4>2
    <3>2. CASE d \in inFlight
      <4>1. d.command.api \in Apis /\ d.generation \in Nat
        BY <1>0, <3>2, Components
      <4>2. /\ d.generation <= generations[d.command.api]
            /\ d.generation = generations[d.command.api] =>
                  /\ d.command.seq = owner[d.command.api].seq
                  /\ d.command.sources = owner[d.command.api].sources
        BY <3>2 DEF IInv, CommandsFollowOwner
      <4>3. CASE d.command.api = a
        BY <2>1, <2>3, <4>1, <4>2, <4>3
      <4>4. CASE d.command.api # a
        BY <2>3, <4>1, <4>2, <4>4
      <4> QED BY <4>3, <4>4
    <3> QED BY <2>2, <3>1, <3>2
  <2>7. SessionsAreSerial'
    BY <2>2 DEF IInv, SessionsAreSerial
  <2> QED BY <2>4, <2>5, <2>6, <2>7
<1>12. ASSUME NEW c \in inFlight, SpawnStarts(c)
       PROVE  /\ InstalledWatchesCurrent' /\ StartsFollowOwner'
              /\ CommandsFollowOwner' /\ SessionsAreSerial'
  <2> DEFINE Spawned(s) == [job |-> [api |-> c.command.api, scope |-> s,
                                     seq |-> c.command.seq],
                            generation |-> c.generation, session |-> session,
                            pool |-> 0, pc |-> "spawned"]
  <2>1. /\ starts' = starts \cup {Spawned(s) : s \in c.command.sources}
        /\ inFlight' = inFlight \ {c}
        /\ UNCHANGED <<registry, owner, runtime>>
    BY <1>12 DEF SpawnStarts
  <2>2. /\ c.generation <= generations[c.command.api]
        /\ c.generation = generations[c.command.api] =>
             /\ c.command.seq = owner[c.command.api].seq
             /\ c.command.sources = owner[c.command.api].sources
    BY <1>12 DEF IInv, CommandsFollowOwner, SpawnStarts
  <2>3. StartsFollowOwner'
    <3> SUFFICES ASSUME NEW s \in starts'
                 PROVE  /\ s.session <= session
                        /\ s.session = session =>
                          /\ s.generation <= generations[s.job.api]
                          /\ s.generation = generations[s.job.api] =>
                               /\ s.job.seq = owner[s.job.api].seq
                               /\ s.job.scope \in owner[s.job.api].sources
      BY <2>1 DEF registry, StartsFollowOwner
    <3>1. CASE s \in starts
      BY <3>1 DEF IInv, StartsFollowOwner
    <3>2. ASSUME NEW r \in c.command.sources, s = Spawned(r)
          PROVE  /\ s.session <= session
                 /\ s.session = session =>
                      /\ s.generation <= generations[s.job.api]
                      /\ s.generation = generations[s.job.api] =>
                          /\ s.job.seq = owner[s.job.api].seq
                          /\ s.job.scope \in owner[s.job.api].sources
      <4>1. /\ s.job.api = c.command.api /\ s.job.seq = c.command.seq
            /\ s.job.scope = r /\ s.generation = c.generation
            /\ s.session = session
        BY <3>2
      <4>2. session <= session
        BY <1>0, Components
      <4> HIDE DEF Spawned
      <4> QED BY <2>2, <4>1, <4>2
    <3> QED BY <2>1, <3>1, <3>2
  <2> QED BY <2>1, <2>3 DEF IInv, registry, InstalledWatchesCurrent,
               CommandsFollowOwner, SessionsAreSerial
<1>13. ASSUME NEW s \in starts, StartStep(s), ~InstallWatch(s)
       PROVE  /\ InstalledWatchesCurrent' /\ StartsFollowOwner'
              /\ CommandsFollowOwner' /\ SessionsAreSerial'
  <2>1. s \in Start
    BY <1>0 DEF TypeOK
  <2>2. UNCHANGED <<registry, owner, inFlight, runtime>>
    BY <1>13 DEF StartStep, FirstCheck, FindClient, FindSlots, AcquireSlot,
         SecondCheck, StartWatcher, dispatch
  <2>3. PICK t \in {s, [s EXCEPT !.pc = "current"], [s EXCEPT !.pc = "connected"],
                    [s EXCEPT !.pc = "waiting", !.pool = pool],
                    [s EXCEPT !.pc = "acquired"], [s EXCEPT !.pc = "starting"],
                    [s EXCEPT !.pc = "started"]} :
          starts' \subseteq starts \cup {t}
    BY <1>13 DEF StartStep, FirstCheck, FindClient, FindSlots, AcquireSlot,
         SecondCheck, StartWatcher, Becomes, Returns
  <2>4. t.job = s.job /\ t.generation = s.generation /\ t.session = s.session
    BY <2>1, <2>3 DEF Start
  <2> QED BY <2>2, <2>3, <2>4, StartMoves
<1>14. ASSUME NEW s \in starts, InstallWatch(s)
       PROVE  /\ InstalledWatchesCurrent' /\ StartsFollowOwner'
              /\ CommandsFollowOwner' /\ SessionsAreSerial'
  <2>1. /\ UNCHANGED <<session, generations, owner, inFlight, runtime>>
        /\ starts' = starts \ {s}
    BY <1>14 DEF InstallWatch, dispatch, Returns
  <2>2. /\ runtime # "down" /\ session # 0
    BY DEF IInv, SessionsAreSerial
  <2>3. InstalledWatchesCurrent'
    <3>1. CASE IsCurrent(s)
      <4> DEFINE w == [job |-> s.job, generation |-> s.generation,
                       session |-> s.session]
      <4>1. watches' \subseteq watches \cup {w}
        BY <1>14, <3>1 DEF InstallWatch
      <4>2. /\ w.session = session
            /\ w.generation = generations[w.job.api]
            /\ w.job.seq = owner[w.job.api].seq
            /\ w.job.scope \in owner[w.job.api].sources
        BY <3>1 DEF IInv, StartsFollowOwner, IsCurrent
      <4> QED BY <2>1, <4>1, <4>2 DEF IInv, InstalledWatchesCurrent
    <3>2. CASE ~IsCurrent(s)
      BY <1>14, <2>1, <3>2 DEF IInv, InstallWatch, InstalledWatchesCurrent
    <3> QED BY <3>1, <3>2
  <2> QED BY <2>1, <2>2, <2>3 DEF IInv, StartsFollowOwner, CommandsFollowOwner,
               SessionsAreSerial
<1>15. CASE SlotStep \/ WatcherStep
  BY <1>15, UnchangedIInv DEF SlotStep, ReleaseSlot, WatcherStep,
     WatcherInitialized, WatcherEnds, dispatch
<1> QED BY <1>1, <1>2, <1>3, <1>4, <1>5, <1>6, <1>7, <1>8, <1>9, <1>10, <1>11,
           <1>12, <1>13, <1>14, <1>15
        DEF Next, RouterStep, LoadStep, RuntimeStep, CommandStep

LEMMA InductiveInvariant == Spec => []IInv
BY InitIInv, NextIInv, PTL DEF Spec

(* For every number of resources, scopes, commands and reconnects: what is *)
(* in the registry is a source of the reconcile in effect, in the current  *)
(* session.                                                                *)
THEOREM WatchesAlwaysCurrent == Spec => []InstalledWatchesCurrent
<1>1. IInv => InstalledWatchesCurrent
  BY DEF IInv
<1> QED BY <1>1, InductiveInvariant, PTL

-----------------------------------------------------------------------------
(* Watchers without an owner.                                              *)

LEMMA NextNoOrphan == TypeOK /\ NoOrphanWatcher /\ [Next]_vars => NoOrphanWatcher'
<1> SUFFICES ASSUME TypeOK, NoOrphanWatcher, [Next]_vars PROVE NoOrphanWatcher'
  OBVIOUS
<1>1. CASE UNCHANGED <<tasks, starts, watches>>
  BY <1>1 DEF NoOrphanWatcher, JobsOf
<1>2. CASE JoinRuntime
  BY <1>2 DEF JoinRuntime, NoOrphanWatcher
<1>3. CASE StopAllClusters \/ InvalidateWatches
  BY <1>3 DEF StopAllClusters, InvalidateWatches, Abort, NoOrphanWatcher, JobsOf
<1>4. ASSUME NEW c \in inFlight, ReplaceSources(c) PROVE NoOrphanWatcher'
  <2> DEFINE replaced == {w \in watches : w.job.api = c.command.api}
  <2>1. /\ watches' = watches \ replaced
        /\ tasks' = tasks \ JobsOf(replaced)
        /\ starts' = starts
    BY <1>4 DEF ReplaceSources, Abort
  <2> HIDE DEF replaced
  <2> QED BY <2>1 DEF NoOrphanWatcher, JobsOf
<1>5. ASSUME NEW c \in inFlight, SpawnStarts(c) PROVE NoOrphanWatcher'
  BY <1>5 DEF SpawnStarts, work, registry, NoOrphanWatcher, JobsOf
<1>6. ASSUME NEW s \in starts, FirstCheck(s) \/ FindClient(s) \/ FindSlots(s)
                               \/ AcquireSlot(s) \/ SecondCheck(s)
      PROVE NoOrphanWatcher'
  <2>1. /\ UNCHANGED <<tasks, watches>>
        /\ s.pc # "started" /\ starts \ {s} \subseteq starts'
    BY <1>6 DEF FirstCheck, FindClient, FindSlots, AcquireSlot, SecondCheck,
                Becomes, Returns, work, registry
  <2> QED BY <2>1 DEF NoOrphanWatcher, JobsOf
<1>7. ASSUME NEW s \in starts, StartWatcher(s) PROVE NoOrphanWatcher'
  <2> DEFINE t == [s EXCEPT !.pc = "started"]
  <2>1. /\ UNCHANGED watches /\ s.pc # "started"
        /\ starts \ {s} \subseteq starts'
    BY <1>7 DEF StartWatcher, Becomes, Returns, registry
  <2>2. t.job = s.job /\ t.pc = "started"
    BY DEF TypeOK, Start
  <2>3. \/ tasks' = tasks
        \/ tasks' = tasks \cup {s.job} /\ t \in starts'
    BY <1>7 DEF StartWatcher, Becomes
  <2> HIDE DEF t
  <2> QED BY <2>1, <2>2, <2>3 DEF NoOrphanWatcher, JobsOf
<1>8. ASSUME NEW s \in starts, InstallWatch(s) PROVE NoOrphanWatcher'
  <2>1. starts' = starts \ {s}
    BY <1>8 DEF InstallWatch, Returns
  <2>2. CASE IsCurrent(s)
    <3> DEFINE replaced == {w \in watches : /\ w.job.api = s.job.api
                                            /\ w.job.scope = s.job.scope}
               new == [job |-> s.job, generation |-> s.generation,
                       session |-> s.session]
    <3>1. /\ watches' = (watches \ replaced) \cup {new}
          /\ tasks' = tasks \ JobsOf(replaced)
      BY <1>8, <2>2 DEF InstallWatch, Abort
    <3>2. new.job = s.job
      OBVIOUS
    <3> HIDE DEF replaced, new
    <3> QED BY <2>1, <3>1, <3>2 DEF NoOrphanWatcher, JobsOf
  <2>3. CASE ~IsCurrent(s)
    <3>1. watches' = watches /\ tasks' = tasks \ {s.job}
      BY <1>8, <2>3 DEF InstallWatch, Abort
    <3> QED BY <2>1, <3>1 DEF NoOrphanWatcher, JobsOf
  <2> QED BY <2>2, <2>3
<1>9. CASE WatcherStep
  <2>1. tasks' \subseteq tasks /\ UNCHANGED <<starts, watches>>
    BY <1>9 DEF WatcherStep, WatcherInitialized, WatcherEnds, Abort, registry
  <2> QED BY <2>1 DEF NoOrphanWatcher, JobsOf
<1>10. CASE RouterStep \/ SlotStep \/ ReceiveReconcile \/ ReceiveLifecycle
            \/ DrainCommands \/ Disconnect \/ RemoveSlots \/ FinishConnect
  <2>1. UNCHANGED <<tasks, starts, watches>>
    BY <1>10 DEF RouterStep, SendReconcile, SendConnect, RouteToCluster,
       LoadClusters, SlotStep, ReleaseSlot, ReceiveReconcile, ReceiveLifecycle,
       DrainCommands, Disconnect, RemoveSlots, FinishConnect, work, registry
  <2> QED BY <1>1, <2>1
<1> QED BY <1>1, <1>2, <1>3, <1>4, <1>5, <1>6, <1>7, <1>8, <1>9, <1>10
        DEF Next, LoadStep, RuntimeStep, CommandStep, StartStep, vars

(* For every instance: a running watcher is always within reach of the     *)
(* registry or of the start task that is about to hand it over.            *)
THEOREM NoWatcherOrphaned == Spec => []NoOrphanWatcher
<1>1. Init => NoOrphanWatcher
  BY DEF Init, NoOrphanWatcher
<1> QED BY <1>1, NextNoOrphan, TypeCorrect, PTL DEF Spec

-----------------------------------------------------------------------------
(* The registry implements WatchScope.                                     *)

Active == [a \in Apis |->
             {<<w.job.scope, w.job.seq>> : w \in {v \in watches : v.job.api = a}}]

LEMMA StepImplementsPromise ==
  ASSUME IInv, [Next]_vars
  PROVE  [Promise!Next]_<<owner, Active>>
<1>0. TypeOK
  BY DEF IInv
<1>1. CASE UNCHANGED <<owner, watches>>
  BY <1>1 DEF Active
<1>2. CASE StopAllClusters \/ InvalidateWatches
  <2>1. owner' = [a \in Apis |-> NoOwner] /\ watches' = {}
    BY <1>2 DEF StopAllClusters, InvalidateWatches
  <2>2. Promise!NewSession
    BY <2>1 DEF Promise!NewSession, Promise!NoScope, NoOwner, Active
  <2> QED BY <2>2 DEF Promise!Next
<1>3. ASSUME NEW c \in inFlight, ReplaceSources(c)
      PROVE  Promise!Next
  <2> DEFINE a == c.command.api
  <2>1. a \in Apis /\ c.command.seq \in Seqs /\ c.command.sources \in SUBSET Scopes
    BY <1>0, Components
  <2>2. /\ owner' = [owner EXCEPT ![a] = [seq |-> c.command.seq,
                                          sources |-> c.command.sources]]
        /\ watches' = watches \ {w \in watches : w.job.api = a}
    BY <1>3 DEF ReplaceSources
  <2> HIDE DEF a
  <2>3. Active' = [Active EXCEPT ![a] = {}]
    BY <2>1, <2>2 DEF Active
  <2>4. Promise!Replace(a, c.command.seq, c.command.sources)
    BY <2>2, <2>3 DEF Promise!Replace, Active
  <2> QED BY <2>1, <2>4 DEF Promise!Next
<1>4. ASSUME NEW s \in starts, InstallWatch(s), IsCurrent(s)
      PROVE  Promise!Next
  <2> DEFINE a == s.job.api
             r == s.job.scope
             new == [job |-> s.job, generation |-> s.generation,
                     session |-> s.session]
             replaced == {w \in watches : w.job.api = a /\ w.job.scope = r}
  <2>1. a \in Apis /\ r \in Scopes
    BY <1>0, Components
  <2>2. r \in owner[a].sources /\ s.job.seq = owner[a].seq
    BY <1>4 DEF IInv, StartsFollowOwner, IsCurrent
  <2>3. owner' = owner /\ watches' = (watches \ replaced) \cup {new}
    BY <1>4 DEF InstallWatch
  <2>4. \A w \in replaced : w.job.seq = owner[a].seq
    BY DEF IInv, InstalledWatchesCurrent
  <2>5. new.job = s.job
    OBVIOUS
  <2>6. \A w \in replaced : w \in watches /\ w.job.api = a /\ w.job.scope = r
    OBVIOUS
  <2> HIDE DEF new, replaced
  <2>7. ASSUME NEW b \in Apis
        PROVE  Active'[b] = [Active EXCEPT ![a] = @ \cup {<<r, owner[a].seq>>}][b]
    <3>1. Active'[b] = {<<w.job.scope, w.job.seq>> :
                          w \in {v \in watches' : v.job.api = b}}
      BY DEF Active
    <3>2. Active[b] = {<<w.job.scope, w.job.seq>> :
                          w \in {v \in watches : v.job.api = b}}
      BY DEF Active
    <3>3. CASE b = a
      <4>1. Active'[a] = Active[a] \cup {<<r, owner[a].seq>>}
        BY <2>2, <2>3, <2>4, <2>5, <2>6, <3>1, <3>2, <3>3
      <4> QED BY <2>1, <3>3, <4>1 DEF Active
    <3>4. CASE b # a
      <4>1. Active'[b] = Active[b]
        BY <2>3, <2>5, <2>6, <3>1, <3>2, <3>4
      <4> QED BY <3>4, <4>1 DEF Active
    <3> QED BY <3>3, <3>4
  <2>8. Active' = [Active EXCEPT ![a] = @ \cup {<<r, owner[a].seq>>}]
    BY <2>7 DEF Active
  <2>9. Promise!Activate(a, r)
    BY <2>2, <2>3, <2>8 DEF Promise!Activate, Active
  <2> QED BY <2>1, <2>9 DEF Promise!Next
<1>5. ASSUME NEW s \in starts, StartStep(s), ~(InstallWatch(s) /\ IsCurrent(s))
      PROVE  UNCHANGED <<owner, watches>>
  BY <1>5 DEF StartStep, FirstCheck, FindClient, FindSlots, AcquireSlot,
     SecondCheck, StartWatcher, InstallWatch, registry
<1>6. ASSUME NEW c \in inFlight, SpawnStarts(c)
      PROVE  UNCHANGED <<owner, watches>>
  BY <1>6 DEF SpawnStarts, registry
<1>7. CASE RouterStep \/ SlotStep \/ WatcherStep \/ JoinRuntime
           \/ ReceiveReconcile \/ ReceiveLifecycle \/ DrainCommands
           \/ Disconnect \/ RemoveSlots \/ FinishConnect
  <2>1. UNCHANGED <<owner, watches>>
    BY <1>7 DEF RouterStep, SendReconcile, SendConnect, RouteToCluster,
       LoadClusters, SlotStep, ReleaseSlot, WatcherStep, WatcherInitialized,
       WatcherEnds, JoinRuntime, ReceiveReconcile, ReceiveLifecycle,
       DrainCommands, Disconnect, RemoveSlots, FinishConnect, registry
  <2> QED BY <1>1, <2>1
<1>8. CASE UNCHANGED vars
  BY <1>1, <1>8 DEF vars
<1> QED BY <1>1, <1>2, <1>3, <1>4, <1>5, <1>6, <1>7, <1>8
        DEF Next, LoadStep, RuntimeStep, CommandStep, StartStep

(* Every behaviour of the worker is one that WatchScope allows.            *)
THEOREM RegistryImplementsPromise == Spec => ImplementsPromise
<1>1. Init => Promise!Init
  BY DEF Init, Promise!Init, Promise!NoScope, NoOwner
<1>2. IInv /\ [Next]_vars => [Promise!Next]_<<owner, Active>>
  BY StepImplementsPromise
<1> QED BY <1>1, <1>2, InductiveInvariant, PTL
        DEF Spec, ImplementsPromise, Promise!Spec, Active

-----------------------------------------------------------------------------
(* The contexts of the kubeconfig, as the run `worker' puts them together  *)
(* with the watches: what Contexts_proof shows of Contexts holds of its    *)
(* instance here, a definition of the one being that of the other.         *)

Proved == INSTANCE Contexts_proof WITH
            Clouds <- MCClouds, Plans <- MCPlans, tasks <- commands

LEMMA SameContexts ==
  /\ Kubeconfig!ContextsAssumption <=> Proved!ContextsAssumption
  /\ Kubeconfig!Init <=> Proved!Init
  /\ [Kubeconfig!Next]_(Kubeconfig!vars) <=> [Proved!Next]_(Proved!vars)
  /\ Kubeconfig!TypeOK <=> Proved!TypeOK
  /\ Kubeconfig!EditsKept <=> Proved!EditsKept
  /\ Kubeconfig!ResultsExact <=> Proved!ResultsExact
  /\ Kubeconfig!OfferedIsMissing <=> Proved!OfferedIsMissing
<1> USE
   DEF Kubeconfig!ContextsAssumption, Proved!ContextsAssumption,
       Kubeconfig!Init, Proved!Init, Kubeconfig!Next, Proved!Next,
       Kubeconfig!vars, Proved!vars, Kubeconfig!TypeOK,
       Proved!TypeOK, Kubeconfig!EditsKept, Proved!EditsKept,
       Kubeconfig!ResultsExact, Proved!ResultsExact,
       Kubeconfig!OfferedIsMissing, Proved!OfferedIsMissing,
       Kubeconfig!Clusters, Proved!Clusters, Kubeconfig!Managed,
       Proved!Managed, Kubeconfig!NoProfile, Proved!NoProfile,
       Kubeconfig!Absent, Proved!Absent, Kubeconfig!Contexts,
       Proved!Contexts, Kubeconfig!NoSave, Proved!NoSave,
       Kubeconfig!NoEditor, Proved!NoEditor, Kubeconfig!InitialManaged,
       Proved!InitialManaged, Kubeconfig!Of, Proved!Of,
       Kubeconfig!InitialAws, Proved!InitialAws, Kubeconfig!Listed,
       Proved!Listed, Kubeconfig!Click, Proved!Click,
       Kubeconfig!SystemStep, Proved!SystemStep, Kubeconfig!Outside,
       Proved!Outside, Kubeconfig!ui, Proved!ui, Kubeconfig!Files,
       Proved!Files, Kubeconfig!Found, Proved!Found,
       Kubeconfig!OwnedBy, Proved!OwnedBy, Kubeconfig!AtRest,
       Proved!AtRest, Kubeconfig!Configured, Proved!Configured,
       Kubeconfig!OpenDiscovery, Proved!OpenDiscovery,
       Kubeconfig!RefreshAgain, Proved!RefreshAgain,
       Kubeconfig!CloseEditor, Proved!CloseEditor, Kubeconfig!Scan,
       Proved!Scan, Kubeconfig!Import, Proved!Import,
       Kubeconfig!OpenEditor, Proved!OpenEditor, Kubeconfig!SaveLook,
       Proved!SaveLook, Kubeconfig!Work, Proved!Work,
       Kubeconfig!Frame, Proved!Frame, Kubeconfig!EditOutside,
       Proved!EditOutside, Kubeconfig!SignIn, Proved!SignIn,
       Kubeconfig!Spend, Proved!Spend, Kubeconfig!Refresh,
       Proved!Refresh, Kubeconfig!World, Proved!World,
       Kubeconfig!MayScan, Proved!MayScan, Kubeconfig!Cleared,
       Proved!Cleared, Kubeconfig!Send, Proved!Send,
       Kubeconfig!MayImport, Proved!MayImport, Kubeconfig!Saving,
       Proved!Saving, Kubeconfig!ReadReferences,
       Proved!ReadReferences, Kubeconfig!Discover,
       Proved!Discover, Kubeconfig!ListAccounts,
       Proved!ListAccounts, Kubeconfig!ListEks, Proved!ListEks,
       Kubeconfig!Lock, Proved!Lock, Kubeconfig!ImportByTool,
       Proved!ImportByTool, Kubeconfig!MergeEks, Proved!MergeEks,
       Kubeconfig!ReadForSave, Proved!ReadForSave,
       Kubeconfig!CompareForSave, Proved!CompareForSave,
       Kubeconfig!Write, Proved!Write, Kubeconfig!Reload,
       Proved!Reload, Kubeconfig!ApplyDiscovered,
       Proved!ApplyDiscovered, Kubeconfig!ApplyAccounts,
       Proved!ApplyAccounts, Kubeconfig!ApplyScanned,
       Proved!ApplyScanned, Kubeconfig!ApplyImported,
       Proved!ApplyImported, Kubeconfig!ApplyClusters,
       Proved!ApplyClusters, Kubeconfig!ApplyFailed,
       Proved!ApplyFailed, Kubeconfig!ApplyEksFailed,
       Proved!ApplyEksFailed, Kubeconfig!ApplySaved,
       Proved!ApplySaved, Kubeconfig!SaveSettles,
       Proved!SaveSettles, Kubeconfig!With, Proved!With,
       Kubeconfig!Command, Proved!Command, Kubeconfig!EksRows,
       Proved!EksRows, Kubeconfig!ManagedRows, Proved!ManagedRows,
       Kubeconfig!Holds, Proved!Holds, Kubeconfig!Finish,
       Proved!Finish, Kubeconfig!Answer, Proved!Answer,
       Kubeconfig!Moves, Proved!Moves, Kubeconfig!Nothing,
       Proved!Nothing, Kubeconfig!Aside, Proved!Aside,
       Kubeconfig!Places, Proved!Places, Kubeconfig!Reached,
       Proved!Reached, Kubeconfig!StateOf, Proved!StateOf,
       Kubeconfig!Free, Proved!Free, Kubeconfig!Edit, Proved!Edit,
       Kubeconfig!Release, Proved!Release, Kubeconfig!Fails,
       Proved!Fails, Kubeconfig!Applies, Proved!Applies,
       Kubeconfig!Result, Proved!Result, Kubeconfig!IsCurrent,
       Proved!IsCurrent, Kubeconfig!Known, Proved!Known,
       Kubeconfig!AfterFailure, Proved!AfterFailure, Kubeconfig!Added,
       Proved!Added
<1>1. Kubeconfig!ContextsAssumption <=> Proved!ContextsAssumption
  BY DEF Kubeconfig!IsFiniteSet, Proved!IsFiniteSet
<1>2. Kubeconfig!Init <=> Proved!Init
  OBVIOUS
<1>3. Kubeconfig!Next <=> Proved!Next
  OBVIOUS
<1>4. Kubeconfig!vars = Proved!vars /\ Kubeconfig!vars' = Proved!vars'
  OBVIOUS
<1>5. Kubeconfig!TypeOK <=> Proved!TypeOK
  OBVIOUS
<1>6. Kubeconfig!EditsKept <=> Proved!EditsKept
  OBVIOUS
<1>7. Kubeconfig!ResultsExact <=> Proved!ResultsExact
  OBVIOUS
<1>8. Kubeconfig!OfferedIsMissing <=> Proved!OfferedIsMissing
  OBVIOUS
<1>9. QED
  BY <1>1, <1>2, <1>3, <1>4, <1>5, <1>6, <1>7, <1>8

(* A step of the worker is one of the watches or leaves them alone, and so *)
(* for the contexts.                                                       *)
LEMMA WorkerSteps ==
  ASSUME [WorkerNext]_workerVars
  PROVE  [Next]_vars /\ [Kubeconfig!Next]_(Kubeconfig!vars)
<1>1. CASE WatchesNext
  BY <1>1 DEF WatchesNext, OfWatches, contextVars, Kubeconfig!vars, Kubeconfig!ui
<1>2. CASE ContextsNext
  BY <1>2 DEF ContextsNext, OfContexts
<1>3. CASE UNCHANGED <<vars, contextVars>>
  BY <1>3 DEF contextVars, Kubeconfig!vars, Kubeconfig!ui
<1>4. QED
  BY <1>1, <1>2, <1>3
     DEF WorkerNext, workerVars, TableNext, OfTable, FeedsNext, OfFeeds, UsagesNext,
         OfUsages

(* Whatever else the worker does, its watches behave as ResourceWatches.   *)
THEOREM WorkerKeepsWatches == WorkerSpec => Spec
<1>1. WorkerInit => Init
  BY DEF WorkerInit
<1>2. [WorkerNext]_workerVars => [Next]_vars
  BY WorkerSteps
<1> QED BY <1>1, <1>2, PTL DEF WorkerSpec, Spec

(* No edit of the kubeconfig undoes another, an answer to a command says   *)
(* what the accounts and the file were, and a cluster that is offered to   *)
(* be added is not in the file.                                            *)
THEOREM ContextsAreTrue == WorkerSpec => []ContextsTrue
<1>1. Proved!ContextsAssumption
  BY ContextsAssumption, SameContexts
<1>2. WorkerInit => Proved!ContextsInv
  BY <1>1, SameContexts, Proved!ContextsInvInit DEF WorkerInit
<1>3. Proved!ContextsInv /\ [WorkerNext]_workerVars => Proved!ContextsInv'
  BY <1>1, SameContexts, WorkerSteps, Proved!ContextsInvNext
<1>4. Proved!ContextsInv => ContextsTrue
  BY <1>1, SameContexts, Proved!ContextsInvGives DEF ContextsTrue
<1> QED BY <1>2, <1>3, <1>4, PTL DEF WorkerSpec

=============================================================================
