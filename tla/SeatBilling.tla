------------------------------ MODULE SeatBilling ------------------------------
(***************************************************************************)
(* The seats of an organization, in the licensing backend: its copy of the *)
(* Stripe subscription (CommercialSubscription), the changes of its seat   *)
(* quantity (BillingSeatQuantityService), the webhook events that bring    *)
(* the copy up to date (BillingWebhookProcessingService), and the seats    *)
(* that members use of it (PostgresOrganizationSeatAssignmentStore).       *)
(*                                                                         *)
(* Each transaction claims the billing account before it reads, so they    *)
(* follow one another: a step each.  Only the one that changes the quantity*)
(* at Stripe spans several requests, with the account claimed meanwhile.   *)
(* Nothing else orders the answers of Stripe than the time they carry, in  *)
(* seconds, and a revision taken after they arrived.                       *)
(***************************************************************************)
EXTENDS Integers, Sequences, FiniteSets, FiniteSetsExt

CONSTANTS
  Callers,     \* requests of the API that run at a time
  Workers,     \* deliveries of webhook events that run at a time
  Menus,       \* what happens in one behaviour, and the bounds of it
  MaxOps,      \* bound: operations started
  MaxVersion,  \* bound: changes of the subscription at Stripe
  Window       \* ProviderMutationAutomaticReplayLifetime, in seconds here

NoCaller == "none"

Quantities == Nat \ {0}

Menu == [targets: SUBSET Quantities, outside: SUBSET Nat, changes: Nat, seats: Nat,
         faults: Nat, time: Nat, calls: Nat, events: BOOLEAN]

ASSUME BillingAssumption ==
  /\ IsFiniteSet(Callers) /\ IsFiniteSet(Workers)
  /\ NoCaller \notin Callers
  /\ Menus \subseteq Menu
  /\ MaxOps \in Nat \ {0} /\ MaxVersion \in Nat \ {0}
  /\ Window \in Nat \ {0}

VARIABLES
  menu,      \* what is left of the choice of Menus
  now,       \* the clock of Stripe
  stripe,    \* the subscription at Stripe
  keys,      \* Stripe: the answer kept under the idempotency key of each operation
  sub,       \* CommercialSubscription
  ops,       \* BillingOperations, of kind SeatQuantityChange
  required,  \* RequiredSeatCount: seats assigned or reserved by invitations
  lock,      \* who holds the billing account across requests
  calls,     \* BillingSeatQuantityService.ChangeAsync, each
  inbox,     \* BillingWebhookEvents
  workers,   \* BillingWebhookProcessingService.ProcessAsync, each
  executed,  \* history: how often Stripe executed the update of an operation
  changed    \* history: an outside change, a read of another order, a replay

vars == <<menu, now, stripe, keys, sub, ops, required, lock, calls,
          inbox, workers, executed, changed>>

provider == <<stripe, keys, executed>>

-----------------------------------------------------------------------------
Versions   == 1..MaxVersion
OpIds      == 1..MaxOps

Subscription == [quantity: Quantities, active: BOOLEAN, version: Versions]
Observation  == 0   \* CommercialSubscriptionSnapshotKind
MutationResponse == 1
Snapshot == [quantity: Quantities, active: BOOLEAN, version: Versions, at: Nat,
             revision: Nat, kind: {Observation, MutationResponse}]
NoReplay == -1
Operation == [previous: Quantities, target: Quantities,
              status: {"pending", "completed", "failed"},
              outcome: {"none", "applied", "superseded", "rejected"},
              replay: Nat \cup {NoReplay}]
Key == [state: {"unused", "kept", "failed"}, at: Nat, answer: Subscription]

Unlocked == {"idle", "prepared", "read", "observed", "authorized", "rejected"}
Locked   == {"locked", "reread", "rechecked", "posted", "answered"}
CallPcs  == Unlocked \cup Locked
WorkPcs  == {"idle", "claimed", "read", "observed", "applied", "failing"}

Work == [pc: WorkPcs, event: Versions, snap: Snapshot]
Event == [state: {"unsent", "pending", "processed"},
          lease: Workers \cup {NoCaller}, expired: BOOLEAN]
Call == [pc: CallPcs, op: OpIds, snap: Snapshot]

TypeOK ==
  /\ menu \in Menu
  /\ now \in Nat /\ required \in Nat
  /\ stripe \in Subscription
  /\ keys \in [OpIds -> Key]
  /\ sub \in Snapshot
  /\ ops \in Seq(Operation) /\ Len(ops) <= MaxOps
  /\ \A o, p \in DOMAIN ops :
       ops[o].status = "pending" /\ ops[p].status = "pending" => o = p
  /\ lock \in Callers \cup {NoCaller}
  /\ calls \in [Callers -> Call]
  /\ inbox \in [Versions -> Event]
  /\ workers \in [Workers -> Work]
  /\ executed \in [OpIds -> Nat]
  /\ changed \subseteq {"outside", "tied", "replayed"}

First == [quantity |-> 2, active |-> TRUE, version |-> 1]

SnapshotOf(s, kind) ==
  [quantity |-> s.quantity, active |-> s.active, version |-> s.version,
   at |-> now, revision |-> 0, kind |-> kind]

NoSnapshot == [quantity |-> 1, active |-> FALSE, version |-> 1, at |-> 0,
               revision |-> 0, kind |-> Observation]
NoCall == [pc |-> "idle", op |-> 1, snap |-> NoSnapshot]
NoWork == [pc |-> "idle", event |-> 1, snap |-> NoSnapshot]

Init ==
  /\ menu \in Menus
  /\ now = 0
  /\ stripe = First
  /\ keys = [o \in OpIds |-> [state |-> "unused", at |-> 0, answer |-> First]]
  /\ sub = [SnapshotOf(First, Observation) EXCEPT !.revision = 1]
  /\ ops = <<>>
  /\ required = 1
  /\ lock = NoCaller
  /\ calls = [c \in Callers |-> NoCall]
  /\ inbox = [v \in Versions |-> [state |-> IF v = 1 THEN "processed" ELSE "unsent",
                                  lease |-> NoCaller, expired |-> FALSE]]
  /\ workers = [w \in Workers |-> NoWork]
  /\ executed = [o \in OpIds |-> 0]
  /\ changed = {}

-----------------------------------------------------------------------------
(* The copy of the subscription.                                           *)

Unclaimed == lock = NoCaller

(* The projections are equal: CommercialSubscription.MatchesProjection.    *)
MatchesProjection(s) ==
  s.quantity = sub.quantity /\ s.active = sub.active /\ s.at = sub.at

MatchesProviderSnapshot(s) ==
  s.revision = sub.revision /\ s.kind = sub.kind /\ MatchesProjection(s)

(* TryApplyProjection: a later answer counts, of one second a response to a*)
(* change counts more than an observation, and then the revision.          *)
IsNewer(s) ==
  \/ s.at > sub.at
  \/ s.at = sub.at /\ s.kind > sub.kind
  \/ s.at = sub.at /\ s.kind = sub.kind /\ s.revision > sub.revision

(* Mutant: such an observation is taken for an older one.                  *)
ConflictsMutant(s) == FALSE

(* ConflictsWithEqualTimeMutationResponse: nobody knows which came first.  *)
Conflicts(s) ==
  /\ sub.kind = MutationResponse /\ s.kind = Observation
  /\ s.at = sub.at /\ ~MatchesProjection(s)

Projected(s) == IF IsNewer(s) THEN s ELSE sub

(* An answer later than the copy is ignored, or an earlier one replaces it.*)
OutOfOrder(s) ==
  /\ s.kind = sub.kind
  /\ IF IsNewer(s) THEN s.version < sub.version ELSE s.version > sub.version

Project(s) ==
  /\ sub' = Projected(s)
  /\ changed' = IF OutOfOrder(s) THEN changed \cup {"tied"} ELSE changed

(* ClassifyAuthoritativeState; the provider tells the same of an answer.   *)
StateOf(op, s) ==
  IF ~s.active THEN "superseding"
  ELSE IF s.quantity = op.target THEN "target"
  ELSE IF s.quantity = op.previous THEN "previous" ELSE "superseding"

Closed(op, status, outcome) == [op EXCEPT !.status = status, !.outcome = outcome]

(* ResolvePending                                                          *)
Resolved(op, s, startReplay) ==
  IF op.status # "pending" THEN op
  ELSE CASE StateOf(op, s) = "target"      -> Closed(op, "completed", "applied")
         [] StateOf(op, s) = "superseding" -> Closed(op, "failed", "superseded")
         [] OTHER -> IF startReplay /\ op.replay = NoReplay
                       THEN [op EXCEPT !.replay = s.at] ELSE op

Resolve(o, s, startReplay) ==
  ops' = [ops EXCEPT ![o] = Resolved(ops[o], s, startReplay)]

Pending == {o \in DOMAIN ops : ops[o].status = "pending"}

(* Mutant: a decrease counts once Stripe has confirmed it.                 *)
CapacityMutant == sub.quantity

(* The seats that may be used: a decrease under way counts already.        *)
Capacity ==
  Min({sub.quantity} \cup
      {ops[o].target : o \in {p \in Pending : ops[p].previous > ops[p].target}})

-----------------------------------------------------------------------------
(* BillingSeatQuantityService.ChangeAsync                                  *)

Moves(c, pc) == calls' = [calls EXCEPT ![c] =
                            IF pc = "idle" THEN NoCall ELSE [@ EXCEPT !.pc = pc]]
Keeps(c, pc, s) == calls' = [calls EXCEPT ![c].pc = pc, ![c].snap = s]

OfCall  == UNCHANGED <<now, inbox, workers, required>>
Spend(f) == menu[f] > 0 /\ menu' = [menu EXCEPT ![f] = @ - 1]

(* PrepareAsync: the change under way, if it is the one asked for, or a new*)
(* one.  What it refuses changes nothing.                                  *)
Prepare(c, target) ==
  /\ calls[c].pc = "idle" /\ Unclaimed
  /\ Spend("calls")
  /\ target >= required
  /\ \/ \E o \in Pending :
          /\ ops[o].target = target
          /\ calls' = [calls EXCEPT ![c].pc = "prepared", ![c].op = o]
          /\ UNCHANGED ops
     \/ /\ Pending = {} /\ Len(ops) < MaxOps
        /\ sub.active /\ target # sub.quantity
        /\ ops' = Append(ops, [previous |-> sub.quantity, target |-> target,
                               status |-> "pending", outcome |-> "none",
                               replay |-> NoReplay])
        /\ calls' = [calls EXCEPT ![c].pc = "prepared", ![c].op = Len(ops) + 1]
  /\ UNCHANGED <<provider, sub, lock, changed>>
  /\ OfCall

(* A transaction that fails, a request without an answer, the end of the   *)
(* process: what is not committed is undone.                               *)
Fails(c) == /\ Moves(c, "idle")
            /\ lock' = IF lock = c THEN NoCaller ELSE lock

Abandon(c) ==
  /\ calls[c].pc # "idle"
  /\ Spend("faults")
  /\ Fails(c)
  /\ UNCHANGED <<provider, sub, ops, changed>>
  /\ OfCall

ReadAs(pc) == CASE pc = "prepared" -> "read" [] pc = "locked" -> "reread"

(* Stripe answers a read; another step takes the revision.                 *)
Observe(c) ==
  /\ calls[c].pc \in {"prepared", "locked"}
  /\ Keeps(c, ReadAs(calls[c].pc), SnapshotOf(stripe, Observation))
  /\ UNCHANGED <<menu, provider, sub, ops, lock, changed>>
  /\ OfCall

(* Stripe rejects a request, an update of what has ended always: the change*)
(* is closed, after the rollback.                                          *)
RolledBack(c) ==
  /\ Keeps(c, "rejected", NoSnapshot)
  /\ lock' = IF lock = c THEN NoCaller ELSE lock
  /\ UNCHANGED <<provider, sub, ops, changed>>
  /\ OfCall

Rejects(c) == /\ calls[c].pc \in {"prepared", "locked", "rechecked"}
              /\ Spend("faults")
              /\ RolledBack(c)

RejectsEnded(c) == /\ calls[c].pc = "rechecked" /\ ~stripe.active
                   /\ UNCHANGED menu
                   /\ RolledBack(c)

(* ReserveAsync: a revision after all before it.  Here the least one after *)
(* those that may still be compared with it.                               *)
NextRevision ==
  1 + Max({sub.revision} \cup {calls[c].snap.revision : c \in Callers}
                         \cup {workers[w].snap.revision : w \in Workers})

Reserve(c) ==
  /\ \E step \in {<<"read", "observed">>, <<"reread", "rechecked">>,
                  <<"posted", "answered">>} :
       /\ calls[c].pc = step[1]
       /\ Keeps(c, step[2], [calls[c].snap EXCEPT !.revision = NextRevision])
  /\ UNCHANGED <<menu, provider, sub, ops, lock, changed>>
  /\ OfCall

(* The observation is projected; it closes the operation, or authorizes a  *)
(* change at Stripe while that would still know its idempotency key.       *)
ReplayEnds(op) == op.replay + Window

Authorize(c) ==
  /\ calls[c].pc = "observed" /\ Unclaimed
  /\ LET o == calls[c].op  s == calls[c].snap
         needed == StateOf(ops[o], s) = "previous" IN
       /\ Project(s)
       /\ Resolve(o, Projected(s), needed)
       /\ Moves(c, IF /\ needed
                      /\ ops'[o].status = "pending"
                      /\ Projected(s).at < ReplayEnds(ops'[o])
                     THEN "authorized" ELSE "idle")
  /\ UNCHANGED <<menu, provider, lock>>
  /\ OfCall

(* ApplyProviderMutationIfObservationCurrentAsync: with the account        *)
(* claimed, and only on the state that authorized it.                      *)
IsCurrent(c) == /\ ops[calls[c].op].status = "pending"
                /\ MatchesProviderSnapshot(calls[c].snap)

Claim(c) ==
  /\ calls[c].pc = "authorized" /\ Unclaimed
  /\ IF IsCurrent(c)
       THEN lock' = c /\ Keeps(c, "locked", NoSnapshot) /\ UNCHANGED ops
       ELSE /\ Resolve(calls[c].op, sub, FALSE)
            /\ Moves(c, "idle") /\ UNCHANGED lock
  /\ UNCHANGED <<menu, provider, sub, changed>>
  /\ OfCall

Commits(c) ==
  /\ Project(calls[c].snap)
  /\ Resolve(calls[c].op, Projected(calls[c].snap), FALSE)
  /\ Moves(c, "idle") /\ lock' = NoCaller
  /\ UNCHANGED <<menu, provider>>
  /\ OfCall

(* Mutant: the update is repeated however late.                            *)
MayPostMutant(c) == StateOf(ops[calls[c].op], calls[c].snap) = "previous"

(* The subscription read again needs, or allows, no change any more.       *)
MayPost(c) ==
  LET op == ops[calls[c].op] IN
    /\ StateOf(op, calls[c].snap) = "previous"
    /\ calls[c].snap.at < ReplayEnds(op)

Recheck(c) == calls[c].pc = "rechecked" /\ ~MayPost(c) /\ Commits(c)
Commit(c)  == calls[c].pc = "answered" /\ Commits(c)

(* RejectProviderMutationAsync                                             *)
Reject(c) ==
  /\ calls[c].pc = "rejected" /\ Unclaimed
  /\ LET o == calls[c].op IN
       ops' = [ops EXCEPT ![o] =
                 IF @.status = "pending" /\ StateOf(@, sub) = "previous"
                   THEN Closed(@, "failed", "rejected")
                   ELSE Resolved(@, sub, FALSE)]
  /\ Moves(c, "idle")
  /\ UNCHANGED <<menu, provider, sub, lock, changed>>
  /\ OfCall

-----------------------------------------------------------------------------
(* Stripe (external).  It keeps the answer to an update under its          *)
(* idempotency key a day, an hour more than the Window.                    *)

KeyLife == Window + 1
Kept(o) == keys[o].state # "unused" /\ now < keys[o].at + KeyLife

Executes(o) ==
  /\ stripe.version < MaxVersion
  /\ stripe' = [stripe EXCEPT !.quantity = ops[o].target, !.version = @ + 1]
  /\ executed' = [executed EXCEPT ![o] = @ + 1]

KeepsAnswer(o, state) ==
  keys' = [keys EXCEPT ![o] = [state |-> state, at |-> now, answer |-> stripe']]

(* The update of an operation: executed and answered; or the answer of the *)
(* first time again.                                                       *)
Post(c) ==
  LET o == calls[c].op IN
    /\ calls[c].pc = "rechecked" /\ MayPost(c) /\ stripe.active
    /\ IF Kept(o)
         THEN /\ keys[o].state = "kept"
              /\ Keeps(c, "posted", SnapshotOf(keys[o].answer, MutationResponse))
              /\ changed' = IF keys[o].answer # stripe
                              THEN changed \cup {"replayed"} ELSE changed
              /\ UNCHANGED provider
         ELSE /\ Executes(o)
              /\ KeepsAnswer(o, "kept")
              /\ Keeps(c, "posted", SnapshotOf(stripe', MutationResponse))
              /\ UNCHANGED changed
    /\ UNCHANGED <<menu, sub, ops, lock>>
    /\ OfCall

(* It is executed without an answer, or it fails and Stripe keeps that.    *)
PostLost(c) ==
  LET o == calls[c].op IN
    /\ calls[c].pc = "rechecked" /\ MayPost(c) /\ stripe.active
    /\ ~Kept(o)
    /\ Spend("faults")
    /\ \/ Executes(o) /\ \E state \in {"kept", "failed"} : KeepsAnswer(o, state)
       \/ UNCHANGED <<stripe, executed>> /\ KeepsAnswer(o, "failed")
    /\ Fails(c)
    /\ UNCHANGED <<sub, ops, changed>>
    /\ OfCall

(* The failure that was kept is answered again.                            *)
PostFailsAgain(c) ==
  /\ calls[c].pc = "rechecked" /\ MayPost(c)
  /\ Kept(calls[c].op) /\ keys[calls[c].op].state = "failed"
  /\ Fails(c)
  /\ UNCHANGED <<menu, provider, sub, ops, changed>>
  /\ OfCall

(* Somebody at Stripe's dashboard or portal: another quantity, or the end  *)
(* of the subscription (0).                                                *)
ChangeOutside(quantity) ==
  /\ Spend("changes")
  /\ quantity # stripe.quantity
  /\ stripe.active /\ stripe.version < MaxVersion
  /\ stripe' = IF quantity = 0
                 THEN [stripe EXCEPT !.active = FALSE, !.version = @ + 1]
                 ELSE [stripe EXCEPT !.quantity = quantity, !.version = @ + 1]
  /\ changed' = changed \cup {"outside"}
  /\ UNCHANGED <<now, keys, sub, ops, required, lock, calls, inbox, workers,
                 executed>>

(* Time passes; a change follows the read that allows it within a second.  *)
Tick ==
  /\ now < menu.time
  /\ \A c \in Callers : calls[c].pc \in {"reread", "rechecked"} => now <= calls[c].snap.at
  /\ now' = now + 1
  /\ UNCHANGED <<menu, provider, sub, ops, required, lock, calls,
                 inbox, workers, changed>>

-----------------------------------------------------------------------------
(* Webhook events: each says only that the subscription changed.           *)

OfEvents == UNCHANGED <<now, provider, ops, required, lock, calls>>

(* IngestAsync; an event delivered again is found in the inbox.            *)
Ingest(v) ==
  /\ menu.events /\ v <= stripe.version /\ inbox[v].state = "unsent"
  /\ inbox' = [inbox EXCEPT ![v].state = "pending"]
  /\ UNCHANGED <<menu, sub, workers, changed>>
  /\ OfEvents

(* TryAcquireProcessingLease: a message, delivered until it is processed.  *)
Acquire(w, v) ==
  /\ workers[w].pc = "idle"
  /\ inbox[v].state = "pending"
  /\ (inbox[v].lease = NoCaller \/ inbox[v].expired)
  /\ inbox' = [inbox EXCEPT ![v].lease = w, ![v].expired = FALSE]
  /\ workers' = [workers EXCEPT ![w].pc = "claimed", ![w].event = v]
  /\ UNCHANGED <<menu, sub, changed>>
  /\ OfEvents

(* Five minutes after it was taken; the clock here knows seconds only, so  *)
(* this may be any time later.                                             *)
LeaseExpires(v) ==
  /\ inbox[v].lease # NoCaller /\ ~inbox[v].expired
  /\ inbox' = [inbox EXCEPT ![v].expired = TRUE]
  /\ UNCHANGED <<menu, sub, workers, changed>>
  /\ OfEvents

ResolveEvent(w) ==
  /\ workers[w].pc = "claimed"
  /\ workers' = [workers EXCEPT ![w].pc = "read",
                                ![w].snap = SnapshotOf(stripe, Observation)]
  /\ UNCHANGED <<menu, sub, inbox, changed>>
  /\ OfEvents

ReserveForEvent(w) ==
  /\ workers[w].pc = "read"
  /\ workers' = [workers EXCEPT ![w].pc = "observed", ![w].snap.revision = NextRevision]
  /\ UNCHANGED <<menu, sub, inbox, changed>>
  /\ OfEvents

(* CommercialSubscriptionProjectionService.ApplyAsync                      *)
ApplyEvent(w) ==
  /\ workers[w].pc = "observed" /\ Unclaimed
  /\ LET s == workers[w].snap IN
       /\ Project(s)
       /\ workers' = [workers EXCEPT
            ![w].pc = IF ~IsNewer(s) /\ Conflicts(s) THEN "failing" ELSE "applied",
            ![w].snap = NoSnapshot]
  /\ UNCHANGED <<menu, inbox>>
  /\ OfEvents

(* CompleteAsync and ReleaseAsync look whether the lease is still theirs.  *)
Settle(w, state) ==
  LET v == workers[w].event IN
    /\ workers' = [workers EXCEPT ![w] = NoWork]
    /\ inbox' = IF inbox[v].lease = w /\ inbox[v].state = "pending"
                  THEN [inbox EXCEPT ![v].state = state, ![v].lease = NoCaller,
                                     ![v].expired = FALSE]
                  ELSE inbox
    /\ UNCHANGED <<menu, sub, changed>>
    /\ OfEvents

Complete(w) == workers[w].pc = "applied" /\ Settle(w, "processed")
Release(w)  == workers[w].pc = "failing" /\ Settle(w, "pending")

(* A request fails, or the process ends with the lease.                    *)
EventFails(w) ==
  /\ workers[w].pc # "idle"
  /\ Spend("faults")
  /\ workers' = [workers EXCEPT ![w].pc = "failing", ![w].snap = NoSnapshot]
  /\ UNCHANGED <<sub, inbox, changed>>
  /\ OfEvents

WorkerCrashes(w) ==
  /\ workers[w].pc # "idle"
  /\ Spend("faults")
  /\ workers' = [workers EXCEPT ![w] = NoWork]
  /\ UNCHANGED <<sub, inbox, changed>>
  /\ OfEvents

-----------------------------------------------------------------------------
(* SetAssignedAsync, and invitations that reserve a seat.                  *)
Seats ==
  /\ Unclaimed
  /\ Spend("seats")
  /\ UNCHANGED <<now, provider, sub, ops, lock, calls, inbox, workers,
                 changed>>

AssignSeat   == Seats /\ sub.active /\ required < Capacity /\ required' = required + 1
UnassignSeat == Seats /\ required > 0 /\ required' = required - 1

-----------------------------------------------------------------------------
CallStep(c) ==
  \/ Observe(c) \/ Reserve(c) \/ Authorize(c) \/ Claim(c) \/ Recheck(c)
  \/ Post(c) \/ PostFailsAgain(c) \/ RejectsEnded(c) \/ Commit(c) \/ Reject(c)

CallFault(c) == Abandon(c) \/ Rejects(c) \/ PostLost(c)

WorkStep(w) ==
  \/ \E v \in Versions : Acquire(w, v)
  \/ ResolveEvent(w) \/ ReserveForEvent(w) \/ ApplyEvent(w) \/ Complete(w)
  \/ Release(w)

WorkFault(w) == EventFails(w) \/ WorkerCrashes(w)

Next ==
  \/ \E c \in Callers : \/ \E target \in menu.targets : Prepare(c, target)
                        \/ CallStep(c) \/ CallFault(c)
  \/ \E w \in Workers : WorkStep(w) \/ WorkFault(w)
  \/ \E v \in Versions : Ingest(v) \/ LeaseExpires(v)
  \/ \E quantity \in menu.outside : ChangeOutside(quantity)
  \/ AssignSeat \/ UnassignSeat \/ Tick

Spec == Init /\ [][Next]_vars

(* Stripe delivers each event until it is taken, messages are delivered    *)
(* until they are processed, and requests end.                             *)
Fairness ==
  /\ WF_vars(\E v \in Versions : Ingest(v) \/ LeaseExpires(v))
  /\ WF_vars(\E w \in Workers : WorkStep(w))
  /\ WF_vars(\E c \in Callers : CallStep(c))

FairSpec == Spec /\ Fairness

-----------------------------------------------------------------------------
(* Stripe executes the update of an operation at most once, however often  *)
(* it is retried and whatever is lost, only while the operation is pending,*)
(* and no decrease goes below the seats in use.                            *)
ChargedOnce ==
  [][\A o \in OpIds : executed'[o] # executed[o] =>
       /\ executed[o] = 0
       /\ ops[o].status = "pending"
       /\ ops[o].target < ops[o].previous => required <= ops[o].target]_vars

(* Seats in use are seats paid for, as long as nobody else changes the     *)
(* subscription and no operation was closed as rejected that Stripe had    *)
(* executed (the update unanswered, a later request refused).              *)
RejectedBlindly ==
  \E o \in DOMAIN ops : ops[o].outcome = "rejected" /\ executed[o] > 0

SeatsFunded ==
  changed \cap {"outside", "tied"} = {} /\ ~RejectedBlindly => required <= stripe.quantity

(* An answer never replaces a later one.                                   *)
ReadsInOrder == [][sub'.version >= sub.version]_vars

(* Once nothing changes any more, the copy becomes what Stripe has: unless *)
(* two reads of one second were applied in the wrong order, Stripe repeated*)
(* an answer that is not true any more, or its clock does not go past the  *)
(* second of an update.                                                    *)
Faithful == sub.quantity = stripe.quantity /\ sub.active = stripe.active

ProjectionSettles ==
  <>[](\/ Faithful \/ ~menu.events
       \/ changed \cap {"tied", "replayed"} # {}
       \/ sub.kind = MutationResponse /\ sub.at = now)

=============================================================================
