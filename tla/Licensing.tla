------------------------------- MODULE Licensing -------------------------------
(***************************************************************************)
(* The licensing client: licensing.rs and the buttons of                   *)
(* ui/settings/licensing.rs.  The service in the user interface sends      *)
(* commands that carry an operation generation and polls events that carry *)
(* the generation they belong to.  One thread executes the commands; an    *)
(* attempt under way is dropped, where it stands, by the next command.     *)
(*                                                                         *)
(* The server (external) rotates the refresh token whenever it grants one: *)
(* the token it replaces is refused from then on.  A token is therefore    *)
(* "current" or "stale".  Every server has an origin: the status           *)
(* Unconfigured and the display name, which interrupts nothing, are left   *)
(* out.  A lease is the time at which it expires.                          *)
(***************************************************************************)
EXTENDS Integers, Sequences, FiniteSets

CONSTANTS
  Servers,      \* LicenseServer: hosted, or a custom origin
  Hosted,       \* the server in use at first; the servers do not differ
  Bounds,       \* bounds, one of which a behaviour has: operations the user
                \* starts, attempts the retry timer starts, and faults of
                \* the keychain, lost answers and restarts
  MaxTime       \* bound: the clock

LicensingAssumption ==
  /\ Hosted \in Servers
  /\ Bounds \subseteq [clicks: Nat, timers: Nat, faults: Nat]
  /\ MaxTime \in Nat

VARIABLES
  ui,        \* settings and status of LicensingService
  clock,     \* unix_now
  commands,  \* channel to the worker
  events,    \* channel to the service
  worker,    \* settings and locals of run_worker
  attempt,   \* the attempt run_until_command waits for
  keychain,  \* KeyringCredentialStore: the token of each origin
  valid,     \* server: it would accept its current token
  bounds,    \* what is left of the bounds
  gone,      \* ghost: servers whose current token the client gave up or
             \* never got to keep
  unfinished \* ghost: a token could not be deleted where one should be

vars == <<ui, clock, commands, events, worker, attempt, keychain, valid,
          bounds, gone, unfinished>>

-----------------------------------------------------------------------------
NoLease  == 0
Lease    == 0..(MaxTime + 1)
NoToken  == "none"
Token    == {NoToken, "stale", "current"}
Statuses == {"signedOut", "checking", "awaiting", "licensed", "offline",
             "evaluation", "renewal", "failed"}
Idle     == [step |-> "idle", kind |-> "none", gen |-> 0, token |-> NoToken,
             answer |-> "none"]

TypeOK ==
  /\ ui \in [server: Servers, lease: Lease, signedOut: BOOLEAN,
             status: Statuses, shown: Lease, gen: Nat]
  /\ clock \in 0..MaxTime
  /\ \A c \in DOMAIN commands :
       commands[c] \in [kind: {"signIn", "refresh", "signOut"}, gen: Nat]
                         \cup [kind: {"switch"}, gen: Nat, server: Servers]
  /\ \A e \in DOMAIN events :
       events[e].lease \in Lease /\ events[e].gen \in Nat
  /\ worker.server \in Servers /\ worker.lease \in Lease
  /\ worker.session \in Token /\ worker.signedOut \in BOOLEAN
  /\ worker.retry \in BOOLEAN /\ worker.retryGen \in Nat
  /\ attempt.step \in {"idle", "refreshing", "authorizing", "approving",
                       "entitling"}
  /\ attempt.answer \in {"none", "granted"}
  /\ attempt.step = "idle" => attempt = Idle
  /\ keychain \in [Servers -> Token]
  /\ valid \subseteq Servers /\ gone \subseteq Servers
  /\ unfinished \in BOOLEAN

(* cached_lease_at                                                         *)
Cached(settings) == IF settings.lease > clock THEN settings.lease ELSE NoLease

Send(kind, gen) == commands' = Append(commands, [kind |-> kind, gen |-> gen])

Event(kind, gen)        == [kind |-> kind, gen |-> gen, lease |-> NoLease]
EventOf(kind, gen, lease) == [Event(kind, gen) EXCEPT !.lease = lease]

(* LicensingService::start; a service that was not signed out refreshes.   *)
StartedUi(server, lease, signedOut) ==
  [server |-> server, lease |-> lease, signedOut |-> signedOut,
   status |-> IF lease > clock THEN "offline" ELSE "signedOut",
   shown |-> IF lease > clock THEN lease ELSE NoLease,
   gen |-> IF signedOut THEN 0 ELSE 1]

StartedCommands(signedOut) ==
  IF signedOut THEN <<>> ELSE <<[kind |-> "refresh", gen |-> 1]>>

StartedWorker(server, lease, signedOut) ==
  [server |-> server, lease |-> lease, signedOut |-> signedOut,
   session |-> NoToken, retry |-> FALSE, retryGen |-> 0]

Init ==
  /\ clock = 0
  /\ \E lease \in {NoLease, 1} :
       /\ ui = StartedUi(Hosted, lease, FALSE)
       /\ worker = StartedWorker(Hosted, lease, FALSE)
       /\ valid = IF lease = NoLease THEN {} ELSE {Hosted}
       /\ keychain = [s \in Servers |->
                        IF s \in valid THEN "current" ELSE NoToken]
  /\ commands = StartedCommands(FALSE)
  /\ events = <<>>
  /\ attempt = Idle
  /\ bounds \in Bounds
  /\ gone = {}
  /\ unfinished = FALSE

Use(kind) ==
  /\ bounds[kind] > 0
  /\ bounds' = [bounds EXCEPT ![kind] = @ - 1]
Fault == Use("faults")

-----------------------------------------------------------------------------
(* The service: what the user does.                                        *)

Click(buttons) ==
  /\ ui.status \in buttons
  /\ Use("clicks")
  /\ UNCHANGED <<clock, events, worker, attempt, keychain, valid, gone,
                 unfinished>>

NextGen == ui.gen + 1

SignIn ==
  /\ Click({"signedOut", "evaluation", "failed"})
  /\ ui' = [ui EXCEPT !.signedOut = FALSE, !.gen = NextGen]
  /\ Send("signIn", NextGen)

Refresh ==
  /\ Click({"licensed", "offline", "failed", "renewal"})
  /\ ui' = [ui EXCEPT !.gen = NextGen]
  /\ Send("refresh", NextGen)

Cleared == [ui EXCEPT !.lease = NoLease, !.signedOut = TRUE, !.gen = NextGen,
                      !.status = "signedOut", !.shown = NoLease]

SignOut ==
  /\ Click({"checking", "awaiting", "licensed", "offline", "failed",
            "renewal"})
  /\ ui' = Cleared
  /\ Send("signOut", NextGen)

SwitchServer(s) ==
  /\ s # ui.server
  /\ Click(Statuses)
  /\ ui' = [Cleared EXCEPT !.server = s]
  /\ commands' = Append(commands,
                        [kind |-> "switch", gen |-> NextGen, server |-> s])

-----------------------------------------------------------------------------
(* The service: poll.                                                      *)

Shows(status, lease) == [ui EXCEPT !.status = status, !.shown = lease]
Forgets(state)       == [state EXCEPT !.lease = NoLease]

AfterEvent(e) ==
  CASE e.kind = "checking" ->
         IF ui.shown = NoLease /\ ui.status # "renewal"
           THEN Shows("checking", NoLease) ELSE ui
    [] e.kind = "awaiting" -> Shows("awaiting", NoLease)
    [] e.kind = "licensed" ->
         [Shows("licensed", e.lease) EXCEPT !.lease = e.lease,
                                            !.signedOut = FALSE]
    [] e.kind = "offline" -> Shows("offline", e.lease)
    [] e.kind \in {"evaluation", "renewal"} -> Forgets(Shows(e.kind, NoLease))
    [] e.kind \in {"signedOut", "signedOutForGood"} ->
         [Forgets(Shows("signedOut", NoLease))
            EXCEPT !.signedOut = e.kind = "signedOutForGood"]
    [] e.kind = "clear" -> Forgets(ui)
    [] e.kind = "failed" -> Shows("failed", NoLease)

(* Mutant: events of an operation that was replaced are applied.           *)
ConcernsMutant(e) == TRUE

Concerns(e) == e.gen = ui.gen

(* A lease that ran out is shown as such, and forgotten.                   *)
Expired(state) ==
  IF state.shown # NoLease /\ clock >= state.shown
    THEN [state EXCEPT !.lease = NoLease, !.status = "renewal",
                       !.shown = NoLease]
    ELSE state

Poll ==
  /\ \/ events # <<>> /\ events' = Tail(events)
        /\ ui' = Expired(IF Concerns(Head(events))
                           THEN AfterEvent(Head(events)) ELSE ui)
     \/ events = <<>> /\ UNCHANGED events
        /\ ui # Expired(ui) /\ ui' = Expired(ui)
  /\ UNCHANGED <<clock, commands, worker, attempt, keychain, valid, bounds,
                 gone, unfinished>>

Tick ==
  /\ clock < MaxTime
  /\ clock' = clock + 1
  /\ UNCHANGED <<ui, commands, events, worker, attempt, keychain, valid,
                 bounds, gone, unfinished>>

-----------------------------------------------------------------------------
(* The worker: how an attempt ends.                                        *)

Here == worker.server
Credential == IF worker.session # NoToken THEN worker.session
              ELSE keychain[Here]

(* refresh_failure_event                                                   *)
Failure(w, error, gen) ==
  CASE error = "none" -> <<>>
    [] error # "none" /\ Cached(w) # NoLease ->
         <<EventOf("offline", gen, Cached(w))>>
    [] error # "none" /\ Cached(w) = NoLease ->
         <<Event(IF error = "renewal" THEN "renewal" ELSE "failed", gen)>>

(* refresh_retry_delay, scheduled_refresh_delay: a failed refresh is tried *)
(* again, a failed sign-in only while the renewal is pending, and a lease  *)
(* is refreshed before it ends.                                            *)
Retries(kind, w, error) ==
  IF error = "none" THEN Cached(w) # NoLease
  ELSE kind = "refresh" \/ error = "renewal"

(* Mutant: the attempt is cleared, but its answer is kept.                 *)
CompletesMutant(kind, gen, w, error, evs) ==
  /\ attempt' = [Idle EXCEPT !.answer = attempt.answer]
  /\ events' = events \o evs \o Failure(w, error, gen)
  /\ worker' = [w EXCEPT !.retry = Retries(kind, w, error), !.retryGen = gen]

(* LicenseAttemptOutcome::Completed, after the events evs.                 *)
Completes(kind, gen, w, error, evs) ==
  /\ attempt' = Idle
  /\ events' = events \o evs \o Failure(w, error, gen)
  /\ worker' = [w EXCEPT !.retry = Retries(kind, w, error), !.retryGen = gen]

Ends(w, error, evs) == Completes(attempt.kind, attempt.gen, w, error, evs)

(* The keychain deletes the token of the server in use, or refuses.        *)
Deletes ==
  \/ /\ keychain' = [keychain EXCEPT ![Here] = NoToken]
     /\ UNCHANGED <<bounds, unfinished>>
  \/ Fault /\ unfinished' = TRUE /\ UNCHANGED keychain

-----------------------------------------------------------------------------
(* The worker: commands.                                                   *)

Command == Head(commands)

Takes(kinds) ==
  /\ attempt.step = "idle"
  /\ commands # <<>>
  /\ Command.kind \in kinds
  /\ commands' = Tail(commands)

(* revoke_and_delete_session, then SwitchServer or SignOut.  The server may*)
(* not be reached.                                                         *)
EndSession ==
  /\ Takes({"signOut", "switch"})
  /\ Deletes
  /\ \/ UNCHANGED valid
     \/ Credential = "current" /\ valid' = valid \ {Here}
  /\ gone' = gone \cup {Here}
  /\ worker' = [worker EXCEPT
       !.server = IF Command.kind = "switch" THEN Command.server ELSE @,
       !.lease = NoLease, !.signedOut = TRUE, !.session = NoToken,
       !.retry = FALSE]
  /\ events' = Append(events, Event("signedOutForGood", Command.gen))
  /\ UNCHANGED <<ui, clock, attempt>>

(* refresh_with, up to its request: without a credential it fails when     *)
(* there is a lease to keep, and is signed out otherwise.                  *)
BeginRefresh(gen, unreadable) ==
  LET checking == <<Event("checking", gen)>>
      missing  == Credential = NoToken \/ (worker.session = NoToken /\ unreadable)
  IN
  /\ \/ /\ ~missing
        /\ attempt' = [step |-> "refreshing", kind |-> "refresh", gen |-> gen,
                       token |-> Credential, answer |-> "none"]
        /\ events' = events \o checking
        /\ UNCHANGED worker
     \/ /\ missing
        /\ IF Cached(worker) # NoLease
             THEN Completes("refresh", gen, worker, "other", checking)
             ELSE Completes("refresh", gen, worker, "none",
                            Append(checking, Event("signedOut", gen)))
  /\ UNCHANGED <<ui, clock, keychain, valid, gone, unfinished>>

ExecuteRefresh ==
  /\ Takes({"refresh"})
  /\ \/ UNCHANGED bounds /\ BeginRefresh(Command.gen, FALSE)
     \/ Fault /\ BeginRefresh(Command.gen, TRUE)

RetryTimer ==
  /\ attempt.step = "idle"
  /\ commands = <<>>
  /\ worker.retry
  /\ bounds.timers > 0
  /\ \E unreadable \in BOOLEAN :
       /\ unreadable => bounds.faults > 0
       /\ bounds' = [bounds EXCEPT !.timers = @ - 1,
                                   !.faults = IF unreadable THEN @ - 1 ELSE @]
       /\ BeginRefresh(worker.retryGen, unreadable)
  /\ UNCHANGED commands

ExecuteSignIn ==
  /\ Takes({"signIn"})
  /\ worker' = [worker EXCEPT !.signedOut = FALSE]
  /\ attempt' = [step |-> "authorizing", kind |-> "signIn",
                 gen |-> Command.gen, token |-> NoToken, answer |-> "none"]
  /\ events' = Append(events, Event("checking", Command.gen))
  /\ UNCHANGED <<ui, clock, keychain, valid, bounds, gone, unfinished>>

Granted == attempt.answer = "granted"

(* LicenseAttemptOutcome::Interrupted: the command is executed next.       *)
Interrupt ==
  /\ attempt.step # "idle"
  /\ commands # <<>>
  /\ attempt' = Idle
  /\ worker' = IF attempt.kind = "refresh" THEN [worker EXCEPT !.retry = FALSE]
               ELSE worker
  /\ gone' = IF Granted THEN gone \cup {Here} ELSE gone
  /\ UNCHANGED <<ui, clock, commands, events, keychain, valid, bounds,
                 unfinished>>

-----------------------------------------------------------------------------
(* The worker: an attempt waits for the server.                            *)

InAttempt(step) ==
  /\ attempt.step = step
  /\ UNCHANGED <<ui, clock, commands>>

(* start_authorization                                                     *)
Authorization ==
  /\ InAttempt("authorizing")
  /\ \/ /\ attempt' = [attempt EXCEPT !.step = "approving"]
        /\ events' = Append(events, Event("awaiting", attempt.gen))
        /\ UNCHANGED worker
     \/ Ends(worker, "other", <<>>)
  /\ UNCHANGED <<keychain, valid, bounds, gone, unfinished>>

(* The server grants new tokens; those it granted before are stale (a      *)
(* sign-in is taken to replace the session the server had).                *)
Stale(token) == IF token = "current" THEN "stale" ELSE token

ServerGrants ==
  /\ \/ InAttempt("refreshing") /\ attempt.token = "current" /\ Here \in valid
     \/ InAttempt("approving")
  /\ attempt.answer = "none"
  /\ attempt' = [attempt EXCEPT !.answer = "granted", !.token = Stale(@)]
  /\ keychain' = [keychain EXCEPT ![Here] = Stale(@)]
  /\ worker' = [worker EXCEPT !.session = Stale(@)]
  /\ valid' = valid \cup {Here}
  /\ gone' = gone \ {Here}
  /\ UNCHANGED <<events, bounds, unfinished>>

Saved == [worker EXCEPT !.session = NoToken]

(* persist_and_request_lease, up to its request.  A token that cannot be   *)
(* saved is kept for the session, and the old one deleted.                 *)
Persist ==
  /\ InAttempt("refreshing") \/ InAttempt("approving")
  /\ Granted
  /\ attempt' = [attempt EXCEPT !.step = "entitling", !.token = NoToken,
                                !.answer = "none"]
  /\ \/ /\ keychain' = [keychain EXCEPT ![Here] = "current"]
        /\ worker' = Saved
        /\ UNCHANGED bounds
     \/ /\ Fault
        /\ keychain' \in {keychain, [keychain EXCEPT ![Here] = NoToken]}
        /\ worker' = [worker EXCEPT !.session = "current"]
  /\ UNCHANGED <<events, valid, gone, unfinished>>

(* A refresh that is answered without a new token: the one in use stays.  A*)
(* sign-in needs one, and fails.                                           *)
TokenStays ==
  /\ InAttempt("refreshing") /\ ~Granted
  /\ attempt.token = "current" /\ Here \in valid
  /\ attempt' = [attempt EXCEPT !.step = "entitling", !.token = NoToken]
  /\ UNCHANGED <<events, worker, keychain, valid, bounds, gone, unfinished>>

(* The answer never arrives.                                               *)
AnswerLost ==
  /\ InAttempt("refreshing") \/ InAttempt("approving")
  /\ Granted
  /\ Fault
  /\ gone' = gone \cup {Here}
  /\ Ends(worker, "other", <<>>)
  /\ UNCHANGED <<keychain, valid, unfinished>>

(* invalid_grant, or Unauthorized: the session is over.                    *)
SessionOver(kind) ==
  /\ Deletes
  /\ gone' = gone \cup {Here}
  /\ Ends([worker EXCEPT !.session = NoToken, !.lease = NoLease], "none",
          <<Event(kind, attempt.gen)>>)
  /\ UNCHANGED valid

RefreshRefused ==
  /\ InAttempt("refreshing") /\ ~Granted
  /\ attempt.token # "current" \/ Here \notin valid
  /\ SessionOver("signedOut")

(* RenewalPending, another denial, a timeout; the device authorization     *)
(* was denied or expired.  A pending renewal does not end a sign-in.       *)
AttemptFails ==
  /\ InAttempt("refreshing") \/ InAttempt("approving")
  /\ ~Granted
  /\ \E error \in IF attempt.step = "refreshing" THEN {"renewal", "other"}
                  ELSE {"other"} : Ends(worker, error, <<>>)
  /\ UNCHANGED <<keychain, valid, bounds, gone, unfinished>>

(* EntitlementExchange::Issued with a lease that validates at this time.   *)
LeaseIssued ==
  /\ InAttempt("entitling")
  /\ \E lease \in (clock + 1)..(MaxTime + 1) :
       Ends([worker EXCEPT !.lease = lease, !.signedOut = FALSE], "none",
            <<EventOf("licensed", attempt.gen, lease)>>)
  /\ UNCHANGED <<keychain, valid, bounds, gone, unfinished>>

EntitlementFails ==
  /\ InAttempt("entitling")
  /\ \/ \E error \in {"renewal", "other"} : Ends(worker, error, <<>>)
     \/ Ends([worker EXCEPT !.lease = NoLease], "other",
             <<Event("clear", attempt.gen)>>)
  /\ UNCHANGED <<keychain, valid, bounds, gone, unfinished>>

EntitlementRefused ==
  /\ InAttempt("entitling")
  /\ SessionOver("evaluation") \/ SessionOver("signedOut")

-----------------------------------------------------------------------------
(* The program ends, its threads with it, and is started again with the    *)
(* settings the service had.                                               *)
Restart ==
  /\ Fault
  /\ ui' = StartedUi(ui.server, ui.lease, ui.signedOut)
  /\ worker' = StartedWorker(ui.server, ui.lease, ui.signedOut)
  /\ commands' = StartedCommands(ui.signedOut)
  /\ events' = <<>>
  /\ attempt' = Idle
  /\ gone' = IF Granted \/ worker.session = "current" THEN gone \cup {Here}
             ELSE gone
  /\ unfinished' = (unfinished \/ \E c \in DOMAIN commands :
                      commands[c].kind \in {"signOut", "switch"})
  /\ UNCHANGED <<clock, keychain, valid>>

-----------------------------------------------------------------------------
User == \/ SignIn \/ Refresh \/ SignOut
        \/ \E s \in Servers : SwitchServer(s)

WorkerStep ==
  \/ EndSession \/ ExecuteRefresh \/ ExecuteSignIn \/ Interrupt
  \/ Authorization \/ Persist \/ TokenStays \/ RefreshRefused \/ AttemptFails
  \/ LeaseIssued \/ EntitlementFails \/ EntitlementRefused

Next ==
  \/ User \/ Poll \/ Tick \/ WorkerStep \/ RetryTimer \/ ServerGrants
  \/ AnswerLost \/ Restart

Spec == Init /\ [][Next]_vars

(* The interface polls every frame, the worker's thread runs, and every    *)
(* request it waits for is answered or times out.                          *)
FairSpec == Spec /\ WF_vars(Poll) /\ WF_vars(WorkerStep)

-----------------------------------------------------------------------------
AtRest == attempt = Idle /\ commands = <<>>

(* Who signed out, or changed to another server, stays signed out until    *)
(* the next sign-in, also when the program is started again: an answer     *)
(* that was under way does not bring the account back.  Once the worker    *)
(* did what it was told, both sides mean the same server and account.      *)
SignedOutStays ==
  /\ ui.signedOut => ui.status = "signedOut" /\ ui.lease = NoLease
  /\ AtRest => ui.server = worker.server /\ ui.signedOut = worker.signedOut

(* Between two attempts the client holds the one token the server still    *)
(* accepts, unless an answer with a new token was lost; and a server the   *)
(* user left, or signed out of, leaves no token in the keychain, unless it *)
(* could not be deleted.                                                   *)
CredentialKept ==
  /\ attempt = Idle /\ Here \in valid \ gone => Credential = "current"
  /\ AtRest /\ ~unfinished =>
       \A s \in Servers : s # Here \/ worker.signedOut => keychain[s] = NoToken

(* The status does not stay at checking or waiting for approval.           *)
ChecksEnd == []<>(ui.status \notin {"checking", "awaiting"})

=============================================================================
