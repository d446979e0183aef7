------------------------------ MODULE MCLicensing ------------------------------
(***************************************************************************)
(* Licenses and updates for TLC: the seats an organization pays for, in the*)
(* backend (SeatBilling); the account of one user, in the program          *)
(* (Licensing); and the updates the program installs (Updater).  The       *)
(* program learns of the seats only whether it is granted a lease, which   *)
(* Licensing leaves open, and updates are no part of a license; each       *)
(* behaviour is one of a single part, chosen at the start.                 *)
(***************************************************************************)
EXTENDS SeatBilling

CONSTANTS Servers, Hosted, Bounds, MaxTime,
          Programs, Releases, NoFile, Broken, Plans

VARIABLES
  part,
  ui, clock, commands, events, worker, attempt, keychain, valid, bounds, gone,
  unfinished,
  budget, latest, installed, staged, packages, at, runs, held, bytes, wanted,
  shown, sent, listens, odd

Client == INSTANCE Licensing

ASSUME ClientAssumption == Client!LicensingAssumption

Base == [targets |-> {1, 3}, outside |-> {}, changes |-> 0, seats |-> 0,
         faults |-> 1, time |-> 1, calls |-> 2, events |-> TRUE]

(* Two requests to change the quantity while seats are assigned; one, while*)
(* somebody else changes the quantity or ends the subscription; and one    *)
(* that is tried again for as long as Stripe knows it, or longer.          *)
MCMenus ==
  {[Base EXCEPT !.seats = 2],
   [Base EXCEPT !.outside = {0, 3}, !.changes = 1, !.targets = {1}, !.calls = 1],
   [Base EXCEPT !.outside = {2}, !.changes = 1, !.targets = {1}, !.time = 3,
                !.events = FALSE]}

(* What the user does is disturbed by a fault, or by the retry timer too.  *)
MCBounds == {[clicks |-> 2, timers |-> 0, faults |-> 1],
             [clicks |-> 1, timers |-> 1, faults |-> 1]}

(* One program that is started again and again, with packages damaged, a   *)
(* version installed by hand, and steps that fail; and two at once.        *)
One  == [programs |-> {CHOOSE p \in Programs : TRUE}, launches |-> 4, faults |-> 0,
         windows |-> FALSE, others |-> {}]
Both == [One EXCEPT !.programs = Programs]
MCPlans ==
  {[Both EXCEPT !.launches = 2, !.faults = 1], Both}
    \cup UNION {{[One EXCEPT !.windows = windows, !.faults = 1, !.launches = 3,
                             !.others = {"damage", "by hand"}],
                 [One EXCEPT !.windows = windows, !.faults = 2],
                 [Both EXCEPT !.windows = windows, !.launches = 2]} : windows \in BOOLEAN}

Updates == INSTANCE Updater WITH None <- NoFile, pending <- staged, target <- wanted

ASSUME UpdatesAssumption == Updates!UpdaterAssumption

clientVars == <<ui, clock, commands, events, worker, attempt, keychain, valid,
                bounds, gone, unfinished>>
updatesVars == <<budget, latest, installed, staged, packages, at, runs, held, bytes,
                 wanted, shown, sent, listens, odd>>
licensesVars == <<part, vars, clientVars, updatesVars>>

OfSeats(A)   == part = "seats" /\ A /\ UNCHANGED <<part, clientVars, updatesVars>>
OfClient(A)  == part = "client" /\ A /\ UNCHANGED <<part, vars, updatesVars>>
OfUpdates(A) == part = "updates" /\ A /\ UNCHANGED <<part, vars, clientVars>>

LicensesInit ==
  /\ part \in {"seats", "client", "updates"}
  /\ Init /\ Client!Init /\ Updates!Init
  /\ part # "seats" => ~menu.events
  /\ part # "client" => valid = {} /\ bounds.timers = 0
  /\ part # "updates" => budget = CHOOSE plan \in Plans : TRUE

SeatsNext  == OfSeats(Next)
ClientNext == OfClient(Client!Next)
UpdatesNext == OfUpdates(Updates!Next)
LicensesNext == SeatsNext \/ ClientNext \/ UpdatesNext

LicensesSpec == LicensesInit /\ [][LicensesNext]_licensesVars

(* The fairness of both: SeatBilling!Fairness, Licensing!FairSpec.         *)
EventStep == \E v \in Versions : Ingest(v) \/ LeaseExpires(v)

FairLicenses ==
  /\ LicensesSpec
  /\ WF_licensesVars(OfSeats(EventStep))
  /\ WF_licensesVars(OfSeats(\E w \in Workers : WorkStep(w))
                     \/ OfClient(Client!WorkerStep))
  /\ WF_licensesVars(OfSeats(\E c \in Callers : CallStep(c))
                     \/ OfClient(Client!Poll))

-----------------------------------------------------------------------------
(* The types of the parts.                                                 *)
TypesOK == TypeOK /\ Client!TypeOK /\ Updates!TypeOK

(* Who signed out stays signed out, and the client holds the token the     *)
(* server accepts: Licensing.                                              *)
AccountKept == Client!SignedOutStays /\ Client!CredentialKept

(* Updates never take back a version or install what was not released, and *)
(* what is said to be staged is: Updater.                                  *)
UpdatesSafe == Updates!UpdatesSafe

(* The copy of the subscription settles, and the status does not stay at   *)
(* checking: SeatBilling!ProjectionSettles, Licensing!ChecksEnd.           *)
WaitingEnds == ProjectionSettles /\ Client!ChecksEnd

=============================================================================
