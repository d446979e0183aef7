--------------------------------- MODULE Updater ---------------------------------
(***************************************************************************)
(* The self-updater (updater.rs, updater/implementation.rs).  A program    *)
(* that starts installs the update that is staged in the cache directory,  *)
(* before its window opens (lib.rs); then a thread asks for the latest     *)
(* release, downloads it and stages it for the next start, and the window  *)
(* shows what the thread reports.  The state file and the packages are     *)
(* shared by every program the user runs, and a program may end at any     *)
(* step.                                                                   *)
(***************************************************************************)
EXTENDS Naturals, Sequences, SequencesExt, FiniteSets

CONSTANTS
  Programs,  \* that may run at the same time
  Releases,  \* the last version there is
  None,      \* no update, no file
  Broken,    \* what is installed from a package that is not what was released
  Plans      \* the bounds of a behaviour, and the platform

VARIABLES
  budget,
  latest,     \* the version that is released
  installed,  \* the version on disk
  pending,    \* pending-update.yaml: [version, attempts]
  packages,   \* the package files: for each version whether it is as released
  at,         \* the step of each program
  runs,       \* the version each runs
  held,       \* what it read of the state file
  bytes,      \* whether the package it read is as released
  target,     \* the version it downloads
  shown,      \* UpdaterService.status
  sent,       \* the channel of UpdateStatus
  listens,    \* UpdaterService.results is there
  odd         \* history: what happened that a normal run does not have

vars == <<budget, latest, installed, pending, packages, at, runs, held, bytes, target,
          shown, sent, listens, odd>>
disk == <<pending, packages, installed>>
ui   == <<shown, listens>>

Versions == 1 .. Releases
MAX_APPLY_ATTEMPTS == 2

(* Of a plan: the programs that may run and how often they start, what may *)
(* fail and what others do.                                                *)
Budgets ==
  [programs : SUBSET Programs, launches : Nat, faults : Nat, windows : BOOLEAN,
   others : SUBSET {"by hand", "damage"}]

UpdaterAssumption ==
  /\ Releases \in Nat \ {0}
  /\ None \notin [version : Versions, attempts : 0 .. MAX_APPLY_ATTEMPTS]
  /\ Plans \subseteq Budgets

Pending(version, attempts) == [version |-> version, attempts |-> attempts]
Status(type, version) == [type |-> type, version |-> version]

Without(version) == [v \in DOMAIN packages \ {version} |-> packages[v]]
With(version)    == [v \in DOMAIN packages \cup {version} |-> v = version \/ packages[v]]

Goes(p, step) == at' = [at EXCEPT ![p] = step]
Holds(p)      == held' = [held EXCEPT ![p] = pending]

-----------------------------------------------------------------------------
(* apply_staged_update, before the window: whatever goes wrong, the window *)
(* opens and the thread starts.                                            *)

Launch(p) ==
  /\ p \in budget.programs /\ at[p] = "off" /\ budget.launches > 0
  /\ budget' = [budget EXCEPT !.launches = @ - 1]
  /\ runs' = [runs EXCEPT ![p] = installed]
  /\ shown' = [shown EXCEPT ![p] = Status("Checking", 0)]
  /\ listens' = [listens EXCEPT ![p] = TRUE]
  /\ odd' = IF \A q \in Programs : at[q] = "off" THEN odd ELSE odd \cup {"together"}
  /\ Goes(p, "read")
  /\ UNCHANGED <<latest, disk, held, bytes, target, sent>>

ReadPending(p) ==
  /\ at[p] = "read"
  /\ Holds(p)
  /\ Goes(p, IF pending = None THEN "check"
             ELSE IF pending.attempts >= MAX_APPLY_ATTEMPTS THEN "clear" ELSE "package")
  /\ UNCHANGED <<budget, latest, disk, runs, bytes, target, ui, sent, odd>>

(* A package that does not verify is discarded; one that is not there is   *)
(* an error, and its state stays.                                          *)
ReadPackage(p) ==
  /\ at[p] = "package"
  /\ LET version == held[p].version
     IN  IF version \notin DOMAIN packages THEN Goes(p, "check") /\ UNCHANGED bytes
         ELSE /\ bytes' = [bytes EXCEPT ![p] = packages[version]]
              /\ Goes(p, IF ~packages[version] THEN "clear"
                         ELSE IF budget.windows THEN "unmark" ELSE "install")
  /\ UNCHANGED <<budget, latest, disk, runs, held, target, ui, sent, odd>>

(* On Windows the installer ends the program that starts it, so the state  *)
(* is removed before.                                                      *)
Unmark(p) ==
  /\ at[p] = "unmark"
  /\ pending' = None
  /\ Goes(p, "install")
  /\ UNCHANGED <<budget, latest, packages, installed, runs, held, bytes, target, ui, sent, odd>>

Install(p) ==
  /\ at[p] = "install"
  /\ installed' = IF bytes[p] THEN held[p].version ELSE Broken
  /\ Goes(p, IF budget.windows THEN "off" ELSE "clear")
  /\ UNCHANGED <<budget, latest, pending, packages, runs, held, bytes, target, ui, sent, odd>>

InstallFails(p) ==
  /\ at[p] = "install" /\ budget.faults > 0
  /\ budget' = [budget EXCEPT !.faults = @ - 1]
  /\ Goes(p, IF budget.windows THEN "check" ELSE "count")
  /\ UNCHANGED <<latest, disk, runs, held, bytes, target, ui, sent, odd>>

CountAttempt(p) ==
  /\ at[p] = "count"
  /\ pending' = Pending(held[p].version, held[p].attempts + 1)
  /\ Goes(p, "check")
  /\ UNCHANGED <<budget, latest, packages, installed, runs, held, bytes, target, ui, sent, odd>>

(* clear_pending_update: the state is read again, then removed, then the   *)
(* package it named.                                                       *)
ClearReads(p) ==
  /\ at[p] = "clear"
  /\ Holds(p)
  /\ Goes(p, "clear state")
  /\ UNCHANGED <<budget, latest, disk, runs, bytes, target, ui, sent, odd>>

ClearState(p) ==
  /\ at[p] = "clear state"
  /\ pending' = None
  /\ Goes(p, "clear package")
  /\ UNCHANGED <<budget, latest, packages, installed, runs, held, bytes, target, ui, sent, odd>>

ClearPackage(p) ==
  /\ at[p] = "clear package"
  /\ packages' = IF held[p] = None THEN packages ELSE Without(held[p].version)
  /\ Goes(p, "check")
  /\ UNCHANGED <<budget, latest, pending, installed, runs, held, bytes, target, ui, sent, odd>>

-----------------------------------------------------------------------------
(* download_latest_update, in the thread.                                  *)

(* A status is lost when the window does not listen any more.              *)
Sends(p, status) ==
  sent' = IF listens[p] THEN [sent EXCEPT ![p] = Append(@, status)] ELSE sent

Ends(p, status) == Sends(p, status) /\ Goes(p, "done")

(* The release is compared with the version that runs, not with the one    *)
(* that was installed.                                                     *)
Check(p) ==
  /\ at[p] = "check"
  /\ target' = [target EXCEPT ![p] = latest]
  /\ IF latest > runs[p] THEN Goes(p, "staged?") /\ UNCHANGED sent
     ELSE Ends(p, Status("UpToDate", 0))
  /\ UNCHANGED <<budget, latest, disk, runs, held, bytes, ui, odd>>

HasStaged(p) ==
  /\ at[p] = "staged?"
  /\ IF pending # None /\ pending.version = target[p] /\ target[p] \in DOMAIN packages
     THEN Ends(p, Status("Staged", target[p]))
     ELSE Sends(p, Status("Downloading", target[p])) /\ Goes(p, "download")
  /\ UNCHANGED <<budget, latest, disk, runs, held, bytes, target, ui, odd>>

(* Then stage_update_in reads what it will supersede.                      *)
Download(p) ==
  /\ at[p] = "download"
  /\ Holds(p)
  /\ Goes(p, "store")
  /\ UNCHANGED <<budget, latest, disk, runs, bytes, target, ui, sent, odd>>

(* atomic_write replaces a file in one step, but on Windows in two.        *)
StorePackage(p) ==
  /\ at[p] = "store"
  /\ IF budget.windows /\ target[p] \in DOMAIN packages
     THEN packages' = Without(target[p]) /\ UNCHANGED at
     ELSE packages' = With(target[p]) /\ Goes(p, "mark")
  /\ UNCHANGED <<budget, latest, pending, installed, runs, held, bytes, target, ui, sent, odd>>

Mark(p) ==
  /\ at[p] = "mark"
  /\ IF budget.windows /\ pending # None
     THEN pending' = None /\ UNCHANGED at
     ELSE pending' = Pending(target[p], 0) /\ Goes(p, "supersede")
  /\ UNCHANGED <<budget, latest, packages, installed, runs, held, bytes, target, ui, sent, odd>>

(* Mutant: the package that is superseded is left where it is.             *)
SupersedeMutant(p) ==
  /\ at[p] = "supersede"
  /\ Ends(p, Status("Staged", target[p]))
  /\ UNCHANGED <<budget, latest, disk, runs, held, bytes, target, ui, odd>>

Supersede(p) ==
  /\ at[p] = "supersede"
  /\ packages' = IF held[p] # None /\ held[p].version # target[p]
                 THEN Without(held[p].version) ELSE packages
  /\ Ends(p, Status("Staged", target[p]))
  /\ UNCHANGED <<budget, latest, pending, installed, runs, held, bytes, target, ui, odd>>

-----------------------------------------------------------------------------
(* A step on the network or on a file fails: the start goes on to the      *)
(* window, the thread ends; but what is superseded may stay.               *)
Starting == {"read", "package", "unmark", "count", "clear", "clear state", "clear package"}
Updating == {"check", "staged?", "download", "store", "mark"}

StepFails(p) ==
  /\ at[p] \in Starting \cup Updating \cup {"supersede"} /\ budget.faults > 0
  /\ budget' = [budget EXCEPT !.faults = @ - 1]
  /\ CASE at[p] \in Starting   -> Goes(p, "check") /\ UNCHANGED sent
       [] at[p] \in Updating   -> Ends(p, Status("Failed", 0))
       [] at[p] = "supersede"  -> Ends(p, Status("Staged", target[p]))
  /\ odd' = odd \cup {"fault"}
  /\ UNCHANGED <<latest, disk, runs, held, bytes, target, ui>>

(* UpdaterService::poll, every frame: after the first it has heard, it does*)
(* not listen any more.                                                    *)
Poll(p) ==
  /\ listens[p] /\ sent[p] # <<>>
  /\ shown' = [shown EXCEPT ![p] = Last(sent[p])]
  /\ listens' = [listens EXCEPT ![p] = FALSE]
  /\ sent' = [sent EXCEPT ![p] = <<>>]
  /\ UNCHANGED <<budget, latest, disk, at, runs, held, bytes, target, odd>>

(* The program is closed, or killed: its window, its thread.               *)
Quit(p) ==
  /\ at[p] # "off"
  /\ odd' = IF at[p] = "done" THEN odd ELSE odd \cup {"cut"}
  /\ Goes(p, "off")
  /\ listens' = [listens EXCEPT ![p] = FALSE]
  /\ sent' = [sent EXCEPT ![p] = <<>>]
  /\ UNCHANGED <<budget, latest, disk, runs, held, bytes, target, shown>>

-----------------------------------------------------------------------------
(* A version is released; the user installs it by hand; a package is       *)
(* damaged.                                                                *)
Release ==
  /\ latest < Releases
  /\ latest' = latest + 1
  /\ UNCHANGED <<budget, disk, at, runs, held, bytes, target, ui, sent, odd>>

InstallByHand ==
  /\ "by hand" \in budget.others /\ installed # latest
  /\ installed' = latest
  /\ odd' = odd \cup {"by hand"}
  /\ UNCHANGED <<budget, latest, pending, packages, at, runs, held, bytes, target, ui, sent>>

Damage ==
  /\ "damage" \in budget.others
  /\ \E v \in DOMAIN packages : packages[v] /\ packages' = [packages EXCEPT ![v] = FALSE]
  /\ UNCHANGED <<budget, latest, pending, installed, at, runs, held, bytes, target, ui, sent, odd>>

Init ==
  /\ budget \in Plans
  /\ latest = 1 /\ installed = 1
  /\ pending = None /\ packages = <<>>
  /\ at = [p \in Programs |-> "off"]
  /\ runs = [p \in Programs |-> 1]
  /\ held = [p \in Programs |-> None]
  /\ bytes = [p \in Programs |-> TRUE]
  /\ target = [p \in Programs |-> 1]
  /\ shown = [p \in Programs |-> Status("Checking", 0)]
  /\ sent = [p \in Programs |-> <<>>]
  /\ listens = [p \in Programs |-> FALSE]
  /\ odd = {}

Start(p)  == ReadPending(p) \/ ReadPackage(p) \/ Unmark(p) \/ Install(p) \/ InstallFails(p)
               \/ CountAttempt(p) \/ ClearReads(p) \/ ClearState(p) \/ ClearPackage(p)
Thread(p) == Check(p) \/ HasStaged(p) \/ Download(p) \/ StorePackage(p) \/ Mark(p) \/ Supersede(p)

Next ==
  \/ \E p \in Programs : Launch(p) \/ Start(p) \/ Thread(p) \/ StepFails(p) \/ Poll(p) \/ Quit(p)
  \/ Release \/ InstallByHand \/ Damage

Spec == Init /\ [][Next]_vars

-----------------------------------------------------------------------------
Steps == Starting \cup Updating \cup {"off", "install", "supersede", "done"}

Statuses ==
  [type : {"Checking", "Downloading", "Staged", "UpToDate", "Failed"}, version : 0 .. Releases]

TypeOK ==
  /\ budget \in Budgets
  /\ latest \in Versions /\ installed \in Versions \cup {Broken}
  /\ pending \in {None} \cup [version : Versions, attempts : 0 .. MAX_APPLY_ATTEMPTS]
  /\ DOMAIN packages \subseteq Versions /\ \A v \in DOMAIN packages : packages[v] \in BOOLEAN
  /\ at \in [Programs -> Steps]
  /\ runs \in [Programs -> Versions \cup {Broken}] /\ target \in [Programs -> Versions]
  /\ held \in [Programs -> {None} \cup [version : Versions, attempts : 0 .. MAX_APPLY_ATTEMPTS]]
  /\ bytes \in [Programs -> BOOLEAN] /\ listens \in [Programs -> BOOLEAN]
  /\ shown \in [Programs -> Statuses] /\ sent \in [Programs -> Seq(Statuses)]
  /\ odd \subseteq {"together", "fault", "cut", "by hand"}

(* What is installed is what was released, whatever became of the package. *)
InstalledIsReleased == installed \in 1 .. latest

(* An update that a thread says is staged is: its package is there, and the*)
(* state names it.                                                         *)
StagedIsThere ==
  "together" \notin odd =>
    \A p \in Programs :
      at[p] = "done" /\ (\/ sent[p] # <<>> /\ Last(sent[p]).type = "Staged"
                         \/ shown[p].type = "Staged")
        => /\ pending # None /\ pending.version = target[p]
           /\ target[p] \in DOMAIN packages

(* Between the steps no package is left that no start will look at.  On    *)
(* Windows what was installed stays.                                       *)
NothingLeft ==
  /\ odd \subseteq {"by hand"} /\ ~budget.windows
  /\ \A p \in Programs : at[p] \in {"off", "done"}
  => DOMAIN packages = IF pending = None THEN {} ELSE {pending.version}

(* An update never takes back a version, but one of another program, or one*)
(* that the user was faster than.                                          *)
NeverBack == [][installed' < installed => odd \cap {"together", "by hand"} # {}]_vars

UpdatesSafe == [](InstalledIsReleased /\ StagedIsThere /\ NothingLeft) /\ NeverBack

=============================================================================
