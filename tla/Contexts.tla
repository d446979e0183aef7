------------------------------- MODULE Contexts -------------------------------
(***************************************************************************)
(* The contexts of the kubeconfig: clusters of cloud accounts are found by *)
(* the tools of their providers (cluster_connection_manager/discovery.rs   *)
(* and discovery/aws.rs), added to the file, listed in the rail, and given *)
(* a name and a badge that are kept in the file too (kubeconfig.rs, the    *)
(* blades of ui/settings/discovery.rs and contexts.rs).                    *)
(*                                                                         *)
(* The worker executes each command in a task of its own; the ones that    *)
(* write the file hold one lock, the ones that read it do not, and nobody  *)
(* can lock out other programs.  `truth` is the file as it would be if no  *)
(* edit had been lost.  A cluster stands for the context that is added for *)
(* it; of an account's identities only the account is kept.                *)
(***************************************************************************)
EXTENDS Integers, Sequences, FiniteSets

CONSTANTS
  Clouds,    \* cluster -> [provider, place, account]: place is a subscription
             \* or a region, account only for "aws"
  Home,      \* a context in the file from the start
  Looks,     \* display names and badges of a context
  Plain,     \* the look of a context without any
  Profiles,  \* of the AWS command line
  Current,   \* the one that names no profile
  Accounts,
  Plans      \* bounds: clicks, saves, faults, and edits and logins by others,
             \* of a user who finds what the first discovery showed, or not

Clusters  == DOMAIN Clouds
Contexts  == Clusters \cup {Home}
Absent    == "absent"
NoProfile == "none"
Managed   == {"azure", "tailscale"}
Found     == {"ok", "partial", "failed"}

ContextsAssumption ==
  /\ Clouds \in [Clusters -> [provider: Managed \cup {"aws"}, place: STRING,
                              account: Accounts \cup {NoProfile}]]
  /\ Home \notin Clusters /\ Plain \in Looks /\ Current \in Profiles
  /\ Absent \notin Clusters \cup Looks
  /\ IsFiniteSet(Clusters) /\ IsFiniteSet(Profiles)
  /\ Plans \subseteq [clicks: Nat, saves: Nat, faults: Nat, edits: Nat,
                      logins: Nat, shown: BOOLEAN]

VARIABLES
  plan,      \* what is left of the plan
  file,      \* context -> look
  truth,     \* history: the file with every edit kept
  identity,  \* profile -> account it is signed in to
  lock,      \* KUBECONFIG_WRITE_LOCK: the command that holds it
  tasks,     \* commands the worker executes
  results,   \* its answers, in order
  ops,       \* commands sent
  managed,   \* managed_cluster_discovery, without aws
  aws,       \* managed_cluster_discovery.aws
  rail,      \* context -> look, of the clusters shown
  saves,     \* context_presentation_saves
  editor,    \* ContextEditorBlade
  crossed    \* history: what others did at a moment nobody can exclude

ui   == <<managed, aws, rail, saves, editor>>
vars == <<plan, file, truth, identity, lock, tasks, results, ops, ui, crossed>>

-----------------------------------------------------------------------------
(* State.                                                                  *)

Files == [Contexts -> Looks \cup {Absent}]
Configured(f) == {c \in Clusters : f[c] # Absent}
Of(provider)  == {c \in Clusters : Clouds[c].provider = provider}
Places(cs)    == {Clouds[c].place : c \in cs}
OwnedBy(a)    == {c \in Of("aws") : Clouds[c].account = a}

Nothing  == [c \in Contexts |-> Absent]
NoSave   == [op |-> 0, look |-> Plain, result |-> "none"]
NoEditor == [context |-> Home, op |-> 0, open |-> FALSE, error |-> FALSE]

(* The lock is held by a command under way; importing is the cluster being *)
(* added (ManagedClusterDiscoveryState).                                   *)
TypeOK ==
  /\ plan \in [clicks: Nat, saves: Nat, faults: Nat, edits: Nat, logins: Nat,
              shown: BOOLEAN]
  /\ {file, truth} \subseteq Files /\ identity \in [Profiles -> Accounts]
  /\ ops \in Nat /\ lock # 0 => \E t \in tasks : t.op = lock
  /\ \A t \in tasks : /\ t.op \in 1..ops /\ t.read \in Files
                      /\ t.pc \in {"start", "locked", "read", "merged"}
  /\ managed \in [loading: BOOLEAN, importing: Clusters \cup {Absent},
                  error: BOOLEAN, found: SUBSET Clusters,
                  known: SUBSET Clusters, state: [Managed -> Found],
                  op: 0..ops, blind: BOOLEAN]
  /\ aws \in [request: 0..ops, listing: BOOLEAN,
              profiles: SUBSET (Profiles \X Accounts), listed: Found,
              account: Accounts \cup {NoProfile},
              profile: Profiles \cup {NoProfile}, scanning: BOOLEAN,
              found: SUBSET Clusters, known: SUBSET Clusters, state: Found,
              blind: BOOLEAN, importError: BOOLEAN]
  /\ rail \in Files
  /\ saves \in [Contexts -> [op: 0..ops, look: Looks,
                             result: {"none", "pending", "ok", "failed"}]]
  /\ editor \in [context: Contexts, op: 0..ops, open: BOOLEAN, error: BOOLEAN]
  /\ crossed \subseteq {"written", "edited", "login", "reload"}

InitialManaged ==
  [loading |-> FALSE, importing |-> Absent, error |-> FALSE, found |-> {},
   known |-> {}, state |-> [p \in Managed |-> "ok"], op |-> 0, blind |-> FALSE]
InitialAws ==
  [request |-> 0, listing |-> FALSE, profiles |-> {}, listed |-> "failed",
   account |-> NoProfile, profile |-> NoProfile, scanning |-> FALSE,
   found |-> {}, known |-> {}, state |-> "ok", blind |-> FALSE,
   importError |-> FALSE]

(* The identities listed: the current one only if no profile is signed in  *)
(* to the same (discover_accounts_with).                                   *)
Listed(known) ==
  {<<p, identity[p]>> : p \in
     {q \in known : q = Current => \A r \in known \ {Current} :
                                    identity[r] # identity[Current]}}

Init ==
  /\ plan \in Plans
  /\ file = [c \in Contexts |-> IF c = Home THEN Plain ELSE Absent]
  /\ truth = file /\ rail = file
  /\ identity \in [Profiles -> Accounts]
  /\ lock = 0 /\ tasks = {} /\ results = <<>>
  /\ saves = [c \in Contexts |-> NoSave] /\ editor = NoEditor /\ crossed = {}
  /\ IF plan.shown
       THEN /\ ops = 2
            /\ managed = [InitialManaged EXCEPT
                            !.found = Of("azure") \cup Of("tailscale"), !.op = 2]
            /\ aws = [InitialAws EXCEPT !.request = 1, !.listed = "ok",
                                        !.profiles = Listed(Profiles)]
       ELSE ops = 0 /\ managed = InitialManaged /\ aws = InitialAws

Spend(what) == plan[what] > 0 /\ plan' = [plan EXCEPT ![what] = @ - 1]

(* One more command, or several: their numbers tell them apart.            *)
Command(op, kind, of) ==
  [op |-> op, kind |-> kind, of |-> of, pc |-> "start", read |-> Nothing]

Send(kind, of) ==
  /\ ops' = ops + 1
  /\ tasks' = tasks \cup {Command(ops + 1, kind, of)}

-----------------------------------------------------------------------------
(* What the user does.  The blade of the discovery refreshes itself once   *)
(* when it is opened, whatever is under way.                               *)

World == <<file, truth, identity, lock, results, crossed>>

(* AwsDiscoveryState::clear_scan                                           *)
Cleared(request) ==
  [aws EXCEPT !.request = request, !.account = NoProfile,
              !.profile = NoProfile, !.scanning = FALSE, !.found = {},
              !.known = {}, !.state = "ok", !.blind = FALSE,
              !.importError = FALSE]

Refresh ==
  /\ managed' = [managed EXCEPT !.loading = TRUE, !.error = FALSE]
  /\ aws' = [Cleared(ops + 1) EXCEPT !.listing = TRUE]
  /\ ops' = ops + 2
  /\ tasks' = tasks \cup {Command(ops + 1, "accounts", <<>>),
                          Command(ops + 2, "discover", <<>>)}
  /\ UNCHANGED <<World, rail, saves>>

OpenDiscovery == Spend("clicks") /\ Refresh /\ editor' = NoEditor

RefreshAgain ==
  /\ ~managed.loading /\ ~aws.listing /\ ~aws.scanning
  /\ managed.importing = Absent /\ ops > 0
  /\ Spend("clicks") /\ Refresh /\ UNCHANGED editor

(* The rows of show_aws, and what is needed to press their buttons.        *)
MayScan == /\ ~aws.listing /\ aws.listed # "failed" /\ ~managed.loading
           /\ ~aws.scanning /\ managed.importing = Absent

Scan(profile, account) ==
  /\ MayScan /\ <<profile, account>> \in aws.profiles
  /\ Spend("clicks")
  /\ aws' = [Cleared(ops + 1) EXCEPT !.account = account, !.profile = profile,
                                     !.scanning = TRUE]
  /\ managed' = [managed EXCEPT !.error = FALSE]
  /\ Send("scan", [profile |-> profile, account |-> account])
  /\ UNCHANGED <<World, rail, saves, editor>>

(* show_eks_row, show_aks_row, show_tailscale_row                          *)
EksRows == IF aws.listing \/ aws.listed = "failed" \/ aws.scanning
              \/ aws.state = "failed"
           THEN {} ELSE aws.found \ aws.known
ManagedRows == {c \in managed.found \ managed.known :
                  managed.state[Clouds[c].provider] # "failed"}
MayImport == IF managed.loading \/ managed.importing # Absent THEN {}
             ELSE EksRows \cup ManagedRows

Import(c) ==
  /\ c \in MayImport
  /\ Spend("clicks")
  /\ managed' = [managed EXCEPT !.importing = c, !.error = FALSE]
  /\ aws' = IF c \in Of("aws") THEN [aws EXCEPT !.importError = FALSE] ELSE aws
  /\ Send("import", [cluster |-> c, request |-> aws.request,
                     profile |-> aws.profile, account |-> aws.account])
  /\ UNCHANGED <<World, rail, saves, editor>>

(* An editor opened while its context is being saved joins that save.      *)
Saving(c) == saves[c].result = "pending"

OpenEditor(c) ==
  /\ rail[c] # Absent /\ plan.saves > 0
  /\ ~(editor.open /\ editor.context = c)
  /\ editor' = [context |-> c, open |-> TRUE, error |-> FALSE,
                op |-> IF Saving(c) THEN saves[c].op ELSE 0]
  /\ UNCHANGED <<plan, World, tasks, ops, managed, aws, rail, saves>>

CloseEditor ==
  /\ editor.open /\ editor' = NoEditor
  /\ UNCHANGED <<plan, World, tasks, ops, managed, aws, rail, saves>>

SaveLook(look) ==
  /\ editor.open /\ ~Saving(editor.context)
  /\ Spend("saves")
  /\ saves' = [saves EXCEPT ![editor.context] =
                 [op |-> ops + 1, look |-> look, result |-> "pending"]]
  /\ editor' = [editor EXCEPT !.op = ops + 1, !.error = FALSE]
  /\ Send("save", [context |-> editor.context, look |-> look])
  /\ UNCHANGED <<World, managed, aws, rail>>

(* The next frame of an editor whose save has ended: back, or the error.   *)
SaveSettles ==
  /\ editor.open /\ editor.op # 0 /\ saves[editor.context].op = editor.op
  /\ ~Saving(editor.context)
  /\ editor' = IF saves[editor.context].result = "ok" THEN NoEditor
               ELSE [editor EXCEPT !.op = 0, !.error = TRUE]
  /\ UNCHANGED <<plan, World, tasks, ops, managed, aws, rail, saves>>

-----------------------------------------------------------------------------
(* The worker.                                                             *)

Finish(t, result) == tasks' = tasks \ {t} /\ results' = Append(results, result)
Moves(t, pc, read) ==
  /\ tasks' = (tasks \ {t}) \cup {[t EXCEPT !.pc = pc, !.read = read]}
  /\ UNCHANGED results
Holds(fault) == IF fault THEN Spend("faults") ELSE UNCHANGED plan
Answer(t, kind) == [kind |-> kind, op |-> t.op, of |-> t.of, known |-> {},
                    found |-> {}, state |-> <<>>, read |-> t.read]
Aside == UNCHANGED <<ops, ui>>

(* kubeconfig_context_references: a file that cannot be read, as while     *)
(* another program writes it, counts as one without contexts.              *)
ReadReferences(t) ==
  /\ t.pc = "start" /\ t.kind \in {"discover", "scan"}
  /\ \E unreadable \in BOOLEAN :
       /\ Holds(unreadable)
       /\ IF t.kind = "scan" /\ identity[t.of.profile] # t.of.account
            THEN Finish(t, Answer(t, "scanFailed"))
            ELSE Moves(t, "read", IF unreadable THEN Nothing ELSE file)
  /\ UNCHANGED <<file, truth, identity, lock, crossed>> /\ Aside

(* A provider is asked place by place; places that do not answer make a    *)
(* warning, and an error if none does.                                     *)
StateOf(asked, failing) ==
  IF asked \cap failing = {} THEN "ok"
  ELSE IF asked \subseteq failing THEN "failed" ELSE "partial"

Reached(cs, failing) == {c \in cs : Clouds[c].place \notin failing}

(* discover_aks, discover_tailscale                                        *)
Discover(t) ==
  /\ t.pc = "read" /\ t.kind = "discover"
  /\ LET all == Of("azure") \cup Of("tailscale") IN
     \E failing \in SUBSET Places(all) :
       /\ Holds(failing # {})
       /\ Finish(t, [Answer(t, "discovered") EXCEPT
            !.found = Reached(all, failing),
            !.known = Reached(all, failing) \cap Configured(t.read),
            !.state = [p \in Managed |-> StateOf(Places(Of(p)), failing)]])
  /\ UNCHANGED <<file, truth, identity, lock, crossed>> /\ Aside

(* discover_accounts_with                                                  *)
ListAccounts(t) ==
  /\ t.kind = "accounts"
  /\ \E failing \in SUBSET Profiles :
       /\ Holds(failing # {})
       /\ Finish(t, [Answer(t, "accounts") EXCEPT
            !.found = Listed(Profiles \ failing),
            !.state = StateOf(Profiles, failing)])
  /\ UNCHANGED <<file, truth, identity, lock, crossed>> /\ Aside

(* discover_eks_with_configured, after it has checked the identity: what   *)
(* the regions answer is what the profile is signed in to by then.         *)
ListEks(t) ==
  /\ t.pc = "read" /\ t.kind = "scan"
  /\ LET mine == OwnedBy(identity[t.of.profile]) IN
     \E failing \in SUBSET Places(Of("aws")) :
       /\ Holds(failing # {})
       /\ IF StateOf(Places(Of("aws")), failing) = "failed"
            THEN Finish(t, Answer(t, "scanFailed"))
            ELSE Finish(t, [Answer(t, "scanned") EXCEPT
                   !.found = Reached(mine, failing),
                   !.known = Reached(mine, failing) \cap Configured(t.read),
                   !.state = StateOf(Places(Of("aws")), failing)])
  /\ UNCHANGED <<file, truth, identity, lock, crossed>> /\ Aside

-----------------------------------------------------------------------------
(* The commands that write the file, one at a time.                        *)

(* Mutant: nobody waits for the lock.                                      *)
FreeMutant == TRUE

Free == lock = 0

Lock(t) ==
  /\ t.pc = "start" /\ t.kind \in {"import", "save"} /\ Free
  /\ lock' = t.op /\ Moves(t, "locked", t.read)
  /\ UNCHANGED <<plan, file, truth, identity, crossed>> /\ Aside

Release == lock' = 0
Fails(t) ==
  /\ Finish(t, Answer(t, IF t.kind = "save" THEN "saveFailed"
                         ELSE IF t.of.cluster \in Of("aws") THEN "eksFailed"
                         ELSE "failed"))
  /\ Release /\ UNCHANGED <<file, truth>>

With(f, c, look) == [f EXCEPT ![c] = look]
Added(f, c) == IF f[c] = Absent THEN With(f, c, Plain) ELSE f
Edit(t, f) == IF t.kind = "save" THEN With(f, t.of.context, t.of.look)
              ELSE Added(f, t.of.cluster)

(* add_aks_cluster, add_tailscale_cluster: the tool edits the file.        *)
ImportByTool(t) ==
  /\ t.pc = "locked" /\ t.kind = "import" /\ t.of.cluster \notin Of("aws")
  /\ \/ /\ file' = Edit(t, file) /\ truth' = Edit(t, truth)
        /\ Finish(t, Answer(t, "imported")) /\ Release /\ UNCHANGED plan
     \/ Spend("faults") /\ Fails(t)
  /\ UNCHANGED <<identity, crossed>> /\ Aside

(* add_eks_with: the tool prints the file it would write.                  *)
MergeEks(t) ==
  /\ t.pc = "locked" /\ t.kind = "import" /\ t.of.cluster \in Of("aws")
  /\ IF identity[t.of.profile] # t.of.account
       THEN Fails(t) /\ UNCHANGED plan
       ELSE \/ /\ Moves(t, "merged", Edit(t, file))
               /\ UNCHANGED <<plan, file, truth, lock>>
            \/ Spend("faults") /\ Fails(t)
  /\ UNCHANGED <<identity, crossed>> /\ Aside

(* save_context_in_paths: read, patch, compare with the file, write.       *)
ReadForSave(t) ==
  /\ t.pc = "locked" /\ t.kind = "save"
  /\ IF file[t.of.context] = Absent THEN Fails(t)
     ELSE Moves(t, "read", file) /\ UNCHANGED <<file, truth, lock>>
  /\ UNCHANGED <<plan, identity, crossed>> /\ Aside

CompareForSave(t) ==
  /\ t.pc = "read" /\ t.kind = "save"
  /\ IF file # t.read THEN Fails(t)
     ELSE Moves(t, "merged", Edit(t, t.read)) /\ UNCHANGED <<file, truth, lock>>
  /\ UNCHANGED <<plan, identity, crossed>> /\ Aside

(* write_kubeconfig_atomically                                             *)
Write(t) ==
  /\ t.pc = "merged"
  /\ \/ /\ file' = t.read /\ truth' = Edit(t, truth) /\ Release
        /\ Finish(t, Answer(t, IF t.kind = "save" THEN "saved" ELSE "imported"))
        /\ UNCHANGED plan
     \/ Spend("faults") /\ Fails(t)
  /\ UNCHANGED <<identity, crossed>> /\ Aside

(* LoadImportedClusters                                                    *)
Reload(t) ==
  /\ t.kind = "reload"
  /\ \/ Finish(t, [Answer(t, "clusters") EXCEPT !.read = file])
        /\ UNCHANGED <<plan, crossed>>
     \/ Spend("faults") /\ Finish(t, Answer(t, "failed"))
        /\ crossed' = crossed \cup {"reload"}
  /\ UNCHANGED <<file, truth, identity, lock>> /\ Aside

-----------------------------------------------------------------------------
(* Other programs: one that is not held up by the lock edits the file, or  *)
(* signs a profile in to another account.                                  *)

EditOutside(c, look) ==
  /\ look # file[c] /\ c = Home => look # Absent
  /\ Spend("edits")
  /\ file' = With(file, c, look) /\ truth' = With(truth, c, look)
  /\ crossed' = crossed \cup {"edited"} \cup
                  (IF \E t \in tasks : t.pc = "merged" THEN {"written"} ELSE {})
  /\ UNCHANGED <<identity, lock, tasks, results, ops, ui>>

SignIn(profile, account) ==
  /\ account # identity[profile]
  /\ Spend("logins")
  /\ identity' = [identity EXCEPT ![profile] = account]
  /\ crossed' = crossed \cup
       (IF \E t \in tasks : t.kind = "scan" /\ t.pc = "read" THEN {"login"} ELSE {})
  /\ UNCHANGED <<file, truth, lock, tasks, results, ops, ui>>

-----------------------------------------------------------------------------
(* Results, applied in the order of the answers.                           *)

Applies(kinds) ==
  /\ results # <<>> /\ Head(results).kind \in kinds /\ results' = Tail(results)
  /\ UNCHANGED <<plan, file, truth, identity, lock, crossed>>
Result == Head(results)

(* ManagedClusterDiscoveryUpdated carries no request: what comes last      *)
(* counts, even if it was asked for before what is shown.                  *)
ApplyDiscovered ==
  /\ Applies({"discovered"})
  /\ managed' = [managed EXCEPT
       !.loading = FALSE, !.error = FALSE, !.found = Result.found,
       !.known = Result.known, !.state = Result.state,
       !.op = IF @ > Result.op THEN @ ELSE Result.op,
       !.blind = managed.op > Result.op \/ Result.read[Home] = Absent]
  /\ UNCHANGED <<tasks, ops, aws, rail, saves, editor>>

IsCurrent(r, waits) == r.op = aws.request /\ waits

ApplyAccounts ==
  /\ Applies({"accounts"})
  /\ aws' = IF IsCurrent(Result, aws.listing)
            THEN [aws EXCEPT !.listing = FALSE, !.profiles = Result.found,
                             !.listed = Result.state]
            ELSE aws
  /\ UNCHANGED <<tasks, ops, managed, rail, saves, editor>>

ApplyScanned ==
  /\ Applies({"scanned", "scanFailed"})
  /\ aws' = IF ~IsCurrent(Result, aws.scanning) THEN aws
            ELSE IF Result.kind = "scanFailed"
            THEN [aws EXCEPT !.scanning = FALSE, !.state = "failed"]
            ELSE [aws EXCEPT !.scanning = FALSE, !.found = Result.found,
                             !.known = Result.known, !.state = Result.state,
                             !.blind = Result.read[Home] = Absent]
  /\ UNCHANGED <<tasks, ops, managed, rail, saves, editor>>

ApplyImported ==
  /\ Applies({"imported"})
  /\ managed' = [managed EXCEPT !.importing = Absent, !.loading = TRUE,
                                !.error = FALSE]
  /\ Send("reload", <<>>)
  /\ UNCHANGED <<aws, rail, saves, editor>>

Known(read) == aws.known \cup (aws.found \cap Configured(read))

(* ImportedKubernetesClusters: a context that is listed already stays as   *)
(* it is.                                                                  *)
ApplyClusters ==
  /\ Applies({"clusters"})
  /\ rail' = [c \in Contexts |-> IF rail[c] = Absent THEN Result.read[c]
                                 ELSE rail[c]]
  /\ aws' = [aws EXCEPT !.known = Known(Result.read)]
  /\ Send("discover", <<>>)
  /\ UNCHANGED <<managed, saves, editor>>

(* Mutant: only the loading is over.                                       *)
AfterFailureMutant == [managed EXCEPT !.loading = FALSE, !.error = TRUE]

AfterFailure == [managed EXCEPT !.loading = FALSE, !.importing = Absent,
                                !.error = TRUE]

ApplyFailed ==
  /\ Applies({"failed"}) /\ managed' = AfterFailure
  /\ UNCHANGED <<tasks, ops, aws, rail, saves, editor>>

ApplyEksFailed ==
  /\ Applies({"eksFailed"})
  /\ IF managed.importing \in Of("aws")
       THEN /\ managed' = [managed EXCEPT !.importing = Absent]
            /\ aws' = IF Result.of.request = aws.request
                      THEN [aws EXCEPT !.importError = TRUE] ELSE aws
       ELSE UNCHANGED <<managed, aws>>
  /\ UNCHANGED <<tasks, ops, rail, saves, editor>>

(* ContextPresentationSaved, ContextPresentationSaveFailed                 *)
ApplySaved ==
  /\ Applies({"saved", "saveFailed"})
  /\ LET c == Result.of.context
         ok == Result.kind = "saved" IN
       IF saves[c].op = Result.op
         THEN /\ saves' = [saves EXCEPT ![c].result = IF ok THEN "ok"
                                                     ELSE "failed"]
              /\ rail' = IF ok /\ rail[c] # Absent
                         THEN [rail EXCEPT ![c] = Result.of.look] ELSE rail
         ELSE UNCHANGED <<saves, rail>>
  /\ UNCHANGED <<tasks, ops, managed, aws, editor>>

-----------------------------------------------------------------------------
Click ==
  \/ OpenDiscovery \/ RefreshAgain \/ CloseEditor
  \/ \E p \in Profiles, a \in Accounts : Scan(p, a)
  \/ \E c \in Clusters : Import(c)
  \/ \E c \in Contexts : OpenEditor(c)
  \/ \E look \in Looks : SaveLook(look)

Work == \E t \in tasks :
  \/ ReadReferences(t) \/ Discover(t) \/ ListAccounts(t) \/ ListEks(t)
  \/ Lock(t) \/ ImportByTool(t) \/ MergeEks(t) \/ ReadForSave(t)
  \/ CompareForSave(t) \/ Write(t) \/ Reload(t)

Frame == \/ ApplyDiscovered \/ ApplyAccounts \/ ApplyScanned \/ ApplyImported
         \/ ApplyClusters \/ ApplyFailed \/ ApplyEksFailed \/ ApplySaved
         \/ SaveSettles

Outside == \/ \E c \in Contexts, look \in {Plain, Absent} : EditOutside(c, look)
           \/ \E p \in Profiles, a \in Accounts : SignIn(p, a)

SystemStep == Work \/ Frame
Next == Click \/ SystemStep \/ Outside

Spec == Init /\ [][Next]_vars

(* Every command ends (CLI_TIMEOUT), and frames are drawn.                 *)
FairSpec == Spec /\ WF_vars(SystemStep)

-----------------------------------------------------------------------------
(* No edit of the file undoes another: what the file has is what all the   *)
(* edits make of it, unless another program wrote it between the last look *)
(* of the application at the file and its write.                           *)
EditsKept == file = truth \/ "written" \in crossed

(* The clusters shown for an account are that account's, and all of them   *)
(* if nothing says otherwise; except for an account that was changed while *)
(* its regions were asked.  So are those of the other providers.           *)
ResultsExact ==
  /\ "login" \notin crossed =>
       /\ aws.found \subseteq OwnedBy(aws.account)
       /\ aws.profile # NoProfile /\ ~aws.scanning /\ aws.state = "ok" =>
            aws.found = OwnedBy(aws.account)
  /\ \A p \in Managed :
       managed.op # 0 /\ managed.state[p] = "ok" => Of(p) \subseteq managed.found

(* When nothing is under way, a cluster is offered exactly if the file has *)
(* not got it, and a context of the rail looks as the file says.  Excepted *)
(* are a file that others edited, or that could not be read, and the       *)
(* answer of a discovery that was overtaken by a later one.                *)
AtRest == tasks = {} /\ results = <<>> /\ crossed \cap {"edited", "reload"} = {}

OfferedIsMissing ==
  AtRest =>
    /\ managed.op # 0 /\ ~managed.blind =>
         managed.known = managed.found \cap Configured(file)
    /\ aws.account # NoProfile /\ ~aws.blind =>
         aws.known = aws.found \cap Configured(file)
    /\ \A c \in Contexts : rail[c] = file[c]

(* Loading, scanning, adding and saving end.                               *)
Waits == \/ managed.loading \/ aws.listing \/ aws.scanning
         \/ managed.importing # Absent \/ \E c \in Contexts : Saving(c)

WaitingEnds == []<>~Waits

=============================================================================
