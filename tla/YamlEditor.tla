------------------------------ MODULE YamlEditor ------------------------------
(***************************************************************************)
(* The YAML editor of one resource: YamlEditorWindowState (ui/state/       *)
(* editors.rs), its window (ui/yaml_editor/), and the worker's commands    *)
(* for it, each a task of its own whose answer may arrive in any order.    *)
(*                                                                         *)
(* The text is checked in the window first, then by a dry run against the  *)
(* cluster; a revision number tells the answers to those apart.  Applying  *)
(* replaces the whole resource, unless it changed since it was fetched.    *)
(***************************************************************************)
EXTENDS Integers

CONSTANTS
  Specs,      \* documents of the resource
  FirstSpec,  \* the one it has at first
  Empty,      \* the empty text: one that parses, and does not fit the schema
  MaxEvents   \* bound: times the editor is opened, changes of the text,
              \* applies, changes by others, and schemas pushed by a new
              \* connection, all together

YamlAssumption ==
  /\ FirstSpec \in Specs
  /\ Empty \notin Specs
  /\ MaxEvents \in Nat

VARIABLES
  object,  \* the resource in the cluster
  editor,  \* the editor's window, or NoEditor
  schemas, \* whether resource_schemas holds the schema of the resource
  tasks,   \* commands of the editor that the worker executes
  used     \* next_yaml_editor_id, and how much of the bound was used

vars == <<object, editor, schemas, tasks, used>>

-----------------------------------------------------------------------------
Texts    == Specs \cup {Empty}
Versions == 0..(1 + MaxEvents)
Uids     == 0..(1 + MaxEvents)
Objects  == [uid : Uids, version : Versions, spec : Texts]
NoObject == [uid |-> 0, version |-> 0, spec |-> Empty]

(* id: the editor's; base: what it was fetched as (original_yaml, Empty    *)
(* while it is None, resource_version, resource_uid); checked is history:  *)
(* the text of the last answer that said it is valid.                      *)
NewEditor ==
  [id |-> used.opens + 1, base |-> NoObject, text |-> Empty,
   loading |-> TRUE, saving |-> FALSE, schema |-> schemas,
   schemaLoading |-> ~schemas, validation |-> "idle", revision |-> 0,
   due |-> FALSE, diagnostics |-> FALSE, checked |-> Empty]

NoEditor == [NewEditor EXCEPT !.id = 0, !.loading = FALSE, !.schema = FALSE,
                              !.schemaLoading = FALSE]

(* read: the version a task is about to replace; result: what it answers;  *)
(* early is history: sent before the schema arrived.                       *)
Task(kind, revision) ==
  [kind |-> kind, id |-> editor.id, revision |-> revision,
   text |-> editor.text, base |-> editor.base, step |-> "sent",
   read |-> 0, result |-> NoObject, early |-> FALSE]

TypeOK ==
  /\ object \in [uid : Uids \ {0}, version : Versions \ {0}, spec : Specs]
  /\ editor.base \in Objects /\ editor.text \in Texts
  /\ editor.validation \in {"idle", "pending", "valid", "failed"}
  /\ editor.revision \in 0..(MaxEvents + 1)
  /\ {editor.loading, editor.saving, editor.due, editor.diagnostics}
       \subseteq BOOLEAN
  /\ editor.due => ~editor.diagnostics /\ editor.validation # "pending"
  /\ editor.saving =>
       \E t \in tasks : t.kind = "apply" /\ t.id = editor.id
  /\ editor.loading =>
       editor.base = NoObject /\ editor.validation \in {"idle", "failed"}
  /\ schemas \in BOOLEAN
  /\ \A t \in tasks :
       /\ t.kind \in {"fetch", "schema", "validate", "apply"}
       /\ t.step \in {"sent", "read", "done"}
       /\ t.id \in 1..used.opens

Init ==
  /\ object = [uid |-> 1, version |-> 1, spec |-> FirstSpec]
  /\ schemas = FALSE
  /\ tasks = {}
  /\ used = [opens |-> 0, events |-> 0]
  /\ editor = NoEditor

Use(opened) ==
  /\ used.events < MaxEvents
  /\ used' = [opens |-> used.opens + opened, events |-> used.events + 1]

-----------------------------------------------------------------------------
(* The window.                                                             *)

IsOpen   == editor.id # 0
Loaded   == IsOpen /\ ~editor.loading /\ editor.base # NoObject
Modified == editor.base # NoObject /\ editor.text # editor.base.spec

(* open_yaml_editor, which otherwise only focuses the open window.         *)
Open ==
  /\ ~IsOpen
  /\ Use(1)
  /\ editor' = NewEditor
  /\ tasks' = tasks \cup
       {[Task("fetch", 0) EXCEPT !.id = used.opens + 1]} \cup
       (IF schemas THEN {}
        ELSE {[Task("schema", 0) EXCEPT !.id = used.opens + 1]})
  /\ UNCHANGED <<object, schemas>>

(* request_close, and Discard changes in the dialog when there are any. The*)
(* fetch and the validations under way go on, and their answers are        *)
(* dropped: they are left out from here on.                                *)
Close ==
  /\ IsOpen
  /\ editor' = NoEditor
  /\ tasks' = {t \in tasks : t.kind \in {"schema", "apply"}}
  /\ UNCHANGED <<object, schemas, used>>

(* Whether the text parses, and fits the schema when there is one.         *)
LocallyValid(e) == e.schema => e.text # Empty

(* refresh_local_validation                                                *)
Refresh(e) ==
  [e EXCEPT !.revision = @ + 1, !.validation = "idle",
            !.due = LocallyValid(e), !.diagnostics = ~LocallyValid(e)]

(* A frame checks the text first, if it never was, then shows it.          *)
Unchecked == editor.revision = 0 /\ editor.text # Empty

FirstFrame ==
  /\ Loaded /\ Unchecked
  /\ editor' = Refresh(editor)
  /\ UNCHANGED <<object, schemas, tasks, used>>

(* Typing, or accepting a completion; it is possible during an apply.      *)
Type ==
  /\ Loaded /\ ~Unchecked
  /\ Use(0)
  /\ \E text \in Texts \ {editor.text} :
       editor' = Refresh([editor EXCEPT !.text = text])
  /\ UNCHANGED <<object, schemas, tasks>>

(* maybe_request_server_validation                                         *)
RequestValidation ==
  /\ IsOpen
  /\ editor.due
  /\ editor' = [editor EXCEPT !.due = FALSE, !.validation = "pending"]
  /\ tasks' = tasks \cup {Task("validate", editor.revision)}
  /\ UNCHANGED <<object, schemas, used>>

(* apply_editor                                                            *)
Apply ==
  /\ Modified /\ ~editor.saving
  /\ Use(0)
  /\ editor' = [editor EXCEPT !.saving = TRUE]
  /\ tasks' = tasks \cup {Task("apply", 0)}
  /\ UNCHANGED <<object, schemas>>

-----------------------------------------------------------------------------
(* The worker.                                                             *)

Becomes(t, done) ==
  /\ tasks' = (tasks \ {t}) \cup {done}
  /\ UNCHANGED <<editor, schemas>>

(* get_resource_yaml                                                       *)
GetYaml(t) ==
  /\ t.kind = "fetch" /\ t.step = "sent"
  /\ Becomes(t, [t EXCEPT !.step = "done", !.result = object])
  /\ UNCHANGED <<object, used>>

(* Mutant: only the document is compared, not the identity.                *)
ConflictMutant(t) ==
  object.version # t.base.version /\ object.spec # t.base.spec

(* prepare_editor_replacement                                              *)
Conflict(t) ==
  \/ object.uid # t.base.uid
  \/ object.version # t.base.version /\ object.spec # t.base.spec

(* A document that may replace the object, as it is now.                   *)
Ready(t) == t.text \in Specs /\ ~Conflict(t)

(* apply_resource_yaml: the object is read ...                             *)
Prepare(t) ==
  /\ t.kind = "apply" /\ t.step = "sent"
  /\ Ready(t)
  /\ Becomes(t, [t EXCEPT !.step = "read", !.read = object.version])
  /\ UNCHANGED <<object, used>>

(* ... and replaced; the API server (external) refuses another version.    *)
Replace(t) ==
  /\ t.kind = "apply" /\ t.step = "read"
  /\ object.version = t.read
  /\ object' = [object EXCEPT !.spec = t.text, !.version = @ + 1]
  /\ Becomes(t, [t EXCEPT !.step = "done", !.result = object'])
  /\ UNCHANGED used

(* validate_resource_yaml: the same as a dry run.                          *)
DryRun(t) ==
  /\ t.kind = "validate" /\ t.step = "sent"
  /\ Ready(t)
  /\ Becomes(t, [t EXCEPT !.step = "done"])
  /\ UNCHANGED <<object, used>>

-----------------------------------------------------------------------------
(* Results; one for a window that is closed changes no window.  Any request*)
(* may fail at any step, for a conflict, because the document is refused,  *)
(* or because its answer is lost.                                          *)

IsFor(t) == IsOpen /\ editor.id = t.id

Answers(t, kind, change) ==
  /\ t.kind = kind
  /\ editor' = IF IsFor(t) THEN change ELSE editor
  /\ UNCHANGED <<object, used>>

Fails(t, kind, change) ==
  /\ Answers(t, kind, change)
  /\ tasks' = tasks \ {t}
  /\ UNCHANGED schemas

(* ResourceYamlFetched, ResourceYamlFetchFailed                            *)
ApplyFetched(t) ==
  /\ t.step = "done"
  /\ Answers(t, "fetch", [editor EXCEPT !.base = t.result, !.loading = FALSE,
                                        !.text = t.result.spec])
  /\ tasks' = tasks \ {t}
  /\ UNCHANGED schemas

FetchFails(t) == Fails(t, "fetch", [editor EXCEPT !.loading = FALSE])

WithSchema(e) ==
  [e EXCEPT !.schema = TRUE, !.schemaLoading = FALSE, !.revision = 0]

Outstanding(some) ==
  {IF t.kind = "validate" THEN [t EXCEPT !.early = TRUE] ELSE t : t \in some}

(* ResourceSchemaLoaded, ResourceSchemaLoadFailed                          *)
ApplySchema(t) ==
  /\ Answers(t, "schema", WithSchema(editor))
  /\ schemas' = TRUE
  /\ tasks' = IF IsFor(t) THEN Outstanding(tasks \ {t}) ELSE tasks \ {t}

SchemaFails(t) ==
  Fails(t, "schema", [editor EXCEPT !.schemaLoading = FALSE,
                                    !.validation = "failed"])

(* KubernetesResourceSchemasLoaded: a new connection lists them too.       *)
SchemasPushed ==
  /\ Use(0)
  /\ schemas' = TRUE
  /\ editor' = IF IsOpen THEN WithSchema(editor) ELSE editor
  /\ tasks' = IF IsOpen THEN Outstanding(tasks) ELSE tasks
  /\ UNCHANGED object

IsLatest(t) == editor.revision = t.revision

(* ResourceYamlValidated, ResourceYamlValidationFailed                     *)
ApplyValidated(t) ==
  /\ t.step = "done"
  /\ Answers(t, "validate",
       IF ~IsLatest(t) THEN editor
       ELSE [editor EXCEPT !.validation = "valid",
                           !.checked = IF t.early THEN editor.text ELSE t.text])
  /\ tasks' = tasks \ {t}
  /\ UNCHANGED schemas

ValidationFails(t) ==
  Fails(t, "validate", IF ~IsLatest(t) THEN editor
                       ELSE [editor EXCEPT !.validation = "failed"])

(* ResourceApplyCompleted, ResourceApplyFailed                             *)
ApplyApplied(t) ==
  /\ t.step = "done"
  /\ Answers(t, "apply", Refresh([editor EXCEPT !.base = t.result,
                                                !.text = t.result.spec,
                                                !.saving = FALSE]))
  /\ tasks' = tasks \ {t}
  /\ UNCHANGED schemas

ApplyFails(t) == Fails(t, "apply", [editor EXCEPT !.saving = FALSE])

-----------------------------------------------------------------------------
(* Others: a change of the document, of the status only, or a resource     *)
(* that is deleted and created again under the same name.                  *)
OthersWrite ==
  /\ Use(0)
  /\ \E spec \in Specs, uid \in {object.uid, object.uid + 1} :
       object' = [uid |-> uid, version |-> object.version + 1, spec |-> spec]
  /\ UNCHANGED <<editor, schemas, tasks>>

Frame    == FirstFrame \/ RequestValidation
User     == Open \/ Close \/ Type \/ Apply
Works(t) ==
  \/ GetYaml(t) \/ Prepare(t) \/ Replace(t) \/ DryRun(t)
Result(t) ==
  \/ ApplyFetched(t) \/ ApplySchema(t) \/ ApplyValidated(t) \/ ApplyApplied(t)
  \/ FetchFails(t) \/ SchemaFails(t) \/ ValidationFails(t) \/ ApplyFails(t)

Next ==
  \/ Frame \/ User \/ SchemasPushed \/ OthersWrite
  \/ \E t \in tasks : Works(t) \/ Result(t)

Spec == Init /\ [][Next]_vars

(* Frames are drawn, requests answered, and results applied.               *)
Answering == \E t \in tasks : Works(t) \/ Result(t)
Fairness  == WF_vars(Frame) /\ WF_vars(Answering)
FairSpec  == Spec /\ Fairness

-----------------------------------------------------------------------------
(* Applying replaces the document the editor was filled with, of the same  *)
(* resource, and nothing that others wrote since: not in the time between  *)
(* the check for conflicts and the replacement, and not after earlier      *)
(* applies of the same window.                                             *)
AppliesOverwriteNothing ==
  [][\A t \in tasks : Replace(t) =>
       \/ object'.spec = object.spec
       \/ object.spec = t.base.spec /\ object.uid = t.base.uid]_vars

(* "Validated by cluster" is said of the text that the cluster validated,  *)
(* whatever was typed, applied or loaded meanwhile; except by an answer to *)
(* a request from before the schema arrived, whose revision is used again. *)
ValidatedIsShown == editor.validation = "valid" => editor.checked = editor.text

(* The editor does not wait for ever: it loads, a text to validate is      *)
(* validated, and an apply ends; except that the schema's arrival leaves   *)
(* an empty text waiting for an answer that is then refused.               *)
Waits ==
  \/ editor.loading \/ editor.saving \/ editor.due
  \/ editor.validation = "pending" /\ editor.text # Empty

WaitingEnds == []<>~Waits

=============================================================================
