------------------------------ MODULE DataEditor ------------------------------
(***************************************************************************)
(* The data of a ConfigMap or Secret, edited in its inspector:             *)
(* ResourceDataEditorState (ui/state/resource_data.rs), the controls of    *)
(* ui/resource_detail/summaries.rs, and update_resource_data of the        *)
(* worker, which reads the object, checks it and replaces it.              *)
(*                                                                         *)
(* The watch of the inspector reports the object as it is when it looks    *)
(* (it may miss versions, and reports arrive late, in order); the answer   *)
(* to a save comes from another task and may overtake a report.            *)
(***************************************************************************)
EXTENDS Integers, Sequences, FiniteSets

CONSTANTS
  Keys,       \* keys of the data map
  ValuesOf(_),\* values of a key
  FirstValue, \* the value every key has at first
  MaxEdits,   \* bound: changes the user types
  MaxSaves,   \* bound: saves
  MaxWrites,  \* bound: writes of others
  MaxFaults,  \* bound: requests that fail, or whose answer is lost
  MaxChanges  \* bound: all of these together

ASSUME DataAssumption ==
  /\ \A k \in Keys : FirstValue \in ValuesOf(k)
  /\ {MaxEdits, MaxSaves, MaxWrites, MaxFaults, MaxChanges} \subseteq Nat

VARIABLES
  object,   \* the object in the cluster: data and resource version
  reports,  \* ResourceDetailUpdated on their way, oldest first
  reported, \* the version the watch reported last
  detail,   \* the data of entry.detail, which the inspector draws
  editor,   \* entry.data_editor
  save,     \* UpdateResourceData under way
  used,     \* how much of the bounds was used
  misled    \* history: the answer to a save, or the conflict on display, is
            \* taken for newer than the last report

vars == <<object, reports, reported, detail, editor, save, used, misled>>

-----------------------------------------------------------------------------
Values   == UNION {ValuesOf(k) : k \in Keys}
Data     == {data \in UNION {[some -> Values] : some \in SUBSET Keys} :
               \A k \in DOMAIN data : data[k] \in ValuesOf(k)}
NoData   == <<>>  \* pending is NoData, or <<the data>>
Versions == 0..(1 + MaxSaves + MaxWrites)
Nothing  == [k \in {} |-> FirstValue]
NoSave   == [step |-> "none", request |-> 0, base |-> Nothing,
             updated |-> Nothing, version |-> 0, read |-> 0]

Objects == [data: Data, version: Versions]

TypeOK ==
  /\ object \in Objects
  /\ reports \in Seq(Objects)
  /\ reported \in Versions
  /\ detail \in Data
  /\ editor \in [server: Data, version: Versions, draft: Data,
                 pending: {NoData} \cup {<<data>> : data \in Data},
                 pendingVersion: Versions,
                 saving: BOOLEAN, request: 0..MaxSaves]
  /\ editor.pending = NoData <=> editor.pendingVersion = 0
  /\ editor.saving <=> editor.request # 0
  /\ save \in [step: {"none", "sent", "read", "saved", "failed"},
               request: 0..MaxSaves, base: Data, updated: Data,
               version: Versions, read: Versions]
  /\ save.step # "none" <=> editor.saving
  /\ used \in [edits: 0..MaxEdits, saves: 0..MaxSaves,
               writes: 0..MaxWrites, faults: 0..MaxFaults]
  /\ misled \in BOOLEAN

(* ResourceDataEditorState::new, when the first report arrives.            *)
Init ==
  LET data == [k \in Keys |-> FirstValue] IN
    /\ object = [data |-> data, version |-> 1]
    /\ reports = <<>> /\ reported = 1
    /\ detail = data
    /\ editor = [server |-> data, version |-> 1, draft |-> data,
                 pending |-> NoData, pendingVersion |-> 0,
                 saving |-> FALSE, request |-> 0]
    /\ save = NoSave
    /\ used = [edits |-> 0, saves |-> 0, writes |-> 0, faults |-> 0]
    /\ misled = FALSE

Use(kind, limit) ==
  /\ used[kind] < limit
  /\ used.edits + used.saves + used.writes + used.faults < MaxChanges
  /\ used' = [used EXCEPT ![kind] = @ + 1]

(* The keys the inspector draws are keys of the draft: the next frame      *)
(* expects each of them, and ends the program when one is missing.         *)
KeysInSync == DOMAIN detail \subseteq DOMAIN editor.draft

-----------------------------------------------------------------------------
(* ResourceDataEditorState                                                 *)

Modified == editor.draft # editor.server

(* changed_values: of the keys both have.                                  *)
Changed ==
  {k \in DOMAIN editor.draft \cap DOMAIN editor.server :
     editor.draft[k] # editor.server[k]}

Updated == [k \in Changed |-> editor.draft[k]]

Resolved == [editor EXCEPT !.pending = NoData, !.pendingVersion = 0]

With(data, some) ==
  [k \in DOMAIN data |-> IF k \in DOMAIN some THEN some[k] ELSE data[k]]

(* accept_watched_values                                                   *)
Accepts(report) ==
  IF ~Modified
    THEN [Resolved EXCEPT !.server = report.data, !.draft = report.data,
                          !.version = report.version]
    ELSE IF editor.server # report.data
           THEN [editor EXCEPT !.pending = <<report.data>>,
                               !.pendingVersion = report.version]
           ELSE [editor EXCEPT !.version = report.version]

(* mark_saved                                                              *)
Saved ==
  LET data == With(editor.server, Updated)
      done == [editor EXCEPT !.saving = FALSE, !.request = 0]
  IN  CASE editor.pending = NoData ->
             [done EXCEPT !.server = data]
        [] editor.pending # NoData /\ editor.pending = <<data>> ->
             [done EXCEPT !.server = data, !.version = editor.pendingVersion,
                          !.pending = NoData, !.pendingVersion = 0]
        [] editor.pending # NoData /\ editor.pending # <<data>> -> done

-----------------------------------------------------------------------------
(* What the user does; the text areas and the button are disabled during a *)
(* save, the dialog about a conflict is not.                               *)

Draws == KeysInSync /\ UNCHANGED <<object, reports, reported, detail>>

(* Mutant: keys can be changed while they are being saved.                 *)
LocksMutant == FALSE

Locks == editor.saving

Edit ==
  /\ Draws
  /\ ~Locks
  /\ Use("edits", MaxEdits)
  /\ \E k \in DOMAIN detail : \E v \in ValuesOf(k) :
       /\ editor.draft[k] # v
       /\ editor' = [editor EXCEPT !.draft[k] = v]
  /\ UNCHANGED <<save, misled>>

(* data_save_controls, and the effect SaveData in the same frame.          *)
Save ==
  /\ Draws
  /\ ~editor.saving
  /\ Changed # {}
  /\ Use("saves", MaxSaves)
  /\ editor' = [editor EXCEPT !.saving = TRUE, !.request = used.saves + 1]
  /\ save' = [step |-> "sent", request |-> used.saves + 1,
              base |-> editor.server, updated |-> Updated,
              version |-> editor.version, read |-> 0]
  /\ UNCHANGED misled

(* show_data_conflict_dialog: use_external_values                          *)
UseClusterVersion ==
  /\ Draws
  /\ editor.pending # NoData
  /\ editor' = [Resolved EXCEPT !.server = editor.pending[1],
                                !.draft = editor.pending[1],
                                !.version = editor.pendingVersion]
  /\ UNCHANGED <<save, used, misled>>

(* keep_local_edits: an edit of a key that is gone is dropped.             *)
KeepMyEdits ==
  /\ Draws
  /\ editor.pending # NoData
  /\ LET dirty == {k \in DOMAIN editor.draft :
                     \/ k \notin DOMAIN editor.server
                     \/ editor.draft[k] # editor.server[k]}
     IN  editor' = [Resolved EXCEPT
           !.server = editor.pending[1],
           !.draft = With(editor.pending[1],
                          [k \in dirty |-> editor.draft[k]]),
           !.version = editor.pendingVersion]
  /\ misled' = (misled \/ editor.saving)
  /\ UNCHANGED <<save, used>>

-----------------------------------------------------------------------------
(* The worker: update_resource_data.                                       *)

Works(step) ==
  /\ save.step = step
  /\ UNCHANGED <<reports, reported, detail, editor, misled>>

(* validate_resource_version, and the expected values.                     *)
Valid ==
  /\ object.version = save.version
  /\ \A k \in DOMAIN save.updated :
       k \in DOMAIN object.data /\ object.data[k] = save.base[k]

ReadObject ==
  /\ Works("sent")
  /\ save' = IF Valid THEN [save EXCEPT !.step = "read", !.read = object.version]
             ELSE [save EXCEPT !.step = "failed"]
  /\ UNCHANGED <<object, used>>

(* Mutant: the object is sent back without its resource version.           *)
ReplaceObjectMutant ==
  /\ Works("read")
  /\ object' = [data |-> With(object.data, save.updated),
                version |-> object.version + 1]
  /\ save' = [save EXCEPT !.step = "saved"]
  /\ UNCHANGED used

(* api.replace: the API server (external) refuses another version.         *)
ReplaceObject ==
  /\ Works("read")
  /\ IF object.version = save.read
       THEN /\ object' = [data |-> With(object.data, save.updated),
                          version |-> object.version + 1]
            /\ \/ save' = [save EXCEPT !.step = "saved"] /\ UNCHANGED used
               \/ /\ save' = [save EXCEPT !.step = "failed"]
                  /\ Use("faults", MaxFaults)
       ELSE /\ save' = [save EXCEPT !.step = "failed"]
            /\ UNCHANGED <<object, used>>

RequestFails ==
  /\ Works("sent") \/ Works("read")
  /\ Use("faults", MaxFaults)
  /\ save' = [save EXCEPT !.step = "failed"]
  /\ UNCHANGED object

-----------------------------------------------------------------------------
(* The cluster, and the watch of the inspector.                            *)

OthersWrite ==
  /\ Use("writes", MaxWrites)
  /\ \E data \in Data :
       object' = [data |-> data, version |-> object.version + 1]
  /\ UNCHANGED <<reports, reported, detail, editor, save, misled>>

Report ==
  /\ reported < object.version
  /\ reported' = object.version
  /\ reports' = Append(reports, object)
  /\ UNCHANGED <<object, detail, editor, save, used, misled>>

(* ResourceDetailUpdated: sync_resource_data_editor, then entry.detail.    *)
ApplyReport ==
  /\ KeysInSync
  /\ reports # <<>>
  /\ reports' = Tail(reports)
  /\ detail' = Head(reports).data
  /\ editor' = Accepts(Head(reports))
  /\ misled' = /\ Modified
                 /\ (editor.pending # NoData \/ editor.saving)
                 /\ Head(reports).data = editor.server
  /\ UNCHANGED <<object, reported, save, used>>

(* ResourceDataUpdateCompleted, ResourceDataUpdateFailed                   *)
ApplyAnswer ==
  /\ KeysInSync
  /\ save.step \in {"saved", "failed"}
  /\ save' = NoSave
  /\ editor' = IF editor.request # save.request THEN editor
               ELSE IF save.step = "saved" THEN Saved
                    ELSE [editor EXCEPT !.saving = FALSE, !.request = 0]
  /\ UNCHANGED <<object, reports, reported, detail, used, misled>>

-----------------------------------------------------------------------------
User       == Edit \/ Save \/ UseClusterVersion \/ KeepMyEdits
WorkerStep == ReadObject \/ ReplaceObject \/ RequestFails

Next ==
  \/ User \/ WorkerStep \/ OthersWrite \/ Report \/ ApplyReport \/ ApplyAnswer

Spec == Init /\ [][Next]_vars

(* The worker's requests are answered and the interface applies results.   *)
Fairness == WF_vars(WorkerStep) /\ WF_vars(ApplyAnswer)
FairSpec == Spec /\ Fairness

-----------------------------------------------------------------------------
Value(data, k) == IF k \in DOMAIN data THEN data[k] ELSE NoData

(* A save replaces values the user saw, and no other: neither a value that *)
(* somebody else wrote since, nor one the editor never showed because it   *)
(* took an older report for the newest.                                    *)
SavesOverwriteNothing ==
  [][ReplaceObject =>
       \A k \in Keys : Value(object'.data, k) # Value(object.data, k) =>
         /\ k \in DOMAIN save.updated
         /\ Value(object.data, k) = Value(save.base, k)]_vars

AtRest == save = NoSave /\ reports = <<>> /\ reported = object.version

(* When every report and answer has arrived, an editor without edits shows *)
(* the data of the cluster, and one with edits either compares them with   *)
(* it or asks about the conflict; except after a report that took back what*)
(* the conflict on display, or the save under way, is about, and after a   *)
(* conflict settled for the edits during a save: the conflict stays, and   *)
(* the save is taken for the newest version, although it is not.           *)
EditorFollows ==
  AtRest /\ KeysInSync /\ ~misled =>
    editor.server = object.data \/ editor.pending = <<object.data>>

(* A save under way, for the user, unless the inspector cannot be drawn.   *)
Waits == editor.saving /\ KeysInSync

=============================================================================
