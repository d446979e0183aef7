----------------------------- MODULE Editors_proof -----------------------------
(***************************************************************************)
(* Proofs about the blades of a cluster and the editors that they open, as *)
(* the run `blades' puts them together: any number of inspectors, of       *)
(* editors, of keys and texts, and of changes by others.                   *)
(*                                                                         *)
(* The data editor of a ConfigMap or Secret.  A save overwrites nothing:   *)
(* between the read of the object and its replacement, an object of the    *)
(* version that was read has the values that the editor had when it was    *)
(* saved.  The editor follows the cluster: a conflict on display is about  *)
(* the data reported last, and an answer that arrives after the report of  *)
(* its save finds an editor without edits, or a conflict with that data.   *)
(*                                                                         *)
(* The YAML editor.  What was read of the object is older than it, or is   *)
(* it still, so the check of an apply speaks of what it replaces; and the  *)
(* answer with the latest revision is about the text on display, unless    *)
(* the schema arrived in between.                                          *)
(*                                                                         *)
(* The inspectors.  The history is a stack in which column settings come   *)
(* after their inspector, and each id is told to the worker in order:      *)
(* start, then stop; so what is still to happen can be read off the id.    *)
(***************************************************************************)
EXTENDS MCBlades, FiniteSetTheorems, SequenceTheorems, TLAPS

-----------------------------------------------------------------------------
(* The data of an object: for some of the keys, a value of the key.        *)

LEMMA DataIs ==
  ASSUME NEW data \in Data
  PROVE  /\ DOMAIN data \subseteq Keys
         /\ data = [k \in DOMAIN data |-> data[k]]
         /\ \A k \in DOMAIN data : data[k] \in ValuesOf(k)
  BY DEF Data

LEMMA DataHas ==
  ASSUME NEW some \in SUBSET Keys, NEW data,
         data = [k \in some |-> data[k]],
         \A k \in some : data[k] \in ValuesOf(k)
  PROVE  data \in Data
<1>1. \A k \in some : data[k] \in Values
  BY DEF Values
<1>2. DOMAIN data = some
  OBVIOUS
<1>3. data \in [some -> Values]
  BY <1>1
<1>4. data \in UNION {[dom -> Values] : dom \in SUBSET Keys}
  BY <1>3
<1>5. QED
  BY <1>2, <1>4 DEF Data

(* With writes some values over those of the data: its keys stay, and the  *)
(* result is data again.                                                   *)
LEMMA WithIs ==
  ASSUME NEW data \in Data, NEW some,
         \A k \in DOMAIN some : some[k] \in ValuesOf(k)
  PROVE  /\ With(data, some) \in Data
         /\ DOMAIN With(data, some) = DOMAIN data
         /\ \A k \in DOMAIN data \cap DOMAIN some :
              With(data, some)[k] = some[k]
         /\ \A k \in DOMAIN data \ DOMAIN some :
              With(data, some)[k] = data[k]
<1> DEFINE new == With(data, some)
<1>1. /\ new = [k \in DOMAIN data |-> new[k]]
      /\ DOMAIN new = DOMAIN data
      /\ \A k \in DOMAIN data \cap DOMAIN some : new[k] = some[k]
      /\ \A k \in DOMAIN data \ DOMAIN some : new[k] = data[k]
  BY DEF With
<1>2. \A k \in DOMAIN data : data[k] \in ValuesOf(k)
  BY DataIs
<1>3. \A k \in DOMAIN data : new[k] \in ValuesOf(k)
  BY <1>1, <1>2
<1>4. DOMAIN data \in SUBSET Keys
  BY DataIs
<1> HIDE DEF new
<1>5. new \in Data
  BY <1>1, <1>3, <1>4, DataHas
<1>6. QED
  BY <1>1, <1>5 DEF new

(* Nothing over the data is the data.                                      *)
LEMMA WithNothing ==
  ASSUME NEW data \in Data, NEW some, DOMAIN some = {}
  PROVE  With(data, some) = data
<1>1. data = [k \in DOMAIN data |-> data[k]]
  BY DataIs
<1>2. With(data, some) = [k \in DOMAIN data |-> data[k]]
  BY DEF With
<1>3. QED
  BY <1>1, <1>2

LEMMA NothingIsData == Nothing \in Data
<1>1. /\ Nothing = [k \in {} |-> Nothing[k]]
      /\ \A k \in {} : Nothing[k] \in ValuesOf(k)
  BY DEF Nothing
<1>2. QED
  BY <1>1, DataHas

(* The values to be saved are data, of keys the editor has.                *)
LEMMA UpdatedIs ==
  ASSUME editor.draft \in Data, editor.server \in Data
  PROVE  /\ Updated \in Data
         /\ DOMAIN Updated = Changed
         /\ Changed \subseteq DOMAIN editor.server
         /\ \A k \in DOMAIN Updated : Updated[k] \in ValuesOf(k)
<1>1. /\ Updated = [k \in Changed |-> Updated[k]]
      /\ DOMAIN Updated = Changed
      /\ \A k \in Changed : Updated[k] = editor.draft[k]
  BY DEF Updated
<1>2. Changed \subseteq DOMAIN editor.draft \cap DOMAIN editor.server
  BY DEF Changed
<1>3. \A k \in Changed : Updated[k] \in ValuesOf(k)
  BY <1>1, <1>2, DataIs
<1>4. Changed \in SUBSET Keys
  BY <1>2, DataIs
<1>5. Updated \in Data
  BY <1>1, <1>3, <1>4, DataHas
<1>6. QED
  BY <1>1, <1>2, <1>3, <1>5

-----------------------------------------------------------------------------
(* The inductive invariant.                                                *)

(* The object has a version, and a save not yet made one to come.          *)
Versioned ==
  /\ object.version >= 1
  /\ \A r \in DOMAIN reports : reports[r].version >= 1
  /\ object.version + (IF save.step \in {"sent", "read"} THEN 1 ELSE 0)
       <= 1 + used.writes + used.saves

(* The save under way is the one that the editor waits for, and writes     *)
(* keys that the editor has from the cluster.                              *)
Asked ==
  save.step # "none" =>
    /\ save.request = editor.request
    /\ DOMAIN save.updated \subseteq DOMAIN save.base

(* An object of the version read has the values the editor had.            *)
Checked ==
  save.step = "read" =>
    /\ save.read <= object.version
    /\ save.read = object.version =>
         \A k \in DOMAIN save.updated :
           k \in DOMAIN object.data /\ object.data[k] = save.base[k]

(* The data that the user interface will know when the reports on their    *)
(* way have arrived.                                                       *)
Newest == IF reports = <<>> THEN detail ELSE reports[Len(reports)].data

Behind == reports # <<>> \/ reported # object.version

Reporting ==
  /\ reported <= object.version
  /\ reported = object.version => Newest = object.data

(* A conflict on display is about the data reported last.                  *)
Current == ~misled => editor.pending \in {NoData, <<detail>>}

(* With every report applied, the editor has the data or the conflict; and *)
(* a save whose report arrived before its answer leaves no edits.          *)
Following ==
  ~misled /\ ~Behind =>
    /\ editor.server = detail \/ editor.pending = <<detail>>
    /\ save.step = "saved" => ~Modified \/ editor.pending = <<detail>>

EditorInv ==
  TypeOK /\ Versioned /\ Asked /\ Checked /\ Reporting /\ Current /\ Following

-----------------------------------------------------------------------------
(* The invariant holds at the start, and every step keeps it.              *)

LEMMA InitEditor == Init => EditorInv
<1> SUFFICES ASSUME Init
             PROVE  EditorInv
  OBVIOUS
<1> DEFINE data == [k \in Keys |-> FirstValue]
<1>1. data \in Data
  <2>1. data = [k \in Keys |-> data[k]] /\ \A k \in Keys : data[k] \in ValuesOf(k)
    BY DataAssumption
  <2> HIDE DEF data
  <2>2. QED
    BY <2>1, DataHas
<1>2. /\ {0, 1} \subseteq Versions
      /\ {MaxEdits, MaxSaves, MaxWrites, MaxFaults} \subseteq Nat
  BY DataAssumption DEF Versions
<1>3. /\ object = [data |-> data, version |-> 1]
      /\ reports = <<>> /\ reported = 1 /\ detail = data
      /\ editor = [server |-> data, version |-> 1, draft |-> data,
                   pending |-> NoData, pendingVersion |-> 0,
                   saving |-> FALSE, request |-> 0]
      /\ save = NoSave
      /\ used = [edits |-> 0, saves |-> 0, writes |-> 0, faults |-> 0]
      /\ misled = FALSE
  BY DEF Init
<1> HIDE DEF data
<1>4. TypeOK
  <2>1. object \in Objects /\ reports \in Seq(Objects)
    BY <1>1, <1>2, <1>3 DEF Objects
  <2>2. /\ editor \in [server: Data, version: Versions, draft: Data,
                      pending: {NoData} \cup {<<some>> : some \in Data},
                      pendingVersion: Versions,
                      saving: BOOLEAN, request: 0..MaxSaves]
        /\ editor.pending = NoData <=> editor.pendingVersion = 0
        /\ editor.saving <=> editor.request # 0
    BY <1>1, <1>2, <1>3
  <2>3. save \in [step: {"none", "sent", "read", "saved", "failed"},
                 request: 0..MaxSaves, base: Data, updated: Data,
                 version: Versions, read: Versions]
    BY <1>2, <1>3, NothingIsData DEF NoSave
  <2>4. save.step = "none" /\ ~editor.saving
    BY <1>3 DEF NoSave
  <2>5. used \in [edits: 0..MaxEdits, saves: 0..MaxSaves,
                 writes: 0..MaxWrites, faults: 0..MaxFaults]
    BY <1>2, <1>3
  <2>6. QED
    BY <1>1, <1>2, <1>3, <2>1, <2>2, <2>3, <2>4, <2>5 DEF TypeOK
<1>5. Versioned /\ Asked /\ Checked /\ Reporting
  BY <1>3 DEF Versioned, Asked, Checked, Reporting, Newest, NoSave
<1>6. Current /\ Following
  BY <1>3 DEF Current, Following, Behind, Modified, NoSave
<1>7. QED
  BY <1>4, <1>5, <1>6 DEF EditorInv

(* A bound is used up by one.                                              *)
LEMMA UseIs ==
  ASSUME TypeOK, NEW kind \in {"edits", "saves", "writes", "faults"},
         NEW limit \in Nat, Use(kind, limit),
         kind = "edits" => limit = MaxEdits,
         kind = "saves" => limit = MaxSaves,
         kind = "writes" => limit = MaxWrites,
         kind = "faults" => limit = MaxFaults
  PROVE  /\ used' \in [edits: 0..MaxEdits, saves: 0..MaxSaves,
                       writes: 0..MaxWrites, faults: 0..MaxFaults]
         /\ used[kind] < limit
         /\ used'[kind] = used[kind] + 1
         /\ \A other \in {"edits", "saves", "writes", "faults"} \ {kind} :
              used'[other] = used[other]
<1>1. /\ used \in [edits: 0..MaxEdits, saves: 0..MaxSaves,
                   writes: 0..MaxWrites, faults: 0..MaxFaults]
      /\ {MaxEdits, MaxSaves, MaxWrites, MaxFaults} \subseteq Nat
  BY DataAssumption DEF TypeOK
<1>2. used[kind] < limit /\ used' = [used EXCEPT ![kind] = @ + 1]
  BY DEF Use
<1>3. QED
  BY <1>1, <1>2

-----------------------------------------------------------------------------
(* What the user does.                                                     *)

LEMMA EditKeeps == EditorInv /\ Edit => EditorInv'
<1> SUFFICES ASSUME EditorInv, Edit
             PROVE  EditorInv'
  OBVIOUS
<1> USE DEF EditorInv
<1>1. /\ UNCHANGED <<object, reports, reported, detail, save, misled>>
      /\ editor.saving = FALSE
      /\ Use("edits", MaxEdits)
  BY DEF Edit, Draws, Locks, TypeOK
<1>2. PICK k \in DOMAIN detail : \E v \in ValuesOf(k) :
        /\ editor.draft[k] # v
        /\ editor' = [editor EXCEPT !.draft[k] = v]
  BY DEF Edit
<1>3. PICK v \in ValuesOf(k) :
        /\ editor.draft[k] # v
        /\ editor' = [editor EXCEPT !.draft[k] = v]
  BY <1>2
<1>4. [editor.draft EXCEPT ![k] = v] \in Data
  <2> DEFINE new == [editor.draft EXCEPT ![k] = v]
  <2>1. editor.draft \in Data
    BY DEF TypeOK
  <2>2. k \in DOMAIN editor.draft
    BY DEF Edit, Draws, KeysInSync
  <2>3. new = [j \in DOMAIN editor.draft |-> IF j = k THEN v ELSE editor.draft[j]]
    BY <2>1, DataIs
  <2>4. /\ new = [j \in DOMAIN editor.draft |-> new[j]]
        /\ \A j \in DOMAIN editor.draft : new[j] \in ValuesOf(j)
    BY <2>1, <2>3, DataIs
  <2>5. DOMAIN editor.draft \in SUBSET Keys
    BY <2>1, DataIs
  <2> HIDE DEF new
  <2>6. new \in Data
    BY <2>4, <2>5, DataHas
  <2>7. QED
    BY <2>6 DEF new
<1>5. /\ editor' = [editor EXCEPT !.draft = [editor.draft EXCEPT ![k] = v]]
  BY <1>3
<1>6. /\ editor'.server = editor.server /\ editor'.pending = editor.pending
      /\ editor'.pendingVersion = editor.pendingVersion
      /\ editor'.saving = editor.saving /\ editor'.request = editor.request
  BY <1>5 DEF TypeOK
<1>7. /\ used' \in [edits: 0..MaxEdits, saves: 0..MaxSaves,
                    writes: 0..MaxWrites, faults: 0..MaxFaults]
      /\ used'.saves = used.saves /\ used'.writes = used.writes
  BY <1>1, UseIs, DataAssumption
<1>8. TypeOK'
  BY <1>1, <1>4, <1>5, <1>6, <1>7 DEF TypeOK
<1>9. save.step = "none"
  BY <1>1 DEF TypeOK
<1>10. (Versioned /\ Asked /\ Checked /\ Reporting)'
  BY <1>1, <1>6, <1>7, <1>9
     DEF Versioned, Asked, Checked, Reporting, Newest
<1>11. (Current /\ Following)'
  BY <1>1, <1>6, <1>9 DEF Current, Following, Behind
<1>12. QED
  BY <1>8, <1>10, <1>11

LEMMA SaveKeeps == EditorInv /\ Save => EditorInv'
<1> SUFFICES ASSUME EditorInv, Save
             PROVE  EditorInv'
  OBVIOUS
<1> USE DEF EditorInv
<1>1. /\ UNCHANGED <<object, reports, reported, detail, misled>>
      /\ editor.saving = FALSE
      /\ Use("saves", MaxSaves)
      /\ editor' = [[editor EXCEPT !.saving = TRUE]
                      EXCEPT !.request = used.saves + 1]
      /\ save' = [step |-> "sent", request |-> used.saves + 1,
                  base |-> editor.server, updated |-> Updated,
                  version |-> editor.version, read |-> 0]
  BY DEF Save, Draws, TypeOK
<1>2. /\ used' \in [edits: 0..MaxEdits, saves: 0..MaxSaves,
                    writes: 0..MaxWrites, faults: 0..MaxFaults]
      /\ used.saves < MaxSaves
      /\ used'.saves = used.saves + 1 /\ used'.writes = used.writes
  BY <1>1, UseIs, DataAssumption
<1>3. used.saves \in Nat /\ used.writes \in Nat /\ MaxSaves \in Nat
  BY DataAssumption DEF TypeOK
<1>4. used.saves + 1 \in 0..MaxSaves /\ used.saves + 1 # 0
  BY <1>2, <1>3
<1>5. editor.draft \in Data /\ editor.server \in Data
  BY DEF TypeOK
<1>6. /\ Updated \in Data
      /\ DOMAIN Updated \subseteq DOMAIN editor.server
  BY <1>5, UpdatedIs
<1>7. /\ editor'.server = editor.server /\ editor'.pending = editor.pending
      /\ editor'.pendingVersion = editor.pendingVersion
      /\ editor'.saving = TRUE /\ editor'.request = used.saves + 1
      /\ editor' \in [server: Data, version: Versions, draft: Data,
                      pending: {NoData} \cup {<<data>> : data \in Data},
                      pendingVersion: Versions,
                      saving: BOOLEAN, request: 0..MaxSaves]
  BY <1>1, <1>4 DEF TypeOK
<1>8. /\ save' \in [step: {"none", "sent", "read", "saved", "failed"},
                    request: 0..MaxSaves, base: Data, updated: Data,
                    version: Versions, read: Versions]
      /\ save'.step = "sent" /\ save'.request = used.saves + 1
      /\ save'.updated = Updated /\ save'.base = editor.server
  <2>1. 0 \in Versions /\ editor.version \in Versions
    BY SMTT(30), DataAssumption DEF TypeOK, Versions
  <2>2. QED
    BY <1>1, <1>4, <1>5, <1>6, <2>1
<1>9. TypeOK'
  BY <1>1, <1>2, <1>4, <1>7, <1>8 DEF TypeOK
<1>10. (Versioned /\ Asked /\ Checked /\ Reporting)'
  <2>1. save.step = "none"
    BY <1>1 DEF TypeOK
  <2>2. object.version \in Nat /\ object'.version = object.version
    BY <1>1 DEF TypeOK, Objects, Versions
  <2>3. Versioned'
    BY <1>1, <1>2, <1>3, <1>8, <2>1, <2>2 DEF Versioned
  <2>4. Asked' /\ Checked' /\ Reporting'
    BY <1>1, <1>6, <1>7, <1>8 DEF Asked, Checked, Reporting, Newest
  <2>5. QED
    BY <2>3, <2>4
<1>11. (Current /\ Following)'
  BY <1>1, <1>7, <1>8 DEF Current, Following, Behind
<1>12. QED
  BY <1>9, <1>10, <1>11

LEMMA UseClusterVersionKeeps == EditorInv /\ UseClusterVersion => EditorInv'
<1> SUFFICES ASSUME EditorInv, UseClusterVersion
             PROVE  EditorInv'
  OBVIOUS
<1> USE DEF EditorInv
<1> DEFINE data == editor.pending[1]
<1>1. /\ UNCHANGED <<object, reports, reported, detail, save, used, misled>>
      /\ editor.pending # NoData
      /\ editor' = [[[[[editor EXCEPT !.pending = NoData]
                               EXCEPT !.pendingVersion = 0]
                               EXCEPT !.server = data]
                               EXCEPT !.draft = data]
                               EXCEPT !.version = editor.pendingVersion]
  BY DEF UseClusterVersion, Draws, Resolved
<1>2. data \in Data /\ editor.pending = <<data>>
  BY <1>1 DEF TypeOK
<1>3. 0 \in Versions
  BY DataAssumption DEF Versions
<1>4. /\ editor'.server = data /\ editor'.draft = data
      /\ editor'.pending = NoData /\ editor'.pendingVersion = 0
      /\ editor'.saving = editor.saving /\ editor'.request = editor.request
      /\ editor' \in [server: Data, version: Versions, draft: Data,
                      pending: {NoData} \cup {<<some>> : some \in Data},
                      pendingVersion: Versions,
                      saving: BOOLEAN, request: 0..MaxSaves]
  <2> HIDE DEF data
  <2>1. QED
    BY <1>1, <1>2, <1>3 DEF TypeOK
<1>5. TypeOK'
  BY <1>1, <1>4 DEF TypeOK
<1>6. (Versioned /\ Asked /\ Checked /\ Reporting)'
  BY <1>1, <1>4 DEF Versioned, Asked, Checked, Reporting, Newest
<1>7. ~misled => data = detail
  BY <1>1, <1>2 DEF Current
<1>8. (Current /\ Following)'
  BY <1>1, <1>4, <1>7 DEF Current, Following, Behind, Modified
<1>9. QED
  BY <1>5, <1>6, <1>8

LEMMA KeepMyEditsKeeps == EditorInv /\ KeepMyEdits => EditorInv'
<1> SUFFICES ASSUME EditorInv, KeepMyEdits
             PROVE  EditorInv'
  OBVIOUS
<1> USE DEF EditorInv
<1> DEFINE data  == editor.pending[1]
           dirty == {k \in DOMAIN editor.draft :
                       \/ k \notin DOMAIN editor.server
                       \/ editor.draft[k] # editor.server[k]}
           edits == [k \in dirty |-> editor.draft[k]]
<1>1. /\ UNCHANGED <<object, reports, reported, detail, save, used>>
      /\ misled' = (misled \/ editor.saving)
      /\ editor.pending # NoData
      /\ editor' = [[[[[editor EXCEPT !.pending = NoData]
                               EXCEPT !.pendingVersion = 0]
                               EXCEPT !.server = data]
                               EXCEPT !.draft = With(data, edits)]
                               EXCEPT !.version = editor.pendingVersion]
  BY DEF KeepMyEdits, Draws, Resolved
<1>2. data \in Data /\ editor.pending = <<data>>
  BY <1>1 DEF TypeOK
<1>3. 0 \in Versions
  BY DataAssumption DEF Versions
<1>4. \A k \in DOMAIN edits : edits[k] \in ValuesOf(k)
  BY DataIs DEF TypeOK
<1> HIDE DEF data, dirty, edits
<1>5. With(data, edits) \in Data
  BY <1>2, <1>4, WithIs
<1>6. /\ editor'.server = data
      /\ editor'.pending = NoData /\ editor'.pendingVersion = 0
      /\ editor'.saving = editor.saving /\ editor'.request = editor.request
      /\ editor' \in [server: Data, version: Versions, draft: Data,
                      pending: {NoData} \cup {<<some>> : some \in Data},
                      pendingVersion: Versions,
                      saving: BOOLEAN, request: 0..MaxSaves]
  BY <1>1, <1>2, <1>3, <1>5 DEF TypeOK
<1>7. TypeOK'
  BY <1>1, <1>6 DEF TypeOK
<1>8. (Versioned /\ Asked /\ Checked /\ Reporting)'
  BY <1>1, <1>6 DEF Versioned, Asked, Checked, Reporting, Newest
<1>9. ~misled => data = detail
  BY <1>1, <1>2 DEF Current
<1>10. ~misled' => ~misled /\ save.step = "none"
  BY <1>1 DEF TypeOK
<1>11. (Current /\ Following)'
  BY <1>1, <1>6, <1>9, <1>10 DEF Current, Following, Behind, Modified
<1>12. QED
  BY <1>7, <1>8, <1>11
-----------------------------------------------------------------------------
(* What the worker does.                                                   *)

LEMMA ReadObjectKeeps == EditorInv /\ ReadObject => EditorInv'
<1> SUFFICES ASSUME EditorInv, ReadObject
             PROVE  EditorInv'
  OBVIOUS
<1> USE DEF EditorInv
<1>1. /\ UNCHANGED <<object, reports, reported, detail, editor, used, misled>>
      /\ save.step = "sent"
      /\ save' = IF Valid THEN [[save EXCEPT !.step = "read"]
                                      EXCEPT !.read = object.version]
                 ELSE [save EXCEPT !.step = "failed"]
  BY DEF ReadObject, Works
<1>2. object.version \in Versions /\ object.version \in Nat
  BY DEF TypeOK, Objects, Versions
<1>3. /\ save' \in [step: {"none", "sent", "read", "saved", "failed"},
                    request: 0..MaxSaves, base: Data, updated: Data,
                    version: Versions, read: Versions]
      /\ save'.step \in {"read", "failed"}
      /\ save'.request = save.request
      /\ save'.base = save.base /\ save'.updated = save.updated
      /\ save'.step = "read" => Valid /\ save'.read = object.version
  BY <1>1, <1>2 DEF TypeOK
<1>4. TypeOK'
  BY <1>1, <1>3 DEF TypeOK
<1>5. Versioned'
  BY <1>1, <1>2, <1>3 DEF Versioned, TypeOK
<1>6. Asked' /\ Checked'
  BY <1>1, <1>2, <1>3 DEF Asked, Checked, Valid
<1>7. (Reporting /\ Current /\ Following)'
  BY <1>1, <1>3 DEF Reporting, Newest, Current, Following, Behind
<1>8. QED
  BY <1>4, <1>5, <1>6, <1>7

LEMMA ReplaceObjectKeeps == EditorInv /\ ReplaceObject => EditorInv'
<1> SUFFICES ASSUME EditorInv, ReplaceObject
             PROVE  EditorInv'
  OBVIOUS
<1> USE DEF EditorInv
<1>1. /\ UNCHANGED <<reports, reported, detail, editor, misled>>
      /\ save.step = "read"
      /\ \/ save' = [save EXCEPT !.step = "saved"]
         \/ save' = [save EXCEPT !.step = "failed"]
      /\ UNCHANGED used \/ Use("faults", MaxFaults)
      /\ \/ /\ object' = [data |-> With(object.data, save.updated),
                            version |-> object.version + 1]
         \/ /\ UNCHANGED object
            /\ save' = [save EXCEPT !.step = "failed"]
  BY DEF ReplaceObject, Works
<1>2. /\ used' \in [edits: 0..MaxEdits, saves: 0..MaxSaves,
                    writes: 0..MaxWrites, faults: 0..MaxFaults]
      /\ used'.saves = used.saves /\ used'.writes = used.writes
  <2>1. CASE UNCHANGED used
    BY <2>1 DEF TypeOK
  <2>2. CASE Use("faults", MaxFaults)
    BY <2>2, UseIs, DataAssumption
  <2>3. QED
    BY <1>1, <2>1, <2>2
<1>3. /\ save' \in [step: {"none", "sent", "read", "saved", "failed"},
                    request: 0..MaxSaves, base: Data, updated: Data,
                    version: Versions, read: Versions]
      /\ save'.step \in {"saved", "failed"}
      /\ save'.request = save.request
      /\ save'.base = save.base /\ save'.updated = save.updated
  BY <1>1 DEF TypeOK
<1>4. /\ object.version \in Nat /\ object.version >= 1
      /\ used.saves \in 0..MaxSaves /\ used.writes \in 0..MaxWrites
      /\ MaxSaves \in Nat /\ MaxWrites \in Nat
      /\ object.version + 1 <= 1 + used.writes + used.saves
  BY <1>1, DataAssumption DEF TypeOK, Objects, Versions, Versioned
<1>5. object.version + 1 \in Versions
  BY <1>4 DEF Versions
<1>6. object' \in Objects
  BY WithIs, DataIs, <1>1, <1>5 DEF TypeOK, Objects
<1>7. /\ object'.version \in {object.version, object.version + 1}
      /\ object'.version = object.version =>
           object' = object /\ save'.step = "failed"
  BY <1>1, <1>3, <1>4 DEF TypeOK, Objects
<1>8. TypeOK'
  BY <1>1, <1>2, <1>3, <1>6 DEF TypeOK
<1>9. Versioned'
  BY <1>1, <1>2, <1>3, <1>4, <1>7 DEF Versioned
<1>10. Asked' /\ Checked'
  BY <1>1, <1>3 DEF Asked, Checked
<1>11. reported \in Nat /\ reported <= object.version
  BY DEF TypeOK, Versions, Reporting
<1>12. (Reporting /\ Current /\ Following)'
  BY <1>1, <1>3, <1>4, <1>7, <1>11
     DEF Reporting, Newest, Current, Following, Behind, Modified
<1>13. QED
  BY <1>8, <1>9, <1>10, <1>12

LEMMA RequestFailsKeeps == EditorInv /\ RequestFails => EditorInv'
<1> SUFFICES ASSUME EditorInv, RequestFails
             PROVE  EditorInv'
  OBVIOUS
<1> USE DEF EditorInv
<1>1. /\ UNCHANGED <<object, reports, reported, detail, editor, misled>>
      /\ save.step \in {"sent", "read"}
      /\ save' = [save EXCEPT !.step = "failed"]
      /\ Use("faults", MaxFaults)
  BY DEF RequestFails, Works
<1>2. /\ used' \in [edits: 0..MaxEdits, saves: 0..MaxSaves,
                    writes: 0..MaxWrites, faults: 0..MaxFaults]
      /\ used'.saves = used.saves /\ used'.writes = used.writes
  BY <1>1, UseIs, DataAssumption
<1>3. /\ save' \in [step: {"none", "sent", "read", "saved", "failed"},
                    request: 0..MaxSaves, base: Data, updated: Data,
                    version: Versions, read: Versions]
      /\ save'.step = "failed"
      /\ save'.request = save.request
      /\ save'.base = save.base /\ save'.updated = save.updated
  BY <1>1 DEF TypeOK
<1>4. TypeOK'
  BY <1>1, <1>2, <1>3 DEF TypeOK
<1>5. Versioned'
  BY SMTT(30), <1>1, <1>2, <1>3 DEF Versioned, TypeOK, Objects, Versions
<1>6. (Asked /\ Checked /\ Reporting /\ Current /\ Following)'
  BY <1>1, <1>3
     DEF Asked, Checked, Reporting, Newest, Current, Following, Behind
<1>7. QED
  BY <1>4, <1>5, <1>6

-----------------------------------------------------------------------------
(* The cluster and its reports.                                            *)

LEMMA OthersWriteKeeps == EditorInv /\ OthersWrite => EditorInv'
<1> SUFFICES ASSUME EditorInv, OthersWrite
             PROVE  EditorInv'
  OBVIOUS
<1> USE DEF EditorInv
<1>1. /\ UNCHANGED <<reports, reported, detail, editor, save, misled>>
      /\ Use("writes", MaxWrites)
  BY DEF OthersWrite
<1>2. PICK data \in Data :
        object' = [data |-> data, version |-> object.version + 1]
  BY DEF OthersWrite
<1>3. /\ used' \in [edits: 0..MaxEdits, saves: 0..MaxSaves,
                    writes: 0..MaxWrites, faults: 0..MaxFaults]
      /\ used.writes < MaxWrites
      /\ used'.saves = used.saves /\ used'.writes = used.writes + 1
  BY <1>1, UseIs, DataAssumption
<1>4. /\ object.version \in Nat /\ object.version >= 1
      /\ used.saves \in 0..MaxSaves /\ used.writes \in 0..MaxWrites
      /\ MaxSaves \in Nat /\ MaxWrites \in Nat
      /\ object.version <= 1 + used.writes + used.saves
  <2>1. /\ object.version \in Nat /\ object.version >= 1
        /\ used.saves \in 0..MaxSaves /\ used.writes \in 0..MaxWrites
        /\ MaxSaves \in Nat /\ MaxWrites \in Nat
    BY DataAssumption DEF TypeOK, Objects, Versions, Versioned
  <2>2. \/ object.version + 0 <= 1 + used.writes + used.saves
        \/ object.version + 1 <= 1 + used.writes + used.saves
    BY DEF Versioned
  <2>3. QED
    BY <2>1, <2>2
<1>5. object' \in Objects /\ object'.version = object.version + 1
  BY <1>2, <1>3, <1>4 DEF Objects, Versions
<1>6. TypeOK'
  BY <1>1, <1>3, <1>5 DEF TypeOK
<1>7. Versioned'
  BY <1>3, <1>4, <1>1, <1>5 DEF Versioned
<1>8. Asked' /\ Checked'
  <2>1. save.read \in Nat
    BY DEF TypeOK, Versions
  <2>2. QED
    BY <1>1, <1>4, <1>5, <2>1 DEF Asked, Checked
<1>9. reported \in Nat /\ reported <= object.version
  BY DEF TypeOK, Versions, Reporting
<1>10. (Reporting /\ Current /\ Following)'
  BY <1>1, <1>4, <1>5, <1>9
     DEF Reporting, Newest, Current, Following, Behind
<1>11. QED
  BY <1>6, <1>7, <1>8, <1>10

LEMMA ReportKeeps == EditorInv /\ Report => EditorInv'
<1> SUFFICES ASSUME EditorInv, Report
             PROVE  EditorInv'
  OBVIOUS
<1> USE DEF EditorInv
<1>1. /\ UNCHANGED <<object, detail, editor, save, used, misled>>
      /\ reported' = object.version
      /\ reports' = Append(reports, object)
  BY DEF Report
<1>2. /\ reports \in Seq(Objects) /\ object \in Objects
      /\ object.version \in Nat
  BY DEF TypeOK, Objects, Versions
<1>3. /\ reports' \in Seq(Objects) /\ reports' # <<>>
      /\ Len(reports') = Len(reports) + 1
      /\ reports'[Len(reports')] = object
      /\ \A r \in DOMAIN reports' : r \in DOMAIN reports \/ reports'[r] = object
      /\ \A r \in DOMAIN reports : reports'[r] = reports[r]
  BY <1>1, <1>2
<1>4. TypeOK'
  BY <1>1, <1>2, <1>3 DEF TypeOK, Objects
<1>5. Versioned'
  BY <1>1, <1>3 DEF Versioned
<1>6. (Asked /\ Checked /\ Reporting /\ Current /\ Following)'
  BY <1>1, <1>2, <1>3
     DEF Asked, Checked, Reporting, Newest, Current, Following, Behind
<1>7. QED
  BY <1>4, <1>5, <1>6

-----------------------------------------------------------------------------
(* What the user interface applies.                                        *)

(* A report shows its data, or asks about it; or it does neither, and says *)
(* what the editor has while it shows a conflict or saves.                 *)
LEMMA AcceptsIs ==
  ASSUME TypeOK, NEW report \in Objects, report.version >= 1
  PROVE  LET new == Accepts(report) IN
         /\ new \in [server: Data, version: Versions, draft: Data,
                     pending: {NoData} \cup {<<data>> : data \in Data},
                     pendingVersion: Versions,
                     saving: BOOLEAN, request: 0..MaxSaves]
         /\ new.pending = NoData <=> new.pendingVersion = 0
         /\ new.saving = editor.saving /\ new.request = editor.request
         /\ \/ /\ ~Modified
               /\ new.pending = NoData
               /\ new.server = report.data /\ new.draft = report.data
            \/ new.pending = <<report.data>>
            \/ /\ Modified /\ report.data = editor.server
               /\ new.pending = editor.pending
               /\ new.server = report.data /\ new.draft = editor.draft
<1> DEFINE new == Accepts(report)
<1>1. /\ report.data \in Data /\ report.version \in Versions
      /\ report.version # 0 /\ 0 \in Versions
  BY DataAssumption DEF Objects, Versions
<1>2. CASE ~Modified
  <2>1. new = [[[[[editor EXCEPT !.pending = NoData]
                         EXCEPT !.pendingVersion = 0]
                         EXCEPT !.server = report.data]
                         EXCEPT !.draft = report.data]
                         EXCEPT !.version = report.version]
    BY <1>2 DEF Accepts, Resolved
  <2> HIDE DEF new
  <2>2. /\ new \in [server: Data, version: Versions, draft: Data,
                    pending: {NoData} \cup {<<data>> : data \in Data},
                    pendingVersion: Versions,
                    saving: BOOLEAN, request: 0..MaxSaves]
        /\ new.pending = NoData /\ new.pendingVersion = 0
        /\ new.saving = editor.saving /\ new.request = editor.request
        /\ new.server = report.data /\ new.draft = report.data
    BY <1>1, <2>1 DEF TypeOK
  <2>3. QED
    BY <1>2, <2>2 DEF new
<1>3. CASE Modified /\ editor.server # report.data
  <2>1. new = [[editor EXCEPT !.pending = <<report.data>>]
                       EXCEPT !.pendingVersion = report.version]
    BY <1>3 DEF Accepts
  <2> HIDE DEF new
  <2>2. /\ new \in [server: Data, version: Versions, draft: Data,
                    pending: {NoData} \cup {<<data>> : data \in Data},
                    pendingVersion: Versions,
                    saving: BOOLEAN, request: 0..MaxSaves]
        /\ new.pending = <<report.data>>
        /\ new.pendingVersion = report.version
        /\ new.saving = editor.saving /\ new.request = editor.request
    BY <1>1, <2>1 DEF TypeOK
  <2>3. <<report.data>> # NoData
    BY DEF NoData
  <2>4. QED
    BY <1>1, <2>2, <2>3 DEF new
<1>4. CASE Modified /\ editor.server = report.data
  <2>1. new = [editor EXCEPT !.version = report.version]
    BY <1>4 DEF Accepts
  <2> HIDE DEF new
  <2>2. /\ new \in [server: Data, version: Versions, draft: Data,
                    pending: {NoData} \cup {<<data>> : data \in Data},
                    pendingVersion: Versions,
                    saving: BOOLEAN, request: 0..MaxSaves]
        /\ new.pending = editor.pending
        /\ new.pendingVersion = editor.pendingVersion
        /\ new.saving = editor.saving /\ new.request = editor.request
        /\ new.server = editor.server /\ new.draft = editor.draft
    BY <1>1, <2>1 DEF TypeOK
  <2>3. QED
    BY <1>4, <2>2 DEF new, TypeOK
<1>5. QED
  BY <1>2, <1>3, <1>4

LEMMA ApplyReportKeeps == EditorInv /\ ApplyReport => EditorInv'
<1> SUFFICES ASSUME EditorInv, ApplyReport
             PROVE  EditorInv'
  OBVIOUS
<1> USE DEF EditorInv
<1> DEFINE report == Head(reports)
<1>1. /\ UNCHANGED <<object, reported, save, used>>
      /\ reports # <<>>
      /\ reports' = Tail(reports)
      /\ detail' = report.data
      /\ editor' = Accepts(report)
      /\ misled' = (/\ Modified
                    /\ (editor.pending # NoData \/ editor.saving)
                    /\ report.data = editor.server)
  BY DEF ApplyReport
<1>2. /\ reports \in Seq(Objects) /\ Len(reports) \in Nat \ {0}
      /\ report = reports[1] /\ 1 \in DOMAIN reports
      /\ report \in Objects
  BY <1>1 DEF TypeOK
<1>3. /\ reports' \in Seq(Objects)
      /\ Len(reports') = Len(reports) - 1
      /\ DOMAIN reports' = 1..(Len(reports) - 1)
      /\ \A r \in 1..(Len(reports) - 1) : reports'[r] = reports[r + 1]
  BY <1>1, <1>2
<1>4. \A r \in DOMAIN reports' : reports'[r] = reports[r + 1] /\ r + 1 \in DOMAIN reports
  BY <1>2, <1>3
<1>5. report.version >= 1 /\ report.data \in Data
  BY <1>2 DEF Versioned, Objects
<1> HIDE DEF report
<1>6. /\ editor' \in [server: Data, version: Versions, draft: Data,
                      pending: {NoData} \cup {<<data>> : data \in Data},
                      pendingVersion: Versions,
                      saving: BOOLEAN, request: 0..MaxSaves]
      /\ editor'.pending = NoData <=> editor'.pendingVersion = 0
      /\ editor'.saving = editor.saving /\ editor'.request = editor.request
      /\ \/ /\ ~Modified
            /\ editor'.pending = NoData
            /\ editor'.server = report.data /\ editor'.draft = report.data
         \/ editor'.pending = <<report.data>>
         \/ /\ Modified /\ report.data = editor.server
            /\ editor'.pending = editor.pending
            /\ editor'.server = report.data /\ editor'.draft = editor.draft
  BY <1>1, <1>2, <1>5, AcceptsIs
<1>7. misled' \in BOOLEAN
  BY <1>1
<1>8. TypeOK'
  BY <1>1, <1>3, <1>5, <1>6, <1>7 DEF TypeOK
<1>9. Versioned'
  BY <1>1, <1>4 DEF Versioned
<1>10. Asked' /\ Checked'
  BY <1>1, <1>6 DEF Asked, Checked
<1>11. Reporting'
  <2>1. CASE Len(reports) = 1
    BY <1>3, <2>1, <1>1, <1>2 DEF Reporting, Newest
  <2>2. CASE Len(reports) # 1
    <3>1. Newest' = Newest
      BY <1>2, <1>3, <2>2 DEF Newest
    <3> QED
      BY <1>1, <3>1 DEF Reporting
  <2>3. QED
    BY <2>1, <2>2
<1>12. /\ save.step = "saved" => editor.saving
  BY DEF TypeOK
<1>13. (Current /\ Following)'
  BY <1>1, <1>6, <1>12 DEF Current, Following, Modified
<1>14. QED
  BY <1>8, <1>9, <1>10, <1>11, <1>13
(* The answer to a save that was made writes what the editor believes was  *)
(* saved, or removes the conflict that is the same, or leaves the conflict.*)
LEMMA SavedIs ==
  ASSUME TypeOK
  PROVE  LET data == With(editor.server, Updated) IN
         /\ data \in Data
         /\ ~Modified => data = editor.server
         /\ Saved \in [server: Data, version: Versions, draft: Data,
                       pending: {NoData} \cup {<<some>> : some \in Data},
                       pendingVersion: Versions,
                       saving: BOOLEAN, request: 0..MaxSaves]
         /\ Saved.pending = NoData <=> Saved.pendingVersion = 0
         /\ Saved.saving = FALSE /\ Saved.request = 0
         /\ \/ /\ editor.pending = NoData
               /\ Saved.pending = NoData /\ Saved.server = data
            \/ /\ editor.pending = <<data>>
               /\ Saved.pending = NoData /\ Saved.server = data
            \/ /\ editor.pending # NoData
               /\ Saved.pending = editor.pending
<1> DEFINE data == With(editor.server, Updated)
           done == [[editor EXCEPT !.saving = FALSE] EXCEPT !.request = 0]
<1>1. editor.server \in Data /\ editor.draft \in Data
  BY DEF TypeOK
<1>2. data \in Data
  BY <1>1, UpdatedIs, WithIs
<1>3. ~Modified => data = editor.server
  <2> SUFFICES ASSUME ~Modified
               PROVE  data = editor.server
    OBVIOUS
  <2>1. Changed = {}
    BY DEF Modified, Changed
  <2>2. DOMAIN Updated = {}
    BY <1>1, <2>1, UpdatedIs
  <2>3. QED
    BY <1>1, <2>2, WithNothing
<1>4. /\ Saved = CASE editor.pending = NoData -> [done EXCEPT !.server = data]
                   [] editor.pending # NoData /\ editor.pending = <<data>> ->
                        [[[[done EXCEPT !.server = data]
                                EXCEPT !.version = editor.pendingVersion]
                                EXCEPT !.pending = NoData]
                                EXCEPT !.pendingVersion = 0]
                   [] editor.pending # NoData /\ editor.pending # <<data>> ->
                        done
  BY DEF Saved
<1> HIDE DEF data
<1>5. /\ done \in [server: Data, version: Versions, draft: Data,
                   pending: {NoData} \cup {<<some>> : some \in Data},
                   pendingVersion: Versions,
                   saving: BOOLEAN, request: 0..MaxSaves]
      /\ done.saving = FALSE /\ done.request = 0
      /\ done.server = editor.server /\ done.draft = editor.draft
      /\ done.pending = editor.pending
      /\ done.pendingVersion = editor.pendingVersion
      /\ done.version = editor.version
  <2>1. 0 \in 0..MaxSaves
    BY DataAssumption
  <2>2. QED
    BY <2>1 DEF TypeOK
<1> HIDE DEF done
<1>6. 0 \in Versions /\ editor.pendingVersion \in Versions
  BY SMTT(30), DataAssumption DEF TypeOK, Versions
<1>7. /\ editor.pending = NoData <=> editor.pendingVersion = 0
  BY DEF TypeOK
<1>8. CASE editor.pending = NoData
  BY <1>4, <1>8, <1>2, <1>3, <1>5, <1>7 DEF data
<1>9. CASE editor.pending # NoData /\ editor.pending = <<data>>
  BY <1>4, <1>9, <1>2, <1>5, <1>6, <1>3 DEF data
<1>10. CASE editor.pending # NoData /\ editor.pending # <<data>>
  BY <1>4, <1>10, <1>2, <1>3, <1>5, <1>7 DEF data
<1>11. QED
  BY <1>8, <1>9, <1>10

LEMMA ApplyAnswerKeeps == EditorInv /\ ApplyAnswer => EditorInv'
<1> SUFFICES ASSUME EditorInv, ApplyAnswer
             PROVE  EditorInv'
  OBVIOUS
<1> USE DEF EditorInv
<1>1. /\ UNCHANGED <<object, reports, reported, detail, used, misled>>
      /\ save.step \in {"saved", "failed"}
      /\ save' = NoSave
      /\ editor' = IF editor.request # save.request THEN editor
                   ELSE IF save.step = "saved" THEN Saved
                   ELSE [[editor EXCEPT !.saving = FALSE] EXCEPT !.request = 0]
  BY DEF ApplyAnswer
<1>2. save.request = editor.request
  BY <1>1 DEF Asked
<1>3. /\ save' \in [step: {"none", "sent", "read", "saved", "failed"},
                    request: 0..MaxSaves, base: Data, updated: Data,
                    version: Versions, read: Versions]
      /\ save'.step = "none"
  BY <1>1, NothingIsData, DataAssumption DEF NoSave, Versions
<1>4. /\ editor' \in [server: Data, version: Versions, draft: Data,
                      pending: {NoData} \cup {<<data>> : data \in Data},
                      pendingVersion: Versions,
                      saving: BOOLEAN, request: 0..MaxSaves]
      /\ editor'.pending = NoData <=> editor'.pendingVersion = 0
      /\ editor'.saving = FALSE /\ editor'.request = 0
      /\ editor'.pending \in {NoData, editor.pending}
      /\ \/ editor'.server = editor.server /\ editor'.pending = editor.pending
         \/ editor'.pending = editor.pending /\ editor.pending # NoData
         \/ /\ save.step = "saved" /\ editor.pending \in {NoData, <<editor'.server>>}
            /\ editor'.pending = NoData
            /\ ~Modified => editor'.server = editor.server
  <2>1. CASE save.step = "saved"
    BY <1>1, <1>2, <2>1, SavedIs
  <2>2. CASE save.step = "failed"
    <3>1. editor' = [[editor EXCEPT !.saving = FALSE] EXCEPT !.request = 0]
      BY <1>1, <1>2, <2>2
    <3>2. 0 \in 0..MaxSaves
      BY DataAssumption
    <3>3. /\ editor' \in [server: Data, version: Versions, draft: Data,
                          pending: {NoData} \cup {<<data>> : data \in Data},
                          pendingVersion: Versions,
                          saving: BOOLEAN, request: 0..MaxSaves]
          /\ editor'.saving = FALSE /\ editor'.request = 0
          /\ editor'.server = editor.server
          /\ editor'.pending = editor.pending
          /\ editor'.pendingVersion = editor.pendingVersion
      BY <3>1, <3>2 DEF TypeOK
    <3>4. editor.pending = NoData <=> editor.pendingVersion = 0
      BY DEF TypeOK
    <3>5. QED
      BY <3>3, <3>4
  <2>3. QED
    BY <1>1, <2>1, <2>2
<1>5. TypeOK'
  BY <1>1, <1>3, <1>4 DEF TypeOK
<1>6. Versioned'
  BY <1>1, <1>3 DEF Versioned
<1>7. (Asked /\ Checked /\ Reporting)'
  BY <1>1, <1>3 DEF Asked, Checked, Reporting, Newest
<1>8. Current'
  BY <1>1, <1>4 DEF Current
<1>9. Following'
  <2> SUFFICES ASSUME ~misled, ~Behind
               PROVE  editor'.server = detail \/ editor'.pending = <<detail>>
    BY <1>1, <1>3 DEF Following, Behind
  <2>1. /\ editor.server = detail \/ editor.pending = <<detail>>
        /\ save.step = "saved" => ~Modified \/ editor.pending = <<detail>>
        /\ editor.pending \in {NoData, <<detail>>}
    BY DEF Following, Current
  <2>2. <<detail>> # NoData
    BY DEF NoData
  <2>3. CASE editor'.server = editor.server /\ editor'.pending = editor.pending
    BY <2>1, <2>3
  <2>4. CASE editor'.pending = editor.pending /\ editor.pending # NoData
    BY <2>1, <2>4
  <2>5. CASE /\ save.step = "saved" /\ editor.pending = <<editor'.server>>
    BY <2>1, <2>5 DEF NoData
  <2>6. CASE /\ save.step = "saved" /\ editor.pending = NoData
             /\ ~Modified => editor'.server = editor.server
    BY <2>1, <2>2, <2>6
  <2>7. QED
    BY <1>4, <2>3, <2>4, <2>5, <2>6
<1>10. QED
  BY <1>5, <1>6, <1>7, <1>8, <1>9

LEMMA StutterKeeps == EditorInv /\ UNCHANGED vars => EditorInv'
  BY DEF EditorInv, vars, TypeOK, Versioned, Asked, Checked, Reporting, Newest,
         Current, Following, Behind, Modified

THEOREM EditorInvariant == Spec => []EditorInv
<1>1. EditorInv /\ [Next]_vars => EditorInv'
  BY EditKeeps, SaveKeeps, UseClusterVersionKeeps, KeepMyEditsKeeps,
     ReadObjectKeeps, ReplaceObjectKeeps, RequestFailsKeeps, OthersWriteKeeps,
     ReportKeeps, ApplyReportKeeps, ApplyAnswerKeeps, StutterKeeps
     DEF Next, User, WorkerStep
<1>2. QED
  BY InitEditor, <1>1, PTL DEF Spec

-----------------------------------------------------------------------------
(* The theorems.                                                           *)

(* Every variable has its type: the data of the editor, the conflict and   *)
(* the save are data of the keys, and an editor saves exactly as long as   *)
(* its request is under way.                                               *)
THEOREM EditorTypeCorrect == Spec => []TypeOK
<1>1. EditorInv => TypeOK
  BY DEF EditorInv
<1>2. QED
  BY EditorInvariant, <1>1, PTL

(* update_resource_data replaces values that the user saw, and no other:   *)
(* what somebody else wrote between the read and the replacement stays.    *)
THEOREM SavesKeepOthers == Spec => SavesOverwriteNothing
<1>1. ASSUME EditorInv, ReplaceObject,
             NEW k \in Keys, Value(object'.data, k) # Value(object.data, k)
      PROVE  /\ k \in DOMAIN save.updated
             /\ Value(object.data, k) = Value(save.base, k)
  <2>1. /\ save.step = "read"
        /\ object' # object =>
             /\ object.version = save.read
             /\ object' = [data |-> With(object.data, save.updated),
                           version |-> object.version + 1]
    BY <1>1 DEF ReplaceObject, Works
  <2>2. object'.data = With(object.data, save.updated) /\ object.version = save.read
    BY <1>1, <2>1
  <2>3. object.data \in Data /\ save.updated \in Data
    BY <1>1 DEF EditorInv, TypeOK, Objects
  <2>4. /\ DOMAIN object'.data = DOMAIN object.data
        /\ \A j \in DOMAIN object.data \ DOMAIN save.updated :
             object'.data[j] = object.data[j]
    BY <2>2, <2>3, WithIs, DataIs
  <2>5. k \in DOMAIN object.data /\ k \in DOMAIN save.updated
    BY <1>1, <2>4 DEF Value
  <2>6. object.data[k] = save.base[k] /\ k \in DOMAIN save.base
    BY <1>1, <2>1, <2>2, <2>5 DEF EditorInv, Checked, Asked
  <2>7. QED
    BY <2>5, <2>6 DEF Value
<1>2. EditorInv /\ [Next]_vars =>
        [ReplaceObject =>
           \A k \in Keys : Value(object'.data, k) # Value(object.data, k) =>
             /\ k \in DOMAIN save.updated
             /\ Value(object.data, k) = Value(save.base, k)]_vars
  BY <1>1
<1>3. QED
  BY EditorInvariant, <1>2, PTL DEF Spec, SavesOverwriteNothing

(* When every report and answer has arrived, the editor has the data of    *)
(* the cluster or asks about the conflict with it, unless it was misled.   *)
THEOREM FollowsCluster == Spec => []EditorFollows
<1>1. EditorInv => EditorFollows
  <2> SUFFICES ASSUME EditorInv, AtRest, ~misled
               PROVE  editor.server = object.data \/ editor.pending = <<object.data>>
    BY DEF EditorFollows
  <2>1. ~Behind /\ detail = object.data
    BY DEF EditorInv, AtRest, Behind, Reporting, Newest
  <2>2. QED
    BY <2>1 DEF EditorInv, Following
<1>2. QED
  BY EditorInvariant, <1>1, PTL

-----------------------------------------------------------------------------
(* The YAML editor.  Bounds are used up, and what is not done yet of the   *)
(* applies has been paid for.                                              *)

Editors ==
  [id : Nat, base : Yaml!Objects, text : Yaml!Texts, loading : BOOLEAN, saving : BOOLEAN,
   schema : BOOLEAN, schemaLoading : BOOLEAN,
   validation : {"idle", "pending", "valid", "failed"}, revision : Nat,
   due : BOOLEAN, diagnostics : BOOLEAN, checked : Yaml!Texts]

EditorTasks ==
  [kind : {"fetch", "schema", "validate", "apply"}, id : Nat, revision : Nat,
   text : Yaml!Texts, base : Yaml!Objects, step : {"sent", "read", "done"}, read : Nat,
   result : Yaml!Objects, early : BOOLEAN]

Documents ==
  /\ document \in Yaml!Objects /\ document.spec \in Specs
  /\ document.uid # 0 /\ document.version # 0
  /\ yaml \in Editors
  /\ \A t \in tasks : t \in EditorTasks /\ t.id \in 1..yamlUsed.opens
  /\ schemas \in BOOLEAN
  /\ yamlUsed \in [opens : Nat, events : 0..MaxEvents]

Unfinished == {t \in tasks : t.kind = "apply" /\ t.step # "done"}

Room ==
  /\ IsFiniteSet(Unfinished)
  /\ document.version + Cardinality(Unfinished) <= 1 + yamlUsed.events
  /\ document.uid <= 1 + yamlUsed.events

(* What was read of the object is older than it, or is it still.           *)
Snapshot(o) ==
  o.version <= document.version /\ (o.version = document.version => o = document)

AboutToReplace(t) ==
  t.kind = "apply" /\ t.step = "read" =>
    /\ t.text \in Specs /\ t.read <= document.version
    /\ t.read = document.version =>
         document.uid = t.base.uid /\ document.spec = t.base.spec

Known(t) == Snapshot(t.base) /\ Snapshot(t.result) /\ AboutToReplace(t)

Snapshots == Snapshot(yaml.base) /\ \A t \in tasks : Known(t)

(* The tasks of the window that is open.                                   *)
Ours(kind) == {t \in tasks : t.kind = kind /\ t.id = yaml.id}

Paid ==
  (IF yaml.revision = 0 THEN 1 ELSE yaml.revision)
    + (IF yaml.saving THEN 1 ELSE 0)

Window ==
  /\ yaml.id <= yamlUsed.opens
  /\ yaml.id = 0 => /\ yaml.base = Yaml!NoObject /\ ~yaml.due /\ ~yaml.saving
                    /\ ~yaml.loading /\ yaml.validation = "idle"
                    /\ yaml.revision = 0
  /\ yaml.id # 0 => Paid <= yamlUsed.events
  /\ yaml.due => ~yaml.diagnostics /\ yaml.validation # "pending"
  /\ yaml.saving <=> Ours("apply") # {}
  /\ \A s, t \in Ours("apply") : s = t
  /\ yaml.loading <=> Ours("fetch") # {}
  /\ \A s, t \in Ours("fetch") : s = t
  /\ yaml.loading =>
       /\ yaml.base = Yaml!NoObject /\ yaml.validation \in {"idle", "failed"}
       /\ ~yaml.due /\ ~yaml.saving /\ Ours("validate") = {}

Validations ==
  /\ yaml.validation = "valid" => yaml.checked = yaml.text
  /\ \A t \in Ours("validate") : ~t.early =>
       /\ t.revision <= yaml.revision
       /\ t.revision = yaml.revision => t.text = yaml.text

YamlInv == Documents /\ Room /\ Snapshots /\ Window /\ Validations

-----------------------------------------------------------------------------
LEMMA YamlStart == Yaml!Init => YamlInv
<1> SUFFICES ASSUME Yaml!Init
             PROVE  YamlInv
  OBVIOUS
<1>1. /\ document = [uid |-> 1, version |-> 1, spec |-> FirstSpec]
      /\ schemas = FALSE /\ tasks = {}
      /\ yamlUsed = [opens |-> 0, events |-> 0]
      /\ yaml = Yaml!NoEditor
  BY DEF Yaml!Init
<1>2. Yaml!NoObject \in Yaml!Objects /\ document \in Yaml!Objects /\ FirstSpec \in Specs
  BY <1>1, YamlAssumption
     DEF Yaml!YamlAssumption, Yaml!NoObject, Yaml!Objects, Yaml!Uids, Yaml!Versions, Yaml!Texts
<1>3. /\ yaml \in Editors /\ yaml.id = 0 /\ yaml.base = Yaml!NoObject
      /\ ~yaml.due /\ ~yaml.saving /\ ~yaml.loading
      /\ yaml.validation = "idle" /\ yaml.revision = 0
  BY <1>1, <1>2 DEF Yaml!NoEditor, Yaml!NewEditor, Editors, Yaml!Texts
<1>4. Documents
  <2>1. document.spec \in Specs /\ document.uid # 0 /\ document.version # 0
    BY <1>1, <1>2
  <2>2. schemas \in BOOLEAN /\ \A t \in tasks : FALSE
    BY <1>1
  <2>3. yamlUsed \in [opens : Nat, events : 0..MaxEvents]
    BY <1>1, YamlAssumption DEF Yaml!YamlAssumption
  <2>4. QED
    BY <1>2, <1>3, <2>1, <2>2, <2>3 DEF Documents
<1>5. Room
  BY <1>1, FS_EmptySet DEF Unfinished, Room
<1>6. Snapshots
  BY <1>1, <1>3 DEF Snapshots, Snapshot, Yaml!NoObject
<1>7. Window /\ Validations
  BY <1>1, <1>3 DEF Ours, Window, Validations
<1>8. QED
  BY <1>4, <1>5, <1>6, <1>7 DEF YamlInv

-----------------------------------------------------------------------------
(* What several steps have in common.                                      *)

LEMMA YamlUseIs ==
  ASSUME Documents, NEW n \in Nat, Yaml!Use(n)
  PROVE  /\ yamlUsed' \in [opens : Nat, events : 0..MaxEvents]
         /\ yamlUsed'.events = yamlUsed.events + 1 /\ yamlUsed'.opens = yamlUsed.opens + n
         /\ yamlUsed.events < MaxEvents
  BY YamlAssumption DEF Documents, Yaml!Use, Yaml!YamlAssumption

LEMMA Numbers ==
  ASSUME Documents
  PROVE  /\ document.uid \in 1..(1 + MaxEvents) /\ document.version \in 1..(1 + MaxEvents)
         /\ yamlUsed.events \in 0..MaxEvents /\ yamlUsed.opens \in Nat /\ MaxEvents \in Nat
         /\ \A o \in Yaml!Objects : o.version \in Nat /\ o.spec \in Yaml!Texts
         /\ \A t \in tasks : t.id \in 1..yamlUsed.opens /\ t.id # 0 /\ t.id <= yamlUsed.opens
         /\ yaml.revision \in Nat /\ yaml.id \in Nat
  BY YamlAssumption
     DEF Documents, Yaml!Objects, Yaml!Uids, Yaml!Versions, Yaml!YamlAssumption, Editors

LEMMA StillKnown ==
  ASSUME Documents, document' = document \/ document'.version = document.version + 1
  PROVE  /\ \A o \in Yaml!Objects : Snapshot(o) => Snapshot(o)'
         /\ \A t \in EditorTasks : Known(t) => Known(t)'
<1>1. document.version \in Nat /\ \A o \in Yaml!Objects : o.version \in Nat
  BY Numbers
<1>2. \A o \in Yaml!Objects : Snapshot(o) => Snapshot(o)'
  BY <1>1 DEF Snapshot
<1>3. \A t \in EditorTasks :
        t.base \in Yaml!Objects /\ t.result \in Yaml!Objects /\ t.read \in Nat
  BY DEF EditorTasks
<1>4. \A t \in EditorTasks : AboutToReplace(t) => AboutToReplace(t)'
  BY <1>1, <1>3 DEF AboutToReplace
<1>5. QED
  BY <1>2, <1>3, <1>4 DEF Known

LEMMA RoomStays ==
  ASSUME Documents, Room, document' = document, yamlUsed' \in [opens : Nat, events : 0..MaxEvents],
         yamlUsed.events <= yamlUsed'.events, Unfinished' \subseteq Unfinished
  PROVE  Room'
<1>1. IsFiniteSet(Unfinished')
      /\ Cardinality(Unfinished') <= Cardinality(Unfinished)
  BY FS_Subset DEF Room
<1>2. Cardinality(Unfinished') \in Nat /\ Cardinality(Unfinished) \in Nat
  BY <1>1, FS_CardinalityType DEF Room
<1>3. QED
  BY <1>1, <1>2, Numbers DEF Room

(* A task is sent, goes on, or is left out.                                *)
LEMMA SentIs ==
  ASSUME yaml'.id = yaml.id, NEW x, tasks' = tasks \cup {x}
  PROVE  /\ \A k : x.kind # k => Ours(k)' = Ours(k)
         /\ x.id = yaml.id => Ours(x.kind)' = Ours(x.kind) \cup {x}
         /\ x.kind # "apply" => Unfinished' = Unfinished
         /\ x.kind = "apply" /\ x.step # "done" =>
              Unfinished' = Unfinished \cup {x}
  BY DEF Ours, Unfinished

LEMMA BecomesIs ==
  ASSUME yaml' = yaml, NEW t \in tasks, NEW done,
         tasks' = (tasks \ {t}) \cup {done},
         done.kind = t.kind, done.id = t.id, done.revision = t.revision,
         done.text = t.text, done.early = t.early,
         Window, Validations
  PROVE  /\ \A k \in {"apply", "fetch"} :
              (\A r, s \in Ours(k)' : r = s) /\ (Ours(k)' = {} <=> Ours(k) = {})
         /\ Ours("validate")' = {} <=> Ours("validate") = {}
         /\ Validations'
<1>1. \A k \in {"apply", "fetch"} : \A r, s \in Ours(k) : r = s
  BY DEF Window
<1>2. \A k : /\ t \in Ours(k) => Ours(k)' = (Ours(k) \ {t}) \cup {done}
             /\ t \notin Ours(k) => Ours(k)' = Ours(k)
  BY DEF Ours
<1>3. \A k \in {"apply", "fetch"} : t \in Ours(k) => Ours(k)' = {done}
  <2> SUFFICES ASSUME NEW k \in {"apply", "fetch"}, t \in Ours(k)
               PROVE  Ours(k)' = {done}
    OBVIOUS
  <2>1. Ours(k) \ {t} = {}
    BY <1>1
  <2>2. QED
    BY <1>2, <2>1
<1>4. \A r \in Ours("validate")' : \E s \in Ours("validate") :
        r.revision = s.revision /\ r.text = s.text /\ r.early = s.early
  BY <1>2
<1>5. Validations'
  BY <1>4 DEF Validations
<1>6. \A k : Ours(k)' = {} <=> Ours(k) = {}
  BY <1>2
<1>7. \A k \in {"apply", "fetch"} : \A r, s \in Ours(k)' : r = s
  BY <1>1, <1>2, <1>3
<1>8. QED
  BY <1>5, <1>6, <1>7

LEMMA GoneIs ==
  ASSUME yaml'.id = yaml.id, NEW t \in tasks, tasks' = tasks \ {t}
  PROVE  /\ \A k : t.kind # k \/ t.id # yaml.id => Ours(k)' = Ours(k)
         /\ t.id = yaml.id => Ours(t.kind)' = Ours(t.kind) \ {t}
         /\ Unfinished' \subseteq Unfinished
  BY DEF Ours, Unfinished

-----------------------------------------------------------------------------
(* The window: its frames, and the texts typed.                            *)

LEMMA RefreshIs ==
  ASSUME NEW e \in Editors
  PROVE  /\ Yaml!Refresh(e) \in Editors
         /\ Yaml!Refresh(e).id = e.id /\ Yaml!Refresh(e).base = e.base
         /\ Yaml!Refresh(e).saving = e.saving /\ Yaml!Refresh(e).loading = e.loading
         /\ Yaml!Refresh(e).text = e.text
         /\ Yaml!Refresh(e).revision = e.revision + 1 /\ Yaml!Refresh(e).validation = "idle"
         /\ Yaml!Refresh(e).due => ~Yaml!Refresh(e).diagnostics
<1>1. Yaml!LocallyValid(e) \in BOOLEAN /\ (~Yaml!LocallyValid(e)) \in BOOLEAN
  BY DEF Yaml!LocallyValid
<1>2. \E v, w \in BOOLEAN :
        /\ v => ~w
        /\ Yaml!Refresh(e) = [[[[e EXCEPT !.revision = e.revision + 1]
                              EXCEPT !.validation = "idle"]
                              EXCEPT !.due = v] EXCEPT !.diagnostics = w]
  BY <1>1, ZenonT(30) DEF Yaml!Refresh
<1>3. PICK v, w \in BOOLEAN :
        /\ v => ~w
        /\ Yaml!Refresh(e) = [[[[e EXCEPT !.revision = e.revision + 1]
                              EXCEPT !.validation = "idle"]
                              EXCEPT !.due = v] EXCEPT !.diagnostics = w]
  BY <1>2
<1>4. PICK f : f = [[e EXCEPT !.revision = e.revision + 1] EXCEPT !.validation = "idle"]
  OBVIOUS
<1>0. PICK next \in Nat : next = e.revision + 1
  BY DEF Editors
<1>5. /\ f \in Editors /\ f.id = e.id /\ f.base = e.base
      /\ f.saving = e.saving /\ f.loading = e.loading /\ f.text = e.text
      /\ f.revision = next /\ f.validation = "idle"
  BY <1>0, <1>4 DEF Editors
<1>6. Yaml!Refresh(e) = [[f EXCEPT !.due = v] EXCEPT !.diagnostics = w]
  BY <1>3, <1>4
<1>7. QED
  BY <1>0, <1>3, <1>5, <1>6 DEF Editors

(* The text is checked anew: the answers under way are of before.          *)
LEMMA RefreshKeeps ==
  ASSUME YamlInv, NEW text \in Yaml!Texts,
         UNCHANGED <<document, schemas, tasks>>,
         yaml.id # 0, ~yaml.loading,
         yaml' = Yaml!Refresh([yaml EXCEPT !.text = text]),
         yamlUsed' \in [opens : Nat, events : 0..MaxEvents],
         yamlUsed'.opens = yamlUsed.opens, yamlUsed'.events \in {yamlUsed.events, yamlUsed.events + 1},
         yamlUsed'.events = yamlUsed.events => yaml.revision = 0
  PROVE  YamlInv'
<1> USE DEF YamlInv
<1>1. /\ yaml' \in Editors
      /\ yaml'.id = yaml.id /\ yaml'.base = yaml.base
      /\ yaml'.saving = yaml.saving /\ ~yaml'.loading
      /\ yaml'.revision = yaml.revision + 1 /\ yaml'.validation = "idle"
      /\ yaml'.due => ~yaml'.diagnostics
      /\ yaml.revision \in Nat
  <2> DEFINE e == [yaml EXCEPT !.text = text]
  <2>1. /\ e \in Editors /\ e.id = yaml.id /\ e.base = yaml.base
        /\ e.saving = yaml.saving /\ e.loading = yaml.loading
        /\ e.revision = yaml.revision /\ e.revision \in Nat
    BY DEF Editors, Documents
  <2> HIDE DEF e
  <2>2. yaml' = Yaml!Refresh(e)
    BY DEF e
  <2>3. QED
    BY <2>1, <2>2, RefreshIs
<1>2. \A k : Ours(k)' = Ours(k)
  BY <1>1 DEF Ours
<1>3. Unfinished' = Unfinished
  BY DEF Unfinished
<1>4. yamlUsed.events \in Nat
  BY Numbers
<1>5. Documents'
  BY <1>1 DEF Documents
<1>6. Room'
  BY <1>3, <1>4, RoomStays
<1>7. Snapshots'
  BY <1>1, StillKnown DEF Documents, Editors, Snapshots
<1>8. Window'
  BY <1>1, <1>4, <1>2 DEF Window, Paid
<1>9. Validations'
  BY <1>1, <1>2 DEF Documents, EditorTasks, Ours, Validations
<1>10. QED
  BY <1>5, <1>6, <1>7, <1>8, <1>9

LEMMA FirstFrameKeeps == YamlInv /\ Yaml!FirstFrame => YamlInv'
<1> SUFFICES ASSUME YamlInv, Yaml!FirstFrame
             PROVE  YamlInv'
  OBVIOUS
<1>1. /\ yaml' = Yaml!Refresh(yaml) /\ yaml.revision = 0
      /\ yaml.id # 0 /\ ~yaml.loading
      /\ UNCHANGED <<document, schemas, tasks, yamlUsed>>
      /\ yaml \in Editors /\ yaml.text \in Yaml!Texts
  BY DEF Yaml!FirstFrame, Yaml!Loaded, Yaml!IsOpen, Yaml!Unchecked, YamlInv, Documents, Editors
<1>2. yaml = [yaml EXCEPT !.text = yaml.text]
  BY <1>1 DEF Editors
<1>3. yamlUsed \in [opens : Nat, events : 0..MaxEvents]
  BY DEF YamlInv, Documents
<1>4. yamlUsed' \in [opens : Nat, events : 0..MaxEvents]
      /\ yamlUsed'.opens = yamlUsed.opens /\ yamlUsed'.events = yamlUsed.events
  BY <1>1, <1>3
<1>5. yaml' = Yaml!Refresh([yaml EXCEPT !.text = yaml.text])
  BY <1>1, <1>2
<1>6. QED
  BY <1>1, <1>4, <1>5, RefreshKeeps

LEMMA TypeKeeps == YamlInv /\ Yaml!Type => YamlInv'
<1> SUFFICES ASSUME YamlInv, Yaml!Type
             PROVE  YamlInv'
  OBVIOUS
<1>1. PICK text \in Yaml!Texts : yaml' = Yaml!Refresh([yaml EXCEPT !.text = text])
  BY DEF Yaml!Type
<1>2. /\ yamlUsed' \in [opens : Nat, events : 0..MaxEvents]
      /\ yamlUsed'.events = yamlUsed.events + 1 /\ yamlUsed'.opens = yamlUsed.opens
      /\ yamlUsed.events \in Nat
  BY YamlUseIs, Numbers DEF Yaml!Type, YamlInv
<1>3. /\ UNCHANGED <<document, schemas, tasks>>
      /\ yaml.id # 0 /\ ~yaml.loading
  BY DEF Yaml!Type, Yaml!Loaded, Yaml!IsOpen
<1>4. QED
  BY <1>1, <1>2, <1>3, RefreshKeeps

LEMMA OpenKeeps == YamlInv /\ Yaml!Open => YamlInv'
<1> SUFFICES ASSUME YamlInv, Yaml!Open
             PROVE  YamlInv'
  OBVIOUS
<1> USE DEF YamlInv
<1> DEFINE new   == yamlUsed.opens + 1
           fetch == [Yaml!Task("fetch", 0) EXCEPT !.id = new]
           asks  == [Yaml!Task("schema", 0) EXCEPT !.id = new]
<1>1. /\ UNCHANGED <<document, schemas>> /\ yaml' = Yaml!NewEditor
      /\ tasks' = tasks \cup {fetch} \cup (IF schemas THEN {} ELSE {asks})
      /\ yamlUsed' \in [opens : Nat, events : 0..MaxEvents]
      /\ yamlUsed'.events = yamlUsed.events + 1 /\ yamlUsed'.opens = new
      /\ yamlUsed.events \in Nat /\ yamlUsed.opens \in Nat /\ schemas \in BOOLEAN
  BY YamlUseIs, Numbers DEF Yaml!Open, Documents
<1>2. Yaml!NoObject \in Yaml!Objects /\ Empty \in Yaml!Texts
  BY YamlAssumption DEF Yaml!YamlAssumption, Yaml!NoObject, Yaml!Objects, Yaml!Uids, Yaml!Versions, Yaml!Texts
<1>3. /\ yaml' \in Editors /\ yaml'.id = new /\ yaml'.base = Yaml!NoObject
      /\ yaml'.loading /\ ~yaml'.saving /\ ~yaml'.due
      /\ yaml'.validation = "idle" /\ yaml'.revision = 0
  BY <1>1, <1>2 DEF Yaml!NewEditor, Editors
<1>4. yaml.text \in Yaml!Texts /\ yaml.base \in Yaml!Objects
  BY DEF Documents, Editors
<1>5. /\ fetch \in EditorTasks /\ fetch.id = new /\ fetch.kind = "fetch"
      /\ asks \in EditorTasks /\ asks.id = new /\ asks.kind = "schema"
      /\ fetch.base = yaml.base /\ fetch.result = Yaml!NoObject
      /\ asks.base = yaml.base /\ asks.result = Yaml!NoObject
  BY <1>1, <1>2, <1>4 DEF Yaml!Task, EditorTasks
<1> HIDE DEF new, fetch, asks
<1>6. new = yamlUsed.opens + 1
  BY DEF new
<1>7. Documents'
  BY <1>1, <1>3, <1>5, <1>6 DEF Documents
<1>8. Room'
  BY <1>1, <1>5, RoomStays DEF Unfinished
<1>9. Snapshot(Yaml!NoObject)
  BY Numbers DEF Snapshot, Yaml!NoObject
<1>10. Snapshots'
  <2>1. \A t \in tasks : Known(t)'
    BY <1>1, StillKnown DEF Documents, Snapshots
  <2>2. Snapshot(yaml.base)
    BY DEF Snapshots
  <2>3. \A o \in Yaml!Objects : Snapshot(o) => Snapshot(o)'
    BY <1>1, StillKnown
  <2>4. \A t \in {fetch, asks} : t.base \in Yaml!Objects /\ t.result \in Yaml!Objects
          /\ Snapshot(t.base) /\ Snapshot(t.result) /\ t.kind # "apply"
    BY <1>2, <1>4, <1>5, <1>9, <2>2
  <2>5. \A t \in {fetch, asks} : Known(t)'
    BY <2>3, <2>4 DEF Known, AboutToReplace
  <2>6. Snapshot(Yaml!NoObject)'
    BY <2>3, <1>2, <1>9
  <2>7. QED
    BY <1>1, <1>3, <2>1, <2>5, <2>6 DEF Snapshots, Snapshot
<1>11. \A t \in tasks : t.id # new
  BY <1>1, <1>6, Numbers
<1>12. Ours("fetch")' = {fetch} /\ Ours("apply")' = {} /\ Ours("validate")' = {}
  BY <1>1, <1>3, <1>5, <1>11 DEF Ours
<1>13. Window' /\ Validations'
  BY <1>1, <1>3, <1>6, <1>12 DEF Window, Validations, Paid
<1>14. QED
  BY <1>7, <1>8, <1>10, <1>13

LEMMA CloseKeeps == YamlInv /\ Yaml!Close => YamlInv'
<1> SUFFICES ASSUME YamlInv, Yaml!Close
             PROVE  YamlInv'
  OBVIOUS
<1> USE DEF YamlInv
<1>1. /\ UNCHANGED <<document, schemas, yamlUsed>> /\ yaml' = Yaml!NoEditor
      /\ tasks' = {t \in tasks : t.kind \in {"schema", "apply"}}
      /\ yamlUsed \in [opens : Nat, events : 0..MaxEvents] /\ schemas \in BOOLEAN
  BY DEF Yaml!Close, Documents
<1>2. Yaml!NoObject \in Yaml!Objects /\ Empty \in Yaml!Texts
  BY YamlAssumption DEF Yaml!YamlAssumption, Yaml!NoObject, Yaml!Objects, Yaml!Uids, Yaml!Versions, Yaml!Texts
<1>3. /\ yaml' \in Editors /\ yaml'.id = 0 /\ yaml'.base = Yaml!NoObject
      /\ ~yaml'.loading /\ ~yaml'.saving /\ ~yaml'.due
      /\ yaml'.validation = "idle" /\ yaml'.revision = 0
  BY <1>1, <1>2 DEF Yaml!NewEditor, Yaml!NoEditor, Editors
<1>4. Documents'
  BY <1>1, <1>3 DEF Documents
<1>5. Room'
  BY <1>1, Numbers, RoomStays DEF Unfinished
<1>6. Snapshots'
  BY <1>1, StillKnown, Numbers, <1>2, <1>3 DEF Documents, Snapshots, Snapshot,
     Yaml!NoObject
<1>7. \A k : Ours(k)' = {}
  BY <1>1, <1>3, Numbers DEF Ours
<1>8. Window' /\ Validations'
  BY <1>1, <1>3, <1>7, Numbers DEF Window, Validations
<1>9. QED
  BY <1>4, <1>5, <1>6, <1>8

LEMMA RequestValidationKeeps == YamlInv /\ Yaml!RequestValidation => YamlInv'
<1> SUFFICES ASSUME YamlInv, Yaml!RequestValidation
             PROVE  YamlInv'
  OBVIOUS
<1> USE DEF YamlInv
<1>0. PICK x : x = Yaml!Task("validate", yaml.revision)
  OBVIOUS
<1>1. /\ UNCHANGED <<document, schemas, yamlUsed>>
      /\ yaml' = [yaml EXCEPT !.due = FALSE, !.validation = "pending"]
      /\ tasks' = tasks \cup {x} /\ yaml.id # 0 /\ yaml.due
      /\ yamlUsed \in [opens : Nat, events : 0..MaxEvents] /\ yaml \in Editors
  BY <1>0 DEF Yaml!RequestValidation, Yaml!IsOpen, Documents
<1>2. Yaml!NoObject \in Yaml!Objects
  BY YamlAssumption DEF Yaml!YamlAssumption, Yaml!NoObject, Yaml!Objects, Yaml!Uids, Yaml!Versions, Yaml!Texts
<1>3. /\ yaml' \in Editors /\ yaml'.id = yaml.id /\ yaml'.base = yaml.base
      /\ yaml'.loading = yaml.loading /\ yaml'.saving = yaml.saving
      /\ ~yaml'.due /\ yaml'.validation = "pending"
      /\ yaml'.revision = yaml.revision /\ yaml'.text = yaml.text
  BY <1>1 DEF Editors
<1>4. /\ x \in EditorTasks /\ x.kind = "validate" /\ x.id = yaml.id
      /\ x.base = yaml.base /\ x.result = Yaml!NoObject
      /\ x.revision = yaml.revision /\ x.text = yaml.text
  BY <1>0, <1>1, <1>2 DEF Yaml!Task, EditorTasks, Editors
<1>5. yaml.id \in 1..yamlUsed.opens
  BY <1>1, Numbers DEF Window
<1>6. Documents'
  BY <1>1, <1>3, <1>4, <1>5 DEF Documents
<1>7. Room'
  BY <1>1, <1>3, <1>4, SentIs, Numbers, RoomStays
<1>8. Snapshots'
  BY <1>1, StillKnown, Numbers, <1>4, <1>3 DEF Snapshot, Yaml!NoObject,
     Snapshots, Editors, Known, AboutToReplace, Documents
<1>9. /\ Ours("apply")' = Ours("apply") /\ Ours("fetch")' = Ours("fetch")
      /\ Ours("validate")' = Ours("validate") \cup {x}
  BY <1>1, <1>3, <1>4, SentIs
<1>10. ~yaml.loading
  BY <1>1 DEF Window
<1>11. Window'
  BY <1>1, <1>3, <1>9, <1>10 DEF Window, Paid
<1>12. Validations'
  BY <1>1, <1>3, <1>4, <1>9, Numbers DEF Validations
<1>13. QED
  BY <1>6, <1>7, <1>8, <1>11, <1>12

LEMMA ApplyKeeps == YamlInv /\ Yaml!Apply => YamlInv'
<1> SUFFICES ASSUME YamlInv, Yaml!Apply
             PROVE  YamlInv'
  OBVIOUS
<1> USE DEF YamlInv
<1>0. PICK x : x = Yaml!Task("apply", 0)
  OBVIOUS
<1>1. /\ UNCHANGED <<document, schemas>>
      /\ yaml' = [yaml EXCEPT !.saving = TRUE]
      /\ tasks' = tasks \cup {x} /\ yaml.base # Yaml!NoObject /\ ~yaml.saving
      /\ yamlUsed' \in [opens : Nat, events : 0..MaxEvents]
      /\ yamlUsed'.events = yamlUsed.events + 1 /\ yamlUsed'.opens = yamlUsed.opens
      /\ yamlUsed.events \in Nat /\ yamlUsed.opens \in Nat /\ yaml \in Editors
  BY <1>0, YamlUseIs, Numbers DEF Yaml!Apply, Yaml!Modified, Documents
<1>2. Yaml!NoObject \in Yaml!Objects
  BY YamlAssumption DEF Yaml!YamlAssumption, Yaml!NoObject, Yaml!Objects, Yaml!Uids, Yaml!Versions, Yaml!Texts
<1>3. /\ yaml' \in Editors /\ yaml'.id = yaml.id /\ yaml'.base = yaml.base
      /\ yaml'.loading = yaml.loading /\ yaml'.saving
      /\ yaml'.due = yaml.due /\ yaml'.diagnostics = yaml.diagnostics
      /\ yaml'.validation = yaml.validation
      /\ yaml'.revision = yaml.revision /\ yaml'.text = yaml.text
      /\ yaml'.checked = yaml.checked
  BY <1>1 DEF Editors
<1>4. /\ x \in EditorTasks /\ x.kind = "apply" /\ x.id = yaml.id
      /\ x.base = yaml.base /\ x.result = Yaml!NoObject /\ x.step = "sent"
  BY <1>0, <1>1, <1>2 DEF Yaml!Task, EditorTasks, Editors
<1>5. yaml.id # 0 /\ ~yaml.loading
  BY <1>1 DEF Window
<1>6. yaml.id \in 1..yamlUsed.opens
  BY <1>1, <1>5, Numbers DEF Window
<1>7. Documents'
  BY <1>1, <1>3, <1>4, <1>6 DEF Documents
<1>8. Room'
  <2>1. Unfinished' = Unfinished \cup {x}
    BY <1>1, <1>3, <1>4, SentIs
  <2>2. /\ IsFiniteSet(Unfinished) /\ Cardinality(Unfinished) \in Nat
        /\ IsFiniteSet(Unfinished \cup {x})
        /\ \/ Cardinality(Unfinished \cup {x}) = Cardinality(Unfinished)
           \/ Cardinality(Unfinished \cup {x}) = Cardinality(Unfinished) + 1
    BY FS_AddElement, FS_CardinalityType DEF Room
  <2>3. Cardinality(Unfinished') \in Nat
    BY <2>1, <2>2, FS_CardinalityType
  <2>4. QED
    BY <1>1, <2>1, <2>2, <2>3, Numbers DEF Room
<1>9. Snapshots'
  BY <1>1, StillKnown, Numbers, <1>4, <1>3 DEF Snapshot, Yaml!NoObject,
     Snapshots, Editors, Known, AboutToReplace, Documents
<1>10. /\ Ours("apply")' = Ours("apply") \cup {x} /\ Ours("fetch")' = Ours("fetch")
       /\ Ours("validate")' = Ours("validate")
  BY <1>1, <1>3, <1>4, SentIs
<1>11. Ours("apply") = {}
  BY <1>1 DEF Window
<1>12. Window'
  BY <1>1, <1>3, Numbers, <1>5, <1>10, <1>11 DEF Paid, Window
<1>13. Validations'
  BY <1>1, <1>3, <1>10 DEF Validations
<1>14. QED
  BY <1>7, <1>8, <1>9, <1>12, <1>13

-----------------------------------------------------------------------------
(* The worker.                                                             *)

(* A task goes on and the object stays.                                    *)
LEMMA GoesOnKeeps ==
  ASSUME YamlInv, NEW t \in tasks, NEW done \in EditorTasks,
         UNCHANGED <<document, yaml, schemas, yamlUsed>>,
         tasks' = (tasks \ {t}) \cup {done},
         done.kind = t.kind, done.id = t.id, done.revision = t.revision,
         done.text = t.text, done.early = t.early,
         Known(done), t.kind = "apply" => t.step # "done" /\ done.step # "done"
  PROVE  YamlInv'
<1> USE DEF YamlInv
<1>1. Documents'
  BY DEF Documents
<1>2. Room'
  <2>1. t.kind # "apply" => Unfinished' \subseteq Unfinished
    BY DEF Unfinished
  <2>2. ASSUME t.kind = "apply"
        PROVE  Room'
    <3>1. t \in Unfinished /\ Unfinished' = (Unfinished \ {t}) \cup {done}
      BY <2>2 DEF Unfinished
    <3>2. /\ IsFiniteSet(Unfinished) /\ IsFiniteSet(Unfinished \ {t})
          /\ Cardinality(Unfinished \ {t}) = Cardinality(Unfinished) - 1
          /\ Cardinality(Unfinished) \in Nat /\ Cardinality(Unfinished \ {t}) \in Nat
      BY <3>1, FS_RemoveElement, FS_CardinalityType DEF Room
    <3>3. PICK rest : rest = Unfinished \ {t}
      OBVIOUS
    <3>4. /\ IsFiniteSet(rest \cup {done})
          /\ Cardinality(rest \cup {done}) \in {Cardinality(rest), Cardinality(rest) + 1}
          /\ Cardinality(rest \cup {done}) \in Nat
      BY <3>2, <3>3, FS_AddElement, FS_CardinalityType
    <3>5. QED
      BY <3>1, <3>2, <3>3, <3>4, Numbers DEF Room
  <2>3. yamlUsed' \in [opens : Nat, events : 0..MaxEvents] /\ yamlUsed.events <= yamlUsed'.events
    BY Numbers DEF Documents
  <2>4. QED
    BY <2>1, <2>2, <2>3, RoomStays
<1>3. Snapshots'
  BY StillKnown DEF Documents, Editors, Snapshots
<1>4. /\ \A k \in {"apply", "fetch"} :
           (\A r, s \in Ours(k)' : r = s) /\ (Ours(k)' = {} <=> Ours(k) = {})
      /\ Ours("validate")' = {} <=> Ours("validate") = {}
      /\ Validations'
  BY BecomesIs
<1>5. Window'
  BY <1>4 DEF Window, Paid
<1>6. QED
  BY <1>1, <1>2, <1>3, <1>4, <1>5

LEMMA WorksKeeps == YamlInv => \A t \in tasks : Yaml!Works(t) => YamlInv'
<1> SUFFICES ASSUME YamlInv, NEW t \in tasks, Yaml!Works(t)
             PROVE  YamlInv'
  OBVIOUS
<1>1. /\ t \in EditorTasks /\ Known(t) /\ t.base \in Yaml!Objects
      /\ document \in Yaml!Objects /\ Snapshot(document) /\ document.version \in Nat
  BY Numbers DEF YamlInv, Documents, Snapshots, Snapshot, EditorTasks
<1>2. CASE Yaml!GetYaml(t)
  <2>1. PICK done : done = [t EXCEPT !.step = "done", !.result = document]
    OBVIOUS
  <2>2. /\ done \in EditorTasks /\ done.kind = t.kind /\ done.id = t.id
        /\ done.revision = t.revision /\ done.text = t.text /\ done.early = t.early
        /\ done.base = t.base /\ done.result = document
    BY <1>1, <2>1 DEF EditorTasks
  <2>3. /\ UNCHANGED <<document, yaml, schemas, yamlUsed>>
        /\ tasks' = (tasks \ {t}) \cup {done} /\ t.kind = "fetch"
    BY <1>2, <2>1 DEF Yaml!GetYaml, Yaml!Becomes
  <2>4. Known(done)
    BY <1>1, <2>2, <2>3 DEF Known, AboutToReplace
  <2>5. QED
    BY <2>2, <2>3, <2>4, GoesOnKeeps
<1>3. CASE Yaml!DryRun(t)
  <2>1. PICK done : done = [t EXCEPT !.step = "done"]
    OBVIOUS
  <2>2. /\ done \in EditorTasks /\ done.kind = t.kind /\ done.id = t.id
        /\ done.revision = t.revision /\ done.text = t.text /\ done.early = t.early
        /\ done.base = t.base /\ done.result = t.result
    BY <1>1, <2>1 DEF EditorTasks
  <2>3. /\ UNCHANGED <<document, yaml, schemas, yamlUsed>>
        /\ tasks' = (tasks \ {t}) \cup {done} /\ t.kind = "validate"
    BY <1>3, <2>1 DEF Yaml!DryRun, Yaml!Becomes
  <2>4. Known(done)
    BY <1>1, <2>2, <2>3 DEF Known, AboutToReplace
  <2>5. QED
    BY <2>2, <2>3, <2>4, GoesOnKeeps
<1>4. CASE Yaml!Prepare(t)
  <2>1. PICK done : done = [t EXCEPT !.step = "read", !.read = document.version]
    OBVIOUS
  <2>2. /\ done \in EditorTasks /\ done.kind = t.kind /\ done.id = t.id
        /\ done.revision = t.revision /\ done.text = t.text /\ done.early = t.early
        /\ done.base = t.base /\ done.result = t.result
        /\ done.step = "read" /\ done.read = document.version
    BY <1>1, <2>1 DEF EditorTasks
  <2>3. /\ UNCHANGED <<document, yaml, schemas, yamlUsed>>
        /\ tasks' = (tasks \ {t}) \cup {done} /\ t.kind = "apply" /\ t.step = "sent"
        /\ t.text \in Specs /\ document.uid = t.base.uid
        /\ document.version = t.base.version \/ document.spec = t.base.spec
    BY <1>4, <2>1 DEF Yaml!Prepare, Yaml!Becomes, Yaml!Ready, Yaml!Conflict
  <2>4. document.spec = t.base.spec
    BY <1>1, <2>3 DEF Known, Snapshot
  <2>5. Known(done)
    BY <1>1, <2>2, <2>3, <2>4 DEF Known, AboutToReplace
  <2>6. QED
    BY <2>2, <2>3, <2>5, GoesOnKeeps
<1>5. CASE Yaml!Replace(t)
  <2> USE DEF YamlInv
  <2>0. PICK o : o = document'
    OBVIOUS
  <2>1. PICK done : done = [t EXCEPT !.step = "done", !.result = o]
    OBVIOUS
  <2>2. /\ UNCHANGED <<yaml, schemas, yamlUsed>>
        /\ tasks' = (tasks \ {t}) \cup {done} /\ t.kind = "apply" /\ t.step = "read"
        /\ o = [document EXCEPT !.spec = t.text, !.version = document.version + 1]
        /\ t.text \in Specs
    BY <1>1, <1>5, <2>0, <2>1 DEF Yaml!Replace, Yaml!Becomes, Known, AboutToReplace
  <2>3. /\ IsFiniteSet(Unfinished) /\ IsFiniteSet(Unfinished \ {t})
        /\ Cardinality(Unfinished \ {t}) = Cardinality(Unfinished) - 1
        /\ Cardinality(Unfinished) \in Nat /\ Cardinality(Unfinished \ {t}) \in Nat
    BY <2>2, FS_RemoveElement, FS_CardinalityType DEF Unfinished, Room
  <2>4. document.version + 1 \in Yaml!Versions /\ document.version + 1 <= 1 + yamlUsed.events
    BY <2>3, Numbers DEF Room, Yaml!Versions
  <2>5. /\ o \in Yaml!Objects /\ o.spec = t.text /\ o.version = document.version + 1
        /\ o.uid = document.uid
    BY <1>1, <2>2, <2>4 DEF Yaml!Objects, Yaml!Texts
  <2>6. /\ done \in EditorTasks /\ done.kind = t.kind /\ done.id = t.id
        /\ done.revision = t.revision /\ done.text = t.text /\ done.early = t.early
        /\ done.base = t.base /\ done.result = o /\ done.step = "done"
    BY <1>1, <2>1, <2>5 DEF EditorTasks
  <2>7. Documents'
    BY <2>0, <2>2, <2>5, <2>6, Numbers DEF Documents
  <2>8. Room'
    <3>1. Unfinished' = Unfinished \ {t}
      BY <2>2, <2>6 DEF Unfinished
    <3>2. QED
      BY <3>1, <2>0, <2>2, <2>3, <2>5, Numbers DEF Room
  <2>9. Snapshots'
    <3>1. /\ \A s \in EditorTasks : Known(s) => Known(s)'
          /\ \A p \in Yaml!Objects : Snapshot(p) => Snapshot(p)'
      BY <2>0, <2>5, StillKnown
    <3>2. yaml.base \in Yaml!Objects
      BY DEF Documents, Editors
    <3>3. Snapshot(o)'
      BY <2>0, <2>5, <1>1 DEF Snapshot
    <3>4. Snapshot(t.base)'
      BY <1>1, <3>1 DEF Known
    <3>5. Known(done)'
      BY <2>6, <3>3, <3>4 DEF Known, AboutToReplace
    <3>6. QED
      BY <2>2, <3>1, <3>2, <3>5 DEF Snapshots, Documents
  <2>10. /\ \A k \in {"apply", "fetch"} :
              (\A r, s \in Ours(k)' : r = s) /\ (Ours(k)' = {} <=> Ours(k) = {})
         /\ Ours("validate")' = {} <=> Ours("validate") = {}
         /\ Validations'
    BY <2>2, <2>6, BecomesIs
  <2>11. Window'
    BY <2>2, <2>10 DEF Window, Paid
  <2>12. QED
    BY <2>7, <2>8, <2>9, <2>10, <2>11
<1>6. QED
  BY <1>2, <1>3, <1>4, <1>5 DEF Yaml!Works

-----------------------------------------------------------------------------
(* What arrives.                                                           *)

(* What an answer may do to the window; all but the answer to an apply     *)
(* leave the text as it is, or load it.                                    *)
LEMMA DropKeeps ==
  ASSUME YamlInv, NEW t \in tasks, UNCHANGED <<document, yamlUsed>>,
         schemas' \in BOOLEAN, tasks' = tasks \ {t},
         yaml' \in Editors, yaml'.id = yaml.id,
         yaml'.base = yaml.base \/ yaml'.base = t.result,
         Window', Validations'
  PROVE  YamlInv'
<1> USE DEF YamlInv
<1>1. Documents'
  BY DEF Documents
<1>2. Room'
  BY Numbers, RoomStays DEF Unfinished, Documents
<1>3. Snapshots'
  <2>1. /\ \A s \in EditorTasks : Known(s) => Known(s)'
        /\ \A o \in Yaml!Objects : Snapshot(o) => Snapshot(o)'
    BY StillKnown
  <2>2. yaml.base \in Yaml!Objects /\ t.result \in Yaml!Objects
    BY DEF Documents, Editors, EditorTasks
  <2>3. Snapshot(yaml.base) /\ Snapshot(t.result)
    BY DEF Snapshots, Known
  <2>4. Snapshot(yaml.base) /\ \A s \in tasks : Known(s)'
    BY <2>1 DEF Snapshots, Documents
  <2>5. \A o : o = yaml.base \/ o = t.result => Snapshot(o)'
    BY <2>1, <2>2, <2>3
  <2>6. Snapshot(yaml.base)' 
    BY <2>5
  <2>7. QED
    BY <2>4, <2>6 DEF Snapshots
<1>4. QED
  BY <1>1, <1>2, <1>3

(* An answer to a window that was closed.                                  *)
LEMMA NotForIt ==
  ASSUME YamlInv, NEW t \in tasks, ~Yaml!IsFor(t), UNCHANGED <<document, yaml, yamlUsed>>,
         schemas' \in BOOLEAN, tasks' = tasks \ {t}
  PROVE  YamlInv'
<1>1. t.id # yaml.id
  BY Numbers DEF YamlInv, Yaml!IsFor, Yaml!IsOpen
<1>2. \A k : Ours(k)' = Ours(k)
  BY <1>1, GoneIs
<1>3. Window' /\ Validations'
  BY <1>2 DEF YamlInv, Window, Validations, Paid
<1>4. yaml' \in Editors
  BY DEF YamlInv, Documents
<1>5. QED
  BY <1>3, <1>4, DropKeeps

LEMMA FetchedKeeps ==
  ASSUME YamlInv, NEW t \in tasks, Yaml!ApplyFetched(t) \/ Yaml!FetchFails(t)
  PROVE  YamlInv'
<1>1. /\ UNCHANGED <<document, yamlUsed, schemas>> /\ tasks' = tasks \ {t}
      /\ t.kind = "fetch"
      /\ ~Yaml!IsFor(t) => yaml' = yaml
      /\ schemas' \in BOOLEAN /\ yaml \in Editors /\ t \in EditorTasks
  BY DEF Yaml!ApplyFetched, Yaml!FetchFails, Yaml!Fails, Yaml!Answers, YamlInv, Documents
<1>2. CASE ~Yaml!IsFor(t)
  BY <1>1, <1>2, NotForIt
<1>3. CASE Yaml!IsFor(t)
  <2> USE DEF YamlInv
  <2>1. t.id = yaml.id /\ t \in Ours("fetch") /\ yaml.id # 0
    BY <1>1, <1>3 DEF Yaml!IsFor, Yaml!IsOpen, Ours
  <2>2. /\ yaml.loading /\ Ours("fetch") \ {t} = {}
        /\ ~yaml.due /\ ~yaml.saving /\ Ours("validate") = {}
        /\ yaml.validation \in {"idle", "failed"}
    BY <2>1 DEF Window
  <2>3. t.result \in Yaml!Objects /\ t.result.spec \in Yaml!Texts
    BY <1>1, Numbers DEF EditorTasks
  <2>4. /\ yaml' \in Editors /\ yaml'.id = yaml.id
        /\ yaml'.base \in {yaml.base, t.result}
        /\ ~yaml'.loading /\ yaml'.due = yaml.due
        /\ yaml'.saving = yaml.saving /\ yaml'.revision = yaml.revision
        /\ yaml'.validation = yaml.validation
    <3>1. CASE Yaml!ApplyFetched(t)
      BY <3>1, <1>3, <1>1, <2>3 DEF Yaml!ApplyFetched, Yaml!Answers, Editors
    <3>2. CASE Yaml!FetchFails(t)
      BY <3>2, <1>3, <1>1 DEF Yaml!FetchFails, Yaml!Fails, Yaml!Answers, Editors
    <3>3. QED
      BY <3>1, <3>2
  <2>5. /\ Ours("fetch")' = {} /\ Ours("apply")' = Ours("apply")
        /\ Ours("validate")' = {}
    BY <1>1, <2>1, <2>2, <2>4, GoneIs
  <2>6. Window'
    BY <1>1, <2>4, <2>1, <2>2, <2>5 DEF Paid, Window
  <2>7. Validations'
    BY <2>2, <2>4, <2>5 DEF Validations
  <2>8. QED
    BY <1>1, <2>4, <2>6, <2>7, DropKeeps
<1>4. QED
  BY <1>2, <1>3

LEMMA SchemaFailsKeeps ==
  ASSUME YamlInv, NEW t \in tasks, Yaml!SchemaFails(t)
  PROVE  YamlInv'
<1>1. /\ UNCHANGED <<document, yamlUsed, schemas>> /\ tasks' = tasks \ {t}
      /\ t.kind = "schema"
      /\ ~Yaml!IsFor(t) => yaml' = yaml
      /\ schemas' \in BOOLEAN /\ yaml \in Editors /\ t \in EditorTasks
  BY DEF Yaml!SchemaFails, Yaml!Fails, Yaml!Answers, YamlInv, Documents
<1>2. CASE ~Yaml!IsFor(t)
  BY <1>1, <1>2, NotForIt
<1>3. CASE Yaml!IsFor(t)
  <2> USE DEF YamlInv
  <2>1. yaml' = [yaml EXCEPT !.schemaLoading = FALSE, !.validation = "failed"]
        /\ yaml.id # 0
    BY <1>1, <1>3 DEF Yaml!SchemaFails, Yaml!Fails, Yaml!Answers, Yaml!IsFor, Yaml!IsOpen
  <2>2. /\ yaml' \in Editors /\ yaml'.id = yaml.id /\ yaml'.base = yaml.base
        /\ yaml'.loading = yaml.loading /\ yaml'.due = yaml.due
        /\ yaml'.saving = yaml.saving /\ yaml'.revision = yaml.revision
        /\ yaml'.diagnostics = yaml.diagnostics /\ yaml'.text = yaml.text
        /\ yaml'.validation = "failed"
    BY <1>1, <2>1 DEF Editors
  <2>3. \A k \in {"fetch", "apply", "validate"} : Ours(k)' = Ours(k)
    BY <1>1, <2>2, GoneIs
  <2>4. Window'
    BY <1>1, <2>2, <2>1, <2>3 DEF Paid, Window
  <2>5. Validations'
    BY <2>2, <2>3 DEF Validations
  <2>6. QED
    BY <1>1, <2>2, <2>4, <2>5, DropKeeps
<1>4. QED
  BY <1>2, <1>3

LEMMA ValidatedKeeps ==
  ASSUME YamlInv, NEW t \in tasks, Yaml!ApplyValidated(t) \/ Yaml!ValidationFails(t)
  PROVE  YamlInv'
<1>1. /\ UNCHANGED <<document, yamlUsed, schemas>> /\ tasks' = tasks \ {t}
      /\ t.kind = "validate"
      /\ ~Yaml!IsFor(t) => yaml' = yaml
      /\ schemas' \in BOOLEAN /\ yaml \in Editors /\ t \in EditorTasks
  BY DEF Yaml!ApplyValidated, Yaml!ValidationFails, Yaml!Fails, Yaml!Answers, YamlInv, Documents
<1>2. CASE ~Yaml!IsFor(t)
  BY <1>1, <1>2, NotForIt
<1>3. CASE Yaml!IsFor(t)
  <2> USE DEF YamlInv
  <2>1. t.id = yaml.id /\ t \in Ours("validate") /\ yaml.id # 0
    BY <1>1, <1>3 DEF Yaml!IsFor, Yaml!IsOpen, Ours
  <2>2. ~yaml.loading
    BY <2>1 DEF Window
  <2>3. /\ Ours("fetch")' = Ours("fetch") /\ Ours("apply")' = Ours("apply")
        /\ Ours("validate")' \subseteq Ours("validate")
        \/ yaml'.id # yaml.id
    BY <1>1, <2>1, GoneIs
  <2>4. CASE yaml' = yaml
    BY <1>1, <2>2, <2>3, <2>4, DropKeeps DEF Window, Validations, Paid
  <2>5. ASSUME NEW text, ~t.early => text = t.text, t.early => text = yaml.text,
               Yaml!IsLatest(t),
               \/ yaml' = [yaml EXCEPT !.validation = "valid", !.checked = text]
               \/ yaml' = [yaml EXCEPT !.validation = "failed"]
        PROVE  YamlInv'
    <3>1. text = yaml.text /\ text \in Yaml!Texts
      BY <1>1, <2>1, <2>5 DEF Validations, Yaml!IsLatest, Editors, EditorTasks
    <3>2. /\ yaml' \in Editors /\ yaml'.id = yaml.id
          /\ yaml'.base = yaml.base
          /\ yaml'.loading = yaml.loading /\ yaml'.due = yaml.due
          /\ yaml'.saving = yaml.saving /\ yaml'.revision = yaml.revision
          /\ yaml'.diagnostics = yaml.diagnostics /\ yaml'.text = yaml.text
          /\ yaml'.validation \in {"valid", "failed"}
          /\ yaml'.validation = "valid" => yaml'.checked = yaml'.text
      <4>1. CASE yaml' = [yaml EXCEPT !.validation = "valid", !.checked = text]
        BY <1>1, <3>1, <4>1 DEF Editors
      <4>2. CASE yaml' = [yaml EXCEPT !.validation = "failed"]
        BY <1>1, <4>2 DEF Editors
      <4>3. QED
        BY <2>5, <4>1, <4>2
    <3>3. Window'
      BY <1>1, <3>2, <2>1, <2>2, <2>3 DEF Paid, Window
    <3>4. Validations'
      BY <2>3, <3>2 DEF Validations
    <3>5. QED
      BY <1>1, <3>2, <3>3, <3>4, DropKeeps
  <2>6. \/ yaml' = yaml
        \/ Yaml!IsLatest(t) /\ yaml' = [yaml EXCEPT !.validation = "failed"]
        \/ Yaml!IsLatest(t) /\ yaml' = [yaml EXCEPT !.validation = "valid",
                                  !.checked = IF t.early THEN yaml.text ELSE t.text]
    BY <1>3 DEF Yaml!ApplyValidated, Yaml!ValidationFails, Yaml!Fails, Yaml!Answers
  <2>7. QED
    <3>1. PICK text : text = IF t.early THEN yaml.text ELSE t.text
      OBVIOUS
    <3>2. (~t.early => text = t.text) /\ (t.early => text = yaml.text)
      BY <3>1
    <3>3. CASE yaml' = yaml
      BY <2>4, <3>3
    <3>4. CASE Yaml!IsLatest(t) /\ yaml' = [yaml EXCEPT !.validation = "failed"]
      BY <2>5, <3>2, <3>4
    <3>5. CASE Yaml!IsLatest(t) /\ yaml' = [yaml EXCEPT !.validation = "valid",
                                                            !.checked = text]
      BY <2>5, <3>2, <3>5
    <3>6. QED
      BY <2>6, <3>1, <3>3, <3>4, <3>5
<1>4. QED
  BY <1>2, <1>3

LEMMA AppliedKeeps ==
  ASSUME YamlInv, NEW t \in tasks, Yaml!ApplyApplied(t) \/ Yaml!ApplyFails(t)
  PROVE  YamlInv'
<1>1. /\ UNCHANGED <<document, yamlUsed, schemas>> /\ tasks' = tasks \ {t}
      /\ t.kind = "apply"
      /\ ~Yaml!IsFor(t) => yaml' = yaml
      /\ schemas' \in BOOLEAN /\ yaml \in Editors /\ t \in EditorTasks
  BY DEF Yaml!ApplyApplied, Yaml!ApplyFails, Yaml!Fails, Yaml!Answers, YamlInv, Documents
<1>2. CASE ~Yaml!IsFor(t)
  BY <1>1, <1>2, NotForIt
<1>3. CASE Yaml!IsFor(t)
  <2> USE DEF YamlInv
  <2>1. t.id = yaml.id /\ t \in Ours("apply") /\ yaml.id # 0
    BY <1>1, <1>3 DEF Yaml!IsFor, Yaml!IsOpen, Ours
  <2>2. /\ yaml.saving /\ Ours("apply") \ {t} = {} /\ ~yaml.loading
        /\ Paid <= yamlUsed.events
    BY <2>1 DEF Window
  <2>3. t.result \in Yaml!Objects /\ t.result.spec \in Yaml!Texts /\ yaml.revision \in Nat
    BY <1>1, Numbers DEF EditorTasks
  <2>4. yaml'.id = yaml.id =>
          /\ Ours("apply")' = {} /\ Ours("fetch")' = Ours("fetch")
          /\ Ours("validate")' = Ours("validate")
    BY <1>1, <2>1, <2>2, GoneIs
  <2>5. CASE Yaml!ApplyApplied(t)
    <3>1. PICK e : e = [yaml EXCEPT !.base = t.result, !.text = t.result.spec,
                                      !.saving = FALSE]
      OBVIOUS
    <3>2. /\ e \in Editors /\ e.id = yaml.id /\ e.base = t.result /\ ~e.saving
          /\ e.loading = yaml.loading /\ e.revision = yaml.revision
      BY <1>1, <2>3, <3>1 DEF Editors
    <3>3. yaml' = Yaml!Refresh(e)
      BY <1>3, <2>5, <3>1 DEF Yaml!ApplyApplied, Yaml!Answers
    <3>4. /\ yaml' \in Editors /\ yaml'.id = yaml.id
          /\ yaml'.base = t.result /\ ~yaml'.saving /\ ~yaml'.loading
          /\ yaml'.revision = yaml.revision + 1
          /\ yaml'.validation = "idle"
          /\ yaml'.due => ~yaml'.diagnostics
      BY <2>2, <3>2, <3>3, RefreshIs
    <3>5. Window'
      BY <1>1, <2>2, <2>3, <3>4, Numbers, <2>1, <2>4 DEF Paid, Window
    <3>6. Validations'
      BY <2>3, <2>4, <3>4 DEF Ours, Documents, EditorTasks, Validations
    <3>7. QED
      BY <1>1, <3>4, <3>5, <3>6, DropKeeps
  <2>6. CASE Yaml!ApplyFails(t)
    <3>1. yaml' = [yaml EXCEPT !.saving = FALSE]
      BY <1>3, <2>6 DEF Yaml!ApplyFails, Yaml!Fails, Yaml!Answers
    <3>2. /\ yaml' \in Editors /\ yaml'.id = yaml.id
          /\ yaml'.base = yaml.base /\ ~yaml'.saving
          /\ yaml'.loading = yaml.loading /\ yaml'.due = yaml.due
          /\ yaml'.diagnostics = yaml.diagnostics /\ yaml'.text = yaml.text
          /\ yaml'.revision = yaml.revision
          /\ yaml'.validation = yaml.validation
          /\ yaml'.checked = yaml.checked
      BY <1>1, <3>1 DEF Editors
    <3>3. Window'
      BY <1>1, <2>2, <2>3, <3>2, Numbers, <2>1, <2>4 DEF Paid, Window
    <3>4. Validations'
      BY <2>4, <3>2 DEF Validations
    <3>5. QED
      BY <1>1, <3>2, <3>3, <3>4, DropKeeps
  <2>7. QED
    BY <2>5, <2>6
<1>4. QED
  BY <1>2, <1>3

(* A schema arrives: the validations under way are of before.              *)
LEMMA SchemaKeeps ==
  ASSUME YamlInv, NEW some \in SUBSET tasks, yaml.id # 0,
         \A t \in tasks \ some : t.kind = "schema",
         document' = document, schemas' = TRUE,
         yaml' = Yaml!WithSchema(yaml), tasks' = Yaml!Outstanding(some),
         yamlUsed' \in [opens : Nat, events : 0..MaxEvents],
         yamlUsed'.opens = yamlUsed.opens, yamlUsed.events <= yamlUsed'.events
  PROVE  YamlInv'
<1> USE DEF YamlInv
<1>1. /\ yaml' \in Editors /\ yaml'.id = yaml.id
      /\ yaml'.base = yaml.base /\ yaml'.saving = yaml.saving
      /\ yaml'.loading = yaml.loading /\ yaml'.due = yaml.due
      /\ yaml'.diagnostics = yaml.diagnostics /\ yaml'.text = yaml.text
      /\ yaml'.revision = 0
      /\ yaml'.validation = yaml.validation
      /\ yaml'.checked = yaml.checked
  BY DEF Editors, Yaml!WithSchema, Documents
<1>2. \A s \in tasks' : \E t \in some :
        /\ s = IF t.kind = "validate" THEN [t EXCEPT !.early = TRUE] ELSE t
        /\ t \in EditorTasks
  BY DEF Yaml!Outstanding, Documents
<1>3. \A s \in tasks' : \E t \in some :
        /\ s \in EditorTasks /\ t \in EditorTasks
        /\ t.kind # "validate" => s = t
        /\ t.kind = "validate" => s.early
        /\ s.kind = t.kind /\ s.id = t.id /\ s.base = t.base /\ s.result = t.result
  <2> SUFFICES ASSUME NEW s \in tasks', NEW t \in some, t \in EditorTasks,
                      s = IF t.kind = "validate" THEN [t EXCEPT !.early = TRUE] ELSE t
               PROVE  /\ s \in EditorTasks
                      /\ t.kind # "validate" => s = t
                      /\ t.kind = "validate" => s.early
                      /\ s.kind = t.kind /\ s.id = t.id
                      /\ s.base = t.base /\ s.result = t.result
    BY <1>2
  <2>1. CASE t.kind = "validate"
    BY <2>1 DEF EditorTasks
  <2>2. CASE t.kind # "validate"
    BY <2>2
  <2>3. QED
    BY <2>1, <2>2
<1>4. \A t \in some : t.kind # "validate" => t \in tasks'
  BY DEF Yaml!Outstanding
<1>5. \A k \in {"apply", "fetch"} : Ours(k)' = Ours(k)
  BY <1>1, <1>3, <1>4 DEF Ours
<1>6. /\ \A t \in Ours("validate")' : t.early
      /\ Ours("validate") = {} => Ours("validate")' = {}
  BY <1>1, <1>3 DEF Ours
<1>7. Documents'
  BY <1>1, <1>3 DEF Documents
<1>8. Room'
  BY <1>3, RoomStays DEF Unfinished
<1>9. Snapshots'
  BY StillKnown, <1>3, <1>1 DEF Documents, Editors, Snapshots, Known,
     AboutToReplace
<1>10. Window'
  BY <1>1, Numbers, <1>5, <1>6 DEF Paid, Window
<1>11. Validations'
  BY <1>1, <1>6 DEF Validations
<1>12. QED
  BY <1>7, <1>8, <1>9, <1>10, <1>11

LEMMA ApplySchemaKeeps ==
  ASSUME YamlInv, NEW t \in tasks, Yaml!ApplySchema(t)
  PROVE  YamlInv'
<1>1. /\ UNCHANGED <<document, yamlUsed>> /\ schemas' = TRUE /\ t.kind = "schema"
      /\ yamlUsed \in [opens : Nat, events : 0..MaxEvents]
  BY DEF Yaml!ApplySchema, Yaml!Answers, YamlInv, Documents
<1>2. CASE ~Yaml!IsFor(t)
  BY <1>1, <1>2, NotForIt DEF Yaml!ApplySchema, Yaml!Answers
<1>3. CASE Yaml!IsFor(t)
  BY <1>3, <1>1, Numbers, SchemaKeeps DEF Yaml!ApplySchema, Yaml!Answers,
     Yaml!IsFor, Yaml!IsOpen, YamlInv
<1>4. QED
  BY <1>2, <1>3

LEMMA SchemasPushedKeeps == YamlInv /\ Yaml!SchemasPushed => YamlInv'
<1> SUFFICES ASSUME YamlInv, Yaml!SchemasPushed
             PROVE  YamlInv'
  OBVIOUS
<1>1. /\ yamlUsed' \in [opens : Nat, events : 0..MaxEvents]
      /\ yamlUsed'.opens = yamlUsed.opens /\ yamlUsed'.events = yamlUsed.events + 1
      /\ yamlUsed.events \in Nat
      /\ document' = document /\ schemas' = TRUE
  BY YamlUseIs, Numbers DEF YamlInv, Yaml!SchemasPushed
<1>2. CASE yaml.id # 0
  BY <1>1, <1>2, SchemaKeeps DEF Yaml!SchemasPushed, Yaml!IsOpen
<1>3. CASE yaml.id = 0
  <2> USE DEF YamlInv
  <2>1. yaml' = yaml /\ tasks' = tasks
    BY <1>3 DEF Yaml!SchemasPushed, Yaml!IsOpen
  <2>2. Documents'
    BY <1>1, <2>1 DEF Documents
  <2>3. Unfinished' = Unfinished /\ \A k : Ours(k)' = Ours(k)
    BY <2>1 DEF Unfinished, Ours
  <2>4. Room'
    BY <1>1, <2>3, RoomStays
  <2>5. Snapshots'
    BY <1>1, <2>1 DEF Snapshots, Snapshot, Known, AboutToReplace
  <2>6. Window' /\ Validations'
    BY <1>1, <1>3, <2>1, <2>3 DEF Window, Validations
  <2>7. QED
    BY <2>2, <2>4, <2>5, <2>6
<1>4. QED
  BY <1>2, <1>3

LEMMA OthersWriteYamlKeeps == YamlInv /\ Yaml!OthersWrite => YamlInv'
<1> SUFFICES ASSUME YamlInv, Yaml!OthersWrite
             PROVE  YamlInv'
  OBVIOUS
<1> USE DEF YamlInv
<1>1. /\ yamlUsed' \in [opens : Nat, events : 0..MaxEvents]
      /\ yamlUsed'.opens = yamlUsed.opens /\ yamlUsed'.events = yamlUsed.events + 1
      /\ yamlUsed.events \in Nat /\ yamlUsed.events < MaxEvents
      /\ yaml' = yaml /\ schemas' = schemas /\ tasks' = tasks
  BY YamlUseIs, Numbers DEF Yaml!OthersWrite
<1>2. PICK spec \in Specs, uid \in {document.uid, document.uid + 1} :
        document' = [uid |-> uid, version |-> document.version + 1, spec |-> spec]
  BY DEF Yaml!OthersWrite
<1>3. /\ document.uid \in Nat /\ document.version \in Nat /\ MaxEvents \in Nat
      /\ document.uid # 0
  BY Numbers
<1>4. IsFiniteSet(Unfinished) /\ Cardinality(Unfinished) \in Nat
  BY FS_CardinalityType DEF Room
<1>5. uid \in Yaml!Uids /\ uid # 0 /\ uid <= 1 + yamlUsed'.events
  BY <1>1, <1>2, <1>3 DEF Room, Yaml!Uids
<1>6. document.version + 1 \in Yaml!Versions
  BY <1>1, <1>3, <1>4 DEF Room, Yaml!Versions
<1>7. /\ document' \in Yaml!Objects /\ document'.spec \in Specs
      /\ document'.uid = uid /\ document'.version = document.version + 1
  BY <1>2, <1>5, <1>6 DEF Yaml!Objects, Yaml!Texts
<1>8. Documents'
  BY <1>1, <1>3, <1>5, <1>7 DEF Documents
<1>9. Unfinished' = Unfinished /\ \A k : Ours(k)' = Ours(k)
  BY <1>1 DEF Unfinished, Ours
<1>10. Room'
  BY <1>1, <1>3, <1>4, <1>5, <1>7, <1>9 DEF Room
<1>11. Snapshots'
  BY <1>7, StillKnown, <1>1 DEF Documents, Editors, Snapshots
<1>12. Window'
  BY <1>1, Numbers, <1>9 DEF Paid, Window
<1>13. Validations'
  BY <1>1, <1>9 DEF Validations
<1>14. QED
  BY <1>8, <1>10, <1>11, <1>12, <1>13

LEMMA YamlStep == YamlInv /\ [Yaml!Next]_Yaml!vars => YamlInv'
<1> SUFFICES ASSUME YamlInv, [Yaml!Next]_Yaml!vars
             PROVE  YamlInv'
  OBVIOUS
<1>1. CASE Yaml!Frame
  BY <1>1, FirstFrameKeeps, RequestValidationKeeps DEF Yaml!Frame
<1>2. CASE Yaml!User
  BY <1>2, OpenKeeps, CloseKeeps, TypeKeeps, ApplyKeeps DEF Yaml!User
<1>3. CASE Yaml!SchemasPushed \/ Yaml!OthersWrite
  BY <1>3, SchemasPushedKeeps, OthersWriteYamlKeeps
<1>4. CASE \E t \in tasks : Yaml!Works(t) \/ Yaml!Result(t)
  <2>1. PICK t \in tasks : Yaml!Works(t) \/ Yaml!Result(t)
    BY <1>4
  <2>2. CASE Yaml!Works(t)
    BY <2>2, WorksKeeps
  <2>3. CASE Yaml!Result(t)
    BY <2>3, FetchedKeeps, ApplySchemaKeeps, SchemaFailsKeeps, ValidatedKeeps,
       AppliedKeeps DEF Yaml!Result
  <2>4. QED
    BY <2>1, <2>2, <2>3
<1>5. CASE UNCHANGED Yaml!vars
  <2>1. UNCHANGED <<document, yaml, schemas, tasks, yamlUsed>>
    BY <1>5 DEF Yaml!vars
  <2>2. QED
    BY <2>1 DEF YamlInv, Documents, Room, Unfinished, Snapshots, Snapshot, Known,
                AboutToReplace, Window, Validations, Ours, Paid
<1>6. QED
  BY <1>1, <1>2, <1>3, <1>4, <1>5 DEF Yaml!Next

-----------------------------------------------------------------------------
(* What follows.                                                           *)

LEMMA YamlHolds == YamlInv => Yaml!TypeOK /\ Yaml!ValidatedIsShown
<1> SUFFICES ASSUME YamlInv
             PROVE  Yaml!TypeOK /\ Yaml!ValidatedIsShown
  OBVIOUS
<1> USE DEF YamlInv
<1>1. Yaml!ValidatedIsShown
  BY DEF Validations, Yaml!ValidatedIsShown
<1>2. document \in [uid : Yaml!Uids \ {0}, version : Yaml!Versions \ {0}, spec : Specs]
  BY DEF Documents, Yaml!Objects
<1>3. yaml.base \in Yaml!Objects /\ yaml.text \in Yaml!Texts
      /\ yaml.validation \in {"idle", "pending", "valid", "failed"}
      /\ {yaml.loading, yaml.saving, yaml.due, yaml.diagnostics}
           \subseteq BOOLEAN
      /\ schemas \in BOOLEAN
  BY DEF Documents, Editors
<1>4. yaml.revision \in 0..(MaxEvents + 1)
  BY Numbers DEF Window, Paid
<1>5. /\ yaml.due => ~yaml.diagnostics /\ yaml.validation # "pending"
      /\ yaml.loading =>
           yaml.base = Yaml!NoObject /\ yaml.validation \in {"idle", "failed"}
  BY DEF Window
<1>6. yaml.saving =>
        \E t \in tasks : t.kind = "apply" /\ t.id = yaml.id
  BY DEF Window, Ours
<1>7. \A t \in tasks :
        /\ t.kind \in {"fetch", "schema", "validate", "apply"}
        /\ t.step \in {"sent", "read", "done"}
        /\ t.id \in 1..yamlUsed.opens
  BY DEF Documents, EditorTasks
<1>8. QED
  BY <1>1, <1>2, <1>3, <1>4, <1>5, <1>6, <1>7 DEF Yaml!TypeOK

(* What is replaced is still the document that the editor was filled with. *)
LEMMA YamlSafe ==
  ASSUME YamlInv, NEW t \in tasks, Yaml!Replace(t)
  PROVE  document.spec = t.base.spec /\ document.uid = t.base.uid
  BY DEF YamlInv, Snapshots, Known, AboutToReplace, Yaml!Replace

-----------------------------------------------------------------------------
(* The inspectors count as everyone does.                                  *)

LEMMA SameCount == \A S : Blades!Cardinality(S) = Cardinality(S)
BY DEF Cardinality, Blades!Cardinality

USE BladesAssumption DEF Blades!InspectorAssumption

(* The blades that are kept, in their order.                               *)

Kept(id, some) == {n \in DOMAIN some : ~Blades!Of(id, some[n])}

Rank(found, i) == Blades!Cardinality({j \in found : j <= i})

LEMMA Ranks ==
  ASSUME NEW n \in Nat, NEW found \in SUBSET (1..n)
  PROVE  /\ IsFiniteSet(found) /\ Cardinality(found) \in Nat
         /\ \A i \in found : Rank(found, i) \in 1..Cardinality(found)
         /\ \A i, j \in found : i < j <=> Rank(found, i) < Rank(found, j)
         /\ \A k \in 1..Cardinality(found) : \E i \in found : Rank(found, i) = k
<1>0. \A i \in found : i \in Int /\ i \in 1..n
  OBVIOUS
<1>1. IsFiniteSet(found) /\ Cardinality(found) \in Nat
  <2>1. IsFiniteSet(1..n)
    BY FS_Interval
  <2>2. QED
    BY <2>1, FS_Subset, FS_CardinalityType
<1>2. \A i : /\ IsFiniteSet({j \in found : j <= i})
             /\ Rank(found, i) \in Nat /\ Rank(found, i) <= Cardinality(found)
  <2> SUFFICES ASSUME NEW i
               PROVE  /\ IsFiniteSet({j \in found : j <= i})
                      /\ Rank(found, i) \in Nat
                      /\ Rank(found, i) <= Cardinality(found)
    OBVIOUS
  <2> DEFINE below == {j \in found : j <= i}
  <2>1. below \in SUBSET found /\ Rank(found, i) = Cardinality(below)
    BY SameCount DEF Rank
  <2> HIDE DEF below
  <2>2. IsFiniteSet(below) /\ Cardinality(below) <= Cardinality(found)
    BY <2>1, <1>1, FS_Subset
  <2>3. Cardinality(below) \in Nat
    BY <2>2, FS_CardinalityType
  <2>4. QED
    BY <2>1, <2>2, <2>3 DEF below
<1>3. \A i \in found : Rank(found, i) \in 1..Cardinality(found)
  <2> SUFFICES ASSUME NEW i \in found
               PROVE  Rank(found, i) # 0
    <3>1. \A i \in found : Rank(found, i) \in Nat
                           /\ Rank(found, i) <= Cardinality(found)
      BY <1>2
    <3>2. QED
      BY <3>1, <1>1
  <2>1. i \in {j \in found : j <= i}
    BY <1>0
  <2>2. IsFiniteSet({j \in found : j <= i})
    BY <1>2
  <2>3. Cardinality({j \in found : j <= i}) # 0
    BY <2>1, <2>2, FS_EmptySet
  <2>4. QED
    BY <2>3, SameCount DEF Rank
<1>4. ASSUME NEW i \in found, NEW k \in found, i < k
      PROVE  Rank(found, i) < Rank(found, k)
  <2> DEFINE small == {j \in found : j <= i}
             large == {j \in found : j <= k}
  <2>1. \A j \in small : j \in large
    BY <1>0, <1>4
  <2>2. k \notin small /\ k \in large
    BY <1>0, <1>4
  <2>3. /\ IsFiniteSet(large)
        /\ Rank(found, i) = Cardinality(small) /\ Rank(found, k) = Cardinality(large)
    BY <1>2, SameCount DEF Rank
  <2> HIDE DEF small, large
  <2>4. small \in SUBSET large
    BY <2>1
  <2>5. /\ Cardinality(small) <= Cardinality(large)
        /\ Cardinality(small) = Cardinality(large) => small = large
    BY <2>3, <2>4, FS_Subset
  <2>6. Rank(found, i) <= Rank(found, k) /\ Rank(found, i) # Rank(found, k)
    BY <2>2, <2>3, <2>5
  <2>7. Rank(found, i) \in Nat /\ Rank(found, k) \in Nat
    BY <1>2
  <2>8. QED
    BY <2>6, <2>7
<1>5. \A i, j \in found : i < j <=> Rank(found, i) < Rank(found, j)
  <2> SUFFICES ASSUME NEW i \in found, NEW j \in found
               PROVE  i < j <=> Rank(found, i) < Rank(found, j)
    OBVIOUS
  <2>1. i \in Int /\ j \in Int
    BY <1>0
  <2>2. Rank(found, i) \in Nat /\ Rank(found, j) \in Nat
    BY <1>2
  <2>3. (i < j => Rank(found, i) < Rank(found, j))
        /\ (j < i => Rank(found, j) < Rank(found, i))
    BY <1>4
  <2>4. CASE i = j
    BY <2>1, <2>2, <2>4
  <2>5. CASE i # j
    BY <2>1, <2>5, <2>2, <2>3
  <2>6. QED
    BY <2>4, <2>5
<1>6. \A k \in 1..Cardinality(found) : \E i \in found : Rank(found, i) = k
  <2> DEFINE f == [i \in found |-> Rank(found, i)]
             T == 1..Cardinality(found)
  <2>1. f \in [found -> T]
    BY <1>3
  <2>2. \A i, j \in found : f[i] = f[j] => i = j
    <3> SUFFICES ASSUME NEW i \in found, NEW j \in found, f[i] = f[j]
                 PROVE  i = j
      OBVIOUS
    <3>1. Rank(found, i) = Rank(found, j)
      OBVIOUS
    <3>2. Rank(found, i) \in Nat /\ i \in Int /\ j \in Int
      BY <1>0, <1>2
    <3>3. ~(i < j) /\ ~(j < i)
      BY <3>1, <3>2, <1>5
    <3>4. QED
      BY <3>2, <3>3
  <2>3. IsFiniteSet(T) /\ Cardinality(T) = Cardinality(found)
    BY <1>1, FS_Interval
  <2>4. \A k \in T : \E i \in found : f[i] = k
    <3> HIDE DEF f, T
    <3>1. f \in Injection(found, T)
      BY <2>1, <2>2 DEF Injection, IsInjective
    <3>2. f \in Surjection(found, T)
      BY <3>1, <2>3, <1>1, FS_Injection
    <3>3. QED
      BY <3>2 DEF Surjection
  <2>5. QED
    BY <2>4
<1>7. QED
  BY <1>1, <1>3, <1>5, <1>6

LEMMA WithoutIs ==
  ASSUME NEW S, NEW some \in Seq(S), NEW id
  PROVE  /\ Blades!Without(id, some) \in Seq(S)
         /\ Len(Blades!Without(id, some)) = Cardinality(Kept(id, some))
         /\ Len(Blades!Without(id, some)) \in Nat
         /\ \A k \in 1..Len(Blades!Without(id, some)) :
              \E n \in Kept(id, some) :
                Blades!Without(id, some)[k] = some[n] /\ Rank(Kept(id, some), n) = k
         /\ \A n \in Kept(id, some) :
              /\ Rank(Kept(id, some), n) \in 1..Len(Blades!Without(id, some))
              /\ Blades!Without(id, some)[Rank(Kept(id, some), n)] = some[n]
         /\ \A m, n \in Kept(id, some) :
              m < n <=> Rank(Kept(id, some), m) < Rank(Kept(id, some), n)
  <1> DEFINE kept == Kept(id, some)
             rest == Blades!Without(id, some)
  <1>1. /\ Len(some) \in Nat /\ DOMAIN some = 1..Len(some)
        /\ \A n \in DOMAIN some : some[n] \in S
    BY LenProperties, ElementOfSeq
  <1>2. kept \in SUBSET (1..Len(some))
    BY <1>1 DEF Kept
  <1>3. rest = [k \in 1..Cardinality(kept) |->
                  some[CHOOSE n \in kept : Rank(kept, n) = k]]
    BY SameCount DEF Blades!Without, Kept, Rank
  <1> HIDE DEF kept, rest
  <1>4. /\ IsFiniteSet(kept) /\ Cardinality(kept) \in Nat
        /\ \A i \in kept : Rank(kept, i) \in 1..Cardinality(kept)
        /\ \A i, j \in kept : i < j <=> Rank(kept, i) < Rank(kept, j)
        /\ \A k \in 1..Cardinality(kept) : \E i \in kept : Rank(kept, i) = k
    BY <1>1, <1>2, Ranks
  <1>5. ASSUME NEW i \in kept, NEW j \in kept, Rank(kept, i) = Rank(kept, j)
        PROVE  i = j
    BY <1>2, <1>4, <1>5
  <1>6. ASSUME NEW k \in 1..Cardinality(kept)
        PROVE  \E n \in kept : rest[k] = some[n] /\ Rank(kept, n) = k
    BY <1>3, <1>4, <1>6
  <1>7. ASSUME NEW n \in kept
        PROVE  rest[Rank(kept, n)] = some[n]
    <2>1. Rank(kept, n) \in 1..Cardinality(kept)
      BY <1>4
    <2>2. PICK m \in kept : rest[Rank(kept, n)] = some[m] /\ Rank(kept, m) = Rank(kept, n)
      BY <1>6, <2>1
    <2> QED
      BY <2>2, <1>5
  <1>8. rest \in Seq(S) /\ Len(rest) = Cardinality(kept)
    <2>1. \A k \in 1..Cardinality(kept) : rest[k] \in S
      BY <1>1, <1>2, <1>6
    <2>2. rest = [k \in 1..Cardinality(kept) |-> rest[k]]
      BY <1>3
    <2>3. rest \in Seq(S)
      BY <2>1, <2>2, <1>4, IsASeq
    <2> QED
      BY <2>3, <1>3, <1>4, LenProperties
  <1>9. \A k \in 1..Cardinality(kept) :
          \E n \in kept : rest[k] = some[n] /\ Rank(kept, n) = k
    BY <1>6
  <1>10. \A n \in kept : rest[Rank(kept, n)] = some[n]
    BY <1>7
  <1> QED
    BY <1>4, <1>8, <1>9, <1>10 DEF kept, rest

-----------------------------------------------------------------------------
(* A history: inspectors are in it once, and column settings come after    *)
(* the inspector that opened them.                                         *)

Blade == Blades!Detail \cup Blades!Columns \cup {Blades!Other}

IsDetail(b) == b.kind = "detail"

Opener(some, n) ==
  \E m \in DOMAIN some : m < n /\ IsDetail(some[m]) /\ some[m].id = some[n].id

Proper(some, high) ==
  /\ some \in Seq(Blade)
  /\ \A m, n \in DOMAIN some :
       IsDetail(some[m]) /\ IsDetail(some[n]) /\ some[m].id = some[n].id => m = n
  /\ \A n \in DOMAIN some : some[n].kind = "columns" => Opener(some, n)
  /\ \A n \in DOMAIN some : some[n].id <= high

LEMMA BladeFields ==
  ASSUME NEW b \in Blade
  PROVE  /\ b.id \in Nat
         /\ b.kind \in {"detail", "columns", "other"}
         /\ b.kind = "detail" => b \in Blades!Detail /\ b.id \in Blades!Ids
         /\ b.kind = "columns" => b \in Blades!Columns /\ b.id \in Blades!Ids
         /\ b.kind = "other" => b.id = 0
  BY DEF Blade, Blades!Detail, Blades!Columns, Blades!Other, Blades!Ids

LEMMA DetailsAre ==
  ASSUME NEW some
  PROVE  \A id : id \in Blades!DetailsOf(some) <=>
           \E n \in DOMAIN some : IsDetail(some[n]) /\ some[n].id = id
  BY DEF Blades!DetailsOf, Blades!Blades, IsDetail

LEMMA ProperGives ==
  ASSUME NEW some, NEW high \in Nat, Proper(some, high)
  PROVE  /\ Len(some) \in Nat /\ DOMAIN some = 1..Len(some)
         /\ \A n \in DOMAIN some : some[n] \in Blade
         /\ Blades!DetailsOf(some) \subseteq Blades!Ids
         /\ \A id \in Blades!DetailsOf(some) : id <= high
  <1>1. /\ Len(some) \in Nat /\ DOMAIN some = 1..Len(some)
        /\ \A n \in DOMAIN some : some[n] \in Blade
    BY LenProperties, ElementOfSeq DEF Proper
  <1> QED
    BY <1>1, DetailsAre, BladeFields DEF IsDetail, Proper

LEMMA NoBlades ==
  ASSUME NEW high \in Nat
  PROVE  Proper(<<>>, high) /\ Blades!DetailsOf(<<>>) = {} /\ Len(<<>>) = 0
  <1>1. <<>> \in Seq(Blade) /\ DOMAIN <<>> = {} /\ Len(<<>>) = 0
    OBVIOUS
  <1>2. Blades!DetailsOf(<<>>) = {}
    BY <1>1, DetailsAre
  <1> QED
    BY <1>1, <1>2 DEF Proper

LEMMA OneBlade ==
  ASSUME NEW b \in Blade, b.kind # "columns"
  PROVE  /\ Proper(<<b>>, b.id) /\ Len(<<b>>) = 1
         /\ Blades!DetailsOf(<<b>>) = IF IsDetail(b) THEN {b.id} ELSE {}
  <1>1. <<b>> \in Seq(Blade) /\ DOMAIN <<b>> = {1} /\ Len(<<b>>) = 1 /\ <<b>>[1] = b
    OBVIOUS
  <1> DEFINE only == <<b>>
  <1>2. Blades!DetailsOf(<<b>>) = IF IsDetail(b) THEN {b.id} ELSE {}
    <2>1. DOMAIN only = {1} /\ only[1] = b
      BY <1>1
    <2> HIDE DEF only
    <2>2. \A id : id \in Blades!DetailsOf(only) <=> IsDetail(b) /\ b.id = id
      BY <2>1, DetailsAre
    <2>3. Blades!DetailsOf(only) = IF IsDetail(b) THEN {b.id} ELSE {}
      BY <2>2
    <2> QED
      BY <2>3 DEF only
  <1>3. b.id <= b.id
    BY BladeFields
  <1> QED
    BY <1>1, <1>2, <1>3 DEF Proper

(* BladeNavigator::push                                                    *)

LEMMA Pushed ==
  ASSUME NEW some, NEW high \in Nat, Proper(some, high),
         NEW place \in 0..Len(some), NEW b \in Blade, NEW top \in Nat,
         high <= top, b.id <= top,
         IsDetail(b) => b.id > high,
         b.kind = "columns" =>
           \E m \in 1..place : IsDetail(some[m]) /\ some[m].id = b.id
  PROVE  LET next == Append(SubSeq(some, 1, place), b)
             gone == SubSeq(some, place + 1, Len(some))
         IN  /\ Proper(next, top) /\ Len(next) = place + 1
             /\ Blades!DetailsOf(next) = (Blades!DetailsOf(some) \ Blades!DetailsOf(gone))
                                    \cup (IF IsDetail(b) THEN {b.id} ELSE {})
             /\ Blades!DetailsOf(gone) \subseteq Blades!DetailsOf(some)
  <1> DEFINE past == SubSeq(some, 1, place)
             next == Append(past, b)
             gone == SubSeq(some, place + 1, Len(some))
  <1>1. /\ Len(some) \in Nat /\ DOMAIN some = 1..Len(some)
        /\ \A n \in DOMAIN some : some[n] \in Blade
    BY ProperGives
  <1>2. /\ past \in Seq(Blade) /\ Len(past) = place
        /\ \A i \in 1..place : past[i] = some[i]
    BY <1>1, SubSeqProperties
  <1>3. /\ gone \in Seq(Blade)
        /\ Len(gone) = Len(some) - place
        /\ \A i \in 1..(Len(some) - place) : gone[i] = some[place + i]
    <2>1. \A i \in (place + 1)..Len(some) : some[i] \in Blade
      BY <1>1
    <2>2. place + 1 \in Int /\ Len(some) \in Int
      BY <1>1
    <2>3. /\ gone \in Seq(Blade)
          /\ Len(gone) = IF place + 1 <= Len(some) THEN Len(some) - (place + 1) + 1 ELSE 0
          /\ \A i \in 1..(Len(some) - (place + 1) + 1) : gone[i] = some[(place + 1) + i - 1]
      BY <2>1, <2>2, SubSeqProperties
    <2>4. Len(some) - (place + 1) + 1 = Len(some) - place /\ place <= Len(some)
      BY <1>1
    <2>5. Len(gone) = Len(some) - place
      <3> DEFINE l == Len(some)
      <3>1. l \in Nat /\ place \in Nat /\ place <= l
        BY <1>1
      <3>2. Len(gone) = IF place + 1 <= l THEN l - (place + 1) + 1 ELSE 0
        BY <2>3
      <3> HIDE DEF l
      <3>3. Len(gone) = l - place
        BY <3>1, <3>2
      <3> QED
        BY <3>3 DEF l
    <2>6. ASSUME NEW i \in 1..(Len(some) - place) PROVE gone[i] = some[place + i]
      BY <1>1, <2>3, <2>4
    <2> QED
      BY <2>3, <2>5, <2>6
  <1> HIDE DEF past, gone
  <1>4. /\ next \in Seq(Blade) /\ Len(next) = place + 1
        /\ DOMAIN next = 1..(place + 1)
        /\ \A i \in 1..place : next[i] = some[i]
        /\ next[place + 1] = b
    BY <1>1, <1>2, AppendProperties, LenProperties
  <1> HIDE DEF next
  <1>5. DOMAIN gone = 1..(Len(some) - place)
    BY <1>3, LenProperties
  <1>6. \A id : id \in Blades!DetailsOf(gone) <=>
          \E n \in (place + 1)..Len(some) : IsDetail(some[n]) /\ some[n].id = id
    <2>1. ASSUME NEW id, NEW n \in (place + 1)..Len(some), IsDetail(some[n]), some[n].id = id
          PROVE  id \in Blades!DetailsOf(gone)
      <3>1. n - place \in DOMAIN gone /\ gone[n - place] = some[n]
        BY <1>1, <1>3, <1>5
      <3> QED
        BY <3>1, <2>1, DetailsAre
    <2>2. ASSUME NEW id, id \in Blades!DetailsOf(gone)
          PROVE  \E n \in (place + 1)..Len(some) : IsDetail(some[n]) /\ some[n].id = id
      <3>1. PICK i \in DOMAIN gone : IsDetail(gone[i]) /\ gone[i].id = id
        BY <2>2, DetailsAre
      <3>2. place + i \in (place + 1)..Len(some) /\ gone[i] = some[place + i]
        BY <3>1, <1>1, <1>3, <1>5
      <3> QED
        BY <3>1, <3>2, <1>1
    <2> QED
      BY <2>1, <2>2
  <1>7. \A id : id \in Blades!DetailsOf(next) <=>
          \/ \E n \in 1..place : IsDetail(some[n]) /\ some[n].id = id
          \/ IsDetail(b) /\ b.id = id
    BY <1>1, <1>4, DetailsAre
  <1>8. \A m, n \in DOMAIN some :
          IsDetail(some[m]) /\ IsDetail(some[n]) /\ some[m].id = some[n].id => m = n
    BY DEF Proper
  <1>9. \A id : id \in Blades!DetailsOf(some) /\ id \notin Blades!DetailsOf(gone) <=>
          \E n \in 1..place : IsDetail(some[n]) /\ some[n].id = id
    <2>1. ASSUME NEW id, id \in Blades!DetailsOf(some), id \notin Blades!DetailsOf(gone)
          PROVE  \E n \in 1..place : IsDetail(some[n]) /\ some[n].id = id
      <3>1. PICK n \in DOMAIN some : IsDetail(some[n]) /\ some[n].id = id
        BY <2>1, DetailsAre
      <3>2. n \notin (place + 1)..Len(some)
        BY <3>1, <2>1, <1>6
      <3>3. n \in 1..place
        BY <3>1, <3>2, <1>1
      <3> QED
        BY <3>1, <3>3
    <2>2. ASSUME NEW id, NEW n \in 1..place, IsDetail(some[n]), some[n].id = id
          PROVE  id \in Blades!DetailsOf(some) /\ id \notin Blades!DetailsOf(gone)
      <3>1. n \in DOMAIN some
        BY <1>1
      <3>2. ASSUME NEW m \in (place + 1)..Len(some), IsDetail(some[m]), some[m].id = id
            PROVE  FALSE
        BY <3>1, <3>2, <2>2, <1>1, <1>8
      <3> QED
        BY <3>1, <3>2, <2>2, <1>6, DetailsAre
    <2> QED
      BY <2>1, <2>2
  <1>10. Blades!DetailsOf(gone) \subseteq Blades!DetailsOf(some)
    BY <1>1, <1>6, DetailsAre
  <1>11. Blades!DetailsOf(next) = (Blades!DetailsOf(some) \ Blades!DetailsOf(gone))
                             \cup (IF IsDetail(b) THEN {b.id} ELSE {})
    BY <1>7, <1>9
  <1>12. \A n \in 1..place : n \in DOMAIN some
    BY <1>1
  <1>13. \A n \in DOMAIN some : some[n].id <= high /\ some[n].id \in Nat
    BY <1>1, BladeFields DEF Proper
  <1>14. ASSUME NEW m \in DOMAIN next, NEW n \in DOMAIN next,
                IsDetail(next[m]), IsDetail(next[n]), next[m].id = next[n].id
         PROVE  m = n
    <2>1. b.id \in Nat
      BY BladeFields
    <2>2. (m \in 1..place \/ m = place + 1) /\ (n \in 1..place \/ n = place + 1)
      BY <1>1, <1>4
    <2>3. CASE m \in 1..place /\ n \in 1..place
      BY <2>3, <1>4, <1>8, <1>12, <1>14
    <2>4. CASE m = place + 1 /\ n = place + 1
      BY <2>4
    <2>5. CASE m \in 1..place /\ n = place + 1
      BY <2>1, <2>5, <1>4, <1>12, <1>13, <1>14
    <2>6. CASE n \in 1..place /\ m = place + 1
      BY <2>1, <2>6, <1>4, <1>12, <1>13, <1>14
    <2> QED
      BY <2>2, <2>3, <2>4, <2>5, <2>6
  <1>15. ASSUME NEW n \in DOMAIN next, next[n].kind = "columns"
         PROVE  Opener(next, n)
    <2>1. CASE n = place + 1
      <3>1. PICK m \in 1..place : IsDetail(some[m]) /\ some[m].id = b.id
        BY <2>1, <1>4, <1>15
      <3>2. m < n /\ m \in DOMAIN next /\ next[m] = some[m] /\ next[n] = b
        BY <2>1, <1>1, <1>4
      <3> QED
        BY <3>1, <3>2 DEF Opener
    <2>2. CASE n \in 1..place
      <3>1. next[n] = some[n] /\ n \in DOMAIN some
        BY <2>2, <1>4, <1>12
      <3>2. PICK m \in DOMAIN some : m < n /\ IsDetail(some[m]) /\ some[m].id = some[n].id
        BY <3>1, <1>15 DEF Proper, Opener
      <3>3. m \in 1..place /\ m \in DOMAIN next
        BY <2>2, <3>2, <1>1, <1>4
      <3> QED
        BY <3>1, <3>2, <3>3, <1>4 DEF Opener
    <2> QED
      BY <2>1, <2>2, <1>1, <1>4
  <1>16. \A n \in DOMAIN next : next[n].id <= top
    <2> SUFFICES ASSUME NEW n \in DOMAIN next PROVE next[n].id <= top
      OBVIOUS
    <2>1. CASE n = place + 1
      BY <2>1, <1>4
    <2>2. CASE n \in 1..place
      BY <2>2, <1>4, <1>12, <1>13
    <2> QED
      BY <2>1, <2>2, <1>1, <1>4
  <1>17. Proper(next, top)
    BY <1>4, <1>14, <1>15, <1>16 DEF Proper
  <1> QED
    BY <1>4, <1>10, <1>11, <1>17 DEF past, next, gone

(* resource_detail_entry_mut                                               *)

LEMMA Marked ==
  ASSUME NEW high \in Nat, Proper(blades, high), NEW id,
         NEW shows \in {"spinner", "object", "error"}
  PROVE  /\ Proper(Blades!Shown(shows, id), high)
         /\ Len(Blades!Shown(shows, id)) = Len(blades)
         /\ Blades!DetailsOf(Blades!Shown(shows, id)) = Blades!DetailsOf(blades)
  <1> DEFINE next == Blades!Shown(shows, id)
  <1>1. /\ Len(blades) \in Nat /\ DOMAIN blades = 1..Len(blades)
        /\ \A n \in DOMAIN blades : blades[n] \in Blade
    BY ProperGives
  <1>2. ASSUME NEW b \in Blade, b.kind = "detail"
        PROVE  LET c == [b EXCEPT !.shows = shows] IN
                 c \in Blade /\ c.kind = b.kind /\ c.id = b.id
    BY <1>2, BladeFields DEF Blades!Detail, Blade
  <1>3. \A n \in DOMAIN blades :
          next[n] \in Blade /\ next[n].kind = blades[n].kind /\ next[n].id = blades[n].id
    <2> SUFFICES ASSUME NEW n \in DOMAIN blades
                 PROVE  /\ next[n] \in Blade /\ next[n].kind = blades[n].kind
                        /\ next[n].id = blades[n].id
      OBVIOUS
    <2>1. CASE blades[n].kind = "detail" /\ blades[n].id = id
      BY <2>1, <1>1, <1>2 DEF Blades!Shown
    <2>2. CASE ~(blades[n].kind = "detail" /\ blades[n].id = id)
      BY <2>2, <1>1 DEF Blades!Shown
    <2> QED
      BY <2>1, <2>2
  <1>4. next = [n \in 1..Len(blades) |-> next[n]]
    BY <1>1 DEF Blades!Shown
  <1> HIDE DEF next
  <1>5. next \in Seq(Blade)
    BY <1>1, <1>3, <1>4, IsASeq
  <1>6. DOMAIN next = DOMAIN blades /\ Len(next) = Len(blades)
    BY <1>1, <1>4, <1>5, LenProperties
  <1>7. Blades!DetailsOf(next) = Blades!DetailsOf(blades)
    <2>1. \A d : d \in Blades!DetailsOf(next) <=> d \in Blades!DetailsOf(blades)
      BY <1>3, <1>6, DetailsAre DEF IsDetail
    <2> QED
      BY <2>1
  <1>8. Proper(next, high)
    BY <1>3, <1>5, <1>6 DEF Proper, Opener, IsDetail
  <1> QED
    BY <1>6, <1>7, <1>8 DEF next

(* The history without an inspector and its column settings.               *)

LEMMA Removed ==
  ASSUME NEW some, NEW high \in Nat, Proper(some, high), NEW id \in Blades!Ids
  PROVE  /\ Proper(Blades!Without(id, some), high)
         /\ Blades!DetailsOf(Blades!Without(id, some)) = Blades!DetailsOf(some) \ {id}
  <1> DEFINE kept == Kept(id, some)
             rest == Blades!Without(id, some)
  <1>1. /\ Len(some) \in Nat /\ DOMAIN some = 1..Len(some)
        /\ \A n \in DOMAIN some : some[n] \in Blade
    BY ProperGives
  <1>2. /\ rest \in Seq(Blade) /\ Len(rest) \in Nat
        /\ \A k \in 1..Len(rest) :
             \E n \in kept : rest[k] = some[n] /\ Rank(kept, n) = k
        /\ \A n \in kept : Rank(kept, n) \in 1..Len(rest) /\ rest[Rank(kept, n)] = some[n]
        /\ \A m, n \in kept : m < n <=> Rank(kept, m) < Rank(kept, n)
    BY WithoutIs DEF Proper
  <1>3. DOMAIN rest = 1..Len(rest)
    BY <1>2, LenProperties
  <1>4. \A n : n \in kept <=> n \in DOMAIN some /\ some[n].id # id
    BY DEF Kept, Blades!Of
  <1> HIDE DEF kept, rest
  <1>5. \A d : d \in Blades!DetailsOf(rest) <=> d \in Blades!DetailsOf(some) \ {id}
    <2>1. ASSUME NEW d, d \in Blades!DetailsOf(rest) PROVE d \in Blades!DetailsOf(some) \ {id}
      <3>1. PICK k \in DOMAIN rest : IsDetail(rest[k]) /\ rest[k].id = d
        BY <2>1, DetailsAre
      <3>2. PICK n \in kept : rest[k] = some[n]
        BY <3>1, <1>2, <1>3
      <3> QED
        BY <3>1, <3>2, <1>4, DetailsAre
    <2>2. ASSUME NEW d, d \in Blades!DetailsOf(some), d # id PROVE d \in Blades!DetailsOf(rest)
      <3>1. PICK n \in DOMAIN some : IsDetail(some[n]) /\ some[n].id = d
        BY <2>2, DetailsAre
      <3>2. n \in kept
        BY <3>1, <2>2, <1>4
      <3>3. Rank(kept, n) \in DOMAIN rest /\ rest[Rank(kept, n)] = some[n]
        BY <3>2, <1>2, <1>3
      <3> QED
        BY <3>1, <3>3, DetailsAre
    <2> QED
      BY <2>1, <2>2
  <1>6. ASSUME NEW j \in DOMAIN rest, NEW k \in DOMAIN rest,
               IsDetail(rest[j]), IsDetail(rest[k]), rest[j].id = rest[k].id
        PROVE  j = k
    <2>1. PICK m \in kept : rest[j] = some[m] /\ Rank(kept, m) = j
      BY <1>2, <1>3
    <2>2. PICK n \in kept : rest[k] = some[n] /\ Rank(kept, n) = k
      BY <1>2, <1>3
    <2>3. m = n
      BY <2>1, <2>2, <1>4, <1>6 DEF Proper
    <2> QED
      BY <2>1, <2>2, <2>3
  <1>7. ASSUME NEW k \in DOMAIN rest, rest[k].kind = "columns"
        PROVE  Opener(rest, k)
    <2>1. PICK n \in kept : rest[k] = some[n] /\ Rank(kept, n) = k
      BY <1>2, <1>3
    <2>2. PICK m \in DOMAIN some : m < n /\ IsDetail(some[m]) /\ some[m].id = some[n].id
      BY <2>1, <1>4, <1>7 DEF Proper, Opener
    <2>3. m \in kept
      BY <2>1, <2>2, <1>4
    <2>4. /\ Rank(kept, m) < k /\ Rank(kept, m) \in DOMAIN rest
          /\ rest[Rank(kept, m)] = some[m]
      BY <2>1, <2>2, <2>3, <1>2, <1>3
    <2> QED
      BY <2>1, <2>2, <2>4 DEF Opener
  <1>8. \A k \in DOMAIN rest : rest[k].id <= high
    <2> SUFFICES ASSUME NEW k \in DOMAIN rest PROVE rest[k].id <= high
      OBVIOUS
    <2>1. PICK n \in kept : rest[k] = some[n]
      BY <1>2, <1>3
    <2> QED
      BY <2>1, <1>4 DEF Proper
  <1>9. Proper(rest, high)
    BY <1>2, <1>6, <1>7, <1>8 DEF Proper
  <1>10. Blades!DetailsOf(rest) = Blades!DetailsOf(some) \ {id}
    BY <1>5
  <1> QED
    BY <1>9, <1>10 DEF rest

(* Where the current blade is then.                                        *)

LEMMA PlaceKept ==
  ASSUME NEW some, NEW high \in Nat, Proper(some, high), NEW id \in Blades!Ids,
         NEW place \in 1..Len(some), ~Blades!Of(id, some[place])
  PROVE  LET before == Len(Blades!Without(id, SubSeq(some, 1, place - 1))) IN
           before \in Nat /\ before + 1 <= Len(Blades!Without(id, some))
  <1> DEFINE past == SubSeq(some, 1, place - 1)
             kept == Kept(id, some)
             ahead == Kept(id, past)
  <1>1. /\ Len(some) \in Nat /\ DOMAIN some = 1..Len(some)
        /\ \A n \in DOMAIN some : some[n] \in Blade
    BY ProperGives
  <1>2. /\ past \in Seq(Blade) /\ Len(past) = place - 1
        /\ \A i \in 1..(place - 1) : past[i] = some[i]
    BY <1>1, SubSeqProperties
  <1>3. DOMAIN past = 1..(place - 1)
    BY <1>2, LenProperties
  <1>4. /\ Len(Blades!Without(id, some)) = Cardinality(kept) /\ Cardinality(kept) \in Nat
        /\ Len(Blades!Without(id, past)) = Cardinality(ahead) /\ Cardinality(ahead) \in Nat
    BY <1>2, WithoutIs DEF Proper
  <1>5. \A n : n \in ahead <=> n \in 1..(place - 1) /\ ~Blades!Of(id, some[n])
    BY <1>2, <1>3 DEF Kept
  <1>6. \A n : n \in kept <=> n \in 1..Len(some) /\ ~Blades!Of(id, some[n])
    BY <1>1 DEF Kept
  <1> HIDE DEF kept, ahead, past
  <1>7. IsFiniteSet(kept)
    <2>1. kept \subseteq 1..Len(some) /\ IsFiniteSet(1..Len(some))
      BY <1>1, <1>6, FS_Interval
    <2> QED
      BY <2>1, FS_Subset
  <1>8. ahead \cup {place} \subseteq kept /\ place \notin ahead
    BY <1>1, <1>5, <1>6
  <1>9. IsFiniteSet(ahead)
    BY <1>7, <1>8, FS_Subset
  <1>10. Cardinality(ahead \cup {place}) = Cardinality(ahead) + 1
    BY <1>8, <1>9, FS_AddElement
  <1>11. Cardinality(ahead \cup {place}) <= Cardinality(kept)
    BY <1>7, <1>8, FS_Subset
  <1> QED
    BY <1>4, <1>10, <1>11 DEF past

-----------------------------------------------------------------------------
(* The inductive invariant.                                                *)

StartOf(id, step) == [kind |-> "start", id |-> id, step |-> step]
StopOf(id)        == [kind |-> "stop", id |-> id, step |-> "queued"]

Queued(id)   == StartOf(id, "queued") \in commands
Spawned(id)  == StartOf(id, "spawned") \in commands
Stopping(id) == StopOf(id) \in commands

Given == 1..nextId

(* Commands, watches and results are of ids that were given out.           *)
Named(c) ==
  \E id \in Given :
    c = StartOf(id, "queued") \/ c = StartOf(id, "spawned") \/ c = StopOf(id)

Worker ==
  /\ nextId \in 0..MaxDetails
  /\ \A c \in commands : Named(c)
  /\ running \subseteq Given /\ registry \subseteq running
  /\ listing \subseteq Given
  /\ overtaken \subseteq Blades!Ids /\ forgotten \subseteq Blades!Ids

Channel ==
  /\ results \in Seq(Blades!Result)
  /\ \A r \in DOMAIN results : results[r].id \in Given
  /\ bladesUsed \in 0..MaxBladeEvents

(* An inspector is in the history of a cluster that knows one is open.     *)
Fits(some, place, high, open) ==
  /\ Proper(some, high)
  /\ place \in 0..Len(some)
  /\ place = 0 <=> some = <<>>
  /\ Blades!DetailsOf(some) # {} => open

History == Fits(blades, at, nextId, panel) /\ {closing, panel} \subseteq BOOLEAN

(* An inspector in the history has its watch, or will have, and nobody     *)
(* stops it; what runs or is to run without one is to be stopped.          *)
TrackedOf(id) ==
  /\ id \in Blades!DetailsOf(blades) =>
       /\ Queued(id) \/ Spawned(id) \/ id \in registry
       /\ ~Stopping(id)
  /\ id \in running \/ Queued(id) \/ Spawned(id) =>
       \/ id \in Blades!DetailsOf(blades) \cup overtaken \cup forgotten
       \/ Stopping(id)
  /\ id \in registry => ~Queued(id) /\ ~Spawned(id)
  /\ Spawned(id) => id \in running /\ ~Queued(id)

Tracked == \A id \in Given : TrackedOf(id)

BladesInv == Worker /\ Channel /\ History /\ Tracked

LEMMA GivenAre ==
  ASSUME Worker
  PROVE  /\ nextId \in Nat /\ nextId <= MaxDetails /\ Given \subseteq Blades!Ids
         /\ \A id \in Given : id \in Nat /\ id >= 1 /\ id <= nextId
  BY DEF Worker, Given, Blades!Ids

(* What the user, and results, do to the history: inspectors are gone and  *)
(* told to stop, are lost, or one is new.                                  *)
Turns(gone, lost, fresh) ==
  /\ gone \subseteq Given /\ lost \subseteq Given
  /\ nextId' \in 0..MaxDetails /\ nextId' \in {nextId, nextId + 1}
  /\ fresh = {} \/ (fresh = {nextId + 1} /\ nextId' = nextId + 1)
  /\ Fits(blades', at', nextId', panel') /\ {closing', panel'} \subseteq BOOLEAN
  /\ Blades!DetailsOf(blades') = (Blades!DetailsOf(blades) \ (gone \cup lost)) \cup fresh
  /\ commands' = commands \cup {StopOf(id) : id \in gone}
                          \cup {StartOf(id, "queued") : id \in fresh}
  /\ forgotten' = forgotten \cup lost
  /\ UNCHANGED <<running, registry, listing, overtaken>>

LEMMA CommandsTold ==
  ASSUME NEW gone, NEW lost, NEW fresh, Turns(gone, lost, fresh)
  PROVE  \A id : /\ Queued(id)' <=> Queued(id) \/ id \in fresh
                 /\ Spawned(id)' <=> Spawned(id)
                 /\ Stopping(id)' <=> Stopping(id) \/ id \in gone
  BY DEF Turns, Queued, Spawned, Stopping, StartOf, StopOf

LEMMA UnknownId ==
  ASSUME Worker, NEW id, id \notin Given
  PROVE  /\ ~Queued(id) /\ ~Spawned(id) /\ ~Stopping(id)
         /\ id \notin running /\ id \notin registry
  <1>1. ASSUME NEW c \in commands, c.id = id PROVE FALSE
    <2>1. PICK i \in Given : c = StartOf(i, "queued") \/ c = StartOf(i, "spawned")
                               \/ c = StopOf(i)
      BY <1>1 DEF Worker, Named
    <2> QED
      BY <2>1, <1>1 DEF StartOf, StopOf
  <1> QED
    BY <1>1 DEF Queued, Spawned, Stopping, StartOf, StopOf, Worker

LEMMA TurnsKeep ==
  ASSUME Worker, History, Tracked,
         NEW gone, NEW lost, NEW fresh, Turns(gone, lost, fresh)
  PROVE  Worker' /\ History' /\ Tracked'
  <1>1. History'
    BY DEF Turns, History
  <1>2. nextId \in Nat /\ nextId <= MaxDetails /\ Given \subseteq Blades!Ids
    BY GivenAre
  <1>3. /\ Given \subseteq Given' /\ fresh \subseteq Given' /\ Given' \subseteq Given \cup {nextId + 1}
        /\ nextId + 1 \notin Given /\ nextId' \in 0..MaxDetails
    BY <1>2 DEF Turns, Given
  <1>4. \A c \in commands' : Named(c)'
    <2> SUFFICES ASSUME NEW c \in commands' PROVE Named(c)'
      OBVIOUS
    <2>1. CASE c \in commands
      BY <2>1, <1>3 DEF Worker, Named
    <2>2. CASE c \notin commands
      BY <2>2, <1>3 DEF Turns, Named
    <2> QED
      BY <2>1, <2>2
  <1>5. Worker'
    BY <1>2, <1>3, <1>4 DEF Worker, Turns, Blades!Ids
  <1>6. \A id : /\ Queued(id)' <=> Queued(id) \/ id \in fresh
                /\ Spawned(id)' <=> Spawned(id)
                /\ Stopping(id)' <=> Stopping(id) \/ id \in gone
    BY CommandsTold
  <1>7. ASSUME NEW id \in Given PROVE TrackedOf(id)'
    BY <1>3, <1>6 DEF Tracked, Turns, TrackedOf
  <1>8. ASSUME NEW id \in Given', id \notin Given PROVE TrackedOf(id)'
    BY <1>3, <1>8, UnknownId, <1>2, ProperGives, <1>6 DEF History, Fits, Turns,
       TrackedOf
  <1>9. Tracked'
    BY <1>7, <1>8 DEF Tracked
  <1> QED
    BY <1>1, <1>5, <1>9

-----------------------------------------------------------------------------
(* What each step does to the history.                                     *)

LEMMA HistoryIs ==
  ASSUME Worker, History
  PROVE  /\ nextId \in Nat /\ Proper(blades, nextId)
         /\ Len(blades) \in Nat /\ DOMAIN blades = 1..Len(blades)
         /\ \A n \in DOMAIN blades : blades[n] \in Blade
         /\ Blades!DetailsOf(blades) \subseteq Given
  <1>1. nextId \in Nat /\ nextId <= MaxDetails
    BY GivenAre
  <1>2. Proper(blades, nextId)
    BY DEF History, Fits
  <1>3. \A id \in Blades!DetailsOf(blades) : id \in Blades!Ids /\ id <= nextId
    BY <1>1, <1>2, ProperGives
  <1>4. Blades!DetailsOf(blades) \subseteq Given
    BY <1>1, <1>3 DEF Blades!Ids, Given
  <1> QED
    BY <1>1, <1>2, <1>4, ProperGives

LEMMA StopsAre ==
  ASSUME NEW some
  PROVE  Blades!Stops(some) = {StopOf(id) : id \in Blades!DetailsOf(some)}
  BY DEF Blades!Stops, StopOf

LEMMA NewDetailIs ==
  ASSUME Worker, nextId < MaxDetails, NEW res \in Resources
  PROVE  /\ Blades!NewDetail(res) \in Blade /\ IsDetail(Blades!NewDetail(res))
         /\ Blades!NewDetail(res).kind = "detail" /\ Blades!NewDetail(res).id = nextId + 1
         /\ nextId + 1 \in 0..MaxDetails
         /\ Blades!Start(nextId + 1) = StartOf(nextId + 1, "queued")
  <1>1. nextId \in Nat /\ MaxDetails \in Nat
    BY GivenAre
  <1>2. nextId + 1 \in Blades!Ids
    BY <1>1 DEF Blades!Ids
  <1> QED
    BY <1>1, <1>2 DEF Blades!NewDetail, Blade, Blades!Detail, IsDetail, Blades!Start, StartOf

LEMMA OtherIs ==
  Blades!Other \in Blade /\ Blades!Other.kind = "other" /\ ~IsDetail(Blades!Other) /\ Blades!Other.id = 0
  BY DEF Blades!Other, Blade, IsDetail

LEMMA Emptied ==
  ASSUME Worker, History, Blades!Closed, panel' \in BOOLEAN, nextId' = nextId,
         commands' = commands \cup Blades!Stops(blades),
         UNCHANGED <<running, registry, listing, overtaken, forgotten>>
  PROVE  Turns(Blades!DetailsOf(blades), {}, {})
  <1>1. /\ nextId \in Nat /\ nextId \in 0..MaxDetails
        /\ Blades!DetailsOf(blades) \subseteq Given
    BY HistoryIs DEF Worker
  <1>2. blades' = <<>> /\ at' = 0 /\ closing' = FALSE
    BY DEF Blades!Closed
  <1>3. Proper(<<>>, nextId) /\ Blades!DetailsOf(<<>>) = {} /\ Len(<<>>) = 0
    BY <1>1, NoBlades
  <1>4. Fits(blades', at', nextId', panel')
    BY <1>2, <1>3 DEF Fits
  <1>5. {StopOf(id) : id \in Blades!DetailsOf(blades)} = Blades!Stops(blades)
    BY StopsAre
  <1> QED
    BY <1>1, <1>2, <1>3, <1>4, <1>5 DEF Turns

LEMMA Rooted ==
  ASSUME Worker, History, NEW b \in Blade, b.kind # "columns",
         Blades!Root(b), panel' \in BOOLEAN, IsDetail(b) => panel',
         NEW fresh, fresh = (IF IsDetail(b) THEN {nextId + 1} ELSE {}),
         nextId' = (IF IsDetail(b) THEN nextId + 1 ELSE nextId),
         nextId' \in 0..MaxDetails, IsDetail(b) => b.id = nextId + 1,
         commands' = commands \cup Blades!Stops(blades)
                              \cup {StartOf(id, "queued") : id \in fresh},
         UNCHANGED <<running, registry, listing, overtaken, forgotten>>
  PROVE  Turns(Blades!DetailsOf(blades), {}, fresh)
  <1>1. /\ nextId \in Nat /\ nextId \in 0..MaxDetails
        /\ Blades!DetailsOf(blades) \subseteq Given
    BY HistoryIs DEF Worker
  <1>2. blades' = <<b>> /\ at' = 1 /\ closing' = FALSE
    BY DEF Blades!Root
  <1>3. /\ Proper(<<b>>, b.id) /\ Len(<<b>>) = 1 /\ <<b>> # <<>>
        /\ Blades!DetailsOf(<<b>>) = IF IsDetail(b) THEN {b.id} ELSE {}
    BY OneBlade
  <1>4. b.id \in Nat /\ b.id <= nextId'
    BY <1>1, BladeFields DEF IsDetail
  <1>5. Proper(<<b>>, nextId')
    BY <1>4, <1>3 DEF Proper
  <1>6. Blades!DetailsOf(blades') = fresh
    BY <1>2, <1>3
  <1>7. Fits(blades', at', nextId', panel')
    BY <1>2, <1>3, <1>5, <1>6 DEF Fits
  <1>8. {StopOf(id) : id \in Blades!DetailsOf(blades)} = Blades!Stops(blades)
    BY StopsAre
  <1> QED
    BY <1>1, <1>2, <1>6, <1>7, <1>8 DEF Turns

LEMMA PushedOn ==
  ASSUME Worker, History, NEW b \in Blade, Blades!Foreground, Blades!Push(b),
         panel' \in BOOLEAN, panel' = panel, IsDetail(b) => panel,
         NEW fresh, fresh = (IF IsDetail(b) THEN {nextId + 1} ELSE {}),
         nextId' = (IF IsDetail(b) THEN nextId + 1 ELSE nextId),
         nextId' \in 0..MaxDetails, IsDetail(b) => b.id = nextId + 1,
         b.kind = "columns" => IsDetail(Blades!Current) /\ Blades!Current.id = b.id,
         commands' = commands \cup Blades!Stops(Blades!Discarded)
                              \cup {StartOf(id, "queued") : id \in fresh},
         UNCHANGED <<running, registry, listing, overtaken, forgotten>>
  PROVE  Turns(Blades!DetailsOf(Blades!Discarded), {}, fresh)
  <1>1. /\ nextId \in Nat /\ nextId \in 0..MaxDetails /\ Proper(blades, nextId)
        /\ Len(blades) \in Nat /\ DOMAIN blades = 1..Len(blades)
        /\ \A n \in DOMAIN blades : blades[n] \in Blade
        /\ Blades!DetailsOf(blades) \subseteq Given
    BY HistoryIs DEF Worker
  <1>2. at \in 0..Len(blades) /\ at \in 1..Len(blades)
    BY <1>1 DEF History, Fits, Blades!Foreground
  <1>3. blades' = Append(SubSeq(blades, 1, at), b) /\ at' = at + 1 /\ closing' = FALSE
    BY DEF Blades!Push
  <1>4. b.id \in Nat /\ (b.kind = "other" => b.id = 0)
        /\ b.kind \in {"detail", "columns", "other"}
    BY BladeFields
  <1>5. b.kind = "columns" =>
          \E m \in 1..at : IsDetail(blades[m]) /\ blades[m].id = b.id
    BY <1>2 DEF Blades!Current
  <1>6. nextId' \in Nat /\ nextId <= nextId' /\ (IsDetail(b) => b.id > nextId)
    BY <1>1
  <1>7. b.id <= nextId'
    <2>1. CASE IsDetail(b)
      BY <2>1, <1>1
    <2>2. CASE b.kind = "columns"
      BY <2>2, <1>1, <1>2, <1>6 DEF Blades!Current, Proper
    <2>3. CASE b.kind = "other"
      BY <2>3, <1>4, <1>6
    <2> QED
      BY <2>1, <2>2, <2>3, <1>4 DEF IsDetail
  <1>8. /\ Proper(blades', nextId') /\ Len(blades') = at + 1
        /\ Blades!DetailsOf(blades') = (Blades!DetailsOf(blades) \ Blades!DetailsOf(Blades!Discarded))
                                  \cup (IF IsDetail(b) THEN {b.id} ELSE {})
        /\ Blades!DetailsOf(Blades!Discarded) \subseteq Blades!DetailsOf(blades)
    <2> DEFINE top == nextId'
    <2>1. top \in Nat /\ nextId <= top /\ b.id <= top
      BY <1>6, <1>7
    <2> HIDE DEF top
    <2>2. LET next == Append(SubSeq(blades, 1, at), b)
              gone == SubSeq(blades, at + 1, Len(blades))
          IN  /\ Proper(next, top) /\ Len(next) = at + 1
              /\ Blades!DetailsOf(next) = (Blades!DetailsOf(blades) \ Blades!DetailsOf(gone))
                                     \cup (IF IsDetail(b) THEN {b.id} ELSE {})
              /\ Blades!DetailsOf(gone) \subseteq Blades!DetailsOf(blades)
      BY <2>1, <1>1, <1>2, <1>5, <1>6, Pushed
    <2> QED
      BY <2>2, <1>3 DEF Blades!Discarded, top
  <1>9. Fits(blades', at', nextId', panel')
    <2>1. blades' # <<>> /\ at' # 0 /\ at' \in 0..Len(blades')
      <3>1. Len(<<>>) = 0 /\ Len(blades') = at + 1 /\ at' = at + 1
        BY <1>3, <1>8
      <3>2. at \in Nat
        BY <1>2
      <3> QED
        BY <3>1, <3>2
    <2>2. Blades!DetailsOf(blades') # {} => panel'
      BY <1>8 DEF History, Fits
    <2> QED
      BY <2>1, <2>2, <1>8 DEF Fits
  <1>10. {StopOf(id) : id \in Blades!DetailsOf(Blades!Discarded)} = Blades!Stops(Blades!Discarded)
    BY StopsAre
  <1> QED
    BY <1>1, <1>3, <1>8, <1>9, <1>10 DEF Turns, History

Turned == \E gone, lost, fresh : Turns(gone, lost, fresh)

LEMMA UserTurns ==
  ASSUME Worker, History, Blades!User \/ Blades!CloseFinished
  PROVE  Turned /\ UNCHANGED <<results, bladesUsed>>
  <1>1. /\ nextId \in Nat /\ nextId \in 0..MaxDetails /\ Proper(blades, nextId)
        /\ Len(blades) \in Nat /\ DOMAIN blades = 1..Len(blades)
        /\ \A n \in DOMAIN blades : blades[n] \in Blade
        /\ Blades!DetailsOf(blades) \subseteq Given
        /\ {closing, panel} \subseteq BOOLEAN
        /\ Fits(blades, at, nextId, panel)
    BY HistoryIs DEF Worker, History
  <1>2. ASSUME UNCHANGED <<nextId, commands, running, registry, listing, overtaken,
                           forgotten>>,
               blades' = blades, at' \in 1..Len(blades) \/ at' = at,
               closing' \in BOOLEAN, panel' \in BOOLEAN, panel => panel',
               at' # at => at # 0
        PROVE  Turned
    <2>1. Fits(blades', at', nextId', panel')
      BY <1>1, <1>2 DEF Fits
    <2>2. Turns({}, {}, {})
      BY <2>1, <1>1, <1>2 DEF Turns
    <2> QED
      BY <2>2 DEF Turned
  <1>3. ASSUME NEW res \in Resources, Blades!OpenDetail(res)
        PROVE  Turned /\ UNCHANGED <<results, bladesUsed>>
    BY <1>3, NewDetailIs, Rooted DEF Blades!OpenDetail, Blades!Sends,
       Blades!Keeps, Turned
  <1>4. ASSUME NEW res \in Resources, Blades!Navigate(res)
        PROVE  Turned /\ UNCHANGED <<results, bladesUsed>>
    <2>1. /\ Blades!NewDetail(res) \in Blade /\ IsDetail(Blades!NewDetail(res))
          /\ Blades!NewDetail(res).kind = "detail" /\ Blades!NewDetail(res).id = nextId + 1
          /\ nextId + 1 \in 0..MaxDetails
          /\ Blades!Start(nextId + 1) = StartOf(nextId + 1, "queued")
      BY <1>4, NewDetailIs DEF Blades!Navigate
    <2>2. CASE panel
      <3>1. commands' = commands \cup Blades!Stops(Blades!Discarded)
                          \cup {StartOf(id, "queued") : id \in {nextId + 1}}
        BY <1>4, <2>1, <2>2 DEF Blades!Navigate, Blades!Sends
      <3>2. Turns(Blades!DetailsOf(Blades!Discarded), {}, {nextId + 1})
        BY <1>1, <1>4, <2>1, <2>2, <3>1, PushedOn DEF Blades!Navigate, Blades!Sends, Blades!Keeps
      <3> QED
        BY <1>4, <2>2, <3>2 DEF Turned, Blades!Navigate, Blades!Sends
    <2>3. CASE ~panel
      <3>1. Proper(blades, nextId + 1)
        BY <1>1, BladeFields DEF Proper
      <3>2. Fits(blades', at', nextId', panel')
        BY <1>1, <1>4, <2>3, <3>1 DEF Fits, Blades!Navigate
      <3>3. Turns({}, {}, {})
        BY <1>1, <1>4, <2>1, <2>3, <3>2 DEF Turns, Blades!Navigate, Blades!Sends, Blades!Keeps
      <3> QED
        BY <1>4, <2>3, <3>3 DEF Turned, Blades!Navigate, Blades!Sends
    <2> QED
      BY <2>2, <2>3, <1>1
  <1>5. CASE Blades!OpenOther
    <2>1. Turns(Blades!DetailsOf(blades), {}, {})
      BY <1>1, <1>5, OtherIs, Rooted DEF Blades!OpenOther, Blades!Sends, Blades!Keeps
    <2> QED
      BY <1>5, <2>1 DEF Turned, Blades!OpenOther, Blades!Sends
  <1>6. CASE Blades!PushSettings
    <2>1. CASE Blades!Current.kind = "detail" /\ Blades!Push([kind |-> "columns", id |-> Blades!Current.id])
      <3> DEFINE b == [kind |-> "columns", id |-> Blades!Current.id]
      <3>1. Blades!Current \in Blade
        BY <1>1, <1>6 DEF Blades!PushSettings, Blades!Foreground, Blades!Current, Fits
      <3>2. Blades!Current.id \in Blades!Ids
        BY <2>1, <3>1, BladeFields
      <3>3. b \in Blade /\ b.kind = "columns" /\ b.id = Blades!Current.id /\ ~IsDetail(b)
        BY <3>2 DEF Blade, Blades!Columns, IsDetail
      <3>4. Blades!Push(b) /\ IsDetail(Blades!Current)
        BY <2>1 DEF IsDetail
      <3> HIDE DEF b
      <3>5. Turns(Blades!DetailsOf(Blades!Discarded), {}, {})
        BY <1>1, <1>6, <3>3, <3>4, PushedOn DEF Blades!PushSettings, Blades!Sends, Blades!Keeps
      <3> QED
        BY <1>6, <3>5 DEF Turned, Blades!PushSettings, Blades!Sends
    <2>2. CASE Blades!Push(Blades!Other)
      <3>1. Turns(Blades!DetailsOf(Blades!Discarded), {}, {})
        BY <1>1, <1>6, <2>2, OtherIs, PushedOn DEF Blades!PushSettings, Blades!Sends, Blades!Keeps
      <3> QED
        BY <1>6, <3>1 DEF Turned, Blades!PushSettings, Blades!Sends
    <2> QED
      BY <1>6, <2>1, <2>2 DEF Blades!PushSettings
  <1>7. ASSUME NEW steps \in 1..VisibleHistory, Blades!GoBack(steps)
        PROVE  Turned /\ UNCHANGED <<results, bladesUsed>>
    BY <1>1, <1>7, <1>2 DEF Blades!GoBack, Blades!Foreground, Fits,
       Blades!MoveTo, Blades!worker
  <1>8. CASE Blades!GoForward
    BY <1>1, <1>8, <1>2 DEF Blades!GoForward, Blades!Foreground, Fits,
       Blades!MoveTo, Blades!worker
  <1>9. CASE Blades!BeginClose
    BY <1>1, <1>2, <1>9 DEF Blades!BeginClose, Blades!worker
  <1>10. CASE Blades!CloseFinished
    BY <1>1, <1>10, Emptied DEF Blades!CloseFinished, Blades!Sends,
       Blades!Keeps, Turned
  <1>11. CASE Blades!SelectApiResource
    BY <1>1, <1>11, Emptied DEF Blades!SelectApiResource, Blades!Sends,
       Blades!Keeps, Turned
  <1>12. CASE Blades!SelectOtherCluster
    <2>1. CASE Blades!DetailsOf(blades) # {}
      BY <1>1, <1>12, <2>1, Emptied DEF Blades!SelectOtherCluster, Blades!Sends,
         Blades!Keeps, Turned
    <2>2. CASE Blades!DetailsOf(blades) = {}
      <3>1. Fits(blades', at', nextId', panel')
        BY <1>1, <1>12, <2>2 DEF Fits, Blades!SelectOtherCluster
      <3>2. Turns({}, {}, {})
        BY <1>1, <1>12, <2>2, <3>1 DEF Turns, Blades!SelectOtherCluster, Blades!Sends, Blades!Keeps
      <3> QED
        BY <1>12, <2>2, <3>2 DEF Turned, Blades!SelectOtherCluster, Blades!Sends
    <2> QED
      BY <2>1, <2>2
  <1>13. CASE Blades!SelectClusterAgain
    <2>1. Proper(<<>>, nextId) /\ Blades!DetailsOf(<<>>) = {} /\ Len(<<>>) = 0
      BY <1>1, NoBlades
    <2>2. blades' = <<>> /\ at' = 0 /\ closing' = FALSE /\ UNCHANGED <<panel, nextId>>
      BY <1>13 DEF Blades!SelectClusterAgain, Blades!Closed
    <2>3. Fits(blades', at', nextId', panel')
      BY <2>1, <2>2 DEF Fits
    <2>4. Turns({}, Blades!DetailsOf(blades), {})
      BY <1>1, <1>13, <2>1, <2>2, <2>3 DEF Turns, Blades!SelectClusterAgain, Blades!Sends
    <2> QED
      BY <1>13, <2>4 DEF Turned, Blades!SelectClusterAgain, Blades!Sends
  <1> QED
    BY <1>3, <1>4, <1>5, <1>6, <1>7, <1>8, <1>9, <1>10, <1>11, <1>12, <1>13 DEF Blades!User

LEMMA Received ==
  ASSUME Channel, results # <<>>
  PROVE  /\ Head(results) \in Blades!Result /\ Head(results).id \in Given
         /\ Tail(results) \in Seq(Blades!Result)
         /\ \A r \in DOMAIN Tail(results) : Tail(results)[r].id \in Given
  <1>1. /\ results \in Seq(Blades!Result) /\ Len(results) \in Nat \ {0}
        /\ DOMAIN results = 1..Len(results) /\ Head(results) = results[1]
    BY EmptySeq, LenProperties DEF Channel
  <1>2. /\ Head(results) \in Blades!Result /\ Tail(results) \in Seq(Blades!Result)
        /\ Len(Tail(results)) = Len(results) - 1
        /\ \A i \in 1..Len(Tail(results)) : Tail(results)[i] = results[i + 1]
    BY <1>1, HeadTailProperties
  <1>3. DOMAIN Tail(results) = 1..(Len(results) - 1)
    BY <1>2, LenProperties
  <1>4. \A i \in 1..(Len(results) - 1) : i + 1 \in DOMAIN results
    BY <1>1
  <1> QED
    BY <1>1, <1>2, <1>3, <1>4 DEF Channel

LEMMA ResultTurns ==
  ASSUME Worker, History, Channel, Blades!ApplyResult
  PROVE  Turned /\ results # <<>> /\ results' = Tail(results) /\ UNCHANGED bladesUsed
  <1>1. /\ nextId \in Nat /\ nextId \in 0..MaxDetails /\ Proper(blades, nextId)
        /\ Len(blades) \in Nat /\ DOMAIN blades = 1..Len(blades)
        /\ \A n \in DOMAIN blades : blades[n] \in Blade
        /\ Blades!DetailsOf(blades) \subseteq Given
        /\ {closing, panel} \subseteq BOOLEAN
        /\ Fits(blades, at, nextId, panel)
    BY HistoryIs DEF Worker, History
  <1>2. ASSUME NEW kind, NEW shows \in {"spinner", "object", "error"}, Blades!Apply(kind, shows)
        PROVE  Turned /\ results # <<>> /\ results' = Tail(results) /\ UNCHANGED bladesUsed
    <2>1. /\ Proper(blades', nextId) /\ Len(blades') = Len(blades)
          /\ Blades!DetailsOf(blades') = Blades!DetailsOf(blades)
      BY <1>1, <1>2, Marked DEF Blades!Apply
    <2>2. blades' = <<>> <=> blades = <<>>
      BY <1>1, <2>1, EmptySeq DEF Proper
    <2>3. Fits(blades', at', nextId', panel')
      BY <1>1, <1>2, <2>1, <2>2 DEF Fits, Blades!Apply
    <2>4. Turns({}, {}, {})
      BY <1>1, <1>2, <2>1, <2>3 DEF Turns, Blades!Apply, Blades!worker
    <2> QED
      BY <1>2, <2>4 DEF Turned, Blades!Apply, Blades!Receives
  <1>3. CASE Blades!ApplyDeleted
    <2> DEFINE id == Head(results).id
    <2>1. results # <<>> /\ results' = Tail(results) /\ UNCHANGED bladesUsed
      BY <1>3 DEF Blades!ApplyDeleted, Blades!Receives
    <2>2. id \in Given /\ id \in Blades!Ids
      BY <2>1, Received, GivenAre
    <2> HIDE DEF id
    <2>3. CASE at > 0 /\ Blades!Of(id, Blades!Current)
      BY <1>3, <2>3, Emptied, <2>1 DEF Blades!ApplyDeleted, id, Turned
    <2>4. CASE ~(at > 0 /\ Blades!Of(id, Blades!Current))
      <3>1. /\ blades' = Blades!Without(id, blades)
            /\ at' = IF at = 0 THEN 0 ELSE Len(Blades!Without(id, Blades!Back)) + 1
            /\ commands' = IF at = 0 THEN commands ELSE commands \cup {StopOf(id)}
            /\ UNCHANGED <<closing, panel, nextId, running, registry, listing, overtaken,
                           forgotten>>
        BY <1>3, <2>4 DEF Blades!ApplyDeleted, id, StopOf
      <3>2. /\ Proper(blades', nextId)
            /\ Blades!DetailsOf(blades') = Blades!DetailsOf(blades) \ {id}
        BY <1>1, <2>2, <3>1, Removed
      <3>3. CASE at = 0
        <4>1. blades = <<>> /\ Blades!DetailsOf(blades) = {}
          BY <1>1, <3>3, NoBlades DEF Fits
        <4>2. blades' = <<>>
          <5>1. /\ Len(Blades!Without(id, blades)) = Cardinality(Kept(id, blades))
                /\ Blades!Without(id, blades) \in Seq(Blade)
            BY <1>1, WithoutIs DEF Proper
          <5>2. Kept(id, blades) = {}
            BY <4>1 DEF Kept
          <5>3. Len(blades') = 0 /\ blades' \in Seq(Blade)
            BY <3>1, <5>1, <5>2, FS_EmptySet
          <5> QED
            BY <5>3, EmptySeq
        <4>3. Fits(blades', at', nextId', panel')
          BY <1>1, <3>1, <3>2, <3>3, <4>1, <4>2 DEF Fits
        <4>4. Turns({}, {}, {})
          BY <1>1, <3>1, <3>2, <3>3, <4>1, <4>3 DEF Turns
        <4> QED
          BY <2>1, <4>4 DEF Turned
      <3>4. CASE at # 0
        <4>1. at \in 1..Len(blades) /\ ~Blades!Of(id, blades[at])
          BY <1>1, <2>4, <3>4 DEF Fits, Blades!Current
        <4>2. /\ Len(Blades!Without(id, Blades!Back)) \in Nat
              /\ Len(Blades!Without(id, Blades!Back)) + 1 <= Len(Blades!Without(id, blades))
          BY <1>1, <2>2, <4>1, PlaceKept DEF Blades!Back
        <4>3. /\ at' = Len(Blades!Without(id, Blades!Back)) + 1 /\ at' # 0
              /\ at' \in Nat /\ at' <= Len(blades')
          BY <3>1, <3>4, <4>2
        <4>4. blades' # <<>> /\ at' \in 0..Len(blades')
          BY <3>2, LenProperties, <4>3 DEF Proper
        <4>5. Fits(blades', at', nextId', panel')
          BY <1>1, <3>1, <3>2, <4>3, <4>4 DEF Fits
        <4>6. commands' = commands \cup {StopOf(i) : i \in {id}}
          BY <3>1, <3>4
        <4>7. Turns({id}, {}, {})
          BY <1>1, <2>2, <3>1, <3>2, <4>5, <4>6 DEF Turns
        <4> QED
          BY <2>1, <4>7 DEF Turned
      <3> QED
        BY <3>3, <3>4
    <2> QED
      BY <2>3, <2>4
  <1> QED
    BY <1>2, <1>3 DEF Blades!ApplyResult

LEMMA TableTurns ==
  ASSUME Worker, History, NEW res, Blades!TableDeleted(res)
  PROVE  Turned /\ results' = results /\ bladesUsed < MaxBladeEvents /\ bladesUsed' = bladesUsed + 1
  <1>1. Turns(Blades!DetailsOf(blades), {}, {})
    BY Emptied DEF Blades!TableDeleted
  <1> QED
    BY <1>1 DEF Turned, Blades!TableDeleted

-----------------------------------------------------------------------------
(* The worker, and the watches.                                            *)

LEMMA WorkerSteps ==
  ASSUME Worker, History, Tracked, Blades!WorkerStep
  PROVE  Worker' /\ Tracked' /\ UNCHANGED <<Blades!ui, results, bladesUsed>>
  <1>1. PICK c \in commands :
          \/ /\ c.kind = "start" /\ c.step = "queued"
             /\ commands' = (commands \ {c}) \cup {[c EXCEPT !.step = "spawned"]}
             /\ running' = running \cup {c.id} /\ listing' = listing \cup {c.id}
             /\ UNCHANGED <<Blades!ui, registry, results, bladesUsed, overtaken, forgotten>>
          \/ /\ c.kind = "start" /\ c.step = "spawned"
             /\ commands' = commands \ {c} /\ registry' = registry \cup {c.id}
             /\ UNCHANGED <<Blades!ui, running, listing, results, bladesUsed, overtaken, forgotten>>
          \/ /\ c.kind = "stop" /\ commands' = commands \ {c}
             /\ IF c.id \in registry
                  THEN /\ running' = running \ {c.id} /\ registry' = registry \ {c.id}
                       /\ listing' = listing \ {c.id} /\ UNCHANGED overtaken
                  ELSE /\ overtaken' = overtaken \cup {c.id}
                       /\ UNCHANGED <<running, registry, listing>>
             /\ UNCHANGED <<Blades!ui, results, bladesUsed, forgotten>>
    BY DEF Blades!WorkerStep, Blades!SpawnWatch, Blades!RegisterWatch, Blades!StopWatch
  <1>2. PICK id \in Given :
          c = StartOf(id, "queued") \/ c = StartOf(id, "spawned") \/ c = StopOf(id)
    BY DEF Worker, Named
  <1>3. c.id = id /\ id \in Blades!Ids
    BY <1>2, GivenAre DEF StartOf, StopOf
  <1>4. UNCHANGED <<Blades!ui, results, bladesUsed>> /\ Given' = Given
    BY <1>1 DEF Blades!ui, Given
  <1>5. Blades!DetailsOf(blades') = Blades!DetailsOf(blades) /\ nextId' = nextId
    BY <1>4 DEF Blades!ui
  <1>6. CASE c = StartOf(id, "queued")
    <2>1. /\ commands' = (commands \ {StartOf(id, "queued")}) \cup {StartOf(id, "spawned")}
          /\ running' = running \cup {id} /\ listing' = listing \cup {id}
          /\ UNCHANGED <<registry, overtaken, forgotten>>
      BY <1>1, <1>6 DEF StartOf
    <2>2. \A d : /\ Queued(d)' <=> Queued(d) /\ d # id
                 /\ Spawned(d)' <=> Spawned(d) \/ d = id
                 /\ Stopping(d)' <=> Stopping(d)
      BY <2>1 DEF Queued, Spawned, Stopping, StartOf, StopOf
    <2>3. \A d \in commands' : Named(d)'
      BY <1>2, <1>4, <2>1 DEF Worker, Named
    <2>4. Worker'
      BY <1>2, <1>4, <1>5, <2>1, <2>3 DEF Worker
    <2>5. Queued(id) /\ ~Spawned(id)
      BY <1>2, <1>6 DEF Queued, Tracked, TrackedOf
    <2>6. Tracked'
      BY <1>4, <1>5, <2>1, <2>2, <2>5 DEF Tracked, TrackedOf
    <2> QED
      BY <1>4, <2>4, <2>6
  <1>7. CASE c = StartOf(id, "spawned")
    <2>1. /\ commands' = commands \ {StartOf(id, "spawned")}
          /\ registry' = registry \cup {id}
          /\ UNCHANGED <<running, listing, overtaken, forgotten>>
      BY <1>1, <1>7 DEF StartOf
    <2>2. \A d : /\ Queued(d)' <=> Queued(d)
                 /\ Spawned(d)' <=> Spawned(d) /\ d # id
                 /\ Stopping(d)' <=> Stopping(d)
      BY <2>1 DEF Queued, Spawned, Stopping, StartOf, StopOf
    <2>3. \A d \in commands' : Named(d)'
      BY <1>4, <2>1 DEF Worker, Named
    <2>4. Spawned(id) /\ id \in running /\ ~Queued(id)
      BY <1>2, <1>7 DEF Spawned, Tracked, TrackedOf
    <2>5. Worker'
      BY <1>4, <1>5, <2>1, <2>3, <2>4 DEF Worker
    <2>6. Tracked'
      BY <1>4, <1>5, <2>1, <2>2, <2>4 DEF Tracked, TrackedOf
    <2> QED
      BY <1>4, <2>5, <2>6
  <1>8. CASE c = StopOf(id)
    <2>1. /\ commands' = commands \ {StopOf(id)} /\ UNCHANGED forgotten
          /\ IF id \in registry
               THEN /\ running' = running \ {id} /\ registry' = registry \ {id}
                    /\ listing' = listing \ {id} /\ UNCHANGED overtaken
               ELSE /\ overtaken' = overtaken \cup {id}
                    /\ UNCHANGED <<running, registry, listing>>
      BY <1>1, <1>3, <1>8 DEF StopOf
    <2>2. \A d : /\ Queued(d)' <=> Queued(d)
                 /\ Spawned(d)' <=> Spawned(d)
                 /\ Stopping(d)' <=> Stopping(d) /\ d # id
      BY <2>1 DEF Queued, Spawned, Stopping, StartOf, StopOf
    <2>3. \A d \in commands' : Named(d)'
      BY <1>4, <2>1 DEF Worker, Named
    <2>4. Stopping(id) /\ id \notin Blades!DetailsOf(blades)
      BY <1>2, <1>8 DEF Stopping, Tracked, TrackedOf
    <2>5. Worker'
      BY <1>3, <1>4, <1>5, <2>1, <2>3 DEF Worker
    <2>6. Tracked'
      BY <1>4, <1>5, <2>1, <2>2, <2>4 DEF Tracked, TrackedOf
    <2> QED
      BY <1>4, <2>5, <2>6
  <1> QED
    BY <1>2, <1>6, <1>7, <1>8

LEMMA WatchReports ==
  ASSUME Worker, Channel, NEW id \in Blades!Ids, Blades!ListObject(id) \/ Blades!DeleteObject(id)
  PROVE  /\ Channel' /\ listing' \subseteq listing
         /\ UNCHANGED <<Blades!ui, commands, running, registry, overtaken, forgotten>>
  <1>1. /\ listing' \subseteq listing
        /\ UNCHANGED <<Blades!ui, commands, running, registry, overtaken, forgotten>>
    BY DEF Blades!ListObject, Blades!DeleteObject, Blades!worker
  <1>2. id \in Given /\ Given' = Given
    BY <1>1 DEF Blades!ListObject, Blades!DeleteObject, Worker, Blades!ui, Given
  <1>3. PICK kind \in {"updated", "deleted", "failed"} :
          results' = Append(results, [kind |-> kind, id |-> id])
    BY DEF Blades!ListObject, Blades!DeleteObject, Blades!Reports
  <1>4. bladesUsed' \in 0..MaxBladeEvents
    BY DEF Channel, Blades!ListObject, Blades!DeleteObject
  <1>5. [kind |-> kind, id |-> id] \in Blades!Result
    BY DEF Blades!Result
  <1>6. results \in Seq(Blades!Result) /\ DOMAIN results = 1..Len(results) /\ Len(results) \in Nat
    BY LenProperties DEF Channel
  <1>7. /\ results' \in Seq(Blades!Result) /\ Len(results') = Len(results) + 1
        /\ \A i \in 1..Len(results) : results'[i] = results[i]
        /\ results'[Len(results) + 1] = [kind |-> kind, id |-> id]
    BY <1>3, <1>5, <1>6, AppendProperties
  <1>8. DOMAIN results' = 1..(Len(results) + 1)
    BY <1>7, LenProperties
  <1>9. \A r \in DOMAIN results' : results'[r].id \in Given'
    <2> SUFFICES ASSUME NEW r \in DOMAIN results' PROVE results'[r].id \in Given
      BY <1>2
    <2>1. r \in 1..Len(results) \/ r = Len(results) + 1
      BY <1>6, <1>8
    <2> QED
      BY <2>1, <1>2, <1>6, <1>7 DEF Channel
  <1> QED
    BY <1>1, <1>4, <1>7, <1>9 DEF Channel

-----------------------------------------------------------------------------

LEMMA BladesStart == Blades!Init => BladesInv
  <1> SUFFICES ASSUME Blades!Init PROVE BladesInv
    OBVIOUS
  <1>1. nextId = 0 /\ Given = {} /\ MaxDetails \in Nat /\ MaxBladeEvents \in Nat
    BY DEF Blades!Init, Given
  <1>2. Worker
    BY <1>1 DEF Blades!Init, Worker
  <1>3. Channel
    BY <1>1 DEF Blades!Init, Channel
  <1>4. Proper(<<>>, 0) /\ Blades!DetailsOf(<<>>) = {} /\ Len(<<>>) = 0
    BY NoBlades
  <1>5. History
    <2>1. blades = <<>> /\ at = 0 /\ closing = FALSE /\ panel = FALSE
      BY DEF Blades!Init
    <2>2. Fits(<<>>, 0, 0, FALSE)
      BY <1>4 DEF Fits
    <2> QED
      BY <2>1, <2>2, <1>1 DEF History
  <1>6. Tracked
    BY <1>1 DEF Tracked
  <1> QED
    BY <1>2, <1>3, <1>5, <1>6 DEF BladesInv

LEMMA ChannelGrows ==
  ASSUME Channel, Given \subseteq Given', bladesUsed' \in 0..MaxBladeEvents,
         results' = results \/ (results # <<>> /\ results' = Tail(results))
  PROVE  Channel'
  BY Received DEF Channel

LEMMA BladesStep == BladesInv /\ [Blades!Next]_Blades!vars => BladesInv'
  <1> SUFFICES ASSUME BladesInv, [Blades!Next]_Blades!vars PROVE BladesInv'
    OBVIOUS
  <1>0. Worker /\ Channel /\ History /\ Tracked
    BY DEF BladesInv
  <1>1. ASSUME Turned,
               bladesUsed' \in 0..MaxBladeEvents,
               results' = results \/ (results # <<>> /\ results' = Tail(results))
        PROVE  BladesInv'
    <2>1. PICK gone, lost, fresh : Turns(gone, lost, fresh)
      BY <1>1 DEF Turned
    <2>2. Worker' /\ History' /\ Tracked'
      BY <1>0, <2>1, TurnsKeep
    <2>3. Given \subseteq Given'
      BY <2>1, <1>0, GivenAre DEF Turns, Given
    <2>4. Channel'
      BY <1>0, <1>1, <2>3, ChannelGrows
    <2> QED
      BY <2>2, <2>4 DEF BladesInv
  <1>2. bladesUsed \in 0..MaxBladeEvents /\ MaxBladeEvents \in Nat
    BY <1>0 DEF Channel
  <1>3. CASE Blades!User \/ Blades!CloseFinished
    BY <1>0, <1>1, <1>2, <1>3, UserTurns
  <1>4. CASE Blades!ApplyResult
    BY <1>0, <1>1, <1>2, <1>4, ResultTurns
  <1>5. ASSUME NEW res \in Resources, Blades!TableDeleted(res) PROVE BladesInv'
    BY <1>0, <1>5, TableTurns, <1>2, <1>1
  <1>6. ASSUME UNCHANGED Blades!ui PROVE (History <=> History') /\ Given' = Given
    BY <1>6 DEF History, Blades!ui, Given
  <1>7. CASE Blades!WorkerStep
    BY <1>0, <1>7, WorkerSteps, <1>2, <1>6, ChannelGrows DEF BladesInv
  <1>8. ASSUME NEW id \in Blades!Ids, Blades!ListObject(id) \/ Blades!DeleteObject(id) PROVE BladesInv'
    BY <1>0, <1>8, WatchReports, <1>6 DEF Worker, Named, Blades!ui, Tracked,
       TrackedOf, Queued, Spawned, Stopping, BladesInv
  <1>9. CASE UNCHANGED Blades!vars
    <2>1. Worker' /\ Channel'
      BY <1>0, <1>6, <1>9 DEF Worker, Channel, Named, Blades!vars, Blades!ui, Blades!worker
    <2>2. Tracked'
      BY <1>0, <1>6, <1>9 DEF Tracked, TrackedOf, Queued, Spawned, Stopping, Blades!vars, Blades!ui,
                              Blades!worker
    <2> QED
      BY <1>0, <1>6, <1>9, <2>1, <2>2 DEF BladesInv, Blades!vars
  <1> QED
    BY <1>3, <1>4, <1>5, <1>7, <1>8, <1>9 DEF Blades!Next

LEMMA BladesHold ==
  ASSUME BladesInv
  PROVE  Blades!TypeOK /\ Blades!InspectorsOwned /\ Blades!HistoryConsistent
  <1>0. Worker /\ Channel /\ History /\ Tracked
    BY DEF BladesInv
  <1>1. /\ nextId \in Nat /\ Proper(blades, nextId)
        /\ Len(blades) \in Nat /\ DOMAIN blades = 1..Len(blades)
        /\ \A n \in DOMAIN blades : blades[n] \in Blade
        /\ Blades!DetailsOf(blades) \subseteq Given /\ Given \subseteq Blades!Ids
    BY <1>0, HistoryIs, GivenAre
  <1>2. \A n \in DOMAIN blades : blades[n] \in Blades!Detail \cup Blades!Columns \cup {Blades!Other}
    BY <1>1 DEF Blade
  <1>3. /\ at \in 0..Len(blades) /\ (at = 0 <=> blades = <<>>)
        /\ closing \in BOOLEAN /\ panel \in BOOLEAN
        /\ Blades!DetailsOf(blades) # {} => panel
    BY <1>0 DEF History, Fits
  <1>4. commands \subseteq Blades!Command
    <2> SUFFICES ASSUME NEW c \in commands PROVE c \in Blades!Command
      OBVIOUS
    <2>1. PICK id \in Given : c = StartOf(id, "queued") \/ c = StartOf(id, "spawned")
                                \/ c = StopOf(id)
      BY <1>0 DEF Worker, Named
    <2> QED
      BY <2>1, <1>1 DEF Blades!Command, StartOf, StopOf
  <1>5. \A r \in DOMAIN results : results[r] \in Blades!Result
    BY <1>0, LenProperties, ElementOfSeq DEF Channel
  <1>6. Blades!TypeOK
    BY <1>0, <1>1, <1>2, <1>3, <1>4, <1>5 DEF Blades!TypeOK, Worker, Channel
  <1>7. ASSUME Blades!AtRest
        PROVE  /\ Blades!DetailsOf(blades) \subseteq registry
               /\ running \subseteq Blades!DetailsOf(blades) \cup overtaken \cup forgotten
    BY <1>7, <1>0, <1>1 DEF Blades!AtRest, Queued, Spawned, Stopping, Tracked,
       TrackedOf, Worker
  <1>8. Blades!InspectorsOwned
    BY <1>7 DEF Blades!InspectorsOwned
  <1>9. Blades!HistoryConsistent
    <2>1. ASSUME NEW b \in Blades!Blades(blades), b.kind = "columns"
          PROVE  b.id \in Blades!DetailsOf(blades)
      <3>1. PICK n \in DOMAIN blades : b = blades[n]
        BY <2>1 DEF Blades!Blades
      <3>2. PICK m \in DOMAIN blades : IsDetail(blades[m]) /\ blades[m].id = blades[n].id
        BY <2>1, <3>1, <1>1 DEF Proper, Opener
      <3> QED
        BY <3>1, <3>2, DetailsAre
    <2> QED
      BY <2>1, <1>3 DEF Blades!HistoryConsistent
  <1> QED
    BY <1>6, <1>8, <1>9

-----------------------------------------------------------------------------
(* The suite: each part behaves as it does alone.                          *)

LEMMA EditorsParts ==
  EditorsSpec =>
    /\ Spec
    /\ Blades!Init /\ [][Blades!Next]_Blades!vars
    /\ Yaml!Init /\ [][Yaml!Next]_Yaml!vars
<1>1. EditorsInit => Init /\ Blades!Init /\ Yaml!Init
  BY DEF EditorsInit
<1>2. ASSUME [EditorsNext]_partVars
      PROVE  [Next]_vars /\ [Blades!Next]_Blades!vars /\ [Yaml!Next]_Yaml!vars
  <2> USE DEF bladesVars, yamlVars, Blades!vars, Blades!ui, Blades!worker, Yaml!vars
  <2>1. CASE BladesNext
    BY <2>1 DEF BladesNext, OfBlades
  <2>2. CASE DataNext
    BY <2>2 DEF DataNext, OfData
  <2>3. CASE YamlNext
    BY <2>3 DEF YamlNext, OfYaml
  <2>4. CASE UNCHANGED partVars
    BY <2>4 DEF partVars
  <2>5. QED
    BY <1>2, <2>1, <2>2, <2>3, <2>4 DEF EditorsNext
<1>3. QED
  BY <1>1, <1>2, PTL DEF EditorsSpec, Spec

LEMMA EditorsInvariants ==
  EditorsSpec => [](Blades!TypeOK /\ Blades!InspectorsOwned /\ Blades!HistoryConsistent)
                 /\ []YamlInv /\ []TypeOK
<1>1. Blades!Init /\ [][Blades!Next]_Blades!vars => []BladesInv
  BY BladesStart, BladesStep, PTL
<1>2. Yaml!Init /\ [][Yaml!Next]_Yaml!vars => []YamlInv
  BY YamlStart, YamlStep, PTL
<1>3. QED
  BY <1>1, <1>2, BladesHold, EditorsParts, EditorTypeCorrect, PTL

(* Every blade, command and watch is well formed, the data and texts of    *)
(* the editors are those of their resources, and an editor that loads or   *)
(* saves has its request under way.                                        *)
THEOREM EditorsTyped == EditorsSpec => []TypesOK
  BY EditorsInvariants, YamlHolds, PTL DEF TypesOK

(* Once all is told, an inspector in the history has its detail watch, and *)
(* a watch its inspector but for the two ways the code loses one; settings *)
(* of columns never outlive the inspector that opened them.                *)
THEOREM InspectorsHaveWatches == EditorsSpec => []InspectorsOwned
  BY EditorsInvariants, PTL DEF InspectorsOwned

(* prepare_editor_replacement and the API server together: an apply        *)
(* replaces the document that its window was filled with; and "Validated   *)
(* by cluster" is said of the text on display.                             *)
THEOREM DocumentIsKept == EditorsSpec => DocumentKept
<1>1. YamlInv /\ [Yaml!Next]_Yaml!vars =>
        [\A t \in tasks : Yaml!Replace(t) =>
           \/ document'.spec = document.spec
           \/ document.spec = t.base.spec /\ document.uid = t.base.uid]_Yaml!vars
  BY YamlSafe
<1>2. QED
  BY <1>1, EditorsParts, EditorsInvariants, YamlHolds, PTL
     DEF DocumentKept, Yaml!AppliesOverwriteNothing

=============================================================================
