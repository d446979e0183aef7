------------------------------- MODULE MCBlades -------------------------------
(***************************************************************************)
(* The blades of a cluster and the editors that they open, for TLC.  They  *)
(* share no state and each behaviour is one of a single part: Inspectors,  *)
(* DataEditor or YamlEditor, chosen at the start.                          *)
(***************************************************************************)
EXTENDS DataEditor

CONSTANTS
  Resources, VisibleHistory, MaxDetails, MaxDepth, MaxBladeEvents,
  Specs, FirstSpec, Empty, MaxEvents

VARIABLES
  part,
  blades, at, closing, panel, nextId, commands, running, registry, listing,
  results, bladesUsed, overtaken, forgotten,
  document, yaml, schemas, tasks, yamlUsed

(* The key "flag" is on or off; the others have a value more, so that the   *)
(* user and others can change one and the same to different values.        *)
MCValuesOf(k) == IF k = "flag" THEN {"on", "off"} ELSE {"on", "off", "auto"}

Blades == INSTANCE Inspectors WITH used <- bladesUsed,
                                   MaxEvents <- MaxBladeEvents
Yaml   == INSTANCE YamlEditor WITH object <- document, editor <- yaml,
                                   used <- yamlUsed

ASSUME BladesAssumption == Blades!InspectorAssumption
ASSUME YamlAssumption   == Yaml!YamlAssumption

bladesVars == <<blades, at, closing, panel, nextId, commands, running, registry,
                listing, results, bladesUsed, overtaken, forgotten>>
yamlVars   == <<document, yaml, schemas, tasks, yamlUsed>>
partVars   == <<part, bladesVars, vars, yamlVars>>

EditorsInit ==
  /\ part \in {"blades", "data", "yaml"}
  /\ Blades!Init /\ Init /\ Yaml!Init

OfBlades(A) == part = "blades" /\ A /\ UNCHANGED <<part, vars, yamlVars>>
OfData(A)   == part = "data" /\ A /\ UNCHANGED <<part, bladesVars, yamlVars>>
OfYaml(A)   == part = "yaml" /\ A /\ UNCHANGED <<part, bladesVars, vars>>

BladesNext  == OfBlades(Blades!Next)
DataNext    == OfData(Next)
YamlNext    == OfYaml(Yaml!Next)
EditorsNext == BladesNext \/ DataNext \/ YamlNext

EditorsSpec == EditorsInit /\ [][EditorsNext]_partVars

(* The fairness of the parts: the worker works, the interface applies what *)
(* it answers.                                                             *)
Work  == \/ OfBlades(Blades!WorkerStep) \/ OfData(WorkerStep)
         \/ OfYaml(Yaml!Answering)
Frame == \/ OfBlades(Blades!ApplyResult) \/ OfData(ApplyAnswer)
         \/ OfYaml(Yaml!Frame)

FairEditors ==
  /\ EditorsSpec
  /\ WF_partVars(Work) /\ WF_partVars(Frame)
  /\ WF_partVars(OfBlades(Blades!CloseFinished))
  /\ \A id \in Blades!Ids : WF_partVars(OfBlades(Blades!ListObject(id)))

-----------------------------------------------------------------------------
(* The types of the three parts.                                           *)
TypesOK == Blades!TypeOK /\ TypeOK /\ Yaml!TypeOK

(* Each inspector has its watch, a watch its inspector, and settings theirs:*)
(* Inspectors.                                                             *)
InspectorsOwned == Blades!InspectorsOwned /\ Blades!HistoryConsistent

(* The YAML validated is the YAML shown, and to apply it overwrites nothing*)
(* its user did not see: YamlEditor.                                       *)
DocumentKept == []Yaml!ValidatedIsShown /\ Yaml!AppliesOverwriteNothing

(* An inspector does not stay at its spinner, and an editor does not wait  *)
(* for ever: Inspectors, DataEditor, YamlEditor.                           *)
WaitingEnds ==
  \A id \in Blades!Ids :
    []<>~(Blades!Spins(id) \/ Waits \/ Yaml!Waits)

=============================================================================
