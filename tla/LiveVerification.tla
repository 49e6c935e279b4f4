--------------------------- MODULE LiveVerification ---------------------------
(***************************************************************************)
(* The live checks of the book, each against the pipeline as it stands     *)
(* then: Task 3 looks at the topics before any connector is deployed       *)
(* (EventInspection), Task 4 at the graph the connectors build             *)
(* (SinkVerification), Task 5 at the document the Spark job writes         *)
(* (DocumentVerification).                                                 *)
(***************************************************************************)
EXTENDS EventInspection, SinkVerification, DocumentVerification

CONSTANTS
    FirstContents,    \* by task: what its file may contain to begin with
    EditsAllowed,     \* by task: bounds as MaxEdits
    FaultsAllowed     \* and MaxFaults

Tasks == {"topics", "graph", "documents"}

ASSUME LiveAssumption ==
    /\ FirstContents \in [Tasks -> SUBSET (Contents \cup {Missing})]
    /\ EditsAllowed \in [Tasks -> 0..MaxEdits]
    /\ FaultsAllowed \in [Tasks -> 0..MaxFaults]

VARIABLE task

liveVars == <<vars, sinkVars, inspectionVars, checkVars, documentVars, task>>

LiveInit ==
    /\ task \in Tasks
    /\ PipelineInit /\ InspectionInit /\ VerificationInit /\ DocumentInit
    /\ disk \in [Files -> FirstContents[task]]
    /\ task # "topics" => tool = "notebook"
    /\ task = "documents" => OwnFile

WithinBounds == edits' <= EditsAllowed[task] /\ faults' <= FaultsAllowed[task]

LiveNext ==
    \/ /\ task = "topics" /\ InspectionNext /\ WithinBounds
       /\ UNCHANGED <<sinkVars, checkVars, documentVars, task>>
    \/ /\ task = "graph" /\ VerificationNext /\ WithinBounds
       /\ UNCHANGED <<inspectionVars, documentVars, task>>
    \/ /\ task = "documents" /\ DocumentNext /\ WithinBounds
       /\ UNCHANGED <<sinkVars, inspectionVars, checkVars, task>>

LiveSpec == LiveInit /\ [][LiveNext]_liveVars
=============================================================================
