--------------------------- MODULE SinkVerification ---------------------------
(***************************************************************************)
(* What Task 4 checks on the graph: its notebook parses a file with a      *)
(* state database of its own, waits until the connectors report no lag,    *)
(* counts what Neo4j holds of the file and how far the dead letter queue   *)
(* has grown, and does it all again with another new database, expecting   *)
(* the same counts.  The pipeline of CpgPipeline runs meanwhile, and had   *)
(* run before; from the moment the notebook begins, it runs the parser.    *)
(***************************************************************************)
EXTENDS CpgPipeline

CONSTANT MaxDeadLetters   \* bound on the records in connector.errors

ASSUME VerificationAssumption == MaxDeadLetters \in Nat

VARIABLES
    check,      \* how far the notebook is; at the end, its outcome
    replay,     \* it is at the second run
    dlqEnd,     \* the end offset of connector.errors
    dlqBefore,  \* and as the notebook read it before the run
    counts,     \* get_graph_counts after the first run, by file
    primed,     \* history: when it began, the content was new, and both
                \*   groups had committed offsets
    clean       \* history: they were through then, and had left no placeholders

checkVars == <<check, replay, dlqEnd, dlqBefore, counts, primed, clean>>

Checks == {"idle", "ready", "running", "nodes", "edges", "integrity", "dlq",
           "passed", "failed", "timeout", "error"}

VerificationInit ==
    /\ check = "idle"
    /\ replay = FALSE
    /\ dlqEnd = 0 /\ dlqBefore = 0
    /\ counts = [f \in Files |-> [node |-> 0, edge |-> 0]]
    /\ primed = FALSE /\ clean = FALSE
-----------------------------------------------------------------------------
(***************************************************************************)
(* The helpers.                                                            *)
(***************************************************************************)
(* get_connector_lag: LAG as kafka-consumer-groups reports it, log end     *)
(* minus committed offset, but "-", hence 0, before the first commit.      *)
ReportedLag(s, f) == IF committed[s][f] = 0 THEN 0 ELSE Len(log[s][f]) - committed[s][f]

ZeroLag(s) == \A f \in Files : ReportedLag(s, f) = 0

(* get_graph_counts: placeholders are nodes, and know their file.          *)
GraphCounts(f) ==
    [node |-> Cardinality({n \in Nodes : graph[f].node[n] # Absent}),
     edge |-> Cardinality({e \in Edges : graph[f].edge[e] # Absent})]

(* calculate_dlq_delta                                                     *)
DlqDelta == dlqEnd - dlqBefore

(* The generation that the notebook's run parses of a file, and whether it *)
(* is a new one: the topics delete nothing of it.                          *)
Reparsed(f) == <<disk[f], version>>

IsNew(f) ==
    \A s \in Sinks : \A event \in Range(log[s][f]) :
        event.type \in {"NODE_DELETE", "EDGE_DELETE"} => event.gen # Reparsed(f)
-----------------------------------------------------------------------------
(***************************************************************************)
(* The cells.                                                              *)
(***************************************************************************)
NewDatabase == store' = [f \in Files |-> NoRow]

(* The file it parses, assign_reviewers.py, is there and has edges.        *)
Begin ==
    /\ check = "idle" /\ pc = "down"
    /\ \A f \in Files : disk[f] # Missing /\ EdgesOf(Reparsed(f)) # {}
    /\ NewDatabase
    /\ dlqBefore' = dlqEnd
    /\ check' = "ready"
    /\ primed' = \A f \in Files : IsNew(f) /\ \A s \in Sinks : committed[s][f] > 0
    /\ clean' = \A f \in Files : /\ Placeholders(graph[f]) = {}
                                  /\ \A s \in Sinks : committed[s][f] = Len(log[s][f])
    /\ UNCHANGED <<disk, edits, version, log, errors, pc, job, producer, faults,
                   runVars, histVars, sinkVars, replay, dlqEnd, counts>>

(* Mutant: nobody waits for the nodes.                                     *)
AwaitNodesNot ==
    /\ check = "nodes"
    /\ check' = "edges"
    /\ UNCHANGED <<vars, sinkVars, replay, dlqEnd, dlqBefore, counts, primed, clean>>

(* wait_for_zero_lag, for one group and then for the other.                *)
AwaitNodes ==
    /\ check = "nodes" /\ ZeroLag("cpg.nodes")
    /\ check' = "edges"
    /\ UNCHANGED <<vars, sinkVars, replay, dlqEnd, dlqBefore, counts, primed, clean>>

AwaitEdges ==
    /\ check = "edges" /\ ZeroLag("cpg.edges")
    /\ check' = "integrity"
    /\ UNCHANGED <<vars, sinkVars, replay, dlqEnd, dlqBefore, counts, primed, clean>>

AwaitTimesOut ==
    /\ \/ check = "nodes" /\ ~ZeroLag("cpg.nodes")
       \/ check = "edges" /\ ~ZeroLag("cpg.edges")
    /\ check' = "timeout"
    /\ UNCHANGED <<vars, sinkVars, replay, dlqEnd, dlqBefore, counts, primed, clean>>

(* After the first run there must be nodes and edges, and no placeholders; *)
(* the other queries ask for what this graph cannot have, duplicates (see  *)
(* Deployment) and missing properties.                                     *)
CheckIntegrity ==
    /\ check = "integrity" /\ ~ replay
    /\ check' = IF \A f \in Files : /\ GraphCounts(f).node > 0 /\ GraphCounts(f).edge > 0
                                   /\ Placeholders(graph[f]) = {}
                THEN "dlq" ELSE "failed"
    /\ counts' = [f \in Files |-> GraphCounts(f)]
    /\ UNCHANGED <<vars, sinkVars, replay, dlqEnd, dlqBefore, primed, clean>>

(* After the replay there must be what there was.                          *)
CompareCounts ==
    /\ check = "integrity" /\ replay
    /\ check' = IF \A f \in Files : GraphCounts(f) = counts[f] THEN "dlq" ELSE "failed"
    /\ UNCHANGED <<vars, sinkVars, replay, dlqEnd, dlqBefore, counts, primed, clean>>

(* Something was dead-lettered since before the run.                       *)
DlqGrew == DlqDelta > 0

(* Without dead letters the replay is prepared, with another new database. *)
PrepareReplay ==
    /\ check = "dlq" /\ ~ replay
    /\ IF DlqGrew THEN check' = "failed" /\ UNCHANGED <<store, dlqBefore, replay>>
       ELSE check' = "ready" /\ NewDatabase /\ dlqBefore' = dlqEnd /\ replay' = TRUE
    /\ UNCHANGED <<disk, edits, version, log, errors, pc, job, producer, faults,
                   runVars, histVars, sinkVars, dlqEnd, counts, primed, clean>>

CheckReplayDlq ==
    /\ check = "dlq" /\ replay
    /\ check' = IF DlqGrew THEN "failed" ELSE "passed"
    /\ UNCHANGED <<vars, sinkVars, replay, dlqEnd, dlqBefore, counts, primed, clean>>
-----------------------------------------------------------------------------
(***************************************************************************)
(* The pipeline meanwhile; while the notebook runs the file is let alone,  *)
(* or its counts would rightly differ.                                     *)
(***************************************************************************)
Ended == check \in {"passed", "failed", "timeout", "error"}

(* The notebook starts one run of the parser and goes on if it returns 0.  *)
NotebookFollowsRun ==
    IF check = "idle" THEN UNCHANGED check
    ELSE IF pc = "down" /\ pc' = "loop" THEN check = "ready" /\ check' = "running"
    ELSE IF pc # "down" /\ pc' = "down"
    THEN check' = IF EndRun /\ summary.failed = 0 THEN "nodes" ELSE "error"
    ELSE UNCHANGED check

PipelineMeanwhile ==
    /\ ~Ended
    /\ \/ /\ ParserStep
          /\ check # "idle" => disk' = disk /\ version' = version
          /\ NotebookFollowsRun
          /\ UNCHANGED dlqEnd
       \/ \E s \in Sinks, f \in Files :
            /\ \/ \E k \in 1..BatchSize(s) : Put(s, f, k)
               \/ CommitOffset(s, f)
               \/ RestartTask(s, f)
            /\ UNCHANGED <<check, dlqEnd>>
       \/ \E s \in Sinks, f \in Files, k \in 1..MaxDeadLetters :
            /\ dlqEnd + k <= MaxDeadLetters
            /\ DeadLetter(s, f, k)
            /\ dlqEnd' = dlqEnd + k
            /\ UNCHANGED check
    /\ UNCHANGED <<replay, dlqBefore, counts, primed, clean>>

CheckStep ==
    \/ Begin
    \/ AwaitNodes \/ AwaitEdges \/ AwaitTimesOut
    \/ CheckIntegrity \/ CompareCounts
    \/ PrepareReplay \/ CheckReplayDlq

VerificationNext == PipelineMeanwhile \/ CheckStep
-----------------------------------------------------------------------------
(* VerdictIsSound: when the checks pass, Neo4j holds all nodes and edges   *)
(* of the parsed content in its generation, whatever was published before  *)
(* and whatever is redelivered.  When an assertion fails, records were     *)
(* dead-lettered since the notebook began, if the connectors were through  *)
(* then and had left no placeholders.  Both provided that the groups had   *)
(* committed offsets, before which the lag they report means nothing, and  *)
(* that the content had not been published and deleted before.             *)
VerdictIsSound ==
    primed =>
        /\ check = "passed" => \A f \in Files : HoldsNodes(f) /\ HoldsEdges(f)
        /\ check = "failed" /\ clean => DlqGrew
=============================================================================
