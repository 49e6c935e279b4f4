----------------------------- MODULE CpgPipeline -----------------------------
(***************************************************************************)
(* The graph path of the pipeline, end to end: the parser process appends  *)
(* to the topics (ParserRun), and the two Neo4j sink connectors consume    *)
(* cpg.nodes and cpg.edges independently of each other and of the parser,  *)
(* in batches, each applied to the graph in one transaction (GraphSink).   *)
(* Kafka Connect commits offsets now and then; when a task restarts, what  *)
(* follows the committed offset is delivered again.  With                  *)
(* errors.tolerance=all a batch that fails is routed to connector.errors   *)
(* and skipped.                                                            *)
(*                                                                         *)
(* How the pipeline is operated is a parameter: what a run waits for, if   *)
(* for anything, and whether failed publications are retried before the    *)
(* file is edited again.                                                   *)
(***************************************************************************)
EXTENDS ParserRun, GraphSink

CONSTANTS
    NodeBatch, EdgeBatch,  \* neo4j.batch.size of either connector
    Disciplines,           \* what runs may be made to wait for
    RetryBeforeEdit,       \* a file is edited only when its last publication is committed
    MaxLost                \* bound on the generations of which batches are lost

ASSUME PipelineAssumption ==
    /\ NodeBatch \in Nat \ {0}
    /\ EdgeBatch \in Nat \ {0}
    /\ Disciplines \subseteq {"nothing", "offsets"}
    /\ RetryBeforeEdit \in BOOLEAN
    /\ MaxLost \in Nat

(* Builders link only nodes of the same file's graph.                      *)
ASSUME ClosedGraphAssumption ==
    \A g \in Generation : \A e \in EdgesOf(g) : {Src[e], Dst[e]} \subseteq NodesOf(g)

Sinks == {"cpg.nodes", "cpg.edges"}     \* a connector per topic, named by it

VARIABLES
    graph,      \* Neo4j, by file
    position,   \* by sink and file: the records consumed so far
    committed,  \* by sink and file: the offset committed to Kafka
    dlq,        \* the files and generations of what went to connector.errors
    discipline  \* what the runs of this behaviour wait for

sinkVars == <<graph, position, committed, dlq, discipline>>
pipelineVars == <<vars, sinkVars>>

PipelineInit ==
    /\ Init
    /\ graph = [f \in Files |-> EmptyGraph]
    /\ position = [s \in Sinks |-> [f \in Files |-> 0]]
    /\ committed = [s \in Sinks |-> [f \in Files |-> 0]]
    /\ dlq = {}
    /\ discipline \in Disciplines

-----------------------------------------------------------------------------
(***************************************************************************)
(* The connectors.                                                         *)
(***************************************************************************)
BatchSize(s) == IF s = "cpg.nodes" THEN NodeBatch ELSE EdgeBatch

Consume(s, f, k) ==
    /\ k \in 1..BatchSize(s)
    /\ position[s][f] + k <= Len(log[s][f])
    /\ position' = [position EXCEPT ![s][f] = @ + k]

Batch(s, f, k) == SubSeq(log[s][f], position[s][f] + 1, position[s][f] + k)

Put(s, f, k) ==
    /\ Consume(s, f, k)
    /\ graph' = [graph EXCEPT ![f] =
                   IF s = "cpg.nodes" THEN ApplyNodeBatch(@, Batch(s, f, k))
                                      ELSE ApplyEdgeBatch(@, Batch(s, f, k))]
    /\ UNCHANGED <<vars, committed, dlq, discipline>>

(* The statement or the connection to Neo4j fails: the whole batch is      *)
(* reported and skipped.                                                   *)
DeadLetter(s, f, k) ==
    /\ Consume(s, f, k)
    /\ dlq' = dlq \cup {<<f, event.gen>> : event \in Range(Batch(s, f, k))}
    /\ Cardinality(dlq') <= MaxLost
    /\ UNCHANGED <<vars, graph, committed, discipline>>

CommitOffset(s, f) ==
    /\ committed[s][f] # position[s][f]
    /\ committed' = [committed EXCEPT ![s][f] = position[s][f]]
    /\ UNCHANGED <<vars, graph, position, dlq, discipline>>

(* A task restarts, or its partitions move to another worker.              *)
RestartTask(s, f) ==
    /\ position[s][f] # committed[s][f]
    /\ position' = [position EXCEPT ![s][f] = committed[s][f]]
    /\ UNCHANGED <<vars, graph, committed, dlq, discipline>>

-----------------------------------------------------------------------------
Drained(f) == \A s \in Sinks : position[s][f] = Len(log[s][f])

(* A run may wait until the connectors' committed offsets have reached     *)
(* what get_topic_end_offsets returns.                                     *)
OperatedRun ==
    /\ discipline = "offsets" => \A s \in Sinks, f \in Files : committed[s][f] = Len(log[s][f])
    /\ StartRun

OperatedEdit(f, c) ==
    /\ RetryBeforeEdit => f \notin dirty /\ pc = "down"
    /\ Edit(f, c)

ParserStep ==
    /\ \/ OperatedRun \/ Proceed \/ Fault \/ Upgrade
       \/ \E f \in Files, c \in Contents \cup {Missing} : OperatedEdit(f, c)
    /\ UNCHANGED sinkVars

SinkStep ==
    \E s \in Sinks, f \in Files :
        \/ \E k \in 1..BatchSize(s) : Put(s, f, k) \/ DeadLetter(s, f, k)
        \/ CommitOffset(s, f)
        \/ RestartTask(s, f)

PipelineNext == ParserStep \/ SinkStep

PipelineSpec == PipelineInit /\ [][PipelineNext]_pipelineVars

(* A connector that has records consumes some; offsets are committed on an *)
(* interval, hence again and again even if the task keeps restarting.      *)
PipelineFairness ==
    /\ WF_pipelineVars(Proceed /\ UNCHANGED sinkVars)
    /\ WF_pipelineVars(OperatedRun /\ UNCHANGED sinkVars)
    /\ \A s \in Sinks, f \in Files :
         /\ WF_pipelineVars(\E k \in 1..BatchSize(s) : Put(s, f, k))
         /\ SF_pipelineVars(CommitOffset(s, f))

FairPipelineSpec == PipelineSpec /\ PipelineFairness
-----------------------------------------------------------------------------
(***************************************************************************)
(* What the graph owes to the committed state.                             *)
(***************************************************************************)
RowGeneration(row) == <<row.hash, row.version>>

HoldsNodes(f) ==
    /\ RowNodes(store[f]) \cap Placeholders(graph[f]) = {}
    /\ \A n \in RowNodes(store[f]) :
         graph[f].node[n] # Absent /\ graph[f].node[n].gen = RowGeneration(store[f])

HoldsEdges(f) ==
    \A e \in RowEdges(store[f]) : graph[f].edge[e] = RowGeneration(store[f])

HoldsNothingElse(f) ==
    /\ \A n \in Nodes \ RowNodes(store[f]) : graph[f].node[n] = Absent
    /\ \A e \in Edges \ RowEdges(store[f]) : graph[f].edge[e] = Absent

(* Both connectors have consumed all there is, and nothing newer than the  *)
(* committed row has been published.                                       *)
Quiescent(f) == Drained(f) /\ Settled(f)

Lossless(f) == \A g \in Generation : <<f, g>> \notin dlq

(* When the connectors are through, Neo4j holds the graph of the committed *)
(* content: all of it, hydrated, in its generation, and nothing besides.   *)
GraphFollowsCommitted ==
    \A f \in Files : Quiescent(f) /\ Lossless(f) =>
        HoldsNodes(f) /\ HoldsEdges(f) /\ HoldsNothingElse(f)

(* The same, in the behaviours whose runs wait for the offsets.            *)
AwaitedGraphFollows == discipline = "offsets" => GraphFollowsCommitted

(* As long as the contents of a file do not come back, the nodes of the    *)
(* committed one are there whatever the lag between the connectors, the    *)
(* redeliveries and the history of the file, and even if records of        *)
(* earlier generations went to connector.errors: publishing a file anew    *)
(* repairs its nodes.                                                      *)
CommittedNodesArePresent ==
    \A f \in Files :
        Quiescent(f) /\ store[f] # NoRow /\ <<f, RowGeneration(store[f])>> \notin dlq
            => HoldsNodes(f)

(* When edits and faults cease, the graph of every file that parses ends   *)
(* up as the one of the content on disk, unless records were dead-lettered.*)
GraphConverges ==
    <>[](\A f \in Files : disk[f] \in Contents \ Unparsable /\ Lossless(f) =>
            /\ Unchanged(store[f], <<disk[f], version>>)
            /\ HoldsNodes(f) /\ HoldsEdges(f) /\ HoldsNothingElse(f))
=============================================================================
