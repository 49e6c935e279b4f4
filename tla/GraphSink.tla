------------------------------ MODULE GraphSink ------------------------------
(***************************************************************************)
(* The two Neo4j sink connectors' Cypher statements, as operators on the   *)
(* graph of one file.  The connector runs the statement over a batch of    *)
(* records ("UNWIND $events AS event" is prepended), in one transaction,   *)
(* and Cypher executes it clause by clause: an OPTIONAL MATCH sees the     *)
(* graph as the clauses before it left it for the whole batch, so that     *)
(* what the first MATCH found predates every write of the batch, while a   *)
(* property read further down is read from the graph as it is then.        *)
(*                                                                         *)
(* An edge record whose end points contradict the stored edge fails by     *)
(* division by zero; edge ids are hashes over their end points, so that    *)
(* the parser never produces one and the branch is left out.               *)
(***************************************************************************)
EXTENDS CpgEvents

CONSTANT Absent     \* no such node or edge in the graph

(* A node carries its placeholder flag and generation_id, an edge its      *)
(* generation_id; a tombstone is a pair of an id and a generation.         *)
NodeRecord == [placeholder : BOOLEAN, gen : Generation]

Graph == [node : [Nodes -> NodeRecord \cup {Absent}],
          edge : [Edges -> Generation \cup {Absent}],
          nodeTombs : SUBSET (Nodes \X Generation),
          edgeTombs : SUBSET (Edges \X Generation)]

EmptyGraph == [node |-> [n \in Nodes |-> Absent],
               edge |-> [e \in Edges |-> Absent],
               nodeTombs |-> {}, edgeTombs |-> {}]

(* find_placeholders: end points of edges that no NODE_UPSERT has hydrated. *)
Placeholders(graph) ==
    {n \in Nodes : graph.node[n] # Absent /\ graph.node[n].placeholder}

ASSUME SinkAssumption ==
    /\ Absent \notin NodeRecord
    /\ Absent \notin Generation

(* The positions of a batch that hold an event of a type about an element. *)
At(batch, type, x) == {i \in DOMAIN batch : batch[i].type = type /\ batch[i].id = x}

FirstOf(I) == CHOOSE i \in I : \A j \in I : i <= j
LastOf(I)  == CHOOSE i \in I : \A j \in I : j <= i

(***************************************************************************)
(* neo4j-nodes-sink: MERGE the upserted nodes, then for every NODE_DELETE  *)
(* whose node existed before the batch and is of the event's generation    *)
(* leave a tombstone and DETACH DELETE it.                                 *)
(***************************************************************************)
(* Mutant: only ON CREATE sets the properties, so that a placeholder stays.*)
MergeNodesOnCreate(graph, batch) ==
    [n \in Nodes |->
        LET ups == At(batch, "NODE_UPSERT", n)
        IN IF ups = {} \/ graph.node[n] # Absent THEN graph.node[n]
           ELSE [placeholder |-> FALSE, gen |-> batch[LastOf(ups)].gen]]

MergeNodes(graph, batch) ==
    [n \in Nodes |->
        LET ups == At(batch, "NODE_UPSERT", n)
        IN IF ups = {} THEN graph.node[n]
           ELSE [placeholder |-> FALSE, gen |-> batch[LastOf(ups)].gen]]

(* Mutant: deletes that do not compare generations.                        *)
ApplyNodeBatchUnguarded(graph, batch) ==
    LET merged == MergeNodes(graph, batch)
        dead   == {n \in Nodes : graph.node[n] # Absent
                                 /\ At(batch, "NODE_DELETE", n) # {}}
    IN [graph EXCEPT
          !.node = [n \in Nodes |-> IF n \in dead THEN Absent ELSE merged[n]],
          !.edge = [e \in Edges |-> IF {Src[e], Dst[e]} \cap dead # {}
                                    THEN Absent ELSE @[e]],
          !.nodeTombs = @ \cup {<<n, merged[n].gen>> : n \in dead}]

ApplyNodeBatch(graph, batch) ==
    LET merged == MergeNodes(graph, batch)
        dead   == {n \in Nodes :
                     /\ graph.node[n] # Absent
                     /\ \E i \in At(batch, "NODE_DELETE", n) :
                          batch[i].gen = merged[n].gen}
    IN [graph EXCEPT
          !.node = [n \in Nodes |-> IF n \in dead THEN Absent ELSE merged[n]],
          !.edge = [e \in Edges |-> IF {Src[e], Dst[e]} \cap dead # {}
                                    THEN Absent ELSE @[e]],
          !.nodeTombs = @ \cup {<<n, merged[n].gen>> : n \in dead}]

(***************************************************************************)
(* neo4j-edges-sink: rows one of whose end points has a tombstone of the   *)
(* event's generation are dropped; so are upserts of an edge with one.     *)
(* The others MERGE the end points, as placeholders if absent, and the     *)
(* edge.  An EDGE_DELETE names no end points, so that it is never dropped: *)
(* it always leaves a tombstone, and deletes an edge that existed before   *)
(* the batch and is of its generation.                                     *)
(***************************************************************************)
EffectiveUpserts(graph, batch, e) ==
    {i \in At(batch, "EDGE_UPSERT", e) :
        /\ <<Src[e], batch[i].gen>> \notin graph.nodeTombs
        /\ <<Dst[e], batch[i].gen>> \notin graph.nodeTombs
        /\ <<e, batch[i].gen>> \notin graph.edgeTombs}

EndPointUpserts(graph, batch, n) ==
    UNION {EffectiveUpserts(graph, batch, e) : e \in {x \in Edges : n \in {Src[x], Dst[x]}}}

ApplyEdgeBatch(graph, batch) ==
    LET merged ==
          [e \in Edges |->
             LET ups == EffectiveUpserts(graph, batch, e)
             IN IF ups = {} THEN graph.edge[e] ELSE batch[LastOf(ups)].gen]
        dead == {e \in Edges :
                   /\ graph.edge[e] # Absent
                   /\ \E i \in At(batch, "EDGE_DELETE", e) : batch[i].gen = merged[e]}
        touching(n) == EndPointUpserts(graph, batch, n)
    IN [graph EXCEPT
          !.node = [n \in Nodes |->
                      IF @[n] = Absent /\ touching(n) # {}
                      THEN [placeholder |-> TRUE, gen |-> batch[FirstOf(touching(n))].gen]
                      ELSE @[n]],
          !.edge = [e \in Edges |-> IF e \in dead THEN Absent ELSE merged[e]],
          !.edgeTombs = @ \cup {<<batch[i].id, batch[i].gen>> :
                                  i \in {j \in DOMAIN batch : batch[j].type = "EDGE_DELETE"}}]
=============================================================================
