-------------------------- MODULE CpgPipeline_proofs --------------------------
(***************************************************************************)
(* Proofs about CpgPipeline, for any files, contents, parsers, batch sizes,*)
(* lags, redeliveries and losses: the types of the graph and the offsets;  *)
(* that the committed nodes are there, as long as the contents of a file   *)
(* do not come back; and that the whole graph follows the committed rows   *)
(* where runs wait for the offsets and failed publications are retried.    *)
(***************************************************************************)
EXTENDS CpgPipeline, ParserRun_proofs

(* The edits of a file lead onwards: no sequence of them brings a content  *)
(* back.  A content that does come back finds the deletes of its own       *)
(* generation in the topic, and one batch may hold both.                   *)
Onwards(rank) == \A edit \in AllowedEdits : rank[edit[1]] < rank[edit[2]]

ContentsDoNotReturn == \E rank \in [Contents \cup {Missing} -> Nat] : Onwards(rank)

-----------------------------------------------------------------------------
(***************************************************************************)
(* The parser process of the pipeline is the one of ParserRun.             *)
(***************************************************************************)
LEMMA PipelineStepIsRunStep ==
  ASSUME [PipelineNext]_pipelineVars
  PROVE  [Next]_vars
<1>1. CASE ParserStep
  BY <1>1 DEF ParserStep, OperatedRun, OperatedEdit, Next, RunNext, Environment
<1>2. CASE SinkStep
  BY <1>2 DEF SinkStep, Put, DeadLetter, CommitOffset, RestartTask
<1>3. CASE UNCHANGED pipelineVars
  BY <1>3 DEF pipelineVars
<1> QED
  BY <1>1, <1>2, <1>3 DEF PipelineNext

(* The pipeline adds consumers to the parser process and takes nothing     *)
(* from it: its runs are runs of ParserRun, and what is proved of those    *)
(* holds here.                                                             *)
THEOREM PipelineRunsParser == PipelineSpec => Spec
<1>1. PipelineInit => Init
  BY DEF PipelineInit
<1>2. [PipelineNext]_pipelineVars => [Next]_vars
  BY PipelineStepIsRunStep
<1> QED
  BY <1>1, <1>2, PTL DEF PipelineSpec, Spec

-----------------------------------------------------------------------------
(***************************************************************************)
(* What the two statements make of a graph.                                *)
(***************************************************************************)
LEMMA FiniteHasMin ==
  ASSUME NEW S \in SUBSET Nat, S # {}
  PROVE  \E m \in S : \A x \in S : m <= x
<1>1. PICK s \in S : TRUE
  OBVIOUS
<1> DEFINE T == {s - x : x \in {y \in S : y <= s}}
<1>2. T \subseteq 0..s /\ s - s \in T
  BY <1>1
<1>3. IsFiniteSet(T) /\ T \in SUBSET Nat
  <2>1. IsFiniteSet(0..s)
    BY FS_Interval
  <2> HIDE DEF T
  <2>2. IsFiniteSet(T)
    BY <1>2, <2>1, FS_Subset
  <2> QED
    BY <1>2, <2>2
<1>4. PICK t \in T : \A x \in T : x <= t
  <2> HIDE DEF T
  <2> QED
    BY <1>2, <1>3, FiniteHasMax
<1>5. PICK m \in S : m <= s /\ t = s - m
  OBVIOUS
<1>6. ASSUME NEW x \in S PROVE m <= x
  <2>1. CASE x <= s
    <3>1. s - x \in T
      BY <2>1
    <3>2. s - x <= s - m
      BY <1>4, <1>5, <3>1
    <3> QED
      BY <1>5, <3>2
  <2>2. CASE ~ (x <= s)
    BY <1>5, <2>2
  <2> QED
    BY <2>1, <2>2
<1> QED
  BY <1>6

(* The positions of a batch that satisfy anything have a first and a last. *)
LEMMA EndsOfPositions ==
  ASSUME NEW batch \in Seq(Event), NEW I \in SUBSET (DOMAIN batch), I # {}
  PROVE  /\ FirstOf(I) \in I /\ LastOf(I) \in I
         /\ \A i \in I : i <= LastOf(I)
<1>1. DOMAIN batch = 1..Len(batch) /\ Len(batch) \in Nat
  OBVIOUS
<1>2. I \in SUBSET Nat
  BY <1>1
<1>3. IsFiniteSet(I)
  <2>1. IsFiniteSet(1..Len(batch))
    BY <1>1, FS_Interval
  <2> QED
    BY <1>1, <2>1, FS_Subset
<1>4. \E m \in I : \A x \in I : x <= m
  BY <1>2, <1>3, FiniteHasMax
<1>5. \E m \in I : \A x \in I : m <= x
  BY <1>2, FiniteHasMin
<1> QED
  BY <1>4, <1>5 DEF FirstOf, LastOf

LEMMA UpsertsAreTyped ==
  ASSUME NEW batch \in Seq(Event), NEW i \in DOMAIN batch
  PROVE  /\ batch[i].gen \in Generation
         /\ batch[i].type \in {"EDGE_UPSERT", "EDGE_DELETE"} => batch[i].id \in Edges
<1>1. batch[i] \in Event
  OBVIOUS
<1> QED
  BY <1>1 DEF Event, NodeEvent, EdgeEvent, MetadataEvent

LEMMA NodeBatchIsGraph ==
  ASSUME NEW g \in Graph, NEW batch \in Seq(Event)
  PROVE  ApplyNodeBatch(g, batch) \in Graph
<1> DEFINE merged == MergeNodes(g, batch)
           dead   == {n \in Nodes :
                        /\ g.node[n] # Absent
                        /\ \E i \in At(batch, "NODE_DELETE", n) : batch[i].gen = merged[n].gen}
           nodes  == [n \in Nodes |-> IF n \in dead THEN Absent ELSE merged[n]]
           edges  == [e \in Edges |-> IF {Src[e], Dst[e]} \cap dead # {} THEN Absent ELSE g.edge[e]]
           tombs  == g.nodeTombs \cup {<<n, merged[n].gen>> : n \in dead}
<1>1. /\ g.node \in [Nodes -> NodeRecord \cup {Absent}]
      /\ g.edge \in [Edges -> Generation \cup {Absent}]
      /\ g.nodeTombs \subseteq Nodes \X Generation
      /\ g = [node |-> g.node, edge |-> g.edge, nodeTombs |-> g.nodeTombs, edgeTombs |-> g.edgeTombs]
      /\ g.edgeTombs \subseteq Edges \X Generation
  BY DEF Graph
<1>2. ApplyNodeBatch(g, batch) =
        [node |-> nodes, edge |-> edges, nodeTombs |-> tombs, edgeTombs |-> g.edgeTombs]
  <2>1. ApplyNodeBatch(g, batch) = [g EXCEPT !.node = nodes, !.edge = edges, !.nodeTombs = tombs]
    BY DEF ApplyNodeBatch
  <2> HIDE DEF nodes, edges, tombs
  <2> QED
    BY <1>1, <2>1
<1>3. ASSUME NEW n \in Nodes
      PROVE  /\ merged[n] \in NodeRecord \cup {Absent}
             /\ g.node[n] # Absent => merged[n] \in NodeRecord
  <2> DEFINE ups == At(batch, "NODE_UPSERT", n)
  <2>1. CASE ups = {}
    <3>1. merged[n] = g.node[n]
      BY <2>1 DEF MergeNodes
    <3> QED
      BY <1>1, <3>1
  <2>2. CASE ups # {}
    <3>1. ups \in SUBSET (DOMAIN batch)
      BY DEF At
    <3>2. LastOf(ups) \in DOMAIN batch
      BY <2>2, <3>1, EndsOfPositions
    <3>3. batch[LastOf(ups)].gen \in Generation
      BY <3>2, UpsertsAreTyped
    <3>4. merged[n] = [placeholder |-> FALSE, gen |-> batch[LastOf(ups)].gen]
      BY <2>2 DEF MergeNodes
    <3> QED
      BY <3>3, <3>4 DEF NodeRecord
  <2> QED
    BY <2>1, <2>2
<1> HIDE DEF merged
<1>4. nodes \in [Nodes -> NodeRecord \cup {Absent}]
  BY <1>3
<1>5. edges \in [Edges -> Generation \cup {Absent}]
  BY <1>1
<1>6. tombs \subseteq Nodes \X Generation
  BY <1>1, <1>3 DEF NodeRecord
<1> QED
  BY <1>1, <1>2, <1>4, <1>5, <1>6 DEF Graph

LEMMA EdgeBatchIsGraph ==
  ASSUME NEW g \in Graph, NEW batch \in Seq(Event)
  PROVE  /\ ApplyEdgeBatch(g, batch) \in Graph
         /\ \A n \in Nodes : g.node[n] # Absent => ApplyEdgeBatch(g, batch).node[n] = g.node[n]
<1> DEFINE merged ==
             [e \in Edges |->
                LET ups == EffectiveUpserts(g, batch, e)
                IN IF ups = {} THEN g.edge[e] ELSE batch[LastOf(ups)].gen]
           dead  == {e \in Edges :
                       /\ g.edge[e] # Absent
                       /\ \E i \in At(batch, "EDGE_DELETE", e) : batch[i].gen = merged[e]}
           touching(n) == EndPointUpserts(g, batch, n)
           nodes == [n \in Nodes |->
                       IF g.node[n] = Absent /\ touching(n) # {}
                       THEN [placeholder |-> TRUE, gen |-> batch[FirstOf(touching(n))].gen]
                       ELSE g.node[n]]
           edges == [e \in Edges |-> IF e \in dead THEN Absent ELSE merged[e]]
           tombs == g.edgeTombs \cup
                      {<<batch[i].id, batch[i].gen>> :
                         i \in {j \in DOMAIN batch : batch[j].type = "EDGE_DELETE"}}
<1>1. /\ g.node \in [Nodes -> NodeRecord \cup {Absent}]
      /\ g.edge \in [Edges -> Generation \cup {Absent}]
      /\ g.nodeTombs \subseteq Nodes \X Generation
      /\ g = [node |-> g.node, edge |-> g.edge, nodeTombs |-> g.nodeTombs, edgeTombs |-> g.edgeTombs]
      /\ g.edgeTombs \subseteq Edges \X Generation
  BY DEF Graph
<1>2. ApplyEdgeBatch(g, batch) =
        [node |-> nodes, edge |-> edges, nodeTombs |-> g.nodeTombs, edgeTombs |-> tombs]
  <2>1. ApplyEdgeBatch(g, batch) = [g EXCEPT !.node = nodes, !.edge = edges, !.edgeTombs = tombs]
    BY DEF ApplyEdgeBatch
  <2> HIDE DEF nodes, edges, tombs
  <2> QED
    BY <1>1, <2>1
<1>3. ASSUME NEW e \in Edges
      PROVE  /\ EffectiveUpserts(g, batch, e) \in SUBSET (DOMAIN batch)
             /\ merged[e] \in Generation \cup {Absent}
  <2> DEFINE ups == EffectiveUpserts(g, batch, e)
  <2>1. ups \in SUBSET (DOMAIN batch)
    BY DEF EffectiveUpserts, At
  <2>2. ups # {} => batch[LastOf(ups)].gen \in Generation
    <3> HIDE DEF ups
    <3>1. ups # {} => LastOf(ups) \in DOMAIN batch
      BY <2>1, EndsOfPositions
    <3> QED
      BY <3>1, UpsertsAreTyped
  <2>3. merged[e] = IF ups = {} THEN g.edge[e] ELSE batch[LastOf(ups)].gen
    OBVIOUS
  <2> HIDE DEF ups
  <2>4. merged[e] \in Generation \cup {Absent}
    BY <1>1, <2>2, <2>3
  <2> QED
    BY <2>1, <2>4 DEF ups
<1>4. ASSUME NEW n \in Nodes, touching(n) # {}
      PROVE  batch[FirstOf(touching(n))].gen \in Generation
  <2>1. touching(n) \in SUBSET (DOMAIN batch)
    BY <1>3 DEF EndPointUpserts
  <2> HIDE DEF touching
  <2>2. FirstOf(touching(n)) \in DOMAIN batch
    BY <1>4, <2>1, EndsOfPositions
  <2> QED
    BY <2>2, UpsertsAreTyped
<1> HIDE DEF merged, touching
<1>5. nodes \in [Nodes -> NodeRecord \cup {Absent}]
  <2> SUFFICES ASSUME NEW n \in Nodes PROVE nodes[n] \in NodeRecord \cup {Absent}
    OBVIOUS
  <2>1. CASE g.node[n] = Absent /\ touching(n) # {}
    BY <1>4, <2>1 DEF NodeRecord
  <2>2. CASE ~ (g.node[n] = Absent /\ touching(n) # {})
    BY <1>1, <2>2
  <2> QED
    BY <2>1, <2>2
<1>6. edges \in [Edges -> Generation \cup {Absent}]
  BY <1>3
<1>7. tombs \subseteq Edges \X Generation
  BY <1>1, UpsertsAreTyped
<1>8. \A n \in Nodes : g.node[n] # Absent => nodes[n] = g.node[n]
  OBVIOUS
<1> HIDE DEF nodes, edges, tombs
<1> QED
  BY <1>1, <1>2, <1>5, <1>6, <1>7, <1>8 DEF Graph

(* Of a node that a batch upserts last and deletes under no such           *)
(* generation, the batch's upsert is what remains; a node that the batch   *)
(* does not mention stays.                                                 *)
LEMMA NodeBatchWrites ==
  ASSUME NEW g \in Graph, NEW batch \in Seq(Event), NEW n \in Nodes, NEW q \in DOMAIN batch,
         batch[q].type = "NODE_UPSERT", batch[q].id = n,
         \A i \in DOMAIN batch : i > q => batch[i].id # n,
         \A i \in DOMAIN batch : ~ (/\ batch[i].type = "NODE_DELETE" /\ batch[i].id = n
                                    /\ batch[i].gen = batch[q].gen)
  PROVE  ApplyNodeBatch(g, batch).node[n] = [placeholder |-> FALSE, gen |-> batch[q].gen]
<1> DEFINE ups == At(batch, "NODE_UPSERT", n)
<1>1. q \in ups /\ ups \in SUBSET (DOMAIN batch)
  BY DEF At
<1>2. LastOf(ups) = q
  <2>1. LastOf(ups) \in ups /\ q <= LastOf(ups)
    BY <1>1, EndsOfPositions
  <2>2. batch[LastOf(ups)].id = n
    BY <2>1 DEF At
  <2> DEFINE l == LastOf(ups)
  <2>3. l \in DOMAIN batch /\ ~ (l > q) /\ q <= l
    BY <1>1, <2>1, <2>2
  <2>4. DOMAIN batch \subseteq Nat
    OBVIOUS
  <2> HIDE DEF l
  <2>5. l = q
    BY <2>3, <2>4
  <2> QED
    BY <2>5 DEF l
<1>3. MergeNodes(g, batch)[n] = [placeholder |-> FALSE, gen |-> batch[q].gen]
  BY <1>1, <1>2 DEF MergeNodes
<1>4. ~ \E i \in At(batch, "NODE_DELETE", n) : batch[i].gen = MergeNodes(g, batch)[n].gen
  BY <1>3 DEF At
<1>5. DOMAIN g = {"node", "edge", "nodeTombs", "edgeTombs"}
  BY DEF Graph
<1> QED
  BY <1>3, <1>4, <1>5 DEF ApplyNodeBatch

LEMMA NodeBatchSpares ==
  ASSUME NEW g \in Graph, NEW batch \in Seq(Event), NEW n \in Nodes,
         \A i \in DOMAIN batch : batch[i].id # n
  PROVE  ApplyNodeBatch(g, batch).node[n] = g.node[n]
<1>1. At(batch, "NODE_UPSERT", n) = {} /\ At(batch, "NODE_DELETE", n) = {}
  BY DEF At
<1>2. MergeNodes(g, batch)[n] = g.node[n]
  BY <1>1 DEF MergeNodes
<1>3. DOMAIN g = {"node", "edge", "nodeTombs", "edgeTombs"}
  BY DEF Graph
<1> QED
  BY <1>1, <1>2, <1>3 DEF ApplyNodeBatch

-----------------------------------------------------------------------------
(***************************************************************************)
(* The types of the sinks' state.  An offset is never committed ahead of   *)
(* the position, nor the position ahead of the topic.                      *)
(***************************************************************************)
PipelineTypeOK ==
    /\ graph \in [Files -> Graph]
    /\ position \in [Sinks -> [Files -> Nat]]
    /\ committed \in [Sinks -> [Files -> Nat]]
    /\ dlq \in SUBSET (Files \X Generation)
    /\ discipline \in Disciplines
    /\ \A s \in Sinks, f \in Files :
         committed[s][f] <= position[s][f] /\ position[s][f] <= Len(log[s][f])

LEMMA BatchIs ==
  ASSUME TypeOK, PipelineTypeOK, NEW s \in Sinks, NEW f \in Files, NEW k \in 1..BatchSize(s),
         Consume(s, f, k)
  PROVE  /\ k \in Nat /\ log[s][f] \in Seq(Event) /\ position[s][f] \in Nat
         /\ position[s][f] + k <= Len(log[s][f])
         /\ Batch(s, f, k) \in Seq(Event) /\ Len(Batch(s, f, k)) = k
         /\ DOMAIN Batch(s, f, k) = 1..k
         /\ \A i \in 1..k : Batch(s, f, k)[i] = log[s][f][position[s][f] + i]
         /\ position'[s][f] = position[s][f] + k
         /\ \A r \in Sinks, h \in Files :
              r # s \/ h # f => position'[r][h] = position[r][h]
         /\ position' \in [Sinks -> [Files -> Nat]]
<1>1. BatchSize(s) \in Nat
  BY PipelineAssumption DEF BatchSize
<1>2. /\ k \in Nat /\ k >= 1 /\ log[s][f] \in Seq(Event) /\ position[s][f] \in Nat
      /\ position[s][f] + k <= Len(log[s][f])
  BY <1>1 DEF Consume, TypeOK, PipelineTypeOK, Sinks, Topics
<1>3. /\ Batch(s, f, k) \in Seq(Event) /\ Len(Batch(s, f, k)) = k
      /\ DOMAIN Batch(s, f, k) = 1..k
      /\ \A i \in 1..k : Batch(s, f, k)[i] = log[s][f][position[s][f] + i]
  <2> DEFINE l == log[s][f]
             p == position[s][f]
  <2>1. l \in Seq(Event) /\ p \in Nat /\ p + k <= Len(l)
    BY <1>2
  <2> HIDE DEF l, p
  <2>2. /\ SubSeq(l, p + 1, p + k) \in Seq(Event) /\ Len(SubSeq(l, p + 1, p + k)) = k
        /\ DOMAIN SubSeq(l, p + 1, p + k) = 1..k
        /\ \A i \in 1..k : SubSeq(l, p + 1, p + k)[i] = l[p + i]
    BY <1>2, <2>1
  <2> QED
    BY <2>2 DEF Batch, l, p
<1>4. position' = [position EXCEPT ![s] = [position[s] EXCEPT ![f] = position[s][f] + k]]
  BY DEF Consume
<1>5. /\ position'[s][f] = position[s][f] + k
      /\ \A r \in Sinks, h \in Files :
           r # s \/ h # f => position'[r][h] = position[r][h]
      /\ position' \in [Sinks -> [Files -> Nat]]
  BY <1>2, <1>4 DEF PipelineTypeOK
<1> QED
  BY <1>2, <1>3, <1>5

LEMMA InitPipelineType ==
  ASSUME PipelineInit
  PROVE  PipelineTypeOK
<1>1. EmptyGraph \in Graph
  BY DEF EmptyGraph, Graph
<1>2. \A s \in Sinks, f \in Files : Len(log[s][f]) = 0
  BY DEF PipelineInit, Init, Sinks, Topics
<1> QED
  BY <1>1, <1>2 DEF PipelineInit, PipelineTypeOK

LEMMA PutType ==
  ASSUME TypeOK, PipelineTypeOK, NEW s \in Sinks, NEW f \in Files, NEW k \in 1..BatchSize(s),
         Put(s, f, k)
  PROVE  PipelineTypeOK'
<1>1. Consume(s, f, k) /\ UNCHANGED <<log, committed, dlq, discipline>>
  BY DEF Put, vars
<1>2. graph' \in [Files -> Graph]
  <2>1. graph[f] \in Graph /\ Batch(s, f, k) \in Seq(Event)
    BY <1>1, BatchIs DEF PipelineTypeOK
  <2>2. /\ ApplyNodeBatch(graph[f], Batch(s, f, k)) \in Graph
        /\ ApplyEdgeBatch(graph[f], Batch(s, f, k)) \in Graph
    BY <2>1, NodeBatchIsGraph, EdgeBatchIsGraph
  <2>3. graph' = [graph EXCEPT ![f] =
                    IF s = "cpg.nodes" THEN ApplyNodeBatch(graph[f], Batch(s, f, k))
                                       ELSE ApplyEdgeBatch(graph[f], Batch(s, f, k))]
    BY DEF Put
  <2> QED
    BY <2>2, <2>3 DEF PipelineTypeOK
<1>3. \A r \in Sinks, h \in Files :
        committed[r][h] <= position'[r][h] /\ position'[r][h] <= Len(log[r][h])
  <2> SUFFICES ASSUME NEW r \in Sinks, NEW h \in Files
               PROVE  committed[r][h] <= position'[r][h] /\ position'[r][h] <= Len(log[r][h])
    OBVIOUS
  <2>1. /\ committed[r][h] \in Nat /\ position[r][h] \in Nat
        /\ committed[r][h] <= position[r][h] /\ position[r][h] <= Len(log[r][h])
    BY DEF PipelineTypeOK
  <2>2. CASE r = s /\ h = f
    <3>1. /\ k \in Nat /\ position[s][f] + k <= Len(log[s][f])
          /\ position'[s][f] = position[s][f] + k
      BY <1>1, BatchIs
    <3> QED
      BY <2>1, <2>2, <3>1
  <2>3. CASE r # s \/ h # f
    BY <1>1, <2>1, <2>3, BatchIs
  <2> QED
    BY <2>2, <2>3
<1> QED
  BY <1>1, <1>2, <1>3, BatchIs DEF PipelineTypeOK

LEMMA DeadLetterType ==
  ASSUME TypeOK, PipelineTypeOK, NEW s \in Sinks, NEW f \in Files, NEW k \in 1..BatchSize(s),
         DeadLetter(s, f, k)
  PROVE  PipelineTypeOK'
<1>1. Consume(s, f, k) /\ UNCHANGED <<log, graph, committed, discipline>>
  BY DEF DeadLetter, vars
<1>2. dlq' \in SUBSET (Files \X Generation)
  <2>1. \A i \in DOMAIN Batch(s, f, k) : Batch(s, f, k)[i].gen \in Generation
    BY <1>1, BatchIs, UpsertsAreTyped
  <2> QED
    BY <2>1 DEF DeadLetter, PipelineTypeOK, Range
<1>3. \A r \in Sinks, h \in Files :
        committed[r][h] <= position'[r][h] /\ position'[r][h] <= Len(log[r][h])
  <2> SUFFICES ASSUME NEW r \in Sinks, NEW h \in Files
               PROVE  committed[r][h] <= position'[r][h] /\ position'[r][h] <= Len(log[r][h])
    OBVIOUS
  <2>1. /\ committed[r][h] \in Nat /\ position[r][h] \in Nat
        /\ committed[r][h] <= position[r][h] /\ position[r][h] <= Len(log[r][h])
    BY DEF PipelineTypeOK
  <2>2. CASE r = s /\ h = f
    <3>1. /\ k \in Nat /\ position[s][f] + k <= Len(log[s][f])
          /\ position'[s][f] = position[s][f] + k
      BY <1>1, BatchIs
    <3> QED
      BY <2>1, <2>2, <3>1
  <2>3. CASE r # s \/ h # f
    BY <1>1, <2>1, <2>3, BatchIs
  <2> QED
    BY <2>2, <2>3
<1> QED
  BY <1>1, <1>2, <1>3, BatchIs DEF PipelineTypeOK

LEMMA OffsetType ==
  ASSUME TypeOK, PipelineTypeOK, NEW s \in Sinks, NEW f \in Files, CommitOffset(s, f) \/ RestartTask(s, f)
  PROVE  PipelineTypeOK'
<1>1. CASE CommitOffset(s, f)
  <2>1. committed' = [committed EXCEPT ![s] = [committed[s] EXCEPT ![f] = position[s][f]]]
    BY <1>1 DEF CommitOffset
  <2>2. /\ committed' \in [Sinks -> [Files -> Nat]]
        /\ \A r \in Sinks, h \in Files : committed'[r][h] <= position[r][h]
    BY <2>1 DEF PipelineTypeOK
  <2> QED
    BY <1>1, <2>2 DEF CommitOffset, PipelineTypeOK, vars
<1>2. CASE RestartTask(s, f)
  <2>1. position' = [position EXCEPT ![s] = [position[s] EXCEPT ![f] = committed[s][f]]]
    BY <1>2 DEF RestartTask
  <2>2. /\ position' \in [Sinks -> [Files -> Nat]]
        /\ \A r \in Sinks, h \in Files :
             position'[r][h] = committed[r][h] \/ position'[r][h] = position[r][h]
    BY <2>1 DEF PipelineTypeOK
  <2>3. \A r \in Sinks, h \in Files : Len(log[r][h]) = Len(log'[r][h])
    BY <1>2 DEF RestartTask, vars
  <2>4. ASSUME NEW r \in Sinks, NEW h \in Files
        PROVE  committed[r][h] <= position'[r][h] /\ position'[r][h] <= Len(log[r][h])
    <3>1. /\ committed[r][h] \in Nat /\ position[r][h] \in Nat
          /\ committed[r][h] <= position[r][h] /\ position[r][h] <= Len(log[r][h])
      BY DEF PipelineTypeOK
    <3>2. Len(log[r][h]) \in Nat
      <4>1. log[r][h] \in Seq(Event)
        BY DEF TypeOK, Sinks, Topics
      <4> QED
        BY <4>1
    <3>3. CASE position'[r][h] = position[r][h]
      BY <3>1, <3>3
    <3>4. CASE position'[r][h] = committed[r][h]
      <4>1. committed[r][h] <= committed[r][h] /\ committed[r][h] <= Len(log[r][h])
        BY <3>1, <3>2
      <4> QED
        BY <3>4, <4>1
    <3> QED
      BY <2>2, <3>3, <3>4
  <2> QED
    BY <1>2, <2>2, <2>3, <2>4 DEF RestartTask, PipelineTypeOK
<1> QED
  BY <1>1, <1>2

LEMMA ParserStepType ==
  ASSUME TypeOK, JobReadable, PipelineTypeOK, [Next]_vars, UNCHANGED sinkVars
  PROVE  PipelineTypeOK'
<1>1. ASSUME NEW s \in Sinks, NEW f \in Files
      PROVE  committed[s][f] <= position[s][f] /\ position[s][f] <= Len(log'[s][f])
  <2>1. PICK u \in Seq(Event) : log'[s][f] = log[s][f] \o u
    BY NextAppends DEF Sinks, Topics
  <2>2. log[s][f] \in Seq(Event)
    BY DEF TypeOK, Sinks, Topics
  <2>3. /\ Len(log'[s][f]) = Len(log[s][f]) + Len(u)
        /\ Len(log[s][f]) \in Nat /\ Len(u) \in Nat
    BY <2>1, <2>2
  <2> QED
    BY <2>3 DEF PipelineTypeOK
<1> QED
  BY <1>1 DEF PipelineTypeOK, sinkVars

LEMMA NextPipelineType ==
  ASSUME TypeOK, JobReadable, PipelineTypeOK, [PipelineNext]_pipelineVars
  PROVE  PipelineTypeOK'
<1>0. [Next]_vars
  BY PipelineStepIsRunStep
<1>1. CASE ParserStep \/ UNCHANGED pipelineVars
  BY <1>0, <1>1, ParserStepType DEF ParserStep, pipelineVars
<1>2. CASE SinkStep
  <2>1. PICK s \in Sinks, f \in Files :
          \/ \E k \in 1..BatchSize(s) : Put(s, f, k) \/ DeadLetter(s, f, k)
          \/ CommitOffset(s, f)
          \/ RestartTask(s, f)
    BY <1>2 DEF SinkStep
  <2> QED
    BY <2>1, PutType, DeadLetterType, OffsetType
<1> QED
  BY <1>1, <1>2 DEF PipelineNext

(* The graph, the offsets and the dead letters are of their types, and     *)
(* what is committed never exceeds what was consumed.                      *)
THEOREM PipelineTypeCorrect == PipelineSpec => []PipelineTypeOK
<1>1. PipelineInit => PipelineTypeOK
  BY InitPipelineType
<1>2. TypeOK /\ JobReadable /\ PipelineTypeOK /\ [PipelineNext]_pipelineVars => PipelineTypeOK'
  BY NextPipelineType
<1>3. BackedInv => TypeOK /\ JobReadable
  BY DEF BackedInv
<1> QED
  BY <1>1, <1>2, <1>3, PipelineRunsParser, BackedInvariance, PTL DEF PipelineSpec

-----------------------------------------------------------------------------
(***************************************************************************)
(* The deletes of a topic.  When a delete is published the file has moved  *)
(* on to a content that does not have the node; contents do not come back, *)
(* so that no later row holds the node in the delete's generation.         *)
(***************************************************************************)
Before(rank, x, y) == x = y \/ rank[x] < rank[y]

LEMMA BeforeIsOrder ==
  ASSUME NEW rank \in [Contents \cup {Missing} -> Nat],
         NEW x \in Contents \cup {Missing}, NEW y \in Contents \cup {Missing}
  PROVE  /\ Before(rank, x, x)
         /\ Before(rank, x, y) /\ Before(rank, y, x) => x = y
         /\ \A z \in Contents \cup {Missing} :
              Before(rank, x, y) /\ Before(rank, y, z) => Before(rank, x, z)
<1>1. \A z \in Contents \cup {Missing} : rank[z] \in Nat
  OBVIOUS
<1> QED
  BY <1>1 DEF Before

RowIsPast(rank, f) ==
    store[f] # NoRow => Before(rank, store[f].hash, disk[f])

JobIsPast(rank) ==
    job # NoJob =>
        /\ Before(rank, job.content, disk[job.file])
        /\ store[job.file] # NoRow => Before(rank, store[job.file].hash, job.content)

(* The node was deleted for a content c that does not have it; neither the *)
(* content on disk, nor the one being processed, nor, once the file is     *)
(* settled, the committed one precedes c.                                  *)
DeletedFor(rank, f, d, c) ==
    /\ Before(rank, d.gen[1], c)
    /\ Before(rank, c, disk[f])
    /\ job # NoJob /\ job.file = f => Before(rank, c, job.content)
    /\ d.id \notin NodesOf(<<c, d.gen[2]>>)
    /\ Settled(f) /\ store[f] # NoRow => Before(rank, c, store[f].hash)

DeletesAreJustified(rank, f) ==
    \A i \in DOMAIN log["cpg.nodes"][f] :
        log["cpg.nodes"][f][i].type = "NODE_DELETE" =>
            \E c \in Contents : DeletedFor(rank, f, log["cpg.nodes"][f][i], c)

FilePast(rank, f) == RowIsPast(rank, f) /\ DeletesAreJustified(rank, f)

HistoryInv(rank) == JobIsPast(rank) /\ \A f \in Files : FilePast(rank, f)

LEMMA InitHistory ==
  ASSUME Init, NEW rank
  PROVE  HistoryInv(rank)
<1>1. \A f \in Files : DOMAIN log["cpg.nodes"][f] = {} /\ store[f] = NoRow
  BY DEF Init, Topics
<1> QED
  BY <1>1 DEF Init, HistoryInv, JobIsPast, FilePast, RowIsPast, DeletesAreJustified

(* What a step that leaves the file's row and records alone must grant.    *)
LEMMA PastFrame ==
  ASSUME NEW rank, NEW f \in Files, FilePast(rank, f),
         log'["cpg.nodes"][f] = log["cpg.nodes"][f], store'[f] = store[f],
         disk'[f] = disk[f], f \in dirty => f \in dirty',
         \/ job' = NoJob
         \/ job'.file # f
         \/ job # NoJob /\ job'.file = job.file /\ job'.content = job.content
  PROVE  FilePast(rank, f)'
<1>1. RowIsPast(rank, f)'
  BY DEF FilePast, RowIsPast
<1>2. ASSUME NEW i \in DOMAIN log["cpg.nodes"][f], NEW c \in Contents,
             DeletedFor(rank, f, log["cpg.nodes"][f][i], c)
      PROVE  DeletedFor(rank, f, log["cpg.nodes"][f][i], c)'
  BY <1>2 DEF DeletedFor, Settled
<1> QED
  BY <1>1, <1>2 DEF FilePast, DeletesAreJustified

LEMMA EditPast ==
  ASSUME TypeOK, NEW rank \in [Contents \cup {Missing} -> Nat], Onwards(rank), HistoryInv(rank),
         NEW f \in Files, NEW c \in Contents \cup {Missing}, Edit(f, c)
  PROVE  HistoryInv(rank)'
<1>1. /\ <<disk[f], c>> \in AllowedEdits /\ disk' = [disk EXCEPT ![f] = c]
      /\ UNCHANGED <<log, store, job, dirty>>
      /\ disk[f] \in Contents \cup {Missing}
  BY DEF Edit, histVars, TypeOK
<1>2. /\ disk'[f] = c /\ \A h \in Files : h # f => disk'[h] = disk[h]
      /\ Before(rank, disk[f], c)
  <2>1. rank[disk[f]] < rank[c]
    BY <1>1 DEF Onwards
  <2> QED
    BY <1>1, <2>1 DEF TypeOK, Before
<1>3. ASSUME NEW h \in Files, NEW x \in Contents \cup {Missing}, Before(rank, x, disk[h])
      PROVE  Before(rank, x, disk'[h])
  <2>1. CASE h = f
    BY <1>1, <1>2, <1>3, <2>1, BeforeIsOrder
  <2>2. CASE h # f
    BY <1>2, <1>3, <2>2
  <2> QED
    BY <2>1, <2>2
<1>4. JobIsPast(rank)'
  <2>1. CASE job = NoJob
    BY <1>1, <2>1 DEF JobIsPast
  <2>2. CASE job # NoJob
    <3>1. job.file \in Files /\ job.content \in Contents \cup {Missing}
      BY <2>2 DEF TypeOK, Job
    <3>2. Before(rank, job.content, disk'[job.file])
      BY <1>3, <2>2, <3>1 DEF HistoryInv, JobIsPast
    <3> QED
      BY <1>1, <2>2, <3>2 DEF HistoryInv, JobIsPast
  <2> QED
    BY <2>1, <2>2
<1>5. ASSUME NEW h \in Files PROVE FilePast(rank, h)'
  <2>1. FilePast(rank, h)
    BY DEF HistoryInv
  <2>2. RowIsPast(rank, h)'
    <3>1. store[h] # NoRow => store[h].hash \in Contents
      BY DEF TypeOK, Row
    <3> QED
      BY <1>1, <1>3, <2>1, <3>1 DEF FilePast, RowIsPast
  <2>3. ASSUME NEW i \in DOMAIN log["cpg.nodes"][h], NEW x \in Contents,
               DeletedFor(rank, h, log["cpg.nodes"][h][i], x)
        PROVE  DeletedFor(rank, h, log["cpg.nodes"][h][i], x)'
    BY <1>1, <1>3, <2>3 DEF DeletedFor, Settled
  <2> QED
    BY <1>1, <2>1, <2>2, <2>3 DEF FilePast, DeletesAreJustified
<1> QED
  BY <1>4, <1>5 DEF HistoryInv

LEMMA ReadFilePast ==
  ASSUME TypeOK, NEW rank \in [Contents \cup {Missing} -> Nat], HistoryInv(rank),
         NEW f \in Files, ReadFile(f)
  PROVE  HistoryInv(rank)'
<1>1. /\ job' = JobFor(f, disk[f]) /\ job'.file = f /\ job'.content = disk[f]
      /\ UNCHANGED <<disk, log, store, dirty>> /\ pc = "loop"
      /\ disk[f] \in Contents \cup {Missing}
  BY DEF ReadFile, JobFor, envVars, histVars, TypeOK
<1>2. job = NoJob
  BY <1>1 DEF TypeOK
<1>3. JobIsPast(rank)'
  BY <1>1, BeforeIsOrder DEF HistoryInv, JobIsPast, FilePast, RowIsPast
<1>4. ASSUME NEW h \in Files, h # f PROVE FilePast(rank, h)'
  BY <1>1, <1>4, PastFrame DEF HistoryInv
<1>5. FilePast(rank, f)'
  <2>1. FilePast(rank, f)
    BY DEF HistoryInv
  <2>2. ASSUME NEW i \in DOMAIN log["cpg.nodes"][f], NEW x \in Contents,
               DeletedFor(rank, f, log["cpg.nodes"][f][i], x)
        PROVE  DeletedFor(rank, f, log["cpg.nodes"][f][i], x)'
    BY <1>1, <2>2 DEF DeletedFor, Settled
  <2> QED
    BY <1>1, <2>1, <2>2 DEF FilePast, RowIsPast, DeletesAreJustified
<1> QED
  BY <1>3, <1>4, <1>5 DEF HistoryInv

(* The deletes of a batch are for the content that is being processed.     *)
LEMMA PublishedDeletesJustified ==
  ASSUME TypeOK, JobReadable, LogInv, NEW rank \in [Contents \cup {Missing} -> Nat],
         HistoryInv(rank), pc = "staged", NEW j \in 1..Len(job.batch["cpg.nodes"]),
         job.batch["cpg.nodes"][j].type = "NODE_DELETE"
  PROVE  /\ job.content \in Contents
         /\ LET d == job.batch["cpg.nodes"][j]
            IN /\ Before(rank, d.gen[1], job.content)
               /\ Before(rank, job.content, disk[job.file])
               /\ d.id \notin NodesOf(<<job.content, d.gen[2]>>)
<1> DEFINE b == job.batch["cpg.nodes"]
           row == store[job.file]
           old == DeleteGeneration(row, JobGeneration)
           d == b[j]
<1>1. /\ job \in Job /\ job.file \in Files /\ b \in Seq(Event) /\ row \in Row \cup {NoRow}
      /\ job # NoJob /\ JobGeneration \in Generation
  BY JobIs DEF TypeOK, Topics
<1>2. JobGeneration = <<job.content, version>> /\ job.content \in Contents
  BY <1>1 DEF JobGeneration, Generation
<1>3. d.id \in RemovedNodes(row, JobGeneration) /\ d.gen = old
  <2>1. SendsDifference(b, "NODE_UPSERT", "NODE_DELETE", RemovedNodes(row, JobGeneration),
                        NodesOf(JobGeneration), old, JobGeneration)
    BY DEF LogInv, BatchIsDifference
  <2>2. d \in Range(b) /\ d.type = "NODE_DELETE"
    BY <1>1 DEF Range
  <2> HIDE DEF b, row, old, d
  <2> QED
    BY <1>1, <2>1, <2>2, DeletesAreOfRow
<1>4. row # NoRow /\ d.id \notin NodesOf(JobGeneration)
  BY <1>3 DEF RemovedNodes, RowNodes
<1>5. d.gen = <<row.hash, version>>
  BY <1>2, <1>3, <1>4 DEF DeleteGeneration
<1>6. /\ Before(rank, row.hash, job.content)
      /\ Before(rank, job.content, disk[job.file])
  BY <1>1, <1>4 DEF HistoryInv, JobIsPast
<1> QED
  BY <1>2, <1>4, <1>5, <1>6

LEMMA PublicationPast ==
  ASSUME TypeOK, JobReadable, LogInv, NEW rank \in [Contents \cup {Missing} -> Nat],
         HistoryInv(rank), pc = "staged", UNCHANGED <<disk, store>>, job' \in {job, NoJob},
         job.file \in dirty', dirty \subseteq dirty',
         \A h \in Files : h # job.file => log'["cpg.nodes"][h] = log["cpg.nodes"][h],
         NEW u \in Seq(Event), log'["cpg.nodes"][job.file] = log["cpg.nodes"][job.file] \o u,
         \A i \in 1..Len(u) : \E j \in 1..Len(job.batch["cpg.nodes"]) :
              u[i] = job.batch["cpg.nodes"][j]
  PROVE  HistoryInv(rank)'
<1>a. PICK f \in Files : f = job.file
  BY JobIs
<1>0. job # NoJob /\ job.content \in Contents \cup {Missing}
  BY JobIs DEF TypeOK
<1>1. JobIsPast(rank)'
  BY DEF HistoryInv, JobIsPast
<1>2. ASSUME NEW h \in Files, h # f PROVE FilePast(rank, h)'
  BY <1>a, <1>0, <1>2, PastFrame DEF HistoryInv
<1>3. FilePast(rank, f)
  BY DEF HistoryInv
<1>4. DeletesAreJustified(rank, f)'
  <2>0. PICK s \in Seq(Event) : s = log["cpg.nodes"][f]
    BY DEF TypeOK, Topics
  <2> DEFINE c == s \o u
  <2>1. log'["cpg.nodes"][f] = c
    BY <1>a, <2>0
  <2>2. ASSUME NEW i \in DOMAIN s, NEW x \in Contents, DeletedFor(rank, f, s[i], x)
        PROVE  DeletedFor(rank, f, s[i], x)'
    BY <1>a, <2>2 DEF DeletedFor, Settled
  <2>3. \A i \in DOMAIN s : s[i].type = "NODE_DELETE" =>
           \E x \in Contents : DeletedFor(rank, f, s[i], x)'
    BY <1>3, <2>0, <2>2 DEF FilePast, DeletesAreJustified
  <2>4. ASSUME NEW i \in 1..Len(u), u[i].type = "NODE_DELETE"
        PROVE  \E x \in Contents : DeletedFor(rank, f, u[i], x)'
    <3>1. PICK j \in 1..Len(job.batch["cpg.nodes"]) : u[i] = job.batch["cpg.nodes"][j]
      OBVIOUS
    <3>2. /\ job.content \in Contents
          /\ Before(rank, u[i].gen[1], job.content)
          /\ Before(rank, job.content, disk[f])
          /\ u[i].id \notin NodesOf(<<job.content, u[i].gen[2]>>)
      BY <1>a, <2>4, <3>1, PublishedDeletesJustified
    <3>3. Before(rank, job.content, job.content)
      BY DEF Before
    <3>4. PICK x \in Contents : x = job.content
      BY <3>2
    <3>5. job' # NoJob => job' = job
      OBVIOUS
    <3>6. DeletedFor(rank, f, u[i], x)'
      BY <1>a, <3>2, <3>3, <3>4, <3>5 DEF DeletedFor, Settled
    <3> QED
      BY <3>6
  <2>5. \A i \in DOMAIN c : c[i].type = "NODE_DELETE" =>
           \E x \in Contents : DeletedFor(rank, f, c[i], x)'
    <3> SUFFICES ASSUME NEW i \in DOMAIN c, c[i].type = "NODE_DELETE"
                 PROVE  \E x \in Contents : DeletedFor(rank, f, c[i], x)'
      OBVIOUS
    <3>1. CASE i \in 1..Len(s)
      BY <2>1, <2>3, <3>1, AppendedIs
    <3>2. CASE i \notin 1..Len(s)
      BY <2>1, <2>4, <3>2, AppendedIs
    <3> QED
      BY <3>1, <3>2
  <2> HIDE DEF c
  <2> QED
    BY <2>1, <2>5 DEF DeletesAreJustified
<1>5. RowIsPast(rank, f)'
  BY <1>3 DEF FilePast, RowIsPast
<1> QED
  BY <1>1, <1>2, <1>4, <1>5 DEF HistoryInv, FilePast

LEMMA CommitPast ==
  ASSUME TypeOK, JobReadable, NEW rank \in [Contents \cup {Missing} -> Nat], HistoryInv(rank),
         CommitState
  PROVE  HistoryInv(rank)'
<1>a. PICK f \in Files, g \in Generation : f = job.file /\ g = JobGeneration
  BY JobIs DEF CommitState
<1>0. /\ pc = "published" /\ job' = NoJob /\ UNCHANGED <<log, disk>> /\ job # NoJob
      /\ dirty' = dirty \ {f} /\ store' = [store EXCEPT ![f] = RowFor(g)]
  BY <1>a DEF CommitState, NextFile, envVars, TypeOK
<1>1. /\ store'[f] = RowFor(g) /\ \A h \in Files : h # f => store'[h] = store[h]
      /\ RowFor(g).hash = job.content
  BY <1>0, <1>a, RowForIsRow DEF TypeOK, JobGeneration
<1>2. FilePast(rank, f) /\ Before(rank, job.content, disk[f])
  BY <1>0, <1>a DEF HistoryInv, JobIsPast
<1>3. ASSUME NEW i \in DOMAIN log["cpg.nodes"][f], NEW c \in Contents,
             DeletedFor(rank, f, log["cpg.nodes"][f][i], c)
      PROVE  DeletedFor(rank, f, log["cpg.nodes"][f][i], c)'
  <2>1. Before(rank, c, job.content)
    BY <1>0, <1>a, <1>3 DEF DeletedFor
  <2> QED
    BY <1>0, <1>1, <1>3, <2>1 DEF DeletedFor
<1>4. FilePast(rank, f)'
  BY <1>0, <1>1, <1>2, <1>3 DEF FilePast, RowIsPast, DeletesAreJustified
<1>5. ASSUME NEW h \in Files, h # f PROVE FilePast(rank, h)'
  BY <1>0, <1>1, <1>5, PastFrame DEF HistoryInv
<1> QED
  BY <1>0, <1>4, <1>5 DEF HistoryInv, JobIsPast

LEMMA NextHistory ==
  ASSUME TypeOK, JobReadable, LogInv, NEW rank \in [Contents \cup {Missing} -> Nat],
         Onwards(rank), HistoryInv(rank), [Next]_vars
  PROVE  HistoryInv(rank)'
<1> USE DEF envVars, runVars, histVars
<1>a. ASSUME UNCHANGED <<log, disk, store, dirty>>,
             \/ job' \in {job, NoJob}
             \/ job # NoJob /\ job' # NoJob /\ job'.file = job.file /\ job'.content = job.content
      PROVE  HistoryInv(rank)'
  <2>1. ASSUME NEW f \in Files PROVE FilePast(rank, f)'
    <3>1. CASE job' = NoJob
      BY <1>a, <3>1, PastFrame DEF HistoryInv
    <3>2. CASE job' # NoJob
      BY <1>a, <3>2, PastFrame DEF HistoryInv
    <3> QED
      BY <3>1, <3>2
  <2>2. JobIsPast(rank)'
    BY <1>a DEF HistoryInv, JobIsPast
  <2> QED
    BY <2>1, <2>2 DEF HistoryInv
<1>d. ASSUME NEW p, AfterFailure(p) PROVE job' = NoJob
  BY <1>d DEF AfterFailure, Halt
<1>1. ASSUME NEW f \in Files, NEW c \in Contents \cup {Missing}, Edit(f, c)
      PROVE  HistoryInv(rank)'
  BY <1>1, EditPast
<1>2. CASE Upgrade \/ StartRun \/ EndRun \/ ParseFails \/ SkipUnchanged
  BY <1>2, <1>a DEF Upgrade, StartRun, EndRun, ParseFails, SkipUnchanged, Halt, NextFile
<1>3. ASSUME NEW f \in Files, ReadFile(f) PROVE HistoryInv(rank)'
  BY <1>3, ReadFilePast
<1>4. CASE ParserRaises \/ ReportError \/ ReportErrorFails \/ ReportErrorDropped \/ ReportErrorRejected
  BY <1>4, <1>a, <1>d DEF ParserRaises, ReportError, ReportErrorFails, ReportErrorDropped, ReportErrorRejected
<1>5. CASE StageEvents
  <2>1. /\ job \in Job /\ job # NoJob /\ UNCHANGED <<log, disk, store, dirty>>
        /\ pc' = "staged"
    BY <1>5, JobIs DEF StageEvents, TypeOK
  <2>2. \E batch : job' = [job EXCEPT !.batch = batch]
    BY <1>5 DEF StageEvents
  <2>3. job'.file = job.file /\ job'.content = job.content
    BY <2>1, <2>2 DEF Job
  <2>4. job' # NoJob
    BY <1>5, NextTypeOK DEF TypeOK, StageEvents
  <2> QED
    BY <1>a, <2>1, <2>3, <2>4
<1>6. CASE PublishBatch
  <2>1. /\ job \in Job /\ job.file \in Files /\ job.batch \in [Topics -> Seq(Event)]
        /\ Deliver(job.batch) /\ pc = "staged" /\ UNCHANGED <<disk, store, job>>
        /\ dirty' = dirty \cup {job.file}
    BY <1>6, JobIs DEF PublishBatch
  <2>2. /\ job.batch["cpg.nodes"] \in Seq(Event)
        /\ log'["cpg.nodes"][job.file] = log["cpg.nodes"][job.file] \o job.batch["cpg.nodes"]
        /\ \A h \in Files : h # job.file => log'["cpg.nodes"][h] = log["cpg.nodes"][h]
    BY <2>1, DeliverAppends DEF Topics
  <2> QED
    BY <2>1, <2>2, PublicationPast
<1>7. CASE PublishFails
  <2>1. /\ job \in Job /\ PartlyDelivered /\ pc = "staged" /\ UNCHANGED <<disk, store>>
        /\ job' = NoJob
    BY <1>7, JobIs DEF PublishFails, Abort, Halt
  <2>2. CASE /\ \A t \in Topics, h \in Files : log'[t][h] = log[t][h]
             /\ UNCHANGED <<abandoned, dirty>>
    <3>1. ASSUME NEW f \in Files PROVE FilePast(rank, f)'
      BY <2>1, <2>2, PastFrame DEF HistoryInv, Topics
    <3> QED
      BY <2>1, <3>1 DEF HistoryInv, JobIsPast
  <2>3. CASE /\ dirty' = dirty \cup {job.file}
             /\ \A t \in Topics, h \in Files : h # job.file => log'[t][h] = log[t][h]
             /\ \A t \in Topics : \E u \in Seq(Event) :
                  /\ log'[t][job.file] = log[t][job.file] \o u
                  /\ \A i \in 1..Len(u) : \E j \in 1..Len(job.batch[t]) : u[i] = job.batch[t][j]
    <3>1. PICK u \in Seq(Event) :
            /\ log'["cpg.nodes"][job.file] = log["cpg.nodes"][job.file] \o u
            /\ \A i \in 1..Len(u) : \E j \in 1..Len(job.batch["cpg.nodes"]) :
                 u[i] = job.batch["cpg.nodes"][j]
      BY <2>3 DEF Topics
    <3>2. /\ \A h \in Files : h # job.file => log'["cpg.nodes"][h] = log["cpg.nodes"][h]
          /\ job.file \in dirty' /\ dirty \subseteq dirty'
      BY <2>3 DEF Topics
    <3> QED
      BY <2>1, <3>1, <3>2, PublicationPast
  <2> QED
    BY <2>1, <2>2, <2>3, PartlyDeliveredAppends
<1>8. CASE CommitState
  BY <1>8, CommitPast
<1>9. CASE AbortBeforePublish \/ PublishRejected \/ CommitFails \/ Crash
  BY <1>9, <1>a DEF AbortBeforePublish, PublishRejected, CommitFails, Crash, Abort, Halt
<1>10. CASE UNCHANGED vars
  BY <1>10, <1>a DEF vars
<1> QED
  BY <1>1, <1>2, <1>3, <1>4, <1>5, <1>6, <1>7, <1>8, <1>9, <1>10
     DEF Next, RunNext, Proceed, Fault, Environment

-----------------------------------------------------------------------------
(***************************************************************************)
(* The graph and the topic.  A redelivery applies old records to a newer   *)
(* graph, so that the graph need not be any prefix of the topic; but the   *)
(* last record about a node is applied after all others of it, and again   *)
(* after each redelivery of them.                                          *)
(***************************************************************************)

(* Position q is the last to speak of its node; it upserts it, in a        *)
(* generation in which the topic nowhere deletes it.                       *)
Prevails(s, q) ==
    /\ s[q].type = "NODE_UPSERT"
    /\ \A j \in DOMAIN s : j > q => s[j].id # s[q].id
    /\ \A j \in DOMAIN s :
         ~ (s[j].type = "NODE_DELETE" /\ s[j].id = s[q].id /\ s[j].gen = s[q].gen)

NodesFollow(f) ==
    \A q \in DOMAIN log["cpg.nodes"][f] :
        LET event == log["cpg.nodes"][f][q]
        IN Prevails(log["cpg.nodes"][f], q) /\ q <= position["cpg.nodes"][f]
               /\ <<f, event.gen>> \notin dlq
           => graph[f].node[event.id] = [placeholder |-> FALSE, gen |-> event.gen]

SinkFollows == \A f \in Files : NodesFollow(f)

LEMMA PrevailingIsNode ==
  ASSUME NEW s \in Seq(Event), NEW q \in DOMAIN s, Prevails(s, q)
  PROVE  /\ s[q].id \in Nodes /\ s[q].gen \in Generation
         /\ [placeholder |-> FALSE, gen |-> s[q].gen] # Absent
<1>1. s[q] \in Event /\ s[q].type = "NODE_UPSERT"
  BY DEF Prevails
<1>2. s[q] \in NodeEvent
  BY <1>1 DEF Event, EdgeEvent, MetadataEvent
<1>3. s[q].id \in Nodes /\ s[q].gen \in Generation
  BY <1>2 DEF NodeEvent
<1>4. [placeholder |-> FALSE, gen |-> s[q].gen] \in NodeRecord
  BY <1>3 DEF NodeRecord
<1> QED
  BY <1>3, <1>4, SinkAssumption

(* Records appended behind a prevailing one can only end its reign.        *)
LEMMA PrevailsBefore ==
  ASSUME NEW s \in Seq(Event), NEW u \in Seq(Event), NEW q \in 1..Len(s), Prevails(s \o u, q)
  PROVE  Prevails(s, q) /\ (s \o u)[q] = s[q]
<1> DEFINE c == s \o u
<1>1. \A j \in DOMAIN s : j \in DOMAIN c /\ c[j] = s[j]
  BY AppendedIs
<1>2. q \in DOMAIN s /\ Prevails(c, q)
  BY AppendedIs
<1> HIDE DEF c
<1>3. Prevails(s, q) /\ c[q] = s[q]
  BY <1>1, <1>2 DEF Prevails
<1> QED
  BY <1>3 DEF c

LEMMA FollowsWhenAppended ==
  ASSUME TypeOK, JobReadable, PipelineTypeOK, NEW f \in Files, NodesFollow(f), [Next]_vars,
         UNCHANGED <<graph, position, dlq>>
  PROVE  NodesFollow(f)'
<1>0. PICK s \in Seq(Event) : s = log["cpg.nodes"][f]
  BY DEF TypeOK, Topics
<1>1. PICK u \in Seq(Event) : log'["cpg.nodes"][f] = s \o u
  BY <1>0, NextAppends DEF Topics
<1> DEFINE c == s \o u
<1>2. SUFFICES ASSUME NEW q \in DOMAIN c, Prevails(c, q), q <= position["cpg.nodes"][f],
                      <<f, c[q].gen>> \notin dlq
               PROVE  graph[f].node[c[q].id] = [placeholder |-> FALSE, gen |-> c[q].gen]
  BY <1>1 DEF NodesFollow
<1>3. q \in 1..Len(s)
  <2>1. position["cpg.nodes"][f] <= Len(s) /\ position["cpg.nodes"][f] \in Nat
    BY <1>0 DEF PipelineTypeOK, Sinks
  <2>2. q \in 1..(Len(s) + Len(u)) /\ Len(s) \in Nat /\ Len(u) \in Nat
    BY AppendedIs
  <2> QED
    BY <1>2, <2>1, <2>2
<1>4. Prevails(s, q) /\ c[q] = s[q] /\ q \in DOMAIN s
  BY <1>2, <1>3, PrevailsBefore
<1> HIDE DEF c
<1> QED
  BY <1>0, <1>2, <1>4 DEF NodesFollow

LEMMA FollowsWhenPut ==
  ASSUME TypeOK, PipelineTypeOK, NEW f \in Files, NodesFollow(f),
         NEW s \in Sinks, NEW h \in Files, NEW k \in 1..BatchSize(s), Put(s, h, k)
  PROVE  NodesFollow(f)'
<1>0. PICK l \in Seq(Event) : l = log["cpg.nodes"][f]
  BY DEF TypeOK, Topics
<1>1. /\ Consume(s, h, k) /\ UNCHANGED <<log, dlq>>
      /\ graph' = [graph EXCEPT ![h] =
                     IF s = "cpg.nodes" THEN ApplyNodeBatch(graph[h], Batch(s, h, k))
                                        ELSE ApplyEdgeBatch(graph[h], Batch(s, h, k))]
  BY DEF Put, vars
<1>2. SUFFICES ASSUME NEW q \in DOMAIN l, Prevails(l, q), q <= position'["cpg.nodes"][f],
                      <<f, l[q].gen>> \notin dlq
               PROVE  graph'[f].node[l[q].id] = [placeholder |-> FALSE, gen |-> l[q].gen]
  BY <1>0, <1>1 DEF NodesFollow
<1>3. /\ l[q].id \in Nodes
      /\ [placeholder |-> FALSE, gen |-> l[q].gen] # Absent
  BY <1>2, PrevailingIsNode
<1>4. ASSUME q <= position["cpg.nodes"][f]
      PROVE  graph[f].node[l[q].id] = [placeholder |-> FALSE, gen |-> l[q].gen]
  BY <1>0, <1>2, <1>4 DEF NodesFollow
<1>5. graph[f] \in Graph /\ Batch(s, h, k) \in Seq(Event)
  BY <1>1, BatchIs DEF PipelineTypeOK
<1>6. CASE h # f
  <2>1. position'["cpg.nodes"][f] = position["cpg.nodes"][f]
    BY <1>1, <1>6, BatchIs DEF Sinks
  <2>2. graph'[f] = graph[f]
    BY <1>1, <1>6 DEF PipelineTypeOK
  <2> QED
    BY <1>2, <1>4, <2>1, <2>2
<1>7. CASE h = f /\ s = "cpg.edges"
  <2>1. position'["cpg.nodes"][f] = position["cpg.nodes"][f]
    BY <1>1, <1>7, BatchIs DEF Sinks
  <2>2. graph'[f] = ApplyEdgeBatch(graph[f], Batch(s, h, k))
    BY <1>1, <1>7 DEF PipelineTypeOK
  <2>3. graph[f].node[l[q].id] = [placeholder |-> FALSE, gen |-> l[q].gen]
    BY <1>2, <1>4, <2>1
  <2> QED
    BY <1>3, <1>5, <2>2, <2>3, EdgeBatchIsGraph
<1>8. CASE h = f /\ s = "cpg.nodes"
  <2> DEFINE b == Batch(s, h, k)
             p == position["cpg.nodes"][f]
  <2>1. /\ k \in Nat /\ p \in Nat /\ p + k <= Len(l)
        /\ b \in Seq(Event) /\ DOMAIN b = 1..k
        /\ \A i \in 1..k : b[i] = l[p + i]
        /\ position'["cpg.nodes"][f] = p + k
    BY <1>0, <1>1, <1>8, BatchIs
  <2>2. graph'[f] = ApplyNodeBatch(graph[f], b)
    BY <1>1, <1>8 DEF PipelineTypeOK
  <2>3. /\ \A i \in 1..k : p + i \in DOMAIN l /\ p + i \in Nat
        /\ q \in Nat
    BY <2>1
  <2> HIDE DEF b, p
  <2>4. CASE q <= p
    <3>1. \A i \in DOMAIN b : b[i].id # l[q].id
      <4>1. \A i \in 1..k : p + i > q
        BY <2>1, <2>3, <2>4
      <4> QED
        BY <1>2, <2>1, <2>3, <4>1 DEF Prevails
    <3>2. graph[f].node[l[q].id] = [placeholder |-> FALSE, gen |-> l[q].gen]
      BY <1>4, <2>4 DEF p
    <3> QED
      BY <1>3, <1>5, <2>1, <2>2, <3>1, <3>2, NodeBatchSpares, ZenonT(40)
  <2>5. CASE ~ (q <= p)
    <3>1. q - p \in 1..k /\ q = p + (q - p)
      BY <1>2, <2>1, <2>3, <2>5
    <3>2. PICK r \in 1..k : r = q - p /\ q = p + r /\ b[r] = l[q]
      BY <2>1, <3>1
    <3>3. \A i \in 1..k : i > r => p + i > q
      BY <2>1, <3>2
    <3>4. /\ b[r].type = "NODE_UPSERT" /\ b[r].id = l[q].id
          /\ \A i \in DOMAIN b : i > r => b[i].id # l[q].id
          /\ \A i \in DOMAIN b :
               ~ (b[i].type = "NODE_DELETE" /\ b[i].id = l[q].id /\ b[i].gen = b[r].gen)
      BY <1>2, <2>1, <2>3, <3>2, <3>3 DEF Prevails
    <3>5. ApplyNodeBatch(graph[f], b).node[l[q].id] = [placeholder |-> FALSE, gen |-> b[r].gen]
      <4>1. PICK n \in Nodes : n = l[q].id
        BY <1>3
      <4>2. /\ b[r].type = "NODE_UPSERT" /\ b[r].id = n /\ r \in DOMAIN b
            /\ \A i \in DOMAIN b : i > r => b[i].id # n
            /\ \A i \in DOMAIN b :
                 ~ (b[i].type = "NODE_DELETE" /\ b[i].id = n /\ b[i].gen = b[r].gen)
        BY <2>1, <3>4, <4>1
      <4>3. graph[f] \in Graph /\ b \in Seq(Event)
        BY <1>5, <1>8, <2>1
      <4>4. ApplyNodeBatch(graph[f], b).node[n] = [placeholder |-> FALSE, gen |-> b[r].gen]
        BY <4>2, <4>3, NodeBatchWrites
      <4> QED
        BY <4>1, <4>4
    <3> QED
      BY <2>2, <3>2, <3>5
  <2> QED
    BY <2>4, <2>5
<1> QED
  BY <1>6, <1>7, <1>8 DEF Sinks

LEMMA FollowsWhenLost ==
  ASSUME TypeOK, PipelineTypeOK, NEW f \in Files, NodesFollow(f),
         NEW s \in Sinks, NEW h \in Files, NEW k \in 1..BatchSize(s), DeadLetter(s, h, k)
  PROVE  NodesFollow(f)'
<1>0. PICK l \in Seq(Event) : l = log["cpg.nodes"][f]
  BY DEF TypeOK, Topics
<1>1. /\ Consume(s, h, k) /\ UNCHANGED <<log, graph>>
      /\ dlq' = dlq \cup {<<h, event.gen>> : event \in Range(Batch(s, h, k))}
  BY DEF DeadLetter, vars
<1>2. SUFFICES ASSUME NEW q \in DOMAIN l, Prevails(l, q), q <= position'["cpg.nodes"][f],
                      <<f, l[q].gen>> \notin dlq'
               PROVE  graph[f].node[l[q].id] = [placeholder |-> FALSE, gen |-> l[q].gen]
  BY <1>0, <1>1 DEF NodesFollow
<1>3. <<f, l[q].gen>> \notin dlq
  BY <1>1, <1>2
<1>4. q <= position["cpg.nodes"][f]
  <2>1. CASE h # f \/ s = "cpg.edges"
    <3>1. position'["cpg.nodes"][f] = position["cpg.nodes"][f]
      BY <1>1, <2>1, BatchIs DEF Sinks
    <3> QED
      BY <1>2, <3>1
  <2>2. CASE h = f /\ s = "cpg.nodes"
    <3> DEFINE b == Batch(s, h, k)
               p == position["cpg.nodes"][f]
    <3>0. /\ k \in Nat /\ position[s][h] \in Nat
          /\ Batch(s, h, k) \in Seq(Event) /\ DOMAIN Batch(s, h, k) = 1..k
          /\ \A i \in 1..k : Batch(s, h, k)[i] = log[s][h][position[s][h] + i]
          /\ position'[s][h] = position[s][h] + k
      BY <1>1, BatchIs
    <3>a. position[s][h] = p /\ log[s][h] = l /\ position'["cpg.nodes"][f] = position'[s][h]
      BY <1>0, <2>2
    <3>b. q \in Nat
      OBVIOUS
    <3>1. /\ k \in Nat /\ p \in Nat /\ q \in Nat
          /\ b \in Seq(Event) /\ DOMAIN b = 1..k
          /\ \A i \in 1..k : b[i] = l[p + i]
          /\ position'["cpg.nodes"][f] = p + k
      <4> HIDE DEF p
      <4> QED
        BY <3>0, <3>a, <3>b
    <3>2. \A i \in 1..k : <<f, b[i].gen>> \in dlq'
      BY <1>1, <2>2, <3>1 DEF Range
    <3> HIDE DEF b, p
    <3>3. ASSUME ~ (q <= p) PROVE FALSE
      <4>1. q - p \in 1..k /\ q = p + (q - p)
        BY <1>2, <3>1, <3>3
      <4>2. b[q - p] = l[q]
        BY <3>1, <4>1
      <4> QED
        BY <1>2, <3>2, <4>1, <4>2
    <3> QED
      BY <3>3 DEF p
  <2> QED
    BY <2>1, <2>2 DEF Sinks
<1> QED
  BY <1>0, <1>2, <1>3, <1>4 DEF NodesFollow

LEMMA FollowsWhenOffsets ==
  ASSUME TypeOK, PipelineTypeOK, NEW f \in Files, NodesFollow(f),
         NEW s \in Sinks, NEW h \in Files, CommitOffset(s, h) \/ RestartTask(s, h)
  PROVE  NodesFollow(f)'
<1>0. PICK l \in Seq(Event) : l = log["cpg.nodes"][f]
  BY DEF TypeOK, Topics
<1>1. UNCHANGED <<log, graph, dlq>>
  BY DEF CommitOffset, RestartTask, vars
<1>2. /\ position'["cpg.nodes"][f] <= position["cpg.nodes"][f]
      /\ position'["cpg.nodes"][f] \in Nat /\ position["cpg.nodes"][f] \in Nat
  <2>0. "cpg.nodes" \in Sinks
    BY DEF Sinks
  <2>1. /\ position["cpg.nodes"][f] \in Nat /\ committed["cpg.nodes"][f] \in Nat
        /\ committed["cpg.nodes"][f] <= position["cpg.nodes"][f]
    BY <2>0 DEF PipelineTypeOK
  <2>2. CASE CommitOffset(s, h)
    <3>1. position' = position
      BY <2>2 DEF CommitOffset
    <3> QED
      BY <2>1, <3>1
  <2>3. CASE RestartTask(s, h)
    <3>1. position' = [position EXCEPT ![s] = [position[s] EXCEPT ![h] = committed[s][h]]]
      BY <2>3 DEF RestartTask
    <3>2. \/ position'["cpg.nodes"][f] = position["cpg.nodes"][f]
          \/ position'["cpg.nodes"][f] = committed["cpg.nodes"][f]
      BY <2>0, <3>1 DEF PipelineTypeOK
    <3> QED
      BY <2>1, <3>2
  <2> QED
    BY <2>2, <2>3
<1>3. SUFFICES ASSUME NEW q \in DOMAIN l, Prevails(l, q), q <= position'["cpg.nodes"][f],
                      <<f, l[q].gen>> \notin dlq
               PROVE  graph[f].node[l[q].id] = [placeholder |-> FALSE, gen |-> l[q].gen]
  BY <1>0, <1>1 DEF NodesFollow
<1>4. q <= position["cpg.nodes"][f]
  BY <1>2, <1>3
<1> QED
  BY <1>0, <1>3, <1>4 DEF NodesFollow

LEMMA NextFollows ==
  ASSUME TypeOK, JobReadable, PipelineTypeOK, SinkFollows, [PipelineNext]_pipelineVars
  PROVE  SinkFollows'
<1> SUFFICES ASSUME NEW f \in Files PROVE NodesFollow(f)'
  BY DEF SinkFollows
<1>0. NodesFollow(f) /\ [Next]_vars
  BY PipelineStepIsRunStep DEF SinkFollows
<1>1. CASE ParserStep \/ UNCHANGED pipelineVars
  BY <1>0, <1>1, FollowsWhenAppended DEF ParserStep, pipelineVars, sinkVars
<1>2. CASE SinkStep
  <2>1. PICK s \in Sinks, h \in Files :
          \/ \E k \in 1..BatchSize(s) : Put(s, h, k) \/ DeadLetter(s, h, k)
          \/ CommitOffset(s, h)
          \/ RestartTask(s, h)
    BY <1>2 DEF SinkStep
  <2> QED
    BY <1>0, <2>1, FollowsWhenPut, FollowsWhenLost, FollowsWhenOffsets
<1> QED
  BY <1>1, <1>2 DEF PipelineNext

-----------------------------------------------------------------------------
(***************************************************************************)
(* The theorem.  A committed node is live in the topic (ParserRun_proofs), *)
(* so that the last record about it is an upsert; the committed generation *)
(* wrote it last; and no delete of the topic names it in that generation.  *)
(***************************************************************************)
LEMMA CommittedPrevails ==
  ASSUME TypeOK, LogInv, NEW rank \in [Contents \cup {Missing} -> Nat], HistoryInv(rank),
         NEW f \in Files, Settled(f), store[f] # NoRow, NEW n \in store[f].nodes,
         StoreBackedByLog
  PROVE  \E q \in DOMAIN log["cpg.nodes"][f] :
           /\ Prevails(log["cpg.nodes"][f], q)
           /\ log["cpg.nodes"][f][q].id = n
           /\ log["cpg.nodes"][f][q].gen = RowGeneration(store[f])
<1> DEFINE s == log["cpg.nodes"][f]
           g == RowGeneration(store[f])
<1>1. s \in Seq(Event) /\ store[f] \in Row
  BY DEF TypeOK, Topics
<1>2. /\ n \in LiveNodes(f)
      /\ LatestUpsert(s, "NODE_UPSERT", n) = g
  BY DEF LogInv, FileShows, RowIsLive, RowWroteLast, LastWrote, RowGeneration
<1>3. ASSUME NEW i \in DOMAIN s, s[i].type = "NODE_DELETE", s[i].id = n, s[i].gen = g
      PROVE  FALSE
  <2>1. PICK c \in Contents : DeletedFor(rank, f, s[i], c)
    BY <1>3 DEF HistoryInv, FilePast, DeletesAreJustified
  <2>2. g[1] = store[f].hash /\ g[2] = store[f].version /\ store[f].hash \in Contents
    BY <1>1 DEF RowGeneration, Row
  <2>3. c = store[f].hash
    BY <1>3, <2>1, <2>2, BeforeIsOrder DEF DeletedFor
  <2>4. n \notin NodesOf(<<store[f].hash, store[f].version>>)
    BY <1>3, <2>1, <2>2, <2>3 DEF DeletedFor
  <2>5. store[f] = RowFor(<<store[f].hash, store[f].version>>)
    BY DEF StoreBackedByLog
  <2>6. \A h : RowFor(h).nodes = NodesOf(h)
    BY DEF RowFor
  <2>7. RowFor(<<store[f].hash, store[f].version>>).nodes
          = NodesOf(<<store[f].hash, store[f].version>>)
    BY <2>6
  <2> QED
    BY <2>4, <2>5, <2>7
<1>4. PICK i \in DOMAIN s : KeepsLive(s, "NODE_UPSERT", n, i)
  BY <1>2, LiveIs DEF LiveNodes
<1> DEFINE hits == {j \in DOMAIN s : s[j].type = "NODE_UPSERT" /\ s[j].id = n}
           last == LastOf(hits)
<1>5. i \in hits /\ hits \in SUBSET (DOMAIN s)
  BY <1>4 DEF KeepsLive
<1>6. last \in hits /\ \A h \in hits : h <= last
  <2>1. hits # {} /\ s \in Seq(Event) /\ hits \in SUBSET (DOMAIN s)
    BY <1>1, <1>5
  <2> HIDE DEF hits, s
  <2>2. LastOf(hits) \in hits /\ \A h \in hits : h <= LastOf(hits)
    BY <2>1, EndsOfPositions
  <2> QED
    BY <2>2
<1>7. s[last].gen = g
  BY <1>2 DEF LatestUpsert, LastOf
<1>8. PICK q \in DOMAIN s : q = last
  BY <1>6
<1>9. DOMAIN s \subseteq Nat
  BY <1>1
<1> HIDE DEF last
<1>10. ASSUME NEW j \in DOMAIN s, j > q PROVE s[j].id # n
  <2>1. i <= q
    BY <1>5, <1>6, <1>8
  <2>2. s[j].id = n => s[j].type = "NODE_UPSERT"
    <3>1. j > i
      BY <1>9, <1>10, <2>1
    <3> QED
      BY <1>4, <3>1 DEF KeepsLive
  <2>3. j \in hits => j <= q
    BY <1>6, <1>8
  <2> QED
    BY <1>9, <1>10, <2>2, <2>3
<1>11. s[q].type = "NODE_UPSERT" /\ s[q].id = n /\ s[q].gen = g
  BY <1>6, <1>7, <1>8
<1> HIDE DEF s, g
<1>12. Prevails(s, q)
  BY <1>3, <1>10, <1>11 DEF Prevails
<1> QED
  BY <1>11, <1>12 DEF s, g

LEMMA FollowingHolds ==
  ASSUME TypeOK, LogInv, StoreBackedByLog, NEW rank \in [Contents \cup {Missing} -> Nat],
         HistoryInv(rank), SinkFollows
  PROVE  CommittedNodesArePresent
<1> SUFFICES ASSUME NEW f \in Files, Quiescent(f), store[f] # NoRow,
                    <<f, RowGeneration(store[f])>> \notin dlq
             PROVE  HoldsNodes(f)
  BY DEF CommittedNodesArePresent
<1>1. /\ Settled(f) /\ position["cpg.nodes"][f] = Len(log["cpg.nodes"][f])
      /\ log["cpg.nodes"][f] \in Seq(Event)
      /\ store[f] \in Row
  BY DEF Quiescent, Drained, Sinks, TypeOK, Topics
<1>2. ASSUME NEW n \in store[f].nodes
      PROVE  graph[f].node[n] = [placeholder |-> FALSE, gen |-> RowGeneration(store[f])]
  <2>1. PICK q \in DOMAIN log["cpg.nodes"][f] :
           /\ Prevails(log["cpg.nodes"][f], q)
           /\ log["cpg.nodes"][f][q].id = n
           /\ log["cpg.nodes"][f][q].gen = RowGeneration(store[f])
    BY <1>1, CommittedPrevails
  <2>2. q <= position["cpg.nodes"][f]
    BY <1>1
  <2> QED
    BY <2>1, <2>2 DEF SinkFollows, NodesFollow
<1>3. RowNodes(store[f]) = store[f].nodes
  BY DEF RowNodes
<1>4. RowGeneration(store[f]) \in Generation /\ store[f].nodes \subseteq Nodes
  BY <1>1 DEF RowGeneration, Generation, Row
<1>5. [placeholder |-> FALSE, gen |-> RowGeneration(store[f])] # Absent
  <2>1. [placeholder |-> FALSE, gen |-> RowGeneration(store[f])] \in NodeRecord
    BY <1>4 DEF NodeRecord
  <2> QED
    BY <2>1, SinkAssumption
<1> QED
  BY <1>2, <1>3, <1>5 DEF HoldsNodes, Placeholders

(* Once a file is settled and its connectors are through, all nodes of the *)
(* committed content are in Neo4j, hydrated and in their generation,       *)
(* whatever the interleavings, lags, redeliveries, aborted publications,   *)
(* upgrades and lost batches of other generations before.                  *)
THEOREM CommittedNodesStay ==
  ASSUME ContentsDoNotReturn
  PROVE  PipelineSpec => []CommittedNodesArePresent
<1>0. PICK rank \in [Contents \cup {Missing} -> Nat] : Onwards(rank)
  BY DEF ContentsDoNotReturn
<1>1. PipelineInit => HistoryInv(rank) /\ SinkFollows
  <2> SUFFICES ASSUME PipelineInit PROVE HistoryInv(rank) /\ SinkFollows
    OBVIOUS
  <2>1. \A f \in Files : DOMAIN log["cpg.nodes"][f] = {}
    BY DEF PipelineInit, Init, Topics
  <2> QED
    BY <2>1, InitHistory DEF PipelineInit, SinkFollows, NodesFollow
<1>2. TypeOK /\ JobReadable /\ LogInv /\ PipelineTypeOK /\ HistoryInv(rank) /\ SinkFollows
        /\ [PipelineNext]_pipelineVars => HistoryInv(rank)' /\ SinkFollows'
  BY <1>0, PipelineStepIsRunStep, NextHistory, NextFollows
<1>3. BackedInv /\ LogInv /\ HistoryInv(rank) /\ SinkFollows => CommittedNodesArePresent
  BY FollowingHolds DEF BackedInv
<1>4. BackedInv => TypeOK /\ JobReadable
  BY DEF BackedInv
<1> QED
  BY <1>1, <1>2, <1>3, <1>4, PipelineRunsParser, PipelineTypeCorrect, BackedInvariance,
     LogInvariance, PTL DEF PipelineSpec

-----------------------------------------------------------------------------
(***************************************************************************)
(* The whole graph, when runs wait for the offsets.  What can still be     *)
(* delivered, or delivered again, to the graph of a file are then records  *)
(* of one publication, of a generation g over a row o, repeated perhaps    *)
(* after it failed: a window.  The graph is between those two whatever     *)
(* part of the window the two connectors have seen, and is g's when they   *)
(* have seen all of it.                                                    *)
(***************************************************************************)
Hydrated(g) == [placeholder |-> FALSE, gen |-> g]

NodeBetween(gr, o, g, n) ==
    \/ n \in NodesOf(g) /\ gr.node[n] = Hydrated(g)
    \/ n \in RowNodes(o) /\ gr.node[n] = Hydrated(RowGeneration(o))
    \/ n \in NodesOf(g) \ RowNodes(o) /\ gr.node[n] = [placeholder |-> TRUE, gen |-> g]
    \/ n \notin NodesOf(g) \cap RowNodes(o) /\ gr.node[n] = Absent

EdgeBetween(gr, o, g, e) ==
    \/ e \in EdgesOf(g) /\ gr.edge[e] = g
    \/ e \in RowEdges(o) /\ gr.edge[e] = RowGeneration(o)
    \/ e \notin EdgesOf(g) \cap RowEdges(o) /\ gr.edge[e] = Absent

Between(gr, o, g) ==
    /\ \A n \in Nodes : NodeBetween(gr, o, g, n)
    /\ \A e \in Edges : EdgeBetween(gr, o, g, e)

(* The tombstones are of contents before that of g.                        *)
TombsPrecede(rank, gr, g) ==
    \A tomb \in gr.nodeTombs \cup gr.edgeTombs : rank[tomb[2][1]] < rank[g[1]]

(* The records of a publication of g over o.                               *)
SentNode(o, g, event) ==
    \/ event.type = "NODE_UPSERT" /\ event.id \in NodesOf(g) /\ event.gen = g
    \/ /\ event.type = "NODE_DELETE" /\ event.id \in RemovedNodes(o, g)
       /\ event.gen = RowGeneration(o)

SentEdge(o, g, event) ==
    \/ event.type = "EDGE_UPSERT" /\ event.id \in EdgesOf(g) /\ event.gen = g
    \/ /\ event.type = "EDGE_DELETE" /\ event.id \in RemovedEdges(o, g)
       /\ event.gen = RowGeneration(o)

(* What the connector has seen of it has had its effect.                   *)
NodeApplied(gr, g, event) ==
    gr.node[event.id] = IF event.type = "NODE_UPSERT" THEN Hydrated(g) ELSE Absent

EdgeApplied(gr, g, event) ==
    gr.edge[event.id] = IF event.type = "EDGE_UPSERT" THEN g ELSE Absent

(* The positions of the window in one topic.                               *)
Beyond(s, f, base) == {i \in DOMAIN log[s][f] : i > base[s]}

(* The window has a record of that type about each of the ids.             *)
Names(s, f, base, type, ids) ==
    \A x \in ids : \E i \in Beyond(s, f, base) : log[s][f][i].type = type /\ log[s][f][i].id = x

(* All of the publication is in the topics.                                *)
IsComplete(f, o, g, base) ==
    /\ Names("cpg.nodes", f, base, "NODE_UPSERT", NodesOf(g))
    /\ Names("cpg.nodes", f, base, "NODE_DELETE", RemovedNodes(o, g))
    /\ Names("cpg.edges", f, base, "EDGE_UPSERT", EdgesOf(g))
    /\ Names("cpg.edges", f, base, "EDGE_DELETE", RemovedEdges(o, g))

(* The window of a file, and how far the connectors are in it.             *)
Delivered(rank, f, o, g, base) ==
    /\ o # NoRow => rank[o.hash] < rank[g[1]]
    /\ \A s \in Sinks : base[s] <= committed[s][f]
    /\ \A i \in Beyond("cpg.nodes", f, base) : SentNode(o, g, log["cpg.nodes"][f][i])
    /\ \A i \in Beyond("cpg.edges", f, base) : SentEdge(o, g, log["cpg.edges"][f][i])
    /\ Between(graph[f], o, g)
    /\ TombsPrecede(rank, graph[f], g)
    /\ \A i \in Beyond("cpg.nodes", f, base) :
         i <= position["cpg.nodes"][f] => NodeApplied(graph[f], g, log["cpg.nodes"][f][i])
    /\ \A i \in Beyond("cpg.edges", f, base) :
         i <= position["cpg.edges"][f] => EdgeApplied(graph[f], g, log["cpg.edges"][f][i])

(* Whose window it is: that of the committed row, or that of the content   *)
(* on disk, published over the committed row and not committed.            *)
Accounted(f, o, g, base) ==
    /\ IF f \in dirty THEN store[f] = o /\ g[1] = disk[f] ELSE store[f] = RowFor(g)
    /\ f \notin dirty \/ (pc = "published" /\ job.file = f) => IsComplete(f, o, g, base)

HasWindow(rank, f) ==
    \E o \in Row \cup {NoRow}, g \in Generation, base \in [Sinks -> Nat] :
        Delivered(rank, f, o, g, base) /\ Accounted(f, o, g, base)

Untouched(f) ==
    /\ store[f] = NoRow /\ f \notin dirty
    /\ \A s \in Sinks : log[s][f] = << >>
    /\ \A n \in Nodes : graph[f].node[n] = Absent
    /\ \A e \in Edges : graph[f].edge[e] = Absent
    /\ graph[f].nodeTombs = {} /\ graph[f].edgeTombs = {}

(* A file of this run is published only when all there was is committed.   *)
Awaiting(f) ==
    f \in todo \/ (job # NoJob /\ job.file = f /\ pc # "published") =>
        \A s \in Sinks : committed[s][f] = Len(log[s][f])

OperatedInv(rank) ==
    /\ job # NoJob => job.content = disk[job.file] /\ job.file \notin todo
    /\ pc = "staged" => ~ Unchanged(store[job.file], JobGeneration)
    /\ discipline = "offsets" =>
         \A f \in Files :
            Awaiting(f) /\ (Lossless(f) => Untouched(f) \/ HasWindow(rank, f))

-----------------------------------------------------------------------------
(***************************************************************************)
(* What a batch of the window does to a graph between o and g.             *)
(***************************************************************************)
LEMMA WindowValues ==
  ASSUME NEW o \in Row \cup {NoRow}, NEW g \in Generation
  PROVE  /\ g # Absent /\ Hydrated(g) # Absent
         /\ [placeholder |-> TRUE, gen |-> g] # Absent
         /\ NodesOf(g) \subseteq Nodes /\ EdgesOf(g) \subseteq Edges
         /\ RowNodes(o) \subseteq Nodes /\ RowEdges(o) \subseteq Edges
         /\ o # NoRow => /\ RowGeneration(o) \in Generation /\ RowGeneration(o) # Absent
                         /\ Hydrated(RowGeneration(o)) # Absent
         /\ o = NoRow => RowNodes(o) = {} /\ RowEdges(o) = {}
<1>1. \A h \in Generation : \A flag \in BOOLEAN :
        [placeholder |-> flag, gen |-> h] \in NodeRecord
  BY DEF NodeRecord
<1>2. \A h \in Generation : h # Absent /\ Hydrated(h) # Absent
                              /\ [placeholder |-> TRUE, gen |-> h] # Absent
  BY <1>1, SinkAssumption DEF Hydrated
<1>3. o # NoRow => RowGeneration(o) \in Generation
  BY DEF RowGeneration, Row, Generation
<1>4. NodesOf(g) \subseteq Nodes /\ EdgesOf(g) \subseteq Edges
  BY RowForIsRow DEF RowFor, Row
<1>5. RowNodes(o) \subseteq Nodes /\ RowEdges(o) \subseteq Edges
  BY DEF RowNodes, RowEdges, Row
<1> QED
  BY <1>2, <1>3, <1>4, <1>5 DEF RowNodes, RowEdges

LEMMA NodeBatchDoes ==
  ASSUME NEW gr \in Graph, NEW o \in Row \cup {NoRow}, NEW g \in Generation,
         NEW batch \in Seq(Event), \A i \in DOMAIN batch : SentNode(o, g, batch[i]),
         Between(gr, o, g), NEW n \in Nodes
  PROVE  ApplyNodeBatch(gr, batch).node[n] =
           IF At(batch, "NODE_UPSERT", n) # {} THEN Hydrated(g)
           ELSE IF At(batch, "NODE_DELETE", n) # {} THEN Absent
           ELSE gr.node[n]
<1> DEFINE ups  == At(batch, "NODE_UPSERT", n)
           dels == At(batch, "NODE_DELETE", n)
           merged == MergeNodes(gr, batch)
<1>0. DOMAIN gr = {"node", "edge", "nodeTombs", "edgeTombs"}
  BY DEF Graph
<1>1. ApplyNodeBatch(gr, batch).node[n] =
        IF gr.node[n] # Absent /\ \E i \in dels : batch[i].gen = merged[n].gen
        THEN Absent ELSE merged[n]
  BY <1>0 DEF ApplyNodeBatch
<1>2. ups # {} => n \in NodesOf(g)
  BY DEF At, SentNode
<1>3. \A i \in dels : n \in RemovedNodes(o, g) /\ batch[i].gen = RowGeneration(o)
  BY DEF At, SentNode
<1>4. CASE ups # {}
  <2>1. ups \in SUBSET (DOMAIN batch)
    BY DEF At
  <2>2. LastOf(ups) \in ups
    <3> HIDE DEF ups
    <3> QED
      BY <1>4, <2>1, EndsOfPositions
  <2>3. batch[LastOf(ups)].gen = g
    BY <2>2 DEF At, SentNode
  <2>4. merged[n] = Hydrated(g)
    BY <1>4, <2>3 DEF MergeNodes, Hydrated
  <2>5. dels = {}
    BY <1>2, <1>3, <1>4 DEF RemovedNodes
  <2> HIDE DEF ups, dels, merged
  <2> QED
    BY <1>1, <1>4, <2>4, <2>5 DEF ups
<1>5. CASE ups = {} /\ dels # {}
  <2>1. merged[n] = gr.node[n]
    BY <1>5 DEF MergeNodes
  <2>2. n \in RemovedNodes(o, g) /\ \E i \in dels : batch[i].gen = RowGeneration(o)
    BY <1>3, <1>5
  <2>3. n \notin NodesOf(g) /\ n \in RowNodes(o) /\ o # NoRow
    BY <2>2 DEF RemovedNodes, RowNodes
  <2>4. gr.node[n] = Absent \/ gr.node[n] = Hydrated(RowGeneration(o))
    BY <2>3 DEF Between, NodeBetween
  <2> HIDE DEF ups, dels, merged
  <2>5. gr.node[n] # Absent => merged[n].gen = RowGeneration(o)
    BY <2>1, <2>4 DEF Hydrated
  <2>6. ApplyNodeBatch(gr, batch).node[n] = Absent
    BY <1>1, <2>1, <2>2, <2>5
  <2> QED
    BY <1>5, <2>6 DEF ups, dels
<1>6. CASE ups = {} /\ dels = {}
  <2>1. merged[n] = gr.node[n]
    BY <1>6 DEF MergeNodes
  <2> HIDE DEF ups, dels, merged
  <2> QED
    BY <1>1, <1>6, <2>1 DEF ups, dels
<1> HIDE DEF ups, dels
<1> QED
  BY <1>4, <1>5, <1>6

NodeSpares(gr, after, o, g) ==
    /\ \A e \in Edges : after.edge[e] \in {gr.edge[e], Absent}
    /\ \A e \in EdgesOf(g) : after.edge[e] = gr.edge[e]
    /\ \A tomb \in after.nodeTombs :
         tomb \in gr.nodeTombs \/ (o # NoRow /\ tomb[2] = RowGeneration(o))
    /\ after.edgeTombs = gr.edgeTombs

(* The nodes it deletes are not g's, so that no edge of g is detached, and *)
(* their tombstones are of the row's generation.                           *)
LEMMA NodeBatchLeaves ==
  ASSUME NEW gr \in Graph, NEW o \in Row \cup {NoRow}, NEW g \in Generation,
         NEW batch \in Seq(Event), \A i \in DOMAIN batch : SentNode(o, g, batch[i]),
         Between(gr, o, g)
  PROVE  NodeSpares(gr, ApplyNodeBatch(gr, batch), o, g)
<1> DEFINE merged == MergeNodes(gr, batch)
           dead   == {n \in Nodes :
                        /\ gr.node[n] # Absent
                        /\ \E i \in At(batch, "NODE_DELETE", n) : batch[i].gen = merged[n].gen}
           after  == ApplyNodeBatch(gr, batch)
<1>0. DOMAIN gr = {"node", "edge", "nodeTombs", "edgeTombs"}
  BY DEF Graph
<1>1. /\ \A e \in Edges :
           after.edge[e] = IF {Src[e], Dst[e]} \cap dead # {} THEN Absent ELSE gr.edge[e]
      /\ after.nodeTombs = gr.nodeTombs \cup {<<n, merged[n].gen>> : n \in dead}
      /\ after.edgeTombs = gr.edgeTombs
  <2>0. gr.edge \in [Edges -> Generation \cup {Absent}]
    BY DEF Graph
  <2> QED
    BY <1>0, <2>0 DEF ApplyNodeBatch
<1>2. ASSUME NEW n \in dead
      PROVE  n \notin NodesOf(g) /\ o # NoRow /\ merged[n].gen = RowGeneration(o)
  <2>1. PICK i \in DOMAIN batch : /\ batch[i].type = "NODE_DELETE" /\ batch[i].id = n
                                  /\ batch[i].gen = merged[n].gen
    BY DEF At
  <2>2. batch[i].id \in RemovedNodes(o, g) /\ batch[i].gen = RowGeneration(o)
    BY <2>1 DEF SentNode
  <2> QED
    BY <2>1, <2>2 DEF RemovedNodes, RowNodes
<1>3. \A e \in EdgesOf(g) : e \in Edges /\ {Src[e], Dst[e]} \subseteq NodesOf(g)
  BY WindowValues, ClosedGraphAssumption
<1> HIDE DEF merged, dead, after
<1>4. \A e \in EdgesOf(g) : {Src[e], Dst[e]} \cap dead = {}
  BY <1>2, <1>3
<1>5. \A tomb \in after.nodeTombs :
        tomb \in gr.nodeTombs \/ (o # NoRow /\ tomb[2] = RowGeneration(o))
  BY <1>1, <1>2
<1>6. \A e \in Edges : after.edge[e] \in {gr.edge[e], Absent}
  BY <1>1
<1>7. \A e \in EdgesOf(g) : after.edge[e] = gr.edge[e]
  BY <1>1, <1>3, <1>4
<1>8. NodeSpares(gr, after, o, g)
  BY <1>1, <1>5, <1>6, <1>7 DEF NodeSpares
<1> QED
  BY <1>8 DEF after

NodeEffect(gr, after, batch, o, g) ==
    /\ \A n \in Nodes :
         after.node[n] = IF At(batch, "NODE_UPSERT", n) # {} THEN Hydrated(g)
                         ELSE IF At(batch, "NODE_DELETE", n) # {} THEN Absent
                         ELSE gr.node[n]
    /\ NodeSpares(gr, after, o, g)

LEMMA NodeBatchEffect ==
  ASSUME NEW gr \in Graph, NEW o \in Row \cup {NoRow}, NEW g \in Generation,
         NEW batch \in Seq(Event), \A i \in DOMAIN batch : SentNode(o, g, batch[i]),
         Between(gr, o, g)
  PROVE  NodeEffect(gr, ApplyNodeBatch(gr, batch), batch, o, g)
<1> DEFINE after == ApplyNodeBatch(gr, batch)
<1>1. ASSUME NEW n \in Nodes
      PROVE  after.node[n] = IF At(batch, "NODE_UPSERT", n) # {} THEN Hydrated(g)
                             ELSE IF At(batch, "NODE_DELETE", n) # {} THEN Absent
                             ELSE gr.node[n]
  BY NodeBatchDoes
<1>2. NodeSpares(gr, after, o, g)
  BY NodeBatchLeaves
<1> HIDE DEF after
<1>3. NodeEffect(gr, after, batch, o, g)
  BY <1>1, <1>2 DEF NodeEffect
<1> QED
  BY <1>3 DEF after

EdgeEffect(gr, after, batch, o, g) ==
    /\ \A e \in Edges :
         after.edge[e] = IF At(batch, "EDGE_UPSERT", e) # {} THEN g
                         ELSE IF At(batch, "EDGE_DELETE", e) # {} THEN Absent
                         ELSE gr.edge[e]
    /\ \A n \in Nodes :
         \/ after.node[n] = gr.node[n]
         \/ /\ gr.node[n] = Absent /\ n \in NodesOf(g)
            /\ after.node[n] = [placeholder |-> TRUE, gen |-> g]
    /\ \A tomb \in after.edgeTombs :
         tomb \in gr.edgeTombs \/ (o # NoRow /\ tomb[2] = RowGeneration(o))
    /\ after.nodeTombs = gr.nodeTombs

LEMMA EdgeBatchDoes ==
  ASSUME NEW rank, NEW gr \in Graph, NEW o \in Row \cup {NoRow}, NEW g \in Generation,
         NEW batch \in Seq(Event), \A i \in DOMAIN batch : SentEdge(o, g, batch[i]),
         Between(gr, o, g), rank[g[1]] \in Nat, TombsPrecede(rank, gr, g)
  PROVE  EdgeEffect(gr, ApplyEdgeBatch(gr, batch), batch, o, g)
<1> DEFINE effective(e) == EffectiveUpserts(gr, batch, e)
           merged ==
             [e \in Edges |->
                LET ups == EffectiveUpserts(gr, batch, e)
                IN IF ups = {} THEN gr.edge[e] ELSE batch[LastOf(ups)].gen]
           touching(n) == EndPointUpserts(gr, batch, n)
           after == ApplyEdgeBatch(gr, batch)
<1>0. DOMAIN gr = {"node", "edge", "nodeTombs", "edgeTombs"}
  BY DEF Graph
<1>1. /\ \A e \in Edges : after.edge[e] =
           IF gr.edge[e] # Absent /\ \E i \in At(batch, "EDGE_DELETE", e) : batch[i].gen = merged[e]
           THEN Absent ELSE merged[e]
      /\ \A n \in Nodes : after.node[n] =
           IF gr.node[n] = Absent /\ touching(n) # {}
           THEN [placeholder |-> TRUE, gen |-> batch[FirstOf(touching(n))].gen]
           ELSE gr.node[n]
      /\ after.edgeTombs = gr.edgeTombs \cup
           {<<batch[i].id, batch[i].gen>> :
              i \in {j \in DOMAIN batch : batch[j].type = "EDGE_DELETE"}}
      /\ after.nodeTombs = gr.nodeTombs
  <2>1. \A e \in Edges : after.edge[e] =
           IF gr.edge[e] # Absent /\ \E i \in At(batch, "EDGE_DELETE", e) : batch[i].gen = merged[e]
           THEN Absent ELSE merged[e]
    BY <1>0 DEF ApplyEdgeBatch
  <2>2. \A n \in Nodes : after.node[n] =
           IF gr.node[n] = Absent /\ touching(n) # {}
           THEN [placeholder |-> TRUE, gen |-> batch[FirstOf(touching(n))].gen]
           ELSE gr.node[n]
    BY <1>0 DEF ApplyEdgeBatch
  <2>3. after.nodeTombs = gr.nodeTombs
    BY <1>0 DEF ApplyEdgeBatch
  <2>4. after.edgeTombs = gr.edgeTombs \cup
           {<<batch[i].id, batch[i].gen>> :
              i \in {j \in DOMAIN batch : batch[j].type = "EDGE_DELETE"}}
    BY <1>0 DEF ApplyEdgeBatch
  <2> QED
    BY <2>1, <2>2, <2>3, <2>4
<1>2. ASSUME NEW e \in Edges PROVE effective(e) = At(batch, "EDGE_UPSERT", e)
  <2>1. ASSUME NEW i \in At(batch, "EDGE_UPSERT", e) PROVE batch[i].gen = g
    BY DEF At, SentEdge
  <2>2. \A x : <<x, g>> \notin gr.nodeTombs /\ <<x, g>> \notin gr.edgeTombs
    <3> SUFFICES ASSUME NEW x, <<x, g>> \in gr.nodeTombs \cup gr.edgeTombs PROVE FALSE
      OBVIOUS
    <3>1. rank[<<x, g>>[2][1]] < rank[g[1]]
      BY DEF TombsPrecede
    <3>2. <<x, g>>[2] = g
      OBVIOUS
    <3> QED
      BY <3>1, <3>2
  <2> QED
    BY <2>1, <2>2 DEF EffectiveUpserts
<1>3. ASSUME NEW e \in Edges, NEW i \in At(batch, "EDGE_UPSERT", e)
      PROVE  i \in DOMAIN batch /\ e \in EdgesOf(g) /\ batch[i].gen = g
  BY DEF At, SentEdge
<1>4. ASSUME NEW e \in Edges, NEW i \in At(batch, "EDGE_DELETE", e)
      PROVE  /\ o # NoRow /\ e \notin EdgesOf(g) /\ e \in RowEdges(o)
             /\ batch[i].gen = RowGeneration(o)
  BY DEF At, SentEdge, RemovedEdges, RowEdges
<1>5. ASSUME NEW e \in Edges
      PROVE  after.edge[e] = IF At(batch, "EDGE_UPSERT", e) # {} THEN g
                             ELSE IF At(batch, "EDGE_DELETE", e) # {} THEN Absent
                             ELSE gr.edge[e]
  <2> DEFINE ups  == At(batch, "EDGE_UPSERT", e)
             dels == At(batch, "EDGE_DELETE", e)
  <2>1. merged[e] = IF ups = {} THEN gr.edge[e] ELSE batch[LastOf(ups)].gen
    BY <1>2
  <2>2. ups # {} => batch[LastOf(ups)].gen = g /\ dels = {}
    <3>1. ups \in SUBSET (DOMAIN batch)
      BY DEF At
    <3>2. ups # {} => LastOf(ups) \in ups
      <4> HIDE DEF ups
      <4> QED
        BY <3>1, EndsOfPositions
    <3>3. \A i \in ups : batch[i].gen = g
      BY <1>3
    <3>4. ups # {} => dels = {}
      BY <1>3, <1>4
    <3> HIDE DEF ups, dels
    <3> QED
      BY <3>2, <3>3, <3>4
  <2>3. dels # {} => gr.edge[e] = Absent \/ gr.edge[e] = RowGeneration(o)
    <3>1. EdgeBetween(gr, o, g, e)
      BY DEF Between
    <3> QED
      BY <1>4, <3>1 DEF EdgeBetween
  <2>4. \A i \in dels : batch[i].gen = RowGeneration(o)
    BY <1>4
  <2>5. after.edge[e] = IF gr.edge[e] # Absent /\ \E i \in dels : batch[i].gen = merged[e]
                        THEN Absent ELSE merged[e]
    BY <1>1
  <2> HIDE DEF ups, dels, merged, after
  <2>6. after.edge[e] = IF ups # {} THEN g ELSE IF dels # {} THEN Absent ELSE gr.edge[e]
    BY <2>1, <2>2, <2>3, <2>4, <2>5
  <2> QED
    BY <2>6 DEF ups, dels
<1>6. ASSUME NEW n \in Nodes, touching(n) # {}
      PROVE  n \in NodesOf(g) /\ batch[FirstOf(touching(n))].gen = g
  <2>1. \A i \in touching(n) : \E e \in Edges : n \in {Src[e], Dst[e]} /\ i \in effective(e)
    BY DEF EndPointUpserts
  <2>2. \A i \in touching(n) : \E e \in Edges :
          n \in {Src[e], Dst[e]} /\ i \in DOMAIN batch /\ e \in EdgesOf(g) /\ batch[i].gen = g
    BY <1>2, <1>3, <2>1
  <2>3. \A e \in EdgesOf(g) : {Src[e], Dst[e]} \subseteq NodesOf(g)
    BY ClosedGraphAssumption
  <2>4. touching(n) \in SUBSET (DOMAIN batch)
    BY <2>2
  <2> HIDE DEF touching
  <2>5. FirstOf(touching(n)) \in touching(n)
    BY <1>6, <2>4, EndsOfPositions
  <2> QED
    BY <2>2, <2>3, <2>5
<1>7. ASSUME NEW n \in Nodes
      PROVE  \/ after.node[n] = gr.node[n]
             \/ /\ gr.node[n] = Absent /\ n \in NodesOf(g)
                /\ after.node[n] = [placeholder |-> TRUE, gen |-> g]
  <2> HIDE DEF touching, after
  <2> QED
    BY <1>1, <1>6, ZenonT(40)
<1>8. ASSUME NEW tomb \in after.edgeTombs, tomb \notin gr.edgeTombs
      PROVE  o # NoRow /\ tomb[2] = RowGeneration(o)
  <2>1. PICK i \in DOMAIN batch :
          batch[i].type = "EDGE_DELETE" /\ tomb = <<batch[i].id, batch[i].gen>>
    BY <1>1, <1>8
  <2>2. batch[i].id \in RemovedEdges(o, g) /\ batch[i].gen = RowGeneration(o)
    BY <2>1 DEF SentEdge
  <2> QED
    BY <2>1, <2>2 DEF RemovedEdges, RowEdges
<1> HIDE DEF after
<1>9. /\ \A e \in Edges :
           after.edge[e] = IF At(batch, "EDGE_UPSERT", e) # {} THEN g
                           ELSE IF At(batch, "EDGE_DELETE", e) # {} THEN Absent
                           ELSE gr.edge[e]
      /\ after.nodeTombs = gr.nodeTombs
  BY <1>1, <1>5
<1>10. EdgeEffect(gr, after, batch, o, g)
  BY <1>7, <1>8, <1>9 DEF EdgeEffect
<1> QED
  BY <1>10 DEF after

(* A graph between o and g stays so.                                       *)
LEMMA NodeBatchBetween ==
  ASSUME NEW gr \in Graph, NEW o \in Row \cup {NoRow}, NEW g \in Generation,
         NEW batch \in Seq(Event), \A i \in DOMAIN batch : SentNode(o, g, batch[i]),
         Between(gr, o, g)
  PROVE  Between(ApplyNodeBatch(gr, batch), o, g)
<1> DEFINE after == ApplyNodeBatch(gr, batch)
<1>0. NodeEffect(gr, after, batch, o, g)
  BY NodeBatchEffect
<1> HIDE DEF after
<1>1. ASSUME NEW n \in Nodes PROVE NodeBetween(after, o, g, n)
  <2>1. NodeBetween(gr, o, g, n)
    BY DEF Between
  <2>2. At(batch, "NODE_UPSERT", n) # {} => n \in NodesOf(g)
    BY DEF At, SentNode
  <2>3. At(batch, "NODE_DELETE", n) # {} => n \notin NodesOf(g)
    BY DEF At, SentNode, RemovedNodes
  <2>4. after.node[n] = IF At(batch, "NODE_UPSERT", n) # {} THEN Hydrated(g)
                        ELSE IF At(batch, "NODE_DELETE", n) # {} THEN Absent
                        ELSE gr.node[n]
    BY <1>0 DEF NodeEffect
  <2> QED
    BY <2>1, <2>2, <2>3, <2>4 DEF NodeBetween
<1>2. ASSUME NEW e \in Edges PROVE EdgeBetween(after, o, g, e)
  <2>1. EdgeBetween(gr, o, g, e)
    BY DEF Between
  <2>2. after.edge[e] \in {gr.edge[e], Absent} /\ (e \in EdgesOf(g) => after.edge[e] = gr.edge[e])
    BY <1>0, WindowValues DEF NodeEffect, NodeSpares
  <2> QED
    BY <2>1, <2>2 DEF EdgeBetween
<1>3. Between(after, o, g)
  BY <1>1, <1>2 DEF Between
<1> QED
  BY <1>3 DEF after

LEMMA EdgeBatchBetween ==
  ASSUME NEW rank, NEW gr \in Graph, NEW o \in Row \cup {NoRow}, NEW g \in Generation,
         NEW batch \in Seq(Event), \A i \in DOMAIN batch : SentEdge(o, g, batch[i]),
         Between(gr, o, g), rank[g[1]] \in Nat, TombsPrecede(rank, gr, g)
  PROVE  Between(ApplyEdgeBatch(gr, batch), o, g)
<1> DEFINE after == ApplyEdgeBatch(gr, batch)
<1>0. EdgeEffect(gr, after, batch, o, g)
  BY EdgeBatchDoes
<1> HIDE DEF after
<1>1. ASSUME NEW n \in Nodes PROVE NodeBetween(after, o, g, n)
  <2>1. NodeBetween(gr, o, g, n)
    BY DEF Between
  <2>2. \/ after.node[n] = gr.node[n]
        \/ /\ gr.node[n] = Absent /\ n \in NodesOf(g)
           /\ after.node[n] = [placeholder |-> TRUE, gen |-> g]
    BY <1>0 DEF EdgeEffect
  <2>3. /\ Hydrated(g) # Absent /\ [placeholder |-> TRUE, gen |-> g] # Absent
        /\ n \in RowNodes(o) => Hydrated(RowGeneration(o)) # Absent
    BY WindowValues
  <2>4. CASE after.node[n] = gr.node[n]
    BY <2>1, <2>4 DEF NodeBetween
  <2>5. CASE /\ gr.node[n] = Absent /\ n \in NodesOf(g)
             /\ after.node[n] = [placeholder |-> TRUE, gen |-> g]
    <3>1. n \notin RowNodes(o)
      BY <2>1, <2>3, <2>5 DEF NodeBetween
    <3> QED
      BY <2>5, <3>1 DEF NodeBetween
  <2> QED
    BY <2>2, <2>4, <2>5
<1>2. ASSUME NEW e \in Edges PROVE EdgeBetween(after, o, g, e)
  <2>1. EdgeBetween(gr, o, g, e)
    BY DEF Between
  <2>2. At(batch, "EDGE_UPSERT", e) # {} => e \in EdgesOf(g)
    BY DEF At, SentEdge
  <2>3. At(batch, "EDGE_DELETE", e) # {} => e \notin EdgesOf(g)
    BY DEF At, SentEdge, RemovedEdges
  <2>4. after.edge[e] = IF At(batch, "EDGE_UPSERT", e) # {} THEN g
                        ELSE IF At(batch, "EDGE_DELETE", e) # {} THEN Absent
                        ELSE gr.edge[e]
    BY <1>0 DEF EdgeEffect
  <2> QED
    BY <2>1, <2>2, <2>3, <2>4 DEF EdgeBetween
<1>3. Between(after, o, g)
  BY <1>1, <1>2 DEF Between
<1> QED
  BY <1>3 DEF after

(* What is of a past content stays in the past.                            *)
LEMMA TombsStay ==
  ASSUME NEW rank, NEW gr, NEW after, NEW o, NEW g, TombsPrecede(rank, gr, g),
         o # NoRow => rank[o.hash] < rank[g[1]],
         \A tomb \in after.nodeTombs \cup after.edgeTombs :
            \/ tomb \in gr.nodeTombs \cup gr.edgeTombs
            \/ o # NoRow /\ tomb[2] = RowGeneration(o)
  PROVE  TombsPrecede(rank, after, g)
  BY DEF TombsPrecede, RowGeneration

(* An event of the window that is in the batch, or had its effect before,  *)
(* has its effect afterwards.                                              *)
LEMMA NodeBatchApplies ==
  ASSUME NEW gr \in Graph, NEW o \in Row \cup {NoRow}, NEW g \in Generation,
         NEW batch \in Seq(Event), \A i \in DOMAIN batch : SentNode(o, g, batch[i]),
         Between(gr, o, g), NEW event, SentNode(o, g, event),
         NodeApplied(gr, g, event) \/ \E i \in DOMAIN batch : batch[i] = event
  PROVE  NodeApplied(ApplyNodeBatch(gr, batch), g, event)
<1> DEFINE after == ApplyNodeBatch(gr, batch)
<1>0. NodeEffect(gr, after, batch, o, g)
  BY NodeBatchEffect
<1> HIDE DEF after
<1>1. PICK n \in Nodes : n = event.id
  BY WindowValues DEF SentNode, RemovedNodes
<1>2. after.node[n] = IF At(batch, "NODE_UPSERT", n) # {} THEN Hydrated(g)
                      ELSE IF At(batch, "NODE_DELETE", n) # {} THEN Absent
                      ELSE gr.node[n]
  BY <1>0 DEF NodeEffect
<1>3. /\ At(batch, "NODE_UPSERT", n) # {} => n \in NodesOf(g)
      /\ At(batch, "NODE_DELETE", n) # {} => n \notin NodesOf(g)
  BY DEF At, SentNode, RemovedNodes
<1>4. /\ event.type = "NODE_UPSERT" => n \in NodesOf(g)
      /\ event.type # "NODE_UPSERT" => event.type = "NODE_DELETE" /\ n \notin NodesOf(g)
  BY <1>1 DEF SentNode, RemovedNodes
<1>5. ASSUME NEW i \in DOMAIN batch, batch[i] = event
      PROVE  At(batch, event.type, n) # {}
  BY <1>1, <1>5 DEF At
<1>6. NodeApplied(after, g, event)
  BY <1>1, <1>2, <1>3, <1>4, <1>5 DEF NodeApplied
<1> QED
  BY <1>6 DEF after

LEMMA EdgeBatchApplies ==
  ASSUME NEW rank, NEW gr \in Graph, NEW o \in Row \cup {NoRow}, NEW g \in Generation,
         NEW batch \in Seq(Event), \A i \in DOMAIN batch : SentEdge(o, g, batch[i]),
         Between(gr, o, g), rank[g[1]] \in Nat, TombsPrecede(rank, gr, g),
         NEW event, SentEdge(o, g, event),
         EdgeApplied(gr, g, event) \/ \E i \in DOMAIN batch : batch[i] = event
  PROVE  EdgeApplied(ApplyEdgeBatch(gr, batch), g, event)
<1> DEFINE after == ApplyEdgeBatch(gr, batch)
<1>0. EdgeEffect(gr, after, batch, o, g)
  BY EdgeBatchDoes
<1> HIDE DEF after
<1>1. PICK e \in Edges : e = event.id
  BY WindowValues DEF SentEdge, RemovedEdges
<1>2. after.edge[e] = IF At(batch, "EDGE_UPSERT", e) # {} THEN g
                      ELSE IF At(batch, "EDGE_DELETE", e) # {} THEN Absent
                      ELSE gr.edge[e]
  BY <1>0 DEF EdgeEffect
<1>3. /\ At(batch, "EDGE_UPSERT", e) # {} => e \in EdgesOf(g)
      /\ At(batch, "EDGE_DELETE", e) # {} => e \notin EdgesOf(g)
  BY DEF At, SentEdge, RemovedEdges
<1>4. /\ event.type = "EDGE_UPSERT" => e \in EdgesOf(g)
      /\ event.type # "EDGE_UPSERT" => event.type = "EDGE_DELETE" /\ e \notin EdgesOf(g)
  BY <1>1 DEF SentEdge, RemovedEdges
<1>5. ASSUME NEW i \in DOMAIN batch, batch[i] = event
      PROVE  At(batch, event.type, e) # {}
  BY <1>1, <1>5 DEF At
<1>6. EdgeApplied(after, g, event)
  BY <1>1, <1>2, <1>3, <1>4, <1>5 DEF EdgeApplied
<1> QED
  BY <1>6 DEF after

(* Each statement leaves alone what the other one has established.         *)
LEMMA NodeBatchSparesEdges ==
  ASSUME NEW gr \in Graph, NEW o \in Row \cup {NoRow}, NEW g \in Generation,
         NEW batch \in Seq(Event), \A i \in DOMAIN batch : SentNode(o, g, batch[i]),
         Between(gr, o, g), NEW event, SentEdge(o, g, event), EdgeApplied(gr, g, event)
  PROVE  EdgeApplied(ApplyNodeBatch(gr, batch), g, event)
<1> DEFINE after == ApplyNodeBatch(gr, batch)
<1>0. NodeEffect(gr, after, batch, o, g)
  BY NodeBatchEffect
<1> HIDE DEF after
<1>1. PICK e \in Edges : e = event.id
  BY WindowValues DEF SentEdge, RemovedEdges
<1>2. after.edge[e] \in {gr.edge[e], Absent} /\ (e \in EdgesOf(g) => after.edge[e] = gr.edge[e])
  BY <1>0, WindowValues DEF NodeEffect, NodeSpares
<1>3. event.type = "EDGE_UPSERT" => e \in EdgesOf(g)
  BY <1>1 DEF SentEdge
<1>4. EdgeApplied(after, g, event)
  BY <1>1, <1>2, <1>3 DEF EdgeApplied
<1> QED
  BY <1>4 DEF after

LEMMA EdgeBatchSparesNodes ==
  ASSUME NEW rank, NEW gr \in Graph, NEW o \in Row \cup {NoRow}, NEW g \in Generation,
         NEW batch \in Seq(Event), \A i \in DOMAIN batch : SentEdge(o, g, batch[i]),
         Between(gr, o, g), rank[g[1]] \in Nat, TombsPrecede(rank, gr, g),
         NEW event, SentNode(o, g, event), NodeApplied(gr, g, event)
  PROVE  NodeApplied(ApplyEdgeBatch(gr, batch), g, event)
<1> DEFINE after == ApplyEdgeBatch(gr, batch)
<1>0. EdgeEffect(gr, after, batch, o, g)
  BY EdgeBatchDoes
<1> HIDE DEF after
<1>1. PICK n \in Nodes : n = event.id
  BY WindowValues DEF SentNode, RemovedNodes
<1>2. \/ after.node[n] = gr.node[n]
      \/ gr.node[n] = Absent /\ n \in NodesOf(g)
  BY <1>0 DEF EdgeEffect
<1>3. /\ event.type = "NODE_UPSERT" \/ n \notin NodesOf(g)
      /\ Hydrated(g) # Absent
  BY <1>1, WindowValues DEF SentNode, RemovedNodes
<1>4. NodeApplied(after, g, event)
  BY <1>1, <1>2, <1>3 DEF NodeApplied
<1> QED
  BY <1>4 DEF after

-----------------------------------------------------------------------------
(***************************************************************************)
(* The steps of the connectors keep a window a window.                     *)
(***************************************************************************)
LEMMA WindowBatch ==
  ASSUME TypeOK, PipelineTypeOK, NEW s \in Sinks, NEW f \in Files, NEW k \in 1..BatchSize(s),
         Consume(s, f, k), NEW base \in [Sinks -> Nat], base[s] <= committed[s][f]
  PROVE  /\ \A j \in DOMAIN Batch(s, f, k) :
              \E i \in Beyond(s, f, base) : Batch(s, f, k)[j] = log[s][f][i]
         /\ \A i \in Beyond(s, f, base) : i <= position'[s][f] =>
              \/ i <= position[s][f]
              \/ \E j \in DOMAIN Batch(s, f, k) : Batch(s, f, k)[j] = log[s][f][i]
<1> DEFINE l == log[s][f]
           p == position[s][f]
           b == Batch(s, f, k)
<1>1. /\ k \in Nat /\ p \in Nat /\ p + k <= Len(l) /\ l \in Seq(Event)
      /\ DOMAIN b = 1..k
      /\ \A i \in 1..k : b[i] = l[p + i]
      /\ position'[s][f] = p + k
  BY BatchIs
<1>2. base[s] \in Nat /\ base[s] <= p
  BY DEF PipelineTypeOK
<1>3. Beyond(s, f, base) = {i \in DOMAIN l : i > base[s]}
  BY DEF Beyond
<1> HIDE DEF l, p, b
<1>4. ASSUME NEW j \in DOMAIN b PROVE \E i \in Beyond(s, f, base) : b[j] = l[i]
  <2>1. p + j \in DOMAIN l /\ p + j > base[s]
    BY <1>1, <1>2
  <2> QED
    BY <1>1, <1>3, <2>1
<1>5. ASSUME NEW i \in Beyond(s, f, base), i <= p + k, ~ (i <= p)
      PROVE  \E j \in DOMAIN b : b[j] = l[i]
  <2>1. i \in Nat /\ i - p \in 1..k /\ i = p + (i - p)
    BY <1>1, <1>3, <1>5
  <2> QED
    BY <1>1, <2>1
<1> QED
  BY <1>1, <1>4, <1>5 DEF l, p, b

LEMMA PutNodesDelivers ==
  ASSUME TypeOK, PipelineTypeOK, NEW rank \in [Contents \cup {Missing} -> Nat],
         NEW f \in Files, NEW o \in Row \cup {NoRow}, NEW g \in Generation,
         NEW base \in [Sinks -> Nat], Delivered(rank, f, o, g, base),
         NEW k \in 1..BatchSize("cpg.nodes"), Put("cpg.nodes", f, k)
  PROVE  Delivered(rank, f, o, g, base)'
<1>1. /\ Consume("cpg.nodes", f, k) /\ UNCHANGED <<log, committed>>
      /\ "cpg.nodes" \in Sinks /\ "cpg.edges" \in Sinks
  BY DEF Put, vars, Sinks
<1>2. PICK gr \in Graph, batch \in Seq(Event) :
        gr = graph[f] /\ batch = Batch("cpg.nodes", f, k)
  BY <1>1, BatchIs DEF PipelineTypeOK
<1>3. PICK after : after = ApplyNodeBatch(gr, batch)
  OBVIOUS
<1>4. graph'[f] = after
  BY <1>2, <1>3 DEF Put, PipelineTypeOK
<1>5. base["cpg.nodes"] <= committed["cpg.nodes"][f]
  BY <1>1 DEF Delivered
<1>6. /\ \A j \in DOMAIN batch :
           \E i \in Beyond("cpg.nodes", f, base) : batch[j] = log["cpg.nodes"][f][i]
      /\ \A i \in Beyond("cpg.nodes", f, base) : i <= position'["cpg.nodes"][f] =>
           \/ i <= position["cpg.nodes"][f]
           \/ \E j \in DOMAIN batch : batch[j] = log["cpg.nodes"][f][i]
  BY <1>1, <1>2, <1>5, WindowBatch
<1>7. /\ \A j \in DOMAIN batch : SentNode(o, g, batch[j])
      /\ Between(gr, o, g) /\ TombsPrecede(rank, gr, g)
  BY <1>2, <1>6 DEF Delivered
<1>8. Between(after, o, g)
  BY <1>3, <1>7, NodeBatchBetween
<1>9. NodeEffect(gr, after, batch, o, g)
  BY <1>3, <1>7, NodeBatchEffect
<1>10. TombsPrecede(rank, after, g)
  BY <1>7, <1>9, TombsStay DEF NodeEffect, NodeSpares, Delivered
<1>11. ASSUME NEW i \in Beyond("cpg.nodes", f, base), i <= position'["cpg.nodes"][f]
       PROVE  NodeApplied(after, g, log["cpg.nodes"][f][i])
  <2>1. PICK event : event = log["cpg.nodes"][f][i]
    OBVIOUS
  <2>2. SentNode(o, g, event)
    BY <2>1 DEF Delivered
  <2>3. NodeApplied(gr, g, event) \/ \E j \in DOMAIN batch : batch[j] = event
    BY <1>2, <1>6, <1>11, <2>1 DEF Delivered
  <2> QED
    BY <1>3, <1>7, <2>1, <2>2, <2>3, NodeBatchApplies
<1>12. position'["cpg.edges"][f] = position["cpg.edges"][f]
  BY <1>1, BatchIs
<1>13. ASSUME NEW i \in Beyond("cpg.edges", f, base), i <= position'["cpg.edges"][f]
       PROVE  EdgeApplied(after, g, log["cpg.edges"][f][i])
  <2>1. PICK event : event = log["cpg.edges"][f][i]
    OBVIOUS
  <2>2. SentEdge(o, g, event) /\ EdgeApplied(gr, g, event)
    BY <1>2, <1>12, <1>13, <2>1 DEF Delivered
  <2> QED
    BY <1>3, <1>7, <2>1, <2>2, NodeBatchSparesEdges
<1>14. \A s \in Sinks : Beyond(s, f, base)' = Beyond(s, f, base)
  BY <1>1 DEF Beyond
<1> QED
  BY <1>1, <1>4, <1>8, <1>10, <1>11, <1>13, <1>14 DEF Delivered

LEMMA PutEdgesDelivers ==
  ASSUME TypeOK, PipelineTypeOK, NEW rank \in [Contents \cup {Missing} -> Nat],
         NEW f \in Files, NEW o \in Row \cup {NoRow}, NEW g \in Generation,
         NEW base \in [Sinks -> Nat], Delivered(rank, f, o, g, base),
         NEW k \in 1..BatchSize("cpg.edges"), Put("cpg.edges", f, k)
  PROVE  Delivered(rank, f, o, g, base)'
<1>1. /\ Consume("cpg.edges", f, k) /\ UNCHANGED <<log, committed>>
      /\ "cpg.nodes" \in Sinks /\ "cpg.edges" \in Sinks
  BY DEF Put, vars, Sinks
<1>2. PICK gr \in Graph, batch \in Seq(Event) :
        gr = graph[f] /\ batch = Batch("cpg.edges", f, k)
  BY <1>1, BatchIs DEF PipelineTypeOK
<1>3. PICK after : after = ApplyEdgeBatch(gr, batch)
  OBVIOUS
<1>4. graph'[f] = after
  BY <1>2, <1>3 DEF Put, PipelineTypeOK
<1>5. base["cpg.edges"] <= committed["cpg.edges"][f]
  BY <1>1 DEF Delivered
<1>6. /\ \A j \in DOMAIN batch :
           \E i \in Beyond("cpg.edges", f, base) : batch[j] = log["cpg.edges"][f][i]
      /\ \A i \in Beyond("cpg.edges", f, base) : i <= position'["cpg.edges"][f] =>
           \/ i <= position["cpg.edges"][f]
           \/ \E j \in DOMAIN batch : batch[j] = log["cpg.edges"][f][i]
  BY <1>1, <1>2, <1>5, WindowBatch
<1>7. /\ \A j \in DOMAIN batch : SentEdge(o, g, batch[j])
      /\ Between(gr, o, g) /\ TombsPrecede(rank, gr, g)
  BY <1>2, <1>6 DEF Delivered
<1>8. rank[g[1]] \in Nat
  BY DEF Generation
<1>9. Between(after, o, g) /\ EdgeEffect(gr, after, batch, o, g)
  BY <1>3, <1>7, <1>8, EdgeBatchBetween, EdgeBatchDoes
<1>10. TombsPrecede(rank, after, g)
  BY <1>7, <1>9, TombsStay DEF EdgeEffect, Delivered
<1>11. ASSUME NEW i \in Beyond("cpg.edges", f, base), i <= position'["cpg.edges"][f]
       PROVE  EdgeApplied(after, g, log["cpg.edges"][f][i])
  <2>1. PICK event : event = log["cpg.edges"][f][i]
    OBVIOUS
  <2>2. SentEdge(o, g, event)
    BY <2>1 DEF Delivered
  <2>3. EdgeApplied(gr, g, event) \/ \E j \in DOMAIN batch : batch[j] = event
    BY <1>2, <1>6, <1>11, <2>1 DEF Delivered
  <2> QED
    BY <1>3, <1>7, <1>8, <2>1, <2>2, <2>3, EdgeBatchApplies
<1>12. position'["cpg.nodes"][f] = position["cpg.nodes"][f]
  BY <1>1, BatchIs
<1>13. ASSUME NEW i \in Beyond("cpg.nodes", f, base), i <= position'["cpg.nodes"][f]
       PROVE  NodeApplied(after, g, log["cpg.nodes"][f][i])
  <2>1. PICK event : event = log["cpg.nodes"][f][i]
    OBVIOUS
  <2>2. SentNode(o, g, event) /\ NodeApplied(gr, g, event)
    BY <1>2, <1>12, <1>13, <2>1 DEF Delivered
  <2> QED
    BY <1>3, <1>7, <1>8, <2>1, <2>2, EdgeBatchSparesNodes
<1>14. \A s \in Sinks : Beyond(s, f, base)' = Beyond(s, f, base)
  BY <1>1 DEF Beyond
<1> QED
  BY <1>1, <1>4, <1>9, <1>10, <1>11, <1>13, <1>14 DEF Delivered

(* A step that leaves the records and the graph of the file alone, and at  *)
(* most takes its connectors back to what they have committed.             *)
LEMMA DeliveredFrame ==
  ASSUME TypeOK, PipelineTypeOK, NEW rank, NEW f \in Files, NEW o, NEW g,
         NEW base \in [Sinks -> Nat], Delivered(rank, f, o, g, base), graph'[f] = graph[f],
         \A s \in Sinks : /\ log'[s][f] = log[s][f]
                          /\ committed'[s][f] \in {committed[s][f], position[s][f]}
                          /\ position'[s][f] \in {committed[s][f], position[s][f]}
  PROVE  Delivered(rank, f, o, g, base)'
<1>1. \A s \in Sinks : Beyond(s, f, base)' = Beyond(s, f, base)
  BY DEF Beyond
<1>2. ASSUME NEW s \in Sinks
      PROVE  /\ base[s] <= committed'[s][f]
             /\ \A i \in Beyond(s, f, base) : i <= position'[s][f] => i <= position[s][f]
  <2>1. /\ base[s] \in Nat /\ committed[s][f] \in Nat /\ position[s][f] \in Nat
        /\ base[s] <= committed[s][f] /\ committed[s][f] <= position[s][f]
    BY DEF Delivered, PipelineTypeOK
  <2>2. base[s] <= committed'[s][f]
    BY <2>1
  <2>3. log[s][f] \in Seq(Event)
    BY DEF TypeOK, Sinks, Topics
  <2>4. \A i \in Beyond(s, f, base) : i \in Nat
    BY <2>3 DEF Beyond
  <2> QED
    BY <2>1, <2>2, <2>4
<1>3. "cpg.nodes" \in Sinks /\ "cpg.edges" \in Sinks
  BY DEF Sinks
<1> QED
  BY <1>1, <1>2, <1>3 DEF Delivered

LEMMA SinkStepIs ==
  ASSUME TypeOK, PipelineTypeOK, SinkStep
  PROVE  /\ UNCHANGED <<vars, discipline>> /\ dlq \subseteq dlq'
         /\ \E s \in Sinks, h \in Files :
              /\ \/ \E k \in 1..BatchSize(s) : Put(s, h, k) \/ DeadLetter(s, h, k)
                 \/ CommitOffset(s, h)
                 \/ RestartTask(s, h)
              /\ \A f \in Files : f # h =>
                   /\ graph'[f] = graph[f]
                   /\ \A r \in Sinks : /\ position'[r][f] = position[r][f]
                                       /\ committed'[r][f] = committed[r][f]
         /\ \A r \in Sinks, f \in Files : committed'[r][f] \in {committed[r][f], position[r][f]}
<1>1. PICK s \in Sinks, h \in Files :
        \/ \E k \in 1..BatchSize(s) : Put(s, h, k) \/ DeadLetter(s, h, k)
        \/ CommitOffset(s, h)
        \/ RestartTask(s, h)
  BY DEF SinkStep
<1>2. UNCHANGED <<vars, discipline>> /\ dlq \subseteq dlq'
  BY <1>1 DEF Put, DeadLetter, CommitOffset, RestartTask
<1>3. \A f \in Files : f # h => graph'[f] = graph[f]
  BY <1>1 DEF Put, DeadLetter, CommitOffset, RestartTask, PipelineTypeOK
<1>4. ASSUME NEW r \in Sinks, NEW f \in Files
      PROVE  /\ f # h => position'[r][f] = position[r][f] /\ committed'[r][f] = committed[r][f]
             /\ committed'[r][f] \in {committed[r][f], position[r][f]}
  <2>1. ASSUME NEW k \in 1..BatchSize(s), Consume(s, h, k), UNCHANGED committed
        PROVE  /\ f # h => position'[r][f] = position[r][f]
               /\ committed'[r][f] = committed[r][f]
    BY <2>1, BatchIs
  <2>2. ASSUME CommitOffset(s, h)
        PROVE  /\ UNCHANGED position
               /\ f # h => committed'[r][f] = committed[r][f]
               /\ committed'[r][f] \in {committed[r][f], position[r][f]}
    <3>1. committed' = [committed EXCEPT ![s] = [committed[s] EXCEPT ![h] = position[s][h]]]
      BY <2>2 DEF CommitOffset
    <3> QED
      BY <2>2, <3>1 DEF CommitOffset, PipelineTypeOK
  <2>3. ASSUME RestartTask(s, h)
        PROVE  /\ UNCHANGED committed
               /\ f # h => position'[r][f] = position[r][f]
    <3>1. position' = [position EXCEPT ![s] = [position[s] EXCEPT ![h] = committed[s][h]]]
      BY <2>3 DEF RestartTask
    <3> QED
      BY <2>3, <3>1 DEF RestartTask, PipelineTypeOK
  <2> QED
    BY <1>1, <2>1, <2>2, <2>3 DEF Put, DeadLetter
<1> QED
  BY <1>1, <1>2, <1>3, <1>4

LEMMA SinkDelivers ==
  ASSUME TypeOK, PipelineTypeOK, NEW rank \in [Contents \cup {Missing} -> Nat],
         NEW f \in Files, NEW o \in Row \cup {NoRow}, NEW g \in Generation,
         NEW base \in [Sinks -> Nat], Delivered(rank, f, o, g, base), Lossless(f)', SinkStep
  PROVE  Delivered(rank, f, o, g, base)'
<1>1. PICK s \in Sinks, h \in Files :
        /\ \/ \E k \in 1..BatchSize(s) : Put(s, h, k) \/ DeadLetter(s, h, k)
           \/ CommitOffset(s, h)
           \/ RestartTask(s, h)
        /\ f # h => /\ graph'[f] = graph[f]
                    /\ \A r \in Sinks : /\ position'[r][f] = position[r][f]
                                        /\ committed'[r][f] = committed[r][f]
  BY SinkStepIs
<1>2. UNCHANGED log
  BY SinkStepIs DEF vars
<1>3. CASE f # h
  BY <1>1, <1>2, <1>3, DeliveredFrame
<1>4. ASSUME NEW k \in 1..BatchSize(s), Put(s, f, k) PROVE Delivered(rank, f, o, g, base)'
  BY <1>4, PutNodesDelivers, PutEdgesDelivers DEF Sinks
<1>5. ASSUME NEW k \in 1..BatchSize(s), DeadLetter(s, f, k) PROVE FALSE
  <2>1. PICK b \in Seq(Event) : b = Batch(s, f, k) /\ Len(b) = k /\ DOMAIN b = 1..k
    BY <1>5, BatchIs DEF DeadLetter
  <2>2. 1 \in DOMAIN b
    BY <2>1, <1>5, BatchIs DEF DeadLetter
  <2>3. b[1] \in Event
    BY <2>2
  <2>4. b[1].gen \in Generation
    BY <2>3 DEF Event, NodeEvent, EdgeEvent, MetadataEvent
  <2>5. b[1] \in Range(b)
    BY <2>2 DEF Range
  <2>6. <<f, b[1].gen>> \in dlq'
    BY <1>5, <2>1, <2>5 DEF DeadLetter
  <2> QED
    BY <2>4, <2>6 DEF Lossless
<1>6. CASE f = h /\ CommitOffset(s, h)
  <2>1. /\ graph'[f] = graph[f] /\ position' = position
        /\ \A r \in Sinks : committed'[r][f] \in {committed[r][f], position[r][f]}
    BY <1>6, SinkStepIs DEF CommitOffset
  <2> QED
    BY <1>2, <2>1, DeliveredFrame
<1>7. CASE f = h /\ RestartTask(s, h)
  <2>1. /\ graph'[f] = graph[f] /\ committed' = committed
        /\ \A r \in Sinks : position'[r][f] \in {committed[r][f], position[r][f]}
    BY <1>7 DEF RestartTask, PipelineTypeOK
  <2> QED
    BY <1>2, <2>1, DeliveredFrame
<1> QED
  BY <1>1, <1>3, <1>4, <1>5, <1>6, <1>7

(* There is nothing in the topics of an untouched file to be consumed.     *)
LEMMA SinkLeavesUntouched ==
  ASSUME TypeOK, PipelineTypeOK, NEW f \in Files, Untouched(f), SinkStep
  PROVE  Untouched(f)'
<1>1. PICK s \in Sinks, h \in Files :
        /\ \/ \E k \in 1..BatchSize(s) : Put(s, h, k) \/ DeadLetter(s, h, k)
           \/ CommitOffset(s, h)
           \/ RestartTask(s, h)
        /\ f # h => graph'[f] = graph[f]
  BY SinkStepIs
<1>2. ASSUME NEW k \in 1..BatchSize(s), Put(s, f, k) PROVE FALSE
  <2>1. k \in Nat /\ k >= 1 /\ position[s][f] \in Nat /\ position[s][f] + k <= Len(log[s][f])
    BY <1>2, BatchIs DEF Put
  <2>2. log[s][f] = << >>
    BY DEF Untouched
  <2> QED
    BY <2>1, <2>2
<1>3. graph'[f] = graph[f]
  BY <1>1, <1>2 DEF DeadLetter, CommitOffset, RestartTask
<1>4. UNCHANGED <<store, log, dirty>>
  BY SinkStepIs DEF vars
<1> QED
  BY <1>3, <1>4 DEF Untouched

LEMMA SinkOperated ==
  ASSUME TypeOK, PipelineTypeOK, NEW rank \in [Contents \cup {Missing} -> Nat],
         OperatedInv(rank), SinkStep
  PROVE  OperatedInv(rank)'
<1>1. /\ UNCHANGED <<vars, discipline>> /\ dlq \subseteq dlq'
      /\ \A r \in Sinks, f \in Files : committed'[r][f] \in {committed[r][f], position[r][f]}
  BY SinkStepIs
<1>2. /\ (job # NoJob => job.content = disk[job.file] /\ job.file \notin todo)'
      /\ (pc = "staged" => ~ Unchanged(store[job.file], JobGeneration))'
  BY <1>1 DEF OperatedInv, vars, JobGeneration
<1>3. ASSUME NEW f \in Files, discipline = "offsets" PROVE Awaiting(f)'
  <2> SUFFICES ASSUME f \in todo \/ (job # NoJob /\ job.file = f /\ pc # "published"),
                      NEW s \in Sinks
               PROVE  committed'[s][f] = Len(log'[s][f])
    BY <1>1 DEF Awaiting, vars
  <2>1. committed[s][f] = Len(log[s][f])
    BY <1>3 DEF OperatedInv, Awaiting
  <2>2. log[s][f] \in Seq(Event) /\ log'[s][f] = log[s][f]
    BY <1>1 DEF TypeOK, Sinks, Topics, vars
  <2>3. /\ committed[s][f] \in Nat /\ position[s][f] \in Nat
        /\ committed[s][f] <= position[s][f] /\ position[s][f] <= Len(log[s][f])
    BY DEF PipelineTypeOK
  <2> QED
    BY <1>1, <2>1, <2>2, <2>3
<1>4. ASSUME NEW f \in Files, discipline = "offsets", Lossless(f)'
      PROVE  Untouched(f)' \/ HasWindow(rank, f)'
  <2>1. Lossless(f)
    BY <1>1, <1>4 DEF Lossless
  <2>2. CASE Untouched(f)
    BY <2>2, SinkLeavesUntouched
  <2>3. CASE HasWindow(rank, f)
    <3>1. PICK o \in Row \cup {NoRow}, g \in Generation, base \in [Sinks -> Nat] :
            Delivered(rank, f, o, g, base) /\ Accounted(f, o, g, base)
      BY <2>3 DEF HasWindow
    <3>2. Delivered(rank, f, o, g, base)'
      BY <1>4, <3>1, SinkDelivers
    <3>3. Accounted(f, o, g, base)'
      BY <1>1, <3>1 DEF Accounted, IsComplete, Names, Beyond, vars
    <3> QED
      BY <3>2, <3>3 DEF HasWindow
  <2> QED
    BY <1>4, <2>1, <2>2, <2>3 DEF OperatedInv
<1> QED
  BY <1>1, <1>2, <1>3, <1>4 DEF OperatedInv

-----------------------------------------------------------------------------
(***************************************************************************)
(* Once the connectors are through, the graph is the window's new end.     *)
(***************************************************************************)
GraphShows(f, nodes, edges, g) ==
    /\ \A n \in Nodes : graph[f].node[n] = IF n \in nodes THEN Hydrated(g) ELSE Absent
    /\ \A e \in Edges : graph[f].edge[e] = IF e \in edges THEN g ELSE Absent

LEMMA WindowIsExact ==
  ASSUME TypeOK, NEW rank, NEW f \in Files, NEW o \in Row \cup {NoRow}, NEW g \in Generation,
         NEW base \in [Sinks -> Nat], Delivered(rank, f, o, g, base),
         IsComplete(f, o, g, base), Drained(f)
  PROVE  GraphShows(f, NodesOf(g), EdgesOf(g), g)
<1>0. "cpg.nodes" \in Sinks /\ "cpg.edges" \in Sinks
  BY DEF Sinks
<1>1. ASSUME NEW s \in Sinks, NEW i \in Beyond(s, f, base) PROVE i <= position[s][f]
  <2>1. position[s][f] = Len(log[s][f]) /\ log[s][f] \in Seq(Event)
    BY DEF Drained, TypeOK, Sinks, Topics
  <2> QED
    BY <2>1 DEF Beyond
<1>2. /\ \A i \in Beyond("cpg.nodes", f, base) :
           NodeApplied(graph[f], g, log["cpg.nodes"][f][i])
      /\ \A i \in Beyond("cpg.edges", f, base) :
           EdgeApplied(graph[f], g, log["cpg.edges"][f][i])
  BY <1>0, <1>1 DEF Delivered
<1>3. ASSUME NEW n \in Nodes
      PROVE  graph[f].node[n] = IF n \in NodesOf(g) THEN Hydrated(g) ELSE Absent
  <2>1. CASE n \in NodesOf(g)
    BY <1>2, <2>1 DEF IsComplete, Names, NodeApplied
  <2>2. CASE n \notin NodesOf(g) /\ n \in RowNodes(o)
    <3>1. n \in RemovedNodes(o, g)
      BY <2>2 DEF RemovedNodes
    <3>2. PICK i \in Beyond("cpg.nodes", f, base) :
            log["cpg.nodes"][f][i].type = "NODE_DELETE" /\ log["cpg.nodes"][f][i].id = n
      BY <3>1 DEF IsComplete, Names
    <3> QED
      BY <1>2, <2>2, <3>2 DEF NodeApplied
  <2>3. CASE n \notin NodesOf(g) /\ n \notin RowNodes(o)
    BY <2>3 DEF Delivered, Between, NodeBetween
  <2> QED
    BY <2>1, <2>2, <2>3
<1>4. ASSUME NEW e \in Edges
      PROVE  graph[f].edge[e] = IF e \in EdgesOf(g) THEN g ELSE Absent
  <2>1. CASE e \in EdgesOf(g)
    BY <1>2, <2>1 DEF IsComplete, Names, EdgeApplied
  <2>2. CASE e \notin EdgesOf(g) /\ e \in RowEdges(o)
    <3>1. e \in RemovedEdges(o, g)
      BY <2>2 DEF RemovedEdges
    <3>2. PICK i \in Beyond("cpg.edges", f, base) :
            log["cpg.edges"][f][i].type = "EDGE_DELETE" /\ log["cpg.edges"][f][i].id = e
      BY <3>1 DEF IsComplete, Names
    <3> QED
      BY <1>2, <2>2, <3>2 DEF EdgeApplied
  <2>3. CASE e \notin EdgesOf(g) /\ e \notin RowEdges(o)
    BY <2>3 DEF Delivered, Between, EdgeBetween
  <2> QED
    BY <2>1, <2>2, <2>3
<1> QED
  BY <1>3, <1>4 DEF GraphShows

(* A settled file whose connectors are through shows its committed row,    *)
(* and the tombstones are of contents before that one.                     *)
LEMMA SettledShows ==
  ASSUME TypeOK, NEW rank, NEW f \in Files, Untouched(f) \/ HasWindow(rank, f),
         Settled(f), Drained(f)
  PROVE  /\ GraphShows(f, RowNodes(store[f]), RowEdges(store[f]), RowGeneration(store[f]))
         /\ \A tomb \in graph[f].nodeTombs \cup graph[f].edgeTombs :
              store[f] # NoRow /\ rank[tomb[2][1]] < rank[store[f].hash]
<1>1. CASE Untouched(f)
  BY <1>1 DEF Untouched, GraphShows, RowNodes, RowEdges
<1>2. CASE HasWindow(rank, f)
  <2>1. PICK o \in Row \cup {NoRow}, g \in Generation, base \in [Sinks -> Nat] :
          Delivered(rank, f, o, g, base) /\ Accounted(f, o, g, base)
    BY <1>2 DEF HasWindow
  <2>2. store[f] = RowFor(g) /\ IsComplete(f, o, g, base)
    BY <2>1 DEF Accounted, Settled
  <2>3. RowFor(g) \in Row /\ RowFor(g) # NoRow
    BY RowForIsRow, RunAssumption
  <2>4. /\ RowFor(g).nodes = NodesOf(g) /\ RowFor(g).edges = EdgesOf(g)
        /\ RowFor(g).hash = g[1] /\ RowFor(g).version = g[2]
    BY DEF RowFor
  <2>5. RowGeneration(store[f]) = g
    BY <2>2, <2>4 DEF RowGeneration, Generation
  <2>6. RowNodes(store[f]) = NodesOf(g) /\ RowEdges(store[f]) = EdgesOf(g)
    BY <2>2, <2>3, <2>4 DEF RowNodes, RowEdges
  <2>7. GraphShows(f, NodesOf(g), EdgesOf(g), g)
    BY <2>1, <2>2, WindowIsExact
  <2>8. TombsPrecede(rank, graph[f], g)
    BY <2>1 DEF Delivered
  <2> QED
    BY <2>2, <2>3, <2>4, <2>5, <2>6, <2>7, <2>8 DEF TombsPrecede
<1> QED
  BY <1>1, <1>2

-----------------------------------------------------------------------------
(***************************************************************************)
(* The steps of the parser process open, extend and close windows.         *)
(***************************************************************************)

(* When a batch is about to be published, its records will be of a window: *)
(* of a new one over the committed row, which the graph shows exactly, or  *)
(* of the one that a failed publication of the same content has left.      *)
LEMMA WindowAtStage ==
  ASSUME TypeOK, JobReadable, PipelineTypeOK, NEW rank \in [Contents \cup {Missing} -> Nat],
         HistoryInv(rank), OperatedInv(rank), MaxVersion = 1, pc = "staged",
         discipline = "offsets", NEW f \in Files, NEW g \in Generation, f = job.file,
         g = JobGeneration, Lossless(f)
  PROVE  \E base \in [Sinks -> Nat] : Delivered(rank, f, store[f], g, base)
<1>1. /\ job # NoJob /\ g[1] = job.content /\ g[2] = version /\ g[1] = disk[f]
      /\ store[f] \in Row \cup {NoRow}
  BY JobIs DEF JobGeneration, OperatedInv, TypeOK
<1>2. \A h \in Generation : h[2] = 1
  BY DEF Generation, Versions
<1>3. /\ \A s \in Sinks : committed[s][f] = Len(log[s][f])
      /\ Untouched(f) \/ HasWindow(rank, f)
  BY <1>1 DEF OperatedInv, Awaiting
<1>4. \A s \in Sinks : /\ position[s][f] = Len(log[s][f]) /\ log[s][f] \in Seq(Event)
                       /\ Len(log[s][f]) \in Nat
  <2> SUFFICES ASSUME NEW s \in Sinks
               PROVE  /\ position[s][f] = Len(log[s][f]) /\ log[s][f] \in Seq(Event)
                      /\ Len(log[s][f]) \in Nat
    OBVIOUS
  <2>1. log[s][f] \in Seq(Event)
    BY DEF TypeOK, Sinks, Topics
  <2>2. /\ position[s][f] \in Nat /\ committed[s][f] \in Nat /\ Len(log[s][f]) \in Nat
        /\ committed[s][f] <= position[s][f] /\ position[s][f] <= Len(log[s][f])
    BY <2>1 DEF PipelineTypeOK
  <2> QED
    BY <1>3, <2>1, <2>2
<1>5. CASE Settled(f)
  <2> DEFINE base == [s \in Sinks |-> Len(log[s][f])]
  <2>1. base \in [Sinks -> Nat] /\ \A s \in Sinks : Beyond(s, f, base) = {}
    BY <1>4 DEF Beyond
  <2>2. /\ GraphShows(f, RowNodes(store[f]), RowEdges(store[f]), RowGeneration(store[f]))
        /\ \A tomb \in graph[f].nodeTombs \cup graph[f].edgeTombs :
             store[f] # NoRow /\ rank[tomb[2][1]] < rank[store[f].hash]
    BY <1>3, <1>4, <1>5, SettledShows DEF Drained
  <2>3. store[f] # NoRow => rank[store[f].hash] < rank[g[1]]
    <3> SUFFICES ASSUME store[f] # NoRow PROVE rank[store[f].hash] < rank[g[1]]
      OBVIOUS
    <3>1. Before(rank, store[f].hash, g[1])
      BY <1>1 DEF HistoryInv, JobIsPast
    <3>2. store[f].hash # g[1]
      <4>1. ~ Unchanged(store[f], g)
        BY DEF OperatedInv
      <4>2. store[f].version = 1 /\ g[2] = 1
        BY <1>1, <1>2 DEF Row, Versions
      <4>3. g = <<g[1], g[2]>>
        BY DEF Generation
      <4> QED
        BY <4>1, <4>2, <4>3 DEF Unchanged
    <3> QED
      BY <3>1, <3>2 DEF Before
  <2>4. TombsPrecede(rank, graph[f], g)
    <3> SUFFICES ASSUME NEW tomb \in graph[f].nodeTombs \cup graph[f].edgeTombs
                 PROVE  rank[tomb[2][1]] < rank[g[1]]
      BY DEF TombsPrecede
    <3>1. graph[f] \in Graph
      BY DEF PipelineTypeOK
    <3>2. tomb[2] \in Generation
      BY <3>1 DEF Graph
    <3>3. rank[tomb[2][1]] \in Nat /\ rank[g[1]] \in Nat
      BY <3>2 DEF Generation
    <3>4. store[f] # NoRow /\ rank[store[f].hash] \in Nat
      BY <1>1, <2>2 DEF Row
    <3> QED
      BY <2>2, <2>3, <3>3, <3>4
  <2>5. Between(graph[f], store[f], g)
    <3>1. \A n \in Nodes : NodeBetween(graph[f], store[f], g, n)
      BY <2>2 DEF GraphShows, NodeBetween
    <3>2. \A e \in Edges : EdgeBetween(graph[f], store[f], g, e)
      BY <2>2 DEF GraphShows, EdgeBetween
    <3> QED
      BY <3>1, <3>2 DEF Between
  <2>6. \A s \in Sinks : base[s] <= committed[s][f]
    BY <1>3, <1>4
  <2>7. "cpg.nodes" \in Sinks /\ "cpg.edges" \in Sinks
    BY DEF Sinks
  <2> HIDE DEF base
  <2>8. Delivered(rank, f, store[f], g, base)
    BY <2>1, <2>3, <2>4, <2>5, <2>6, <2>7 DEF Delivered
  <2> QED
    BY <2>1, <2>8
<1>6. CASE ~ Settled(f)
  <2>1. HasWindow(rank, f)
    BY <1>3, <1>6 DEF Untouched, Settled
  <2>2. PICK o \in Row \cup {NoRow}, h \in Generation, base \in [Sinks -> Nat] :
          Delivered(rank, f, o, h, base) /\ Accounted(f, o, h, base)
    BY <2>1 DEF HasWindow
  <2>3. store[f] = o /\ h[1] = disk[f]
    BY <1>6, <2>2 DEF Accounted, Settled
  <2>4. h = g
    <3>1. h[1] = g[1] /\ h[2] = g[2]
      BY <1>1, <1>2, <2>3
    <3> QED
      BY <3>1 DEF Generation
  <2> QED
    BY <2>2, <2>3, <2>4
<1> QED
  BY <1>5, <1>6

(* All records of a batch are of a publication over the committed row.     *)
LEMMA BatchIsSent ==
  ASSUME TypeOK, JobReadable, LogInv, MaxVersion = 1, pc = "staged",
         NEW f \in Files, NEW g \in Generation, f = job.file, g = JobGeneration
  PROVE  /\ \A j \in 1..Len(job.batch["cpg.nodes"]) :
              SentNode(store[f], g, job.batch["cpg.nodes"][j])
         /\ \A j \in 1..Len(job.batch["cpg.edges"]) :
              SentEdge(store[f], g, job.batch["cpg.edges"][j])
<1>1. store[f] # NoRow => DeleteGeneration(store[f], g) = RowGeneration(store[f])
  <2> SUFFICES ASSUME store[f] # NoRow
               PROVE  DeleteGeneration(store[f], g) = RowGeneration(store[f])
    OBVIOUS
  <2>1. store[f] \in Row
    BY DEF TypeOK
  <2>2. g[2] = 1 /\ store[f].version = 1
    BY <2>1 DEF Generation, Row, Versions
  <2> QED
    BY <2>2 DEF DeleteGeneration, RowGeneration
<1>2. /\ SendsDifference(job.batch["cpg.nodes"], "NODE_UPSERT", "NODE_DELETE",
                         RemovedNodes(store[f], g), NodesOf(g),
                         DeleteGeneration(store[f], g), g)
      /\ SendsDifference(job.batch["cpg.edges"], "EDGE_UPSERT", "EDGE_DELETE",
                         RemovedEdges(store[f], g), EdgesOf(g),
                         DeleteGeneration(store[f], g), g)
  BY DEF LogInv, BatchIsDifference
<1>3. job.batch["cpg.nodes"] \in Seq(Event) /\ job.batch["cpg.edges"] \in Seq(Event)
  BY JobIs DEF Topics
<1>4. ASSUME NEW j \in 1..Len(job.batch["cpg.nodes"])
      PROVE  SentNode(store[f], g, job.batch["cpg.nodes"][j])
  <2>0. PICK b \in Seq(Event) : b = job.batch["cpg.nodes"]
    BY <1>3
  <2>a. SendsDifference(b, "NODE_UPSERT", "NODE_DELETE", RemovedNodes(store[f], g), NodesOf(g),
                        DeleteGeneration(store[f], g), g)
    BY <1>2, <2>0
  <2>1. PICK k \in 0..Len(b) :
          /\ \A i \in 1..k : b[i].type = "NODE_DELETE" /\ b[i].gen = DeleteGeneration(store[f], g)
          /\ \A i \in (k + 1)..Len(b) : b[i].type = "NODE_UPSERT" /\ b[i].gen = g
          /\ {b[i].id : i \in 1..k} = RemovedNodes(store[f], g)
          /\ {b[i].id : i \in (k + 1)..Len(b)} = NodesOf(g)
    BY <2>a DEF SendsDifference
  <2>2. j \in 1..k \/ j \in (k + 1)..Len(b)
    BY <2>0, <2>1
  <2>3. CASE j \in 1..k
    <3>1. b[j].id \in RemovedNodes(store[f], g)
      BY <2>1, <2>3
    <3>2. store[f] # NoRow
      BY <3>1 DEF RemovedNodes, RowNodes
    <3> QED
      BY <1>1, <2>0, <2>1, <2>3, <3>1, <3>2 DEF SentNode
  <2>4. CASE j \in (k + 1)..Len(b)
    <3>1. b[j].id \in NodesOf(g)
      BY <2>1, <2>4
    <3> QED
      BY <2>0, <2>1, <2>4, <3>1 DEF SentNode
  <2> QED
    BY <2>2, <2>3, <2>4
<1>5. ASSUME NEW j \in 1..Len(job.batch["cpg.edges"])
      PROVE  SentEdge(store[f], g, job.batch["cpg.edges"][j])
  <2>0. PICK b \in Seq(Event) : b = job.batch["cpg.edges"]
    BY <1>3
  <2>a. SendsDifference(b, "EDGE_UPSERT", "EDGE_DELETE", RemovedEdges(store[f], g), EdgesOf(g),
                        DeleteGeneration(store[f], g), g)
    BY <1>2, <2>0
  <2>1. PICK k \in 0..Len(b) :
          /\ \A i \in 1..k : b[i].type = "EDGE_DELETE" /\ b[i].gen = DeleteGeneration(store[f], g)
          /\ \A i \in (k + 1)..Len(b) : b[i].type = "EDGE_UPSERT" /\ b[i].gen = g
          /\ {b[i].id : i \in 1..k} = RemovedEdges(store[f], g)
          /\ {b[i].id : i \in (k + 1)..Len(b)} = EdgesOf(g)
    BY <2>a DEF SendsDifference
  <2>2. j \in 1..k \/ j \in (k + 1)..Len(b)
    BY <2>0, <2>1
  <2>3. CASE j \in 1..k
    <3>1. b[j].id \in RemovedEdges(store[f], g)
      BY <2>1, <2>3
    <3>2. store[f] # NoRow
      BY <3>1 DEF RemovedEdges, RowEdges
    <3> QED
      BY <1>1, <2>0, <2>1, <2>3, <3>1, <3>2 DEF SentEdge
  <2>4. CASE j \in (k + 1)..Len(b)
    <3>1. b[j].id \in EdgesOf(g)
      BY <2>1, <2>4
    <3> QED
      BY <2>0, <2>1, <2>4, <3>1 DEF SentEdge
  <2> QED
    BY <2>2, <2>3, <2>4
<1> QED
  BY <1>4, <1>5

(* Records of the same publication may be appended to a window.            *)
LEMMA PublicationDelivers ==
  ASSUME TypeOK, PipelineTypeOK, NEW rank, NEW f \in Files, NEW o, NEW g,
         NEW base \in [Sinks -> Nat], Delivered(rank, f, o, g, base), UNCHANGED sinkVars,
         NEW nodes \in Seq(Event), log'["cpg.nodes"][f] = log["cpg.nodes"][f] \o nodes,
         NEW edges \in Seq(Event), log'["cpg.edges"][f] = log["cpg.edges"][f] \o edges,
         \A i \in 1..Len(nodes) : SentNode(o, g, nodes[i]),
         \A i \in 1..Len(edges) : SentEdge(o, g, edges[i])
  PROVE  Delivered(rank, f, o, g, base)'
<1>0. /\ log["cpg.nodes"][f] \in Seq(Event) /\ log["cpg.edges"][f] \in Seq(Event)
      /\ "cpg.nodes" \in Sinks /\ "cpg.edges" \in Sinks
  BY DEF TypeOK, Topics, Sinks
<1>1. ASSUME NEW s \in Sinks, NEW b \in Seq(Event), log[s][f] \in Seq(Event),
             log'[s][f] = log[s][f] \o b, NEW i \in Beyond(s, f, base)'
      PROVE  \/ i \in Beyond(s, f, base) /\ log'[s][f][i] = log[s][f][i]
             \/ /\ ~ (i <= position[s][f])
                /\ \E j \in 1..Len(b) : log'[s][f][i] = b[j]
  <2>1. PICK l \in Seq(Event) : l = log[s][f]
    BY <1>1
  <2>2. i \in DOMAIN (l \o b) /\ i > base[s] /\ log'[s][f] = l \o b
    BY <1>1, <2>1 DEF Beyond
  <2>3. CASE i \in 1..Len(l)
    BY <2>1, <2>2, <2>3, AppendedIs DEF Beyond
  <2>4. CASE i \notin 1..Len(l)
    <3>1. i - Len(l) \in 1..Len(b) /\ (l \o b)[i] = b[i - Len(l)]
      BY <2>2, <2>4, AppendedIs
    <3>2. position[s][f] \in Nat /\ position[s][f] <= Len(l)
      BY <2>1 DEF PipelineTypeOK
    <3>3. i \in Nat /\ Len(l) \in Nat
      BY <2>2, AppendedIs
    <3>4. ~ (i <= position[s][f])
      BY <2>4, <3>1, <3>2, <3>3
    <3> QED
      BY <2>2, <3>1, <3>4
  <2> QED
    BY <2>3, <2>4
<1>2. ASSUME NEW i \in Beyond("cpg.nodes", f, base)'
      PROVE  /\ SentNode(o, g, log'["cpg.nodes"][f][i])
             /\ i <= position["cpg.nodes"][f] =>
                  NodeApplied(graph[f], g, log'["cpg.nodes"][f][i])
  <2>1. \/ /\ i \in Beyond("cpg.nodes", f, base)
           /\ log'["cpg.nodes"][f][i] = log["cpg.nodes"][f][i]
        \/ /\ ~ (i <= position["cpg.nodes"][f])
           /\ \E j \in 1..Len(nodes) : log'["cpg.nodes"][f][i] = nodes[j]
    BY <1>0, <1>1
  <2> QED
    BY <2>1 DEF Delivered
<1>3. ASSUME NEW i \in Beyond("cpg.edges", f, base)'
      PROVE  /\ SentEdge(o, g, log'["cpg.edges"][f][i])
             /\ i <= position["cpg.edges"][f] =>
                  EdgeApplied(graph[f], g, log'["cpg.edges"][f][i])
  <2>1. \/ /\ i \in Beyond("cpg.edges", f, base)
           /\ log'["cpg.edges"][f][i] = log["cpg.edges"][f][i]
        \/ /\ ~ (i <= position["cpg.edges"][f])
           /\ \E j \in 1..Len(edges) : log'["cpg.edges"][f][i] = edges[j]
    BY <1>0, <1>1
  <2> QED
    BY <2>1 DEF Delivered
<1> QED
  BY <1>2, <1>3 DEF Delivered, sinkVars

(* A whole batch completes it.                                             *)
LEMMA BatchCompletes ==
  ASSUME NEW s \in Sinks, NEW f \in Files, NEW base \in [Sinks -> Nat],
         log[s][f] \in Seq(Event), base[s] <= Len(log[s][f]),
         NEW b \in Seq(Event), log'[s][f] = log[s][f] \o b,
         NEW upsert, NEW delete, NEW removed, NEW ids, NEW old, NEW g,
         SendsDifference(b, upsert, delete, removed, ids, old, g)
  PROVE  Names(s, f, base, upsert, ids)' /\ Names(s, f, base, delete, removed)'
<1>1. PICK k \in 0..Len(b) :
        /\ \A i \in 1..k : b[i].type = delete /\ b[i].gen = old
        /\ \A i \in (k + 1)..Len(b) : b[i].type = upsert /\ b[i].gen = g
        /\ {b[i].id : i \in 1..k} = removed
        /\ {b[i].id : i \in (k + 1)..Len(b)} = ids
  BY DEF SendsDifference
<1>2. ASSUME NEW j \in 1..Len(b)
      PROVE  \E i \in Beyond(s, f, base)' : log'[s][f][i] = b[j]
  <2>1. PICK l \in Seq(Event) : l = log[s][f]
    OBVIOUS
  <2>2. Len(l) + j \in DOMAIN (l \o b) /\ (l \o b)[Len(l) + j] = b[j]
    BY AppendedIs
  <2>3. Len(l) + j > base[s]
    BY <2>1
  <2> QED
    BY <2>1, <2>2, <2>3 DEF Beyond
<1>3. Len(b) \in Nat
  OBVIOUS
<1>4. ASSUME NEW x \in ids
      PROVE  \E i \in Beyond(s, f, base)' : log'[s][f][i].type = upsert /\ log'[s][f][i].id = x
  <2>1. PICK j \in (k + 1)..Len(b) : b[j].id = x /\ b[j].type = upsert
    BY <1>1
  <2>2. j \in 1..Len(b)
    BY <1>3
  <2> QED
    BY <1>2, <2>1, <2>2
<1>5. ASSUME NEW x \in removed
      PROVE  \E i \in Beyond(s, f, base)' : log'[s][f][i].type = delete /\ log'[s][f][i].id = x
  <2>1. PICK j \in 1..k : b[j].id = x /\ b[j].type = delete
    BY <1>1
  <2>2. j \in 1..Len(b)
    BY <1>3
  <2> QED
    BY <1>2, <2>1, <2>2
<1> QED
  BY <1>4, <1>5 DEF Names

LEMMA PublicationOpensWindow ==
  ASSUME TypeOK, JobReadable, PipelineTypeOK, LogInv,
         NEW rank \in [Contents \cup {Missing} -> Nat], HistoryInv(rank), OperatedInv(rank),
         MaxVersion = 1, pc = "staged", discipline = "offsets", NEW f \in Files, f = job.file,
         Lossless(f), UNCHANGED <<sinkVars, disk, store>>, f \in dirty',
         NEW nodes \in Seq(Event), log'["cpg.nodes"][f] = log["cpg.nodes"][f] \o nodes,
         NEW edges \in Seq(Event), log'["cpg.edges"][f] = log["cpg.edges"][f] \o edges,
         \A i \in 1..Len(nodes) : \E j \in 1..Len(job.batch["cpg.nodes"]) :
            nodes[i] = job.batch["cpg.nodes"][j],
         \A i \in 1..Len(edges) : \E j \in 1..Len(job.batch["cpg.edges"]) :
            edges[i] = job.batch["cpg.edges"][j],
         pc' = "published" => /\ nodes = job.batch["cpg.nodes"]
                              /\ edges = job.batch["cpg.edges"]
  PROVE  HasWindow(rank, f)'
<1>1. PICK g \in Generation, o \in Row \cup {NoRow} : g = JobGeneration /\ o = store[f]
  BY JobIs DEF TypeOK
<1>2. PICK base \in [Sinks -> Nat] : Delivered(rank, f, o, g, base)
  BY <1>1, WindowAtStage
<1>3. /\ \A i \in 1..Len(nodes) : SentNode(o, g, nodes[i])
      /\ \A i \in 1..Len(edges) : SentEdge(o, g, edges[i])
  <2>1. /\ \A j \in 1..Len(job.batch["cpg.nodes"]) : SentNode(o, g, job.batch["cpg.nodes"][j])
        /\ \A j \in 1..Len(job.batch["cpg.edges"]) : SentEdge(o, g, job.batch["cpg.edges"][j])
    BY <1>1, BatchIsSent
  <2> QED
    BY <2>1
<1>4. Delivered(rank, f, o, g, base)'
  BY <1>2, <1>3, PublicationDelivers
<1>5. g[1] = disk[f]
  BY <1>1, JobIs DEF OperatedInv, JobGeneration, TypeOK
<1>6. ASSUME pc' = "published" PROVE IsComplete(f, o, g, base)'
  <2>1. /\ SendsDifference(nodes, "NODE_UPSERT", "NODE_DELETE", RemovedNodes(o, g), NodesOf(g),
                           DeleteGeneration(o, g), g)
        /\ SendsDifference(edges, "EDGE_UPSERT", "EDGE_DELETE", RemovedEdges(o, g), EdgesOf(g),
                           DeleteGeneration(o, g), g)
    BY <1>1, <1>6 DEF LogInv, BatchIsDifference
  <2>2. ASSUME NEW s \in Sinks PROVE log[s][f] \in Seq(Event) /\ base[s] <= Len(log[s][f])
    <3>1. log[s][f] \in Seq(Event)
      BY DEF TypeOK, Sinks, Topics
    <3>2. base[s] <= committed[s][f]
      BY <1>2 DEF Delivered
    <3>3. /\ committed[s][f] \in Nat /\ position[s][f] \in Nat
          /\ committed[s][f] <= position[s][f] /\ position[s][f] <= Len(log[s][f])
      BY DEF PipelineTypeOK
    <3>4. PICK a \in Nat, c \in Nat, p \in Nat, l \in Seq(Event) :
             a = base[s] /\ c = committed[s][f] /\ p = position[s][f] /\ l = log[s][f]
      BY <3>1, <3>3
    <3>5. a <= c /\ c <= p /\ p <= Len(l)
      BY <3>2, <3>3, <3>4
    <3>6. a <= Len(l)
      BY <3>5
    <3> QED
      BY <3>4, <3>6
  <2>3. "cpg.nodes" \in Sinks /\ "cpg.edges" \in Sinks
    BY DEF Sinks
  <2>4. /\ Names("cpg.nodes", f, base, "NODE_UPSERT", NodesOf(g))'
        /\ Names("cpg.nodes", f, base, "NODE_DELETE", RemovedNodes(o, g))'
    BY <2>1, <2>2, <2>3, BatchCompletes
  <2>5. /\ Names("cpg.edges", f, base, "EDGE_UPSERT", EdgesOf(g))'
        /\ Names("cpg.edges", f, base, "EDGE_DELETE", RemovedEdges(o, g))'
    BY <2>1, <2>2, <2>3, BatchCompletes
  <2> QED
    BY <2>4, <2>5 DEF IsComplete
<1>7. Accounted(f, o, g, base)'
  BY <1>1, <1>5, <1>6 DEF Accounted
<1> QED
  BY <1>4, <1>7 DEF HasWindow

(* What a step that leaves the records and the row of a file alone must    *)
(* grant.                                                                  *)
LEMMA WindowFrame ==
  ASSUME TypeOK, PipelineTypeOK, NEW rank, NEW f \in Files, Untouched(f) \/ HasWindow(rank, f),
         UNCHANGED sinkVars, \A s \in Sinks : log'[s][f] = log[s][f], store'[f] = store[f],
         f \in dirty' <=> f \in dirty, f \in dirty => disk'[f] = disk[f],
         pc' = "published" /\ job'.file = f => pc = "published" /\ job.file = f
  PROVE  Untouched(f)' \/ HasWindow(rank, f)'
<1>1. CASE Untouched(f)
  BY <1>1 DEF Untouched, sinkVars
<1>2. CASE HasWindow(rank, f)
  <2>1. PICK o \in Row \cup {NoRow}, g \in Generation, base \in [Sinks -> Nat] :
          Delivered(rank, f, o, g, base) /\ Accounted(f, o, g, base)
    BY <1>2 DEF HasWindow
  <2>2. Delivered(rank, f, o, g, base)'
    BY <2>1, DeliveredFrame DEF sinkVars
  <2>3. "cpg.nodes" \in Sinks /\ "cpg.edges" \in Sinks
    BY DEF Sinks
  <2>4. Beyond("cpg.nodes", f, base)' = Beyond("cpg.nodes", f, base)
        /\ Beyond("cpg.edges", f, base)' = Beyond("cpg.edges", f, base)
    BY <2>3 DEF Beyond
  <2>5. IsComplete(f, o, g, base) => IsComplete(f, o, g, base)'
    BY <2>3, <2>4 DEF IsComplete, Names
  <2>6. Accounted(f, o, g, base)'
    BY <2>1, <2>5 DEF Accounted
  <2> QED
    BY <2>2, <2>6 DEF HasWindow
<1> QED
  BY <1>1, <1>2

LEMMA OperatedFrame ==
  ASSUME TypeOK, PipelineTypeOK, NEW rank, OperatedInv(rank), UNCHANGED sinkVars,
         UNCHANGED <<log, store, dirty, disk>>,
         \/ todo' \subseteq todo
         \/ discipline = "offsets" =>
              \A s \in Sinks, f \in Files : committed[s][f] = Len(log[s][f]),
         job' # NoJob =>
           /\ job'.content = disk[job'.file] /\ job'.file \notin todo'
           /\ job'.file \in todo \/ (job # NoJob /\ pc # "published" /\ job'.file = job.file),
         pc' # "published",
         pc' = "staged" => ~ Unchanged(store[job'.file], JobGeneration')
  PROVE  OperatedInv(rank)'
<1>1. ASSUME NEW f \in Files, discipline = "offsets" PROVE Awaiting(f)'
  BY <1>1 DEF OperatedInv, Awaiting, sinkVars
<1>2. ASSUME NEW f \in Files, discipline = "offsets", Lossless(f)'
      PROVE  Untouched(f)' \/ HasWindow(rank, f)'
  <2>1. Lossless(f)
    BY <1>2 DEF Lossless, sinkVars
  <2> QED
    BY <1>2, <2>1, WindowFrame DEF OperatedInv
<1>3. discipline' = discipline
  BY DEF sinkVars
<1> QED
  BY <1>1, <1>2, <1>3 DEF OperatedInv

LEMMA InitOperated ==
  ASSUME PipelineInit, NEW rank
  PROVE  OperatedInv(rank)
<1>1. ASSUME NEW f \in Files PROVE Untouched(f)
  <2>1. \A s \in Sinks : log[s][f] = << >>
    BY DEF PipelineInit, Init, Sinks, Topics
  <2>2. graph[f] = EmptyGraph
    BY DEF PipelineInit
  <2> QED
    BY <2>1, <2>2 DEF PipelineInit, Init, Untouched, EmptyGraph
<1>2. ASSUME NEW f \in Files PROVE Awaiting(f)
  BY DEF PipelineInit, Init, Awaiting
<1> QED
  BY <1>1, <1>2 DEF PipelineInit, Init, OperatedInv

LEMMA PublishOperated ==
  ASSUME TypeOK, JobReadable, PipelineTypeOK, LogInv,
         NEW rank \in [Contents \cup {Missing} -> Nat], HistoryInv(rank), OperatedInv(rank),
         MaxVersion = 1, PublishBatch, UNCHANGED sinkVars
  PROVE  OperatedInv(rank)'
<1>1. /\ job \in Job /\ job # NoJob /\ job.batch \in [Topics -> Seq(Event)]
      /\ Deliver(job.batch) /\ pc = "staged"
      /\ pc' = "published" /\ UNCHANGED <<disk, store, job, todo>>
      /\ dirty' = dirty \cup {job.file}
  BY JobIs DEF PublishBatch, envVars, runVars, TypeOK
<1>2. PICK f \in Files : f = job.file
  BY <1>1 DEF Job
<1>3. ASSUME NEW t \in Topics
      PROVE  /\ job.batch[t] \in Seq(Event)
             /\ log'[t][f] = log[t][f] \o job.batch[t]
             /\ \A h \in Files : h # f => log'[t][h] = log[t][h]
  BY <1>1, <1>2, DeliverAppends
<1>4. "cpg.nodes" \in Topics /\ "cpg.edges" \in Topics /\ Sinks \subseteq Topics
  BY DEF Topics, Sinks
<1>5. ASSUME NEW h \in Files, discipline = "offsets" PROVE Awaiting(h)'
  <2> SUFFICES ASSUME h \in todo, NEW s \in Sinks
               PROVE  committed[s][h] = Len(log'[s][h])
    BY <1>1 DEF Awaiting, sinkVars
  <2>1. h # f
    BY <1>1, <1>2 DEF OperatedInv
  <2> QED
    BY <1>3, <1>4, <1>5, <2>1 DEF OperatedInv, Awaiting
<1>6. ASSUME NEW h \in Files, discipline = "offsets", Lossless(h)'
      PROVE  Untouched(h)' \/ HasWindow(rank, h)'
  <2>1. Lossless(h)
    BY <1>6 DEF Lossless, sinkVars
  <2>2. CASE h = f
    BY <1>1, <1>2, <1>3, <1>4, <1>6, <2>1, <2>2, PublicationOpensWindow
  <2>3. CASE h # f
    <3>1. Untouched(h) \/ HasWindow(rank, h)
      BY <1>6, <2>1 DEF OperatedInv
    <3> QED
      BY <1>1, <1>2, <1>3, <1>4, <2>3, <3>1, WindowFrame
  <2> QED
    BY <2>2, <2>3
<1>7. discipline' = discipline
  BY DEF sinkVars
<1> QED
  BY <1>1, <1>5, <1>6, <1>7 DEF OperatedInv

LEMMA PublishFailsOperated ==
  ASSUME TypeOK, JobReadable, PipelineTypeOK, LogInv,
         NEW rank \in [Contents \cup {Missing} -> Nat], HistoryInv(rank), OperatedInv(rank),
         MaxVersion = 1, PublishFails, UNCHANGED sinkVars
  PROVE  OperatedInv(rank)'
<1>1. /\ job \in Job /\ PartlyDelivered /\ pc = "staged" /\ UNCHANGED <<disk, store>>
      /\ job' = NoJob /\ pc' = "down" /\ todo' = {}
  BY JobIs DEF PublishFails, Abort, Halt, envVars
<1>2. PICK f \in Files : f = job.file
  BY <1>1 DEF Job
<1>3. "cpg.nodes" \in Topics /\ "cpg.edges" \in Topics /\ Sinks \subseteq Topics
  BY DEF Topics, Sinks
<1>4. ASSUME NEW h \in Files PROVE Awaiting(h)'
  BY <1>1 DEF Awaiting
<1>5. ASSUME NEW h \in Files, discipline = "offsets", Lossless(h)'
      PROVE  Untouched(h)' \/ HasWindow(rank, h)'
  <2>1. Lossless(h)
    BY <1>5 DEF Lossless, sinkVars
  <2>2. Untouched(h) \/ HasWindow(rank, h)
    BY <1>5, <2>1 DEF OperatedInv
  <2>3. CASE /\ \A t \in Topics, x \in Files : log'[t][x] = log[t][x]
             /\ UNCHANGED histVars
    BY <1>1, <1>3, <2>2, <2>3, WindowFrame DEF histVars
  <2>4. CASE /\ dirty' = dirty \cup {job.file}
             /\ \A t \in Topics, x \in Files : x # job.file => log'[t][x] = log[t][x]
             /\ \A t \in Topics : \E u \in Seq(Event) :
                  /\ log'[t][job.file] = log[t][job.file] \o u
                  /\ \A i \in 1..Len(u) : \E j \in 1..Len(job.batch[t]) : u[i] = job.batch[t][j]
    <3>1. CASE h # f
      BY <1>1, <1>2, <1>3, <2>2, <2>4, <3>1, WindowFrame
    <3>2. CASE h = f
      <4>1. PICK nodes \in Seq(Event) :
              /\ log'["cpg.nodes"][f] = log["cpg.nodes"][f] \o nodes
              /\ \A i \in 1..Len(nodes) : \E j \in 1..Len(job.batch["cpg.nodes"]) :
                   nodes[i] = job.batch["cpg.nodes"][j]
        BY <1>2, <1>3, <2>4
      <4>2. PICK edges \in Seq(Event) :
              /\ log'["cpg.edges"][f] = log["cpg.edges"][f] \o edges
              /\ \A i \in 1..Len(edges) : \E j \in 1..Len(job.batch["cpg.edges"]) :
                   edges[i] = job.batch["cpg.edges"][j]
        BY <1>2, <1>3, <2>4
      <4>3. f \in dirty'
        BY <1>2, <2>4
      <4> QED
        BY <1>1, <1>2, <1>5, <2>1, <3>2, <4>1, <4>2, <4>3, PublicationOpensWindow
    <3> QED
      BY <3>1, <3>2
  <2> QED
    BY <1>1, <2>3, <2>4, PartlyDeliveredAppends
<1>6. discipline' = discipline
  BY DEF sinkVars
<1> QED
  BY <1>1, <1>4, <1>5, <1>6 DEF OperatedInv

LEMMA CommitOperated ==
  ASSUME TypeOK, JobReadable, PipelineTypeOK, LogInv,
         NEW rank \in [Contents \cup {Missing} -> Nat], OperatedInv(rank), MaxVersion = 1,
         CommitState, UNCHANGED sinkVars
  PROVE  OperatedInv(rank)'
<1>1. PICK f \in Files, g \in Generation : f = job.file /\ g = JobGeneration
  BY JobIs DEF CommitState
<1>2. /\ pc = "published" /\ pc' = "loop" /\ job # NoJob /\ job' = NoJob /\ todo' = todo
      /\ store' = [store EXCEPT ![f] = RowFor(g)] /\ dirty' = dirty \ {f}
      /\ UNCHANGED <<log, disk>>
  BY <1>1 DEF CommitState, NextFile, envVars, TypeOK
<1>3. store'[f] = RowFor(g) /\ \A h \in Files : h # f => store'[h] = store[h]
  BY <1>2 DEF TypeOK
<1>4. f \in dirty /\ g[1] = disk[f]
  BY <1>1, <1>2 DEF LogInv, PublishedShows, OperatedInv, JobGeneration
<1>5. ASSUME NEW h \in Files, discipline = "offsets" PROVE Awaiting(h)'
  BY <1>2, <1>5 DEF OperatedInv, Awaiting, sinkVars
<1>6. ASSUME NEW h \in Files, discipline = "offsets", Lossless(h)'
      PROVE  Untouched(h)' \/ HasWindow(rank, h)'
  <2>1. Lossless(h)
    BY <1>6 DEF Lossless, sinkVars
  <2>2. Untouched(h) \/ HasWindow(rank, h)
    BY <1>6, <2>1 DEF OperatedInv
  <2>3. CASE h # f
    BY <1>1, <1>2, <1>3, <2>2, <2>3, WindowFrame
  <2>4. CASE h = f
    <3>1. HasWindow(rank, f)
      BY <1>4, <2>2, <2>4 DEF Untouched
    <3>2. PICK o \in Row \cup {NoRow}, k \in Generation, base \in [Sinks -> Nat] :
            Delivered(rank, f, o, k, base) /\ Accounted(f, o, k, base)
      BY <3>1 DEF HasWindow
    <3>3. k[1] = disk[f] /\ IsComplete(f, o, k, base)
      BY <1>1, <1>2, <1>4, <3>2 DEF Accounted
    <3>4. k = g
      <4>1. k[2] = 1 /\ g[2] = 1
        BY DEF Generation, Versions
      <4> QED
        BY <1>4, <3>3, <4>1 DEF Generation
    <3>5. Delivered(rank, f, o, k, base)'
      BY <1>2, <3>2, DeliveredFrame DEF sinkVars
    <3>6. IsComplete(f, o, k, base)'
      BY <1>2, <3>3 DEF IsComplete, Names, Beyond
    <3>7. Accounted(f, o, k, base)'
      BY <1>2, <1>3, <3>4, <3>6 DEF Accounted
    <3> QED
      BY <2>4, <3>5, <3>7 DEF HasWindow
  <2> QED
    BY <2>3, <2>4
<1>7. discipline' = discipline
  BY DEF sinkVars
<1> QED
  BY <1>2, <1>5, <1>6, <1>7 DEF OperatedInv

(* A file is edited only when it is settled and no process is up.          *)
LEMMA EditOperated ==
  ASSUME TypeOK, PipelineTypeOK, NEW rank, OperatedInv(rank), RetryBeforeEdit,
         NEW x \in Files, NEW c \in Contents \cup {Missing}, OperatedEdit(x, c),
         UNCHANGED sinkVars
  PROVE  OperatedInv(rank)'
<1>1. /\ x \notin dirty /\ pc = "down" /\ pc' = "down" /\ job' = job /\ todo' = todo
      /\ UNCHANGED <<log, store, dirty>> /\ disk' = [disk EXCEPT ![x] = c]
  BY DEF OperatedEdit, Edit, runVars, histVars
<1>2. job = NoJob
  BY <1>1 DEF TypeOK
<1>3. ASSUME NEW f \in Files, discipline = "offsets" PROVE Awaiting(f)'
  BY <1>1, <1>2, <1>3 DEF OperatedInv, Awaiting, sinkVars
<1>4. ASSUME NEW f \in Files, discipline = "offsets", Lossless(f)'
      PROVE  Untouched(f)' \/ HasWindow(rank, f)'
  <2>1. Lossless(f)
    BY <1>4 DEF Lossless, sinkVars
  <2>2. f \in dirty => disk'[f] = disk[f]
    BY <1>1 DEF TypeOK
  <2> QED
    BY <1>1, <1>4, <2>1, <2>2, WindowFrame DEF OperatedInv
<1>5. discipline' = discipline
  BY DEF sinkVars
<1> QED
  BY <1>1, <1>2, <1>3, <1>4, <1>5 DEF OperatedInv

LEMMA ParserOperated ==
  ASSUME TypeOK, JobReadable, PipelineTypeOK, LogInv,
         NEW rank \in [Contents \cup {Missing} -> Nat], HistoryInv(rank), OperatedInv(rank),
         RetryBeforeEdit, MaxVersion = 1, ParserStep
  PROVE  OperatedInv(rank)'
<1> USE DEF envVars, runVars, histVars
<1>0. UNCHANGED sinkVars
  BY DEF ParserStep
<1>a. ASSUME UNCHANGED <<log, store, dirty, disk>>, todo' \subseteq todo, job' = NoJob,
             pc' \notin {"staged", "published"}
      PROVE  OperatedInv(rank)'
  BY <1>0, <1>a, OperatedFrame
<1>d. ASSUME NEW p, AfterFailure(p)
      PROVE  job' = NoJob /\ pc' \notin {"staged", "published"} /\ todo' \subseteq todo
  BY <1>d DEF AfterFailure, Halt
<1>1. ASSUME NEW f \in Files, NEW c \in Contents \cup {Missing}, OperatedEdit(f, c)
      PROVE  OperatedInv(rank)'
  BY <1>0, <1>1, EditOperated
<1>2. CASE Upgrade
  <2>1. version \in 1..1 /\ version < 1
    BY <1>2 DEF Upgrade, TypeOK, Versions
  <2> QED
    BY <2>1
<1>3. CASE OperatedRun
  <2>1. /\ UNCHANGED <<log, store, dirty, disk, job>> /\ pc = "down" /\ pc' = "loop"
        /\ discipline = "offsets" =>
             \A s \in Sinks, f \in Files : committed[s][f] = Len(log[s][f])
    BY <1>3 DEF OperatedRun, StartRun
  <2>2. job' = NoJob
    BY <2>1 DEF TypeOK
  <2> QED
    BY <1>0, <2>1, <2>2, OperatedFrame
<1>4. CASE EndRun \/ SkipUnchanged
  BY <1>4, <1>a DEF EndRun, SkipUnchanged, Halt, NextFile
<1>5. CASE ParserRaises \/ ReportError \/ ReportErrorFails \/ ReportErrorDropped \/ ReportErrorRejected
  BY <1>5, <1>a, <1>d DEF ParserRaises, ReportError, ReportErrorFails, ReportErrorDropped, ReportErrorRejected
<1>6. ASSUME NEW f \in Files, ReadFile(f) PROVE OperatedInv(rank)'
  <2>1. /\ UNCHANGED <<log, store, dirty, disk>> /\ todo' = todo \ {f} /\ f \in todo
        /\ job'.file = f /\ job'.content = disk[f] /\ pc' \in {"failing", "read"}
    BY <1>6 DEF ReadFile, JobFor
  <2>2. job'.file \notin todo'
    BY <2>1
  <2> QED
    BY <1>0, <2>1, <2>2, OperatedFrame
<1>7. CASE ParseFails
  <2>1. /\ UNCHANGED <<log, store, dirty, disk, todo, job>> /\ pc = "read" /\ pc' = "failing"
    BY <1>7 DEF ParseFails
  <2> QED
    BY <1>0, <2>1, OperatedFrame DEF OperatedInv
<1>8. CASE StageEvents
  <2>1. /\ job \in Job /\ job # NoJob
        /\ UNCHANGED <<log, store, dirty, disk, todo, version>>
        /\ pc = "read" /\ pc' = "staged" /\ ~ Unchanged(store[job.file], JobGeneration)
    BY <1>8, JobIs DEF StageEvents, TypeOK
  <2>2. \E batch : job' = [job EXCEPT !.batch = batch]
    BY <1>8 DEF StageEvents
  <2>3. job'.file = job.file /\ job'.content = job.content
    BY <2>1, <2>2 DEF Job
  <2>4. JobGeneration' = JobGeneration
    BY <2>1, <2>3 DEF JobGeneration
  <2> QED
    BY <1>0, <2>1, <2>3, <2>4, OperatedFrame DEF OperatedInv
<1>9. CASE PublishBatch
  BY <1>0, <1>9, PublishOperated
<1>10. CASE PublishFails
  BY <1>0, <1>10, PublishFailsOperated
<1>11. CASE CommitState
  BY <1>0, <1>11, CommitOperated
<1>12. CASE AbortBeforePublish \/ PublishRejected \/ CommitFails \/ Crash
  BY <1>12, <1>a DEF AbortBeforePublish, PublishRejected, CommitFails, Crash, Abort, Halt
<1> QED
  BY <1>1, <1>2, <1>3, <1>4, <1>5, <1>6, <1>7, <1>8, <1>9, <1>10, <1>11, <1>12
     DEF ParserStep, Proceed, Fault

LEMMA NextOperated ==
  ASSUME TypeOK, JobReadable, PipelineTypeOK, LogInv,
         NEW rank \in [Contents \cup {Missing} -> Nat], HistoryInv(rank), OperatedInv(rank),
         RetryBeforeEdit, MaxVersion = 1, [PipelineNext]_pipelineVars
  PROVE  OperatedInv(rank)'
<1>1. CASE PipelineNext
  BY <1>1, ParserOperated, SinkOperated DEF PipelineNext
<1>2. CASE UNCHANGED pipelineVars
  <2>1. UNCHANGED <<vars, sinkVars>>
    BY <1>2 DEF pipelineVars
  <2>2. ASSUME NEW f \in Files, discipline = "offsets", Lossless(f)'
        PROVE  Untouched(f)' \/ HasWindow(rank, f)'
    <3>1. Lossless(f)
      BY <2>1, <2>2 DEF Lossless, sinkVars
    <3> QED
      BY <2>1, <2>2, <3>1, WindowFrame DEF OperatedInv, vars
  <2>3. ASSUME NEW f \in Files, discipline = "offsets" PROVE Awaiting(f)'
    BY <2>1, <2>3 DEF OperatedInv, Awaiting, vars, sinkVars
  <2> QED
    BY <2>1, <2>2, <2>3 DEF OperatedInv, JobGeneration, vars, sinkVars
<1> QED
  BY <1>1, <1>2

-----------------------------------------------------------------------------
(***************************************************************************)
(* The theorems.                                                           *)
(***************************************************************************)
LEMMA OperatedFollows ==
  ASSUME TypeOK, NEW rank, OperatedInv(rank)
  PROVE  AwaitedGraphFollows
<1> SUFFICES ASSUME discipline = "offsets", NEW f \in Files, Quiescent(f), Lossless(f)
             PROVE  HoldsNodes(f) /\ HoldsEdges(f) /\ HoldsNothingElse(f)
  BY DEF AwaitedGraphFollows, GraphFollowsCommitted
<1>0. PICK o \in Row \cup {NoRow} : o = store[f]
  BY DEF TypeOK
<1>1. PICK g : g = RowGeneration(o)
  OBVIOUS
<1>2. GraphShows(f, RowNodes(o), RowEdges(o), g)
  BY <1>0, <1>1, SettledShows DEF OperatedInv, Quiescent
<1>3. o # NoRow => g # Absent /\ Hydrated(g) # Absent
  <2>1. o # NoRow => g \in Generation
    BY <1>1 DEF RowGeneration, Row, Generation
  <2>2. g \in Generation => Hydrated(g) \in NodeRecord
    BY DEF Hydrated, NodeRecord
  <2> QED
    BY <2>1, <2>2, SinkAssumption
<1>4. /\ RowNodes(o) \subseteq Nodes /\ RowEdges(o) \subseteq Edges
      /\ o = NoRow => RowNodes(o) = {} /\ RowEdges(o) = {}
  BY DEF RowNodes, RowEdges, Row
<1>5. \A n \in RowNodes(o) :
        /\ graph[f].node[n] = Hydrated(g) /\ graph[f].node[n] # Absent
        /\ graph[f].node[n].gen = g /\ ~ graph[f].node[n].placeholder
  <2> SUFFICES ASSUME NEW n \in RowNodes(o)
               PROVE  /\ graph[f].node[n] = Hydrated(g) /\ graph[f].node[n] # Absent
                      /\ graph[f].node[n].gen = g /\ ~ graph[f].node[n].placeholder
    OBVIOUS
  <2>1. graph[f].node[n] = Hydrated(g) /\ graph[f].node[n] # Absent
    BY <1>2, <1>3, <1>4 DEF GraphShows
  <2>2. Hydrated(g).gen = g /\ ~ Hydrated(g).placeholder
    BY DEF Hydrated
  <2> QED
    BY <2>1, <2>2
<1>6. HoldsNodes(f)
  BY <1>0, <1>1, <1>5 DEF HoldsNodes, Placeholders
<1>7. HoldsEdges(f)
  BY <1>0, <1>1, <1>2, <1>4 DEF GraphShows, HoldsEdges
<1>8. HoldsNothingElse(f)
  BY <1>0, <1>1, <1>2 DEF GraphShows, HoldsNothingElse
<1> QED
  BY <1>6, <1>7, <1>8

(* When the runs wait for the committed offsets, a failed publication is   *)
(* retried before its file is edited again, no content comes back and one  *)
(* version is deployed, the graph follows the committed rows: with both    *)
(* connectors through and no batch of the file lost, Neo4j has the graph   *)
(* of the committed content and nothing else, whatever was redelivered,    *)
(* delayed, or published only in part before.                              *)
THEOREM AwaitedGraphIsExact ==
  ASSUME ContentsDoNotReturn, RetryBeforeEdit, MaxVersion = 1
  PROVE  PipelineSpec => []AwaitedGraphFollows
<1>0. PICK rank \in [Contents \cup {Missing} -> Nat] : Onwards(rank)
  BY DEF ContentsDoNotReturn
<1>1. PipelineInit => HistoryInv(rank) /\ OperatedInv(rank)
  <2>1. PipelineInit => HistoryInv(rank)
    BY InitHistory DEF PipelineInit
  <2> QED
    BY <2>1, InitOperated
<1>2. TypeOK /\ JobReadable /\ LogInv /\ PipelineTypeOK /\ HistoryInv(rank) /\ OperatedInv(rank)
        /\ [PipelineNext]_pipelineVars => HistoryInv(rank)' /\ OperatedInv(rank)'
  BY <1>0, PipelineStepIsRunStep, NextHistory, NextOperated
<1>3. TypeOK /\ OperatedInv(rank) => AwaitedGraphFollows
  BY OperatedFollows
<1>4. BackedInv => TypeOK /\ JobReadable
  BY DEF BackedInv
<1> QED
  BY <1>1, <1>2, <1>3, <1>4, PipelineRunsParser, PipelineTypeCorrect, BackedInvariance,
     LogInvariance, PTL DEF PipelineSpec

(* The same of the pipeline that knows no other discipline.                *)
THEOREM OperatedGraphIsExact ==
  ASSUME ContentsDoNotReturn, RetryBeforeEdit, MaxVersion = 1, Disciplines = {"offsets"}
  PROVE  PipelineSpec => []GraphFollowsCommitted
<1>1. PipelineTypeOK /\ AwaitedGraphFollows => GraphFollowsCommitted
  BY DEF PipelineTypeOK, AwaitedGraphFollows
<1> QED
  BY <1>1, PipelineTypeCorrect, AwaitedGraphIsExact, PTL
=============================================================================
