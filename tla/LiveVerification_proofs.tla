------------------------ MODULE LiveVerification_proofs ------------------------
(***************************************************************************)
(* Proofs about LiveVerification: what the Task 3 script and notebook say  *)
(* of the topics, the Task 4 notebook of the graph, and the Task 5         *)
(* notebook of its documents, is true, for any files, contents and         *)
(* parsers, and whatever the parser process does meanwhile.  The graph     *)
(* comes first: what it is like when the sinks are through.                *)
(***************************************************************************)
EXTENDS LiveVerification, CpgPipeline_proofs

-----------------------------------------------------------------------------
(***************************************************************************)
(* The records of a run over a new database: upserts, of one generation.   *)
(***************************************************************************)
Elements(s, g) == IF s = "cpg.nodes" THEN NodesOf(g) ELSE EdgesOf(g)
UpsertIn(s)    == IF s = "cpg.nodes" THEN "NODE_UPSERT" ELSE "EDGE_UPSERT"

OwnRecord(s, g, event) ==
    event.type = UpsertIn(s) /\ event.id \in Elements(s, g) /\ event.gen = g

(* The graph has an element of g as g's own records leave it.              *)
Shown(s, gr, g, x) == IF s = "cpg.nodes" THEN gr.node[x] = Hydrated(g) ELSE gr.edge[x] = g

Untombed(gr, g) == \A x : <<x, g>> \notin gr.nodeTombs \cup gr.edgeTombs

(* What batches of such records do to a graph: they take nothing away.     *)
Adds(gr, later, g) ==
    /\ \A n \in Nodes :
         \/ later.node[n] = gr.node[n]
         \/ n \in NodesOf(g) /\ later.node[n] = Hydrated(g)
         \/ n \in NodesOf(g) /\ gr.node[n] = Absent /\ later.node[n] # Absent
    /\ \A e \in Edges :
         later.edge[e] = gr.edge[e] \/ (e \in EdgesOf(g) /\ later.edge[e] = g)

LEMMA NodeUpsertsAdd ==
  ASSUME NEW gr \in Graph, NEW g \in Generation, NEW batch \in Seq(Event),
         \A i \in DOMAIN batch : OwnRecord("cpg.nodes", g, batch[i])
  PROVE  /\ Adds(gr, ApplyNodeBatch(gr, batch), g)
         /\ \A i \in DOMAIN batch : Shown("cpg.nodes", ApplyNodeBatch(gr, batch), g, batch[i].id)
<1> DEFINE ups(n) == At(batch, "NODE_UPSERT", n)
           later == ApplyNodeBatch(gr, batch)
<1>0. DOMAIN gr = {"node", "edge", "nodeTombs", "edgeTombs"}
  BY DEF Graph
<1>1. \A i \in DOMAIN batch :
        batch[i].type = "NODE_UPSERT" /\ batch[i].id \in NodesOf(g) /\ batch[i].gen = g
  BY DEF OwnRecord, UpsertIn, Elements
<1>2. \A n \in Nodes : At(batch, "NODE_DELETE", n) = {}
  BY <1>1 DEF At
<1>3. /\ \A n \in Nodes : later.node[n] = MergeNodes(gr, batch)[n]
      /\ \A e \in Edges : later.edge[e] = gr.edge[e]
  BY <1>0, <1>2 DEF ApplyNodeBatch
<1>4. ASSUME NEW n \in Nodes
      PROVE  later.node[n] = IF ups(n) = {} THEN gr.node[n] ELSE Hydrated(g)
  <2>1. ups(n) \in SUBSET (DOMAIN batch)
    BY DEF At
  <2>2. ups(n) # {} => LastOf(ups(n)) \in ups(n)
    <3> HIDE DEF ups
    <3> QED
      BY <2>1, EndsOfPositions
  <2>3. ups(n) # {} => batch[LastOf(ups(n))].gen = g
    BY <1>1, <2>1, <2>2
  <2>4. MergeNodes(gr, batch)[n] = IF ups(n) = {} THEN gr.node[n] ELSE Hydrated(g)
    BY <2>3 DEF MergeNodes, Hydrated
  <2> QED
    BY <1>3, <2>4
<1>5. \A n \in Nodes : ups(n) # {} => n \in NodesOf(g)
  BY <1>1 DEF At
<1>6. \A i \in DOMAIN batch : batch[i].id \in Nodes /\ ups(batch[i].id) # {}
  BY <1>1, WindowValues DEF At
<1> HIDE DEF later, ups
<1>7. Adds(gr, later, g)
  BY <1>3, <1>4, <1>5 DEF Adds
<1>8. \A i \in DOMAIN batch : Shown("cpg.nodes", later, g, batch[i].id)
  BY <1>4, <1>6 DEF Shown
<1> QED
  BY <1>7, <1>8 DEF later

LEMMA EdgeUpsertsAdd ==
  ASSUME NEW gr \in Graph, NEW g \in Generation, NEW batch \in Seq(Event), Untombed(gr, g),
         \A i \in DOMAIN batch : OwnRecord("cpg.edges", g, batch[i])
  PROVE  /\ Adds(gr, ApplyEdgeBatch(gr, batch), g)
         /\ \A i \in DOMAIN batch : Shown("cpg.edges", ApplyEdgeBatch(gr, batch), g, batch[i].id)
<1> DEFINE ups(e) == At(batch, "EDGE_UPSERT", e)
           touching(n) == EndPointUpserts(gr, batch, n)
           later == ApplyEdgeBatch(gr, batch)
<1>0. /\ DOMAIN gr = {"node", "edge", "nodeTombs", "edgeTombs"}
      /\ later \in Graph
  BY EdgeBatchIsGraph DEF Graph
<1>1. \A i \in DOMAIN batch :
        batch[i].type = "EDGE_UPSERT" /\ batch[i].id \in EdgesOf(g) /\ batch[i].gen = g
  BY DEF OwnRecord, UpsertIn, Elements
<1>2. \A e \in Edges : At(batch, "EDGE_DELETE", e) = {}
  BY <1>1 DEF At
<1>3. \A e \in Edges : EffectiveUpserts(gr, batch, e) = ups(e)
  <2>1. \A e \in Edges : \A i \in ups(e) : batch[i].gen = g
    BY <1>1 DEF At
  <2> QED
    BY <2>1 DEF EffectiveUpserts, Untombed
<1>4. /\ \A e \in Edges :
           later.edge[e] = IF ups(e) = {} THEN gr.edge[e] ELSE batch[LastOf(ups(e))].gen
      /\ \A n \in Nodes : later.node[n] =
           IF gr.node[n] = Absent /\ touching(n) # {}
           THEN [placeholder |-> TRUE, gen |-> batch[FirstOf(touching(n))].gen]
           ELSE gr.node[n]
  <2>1. \A n \in Nodes : later.node[n] =
           IF gr.node[n] = Absent /\ touching(n) # {}
           THEN [placeholder |-> TRUE, gen |-> batch[FirstOf(touching(n))].gen]
           ELSE gr.node[n]
    BY <1>0 DEF ApplyEdgeBatch
  <2>2. \A e \in Edges : later.edge[e] =
           IF EffectiveUpserts(gr, batch, e) = {} THEN gr.edge[e]
           ELSE batch[LastOf(EffectiveUpserts(gr, batch, e))].gen
    BY <1>0, <1>2 DEF ApplyEdgeBatch
  <2> QED
    BY <1>3, <2>1, <2>2
<1>5. ASSUME NEW e \in Edges
      PROVE  later.edge[e] = IF ups(e) = {} THEN gr.edge[e] ELSE g
  <2>1. ups(e) \in SUBSET (DOMAIN batch)
    BY DEF At
  <2>2. ups(e) # {} => LastOf(ups(e)) \in ups(e)
    <3> HIDE DEF ups
    <3> QED
      BY <2>1, EndsOfPositions
  <2>3. ups(e) # {} => batch[LastOf(ups(e))].gen = g
    BY <1>1, <2>1, <2>2
  <2> HIDE DEF ups, later
  <2> QED
    BY <1>4, <2>3
<1>6. \A e \in Edges : ups(e) # {} => e \in EdgesOf(g)
  BY <1>1 DEF At
<1>7. ASSUME NEW n \in Nodes, later.node[n] # gr.node[n]
      PROVE  n \in NodesOf(g) /\ gr.node[n] = Absent /\ later.node[n] # Absent
  <2>1. gr.node[n] = Absent /\ touching(n) # {}
    BY <1>4, <1>7
  <2>2. PICK e \in Edges : n \in {Src[e], Dst[e]} /\ ups(e) # {}
    BY <1>3, <2>1 DEF EndPointUpserts
  <2>3. n \in NodesOf(g)
    BY <1>6, <2>2, ClosedGraphAssumption
  <2> QED
    BY <1>7, <2>1, <2>3
<1>8. \A i \in DOMAIN batch : batch[i].id \in Edges /\ ups(batch[i].id) # {}
  BY <1>1, WindowValues DEF At
<1> HIDE DEF later, ups
<1>9. Adds(gr, later, g)
  BY <1>5, <1>6, <1>7 DEF Adds
<1>10. \A i \in DOMAIN batch : Shown("cpg.edges", later, g, batch[i].id)
  BY <1>5, <1>8 DEF Shown
<1> QED
  BY <1>9, <1>10 DEF later

LEMMA ShownStays ==
  ASSUME NEW gr, NEW later, NEW g \in Generation, NEW s \in Sinks, NEW x \in Elements(s, g),
         Adds(gr, later, g), Shown(s, gr, g, x)
  PROVE  Shown(s, later, g, x)
<1>1. Hydrated(g) # Absent /\ NodesOf(g) \subseteq Nodes /\ EdgesOf(g) \subseteq Edges
  BY WindowValues
<1> QED
  BY <1>1 DEF Adds, Shown, Elements, Sinks

-----------------------------------------------------------------------------
(***************************************************************************)
(* The inductive invariant.  A tombstone is always named by a delete in    *)
(* the topic; the rest is about a notebook that is still going.            *)
(***************************************************************************)
VerificationTypeOK ==
    /\ check \in Checks /\ replay \in BOOLEAN /\ primed \in BOOLEAN /\ clean \in BOOLEAN
    /\ dlqEnd \in Nat /\ dlqBefore \in Nat /\ dlqBefore <= dlqEnd

Typed == TypeOK /\ JobReadable /\ PipelineTypeOK /\ VerificationTypeOK

Going == check \in {"ready", "running", "nodes", "edges", "integrity", "dlq", "passed"}

NamedIn(l, type, g) == \E i \in DOMAIN l : l[i].type = type /\ l[i].gen = g

TombsNamed ==
    \A f \in Files :
        /\ \A tomb \in graph[f].nodeTombs : NamedIn(log["cpg.nodes"][f], "NODE_DELETE", tomb[2])
        /\ \A tomb \in graph[f].edgeTombs : NamedIn(log["cpg.edges"][f], "EDGE_DELETE", tomb[2])

(* The events of a file are those of its whole graph, and no deletes.      *)
IsWhole(s, batch, g) ==
    /\ \A i \in 1..Len(batch) : OwnRecord(s, g, batch[i])
    /\ \A x \in Elements(s, g) : \E i \in 1..Len(batch) : batch[i].id = x

InHand(f) == f \in todo \/ (job # NoJob /\ job.file = f)

(* One run over a new database: what is not done yet has no row, and what  *)
(* is done has the row of the content that stays on disk.                  *)
OneRun ==
    /\ \A f \in Files : disk[f] \in Contents /\ EdgesOf(Reparsed(f)) # {}
    /\ pc # "down" => check = "running"
    /\ \A f \in Files : InHand(f) => store[f] = NoRow
    /\ job # NoJob => job.content = disk[job.file] /\ job.file \notin todo
    /\ pc = "staged" => \A s \in Sinks : IsWhole(s, job.batch[s], JobGeneration)
    /\ \A f \in Files : store[f] \in {NoRow, RowFor(Reparsed(f))}
    /\ check = "ready" => \A f \in Files : store[f] = NoRow
    /\ check = "running" /\ summary.failed = 0 =>
         \A f \in Files : InHand(f) \/ store[f] # NoRow
    /\ check \notin {"ready", "running"} => \A f \in Files : store[f] # NoRow

(* The lag that a wait has seen at zero stays there.                       *)
Awaited(s) ==
    \/ s = "cpg.nodes" /\ check \in {"edges", "integrity", "dlq", "passed"}
    \/ s = "cpg.edges" /\ check \in {"integrity", "dlq", "passed"}

GroupOffsets ==
    \A f \in Files :
        /\ IsNew(f)
        /\ \A s \in Sinks :
             /\ committed[s][f] > 0
             /\ Awaited(s) => committed[s][f] = Len(log[s][f])

(* The records of this run, behind an offset that no redelivery falls      *)
(* back to: what was consumed of them shows in the graph, and they are     *)
(* complete once they are published.                                       *)
Sent(f) == store[f] # NoRow \/ (pc = "published" /\ job.file = f)

Trace(s, f, b) ==
    /\ b <= committed[s][f]
    /\ \A i \in DOMAIN log[s][f] : i > b =>
         /\ OwnRecord(s, Reparsed(f), log[s][f][i])
         /\ i <= position[s][f] => Shown(s, graph[f], Reparsed(f), log[s][f][i].id)
    /\ Sent(f) => \A x \in Elements(s, Reparsed(f)) :
         \E i \in DOMAIN log[s][f] : i > b /\ log[s][f][i].id = x

Traced == \A f \in Files : \A s \in Sinks : \E b \in Nat : Trace(s, f, b)

(* Of a graph that held no placeholders, only this run's can be any, and   *)
(* once it was found in order nothing changes its counts.                  *)
IsThere(f) ==
    /\ \A n \in NodesOf(Reparsed(f)) : graph[f].node[n] # Absent
    /\ \A e \in EdgesOf(Reparsed(f)) : graph[f].edge[e] # Absent

Steady(f) ==
    /\ Placeholders(graph[f]) \subseteq NodesOf(Reparsed(f))
    /\ replay \/ check = "dlq" => IsThere(f) /\ counts[f] = GraphCounts(f)

VerificationInv ==
    /\ Typed
    /\ check = "idle" => ~ replay
    /\ TombsNamed
    /\ Going => OneRun
    /\ Going /\ primed => GroupOffsets
    /\ Going /\ primed /\ (replay \/ clean) /\ dlqEnd = dlqBefore => Traced
    /\ Going /\ primed /\ clean /\ dlqEnd = dlqBefore => \A f \in Files : Steady(f)
    /\ check = "passed" => replay /\ dlqEnd = dlqBefore
    /\ check = "failed" /\ primed /\ clean => DlqGrew

-----------------------------------------------------------------------------
(***************************************************************************)
(* The steps.  The notebook's own change the state database only, if they  *)
(* change anything of the pipeline.                                        *)
(***************************************************************************)
CheckPasses ==
    \/ AwaitNodes \/ AwaitEdges \/ AwaitTimesOut
    \/ CheckIntegrity \/ CompareCounts \/ CheckReplayDlq

ConnectorMoves ==
    \E s \in Sinks, f \in Files : CommitOffset(s, f) \/ RestartTask(s, f)

BatchIsPut == \E s \in Sinks, f \in Files : \E k \in 1..BatchSize(s) : Put(s, f, k)

BatchIsLost ==
    \E s \in Sinks, f \in Files : \E k \in 1..BatchSize(s), m \in Nat \ {0} :
        DeadLetter(s, f, k) /\ dlqEnd' = dlqEnd + m

(* Mutants apart, this is what can happen.                                 *)
LEMMA VerificationSteps ==
  ASSUME VerificationNext, Typed
  PROVE  \/ /\ ~ Ended
            /\ ParserStep
            /\ check # "idle" => disk' = disk /\ version' = version
            /\ NotebookFollowsRun
            /\ UNCHANGED <<replay, dlqEnd, dlqBefore, counts, primed, clean>>
         \/ /\ ~ Ended
            /\ BatchIsPut \/ ConnectorMoves
            /\ UNCHANGED checkVars
         \/ /\ ~ Ended
            /\ BatchIsLost
            /\ UNCHANGED <<check, replay, dlqBefore, counts, primed, clean>>
         \/ Begin \/ CheckPasses \/ PrepareReplay
<1>1. CASE PipelineMeanwhile
  <2>1. CASE ParserStep /\ (check # "idle" => disk' = disk /\ version' = version)
             /\ NotebookFollowsRun /\ UNCHANGED dlqEnd
    BY <1>1, <2>1 DEF PipelineMeanwhile
  <2>2. ASSUME NEW s \in Sinks, NEW f \in Files,
               \/ \E k \in 1..BatchSize(s) : Put(s, f, k)
               \/ CommitOffset(s, f)
               \/ RestartTask(s, f),
               UNCHANGED <<check, dlqEnd>>
        PROVE  (BatchIsPut \/ ConnectorMoves) /\ UNCHANGED checkVars
    BY <1>1, <2>2 DEF PipelineMeanwhile, BatchIsPut, ConnectorMoves, checkVars
  <2>3. ASSUME NEW s \in Sinks, NEW f \in Files, NEW k \in 1..MaxDeadLetters,
               DeadLetter(s, f, k), dlqEnd' = dlqEnd + k
        PROVE  BatchIsLost
    <3>1. k \in Nat \ {0} /\ k \in 1..BatchSize(s)
      BY <2>3, VerificationAssumption DEF DeadLetter, Consume
    <3> QED
      BY <2>3, <3>1 DEF BatchIsLost
  <2> QED
    BY <1>1, <2>1, <2>2, <2>3 DEF PipelineMeanwhile
<1> QED
  BY <1>1 DEF VerificationNext, CheckStep, CheckPasses

LEMMA ParserStepIsNext == ASSUME ParserStep PROVE Next
  BY DEF ParserStep, OperatedRun, OperatedEdit, Next, RunNext, Environment

(* A renewed database and a moved check leave the rest typed.              *)
LEMMA StepTyped ==
  ASSUME Typed, VerificationNext
  PROVE  Typed'
<1> USE DEF Typed
<1>1. CASE /\ ParserStep /\ NotebookFollowsRun
           /\ UNCHANGED <<replay, dlqEnd, dlqBefore, counts, primed, clean>>
  <2>1. TypeOK' /\ JobReadable'
    BY <1>1, ParserStepIsNext, NextTypeOK
  <2>2. PipelineTypeOK'
    BY <1>1, ParserStepIsNext, ParserStepType DEF ParserStep
  <2>3. check' \in Checks
    BY <1>1 DEF NotebookFollowsRun, VerificationTypeOK, Checks
  <2> QED
    BY <1>1, <2>1, <2>2, <2>3 DEF VerificationTypeOK
<1>2. CASE (BatchIsPut \/ ConnectorMoves) /\ UNCHANGED checkVars
  <2>1. PipelineTypeOK' /\ UNCHANGED vars
    BY <1>2, PutType, OffsetType DEF BatchIsPut, ConnectorMoves, Put, CommitOffset, RestartTask
  <2> QED
    BY <1>2, <2>1 DEF VerificationTypeOK, checkVars, vars, TypeOK, JobReadable, JobGeneration
<1>3. CASE BatchIsLost /\ UNCHANGED <<check, replay, dlqBefore, counts, primed, clean>>
  <2>1. PipelineTypeOK' /\ UNCHANGED vars
    BY <1>3, DeadLetterType DEF BatchIsLost, DeadLetter
  <2>2. dlqEnd' \in Nat /\ dlqBefore <= dlqEnd'
    BY <1>3 DEF BatchIsLost, VerificationTypeOK
  <2> QED
    BY <1>3, <2>1, <2>2 DEF VerificationTypeOK, vars, TypeOK, JobReadable, JobGeneration
<1>4. CASE Begin
  <2>1. store' \in [Files -> Row \cup {NoRow}]
    BY <1>4 DEF Begin, NewDatabase
  <2> QED
    BY <1>4, <2>1 DEF Begin, VerificationTypeOK, Checks, runVars, histVars, sinkVars, TypeOK,
       JobReadable, JobGeneration, PipelineTypeOK
<1>5. CASE CheckPasses
  <2>1. UNCHANGED <<vars, sinkVars, replay, dlqEnd, dlqBefore, primed, clean>> /\ check' \in Checks
    BY <1>5 DEF CheckPasses, AwaitNodes, AwaitEdges, AwaitTimesOut, CheckIntegrity,
       CompareCounts, CheckReplayDlq, Checks
  <2> QED
    BY <2>1 DEF VerificationTypeOK, vars, sinkVars, TypeOK, JobReadable, JobGeneration,
       PipelineTypeOK
<1>6. CASE PrepareReplay
  <2>1. store' \in [Files -> Row \cup {NoRow}]
    BY <1>6 DEF PrepareReplay, NewDatabase, TypeOK
  <2>2. /\ check' \in Checks /\ replay' \in BOOLEAN /\ dlqBefore' \in {dlqBefore, dlqEnd}
        /\ UNCHANGED <<dlqEnd, primed, clean>>
    BY <1>6 DEF PrepareReplay, VerificationTypeOK, Checks
  <2>3. VerificationTypeOK'
    BY <2>2 DEF VerificationTypeOK
  <2> QED
    BY <1>6, <2>1, <2>3 DEF PrepareReplay, runVars, histVars, sinkVars, TypeOK,
       JobReadable, JobGeneration, PipelineTypeOK
<1> HIDE DEF Typed
<1> QED
  BY <1>1, <1>2, <1>3, <1>4, <1>5, <1>6, VerificationSteps

-----------------------------------------------------------------------------
(***************************************************************************)
(* Tombstones come of deletes.                                             *)
(***************************************************************************)
LEMMA NodeBatchTombs ==
  ASSUME NEW gr \in Graph, NEW batch \in Seq(Event)
  PROVE  /\ \A tomb \in ApplyNodeBatch(gr, batch).nodeTombs :
              tomb \in gr.nodeTombs \/ NamedIn(batch, "NODE_DELETE", tomb[2])
         /\ ApplyNodeBatch(gr, batch).edgeTombs = gr.edgeTombs
<1> DEFINE merged == MergeNodes(gr, batch)
           dead   == {n \in Nodes :
                        /\ gr.node[n] # Absent
                        /\ \E i \in At(batch, "NODE_DELETE", n) : batch[i].gen = merged[n].gen}
           later  == ApplyNodeBatch(gr, batch)
<1>0. DOMAIN gr = {"node", "edge", "nodeTombs", "edgeTombs"}
  BY DEF Graph
<1>1. later.nodeTombs = gr.nodeTombs \cup {<<n, merged[n].gen>> : n \in dead}
  BY <1>0 DEF ApplyNodeBatch
<1>2. later.edgeTombs = gr.edgeTombs
  BY <1>0 DEF ApplyNodeBatch
<1>3. \A n \in dead : NamedIn(batch, "NODE_DELETE", merged[n].gen)
  BY DEF At, NamedIn
<1> HIDE DEF merged, dead, later
<1>4. \A tomb \in later.nodeTombs : tomb \in gr.nodeTombs \/ NamedIn(batch, "NODE_DELETE", tomb[2])
  BY <1>1, <1>3
<1> QED
  BY <1>2, <1>4 DEF later

LEMMA EdgeBatchTombs ==
  ASSUME NEW gr \in Graph, NEW batch \in Seq(Event)
  PROVE  /\ \A tomb \in ApplyEdgeBatch(gr, batch).edgeTombs :
              tomb \in gr.edgeTombs \/ NamedIn(batch, "EDGE_DELETE", tomb[2])
         /\ ApplyEdgeBatch(gr, batch).nodeTombs = gr.nodeTombs
<1> DEFINE later  == ApplyEdgeBatch(gr, batch)
<1>0. DOMAIN gr = {"node", "edge", "nodeTombs", "edgeTombs"}
  BY DEF Graph
<1>1. later.edgeTombs = gr.edgeTombs \cup
           {<<batch[i].id, batch[i].gen>> :
              i \in {j \in DOMAIN batch : batch[j].type = "EDGE_DELETE"}}
  BY <1>0 DEF ApplyEdgeBatch
<1>2. later.nodeTombs = gr.nodeTombs
  BY <1>0 DEF ApplyEdgeBatch
<1> HIDE DEF later
<1>3. ASSUME NEW tomb \in later.edgeTombs, tomb \notin gr.edgeTombs
      PROVE  NamedIn(batch, "EDGE_DELETE", tomb[2])
  <2>1. PICK i \in DOMAIN batch :
          batch[i].type = "EDGE_DELETE" /\ tomb = <<batch[i].id, batch[i].gen>>
    BY <1>1, <1>3
  <2> QED
    BY <2>1 DEF NamedIn
<1> QED
  BY <1>2, <1>3 DEF later

LEMMA StepTombs ==
  ASSUME Typed, TombsNamed, VerificationNext
  PROVE  TombsNamed'
<1>0. /\ \A f \in Files : graph[f] \in Graph /\ log["cpg.nodes"][f] \in Seq(Event)
                                           /\ log["cpg.edges"][f] \in Seq(Event)
      /\ graph \in [Files -> Graph]
  BY DEF Typed, TypeOK, PipelineTypeOK, Topics
<1>1. CASE ParserStep
  <2>1. ASSUME NEW s \in {"cpg.nodes", "cpg.edges"}, NEW f \in Files, NEW type, NEW g,
               NamedIn(log[s][f], type, g)
        PROVE  NamedIn(log'[s][f], type, g)
    <3>1. PICK u \in Seq(Event) : log'[s][f] = log[s][f] \o u
      BY <1>1, ParserStepIsNext, NextAppends DEF Typed, Topics
    <3>2. PICK l \in Seq(Event) : l = log[s][f]
      BY <1>0
    <3>3. DOMAIN l \subseteq DOMAIN (l \o u) /\ \A i \in DOMAIN l : (l \o u)[i] = l[i]
      BY AppendedIs
    <3> QED
      BY <2>1, <3>1, <3>2, <3>3 DEF NamedIn
  <2> QED
    BY <1>1, <2>1 DEF TombsNamed, ParserStep, sinkVars
<1>2. CASE UNCHANGED <<graph, log>>
  BY <1>2 DEF TombsNamed
<1>3. ASSUME NEW s \in Sinks, NEW f \in Files, NEW k \in 1..BatchSize(s), Put(s, f, k)
      PROVE  TombsNamed'
  <2> DEFINE batch == Batch(s, f, k)
  <2>1. /\ Consume(s, f, k) /\ UNCHANGED log
        /\ graph' = [graph EXCEPT ![f] = IF s = "cpg.nodes" THEN ApplyNodeBatch(graph[f], batch)
                                         ELSE ApplyEdgeBatch(graph[f], batch)]
    BY <1>3 DEF Put, vars
  <2>2. /\ batch \in Seq(Event) /\ DOMAIN batch = 1..k /\ k \in Nat
        /\ position[s][f] \in Nat /\ position[s][f] + k <= Len(log[s][f])
        /\ \A i \in 1..k : batch[i] = log[s][f][position[s][f] + i]
    BY <2>1, BatchIs DEF Typed
  <2>3. ASSUME NEW type, NEW g, NamedIn(batch, type, g)
        PROVE  NamedIn(log[s][f], type, g)
    <3>1. PICK i \in 1..k : batch[i].type = type /\ batch[i].gen = g
      BY <2>2, <2>3 DEF NamedIn
    <3>2. PICK l \in Seq(Event) : l = log[s][f]
      BY <1>0 DEF Sinks
    <3>3. PICK from \in Nat : from = position[s][f]
      BY <2>2
    <3>4. from + k <= Len(l) /\ k \in Nat
      BY <2>2, <3>2, <3>3
    <3>5. from + i \in DOMAIN l
      BY <3>4
    <3>6. l[from + i] = batch[i]
      BY <2>2, <3>2, <3>3
    <3> QED
      BY <3>1, <3>2, <3>5, <3>6 DEF NamedIn
  <2> HIDE DEF batch
  <2>4. \A h \in Files : h # f => graph'[h] = graph[h]
    BY <1>0, <2>1
  <2>5. CASE s = "cpg.nodes"
    <3>1. graph'[f] = ApplyNodeBatch(graph[f], batch)
      BY <1>0, <2>1, <2>5
    <3>2. /\ \A tomb \in graph'[f].nodeTombs :
               tomb \in graph[f].nodeTombs \/ NamedIn(batch, "NODE_DELETE", tomb[2])
          /\ graph'[f].edgeTombs = graph[f].edgeTombs
      BY <1>0, <2>2, <3>1, NodeBatchTombs
    <3>3. \A tomb \in graph'[f].nodeTombs : NamedIn(log["cpg.nodes"][f], "NODE_DELETE", tomb[2])
      BY <2>3, <2>5, <3>2 DEF TombsNamed
    <3> QED
      BY <2>1, <2>4, <3>2, <3>3 DEF TombsNamed
  <2>6. CASE s = "cpg.edges"
    <3>1. graph'[f] = ApplyEdgeBatch(graph[f], batch)
      BY <1>0, <2>1, <2>6
    <3>2. /\ \A tomb \in graph'[f].edgeTombs :
               tomb \in graph[f].edgeTombs \/ NamedIn(batch, "EDGE_DELETE", tomb[2])
          /\ graph'[f].nodeTombs = graph[f].nodeTombs
      BY <1>0, <2>2, <3>1, EdgeBatchTombs
    <3>3. \A tomb \in graph'[f].edgeTombs : NamedIn(log["cpg.edges"][f], "EDGE_DELETE", tomb[2])
      BY <2>3, <2>6, <3>2 DEF TombsNamed
    <3> QED
      BY <2>1, <2>4, <3>2, <3>3 DEF TombsNamed
  <2> QED
    BY <2>5, <2>6 DEF Sinks
<1>4. CASE BatchIsPut
  BY <1>3, <1>4 DEF BatchIsPut
<1>5. CASE ConnectorMoves \/ BatchIsLost
  <2>1. UNCHANGED <<graph, log>>
    BY <1>5 DEF ConnectorMoves, BatchIsLost, CommitOffset, RestartTask, DeadLetter, vars
  <2> QED
    BY <1>2, <2>1
<1>6. CASE Begin \/ CheckPasses \/ PrepareReplay
  <2>1. UNCHANGED <<graph, log>>
    BY <1>6 DEF CheckPasses, Begin, AwaitNodes, AwaitEdges, AwaitTimesOut, CheckIntegrity,
       CompareCounts, CheckReplayDlq, PrepareReplay, vars, sinkVars
  <2> QED
    BY <1>2, <2>1
<1> QED
  BY <1>1, <1>4, <1>5, <1>6, VerificationSteps

-----------------------------------------------------------------------------
(***************************************************************************)
(* One run.                                                                *)
(***************************************************************************)
LEMMA ReparsedIs ==
  ASSUME Typed, NEW f \in Files, disk[f] \in Contents
  PROVE  /\ Reparsed(f) \in Generation
         /\ RowFor(Reparsed(f)) \in Row /\ RowFor(Reparsed(f)) # NoRow
         /\ RowNodes(RowFor(Reparsed(f))) = NodesOf(Reparsed(f))
         /\ RowEdges(RowFor(Reparsed(f))) = EdgesOf(Reparsed(f))
         /\ RowGeneration(RowFor(Reparsed(f))) = Reparsed(f)
<1>1. Reparsed(f) \in Generation
  BY DEF Typed, TypeOK, Reparsed, Generation
<1>2. RowFor(Reparsed(f)) \in Row
  BY <1>1, RowForIsRow
<1>3. RowFor(Reparsed(f)) # NoRow
  BY <1>2, RunAssumption
<1>4. RowGeneration(RowFor(Reparsed(f))) = Reparsed(f)
  BY DEF RowGeneration, RowFor, Reparsed
<1> QED
  BY <1>1, <1>2, <1>3, <1>4 DEF RowNodes, RowEdges, RowFor

(* A process that ends other than by EndRun leaves the notebook in error.  *)
LEMMA HaltIsError ==
  ASSUME check # "idle", NotebookFollowsRun, pc # "down", pc' = "down", ~ EndRun
  PROVE  check' = "error"
  BY DEF NotebookFollowsRun

(* What is staged over no row is the whole graph.                          *)
LEMMA FirstIsStagedWhole ==
  ASSUME NEW f \in Files, NEW g \in Generation,
         NEW dn \in SetToSeqs(RemovedNodes(NoRow, g)),
         NEW de \in SetToSeqs(RemovedEdges(NoRow, g))
  PROVE  /\ IsWhole("cpg.nodes", EventsToSend(f, NoRow, g, dn, de)["cpg.nodes"], g)
         /\ IsWhole("cpg.edges", EventsToSend(f, NoRow, g, dn, de)["cpg.edges"], g)
<1> DEFINE b == NodesToSend(NoRow, g, dn)
           c == EdgesToSend(NoRow, g, de)
<1>1. /\ EventsToSend(f, NoRow, g, dn, de)["cpg.nodes"] = b
      /\ EventsToSend(f, NoRow, g, dn, de)["cpg.edges"] = c
  BY DEF EventsToSend, Topics
<1>2. RemovedNodes(NoRow, g) = {} /\ RemovedEdges(NoRow, g) = {}
  BY DEF RemovedNodes, RemovedEdges, RowNodes, RowEdges
<1>3. /\ SendsDifference(b, "NODE_UPSERT", "NODE_DELETE", {}, NodesOf(g),
                         DeleteGeneration(NoRow, g), g)
      /\ SendsDifference(c, "EDGE_UPSERT", "EDGE_DELETE", {}, EdgesOf(g),
                         DeleteGeneration(NoRow, g), g)
  BY <1>2, DifferenceIsSent
<1>4. ASSUME NEW s \in Sinks, NEW q, NEW old,
             SendsDifference(q, UpsertIn(s), IF s = "cpg.nodes" THEN "NODE_DELETE" ELSE "EDGE_DELETE",
                             {}, Elements(s, g), old, g),
             Len(q) \in Nat
      PROVE  IsWhole(s, q, g)
  <2>1. PICK k \in 0..Len(q) :
          /\ \A i \in (k + 1)..Len(q) : q[i].type = UpsertIn(s) /\ q[i].gen = g
          /\ {q[i].id : i \in 1..k} = {}
          /\ {q[i].id : i \in (k + 1)..Len(q)} = Elements(s, g)
    BY <1>4 DEF SendsDifference
  <2>2. k = 0
    <3>1. SUFFICES ASSUME k # 0 PROVE FALSE
      OBVIOUS
    <3>2. 1 \in 1..k
      BY <1>4, <3>1
    <3>3. q[1].id \in {q[i].id : i \in 1..k}
      BY <3>2
    <3> QED
      BY <2>1, <3>3
  <2>3. (k + 1)..Len(q) = 1..Len(q)
    BY <2>2
  <2>4. \A i \in 1..Len(q) : q[i].id \in Elements(s, g)
    BY <2>1, <2>3
  <2>5. \A x \in Elements(s, g) : \E i \in 1..Len(q) : q[i].id = x
    BY <2>1, <2>3
  <2> QED
    BY <2>1, <2>3, <2>4, <2>5 DEF IsWhole, OwnRecord
<1>5. Len(b) \in Nat /\ Len(c) \in Nat
  <2>1. EventsToSend(f, NoRow, g, dn, de) \in [Topics -> Seq(Event)]
    BY EventsCoverGeneration
  <2> QED
    BY <1>1, <2>1 DEF Topics
<1> HIDE DEF b, c
<1>6. IsWhole("cpg.nodes", b, g)
  BY <1>3, <1>4, <1>5 DEF UpsertIn, Elements, Sinks
<1>7. IsWhole("cpg.edges", c, g)
  BY <1>3, <1>4, <1>5 DEF UpsertIn, Elements, Sinks
<1> QED
  BY <1>1, <1>6, <1>7

(* The notebook's run, step by step.                                       *)
LEMMA ParserOneRun ==
  ASSUME Typed, OneRun, Going, ParserStep, disk' = disk, version' = version,
         NotebookFollowsRun, Going'
  PROVE  OneRun'
<1> USE DEF Typed
<1>0. /\ \A f \in Files : Reparsed(f)' = Reparsed(f)
      /\ \A f \in Files : Reparsed(f) \in Generation /\ RowFor(Reparsed(f)) # NoRow
      /\ check # "idle"
      /\ pc = "down" \/ pc = "loop" <=> job = NoJob
      /\ job # NoJob => job.file \in Files /\ job \in Job /\ JobGeneration = Reparsed(job.file)
      /\ pc \in PC /\ todo \subseteq Files /\ summary \in Summary
      /\ store \in [Files -> Row \cup {NoRow}]
  <2>1. \A f \in Files : Reparsed(f) \in Generation /\ RowFor(Reparsed(f)) # NoRow
    BY ReparsedIs DEF OneRun
  <2>2. pc = "down" \/ pc = "loop" <=> job = NoJob
    BY DEF TypeOK, PC
  <2>3. job # NoJob => job.file \in Files /\ job \in Job /\ JobGeneration = Reparsed(job.file)
    BY DEF TypeOK, OneRun, JobGeneration, Reparsed, Job
  <2> QED
    BY <2>1, <2>2, <2>3 DEF Going, TypeOK, Reparsed
<1>1. ASSUME pc # "down", pc' = "down" PROVE EndRun
  <2>1. ~ EndRun => check' = "error"
    BY <1>0, <1>1, HaltIsError
  <2> QED
    BY <2>1 DEF Going
<1>2. ASSUME pc' # "down", pc # "down" PROVE check' = "running" /\ check = "running"
  BY <1>0, <1>2 DEF NotebookFollowsRun, OneRun
(* What is common to the steps that touch no rows and no work.             *)
<1>3. ASSUME UNCHANGED <<store, todo, job, summary, check>>, pc' # "down" => pc # "down",
             pc' = "staged" => pc = "staged"
      PROVE  OneRun'
  <2>1. \A f \in Files : InHand(f)' = InHand(f)
    BY <1>3 DEF InHand
  <2>2. JobGeneration' = JobGeneration
    BY <1>3 DEF JobGeneration
  <2> QED
    BY <1>0, <1>3, <2>1, <2>2 DEF OneRun
<1>4. CASE OperatedRun
  <2>1. pc = "down" /\ pc' = "loop" /\ todo' = {f \in Files : disk[f] # Missing}
        /\ UNCHANGED <<store, job>>
    BY <1>4 DEF OperatedRun, StartRun
  <2>2. check = "ready" /\ check' = "running"
    BY <1>0, <2>1 DEF NotebookFollowsRun
  <2>3. \A f \in Files : f \in todo'
    BY <2>1, CpgAssumption DEF OneRun
  <2>4. job' = NoJob /\ pc' # "staged"
    BY <1>0, <2>1
  <2>5. \A f \in Files : store'[f] = NoRow
    BY <2>1, <2>2 DEF OneRun
  <2> QED
    BY <1>0, <2>1, <2>2, <2>3, <2>4, <2>5 DEF OneRun, InHand
<1>5. ASSUME NEW f \in Files, ReadFile(f) PROVE OneRun'
  <2>1. /\ pc = "loop" /\ f \in todo /\ job' = JobFor(f, disk[f]) /\ todo' = todo \ {f}
        /\ pc' \in {"failing", "read"} /\ UNCHANGED <<store, summary>>
    BY <1>5 DEF ReadFile
  <2>2. check' = "running" /\ check = "running"
    BY <1>2, <2>1
  <2>3. job' # NoJob /\ job'.file = f /\ job'.content = disk[f] /\ job = NoJob
    <3>1. JobFor(f, disk[f]) \in Job
      <4>1. NoEvents \in [Topics -> Seq(Event)]
        BY DEF NoEvents
      <4> QED
        BY <4>1 DEF JobFor, Job, TypeOK
    <3> QED
      BY <1>0, <2>1, <3>1, RunAssumption DEF JobFor, Job
  <2>4. \A h \in Files : InHand(h)' = InHand(h)
    BY <2>1, <2>3 DEF InHand
  <2> QED
    BY <1>0, <2>1, <2>2, <2>3, <2>4 DEF OneRun
<1>6. CASE SkipUnchanged
  <2>1. store[job.file] # NoRow /\ job # NoJob
    BY <1>0, <1>6 DEF SkipUnchanged, Unchanged
  <2> QED
    BY <1>0, <2>1 DEF OneRun, InHand
<1>7. CASE ParseFails
  <2>1. UNCHANGED <<store, todo, job, summary>> /\ pc = "read" /\ pc' = "failing"
    BY <1>7 DEF ParseFails, runVars
  <2> QED
    BY <1>2, <1>3, <2>1
<1>8. ASSUME NEW p, AfterFailure(p), UNCHANGED store, pc \in {"read", "failing"} PROVE OneRun'
  <2>1. CASE failFast
    <3>1. pc' = "down" /\ pc # "down" /\ pc # "loop"
      BY <1>8, <2>1 DEF AfterFailure, Halt
    <3> QED
      BY <1>1, <3>1 DEF EndRun
  <2>2. CASE ~ failFast
    <3>1. /\ summary' = [summary EXCEPT !.failed = @ + 1] /\ pc' = "loop" /\ job' = NoJob
          /\ UNCHANGED todo /\ pc # "down"
      BY <1>8, <2>2 DEF AfterFailure
    <3>2. summary'.failed # 0
      BY <1>0, <3>1 DEF Summary
    <3>3. check' = "running"
      BY <1>2, <3>1
    <3>4. \A h \in Files : InHand(h)' => InHand(h)
      BY <3>1 DEF InHand
    <3> QED
      BY <1>0, <1>8, <3>1, <3>2, <3>3, <3>4 DEF OneRun
  <2> QED
    BY <2>1, <2>2
<1>9. CASE ParserRaises \/ ReportError \/ ReportErrorFails \/ ReportErrorDropped \/ ReportErrorRejected
  BY <1>8, <1>9 DEF ParserRaises, ReportError, ReportErrorFails, ReportErrorDropped, ReportErrorRejected
<1>10. CASE StageEvents
  <2>1. pc = "read" /\ pc' = "staged" /\ UNCHANGED <<store, todo, summary>>
    BY <1>10 DEF StageEvents, runVars
  <2>2. job # NoJob /\ check' = "running" /\ check = "running"
    BY <1>0, <1>2, <2>1
  <2>3. store[job.file] = NoRow
    BY <1>0, <2>2 DEF OneRun, InHand
  <2>4. PICK dn \in SetToSeqs(RemovedNodes(NoRow, JobGeneration)),
             de \in SetToSeqs(RemovedEdges(NoRow, JobGeneration)) :
          job' = [job EXCEPT !.batch = EventsToSend(job.file, NoRow, JobGeneration, dn, de)]
    BY <1>10, <2>3 DEF StageEvents
  <2>5. /\ job'.file = job.file /\ job'.content = job.content
        /\ job'.batch = EventsToSend(job.file, NoRow, JobGeneration, dn, de)
    BY <1>0, <2>2, <2>4 DEF Job
  <2>6. JobGeneration' = JobGeneration /\ JobGeneration \in Generation
    BY <1>0, <2>2, <2>5 DEF JobGeneration
  <2>7. \A s \in Sinks : IsWhole(s, job'.batch[s], JobGeneration)
    BY <1>0, <2>2, <2>5, <2>6, FirstIsStagedWhole DEF Sinks
  <2>8. \A h \in Files : InHand(h)' = InHand(h)
    <3>1. job' # NoJob
      BY <2>1, NextTypeOK, ParserStepIsNext DEF TypeOK
    <3> QED
      BY <2>1, <2>2, <2>5, <3>1 DEF InHand
  <2> QED
    BY <1>0, <2>1, <2>2, <2>5, <2>6, <2>7, <2>8 DEF OneRun
<1>11. CASE PublishBatch
  <2>1. UNCHANGED <<store, todo, job, summary>> /\ pc = "staged" /\ pc' = "published"
    BY <1>11 DEF PublishBatch, runVars
  <2> QED
    BY <1>2, <1>3, <2>1
<1>12. CASE CommitState
  <2>1. /\ pc = "published" /\ pc' = "loop" /\ job' = NoJob /\ UNCHANGED todo
        /\ store' = [store EXCEPT ![job.file] = RowFor(JobGeneration)]
        /\ summary' = [summary EXCEPT !.processed = @ + 1]
    BY <1>12 DEF CommitState, NextFile
  <2>2. job # NoJob /\ check' = "running" /\ check = "running"
    BY <1>0, <1>2, <2>1
  <2>3. /\ store'[job.file] = RowFor(Reparsed(job.file))
        /\ \A h \in Files : h # job.file => store'[h] = store[h]
    BY <1>0, <2>1, <2>2
  <2>4. summary'.failed = summary.failed
    BY <1>0, <2>1 DEF Summary
  <2>5. \A h \in Files : InHand(h)' <=> h \in todo
    BY <2>1 DEF InHand
  <2>6. job.file \notin todo
    BY <2>2 DEF OneRun
  <2> QED
    BY <1>0, <2>1, <2>2, <2>3, <2>4, <2>5, <2>6 DEF OneRun, InHand
<1>13. CASE EndRun
  <2>1. /\ pc = "loop" /\ todo = {} /\ pc' = "down" /\ job' = NoJob /\ todo' = {}
        /\ UNCHANGED store
    BY <1>13 DEF EndRun, Halt
  <2>2. check = "running"
    BY <2>1 DEF OneRun
  <2>3. check' = IF summary.failed = 0 THEN "nodes" ELSE "error"
    BY <1>0, <1>13, <2>1 DEF NotebookFollowsRun
  <2>4. check' = "nodes" /\ summary.failed = 0
    BY <2>3 DEF Going
  <2>5. \A f \in Files : store[f] # NoRow
    BY <1>0, <2>1, <2>2, <2>4 DEF OneRun, InHand
  <2> QED
    BY <1>0, <2>1, <2>4, <2>5 DEF OneRun, InHand
<1>14. CASE AbortBeforePublish \/ PublishFails \/ PublishRejected \/ CommitFails
  <2>1. pc # "down" /\ pc # "loop" /\ pc' = "down"
    BY <1>14 DEF AbortBeforePublish, PublishFails, PublishRejected, CommitFails, Abort, Halt
  <2> QED
    BY <1>1, <2>1 DEF EndRun
<1>15. CASE Crash
  <2>1. pc # "down" /\ pc' = "down"
    BY <1>15 DEF Crash, Halt
  <2> QED
    BY <1>1, <1>13, <2>1
<1>16. CASE Upgrade
  <2>1. version' = version + 1 /\ version \in Nat
    BY <1>16 DEF Upgrade, TypeOK, Versions
  <2> QED
    BY <2>1
<1>17. ASSUME NEW f \in Files, NEW c \in Contents \cup {Missing}, OperatedEdit(f, c) PROVE OneRun'
  <2>1. UNCHANGED <<store, todo, job, summary, pc>>
    BY <1>17 DEF OperatedEdit, Edit, runVars
  <2>2. UNCHANGED check
    BY <1>0, <2>1 DEF NotebookFollowsRun
  <2> QED
    BY <1>3, <2>1, <2>2
<1> HIDE DEF Typed
<1> QED
  BY <1>4, <1>5, <1>6, <1>7, <1>9, <1>10, <1>11, <1>12, <1>13, <1>14, <1>15, <1>16, <1>17
     DEF ParserStep, Proceed, Fault

LEMMA StepOneRun ==
  ASSUME Typed, Going => OneRun, VerificationNext, Going'
  PROVE  OneRun'
<1>1. CASE /\ ~ Ended /\ ParserStep /\ NotebookFollowsRun
           /\ check # "idle" => disk' = disk /\ version' = version
  <2>1. check # "idle"
    BY <1>1 DEF NotebookFollowsRun, Going
  <2>2. Going
    BY <1>1, <2>1 DEF Ended, Going, Typed, VerificationTypeOK, Checks
  <2> QED
    BY <1>1, <2>1, <2>2, ParserOneRun
<1>2. CASE UNCHANGED vars /\ UNCHANGED check
  <2>1. Going
    BY <1>2 DEF Going
  <2> QED
    BY <1>2, <2>1 DEF OneRun, InHand, Reparsed, JobGeneration, vars
<1>3. BatchIsPut \/ ConnectorMoves => UNCHANGED vars
  BY DEF BatchIsPut, ConnectorMoves, Put, CommitOffset, RestartTask
<1>4. BatchIsLost => UNCHANGED vars
  BY DEF BatchIsLost, DeadLetter
<1>5. CASE Begin
  <2>1. /\ pc = "down" /\ check' = "ready" /\ store' = [f \in Files |-> NoRow]
        /\ \A f \in Files : disk[f] # Missing /\ EdgesOf(Reparsed(f)) # {}
        /\ UNCHANGED <<disk, version, pc, todo, job, summary>>
    BY <1>5 DEF Begin, NewDatabase, runVars
  <2>2. job = NoJob /\ \A f \in Files : disk[f] \in Contents
    BY <2>1 DEF Typed, TypeOK
  <2> QED
    BY <2>1, <2>2 DEF OneRun, Reparsed
<1>6. CASE CheckPasses
  <2>1. /\ UNCHANGED vars
        /\ check \in {"nodes", "edges", "integrity", "dlq"}
        /\ check' \notin {"ready", "running"}
    BY <1>6 DEF CheckPasses, AwaitNodes, AwaitEdges, AwaitTimesOut, CheckIntegrity,
       CompareCounts, CheckReplayDlq
  <2>2. OneRun
    BY <2>1 DEF Going
  <2>3. pc = "down"
    BY <2>1, <2>2 DEF OneRun
  <2> QED
    BY <2>1, <2>2, <2>3 DEF OneRun, InHand, Reparsed, JobGeneration, vars
<1>7. CASE PrepareReplay
  <2>1. /\ check = "dlq" /\ check' = "ready" /\ store' = [f \in Files |-> NoRow]
        /\ UNCHANGED <<disk, version, pc, todo, job, summary>>
    BY <1>7 DEF PrepareReplay, NewDatabase, runVars, Going
  <2>2. OneRun
    BY <2>1 DEF Going
  <2>3. pc = "down"
    BY <2>1, <2>2 DEF OneRun
  <2>4. job = NoJob
    BY <2>3 DEF Typed, TypeOK
  <2> QED
    BY <2>1, <2>2, <2>3, <2>4 DEF OneRun, Reparsed
<1> QED
  BY <1>1, <1>2, <1>3, <1>4, <1>5, <1>6, <1>7, VerificationSteps DEF checkVars

(* A step of the run either leaves the topics of a file alone, or appends  *)
(* its whole graph to them, and marks it as sent by that only.             *)
LEMMA ParserAppends ==
  ASSUME Typed, OneRun, Going, ParserStep, NotebookFollowsRun, Going',
         NEW s \in Sinks, NEW f \in Files
  PROVE  \/ log'[s][f] = log[s][f] /\ (Sent(f)' => Sent(f))
         \/ \E batch \in Seq(Event) :
              log'[s][f] = log[s][f] \o batch /\ IsWhole(s, batch, Reparsed(f))
<1>1. CASE PublishBatch
  <2>1. /\ pc = "staged" /\ Deliver(job.batch) /\ UNCHANGED <<store, job>>
    BY <1>1 DEF PublishBatch
  <2>2. job \in Job /\ job # NoJob /\ job.batch \in [Topics -> Seq(Event)]
    BY <2>1, JobIs DEF Typed, TypeOK
  <2>3. /\ log'[s][job.file] = log[s][job.file] \o job.batch[s]
        /\ job.batch[s] \in Seq(Event)
        /\ f # job.file => log'[s][f] = log[s][f]
    BY <2>1, <2>2, DeliverAppends DEF Typed, Topics, Sinks
  <2>4. CASE f = job.file
    <3>1. IsWhole(s, job.batch[s], JobGeneration) /\ JobGeneration = Reparsed(f)
      BY <2>1, <2>2, <2>4 DEF OneRun, JobGeneration, Reparsed
    <3> QED
      BY <2>3, <2>4, <3>1
  <2>5. CASE f # job.file
    BY <2>1, <2>3, <2>5 DEF Sent
  <2> QED
    BY <2>4, <2>5
<1>2. CASE CommitState
  <2>1. UNCHANGED log /\ pc = "published" /\ pc' = "loop" /\ job \in Job
        /\ store' = [store EXCEPT ![job.file] = RowFor(JobGeneration)]
    BY <1>2 DEF CommitState, NextFile, Typed, TypeOK
  <2> QED
    BY <2>1 DEF Sent, Typed, TypeOK
<1>3. CASE PublishFails
  <2>1. pc = "staged" /\ pc' = "down"
    BY <1>3 DEF PublishFails, Abort, Halt
  <2>2. check' = "error"
    BY <2>1, HaltIsError DEF Going, EndRun
  <2> QED
    BY <2>2 DEF Going
<1>4. CASE UNCHANGED <<log, store>> /\ pc' # "published"
  BY <1>4 DEF Sent
<1>5. CASE UNCHANGED <<log, store, pc, job>>
  BY <1>5 DEF Sent
<1>6. CASE OperatedRun
  BY <1>4, <1>6 DEF OperatedRun, StartRun
<1>7. CASE \/ \E h \in Files : ReadFile(h)
           \/ SkipUnchanged \/ ParseFails \/ StageEvents \/ EndRun
  BY <1>4, <1>7 DEF ReadFile, SkipUnchanged, ParseFails, StageEvents, EndRun, NextFile, Halt
<1>8. CASE ParserRaises \/ ReportError \/ ReportErrorFails \/ ReportErrorDropped \/ ReportErrorRejected
  BY <1>4, <1>8 DEF ParserRaises, ReportError, ReportErrorFails, ReportErrorDropped, ReportErrorRejected,
     AfterFailure, Halt
<1>9. CASE AbortBeforePublish \/ PublishRejected \/ CommitFails \/ Crash
  BY <1>4, <1>9 DEF AbortBeforePublish, PublishRejected, CommitFails, Crash, Abort, Halt
<1>10. CASE Upgrade
  BY <1>5, <1>10 DEF Upgrade
<1>11. ASSUME NEW h \in Files, NEW c \in Contents \cup {Missing}, OperatedEdit(h, c)
       PROVE  UNCHANGED <<log, store, pc, job>>
  BY <1>11 DEF OperatedEdit, Edit
<1> QED
  BY <1>1, <1>2, <1>3, <1>5, <1>6, <1>7, <1>8, <1>9, <1>10, <1>11 DEF ParserStep, Proceed, Fault

-----------------------------------------------------------------------------
(***************************************************************************)
(* Offsets.                                                                *)
(***************************************************************************)
LEMMA GoingOn ==
  ASSUME Typed, VerificationNext, Going', ~ Begin
  PROVE  /\ Going /\ UNCHANGED <<disk, version, primed, clean>>
         /\ \A f \in Files : Reparsed(f)' = Reparsed(f)
<1>1. Going /\ UNCHANGED <<disk, version, primed, clean>>
  <2>1. CASE /\ ~ Ended /\ ParserStep /\ NotebookFollowsRun
             /\ check # "idle" => disk' = disk /\ version' = version
             /\ UNCHANGED <<primed, clean>>
    <3>1. check # "idle"
      BY <2>1 DEF NotebookFollowsRun, Going
    <3>2. Going
      BY <2>1, <3>1 DEF Ended, Going, Typed, VerificationTypeOK, Checks
    <3> QED
      BY <2>1, <3>1, <3>2
  <2>2. BatchIsPut \/ ConnectorMoves => UNCHANGED vars
    BY DEF BatchIsPut, ConnectorMoves, Put, CommitOffset, RestartTask
  <2>3. BatchIsLost => UNCHANGED vars
    BY DEF BatchIsLost, DeadLetter
  <2>4. CASE UNCHANGED vars /\ UNCHANGED <<check, primed, clean>>
    BY <2>4 DEF vars, Going
  <2>5. CASE CheckPasses
    BY <2>5 DEF CheckPasses, AwaitNodes, AwaitEdges, AwaitTimesOut, CheckIntegrity,
       CompareCounts, CheckReplayDlq, vars, Going
  <2>6. CASE PrepareReplay
    BY <2>6 DEF PrepareReplay, Going
  <2> QED
    BY <2>1, <2>2, <2>3, <2>4, <2>5, <2>6, VerificationSteps DEF checkVars
<1> QED
  BY <1>1 DEF Reparsed

(* What connectors do to the offsets.                                      *)
LEMMA ConnectorOffsets ==
  ASSUME Typed, BatchIsPut \/ ConnectorMoves \/ BatchIsLost
  PROVE  /\ UNCHANGED vars
         /\ \A s \in Sinks, f \in Files :
              committed'[s][f] = committed[s][f] \/ committed'[s][f] = position[s][f]
<1>1. CASE BatchIsPut \/ BatchIsLost
  BY <1>1 DEF BatchIsPut, BatchIsLost, Put, DeadLetter
<1>2. ASSUME NEW s \in Sinks, NEW f \in Files, RestartTask(s, f)
      PROVE  UNCHANGED <<vars, committed>>
  BY <1>2 DEF RestartTask
<1>3. ASSUME NEW s \in Sinks, NEW f \in Files, CommitOffset(s, f),
             NEW r \in Sinks, NEW h \in Files
      PROVE  committed'[r][h] = committed[r][h] \/ committed'[r][h] = position[r][h]
  <2>1. committed' = [committed EXCEPT ![s] = [committed[s] EXCEPT ![f] = position[s][f]]]
    BY <1>3 DEF CommitOffset
  <2> QED
    BY <2>1 DEF Typed, PipelineTypeOK
<1>4. ASSUME NEW s \in Sinks, NEW f \in Files, CommitOffset(s, f)
      PROVE  UNCHANGED vars
  BY <1>4 DEF CommitOffset
<1> QED
  BY <1>1, <1>2, <1>3, <1>4 DEF ConnectorMoves

LEMMA OffsetsAre ==
  ASSUME Typed, NEW s \in Sinks, NEW f \in Files
  PROVE  /\ log[s][f] \in Seq(Event) /\ Len(log[s][f]) \in Nat /\ DOMAIN log[s][f] = 1..Len(log[s][f])
         /\ committed[s][f] \in Nat /\ position[s][f] \in Nat
         /\ committed[s][f] <= position[s][f] /\ position[s][f] <= Len(log[s][f])
<1>1. log[s][f] \in Seq(Event)
  BY DEF Typed, TypeOK, Sinks, Topics
<1>2. \A l \in Seq(Event) : Len(l) \in Nat /\ DOMAIN l = 1..Len(l)
  OBVIOUS
<1> QED
  BY <1>1, <1>2 DEF Typed, PipelineTypeOK

(* A step that moves offsets of committed records, and appends none.       *)
LEMMA OffsetsStay ==
  ASSUME Typed, GroupOffsets, UNCHANGED <<disk, version, log>>,
         \A s \in Sinks : Awaited(s)' => Awaited(s),
         \A s \in Sinks, f \in Files :
            committed'[s][f] = committed[s][f] \/ committed'[s][f] = position[s][f]
  PROVE  GroupOffsets'
<1>1. \A f \in Files : IsNew(f)'
  BY DEF GroupOffsets, IsNew, Reparsed
<1>2. ASSUME NEW s \in Sinks, NEW f \in Files
      PROVE  committed'[s][f] > 0 /\ (Awaited(s)' => committed'[s][f] = Len(log'[s][f]))
  <2>1. /\ committed[s][f] \in Nat /\ position[s][f] \in Nat /\ Len(log[s][f]) \in Nat
        /\ committed[s][f] <= position[s][f] /\ position[s][f] <= Len(log[s][f])
    BY OffsetsAre
  <2>2. committed[s][f] > 0 /\ (Awaited(s)' => committed[s][f] = Len(log[s][f]))
    BY DEF GroupOffsets
  <2>3. committed'[s][f] = committed[s][f] \/ committed'[s][f] = position[s][f]
    OBVIOUS
  <2>4. committed'[s][f] > 0
    BY <2>1, <2>2, <2>3
  <2>5. Awaited(s)' => committed'[s][f] = Len(log[s][f])
    BY <2>1, <2>2, <2>3
  <2> QED
    BY <2>4, <2>5
<1> QED
  BY <1>1, <1>2 DEF GroupOffsets

LEMMA StepOffsets ==
  ASSUME VerificationInv, VerificationNext, Going', primed'
  PROVE  GroupOffsets'
<1>0. Typed
  BY DEF VerificationInv
<1>1. CASE Begin
  <2>1. /\ check' = "ready" /\ UNCHANGED <<disk, version, log, committed>>
        /\ primed' = \A f \in Files : IsNew(f) /\ \A s \in Sinks : committed[s][f] > 0
    BY <1>1 DEF Begin, sinkVars
  <2>2. \A f \in Files : IsNew(f)'
    BY <2>1 DEF IsNew, Reparsed
  <2>3. \A s \in Sinks : ~ Awaited(s)'
    BY <2>1 DEF Awaited
  <2> QED
    BY <2>1, <2>2, <2>3 DEF GroupOffsets
<1>2. CASE ~ Begin
  <2>0. /\ Going /\ UNCHANGED <<disk, version>> /\ OneRun /\ GroupOffsets
        /\ \A f \in Files : Reparsed(f)' = Reparsed(f)
    BY <1>0, <1>2, GoingOn DEF VerificationInv
  <2>1. CASE ParserStep /\ NotebookFollowsRun
    <3>1. \A s \in Sinks : Awaited(s)' => Awaited(s)
      BY <2>1 DEF NotebookFollowsRun, Awaited
    <3>2. UNCHANGED committed
      BY <2>1 DEF ParserStep, sinkVars
    <3>3. ASSUME NEW f \in Files, NEW s \in Sinks, NEW i \in DOMAIN log'[s][f],
                 log'[s][f][i].type \in {"NODE_DELETE", "EDGE_DELETE"}
          PROVE  \E j \in DOMAIN log[s][f] : log'[s][f][i] = log[s][f][j]
      <4>1. CASE log'[s][f] = log[s][f]
        BY <4>1
      <4>2. ASSUME NEW batch \in Seq(Event), log'[s][f] = log[s][f] \o batch,
                   IsWhole(s, batch, Reparsed(f))
            PROVE  \E j \in DOMAIN log[s][f] : log'[s][f][i] = log[s][f][j]
        <5>1. PICK l \in Seq(Event) : l = log[s][f]
          BY <1>0, OffsetsAre
        <5>2. \A j \in 1..Len(batch) : batch[j].type \notin {"NODE_DELETE", "EDGE_DELETE"}
          BY <4>2 DEF IsWhole, OwnRecord, UpsertIn
        <5>3. i \in DOMAIN (l \o batch) /\ (l \o batch)[i].type \in {"NODE_DELETE", "EDGE_DELETE"}
          BY <3>3, <4>2, <5>1
        <5>4. i \in 1..Len(l) /\ (l \o batch)[i] = l[i] /\ DOMAIN l = 1..Len(l)
          BY <5>2, <5>3, AppendedIs
        <5> QED
          BY <4>2, <5>1, <5>4
      <4> QED
        BY <1>0, <2>0, <2>1, <4>1, <4>2, ParserAppends
    <3>4. \A f \in Files : IsNew(f)'
      BY <2>0, <3>3 DEF GroupOffsets, IsNew, Range
    <3>5. ASSUME NEW s \in Sinks, NEW f \in Files, Awaited(s)'
          PROVE  committed[s][f] = Len(log'[s][f])
      <4>1. check \notin {"ready", "running"} /\ Awaited(s)
        BY <3>1, <3>5 DEF Awaited
      <4>2. pc = "down"
        BY <2>0, <4>1 DEF OneRun
      <4>3. ~ PublishBatch /\ ~ PublishFails
        BY <4>2 DEF PublishBatch, PublishFails
      <4>4. UNCHANGED log
        BY <2>1, <4>2 DEF ParserStep, OperatedRun, StartRun, Proceed, Fault, ReadFile, SkipUnchanged,
           ParseFails, ParserRaises, StageEvents, PublishBatch, PublishRejected, CommitState,
           ReportError, ReportErrorRejected, EndRun, AbortBeforePublish, PublishFails,
           CommitFails, ReportErrorFails, ReportErrorDropped, Crash, Upgrade, OperatedEdit, Edit
      <4> QED
        BY <2>0, <4>1, <4>4 DEF GroupOffsets
    <3> QED
      BY <2>0, <3>2, <3>4, <3>5 DEF GroupOffsets
  <2>2. CASE (BatchIsPut \/ ConnectorMoves \/ BatchIsLost) /\ UNCHANGED check
    <3>1. UNCHANGED log
      BY <1>0, <2>2, ConnectorOffsets DEF vars
    <3>2. \A s \in Sinks : Awaited(s)' => Awaited(s)
      BY <2>2 DEF Awaited
    <3> QED
      BY <1>0, <2>0, <2>2, <3>1, <3>2, ConnectorOffsets, OffsetsStay
  <2>3. CASE CheckPasses
    <3>1. UNCHANGED <<disk, version, log, committed>>
      BY <2>3 DEF CheckPasses, AwaitNodes, AwaitEdges, AwaitTimesOut, CheckIntegrity,
         CompareCounts, CheckReplayDlq, vars, sinkVars
    <3>2. CASE \A s \in Sinks : Awaited(s)' => Awaited(s)
      BY <1>0, <2>0, <3>1, <3>2, OffsetsStay
    <3>3. ASSUME NEW s \in Sinks, ZeroLag(s), check' \in {"edges", "integrity"},
                 \A r \in Sinks : Awaited(r)' => Awaited(r) \/ r = s
          PROVE  GroupOffsets'
      <4>1. \A f \in Files : committed[s][f] = Len(log[s][f])
        <5> SUFFICES ASSUME NEW f \in Files PROVE committed[s][f] = Len(log[s][f])
          OBVIOUS
        <5>1. committed[s][f] > 0
          BY <2>0 DEF GroupOffsets
        <5>2. committed[s][f] \in Nat /\ Len(log[s][f]) \in Nat
          BY <1>0, OffsetsAre
        <5>3. Len(log[s][f]) - committed[s][f] = 0
          BY <3>3, <5>1, <5>2 DEF ZeroLag, ReportedLag
        <5> QED
          BY <5>2, <5>3
      <4> QED
        BY <2>0, <3>1, <3>3, <4>1 DEF GroupOffsets, IsNew
    <3>4. CASE AwaitNodes
      <4>1. ZeroLag("cpg.nodes") /\ check' = "edges"
        BY <3>4 DEF AwaitNodes
      <4> QED
        BY <3>3, <4>1 DEF Awaited, Sinks
    <3>5. CASE AwaitEdges
      <4>1. ZeroLag("cpg.edges") /\ check' = "integrity" /\ check = "edges"
        BY <3>5 DEF AwaitEdges
      <4> QED
        BY <3>3, <4>1 DEF Awaited, Sinks
    <3>6. CASE AwaitTimesOut \/ CheckIntegrity \/ CompareCounts \/ CheckReplayDlq
      <4>1. \A s \in Sinks : Awaited(s)' => Awaited(s)
        BY <3>6 DEF AwaitTimesOut, CheckIntegrity, CompareCounts, CheckReplayDlq, Awaited
      <4> QED
        BY <3>2, <4>1
    <3> QED
      BY <2>3, <3>4, <3>5, <3>6 DEF CheckPasses
  <2>4. CASE PrepareReplay
    <3>1. UNCHANGED <<disk, version, log, committed>> /\ check' = "ready"
      BY <2>4 DEF PrepareReplay, sinkVars, Going
    <3>2. \A s \in Sinks : ~ Awaited(s)'
      BY <3>1 DEF Awaited
    <3> QED
      BY <1>0, <2>0, <3>1, <3>2, OffsetsStay
  <2> QED
    BY <1>0, <1>2, <2>1, <2>2, <2>3, <2>4, VerificationSteps DEF checkVars
<1> QED
  BY <1>1, <1>2

-----------------------------------------------------------------------------
(***************************************************************************)
(* Traces.                                                                 *)
(***************************************************************************)
LEMMA NewIsUntombed ==
  ASSUME TombsNamed, GroupOffsets, NEW f \in Files
  PROVE  Untombed(graph[f], Reparsed(f))
<1> SUFFICES ASSUME NEW x, <<x, Reparsed(f)>> \in graph[f].nodeTombs \cup graph[f].edgeTombs
             PROVE  FALSE
  BY DEF Untombed
<1>1. <<x, Reparsed(f)>>[2] = Reparsed(f)
  OBVIOUS
<1>2. \/ NamedIn(log["cpg.nodes"][f], "NODE_DELETE", Reparsed(f))
      \/ NamedIn(log["cpg.edges"][f], "EDGE_DELETE", Reparsed(f))
  BY <1>1 DEF TombsNamed
<1>3. PICK s \in Sinks : \E i \in DOMAIN log[s][f] :
        /\ log[s][f][i].type \in {"NODE_DELETE", "EDGE_DELETE"}
        /\ log[s][f][i].gen = Reparsed(f)
  BY <1>2 DEF NamedIn, Sinks
<1> QED
  BY <1>3 DEF GroupOffsets, IsNew, Range

(* A run begins behind all that was consumed for good.                     *)
LEMMA RunBegins ==
  ASSUME Typed, UNCHANGED <<log, committed>>, pc' # "published",
         \A f \in Files : store'[f] = NoRow,
         \A s \in Sinks, f \in Files : committed[s][f] = Len(log[s][f])
  PROVE  Traced'
<1> SUFFICES ASSUME NEW f \in Files, NEW s \in Sinks PROVE \E b \in Nat : Trace(s, f, b)'
  BY DEF Traced
<1>1. /\ log[s][f] \in Seq(Event) /\ Len(log[s][f]) \in Nat
      /\ DOMAIN log[s][f] = 1..Len(log[s][f])
  BY OffsetsAre
<1>2. \A i \in DOMAIN log[s][f] : ~ (i > Len(log[s][f]))
  BY <1>1
<1>3. Len(log[s][f]) <= committed[s][f]
  BY <1>1
<1>4. ~ Sent(f)'
  BY DEF Sent
<1>5. Trace(s, f, Len(log[s][f]))'
  BY <1>2, <1>3, <1>4 DEF Trace
<1> QED
  BY <1>1, <1>5

LEMMA ParserTraced ==
  ASSUME Typed, OneRun, Going, ParserStep, NotebookFollowsRun, Going', UNCHANGED <<disk, version>>,
         Traced
  PROVE  Traced'
<1> SUFFICES ASSUME NEW f \in Files, NEW s \in Sinks PROVE \E b \in Nat : Trace(s, f, b)'
  BY DEF Traced
<1>1. PICK b \in Nat : Trace(s, f, b)
  BY DEF Traced
<1>2. UNCHANGED <<graph, position, committed>> /\ Reparsed(f)' = Reparsed(f)
  BY DEF ParserStep, sinkVars, Reparsed
<1>3. CASE log'[s][f] = log[s][f] /\ (Sent(f)' => Sent(f))
  <2>1. Trace(s, f, b)'
    BY <1>1, <1>2, <1>3 DEF Trace
  <2> QED
    BY <2>1
<1>4. ASSUME NEW batch \in Seq(Event), log'[s][f] = log[s][f] \o batch,
             IsWhole(s, batch, Reparsed(f))
      PROVE  Trace(s, f, b)'
  <2>1. PICK l \in Seq(Event) : l = log[s][f]
    BY OffsetsAre
  <2>2. /\ position[s][f] \in Nat /\ position[s][f] <= Len(l) /\ Len(l) \in Nat
        /\ committed[s][f] \in Nat /\ committed[s][f] <= position[s][f]
    BY <2>1, OffsetsAre
  <2>3. b <= Len(l)
    BY <1>1, <2>2 DEF Trace
  <2>4. log'[s][f] = l \o batch
    BY <1>4, <2>1
  <2>5. ASSUME NEW i \in DOMAIN (l \o batch), i > b
        PROVE  /\ OwnRecord(s, Reparsed(f), (l \o batch)[i])
               /\ i <= position[s][f] => Shown(s, graph[f], Reparsed(f), (l \o batch)[i].id)
    <3>1. CASE i \in 1..Len(l)
      <4>1. i \in DOMAIN l /\ (l \o batch)[i] = l[i]
        BY <3>1, AppendedIs
      <4> QED
        BY <1>1, <2>1, <2>5, <4>1 DEF Trace
    <3>2. CASE i \notin 1..Len(l)
      <4>1. i - Len(l) \in 1..Len(batch) /\ (l \o batch)[i] = batch[i - Len(l)]
        BY <3>2, AppendedIs
      <4>2. i \in Nat
        BY AppendedIs
      <4>3. ~ (i <= position[s][f])
        BY <2>2, <4>1, <4>2
      <4> QED
        BY <1>4, <4>1, <4>3 DEF IsWhole
    <3> QED
      BY <3>1, <3>2
  <2>6. ASSUME NEW x \in Elements(s, Reparsed(f))
        PROVE  \E i \in DOMAIN (l \o batch) : i > b /\ (l \o batch)[i].id = x
    <3>1. PICK j \in 1..Len(batch) : batch[j].id = x
      BY <1>4 DEF IsWhole
    <3>2. Len(l) + j \in DOMAIN (l \o batch) /\ (l \o batch)[Len(l) + j] = batch[j]
      BY AppendedIs
    <3>3. Len(l) + j > b
      BY <2>2, <2>3
    <3> QED
      BY <3>1, <3>2, <3>3
  <2> QED
    BY <1>1, <1>2, <2>4, <2>5, <2>6 DEF Trace
<1> QED
  BY <1>3, <1>4, ParserAppends

(* What a batch of the run's records does.                                 *)
LEMMA PutAdds ==
  ASSUME Typed, OneRun, TombsNamed, GroupOffsets, Traced,
         NEW s \in Sinks, NEW f \in Files, NEW k \in 1..BatchSize(s), Put(s, f, k)
  PROVE  /\ UNCHANGED <<vars, committed>> /\ k \in Nat
         /\ \A h \in Files : Adds(graph[h], graph'[h], Reparsed(h))
         /\ position'[s][f] = position[s][f] + k
         /\ \A r \in Sinks, h \in Files : r # s \/ h # f => position'[r][h] = position[r][h]
         /\ \A i \in DOMAIN log[s][f] :
              i > position[s][f] /\ i <= position[s][f] + k =>
                Shown(s, graph'[f], Reparsed(f), log[s][f][i].id)
<1> DEFINE batch == Batch(s, f, k)
           g == Reparsed(f)
<1>1. /\ Consume(s, f, k) /\ UNCHANGED <<vars, committed>>
      /\ graph' = [graph EXCEPT ![f] = IF s = "cpg.nodes" THEN ApplyNodeBatch(graph[f], batch)
                                       ELSE ApplyEdgeBatch(graph[f], batch)]
  BY DEF Put
<1>2. /\ batch \in Seq(Event) /\ DOMAIN batch = 1..k /\ k \in Nat
      /\ position[s][f] \in Nat /\ position[s][f] + k <= Len(log[s][f])
      /\ \A i \in 1..k : batch[i] = log[s][f][position[s][f] + i]
      /\ position'[s][f] = position[s][f] + k
      /\ \A r \in Sinks, h \in Files : r # s \/ h # f => position'[r][h] = position[r][h]
  BY <1>1, BatchIs DEF Typed
<1>3. g \in Generation /\ graph[f] \in Graph /\ graph \in [Files -> Graph] /\ Untombed(graph[f], g)
  BY ReparsedIs, NewIsUntombed DEF OneRun, Typed, PipelineTypeOK
<1>4. PICK b \in Nat : Trace(s, f, b)
  BY DEF Traced
<1>5. DOMAIN log[s][f] = 1..Len(log[s][f]) /\ Len(log[s][f]) \in Nat
      /\ committed[s][f] \in Nat /\ committed[s][f] <= position[s][f]
  BY OffsetsAre
<1>6. b <= position[s][f]
  BY <1>2, <1>4, <1>5 DEF Trace
<1> HIDE DEF batch, g
<1>7. \A i \in DOMAIN batch : OwnRecord(s, g, batch[i])
  <2> SUFFICES ASSUME NEW i \in 1..k PROVE OwnRecord(s, g, batch[i])
    BY <1>2
  <2>1. position[s][f] + i \in DOMAIN log[s][f] /\ position[s][f] + i > b
    <3>1. PICK from \in Nat, end \in Nat :
            from = position[s][f] /\ end = Len(log[s][f]) /\ DOMAIN log[s][f] = 1..end
      BY <1>2, <1>5
    <3>2. from + k <= end /\ b <= from /\ k \in Nat
      BY <1>2, <1>6, <3>1
    <3>3. from + i \in 1..end /\ from + i > b
      BY <3>2
    <3> QED
      BY <3>1, <3>3
  <2>2. OwnRecord(s, g, log[s][f][position[s][f] + i])
    BY <1>4, <2>1 DEF Trace, g
  <2> QED
    BY <1>2, <2>2
<1>8. Adds(graph[f], graph'[f], g) /\ \A i \in DOMAIN batch : Shown(s, graph'[f], g, batch[i].id)
  <2>1. CASE s = "cpg.nodes"
    <3>1. graph'[f] = ApplyNodeBatch(graph[f], batch)
      BY <1>1, <1>3, <2>1
    <3> QED
      BY <1>2, <1>3, <1>7, <2>1, <3>1, NodeUpsertsAdd
  <2>2. CASE s = "cpg.edges"
    <3>1. graph'[f] = ApplyEdgeBatch(graph[f], batch)
      BY <1>1, <1>3, <2>2
    <3> QED
      BY <1>2, <1>3, <1>7, <2>2, <3>1, EdgeUpsertsAdd
  <2> QED
    BY <2>1, <2>2 DEF Sinks
<1>9. \A h \in Files : h # f => graph'[h] = graph[h]
  BY <1>1, <1>3
<1>10. \A h \in Files : Adds(graph[h], graph'[h], Reparsed(h))
  <2> SUFFICES ASSUME NEW h \in Files PROVE Adds(graph[h], graph'[h], Reparsed(h))
    OBVIOUS
  <2>1. CASE h = f
    BY <1>8, <2>1 DEF g
  <2>2. CASE h # f
    BY <1>9, <2>2 DEF Adds
  <2> QED
    BY <2>1, <2>2
<1>11. ASSUME NEW i \in DOMAIN log[s][f], i > position[s][f], i <= position[s][f] + k
       PROVE  Shown(s, graph'[f], g, log[s][f][i].id)
  <2>1. i - position[s][f] \in 1..k /\ position[s][f] + (i - position[s][f]) = i
    BY <1>2, <1>5, <1>11
  <2>2. batch[i - position[s][f]] = log[s][f][i]
    BY <1>2, <2>1
  <2> QED
    BY <1>2, <1>8, <2>1, <2>2
<1> QED
  BY <1>1, <1>2, <1>10, <1>11 DEF g

LEMMA PutTraced ==
  ASSUME Typed, OneRun, TombsNamed, GroupOffsets, Traced,
         NEW s \in Sinks, NEW f \in Files, NEW k \in 1..BatchSize(s), Put(s, f, k)
  PROVE  Traced'
<1> SUFFICES ASSUME NEW h \in Files, NEW r \in Sinks PROVE \E b \in Nat : Trace(r, h, b)'
  BY DEF Traced
<1>1. PICK b \in Nat : Trace(r, h, b)
  BY DEF Traced
<1>2. /\ UNCHANGED <<vars, committed>> /\ k \in Nat
      /\ Adds(graph[h], graph'[h], Reparsed(h))
      /\ position'[s][f] = position[s][f] + k
      /\ r # s \/ h # f => position'[r][h] = position[r][h]
      /\ \A i \in DOMAIN log[s][f] :
           i > position[s][f] /\ i <= position[s][f] + k =>
             Shown(s, graph'[f], Reparsed(f), log[s][f][i].id)
  BY PutAdds
<1>3. Reparsed(h) \in Generation
  BY ReparsedIs DEF OneRun
<1>4. UNCHANGED <<log, committed>> /\ Reparsed(h)' = Reparsed(h) /\ Sent(h)' = Sent(h)
  BY <1>2 DEF vars, Reparsed, Sent
<1>5. ASSUME NEW i \in DOMAIN log[r][h], i > b, i <= position'[r][h]
      PROVE  Shown(r, graph'[h], Reparsed(h), log[r][h][i].id)
  <2>1. OwnRecord(r, Reparsed(h), log[r][h][i])
    BY <1>1, <1>5 DEF Trace
  <2>2. log[r][h][i].id \in Elements(r, Reparsed(h))
    BY <2>1 DEF OwnRecord
  <2>3. CASE i <= position[r][h]
    <3>1. Shown(r, graph[h], Reparsed(h), log[r][h][i].id)
      BY <1>1, <1>5, <2>3 DEF Trace
    <3> QED
      BY <1>2, <1>3, <2>2, <3>1, ShownStays
  <2>4. CASE ~ (i <= position[r][h])
    <3>1. r = s /\ h = f
      BY <1>2, <1>5, <2>4
    <3>2. i > position[s][f] /\ i <= position[s][f] + k
      <4>1. i \in Nat /\ position[r][h] \in Nat
        BY OffsetsAre
      <4> QED
        BY <1>2, <1>5, <2>4, <3>1, <4>1
    <3> QED
      BY <1>2, <3>1, <3>2
  <2> QED
    BY <2>3, <2>4
<1>6. Trace(r, h, b)'
  BY <1>1, <1>4, <1>5 DEF Trace
<1> QED
  BY <1>6

(* Commits reach what was consumed, and redelivery falls back to a commit. *)
LEMMA OffsetsTraced ==
  ASSUME Typed, Traced, ConnectorMoves
  PROVE  Traced'
<1>1. PICK s \in Sinks, f \in Files : CommitOffset(s, f) \/ RestartTask(s, f)
  BY DEF ConnectorMoves
<1> SUFFICES ASSUME NEW h \in Files, NEW r \in Sinks PROVE \E b \in Nat : Trace(r, h, b)'
  BY DEF Traced
<1>2. PICK b \in Nat : Trace(r, h, b)
  BY DEF Traced
<1>3. /\ committed[r][h] \in Nat /\ position[r][h] \in Nat /\ committed[r][h] <= position[r][h]
      /\ DOMAIN log[r][h] \subseteq Nat
  BY OffsetsAre
<1>4. /\ UNCHANGED <<vars, graph>> /\ committed'[r][h] \in Nat /\ committed'[r][h] >= committed[r][h]
      /\ position'[r][h] \in Nat /\ position'[r][h] <= position[r][h]
  <2>1. CASE CommitOffset(s, f)
    <3>1. /\ committed' = [committed EXCEPT ![s] = [committed[s] EXCEPT ![f] = position[s][f]]]
          /\ UNCHANGED <<vars, graph, position>>
      BY <2>1 DEF CommitOffset
    <3>2. committed'[r][h] = committed[r][h] \/ committed'[r][h] = position[r][h]
      BY <3>1 DEF Typed, PipelineTypeOK
    <3> QED
      BY <1>3, <3>1, <3>2
  <2>2. CASE RestartTask(s, f)
    <3>1. /\ position' = [position EXCEPT ![s] = [position[s] EXCEPT ![f] = committed[s][f]]]
          /\ UNCHANGED <<vars, graph, committed>>
      BY <2>2 DEF RestartTask
    <3>2. position'[r][h] = position[r][h] \/ position'[r][h] = committed[r][h]
      BY <3>1 DEF Typed, PipelineTypeOK
    <3> QED
      BY <1>3, <3>1, <3>2
  <2> QED
    BY <1>1, <2>1, <2>2
<1>5. UNCHANGED log /\ Reparsed(h)' = Reparsed(h) /\ Sent(h)' = Sent(h)
  BY <1>4 DEF vars, Reparsed, Sent
<1>6. b <= committed'[r][h]
  BY <1>2, <1>3, <1>4 DEF Trace
<1>7. \A i \in DOMAIN log[r][h] : i <= position'[r][h] => i <= position[r][h]
  BY <1>3, <1>4
<1>8. Trace(r, h, b)'
  BY <1>2, <1>4, <1>5, <1>6, <1>7 DEF Trace
<1> QED
  BY <1>8

(* A history of dead letters that is still empty after a step was before,  *)
(* and the step lost none.                                                 *)
LEMMA StillLossless ==
  ASSUME Typed, UNCHANGED dlqBefore, dlqEnd' = dlqBefore',
         dlqEnd' = dlqEnd \/ BatchIsLost
  PROVE  dlqEnd = dlqBefore /\ ~ BatchIsLost
<1>1. dlqEnd \in Nat /\ dlqBefore \in Nat /\ dlqBefore <= dlqEnd
  BY DEF Typed, VerificationTypeOK
<1>2. BatchIsLost => \E m \in Nat \ {0} : dlqEnd' = dlqEnd + m
  BY DEF BatchIsLost
<1> QED
  BY <1>1, <1>2

LEMMA StepTraced ==
  ASSUME VerificationInv, VerificationNext, Going', primed', replay' \/ clean', dlqEnd' = dlqBefore'
  PROVE  Traced'
<1>0. Typed
  BY DEF VerificationInv
<1>1. CASE Begin
  <2>1. /\ UNCHANGED <<log, committed, replay>> /\ check = "idle" /\ pc' = "down"
        /\ clean' => \A f \in Files : \A s \in Sinks : committed[s][f] = Len(log[s][f])
        /\ \A f \in Files : store'[f] = NoRow
    BY <1>1 DEF Begin, NewDatabase, sinkVars
  <2>2. clean'
    BY <2>1 DEF VerificationInv
  <2> QED
    BY <1>0, <2>1, <2>2, RunBegins
<1>2. CASE ~ Begin
  <2>0. /\ Going /\ UNCHANGED <<disk, version, primed, clean>> /\ OneRun /\ GroupOffsets /\ TombsNamed
        /\ \A f \in Files : Reparsed(f)' = Reparsed(f)
    BY <1>0, <1>2, GoingOn DEF VerificationInv
  <2>1. CASE PrepareReplay
    <3>1. /\ check = "dlq" /\ UNCHANGED <<log, committed, pc>> /\ check' # "failed"
      BY <2>1 DEF PrepareReplay, Going, sinkVars
    <3>2. \A f \in Files : store'[f] = NoRow
      BY <2>1, <3>1 DEF PrepareReplay, NewDatabase
    <3>3. pc' # "published"
      BY <2>0, <3>1 DEF OneRun
    <3>4. \A s \in Sinks, f \in Files : committed[s][f] = Len(log[s][f])
      BY <2>0, <3>1 DEF GroupOffsets, Awaited, Sinks
    <3> QED
      BY <1>0, <3>1, <3>2, <3>3, <3>4, RunBegins
  <2>2. ASSUME UNCHANGED <<replay, dlqBefore>>, dlqEnd' = dlqEnd \/ BatchIsLost
        PROVE  Traced /\ ~ BatchIsLost
    <3>1. dlqEnd = dlqBefore /\ ~ BatchIsLost
      BY <1>0, <2>2, StillLossless
    <3> QED
      BY <2>0, <2>2, <3>1 DEF VerificationInv
  <2>3. CASE ParserStep /\ NotebookFollowsRun /\ UNCHANGED <<replay, dlqEnd, dlqBefore>>
    BY <1>0, <2>0, <2>2, <2>3, ParserTraced
  <2>4. CASE BatchIsPut /\ UNCHANGED checkVars
    <3>1. Traced
      BY <2>2, <2>4 DEF checkVars
    <3> QED
      BY <1>0, <2>0, <2>4, <3>1, PutTraced DEF BatchIsPut
  <2>5. CASE ConnectorMoves /\ UNCHANGED checkVars
    <3>1. Traced
      BY <2>2, <2>5 DEF checkVars
    <3> QED
      BY <1>0, <2>5, <3>1, OffsetsTraced
  <2>6. CASE BatchIsLost /\ UNCHANGED <<check, replay, dlqBefore>>
    BY <2>2, <2>6
  <2>7. CASE CheckPasses
    <3>1. UNCHANGED <<vars, sinkVars, replay, dlqEnd, dlqBefore>>
      BY <2>7 DEF CheckPasses, AwaitNodes, AwaitEdges, AwaitTimesOut, CheckIntegrity,
         CompareCounts, CheckReplayDlq
    <3>2. Traced
      BY <2>2, <3>1
    <3>3. UNCHANGED <<store, pc, job, log, graph, position, committed>>
      BY <3>1 DEF vars, sinkVars
    <3>4. \A f \in Files : Sent(f)' = Sent(f)
      BY <3>3 DEF Sent
    <3>5. ASSUME NEW f \in Files, NEW s \in Sinks, NEW b \in Nat, Trace(s, f, b)
          PROVE  Trace(s, f, b)'
      BY <2>0, <3>3, <3>4, <3>5 DEF Trace
    <3> QED
      BY <3>2, <3>5 DEF Traced
  <2> QED
    BY <1>0, <1>2, <2>1, <2>3, <2>4, <2>5, <2>6, <2>7, VerificationSteps
<1> QED
  BY <1>1, <1>2

-----------------------------------------------------------------------------
(***************************************************************************)
(* Counts.                                                                 *)
(***************************************************************************)
(* Once the waits are over, the graph is the parsed one.                   *)
LEMMA AwaitedIsShown ==
  ASSUME Typed, OneRun, GroupOffsets, Traced, check \in {"integrity", "dlq", "passed"},
         NEW f \in Files, NEW s \in Sinks, NEW x \in Elements(s, Reparsed(f))
  PROVE  Shown(s, graph[f], Reparsed(f), x)
<1>1. PICK b \in Nat : Trace(s, f, b)
  BY DEF Traced
<1>2. Sent(f)
  BY DEF OneRun, Sent
<1>3. PICK i \in DOMAIN log[s][f] : i > b /\ log[s][f][i].id = x
  BY <1>1, <1>2 DEF Trace
<1>4. committed[s][f] = Len(log[s][f])
  BY DEF GroupOffsets, Awaited, Sinks
<1>5. i <= position[s][f]
  <2>1. /\ DOMAIN log[s][f] = 1..Len(log[s][f]) /\ Len(log[s][f]) \in Nat
        /\ position[s][f] \in Nat /\ committed[s][f] <= position[s][f]
    BY OffsetsAre
  <2> QED
    BY <1>4, <2>1
<1> QED
  BY <1>1, <1>3, <1>5 DEF Trace

LEMMA AwaitedIsThere ==
  ASSUME Typed, OneRun, GroupOffsets, Traced, check \in {"integrity", "dlq", "passed"}, NEW f \in Files
  PROVE  /\ \A n \in NodesOf(Reparsed(f)) : graph[f].node[n] = Hydrated(Reparsed(f))
         /\ \A e \in EdgesOf(Reparsed(f)) : graph[f].edge[e] = Reparsed(f)
         /\ IsThere(f)
<1>1. \A n \in NodesOf(Reparsed(f)) : graph[f].node[n] = Hydrated(Reparsed(f))
  <2>1. "cpg.nodes" \in Sinks /\ NodesOf(Reparsed(f)) = Elements("cpg.nodes", Reparsed(f))
    BY DEF Sinks, Elements
  <2> QED
    BY <2>1, AwaitedIsShown DEF Shown
<1>2. \A e \in EdgesOf(Reparsed(f)) : graph[f].edge[e] = Reparsed(f)
  <2>1. "cpg.edges" \in Sinks /\ EdgesOf(Reparsed(f)) = Elements("cpg.edges", Reparsed(f))
    BY DEF Sinks, Elements
  <2> QED
    BY <2>1, AwaitedIsShown DEF Shown
<1>3. Reparsed(f) \in Generation
  BY ReparsedIs DEF OneRun
<1>4. Hydrated(Reparsed(f)) # Absent /\ Reparsed(f) # Absent
  BY <1>3, WindowValues, SinkAssumption
<1> QED
  BY <1>1, <1>2, <1>4 DEF IsThere

(* What is there is counted.                                               *)
LEMMA CountsArePositive ==
  ASSUME NEW f \in Files, Reparsed(f) \in Generation, EdgesOf(Reparsed(f)) # {}, IsThere(f)
  PROVE  GraphCounts(f).node > 0 /\ GraphCounts(f).edge > 0
<1>1. PICK e \in EdgesOf(Reparsed(f)) : TRUE
  OBVIOUS
<1>2. e \in Edges /\ Src[e] \in NodesOf(Reparsed(f)) /\ Src[e] \in Nodes
  BY <1>1, WindowValues, ClosedGraphAssumption
<1>3. ASSUME NEW S, NEW T, IsFiniteSet(S), T \subseteq S, T # {}
      PROVE  Cardinality(T) > 0
  <2>1. IsFiniteSet(T)
    BY <1>3, FS_Subset
  <2>2. Cardinality(T) \in Nat /\ Cardinality(T) # 0
    BY <1>3, <2>1, FS_CardinalityType, FS_EmptySet
  <2> QED
    BY <2>2
<1>4. Cardinality({n \in Nodes : graph[f].node[n] # Absent}) > 0
  <2>1. Src[e] \in {n \in Nodes : graph[f].node[n] # Absent}
    BY <1>2 DEF IsThere
  <2>2. {n \in Nodes : graph[f].node[n] # Absent} # {} /\ IsFiniteSet(Nodes)
    BY <2>1, CpgAssumption
  <2> QED
    BY <1>3, <2>2
<1>5. Cardinality({d \in Edges : graph[f].edge[d] # Absent}) > 0
  <2>1. e \in {d \in Edges : graph[f].edge[d] # Absent}
    BY <1>1, <1>2 DEF IsThere
  <2>2. {d \in Edges : graph[f].edge[d] # Absent} # {} /\ IsFiniteSet(Edges)
    BY <2>1, CpgAssumption
  <2> QED
    BY <1>3, <2>2
<1> QED
  BY <1>4, <1>5 DEF GraphCounts

(* The run's records hydrate placeholders, leave some of their own at most,*)
(* and add nothing to a graph that has all of the file.                    *)
LEMMA AddsSteady ==
  ASSUME NEW f \in Files, Reparsed(f) \in Generation, Steady(f),
         Adds(graph[f], graph'[f], Reparsed(f)),
         UNCHANGED <<disk, version, replay, check, counts>>
  PROVE  Steady(f)'
<1> DEFINE g == Reparsed(f)
<1>1. /\ Hydrated(g) # Absent /\ ~ Hydrated(g).placeholder /\ g # Absent
      /\ NodesOf(g) \subseteq Nodes /\ EdgesOf(g) \subseteq Edges
  BY WindowValues, SinkAssumption DEF Hydrated
<1>2. Reparsed(f)' = g
  BY DEF Reparsed
<1> HIDE DEF g
<1>3. Placeholders(graph'[f]) \subseteq NodesOf(g)
  <2> SUFFICES ASSUME NEW n \in Placeholders(graph'[f]), n \notin NodesOf(g) PROVE FALSE
    OBVIOUS
  <2>1. n \in Nodes /\ graph'[f].node[n] = graph[f].node[n]
    BY DEF Adds, Placeholders, g
  <2>2. n \in Placeholders(graph[f])
    BY <2>1 DEF Placeholders
  <2> QED
    BY <2>2 DEF Steady, g
<1>4. ASSUME IsThere(f)
      PROVE  IsThere(f)' /\ GraphCounts(f)' = GraphCounts(f)
  <2>1. \A n \in Nodes : graph'[f].node[n] = Absent <=> graph[f].node[n] = Absent
    BY <1>1, <1>4 DEF Adds, IsThere, g
  <2>2. \A e \in Edges : graph'[f].edge[e] = Absent <=> graph[f].edge[e] = Absent
    BY <1>1, <1>4 DEF Adds, IsThere, g
  <2>3. IsThere(f)'
    BY <1>1, <1>2, <1>4, <2>1, <2>2 DEF IsThere, g
  <2>4. /\ {n \in Nodes : graph'[f].node[n] # Absent} = {n \in Nodes : graph[f].node[n] # Absent}
        /\ {e \in Edges : graph'[f].edge[e] # Absent} = {e \in Edges : graph[f].edge[e] # Absent}
    BY <2>1, <2>2
  <2> QED
    BY <2>3, <2>4 DEF GraphCounts
<1> QED
  BY <1>2, <1>3, <1>4 DEF Steady, g

(* The same of steps that leave the graph alone.                           *)
LEMMA SteadyStays ==
  ASSUME NEW f \in Files, Steady(f), UNCHANGED <<graph, disk, version, counts>>,
         replay' \/ check' = "dlq" => replay \/ check = "dlq"
  PROVE  Steady(f)'
<1>1. Reparsed(f)' = Reparsed(f) /\ GraphCounts(f)' = GraphCounts(f)
  BY DEF Reparsed, GraphCounts
<1>2. IsThere(f) => IsThere(f)'
  BY <1>1 DEF IsThere
<1> QED
  BY <1>1, <1>2 DEF Steady

LEMMA StepSteady ==
  ASSUME VerificationInv, VerificationNext, Going', primed', clean', dlqEnd' = dlqBefore',
         NEW f \in Files
  PROVE  Steady(f)'
<1>0. Typed
  BY DEF VerificationInv
<1>1. CASE Begin
  <2>1. /\ UNCHANGED <<graph, replay>> /\ check = "idle" /\ check' = "ready"
        /\ clean' => Placeholders(graph[f]) = {}
    BY <1>1 DEF Begin, sinkVars
  <2> QED
    BY <2>1 DEF VerificationInv, Steady
<1>2. CASE ~ Begin
  <2>0. /\ Going /\ UNCHANGED <<disk, version, primed, clean>> /\ OneRun /\ GroupOffsets /\ TombsNamed
    BY <1>0, <1>2, GoingOn DEF VerificationInv
  <2>1. CASE PrepareReplay
    <3>1. /\ check = "dlq" /\ UNCHANGED <<graph, disk, version, counts, dlqEnd>> /\ ~ DlqGrew
      BY <2>1 DEF PrepareReplay, Going, sinkVars
    <3>2. dlqEnd = dlqBefore
      BY <1>0, <3>1 DEF DlqGrew, DlqDelta, Typed, VerificationTypeOK
    <3>3. Steady(f)
      BY <2>0, <3>2 DEF VerificationInv
    <3> QED
      BY <3>1, <3>3, SteadyStays
  <2>2. ASSUME UNCHANGED <<replay, dlqBefore>>, dlqEnd' = dlqEnd \/ BatchIsLost
        PROVE  Traced /\ Steady(f) /\ ~ BatchIsLost
    <3>1. dlqEnd = dlqBefore /\ ~ BatchIsLost
      BY <1>0, <2>2, StillLossless
    <3> QED
      BY <2>0, <2>2, <3>1 DEF VerificationInv
  <2>3. CASE ParserStep /\ NotebookFollowsRun
             /\ UNCHANGED <<replay, dlqEnd, dlqBefore, counts>>
    <3>1. check' = "dlq" => check = "dlq"
      BY <2>3 DEF NotebookFollowsRun
    <3>2. UNCHANGED graph
      BY <2>3 DEF ParserStep, sinkVars
    <3> QED
      BY <2>0, <2>2, <2>3, <3>1, <3>2, SteadyStays
  <2>4. CASE BatchIsPut /\ UNCHANGED checkVars
    <3>1. Traced /\ Steady(f) /\ UNCHANGED <<replay, check, counts>>
      BY <2>2, <2>4 DEF checkVars
    <3>2. Adds(graph[f], graph'[f], Reparsed(f))
      BY <1>0, <2>0, <2>4, <3>1, PutAdds DEF BatchIsPut
    <3>3. Reparsed(f) \in Generation
      BY <1>0, <2>0, ReparsedIs DEF OneRun
    <3> QED
      BY <2>0, <3>1, <3>2, <3>3, AddsSteady
  <2>5. CASE ConnectorMoves /\ UNCHANGED checkVars
    <3>1. Steady(f) /\ UNCHANGED <<replay, check, counts>>
      BY <2>2, <2>5 DEF checkVars
    <3>2. UNCHANGED graph
      BY <2>5 DEF ConnectorMoves, CommitOffset, RestartTask
    <3> QED
      BY <2>0, <3>1, <3>2, SteadyStays
  <2>6. CASE BatchIsLost /\ UNCHANGED <<check, replay, dlqBefore>>
    BY <2>2, <2>6
  <2>7. CASE CheckPasses
    <3>1. /\ UNCHANGED <<graph, replay, dlqEnd, dlqBefore>>
          /\ Reparsed(f)' = Reparsed(f) /\ GraphCounts(f)' = GraphCounts(f)
      BY <2>0, <2>7 DEF CheckPasses, AwaitNodes, AwaitEdges, AwaitTimesOut, CheckIntegrity,
         CompareCounts, CheckReplayDlq, sinkVars, Reparsed, GraphCounts
    <3>2. Traced /\ Steady(f)
      BY <2>2, <3>1
    <3>3. CASE CheckIntegrity
      <4>1. check = "integrity" /\ counts'[f] = GraphCounts(f)
        BY <3>3 DEF CheckIntegrity
      <4>2. IsThere(f)
        BY <1>0, <2>0, <3>2, <4>1, AwaitedIsThere
      <4>3. IsThere(f)'
        BY <3>1, <4>2 DEF IsThere
      <4>4. Placeholders(graph'[f]) \subseteq NodesOf(Reparsed(f)')
        BY <3>1, <3>2 DEF Steady
      <4> QED
        BY <3>1, <4>1, <4>3, <4>4 DEF Steady
    <3>4. CASE CompareCounts \/ CheckReplayDlq
      <4>1. replay /\ UNCHANGED counts
        BY <3>4 DEF CompareCounts, CheckReplayDlq
      <4> QED
        BY <2>0, <3>1, <3>2, <4>1, SteadyStays
    <3>5. CASE AwaitNodes \/ AwaitEdges \/ AwaitTimesOut
      <4>1. check' # "dlq" /\ UNCHANGED counts
        BY <3>5 DEF AwaitNodes, AwaitEdges, AwaitTimesOut
      <4> QED
        BY <2>0, <3>1, <3>2, <4>1, SteadyStays
    <3> QED
      BY <2>7, <3>3, <3>4, <3>5 DEF CheckPasses
  <2> QED
    BY <1>0, <1>2, <2>1, <2>3, <2>4, <2>5, <2>6, <2>7, VerificationSteps
<1> QED
  BY <1>1, <1>2

-----------------------------------------------------------------------------
(***************************************************************************)
(* Verdicts.                                                               *)
(***************************************************************************)
(* A verdict is given by the step of a check.                              *)
LEMMA VerdictIsGiven ==
  ASSUME Typed, VerificationNext, check' \in {"passed", "failed"}
  PROVE  \/ check' = "failed" /\ CheckIntegrity
         \/ check' = "failed" /\ CompareCounts
         \/ check' = "failed" /\ PrepareReplay
         \/ CheckReplayDlq
<1>1. ~ Begin /\ ~ AwaitNodes /\ ~ AwaitEdges /\ ~ AwaitTimesOut
  BY DEF Begin, AwaitNodes, AwaitEdges, AwaitTimesOut
<1>2. ~ (~ Ended /\ UNCHANGED check)
  BY DEF Ended
<1>3. ~ (~ Ended /\ NotebookFollowsRun)
  BY <1>2 DEF NotebookFollowsRun
<1>4. CheckIntegrity \/ CompareCounts \/ PrepareReplay => check' # "passed"
  BY DEF CheckIntegrity, CompareCounts, PrepareReplay
<1> QED
  BY <1>1, <1>2, <1>3, <1>4, VerificationSteps DEF CheckPasses, checkVars

LEMMA StepPassed ==
  ASSUME VerificationInv, VerificationNext, check' = "passed"
  PROVE  replay' /\ dlqEnd' = dlqBefore'
<1>1. Typed
  BY DEF VerificationInv
<1>2. CheckReplayDlq
  BY <1>1, VerdictIsGiven
<1>3. replay /\ ~ DlqGrew /\ UNCHANGED <<replay, dlqEnd, dlqBefore>>
  BY <1>2 DEF CheckReplayDlq
<1> QED
  BY <1>1, <1>3 DEF DlqGrew, DlqDelta, Typed, VerificationTypeOK

LEMMA StepFailed ==
  ASSUME VerificationInv, VerificationNext, check' = "failed", primed', clean'
  PROVE  DlqGrew'
<1>0. Typed
  BY DEF VerificationInv
<1>1. /\ Going /\ UNCHANGED <<primed, clean, dlqEnd, dlqBefore>>
      /\ CheckIntegrity \/ CompareCounts \/ PrepareReplay \/ CheckReplayDlq
  <2>1. CheckIntegrity \/ CompareCounts \/ PrepareReplay \/ CheckReplayDlq
    BY <1>0, VerdictIsGiven
  <2> QED
    BY <2>1 DEF CheckIntegrity, CompareCounts, PrepareReplay, CheckReplayDlq, Going
<1>2. DlqGrew' = DlqGrew
  BY <1>1 DEF DlqGrew, DlqDelta
<1> SUFFICES ASSUME ~ DlqGrew PROVE FALSE
  BY <1>2
<1>3. dlqEnd = dlqBefore
  BY <1>0 DEF DlqGrew, DlqDelta, Typed, VerificationTypeOK
<1>4. OneRun /\ GroupOffsets /\ Traced /\ \A f \in Files : Steady(f)
  BY <1>1, <1>3 DEF VerificationInv
<1>5. CASE CheckIntegrity
  <2> SUFFICES ASSUME NEW f \in Files
               PROVE  /\ GraphCounts(f).node > 0 /\ GraphCounts(f).edge > 0
                      /\ Placeholders(graph[f]) = {}
    BY <1>5 DEF CheckIntegrity
  <2>1. /\ \A n \in NodesOf(Reparsed(f)) : graph[f].node[n] = Hydrated(Reparsed(f))
        /\ IsThere(f)
    BY <1>0, <1>4, <1>5, AwaitedIsThere DEF CheckIntegrity
  <2>2. GraphCounts(f).node > 0 /\ GraphCounts(f).edge > 0
    BY <1>0, <1>4, <2>1, ReparsedIs, CountsArePositive DEF OneRun
  <2>3. Placeholders(graph[f]) = {}
    BY <1>4, <2>1 DEF Steady, Placeholders, Hydrated
  <2> QED
    BY <2>2, <2>3
<1>6. CASE CompareCounts
  BY <1>4, <1>6 DEF CompareCounts, Steady
<1>7. CASE PrepareReplay \/ CheckReplayDlq
  BY <1>7 DEF PrepareReplay, CheckReplayDlq
<1> QED
  BY <1>1, <1>5, <1>6, <1>7

LEMMA InitVerificationInv ==
  ASSUME PipelineInit, VerificationInit
  PROVE  VerificationInv
<1>1. TypeOK /\ JobReadable
  BY InitTypeOK DEF PipelineInit
<1>2. PipelineTypeOK
  BY InitPipelineType
<1>3. check = "idle" /\ replay = FALSE /\ primed = FALSE /\ clean = FALSE
  BY DEF VerificationInit
<1>4. VerificationTypeOK
  <2>1. dlqEnd = 0 /\ dlqBefore = 0
    BY DEF VerificationInit
  <2>2. /\ check \in Checks
        /\ replay \in BOOLEAN /\ primed \in BOOLEAN /\ clean \in BOOLEAN
    BY <1>3 DEF Checks
  <2>3. dlqEnd \in Nat /\ dlqBefore \in Nat /\ dlqBefore <= dlqEnd
    BY <2>1
  <2> QED
    BY <2>2, <2>3 DEF VerificationTypeOK
<1>5. TombsNamed
  BY DEF PipelineInit, EmptyGraph, TombsNamed
<1> QED
  BY <1>1, <1>2, <1>3, <1>4, <1>5 DEF VerificationInv, Typed, Going

LEMMA NextVerificationInv ==
  ASSUME VerificationInv, VerificationNext
  PROVE  VerificationInv'
<1>1. Typed
  BY DEF VerificationInv
<1>2. Typed' /\ TombsNamed'
  BY <1>1, StepTyped, StepTombs DEF VerificationInv
<1>3. check' = "idle" => ~ replay'
  <2>1. /\ check' = "idle" => check = "idle" /\ (replay' = replay \/ PrepareReplay)
        /\ PrepareReplay => check = "dlq"
    BY <1>1, VerificationSteps DEF NotebookFollowsRun, checkVars, Begin, CheckPasses, AwaitNodes,
       AwaitEdges, AwaitTimesOut, CheckIntegrity, CompareCounts, CheckReplayDlq, PrepareReplay
  <2> QED
    BY <2>1 DEF VerificationInv
<1>4. Going' => OneRun'
  BY <1>1, StepOneRun DEF VerificationInv
<1> QED
  BY <1>2, <1>3, <1>4, StepOffsets, StepTraced, StepSteady, StepPassed, StepFailed
     DEF VerificationInv

LEMMA VerdictsFollow ==
  ASSUME VerificationInv
  PROVE  VerdictIsSound
<1> SUFFICES ASSUME primed, check = "passed", NEW f \in Files
             PROVE  HoldsNodes(f) /\ HoldsEdges(f)
  BY DEF VerificationInv, VerdictIsSound
<1>1. Typed /\ OneRun /\ GroupOffsets /\ Traced
  BY DEF VerificationInv, Going
<1>2. /\ \A n \in NodesOf(Reparsed(f)) : graph[f].node[n] = Hydrated(Reparsed(f))
      /\ \A e \in EdgesOf(Reparsed(f)) : graph[f].edge[e] = Reparsed(f)
      /\ IsThere(f)
  BY <1>1, AwaitedIsThere
<1>3. disk[f] \in Contents /\ store[f] = RowFor(Reparsed(f))
  BY <1>1 DEF OneRun
<1>4. /\ RowNodes(store[f]) = NodesOf(Reparsed(f)) /\ RowEdges(store[f]) = EdgesOf(Reparsed(f))
      /\ RowGeneration(store[f]) = Reparsed(f)
  BY <1>1, <1>3, ReparsedIs
<1>5. HoldsNodes(f)
  BY <1>2, <1>4 DEF HoldsNodes, Placeholders, Hydrated, IsThere
<1>6. HoldsEdges(f)
  BY <1>2, <1>4 DEF HoldsEdges
<1> QED
  BY <1>5, <1>6

-----------------------------------------------------------------------------
(***************************************************************************)
(* The steps.  A notebook that begins renews the state database, and the   *)
(* Spark job may fail; all else is a step of the parser process or leaves  *)
(* it alone.                                                               *)
(***************************************************************************)
Renewed ==
    /\ store' = [f \in Files |-> NoRow]
    /\ UNCHANGED <<disk, edits, version, log, errors, pc, job, producer, faults,
                   runVars, histVars>>

JobFails ==
    /\ faults' = faults + 1
    /\ UNCHANGED <<envVars, store, log, errors, pc, job, producer, runVars, histVars>>

LEMMA InspectionStepIs ==
  ASSUME InspectionNext
  PROVE  /\ [Next]_vars \/ Renewed
         /\ tool = "script" => [Next]_vars
         /\ tool' = tool
<1> USE DEF runVars, histVars, windowVars, readVars, inspectionHistory
<1>1. CASE ParserMeanwhile
  BY <1>1 DEF ParserMeanwhile
<1>2. CASE OpenWindow \/ AskBefore \/ CloseWindow \/ AskAfter
  BY <1>2 DEF OpenWindow, AskBefore, CloseWindow, AskAfter
<1>3. CASE Listen \/ PollNothing \/ ListeningBreaks
  BY <1>3 DEF Listen, PollNothing, ListeningBreaks
<1>4. CASE \E t \in Streams, f \in Files : PollRecord(t, f)
  BY <1>4 DEF PollRecord
<1>5. CASE NotebookBegins
  BY <1>5 DEF NotebookBegins, Renewed
<1>6. CASE NotebookReads \/ NotebookCompares
  BY <1>6 DEF NotebookReads, NotebookCompares
<1> QED
  BY <1>1, <1>2, <1>3, <1>4, <1>5, <1>6 DEF InspectionNext, InspectionStep

LEMMA VerificationStepIs ==
  ASSUME VerificationNext
  PROVE  [Next]_vars \/ Renewed
<1> USE DEF runVars, histVars
<1>1. CASE PipelineMeanwhile
  <2>1. ParserStep => Next
    BY DEF ParserStep, OperatedRun, OperatedEdit, Next, RunNext, Environment
  <2>2. ASSUME NEW s, NEW f, NEW k, Put(s, f, k) \/ CommitOffset(s, f) \/ RestartTask(s, f) \/ DeadLetter(s, f, k)
        PROVE  UNCHANGED vars
    BY <2>2 DEF Put, CommitOffset, RestartTask, DeadLetter
  <2> QED
    BY <1>1, <2>1, <2>2 DEF PipelineMeanwhile
<1>2. CASE Begin
  BY <1>2 DEF Begin, NewDatabase, Renewed
<1>3. CASE \/ AwaitNodes \/ AwaitEdges \/ AwaitTimesOut
           \/ CheckIntegrity \/ CompareCounts \/ CheckReplayDlq
  BY <1>3 DEF AwaitNodes, AwaitEdges, AwaitTimesOut, CheckIntegrity, CompareCounts, CheckReplayDlq
<1>4. CASE PrepareReplay
  BY <1>4 DEF PrepareReplay, NewDatabase, Renewed, vars
<1> QED
  BY <1>1, <1>2, <1>3, <1>4 DEF VerificationNext, CheckStep

LEMMA DocumentStepIs ==
  ASSUME DocumentNext
  PROVE  [Next]_vars \/ JobFails
<1>1. CASE Execute
  BY <1>1 DEF Execute, Next
<1>2. CASE EditSource
  <2>1. PICK c \in Contents : Edit(target_file, c)
    BY <1>2 DEF EditSource
  <2> QED
    BY <2>1, DocumentAssumption DEF Next, Environment
<1>3. CASE \/ CaptureBaseline \/ ReadFirst \/ ReadSecond \/ OthersPublish
           \/ LoadBaseline \/ ResumeCheckpoint \/ LoadSecond
  BY <1>3 DEF CaptureBaseline, ReadFirst, ReadSecond, OthersPublish, LoadBaseline,
     ResumeCheckpoint, LoadSecond, SparkTakes
<1>4. CASE SparkFails
  BY <1>4 DEF SparkFails, JobFails
<1> QED
  BY <1>1, <1>2, <1>3, <1>4 DEF DocumentNext

(* The task is chosen once, and only that of the topics has the script.    *)
TaskInv ==
    /\ task \in Tasks /\ tool \in {"script", "notebook"}
    /\ task # "topics" => tool = "notebook" /\ stage = "idle"

LEMMA LiveStepIs ==
  ASSUME TaskInv, [LiveNext]_liveVars
  PROVE  /\ [Next]_vars \/ Renewed \/ JobFails
         /\ tool = "script" => [Next]_vars
         /\ TaskInv'
         /\ (task = "topics" /\ InspectionNext) \/ UNCHANGED inspectionVars
<1>1. CASE task = "topics" /\ InspectionNext /\ UNCHANGED task
  BY <1>1, InspectionStepIs DEF TaskInv
<1>2. CASE task = "graph" /\ VerificationNext /\ UNCHANGED <<inspectionVars, task>>
  BY <1>2, VerificationStepIs DEF TaskInv, inspectionVars
<1>3. CASE task = "documents" /\ DocumentNext /\ UNCHANGED <<inspectionVars, task>>
  BY <1>3, DocumentStepIs DEF TaskInv, inspectionVars
<1>4. CASE UNCHANGED liveVars
  BY <1>4 DEF liveVars, TaskInv, inspectionVars
<1> QED
  BY <1>1, <1>2, <1>3, <1>4 DEF LiveNext

-----------------------------------------------------------------------------
(***************************************************************************)
(* What is known of the parser process carries over.                       *)
(***************************************************************************)
ParserTyped == TypeOK /\ JobReadable

LEMMA OthersKeepTypes ==
  ASSUME ParserTyped, Renewed \/ JobFails
  PROVE  ParserTyped'
<1>1. CASE Renewed
  <2>1. store' \in [Files -> Row \cup {NoRow}]
    BY <1>1 DEF Renewed
  <2> QED
    BY <1>1, <2>1 DEF Renewed, ParserTyped, TypeOK, JobReadable, runVars, histVars
<1>2. CASE JobFails
  <2>1. faults' \in Nat
    BY <1>2 DEF JobFails, ParserTyped, TypeOK
  <2> QED
    BY <1>2, <2>1 DEF JobFails, ParserTyped, TypeOK, JobReadable, envVars, runVars, histVars
<1> QED
  BY <1>1, <1>2

ScriptInv == tool = "script" => LogInv /\ MetadataInv

LiveBase == TaskInv /\ ParserTyped /\ ScriptInv

LEMMA InitLiveBase == LiveInit => LiveBase
<1> SUFFICES ASSUME LiveInit PROVE LiveBase
  OBVIOUS
<1>1. Init
  BY DEF LiveInit, PipelineInit
<1>2. TaskInv
  BY DEF LiveInit, InspectionInit, TaskInv
<1> QED
  BY <1>1, <1>2, InitTypeOK, InitLog, InitMetadata DEF LiveBase, ParserTyped, ScriptInv

LEMMA NextLiveBase ==
  ASSUME LiveBase, [LiveNext]_liveVars
  PROVE  LiveBase'
<1>0. /\ [Next]_vars \/ Renewed \/ JobFails
      /\ tool = "script" => [Next]_vars
      /\ TaskInv'
  BY LiveStepIs DEF LiveBase
<1>1. ParserTyped'
  BY <1>0, OthersKeepTypes, NextTypeOK DEF LiveBase, ParserTyped
<1>2. tool' = tool
  <2>1. (task = "topics" /\ InspectionNext) \/ UNCHANGED inspectionVars
    BY LiveStepIs DEF LiveBase
  <2> QED
    BY <2>1, InspectionStepIs DEF inspectionVars
<1>3. ScriptInv'
  BY <1>0, <1>2, NextLog, NextMetadata DEF LiveBase, ParserTyped, ScriptInv
<1> QED
  BY <1>0, <1>1, <1>3 DEF LiveBase

-----------------------------------------------------------------------------
(***************************************************************************)
(* The notebook and its rerun.  The first run ends with every file current *)
(* or is a failure; from then on, while nothing is edited or upgraded, the *)
(* files stay current, so that the second run can only skip them, and the  *)
(* offsets asked before and after it are those of one and the same log.    *)
(***************************************************************************)
Current(f) == Unchanged(store[f], <<disk[f], version>>)

AllCurrent == \A f \in Files : disk[f] # Missing => Current(f)

Asked(k, window) == \A i \in 1..k : window[TopicOrder[i]] = EndOffsets(TopicOrder[i])

(* A run that has counted no failure has dealt with every file but those   *)
(* left and the one at hand.                                               *)
RunCovers ==
    \A f \in Files : disk[f] # Missing =>
        f \in todo \/ (job # NoJob /\ job.file = f) \/ Current(f)

FirstRun ==
    /\ stage = "running" => /\ job # NoJob => job.content = disk[job.file]
                            /\ summary.failed = 0 => RunCovers
    /\ stage \in {"ran", "after", "closed"} => AllCurrent

Rerun ==
    second /\ ~ Over =>
        /\ AllCurrent
        /\ stage = "running" => pc \in {"loop", "read"} /\ \A f \in todo : disk[f] # Missing
        /\ stage \in {"before", "after"} => asked \in 0..3
        /\ stage = "before" => Asked(asked, before)
        /\ stage # "before" => Asked(4, before)
        /\ stage = "after" => Asked(asked, after)
        /\ stage = "closed" => Asked(4, after)

JobGenerations == (Contents \cup {Missing}) \X Versions

Report == [type : {"PARSER_ERROR"}, id : Files, gen : JobGenerations]

WindowTyped ==
    /\ reports \in [Files -> Seq(Report)]
    /\ before \in [Streams -> [Files -> Nat]]
    /\ after \in [Streams -> [Files -> Nat]]
    /\ stage = "idle" => ~ second

NotebookInv ==
    NotebookBusy =>
        /\ stage \notin {"idle", "reading"}
        /\ stage = "failed" => ~ calm
        /\ ~ Over => (pc # "down" <=> stage = "running")
        /\ calm => FirstRun /\ Rerun

LEMMA StreamsAre ==
  /\ Topics \subseteq Streams /\ "parser.errors" \notin Topics
  /\ \A t \in Streams : t \in Topics \/ t = "parser.errors"
  /\ \A t \in Topics : \A f : Stream(t, f) = log[t][f]
  /\ \A f : Stream("parser.errors", f) = reports[f]
BY DEF Streams, Topics, Stream

LEMMA EndOffsetsTyped ==
  ASSUME TypeOK, WindowTyped, NEW t \in Streams
  PROVE  EndOffsets(t) \in [Files -> Nat]
<1>1. CASE t \in Topics
  <2>1. \A f \in Files : log[t][f] \in Seq(Event)
    BY <1>1 DEF TypeOK
  <2> QED
    BY <1>1, <2>1, StreamsAre DEF EndOffsets
<1>2. CASE t = "parser.errors"
  <2>1. \A f \in Files : Len(reports[f]) \in Nat
    BY DEF WindowTyped
  <2> QED
    BY <1>2, <2>1, StreamsAre DEF EndOffsets
<1> QED
  BY <1>1, <1>2, StreamsAre

(* Only the report of a failed parse is sent to parser.errors.             *)
LEMMA ReportsStay ==
  ASSUME ReportsFollow, pc # "failing"
  PROVE  UNCHANGED reports
  BY DEF ReportsFollow, ReportLands, ReportError, ReportErrorFails

LEMMA EndOffsetsStay ==
  ASSUME UNCHANGED <<log, reports>>
  PROVE  \A t : EndOffsets(t)' = EndOffsets(t)
  BY DEF EndOffsets, Stream

LEMMA EndOffsetsOfTopics ==
  ASSUME UNCHANGED log
  PROVE  \A i \in 1..3 : EndOffsets(TopicOrder[i])' = EndOffsets(TopicOrder[i])
  BY DEF EndOffsets, Stream, TopicOrder

LEMMA TopicOrderIs ==
  /\ Len(TopicOrder) = 4
  /\ TopicOrder[1] = "cpg.nodes" /\ TopicOrder[2] = "cpg.edges"
  /\ TopicOrder[3] = "source.metadata" /\ TopicOrder[4] = "parser.errors"
  /\ \A t \in Topics : \E i \in 1..3 : TopicOrder[i] = t
  /\ \A t \in Streams : \E i \in 1..4 : TopicOrder[i] = t
  /\ \A i \in 1..4 : TopicOrder[i] \in Streams
  /\ \A i, j \in 1..4 : i # j => TopicOrder[i] # TopicOrder[j]
BY DEF TopicOrder, Topics, Streams

(* The next topic is asked.                                                *)
LEMMA AskedNext ==
  ASSUME TypeOK, NEW window \in [Streams -> [Files -> Nat]], NEW k \in 0..3, Asked(k, window)
  PROVE  Asked(k + 1, [window EXCEPT ![TopicOrder[k + 1]] = EndOffsets(TopicOrder[k + 1])])
<1>1. k + 1 \in 1..4
  OBVIOUS
<1>2. \A i \in 1..k : i \in 1..4 /\ i # k + 1
  OBVIOUS
<1>3. \A i \in 1..(k + 1) : i \in 1..k \/ i = k + 1
  OBVIOUS
<1>4. TopicOrder[k + 1] \in Streams /\ \A i \in 1..k : TopicOrder[i] # TopicOrder[k + 1]
  BY <1>1, <1>2, TopicOrderIs
<1>5. \A i \in 1..k : TopicOrder[i] \in Streams
  BY <1>2, TopicOrderIs
<1> QED
  BY <1>3, <1>4, <1>5 DEF Asked

LEMMA AllAsked ==
  ASSUME TypeOK, WindowTyped, Asked(4, before), Asked(4, after)
  PROVE  after = before
<1>1. \A t \in Streams : after[t] = before[t]
  BY TopicOrderIs DEF Asked
<1> QED
  BY <1>1 DEF WindowTyped

LEMMA PcFromDown ==
  ASSUME Next, pc = "down"
  PROVE  pc' \in {"down", "loop"} /\ (pc' = "loop" => StartRun)
<1>1. ~ Fault /\ ~ Proceed
  BY DEF Fault, Proceed, AbortBeforePublish, PublishFails, CommitFails, ReportErrorFails, ReportErrorDropped, Crash,
     ReadFile, SkipUnchanged, ParseFails, ParserRaises, StageEvents, PublishBatch,
     PublishRejected, CommitState, ReportError, ReportErrorRejected, EndRun
<1> QED
  BY <1>1 DEF Next, RunNext, StartRun, Environment, Edit, Upgrade

LEMMA AllCurrentFrame ==
  ASSUME UNCHANGED <<disk, version, store>>
  PROVE  AllCurrent' = AllCurrent /\ \A f \in Files : Current(f)' = Current(f)
  BY DEF AllCurrent, Current

(* A file in hand that is current is only skipped.                         *)
LEMMA CurrentIsSkipped ==
  ASSUME ParserTyped, AllCurrent, pc = "read", job.content = disk[job.file]
  PROVE  Unchanged(store[job.file], JobGeneration)
<1>1. job.file \in Files /\ job.content # Missing
  BY JobIs DEF ParserTyped, JobReadable
<1> QED
  BY <1>1 DEF AllCurrent, Current, JobGeneration

(* The steps of a run of the notebook, calm before and after.              *)
LEMMA NotebookRuns ==
  ASSUME ParserTyped, NotebookInv, NotebookBusy, calm, calm', stage = "running", pc # "down",
         Next, NotebookFollows, Remember, ReportsFollow, UNCHANGED <<tool, windowVars>>
  PROVE  /\ FirstRun' /\ Rerun'
         /\ stage' \in {"running", "ran", "aborted"}
         /\ pc' # "down" <=> stage' = "running"
<1> USE DEF ParserTyped, windowVars
<1>a. UNCHANGED <<disk, version>>
  BY DEF Remember
<1>b. FirstRun /\ Rerun
  BY DEF NotebookInv
<1>c. /\ job # NoJob => job.content = disk[job.file]
      /\ summary.failed = 0 => RunCovers
  BY <1>b DEF FirstRun
<1>d. second => /\ AllCurrent /\ pc \in {"loop", "read"}
                /\ \A f \in todo : disk[f] # Missing
                /\ Asked(4, before)
  BY <1>b DEF Rerun, Over
<1>e. ASSUME pc' = "down", ~ EndRun \/ summary.failed # 0
      PROVE  FirstRun' /\ Rerun' /\ stage' = "aborted"
  BY <1>e DEF NotebookFollows, RunEnds, FirstRun, Rerun, Over
<1>f. ASSUME pc' # "down" PROVE stage' = "running"
  BY <1>f DEF NotebookFollows, RunEnds
<1>0. /\ pc' = "down" => stage' \in {"ran", "aborted"}
      /\ pc' # "down" => stage' = "running"
  BY <1>f DEF NotebookFollows, RunEnds
<1>g. ASSUME UNCHANGED log PROVE second => second' /\ Asked(4, before)'
  <2>1. second => UNCHANGED reports
    BY <1>d, ReportsStay
  <2> QED
    BY <1>d, <1>g, <2>1, EndOffsetsStay DEF Asked
<1>h. ASSUME pc' # "down", UNCHANGED log, UNCHANGED store \/ ~ second,
             second => pc' \in {"loop", "read"} /\ todo' \subseteq todo
      PROVE  Rerun'
  <2> SUFFICES ASSUME second PROVE Rerun'
    BY DEF Rerun
  <2>1. AllCurrent'
    BY <1>a, <1>d, <1>h, AllCurrentFrame
  <2> QED
    BY <1>a, <1>d, <1>f, <1>g, <1>h, <2>1 DEF Rerun
<1>i. ASSUME pc' # "down", ~ second PROVE Rerun'
  BY <1>i DEF Rerun
<1>j. ASSUME pc' # "down",
             job' # NoJob => job'.content = disk[job'.file],
             summary'.failed = 0 => RunCovers'
      PROVE  FirstRun'
  BY <1>a, <1>f, <1>j DEF FirstRun
<1>k. CASE EndRun /\ summary.failed = 0
  <2>1. pc' = "down" /\ job = NoJob /\ todo = {} /\ UNCHANGED <<log, store>>
    BY <1>k DEF EndRun, Halt, TypeOK
  <2>2. stage' = "ran"
    BY <1>k, <2>1 DEF NotebookFollows, RunEnds
  <2>3. AllCurrent
    BY <1>c, <1>k, <2>1 DEF RunCovers, AllCurrent
  <2>4. AllCurrent'
    BY <1>a, <2>1, <2>3, AllCurrentFrame
  <2> QED
    BY <1>g, <2>1, <2>2, <2>4 DEF FirstRun, Rerun
<1>l. CASE EndRun /\ summary.failed # 0
  BY <1>e, <1>l DEF EndRun, Halt
<1>m. ASSUME NEW f \in Files, ReadFile(f) PROVE FirstRun' /\ Rerun' /\ pc' # "down"
  <2>1. /\ pc = "loop" /\ f \in todo /\ todo' = todo \ {f} /\ pc' \in {"failing", "read"}
        /\ disk[f] # Missing => pc' = "read"
        /\ job' = JobFor(f, disk[f]) /\ UNCHANGED <<log, store, summary>>
    BY <1>m DEF ReadFile
  <2>2. job' # NoJob /\ job'.file = f /\ job'.content = disk[f]
    <3>1. job' \in [file : Files, content : Contents \cup {Missing}, batch : [Topics -> Seq(Event)]]
      <4>1. disk[f] \in Contents \cup {Missing}
        BY DEF TypeOK
      <4>2. NoEvents \in [Topics -> Seq(Event)]
        BY DEF NoEvents
      <4> QED
        BY <2>1, <4>1, <4>2 DEF JobFor
    <3> QED
      BY <2>1, <3>1, RunAssumption DEF JobFor
  <2>3. job = NoJob
    BY <2>1 DEF TypeOK
  <2>4. summary'.failed = 0 => RunCovers'
    BY <1>a, <1>c, <2>1, <2>2, <2>3, AllCurrentFrame DEF RunCovers
  <2>5. FirstRun'
    BY <1>j, <2>1, <2>2, <2>4
  <2>6. Rerun'
    BY <1>d, <1>h, <2>1
  <2> QED
    BY <2>1, <2>5, <2>6
<1>n. ASSUME pc = "read", ~ Unchanged(store[job.file], JobGeneration) PROVE ~ second
  <2>1. job # NoJob
    BY <1>n DEF TypeOK
  <2> QED
    BY <1>c, <1>d, <1>n, <2>1, CurrentIsSkipped
<1>o. CASE SkipUnchanged
  <2>1. /\ pc = "read" /\ pc' = "loop" /\ job' = NoJob /\ UNCHANGED <<todo, log, store>>
        /\ Unchanged(store[job.file], JobGeneration)
        /\ summary' = [summary EXCEPT !.skipped = @ + 1]
    BY <1>o DEF SkipUnchanged, NextFile
  <2>2. job # NoJob /\ summary'.failed = summary.failed
    BY <2>1 DEF TypeOK, Summary
  <2>3. Current(job.file)
    BY <1>c, <2>1, <2>2 DEF Current, JobGeneration
  <2>4. summary'.failed = 0 => RunCovers'
    BY <1>a, <1>c, <2>1, <2>2, <2>3, AllCurrentFrame DEF RunCovers
  <2> QED
    BY <1>f, <1>h, <1>j, <2>1, <2>4
<1>p. CASE ParseFails \/ StageEvents
  <2>1. /\ pc = "read" /\ pc' \in {"failing", "staged"} /\ UNCHANGED <<todo, summary, log, store>>
        /\ ~ Unchanged(store[job.file], JobGeneration)
    BY <1>p DEF ParseFails, StageEvents, runVars
  <2>2. job \in Job /\ job # NoJob
    BY <2>1, JobIs DEF TypeOK
  <2>3. job'.file = job.file /\ job'.content = job.content /\ job' # NoJob
    <3>1. CASE ParseFails
      BY <2>2, <3>1 DEF ParseFails
    <3>2. CASE StageEvents
      <4>1. TypeOK'
        BY NextTypeOK
      <4>2. job' # NoJob
        BY <2>1, <4>1 DEF TypeOK
      <4>3. job'.file = job.file /\ job'.content = job.content
        BY <2>2, <3>2 DEF StageEvents, Job
      <4> QED
        BY <4>2, <4>3
    <3> QED
      BY <1>p, <3>1, <3>2
  <2>4. summary'.failed = 0 => RunCovers'
    BY <1>a, <1>c, <2>1, <2>2, <2>3, AllCurrentFrame DEF RunCovers
  <2> QED
    BY <1>a, <1>c, <1>f, <1>i, <1>j, <1>n, <2>1, <2>2, <2>3, <2>4
<1>q. CASE PublishBatch
  <2>1. pc = "staged" /\ pc' = "published" /\ UNCHANGED <<job, todo, summary, store>>
    BY <1>q DEF PublishBatch, runVars
  <2>2. ~ second
    BY <1>d, <2>1
  <2>3. summary'.failed = 0 => RunCovers'
    BY <1>a, <1>c, <2>1, AllCurrentFrame DEF RunCovers
  <2> QED
    BY <1>a, <1>c, <1>f, <1>i, <1>j, <2>1, <2>2, <2>3
<1>r. CASE CommitState
  <2>1. /\ pc = "published" /\ pc' = "loop" /\ job' = NoJob /\ UNCHANGED todo
        /\ store' = [store EXCEPT ![job.file] = RowFor(JobGeneration)]
        /\ summary' = [summary EXCEPT !.processed = @ + 1]
    BY <1>r DEF CommitState, NextFile
  <2>2. ~ second
    BY <1>d, <2>1
  <2>3. job # NoJob /\ job.file \in Files /\ JobGeneration \in Generation
    BY <2>1, JobIs DEF TypeOK
  <2>4. summary'.failed = summary.failed
    BY <2>1 DEF TypeOK, Summary
  <2>5. \A f \in Files : f = job.file => Current(f)'
    <3>1. store'[job.file] = RowFor(JobGeneration)
      BY <2>1, <2>3 DEF TypeOK
    <3>2. RowFor(JobGeneration) # NoRow /\ <<RowFor(JobGeneration).hash, RowFor(JobGeneration).version>> = JobGeneration
      BY <2>3, RowForIsRow, RunAssumption
    <3> QED
      BY <1>a, <1>c, <2>3, <3>1, <3>2 DEF Current, Unchanged, JobGeneration
  <2>6. \A f \in Files : f # job.file => (Current(f)' <=> Current(f))
    <3>1. \A f \in Files : f # job.file => store'[f] = store[f]
      BY <2>1, <2>3 DEF TypeOK
    <3> QED
      BY <1>a, <3>1 DEF Current
  <2>7. summary'.failed = 0 => RunCovers'
    BY <1>a, <1>c, <2>1, <2>4, <2>5, <2>6 DEF RunCovers
  <2> QED
    BY <1>f, <1>i, <1>j, <2>1, <2>2, <2>7
<1>s. ASSUME \/ pc' = "down"
             \/ pc' = "loop" /\ job' = NoJob /\ summary' = [summary EXCEPT !.failed = @ + 1],
             ~ EndRun, ~ second
      PROVE  FirstRun' /\ Rerun'
  <2>1. CASE pc' = "down"
    BY <1>e, <1>s, <2>1
  <2>2. CASE pc' = "loop" /\ job' = NoJob /\ summary' = [summary EXCEPT !.failed = @ + 1]
    <3>1. summary'.failed # 0
      BY <2>2 DEF TypeOK, Summary
    <3> QED
      BY <1>i, <1>j, <1>s, <2>2, <3>1
  <2> QED
    BY <1>s, <2>1, <2>2
<1>t. CASE ParserRaises
  <2>1. /\ pc = "read" /\ ~ Unchanged(store[job.file], JobGeneration) /\ ~ EndRun
        /\ \/ pc' = "down"
           \/ pc' = "loop" /\ job' = NoJob /\ summary' = [summary EXCEPT !.failed = @ + 1]
    BY <1>t DEF ParserRaises, AfterFailure, Halt, EndRun
  <2> QED
    BY <1>n, <1>s, <1>0, <2>1
<1>u. CASE ReportError \/ ReportErrorFails \/ ReportErrorDropped \/ ReportErrorRejected
  <2>1. /\ pc = "failing" /\ ~ EndRun
        /\ \/ pc' = "down"
           \/ pc' = "loop" /\ job' = NoJob /\ summary' = [summary EXCEPT !.failed = @ + 1]
    BY <1>u DEF ReportError, ReportErrorFails, ReportErrorDropped, ReportErrorRejected, AfterFailure, Halt, EndRun
  <2> QED
    BY <1>d, <1>s, <1>0, <2>1
<1>v. CASE PublishRejected \/ AbortBeforePublish \/ PublishFails \/ CommitFails \/ Crash
  <2>1. (pc' = "down" /\ ~ EndRun) \/ (Crash /\ pc' = "down" /\ EndRun)
    BY <1>v DEF PublishRejected, AbortBeforePublish, PublishFails, CommitFails, Crash, Abort, Halt, EndRun
  <2> QED
    BY <1>e, <1>k, <1>l, <2>1
<1>w. CASE Environment
  <2>1. UNCHANGED <<store, log, pc, job, todo, summary>>
    BY <1>w DEF Environment, Edit, Upgrade, runVars
  <2>2. summary'.failed = 0 => RunCovers'
    BY <1>a, <1>c, <2>1, AllCurrentFrame DEF RunCovers
  <2> QED
    BY <1>a, <1>c, <1>d, <1>f, <1>h, <1>j, <2>1, <2>2
<1>x. ~ StartRun
  BY DEF StartRun
<1>y. FirstRun' /\ Rerun'
  BY <1>e, <1>k, <1>l, <1>m, <1>o, <1>p, <1>q, <1>r, <1>t, <1>u, <1>v, <1>w, <1>x
     DEF Next, RunNext, Proceed, Fault
<1> QED
  BY <1>y, <1>0

(* Between the runs the parser process is down, and nothing is edited.     *)
LEMMA NotebookWaits ==
  ASSUME ParserTyped, NotebookInv, NotebookBusy, ~ Over, calm, calm', stage # "running",
         Next, NotebookFollows, Remember, ReportsFollow, UNCHANGED <<tool, windowVars>>
  PROVE  /\ FirstRun' /\ Rerun'
         /\ stage' \in {stage, "running"}
         /\ pc' # "down" <=> stage' = "running"
<1> USE DEF ParserTyped, windowVars
<1>1. pc = "down" /\ FirstRun /\ Rerun
  BY DEF NotebookInv
<1>2. UNCHANGED <<disk, version>>
  BY DEF Remember
<1>r. UNCHANGED reports
  BY <1>1, ReportsStay
<1>3. pc' \in {"down", "loop"} /\ (pc' = "loop" => StartRun)
  BY <1>1, PcFromDown
<1>4. CASE StartRun
  <2>1. /\ pc' = "loop" /\ todo' = {f \in Files : disk[f] # Missing}
        /\ UNCHANGED <<log, store, job>>
    BY <1>4 DEF StartRun
  <2>2. stage = "open" /\ stage' = "running"
    BY <1>1, <2>1 DEF NotebookFollows
  <2>3. job' = NoJob /\ RunCovers'
    BY <1>1, <1>2, <2>1 DEF TypeOK, RunCovers
  <2>4. FirstRun'
    BY <2>2, <2>3 DEF FirstRun
  <2>5. Rerun'
    <3> SUFFICES ASSUME second PROVE Rerun'
      BY DEF Rerun
    <3>1. AllCurrent /\ Asked(4, before)
      BY <1>1, <2>2 DEF Rerun
    <3>2. AllCurrent' /\ Asked(4, before)'
      BY <1>2, <1>r, <2>1, <3>1, AllCurrentFrame, EndOffsetsStay DEF Asked
    <3>3. \A f \in todo' : disk'[f] # Missing
      BY <1>2, <2>1
    <3> QED
      BY <2>1, <2>2, <3>2, <3>3 DEF Rerun
  <2> QED
    BY <2>1, <2>2, <2>4, <2>5
<1>5. CASE ~ StartRun
  <2>1. Environment
    BY <1>1, <1>3, <1>5 DEF Next, RunNext, Fault, Proceed, AbortBeforePublish, PublishFails,
       CommitFails, ReportErrorFails, ReportErrorDropped, Crash, ReadFile, SkipUnchanged, ParseFails, ParserRaises,
       StageEvents, PublishBatch, PublishRejected, CommitState, ReportError,
       ReportErrorRejected, EndRun
  <2>2. UNCHANGED <<store, log, pc, job, todo, summary>>
    BY <2>1 DEF Environment, Edit, Upgrade, runVars
  <2>3. stage' = stage
    BY <1>1, <2>2 DEF NotebookFollows, RunEnds
  <2>4. AllCurrent' = AllCurrent
    BY <1>2, <2>2, AllCurrentFrame
  <2>5. \A k : Asked(k, before)' = Asked(k, before) /\ Asked(k, after)' = Asked(k, after)
    BY <1>r, <2>2, EndOffsetsStay DEF Asked
  <2>6. FirstRun'
    BY <1>1, <2>3, <2>4 DEF FirstRun
  <2>7. Rerun'
    BY <1>1, <2>2, <2>3, <2>4, <2>5 DEF Rerun, Over
  <2> QED
    BY <1>1, <2>2, <2>3, <2>6, <2>7
<1> QED
  BY <1>4, <1>5

LEMMA InitWindowTyped == LiveInit => WindowTyped
<1>1. Nowhere \in [Streams -> [Files -> Nat]]
  BY DEF Nowhere
<1>2. [f \in Files |-> << >>] \in [Files -> Seq(Report)]
  OBVIOUS
<1> QED
  BY <1>1, <1>2 DEF LiveInit, InspectionInit, WindowTyped

LEMMA NextWindowTyped ==
  ASSUME LiveBase, WindowTyped, [LiveNext]_liveVars
  PROVE  WindowTyped'
<1> USE DEF windowVars, readVars, inspectionHistory
<1>1. CASE UNCHANGED inspectionVars
  BY <1>1 DEF WindowTyped, inspectionVars
<1>2. ASSUME InspectionNext PROVE WindowTyped'
  <2>1. CASE AskBefore
    <3>0. before' = [before EXCEPT ![TopicOrder[asked']] = EndOffsets(TopicOrder[asked'])]
      BY <2>1 DEF AskBefore
    <3>1. ASSUME NEW t \in Streams PROVE before'[t] \in [Files -> Nat]
      <4>0. before \in [Streams -> [Files -> Nat]]
        BY DEF WindowTyped
      <4>1. EndOffsets(t) \in [Files -> Nat]
        BY EndOffsetsTyped DEF LiveBase, ParserTyped
      <4>2. before'[t] = IF t = TopicOrder[asked'] THEN EndOffsets(TopicOrder[asked']) ELSE before[t]
        BY <3>0, <4>0
      <4> QED
        BY <4>0, <4>1, <4>2
    <3>2. before' \in [Streams -> [Files -> Nat]]
      BY <2>1, <3>1 DEF AskBefore, WindowTyped
    <3> QED
      BY <2>1, <3>2 DEF AskBefore, WindowTyped
  <2>2. CASE AskAfter
    <3>0. after' = [after EXCEPT ![TopicOrder[asked']] = EndOffsets(TopicOrder[asked'])]
      BY <2>2 DEF AskAfter
    <3>1. ASSUME NEW t \in Streams PROVE after'[t] \in [Files -> Nat]
      <4>0. after \in [Streams -> [Files -> Nat]]
        BY DEF WindowTyped
      <4>1. EndOffsets(t) \in [Files -> Nat]
        BY EndOffsetsTyped DEF LiveBase, ParserTyped
      <4>2. after'[t] = IF t = TopicOrder[asked'] THEN EndOffsets(TopicOrder[asked']) ELSE after[t]
        BY <3>0, <4>0
      <4> QED
        BY <4>0, <4>1, <4>2
    <3>2. after' \in [Streams -> [Files -> Nat]]
      BY <2>2, <3>1 DEF AskAfter, WindowTyped
    <3> QED
      BY <2>2, <3>2 DEF AskAfter, WindowTyped
  <2>3. CASE OpenWindow \/ CloseWindow \/ Listen \/ PollNothing \/ ListeningBreaks
    BY <2>3 DEF OpenWindow, CloseWindow, Listen, PollNothing, ListeningBreaks, Verdict, WindowTyped
  <2>4. CASE \E t \in Streams, f \in Files : PollRecord(t, f)
    BY <2>4 DEF PollRecord, WindowTyped
  <2>5. CASE NotebookBegins \/ NotebookReads \/ NotebookCompares
    BY <2>5 DEF NotebookBegins, NotebookReads, NotebookCompares, WindowTyped
  <2>6. CASE ParserMeanwhile
    <3>1. UNCHANGED reports \/ ReportLands
      BY <2>6 DEF ParserMeanwhile, ReportsFollow
    <3>2. reports' \in [Files -> Seq(Report)]
      <4>1. CASE ReportLands
        <5>1. /\ job \in Job
              /\ reports' = [reports EXCEPT ![job.file] =
                                Append(@, ErrorEvent(job.file, JobGeneration))]
          BY <4>1, JobIs DEF ReportLands, ReportError, ReportErrorFails, LiveBase, ParserTyped, TypeOK
        <5>2. job.file \in Files /\ ErrorEvent(job.file, JobGeneration) \in Report
          BY <5>1 DEF Job, ErrorEvent, JobGeneration, Report, JobGenerations, LiveBase, ParserTyped, TypeOK
        <5>3. reports \in [Files -> Seq(Report)]
          BY DEF WindowTyped
        <5> QED
          BY <5>1, <5>2, <5>3
      <4> QED
        BY <3>1, <4>1 DEF WindowTyped
    <3> QED
      BY <2>6, <3>2 DEF ParserMeanwhile, NotebookFollows, NotebookBusy, WindowTyped
  <2> QED
    BY <1>2, <2>1, <2>2, <2>3, <2>4, <2>5, <2>6 DEF InspectionNext, InspectionStep
<1> QED
  BY <1>1, <1>2, LiveStepIs DEF LiveBase

LEMMA NextNotebook ==
  ASSUME LiveBase, WindowTyped, NotebookInv, [LiveNext]_liveVars
  PROVE  NotebookInv'
<1> USE DEF LiveBase, windowVars, readVars, inspectionHistory
<1> DEFINE before1 == [before EXCEPT ![TopicOrder[asked + 1]] = EndOffsets(TopicOrder[asked + 1])]
           after1  == [after EXCEPT ![TopicOrder[asked + 1]] = EndOffsets(TopicOrder[asked + 1])]
<1>a. ASSUME UNCHANGED <<disk, version, store, log, reports>>
      PROVE  /\ AllCurrent' = AllCurrent
             /\ \A k : UNCHANGED before => Asked(k, before)' = Asked(k, before)
             /\ \A k : UNCHANGED after => Asked(k, after)' = Asked(k, after)
  BY <1>a, AllCurrentFrame, EndOffsetsStay DEF Asked
<1>1. CASE UNCHANGED inspectionVars /\ task # "topics"
  BY <1>1 DEF TaskInv, inspectionVars, NotebookInv, NotebookBusy
<1>2. CASE UNCHANGED liveVars
  <2>1. UNCHANGED inspectionVars /\ UNCHANGED vars
    BY <1>2 DEF liveVars
  <2>2. UNCHANGED <<disk, version, store, log, job, todo, summary, pc>>
    BY <2>1 DEF vars
  <2>3. UNCHANGED <<reports, tool, stage, asked, before, after, second, calm>>
    BY <2>1 DEF inspectionVars
  <2>4. RunCovers' = RunCovers
    BY <2>2, AllCurrentFrame DEF RunCovers
  <2> QED
    BY <1>a, <2>2, <2>3, <2>4 DEF NotebookInv, NotebookBusy, FirstRun, Rerun, Over
<1>3. CASE task = "topics" /\ InspectionNext
  <2> SUFFICES ASSUME NotebookBusy' PROVE NotebookInv'
    BY DEF NotebookInv
  <2>0. tool = "notebook"
    BY <1>3, InspectionStepIs DEF NotebookBusy
  <2>1. CASE NotebookBegins
    <3>1. pc' = "down" /\ stage' = "before" /\ ~ second'
      BY <2>1 DEF NotebookBegins, WindowTyped
    <3> QED
      BY <3>1 DEF NotebookInv, FirstRun, Rerun, Over
  <2>2. ASSUME AskBefore PROVE NotebookInv'
    <3>1. /\ stage = "before" /\ pc = "down" /\ asked' = asked + 1
          /\ before' = before1
          /\ stage' = IF asked + 1 = 4 THEN "open" ELSE "before"
          /\ UNCHANGED <<vars, reports, tool, after, second, calm>>
      BY <2>0, <2>2, TopicOrderIs DEF AskBefore, Ask
    <3>2. UNCHANGED <<disk, version, store, log, reports, pc>>
      BY <3>1 DEF vars
    <3>3. ASSUME calm PROVE FirstRun' /\ Rerun'
      <4>1. FirstRun /\ Rerun
        BY <2>0, <3>1, <3>3 DEF NotebookInv, NotebookBusy
      <4>2. FirstRun'
        BY <3>1 DEF FirstRun
      <4> SUFFICES ASSUME second PROVE Rerun'
        BY <3>1, <4>2 DEF Rerun
      <4>3. AllCurrent /\ asked \in 0..3 /\ Asked(asked, before)
        BY <3>1, <4>1 DEF Rerun, Over
      <4>4. Asked(asked + 1, before1)
        BY <4>3, AskedNext DEF ParserTyped, WindowTyped
      <4>5. Asked(asked, before)'
        <5>1. \A k, w : Asked(k, w) /\ asked' = k /\ before' = w => Asked(asked, before)'
          BY <3>2, EndOffsetsStay DEF Asked
        <5> HIDE DEF before1
        <5> QED
          BY <3>1, <4>4, <5>1
      <4>6. AllCurrent'
        BY <1>a, <3>2, <4>3
      <4>7. asked = 3 => asked' = 4 /\ stage' = "open"
        BY <3>1
      <4>8. asked # 3 => asked' \in 0..3 /\ stage' = "before"
        BY <3>1, <4>3
      <4> QED
        BY <4>5, <4>6, <4>7, <4>8 DEF Rerun
    <3> QED
      BY <3>1, <3>2, <3>3 DEF NotebookInv, Over
  <2>3. ASSUME AskAfter PROVE NotebookInv'
    <3>1. /\ stage = "after" /\ pc = "down" /\ asked' = asked + 1
          /\ after' = after1
          /\ stage' = IF asked + 1 = 4 THEN "closed" ELSE "after"
          /\ UNCHANGED <<vars, reports, tool, before, second, calm>>
      BY <2>0, <2>3, TopicOrderIs DEF AskAfter, Ask
    <3>2. UNCHANGED <<disk, version, store, log, reports, pc>>
      BY <3>1 DEF vars
    <3>3. ASSUME calm PROVE FirstRun' /\ Rerun'
      <4>1. FirstRun /\ Rerun
        BY <2>0, <3>1, <3>3 DEF NotebookInv, NotebookBusy
      <4>6. AllCurrent'
        BY <1>a, <3>1, <3>2, <4>1 DEF FirstRun
      <4>2. FirstRun'
        BY <3>1, <4>6 DEF FirstRun
      <4> SUFFICES ASSUME second PROVE Rerun'
        BY <3>1, <4>2 DEF Rerun
      <4>3. asked \in 0..3 /\ Asked(asked, after) /\ Asked(4, before)
        BY <3>1, <4>1 DEF Rerun, Over
      <4>4. Asked(asked + 1, after1)
        BY <4>3, AskedNext DEF ParserTyped, WindowTyped
      <4>5. Asked(asked, after)'
        <5>1. \A k, w : Asked(k, w) /\ asked' = k /\ after' = w => Asked(asked, after)'
          BY <3>2, EndOffsetsStay DEF Asked
        <5> HIDE DEF after1
        <5> QED
          BY <3>1, <4>4, <5>1
      <4>7. asked = 3 => asked' = 4 /\ stage' = "closed"
        BY <3>1
      <4>8. asked # 3 => asked' \in 0..3 /\ stage' = "after"
        BY <3>1, <4>3
      <4>9. Asked(4, before)'
        BY <1>a, <3>1, <3>2, <4>3
      <4> QED
        BY <4>5, <4>6, <4>7, <4>8, <4>9 DEF Rerun
    <3> QED
      BY <3>1, <3>2, <3>3 DEF NotebookInv, Over
  <2>4. ASSUME CloseWindow PROVE NotebookInv'
    <3>1. /\ stage = "ran" /\ stage' = "after" /\ asked' = 0
          /\ UNCHANGED <<vars, reports, tool, before, after, second, calm>>
      BY <2>0, <2>4 DEF CloseWindow
    <3>2. UNCHANGED <<disk, version, store, log, reports, pc>>
      BY <3>1 DEF vars
    <3>3. Asked(0, after)'
      BY DEF Asked
    <3>4. calm => AllCurrent /\ (second => Asked(4, before))
      BY <2>0, <3>1 DEF NotebookInv, NotebookBusy, FirstRun, Rerun, Over
    <3>5. calm => AllCurrent' /\ (second => Asked(4, before)')
      BY <1>a, <3>1, <3>2, <3>4
    <3>6. pc' = "down"
      BY <2>0, <3>1, <3>2 DEF NotebookInv, NotebookBusy, Over
    <3>7. calm' => FirstRun' /\ Rerun'
      BY <3>1, <3>3, <3>5 DEF FirstRun, Rerun
    <3> QED
      BY <3>1, <3>6, <3>7 DEF NotebookInv
  <2>5. ASSUME NotebookReads PROVE NotebookInv'
    <3>1. /\ stage = "closed" /\ ~ second
          /\ stage' = "aborted" \/ (stage' = "before" /\ asked' = 0 /\ second')
          /\ UNCHANGED <<vars, reports, tool, before, after, calm>>
      BY <2>5 DEF NotebookReads
    <3>2. UNCHANGED <<disk, version, store, log, reports, pc>>
      BY <3>1 DEF vars
    <3>3. Asked(0, before)'
      BY DEF Asked
    <3>4. pc' = "down" /\ (calm => AllCurrent')
      BY <1>a, <2>0, <3>1, <3>2 DEF NotebookInv, NotebookBusy, FirstRun, Over
    <3>5. calm' => FirstRun' /\ Rerun'
      BY <3>1, <3>3, <3>4 DEF FirstRun, Rerun, Over
    <3> QED
      BY <3>1, <3>4, <3>5 DEF NotebookInv, Over
  <2>6. ASSUME NotebookCompares PROVE NotebookInv'
    <3>1. /\ stage = "closed" /\ second
          /\ stage' = IF after = before THEN "passed" ELSE "failed"
          /\ UNCHANGED <<vars, reports, tool, before, after, calm>>
      BY <2>6 DEF NotebookCompares
    <3>2. calm => after = before
      BY <2>0, <3>1, AllAsked DEF NotebookInv, NotebookBusy, Rerun, Over, ParserTyped
    <3> QED
      BY <3>1, <3>2 DEF NotebookInv, Over, FirstRun, Rerun
  <2>7. ASSUME ParserMeanwhile PROVE NotebookInv'
    <3>1. /\ ~ Over /\ Next /\ NotebookFollows /\ Remember /\ ReportsFollow
          /\ UNCHANGED <<tool, windowVars>>
      BY <2>7 DEF ParserMeanwhile
    <3>2. NotebookBusy
      BY <3>1 DEF NotebookBusy, NotebookFollows
    <3>3. calm' => calm
      BY <3>1 DEF Remember
    <3>4. CASE stage = "running"
      <4>1. /\ stage' \in {"running", "ran", "aborted"}
            /\ pc' # "down" <=> stage' = "running"
        BY <3>1, <3>2, <3>4 DEF NotebookFollows, RunEnds, NotebookInv
      <4>2. calm' => FirstRun' /\ Rerun'
        BY <3>1, <3>2, <3>3, <3>4, NotebookRuns DEF NotebookInv
      <4> QED
        BY <4>1, <4>2 DEF NotebookInv
    <3>5. CASE stage # "running"
      <4>1. pc = "down"
        BY <3>1, <3>2, <3>5 DEF NotebookInv
      <4>2. /\ stage' \in {stage, "running"}
            /\ pc' # "down" <=> stage' = "running"
        BY <3>1, <3>2, <3>5, <4>1, PcFromDown DEF NotebookFollows, RunEnds
      <4>3. calm' => FirstRun' /\ Rerun'
        BY <3>1, <3>2, <3>3, <3>5, NotebookWaits
      <4>4. stage' # "failed" /\ stage' \notin {"idle", "reading"}
        BY <3>1, <3>2, <4>2 DEF NotebookInv, Over
      <4> QED
        BY <4>2, <4>3, <4>4 DEF NotebookInv
    <3> QED
      BY <3>4, <3>5
  <2>8. ~ OpenWindow /\ ~ Listen /\ ~ PollNothing /\ ~ ListeningBreaks
        /\ ~ \E t \in Streams, f \in Files : PollRecord(t, f)
    BY <2>0 DEF OpenWindow, Listen, PollNothing, ListeningBreaks, PollRecord
  <2> QED
    BY <1>3, <2>1, <2>2, <2>3, <2>4, <2>5, <2>6, <2>7, <2>8 DEF InspectionNext, InspectionStep
<1>4. task = "topics" \/ UNCHANGED inspectionVars \/ UNCHANGED liveVars
  BY DEF LiveNext
<1>5. (task = "topics" /\ InspectionNext) \/ (task # "topics" /\ UNCHANGED inspectionVars)
        \/ UNCHANGED liveVars
  BY DEF LiveNext
<1> QED
  BY <1>1, <1>2, <1>3, <1>5

(* The unchanged rerun of Task 3 finds no topic grown, whatever files,     *)
(* contents and parser there are, and whatever was published, left undone  *)
(* or failed before the notebook was started.                              *)
THEOREM RerunIsEmpty == LiveSpec => []RerunWindowIsEmpty
<1>1. LiveInit => LiveBase /\ WindowTyped /\ NotebookInv
  <2> SUFFICES ASSUME LiveInit PROVE LiveBase /\ WindowTyped /\ NotebookInv
    OBVIOUS
  <2> QED
    BY InitLiveBase, InitWindowTyped DEF LiveInit, InspectionInit, NotebookInv, NotebookBusy
<1>2. LiveBase /\ WindowTyped /\ NotebookInv /\ [LiveNext]_liveVars
        => LiveBase' /\ WindowTyped' /\ NotebookInv'
  BY NextLiveBase, NextWindowTyped, NextNotebook
<1>3. NotebookInv => RerunWindowIsEmpty
  BY DEF NotebookInv, NotebookBusy, RerunWindowIsEmpty
<1> QED
  BY <1>1, <1>2, <1>3, PTL DEF LiveSpec

-----------------------------------------------------------------------------
(***************************************************************************)
(* The window of the script.  What is in it is said of a log L and of two  *)
(* sets of offsets, by topic and key, so that the log before and after a   *)
(* step can be compared.                                                   *)
(***************************************************************************)
Logs == [Topics -> [Files -> Seq(Event)]]
Offsets == [Streams -> [Files -> Nat]]

(* The windows are about the changes: where parser.errors ends is left out.*)
Ends(L) == [t \in Streams |-> [f \in Files |-> IF t \in Topics THEN Len(L[t][f]) ELSE 0]]

UpTo(L, hi) == \A t \in Topics, f \in Files : hi[t][f] <= Len(L[t][f])

InWin(L, lo, hi, f, x) ==
    \E t \in Topics : \E i \in DOMAIN L[t][f] :
        lo[t][f] < i /\ i <= hi[t][f] /\ EventId(f, L[t][f][i]) = x

AllOrNone(L, lo, hi, f, g) ==
    \/ \A x \in UpsertsOf(f, g) : InWin(L, lo, hi, f, x)
    \/ \A x \in UpsertsOf(f, g) : ~ InWin(L, lo, hi, f, x)

Whole(L, lo, hi) == \A f \in Files, g \in Generation : AllOrNone(L, lo, hi, f, g)

LEMMA EndsAre ==
  ASSUME NEW L \in Logs
  PROVE  Ends(L) \in Offsets /\ UpTo(L, Ends(L))
         /\ \A t \in Topics, f \in Files : Ends(L)[t][f] = Len(L[t][f])
<1>1. \A t \in Topics, f \in Files : Len(L[t][f]) \in Nat
  BY DEF Logs
<1> QED
  BY <1>1 DEF Ends, Offsets, Streams, UpTo

(* Nothing is between the ends and the ends.                               *)
LEMMA EmptyIsWhole ==
  ASSUME NEW L \in Logs, NEW lo \in Offsets, NEW hi,
         \A t \in Topics, f \in Files : hi[t][f] <= lo[t][f] /\ hi[t][f] \in Nat
  PROVE  Whole(L, lo, hi)
<1>1. \A f \in Files : \A x : ~ InWin(L, lo, hi, f, x)
  <2> SUFFICES ASSUME NEW f \in Files, NEW x, NEW t \in Topics, NEW i \in DOMAIN L[t][f],
                      lo[t][f] < i, i <= hi[t][f]
               PROVE  FALSE
    BY DEF InWin
  <2>1. L[t][f] \in Seq(Event) /\ lo[t][f] \in Nat
    BY DEF Logs, Offsets, Streams
  <2>2. i \in Nat
    BY <2>1
  <2> QED
    BY <2>1, <2>2
<1> QED
  BY <1>1 DEF Whole, AllOrNone

(* The window depends on the offsets only as far as it reads them.         *)
LEMMA SameWindow ==
  ASSUME NEW L, NEW lo, NEW hi, NEW end,
         \A t \in Topics, f \in Files : end[t][f] = hi[t][f],
         Whole(L, lo, hi)
  PROVE  Whole(L, lo, end)
<1>1. \A f \in Files : \A x : InWin(L, lo, end, f, x) <=> InWin(L, lo, hi, f, x)
  BY DEF InWin
<1> QED
  BY <1>1 DEF Whole, AllOrNone

(* Appending leaves the windows there were as they are.                    *)
LEMMA WindowStays ==
  ASSUME NEW L \in Logs, NEW M \in Logs, NEW lo \in Offsets, NEW hi \in Offsets, UpTo(L, hi),
         \A t \in Topics, f \in Files : \E u \in Seq(Event) : M[t][f] = L[t][f] \o u
  PROVE  /\ \A f \in Files : \A x : InWin(M, lo, hi, f, x) <=> InWin(L, lo, hi, f, x)
         /\ Whole(L, lo, hi) => Whole(M, lo, hi)
         /\ UpTo(M, hi)
<1>1. ASSUME NEW t \in Topics, NEW f \in Files
      PROVE  /\ \A i \in DOMAIN L[t][f] : i \in DOMAIN M[t][f] /\ M[t][f][i] = L[t][f][i]
             /\ \A i \in DOMAIN M[t][f] : i <= Len(L[t][f]) => i \in DOMAIN L[t][f]
             /\ Len(L[t][f]) <= Len(M[t][f]) /\ Len(L[t][f]) \in Nat /\ Len(M[t][f]) \in Nat
  <2>1. PICK u \in Seq(Event) : M[t][f] = L[t][f] \o u
    BY <1>1
  <2>2. L[t][f] \in Seq(Event)
    BY DEF Logs
  <2> QED
    BY <2>1, <2>2, AppendedIs, SMTT(30)
<1>2. \A t \in Topics, f \in Files : hi[t][f] \in Nat /\ hi[t][f] <= Len(L[t][f])
  BY DEF Offsets, Streams, UpTo
<1>3. \A f \in Files : \A x : InWin(M, lo, hi, f, x) <=> InWin(L, lo, hi, f, x)
  <2> TAKE f \in Files
  <2> TAKE x
  <2>1. ASSUME InWin(L, lo, hi, f, x) PROVE InWin(M, lo, hi, f, x)
    BY <1>1, <2>1 DEF InWin
  <2>2. ASSUME InWin(M, lo, hi, f, x) PROVE InWin(L, lo, hi, f, x)
    <3>1. PICK t \in Topics : \E i \in DOMAIN M[t][f] :
            lo[t][f] < i /\ i <= hi[t][f] /\ EventId(f, M[t][f][i]) = x
      BY <2>2 DEF InWin
    <3>2. PICK i \in DOMAIN M[t][f] :
            lo[t][f] < i /\ i <= hi[t][f] /\ EventId(f, M[t][f][i]) = x
      BY <3>1
    <3>3. i \in Nat
      <4>1. M[t][f] \in Seq(Event)
        BY DEF Logs
      <4> QED
        BY <4>1
    <3>4. i <= Len(L[t][f])
      BY <1>1, <1>2, <3>2, <3>3
    <3>5. i \in DOMAIN L[t][f] /\ M[t][f][i] = L[t][f][i]
      BY <1>1, <3>4
    <3> QED
      BY <3>2, <3>5 DEF InWin
  <2> QED
    BY <2>1, <2>2
<1>4. Whole(L, lo, hi) => Whole(M, lo, hi)
  BY <1>3 DEF Whole, AllOrNone
<1>5. UpTo(M, hi)
  BY <1>1, <1>2 DEF UpTo
<1> QED
  BY <1>3, <1>4, <1>5

(* A batch that is all of one generation and none of another.              *)
WholeBatch(b, f, g) ==
    /\ \A x \in UpsertsOf(f, g) :
         \E t \in Topics : \E i \in DOMAIN b[t] : EventId(f, b[t][i]) = x
    /\ \A t \in Topics : \A i \in DOMAIN b[t], h \in Generation :
         EventId(f, b[t][i]) \in UpsertsOf(f, h) => h = g

LEMMA WindowGrows ==
  ASSUME NEW L \in Logs, NEW M \in Logs, NEW lo \in Offsets, UpTo(L, lo), Whole(L, lo, Ends(L)),
         NEW b \in [Topics -> Seq(Event)], NEW k \in Files, NEW g \in Generation,
         WholeBatch(b, k, g),
         \A t \in Topics : M[t][k] = L[t][k] \o b[t],
         \A t \in Topics, f \in Files : f # k => M[t][f] = L[t][f]
  PROVE  Whole(M, lo, Ends(M))
<1>1. \A t \in Topics, f \in Files :
        /\ Ends(L)[t][f] = Len(L[t][f]) /\ Ends(M)[t][f] = Len(M[t][f])
        /\ Len(L[t][f]) \in Nat /\ Len(M[t][f]) \in Nat /\ lo[t][f] \in Nat
        /\ lo[t][f] <= Len(L[t][f])
        /\ L[t][f] \in Seq(Event)
  <2> TAKE t \in Topics, f \in Files
  <2>1. L[t][f] \in Seq(Event) /\ M[t][f] \in Seq(Event)
    BY DEF Logs
  <2>2. lo[t][f] \in Nat /\ lo[t][f] <= Len(L[t][f])
    BY DEF Offsets, Streams, UpTo
  <2> QED
    BY <2>1, <2>2, EndsAre
<1> DEFINE Added(x) == \E t \in Topics : \E i \in DOMAIN b[t] : EventId(k, b[t][i]) = x
<1>2. ASSUME NEW x
      PROVE  InWin(M, lo, Ends(M), k, x) <=> InWin(L, lo, Ends(L), k, x) \/ Added(x)
  <2>0. ASSUME NEW t \in Topics
        PROVE  /\ \A i \in DOMAIN L[t][k] : i \in DOMAIN M[t][k] /\ M[t][k][i] = L[t][k][i]
               /\ \A i \in DOMAIN b[t] : /\ Len(L[t][k]) + i \in DOMAIN M[t][k]
                                         /\ M[t][k][Len(L[t][k]) + i] = b[t][i]
                                         /\ i \in Nat /\ i > 0
               /\ \A i \in DOMAIN M[t][k] : i \notin DOMAIN L[t][k] =>
                    i - Len(L[t][k]) \in DOMAIN b[t] /\ M[t][k][i] = b[t][i - Len(L[t][k])]
    <3>1. L[t][k] \in Seq(Event) /\ b[t] \in Seq(Event) /\ M[t][k] = L[t][k] \o b[t]
      BY <1>1
    <3> DEFINE s == L[t][k]
               c == b[t]
    <3>2. s \in Seq(Event) /\ c \in Seq(Event) /\ M[t][k] = s \o c
      BY <3>1
    <3> HIDE DEF s, c
    <3>3. /\ DOMAIN s = 1..Len(s) /\ DOMAIN c = 1..Len(c) /\ Len(s) \in Nat /\ Len(c) \in Nat
          /\ DOMAIN M[t][k] = 1..(Len(s) + Len(c))
          /\ \A i \in 1..Len(s) : M[t][k][i] = s[i]
          /\ \A i \in 1..Len(c) : M[t][k][Len(s) + i] = c[i]
          /\ \A i \in DOMAIN M[t][k] :
               i \notin 1..Len(s) => i - Len(s) \in 1..Len(c) /\ M[t][k][i] = c[i - Len(s)]
      BY <3>2, AppendedIs
    <3>4. \A i \in 1..Len(s) : i \in 1..(Len(s) + Len(c))
      BY <3>3
    <3>5. \A i \in 1..Len(c) : Len(s) + i \in 1..(Len(s) + Len(c)) /\ i \in Nat /\ i > 0
      BY <3>3
    <3> QED
      BY <3>3, <3>4, <3>5 DEF s, c
  <2>1. ASSUME InWin(L, lo, Ends(L), k, x) PROVE InWin(M, lo, Ends(M), k, x)
    <3>1. PICK t \in Topics : \E i \in DOMAIN L[t][k] :
            lo[t][k] < i /\ EventId(k, L[t][k][i]) = x
      BY <2>1 DEF InWin
    <3>2. PICK i \in DOMAIN L[t][k] : lo[t][k] < i /\ EventId(k, L[t][k][i]) = x
      BY <3>1
    <3>3. i \in DOMAIN M[t][k] /\ M[t][k][i] = L[t][k][i] /\ i <= Ends(M)[t][k]
      BY <1>1, <2>0, SMTT(30)
    <3> QED
      BY <3>2, <3>3 DEF InWin
  <2>2. ASSUME Added(x) PROVE InWin(M, lo, Ends(M), k, x)
    <3>1. PICK t \in Topics : \E i \in DOMAIN b[t] : EventId(k, b[t][i]) = x
      BY <2>2
    <3>2. PICK i \in DOMAIN b[t] : EventId(k, b[t][i]) = x
      BY <3>1
    <3> DEFINE j == Len(L[t][k]) + i
    <3>3. j \in DOMAIN M[t][k] /\ EventId(k, M[t][k][j]) = x /\ i \in Nat /\ i > 0
      BY <2>0, <3>2
    <3>4. lo[t][k] < j /\ j <= Ends(M)[t][k]
      BY <1>1, <3>3, SMTT(30)
    <3> HIDE DEF j
    <3> QED
      BY <3>3, <3>4 DEF InWin
  <2>3. ASSUME InWin(M, lo, Ends(M), k, x) PROVE InWin(L, lo, Ends(L), k, x) \/ Added(x)
    <3>1. PICK t \in Topics : \E i \in DOMAIN M[t][k] :
            lo[t][k] < i /\ EventId(k, M[t][k][i]) = x
      BY <2>3 DEF InWin
    <3>2. PICK i \in DOMAIN M[t][k] : lo[t][k] < i /\ EventId(k, M[t][k][i]) = x
      BY <3>1
    <3>3. CASE i \in DOMAIN L[t][k]
      <4>1. EventId(k, L[t][k][i]) = x /\ i <= Ends(L)[t][k]
        BY <1>1, <2>0, <3>2, <3>3
      <4> QED
        BY <3>2, <3>3, <4>1 DEF InWin
    <3>4. CASE i \notin DOMAIN L[t][k]
      BY <2>0, <3>2, <3>4
    <3> QED
      BY <3>3, <3>4
  <2> QED
    BY <2>1, <2>2, <2>3
<1>3. ASSUME NEW f \in Files, f # k, NEW x
      PROVE  InWin(M, lo, Ends(M), f, x) <=> InWin(L, lo, Ends(L), f, x)
  <2>1. \A t \in Topics : M[t][f] = L[t][f] /\ Ends(M)[t][f] = Ends(L)[t][f]
    BY <1>1, <1>3
  <2> QED
    BY <2>1 DEF InWin
<1>4. \A h \in Generation : \A x : x \in UpsertsOf(k, h) /\ Added(x) => h = g
  BY DEF WholeBatch
<1>5. \A x \in UpsertsOf(k, g) : Added(x)
  BY DEF WholeBatch
<1> HIDE DEF Added
<1>6. ASSUME NEW f \in Files, NEW h \in Generation PROVE AllOrNone(M, lo, Ends(M), f, h)
  <2>1. AllOrNone(L, lo, Ends(L), f, h)
    BY DEF Whole
  <2>2. CASE f # k
    BY <1>3, <2>1, <2>2 DEF AllOrNone
  <2>3. CASE f = k /\ h = g
    BY <1>2, <1>5, <2>3 DEF AllOrNone
  <2>4. CASE f = k /\ h # g
    BY <1>2, <1>4, <2>1, <2>4 DEF AllOrNone
  <2> QED
    BY <2>2, <2>3, <2>4
<1> QED
  BY <1>6 DEF Whole

(* A staged batch is the whole of its generation; its deletes are none of  *)
(* any.                                                                    *)
LEMMA StagedIsWhole ==
  ASSUME ParserTyped, BatchIsDifference, MetadataBatch, pc = "staged"
  PROVE  WholeBatch(job.batch, job.file, JobGeneration)
<1> DEFINE k == job.file
           g == JobGeneration
           b == job.batch
           row == store[k]
           old == DeleteGeneration(row, g)
           nodes == b["cpg.nodes"]
           edges == b["cpg.edges"]
<1>0. /\ k \in Files /\ g \in Generation /\ nodes \in Seq(Event) /\ edges \in Seq(Event)
  BY JobIs DEF ParserTyped, JobReadable, Topics
<1>1. SendsDifference(nodes, "NODE_UPSERT", "NODE_DELETE", RemovedNodes(row, g), NodesOf(g), old, g)
      /\ SendsDifference(edges, "EDGE_UPSERT", "EDGE_DELETE", RemovedEdges(row, g), EdgesOf(g), old, g)
  BY DEF BatchIsDifference
<1>2. b["source.metadata"] = << FileMetadataUpsert(k, g) >>
  BY DEF MetadataBatch
<1> HIDE DEF k, g, b, row, old, nodes, edges
<1>3. ASSUME NEW s \in Seq(Event), NEW up, NEW del, NEW removed, NEW ids,
             SendsDifference(s, up, del, removed, ids, old, g)
      PROVE  /\ \A i \in DOMAIN s : s[i].type = del \/ (s[i].type = up /\ s[i].gen = g)
             /\ \A n \in ids : \E i \in DOMAIN s : s[i].type = up /\ s[i].id = n /\ s[i].gen = g
  <2>1. PICK j \in 0..Len(s) :
          /\ \A i \in 1..j : s[i].type = del /\ s[i].gen = old
          /\ \A i \in (j + 1)..Len(s) : s[i].type = up /\ s[i].gen = g
          /\ {s[i].id : i \in 1..j} = removed
          /\ {s[i].id : i \in (j + 1)..Len(s)} = ids
    BY <1>3 DEF SendsDifference
  <2>2. Len(s) \in Nat /\ DOMAIN s = 1..Len(s) /\ j \in Nat
    BY <1>3
  <2>3. \A i \in 1..Len(s) : i \in 1..j \/ i \in (j + 1)..Len(s)
    BY <2>2
  <2>4. \A i \in (j + 1)..Len(s) : i \in 1..Len(s)
    BY <2>2
  <2>5. \A i \in DOMAIN s : s[i].type = del \/ (s[i].type = up /\ s[i].gen = g)
    BY <2>1, <2>2, <2>3
  <2>6. \A n \in ids : \E i \in (j + 1)..Len(s) : s[i].id = n
    BY <2>1
  <2>7. \A n \in ids : \E i \in DOMAIN s : s[i].type = up /\ s[i].id = n /\ s[i].gen = g
    BY <2>1, <2>2, <2>4, <2>6
  <2> QED
    BY <2>5, <2>7
<1>4. /\ \A i \in DOMAIN nodes : nodes[i].type = "NODE_DELETE"
                                   \/ (nodes[i].type = "NODE_UPSERT" /\ nodes[i].gen = g)
      /\ \A n \in NodesOf(g) : \E i \in DOMAIN nodes :
            nodes[i].type = "NODE_UPSERT" /\ nodes[i].id = n /\ nodes[i].gen = g
  BY <1>0, <1>1, <1>3
<1>5. /\ \A i \in DOMAIN edges : edges[i].type = "EDGE_DELETE"
                                   \/ (edges[i].type = "EDGE_UPSERT" /\ edges[i].gen = g)
      /\ \A n \in EdgesOf(g) : \E i \in DOMAIN edges :
            edges[i].type = "EDGE_UPSERT" /\ edges[i].id = n /\ edges[i].gen = g
  BY <1>0, <1>1, <1>3
<1>6. ASSUME NEW x \in UpsertsOf(k, g)
      PROVE  \E t \in Topics : \E i \in DOMAIN b[t] : EventId(k, b[t][i]) = x
  <2>1. \/ \E n \in NodesOf(g) : x = EventId(k, NodeUpsert(n, g))
        \/ \E e \in EdgesOf(g) : x = EventId(k, EdgeUpsert(e, g))
        \/ x = EventId(k, FileMetadataUpsert(k, g))
    BY DEF UpsertsOf
  <2>2. ASSUME NEW n \in NodesOf(g), x = EventId(k, NodeUpsert(n, g))
        PROVE  \E i \in DOMAIN b["cpg.nodes"] : EventId(k, b["cpg.nodes"][i]) = x
    <3>1. PICK i \in DOMAIN nodes :
            nodes[i].type = "NODE_UPSERT" /\ nodes[i].id = n /\ nodes[i].gen = g
      BY <1>4
    <3>2. EventId(k, nodes[i]) = x
      BY <2>2, <3>1 DEF EventId, NodeUpsert
    <3> QED
      BY <3>2 DEF nodes
  <2>3. ASSUME NEW n \in EdgesOf(g), x = EventId(k, EdgeUpsert(n, g))
        PROVE  \E i \in DOMAIN b["cpg.edges"] : EventId(k, b["cpg.edges"][i]) = x
    <3>1. PICK i \in DOMAIN edges :
            edges[i].type = "EDGE_UPSERT" /\ edges[i].id = n /\ edges[i].gen = g
      BY <1>5
    <3>2. EventId(k, edges[i]) = x
      BY <2>3, <3>1 DEF EventId, EdgeUpsert
    <3> QED
      BY <3>2 DEF edges
  <2>4. ASSUME x = EventId(k, FileMetadataUpsert(k, g))
        PROVE  \E i \in DOMAIN b["source.metadata"] : EventId(k, b["source.metadata"][i]) = x
    BY <1>2, <2>4
  <2>5. "cpg.nodes" \in Topics /\ "cpg.edges" \in Topics /\ "source.metadata" \in Topics
    BY DEF Topics
  <2>6. CASE \E n \in NodesOf(g) : x = EventId(k, NodeUpsert(n, g))
    <3>1. \E i \in DOMAIN b["cpg.nodes"] : EventId(k, b["cpg.nodes"][i]) = x
      BY <2>2, <2>6
    <3> QED
      BY <2>5, <3>1
  <2>7. CASE \E e \in EdgesOf(g) : x = EventId(k, EdgeUpsert(e, g))
    <3>1. \E i \in DOMAIN b["cpg.edges"] : EventId(k, b["cpg.edges"][i]) = x
      BY <2>3, <2>7
    <3> QED
      BY <2>5, <3>1
  <2>8. CASE x = EventId(k, FileMetadataUpsert(k, g))
    <3>1. \E i \in DOMAIN b["source.metadata"] : EventId(k, b["source.metadata"][i]) = x
      BY <2>4, <2>8
    <3> QED
      BY <2>5, <3>1
  <2> QED
    BY <2>1, <2>6, <2>7, <2>8
<1>7. \A h \in Generation : \A y \in UpsertsOf(k, h) :
        y[2] \in {"NODE_UPSERT", "EDGE_UPSERT", "FILE_METADATA_UPSERT"} /\ y[4] = h
  BY DEF UpsertsOf, EventId, NodeUpsert, EdgeUpsert, FileMetadataUpsert
<1>8. ASSUME NEW t \in Topics, NEW i \in DOMAIN b[t], NEW h \in Generation,
             EventId(k, b[t][i]) \in UpsertsOf(k, h)
      PROVE  h = g
  <2>1. b[t][i].type \in {"NODE_UPSERT", "EDGE_UPSERT", "FILE_METADATA_UPSERT"} /\ b[t][i].gen = h
    BY <1>7, <1>8 DEF EventId
  <2>2. b[t][i].type \notin {"NODE_DELETE", "EDGE_DELETE"}
    BY <2>1
  <2>3. CASE t = "cpg.nodes"
    BY <1>4, <2>1, <2>2, <2>3 DEF nodes
  <2>4. CASE t = "cpg.edges"
    BY <1>5, <2>1, <2>2, <2>4 DEF edges
  <2>5. CASE t = "source.metadata"
    <3>1. i = 1 /\ b[t][i] = FileMetadataUpsert(k, g)
      BY <1>2, <1>8, <2>5
    <3> QED
      BY <2>1, <3>1 DEF FileMetadataUpsert
  <2> QED
    BY <2>3, <2>4, <2>5 DEF Topics
<1> QED
  BY <1>6, <1>8 DEF WholeBatch, b, k, g

(* A step of the parser process that does not tear a publication.          *)
LEMMA StepGrows ==
  ASSUME ParserTyped, ParserTyped', LogInv, MetadataInv, [Next]_vars, log' # log => pc' # "down",
         NEW lo \in Offsets, UpTo(log, lo), Whole(log, lo, Ends(log))
  PROVE  Whole(log', lo, Ends(log'))
<1> USE DEF ParserTyped
<1>1. log \in Logs /\ log' \in Logs
  BY DEF TypeOK, Logs
<1>2. CASE log' = log
  BY <1>2
<1>3. CASE PublishBatch
  <2>1. pc = "staged" /\ Deliver(job.batch)
    BY <1>3 DEF PublishBatch
  <2>2. /\ job \in Job /\ job.file \in Files /\ JobGeneration \in Generation
        /\ job.batch \in [Topics -> Seq(Event)]
    BY <2>1, JobIs
  <2>3. WholeBatch(job.batch, job.file, JobGeneration)
    BY <2>1, StagedIsWhole DEF LogInv, MetadataInv
  <2>4. \A t \in Topics : log'[t][job.file] = log[t][job.file] \o job.batch[t]
    BY <2>1, <2>2, DeliverAppends
  <2>5. \A t \in Topics, f \in Files : f # job.file => log'[t][f] = log[t][f]
    BY <2>1, <2>2, DeliverAppends
  <2>6. PICK k, g, b : k = job.file /\ g = JobGeneration /\ b = job.batch
    OBVIOUS
  <2>7. /\ k \in Files /\ g \in Generation /\ b \in [Topics -> Seq(Event)] /\ WholeBatch(b, k, g)
        /\ \A t \in Topics : log'[t][k] = log[t][k] \o b[t]
        /\ \A t \in Topics, f \in Files : f # k => log'[t][f] = log[t][f]
    BY <2>2, <2>3, <2>4, <2>5, <2>6
  <2> QED
    BY <1>1, <2>7, WindowGrows, ZenonT(40)
<1>4. log' = log \/ PublishBatch \/ (PublishFails /\ pc' = "down")
  BY DEF vars, Next, RunNext, Proceed, Fault, Environment, Edit, Upgrade, StartRun, EndRun, ReadFile,
     SkipUnchanged, ParseFails, ParserRaises, StageEvents, PublishRejected, CommitState,
     ReportError, ReportErrorFails, ReportErrorDropped, ReportErrorRejected, AbortBeforePublish, CommitFails,
     Crash, PublishFails, Abort, Halt
<1> QED
  BY <1>2, <1>3, <1>4

(* What a reader has read: from lo up to its cursor, and not behind hi if  *)
(* the window has an end.                                                  *)
ReadAt(L, lo, hi, end, cur, f, t, x) ==
    \E i \in DOMAIN L[t][f] :
        /\ lo[t][f] < i /\ i <= cur[t][f] /\ (end => i <= hi[t][f])
        /\ EventId(f, L[t][f][i]) = x

InRead(L, lo, hi, end, cur, x) ==
    \E f \in Files, t \in Topics : ReadAt(L, lo, hi, end, cur, f, t, x)

(* One record more.                                                        *)
LEMMA ReadOne ==
  ASSUME NEW L \in Logs, NEW lo \in Offsets, NEW hi, NEW end, NEW cur \in Offsets,
         NEW t \in Topics, NEW f \in Files,
         lo[t][f] <= cur[t][f], cur[t][f] < Len(L[t][f]), NEW x
  PROVE  InRead(L, lo, hi, end, [cur EXCEPT ![t][f] = @ + 1], x)
           <=> \/ InRead(L, lo, hi, end, cur, x)
               \/ (end => cur[t][f] + 1 <= hi[t][f]) /\ EventId(f, L[t][f][cur[t][f] + 1]) = x
<1> DEFINE next == [cur EXCEPT ![t][f] = @ + 1]
           n == cur[t][f] + 1
<1>1. /\ \A s \in Topics, g \in Files : s # t \/ g # f => next[s][g] = cur[s][g]
      /\ next[t][f] = n
  BY DEF Offsets, Streams
<1>2. /\ L[t][f] \in Seq(Event) /\ Len(L[t][f]) \in Nat /\ cur[t][f] \in Nat /\ lo[t][f] \in Nat
      /\ DOMAIN L[t][f] = 1..Len(L[t][f])
  <2>1. L[t][f] \in Seq(Event)
    BY DEF Logs
  <2> QED
    BY <2>1 DEF Offsets, Streams
<1>3. n \in DOMAIN L[t][f] /\ lo[t][f] < n /\ n <= n
  BY <1>2
<1>4. \A i \in DOMAIN L[t][f] : i <= n <=> i <= cur[t][f] \/ i = n
  BY <1>2
<1> HIDE DEF next, n
<1>5. ReadAt(L, lo, hi, end, next, f, t, x)
        <=> \/ ReadAt(L, lo, hi, end, cur, f, t, x)
            \/ (end => n <= hi[t][f]) /\ EventId(f, L[t][f][n]) = x
  BY <1>1, <1>3, <1>4 DEF ReadAt
<1>6. \A g \in Files, s \in Topics : s # t \/ g # f =>
        (ReadAt(L, lo, hi, end, next, g, s, x) <=> ReadAt(L, lo, hi, end, cur, g, s, x))
  BY <1>1 DEF ReadAt
<1>7. InRead(L, lo, hi, end, next, x)
        <=> \/ InRead(L, lo, hi, end, cur, x)
            \/ (end => n <= hi[t][f]) /\ EventId(f, L[t][f][n]) = x
  BY <1>5, <1>6 DEF InRead
<1> QED
  BY <1>7 DEF next, n

(* Nothing has been read where reading starts.                             *)
LEMMA ReadNone ==
  ASSUME NEW L \in Logs, NEW lo \in Offsets, NEW hi, NEW end, NEW x
  PROVE  ~ InRead(L, lo, hi, end, lo, x)
<1> SUFFICES ASSUME NEW f \in Files, NEW t \in Topics, NEW i \in DOMAIN L[t][f],
                    lo[t][f] < i, i <= lo[t][f]
             PROVE  FALSE
  BY DEF InRead, ReadAt
<1>1. L[t][f] \in Seq(Event) /\ lo[t][f] \in Nat
  BY DEF Logs, Offsets, Streams
<1>2. i \in Nat
  BY <1>1
<1> QED
  BY <1>1, <1>2

(* What is appended has not been read.                                     *)
LEMMA ReadStays ==
  ASSUME NEW L \in Logs, NEW M \in Logs, NEW lo, NEW hi, NEW end, NEW cur \in Offsets,
         UpTo(L, cur),
         \A t \in Topics, f \in Files : \E u \in Seq(Event) : M[t][f] = L[t][f] \o u,
         NEW x
  PROVE  InRead(M, lo, hi, end, cur, x) <=> InRead(L, lo, hi, end, cur, x)
<1>1. ASSUME NEW t \in Topics, NEW f \in Files
      PROVE  ReadAt(M, lo, hi, end, cur, f, t, x) <=> ReadAt(L, lo, hi, end, cur, f, t, x)
  <2>1. PICK u \in Seq(Event) : M[t][f] = L[t][f] \o u
    BY <1>1
  <2>2. L[t][f] \in Seq(Event) /\ M[t][f] \in Seq(Event)
    BY DEF Logs
  <2>3. /\ \A i \in DOMAIN L[t][f] : i \in DOMAIN M[t][f] /\ M[t][f][i] = L[t][f][i]
        /\ \A i \in DOMAIN M[t][f] : i <= Len(L[t][f]) => i \in DOMAIN L[t][f]
        /\ Len(L[t][f]) \in Nat
    BY <2>1, <2>2, AppendedIs, SMTT(30)
  <2>4. cur[t][f] \in Nat /\ cur[t][f] <= Len(L[t][f])
    BY DEF Offsets, Streams, UpTo
  <2>5. \A i \in DOMAIN M[t][f] : i \in Nat
    BY <2>2
  <2>6. \A i \in DOMAIN M[t][f] : i <= cur[t][f] => i \in DOMAIN L[t][f]
    BY <2>3, <2>4, <2>5
  <2> QED
    BY <2>3, <2>6 DEF ReadAt
<1> QED
  BY <1>1 DEF InRead

(* A reader that has reached the end has read the window.                  *)
LEMMA ReadAll ==
  ASSUME NEW L \in Logs, NEW lo \in Offsets, NEW hi \in Offsets, NEW end \in BOOLEAN,
         NEW cur \in Offsets, UpTo(L, cur),
         \A t \in Topics, f \in Files : cur[t][f] >= IF end THEN hi[t][f] ELSE Len(L[t][f]),
         NEW k \in Files, NEW g \in Generation, NEW x \in UpsertsOf(k, g)
  PROVE  InRead(L, lo, hi, end, cur, x) <=> InWin(L, lo, IF end THEN hi ELSE Ends(L), k, x)
<1> DEFINE last == IF end THEN hi ELSE Ends(L)
<1>1. x[1] = k
  BY DEF UpsertsOf, EventId
<1>2. \A f \in Files, t \in Topics : ReadAt(L, lo, hi, end, cur, f, t, x) => f = k
  BY <1>1 DEF ReadAt, EventId
<1>3. ASSUME NEW t \in Topics, NEW i \in DOMAIN L[t][k]
      PROVE  (i <= cur[t][k] /\ (end => i <= hi[t][k])) <=> i <= last[t][k]
  <2>1. L[t][k] \in Seq(Event)
    BY DEF Logs
  <2>2. i \in Nat /\ i <= Len(L[t][k]) /\ Len(L[t][k]) \in Nat
    BY <2>1
  <2>3. cur[t][k] \in Nat /\ hi[t][k] \in Nat /\ Ends(L)[t][k] = Len(L[t][k])
        /\ cur[t][k] <= Len(L[t][k])
    BY EndsAre DEF Offsets, Streams, UpTo
  <2>4. CASE end
    <3>1. last = hi /\ hi[t][k] <= cur[t][k]
      BY <2>3, <2>4
    <3> HIDE DEF last
    <3> QED
      BY <2>2, <2>3, <2>4, <3>1
  <2>5. CASE ~ end
    <3>1. last[t][k] = Len(L[t][k]) /\ Len(L[t][k]) <= cur[t][k]
      BY <2>2, <2>3, <2>5
    <3> HIDE DEF last
    <3> QED
      BY <2>2, <2>3, <2>5, <3>1
  <2> QED
    BY <2>4, <2>5
<1> HIDE DEF last
<1>4. \A t \in Topics : ReadAt(L, lo, hi, end, cur, k, t, x)
        <=> \E i \in DOMAIN L[t][k] : lo[t][k] < i /\ i <= last[t][k] /\ EventId(k, L[t][k][i]) = x
  BY <1>3 DEF ReadAt
<1>5. InRead(L, lo, hi, end, cur, x) <=> InWin(L, lo, last, k, x)
  BY <1>2, <1>4 DEF InRead, InWin
<1> QED
  BY <1>5 DEF last

(***************************************************************************)
(* The script's progress.  As long as no publication is in parts or falls  *)
(* between two questions for the end offsets, the window holds whole       *)
(* publications while it is open and once it is closed, and what has been  *)
(* seen is what lies between its start and the cursor.                     *)
(***************************************************************************)
ScriptPlaced ==
    /\ stage \in {"idle", "before", "open", "after", "closed", "reading", "passed", "failed"}
    /\ bounded \in BOOLEAN
    /\ stage \in {"before", "after"} => asked \in 0..3
    /\ stage = "idle" => asked = 0 /\ before = Nowhere
    /\ stage \notin {"reading", "passed", "failed"} => seen = {}
    /\ UpTo(log, before) /\ UpTo(log, after)

ScriptReads ==
    stage = "reading" =>
        /\ cursor \in Offsets /\ UpTo(log, cursor)
        /\ \A t \in Topics, f \in Files : before[t][f] <= cursor[t][f]
        /\ \A x : x[2] # "PARSER_ERROR" =>
              (x \in seen <=> InRead(log, before, after, bounded, cursor, x))

WindowEnd == IF bounded THEN after ELSE Ends(log)

WindowSoFar ==
    ~ torn =>
        /\ stage = "before" => Asked(asked, before)
        /\ stage \in {"idle", "open", "after"} => Whole(log, before, Ends(log))
        /\ stage = "after" => Asked(asked, after)
        /\ stage = "closed" => Whole(log, before, after)
        /\ stage = "reading" => Whole(log, before, WindowEnd)

WindowInv ==
    tool = "script" => ScriptPlaced /\ ScriptReads /\ WindowSoFar /\ WindowIsWhole

LEMMA LogsAre == ParserTyped => log \in Logs
  BY DEF ParserTyped, TypeOK, Logs

LEMMA InitWindow == LiveInit => WindowInv
<1> SUFFICES ASSUME LiveInit PROVE ScriptPlaced /\ ScriptReads /\ WindowSoFar /\ WindowIsWhole
  BY DEF WindowInv
<1>1. /\ stage = "idle" /\ asked = 0 /\ bounded = TRUE /\ seen = {}
      /\ before = Nowhere /\ after = Nowhere
  BY DEF LiveInit, InspectionInit
<1>2. log \in Logs
  BY InitLiveBase, LogsAre DEF LiveBase
<1>3. \A t \in Topics, f \in Files : log[t][f] = << >>
  BY DEF LiveInit, PipelineInit, Init
<1>4. Nowhere \in Offsets /\ \A t \in Topics, f \in Files : Nowhere[t][f] = 0
  BY DEF Nowhere, Offsets, Streams
<1>5. \A t \in Topics, f \in Files : Ends(log)[t][f] = 0
  BY <1>2, <1>3, EndsAre
<1>6. Whole(log, Nowhere, Ends(log))
  BY <1>2, <1>4, <1>5, EmptyIsWhole
<1>7. UpTo(log, Nowhere)
  BY <1>3, <1>4 DEF UpTo
<1> QED
  BY <1>1, <1>6, <1>7 DEF ScriptPlaced, ScriptReads, WindowSoFar, WindowIsWhole

(* The parser process, while the script is at work.                        *)
LEMMA ScriptWaits ==
  ASSUME LiveBase, ParserTyped', WindowTyped, ScriptPlaced, ScriptReads, WindowSoFar, tool = "script",
         ParserMeanwhile
  PROVE  ScriptPlaced' /\ ScriptReads' /\ WindowSoFar' /\ WindowIsWhole'
<1>1. /\ ~ Over /\ Next /\ Remember
      /\ stage' = stage /\ UNCHANGED <<tool, asked, bounded, before, after, second, cursor, seen, heard>>
  BY DEF ParserMeanwhile, NotebookFollows, NotebookBusy, windowVars, readVars
<1>2. /\ ParserTyped /\ LogInv /\ MetadataInv
      /\ log \in Logs /\ log' \in Logs
      /\ before \in Offsets /\ after \in Offsets
  BY LogsAre DEF LiveBase, ScriptInv, ParserTyped, TypeOK, Logs, WindowTyped, Offsets, Streams
<1>3. \A t \in Topics, f \in Files : \E u \in Seq(Event) : log'[t][f] = log[t][f] \o u
  BY <1>1, <1>2, NextAppends DEF ParserTyped
<1>4. UpTo(log, before) /\ UpTo(log, after)
  BY DEF ScriptPlaced
<1>5. UpTo(log', before) /\ UpTo(log', after)
  BY <1>2, <1>3, <1>4, WindowStays
<1>6. ScriptPlaced'
  BY <1>1, <1>5 DEF ScriptPlaced
<1>7. ScriptReads'
  <2> SUFFICES ASSUME stage = "reading" PROVE ScriptReads'
    BY <1>1 DEF ScriptReads
  <2>1. /\ cursor \in Offsets /\ UpTo(log, cursor)
        /\ \A t \in Topics, f \in Files : before[t][f] <= cursor[t][f]
        /\ \A x : x[2] # "PARSER_ERROR" =>
              (x \in seen <=> InRead(log, before, after, bounded, cursor, x))
    BY DEF ScriptReads
  <2>2. UpTo(log', cursor)
    BY <1>2, <1>3, <2>1, WindowStays
  <2>3. \A x : InRead(log', before, after, bounded, cursor, x)
                 <=> InRead(log, before, after, bounded, cursor, x)
    BY <1>2, <1>3, <2>1, ReadStays
  <2> QED
    BY <1>1, <2>1, <2>2, <2>3 DEF ScriptReads
<1>8. WindowSoFar'
  <2> SUFFICES ASSUME ~ torn' PROVE WindowSoFar'
    BY DEF WindowSoFar
  <2>1. /\ ~ torn
        /\ log' # log => pc' # "down" /\ ~ (stage \in {"before", "after"} /\ asked > 0)
    BY <1>1 DEF Remember, Publishes
  <2>2. Whole(log, before, Ends(log)) => Whole(log', before, Ends(log'))
    BY <1>1, <1>2, <1>4, <2>1, StepGrows
  <2>3. Whole(log, before, after) => Whole(log', before, after)
    BY <1>2, <1>3, <1>4, WindowStays
  <2>4. stage = "before" => Asked(asked, before)'
    <3>1. CASE log' = log
      <4>1. \A i \in 1..3 : EndOffsets(TopicOrder[i])' = EndOffsets(TopicOrder[i])
        BY <3>1, EndOffsetsOfTopics
      <4> QED
        BY <1>1, <2>1, <4>1 DEF WindowSoFar, Asked, ScriptPlaced
    <3>2. CASE log' # log
      BY <1>1, <2>1, <3>2 DEF Asked, ScriptPlaced
    <3> QED
      BY <3>1, <3>2
  <2>5. stage = "after" => Asked(asked, after)'
    <3>1. CASE log' = log
      <4>1. \A i \in 1..3 : EndOffsets(TopicOrder[i])' = EndOffsets(TopicOrder[i])
        BY <3>1, EndOffsetsOfTopics
      <4> QED
        BY <1>1, <2>1, <4>1 DEF WindowSoFar, Asked, ScriptPlaced
    <3>2. CASE log' # log
      BY <1>1, <2>1, <3>2 DEF Asked, ScriptPlaced
    <3> QED
      BY <3>1, <3>2
  <2>6. stage \in {"idle", "open", "after"} => Whole(log', before, Ends(log'))
    BY <2>1, <2>2 DEF WindowSoFar
  <2>7. stage = "closed" => Whole(log', before, after)
    BY <2>1, <2>3 DEF WindowSoFar
  <2>8. stage = "reading" => Whole(log', before, WindowEnd')
    BY <1>1, <2>1, <2>2, <2>3 DEF WindowSoFar, WindowEnd
  <2> QED
    BY <1>1, <2>4, <2>5, <2>6, <2>7, <2>8 DEF WindowSoFar
<1>9. WindowIsWhole'
  BY <1>1 DEF WindowIsWhole, Over
<1> QED
  BY <1>6, <1>7, <1>8, <1>9

(* The verdict on a window that has been read to its end.                  *)
LEMMA ReadWindowIsWhole ==
  ASSUME ParserTyped, WindowTyped, ScriptPlaced, ScriptReads, WindowSoFar, ~ torn,
         stage = "reading", EverythingRead
  PROVE  \A f \in Files, g \in Generation :
            UpsertsOf(f, g) \subseteq seen \/ UpsertsOf(f, g) \cap seen = {}
<1>1. /\ log \in Logs /\ before \in Offsets /\ after \in Offsets /\ cursor \in Offsets
      /\ bounded \in BOOLEAN /\ UpTo(log, cursor)
  BY LogsAre DEF WindowTyped, Offsets, Streams, ScriptPlaced, ScriptReads
<1>2. \A t \in Topics, f \in Files : cursor[t][f] >= IF bounded THEN after[t][f] ELSE Len(log[t][f])
  BY StreamsAre DEF EverythingRead
<1>3. \A x : x[2] # "PARSER_ERROR" =>
        (x \in seen <=> InRead(log, before, after, bounded, cursor, x))
  BY DEF ScriptReads
<1>4. Whole(log, before, WindowEnd)
  BY DEF WindowSoFar
<1>5. ASSUME NEW f \in Files, NEW g \in Generation, NEW x \in UpsertsOf(f, g)
      PROVE  x \in seen <=> InWin(log, before, WindowEnd, f, x)
  <2>1. x[2] # "PARSER_ERROR"
    BY DEF UpsertsOf, EventId, NodeUpsert, EdgeUpsert, FileMetadataUpsert
  <2> QED
    BY <1>1, <1>2, <1>3, <2>1, ReadAll DEF WindowEnd
<1>6. ASSUME NEW f \in Files, NEW g \in Generation
      PROVE  UpsertsOf(f, g) \subseteq seen \/ UpsertsOf(f, g) \cap seen = {}
  <2>1. AllOrNone(log, before, WindowEnd, f, g)
    BY <1>4 DEF Whole
  <2> QED
    BY <1>5, <2>1 DEF AllOrNone
<1> QED
  BY <1>6

(* The script's own steps leave the parser process alone.                  *)
LEMMA ScriptAsks ==
  ASSUME ParserTyped, WindowTyped, ScriptPlaced, ScriptReads, WindowSoFar, tool = "script",
         AskBefore \/ AskAfter
  PROVE  ScriptPlaced' /\ ScriptReads' /\ WindowSoFar' /\ WindowIsWhole'
<1> DEFINE before1 == [before EXCEPT ![TopicOrder[asked + 1]] = EndOffsets(TopicOrder[asked + 1])]
           after1 == [after EXCEPT ![TopicOrder[asked + 1]] = EndOffsets(TopicOrder[asked + 1])]
<1>0. /\ log \in Logs /\ before \in [Streams -> [Files -> Nat]] /\ after \in [Streams -> [Files -> Nat]]
      /\ TypeOK /\ before \in Offsets /\ after \in Offsets
  BY LogsAre DEF ParserTyped, WindowTyped, Offsets, Streams
<1>1. asked \in 0..3 /\ UpTo(log, before) /\ UpTo(log, after) /\ bounded \in BOOLEAN
  BY DEF ScriptPlaced, AskBefore, AskAfter
<1>2. TopicOrder[asked + 1] \in Streams
  BY <1>1, TopicOrderIs
<1>3. ASSUME NEW w \in Offsets, UpTo(log, w)
      PROVE  LET v == [w EXCEPT ![TopicOrder[asked + 1]] = EndOffsets(TopicOrder[asked + 1])]
             IN  v \in Offsets /\ UpTo(log, v)
  <2>1. EndOffsets(TopicOrder[asked + 1]) \in [Files -> Nat]
    BY <1>0, <1>2, EndOffsetsTyped
  <2> QED
    BY <1>2, <1>3, <2>1, StreamsAre DEF Offsets, UpTo, EndOffsets
<1>4. ASSUME NEW w \in Offsets, Asked(4, w)
      PROVE  \A t \in Topics, f \in Files : w[t][f] = Ends(log)[t][f]
  <2> TAKE t \in Topics, f \in Files
  <2>1. w[t] = EndOffsets(t)
    BY <1>4, TopicOrderIs, StreamsAre DEF Asked
  <2>2. w[t][f] = Len(log[t][f])
    BY <2>1, StreamsAre DEF EndOffsets
  <2> QED
    BY <1>0, <2>2, EndsAre
<1>5. CASE AskBefore
  <2>1. /\ stage = "before" /\ asked' = asked + 1 /\ before' = before1
        /\ stage' = IF asked + 1 = 4 THEN "open" ELSE "before"
        /\ UNCHANGED <<vars, reports, tool, bounded, after, seen, torn>>
    BY <1>5, TopicOrderIs DEF AskBefore, Ask, readVars, inspectionHistory
  <2>2. UNCHANGED <<log, reports>>
    BY <2>1 DEF vars
  <2>3. before1 \in Offsets /\ UpTo(log, before1)
    BY <1>0, <1>1, <1>3
  <2>4. ~ torn => Asked(asked + 1, before1)
    BY <1>0, <1>1, <2>1, AskedNext DEF WindowSoFar
  <2> HIDE DEF before1
  <2>5. ScriptPlaced'
    BY <1>1, <2>1, <2>2, <2>3 DEF ScriptPlaced
  <2>6. ~ torn => Asked(asked, before)'
    <3>1. \A k, w : Asked(k, w) /\ asked' = k /\ before' = w => Asked(asked, before)'
      BY <2>2, EndOffsetsStay DEF Asked
    <3> QED
      BY <2>1, <2>4, <3>1
  <2>7. asked + 1 = 4 /\ ~ torn => Whole(log, before1, Ends(log))
    <3> SUFFICES ASSUME asked + 1 = 4, ~ torn PROVE Whole(log, before1, Ends(log))
      OBVIOUS
    <3>1. \A t \in Topics, f \in Files : before1[t][f] = Ends(log)[t][f]
      BY <1>4, <2>3, <2>4
    <3>2. \A t \in Topics, f \in Files : before1[t][f] \in Nat
      BY <2>3 DEF Offsets, Streams
    <3>3. \A t \in Topics, f \in Files : Ends(log)[t][f] <= before1[t][f] /\ Ends(log)[t][f] \in Nat
      BY <3>1, <3>2
    <3> QED
      BY <1>0, <2>3, <3>3, EmptyIsWhole
  <2>8. WindowSoFar'
    BY <2>1, <2>2, <2>6, <2>7 DEF WindowSoFar
  <2> QED
    BY <2>1, <2>5, <2>8 DEF ScriptReads, WindowIsWhole
<1>6. CASE AskAfter
  <2>1. /\ stage = "after" /\ asked' = asked + 1 /\ after' = after1
        /\ stage' = IF asked + 1 = 4 THEN "closed" ELSE "after"
        /\ UNCHANGED <<vars, reports, tool, bounded, before, seen, torn>>
    BY <1>6, TopicOrderIs DEF AskAfter, Ask, readVars, inspectionHistory
  <2>2. UNCHANGED <<log, reports>>
    BY <2>1 DEF vars
  <2>3. after1 \in Offsets /\ UpTo(log, after1)
    BY <1>0, <1>1, <1>3
  <2>4. ~ torn => Asked(asked + 1, after1) /\ Whole(log, before, Ends(log))
    BY <1>0, <1>1, <2>1, AskedNext DEF WindowSoFar
  <2> HIDE DEF after1
  <2>5. ScriptPlaced'
    BY <1>1, <2>1, <2>2, <2>3 DEF ScriptPlaced
  <2>6. ~ torn => Asked(asked, after)'
    <3>1. \A k, w : Asked(k, w) /\ asked' = k /\ after' = w => Asked(asked, after)'
      BY <2>2, EndOffsetsStay DEF Asked
    <3> QED
      BY <2>1, <2>4, <3>1
  <2>7. asked + 1 = 4 /\ ~ torn => Whole(log, before, after1)
    <3> SUFFICES ASSUME asked + 1 = 4, ~ torn PROVE Whole(log, before, after1)
      OBVIOUS
    <3>1. \A t \in Topics, f \in Files : after1[t][f] = Ends(log)[t][f]
      BY <1>4, <2>3, <2>4
    <3> QED
      BY <2>4, <3>1, SameWindow
  <2>8. WindowSoFar'
    BY <2>1, <2>2, <2>4, <2>6, <2>7 DEF WindowSoFar
  <2> QED
    BY <2>1, <2>5, <2>8 DEF ScriptReads, WindowIsWhole
<1> QED
  BY <1>5, <1>6

LEMMA ScriptPolls ==
  ASSUME ParserTyped, WindowTyped, ScriptPlaced, ScriptReads, WindowSoFar, tool = "script",
         NEW t \in Topics, NEW f \in Files, PollRecord(t, f)
  PROVE  ScriptPlaced' /\ ScriptReads' /\ WindowSoFar' /\ WindowIsWhole'
<1> DEFINE id == EventId(f, log[t][f][cursor[t][f] + 1])
           cursor1 == [cursor EXCEPT ![t][f] = @ + 1]
<1>1. /\ stage = "reading" /\ cursor[t][f] < Len(log[t][f]) /\ cursor' = cursor1
      /\ UNCHANGED <<log, tool, stage, asked, bounded, before, after, torn>>
  BY StreamsAre DEF PollRecord, vars, windowVars, inspectionHistory
<1>2. IF InWindow(t, f, cursor[t][f]) THEN seen' = seen \cup {id} ELSE seen' = seen
  BY StreamsAre DEF PollRecord
<1>3. /\ log \in Logs /\ before \in Offsets /\ after \in Offsets /\ cursor \in Offsets
      /\ UpTo(log, cursor)
      /\ \A s \in Topics, g \in Files : before[s][g] <= cursor[s][g]
      /\ \A x : x[2] # "PARSER_ERROR" =>
            (x \in seen <=> InRead(log, before, after, bounded, cursor, x))
  BY <1>1, LogsAre DEF WindowTyped, Offsets, Streams, ScriptReads
<1>4. InWindow(t, f, cursor[t][f]) <=> (bounded => cursor[t][f] + 1 <= after[t][f])
  <2>1. cursor[t][f] \in Nat /\ after[t][f] \in Nat
    BY <1>3 DEF Offsets, Streams
  <2> QED
    BY <2>1 DEF InWindow
<1>5. \A x : InRead(log, before, after, bounded, cursor1, x)
        <=> \/ InRead(log, before, after, bounded, cursor, x)
            \/ (bounded => cursor[t][f] + 1 <= after[t][f]) /\ id = x
  BY <1>1, <1>3, ReadOne
<1>6. /\ cursor1 \in Offsets /\ UpTo(log, cursor1)
      /\ \A s \in Topics, g \in Files : before[s][g] <= cursor1[s][g]
  <2>1. /\ \A s \in Topics, g \in Files : s # t \/ g # f => cursor1[s][g] = cursor[s][g]
        /\ cursor1[t][f] = cursor[t][f] + 1
        /\ cursor1 \in [Streams -> [Files -> Nat]]
    BY <1>3 DEF Offsets, Streams
  <2>2. /\ cursor[t][f] \in Nat /\ before[t][f] \in Nat /\ before[t][f] <= cursor[t][f]
        /\ Len(log[t][f]) \in Nat
    <3>1. log[t][f] \in Seq(Event)
      BY <1>3 DEF Logs
    <3> QED
      BY <1>3, <3>1 DEF Offsets, Streams
  <2> HIDE DEF cursor1
  <2>3. before[t][f] <= cursor1[t][f] /\ cursor1[t][f] <= Len(log[t][f])
    BY <1>1, <2>1, <2>2
  <2>4. \A s \in Topics, g \in Files : before[s][g] <= cursor1[s][g] /\ cursor1[s][g] <= Len(log[s][g])
    BY <1>3, <2>1, <2>3 DEF UpTo
  <2> QED
    BY <2>1, <2>4 DEF Offsets, Streams, UpTo
<1> HIDE DEF id, cursor1
<1>7. \A x : x[2] # "PARSER_ERROR" =>
        (x \in seen' <=> InRead(log, before, after, bounded, cursor1, x))
  BY <1>2, <1>3, <1>4, <1>5
<1>8. ScriptReads'
  BY <1>1, <1>6, <1>7 DEF ScriptReads
<1>9. ScriptPlaced'
  BY <1>1 DEF ScriptPlaced
<1>10. WindowSoFar'
  BY <1>1 DEF WindowSoFar, WindowEnd
<1> QED
  BY <1>1, <1>8, <1>9, <1>10 DEF WindowIsWhole

(* A report says nothing of what was published.                            *)
LEMMA ScriptPollsReport ==
  ASSUME ParserTyped, WindowTyped, ScriptPlaced, ScriptReads, WindowSoFar, tool = "script",
         NEW f \in Files, PollRecord("parser.errors", f)
  PROVE  ScriptPlaced' /\ ScriptReads' /\ WindowSoFar' /\ WindowIsWhole'
<1> DEFINE n == cursor["parser.errors"][f] + 1
           cursor1 == [cursor EXCEPT !["parser.errors"][f] = @ + 1]
<1>1. /\ stage = "reading" /\ cursor["parser.errors"][f] < Len(reports[f]) /\ cursor' = cursor1
      /\ seen' = seen \/ seen' = seen \cup {EventId(f, reports[f][n])}
      /\ UNCHANGED <<log, tool, stage, asked, bounded, before, after, torn>>
  BY StreamsAre DEF PollRecord, vars, windowVars, inspectionHistory
<1>2. /\ log \in Logs /\ cursor \in Offsets /\ UpTo(log, cursor)
      /\ \A s \in Topics, g \in Files : before[s][g] <= cursor[s][g]
      /\ \A x : x[2] # "PARSER_ERROR" =>
            (x \in seen <=> InRead(log, before, after, bounded, cursor, x))
  BY <1>1, LogsAre DEF ScriptReads
<1>3. EventId(f, reports[f][n])[2] = "PARSER_ERROR"
  <2>1. reports[f] \in Seq(Report) /\ cursor["parser.errors"][f] \in Nat
    BY <1>2 DEF WindowTyped, Offsets, Streams
  <2>2. n \in 1..Len(reports[f])
    BY <1>1, <2>1
  <2>3. reports[f][n] \in Report
    BY <2>1, <2>2
  <2> QED
    BY <2>3 DEF EventId, Report
<1>4. cursor1 \in Offsets /\ \A s \in Topics : cursor1[s] = cursor[s]
  <2>1. cursor["parser.errors"][f] + 1 \in Nat
    BY <1>2 DEF Offsets, Streams
  <2> QED
    BY <1>2, <2>1, StreamsAre DEF Offsets
<1> HIDE DEF n, cursor1
<1>5. \A x : InRead(log, before, after, bounded, cursor1, x)
               <=> InRead(log, before, after, bounded, cursor, x)
  BY <1>4 DEF InRead, ReadAt
<1>6. UpTo(log, cursor1) /\ \A s \in Topics, g \in Files : before[s][g] <= cursor1[s][g]
  BY <1>2, <1>4 DEF UpTo
<1>7. \A x : x[2] # "PARSER_ERROR" => (x \in seen' <=> x \in seen)
  BY <1>1, <1>3
<1>8. ScriptReads'
  BY <1>1, <1>2, <1>4, <1>5, <1>6, <1>7 DEF ScriptReads
<1>9. ScriptPlaced'
  BY <1>1 DEF ScriptPlaced
<1>10. WindowSoFar'
  BY <1>1 DEF WindowSoFar, WindowEnd
<1> QED
  BY <1>1, <1>8, <1>9, <1>10 DEF WindowIsWhole

LEMMA ScriptMoves ==
  ASSUME ParserTyped, WindowTyped, ScriptPlaced, ScriptReads, WindowSoFar, tool = "script",
         OpenWindow \/ CloseWindow \/ Listen
  PROVE  ScriptPlaced' /\ ScriptReads' /\ WindowSoFar' /\ WindowIsWhole'
<1>0. /\ log \in Logs /\ before \in Offsets /\ after \in Offsets
      /\ UpTo(log, before) /\ UpTo(log, after) /\ bounded \in BOOLEAN
  BY LogsAre DEF WindowTyped, Offsets, Streams, ScriptPlaced
<1>1. CASE OpenWindow
  <2>1. /\ stage = "idle" /\ stage' = "before" /\ asked = 0
        /\ UNCHANGED <<log, tool, asked, bounded, before, after, seen, torn>>
    BY <1>1 DEF OpenWindow, vars, windowVars, readVars, inspectionHistory, ScriptPlaced
  <2>2. Asked(asked, before)'
    BY <2>1 DEF Asked
  <2> QED
    BY <1>0, <2>1, <2>2 DEF ScriptPlaced, ScriptReads, WindowSoFar, WindowIsWhole
<1>2. CASE CloseWindow
  <2>1. /\ stage = "open" /\ stage' = "after" /\ asked' = 0
        /\ UNCHANGED <<log, tool, bounded, before, after, seen, torn>>
    BY <1>2 DEF CloseWindow, vars, readVars, inspectionHistory
  <2>2. Asked(asked, after)'
    BY <2>1 DEF Asked
  <2>3. ~ torn => Whole(log, before, Ends(log))
    BY <2>1 DEF WindowSoFar
  <2>4. ScriptPlaced'
    BY <2>1 DEF ScriptPlaced
  <2>5. WindowSoFar'
    BY <2>1, <2>2, <2>3 DEF WindowSoFar
  <2> QED
    BY <2>1, <2>4, <2>5 DEF ScriptReads, WindowIsWhole
<1>3. CASE Listen
  <2>1. /\ stage' = "reading" /\ cursor' = before
        /\ (stage = "closed" /\ bounded' = TRUE) \/ (stage = "idle" /\ bounded' = FALSE)
        /\ UNCHANGED <<log, tool, asked, before, after, seen, torn>>
    BY <1>3 DEF Listen, vars, inspectionHistory, ScriptPlaced
  <2>2. seen = {}
    BY <2>1 DEF ScriptPlaced
  <2>3. \A x : ~ InRead(log, before, after, bounded', before, x)
    BY <1>0, ReadNone
  <2>4. \A t \in Topics, f \in Files : before[t][f] <= before[t][f]
    BY <1>0 DEF Offsets, Streams
  <2>5. ScriptReads'
    BY <1>0, <2>1, <2>2, <2>3, <2>4 DEF ScriptReads
  <2>6. ~ torn => Whole(log, before, IF bounded' THEN after ELSE Ends(log))
    BY <2>1 DEF WindowSoFar
  <2>7. WindowSoFar'
    BY <2>1, <2>6 DEF WindowSoFar, WindowEnd
  <2>8. ScriptPlaced'
    BY <1>0, <2>1 DEF ScriptPlaced
  <2> QED
    BY <2>1, <2>5, <2>7, <2>8 DEF WindowIsWhole
<1> QED
  BY <1>1, <1>2, <1>3

LEMMA ScriptStops ==
  ASSUME ParserTyped, WindowTyped, ScriptPlaced, ScriptReads, WindowSoFar, WindowIsWhole, tool = "script",
         PollNothing \/ ListeningBreaks
  PROVE  ScriptPlaced' /\ ScriptReads' /\ WindowSoFar' /\ WindowIsWhole'
<1>1. /\ stage = "reading"
      /\ UNCHANGED <<log, tool, asked, bounded, before, after, cursor, seen, torn>>
      /\ Verdict \/ stage' = stage
  BY DEF PollNothing, ListeningBreaks, vars, windowVars, readVars
<1>2. CASE stage' = stage
  <2>1. WindowEnd' = WindowEnd
    BY <1>1 DEF WindowEnd
  <2> QED
    BY <1>1, <1>2, <2>1 DEF ScriptPlaced, ScriptReads, WindowSoFar, WindowIsWhole
<1>3. CASE Verdict
  <2>1. stage' \in {"passed", "failed"} /\ heard' = EverythingRead
    BY <1>3 DEF Verdict
  <2>2. ~ torn /\ heard' =>
          \A f \in Files, g \in Generation :
             UpsertsOf(f, g) \subseteq seen \/ UpsertsOf(f, g) \cap seen = {}
    BY <1>1, <2>1, ReadWindowIsWhole
  <2>3. WindowIsWhole'
    BY <1>1, <2>2 DEF WindowIsWhole
  <2>4. ScriptPlaced'
    BY <1>1, <2>1 DEF ScriptPlaced
  <2> QED
    BY <2>1, <2>3, <2>4 DEF ScriptReads, WindowSoFar
<1> QED
  BY <1>1, <1>2, <1>3

LEMMA NextWindow ==
  ASSUME LiveBase, LiveBase', WindowTyped, WindowInv, [LiveNext]_liveVars
  PROVE  WindowInv'
<1>1. CASE UNCHANGED <<log, inspectionVars>>
  <2>1. UNCHANGED <<log, reports, tool, stage, asked, bounded, before, after, cursor, seen, torn, heard>>
    BY <1>1 DEF inspectionVars, windowVars, readVars, inspectionHistory
  <2>2. WindowEnd' = WindowEnd /\ Asked(asked, before)' = Asked(asked, before) /\ Asked(asked, after)' = Asked(asked, after)
    BY <2>1, EndOffsetsStay DEF WindowEnd, Asked
  <2> QED
    BY <2>1, <2>2 DEF WindowInv, ScriptPlaced, ScriptReads, WindowSoFar, WindowIsWhole
<1>2. CASE tool = "notebook"
  <2>1. tool' = tool
    BY InspectionStepIs, LiveStepIs DEF LiveBase, inspectionVars
  <2> QED
    BY <1>2, <2>1 DEF WindowInv
<1>3. CASE tool = "script" /\ InspectionNext
  <2>1. /\ ParserTyped /\ ParserTyped'
        /\ ScriptPlaced /\ ScriptReads /\ WindowSoFar /\ WindowIsWhole
    BY <1>3 DEF LiveBase, WindowInv
  <2>2. ~ NotebookBegins /\ ~ NotebookReads /\ ~ NotebookCompares
    BY <1>3 DEF NotebookBegins, NotebookReads, NotebookCompares
  <2>3. ScriptPlaced' /\ ScriptReads' /\ WindowSoFar' /\ WindowIsWhole'
    BY <1>3, <2>1, <2>2, ScriptWaits, ScriptAsks, ScriptPolls, ScriptPollsReport,
       ScriptMoves, ScriptStops, StreamsAre DEF InspectionNext, InspectionStep
  <2> QED
    BY <2>3 DEF WindowInv
<1>4. task = "topics" \/ tool = "notebook"
  BY DEF LiveBase, TaskInv
<1>5. tool \in {"script", "notebook"}
  BY DEF LiveBase, TaskInv
<1>6. InspectionNext \/ task # "topics" \/ UNCHANGED liveVars
  BY DEF LiveNext
<1>7. UNCHANGED liveVars => UNCHANGED <<log, inspectionVars>>
  BY DEF liveVars, vars
<1> QED
  BY <1>1, <1>2, <1>3, <1>4, <1>5, <1>6, <1>7

(* What the script of Task 3 has read when it stops with its window used   *)
(* up are whole generations, be the window between two sets of offsets or  *)
(* all there is: the offsets, though asked topic by topic, bracket the     *)
(* same publications everywhere, unless a publication was torn or fell     *)
(* between the questions.                                                  *)
THEOREM WindowsAreWhole == LiveSpec => []WindowIsWhole
<1>1. LiveInit => LiveBase /\ WindowTyped /\ WindowInv
  <2> SUFFICES ASSUME LiveInit PROVE LiveBase /\ WindowTyped /\ WindowInv
    OBVIOUS
  <2> QED
    BY InitLiveBase, InitWindowTyped, InitWindow
<1>2. LiveBase /\ WindowTyped /\ WindowInv /\ [LiveNext]_liveVars
        => LiveBase' /\ WindowTyped' /\ WindowInv'
  BY NextLiveBase, NextWindowTyped, NextWindow
<1>3. LiveBase /\ WindowInv => WindowIsWhole
  BY DEF WindowInv, WindowIsWhole
<1> QED
  BY <1>1, <1>2, <1>3, PTL DEF LiveSpec

-----------------------------------------------------------------------------
(***************************************************************************)
(* Event ids.  The records of a file are looked at as sequences by topic,  *)
(* be they those of its log or of a batch.                                 *)
(***************************************************************************)
Batches == [Topics -> Seq(Event)]

Records(d) == UNION {Range(d[t]) : t \in Topics}

Distinct(d, f) ==
    \A s, t \in Topics : \A i \in DOMAIN d[s], j \in DOMAIN d[t] :
        EventId(f, d[s][i]) = EventId(f, d[t][j]) => s = t /\ i = j

LEMMA RecordsAre ==
  ASSUME NEW d, NEW x
  PROVE  x \in Records(d) <=> \E t \in Topics : \E i \in DOMAIN d[t] : x = d[t][i]
  BY DEF Records, Range

(* Appending a batch whose ids are new.                                    *)
LEMMA DistinctGrows ==
  ASSUME NEW L \in Batches, NEW D \in Batches, NEW M,
         \A t \in Topics : M[t] = L[t] \o D[t], NEW f
  PROVE  /\ Records(M) = Records(L) \cup Records(D)
         /\ Distinct(L, f) /\ Distinct(D, f)
              /\ (\A x \in Records(L), y \in Records(D) : EventId(f, x) # EventId(f, y))
            => Distinct(M, f)
<1>1. ASSUME NEW t \in Topics
      PROVE  /\ \A i \in DOMAIN L[t] : i \in DOMAIN M[t] /\ M[t][i] = L[t][i]
             /\ \A i \in DOMAIN D[t] : Len(L[t]) + i \in DOMAIN M[t] /\ M[t][Len(L[t]) + i] = D[t][i]
             /\ \A i \in DOMAIN M[t] : i \notin DOMAIN L[t] =>
                  i - Len(L[t]) \in DOMAIN D[t] /\ M[t][i] = D[t][i - Len(L[t])]
             /\ Len(L[t]) \in Nat /\ \A i \in DOMAIN M[t] : i \in Nat
  <2>1. L[t] \in Seq(Event) /\ D[t] \in Seq(Event) /\ M[t] = L[t] \o D[t]
    BY DEF Batches
  <2> DEFINE s == L[t]
             c == D[t]
  <2>2. s \in Seq(Event) /\ c \in Seq(Event) /\ M[t] = s \o c
    BY <2>1
  <2> HIDE DEF s, c
  <2>3. /\ DOMAIN s = 1..Len(s) /\ DOMAIN c = 1..Len(c) /\ Len(s) \in Nat /\ Len(c) \in Nat
        /\ DOMAIN M[t] = 1..(Len(s) + Len(c))
        /\ \A i \in 1..Len(s) : M[t][i] = s[i]
        /\ \A i \in 1..Len(c) : M[t][Len(s) + i] = c[i]
        /\ \A i \in DOMAIN M[t] :
             i \notin 1..Len(s) => i - Len(s) \in 1..Len(c) /\ M[t][i] = c[i - Len(s)]
    BY <2>2, AppendedIs
  <2>4. \A i \in 1..Len(s) : i \in 1..(Len(s) + Len(c))
    BY <2>3
  <2>5. \A i \in 1..Len(c) : Len(s) + i \in 1..(Len(s) + Len(c))
    BY <2>3
  <2>6. \A i \in DOMAIN M[t] : i \in Nat
    BY <2>3
  <2> QED
    BY <2>3, <2>4, <2>5, <2>6 DEF s, c
<1>2. Records(M) = Records(L) \cup Records(D)
  <2>1. ASSUME NEW x \in Records(M) PROVE x \in Records(L) \cup Records(D)
    <3>1. PICK t \in Topics : \E i \in DOMAIN M[t] : x = M[t][i]
      BY <2>1, RecordsAre
    <3>2. PICK i \in DOMAIN M[t] : x = M[t][i]
      BY <3>1
    <3>3. CASE i \in DOMAIN L[t]
      <4>1. x = L[t][i]
        BY <1>1, <3>2, <3>3
      <4> QED
        BY <3>3, <4>1, RecordsAre
    <3>4. CASE i \notin DOMAIN L[t]
      <4>1. i - Len(L[t]) \in DOMAIN D[t] /\ x = D[t][i - Len(L[t])]
        BY <1>1, <3>2, <3>4
      <4> QED
        BY <4>1, RecordsAre
    <3> QED
      BY <3>3, <3>4
  <2>2. ASSUME NEW x \in Records(L) PROVE x \in Records(M)
    <3>1. PICK t \in Topics : \E i \in DOMAIN L[t] : x = L[t][i]
      BY <2>2, RecordsAre
    <3>2. \E i \in DOMAIN M[t] : x = M[t][i]
      BY <1>1, <3>1
    <3> QED
      BY <3>2, RecordsAre
  <2>3. ASSUME NEW x \in Records(D) PROVE x \in Records(M)
    <3>1. PICK t \in Topics : \E i \in DOMAIN D[t] : x = D[t][i]
      BY <2>3, RecordsAre
    <3>2. \E i \in DOMAIN M[t] : x = M[t][i]
      BY <1>1, <3>1
    <3> QED
      BY <3>2, RecordsAre
  <2> QED
    BY <2>1, <2>2, <2>3
<1>3. ASSUME Distinct(L, f), Distinct(D, f),
             \A x \in Records(L), y \in Records(D) : EventId(f, x) # EventId(f, y)
      PROVE  Distinct(M, f)
  <2> SUFFICES ASSUME NEW s \in Topics, NEW t \in Topics,
                      NEW i \in DOMAIN M[s], NEW j \in DOMAIN M[t],
                      EventId(f, M[s][i]) = EventId(f, M[t][j])
               PROVE  s = t /\ i = j
    BY DEF Distinct
  <2>1. \A u \in Topics : \A k \in DOMAIN L[u] : L[u][k] \in Records(L)
    BY RecordsAre
  <2>2. \A u \in Topics : \A k \in DOMAIN D[u] : D[u][k] \in Records(D)
    BY RecordsAre
  <2>3. CASE i \in DOMAIN L[s] /\ j \in DOMAIN L[t]
    <3>1. EventId(f, L[s][i]) = EventId(f, L[t][j])
      BY <1>1, <2>3
    <3> QED
      BY <1>3, <2>3, <3>1 DEF Distinct
  <2>4. CASE i \notin DOMAIN L[s] /\ j \notin DOMAIN L[t]
    <3>1. /\ i - Len(L[s]) \in DOMAIN D[s] /\ j - Len(L[t]) \in DOMAIN D[t]
          /\ EventId(f, D[s][i - Len(L[s])]) = EventId(f, D[t][j - Len(L[t])])
      BY <1>1, <2>4
    <3>2. s = t /\ i - Len(L[s]) = j - Len(L[t])
      BY <1>3, <3>1 DEF Distinct
    <3>3. Len(L[s]) \in Nat /\ i \in Nat /\ j \in Nat
      BY <1>1, <3>2
    <3> QED
      BY <3>2, <3>3
  <2>5. CASE i \in DOMAIN L[s] /\ j \notin DOMAIN L[t]
    <3>1. M[s][i] \in Records(L) /\ M[t][j] \in Records(D)
      BY <1>1, <2>1, <2>2, <2>5
    <3> QED
      BY <1>3, <3>1
  <2>6. CASE i \notin DOMAIN L[s] /\ j \in DOMAIN L[t]
    <3>1. M[s][i] \in Records(D) /\ M[t][j] \in Records(L)
      BY <1>1, <2>1, <2>2, <2>6
    <3> QED
      BY <1>3, <3>1
  <2> QED
    BY <2>3, <2>4, <2>5, <2>6
<1> QED
  BY <1>2, <1>3

(* A part of a batch.                                                      *)
LEMMA PartIsDistinct ==
  ASSUME NEW B \in Batches, NEW D, D = [t \in Topics |-> D[t]],
         \A t \in Topics : D[t] \in Subsequences(B[t]), NEW f
  PROVE  /\ D \in Batches
         /\ Records(D) \subseteq Records(B)
         /\ Distinct(B, f) => Distinct(D, f)
<1>1. ASSUME NEW t \in Topics
      PROVE  /\ D[t] \in Seq(Event)
             /\ \E ix \in [DOMAIN D[t] -> DOMAIN B[t]] :
                  /\ \A i \in DOMAIN D[t] : D[t][i] = B[t][ix[i]]
                  /\ \A i, j \in DOMAIN D[t] : ix[i] = ix[j] => i = j
  <2>0. B[t] \in Seq(Event) /\ D[t] \in Subsequences(B[t])
    BY DEF Batches
  <2> DEFINE s == B[t]
             u == D[t]
  <2>1. s \in Seq(Event) /\ u \in Subsequences(s)
    BY <2>0
  <2> HIDE DEF s, u
  <2>2. u \in Seq(Event)
    BY <2>1, SubsequenceRange
  <2>3. PICK k \in 0..Len(s) :
          u \in {[i \in 1..k |-> s[ix[i]]] :
                   ix \in {g \in [1..k -> DOMAIN s] :
                             \A i, j \in 1..k : i < j => g[i] < g[j]}}
    BY <2>1 DEF Subsequences
  <2>4. PICK ix \in [1..k -> DOMAIN s] :
          u = [i \in 1..k |-> s[ix[i]]] /\ \A i, j \in 1..k : i < j => ix[i] < ix[j]
    BY <2>3
  <2>5. DOMAIN u = 1..k /\ k \in Nat /\ DOMAIN s = 1..Len(s)
    BY <2>1, <2>4
  <2>6. \A i \in 1..k : ix[i] \in 1..Len(s)
    BY <2>4, <2>5
  <2>7. \A i, j \in 1..k : ix[i] = ix[j] => i = j
    BY <2>1, <2>4, <2>5, <2>6
  <2> QED
    BY <2>2, <2>4, <2>5, <2>7, SMTT(30) DEF s, u
<1>2. D \in Batches
  BY <1>1 DEF Batches
<1>3. ASSUME NEW x \in Records(D) PROVE x \in Records(B)
  <2>1. PICK t \in Topics : \E i \in DOMAIN D[t] : x = D[t][i]
    BY <1>3, RecordsAre
  <2>2. \E i \in DOMAIN B[t] : x = B[t][i]
    BY <1>1, <2>1
  <2> QED
    BY <2>2, RecordsAre
<1>4. ASSUME Distinct(B, f) PROVE Distinct(D, f)
  <2> SUFFICES ASSUME NEW s \in Topics, NEW t \in Topics,
                      NEW i \in DOMAIN D[s], NEW j \in DOMAIN D[t],
                      EventId(f, D[s][i]) = EventId(f, D[t][j])
               PROVE  s = t /\ i = j
    BY DEF Distinct
  <2>1. PICK ix \in [DOMAIN D[s] -> DOMAIN B[s]] :
          /\ \A k \in DOMAIN D[s] : D[s][k] = B[s][ix[k]]
          /\ \A k, l \in DOMAIN D[s] : ix[k] = ix[l] => k = l
    BY <1>1
  <2>2. PICK jx \in [DOMAIN D[t] -> DOMAIN B[t]] :
          \A k \in DOMAIN D[t] : D[t][k] = B[t][jx[k]]
    BY <1>1
  <2>3. EventId(f, B[s][ix[i]]) = EventId(f, B[t][jx[j]]) /\ ix[i] \in DOMAIN B[s] /\ jx[j] \in DOMAIN B[t]
    BY <2>1, <2>2
  <2>4. s = t
    BY <1>4, <2>3 DEF Distinct
  <2>5. D[t][j] = B[s][ix[j]] /\ ix[j] \in DOMAIN B[s] /\ j \in DOMAIN D[s]
    BY <2>1, <2>4
  <2>6. EventId(f, B[s][ix[i]]) = EventId(f, B[s][ix[j]])
    BY <2>1, <2>5
  <2>7. ix[i] = ix[j]
    BY <1>4, <2>3, <2>5, <2>6 DEF Distinct
  <2> QED
    BY <2>1, <2>4, <2>5, <2>7
<1> QED
  BY <1>2, <1>3, <1>4

(***************************************************************************)
(* The batch of a file.                                                    *)
(***************************************************************************)
Upserting == {"NODE_UPSERT", "EDGE_UPSERT", "FILE_METADATA_UPSERT"}
Deleting == {"NODE_DELETE", "EDGE_DELETE"}

ElementsOf(row, type) == IF type = "NODE_DELETE" THEN row.nodes ELSE row.edges

(* An event of the change from a row to generation g.                      *)
IsChange(row, g, x) ==
    \/ x.type \in Upserting /\ x.gen = g
    \/ /\ x.type \in Deleting /\ row # NoRow /\ x.gen = <<row.hash, g[2]>>
       /\ x.id \in ElementsOf(row, x.type) /\ x.id \notin ElementsOf(RowFor(g), x.type)

(* Deletes and then upserts, of different elements each.                   *)
Apart(D, U) ==
    /\ \A i \in 1..Len(D), j \in 1..Len(U) : D[i].type # U[j].type
    /\ \A i, j \in 1..Len(D) : D[i].id = D[j].id => i = j
    /\ \A i, j \in 1..Len(U) : U[i].id = U[j].id => i = j

Joined(s, D, U, f) ==
    /\ \A i \in DOMAIN s : \/ \E k \in 1..Len(D) : s[i] = D[k]
                           \/ \E k \in 1..Len(U) : s[i] = U[k]
    /\ \A i, j \in DOMAIN s : EventId(f, s[i]) = EventId(f, s[j]) => i = j

LEMMA HalvesAreDistinct ==
  ASSUME NEW D \in Seq(Event), NEW U \in Seq(Event), Apart(D, U), NEW f
  PROVE  Joined(D \o U, D, U, f)
<1> DEFINE s == D \o U
<1>1. /\ DOMAIN s = 1..(Len(D) + Len(U)) /\ Len(D) \in Nat /\ Len(U) \in Nat
      /\ \A i \in 1..Len(D) : s[i] = D[i]
      /\ \A i \in DOMAIN s : i \notin 1..Len(D) => i - Len(D) \in 1..Len(U) /\ s[i] = U[i - Len(D)]
  BY AppendedIs
<1> HIDE DEF s
<1>2. ASSUME NEW i \in DOMAIN s, NEW j \in DOMAIN s, EventId(f, s[i]) = EventId(f, s[j])
      PROVE  i = j
  <2>1. s[i].type = s[j].type /\ s[i].id = s[j].id
    BY <1>2 DEF EventId
  <2>2. CASE i \in 1..Len(D) /\ j \in 1..Len(D)
    <3>1. D[i].id = D[j].id
      BY <1>1, <2>1, <2>2
    <3> QED
      BY <2>2, <3>1 DEF Apart
  <2>3. CASE i \notin 1..Len(D) /\ j \notin 1..Len(D)
    <3>1. PICK k \in 1..Len(U), l \in 1..Len(U) :
            k = i - Len(D) /\ l = j - Len(D) /\ s[i] = U[k] /\ s[j] = U[l]
      BY <1>1, <2>3
    <3>2. k = l
      BY <2>1, <3>1 DEF Apart
    <3>3. i \in Int /\ j \in Int
      BY <1>1
    <3> QED
      BY <1>1, <3>1, <3>2, <3>3
  <2>4. CASE i \in 1..Len(D) /\ j \notin 1..Len(D)
    <3>1. PICK l \in 1..Len(U) : s[j] = U[l]
      BY <1>1, <2>4
    <3> QED
      BY <1>1, <2>1, <2>4, <3>1 DEF Apart
  <2>5. CASE i \notin 1..Len(D) /\ j \in 1..Len(D)
    <3>1. PICK k \in 1..Len(U) : s[i] = U[k]
      BY <1>1, <2>5
    <3> QED
      BY <1>1, <2>1, <2>5, <3>1 DEF Apart
  <2> QED
    BY <2>2, <2>3, <2>4, <2>5
<1>3. \A i \in DOMAIN s : \/ \E k \in 1..Len(D) : s[i] = D[k]
                          \/ \E k \in 1..Len(U) : s[i] = U[k]
  BY <1>1
<1> QED
  BY <1>2, <1>3 DEF Joined, s

(* The events of one topic, all of them different.                         *)
IsSent(s, types, row, g, f) ==
    /\ \A i \in DOMAIN s : s[i].type \in types /\ IsChange(row, g, s[i])
    /\ \A i, j \in DOMAIN s : EventId(f, s[i]) = EventId(f, s[j]) => i = j

(* The events on nodes, and on edges.                                      *)
LEMMA SentAreDistinct ==
  ASSUME NEW g \in Generation, NEW row \in Row \cup {NoRow},
         NEW dn \in SetToSeqs(RemovedNodes(row, g)),
         NEW de \in SetToSeqs(RemovedEdges(row, g)), NEW f
  PROVE  /\ IsSent(NodesToSend(row, g, dn), {"NODE_UPSERT", "NODE_DELETE"}, row, g, f)
         /\ IsSent(EdgesToSend(row, g, de), {"EDGE_UPSERT", "EDGE_DELETE"}, row, g, f)
<1>1. /\ RemovedNodes(row, g) \subseteq Nodes /\ RemovedEdges(row, g) \subseteq Edges
      /\ IsFiniteSet(RemovedNodes(row, g)) /\ IsFiniteSet(RemovedEdges(row, g))
  <2>1. RemovedNodes(row, g) \subseteq Nodes /\ RemovedEdges(row, g) \subseteq Edges
    BY DEF RemovedNodes, RowNodes, RemovedEdges, RowEdges, Row
  <2> QED
    BY <2>1, CpgAssumption, FS_Subset
<1>2. RowFor(g).nodes = NodesOf(g) /\ RowFor(g).edges = EdgesOf(g)
  BY DEF RowFor
<1> DEFINE old == DeleteGeneration(row, g)
<1>3. old \in Generation /\ (row # NoRow => old = <<row.hash, g[2]>>)
  BY DeleteGenerationIs DEF DeleteGeneration
<1> HIDE DEF old
<1>4. ASSUME NEW S, IsFiniteSet(S), NEW q \in SetToSeqs(S)
      PROVE  /\ DOMAIN q = 1..Len(q) /\ Len(q) \in Nat
             /\ \A i \in 1..Len(q) : q[i] \in S
             /\ \A i, j \in 1..Len(q) : q[i] = q[j] => i = j
  <2>1. /\ Len(q) = Cardinality(S) /\ Len(q) \in Nat /\ DOMAIN q = 1..Len(q)
        /\ {q[i] : i \in 1..Len(q)} = S
    BY <1>4, OrderingIsOnto
  <2>2. \A i, j \in 1..Cardinality(S) : i # j => q[i] # q[j]
    BY DEF SetToSeqs
  <2>3. \A i \in 1..Len(q) : q[i] \in S
    BY <2>1
  <2> QED
    BY <2>1, <2>2, <2>3
<1>5. IsSent(NodesToSend(row, g, dn), {"NODE_UPSERT", "NODE_DELETE"}, row, g, f)
  <2> DEFINE u == ParsedNodes[g]
             D == [i \in DOMAIN dn |-> NodeDelete(dn[i], old)]
             U == [i \in DOMAIN u |-> NodeUpsert(u[i], g)]
             s == NodesToSend(row, g, dn)
  <2>1. s = D \o U
    BY DEF NodesToSend, old
  <2>2. /\ DOMAIN dn = 1..Len(dn) /\ Len(dn) \in Nat
        /\ \A i \in 1..Len(dn) : dn[i] \in RemovedNodes(row, g)
        /\ \A i, j \in 1..Len(dn) : dn[i] = dn[j] => i = j
    BY <1>1, <1>4
  <2>3. /\ u \in Seq(Nodes) /\ Len(u) \in Nat /\ DOMAIN u = 1..Len(u)
        /\ \A i, j \in 1..Len(u) : u[i] = u[j] => i = j
    BY CpgAssumption, ParsedOnceAssumption DEF IsInjective
  <2> HIDE DEF u, s
  <2>4. \A x \in Nodes : NodeUpsert(x, g) \in Event /\ NodeDelete(x, old) \in Event
    BY <1>3 DEF NodeUpsert, NodeDelete, Event, NodeEvent
  <2>5. D \in Seq(Event) /\ Len(D) = Len(dn) /\ \A i \in 1..Len(dn) : D[i] = NodeDelete(dn[i], old)
    <3>1. D \in [1..Len(dn) -> Event]
      BY <1>1, <2>2, <2>4
    <3> QED
      BY <2>2, <3>1
  <2>6. U \in Seq(Event) /\ Len(U) = Len(u) /\ \A i \in 1..Len(u) : U[i] = NodeUpsert(u[i], g)
    <3>1. U \in [1..Len(u) -> Event]
      BY <2>3, <2>4
    <3> QED
      BY <2>3, <3>1
  <2> HIDE DEF D, U
  <2>7. /\ \A i \in 1..Len(D) : D[i].type = "NODE_DELETE" /\ D[i].id = dn[i] /\ D[i].gen = old
        /\ \A i \in 1..Len(U) : U[i].type = "NODE_UPSERT" /\ U[i].id = u[i] /\ U[i].gen = g
    BY <2>5, <2>6, EventParts
  <2>8. /\ \A i \in DOMAIN s : (\E k \in 1..Len(D) : s[i] = D[k]) \/ (\E k \in 1..Len(U) : s[i] = U[k])
        /\ \A i, j \in DOMAIN s : EventId(f, s[i]) = EventId(f, s[j]) => i = j
    <3>1. \A i, j \in 1..Len(D) : D[i].id = D[j].id => i = j
      BY <2>2, <2>5, <2>7
    <3>2. \A i, j \in 1..Len(U) : U[i].id = U[j].id => i = j
      BY <2>3, <2>6, <2>7
    <3>3. \A i \in 1..Len(D), j \in 1..Len(U) : D[i].type # U[j].type
      BY <2>7
    <3>4. Apart(D, U)
      BY <3>1, <3>2, <3>3 DEF Apart
    <3>5. Joined(s, D, U, f)
      BY <2>1, <2>5, <2>6, <3>4, HalvesAreDistinct
    <3> QED
      BY <3>5 DEF Joined
  <2>9. \A n \in RemovedNodes(row, g) : row # NoRow /\ n \in row.nodes /\ n \notin NodesOf(g)
    BY DEF RemovedNodes, RowNodes
  <2>10. \A k \in 1..Len(D) : IsChange(row, g, D[k])
    BY <1>2, <1>3, <2>2, <2>5, <2>7, <2>9 DEF IsChange, Deleting, ElementsOf
  <2>11. \A k \in 1..Len(U) : IsChange(row, g, U[k])
    BY <2>7 DEF IsChange, Upserting
  <2>12. \A i \in DOMAIN s : s[i].type \in {"NODE_UPSERT", "NODE_DELETE"} /\ IsChange(row, g, s[i])
    BY <2>7, <2>8, <2>10, <2>11
  <2> QED
    BY <2>8, <2>12 DEF s, IsSent
<1>6. IsSent(EdgesToSend(row, g, de), {"EDGE_UPSERT", "EDGE_DELETE"}, row, g, f)
  <2> DEFINE u == ParsedEdges[g]
             D == [i \in DOMAIN de |-> EdgeDelete(de[i], old)]
             U == [i \in DOMAIN u |-> EdgeUpsert(u[i], g)]
             s == EdgesToSend(row, g, de)
  <2>1. s = D \o U
    BY DEF EdgesToSend, old
  <2>2. /\ DOMAIN de = 1..Len(de) /\ Len(de) \in Nat
        /\ \A i \in 1..Len(de) : de[i] \in RemovedEdges(row, g)
        /\ \A i, j \in 1..Len(de) : de[i] = de[j] => i = j
    BY <1>1, <1>4
  <2>3. /\ u \in Seq(Edges) /\ Len(u) \in Nat /\ DOMAIN u = 1..Len(u)
        /\ \A i, j \in 1..Len(u) : u[i] = u[j] => i = j
    BY CpgAssumption, ParsedOnceAssumption DEF IsInjective
  <2> HIDE DEF u, s
  <2>4. \A x \in Edges : EdgeUpsert(x, g) \in Event /\ EdgeDelete(x, old) \in Event
    BY <1>3 DEF EdgeUpsert, EdgeDelete, Event, EdgeEvent
  <2>5. D \in Seq(Event) /\ Len(D) = Len(de) /\ \A i \in 1..Len(de) : D[i] = EdgeDelete(de[i], old)
    <3>1. D \in [1..Len(de) -> Event]
      BY <1>1, <2>2, <2>4
    <3> QED
      BY <2>2, <3>1
  <2>6. U \in Seq(Event) /\ Len(U) = Len(u) /\ \A i \in 1..Len(u) : U[i] = EdgeUpsert(u[i], g)
    <3>1. U \in [1..Len(u) -> Event]
      BY <2>3, <2>4
    <3> QED
      BY <2>3, <3>1
  <2> HIDE DEF D, U
  <2>7. /\ \A i \in 1..Len(D) : D[i].type = "EDGE_DELETE" /\ D[i].id = de[i] /\ D[i].gen = old
        /\ \A i \in 1..Len(U) : U[i].type = "EDGE_UPSERT" /\ U[i].id = u[i] /\ U[i].gen = g
    BY <2>5, <2>6, EventParts
  <2>8. /\ \A i \in DOMAIN s : (\E k \in 1..Len(D) : s[i] = D[k]) \/ (\E k \in 1..Len(U) : s[i] = U[k])
        /\ \A i, j \in DOMAIN s : EventId(f, s[i]) = EventId(f, s[j]) => i = j
    <3>1. \A i, j \in 1..Len(D) : D[i].id = D[j].id => i = j
      BY <2>2, <2>5, <2>7
    <3>2. \A i, j \in 1..Len(U) : U[i].id = U[j].id => i = j
      BY <2>3, <2>6, <2>7
    <3>3. \A i \in 1..Len(D), j \in 1..Len(U) : D[i].type # U[j].type
      BY <2>7
    <3>4. Apart(D, U)
      BY <3>1, <3>2, <3>3 DEF Apart
    <3>5. Joined(s, D, U, f)
      BY <2>1, <2>5, <2>6, <3>4, HalvesAreDistinct
    <3> QED
      BY <3>5 DEF Joined
  <2>9. \A n \in RemovedEdges(row, g) : row # NoRow /\ n \in row.edges /\ n \notin EdgesOf(g)
    BY DEF RemovedEdges, RowEdges
  <2>10. \A k \in 1..Len(D) : IsChange(row, g, D[k])
    BY <1>2, <1>3, <2>2, <2>5, <2>7, <2>9 DEF IsChange, Deleting, ElementsOf
  <2>11. \A k \in 1..Len(U) : IsChange(row, g, U[k])
    BY <2>7 DEF IsChange, Upserting
  <2>12. \A i \in DOMAIN s : s[i].type \in {"EDGE_UPSERT", "EDGE_DELETE"} /\ IsChange(row, g, s[i])
    BY <2>7, <2>8, <2>10, <2>11
  <2> QED
    BY <2>8, <2>12 DEF s, IsSent
<1> QED
  BY <1>5, <1>6

LEMMA StagedAreDistinct ==
  ASSUME NEW f \in Files, NEW g \in Generation, NEW row \in Row \cup {NoRow},
         NEW dn \in SetToSeqs(RemovedNodes(row, g)),
         NEW de \in SetToSeqs(RemovedEdges(row, g)),
         NEW b, b = EventsToSend(f, row, g, dn, de)
  PROVE  Distinct(b, f) /\ \A x \in Records(b) : IsChange(row, g, x)
<1> DEFINE nodes == NodesToSend(row, g, dn)
           edges == EdgesToSend(row, g, de)
<1>1. /\ b["cpg.nodes"] = nodes /\ b["cpg.edges"] = edges
      /\ b["source.metadata"] = << FileMetadataUpsert(f, g) >>
  BY DEF EventsToSend, Topics
<1>a. /\ IsSent(nodes, {"NODE_UPSERT", "NODE_DELETE"}, row, g, f)
      /\ IsSent(edges, {"EDGE_UPSERT", "EDGE_DELETE"}, row, g, f)
  BY SentAreDistinct
<1> HIDE DEF nodes, edges
<1>2. /\ \A i \in DOMAIN nodes : nodes[i].type \in {"NODE_UPSERT", "NODE_DELETE"} /\ IsChange(row, g, nodes[i])
      /\ \A i, j \in DOMAIN nodes : EventId(f, nodes[i]) = EventId(f, nodes[j]) => i = j
      /\ \A i \in DOMAIN edges : edges[i].type \in {"EDGE_UPSERT", "EDGE_DELETE"} /\ IsChange(row, g, edges[i])
      /\ \A i, j \in DOMAIN edges : EventId(f, edges[i]) = EventId(f, edges[j]) => i = j
  BY <1>a DEF IsSent
<1>3. /\ DOMAIN b["source.metadata"] = {1}
      /\ b["source.metadata"][1].type = "FILE_METADATA_UPSERT"
      /\ b["source.metadata"][1].gen = g
  BY <1>1 DEF FileMetadataUpsert
<1>4. ASSUME NEW s \in Topics, NEW t \in Topics, NEW i \in DOMAIN b[s], NEW j \in DOMAIN b[t],
             b[s][i].type = b[t][j].type
      PROVE  s = t
  <2>1. \A k \in DOMAIN b["cpg.nodes"] : b["cpg.nodes"][k].type \in {"NODE_UPSERT", "NODE_DELETE"}
    BY <1>1, <1>2
  <2>2. \A k \in DOMAIN b["cpg.edges"] : b["cpg.edges"][k].type \in {"EDGE_UPSERT", "EDGE_DELETE"}
    BY <1>1, <1>2
  <2>3. \A k \in DOMAIN b["source.metadata"] : b["source.metadata"][k].type = "FILE_METADATA_UPSERT"
    BY <1>3
  <2> QED
    BY <1>4, <2>1, <2>2, <2>3 DEF Topics
<1>5. ASSUME NEW t \in Topics, NEW i \in DOMAIN b[t], NEW j \in DOMAIN b[t],
             EventId(f, b[t][i]) = EventId(f, b[t][j])
      PROVE  i = j
  BY <1>1, <1>2, <1>3, <1>5 DEF Topics
<1>6. Distinct(b, f)
  <2> SUFFICES ASSUME NEW s \in Topics, NEW t \in Topics, NEW i \in DOMAIN b[s], NEW j \in DOMAIN b[t],
                      EventId(f, b[s][i]) = EventId(f, b[t][j])
               PROVE  s = t /\ i = j
    BY DEF Distinct
  <2>1. b[s][i].type = b[t][j].type
    BY DEF EventId
  <2>2. s = t
    BY <1>4, <2>1
  <2> QED
    BY <1>5, <2>2
<1>7. ASSUME NEW x \in Records(b) PROVE IsChange(row, g, x)
  <2>1. PICK t \in Topics : \E i \in DOMAIN b[t] : x = b[t][i]
    BY <1>7, RecordsAre
  <2>2. PICK i \in DOMAIN b[t] : x = b[t][i]
    BY <2>1
  <2>3. CASE t = "cpg.nodes"
    BY <1>1, <1>2, <2>2, <2>3
  <2>4. CASE t = "cpg.edges"
    BY <1>1, <1>2, <2>2, <2>4
  <2>5. CASE t = "source.metadata"
    BY <1>3, <2>2, <2>5 DEF IsChange, Upserting
  <2> QED
    BY <2>3, <2>4, <2>5 DEF Topics
<1> QED
  BY <1>6, <1>7

(***************************************************************************)
(* Why ids are new, for a file none of whose publications repeated.  After *)
(* a commit no record of the file is of a later version than the row; no   *)
(* upsert of the running version is, unless the file is unchanged; and no  *)
(* delete that names the content and the version of the row is of an       *)
(* element that the row has.                                               *)
(***************************************************************************)
LogOf(f) == [t \in Topics |-> log[t][f]]

BatchOnce ==
    pc = "staged" =>
        /\ Distinct(job.batch, job.file)
        /\ \A x \in Records(job.batch) : IsChange(store[job.file], JobGeneration, x)
        /\ ~ Unchanged(store[job.file], JobGeneration)

PublishedOnce ==
    pc = "published" /\ job.file \notin repeated =>
        /\ abandoned[job.file] = {JobGeneration}
        /\ \A x \in Records(LogOf(job.file)) :
              x.type \in Deleting /\ x.gen = JobGeneration =>
                 x.id \notin ElementsOf(RowFor(JobGeneration), x.type)

RowLeads(f) ==
    \A x \in Records(LogOf(f)) :
        /\ x.type \in Upserting => store[f] # NoRow /\ x.gen[2] <= store[f].version
        /\ x.type \in Deleting /\ store[f] # NoRow /\ x.gen[1] = store[f].hash =>
             /\ x.gen[2] <= store[f].version
             /\ x.gen[2] = store[f].version => x.id \notin ElementsOf(store[f], x.type)

FileHistory(f) ==
    /\ store[f] # NoRow => store[f].version <= version
    /\ \A x \in Records(LogOf(f)) :
         /\ x.gen[2] <= version
         /\ x.type \in Deleting =>
              \E y \in Records(LogOf(f)) : y.type \in Upserting /\ y.gen[1] = x.gen[1]
    /\ f \notin repeated =>
         /\ Distinct(LogOf(f), f)
         /\ abandoned[f] = {} => RowLeads(f)

IdsInv == BatchOnce /\ PublishedOnce /\ \A f \in Files : FileHistory(f)

LEMMA EventIsOne ==
  ASSUME NEW d \in Batches, NEW x \in Records(d)
  PROVE  /\ x.gen \in Generation /\ x.gen[1] \in Contents /\ x.gen[2] \in Nat
         /\ x.gen = <<x.gen[1], x.gen[2]>>
         /\ x.type \in Upserting \/ x.type \in Deleting
<1>1. PICK t \in Topics : \E i \in DOMAIN d[t] : x = d[t][i]
  BY RecordsAre
<1>2. PICK i \in DOMAIN d[t] : x = d[t][i]
  BY <1>1
<1>3. d[t] \in Seq(Event)
  BY DEF Batches
<1>4. x \in Event
  BY <1>2, <1>3
<1>5. x.gen \in Generation /\ (x.type \in Upserting \/ x.type \in Deleting)
  BY <1>4 DEF Event, NodeEvent, EdgeEvent, MetadataEvent, Upserting, Deleting
<1>6. \A v \in Versions : v \in Nat
  BY CpgAssumption DEF Versions
<1> QED
  BY <1>5, <1>6 DEF Generation

LEMMA LogOfIs ==
  ASSUME TypeOK, NEW f \in Files
  PROVE  LogOf(f) \in Batches /\ \A t \in Topics : LogOf(f)[t] = log[t][f]
  BY DEF LogOf, Batches, TypeOK

LEMMA UpsertedAre ==
  ASSUME NEW f, NEW x \in Records(LogOf(f)), x.type \in Upserting
  PROVE  x.gen \in UpsertedGenerations(f)
<1>1. x \in UNION {Range(log[t][f]) : t \in Topics}
  BY DEF Records, LogOf
<1> QED
  BY <1>1 DEF UpsertedGenerations, Upserting

(* What a delivery adds to the records of the file.                        *)
LEMMA DeliveredIs ==
  ASSUME TypeOK, TypeOK', job \in Job, NEW D \in Batches, Deliver(D), NEW f \in Files, f = job.file
  PROVE  /\ Records(LogOf(f)') = Records(LogOf(f)) \cup Records(D)
         /\ Distinct(LogOf(f), f) /\ Distinct(D, f)
              /\ (\A x \in Records(LogOf(f)), y \in Records(D) : EventId(f, x) # EventId(f, y))
            => Distinct(LogOf(f)', f)
         /\ \A h \in Files : h # f => LogOf(h)' = LogOf(h)
<1>1. \A t \in Topics : log'[t][f] = log[t][f] \o D[t]
  BY DeliverAppends DEF Batches
<1>2. LogOf(f) \in Batches /\ \A t \in Topics : LogOf(f)[t] = log[t][f]
  BY LogOfIs
<1>3. \A t \in Topics : LogOf(f)'[t] = log'[t][f]
  BY DEF LogOf
<1>4. \A t \in Topics : LogOf(f)'[t] = LogOf(f)[t] \o D[t]
  BY <1>1, <1>2, <1>3
<1>5. \A t \in Topics, h \in Files : h # f => log'[t][h] = log[t][h]
  BY DeliverAppends DEF Batches
<1>6. \A h \in Files : h # f => LogOf(h)' = LogOf(h)
  BY <1>5 DEF LogOf
<1>7. \A L, M : /\ L = LogOf(f) /\ M = LogOf(f)'
                => /\ Records(M) = Records(L) \cup Records(D)
                   /\ Distinct(L, f) /\ Distinct(D, f)
                        /\ (\A x \in Records(L), y \in Records(D) : EventId(f, x) # EventId(f, y))
                      => Distinct(M, f)
  <2> TAKE L, M
  <2> HAVE L = LogOf(f) /\ M = LogOf(f)'
  <2>1. L \in Batches /\ D \in Batches /\ \A t \in Topics : M[t] = L[t] \o D[t]
    BY <1>2, <1>4
  <2>2. Records(M) = Records(L) \cup Records(D)
    BY ONLY <2>1, DistinctGrows
  <2>3. ASSUME Distinct(L, f), Distinct(D, f),
               \A x \in Records(L), y \in Records(D) : EventId(f, x) # EventId(f, y)
        PROVE  Distinct(M, f)
    BY ONLY <2>1, <2>3, DistinctGrows
  <2> QED
    BY <2>2, <2>3
<1> QED
  BY <1>6, <1>7

(* A delivery for a file with no publication undone, of a content that is  *)
(* not one of before the row's.                                            *)
LEMMA DeliveredIsNew ==
  ASSUME BackedInv, IdsInv, pc = "staged", job.file \notin repeated, ~ Again,
         NEW f \in Files, f = job.file, NEW g \in Generation, g = JobGeneration,
         NEW x \in Records(LogOf(f))
  PROVE  /\ x.type \in Deleting => x.gen # g
         /\ \A y \in Records(job.batch) : EventId(f, x) # EventId(f, y)
<1>1. /\ abandoned[f] = {} /\ ~ ComesBack /\ RowLeads(f)
      /\ ~ Unchanged(store[f], g)
      /\ \A y \in Records(job.batch) : IsChange(store[f], g, y)
  BY DEF Again, IdsInv, FileHistory, BatchOnce
<1>2. /\ g[1] = job.content /\ g[2] = version /\ g = <<g[1], g[2]>>
      /\ g[2] \in Nat
      /\ store[f] \in Row \cup {NoRow}
  <2>1. version \in Nat
    BY CpgAssumption DEF BackedInv, TypeOK, Versions
  <2> QED
    BY <2>1 DEF JobGeneration, BackedInv, TypeOK
<1>3. store[f] # NoRow => store[f].version <= g[2] /\ store[f].version \in Nat
  <2>1. store[f] # NoRow => store[f].version \in Versions
    BY <1>2 DEF Row
  <2>2. store[f] # NoRow => store[f].version <= version
    BY DEF IdsInv, FileHistory
  <2> QED
    BY <1>2, <2>1, <2>2, CpgAssumption DEF Versions
<1>4. /\ x.gen \in Generation /\ x.gen[2] \in Nat
      /\ x.gen = <<x.gen[1], x.gen[2]>>
      /\ x.type \in Upserting \/ x.type \in Deleting
  BY LogOfIs, EventIsOne DEF BackedInv
<1>5. ASSUME NEW y \in Records(LogOf(f)), y.type \in Upserting, y.gen[1] = g[1]
      PROVE  store[f] # NoRow /\ store[f].hash = g[1]
  <2>1. y.gen \in UpsertedGenerations(job.file) /\ y.gen[1] = job.content
    BY <1>2, <1>5, UpsertedAre
  <2> QED
    BY <1>1, <1>2, <2>1 DEF ComesBack
<1>6. store[f] # NoRow /\ store[f].hash = g[1] => store[f].version # g[2]
  BY <1>1, <1>2 DEF Unchanged
<1>7. ASSUME x.type \in Deleting PROVE x.gen # g
  <2> SUFFICES ASSUME x.gen = g PROVE FALSE
    OBVIOUS
  <2>1. PICK y \in Records(LogOf(f)) : y.type \in Upserting /\ y.gen[1] = g[1]
    BY <1>7 DEF IdsInv, FileHistory
  <2>2. store[f] # NoRow /\ store[f].hash = g[1] /\ store[f].version # g[2]
    BY <1>5, <1>6, <2>1
  <2>3. g[2] <= store[f].version
    BY <1>1, <1>7, <2>2 DEF RowLeads
  <2> QED
    BY <1>2, <1>3, <2>2, <2>3
<1>8. ASSUME NEW y \in Records(job.batch), EventId(f, x) = EventId(f, y) PROVE FALSE
  <2>1. x.type = y.type /\ x.id = y.id /\ x.gen = y.gen
    BY <1>8 DEF EventId
  <2>2. IsChange(store[f], g, y)
    BY <1>1
  <2>3. CASE y.type \in Upserting /\ y.gen = g
    <3>1. store[f] # NoRow /\ store[f].hash = g[1] /\ store[f].version # g[2]
      BY <1>5, <1>6, <2>1, <2>3
    <3>2. g[2] <= store[f].version
      BY <1>1, <2>1, <2>3 DEF RowLeads
    <3> QED
      BY <1>2, <1>3, <3>1, <3>2
  <2>4. CASE /\ y.type \in Deleting /\ store[f] # NoRow /\ y.gen = <<store[f].hash, g[2]>>
             /\ y.id \in ElementsOf(store[f], y.type)
    <3>1. x.type \in Deleting /\ x.gen[1] = store[f].hash /\ x.gen[2] = g[2]
          /\ x.id \in ElementsOf(store[f], x.type)
      BY <2>1, <2>4
    <3>2. g[2] <= store[f].version /\ g[2] # store[f].version
      BY <1>1, <2>4, <3>1 DEF RowLeads
    <3> QED
      BY <1>2, <1>3, <2>4, <3>2
  <2> QED
    BY <2>2, <2>3, <2>4 DEF IsChange
<1> QED
  BY <1>7, <1>8

(* What is left alone of a file, whatever is deployed.                     *)
LEMMA HistoryFrame ==
  ASSUME TypeOK, NEW f \in Files, FileHistory(f), LogOf(f)' = LogOf(f), store'[f] = store[f],
         version' \in Nat, version <= version', abandoned'[f] = abandoned[f] \/ abandoned'[f] # {},
         f \in repeated => f \in repeated'
  PROVE  FileHistory(f)'
<1>1. version \in Nat /\ LogOf(f) \in Batches
  BY LogOfIs, CpgAssumption DEF TypeOK, Versions
<1>2. \A x \in Records(LogOf(f)) : x.gen[2] \in Nat
  BY <1>1, EventIsOne
<1>3. \A x \in Records(LogOf(f)) : x.gen[2] <= version'
  BY <1>1, <1>2 DEF FileHistory
<1>4. store[f] # NoRow => store[f].version <= version'
  <2>1. store[f] # NoRow => store[f].version \in Nat
    BY CpgAssumption DEF TypeOK, Row, Versions
  <2> QED
    BY <1>1, <2>1 DEF FileHistory
<1>5. RowLeads(f)' <=> RowLeads(f)
  BY DEF RowLeads
<1> QED
  BY <1>3, <1>4, <1>5 DEF FileHistory

(* The records of the file after a delivery of the batch, or of a part.    *)
LEMMA DeliveryKeeps ==
  ASSUME BackedInv, BackedInv', IdsInv, pc = "staged",
         NEW D \in Batches, Deliver(D), Distinct(D, job.file), Records(D) \subseteq Records(job.batch),
         UNCHANGED <<store, version>>,
         abandoned' = [abandoned EXCEPT ![job.file] = @ \cup {JobGeneration}],
         repeated' = IF Publishes /\ Again THEN repeated \cup {job.file} ELSE repeated
  PROVE  /\ \A h \in Files : FileHistory(h)'
         /\ \A h \in Files : h = job.file /\ Publishes /\ h \notin repeated' =>
              /\ abandoned'[h] = {JobGeneration}
              /\ \A x \in Records(LogOf(h)') :
                    x.type \in Deleting /\ x.gen = JobGeneration =>
                       x.id \notin ElementsOf(RowFor(JobGeneration), x.type)
<1>a. PICK f \in Files, g \in Generation : f = job.file /\ g = JobGeneration
  BY JobIs DEF BackedInv
<1>0. job \in Job /\ TypeOK /\ TypeOK'
  BY JobIs DEF BackedInv
<1>1. /\ abandoned'[f] = abandoned[f] \cup {g}
      /\ \A h \in Files : h # f => abandoned'[h] = abandoned[h]
  BY <1>0, <1>a DEF TypeOK
<1>2. /\ Records(LogOf(f)') = Records(LogOf(f)) \cup Records(D)
      /\ Distinct(LogOf(f), f) /\ Distinct(D, f)
           /\ (\A x \in Records(LogOf(f)), y \in Records(D) : EventId(f, x) # EventId(f, y))
         => Distinct(LogOf(f)', f)
      /\ \A h \in Files : h # f => LogOf(h)' = LogOf(h)
  BY <1>0, <1>a, DeliveredIs
<1>3. version \in Nat /\ version' = version /\ g[2] = version
  BY <1>0, <1>a, CpgAssumption DEF TypeOK, Versions, JobGeneration
<1>4. ASSUME NEW h \in Files, h # f PROVE FileHistory(h)'
  BY <1>0, <1>1, <1>2, <1>3, <1>4, HistoryFrame DEF IdsInv
<1>5. \A y \in Records(D) : IsChange(store[f], g, y)
  BY <1>a DEF IdsInv, BatchOnce
<1>6. ASSUME Publishes, f \notin repeated'
      PROVE  /\ Distinct(LogOf(f)', f)
             /\ abandoned'[f] = {g}
             /\ \A x \in Records(LogOf(f)') :
                   x.type \in Deleting /\ x.gen = g => x.id \notin ElementsOf(RowFor(g), x.type)
  <2>1. f \notin repeated /\ ~ Again
    BY <1>6, <1>a
  <2>2. \A x \in Records(LogOf(f)) :
          /\ x.type \in Deleting => x.gen # g
          /\ \A y \in Records(job.batch) : EventId(f, x) # EventId(f, y)
    BY <1>a, <2>1, DeliveredIsNew
  <2>3. Distinct(LogOf(f), f)
    BY <2>1 DEF IdsInv, FileHistory
  <2>4. Distinct(LogOf(f)', f)
    BY <1>2, <1>a, <2>2, <2>3
  <2>5. abandoned'[f] = {g}
    BY <1>1, <1>a, <2>1 DEF Again
  <2>6. ASSUME NEW x \in Records(D), x.type \in Deleting PROVE x.id \notin ElementsOf(RowFor(g), x.type)
    BY <1>5, <2>6 DEF IsChange, Upserting, Deleting
  <2> QED
    BY <1>2, <2>2, <2>4, <2>5, <2>6
<1>7. FileHistory(f)'
  <2>1. store'[f] # NoRow => store'[f].version <= version'
    BY DEF IdsInv, FileHistory
  <2>2. ASSUME NEW x \in Records(LogOf(f)')
        PROVE  /\ x.gen[2] <= version'
               /\ x.type \in Deleting =>
                    \E y \in Records(LogOf(f)') : y.type \in Upserting /\ y.gen[1] = x.gen[1]
    <3>1. CASE x \in Records(LogOf(f))
      BY <1>2, <1>3, <3>1 DEF IdsInv, FileHistory
    <3>2. CASE x \in Records(D)
      <4>1. IsChange(store[f], g, x)
        BY <1>5, <3>2
      <4>2. x.gen[2] = g[2]
        BY <4>1 DEF IsChange
      <4>3. ASSUME x.type \in Deleting
            PROVE  \E y \in Records(LogOf(f)) : y.type \in Upserting /\ y.gen[1] = x.gen[1]
        <5>1. store[f] # NoRow /\ x.gen[1] = store[f].hash
          BY <4>1, <4>3 DEF IsChange, Upserting, Deleting
        <5> DEFINE y == FileMetadataUpsert(f, <<store[f].hash, store[f].version>>)
        <5>2. y \in Range(log["source.metadata"][f])
          BY <5>1 DEF BackedInv, StoreBackedByLog, FullyPublished
        <5>3. y \in Records(LogOf(f))
          BY <5>2 DEF Records, LogOf, Topics
        <5>4. y.type \in Upserting /\ y.gen[1] = store[f].hash
          BY DEF FileMetadataUpsert, Upserting
        <5> QED
          BY <5>1, <5>3, <5>4
      <4> QED
        BY <1>2, <1>3, <4>2, <4>3
    <3> QED
      BY <1>2, <2>2, <3>1, <3>2
  <2>3. abandoned'[f] # {}
    BY <1>1
  <2>4. ASSUME f \notin repeated' PROVE Distinct(LogOf(f)', f)
    <3>1. CASE Publishes
      BY <1>6, <2>4, <3>1
    <3>2. CASE log' = log
      <4>1. LogOf(f)' = LogOf(f) /\ f \notin repeated
        BY <2>4, <3>2 DEF LogOf, Publishes
      <4> QED
        BY <4>1 DEF IdsInv, FileHistory
    <3> QED
      BY <3>1, <3>2 DEF Publishes
  <2> QED
    BY <2>1, <2>2, <2>3, <2>4 DEF FileHistory
<1>8. ASSUME NEW h \in Files, h = job.file, Publishes, h \notin repeated'
      PROVE  /\ abandoned'[h] = {g}
             /\ \A x \in Records(LogOf(h)') :
                   x.type \in Deleting /\ x.gen = g => x.id \notin ElementsOf(RowFor(g), x.type)
  <2>1. h = f
    BY <1>8, <1>a
  <2> QED
    BY <1>6, <1>8, <2>1
<1> QED
  BY <1>4, <1>7, <1>8, <1>a

RepeatedNext == repeated' = IF Publishes /\ Again THEN repeated \cup {job.file} ELSE repeated

LEMMA PublishBatchIds ==
  ASSUME BackedInv, BackedInv', IdsInv, RepeatedNext, PublishBatch
  PROVE  IdsInv'
<1>0. /\ pc = "staged" /\ pc' = "published" /\ Deliver(job.batch)
      /\ UNCHANGED <<job, store, version>>
      /\ abandoned' = [abandoned EXCEPT ![job.file] = @ \cup {JobGeneration}]
  BY DEF PublishBatch, envVars
<1>1. /\ job \in Job /\ job.file \in Files /\ job.batch \in Batches
  BY <1>0, JobIs DEF BackedInv, Batches
<1>2. Distinct(job.batch, job.file) /\ Records(job.batch) \subseteq Records(job.batch)
  BY <1>0 DEF IdsInv, BatchOnce
<1>3. /\ \A h \in Files : FileHistory(h)'
      /\ \A h \in Files : h = job.file /\ Publishes /\ h \notin repeated' =>
              /\ abandoned'[h] = {JobGeneration}
              /\ \A x \in Records(LogOf(h)') :
                    x.type \in Deleting /\ x.gen = JobGeneration =>
                       x.id \notin ElementsOf(RowFor(JobGeneration), x.type)
  BY <1>0, <1>1, <1>2, DeliveryKeeps DEF RepeatedNext
<1>4. Publishes
  <2>1. job.batch["source.metadata"] # << >>
    BY <1>0 DEF BackedInv, JobBacked, BatchCovers, Range
  <2>2. "source.metadata" \in Topics
    BY DEF Topics
  <2>3. /\ log["source.metadata"][job.file] \in Seq(Event) /\ job.batch["source.metadata"] \in Seq(Event)
        /\ log'["source.metadata"][job.file]
             = log["source.metadata"][job.file] \o job.batch["source.metadata"]
    BY <1>0, <1>1, <2>2, DeliverAppends DEF BackedInv, Batches
  <2> DEFINE s == log["source.metadata"][job.file]
             b == job.batch["source.metadata"]
  <2>4. s \in Seq(Event) /\ b \in Seq(Event) /\ b # << >>
    BY <2>1, <2>3
  <2>5. s \o b # s
    <3> HIDE DEF s, b
    <3>1. Len(s \o b) = Len(s) + Len(b) /\ Len(s) \in Nat /\ Len(b) \in Nat /\ Len(b) # 0
      BY <2>4
    <3> QED
      BY <3>1
  <2> QED
    BY <2>3, <2>5 DEF Publishes
<1>5. JobGeneration' = JobGeneration /\ job'.file = job.file
  BY <1>0 DEF JobGeneration
<1>7. PublishedOnce'
  BY <1>0, <1>1, <1>3, <1>4, <1>5 DEF PublishedOnce
<1>8. BatchOnce'
  BY <1>0 DEF BatchOnce
<1> QED
  BY <1>3, <1>7, <1>8 DEF IdsInv

LEMMA PublishFailsIds ==
  ASSUME BackedInv, BackedInv', IdsInv, RepeatedNext, PublishFails
  PROVE  IdsInv'
<1>0. /\ pc = "staged" /\ pc' = "down" /\ PartlyDelivered /\ UNCHANGED <<store, version>>
  BY DEF PublishFails, Abort, Halt, envVars
<1>1. /\ job \in Job /\ job.file \in Files /\ job.batch \in Batches /\ TypeOK
  BY <1>0, JobIs DEF BackedInv, Batches
<1>2. PICK n \in Subsequences(job.batch["cpg.nodes"]),
           e \in Subsequences(job.batch["cpg.edges"]),
           m \in Subsequences(job.batch["source.metadata"]) :
        LET d == [t \in Topics |-> CASE t = "cpg.nodes" -> n
                                     [] t = "cpg.edges" -> e
                                     [] t = "source.metadata" -> m]
        IN /\ Deliver(d)
           /\ IF d = NoEvents
              THEN UNCHANGED histVars
              ELSE /\ dirty' = dirty \cup {job.file}
                   /\ abandoned' = [abandoned EXCEPT
                                      ![job.file] = @ \cup {JobGeneration}]
  BY <1>0 DEF PartlyDelivered
<1> DEFINE d == [t \in Topics |-> CASE t = "cpg.nodes" -> n
                                    [] t = "cpg.edges" -> e
                                    [] t = "source.metadata" -> m]
<1>3. d = [t \in Topics |-> d[t]] /\ \A t \in Topics : d[t] \in Subsequences(job.batch[t])
  BY DEF Topics
<1>4. /\ Deliver(d)
      /\ \/ d = NoEvents /\ UNCHANGED abandoned
         \/ abandoned' = [abandoned EXCEPT ![job.file] = @ \cup {JobGeneration}]
  BY <1>2 DEF histVars
<1> HIDE DEF d
<1>5. d \in Batches /\ Records(d) \subseteq Records(job.batch) /\ Distinct(d, job.file)
  <2>1. PICK b, f : b = job.batch /\ f = job.file
    OBVIOUS
  <2>2. Distinct(b, f)
    BY <1>0, <2>1 DEF IdsInv, BatchOnce
  <2>3. b \in Batches /\ \A t \in Topics : d[t] \in Subsequences(b[t])
    BY <1>1, <1>3, <2>1
  <2>4. d \in Batches /\ Records(d) \subseteq Records(b) /\ Distinct(d, f)
    BY <1>3, <2>2, <2>3, PartIsDistinct
  <2> QED
    BY <2>1, <2>4
<1>6. CASE d = NoEvents /\ UNCHANGED abandoned
  <2>1. \A t \in Topics, h \in Files : log'[t][h] = log[t][h]
    <3> TAKE t \in Topics, h \in Files
    <3>1. /\ log[t][job.file] \in Seq(Event)
          /\ log'[t][job.file] = log[t][job.file] \o d[t]
          /\ h # job.file => log'[t][h] = log[t][h]
      BY <1>1, <1>4, <1>5, DeliverAppends DEF Batches
    <3>2. log[t][job.file] \o d[t] = log[t][job.file]
      BY <1>6, <3>1 DEF NoEvents
    <3> QED
      BY <3>1, <3>2
  <2>2. \A h \in Files : LogOf(h)' = LogOf(h)
    BY <2>1 DEF LogOf
  <2>3. version' \in Nat /\ version <= version'
    BY <1>0, CpgAssumption DEF BackedInv, TypeOK, Versions
  <2>4. \A h \in repeated : h \in repeated'
    BY DEF RepeatedNext
  <2>5. \A h \in Files : FileHistory(h)'
    BY <1>0, <1>1, <1>6, <2>2, <2>3, <2>4, HistoryFrame DEF IdsInv
  <2> QED
    BY <1>0, <2>5 DEF IdsInv, BatchOnce, PublishedOnce
<1>7. CASE abandoned' = [abandoned EXCEPT ![job.file] = @ \cup {JobGeneration}]
  <2>1. \A h \in Files : FileHistory(h)'
    BY <1>0, <1>4, <1>5, <1>7, DeliveryKeeps DEF RepeatedNext
  <2> QED
    BY <1>0, <2>1 DEF IdsInv, BatchOnce, PublishedOnce
<1> QED
  BY <1>4, <1>6, <1>7

LEMMA CommitStateIds ==
  ASSUME BackedInv, BackedInv', IdsInv, RepeatedNext, CommitState
  PROVE  IdsInv'
<1>a. PICK f \in Files, g \in Generation : f = job.file /\ g = JobGeneration
  BY JobIs DEF CommitState, BackedInv
<1>0. /\ pc = "published" /\ pc' = "loop" /\ UNCHANGED <<log, version>>
      /\ abandoned' = [abandoned EXCEPT ![f] = @ \ {g}]
      /\ store' = [store EXCEPT ![f] = RowFor(g)]
      /\ repeated' = repeated
  BY <1>a DEF CommitState, NextFile, RepeatedNext, Publishes, envVars
<1>1. /\ abandoned'[f] = abandoned[f] \ {g} /\ store'[f] = RowFor(g)
      /\ \A h \in Files : h # f => abandoned'[h] = abandoned[h] /\ store'[h] = store[h]
      /\ TypeOK
  BY <1>0 DEF BackedInv, TypeOK
<1>2. /\ RowFor(g) # NoRow /\ RowFor(g).hash = g[1] /\ RowFor(g).version = g[2]
      /\ g[2] = version /\ g = <<g[1], g[2]>> /\ version \in Nat
  <2>1. version \in Nat
    BY <1>1, CpgAssumption DEF TypeOK, Versions
  <2> QED
    BY <1>a, <2>1, RowForIsRow, RunAssumption DEF RowFor, JobGeneration
<1>3. \A h \in Files : LogOf(h)' = LogOf(h)
  BY <1>0 DEF LogOf
<1>4. version' \in Nat /\ version <= version' /\ \A h \in repeated : h \in repeated'
  BY <1>0, <1>2
<1>5. ASSUME NEW h \in Files, h # f PROVE FileHistory(h)'
  BY <1>1, <1>3, <1>4, <1>5, HistoryFrame DEF IdsInv
<1>6. FileHistory(f)'
  <2>1. \A x \in Records(LogOf(f)) : x.gen[2] <= version
    BY DEF IdsInv, FileHistory
  <2>2. ASSUME f \notin repeated PROVE RowLeads(f)'
    <3>1. \A x \in Records(LogOf(f)) :
             x.type \in Deleting /\ x.gen = g => x.id \notin ElementsOf(RowFor(g), x.type)
      BY <1>0, <1>a, <2>2 DEF IdsInv, PublishedOnce
    <3>2. \A x \in Records(LogOf(f)) : x.gen = <<x.gen[1], x.gen[2]>>
      BY <1>1, LogOfIs, EventIsOne
    <3>3. \A x \in Records(LogOf(f)) : x.gen[1] = g[1] /\ x.gen[2] = g[2] => x.gen = g
      BY <1>2, <3>2
    <3> QED
      BY <1>1, <1>2, <1>3, <2>1, <3>1, <3>3 DEF RowLeads
  <2>3. FileHistory(f)
    BY DEF IdsInv
  <2>4. store'[f].version <= version'
    BY <1>0, <1>1, <1>2
  <2> QED
    BY <1>0, <1>3, <2>2, <2>3, <2>4 DEF FileHistory
<1> QED
  BY <1>0, <1>5, <1>6 DEF IdsInv, BatchOnce, PublishedOnce

LEMMA StageEventsIds ==
  ASSUME BackedInv, BackedInv', IdsInv, RepeatedNext, StageEvents
  PROVE  IdsInv'
<1>a. PICK f \in Files, g \in Generation : f = job.file /\ g = JobGeneration
  BY JobIs DEF StageEvents, BackedInv
<1>1. /\ TypeOK /\ store[f] \in Row \cup {NoRow} /\ job \in Job /\ pc' = "staged"
      /\ ~ Unchanged(store[f], g)
      /\ UNCHANGED <<store, version, log, abandoned>>
      /\ repeated' = repeated
  BY <1>a, JobIs DEF StageEvents, BackedInv, TypeOK, RepeatedNext, Publishes, envVars, histVars
<1>2. PICK dn \in SetToSeqs(RemovedNodes(store[f], g)),
           de \in SetToSeqs(RemovedEdges(store[f], g)) :
        job' = [job EXCEPT !.batch = EventsToSend(f, store[f], g, dn, de)]
  BY <1>a DEF StageEvents
<1>3. /\ job'.file = f /\ JobGeneration' = g
      /\ job'.batch = EventsToSend(f, store[f], g, dn, de)
  BY <1>a, <1>1, <1>2 DEF Job, JobGeneration
<1>4. Distinct(job'.batch, f) /\ \A x \in Records(job'.batch) : IsChange(store[f], g, x)
  BY <1>1, <1>3, StagedAreDistinct
<1>5. BatchOnce'
  BY <1>1, <1>3, <1>4 DEF BatchOnce
<1>6. \A h \in Files : LogOf(h)' = LogOf(h)
  BY <1>1 DEF LogOf
<1>7. version' \in Nat /\ version <= version'
  BY <1>1, CpgAssumption DEF TypeOK, Versions
<1>8. \A h \in Files : FileHistory(h)'
  BY <1>1, <1>6, <1>7, HistoryFrame DEF IdsInv
<1> QED
  BY <1>1, <1>5, <1>8 DEF IdsInv, PublishedOnce

LEMMA NextIds ==
  ASSUME BackedInv, BackedInv', IdsInv, [Next]_vars, RepeatedNext
  PROVE  IdsInv'
<1> USE DEF envVars, runVars, histVars
<1>0. TypeOK /\ version \in Nat /\ version' \in Nat
  BY CpgAssumption DEF BackedInv, TypeOK, Versions
<1>a. ASSUME UNCHANGED <<log, store, abandoned>>, version <= version'
      PROVE  repeated' = repeated /\ \A h \in Files : FileHistory(h)'
  <2>1. repeated' = repeated
    BY <1>a DEF RepeatedNext, Publishes
  <2>2. \A h \in Files : LogOf(h)' = LogOf(h)
    BY <1>a DEF LogOf
  <2> QED
    BY <1>0, <1>a, <2>1, <2>2, HistoryFrame DEF IdsInv
<1>b. ASSUME UNCHANGED <<log, store, abandoned>>, version <= version', pc' \notin {"staged", "published"}
      PROVE  IdsInv'
  BY <1>a, <1>b DEF IdsInv, BatchOnce, PublishedOnce
<1>c. ASSUME UNCHANGED <<log, store, abandoned, version, pc, job>>
      PROVE  IdsInv'
  <2>1. version <= version'
    BY <1>0, <1>c
  <2>2. repeated' = repeated /\ \A h \in Files : FileHistory(h)'
    BY <1>a, <1>c, <2>1
  <2>3. BatchOnce'
    BY <1>c DEF IdsInv, BatchOnce, JobGeneration
  <2>4. PublishedOnce'
    BY <1>c, <2>2 DEF IdsInv, PublishedOnce, JobGeneration, LogOf
  <2> QED
    BY <2>2, <2>3, <2>4 DEF IdsInv
<1>d. version' = version => version <= version'
  BY <1>0
<1>e. ASSUME NEW p, AfterFailure(p) PROVE pc' \notin {"staged", "published"}
  BY <1>e DEF AfterFailure, Halt
<1>1. ASSUME NEW f \in Files, NEW c \in Contents \cup {Missing}, Edit(f, c)
      PROVE  IdsInv'
  BY <1>1, <1>c DEF Edit
<1>2. CASE Upgrade
  BY <1>0, <1>2, <1>b DEF Upgrade
<1>3. ASSUME NEW f \in Files, ReadFile(f) PROVE IdsInv'
  BY <1>3, <1>b, <1>d DEF ReadFile
<1>4. CASE StartRun \/ EndRun \/ ParseFails \/ SkipUnchanged
  BY <1>4, <1>b, <1>d DEF StartRun, EndRun, ParseFails, SkipUnchanged, Halt, NextFile
<1>5. CASE ParserRaises \/ ReportError \/ ReportErrorFails \/ ReportErrorDropped \/ ReportErrorRejected
  BY <1>5, <1>b, <1>d, <1>e DEF ParserRaises, ReportError, ReportErrorFails, ReportErrorDropped, ReportErrorRejected
<1>6. CASE AbortBeforePublish \/ PublishRejected \/ CommitFails \/ Crash
  BY <1>6, <1>b, <1>d DEF AbortBeforePublish, PublishRejected, CommitFails, Crash, Abort, Halt
<1>7. CASE UNCHANGED vars
  BY <1>7, <1>c DEF vars
<1> QED
  BY <1>1, <1>2, <1>3, <1>4, <1>5, <1>6, <1>7, StageEventsIds, PublishBatchIds, PublishFailsIds,
     CommitStateIds DEF Next, RunNext, Proceed, Fault, Environment
(***************************************************************************)
(* The script's duplicates.                                                *)
(***************************************************************************)
ReportSeen(x) ==
    \E i \in DOMAIN reports[x[1]] :
        i <= cursor["parser.errors"][x[1]] /\ EventId(x[1], reports[x[1]][i]) = x

Explained(id) ==
    IF id[2] = "PARSER_ERROR" THEN ReportedTwice(id) ELSE id[1] \in repeated

RepeatInv ==
    /\ \A id \in duplicates : id[1] \in Files /\ Explained(id)
    /\ stage = "failed" => duplicates # {}
    /\ stage = "reading" => \A x \in seen : x[2] = "PARSER_ERROR" => x[1] \in Files /\ ReportSeen(x)

DuplicatesInv == tool = "script" => BackedInv /\ IdsInv /\ RepeatInv

LEMMA InitDuplicates == LiveInit => DuplicatesInv
<1> SUFFICES ASSUME LiveInit PROVE BackedInv /\ IdsInv /\ RepeatInv
  BY DEF DuplicatesInv
<1>1. Init /\ stage = "idle" /\ duplicates = {}
  BY DEF LiveInit, PipelineInit, InspectionInit
<1>2. BackedInv
  BY <1>1, InitTypeOK, InitBacked DEF BackedInv
<1>3. /\ \A f \in Files : store[f] = NoRow
      /\ \A t \in Topics, f \in Files : log[t][f] = << >>
      /\ pc = "down"
  BY <1>1 DEF Init
<1>4. ASSUME NEW f \in Files PROVE FileHistory(f)
  <2>1. \A t \in Topics : LogOf(f)[t] = << >>
    BY <1>3 DEF LogOf
  <2>2. \A x : x \notin Records(LogOf(f))
    BY <2>1, RecordsAre
  <2>3. Distinct(LogOf(f), f)
    BY <2>1 DEF Distinct
  <2> QED
    BY <1>3, <2>2, <2>3 DEF FileHistory, RowLeads
<1>5. IdsInv
  BY <1>3, <1>4 DEF IdsInv, BatchOnce, PublishedOnce
<1> QED
  BY <1>1, <1>2, <1>5 DEF RepeatInv

LEMMA ReadIsNoReport ==
  ASSUME ParserTyped, NEW t \in Topics, NEW f \in Files, cursor \in Offsets,
         cursor[t][f] < Len(log[t][f])
  PROVE  EventId(f, log[t][f][cursor[t][f] + 1])[2] # "PARSER_ERROR"
<1> DEFINE n == cursor[t][f] + 1
<1>1. log[t][f] \in Seq(Event) /\ cursor[t][f] \in Nat
  BY LogsAre DEF Logs, Offsets, Streams
<1>2. n \in DOMAIN log[t][f]
  BY <1>1
<1>3. log[t][f][n] \in Event
  BY <1>1, <1>2
<1> QED
  BY <1>3 DEF EventId, Event, NodeEvent, EdgeEvent, MetadataEvent

(* A record whose id has been seen is one of a file that was published     *)
(* again.                                                                  *)
LEMMA SeenIsRepeated ==
  ASSUME ParserTyped, ScriptReads, IdsInv, stage = "reading",
         NEW t \in Topics, NEW f \in Files, cursor[t][f] < Len(log[t][f]),
         EventId(f, log[t][f][cursor[t][f] + 1]) \in seen
  PROVE  LET id == EventId(f, log[t][f][cursor[t][f] + 1])
         IN  id[1] = f /\ f \in repeated
<1> DEFINE n == cursor[t][f] + 1
           x == EventId(f, log[t][f][n])
<1>1. /\ log[t][f] \in Seq(Event) /\ cursor[t][f] \in Nat
  BY LogsAre DEF ScriptReads, Logs, Offsets, Streams
<1>2. n \in DOMAIN log[t][f]
  BY <1>1
<1>a. x[1] = f /\ x[2] # "PARSER_ERROR"
  BY ReadIsNoReport DEF EventId, ScriptReads
<1>b. InRead(log, before, after, bounded, cursor, x)
  BY <1>a DEF ScriptReads
<1>3. PICK g \in Files, s \in Topics : ReadAt(log, before, after, bounded, cursor, g, s, x)
  BY <1>b DEF InRead
<1>4. PICK i \in DOMAIN log[s][g] : i <= cursor[s][g] /\ EventId(g, log[s][g][i]) = x
  BY <1>3 DEF ReadAt
<1>5. g = f
  BY <1>4 DEF EventId
<1>6. ~ (s = t /\ i = n)
  BY <1>1, <1>4, <1>5
<1> HIDE DEF n
<1>7. /\ n \in DOMAIN LogOf(f)[t] /\ i \in DOMAIN LogOf(f)[s]
      /\ EventId(f, LogOf(f)[s][i]) = EventId(f, LogOf(f)[t][n])
  BY <1>2, <1>4, <1>5 DEF LogOf
<1>8. ~ Distinct(LogOf(f), f)
  BY <1>6, <1>7 DEF Distinct
<1> QED
  BY <1>8, <1>a DEF IdsInv, FileHistory, n

(* A report whose id has been seen is there twice.                         *)
LEMMA SeenIsReportedTwice ==
  ASSUME WindowTyped, ScriptReads, RepeatInv, stage = "reading",
         NEW f \in Files, cursor["parser.errors"][f] < Len(reports[f])
  PROVE  LET n  == cursor["parser.errors"][f] + 1
             id == EventId(f, reports[f][n])
         IN  /\ n \in DOMAIN reports[f] /\ n \in Nat /\ cursor["parser.errors"][f] \in Nat
             /\ id[1] = f /\ id[2] = "PARSER_ERROR"
             /\ id \in seen => ReportedTwice(id)
<1> DEFINE n == cursor["parser.errors"][f] + 1
           id == EventId(f, reports[f][n])
<1>1. reports[f] \in Seq(Report) /\ cursor["parser.errors"][f] \in Nat
  BY DEF WindowTyped, ScriptReads, Offsets, Streams
<1>2. n \in DOMAIN reports[f] /\ n \in Nat
  BY <1>1
<1>3. reports[f][n] \in Report
  BY <1>1, <1>2
<1>4. id[1] = f /\ id[2] = "PARSER_ERROR"
  BY <1>3 DEF EventId, Report
<1>5. ASSUME id \in seen PROVE ReportedTwice(id)
  <2>1. PICK i \in DOMAIN reports[f] : i <= cursor["parser.errors"][f] /\ EventId(f, reports[f][i]) = id
    BY <1>4, <1>5 DEF RepeatInv, ReportSeen
  <2>2. i # n
    BY <1>1, <2>1
  <2> HIDE DEF n
  <2> QED
    BY <1>2, <1>4, <2>1, <2>2 DEF ReportedTwice
<1> QED
  BY <1>1, <1>2, <1>4, <1>5

(* What was reported stays where it is.                                    *)
LEMMA ReportsKeep ==
  ASSUME WindowTyped, ReportsFollow, NEW f \in Files
  PROVE  \A i \in DOMAIN reports[f] : i \in DOMAIN reports'[f] /\ reports'[f][i] = reports[f][i]
<1>1. CASE UNCHANGED reports
  BY <1>1
<1>2. CASE ReportLands
  <2>1. PICK k, e : reports' = [reports EXCEPT ![k] = Append(@, e)]
    BY <1>2 DEF ReportLands
  <2>2. reports'[f] = reports[f] \/ reports'[f] = Append(reports[f], e)
    BY <2>1 DEF WindowTyped
  <2>3. reports[f] \in Seq(Report)
    BY DEF WindowTyped
  <2> QED
    BY <2>2, <2>3
<1> QED
  BY <1>1, <1>2 DEF ReportsFollow

LEMMA NextRepeat ==
  ASSUME ParserTyped, WindowTyped, ScriptPlaced, ScriptReads, IdsInv, RepeatInv, tool = "script",
         InspectionNext
  PROVE  RepeatInv'
<1> USE DEF windowVars, readVars, inspectionHistory
<1>1. CASE ParserMeanwhile
  <2>1. /\ stage' = stage /\ UNCHANGED <<cursor, seen, duplicates>> /\ repeated \subseteq repeated'
        /\ ReportsFollow
    BY <1>1 DEF ParserMeanwhile, NotebookFollows, NotebookBusy, Remember
  <2>2. \A f \in Files : \A i \in DOMAIN reports[f] :
           i \in DOMAIN reports'[f] /\ reports'[f][i] = reports[f][i]
    BY <2>1, ReportsKeep
  <2>3. ASSUME NEW x, x[1] \in Files, ReportSeen(x) PROVE ReportSeen(x)'
    BY <2>1, <2>2, <2>3 DEF ReportSeen, EventId
  <2>4. ASSUME NEW x, x[1] \in Files, Explained(x) PROVE Explained(x)'
    <3>1. CASE x[2] = "PARSER_ERROR"
      <4>1. PICK i, j \in DOMAIN reports[x[1]] :
               /\ i # j
               /\ EventId(x[1], reports[x[1]][i]) = x
               /\ EventId(x[1], reports[x[1]][j]) = x
        BY <2>4, <3>1 DEF Explained, ReportedTwice
      <4>2. /\ i \in DOMAIN reports'[x[1]] /\ reports'[x[1]][i] = reports[x[1]][i]
            /\ j \in DOMAIN reports'[x[1]] /\ reports'[x[1]][j] = reports[x[1]][j]
        BY <2>2, <2>4
      <4> QED
        BY <3>1, <4>1, <4>2 DEF Explained, ReportedTwice, EventId
    <3>2. CASE x[2] # "PARSER_ERROR"
      BY <2>1, <2>4, <3>2 DEF Explained
    <3> QED
      BY <3>1, <3>2
  <2>5. \A x \in duplicates' : x[1] \in Files /\ Explained(x)'
    BY <2>1, <2>4 DEF RepeatInv
  <2>6. stage' = "reading" =>
          \A x \in seen' : x[2] = "PARSER_ERROR" => x[1] \in Files /\ ReportSeen(x)'
    BY <2>1, <2>3 DEF RepeatInv
  <2>7. stage' = "failed" => duplicates' # {}
    BY <2>1 DEF RepeatInv
  <2> QED
    BY <2>5, <2>6, <2>7 DEF RepeatInv
<1>2. CASE OpenWindow \/ AskBefore \/ CloseWindow \/ AskAfter \/ Listen
  <2>1. /\ UNCHANGED <<reports, seen, duplicates, repeated>>
        /\ stage' # "failed" /\ seen = {}
    BY <1>2 DEF OpenWindow, AskBefore, CloseWindow, AskAfter, Listen, ScriptPlaced
  <2> QED
    BY <2>1 DEF RepeatInv, Explained, ReportedTwice
<1>3. CASE PollNothing \/ ListeningBreaks
  <2>1. /\ stage = "reading" /\ UNCHANGED <<reports, cursor, seen, duplicates, repeated>>
        /\ stage' = "failed" => duplicates # {}
    BY <1>3 DEF PollNothing, ListeningBreaks, Verdict
  <2> QED
    BY <2>1 DEF RepeatInv, Explained, ReportedTwice, ReportSeen
<1>4. ASSUME NEW t \in Streams, NEW f \in Files, PollRecord(t, f) PROVE RepeatInv'
  <2> DEFINE n  == cursor[t][f] + 1
             id == EventId(f, Stream(t, f)[n])
  <2>1. /\ stage = "reading" /\ cursor[t][f] < Len(Stream(t, f))
        /\ UNCHANGED <<reports, stage, repeated>>
        /\ cursor' = [cursor EXCEPT ![t][f] = n]
        /\ seen' = seen \/ seen' = seen \cup {id}
        /\ duplicates' = duplicates \/ (id \in seen /\ duplicates' = duplicates \cup {id})
    BY <1>4 DEF PollRecord
  <2>2. cursor \in Offsets
    BY <2>1 DEF ScriptReads
  <2>3. ASSUME NEW x, x[1] \in Files, ReportSeen(x) PROVE ReportSeen(x)'
    <3>1. PICK i \in DOMAIN reports[x[1]] :
            i <= cursor["parser.errors"][x[1]] /\ EventId(x[1], reports[x[1]][i]) = x
      BY <2>3 DEF ReportSeen
    <3>2. i \in Nat /\ cursor["parser.errors"][x[1]] \in Nat
      <4>1. reports[x[1]] \in Seq(Report)
        BY <2>3 DEF WindowTyped
      <4> QED
        BY <2>2, <2>3, <4>1 DEF Offsets, Streams
    <3>3. \/ cursor'["parser.errors"][x[1]] = cursor["parser.errors"][x[1]]
          \/ cursor'["parser.errors"][x[1]] = cursor["parser.errors"][x[1]] + 1
      BY <2>1, <2>2, <2>3 DEF Offsets, Streams
    <3>4. i <= cursor'["parser.errors"][x[1]]
      BY <3>1, <3>2, <3>3
    <3> QED
      BY <2>1, <3>1, <3>4 DEF ReportSeen, EventId
  <2>4. \A x : ReportedTwice(x) => ReportedTwice(x)'
    BY <2>1 DEF ReportedTwice, EventId
  <2>5. CASE t \in Topics
    <3>1. /\ cursor[t][f] < Len(log[t][f]) /\ id = EventId(f, log[t][f][n])
          /\ id \in seen => id[1] = f /\ f \in repeated
      BY <2>1, <2>5, StreamsAre, SeenIsRepeated
    <3>2. id[2] # "PARSER_ERROR"
      BY <2>2, <2>5, <3>1, ReadIsNoReport
    <3> HIDE DEF id, n
    <3> QED
      BY <2>1, <2>3, <2>4, <3>1, <3>2 DEF RepeatInv, Explained
  <2>6. CASE t = "parser.errors"
    <3>1. /\ id = EventId(f, reports[f][n]) /\ n \in DOMAIN reports[f] /\ n \in Nat
          /\ id[1] = f /\ id[2] = "PARSER_ERROR"
          /\ id \in seen => ReportedTwice(id)
      BY <2>1, <2>6, StreamsAre, SeenIsReportedTwice
    <3>2. cursor'["parser.errors"][f] = n
      BY <2>1, <2>2, <2>6 DEF Offsets, Streams
    <3> HIDE DEF n
    <3> HIDE DEF id
    <3>3. ASSUME NEW x \in seen', x[2] = "PARSER_ERROR"
          PROVE  x[1] \in Files /\ ReportSeen(x)'
      <4>1. CASE x \in seen
        BY <2>1, <2>3, <3>3, <4>1 DEF RepeatInv
      <4>2. CASE x = id
        <5>1. /\ x[1] = f /\ n \in DOMAIN reports'[x[1]]
              /\ n <= cursor'["parser.errors"][x[1]] /\ EventId(x[1], reports'[x[1]][n]) = x
          BY <2>1, <3>1, <3>2, <4>2
        <5> QED
          BY <5>1 DEF ReportSeen, EventId
      <4> QED
        BY <2>1, <3>3, <4>1, <4>2
    <3>4. ASSUME NEW x \in duplicates' PROVE x[1] \in Files /\ Explained(x)'
      BY <2>1, <2>4, <3>1 DEF RepeatInv, Explained
    <3> QED
      BY <2>1, <3>3, <3>4 DEF RepeatInv
  <2> QED
    BY <2>5, <2>6, StreamsAre
<1> QED
  BY <1>1, <1>2, <1>3, <1>4
     DEF InspectionNext, InspectionStep, NotebookBegins, NotebookReads, NotebookCompares

LEMMA NextDuplicates ==
  ASSUME LiveBase, WindowTyped, WindowInv, DuplicatesInv, [LiveNext]_liveVars
  PROVE  DuplicatesInv'
<1>1. /\ tool = "script" => [Next]_vars
      /\ (task = "topics" /\ InspectionNext) \/ UNCHANGED inspectionVars
      /\ task # "topics" => tool = "notebook"
  BY LiveStepIs DEF LiveBase, TaskInv
<1>2. tool' = tool
  BY <1>1, InspectionStepIs DEF inspectionVars
<1> SUFFICES ASSUME tool = "script" PROVE BackedInv' /\ IdsInv' /\ RepeatInv'
  BY <1>2 DEF DuplicatesInv
<1>3. /\ BackedInv /\ IdsInv /\ RepeatInv /\ ParserTyped /\ ScriptPlaced /\ ScriptReads
      /\ [Next]_vars /\ task = "topics"
  BY <1>1 DEF DuplicatesInv, LiveBase, WindowInv
<1>4. BackedInv'
  BY <1>3, NextTypeOK, NextBacked DEF BackedInv
<1>5. RepeatedNext
  <2>1. CASE InspectionNext /\ ParserMeanwhile
    BY <2>1 DEF ParserMeanwhile, Remember, RepeatedNext
  <2>2. CASE InspectionStep
    <3>1. UNCHANGED <<vars, repeated>>
      BY <2>2 DEF InspectionStep, OpenWindow, AskBefore, CloseWindow, AskAfter, Listen, PollNothing,
         ListeningBreaks, PollRecord, NotebookBegins, NotebookReads, NotebookCompares, inspectionHistory
    <3> QED
      BY <3>1 DEF RepeatedNext, Publishes, vars
  <2>3. CASE UNCHANGED liveVars
    BY <2>3 DEF RepeatedNext, Publishes, liveVars, vars, inspectionVars, inspectionHistory
  <2> QED
    BY <1>3, <2>1, <2>2, <2>3 DEF LiveNext, InspectionNext
<1>6. IdsInv'
  BY <1>3, <1>4, <1>5, NextIds
<1>7. RepeatInv'
  <2>1. CASE InspectionNext
    BY <1>3, <2>1, NextRepeat
  <2>2. CASE UNCHANGED inspectionVars
    BY <1>3, <2>2 DEF RepeatInv, Explained, ReportedTwice, ReportSeen, EventId, inspectionVars,
       readVars, inspectionHistory
  <2> QED
    BY <1>1, <2>1, <2>2
<1> QED
  BY <1>4, <1>6, <1>7

(* An id that the script of Task 3 reads again is that of a report made    *)
(* twice, of a file that still cannot be parsed, or of a file published    *)
(* after a publication that was never committed, or with a content that    *)
(* came back: the ids of all the upserts and deletes that any other edits, *)
(* upgrades of the parser, faults and runs produce differ.                 *)
THEOREM DuplicatesAreRepetition == LiveSpec => []DuplicatesMeanRepetition
<1>1. LiveInit => LiveBase /\ WindowTyped /\ WindowInv /\ DuplicatesInv
  <2> SUFFICES ASSUME LiveInit PROVE LiveBase /\ WindowTyped /\ WindowInv /\ DuplicatesInv
    OBVIOUS
  <2> QED
    BY InitLiveBase, InitWindowTyped, InitWindow, InitDuplicates
<1>2. LiveBase /\ WindowTyped /\ WindowInv /\ DuplicatesInv /\ [LiveNext]_liveVars
        => LiveBase' /\ WindowTyped' /\ WindowInv' /\ DuplicatesInv'
  BY NextLiveBase, NextWindowTyped, NextWindow, NextDuplicates
<1>3. DuplicatesInv => DuplicatesMeanRepetition
  BY DEF DuplicatesInv, RepeatInv, Explained, DuplicatesMeanRepetition
<1> QED
  BY <1>1, <1>2, <1>3, PTL DEF LiveSpec
-----------------------------------------------------------------------------
(***************************************************************************)
(* The notebook of Task 5.  Its runs take up its own file only.            *)
(***************************************************************************)
RowCurrent == store[target_file] # NoRow /\ store[target_file].hash = disk[target_file]

OwnRun ==
    /\ OwnFile
    /\ todo \subseteq {target_file}
    /\ job # NoJob => job.file = target_file /\ job.content = disk[target_file]
    /\ pc = "staged" =>
         job.batch["source.metadata"] = << FileMetadataUpsert(target_file, JobGeneration) >>
    /\ pc # "down" => cell \in {"first", "second"}
    /\ pc = "down" => summary.processed = 0
    /\ summary.processed > 0 => RowCurrent

(* What the cells so far have established, whatever else happened.         *)
Established ==
    /\ cell \in Cells
    /\ partition \in Seq(Contents \cup {Theirs})
    /\ baseline \in 0..Len(partition)
    /\ cell = "capture" => store[target_file] = NoRow
    /\ cell \in {"first", "read", "load"} => checkpoint = baseline
    /\ (cell = "first" /\ (pc = "published" \/ summary.processed > 0)) \/ cell = "read" =>
         baseline < Len(partition)
    /\ cell \in {"load", "resume", "edit", "second", "reread", "upsert"} =>
         baseline < Len(partition) /\ partition[baseline + 1] \in Contents
    /\ cell \in {"resume", "edit", "second", "reread", "upsert"} => checkpoint = baseline + 1
    /\ cell \in {"second", "reread", "upsert"} => beforeReplay \in baseline + 1..Len(partition)
    /\ cell = "upsert" => beforeReplay < Len(partition) /\ partition[beforeReplay + 1] \in Contents
    /\ cell \in {"read", "load", "resume", "edit", "reread", "upsert"} => RowCurrent
    /\ cell = "passed" => DocumentVerdictIsTrue

(* A run that nothing disturbs appends one record, k behind the baseline.  *)
OnTime(k) ==
    /\ pc \in {"down", "loop", "read", "staged", "published"}
    /\ pc # "down" => producer = "READY"
    /\ pc \in {"read", "staged", "published"} => todo = {} /\ summary.processed = 0
    /\ pc = "loop" => \/ todo = {target_file} /\ summary.processed = 0
                      \/ todo = {} /\ summary.processed = 1
    /\ IF pc = "published" \/ (pc = "loop" /\ todo = {})
       THEN Len(partition) = baseline + k + 1 /\ partition[baseline + k + 1] = disk[target_file]
       ELSE Len(partition) = baseline + k /\ ~ RowCurrent

Timely ==
    /\ cell = "first" => OnTime(0)
    /\ cell \in {"read", "load", "resume", "edit"} =>
         Len(partition) = baseline + 1 /\ partition[baseline + 1] = disk[target_file]
    /\ cell \in {"resume", "edit"} => content_hash = disk[target_file]
    /\ cell = "second" => OnTime(1)
    /\ cell \in {"reread", "upsert"} =>
         Len(partition) = baseline + 2 /\ partition[baseline + 2] = disk[target_file]
    /\ cell \in {"second", "reread", "upsert"} =>
         beforeReplay = baseline + 1 /\ partition[baseline + 1] # disk[target_file]
    /\ cell # "failed"

Undisturbed ==
    faults = 0 /\ \A i \in 1..Len(partition) : i > baseline => partition[i] # Theirs

LEMMA OwnFileIs ==
  ASSUME OwnFile
  PROVE  /\ target_file \in Files
         /\ disk[target_file] \in Contents /\ disk[target_file] # Missing
         /\ disk[target_file] \notin Unparsable
         /\ {f \in Files : disk[f] # Missing} = {target_file}
BY CpgAssumption, DocumentAssumption DEF OwnFile

(* What a step of the parser appends of the file's metadata.               *)
LEMMA AppendedIsOwn ==
  ASSUME ParserTyped, [Next]_vars
  PROVE  /\ Appended \in Seq(Contents)
         /\ UNCHANGED log => Appended = << >>
         /\ OwnRun /\ PublishBatch => Appended = << disk[target_file] >>
<1> DEFINE old == log["source.metadata"][target_file]
           new == log'["source.metadata"][target_file]
<1>0. target_file \in Files /\ "source.metadata" \in Topics
  BY DocumentAssumption DEF Topics
<1>1. PICK u \in Seq(Event) : new = old \o u
  BY <1>0, NextAppends DEF ParserTyped
<1>2. old \in Seq(Event)
  BY <1>0 DEF ParserTyped, TypeOK
<1>3. Appended = [i \in 1..(Len(new) - Len(old)) |-> new[Len(old) + i].gen[1]]
  BY DEF Appended
<1> HIDE DEF old, new
<1>4. Len(new) - Len(old) = Len(u) /\ Len(u) \in Nat /\ \A i \in 1..Len(u) : new[Len(old) + i] = u[i]
  BY <1>1, <1>2
<1>5. Appended = [i \in 1..Len(u) |-> u[i].gen[1]]
  BY <1>3, <1>4
<1>6. \A i \in 1..Len(u) : u[i].gen[1] \in Contents
  BY DEF Event, NodeEvent, EdgeEvent, MetadataEvent, Generation
<1>7. Appended \in Seq(Contents)
  <2>1. Appended \in [1..Len(u) -> Contents]
    BY <1>5, <1>6
  <2> QED
    BY <1>4, <2>1, IsASeq
<1>8. ASSUME UNCHANGED log PROVE Appended = << >>
  <2>1. new = old
    BY <1>8 DEF old, new
  <2>2. Len(u) = 0
    BY <1>2, <1>4, <2>1
  <2> QED
    BY <1>5, <1>7, <2>2
<1>9. ASSUME OwnRun, PublishBatch PROVE Appended = << disk[target_file] >>
  <2>1. /\ job \in Job /\ job.batch \in [Topics -> Seq(Event)] /\ Deliver(job.batch)
        /\ job.file = target_file /\ job.content = disk[target_file]
        /\ job.batch["source.metadata"] = << FileMetadataUpsert(target_file, JobGeneration) >>
    <3>1. pc = "staged" /\ job # NoJob /\ Deliver(job.batch)
      BY <1>9 DEF PublishBatch, ParserTyped, TypeOK
    <3> QED
      BY <1>9, <3>1, JobIs DEF OwnRun, ParserTyped
  <2>2. new = old \o job.batch["source.metadata"]
    <3>1. log'["source.metadata"][job.file] = log["source.metadata"][job.file] \o job.batch["source.metadata"]
      BY <1>0, <2>1, DeliverAppends DEF ParserTyped
    <3> QED
      BY <2>1, <3>1 DEF old, new
  <2>3. PICK e : e = FileMetadataUpsert(target_file, JobGeneration)
    OBVIOUS
  <2>4. e.gen[1] = disk[target_file]
    BY <2>1, <2>3 DEF FileMetadataUpsert, JobGeneration
  <2>5. new = old \o << e >> /\ << e >> \in Seq(Event)
    BY <1>0, <2>1, <2>2, <2>3
  <2>6. Len(u) = 1 /\ new[Len(old) + 1] = e
    BY <1>2, <1>4, <2>5
  <2>7. u[1] = e
    BY <1>4, <2>6
  <2>8. Appended \in Seq(Contents) /\ Len(Appended) = 1 /\ Appended[1] = disk[target_file]
    BY <1>5, <1>7, <2>4, <2>6, <2>7
  <2> QED
    BY <2>8
<1> QED
  BY <1>7, <1>8, <1>9

(* A run stays with the file.                                              *)
LEMMA RunsOwn ==
  ASSUME ParserTyped, ParserTyped', OwnRun, RunNext,
         pc' # "down" => cell' \in {"first", "second"}
  PROVE  OwnRun'
<1> USE DEF ParserTyped, envVars, runVars, histVars
<1>1. /\ OwnFile' /\ disk' = disk /\ version' = version
  <2>1. UNCHANGED envVars
    BY DEF RunNext, StartRun, Proceed, Fault, EndRun, ReadFile, SkipUnchanged, ParseFails,
       ParserRaises, StageEvents, PublishBatch, PublishRejected, CommitState, ReportError,
       ReportErrorRejected, AbortBeforePublish, PublishFails, CommitFails, ReportErrorFails, ReportErrorDropped, Crash
  <2> QED
    BY <2>1 DEF OwnFile, OwnRun
<1>2. /\ todo \subseteq {target_file}
      /\ job # NoJob => job.file = target_file /\ job.content = disk[target_file]
      /\ summary.processed > 0 => RowCurrent
      /\ summary \in Summary
  BY DEF OwnRun, TypeOK
<1>3. target_file \in Files /\ disk[target_file] # Missing /\ {f \in Files : disk[f] # Missing} = {target_file}
  BY OwnFileIs DEF OwnRun
<1>a. ASSUME todo' \subseteq {target_file}, pc' # "staged", pc' = "down" => summary'.processed = 0,
             job' # NoJob => job'.file = target_file /\ job'.content = disk[target_file],
             summary'.processed > 0 => RowCurrent'
      PROVE  OwnRun'
  BY <1>1, <1>a DEF OwnRun
<1>b. ASSUME Halt PROVE OwnRun'
  <2>1. pc' = "down" /\ todo' = {} /\ job' = NoJob /\ summary'.processed = 0
    BY <1>b DEF Halt, EmptySummary
  <2> QED
    BY <1>a, <2>1
<1>c. ASSUME UNCHANGED store, summary'.processed = summary.processed
      PROVE  summary'.processed > 0 => RowCurrent'
  BY <1>1, <1>2, <1>c DEF RowCurrent
<1>4. CASE StartRun
  <2>1. pc' = "loop" /\ summary'.processed = 0 /\ todo' = {target_file} /\ job' = job
    BY <1>3, <1>4 DEF StartRun, EmptySummary
  <2> QED
    BY <1>2, <1>a, <2>1
<1>5. ASSUME NEW f \in Files, ReadFile(f) PROVE OwnRun'
  <2>1. f = target_file /\ job' = JobFor(f, disk[f]) /\ pc' = "read" /\ todo' \subseteq {target_file}
    BY <1>2, <1>3, <1>5 DEF ReadFile
  <2> QED
    BY <1>5, <1>a, <1>c, <2>1 DEF JobFor, ReadFile
<1>6. CASE SkipUnchanged
  <2>1. summary'.processed = summary.processed
    BY <1>2, <1>6 DEF SkipUnchanged, Summary
  <2> QED
    BY <1>2, <1>6, <1>a, <1>c, <2>1 DEF SkipUnchanged, NextFile
<1>7. CASE ParseFails
  BY <1>2, <1>7, <1>a, <1>c DEF ParseFails
<1>8. ASSUME NEW p, AfterFailure(p), UNCHANGED store PROVE OwnRun'
  <2>1. CASE failFast
    BY <1>8, <1>b, <2>1 DEF AfterFailure
  <2>2. CASE ~ failFast
    <3>1. summary'.processed = summary.processed
      BY <1>2, <1>8, <2>2 DEF AfterFailure, Summary
    <3> QED
      BY <1>2, <1>8, <1>a, <1>c, <2>2, <3>1 DEF AfterFailure
  <2> QED
    BY <2>1, <2>2
<1>9. CASE ParserRaises \/ ReportError \/ ReportErrorRejected \/ ReportErrorFails \/ ReportErrorDropped
  BY <1>8, <1>9 DEF ParserRaises, ReportError, ReportErrorRejected, ReportErrorFails, ReportErrorDropped
<1>10. CASE StageEvents
  <2>1. job \in Job /\ job # NoJob
    BY <1>10, JobIs DEF StageEvents, TypeOK
  <2>2. PICK dn, de : job' = [job EXCEPT !.batch = EventsToSend(job.file, store[job.file], JobGeneration, dn, de)]
    BY <1>10 DEF StageEvents
  <2>3. PICK B : B = EventsToSend(job.file, store[job.file], JobGeneration, dn, de)
    OBVIOUS
  <2>4. B["source.metadata"] = << FileMetadataUpsert(target_file, JobGeneration) >>
    BY <1>2, <2>1, <2>3 DEF EventsToSend, Topics
  <2>5. job'.file = job.file /\ job'.content = job.content /\ job'.batch = B
    BY <2>1, <2>2, <2>3 DEF Job
  <2>6. JobGeneration' = JobGeneration
    BY <1>1, <2>5 DEF JobGeneration
  <2>7. UNCHANGED <<todo, summary, store>> /\ pc' = "staged"
    BY <1>10 DEF StageEvents
  <2>8. summary'.processed > 0 => RowCurrent'
    BY <1>c, <2>7
  <2> QED
    BY <1>1, <1>2, <2>1, <2>4, <2>5, <2>6, <2>7, <2>8 DEF OwnRun
<1>11. CASE PublishBatch
  BY <1>2, <1>11, <1>a, <1>c DEF PublishBatch
<1>12. CASE CommitState
  <2>1. /\ pc = "published" /\ pc' = "loop" /\ job' = NoJob /\ todo' = todo
        /\ store' = [store EXCEPT ![job.file] = RowFor(JobGeneration)]
    BY <1>12 DEF CommitState, NextFile
  <2>2. job # NoJob /\ JobGeneration \in Generation
    BY <2>1, JobIs DEF TypeOK
  <2>3. store'[target_file] = RowFor(JobGeneration) /\ JobGeneration[1] = disk[target_file]
    BY <1>2, <1>3, <2>1, <2>2 DEF TypeOK, JobGeneration
  <2>4. RowFor(JobGeneration) # NoRow /\ RowFor(JobGeneration).hash = JobGeneration[1]
    BY <2>2, RowForIsRow, RunAssumption
  <2> QED
    BY <1>1, <1>2, <1>a, <2>1, <2>3, <2>4 DEF RowCurrent
<1>13. CASE EndRun \/ AbortBeforePublish \/ PublishFails \/ PublishRejected \/ CommitFails \/ Crash
  BY <1>13, <1>b DEF EndRun, AbortBeforePublish, PublishFails, PublishRejected, CommitFails, Crash, Abort
<1> QED
  BY <1>4, <1>5, <1>6, <1>7, <1>9, <1>10, <1>11, <1>12, <1>13 DEF RunNext, Proceed, Fault

(* Nothing disturbs the run.                                               *)
LEMMA RunsOnTime ==
  ASSUME ParserTyped, ParserTyped', OwnRun, NEW k \in {0, 1}, OnTime(k), RunNext,
         baseline \in Nat, baseline' = baseline,
         partition \in Seq(Contents \cup {Theirs}), partition' = partition \o Appended,
         faults' = 0
  PROVE  IF pc # "down" /\ pc' = "down"
         THEN /\ EndRun /\ summary.processed = 1 /\ RowCurrent'
              /\ Len(partition') = baseline + k + 1
              /\ partition'[baseline + k + 1] = disk[target_file]
         ELSE OnTime(k)'
<1> USE DEF ParserTyped
<1>0. /\ faults \in Nat /\ summary \in Summary /\ [Next]_vars
      /\ target_file \in Files /\ disk[target_file] \notin Unparsable
      /\ {f \in Files : disk[f] # Missing} = {target_file} /\ disk[target_file] # Missing
  BY OwnFileIs DEF TypeOK, Next, OwnRun
<1>1. ~ Fault
  BY <1>0 DEF Fault, AbortBeforePublish, PublishFails, CommitFails, ReportErrorFails, ReportErrorDropped, Crash
<1>2. /\ pc \in {"down", "loop", "read", "staged", "published"}
      /\ pc # "down" => producer = "READY"
      /\ pc \in {"read", "staged", "published"} => todo = {} /\ summary.processed = 0
      /\ pc = "loop" => \/ todo = {target_file} /\ summary.processed = 0
                        \/ todo = {} /\ summary.processed = 1
  BY DEF OnTime
<1>3. IF pc = "published" \/ (pc = "loop" /\ todo = {})
      THEN Len(partition) = baseline + k + 1 /\ partition[baseline + k + 1] = disk[target_file]
      ELSE Len(partition) = baseline + k /\ ~ RowCurrent
  BY DEF OnTime
<1>4. job # NoJob => job.file = target_file /\ job.content = disk[target_file]
  BY DEF OwnRun
<1>5. UNCHANGED log => partition' = partition
  BY <1>0, AppendedIsOwn
<1>a. ASSUME UNCHANGED <<disk, store>> PROVE RowCurrent' = RowCurrent
  BY <1>a DEF RowCurrent
<1>b. pc = "read" => /\ ~ Unchanged(store[job.file], JobGeneration)
                     /\ job.content \notin Unparsable
  <2> SUFFICES ASSUME pc = "read" PROVE ~ Unchanged(store[target_file], JobGeneration) /\ job # NoJob
    BY <1>0, <1>4
  <2>1. job # NoJob
    BY DEF TypeOK
  <2>2. ~ RowCurrent /\ JobGeneration[1] = disk[target_file]
    BY <1>3, <1>4, <2>1 DEF JobGeneration
  <2>3. ~ Unchanged(store[target_file], JobGeneration)
    BY <2>2 DEF Unchanged, RowCurrent, JobGeneration
  <2> QED
    BY <2>1, <2>3
<1> USE DEF envVars, runVars, histVars
<1>6. CASE StartRun
  <2>1. /\ pc = "down" /\ pc' = "loop" /\ todo' = {target_file} /\ summary'.processed = 0
        /\ producer' = "READY" /\ UNCHANGED <<disk, store, log>>
    BY <1>0, <1>6 DEF StartRun, EmptySummary
  <2>2. partition' = partition /\ RowCurrent' = RowCurrent
    BY <1>5, <1>a, <2>1
  <2>3. OnTime(k)'
    BY <1>2, <1>3, <2>1, <2>2 DEF OnTime
  <2> QED
    BY <2>1, <2>3
<1>7. ASSUME NEW f \in Files, ReadFile(f) PROVE pc' = "read" /\ OnTime(k)'
  <2>1. f = target_file /\ todo = {target_file} /\ summary.processed = 0
    BY <1>2, <1>7 DEF ReadFile
  <2>2. /\ pc = "loop" /\ pc' = "read" /\ todo' = {} /\ UNCHANGED <<producer, summary, disk, store, log>>
    BY <1>0, <1>7, <2>1 DEF ReadFile
  <2>3. partition' = partition /\ RowCurrent' = RowCurrent
    BY <1>5, <1>a, <2>2
  <2> QED
    BY <1>2, <1>3, <2>1, <2>2, <2>3 DEF OnTime
<1>8. ~ SkipUnchanged /\ ~ ParseFails /\ ~ ParserRaises
  BY <1>b DEF SkipUnchanged, ParseFails, ParserRaises
<1>9. ~ PublishRejected /\ ~ ReportError /\ ~ ReportErrorRejected
  BY <1>2 DEF PublishRejected, ReportError, ReportErrorRejected
<1>10. CASE StageEvents
  <2>1. pc = "read" /\ pc' = "staged" /\ UNCHANGED <<producer, todo, summary, disk, store, log>>
    BY <1>10 DEF StageEvents
  <2>2. partition' = partition /\ RowCurrent' = RowCurrent
    BY <1>5, <1>a, <2>1
  <2>3. OnTime(k)'
    BY <1>2, <1>3, <2>1, <2>2 DEF OnTime
  <2> QED
    BY <2>1, <2>3
<1>11. CASE PublishBatch
  <2>1. pc = "staged" /\ pc' = "published" /\ UNCHANGED <<producer, todo, summary, disk, store>>
    BY <1>11 DEF PublishBatch
  <2>2. partition' = partition \o << disk[target_file] >> /\ Len(partition) = baseline + k
    BY <1>0, <1>3, <1>11, <2>1, AppendedIsOwn
  <2>3. Len(partition') = baseline + k + 1 /\ partition'[baseline + k + 1] = disk[target_file]
    <3> DEFINE x == disk[target_file]
    <3> HIDE DEF x
    <3>1. partition' = Append(partition, x)
      BY <2>2 DEF x
    <3>2. Len(partition') = Len(partition) + 1 /\ partition'[Len(partition) + 1] = x
      BY <3>1
    <3> QED
      BY <2>2, <3>2 DEF x
  <2>4. OnTime(k)'
    BY <1>2, <2>1, <2>3 DEF OnTime
  <2> QED
    BY <2>1, <2>4
<1>12. CASE CommitState
  <2>1. /\ pc = "published" /\ pc' = "loop" /\ todo = {} /\ todo' = {} /\ summary.processed = 0
        /\ producer' = producer /\ disk' = disk /\ log' = log
        /\ summary' = [summary EXCEPT !.processed = @ + 1]
    BY <1>2, <1>12 DEF CommitState, NextFile
  <2>2. summary'.processed = 1 /\ partition' = partition
    BY <1>0, <1>5, <2>1 DEF Summary
  <2>3. OnTime(k)'
    BY <1>2, <1>3, <2>1, <2>2 DEF OnTime
  <2> QED
    BY <2>1, <2>3
<1>13. CASE EndRun
  <2>1. pc = "loop" /\ pc' = "down" /\ todo = {} /\ UNCHANGED <<disk, store, log>>
    BY <1>13 DEF EndRun, Halt
  <2>2. summary.processed = 1
    BY <1>2, <2>1
  <2>3. RowCurrent' /\ partition' = partition
    BY <1>5, <1>a, <2>1, <2>2 DEF OwnRun
  <2> QED
    BY <1>3, <1>13, <2>1, <2>2, <2>3
<1> QED
  BY <1>1, <1>6, <1>7, <1>8, <1>9, <1>10, <1>11, <1>12, <1>13 DEF RunNext, Proceed

LEMMA PublishedBefore ==
  ASSUME ParserTyped, RunNext, pc' = "published" \/ summary'.processed > 0
  PROVE  PublishBatch \/ pc = "published" \/ summary.processed > 0
<1> USE DEF ParserTyped, envVars, runVars, histVars
<1>1. summary \in Summary
  BY DEF TypeOK
<1>2. ASSUME Halt PROVE FALSE
  BY <1>2 DEF Halt, EmptySummary
<1>3. ~ StartRun
  BY DEF StartRun, EmptySummary
<1>4. CASE \/ \E f \in Files : ReadFile(f)
           \/ SkipUnchanged \/ ParseFails \/ ParserRaises \/ StageEvents
           \/ ReportError \/ ReportErrorRejected \/ ReportErrorFails \/ ReportErrorDropped
  <2>1. pc' # "published" /\ summary'.processed = summary.processed
    BY <1>1, <1>2, <1>4 DEF ReadFile, SkipUnchanged, ParseFails, ParserRaises, StageEvents, ReportError,
       ReportErrorRejected, ReportErrorFails, ReportErrorDropped, AfterFailure, NextFile, Summary
  <2> QED
    BY <2>1
<1>5. ~ EndRun /\ ~ AbortBeforePublish /\ ~ PublishFails /\ ~ PublishRejected /\ ~ CommitFails /\ ~ Crash
  BY <1>2 DEF EndRun, AbortBeforePublish, PublishFails, PublishRejected, CommitFails, Crash, Abort
<1> QED
  BY <1>3, <1>4, <1>5 DEF RunNext, Proceed, Fault, CommitState

(* What others or the parser append leaves what is there, and disturbs if  *)
(* it is not the file's.                                                   *)
LEMMA PartitionGrows ==
  ASSUME Established, NEW s \in Seq(Contents \cup {Theirs}),
         partition' = partition \o s, baseline' = baseline
  PROVE  /\ partition' \in Seq(Contents \cup {Theirs})
         /\ Len(partition') = Len(partition) + Len(s)
         /\ \A i \in 1..Len(partition) : partition'[i] = partition[i]
         /\ \A i \in 1..Len(s) : partition'[Len(partition) + i] = s[i]
         /\ Len(s) \in Nat /\ Len(partition) \in Nat /\ baseline \in Nat /\ baseline <= Len(partition)
         /\ faults \in Nat /\ faults <= faults' /\ Undisturbed' =>
              Undisturbed /\ \A i \in 1..Len(s) : s[i] # Theirs
<1> USE DEF Established
<1>1. /\ partition' \in Seq(Contents \cup {Theirs})
      /\ Len(partition') = Len(partition) + Len(s)
      /\ \A i \in 1..Len(partition) : partition'[i] = partition[i]
      /\ \A i \in 1..Len(s) : partition'[Len(partition) + i] = s[i]
      /\ Len(s) \in Nat /\ Len(partition) \in Nat /\ baseline \in Nat /\ baseline <= Len(partition)
  OBVIOUS
<1>2. ASSUME faults \in Nat, faults <= faults', Undisturbed'
      PROVE  Undisturbed /\ \A i \in 1..Len(s) : s[i] # Theirs
  <2>1. faults' = 0 /\ \A i \in 1..Len(partition') : i > baseline => partition'[i] # Theirs
    BY <1>2 DEF Undisturbed
  <2>2. \A i \in 1..Len(partition) : i \in 1..Len(partition')
    BY <1>1
  <2>3. \A i \in 1..Len(s) : Len(partition) + i \in 1..Len(partition') /\ Len(partition) + i > baseline
    BY <1>1
  <2>4. faults = 0
    BY <1>2, <2>1
  <2>5. \A i \in 1..Len(s) : s[i] # Theirs
    BY <1>1, <2>1, <2>3
  <2> QED
    BY <1>1, <2>1, <2>2, <2>4, <2>5 DEF Undisturbed
<1> QED
  BY <1>1, <1>2

OwnDocument == OwnRun /\ Established /\ (Undisturbed /\ cell # "capture" => Timely)

LEMMA Captures ==
  ASSUME ParserTyped, OwnDocument, CaptureBaseline
  PROVE  OwnDocument'
<1>1. /\ cell = "capture" /\ cell' = "first" /\ baseline' = Len(partition) /\ checkpoint' = Len(partition)
      /\ UNCHANGED <<vars, partition>>
  BY DEF CaptureBaseline, LatestOffset
<1>2. pc = "down" /\ summary.processed = 0
  BY <1>1 DEF OwnDocument, OwnRun
<1>3. OwnRun'
  BY <1>1, <1>2 DEF OwnDocument, OwnRun, OwnFile, RowCurrent, JobGeneration, vars
<1>4. Established'
  <2>1. Len(partition) \in Nat /\ partition \in Seq(Contents \cup {Theirs})
    BY DEF OwnDocument, Established
  <2> QED
    BY <1>1, <1>2, <2>1 DEF Established, Cells, vars
<1>5. OnTime(0)'
  <2>1. store[target_file] = NoRow /\ Len(partition) \in Nat
    BY <1>1 DEF OwnDocument, Established
  <2> QED
    BY <1>1, <1>2, <2>1 DEF OnTime, RowCurrent, vars
<1> QED
  BY <1>1, <1>3, <1>4, <1>5 DEF OwnDocument, Timely

LEMMA Executes ==
  ASSUME ParserTyped, ParserTyped', OwnDocument, Execute
  PROVE  OwnDocument'
<1> USE DEF OwnDocument
<1>1. /\ cell \in {"first", "second"} /\ RunNext /\ partition' = partition \o Appended
      /\ UNCHANGED <<baseline, beforeReplay, checkpoint, content_hash>>
  BY DEF Execute
<1>2. IF pc # "down" /\ pc' = "down"
      THEN cell' = IF EndRun /\ summary.processed = 1
                   THEN IF cell = "first" THEN "read" ELSE "reread" ELSE "failed"
      ELSE cell' = cell
  BY DEF Execute, Expect
<1>3. [Next]_vars /\ faults \in Nat /\ faults <= faults' /\ disk' = disk
  <2>1. faults \in Nat
    BY DEF ParserTyped, TypeOK
  <2>2. (faults' = faults \/ faults' = faults + 1) /\ disk' = disk
    BY <1>1 DEF RunNext, StartRun, Proceed, Fault, EndRun, ReadFile, SkipUnchanged, ParseFails,
       ParserRaises, StageEvents, PublishBatch, PublishRejected, CommitState, ReportError,
       ReportErrorRejected, AbortBeforePublish, PublishFails, CommitFails, ReportErrorFails, ReportErrorDropped, Crash, envVars
  <2> QED
    BY <1>1, <2>1, <2>2 DEF Next
<1>4. OwnRun'
  BY <1>1, <1>2, RunsOwn
<1>5. Appended \in Seq(Contents \cup {Theirs})
  BY <1>3, AppendedIsOwn
<1>6. /\ partition \in Seq(Contents \cup {Theirs}) /\ partition' \in Seq(Contents \cup {Theirs})
      /\ Len(partition) \in Nat /\ Len(partition') \in Nat /\ baseline \in Nat /\ baseline <= Len(partition)
      /\ Len(partition) <= Len(partition')
      /\ \A i \in 1..Len(partition) : partition'[i] = partition[i]
      /\ Undisturbed' => Undisturbed
  <2>1. Len(Appended) \in Nat
    BY <1>5
  <2>2. partition \in Seq(Contents \cup {Theirs}) /\ baseline \in 0..Len(partition)
    BY DEF Established
  <2>3. Len(partition) \in Nat /\ baseline \in Nat /\ baseline <= Len(partition)
    BY <2>2
  <2>4. Established
    OBVIOUS
  <2> HIDE DEF OwnDocument
  <2>5. /\ partition' \in Seq(Contents \cup {Theirs})
        /\ Len(partition') = Len(partition) + Len(Appended)
        /\ \A i \in 1..Len(partition) : partition'[i] = partition[i]
        /\ Undisturbed' => Undisturbed
    BY <1>1, <1>3, <1>5, <2>4, PartitionGrows
  <2> QED
    BY <2>1, <2>2, <2>3, <2>5
<1>7. pc # "down" /\ pc' = "down" /\ EndRun /\ summary.processed = 1 => RowCurrent'
  BY <1>3 DEF OwnRun, EndRun, RowCurrent
<1>8. cell = "first" /\ (pc' = "published" \/ summary'.processed > 0) => baseline < Len(partition')
  <2> SUFFICES ASSUME cell = "first", pc' = "published" \/ summary'.processed > 0
               PROVE  baseline < Len(partition')
    OBVIOUS
  <2>1. CASE PublishBatch
    <3>1. partition' = Append(partition, disk[target_file])
      BY <1>1, <1>3, <1>6, <2>1, AppendedIsOwn
    <3> QED
      BY <1>6, <3>1
  <2>2. CASE pc = "published" \/ summary.processed > 0
    BY <1>6, <2>2 DEF Established
  <2> QED
    BY <1>1, <2>1, <2>2, PublishedBefore
<1>9. Established'
  <2>1. CASE pc # "down" /\ pc' = "down"
    <3>1. CASE EndRun /\ summary.processed = 1 /\ cell = "first"
      <4>1. cell' = "read" /\ checkpoint = baseline /\ baseline < Len(partition)
        BY <1>2, <2>1, <3>1 DEF Established
      <4> QED
        BY <1>1, <1>6, <1>7, <2>1, <3>1, <4>1 DEF Established, Cells
    <3>2. CASE EndRun /\ summary.processed = 1 /\ cell = "second"
      <4>1. /\ cell' = "reread" /\ checkpoint = baseline + 1 /\ baseline < Len(partition)
            /\ partition[baseline + 1] \in Contents /\ beforeReplay \in baseline + 1..Len(partition)
        BY <1>2, <2>1, <3>2 DEF Established
      <4>2. partition'[baseline + 1] \in Contents
        BY <1>6, <4>1
      <4> QED
        BY <1>1, <1>6, <1>7, <2>1, <3>2, <4>1, <4>2 DEF Established, Cells
    <3>3. CASE cell' = "failed"
      BY <1>1, <1>6, <3>3 DEF Established, Cells
    <3> QED
      BY <1>1, <1>2, <2>1, <3>1, <3>2, <3>3
  <2>2. CASE ~ (pc # "down" /\ pc' = "down")
    <3>1. cell' = cell
      BY <1>2, <2>2
    <3>2. CASE cell = "first"
      BY <1>1, <1>6, <1>8, <3>1, <3>2 DEF Established, Cells
    <3>3. CASE cell = "second"
      <4>1. /\ checkpoint = baseline + 1 /\ baseline < Len(partition)
            /\ partition[baseline + 1] \in Contents /\ beforeReplay \in baseline + 1..Len(partition)
        BY <3>3 DEF Established
      <4>2. partition'[baseline + 1] \in Contents
        BY <1>6, <4>1
      <4> QED
        BY <1>1, <1>6, <3>1, <3>3, <4>1, <4>2 DEF Established, Cells
    <3> QED
      BY <1>1, <3>2, <3>3
  <2> QED
    BY <2>1, <2>2
<1>10. ASSUME Undisturbed' PROVE Timely'
  <2>1. Timely /\ faults' = 0
    BY <1>1, <1>6, <1>10 DEF Undisturbed
  <2>2. ASSUME NEW k \in {0, 1}, OnTime(k)
        PROVE  IF pc # "down" /\ pc' = "down"
               THEN /\ EndRun /\ summary.processed = 1
                    /\ Len(partition') = baseline + k + 1
                    /\ partition'[baseline + k + 1] = disk[target_file]
               ELSE OnTime(k)'
    BY <1>1, <1>6, <2>1, <2>2, RunsOnTime
  <2>3. CASE cell = "first"
    <3>1. OnTime(0)
      BY <2>1, <2>3 DEF Timely
    <3>2. CASE pc # "down" /\ pc' = "down"
      <4>1. /\ cell' = "read" /\ Len(partition') = baseline + 1
            /\ partition'[baseline + 1] = disk[target_file]
        BY <1>2, <1>6, <2>2, <2>3, <3>1, <3>2
      <4> QED
        BY <1>1, <1>3, <4>1 DEF Timely
    <3>3. CASE ~ (pc # "down" /\ pc' = "down")
      <4>1. cell' = "first" /\ OnTime(0)'
        BY <1>2, <2>2, <2>3, <3>1, <3>3
      <4> QED
        BY <4>1 DEF Timely
    <3> QED
      BY <3>2, <3>3
  <2>4. CASE cell = "second"
    <3>1. OnTime(1) /\ beforeReplay = baseline + 1 /\ partition[baseline + 1] # disk[target_file]
      BY <2>1, <2>4 DEF Timely
    <3>2. partition'[baseline + 1] # disk[target_file]
      BY <1>6, <2>4, <3>1 DEF Established
    <3>3. CASE pc # "down" /\ pc' = "down"
      <4>1. /\ cell' = "reread" /\ Len(partition') = baseline + 2
            /\ partition'[baseline + 2] = disk[target_file]
        <5>1. baseline + 1 + 1 = baseline + 2
          BY <1>6
        <5> QED
          BY <1>2, <1>6, <2>2, <2>4, <3>1, <3>3, <5>1
      <4> QED
        BY <1>1, <1>3, <3>1, <3>2, <4>1 DEF Timely
    <3>4. CASE ~ (pc # "down" /\ pc' = "down")
      <4>1. cell' = "second" /\ OnTime(1)'
        BY <1>2, <2>2, <2>4, <3>1, <3>4
      <4> QED
        BY <1>1, <1>3, <3>1, <3>2, <4>1 DEF Timely
    <3> QED
      BY <3>3, <3>4
  <2> QED
    BY <1>1, <2>3, <2>4
<1> QED
  BY <1>4, <1>9, <1>10

(* Cells that leave the parser and its file alone.                         *)
LEMMA RestsOwn ==
  ASSUME OwnRun, UNCHANGED <<disk, version, store, pc, todo, job, summary>>,
         cell \notin {"first", "second"}
  PROVE  OwnRun' /\ RowCurrent' = RowCurrent
BY DEF OwnRun, OwnFile, RowCurrent, JobGeneration

LEMMA Reads ==
  ASSUME ParserTyped, OwnDocument, ReadFirst \/ ReadSecond
  PROVE  OwnDocument'
<1>1. /\ cell \in {"read", "reread"}
      /\ UNCHANGED <<vars, partition, baseline, beforeReplay, checkpoint, content_hash>>
  BY DEF ReadFirst, ReadSecond
<1>2. OwnRun' /\ RowCurrent' = RowCurrent
  BY <1>1, RestsOwn DEF OwnDocument, vars
<1>3. Undisturbed' = Undisturbed /\ disk' = disk
  BY <1>1 DEF Undisturbed, vars
<1>4. /\ Established /\ RowCurrent /\ partition \in Seq(Contents \cup {Theirs})
      /\ disk[target_file] \in Contents /\ Len(partition) \in Nat /\ baseline \in Nat
      /\ Undisturbed => Timely
  BY <1>1, OwnFileIs DEF OwnDocument, Established, OwnRun
<1>5. CASE ReadFirst
  <2>1. /\ cell = "read" /\ checkpoint = baseline /\ baseline < Len(partition)
        /\ cell' = IF partition[baseline + 1] = disk[target_file] THEN "load" ELSE "failed"
    BY <1>4, <1>5 DEF ReadFirst, Expect, Established
  <2>2. Established'
    BY <1>1, <1>2, <1>4, <2>1 DEF Established, Cells
  <2>3. Undisturbed => Timely'
    BY <1>1, <1>3, <1>4, <2>1 DEF Timely
  <2> QED
    BY <1>2, <1>3, <2>2, <2>3 DEF OwnDocument
<1>6. CASE ReadSecond
  <2>1. /\ cell = "reread"
        /\ cell' = IF Len(partition) = beforeReplay + 1
                        /\ partition[Len(partition)] \in Contents \ {partition[baseline + 1]}
                   THEN "upsert" ELSE "failed"
    BY <1>6 DEF ReadSecond, Expect, LatestOffset
  <2>2. /\ checkpoint = baseline + 1 /\ baseline < Len(partition) /\ partition[baseline + 1] \in Contents
        /\ beforeReplay \in baseline + 1..Len(partition)
    BY <1>4, <2>1 DEF Established
  <2>3. Established'
    BY <1>1, <1>2, <1>4, <2>1, <2>2 DEF Established, Cells
  <2>4. Undisturbed => Timely'
    <3> SUFFICES ASSUME Undisturbed PROVE Timely'
      OBVIOUS
    <3>1. /\ Len(partition) = baseline + 2 /\ partition[baseline + 2] = disk[target_file]
          /\ beforeReplay = baseline + 1 /\ partition[baseline + 1] # disk[target_file]
      BY <1>4, <2>1 DEF Timely
    <3>2. cell' = "upsert"
      BY <1>4, <2>1, <3>1
    <3> QED
      BY <1>1, <1>3, <3>1, <3>2 DEF Timely
  <2> QED
    BY <1>2, <1>3, <2>3, <2>4 DEF OwnDocument
<1> QED
  BY <1>5, <1>6

LEMMA Edits ==
  ASSUME ParserTyped, OwnDocument, EditSource
  PROVE  OwnDocument'
<1>1. PICK c \in Contents \ (Unparsable \cup {disk[target_file]}) : Edit(target_file, c)
  BY DEF EditSource
<1>2. /\ cell = "edit" /\ cell' = "second" /\ beforeReplay' = Len(partition)
      /\ disk' = [disk EXCEPT ![target_file] = c]
      /\ UNCHANGED <<version, store, pc, todo, job, summary, faults>>
      /\ UNCHANGED <<partition, baseline, checkpoint, content_hash>>
  BY <1>1 DEF EditSource, Edit, LatestOffset, runVars
<1>3. /\ pc = "down" /\ job = NoJob /\ summary.processed = 0
      /\ OwnFile /\ todo \subseteq {target_file}
  BY <1>2 DEF OwnDocument, OwnRun, ParserTyped, TypeOK
<1>4. disk'[target_file] = c /\ \A f \in Files \ {target_file} : disk'[f] = disk[f]
  BY <1>2, DocumentAssumption DEF ParserTyped, TypeOK
<1>5. OwnRun'
  BY <1>1, <1>2, <1>3, <1>4 DEF OwnRun, OwnFile
<1>6. /\ partition \in Seq(Contents \cup {Theirs}) /\ Len(partition) \in Nat /\ baseline \in Nat
      /\ baseline < Len(partition) /\ partition[baseline + 1] \in Contents /\ checkpoint = baseline + 1
      /\ RowCurrent
  BY <1>2 DEF OwnDocument, Established
<1>7. Established'
  BY <1>2, <1>6 DEF Established, Cells
<1>8. ASSUME Undisturbed' PROVE Timely'
  <2>1. Undisturbed
    BY <1>2, <1>8 DEF Undisturbed
  <2>2. Len(partition) = baseline + 1 /\ partition[baseline + 1] = disk[target_file]
    BY <1>2, <2>1 DEF OwnDocument, Timely
  <2>3. ~ RowCurrent'
    BY <1>1, <1>2, <1>4, <1>6 DEF RowCurrent
  <2>4. OnTime(1)'
    BY <1>2, <1>3, <2>2, <2>3 DEF OnTime
  <2> QED
    BY <1>1, <1>2, <1>4, <2>2, <2>4 DEF Timely
<1> QED
  BY <1>5, <1>7, <1>8 DEF OwnDocument

LEMMA UpsertedIs ==
  ASSUME NEW b \in Seq(Contents \cup {Theirs})
  PROVE  /\ Len(b) = 0 => Upserted(b) = content_hash
         /\ Len(b) = 1 /\ b[1] \in Contents => Upserted(b) = b[1]
<1>1. Len(b) = 0 => {i \in DOMAIN b : b[i] \in Contents} = {}
  OBVIOUS
<1>2. Len(b) = 1 /\ b[1] \in Contents => {i \in DOMAIN b : b[i] \in Contents} = {1}
  OBVIOUS
<1>3. (CHOOSE i \in {1} : \A j \in {1} : j <= i) = 1
  OBVIOUS
<1> QED
  BY <1>1, <1>2, <1>3 DEF Upserted

LEMMA PendingIs ==
  ASSUME partition \in Seq(Contents \cup {Theirs}), checkpoint \in 0..Len(partition)
  PROVE  /\ Pending \in Seq(Contents \cup {Theirs})
         /\ Len(Pending) = Len(partition) - checkpoint
         /\ \A i \in 1..Len(Pending) : Pending[i] = partition[checkpoint + i]
<1>1. Len(partition) \in Nat /\ checkpoint \in Nat
  OBVIOUS
<1>2. \A i \in 1..(Len(partition) - checkpoint) : checkpoint + i \in 1..Len(partition)
  BY <1>1
<1> QED
  BY <1>1, <1>2 DEF Pending

LEMMA Takes ==
  ASSUME ParserTyped, OwnDocument, LoadBaseline \/ ResumeCheckpoint \/ LoadSecond
  PROVE  OwnDocument'
<1>1. /\ cell \in {"load", "resume", "upsert"}
      /\ UNCHANGED <<vars, partition, baseline, beforeReplay>>
      /\ content_hash' = Upserted(Pending) /\ checkpoint' = Len(partition)
      /\ cell' = IF /\ Len(Pending) = IF cell = "resume" THEN 0 ELSE 1
                    /\ content_hash' = disk[target_file]
                 THEN CASE cell = "load" -> "resume" [] cell = "resume" -> "edit" [] OTHER -> "passed"
                 ELSE "failed"
  BY DEF LoadBaseline, ResumeCheckpoint, LoadSecond, SparkTakes, Expect, LatestOffset
<1>2. OwnRun' /\ RowCurrent' = RowCurrent
  BY <1>1, RestsOwn DEF OwnDocument, vars
<1>3. Undisturbed' = Undisturbed /\ disk' = disk /\ store' = store
  BY <1>1 DEF Undisturbed, vars
<1>4. /\ RowCurrent /\ partition \in Seq(Contents \cup {Theirs})
      /\ disk[target_file] \in Contents /\ Len(partition) \in Nat /\ baseline \in Nat
      /\ baseline < Len(partition) /\ partition[baseline + 1] \in Contents
      /\ checkpoint = IF cell = "load" THEN baseline ELSE baseline + 1
      /\ Undisturbed => Timely
  BY <1>1, OwnFileIs DEF OwnDocument, Established, OwnRun
<1>5. /\ Len(Pending) = Len(partition) - checkpoint
      /\ Pending \in Seq(Contents \cup {Theirs})
      /\ \A i \in 1..Len(Pending) : Pending[i] = partition[checkpoint + i]
  <2>1. checkpoint \in 0..Len(partition)
    BY <1>4
  <2> QED
    BY <1>4, <2>1, PendingIs
<1>6. CASE cell = "load"
  <2>1. /\ Len(partition) = baseline + 1 => content_hash' = partition[baseline + 1]
        /\ cell' = IF Len(partition) = baseline + 1 /\ content_hash' = disk[target_file]
                   THEN "resume" ELSE "failed"
    <3>1. Len(Pending) = 1 <=> Len(partition) = baseline + 1
      BY <1>4, <1>5, <1>6
    <3>2. Len(Pending) = 1 => Pending[1] = partition[baseline + 1]
      BY <1>4, <1>5, <1>6
    <3> QED
      BY <1>1, <1>4, <1>5, <1>6, <3>1, <3>2, UpsertedIs
  <2>2. Established'
    BY <1>1, <1>2, <1>4, <2>1 DEF Established, Cells
  <2>3. Undisturbed => Timely'
    BY <1>1, <1>3, <1>4, <1>6, <2>1 DEF Timely
  <2> QED
    BY <1>2, <1>3, <2>2, <2>3 DEF OwnDocument
<1>7. CASE cell = "resume"
  <2>1. /\ Len(partition) = baseline + 1 => content_hash' = content_hash
        /\ cell' = IF Len(partition) = baseline + 1 /\ content_hash' = disk[target_file]
                   THEN "edit" ELSE "failed"
    <3>1. Len(Pending) = 0 <=> Len(partition) = baseline + 1
      BY <1>4, <1>5, <1>7
    <3> QED
      BY <1>1, <1>5, <1>7, <3>1, UpsertedIs
  <2>2. Established'
    BY <1>1, <1>2, <1>4, <2>1 DEF Established, Cells
  <2>3. Undisturbed => Timely'
    BY <1>1, <1>3, <1>4, <1>7, <2>1 DEF Timely
  <2> QED
    BY <1>2, <1>3, <2>2, <2>3 DEF OwnDocument
<1>8. CASE cell = "upsert"
  <2>1. /\ beforeReplay \in baseline + 1..Len(partition) /\ beforeReplay < Len(partition)
        /\ partition[beforeReplay + 1] \in Contents
    BY <1>8 DEF OwnDocument, Established
  <2>2. /\ Len(partition) = baseline + 2 =>
             content_hash' = partition[baseline + 2] /\ partition[baseline + 2] \in Contents
        /\ cell' = IF Len(partition) = baseline + 2 /\ content_hash' = disk[target_file]
                   THEN "passed" ELSE "failed"
    <3>1. Len(Pending) = 1 <=> Len(partition) = baseline + 2
      BY <1>4, <1>5, <1>8
    <3>2. Len(Pending) = 1 => Pending[1] = partition[baseline + 2]
      <4>1. checkpoint = baseline + 1 /\ baseline \in Nat
        BY <1>4, <1>8
      <4>2. checkpoint + 1 = baseline + 2
        BY <4>1
      <4>3. Len(Pending) = 1 => 1 \in 1..Len(Pending)
        OBVIOUS
      <4> QED
        BY <1>5, <4>2, <4>3
    <3>3. Len(partition) = baseline + 2 => beforeReplay + 1 = baseline + 2
      BY <1>4, <2>1
    <3> QED
      BY <1>1, <1>5, <1>8, <2>1, <3>1, <3>2, <3>3, UpsertedIs
  <2>3. ASSUME cell' = "passed" PROVE DocumentVerdictIsTrue'
    <3>1. Len(partition) = baseline + 2 /\ content_hash' = disk[target_file]
          /\ partition[baseline + 2] \in Contents
      BY <2>2, <2>3
    <3>2. \A i \in baseline + 1..Len(partition) : partition[i] \in Contents
      <4> TAKE i \in baseline + 1..Len(partition)
      <4>1. i = baseline + 1 \/ i = baseline + 2
        BY <1>4, <3>1
      <4> QED
        BY <1>4, <3>1, <4>1
    <3>3. Theirs \notin {partition[i] : i \in baseline + 1..Len(partition)}
      BY <3>2, DocumentAssumption
    <3>4. store[target_file].hash = disk[target_file]
      BY <1>4 DEF RowCurrent
    <3> QED
      BY <1>1, <1>3, <2>3, <3>1, <3>3, <3>4 DEF DocumentVerdictIsTrue
  <2>4. Established'
    BY <1>1, <1>2, <1>4, <2>2, <2>3 DEF Established, Cells
  <2>5. Undisturbed => Timely'
    BY <1>1, <1>3, <1>4, <1>8, <2>2 DEF Timely
  <2> QED
    BY <1>2, <1>3, <2>4, <2>5 DEF OwnDocument
<1> QED
  BY <1>1, <1>6, <1>7, <1>8

LEMMA Disturbs ==
  ASSUME ParserTyped, OwnDocument, SparkFails \/ OthersPublish
  PROVE  OwnDocument'
<1>1. CASE SparkFails
  <2>1. /\ cell \in {"load", "resume", "upsert"} /\ cell' = "failed" /\ faults' = faults + 1
        /\ UNCHANGED <<disk, version, store, pc, todo, job, summary, partition, baseline>>
    BY <1>1 DEF SparkFails, envVars, runVars
  <2>2. OwnRun'
    BY <2>1, RestsOwn DEF OwnDocument
  <2>3. Established'
    BY <2>1 DEF OwnDocument, Established, Cells
  <2>4. ~ Undisturbed'
    BY <2>1 DEF Undisturbed, ParserTyped, TypeOK
  <2> QED
    BY <2>2, <2>3, <2>4 DEF OwnDocument
<1>2. CASE OthersPublish
  <2>1. /\ cell \notin {"passed", "failed"} /\ partition' = partition \o << Theirs >>
        /\ UNCHANGED <<vars, cell, baseline, beforeReplay, checkpoint, content_hash>>
    <3>1. partition' = Append(partition, Theirs) /\ partition \in Seq(Contents \cup {Theirs})
      BY <1>2 DEF OthersPublish, OwnDocument, Established
    <3> QED
      BY <1>2, <3>1 DEF OthersPublish
  <2>2. /\ faults \in Nat /\ faults' = faults /\ Established
        /\ << Theirs >> \in Seq(Contents \cup {Theirs}) /\ Len(<< Theirs >>) = 1 /\ << Theirs >>[1] = Theirs
    BY <2>1 DEF ParserTyped, TypeOK, vars, OwnDocument
  <2>3. /\ partition' \in Seq(Contents \cup {Theirs}) /\ Len(partition') = Len(partition) + 1
        /\ \A i \in 1..Len(partition) : partition'[i] = partition[i]
        /\ Len(partition) \in Nat /\ baseline \in Nat /\ baseline <= Len(partition)
        /\ ~ Undisturbed'
    <3>1. PICK s \in Seq(Contents \cup {Theirs}) : s = << Theirs >> /\ Len(s) = 1 /\ s[1] = Theirs
      BY <2>2
    <3>2. partition' = partition \o s /\ baseline' = baseline /\ faults <= faults'
      BY <2>1, <2>2, <3>1
    <3>3. /\ partition' \in Seq(Contents \cup {Theirs}) /\ Len(partition') = Len(partition) + 1
          /\ \A i \in 1..Len(partition) : partition'[i] = partition[i]
          /\ Len(partition) \in Nat /\ baseline \in Nat /\ baseline <= Len(partition)
          /\ Undisturbed' => \A i \in 1..1 : s[i] # Theirs
      BY <2>2, <3>1, <3>2, PartitionGrows
    <3> QED
      BY <3>1, <3>3
  <2>4. OwnRun' /\ RowCurrent' = RowCurrent
    BY <2>1 DEF OwnDocument, OwnRun, OwnFile, RowCurrent, JobGeneration, vars
  <2>5. /\ \A i \in Nat : i < Len(partition) /\ partition[i + 1] \in Contents =>
               i < Len(partition') /\ partition'[i + 1] \in Contents
        /\ \A i \in baseline + 1..Len(partition) : i \in Nat /\ i \in baseline + 1..Len(partition')
    BY <2>3
  <2>6. /\ cell \in {"second", "reread", "upsert"} => beforeReplay \in baseline + 1..Len(partition)
        /\ cell = "upsert" => beforeReplay < Len(partition) /\ partition[beforeReplay + 1] \in Contents
    BY <2>2 DEF Established
  <2>7. cell = "upsert" => beforeReplay < Len(partition') /\ partition'[beforeReplay + 1] \in Contents
    BY <2>5, <2>6
  <2>8. cell \in {"second", "reread", "upsert"} => beforeReplay \in baseline + 1..Len(partition')
    BY <2>5, <2>6
  <2>9. cell \in {"load", "resume", "edit", "second", "reread", "upsert"} =>
           baseline < Len(partition') /\ partition'[baseline + 1] \in Contents
    BY <2>2, <2>3, <2>5 DEF Established
  <2>10. baseline \in 0..Len(partition') /\ (baseline < Len(partition) => baseline < Len(partition'))
    BY <2>3
  <2>11. Established'
    BY <2>1, <2>2, <2>3, <2>4, <2>7, <2>8, <2>9, <2>10 DEF Established, vars
  <2> QED
    BY <2>3, <2>4, <2>11 DEF OwnDocument
<1> QED
  BY <1>1, <1>2

DocumentInv == IF task = "documents" THEN OwnDocument ELSE cell = "capture"

LEMMA InitDocuments == LiveInit => DocumentInv
<1> SUFFICES ASSUME LiveInit, task = "documents" PROVE OwnDocument
  BY DEF LiveInit, DocumentInit, DocumentInv
<1>1. /\ cell = "capture" /\ partition = << >> /\ baseline = 0 /\ OwnFile
      /\ pc = "down" /\ job = NoJob /\ todo = {} /\ summary.processed = 0
      /\ store[target_file] = NoRow
  BY DocumentAssumption DEF LiveInit, DocumentInit, PipelineInit, Init, EmptySummary
<1>2. OwnRun
  BY <1>1 DEF OwnRun
<1>3. Established
  BY <1>1 DEF Established, Cells
<1> QED
  BY <1>1, <1>2, <1>3 DEF OwnDocument

LEMMA NextDocuments ==
  ASSUME LiveBase, LiveBase', DocumentInv, [LiveNext]_liveVars
  PROVE  DocumentInv'
<1>1. ParserTyped /\ ParserTyped'
  BY DEF LiveBase
<1>2. CASE UNCHANGED <<documentVars, task>> /\ (task # "documents" \/ UNCHANGED vars)
  <2>1. CASE task # "documents"
    BY <1>2, <2>1 DEF DocumentInv, documentVars
  <2>2. CASE UNCHANGED <<documentVars, task, vars>>
    <3>1. OwnDocument' = OwnDocument
      BY <2>2 DEF OwnDocument, OwnRun, OwnFile, Established, Undisturbed, Timely, OnTime, RowCurrent,
         JobGeneration, DocumentVerdictIsTrue, documentVars, vars
    <3> QED
      BY <2>2, <3>1 DEF DocumentInv, documentVars
  <2> QED
    BY <1>2, <2>1, <2>2
<1>3. CASE task = "documents" /\ DocumentNext /\ UNCHANGED task
  BY <1>1, <1>3, Captures, Executes, Reads, Edits, Takes, Disturbs DEF DocumentInv, DocumentNext
<1> QED
  BY <1>2, <1>3 DEF LiveNext, liveVars

(* The notebook of Task 5 passes only if the job has taken the two records *)
(* of its file and nothing else since the baseline, and document, state    *)
(* store and file agree; it fails only if something failed or somebody     *)
(* else published in between.                                              *)
THEOREM DocumentVerdictsAreTrue == LiveSpec => []DocumentVerdictIsTrue
<1>1. LiveInit => LiveBase /\ DocumentInv
  BY InitLiveBase, InitDocuments
<1>2. LiveBase /\ DocumentInv /\ [LiveNext]_liveVars => LiveBase' /\ DocumentInv'
  BY NextLiveBase, NextDocuments
<1>3. LiveBase /\ DocumentInv => DocumentVerdictIsTrue
  <2> SUFFICES ASSUME LiveBase, OwnDocument PROVE DocumentVerdictIsTrue
    BY DEF DocumentInv, DocumentVerdictIsTrue
  <2>1. cell = "passed" => DocumentVerdictIsTrue
    BY DEF OwnDocument, Established
  <2>2. ASSUME cell = "failed" PROVE DocumentVerdictIsTrue
    <3>1. ~ Undisturbed
      BY <2>2 DEF OwnDocument, Timely
    <3>2. faults \in Nat /\ baseline \in Nat /\ Len(partition) \in Nat
      BY DEF LiveBase, ParserTyped, TypeOK, OwnDocument, Established
    <3>3. CASE faults # 0
      BY <2>2, <3>2, <3>3 DEF DocumentVerdictIsTrue
    <3>4. CASE \E i \in 1..Len(partition) : i > baseline /\ partition[i] = Theirs
      <4>1. PICK i \in 1..Len(partition) : i > baseline /\ partition[i] = Theirs
        BY <3>4
      <4>2. i \in baseline + 1..Len(partition)
        BY <3>2, <4>1
      <4> QED
        BY <2>2, <4>1, <4>2 DEF DocumentVerdictIsTrue
    <3> QED
      BY <3>1, <3>3, <3>4 DEF Undisturbed
  <2> QED
    BY <2>1, <2>2 DEF DocumentVerdictIsTrue
<1> QED
  BY <1>1, <1>2, <1>3, PTL DEF LiveSpec

-----------------------------------------------------------------------------
(***************************************************************************)
(* The notebook of Task 4.                                                *)
(***************************************************************************)
GraphTaskInv ==
    /\ task = "graph" => VerificationInv
    /\ task # "graph" => ~ primed

LEMMA StutterKeepsVerification ==
  ASSUME VerificationInv, UNCHANGED <<vars, sinkVars, checkVars>>
  PROVE  VerificationInv'
<1>1. Typed'
  BY DEF VerificationInv, Typed, TypeOK, JobReadable, JobGeneration, PipelineTypeOK,
     VerificationTypeOK, vars, sinkVars, checkVars
<1>2. /\ UNCHANGED <<disk, version, store, log, pc, job, todo, summary>>
      /\ UNCHANGED <<graph, position, committed>>
      /\ UNCHANGED <<check, replay, dlqEnd, dlqBefore, counts, primed, clean>>
  BY DEF vars, sinkVars, checkVars
<1>3. TombsNamed' = TombsNamed
  BY <1>2 DEF TombsNamed
<1>4. OneRun' = OneRun
  BY <1>2 DEF OneRun, InHand, Reparsed, JobGeneration
<1>5. GroupOffsets' = GroupOffsets
  BY <1>2 DEF GroupOffsets, IsNew, Awaited, Reparsed
<1>6. Traced' = Traced
  BY <1>2 DEF Traced, Trace, Sent, Reparsed
<1>7. \A f \in Files : Steady(f)' = Steady(f)
  BY <1>2 DEF Steady, IsThere, GraphCounts, Reparsed
<1> QED
  BY <1>1, <1>2, <1>3, <1>4, <1>5, <1>6, <1>7 DEF VerificationInv, Going, DlqGrew, DlqDelta

(* Task 4: when the notebook passes, Neo4j holds all of the parsed content *)
(* in its generation; when an assertion fails, records were dead-lettered  *)
(* since it began, if the connectors were through then and had left no     *)
(* placeholders.                                                           *)
THEOREM VerdictsAreSound == LiveSpec => []VerdictIsSound
<1>1. LiveInit => GraphTaskInv
  <2> SUFFICES ASSUME LiveInit PROVE GraphTaskInv
    OBVIOUS
  <2>1. VerificationInv /\ ~ primed
    BY InitVerificationInv DEF LiveInit, VerificationInit
  <2> QED
    BY <2>1 DEF GraphTaskInv
<1>2. GraphTaskInv /\ [LiveNext]_liveVars => GraphTaskInv'
  <2> SUFFICES ASSUME GraphTaskInv, [LiveNext]_liveVars PROVE GraphTaskInv'
    OBVIOUS
  <2>1. CASE task = "graph" /\ VerificationNext /\ UNCHANGED task
    BY <2>1, NextVerificationInv DEF GraphTaskInv
  <2>2. CASE task # "graph" /\ UNCHANGED <<checkVars, task>>
    BY <2>2 DEF GraphTaskInv, checkVars
  <2>3. CASE UNCHANGED liveVars
    BY <2>3, StutterKeepsVerification DEF GraphTaskInv, liveVars, checkVars
  <2> QED
    BY <2>1, <2>2, <2>3 DEF LiveNext
<1>3. GraphTaskInv => VerdictIsSound
  BY VerdictsFollow DEF GraphTaskInv, VerdictIsSound
<1> QED
  BY <1>1, <1>2, <1>3, PTL DEF LiveSpec
=============================================================================
