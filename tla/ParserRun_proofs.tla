--------------------------- MODULE ParserRun_proofs ---------------------------
(***************************************************************************)
(* Proofs about ParserRun, for any files, contents, parsers, versions and  *)
(* numbers of edits and faults: its type invariant, that the committed     *)
(* state is always backed by the topics, and what a consumer that applies  *)
(* the topics in order is left with.  The committed elements are live, what*)
(* outlives its generation was published and never committed, and a delete *)
(* names the content that last wrote the element.                          *)
(***************************************************************************)
EXTENDS ParserRun, SequenceTheorems, FiniteSetTheorems, WellFoundedInduction, TLAPS

(***************************************************************************)
(* The batch of a file.                                                    *)
(***************************************************************************)
LEMMA RowForIsRow ==
  ASSUME NEW g \in Generation
  PROVE  /\ RowFor(g) \in Row
         /\ RowFor(g).hash = g[1] /\ RowFor(g).version = g[2]
         /\ <<RowFor(g).hash, RowFor(g).version>> = g
<1>1. ParsedNodes[g] \in Seq(Nodes) /\ ParsedEdges[g] \in Seq(Edges)
  BY CpgAssumption
<1>2. NodesOf(g) \in SUBSET Nodes /\ EdgesOf(g) \in SUBSET Edges
  BY <1>1, RangeOfSeq DEF NodesOf, EdgesOf
<1>3. g[1] \in Contents /\ g[2] \in Versions /\ g = <<g[1], g[2]>>
  BY DEF Generation
<1> QED
  BY <1>2, <1>3 DEF RowFor, Row

LEMMA OrderingIsSeq ==
  ASSUME NEW S, IsFiniteSet(S), NEW T, S \subseteq T, NEW s \in SetToSeqs(S)
  PROVE  s \in Seq(T)
<1>1. Cardinality(S) \in Nat
  BY FS_CardinalityType
<1>2. s \in [1..Cardinality(S) -> S]
  BY DEF SetToSeqs
<1>3. s \in [1..Cardinality(S) -> T]
  BY <1>2
<1> QED
  BY <1>1, <1>3

(* The upserts of a whole generation are in a batch.                       *)
BatchCovers(batch, f, g) ==
    /\ \A n \in NodesOf(g) : NodeUpsert(n, g) \in Range(batch["cpg.nodes"])
    /\ \A e \in EdgesOf(g) : EdgeUpsert(e, g) \in Range(batch["cpg.edges"])
    /\ FileMetadataUpsert(f, g) \in Range(batch["source.metadata"])

LEMMA DeleteGenerationIs ==
  ASSUME NEW g \in Generation, NEW row \in Row \cup {NoRow}
  PROVE  DeleteGeneration(row, g) \in Generation
  BY RunAssumption DEF DeleteGeneration, Generation, Row

LEMMA NodesToSendCover ==
  ASSUME NEW g \in Generation, NEW row \in Row \cup {NoRow}, NEW dn \in Seq(Nodes)
  PROVE  /\ NodesToSend(row, g, dn) \in Seq(Event)
         /\ \A n \in NodesOf(g) : NodeUpsert(n, g) \in Range(NodesToSend(row, g, dn))
<1> DEFINE old == DeleteGeneration(row, g)
           deletes == [i \in DOMAIN dn |-> NodeDelete(dn[i], old)]
           upserts == [i \in DOMAIN ParsedNodes[g] |-> NodeUpsert(ParsedNodes[g][i], g)]
<1>0. old \in Generation
  BY DeleteGenerationIs
<1> HIDE DEF old
<1>1. ParsedNodes[g] \in Seq(Nodes)
  BY CpgAssumption
<1>2. \A n \in Nodes : NodeUpsert(n, g) \in Event /\ NodeDelete(n, old) \in Event
  BY <1>0 DEF NodeUpsert, NodeDelete, Event, NodeEvent
<1>3. deletes \in Seq(Event)
  <2>1. DOMAIN dn = 1..Len(dn) /\ Len(dn) \in Nat /\ \A i \in 1..Len(dn) : dn[i] \in Nodes
    OBVIOUS
  <2>2. deletes \in [1..Len(dn) -> Event]
    BY <1>2, <2>1
  <2> QED
    BY <2>1, <2>2
<1>4. upserts \in Seq(Event) /\ DOMAIN upserts = DOMAIN ParsedNodes[g]
  <2> DEFINE s == ParsedNodes[g]
  <2>1. DOMAIN s = 1..Len(s) /\ Len(s) \in Nat /\ \A i \in 1..Len(s) : s[i] \in Nodes
    BY <1>1
  <2>2. upserts \in [1..Len(s) -> Event]
    BY <1>2, <2>1
  <2> QED
    BY <2>1, <2>2
<1>5. \A n \in NodesOf(g) : NodeUpsert(n, g) \in Range(upserts)
  BY <1>4 DEF NodesOf, Range
<1> HIDE DEF deletes, upserts
<1>6. deletes \o upserts \in Seq(Event)
  BY <1>3, <1>4
<1>7. Range(deletes \o upserts) = Range(deletes) \cup Range(upserts)
  BY <1>3, <1>4, RangeConcatenation
<1> QED
  BY <1>5, <1>6, <1>7 DEF NodesToSend, deletes, upserts, old

LEMMA EdgesToSendCover ==
  ASSUME NEW g \in Generation, NEW row \in Row \cup {NoRow}, NEW de \in Seq(Edges)
  PROVE  /\ EdgesToSend(row, g, de) \in Seq(Event)
         /\ \A e \in EdgesOf(g) : EdgeUpsert(e, g) \in Range(EdgesToSend(row, g, de))
<1> DEFINE old == DeleteGeneration(row, g)
           deletes == [i \in DOMAIN de |-> EdgeDelete(de[i], old)]
           upserts == [i \in DOMAIN ParsedEdges[g] |-> EdgeUpsert(ParsedEdges[g][i], g)]
<1>0. old \in Generation
  BY DeleteGenerationIs
<1> HIDE DEF old
<1>1. ParsedEdges[g] \in Seq(Edges)
  BY CpgAssumption
<1>2. \A e \in Edges : EdgeUpsert(e, g) \in Event /\ EdgeDelete(e, old) \in Event
  BY <1>0 DEF EdgeUpsert, EdgeDelete, Event, EdgeEvent
<1>3. deletes \in Seq(Event)
  <2>1. DOMAIN de = 1..Len(de) /\ Len(de) \in Nat /\ \A i \in 1..Len(de) : de[i] \in Edges
    OBVIOUS
  <2>2. deletes \in [1..Len(de) -> Event]
    BY <1>2, <2>1
  <2> QED
    BY <2>1, <2>2
<1>4. upserts \in Seq(Event) /\ DOMAIN upserts = DOMAIN ParsedEdges[g]
  <2> DEFINE s == ParsedEdges[g]
  <2>1. DOMAIN s = 1..Len(s) /\ Len(s) \in Nat /\ \A i \in 1..Len(s) : s[i] \in Edges
    BY <1>1
  <2>2. upserts \in [1..Len(s) -> Event]
    BY <1>2, <2>1
  <2> QED
    BY <2>1, <2>2
<1>5. \A e \in EdgesOf(g) : EdgeUpsert(e, g) \in Range(upserts)
  BY <1>4 DEF EdgesOf, Range
<1> HIDE DEF deletes, upserts
<1>6. deletes \o upserts \in Seq(Event)
  BY <1>3, <1>4
<1>7. Range(deletes \o upserts) = Range(deletes) \cup Range(upserts)
  BY <1>3, <1>4, RangeConcatenation
<1> QED
  BY <1>5, <1>6, <1>7 DEF EdgesToSend, deletes, upserts, old

LEMMA EventsCoverGeneration ==
  ASSUME NEW f \in Files, NEW g \in Generation, NEW row \in Row \cup {NoRow},
         NEW dn \in SetToSeqs(RemovedNodes(row, g)),
         NEW de \in SetToSeqs(RemovedEdges(row, g))
  PROVE  /\ EventsToSend(f, row, g, dn, de) \in [Topics -> Seq(Event)]
         /\ BatchCovers(EventsToSend(f, row, g, dn, de), f, g)
<1> DEFINE sent == EventsToSend(f, row, g, dn, de)
<1>1. dn \in Seq(Nodes)
  <2>1. RemovedNodes(row, g) \subseteq Nodes
    BY DEF RemovedNodes, RowNodes, Row
  <2>2. IsFiniteSet(RemovedNodes(row, g))
    BY <2>1, CpgAssumption, FS_Subset
  <2> QED
    BY <2>1, <2>2, OrderingIsSeq
<1>2. de \in Seq(Edges)
  <2>1. RemovedEdges(row, g) \subseteq Edges
    BY DEF RemovedEdges, RowEdges, Row
  <2>2. IsFiniteSet(RemovedEdges(row, g))
    BY <2>1, CpgAssumption, FS_Subset
  <2> QED
    BY <2>1, <2>2, OrderingIsSeq
<1>3. FileMetadataUpsert(f, g) \in Event
  BY DEF FileMetadataUpsert, Event, MetadataEvent
<1>4. /\ << FileMetadataUpsert(f, g) >> \in Seq(Event)
      /\ FileMetadataUpsert(f, g) \in Range(<< FileMetadataUpsert(f, g) >>)
  BY <1>3 DEF Range
<1>5. sent \in [Topics -> Seq(Event)]
  BY <1>1, <1>2, <1>4, NodesToSendCover, EdgesToSendCover DEF EventsToSend, Topics
<1>6. /\ sent["cpg.nodes"] = NodesToSend(row, g, dn)
      /\ sent["cpg.edges"] = EdgesToSend(row, g, de)
      /\ sent["source.metadata"] = << FileMetadataUpsert(f, g) >>
  BY DEF EventsToSend, Topics
<1>7. BatchCovers(sent, f, g)
  BY <1>1, <1>2, <1>4, <1>6, NodesToSendCover, EdgesToSendCover DEF BatchCovers
<1> QED
  BY <1>5, <1>7

-----------------------------------------------------------------------------
(***************************************************************************)
(* Publishing: the topics only grow, and by what is delivered.             *)
(***************************************************************************)
LEMMA SubsequenceIsSeq ==
  ASSUME NEW S, NEW s \in Seq(S), NEW u \in Subsequences(s)
  PROVE  u \in Seq(S)
<1>1. Len(s) \in Nat /\ DOMAIN s = 1..Len(s) /\ \A i \in DOMAIN s : s[i] \in S
  OBVIOUS
<1>2. PICK k \in 0..Len(s) :
        u \in {[i \in 1..k |-> s[ix[i]]] :
                 ix \in {g \in [1..k -> DOMAIN s] :
                           \A i, j \in 1..k : i < j => g[i] < g[j]}}
  BY DEF Subsequences
<1>3. PICK ix \in [1..k -> DOMAIN s] : u = [i \in 1..k |-> s[ix[i]]]
  BY <1>2
<1>4. k \in Nat /\ u \in [1..k -> S]
  BY <1>1, <1>3
<1> QED
  BY <1>4

Grows ==
    \A t \in Topics, f \in Files : Range(log[t][f]) \subseteq Range(log'[t][f])

LEMMA DeliverGrows ==
  ASSUME TypeOK, job \in Job, NEW d \in [Topics -> Seq(Event)], Deliver(d)
  PROVE  /\ log' \in [Topics -> [Files -> Seq(Event)]]
         /\ Grows
         /\ \A t \in Topics : Range(d[t]) \subseteq Range(log'[t][job.file])
<1> USE DEF TypeOK
<1>1. job.file \in Files
  BY DEF Job
<1>2. ASSUME NEW t \in Topics
      PROVE  /\ log[t] \in [Files -> Seq(Event)]
             /\ log[t][job.file] \o d[t] \in Seq(Event)
             /\ Range(log[t][job.file] \o d[t]) = Range(log[t][job.file]) \cup Range(d[t])
  <2>1. log[t][job.file] \in Seq(Event) /\ d[t] \in Seq(Event)
    BY <1>1
  <2> QED
    BY <2>1, RangeConcatenation
<1>3. \A t \in Topics : log'[t] = [log[t] EXCEPT ![job.file] = log[t][job.file] \o d[t]]
  BY DEF Deliver
<1>4. ASSUME NEW t \in Topics
      PROVE  /\ log'[t] \in [Files -> Seq(Event)]
             /\ \A f \in Files : Range(log[t][f]) \subseteq Range(log'[t][f])
             /\ Range(d[t]) \subseteq Range(log'[t][job.file])
  <2> DEFINE s == log[t][job.file] \o d[t]
  <2>1. /\ log[t] \in [Files -> Seq(Event)]
        /\ s \in Seq(Event)
        /\ Range(s) = Range(log[t][job.file]) \cup Range(d[t])
    BY <1>2
  <2>2. log'[t] = [log[t] EXCEPT ![job.file] = s]
    BY <1>3
  <2> HIDE DEF s
  <2>3. log'[t] \in [Files -> Seq(Event)]
    BY <2>1, <2>2
  <2>4. /\ log'[t][job.file] = s
        /\ \A f \in Files : f # job.file => log'[t][f] = log[t][f]
    BY <1>1, <2>1, <2>2
  <2> QED
    BY <2>1, <2>3, <2>4
<1>5. log' \in [Topics -> [Files -> Seq(Event)]]
  BY <1>4 DEF Deliver
<1> QED
  BY <1>4, <1>5 DEF Grows

LEMMA PartlyDeliveredGrows ==
  ASSUME TypeOK, job \in Job, JobGeneration \in Generation, PartlyDelivered
  PROVE  /\ log' \in [Topics -> [Files -> Seq(Event)]]
         /\ Grows
         /\ abandoned' \in [Files -> SUBSET Generation]
         /\ dirty' \in SUBSET Files
<1>1. /\ job.file \in Files
      /\ \A t \in Topics : job.batch[t] \in Seq(Event)
  BY DEF Job
<1>2. PICK n \in Subsequences(job.batch["cpg.nodes"]),
           e \in Subsequences(job.batch["cpg.edges"]),
           m \in Subsequences(job.batch["source.metadata"]) :
        LET d == [t \in Topics |-> CASE t = "cpg.nodes" -> n
                                     [] t = "cpg.edges" -> e
                                     [] t = "source.metadata" -> m]
        IN /\ Deliver(d)
           /\ IF d = NoEvents
              THEN UNCHANGED histVars
              ELSE /\ dirty' = dirty \cup {job.file}
                   /\ abandoned' = [abandoned EXCEPT
                                      ![job.file] = @ \cup {JobGeneration}]
  BY DEF PartlyDelivered
<1> DEFINE d == [t \in Topics |-> CASE t = "cpg.nodes" -> n
                                    [] t = "cpg.edges" -> e
                                    [] t = "source.metadata" -> m]
<1>3. d \in [Topics -> Seq(Event)]
  <2>1. n \in Seq(Event) /\ e \in Seq(Event) /\ m \in Seq(Event)
    BY <1>1, SubsequenceIsSeq DEF Topics
  <2> QED
    BY <2>1 DEF Topics
<1>4. Deliver(d)
  BY <1>2
<1>5. \/ UNCHANGED histVars
      \/ /\ dirty' = dirty \cup {job.file}
         /\ abandoned' = [abandoned EXCEPT ![job.file] = @ \cup {JobGeneration}]
  BY <1>2
<1> HIDE DEF d
<1>6. log' \in [Topics -> [Files -> Seq(Event)]] /\ Grows
  BY <1>3, <1>4, DeliverGrows
<1>7. abandoned' \in [Files -> SUBSET Generation] /\ dirty' \in SUBSET Files
  BY <1>1, <1>5 DEF histVars, TypeOK
<1> QED
  BY <1>6, <1>7

-----------------------------------------------------------------------------
(***************************************************************************)
(* Type correctness.  A row is built from the content that was read, so    *)
(* that the invariant has to say that there was one.                       *)
(***************************************************************************)
JobReadable == pc \in {"read", "staged", "published"} => job.content # Missing

LEMMA JobIs ==
  ASSUME TypeOK, pc \in {"read", "failing", "staged", "published"}
  PROVE  /\ job \in Job
         /\ job.file \in Files
         /\ job.content \in Contents \cup {Missing}
         /\ job.batch \in [Topics -> Seq(Event)]
         /\ JobReadable /\ pc # "failing" => JobGeneration \in Generation
<1>1. job \in Job
  BY DEF TypeOK
<1>2. /\ job.file \in Files
      /\ job.content \in Contents \cup {Missing}
      /\ job.batch \in [Topics -> Seq(Event)]
  BY <1>1 DEF Job
<1>3. JobReadable /\ pc # "failing" => JobGeneration \in Generation
  BY <1>2 DEF JobReadable, JobGeneration, Generation, TypeOK
<1> QED
  BY <1>1, <1>2, <1>3

LEMMA SummaryCounts ==
  ASSUME NEW s \in Summary
  PROVE  /\ [s EXCEPT !.processed = @ + 1] \in Summary
         /\ [s EXCEPT !.skipped = @ + 1] \in Summary
         /\ [s EXCEPT !.failed = @ + 1] \in Summary
  BY DEF Summary

LEMMA EmptySummaryIs ==
  /\ EmptySummary \in Summary
  /\ \A n \in Nat : [EmptySummary EXCEPT !.eligible = n] \in Summary
  BY DEF EmptySummary, Summary

(* The part of the state that belongs to the run of a process.             *)
RunTypeOK ==
    /\ pc \in PC
    /\ todo \in SUBSET Files
    /\ job \in Job \cup {NoJob}
    /\ pc \in {"read", "failing", "staged", "published"} <=> job # NoJob
    /\ producer \in {"READY", "FAILED"}
    /\ failFast \in BOOLEAN
    /\ summary \in Summary

(* The part that outlives it.                                              *)
LastingTypeOK ==
    /\ disk \in [Files -> Contents \cup {Missing}]
    /\ edits \in Nat
    /\ version \in Versions
    /\ store \in [Files -> Row \cup {NoRow}]
    /\ log \in [Topics -> [Files -> Seq(Event)]]
    /\ errors \in [Files -> SUBSET (Contents \cup {Missing})]
    /\ faults \in Nat
    /\ abandoned \in [Files -> SUBSET Generation]
    /\ dirty \in SUBSET Files

LEMMA TypeParts == TypeOK <=> RunTypeOK /\ LastingTypeOK
  BY DEF TypeOK, RunTypeOK, LastingTypeOK

LEMMA HaltTypeOK ==
  ASSUME Halt
  PROVE  RunTypeOK' /\ JobReadable'
  BY EmptySummaryIs DEF Halt, RunTypeOK, JobReadable, PC

LEMMA AfterFailureTypeOK ==
  ASSUME TypeOK, NEW p \in {"READY", "FAILED"}, AfterFailure(p)
  PROVE  RunTypeOK' /\ JobReadable'
<1>1. CASE failFast
  BY <1>1, HaltTypeOK DEF AfterFailure
<1>2. CASE ~ failFast
  BY <1>2, SummaryCounts DEF AfterFailure, TypeOK, RunTypeOK, JobReadable, PC
<1> QED
  BY <1>1, <1>2

LEMMA NextFileTypeOK ==
  ASSUME TypeOK, NextFile, summary' \in Summary
  PROVE  RunTypeOK' /\ JobReadable'
  BY DEF NextFile, TypeOK, RunTypeOK, JobReadable, PC

LEMMA InitTypeOK == Init => TypeOK /\ JobReadable
<1> SUFFICES ASSUME Init PROVE TypeOK /\ JobReadable
  OBVIOUS
<1>1. RunTypeOK /\ JobReadable
  BY EmptySummaryIs DEF Init, RunTypeOK, JobReadable, PC
<1>2. LastingTypeOK
  <2>1. 1 \in Versions
    BY CpgAssumption DEF Versions
  <2>2. << >> \in Seq(Event)
    OBVIOUS
  <2> QED
    BY <2>1, <2>2 DEF Init, LastingTypeOK
<1> QED
  BY <1>1, <1>2, TypeParts

LEMMA NextTypeOK ==
  ASSUME TypeOK, JobReadable, [Next]_vars
  PROVE  TypeOK' /\ JobReadable'
<1> SUFFICES RunTypeOK' /\ LastingTypeOK' /\ JobReadable'
  BY DEF TypeOK, RunTypeOK, LastingTypeOK
<1> USE DEF envVars, runVars, histVars
<1>0. RunTypeOK /\ LastingTypeOK
  BY TypeParts
<1>a. ASSUME UNCHANGED <<pc, todo, job, producer, failFast, summary>>
      PROVE  RunTypeOK' /\ JobReadable'
  BY <1>0, <1>a DEF RunTypeOK, JobReadable
<1>b. ASSUME UNCHANGED <<disk, edits, version, store, log, errors, abandoned, dirty>>,
             faults' \in Nat
      PROVE  LastingTypeOK'
  BY <1>0, <1>b DEF LastingTypeOK
<1>c. faults \in Nat /\ faults + 1 \in Nat
  BY DEF TypeOK
<1>1. ASSUME NEW f \in Files, NEW c \in Contents \cup {Missing}, Edit(f, c)
      PROVE  RunTypeOK' /\ LastingTypeOK' /\ JobReadable'
  BY <1>0, <1>1, <1>a DEF Edit, LastingTypeOK
<1>2. CASE Upgrade
  BY <1>0, <1>2, <1>a, CpgAssumption DEF Upgrade, LastingTypeOK, Versions
<1>3. CASE StartRun
  <2>1. todo' \in SUBSET Files /\ Cardinality(todo') \in Nat
    <3>1. todo' \in SUBSET Files
      BY <1>3 DEF StartRun
    <3> QED
      BY <3>1, CpgAssumption, FS_Subset, FS_CardinalityType
  <2>2. summary' \in Summary
    BY <1>3, <2>1, EmptySummaryIs DEF StartRun
  <2>3. failFast' \in BOOLEAN
    BY <1>3, RunAssumption DEF StartRun
  <2>4. RunTypeOK' /\ JobReadable'
    BY <1>0, <1>3, <2>1, <2>2, <2>3 DEF StartRun, RunTypeOK, JobReadable, PC
  <2> QED
    BY <1>3, <1>b, <1>c, <2>4 DEF StartRun
<1>4. CASE EndRun
  BY <1>4, <1>b, <1>c, HaltTypeOK DEF EndRun
<1>5. ASSUME NEW f \in Files, ReadFile(f)
      PROVE  RunTypeOK' /\ LastingTypeOK' /\ JobReadable'
  <2>1. /\ job' = JobFor(f, disk[f]) /\ job'.content = disk[f]
        /\ job' \in Job /\ job' # NoJob
    <3>1. disk[f] \in Contents \cup {Missing}
      BY DEF TypeOK
    <3>2. NoEvents \in [Topics -> Seq(Event)]
      BY DEF NoEvents
    <3>3. JobFor(f, disk[f]) \in Job /\ JobFor(f, disk[f]).content = disk[f]
      BY <3>1, <3>2 DEF JobFor, Job
    <3> QED
      BY <1>5, <3>3, RunAssumption DEF ReadFile, Job
  <2>2. RunTypeOK' /\ JobReadable'
    BY <1>0, <1>5, <2>1 DEF ReadFile, RunTypeOK, JobReadable, PC
  <2> QED
    BY <1>5, <1>b, <1>c, <2>2 DEF ReadFile
<1>6. CASE SkipUnchanged
  <2>1. RunTypeOK' /\ JobReadable'
    BY <1>6, NextFileTypeOK, SummaryCounts DEF SkipUnchanged, TypeOK
  <2> QED
    BY <1>6, <1>b, <1>c, <2>1 DEF SkipUnchanged
<1>7. CASE ParseFails
  <2>1. RunTypeOK' /\ JobReadable'
    BY <1>0, <1>7 DEF ParseFails, RunTypeOK, JobReadable, PC
  <2> QED
    BY <1>7, <1>b, <1>c, <2>1 DEF ParseFails
<1>8. CASE ParserRaises
  BY <1>8, <1>b, <1>c, AfterFailureTypeOK DEF ParserRaises, TypeOK
<1>9. CASE StageEvents
  <2>1. /\ job.file \in Files /\ JobGeneration \in Generation
        /\ job \in Job
        /\ store[job.file] \in Row \cup {NoRow}
    BY <1>9, JobIs DEF StageEvents, TypeOK
  <2>2. PICK dn \in SetToSeqs(RemovedNodes(store[job.file], JobGeneration)),
             de \in SetToSeqs(RemovedEdges(store[job.file], JobGeneration)) :
          job' = [job EXCEPT !.batch =
                    EventsToSend(job.file, store[job.file], JobGeneration, dn, de)]
    BY <1>9 DEF StageEvents
  <2>3. EventsToSend(job.file, store[job.file], JobGeneration, dn, de)
          \in [Topics -> Seq(Event)]
    BY <2>1, EventsCoverGeneration
  <2>4. job' \in Job /\ job'.content = job.content
    BY <2>1, <2>2, <2>3 DEF Job
  <2>5. RunTypeOK' /\ JobReadable'
    BY <1>0, <1>9, <2>4, RunAssumption
       DEF StageEvents, RunTypeOK, JobReadable, PC, Job
  <2> QED
    BY <1>9, <1>b, <1>c, <2>5 DEF StageEvents
<1>10. CASE PublishBatch
  <2>1. /\ job \in Job /\ job.file \in Files /\ JobGeneration \in Generation
        /\ job.batch \in [Topics -> Seq(Event)]
    BY <1>10, JobIs DEF PublishBatch
  <2>2. log' \in [Topics -> [Files -> Seq(Event)]]
    BY <1>10, <2>1, DeliverGrows DEF PublishBatch
  <2>3. abandoned' \in [Files -> SUBSET Generation] /\ dirty' \in SUBSET Files
    BY <1>10, <2>1 DEF PublishBatch, TypeOK
  <2>4. RunTypeOK' /\ JobReadable'
    BY <1>0, <1>10 DEF PublishBatch, RunTypeOK, JobReadable, PC
  <2> QED
    BY <1>0, <1>10, <2>2, <2>3, <2>4 DEF PublishBatch, LastingTypeOK
<1>11. CASE PublishFails
  <2>1. job \in Job /\ JobGeneration \in Generation
    BY <1>11, JobIs DEF PublishFails
  <2>2. /\ log' \in [Topics -> [Files -> Seq(Event)]]
        /\ abandoned' \in [Files -> SUBSET Generation] /\ dirty' \in SUBSET Files
    BY <1>11, <2>1, PartlyDeliveredGrows DEF PublishFails
  <2>3. RunTypeOK' /\ JobReadable'
    BY <1>11, HaltTypeOK DEF PublishFails, Abort
  <2> QED
    BY <1>0, <1>11, <1>c, <2>2, <2>3 DEF PublishFails, LastingTypeOK
<1>12. CASE AbortBeforePublish \/ CommitFails \/ Crash \/ PublishRejected
  BY <1>12, <1>b, <1>c, HaltTypeOK
     DEF AbortBeforePublish, CommitFails, Crash, PublishRejected, Abort
<1>13. CASE CommitState
  <2>1. /\ job.file \in Files /\ JobGeneration \in Generation
        /\ RowFor(JobGeneration) \in Row
    BY <1>13, JobIs, RowForIsRow DEF CommitState
  <2>2. RunTypeOK' /\ JobReadable'
    BY <1>13, NextFileTypeOK, SummaryCounts DEF CommitState, TypeOK
  <2> QED
    BY <1>0, <1>13, <2>1, <2>2 DEF CommitState, LastingTypeOK
<1>14. CASE ReportError \/ ReportErrorFails \/ ReportErrorDropped \/ ReportErrorRejected
  <2>1. job.file \in Files /\ job.content \in Contents \cup {Missing}
    BY <1>14, JobIs DEF ReportError, ReportErrorFails, ReportErrorDropped, ReportErrorRejected
  <2>2. errors' \in [Files -> SUBSET (Contents \cup {Missing})] /\ faults' \in Nat
    <3>1. \/ errors' = [errors EXCEPT ![job.file] = @ \cup {job.content}]
          \/ errors' = errors
      BY <1>14 DEF ReportError, ReportErrorFails, ReportErrorDropped, ReportErrorRejected
    <3>2. faults' = faults \/ faults' = faults + 1
      BY <1>14 DEF ReportError, ReportErrorFails, ReportErrorDropped, ReportErrorRejected
    <3>3. errors \in [Files -> SUBSET (Contents \cup {Missing})]
      BY DEF TypeOK
    <3>4. errors' \in [Files -> SUBSET (Contents \cup {Missing})]
      BY <2>1, <3>1, <3>3
    <3> QED
      BY <1>c, <3>2, <3>4
  <2>3. RunTypeOK' /\ JobReadable'
    BY <1>14, AfterFailureTypeOK DEF ReportError, ReportErrorFails, ReportErrorDropped, ReportErrorRejected
  <2> QED
    BY <1>0, <1>14, <2>2, <2>3
       DEF ReportError, ReportErrorFails, ReportErrorDropped, ReportErrorRejected, LastingTypeOK
<1>15. CASE UNCHANGED vars
  BY <1>15, <1>a, <1>b, <1>c DEF vars
<1> QED
  BY <1>1, <1>2, <1>3, <1>4, <1>5, <1>6, <1>7, <1>8, <1>9, <1>10, <1>11, <1>12,
     <1>13, <1>14, <1>15 DEF Next, RunNext, Proceed, Fault, Environment

(* Every variable keeps its type through any run, fault, edit and upgrade. *)
THEOREM TypeCorrect == Spec => []TypeOK
<1>1. Init => TypeOK /\ JobReadable
  BY InitTypeOK
<1>2. TypeOK /\ JobReadable /\ [Next]_vars => TypeOK' /\ JobReadable'
  BY NextTypeOK
<1> QED
  BY <1>1, <1>2, PTL DEF Spec

-----------------------------------------------------------------------------
(***************************************************************************)
(* Commit after acknowledgement.  What makes the claim inductive: a staged *)
(* batch holds every upsert of the generation in hand, and between the     *)
(* acknowledgement and the commit that generation is in the topics.        *)
(***************************************************************************)
JobBacked ==
    /\ pc = "staged" => BatchCovers(job.batch, job.file, JobGeneration)
    /\ pc = "published" => FullyPublished(job.file, JobGeneration)

BackedInv == TypeOK /\ JobReadable /\ JobBacked /\ StoreBackedByLog

LEMMA PublishedStays ==
  ASSUME Grows, NEW f \in Files, NEW g \in Generation, FullyPublished(f, g)
  PROVE  FullyPublished(f, g)'
<1>1. {"cpg.nodes", "cpg.edges", "source.metadata"} = Topics
  BY DEF Topics
<1> QED
  BY <1>1 DEF Grows, FullyPublished

LEMMA StoreStaysBacked ==
  ASSUME TypeOK, StoreBackedByLog, Grows, UNCHANGED store
  PROVE  StoreBackedByLog'
<1> SUFFICES ASSUME NEW f \in Files, store[f] # NoRow
             PROVE  /\ store[f] = RowFor(<<store[f].hash, store[f].version>>)
                    /\ FullyPublished(f, <<store[f].hash, store[f].version>>)'
  BY DEF StoreBackedByLog
<1>1. <<store[f].hash, store[f].version>> \in Generation
  BY DEF TypeOK, Row, Generation
<1> QED
  BY <1>1, PublishedStays DEF StoreBackedByLog

LEMMA InitBacked == Init => JobBacked /\ StoreBackedByLog
  BY DEF Init, JobBacked, StoreBackedByLog

LEMMA NextBacked ==
  ASSUME BackedInv, [Next]_vars
  PROVE  JobBacked' /\ StoreBackedByLog'
<1> USE DEF BackedInv, envVars, runVars, histVars
<1>a. ASSUME UNCHANGED log PROVE Grows
  BY <1>a DEF Grows
<1>b. ASSUME UNCHANGED <<log, store>> PROVE StoreBackedByLog'
  BY <1>a, <1>b, StoreStaysBacked
<1>c. ASSUME pc' \notin {"staged", "published"} PROVE JobBacked'
  BY <1>c DEF JobBacked
<1>d. ASSUME Halt \/ NextFile PROVE JobBacked'
  BY <1>c, <1>d DEF Halt, NextFile
<1>e. ASSUME NEW p, AfterFailure(p) PROVE JobBacked'
  BY <1>c, <1>d, <1>e DEF AfterFailure
<1>1. ASSUME NEW f \in Files, NEW c \in Contents \cup {Missing}, Edit(f, c)
      PROVE  JobBacked' /\ StoreBackedByLog'
  BY <1>1, <1>b DEF Edit, JobBacked, JobGeneration, FullyPublished
<1>2. CASE Upgrade \/ StartRun \/ EndRun \/ ParseFails \/ SkipUnchanged
  BY <1>2, <1>b, <1>c, <1>d
     DEF Upgrade, StartRun, EndRun, ParseFails, SkipUnchanged
<1>3. ASSUME NEW f \in Files, ReadFile(f)
      PROVE  JobBacked' /\ StoreBackedByLog'
  BY <1>3, <1>b, <1>c DEF ReadFile
<1>4. CASE ParserRaises \/ ReportError \/ ReportErrorFails \/ ReportErrorDropped \/ ReportErrorRejected
  BY <1>4, <1>b, <1>e DEF ParserRaises, ReportError, ReportErrorFails, ReportErrorDropped, ReportErrorRejected
<1>5. CASE StageEvents
  <2>1. /\ job.file \in Files /\ JobGeneration \in Generation
        /\ job \in Job /\ store[job.file] \in Row \cup {NoRow}
    BY <1>5, JobIs DEF StageEvents, TypeOK
  <2>2. PICK dn \in SetToSeqs(RemovedNodes(store[job.file], JobGeneration)),
             de \in SetToSeqs(RemovedEdges(store[job.file], JobGeneration)) :
          job' = [job EXCEPT !.batch =
                    EventsToSend(job.file, store[job.file], JobGeneration, dn, de)]
    BY <1>5 DEF StageEvents
  <2>3. /\ job'.file = job.file /\ JobGeneration' = JobGeneration
        /\ job'.batch = EventsToSend(job.file, store[job.file], JobGeneration, dn, de)
    BY <1>5, <2>1, <2>2 DEF StageEvents, JobGeneration, Job
  <2>4. BatchCovers(job'.batch, job'.file, JobGeneration')
    BY <2>1, <2>3, EventsCoverGeneration
  <2>5. JobBacked'
    BY <1>5, <2>4 DEF StageEvents, JobBacked
  <2> QED
    BY <1>5, <1>b, <2>5 DEF StageEvents
<1>6. CASE PublishBatch
  <2>1. /\ job \in Job /\ job.file \in Files
        /\ job.batch \in [Topics -> Seq(Event)]
    BY <1>6, JobIs DEF PublishBatch
  <2>2. /\ Grows
        /\ \A t \in Topics : Range(job.batch[t]) \subseteq Range(log'[t][job.file])
    BY <1>6, <2>1, DeliverGrows DEF PublishBatch
  <2>3. UNCHANGED <<job, version, store>> /\ pc' = "published" /\ pc = "staged"
    BY <1>6 DEF PublishBatch
  <2>4. FullyPublished(job.file, JobGeneration)'
    BY <2>2, <2>3 DEF JobBacked, BatchCovers, FullyPublished, JobGeneration, Topics
  <2> QED
    BY <2>2, <2>3, <2>4, StoreStaysBacked DEF JobBacked
<1>7. CASE PublishFails
  <2>1. job \in Job /\ JobGeneration \in Generation
    BY <1>7, JobIs DEF PublishFails
  <2>2. Grows
    BY <1>7, <2>1, PartlyDeliveredGrows DEF PublishFails
  <2> QED
    BY <1>7, <1>d, <2>2, StoreStaysBacked DEF PublishFails, Abort
<1>8. CASE AbortBeforePublish \/ PublishRejected \/ CommitFails \/ Crash
  BY <1>8, <1>b, <1>d DEF AbortBeforePublish, PublishRejected, CommitFails, Crash, Abort
<1>9. CASE CommitState
  <2>1. /\ job.file \in Files /\ JobGeneration \in Generation
        /\ FullyPublished(job.file, JobGeneration)
    BY <1>9, JobIs DEF CommitState, JobBacked
  <2>2. /\ store' = [store EXCEPT ![job.file] = RowFor(JobGeneration)]
        /\ UNCHANGED log /\ store \in [Files -> Row \cup {NoRow}]
    BY <1>9 DEF CommitState, TypeOK
  <2>3. <<RowFor(JobGeneration).hash, RowFor(JobGeneration).version>> = JobGeneration
    BY <2>1, RowForIsRow
  <2>4. ASSUME NEW f \in Files, (store[f] # NoRow)'
        PROVE  (/\ store[f] = RowFor(<<store[f].hash, store[f].version>>)
                /\ FullyPublished(f, <<store[f].hash, store[f].version>>))'
    <3>1. CASE f = job.file
      <4>1. store'[f] = RowFor(JobGeneration)
        BY <2>1, <2>2, <3>1
      <4> QED
        BY <2>1, <2>2, <2>3, <3>1, <4>1 DEF FullyPublished
    <3>2. CASE f # job.file
      <4>1. store'[f] = store[f]
        BY <2>2, <3>2
      <4> QED
        BY <2>2, <2>4, <4>1 DEF StoreBackedByLog, FullyPublished
    <3> QED
      BY <3>1, <3>2
  <2> QED
    BY <1>9, <1>d, <2>4 DEF CommitState, StoreBackedByLog
<1>10. CASE UNCHANGED vars
  BY <1>10, <1>b DEF vars, JobBacked, JobGeneration, FullyPublished
<1> QED
  BY <1>1, <1>2, <1>3, <1>4, <1>5, <1>6, <1>7, <1>8, <1>9, <1>10
     DEF Next, RunNext, Proceed, Fault, Environment

THEOREM BackedInvariance == Spec => []BackedInv
<1>1. Init => BackedInv
  BY InitTypeOK, InitBacked DEF BackedInv
<1>2. BackedInv /\ [Next]_vars => BackedInv'
  BY NextTypeOK, NextBacked DEF BackedInv
<1> QED
  BY <1>1, <1>2, PTL DEF Spec

(* A committed row describes a generation that is in Kafka as a whole.     *)
THEOREM CommittedIsBacked == Spec => []StoreBackedByLog
<1>1. BackedInv => StoreBackedByLog
  BY DEF BackedInv
<1> QED
  BY <1>1, BackedInvariance, PTL

(* A skipped file has nothing left to publish.                             *)
THEOREM SkipsArePublished == Spec => SkippedIsPublished
<1>1. BackedInv /\ [Next]_vars =>
        [SkipUnchanged => FullyPublished(job.file, JobGeneration)]_vars
  <2> SUFFICES ASSUME BackedInv, SkipUnchanged
               PROVE  FullyPublished(job.file, JobGeneration)
    OBVIOUS
  <2>1. job.file \in Files
    BY JobIs DEF BackedInv, SkipUnchanged
  <2> QED
    BY <2>1 DEF BackedInv, SkipUnchanged, Unchanged, StoreBackedByLog
<1> QED
  BY <1>1, BackedInvariance, PTL DEF Spec, SkippedIsPublished

-----------------------------------------------------------------------------
(***************************************************************************)
(* The summary of a run.                                                   *)
(***************************************************************************)
(* What a counter gains is what the file in hand gives up.                 *)
LEMMA CountedOnce ==
  ASSUME TypeOK, RunAccountsForEveryFile, pc # "down", job # NoJob,
         job' = NoJob, todo' = todo,
         \/ summary' = [summary EXCEPT !.processed = @ + 1]
         \/ summary' = [summary EXCEPT !.skipped = @ + 1]
         \/ summary' = [summary EXCEPT !.failed = @ + 1]
  PROVE  RunAccountsForEveryFile'
<1>1. Cardinality(todo) \in Nat
  BY CpgAssumption, FS_Subset, FS_CardinalityType DEF TypeOK
<1>2. /\ summary.processed \in Nat /\ summary.skipped \in Nat
      /\ summary.failed \in Nat /\ summary.eligible \in Nat
  BY DEF TypeOK, Summary
<1>3. summary \in [eligible : Nat, processed : Nat, skipped : Nat, failed : Nat]
  BY DEF TypeOK, Summary
<1>4. CASE summary' = [summary EXCEPT !.processed = @ + 1]
  <2>1. /\ summary'.eligible = summary.eligible
        /\ summary'.processed = summary.processed + 1
        /\ summary'.skipped = summary.skipped /\ summary'.failed = summary.failed
    BY <1>3, <1>4
  <2> QED
    BY <1>1, <1>2, <2>1 DEF RunAccountsForEveryFile
<1>5. CASE summary' = [summary EXCEPT !.skipped = @ + 1]
  <2>1. /\ summary'.eligible = summary.eligible
        /\ summary'.skipped = summary.skipped + 1
        /\ summary'.processed = summary.processed /\ summary'.failed = summary.failed
    BY <1>3, <1>5
  <2> QED
    BY <1>1, <1>2, <2>1 DEF RunAccountsForEveryFile
<1>6. CASE summary' = [summary EXCEPT !.failed = @ + 1]
  <2>1. /\ summary'.eligible = summary.eligible
        /\ summary'.failed = summary.failed + 1
        /\ summary'.processed = summary.processed /\ summary'.skipped = summary.skipped
    BY <1>3, <1>6
  <2> QED
    BY <1>1, <1>2, <2>1 DEF RunAccountsForEveryFile
<1> QED
  BY <1>4, <1>5, <1>6

LEMMA NextAccounts ==
  ASSUME TypeOK, JobReadable, RunAccountsForEveryFile, [Next]_vars
  PROVE  RunAccountsForEveryFile'
<1> USE DEF envVars, runVars, histVars
<1>0. TypeOK'
  BY NextTypeOK
<1>a. ASSUME pc' = "down" PROVE RunAccountsForEveryFile'
  BY <1>a DEF RunAccountsForEveryFile
<1>b. ASSUME NEW p, AfterFailure(p), pc = "read" \/ pc = "failing"
      PROVE  RunAccountsForEveryFile'
  <2>1. CASE failFast
    BY <1>a, <1>b, <2>1 DEF AfterFailure, Halt
  <2>2. CASE ~ failFast
    BY <1>b, <2>2, CountedOnce DEF AfterFailure, TypeOK
  <2> QED
    BY <2>1, <2>2
<1>c. ASSUME UNCHANGED <<todo, summary>>, pc # "down", job # NoJob <=> job' # NoJob
      PROVE  RunAccountsForEveryFile'
  BY <1>c DEF RunAccountsForEveryFile
<1>1. CASE StartRun
  <2>1. job' = NoJob
    BY <1>1 DEF StartRun, TypeOK
  <2>2. Cardinality(todo') \in Nat
    BY <1>1, CpgAssumption, FS_Subset, FS_CardinalityType DEF StartRun
  <2>3. /\ summary'.eligible = Cardinality(todo')
        /\ summary'.processed = 0 /\ summary'.skipped = 0 /\ summary'.failed = 0
    BY <1>1 DEF StartRun, EmptySummary
  <2> QED
    BY <2>1, <2>2, <2>3 DEF RunAccountsForEveryFile
<1>2. ASSUME NEW f \in Files, ReadFile(f) PROVE RunAccountsForEveryFile'
  <2>1. IsFiniteSet(todo) /\ f \in todo /\ todo' = todo \ {f}
    BY <1>2, CpgAssumption, FS_Subset DEF ReadFile, TypeOK
  <2>2. Cardinality(todo) \in Nat /\ Cardinality(todo') = Cardinality(todo) - 1
    BY <2>1, FS_RemoveElement, FS_CardinalityType
  <2>3. job = NoJob /\ pc # "down" /\ summary' = summary
    BY <1>2 DEF ReadFile, TypeOK
  <2>4. job' # NoJob
    <3>1. pc' \in {"read", "failing"}
      BY <1>2 DEF ReadFile
    <3> QED
      BY <1>0, <3>1 DEF TypeOK
  <2>5. /\ summary.processed \in Nat /\ summary.skipped \in Nat
        /\ summary.failed \in Nat /\ summary.eligible \in Nat
    BY DEF TypeOK, Summary
  <2> QED
    BY <2>2, <2>3, <2>4, <2>5 DEF RunAccountsForEveryFile
<1>3. CASE SkipUnchanged
  BY <1>3, CountedOnce DEF SkipUnchanged, NextFile, TypeOK
<1>4. CASE CommitState
  BY <1>4, CountedOnce DEF CommitState, NextFile, TypeOK
<1>5. CASE ParserRaises \/ ReportError \/ ReportErrorFails \/ ReportErrorDropped \/ ReportErrorRejected
  BY <1>5, <1>b DEF ParserRaises, ReportError, ReportErrorFails, ReportErrorDropped, ReportErrorRejected
<1>6. CASE ParseFails \/ PublishBatch
  BY <1>6, <1>c DEF ParseFails, PublishBatch, TypeOK
<1>7. CASE StageEvents
  <2>1. job # NoJob /\ job' # NoJob
    BY <1>0, <1>7 DEF StageEvents, TypeOK
  <2> QED
    BY <1>7, <1>c, <2>1 DEF StageEvents
<1>8. CASE EndRun \/ PublishFails \/ AbortBeforePublish \/ PublishRejected \/ CommitFails
           \/ Crash
  BY <1>8, <1>a
     DEF EndRun, PublishFails, AbortBeforePublish, PublishRejected, CommitFails, Crash,
         Abort, Halt
<1>9. ASSUME NEW f \in Files, NEW c \in Contents \cup {Missing}, Edit(f, c)
      PROVE  RunAccountsForEveryFile'
  BY <1>9 DEF Edit, RunAccountsForEveryFile
<1>10. CASE Upgrade
  BY <1>10, <1>a DEF Upgrade
<1>11. CASE UNCHANGED vars
  BY <1>11 DEF vars, RunAccountsForEveryFile
<1> QED
  BY <1>1, <1>2, <1>3, <1>4, <1>5, <1>6, <1>7, <1>8, <1>9, <1>10, <1>11
     DEF Next, RunNext, Proceed, Fault, Environment

(* Every file of a run is counted once, whatever fails on the way.         *)
THEOREM EveryFileCounted == Spec => []RunAccountsForEveryFile
<1>1. Init => RunAccountsForEveryFile
  BY DEF Init, RunAccountsForEveryFile
<1>2. BackedInv /\ RunAccountsForEveryFile /\ [Next]_vars => RunAccountsForEveryFile'
  BY NextAccounts DEF BackedInv
<1> QED
  BY <1>1, <1>2, BackedInvariance, PTL DEF Spec

-----------------------------------------------------------------------------
(***************************************************************************)
(* The last of a finite set of positions.  The induction is over the       *)
(* finite sets themselves: their inclusion is well founded.                *)
(***************************************************************************)
LEMMA FiniteHasMax ==
  ASSUME NEW S \in SUBSET Nat, IsFiniteSet(S), S # {}
  PROVE  \E m \in S : \A x \in S : x <= m
<1> DEFINE Bad == {T \in FiniteSubsetsOf(Nat) : T # {} /\ ~ \E m \in T : \A x \in T : x <= m}
<1>1. ASSUME Bad # {} PROVE FALSE
  <2>1. PICK T \in Bad : \A U \in Bad : <<U, T>> \notin StrictSubsetOrdering(Nat)
    <3>1. Bad \subseteq FiniteSubsetsOf(Nat)
      OBVIOUS
    <3> HIDE DEF Bad
    <3> QED
      BY <1>1, <3>1, FS_StrictSubsetOrderingWellFounded, WFMin
  <2>2. T \in SUBSET Nat /\ IsFiniteSet(T) /\ T # {}
    BY DEF FiniteSubsetsOf
  <2>3. PICK t \in T : TRUE
    BY <2>2
  <2> DEFINE U == T \ {t}
  <2>4. U \in FiniteSubsetsOf(Nat)
    BY <2>2, FS_Subset DEF FiniteSubsetsOf
  <2>5. U \notin Bad
    BY <2>1, <2>2, <2>3 DEF StrictSubsetOrdering
  <2>6. U = {} \/ \E m \in U : \A x \in U : x <= m
    BY <2>4, <2>5
  <2> QED
    BY <2>2, <2>3, <2>6
<1>2. S \in FiniteSubsetsOf(Nat)
  BY DEF FiniteSubsetsOf
<1> QED
  BY <1>1, <1>2

-----------------------------------------------------------------------------
(***************************************************************************)
(* A sequence of events, and what appending a batch to it does.            *)
(***************************************************************************)
(* Position i holds an upsert of x that no other event of x follows.       *)
KeepsLive(s, upsert, x, i) ==
    /\ s[i].id = x /\ s[i].type = upsert
    /\ \A j \in DOMAIN s : j > i /\ s[j].id = x => s[j].type = upsert

LEMMA LiveIs ==
  ASSUME NEW s, NEW upsert, NEW x
  PROVE  x \in Live(s, upsert) <=> \E i \in DOMAIN s : KeepsLive(s, upsert, x, i)
  BY DEF Live, KeepsLive

(* The events of a difference: first the deletes of the removed ids, which *)
(* carry the old generation, then the upserts of the ids of the new one.   *)
SendsDifference(batch, upsert, delete, removed, ids, old, g) ==
    \E k \in 0..Len(batch) :
        /\ \A i \in 1..k : batch[i].type = delete /\ batch[i].gen = old
        /\ \A i \in (k + 1)..Len(batch) : batch[i].type = upsert /\ batch[i].gen = g
        /\ {batch[i].id : i \in 1..k} = removed
        /\ {batch[i].id : i \in (k + 1)..Len(batch)} = ids

LEMMA AppendedIs ==
  ASSUME NEW s \in Seq(Event), NEW b \in Seq(Event)
  PROVE  /\ s \o b \in Seq(Event)
         /\ DOMAIN s = 1..Len(s) /\ DOMAIN b = 1..Len(b)
         /\ Len(s) \in Nat /\ Len(b) \in Nat
         /\ DOMAIN (s \o b) = 1..(Len(s) + Len(b))
         /\ \A i \in 1..Len(s) : (s \o b)[i] = s[i]
         /\ \A i \in 1..Len(b) : (s \o b)[Len(s) + i] = b[i]
         /\ \A i \in DOMAIN (s \o b) :
              i \notin 1..Len(s) => i - Len(s) \in 1..Len(b) /\ (s \o b)[i] = b[i - Len(s)]
<1>1. s \o b \in Seq(Event) /\ Len(s \o b) = Len(s) + Len(b)
  OBVIOUS
<1> QED
  BY <1>1

(* Whatever is appended, an id becomes live by an upsert of it only.       *)
LEMMA LiveComesFromUpserts ==
  ASSUME NEW s \in Seq(Event), NEW b \in Seq(Event), NEW upsert,
         NEW x \in Live(s \o b, upsert), x \notin Live(s, upsert)
  PROVE  \E i \in 1..Len(b) : b[i].type = upsert /\ b[i].id = x
<1> DEFINE c == s \o b
<1>1. PICK i \in DOMAIN c : KeepsLive(c, upsert, x, i)
  BY LiveIs
<1>2. i \notin 1..Len(s)
  <2> SUFFICES ASSUME i \in 1..Len(s) PROVE FALSE
    OBVIOUS
  <2>1. KeepsLive(s, upsert, x, i)
    BY <1>1, AppendedIs DEF KeepsLive
  <2> QED
    BY <2>1, AppendedIs, LiveIs
<1> QED
  BY <1>1, <1>2, AppendedIs DEF KeepsLive

LEMMA LiveAfterDifference ==
  ASSUME NEW s \in Seq(Event), NEW b \in Seq(Event), NEW upsert, NEW delete,
         NEW removed, NEW ids, NEW old, NEW g, upsert # delete,
         SendsDifference(b, upsert, delete, removed, ids, old, g)
  PROVE  /\ ids \subseteq Live(s \o b, upsert)
         /\ Live(s \o b, upsert) \subseteq (Live(s, upsert) \ removed) \cup ids
<1> DEFINE c == s \o b
<1>0. PICK k \in 0..Len(b) :
        /\ \A i \in 1..k : b[i].type = delete /\ b[i].gen = old
        /\ \A i \in (k + 1)..Len(b) : b[i].type = upsert /\ b[i].gen = g
        /\ {b[i].id : i \in 1..k} = removed
        /\ {b[i].id : i \in (k + 1)..Len(b)} = ids
  BY DEF SendsDifference
<1>1. ASSUME NEW x \in ids PROVE x \in Live(c, upsert)
  <2>1. PICK i \in (k + 1)..Len(b) : b[i].id = x
    BY <1>0, <1>1
  <2>2. /\ Len(s) + i \in DOMAIN c
        /\ c[Len(s) + i].id = x /\ c[Len(s) + i].type = upsert
    BY <1>0, <2>1, AppendedIs
  <2>3. ASSUME NEW j \in DOMAIN c, j > Len(s) + i PROVE c[j].type = upsert
    <3>1. j - Len(s) \in (k + 1)..Len(b) /\ c[j] = b[j - Len(s)]
      BY <2>1, <2>3, AppendedIs
    <3> QED
      BY <1>0, <3>1
  <2>4. KeepsLive(c, upsert, x, Len(s) + i)
    BY <2>2, <2>3 DEF KeepsLive
  <2> QED
    BY <2>2, <2>4, LiveIs
<1>2. ASSUME NEW x \in Live(c, upsert) PROVE x \in (Live(s, upsert) \ removed) \cup ids
  <2>1. CASE x \notin Live(s, upsert)
    <3>1. PICK i \in 1..Len(b) : b[i].type = upsert /\ b[i].id = x
      BY <1>2, <2>1, LiveComesFromUpserts
    <3>2. i \in (k + 1)..Len(b)
      BY <1>0, <3>1, AppendedIs
    <3> QED
      BY <1>0, <3>1, <3>2
  <2>2. CASE x \in Live(s, upsert) /\ x \in removed
    <3>1. PICK i \in 1..k : b[i].id = x /\ b[i].type = delete
      BY <1>0, <2>2
    <3>2. /\ Len(s) + i \in DOMAIN c
          /\ c[Len(s) + i].id = x /\ c[Len(s) + i].type # upsert
      BY <3>1, AppendedIs
    <3>3. PICK h \in DOMAIN c : KeepsLive(c, upsert, x, h)
      BY <1>2, LiveIs
    <3>4. h \in Nat /\ Len(s) + i \in Nat /\ ~ (Len(s) + i > h) /\ h # Len(s) + i
      BY <3>2, <3>3, AppendedIs DEF KeepsLive
    <3>5. h - Len(s) \in (k + 1)..Len(b) /\ c[h] = b[h - Len(s)]
      <4>1. h > Len(s)
        BY <3>4, AppendedIs
      <4>2. h - Len(s) \in 1..Len(b) /\ c[h] = b[h - Len(s)]
        BY <4>1, AppendedIs
      <4> QED
        BY <1>0, <3>3, <4>2, AppendedIs DEF KeepsLive
    <3> QED
      BY <1>0, <3>3, <3>5 DEF KeepsLive
  <2> QED
    BY <2>1, <2>2
<1> QED
  BY <1>1, <1>2

LEMMA LatestAfterDifference ==
  ASSUME NEW s \in Seq(Event), NEW b \in Seq(Event), NEW upsert, NEW delete,
         NEW removed, NEW ids, NEW old, NEW g, upsert # delete,
         SendsDifference(b, upsert, delete, removed, ids, old, g), NEW x \in ids
  PROVE  LatestUpsert(s \o b, upsert, x) = g
<1> DEFINE c == s \o b
           hits == {i \in DOMAIN c : c[i].type = upsert /\ c[i].id = x}
           last == CHOOSE i \in hits : \A j \in hits : j <= i
<1>0. PICK k \in 0..Len(b) :
        /\ \A i \in 1..k : b[i].type = delete /\ b[i].gen = old
        /\ \A i \in (k + 1)..Len(b) : b[i].type = upsert /\ b[i].gen = g
        /\ {b[i].id : i \in 1..k} = removed
        /\ {b[i].id : i \in (k + 1)..Len(b)} = ids
  BY DEF SendsDifference
<1>1. PICK i \in (k + 1)..Len(b) : b[i].id = x
  BY <1>0
<1>2. Len(s) + i \in hits
  BY <1>0, <1>1, AppendedIs
<1>3. hits \in SUBSET Nat /\ IsFiniteSet(hits)
  <2>1. hits \subseteq 1..(Len(s) + Len(b)) /\ Len(s) + Len(b) \in Nat
    BY AppendedIs
  <2> HIDE DEF hits
  <2>2. IsFiniteSet(1..(Len(s) + Len(b)))
    BY <2>1, FS_Interval
  <2>3. hits \in SUBSET Nat
    BY <2>1
  <2>4. IsFiniteSet(hits)
    BY <2>1, <2>2, FS_Subset
  <2> QED
    BY <2>3, <2>4
<1>4. last \in hits /\ last >= Len(s) + i
  <2>1. \E m \in hits : \A j \in hits : j <= m
    BY <1>2, <1>3, FiniteHasMax
  <2>2. last \in hits /\ \A j \in hits : j <= last
    BY <2>1
  <2> HIDE DEF last, hits
  <2> QED
    BY <1>1, <1>2, <1>3, <2>2, AppendedIs
<1>5. c[last].gen = g
  <2>0. last \in DOMAIN c
    BY <1>4
  <2> HIDE DEF last
  <2>1. last - Len(s) \in (k + 1)..Len(b) /\ c[last] = b[last - Len(s)]
    BY <1>1, <1>4, <2>0, AppendedIs
  <2> QED
    BY <1>0, <2>1
<1> QED
  BY <1>5 DEF LatestUpsert

-----------------------------------------------------------------------------
(***************************************************************************)
(* The batch of a file is the difference of its two graphs.                *)
(***************************************************************************)

(* An ordering of a set leaves none of its elements out.                   *)
LEMMA OrderingIsOnto ==
  ASSUME NEW S, IsFiniteSet(S), NEW s \in SetToSeqs(S)
  PROVE  /\ Len(s) = Cardinality(S) /\ Len(s) \in Nat /\ DOMAIN s = 1..Len(s)
         /\ {s[i] : i \in 1..Len(s)} = S
<1> DEFINE n == Cardinality(S)
<1>1. n \in Nat
  BY FS_CardinalityType
<1>2. s \in [1..n -> S] /\ \A i, j \in 1..n : i # j => s[i] # s[j]
  BY DEF SetToSeqs
<1>3. s \in Injection(1..n, S)
  BY <1>2 DEF Injection, IsInjective
<1>4. Cardinality(1..n) = n
  BY <1>1, FS_Interval
<1>5. s \in Surjection(1..n, S)
  BY <1>3, <1>4, FS_Injection
<1>6. Len(s) = n
  BY <1>1, <1>2
<1>7. \A x \in S : \E i \in 1..n : s[i] = x
  BY <1>5 DEF Surjection
<1>8. DOMAIN s = 1..n /\ \A i \in 1..n : s[i] \in S
  BY <1>2
<1> HIDE DEF n
<1>9. {s[i] : i \in 1..n} = S
  BY <1>7, <1>8
<1> QED
  BY <1>1, <1>6, <1>8, <1>9 DEF n

LEMMA EventParts ==
  ASSUME NEW x, NEW g
  PROVE  /\ NodeUpsert(x, g).type = "NODE_UPSERT" /\ NodeDelete(x, g).type = "NODE_DELETE"
         /\ EdgeUpsert(x, g).type = "EDGE_UPSERT" /\ EdgeDelete(x, g).type = "EDGE_DELETE"
         /\ NodeUpsert(x, g).id = x /\ NodeDelete(x, g).id = x
         /\ EdgeUpsert(x, g).id = x /\ EdgeDelete(x, g).id = x
         /\ NodeUpsert(x, g).gen = g /\ NodeDelete(x, g).gen = g
         /\ EdgeUpsert(x, g).gen = g /\ EdgeDelete(x, g).gen = g
  BY DEF NodeUpsert, NodeDelete, EdgeUpsert, EdgeDelete

LEMMA DeletesThenUpserts ==
  ASSUME NEW D \in Seq(Event), NEW U \in Seq(Event), NEW upsert, NEW delete, NEW old, NEW g,
         \A i \in 1..Len(D) : D[i].type = delete /\ D[i].gen = old,
         \A i \in 1..Len(U) : U[i].type = upsert /\ U[i].gen = g
  PROVE  SendsDifference(D \o U, upsert, delete, {D[i].id : i \in 1..Len(D)},
                         {U[i].id : i \in 1..Len(U)}, old, g)
<1> DEFINE b == D \o U
           k == Len(D)
<1>1. /\ Len(b) = k + Len(U) /\ k \in 0..Len(b) /\ Len(U) \in Nat
      /\ \A i \in 1..k : b[i] = D[i]
      /\ \A i \in (k + 1)..Len(b) : i - k \in 1..Len(U) /\ b[i] = U[i - k]
      /\ \A i \in 1..Len(U) : k + i \in (k + 1)..Len(b) /\ b[k + i] = U[i]
  OBVIOUS
<1> HIDE DEF b, k
<1>2. {b[i].id : i \in 1..k} = {D[i].id : i \in 1..k}
  BY <1>1
<1>3. {b[i].id : i \in (k + 1)..Len(b)} = {U[i].id : i \in 1..Len(U)}
  <2> DEFINE I == (k + 1)..Len(b)
             J == 1..Len(U)
  <2>1. \A i \in I : \E j \in J : b[i].id = U[j].id
    BY <1>1
  <2>2. \A j \in J : \E i \in I : U[j].id = b[i].id
    BY <1>1
  <2> HIDE DEF I, J
  <2>3. {b[i].id : i \in I} = {U[j].id : j \in J}
    BY <2>1, <2>2
  <2> QED
    BY <2>3 DEF I, J
<1>4. /\ \A i \in 1..k : b[i].type = delete /\ b[i].gen = old
      /\ \A i \in (k + 1)..Len(b) : b[i].type = upsert /\ b[i].gen = g
  <2>1. ASSUME NEW i \in 1..k PROVE b[i].type = delete /\ b[i].gen = old
    BY <1>1, <2>1 DEF k
  <2>2. ASSUME NEW i \in (k + 1)..Len(b) PROVE b[i].type = upsert /\ b[i].gen = g
    BY <1>1, <2>2
  <2> QED
    BY <2>1, <2>2
<1>5. SendsDifference(b, upsert, delete, {D[i].id : i \in 1..k},
                      {U[i].id : i \in 1..Len(U)}, old, g)
  BY <1>1, <1>2, <1>3, <1>4 DEF SendsDifference
<1> QED
  BY <1>5 DEF b, k

LEMMA DifferenceIsSent ==
  ASSUME NEW g \in Generation, NEW row \in Row \cup {NoRow},
         NEW dn \in SetToSeqs(RemovedNodes(row, g)),
         NEW de \in SetToSeqs(RemovedEdges(row, g))
  PROVE  /\ SendsDifference(NodesToSend(row, g, dn), "NODE_UPSERT", "NODE_DELETE",
                            RemovedNodes(row, g), NodesOf(g), DeleteGeneration(row, g), g)
         /\ SendsDifference(EdgesToSend(row, g, de), "EDGE_UPSERT", "EDGE_DELETE",
                            RemovedEdges(row, g), EdgesOf(g), DeleteGeneration(row, g), g)
<1>1. RemovedNodes(row, g) \subseteq Nodes /\ RemovedEdges(row, g) \subseteq Edges
  BY DEF RemovedNodes, RowNodes, RemovedEdges, RowEdges, Row
<1>2. IsFiniteSet(RemovedNodes(row, g)) /\ IsFiniteSet(RemovedEdges(row, g))
  BY <1>1, CpgAssumption, FS_Subset
<1>3. SendsDifference(NodesToSend(row, g, dn), "NODE_UPSERT", "NODE_DELETE",
                      RemovedNodes(row, g), NodesOf(g), DeleteGeneration(row, g), g)
  <2> DEFINE old == DeleteGeneration(row, g)
             u == ParsedNodes[g]
             D == [i \in DOMAIN dn |-> NodeDelete(dn[i], old)]
             U == [i \in DOMAIN u |-> NodeUpsert(u[i], g)]
  <2>0. NodesToSend(row, g, dn) = D \o U
    BY DEF NodesToSend
  <2>a. old \in Generation
    BY DeleteGenerationIs
  <2> HIDE DEF old
  <2>1. /\ Len(dn) \in Nat /\ DOMAIN dn = 1..Len(dn)
        /\ {dn[i] : i \in 1..Len(dn)} = RemovedNodes(row, g)
    BY <1>2, OrderingIsOnto
  <2>2. u \in Seq(Nodes) /\ Len(u) \in Nat /\ DOMAIN u = 1..Len(u)
    BY CpgAssumption
  <2> HIDE DEF u
  <2>3. {u[i] : i \in 1..Len(u)} = NodesOf(g)
    BY <2>2 DEF NodesOf, Range, u
  <2>4. \A i \in 1..Len(dn) : dn[i] \in Nodes
    BY <1>1, <2>1
  <2>5. \A x \in Nodes : NodeUpsert(x, g) \in Event /\ NodeDelete(x, old) \in Event
    BY <2>a DEF NodeUpsert, NodeDelete, Event, NodeEvent
  <2>6. D \in Seq(Event) /\ Len(D) = Len(dn) /\ \A i \in 1..Len(dn) : D[i] = NodeDelete(dn[i], old)
    <3>1. D \in [1..Len(dn) -> Event]
      BY <2>1, <2>4, <2>5
    <3> QED
      BY <2>1, <3>1
  <2>7. U \in Seq(Event) /\ Len(U) = Len(u) /\ \A i \in 1..Len(u) : U[i] = NodeUpsert(u[i], g)
    <3>1. U \in [1..Len(u) -> Event]
      BY <2>2, <2>5
    <3> QED
      BY <2>2, <3>1
  <2> HIDE DEF D, U
  <2>8. {D[i].id : i \in 1..Len(D)} = RemovedNodes(row, g)
    BY <2>1, <2>6, EventParts
  <2>9. {U[i].id : i \in 1..Len(U)} = NodesOf(g)
    BY <2>3, <2>7, EventParts
  <2>10. /\ \A i \in 1..Len(D) : D[i].type = "NODE_DELETE" /\ D[i].gen = old
         /\ \A i \in 1..Len(U) : U[i].type = "NODE_UPSERT" /\ U[i].gen = g
    <3>1. \A i \in 1..Len(D) : D[i].type = "NODE_DELETE" /\ D[i].gen = old
      BY <2>6, EventParts
    <3>2. \A i \in 1..Len(U) : U[i].type = "NODE_UPSERT" /\ U[i].gen = g
      BY <2>7, EventParts
    <3> QED
      BY <3>1, <3>2
  <2>11. SendsDifference(D \o U, "NODE_UPSERT", "NODE_DELETE", {D[i].id : i \in 1..Len(D)},
                         {U[i].id : i \in 1..Len(U)}, old, g)
    BY <2>6, <2>7, <2>10, DeletesThenUpserts
  <2> QED
    BY <2>0, <2>8, <2>9, <2>11 DEF old
<1>4. SendsDifference(EdgesToSend(row, g, de), "EDGE_UPSERT", "EDGE_DELETE",
                      RemovedEdges(row, g), EdgesOf(g), DeleteGeneration(row, g), g)
  <2> DEFINE old == DeleteGeneration(row, g)
             u == ParsedEdges[g]
             D == [i \in DOMAIN de |-> EdgeDelete(de[i], old)]
             U == [i \in DOMAIN u |-> EdgeUpsert(u[i], g)]
  <2>0. EdgesToSend(row, g, de) = D \o U
    BY DEF EdgesToSend
  <2>a. old \in Generation
    BY DeleteGenerationIs
  <2> HIDE DEF old
  <2>1. /\ Len(de) \in Nat /\ DOMAIN de = 1..Len(de)
        /\ {de[i] : i \in 1..Len(de)} = RemovedEdges(row, g)
    BY <1>2, OrderingIsOnto
  <2>2. u \in Seq(Edges) /\ Len(u) \in Nat /\ DOMAIN u = 1..Len(u)
    BY CpgAssumption
  <2> HIDE DEF u
  <2>3. {u[i] : i \in 1..Len(u)} = EdgesOf(g)
    BY <2>2 DEF EdgesOf, Range, u
  <2>4. \A i \in 1..Len(de) : de[i] \in Edges
    BY <1>1, <2>1
  <2>5. \A x \in Edges : EdgeUpsert(x, g) \in Event /\ EdgeDelete(x, old) \in Event
    BY <2>a DEF EdgeUpsert, EdgeDelete, Event, EdgeEvent
  <2>6. D \in Seq(Event) /\ Len(D) = Len(de) /\ \A i \in 1..Len(de) : D[i] = EdgeDelete(de[i], old)
    <3>1. D \in [1..Len(de) -> Event]
      BY <2>1, <2>4, <2>5
    <3> QED
      BY <2>1, <3>1
  <2>7. U \in Seq(Event) /\ Len(U) = Len(u) /\ \A i \in 1..Len(u) : U[i] = EdgeUpsert(u[i], g)
    <3>1. U \in [1..Len(u) -> Event]
      BY <2>2, <2>5
    <3> QED
      BY <2>2, <3>1
  <2> HIDE DEF D, U
  <2>8. {D[i].id : i \in 1..Len(D)} = RemovedEdges(row, g)
    BY <2>1, <2>6, EventParts
  <2>9. {U[i].id : i \in 1..Len(U)} = EdgesOf(g)
    BY <2>3, <2>7, EventParts
  <2>10. /\ \A i \in 1..Len(D) : D[i].type = "EDGE_DELETE" /\ D[i].gen = old
         /\ \A i \in 1..Len(U) : U[i].type = "EDGE_UPSERT" /\ U[i].gen = g
    <3>1. \A i \in 1..Len(D) : D[i].type = "EDGE_DELETE" /\ D[i].gen = old
      BY <2>6, EventParts
    <3>2. \A i \in 1..Len(U) : U[i].type = "EDGE_UPSERT" /\ U[i].gen = g
      BY <2>7, EventParts
    <3> QED
      BY <3>1, <3>2
  <2>11. SendsDifference(D \o U, "EDGE_UPSERT", "EDGE_DELETE", {D[i].id : i \in 1..Len(D)},
                         {U[i].id : i \in 1..Len(U)}, old, g)
    BY <2>6, <2>7, <2>10, DeletesThenUpserts
  <2> QED
    BY <2>0, <2>8, <2>9, <2>11 DEF old
<1> QED
  BY <1>3, <1>4

-----------------------------------------------------------------------------
(***************************************************************************)
(* The inductive invariant.  While a job is between its acknowledgement    *)
(* and its commit the topics already show its generation and the row still *)
(* the previous one, so that both are stated; and every file, settled or   *)
(* not, accounts for its live elements.                                    *)
(***************************************************************************)
BatchIsDifference ==
    pc = "staged" =>
        LET row == store[job.file]
            g   == JobGeneration
            old == DeleteGeneration(row, g)
        IN /\ SendsDifference(job.batch["cpg.nodes"], "NODE_UPSERT", "NODE_DELETE",
                              RemovedNodes(row, g), NodesOf(g), old, g)
           /\ SendsDifference(job.batch["cpg.edges"], "EDGE_UPSERT", "EDGE_DELETE",
                              RemovedEdges(row, g), EdgesOf(g), old, g)

(* The last upsert of each of the ids is the one of generation g.          *)
LastWrote(s, upsert, ids, g) == \A x \in ids : LatestUpsert(s, upsert, x) = g

(* The topics of f show generation g, next to the generations gs at most.  *)
ShowsGeneration(f, g, gs) ==
    /\ NodesOf(g) \subseteq LiveNodes(f)
    /\ EdgesOf(g) \subseteq LiveEdges(f)
    /\ LiveNodes(f) \subseteq NodesOf(g) \cup UNION {NodesOf(h) : h \in gs}
    /\ LiveEdges(f) \subseteq EdgesOf(g) \cup UNION {EdgesOf(h) : h \in gs}
    /\ LastWrote(log["cpg.nodes"][f], "NODE_UPSERT", NodesOf(g), g)
    /\ LastWrote(log["cpg.edges"][f], "EDGE_UPSERT", EdgesOf(g), g)

PublishedShows ==
    pc = "published" =>
        /\ ShowsGeneration(job.file, JobGeneration, abandoned[job.file] \ {JobGeneration})
        /\ job.file \in dirty

RowIsLive(f) ==
    Settled(f) /\ store[f] # NoRow =>
        /\ store[f].nodes \subseteq LiveNodes(f)
        /\ store[f].edges \subseteq LiveEdges(f)

LiveIsAccountedFor(f) ==
    /\ LiveNodes(f) \subseteq RowNodes(store[f]) \cup UNION {NodesOf(g) : g \in abandoned[f]}
    /\ LiveEdges(f) \subseteq RowEdges(store[f]) \cup UNION {EdgesOf(g) : g \in abandoned[f]}

RowWroteLast(f) ==
    (abandoned[f] = {} \/ Settled(f)) /\ store[f] # NoRow =>
        LET g == <<store[f].hash, store[f].version>>
        IN /\ LastWrote(log["cpg.nodes"][f], "NODE_UPSERT", store[f].nodes, g)
           /\ LastWrote(log["cpg.edges"][f], "EDGE_UPSERT", store[f].edges, g)

FileShows(f) == RowIsLive(f) /\ LiveIsAccountedFor(f) /\ RowWroteLast(f)

LogInv == BatchIsDifference /\ PublishedShows /\ \A f \in Files : FileShows(f)

LEMMA InitLog == Init => LogInv
<1> SUFFICES ASSUME Init PROVE LogInv
  OBVIOUS
<1>1. \A f \in Files : Live(log["cpg.nodes"][f], "NODE_UPSERT") = {}
                       /\ Live(log["cpg.edges"][f], "EDGE_UPSERT") = {}
  BY DEF Init, Topics, Live
<1> QED
  BY <1>1 DEF Init, LogInv, BatchIsDifference, PublishedShows, FileShows, RowIsLive,
     LiveIsAccountedFor, RowWroteLast, LiveNodes, LiveEdges

(* What a step leaves alone of a file goes on showing what it showed.      *)
LEMMA FileFrame ==
  ASSUME NEW f \in Files, FileShows(f),
         log'["cpg.nodes"][f] = log["cpg.nodes"][f],
         log'["cpg.edges"][f] = log["cpg.edges"][f],
         store'[f] = store[f], abandoned'[f] = abandoned[f], f \in dirty => f \in dirty'
  PROVE  FileShows(f)'
  BY DEF FileShows, RowIsLive, LiveIsAccountedFor, RowWroteLast, LiveNodes, LiveEdges, Settled

LEMMA DeliverAppends ==
  ASSUME TypeOK, job \in Job, NEW d \in [Topics -> Seq(Event)], Deliver(d), NEW t \in Topics
  PROVE  /\ log[t][job.file] \in Seq(Event) /\ d[t] \in Seq(Event)
         /\ log'[t][job.file] = log[t][job.file] \o d[t]
         /\ \A f \in Files : f # job.file => log'[t][f] = log[t][f]
<1>1. job.file \in Files
  BY DEF Job
<1>2. log[t] \in [Files -> Seq(Event)]
  BY DEF TypeOK
<1>3. log'[t] = [log[t] EXCEPT ![job.file] = log[t][job.file] \o d[t]]
  BY DEF Deliver
<1> QED
  BY <1>1, <1>2, <1>3

LEMMA SubsequenceRange ==
  ASSUME NEW s \in Seq(Event), NEW u \in Subsequences(s)
  PROVE  u \in Seq(Event) /\ \A i \in 1..Len(u) : \E j \in 1..Len(s) : u[i] = s[j]
<1>1. PICK k \in 0..Len(s) :
        u \in {[i \in 1..k |-> s[ix[i]]] :
                 ix \in {g \in [1..k -> DOMAIN s] :
                           \A i, j \in 1..k : i < j => g[i] < g[j]}}
  BY DEF Subsequences
<1>2. PICK ix \in [1..k -> DOMAIN s] : u = [i \in 1..k |-> s[ix[i]]]
  BY <1>1
<1>3. k \in Nat /\ DOMAIN s = 1..Len(s)
  OBVIOUS
<1>4. Len(u) = k /\ \A i \in 1..k : u[i] = s[ix[i]] /\ ix[i] \in 1..Len(s)
  BY <1>2, <1>3
<1> QED
  BY <1>4, SubsequenceIsSeq

(* A publication that fails leaves nothing, or a part of the batch.        *)
LEMMA PartlyDeliveredAppends ==
  ASSUME TypeOK, job \in Job, PartlyDelivered
  PROVE  \/ /\ \A t \in Topics, f \in Files : log'[t][f] = log[t][f]
            /\ UNCHANGED histVars
         \/ /\ dirty' = dirty \cup {job.file}
            /\ abandoned' = [abandoned EXCEPT ![job.file] = @ \cup {JobGeneration}]
            /\ \A t \in Topics, f \in Files : f # job.file => log'[t][f] = log[t][f]
            /\ \A t \in Topics : \E u \in Seq(Event) :
                 /\ log'[t][job.file] = log[t][job.file] \o u
                 /\ \A i \in 1..Len(u) : \E j \in 1..Len(job.batch[t]) : u[i] = job.batch[t][j]
<1>1. /\ job.file \in Files
      /\ \A t \in Topics : job.batch[t] \in Seq(Event)
  BY DEF Job
<1>2. PICK n \in Subsequences(job.batch["cpg.nodes"]),
           e \in Subsequences(job.batch["cpg.edges"]),
           m \in Subsequences(job.batch["source.metadata"]) :
        LET d == [t \in Topics |-> CASE t = "cpg.nodes" -> n
                                     [] t = "cpg.edges" -> e
                                     [] t = "source.metadata" -> m]
        IN /\ Deliver(d)
           /\ IF d = NoEvents
              THEN UNCHANGED histVars
              ELSE /\ dirty' = dirty \cup {job.file}
                   /\ abandoned' = [abandoned EXCEPT
                                      ![job.file] = @ \cup {JobGeneration}]
  BY DEF PartlyDelivered
<1> DEFINE d == [t \in Topics |-> CASE t = "cpg.nodes" -> n
                                    [] t = "cpg.edges" -> e
                                    [] t = "source.metadata" -> m]
<1>3. ASSUME NEW t \in Topics
      PROVE  d[t] \in Seq(Event)
             /\ \A i \in 1..Len(d[t]) : \E j \in 1..Len(job.batch[t]) : d[t][i] = job.batch[t][j]
  <2>1. d[t] \in Subsequences(job.batch[t])
    BY DEF Topics
  <2> HIDE DEF d
  <2> QED
    BY <1>1, <2>1, SubsequenceRange
<1>4. Deliver(d) /\ d \in [Topics -> Seq(Event)]
  BY <1>2, <1>3
<1>5. \/ d = NoEvents /\ UNCHANGED histVars
      \/ /\ dirty' = dirty \cup {job.file}
         /\ abandoned' = [abandoned EXCEPT ![job.file] = @ \cup {JobGeneration}]
  BY <1>2
<1> HIDE DEF d
<1>6. \A t \in Topics :
        /\ log[t][job.file] \in Seq(Event)
        /\ log'[t][job.file] = log[t][job.file] \o d[t]
        /\ \A f \in Files : f # job.file => log'[t][f] = log[t][f]
  BY <1>4, DeliverAppends
<1>7. CASE d = NoEvents /\ UNCHANGED histVars
  <2>1. \A t \in Topics : log[t][job.file] \o d[t] = log[t][job.file]
    BY <1>6, <1>7 DEF NoEvents
  <2> QED
    BY <1>6, <1>7, <2>1
<1>8. CASE /\ dirty' = dirty \cup {job.file}
           /\ abandoned' = [abandoned EXCEPT ![job.file] = @ \cup {JobGeneration}]
  BY <1>3, <1>6, <1>8
<1> QED
  BY <1>5, <1>7, <1>8

-----------------------------------------------------------------------------
(***************************************************************************)
(* The steps that change what the topics show, or what they are compared   *)
(* with.                                                                   *)
(***************************************************************************)
LEMMA PublishBatchShows ==
  ASSUME TypeOK, JobReadable, LogInv, PublishBatch
  PROVE  LogInv'
<1>a. PICK f \in Files, g \in Generation : f = job.file /\ g = JobGeneration
  BY JobIs DEF PublishBatch
<1>0. /\ job \in Job /\ job.batch \in [Topics -> Seq(Event)]
      /\ pc = "staged" /\ pc' = "published"
      /\ UNCHANGED <<job, store, version>>
      /\ f = job'.file /\ g = JobGeneration'
      /\ dirty' = dirty \cup {f}
      /\ abandoned' = [abandoned EXCEPT ![f] = @ \cup {g}]
  BY <1>a, JobIs DEF PublishBatch, JobGeneration, envVars
<1>1. Deliver(job.batch)
  BY DEF PublishBatch
<1>2. abandoned'[f] = abandoned[f] \cup {g} /\ \A h \in Files : h # f => abandoned'[h] = abandoned[h]
  BY <1>0 DEF TypeOK
<1>3. \A t \in Topics, h \in Files : h # f => log'[t][h] = log[t][h]
  BY <1>0, <1>1, <1>a, DeliverAppends
<1>4. /\ NodesOf(g) \subseteq LiveNodes(f)'
      /\ LiveNodes(f)' \subseteq (LiveNodes(f) \ RemovedNodes(store[f], g)) \cup NodesOf(g)
      /\ LastWrote(log'["cpg.nodes"][f], "NODE_UPSERT", NodesOf(g), g)
  <2> DEFINE b == job.batch["cpg.nodes"]
             s == log["cpg.nodes"][f]
  <2>1. /\ s \in Seq(Event) /\ b \in Seq(Event)
        /\ log'["cpg.nodes"][f] = s \o b
    BY <1>0, <1>1, <1>a, DeliverAppends DEF Topics
  <2>2. SendsDifference(b, "NODE_UPSERT", "NODE_DELETE", RemovedNodes(store[f], g),
                        NodesOf(g), DeleteGeneration(store[f], g), g)
    BY <1>0, <1>a DEF LogInv, BatchIsDifference
  <2> HIDE DEF b, s
  <2>3. /\ NodesOf(g) \subseteq Live(s \o b, "NODE_UPSERT")
        /\ Live(s \o b, "NODE_UPSERT")
             \subseteq (Live(s, "NODE_UPSERT") \ RemovedNodes(store[f], g)) \cup NodesOf(g)
    BY <2>1, <2>2, LiveAfterDifference
  <2>4. LastWrote(s \o b, "NODE_UPSERT", NodesOf(g), g)
    BY <2>1, <2>2, LatestAfterDifference DEF LastWrote
  <2> QED
    BY <2>1, <2>3, <2>4 DEF LiveNodes, s
<1>5. /\ EdgesOf(g) \subseteq LiveEdges(f)'
      /\ LiveEdges(f)' \subseteq (LiveEdges(f) \ RemovedEdges(store[f], g)) \cup EdgesOf(g)
      /\ LastWrote(log'["cpg.edges"][f], "EDGE_UPSERT", EdgesOf(g), g)
  <2> DEFINE b == job.batch["cpg.edges"]
             s == log["cpg.edges"][f]
  <2>1. /\ s \in Seq(Event) /\ b \in Seq(Event)
        /\ log'["cpg.edges"][f] = s \o b
    BY <1>0, <1>1, <1>a, DeliverAppends DEF Topics
  <2>2. SendsDifference(b, "EDGE_UPSERT", "EDGE_DELETE", RemovedEdges(store[f], g),
                        EdgesOf(g), DeleteGeneration(store[f], g), g)
    BY <1>0, <1>a DEF LogInv, BatchIsDifference
  <2> HIDE DEF b, s
  <2>3. /\ EdgesOf(g) \subseteq Live(s \o b, "EDGE_UPSERT")
        /\ Live(s \o b, "EDGE_UPSERT")
             \subseteq (Live(s, "EDGE_UPSERT") \ RemovedEdges(store[f], g)) \cup EdgesOf(g)
    BY <2>1, <2>2, LiveAfterDifference
  <2>4. LastWrote(s \o b, "EDGE_UPSERT", EdgesOf(g), g)
    BY <2>1, <2>2, LatestAfterDifference DEF LastWrote
  <2> QED
    BY <2>1, <2>3, <2>4 DEF LiveEdges, s
<1>6. LiveIsAccountedFor(f)
  BY <1>0 DEF LogInv, FileShows
<1>7. LiveIsAccountedFor(f)'
  BY <1>0, <1>2, <1>4, <1>5, <1>6 DEF LiveIsAccountedFor
<1>8. FileShows(f)'
  BY <1>0, <1>2, <1>7 DEF FileShows, RowIsLive, RowWroteLast, Settled
<1>9. ASSUME NEW h \in Files, h # f PROVE FileShows(h)'
  <2>1. FileShows(h)
    BY DEF LogInv
  <2>2. /\ log'["cpg.nodes"][h] = log["cpg.nodes"][h]
        /\ log'["cpg.edges"][h] = log["cpg.edges"][h]
    BY <1>3, <1>9 DEF Topics
  <2> QED
    BY <1>0, <1>2, <1>9, <2>1, <2>2, FileFrame
<1>10. ShowsGeneration(f, g, abandoned[f] \ {g})'
  <2>1. LiveNodes(f)' \subseteq NodesOf(g) \cup UNION {NodesOf(h) : h \in abandoned'[f] \ {g}}
    <3>1. LiveNodes(f)' \subseteq NodesOf(g) \cup UNION {NodesOf(h) : h \in abandoned[f]}
      BY <1>4, <1>6 DEF LiveIsAccountedFor, RemovedNodes
    <3> QED
      BY <1>2, <3>1
  <2>2. LiveEdges(f)' \subseteq EdgesOf(g) \cup UNION {EdgesOf(h) : h \in abandoned'[f] \ {g}}
    <3>1. LiveEdges(f)' \subseteq EdgesOf(g) \cup UNION {EdgesOf(h) : h \in abandoned[f]}
      BY <1>5, <1>6 DEF LiveIsAccountedFor, RemovedEdges
    <3> QED
      BY <1>2, <3>1
  <2> QED
    BY <1>4, <1>5, <2>1, <2>2 DEF ShowsGeneration
<1>11. PublishedShows'
  BY <1>0, <1>10 DEF PublishedShows
<1> QED
  BY <1>0, <1>8, <1>9, <1>11 DEF LogInv, BatchIsDifference

LEMMA UpsertsAreOfGeneration ==
  ASSUME NEW b \in Seq(Event), NEW upsert, NEW delete, NEW removed, NEW ids, NEW old, NEW g,
         upsert # delete, SendsDifference(b, upsert, delete, removed, ids, old, g),
         NEW i \in 1..Len(b), b[i].type = upsert
  PROVE  b[i].id \in ids
<1>1. PICK k \in 0..Len(b) :
        /\ \A j \in 1..k : b[j].type = delete /\ b[j].gen = old
        /\ {b[j].id : j \in (k + 1)..Len(b)} = ids
  BY DEF SendsDifference
<1>2. i \in (k + 1)..Len(b)
  BY <1>1
<1> QED
  BY <1>1, <1>2

LEMMA DeletesAreOfRow ==
  ASSUME NEW b \in Seq(Event), NEW upsert, NEW delete, NEW removed, NEW ids, NEW old, NEW g,
         upsert # delete, SendsDifference(b, upsert, delete, removed, ids, old, g),
         NEW d \in Range(b), d.type = delete
  PROVE  d.id \in removed /\ d.gen = old
<1>1. PICK k \in 0..Len(b) :
        /\ \A j \in 1..k : b[j].type = delete /\ b[j].gen = old
        /\ \A j \in (k + 1)..Len(b) : b[j].type = upsert /\ b[j].gen = g
        /\ {b[j].id : j \in 1..k} = removed
  BY DEF SendsDifference
<1>2. PICK i \in 1..Len(b) : d = b[i]
  BY DEF Range
<1>3. i \in 1..k
  BY <1>1, <1>2
<1> QED
  BY <1>1, <1>2, <1>3

LEMMA PublishFailsShows ==
  ASSUME TypeOK, JobReadable, LogInv, PublishFails
  PROVE  LogInv'
<1>a. PICK f \in Files, g \in Generation : f = job.file /\ g = JobGeneration
  BY JobIs DEF PublishFails
<1>0. /\ job \in Job /\ job.batch \in [Topics -> Seq(Event)]
      /\ pc = "staged" /\ pc' = "down" /\ PartlyDelivered /\ UNCHANGED store
  BY JobIs DEF PublishFails, Abort, Halt
<1>1. CASE /\ \A t \in Topics, h \in Files : log'[t][h] = log[t][h]
           /\ UNCHANGED histVars
  <2>1. ASSUME NEW h \in Files PROVE FileShows(h)'
    <3>1. /\ log'["cpg.nodes"][h] = log["cpg.nodes"][h]
          /\ log'["cpg.edges"][h] = log["cpg.edges"][h]
      BY <1>1 DEF Topics
    <3> QED
      BY <1>0, <1>1, <3>1, FileFrame DEF LogInv, histVars
  <2> QED
    BY <1>0, <2>1 DEF LogInv, BatchIsDifference, PublishedShows
<1>2. CASE /\ dirty' = dirty \cup {job.file}
           /\ abandoned' = [abandoned EXCEPT ![job.file] = @ \cup {JobGeneration}]
           /\ \A t \in Topics, h \in Files : h # job.file => log'[t][h] = log[t][h]
           /\ \A t \in Topics : \E u \in Seq(Event) :
                /\ log'[t][job.file] = log[t][job.file] \o u
                /\ \A i \in 1..Len(u) : \E j \in 1..Len(job.batch[t]) : u[i] = job.batch[t][j]
  <2>1. /\ abandoned'[f] = abandoned[f] \cup {g} /\ f \in dirty' /\ dirty \subseteq dirty'
        /\ \A h \in Files : h # f => abandoned'[h] = abandoned[h]
    BY <1>2, <1>a DEF TypeOK
  <2>2. \A t \in Topics : \E u \in Seq(Event) :
          /\ log'[t][f] = log[t][f] \o u
          /\ \A i \in 1..Len(u) : \E j \in 1..Len(job.batch[t]) : u[i] = job.batch[t][j]
    BY <1>2, <1>a
  <2>3. LiveNodes(f)' \subseteq LiveNodes(f) \cup NodesOf(g)
    <3> DEFINE b == job.batch["cpg.nodes"]
               s == log["cpg.nodes"][f]
    <3>1. s \in Seq(Event) /\ b \in Seq(Event)
      BY <1>a, <1>0 DEF TypeOK, Topics
    <3>2. SendsDifference(b, "NODE_UPSERT", "NODE_DELETE", RemovedNodes(store[f], g),
                          NodesOf(g), DeleteGeneration(store[f], g), g)
      BY <1>0, <1>a DEF LogInv, BatchIsDifference
    <3>3. PICK u \in Seq(Event) :
            /\ log'["cpg.nodes"][f] = s \o u
            /\ \A i \in 1..Len(u) : \E j \in 1..Len(b) : u[i] = b[j]
      BY <1>a, <2>2 DEF Topics
    <3> HIDE DEF b, s
    <3>4. ASSUME NEW x \in Live(s \o u, "NODE_UPSERT"), x \notin Live(s, "NODE_UPSERT")
          PROVE  x \in NodesOf(g)
      <4>1. PICK i \in 1..Len(u) : u[i].type = "NODE_UPSERT" /\ u[i].id = x
        BY <3>1, <3>4, LiveComesFromUpserts
      <4>2. PICK j \in 1..Len(b) : u[i] = b[j]
        BY <3>3
      <4> QED
        BY <3>1, <3>2, <4>1, <4>2, UpsertsAreOfGeneration
    <3> QED
      BY <3>3, <3>4 DEF LiveNodes, s
  <2>4. LiveEdges(f)' \subseteq LiveEdges(f) \cup EdgesOf(g)
    <3> DEFINE b == job.batch["cpg.edges"]
               s == log["cpg.edges"][f]
    <3>1. s \in Seq(Event) /\ b \in Seq(Event)
      BY <1>a, <1>0 DEF TypeOK, Topics
    <3>2. SendsDifference(b, "EDGE_UPSERT", "EDGE_DELETE", RemovedEdges(store[f], g),
                          EdgesOf(g), DeleteGeneration(store[f], g), g)
      BY <1>0, <1>a DEF LogInv, BatchIsDifference
    <3>3. PICK u \in Seq(Event) :
            /\ log'["cpg.edges"][f] = s \o u
            /\ \A i \in 1..Len(u) : \E j \in 1..Len(b) : u[i] = b[j]
      BY <1>a, <2>2 DEF Topics
    <3> HIDE DEF b, s
    <3>4. ASSUME NEW x \in Live(s \o u, "EDGE_UPSERT"), x \notin Live(s, "EDGE_UPSERT")
          PROVE  x \in EdgesOf(g)
      <4>1. PICK i \in 1..Len(u) : u[i].type = "EDGE_UPSERT" /\ u[i].id = x
        BY <3>1, <3>4, LiveComesFromUpserts
      <4>2. PICK j \in 1..Len(b) : u[i] = b[j]
        BY <3>3
      <4> QED
        BY <3>1, <3>2, <4>1, <4>2, UpsertsAreOfGeneration
    <3> QED
      BY <3>3, <3>4 DEF LiveEdges, s
  <2>5. LiveIsAccountedFor(f)
    BY DEF LogInv, FileShows
  <2>6. LiveIsAccountedFor(f)'
    BY <1>0, <2>1, <2>3, <2>4, <2>5 DEF LiveIsAccountedFor
  <2>7. FileShows(f)'
    BY <2>1, <2>6 DEF FileShows, RowIsLive, RowWroteLast, Settled
  <2>8. ASSUME NEW h \in Files, h # f PROVE FileShows(h)'
    <3>1. /\ log'["cpg.nodes"][h] = log["cpg.nodes"][h]
          /\ log'["cpg.edges"][h] = log["cpg.edges"][h]
      BY <1>2, <1>a, <2>8 DEF Topics
    <3> QED
      BY <1>0, <2>1, <2>8, <3>1, FileFrame DEF LogInv
  <2> QED
    BY <1>0, <2>7, <2>8 DEF LogInv, BatchIsDifference, PublishedShows
<1> QED
  BY <1>0, <1>1, <1>2, PartlyDeliveredAppends

LEMMA CommitStateShows ==
  ASSUME TypeOK, JobReadable, LogInv, CommitState
  PROVE  LogInv'
<1>a. PICK f \in Files, g \in Generation : f = job.file /\ g = JobGeneration
  BY JobIs DEF CommitState
<1>0. /\ pc = "published" /\ pc' = "loop" /\ UNCHANGED log
      /\ dirty' = dirty \ {f}
      /\ abandoned' = [abandoned EXCEPT ![f] = @ \ {g}]
      /\ store' = [store EXCEPT ![f] = RowFor(g)]
  BY <1>a DEF CommitState, NextFile
<1>1. /\ abandoned'[f] = abandoned[f] \ {g} /\ store'[f] = RowFor(g)
      /\ \A h \in Files : h # f => abandoned'[h] = abandoned[h] /\ store'[h] = store[h]
  BY <1>0 DEF TypeOK
<1>2. /\ RowFor(g) # NoRow
      /\ RowFor(g).nodes = NodesOf(g) /\ RowFor(g).edges = EdgesOf(g)
      /\ <<RowFor(g).hash, RowFor(g).version>> = g
  BY RowForIsRow, RunAssumption DEF RowFor
<1>3. ShowsGeneration(f, g, abandoned[f] \ {g})
  BY <1>0, <1>a DEF LogInv, PublishedShows
<1>4. LiveNodes(f)' = LiveNodes(f) /\ LiveEdges(f)' = LiveEdges(f)
  BY <1>0 DEF LiveNodes, LiveEdges
<1>5. RowIsLive(f)'
  BY <1>1, <1>2, <1>3, <1>4 DEF RowIsLive, ShowsGeneration
<1>6. LiveIsAccountedFor(f)'
  BY <1>1, <1>2, <1>3, <1>4 DEF LiveIsAccountedFor, ShowsGeneration, RowNodes, RowEdges
<1>7. RowWroteLast(f)'
  BY <1>0, <1>1, <1>2, <1>3 DEF RowWroteLast, ShowsGeneration
<1>8. ASSUME NEW h \in Files, h # f PROVE FileShows(h)'
  BY <1>0, <1>1, <1>8, FileFrame DEF LogInv
<1> QED
  BY <1>0, <1>5, <1>6, <1>7, <1>8 DEF LogInv, BatchIsDifference, PublishedShows, FileShows

LEMMA NextLog ==
  ASSUME TypeOK, JobReadable, LogInv, [Next]_vars
  PROVE  LogInv'
<1> USE DEF envVars, runVars, histVars
<1>a. ASSUME UNCHANGED <<log, store, abandoned, dirty>>, NEW f \in Files
      PROVE  FileShows(f)'
  BY <1>a, FileFrame DEF LogInv
<1>b. ASSUME UNCHANGED <<log, store, abandoned, dirty>>, pc' \notin {"staged", "published"}
      PROVE  LogInv'
  BY <1>a, <1>b DEF LogInv, BatchIsDifference, PublishedShows
<1>c. ASSUME UNCHANGED <<log, store, abandoned, dirty, pc, job, version>>
      PROVE  LogInv'
  <2>1. BatchIsDifference'
    BY <1>c DEF LogInv, BatchIsDifference, JobGeneration
  <2>2. PublishedShows'
    BY <1>c DEF LogInv, PublishedShows, ShowsGeneration, LiveNodes, LiveEdges, JobGeneration
  <2> QED
    BY <1>a, <1>c, <2>1, <2>2 DEF LogInv
<1>d. ASSUME NEW p, AfterFailure(p) PROVE pc' \notin {"staged", "published"}
  BY <1>d DEF AfterFailure, Halt
<1>1. ASSUME NEW f \in Files, NEW c \in Contents \cup {Missing}, Edit(f, c)
      PROVE  LogInv'
  BY <1>1, <1>c DEF Edit
<1>2. CASE Upgrade \/ StartRun \/ EndRun \/ ParseFails \/ SkipUnchanged
  BY <1>2, <1>b DEF Upgrade, StartRun, EndRun, ParseFails, SkipUnchanged, Halt, NextFile
<1>3. ASSUME NEW f \in Files, ReadFile(f) PROVE LogInv'
  BY <1>3, <1>b DEF ReadFile
<1>4. CASE ParserRaises \/ ReportError \/ ReportErrorFails \/ ReportErrorDropped \/ ReportErrorRejected
  BY <1>4, <1>b, <1>d DEF ParserRaises, ReportError, ReportErrorFails, ReportErrorDropped, ReportErrorRejected
<1>5. CASE StageEvents
  <2>a. PICK f \in Files, g \in Generation : f = job.file /\ g = JobGeneration
    BY <1>5, JobIs DEF StageEvents
  <2>1. /\ store[f] \in Row \cup {NoRow} /\ job \in Job
        /\ UNCHANGED <<store, version, log, abandoned, dirty>> /\ pc' = "staged"
    BY <1>5, JobIs DEF StageEvents, TypeOK
  <2>2. PICK dn \in SetToSeqs(RemovedNodes(store[f], g)),
             de \in SetToSeqs(RemovedEdges(store[f], g)) :
          job' = [job EXCEPT !.batch = EventsToSend(f, store[f], g, dn, de)]
    BY <1>5, <2>a DEF StageEvents
  <2>3. /\ job'.file = f /\ JobGeneration' = g
        /\ job'.batch["cpg.nodes"] = NodesToSend(store[f], g, dn)
        /\ job'.batch["cpg.edges"] = EdgesToSend(store[f], g, de)
    BY <2>a, <2>1, <2>2 DEF Job, JobGeneration, EventsToSend, Topics
  <2>4. /\ SendsDifference(NodesToSend(store[f], g, dn), "NODE_UPSERT", "NODE_DELETE",
                           RemovedNodes(store[f], g), NodesOf(g),
                           DeleteGeneration(store[f], g), g)
        /\ SendsDifference(EdgesToSend(store[f], g, de), "EDGE_UPSERT", "EDGE_DELETE",
                           RemovedEdges(store[f], g), EdgesOf(g),
                           DeleteGeneration(store[f], g), g)
    BY <2>1, DifferenceIsSent
  <2>5. BatchIsDifference'
    BY <2>1, <2>3, <2>4 DEF BatchIsDifference
  <2> QED
    BY <1>a, <2>1, <2>5 DEF LogInv, PublishedShows
<1>6. CASE PublishBatch
  BY <1>6, PublishBatchShows
<1>7. CASE PublishFails
  BY <1>7, PublishFailsShows
<1>8. CASE CommitState
  BY <1>8, CommitStateShows
<1>9. CASE AbortBeforePublish \/ PublishRejected \/ CommitFails \/ Crash
  BY <1>9, <1>b DEF AbortBeforePublish, PublishRejected, CommitFails, Crash, Abort, Halt
<1>10. CASE UNCHANGED vars
  BY <1>10, <1>c DEF vars
<1> QED
  BY <1>1, <1>2, <1>3, <1>4, <1>5, <1>6, <1>7, <1>8, <1>9, <1>10
     DEF Next, RunNext, Proceed, Fault, Environment

THEOREM LogInvariance == Spec => []LogInv
<1>1. Init => LogInv
  BY InitLog
<1>2. BackedInv /\ LogInv /\ [Next]_vars => LogInv'
  BY NextLog DEF BackedInv
<1> QED
  BY <1>1, <1>2, BackedInvariance, PTL DEF Spec

-----------------------------------------------------------------------------
(***************************************************************************)
(* What follows from it.                                                   *)
(***************************************************************************)

(* Every element of a committed row is live in the topics, through any     *)
(* sequence of edits, upgrades, aborted publications and retries.          *)
THEOREM CommittedStaysLive == Spec => []CommittedIsLive
<1>1. LogInv => CommittedIsLive
  BY DEF LogInv, FileShows, RowIsLive, CommittedIsLive
<1> QED
  BY <1>1, LogInvariance, PTL

(* What the topics show beyond the committed row was published and never   *)
(* committed.                                                              *)
THEOREM OutlivingIsAbandoned == Spec => []OnlyAbandonedOutlives
<1>1. LogInv => OnlyAbandonedOutlives
  BY DEF LogInv, FileShows, LiveIsAccountedFor, OnlyAbandonedOutlives
<1> QED
  BY <1>1, LogInvariance, PTL

(* Without an abandoned publication of the file, a delete names the        *)
(* content that last wrote the element, and is not dropped as stale.       *)
THEOREM DeletesNameLatest == Spec => DeletesNameLatestContent
<1>1. ASSUME BackedInv, LogInv, PublishBatch, abandoned[job.file] = {}
      PROVE  /\ NamesLatest("cpg.nodes", "NODE_DELETE", "NODE_UPSERT")
             /\ NamesLatest("cpg.edges", "EDGE_DELETE", "EDGE_UPSERT")
  <2> DEFINE row == store[job.file]
             old == DeleteGeneration(row, JobGeneration)
  <2>1. /\ job \in Job /\ job.file \in Files /\ pc = "staged"
        /\ job.batch \in [Topics -> Seq(Event)] /\ row \in Row \cup {NoRow}
    BY <1>1, JobIs DEF BackedInv, PublishBatch, TypeOK
  <2>2. row # NoRow => old[1] = row.hash
    BY DEF DeleteGeneration
  <2>3. RowWroteLast(job.file)
    BY <1>1, <2>1 DEF LogInv, FileShows
  <2>4. NamesLatest("cpg.nodes", "NODE_DELETE", "NODE_UPSERT")
    <3> SUFFICES ASSUME NEW d \in Range(job.batch["cpg.nodes"]), d.type = "NODE_DELETE"
                 PROVE  LatestUpsert(log["cpg.nodes"][job.file], "NODE_UPSERT", d.id)[1] = d.gen[1]
      BY DEF NamesLatest
    <3>1. d.id \in RemovedNodes(row, JobGeneration) /\ d.gen = old
      BY <1>1, <2>1, DeletesAreOfRow DEF LogInv, BatchIsDifference, Topics
    <3>2. row # NoRow /\ d.id \in row.nodes
      BY <3>1 DEF RemovedNodes, RowNodes
    <3>3. LatestUpsert(log["cpg.nodes"][job.file], "NODE_UPSERT", d.id) = <<row.hash, row.version>>
      BY <1>1, <2>3, <3>2 DEF RowWroteLast, LastWrote
    <3> QED
      BY <2>2, <3>1, <3>2, <3>3
  <2>5. NamesLatest("cpg.edges", "EDGE_DELETE", "EDGE_UPSERT")
    <3> SUFFICES ASSUME NEW d \in Range(job.batch["cpg.edges"]), d.type = "EDGE_DELETE"
                 PROVE  LatestUpsert(log["cpg.edges"][job.file], "EDGE_UPSERT", d.id)[1] = d.gen[1]
      BY DEF NamesLatest
    <3>1. d.id \in RemovedEdges(row, JobGeneration) /\ d.gen = old
      BY <1>1, <2>1, DeletesAreOfRow DEF LogInv, BatchIsDifference, Topics
    <3>2. row # NoRow /\ d.id \in row.edges
      BY <3>1 DEF RemovedEdges, RowEdges
    <3>3. LatestUpsert(log["cpg.edges"][job.file], "EDGE_UPSERT", d.id) = <<row.hash, row.version>>
      BY <1>1, <2>3, <3>2 DEF RowWroteLast, LastWrote
    <3> QED
      BY <2>2, <3>1, <3>2, <3>3
  <2> QED
    BY <2>4, <2>5
<1>2. BackedInv /\ LogInv /\ [Next]_vars =>
        [PublishBatch /\ abandoned[job.file] = {} =>
           /\ NamesLatest("cpg.nodes", "NODE_DELETE", "NODE_UPSERT")
           /\ NamesLatest("cpg.edges", "EDGE_DELETE", "EDGE_UPSERT")]_vars
  BY <1>1
<1> QED
  BY <1>2, BackedInvariance, LogInvariance, PTL DEF Spec, DeletesNameLatestContent

-----------------------------------------------------------------------------
(***************************************************************************)
(* The topics are only appended to, and source.metadata holds the file's   *)
(* own generations, the committed one last.                                *)
(***************************************************************************)
LEMMA NextAppends ==
  ASSUME TypeOK, JobReadable, [Next]_vars, NEW t \in Topics, NEW f \in Files
  PROVE  \E u \in Seq(Event) : log'[t][f] = log[t][f] \o u
<1>0. log[t][f] \in Seq(Event)
  BY DEF TypeOK
<1>1. ASSUME log'[t][f] = log[t][f]
      PROVE  \E u \in Seq(Event) : log'[t][f] = log[t][f] \o u
  <2>1. << >> \in Seq(Event) /\ log[t][f] \o << >> = log[t][f]
    BY <1>0
  <2> QED
    BY <1>1, <2>1
<1>2. CASE PublishBatch
  <2>1. job \in Job /\ job.batch \in [Topics -> Seq(Event)] /\ Deliver(job.batch)
    BY <1>2, JobIs DEF PublishBatch
  <2>2. /\ job.batch[t] \in Seq(Event)
        /\ log'[t][job.file] = log[t][job.file] \o job.batch[t]
        /\ f # job.file => log'[t][f] = log[t][f]
    BY <2>1, DeliverAppends
  <2> QED
    BY <1>1, <2>2
<1>3. CASE PublishFails
  <2>1. job \in Job /\ PartlyDelivered
    BY <1>3, JobIs DEF PublishFails
  <2> QED
    BY <1>1, <2>1, PartlyDeliveredAppends
<1>4. ASSUME UNCHANGED log PROVE \E u \in Seq(Event) : log'[t][f] = log[t][f] \o u
  BY <1>1, <1>4
<1>5. ASSUME NEW h \in Files, NEW c \in Contents \cup {Missing}, Edit(h, c) PROVE UNCHANGED log
  BY <1>5 DEF Edit
<1>6. ASSUME NEW h \in Files, ReadFile(h) PROVE UNCHANGED log
  BY <1>6 DEF ReadFile
<1>7. CASE \/ Upgrade \/ StartRun \/ EndRun \/ ParseFails \/ SkipUnchanged \/ ParserRaises
           \/ StageEvents \/ PublishRejected \/ CommitState \/ UNCHANGED vars
  BY <1>4, <1>7 DEF Upgrade, StartRun, EndRun, ParseFails, SkipUnchanged, ParserRaises,
     StageEvents, PublishRejected, CommitState, vars
<1>8. CASE \/ ReportError \/ ReportErrorFails \/ ReportErrorDropped \/ ReportErrorRejected
           \/ AbortBeforePublish \/ CommitFails \/ Crash
  BY <1>4, <1>8 DEF ReportError, ReportErrorFails, ReportErrorDropped, ReportErrorRejected,
     AbortBeforePublish, CommitFails, Crash
<1> QED
  BY <1>2, <1>3, <1>4, <1>5, <1>6, <1>7, <1>8 DEF Next, RunNext, Proceed, Fault, Environment

(* A non-empty sequence of records, the last of which has generation g.    *)
EndsWith(s, g) == Len(s) > 0 /\ s[Len(s)].gen = g

MetadataBatch ==
    pc = "staged" =>
        job.batch["source.metadata"] = << FileMetadataUpsert(job.file, JobGeneration) >>

MetadataPublished ==
    pc = "published" => EndsWith(log["source.metadata"][job.file], JobGeneration)

MetadataOf(f) ==
    /\ \A i \in DOMAIN log["source.metadata"][f] :
         \E g \in Generation : log["source.metadata"][f][i] = FileMetadataUpsert(f, g)
    /\ Settled(f) /\ store[f] # NoRow =>
         EndsWith(log["source.metadata"][f], <<store[f].hash, store[f].version>>)

MetadataInv ==
    MetadataBatch /\ MetadataPublished /\ \A f \in Files : MetadataOf(f)

LEMMA InitMetadata == Init => MetadataInv
<1> SUFFICES ASSUME Init PROVE MetadataInv
  OBVIOUS
<1>1. \A f \in Files : DOMAIN log["source.metadata"][f] = {} /\ store[f] = NoRow
  BY DEF Init, Topics
<1> QED
  BY <1>1 DEF Init, MetadataInv, MetadataBatch, MetadataPublished, MetadataOf

LEMMA MetadataFrame ==
  ASSUME NEW f \in Files, MetadataOf(f), log'["source.metadata"][f] = log["source.metadata"][f],
         store'[f] = store[f], f \in dirty => f \in dirty'
  PROVE  MetadataOf(f)'
  BY DEF MetadataOf, Settled

LEMMA MetadataGrows ==
  ASSUME TypeOK, NEW f \in Files, MetadataOf(f), NEW g \in Generation, NEW u \in Seq(Event),
         log'["source.metadata"][f] = log["source.metadata"][f] \o u,
         \A i \in 1..Len(u) : u[i] = FileMetadataUpsert(f, g)
  PROVE  /\ \A i \in DOMAIN log'["source.metadata"][f] :
              \E h \in Generation : log'["source.metadata"][f][i] = FileMetadataUpsert(f, h)
         /\ Len(u) > 0 => EndsWith(log'["source.metadata"][f], g)
<1> DEFINE s == log["source.metadata"][f]
           c == s \o u
<1>1. s \in Seq(Event)
  BY DEF TypeOK, Topics
<1>2. \A i \in DOMAIN s : \E h \in Generation : s[i] = FileMetadataUpsert(f, h)
  BY DEF MetadataOf
<1> HIDE DEF s
<1>3. \A i \in DOMAIN c : \E h \in Generation : c[i] = FileMetadataUpsert(f, h)
  BY <1>1, <1>2, AppendedIs
<1>4. ASSUME Len(u) > 0 PROVE EndsWith(c, g)
  <2>1. Len(c) = Len(s) + Len(u) /\ c[Len(s) + Len(u)] = u[Len(u)] /\ Len(s) + Len(u) > 0
    BY <1>1, <1>4, AppendedIs
  <2>2. u[Len(u)] = FileMetadataUpsert(f, g)
    BY <1>4
  <2> QED
    BY <2>1, <2>2 DEF EndsWith, FileMetadataUpsert
<1> QED
  BY <1>3, <1>4 DEF s

LEMMA NextMetadata ==
  ASSUME TypeOK, JobReadable, MetadataInv, [Next]_vars
  PROVE  MetadataInv'
<1> USE DEF envVars, runVars, histVars
<1>a. ASSUME UNCHANGED <<log, store, dirty>>, NEW f \in Files
      PROVE  MetadataOf(f)'
  BY <1>a, MetadataFrame DEF MetadataInv
<1>b. ASSUME UNCHANGED <<log, store, dirty>>, pc' \notin {"staged", "published"}
      PROVE  MetadataInv'
  BY <1>a, <1>b DEF MetadataInv, MetadataBatch, MetadataPublished
<1>c. ASSUME UNCHANGED <<log, store, dirty, pc, job, version>>
      PROVE  MetadataInv'
  BY <1>a, <1>c DEF MetadataInv, MetadataBatch, MetadataPublished, JobGeneration
<1>d. ASSUME NEW p, AfterFailure(p) PROVE pc' \notin {"staged", "published"}
  BY <1>d DEF AfterFailure, Halt
<1>1. ASSUME NEW f \in Files, NEW c \in Contents \cup {Missing}, Edit(f, c)
      PROVE  MetadataInv'
  BY <1>1, <1>c DEF Edit
<1>2. CASE Upgrade \/ StartRun \/ EndRun \/ ParseFails \/ SkipUnchanged
  BY <1>2, <1>b DEF Upgrade, StartRun, EndRun, ParseFails, SkipUnchanged, Halt, NextFile
<1>3. ASSUME NEW f \in Files, ReadFile(f) PROVE MetadataInv'
  BY <1>3, <1>b DEF ReadFile
<1>4. CASE ParserRaises \/ ReportError \/ ReportErrorFails \/ ReportErrorDropped \/ ReportErrorRejected
  BY <1>4, <1>b, <1>d DEF ParserRaises, ReportError, ReportErrorFails, ReportErrorDropped, ReportErrorRejected
<1>5. CASE StageEvents
  <2>1. /\ UNCHANGED <<store, version, log, dirty>> /\ pc' = "staged" /\ job \in Job
    BY <1>5, JobIs DEF StageEvents
  <2>2. \E dn, de : job' = [job EXCEPT !.batch =
          EventsToSend(job.file, store[job.file], JobGeneration, dn, de)]
    BY <1>5 DEF StageEvents
  <2>3. /\ job'.file = job.file /\ JobGeneration' = JobGeneration
        /\ job'.batch["source.metadata"] = << FileMetadataUpsert(job.file, JobGeneration) >>
    BY <2>1, <2>2 DEF Job, JobGeneration, EventsToSend, Topics
  <2> QED
    BY <1>a, <2>1, <2>3 DEF MetadataInv, MetadataBatch, MetadataPublished
<1>6. CASE PublishBatch
  <2>a. PICK f \in Files, g \in Generation : f = job.file /\ g = JobGeneration
    BY <1>6, JobIs DEF PublishBatch
  <2>1. /\ job \in Job /\ job.batch \in [Topics -> Seq(Event)] /\ Deliver(job.batch)
        /\ pc = "staged" /\ pc' = "published" /\ UNCHANGED <<store, job, version>>
        /\ dirty' = dirty \cup {f}
    BY <1>6, <2>a, JobIs DEF PublishBatch
  <2>2. /\ log'["source.metadata"][f] = log["source.metadata"][f] \o << FileMetadataUpsert(f, g) >>
        /\ << FileMetadataUpsert(f, g) >> \in Seq(Event)
        /\ \A h \in Files : h # f => log'["source.metadata"][h] = log["source.metadata"][h]
    BY <2>a, <2>1, DeliverAppends DEF MetadataInv, MetadataBatch, Topics
  <2>3. /\ \A i \in DOMAIN log'["source.metadata"][f] :
             \E h \in Generation : log'["source.metadata"][f][i] = FileMetadataUpsert(f, h)
        /\ EndsWith(log'["source.metadata"][f], g)
    <3> DEFINE u == << FileMetadataUpsert(f, g) >>
    <3>1. MetadataOf(f)
      BY DEF MetadataInv
    <3>2. Len(u) = 1 /\ \A i \in 1..1 : u[i] = FileMetadataUpsert(f, g)
      OBVIOUS
    <3>3. u \in Seq(Event) /\ log'["source.metadata"][f] = log["source.metadata"][f] \o u
      BY <2>2
    <3> HIDE DEF u
    <3>4. Len(u) > 0 /\ \A i \in 1..Len(u) : u[i] = FileMetadataUpsert(f, g)
      BY <3>2
    <3> QED
      BY <3>1, <3>3, <3>4, MetadataGrows
  <2>4. MetadataOf(f)'
    BY <2>1, <2>3 DEF MetadataOf, Settled
  <2>5. ASSUME NEW h \in Files, h # f PROVE MetadataOf(h)'
    BY <2>1, <2>2, <2>5, MetadataFrame DEF MetadataInv
  <2>6. MetadataPublished'
    BY <2>a, <2>1, <2>3 DEF MetadataPublished, JobGeneration
  <2> QED
    BY <2>1, <2>4, <2>5, <2>6 DEF MetadataInv, MetadataBatch
<1>7. CASE PublishFails
  <2>a. PICK f \in Files, g \in Generation : f = job.file /\ g = JobGeneration
    BY <1>7, JobIs DEF PublishFails
  <2>1. /\ job \in Job /\ PartlyDelivered /\ pc = "staged" /\ pc' = "down" /\ UNCHANGED store
        /\ job.batch["source.metadata"] = << FileMetadataUpsert(f, g) >>
    BY <1>7, <2>a, JobIs DEF PublishFails, Abort, Halt, MetadataInv, MetadataBatch
  <2>2. CASE /\ \A t \in Topics, h \in Files : log'[t][h] = log[t][h]
             /\ UNCHANGED <<abandoned, dirty>>
    BY <2>1, <2>2, MetadataFrame DEF MetadataInv, MetadataBatch, MetadataPublished, Topics
  <2>3. CASE /\ dirty' = dirty \cup {f}
             /\ \A t \in Topics, h \in Files : h # f => log'[t][h] = log[t][h]
             /\ \A t \in Topics : \E u \in Seq(Event) :
                  /\ log'[t][f] = log[t][f] \o u
                  /\ \A i \in 1..Len(u) : \E j \in 1..Len(job.batch[t]) : u[i] = job.batch[t][j]
    <3>1. PICK u \in Seq(Event) :
            /\ log'["source.metadata"][f] = log["source.metadata"][f] \o u
            /\ \A i \in 1..Len(u) : \E j \in 1..Len(job.batch["source.metadata"]) :
                 u[i] = job.batch["source.metadata"][j]
      BY <2>3 DEF Topics
    <3>2. \A i \in 1..Len(u) : u[i] = FileMetadataUpsert(f, g)
      BY <2>1, <3>1
    <3>3. MetadataOf(f)'
      BY <2>3, <3>1, <3>2, MetadataGrows DEF MetadataInv, MetadataOf, Settled
    <3>4. ASSUME NEW h \in Files, h # f PROVE MetadataOf(h)'
      <4>1. log'["source.metadata"][h] = log["source.metadata"][h]
        BY <2>3, <3>4 DEF Topics
      <4> QED
        BY <2>1, <2>3, <4>1, MetadataFrame DEF MetadataInv
    <3> QED
      BY <2>1, <3>3, <3>4 DEF MetadataInv, MetadataBatch, MetadataPublished
  <2> QED
    BY <2>a, <2>1, <2>2, <2>3, PartlyDeliveredAppends
<1>8. CASE CommitState
  <2>a. PICK f \in Files, g \in Generation : f = job.file /\ g = JobGeneration
    BY <1>8, JobIs DEF CommitState
  <2>1. /\ pc = "published" /\ pc' = "loop" /\ UNCHANGED log
        /\ dirty' = dirty \ {f} /\ store' = [store EXCEPT ![f] = RowFor(g)]
    BY <1>8, <2>a DEF CommitState, NextFile
  <2>2. store'[f] = RowFor(g) /\ \A h \in Files : h # f => store'[h] = store[h]
    BY <2>1 DEF TypeOK
  <2>3. <<RowFor(g).hash, RowFor(g).version>> = g
    BY RowForIsRow
  <2>4. EndsWith(log["source.metadata"][f], g)
    BY <2>a, <2>1 DEF MetadataInv, MetadataPublished
  <2>5. MetadataOf(f)'
    BY <2>1, <2>2, <2>3, <2>4 DEF MetadataInv, MetadataOf
  <2>6. ASSUME NEW h \in Files, h # f PROVE MetadataOf(h)'
    BY <2>1, <2>2, <2>6, MetadataFrame DEF MetadataInv
  <2> QED
    BY <2>1, <2>5, <2>6 DEF MetadataInv, MetadataBatch, MetadataPublished
<1>9. CASE AbortBeforePublish \/ PublishRejected \/ CommitFails \/ Crash
  BY <1>9, <1>b DEF AbortBeforePublish, PublishRejected, CommitFails, Crash, Abort, Halt
<1>10. CASE UNCHANGED vars
  BY <1>10, <1>c DEF vars
<1> QED
  BY <1>1, <1>2, <1>3, <1>4, <1>5, <1>6, <1>7, <1>8, <1>9, <1>10
     DEF Next, RunNext, Proceed, Fault, Environment
=============================================================================
