-------------------------- MODULE MetadataSink_proofs --------------------------
(***************************************************************************)
(* Proofs about MetadataSink: that between batches every document is the   *)
(* record its checkpoint says, for any parser history, any number of       *)
(* deaths of the job and any number of checkpoint directories.             *)
(***************************************************************************)
EXTENDS MetadataSink, ParserRun_proofs

(***************************************************************************)
(* The inductive invariant.  The checkpoint and the progress of a batch    *)
(* are positions of the topic, in this order; a file whose batch has       *)
(* nothing for it shows the last record done, and one of which the batch   *)
(* has written something shows the record it is at.  In between, after a   *)
(* batch was started again, a document may be ahead of the progress: it    *)
(* is one of a file that the batch still has records for.                  *)
(***************************************************************************)
Positions ==
    /\ documents \in [Files -> Generation \cup {NoDocument}]
    /\ query \in {"stopped", "idle", "writing"}
    /\ planned \in [Files -> Nat] /\ done \in [Files -> Nat] /\ written \in [Files -> Nat]
    /\ checkpoints \in Nat

PositionsOrdered(f) ==
    /\ done[f] <= planned[f] /\ planned[f] <= Len(Record(f))
    /\ query = "writing" => done[f] <= written[f] /\ written[f] <= planned[f]
    /\ query = "idle" => written[f] = done[f] /\ planned[f] = done[f]

DocumentIsRecord(f) ==
    /\ planned[f] = done[f] /\ done[f] > 0 => documents[f] = Record(f)[done[f]].gen
    /\ query = "writing" /\ written[f] > done[f] =>
         documents[f] = Record(f)[written[f]].gen

SinkInv == Positions /\ \A f \in Files : PositionsOrdered(f) /\ DocumentIsRecord(f)

ParserInv == TypeOK /\ JobReadable /\ MetadataInv

LEMMA RecordsAre ==
  ASSUME ParserInv, NEW f \in Files
  PROVE  /\ Record(f) \in Seq(Event) /\ Len(Record(f)) \in Nat
         /\ \A i \in 1..Len(Record(f)) :
              ValidEvent(Record(f)[i]) /\ Record(f)[i].gen \in Generation
<1>1. Record(f) \in Seq(Event)
  BY DEF ParserInv, TypeOK, Record, Topics
<1>2. DOMAIN Record(f) = 1..Len(Record(f)) /\ Len(Record(f)) \in Nat
  BY <1>1
<1>3. \A i \in DOMAIN Record(f) : \E g \in Generation : Record(f)[i] = FileMetadataUpsert(f, g)
  BY DEF ParserInv, MetadataInv, MetadataOf, Record
<1> QED
  BY <1>1, <1>2, <1>3 DEF FileMetadataUpsert, ValidEvent

-----------------------------------------------------------------------------
LEMMA InitSink == MetadataInit => ParserInv /\ SinkInv
<1> SUFFICES ASSUME MetadataInit PROVE ParserInv /\ SinkInv
  OBVIOUS
<1>1. ParserInv
  BY InitTypeOK, InitMetadata DEF MetadataInit, ParserInv
<1>2. \A f \in Files : planned[f] = 0 /\ done[f] = 0 /\ written[f] = 0
  BY DEF MetadataInit, Earliest
<1>3. Positions
  BY DEF MetadataInit, Earliest, Positions
<1>4. \A f \in Files : PositionsOrdered(f) /\ DocumentIsRecord(f)
  BY <1>1, <1>2, RecordsAre DEF MetadataInit, PositionsOrdered, DocumentIsRecord
<1> QED
  BY <1>1, <1>3, <1>4 DEF SinkInv

(* What the parser does in the meantime adds records, and moves none.      *)
LEMMA ParserStepKeepsSink ==
  ASSUME ParserInv, SinkInv, [Next]_vars, UNCHANGED sinkVars
  PROVE  ParserInv' /\ SinkInv'
<1>1. ParserInv'
  BY NextTypeOK, NextMetadata DEF ParserInv
<1>2. ASSUME NEW f \in Files PROVE PositionsOrdered(f)' /\ DocumentIsRecord(f)'
  <2>1. PICK u \in Seq(Event) : Record(f)' = Record(f) \o u
    BY NextAppends DEF ParserInv, Record, Topics
  <2>2. Record(f) \in Seq(Event)
    BY RecordsAre
  <2>3. /\ Len(Record(f)) \in Nat /\ Len(Record(f)') \in Nat
        /\ Len(Record(f)) <= Len(Record(f)')
        /\ \A i \in 1..Len(Record(f)) : Record(f)'[i] = Record(f)[i]
    BY <2>1, <2>2, AppendedIs
  <2>4. planned[f] \in Nat /\ done[f] \in Nat /\ written[f] \in Nat
    BY DEF SinkInv, Positions
  <2>5. PositionsOrdered(f) /\ DocumentIsRecord(f)
    BY DEF SinkInv
  <2>6. PositionsOrdered(f)'
    BY <2>3, <2>4, <2>5 DEF PositionsOrdered, sinkVars
  <2>7. DocumentIsRecord(f)'
    BY <2>3, <2>4, <2>5 DEF PositionsOrdered, DocumentIsRecord, sinkVars
  <2> QED
    BY <2>6, <2>7
<1>3. Positions'
  BY DEF SinkInv, Positions, sinkVars
<1> QED
  BY <1>1, <1>2, <1>3 DEF SinkInv

LEMMA NextSink ==
  ASSUME ParserInv, SinkInv, [MetadataNext]_metadataVars
  PROVE  ParserInv' /\ SinkInv'
<1>0. /\ Positions
      /\ \A f \in Files : /\ PositionsOrdered(f) /\ DocumentIsRecord(f)
                          /\ planned[f] \in Nat /\ done[f] \in Nat /\ written[f] \in Nat
  BY DEF SinkInv, Positions
<1>a. \A f \in Files : Len(Record(f)) \in Nat
  BY RecordsAre
<1>b. ASSUME UNCHANGED vars PROVE ParserInv' /\ \A f \in Files : Record(f)' = Record(f)
  <2>1. ParserInv'
    BY <1>b, NextTypeOK, NextMetadata DEF ParserInv
  <2>2. \A f \in Files : Record(f)' = Record(f)
    BY <1>b DEF vars, Record
  <2> QED
    BY <2>1, <2>2
<1>1. CASE (Next /\ UNCHANGED sinkVars) \/ UNCHANGED metadataVars
  BY <1>1, ParserStepKeepsSink DEF metadataVars
<1>2. CASE StartQuery
  <2>1. Positions'
    BY <1>0, <1>2 DEF StartQuery, Positions
  <2>2. ASSUME NEW f \in Files PROVE PositionsOrdered(f)' /\ DocumentIsRecord(f)'
    <3>1. /\ query' \in {"idle", "writing"} /\ query' = "idle" => planned[f] = done[f]
          /\ written'[f] = done[f]
          /\ UNCHANGED <<documents, planned, done>> /\ Record(f)' = Record(f)
      BY <1>2, <1>b DEF StartQuery
    <3> QED
      BY <1>0, <3>1 DEF PositionsOrdered, DocumentIsRecord
  <2> QED
    BY <1>2, <1>b, <2>1, <2>2 DEF SinkInv, StartQuery
<1>3. CASE PlanBatch
  <2>1. Positions'
    BY <1>0, <1>3, <1>a DEF PlanBatch, Latest, Positions
  <2>2. ASSUME NEW f \in Files PROVE PositionsOrdered(f)' /\ DocumentIsRecord(f)'
    <3>1. /\ query = "idle" /\ query' = "writing" /\ planned'[f] = Len(Record(f))
          /\ UNCHANGED <<documents, done, written>> /\ Record(f)' = Record(f)
      BY <1>3, <1>b DEF PlanBatch, Latest
    <3> QED
      BY <1>0, <1>a, <3>1 DEF PositionsOrdered, DocumentIsRecord
  <2> QED
    BY <1>3, <1>b, <2>1, <2>2 DEF SinkInv, PlanBatch
<1>4. ASSUME NEW f \in Files, WriteDocument(f) PROVE ParserInv' /\ SinkInv'
  <2> DEFINE next == Record(f)[written[f] + 1]
  <2>1. /\ query = "writing" /\ written[f] < planned[f] /\ UNCHANGED <<vars, query, planned, done, checkpoints>>
        /\ written' = [written EXCEPT ![f] = written[f] + 1]
    BY <1>4 DEF WriteDocument
  <2>2. written[f] + 1 \in 1..Len(Record(f))
    BY <1>0, <1>a, <2>1 DEF PositionsOrdered
  <2>3. ValidEvent(next) /\ next.gen \in Generation
    BY <2>2, RecordsAre
  <2>4. documents' = [documents EXCEPT ![f] = next.gen]
    BY <1>4, <2>3 DEF WriteDocument
  <2> HIDE DEF next
  <2>5. /\ written'[f] = written[f] + 1 /\ documents'[f] = next.gen
        /\ \A h \in Files : h # f => written'[h] = written[h] /\ documents'[h] = documents[h]
    BY <1>0, <2>1, <2>4 DEF Positions
  <2>6. Positions'
    BY <1>0, <2>1, <2>3, <2>4 DEF Positions
  <2>7. PositionsOrdered(f)' /\ DocumentIsRecord(f)'
    <3>1. Record(f)' = Record(f)
      BY <1>b, <2>1
    <3> QED
      BY <1>0, <1>a, <2>1, <2>5, <3>1 DEF PositionsOrdered, DocumentIsRecord, next
  <2>8. ASSUME NEW h \in Files, h # f PROVE PositionsOrdered(h)' /\ DocumentIsRecord(h)'
    <3>1. Record(h)' = Record(h)
      BY <1>b, <2>1
    <3> QED
      BY <1>0, <2>1, <2>5, <2>8, <3>1 DEF PositionsOrdered, DocumentIsRecord
  <2> QED
    BY <1>b, <2>1, <2>6, <2>7, <2>8 DEF SinkInv
<1>5. CASE CommitBatch
  <2>1. Positions'
    BY <1>0, <1>5 DEF CommitBatch, Positions
  <2>2. ASSUME NEW f \in Files PROVE PositionsOrdered(f)' /\ DocumentIsRecord(f)'
    <3>1. /\ query = "writing" /\ query' = "idle" /\ written = planned /\ done' = planned
          /\ UNCHANGED <<documents, planned, written>> /\ Record(f)' = Record(f)
      BY <1>5, <1>b DEF CommitBatch
    <3> QED
      BY <1>0, <3>1 DEF PositionsOrdered, DocumentIsRecord
  <2> QED
    BY <1>5, <1>b, <2>1, <2>2 DEF SinkInv, CommitBatch
<1>6. CASE EndQuery
  <2>1. Positions'
    BY <1>0, <1>6 DEF EndQuery, Positions
  <2>2. ASSUME NEW f \in Files PROVE PositionsOrdered(f)' /\ DocumentIsRecord(f)'
    <3>1. /\ query' = "stopped" /\ UNCHANGED <<documents, planned, done, written>>
          /\ Record(f)' = Record(f)
      BY <1>6, <1>b DEF EndQuery
    <3> QED
      BY <1>0, <3>1 DEF PositionsOrdered, DocumentIsRecord
  <2> QED
    BY <1>6, <1>b, <2>1, <2>2 DEF SinkInv, EndQuery
<1>7. CASE KillQuery
  <2>1. ParserInv'
    <3>1. faults' \in Nat
      BY <1>7 DEF KillQuery, ParserInv, TypeOK
    <3> QED
      BY <1>7, <3>1 DEF KillQuery, ParserInv, TypeOK, JobReadable, MetadataInv, MetadataBatch,
         MetadataPublished, MetadataOf, Settled, JobGeneration, envVars, runVars, histVars
  <2>2. Positions'
    BY <1>0, <1>7 DEF KillQuery, Positions
  <2>3. ASSUME NEW f \in Files PROVE PositionsOrdered(f)' /\ DocumentIsRecord(f)'
    <3>1. /\ query' = "stopped" /\ UNCHANGED <<documents, planned, done, written>>
          /\ Record(f)' = Record(f)
      BY <1>7 DEF KillQuery, Record
    <3> QED
      BY <1>0, <3>1 DEF PositionsOrdered, DocumentIsRecord
  <2> QED
    BY <2>1, <2>2, <2>3 DEF SinkInv
<1>8. CASE NewCheckpoint
  <2>1. Positions'
    BY <1>0, <1>8 DEF NewCheckpoint, Positions, Earliest
  <2>2. ASSUME NEW f \in Files PROVE PositionsOrdered(f)' /\ DocumentIsRecord(f)'
    <3>1. /\ query' = "stopped" /\ planned'[f] = 0 /\ done'[f] = 0 /\ Record(f)' = Record(f)
      BY <1>8, <1>b DEF NewCheckpoint, Earliest
    <3> QED
      BY <1>a, <3>1 DEF PositionsOrdered, DocumentIsRecord
  <2> QED
    BY <1>8, <1>b, <2>1, <2>2 DEF SinkInv, NewCheckpoint
<1> QED
  BY <1>1, <1>2, <1>3, <1>4, <1>5, <1>6, <1>7, <1>8 DEF MetadataNext, JobStep

THEOREM SinkInvariance == MetadataSpec => [](ParserInv /\ SinkInv)
<1>1. MetadataInit => ParserInv /\ SinkInv
  BY InitSink
<1>2. (ParserInv /\ SinkInv) /\ [MetadataNext]_metadataVars => (ParserInv /\ SinkInv)'
  BY NextSink
<1> QED
  BY <1>1, <1>2, PTL DEF MetadataSpec

(* Between batches the document of a file is the last record done, and the *)
(* committed generation when there are no more and the file is settled.    *)
THEOREM DocumentsFollowCheckpoint == MetadataSpec => []DocumentsMatchCheckpoint
<1>1. ASSUME ParserInv, SinkInv PROVE DocumentsMatchCheckpoint
  <2> SUFFICES ASSUME NEW f \in Files, planned = done, done[f] > 0
               PROVE  /\ documents[f] = Record(f)[done[f]].gen
                      /\ done[f] = Len(Record(f)) /\ Settled(f) /\ store[f] # NoRow =>
                           documents[f] = <<store[f].hash, store[f].version>>
    BY DEF DocumentsMatchCheckpoint
  <2>1. documents[f] = Record(f)[done[f]].gen
    BY <1>1 DEF SinkInv, DocumentIsRecord
  <2>2. Settled(f) /\ store[f] # NoRow =>
          Record(f)[Len(Record(f))].gen = <<store[f].hash, store[f].version>>
    BY <1>1 DEF ParserInv, MetadataInv, MetadataOf, EndsWith, Record
  <2> QED
    BY <2>1, <2>2
<1> QED
  BY <1>1, SinkInvariance, PTL
=============================================================================
