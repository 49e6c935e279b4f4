------------------------- MODULE PublishingRun_proofs -------------------------
(***************************************************************************)
(* A process that publishes record by record, with a publisher it knows    *)
(* only as a BatchPublisher, does what ParserRun says: every step of it is *)
(* a step of ParserRun, or changes none of its variables.  For any files,  *)
(* contents, batches, numbers of records and plans of their partitions.    *)
(***************************************************************************)
EXTENDS PublishingRun, ParserRun_proofs

(***************************************************************************)
(* The inductive invariant.                                                *)
(***************************************************************************)
PublisherTypes ==
    /\ last \in 0..MaxRecords
    /\ topic \in [Topics \X Files -> Seq(1..MaxRecords)]
    /\ call \in {"idle", "writing", "raised"}
    /\ accepted \in [Topics -> Seq(1..MaxRecords)]
    /\ landed \in [Topics -> Seq(Nat)]

(* A number is used once.                                                  *)
NumbersUsed == \A p \in Topics \X Files : \A r \in Range(topic[p]) : r <= last

(* A publication is one of a staged batch, with a producer that works.     *)
CallFitsRun ==
    IF call = "idle" THEN accepted = NoneYet /\ landed = NoneYet
    ELSE pc = "staged" /\ producer = "READY"

InBatchOrder(s) == \A i, j \in DOMAIN s : i < j => s[i] < s[j]

(* The records accepted carry the first events of the batch, in order.     *)
CarriesBatch(t) ==
    /\ Len(accepted[t]) <= Len(job.batch[t])
    /\ \A i \in DOMAIN accepted[t] :
         /\ accepted[t][i] <= last
         /\ PartitionOf[accepted[t][i]] = <<t, job.file>>
         /\ call = "writing" => accepted[t][i] \in open
    /\ InBatchOrder(accepted[t])

(* landed names the records of this batch that are in the topic, ...       *)
LandedIsTopic(t) ==
    /\ \A j \in DOMAIN landed[t] :
         /\ landed[t][j] \in DOMAIN accepted[t]
         /\ accepted[t][landed[t][j]] \in Range(topic[<<t, job.file>>])
    /\ \A i \in DOMAIN accepted[t] :
         accepted[t][i] \in Range(topic[<<t, job.file>>]) => i \in Range(landed[t])

(* ... in their order: the first so many, unless one is missing for good.  *)
Gapless(s) == \A j \in DOMAIN s : s[j] = j
Passed(s, i) == \E j \in DOMAIN s : i < s[j]
LandsInOrder(t) ==
    /\ InBatchOrder(landed[t])
    /\ \A j \in DOMAIN landed[t] : j <= landed[t][j]
    /\ \/ Gapless(landed[t])
       \/ \E i \in 1..Len(accepted[t]) : i \notin Range(landed[t]) /\ Passed(landed[t], i)

PublishingInv ==
    /\ PublisherTypes
    /\ NumbersUsed
    /\ CallFitsRun
    /\ call # "idle" => \A t \in Topics : CarriesBatch(t) /\ LandedIsTopic(t) /\ LandsInOrder(t)

RunInvariant == TypeOK /\ JobReadable

(***************************************************************************)
(* What has landed of a batch.                                             *)
(***************************************************************************)
LEMMA JobIsStaged ==
  ASSUME TypeOK, pc = "staged"
  PROVE  job \in Job /\ job # NoJob /\ \A t \in Topics : job.batch[t] \in Seq(Event)
  BY DEF TypeOK, Job

LEMMA LandedAreEvents ==
  ASSUME TypeOK, PublishingInv, call # "idle", NEW t \in Topics
  PROVE  /\ landed[t] \in Seq(Nat)
         /\ landed[t] \in [1..Len(landed[t]) -> DOMAIN job.batch[t]]
         /\ LandedEvents(t) \in Subsequences(job.batch[t])
<1>1. pc = "staged" /\ job.batch[t] \in Seq(Event)
  BY JobIsStaged DEF PublishingInv, CallFitsRun
<1>2. landed[t] \in Seq(Nat) /\ accepted[t] \in Seq(1..MaxRecords)
  BY DEF PublishingInv, PublisherTypes
<1>3. /\ Len(accepted[t]) <= Len(job.batch[t])
      /\ \A j \in DOMAIN landed[t] : landed[t][j] \in DOMAIN accepted[t]
      /\ InBatchOrder(landed[t])
  BY DEF PublishingInv, CarriesBatch, LandedIsTopic, LandsInOrder
<1>4. DOMAIN accepted[t] \subseteq DOMAIN job.batch[t]
  BY <1>1, <1>2, <1>3
<1>5. landed[t] \in [1..Len(landed[t]) -> DOMAIN job.batch[t]]
  BY <1>2, <1>3, <1>4
<1> DEFINE s == job.batch[t]
           k == Len(landed[t])
           ix == landed[t]
           Orders == {g \in [1..k -> DOMAIN s] : \A i, j \in 1..k : i < j => g[i] < g[j]}
<1>6. DOMAIN ix = 1..k /\ k \in Nat
  BY <1>2
<1>7. ix \in Orders
  BY <1>3, <1>5, <1>6 DEF InBatchOrder
<1>8. LandedEvents(t) = [i \in 1..k |-> s[ix[i]]]
  BY <1>6 DEF LandedEvents
<1>9. k \in 0..Len(s)
  <2>1. k > 0 => k \in DOMAIN ix /\ k <= ix[k] /\ ix[k] \in 1..Len(s) /\ Len(s) \in Nat
    BY <1>1, <1>5, <1>6 DEF PublishingInv, LandsInOrder
  <2> QED
    BY <1>1, <1>6, <2>1
<1> DEFINE Of(n) == { [i \in 1..n |-> s[g[i]]] :
                        g \in {h \in [1..n -> DOMAIN s] :
                                \A i, j \in 1..n : i < j => h[i] < h[j]} }
<1>10. LandedEvents(t) \in Of(k)
  BY <1>7, <1>8
<1>11. Subsequences(s) = UNION {Of(n) : n \in 0..Len(s)}
  BY DEF Subsequences
<1> HIDE DEF Of
<1>12. LandedEvents(t) \in Subsequences(s)
  BY <1>9, <1>10, <1>11
<1> QED
  BY <1>2, <1>5, <1>12

(* A batch of which every record is in its topic has landed as it is.      *)
LEMMA WholeBatchLands ==
  ASSUME TypeOK, PublishingInv, call = "writing", NEW t \in Topics, ~ Pending(t),
         \A r \in open : Publisher!InTopic(r)
  PROVE  LandedEvents(t) = job.batch[t]
<1>1. pc = "staged" /\ job.batch[t] \in Seq(Event)
  BY JobIsStaged DEF PublishingInv, CallFitsRun
<1>2. /\ landed[t] \in Seq(Nat) /\ accepted[t] \in Seq(1..MaxRecords)
      /\ Len(accepted[t]) <= Len(job.batch[t])
  BY DEF PublishingInv, PublisherTypes, CarriesBatch
<1>3. Len(accepted[t]) = Len(job.batch[t])
  BY <1>1, <1>2 DEF Pending
<1>4. \A i \in DOMAIN accepted[t] : i \in Range(landed[t])
  <2> SUFFICES ASSUME NEW i \in DOMAIN accepted[t]
               PROVE  i \in Range(landed[t])
    OBVIOUS
  <2>1. accepted[t][i] \in open /\ PartitionOf[accepted[t][i]] = <<t, job.file>>
    BY DEF PublishingInv, CarriesBatch
  <2>2. accepted[t][i] \in Range(topic[<<t, job.file>>])
    BY <2>1 DEF Publisher!InTopic, Publisher!Range, Range
  <2> QED
    BY <2>2 DEF PublishingInv, LandedIsTopic
<1>5. Gapless(landed[t])
  BY <1>2, <1>4 DEF PublishingInv, LandsInOrder
<1>6. DOMAIN landed[t] = DOMAIN job.batch[t]
  <2>1. DOMAIN landed[t] \subseteq DOMAIN accepted[t]
    BY <1>5 DEF Gapless, PublishingInv, LandedIsTopic
  <2>2. DOMAIN accepted[t] \subseteq DOMAIN landed[t]
    BY <1>4, <1>5 DEF Gapless, Range
  <2>3. DOMAIN accepted[t] = 1..Len(accepted[t])
    BY <1>2
  <2>4. DOMAIN job.batch[t] = 1..Len(job.batch[t])
    BY <1>1
  <2> QED
    BY <1>3, <2>1, <2>2, <2>3, <2>4
<1>7. LandedEvents(t) = [j \in DOMAIN job.batch[t] |-> job.batch[t][j]]
  BY <1>5, <1>6 DEF LandedEvents, Gapless
<1> QED
  BY <1>1, <1>7

(***************************************************************************)
(* Every step is one of ParserRun.                                         *)
(***************************************************************************)
LEMMA FlushIsPublication ==
  ASSUME FlushReturns, \A t \in Topics : LandedEvents(t) = job.batch[t]
  PROVE  PublishBatch
<1>1. [t \in Topics |-> [log[t] EXCEPT ![job.file] = @ \o LandedEvents(t)]]
        = [t \in Topics |-> [log[t] EXCEPT ![job.file] = @ \o job.batch[t]]]
  OBVIOUS
<1>2. Deliver(job.batch)
  BY <1>1 DEF FlushReturns, Settle, Deliver
<1> QED
  BY <1>2 DEF FlushReturns, Publishing, PublishBatch

LEMMA FlushReturnsPublishes ==
  ASSUME TypeOK, PublishingInv, FlushReturns
  PROVE  PublishBatch
<1>1. CASE call = "writing"
  BY <1>1, WholeBatchLands, FlushIsPublication DEF FlushReturns, AllOffered, Publisher!Confirm
<1>2. CASE call = "idle"
  <2> SUFFICES ASSUME NEW t \in Topics
               PROVE  LandedEvents(t) = job.batch[t]
    BY FlushIsPublication
  <2>1. /\ accepted[t] = << >> /\ landed[t] = << >>
        /\ job.batch[t] \in Seq(Event) /\ ~ Pending(t)
    BY <1>2, JobIsStaged
    DEF FlushReturns, AllOffered, Publishing, PublishingInv, CallFitsRun, NoneYet
  <2>2. job.batch[t] = << >>
    BY <2>1 DEF Pending
  <2> QED
    BY <2>1, <2>2 DEF LandedEvents
<1> QED
  BY <1>1, <1>2 DEF FlushReturns, Publishing

LEMMA AbortIsPublishFails ==
  ASSUME TypeOK, PublishingInv, PublicationAborts, producer = "READY"
  PROVE  PublishFails
<1> DEFINE part == [t \in Topics |-> LandedEvents(t)]
<1>1. \A t \in Topics : /\ landed[t] \in Seq(Nat)
                        /\ LandedEvents(t) \in Subsequences(job.batch[t])
  BY LandedAreEvents DEF PublicationAborts
<1>2. part = NoEvents <=> landed = NoneYet
  <2>1. ASSUME NEW t \in Topics PROVE LandedEvents(t) = << >> <=> landed[t] = << >>
    <3>1. landed[t] \in Seq(Nat) /\ LandedEvents(t) \in Seq(Event)
      BY <1>1, JobIsStaged, SubsequenceIsSeq DEF PublicationAborts
    <3>2. DOMAIN LandedEvents(t) = DOMAIN landed[t]
      BY DEF LandedEvents
    <3>3. Len(LandedEvents(t)) = Len(landed[t])
      BY <3>1, <3>2
    <3> QED
      BY <3>1, <3>3
  <2>2. landed = [t \in Topics |-> landed[t]]
    BY DEF PublishingInv, PublisherTypes
  <2> QED
    BY <2>1, <2>2 DEF NoEvents, NoneYet
<1>3. part = [t \in Topics |-> CASE t = "cpg.nodes" -> LandedEvents("cpg.nodes")
                                [] t = "cpg.edges" -> LandedEvents("cpg.edges")
                                [] t = "source.metadata" -> LandedEvents("source.metadata")]
  BY DEF Topics
<1>4. Deliver(part)
  BY DEF PublicationAborts, Settle
<1>5. IF part = NoEvents
      THEN UNCHANGED histVars
      ELSE /\ dirty' = dirty \cup {job.file}
           /\ abandoned' = [abandoned EXCEPT ![job.file] = @ \cup {JobGeneration}]
  BY <1>2 DEF PublicationAborts
<1> HIDE DEF part
<1>6. PartlyDelivered
  BY <1>1, <1>3, <1>4, <1>5 DEF PartlyDelivered, Topics
<1> QED
  BY <1>6 DEF PublicationAborts, PublishFails

LEMMA StepIsRunStep ==
  ASSUME TypeOK, PublishingInv, [PublishingNext]_publishingVars
  PROVE  [Next]_vars
<1>1. ASSUME NEW t \in Topics, OfferEvent(t) \/ RecordLands(t) PROVE UNCHANGED vars
  BY <1>1 DEF OfferEvent, RecordLands
<1>2. CASE FlushReturns
  BY <1>2, FlushReturnsPublishes DEF Next, RunNext, Proceed
<1>3. CASE EventRaises \/ FlushRaises
  BY <1>3 DEF EventRaises, FlushRaises
<1>4. CASE PublicationAborts
  <2>1. producer = "READY"
    BY <1>4 DEF PublicationAborts, PublishingInv, CallFitsRun
  <2> QED
    BY <1>4, <2>1, AbortIsPublishFails DEF Next, RunNext, Fault
<1>5. CASE StartWithProducer
  BY <1>5 DEF StartWithProducer, Next, RunNext
<1>6. CASE ReportFails
  BY <1>6 DEF ReportFails, Next, RunNext, Fault
<1>7. CASE Elsewhere
  BY <1>7 DEF Elsewhere, Next, RunNext, Proceed
<1>8. CASE FaultElsewhere
  BY <1>8 DEF FaultElsewhere, Next, RunNext, Fault
<1>9. CASE Environment /\ UNCHANGED <<publisherVars, callVars>>
  BY <1>9 DEF Next
<1>10. CASE UNCHANGED publishingVars
  BY <1>10 DEF publishingVars
<1> QED
  BY <1>1, <1>2, <1>3, <1>4, <1>5, <1>6, <1>7, <1>8, <1>9, <1>10
  DEF PublishingNext, Publication

-----------------------------------------------------------------------------
(***************************************************************************)
(* Sequences that grow at their end.                                       *)
(***************************************************************************)
LEMMA AppendedTo ==
  ASSUME NEW S, NEW s \in Seq(S), NEW x \in S
  PROVE  /\ Append(s, x) \in Seq(S)
         /\ Len(s) \in Nat /\ DOMAIN s = 1..Len(s)
         /\ Len(Append(s, x)) = Len(s) + 1
         /\ DOMAIN Append(s, x) = DOMAIN s \cup {Len(s) + 1}
         /\ \A i \in DOMAIN s : Append(s, x)[i] = s[i]
         /\ Append(s, x)[Len(s) + 1] = x
         /\ Range(Append(s, x)) = Range(s) \cup {x}
<1>1. /\ Append(s, x) \in Seq(S)
      /\ Len(s) \in Nat /\ DOMAIN s = 1..Len(s)
      /\ Len(Append(s, x)) = Len(s) + 1
      /\ \A i \in DOMAIN s : Append(s, x)[i] = s[i]
      /\ Append(s, x)[Len(s) + 1] = x
  OBVIOUS
<1>2. DOMAIN Append(s, x) = DOMAIN s \cup {Len(s) + 1}
  BY <1>1
<1>3. Range(Append(s, x)) = Range(s) \cup {x}
  BY <1>1, <1>2, Zenon DEF Range
<1> QED
  BY <1>1, <1>2, <1>3

LEMMA IncreasingAppended ==
  ASSUME NEW s \in Seq(Nat), NEW x \in Nat, InBatchOrder(s), \A i \in DOMAIN s : s[i] < x
  PROVE  InBatchOrder(Append(s, x))
<1>1. /\ Append(s, x) \in Seq(Nat)
      /\ Len(s) \in Nat /\ DOMAIN s = 1..Len(s)
      /\ DOMAIN Append(s, x) = 1..(Len(s) + 1)
      /\ \A i \in DOMAIN s : Append(s, x)[i] = s[i]
      /\ Append(s, x)[Len(s) + 1] = x
  OBVIOUS
<1> SUFFICES ASSUME NEW i \in 1..(Len(s) + 1), NEW j \in 1..(Len(s) + 1), i < j
             PROVE  Append(s, x)[i] < Append(s, x)[j]
  BY <1>1 DEF InBatchOrder
<1>2. i \in DOMAIN s
  BY <1>1
<1>3. CASE j = Len(s) + 1
  BY <1>1, <1>2, <1>3
<1>4. CASE j # Len(s) + 1
  <2>1. j \in DOMAIN s
    BY <1>1, <1>4
  <2> QED
    BY <1>1, <1>2, <2>1 DEF InBatchOrder
<1> QED
  BY <1>3, <1>4

-----------------------------------------------------------------------------
(***************************************************************************)
(* The invariant is preserved.                                             *)
(***************************************************************************)
LEMMA InitPublishing == PublishingInit => PublishingInv
  BY RunAssumption, ProcessAssumption
  DEF PublishingInit, PublishingInv, PublisherTypes, NumbersUsed, CallFitsRun,
      Publisher!PublisherInit, NoneYet, Range

(* Before its first event a publication has the same shape as after it.    *)
LEMMA BatchSoFar ==
  ASSUME TypeOK, PublishingInv, Publishing, NEW u \in Topics
  PROVE  /\ CarriesBatch(u) /\ LandedIsTopic(u) /\ LandsInOrder(u)
         /\ \A i \in DOMAIN accepted[u] : accepted[u][i] \in open
<1>1. CASE call = "idle"
  <2>1. accepted[u] = << >> /\ landed[u] = << >>
    BY <1>1 DEF PublishingInv, CallFitsRun, NoneYet
  <2>2. Len(job.batch[u]) \in Nat
    BY JobIsStaged DEF Publishing
  <2> QED
    BY <2>1, <2>2 DEF CarriesBatch, LandedIsTopic, LandsInOrder, InBatchOrder, Gapless
<1>2. CASE call = "writing"
  BY <1>2 DEF PublishingInv, CarriesBatch
<1> QED
  BY <1>1, <1>2 DEF Publishing

(* A number that is offered is above all that were.                        *)
LEMMA OfferKeeps ==
  ASSUME TypeOK, PublishingInv, NEW t \in Topics, OfferEvent(t)
  PROVE  PublishingInv'
<1>1. /\ pc = "staged" /\ producer = "READY"
      /\ last' \in 1..MaxRecords /\ last < last'
      /\ open' = open \cup {last'}
      /\ topic' = topic
      /\ PartitionOf[last'] = <<t, job.file>>
      /\ accepted' = [accepted EXCEPT ![t] = Append(@, last')]
      /\ call' = "writing" /\ landed' = landed
      /\ UNCHANGED vars
  BY DEF OfferEvent, Publishing, Publisher!Accept, Publisher!Records
<1>2. job \in Job /\ \A u \in Topics : job.batch[u] \in Seq(Event)
  BY <1>1, JobIsStaged
<1>3. /\ PublisherTypes
      /\ MaxRecords \in Nat /\ last \in Nat /\ last' \in Nat /\ last < last' /\ last <= last'
  BY <1>1, ProcessAssumption DEF PublishingInv, PublisherTypes
<1>4. PublisherTypes'
  BY <1>1, <1>3 DEF PublisherTypes
<1>5. NumbersUsed'
  <2> SUFFICES ASSUME NEW p \in Topics \X Files, NEW r \in Range(topic[p])
               PROVE  r <= last'
    BY <1>1 DEF NumbersUsed
  <2>1. topic[p] \in Seq(1..MaxRecords)
    BY <1>3 DEF PublisherTypes
  <2>2. r \in 1..MaxRecords /\ r <= last
    BY <1>3, <2>1 DEF PublishingInv, NumbersUsed, Range
  <2> QED
    BY <1>3, <2>2
<1>6. CallFitsRun'
  BY <1>1 DEF CallFitsRun, vars
<1>7. ASSUME NEW u \in Topics
      PROVE  (CarriesBatch(u) /\ LandedIsTopic(u) /\ LandsInOrder(u))'
  <2>1. /\ accepted[u] \in Seq(Nat) /\ accepted[u] \in Seq(1..MaxRecords)
        /\ landed[u] \in Seq(Nat)
        /\ job' = job /\ landed'[u] = landed[u]
    BY <1>1, <1>3 DEF PublisherTypes, vars
  <2>2. /\ Len(accepted[u]) <= Len(job.batch[u])
        /\ \A i \in DOMAIN accepted[u] : /\ accepted[u][i] <= last
                                         /\ accepted[u][i] \in Nat
                                         /\ PartitionOf[accepted[u][i]] = <<u, job.file>>
                                         /\ accepted[u][i] \in open
        /\ InBatchOrder(accepted[u])
        /\ LandedIsTopic(u) /\ LandsInOrder(u)
    <3>1. \A i \in DOMAIN accepted[u] : accepted[u][i] \in Nat
      BY <2>1
    <3> QED
      BY <3>1, BatchSoFar DEF OfferEvent, CarriesBatch
  <2>3. \A i \in DOMAIN accepted[u] : accepted[u][i] < last' /\ accepted[u][i] <= last'
    BY <1>3, <2>2
  <2>4. CASE u = t
    <3>1. /\ accepted'[u] = Append(accepted[u], last')
          /\ Len(accepted'[u]) = Len(accepted[u]) + 1
          /\ Len(accepted[u]) \in Nat /\ DOMAIN accepted[u] = 1..Len(accepted[u])
          /\ DOMAIN accepted'[u] = DOMAIN accepted[u] \cup {Len(accepted[u]) + 1}
          /\ \A i \in DOMAIN accepted[u] : accepted'[u][i] = accepted[u][i]
          /\ accepted'[u][Len(accepted[u]) + 1] = last'
      <4>1. accepted'[u] = Append(accepted[u], last')
        BY <1>1, <1>3, <2>4 DEF PublisherTypes
      <4> QED
        BY <1>3, <2>1, <4>1, AppendedTo
    <3>2. CarriesBatch(u)'
      <4>1. Len(accepted'[u]) <= Len(job.batch[u])
        <5>1. Len(accepted[u]) < Len(job.batch[u])
          BY <2>4 DEF OfferEvent, IsNext, Pending
        <5>2. Len(job.batch[u]) \in Nat
          BY <1>2
        <5> QED
          BY <3>1, <5>1, <5>2
      <4>2. InBatchOrder(accepted'[u])
        BY <1>3, <2>1, <2>2, <2>3, <3>1, IncreasingAppended
      <4>3. \A i \in DOMAIN accepted'[u] :
              /\ accepted'[u][i] <= last'
              /\ PartitionOf[accepted'[u][i]] = <<u, job.file>>
              /\ accepted'[u][i] \in open'
        <5> SUFFICES ASSUME NEW i \in DOMAIN accepted'[u]
                     PROVE  /\ accepted'[u][i] <= last'
                            /\ PartitionOf[accepted'[u][i]] = <<u, job.file>>
                            /\ accepted'[u][i] \in open'
          OBVIOUS
        <5>1. CASE i \in DOMAIN accepted[u]
          <6>1. accepted'[u][i] = accepted[u][i]
            BY <3>1, <5>1
          <6>2. accepted[u][i] \in open'
            BY <1>1, <2>2, <5>1
          <6>3. accepted[u][i] <= last' /\ PartitionOf[accepted[u][i]] = <<u, job.file>>
            BY <2>2, <2>3, <5>1, Zenon
          <6> QED
            BY <6>1, <6>2, <6>3
        <5>2. CASE i = Len(accepted[u]) + 1
          <6>1. last' <= last' /\ last' \in open'
            BY <1>1, <1>3
          <6> QED
            BY <1>1, <2>4, <3>1, <5>2, <6>1
        <5> QED
          BY <3>1, <5>1, <5>2
      <4> QED
        BY <2>1, <4>1, <4>2, <4>3 DEF CarriesBatch
    <3>3. LandedIsTopic(u)'
      <4>1. last' \notin Range(topic[<<u, job.file>>])
        <5>1. <<u, job.file>> \in Topics \X Files
          BY <1>2 DEF Job
        <5> QED
          BY <1>3, <5>1 DEF PublishingInv, NumbersUsed
      <4>2. \A j \in DOMAIN landed[u] :
              /\ landed[u][j] \in DOMAIN accepted'[u]
              /\ accepted'[u][landed[u][j]] \in Range(topic[<<u, job.file>>])
        BY <2>2, <3>1, Zenon DEF LandedIsTopic
      <4>3. \A i \in DOMAIN accepted'[u] :
              accepted'[u][i] \in Range(topic[<<u, job.file>>]) => i \in Range(landed[u])
        BY <2>2, <3>1, <4>1, Zenon DEF LandedIsTopic
      <4> QED
        BY <1>1, <2>1, <4>2, <4>3 DEF LandedIsTopic
    <3>4. LandsInOrder(u)'
      <4>1. \A i \in 1..Len(accepted[u]) : i \in 1..Len(accepted'[u])
        BY <3>1
      <4> QED
        BY <2>1, <2>2, <4>1, Zenon DEF LandsInOrder
    <3> QED
      BY <3>2, <3>3, <3>4
  <2>5. CASE u # t
    <3>1. accepted'[u] = accepted[u]
      BY <1>1, <1>3, <2>5 DEF PublisherTypes
    <3>2. \A i \in DOMAIN accepted[u] : accepted[u][i] \in open'
      BY <1>1, <2>2
    <3>3. CarriesBatch(u)'
      BY <2>1, <2>2, <2>3, <3>1, <3>2, Zenon DEF CarriesBatch
    <3> QED
      BY <1>1, <2>1, <2>2, <3>1, <3>3 DEF LandedIsTopic, LandsInOrder
  <2> QED
    BY <2>4, <2>5
<1> QED
  BY <1>4, <1>5, <1>6, <1>7 DEF PublishingInv

(* What lands comes after all that has landed.                             *)
LEMMA LandsNext ==
  ASSUME NEW s \in Seq(Nat), NEW n \in Nat, NEW i \in 1..n,
         InBatchOrder(s), \A j \in DOMAIN s : j <= s[j] /\ s[j] < i,
         Gapless(s) \/ \E k \in 1..n : k \notin Range(s) /\ Passed(s, k)
  PROVE  /\ InBatchOrder(Append(s, i))
         /\ \A j \in DOMAIN Append(s, i) : j <= Append(s, i)[j]
         /\ \/ Gapless(Append(s, i))
            \/ \E k \in 1..n : k \notin Range(Append(s, i)) /\ Passed(Append(s, i), k)
<1>1. /\ Len(s) \in Nat /\ DOMAIN s = 1..Len(s)
      /\ DOMAIN Append(s, i) = DOMAIN s \cup {Len(s) + 1}
      /\ \A j \in DOMAIN s : Append(s, i)[j] = s[j]
      /\ Append(s, i)[Len(s) + 1] = i
      /\ Range(Append(s, i)) = Range(s) \cup {i}
  BY AppendedTo
<1>2. InBatchOrder(Append(s, i))
  BY IncreasingAppended
<1>3. Len(s) + 1 <= i
  <2>1. CASE Len(s) = 0
    BY <2>1
  <2>2. CASE Len(s) # 0
    <3>1. Len(s) \in DOMAIN s /\ s[Len(s)] \in Nat
      BY <1>1, <2>2
    <3> QED
      BY <1>1, <3>1
  <2> QED
    BY <2>1, <2>2
<1>4. ASSUME NEW j \in DOMAIN Append(s, i)
      PROVE  j <= Append(s, i)[j]
  <2>1. CASE j \in DOMAIN s
    BY <1>1, <2>1
  <2>2. CASE j = Len(s) + 1
    BY <1>1, <1>3, <2>2
  <2> QED
    BY <1>1, <2>1, <2>2
<1>5. CASE Gapless(s) /\ i = Len(s) + 1
  <2>1. ASSUME NEW j \in DOMAIN Append(s, i) PROVE Append(s, i)[j] = j
    BY <1>1, <1>5, Zenon DEF Gapless
  <2> QED
    BY <1>2, <1>4, <2>1 DEF Gapless
<1>6. CASE Gapless(s) /\ i # Len(s) + 1
  <2>1. Len(s) + 1 \in 1..n /\ Len(s) + 1 < i
    BY <1>1, <1>3, <1>6
  <2>2. Len(s) + 1 \notin Range(Append(s, i))
    <3>1. \A j \in DOMAIN s : s[j] # Len(s) + 1
      BY <1>1, <1>6 DEF Gapless
    <3> QED
      BY <1>1, <1>6, <3>1 DEF Range
  <2>3. Passed(Append(s, i), Len(s) + 1)
    BY <1>1, <2>1 DEF Passed
  <2> QED
    BY <1>2, <1>4, <2>1, <2>2, <2>3
<1>7. ASSUME NEW k \in 1..n, k \notin Range(s), Passed(s, k)
      PROVE  k \notin Range(Append(s, i)) /\ Passed(Append(s, i), k)
  <2>1. PICK j \in DOMAIN s : k < s[j]
    BY <1>7 DEF Passed
  <2>2. k # i
    <3>1. s[j] \in Nat /\ s[j] < i
      BY <1>1
    <3> QED
      BY <2>1, <3>1
  <2>3. Passed(Append(s, i), k)
    BY <1>1, <2>1 DEF Passed
  <2> QED
    BY <1>1, <1>7, <2>2, <2>3
<1> QED
  BY <1>2, <1>4, <1>5, <1>6, <1>7

LEMMA LandsKeeps ==
  ASSUME TypeOK, PublishingInv, NEW t \in Topics, RecordLands(t)
  PROVE  PublishingInv'
<1>1. PICK i \in DOMAIN accepted[t] :
        /\ Publisher!AppendRecord(accepted[t][i])
        /\ landed' = [landed EXCEPT ![t] = Append(@, i)]
        /\ UNCHANGED <<vars, call, accepted>>
  BY DEF RecordLands
<1> DEFINE r == accepted[t][i]
           p == <<t, job.file>>
<1>2. call # "idle"
  BY DEF PublishingInv, CallFitsRun, NoneYet
<1>3. job \in Job /\ pc = "staged" /\ producer = "READY"
  BY <1>2, JobIsStaged DEF PublishingInv, CallFitsRun
<1>4. \A u \in Topics : /\ CarriesBatch(u) /\ LandedIsTopic(u) /\ LandsInOrder(u)
                        /\ accepted[u] \in Seq(1..MaxRecords) /\ landed[u] \in Seq(Nat)
                        /\ <<u, job.file>> \in Topics \X Files
                        /\ topic[<<u, job.file>>] \in Seq(1..MaxRecords)
  BY <1>2, <1>3 DEF PublishingInv, PublisherTypes, Job
<1>5. /\ r \in 1..MaxRecords /\ i \in Nat /\ i \in 1..Len(accepted[t])
      /\ Len(accepted[t]) \in Nat
      /\ r <= last /\ PartitionOf[r] = p
  <2>1. accepted[t] \in Seq(1..MaxRecords) /\ CarriesBatch(t)
    BY <1>4
  <2>2. Len(accepted[t]) \in Nat /\ DOMAIN accepted[t] = 1..Len(accepted[t])
    BY <2>1
  <2>3. r \in 1..MaxRecords
    BY <2>1, ProcessAssumption
  <2>4. r <= last /\ PartitionOf[r] = p
    BY <2>1, Zenon DEF CarriesBatch
  <2> QED
    BY <2>2, <2>3, <2>4
<1>6. /\ topic' = [topic EXCEPT ![p] = Append(@, r)]
      /\ \A x \in Range(topic[p]) : x < r
      /\ UNCHANGED <<usable, last, open, confirmed>>
  BY <1>1, <1>5 DEF Publisher!AppendRecord, Publisher!Range, Range
<1> HIDE DEF r, p
<1>7. PublisherTypes'
  <2>1. topic' \in [Topics \X Files -> Seq(1..MaxRecords)]
    <3>1. Append(topic[p], r) \in Seq(1..MaxRecords)
      BY <1>4, <1>5, AppendedTo DEF p
    <3> QED
      BY <1>6, <3>1 DEF PublishingInv, PublisherTypes
  <2>2. landed' \in [Topics -> Seq(Nat)]
    BY <1>1, <1>4, <1>5, AppendedTo DEF PublishingInv, PublisherTypes
  <2> QED
    BY <1>1, <1>6, <2>1, <2>2 DEF PublishingInv, PublisherTypes
<1>8. topic'[p] = Append(topic[p], r) /\ Range(topic'[p]) = Range(topic[p]) \cup {r}
  <2>1. topic'[p] = Append(topic[p], r)
    BY <1>4, <1>6 DEF PublishingInv, PublisherTypes, p
  <2>2. topic[p] \in Seq(1..MaxRecords) /\ r \in 1..MaxRecords
    BY <1>4, <1>5 DEF p
  <2>3. Range(Append(topic[p], r)) = Range(topic[p]) \cup {r}
    BY <2>2, AppendedTo, ProcessAssumption
  <2> QED
    BY <2>1, <2>3
<1>9. NumbersUsed'
  <2> SUFFICES ASSUME NEW q \in Topics \X Files, NEW x \in Range(topic'[q])
               PROVE  x <= last
    BY <1>6 DEF NumbersUsed
  <2>1. CASE q = p
    BY <1>5, <1>8, <2>1 DEF PublishingInv, NumbersUsed
  <2>2. CASE q # p
    <3>1. topic'[q] = topic[q]
      BY <1>6, <2>2 DEF PublishingInv, PublisherTypes
    <3> QED
      BY <3>1 DEF PublishingInv, NumbersUsed
  <2> QED
    BY <2>1, <2>2
<1>10. CallFitsRun'
  BY <1>1, <1>2, <1>3 DEF CallFitsRun, vars
<1>11. ASSUME NEW u \in Topics
       PROVE  CarriesBatch(u)'
  BY <1>1, <1>4, <1>6 DEF CarriesBatch, vars
<1>12. /\ landed'[t] = Append(landed[t], i)
       /\ DOMAIN landed'[t] = DOMAIN landed[t] \cup {Len(landed[t]) + 1}
       /\ \A j \in DOMAIN landed[t] : landed'[t][j] = landed[t][j]
       /\ landed'[t][Len(landed[t]) + 1] = i
       /\ Range(landed'[t]) = Range(landed[t]) \cup {i}
  <2>1. landed'[t] = Append(landed[t], i)
    BY <1>1 DEF PublishingInv, PublisherTypes
  <2>2. landed[t] \in Seq(Nat) /\ i \in Nat
    BY <1>4, <1>5
  <2> QED
    BY <2>1, <2>2, AppendedTo
<1>13. LandedIsTopic(t)'
  <2>1. \A j \in DOMAIN landed'[t] :
          landed'[t][j] \in DOMAIN accepted[t] /\ accepted[t][landed'[t][j]] \in Range(topic'[p])
    BY <1>4, <1>8, <1>12, Zenon DEF LandedIsTopic, r, p
  <2>2. ASSUME NEW k \in DOMAIN accepted[t], accepted[t][k] \in Range(topic'[p])
        PROVE  k \in Range(landed'[t])
    <3>1. CASE accepted[t][k] \in Range(topic[p])
      BY <1>4, <1>12, <3>1 DEF LandedIsTopic, p
    <3>2. CASE accepted[t][k] = r
      <4>1. accepted[t] \in Seq(1..MaxRecords) /\ InBatchOrder(accepted[t])
        BY <1>4 DEF CarriesBatch
      <4>2. k \in Nat /\ r \in Nat /\ ~ r < r
        BY <1>5, <4>1
      <4>4. ~ k < i /\ ~ i < k
        BY <3>2, <4>1, <4>2 DEF InBatchOrder, r
      <4>3. k = i
        BY <1>5, <4>2, <4>4
      <4> QED
        BY <1>12, <4>3
    <3> QED
      BY <1>8, <2>2, <3>1, <3>2
  <2>3. job' = job /\ accepted' = accepted
    BY <1>1 DEF vars
  <2> QED
    BY <2>1, <2>2, <2>3 DEF LandedIsTopic, p
<1>14. LandsInOrder(t)'
  <2>1. ASSUME NEW j \in DOMAIN landed[t] PROVE landed[t][j] < i
    <3> DEFINE l == landed[t][j]
    <3>1. l \in DOMAIN accepted[t] /\ accepted[t][l] < r
      BY <1>4, <1>6 DEF LandedIsTopic, p
    <3>2. l \in Nat /\ accepted[t][l] \in Nat /\ r \in Nat
      <4>1. accepted[t] \in Seq(1..MaxRecords)
        BY <1>4
      <4>2. accepted[t][l] \in 1..MaxRecords /\ DOMAIN accepted[t] = 1..Len(accepted[t])
        BY <3>1, <4>1, ProcessAssumption
      <4> QED
        BY <1>5, <3>1, <4>2
    <3>3. i < l => r < accepted[t][l]
      BY <1>4, <3>1 DEF CarriesBatch, InBatchOrder, r
    <3>4. i # l
      BY <3>1, <3>2 DEF r
    <3> QED
      BY <1>5, <3>1, <3>2, <3>3, <3>4
  <2>2. /\ InBatchOrder(landed'[t])
        /\ \A j \in DOMAIN landed'[t] : j <= landed'[t][j]
        /\ \/ Gapless(landed'[t])
           \/ \E k \in 1..Len(accepted[t]) : k \notin Range(landed'[t]) /\ Passed(landed'[t], k)
    <3>1. /\ landed[t] \in Seq(Nat) /\ Len(accepted[t]) \in Nat
          /\ i \in 1..Len(accepted[t]) /\ LandsInOrder(t)
      BY <1>4, <1>5
    <3>2. InBatchOrder(landed[t]) /\ \A j \in DOMAIN landed[t] : j <= landed[t][j] /\ landed[t][j] < i
      BY <2>1, <3>1 DEF LandsInOrder
    <3>3. Gapless(landed[t]) \/ \E k \in 1..Len(accepted[t]) : k \notin Range(landed[t]) /\ Passed(landed[t], k)
      BY <3>1 DEF LandsInOrder
    <3>4. /\ InBatchOrder(Append(landed[t], i))
          /\ \A j \in DOMAIN Append(landed[t], i) : j <= Append(landed[t], i)[j]
          /\ \/ Gapless(Append(landed[t], i))
             \/ \E k \in 1..Len(accepted[t]) :
                  k \notin Range(Append(landed[t], i)) /\ Passed(Append(landed[t], i), k)
      BY <3>1, <3>2, <3>3, LandsNext
    <3> QED
      BY <1>12, <3>4
  <2> QED
    BY <1>1, <2>2 DEF LandsInOrder
<1>15. ASSUME NEW u \in Topics, u # t
       PROVE  (LandedIsTopic(u) /\ LandsInOrder(u))'
  <2>1. topic'[<<u, job.file>>] = topic[<<u, job.file>>] /\ landed'[u] = landed[u]
    BY <1>1, <1>4, <1>6, <1>15 DEF PublishingInv, PublisherTypes, p
  <2>2. job' = job /\ accepted' = accepted
    BY <1>1 DEF vars
  <2> QED
    BY <1>4, <2>1, <2>2 DEF LandedIsTopic, LandsInOrder
<1> QED
  BY <1>7, <1>9, <1>10, <1>11, <1>13, <1>14, <1>15 DEF PublishingInv

(* An exception leaves what was accepted and what has landed as they were. *)
LEMMA RaisedKeeps ==
  ASSUME TypeOK, PublishingInv, Publishing, call' = "raised",
         last' \in 0..MaxRecords, last <= last',
         UNCHANGED <<vars, topic, accepted, landed>>
  PROVE  PublishingInv'
<1>1. PublisherTypes' /\ CallFitsRun'
  BY DEF PublishingInv, PublisherTypes, CallFitsRun, Publishing, vars
<1>2. last \in Nat /\ last' \in Nat /\ MaxRecords \in Nat
  BY ProcessAssumption DEF PublishingInv, PublisherTypes
<1>3. NumbersUsed'
  <2> SUFFICES ASSUME NEW p \in Topics \X Files, NEW r \in Range(topic[p])
               PROVE  r <= last'
    BY DEF NumbersUsed
  <2>1. topic[p] \in Seq(1..MaxRecords)
    BY DEF PublishingInv, PublisherTypes
  <2>2. r \in 1..MaxRecords /\ r <= last
    BY <1>2, <2>1 DEF PublishingInv, NumbersUsed, Range
  <2> QED
    BY <1>2, <2>2
<1>4. ASSUME NEW u \in Topics
      PROVE  (CarriesBatch(u) /\ LandedIsTopic(u) /\ LandsInOrder(u))'
  <2>1. CarriesBatch(u) /\ LandedIsTopic(u) /\ LandsInOrder(u)
    BY BatchSoFar
  <2>2. job' = job /\ topic' = topic /\ accepted' = accepted /\ landed' = landed
    BY DEF vars
  <2>3. \A i \in DOMAIN accepted[u] : accepted[u][i] <= last'
    <3> SUFFICES ASSUME NEW i \in DOMAIN accepted[u]
                 PROVE  accepted[u][i] <= last'
      OBVIOUS
    <3>1. accepted[u] \in Seq(1..MaxRecords)
      BY DEF PublishingInv, PublisherTypes
    <3>2. accepted[u][i] \in 1..MaxRecords /\ accepted[u][i] <= last
      BY <1>2, <2>1, <3>1 DEF CarriesBatch
    <3> QED
      BY <1>2, <3>2
  <2>4. CarriesBatch(u)'
    BY <2>1, <2>2, <2>3 DEF CarriesBatch
  <2> QED
    BY <2>1, <2>2, <2>4 DEF LandedIsTopic, LandsInOrder
<1> QED
  BY <1>1, <1>3, <1>4 DEF PublishingInv

(* Outside a publication only the publisher's own variables matter.        *)
LEMMA IdleKeeps ==
  ASSUME PublishingInv, UNCHANGED <<last, topic>>,
         call' = "idle", accepted' = NoneYet, landed' = NoneYet
  PROVE  PublishingInv'
  BY DEF PublishingInv, PublisherTypes, NumbersUsed, CallFitsRun, NoneYet

LEMMA ElsewhereIsIdle ==
  ASSUME PublishingInv, Elsewhere \/ FaultElsewhere \/ ReportErrorFails \/ pc = "down"
  PROVE  call = "idle" /\ accepted = NoneYet /\ landed = NoneYet
<1>1. ASSUME call # "idle" PROVE FALSE
  <2>1. pc = "staged" /\ producer = "READY"
    BY <1>1 DEF PublishingInv, CallFitsRun
  <2> QED
    BY <1>1, <2>1
    DEF Elsewhere, FaultElsewhere, ReadFile, SkipUnchanged, ParseFails, ParserRaises,
        StageEvents, PublishRejected, CommitState, ReportError, ReportErrorRejected,
        ReportErrorFails, ReportErrorDropped, EndRun
<1> QED
  BY <1>1 DEF PublishingInv, CallFitsRun

LEMMA NextPublishing ==
  ASSUME TypeOK, PublishingInv, [PublishingNext]_publishingVars
  PROVE  PublishingInv'
<1>1. ASSUME NEW t \in Topics, OfferEvent(t) PROVE PublishingInv'
  BY <1>1, OfferKeeps
<1>2. ASSUME NEW t \in Topics, RecordLands(t) PROVE PublishingInv'
  BY <1>2, LandsKeeps
<1>3. CASE FlushReturns
  BY <1>3, IdleKeeps DEF FlushReturns, Publisher!Confirm, Settle
<1>4. CASE EventRaises
  <2>1. last' \in 0..MaxRecords /\ last <= last'
    BY <1>4, ProcessAssumption
    DEF EventRaises, Publisher!Discard, Publisher!Records, PublishingInv, PublisherTypes
  <2> QED
    BY <1>4, <2>1, RaisedKeeps DEF EventRaises, Publisher!Discard
<1>5. CASE FlushRaises
  <2>1. last' \in 0..MaxRecords /\ last <= last'
    BY <1>5, ProcessAssumption
    DEF FlushRaises, Publisher!Fail, PublishingInv, PublisherTypes
  <2> QED
    BY <1>5, <2>1, RaisedKeeps DEF FlushRaises, Publisher!Fail
<1>6. CASE PublicationAborts
  BY <1>6, IdleKeeps DEF PublicationAborts, Settle, publisherVars
<1>7. CASE StartWithProducer
  <2>1. call = "idle" /\ accepted = NoneYet /\ landed = NoneYet
    BY <1>7, ElsewhereIsIdle DEF StartWithProducer, StartRun
  <2> QED
    BY <1>7, <2>1, ProcessAssumption
    DEF StartWithProducer, callVars, PublishingInv, PublisherTypes, NumbersUsed, CallFitsRun,
        NoneYet, Range
<1>8. CASE ReportFails
  BY <1>8, ElsewhereIsIdle, IdleKeeps DEF ReportFails, Publisher!Fail, callVars
<1>9. CASE Elsewhere \/ FaultElsewhere
  BY <1>9, ElsewhereIsIdle, IdleKeeps DEF Elsewhere, FaultElsewhere, publisherVars, callVars
<1>10. CASE Environment /\ UNCHANGED <<publisherVars, callVars>>
  <2>1. CASE call = "idle"
    BY <1>10, <2>1, IdleKeeps DEF publisherVars, callVars, PublishingInv, CallFitsRun
  <2>2. CASE call # "idle"
    <3>1. pc = "staged"
      BY <2>2 DEF PublishingInv, CallFitsRun
    <3>2. UNCHANGED <<pc, job, producer>>
      BY <1>10, <3>1 DEF Environment, Edit, Upgrade
    <3> QED
      BY <1>10, <3>2
      DEF publisherVars, callVars, PublishingInv, PublisherTypes, NumbersUsed, CallFitsRun,
          CarriesBatch, LandedIsTopic, LandsInOrder
  <2> QED
    BY <2>1, <2>2
<1>11. CASE UNCHANGED publishingVars
  BY <1>11
  DEF publishingVars, vars, publisherVars, callVars, PublishingInv, PublisherTypes,
      NumbersUsed, CallFitsRun, CarriesBatch, LandedIsTopic, LandsInOrder
<1> QED
  BY <1>1, <1>2, <1>3, <1>4, <1>5, <1>6, <1>7, <1>8, <1>9, <1>10, <1>11
  DEF PublishingNext, Publication

(***************************************************************************)
(* The theorems.                                                           *)
(***************************************************************************)
(* The invariant of a process that publishes record by record: in a        *)
(* publication the records accepted carry the first events of each topic,  *)
(* and what has landed of them has landed once and in order.               *)
THEOREM PublishingInvariance == PublishingSpec => [](RunInvariant /\ PublishingInv)
<1>1. PublishingInit => RunInvariant /\ PublishingInv
  BY InitTypeOK, InitPublishing DEF PublishingInit, RunInvariant
<1>2. RunInvariant /\ PublishingInv /\ [PublishingNext]_publishingVars
        => (RunInvariant /\ PublishingInv)'
  BY NextTypeOK, StepIsRunStep, NextPublishing DEF RunInvariant
<1> QED
  BY <1>1, <1>2, PTL DEF PublishingSpec

(* The process that publishes record by record, with any publisher that    *)
(* keeps the contract of EventPublisherPort, implements ParserRun: what    *)
(* write_event and flush do to the topics, whether they return, raise or   *)
(* die half way, is one of the outcomes ParserRun gives the publication.   *)
THEOREM RefinesParserRun == PublishingSpec => ImplementsParserRun
<1>1. PublishingInit => Init
  BY DEF PublishingInit
<1>2. RunInvariant /\ PublishingInv /\ [PublishingNext]_publishingVars => [Next]_vars
  BY StepIsRunStep DEF RunInvariant
<1> QED
  BY <1>1, <1>2, PublishingInvariance, PTL DEF PublishingSpec, Spec, ImplementsParserRun

(* So everything ParserRun promises is promised record by record: the      *)
(* state names only generations that are in Kafka as a whole, later        *)
(* deletes take nothing away from them, and nothing outlives its           *)
(* generation but what was published and never committed.                  *)
THEOREM RecordsKeepPromises ==
  PublishingSpec => [](StoreBackedByLog /\ CommittedIsLive /\ OnlyAbandonedOutlives)
<1>1. PublishingSpec => Spec
  BY RefinesParserRun DEF ImplementsParserRun
<1> QED
  BY <1>1, CommittedIsBacked, CommittedStaysLive, OutlivingIsAbandoned, PTL
=============================================================================
