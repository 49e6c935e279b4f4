---------------------------- MODULE KafkaProducer ----------------------------
(***************************************************************************)
(* KafkaEventProducer: publish_event serialises and stages, flush hands    *)
(* the staged records to librdkafka one by one, serving delivery reports   *)
(* in between, then waits for the rest and settles the batch.  librdkafka  *)
(* and the broker are external and run concurrently with the caller: they  *)
(* append records (idempotent producer: in order, without duplicates), or  *)
(* give up on one, in which case it may or may not have been appended.     *)
(* What librdkafka holds when a flush fails is still being delivered.      *)
(***************************************************************************)
EXTENDS Naturals, Sequences, FiniteSets, Functions

CONSTANTS MaxRecords, Partitions, PartitionOf

Records == 1..MaxRecords

ASSUME ProducerAssumption ==
    /\ MaxRecords \in Nat
    /\ PartitionOf \in [Records -> Partitions]

VARIABLES
    state,       \* _state
    initialized, \* _initialized
    batch,       \* _batch_records
    errors,      \* _errors, by the record whose delivery failed
    call,        \* where the caller's thread is: outside, enqueuing, waiting
    records,     \* the tuple flush detached
    enqueued,    \* how many of them have been handed to produce()
    queue,       \* librdkafka: records waiting for the broker, by partition
    reports,     \* librdkafka: delivery reports waiting to be served
    topic,       \* the broker: the records of each partition
    last,        \* the last record a caller offered
    confirmed,   \* history: the records whose flush returned normally
    discarded    \* history: the records whose publication raised

callerVars == <<state, initialized, batch, errors, call, records, enqueued>>
kafkaVars  == <<queue, reports, topic>>
histVars   == <<last, confirmed, discarded>>
vars == <<state, initialized, batch, errors, call, records, enqueued,
          queue, reports, topic, last, confirmed, discarded>>

ProducerState == {"READY", "STAGING", "PUBLISHING", "FAILED"}
Report == [record : Records, ok : BOOLEAN]

TypeOK ==
    /\ state \in ProducerState
    /\ initialized \in BOOLEAN
    /\ batch \in Seq(Records)
    /\ errors \in SUBSET Records
    /\ call \in {"none", "enqueue", "wait"}
    /\ records \in Seq(Records)
    /\ enqueued \in 0..Len(records)
    /\ queue \in [Partitions -> Seq(Records)]
    /\ reports \in SUBSET Report
    /\ topic \in [Partitions -> Seq(Records)]
    /\ last \in 0..MaxRecords
    /\ confirmed \in SUBSET Records
    /\ discarded \in SUBSET Records

Init ==
    /\ state = "READY"
    /\ initialized \in BOOLEAN       \* a producer may be injected
    /\ batch = << >>
    /\ errors = {}
    /\ call = "none"
    /\ records = << >>
    /\ enqueued = 0
    /\ queue = [p \in Partitions |-> << >>]
    /\ reports = {}
    /\ topic = [p \in Partitions |-> << >>]
    /\ last = 0
    /\ confirmed = {}
    /\ discarded = {}
-----------------------------------------------------------------------------
(***************************************************************************)
(* publish_event: refused in FAILED; PUBLISHING is never seen from outside *)
(* a flush by the single thread that calls it.                             *)
(***************************************************************************)
CanPublish ==
    /\ call = "none"
    /\ state \in {"READY", "STAGING"}
    /\ last < MaxRecords
    /\ last' = last + 1

PublishEvent ==
    /\ CanPublish
    /\ state' = "STAGING"
    /\ batch' = Append(batch, last')
    /\ UNCHANGED <<initialized, errors, call, records, enqueued, kafkaVars,
                   confirmed, discarded>>

(* Mutant: the staged records are kept.                                    *)
SerializationErrorKeeping ==
    /\ CanPublish
    /\ state' = "READY"
    /\ discarded' = discarded \cup Range(batch) \cup {last'}
    /\ UNCHANGED <<initialized, batch, errors, call, records, enqueued, kafkaVars,
                   confirmed>>

(* json.dumps or encode raises: the whole batch is dropped.                *)
SerializationError ==
    /\ CanPublish
    /\ state' = "READY"
    /\ batch' = << >>
    /\ discarded' = discarded \cup Range(batch) \cup {last'}
    /\ UNCHANGED <<initialized, errors, call, records, enqueued, kafkaVars,
                   confirmed>>
-----------------------------------------------------------------------------
(***************************************************************************)
(* flush: refused in FAILED, a no-op in READY.                             *)
(***************************************************************************)
Poison ==
    /\ state' = "FAILED"
    /\ call' = "none"

InitFails ==
    /\ call = "none"
    /\ state = "STAGING"
    /\ ~ initialized
    /\ Poison
    /\ UNCHANGED <<initialized, batch, errors, records, enqueued, kafkaVars,
                   histVars>>

(* Mutant: the records are copied, not detached.                           *)
BeginFlushCopying ==
    /\ call = "none"
    /\ state = "STAGING"
    /\ initialized' = TRUE
    /\ records' = batch
    /\ enqueued' = 0
    /\ state' = "PUBLISHING"
    /\ call' = "enqueue"
    /\ UNCHANGED <<batch, errors, kafkaVars, histVars>>

BeginFlush ==
    /\ call = "none"
    /\ state = "STAGING"
    /\ initialized' = TRUE
    /\ records' = batch
    /\ enqueued' = 0
    /\ batch' = << >>
    /\ state' = "PUBLISHING"
    /\ call' = "enqueue"
    /\ UNCHANGED <<errors, kafkaVars, histVars>>

(* _delivery_report, called for every report that is waiting.              *)
FailedReports == {r.record : r \in {x \in reports : ~ x.ok}}

ServeReports ==
    /\ errors' = errors \cup FailedReports
    /\ reports' = {}

(* produce(), then poll(0).                                                *)
Enqueue ==
    /\ call = "enqueue"
    /\ enqueued < Len(records)
    /\ enqueued' = enqueued + 1
    /\ LET r == records[enqueued + 1]
       IN queue' = [queue EXCEPT ![PartitionOf[r]] = Append(@, r)]
    /\ ServeReports
    /\ UNCHANGED <<state, initialized, batch, call, records, topic, histVars>>

(* produce() raises, its queue being full.                                 *)
EnqueueFails ==
    /\ call = "enqueue"
    /\ enqueued < Len(records)
    /\ Poison
    /\ UNCHANGED <<initialized, batch, errors, records, enqueued, kafkaVars,
                   histVars>>

EnqueueDone ==
    /\ call = "enqueue"
    /\ enqueued = Len(records)
    /\ call' = "wait"
    /\ UNCHANGED <<state, initialized, batch, errors, records, enqueued,
                   kafkaVars, histVars>>

(* Producer.flush(timeout) serves reports while it waits.                  *)
FlushServes ==
    /\ call = "wait"
    /\ reports # {}
    /\ ServeReports
    /\ UNCHANGED <<state, initialized, batch, call, records, enqueued, queue,
                   topic, histVars>>

(* What Producer.flush(timeout) counts as not yet delivered.              *)
Outstanding == reports # {} \/ \E p \in Partitions : queue[p] # << >>

(* Mutant: a flush without a timeout.                                      *)
FlushForever ==
    /\ call = "wait"
    /\ FALSE
    /\ Poison
    /\ UNCHANGED <<initialized, batch, errors, records, enqueued, kafkaVars, histVars>>

(* Mutant: a producer that stays usable after a failed flush.              *)
FlushFailsReusable ==
    /\ call = "wait"
    /\ state' = "READY"
    /\ call' = "none"
    /\ errors' = {}
    /\ UNCHANGED <<initialized, batch, records, enqueued, kafkaVars, histVars>>

(* It times out with records undelivered, or raises at any moment.         *)
FlushFails ==
    /\ call = "wait"
    /\ Poison
    /\ errors' = {}
    /\ UNCHANGED <<initialized, batch, records, enqueued, kafkaVars, histVars>>

FlushReportsErrors ==
    /\ call = "wait"
    /\ ~ Outstanding
    /\ errors # {}
    /\ Poison
    /\ errors' = {}
    /\ UNCHANGED <<initialized, batch, records, enqueued, kafkaVars, histVars>>

(* Mutant: the delivery reports are not looked at.                         *)
FlushReturnsUnchecked ==
    /\ call = "wait"
    /\ ~ Outstanding
    /\ state' = "READY"
    /\ call' = "none"
    /\ confirmed' = confirmed \cup Range(records)
    /\ records' = << >>
    /\ enqueued' = 0
    /\ UNCHANGED <<initialized, batch, errors, kafkaVars, last, discarded>>

FlushReturns ==
    /\ call = "wait"
    /\ ~ Outstanding
    /\ errors = {}
    /\ state' = "READY"
    /\ call' = "none"
    /\ confirmed' = confirmed \cup Range(records)
    /\ records' = << >>
    /\ enqueued' = 0
    /\ UNCHANGED <<initialized, batch, errors, kafkaVars, last, discarded>>
-----------------------------------------------------------------------------
(***************************************************************************)
(* librdkafka and the broker, for the record at the head of a partition.   *)
(***************************************************************************)
Dequeue(p) == queue' = [queue EXCEPT ![p] = Tail(@)]

AppendToTopic(p) == topic' = [topic EXCEPT ![p] = Append(@, Head(queue[p]))]

Delivered(p) ==
    /\ queue[p] # << >>
    /\ AppendToTopic(p)
    /\ Dequeue(p)
    /\ reports' = reports \cup {[record |-> Head(queue[p]), ok |-> TRUE]}
    /\ UNCHANGED <<callerVars, histVars>>

(* Retries or delivery.timeout.ms are exhausted.                           *)
GivenUp(p) ==
    /\ queue[p] # << >>
    /\ AppendToTopic(p) \/ UNCHANGED topic
    /\ Dequeue(p)
    /\ reports' = reports \cup {[record |-> Head(queue[p]), ok |-> FALSE]}
    /\ UNCHANGED <<callerVars, histVars>>
-----------------------------------------------------------------------------
Flush ==
    \/ InitFails \/ BeginFlush \/ Enqueue \/ EnqueueFails \/ EnqueueDone
    \/ FlushServes \/ FlushFails \/ FlushReportsErrors \/ FlushReturns

Kafka == \E p \in Partitions : Delivered(p) \/ GivenUp(p)

Next == PublishEvent \/ SerializationError \/ Flush \/ Kafka

Spec == Init /\ [][Next]_vars

(* The caller's thread runs on inside a flush.  Nothing is assumed of the  *)
(* broker: the timeout is what ends a flush it does not answer.            *)
InsideFlush == call # "none" /\ Flush

FairSpec == Spec /\ WF_vars(InsideFlush)
-----------------------------------------------------------------------------
InTopic(r) == r \in Range(topic[PartitionOf[r]])

(* "Blocks until all outstanding messages in the queue are sent and checks *)
(* for errors": when flush returns, every record staged for it is in its   *)
(* topic, whatever was delivered, lost or reported while it was waiting.   *)
ConfirmedIsInTopic == \A r \in confirmed : InTopic(r)

(* A batch dropped because one of its events cannot be serialised leaves   *)
(* no trace in Kafka, neither then nor when a later batch is flushed.      *)
DiscardedIsNeverSent == \A r \in discarded : ~ InTopic(r)

(* No record is published twice or overtakes an earlier one of its         *)
(* partition, across batches, failed flushes and late deliveries.          *)
TopicInOrder ==
    \A p \in Partitions : \A i, j \in DOMAIN topic[p] :
        i < j => topic[p][i] < topic[p][j]

(* A flush always comes back to its caller.                                *)
FlushEnds == call # "none" ~> call = "none"

(* The producer is a BatchPublisher.                                       *)
Publisher == INSTANCE BatchPublisher WITH
    usable <- state # "FAILED",
    open   <- Range(batch) \cup Range(records)

ImplementsPublisher == Publisher!PublisherSpec
=============================================================================
