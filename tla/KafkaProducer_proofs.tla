------------------------- MODULE KafkaProducer_proofs -------------------------
(***************************************************************************)
(* Proofs about KafkaProducer, for any number of records and partitions:   *)
(* its type invariant, the three promises of its flush, and that it        *)
(* implements BatchPublisher.                                              *)
(***************************************************************************)
EXTENDS KafkaProducer, SequenceTheorems, TLAPS

(***************************************************************************)
(* Sequences: what Append, Head and Tail do to the range and to the order. *)
(***************************************************************************)
Increasing(s) == \A i, j \in DOMAIN s : i < j => s[i] < s[j]

LEMMA RangeEmpty == Range(<< >>) = {}
  BY DEF Range

LEMMA RangeAppend ==
  ASSUME NEW S, NEW s \in Seq(S), NEW e
  PROVE  Range(Append(s, e)) = Range(s) \cup {e}
<1>1. /\ Len(s) \in Nat
      /\ DOMAIN s = 1..Len(s)
      /\ DOMAIN Append(s, e) = 1..(Len(s) + 1)
      /\ \A i \in 1..Len(s) : Append(s, e)[i] = s[i]
      /\ Append(s, e)[Len(s) + 1] = e
  OBVIOUS
<1>2. 1..(Len(s) + 1) = 1..Len(s) \cup {Len(s) + 1}
  BY <1>1
<1> QED
  BY <1>1, <1>2 DEF Range

LEMMA RangeHeadTail ==
  ASSUME NEW S, NEW s \in Seq(S), s # << >>
  PROVE  /\ Head(s) \in Range(s)
         /\ Range(s) = {Head(s)} \cup Range(Tail(s))
<1>1. /\ Len(s) \in Nat \ {0}
      /\ DOMAIN s = 1..Len(s)
      /\ Head(s) = s[1]
      /\ DOMAIN Tail(s) = 1..(Len(s) - 1)
      /\ \A i \in 1..(Len(s) - 1) : Tail(s)[i] = s[i + 1]
  OBVIOUS
<1>2. Head(s) \in Range(s)
  BY <1>1 DEF Range
<1>3. ASSUME NEW x \in Range(s) PROVE x = Head(s) \/ x \in Range(Tail(s))
  <2>1. PICK i \in 1..Len(s) : x = s[i]
    BY <1>1 DEF Range
  <2>2. CASE i = 1
    BY <2>1, <2>2, <1>1
  <2>3. CASE i # 1
    <3>1. i - 1 \in 1..(Len(s) - 1) /\ Tail(s)[i - 1] = s[i]
      BY <1>1, <2>3
    <3> QED
      BY <1>1, <2>1, <3>1 DEF Range
  <2> QED
    BY <2>2, <2>3
<1>4. ASSUME NEW x \in Range(Tail(s)) PROVE x \in Range(s)
  <2>1. PICK i \in 1..(Len(s) - 1) : x = s[i + 1]
    BY <1>1 DEF Range
  <2>2. i + 1 \in 1..Len(s)
    BY <1>1
  <2> QED
    BY <1>1, <2>1, <2>2 DEF Range
<1> QED
  BY <1>2, <1>3, <1>4

LEMMA IncreasingAppend ==
  ASSUME NEW s \in Seq(Nat), Increasing(s), NEW e \in Nat,
         \A x \in Range(s) : x < e
  PROVE  Increasing(Append(s, e))
<1>1. /\ Len(s) \in Nat
      /\ DOMAIN s = 1..Len(s)
      /\ DOMAIN Append(s, e) = 1..(Len(s) + 1)
      /\ \A i \in 1..Len(s) : Append(s, e)[i] = s[i] /\ s[i] \in Nat
      /\ Append(s, e)[Len(s) + 1] = e
  OBVIOUS
<1>2. \A i \in 1..Len(s) : s[i] < e
  BY <1>1 DEF Range
<1> QED
  BY <1>1, <1>2 DEF Increasing

LEMMA IncreasingTail ==
  ASSUME NEW s \in Seq(Nat), s # << >>, Increasing(s)
  PROVE  /\ Increasing(Tail(s))
         /\ \A x \in Range(Tail(s)) : Head(s) < x
<1>1. /\ Len(s) \in Nat \ {0}
      /\ DOMAIN s = 1..Len(s)
      /\ Head(s) = s[1]
      /\ DOMAIN Tail(s) = 1..(Len(s) - 1)
      /\ \A i \in 1..(Len(s) - 1) : Tail(s)[i] = s[i + 1]
  OBVIOUS
<1>2. \A i \in 1..(Len(s) - 1) : i + 1 \in 1..Len(s) /\ 1 < i + 1
  BY <1>1
<1>3. Increasing(Tail(s))
  BY <1>1, <1>2 DEF Increasing
<1>4. ASSUME NEW x \in Range(Tail(s)) PROVE Head(s) < x
  <2>1. PICK i \in 1..(Len(s) - 1) : x = s[i + 1]
    BY <1>1 DEF Range
  <2>2. i + 1 \in DOMAIN s /\ 1 \in DOMAIN s /\ 1 < i + 1
    BY <1>1, <1>2
  <2> QED
    BY <1>1, <2>1, <2>2 DEF Increasing
<1> QED
  BY <1>3, <1>4

-----------------------------------------------------------------------------
(***************************************************************************)
(* Type correctness.                                                       *)
(***************************************************************************)
LEMMA RangeIsRecords ==
  ASSUME NEW S, NEW s \in Seq(S)
  PROVE  Range(s) \subseteq S
<1>1. DOMAIN s = 1..Len(s) /\ \A i \in 1..Len(s) : s[i] \in S
  OBVIOUS
<1> QED
  BY <1>1 DEF Range

LEMMA InitTypeOK == Init => TypeOK
<1> SUFFICES ASSUME Init PROVE TypeOK
  OBVIOUS
<1>1. << >> \in Seq(Records) /\ Len(<< >>) = 0
  OBVIOUS
<1>2. MaxRecords \in Nat
  BY ProducerAssumption
<1> QED
  BY <1>1, <1>2 DEF Init, TypeOK, ProducerState, Report

LEMMA NextTypeOK ==
  ASSUME TypeOK, [Next]_vars
  PROVE  TypeOK'
<1> USE ProducerAssumption DEF TypeOK, ProducerState, histVars, kafkaVars
<1>0. \A r \in Records : r \in 1..MaxRecords /\ PartitionOf[r] \in Partitions
  BY DEF Records
<1>1. CASE PublishEvent
  <2>1. last' \in Records /\ last' \in 0..MaxRecords
    BY <1>1 DEF PublishEvent, CanPublish, Records
  <2>2. batch' \in Seq(Records)
    BY <1>1, <2>1 DEF PublishEvent
  <2> QED
    BY <1>1, <2>1, <2>2 DEF PublishEvent, CanPublish
<1>2. CASE SerializationError
  <2>1. last' \in Records /\ last' \in 0..MaxRecords
    BY <1>2 DEF SerializationError, CanPublish, Records
  <2>2. Range(batch) \subseteq Records
    BY RangeIsRecords
  <2>3. discarded' \in SUBSET Records
    BY <1>2, <2>1, <2>2 DEF SerializationError
  <2>4. << >> \in Seq(Records)
    OBVIOUS
  <2> QED
    BY <1>2, <2>1, <2>3, <2>4 DEF SerializationError, CanPublish
<1>3. CASE InitFails
  BY <1>3 DEF InitFails, Poison
<1>4. CASE BeginFlush
  BY <1>4 DEF BeginFlush
<1>5. ASSUME ServeReports PROVE errors' \in SUBSET Records /\ reports' \in SUBSET Report
  BY <1>5 DEF ServeReports, FailedReports, Report
<1>6. CASE Enqueue
  <2>1. enqueued' \in 0..Len(records) /\ records[enqueued + 1] \in Records
    BY <1>6 DEF Enqueue
  <2>2. queue' \in [Partitions -> Seq(Records)]
    BY <1>6, <2>1, <1>0 DEF Enqueue
  <2> QED
    BY <1>5, <1>6, <2>1, <2>2 DEF Enqueue
<1>7. CASE EnqueueFails
  BY <1>7 DEF EnqueueFails, Poison
<1>8. CASE EnqueueDone
  BY <1>8 DEF EnqueueDone
<1>9. CASE FlushServes
  BY <1>5, <1>9 DEF FlushServes
<1>10. CASE FlushFails
  BY <1>10 DEF FlushFails, Poison
<1>11. CASE FlushReportsErrors
  BY <1>11 DEF FlushReportsErrors, Poison
<1>12. CASE FlushReturns
  <2>1. Range(records) \subseteq Records
    BY RangeIsRecords
  <2>2. confirmed' \in SUBSET Records
    BY <1>12, <2>1 DEF FlushReturns
  <2>3. << >> \in Seq(Records) /\ Len(<< >>) = 0
    OBVIOUS
  <2> QED
    BY <1>12, <2>2, <2>3 DEF FlushReturns
<1>13. ASSUME NEW p \in Partitions, Delivered(p) \/ GivenUp(p)
       PROVE  TypeOK'
  <2>1. /\ queue[p] \in Seq(Records) /\ queue[p] # << >>
        /\ topic[p] \in Seq(Records)
    BY <1>13 DEF Delivered, GivenUp
  <2>2. Head(queue[p]) \in Records /\ Tail(queue[p]) \in Seq(Records)
    BY <2>1
  <2>3. queue' \in [Partitions -> Seq(Records)]
    BY <1>13, <2>2 DEF Delivered, GivenUp, Dequeue
  <2>4. Append(topic[p], Head(queue[p])) \in Seq(Records)
    BY <2>1, <2>2
  <2>5. topic' \in [Partitions -> Seq(Records)]
    BY <1>13, <2>4 DEF Delivered, GivenUp, AppendToTopic
  <2>6. reports' \in SUBSET Report
    <3>1. /\ [record |-> Head(queue[p]), ok |-> TRUE] \in Report
          /\ [record |-> Head(queue[p]), ok |-> FALSE] \in Report
      BY <2>2 DEF Report
    <3> QED
      BY <1>13, <3>1 DEF Delivered, GivenUp
  <2>7. UNCHANGED <<callerVars, histVars>>
    BY <1>13 DEF Delivered, GivenUp
  <2> QED
    BY <2>3, <2>5, <2>6, <2>7 DEF callerVars
<1>14. CASE UNCHANGED vars
  BY <1>14 DEF vars
<1> QED
  BY <1>1, <1>2, <1>3, <1>4, <1>6, <1>7, <1>8, <1>9, <1>10, <1>11, <1>12,
     <1>13, <1>14 DEF Next, Flush, Kafka

(* Every variable keeps its type, for any number of records, partitions    *)
(* and calls.                                                              *)
THEOREM TypeCorrect == Spec => []TypeOK
<1>1. Init => TypeOK
  BY InitTypeOK
<1>2. TypeOK /\ [Next]_vars => TypeOK'
  BY NextTypeOK
<1> QED
  BY <1>1, <1>2, PTL DEF Spec

-----------------------------------------------------------------------------
(***************************************************************************)
(* The inductive invariant.                                                *)
(***************************************************************************)

(* Where a record may be depends on where the caller is.  Outside a flush  *)
(* of a usable producer nothing is on its way.                             *)
Phases ==
    /\ call # "none" <=> state = "PUBLISHING"
    /\ call = "wait" => enqueued = Len(records)
    /\ state \in {"READY", "PUBLISHING"} => batch = << >>
    /\ state \in {"READY", "STAGING"} =>
          records = << >> /\ \A p \in Partitions : queue[p] = << >>

(* A record handed to librdkafka is not forgotten before the flush ends:   *)
(* it is in its topic, on its way, or its loss has been or will be told.   *)
AccountedFor(r) ==
    \/ InTopic(r)
    \/ r \in Range(queue[PartitionOf[r]])
    \/ r \in errors
    \/ r \in FailedReports

Conserved == call # "none" => \A i \in 1..enqueued : AccountedFor(records[i])

(* librdkafka holds nothing but records of the last batch that was flushed.*)
QueueIsOpen ==
    \A p \in Partitions : \A r \in Range(queue[p]) :
        r \in Range(records) /\ PartitionOf[r] = p

(* Records move from the batch to the topic in the order of the calls.     *)
Handed == UNION {Range(topic[p]) \cup Range(queue[p]) : p \in Partitions}

Ordered ==
    /\ Increasing(batch)
    /\ Increasing(records)
    /\ \A p \in Partitions :
          /\ Increasing(topic[p])
          /\ Increasing(queue[p])
          /\ \A x \in Range(topic[p]), y \in Range(queue[p]) : x < y
    /\ call = "enqueue" =>
          \A x \in Handed, i \in (enqueued + 1)..Len(records) : x < records[i]
    /\ \A x \in Handed, y \in Range(batch) : x < y
    /\ \A x \in Handed \cup Range(batch) \cup Range(records) \cup discarded : x <= last

(* What was discarded is nowhere.                                          *)
Forgotten ==
    \A r \in discarded :
        r \notin Range(batch) \cup Range(records) \cup Handed

IInv ==
    /\ TypeOK
    /\ Phases
    /\ Conserved
    /\ ConfirmedIsInTopic
    /\ QueueIsOpen
    /\ Ordered
    /\ Forgotten

LEMMA HandedIs ==
  \A x : x \in Handed <=> \E p \in Partitions : x \in Range(topic[p]) \/ x \in Range(queue[p])
  BY DEF Handed

(* What librdkafka and the broker do to the queues and topics: the head of *)
(* one queue leaves it, and is appended to its topic unless it is lost.    *)
LEMMA KafkaStep ==
  ASSUME TypeOK, NEW p \in Partitions, Delivered(p) \/ GivenUp(p)
  PROVE  /\ queue[p] \in Seq(Records) /\ queue[p] # << >>
         /\ Head(queue[p]) \in Records
         /\ queue' = [queue EXCEPT ![p] = Tail(queue[p])]
         /\ Range(queue[p]) = {Head(queue[p])} \cup Range(queue'[p])
         /\ \/ topic' = [topic EXCEPT ![p] = Append(topic[p], Head(queue[p]))]
            \/ topic' = topic /\ GivenUp(p)
         /\ \A q \in Partitions :
              /\ Range(queue'[q]) \subseteq Range(queue[q])
              /\ Range(topic[q]) \subseteq Range(topic'[q])
              /\ q # p => queue'[q] = queue[q] /\ topic'[q] = topic[q]
         /\ Range(topic'[p]) \subseteq Range(topic[p]) \cup {Head(queue[p])}
         /\ Handed' \subseteq Handed
         /\ UNCHANGED <<state, initialized, batch, errors, call, records, enqueued,
                        last, confirmed, discarded>>
<1> DEFINE h == Head(queue[p])
<1>1. /\ queue[p] \in Seq(Records) /\ queue[p] # << >>
      /\ topic[p] \in Seq(Records)
      /\ queue' = [queue EXCEPT ![p] = Tail(queue[p])]
      /\ \/ topic' = [topic EXCEPT ![p] = Append(topic[p], h)]
         \/ topic' = topic /\ GivenUp(p)
  BY DEF Delivered, GivenUp, Dequeue, AppendToTopic, TypeOK
<1>2. h \in Records
  BY <1>1
<1>3. /\ queue'[p] = Tail(queue[p])
      /\ \A q \in Partitions : q # p => queue'[q] = queue[q] /\ topic'[q] = topic[q]
      /\ topic'[p] = Append(topic[p], h) \/ topic'[p] = topic[p]
  BY <1>1 DEF TypeOK
<1> HIDE DEF h
<1>4. /\ Range(queue[p]) = {h} \cup Range(queue'[p])
      /\ h \in Range(queue[p])
  <2>1. /\ h \in Range(queue[p])
        /\ Range(queue[p]) = {h} \cup Range(Tail(queue[p]))
    BY <1>1, RangeHeadTail DEF h
  <2> QED
    BY <1>3, <2>1
<1>5. /\ Range(topic'[p]) \subseteq Range(topic[p]) \cup {h}
      /\ Range(topic[p]) \subseteq Range(topic'[p])
  <2>1. Range(Append(topic[p], h)) = Range(topic[p]) \cup {h}
    BY <1>1, RangeAppend
  <2> QED
    BY <1>3, <2>1
<1>6. Handed' \subseteq Handed
  <2> SUFFICES ASSUME NEW x \in Handed' PROVE x \in Handed
    OBVIOUS
  <2>1. PICK q \in Partitions : x \in Range(topic'[q]) \/ x \in Range(queue'[q])
    BY DEF Handed
  <2> QED
    BY <1>3, <1>4, <1>5, <2>1, HandedIs
<1>7. UNCHANGED <<state, initialized, batch, errors, call, records, enqueued,
                  last, confirmed, discarded>>
  BY DEF Delivered, GivenUp, callerVars, histVars
<1>8. \A q \in Partitions :
        /\ Range(queue'[q]) \subseteq Range(queue[q])
        /\ Range(topic[q]) \subseteq Range(topic'[q])
  BY <1>3, <1>4, <1>5
<1> QED
  BY <1>1, <1>2, <1>3, <1>4, <1>5, <1>6, <1>7, <1>8 DEF h

LEMMA EnqueueStep ==
  ASSUME TypeOK, Enqueue
  PROVE  /\ enqueued \in Nat /\ enqueued + 1 \in 1..Len(records)
         /\ records[enqueued + 1] \in Records
         /\ PartitionOf[records[enqueued + 1]] \in Partitions
         /\ \A q \in Partitions :
               IF q = PartitionOf[records[enqueued + 1]]
               THEN /\ queue'[q] = Append(queue[q], records[enqueued + 1])
                    /\ Range(queue'[q]) = Range(queue[q]) \cup {records[enqueued + 1]}
               ELSE queue'[q] = queue[q]
         /\ Handed' \subseteq Handed \cup {records[enqueued + 1]}
         /\ UNCHANGED topic
<1> DEFINE r == records[enqueued + 1]
<1>1. /\ enqueued \in Nat /\ enqueued + 1 \in 1..Len(records)
      /\ r \in Records
  BY DEF TypeOK, Enqueue
<1>2. PartitionOf[r] \in Partitions
  BY <1>1, ProducerAssumption
<1>3. \A q \in Partitions :
        /\ queue[q] \in Seq(Records)
        /\ queue'[q] = IF q = PartitionOf[r] THEN Append(queue[q], r) ELSE queue[q]
  BY <1>1, <1>2 DEF TypeOK, Enqueue
<1>4. \A q \in Partitions :
        q = PartitionOf[r] => Range(queue'[q]) = Range(queue[q]) \cup {r}
  BY <1>3, RangeAppend
<1>5. UNCHANGED topic
  BY DEF Enqueue
<1>6. Handed' \subseteq Handed \cup {r}
  <2> SUFFICES ASSUME NEW x \in Handed' PROVE x \in Handed \cup {r}
    OBVIOUS
  <2>1. PICK q \in Partitions : x \in Range(topic'[q]) \/ x \in Range(queue'[q])
    BY DEF Handed
  <2> QED
    BY <1>3, <1>4, <1>5, <2>1, HandedIs
<1> QED
  BY <1>1, <1>2, <1>3, <1>4, <1>5, <1>6

-----------------------------------------------------------------------------
(***************************************************************************)
(* Each part is preserved.                                                 *)
(***************************************************************************)
LEMMA NextPhases ==
  ASSUME TypeOK, Phases, [Next]_vars
  PROVE  Phases'
<1> USE DEF TypeOK, ProducerState, Phases, histVars, kafkaVars
<1>1. CASE PublishEvent
  BY <1>1 DEF PublishEvent, CanPublish
<1>2. CASE SerializationError
  BY <1>2 DEF SerializationError, CanPublish
<1>3. CASE InitFails
  BY <1>3 DEF InitFails, Poison
<1>4. CASE BeginFlush
  BY <1>4 DEF BeginFlush
<1>5. CASE Enqueue
  BY <1>5 DEF Enqueue
<1>6. CASE EnqueueFails
  BY <1>6 DEF EnqueueFails, Poison
<1>7. CASE EnqueueDone
  BY <1>7 DEF EnqueueDone
<1>8. CASE FlushServes
  BY <1>8 DEF FlushServes
<1>9. CASE FlushFails
  BY <1>9 DEF FlushFails, Poison
<1>10. CASE FlushReportsErrors
  BY <1>10 DEF FlushReportsErrors, Poison
<1>11. CASE FlushReturns
  BY <1>11 DEF FlushReturns, Outstanding
<1>12. ASSUME NEW p \in Partitions, Delivered(p) \/ GivenUp(p)
       PROVE  Phases'
  <2>1. state \notin {"READY", "STAGING"}
    BY <1>12, KafkaStep
  <2> QED
    BY <1>12, <2>1, KafkaStep
<1>13. CASE UNCHANGED vars
  BY <1>13 DEF vars
<1> QED
  BY <1>1, <1>2, <1>3, <1>4, <1>5, <1>6, <1>7, <1>8, <1>9, <1>10, <1>11,
     <1>12, <1>13 DEF Next, Flush, Kafka

(* Serving the reports turns a waiting report into an error.               *)
LEMMA ServingKeepsAccounts ==
  ASSUME ServeReports, UNCHANGED topic, NEW r, AccountedFor(r),
         r \in Range(queue[PartitionOf[r]]) => r \in Range(queue'[PartitionOf[r]])
  PROVE  AccountedFor(r)'
  BY DEF ServeReports, AccountedFor, InTopic

LEMMA NextConserved ==
  ASSUME TypeOK, Phases, Conserved, [Next]_vars
  PROVE  Conserved'
<1>1. CASE PublishEvent
  BY <1>1 DEF PublishEvent, CanPublish, Conserved
<1>2. CASE SerializationError
  BY <1>2 DEF SerializationError, CanPublish, Conserved
<1>3. CASE InitFails \/ EnqueueFails \/ FlushFails \/ FlushReportsErrors
  BY <1>3 DEF InitFails, EnqueueFails, FlushFails, FlushReportsErrors, Poison, Conserved
<1>4. CASE BeginFlush
  BY <1>4 DEF BeginFlush, Conserved
<1>5. CASE Enqueue
  <2> SUFFICES ASSUME NEW i \in 1..(enqueued + 1)
               PROVE  AccountedFor(records[i])'
    BY <1>5 DEF Enqueue, Conserved
  <2> DEFINE r == records[i]
  <2>1. r \in Records /\ PartitionOf[r] \in Partitions
    <3>1. i \in 1..Len(records)
      BY <1>5, EnqueueStep
    <3> QED
      BY <3>1, ProducerAssumption DEF TypeOK
  <2>2. CASE i = enqueued + 1
    <3>1. r \in Range(queue'[PartitionOf[r]])
      BY <1>5, <2>1, <2>2, EnqueueStep
    <3>2. r' = r
      BY <1>5 DEF Enqueue
    <3> QED
      BY <3>1, <3>2 DEF AccountedFor
  <2>3. CASE i \in 1..enqueued
    <3>1. AccountedFor(r)
      BY <1>5, <2>3 DEF Conserved, Enqueue
    <3>2. r \in Range(queue[PartitionOf[r]]) => r \in Range(queue'[PartitionOf[r]])
      BY <1>5, <2>1, EnqueueStep
    <3>3. ServeReports /\ UNCHANGED <<topic, records>>
      BY <1>5 DEF Enqueue
    <3>4. ASSUME NEW x, x = r PROVE AccountedFor(x)'
      BY <3>1, <3>2, <3>3, <3>4, ServingKeepsAccounts
    <3> QED
      BY <3>3, <3>4
  <2> QED
    BY <2>2, <2>3 DEF TypeOK
<1>6. CASE EnqueueDone
  <2>1. ASSUME NEW r PROVE AccountedFor(r)' <=> AccountedFor(r)
    BY <1>6 DEF EnqueueDone, kafkaVars, AccountedFor, InTopic, FailedReports
  <2> QED
    BY <1>6, <2>1 DEF EnqueueDone, Conserved
<1>7. CASE FlushServes
  <2> SUFFICES ASSUME NEW i \in 1..enqueued
               PROVE  AccountedFor(records[i])'
    BY <1>7 DEF FlushServes, Conserved
  <2>1. AccountedFor(records[i])
    BY <1>7 DEF FlushServes, Conserved
  <2>2. ServeReports /\ UNCHANGED <<topic, queue, records>>
    BY <1>7 DEF FlushServes
  <2>3. ASSUME NEW x, x = records[i] PROVE AccountedFor(x)'
    BY <2>1, <2>2, <2>3, ServingKeepsAccounts
  <2> QED
    BY <2>2, <2>3
<1>8. CASE FlushReturns
  BY <1>8 DEF FlushReturns, Conserved
<1>9. ASSUME NEW p \in Partitions, Delivered(p) \/ GivenUp(p)
      PROVE  Conserved'
  <2> SUFFICES ASSUME call # "none", NEW i \in 1..enqueued
               PROVE  AccountedFor(records[i])'
    BY <1>9, KafkaStep DEF Conserved
  <2> DEFINE r == records[i]
             q == PartitionOf[r]
  <2>1. AccountedFor(r) /\ r' = r
    BY <1>9, KafkaStep DEF Conserved
  <2>2. r \in Records /\ q \in Partitions
    BY ProducerAssumption DEF TypeOK
  <2>3. CASE InTopic(r)
    BY <1>9, <2>1, <2>2, <2>3, KafkaStep DEF AccountedFor, InTopic
  <2>4. CASE r \in errors
    BY <1>9, <2>1, <2>4, KafkaStep DEF AccountedFor
  <2>5. CASE r \in FailedReports
    <3>1. reports \subseteq reports'
      BY <1>9 DEF Delivered, GivenUp
    <3> QED
      BY <2>1, <2>5, <3>1 DEF AccountedFor, FailedReports
  <2>6. CASE r \in Range(queue[q])
    <3>1. CASE q # p \/ r # Head(queue[p])
      <4>1. r \in Range(queue'[q])
        BY <1>9, <2>2, <2>6, <3>1, KafkaStep
      <4> QED
        BY <2>1, <4>1 DEF AccountedFor
    <3>2. CASE q = p /\ r = Head(queue[p]) /\ Delivered(p)
      <4>1. topic'[p] = Append(topic[p], r) /\ topic[p] \in Seq(Records)
        BY <3>2 DEF Delivered, AppendToTopic, TypeOK
      <4>2. r \in Range(topic'[p])
        <5>1. Range(Append(topic[p], r)) = Range(topic[p]) \cup {r}
          BY <4>1, RangeAppend
        <5> QED
          BY <4>1, <5>1
      <4> QED
        BY <2>1, <3>2, <4>2 DEF AccountedFor, InTopic
    <3>3. CASE r = Head(queue[p]) /\ GivenUp(p)
      <4>1. [record |-> r, ok |-> FALSE] \in reports'
        BY <3>3 DEF GivenUp
      <4>2. r \in FailedReports'
        BY <4>1 DEF FailedReports
      <4> QED
        BY <2>1, <4>2 DEF AccountedFor
    <3> QED
      BY <1>9, <3>1, <3>2, <3>3
  <2> QED
    BY <2>1, <2>3, <2>4, <2>5, <2>6 DEF AccountedFor
<1>10. CASE UNCHANGED vars
  BY <1>10 DEF vars, Conserved, AccountedFor, InTopic, FailedReports
<1> QED
  BY <1>1, <1>2, <1>3, <1>4, <1>5, <1>6, <1>7, <1>8, <1>9, <1>10
     DEF Next, Flush, Kafka

LEMMA NextConfirmedIsInTopic ==
  ASSUME TypeOK, Phases, Conserved, ConfirmedIsInTopic, [Next]_vars
  PROVE  ConfirmedIsInTopic'
<1> USE DEF ConfirmedIsInTopic, InTopic
<1>1. CASE FlushReturns
  <2>1. confirmed' = confirmed \cup Range(records) /\ topic' = topic
    BY <1>1 DEF FlushReturns, kafkaVars
  <2>2. ASSUME NEW r \in Range(records) PROVE InTopic(r)
    <3>1. PICK i \in 1..Len(records) : r = records[i]
      BY DEF Range, TypeOK
    <3>2. AccountedFor(r)
      BY <1>1, <3>1 DEF FlushReturns, Phases, Conserved
    <3>3. r \in Records /\ PartitionOf[r] \in Partitions
      BY <3>1, ProducerAssumption DEF TypeOK
    <3>4. Range(queue[PartitionOf[r]]) = {} /\ errors = {} /\ FailedReports = {}
      BY <1>1, <3>3, RangeEmpty DEF FlushReturns, Outstanding, FailedReports
    <3> QED
      BY <3>2, <3>4 DEF AccountedFor
  <2> QED
    BY <2>1, <2>2
<1>2. ASSUME NEW p \in Partitions, Delivered(p) \/ GivenUp(p)
      PROVE  ConfirmedIsInTopic'
  <2>1. \A r \in confirmed : PartitionOf[r] \in Partitions
    BY ProducerAssumption DEF TypeOK
  <2> QED
    BY <1>2, <2>1, KafkaStep
<1>3. CASE UNCHANGED <<topic, confirmed>>
  BY <1>3
<1> QED
  BY <1>1, <1>2, <1>3
     DEF Next, Flush, Kafka, vars, kafkaVars, histVars, PublishEvent, SerializationError,
         CanPublish, InitFails, BeginFlush, Enqueue, EnqueueFails, EnqueueDone,
         FlushServes, FlushFails, FlushReportsErrors

LEMMA NextQueueIsOpen ==
  ASSUME TypeOK, Phases, QueueIsOpen, [Next]_vars
  PROVE  QueueIsOpen'
<1> USE DEF QueueIsOpen
<1>1. CASE BeginFlush \/ FlushReturns
  <2>1. \A p \in Partitions : queue'[p] = << >>
    BY <1>1 DEF BeginFlush, FlushReturns, Outstanding, Phases, kafkaVars
  <2> QED
    BY <2>1, RangeEmpty
<1>2. CASE Enqueue
  <2>1. records[enqueued + 1] \in Range(records)
    BY <1>2, EnqueueStep DEF Range, TypeOK
  <2>2. records' = records
    BY <1>2 DEF Enqueue
  <2> QED
    BY <1>2, <2>1, <2>2, EnqueueStep
<1>3. ASSUME NEW p \in Partitions, Delivered(p) \/ GivenUp(p)
      PROVE  QueueIsOpen'
  BY <1>3, KafkaStep
<1>4. CASE UNCHANGED <<queue, records>>
  BY <1>4
<1> QED
  BY <1>1, <1>2, <1>3, <1>4
     DEF Next, Flush, Kafka, vars, kafkaVars, PublishEvent, SerializationError,
         InitFails, EnqueueFails, EnqueueDone, FlushServes, FlushFails,
         FlushReportsErrors

LEMMA NextForgotten ==
  ASSUME TypeOK, Phases, Ordered, Forgotten, [Next]_vars
  PROVE  Forgotten'
<1> USE DEF Forgotten
<1>0. \A x \in Handed \cup Range(batch) \cup Range(records) \cup discarded :
         x \in Nat /\ x # last + 1
  <2>1. Handed \cup Range(batch) \cup Range(records) \cup discarded \subseteq Records
    BY RangeIsRecords DEF TypeOK, Handed
  <2> QED
    BY <2>1 DEF Ordered, Records, TypeOK
<1>1. ASSUME UNCHANGED <<topic, queue>> PROVE Handed' = Handed
  BY <1>1 DEF Handed
<1>2. CASE PublishEvent
  <2>1. Range(batch') = Range(batch) \cup {last + 1}
    BY <1>2, RangeAppend DEF PublishEvent, CanPublish, TypeOK
  <2>2. UNCHANGED <<records, discarded>> /\ Handed' = Handed
    BY <1>1, <1>2 DEF PublishEvent, kafkaVars
  <2> QED
    BY <1>0, <2>1, <2>2
<1>3. CASE SerializationError
  <2>1. Range(batch') = {} /\ Range(records') = {}
    BY <1>3, RangeEmpty DEF SerializationError, CanPublish, Phases
  <2>2. Handed' = Handed /\ discarded' = discarded \cup Range(batch) \cup {last + 1}
    BY <1>1, <1>3 DEF SerializationError, CanPublish, kafkaVars
  <2>3. \A y \in Range(batch) : y \notin Handed
    BY <1>0 DEF Ordered
  <2> QED
    BY <1>0, <2>1, <2>2, <2>3
<1>4. CASE BeginFlush
  <2>1. /\ records' = batch /\ discarded' = discarded
        /\ Handed' = Handed /\ Range(batch') = {}
    BY <1>1, <1>4, RangeEmpty DEF BeginFlush, kafkaVars, histVars
  <2> QED
    BY <2>1
<1>5. CASE Enqueue
  <2>1. records[enqueued + 1] \in Range(records)
    BY <1>5, EnqueueStep DEF Range, TypeOK
  <2>2. UNCHANGED <<batch, records, discarded>>
    BY <1>5 DEF Enqueue, histVars
  <2> QED
    BY <1>5, <2>1, <2>2, EnqueueStep
<1>6. CASE FlushReturns
  <2>1. /\ Range(records') = {} /\ Handed' = Handed
        /\ UNCHANGED <<batch, discarded>>
    BY <1>1, <1>6, RangeEmpty DEF FlushReturns, kafkaVars
  <2> QED
    BY <2>1
<1>7. ASSUME NEW p \in Partitions, Delivered(p) \/ GivenUp(p)
      PROVE  Forgotten'
  BY <1>7, KafkaStep
<1>8. CASE UNCHANGED <<batch, records, topic, queue, discarded>>
  BY <1>1, <1>8
<1> QED
  BY <1>2, <1>3, <1>4, <1>5, <1>6, <1>7, <1>8
     DEF Next, Flush, Kafka, vars, kafkaVars, histVars, InitFails, EnqueueFails,
         EnqueueDone, FlushServes, FlushFails, FlushReportsErrors

LEMMA NextOrdered ==
  ASSUME TypeOK, Phases, QueueIsOpen, Ordered, [Next]_vars
  PROVE  Ordered'
<1>0. /\ Handed \subseteq Records
      /\ Range(batch) \subseteq Records
      /\ Range(records) \subseteq Records
      /\ Records \subseteq Nat
      /\ \A s \in Seq(Records) : s \in Seq(Nat)
      /\ last \in Nat
  <2>1. Records \subseteq Nat
    BY DEF Records
  <2>2. /\ Handed \subseteq Records
        /\ Range(batch) \subseteq Records
        /\ Range(records) \subseteq Records
    BY RangeIsRecords DEF TypeOK, Handed
  <2>3. \A s \in Seq(Records) : s \in Seq(Nat)
    BY <2>1, SeqMonotonic
  <2>4. last \in Nat
    BY ProducerAssumption DEF TypeOK
  <2> QED
    BY <2>1, <2>2, <2>3, <2>4
<1>b. \A x \in Handed \cup Range(batch) \cup Range(records) \cup discarded :
          x \in Nat /\ x <= last /\ x < last + 1 /\ x <= last + 1
  <2>1. \A x \in Handed \cup Range(batch) \cup Range(records) \cup discarded :
            x \in Nat /\ x <= last
    BY <1>0 DEF Ordered, TypeOK
  <2> QED
    BY <1>0, <2>1
<1>1. ASSUME UNCHANGED <<topic, queue>> PROVE Handed' = Handed
  BY <1>1 DEF Handed
<1>2. Increasing(<< >>)
  BY DEF Increasing
<1>3. CASE PublishEvent
  <2>1. /\ batch' = Append(batch, last + 1) /\ last' = last + 1
        /\ call = "none"
        /\ UNCHANGED <<call, records, enqueued, topic, queue, discarded>>
    BY <1>3 DEF PublishEvent, CanPublish, kafkaVars
  <2>2. Range(batch') = Range(batch) \cup {last + 1}
    BY <2>1, RangeAppend DEF TypeOK
  <2>3. Increasing(batch')
    <3>1. batch \in Seq(Nat) /\ last + 1 \in Nat /\ Increasing(batch)
      BY <1>0 DEF TypeOK, Ordered
    <3>2. \A x \in Range(batch) : x < last + 1
      BY <1>b
    <3> QED
      BY <2>1, <3>1, <3>2, IncreasingAppend
  <2>4. \A x \in Handed', y \in Range(batch') : x < y
    BY <1>b, <1>1, <2>1, <2>2 DEF Ordered
  <2>5. \A x \in (Handed \cup Range(batch) \cup Range(records) \cup discarded)' : x <= last'
    <3> SUFFICES ASSUME NEW x \in (Handed \cup Range(batch) \cup Range(records) \cup discarded)'
                 PROVE  x <= last'
      OBVIOUS
    <3>1. x = last + 1 \/ x \in Handed \cup Range(batch) \cup Range(records) \cup discarded
      BY <1>1, <2>1, <2>2
    <3>2. CASE x = last + 1
      BY <1>0, <2>1, <3>2
    <3>3. CASE x \in Handed \cup Range(batch) \cup Range(records) \cup discarded
      BY <1>b, <2>1, <3>3
    <3> QED
      BY <3>1, <3>2, <3>3
  <2> QED
    BY <2>1, <2>3, <2>4, <2>5 DEF Ordered
<1>4. CASE SerializationError
  <2>1. /\ batch' = << >> /\ last' = last + 1
        /\ discarded' = discarded \cup Range(batch) \cup {last + 1}
        /\ call = "none"
        /\ UNCHANGED <<call, records, enqueued, topic, queue>>
    BY <1>4 DEF SerializationError, CanPublish, kafkaVars
  <2>2. Range(batch') = {}
    BY <2>1, RangeEmpty
  <2>3. \A x \in (Handed \cup Range(batch) \cup Range(records) \cup discarded)' : x <= last'
    <3> SUFFICES ASSUME NEW x \in (Handed \cup Range(batch) \cup Range(records) \cup discarded)'
                 PROVE  x <= last'
      OBVIOUS
    <3>1. x = last + 1 \/ x \in Handed \cup Range(batch) \cup Range(records) \cup discarded
      BY <1>1, <2>1, <2>2
    <3>2. CASE x = last + 1
      BY <1>0, <2>1, <3>2
    <3>3. CASE x \in Handed \cup Range(batch) \cup Range(records) \cup discarded
      BY <1>b, <2>1, <3>3
    <3> QED
      BY <3>1, <3>2, <3>3
  <2> QED
    BY <1>2, <2>1, <2>2, <2>3 DEF Ordered
<1>5. CASE BeginFlush
  <2>1. /\ records' = batch /\ batch' = << >> /\ enqueued' = 0
        /\ UNCHANGED <<topic, queue, last, discarded>>
    BY <1>5 DEF BeginFlush, kafkaVars, histVars
  <2>2. Range(batch') = {} /\ Range(records') = Range(batch) /\ Handed' = Handed
    BY <1>1, <2>1, RangeEmpty
  <2>3. \A x \in Handed', i \in (enqueued' + 1)..Len(records') : x < records'[i]
    <3>1. \A i \in 1..Len(batch) : batch[i] \in Range(batch)
      BY DEF Range, TypeOK
    <3> QED
      BY <2>1, <2>2, <3>1 DEF Ordered
  <2> QED
    BY <1>2, <2>1, <2>2, <2>3 DEF Ordered
<1>6. CASE Enqueue
  <2> DEFINE r == records[enqueued + 1]
  <2>1. /\ UNCHANGED <<batch, call, records, topic, last, discarded>>
        /\ enqueued' = enqueued + 1 /\ call = "enqueue"
        /\ batch = << >>
    BY <1>6 DEF Enqueue, histVars, Phases
  <2>2. /\ r \in Range(records) /\ r \in Nat
        /\ enqueued \in Nat /\ enqueued + 1 \in 1..Len(records)
    BY <1>0, <1>6, EnqueueStep DEF Range, TypeOK
  <2>3. \A x \in Handed : x < r
    BY <2>1, <2>2 DEF Ordered
  <2>4. ASSUME NEW p \in Partitions
        PROVE  /\ Increasing(queue'[p])
               /\ \A x \in Range(topic'[p]), y \in Range(queue'[p]) : x < y
    <3>1. /\ \A x \in Range(topic[p]) : x < r
          /\ \A x \in Range(queue[p]) : x < r
      BY <2>3, HandedIs
    <3>2. CASE p = PartitionOf[r]
      <4>1. /\ queue'[p] = Append(queue[p], r)
            /\ Range(queue'[p]) = Range(queue[p]) \cup {r}
        BY <1>6, <3>2, EnqueueStep
      <4>2. queue[p] \in Seq(Nat) /\ Increasing(queue[p])
        BY <1>0 DEF TypeOK, Ordered
      <4>3. Increasing(queue'[p])
        BY <2>2, <3>1, <4>1, <4>2, IncreasingAppend
      <4> QED
        BY <2>1, <3>1, <4>1, <4>3 DEF Ordered
    <3>3. CASE p # PartitionOf[r]
      BY <1>6, <2>1, <3>3, EnqueueStep DEF Ordered
    <3> QED
      BY <3>2, <3>3
  <2>5. Handed' \subseteq Handed \cup {r}
    BY <1>6, EnqueueStep
  <2>6. ASSUME NEW x \in Handed', NEW i \in (enqueued' + 1)..Len(records')
        PROVE  x < records'[i]
    <3>1. /\ i \in Int /\ enqueued + 1 < i /\ i \in DOMAIN records
          /\ enqueued + 1 \in DOMAIN records
          /\ i \in (enqueued + 1)..Len(records)
      BY <2>1, <2>2 DEF TypeOK
    <3>2. r < records[i]
      BY <3>1 DEF Ordered, Increasing
    <3>3. \A y \in Handed : y < records[i]
      BY <2>1, <3>1 DEF Ordered
    <3> QED
      BY <2>1, <2>5, <3>2, <3>3
  <2>7. Range(batch') = {}
    BY <2>1, RangeEmpty
  <2>8. \A x \in (Handed \cup Range(batch) \cup Range(records) \cup discarded)' : x <= last'
    BY <2>1, <2>2, <2>5 DEF Ordered
  <2> HIDE DEF r
  <2> QED
    BY <2>1, <2>4, <2>6, <2>7, <2>8 DEF Ordered
<1>7. CASE FlushReturns
  <2>1. /\ records' = << >> /\ call' = "none"
        /\ UNCHANGED <<batch, topic, queue, last, discarded>>
    BY <1>7 DEF FlushReturns, kafkaVars
  <2>2. Range(records') = {} /\ Handed' = Handed
    BY <1>1, <2>1, RangeEmpty
  <2> QED
    BY <1>2, <2>1, <2>2 DEF Ordered
<1>8. ASSUME NEW p \in Partitions, Delivered(p) \/ GivenUp(p)
      PROVE  Ordered'
  <2> DEFINE h == Head(queue[p])
  <2>1. /\ UNCHANGED <<batch, call, records, enqueued, last, discarded>>
        /\ Handed' \subseteq Handed
    BY <1>8, KafkaStep
  <2>2. /\ queue'[p] = Tail(queue[p])
        /\ topic'[p] = Append(topic[p], h) \/ topic'[p] = topic[p]
        /\ queue[p] \in Seq(Nat) /\ queue[p] # << >>
        /\ topic[p] \in Seq(Nat)
        /\ h \in Nat /\ h \in Range(queue[p])
    <3>1. queue[p] \in Seq(Records) /\ topic[p] \in Seq(Records)
      BY DEF TypeOK
    <3> QED
      BY <1>0, <1>8, <3>1, KafkaStep DEF TypeOK
  <2>3. /\ Increasing(queue'[p])
        /\ \A y \in Range(queue'[p]) : h < y
    BY <2>2, IncreasingTail DEF Ordered
  <2>4. \A x \in Range(topic[p]) : x < h
    BY <2>2 DEF Ordered
  <2> HIDE DEF h
  <2>5. Increasing(topic'[p])
    BY <2>2, <2>4, IncreasingAppend DEF Ordered
  <2>6. \A x \in Range(topic'[p]), y \in Range(queue'[p]) : x < y
    <3>1. /\ Range(topic'[p]) \subseteq Range(topic[p]) \cup {h}
          /\ Range(queue'[p]) \subseteq Range(queue[p])
      BY <1>8, KafkaStep DEF h
    <3> QED
      BY <2>3, <3>1 DEF Ordered
  <2>7. \A q \in Partitions : q # p => queue'[q] = queue[q] /\ topic'[q] = topic[q]
    BY <1>8, KafkaStep
  <2>8. \A q \in Partitions :
          /\ Increasing(topic'[q])
          /\ Increasing(queue'[q])
          /\ \A x \in Range(topic'[q]), y \in Range(queue'[q]) : x < y
    BY <2>3, <2>5, <2>6, <2>7 DEF Ordered
  <2> QED
    BY <2>1, <2>8 DEF Ordered
<1>9. CASE /\ call' \in {"none", "wait"} \/ call' = call
           /\ UNCHANGED <<batch, records, enqueued, topic, queue, last, discarded>>
  BY <1>1, <1>9 DEF Ordered
<1> QED
  BY <1>3, <1>4, <1>5, <1>6, <1>7, <1>8, <1>9
     DEF Next, Flush, Kafka, vars, kafkaVars, histVars, InitFails, EnqueueFails,
         EnqueueDone, FlushServes, FlushFails, FlushReportsErrors, Poison

-----------------------------------------------------------------------------
(***************************************************************************)
(* The invariant holds, and what follows from it.                          *)
(***************************************************************************)
LEMMA InitIInv == Init => IInv
<1> SUFFICES ASSUME Init PROVE IInv
  OBVIOUS
<1> USE RangeEmpty DEF Init
<1>1. TypeOK
  BY InitTypeOK
<1>2. \A x : x \notin Handed
  BY HandedIs
<1>3. \A p \in Partitions : queue[p] = << >> /\ topic[p] = << >>
  OBVIOUS
<1>4. Increasing(<< >>)
  BY DEF Increasing
<1>5. Ordered
  BY <1>2, <1>3, <1>4 DEF Ordered
<1>6. Phases
  BY <1>3 DEF Phases
<1> QED
  BY <1>1, <1>2, <1>3, <1>5, <1>6
     DEF IInv, Conserved, ConfirmedIsInTopic, QueueIsOpen, Forgotten

LEMMA NextIInv == IInv /\ [Next]_vars => IInv'
  BY NextTypeOK, NextPhases, NextConserved, NextConfirmedIsInTopic,
     NextQueueIsOpen, NextOrdered, NextForgotten DEF IInv

THEOREM Invariance == Spec => []IInv
  BY InitIInv, NextIInv, PTL DEF Spec

(* When flush returns, every record of its batch is in its topic.          *)
THEOREM ConfirmedDelivered == Spec => []ConfirmedIsInTopic
<1>1. IInv => ConfirmedIsInTopic
  BY DEF IInv
<1> QED
  BY <1>1, Invariance, PTL

(* Records keep the order of the calls, and none is published twice.       *)
THEOREM OrderKept == Spec => []TopicInOrder
<1>1. IInv => TopicInOrder
  BY DEF IInv, Ordered, Increasing, TopicInOrder
<1> QED
  BY <1>1, Invariance, PTL

(* A batch dropped by a serialisation error never reaches Kafka.           *)
THEOREM DiscardedNeverSent == Spec => []DiscardedIsNeverSent
<1>1. ASSUME IInv PROVE DiscardedIsNeverSent
  <2> SUFFICES ASSUME NEW r \in discarded PROVE ~ InTopic(r)
    BY DEF DiscardedIsNeverSent
  <2>1. PartitionOf[r] \in Partitions
    BY <1>1, ProducerAssumption DEF IInv, TypeOK
  <2>2. r \notin Handed
    BY <1>1 DEF IInv, Forgotten
  <2> QED
    BY <2>1, <2>2, HandedIs DEF InTopic
<1> QED
  BY <1>1, Invariance, PTL

-----------------------------------------------------------------------------
(***************************************************************************)
(* The refinement: a record is open while it is in the batch or in what    *)
(* the last flush detached from it.                                        *)
(***************************************************************************)
OpenRecords == Range(batch) \cup Range(records)

LEMMA PublisherRange == \A s : Publisher!Range(s) = Range(s)
  BY DEF Publisher!Range, Range

LEMMA PublisherStep ==
  ASSUME IInv, [Next]_vars
  PROVE  [Publisher!PublisherNext]_(Publisher!publisherVars)
<1> USE DEF IInv, Publisher!publisherVars
<1>0. /\ state \in {"READY", "STAGING"} =>
             Range(records) = {} /\ \A p \in Partitions : queue[p] = << >>
      /\ state \in {"READY", "PUBLISHING"} => Range(batch) = {}
  BY RangeEmpty DEF Phases
<1>a. CanPublish => last + 1 \in Publisher!Records /\ last < last + 1
  BY ProducerAssumption DEF CanPublish, TypeOK, Publisher!Records
<1>1. CASE PublishEvent
  <2>1. Range(batch') = Range(batch) \cup {last'}
    BY <1>1, RangeAppend DEF PublishEvent, CanPublish, TypeOK
  <2>2. Publisher!Accept
    BY <1>a, <1>1, <2>1 DEF PublishEvent, CanPublish, kafkaVars, Publisher!Accept
  <2> QED
    BY <2>2 DEF Publisher!PublisherNext
<1>2. CASE SerializationError
  <2>1. \A r \in OpenRecords : ~ InTopic(r)
    <3> SUFFICES ASSUME NEW r \in Range(batch) PROVE ~ InTopic(r)
      BY <1>0, <1>2 DEF SerializationError, CanPublish, OpenRecords
    <3>1. r \in Records /\ PartitionOf[r] \in Partitions
      BY RangeIsRecords, ProducerAssumption DEF TypeOK
    <3>2. r \notin Handed
      BY <3>1 DEF Ordered, Records
    <3> QED
      BY <3>1, <3>2, HandedIs DEF InTopic
  <2>2. Range(batch') \cup Range(records') = {}
    BY <1>0, <1>2, RangeEmpty DEF SerializationError, CanPublish
  <2>3. Publisher!Discard
    BY <1>a, <1>2, <2>1, <2>2, PublisherRange
       DEF SerializationError, CanPublish, kafkaVars, OpenRecords, InTopic,
           Publisher!Discard, Publisher!InTopic
  <2> QED
    BY <2>3 DEF Publisher!PublisherNext
<1>3. CASE InitFails \/ EnqueueFails \/ FlushFails \/ FlushReportsErrors
  <2>1. Publisher!Fail
    BY <1>3 DEF InitFails, EnqueueFails, FlushFails, FlushReportsErrors, Poison, Phases,
                kafkaVars, histVars, Publisher!Fail
  <2> QED
    BY <2>1 DEF Publisher!PublisherNext
<1>4. CASE BeginFlush
  <2>1. Range(batch') \cup Range(records') = Range(batch) \cup Range(records)
    BY <1>0, <1>4, RangeEmpty DEF BeginFlush
  <2> QED
    BY <1>4, <2>1 DEF BeginFlush, kafkaVars, histVars
<1>5. CASE Enqueue \/ EnqueueDone \/ FlushServes
  BY <1>5 DEF Enqueue, EnqueueDone, FlushServes, kafkaVars, histVars
<1>6. CASE FlushReturns
  <2>1. state = "PUBLISHING" /\ Range(batch) = {} /\ Range(records') = {}
    BY <1>0, <1>6, RangeEmpty DEF FlushReturns, Phases
  <2>2. \A r \in Range(records) : InTopic(r)
    <3>1. ConfirmedIsInTopic'
      BY NextConfirmedIsInTopic
    <3> QED
      BY <1>6, <3>1 DEF FlushReturns, ConfirmedIsInTopic, InTopic, kafkaVars
  <2>3. Publisher!Confirm
    BY <1>6, <2>1, <2>2, PublisherRange
       DEF FlushReturns, InTopic, kafkaVars, Publisher!Confirm, Publisher!InTopic
  <2> QED
    BY <2>3 DEF Publisher!PublisherNext
<1>7. ASSUME NEW p \in Partitions, Delivered(p) \/ GivenUp(p)
      PROVE  [Publisher!PublisherNext]_(Publisher!publisherVars)
  <2> DEFINE h == Head(queue[p])
  <2>1. UNCHANGED <<state, batch, records, last, confirmed>>
    BY <1>7, KafkaStep
  <2>2. /\ h \in Records /\ h \in Range(queue[p])
        /\ h \in Range(records) /\ PartitionOf[h] = p
    BY <1>7, KafkaStep DEF QueueIsOpen
  <2>3. \A x \in Range(topic[p]) : x < h
    BY <2>2 DEF Ordered
  <2>4. CASE topic' = [topic EXCEPT ![p] = Append(topic[p], h)]
    <3>1. Publisher!AppendRecord(h)
      BY <2>1, <2>2, <2>3, <2>4, PublisherRange DEF Publisher!AppendRecord
    <3>2. h \in Publisher!Records
      BY <2>2 DEF Records, Publisher!Records
    <3> QED
      BY <3>1, <3>2 DEF Publisher!PublisherNext
  <2>5. CASE topic' = topic
    BY <2>1, <2>5
  <2> QED
    BY <1>7, <2>4, <2>5, KafkaStep
<1>8. CASE UNCHANGED vars
  BY <1>8 DEF vars
<1> QED
  BY <1>1, <1>2, <1>3, <1>4, <1>5, <1>6, <1>7, <1>8 DEF Next, Flush, Kafka

(* KafkaEventProducer, with its buffers, callbacks, timeouts and late      *)
(* deliveries, is the publisher its callers rely on.                       *)
THEOREM Refinement == Spec => ImplementsPublisher
<1>1. Init => Publisher!PublisherInit
  BY RangeEmpty DEF Init, Publisher!PublisherInit
<1>2. IInv /\ [Next]_vars => [Publisher!PublisherNext]_(Publisher!publisherVars)
  BY PublisherStep
<1> QED
  BY <1>1, <1>2, Invariance, PTL
     DEF Spec, ImplementsPublisher, Publisher!PublisherSpec
=============================================================================
