---------------------------- MODULE PublishingRun ----------------------------
(***************************************************************************)
(* The parser process once more, with each publication taken record by     *)
(* record: events are offered to an EventPublisherPort one after another,  *)
(* reach Kafka in their own time, and flush returns, or an exception ends  *)
(* the process while records are still on their way.  All this process may *)
(* rely on is BatchPublisher, which the Kafka producer implements.  It     *)
(* implements ParserRun, where a publication is one step.                  *)
(*                                                                         *)
(* log is the topics without the records of the publication in progress;   *)
(* Kafka(t, f) is what they really hold.                                   *)
(***************************************************************************)
EXTENDS ParserRun

CONSTANTS
    MaxRecords,   \* bound on the numbers of a process's records
    PartitionOf   \* which topic and file a number is for

ASSUME ProcessAssumption == MaxRecords \in Nat

VARIABLES
    usable, last, open, confirmed, topic,   \* the publisher of this process
    call,       \* where execute is in its publication
    accepted,   \* by topic, the records that carry the events of job.batch
    landed      \* by topic, the places in job.batch of the events in Kafka

publisherVars == <<usable, last, open, confirmed, topic>>
callVars == <<call, accepted, landed>>
publishingVars == <<vars, publisherVars, callVars>>

Publisher == INSTANCE BatchPublisher WITH Partitions <- Topics \X Files

NoneYet == [t \in Topics |-> << >>]

PublishingInit ==
    /\ Init
    /\ Publisher!PublisherInit
    /\ call = "idle" /\ accepted = NoneYet /\ landed = NoneYet

LandedEvents(t) == [j \in DOMAIN landed[t] |-> job.batch[t][landed[t][j]]]

Kafka(t, f) ==
    IF job # NoJob /\ f = job.file THEN log[t][f] \o LandedEvents(t) ELSE log[t][f]
-----------------------------------------------------------------------------
(***************************************************************************)
(* The publication of one file: the events of each topic in the order of   *)
(* the batch, and those of all topics in the order of events_to_send.      *)
(***************************************************************************)
EventOrder == <<"EDGE_DELETE", "NODE_DELETE", "NODE_UPSERT", "EDGE_UPSERT",
                "FILE_METADATA_UPSERT">>
Pending(t) == Len(accepted[t]) < Len(job.batch[t])
IsNext(t) ==
    LET place(u) == CHOOSE i \in 1..5 :
                      EventOrder[i] = job.batch[u][Len(accepted[u]) + 1].type
    IN Pending(t) /\ \A u \in Topics : Pending(u) => place(t) <= place(u)

Publishing == pc = "staged" /\ producer = "READY" /\ call \in {"idle", "writing"}

(* The record takes the next number that is for its topic and file.        *)
OfferEvent(t) ==
    /\ Publishing
    /\ IsNext(t)
    /\ Publisher!Accept
    /\ PartitionOf[last'] = <<t, job.file>>
    /\ \A r \in last + 1 .. last' - 1 : PartitionOf[r] # <<t, job.file>>
    /\ accepted' = [accepted EXCEPT ![t] = Append(@, last')]
    /\ call' = "writing"
    /\ UNCHANGED <<vars, landed>>

(* A record that lands before an earlier one leaves that one behind for    *)
(* good: librdkafka has given it up, which is a fault.                     *)
RecordLands(t) ==
    \E i \in DOMAIN accepted[t] :
        /\ i = Len(landed[t]) + 1 \/ faults < MaxFaults
        /\ Publisher!AppendRecord(accepted[t][i])
        /\ landed' = [landed EXCEPT ![t] = Append(@, i)]
        /\ UNCHANGED <<vars, call, accepted>>

(* An event cannot be serialised: publish_event drops the batch and raises.*)
EventRaises ==
    /\ Publishing
    /\ faults < MaxFaults
    /\ Publisher!Discard
    /\ call' = "raised"
    /\ UNCHANGED <<vars, accepted, landed>>

AllOffered == \A t \in Topics : ~ Pending(t)

GivenUp == \E t \in Topics : \E i \in DOMAIN landed[t] : landed[t][i] # i

FlushRaises ==
    /\ Publishing /\ AllOffered
    /\ faults < MaxFaults
    /\ Publisher!Fail
    /\ call' = "raised"
    /\ UNCHANGED <<vars, accepted, landed>>

Settle ==
    /\ Deliver([t \in Topics |-> LandedEvents(t)])
    /\ call' = "idle" /\ accepted' = NoneYet /\ landed' = NoneYet

(* Mutant: flush returns without having waited for the deliveries.         *)
FlushReturnsEarly ==
    /\ Publishing /\ AllOffered
    /\ open' = {}
    /\ Settle
    /\ pc' = "published"
    /\ dirty' = dirty \cup {job.file}
    /\ abandoned' = [abandoned EXCEPT ![job.file] = @ \cup {JobGeneration}]
    /\ UNCHANGED <<envVars, store, errors, job, producer, runVars, faults,
                   usable, last, confirmed, topic>>

FlushReturns ==
    /\ Publishing /\ AllOffered
    /\ Publisher!Confirm
    /\ Settle
    /\ pc' = "published"
    /\ dirty' = dirty \cup {job.file}
    /\ abandoned' = [abandoned EXCEPT ![job.file] = @ \cup {JobGeneration}]
    /\ UNCHANGED <<envVars, store, errors, job, producer, runVars, faults>>

(* PublishError is raised out of the loop, or the process is killed in the *)
(* middle.  What lands as late as its end has landed by then.              *)
PublicationAborts ==
    /\ pc = "staged" /\ call \in {"writing", "raised"}
    /\ faults < MaxFaults
    /\ faults' = faults + 1
    /\ Settle
    /\ IF landed = NoneYet
       THEN UNCHANGED histVars
       ELSE /\ dirty' = dirty \cup {job.file}
            /\ abandoned' = [abandoned EXCEPT ![job.file] = @ \cup {JobGeneration}]
    /\ Abort
    /\ UNCHANGED <<envVars, store, errors, publisherVars>>
-----------------------------------------------------------------------------
(***************************************************************************)
(* The rest of the run.                                                    *)
(***************************************************************************)
(* A process starts with a producer of its own.                            *)
StartWithProducer ==
    /\ StartRun
    /\ usable' = TRUE
    /\ last' = 0
    /\ open' = {}
    /\ confirmed' = {}
    /\ topic' = [p \in Topics \X Files |-> << >>]
    /\ UNCHANGED callVars

(* A report is one record: offered, landed and flushed in one step.        *)
ReportFails ==
    /\ ReportErrorFails
    /\ Publisher!Fail
    /\ UNCHANGED callVars

Elsewhere ==
    /\ \/ \E f \in Files : ReadFile(f)
       \/ SkipUnchanged
       \/ ParseFails \/ ParserRaises
       \/ StageEvents
       \/ PublishRejected
       \/ CommitState
       \/ ReportError \/ ReportErrorRejected
       \/ EndRun
    /\ UNCHANGED <<publisherVars, callVars>>

FaultElsewhere ==
    /\ call = "idle"
    /\ AbortBeforePublish \/ CommitFails \/ ReportErrorDropped \/ Crash
    /\ UNCHANGED <<publisherVars, callVars>>

Publication ==
    \/ \E t \in Topics : OfferEvent(t) \/ RecordLands(t)
    \/ FlushReturns

PublishingNext ==
    \/ Publication \/ EventRaises \/ FlushRaises \/ PublicationAborts
    \/ StartWithProducer \/ ReportFails
    \/ Elsewhere \/ FaultElsewhere
    \/ Environment /\ UNCHANGED <<publisherVars, callVars>>

PublishingSpec == PublishingInit /\ [][PublishingNext]_publishingVars

(* The process runs on, Kafka takes what it is given unless a fault keeps  *)
(* it from doing so, which flush then reports, and the command is run again.*)
FairPublishingSpec ==
    /\ PublishingSpec
    /\ WF_publishingVars(Publication \/ Elsewhere)
    /\ WF_publishingVars(FlushRaises /\ GivenUp)
    /\ WF_publishingVars(PublicationAborts /\ call = "raised")
    /\ WF_publishingVars(StartWithProducer)
-----------------------------------------------------------------------------
(* ImplementsParserRun: however the records of a publication reach Kafka   *)
(* one by one, early, late, out of step between the topics or not at all,  *)
(* the process does what ParserRun says in one step: when flush returns,   *)
(* the batch is in the topics, once, whole and in order, and when it does  *)
(* not, some of every topic's events are, in order, and none twice.        *)
ImplementsParserRun == Spec
=============================================================================
