---------------------------- MODULE BatchPublisher ----------------------------
(***************************************************************************)
(* What a caller of EventPublisherPort may rely on, with no mention of     *)
(* buffers, callbacks or timeouts.  Records are accepted one by one and    *)
(* stay open until the batch is settled.  The publisher may append an open *)
(* record to the topic at any time, each at most once and, within a        *)
(* partition, in the order of acceptance.  A batch is confirmed only when  *)
(* all of it is in the topic; it may be discarded only while none of it    *)
(* is; and a publisher that has failed accepts and confirms nothing more,  *)
(* although what was open may still trickle into the topic.                *)
(***************************************************************************)
EXTENDS Naturals, Sequences, Functions

CONSTANTS MaxRecords, Partitions, PartitionOf

(* A record is its place in the order of calls, where places may be left   *)
(* empty: a caller finds a number for each partition it may write to.      *)
Records == 1..MaxRecords

VARIABLES
    usable,    \* the publisher has not failed
    last,      \* the last record offered to it
    open,      \* accepted, not settled
    confirmed, \* the records of every batch whose flush returned
    topic      \* the records in each partition

publisherVars == <<usable, last, open, confirmed, topic>>

InTopic(r) == r \in Range(topic[PartitionOf[r]])

PublisherTypeOK ==
    /\ usable \in BOOLEAN
    /\ last \in 0..MaxRecords
    /\ open \in SUBSET Records
    /\ confirmed \in SUBSET Records
    /\ topic \in [Partitions -> Seq(Records)]

PublisherInit ==
    /\ usable = TRUE
    /\ last = 0
    /\ open = {}
    /\ confirmed = {}
    /\ topic = [p \in Partitions |-> << >>]

Accept ==
    /\ usable
    /\ last' \in Records
    /\ last < last'
    /\ open' = open \cup {last'}
    /\ UNCHANGED <<usable, confirmed, topic>>

(* A record that cannot be serialised takes the staged ones with it.       *)
Discard ==
    /\ usable
    /\ last' \in Records
    /\ last < last'
    /\ \A r \in open : ~ InTopic(r)
    /\ open' = {}
    /\ UNCHANGED <<usable, confirmed, topic>>

AppendRecord(r) ==
    /\ r \in open
    /\ \A x \in Range(topic[PartitionOf[r]]) : x < r
    /\ topic' = [topic EXCEPT ![PartitionOf[r]] = Append(@, r)]
    /\ UNCHANGED <<usable, last, open, confirmed>>

Confirm ==
    /\ usable
    /\ \A r \in open : InTopic(r)
    /\ confirmed' = confirmed \cup open
    /\ open' = {}
    /\ UNCHANGED <<usable, last, topic>>

Fail ==
    /\ usable
    /\ usable' = FALSE
    /\ UNCHANGED <<last, open, confirmed, topic>>

PublisherNext ==
    \/ Accept \/ Discard
    \/ \E r \in Records : AppendRecord(r)
    \/ Confirm \/ Fail

PublisherSpec == PublisherInit /\ [][PublisherNext]_publisherVars
=============================================================================
