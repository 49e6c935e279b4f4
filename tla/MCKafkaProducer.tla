--------------------------- MODULE MCKafkaProducer ---------------------------
(***************************************************************************)
(* Two partitions; records alternate between them, so that a batch of      *)
(* three has two records of one partition and one of the other.            *)
(***************************************************************************)
EXTENDS KafkaProducer

CONSTANTS p0, p1

MCPartitionOf == [r \in Records |-> IF r % 2 = 0 THEN p0 ELSE p1]
=============================================================================
