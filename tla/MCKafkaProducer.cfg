\* Five records in any batches, every fault of librdkafka and the broker.
SPECIFICATION FairSpec
CONSTANTS
    p0 = p0  p1 = p1
    Partitions = {p0, p1}
    MaxRecords = 5
    PartitionOf <- MCPartitionOf
INVARIANTS
    ConfirmedIsInTopic
    DiscardedIsNeverSent
    TopicInOrder
PROPERTIES
    ImplementsPublisher
    FlushEnds
CHECK_DEADLOCK FALSE
