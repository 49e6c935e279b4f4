\* Two files, one run at a time, one producer a run, records one by one.
SPECIFICATION FairPublishingSpec
CONSTANTS
    f1 = f1  f2 = f2
    a = a  b = b  bad = bad
    m = m  n = n  mn = mn
    Files = {f1, f2}
    Contents = {a, b, bad}
    Missing = Missing
    Unparsable = {bad}
    Nodes = {m, n}
    Edges = {mn}
    Src <- MCSrc
    Dst <- MCDst
    ParsedNodes <- MCParsedNodes
    ParsedEdges <- MCParsedEdges
    MaxVersion = 1
    NoRow = NoRow
    NoJob = NoJob
    AllowedEdits <- AnyEdit
    FailFastModes = {FALSE}
    MaxEdits = 1
    MaxFaults = 1
    MaxRecords = 54
    PartitionOf <- MCPartitionOf
INVARIANTS
    RunAccountsForEveryFile
PROPERTIES
    ImplementsParserRun
    EventuallyCommitted
