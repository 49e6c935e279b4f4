\* Runs wait for the offsets, failed runs are repeated.
SPECIFICATION FairPipelineSpec
CONSTANTS
    f1 = f1  a = a  b = b  c = c  d = d
    m = m  n = n  o = o  mn = mn  no = no
    Files = {f1}
    Contents = {a, d}
    Missing = Missing
    Unparsable = {}
    Nodes = {m, n, o}
    Edges = {mn, no}
    Src <- MCSrc
    Dst <- MCDst
    ParsedNodes <- MCParsedNodes
    ParsedEdges <- MCParsedEdges
    MaxVersion = 1
    NoRow = NoRow
    NoJob = NoJob
    Absent = Absent
    AllowedEdits <- FreshEdits
    FailFastModes = {FALSE}
    MaxEdits = 1
    MaxFaults = 1
    NodeBatch = 2
    EdgeBatch = 2
    Disciplines = {"offsets"}
    RetryBeforeEdit = TRUE
    MaxLost = 0
INVARIANTS
    GraphFollowsCommitted
PROPERTIES
    GraphConverges
