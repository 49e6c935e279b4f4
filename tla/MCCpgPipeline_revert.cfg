\* A change is taken back.
SPECIFICATION PipelineSpec
CONSTANTS
    f1 = f1  a = a  b = b  c = c  d = d
    m = m  n = n  o = o  mn = mn  no = no
    Files = {f1}
    Contents = {a, d}
    Missing = Missing
    Unparsable = {}
    Nodes = {m, n, o}
    Edges = {mn, no}
    Src <- MCSrc
    Dst <- MCDst
    ParsedNodes <- MCParsedNodes
    ParsedEdges <- MCParsedEdges
    MaxVersion = 1
    NoRow = NoRow
    NoJob = NoJob
    Absent = Absent
    AllowedEdits <- RevertingEdits
    FailFastModes = {FALSE}
    MaxEdits = 2
    MaxFaults = 0
    NodeBatch = 1
    EdgeBatch = 1
    Disciplines = {"offsets"}
    RetryBeforeEdit = TRUE
    MaxLost = 0
INVARIANTS
    GraphFollowsCommitted
