\* Runs that wait and runs that do not, over three contents; a generation may lose batches.
SPECIFICATION PipelineSpec
CONSTANTS
    f1 = f1  a = a  b = b  c = c  d = d
    m = m  n = n  o = o  mn = mn  no = no
    Files = {f1}
    Contents = {a, b, c}
    Missing = Missing
    Unparsable = {}
    Nodes = {m, n, o}
    Edges = {mn, no}
    Src <- MCSrc
    Dst <- MCDst
    ParsedNodes <- MCParsedNodes
    ParsedEdges <- MCParsedEdges
    MaxVersion = 1
    NoRow = NoRow
    NoJob = NoJob
    Absent = Absent
    AllowedEdits <- FreshEdits
    FailFastModes = {FALSE}
    MaxEdits = 2
    MaxFaults = 0
    NodeBatch = 4
    EdgeBatch = 1
    Disciplines = {"nothing", "offsets"}
    RetryBeforeEdit = TRUE
    MaxLost = 1
INVARIANTS
    AwaitedGraphFollows
    CommittedNodesArePresent
