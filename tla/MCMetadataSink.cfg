\* One file with small graphs: two changes, a fault on either side, two checkpoints.
SPECIFICATION FairMetadataSpec
CONSTANTS
    f1 = f1  a = a  b = b  bad = bad  m = m  n = n
    Files = {f1}
    Contents = {a, b, bad}
    Missing = Missing
    Unparsable = {bad}
    Nodes = {m, n}
    Edges = {}
    Src <- NoEndPoints
    Dst <- NoEndPoints
    ParsedNodes <- MCParsedNodes
    ParsedEdges <- MCParsedEdges
    MaxVersion = 1
    NoRow = NoRow
    NoJob = NoJob
    NoDocument = NoDocument
    AllowedEdits <- AnyEdit
    FailFastModes = {FALSE}
    MaxEdits = 2
    MaxFaults = 1
    MaxCheckpoints = 2
INVARIANTS
    DocumentsMatchCheckpoint
PROPERTIES
    DocumentsConverge
