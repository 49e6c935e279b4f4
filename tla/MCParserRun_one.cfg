\* One file with any edit history of two changes, one before it that
\* never parses, two versions, one fault.
SPECIFICATION Spec
CONSTANTS
    f1 = f1  f2 = f2
    a = a  b = b  c = c  bad = bad
    m = m  n = n  o = o  mn = mn  no = no
    Files = {f1, f2}
    Contents = {a, b, c, bad}
    Missing = Missing
    Unparsable = {bad}
    Nodes = {m, n, o}
    Edges = {mn, no}
    Src <- MCSrc
    Dst <- MCDst
    ParsedNodes <- MCParsedNodes
    ParsedEdges <- MCParsedEdges
    MaxVersion = 2
    NoRow = NoRow
    NoJob = NoJob
    AllowedEdits <- AnyEdit
    FailFastModes = {FALSE, TRUE}
    MaxEdits = 2
    MaxFaults = 1
INVARIANTS
    TypeOK
    StoreBackedByLog
    CommittedIsLive
    OnlyAbandonedOutlives
PROPERTIES
    SkippedIsPublished
    DeletesNameLatestContent
CONSTRAINT
    FirstIsBad
