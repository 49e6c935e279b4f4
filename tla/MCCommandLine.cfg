\* Two terminals: three commands, an edit and a kill.
SPECIFICATION Spec
CONSTANTS
    a = a  b = b  bad = bad  m = m  n = n  o = o
    p1 = p1  p2 = p2  head = head
    Files = {1, 2, 3}
    Contents = {a, b, bad}
    Missing = Missing
    Unparsable = {bad}
    Nodes = {m, n, o}
    Edges = {}
    Src <- NoEndPoints
    Dst <- NoEndPoints
    ParsedNodes <- MCParsedNodes
    ParsedEdges <- MCParsedEdges
    MaxVersion = 1
    NoRow = NoRow
    Filters <- MCFilters
    Reasons = {"Excluded test file"}
    NoReason = NoReason
    Processes = {p1, p2}
    Commands <- MCCommands
    Commits = {head}
    Tree <- MCTree
    NoCommit = NoCommit
    NoFile = NoFile
    NoPreview = NoPreview
    MaxCommands = 3
    MaxEdits = 1
    MaxFaults = 1
SYMMETRY Terminals
INVARIANTS
    RunStaysInScope
    ManifestIsOfOneRun
    SequentialIsExact
    PreviewIsPublished
CHECK_DEADLOCK FALSE
