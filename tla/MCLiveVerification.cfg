\* The checks of Tasks 3, 4 and 5, over one file that changes, with one fault.
SPECIFICATION LiveSpec
CONSTANTS
    f1 = f1  a = a  b = b  c = c  d = d  e = e  bad = bad
    m = m  n = n  o = o  mn = mn  no = no
    Files = {f1}
    Contents = {a, b, c, d, e, bad}
    Missing = Missing
    Unparsable = {bad}
    Nodes = {m, n, o}
    Edges = {mn, no}
    Src <- MCSrc
    Dst <- MCDst
    ParsedNodes <- MCParsedNodes
    ParsedEdges <- MCParsedEdges
    MaxVersion = 1
    NoRow = NoRow
    NoJob = NoJob
    Absent = Absent
    AllowedEdits <- BackAndForth
    FirstContents <- MCFirstContents
    EditsAllowed <- MCEditsAllowed
    FaultsAllowed <- MCFaultsAllowed
    FailFastModes = {FALSE}
    MaxEdits = 2
    MaxFaults = 1
    NodeBatch = 2
    EdgeBatch = 1
    Disciplines = {"nothing"}
    RetryBeforeEdit = TRUE
    MaxLost = 1
    MaxDeadLetters = 1
    Patience = 2
    MaxReports = 2
    target_file = f1
    Theirs = Theirs
    NoHash = NoHash
    MaxTheirs = 3
INVARIANTS
    WindowIsWhole
    DuplicatesMeanRepetition
    RerunWindowIsEmpty
    VerdictIsSound
    DocumentVerdictIsTrue
CHECK_DEADLOCK FALSE
