CONSTANTS
    Names <- MCNames
    NoName = NoName
    NoNode = NoNode
    Programs <- MCPrograms
SPECIFICATION Spec
INVARIANTS
    GraphIsClosed
    CountsDescribeGraph
    CfgStepsAreEdges
    CfgEdgesAreSteps
    ReadsAreLinked
    DfgEdgesAreReads
    CallsReach
CHECK_DEADLOCK FALSE
