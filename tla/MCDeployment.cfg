\* Two operators, a failing request, one change by somebody else.
SPECIFICATION FairSpec
CONSTANTS
    o1 = o1  o2 = o2  nodes = nodes  edges = edges  n = n
    Operators = {o1, o2}
    Steady = {o1}
    TopicList <- MCTopics
    Desired <- MCDesired
    OtherLayout = 1
    ConnectorFiles <- MCList
    Target <- MCTarget
    Sensitive = {"password"}
    OtherConfigs <- MCOtherConfigs
    None = None
    Nodes = {n}
    MaxFaults = 1
    MaxMeddling = 1
INVARIANTS
    TopicsAreAsClaimed
    ConnectorsAreAsClaimed
    NodesAreUnique
PROPERTIES
    DeploymentConverges
