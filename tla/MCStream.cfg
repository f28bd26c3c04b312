SPECIFICATION Spec
CONSTANTS
    NodeIds <- MCNodeIds
    EdgeIds <- MCEdgeIds
    EdgeVals <- MCEdgeVals
    KindOf <- MCKindOf
    Statuses <- MCStatuses
    ReasonTexts <- MCReasons
    MetaKeys <- MCMetaKeys
    MetaVals <- MCMetaVals
    EmptyText = ""
    Graphs <- MCGraphs
    Free = Free
    Builder = Builder
    NoMsg = NoMsg
    Conns = {h1, h2}
    Cap = 1
    WireCap = 1
    MaxPublish = 3
SYMMETRY MCSymmetry
INVARIANTS NothingLostOrRepeated NeverPanics NoSubscriptionLeaks
