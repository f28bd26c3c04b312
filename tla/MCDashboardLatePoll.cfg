SPECIFICATION PanelSpec
CONSTANTS
    NodeIds <- MCNodeIds
    EdgeIds <- MCEdgeIds
    EdgeVals <- MCEdgeVals
    KindOf <- MCKindOf
    Statuses <- MCStatuses
    ReasonTexts <- MCReasons
    MetaKeys <- MCMetaKeys
    MetaVals <- MCMetaVals
    EmptyText = ""
    Graphs <- MCGraphs
    Slots = {s1, s2}
    NoSlot = NoSlot
    Asks = {r1}
    NoNode = NoNode
    MaxPublish = 2
    MaxFail = 1
INVARIANT LiveViewIsTheStream
CHECK_DEADLOCK FALSE
