SPECIFICATION FairSpec
CONSTANTS
    NodeIds <- MCNodeIds
    EdgeIds <- MCEdgeIds
    EdgeVals <- MCEdgeVals
    KindOf <- MCKindOf
    Statuses <- MCStatuses
    ReasonTexts <- MCReasons
    MetaKeys <- MCMetaKeys
    MetaVals <- MCMetaVals
    EmptyText = ""
    Graphs <- MCGraphs
    Free = Free
    Builder = Builder
    NoMsg = NoMsg
    Conns = {h1}
    Cap = 2
    WireCap = 2
    MaxPublish = 5
INVARIANT ShowsAPublishedGraph
PROPERTIES ImplementsLiveFeed DroppedIsDisconnected GoneIsReaped CatchesUp
