SPECIFICATION FairPanelSpec
CONSTANTS
    NodeIds <- MCNodeIds
    EdgeIds <- MCEdgeIds
    EdgeVals <- MCEdgeVals
    KindOf <- MCKindOf
    Statuses <- MCStatuses
    ReasonTexts <- MCReasons
    MetaKeys <- MCMetaKeys
    MetaVals <- MCMetaVals
    EmptyText = ""
    Graphs <- MCGraphs
    Slots = {s1, s2}
    NoSlot = NoSlot
    Asks = {r1}
    NoNode = NoNode
    MaxPublish = 3
    MaxFail = 2
INVARIANTS OneConnection PollsExactlyWhileDown LiveViewMatches DetailsAreOfTheSelected ClosesWithItsNode
PROPERTIES EveryGraphIsReached DetailsCome
\* A live tab with nothing new to show rests.
CHECK_DEADLOCK FALSE
