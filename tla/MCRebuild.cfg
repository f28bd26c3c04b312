SPECIFICATION FairSpec
CONSTANTS
    Kinds <- MCKinds
    ReadOrder <- MCReadOrder
INVARIANT NoLostUpdate
PROPERTY EveryChangeIsPublished
CHECK_DEADLOCK FALSE
