SPECIFICATION GraphSpec
CONSTANTS
    NodeIds = {}
    EdgeIds = {}
    EdgeVals = {}
    KindOf <- MCKindOf
    Statuses = {}
    ReasonTexts = {}
    MetaKeys = {}
    MetaVals = {}
    EmptyText = ""
    Unit = 60
    Lasting <- MCLasting
    Watched = "a"
    Grace = 2
    Contents <- MCContents
    MaxBehind = 1
    Events <- MCEvents
    Limit = 2
INVARIANTS AtMostOneParent EverythingHangsTogether FailureReachesTheRoot ViewIsComplete ScrapeMatchesGraph DetailsAreOfTheNode
PROPERTIES GraphsAreComparable PatchesOldToNew CarriesOnlyChanges
