SPECIFICATION FairSpec
CONSTANTS
    Requests <- MCRequests
    Streams = {"stream"}
    ServerOf <- MCServerOf
INVARIANT AnswersAreComplete
PROPERTIES CutOffOnlyWhenLate Stops Starts
