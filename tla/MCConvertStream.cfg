SPECIFICATION UnattendedSpec
CONSTANTS
    NStreams = 1
    Concurrency = 2
    MaxPages = 2
    MaxPageBytes = 2
    StreamBufferBytes = 3
    BufferBytes = 3
    MaxInflight = 1
    MaxPageNo = 3
    MaxReads = 2
    Cancellers = {1}
    Messages <- TwoSizes
    Requests <- AbortRequest
INVARIANTS LeasesMatchPages NothingLeftBehind
PROPERTIES UploadFirstEnds SlotsAreABudget
