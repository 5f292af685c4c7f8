SPECIFICATION UnattendedSpec
CONSTANTS
    NStreams = 2
    Concurrency = 1
    MaxPages = 1
    MaxPageBytes = 2
    StreamBufferBytes = 2
    BufferBytes = 3
    MaxInflight = 1
    MaxPageNo = 3
    MaxReads = 1
    Cancellers = {1}
    Messages <- OnePage
    Requests <- PlainRequest
INVARIANT CapsHold
PROPERTIES CancelledStreamEnds EveryStreamEnds BufferIsABudget
