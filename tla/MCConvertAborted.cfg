SPECIFICATION Spec
CONSTANTS
    NStreams = 1
    Concurrency = 1
    MaxPages = 2
    MaxPageBytes = 2
    StreamBufferBytes = 4
    BufferBytes = 4
    MaxInflight = 2
    MaxPageNo = 3
    MaxReads = 2
    Cancellers = {1}
    Messages <- PageOrRefused
    Requests <- AbortRequest
INVARIANT FailedPageAborts
