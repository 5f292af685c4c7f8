SPECIFICATION Spec
CONSTANTS
    NStreams = 1
    Concurrency = 2
    MaxPages = 2
    MaxPageBytes = 2
    StreamBufferBytes = 4
    BufferBytes = 4
    MaxInflight = 2
    MaxPageNo = 3
    MaxReads = 3
    Cancellers = {1}
    Messages <- AllMessages
    Requests <- BothRequests
INVARIANTS TypeOK PipelineInv AnsweredOnceAfterStart OkAnswersEveryPage TrailerTellsTheCounts AbortedWasExplained HaltHasACause MetricsCountStreams
PROPERTY NoPushAfterClose
