\* Every stream of up to three frames, cut into reads of three sizes.
CONSTANTS
    Streams <- MCStreams
    Chunks = {5, 14, 40}
    kMaxMessageLen = 20
    kCheapPrepend = 8
    kInitialSize = 8
    kExtraSize = 16
    MaxFrames = 3
SPECIFICATION FairCodecSpec
INVARIANTS BufferHoldsStream ChunkingDoesNotMatter ClosesForDamage
PROPERTY StreamIsRead
\* The stream ends.
CHECK_DEADLOCK FALSE
