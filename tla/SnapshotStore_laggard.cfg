CONSTANTS
    StreamCount = 1
    Streams <- MCStreams
    MaxVersion = 3
SPECIFICATION Spec
INVARIANT LaggardMissesOnlyIntermediate
