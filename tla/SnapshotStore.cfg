\* One stream: streams share nothing but the poller, which serves each of them
\* from the same FanOut.  Three versions: one on the screen, one in the channel,
\* one dropped; the third stands for all later ones too.
CONSTANTS
    StreamCount = 1
    Streams <- MCStreams
    MaxVersion = 3
SPECIFICATION FairSpec
INVARIANTS
    TypeOK
    InOrder
    NoSubscriptionLeak
    SnapshotFileWhole
    NeverBlocked
PROPERTIES
    ImplementsFeed
    NewsArrives
