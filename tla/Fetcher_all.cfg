\* Two requests are enough for every limit, each set to its smallest: they
\* contend for one permit, every launch sweeps the table of lanes, the second
\* held fails the first and the second exchange takes the first one's place.
SPECIFICATION FairSpec
CONSTANTS
    Hosts = {"a", "b"}
    Permits = 1
    IdleLanes = 0
    HeldLimit = 1
    ExchangeLimit = 1
    MaxRequests = 2
INVARIANTS
    OnePlace
    NobodyWaitsInVain
    ReplyAnnounced
    LaneLimit
    QuietAfterShutdown
PROPERTIES
    NoStartInTeardown
    Answered
