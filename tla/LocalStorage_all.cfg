SPECIFICATION FairSpec
CONSTANTS
    Doc = {1, 2}
    Origin = {o1, o2}
    Writer = {w1, w2}
    Owner = Owner
    LogRoom = 2
    MaxChanges = 3
    MaxOpens = 2
    MaxFailures = 1
    MaxRuns = 1
    Short = Short
    Mixed = Mixed
    None = None
INVARIANTS TornOnlyByTwo OthersAreTold
PROPERTIES SavedInTheEnd
