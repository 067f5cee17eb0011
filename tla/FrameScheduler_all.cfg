SPECIFICATION FairSpec
CONSTANTS
    MaxDropped = 1
    MaxVersions = 2
    MaxFlips = 3
    MaxDrops = 2
    None = None
INVARIANTS OwedIsCarried DamageIsKeptUntilShown
PROPERTIES ScreenCatchesUp
