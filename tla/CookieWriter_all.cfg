\* Three changes to the jar, two crashes, every failure of every file operation.
CONSTANTS
    MaxRev = 3
    MaxCrashes = 2
SPECIFICATION FairSpec
INVARIANTS
    AckedSurvivesCrash
    PlainRemovedOnlyWhenSealed
    NoLostWakeup
PROPERTIES
    ImplementsPromise
    FlushAnswers
    WantedIsWritten
