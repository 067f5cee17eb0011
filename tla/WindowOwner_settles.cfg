\* With tabs that the owner opens on its own; every input counts, so three are
\* a duplicate or a navigation and two more steps of the reader.
SPECIFICATION FairSpec
CONSTANTS
    Plain = {"reopen", "duplicate"}
    MaxSerial = 3
    MaxLoads = 1
INVARIANTS OldSceneStaysAway SettledAgree
PROPERTY Acknowledged
