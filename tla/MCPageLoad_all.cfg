SPECIFICATION FairSpec
CONSTANTS
    Shapes <- MCShapes
    MaxLoads = 2
    MaxFetches = 1
INVARIANTS ArrivedScriptsRan ScriptsSeeStyle CutAtALostScript
PROPERTIES PictureStaysWithItsDocument LoadEnds
