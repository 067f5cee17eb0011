SPECIFICATION Spec
CONSTANTS
    Plain = {"reopen", "duplicate"}
    MaxSerial = 4
    MaxLoads = 0
PROPERTY OnlyClosedTabsGo
