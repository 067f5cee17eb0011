SPECIFICATION JarSpec
CONSTANTS
    Names = {"a"}
    Values = {1}
    Hosts <- MCHosts
    Covers <- MCCovers
    SiteOf <- MCSiteOf
    Lifetimes = {1}
    PerDomains = {1, 2}
    Total = 2
    Legacy <- MCNoLegacy
    MaxTime = 2
    MaxRevision = 5
    MaxStarts = 1
INVARIANTS NothingKeptIsUnsaved RemovedStaysRemoved OneCookiePerIdentity
PROPERTIES NoisyDomainEvictsItself
