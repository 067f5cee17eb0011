SPECIFICATION HistorySpec
CONSTANTS
    a1 = a1
    a2 = a2
    b1 = b1
    downloads = downloads
    a = a
    b = b
    browser = browser
    Address = {a1, a2, b1, downloads}
    OriginOf <- MCOrigin
    System = {downloads}
    Redirects <- MCRedirects
    Limit = 2
    Patient = TRUE
    MaxActs = 7
    None = None
INVARIANT ListsAgree
