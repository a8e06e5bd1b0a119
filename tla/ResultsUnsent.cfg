SPECIFICATION ChatSpec
CONSTANTS
    Parts = {"turn"}
    Breakers = {0, 3}
    FitLimit = 3
    MaxCalls = 2
    MaxSteps = 4
    Callers = {c1, c2}
    Configured <- ModelEntries
    Cooloff = 2
    None = none
    Sizes = {1, 3, 5}
    max_claims = 4
    batch_size = 2
    Orgs = {o1, o2}
    Lookups = {l1, l2}
    Burst = 2
    Rate = 1
    TTL = 2
    Latency = 1
    MaxNow = 4
    MaxNodes = 5
    MaxRuns = 4
    NoValue = nothing
    Urls <- Web
    HostOf <- WebHosts
    DomainOf <- WebDomains
    Links <- WebLinks
    Redirect <- WebRedirects
    Locs <- WebSitemaps
    Disallowed = {4}
    Rejected = {6}
    Relevance <- WebRelevance
    Seeds = {1, 6}
    Caps <- CrawlCaps
    BudgetPerRequest = 2
    NoCrawl = nocrawl
CHECK_DEADLOCK FALSE
INVARIANT ResultsReachTheModel
