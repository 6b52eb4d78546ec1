\* Both clients, one after the other: five redirects in each of three or four
\* attempts, a robots.txt that asks for a longer delay than configured.
SPECIFICATION HttpFairSpec
CONSTANTS
    Urls <- MCUrls
    RobotsUrl = "robots"
    OnHost <- MCOnHost
    Denied = {"denied"}
    MinDelay = 2
    CrawlDelay = 3
    MaxRetries = 3
    MaxRedirects = 5
INVARIANTS
    OnlyPermittedIsFetched
    AttemptsStartOver
PROPERTIES
    FetchesAreSpaced
    EveryRequestEnds
