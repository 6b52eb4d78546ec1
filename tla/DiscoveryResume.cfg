\* One run at a time, stopped, failing, hit by signals and resumed.
\* The system rests when every crawl has completed.
CHECK_DEADLOCK FALSE
SPECIFICATION FairSpec
CONSTANTS
    r1 = r1
    Runs <- OneRun
    Urls <- MCUrls
    Site <- MCSite
    Faults <- Fault
    MaxFaults = 2
    MaxJobs = 2
INVARIANTS
    NothingIsSkipped
    CountersAreBacked
PROPERTIES
    CrawlCompletes
