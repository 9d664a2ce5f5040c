\* Two downloads, one archive of the crawler, one compaction, one crash.  The behaviour ends when they are served.
CONSTANTS
    Calls = {c1, c2}
    Crawler = crawler
    MaxVersion = 1
    MaxArchives = 1
    MaxCrashes = 1
SPECIFICATION Spec
INVARIANTS TypeOK BadDownloadHasCause
CHECK_DEADLOCK FALSE
SYMMETRY AnyCall
