\* /proc/self/smaps that may not open (no procfs, or a sandbox denying
\* it), and files of one mapping otherwise; the scan is weakly fair.
CONSTANTS
    Paths <- MCPaths
    AnonPaths <- MCAnonPaths
    Perms <- MCPerms
    RssKB <- MCRssKB
    Readable = {TRUE}
    Openable = {TRUE, FALSE}
    MaxSegs = 1
SPECIFICATION FairSpec
PROPERTY ScanReturns
