\* Files of up to three mappings, some headers unreadable: the scan agrees
\* with the reference grouping of the readable ones and is sorted.
CONSTANTS
    Paths <- MCPaths
    AnonPaths <- MCAnonPaths
    Perms <- MCPerms
    RssKB <- MCRssKB
    Readable = {TRUE, FALSE}
    Openable = {TRUE}
    MaxSegs = 3
SPECIFICATION Spec
INVARIANT TypeOK
INVARIANT ParsesToReference
