--------------------------- MODULE MCSmapsParser ---------------------------
EXTENDS SmapsParser

\* An anonymous mapping, a thread-stack marker and a library.
MCPaths == {"", "[stack:1234]", "/lib/a.so"}
MCAnonPaths == {"", "[stack:1234]"}
MCPerms == {"rw-p", "r-xp"}
\* Zero, both sides of the 512 KiB threshold, and a large segment.
MCRssKB == {0, 511, 512, 1024}
=============================================================================
