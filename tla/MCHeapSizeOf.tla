----------------------------- MODULE MCHeapSizeOf -----------------------------
EXTENDS HeapSizeOf

\* Usable sizes per kind of block, all different so a swapped block shows.
MCBlockSize == [node |-> 32, str |-> 16, box |-> 8, buf |-> 48]
=============================================================================
