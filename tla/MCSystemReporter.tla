--------------------------- MODULE MCSystemReporter ---------------------------
EXTENDS SystemReporter

\* c_int scaled to 8 bits (max 127) and u64 to 12 bits.
MCMallinfoVals == {0, 60, 100}
\* An unreadable file, an empty one, a short one, one with a bad word.
MCStatmFiles == {Unreadable, <<>>, <<3>>, <<Junk, 2>>, <<3, 2>>}
MCSegLists == {<<>>, << <<"resident-according-to-smaps", 9>>, <<"other", 9>> >>}
=============================================================================
