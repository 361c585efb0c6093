-------------------------- MODULE MCProfilerActor --------------------------
EXTENDS ProfilerActor, TLC

CONSTANTS c1, c2, system, a

MCClients == {c1, c2}
MCNames == {system, a}
=============================================================================
