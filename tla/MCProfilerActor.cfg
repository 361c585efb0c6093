\* Two clients, one client reporter name besides "system", every reporter
\* behaviour, no timer: protocol safety, refinement and termination.
CONSTANTS
    c1 = c1
    c2 = c2
    system = system
    a = a
    NoName = NoName
    Clients <- MCClients
    Names <- MCNames
    SystemName <- system
    Kinds = {"sync", "fail", "async"}
    HasTimer = FALSE
    MaxSends = 4
    MaxQueue = 2
SPECIFICATION Spec
INVARIANT TypeOK
INVARIANT PrintSeesSendOrder
INVARIANT FailureIsolation
INVARIANT ClientPrintSeesSystem
PROPERTY ImplementsAtomic
PROPERTY ExitStopsThreads
PROPERTY AbandonedProfilerStops
