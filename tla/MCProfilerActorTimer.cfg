\* With a timer thread sending Print: send order and client prints still
\* hold, and Exit still stops both threads.
CONSTANTS
    c1 = c1
    c2 = c2
    system = system
    a = a
    NoName = NoName
    Clients <- MCClients
    Names <- MCNames
    SystemName <- system
    Kinds = {"sync", "fail", "async"}
    HasTimer = TRUE
    MaxSends = 3
    MaxQueue = 1
SPECIFICATION Spec
INVARIANT PrintSeesSendOrder
INVARIANT ClientPrintSeesSystem
PROPERTY ExitStopsThreads
PROPERTY ImplementsAtomic
