\* Two clients, no timer: one client sends Exit, the other sends after the
\* actor has gone.
CONSTANTS
    c1 = c1
    c2 = c2
    system = system
    a = a
    NoName = NoName
    Clients <- MCClients
    Names <- MCNames
    SystemName <- system
    Kinds = {"sync"}
    HasTimer = FALSE
    MaxSends = 2
    MaxQueue = 2
SPECIFICATION Spec
INVARIANT NoCrashWithoutMisuse
