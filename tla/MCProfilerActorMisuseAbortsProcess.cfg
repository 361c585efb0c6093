\* A duplicate Register panics the actor thread; the timer and the clients
\* are still there.
CONSTANTS
    c1 = c1
    c2 = c2
    system = system
    a = a
    NoName = NoName
    Clients <- MCClients
    Names <- MCNames
    SystemName <- system
    Kinds = {"sync"}
    HasTimer = TRUE
    MaxSends = 2
    MaxQueue = 2
SPECIFICATION Spec
INVARIANT MisuseAbortsProcess
