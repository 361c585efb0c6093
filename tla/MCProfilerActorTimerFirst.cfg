\* With a timer: the timer thread is spawned before create() sends
\* Register("system"), so its first Print can be handled before it.
CONSTANTS
    c1 = c1
    c2 = c2
    system = system
    a = a
    NoName = NoName
    Clients <- MCClients
    Names <- MCNames
    SystemName <- system
    Kinds = {"sync"}
    HasTimer = TRUE
    MaxSends = 2
    MaxQueue = 2
SPECIFICATION Spec
INVARIANT EveryPrintSeesSystem
