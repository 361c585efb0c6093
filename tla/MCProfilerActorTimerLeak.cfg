\* With a timer: the timer's Sender keeps the channel open, so dropping
\* every client handle does not end the actor.
CONSTANTS
    c1 = c1
    c2 = c2
    system = system
    a = a
    NoName = NoName
    Clients <- MCClients
    Names <- MCNames
    SystemName <- system
    Kinds = {"sync"}
    HasTimer = TRUE
    MaxSends = 2
    MaxQueue = 2
SPECIFICATION Spec
PROPERTY AbandonedProfilerStops
