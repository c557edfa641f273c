SPECIFICATION FairSpec
CONSTANTS
    w1 = w1
    w2 = w2
    h1 = h1
    h2 = h2
    c1 = c1
    c2 = c2
    NoHost = NoHost
    NoConn = NoConn
    Workers <- MCWorkers
    Hosts <- MCHosts
    Conns <- MCConns
    ConfiguredLimits <- MCLimits
    MaxIdle = 1
    IdleExpires = TRUE
INVARIANTS
    TypeOK
    TokensAccounted
    SessionsExclusive
    NoSessionLost
    SocketBound
    ClosedLeavesNoSocket
PROPERTIES
    NoStaleReuse
    LeaseSpec
    GetReturns
    ClosedQuiesces
