SPECIFICATION FairSpec
CONSTANTS
    Clients = {c1, c2}
    Keys = {k1, k2}
    Shards = {s1, s2}
    ShardOf <- MCShardOf
    Conns = {b1, b2, b3}
    MaxIdle = 1
    MaxItems <- MCMaxItems
    Sends <- MCSends
    NoConn = NoConn
    c1 = c1
    c2 = c2
    k1 = k1
    k2 = k2
    s1 = s1
    s2 = s2
    b1 = b1
    b2 = b2
    b3 = b3
INVARIANTS TypeOK PoolIsClean NothingWithheld
PROPERTIES ImplementsCache Answered
CHECK_DEADLOCK FALSE
