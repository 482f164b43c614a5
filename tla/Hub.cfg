SPECIFICATION FairSpec
CONSTANTS
    c1 = c1
    c2 = c2
    u1 = u1
    u2 = u2
    Clients = {c1, c2}
    Users = {u1, u2}
    UserOf <- MCUserOf
    Capacity = 2
    QueueSize = 1
    MaxDrops = 2
INVARIANTS TypeOK HubSurvives ServedOrClosed
PROPERTIES DeadIsRemoved DroppedIsClosed
