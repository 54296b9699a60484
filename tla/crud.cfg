SPECIFICATION Spec
CONSTANTS
    d1 = d1
    d2 = d2
    k1 = k1
    k2 = k2
    k3 = k3
    owner = owner
    padded = padded
    writer = writer
    node = node
    s1 = s1
    s2 = s2
    KeySize = 1
    MaxValueSize = 8
    Dbs = {d1, d2}
    Keys = {k1, k2, k3}
    Callers = {owner, padded, writer, node}
    Sessions = {s1, s2}
    Trimmed <- MCTrimmed
    Peers = {node}
    Self = node
    SwarmOwner = {}
    MaxSwarmStorage = 6
    SizeWord = 16
    Workloads <- MCWorkloads
    MaxTime = 2
    MaxNotifications = 2
INVARIANT TypeOK
INVARIANT SizeExact
INVARIANT SwarmStorageBound
INVARIANT NothingLeftBehind
INVARIANT SubscribersCurrent
PROPERTY WithinLimit
PROPERTY ExpiredRemoved
PROPERTY ImplementsKeyValue
