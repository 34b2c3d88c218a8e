SPECIFICATION Spec
CHECK_DEADLOCK FALSE
CONSTANTS
    o1 = o1  o2 = o2  s1 = s1  t1 = t1  t2 = t2  m1 = m1
    m2 = m2  k1 = k1  k2 = k2  h1 = h1  h2 = h2
    Address = {o1}
    EventType = {t1}
    LongType = {}
    Handle = {h1}
    Metadata = {m1, m2}
    SizeOf <- SizeByName
    Category = {"general"}
    CustomKey = {}
    OwnerLists <- OneOwner
    InitialMaxLogs = 3
    InitialMaxSize = 2
    NonceWindow = 2
    NonceMax = 3
    MaxDrift = 1
    Calls = {"pause", "log_event", "log_events"}
    LogLimit = {}
    SizeLimit = {}
    Nonce = {}
    Ttl = {}
    ProposalActions = {}
    Batches <- SingleBatch
    MaxTime = 1
    MaxVersions = 3
    MaxSnapshots = 0
    MaxProposals = 0
PROPERTIES
    PausedLogsNothing
