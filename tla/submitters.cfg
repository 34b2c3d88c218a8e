SPECIFICATION Spec
CHECK_DEADLOCK FALSE
CONSTANTS
    o1 = o1  o2 = o2  s1 = s1  t1 = t1  t2 = t2  m1 = m1
    m2 = m2  k1 = k1  k2 = k2  h1 = h1  h2 = h2
    Address = {o1}
    EventType = {t1}
    LongType = {}
    Handle = {h1}
    Metadata = {m1, m2}
    SizeOf <- SizeByName
    Category = {"general"}
    CustomKey = {}
    OwnerLists <- OneOwner
    InitialMaxLogs = 2
    InitialMaxSize = 2
    NonceWindow = 2
    NonceMax = 2
    MaxDrift = 1
    Calls = {"log_event_signed", "log_event_with_nonce",
             "reset_submitter_nonce", "set_submitter_nonce_config",
             "set_default_nonce_config", "set_submitter_rate_limit",
             "set_metadata_max_size", "set_event_metadata_max_size",
             "set_metadata_schema"}
    LogLimit = {1}
    SizeLimit = {1}
    Nonce = {1, 2}
    Ttl = {}
    ProposalActions = {}
    Batches = {}
    MaxTime = 1
    MaxVersions = 3
    MaxSnapshots = 0
    MaxProposals = 0
INVARIANTS
    NoDuplicateContent

    
