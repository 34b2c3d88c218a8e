SPECIFICATION WorkloadSpec
CHECK_DEADLOCK FALSE
CONSTANTS
    o1 = o1  o2 = o2  s1 = s1  t1 = t1  t2 = t2  m1 = m1
    m2 = m2  k1 = k1  k2 = k2  h1 = h1  h2 = h2
    Address = {o1}
    EventType = {t1, t2}
    LongType = {}
    Handle = {h1}
    Metadata = {m1, m2}
    SizeOf <- SizeByName
    Category = {"general"}
    CustomKey = {k1}
    OwnerLists <- OneOwner
    InitialMaxLogs = 2
    InitialMaxSize = 2
    NonceWindow = 2
    NonceMax = 3
    MaxDrift = 1
    Calls = {"log_event_with_custom_key", "log_events", "update_event",
             "set_event_max_logs", "remove_event_cap", "set_global_max_logs",
             "set_low_cost_mode", "compact_storage", "set_dedup_policy",
             "set_dedup_policy_for_type", "cleanup_stale_hashes",
             "cleanup_stale_dedup_entries"}
    Workloads = {"caps", "policies"}
    LogLimit = {1, 2}
    SizeLimit = {}
    Nonce = {}
    Ttl = {}
    ProposalActions = {}
    Batches <- MixedBatch
    MaxTime = 1
    MaxVersions = 2
    MaxSnapshots = 0
    MaxProposals = 0
INVARIANTS
    WithinGlobalMax
    IndexSound
    DedupSound
    QueriesAgree
PROPERTIES
    CapRespected
