SPECIFICATION WorkloadSpec
CHECK_DEADLOCK FALSE
CONSTANTS
    o1 = o1  o2 = o2  s1 = s1  t1 = t1  t2 = t2  m1 = m1
    m2 = m2  k1 = k1  k2 = k2  h1 = h1  h2 = h2
    Address = {o1, o2}
    EventType = {t1}
    LongType = {}
    Handle = {h1}
    Metadata = {m1, m2}
    SizeOf <- SizeByName
    Category = {"general"}
    CustomKey = {}
    OwnerLists <- EitherOwners
    InitialMaxLogs = 1
    InitialMaxSize = 2
    NonceWindow = 2
    NonceMax = 3
    MaxDrift = 1
    Calls = {"add_owner", "remove_owner", "transfer_ownership",
             "set_required_signatures", "submit_proposal",
             "approve_proposal", "execute_proposal", "update_event",
             "log_event", "pause", "unpause", "block_submitter",
             "unblock_submitter", "enable_allowlist_mode",
             "disable_allowlist_mode", "allow_submitter",
             "remove_submitter_from_allowlist", "set_role", "enable_rbac",
             "set_submitter_rate_limit"}
    Workloads = {"proposals", "admission"}
    LogLimit = {0, 1, 2}
    SizeLimit = {}
    Nonce = {}
    Ttl = {0}
    ProposalActions <- AnyAction
    Batches = {}
    MaxTime = 1
    MaxVersions = 3
    MaxSnapshots = 0
    MaxProposals = 1
PROPERTIES
    ExecutionNeedsQuorum
    ChangesLeaveTrace
    AdmissionEnforced
