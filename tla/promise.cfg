SPECIFICATION Spec
CHECK_DEADLOCK FALSE
ACTION_CONSTRAINT OneSettingAtATime
CONSTANTS
    o1 = o1  o2 = o2  s1 = s1  t1 = t1  t2 = t2  m1 = m1
    m2 = m2  k1 = k1  k2 = k2  h1 = h1  h2 = h2
    Address = {o1, o2}
    EventType = {t1}
    LongType = {}
    Handle = {h1}
    Metadata = {m1, m2}
    SizeOf <- SizeByName
    Category = {"general"}
    CustomKey = {k1}
    OwnerLists <- OneOwner
    InitialMaxLogs = 2
    InitialMaxSize = 2
    NonceWindow = 2
    NonceMax = 3
    MaxDrift = 1
    Calls = {"log_event", "log_event_with_custom_key", "log_event_signed",
             "log_event_with_nonce", "log_events",
             "set_submitter_nonce_config",
             "reset_submitter_nonce", "set_default_nonce_config",
             "update_event", "rollback_event", "create_snapshot",
             "cleanup_stale_hashes",
             "cleanup_stale_dedup_entries", "pause", "unpause",
             "enable_allowlist_mode", "disable_allowlist_mode",
             "set_low_cost_mode", "block_submitter",
             "unblock_submitter", "allow_submitter",
             "remove_submitter_from_allowlist",
             "set_global_max_logs", "set_metadata_max_size",
             "set_submitter_rate_limit", "compact_storage",
             "set_dedup_policy", "set_event_max_logs",
             "remove_event_cap", "set_event_metadata_max_size",
             "set_metadata_schema", "set_dedup_policy_for_type",
             "set_required_signatures", "enable_rbac",
             "transfer_ownership", "add_owner", "remove_owner",
             "set_role", "submit_proposal", "approve_proposal",
             "execute_proposal"}
    LogLimit = {1}
    SizeLimit = {1}
    Nonce = {1}
    Ttl = {0}
    ProposalActions <- SomeActions
    Batches <- PairBatch
    MaxTime = 1
    MaxVersions = 3
    MaxSnapshots = 2
    MaxProposals = 1
PROPERTIES
    ImplementsAmendableLog
