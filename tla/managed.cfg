SPECIFICATION MCSpec
CHECK_DEADLOCK FALSE
CONSTANTS
    o1 = o1  s1 = s1  t1 = t1  m1 = m1  m2 = m2  m3 = m3  h1 = h1
    f1 = f1  f2 = f2  d1 = d1  d2 = d2  d3 = d3
    Address = {o1}
    EventType = {t1}
    LongType = {}
    Handle = {h1}
    Metadata = {m1, m2, m3}
    SizeOf <- MCSize
    BytesOf <- MCBytes
    ByteBase = 3
    MaxSample = 6
    Category = {"general", "operational"}
    CustomKey = {}
    OwnerLists <- MCOwners
    InitialMaxLogs = 2
    InitialMaxSize = 4
    NonceWindow = 2
    NonceMax = 3
    MaxDrift = 2
    Calls = {"log_events", "update_event", "rollback_event",
             "set_archive_config", "archive_events", "purge_archived_events",
             "set_retention_policy", "set_default_retention_days", "request_erasure",
             "process_erasure_request", "run_retention_sweep", "log_operational_action",
             "add_ops_recorder", "remove_ops_recorder", "place_legal_hold",
             "release_legal_hold", "grant_compliance_exception",
             "revoke_compliance_exception", "tag_event_version", "set_event_ttl",
             "cleanup_expired_events", "register_schema", "migrate_event_metadata",
             "register_webhook", "unregister_webhook", "get_event", "log_event_signed"}
    LogLimit = {}
    SizeLimit = {}
    Nonce = {}
    Ttl = {}
    ProposalActions = {}
    Batches <- MCBatches
    MaxTime = 2
    MaxVersions = 3
    MaxSnapshots = 0
    MaxProposals = 0
    NoMetadata = m1
    RetentionDays = {0, 1}
    MaxRequests = 2
    Tag = {"approved"}
    SchemaFormat = {"JsonSchemaDraft7"}
    Definition = {d1, d2, d3}
    RequiredOf <- MCRequired
    Url = {"a"}
    TtlLedgers = {1}
    MaxHooks = 1
    MaxSchema = 2
    MaxCount = 1
    Profiles = {"archive", "erasure", "sweep", "tags", "schemas", "ttl", "codec"}
INVARIANTS
    
    ArchiveBooksBalance
    CursorSkipsNothing
    ErasureVerifiable
    TagsStayReadable
    SchemasListed
    
PROPERTIES
    ErasuresSanctioned
