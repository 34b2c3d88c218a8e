SPECIFICATION MCSpec
CHECK_DEADLOCK FALSE
SYMMETRY MCSymmetry
CONSTANTS
    Account = {a1, a2}
    Label = {l1}
    Amount = {1, 2}
    Day = 1
    MaxClock = 4
    MaxRecords = 2
    ComplianceStandard = {"iso"}
    Product = {"p"}
    EmptyProduct = "e"
    Content <- MCContent
    Brand = {"b"}
    Sku = {"s"}
    Lot = {"t"}
    Framework = {"GRI", "SASB", "TCFD"}
    Region = {"east", "west"}
    TimelineCap = 3
    RingSize = 2
    Tenant = {"x", "y"}
    TenantType = {"t1", "t2"}
    NotificationWindow = 1
    RateScale = 2
    QueueSize = 2
    MaxCbdcLog = 2
    Power = {0, 1}
    MaxDelegated = 2
    MaxCases = 1
    Liquidity = {3}
    MaxShares = 3
    AssetType = {"cash", "bills"}
    MaxReserve = 2
    MaxDays = 2
    MaxApplied = 3
    MaxSandboxTx = 11
    MaxInspections = 1
    Frequency = 1
    Severity = {3, 11}
    AckTimeout = 1
    MaxSupervisors = 1
    MaxRetries = 2
    MaxTrail = 5
    RetryDelay = 1
    TaxAmount = {0, 1, 99, 100, 12345}
    Unit = 1000000
    Bit = {0, 1}
    Text <- MCText
    LengthOf <- MCLength
    CutOf <- MCCut
    TokenBuffer = 2
    MinKeyword = 2
    StopWord = {"or"}
    IndexConfig <- MCIndexConfig
    BucketMax = 2
    LicenseTerm = {0, 1}
    MaxFractions = 3
    Price = {96, 100, 108}
    Confidence = {3}
    Reputation = {0, 1, 3}
    StalenessWindow = 1
    FutureDrift = 1
    MaxPending = 3
    MaxPriceHistory = 1
    MaxSubmissions = 2
    ReindexBatch = 1
    BaseScore = 2
    TierThreshold <- MCTierThreshold
    ReviewWeight = 1
    DisputeWeight = 2
    CompliancePenalty = 3
    Foci = {"carbon", "passport", "chain", "esg", "regions", "runbook", "incident",
            "finops", "capacity", "tenants", "catalog", "analytics", "breaches", "tax",
            "evidence", "reporting", "cbdc", "transfers", "masking", "sandbox", "trial",
            "graduation", "feeds", "supervision", "filing", "wire", "dao", "treasury",
            "jury", "market", "oracle", "insurance", "bridge", "reserve",
            "keywords", "nft", "rwa", "reputation"}
    Timed = {"carbon", "finops", "capacity", "tenants", "catalog", "breaches",
             "reporting", "masking", "sandbox", "trial", "feeds", "supervision", "wire",
             "dao", "jury", "market", "oracle", "insurance", "bridge", "reserve", "nft", "rwa"}
INVARIANTS
    PlatformTypeOK
    SustainabilitySound
    OperationsSound
    CostsAttributed
    
    
    
    
    
PROPERTIES
    OfflineOutcomesFinal
