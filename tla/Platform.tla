------------------------------ MODULE Platform ------------------------------
(* The domain modules of the contract side by side. Most are declared in     *)
(* src/src/lib.rs; the organisation, market, insurance, bridge, reserve,     *)
(* index, provenance, price and reputation files lie beside them in src/src  *)
(* and use the same storage. Each keeps its records under its own keys and   *)
(* they share the ledger's clock. A step is one call of one of them.         *)
EXTENDS CarbonCredits, DigitalPassport, SupplyChain, RegionFailover,
        IncidentResponse, FinOps, TenantLedger, DataPrivacy, TaxRules,
        RegulatorEvidence, RegulatoryReports, CbdcRails, Sandbox, SupTech,
        DaoGovernance, Markets, StablecoinReserves, KeywordIndex,
        NftProvenance, RwaOracle, Reputation

records ==
    <<carbon, passport, chain, esg, regions, runbook, incident, finops,
      capacity, tenants, catalog, analytics, breaches, taxCase, evidence,
      reporting, cbdc, transfers, masking, sandbox, trial, graduation,
      feeds, supervision, filing, wire, dao, treasury, jury, market, oracle,
      insurance, bridge, reserve, keywords, nft, rwa, reputation>>

platformVars == <<clock, records>>

Part ==
    {"carbon", "passport", "chain", "esg", "regions", "runbook", "incident",
     "finops", "capacity", "tenants", "catalog", "analytics", "breaches",
     "tax", "evidence", "reporting", "cbdc", "transfers", "masking",
     "sandbox", "trial", "graduation", "feeds", "supervision", "filing",
     "wire", "dao", "treasury", "jury", "market", "oracle", "insurance",
     "bridge", "reserve", "keywords", "nft", "rwa",
     "reputation"}

PlatformInit ==
    /\ clock = 1
    /\ CarbonInit /\ PassportInit /\ ChainInit
    /\ EsgInit /\ RegionsInit /\ RunbookInit
    /\ IncidentInit /\ FinOpsInit /\ CapacityInit
    /\ TenantInit /\ CatalogInit /\ AnalyticsInit
    /\ BreachInit /\ TaxInit /\ EvidenceInit
    /\ ReportingInit /\ CbdcInit /\ TransferInit
    /\ MaskingInit /\ SandboxInit /\ TrialInit
    /\ GraduationInit /\ FeedsInit /\ SupervisionInit
    /\ FilingInit /\ WireInit /\ DaoInit
    /\ TreasuryInit /\ JuryInit /\ MarketInit
    /\ OracleInit /\ InsuranceInit /\ BridgeInit
    /\ ReserveInit /\ KeywordInit /\ NftInit
    /\ RwaInit /\ ReputationInit

(* A call of one part,                                                       *)
PartNext(part) ==
    \/ part = "carbon" /\ CarbonNext
    \/ part = "passport" /\ PassportNext
    \/ part = "chain" /\ ChainNext
    \/ part = "esg" /\ EsgNext
    \/ part = "regions" /\ RegionsNext
    \/ part = "runbook" /\ RunbookNext
    \/ part = "incident" /\ IncidentNext
    \/ part = "finops" /\ FinOpsNext
    \/ part = "capacity" /\ CapacityNext
    \/ part = "tenants" /\ TenantNext
    \/ part = "catalog" /\ CatalogNext
    \/ part = "analytics" /\ AnalyticsNext
    \/ part = "breaches" /\ BreachNext
    \/ part = "tax" /\ TaxNext
    \/ part = "evidence" /\ EvidenceNext
    \/ part = "reporting" /\ ReportingNext
    \/ part = "cbdc" /\ CbdcNext
    \/ part = "transfers" /\ TransferNext
    \/ part = "masking" /\ MaskingNext
    \/ part = "sandbox" /\ SandboxNext
    \/ part = "trial" /\ TrialNext
    \/ part = "graduation" /\ GraduationNext
    \/ part = "feeds" /\ FeedsNext
    \/ part = "supervision" /\ SupervisionNext
    \/ part = "filing" /\ FilingNext
    \/ part = "wire" /\ WireNext
    \/ part = "dao" /\ DaoNext
    \/ part = "treasury" /\ TreasuryNext
    \/ part = "jury" /\ JuryNext
    \/ part = "market" /\ MarketNext
    \/ part = "oracle" /\ OracleNext
    \/ part = "insurance" /\ InsuranceNext
    \/ part = "bridge" /\ BridgeNext
    \/ part = "reserve" /\ ReserveNext
    \/ part = "keywords" /\ KeywordNext
    \/ part = "nft" /\ NftNext
    \/ part = "rwa" /\ RwaNext
    \/ part = "reputation" /\ ReputationNext

(* which leaves the records of every other alone.                            *)
OthersKept(part) ==
    /\ part # "carbon" => UNCHANGED carbon
    /\ part # "passport" => UNCHANGED passport
    /\ part # "chain" => UNCHANGED chain
    /\ part # "esg" => UNCHANGED esg
    /\ part # "regions" => UNCHANGED regions
    /\ part # "runbook" => UNCHANGED runbook
    /\ part # "incident" => UNCHANGED incident
    /\ part # "finops" => UNCHANGED finops
    /\ part # "capacity" => UNCHANGED capacity
    /\ part # "tenants" => UNCHANGED tenants
    /\ part # "catalog" => UNCHANGED catalog
    /\ part # "analytics" => UNCHANGED analytics
    /\ part # "breaches" => UNCHANGED breaches
    /\ part # "tax" => UNCHANGED taxCase
    /\ part # "evidence" => UNCHANGED evidence
    /\ part # "reporting" => UNCHANGED reporting
    /\ part # "cbdc" => UNCHANGED cbdc
    /\ part # "transfers" => UNCHANGED transfers
    /\ part # "masking" => UNCHANGED masking
    /\ part # "sandbox" => UNCHANGED sandbox
    /\ part # "trial" => UNCHANGED trial
    /\ part # "graduation" => UNCHANGED graduation
    /\ part # "feeds" => UNCHANGED feeds
    /\ part # "supervision" => UNCHANGED supervision
    /\ part # "filing" => UNCHANGED filing
    /\ part # "wire" => UNCHANGED wire
    /\ part # "dao" => UNCHANGED dao
    /\ part # "treasury" => UNCHANGED treasury
    /\ part # "jury" => UNCHANGED jury
    /\ part # "market" => UNCHANGED market
    /\ part # "oracle" => UNCHANGED oracle
    /\ part # "insurance" => UNCHANGED insurance
    /\ part # "bridge" => UNCHANGED bridge
    /\ part # "reserve" => UNCHANGED reserve
    /\ part # "keywords" => UNCHANGED keywords
    /\ part # "nft" => UNCHANGED nft
    /\ part # "rwa" => UNCHANGED rwa
    /\ part # "reputation" => UNCHANGED reputation

Call(part) == PartNext(part) /\ OthersKept(part) /\ UNCHANGED clock

(* A ledger closes later than the one before it.                             *)
Tick ==
    /\ clock < MaxClock
    /\ clock' = clock + 1
    /\ UNCHANGED records

PlatformNext == Tick \/ \E part \in Part : Call(part)

PlatformSpec == PlatformInit /\ [][PlatformNext]_platformVars

(* The records of every part have the types of the code's structures.        *)
PlatformTypeOK ==
    /\ clock \in 1..MaxClock
    /\ CarbonTypeOK /\ PassportTypeOK /\ SupplyTypeOK
    /\ RegionsTypeOK /\ RunbookTypeOK /\ IncidentTypeOK /\ OperatingCostTypeOK
    /\ TenantTypeOK /\ PrivacyTypeOK /\ ReportingTypeOK
    /\ CbdcTypeOK /\ SandboxTypeOK /\ SupTechTypeOK
    /\ DaoTypeOK /\ MarketsTypeOK /\ ReserveTypeOK /\ KeywordTypeOK
    /\ NftTypeOK /\ RwaTypeOK /\ ReputationTypeOK

-----------------------------------------------------------------------------
(* Sustainability (carbon_credits.rs, digital_passport.rs, supply_chain.rs,  *)
(* esg_reporting.rs): retirements are covered by the published totals, no    *)
(* product's life has a gap, and every supply record leads to its brand,     *)
(* lot or report.                                                            *)
SustainabilitySound == RetirementsCovered /\ LifecycleTraced /\ SupplyRecordsSound

(* Operations (multi_region.rs, runbook_automation.rs,                       *)
(* incident_management.rs): the configured primary region is one, rehearsed  *)
(* runbooks change nothing, and incidents and their timelines are accounted  *)
(* for whatever order responders act in.                                     *)
OperationsSound == PrimaryConfirmed /\ RehearsalsHarmless /\ IncidentsAccounted

(* Reporting (tax.rs, vat_engine.rs, tax_engines.rs, data_sharing.rs,        *)
(* disclosure.rs, tamper_evidence.rs, submission_tracker.rs,                 *)
(* reporting_audit_trail.rs, inverted_index.rs): the figures reported agree  *)
(* with the sums they come from, the evidence with what it is evidence of,   *)
(* and a report's trail with the report; the keyword index finds an event    *)
(* once and only under keywords kept for its removal.                        *)
ReportingSound ==
    TaxFiguresSound /\ EvidenceConsistent /\ ReportsTraceable /\ KeywordsAccounted

(* Supervised finance (cbdc_offline.rs, cbdc_logging.rs, sandbox_mgmt.rs,    *)
(* sandbox_env.rs, suptech_feeds.rs, suptech_rules.rs): no offline money     *)
(* counts twice, no sandbox leaves its limits, and supervisors see each      *)
(* point, rule, result and acknowledgment as it was given.                   *)
SupervisedFinanceSound == CbdcSound /\ SandboxContained /\ SupervisionSound

(* Collective money (dao_governance.rs, dao_treasury.rs,                     *)
(* dao_dispute_resolution.rs, prediction_markets.rs,                         *)
(* parametric_insurance.rs, cross_chain_bridge.rs,                           *)
(* stablecoin_reserves_impl.rs, nft_provenance_impl.rs, rwa_oracle.rs,       *)
(* reputation_system.rs): tallies, spendings and verdicts follow from the    *)
(* votes given, shares and capital from the trades and contributions,        *)
(* balances from attestations; reserves are never overstated; owners,        *)
(* royalties and rights follow from the transfers, payments and grants, a    *)
(* price from the feeds it was agreed on, and a reputation from its reviews  *)
(* and disputes.                                                             *)
CollectiveMoneySound ==
    /\ DaoAccountable /\ MarketsAccounted /\ ReserveNotOverstated
    /\ ProvenanceSound /\ PricesSound /\ ReputationsSound
=============================================================================
