---------------------------- MODULE SupplyChain ----------------------------
(* Brands, products, provenance, certifications and facility reports         *)
(* (src/src/supply_chain.rs), and ESG reports (src/src/esg_reporting.rs).    *)
EXTENDS PlatformHost

CONSTANTS Brand, Sku, Lot, Framework

VARIABLES
    chain,  \* [brands : Brand(id), brandCount, skus : ProductSKU(brand, sku),
            \*  skuCount, lots : ProvenanceEvent, certs : CertificationEvent,
            \*  labor : LaborReport, facilities : EnvironmentalReport]
    esg     \* [reports : ESGReport(id), byOrg : OrgReports, aligned :
            \*  FrameworkAlignment, investor : StakeholderReport, kpis : KPIData]

Custody == [from : Account, to : Account, at : 0..MaxClock]
Provenance == [producer : Account, at : 0..MaxClock, custody : Seq(Custody),
               is_verified : BOOLEAN]
Certification == [issuer : Account, expiry : Nat, is_active : BOOLEAN]
ProductSKU == [provenance : SUBSET Lot, certifications : SUBSET Lot,
               labor : SUBSET Lot, environmental : SUBSET Lot, created : 0..MaxClock]

ChainInit ==
    chain = [brands |-> EmptyMap, brandCount |-> 0, skus |-> EmptyMap, skuCount |-> 0,
             lots |-> EmptyMap, certs |-> EmptyMap, labor |-> EmptyMap, facilities |-> {}]

(* Registering a brand again replaces its owner.                             *)
register_brand(owner, b) ==
    /\ chain.brandCount < MaxRecords
    /\ chain' = [chain EXCEPT !.brands = Put(@, b, owner), !.brandCount = @ + 1]

(* A new product is linked to nothing, and no call links it later.           *)
register_product_sku(b, sku) ==
    /\ b \in DOMAIN chain.brands
    /\ chain.skuCount < MaxRecords
    /\ chain' = [chain EXCEPT
         !.skus = Put(@, <<b, sku>>, [provenance |-> {}, certifications |-> {}, labor |-> {},
                                      environmental |-> {}, created |-> clock]),
         !.skuCount = @ + 1]

log_provenance_event(lot, producer) ==
    chain' = [chain EXCEPT !.lots =
                Put(@, lot, [producer |-> producer, at |-> clock, custody |-> <<>>,
                             is_verified |-> FALSE])]

(* The sender signs; whether the lot is theirs is not asked.                 *)
log_custody_transfer(lot, from, to) ==
    /\ lot \in DOMAIN chain.lots
    /\ Len(chain.lots[lot].custody) < MaxRecords
    /\ chain' = [chain EXCEPT !.lots[lot].custody =
                    Append(@, [from |-> from, to |-> to, at |-> clock])]

log_certification(c, issuer, expiry_days) ==
    chain' = [chain EXCEPT !.certs =
                Put(@, c, [issuer |-> issuer, expiry |-> clock + expiry_days,
                           is_active |-> TRUE])]

(* One report per facility: the digest of the facility is the key. ok says   *)
(* that wages, hours, child labour and safety all comply.                    *)
log_labor_conditions(facility, ok) ==
    chain' = [chain EXCEPT !.labor = Put(@, facility, ok)]

log_environmental_impact(facility) ==
    chain' = [chain EXCEPT !.facilities = @ \cup {facility}]

verify_certification(c) ==
    c \in DOMAIN chain.certs /\ chain.certs[c].is_active /\ chain.certs[c].expiry > clock

(* A certificate is still good at its very expiry here, unlike above.        *)
CertificationsValid(product) ==
    /\ product.certifications # {}
    /\ \A c \in product.certifications \cap DOMAIN chain.certs :
          chain.certs[c].is_active /\ chain.certs[c].expiry >= clock

verify_product_chain(b, sku) ==
    LET product == chain.skus[<<b, sku>>]
        proven  == \E lot \in product.provenance \cap DOMAIN chain.lots :
                      chain.lots[lot].is_verified
        labor   == \A f \in product.labor \cap DOMAIN chain.labor : chain.labor[f]
    IN  proven /\ CertificationsValid(product) /\ labor

get_product_timeline(lots) == SelectSeq(lots, LAMBDA lot : lot \in DOMAIN chain.lots)

ChainNext ==
    \/ \E b \in Brand : \/ \E a \in Account : register_brand(a, b)
                        \/ \E sku \in Sku : register_product_sku(b, sku)
    \/ \E lot \in Lot, a \in Account :
        \/ log_provenance_event(lot, a)
        \/ \E to \in Account : log_custody_transfer(lot, a, to)
        \/ \E d \in Amount : log_certification(lot, a, d)
        \/ \E ok \in BOOLEAN : log_labor_conditions(lot, ok)
        \/ log_environmental_impact(lot)

-----------------------------------------------------------------------------
(* ESG reports.                                                              *)

ESGReport == [org : Account, period : Amount, generated : 0..MaxClock, e_score : Nat,
              s_score : Nat, g_score : Nat, esg_score : Nat, aligned : Seq(Framework)]

EsgInit ==
    esg = [reports |-> EmptyMap, byOrg |-> EmptyMap, aligned |-> {},
           investor |-> None, kpis |-> EmptyMap]

(* The collectors fix what callers do not pass: an efficiency score from the *)
(* renewable share, satisfaction 85, ethics training 95.                     *)
EfficiencyScore(renewable) == (renewable + 70) \div 2
SocialScore(women) == (women + 85) \div 2
GovernanceScore(independence) == (independence + 95) \div 2

(* The id digests organization, period start and time of the call.           *)
generate_esg_report(org, period, renewable, women, independence) ==
    LET id == <<org, period, clock>>
        e  == (renewable + EfficiencyScore(renewable)) \div 2
        s  == SocialScore(women)
        g  == GovernanceScore(independence)
    IN  /\ Len(ListUnder(esg.byOrg, org)) < MaxRecords
        /\ esg' = [esg EXCEPT
             !.reports = Put(@, id, [org |-> org, period |-> period, generated |-> clock,
                                     e_score |-> e, s_score |-> s, g_score |-> g,
                                     esg_score |-> (e + s + g) \div 3, aligned |-> <<>>]),
             !.byOrg = PushTo(@, org, id)]

Coverage == [GRI |-> 95, SASB |-> 90, TCFD |-> 88]

(* align_to_gri, align_to_sasb and align_to_tcfd; a report can be aligned to *)
(* one framework several times, and any organization named.                  *)
Align(id, org, framework) ==
    /\ Len(esg.reports[id].aligned) < MaxRecords
    /\ esg' = [esg EXCEPT !.reports[id].aligned = Append(@, framework),
                          !.aligned = @ \cup {<<org, framework>>}]

align_to_gri(id, org) == "GRI" \in Framework /\ Align(id, org, "GRI")
align_to_sasb(id, org) == "SASB" \in Framework /\ Align(id, org, "SASB")
align_to_tcfd(id, org) == "TCFD" \in Framework /\ Align(id, org, "TCFD")

(* All investor reports share one key: the last one generated is kept.       *)
generate_investor_report(id) ==
    esg' = [esg EXCEPT !.investor = Some([report |-> id, score |-> esg.reports[id].esg_score])]

track_kpis(org, kpis) == esg' = [esg EXCEPT !.kpis = Put(@, org, kpis)]

(* The other stakeholders' reports are returned and not stored: staff read   *)
(* the social score, suppliers the governance one, communities the first.    *)
generate_employee_report(id) == esg.reports[id].s_score
generate_supplier_report(id) == esg.reports[id].g_score
generate_community_report(id) == esg.reports[id].e_score

(* More than five percent up or down is a trend; a zero base is stable.      *)
trend_analysis(current, previous) ==
    LET change == IF previous = 0 THEN 0 ELSE Quotient((current - previous) * 100, previous)
    IN  IF change > 5 THEN "improving" ELSE IF change < -5 THEN "declining" ELSE "stable"

(* Mean coverage of the recorded alignments.                                 *)
check_reporting_standards(id) ==
    LET aligned == esg.reports[id].aligned
    IN  IF aligned = <<>> THEN 0
        ELSE Total([k \in DOMAIN aligned |-> Coverage[aligned[k]]], DOMAIN aligned)
             \div Len(aligned)

EsgNext ==
    \/ \E org \in Account, v \in Amount : generate_esg_report(org, v, v, v, v) \/ track_kpis(org, v)
    \/ \E id \in DOMAIN esg.reports :
        \/ generate_investor_report(id)
        \/ \E org \in Account :
              align_to_gri(id, org) \/ align_to_sasb(id, org) \/ align_to_tcfd(id, org)

SupplyTypeOK ==
    /\ \A lot \in DOMAIN chain.lots : chain.lots[lot] \in Provenance
    /\ \A c \in DOMAIN chain.certs : chain.certs[c] \in Certification
    /\ \A k \in DOMAIN chain.skus : chain.skus[k] \in ProductSKU
    /\ \A id \in DOMAIN esg.reports : esg.reports[id] \in ESGReport

-----------------------------------------------------------------------------
(* Products belong to registered brands and are counted at least once; a     *)
(* lot's custody follows time; what one organization lists are its reports,  *)
(* scored within the range of the scores they average.                       *)
SupplyRecordsSound ==
    /\ \A k \in DOMAIN chain.skus : k[1] \in DOMAIN chain.brands
    /\ chain.brandCount >= Cardinality(DOMAIN chain.brands)
    /\ chain.skuCount >= Cardinality(DOMAIN chain.skus)
    /\ \A lot \in DOMAIN chain.lots :
        LET custody == chain.lots[lot].custody
        IN  \A j, k \in DOMAIN custody : j < k => custody[j].at <= custody[k].at
    /\ \A org \in DOMAIN esg.byOrg : \A k \in DOMAIN esg.byOrg[org] :
          esg.reports[esg.byOrg[org][k]].org = org
    /\ \A id \in DOMAIN esg.reports :
        LET r == esg.reports[id]
            scores == {r.e_score, r.s_score, r.g_score}
        IN  /\ Min(scores) <= r.esg_score /\ r.esg_score <= Max(scores)
            /\ check_reporting_standards(id) <= 100
=============================================================================
