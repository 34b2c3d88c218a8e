------------------------------ MODULE TaxRules ------------------------------
(* Tax computations (src/src/tax.rs, vat_engine.rs, tax_engines.rs,          *)
(* tax_audit_trail.rs): pure functions of a transaction. Rates are in        *)
(* hundredths of a percent.                                                  *)
EXTENDS PlatformHost

CONSTANTS
    TaxAmount,   \* sums that are taxed
    Unit         \* scale of a proportion, 1000000 in the code

VARIABLE taxCase   \* the computation under inspection, once one is chosen

TaxJurisdiction == {"EU", "UK", "US", "Canada", "Australia", "India", "Singapore",
                    "HongKong", "Japan", "Switzerland", "UAE"}
VATSupplyType == {"Goods", "Services", "Intangibles", "DigitalServices", "Construction",
                  "Transportation", "Telecommunications"}
VATExemptionReason == {"Financial", "Healthcare", "Education", "ExportedGoods",
                       "IntraEUSupply", "CulturalActivities", "AgriculturalProduction",
                       "None"}
DigitalServiceCategory == {"OnlineAdvertising", "OnlineMarketplace", "SocialMedia",
                           "VideoStreaming", "MusicStreaming", "CloudServices",
                           "DataServices", "OnlineSearch"}

VATTransaction ==
    [kind : {"vat"}, place : TaxJurisdiction, customer : TaxJurisdiction,
     supply_type : VATSupplyType, is_b2b : BOOLEAN, exemption : VATExemptionReason,
     amount : TaxAmount]

get_eu_rate(t) ==
    IF \/ t.supply_type \in {"Goods", "Transportation"} /\ t.is_b2b
       \/ t.supply_type = "DigitalServices" /\ t.customer # "EU"
    THEN 0 ELSE 2000

get_uk_rate == 2000
get_us_rate == 0
get_canada_rate == 500
get_au_rate == 1000
get_singapore_rate == 800
get_hk_rate == 0
get_japan_rate == 1000
get_uae_rate == 500

get_india_rate(t) ==
    CASE t.supply_type = "Construction" -> 1200
      [] t.supply_type = "Transportation" -> 500
      [] OTHER -> 1800

(* The function for the Swiss rate is called and nowhere defined.            *)
determine_rate(t) ==
    CASE t.place = "EU" -> get_eu_rate(t)
      [] t.place = "UK" -> get_uk_rate
      [] t.place = "US" -> get_us_rate
      [] t.place = "Canada" -> get_canada_rate
      [] t.place = "Australia" -> get_au_rate
      [] t.place = "India" -> get_india_rate(t)
      [] t.place = "Singapore" -> get_singapore_rate
      [] t.place = "HongKong" -> get_hk_rate
      [] t.place = "Japan" -> get_japan_rate
      [] t.place = "UAE" -> get_uae_rate

is_exempt(t) ==
    CASE t.exemption = "None" -> FALSE
      [] t.exemption = "ExportedGoods" -> t.place # t.customer
      [] t.exemption = "IntraEUSupply" -> t.place = "EU" /\ t.customer = "EU"
      [] OTHER -> TRUE

should_apply_reverse_charge(t) ==
    /\ t.is_b2b
    /\ t.place # t.customer
    /\ t.supply_type \in {"Construction", "Services", "DigitalServices", "Intangibles"}

determine_vat(t) ==
    LET untaxed == is_exempt(t) \/ should_apply_reverse_charge(t)
        rate    == IF untaxed THEN 0 ELSE determine_rate(t)
    IN  [vat_rate |-> rate, is_exempt |-> is_exempt(t),
         reverse_charge |-> should_apply_reverse_charge(t),
         vat_amount |-> (t.amount * rate) \div 10000]

calculate_amounts(amount, rate, is_inclusive) ==
    IF is_inclusive
    THEN LET vat == (amount * rate) \div (10000 + rate)
         IN  [net |-> amount - vat, vat |-> vat, gross |-> amount]
    ELSE LET vat == (amount * rate) \div 10000
         IN  [net |-> amount, vat |-> vat, gross |-> amount + vat]

-----------------------------------------------------------------------------
DSTTransaction ==
    [kind : {"dst"}, category : DigitalServiceCategory, revenue : TaxAmount,
     user : TaxJurisdiction, threshold_met : BOOLEAN]

is_in_scope_service(category) ==
    category \in {"OnlineAdvertising", "OnlineMarketplace", "SocialMedia", "VideoStreaming"}

DSTRate(jurisdiction) ==
    CASE jurisdiction = "UK" -> 200
      [] jurisdiction \in {"EU", "Australia"} -> 300
      [] jurisdiction = "India" -> 400
      [] OTHER -> 0

(* Applicable where no rate is known: the amount is then zero.               *)
determine_dst(t) ==
    LET applicable == t.threshold_met /\ is_in_scope_service(t.category)
        rate       == IF applicable THEN DSTRate(t.user) ELSE 0
    IN  [is_applicable |-> applicable, dst_rate |-> rate,
         jurisdictions |-> IF rate > 0 THEN {t.user} ELSE {},
         dst_amount |-> (t.revenue * rate) \div 10000]

-----------------------------------------------------------------------------
CryptoHolding == [balance : 0..3, cost_basis : {0, 7, 10}]

(* First in, first out: each holding gives what is still missing, at the     *)
(* part of its cost that the amount is of its balance.                       *)
SellFrom(sofar, holding, amount_sold) ==
    LET take == Min({holding.balance, amount_sold - sofar.processed})
        part == (take * Unit) \div Max({holding.balance, 1})
    IN  [cost |-> sofar.cost + (holding.cost_basis * part) \div Unit,
         processed |-> sofar.processed + take]

calculate_fifo_cost_basis(holdings, amount_sold) ==
    FoldLeft(LAMBDA sofar, h : IF sofar.processed >= amount_sold THEN sofar
                               ELSE SellFrom(sofar, h, amount_sold),
             [cost |-> 0, processed |-> 0], holdings)

calculate_realized_gain(cost_basis, proceeds) == proceeds - cost_basis

(* Gains and losses are added up apart.                                      *)
generate_carf_record(sales) ==
    LET gain == [k \in DOMAIN sales |->
                    calculate_realized_gain(sales[k].cost_basis, sales[k].value)]
        wins == {k \in DOMAIN sales : gain[k] > 0}
    IN  [gains |-> Total(gain, wins),
         losses |-> Total([k \in DOMAIN sales |-> -gain[k]], DOMAIN sales \ wins)]

(* Within a quarter of the mean of the comparable prices.                    *)
validate_price(price, comparable) ==
    LET mean == IF comparable = <<>> THEN price
                ELSE Total(comparable, DOMAIN comparable) \div Len(comparable)
        variance == price - mean
        size == IF variance < 0 THEN -variance ELSE variance
        percentage == IF mean > 0 THEN (size * 10000) \div mean ELSE 0
    IN  [variance |-> variance, percentage |-> percentage, defensible |-> percentage <= 2500]

select_method(supply) ==
    CASE supply = "goods" -> "CUP"
      [] supply = "service" -> "CostPlus"
      [] supply = "intangible" -> "ProfitSplit"
      [] OTHER -> "TNMM"

generate_cbcr(jurisdictions) ==
    [revenue |-> Total([k \in DOMAIN jurisdictions |-> jurisdictions[k].revenue],
                       DOMAIN jurisdictions),
     profit  |-> Total([k \in DOMAIN jurisdictions |-> jurisdictions[k].profit],
                       DOMAIN jurisdictions)]

(* What the audit trail notes of a determination.                            *)
AuditedAction(event_type, flag) ==
    CASE event_type = "vat_determined" -> IF flag THEN "exempt" ELSE "standard_rate"
      [] event_type = "dst_calculated" -> IF flag THEN "applicable" ELSE "not_applicable"
      [] event_type = "crypto_transaction" -> IF flag THEN "reportable" ELSE "non_reportable"
      [] event_type = "transfer_pricing" -> IF flag THEN "defensible" ELSE "adjustment_needed"
      [] event_type = "cbcr_filed" -> "filed"

(* Documents and exemptions run for years, an appeal for thirty days.        *)
create_documentation(years) == [effective |-> clock, expiry |-> clock + years * 31557600]
create_exemption_record(years) == [effective |-> clock, expiry |-> clock + years * 31557600]
create_determination_decision == [decided |-> clock, appeal_end |-> clock + 30 * 24 * 3600]

-----------------------------------------------------------------------------
Sale == [cost_basis : {0, 7}, value : {3, 7, 9}]

(* The cases inspected: every supply in three places, every digital service, *)
(* sales from up to two holdings, and short lists of prices and sales.       *)
TaxCases ==
    {t \in VATTransaction : t.place \in {"EU", "UK", "India"} /\ t.customer \in {"EU", "UK"}}
    \cup DSTTransaction
    \cup [kind : {"split"}, amount : TaxAmount, rate : {0, 500, 800, 1200, 1800, 2000}]
    \cup [kind : {"fifo"}, holdings : SeqOf(CryptoHolding, 2), sold : 0..5]
    \cup [kind : {"price"}, price : TaxAmount, comparable : SeqOf(TaxAmount, 2)]
    \cup [kind : {"carf"}, sales : SeqOf(Sale, 2)]

TaxInit == taxCase = None

InspectTax == taxCase = None /\ \E c \in TaxCases : taxCase' = Some(c)

TaxNext == InspectTax

-----------------------------------------------------------------------------
(* Tax figures (vat_engine.rs, tax_engines.rs), over bounded inputs: the tax *)
(* worked out on a net sum is the tax found in the gross sum it gives,       *)
(* rounding included; no tax where a supply is exempt or the charge is       *)
(* reversed; sales use up the holdings in order and cost no more than they   *)
(* did; gains less losses are what the sales earned; a service tax is due    *)
(* only somewhere; and a defensible price is no quarter below the mean.      *)
TaxFiguresSound ==
    \A t \in taxCase :
        /\ t.kind = "vat" =>
              LET vat == determine_vat(t)
                  own == calculate_amounts(t.amount, vat.vat_rate, FALSE)
              IN  /\ vat.is_exempt \/ vat.reverse_charge => vat.vat_amount = 0
                  /\ own.vat = vat.vat_amount /\ vat.vat_amount <= t.amount
        /\ t.kind = "split" =>
              LET out == calculate_amounts(t.amount, t.rate, FALSE)
                  in  == calculate_amounts(out.gross, t.rate, TRUE)
              IN  in = out /\ out.net + out.vat = out.gross
        /\ t.kind = "dst" =>
              LET dst == determine_dst(t)
              IN  dst.dst_amount > 0 => dst.is_applicable /\ dst.jurisdictions # {}
        /\ t.kind = "fifo" =>
              LET sold == calculate_fifo_cost_basis(t.holdings, t.sold)
                  held == Total([k \in DOMAIN t.holdings |-> t.holdings[k].balance],
                                DOMAIN t.holdings)
                  paid == Total([k \in DOMAIN t.holdings |-> t.holdings[k].cost_basis],
                                DOMAIN t.holdings)
              IN  /\ sold.processed = Min({t.sold, held})
                  /\ sold.cost <= paid
                  /\ (\A k \in DOMAIN t.holdings : t.holdings[k].balance > 0)
                        /\ t.sold >= held => sold.cost = paid
        /\ t.kind = "price" =>
              LET fair == validate_price(t.price, t.comparable)
                  mean == t.price - fair.variance
              IN  mean > 0 /\ fair.defensible => 4 * (mean - t.price) <= mean + 1
        /\ t.kind = "carf" =>
              LET carf == generate_carf_record(t.sales)
              IN  carf.gains - carf.losses
                     = Total([k \in DOMAIN t.sales |-> t.sales[k].value - t.sales[k].cost_basis],
                             DOMAIN t.sales)
=============================================================================
