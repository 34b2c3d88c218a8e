--------------------------- MODULE CarbonCredits ---------------------------
(* Carbon credits (src/src/carbon_credits.rs): issue, verification,          *)
(* tokenization, transfer, retirement, audits and registry entries.          *)
EXTENDS PlatformHost

CONSTANT ComplianceStandard

VARIABLE carbon
(* [credits : CarbonCredit(id), byIssuer : IssuerCredits, byHolder :         *)
(*  HolderCredits, tokens : TokenToCreditMapping, registry : RegistryEntry,  *)
(*  audits : VerificationRecords, issued : CreditCounter, retired :          *)
(*  RetiredCount, co2e : TotalCo2eRetired]                                   *)

CreditStatus == {"Issued", "Active", "Retired", "Disputed", "Expired"}

(* The id digests issuer, tonnes and time of issue.                          *)
CreditId == Amount \X Account \X (0..MaxClock)
TokenId == Account \X (0..MaxClock)

CarbonCredit ==
    [tonnes : Amount, issuer : Account, energy : Amount, status : CreditStatus,
     verification_body : Account, expiration_date : Nat,
     retirement_date : SUBSET (0..MaxClock), token : SUBSET TokenId,
     token_owner : SUBSET Account, registry : SUBSET {"registry"},
     standard : ComplianceStandard, verifications : Nat, version : Nat]

CarbonInit ==
    carbon = [credits |-> EmptyMap, byIssuer |-> EmptyMap, byHolder |-> EmptyMap,
              tokens |-> EmptyMap, registry |-> EmptyMap, audits |-> EmptyMap,
              issued |-> 0, retired |-> 0, co2e |-> 0]

(* The same issuer, tonnes and time give the same id: the later credit       *)
(* replaces the earlier one, which stays listed and counted.                 *)
issue_carbon_credit(issuer, tonnes, energy, standard, verifier, expires) ==
    LET id == <<tonnes, issuer, clock>>
        credit == [tonnes |-> tonnes, issuer |-> issuer, energy |-> energy,
                   status |-> "Issued", verification_body |-> verifier,
                   expiration_date |-> expires, retirement_date |-> None, token |-> None,
                   token_owner |-> None, registry |-> None, standard |-> standard,
                   verifications |-> 0, version |-> 1]
    IN  /\ carbon.issued < MaxRecords
        /\ carbon' = [carbon EXCEPT !.credits = Put(@, id, credit),
                                    !.byIssuer = PushTo(@, issuer, id),
                                    !.issued = @ + 1]

(* No look at the status: any credit becomes Active, a retired one as well.  *)
verify_renewable_energy(id, energy_mwh) ==
    /\ carbon.credits[id].energy = energy_mwh
    /\ carbon.credits[id].verifications < MaxRecords
    /\ carbon' = [carbon EXCEPT !.credits[id].verifications = @ + 1,
                                !.credits[id].status = "Active"]

(* The token id digests owner and time, not the credit.                      *)
tokenize_credit(id, token_owner) ==
    LET token == <<token_owner, clock>>
    IN  /\ carbon.credits[id].version < MaxRecords
        /\ carbon' = [carbon EXCEPT !.credits[id].token = Some(token),
                                    !.credits[id].token_owner = Some(token_owner),
                                    !.credits[id].version = @ + 1,
                                    !.tokens = Put(@, token, id)]

(* Faulty variant: counts the credit but not its tonnes.                     *)
RetireUncounted(id) ==
    /\ carbon.credits[id].status # "Retired"
    /\ carbon.retired < MaxRecords
    /\ carbon' = [carbon EXCEPT !.credits[id].status = "Retired",
                                !.credits[id].retirement_date = Some(clock),
                                !.retired = @ + 1]

(* A second retirement returns false. Anyone may retire a credit.            *)
retire_credit(id) ==
    /\ carbon.credits[id].status # "Retired"
    /\ carbon.retired < MaxRecords
    /\ carbon' = [carbon EXCEPT !.credits[id].status = "Retired",
                                !.credits[id].retirement_date = Some(clock),
                                !.retired = @ + 1,
                                !.co2e = @ + carbon.credits[id].tonnes]

(* Only the receiver's list changes; the sender need not hold the credit.    *)
transfer_credit(id, to) ==
    /\ carbon.credits[id].status # "Retired"
    /\ Len(ListUnder(carbon.byHolder, to)) < MaxRecords
    /\ carbon' = [carbon EXCEPT
                    !.credits[id].token_owner = IF @ = None THEN @ ELSE Some(to),
                    !.byHolder = PushTo(@, to, id)]

(* More than 100 MWh away from the issuer's figure is an issue.              *)
audit_renewable_usage(id, auditor, measured) ==
    LET energy == carbon.credits[id].energy
        gap    == IF energy > measured THEN energy - measured ELSE measured - energy
    IN  /\ Len(ListUnder(carbon.audits, id)) < MaxRecords
        /\ carbon' = [carbon EXCEPT !.audits =
                          PushTo(@, id, [auditor |-> auditor, approved |-> gap <= 100])]

(* The registry keeps a copy of the credit as it is now.                     *)
register_credit(id, registry_id) ==
    LET credit == [carbon.credits[id] EXCEPT !.registry = Some(registry_id)]
    IN  carbon' = [carbon EXCEPT
                    !.credits[id] = credit,
                    !.registry = Put(@, registry_id, [credit |-> credit, verified_by |-> None])]

(* The registry's own copy alone is confirmed.                               *)
update_registry(registry_id, verifier) ==
    /\ registry_id \in DOMAIN carbon.registry
    /\ carbon' = [carbon EXCEPT !.registry[registry_id].verified_by = Some(verifier)]

link_to_standard(id, standard) ==
    carbon' = [carbon EXCEPT !.credits[id].standard = standard]

(* What a holder's list adds up to; a credit listed twice counts twice.      *)
get_portfolio_status(holder) ==
    LET ids == ListUnder(carbon.byHolder, holder)
        of(status) == {k \in DOMAIN ids : carbon.credits[ids[k]].status = status}
    IN  [total |-> Len(ids), active |-> Cardinality(of("Active")),
         retired |-> Cardinality(of("Retired")),
         co2e |-> Total([k \in DOMAIN ids |-> carbon.credits[ids[k]].tonnes], of("Retired"))]

check_retirement_status(id) == carbon.credits[id].status = "Retired"

calculate_offset(energy_mwh) == energy_mwh \div 2

verify_offset_authenticity(id, verifier) ==
    /\ carbon.credits[id].verification_body = verifier
    /\ carbon.credits[id].expiration_date >= clock

verify_standard_compliance(id, standard) == carbon.credits[id].standard = standard

(* Sizes beyond a million are refused, and so is an expired offset.          *)
check_data_integrity(id) ==
    /\ carbon.credits[id].tonnes \in 1..1000000
    /\ carbon.credits[id].energy <= 1000000
    /\ carbon.credits[id].expiration_date >= clock

verify_registry_compliance(id) ==
    carbon.credits[id].registry # None /\ carbon.credits[id].verifications > 0

CarbonNext ==
    \/ \E issuer \in Account, t, e \in Amount, s \in ComplianceStandard :
          issue_carbon_credit(issuer, t, e, s, issuer, clock + 1)
    \/ \E id \in DOMAIN carbon.credits :
        \/ retire_credit(id)
        \/ register_credit(id, "registry")
        \/ \E e \in Amount : verify_renewable_energy(id, e)
        \/ \E s \in ComplianceStandard : link_to_standard(id, s)
        \/ \E a \in Account :
            \/ update_registry("registry", a)
            \/ tokenize_credit(id, a)
            \/ transfer_credit(id, a)
            \/ \E e \in Amount : audit_renewable_usage(id, a, e)

CarbonTypeOK ==
    /\ \A id \in DOMAIN carbon.credits : id \in CreditId /\ carbon.credits[id] \in CarbonCredit
    /\ \A token \in DOMAIN carbon.tokens : token \in TokenId /\ carbon.tokens[token] \in CreditId

-----------------------------------------------------------------------------
(* The published totals never understate: the tonnes and the number of       *)
(* credits reported as retired cover every credit that is retired, each of   *)
(* which has its date; every issued credit is listed under its issuer.       *)
RetirementsCovered ==
    LET retired == {id \in DOMAIN carbon.credits : carbon.credits[id].status = "Retired"}
    IN  /\ carbon.co2e >= Total([id \in retired |-> carbon.credits[id].tonnes], retired)
        /\ carbon.retired >= Cardinality(retired)
        /\ \A id \in retired : carbon.credits[id].retirement_date # None
        /\ \A id \in DOMAIN carbon.credits :
              Contains(carbon.byIssuer[carbon.credits[id].issuer], id)

(* carbon_credits.rs: "Retired,     // Permanently retired": a retired       *)
(* credit stays retired.                                                     *)
RetiredPermanently ==
    [][\A id \in DOMAIN carbon.credits :
          carbon.credits[id].status = "Retired" => carbon'.credits[id].status = "Retired"]_carbon
=============================================================================
