------------------------- MODULE StablecoinReserves -------------------------
(* The reserve auditing contract (src/src/stablecoin_reserves.rs and         *)
(* src/src/stablecoin_reserves_impl.rs): assets and their running total,     *)
(* attestations, reports, redemptions, stress tests and proofs. An Err       *)
(* reverts what the call wrote, so such a call is not enabled.               *)
EXTENDS PlatformHost

CONSTANTS
    AssetType,   \* kinds of asset
    MaxReserve   \* largest quantity of one asset

ASSUME ReserveAssumption == MaxReserve \in Nat

VARIABLE reserve
(* [assets, listed, total : TotalAttestedReserve, attestations, attested :   *)
(*  AttestationCount, reports, redemptions, requested : RedemptionCount,     *)
(*  tests, proofs]                                                           *)

ReserveInit ==
    reserve = [assets |-> EmptyMap, listed |-> <<>>, total |-> 0, attestations |-> EmptyMap,
               attested |-> 0, reports |-> <<>>, redemptions |-> EmptyMap, requested |-> 0,
               tests |-> EmptyMap, proofs |-> EmptyMap]

(* Of the custodian's address only the first letter is digested, the same    *)
(* for all accounts: there is one asset of a kind.                           *)
compute_asset_id(custodian, kind) == kind

(* An address is longer than the 32 bytes that would be copied, so neither   *)
(* the attestor nor the requester is part of these ids.                      *)
compute_attestation_id(attestor, asset) == asset
compute_redemption_id(requester) == clock
reserve_report_id(start, end) == <<start, end>>
compute_stress_test_id == clock
compute_zk_proof_id(commitment) == <<commitment, clock>>

(* An asset that is there already is returned as it is.                      *)
register_reserve(kind, quantity, custodian) ==
    LET id == compute_asset_id(custodian, kind)
    IN  /\ id \notin DOMAIN reserve.assets
        /\ reserve' = [reserve EXCEPT
              !.assets = Put(@, id, [quantity |-> quantity]),
              !.listed = Append(@, id),
              !.total = @ + quantity]

(* The bound on records that nothing else reads.                             *)
SideRecords ==
    reserve.attested + Len(reserve.reports) + Cardinality(DOMAIN reserve.tests)
        + Cardinality(DOMAIN reserve.proofs)

Less(a, b) == IF a > b THEN a - b ELSE 0

(* The old quantity is overwritten before it is compared with the new one,   *)
(* so the difference is subtracted from the total in both directions.        *)
update_reserve(id, quantity) ==
    LET old  == reserve.assets[id].quantity
        diff == Less(quantity, old) + Less(old, quantity)
    IN  /\ id \in DOMAIN reserve.assets
        /\ reserve' = [reserve EXCEPT
              !.assets[id] = [quantity |-> quantity],
              !.total = Less(@, diff)]

(* The signature check accepts everything.                                   *)
record_attestation(attestor, asset, quantity, expires_at) ==
    LET id == compute_attestation_id(attestor, asset)
    IN  /\ asset \in DOMAIN reserve.assets
        /\ SideRecords < 1
        /\ reserve' = [reserve EXCEPT
              !.attestations = Put(@, id, [attestor |-> attestor, asset |-> asset,
                                           quantity |-> quantity, expires_at |-> expires_at]),
              !.attested = @ + 1]

verify_attestation(id) == reserve.attestations[id].expires_at >= clock

report_reserves(start, end) ==
    /\ SideRecords < 1
    /\ reserve' = [reserve EXCEPT !.reports = Append(@,
          [id |-> reserve_report_id(start, end), total_reserve |-> reserve.total,
           asset_count |-> Len(reserve.listed)])]

get_latest_report == reserve.reports[Len(reserve.reports)]

(* A request made at the same time replaces the one before, and both count.  *)
request_redemption(requester, quantity, asset) ==
    LET id == compute_redemption_id(requester)
    IN  /\ asset \in DOMAIN reserve.assets
        /\ reserve.assets[asset].quantity >= quantity
        /\ reserve.requested < MaxRecords
        /\ reserve' = [reserve EXCEPT
              !.redemptions = Put(@, id, [quantity |-> quantity, asset |-> asset,
                                          status |-> "pending"]),
              !.requested = @ + 1]

(* The reserve may have shrunk since the request; then the call fails, and   *)
(* the status it set is reverted with it.                                    *)
execute_redemption(id) ==
    LET request == reserve.redemptions[id]
    IN  /\ request.status = "pending"
        /\ reserve.assets[request.asset].quantity >= request.quantity
        /\ reserve' = [reserve EXCEPT
              !.assets[request.asset].quantity = @ - request.quantity,
              !.redemptions[id].status = "executed",
              !.total = Less(@, request.quantity)]

(* The outcome recorded is always "passed".                                  *)
execute_stress_test(depletion_percent) ==
    /\ depletion_percent <= 100
    /\ SideRecords < 1
    /\ reserve' = [reserve EXCEPT !.tests = Put(@, compute_stress_test_id, depletion_percent)]

(* Each kind of proof is accepted when it is not empty.                      *)
verify_zk_proof(proof_length, commitment, expires_at) ==
    /\ expires_at >= clock
    /\ proof_length > 0
    /\ SideRecords < 1
    /\ reserve' = [reserve EXCEPT !.proofs = Put(@, compute_zk_proof_id(commitment), expires_at)]

ReserveNext ==
    \/ \E k \in AssetType, x \in Amount, a \in Account : register_reserve(k, x, a)
    \/ \E k \in AssetType, x \in 0..MaxReserve : update_reserve(k, x)
    \/ \E a \in Account, k \in DOMAIN reserve.assets : record_attestation(a, k, 1, 2)
    \/ report_reserves(0, clock)
    \/ \E a \in Account, x \in Amount, k \in AssetType : request_redemption(a, x, k)
    \/ \E r \in DOMAIN reserve.redemptions : execute_redemption(r)
    \/ \E p \in {100, 101} : execute_stress_test(p)
    \/ \E n \in 0..1, e \in 1..2 : verify_zk_proof(n, "c", e)

-----------------------------------------------------------------------------
ReserveTypeOK ==
    /\ DOMAIN reserve.assets \subseteq AssetType
    /\ \A id \in DOMAIN reserve.assets : reserve.assets[id].quantity \in 0..MaxReserve
    /\ reserve.total \in Nat

(* The reserve reported to holders is never more than the assets hold, in    *)
(* whatever order assets are registered, corrected and redeemed; every asset *)
(* counted is listed once (register_reserve, update_reserve,                 *)
(* execute_redemption, report_reserves).                                     *)
ReserveNotOverstated ==
    /\ reserve.total <= Total([id \in DOMAIN reserve.assets |-> reserve.assets[id].quantity],
                              DOMAIN reserve.assets)
    /\ ToSet(reserve.listed) = DOMAIN reserve.assets
    /\ Len(reserve.listed) = Cardinality(DOMAIN reserve.assets)
    /\ \A id \in DOMAIN reserve.attestations :
          reserve.attestations[id].asset \in DOMAIN reserve.assets
=============================================================================
