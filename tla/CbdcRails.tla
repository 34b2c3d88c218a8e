------------------------------ MODULE CbdcRails -----------------------------
(* Central bank currency transfers (src/src/cbdc_types.rs): conversion and   *)
(* settlement (cbdc_interop.rs), transactions made offline and reconciled    *)
(* later (cbdc_offline.rs), the event log (cbdc_logging.rs) and masking with *)
(* access lists (cbdc_privacy.rs).                                           *)
EXTENDS PlatformHost

CONSTANTS
    RateScale,   \* 10^18 in the code: the scale of exchange rates
    QueueSize,   \* transactions that wait for reconciliation
    MaxCbdcLog   \* events the log takes

ASSUME CbdcAssumption == RateScale \in Nat \ {0} /\ {QueueSize, MaxCbdcLog} \subseteq Nat

VARIABLES
    cbdc,        \* offline transactions, their queue and a batch
    transfers,   \* a settlement and the event log with its counters
    masking      \* a masked transaction and its access list

CBDCPilot == 0..3          \* euro, dollar, eCNY, sand dollar
InteropProtocol == {"AtomicSwap", "HubAndSpoke", "ISO20022", "CBPR"}
PrivacyTier == {"Public", "Pseudonymous", "Private", "RegulatoryConfidential"}
requires_encryption(tier) == tier # "Public"
OfflineStatus == {"Pending", "Reconciled", "Failed", "Disputed"}
TransactionEventType == {"XFER", "BATCH", "RATE", "RECON", "DISPUTE"}

CBDCTransaction(id, from, to, source, dest, amount, rate) ==
    [id |-> id, from |-> from, to |-> to, source |-> source, dest |-> dest,
     amount |-> amount, amount_dest |-> (amount * rate) \div RateScale, rate |-> rate,
     timestamp |-> clock]

(* Neither party enters the chained hash.                                    *)
compute_hash(tx, prev) ==
    <<prev, tx.id, tx.source, tx.dest, tx.amount, tx.amount_dest, tx.rate, tx.timestamp>>

-----------------------------------------------------------------------------
(* Rates and conversion.                                                     *)
ExchangeRate(rate, bid, ask, time) == [rate |-> rate, bid |-> bid, ask |-> ask, time |-> time]
is_stale(rate, threshold) == clock - rate.time > threshold
mid_price(rate) == (rate.bid + rate.ask) \div 2
spread_bps(rate) ==
    IF mid_price(rate) = 0 THEN 0 ELSE ((rate.ask - rate.bid) * 10000) \div mid_price(rate)
validate_exchange_rate(rate, threshold) ==
    /\ ~is_stale(rate, threshold)
    /\ rate.rate # 0 /\ rate.bid # 0 /\ rate.ask # 0
    /\ rate.bid <= rate.ask

convert_amount(amount, rate) ==
    IF rate = 0 \/ amount = 0 THEN None ELSE Some((amount * rate) \div RateScale)

(* A path has as many rates as pilots, and a leg that rounds to nothing      *)
(* fails the one after it.                                                   *)
compute_final_amount(path, rates, amount) ==
    IF Len(path) < 2 \/ Len(path) # Len(rates) THEN None
    ELSE FoldLeft(LAMBDA acc, rate : IF acc = None THEN None ELSE convert_amount(The(acc), rate),
                  Some(amount), rates)

compute_settlement_fee(amount, bps) ==
    IF bps > 10000 THEN None ELSE Some((amount * bps) \div 10000)

validate_pilot_pair(source, dest) == source # dest /\ {source, dest} \subseteq CBDCPilot

validate_transaction(tx) ==
    tx.amount # 0 /\ tx.amount_dest # 0 /\ tx.rate # 0 /\ tx.source # tx.dest

(* The identifiers of swaps leave the time out: a repeated swap is the same. *)
execute_atomic_swap(from, to, amount, amount_dest) ==
    IF amount = 0 \/ amount_dest = 0 THEN None ELSE Some(<<from, to, amount, amount_dest>>)
execute_hub_and_spoke(hub, amount, amount_dest) ==
    IF amount = 0 \/ amount_dest = 0 THEN None ELSE Some(<<hub, amount, amount_dest>>)

SettlementStatus ==
    {"Created", "InitiatedSource", "ConfirmedSource", "AwaitingDestination",
     "Completed", "Failed"}

(* Any state may fail, the completed one too.                                *)
is_valid_status_transition(from, to) ==
    \/ <<from, to>> \in {<<"Created", "InitiatedSource">>,
                         <<"InitiatedSource", "ConfirmedSource">>,
                         <<"ConfirmedSource", "AwaitingDestination">>,
                         <<"AwaitingDestination", "Completed">>}
    \/ to = "Failed"

-----------------------------------------------------------------------------
(* Offline transactions.                                                     *)
compute_offline_tx_hash(tx, nonce) ==
    <<tx.id, tx.source, tx.dest, tx.amount, tx.amount_dest, tx.rate, nonce>>

create_offline_transaction(tx, nonce) ==
    [hash |-> compute_offline_tx_hash(tx, nonce), tx |-> tx, status |-> "Pending",
     created_at |-> clock, reconciled_at |-> None, nonce |-> nonce]

validate_offline_transaction(offline) == offline.tx.amount # 0 /\ offline.nonce # 0
verify_nonce(last, nonce) == nonce > last
verify_transaction_integrity(offline) ==
    offline.hash = compute_offline_tx_hash(offline.tx, offline.nonce)

compute_batch_id(hashes) == <<"batch", hashes>>
create_batch_settlement(hashes, total) ==
    [id |-> compute_batch_id(hashes), hashes |-> hashes, total |-> total,
     status |-> "Pending", created_at |-> clock, settled_at |-> None]

compute_reconciliation_state(statuses) ==
    LET count(status) == Cardinality({k \in DOMAIN statuses : statuses[k] = status})
    IN  [total |-> Len(statuses), successful |-> count("Reconciled"),
         failed |-> count("Failed"), pending |-> count("Pending"),
         disputed |-> count("Disputed")]
reconciliation_rate(state) ==
    IF state.total = 0 THEN 100 ELSE (state.successful * 100) \div state.total

-----------------------------------------------------------------------------
(* Masking and access lists.                                                 *)
compute_transaction_content_hash(tx) == <<tx.id, tx.timestamp>>
encrypt_transaction_data(tx, tier) ==
    CASE tier = "Pseudonymous" -> <<tx.source, tx.dest, <<tx.amount, tx.rate>>>>
      [] tier = "Private" -> <<tx.source, tx.dest, tx.from, tx.to, tx.amount, tx.amount_dest>>
      [] tier = "RegulatoryConfidential" -> <<tx.id, tx.timestamp>>
mask_transaction(tx, tier) ==
    [content |-> compute_transaction_content_hash(tx), tier |-> tier,
     encrypted |-> IF requires_encryption(tier)
                   THEN Some(encrypt_transaction_data(tx, tier)) ELSE None]
validate_privacy_configuration(tier, has_decrypters) ==
    requires_encryption(tier) => has_decrypters

create_privacy_acl(hash, read, audit, regulatory, seconds) ==
    [id |-> <<hash, "ACL_V1">>, read |-> read, audit |-> audit, regulatory |-> regulatory,
     expires_at |-> IF seconds > 0 THEN clock + seconds ELSE 0]
acl_expired(acl) == acl.expires_at > 0 /\ clock > acl.expires_at
can_access(acl, who) == ~acl_expired(acl) /\ who \in acl.read \cup acl.audit \cup acl.regulatory
check_access_permission(acl, who) ==
    IF acl_expired(acl) THEN "None"
    ELSE IF who \in acl.regulatory THEN "RegulatoryFull"
    ELSE IF who \in acl.read THEN "Read"
    ELSE IF who \in acl.audit THEN "AuditOnly"
    ELSE "None"

-----------------------------------------------------------------------------
CbdcInit == cbdc = [offline |-> <<>>, batch |-> None, queue |-> <<>>, flushed |-> 0]
TransferInit == transfers = [settlement |-> None, log |-> <<>>, successes |-> 0,
                             volume |-> 0, failures |-> 0]
MaskingInit == masking = [masked |-> None, acl |-> None, tiers |-> EmptyMap]

LastNonce == IF cbdc.offline = <<>> THEN 0 ELSE Last(cbdc.offline).nonce

(* A device hands in a transaction: its nonce, its fields, the queue's room. *)
add_transaction(from, to, dest, amount, rate, nonce) ==
    LET tx == CBDCTransaction(Len(cbdc.offline), from, to, 0, dest, amount, rate)
        offline == create_offline_transaction(tx, nonce)
    IN  /\ Len(cbdc.offline) < MaxRecords
        /\ verify_nonce(LastNonce, nonce)
        /\ validate_pilot_pair(0, dest) /\ validate_transaction(tx)
        /\ validate_offline_transaction(offline)
        /\ Len(cbdc.queue) < QueueSize
        /\ cbdc' = [cbdc EXCEPT !.offline = Append(@, offline),
                                !.queue = Append(@, offline.hash)]

clear_queue == cbdc.queue # <<>> /\ cbdc' = [cbdc EXCEPT !.queue = <<>>, !.flushed = clock]

(* Faulty variant: what failed may be reconciled after all.                  *)
ReconcileAnyway(k) ==
    /\ cbdc.offline[k].status # "Reconciled"
    /\ cbdc' = [cbdc EXCEPT !.offline[k].status = "Reconciled",
                            !.offline[k].reconciled_at = Some(clock)]

reconcile_transaction(k) ==
    /\ cbdc.offline[k].status = "Pending"
    /\ cbdc' = [cbdc EXCEPT !.offline[k].status = "Reconciled",
                            !.offline[k].reconciled_at = Some(clock)]

(* A failed transaction may fail again, which moves its time.                *)
fail_reconciliation(k) ==
    /\ cbdc.offline[k].status # "Reconciled"
    /\ cbdc' = [cbdc EXCEPT !.offline[k].status = "Failed",
                            !.offline[k].reconciled_at = Some(clock)]

(* The total is the caller's and the members are not looked at.              *)
NewBatch(hashes, total) ==
    /\ cbdc.batch = None /\ hashes # <<>> /\ total # 0
    /\ cbdc' = [cbdc EXCEPT !.batch = Some(create_batch_settlement(hashes, total))]

settle_batch ==
    \E batch \in cbdc.batch :
        /\ batch.status = "Pending"
        /\ cbdc' = [cbdc EXCEPT !.batch = Some([batch EXCEPT !.status = "Reconciled",
                                                             !.settled_at = Some(clock)])]

Settle(tx, protocol) ==
    /\ transfers.settlement = None
    /\ tx.amount # 0 /\ tx.amount_dest # 0 /\ tx.rate # 0
    /\ transfers' = [transfers EXCEPT !.settlement =
                   Some([tx |-> tx, protocol |-> protocol, status |-> "Created"])]

AdvanceSettlement(to) ==
    \E settlement \in transfers.settlement :
        /\ is_valid_status_transition(settlement.status, to)
        /\ transfers' = [transfers EXCEPT !.settlement = Some([settlement EXCEPT !.status = to])]

(* increment_count refuses when the log is full.                             *)
log_transaction_success(tx, type) ==
    /\ Len(transfers.log) < MaxCbdcLog
    /\ transfers' = [transfers EXCEPT
          !.log = Append(@, [type |-> type, amount |-> tx.amount, success |-> TRUE]),
          !.successes = @ + 1, !.volume = @ + tx.amount]

log_transaction_failed(tx, type) ==
    /\ Len(transfers.log) < MaxCbdcLog
    /\ transfers' = [transfers EXCEPT
          !.log = Append(@, [type |-> type, amount |-> tx.amount, success |-> FALSE]),
          !.failures = @ + 1]

success_rate ==
    LET total == transfers.successes + transfers.failures
    IN  IF total = 0 THEN 100 ELSE (transfers.successes * 100) \div total

Mask(tx, tier, read, audit, regulatory, seconds) ==
    /\ validate_privacy_configuration(tier, read # {})
    /\ LET masked == mask_transaction(tx, tier)
       IN  masking' = [masking EXCEPT
              !.masked = Some(masked), !.tiers = Put(@, tier, GetOr(@, tier, 0) + 1),
              !.acl = Some(create_privacy_acl(masked.content, read, audit, regulatory, seconds))]

CbdcNext ==
    \/ \E from \in Account, dest \in {0, 1}, amount, rate \in Amount, nonce \in 1..2 :
          add_transaction(from, from, dest, amount, rate, nonce)
    \/ clear_queue \/ settle_batch
    \/ \E total \in Amount : NewBatch(cbdc.queue, total)
    \/ \E k \in DOMAIN cbdc.offline : reconcile_transaction(k) \/ fail_reconciliation(k)

SomeTransaction ==
    {CBDCTransaction(1, from, to, 0, 1, amount, RateScale) :
        from \in Account, to \in Account, amount \in Amount}

TransferNext ==
    \/ \E to \in SettlementStatus : AdvanceSettlement(to)
    \/ \E tx \in SomeTransaction :
          \/ \E protocol \in InteropProtocol : Settle(tx, protocol)
          \/ log_transaction_success(tx, "XFER")
          \/ log_transaction_failed(tx, "XFER")

(* One transaction is masked.                                                *)
MaskingNext ==
    /\ masking.masked = None
    /\ \E tx \in SomeTransaction, tier \in PrivacyTier,
          read, audit, regulatory \in SUBSET Account, seconds \in 0..1 :
          Mask(tx, tier, read, audit, regulatory, seconds)

-----------------------------------------------------------------------------
CbdcTypeOK ==
    /\ \A k \in DOMAIN cbdc.offline : cbdc.offline[k].status \in OfflineStatus
    /\ \A settlement \in transfers.settlement : settlement.status \in SettlementStatus

(* CBDC (cbdc_offline.rs verify_nonce, compute_offline_tx_hash,              *)
(* add_transaction; cbdc_logging.rs increment_count, record_success;         *)
(* cbdc_privacy.rs check_access_permission; cbdc_interop.rs): nonces rise,   *)
(* so no two transactions share a hash and none waits twice; a conversion    *)
(* never pays more than its rate allows, over a path neither; the log and    *)
(* its counters agree and stay within the limit; and an access level is      *)
(* given exactly to those who may access.                                    *)
CbdcSound ==
    /\ \A j, k \in DOMAIN cbdc.offline : j < k =>
          /\ cbdc.offline[j].nonce < cbdc.offline[k].nonce
          /\ cbdc.offline[j].hash # cbdc.offline[k].hash
    /\ \A k \in DOMAIN cbdc.offline : verify_transaction_integrity(cbdc.offline[k])
    /\ Len(cbdc.queue) <= QueueSize /\ IsInjective(cbdc.queue)
    /\ \A k \in DOMAIN cbdc.offline :
          LET tx == cbdc.offline[k].tx
          IN  /\ tx.amount_dest * RateScale <= tx.amount * tx.rate
              /\ \A paid \in compute_final_amount(<<0, 1>>, <<tx.rate, tx.rate>>, tx.amount) :
                    paid * RateScale * RateScale <= tx.amount * tx.rate * tx.rate
    /\ LET state == compute_reconciliation_state(
                        [k \in DOMAIN cbdc.offline |-> cbdc.offline[k].status])
       IN  state.successful + state.failed + state.pending + state.disputed = state.total
    /\ Len(transfers.log) = transfers.successes + transfers.failures
    /\ Len(transfers.log) <= MaxCbdcLog
    /\ success_rate = 100 <=> transfers.failures = 0
    /\ transfers.volume = Total([k \in DOMAIN transfers.log |-> transfers.log[k].amount],
                                {k \in DOMAIN transfers.log : transfers.log[k].success})
    /\ \A acl \in masking.acl, who \in Account :
          can_access(acl, who) <=> check_access_permission(acl, who) # "None"
    /\ \A masked \in masking.masked :
          masked.encrypted = None <=> masked.tier = "Public"

(* Offline money (cbdc_offline.rs reconcile_transaction,                     *)
(* fail_reconciliation): a transaction that failed is never reconciled, and  *)
(* one that was reconciled stays so.                                         *)
OfflineOutcomesFinal ==
    [][\A k \in DOMAIN cbdc.offline :
          cbdc.offline[k].status # "Pending" =>
              cbdc'.offline[k].status = cbdc.offline[k].status]_cbdc
=============================================================================
