------------------------------ MODULE Markets ------------------------------
(* Four contracts that trade on what the ledger records: prediction markets  *)
(* (src/src/prediction_markets.rs), their oracle                             *)
(* (src/src/prediction_market_oracle.rs), parametric insurance               *)
(* (src/src/parametric_insurance.rs) and the cache of balances attested from *)
(* another chain (src/src/cross_chain_bridge.rs). Amounts are unsigned and   *)
(* checked: a difference below zero or a division by zero panics.            *)
EXTENDS PlatformHost

CONSTANTS
    Liquidity,    \* initial liquidity of a market
    MaxShares     \* shares outstanding on one side

VARIABLES
    market,     \* [open, markets, positions]
    oracle,     \* [ready, providers, prices, aggregated, thresholds]
    insurance,  \* [config, pools, policies, claims, shares, premiums]
    bridge      \* [config, relays, listed, pending, cache, attested]

PriceScale == 10000

MarketStatus == {"Active", "Closed", "Resolved"}
Side == {"yes", "no"}
Other(side) == IF side = "yes" THEN "no" ELSE "yes"

MarketRecord ==
    [status : MarketStatus, trading_deadline : Nat, outcome : SUBSET (Side \cup {"invalid"}),
     seed : Nat, shares : [Side -> Nat], price : [Side -> Nat], oracle : Account, fee_bps : Nat]

MarketInit == market = [open |-> FALSE, markets |-> <<>>, positions |-> EmptyMap]

initialize_markets ==
    /\ ~market.open
    /\ market' = [market EXCEPT !.open = TRUE]

(* Half of the liquidity is counted as shares of each side.                  *)
create_market(liquidity, trading, resolution, oracle_address, fee_bps) ==
    /\ market.open
    /\ trading > 0 /\ resolution > trading
    /\ Len(market.markets) < 1
    /\ market' = [market EXCEPT !.markets = Append(@,
                     [status |-> "Active", trading_deadline |-> clock + trading,
                      outcome |-> None, seed |-> liquidity \div 2,
                      shares |-> [s \in Side |-> liquidity \div 2],
                      price |-> [s \in Side |-> 5000],
                      oracle |-> oracle_address, fee_bps |-> fee_bps])]

NoPosition == [yes |-> 0, no |-> 0, cost_basis |-> 0, settled |-> FALSE]
PositionOf(user, id) == GetOr(market.positions, <<user, id>>, NoPosition)

Tradable(m) == m.status = "Active" /\ clock <= m.trading_deadline

buy_shares(buyer, id, side, quantity, max_price) ==
    LET m     == market.markets[id]
        pool  == m.shares["yes"] + m.shares["no"] + quantity
        price == (m.shares[Other(side)] * PriceScale) \div pool
        p     == PositionOf(buyer, id)
    IN  /\ Tradable(m)
        /\ pool > 0
        /\ price <= max_price
        /\ m.shares[side] + quantity <= MaxShares
        /\ p.cost_basis < MaxRecords
        /\ market' = [market EXCEPT
             !.positions = Put(@, <<buyer, id>>,
                [p EXCEPT ![side] = @ + quantity,
                          !.cost_basis = @ + (quantity * price) \div PriceScale]),
             !.markets[id].shares[side] = @ + quantity,
             !.markets[id].price[side] = price]

(* The cost basis stays what all purchases cost.                             *)
sell_shares(seller, id, side, quantity, min_price) ==
    LET m     == market.markets[id]
        pool  == m.shares["yes"] + m.shares["no"] - quantity
        price == (m.shares[Other(side)] * PriceScale) \div pool
    IN  /\ Tradable(m)
        /\ <<seller, id>> \in DOMAIN market.positions
        /\ market.positions[<<seller, id>>][side] >= quantity
        /\ pool > 0
        /\ price >= min_price
        /\ market' = [market EXCEPT
             !.positions[<<seller, id>>][side] = @ - quantity,
             !.markets[id].shares[side] = @ - quantity,
             !.markets[id].price[side] = price]

(* On the last ledger of trading a market can already be closed.             *)
close_market(id) ==
    /\ clock >= market.markets[id].trading_deadline
    /\ market.markets[id].status = "Active"
    /\ market' = [market EXCEPT !.markets[id].status = "Closed"]

(* The resolution deadline is not looked at.                                 *)
resolve_market(caller, id, outcome) ==
    /\ caller = market.markets[id].oracle
    /\ market.markets[id].status = "Closed"
    /\ market' = [market EXCEPT !.markets[id].outcome = Some(outcome),
                                !.markets[id].status = "Resolved"]

(* A share of the winning side's supply, in ten-thousandths; the cost basis  *)
(* when the market is invalid. The fee is taken off.                         *)
Gross(position, m) ==
    LET outcome == The(m.outcome)
    IN  IF outcome = "invalid" THEN position.cost_basis
        ELSE (position[outcome] * PriceScale) \div m.shares[outcome]

NetPayout(position, m) ==
    Gross(position, m) - ((Gross(position, m) * m.fee_bps) \div PriceScale)

(* Settling again returns nothing.                                           *)
settle_position(user, id) ==
    /\ market.markets[id].status = "Resolved"
    /\ <<user, id>> \in DOMAIN market.positions
    /\ ~market.positions[<<user, id>>].settled
    /\ \A o \in market.markets[id].outcome \cap Side : market.markets[id].shares[o] > 0
    /\ market' = [market EXCEPT !.positions[<<user, id>>].settled = TRUE]

MarketNext ==
    \/ initialize_markets
    \/ \E x \in Liquidity, t, r \in 0..2, a \in Account : create_market(x, t, r, a, 100)
    \/ \E a \in Account, k \in DOMAIN market.markets, s \in Side,
         q \in Amount, p \in {5000, PriceScale} :
           buy_shares(a, k, s, q, p)
    \/ \E a \in Account, k \in DOMAIN market.markets, s \in Side, q \in Amount :
           sell_shares(a, k, s, q, 0)
    \/ \E k \in DOMAIN market.markets : close_market(k)
    \/ \E a \in Account, k \in DOMAIN market.markets, o \in Side \cup {"invalid"} :
           resolve_market(a, k, o)
    \/ \E a \in Account, k \in DOMAIN market.markets : settle_position(a, k)

-----------------------------------------------------------------------------
OracleInit ==
    oracle = [ready |-> FALSE, providers |-> EmptyMap, prices |-> EmptyMap,
              aggregated |-> {}, thresholds |-> EmptyMap]

initialize_oracle ==
    /\ ~oracle.ready
    /\ oracle' = [oracle EXCEPT !.ready = TRUE]

register_provider(provider) ==
    /\ oracle.ready
    /\ provider \notin DOMAIN oracle.providers
    /\ oracle' = [oracle EXCEPT !.providers =
                      Put(@, provider, [active |-> TRUE, valid_reports |-> 0])]

deactivate_provider(provider) ==
    /\ provider \in DOMAIN oracle.providers
    /\ oracle' = [oracle EXCEPT !.providers[provider].active = FALSE]

(* A provider's latest price replaces its earlier one.                       *)
submit_price(provider, feed, value) ==
    /\ provider \in DOMAIN oracle.providers
    /\ oracle.providers[provider].active
    /\ oracle.providers[provider].valid_reports < MaxRecords
    /\ oracle' = [oracle EXCEPT !.prices = Put(@, <<feed, provider>>, value),
                                !.providers[provider].valid_reports = @ + 1]

(* A placeholder in the code: the prices are not read, the median is zero.   *)
aggregate_prices(feed) ==
    /\ oracle.ready
    /\ oracle' = [oracle EXCEPT !.aggregated = @ \cup {feed}]

MedianPrice(feed) == 0

set_outcome_threshold(id, feed, threshold, deadline) ==
    /\ oracle.ready
    /\ oracle' = [oracle EXCEPT !.thresholds =
                      Put(@, id, [feed |-> feed, threshold |-> threshold, deadline |-> deadline])]

(* The outcome, or nothing where the call panics.                            *)
get_market_outcome(id) ==
    IF id \in DOMAIN oracle.thresholds
       /\ clock <= oracle.thresholds[id].deadline
       /\ oracle.thresholds[id].feed \in oracle.aggregated
    THEN IF MedianPrice(oracle.thresholds[id].feed) >= oracle.thresholds[id].threshold
         THEN Some("yes") ELSE Some("no")
    ELSE None

OracleNext ==
    \/ initialize_oracle
    \/ \E a \in Account : register_provider(a) \/ deactivate_provider(a)
    \/ \E a \in Account, f \in Label : submit_price(a, f, 1)
    \/ \E f \in Label : aggregate_prices(f)
    \/ \E f \in Label, x \in {0, 1} : set_outcome_threshold(1, f, x, 1)

-----------------------------------------------------------------------------
InsuranceConfig == [min_coverage : {1}, max_coverage : {2}, solvency_ratio_bps : {0, 5000}]

InsuranceInit ==
    insurance = [config |-> None, pools |-> <<>>, policies |-> <<>>, claims |-> <<>>,
                 shares |-> EmptyMap, premiums |-> 0]

initialize_insurance(config) ==
    /\ insurance.config = None
    /\ insurance' = [insurance EXCEPT !.config = Some(config)]

create_capital_pool(premium_share_bps) ==
    /\ Len(insurance.pools) < 1
    /\ insurance' = [insurance EXCEPT !.pools = Append(@,
                        [total |-> 0, available |-> 0, reserved |-> 0, paid |-> 0,
                         policy_ids |-> <<>>, premium_share_bps |-> premium_share_bps])]

(* The share recorded is that of this contribution alone.                    *)
contribute_to_pool(underwriter, pool, amount) ==
    LET before == insurance.pools[pool].total
        share  == GetOr(insurance.shares, <<underwriter, pool>>, [capital |-> 0, bps |-> 0])
        bps    == IF before > 0 THEN (amount * PriceScale) \div (before + amount) ELSE PriceScale
    IN  /\ before + amount <= MaxShares
        /\ insurance' = [insurance EXCEPT
              !.pools[pool].total = @ + amount,
              !.pools[pool].available = @ + amount,
              !.shares = Put(@, <<underwriter, pool>>,
                             [capital |-> share.capital + amount, bps |-> bps])]

purchase_policy(holder, pool, coverage, duration, max_claims, deductible) ==
    LET config == The(insurance.config)
        id     == Len(insurance.policies) + 1
    IN  /\ insurance.config # None
        /\ coverage \in config.min_coverage..config.max_coverage
        /\ insurance.pools[pool].available >= coverage
        /\ id <= MaxRecords
        /\ insurance' = [insurance EXCEPT
              !.policies = Append(@, [holder |-> holder, coverage |-> coverage, pool |-> pool,
                              expiration |-> clock + duration, max_claims |-> max_claims,
                              filed |-> 0, deductible |-> deductible, status |-> "Active"]),
              !.pools[pool].available = @ - coverage,
              !.pools[pool].reserved = @ + coverage,
              !.pools[pool].policy_ids = Append(@, id)]

(* A payment revives a policy that was cancelled, without reserving again.   *)
pay_premium(payer, id, premium) ==
    LET policy == insurance.policies[id]
        share  == (premium * insurance.pools[policy.pool].premium_share_bps) \div PriceScale
    IN  /\ payer = policy.holder
        /\ clock <= policy.expiration
        /\ insurance.premiums < MaxRecords
        /\ insurance' = [insurance EXCEPT !.policies[id].status = "Active",
                                          !.premiums = @ + share]

(* In any status; the reserve is released each time, as far as it reaches.   *)
cancel_policy(caller, id) ==
    LET policy == insurance.policies[id]
    IN  /\ caller = policy.holder
        /\ insurance.pools[policy.pool].reserved >= policy.coverage
        /\ insurance' = [insurance EXCEPT
              !.pools[policy.pool].available = @ + policy.coverage,
              !.pools[policy.pool].reserved = @ - policy.coverage,
              !.policies[id].status = "Cancelled"]

(* Faulty variant: the pool pays out without being asked for solvency.       *)
ClaimUnchecked(id) ==
    LET policy == insurance.policies[id]
        payout == IF policy.coverage > policy.deductible
                  THEN policy.coverage - policy.deductible ELSE 0
    IN  /\ policy.status = "Active" /\ clock <= policy.expiration
        /\ policy.filed < policy.max_claims
        /\ insurance' = [insurance EXCEPT
              !.claims = Append(@, [policy |-> id,
                                    verified_loss |-> policy.coverage, payout |-> payout]),
              !.policies[id].filed = @ + 1,
              !.pools[policy.pool].available = @ - payout,
              !.pools[policy.pool].paid = @ + payout,
              !.pools[policy.pool].reserved = @ - policy.coverage]

(* Anyone may claim and the loss is the coverage: the oracle's proof is not  *)
(* read. The payout comes out of the capital that is available, and the      *)
(* reserve of the whole coverage goes as well; the policy stays active.      *)
file_claim(id) ==
    LET policy  == insurance.policies[id]
        pool    == insurance.pools[policy.pool]
        payout  == IF policy.coverage > policy.deductible
                   THEN policy.coverage - policy.deductible ELSE 0
        reserve == (pool.total * The(insurance.config).solvency_ratio_bps) \div PriceScale
    IN  /\ policy.status = "Active"
        /\ clock <= policy.expiration
        /\ policy.filed < policy.max_claims
        /\ pool.available >= reserve + payout
        /\ pool.reserved >= policy.coverage
        /\ insurance' = [insurance EXCEPT
              !.claims = Append(@, [policy |-> id,
                                    verified_loss |-> policy.coverage, payout |-> payout]),
              !.policies[id].filed = @ + 1,
              !.pools[policy.pool].available = @ - payout,
              !.pools[policy.pool].paid = @ + payout,
              !.pools[policy.pool].reserved = @ - policy.coverage]

InsuranceNext ==
    \/ \E c \in InsuranceConfig : initialize_insurance(c)
    \/ create_capital_pool(5000)
    \/ \E a \in Account, p \in DOMAIN insurance.pools, x \in Amount : contribute_to_pool(a, p, x)
    \/ \E a \in Account, p \in DOMAIN insurance.pools, x \in Amount :
           purchase_policy(a, p, x, 1, 2, 1)
    \/ \E a \in Account, k \in DOMAIN insurance.policies : pay_premium(a, k, 2)
    \/ \E a \in Account, k \in DOMAIN insurance.policies : cancel_policy(a, k)
    \/ \E k \in DOMAIN insurance.policies : file_claim(k)

-----------------------------------------------------------------------------
(* Auxiliary: bridge.attested, every balance a relay has attested.           *)
BridgeInit ==
    bridge = [config |-> None, relays |-> EmptyMap, listed |-> <<>>, pending |-> EmptyMap,
              cache |-> EmptyMap, attested |-> {}]

(* May be called again: the list is emptied, the relays stay.                *)
initialize_bridge(threshold, ttl) ==
    /\ threshold > 0
    /\ bridge' = [bridge EXCEPT !.config = Some([threshold |-> threshold, ttl |-> ttl]),
                                !.listed = <<>>]

register_relay(relay) ==
    /\ bridge.config # None
    /\ relay \notin DOMAIN bridge.relays
    /\ bridge' = [bridge EXCEPT !.relays = Put(@, relay, [active |-> TRUE]),
                                !.listed = Append(@, relay)]

deactivate_relay(relay) ==
    /\ relay \in DOMAIN bridge.relays
    /\ bridge' = [bridge EXCEPT !.relays[relay].active = FALSE]

(* Of the addresses and the signature only the length is checked; what is    *)
(* attested are well-formed ones. The age test can never fail.               *)
submit_attestation(relay, user, token_id, balance) ==
    /\ relay \in DOMAIN bridge.relays
    /\ bridge.relays[relay].active
    /\ Cardinality(bridge.attested) <= MaxRecords
    /\ bridge' = [bridge EXCEPT
          !.pending = Put(@, <<relay, user>>, [token_id |-> token_id, balance |-> balance]),
          !.attested = @ \cup {<<relay, user, balance>>}]

(* One attestation is enough whatever the threshold, the token id is the     *)
(* caller's, and the relay may have been deactivated since.                  *)
accept_attestation(relay, user, token_id) ==
    /\ <<relay, user>> \in DOMAIN bridge.pending
    /\ bridge' = [bridge EXCEPT !.cache =
          Put(@, <<user, token_id>>,
              [balance |-> bridge.pending[<<relay, user>>].balance,
               verified_at |-> clock, ttl |-> The(bridge.config).ttl,
               verified_by |-> relay, confirmations |-> 1])]

(* The balance, or nothing where the call panics.                            *)
get_verified_balance(user, token_id) ==
    IF <<user, token_id>> \notin DOMAIN bridge.cache THEN Some(0)
    ELSE LET record == bridge.cache[<<user, token_id>>]
         IN  IF clock > record.verified_at + record.ttl THEN None ELSE Some(record.balance)

(* Records keep the time to live they were made with.                        *)
update_bridge_config(threshold, ttl) ==
    /\ bridge.config # None
    /\ threshold > 0
    /\ bridge' = [bridge EXCEPT !.config = Some([threshold |-> threshold, ttl |-> ttl])]

BridgeNext ==
    \/ \E n \in 0..1 : initialize_bridge(n, 1)
    \/ \E a \in Account : register_relay(a) \/ deactivate_relay(a)
    \/ \E a \in Account, u \in Label, x \in Amount : submit_attestation(a, u, 1, x)
    \/ \E a \in Account, u \in Label : accept_attestation(a, u, 1)
    \/ \E n \in 0..1 : update_bridge_config(n, 0)

-----------------------------------------------------------------------------
MarketsTypeOK ==
    /\ market.markets \in Seq(MarketRecord)
    /\ insurance.config \in SUBSET InsuranceConfig
    /\ \A p \in DOMAIN insurance.pools :
           {insurance.pools[p].available, insurance.pools[p].reserved,
            insurance.pools[p].paid} \subseteq Nat

(* The supply of a side is the seed and what its holders own, so that the    *)
(* payouts of a decided market never exceed the whole.                       *)
SupplyHeld ==
    \A k \in DOMAIN market.markets :
        LET holders == {p \in DOMAIN market.positions : p[2] = k}
            m == market.markets[k]
        IN  /\ \A s \in Side : m.shares[s] =
                   m.seed + Total([p \in holders |-> market.positions[p][s]], holders)
            /\ m.status = "Resolved" /\ The(m.outcome) \in Side /\ m.shares[The(m.outcome)] > 0 =>
                   Total([p \in holders |-> NetPayout(market.positions[p], m)], holders)
                     <= PriceScale
            /\ m.status # "Active" => clock >= m.trading_deadline

(* Capital is contributed, available, reserved, paid out, or was the reserve *)
(* of a claimed policy: nothing else happens to it, and a pool never owes.   *)
CapitalAccounted ==
    \A p \in DOMAIN insurance.pools :
        LET pool   == insurance.pools[p]
            givers == {s \in DOMAIN insurance.shares : s[2] = p}
            losses == {c \in DOMAIN insurance.claims :
                           insurance.policies[insurance.claims[c].policy].pool = p}
            released == Total([c \in losses |-> insurance.claims[c].verified_loss], losses)
        IN  /\ pool.total = Total([s \in givers |-> insurance.shares[s].capital], givers)
            /\ pool.total = pool.available + pool.reserved + pool.paid + released
            /\ {pool.available, pool.reserved} \subseteq Nat

(* What the cache answers was attested by the relay it names, for that user; *)
(* an answer is never older than the time to live it was recorded with.      *)
BalancesAttested ==
    \A key \in DOMAIN bridge.cache :
        /\ <<bridge.cache[key].verified_by, key[1], bridge.cache[key].balance>> \in bridge.attested
        /\ bridge.cache[key].verified_by \in DOMAIN bridge.relays
        /\ get_verified_balance(key[1], key[2]) # None =>
               clock - bridge.cache[key].verified_at <= bridge.cache[key].ttl

(* The oracle decides only from a feed that was aggregated, before its       *)
(* deadline, and a provider that reported was registered.                    *)
OutcomesFromFeeds ==
    /\ \A key \in DOMAIN oracle.prices : key[2] \in DOMAIN oracle.providers
    /\ \A id \in DOMAIN oracle.thresholds :
           get_market_outcome(id) = Some("yes") => oracle.thresholds[id].threshold = 0

(* Markets: supply and payouts, insured capital, attested balances and       *)
(* outcomes are accounted for (prediction_markets.rs buy_shares,             *)
(* sell_shares, settle_position; parametric_insurance.rs file_claim,         *)
(* cancel_policy; cross_chain_bridge.rs accept_attestation;                  *)
(* prediction_market_oracle.rs get_market_outcome).                          *)
MarketsAccounted ==
    SupplyHeld /\ CapitalAccounted /\ BalancesAttested /\ OutcomesFromFeeds
=============================================================================
