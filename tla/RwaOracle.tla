----------------------------- MODULE RwaOracle -----------------------------
(* Price oracles of real-world assets (src/src/rwa_oracle.rs): oracles       *)
(* submit price feeds into a buffer per asset, and a consensus round turns   *)
(* the buffer into the asset's next canonical price. The functions are       *)
(* called directly, so what they wrote before an error stays written.        *)
EXTENDS PlatformHost

CONSTANTS
    Price,            \* prices that oracles report
    Confidence,       \* half-widths they report with them
    Reputation,       \* reputation scores, 0..100 in the code
    StalenessWindow,  \* StalenessWindow, DEFAULT_STALENESS_WINDOW_SECS unless set
    FutureDrift,      \* observations may lie this far ahead, 60 in the code
    MaxPending,       \* MAX_PENDING_FEEDS
    MaxPriceHistory,  \* MAX_PRICE_HISTORY
    MaxSubmissions    \* feeds an oracle submits

VARIABLE rwa
(* [oracles : Oracle(address), assets : Asset(symbol), pending :             *)
(*  PendingFeeds(symbol), latest : LatestPrice(symbol), history :            *)
(*  PriceHistory(symbol), rounds : TotalRounds]                              *)

OracleStatus == {"Active", "Suspended", "Revoked"}

OracleRecord ==
    [reputation_score : Reputation, last_submission_at : Nat,
     total_submissions : Nat, total_rejections : Nat, status : OracleStatus]

AssetRecord == [quorum : Nat, staleness_window_override : Nat, total_updates : Nat]

PriceFeed ==
    [asset_id : Label, price : Nat, confidence : Nat, observed_at : Nat,
     submitted_at : Nat, oracle : Account, integrity_hash : Label \X Nat \X Nat \X Nat]

(* The fields of a published price.                                          *)
CanonicalPrice ==
    {"price", "confidence", "oracle_count", "consensus_at", "oldest_observation",
     "history_index", "chain_hash", "prev_hash"}

RwaInit ==
    rwa = [oracles |-> EmptyMap, assets |-> EmptyMap, pending |-> EmptyMap,
           latest |-> EmptyMap, history |-> EmptyMap, rounds |-> 0]

DefaultQuorum == 2

MaxDeviationBps == 500

-----------------------------------------------------------------------------
register_oracle(address, reputation) ==
    /\ reputation <= 100
    /\ address \notin DOMAIN rwa.oracles
    /\ rwa' = [rwa EXCEPT !.oracles = Put(@, address,
                  [reputation_score |-> reputation, last_submission_at |-> 0,
                   total_submissions |-> 0, total_rejections |-> 0, status |-> "Active"])]

(* Any status may follow any other, Active may follow Revoked.               *)
set_oracle_status(address, status) ==
    /\ address \in DOMAIN rwa.oracles
    /\ rwa' = [rwa EXCEPT !.oracles[address].status = status]

register_rwa_asset(asset, quorum, override) ==
    /\ asset \notin DOMAIN rwa.assets
    /\ rwa' = [rwa EXCEPT !.assets = Put(@, asset,
                  [quorum |-> IF quorum = None THEN DefaultQuorum ELSE The(quorum),
                   staleness_window_override |-> override, total_updates |-> 0])]

WindowOf(asset) ==
    IF rwa.assets[asset].staleness_window_override > 0
    THEN rwa.assets[asset].staleness_window_override
    ELSE StalenessWindow

(* now.saturating_sub(observed_at) <= window                                 *)
WithinWindow(observed_at, window) == clock <= observed_at + window

compute_feed_hash(asset, price, confidence, observed_at) ==
    <<asset, price, confidence, observed_at>>

(* A full buffer is emptied: the feeds in it are forgotten.                  *)
Buffered(pending, feed) ==
    IF Len(pending) >= MaxPending THEN <<feed>> ELSE Append(pending, feed)

submit_price_feed(address, asset, price, confidence, observed_at) ==
    /\ address \in DOMAIN rwa.oracles /\ rwa.oracles[address].status = "Active"
    /\ asset \in DOMAIN rwa.assets
    /\ price # 0 /\ confidence < price \div 2
    /\ observed_at <= clock + FutureDrift
    /\ WithinWindow(observed_at, WindowOf(asset))
    /\ rwa.oracles[address].total_submissions < MaxSubmissions
    /\ rwa' = [rwa EXCEPT
                 !.pending = Put(@, asset, Buffered(ListUnder(@, asset),
                    [asset_id |-> asset, price |-> price, confidence |-> confidence,
                     observed_at |-> observed_at, submitted_at |-> clock, oracle |-> address,
                     integrity_hash |-> compute_feed_hash(asset, price, confidence, observed_at)])),
                 !.oracles[address].total_submissions = @ + 1,
                 !.oracles[address].last_submission_at = clock]

-----------------------------------------------------------------------------
(* Consensus.                                                                *)

is_feed_stale(feed, window) == ~WithinWindow(feed.observed_at, window)

verify_feed_integrity(feed) ==
    /\ feed.price # 0
    /\ feed.confidence < feed.price \div 2
    /\ feed.integrity_hash =
          compute_feed_hash(feed.asset_id, feed.price, feed.confidence, feed.observed_at)

ValidFeeds(feeds, window) ==
    SelectSeq(feeds, LAMBDA f : ~is_feed_stale(f, window) /\ verify_feed_integrity(f))

(* One round of the insertion sort: larger prices move up, equal ones stay.  *)
InsertPrice(sorted, price) ==
    SelectSeq(sorted, LAMBDA p : p <= price) \o <<price>>
        \o SelectSeq(sorted, LAMBDA p : p > price)

(* The upper median of an even number of prices.                             *)
MedianOf(feeds) ==
    LET prices == [k \in DOMAIN feeds |-> feeds[k].price]
    IN  FoldLeft(InsertPrice, <<>>, prices)[Len(prices) \div 2 + 1]

Survivors(feeds) ==
    LET median == MedianOf(feeds)
        cap    == (median * MaxDeviationBps) \div 10000
    IN  SelectSeq(feeds, LAMBDA f : f.price <= median + cap /\ f.price >= median - cap)

Failed(result) == [result |-> result, price |-> 0, confidence |-> 0, count |-> 0]

(* An oracle weighs as much as its reputation now says.                      *)
WeightedMean(feeds) ==
    LET weight == [k \in DOMAIN feeds |-> rwa.oracles[feeds[k].oracle].reputation_score]
        sum    == Total(weight, DOMAIN feeds)
    IN  IF sum = 0 THEN Failed("InsufficientQuorum")
        ELSE [result |-> "Accepted",
              price |-> Total([k \in DOMAIN feeds |-> feeds[k].price * weight[k]],
                              DOMAIN feeds) \div sum,
              confidence |-> Total([k \in DOMAIN feeds |-> feeds[k].confidence],
                                   DOMAIN feeds) \div Len(feeds),
              count |-> Len(feeds)]

run_consensus(feeds, window, quorum) ==
    LET valid == ValidFeeds(feeds, window)
    IN  IF Len(valid) < quorum
        THEN Failed(IF valid = <<>> /\ feeds # <<>> THEN "AllStale" ELSE "InsufficientQuorum")
        ELSE IF Survivors(valid) = <<>> THEN Failed("DeviationExceeded")
        ELSE WeightedMean(Survivors(valid))

(* With a quorum of zero and no valid feed there is no median: a panic.      *)
HasMedian(asset) ==
    \/ rwa.assets[asset].quorum > 0
    \/ ValidFeeds(ListUnder(rwa.pending, asset), WindowOf(asset)) # <<>>

Round(asset) ==
    run_consensus(ListUnder(rwa.pending, asset), WindowOf(asset), rwa.assets[asset].quorum)

(* A failed round counts every feed against its oracle.                      *)
RejectFeeds(asset, feeds) ==
    rwa' = [rwa EXCEPT
              !.oracles = [a \in DOMAIN @ |-> [@[a] EXCEPT !.total_rejections =
                              @ + Cardinality({k \in DOMAIN feeds : feeds[k].oracle = a})]],
              !.pending = Put(@, asset, <<>>)]

ZeroHash == <<>>

compute_canonical_hash(asset, price, consensus_at, prev_hash) ==
    <<asset, price, consensus_at, prev_hash>>

(* The oldest observation is sought among all feeds, stale ones and outliers *)
(* too, and is never later than the round.                                   *)
OldestObservation(feeds) ==
    LET seen == {clock} \cup {feeds[k].observed_at : k \in DOMAIN feeds}
    IN  CHOOSE t \in seen : \A u \in seen : t <= u

CanonicalOf(asset, feeds, round) ==
    LET history == ListUnder(rwa.history, asset)
        prev    == IF history = <<>> THEN ZeroHash ELSE Last(history).chain_hash
    IN  [price |-> round.price, confidence |-> round.confidence,
         oracle_count |-> round.count, consensus_at |-> clock,
         oldest_observation |-> OldestObservation(feeds),
         history_index |-> Len(history), prev_hash |-> prev,
         chain_hash |-> compute_canonical_hash(asset, round.price, clock, prev)]

(* A full history keeps its entries, the latest price moves on.              *)
PublishPrice(asset, canonical) ==
    rwa' = [rwa EXCEPT
              !.history = IF canonical.history_index < MaxPriceHistory
                          THEN PushTo(@, asset, canonical) ELSE @,
              !.latest = Put(@, asset, canonical),
              !.assets[asset].total_updates = @ + 1,
              !.rounds = @ + 1,
              !.pending = Put(@, asset, <<>>)]

process_consensus(asset) ==
    LET feeds == ListUnder(rwa.pending, asset)
        round == Round(asset)
    IN  /\ asset \in DOMAIN rwa.assets
        /\ feeds # <<>>
        /\ HasMedian(asset)
        /\ IF round.result = "Accepted"
           THEN PublishPrice(asset, CanonicalOf(asset, feeds, round))
           ELSE RejectFeeds(asset, feeds)

is_latest_price_stale(asset) ==
    \/ asset \notin DOMAIN rwa.latest
    \/ clock > rwa.latest[asset].consensus_at + StalenessWindow

RwaNext ==
    \/ \E a \in Account, r \in Reputation : register_oracle(a, r)
    \/ \E a \in Account, s \in OracleStatus : set_oracle_status(a, s)
    \/ \E l \in Label, q \in {None, Some(0), Some(1)}, w \in 0..1 : register_rwa_asset(l, q, w)
    \/ \E a \in Account, l \in Label, p \in Price, c \in Confidence, t \in 0..(MaxClock + 1) :
          submit_price_feed(a, l, p, c, t)
    \/ \E l \in Label : process_consensus(l)

-----------------------------------------------------------------------------
RwaTypeOK ==
    /\ \A a \in DOMAIN rwa.oracles : rwa.oracles[a] \in OracleRecord
    /\ \A l \in DOMAIN rwa.assets : rwa.assets[l] \in AssetRecord
    /\ \A l \in DOMAIN rwa.pending :
          \A k \in DOMAIN rwa.pending[l] : rwa.pending[l][k] \in PriceFeed
    /\ \A l \in DOMAIN rwa.latest : DOMAIN rwa.latest[l] = CanonicalPrice

(* Whatever the buffer holds, a round accepts no price that its fresh feeds  *)
(* do not span or that lies further from their median than the cap; half of  *)
(* them are no higher and half no lower than that median; and since the      *)
(* median itself always survives the filter, no round fails on deviation.    *)
RoundsSound ==
    \A l \in DOMAIN rwa.assets : ListUnder(rwa.pending, l) # <<>> /\ HasMedian(l) =>
        LET valid  == ValidFeeds(rwa.pending[l], WindowOf(l))
            n      == Len(valid)
            median == MedianOf(valid)
            round  == Round(l)
        IN  /\ round.result # "DeviationExceeded"
            /\ round.result = "Accepted" =>
                /\ Cardinality({k \in 1..n : valid[k].price < median}) <= n \div 2
                /\ Cardinality({k \in 1..n : valid[k].price <= median}) > n \div 2
                /\ \E lo, hi \in 1..n :
                      valid[lo].price <= round.price /\ round.price <= valid[hi].price
                /\ 20 * (round.price - median) <= median
                /\ 20 * (median - round.price) <= median

(* A feed is rejected at most once, and only after it was counted as         *)
(* submitted: what an oracle has rejected or waiting it submitted.           *)
FeedsAccounted ==
    \A a \in DOMAIN rwa.oracles :
        LET waiting(l) == {k \in DOMAIN rwa.pending[l] : rwa.pending[l][k].oracle = a}
        IN  rwa.oracles[a].total_rejections
              + Total([l \in DOMAIN rwa.pending |-> Cardinality(waiting(l))], DOMAIN rwa.pending)
                <= rwa.oracles[a].total_submissions

(* The history of an asset is a chain in time order, complete up to its cap; *)
(* the latest price is its last entry or, beyond the cap, chained to it, and *)
(* names no observation later than its round.                                *)
PricesChained ==
    /\ rwa.rounds = Total([l \in DOMAIN rwa.assets |-> rwa.assets[l].total_updates],
                          DOMAIN rwa.assets)
    /\ \A l \in DOMAIN rwa.latest :
        LET h       == rwa.history[l]
            latest  == rwa.latest[l]
            updates == rwa.assets[l].total_updates
        IN  /\ Len(h) = IF updates < MaxPriceHistory THEN updates ELSE MaxPriceHistory
            /\ \A k \in DOMAIN h :
                  /\ h[k].prev_hash = IF k = 1 THEN ZeroHash ELSE h[k - 1].chain_hash
                  /\ k > 1 => h[k - 1].consensus_at <= h[k].consensus_at
            /\ latest = Last(h) \/ (updates > Len(h) /\ latest.prev_hash = Last(h).chain_hash)
            /\ latest.oldest_observation <= latest.consensus_at

PricesSound == RoundsSound /\ FeedsAccounted /\ PricesChained
=============================================================================
