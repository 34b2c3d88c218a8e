----------------------------- MODULE LedgerLog -----------------------------
(* Appending to the log: log_event and its variants (nonce, signature,      *)
(* custom deduplication key), the batch entry point log_events, and the     *)
(* nonce configuration.                                                      *)
(*                                                                           *)
(* The index lists (packed bytes in the contract) are sets of positions:     *)
(* positions are pushed in increasing order, so the k-th entry of the list   *)
(* is the k-th smallest member of the set.                                   *)
EXTENDS LedgerState

-----------------------------------------------------------------------------
(* Rate limit.                                                               *)

(* Events counted against s at the current timestamp.                        *)
RateUsed(s) == IF rateState[s].ts = now THEN rateState[s].count ELSE 0

RateLimited(s) == s \in DOMAIN limits.rate

(* The counter after log_event; only a limited submitter has one.            *)
RateCharged(s) ==
    IF RateLimited(s)
    THEN [rateState EXCEPT ![s] = [ts |-> now, count |-> RateUsed(s) + 1]]
    ELSE rateState

-----------------------------------------------------------------------------
(* Faulty variant: a submitter missing from the allowlist gets through.      *)
MayLogUnlisted(s, t, m) ==
    /\ require_role_min(s, "Submitter")
    /\ ~guard /\ ~access.paused /\ s \notin access.blocked
    /\ RateLimited(s) => RateUsed(s) < limits.rate[s]
    /\ MetadataAllowed(t, m)
    /\ rs.total < rs.max

(* Admission checks of log_event, in any order: each one panics.             *)
MayLog(s, t, m) ==
    /\ require_role_min(s, "Submitter")
    /\ ~guard
    /\ ~access.paused
    /\ s \notin access.blocked
    /\ access.allowMode => s \in access.allowed
    /\ RateLimited(s) => RateUsed(s) < limits.rate[s]
    /\ MetadataAllowed(t, m)
    /\ rs.total < rs.max
    /\ t \in DOMAIN limits.cap => event_type_count(t) < limits.cap[t]

(* Timestamp monotonicity and drift, checked for events that are stored.     *)
TimestampInRange ==
    cfg.total > 0 => /\ EventAt(cfg.total - 1).timestamp <= now
                     /\ now <= EventAt(cfg.total - 1).timestamp + MaxDrift

-----------------------------------------------------------------------------
(* Deduplication.                                                            *)

(* Faulty variant: only a duplicate of the same timestamp is recognised.     *)
DuplicatesThisInstant(s, t, m, h, key) ==
    LET c == compute_content_hash(t, s, m, h)
    IN  {i \in DOMAIN order : /\ c \in DOMAIN dedup.content
                              /\ dedup.content[c] = i
                              /\ EventAt(i).timestamp = now}

(* The positions already recorded for the same content under the effective   *)
(* policy: at most one. key is the optional custom key.                      *)
DuplicatesOf(s, t, m, h, key) ==
    LET c == compute_content_hash(t, s, m, h)
        policy == effective_dedup_policy(t)
    IN  {i \in DOMAIN order :
            \/ /\ policy = "ContentHash"
               /\ c \in DOMAIN dedup.content
               /\ dedup.content[c] = i
            \/ /\ policy = "ContentHashWithTimestamp"
               /\ c \in DOMAIN dedup.contentTs
               /\ dedup.contentTs[c] = [index |-> i, ts |-> now]
            \/ /\ policy = "Custom"
               /\ \E k \in key : k \in DOMAIN dedup.custom /\ dedup.custom[k] = i}

(* Faulty variant: records the position after the one that was stored.       *)
RecordedLate(s, t, m, h, key, i) ==
    [dedup EXCEPT !.content = Put(@, compute_content_hash(t, s, m, h), i + 1)]

(* The maps after storing position i: the effective policy's map records it, *)
(* forced events included.                                                   *)
Recorded(s, t, m, h, key, i) ==
    LET c == compute_content_hash(t, s, m, h)
        policy == effective_dedup_policy(t)
    IN  CASE policy = "ContentHash" ->
                [dedup EXCEPT !.content = Put(@, c, i)]
          [] policy = "ContentHashWithTimestamp" ->
                [dedup EXCEPT !.contentTs = Put(@, c, [index |-> i, ts |-> now])]
          [] policy = "Custom" /\ key # {} ->
                [dedup EXCEPT !.custom = Put(@, CHOOSE k \in key : TRUE, i)]
          [] OTHER -> dedup

-----------------------------------------------------------------------------
(* Storing.                                                                  *)

(* The indexes after pushing position i: nothing in low-cost mode. The       *)
(* cached count is the length read before the push when the type is capped,  *)
(* after it when it is not, plus one.                                        *)
Indexed(s, t, i) ==
    IF access.lowCost THEN index
    ELSE LET pushed == index.types[t] \cup {i}
             counted == IF t \in DOMAIN limits.cap THEN index.types[t] ELSE pushed
         IN  [types      |-> [index.types EXCEPT ![t] = pushed],
              counts     |-> [index.counts EXCEPT ![t] = Cardinality(counted) + 1],
              submitters |-> [index.submitters EXCEPT ![s] = @ \cup {i}]]

NewEvent(s, t, m, cat, i, id, prev) ==
    [index |-> i, timestamp |-> now, event_type |-> t, category |-> cat,
     submitter |-> s, metadata |-> m, prev_hash |-> prev,
     event_hash |-> compute_event_hash(id, prev, i, now)]

(* Faulty variant: RuntimeState is not synchronised.                         *)
TotalsConfigOnly(n) == cfg' = [cfg EXCEPT !.total = n] /\ UNCHANGED rs

(* Config and RuntimeState both carry the total.                             *)
Totals(n) == /\ cfg' = [cfg EXCEPT !.total = n]
             /\ rs' = [rs EXCEPT !.total = n]

NextId(s, t, m, h) == compute_event_id(s, t, m, now, cfg.total, h)

(* The path of log_event_with_hierarchy that stores a new event.             *)
StoreEvent(s, t, m, cat, h, key) ==
    LET i  == cfg.total
        id == NextId(s, t, m, h)
    IN  /\ TimestampInRange
        /\ data' = Put(data, id, NewEvent(s, t, m, cat, i, id, PrevHash(i)))
        /\ order' = Put(order, i, id)
        /\ dedup' = Recorded(s, t, m, h, key, i)
        /\ index' = Indexed(s, t, i)
        /\ Totals(i + 1)
        /\ guard' = FALSE

(* The path that finds a duplicate returns before the guard is removed, and  *)
(* after the rate counter is charged.                                        *)
ReturnExisting == /\ guard' = TRUE
                  /\ UNCHANGED <<order, data, cfg, rs, index, dedup>>

log_event_with_hierarchy(s, t, m, cat, force, h, key) ==
    /\ MayLog(s, t, m)
    /\ rateState' = RateCharged(s)
    /\ IF ~force /\ DuplicatesOf(s, t, m, h, key) # {}
       THEN ReturnExisting
       ELSE StoreEvent(s, t, m, cat, h, key)

(* The event id the call above returns.                                      *)
LoggedId(s, t, m, h) ==
    LET dups == DuplicatesOf(s, t, m, h, {})
    IN  IF dups # {} THEN order[CHOOSE i \in dups : TRUE] ELSE NextId(s, t, m, h)

-----------------------------------------------------------------------------
(* Entry points.                                                             *)

log_event(s, t, m, cat, force, h) ==
    /\ log_event_with_hierarchy(s, t, m, cat, force, h, {})
    /\ UNCHANGED <<now, extraVars, histVars, govVars>>

log_event_with_custom_key(s, t, m, cat, force, h, key) ==
    /\ log_event_with_hierarchy(s, t, m, cat, force, h, key)
    /\ UNCHANGED <<now, extraVars, histVars, govVars>>

(* The signature payload is stored unverified under the returned id.         *)
log_event_signed(s, t, m, h) ==
    /\ log_event_with_hierarchy(s, t, m, "general", FALSE, h, {})
    /\ sigs' = sigs \cup {LoggedId(s, t, m, h)}
    /\ UNCHANGED <<now, nonces, histVars, govVars>>

-----------------------------------------------------------------------------
(* Nonces.                                                                   *)

StoredNonce(s) ==
    GetOr(nonces.state, s,
          [last |-> 0, window |-> nonces.window, max |-> nonces.max])

(* A per-submitter configuration replaces the stored state altogether, its   *)
(* last nonce included.                                                      *)
EffectiveNonce(s) == GetOr(nonces.config, s, StoredNonce(s))

(* Faulty variant: the ordering check is missing.                            *)
NonceAcceptedInAnyOrder(s, n) == n # 0 /\ n <= EffectiveNonce(s).max

NonceAccepted(s, n) ==
    LET e == EffectiveNonce(s)
    IN  /\ n <= e.max
        /\ n # 0 /\ n > e.last
        /\ e.window > 0 => n - e.last <= e.window

log_event_with_nonce(s, t, m, n, h) ==
    /\ NonceAccepted(s, n)
    /\ log_event_with_hierarchy(s, t, m, "general", FALSE, h, {})
    /\ nonces' = [nonces EXCEPT !.state =
                    Put(@, s, [EffectiveNonce(s) EXCEPT !.last = n])]
    /\ UNCHANGED <<now, sigs, histVars, govVars>>

set_submitter_nonce_config(c, s, window, max) ==
    /\ require_owner_or_multisig(c)
    /\ max # 0
    /\ nonces' = [nonces EXCEPT !.config =
                    Put(@, s, [last |-> StoredNonce(s).last,
                               window |-> window, max |-> max])]
    /\ UNCHANGED <<now, logVars, sigs, histVars, govVars>>

reset_submitter_nonce(c, s) ==
    /\ require_owner_or_multisig(c)
    /\ nonces' = [nonces EXCEPT
                    !.state = Put(@, s, [StoredNonce(s) EXCEPT !.last = 0]),
                    !.config = Drop(@, s)]
    /\ UNCHANGED <<now, logVars, sigs, histVars, govVars>>

set_default_nonce_config(c, window, max) ==
    /\ require_owner_or_multisig(c)
    /\ max # 0
    /\ nonces' = [nonces EXCEPT !.window = window, !.max = max]
    /\ UNCHANGED <<now, logVars, sigs, histVars, govVars>>

-----------------------------------------------------------------------------
(* The batch. It reads the pause flag and the totals from RuntimeState.      *)

(* Faulty variant: earlier events of the same batch are not counted.         *)
SameTypeAlone(items, k) == {k}

(* Members of the batch up to position k that agree with the k-th one.       *)
SameSubmitter(items, k) ==
    {j \in 1..k : items[j].submitter = items[k].submitter}
SameType(items, k) ==
    {j \in 1..k : items[j].event_type = items[k].event_type}

BatchItemAllowed(items, k) ==
    LET s == items[k].submitter
        t == items[k].event_type
    IN  /\ require_role_min(s, "Submitter")
        /\ MetadataAllowed(t, items[k].metadata)
        /\ RateLimited(s) =>
              RateUsed(s) + Cardinality(SameSubmitter(items, k)) <= limits.rate[s]
        /\ t \in DOMAIN limits.cap =>
              event_type_count(t) + Cardinality(SameType(items, k)) <= limits.cap[t]

(* Faulty variant: checks that there is room, not that there is enough.      *)
MayLogBatchIfRoom(items) ==
    /\ ~rs.paused
    /\ rs.total < rs.max
    /\ \A k \in 1..Len(items) : BatchItemAllowed(items, k)

MayLogBatch(items) ==
    /\ ~rs.paused
    /\ rs.total + Len(items) <= rs.max
    /\ \A k \in 1..Len(items) : BatchItemAllowed(items, k)

(* The k-th event of the batch gets position rs.total + k - 1.               *)
BatchIndex(k) == rs.total + k - 1

BatchId(items, k) ==
    compute_event_id(items[k].submitter, items[k].event_type, items[k].metadata,
                     now, BatchIndex(k), items[k].handle)

(* The hash chain after k events of the batch.                               *)
BatchHash(items, k) ==
    PrevHash(rs.total) \o [j \in 1..k |-> Link(BatchId(items, j), BatchIndex(j), now)]

BatchEvent(items, k) ==
    [index |-> BatchIndex(k), timestamp |-> now,
     event_type |-> items[k].event_type, category |-> "general",
     submitter |-> items[k].submitter, metadata |-> items[k].metadata,
     prev_hash |-> BatchHash(items, k - 1), event_hash |-> BatchHash(items, k)]

(* Faulty variant: every position of the batch is pushed.                    *)
PositionsOfBatch(items, t) == {BatchIndex(k) : k \in 1..Len(items)}

(* Positions of the batch's events of type t, and of those s submitted.      *)
PositionsOfType(items, t) ==
    {BatchIndex(k) : k \in {j \in 1..Len(items) : items[j].event_type = t}}
PositionsOfSubmitter(items, s) ==
    {BatchIndex(k) : k \in {j \in 1..Len(items) : items[j].submitter = s}}

(* The indexes after the batch. Unlike log_event, the cached count is        *)
(* incremented from its own value.                                           *)
BatchIndexed(items) ==
    IF access.lowCost THEN index
    ELSE [types      |-> [t \in EventType |->
                            index.types[t] \cup PositionsOfType(items, t)],
          counts     |-> [t \in EventType |->
                            index.counts[t] + Cardinality(PositionsOfType(items, t))],
          submitters |-> [s \in Address |->
                            index.submitters[s] \cup PositionsOfSubmitter(items, s)]]

(* The event stored under id, if the batch stores one: ids carry positions.  *)
BatchData(items) ==
    LET ids == {BatchId(items, k) : k \in 1..Len(items)}
    IN  [id \in DOMAIN data \cup ids |->
            IF id \in ids THEN BatchEvent(items, id.index - rs.total + 1)
            ELSE data[id]]

BatchOrder(items) ==
    [i \in DOMAIN order \cup {BatchIndex(k) : k \in 1..Len(items)} |->
        IF i >= rs.total THEN BatchId(items, i - rs.total + 1) ELSE order[i]]

log_events(items) ==
    /\ MayLogBatch(items)
    /\ data' = BatchData(items)
    /\ order' = BatchOrder(items)
    /\ index' = BatchIndexed(items)
    /\ cfg' = [max |-> rs.max, total |-> rs.total + Len(items)]
    /\ rs' = [rs EXCEPT !.total = rs.total + Len(items)]
    /\ UNCHANGED <<now, dedup, rateState, guard, extraVars, histVars, govVars>>
=============================================================================
